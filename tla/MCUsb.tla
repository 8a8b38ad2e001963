------------------------------- MODULE MCUsb -------------------------------
(* A hub on the first root port with a keyboard on its first port and      *)
(* nothing on its second, a second keyboard on the other root port.  The   *)
(* pools hold just what these need.                                        *)
EXTENDS UsbDevice

CONSTANTS hub, keyboard, other

MCDevices == {hub, keyboard, other}
MCKind == [d \in MCDevices |-> IF d = hub THEN "hub" ELSE "keyboard"]
MCParent == [d \in MCDevices |-> IF d = keyboard THEN hub ELSE Root]
MCPortOf == [d \in MCDevices |-> IF d = other THEN 2 ELSE 1]
=============================================================================
