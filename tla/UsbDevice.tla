----------------------------- MODULE UsbDevice -----------------------------
(***************************************************************************)
(* Enumeration of the devices on a UHCI controller: the root ports         *)
(* (usb_uhci_init), the creation of a device (usb_device.c), the hub and   *)
(* the keyboard driver, over the control transfers of UsbUhci.             *)
(*                                                                         *)
(* A device that was reset answers at address 0 until it is given another. *)
(* The driver resets one port, talks to address 0 and hands out the        *)
(* address before it resets the next one; creating a hub enumerates what   *)
(* is behind it first, so that there is a stack of devices being created.  *)
(* Any packet may fail.  The devices are external: they take a request in  *)
(* its last packet, and if that one fails nobody knows whether they did.   *)
(*                                                                         *)
(* Abstractions: a descriptor says what a device is and nothing else; what *)
(* the driver does after acting on a descriptor that it did not get is     *)
(* open (pc = "undefined").                                                *)
(***************************************************************************)
EXTENDS UsbUhci

CONSTANTS
  Devices, Root,   (* the devices and the root hub                          *)
  Kind,            (* "hub", "keyboard" or "other"                          *)
  Parent, PortOf,  (* where each is plugged in                              *)
  HubPorts,        (* NumPorts of each hub                                  *)
  Interval,        (* Interval of the keyboards' endpoints                  *)
  MaxDevices,      (* USB_MAX_DEVICES                                       *)
  MaxPackets,      (* bound: packets of data in a request                   *)
  StringRequests,  (* requests for strings: two for each of three           *)
  PortTries,       (* resets of a port of a hub: 5                          *)
  StatusTries      (* questions after its state: 10                         *)

(* An interval of 1 takes the main queue out of every frame and with it    *)
(* all control transfers; 0 never leaves the loop over the frames.         *)
ASSUME DeviceAssumption ==
  /\ Root \notin Devices
  /\ Kind \in [Devices -> {"hub", "keyboard", "other"}]
  /\ Parent \in [Devices -> Devices \cup {Root}]
  /\ PortOf \in [Devices -> Nat \ {0}]
  /\ \A d, e \in Devices : Parent[d] = Parent[e] /\ PortOf[d] = PortOf[e] => d = e
  /\ {HubPorts, MaxDevices, MaxPackets, StringRequests, PortTries, StatusTries} \subseteq Nat \ {0}
  /\ Interval \in Nat /\ Interval >= 2

VARIABLES
  stack,      (* the calls of usb_device_create, usb_uhci_init first        *)
  asked,      (* whether the request of the last of them was sent           *)
  Address,    (* of the devices that the driver knows; 0 in setup mode      *)
  AddressPool,(* the addresses in use                                       *)
  created,    (* the devices that were added to their parents               *)
  answers,    (* external: the address that each device answers at          *)
  troubled    (* history: a packet failed, a port was not enabled or no     *)
              (* address was left                                           *)

enumeration == <<stack, asked, Address, AddressPool, created>>
vars == <<uhciVars, enumeration, answers, troubled>>

OFF == -1
Call(d, s) == [dev |-> d, stage |-> s, port |-> 1, attempt |-> 0, polls |-> 0]
Top == stack[Len(stack)]
Become(call) == stack' = [stack EXCEPT ![Len(stack)] = call]
Enter(s) == Become([Top EXCEPT !.stage = s, !.polls = 0])
Push(d) == stack' = Append([stack EXCEPT ![Len(stack)].stage = "child"], Call(d, "desc8"))

Init ==
  /\ UhciInit
  /\ stack = <<Call(Root, "port")>> /\ asked = FALSE
  /\ Address = [d \in Devices |-> 0] /\ AddressPool = {} /\ created = {}
  /\ answers = [d \in Devices |-> OFF] /\ troubled = FALSE

-----------------------------------------------------------------------------
(* The devices.                                                            *)
Above[d \in Devices] == {Parent[d]} \cup IF Parent[d] = Root THEN {} ELSE Above[Parent[d]]
At(hub, port) == {d \in Devices : Parent[d] = hub /\ PortOf[d] = port}

(* A reset of the devices S cuts off what is behind them.                  *)
Reset(S) ==
  [d \in Devices |-> IF d \in S THEN 0 ELSE IF Above[d] \cap S # {} THEN OFF ELSE answers[d]]

FreeAddressesMutant == 1..MaxDevices    \* the pool is not looked at

(* usb_uhci_address_alloc: the first free address.                         *)
FreeAddresses == (1..MaxDevices) \ AddressPool
NewAddress == CHOOSE a \in FreeAddresses : \A b \in FreeAddresses : a <= b

Answering == {d \in Devices : answers[d] = Address[Top.dev]}

(* What the devices S do when they take the request.                       *)
Taken(S) ==
  CASE Top.stage = "address" -> [d \in Devices |-> IF d \in S THEN NewAddress ELSE answers[d]]
    [] Top.stage = "reset" -> Reset(UNION {At(d, Top.port) : d \in S})
    [] OTHER -> answers

Packet(q, ok) ==
  /\ Execute(q, ok)
  /\ q = current /\ q \notin interrupts => (ok => Answering # {})
  /\ IF LastPacket(q)
     THEN \E S \in SUBSET Answering : (ok => S # {}) /\ answers' = Taken(S)
     ELSE UNCHANGED answers
  /\ troubled' = (troubled \/ (~ok /\ q \notin interrupts))
  /\ UNCHANGED enumeration

Controller == Advance /\ UNCHANGED <<enumeration, answers, troubled>>

-----------------------------------------------------------------------------
(* The requests for a device, in order, and the packets of data in each.   *)
Setup == <<"desc8", "desc", "lang", "strings", "address", "config", "fullConfig">>
Configuration == <<"setConfig", "getConfig">>
HubStart == <<"hubDesc", "fullHubDesc">>
Requests ==
  {Setup[i] : i \in DOMAIN Setup} \cup {Configuration[i] : i \in 1..2}
    \cup {HubStart[i] : i \in 1..2} \cup {"power", "reset", "status"}

Packets(s) ==
  CASE s \in {"address", "setConfig", "power", "reset"} -> {0}
    [] s \in {"desc8", "getConfig", "hubDesc", "status"} -> {1}
    [] OTHER -> 1..MaxPackets

(* There may be no address left to set.                                    *)
NoAddressFound == Top.stage = "address" /\ FreeAddresses = {}

(* A request goes out as a control transfer.                               *)
Request ==
  /\ stack # <<>> /\ Top.stage \in Requests /\ ~asked
  /\ IF NoAddressFound
     THEN Enter("failed") /\ troubled' = TRUE /\ UNCHANGED <<uhciVars, asked>>
     ELSE /\ \E k \in Packets(Top.stage) : Control(k)
          /\ asked' = TRUE /\ UNCHANGED <<stack, troubled>>
  /\ UNCHANGED <<Address, AddressPool, created, answers>>

Transfer == Driver /\ UNCHANGED <<enumeration, answers, troubled>>

(* The transfer is over; the caller looks at the result.                   *)
Result(ok) ==
  /\ pc = "idle" /\ asked /\ status = ok
  /\ asked' = FALSE

(* The steps after success.                                                *)
After(s) ==
  CASE s = "desc8" -> {"desc"}
    [] s = "desc" -> {"lang"}
    [] s = "lang" -> {"strings", "address"}
    [] s = "strings" -> {"address"} \cup IF Top.polls + 1 < StringRequests THEN {"strings"} ELSE {}
    [] s = "address" -> {"config"}
    [] s = "config" -> {"fullConfig"}
    [] s = "fullConfig" -> IF Kind[Top.dev] = "other" THEN {"created"} ELSE {"setConfig"}
    [] s = "setConfig" -> {"getConfig"}
    [] s = "getConfig" -> IF Kind[Top.dev] = "hub" THEN {"hubDesc"} ELSE {"start"}
    [] s = "hubDesc" -> {"fullHubDesc"}
    [] s = "fullHubDesc" -> {"power", "reset"}
    [] s = "power" -> IF Top.port < HubPorts THEN {"power"} ELSE {"reset"}
    [] s = "reset" -> {"status"}

(* The driver read what no device, or not only this one, has sent.         *)
Garbled == stalled \/ Answering # {Top.dev}

Continue ==
  \E s \in After(Top.stage) :
    Become([Top EXCEPT !.stage = s,
                       !.port = IF Top.stage # "power" THEN @ ELSE IF s = "power" THEN @ + 1 ELSE 1,
                       !.polls = IF s = Top.stage THEN @ + 1 ELSE 0])

(* A descriptor that decides about the requests to come.                   *)
Decides == {"desc8", "strings", "config", "fullConfig", "hubDesc", "fullHubDesc"}

Success ==
  /\ Result(TRUE) /\ Top.stage # "status"
  /\ Continue
  /\ IF Top.stage = "address"
     THEN /\ AddressPool' = AddressPool \cup {NewAddress}
          /\ Address' = [Address EXCEPT ![Top.dev] = NewAddress]
     ELSE UNCHANGED <<AddressPool, Address>>
  /\ UNCHANGED <<uhciVars, created, answers, troubled>>

(* It did not get the descriptor, and anything may come of it, or another  *)
(* configuration value than it had set.                                    *)
Misled ==
  /\ Result(TRUE) /\ Garbled
  /\ \/ Top.stage \in Decides /\ pc' = "undefined" /\ UNCHANGED stack
     \/ Top.stage = "getConfig" /\ Enter("created") /\ UNCHANGED pc
     \/ Top.stage = "status" /\ At(Top.dev, Top.port) = {} /\ pc' = "undefined" /\ UNCHANGED stack
  /\ UNCHANGED <<pools, schedule, td, retiring, current, seen, status, stalled, interrupts,
                 Address, AddressPool, created, answers, troubled>>

(* One port too many.                                                      *)
NextPortMutant(call) ==
  CASE call.dev # Root /\ call.port <= HubPorts ->
         [call EXCEPT !.port = @ + 1, !.stage = "reset", !.attempt = 0]
    [] call.dev = Root /\ call.port < 2 -> [call EXCEPT !.port = @ + 1, !.stage = "port"]
    [] OTHER -> [call EXCEPT !.stage = "created"]

(* The loops over the ports: the next one, or the end of the loop.         *)
NextPort(call) ==
  CASE call.dev # Root /\ call.port < HubPorts ->
         [call EXCEPT !.port = @ + 1, !.stage = "reset", !.attempt = 0]
    [] call.dev = Root /\ call.port < 2 -> [call EXCEPT !.port = @ + 1, !.stage = "port"]
    [] OTHER -> [call EXCEPT !.stage = "created"]

(* A request failed.  Before the configuration the device is given up,     *)
(* with the address if it has one; after that it stays, without a driver   *)
(* or with its ports unexplored.                                           *)
Failure ==
  /\ Result(FALSE)
  /\ CASE Top.stage \in {"desc8", "desc", "strings", "address", "config", "fullConfig"} -> Enter("failed")
       [] Top.stage = "lang" -> \E s \in After("lang") : Enter(s)
       [] Top.stage \in {"reset", "status"} -> Become(NextPort(Top))
       [] OTHER -> Enter("created")
  /\ UNCHANGED <<uhciVars, Address, AddressPool, created, answers, troubled>>

(* The state of a port: a device that is enabled, one that is not enabled  *)
(* yet, or none.                                                           *)
PortEnabled ==
  /\ Result(TRUE) /\ Top.stage = "status"
  /\ \E d \in At(Top.dev, Top.port) : Push(d)
  /\ UNCHANGED <<uhciVars, Address, AddressPool, created, answers, troubled>>

PortNotYet ==
  /\ Result(TRUE) /\ Top.stage = "status"
  /\ At(Top.dev, Top.port) # {} \/ Garbled
  /\ IF Top.polls + 1 < StatusTries
     THEN Become([Top EXCEPT !.polls = @ + 1]) /\ UNCHANGED troubled
     ELSE Become(NextPort(Top)) /\ troubled' = TRUE
  /\ UNCHANGED <<uhciVars, Address, AddressPool, created, answers>>

PortEmpty ==
  /\ Result(TRUE) /\ Top.stage = "status"
  /\ At(Top.dev, Top.port) = {} \/ Garbled
  /\ Become(NextPort(Top))
  /\ UNCHANGED <<uhciVars, Address, AddressPool, created, answers, troubled>>

(* usb_keyboard_init has the endpoint polled by the controller.            *)
Start ==
  /\ stack # <<>> /\ Top.stage = "start"
  /\ InterruptStart(Interval)
  /\ Enter("created")
  /\ UNCHANGED <<asked, Address, AddressPool, created, answers, troubled>>

(* usb_uhci_reset_port and the test of the port's state.                   *)
RootPort ==
  /\ stack # <<>> /\ Top.stage = "port"
  /\ \/ /\ \E d \in At(Root, Top.port) : Push(d) /\ answers' = Reset({d})
        /\ UNCHANGED troubled
     \/ /\ Become(NextPort(Top))
        /\ troubled' = (troubled \/ At(Root, Top.port) # {})
        /\ UNCHANGED answers
  /\ UNCHANGED <<uhciVars, asked, Address, AddressPool, created>>

(* usb_device_create returns.  A hub tries again when it got no device.    *)
Retry(call) ==
  IF call.dev # Root /\ call.attempt + 1 < PortTries
  THEN [call EXCEPT !.stage = "reset", !.attempt = @ + 1]
  ELSE NextPort(call)

Finish ==
  /\ stack # <<>> /\ Top.stage \in {"created", "failed"} /\ pc = "idle"
  /\ IF Len(stack) = 1
     THEN stack' = <<>> /\ UNCHANGED <<Address, created>>
     ELSE LET caller == stack[Len(stack) - 1]
              rest == SubSeq(stack, 1, Len(stack) - 2) IN
          IF Top.stage = "created"
          THEN stack' = Append(rest, NextPort(caller)) /\ created' = created \cup {Top.dev}
               /\ UNCHANGED Address
          ELSE stack' = Append(rest, Retry(caller)) /\ Address' = [Address EXCEPT ![Top.dev] = 0]
               /\ UNCHANGED created
  /\ UNCHANGED <<uhciVars, asked, AddressPool, answers, troubled>>

-----------------------------------------------------------------------------
Host ==
  \/ Request \/ Transfer \/ Success \/ Misled \/ Failure
  \/ PortEnabled \/ PortNotYet \/ PortEmpty \/ Start \/ RootPort \/ Finish

Next == Host \/ Controller \/ \E q \in QHs, ok \in BOOLEAN : Packet(q, ok)

(* The processor runs on; the controller gets on with the queues that it   *)
(* comes to, and no device puts it off for ever.                           *)
Spec ==
  /\ Init /\ [][Next]_vars
  /\ WF_vars(Host) /\ WF_vars(Controller)
  /\ WF_vars(\E ok \in BOOLEAN : pc \in {"wait", "check"} /\ Packet(current, ok))

-----------------------------------------------------------------------------
TypeOK ==
  /\ TransferDescMap \subseteq TDs /\ QueueHeadMap \subseteq QHs /\ MemMap \subseteq Blocks
  /\ frameList \in [Frames -> QHs] /\ head \in [QHs -> QHs \cup {TERMINATE}]
  /\ \A q \in QHs : /\ tds[q] \in Seq(TDs) /\ element[q] \in 1..(Len(tds[q]) + 1)
                    /\ buffer[q] \subseteq Blocks
  /\ td \in [TDs -> {"active", "inactive", "stalled"}]
  /\ retiring \in QHs \cup {TERMINATE} /\ current \in QHs /\ interrupts \subseteq QHs
  /\ pc \in {"idle", "add", "wait", "check", "free", "unlink", "return", "panic", "undefined"}
  /\ seen \in TDs /\ status \in BOOLEAN /\ stalled \in BOOLEAN /\ asked \in BOOLEAN
  /\ \A i \in DOMAIN stack :
       /\ stack[i].dev \in Devices \cup {Root}
       /\ stack[i].stage \in Requests \cup {"port", "child", "start", "created", "failed"}
       /\ stack[i].port \in 1..HubPorts \cup 1..2
       /\ stack[i].attempt \in 0..(PortTries - 1)
       /\ i < Len(stack) <=> stack[i].stage = "child"
  /\ Address \in [Devices -> 0..MaxDevices] /\ AddressPool \subseteq 1..MaxDevices
  /\ created \subseteq Devices /\ answers \in [Devices -> {OFF} \cup 0..MaxDevices]
  /\ troubled \in BOOLEAN

(* What is marked in the pools is what the main queue, the interrupt       *)
(* queues and the transfer in progress consist of: nothing leaks, nothing  *)
(* is given out twice.  And the controller, which goes on following the    *)
(* schedule while usb_uhci_queue_head_process frees a queue before it      *)
(* unlinks it, never comes to a descriptor to execute that is free.        *)
PoolsAgree ==
  LET queued == interrupts \cup (IF pc \in {"add", "wait", "check", "free"} THEN {current} ELSE {})
      inMemory == queued \cup (IF pc \in {"unlink", "return"} THEN {current} ELSE {})
      Of(q) == {tds[q][i] : i \in DOMAIN tds[q]}
  IN
  /\ QueueHeadMap = {Main} \cup queued
  /\ TransferDescMap = UNION {Of(q) : q \in queued}
  /\ MemMap = UNION {buffer[q] : q \in inMemory}
  /\ \A p, q \in queued : p # q => Of(p) \cap Of(q) = {} /\ buffer[p] \cap buffer[q] = {}
  /\ \A q \in Reachable : Pending(q) => q \in queued

(* Devices in use have addresses of their own, marked in AddressPool       *)
(* (usb_uhci_address_alloc).  And as long as nothing goes wrong each       *)
(* device that listens does so at the address the driver has for it, and   *)
(* no two devices at the same one, 0 included, between two requests.       *)
AddressesAgree ==
  /\ \A d \in created : Address[d] \in AddressPool
  /\ \A d, e \in created : d # e => Address[d] # Address[e]
  /\ ~troubled /\ ~asked =>
       \A d \in Devices : answers[d] # OFF =>
         answers[d] = Address[d] /\ \A e \in Devices \ {d} : answers[e] # answers[d]

(* usb_uhci_init comes to an end whatever fails on the bus, unless it runs *)
(* out of descriptors (panic) or acts on a descriptor that it did not get. *)
EnumerationEnds == <>(stack = <<>> \/ pc \in {"panic", "undefined"})
=============================================================================
