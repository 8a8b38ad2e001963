--------------------------- MODULE MCDeviceWindow ---------------------------
(* Two contexts, two devices, a 64-bit and a 32-bit frame, three pages of   *)
(* window: the frames and the window both run out.                          *)
EXTENDS DeviceWindow

MCLong == <<100>>
MCShort == <<10>>
=============================================================================
