------------------------------ MODULE MCSmpBoot ------------------------------
(* Three application processors: one is started while one sets itself up    *)
(* and one may be in tasking_init_ap already.                               *)
EXTENDS SmpBoot
=============================================================================
