--------------------------- MODULE MCWakeChannel ---------------------------
(***************************************************************************)
(* One slot for the device: its abandoned poll is in its own way.          *)
(***************************************************************************)
EXTENDS WakeChannel
=============================================================================
