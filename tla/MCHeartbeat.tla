---------------------------- MODULE MCHeartbeat ----------------------------
(***************************************************************************)
(* A small instance of Heartbeat for TLC.  The unit of time is the         *)
(* interval, so 1 and 4 are the 60 s and the 240 s of constant.h.          *)
(***************************************************************************)
EXTENDS Heartbeat
=============================================================================
