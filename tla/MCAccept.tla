------------------------------ MODULE MCAccept ------------------------------
(***************************************************************************)
(* A small instance of Accept for TLC.                                     *)
(***************************************************************************)
EXTENDS Accept

MCFds == 4..5
=============================================================================
