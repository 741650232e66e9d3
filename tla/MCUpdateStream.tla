--------------------------- MODULE MCUpdateStream ---------------------------
(***************************************************************************)
(* UpdateStream with the bounds of its .cfg files.                         *)
(***************************************************************************)
EXTENDS UpdateStream
=============================================================================
