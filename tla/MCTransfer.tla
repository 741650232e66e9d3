----------------------------- MODULE MCTransfer -----------------------------
(***************************************************************************)
(* A small instance of Transfer for TLC: two bytes in a packet.            *)
(***************************************************************************)
EXTENDS Transfer

\* Bytes of a text are numbered, so that a misplaced one is seen.
MCFiles == {<<1, 2, 3, 4, 5>>, <<1, NUL, 3, 4>>, <<1, 2, NUL, 4, 5>>}

\* One packet and a part of one; two whole packets, or more than a file has.
MCPieces == {[offset |-> 0, size |-> 3], [offset |-> 1, size |-> 4]}
=============================================================================
