-------------------------- MODULE MCBroadcastStream --------------------------
(***************************************************************************)
(* BroadcastStream with the bounds of its .cfg files; the handshake        *)
(* threads are interchangeable.                                            *)
(***************************************************************************)
EXTENDS BroadcastStream, TLC

Symmetry == Permutations(Threads)

\* No property says anything of what is sent once the list is torn: one more table
\* is enough to see that it may be.
FewTablesWhenTorn == torn => Len(sizes) <= 2
=============================================================================
