------------------------------ MODULE MCTracker ------------------------------
(***************************************************************************)
(* Small instances of Tracker for TLC.                                     *)
(***************************************************************************)
EXTENDS Tracker, TLC

MCSocks == {4, 5, 6}
TwoSocks == {4, 5}

Announce(ts, size, type) ==
  [n \in Names |-> [timestamp |-> ts, size |-> size, type |-> type]]

\* A file and its deletion in a later second.
CreateAndDelete ==
  {Announce(1, 1, "FILE_CREATE"), Announce(2, 1, "FILE_DELETE")}

OneVersion == {Announce(1, 1, "FILE_CREATE")}

\* A file, a larger one of the same second, and a later deletion.
ThreeVersions ==
  {Announce(1, 2, "FILE_CREATE"), Announce(1, 3, "FILE_MODIFY"),
   Announce(2, 1, "FILE_DELETE")}

MCFileTypes == {"FILE_CREATE", "FILE_MODIFY", "FILE_DELETE"}

\* A tracker that has freed the head twice is followed as far as two cells go.
FewCellsWhenCorrupt == heap = "corrupt" => Len(peer_head) <= 2

Symmetry == Permutations(Ips)
=============================================================================
