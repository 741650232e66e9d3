----------------------------- MODULE MCDirWatch -----------------------------
(***************************************************************************)
(* Small instances of DirWatch for TLC.                                    *)
(***************************************************************************)
EXTENDS DirWatch

\* A directory in a directory, whose names together are the name of a third.
MCPaths == {<<>>, <<"a">>, <<"ab">>, <<"a", "b">>}
MCJoins == {<<"a", "b", "ab">>}
MCFileNames == {"a", "b"}

\* Bound: nothing is looked at behind a rename, which every property exempts.
NothingAfterRename == ~Accident({"moved"})
=============================================================================
