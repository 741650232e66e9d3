--------------------------- MODULE MCSharedTable ---------------------------
(***************************************************************************)
(* A small instance of SharedTable for TLC.                                *)
(***************************************************************************)
EXTENDS SharedTable

CONSTANTS f, g

Node(name, ts) == [name |-> name, timestamp |-> ts, size |-> 1]

\* Two versions of a file, the later one behind another file.
MCAnnounced == {<<Node(f, 1)>>, <<Node(g, 1), Node(f, 2)>>}

MCFileTypes == {"FILE_CREATE"}

\* Threads are alike, and so are addresses: one of each may be that of the first call.
FirstCallFixed ==
  jobs = 1 => \A t \in Threads : job[t] # None =>
    /\ t = CHOOSE u \in Threads : TRUE
    /\ job[t].ip = CHOOSE ip \in Ips : TRUE
=============================================================================
