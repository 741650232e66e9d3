------------------------------ MODULE Registry ------------------------------
(***************************************************************************)
(* What the tracker promises: for each file the newest version that was    *)
(* announced, and for that version the peers to ask for it, who announced  *)
(* it and are there.  There are no connections, lists or threads here;     *)
(* Tracker implements this module.                                         *)
(***************************************************************************)
EXTENDS Integers, FiniteSets

CONSTANTS
  Names,
  Ips,
  Announcements,  \* announced tables: from names to NoFile or to a node
  Capacity,       \* how many holders of a version are remembered
  NoFile

VARIABLES
  version,  \* the newest version of each name, or NoFile
  holders,  \* who has announced it
  online,   \* the addresses that are connected and have been heard
  running   \* the tracker has neither died nor lost hold of its connections

vars == <<version, holders, online, running>>

VersionOf(node) == <<node.timestamp, node.size>>

Later(v, w) == v[1] > w[1] \/ (v[1] = w[1] /\ v[2] > w[2])

Init ==
  /\ version = [n \in Names |-> NoFile]
  /\ holders = [n \in Names |-> {}]
  /\ online = {}
  /\ running = TRUE

\* The address comes, goes, or has other connections left.
Only(ip) == online' \ {ip} = online \ {ip}

\* An address is heard for the first time.
Join(ip) ==
  /\ running /\ running'
  /\ online' = online \cup {ip}
  /\ UNCHANGED <<version, holders>>

\* A connection of the address has ended, failed or expired: it is offered for
\* nothing until it announces again.
Leave(ip) ==
  /\ running /\ running'
  /\ Only(ip)
  /\ version' = version
  /\ holders' = [n \in Names |-> holders[n] \ {ip}]

IsNews(node, v) == node # NoFile /\ (v = NoFile \/ Later(VersionOf(node), v))
IsKnown(node, v) == node # NoFile /\ v # NoFile /\ VersionOf(node) = v

Merged(table) ==
  [n \in Names |-> IF IsNews(table[n], version[n]) THEN VersionOf(table[n]) ELSE version[n]]

Offering(table, ip) ==
  [n \in Names |->
     CASE IsNews(table[n], version[n]) -> {ip}
       [] IsKnown(table[n], version[n]) /\ Cardinality(holders[n]) < Capacity
            -> holders[n] \cup {ip}
       [] OTHER -> holders[n]]

\* A peer announces its table; a connection to a peer may be found broken then.
Announce(ip, table, broken) ==
  /\ running /\ running'
  /\ version' = Merged(table)
  /\ holders' = [n \in Names |-> Offering(table, ip)[n] \ broken]
  /\ online' \ broken = (online \cup {ip}) \ broken

\* From here on holders and addresses online may be anything.
Crash == running /\ ~running'

\* Whatever is wrong with it, no version is lost or taken back.
Adrift ==
  /\ ~running /\ ~running'
  /\ \A n \in Names : \/ version[n] = NoFile
                      \/ version'[n] = version[n]
                      \/ version'[n] # NoFile /\ Later(version'[n], version[n])

Next ==
  \/ \E ip \in Ips : \/ Join(ip) \/ Leave(ip)
                     \/ \E table \in Announcements :
                          \E broken \in {{}} \cup {{q} : q \in Ips} : Announce(ip, table, broken)
  \/ Crash
  \/ Adrift

Spec == Init /\ [][Next]_vars
=============================================================================
