------------------------------- MODULE MCSync -------------------------------
(***************************************************************************)
(* A small instance of Sync for TLC.                                       *)
(***************************************************************************)
EXTENDS Sync, TLC

Symmetry == Permutations(Ips)

\* With clocks at odds, one download at a time.
OneLoadWhenSkewed ==
  (\E p \in Ips : "skewed" \in mishaps[p]) =>
    \A p \in Ips, k \in LoadIds : k > 1 => loads[p][k] = Idle
=============================================================================
