------------------------------- MODULE MCRelay -------------------------------
(* Instances of Relay for TLC.                                              *)
EXTENDS Relay, TLC

CONSTANTS c1, c2, a1, a2, g1

PairTo(addresses) == [to : addresses, mode : {"pair"}]
GroupTo(ids) == [to : ids, mode : {"group"}]

\* Pair messages to one address.
PairOnly == PairTo({a1})

\* Pair and group messages to one address in one window.
BothTraffic == PairTo({a1}) \cup GroupTo({a1})

\* Messages of both modes to an address and to another id, and cover frames.
AllTraffic == PairTo({a1, g1}) \cup GroupTo({a1, g1}) \cup [to : {a1}, mode : {"cover"}]

TwoClients == {c1, c2}

\* No property or definition tells connections of one kind apart.
Symmetry == Permutations(Client)

=============================================================================
