-------------------------- MODULE MCCliqueMembership --------------------------
(***************************************************************************)
(* Instances of CliqueMembership for TLC.                                  *)
(***************************************************************************)
EXTENDS CliqueMembership, TLC

CONSTANTS n1, n2, a, b

OneClique  == [n \in Nodes |-> "c1"]
EachGate   == {[cliques |-> g, dns |-> g] : g \in BOOLEAN}
Symmetry   == Permutations(Nodes) \cup Permutations(IPs)

=============================================================================
