---------------------------- MODULE MCEventChain ----------------------------
(* EventChain on a small instance: two workers serve two organisations that *)
(* write to two traces.                                                     *)
EXTENDS EventChain, TLC

Symmetry == Permutations(Workers) \cup Permutations(Orgs) \cup Permutations(Traces)
=============================================================================
