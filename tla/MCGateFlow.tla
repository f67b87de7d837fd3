----------------------------- MODULE MCGateFlow -----------------------------
(* GateFlow on small instances.                                            *)
EXTENDS GateFlow, TLC

\* An output is clean, flagged by a pack, or denied by the policy.
MCRulings == {[tier |-> "green", allowed |-> TRUE, pack |-> None],
              [tier |-> "green", allowed |-> TRUE, pack |-> "orange"],
              [tier |-> "red", allowed |-> FALSE, pack |-> None]}

Symmetry == Permutations(Workers)

\* Gate calls only.
GateCalls ==
    \E w \in Workers :
        \/ Begin(w) \/ JudgeGate(w) \/ Refuse(w) \/ Crash(w)
        \/ \E ref \in {0} \cup DOMAIN chain : StartGate(w, ref)
=============================================================================
