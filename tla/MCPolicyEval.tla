--------------------------- MODULE MCPolicyEval ---------------------------
(* Instances of PolicyEval for TLC: rules of a customer's policy, and the *)
(* packs the repository ships.                                            *)
EXTENDS PolicyEval

MCOwnRules ==
    {PolicyRule("cross_border", "red", "flag", 2), PolicyRule("advice", "red", "deny", 2),
     PolicyRule("payment", "green", "allow", 3)}

MCRulebooks == {p.rules : p \in BUILTIN_PACKS}
=============================================================================
