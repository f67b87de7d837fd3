---------------------------- MODULE BuiltinRules ----------------------------
(***************************************************************************)
(* The rulebooks the repository ships: the regulation packs of             *)
(* app/domain/regulation_packs.py and the reference policy.  A rule is     *)
(* the signal it looks for (see PolicyEval) and the tier it raises; a rule *)
(* of a policy also decides and has a priority.  A pack names the places   *)
(* and the sectors it reaches; the sectors are told apart by their group.  *)
(* Instrument, wording and citation of a rule are left out.                *)
(***************************************************************************)

Rule(on, tier) == [on |-> on, tier |-> tier]

PolicyRule(on, tier, decision, priority) ==
    [on |-> on, tier |-> tier, decision |-> decision, priority |-> priority]

-----------------------------------------------------------------------------
(* Regulation packs.                                                       *)

DIFC_DP_REG10 ==
    [places |-> {"difc"}, sectors |-> {"*"},
     rules |-> {Rule("has_pii", "orange"), Rule("advice", "orange"), Rule("lending", "red")}]

DIFC_DP_LAW ==
    [places |-> {"difc"}, sectors |-> {"*"},
     rules |-> {Rule("cross_border", "red"), Rule("has_pii", "orange")}]

ADGM_DP == [places |-> {"adgm"}, sectors |-> {"*"}, rules |-> {}]

UAE_ONSHORE ==
    [places |-> {"uae_onshore"}, sectors |-> {"*"},
     rules |-> {Rule("cross_border", "red"), Rule("payment", "red")}]

UAE_FIN_ENABLING_TECH ==
    [places |-> {"uae_onshore", "difc", "adgm"}, sectors |-> {"financial"},
     rules |-> {Rule("advice", "orange"), Rule("payment", "red")}]

CBUAE_AI_CONSUMER ==
    [places |-> {"uae_onshore"}, sectors |-> {"financial"},
     rules |-> {Rule("lending", "red"), Rule("has_pii", "orange")}]

UAE_HEALTH_AI ==
    [places |-> {"uae_onshore", "difc", "adgm"}, sectors |-> {"health"},
     rules |-> {Rule("has_pii", "orange"), Rule("clinical", "red")}]

BUILTIN_PACKS ==
    {DIFC_DP_REG10, DIFC_DP_LAW, ADGM_DP, UAE_ONSHORE, UAE_FIN_ENABLING_TECH,
     CBUAE_AI_CONSUMER, UAE_HEALTH_AI}

-----------------------------------------------------------------------------
(* The reference policy, which an organisation starts from.                *)

DEFAULT_POLICY_RULES ==
    << PolicyRule("payment", "red", "deny", 1000),       \* wire_transfer
       PolicyRule("payment", "red", "deny", 990),        \* execute_trade
       PolicyRule("cross_border", "red", "deny", 980),
       PolicyRule("advice", "red", "deny", 970),
       PolicyRule("lending", "red", "deny", 960),
       PolicyRule("has_pii", "orange", "flag", 800),
       PolicyRule("prohibited_phrases", "orange", "flag", 750),
       PolicyRule("citation_count", "yellow", "flag", 700),
       PolicyRule("amount_aed", "orange", "flag", 650) >>
=============================================================================
