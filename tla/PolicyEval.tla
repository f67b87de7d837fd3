------------------------------- MODULE PolicyEval -------------------------------
(***************************************************************************)
(* Judging one output: by the server (the organisation's own policy, then  *)
(* the regulation packs), by the SDK from its cached bundle when the       *)
(* server is out of reach, and by the SDK's quick local precheck.  The     *)
(* model also has the plan that suggests a revision, the edits it applies, *)
(* the rewrite a language model drafts and the pipeline judges again, and  *)
(* the cure the client's auto_remediate applies unattended.                *)
(*                                                                         *)
(* An output is the set of traits the detectors look for.  A rule looks    *)
(* for one signal, as every bundled rule does.  The steps build the policy *)
(* and the output one part at a time, so the reachable states are the      *)
(* inputs of the evaluators within the bounds.                             *)
(***************************************************************************)
EXTENDS Naturals, Sequences, FiniteSets, SequencesExt, BuiltinRules

CONSTANTS OwnRules,    \* rules the organisation may write: [on, tier, decision, priority]
          Rulebooks,   \* packs that may be applied to it, each a set of rules [on, tier]
          Traits,      \* traits an output may have, see Signals
          MaxRules,    \* bound: rules in a policy of its own
          MaxPacks,    \* bound: packs applied
          MaxTraits    \* bound: traits of the output

TierRankOf == [green |-> 0, yellow |-> 1, orange |-> 2, red |-> 3]

\* The traits.  "pii" is personal data the detectors of both sides know, and
\* "spaced_phone" a telephone number written with spaces or dashes, which only
\* the server's pattern matches.  "phrase" is "guaranteed" or "risk-free" in lower
\* case in one of the fields output, summary and prompt, which is all the softener
\* rewrites; "hard_phrase" is any other prohibited phrase, or one of the two in
\* capitals or in another field.  "uncited" is citation_count < 1; "crossing" is
\* a transfer abroad and "basis" its lawful basis; "high" is amount_aed of
\* 100000 or more; "payment" and "clinical" are actions; "advice" and "lending"
\* are what the application declares the output to be, in the documented field
\* "classifier", and "_advice" and "_lending" the same in "_classifier_tier".
AllTraits == {"pii", "spaced_phone", "phrase", "hard_phrase", "uncited", "crossing", "basis", "high",
              "payment", "clinical", "advice", "lending", "_advice", "_lending"}

\* One action, one value in a field.
Exclusive == {{"payment", "clinical"}, {"advice", "lending"}, {"_advice", "_lending"}}

Signals == {"has_pii", "prohibited_phrases", "citation_count", "cross_border", "amount_aed",
            "payment", "clinical", "advice", "lending"}

ASSUME EvalAssumption ==
    /\ Traits \subseteq AllTraits /\ MaxRules \in Nat /\ MaxPacks \in Nat /\ MaxTraits \in Nat
    /\ OwnRules \subseteq [on : Signals, tier : DOMAIN TierRankOf,
                           decision : {"allow", "flag", "deny"}, priority : Nat]
    /\ Rulebooks \subseteq SUBSET [on : Signals, tier : DOMAIN TierRankOf]

VARIABLES
    policy,     \* the rules of the active policy, in document order
    packs,      \* the packs applied to the organisation
    output,     \* the traits of the output
    failMode    \* org.fail_mode

evalVars == <<policy, packs, output, failMode>>

-----------------------------------------------------------------------------
(* Tiers and layers.  Both sides have the same layers, with detectors of   *)
(* their own: side is "server" or "sdk".                                   *)

\* max_tier: the first wins a tie.
MaxTier(a, b) == IF TierRankOf[b] > TierRankOf[a] THEN b ELSE a

Strictest(base, tiers) == FoldLeft(MaxTier, base, SetToSeq(tiers))

\* detect_pii_labels: the SDK's telephone pattern knows the unbroken form only.
HasPii(side, o) == "pii" \in o \/ (side = "server" /\ "spaced_phone" \in o)

\* extract_features and run_deterministic_layers: the tiers the built-in layers
\* raise, and their floor.
LayerTiers(side, o) ==
    {l[2] : l \in {k \in {<<"uncited", "yellow">>, <<"phrase", "orange">>,
                          <<"hard_phrase", "orange">>, <<"high", "orange">>} : k[1] \in o}}
    \cup (IF HasPii(side, o) THEN {"orange"} ELSE {})
    \cup (IF "crossing" \in o /\ "basis" \notin o THEN {"red"} ELSE {})

Floor(side, o) == Strictest("green", LayerTiers(side, o))

-----------------------------------------------------------------------------
(* Rules.                                                                  *)

\* rule_matches, but for the classifier.
PlainMatch(side, on, o) ==
    \/ on = "has_pii" /\ HasPii(side, o)
    \/ on = "prohibited_phrases" /\ {"phrase", "hard_phrase"} \cap o # {}
    \/ on = "citation_count" /\ "uncited" \in o
    \/ on = "cross_border" /\ "crossing" \in o /\ "basis" \notin o
    \/ on = "amount_aed" /\ "high" \in o
    \/ on \in {"payment", "clinical"} /\ on \in o

\* The older hint says x.
Hinted(x, o) == \/ x = "advice" /\ "_advice" \in o
                \/ x = "lending" /\ "_lending" \in o

\* rule_matches on the server: the documented field, or else the older hint.
RuleMatches(on, o) ==
    \/ PlainMatch("server", on, o)
    \/ on \in {"advice", "lending"} /\ on \in o
    \/ {"advice", "lending"} \cap o = {} /\ Hinted(on, o)

\* Mutant: the SDK forgets the hint too.
UnhintedMatches(on, o) == PlainMatch("sdk", on, o)

\* rule_matches in the SDK: the older hint only.
LocalRuleMatches(on, o) == PlainMatch("sdk", on, o) \/ Hinted(on, o)

Matches(side, on, o) == IF side = "server" THEN RuleMatches(on, o) ELSE LocalRuleMatches(on, o)

\* The positions of the rules that match.
Hits(side, rules, o) == {i \in DOMAIN rules : Matches(side, rules[i].on, o)}

\* Rule i comes before rule j: by descending priority, in document order among
\* equals.
Before(rules, i, j) ==
    \/ rules[i].priority > rules[j].priority
    \/ rules[i].priority = rules[j].priority /\ i <= j

\* _first_matching_rule, when one matches.
FirstMatchingRule(side, rules, o) ==
    rules[CHOOSE i \in Hits(side, rules, o) : \A j \in Hits(side, rules, o) : Before(rules, i, j)]

\* _default_decision
DefaultDecision(tier) == CASE tier = "red" -> "deny" [] tier = "yellow" -> "flag" [] OTHER -> "allow"

\* _decision_allowed: a red flag waits for a person unless the organisation
\* lets flags through.
DecisionAllowed(tier, decision, mode) ==
    decision # "deny" /\ (decision = "flag" /\ tier = "red" => mode = "allow_with_flag")

\* The verdict on the output when a rule of the policy matches.
RuleVerdict(side, hit, o, mode) ==
    LET tier == MaxTier(Floor(side, o), hit.tier)
    IN  [tier |-> tier, decision |-> hit.decision, allowed |-> DecisionAllowed(tier, hit.decision, mode)]

\* evaluate_local of the SDK: without a rule the layers' default decides.
EvaluateLocal(rules, o, mode) ==
    LET floor == Floor("sdk", o)
    IN  IF Hits("sdk", rules, o) # {}
        THEN RuleVerdict("sdk", FirstMatchingRule("sdk", rules, o), o, mode)
        ELSE [tier |-> floor, decision |-> DefaultDecision(floor),
              allowed |-> DecisionAllowed(floor, DefaultDecision(floor), mode)]

\* evaluate_policy_input of the server: without a rule the layers only flag.
Evaluate(rules, o, mode) ==
    LET floor == Floor("server", o)
    IN  IF Hits("server", rules, o) # {}
        THEN RuleVerdict("server", FirstMatchingRule("server", rules, o), o, mode)
        ELSE [tier |-> floor, allowed |-> TRUE,
              decision |-> IF floor = "red" THEN "flag" ELSE DefaultDecision(floor)]

-----------------------------------------------------------------------------
(* Packs and the verdict.                                                  *)

\* evaluate_packs, and _pack_findings of the SDK: the rules that match.
Findings(side, o) == {r \in UNION packs : Matches(side, r.on, o)}

\* combined_tier and derive_status, and OfflineBundle.evaluate after its call
\* of evaluate_local.
Status(v, found) ==
    LET tier == Strictest(v.tier, {r.tier : r \in found})
    IN  [tier |-> tier, status |-> IF ~v.allowed THEN "blocked"
                                   ELSE IF tier \in {"orange", "red"} \/ found # {} THEN "flagged"
                                   ELSE "compliant"]

\* The gate's verdict, which is also the preview's.
ServerStatus(o) == Status(Evaluate(policy, o, failMode), Findings("server", o))

\* The verdict from the cached bundle; with nothing cached there is none.
OfflineStatus(o) ==
    IF policy = <<>> /\ packs = {} THEN [tier |-> "none", status |-> "unevaluated"]
    ELSE Status(EvaluateLocal(policy, o, failMode), Findings("sdk", o))

\* needs_server_escalation
NeedsServerEscalation(v) == v.tier \in {"orange", "red"} \/ ~v.allowed

-----------------------------------------------------------------------------
(* Remediation.                                                            *)

\* redact_payload: every pattern the detector knows is replaced.
Redacted(o) == o \ {"pii", "spaced_phone"}

\* _soften_claims: the two phrases it rewrites, where it looks for them.
Softened(o) == o \ {"phrase"}

\* apply_mitigation_ids with the edits the plan chooses.
Revised(o) == Softened(Redacted(o))

\* remediation.plan for an output that is flagged: a revision when an edit
\* applies, the evidence that is missing, and the findings nothing cures.
Plan(o) ==
    [revised      |-> /\ HasPii("server", o) \/ {"phrase", "hard_phrase"} \cap o # {}
                      /\ ~HasPii("server", Revised(o)),
     requirements |-> "crossing" \in o /\ "basis" \notin o,
     unresolved   |-> {r \in Findings("server", o) :
                          r.on \notin {"has_pii", "prohibited_phrases", "cross_border"}}]

\* draft_rewrite: what a language model may make of the output, here any part of
\* it, and whether it says that the nature of the output changed.
Drafts(o) == [output : SUBSET o, reclassified : BOOLEAN]

\* _unrecorded_status: what the pipeline says of a draft, without a trace of it.
UnrecordedStatus(o) == Status(Evaluate(policy, o, failMode), Findings("server", o)).status

\* The rewrites run_precheck may attach: for a flagged output with unresolved
\* findings, a draft that the same pipeline finds compliant.
Rewrites(o) ==
    {d \in Drafts(o) : /\ ServerStatus(o).status = "flagged" /\ Plan(o).unresolved # {}
                       /\ UnrecordedStatus(d.output) = "compliant"}

\* _complete_cure of the client: a rewrite that needs no confirmation, or the
\* revision if nothing else is left to do.
CompleteCures(o) ==
    {d.output : d \in {r \in Rewrites(o) : ~r.reclassified}}
    \cup {c \in {Revised(o)} : Plan(o).revised /\ ~Plan(o).requirements /\ Plan(o).unresolved = {}}

\* _maybe_auto_remediate, for a tier set to "auto": the outputs the client may
\* send to the gate a second time.
AutoRemediated(o) == IF ServerStatus(o).status = "flagged" THEN CompleteCures(o) ELSE {}

-----------------------------------------------------------------------------
(* Building the inputs.                                                    *)

WriteRule(r) ==
    /\ Len(policy) < MaxRules /\ r \notin Range(policy)
    /\ policy' = Append(policy, r)
    /\ UNCHANGED <<packs, output, failMode>>

ApplyPack(p) ==
    /\ Cardinality(packs) < MaxPacks
    /\ packs' = packs \cup {p}
    /\ UNCHANGED <<policy, output, failMode>>

AddTrait(t) ==
    /\ Cardinality(output) < MaxTraits
    /\ \A X \in Exclusive : t \in X => X \cap output = {}
    /\ output' = output \cup {t}
    /\ UNCHANGED <<policy, packs, failMode>>

\* The organisation has the reference policy, or writes its own.
EvalInit ==
    /\ policy \in {<<>>, DEFAULT_POLICY_RULES} /\ packs = {} /\ output = {}
    /\ failMode \in {"deny_on_error", "allow_with_flag"}

EvalNext ==
    \/ \E r \in OwnRules : WriteRule(r)
    \/ \E p \in Rulebooks : ApplyPack(p)
    \/ \E t \in Traits : AddTrait(t)

EvalSpec == EvalInit /\ [][EvalNext]_evalVars

-----------------------------------------------------------------------------
(* Properties.                                                             *)

\* Only the organisation's own policy blocks: a blocked output has a rule of the
\* policy that denies it or holds it for a person and that no rule of a higher
\* priority overrides (evaluate_policy_input, tier_allows_action).
OnlyOwnPolicyBlocks ==
    ServerStatus(output).status = "blocked" =>
        \E i \in DOMAIN policy :
            /\ RuleMatches(policy[i].on, output) /\ policy[i].decision \in {"deny", "flag"}
            /\ \A j \in DOMAIN policy :
                  RuleMatches(policy[j].on, output) => policy[j].priority <= policy[i].priority

\* Both sides see the same in an output that has no telephone number in groups
\* and does not use the documented field "classifier".
SeenAlike(o) == {"spaced_phone", "advice", "lending"} \cap o = {}

\* What the local precheck answers without asking the server, the server allows at
\* the same tier under the same policy, but for the outputs the two do not see
\* alike: the default decisions and the order of the rules make no difference
\* (precheck_smart, needs_server_escalation).
LocalAllowIsServerAllow ==
    LET local  == EvaluateLocal(policy, output, failMode)
        server == Evaluate(policy, output, failMode)
    IN  SeenAlike(output) /\ ~NeedsServerEscalation(local) => server.allowed /\ server.tier = local.tier

\* "Local precheck for green/yellow; server escalation for orange/red": an output
\* the server judges orange or red is not answered locally (precheck_smart).  (Not so where their detectors
\* differ.)
OrangeRedEscalates ==
    Evaluate(policy, output, failMode).tier \in {"orange", "red"} =>
        NeedsServerEscalation(EvaluateLocal(policy, output, failMode))

\* The cure auto_remediate applies unattended "cures EVERYTHING": judged again it
\* is compliant (_complete_cure, remediation.plan).
CureComplete == \A cure \in AutoRemediated(output) : ServerStatus(cure).status = "compliant"

\* With a fresh bundle the offline verdict is the server's: "an output does not
\* get one answer when Attest is up and a different one when it is down"
\* (OfflineBundle.evaluate).  (Not so without a rule that matches.)
SameVerdictOffline ==
    policy # <<>> => OfflineStatus(output).status = ServerStatus(output).status
=============================================================================
