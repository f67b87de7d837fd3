------------------------------- MODULE GateFlow -------------------------------
(***************************************************************************)
(* Decisions, approvals and remediations on one trace.                     *)
(*                                                                         *)
(* The gate and the precheck judge an output, seal the decision in the     *)
(* chain, index it for the dashboards and ask for an approval when the     *)
(* risk is high; a person resolves the approval; a revised output may cure *)
(* an earlier decision; the workflow gate tells the caller whether to go   *)
(* on.                                                                     *)
(*                                                                         *)
(* A request is a transaction that reads first and writes at the end.  Its *)
(* writes are one step here: EventChain shows that the rows of a request   *)
(* are committed together, at consecutive numbers, or not at all, so that  *)
(* what another request can do in between is to commit before, which makes *)
(* this one's number stale and its append fail.  The lock on an approval   *)
(* row is taken earlier and kept to the end, so it is a step of its own.   *)
(* An argument of a request is chosen in the step that first uses it.      *)
(***************************************************************************)
EXTENDS Naturals, Sequences, FiniteSets

CONSTANTS Workers,     \* server threads, one request each at a time
          Requests,    \* the requests clients make: see Kinds
          Rulings,     \* what the policy and the packs can say of an output
          None,        \* no value
          Limit,       \* approvals the workflow gate looks at (20 in the code)
          MaxDecisions, \* bound: decisions on the trace
          MaxEvents    \* bound: events on the trace

TierRank == [green |-> 0, yellow |-> 1, orange |-> 2, red |-> 3]

Tiers == DOMAIN TierRank

Kinds == {"gate", "replay", "precheck", "resolve"}

ASSUME GateAssumption ==
    /\ Requests \subseteq Kinds
    /\ Rulings \subseteq [tier : Tiers, allowed : BOOLEAN, pack : Tiers \cup {None}]
    /\ None \notin Tiers \cup {"compliant", "flagged", "blocked"}
    /\ Limit \in Nat \ {0}
    /\ MaxDecisions \in Nat /\ MaxEvents \in Nat

VARIABLES
    chain,      \* the events of the trace
    index,      \* policy_decision_summaries: a set of rows
    approvals,  \* approvals: a set of rows, each named by its decision's seq
    began,      \* transactions in the order they began, see Began
    pc,         \* the next statement of each worker's request
    req         \* the request: its arguments and what it has read

vars == <<chain, index, approvals, began, pc, req>>

-----------------------------------------------------------------------------
(* Judging an output.                                                      *)

\* combined_tier: the packs may raise the tier of the policy.
CombinedTier(own, pack) ==
    IF pack # None /\ TierRank[pack] > TierRank[own] THEN pack ELSE own

\* derive_status, the verdict.
DeriveStatus(d) ==
    IF ~d.allowed THEN "blocked"
    ELSE IF d.tier \in {"orange", "red"} \/ d.findings THEN "flagged"
    ELSE "compliant"

\* Mutant: only what was denied is put before a person.
DeniedNeedsApproval(d) == ~d.allowed

\* TIERS_REQUIRING_APPROVAL, applied to the combined tier.
NeedsApproval(d) == d.tier \in {"orange", "red"}

\* The sealed decision on ruling r, made as the cure of decision `of` (0 if it
\* cures none).  A ruling is the policy's tier, whether it allows the output,
\* and the strictest tier among the packs' findings.
Judged(r, of) ==
    [type |-> "policy_decision", tier |-> CombinedTier(r.tier, r.pack), allowed |-> r.allowed,
     findings |-> r.pack # None, failed |-> FALSE, ref |-> of]

\* An engine error under allow_with_flag passes as yellow; the packs still speak.
Waved(r) == [r EXCEPT !.tier = "yellow", !.allowed = TRUE]

\* _fail_closed_response, an engine error under deny_on_error: no findings, and
\* no mention of what it was meant to cure.
FailClosed ==
    [type |-> "policy_decision", tier |-> "red", allowed |-> FALSE,
     findings |-> FALSE, failed |-> TRUE, ref |-> 0]

Decisions(of) ==
    {Judged(r, of) : r \in Rulings} \cup {Judged(Waved(r), of) : r \in Rulings} \cup {FailClosed}

Plain(type, ref) ==
    [type |-> type, tier |-> "green", allowed |-> TRUE,
     findings |-> FALSE, failed |-> FALSE, ref |-> ref]

Output == Plain("output", 0)

\* The approval_action event for approval a.
Resolution(status, a) == Plain(status, a)

Outcomes == {"approved", "denied"}

IsDecision(e) == e.type = "policy_decision"

Event == [type : {"policy_decision", "output"} \cup Outcomes, tier : Tiers,
          allowed : BOOLEAN, findings : BOOLEAN, failed : BOOLEAN, ref : Nat]

\* policy_decision_summaries
IndexRow == [seq : Nat, tier : Tiers, allowed : BOOLEAN, of : Nat, cured : Nat,
             status : {"compliant", "flagged", "blocked", None}, output : Nat]

-----------------------------------------------------------------------------
(* Rows.                                                                   *)

\* Mutant: the gate stamps the number of the decision as that of the output.
IndexRowsOfDecision(d, n, gated) ==
    IF d.failed THEN {}
    ELSE {[seq |-> n, tier |-> d.tier, allowed |-> d.allowed, of |-> d.ref, cured |-> 0,
           status |-> IF gated THEN DeriveStatus(d) ELSE None,
           output |-> IF gated THEN n ELSE 0]}

\* The index row of decision d at number n.  The gate stamps the verdict and
\* the output; the precheck leaves them empty.  A fail-closed decision has none.
IndexRows(d, n, gated) ==
    IF d.failed THEN {}
    ELSE {[seq |-> n, tier |-> d.tier, allowed |-> d.allowed, of |-> d.ref, cured |-> 0,
           status |-> IF gated THEN DeriveStatus(d) ELSE None,
           output |-> IF gated THEN n + 1 ELSE 0]}

\* The approval of decision d at number n, made by the transaction whose first
\* event is number t.
ApprovalRows(d, n, t) ==
    IF NeedsApproval(d) THEN {[id |-> n, tx |-> t, status |-> "pending"]} ELSE {}

\* Mutant: any attempt closes the decision it was meant to cure.
CloseByAttempt(I, d, n) == {IF d.ref # 0 /\ r.seq = d.ref THEN [r EXCEPT !.cured = n] ELSE r : r \in I}

\* Only a compliant decision closes the one it was meant to cure.
Close(I, d, n) ==
    {IF d.ref # 0 /\ r.seq = d.ref /\ DeriveStatus(d) = "compliant" THEN [r EXCEPT !.cured = n] ELSE r :
        r \in I}

-----------------------------------------------------------------------------
(* Requests.                                                               *)

NoReq == [kind |-> "none", seq |-> 0, ref |-> 0]

\* created_at of an approval is the time its transaction began.  Only the order
\* of these times is kept: a transaction stands in `began` as its worker while
\* it runs, then as the number of its first event if it made approvals, and is
\* forgotten if it made none.
Began(a) == CHOOSE i \in DOMAIN began : began[i] = a.tx

Goto(w, step) == pc' = [pc EXCEPT ![w] = step]

Ends(w) == Goto(w, "idle") /\ req' = [req EXCEPT ![w] = NoReq]

Forget(w) == began' = SelectSeq(began, LAMBDA x : x # w)

\* Rows A are the approvals the request of w has made.
Asks(w, A) ==
    /\ approvals' = approvals \cup A
    /\ IF A = {} THEN Forget(w)
       ELSE began' = [i \in DOMAIN began |-> IF began[i] = w THEN Len(chain) + 1 ELSE began[i]]

\* The request fails: nothing it wrote is committed.
Rollback(w) == Ends(w) /\ Forget(w) /\ UNCHANGED <<chain, index, approvals>>

\* A POST of a gate call, a replay or a precheck begins its transaction by
\* reading the caller's organisation.
Begin(w) ==
    /\ pc[w] = "idle"
    /\ Goto(w, "begun")
    /\ began' = Append(began, w)
    /\ UNCHANGED <<chain, index, approvals, req>>

\* _validate_remediates: the reference names a decision of this trace that the
\* gate flagged or blocked.
Curable(ref) == \E r \in index : r.seq = ref /\ r.status \in {"flagged", "blocked"}

\* run_gate, with remediates= if ref # 0, validates the reference and reads
\* the next number; judging the output takes its time.
StartGate(w, ref) ==
    /\ pc[w] = "begun" /\ "gate" \in Requests
    /\ \/ /\ ref # 0 /\ ~Curable(ref)
          /\ Rollback(w)
       \/ /\ ref = 0 \/ Curable(ref)
          /\ req' = [req EXCEPT ![w] = [kind |-> "gate", seq |-> Len(chain) + 1, ref |-> ref]]
          /\ Goto(w, "judge")
          /\ UNCHANGED <<chain, index, approvals, began>>

\* POST /v1/sdk/replay of two outputs on this trace: the first gate call.
StartReplay(w) ==
    /\ pc[w] = "begun" /\ "replay" \in Requests
    /\ req' = [req EXCEPT ![w] = [kind |-> "replay", seq |-> Len(chain) + 1, ref |-> 0]]
    /\ Goto(w, "judge")
    /\ UNCHANGED <<chain, index, approvals, began>>

\* record_event refuses a number that is no longer the next one.
Stale(w) == req[w].seq # Len(chain) + 1

\* Bounds: there is room for n events, m of them decisions.
Fits(n, m) ==
    /\ Len(chain) + n <= MaxEvents
    /\ Len(SelectSeq(chain, IsDecision)) + m <= MaxDecisions

\* Decision d is committed and, in the gate, the output it judged.
Record(w, d, gated) ==
    LET n == Len(chain) + 1
    IN  /\ chain' = chain \o (IF gated THEN <<d, Output>> ELSE <<d>>)
        /\ index' = Close(index, d, n) \cup IndexRows(d, n, gated)
        /\ Asks(w, ApprovalRows(d, n, n))

\* The writes of a gate call.  Without an active policy the output is recorded
\* all the same, unevaluated, at a number read afresh.
JudgeGate(w) ==
    /\ pc[w] = "judge" /\ req[w].kind = "gate"
    /\ \/ /\ ~Stale(w) /\ Fits(2, 1)
          /\ \E d \in Decisions(req[w].ref) : Record(w, d, TRUE)
       \/ /\ Fits(1, 0)
          /\ chain' = Append(chain, Output)
          /\ Asks(w, {})
          /\ UNCHANGED index
    /\ Ends(w)

\* Two gate calls in one transaction: their approvals have the same created_at.
JudgeReplay(w) ==
    LET n == Len(chain) + 1
    IN  /\ pc[w] = "judge" /\ req[w].kind = "replay" /\ ~Stale(w) /\ Fits(4, 2)
        /\ \E d, e \in Decisions(0) :
              /\ chain' = chain \o <<d, Output, e, Output>>
              /\ index' = index \cup IndexRows(d, n, TRUE) \cup IndexRows(e, n + 2, TRUE)
              /\ Asks(w, ApprovalRows(d, n, n) \cup ApprovalRows(e, n + 2, n))
        /\ Ends(w)

\* POST /v1/precheck: the caller gives the number, and it is the next one when
\* the decision is recorded.  No output, no verdict in the index.
Precheck(w) ==
    /\ pc[w] = "begun" /\ "precheck" \in Requests /\ Fits(1, 1)
    /\ \E d \in Decisions(0) : Record(w, d, FALSE)
    /\ Ends(w)

\* The append fails: somebody else took the number.
Refuse(w) ==
    /\ pc[w] \in {"judge", "resolve"} /\ Stale(w)
    /\ Rollback(w)

-----------------------------------------------------------------------------
(* resolve_approval.                                                       *)

\* The approval is read and must be pending.
StartResolve(w, a) ==
    /\ pc[w] = "idle" /\ "resolve" \in Requests /\ a.status = "pending"
    /\ req' = [req EXCEPT ![w] = [kind |-> "resolve", seq |-> 0, ref |-> a.id]]
    /\ Goto(w, "lock")
    /\ UNCHANGED <<chain, index, approvals, began>>

\* The UPDATE of the row, which waits for another resolver of it, and which
\* does not ask again whether the row is pending.
LockApproval(w) ==
    /\ pc[w] = "lock"
    /\ \A v \in Workers \ {w} : ~(pc[v] \in {"number", "resolve"} /\ req[v].ref = req[w].ref)
    /\ Goto(w, "number")
    /\ UNCHANGED <<chain, index, approvals, began, req>>

\* The number of the approval_action event.
NumberResolution(w) ==
    /\ pc[w] = "number"
    /\ req' = [req EXCEPT ![w].seq = Len(chain) + 1]
    /\ Goto(w, "resolve")
    /\ UNCHANGED <<chain, index, approvals, began>>

\* Mutant: the row is updated only if it is still pending, and nobody looks at
\* how many rows were updated.
SettleIfPending(A, id, status) ==
    {IF a.id = id /\ a.status = "pending" THEN [a EXCEPT !.status = status] ELSE a : a \in A}

\* What the UPDATE wrote.
Settle(A, id, status) == {IF a.id = id THEN [a EXCEPT !.status = status] ELSE a : a \in A}

\* The new status and the approval_action event are committed.
Resolve(w, status) ==
    /\ pc[w] = "resolve" /\ ~Stale(w) /\ Fits(1, 0)
    /\ chain' = Append(chain, Resolution(status, req[w].ref))
    /\ approvals' = Settle(approvals, req[w].ref, status)
    /\ Ends(w)
    /\ UNCHANGED <<index, began>>

\* The process dies, the connection drops, or the trace is at its bound.
Crash(w) == pc[w] # "idle" /\ Rollback(w)

-----------------------------------------------------------------------------
Init ==
    /\ chain = <<>>
    /\ index = {}
    /\ approvals = {}
    /\ began = <<>>
    /\ pc = [w \in Workers |-> "idle"]
    /\ req = [w \in Workers |-> NoReq]

Next ==
    \E w \in Workers :
        \/ Begin(w)
        \/ \E ref \in {0} \cup DOMAIN chain : StartGate(w, ref)
        \/ StartReplay(w)
        \/ JudgeGate(w) \/ JudgeReplay(w) \/ Precheck(w)
        \/ \E a \in approvals : StartResolve(w, a)
        \/ LockApproval(w) \/ NumberResolution(w)
        \/ \E status \in Outcomes : Resolve(w, status)
        \/ Refuse(w) \/ Crash(w)

Spec == Init /\ [][Next]_vars

-----------------------------------------------------------------------------
(* workflow_gate.                                                          *)

\* The approvals that ORDER BY created_at DESC LIMIT may return: rows with
\* equal times come in any order.
Listings ==
    {L \in SUBSET approvals :
        /\ Cardinality(L) = IF Cardinality(approvals) < Limit THEN Cardinality(approvals) ELSE Limit
        /\ \A a \in L, b \in approvals \ L : Began(a) >= Began(b)}

LatestDecision ==
    LET D == {n \in DOMAIN chain : IsDecision(chain[n])}
    IN  IF D = {} THEN 0 ELSE CHOOSE n \in D : \A m \in D : m <= n

Red(e) == e.tier = "red" /\ ~e.allowed

\* Whether workflow_gate may answer "proceed": nothing listed is pending, and
\* the newest approval listed was granted; without approvals, the latest
\* decision is no red refusal.
MayProceed ==
    \E L \in Listings :
        /\ \A a \in L : a.status # "pending"
        /\ \/ \E a \in L : a.status = "approved" /\ \A b \in L : Began(b) <= Began(a)
           \/ L = {} /\ (LatestDecision = 0 \/ ~Red(chain[LatestDecision]))

-----------------------------------------------------------------------------
(* What the dashboards list (before their limits of 50 and more rows).       *)

\* get_compliance_summary groups the index by tier.
ByTier(t) == {r \in index : r.tier = t}

\* get_decisions with flagged_only, and flagged_total of the summary.
FlaggedDecisions == ByTier("orange") \cup ByTier("red")

\* build_workqueue: the approvals, and the open flags.

PendingApprovals == {a \in approvals : a.status = "pending"}

\* Mutant: a flag leaves the queue with the first attempt to cure it.
UntouchedFlags == {r \in index : /\ r.status = "flagged" /\ r.of = 0
                                 /\ \A q \in index : q.of # r.seq}

\* A decision on a revision is an attempt, not new work.
OpenFlags == {r \in index : r.status = "flagged" /\ r.cured = 0 /\ r.of = 0}

-----------------------------------------------------------------------------
(* Properties.                                                             *)

\* Every variable keeps its type and the chain its bound (began is only read
\* through Began).
TypeOK ==
    /\ chain \in Seq(Event) /\ Len(chain) <= MaxEvents
    /\ index \subseteq IndexRow
    /\ approvals \subseteq [id : Nat, tx : Nat, status : {"pending"} \cup Outcomes]
    /\ pc \in [Workers -> {"idle", "begun", "judge", "lock", "number", "resolve"}]
    /\ req \in [Workers -> [kind : {"none"} \cup Kinds, seq : Nat, ref : Nat]]

\* The dashboards' index and the sealed chain tell the same story: a row names
\* a decision on the chain with its tier and its verdict, the output it names
\* follows that decision, and every decision the engine reached has one row.
IndexMatchesChain ==
    /\ \A r \in index :
          /\ r.seq \in DOMAIN chain /\ IsDecision(chain[r.seq])
          /\ r.tier = chain[r.seq].tier /\ r.allowed = chain[r.seq].allowed
          /\ r.of = chain[r.seq].ref
          /\ r.status # None =>
                /\ r.status = DeriveStatus(chain[r.seq])
                /\ r.output = r.seq + 1
                /\ r.output \in DOMAIN chain /\ chain[r.output] = Output
    /\ \A n \in DOMAIN chain :
          IsDecision(chain[n]) /\ ~chain[n].failed => Cardinality({r \in index : r.seq = n}) = 1

\* A decision counts as remediated exactly when a later compliant decision was
\* recorded as its cure, and it names the last such decision, whatever gate
\* calls raced to cure it.
CureIsReal ==
    \A r \in index :
        LET C == {n \in DOMAIN chain : /\ IsDecision(chain[n]) /\ chain[n].ref = r.seq
                                       /\ DeriveStatus(chain[n]) = "compliant"}
        IN  /\ C = {} => r.cured = 0
            /\ C # {} => r.cured \in C /\ r.cured > r.seq /\ \A n \in C : n <= r.cured
            /\ r.cured # 0 => r.status \in {"flagged", "blocked"}

\* Somebody was asked about every high-risk decision on the chain, once, also
\* about those the packs alone raised and those made in the dark.
HighRiskIsAsked ==
    \A n \in DOMAIN chain :
        IsDecision(chain[n]) /\ chain[n].tier \in {"orange", "red"}
            => Cardinality({a \in approvals : a.id = n}) = 1

\* The status of an approval is the one its last approval_action event seals,
\* and it is pending exactly when there is none, also when two people resolve
\* it at the same time.
ResolutionEvidenced ==
    \A a \in approvals :
        LET R == {n \in DOMAIN chain : chain[n].type \in Outcomes /\ chain[n].ref = a.id}
        IN  /\ R = {} => a.status = "pending"
            /\ R # {} => \E n \in R : a.status = chain[n].type /\ \A m \in R : m <= n

\* The officer's queue is what the sealed chain says is open: the high-risk
\* decisions nobody has resolved, and the outputs flagged at the gate that no
\* compliant revision has cured.  The dashboard counts as flagged the decisions
\* of high risk, but for those made while the engine had failed.
QueueTellsChain ==
    LET D == {n \in DOMAIN chain : IsDecision(chain[n])}
    IN  /\ {r.seq : r \in FlaggedDecisions} =
              {n \in D : chain[n].tier \in {"orange", "red"} /\ ~chain[n].failed}
        /\ {a.id : a \in PendingApprovals} =
              {n \in D : /\ chain[n].tier \in {"orange", "red"}
                         /\ \A m \in DOMAIN chain : chain[m].type \in Outcomes => chain[m].ref # n}
        /\ {r.seq : r \in OpenFlags} =
              {n \in D : /\ \E r \in index : r.seq = n /\ r.output # 0
                         /\ DeriveStatus(chain[n]) = "flagged" /\ chain[n].ref = 0
                         /\ \A m \in D : DeriveStatus(chain[m]) = "compliant" => chain[m].ref # n}

\* After a red decision the workflow gate blocks until a person approves it.
\* (Not so: approvals are ordered by the start of their transactions.)
RedBlocksUntilApproved ==
    MayProceed /\ LatestDecision # 0 /\ Red(chain[LatestDecision])
        => \E a \in approvals : a.id = LatestDecision /\ a.status = "approved"
===============================================================================
