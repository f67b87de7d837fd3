--------------------------- MODULE ConsentAccess ---------------------------
(***************************************************************************)
(* Consent-gated access to the records of an organisation that holds its   *)
(* own keys.  The vendor files a request for a set of records; officers of *)
(* the organisation approve it (M of N), releasing the records' keys, or   *)
(* deny or revoke it; the vendor reads records through the grant.  Every   *)
(* one of these actions appends an event to the request's consent trace.   *)
(*                                                                         *)
(* As in EventChain a worker serves one request of the API in one          *)
(* transaction, a step is one SQL statement, and what a transaction wrote  *)
(* (tx) becomes visible when it commits.  An UPDATE locks its row until    *)
(* the end of the transaction, and so does SELECT ... FOR UPDATE on the    *)
(* consent trace.  One access request is modelled: two of them share no    *)
(* row and no trace.  Requests older than the consent trail (trace_id      *)
(* NULL) are left out.                                                     *)
(***************************************************************************)
EXTENDS Naturals, Sequences, FiniteSets

CONSTANTS Workers,      \* server threads
          Approvers,    \* officers of the organisation
          Payloads,     \* records of the organisation
          Dark,         \* the ones whose key is wrapped to the organisation
          None,         \* no approver, no payload, no status written
          MaxTrail      \* bound: events of the consent trace

ASSUME ConsentAssumption ==
    /\ Dark \subseteq Payloads
    /\ None \notin Approvers \cup Payloads \cup {"pending", "approved", "denied", "revoked"}
    /\ IsFiniteSet(Approvers)
    /\ MaxTrail \in Nat

VARIABLES
    \* the committed database
    request,    \* the row of access_requests
    approvals,  \* access_approvals: who approved
    released,   \* access_grant_keys with a released key
    shredded,   \* payloads that were erased
    trail,      \* the events of the consent trace
    expired,    \* expires_at has passed
    \* the request each worker serves
    pc,         \* its next statement
    job,        \* its arguments and what it has read
    tx          \* what its transaction has written and not committed

vars == <<request, approvals, released, shredded, trail, expired, pc, job, tx>>

db == <<request, approvals, released, shredded, trail, expired>>

-----------------------------------------------------------------------------
(* Rows and events.                                                        *)

Closed == {"denied", "revoked"}

Statuses == {"pending", "approved"} \cup Closed

RequestRow == [status : Statuses \cup {"none"}, required : Nat, scope : SUBSET Payloads]

\* The payloads of the consent events; released and approvals are what an
\* approval says it released and whom it counted.
ConsentEvent == [type : {"filed", "approval", "resolution", "read"},
                 who : Approvers \cup {None}, counted : SUBSET Approvers,
                 keys : SUBSET Payloads, payload : Payloads \cup {None},
                 before : Statuses \cup {"none"}, after : Statuses]

Job == [kind : {"none", "client", "server", "resolve", "read"},
        who : Approvers \cup {None}, keys : SUBSET Payloads,
        payload : Payloads \cup {None}, to : Statuses \cup {None},
        seen : Statuses \cup {"none"}, waiting : SUBSET Payloads,
        counted : SUBSET Approvers, seq : Nat]

Tx == [who : Approvers \cup {None}, keys : SUBSET Payloads,
       status : Statuses \cup {None}]

NoJob == [kind |-> "none", who |-> None, keys |-> {}, payload |-> None, to |-> None,
          seen |-> "none", waiting |-> {}, counted |-> {}, seq |-> 0]

NoTx == [who |-> None, keys |-> {}, status |-> None]

\* Records in scope whose key the organisation's private key can still
\* re-wrap: not a customer-key record, or erased, means nothing to release.
Releasable == {p \in request.scope : p \in Dark /\ p \notin shredded}

-----------------------------------------------------------------------------
Goto(w, step) == pc' = [pc EXCEPT ![w] = step]

\* The transaction is over, by commit or rollback.
Forget(w) ==
    /\ Goto(w, "idle")
    /\ job' = [job EXCEPT ![w] = NoJob]
    /\ tx' = [tx EXCEPT ![w] = NoTx]

\* The request fails or has nothing to do: nothing it wrote is kept.
Rollback(w) == Forget(w) /\ UNCHANGED db

\* Requests whose event is not yet in the trail.
Active == {w \in Workers : pc[w] # "idle"}

Accept(w, j) ==
    /\ pc[w] = "idle"
    /\ request.status # "none"
    /\ Len(trail) + Cardinality(Active) < MaxTrail
    /\ job' = [job EXCEPT ![w] = j]
    /\ Goto(w, "load")
    /\ UNCHANGED <<tx, db>>

\* POST /v1/admin/access-requests.  Nobody knows the new trace or row before
\* the commit, so the whole transaction is one step.
File(n, S) ==
    /\ request.status = "none"
    /\ request' = [status |-> "pending", required |-> n, scope |-> S]
    /\ trail' = <<[type |-> "filed", who |-> None, counted |-> {}, keys |-> {},
                   payload |-> None, before |-> "none", after |-> "pending"]>>
    /\ UNCHANGED <<approvals, released, shredded, expired, pc, job, tx>>

\* POST /v1/access-requests/{id}/approve.  The client posts keys for records in
\* scope: re-wrapped ones, or anything else, for a plain or an erased record too.
\* Hashes out of scope are dropped.
PostApproval(w, a, K) ==
    /\ K \subseteq request.scope
    /\ Accept(w, [NoJob EXCEPT !.kind = "client", !.who = a, !.keys = K])

\* approve_access_request: the caller passes the organisation's private key.
ServerApproval(w, a) == Accept(w, [NoJob EXCEPT !.kind = "server", !.who = a])

\* POST /v1/access-requests/{id}/resolve.
PostResolution(w, s) == Accept(w, [NoJob EXCEPT !.kind = "resolve", !.to = s])

\* GET /v1/admin/access-requests/{id}/records/{payload_hash}.
PostRead(w, p) == Accept(w, [NoJob EXCEPT !.kind = "read", !.payload = p])

-----------------------------------------------------------------------------
(* Statements.                                                             *)

\* Mutant: a read asks for a live grant only, not for an approved one.
ProceedsUnapproved(j, s) ==
    CASE j.kind \in {"client", "server"} -> s = "pending"
      [] j.kind = "resolve"              -> s # j.to
      [] OTHER                           -> ~expired

\* Whether the status just read lets the request go on; else it returns.
Proceeds(j, s) ==
    CASE j.kind \in {"client", "server"} -> s = "pending"
      [] j.kind = "resolve"              -> s # j.to
      [] j.kind = "read"                 -> s = "approved" /\ ~expired
      [] OTHER                           -> FALSE

FirstStatement(j) ==
    CASE j.kind \in {"client", "server"} -> "approval"
      [] j.kind = "resolve"              -> "status"
      [] OTHER                           -> "grant"

\* db.get loads the row once; the handler keeps working with this copy.
Load(w) ==
    /\ pc[w] = "load"
    /\ \/ /\ ~Proceeds(job[w], request.status)
          /\ Rollback(w)
       \/ /\ Proceeds(job[w], request.status)
          /\ job' = [job EXCEPT ![w].seen = request.status]
          /\ Goto(w, FirstStatement(job[w]))
          /\ UNCHANGED <<tx, db>>

\* The SELECT and the INSERT of the approval.  The INSERT waits for an
\* uncommitted row of the same approver; a committed one ends the request,
\* whether the SELECT or the unique constraint meets it.
InsertApproval(w) ==
    LET a == job[w].who
    IN  /\ pc[w] = "approval"
        /\ \A v \in Workers \ {w} : tx[v].who # a
        /\ \/ /\ a \in approvals
              /\ Rollback(w)
           \/ /\ a \notin approvals
              /\ tx' = [tx EXCEPT ![w].who = a]
              /\ Goto(w, IF job[w].kind = "client" THEN "release" ELSE "count")
              /\ UNCHANGED <<job, db>>

\* The UPDATEs of access_grant_keys: they wait for whoever wrote one of the
\* rows.  record_client_approval stores what the client posted,
\* _release_keys re-wraps what it can.
ReleaseKeys(w) ==
    LET K == IF job[w].kind = "client" THEN job[w].keys ELSE Releasable
    IN  /\ pc[w] = "release"
        /\ \A v \in Workers \ {w} : tx[v].keys \cap K = {}
        /\ tx' = [tx EXCEPT ![w].keys = K]
        /\ Goto(w, IF job[w].kind = "client" THEN "unreleased" ELSE "status")
        /\ UNCHANGED <<job, db>>

\* The rows in scope that have no key yet.
Unreleased(w) ==
    /\ pc[w] = "unreleased"
    /\ job' = [job EXCEPT ![w].waiting = request.scope \ (released \cup tx[w].keys)]
    /\ Goto(w, "count")
    /\ UNCHANGED <<tx, db>>

\* Mutant: the approver's row is counted twice, before and after its flush.
CountedTwice(w) == Cardinality(approvals) + 2

\* The approvals this statement sees: committed ones and the worker's own.
Counted(w) == Cardinality(approvals \cup {job[w].who})

AfterCount(w) ==
    IF Counted(w) < request.required THEN "lock"
    ELSE IF job[w].kind = "server" THEN "release"
    ELSE IF job[w].waiting = {} THEN "status" ELSE "lock"

CountApprovals(w) ==
    /\ pc[w] = "count"
    /\ job' = [job EXCEPT ![w].counted = approvals \cup {job[w].who}]
    /\ Goto(w, AfterCount(w))
    /\ UNCHANGED <<tx, db>>

\* The UPDATE of access_requests.status: it waits for the row, then writes
\* whatever the handler decided from the copy it loaded.
SetStatus(w) ==
    /\ pc[w] = "status"
    /\ \A v \in Workers \ {w} : tx[v].status = None
    /\ tx' = [tx EXCEPT ![w].status = IF job[w].kind = "resolve" THEN job[w].to ELSE "approved"]
    /\ Goto(w, "lock")
    /\ UNCHANGED <<job, db>>

\* read_via_grant, after the status check: the record is in scope, its key
\* was released and it is not erased.  Nothing opens a plain record, whatever
\* key was posted for it.
CheckGrant(w) ==
    LET p == job[w].payload
    IN  /\ pc[w] = "grant"
        /\ \/ /\ p \in request.scope \cap released \cap Dark /\ p \notin shredded
              /\ Goto(w, "lock")
              /\ UNCHANGED <<job, tx, db>>
           \/ /\ p \notin request.scope \cap released \cap Dark \/ p \in shredded
              /\ Rollback(w)

\* Mutant: the next number is read without waiting for the row lock.
TraceUnlocked(w) == TRUE

\* Mutant: the append locks the request's row too, FOR UPDATE, which waits
\* for every uncommitted approval that refers to it.
TraceAndRequestFree(w) ==
    \A v \in Workers \ {w} : pc[v] # "commit" /\ tx[v].who = None

TraceFree(w) == \A v \in Workers \ {w} : pc[v] # "commit"

\* _locked_next_seq: SELECT ... FOR UPDATE on the trace, then its last event.
LockTrace(w) ==
    /\ pc[w] = "lock"
    /\ TraceFree(w)
    /\ job' = [job EXCEPT ![w].seq = Len(trail) + 1]
    /\ Goto(w, "commit")
    /\ UNCHANGED <<tx, db>>

-----------------------------------------------------------------------------
(* The end of a request: its event is inserted and everything commits.     *)

EventType(j) ==
    CASE j.kind = "resolve" -> "resolution"
      [] j.kind = "read"    -> "read"
      [] OTHER              -> "approval"

\* Mutant: the event is built before the status is assigned.
StatusAfterStale(w) == job[w].seen

StatusAfter(w) == IF tx[w].status = None THEN job[w].seen ELSE tx[w].status

EventOf(w) ==
    [type |-> EventType(job[w]), who |-> job[w].who, counted |-> job[w].counted,
     keys |-> tx[w].keys, payload |-> job[w].payload,
     before |-> job[w].seen, after |-> StatusAfter(w)]

\* The INSERT of the event fails on uq_events_trace_seq when the number was
\* taken; else the transaction commits.
Commit(w) ==
    /\ pc[w] = "commit"
    /\ \/ /\ job[w].seq # Len(trail) + 1
          /\ Rollback(w)
       \/ /\ job[w].seq = Len(trail) + 1
          /\ trail' = Append(trail, EventOf(w))
          /\ request' = IF tx[w].status = None THEN request
                        ELSE [request EXCEPT !.status = tx[w].status]
          /\ approvals' = approvals \cup ({tx[w].who} \ {None})
          /\ released' = released \cup tx[w].keys
          /\ Forget(w)
          /\ UNCHANGED <<shredded, expired>>

\* The connection or the process is lost, or the event cannot be recorded.
Crash(w) == pc[w] # "idle" /\ Rollback(w)

\* An erasure (EventChain) commits; it does not touch the grant's rows.
Erase(p) ==
    /\ p \notin shredded
    /\ shredded' = shredded \cup {p}
    /\ UNCHANGED <<request, approvals, released, trail, expired, pc, job, tx>>

Expire ==
    /\ request.status # "none" /\ ~expired
    /\ expired' = TRUE
    /\ UNCHANGED <<request, approvals, released, shredded, trail, pc, job, tx>>

-----------------------------------------------------------------------------
Init ==
    /\ request = [status |-> "none", required |-> 0, scope |-> {}]
    /\ approvals = {} /\ released = {} /\ shredded = {}
    /\ trail = <<>>
    /\ expired = FALSE
    /\ pc = [w \in Workers |-> "idle"]
    /\ job = [w \in Workers |-> NoJob]
    /\ tx = [w \in Workers |-> NoTx]

Start(w) ==
    \/ \E a \in Approvers, K \in SUBSET Payloads : PostApproval(w, a, K)
    \/ \E a \in Approvers : ServerApproval(w, a)
    \/ \E s \in Closed : PostResolution(w, s)
    \/ \E p \in Payloads : PostRead(w, p)

Step(w) ==
    \/ Load(w) \/ InsertApproval(w) \/ ReleaseKeys(w) \/ Unreleased(w)
    \/ CountApprovals(w) \/ SetStatus(w) \/ CheckGrant(w) \/ LockTrace(w)
    \/ Commit(w)

Next ==
    \/ \E n \in 1..Cardinality(Approvers), S \in (SUBSET Payloads) \ {{}} : File(n, S)
    \/ \E w \in Workers : Start(w) \/ Step(w) \/ Crash(w)
    \/ \E p \in Payloads : Erase(p)
    \/ Expire

\* A worker goes on with its request; PostgreSQL serves the waiters of a row
\* lock in the order they came, so none waits forever for a free row.
Fairness == \A w \in Workers : SF_vars(Step(w))

Spec == Init /\ [][Next]_vars /\ Fairness

-----------------------------------------------------------------------------
(* Properties.                                                             *)

Steps == {"idle", "load", "approval", "release", "unreleased", "count", "status",
          "grant", "lock", "commit"}

\* Every variable keeps its type.
TypeOK ==
    /\ request \in RequestRow
    /\ approvals \subseteq Approvers
    /\ released \subseteq Payloads
    /\ shredded \subseteq Payloads
    /\ trail \in Seq(ConsentEvent)
    /\ expired \in BOOLEAN
    /\ pc \in [Workers -> Steps]
    /\ job \in [Workers -> Job]
    /\ tx \in [Workers -> Tx]

\* The approvers named by the first n events of the trail.
ApproversUpTo(n) == {trail[i].who : i \in {k \in 1..n : trail[k].type = "approval"}}

\* An approval event that says the request is now approved comes after, or is,
\* the approvals of at least required_approvals different officers in the
\* trail: the count taken in a transaction never outruns the evidence.
ApprovedByQuorum ==
    \A i \in 1..Len(trail) :
        trail[i].type = "approval" /\ trail[i].after = "approved"
            => Cardinality(ApproversUpTo(i)) >= request.required

\* Every recorded read follows, in the trail, an event that approved the
\* request and one that released the very record that was read.
ReadsWithinGrant ==
    \A i \in 1..Len(trail) :
        trail[i].type = "read" =>
            /\ trail[i].payload \in request.scope
            /\ \E j \in 1..(i - 1) : trail[j].type = "approval" /\ trail[j].after = "approved"
            /\ \E j \in 1..(i - 1) : trail[j].type = "approval" /\ trail[i].payload \in trail[j].keys

\* Events that decide the status: a denial, a revocation, an approval that says
\* the request is now approved.
Verdicts == {i \in 1..Len(trail) : trail[i].type = "resolution"
                                     \/ (trail[i].type = "approval" /\ trail[i].after = "approved")}

\* The request has the status that the last verdict in its trail says, whoever
\* raced whom (approve_access_request, record_client_approval,
\* resolve_access_request).  What an approval short of the quorum says of the
\* status is not relied on, see StateMatchesTrail.
LastVerdictHolds ==
    request.status # "none" =>
        \/ Verdicts = {} /\ request.status = "pending"
        \/ \E i \in Verdicts :
              (\A j \in Verdicts : j <= i) /\ request.status = trail[i].after

\* "There is no window where access state and audit trail disagree"
\* (consent_events): the status is the status_after of the last event that has
\* one, which is every event but a read.  (Not so: an approval may repeat a stale
\* one.)
StateMatchesTrail ==
    \A i \in 1..Len(trail) :
        trail[i].type # "read" /\ (\A j \in (i + 1)..Len(trail) : trail[j].type = "read")
            => request.status = trail[i].after

\* "Approve once the threshold is met and every in-scope record has a released
\* key" (record_client_approval): when nobody is at work, a request with its
\* quorum and all its keys is not still pending.  (Not so when two approve at
\* the same time.)
QuorumApproves ==
    ~ /\ Active = {} /\ request.status = "pending"
      /\ Cardinality(approvals) >= request.required
      /\ request.scope \subseteq released

\* The row lock does its work: when a request inserts its event the number it
\* read is still free, so the unique constraint never has to refuse one.
LockedAppendsNeverCollide ==
    \A w \in Workers : pc[w] = "commit" => job[w].seq = Len(trail) + 1

\* Waiting on each other's rows (approvals, keys, request, trace), the workers
\* never block for good: every request ends.
RequestsEnd == \A w \in Workers : pc[w] # "idle" ~> pc[w] = "idle"

\* What attest_sdk/consent.py says of deny(): "Refuse a pending request
\* outright (no key is ever released)".  A denied request is never approved.
DeniedStaysDenied == [][request.status = "denied" => request'.status # "approved"]_vars
=============================================================================
