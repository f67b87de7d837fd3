------------------------ MODULE ConsentAccessProofs ------------------------
(***************************************************************************)
(* What ConsentAccess says of a request, its approvals and its trail, for  *)
(* any number of workers, officers and records.                            *)
(***************************************************************************)
EXTENDS ConsentAccess, FiniteSetTheorems, SequenceTheorems, TLAPS

-----------------------------------------------------------------------------
(* The invariant.                                                          *)

\* The trail has an event that approved the request.
Granted(tr) == \E i \in DOMAIN tr : tr[i].type = "approval" /\ tr[i].after = "approved"

\* An approval under way at step p, with arguments j and writes t: it goes on to
\* write "approved" only with a quorum of approvals that it has counted, all of
\* them committed or its own.
ApprovalOK(p, j, t, r, Ap) ==
    /\ j.who \in Approvers
    /\ p \in {"load", "approval", "release", "unreleased", "count", "status", "lock", "commit"}
    /\ p \in {"load", "approval"} => t = NoTx
    /\ p \notin {"load", "approval"} => t.who = j.who
    /\ p # "load" => j.seen = "pending"
    /\ t.status \in {None, "approved"}
    /\ t.status = "approved" \/ p = "status" \/ (j.kind = "server" /\ p = "release")
          => j.counted \subseteq Ap \cup {j.who} /\ Cardinality(j.counted) >= r.required

\* A denial or revocation under way.
ResolveOK(p, j, t) ==
    /\ j.to \in Closed
    /\ p \in {"load", "status", "lock", "commit"}
    /\ t.who = None /\ t.keys = {}
    /\ t.status = IF p \in {"lock", "commit"} THEN j.to ELSE None

\* A read under way: past its first statement the request was approved once,
\* and past its second the record is in scope and its key released.
ReadOK(p, j, t, r, Rel, tr) ==
    /\ p \in {"load", "grant", "lock", "commit"}
    /\ t = NoTx
    /\ p # "load" => j.seen = "approved" /\ Granted(tr)
    /\ p \in {"lock", "commit"} => j.payload \in r.scope /\ j.payload \in Rel

\* A worker at step p with the row r, the approvals Ap, the released keys Rel
\* and the trail tr committed.
WorkerOK(p, j, t, r, Ap, Rel, tr) ==
    \/ p = "idle" /\ j = NoJob /\ t = NoTx
    \/ /\ p # "idle" /\ r.status # "none"
       /\ \/ j.kind \in {"client", "server"} /\ ApprovalOK(p, j, t, r, Ap)
          \/ j.kind = "resolve" /\ ResolveOK(p, j, t)
          \/ j.kind = "read" /\ ReadOK(p, j, t, r, Rel, tr)

\* The trail has evidence for what is committed.
TrailOK(r, Ap, Rel, tr) ==
    /\ \A a \in Ap : \E i \in DOMAIN tr : tr[i].type = "approval" /\ tr[i].who = a
    /\ \A k \in Rel : \E i \in DOMAIN tr : tr[i].type = "approval" /\ k \in tr[i].keys
    /\ r.status = "approved" => Granted(tr)
    /\ r.status = "none" => tr = <<>>

WorkersOK ==
    \A w \in Workers : WorkerOK(pc[w], job[w], tx[w], request, approvals, released, trail)

\* Whoever is about to insert its event holds the trace alone and has the next
\* number.
HolderInv ==
    \A w \in Workers :
        pc[w] = "commit" => /\ job[w].seq = Len(trail) + 1
                            /\ \A v \in Workers \ {w} : pc[v] # "commit"

\* The inductive invariant.
IInv ==
    /\ TypeOK /\ WorkersOK /\ HolderInv
    /\ TrailOK(request, approvals, released, trail)
    /\ ApprovedByQuorum /\ ReadsWithinGrant /\ LastVerdictHolds

-----------------------------------------------------------------------------
(* Steps that commit nothing.                                              *)

\* Worker w moves to step p with arguments j and writes t.
Moves(w, p, j, t) ==
    /\ pc' = [pc EXCEPT ![w] = p]
    /\ job' = [job EXCEPT ![w] = j]
    /\ tx' = [tx EXCEPT ![w] = t]
    /\ UNCHANGED db

\* The empty records have their types.
LEMMA NothingTyped ==
    NoJob \in Job /\ NoTx \in Tx /\ NoJob.kind = "none" /\ NoTx.status = None
        /\ NoTx.who = None /\ NoTx.keys = {}
BY DEF NoJob, NoTx, Job, Tx

\* A worker that stays in order by itself leaves everything in order.
LEMMA LocalStep ==
    ASSUME IInv, NEW w \in Workers, NEW p \in Steps, NEW j \in Job, NEW t \in Tx,
           Moves(w, p, j, t),
           WorkerOK(p, j, t, request, approvals, released, trail),
           p = "commit" => j.seq = Len(trail) + 1 /\ \A v \in Workers \ {w} : pc[v] # "commit"
    PROVE  IInv'
<1>1. /\ TypeOK /\ WorkersOK /\ HolderInv /\ TrailOK(request, approvals, released, trail)
      /\ ApprovedByQuorum /\ ReadsWithinGrant /\ LastVerdictHolds
  BY DEF IInv
<1>2. /\ request' = request /\ approvals' = approvals /\ released' = released
      /\ shredded' = shredded /\ trail' = trail /\ expired' = expired
  BY DEF Moves, db
<1>3. TypeOK'
  BY <1>1, <1>2 DEF TypeOK, Moves
<1>4. /\ pc'[w] = p /\ job'[w] = j /\ tx'[w] = t
      /\ \A v \in Workers \ {w} : pc'[v] = pc[v] /\ job'[v] = job[v] /\ tx'[v] = tx[v]
  BY <1>1 DEF TypeOK, Moves
<1>5. WorkersOK'
  BY <1>1, <1>2, <1>4 DEF WorkersOK
<1>6. HolderInv'
  <2> SUFFICES ASSUME NEW v \in Workers, pc'[v] = "commit"
               PROVE  /\ job'[v].seq = Len(trail) + 1
                      /\ \A u \in Workers \ {v} : pc'[u] # "commit"
    BY <1>2 DEF HolderInv
  <2>1. CASE v = w
    BY <1>4, <2>1
  <2>2. CASE v # w
    BY <1>1, <1>4, <2>2 DEF HolderInv
  <2> QED BY <2>1, <2>2
<1>7. TrailOK(request, approvals, released, trail)'
  BY <1>1, <1>2
<1>8. ApprovedByQuorum' /\ ReadsWithinGrant' /\ LastVerdictHolds'
  BY <1>1, <1>2 DEF ApprovedByQuorum, ApproversUpTo, ReadsWithinGrant, LastVerdictHolds, Verdicts
<1> QED BY <1>3, <1>5, <1>6, <1>7, <1>8 DEF IInv

\* A rollback leaves the worker idle.
LEMMA RollbackStep ==
    ASSUME IInv, NEW w \in Workers, Rollback(w)
    PROVE  IInv'
<1>1. Moves(w, "idle", NoJob, NoTx)
  BY DEF Rollback, Forget, Goto, Moves
<1>2. WorkerOK("idle", NoJob, NoTx, request, approvals, released, trail)
  BY DEF WorkerOK
<1> QED BY <1>1, <1>2, NothingTyped, LocalStep DEF Steps

\* What the invariant says of one worker, in the shape the steps need.
LEMMA WorkerFacts ==
    ASSUME IInv, NEW w \in Workers
    PROVE  /\ pc[w] \in Steps /\ job[w] \in Job /\ tx[w] \in Tx
           /\ pc = [pc EXCEPT ![w] = pc[w]] /\ job = [job EXCEPT ![w] = job[w]]
           /\ tx = [tx EXCEPT ![w] = tx[w]]
           /\ request \in RequestRow /\ trail \in Seq(ConsentEvent) /\ Len(trail) \in Nat
           /\ WorkerOK(pc[w], job[w], tx[w], request, approvals, released, trail)
<1>1. TypeOK /\ WorkersOK
  BY DEF IInv
<1> QED BY <1>1, LenProperties DEF TypeOK, WorkersOK

-----------------------------------------------------------------------------
(* The statements, one lemma each.                                         *)

\* A request comes in.
LEMMA StartStep ==
    ASSUME IInv, NEW w \in Workers, Start(w)
    PROVE  IInv'
<1>1. PICK j \in Job :
        /\ Accept(w, j)
        /\ \/ j.kind \in {"client", "server"} /\ j.who \in Approvers
           \/ j.kind = "resolve" /\ j.to \in Closed
           \/ j.kind = "read"
  <2>1. ASSUME NEW a \in Approvers, NEW K \in SUBSET Payloads, PostApproval(w, a, K)
        PROVE  \E j \in Job : Accept(w, j) /\ j.kind = "client" /\ j.who \in Approvers
    <3> DEFINE j == [NoJob EXCEPT !.kind = "client", !.who = a, !.keys = K]
    <3>1. j \in Job /\ j.kind = "client" /\ j.who = a
      BY DEF NoJob, Job
    <3> QED BY <2>1, <3>1 DEF PostApproval
  <2>2. ASSUME NEW a \in Approvers, ServerApproval(w, a)
        PROVE  \E j \in Job : Accept(w, j) /\ j.kind = "server" /\ j.who \in Approvers
    <3> DEFINE j == [NoJob EXCEPT !.kind = "server", !.who = a]
    <3>1. j \in Job /\ j.kind = "server" /\ j.who = a
      BY DEF NoJob, Job
    <3> QED BY <2>2, <3>1 DEF ServerApproval
  <2>3. ASSUME NEW s \in Closed, PostResolution(w, s)
        PROVE  \E j \in Job : Accept(w, j) /\ j.kind = "resolve" /\ j.to \in Closed
    <3> DEFINE j == [NoJob EXCEPT !.kind = "resolve", !.to = s]
    <3>1. j \in Job /\ j.kind = "resolve" /\ j.to = s
      BY DEF NoJob, Job, Statuses, Closed
    <3> QED BY <2>3, <3>1 DEF PostResolution
  <2>4. ASSUME NEW p \in Payloads, PostRead(w, p)
        PROVE  \E j \in Job : Accept(w, j) /\ j.kind = "read"
    <3> DEFINE j == [NoJob EXCEPT !.kind = "read", !.payload = p]
    <3>1. j \in Job /\ j.kind = "read"
      BY DEF NoJob, Job
    <3> QED BY <2>4, <3>1 DEF PostRead
  <2> QED BY <2>1, <2>2, <2>3, <2>4 DEF Start
<1>2. pc[w] = "idle" /\ request.status # "none"
  BY <1>1 DEF Accept
<1>3. tx[w] = NoTx
  BY <1>2, WorkerFacts DEF WorkerOK
<1>4. Moves(w, "load", j, NoTx)
  BY <1>1, <1>3, WorkerFacts DEF Accept, Goto, Moves
<1>5. WorkerOK("load", j, NoTx, request, approvals, released, trail)
  BY <1>1, <1>2, NothingTyped, ConsentAssumption DEF WorkerOK, ApprovalOK, ResolveOK, ReadOK
<1> QED BY <1>4, <1>5, NothingTyped, LocalStep DEF Steps

\* The copy of the row that a request works with.
LEMMA LoadStep ==
    ASSUME IInv, NEW w \in Workers, Load(w)
    PROVE  IInv'
<1>1. CASE Rollback(w)
  BY <1>1, RollbackStep
<1>2. CASE /\ Proceeds(job[w], request.status)
           /\ job' = [job EXCEPT ![w].seen = request.status]
           /\ Goto(w, FirstStatement(job[w]))
           /\ UNCHANGED <<tx, db>>
  <2> DEFINE j == [job[w] EXCEPT !.seen = request.status]
             p == FirstStatement(job[w])
  <2>1. pc[w] = "load"
    BY DEF Load
  <2>2. /\ job[w] \in Job /\ j \in Job /\ j.seen = request.status /\ j.kind = job[w].kind
        /\ j.who = job[w].who /\ j.to = job[w].to /\ j.counted = job[w].counted
    BY WorkerFacts DEF Job, RequestRow
  <2>3. p \in Steps /\ p # "commit"
    BY DEF FirstStatement, Steps
  <2>4. Moves(w, p, j, tx[w])
    BY <1>2, WorkerFacts DEF Goto, Moves
  <2>5. request.status = "approved" => Granted(trail)
    BY DEF IInv, TrailOK
  <2>6. WorkerOK("load", job[w], tx[w], request, approvals, released, trail)
    BY <2>1, WorkerFacts
  <2>7. WorkerOK(p, j, tx[w], request, approvals, released, trail)
    <3>1. CASE job[w].kind \in {"client", "server"}
      <4>1. p = "approval" /\ j.seen = "pending"
        BY <1>2, <2>2, <3>1 DEF FirstStatement, Proceeds
      <4>2. ApprovalOK("load", job[w], tx[w], request, approvals) /\ request.status # "none"
        BY <2>6, <3>1 DEF WorkerOK
      <4>3. ApprovalOK(p, j, tx[w], request, approvals)
        BY <4>1, <4>2, <2>2, NothingTyped, <3>1 DEF ApprovalOK
      <4> QED BY <4>1, <4>2, <4>3, <2>2, <3>1 DEF WorkerOK
    <3>2. CASE job[w].kind = "resolve"
      <4>1. p = "status"
        BY <3>2 DEF FirstStatement
      <4>2. ResolveOK("load", job[w], tx[w]) /\ request.status # "none"
        BY <2>6, <3>2 DEF WorkerOK
      <4>3. ResolveOK(p, j, tx[w])
        BY <4>1, <4>2, <2>2 DEF ResolveOK
      <4> QED BY <4>1, <4>2, <4>3, <2>2, <3>2 DEF WorkerOK
    <3>3. CASE job[w].kind = "read"
      <4>1. p = "grant" /\ j.seen = "approved"
        BY <1>2, <2>2, <3>3 DEF FirstStatement, Proceeds
      <4>2. ReadOK("load", job[w], tx[w], request, released, trail) /\ request.status # "none"
        BY <2>6, <3>3 DEF WorkerOK
      <4>3. ReadOK(p, j, tx[w], request, released, trail)
        BY <4>1, <4>2, <2>2, <2>5 DEF ReadOK
      <4> QED BY <4>1, <4>2, <4>3, <2>2, <3>3 DEF WorkerOK
    <3> QED BY <2>6, <3>1, <3>2, <3>3 DEF WorkerOK
  <2>8. tx[w] \in Tx
    BY WorkerFacts
  <2> HIDE DEF j, p
  <2> QED BY <2>2, <2>3, <2>4, <2>7, <2>8, LocalStep
<1> QED BY <1>1, <1>2 DEF Load

\* The approver's row.
LEMMA InsertStep ==
    ASSUME IInv, NEW w \in Workers, InsertApproval(w)
    PROVE  IInv'
<1>1. CASE Rollback(w)
  BY <1>1, RollbackStep
<1>2. CASE /\ tx' = [tx EXCEPT ![w].who = job[w].who]
           /\ Goto(w, IF job[w].kind = "client" THEN "release" ELSE "count")
           /\ UNCHANGED <<job, db>>
  <2> DEFINE t == [tx[w] EXCEPT !.who = job[w].who]
             p == IF job[w].kind = "client" THEN "release" ELSE "count"
  <2>1. pc[w] = "approval"
    BY DEF InsertApproval
  <2>2. /\ job[w].kind \in {"client", "server"} /\ request.status # "none"
        /\ ApprovalOK("approval", job[w], tx[w], request, approvals)
    BY <2>1, WorkerFacts DEF WorkerOK, ResolveOK, ReadOK
  <2>3. t \in Tx /\ t.who = job[w].who /\ t.status = tx[w].status
    BY WorkerFacts DEF Tx, Job
  <2>4. p \in Steps /\ p # "commit" /\ p # "idle"
    BY DEF Steps
  <2>5. Moves(w, p, job[w], t)
    BY <1>2, WorkerFacts DEF Goto, Moves
  <2>6. tx[w].status = None
    BY <2>2, NothingTyped DEF ApprovalOK
  <2>7. ApprovalOK(p, job[w], t, request, approvals)
    BY <2>2, <2>3, <2>6, ConsentAssumption DEF ApprovalOK
  <2>8. WorkerOK(p, job[w], t, request, approvals, released, trail)
    BY <2>2, <2>4, <2>7 DEF WorkerOK
  <2>9. job[w] \in Job
    BY WorkerFacts
  <2> HIDE DEF t, p
  <2> QED BY <2>3, <2>4, <2>5, <2>8, <2>9, LocalStep
<1> QED BY <1>1, <1>2 DEF InsertApproval

\* The keys of the records.
LEMMA ReleaseStep ==
    ASSUME IInv, NEW w \in Workers, ReleaseKeys(w)
    PROVE  IInv'
<1> DEFINE K == IF job[w].kind = "client" THEN job[w].keys ELSE Releasable
           t == [tx[w] EXCEPT !.keys = K]
           p == IF job[w].kind = "client" THEN "unreleased" ELSE "status"
<1>1. pc[w] = "release"
  BY DEF ReleaseKeys
<1>2. /\ job[w].kind \in {"client", "server"} /\ request.status # "none"
      /\ ApprovalOK("release", job[w], tx[w], request, approvals)
  BY <1>1, WorkerFacts DEF WorkerOK, ResolveOK, ReadOK
<1>3. K \in SUBSET Payloads
  BY WorkerFacts DEF Job, Releasable, RequestRow
<1>4. t \in Tx /\ t.who = tx[w].who /\ t.status = tx[w].status
  BY <1>3, WorkerFacts DEF Tx
<1>5. p \in Steps /\ p # "commit" /\ p # "idle"
  BY DEF Steps
<1>6. Moves(w, p, job[w], t)
  BY WorkerFacts DEF ReleaseKeys, Goto, Moves
<1>7. ApprovalOK(p, job[w], t, request, approvals)
  BY <1>2, <1>4 DEF ApprovalOK
<1>8. WorkerOK(p, job[w], t, request, approvals, released, trail)
  BY <1>2, <1>5, <1>7 DEF WorkerOK
<1>9. job[w] \in Job
  BY WorkerFacts
<1> HIDE DEF t, p
<1> QED BY <1>4, <1>5, <1>6, <1>8, <1>9, LocalStep

\* The records without a key.
LEMMA UnreleasedStep ==
    ASSUME IInv, NEW w \in Workers, Unreleased(w)
    PROVE  IInv'
<1> DEFINE W == request.scope \ (released \cup tx[w].keys)
           j == [job[w] EXCEPT !.waiting = W]
<1>1. pc[w] = "unreleased"
  BY DEF Unreleased
<1>2. /\ job[w].kind \in {"client", "server"} /\ request.status # "none"
      /\ ApprovalOK("unreleased", job[w], tx[w], request, approvals)
  BY <1>1, WorkerFacts DEF WorkerOK, ResolveOK, ReadOK
<1>3. W \in SUBSET Payloads
  BY WorkerFacts DEF RequestRow
<1>4. /\ j \in Job /\ j.kind = job[w].kind /\ j.who = job[w].who
      /\ j.seen = job[w].seen /\ j.counted = job[w].counted
  BY <1>3, WorkerFacts DEF Job
<1>5. "count" \in Steps /\ tx[w] \in Tx
  BY WorkerFacts DEF Steps
<1>6. Moves(w, "count", j, tx[w])
  BY WorkerFacts DEF Unreleased, Goto, Moves
<1>7. ApprovalOK("count", j, tx[w], request, approvals)
  BY <1>2, <1>4 DEF ApprovalOK
<1>8. WorkerOK("count", j, tx[w], request, approvals, released, trail)
  BY <1>2, <1>4, <1>7 DEF WorkerOK
<1> HIDE DEF j
<1> QED BY <1>4, <1>5, <1>6, <1>8, LocalStep

\* The count of the approvals: what it decides is backed by what it counted.
LEMMA CountStep ==
    ASSUME IInv, NEW w \in Workers, CountApprovals(w)
    PROVE  IInv'
<1> DEFINE C == approvals \cup {job[w].who}
           j == [job[w] EXCEPT !.counted = C]
           p == AfterCount(w)
<1>1. pc[w] = "count"
  BY DEF CountApprovals
<1>2. /\ job[w].kind \in {"client", "server"} /\ request.status # "none"
      /\ ApprovalOK("count", job[w], tx[w], request, approvals)
  BY <1>1, WorkerFacts DEF WorkerOK, ResolveOK, ReadOK
<1>3. C \in SUBSET Approvers
  BY <1>2 DEF IInv, TypeOK, ApprovalOK
<1>4. /\ j \in Job /\ j.kind = job[w].kind /\ j.who = job[w].who
      /\ j.seen = job[w].seen /\ j.counted = C
  BY <1>3, WorkerFacts DEF Job
<1>5. tx[w] \in Tx /\ request.required \in Nat
  BY WorkerFacts DEF RequestRow
<1>6. Moves(w, p, j, tx[w])
  BY WorkerFacts DEF CountApprovals, Goto, Moves
<1>7. Cardinality(C) \in Nat
  BY <1>3, ConsentAssumption, FS_Subset, FS_CardinalityType
<1>8. /\ p \in {"lock", "release", "status"}
      /\ p = "release" => job[w].kind = "server"
      /\ p \in {"release", "status"} => Cardinality(C) >= request.required
  BY <1>5, <1>7 DEF AfterCount, Counted
<1> HIDE DEF p
<1>9. tx[w].status = "approved" => Cardinality(C) >= request.required
  <2> SUFFICES ASSUME tx[w].status = "approved"
               PROVE  Cardinality(C) >= request.required
    OBVIOUS
  <2>1. job[w].counted \subseteq C /\ Cardinality(job[w].counted) >= request.required
    BY <1>2 DEF ApprovalOK
  <2>2. IsFiniteSet(C)
    BY <1>3, ConsentAssumption, FS_Subset
  <2>3. Cardinality(job[w].counted) <= Cardinality(C) /\ Cardinality(job[w].counted) \in Nat
    BY <2>1, <2>2, FS_Subset, FS_CardinalityType
  <2> HIDE DEF C
  <2> QED BY <1>5, <1>7, <2>1, <2>3
<1>10. ApprovalOK(p, j, tx[w], request, approvals)
  BY <1>2, <1>4, <1>8, <1>9 DEF ApprovalOK
<1>11. WorkerOK(p, j, tx[w], request, approvals, released, trail)
  BY <1>2, <1>4, <1>8, <1>10 DEF WorkerOK
<1>12. p \in Steps /\ p # "commit"
  BY <1>8 DEF Steps
<1> HIDE DEF j
<1> QED BY <1>4, <1>5, <1>6, <1>11, <1>12, LocalStep

\* The UPDATE of the status.
LEMMA StatusStep ==
    ASSUME IInv, NEW w \in Workers, SetStatus(w)
    PROVE  IInv'
<1> DEFINE s == IF job[w].kind = "resolve" THEN job[w].to ELSE "approved"
           t == [tx[w] EXCEPT !.status = s]
<1>1. pc[w] = "status"
  BY DEF SetStatus
<1>2. /\ request.status # "none"
      /\ \/ job[w].kind \in {"client", "server"}
              /\ ApprovalOK("status", job[w], tx[w], request, approvals)
         \/ job[w].kind = "resolve" /\ ResolveOK("status", job[w], tx[w])
  BY <1>1, WorkerFacts DEF WorkerOK, ReadOK
<1>3. s \in Statuses
  BY <1>2 DEF ResolveOK, Statuses
<1>4. t \in Tx /\ t.who = tx[w].who /\ t.keys = tx[w].keys /\ t.status = s
  BY <1>3, WorkerFacts DEF Tx
<1>5. "lock" \in Steps /\ job[w] \in Job
  BY WorkerFacts DEF Steps
<1>6. Moves(w, "lock", job[w], t)
  BY WorkerFacts DEF SetStatus, Goto, Moves
<1>7. WorkerOK("lock", job[w], t, request, approvals, released, trail)
  <2>1. CASE job[w].kind \in {"client", "server"}
    <3>1. ApprovalOK("status", job[w], tx[w], request, approvals) /\ s = "approved"
      BY <1>2, <2>1
    <3>2. ApprovalOK("lock", job[w], t, request, approvals)
      BY <1>4, <3>1 DEF ApprovalOK
    <3> QED BY <1>2, <2>1, <3>2 DEF WorkerOK
  <2>2. CASE job[w].kind = "resolve"
    <3>1. ResolveOK("lock", job[w], t)
      BY <1>2, <1>4, <2>2 DEF ResolveOK
    <3> QED BY <1>2, <2>2, <3>1 DEF WorkerOK
  <2> QED BY <1>2, <2>1, <2>2
<1> HIDE DEF t
<1> QED BY <1>4, <1>5, <1>6, <1>7, LocalStep

\* The record is in scope and has a key.
LEMMA GrantStep ==
    ASSUME IInv, NEW w \in Workers, CheckGrant(w)
    PROVE  IInv'
<1>1. CASE Rollback(w)
  BY <1>1, RollbackStep
<1>2. CASE /\ job[w].payload \in request.scope \cap released
           /\ Goto(w, "lock")
           /\ UNCHANGED <<job, tx, db>>
  <2>1. pc[w] = "grant"
    BY DEF CheckGrant
  <2>2. /\ job[w].kind = "read" /\ request.status # "none"
        /\ ReadOK("grant", job[w], tx[w], request, released, trail)
    BY <2>1, WorkerFacts DEF WorkerOK, ApprovalOK, ResolveOK
  <2>3. ReadOK("lock", job[w], tx[w], request, released, trail)
    BY <1>2, <2>2 DEF ReadOK
  <2>4. WorkerOK("lock", job[w], tx[w], request, approvals, released, trail)
    BY <2>2, <2>3 DEF WorkerOK
  <2>5. Moves(w, "lock", job[w], tx[w])
    BY <1>2, WorkerFacts DEF Goto, Moves
  <2>6. "lock" \in Steps /\ job[w] \in Job /\ tx[w] \in Tx
    BY WorkerFacts DEF Steps
  <2> QED BY <2>4, <2>5, <2>6, LocalStep
<1> QED BY <1>1, <1>2 DEF CheckGrant

\* The trace row and the next number.
LEMMA LockStep ==
    ASSUME IInv, NEW w \in Workers, LockTrace(w)
    PROVE  IInv'
<1> DEFINE n == Len(trail) + 1
           j == [job[w] EXCEPT !.seq = n]
<1>0. n \in Nat
  BY WorkerFacts
<1>1. pc[w] = "lock" /\ \A v \in Workers \ {w} : pc[v] # "commit"
  BY DEF LockTrace, TraceFree
<1>2. /\ j \in Job /\ j.kind = job[w].kind /\ j.who = job[w].who /\ j.seen = job[w].seen
      /\ j.to = job[w].to /\ j.payload = job[w].payload /\ j.counted = job[w].counted
      /\ j.seq = n
  <2> HIDE DEF n
  <2> QED BY <1>0, WorkerFacts DEF Job
<1>3. "commit" \in Steps /\ tx[w] \in Tx
  BY WorkerFacts DEF Steps
<1>4. Moves(w, "commit", j, tx[w])
  BY WorkerFacts DEF LockTrace, Goto, Moves
<1>5. WorkerOK("lock", job[w], tx[w], request, approvals, released, trail)
  BY <1>1, WorkerFacts
<1> HIDE DEF j
<1>6. WorkerOK("commit", j, tx[w], request, approvals, released, trail)
  BY <1>2, <1>5 DEF WorkerOK, ApprovalOK, ResolveOK, ReadOK
<1> QED BY <1>1, <1>2, <1>3, <1>4, <1>6, LocalStep

-----------------------------------------------------------------------------
(* Steps that touch the committed rows without a worker.                   *)

\* Erasures and the clock change nothing the invariant reads but a type.
LEMMA EraseExpireStep ==
    ASSUME IInv, (\E p \in Payloads : Erase(p)) \/ Expire
    PROVE  IInv'
<1>1. /\ request' = request /\ approvals' = approvals /\ released' = released
      /\ trail' = trail /\ pc' = pc /\ job' = job /\ tx' = tx
  BY DEF Erase, Expire
<1>2. TypeOK'
  BY <1>1 DEF IInv, TypeOK, Erase, Expire
<1>3. WorkersOK' /\ HolderInv' /\ TrailOK(request, approvals, released, trail)'
  BY <1>1 DEF IInv, WorkersOK, HolderInv
<1>4. ApprovedByQuorum' /\ ReadsWithinGrant' /\ LastVerdictHolds'
  BY <1>1 DEF IInv, ApprovedByQuorum, ApproversUpTo, ReadsWithinGrant, LastVerdictHolds, Verdicts
<1> QED BY <1>2, <1>3, <1>4 DEF IInv

\* A request is filed: nobody works on it yet.
LEMMA FileStep ==
    ASSUME IInv, NEW n \in 1..Cardinality(Approvers), NEW S \in SUBSET Payloads, File(n, S)
    PROVE  IInv'
<1> DEFINE e == [type |-> "filed", who |-> None, counted |-> {}, keys |-> {},
                 payload |-> None, before |-> "none", after |-> "pending"]
<1>1. /\ request.status = "none" /\ request' = [status |-> "pending", required |-> n, scope |-> S]
      /\ approvals' = approvals /\ released' = released /\ shredded' = shredded
      /\ expired' = expired /\ pc' = pc /\ job' = job /\ tx' = tx /\ trail' = <<e>>
  BY DEF File
<1>2. e \in ConsentEvent /\ e.type = "filed"
  BY DEF ConsentEvent, Statuses
<1>3. trail = <<>> /\ approvals = {} /\ released = {}
  BY <1>1 DEF IInv, TrailOK
<1> HIDE DEF e
<1>4. trail' \in Seq(ConsentEvent) /\ Len(trail') = 1 /\ trail'[1] = e /\ DOMAIN trail' = {1}
  BY <1>1, <1>2
<1>5. request'.status = "pending" /\ request' \in RequestRow
  BY <1>1, ConsentAssumption, FS_CardinalityType DEF RequestRow, Statuses
<1>6. TypeOK'
  BY <1>1, <1>4, <1>5 DEF IInv, TypeOK
<1>7. \A w \in Workers : pc[w] = "idle" /\ job[w] = NoJob /\ tx[w] = NoTx
  BY <1>1 DEF IInv, WorkersOK, WorkerOK
<1>8. WorkersOK' /\ HolderInv'
  BY <1>1, <1>7 DEF WorkersOK, WorkerOK, HolderInv
<1>9. TrailOK(request, approvals, released, trail)'
  BY <1>1, <1>3, <1>5 DEF TrailOK
<1>10. ApprovedByQuorum' /\ ReadsWithinGrant'
  BY <1>2, <1>4 DEF ApprovedByQuorum, ReadsWithinGrant
<1>11. LastVerdictHolds'
  BY <1>2, <1>4, <1>5 DEF LastVerdictHolds, Verdicts
<1> QED BY <1>6, <1>8, <1>9, <1>10, <1>11 DEF IInv

-----------------------------------------------------------------------------
(* Commit.                                                                 *)

\* More approvals, more keys and a longer trail take nothing from a worker.
LEMMA WorkerKept ==
    ASSUME NEW v \in Workers, WorkersOK,
           request'.status # "none", request'.required = request.required,
           request'.scope = request.scope,
           approvals \subseteq approvals', released \subseteq released',
           Granted(trail) => Granted(trail')
    PROVE  WorkerOK(pc[v], job[v], tx[v], request', approvals', released', trail')
<1>1. WorkerOK(pc[v], job[v], tx[v], request, approvals, released, trail)
  BY DEF WorkersOK
<1>2. ASSUME ApprovalOK(pc[v], job[v], tx[v], request, approvals)
      PROVE  ApprovalOK(pc[v], job[v], tx[v], request', approvals')
  BY <1>2 DEF ApprovalOK
<1>3. ASSUME ReadOK(pc[v], job[v], tx[v], request, released, trail)
      PROVE  ReadOK(pc[v], job[v], tx[v], request', released', trail')
  BY <1>3 DEF ReadOK
<1> QED BY <1>1, <1>2, <1>3 DEF WorkerOK

\* What the event of a worker that commits says, by the kind of its request.
LEMMA EventFacts ==
    ASSUME IInv, NEW w \in Workers, pc[w] = "commit"
    PROVE  /\ EventOf(w) \in ConsentEvent /\ request.status # "none"
           /\ EventOf(w).keys = tx[w].keys /\ EventOf(w).who = job[w].who
           /\ EventOf(w).payload = job[w].payload
           /\ \/ /\ EventOf(w).type = "approval"
                 /\ ApprovalOK("commit", job[w], tx[w], request, approvals)
                 /\ \/ tx[w].status = None /\ EventOf(w).after = "pending"
                    \/ tx[w].status = "approved" /\ EventOf(w).after = "approved"
              \/ /\ EventOf(w).type = "resolution" /\ tx[w].who = None /\ tx[w].keys = {}
                 /\ tx[w].status \in Closed /\ EventOf(w).after = tx[w].status
              \/ /\ EventOf(w).type = "read" /\ tx[w] = NoTx
                 /\ Granted(trail)
                 /\ job[w].payload \in request.scope /\ job[w].payload \in released
<1>1. /\ WorkerOK("commit", job[w], tx[w], request, approvals, released, trail)
      /\ job[w] \in Job /\ tx[w] \in Tx
  BY WorkerFacts
<1>2. request.status # "none"
  BY <1>1 DEF WorkerOK
<1>3. /\ EventOf(w).type = EventType(job[w]) /\ EventOf(w).after = StatusAfter(w)
      /\ EventOf(w).keys = tx[w].keys /\ EventOf(w).who = job[w].who
      /\ EventOf(w).payload = job[w].payload
  BY DEF EventOf
<1>4. EventType(job[w]) \in {"approval", "resolution", "read"}
  BY DEF EventType
<1>5. ASSUME StatusAfter(w) \in Statuses
      PROVE  EventOf(w) \in ConsentEvent
  BY <1>1, <1>4, <1>5 DEF EventOf, ConsentEvent, Job, Tx
<1>6. CASE job[w].kind \in {"client", "server"}
  <2>1. ApprovalOK("commit", job[w], tx[w], request, approvals)
    BY <1>1, <1>6 DEF WorkerOK
  <2>2. \/ tx[w].status = None /\ StatusAfter(w) = "pending"
        \/ tx[w].status = "approved" /\ StatusAfter(w) = "approved"
    BY <2>1, ConsentAssumption DEF ApprovalOK, StatusAfter
  <2>3. EventType(job[w]) = "approval"
    BY <1>6 DEF EventType
  <2> QED BY <1>2, <1>3, <1>5, <2>1, <2>2, <2>3 DEF Statuses
<1>7. CASE job[w].kind = "resolve"
  <2>1. /\ tx[w].who = None /\ tx[w].keys = {} /\ tx[w].status \in Closed
    BY <1>1, <1>7 DEF WorkerOK, ResolveOK
  <2>2. StatusAfter(w) = tx[w].status
    BY <2>1, ConsentAssumption DEF StatusAfter, Closed
  <2>3. EventType(job[w]) = "resolution"
    BY <1>7 DEF EventType
  <2> QED BY <1>2, <1>3, <1>5, <2>1, <2>2, <2>3 DEF Statuses
<1>8. CASE job[w].kind = "read"
  <2>1. ReadOK("commit", job[w], tx[w], request, released, trail)
    BY <1>1, <1>8 DEF WorkerOK
  <2>2. tx[w] = NoTx /\ StatusAfter(w) = "approved"
    BY <2>1, NothingTyped DEF ReadOK, StatusAfter
  <2>3. EventType(job[w]) = "read"
    BY <1>8 DEF EventType
  <2> QED BY <1>2, <1>3, <1>5, <2>1, <2>2, <2>3 DEF ReadOK, Statuses
<1> QED BY <1>1, <1>6, <1>7, <1>8 DEF WorkerOK

\* The rows after a commit, without the choice of what was written.
Committed(w) ==
    /\ job[w].seq = Len(trail) + 1
    /\ trail' = Append(trail, EventOf(w))
    /\ request' = IF tx[w].status = None THEN request
                  ELSE [request EXCEPT !.status = tx[w].status]
    /\ approvals' = approvals \cup ({tx[w].who} \ {None})
    /\ released' = released \cup tx[w].keys
    /\ Forget(w)
    /\ UNCHANGED <<shredded, expired>>

\* What a commit does to the rows and to the trail.
LEMMA CommitFacts ==
    ASSUME IInv, NEW w \in Workers, pc[w] = "commit", Committed(w)
    PROVE  /\ Len(trail) \in Nat /\ trail \in Seq(ConsentEvent) /\ trail' \in Seq(ConsentEvent)
           /\ Len(trail') = Len(trail) + 1
           /\ DOMAIN trail = 1..Len(trail) /\ DOMAIN trail' = 1..(Len(trail) + 1)
           /\ \A i \in 1..Len(trail) : trail'[i] = trail[i]
           /\ trail'[Len(trail) + 1] = EventOf(w)
           /\ request' \in RequestRow /\ request'.status # "none"
           /\ request'.required = request.required /\ request'.scope = request.scope
           /\ request'.status = IF tx[w].status = None THEN request.status ELSE tx[w].status
           /\ approvals' \subseteq Approvers /\ released' \subseteq Payloads
           /\ Granted(trail) => Granted(trail')
<1>1. EventOf(w) \in ConsentEvent
  BY EventFacts
<1>2. trail \in Seq(ConsentEvent) /\ Len(trail) \in Nat /\ DOMAIN trail = 1..Len(trail)
  BY WorkerFacts, LenProperties
<1>3. trail' = Append(trail, EventOf(w))
  BY DEF Committed
<1>4. /\ trail' \in Seq(ConsentEvent) /\ Len(trail') = Len(trail) + 1
      /\ DOMAIN trail' = 1..(Len(trail) + 1)
      /\ \A i \in 1..Len(trail) : trail'[i] = trail[i]
      /\ trail'[Len(trail) + 1] = EventOf(w)
  <2> DEFINE ev == EventOf(w)
  <2>1. ev \in ConsentEvent /\ trail' = Append(trail, ev)
    BY <1>1, <1>3
  <2> HIDE DEF ev
  <2>2. /\ trail' \in Seq(ConsentEvent) /\ Len(trail') = Len(trail) + 1
        /\ \A i \in 1..Len(trail) : trail'[i] = trail[i]
        /\ trail'[Len(trail) + 1] = ev
    BY <1>2, <2>1, AppendProperties
  <2>3. DOMAIN trail' = 1..Len(trail')
    BY <2>2, LenProperties
  <2> QED BY <2>2, <2>3 DEF ev
<1>5. /\ request' \in RequestRow /\ request'.status # "none"
      /\ request'.required = request.required /\ request'.scope = request.scope
      /\ request'.status = IF tx[w].status = None THEN request.status ELSE tx[w].status
  <2>1. request.status # "none" /\ request \in RequestRow /\ tx[w].status \in Statuses \cup {None}
    BY EventFacts, WorkerFacts DEF Tx
  <2> QED BY <2>1 DEF Committed, RequestRow, Statuses, Closed
<1>6. approvals' \subseteq Approvers /\ released' \subseteq Payloads
  BY WorkerFacts DEF IInv, TypeOK, Committed, Tx
<1>7. Granted(trail) => Granted(trail')
  BY <1>2, <1>4 DEF Granted
<1> QED BY <1>2, <1>4, <1>5, <1>6, <1>7

\* The evidence in the trail keeps up with the rows.
LEMMA CommitTrail ==
    ASSUME IInv, NEW w \in Workers, pc[w] = "commit", Committed(w)
    PROVE  TrailOK(request', approvals', released', trail')
<1> DEFINE n == Len(trail)
           e == EventOf(w)
<1>1. /\ n \in Nat /\ n + 1 \in DOMAIN trail' /\ trail'[n + 1] = e
      /\ \A i \in DOMAIN trail : i \in DOMAIN trail' /\ trail'[i] = trail[i]
  BY CommitFacts
<1>2. TrailOK(request, approvals, released, trail)
  BY DEF IInv
<1>3. /\ approvals' = approvals \cup ({tx[w].who} \ {None}) /\ released' = released \cup tx[w].keys
  BY DEF Committed
<1>4. e.keys = tx[w].keys /\ e.who = job[w].who
  BY EventFacts
<1>5. \/ e.type = "approval" /\ tx[w].who = job[w].who
      \/ tx[w].who = None /\ tx[w].keys = {}
  BY EventFacts, NothingTyped DEF ApprovalOK
<1>6. tx[w].status = "approved" => e.type = "approval" /\ e.after = "approved"
  BY EventFacts, NothingTyped, ConsentAssumption DEF Closed
<1> HIDE DEF n, e
<1>7. \A a \in approvals' : \E i \in DOMAIN trail' : trail'[i].type = "approval" /\ trail'[i].who = a
  BY <1>1, <1>2, <1>3, <1>4, <1>5 DEF TrailOK
<1>8. \A k \in released' : \E i \in DOMAIN trail' : trail'[i].type = "approval" /\ k \in trail'[i].keys
  BY <1>1, <1>2, <1>3, <1>4, <1>5 DEF TrailOK
<1>9. request'.status = "approved" => Granted(trail')
  <2>1. CASE tx[w].status = None
    BY <1>2, <2>1, CommitFacts DEF TrailOK
  <2>2. CASE tx[w].status # None
    BY <1>1, <1>6, <2>2, CommitFacts DEF Granted
  <2> QED BY <2>1, <2>2
<1>10. request'.status # "none"
  BY CommitFacts
<1> QED BY <1>7, <1>8, <1>9, <1>10 DEF TrailOK

\* The event of the last approver closes a quorum that the trail shows.
LEMMA CommitQuorum ==
    ASSUME IInv, NEW w \in Workers, pc[w] = "commit", Committed(w)
    PROVE  ApprovedByQuorum'
<1> DEFINE n == Len(trail)
           e == EventOf(w)
           Up(i) == {trail'[k].who : k \in {l \in 1..i : trail'[l].type = "approval"}}
<1>1. /\ n \in Nat /\ Len(trail') = n + 1 /\ trail'[n + 1] = e
      /\ \A i \in 1..n : trail'[i] = trail[i]
      /\ DOMAIN trail' = 1..(n + 1) /\ request'.required = request.required
      /\ trail' \in Seq(ConsentEvent)
  BY CommitFacts
<1>2. ApprovedByQuorum
  BY DEF IInv
<1>3. \A i \in 1..n : Up(i) = ApproversUpTo(i)
  BY <1>1 DEF ApproversUpTo
<1>4. SUFFICES ASSUME NEW i \in 1..(n + 1), trail'[i].type = "approval", trail'[i].after = "approved"
               PROVE  Cardinality(Up(i)) >= request.required
  BY <1>1 DEF ApprovedByQuorum, ApproversUpTo
<1>5. CASE i \in 1..n
  BY <1>1, <1>2, <1>3, <1>4, <1>5 DEF ApprovedByQuorum
<1>6. CASE i = n + 1
  <2>1. e.type = "approval" /\ e.after = "approved"
    BY <1>1, <1>4, <1>6
  <2>2. /\ ApprovalOK("commit", job[w], tx[w], request, approvals)
        /\ tx[w].status = "approved" /\ e.who = job[w].who
    BY <2>1, EventFacts
  <2>3. job[w].counted \subseteq approvals \cup {job[w].who} /\ Cardinality(job[w].counted) >= request.required
    BY <2>2 DEF ApprovalOK
  <2>4. approvals \cup {job[w].who} \subseteq approvals'
    BY <2>2, ConsentAssumption DEF ApprovalOK, Committed
  <2>5. \A a \in approvals' : a \in Up(n + 1)
    <3>1. TrailOK(request', approvals', released', trail')
      BY CommitTrail
    <3> QED BY <1>1, <3>1 DEF TrailOK
  <2>6. job[w].counted \subseteq Up(n + 1)
    BY <2>3, <2>4, <2>5
  <2>7. Up(n + 1) \subseteq Approvers \cup {None}
    <3>1. \A k \in 1..(n + 1) : trail'[k] \in ConsentEvent
      BY <1>1
    <3> HIDE DEF n
    <3> QED BY <3>1 DEF ConsentEvent
  <2>8. IsFiniteSet(Approvers \cup {None})
    BY ConsentAssumption, FS_AddElement
  <2>9. IsFiniteSet(Up(n + 1))
    BY <2>7, <2>8, FS_Subset
  <2>10. /\ Cardinality(job[w].counted) <= Cardinality(Up(n + 1))
         /\ Cardinality(job[w].counted) \in Nat /\ Cardinality(Up(n + 1)) \in Nat
    BY <2>6, <2>9, FS_Subset, FS_CardinalityType
  <2>11. request.required \in Nat
    BY WorkerFacts DEF RequestRow
  <2>12. Cardinality(Up(i)) = Cardinality(Up(n + 1))
    BY <1>6
  <2> HIDE DEF Up, n
  <2> QED BY <2>3, <2>10, <2>11, <2>12
<1>7. i \in 1..n \/ i = n + 1
  BY <1>1, <1>4
<1> QED BY <1>5, <1>6, <1>7

\* The event of a read has the approval and the key before it.
LEMMA CommitReads ==
    ASSUME IInv, NEW w \in Workers, pc[w] = "commit", Committed(w)
    PROVE  ReadsWithinGrant'
<1> DEFINE n == Len(trail)
           e == EventOf(w)
           Gr(i) == \E j \in 1..(i - 1) : trail'[j].type = "approval" /\ trail'[j].after = "approved"
           Ky(i) == \E j \in 1..(i - 1) : trail'[j].type = "approval" /\ trail'[i].payload \in trail'[j].keys
<1>1. /\ n \in Nat /\ Len(trail') = n + 1 /\ trail'[n + 1] = e
      /\ \A i \in 1..n : trail'[i] = trail[i]
      /\ DOMAIN trail = 1..n /\ request'.scope = request.scope
  BY CommitFacts
<1>2. ReadsWithinGrant /\ TrailOK(request, approvals, released, trail)
  BY DEF IInv
<1>3. SUFFICES ASSUME NEW i \in 1..(n + 1), trail'[i].type = "read"
               PROVE  trail'[i].payload \in request.scope /\ Gr(i) /\ Ky(i)
  BY <1>1 DEF ReadsWithinGrant
<1>4. CASE i \in 1..n
  <2>1. \A j \in 1..(i - 1) : trail'[j] = trail[j]
    BY <1>1, <1>4
  <2> QED BY <1>1, <1>2, <1>3, <1>4, <2>1 DEF ReadsWithinGrant
<1>5. CASE i = n + 1
  <2>1. /\ Granted(trail) /\ e.payload \in request.scope /\ e.payload \in released
    BY <1>1, <1>3, <1>5, EventFacts
  <2>2. i - 1 = n
    BY <1>1, <1>5
  <2>3. Gr(i)
    BY <1>1, <2>1, <2>2 DEF Granted
  <2>4. Ky(i)
    BY <1>1, <1>2, <1>5, <2>1, <2>2 DEF TrailOK
  <2> QED BY <1>1, <1>5, <2>1, <2>3, <2>4
<1> QED BY <1>1, <1>3, <1>4, <1>5

\* The last verdict tells the status.
LEMMA CommitStatus ==
    ASSUME IInv, NEW w \in Workers, pc[w] = "commit", Committed(w)
    PROVE  LastVerdictHolds'
<1> DEFINE n == Len(trail)
           e == EventOf(w)
           Changing(ev) == ev.type = "resolution" \/ (ev.type = "approval" /\ ev.after = "approved")
<1>1. /\ n \in Nat /\ Len(trail') = n + 1 /\ trail'[n + 1] = e
      /\ \A i \in 1..n : trail'[i] = trail[i]
      /\ request'.status = IF tx[w].status = None THEN request.status ELSE tx[w].status
  BY CommitFacts
<1>2. LastVerdictHolds /\ request.status # "none"
  BY EventFacts DEF IInv
<1>3. \/ tx[w].status = None /\ ~Changing(e)
      \/ tx[w].status # None /\ Changing(e) /\ tx[w].status = e.after
  BY EventFacts, NothingTyped, ConsentAssumption DEF Closed
<1>4. Verdicts' = {i \in 1..(n + 1) : Changing(trail'[i])} /\ Verdicts = {i \in 1..n : Changing(trail[i])}
  BY <1>1 DEF Verdicts
<1> HIDE DEF Changing, e
<1>5. CASE tx[w].status = None /\ ~Changing(e)
  <2>1. Verdicts' = Verdicts /\ request'.status = request.status
    BY <1>1, <1>4, <1>5
  <2>2. \A i \in Verdicts : trail'[i].after = trail[i].after
    BY <1>1, <1>4
  <2> QED BY <1>2, <2>1, <2>2 DEF LastVerdictHolds
<1>6. CASE tx[w].status # None /\ Changing(e) /\ tx[w].status = e.after
  <2>1. n + 1 \in Verdicts' /\ \A j \in Verdicts' : j <= n + 1
    BY <1>1, <1>4, <1>6
  <2>2. request'.status = trail'[n + 1].after
    BY <1>1, <1>6
  <2> QED BY <2>1, <2>2 DEF LastVerdictHolds
<1> QED BY <1>3, <1>5, <1>6

\* A request ends: it commits, or its number was taken.
LEMMA CommitStep ==
    ASSUME IInv, NEW w \in Workers, Commit(w)
    PROVE  IInv'
<1>1. CASE Rollback(w)
  BY <1>1, RollbackStep
<1>2. CASE Committed(w)
  <2>1. pc[w] = "commit" /\ TypeOK /\ WorkersOK /\ HolderInv
    BY DEF Commit, IInv
  <2>2. /\ pc' = [pc EXCEPT ![w] = "idle"] /\ job' = [job EXCEPT ![w] = NoJob]
        /\ tx' = [tx EXCEPT ![w] = NoTx]
        /\ approvals \subseteq approvals' /\ released \subseteq released'
        /\ shredded' = shredded /\ expired' = expired
    BY <1>2 DEF Committed, Forget, Goto
  <2>3. /\ pc'[w] = "idle" /\ job'[w] = NoJob /\ tx'[w] = NoTx
        /\ \A v \in Workers \ {w} : pc'[v] = pc[v] /\ job'[v] = job[v] /\ tx'[v] = tx[v]
    BY <2>1, <2>2 DEF TypeOK
  <2>4. TypeOK'
    BY <1>2, <2>1, <2>2, CommitFacts, NothingTyped DEF TypeOK, Steps
  <2>5. WorkersOK'
    <3> SUFFICES ASSUME NEW v \in Workers
                 PROVE  WorkerOK(pc'[v], job'[v], tx'[v], request', approvals', released', trail')
      BY DEF WorkersOK
    <3>1. CASE v = w
      BY <2>3, <3>1 DEF WorkerOK
    <3>2. CASE v # w
      <4>1. /\ request'.status # "none" /\ request'.required = request.required
            /\ request'.scope = request.scope /\ (Granted(trail) => Granted(trail'))
        BY <1>2, <2>1, CommitFacts
      <4>2. WorkerOK(pc[v], job[v], tx[v], request', approvals', released', trail')
        BY <2>1, <2>2, <4>1, WorkerKept
      <4> QED BY <2>3, <3>2, <4>2
    <3> QED BY <3>1, <3>2
  <2>6. HolderInv'
    BY <2>1, <2>3 DEF HolderInv
  <2>7. TrailOK(request, approvals, released, trail)'
    BY <1>2, <2>1, CommitTrail
  <2>8. ApprovedByQuorum' /\ ReadsWithinGrant' /\ LastVerdictHolds'
    BY <1>2, <2>1, CommitQuorum, CommitReads, CommitStatus
  <2> QED BY <2>4, <2>5, <2>6, <2>7, <2>8 DEF IInv
<1> QED BY <1>1, <1>2 DEF Commit, Committed

-----------------------------------------------------------------------------
(* The theorems.                                                           *)

\* Before the request is filed there is nothing to be out of order.
LEMMA InitInv == Init => IInv
<1> SUFFICES ASSUME Init PROVE IInv
  OBVIOUS
<1>1. TypeOK
  <2>1. request \in RequestRow
    BY DEF Init, RequestRow
  <2>2. trail \in Seq(ConsentEvent)
    BY DEF Init
  <2>3. pc \in [Workers -> Steps] /\ job \in [Workers -> Job] /\ tx \in [Workers -> Tx]
    BY NothingTyped DEF Init, Steps
  <2> QED BY <2>1, <2>2, <2>3 DEF Init, TypeOK
<1>2. WorkersOK /\ HolderInv
  BY DEF Init, WorkersOK, WorkerOK, HolderInv
<1>3. TrailOK(request, approvals, released, trail)
  BY DEF Init, TrailOK
<1>4. Len(trail) = 0 /\ request.status = "none"
  BY DEF Init
<1>5. ApprovedByQuorum /\ ReadsWithinGrant /\ LastVerdictHolds
  BY <1>4 DEF ApprovedByQuorum, ReadsWithinGrant, LastVerdictHolds
<1> QED BY <1>1, <1>2, <1>3, <1>5 DEF IInv

\* Every step keeps the invariant.
LEMMA NextInv == IInv /\ [Next]_vars => IInv'
<1> SUFFICES ASSUME IInv, [Next]_vars PROVE IInv'
  OBVIOUS
<1>1. ASSUME NEW n \in 1..Cardinality(Approvers), NEW S \in (SUBSET Payloads) \ {{}}, File(n, S)
      PROVE  IInv'
  BY <1>1, FileStep
<1>2. ASSUME NEW w \in Workers, Start(w) \/ Step(w) \/ Crash(w)
      PROVE  IInv'
  <2>1. CASE Start(w)
    BY <2>1, StartStep
  <2>2. CASE Load(w)
    BY <2>2, LoadStep
  <2>3. CASE InsertApproval(w)
    BY <2>3, InsertStep
  <2>4. CASE ReleaseKeys(w)
    BY <2>4, ReleaseStep
  <2>5. CASE Unreleased(w)
    BY <2>5, UnreleasedStep
  <2>6. CASE CountApprovals(w)
    BY <2>6, CountStep
  <2>7. CASE SetStatus(w)
    BY <2>7, StatusStep
  <2>8. CASE CheckGrant(w)
    BY <2>8, GrantStep
  <2>9. CASE LockTrace(w)
    BY <2>9, LockStep
  <2>10. CASE Commit(w)
    BY <2>10, CommitStep
  <2>11. CASE Crash(w)
    BY <2>11, RollbackStep DEF Crash
  <2> QED BY <1>2, <2>1, <2>2, <2>3, <2>4, <2>5, <2>6, <2>7, <2>8, <2>9, <2>10, <2>11 DEF Step
<1>3. ASSUME (\E p \in Payloads : Erase(p)) \/ Expire
      PROVE  IInv'
  BY <1>3, EraseExpireStep
<1>4. CASE UNCHANGED vars
  <2>1. /\ request' = request /\ approvals' = approvals /\ released' = released
        /\ shredded' = shredded /\ trail' = trail /\ expired' = expired
        /\ pc' = pc /\ job' = job /\ tx' = tx
    BY <1>4 DEF vars
  <2> QED BY <2>1 DEF IInv, TypeOK, WorkersOK, HolderInv, ApprovedByQuorum, ApproversUpTo,
                       ReadsWithinGrant, LastVerdictHolds, Verdicts
<1> QED BY <1>1, <1>2, <1>3, <1>4 DEF Next

\* The invariant holds in every state of every run of the grant.
THEOREM Invariance == Spec => []IInv
BY InitInv, NextInv, PTL DEF Spec

\* Rows, trail and the state of every worker keep their types.
THEOREM TypeCorrect == Spec => []TypeOK
<1>1. IInv => TypeOK
  BY DEF IInv
<1> QED BY <1>1, Invariance, PTL

\* An approval that says "approved" is backed by required_approvals different
\* officers in the trail, however many approve, deny or crash at once.
THEOREM QuorumEvidenced == Spec => []ApprovedByQuorum
<1>1. IInv => ApprovedByQuorum
  BY DEF IInv
<1> QED BY <1>1, Invariance, PTL

\* Every recorded read is of a record in scope, after an approval of the request
\* and after the release of that record's key.
THEOREM ReadsGranted == Spec => []ReadsWithinGrant
<1>1. IInv => ReadsWithinGrant
  BY DEF IInv
<1> QED BY <1>1, Invariance, PTL

\* The status of the request is the one the last verdict in its trail says.
THEOREM TrailFaithful == Spec => []LastVerdictHolds
<1>1. IInv => LastVerdictHolds
  BY DEF IInv
<1> QED BY <1>1, Invariance, PTL

\* The number an append read under the row lock is free when it inserts.
THEOREM AppendsNeverCollide == Spec => []LockedAppendsNeverCollide
<1>1. IInv => LockedAppendsNeverCollide
  BY DEF IInv, HolderInv, LockedAppendsNeverCollide
<1> QED BY <1>1, Invariance, PTL
=============================================================================
