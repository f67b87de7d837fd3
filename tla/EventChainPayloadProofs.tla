----------------------- MODULE EventChainPayloadProofs -----------------------
(***************************************************************************)
(* What EventChain says of payloads, for every number of workers,          *)
(* organisations, traces and payloads: content is gone exactly when an     *)
(* erasure event says so and it never comes back, and neither the gate's   *)
(* decision nor the output it judged is on a chain without the other next  *)
(* to it.                                                                  *)
(***************************************************************************)
EXTENDS EventChainProofs

-----------------------------------------------------------------------------
(* Erasure: the invariant.                                                 *)

\* Contents of the calls left to make, and of the rows written.
Pending(q) == {q[i].content : i \in DOMAIN q}

Written(R) == {r.content : r \in R}

\* Calls of record_event a request may have left to make.
Calls == Seq([trace : Traces, content : Contents \cup {None}])

\* A request at step p with arguments j, rows R and writes t, while the payload
\* table is st.  What it stored is still missing from the table and what it
\* shreds is there; and it shreds exactly what its erasure events, written or
\* still to be written, name.
EraseOK(p, j, R, t, st) ==
    /\ \A c \in t.stored : st[j.org, c] = "absent"
    /\ \A c \in t.shredded : st[j.org, c] # "absent"
    /\ p \in {"idle", "target", "shred"} => t.shredded = {} /\ R = {}
    /\ p = "shred" => st[j.org, j.target] # "absent" /\ Pending(j.todo) = {Note(j.target)}
    /\ p \notin {"idle", "target", "shred"} =>
          \A c \in Erasable : Note(c) \in Pending(j.todo) \cup Written(R) <=> c \in t.shredded
    /\ p = "commit" => j.todo = <<>>

\* Two requests of an organisation never store the same payload: the second
\* insert waits for the first.
ApartInv ==
    \A v, w \in Workers :
        v # w /\ job[v].org = job[w].org => tx[v].stored \cap tx[w].stored = {}

RequestsInv ==
    \A w \in Workers : EraseOK(pc[w], job[w], rows[w], tx[w], store)

EraseInv == RequestsInv /\ ApartInv /\ ErasureEvidenced

-----------------------------------------------------------------------------
(* Notes and calls.                                                        *)

\* An erasure event names one payload.
LEMMA NoteApart ==
    /\ \A c, d \in Erasable : Note(c) = Note(d) => c = d
    /\ \A c \in Erasable : Note(c) \notin Erasable
  BY NotesAssumption DEF Note

\* The first call and the others.
LEMMA PendingParts ==
    ASSUME NEW q \in Calls, q # <<>>
    PROVE  Pending(q) = {Head(q).content} \cup Pending(Tail(q))
<1> DEFINE C == [trace : Traces, content : Contents \cup {None}]
<1>0. q \in Seq(C)
  BY DEF Calls
<1> HIDE DEF C
<1>1. /\ Tail(q) \in Seq(C) /\ Len(Tail(q)) = Len(q) - 1
      /\ \A i \in 1..Len(Tail(q)) : Tail(q)[i] = q[i + 1]
  BY <1>0, HeadTailProperties
<1>2. DOMAIN q = 1..Len(q) /\ DOMAIN Tail(q) = 1..Len(Tail(q)) /\ Len(q) \in Nat \ {0} /\ Head(q) = q[1]
  BY <1>0, <1>1, LenProperties, EmptySeq
<1>3. \A i \in DOMAIN q : i = 1 \/ (i - 1 \in DOMAIN Tail(q) /\ Tail(q)[i - 1] = q[i])
  BY <1>1, <1>2
<1>4. \A i \in DOMAIN Tail(q) : i + 1 \in DOMAIN q /\ Tail(q)[i] = q[i + 1]
  BY <1>1, <1>2
<1>5. 1 \in DOMAIN q
  BY <1>2
<1> QED BY <1>2, <1>3, <1>4, <1>5 DEF Pending

\* Callers record what can be erased, never a note.
LEMMA GateCallsPlain ==
    ASSUME NEW t \in Traces, NEW c \in Payloads, NEW judged \in BOOLEAN
    PROVE  \A i \in DOMAIN GateCalls(t, c, judged) : GateCalls(t, c, judged)[i].content \in Erasable
<1>1. CASE judged
  BY <1>1 DEF GateCalls, Erasable
<1>2. CASE ~judged
  BY <1>2 DEF GateCalls, Erasable
<1> QED BY <1>1, <1>2

LEMMA ConcatPlain ==
    ASSUME NEW p \in Calls, NEW q \in Calls,
           \A i \in DOMAIN p : p[i].content \in Erasable,
           \A i \in DOMAIN q : q[i].content \in Erasable
    PROVE  \A i \in DOMAIN (p \o q) : (p \o q)[i].content \in Erasable
<1> DEFINE C == [trace : Traces, content : Contents \cup {None}]
<1>0. p \in Seq(C) /\ q \in Seq(C)
  BY DEF Calls
<1> HIDE DEF C
<1>1. /\ p \o q \in Seq(C) /\ Len(p \o q) = Len(p) + Len(q)
      /\ \A i \in 1..Len(p) + Len(q) : (p \o q)[i] = IF i <= Len(p) THEN p[i] ELSE q[i - Len(p)]
  BY <1>0, ConcatProperties
<1>2. /\ DOMAIN p = 1..Len(p) /\ DOMAIN q = 1..Len(q) /\ DOMAIN (p \o q) = 1..Len(p \o q)
      /\ Len(p) \in Nat /\ Len(q) \in Nat
  BY <1>0, <1>1, LenProperties
<1> SUFFICES ASSUME NEW i \in DOMAIN (p \o q) PROVE (p \o q)[i].content \in Erasable
  OBVIOUS
<1>3. CASE i <= Len(p)
  BY <1>1, <1>2, <1>3
<1>4. CASE ~(i <= Len(p))
  BY <1>1, <1>2, <1>4
<1> QED BY <1>3, <1>4

-----------------------------------------------------------------------------
(* Steps that commit nothing.                                              *)

\* What the types say of one worker.
LEMMA WorkerTypes ==
    ASSUME TypeInv, NEW w \in Workers
    PROVE  /\ job[w] \in Job /\ job[w].todo \in Calls
           /\ tx[w] \in [traces : SUBSET Traces, stored : SUBSET Contents, shredded : SUBSET Erasable]
           /\ pc \in [Workers -> Steps] /\ job \in [Workers -> Job]
           /\ rows = [v \in Workers |-> rows[v]]
           /\ tx \in [Workers -> [traces : SUBSET Traces, stored : SUBSET Contents, shredded : SUBSET Erasable]]
  BY DEF TypeInv, TypeOK, WorkersOK, Job, Calls

\* A request that stays in order by itself leaves the others in order.
LEMMA LocalErase ==
    ASSUME TypeInv, EraseInv, NEW w \in Workers, Request(w) \/ Step(w) \/ Crash(w),
           store' = store, events' = events,
           EraseOK(pc'[w], job'[w], rows'[w], tx'[w], store),
           \A v \in Workers \ {w} : job[v].org = job'[w].org => tx[v].stored \cap tx'[w].stored = {}
    PROVE  EraseInv'
<1>1. \A v \in Workers \ {w} : /\ pc'[v] = pc[v] /\ job'[v] = job[v]
                               /\ rows'[v] = rows[v] /\ tx'[v] = tx[v]
  BY Locality DEF Locally
<1>2. RequestsInv'
  BY <1>1 DEF EraseInv, RequestsInv
<1>3. ApartInv'
  BY <1>1 DEF EraseInv, ApartInv
<1>4. ErasureEvidenced'
  BY DEF EraseInv, ErasureEvidenced
<1> QED BY <1>2, <1>3, <1>4 DEF EraseInv

\* A rollback leaves nothing.
LEMMA RollbackErase ==
    ASSUME TypeInv, EraseInv, NEW w \in Workers, Request(w) \/ Step(w) \/ Crash(w), Rollback(w)
    PROVE  EraseInv'
<1>1. /\ pc'[w] = "idle" /\ job'[w] = NoJob /\ rows'[w] = {} /\ tx'[w] = NoTx
      /\ store' = store /\ events' = events
  BY WorkerTypes DEF Rollback, Forget, Goto
<1>2. NoTx.stored = {} /\ NoTx.shredded = {}
  BY DEF NoTx
<1>3. EraseOK("idle", NoJob, {}, NoTx, store)
  BY <1>2 DEF EraseOK
<1> QED BY <1>1, <1>2, <1>3, LocalErase

\* The steps of record_event before its insert.
Quiet == {"trace", "newtrace", "next", "tip", "store", "newstore", "insert"}

LEMMA QuietErase ==
    ASSUME TypeInv, EraseInv, NEW w \in Workers, Request(w) \/ Step(w) \/ Crash(w),
           pc[w] \in Quiet, pc'[w] \in Quiet,
           job'[w].org = job[w].org, job'[w].todo = job[w].todo, rows'[w] = rows[w],
           tx'[w].stored = tx[w].stored, tx'[w].shredded = tx[w].shredded,
           store' = store, events' = events
    PROVE  EraseInv'
<1>1. EraseOK(pc[w], job[w], rows[w], tx[w], store) /\ ApartInv
  BY DEF EraseInv, RequestsInv
<1>2. EraseOK(pc'[w], job'[w], rows'[w], tx'[w], store)
  BY <1>1 DEF EraseOK, Quiet
<1>3. \A v \in Workers \ {w} : job[v].org = job'[w].org => tx[v].stored \cap tx'[w].stored = {}
  BY <1>1 DEF ApartInv
<1> QED BY <1>2, <1>3, LocalErase

\* A request comes in.
LEMMA RequestErase ==
    ASSUME TypeInv, EraseInv, NEW w \in Workers, Request(w)
    PROVE  EraseInv'
<1> DEFINE Good(step, q) == step = "target" \/ (step = "trace" /\ \A i \in DOMAIN q : q[i].content \in Erasable)
<1>1. PICK step, k, o, calls, s : Accept(w, step, k, o, calls, s) /\ Good(step, calls)
  <2>1. PICK o \in Orgs, t \in Traces :
         \/ \E c \in Payloads, s \in 1..MaxSeq : PostEvent(w, o, t, c, s)
         \/ \E c \in Payloads, judged \in BOOLEAN : PostGate(w, o, t, c, judged)
         \/ \E u \in Traces, c \in Payloads, judged \in BOOLEAN : PostReplay(w, o, t, u, c, judged)
         \/ \E s \in 1..MaxSeq : PostErasure(w, o, t, s)
    BY DEF Request
  <2>2. ASSUME NEW c \in Payloads, NEW s \in 1..MaxSeq, PostEvent(w, o, t, c, s)
        PROVE  \E step, k, calls : Accept(w, step, k, o, calls, s) /\ Good(step, calls)
    <3> DEFINE calls == <<[trace |-> t, content |-> c]>>
    <3>1. \A i \in DOMAIN calls : calls[i].content \in Erasable
      BY DEF Erasable
    <3> QED BY <2>2, <3>1 DEF PostEvent
  <2>3. ASSUME NEW c \in Payloads, NEW judged \in BOOLEAN, PostGate(w, o, t, c, judged)
        PROVE  \E step, k, calls, s : Accept(w, step, k, o, calls, s) /\ Good(step, calls)
    BY <2>3, GateCallsPlain DEF PostGate
  <2>4. ASSUME NEW u \in Traces, NEW c \in Payloads, NEW judged \in BOOLEAN,
               PostReplay(w, o, t, u, c, judged)
        PROVE  \E step, k, calls, s : Accept(w, step, k, o, calls, s) /\ Good(step, calls)
    <3>1. GateCalls(t, c, judged) \in Calls /\ GateCalls(u, c, judged) \in Calls
      BY GateCallsType DEF Calls
    <3>2. Good("trace", GateCalls(t, c, judged) \o GateCalls(u, c, judged))
      BY <3>1, GateCallsPlain, ConcatPlain
    <3> QED BY <2>4, <3>2 DEF PostReplay
  <2>5. ASSUME NEW s \in 1..MaxSeq, PostErasure(w, o, t, s)
        PROVE  \E step, k, calls : Accept(w, step, k, o, calls, s) /\ Good(step, calls)
    BY <2>5 DEF PostErasure
  <2> QED BY <2>1, <2>2, <2>3, <2>4, <2>5
<1>2. /\ pc[w] = "idle" /\ pc'[w] = step /\ job'[w].todo = calls
      /\ rows'[w] = rows[w] /\ tx'[w] = tx[w] /\ store' = store /\ events' = events
  BY <1>1, WorkerTypes DEF Accept, Goto
<1>3. rows[w] = {} /\ tx[w].stored = {} /\ tx[w].shredded = {}
  BY <1>2 DEF TypeInv, RequestInv, NoTx
<1>4. step = "trace" => \A c \in Erasable : Note(c) \notin Pending(calls)
  BY <1>1, NoteApart DEF Pending
<1>5. EraseOK(pc'[w], job'[w], rows'[w], tx'[w], store)
  BY <1>1, <1>2, <1>3, <1>4 DEF EraseOK, Written
<1> QED BY <1>2, <1>3, <1>5, LocalErase

\* The payload of a call is stored: nobody else of the organisation has it.
LEMMA StoreErase ==
    ASSUME TypeInv, EraseInv, NEW w \in Workers, InsertPayload(w), Step(w)
    PROVE  EraseInv'
<1>1. CASE Rollback(w)
  BY <1>1, RollbackErase
<1>2. CASE /\ ~PayloadExists(job[w].org, Call(w).content)
           /\ tx' = [tx EXCEPT ![w].stored = @ \cup {Call(w).content}]
           /\ Goto(w, "insert")
           /\ UNCHANGED <<owner, events, store, keys, job, prev, rows>>
  <2> DEFINE c == Call(w).content
  <2>1. /\ pc[w] = "newstore" /\ pc'[w] = "insert" /\ job' = job /\ rows' = rows
        /\ store' = store /\ events' = events
        /\ tx'[w].stored = tx[w].stored \cup {c} /\ tx'[w].shredded = tx[w].shredded
    BY <1>2, WorkerTypes DEF InsertPayload, Goto
  <2>2. store[job[w].org, c] = "absent"
    BY <1>2 DEF PayloadExists
  <2>3. \A v \in Workers \ {w} : job[v].org = job[w].org => c \notin tx[v].stored
    BY DEF InsertPayload, Blocked, WaitsFor
  <2>4. EraseOK(pc[w], job[w], rows[w], tx[w], store) /\ ApartInv
    BY DEF EraseInv, RequestsInv
  <2> HIDE DEF c
  <2>5. EraseOK(pc'[w], job'[w], rows'[w], tx'[w], store)
    BY <2>1, <2>2, <2>4 DEF EraseOK
  <2>6. \A v \in Workers \ {w} : job[v].org = job'[w].org => tx[v].stored \cap tx'[w].stored = {}
    BY <2>1, <2>3, <2>4 DEF ApartInv
  <2> QED BY <2>1, <2>5, <2>6, LocalErase
<1> QED BY <1>1, <1>2 DEF InsertPayload

\* An event is inserted: what it says moves from the calls to the rows.
LEMMA InsertErase ==
    ASSUME TypeInv, EraseInv, NEW w \in Workers, InsertEvent(w), Step(w)
    PROVE  EraseInv'
<1>1. CASE Rollback(w)
  BY <1>1, RollbackErase
<1>2. CASE Inserts(w) /\ UNCHANGED <<store, events, tx>>
  <2> DEFINE q == job[w].todo
             n == NewRow(w)
             p == AfterInsert(Tail(q))
  <2>1. pc[w] = "insert" /\ n.content = Head(q).content
    BY DEF InsertEvent, NewRow, Row, Call
  <2>2. q \in Calls /\ q # <<>>
    BY <2>1, WorkerTypes DEF TypeInv, RequestInv
  <2>3. /\ pc'[w] = p /\ job'[w].org = job[w].org /\ job'[w].todo = Tail(q)
        /\ rows'[w] = rows[w] \cup {n}
    BY <1>2, WorkerTypes DEF Inserts, Job
  <2>4. p \in {"commit", "trace"} /\ (p = "commit" => Tail(q) = <<>>)
    BY DEF AfterInsert
  <2>5. Pending(q) = {Head(q).content} \cup Pending(Tail(q))
    BY <2>2, PendingParts
  <2> HIDE DEF q, n, p
  <2>6. Written(rows[w] \cup {n}) = Written(rows[w]) \cup {Head(q).content}
    BY <2>1 DEF Written
  <2>7. EraseOK(pc[w], job[w], rows[w], tx[w], store) /\ ApartInv
    BY DEF EraseInv, RequestsInv
  <2>8. EraseOK(pc'[w], job'[w], rows'[w], tx'[w], store)
    BY <1>2, <2>1, <2>3, <2>4, <2>5, <2>6, <2>7 DEF EraseOK, q
  <2>9. \A v \in Workers \ {w} : job[v].org = job'[w].org => tx[v].stored \cap tx'[w].stored = {}
    BY <1>2, <2>3, <2>7 DEF ApartInv
  <2> QED BY <1>2, <2>8, <2>9, LocalErase
<1>3. Rollback(w) \/ (Inserts(w) /\ UNCHANGED <<store, events, tx>>)
  BY DEF InsertEvent, Inserts, NewRow, Row, Goto
<1> QED BY <1>1, <1>2, <1>3

\* An erasure finds its target, with its content still held.
LEMMA TargetErase ==
    ASSUME TypeInv, EraseInv, NEW w \in Workers, FindTarget(w), Step(w)
    PROVE  EraseInv'
<1>1. CASE Rollback(w)
  BY <1>1, RollbackErase
<1>2. CASE ~Rollback(w)
  <2> DEFINE t == Call(w).trace
  <2>1. PICK r \in TraceEvents(w, t) :
          /\ store[job[w].org, r.content] = "held"
          /\ job' = [job EXCEPT ![w].target = r.content,
                                ![w].todo = <<[trace |-> t, content |-> Note(r.content)]>>,
                                ![w].seq = NextSeq(w, t)]
          /\ Goto(w, "shred")
          /\ UNCHANGED <<owner, events, store, keys, prev, rows, tx>>
    BY <1>2 DEF FindTarget
  <2>2. pc[w] = "target"
    BY DEF FindTarget
  <2>3. /\ pc'[w] = "shred" /\ job'[w].org = job[w].org /\ job'[w].target = r.content
        /\ job'[w].todo = <<[trace |-> t, content |-> Note(r.content)]>>
    BY <2>1, WorkerTypes DEF Goto, Job
  <2>4. Pending(job'[w].todo) = {Note(r.content)}
    <3> DEFINE q == <<[trace |-> t, content |-> Note(r.content)]>>
    <3>1. DOMAIN q = {1} /\ q[1].content = Note(r.content)
      OBVIOUS
    <3>2. Pending(q) = {Note(r.content)}
      BY <3>1 DEF Pending
    <3> QED BY <2>3, <3>2
  <2>5. EraseOK(pc[w], job[w], rows[w], tx[w], store) /\ ApartInv
    BY DEF EraseInv, RequestsInv
  <2>6. rows'[w] = rows[w] /\ tx'[w] = tx[w] /\ store' = store /\ events' = events
    BY <2>1
  <2>7. EraseOK(pc'[w], job'[w], rows'[w], tx'[w], store)
    BY <2>1, <2>2, <2>3, <2>4, <2>5, <2>6 DEF EraseOK
  <2>8. \A v \in Workers \ {w} : job[v].org = job'[w].org => tx[v].stored \cap tx'[w].stored = {}
    BY <2>3, <2>5, <2>6 DEF ApartInv
  <2> QED BY <2>6, <2>7, <2>8, LocalErase
<1> QED BY <1>1, <1>2

\* The key is shredded, and the erasure event is the only one left to write.
LEMMA ShredErase ==
    ASSUME TypeInv, EraseInv, NEW w \in Workers, Shred(w), Step(w)
    PROVE  EraseInv'
<1> DEFINE c == job[w].target
<1>1. /\ pc[w] = "shred" /\ pc'[w] = "trace" /\ job' = job /\ rows' = rows
      /\ store' = store /\ events' = events
      /\ tx'[w].stored = tx[w].stored /\ tx'[w].shredded = tx[w].shredded \cup {c}
  BY WorkerTypes DEF Shred, Goto
<1>2. c \in Erasable
  BY <1>1 DEF TypeInv, RequestInv
<1>3. EraseOK(pc[w], job[w], rows[w], tx[w], store) /\ ApartInv
  BY DEF EraseInv, RequestsInv
<1>4. /\ tx[w].shredded = {} /\ rows[w] = {} /\ Pending(job[w].todo) = {Note(c)}
      /\ store[job[w].org, c] # "absent" /\ \A d \in tx[w].stored : store[job[w].org, d] = "absent"
  BY <1>1, <1>3 DEF EraseOK
<1> HIDE DEF c
<1>5. EraseOK(pc'[w], job'[w], rows'[w], tx'[w], store)
  BY <1>1, <1>2, <1>4, NoteApart DEF EraseOK, Written
<1>6. \A v \in Workers \ {w} : job[v].org = job'[w].org => tx[v].stored \cap tx'[w].stored = {}
  BY <1>1, <1>3 DEF ApartInv
<1> QED BY <1>1, <1>5, <1>6, LocalErase

-----------------------------------------------------------------------------
(* Commit.                                                                 *)

\* What a commit does to one payload of its organisation.
LEMMA StoreChange ==
    ASSUME TypeInv, EraseInv, NEW w \in Workers, Commit(w), NEW o \in Orgs, NEW c \in Contents
    PROVE  /\ o # job[w].org => store'[o, c] = store[o, c]
           /\ o = job[w].org =>
                 /\ c \in tx[w].shredded => store[o, c] # "absent" /\ store'[o, c] = "shredded"
                 /\ c \in tx[w].stored => store[o, c] = "absent"
                 /\ c \in tx[w].stored /\ c \notin tx[w].shredded => store'[o, c] = "held"
                 /\ c \notin tx[w].stored \cup tx[w].shredded => store'[o, c] = store[o, c]
<1>1. EraseOK(pc[w], job[w], rows[w], tx[w], store)
  BY DEF EraseInv, RequestsInv
<1>2. store' = StoreAfter(w) /\ <<o, c>> \in Orgs \X Contents
  BY DEF Commit
<1>3. store'[o, c] = IF o # job[w].org THEN store[o, c]
                     ELSE IF c \in tx[w].shredded THEN "shredded"
                     ELSE IF c \in tx[w].stored THEN "held" ELSE store[o, c]
  BY <1>2 DEF StoreAfter
<1> QED BY <1>1, <1>3 DEF EraseOK

\* The shredding and its evidence become visible together.
LEMMA CommitErase ==
    ASSUME TypeInv, OwnerInv, EraseInv, NEW w \in Workers, Commit(w), Step(w)
    PROVE  EraseInv'
<1>1. /\ pc[w] = "commit" /\ pc'[w] = "idle" /\ job'[w] = NoJob /\ rows'[w] = {} /\ tx'[w] = NoTx
      /\ events' = events \cup rows[w]
  BY WorkerTypes DEF Commit, Forget, Goto
<1>2. \A v \in Workers \ {w} : /\ pc'[v] = pc[v] /\ job'[v] = job[v]
                               /\ rows'[v] = rows[v] /\ tx'[v] = tx[v]
  BY Locality DEF Locally
<1>3. RequestsInv /\ ApartInv /\ ErasureEvidenced /\ EraseOK(pc[w], job[w], rows[w], tx[w], store)
  BY DEF EraseInv, RequestsInv
<1>4. NoTx.stored = {} /\ NoTx.shredded = {}
  BY DEF NoTx
<1>5. ASSUME NEW v \in Workers PROVE EraseOK(pc'[v], job'[v], rows'[v], tx'[v], store')
  <2>1. CASE v = w
    BY <1>1, <1>4, <2>1 DEF EraseOK
  <2>2. CASE v # w
    <3>1. EraseOK(pc[v], job[v], rows[v], tx[v], store)
      BY <1>3 DEF RequestsInv
    <3>2. CASE pc[v] = "idle"
      <4>1. tx[v].stored = {} /\ tx[v].shredded = {} /\ rows[v] = {}
        BY <1>4, <3>2 DEF TypeInv, RequestInv
      <4>2. EraseOK(pc[v], job[v], rows[v], tx[v], store')
        BY <3>2, <4>1 DEF EraseOK
      <4> QED BY <1>2, <2>2, <4>2
    <3>3. CASE pc[v] # "idle"
      <4>1. job[v].org \in Orgs /\ tx[v].stored \subseteq Contents /\ tx[v].shredded \subseteq Contents
        BY <3>3, WorkerTypes DEF TypeInv, RequestInv, Contents
      <4>2. \A c \in tx[v].stored : store'[job[v].org, c] = "absent"
        <5> SUFFICES ASSUME NEW c \in tx[v].stored PROVE store'[job[v].org, c] = "absent"
          OBVIOUS
        <5>1. store[job[v].org, c] = "absent"
          BY <3>1 DEF EraseOK
        <5>2. job[v].org = job[w].org => c \notin tx[w].stored
          BY <1>3, <2>2 DEF ApartInv
        <5>3. c \in Contents
          BY <4>1
        <5>4. CASE job[v].org # job[w].org
          BY <4>1, <5>1, <5>3, <5>4, StoreChange
        <5>5. CASE job[v].org = job[w].org
          <6>1. c \notin tx[w].shredded
            BY <4>1, <5>1, <5>3, <5>5, StoreChange
          <6> QED BY <4>1, <5>1, <5>2, <5>3, <5>5, <6>1, StoreChange
        <5> QED BY <5>4, <5>5
      <4>3. \A c \in Contents : store[job[v].org, c] # "absent" => store'[job[v].org, c] # "absent"
        BY <4>1, StoreChange
      <4>4. pc[v] = "shred" => job[v].target \in Contents
        BY DEF TypeInv, RequestInv, Contents
      <4>5. EraseOK(pc[v], job[v], rows[v], tx[v], store')
        BY <3>1, <4>1, <4>2, <4>3, <4>4 DEF EraseOK
      <4> QED BY <1>2, <2>2, <4>5
    <3> QED BY <3>2, <3>3
  <2> QED BY <2>1, <2>2
<1>6. RequestsInv'
  BY <1>5 DEF RequestsInv
<1>7. ApartInv'
  BY <1>1, <1>2, <1>3, <1>4 DEF ApartInv
<1>8. ErasureEvidenced'
  <2> SUFFICES ASSUME NEW o \in Orgs, NEW c \in Erasable
               PROVE  store'[o, c] = "shredded" <=> \E r \in events' : r.org = o /\ r.content = Note(c)
    BY DEF ErasureEvidenced
  <2>1. store[o, c] = "shredded" <=> \E r \in events : r.org = o /\ r.content = Note(c)
    BY <1>3 DEF ErasureEvidenced
  <2>2. c \in Contents
    BY DEF Contents
  <2>3. \A r \in rows[w] : r.org = job[w].org
    BY DEF OwnerInv
  <2>4. CASE o # job[w].org
    BY <1>1, <2>1, <2>2, <2>3, <2>4, StoreChange
  <2>5. CASE o = job[w].org
    <3>1. job[w].todo = <<>> /\ (Note(c) \in Pending(job[w].todo) \cup Written(rows[w]) <=> c \in tx[w].shredded)
      BY <1>1, <1>3 DEF EraseOK
    <3>2. Pending(<<>>) = {}
      BY DEF Pending
    <3>3. c \in tx[w].shredded <=> \E r \in rows[w] : r.content = Note(c)
      BY <3>1, <3>2 DEF Written
    <3>4. store'[o, c] = "shredded" <=> c \in tx[w].shredded \/ store[o, c] = "shredded"
      BY <2>2, <2>5, StoreChange
    <3> QED BY <1>1, <2>1, <2>3, <2>5, <3>3, <3>4
  <2> QED BY <2>4, <2>5
<1> QED BY <1>6, <1>7, <1>8 DEF EraseInv

-----------------------------------------------------------------------------
(* The theorems.                                                           *)

\* A statement of a request keeps the invariant.
LEMMA StepErase ==
    ASSUME TypeInv, OwnerInv, EraseInv, NEW w \in Workers, Step(w)
    PROVE  EraseInv'
<1>1. CASE Rollback(w)
  BY <1>1, RollbackErase
<1>2. CASE ~Rollback(w)
  <2>1. CASE FindTrace(w)
    <3>1. /\ pc[w] = "trace" /\ pc'[w] \in Quiet
          /\ UNCHANGED <<events, store, job, rows, tx>>
      BY <1>2, <2>1, WorkerTypes DEF FindTrace, Goto, AfterTrace, Quiet
    <3> QED BY <3>1, QuietErase DEF Quiet
  <2>2. CASE CreateTrace(w)
    <3>1. /\ pc[w] = "newtrace" /\ pc'[w] \in Quiet
          /\ UNCHANGED <<events, store, job, rows>>
          /\ tx'[w].stored = tx[w].stored /\ tx'[w].shredded = tx[w].shredded
      BY <1>2, <2>2, WorkerTypes DEF CreateTrace, Goto, AfterTrace, Quiet
    <3> QED BY <3>1, QuietErase DEF Quiet
  <2>3. CASE ReadNextSeq(w)
    <3>1. /\ pc[w] = "next" /\ pc'[w] \in Quiet /\ UNCHANGED <<events, store, rows, tx>>
          /\ job'[w].org = job[w].org /\ job'[w].todo = job[w].todo
      BY <2>3, WorkerTypes DEF ReadNextSeq, Goto, Quiet, Job
    <3> QED BY <3>1, QuietErase DEF Quiet
  <2>4. CASE ReadTip(w)
    <3>1. /\ pc[w] = "tip" /\ pc'[w] \in Quiet /\ UNCHANGED <<events, store, rows, tx>>
      BY <1>2, <2>4, WorkerTypes DEF ReadTip, Goto, Quiet
    <3>2. job' = job \/ job' = [job EXCEPT ![w].kind = "erasure_retry"]
      BY <1>2, <2>4 DEF ReadTip
    <3>3. job'[w].org = job[w].org /\ job'[w].todo = job[w].todo
      BY <3>2, WorkerTypes DEF Job
    <3> QED BY <3>1, <3>3, QuietErase DEF Quiet
  <2>5. CASE ReadKeyAndPayload(w)
    <3>1. /\ pc[w] = "store" /\ pc'[w] \in Quiet /\ UNCHANGED <<events, store, rows, tx>>
          /\ job'[w].org = job[w].org /\ job'[w].todo = job[w].todo
      BY <2>5, WorkerTypes DEF ReadKeyAndPayload, Goto, Quiet, Job
    <3> QED BY <3>1, QuietErase DEF Quiet
  <2>6. CASE InsertPayload(w)
    BY <2>6, StoreErase
  <2>7. CASE InsertEvent(w)
    BY <2>7, InsertErase
  <2>8. CASE FindTarget(w)
    BY <2>8, TargetErase
  <2>9. CASE Shred(w)
    BY <2>9, ShredErase
  <2>10. CASE Commit(w)
    BY <2>10, CommitErase
  <2>11. CASE DeadlockVictim(w)
    BY <1>2, <2>11 DEF DeadlockVictim
  <2> QED BY <2>1, <2>2, <2>3, <2>4, <2>5, <2>6, <2>7, <2>8, <2>9, <2>10, <2>11 DEF Step
<1> QED BY <1>1, <1>2

LEMMA EraseInit == Init => EraseInv
<1> SUFFICES ASSUME Init PROVE EraseInv
  OBVIOUS
<1>1. NoTx.stored = {} /\ NoTx.shredded = {}
  BY DEF NoTx
<1>2. RequestsInv /\ ApartInv
  BY <1>1 DEF Init, RequestsInv, ApartInv, EraseOK
<1>3. ErasureEvidenced
  BY DEF Init, ErasureEvidenced, Contents
<1> QED BY <1>2, <1>3 DEF EraseInv

LEMMA EraseNext == IInv /\ EraseInv /\ [Next]_vars => EraseInv'
<1> SUFFICES ASSUME IInv, EraseInv, [Next]_vars PROVE EraseInv'
  OBVIOUS
<1>1. TypeInv /\ OwnerInv
  BY DEF IInv
<1>2. ASSUME NEW w \in Workers, Request(w) PROVE EraseInv'
  BY <1>1, <1>2, RequestErase
<1>3. ASSUME NEW w \in Workers, Step(w) PROVE EraseInv'
  BY <1>1, <1>3, StepErase
<1>4. ASSUME NEW w \in Workers, Crash(w) PROVE EraseInv'
  BY <1>1, <1>4, RollbackErase DEF Crash
<1>5. CASE UNCHANGED <<events, store, pc, job, rows, tx>>
  BY <1>5 DEF EraseInv, RequestsInv, ApartInv, ErasureEvidenced
<1> QED BY <1>2, <1>3, <1>4, <1>5 DEF Next, ProvisionKey, vars

\* Evidence: content is gone exactly when an erasure event on the chain says so,
\* whatever erasures, appends and crashes overlap.
THEOREM ErasuresEvidenced == Spec => []ErasureEvidenced
<1>1. EraseInv => ErasureEvidenced
  BY DEF EraseInv
<1> QED BY <1>1, Invariance, EraseInit, EraseNext, PTL DEF Spec

\* Finality: no append of the same content, however it races the erasure, brings
\* a shredded payload back.
THEOREM ErasuresFinal == Spec => ErasureIsForever
<1> DEFINE Kept == \A p \in Orgs \X Contents : store[p] = "shredded" => store'[p] = "shredded"
<1>1. IInv /\ EraseInv /\ [Next]_vars => [Kept]_vars
  <2> SUFFICES ASSUME IInv, EraseInv, [Next]_vars, NEW p \in Orgs \X Contents, store[p] = "shredded"
               PROVE  store'[p] = "shredded"
    OBVIOUS
  <2>1. TypeInv
    BY DEF IInv
  <2>2. PICK o \in Orgs, c \in Contents : p = <<o, c>>
    OBVIOUS
  <2>3. ASSUME NEW w \in Workers, Commit(w) PROVE store'[o, c] = "shredded"
    BY <2>1, <2>2, <2>3, StoreChange
  <2>4. store' = store \/ \E w \in Workers : Commit(w)
    <3>1. ASSUME NEW w \in Workers, Request(w) PROVE store' = store
      BY <3>1 DEF Request, PostEvent, PostGate, PostReplay, PostErasure, Accept
    <3>2. ASSUME NEW w \in Workers, Step(w) PROVE store' = store \/ Commit(w)
      BY <3>2 DEF Step, FindTrace, CreateTrace, ReadNextSeq, ReadTip, ReadKeyAndPayload,
                  InsertPayload, InsertEvent, FindTarget, Shred, DeadlockVictim, Rollback
    <3>3. ASSUME NEW w \in Workers, Crash(w) PROVE store' = store
      BY <3>3 DEF Crash, Rollback
    <3> QED BY <3>1, <3>2, <3>3 DEF Next, ProvisionKey, vars
  <2> QED BY <2>2, <2>3, <2>4
<1> QED BY <1>1, Invariance, EraseInit, EraseNext, PTL DEF Spec, ErasureIsForever

-----------------------------------------------------------------------------
(* Decisions and outputs: the invariant.                                   *)

\* Every decision among the calls q comes right before its output.
Paired(q) ==
    \A i \in DOMAIN q : q[i].content = Decision =>
        i + 1 \in DOMAIN q /\ q[i + 1].trace = q[i].trace /\ q[i + 1].content \in Payloads

\* Row r has its output among the rows R.
Answered(r, R) ==
    \E s \in R : s.trace = r.trace /\ s.seq = r.seq + 1 /\ s.content \in Payloads

\* Row r is the last of its trace in R, and the next call writes its output.
Awaited(r, R, q) ==
    /\ q # <<>> /\ Head(q).trace = r.trace /\ Head(q).content \in Payloads
    /\ \A s \in R : s.trace = r.trace => s.seq <= r.seq

OutputOK(p, q, R) ==
    /\ p \notin {"idle", "target"} => Paired(q)
    /\ \A r \in R : r.content = Decision => Answered(r, R) \/ Awaited(r, R, q)

OutputInv ==
    /\ \A w \in Workers : OutputOK(pc[w], job[w].todo, rows[w])
    /\ OutputFollowsDecision

-----------------------------------------------------------------------------
(* Calls.                                                                  *)

LEMMA GateCallsPaired ==
    ASSUME NEW t \in Traces, NEW c \in Payloads, NEW judged \in BOOLEAN
    PROVE  Paired(GateCalls(t, c, judged))
<1>0. c # Decision
  BY ChainAssumption DEF ChainAssumption
<1>1. CASE judged
  <2> DEFINE q == <<[trace |-> t, content |-> Decision], [trace |-> t, content |-> c]>>
  <2>1. /\ GateCalls(t, c, judged) = q /\ DOMAIN q = {1, 2} /\ q[1].trace = t /\ q[2].trace = t
        /\ q[2].content = c
    BY <1>1 DEF GateCalls
  <2> HIDE DEF q
  <2> QED BY <1>0, <2>1 DEF Paired
<1>2. CASE ~judged
  <2> DEFINE q == <<[trace |-> t, content |-> c]>>
  <2>1. GateCalls(t, c, judged) = q /\ DOMAIN q = {1} /\ q[1].content = c
    BY <1>2 DEF GateCalls
  <2> HIDE DEF q
  <2> QED BY <1>0, <2>1 DEF Paired
<1> QED BY <1>1, <1>2

LEMMA ConcatPaired ==
    ASSUME NEW p \in Calls, NEW q \in Calls, Paired(p), Paired(q)
    PROVE  Paired(p \o q)
<1> DEFINE C == [trace : Traces, content : Contents \cup {None}]
           pq == p \o q
<1>0. p \in Seq(C) /\ q \in Seq(C)
  BY DEF Calls
<1> HIDE DEF C
<1>1. /\ pq \in Seq(C) /\ Len(pq) = Len(p) + Len(q)
      /\ \A i \in 1..Len(p) + Len(q) : pq[i] = IF i <= Len(p) THEN p[i] ELSE q[i - Len(p)]
  BY <1>0, ConcatProperties
<1>2. /\ DOMAIN p = 1..Len(p) /\ DOMAIN q = 1..Len(q) /\ DOMAIN pq = 1..Len(pq)
      /\ Len(p) \in Nat /\ Len(q) \in Nat
  BY <1>0, <1>1, LenProperties
<1> HIDE DEF pq
<1>3. SUFFICES ASSUME NEW i \in DOMAIN pq, pq[i].content = Decision
               PROVE  i + 1 \in DOMAIN pq /\ pq[i + 1].trace = pq[i].trace /\ pq[i + 1].content \in Payloads
  BY DEF Paired, pq
<1>4. CASE i <= Len(p)
  <2>1. i \in DOMAIN p /\ pq[i] = p[i]
    BY <1>1, <1>2, <1>4
  <2>2. i + 1 \in DOMAIN p /\ p[i + 1].trace = p[i].trace /\ p[i + 1].content \in Payloads
    BY <1>3, <2>1 DEF Paired
  <2>3. pq[i + 1] = p[i + 1] /\ i + 1 \in DOMAIN pq
    BY <1>1, <1>2, <2>2
  <2> QED BY <2>1, <2>2, <2>3
<1>5. CASE ~(i <= Len(p))
  <2> DEFINE k == i - Len(p)
  <2>1. k \in DOMAIN q /\ pq[i] = q[k]
    BY <1>1, <1>2, <1>5
  <2>2. k + 1 \in DOMAIN q /\ q[k + 1].trace = q[k].trace /\ q[k + 1].content \in Payloads
    BY <1>3, <2>1 DEF Paired
  <2>3. pq[i + 1] = q[k + 1] /\ i + 1 \in DOMAIN pq
    BY <1>1, <1>2, <1>5, <2>2
  <2> QED BY <2>1, <2>2, <2>3
<1> QED BY <1>4, <1>5

\* What is left after the first call is paired, and begins with the output if
\* the first call was a decision.
LEMMA TailPaired ==
    ASSUME NEW q \in Calls, q # <<>>, Paired(q)
    PROVE  /\ Paired(Tail(q))
           /\ Head(q).content = Decision =>
                 /\ Tail(q) # <<>> /\ Head(Tail(q)).trace = Head(q).trace
                 /\ Head(Tail(q)).content \in Payloads
<1> DEFINE C == [trace : Traces, content : Contents \cup {None}]
           u == Tail(q)
<1>0. q \in Seq(C)
  BY DEF Calls
<1> HIDE DEF C
<1>1. u \in Seq(C) /\ Len(u) = Len(q) - 1 /\ \A i \in 1..Len(u) : u[i] = q[i + 1]
  BY <1>0, HeadTailProperties
<1>2. DOMAIN q = 1..Len(q) /\ DOMAIN u = 1..Len(u) /\ Len(q) \in Nat \ {0} /\ Head(q) = q[1]
  BY <1>0, <1>1, LenProperties, EmptySeq
<1>3. \A i \in DOMAIN u : u[i] = q[i + 1] /\ i + 1 \in DOMAIN q
  BY <1>1, <1>2
<1>4. \A i \in DOMAIN u : (i + 1) + 1 \in DOMAIN q => i + 1 \in DOMAIN u
  BY <1>1, <1>2
<1>5. Paired(u)
  BY <1>3, <1>4 DEF Paired
<1>6. ASSUME Head(q).content = Decision
      PROVE  u # <<>> /\ Head(u).trace = Head(q).trace /\ Head(u).content \in Payloads
  <2>1. 1 \in DOMAIN q
    BY <1>2
  <2>2. 1 + 1 \in DOMAIN q /\ q[1 + 1].trace = q[1].trace /\ q[1 + 1].content \in Payloads
    BY <1>2, <1>6, <2>1 DEF Paired
  <2>3. 1 \in DOMAIN u /\ u[1] = q[1 + 1]
    BY <1>1, <1>2, <2>2
  <2>4. u # <<>> /\ Head(u) = u[1]
    <3> HIDE DEF u
    <3>1. u \in Seq(C) /\ Len(u) # 0
      BY <1>1, <1>2, <2>3
    <3> QED BY <3>1, EmptySeq
  <2> QED BY <1>2, <2>2, <2>3, <2>4
<1> QED BY <1>5, <1>6

-----------------------------------------------------------------------------
(* Steps.                                                                  *)

\* A request that stays in order by itself leaves the others in order.
LEMMA LocalOutput ==
    ASSUME TypeInv, OutputInv, NEW w \in Workers, Request(w) \/ Step(w) \/ Crash(w),
           events' = events, OutputOK(pc'[w], job'[w].todo, rows'[w])
    PROVE  OutputInv'
<1>1. \A v \in Workers \ {w} : pc'[v] = pc[v] /\ job'[v] = job[v] /\ rows'[v] = rows[v]
  BY Locality DEF Locally
<1> QED BY <1>1 DEF OutputInv, OutputFollowsDecision

LEMMA RollbackOutput ==
    ASSUME TypeInv, OutputInv, NEW w \in Workers, Request(w) \/ Step(w) \/ Crash(w), Rollback(w)
    PROVE  OutputInv'
<1>1. pc'[w] = "idle" /\ rows'[w] = {} /\ events' = events
  BY WorkerTypes DEF Rollback, Forget, Goto
<1>2. OutputOK("idle", job'[w].todo, {})
  BY DEF OutputOK
<1> QED BY <1>1, <1>2, LocalOutput

\* Calls and rows are left alone.
LEMMA QuietOutput ==
    ASSUME TypeInv, OutputInv, NEW w \in Workers, Request(w) \/ Step(w) \/ Crash(w),
           pc[w] \notin {"idle", "target"}, job'[w].todo = job[w].todo, rows'[w] = rows[w],
           events' = events
    PROVE  OutputInv'
<1>1. OutputOK(pc[w], job[w].todo, rows[w])
  BY DEF OutputInv
<1>2. OutputOK(pc'[w], job'[w].todo, rows'[w])
  BY <1>1 DEF OutputOK
<1> QED BY <1>2, LocalOutput

\* A request comes in.
LEMMA RequestOutput ==
    ASSUME TypeInv, OutputInv, NEW w \in Workers, Request(w)
    PROVE  OutputInv'
<1>1. PICK step, k, o, calls, s : Accept(w, step, k, o, calls, s) /\ (step = "target" \/ Paired(calls))
  <2>1. PICK o \in Orgs, t \in Traces :
         \/ \E c \in Payloads, s \in 1..MaxSeq : PostEvent(w, o, t, c, s)
         \/ \E c \in Payloads, judged \in BOOLEAN : PostGate(w, o, t, c, judged)
         \/ \E u \in Traces, c \in Payloads, judged \in BOOLEAN : PostReplay(w, o, t, u, c, judged)
         \/ \E s \in 1..MaxSeq : PostErasure(w, o, t, s)
    BY DEF Request
  <2>2. ASSUME NEW c \in Payloads, NEW s \in 1..MaxSeq, PostEvent(w, o, t, c, s)
        PROVE  \E step, k, calls : Accept(w, step, k, o, calls, s) /\ Paired(calls)
    <3>1. GateCalls(t, c, FALSE) = <<[trace |-> t, content |-> c]>>
      BY DEF GateCalls
    <3>2. Paired(GateCalls(t, c, FALSE))
      BY GateCallsPaired
    <3> QED BY <2>2, <3>1, <3>2 DEF PostEvent
  <2>3. ASSUME NEW c \in Payloads, NEW judged \in BOOLEAN, PostGate(w, o, t, c, judged)
        PROVE  \E step, k, calls, s : Accept(w, step, k, o, calls, s) /\ Paired(calls)
    BY <2>3, GateCallsPaired DEF PostGate
  <2>4. ASSUME NEW u \in Traces, NEW c \in Payloads, NEW judged \in BOOLEAN,
               PostReplay(w, o, t, u, c, judged)
        PROVE  \E step, k, calls, s : Accept(w, step, k, o, calls, s) /\ Paired(calls)
    <3>1. GateCalls(t, c, judged) \in Calls /\ GateCalls(u, c, judged) \in Calls
      BY GateCallsType DEF Calls
    <3>2. Paired(GateCalls(t, c, judged) \o GateCalls(u, c, judged))
      BY <3>1, GateCallsPaired, ConcatPaired
    <3> QED BY <2>4, <3>2 DEF PostReplay
  <2>5. ASSUME NEW s \in 1..MaxSeq, PostErasure(w, o, t, s)
        PROVE  \E k, calls : Accept(w, "target", k, o, calls, s)
    BY <2>5 DEF PostErasure
  <2> QED BY <2>1, <2>2, <2>3, <2>4, <2>5
<1>2. /\ pc[w] = "idle" /\ pc'[w] = step /\ job'[w].todo = calls
      /\ rows'[w] = rows[w] /\ events' = events
  BY <1>1, WorkerTypes DEF Accept, Goto
<1>3. rows[w] = {}
  BY <1>2 DEF TypeInv, RequestInv
<1>4. OutputOK(pc'[w], job'[w].todo, rows'[w])
  BY <1>1, <1>2, <1>3 DEF OutputOK
<1> QED BY <1>2, <1>4, LocalOutput

\* Between a decision and its output nobody gets a slot of the trace: the
\* output's number is the decision's plus one.
LEMMA OutputComesNext ==
    ASSUME IInv, NEW w \in Workers, pc[w] = "insert", NEW r \in rows[w],
           r.trace = Call(w).trace, \A s \in rows[w] : s.trace = r.trace => s.seq <= r.seq
    PROVE  job[w].seq = r.seq + 1
<1> DEFINE n == job[w].seq
<1>1. /\ Grounded(Visible(w), r.trace, n, prev[w]) /\ r.seq < n
      /\ n \in 1..MaxSeq /\ r.seq \in 1..MaxSeq
  BY DEF IInv, CallInv, CallOK, TypeInv, TypeOK, WorkersOK, RequestInv, RowOK
<1>2. \A x \in events : x.trace = r.trace => x.seq # r.seq + 1
  <2> SUFFICES ASSUME NEW x \in events, x.trace = r.trace, x.seq = r.seq + 1 PROVE FALSE
    OBVIOUS
  <2>1. Grounded(events, x.trace, x.seq, x.prev)
    BY DEF IInv, LinkInv
  <2>2. \E y \in events : y.trace = r.trace /\ y.seq = r.seq
    BY <1>1, <2>1 DEF Grounded
  <2> QED BY <2>2 DEF IInv, SlotInv
<1>3. \A x \in rows[w] : x.trace = r.trace => x.seq # r.seq + 1
  BY <1>1
<1>4. ASSUME r.seq + 1 < n PROVE FALSE
  <2>1. r.seq + 1 \in 1..(n - 1)
    BY <1>1, <1>4
  <2>2. \E x \in Visible(w) : x.trace = r.trace /\ x.seq = r.seq + 1
    BY <1>1, <2>1 DEF Grounded
  <2> QED BY <1>2, <1>3, <2>2 DEF Visible
<1> QED BY <1>1, <1>4

\* An event is inserted.
LEMMA InsertOutput ==
    ASSUME IInv, OutputInv, NEW w \in Workers, Inserts(w), Step(w)
    PROVE  OutputInv'
<1> DEFINE q == job[w].todo
           n == NewRow(w)
<1>0. TypeInv
  BY DEF IInv
<1>1. pc[w] = "insert" /\ n.trace = Head(q).trace /\ n.content = Head(q).content /\ n.seq = job[w].seq
  BY DEF Inserts, NewRow, Row, Call
<1>2. q \in Calls /\ q # <<>>
  BY <1>0, <1>1, WorkerTypes DEF TypeInv, RequestInv
<1>3. job'[w].todo = Tail(q) /\ rows'[w] = rows[w] \cup {n} /\ events' = events
  BY <1>0, WorkerTypes DEF Inserts, Job
<1>4. OutputOK("insert", q, rows[w])
  BY <1>1 DEF OutputInv
<1>5. /\ Paired(Tail(q))
      /\ Head(q).content = Decision =>
            Tail(q) # <<>> /\ Head(Tail(q)).trace = Head(q).trace /\ Head(Tail(q)).content \in Payloads
  BY <1>2, <1>4, TailPaired DEF OutputOK
<1>6. \A r \in rows[w] : r.trace = Head(q).trace => r.seq < job[w].seq /\ r.seq \in Nat
  BY <1>0, <1>1 DEF IInv, CallInv, CallOK, Call, TypeInv, TypeOK, WorkersOK, RowOK
<1>7. job[w].seq \in Nat
  BY <1>0, WorkerTypes DEF Job
<1>8. ASSUME NEW r \in rows[w], Awaited(r, rows[w], q) PROVE Answered(r, rows[w] \cup {n})
  <2>1. Head(q).trace = r.trace /\ Head(q).content \in Payloads
        /\ \A s \in rows[w] : s.trace = r.trace => s.seq <= r.seq
    BY <1>8 DEF Awaited
  <2>2. job[w].seq = r.seq + 1
    BY <1>1, <2>1, OutputComesNext DEF Call
  <2> QED BY <1>1, <2>1, <2>2 DEF Answered
<1> HIDE DEF q, n
<1>9. ASSUME n.content = Decision PROVE Awaited(n, rows[w] \cup {n}, Tail(q))
  BY <1>1, <1>5, <1>6, <1>7, <1>9 DEF Awaited
<1>10. \A r \in rows[w] : Answered(r, rows[w]) => Answered(r, rows[w] \cup {n})
  BY DEF Answered
<1>11. \A r \in rows[w] \cup {n} : r.content = Decision =>
          Answered(r, rows[w] \cup {n}) \/ Awaited(r, rows[w] \cup {n}, Tail(q))
  BY <1>4, <1>8, <1>9, <1>10 DEF OutputOK
<1>12. OutputOK(pc'[w], job'[w].todo, rows'[w])
  BY <1>3, <1>5, <1>11 DEF OutputOK
<1> QED BY <1>0, <1>3, <1>12, LocalOutput

\* A request that commits has written every output.
LEMMA CommitOutput ==
    ASSUME TypeInv, EraseInv, OutputInv, NEW w \in Workers, Commit(w), Step(w)
    PROVE  OutputInv'
<1>1. pc[w] = "commit" /\ pc'[w] = "idle" /\ rows'[w] = {} /\ events' = events \cup rows[w]
  BY WorkerTypes DEF Commit, Forget, Goto
<1>2. job[w].todo = <<>>
  BY <1>1 DEF EraseInv, RequestsInv, EraseOK
<1>3. \A r \in rows[w] : r.content = Decision => Answered(r, rows[w])
  BY <1>2 DEF OutputInv, OutputOK, Awaited
<1>4. OutputFollowsDecision'
  BY <1>1, <1>3 DEF OutputInv, OutputFollowsDecision, Answered
<1>5. \A v \in Workers \ {w} : pc'[v] = pc[v] /\ job'[v] = job[v] /\ rows'[v] = rows[v]
  BY Locality DEF Locally
<1>6. OutputOK("idle", job'[w].todo, {})
  BY DEF OutputOK
<1> QED BY <1>1, <1>4, <1>5, <1>6 DEF OutputInv

\* An erasure has no row yet, and its one call is no decision.
LEMMA TargetOutput ==
    ASSUME TypeInv, EraseInv, OutputInv, NEW w \in Workers, FindTarget(w), ~Rollback(w), Step(w)
    PROVE  OutputInv'
<1> DEFINE t == Call(w).trace
<1>1. PICK r \in TraceEvents(w, t) :
        /\ r.content \in Erasable
        /\ job' = [job EXCEPT ![w].target = r.content,
                              ![w].todo = <<[trace |-> t, content |-> Note(r.content)]>>,
                              ![w].seq = NextSeq(w, t)]
        /\ UNCHANGED <<owner, events, store, keys, prev, rows, tx>>
  BY DEF FindTarget
<1>2. rows[w] = {}
  BY DEF FindTarget, EraseInv, RequestsInv, EraseOK
<1> DEFINE q == <<[trace |-> t, content |-> Note(r.content)]>>
<1>3. job'[w].todo = q
  BY <1>1, WorkerTypes DEF Job
<1>4. DOMAIN q = {1} /\ q[1].content = Note(r.content)
  OBVIOUS
<1>5. Note(r.content) # Decision
  BY <1>1, NoteApart DEF Erasable
<1> HIDE DEF q
<1>6. Paired(q)
  BY <1>4, <1>5 DEF Paired
<1>7. OutputOK(pc'[w], job'[w].todo, rows'[w])
  BY <1>1, <1>2, <1>3, <1>6 DEF OutputOK
<1> QED BY <1>1, <1>7, LocalOutput

-----------------------------------------------------------------------------
(* The theorem.                                                            *)

LEMMA StepOutput ==
    ASSUME IInv, EraseInv, OutputInv, NEW w \in Workers, Step(w)
    PROVE  OutputInv'
<1>0. TypeInv
  BY DEF IInv
<1>1. CASE Rollback(w)
  BY <1>0, <1>1, RollbackOutput
<1>2. CASE ~Rollback(w)
  <2>1. CASE FindTrace(w) \/ CreateTrace(w) \/ InsertPayload(w) \/ Shred(w)
    <3>1. pc[w] \notin {"idle", "target"} /\ job' = job /\ rows' = rows /\ events' = events
      BY <1>2, <2>1 DEF FindTrace, CreateTrace, InsertPayload, Shred
    <3> QED BY <1>0, <3>1, QuietOutput
  <2>2. CASE ReadNextSeq(w) \/ ReadKeyAndPayload(w)
    <3>1. pc[w] \notin {"idle", "target"} /\ rows' = rows /\ events' = events
      BY <2>2 DEF ReadNextSeq, ReadKeyAndPayload
    <3>2. job'[w].todo = job[w].todo
      BY <1>0, <2>2, WorkerTypes DEF ReadNextSeq, ReadKeyAndPayload, Job
    <3> QED BY <1>0, <3>1, <3>2, QuietOutput
  <2>3. CASE ReadTip(w)
    <3>1. pc[w] \notin {"idle", "target"} /\ rows' = rows /\ events' = events
      BY <1>2, <2>3 DEF ReadTip
    <3>2. job' = job \/ job' = [job EXCEPT ![w].kind = "erasure_retry"]
      BY <1>2, <2>3 DEF ReadTip
    <3>3. job'[w].todo = job[w].todo
      BY <1>0, <3>2, WorkerTypes DEF Job
    <3> QED BY <1>0, <3>1, <3>3, QuietOutput
  <2>4. CASE InsertEvent(w)
    <3>1. Inserts(w)
      BY <1>2, <2>4 DEF InsertEvent, Inserts, NewRow, Row, Goto
    <3> QED BY <3>1, InsertOutput
  <2>5. CASE FindTarget(w)
    BY <1>0, <1>2, <2>5, TargetOutput
  <2>6. CASE Commit(w)
    BY <1>0, <2>6, CommitOutput
  <2>7. CASE DeadlockVictim(w)
    BY <1>2, <2>7 DEF DeadlockVictim
  <2> QED BY <2>1, <2>2, <2>3, <2>4, <2>5, <2>6, <2>7 DEF Step
<1> QED BY <1>1, <1>2

LEMMA OutputInit == Init => OutputInv
  BY DEF Init, OutputInv, OutputOK, OutputFollowsDecision

LEMMA OutputNext == IInv /\ EraseInv /\ OutputInv /\ [Next]_vars => OutputInv'
<1> SUFFICES ASSUME IInv, EraseInv, OutputInv, [Next]_vars PROVE OutputInv'
  OBVIOUS
<1>1. TypeInv
  BY DEF IInv
<1>2. ASSUME NEW w \in Workers, Request(w) PROVE OutputInv'
  BY <1>1, <1>2, RequestOutput
<1>3. ASSUME NEW w \in Workers, Step(w) PROVE OutputInv'
  BY <1>3, StepOutput
<1>4. ASSUME NEW w \in Workers, Crash(w) PROVE OutputInv'
  BY <1>1, <1>4, RollbackOutput DEF Crash
<1>5. CASE UNCHANGED <<events, pc, job, rows>>
  BY <1>5 DEF OutputInv, OutputFollowsDecision
<1> QED BY <1>2, <1>3, <1>4, <1>5 DEF Next, ProvisionKey, vars

\* Completeness: a decision is on the chain only with the output it judged right
\* after it, whatever raced the request, also within a replay of several.
THEOREM DecisionsAnswered == Spec => []OutputFollowsDecision
<1>1. OutputInv => OutputFollowsDecision
  BY DEF OutputInv
<1> QED BY <1>1, Invariance, EraseInit, EraseNext, OutputInit, OutputNext, PTL DEF Spec
=============================================================================
