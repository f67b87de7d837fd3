--------------------------- MODULE EventChainProofs --------------------------
(***************************************************************************)
(* Types of EventChain, and that its chain verifies, for every number of   *)
(* workers, organisations, traces, payloads, events and keys.              *)
(***************************************************************************)
EXTENDS EventChain, TLAPS, WellFoundedInduction, SequenceTheorems, FiniteSetTheorems, FunctionTheorems

-----------------------------------------------------------------------------
(* The last event of a trace.                                              *)

\* A non-empty set of rows whose seq is bounded has a row of maximal seq, so
\* the ORDER BY seq DESC ... first() of last_event_for_trace is defined.
LEMMA MaxRow ==
    ASSUME NEW S, S # {}, NEW N \in Nat, \A x \in S : x.seq \in 0..N
    PROVE  \E r \in S : \A x \in S : x.seq <= r.seq
<1> DEFINE T == {N - x.seq : x \in S}
<1>1. T \subseteq Nat /\ T # {}
  OBVIOUS
<1>2. \E n \in T : \A m \in T : ~(<<m, n>> \in OpToRel(<, Nat))
  BY <1>1, NatLessThanWellFounded, WFMin
<1>3. PICK n \in T : \A m \in T : ~(<<m, n>> \in OpToRel(<, Nat))
  BY <1>2
<1>4. \A m \in T : n <= m
  <2>1. TAKE m \in T
  <2>2. m \in Nat /\ n \in Nat
    BY <1>1
  <2>3. ~(m < n)
    BY <1>3, <2>2 DEF OpToRel
  <2> QED
    BY <2>2, <2>3
<1>5. PICK r \in S : n = N - r.seq
  OBVIOUS
<1>6. ASSUME NEW x \in S PROVE x.seq <= r.seq
  <2>1. n <= N - x.seq
    BY <1>4
  <2>2. x.seq \in 0..N /\ r.seq \in 0..N
    OBVIOUS
  <2> QED
    BY <1>5, <2>1, <2>2
<1> QED
  BY <1>6

-----------------------------------------------------------------------------
(* Types.                                                                  *)

LEMMA NoteIsContent == \A c \in Erasable : Note(c) \in Contents
  BY DEF Contents

\* The reads of a worker under TypeOK: the number after the last event.
LEMMA NextSeqType ==
    ASSUME TypeOK, NEW w \in Workers, NEW t
    PROVE  /\ NextSeq(w, t) \in Nat \ {0}
           /\ TraceEvents(w, t) # {} =>
                 /\ LastEvent(w, t) \in TraceEvents(w, t)
                 /\ \A x \in TraceEvents(w, t) : x.seq <= LastEvent(w, t).seq
<1> DEFINE S == TraceEvents(w, t)
<1>1. \A x \in S : x.seq \in 1..MaxSeq
  BY DEF TypeOK, TablesOK, WorkersOK, TraceEvents, Visible, RowOK
<1>2. CASE S = {}
  BY <1>2 DEF NextSeq
<1>3. CASE S # {}
  <2>1. \E r \in S : \A x \in S : x.seq <= r.seq
    BY <1>1, <1>3, MaxRow, ChainAssumption DEF ChainAssumption
  <2>2. LastEvent(w, t) \in S /\ \A x \in S : x.seq <= LastEvent(w, t).seq
    BY <2>1 DEF LastEvent
  <2> QED
    BY <1>1, <1>3, <2>2, ChainAssumption DEF NextSeq, ChainAssumption
<1> QED
  BY <1>2, <1>3

\* The end of a request, by commit or by rollback, leaves a worker idle.
LEMMA ForgetType ==
    ASSUME TypeInv, NEW w \in Workers, Forget(w)
    PROVE  WorkersOK' /\ RequestInv'
<1> USE DEF TypeInv, TypeOK, WorkersOK, Forget, Goto
<1>1. NoJob \in Job
  BY DEF NoJob, Job, Kinds, Keys
<1>2. WorkersOK'
  BY <1>1 DEF Steps, NoTx
<1>3. RequestInv'
  BY DEF RequestInv
<1> QED
  BY <1>2, <1>3

LEMMA RollbackType ==
    ASSUME TypeInv, NEW w \in Workers, Rollback(w)
    PROVE  TypeInv'
  BY ForgetType DEF Rollback, TypeInv, TypeOK, TablesOK

LEMMA AcceptType ==
    ASSUME TypeInv, NEW w \in Workers, NEW step \in {"trace", "target"},
           NEW k \in Kinds, NEW o \in Orgs, NEW s \in Nat,
           NEW calls \in Seq([trace : Traces, content : Contents \cup {None}]),
           calls # <<>>,
           step = "trace" => \A i \in DOMAIN calls : calls[i].content \in Contents,
           Accept(w, step, k, o, calls, s)
    PROVE  TypeInv'
<1> USE DEF Accept, Goto, TypeInv
<1> DEFINE j == [kind |-> k, org |-> o, todo |-> calls, seq |-> s,
                 key |-> ServiceKey, target |-> None]
<1>1. j \in Job
  BY DEF Job, Keys
<1>2. TypeOK'
  BY <1>1 DEF TypeOK, TablesOK, WorkersOK, Steps
<1>3. RequestInv'
  BY DEF TypeOK, WorkersOK, RequestInv
<1> QED
  BY <1>2, <1>3

\* A request that is being served has a call left, on some trace.
LEMMA CallType ==
    ASSUME TypeInv, NEW w \in Workers, pc[w] \notin {"idle", "commit"}
    PROVE  /\ job[w].todo \in Seq([trace : Traces, content : Contents \cup {None}])
           /\ job[w].todo # <<>>
           /\ Call(w) \in [trace : Traces, content : Contents \cup {None}]
           /\ pc[w] # "target" => Call(w).content \in Contents
           /\ job[w].org \in Orgs
<1> DEFINE C == [trace : Traces, content : Contents \cup {None}]
           q == job[w].todo
<1>1. q \in Seq(C) /\ q # <<>> /\ job[w].org \in Orgs
  BY DEF TypeInv, TypeOK, WorkersOK, RequestInv, Job
<1>2. pc[w] # "target" => \A i \in DOMAIN q : q[i].content \in Contents
  BY DEF TypeInv, RequestInv
<1>3. Call(w) = Head(q)
  BY DEF Call
<1> HIDE DEF C, q
<1>4. Head(q) = q[1] /\ q[1] \in C /\ 1 \in DOMAIN q
  BY <1>1, EmptySeq, LenProperties
<1> QED
  BY <1>1, <1>2, <1>3, <1>4 DEF C, q

LEMMA TailContents ==
    ASSUME NEW C, NEW q \in Seq(C), q # <<>>, \A i \in DOMAIN q : q[i].content \in Contents
    PROVE  /\ Tail(q) \in Seq(C)
           /\ \A i \in DOMAIN Tail(q) : Tail(q)[i].content \in Contents
<1>1. /\ Tail(q) \in Seq(C) /\ Len(Tail(q)) = Len(q) - 1
      /\ \A i \in 1..Len(Tail(q)) : Tail(q)[i] = q[i + 1]
  BY HeadTailProperties
<1>2. DOMAIN q = 1..Len(q) /\ DOMAIN Tail(q) = 1..Len(Tail(q)) /\ Len(q) \in Nat
  BY <1>1, LenProperties
<1>3. \A i \in DOMAIN Tail(q) : i + 1 \in DOMAIN q
  BY <1>1, <1>2
<1> QED
  BY <1>1, <1>2, <1>3

LEMMA GateCallsType ==
    ASSUME NEW t \in Traces, NEW c \in Payloads, NEW judged \in BOOLEAN
    PROVE  LET q == GateCalls(t, c, judged)
           IN  /\ q \in Seq([trace : Traces, content : Contents \cup {None}]) /\ q # <<>>
               /\ \A i \in DOMAIN q : q[i].content \in Contents
<1>1. c \in Contents /\ Decision \in Contents
  BY DEF Contents, Erasable
<1>2. CASE judged
  BY <1>1, <1>2 DEF GateCalls
<1>3. CASE ~judged
  BY <1>1, <1>3 DEF GateCalls
<1> QED
  BY <1>2, <1>3

LEMMA ConcatContents ==
    ASSUME NEW C, NEW p \in Seq(C), NEW q \in Seq(C), p # <<>>,
           \A i \in DOMAIN p : p[i].content \in Contents,
           \A i \in DOMAIN q : q[i].content \in Contents
    PROVE  /\ p \o q \in Seq(C) /\ p \o q # <<>>
           /\ \A i \in DOMAIN (p \o q) : (p \o q)[i].content \in Contents
<1>1. /\ p \o q \in Seq(C) /\ Len(p \o q) = Len(p) + Len(q)
      /\ \A i \in 1..Len(p) + Len(q) : (p \o q)[i] = IF i <= Len(p) THEN p[i] ELSE q[i - Len(p)]
  BY ConcatProperties
<1>2. /\ DOMAIN p = 1..Len(p) /\ DOMAIN q = 1..Len(q) /\ DOMAIN (p \o q) = 1..Len(p \o q)
      /\ Len(p) \in Nat \ {0} /\ Len(q) \in Nat
  BY <1>1, LenProperties, EmptySeq
<1>3. p \o q # <<>>
  BY <1>1, <1>2, EmptySeq
<1>4. ASSUME NEW i \in DOMAIN (p \o q) PROVE (p \o q)[i].content \in Contents
  <2>1. CASE i <= Len(p)
    BY <1>1, <1>2, <2>1
  <2>2. CASE ~(i <= Len(p))
    BY <1>1, <1>2, <2>2
  <2> QED
    BY <2>1, <2>2
<1> QED
  BY <1>1, <1>3, <1>4

LEMMA RequestType ==
    ASSUME TypeInv, NEW w \in Workers, Request(w)
    PROVE  TypeInv'
<1> DEFINE C == [trace : Traces, content : Contents \cup {None}]
<1> USE ChainAssumption DEF ChainAssumption, Kinds
<1>1. PICK o \in Orgs, t \in Traces :
         \/ \E c \in Payloads, s \in 1..MaxSeq : PostEvent(w, o, t, c, s)
         \/ \E c \in Payloads, judged \in BOOLEAN : PostGate(w, o, t, c, judged)
         \/ \E u \in Traces, c \in Payloads, judged \in BOOLEAN : PostReplay(w, o, t, u, c, judged)
         \/ \E s \in 1..MaxSeq : PostErasure(w, o, t, s)
  BY DEF Request
<1>2. ASSUME NEW c \in Payloads, NEW s \in 1..MaxSeq, PostEvent(w, o, t, c, s)
      PROVE  TypeInv'
  <2> DEFINE calls == <<[trace |-> t, content |-> c]>>
  <2>1. calls \in Seq(C) /\ calls # <<>> /\ \A i \in DOMAIN calls : calls[i].content \in Contents
    BY DEF Contents, Erasable
  <2>2. Accept(w, "trace", "event", o, calls, s) /\ s \in Nat
    BY <1>2 DEF PostEvent
  <2> HIDE DEF calls
  <2> QED
    BY <2>1, <2>2, AcceptType
<1>3. ASSUME NEW c \in Payloads, NEW judged \in BOOLEAN, PostGate(w, o, t, c, judged)
      PROVE  TypeInv'
  <2> DEFINE calls == GateCalls(t, c, judged)
  <2>1. calls \in Seq(C) /\ calls # <<>> /\ \A i \in DOMAIN calls : calls[i].content \in Contents
    BY GateCallsType
  <2>2. Accept(w, "trace", "gate", o, calls, 0)
    BY <1>3 DEF PostGate
  <2> HIDE DEF calls
  <2> QED
    BY <2>1, <2>2, AcceptType
<1>4. ASSUME NEW u \in Traces, NEW c \in Payloads, NEW judged \in BOOLEAN,
             PostReplay(w, o, t, u, c, judged)
      PROVE  TypeInv'
  <2> DEFINE calls == GateCalls(t, c, judged) \o GateCalls(u, c, judged)
  <2>1. calls \in Seq(C) /\ calls # <<>> /\ \A i \in DOMAIN calls : calls[i].content \in Contents
    BY GateCallsType, ConcatContents
  <2>2. Accept(w, "trace", "replay", o, calls, 0)
    BY <1>4 DEF PostReplay
  <2> HIDE DEF calls
  <2> QED
    BY <2>1, <2>2, AcceptType
<1>5. ASSUME NEW s \in 1..MaxSeq, PostErasure(w, o, t, s)
      PROVE  TypeInv'
  <2> DEFINE calls == <<[trace |-> t, content |-> None]>>
  <2>1. calls \in Seq(C) /\ calls # <<>>
    OBVIOUS
  <2>2. Accept(w, "target", "erasure", o, calls, s) /\ s \in Nat
    BY <1>5 DEF PostErasure
  <2> HIDE DEF calls
  <2> QED
    BY <2>1, <2>2, AcceptType
<1> QED
  BY <1>1, <1>2, <1>3, <1>4, <1>5

\* Assigning one field of a request keeps it a request.
LEMMA JobFields ==
    ASSUME NEW f \in [Workers -> Job], NEW w \in Workers
    PROVE  /\ \A k \in Kinds : [f EXCEPT ![w].kind = k] \in [Workers -> Job]
           /\ \A n \in Nat : [f EXCEPT ![w].seq = n] \in [Workers -> Job]
           /\ \A k \in Keys : [f EXCEPT ![w].key = k] \in [Workers -> Job]
           /\ \A q \in Seq([trace : Traces, content : Contents \cup {None}]) :
                 /\ [f EXCEPT ![w].todo = q] \in [Workers -> Job]
                 /\ \A c \in Erasable, n \in Nat :
                       [f EXCEPT ![w].target = c, ![w].todo = q, ![w].seq = n] \in [Workers -> Job]
<1>1. f[w] \in Job
  OBVIOUS
<1>2. \A k \in Kinds : [f[w] EXCEPT !.kind = k] \in Job
  BY <1>1 DEF Job
<1>3. \A n \in Nat : [f[w] EXCEPT !.seq = n] \in Job
  BY <1>1 DEF Job
<1>4. \A k \in Keys : [f[w] EXCEPT !.key = k] \in Job
  BY <1>1 DEF Job
<1>6. \A q \in Seq([trace : Traces, content : Contents \cup {None}]) :
         /\ [f[w] EXCEPT !.todo = q] \in Job
         /\ \A c \in Erasable, n \in Nat : [f[w] EXCEPT !.target = c, !.todo = q, !.seq = n] \in Job
  BY <1>1 DEF Job
<1> QED
  BY <1>2, <1>3, <1>4, <1>6

LEMMA StepType ==
    ASSUME TypeInv, NEW w \in Workers, Step(w)
    PROVE  TypeInv'
<1> USE DEF TypeInv, TypeOK, TablesOK, WorkersOK, Goto
<1>1. CASE FindTrace(w)
  <2>1. CASE Rollback(w)
    BY <2>1, RollbackType
  <2>2. CASE ~Rollback(w)
    <3>1. /\ pc[w] = "trace"
          /\ \E step \in {"newtrace", "next", "tip"} : pc' = [pc EXCEPT ![w] = step]
          /\ UNCHANGED <<owner, events, store, keys, job, prev, rows, tx>>
      BY <1>1, <2>2 DEF FindTrace, AfterTrace
    <3>2. WorkersOK'
      BY <3>1 DEF Steps
    <3>3. RequestInv'
      BY <3>1 DEF RequestInv
    <3> QED
      BY <3>1, <3>2, <3>3
  <2> QED
    BY <2>1, <2>2
<1>2. CASE CreateTrace(w)
  <2>1. CASE Rollback(w)
    BY <2>1, RollbackType
  <2>2. CASE ~Rollback(w)
    <3>1. Call(w).trace \in Traces
      BY <1>2, CallType DEF CreateTrace
    <3>2. /\ tx' = [tx EXCEPT ![w].traces = @ \cup {Call(w).trace}]
          /\ pc' = [pc EXCEPT ![w] = AfterTrace(w)]
          /\ AfterTrace(w) \in {"next", "tip"} /\ pc[w] = "newtrace"
          /\ UNCHANGED <<owner, events, store, keys, job, prev, rows>>
      BY <1>2, <2>2 DEF CreateTrace, AfterTrace
    <3>3. WorkersOK'
      BY <3>1, <3>2 DEF Steps
    <3>4. RequestInv'
      BY <3>2 DEF RequestInv
    <3> QED
      BY <3>2, <3>3, <3>4
  <2> QED
    BY <2>1, <2>2
<1>3. CASE ReadNextSeq(w)
  <2>1. NextSeq(w, Call(w).trace) \in Nat
    BY NextSeqType
  <2>2. WorkersOK'
    <3>1. job' \in [Workers -> Job]
      BY <1>3, <2>1, JobFields DEF ReadNextSeq
    <3> QED
      BY <1>3, <3>1 DEF ReadNextSeq, Steps
  <2>3. RequestInv'
    BY <1>3 DEF ReadNextSeq, RequestInv
  <2> QED
    BY <1>3, <2>2, <2>3 DEF ReadNextSeq
<1>4. CASE ReadTip(w)
  <2>1. CASE Rollback(w)
    BY <2>1, RollbackType
  <2>2. CASE ~Rollback(w)
    <3>1. NextSeq(w, Call(w).trace) \in Nat \ {0}
      BY NextSeqType
    <3> DEFINE n == NextSeq(w, Call(w).trace)
    <3>2. CASE /\ job[w].seq = n /\ n <= MaxSeq
               /\ prev' = [prev EXCEPT ![w] = LastHash(w, Call(w).trace)]
               /\ pc' = [pc EXCEPT ![w] = "store"]
               /\ UNCHANGED <<owner, events, store, keys, job, rows, tx>>
      <4>1. WorkersOK'
        BY <3>2 DEF Steps
      <4>2. job[w].seq \in 1..MaxSeq /\ pc[w] = "tip"
        BY <1>4, <3>1, <3>2, ChainAssumption DEF ReadTip, ChainAssumption
      <4>3. RequestInv'
        BY <3>2, <4>2 DEF RequestInv
      <4> QED
        BY <3>2, <4>1, <4>3
    <3>3. CASE /\ job' = [job EXCEPT ![w].kind = "erasure_retry"]
               /\ pc' = [pc EXCEPT ![w] = "next"]
               /\ UNCHANGED <<owner, events, store, keys, prev, rows, tx>>
      <4>1. WorkersOK'
        BY <3>3, JobFields DEF Steps, Kinds
      <4>2. RequestInv'
        BY <1>4, <3>3 DEF ReadTip, RequestInv
      <4> QED
        BY <3>3, <4>1, <4>2
    <3> QED
      BY <1>4, <2>2, <3>2, <3>3 DEF ReadTip
  <2> QED
    BY <2>1, <2>2
<1>5. CASE ReadKeyAndPayload(w)
  <2>1. SigningKey(job[w].org, keys[job[w].org]) \in Keys
    BY <1>5, CallType DEF ReadKeyAndPayload, SigningKey, Keys
  <2>2. WorkersOK'
    <3>1. job' \in [Workers -> Job]
      BY <1>5, <2>1, JobFields DEF ReadKeyAndPayload
    <3> QED
      BY <1>5, <3>1 DEF ReadKeyAndPayload, Steps
  <2>3. RequestInv'
    BY <1>5 DEF ReadKeyAndPayload, RequestInv
  <2> QED
    BY <1>5, <2>2, <2>3 DEF ReadKeyAndPayload
<1>6. CASE InsertPayload(w)
  <2>1. CASE Rollback(w)
    BY <2>1, RollbackType
  <2>2. CASE ~Rollback(w)
    <3>1. Call(w).content \in Contents
      BY <1>6, CallType DEF InsertPayload
    <3>2. /\ tx' = [tx EXCEPT ![w].stored = @ \cup {Call(w).content}]
          /\ pc' = [pc EXCEPT ![w] = "insert"] /\ pc[w] = "newstore"
          /\ UNCHANGED <<owner, events, store, keys, job, prev, rows>>
      BY <1>6, <2>2 DEF InsertPayload
    <3>3. WorkersOK'
      BY <3>1, <3>2 DEF Steps
    <3>4. RequestInv'
      BY <3>2 DEF RequestInv
    <3> QED
      BY <3>2, <3>3, <3>4
  <2> QED
    BY <2>1, <2>2
<1>7. CASE InsertEvent(w)
  <2>1. CASE Rollback(w)
    BY <2>1, RollbackType
  <2>2. CASE ~Rollback(w)
    <3> DEFINE r == Row(Call(w).trace, job[w].seq, job[w].org, Call(w).content, prev[w], job[w].key)
               q == Tail(job[w].todo)
    <3>1. RowOK(r)
      BY <1>7, CallType DEF InsertEvent, Row, RowOK, RequestInv, Job
    <3>2. /\ q \in Seq([trace : Traces, content : Contents \cup {None}])
          /\ \A i \in DOMAIN q : q[i].content \in Contents
      <4>1. pc[w] = "insert"
        BY <1>7 DEF InsertEvent
      <4>2. /\ job[w].todo \in Seq([trace : Traces, content : Contents \cup {None}])
            /\ job[w].todo # <<>>
            /\ \A i \in DOMAIN job[w].todo : job[w].todo[i].content \in Contents
        BY <4>1, CallType DEF RequestInv
      <4> QED
        BY <4>2, TailContents
    <3>3. /\ rows' = [rows EXCEPT ![w] = @ \cup {r}]
          /\ job' = [job EXCEPT ![w].todo = q]
          /\ pc' = [pc EXCEPT ![w] = AfterInsert(q)]
          /\ UNCHANGED <<owner, events, store, keys, prev, tx>>
          /\ pc[w] = "insert"
      BY <1>7, <2>2 DEF InsertEvent
    <3> HIDE DEF r, q
    <3>4. WorkersOK'
      <4>1. job' \in [Workers -> Job]
        BY <3>2, <3>3, JobFields
      <4> QED
        BY <3>1, <3>3, <4>1 DEF AfterInsert, Steps
    <3>5. RequestInv'
      BY <3>2, <3>3 DEF AfterInsert, RequestInv
    <3> QED
      BY <3>3, <3>4, <3>5
  <2> QED
    BY <2>1, <2>2
<1>8. CASE FindTarget(w)
  <2>1. CASE Rollback(w)
    BY <2>1, RollbackType
  <2>2. CASE ~Rollback(w)
    <3> DEFINE t == Call(w).trace
    <3>1. NextSeq(w, t) \in Nat /\ t \in Traces
      BY <1>8, NextSeqType, CallType DEF FindTarget
    <3>2. PICK r \in TraceEvents(w, t) :
             /\ r.content \in Erasable
             /\ job' = [job EXCEPT ![w].target = r.content,
                                   ![w].todo = <<[trace |-> t, content |-> Note(r.content)]>>,
                                   ![w].seq = NextSeq(w, t)]
             /\ pc' = [pc EXCEPT ![w] = "shred"]
             /\ UNCHANGED <<owner, events, store, keys, prev, rows, tx>>
      BY <1>8, <2>2 DEF FindTarget
    <3> DEFINE q == <<[trace |-> t, content |-> Note(r.content)]>>
    <3>3. /\ q \in Seq([trace : Traces, content : Contents \cup {None}])
          /\ q # <<>> /\ \A i \in DOMAIN q : q[i].content \in Contents
      BY <3>1, <3>2, NoteIsContent
    <3>4. job' = [job EXCEPT ![w].target = r.content, ![w].todo = q, ![w].seq = NextSeq(w, t)]
      BY <3>2
    <3> HIDE DEF t, q
    <3>5. WorkersOK'
      <4>1. job' \in [Workers -> Job]
        <5> DEFINE n == NextSeq(w, t)
                   c == r.content
        <5>1. n \in Nat /\ c \in Erasable /\ job \in [Workers -> Job]
          BY <3>1, <3>2
        <5>2. job' = [job EXCEPT ![w].target = c, ![w].todo = q, ![w].seq = n]
          BY <3>4
        <5> HIDE DEF n, c, TypeInv, TypeOK, TablesOK, WorkersOK
        <5> QED
          BY <3>3, <5>1, <5>2, JobFields
      <4> QED
        BY <3>2, <4>1 DEF Steps
    <3>6. RequestInv'
      <4>1. pc[w] = "target"
        BY <1>8 DEF FindTarget
      <4>2. \A v \in Workers : v # w => job'[v] = job[v] /\ pc'[v] = pc[v]
        BY <3>2, <3>4
      <4>3. job'[w].org = job[w].org /\ job'[w].todo = q /\ job'[w].target = r.content
        BY <3>4 DEF Job
      <4> QED
        BY <3>2, <3>3, <4>1, <4>2, <4>3 DEF RequestInv
    <3> QED
      BY <3>2, <3>5, <3>6
  <2> QED
    BY <2>1, <2>2
<1>9. CASE Shred(w)
  <2>1. /\ pc[w] = "shred" /\ pc' = [pc EXCEPT ![w] = "trace"]
        /\ tx' = [tx EXCEPT ![w].shredded = @ \cup {job[w].target}]
        /\ UNCHANGED <<owner, events, store, keys, job, prev, rows>>
    BY <1>9 DEF Shred
  <2>2. job[w].target \in Erasable
    BY <2>1 DEF RequestInv
  <2>3. WorkersOK'
    <3>1. pc' \in [Workers -> Steps]
      BY <2>1 DEF Steps
    <3>2. tx' \in [Workers -> [traces : SUBSET Traces, stored : SUBSET Contents,
                               shredded : SUBSET Erasable]]
      BY <2>1, <2>2
    <3> QED
      BY <2>1, <3>1, <3>2
  <2>4. RequestInv'
    BY <2>1 DEF RequestInv
  <2> QED
    BY <2>1, <2>3, <2>4
<1>10. CASE Commit(w)
  <2>1. WorkersOK' /\ RequestInv'
    BY <1>10, ForgetType DEF Commit
  <2>2. job[w].org \in Orgs
    BY <1>10 DEF Commit, RequestInv
  <2>3. TablesOK'
    BY <1>10, <2>2 DEF Commit, StoreAfter
  <2> QED
    BY <2>1, <2>3
<1>11. CASE DeadlockVictim(w)
  BY <1>11, RollbackType DEF DeadlockVictim
<1> QED
  BY <1>1, <1>2, <1>3, <1>4, <1>5, <1>6, <1>7, <1>8, <1>9, <1>10, <1>11 DEF Step

LEMMA NextType ==
    ASSUME TypeInv, [Next]_vars
    PROVE  TypeInv'
<1>1. CASE UNCHANGED vars
  BY <1>1 DEF vars, TypeInv, TypeOK, TablesOK, WorkersOK, RequestInv
<1>2. ASSUME NEW w \in Workers, Request(w) PROVE TypeInv'
  BY <1>2, RequestType
<1>3. ASSUME NEW w \in Workers, Step(w) PROVE TypeInv'
  BY <1>3, StepType
<1>4. ASSUME NEW w \in Workers, Crash(w) PROVE TypeInv'
  BY <1>4, RollbackType DEF Crash
<1>5. ASSUME NEW o \in Orgs, ProvisionKey(o) PROVE TypeInv'
  BY <1>5 DEF ProvisionKey, TypeInv, TypeOK, TablesOK, WorkersOK, RequestInv
<1> QED
  BY <1>1, <1>2, <1>3, <1>4, <1>5 DEF Next

LEMMA InitType == Init => TypeInv
<1> SUFFICES ASSUME Init PROVE TypeInv
  OBVIOUS
<1>1. NoJob \in Job
  BY DEF NoJob, Job, Kinds, Keys
<1>2. TypeOK
  BY <1>1 DEF Init, TypeOK, TablesOK, WorkersOK, Steps, NoTx
<1>3. RequestInv
  BY DEF Init, RequestInv
<1> QED
  BY <1>2, <1>3 DEF TypeInv

\* Types: in every reachable state the tables and the requests have their
\* types; in particular every row gets a sequence number from 1 up and an
\* organisation that exists, however the statements of requests interleave.
THEOREM TypeCorrect == Spec => []TypeOK
<1>1. Init => TypeInv
  BY InitType
<1>2. TypeInv /\ [Next]_vars => TypeInv'
  BY NextType
<1>3. TypeInv => TypeOK
  BY DEF TypeInv
<1> QED
  BY <1>1, <1>2, <1>3, PTL DEF Spec

-----------------------------------------------------------------------------
(* The steps that change a row: an insert, and the two ends of a request.  *)

NewRow(w) ==
    Row(Call(w).trace, job[w].seq, job[w].org, Call(w).content, prev[w], job[w].key)

Inserts(w) ==
    /\ pc[w] = "insert" /\ ~Blocked(w)
    /\ ~SlotTaken(Call(w).trace, job[w].seq)
    /\ rows' = [rows EXCEPT ![w] = @ \cup {NewRow(w)}]
    /\ job' = [job EXCEPT ![w].todo = Tail(@)]
    /\ pc' = [pc EXCEPT ![w] = AfterInsert(Tail(job[w].todo))]
    /\ UNCHANGED <<owner, events, prev, tx>>

LEMMA RowSteps ==
    ASSUME [Next]_vars
    PROVE  \/ UNCHANGED <<events, rows>>
           \/ \E w \in Workers : Rollback(w) \/ Commit(w) \/ Inserts(w)
<1>1. CASE UNCHANGED vars
  BY <1>1 DEF vars
<1>2. ASSUME NEW w \in Workers, Request(w) PROVE UNCHANGED <<events, rows>>
  BY <1>2 DEF Request, PostEvent, PostGate, PostReplay, PostErasure, Accept
<1>3. ASSUME NEW w \in Workers, Step(w)
      PROVE  UNCHANGED <<events, rows>> \/ Rollback(w) \/ Commit(w) \/ Inserts(w)
  <2>1. CASE InsertEvent(w)
    BY <2>1 DEF InsertEvent, Inserts, NewRow, Row, Goto
  <2>2. CASE FindTrace(w) \/ CreateTrace(w) \/ ReadNextSeq(w) \/ ReadTip(w)
    BY <2>2 DEF FindTrace, CreateTrace, ReadNextSeq, ReadTip
  <2>3. CASE ReadKeyAndPayload(w) \/ InsertPayload(w) \/ FindTarget(w) \/ Shred(w)
    BY <2>3 DEF ReadKeyAndPayload, InsertPayload, FindTarget, Shred
  <2>4. CASE DeadlockVictim(w)
    BY <2>4 DEF DeadlockVictim
  <2> QED
    BY <1>3, <2>1, <2>2, <2>3, <2>4 DEF Step
<1>4. ASSUME NEW w \in Workers, Crash(w) PROVE Rollback(w)
  BY <1>4 DEF Crash
<1>5. ASSUME NEW o \in Orgs, ProvisionKey(o) PROVE UNCHANGED <<events, rows>>
  BY <1>5 DEF ProvisionKey
<1> QED
  BY <1>1, <1>2, <1>3, <1>4, <1>5 DEF Next

-----------------------------------------------------------------------------
(* Digests, slots and links.                                               *)

LEMMA DigestStep ==
    ASSUME TypeInv, DigestInv, [Next]_vars
    PROVE  DigestInv'
<1>1. CASE UNCHANGED <<events, rows>>
  BY <1>1 DEF DigestInv
<1>2. ASSUME NEW w \in Workers, Rollback(w) PROVE DigestInv'
  BY <1>2 DEF Rollback, Forget, DigestInv, TypeInv, TypeOK, WorkersOK
<1>3. ASSUME NEW w \in Workers, Commit(w) PROVE DigestInv'
  BY <1>3 DEF Commit, Forget, DigestInv, TypeInv, TypeOK, WorkersOK
<1>4. ASSUME NEW w \in Workers, Inserts(w) PROVE DigestInv'
  <2>1. Digested(NewRow(w))
    BY DEF NewRow, Row, Digested, Envelope
  <2> QED
    BY <1>4, <2>1 DEF Inserts, DigestInv, TypeInv, TypeOK, WorkersOK
<1> QED
  BY <1>1, <1>2, <1>3, <1>4, RowSteps

\* Two requests never hold the same slot: the constraint fails the second, or
\* makes it wait, and a request's own rows come one after the other.
LEMMA SlotStep ==
    ASSUME TypeInv, SlotInv, CallInv, [Next]_vars
    PROVE  SlotInv'
<1> USE DEF TypeInv, TypeOK, WorkersOK
<1>1. CASE UNCHANGED <<events, rows>>
  BY <1>1 DEF SlotInv
<1>2. ASSUME NEW w \in Workers, Rollback(w) PROVE SlotInv'
  BY <1>2 DEF Rollback, Forget, SlotInv
<1>3. ASSUME NEW w \in Workers, Commit(w) PROVE SlotInv'
  BY <1>3 DEF Commit, Forget, SlotInv
<1>4. ASSUME NEW w \in Workers, Inserts(w) PROVE SlotInv'
  <2> DEFINE n == NewRow(w)
  <2>1. n.trace = Call(w).trace /\ n.seq = job[w].seq
    BY DEF NewRow, Row
  <2>2. \A s \in events : ~(n.trace = s.trace /\ n.seq = s.seq)
    BY <1>4, <2>1 DEF Inserts, SlotTaken
  <2>3. \A v \in Workers : v # w => \A s \in rows[v] : ~(n.trace = s.trace /\ n.seq = s.seq)
    BY <1>4, <2>1 DEF Inserts, Blocked, WaitsFor
  <2>4. \A s \in rows[w] : ~(n.trace = s.trace /\ n.seq = s.seq)
    BY <1>4, <2>1 DEF Inserts, CallInv, CallOK, RowOK, RequestInv
  <2>5. /\ events' = events /\ rows'[w] = rows[w] \cup {n}
        /\ \A v \in Workers : v # w => rows'[v] = rows[v]
    BY <1>4 DEF Inserts
  <2> HIDE DEF n
  <2>6. \A v \in Workers : \A r \in rows'[v] : r \in rows[v] \/ (v = w /\ r = n)
    BY <2>5
  <2>7. \A v \in Workers : \A r \in rows'[v], s \in events' : ~(r.trace = s.trace /\ r.seq = s.seq)
    BY <2>2, <2>5, <2>6 DEF SlotInv
  <2>8. \A u, v \in Workers : \A r \in rows'[u], s \in rows'[v] :
          r.trace = s.trace /\ r.seq = s.seq => u = v /\ r = s
    BY <2>3, <2>4, <2>6 DEF SlotInv
  <2> QED
    BY <2>5, <2>7, <2>8 DEF SlotInv
<1> QED
  BY <1>1, <1>2, <1>3, <1>4, RowSteps

LEMMA GroundedMonotone ==
    ASSUME NEW S, NEW T, S \subseteq T, NEW t, NEW n, NEW h, Grounded(S, t, n, h)
    PROVE  Grounded(T, t, n, h)
  BY DEF Grounded

\* Committed rows are never removed, so a link once right stays right.
LEMMA LinkStep ==
    ASSUME TypeInv, LinkInv, CallInv, [Next]_vars
    PROVE  LinkInv'
<1> USE DEF TypeInv, TypeOK, WorkersOK, LinkInv
<1>1. CASE UNCHANGED <<events, rows>>
  BY <1>1 DEF Visible
<1>2. ASSUME NEW w \in Workers, Rollback(w) PROVE LinkInv'
  BY <1>2 DEF Rollback, Forget, Visible
<1>3. ASSUME NEW w \in Workers, Commit(w) PROVE LinkInv'
  <2>1. events' = Visible(w) /\ events \subseteq events'
    BY <1>3 DEF Commit, Visible
  <2>2. rows' = [rows EXCEPT ![w] = {}]
    BY <1>3 DEF Commit, Forget
  <2>3. \A r \in events' : Grounded(events', r.trace, r.seq, r.prev)
    BY <2>1, GroundedMonotone DEF Visible
  <2>4. ASSUME NEW v \in Workers, NEW r \in rows'[v]
        PROVE  Grounded(Visible(v)', r.trace, r.seq, r.prev)
    <3>1. v # w /\ r \in rows[v] /\ Visible(v) \subseteq Visible(v)'
      BY <2>1, <2>2, <2>4 DEF Visible
    <3> QED
      BY <3>1, GroundedMonotone
  <2> QED
    BY <2>3, <2>4
<1>4. ASSUME NEW w \in Workers, Inserts(w) PROVE LinkInv'
  <2> DEFINE n == NewRow(w)
  <2>1. Grounded(Visible(w), n.trace, n.seq, n.prev)
    BY <1>4 DEF Inserts, CallInv, CallOK, NewRow, Row
  <2>2. /\ events' = events /\ rows'[w] = rows[w] \cup {n}
        /\ \A v \in Workers : v # w => rows'[v] = rows[v]
    BY <1>4 DEF Inserts
  <2> HIDE DEF n
  <2>3. ASSUME NEW v \in Workers, NEW r \in rows'[v]
        PROVE  Grounded(Visible(v)', r.trace, r.seq, r.prev)
    <3>1. Visible(v) \subseteq Visible(v)' /\ (r \in rows[v] \/ (v = w /\ r = n))
      BY <2>2, <2>3 DEF Visible
    <3> QED
      BY <2>1, <3>1, GroundedMonotone
  <2> QED
    BY <2>2, <2>3
<1> QED
  BY <1>1, <1>2, <1>3, <1>4, RowSteps

-----------------------------------------------------------------------------
(* Owners.                                                                 *)

SameTraces ==
    /\ UNCHANGED <<owner, events, rows>>
    /\ \A v \in Workers : /\ tx'[v].traces = tx[v].traces
                          /\ job'[v].org = job[v].org \/ rows[v] = {}

Creates(w) ==
    /\ pc[w] = "newtrace" /\ ~Blocked(w)
    /\ owner[Call(w).trace] = None
    /\ tx' = [tx EXCEPT ![w].traces = @ \cup {Call(w).trace}]
    /\ UNCHANGED <<owner, events, job, rows>>

LEMMA OwnerSteps ==
    ASSUME TypeInv, [Next]_vars
    PROVE  \/ SameTraces
           \/ \E w \in Workers : Rollback(w) \/ Commit(w) \/ Inserts(w) \/ Creates(w)
<1> USE DEF TypeInv, TypeOK, WorkersOK
<1>1. CASE UNCHANGED vars
  BY <1>1 DEF vars, SameTraces
<1>2. ASSUME NEW w \in Workers, Request(w) PROVE SameTraces
  <2>1. PICK step, k, o, calls, s : Accept(w, step, k, o, calls, s)
    BY <1>2 DEF Request, PostEvent, PostGate, PostReplay, PostErasure
  <2> QED
    BY <2>1 DEF Accept, SameTraces, RequestInv
<1>3. ASSUME NEW w \in Workers, Step(w)
      PROVE  SameTraces \/ Rollback(w) \/ Commit(w) \/ Inserts(w) \/ Creates(w)
  <2>1. CASE InsertEvent(w)
    BY <2>1 DEF InsertEvent, Inserts, NewRow, Row, Goto
  <2>2. CASE CreateTrace(w)
    BY <2>2 DEF CreateTrace, Creates
  <2>3. CASE FindTrace(w)
    BY <2>3 DEF FindTrace, SameTraces
  <2>4. CASE ReadNextSeq(w)
    BY <2>4 DEF ReadNextSeq, SameTraces, Job
  <2>5. CASE ReadTip(w)
    <3>1. CASE UNCHANGED job
      BY <2>5, <3>1 DEF ReadTip, SameTraces
    <3>2. CASE job' = [job EXCEPT ![w].kind = "erasure_retry"]
      <4>1. \A v \in Workers : job'[v].org = job[v].org
        BY <3>2 DEF Job
      <4> QED
        BY <2>5, <4>1 DEF ReadTip, SameTraces
    <3> QED
      BY <2>5, <3>1, <3>2 DEF ReadTip
  <2>6. CASE ReadKeyAndPayload(w)
    BY <2>6 DEF ReadKeyAndPayload, SameTraces, Job
  <2>7. CASE InsertPayload(w)
    BY <2>7 DEF InsertPayload, SameTraces
  <2>8. CASE FindTarget(w)
    <3>1. CASE Rollback(w)
      BY <3>1
    <3>2. CASE ~Rollback(w)
      <4>1. PICK r \in TraceEvents(w, Call(w).trace) :
               job' = [job EXCEPT ![w].target = r.content,
                                  ![w].todo = <<[trace |-> Call(w).trace, content |-> Note(r.content)]>>,
                                  ![w].seq = NextSeq(w, Call(w).trace)]
        BY <2>8, <3>2 DEF FindTarget
      <4>2. \A v \in Workers : job'[v].org = job[v].org
        BY <4>1 DEF Job
      <4> QED
        BY <2>8, <3>2, <4>2 DEF FindTarget, SameTraces
    <3> QED
      BY <3>1, <3>2
  <2>9. CASE Shred(w)
    BY <2>9 DEF Shred, SameTraces
  <2>10. CASE DeadlockVictim(w)
    BY <2>10 DEF DeadlockVictim
  <2> QED
    BY <1>3, <2>1, <2>2, <2>3, <2>4, <2>5, <2>6, <2>7, <2>8, <2>9, <2>10 DEF Step
<1>4. ASSUME NEW w \in Workers, Crash(w) PROVE Rollback(w)
  BY <1>4 DEF Crash
<1>5. ASSUME NEW o \in Orgs, ProvisionKey(o) PROVE SameTraces
  BY <1>5 DEF ProvisionKey, SameTraces
<1> QED
  BY <1>1, <1>2, <1>3, <1>4, <1>5 DEF Next

\* A trace never changes hands.
LEMMA OwnerKept ==
    ASSUME TypeInv, OwnerInv, [Next]_vars, NEW t \in Traces, owner[t] # None
    PROVE  owner'[t] = owner[t]
<1>1. ASSUME NEW w \in Workers, Commit(w) PROVE owner'[t] = owner[t]
  BY <1>1 DEF Commit, OwnerInv
<1> QED
  BY <1>1, OwnerSteps DEF SameTraces, Rollback, Inserts, Creates

\* An insert of a trace waits for, or fails on, the other inserts of the same
\* trace: of two organisations that name it, one gets it.
LEMMA OwnerStep ==
    ASSUME TypeInv, OwnerInv, CallInv, [Next]_vars
    PROVE  OwnerInv'
<1> USE DEF TypeInv, TypeOK, TablesOK, WorkersOK
<1>1. CASE SameTraces
  <2>1. /\ owner' = owner /\ events' = events /\ rows' = rows
        /\ \A v \in Workers : tx'[v].traces = tx[v].traces
        /\ \A v \in Workers : job'[v].org = job[v].org \/ rows[v] = {}
    BY <1>1 DEF SameTraces
  <2>2. \A v \in Workers : \A t \in tx'[v].traces : owner'[t] = None
    BY <2>1 DEF OwnerInv
  <2>3. \A u, v \in Workers : u # v => tx'[u].traces \cap tx'[v].traces = {}
    BY <2>1 DEF OwnerInv
  <2>4. \A r \in events' : owner'[r.trace] = r.org
    BY <2>1 DEF OwnerInv
  <2>5. \A v \in Workers : \A r \in rows'[v] : r.org = job'[v].org /\ Usable(v, r.trace)'
    BY <2>1 DEF OwnerInv, Usable
  <2> QED
    BY <2>2, <2>3, <2>4, <2>5 DEF OwnerInv
<1>2. ASSUME NEW w \in Workers, Rollback(w) PROVE OwnerInv'
  BY <1>2 DEF Rollback, Forget, OwnerInv, Usable, NoTx
<1>3. ASSUME NEW w \in Workers, Creates(w) PROVE OwnerInv'
  <2> DEFINE t == Call(w).trace
  <2>1. \A v \in Workers : v # w => t \notin tx[v].traces
    BY <1>3 DEF Creates, Blocked, WaitsFor
  <2>2. /\ owner[t] = None
        /\ tx'[w].traces = tx[w].traces \cup {t}
        /\ \A v \in Workers : v # w => tx'[v].traces = tx[v].traces
        /\ UNCHANGED <<owner, events, job, rows>>
    BY <1>3 DEF Creates
  <2> HIDE DEF t
  <2>3. /\ \A v \in Workers : \A y \in tx'[v].traces : owner'[y] = None
        /\ \A r \in events' : owner'[r.trace] = r.org
    BY <2>2 DEF OwnerInv
  <2>4. \A u, v \in Workers : u # v => tx'[u].traces \cap tx'[v].traces = {}
    BY <2>1, <2>2 DEF OwnerInv
  <2>5. \A v \in Workers : \A r \in rows'[v] : r.org = job'[v].org /\ Usable(v, r.trace)'
    BY <2>2 DEF OwnerInv, Usable
  <2> QED
    BY <2>3, <2>4, <2>5 DEF OwnerInv
<1>4. ASSUME NEW w \in Workers, Inserts(w) PROVE OwnerInv'
  <2> DEFINE n == NewRow(w)
  <2>1. n.org = job[w].org /\ Usable(w, n.trace)
    BY <1>4 DEF Inserts, NewRow, Row, CallInv, CallOK
  <2>2. /\ rows'[w] = rows[w] \cup {n}
        /\ \A v \in Workers : v # w => rows'[v] = rows[v]
        /\ \A v \in Workers : job'[v].org = job[v].org
        /\ UNCHANGED <<owner, events, tx>>
    BY <1>4 DEF Inserts, Job
  <2> HIDE DEF n
  <2> QED
    BY <2>1, <2>2 DEF OwnerInv, Usable
<1>5. ASSUME NEW w \in Workers, Commit(w) PROVE OwnerInv'
  <2>1. /\ owner' = [t \in Traces |-> IF t \in tx[w].traces THEN job[w].org ELSE owner[t]]
        /\ events' = events \cup rows[w]
        /\ job' = [job EXCEPT ![w] = NoJob]
        /\ rows' = [rows EXCEPT ![w] = {}]
        /\ tx' = [tx EXCEPT ![w] = NoTx]
    BY <1>5 DEF Commit, Forget
  <2>2. \A v \in Workers : \A t \in tx'[v].traces : owner'[t] = None
    BY <2>1 DEF OwnerInv, NoTx
  <2>3. \A u, v \in Workers : u # v => tx'[u].traces \cap tx'[v].traces = {}
    BY <2>1 DEF OwnerInv, NoTx
  <2>4. ASSUME NEW r \in events' PROVE owner'[r.trace] = r.org
    <3>1. CASE r \in events
      BY <2>1, <3>1, ChainAssumption DEF OwnerInv, RowOK, ChainAssumption
    <3>2. CASE r \in rows[w]
      BY <2>1, <3>2 DEF OwnerInv, Usable, RowOK
    <3> QED
      BY <2>1, <2>4, <3>1, <3>2
  <2>5. ASSUME NEW v \in Workers, NEW r \in rows'[v]
        PROVE  r.org = job'[v].org /\ Usable(v, r.trace)'
    <3>1. v # w /\ r \in rows[v] /\ job'[v] = job[v] /\ tx'[v] = tx[v]
      BY <2>1, <2>5
    <3>2. r.org = job[v].org /\ Usable(v, r.trace) /\ r.org \in Orgs /\ r.trace \in Traces
      BY <3>1 DEF OwnerInv, RowOK
    <3>3. owner[r.trace] = job[v].org => owner'[r.trace] = job[v].org
      BY <3>2, OwnerKept, ChainAssumption DEF ChainAssumption
    <3> QED
      BY <3>1, <3>2, <3>3 DEF Usable
  <2> QED
    BY <2>2, <2>3, <2>4, <2>5 DEF OwnerInv
<1> QED
  BY <1>1, <1>2, <1>3, <1>4, <1>5, OwnerSteps

-----------------------------------------------------------------------------
(* record_event between its check of seq and its insert.                   *)

\* The organisation filter of last_event_for_trace hides nothing: a worker
\* that may use a trace sees only rows of its own organisation there.
LEMMA NothingHidden ==
    ASSUME TypeInv, OwnerInv, NEW w \in Workers, pc[w] # "idle",
           NEW t \in Traces, Usable(w, t)
    PROVE  TraceEvents(w, t) = {r \in Visible(w) : r.trace = t}
<1> SUFFICES ASSUME NEW r \in Visible(w), r.trace = t PROVE r.org = job[w].org
  BY DEF TraceEvents
<1>1. CASE r \in rows[w]
  BY <1>1 DEF OwnerInv
<1>2. CASE r \in events
  <2>1. owner[t] = r.org /\ r.org \in Orgs
    BY <1>2 DEF OwnerInv, TypeInv, TypeOK, TablesOK, RowOK
  <2>2. t \notin tx[w].traces
    BY <2>1, ChainAssumption DEF OwnerInv, ChainAssumption
  <2> QED
    BY <2>1, <2>2 DEF Usable
<1> QED
  BY <1>1, <1>2 DEF Visible

\* The check of seq against the last event leaves the request grounded: every
\* smaller slot of the trace is visible, the last of them with hash prev.
LEMMA TipGrounds ==
    ASSUME TypeInv, LinkInv, OwnerInv, NEW w \in Workers, pc[w] # "idle",
           NEW t \in Traces, Usable(w, t)
    PROVE  /\ Grounded(Visible(w), t, NextSeq(w, t), LastHash(w, t))
           /\ \A r \in rows[w] : r.trace = t => r.seq < NextSeq(w, t)
<1> DEFINE S == TraceEvents(w, t)
<1>1. S = {r \in Visible(w) : r.trace = t}
  BY NothingHidden
<1>2. \A r \in Visible(w) : r.seq \in 1..MaxSeq /\ Grounded(Visible(w), r.trace, r.seq, r.prev)
  <2>1. \A r \in events : Grounded(Visible(w), r.trace, r.seq, r.prev)
    BY GroundedMonotone DEF LinkInv, Visible
  <2> QED
    BY <2>1 DEF LinkInv, Visible, TypeInv, TypeOK, TablesOK, WorkersOK, RowOK
<1>3. CASE S = {}
  BY <1>1, <1>3 DEF NextSeq, LastHash, Grounded, Visible
<1>4. CASE S # {}
  <2> DEFINE l == LastEvent(w, t)
  <2>1. l \in S /\ \A x \in S : x.seq <= l.seq
    BY <1>4, NextSeqType DEF TypeInv
  <2>2. NextSeq(w, t) = l.seq + 1 /\ LastHash(w, t) = l.hash
    BY <1>4 DEF NextSeq, LastHash
  <2> HIDE DEF l
  <2>3. l \in Visible(w) /\ l.trace = t /\ l.seq \in Nat \ {0}
    BY <1>1, <1>2, <2>1
  <2>4. \A m \in 1..(l.seq - 1) : \E x \in Visible(w) : x.trace = t /\ x.seq = m
    BY <1>2, <2>3 DEF Grounded
  <2>5. \A m \in 1..l.seq : \E x \in Visible(w) : x.trace = t /\ x.seq = m
    BY <2>3, <2>4
  <2>6. Grounded(Visible(w), t, l.seq + 1, l.hash)
    BY <2>3, <2>5 DEF Grounded
  <2>7. \A r \in rows[w] : r.trace = t => r.seq < l.seq + 1
    BY <1>1, <1>2, <2>1, <2>3 DEF Visible
  <2> QED
    BY <2>2, <2>6, <2>7
<1> QED
  BY <1>3, <1>4

\* What another worker does keeps a request as it was.
LEMMA OthersCall ==
    ASSUME TypeInv, OwnerInv, [Next]_vars, NEW v \in Workers, CallOK(v),
           pc'[v] = pc[v], job'[v] = job[v], prev'[v] = prev[v],
           rows'[v] = rows[v], tx'[v] = tx[v]
    PROVE  CallOK(v)'
<1>1. events \subseteq events'
  BY RowSteps DEF Rollback, Commit, Inserts
<1>2. Visible(v) \subseteq Visible(v)'
  BY <1>1 DEF Visible
<1>3. Call(v)' = Call(v)
  BY DEF Call
<1>4. CASE pc[v] \in {"next", "tip", "store", "newstore", "insert"}
  <2>1. Call(v).trace \in Traces /\ job[v].org \in Orgs
    BY <1>4, CallType
  <2>2. Usable(v, Call(v).trace)
    BY <1>4 DEF CallOK
  <2>3. owner[Call(v).trace] = job[v].org => owner'[Call(v).trace] = job[v].org
    BY <2>1, OwnerKept, ChainAssumption DEF ChainAssumption
  <2>4. Usable(v, Call(v).trace)'
    BY <1>3, <2>2, <2>3 DEF Usable
  <2>5. pc[v] \in {"store", "newstore", "insert"} =>
           Grounded(Visible(v)', Call(v).trace, job[v].seq, prev[v])
    BY <1>2, GroundedMonotone DEF CallOK
  <2> QED
    BY <1>3, <2>4, <2>5 DEF CallOK
<1>5. CASE pc[v] \notin {"next", "tip", "store", "newstore", "insert"}
  BY <1>5 DEF CallOK
<1> QED
  BY <1>4, <1>5

LEMMA StepCall ==
    ASSUME TypeInv, LinkInv, OwnerInv, CallInv, NEW w \in Workers, Step(w)
    PROVE  CallOK(w)'
<1> USE DEF TypeInv, TypeOK, WorkersOK
<1> DEFINE Busy == {"next", "tip", "store", "newstore", "insert"}
<1>1. SUFFICES ASSUME pc'[w] \in Busy PROVE CallOK(w)'
  BY DEF CallOK
<1>2. CASE FindTrace(w)
  <2>1. /\ Usable(w, Call(w).trace) /\ pc'[w] \in {"next", "tip"}
        /\ UNCHANGED <<owner, job, tx>>
    BY <1>1, <1>2 DEF FindTrace, Goto, Rollback, Forget, AfterTrace, Usable
  <2> QED
    BY <2>1 DEF CallOK, Usable, Call
<1>3. CASE CreateTrace(w)
  <2>1. /\ tx' = [tx EXCEPT ![w].traces = @ \cup {Call(w).trace}]
        /\ pc'[w] \in {"next", "tip"}
        /\ UNCHANGED <<owner, job>>
    BY <1>1, <1>3 DEF CreateTrace, Goto, Rollback, Forget, AfterTrace
  <2> QED
    BY <2>1 DEF CallOK, Usable, Call
<1>4. CASE ReadNextSeq(w)
  <2>1. pc[w] = "next" /\ pc'[w] = "tip" /\ UNCHANGED <<owner, tx>>
    BY <1>4 DEF ReadNextSeq, Goto
  <2>2. job'[w].org = job[w].org /\ job'[w].todo = job[w].todo
    BY <1>4 DEF ReadNextSeq, Job
  <2>3. Usable(w, Call(w).trace)
    BY <2>1 DEF CallInv, CallOK
  <2> QED
    BY <2>1, <2>2, <2>3 DEF CallOK, Usable, Call
<1>5. CASE ReadTip(w)
  <2> DEFINE t == Call(w).trace
  <2>1. Usable(w, t) /\ t \in Traces /\ pc[w] = "tip"
    BY <1>5, CallType DEF ReadTip, CallInv, CallOK
  <2>2. CASE Rollback(w)
    BY <1>1, <2>2 DEF Rollback, Forget, Goto
  <2>3. CASE /\ job[w].seq = NextSeq(w, t)
             /\ prev' = [prev EXCEPT ![w] = LastHash(w, t)]
             /\ UNCHANGED <<owner, events, job, rows, tx>>
    <3>1. /\ Grounded(Visible(w), t, job[w].seq, LastHash(w, t))
          /\ \A r \in rows[w] : r.trace = t => r.seq < job[w].seq
      BY <2>1, <2>3, TipGrounds
    <3>2. prev'[w] = LastHash(w, t) /\ Call(w)' = Call(w) /\ Visible(w)' = Visible(w)
      BY <2>3 DEF Call, Visible
    <3>3. Usable(w, t)'
      BY <2>1, <2>3, <3>2 DEF Usable
    <3> QED
      BY <2>3, <3>1, <3>2, <3>3 DEF CallOK
  <2>4. CASE /\ job' = [job EXCEPT ![w].kind = "erasure_retry"]
             /\ pc' = [pc EXCEPT ![w] = "next"]
             /\ UNCHANGED <<owner, tx>>
    <3>1. job'[w].org = job[w].org /\ job'[w].todo = job[w].todo /\ pc'[w] = "next"
      BY <2>4 DEF Job
    <3> QED
      BY <2>1, <2>4, <3>1 DEF CallOK, Usable, Call
  <2> QED
    BY <1>5, <2>2, <2>3, <2>4 DEF ReadTip, Goto
<1>6. CASE ReadKeyAndPayload(w)
  <2>1. pc[w] = "store" /\ UNCHANGED <<owner, events, prev, rows, tx>>
    BY <1>6 DEF ReadKeyAndPayload
  <2>2. /\ job'[w].org = job[w].org /\ job'[w].todo = job[w].todo
        /\ job'[w].seq = job[w].seq
    BY <1>6 DEF ReadKeyAndPayload, Job
  <2>3. CallOK(w)
    BY DEF CallInv
  <2>4. Call(w)' = Call(w) /\ Visible(w)' = Visible(w)
    BY <2>1, <2>2 DEF Call, Visible
  <2> QED
    BY <2>1, <2>2, <2>3, <2>4 DEF CallOK, Usable
<1>7. CASE InsertPayload(w)
  <2>1. /\ pc[w] = "newstore" /\ tx'[w].traces = tx[w].traces
        /\ UNCHANGED <<owner, events, job, prev, rows>>
    BY <1>1, <1>7 DEF InsertPayload, Rollback, Forget, Goto
  <2>2. CallOK(w)
    BY DEF CallInv
  <2>3. Call(w)' = Call(w) /\ Visible(w)' = Visible(w)
    BY <2>1 DEF Call, Visible
  <2> QED
    BY <2>1, <2>2, <2>3 DEF CallOK, Usable
<1>8. CASE InsertEvent(w) \/ FindTarget(w) \/ Shred(w) \/ Commit(w) \/ DeadlockVictim(w)
  BY <1>1, <1>8 DEF InsertEvent, AfterInsert, FindTarget, Shred, Commit, DeadlockVictim,
                    Rollback, Forget, Goto
<1> QED
  BY <1>2, <1>3, <1>4, <1>5, <1>6, <1>7, <1>8 DEF Step

\* A step of a request changes nothing of the requests of other workers.
Locally(w) ==
    \A v \in Workers : v # w =>
        /\ pc'[v] = pc[v] /\ job'[v] = job[v] /\ prev'[v] = prev[v]
        /\ rows'[v] = rows[v] /\ tx'[v] = tx[v]

LEMMA Locality ==
    ASSUME TypeInv, NEW w \in Workers, Request(w) \/ Step(w) \/ Crash(w)
    PROVE  Locally(w)
<1> USE DEF TypeInv, TypeOK, WorkersOK, Goto
<1>1. Forget(w) => Locally(w)
  BY DEF Forget, Locally
<1>2. CASE Request(w)
  <2>1. PICK step, k, o, calls, s : Accept(w, step, k, o, calls, s)
    BY <1>2 DEF Request, PostEvent, PostGate, PostReplay, PostErasure
  <2> QED
    BY <2>1 DEF Accept, Locally
<1>3. CASE Crash(w) \/ DeadlockVictim(w) \/ Commit(w)
  BY <1>1, <1>3 DEF Crash, DeadlockVictim, Commit, Rollback
<1>4. CASE FindTrace(w) \/ CreateTrace(w)
  BY <1>1, <1>4 DEF FindTrace, CreateTrace, Rollback, Locally
<1>5. CASE ReadNextSeq(w) \/ ReadTip(w)
  BY <1>1, <1>5 DEF ReadNextSeq, ReadTip, Rollback, Locally
<1>6. CASE ReadKeyAndPayload(w) \/ InsertPayload(w)
  BY <1>1, <1>6 DEF ReadKeyAndPayload, InsertPayload, Rollback, Locally
<1>7. CASE InsertEvent(w)
  BY <1>1, <1>7 DEF InsertEvent, Rollback, Locally
<1>8. CASE FindTarget(w) \/ Shred(w)
  BY <1>1, <1>8 DEF FindTarget, Shred, Rollback, Locally
<1> QED
  BY <1>2, <1>3, <1>4, <1>5, <1>6, <1>7, <1>8 DEF Step

LEMMA CallStep ==
    ASSUME TypeInv, LinkInv, OwnerInv, CallInv, [Next]_vars
    PROVE  CallInv'
<1>1. ASSUME NEW w \in Workers, Request(w) \/ Step(w) \/ Crash(w)
      PROVE  CallInv'
  <2>1. ASSUME NEW v \in Workers, v # w PROVE CallOK(v)'
    BY <1>1, <2>1, Locality, OthersCall DEF Locally, CallInv
  <2>2. CallOK(w)'
    <3>1. CASE Request(w)
      <4>1. Goto(w, "trace") \/ Goto(w, "target")
        BY <3>1 DEF Request, PostEvent, PostGate, PostReplay, PostErasure, Accept
      <4>2. pc'[w] \in {"trace", "target"}
        BY <4>1 DEF Goto, TypeInv, TypeOK, WorkersOK
      <4> QED
        BY <4>2 DEF CallOK
    <3>2. CASE Step(w)
      BY <3>2, StepCall
    <3>3. CASE Crash(w)
      BY <3>3 DEF Crash, Rollback, Forget, Goto, CallOK, TypeInv, TypeOK, WorkersOK
    <3> QED
      BY <1>1, <3>1, <3>2, <3>3
  <2> QED
    BY <2>1, <2>2 DEF CallInv
<1>2. CASE UNCHANGED <<pc, job, prev, rows, tx>>
  BY <1>2, OthersCall DEF CallInv
<1> QED
  BY <1>1, <1>2 DEF Next, ProvisionKey, vars

-----------------------------------------------------------------------------
(* The theorems.                                                           *)

LEMMA InitInv == Init => IInv
<1> SUFFICES ASSUME Init PROVE IInv
  OBVIOUS
<1>1. TypeInv
  BY InitType
<1>2. DigestInv /\ SlotInv /\ LinkInv /\ OwnerInv /\ CallInv
  BY DEF Init, DigestInv, SlotInv, LinkInv, OwnerInv, CallInv, CallOK, NoTx
<1> QED
  BY <1>1, <1>2 DEF IInv

LEMMA NextInv == IInv /\ [Next]_vars => IInv'
<1> SUFFICES ASSUME IInv, [Next]_vars PROVE IInv'
  OBVIOUS
<1> USE DEF IInv
<1>1. TypeInv'
  BY NextType
<1>2. DigestInv'
  BY DigestStep
<1>3. SlotInv'
  BY SlotStep
<1>4. LinkInv'
  BY LinkStep
<1>5. OwnerInv'
  BY OwnerStep
<1>6. CallInv'
  BY CallStep
<1> QED
  BY <1>1, <1>2, <1>3, <1>4, <1>5, <1>6

\* The inductive invariant holds in every reachable state.
THEOREM Invariance == Spec => []IInv
  BY InitInv, NextInv, PTL DEF Spec

\* Of the rows before r the last one is the one r is linked to.
LEMMA PredecessorHash ==
    ASSUME TypeInv, SlotInv, LinkInv, NEW r \in events
    PROVE  r.prev = ExpectedPrev(r)
<1> DEFINE B == Before(r)
<1>1. r.seq \in 1..MaxSeq /\ Grounded(events, r.trace, r.seq, r.prev)
  BY DEF TypeInv, TypeOK, TablesOK, RowOK, LinkInv
<1>2. \A x \in B : x \in events /\ x.trace = r.trace /\ x.seq \in 1..MaxSeq /\ x.seq < r.seq
  BY DEF Before, TypeInv, TypeOK, TablesOK, RowOK
<1>3. CASE r.seq = 1
  <2>1. B = {}
    BY <1>2, <1>3
  <2> QED
    BY <1>1, <1>3, <2>1 DEF ExpectedPrev, Grounded
<1>4. CASE r.seq > 1
  <2>1. PICK x \in events : x.trace = r.trace /\ x.seq = r.seq - 1 /\ x.hash = r.prev
    BY <1>1, <1>4 DEF Grounded
  <2>2. x \in B
    BY <1>1, <2>1 DEF Before
  <2>3. \A y \in B : y.seq <= x.seq
    BY <1>1, <1>2, <2>1
  <2>4. \A z \in B : (\A y \in B : y.seq <= z.seq) => z = x
    BY <1>1, <1>2, <2>1, <2>2, <2>3 DEF SlotInv
  <2>5. (CHOOSE z \in B : \A y \in B : y.seq <= z.seq) = x
    BY <2>2, <2>3, <2>4
  <2> QED
    BY <2>1, <2>2, <2>5 DEF ExpectedPrev
<1> QED
  BY <1>1, <1>3, <1>4

\* Verification: whatever requests race to append to a trace, crash or are
\* rolled back, and however often keys are rotated, replay of every committed
\* trace recomputes each hash, each signature and each link.
THEOREM ChainVerifies == Spec => []ReplayVerifies
<1>1. IInv => ReplayVerifies
  BY PredecessorHash DEF IInv, ReplayVerifies, VerifiedUnder, DigestInv, Digested
<1> QED
  BY <1>1, Invariance, PTL

\* The rows of a trace have the numbers 1..n, n the number of rows.
LEMMA NumbersAreSlots ==
    ASSUME TypeInv, SlotInv, LinkInv, NEW t \in Traces
    PROVE  LET R == {r \in events : r.trace = t} IN {r.seq : r \in R} = 1..Cardinality(R)
<1> DEFINE R == {r \in events : r.trace = t}
           S == {r.seq : r \in R}
           f == [r \in R |-> r.seq]
<1>1. \A r \in R : r.seq \in 1..MaxSeq /\ Grounded(events, t, r.seq, r.prev)
  BY DEF TypeInv, TypeOK, TablesOK, RowOK, LinkInv
<1>2. \A r, s \in R : r.seq = s.seq => r = s
  BY DEF SlotInv
<1>3. \E n \in Nat : S = 1..n
  <2>1. CASE R = {}
    <3>1. S = 1..0
      BY <2>1
    <3> QED BY <3>1
  <2>2. CASE R # {}
    <3>1. \A x \in R : x.seq \in 0..MaxSeq
      BY <1>1, ChainAssumption DEF ChainAssumption
    <3>2. PICK r \in R : \A x \in R : x.seq <= r.seq
      BY <2>2, <3>1, MaxRow, ChainAssumption DEF ChainAssumption
    <3>3. r.seq \in Nat /\ \A x \in R : x.seq \in 1..r.seq
      BY <1>1, <3>2, ChainAssumption DEF ChainAssumption
    <3>4. \A m \in 1..r.seq : \E x \in R : x.seq = m
      <4>1. \A m \in 1..(r.seq - 1) : \E x \in R : x.seq = m
        BY <1>1, <3>2 DEF Grounded
      <4> QED BY <3>3, <4>1
    <3>5. S = 1..r.seq
      BY <3>3, <3>4
    <3> QED BY <3>3, <3>5
  <2> QED BY <2>1, <2>2
<1>4. PICK n \in Nat : S = 1..n
  BY <1>3
<1>5. f \in Bijection(R, S)
  BY <1>2 DEF Bijection, Injection, IsInjective, Surjection
<1>6. IsFiniteSet(S) /\ Cardinality(S) = n
  <2>1. IsFiniteSet(1..n) /\ Cardinality(1..n) = IF 1 > n THEN 0 ELSE n - 1 + 1
    BY FS_Interval
  <2> HIDE DEF S
  <2> QED BY <1>4, <2>1
<1>7. Cardinality(R) = n
  <2> HIDE DEF R, S, f
  <2>1. ExistsBijection(R, S)
    BY <1>5 DEF ExistsBijection
  <2> QED BY <1>6, <2>1, FS_Bijection, Fun_ExistsBijSymmetric
<1> QED BY <1>4, <1>7

\* Numbering: a trace has the numbers 1..n, each once, whoever raced to append.
THEOREM ChainContiguous == Spec => []SeqsContiguous
<1>1. IInv => SeqsContiguous
  BY NumbersAreSlots DEF IInv, SeqsContiguous
<1> QED
  BY <1>1, Invariance, PTL

\* Isolation: an event is only ever in a trace of the organisation that sent
\* it, also when two organisations race to create the trace.
THEOREM TenantsIsolated == Spec => []TenantIsolation
<1>1. IInv => TenantIsolation
  BY DEF IInv, OwnerInv, TenantIsolation
<1> QED
  BY <1>1, Invariance, PTL

-----------------------------------------------------------------------------
(* EventChain implements Ledger.                                           *)

Entries(E) ==
    {[trace |-> r.trace, seq |-> r.seq, org |-> r.org, content |-> r.content] : r \in E}

WellFormed ==
    /\ Entries(events) \subseteq Log!Entry
    /\ Log!ForkFree(Entries(events))
    /\ Log!GapFree(Entries(events))
    /\ Log!OneOwner(Entries(events))

\* In a state of the invariant the ledger is well formed.
LEMMA LedgerWellFormed == IInv => WellFormed
<1> SUFFICES ASSUME IInv PROVE WellFormed
  OBVIOUS
<1>1. Entries(events) \subseteq Log!Entry
  BY DEF IInv, TypeInv, TypeOK, TablesOK, RowOK, Entries, Log!Entry
<1>2. Log!ForkFree(Entries(events))
  BY DEF IInv, SlotInv, Entries, Log!ForkFree
<1>3. Log!GapFree(Entries(events))
  <2> DEFINE E(r) == [trace |-> r.trace, seq |-> r.seq, org |-> r.org, content |-> r.content]
  <2> SUFFICES ASSUME NEW e \in Entries(events)
               PROVE  \/ e.seq = 1
                      \/ e.seq > 1 /\ \E d \in Entries(events) : d.trace = e.trace /\ d.seq = e.seq - 1
    BY DEF Log!GapFree
  <2>1. PICK r \in events : e = E(r)
    BY DEF Entries
  <2>2. r.seq \in Nat \ {0} /\ Grounded(events, r.trace, r.seq, r.prev)
    BY DEF IInv, TypeInv, TypeOK, TablesOK, RowOK, LinkInv
  <2>3. CASE r.seq > 1
    <3>1. PICK x \in events : x.trace = r.trace /\ x.seq = r.seq - 1
      BY <2>2, <2>3 DEF Grounded
    <3>2. E(x) \in Entries(events) /\ E(x).trace = e.trace /\ E(x).seq = e.seq - 1
      BY <2>1, <3>1 DEF Entries
    <3> QED
      BY <2>1, <2>3, <3>2
  <2> QED
    BY <2>1, <2>2, <2>3
<1>4. Log!OneOwner(Entries(events))
  BY DEF IInv, OwnerInv, Entries, Log!OneOwner
<1> QED
  BY <1>1, <1>2, <1>3, <1>4 DEF WellFormed

\* Refinement: the committed events form an append-only ledger without forks
\* or gaps, and a request adds all of its events or none.
THEOREM Refinement == Spec => ImplementsLedger
<1>1. Init => Log!Init
  BY DEF Init, Log!Init
<1>2. IInv' => WellFormed'
  BY LedgerWellFormed, PTL
<1>3. IInv' /\ [Next]_vars => [Log!Extend]_(Entries(events))
  <2> SUFFICES ASSUME WellFormed', [Next]_vars PROVE Log!Extend
    BY <1>2
  <2>1. events \subseteq events'
    BY RowSteps DEF Rollback, Commit, Inserts
  <2> QED
    BY <2>1 DEF Log!Extend, WellFormed, Entries
<1> QED
  BY <1>1, <1>3, Invariance, PTL DEF Spec, ImplementsLedger, Log!Spec, Entries
=============================================================================
