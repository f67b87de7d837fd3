----------------------------- MODULE EventChain -----------------------------
(***************************************************************************)
(* The append path of the evidence ledger.                                 *)
(*                                                                         *)
(* Every write request of the API runs in a database transaction of its    *)
(* own, on a worker thread, under PostgreSQL's READ COMMITTED isolation:   *)
(* each statement sees what is committed when it runs plus what its own    *)
(* transaction wrote.  A step below is one statement of a handler (or      *)
(* several adjacent ones that no other commit can tell apart), so all      *)
(* the interleavings of concurrent requests are explored.  An INSERT that  *)
(* meets an uncommitted row with the same key waits for that transaction;  *)
(* it fails with an integrity error, which no handler catches, when that   *)
(* transaction commits, and goes through when it rolls back.               *)
(*                                                                         *)
(* The requests modelled: POST /v1/event (the caller gives seq), /v1/gate  *)
(* (decision and output, seq assigned by the server), /v1/sdk/replay (one  *)
(* transaction over several traces), /v1/erasure, and the provisioning or  *)
(* rotation of an organisation's signing key.                              *)
(***************************************************************************)
EXTENDS Naturals, Sequences, FiniteSets

CONSTANTS Workers,    \* server threads, one request each at a time
          Orgs,       \* organisations
          Traces,     \* trace identifiers a caller may name
          Payloads,   \* redacted payloads a caller may record
          Decision,   \* the payload of the gate's policy_decision event
          None,       \* the NULL of a column that has no value
          MaxSeq,     \* bound: events per trace
          MaxKeys     \* bound: signing keys provisioned per organisation

ASSUME ChainAssumption ==
    /\ None \notin Orgs
    /\ Decision \notin Payloads
    /\ MaxSeq \in Nat
    /\ MaxKeys \in Nat

VARIABLES
    \* the committed database
    owner,    \* traces.org_id, None while the trace does not exist
    events,   \* the events table: a set of rows
    store,    \* payloads with their keys: a status per (org, content)
    keys,     \* signing keys provisioned per org; the last one is active
    \* the request each worker serves
    pc,       \* its next statement
    job,      \* its arguments and what it has read
    prev,     \* hash of the last event as record_event read it
    \* what its transaction has written and not committed
    rows,     \* rows of events
    tx        \* traces created, contents stored, contents shredded

vars == <<owner, events, store, keys, pc, job, prev, rows, tx>>

-----------------------------------------------------------------------------
(* Records and their digests.  SHA-256 and Ed25519 are perfect: a digest   *)
(* determines what was hashed, and a signature the key and the message.    *)

\* The payload of the erasure event for content c.
Note(c) == <<"erasure", c>>

\* What an erasure may target.  Bound: erasing an erasure note is left out.
Erasable == Payloads \cup {Decision}

\* No caller posts the payload of an erasure event as its own.
ASSUME NotesAssumption == \A c \in Erasable : Note(c) \notin Erasable

Contents == Erasable \cup {Note(c) : c \in Erasable}

Sha256(e) == <<"sha256", e>>

Signature(k, h) == <<"ed25519", k, h>>

\* The key an organisation signs with: its newest one, else the service's.
ServiceKey == <<"service", 0>>

SigningKey(o, n) == IF n = 0 THEN ServiceKey ELSE <<o, n>>

\* The fields of a row that are hashed.  Type, policy version, algorithm and
\* time travel with the content: nothing here tells them apart.
Envelope(r) == [trace |-> r.trace, seq |-> r.seq, content |-> r.content, prev |-> r.prev]

Row(t, s, o, c, p, k) ==
    LET e == [trace |-> t, seq |-> s, content |-> c, prev |-> p]
    IN  [trace |-> t, seq |-> s, org |-> o, content |-> c, prev |-> p,
         hash |-> Sha256(e), key |-> k, sig |-> Signature(k, Sha256(e))]

-----------------------------------------------------------------------------
(* What the current statement of worker w can see.                         *)

Visible(w) == events \cup rows[w]

Call(w) == Head(job[w].todo)

\* last_event_for_trace, which also filters on the organisation.
TraceEvents(w, t) == {r \in Visible(w) : r.trace = t /\ r.org = job[w].org}

LastEvent(w, t) ==
    CHOOSE r \in TraceEvents(w, t) : \A x \in TraceEvents(w, t) : x.seq <= r.seq

\* Mutant: numbering starts at 0.
NextSeqFromZero(w, t) == IF TraceEvents(w, t) = {} THEN 0 ELSE LastEvent(w, t).seq + 1

NextSeq(w, t) == IF TraceEvents(w, t) = {} THEN 1 ELSE LastEvent(w, t).seq + 1

\* Mutant: the hash is read before the transaction's own insert is flushed.
LastHashUnflushed(w, t) ==
    LET R == {r \in events : r.trace = t /\ r.org = job[w].org}
    IN  IF R = {} THEN None ELSE (CHOOSE r \in R : \A x \in R : x.seq <= r.seq).hash

LastHash(w, t) == IF TraceEvents(w, t) = {} THEN None ELSE LastEvent(w, t).hash

\* Whether a row with the key worker w is about to write is uncommitted in the
\* transaction of worker v, so that w waits for v.
WaitsFor(w, v) ==
    /\ w # v
    /\ \/ pc[w] = "newtrace" /\ Call(w).trace \in tx[v].traces
       \/ /\ pc[w] = "newstore"
          /\ job[v].org = job[w].org
          /\ Call(w).content \in tx[v].stored
       \/ /\ pc[w] = "insert"
          /\ \E r \in rows[v] : r.trace = Call(w).trace /\ r.seq = job[w].seq
       \/ /\ pc[w] = "shred"
          /\ job[v].org = job[w].org
          /\ job[w].target \in tx[v].shredded

Blocked(w) == \E v \in Workers : WaitsFor(w, v)

-----------------------------------------------------------------------------
(* Requests.                                                               *)

NoJob == [kind |-> "none", org |-> None, todo |-> <<>>, seq |-> 0,
          key |-> ServiceKey, target |-> None]

NoTx == [traces |-> {}, stored |-> {}, shredded |-> {}]

Goto(w, step) == pc' = [pc EXCEPT ![w] = step]

\* The transaction is over and nothing of the request is left on the worker.
Forget(w) ==
    /\ Goto(w, "idle")
    /\ job' = [job EXCEPT ![w] = NoJob]
    /\ prev' = [prev EXCEPT ![w] = None]
    /\ rows' = [rows EXCEPT ![w] = {}]
    /\ tx' = [tx EXCEPT ![w] = NoTx]

Rollback(w) == Forget(w) /\ UNCHANGED <<owner, events, store, keys>>

Accept(w, step, k, o, calls, s) ==
    /\ pc[w] = "idle"
    /\ Goto(w, step)
    /\ job' = [job EXCEPT ![w] = [kind |-> k, org |-> o, todo |-> calls, seq |-> s,
                                   key |-> ServiceKey, target |-> None]]
    /\ UNCHANGED <<owner, events, store, keys, prev, rows, tx>>

\* POST /v1/event: the caller chooses the sequence number.
PostEvent(w, o, t, c, s) ==
    Accept(w, "trace", "event", o, <<[trace |-> t, content |-> c]>>, s)

\* What run_gate records: the decision, if a policy is active to judge the
\* output, then the output.
GateCalls(t, c, judged) ==
    IF judged THEN <<[trace |-> t, content |-> Decision], [trace |-> t, content |-> c]>>
    ELSE <<[trace |-> t, content |-> c]>>

\* POST /v1/gate: one output on one trace.
PostGate(w, o, t, c, judged) ==
    Accept(w, "trace", "gate", o, GateCalls(t, c, judged), 0)

\* POST /v1/sdk/replay: two outputs buffered offline go through run_gate in the
\* caller's order and in one transaction.
PostReplay(w, o, t, u, c, judged) ==
    Accept(w, "trace", "replay", o, GateCalls(t, c, judged) \o GateCalls(u, c, judged), 0)

\* POST /v1/erasure: shred the payload of event s of trace t.
PostErasure(w, o, t, s) ==
    Accept(w, "target", "erasure", o, <<[trace |-> t, content |-> None]>>, s)

-----------------------------------------------------------------------------
(* record_event, statement by statement.                                   *)

ServerAssignsSeq(w) == job[w].kind \in {"gate", "replay"}

AfterTrace(w) == IF ServerAssignsSeq(w) THEN "next" ELSE "tip"

\* Mutant: a request for another organisation's trace waits for it.
FindTraceWaiting(w) ==
    LET t == Call(w).trace
    IN  /\ pc[w] = "trace" /\ owner[t] \in {None, job[w].org}
        /\ Goto(w, IF owner[t] = None /\ t \notin tx[w].traces THEN "newtrace" ELSE AfterTrace(w))
        /\ UNCHANGED <<owner, events, store, keys, job, prev, rows, tx>>

\* get_or_create_trace, the SELECT: another organisation's trace is refused.
FindTrace(w) ==
    LET t == Call(w).trace
    IN  /\ pc[w] = "trace"
        /\ \/ /\ owner[t] \notin {None, job[w].org}
              /\ Rollback(w)
           \/ /\ owner[t] = job[w].org \/ t \in tx[w].traces
              /\ Goto(w, AfterTrace(w))
              /\ UNCHANGED <<owner, events, store, keys, job, prev, rows, tx>>
           \/ /\ owner[t] = None /\ t \notin tx[w].traces
              /\ Goto(w, "newtrace")
              /\ UNCHANGED <<owner, events, store, keys, job, prev, rows, tx>>

\* get_or_create_trace, the INSERT of the trace the SELECT did not find.
CreateTrace(w) ==
    LET t == Call(w).trace
    IN  /\ pc[w] = "newtrace" /\ ~Blocked(w)
        /\ \/ /\ owner[t] # None
              /\ Rollback(w)
           \/ /\ owner[t] = None
              /\ tx' = [tx EXCEPT ![w].traces = @ \cup {t}]
              /\ Goto(w, AfterTrace(w))
              /\ UNCHANGED <<owner, events, store, keys, job, prev, rows>>

\* _next_seq, read by the gate before it calls record_event, and by the
\* erasure again after its first attempt collided.
ReadNextSeq(w) ==
    /\ pc[w] = "next"
    /\ job' = [job EXCEPT ![w].seq = NextSeq(w, Call(w).trace)]
    /\ Goto(w, "tip")
    /\ UNCHANGED <<owner, events, store, keys, prev, rows, tx>>

\* record_event reads the last event and compares seq: a mismatch fails the
\* request, except that an erasure tries once more.
ReadTip(w) ==
    LET n == NextSeq(w, Call(w).trace)
    IN  /\ pc[w] = "tip"
        /\ \/ /\ job[w].seq = n /\ n <= MaxSeq
              /\ prev' = [prev EXCEPT ![w] = LastHash(w, Call(w).trace)]
              /\ Goto(w, "store")
              /\ UNCHANGED <<owner, events, store, keys, job, rows, tx>>
           \/ /\ job[w].seq # n /\ job[w].kind = "erasure"
              /\ job' = [job EXCEPT ![w].kind = "erasure_retry"]
              /\ Goto(w, "next")
              /\ UNCHANGED <<owner, events, store, keys, prev, rows, tx>>
           \/ /\ n > MaxSeq \/ (job[w].seq # n /\ job[w].kind # "erasure")
              /\ Rollback(w)

\* A payload row exists, shredded or not: the primary key (org, payload_hash).
\* Mutant: only a payload that still has its key counts.
PayloadHeld(o, c) == store[o, c] = "held"

PayloadExists(o, c) == store[o, c] # "absent"

\* sign_event_for_org reads the active key, store_encrypted_payload looks for
\* the payload: a row already there is kept, shredded or not.
ReadKeyAndPayload(w) ==
    LET o == job[w].org
        c == Call(w).content
    IN  /\ pc[w] = "store"
        /\ job' = [job EXCEPT ![w].key = SigningKey(o, keys[o])]
        /\ Goto(w, IF PayloadExists(o, c) \/ c \in tx[w].stored THEN "insert" ELSE "newstore")
        /\ UNCHANGED <<owner, events, store, keys, prev, rows, tx>>

\* store_encrypted_payload, the INSERT of payload and key.
InsertPayload(w) ==
    /\ pc[w] = "newstore" /\ ~Blocked(w)
    /\ \/ /\ PayloadExists(job[w].org, Call(w).content)
          /\ Rollback(w)
       \/ /\ ~PayloadExists(job[w].org, Call(w).content)
          /\ tx' = [tx EXCEPT ![w].stored = @ \cup {Call(w).content}]
          /\ Goto(w, "insert")
          /\ UNCHANGED <<owner, events, store, keys, job, prev, rows>>

\* The constraint uq_events_trace_seq.  Mutant: there is none.
SlotNeverTaken(t, s) == FALSE

SlotTaken(t, s) == \E x \in events : x.trace = t /\ x.seq = s

\* What follows an insert.  Mutant: the request ends after its first event.
CommitAfterFirst(rest) == "commit"

AfterInsert(rest) == IF rest = <<>> THEN "commit" ELSE "trace"

\* insert_event, under the constraint uq_events_trace_seq.  Then the next
\* record_event call of the request, if it has one.
InsertEvent(w) ==
    LET j == job[w]
        r == Row(Call(w).trace, j.seq, j.org, Call(w).content, prev[w], j.key)
    IN  /\ pc[w] = "insert" /\ ~Blocked(w)
        /\ \/ /\ SlotTaken(r.trace, r.seq)
              /\ Rollback(w)
           \/ /\ ~SlotTaken(r.trace, r.seq)
              /\ rows' = [rows EXCEPT ![w] = @ \cup {r}]
              /\ job' = [job EXCEPT ![w].todo = Tail(@)]
              /\ Goto(w, AfterInsert(Tail(j.todo)))
              /\ UNCHANGED <<owner, events, store, keys, prev, tx>>

-----------------------------------------------------------------------------
(* erase_event_payload, up to its record_event call.                       *)

\* The reads: the trace is the caller's, the event exists, its payload is
\* there and not erased; the tip read here numbers the erasure event.
FindTarget(w) ==
    LET o == job[w].org
        t == Call(w).trace
    IN  /\ pc[w] = "target"
        /\ \/ \E r \in TraceEvents(w, t) :
                 /\ owner[t] = o
                 /\ r.seq = job[w].seq
                 /\ r.content \in Erasable
                 /\ store[o, r.content] = "held"
                 /\ job' = [job EXCEPT ![w].target = r.content,
                                       ![w].todo = <<[trace |-> t, content |-> Note(r.content)]>>,
                                       ![w].seq = NextSeq(w, t)]
                 /\ Goto(w, "shred")
                 /\ UNCHANGED <<owner, events, store, keys, prev, rows, tx>>
           \/ /\ \/ owner[t] # o
                 \/ \A r \in TraceEvents(w, t) :
                       r.seq = job[w].seq => r.content \notin Erasable \/ store[o, r.content] # "held"
              /\ Rollback(w)

\* Mutant: the erasure event is recorded and the key is kept.
ShredNothing(w) ==
    /\ pc[w] = "shred" /\ ~Blocked(w)
    /\ Goto(w, "trace")
    /\ UNCHANGED <<owner, events, store, keys, job, prev, rows, tx>>

\* crypto_shred_payload: the flush deletes the key and stamps erased_at.  It
\* waits for another eraser of the same payload, and then still goes through:
\* the stamp is written again and a DELETE of no row is no error.
Shred(w) ==
    /\ pc[w] = "shred" /\ ~Blocked(w)
    /\ tx' = [tx EXCEPT ![w].shredded = @ \cup {job[w].target}]
    /\ Goto(w, "trace")
    /\ UNCHANGED <<owner, events, store, keys, job, prev, rows>>

-----------------------------------------------------------------------------
(* The end of a request.                                                   *)

\* The payload table once the transaction of w is committed.
StoreAfter(w) ==
    [p \in Orgs \X Contents |->
        IF p[1] # job[w].org THEN store[p]
        ELSE IF p[2] \in tx[w].shredded THEN "shredded"
        ELSE IF p[2] \in tx[w].stored THEN "held"
        ELSE store[p]]

\* Mutant: erasure removes the erased event from the chain.
CommitRemovingErased(w) ==
    /\ pc[w] = "commit"
    /\ owner' = [t \in Traces |-> IF t \in tx[w].traces THEN job[w].org ELSE owner[t]]
    /\ events' = {r \in events : r.content \notin tx[w].shredded} \cup rows[w]
    /\ store' = StoreAfter(w)
    /\ Forget(w)
    /\ UNCHANGED keys

Commit(w) ==
    /\ pc[w] = "commit"
    /\ owner' = [t \in Traces |-> IF t \in tx[w].traces THEN job[w].org ELSE owner[t]]
    /\ events' = events \cup rows[w]
    /\ store' = StoreAfter(w)
    /\ Forget(w)
    /\ UNCHANGED keys

\* The process dies, the connection drops or a signing key cannot be read
\* (OSError): the transaction is rolled back.
Crash(w) == pc[w] # "idle" /\ Rollback(w)

\* PostgreSQL breaks a cycle of transactions that wait for each other by
\* failing one of them.
DeadlockVictim(w) ==
    /\ \E S \in SUBSET Workers :
          /\ w \in S
          /\ \A v \in S : \E u \in S : WaitsFor(v, u)
          /\ \A u \in S : \E v \in S : WaitsFor(v, u)
    /\ Rollback(w)

\* POST /v1/org/signing-key: a new key becomes the active one, the others are
\* retired but kept.
ProvisionKey(o) ==
    /\ keys[o] < MaxKeys
    /\ keys' = [keys EXCEPT ![o] = @ + 1]
    /\ UNCHANGED <<owner, events, store, pc, job, prev, rows, tx>>

-----------------------------------------------------------------------------
Init ==
    /\ owner = [t \in Traces |-> None]
    /\ events = {}
    /\ store = [p \in Orgs \X Contents |-> "absent"]
    /\ keys = [o \in Orgs |-> 0]
    /\ pc = [w \in Workers |-> "idle"]
    /\ job = [w \in Workers |-> NoJob]
    /\ prev = [w \in Workers |-> None]
    /\ rows = [w \in Workers |-> {}]
    /\ tx = [w \in Workers |-> NoTx]

Request(w) ==
    \E o \in Orgs, t \in Traces :
        \/ \E c \in Payloads, s \in 1..MaxSeq : PostEvent(w, o, t, c, s)
        \/ \E c \in Payloads, judged \in BOOLEAN : PostGate(w, o, t, c, judged)
        \/ \E u \in Traces, c \in Payloads, judged \in BOOLEAN : PostReplay(w, o, t, u, c, judged)
        \/ \E s \in 1..MaxSeq : PostErasure(w, o, t, s)

\* The statements of a request that is being served.
Step(w) ==
    \/ FindTrace(w) \/ CreateTrace(w)
    \/ ReadNextSeq(w) \/ ReadTip(w)
    \/ ReadKeyAndPayload(w) \/ InsertPayload(w) \/ InsertEvent(w)
    \/ FindTarget(w) \/ Shred(w)
    \/ Commit(w) \/ DeadlockVictim(w)

Next ==
    \/ \E w \in Workers : Request(w) \/ Step(w) \/ Crash(w)
    \/ \E o \in Orgs : ProvisionKey(o)

Spec == Init /\ [][Next]_vars

\* A request that is being served keeps running: its worker thread is
\* scheduled, and the database detects deadlocks.  Nothing obliges a client to
\* send a request.
FairSpec == Spec /\ \A w \in Workers : SF_vars(Step(w))

-----------------------------------------------------------------------------
(* Properties.                                                             *)

Steps == {"idle", "trace", "newtrace", "next", "tip", "store", "newstore", "insert",
          "target", "shred", "commit"}

Kinds == {"none", "event", "gate", "replay", "erasure", "erasure_retry"}

Keys == {ServiceKey} \cup (Orgs \X Nat)

Job == [kind : Kinds, org : Orgs \cup {None},
        todo : Seq([trace : Traces, content : Contents \cup {None}]),
        seq : Nat, key : Keys, target : Erasable \cup {None}]

\* A row has the columns of the events table; its digests are what the
\* invariants below are about.
RowOK(r) ==
    /\ r = [trace |-> r.trace, seq |-> r.seq, org |-> r.org, content |-> r.content,
            prev |-> r.prev, hash |-> r.hash, key |-> r.key, sig |-> r.sig]
    /\ r.trace \in Traces /\ r.seq \in 1..MaxSeq /\ r.org \in Orgs
    /\ r.content \in Contents /\ r.key \in Keys

TablesOK ==
    /\ owner \in [Traces -> Orgs \cup {None}]
    /\ \A r \in events : RowOK(r)
    /\ store \in [Orgs \X Contents -> {"absent", "held", "shredded"}]
    /\ keys \in [Orgs -> Nat]

WorkersOK ==
    /\ pc \in [Workers -> Steps]
    /\ job \in [Workers -> Job]
    /\ prev = [w \in Workers |-> prev[w]]
    /\ rows = [w \in Workers |-> rows[w]] /\ \A w \in Workers : \A r \in rows[w] : RowOK(r)
    /\ tx \in [Workers -> [traces : SUBSET Traces, stored : SUBSET Contents,
                           shredded : SUBSET Erasable]]

TypeOK == TablesOK /\ WorkersOK

\* verify_event_chain walks a trace in seq order: a row is verified when its
\* hash recomputes, its signature holds under the key its key id names, and
\* prev_hash is the hash of the row before it.
Before(r) == {x \in events : x.trace = r.trace /\ x.seq < r.seq}

ExpectedPrev(r) ==
    IF Before(r) = {} THEN None
    ELSE (CHOOSE x \in Before(r) : \A y \in Before(r) : y.seq <= x.seq).hash

VerifiedUnder(r, k) ==
    /\ r.hash = Sha256(Envelope(r))
    /\ r.sig = Signature(k, r.hash)
    /\ r.prev = ExpectedPrev(r)

\* Replay of every trace reports all_verified, whatever requests raced to
\* append to it and however often the signing key was rotated.
ReplayVerifies == \A r \in events : VerifiedUnder(r, r.key)

\* A trace carries the sequence numbers 1..n, each once.
SeqsContiguous ==
    \A t \in Traces :
        LET R == {r \in events : r.trace = t}
        IN  {r.seq : r \in R} = 1..Cardinality(R)

\* An event only ever lands in a trace of the organisation that sent it, also
\* when two organisations race to create the same trace id.
TenantIsolation == \A r \in events : owner[r.trace] = r.org

\* The gate's decision is never on the chain without the output it judged,
\* chained directly after it.
OutputFollowsDecision ==
    \A r \in events : r.content = Decision =>
        \E s \in events : s.trace = r.trace /\ s.seq = r.seq + 1 /\ s.content \in Payloads

\* Content is gone exactly when an erasure event says so: the shredding and
\* its evidence are committed together.
ErasureEvidenced ==
    \A o \in Orgs, c \in Erasable :
        store[o, c] = "shredded" <=> \E r \in events : r.org = o /\ r.content = Note(c)

\* Recording the same content again never brings a shredded payload back.
ErasureIsForever ==
    [][\A p \in Orgs \X Contents : store[p] = "shredded" => store'[p] = "shredded"]_vars

\* Every request that is being served ends, whatever it has to wait for.
EveryRequestEnds == \A w \in Workers : pc[w] # "idle" ~> pc[w] = "idle"

\* An erasure is recorded once: of two requests to erase a payload the second
\* is refused.  (Not so when they run at the same time.)
ErasedOnce ==
    \A r, s \in events :
        r.org = s.org /\ r.content = s.content /\ (\E c \in Erasable : r.content = Note(c)) => r = s

\* verify_bundle, which knows one public key, the service's, accepts every
\* exported trace.  (Not so once an organisation has a key of its own.)
BundleVerifies == \A r \in events : VerifiedUnder(r, ServiceKey)

\* The ledger the requests build is append-only, without forks or gaps.
Log == INSTANCE Ledger WITH
    log <- {[trace |-> r.trace, seq |-> r.seq, org |-> r.org, content |-> r.content] : r \in events}

ImplementsLedger == Log!Spec

-----------------------------------------------------------------------------
(* The inductive invariant behind the theorems of EventChainProofs.        *)

\* Every row, committed or not, is hashed and signed as record_event does it.
Digested(r) == r.hash = Sha256(Envelope(r)) /\ r.sig = Signature(r.key, r.hash)

DigestInv ==
    /\ \A r \in events : Digested(r)
    /\ \A w \in Workers : \A r \in rows[w] : Digested(r)

\* A slot (trace, seq) is held by one row, in the table or in one transaction.
SlotInv ==
    /\ \A r, s \in events : r.trace = s.trace /\ r.seq = s.seq => r = s
    /\ \A w \in Workers : \A r \in rows[w], s \in events : ~(r.trace = s.trace /\ r.seq = s.seq)
    /\ \A v, w \in Workers : \A r \in rows[v], s \in rows[w] :
          r.trace = s.trace /\ r.seq = s.seq => v = w /\ r = s

\* In S, slot (t, n) is preceded by every smaller slot of the trace, and h is
\* the hash of the row just before it.
Grounded(S, t, n, h) ==
    /\ n = 1 => h = None
    /\ n > 1 => \E x \in S : x.trace = t /\ x.seq = n - 1 /\ x.hash = h
    /\ \A m \in 1..(n - 1) : \E x \in S : x.trace = t /\ x.seq = m

LinkInv ==
    /\ \A r \in events : Grounded(events, r.trace, r.seq, r.prev)
    /\ \A w \in Workers : \A r \in rows[w] : Grounded(Visible(w), r.trace, r.seq, r.prev)

\* Worker w may write to trace t: its organisation owns it or it created it.
Usable(w, t) == owner[t] = job[w].org \/ t \in tx[w].traces

OwnerInv ==
    /\ \A w \in Workers : \A t \in tx[w].traces : owner[t] = None
    /\ \A v, w \in Workers : v # w => tx[v].traces \cap tx[w].traces = {}
    /\ \A r \in events : owner[r.trace] = r.org
    /\ \A w \in Workers : \A r \in rows[w] : r.org = job[w].org /\ Usable(w, r.trace)

\* What a request holds between its statements.
RequestInv ==
    \A w \in Workers :
        /\ pc[w] = "idle" => rows[w] = {} /\ tx[w] = NoTx
        /\ pc[w] # "idle" => job[w].org \in Orgs
        /\ pc[w] \notin {"idle", "commit"} => job[w].todo # <<>>
        /\ pc[w] \notin {"idle", "target"} =>
              \A i \in DOMAIN job[w].todo : job[w].todo[i].content \in Contents
        /\ pc[w] = "shred" => job[w].target \in Erasable
        /\ pc[w] \in {"store", "newstore", "insert"} => job[w].seq \in 1..MaxSeq

\* record_event, once it has passed its check of seq, still writes to a trace
\* of its organisation and still has the right predecessor: its slot can be
\* taken meanwhile, the rows before it cannot change.
CallOK(w) ==
    /\ pc[w] \in {"next", "tip", "store", "newstore", "insert"} => Usable(w, Call(w).trace)
    /\ pc[w] \in {"store", "newstore", "insert"} =>
          /\ Grounded(Visible(w), Call(w).trace, job[w].seq, prev[w])
          /\ \A r \in rows[w] : r.trace = Call(w).trace => r.seq < job[w].seq

CallInv == \A w \in Workers : CallOK(w)

TypeInv == TypeOK /\ RequestInv

IInv == TypeInv /\ DigestInv /\ SlotInv /\ LinkInv /\ OwnerInv /\ CallInv
=============================================================================
