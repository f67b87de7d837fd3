---------------------------- MODULE FlushBuffer ----------------------------
(***************************************************************************)
(* The SDK's background buffer: application threads enqueue events, a      *)
(* worker thread posts them.  flush() drains the same queue on the calling *)
(* thread; close() puts a sentinel behind what is queued, waits for the    *)
(* worker (up to a timeout) and drains what is left.  A step is one call   *)
(* of queue.Queue, which locks itself, or one HTTP request.                *)
(***************************************************************************)
EXTENDS Naturals, Sequences, FiniteSets, SequencesExt

CONSTANTS Callers,     \* application threads that share the client
          Worker,      \* the thread attest-flush
          Items,       \* events the application records
          Stop,        \* the sentinel
          Nothing,     \* no item
          Capacity     \* max_queue (10000 in the code)

ASSUME BufferAssumption ==
    /\ Worker \notin Callers /\ Stop \notin Items /\ Nothing \notin Items
    /\ Capacity \in Nat \ {0}

VARIABLES
    fifo,       \* the queue
    stopped,    \* self._stopped
    step,       \* each thread's next call
    hand,       \* the item a thread has taken and is posting
    held,       \* the item a caller is about to put
    sent,       \* items the server took
    errors,     \* items whose POST failed: noted in _errors, not retried
    ahead       \* items in the queue when the first sentinel was put

bufVars == <<fifo, stopped, step, hand, held, sent, errors, ahead>>

Threads == Callers \cup {Worker}

BufGoto(t, s) == step' = [step EXCEPT ![t] = s]

HasRoom == Len(fifo) < Capacity

\* Items that enqueue has been called with.
Offered == sent \cup errors \cup Range(fifo) \cup {hand[t] : t \in Threads}
                \cup {held[t] : t \in Callers}

-----------------------------------------------------------------------------
(* Application threads.                                                    *)

\* record_event or precheck_smart with a buffer.  enqueue refuses once the
\* buffer is closed; it reads the flag before it puts.
CallEnqueue(t, i) ==
    /\ step[t] = "idle" /\ ~stopped /\ i \notin Offered
    /\ held' = [held EXCEPT ![t] = i]
    /\ BufGoto(t, "put")
    /\ UNCHANGED <<fifo, stopped, hand, sent, errors, ahead>>

\* queue.put: it waits while the queue is full.
Put(t) ==
    /\ step[t] = "put" /\ HasRoom
    /\ fifo' = Append(fifo, held[t])
    /\ held' = [held EXCEPT ![t] = Nothing]
    /\ BufGoto(t, "idle")
    /\ UNCHANGED <<stopped, hand, sent, errors, ahead>>

CallFlush(t) ==
    /\ step[t] = "idle"
    /\ BufGoto(t, "flush")
    /\ UNCHANGED <<fifo, stopped, hand, held, sent, errors, ahead>>

CallClose(t) ==
    /\ step[t] = "idle"
    /\ stopped' = TRUE
    /\ BufGoto(t, "sentinel")
    /\ UNCHANGED <<fifo, hand, held, sent, errors, ahead>>

PutSentinel(t) ==
    /\ step[t] = "sentinel" /\ HasRoom
    /\ fifo' = Append(fifo, Stop)
    /\ ahead' = IF ahead = {Nothing} THEN Range(fifo) \ {Stop} ELSE ahead
    /\ BufGoto(t, "join")
    /\ UNCHANGED <<stopped, hand, held, sent, errors>>

\* Mutant: close returns as soon as the worker was joined.
AfterJoinEarly(t) == "closed"

\* close() then drains the queue itself.
AfterJoin(t) == "drain"

\* worker.join returns when the worker has ended or the timeout has passed.
Join(t) ==
    /\ step[t] = "join"
    /\ BufGoto(t, AfterJoin(t))
    /\ UNCHANGED <<fifo, stopped, hand, held, sent, errors, ahead>>

\* flush_sync ends: flush() returns, or close() does.
AfterDrain(t) == IF step[t] = "drain" THEN "closed" ELSE "idle"

\* What get() returns within its timeout; nothing ends the drain like a sentinel.
NextItem == IF fifo = <<>> THEN Stop ELSE Head(fifo)

\* Mutant: flush_sync walks the queue and leaves the items to the worker.
Peeked(q) == q

\* The queue after get().
Taken(q) == IF q = <<>> THEN q ELSE Tail(q)

\* flush_sync takes one item; an empty queue or a sentinel ends it.
FlushTake(t) ==
    /\ step[t] \in {"flush", "drain"} /\ hand[t] = Nothing
    /\ \/ /\ NextItem # Stop
          /\ hand' = [hand EXCEPT ![t] = NextItem]
          /\ UNCHANGED step
       \/ /\ NextItem = Stop
          /\ BufGoto(t, AfterDrain(t))
          /\ UNCHANGED hand
    /\ fifo' = Taken(fifo)
    /\ UNCHANGED <<stopped, held, sent, errors, ahead>>

-----------------------------------------------------------------------------
(* The worker and the posts.                                               *)

\* _run: wait for an item; a sentinel ends the thread.
WorkerTake ==
    /\ step[Worker] = "run" /\ hand[Worker] = Nothing /\ fifo # <<>>
    /\ \/ /\ Head(fifo) = Stop
          /\ BufGoto(Worker, "ended")
          /\ UNCHANGED hand
       \/ /\ Head(fifo) # Stop
          /\ hand' = [hand EXCEPT ![Worker] = Head(fifo)]
          /\ UNCHANGED step
    /\ fifo' = Tail(fifo)
    /\ UNCHANGED <<stopped, held, sent, errors, ahead>>

\* What becomes of the thread when flush_fn raises: it goes on.
\* Mutant: the exception ends it.
DiesOnError(t) == [step EXCEPT ![t] = "ended"]

SurvivesError(t) == step

\* _flush_item answers or raises within its timeout; either way the item is
\* done with.
FlushItem(t) ==
    /\ hand[t] # Nothing
    /\ hand' = [hand EXCEPT ![t] = Nothing]
    /\ \/ sent' = sent \cup {hand[t]} /\ UNCHANGED <<errors, step>>
       \/ errors' = errors \cup {hand[t]} /\ step' = SurvivesError(t) /\ UNCHANGED sent
    /\ UNCHANGED <<fifo, stopped, held, ahead>>

-----------------------------------------------------------------------------
BufInit ==
    /\ fifo = <<>> /\ stopped = FALSE
    /\ step = [t \in Threads |-> IF t = Worker THEN "run" ELSE "idle"]
    /\ hand = [t \in Threads |-> Nothing]
    /\ held = [t \in Callers |-> Nothing]
    /\ sent = {} /\ errors = {}
    /\ ahead = {Nothing}

Consume(t) == (t \in Callers /\ FlushTake(t)) \/ (t = Worker /\ WorkerTake) \/ FlushItem(t)

Close(t) == PutSentinel(t) \/ Join(t)

BufNext ==
    \/ \E t \in Callers : \/ \E i \in Items : CallEnqueue(t, i)
                          \/ Put(t) \/ CallFlush(t) \/ CallClose(t) \/ Close(t)
    \/ \E t \in Threads : Consume(t)

\* Threads are scheduled and posts end by their timeout.  Weak fairness of the
\* puts is enough: what can fill the queue again and again is finite.
BufFairness ==
    /\ \A t \in Threads : WF_bufVars(Consume(t))
    /\ \A t \in Callers : WF_bufVars(Close(t)) /\ WF_bufVars(Put(t))

BufSpec == BufInit /\ [][BufNext]_bufVars /\ BufFairness

-----------------------------------------------------------------------------
(* Properties.                                                             *)

\* How many places hold item i.
Copies(i) ==
    Cardinality({k \in 1..Len(fifo) : fifo[k] = i}) + Cardinality({t \in Threads : hand[t] = i})
    + Cardinality({t \in Callers : held[t] = i})
    + (IF i \in sent THEN 1 ELSE 0) + (IF i \in errors THEN 1 ELSE 0)

\* However many threads consume the queue, an item is never posted twice and
\* never in two places.
PostedOnce == \A i \in Items : Copies(i) <= 1

\* close() leaves nothing behind that was queued before it: when it returns,
\* those items were posted, or another thread is posting them, also when a
\* flush() took the sentinel and the worker never saw it.
CloseDrains ==
    (\E t \in Callers : step[t] = "closed") => Range(fifo) \cap ahead = {}

\* "Never block the hot path" (buffer.py on the queue): a thread that records an
\* event finds room for it.  (Not so when the queue is full.)
HotPathNeverBlocks == \A t \in Callers : step[t] = "put" => HasRoom

\* The threads inside close().
Closing == {t \in Callers : step[t] \in {"sentinel", "join", "drain"}}

\* close() returns, also when the queue is full and posts fail.
CloseReturns == Closing # {} ~> Closing = {}
=============================================================================
