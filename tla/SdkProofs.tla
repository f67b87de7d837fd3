------------------------------ MODULE SdkProofs ------------------------------
(***************************************************************************)
(* The SDK's two stores, for any number of clients, callers and records.   *)
(*                                                                         *)
(* Flush buffer: an item is in one place at a time (the queue, a caller's  *)
(* or the worker's hands, posted or failed), and every sentinel of close() *)
(* is behind what was put before the first.                                *)
(*                                                                         *)
(* Offline store: the queue file holds the records made last, each linked  *)
(* to the one before it, and a client that drains has read what the file   *)
(* still starts with, as long as no two clients use it at the same time    *)
(* (OneClientAtATime).                                                     *)
(***************************************************************************)
EXTENDS FlushBuffer, OfflineSdk, FiniteSetTheorems, FunctionTheorems, SequenceTheorems, TLAPS

-----------------------------------------------------------------------------
(* The flush buffer: the invariant.                                        *)

BufSteps == {"idle", "put", "flush", "sentinel", "join", "drain", "closed", "run", "ended"}

BufTypeOK ==
    /\ fifo \in Seq(Items \cup {Stop})
    /\ stopped \in BOOLEAN
    /\ step \in [Threads -> BufSteps]
    /\ hand \in [Threads -> Items \cup {Nothing}]
    /\ held \in [Callers -> Items \cup {Nothing}]
    /\ sent \subseteq Items /\ errors \subseteq Items
    /\ ahead = {Nothing} \/ ahead \subseteq Items

\* A caller inside queue.put has an item to put.
PutHolds == \A t \in Callers : step[t] = "put" => held[t] \in Items

\* The places an item can be in.
InFifo(i) == \E k \in 1..Len(fifo) : fifo[k] = i
InHand(i) == \E t \in Threads : hand[t] = i
IsHeld(i) == \E t \in Callers : held[t] = i
Over(i)   == i \in sent \/ i \in errors

\* No kind of place holds an item twice,
UniqueInKind ==
    /\ \A j, k \in 1..Len(fifo) : fifo[j] \in Items /\ fifo[j] = fifo[k] => j = k
    /\ \A t, u \in Threads : hand[t] \in Items /\ hand[t] = hand[u] => t = u
    /\ \A t, u \in Callers : held[t] \in Items /\ held[t] = held[u] => t = u

\* and no two kinds hold the same.
OneKind ==
    \A i \in Items :
        /\ InFifo(i) => ~InHand(i) /\ ~IsHeld(i) /\ ~Over(i)
        /\ InHand(i) => ~IsHeld(i) /\ ~Over(i)
        /\ IsHeld(i) => ~Over(i)
        /\ ~(i \in sent /\ i \in errors)

\* Before the first sentinel nobody is behind it.
NoSentinelYet ==
    ahead = {Nothing} =>
        /\ ~InFifo(Stop)
        /\ \A t \in Callers : step[t] \notin {"join", "drain", "closed"}

\* Afterwards every sentinel is behind the items that were ahead of the first,
\* and these are on their way or done with.
SentinelBehind ==
    ahead # {Nothing} =>
        /\ \A j, k \in 1..Len(fifo) : fifo[j] = Stop /\ fifo[k] \in ahead => k < j
        /\ \A i \in ahead : InFifo(i) \/ InHand(i) \/ Over(i)

\* A close that returned left nothing of it in the queue.
ClosedIsDrained ==
    \A t \in Callers : step[t] = "closed" => \A k \in 1..Len(fifo) : fifo[k] \notin ahead

BufInv ==
    /\ BufTypeOK /\ PutHolds /\ UniqueInKind /\ OneKind
    /\ NoSentinelYet /\ SentinelBehind /\ ClosedIsDrained

-----------------------------------------------------------------------------
LEMMA AppendFacts ==
    ASSUME NEW S, NEW q \in Seq(S), NEW x \in S
    PROVE  /\ Append(q, x) \in Seq(S) /\ Len(Append(q, x)) = Len(q) + 1
           /\ \A k \in 1..Len(q) : Append(q, x)[k] = q[k]
           /\ Append(q, x)[Len(q) + 1] = x
OBVIOUS

LEMMA TailFacts ==
    ASSUME NEW S, NEW q \in Seq(S), q # <<>>
    PROVE  /\ Tail(q) \in Seq(S) /\ Len(Tail(q)) = Len(q) - 1 /\ Len(q) \in Nat \ {0}
           /\ \A k \in 1..(Len(q) - 1) : Tail(q)[k] = q[k + 1]
           /\ Head(q) = q[1] /\ Head(q) \in S
OBVIOUS

LEMMA BufInitInv == BufInit => BufInv
<1> SUFFICES ASSUME BufInit PROVE BufInv
  OBVIOUS
<1> USE BufferAssumption DEF BufInit
<1>1. BufTypeOK
  <2>1. step \in [Threads -> BufSteps]
    BY DEF BufSteps
  <2>2. hand \in [Threads -> Items \cup {Nothing}] /\ held \in [Callers -> Items \cup {Nothing}]
    OBVIOUS
  <2>3. fifo \in Seq(Items \cup {Stop})
    OBVIOUS
  <2>4. stopped \in BOOLEAN /\ sent \subseteq Items /\ errors \subseteq Items
    OBVIOUS
  <2> QED BY <2>1, <2>2, <2>3, <2>4 DEF BufTypeOK
<1>2. PutHolds
  BY DEF PutHolds, Threads
<1>3. UniqueInKind /\ OneKind
  BY DEF UniqueInKind, OneKind, InFifo, InHand, IsHeld, Over
<1>4. NoSentinelYet /\ SentinelBehind /\ ClosedIsDrained
  BY DEF NoSentinelYet, SentinelBehind, ClosedIsDrained, InFifo, Threads
<1> QED BY <1>1, <1>2, <1>3, <1>4 DEF BufInv

LEMMA EnqueueKeepsInv ==
    ASSUME BufInv, NEW t \in Callers, NEW i \in Items, CallEnqueue(t, i)
    PROVE  BufInv'
<1> USE BufferAssumption DEF CallEnqueue, BufGoto
<1>1. BufTypeOK'
  BY DEF BufInv, BufTypeOK, BufSteps
<1>2. PutHolds'
  BY DEF BufInv, BufTypeOK, PutHolds, Threads
<1>3. ~InFifo(i) /\ ~InHand(i) /\ ~IsHeld(i) /\ ~Over(i)
  BY DEF Offered, Range, InFifo, InHand, IsHeld, Over, BufInv, BufTypeOK
<1>4. UniqueInKind'
  BY <1>3 DEF BufInv, BufTypeOK, UniqueInKind, IsHeld
<1>5. \A j \in Items : IsHeld(j)' => IsHeld(j) \/ j = i
  BY DEF BufInv, BufTypeOK, IsHeld
<1>6. OneKind'
  BY <1>3, <1>5 DEF BufInv, OneKind, InFifo, InHand, Over
<1>7. NoSentinelYet' /\ ClosedIsDrained'
  BY DEF BufInv, BufTypeOK, NoSentinelYet, ClosedIsDrained, InFifo, Threads
<1>8. SentinelBehind'
  BY DEF BufInv, SentinelBehind, InFifo, InHand, Over
<1> QED BY <1>1, <1>2, <1>4, <1>6, <1>7, <1>8 DEF BufInv

LEMMA PutKeepsInv ==
    ASSUME BufInv, NEW t \in Callers, Put(t)
    PROVE  BufInv'
<1> USE BufferAssumption
<1> DEFINE i == held[t]
<1>1. i \in Items /\ IsHeld(i)
  BY DEF BufInv, PutHolds, Put, IsHeld
<1>2. fifo' = Append(fifo, i) /\ held' = [held EXCEPT ![t] = Nothing]
      /\ step' = [step EXCEPT ![t] = "idle"] /\ UNCHANGED <<stopped, hand, sent, errors, ahead>>
  BY DEF Put, BufGoto
<1>3. /\ fifo' \in Seq(Items \cup {Stop}) /\ Len(fifo') = Len(fifo) + 1 /\ Len(fifo) \in Nat
      /\ \A k \in 1..Len(fifo) : fifo'[k] = fifo[k]
      /\ fifo'[Len(fifo) + 1] = i
  BY <1>1, <1>2, AppendFacts DEF BufInv, BufTypeOK
<1>4. ~InFifo(i) /\ ~InHand(i) /\ ~Over(i)
  BY <1>1 DEF BufInv, OneKind
<1> HIDE DEF i
<1>5. BufTypeOK'
  BY <1>2, <1>3 DEF BufInv, BufTypeOK, BufSteps
<1>6. PutHolds'
  BY <1>2 DEF BufInv, BufTypeOK, PutHolds, Threads
<1>7. \A j : InFifo(j)' <=> InFifo(j) \/ j = i
  BY <1>3 DEF InFifo
<1>8. \A j \in Items : IsHeld(j)' => IsHeld(j) /\ j # i
  BY <1>1, <1>2 DEF BufInv, BufTypeOK, IsHeld, UniqueInKind, i
<1>9. UniqueInKind'
  <2>1. \A j, k \in 1..Len(fifo') : fifo'[j] \in Items /\ fifo'[j] = fifo'[k] => j = k
    BY <1>3, <1>4 DEF InFifo, BufInv, UniqueInKind
  <2>2. \A u, v \in Callers : held'[u] \in Items /\ held'[u] = held'[v] => u = v
    BY <1>2 DEF BufInv, BufTypeOK, UniqueInKind
  <2> QED BY <2>1, <2>2, <1>2 DEF BufInv, UniqueInKind
<1>10. OneKind'
  BY <1>2, <1>4, <1>7, <1>8 DEF BufInv, OneKind, InHand, Over
<1>11. NoSentinelYet'
  BY <1>1, <1>2, <1>7 DEF BufInv, BufTypeOK, NoSentinelYet, Threads
<1>12. ahead # {Nothing} => i \notin ahead
  BY <1>4 DEF BufInv, SentinelBehind
<1>13. SentinelBehind'
  <2>1. ASSUME ahead' # {Nothing}, NEW j \in 1..Len(fifo'), NEW k \in 1..Len(fifo'),
               fifo'[j] = Stop, fifo'[k] \in ahead'
        PROVE  k < j
    BY <1>1, <1>2, <1>3, <1>12, <2>1 DEF BufInv, SentinelBehind
  <2>2. ahead' # {Nothing} => \A j \in ahead' : (InFifo(j) \/ InHand(j) \/ Over(j))'
    BY <1>2, <1>7 DEF BufInv, SentinelBehind, InHand, Over
  <2> QED BY <2>1, <2>2 DEF SentinelBehind
<1>14. ClosedIsDrained'
  <2>1. ASSUME NEW u \in Callers, step'[u] = "closed", NEW k \in 1..Len(fifo') PROVE fifo'[k] \notin ahead'
    <3>1. step[u] = "closed"
      BY <1>2, <2>1 DEF BufInv, BufTypeOK, Threads
    <3>2. ahead # {Nothing}
      BY <3>1 DEF BufInv, NoSentinelYet
    <3> QED BY <1>2, <1>3, <1>12, <3>1, <3>2 DEF BufInv, ClosedIsDrained
  <2> QED BY <2>1 DEF ClosedIsDrained
<1> QED BY <1>5, <1>6, <1>9, <1>10, <1>11, <1>13, <1>14 DEF BufInv

\* A thread takes the head of the queue: an item goes to its hand, a sentinel
\* moves it on to step s.
LEMMA TakeKeepsInv ==
    ASSUME BufInv, NEW t \in Threads, NEW s \in {"idle", "closed", "ended"},
           hand[t] = Nothing, fifo # <<>>, fifo' = Tail(fifo),
           UNCHANGED <<stopped, held, sent, errors, ahead>>,
           \/ Head(fifo) # Stop /\ hand' = [hand EXCEPT ![t] = Head(fifo)] /\ UNCHANGED step
           \/ Head(fifo) = Stop /\ step' = [step EXCEPT ![t] = s] /\ UNCHANGED hand
    PROVE  BufInv'
<1> USE BufferAssumption
<1>0. PICK i : i = Head(fifo)
  OBVIOUS
<1>1. /\ fifo' \in Seq(Items \cup {Stop}) /\ Len(fifo') = Len(fifo) - 1 /\ Len(fifo) \in Nat \ {0}
      /\ \A k \in 1..Len(fifo') : k + 1 \in 1..Len(fifo) /\ fifo'[k] = fifo[k + 1]
      /\ i = fifo[1] /\ i \in Items \cup {Stop}
  BY <1>0, TailFacts DEF BufInv, BufTypeOK
<1>2. \A j \in Items : InFifo(j) => InFifo(j)' \/ j = i
  <2>1. \A k \in 1..Len(fifo) : k # 1 => k - 1 \in 1..Len(fifo') /\ fifo'[k - 1] = fifo[k]
    BY <1>1
  <2> QED BY <2>1, <1>1 DEF InFifo
<1>3. \A j : InFifo(j)' => InFifo(j)
  BY <1>1 DEF InFifo
<1>4. i \in Items => ~InFifo(i)'
  <2> SUFFICES ASSUME i \in Items, NEW k \in 1..Len(fifo'), fifo'[k] = i PROVE FALSE
    BY DEF InFifo
  <2>1. k + 1 \in 1..Len(fifo) /\ fifo[k + 1] = fifo[1] /\ fifo[1] \in Items /\ 1 \in 1..Len(fifo)
    BY <1>1
  <2>2. k + 1 = 1
    BY <2>1 DEF BufInv, UniqueInKind
  <2> QED BY <2>2
<1>5. InFifo(i)
  BY <1>1 DEF InFifo
<1>6. i \in Items => ~InHand(i) /\ ~IsHeld(i) /\ ~Over(i)
  BY <1>5 DEF BufInv, OneKind
<1>7. BufTypeOK'
  <2>1. hand' \in [Threads -> Items \cup {Nothing}]
    BY <1>0, <1>1 DEF BufInv, BufTypeOK
  <2>2. step' \in [Threads -> BufSteps]
    BY DEF BufInv, BufTypeOK, BufSteps
  <2>3. stopped \in BOOLEAN /\ held \in [Callers -> Items \cup {Nothing}]
        /\ sent \subseteq Items /\ errors \subseteq Items
        /\ (ahead = {Nothing} \/ ahead \subseteq Items)
    BY DEF BufInv, BufTypeOK
  <2> QED BY <1>1, <2>1, <2>2, <2>3 DEF BufTypeOK
<1>8. PutHolds'
  BY DEF BufInv, BufTypeOK, PutHolds, Threads
<1>9. UniqueInKind'
  <2>1. \A j, k \in 1..Len(fifo') : fifo'[j] \in Items /\ fifo'[j] = fifo'[k] => j = k
    <3> SUFFICES ASSUME NEW j \in 1..Len(fifo'), NEW k \in 1..Len(fifo'),
                        fifo'[j] \in Items, fifo'[j] = fifo'[k]
                 PROVE  j = k
      OBVIOUS
    <3>1. j + 1 = k + 1
      BY <1>1 DEF BufInv, UniqueInKind
    <3> QED BY <3>1, <1>1
  <2>2. \A u, v \in Threads : hand'[u] \in Items /\ hand'[u] = hand'[v] => u = v
    BY <1>0, <1>6 DEF BufInv, BufTypeOK, UniqueInKind, InHand
  <2> QED BY <2>1, <2>2 DEF BufInv, UniqueInKind
<1>10. \A j \in Items : InHand(j)' => InHand(j) \/ (j = i /\ i \in Items)
  BY <1>0 DEF BufInv, BufTypeOK, InHand
<1>11. OneKind'
  BY <1>3, <1>4, <1>6, <1>10 DEF BufInv, OneKind, IsHeld, Over
<1>12. i = Stop => ahead # {Nothing}
  BY <1>5 DEF BufInv, NoSentinelYet
<1>13. NoSentinelYet'
  BY <1>0, <1>3, <1>12 DEF BufInv, NoSentinelYet
<1>14. SentinelBehind'
  <2> SUFFICES ASSUME ahead # {Nothing} PROVE SentinelBehind'
    BY DEF SentinelBehind
  <2>1. ASSUME NEW j \in 1..Len(fifo'), NEW k \in 1..Len(fifo'), fifo'[j] = Stop, fifo'[k] \in ahead
        PROVE  k < j
    <3>1. k + 1 < j + 1
      BY <1>1, <2>1 DEF BufInv, SentinelBehind
    <3> QED BY <3>1, <1>1
  <2>2. ahead \subseteq Items
    BY DEF BufInv, BufTypeOK
  <2>3. ASSUME NEW j \in ahead PROVE (InFifo(j) \/ InHand(j) \/ Over(j))'
    <3>1. InFifo(j) \/ InHand(j) \/ Over(j)
      BY DEF BufInv, SentinelBehind
    <3>2. InFifo(j) => InFifo(j)' \/ j = i
      BY <1>2, <2>2
    <3>3. j = i => InHand(j)'
      BY <1>0, <2>2 DEF InHand, BufInv, BufTypeOK
    <3>4. InHand(j) => InHand(j)'
      BY <2>2 DEF InHand, BufInv, BufTypeOK
    <3>5. Over(j) => Over(j)'
      BY DEF Over
    <3> QED BY <3>1, <3>2, <3>3, <3>4, <3>5
  <2> QED BY <2>1, <2>3 DEF SentinelBehind
<1>15. ClosedIsDrained'
  <2> SUFFICES ASSUME NEW u \in Callers, step'[u] = "closed", NEW k \in 1..Len(fifo')
               PROVE  fifo'[k] \notin ahead
    BY DEF ClosedIsDrained
  <2>1. CASE step[u] = "closed"
    BY <1>1, <2>1 DEF BufInv, ClosedIsDrained
  <2>2. CASE step[u] # "closed"
    <3>1. i = Stop
      BY <1>0, <2>2
    <3>2. \A m \in 1..Len(fifo) : fifo[m] \in ahead => m < 1
      <4>1. 1 \in 1..Len(fifo) /\ fifo[1] = Stop
        BY <1>1, <3>1
      <4> QED BY <1>12, <3>1, <4>1 DEF BufInv, SentinelBehind
    <3> QED BY <3>2, <1>1
  <2> QED BY <2>1, <2>2
<1> QED BY <1>7, <1>8, <1>9, <1>11, <1>13, <1>14, <1>15 DEF BufInv

\* A step that moves one thread on and touches no item.
LEMMA GotoKeepsInv ==
    ASSUME BufInv, NEW t \in Threads, NEW s \in BufSteps \ {"put"},
           step' = [step EXCEPT ![t] = s],
           s \in {"join", "drain", "closed"} => ahead # {Nothing},
           s = "closed" => fifo = <<>>,
           stopped' \in BOOLEAN, UNCHANGED <<fifo, hand, held, sent, errors, ahead>>
    PROVE  BufInv'
<1> USE BufferAssumption
<1>1. BufTypeOK'
  BY DEF BufInv, BufTypeOK, BufSteps
<1>2. PutHolds'
  BY DEF BufInv, BufTypeOK, PutHolds, Threads
<1>3. UniqueInKind' /\ OneKind'
  BY DEF BufInv, UniqueInKind, OneKind, InFifo, InHand, IsHeld, Over
<1>4. NoSentinelYet'
  BY DEF BufInv, BufTypeOK, NoSentinelYet, InFifo
<1>5. SentinelBehind'
  BY DEF BufInv, SentinelBehind, InFifo, InHand, Over
<1>6. ClosedIsDrained'
  BY DEF BufInv, BufTypeOK, ClosedIsDrained
<1> QED BY <1>1, <1>2, <1>3, <1>4, <1>5, <1>6 DEF BufInv

LEMMA PutSentinelKeepsInv ==
    ASSUME BufInv, NEW t \in Callers, PutSentinel(t)
    PROVE  BufInv'
<1> USE BufferAssumption
<1>1. /\ fifo' = Append(fifo, Stop) /\ step' = [step EXCEPT ![t] = "join"]
      /\ ahead' = IF ahead = {Nothing} THEN Range(fifo) \ {Stop} ELSE ahead
      /\ UNCHANGED <<stopped, hand, held, sent, errors>>
  BY DEF PutSentinel, BufGoto
<1>2. /\ fifo' \in Seq(Items \cup {Stop}) /\ Len(fifo') = Len(fifo) + 1 /\ Len(fifo) \in Nat
      /\ \A k \in 1..Len(fifo) : fifo'[k] = fifo[k]
      /\ fifo'[Len(fifo) + 1] = Stop
  BY <1>1, AppendFacts DEF BufInv, BufTypeOK
<1>3. \A i : InFifo(i)' <=> InFifo(i) \/ i = Stop
  BY <1>2 DEF InFifo
<1>4. \A i : i \in Range(fifo) <=> InFifo(i)
  BY DEF Range, InFifo, BufInv, BufTypeOK
<1>5. Range(fifo) \subseteq Items \cup {Stop}
  BY DEF Range, BufInv, BufTypeOK
<1>6. ahead' \subseteq Items /\ ahead' # {Nothing}
  BY <1>1, <1>5 DEF BufInv, BufTypeOK
<1>7. BufTypeOK'
  BY <1>1, <1>2, <1>6 DEF BufInv, BufTypeOK, BufSteps
<1>8. PutHolds'
  BY <1>1 DEF BufInv, BufTypeOK, PutHolds, Threads
<1>9. UniqueInKind'
  <2>1. \A j, k \in 1..Len(fifo') : fifo'[j] \in Items /\ fifo'[j] = fifo'[k] => j = k
    BY <1>2 DEF BufInv, UniqueInKind
  <2> QED BY <2>1, <1>1 DEF BufInv, UniqueInKind
<1>10. OneKind'
  BY <1>1, <1>3 DEF BufInv, OneKind, InHand, IsHeld, Over
<1>11. NoSentinelYet'
  BY <1>6 DEF NoSentinelYet
<1>12. SentinelBehind'
  <2>1. ASSUME NEW j \in 1..Len(fifo'), NEW k \in 1..Len(fifo'), fifo'[j] = Stop, fifo'[k] \in ahead'
        PROVE  k < j
    <3>1. k # Len(fifo) + 1
      BY <1>2, <1>6, <2>1
    <3>2. CASE j = Len(fifo) + 1
      BY <3>1, <3>2, <1>2
    <3>3. CASE j # Len(fifo) + 1 /\ ahead # {Nothing}
      BY <3>1, <3>3, <1>1, <1>2, <2>1 DEF BufInv, SentinelBehind
    <3>4. CASE j # Len(fifo) + 1 /\ ahead = {Nothing}
      BY <3>4, <1>2, <2>1 DEF BufInv, NoSentinelYet, InFifo
    <3> QED BY <3>2, <3>3, <3>4
  <2>2. ASSUME NEW i \in ahead' PROVE (InFifo(i) \/ InHand(i) \/ Over(i))'
    <3>1. CASE ahead = {Nothing}
      BY <3>1, <1>1, <1>3, <1>4
    <3>2. CASE ahead # {Nothing}
      BY <3>2, <1>1, <1>3 DEF BufInv, SentinelBehind, InHand, Over
    <3> QED BY <3>1, <3>2
  <2> QED BY <2>1, <2>2 DEF SentinelBehind
<1>13. ClosedIsDrained'
  <2> SUFFICES ASSUME NEW u \in Callers, step'[u] = "closed", NEW k \in 1..Len(fifo')
               PROVE  fifo'[k] \notin ahead'
    BY DEF ClosedIsDrained
  <2>1. step[u] = "closed"
    BY <1>1 DEF BufInv, BufTypeOK
  <2>2. ahead # {Nothing}
    BY <2>1 DEF BufInv, NoSentinelYet
  <2>3. ahead' = ahead
    BY <1>1, <2>2
  <2> QED BY <2>1, <2>3, <1>2, <1>6 DEF BufInv, ClosedIsDrained
<1> QED BY <1>7, <1>8, <1>9, <1>10, <1>11, <1>12, <1>13 DEF BufInv

LEMMA FlushItemKeepsInv ==
    ASSUME BufInv, NEW t \in Threads, FlushItem(t)
    PROVE  BufInv'
<1> USE BufferAssumption
<1> DEFINE i == hand[t]
<1>1. i \in Items /\ InHand(i)
  BY DEF BufInv, BufTypeOK, FlushItem, InHand
<1>2. /\ hand' = [hand EXCEPT ![t] = Nothing] /\ UNCHANGED <<fifo, stopped, held, ahead, step>>
      /\ \/ sent' = sent \cup {i} /\ errors' = errors
         \/ errors' = errors \cup {i} /\ sent' = sent
  BY DEF FlushItem, SurvivesError
<1>3. ~InFifo(i) /\ ~IsHeld(i) /\ ~Over(i)
  BY <1>1 DEF BufInv, OneKind
<1>4. \A j \in Items : InHand(j)' <=> InHand(j) /\ j # i
  BY <1>1, <1>2 DEF BufInv, BufTypeOK, InHand, UniqueInKind
<1> HIDE DEF i
<1>5. \A j : Over(j)' <=> Over(j) \/ j = i
  BY <1>2 DEF Over
<1>6. BufTypeOK'
  BY <1>1, <1>2 DEF BufInv, BufTypeOK, BufSteps
<1>7. PutHolds' /\ ClosedIsDrained'
  BY <1>2 DEF BufInv, PutHolds, ClosedIsDrained
<1>8. UniqueInKind'
  <2>1. \A u, v \in Threads : hand'[u] \in Items /\ hand'[u] = hand'[v] => u = v
    BY <1>2 DEF BufInv, BufTypeOK, UniqueInKind
  <2> QED BY <1>2, <2>1 DEF BufInv, UniqueInKind
<1>9. OneKind'
  BY <1>2, <1>3, <1>4, <1>5 DEF BufInv, OneKind, InFifo, IsHeld, Over
<1>10. NoSentinelYet'
  BY <1>2 DEF BufInv, NoSentinelYet, InFifo
<1>11. SentinelBehind'
  <2>1. ahead # {Nothing} => ahead \subseteq Items
    BY DEF BufInv, BufTypeOK
  <2> QED BY <1>2, <1>4, <1>5, <2>1 DEF BufInv, SentinelBehind, InFifo
<1> QED BY <1>6, <1>7, <1>8, <1>9, <1>10, <1>11 DEF BufInv

LEMMA BufNextInv == BufInv /\ [BufNext]_bufVars => BufInv'
<1> SUFFICES ASSUME BufInv, [BufNext]_bufVars PROVE BufInv'
  OBVIOUS
<1>1. CASE UNCHANGED bufVars
  BY <1>1 DEF bufVars, BufInv, BufTypeOK, PutHolds, UniqueInKind, OneKind, NoSentinelYet, SentinelBehind,
              ClosedIsDrained, InFifo, InHand, IsHeld, Over
<1>2. ASSUME NEW t \in Callers, NEW i \in Items, CallEnqueue(t, i) PROVE BufInv'
  BY <1>2, EnqueueKeepsInv
<1>3. ASSUME NEW t \in Callers, Put(t) PROVE BufInv'
  BY <1>3, PutKeepsInv
<1>4. ASSUME NEW t \in Callers, CallFlush(t) PROVE BufInv'
  BY <1>4, GotoKeepsInv DEF CallFlush, BufGoto, BufSteps, Threads, BufInv, BufTypeOK
<1>5. ASSUME NEW t \in Callers, CallClose(t) PROVE BufInv'
  BY <1>5, GotoKeepsInv DEF CallClose, BufGoto, BufSteps, Threads
<1>6. ASSUME NEW t \in Callers, PutSentinel(t) PROVE BufInv'
  BY <1>6, PutSentinelKeepsInv
<1>7. ASSUME NEW t \in Callers, Join(t) PROVE BufInv'
  <2>1. ahead # {Nothing}
    BY <1>7 DEF Join, BufInv, NoSentinelYet
  <2> QED BY <1>7, <2>1, GotoKeepsInv DEF Join, AfterJoin, BufGoto, BufSteps, Threads, BufInv, BufTypeOK
<1>8. ASSUME NEW t \in Callers, FlushTake(t) PROVE BufInv'
  <2>1. AfterDrain(t) \in {"idle", "closed"} /\ t \in Threads
    BY DEF AfterDrain, Threads
  <2>2. CASE fifo # <<>>
    BY <1>8, <2>1, <2>2, TakeKeepsInv DEF FlushTake, NextItem, Taken, BufGoto
  <2>3. CASE fifo = <<>>
    <3>1. AfterDrain(t) = "closed" => ahead # {Nothing}
      BY <1>8 DEF AfterDrain, FlushTake, BufInv, NoSentinelYet
    <3>2. /\ step' = [step EXCEPT ![t] = AfterDrain(t)]
          /\ UNCHANGED <<fifo, stopped, hand, held, sent, errors, ahead>>
      BY <1>8, <2>3 DEF FlushTake, NextItem, Taken, BufGoto
    <3>3. stopped \in BOOLEAN
      BY DEF BufInv, BufTypeOK
    <3> QED BY <2>1, <2>3, <3>1, <3>2, <3>3, GotoKeepsInv DEF BufSteps
  <2> QED BY <2>2, <2>3
<1>9. ASSUME WorkerTake PROVE BufInv'
  BY <1>9, TakeKeepsInv DEF WorkerTake, BufGoto, Threads
<1>10. ASSUME NEW t \in Threads, FlushItem(t) PROVE BufInv'
  BY <1>10, FlushItemKeepsInv
<1> QED BY <1>1, <1>2, <1>3, <1>4, <1>5, <1>6, <1>7, <1>8, <1>9, <1>10 DEF BufNext, Consume, Close

LEMMA BufAlways == BufSpec => []BufInv
BY BufInitInv, BufNextInv, PTL DEF BufSpec

-----------------------------------------------------------------------------
LEMMA AtMostOneCopy ==
    ASSUME NEW S, \A x, y \in S : x = y
    PROVE  (Cardinality(S) = 0 /\ S = {}) \/ (Cardinality(S) = 1 /\ S # {})
<1>1. CASE S = {}
  <2>1. Cardinality({}) = 0
    BY FS_EmptySet
  <2> QED BY <1>1, <2>1
<1>2. CASE S # {}
  <2>1. PICK x \in S : TRUE
    BY <1>2
  <2>2. S = {x}
    BY <2>1
  <2> QED BY <2>2, FS_Singleton
<1> QED BY <1>1, <1>2

\* No item is posted twice: it is in one place at a time, whichever caller, the
\* worker or close() moves it (AsyncFlushBuffer.enqueue, flush_sync, _run, close),
\* for any number of callers and items and any capacity.
THEOREM ItemsPostedOnce == BufSpec => []PostedOnce
<1>1. BufInv => PostedOnce
  <2> SUFFICES ASSUME BufInv, NEW i \in Items PROVE Copies(i) <= 1
    BY DEF PostedOnce
  <2> DEFINE F == {k \in 1..Len(fifo) : fifo[k] = i}
             H == {t \in Threads : hand[t] = i}
             P == {t \in Callers : held[t] = i}
             S == IF i \in sent THEN 1 ELSE 0
             E == IF i \in errors THEN 1 ELSE 0
  <2>1. (\A x, y \in F : x = y) /\ (\A x, y \in H : x = y) /\ (\A x, y \in P : x = y)
    BY DEF BufInv, UniqueInKind
  <2>2. /\ F # {} => H = {} /\ P = {} /\ S = 0 /\ E = 0
        /\ H # {} => P = {} /\ S = 0 /\ E = 0
        /\ P # {} => S = 0 /\ E = 0
        /\ S = 0 \/ E = 0
    BY DEF BufInv, OneKind, InFifo, InHand, IsHeld, Over
  <2>3. S \in 0..1 /\ E \in 0..1
    OBVIOUS
  <2>4. Copies(i) = Cardinality(F) + Cardinality(H) + Cardinality(P) + S + E
    BY DEF Copies
  <2> HIDE DEF F, H, P, S, E
  <2>5. /\ (Cardinality(F) = 0 /\ F = {}) \/ (Cardinality(F) = 1 /\ F # {})
        /\ (Cardinality(H) = 0 /\ H = {}) \/ (Cardinality(H) = 1 /\ H # {})
        /\ (Cardinality(P) = 0 /\ P = {}) \/ (Cardinality(P) = 1 /\ P # {})
    BY <2>1, AtMostOneCopy
  <2> QED BY <2>2, <2>3, <2>4, <2>5
<1> QED BY <1>1, BufAlways, PTL

\* When close() has returned, nothing that was put before its sentinel is still
\* in the queue (AsyncFlushBuffer.close), for any number of callers and items.
THEOREM CloseLeavesNothing == BufSpec => []CloseDrains
<1>1. BufInv => CloseDrains
  BY DEF BufInv, BufTypeOK, ClosedIsDrained, CloseDrains, Range
<1> QED BY <1>1, BufAlways, PTL

-----------------------------------------------------------------------------
(* Reading the queue.                                                      *)

\* The n-th record read is that of the n-th readable line.
LEMMA ReadableFinite ==
    ASSUME lines \in Seq(Nat)
    PROVE  /\ IsFiniteSet(Readable) /\ Cardinality(Readable) \in Nat
           /\ \A i \in Readable : i \in 1..Len(lines) /\ i \in Nat
           /\ \A i : IsFiniteSet({j \in Readable : j <= i})
<1>1. Readable \subseteq 1..Len(lines) /\ Len(lines) \in Nat
  BY DEF Readable
<1>2. IsFiniteSet(1..Len(lines))
  BY <1>1, FS_Interval
<1>3. IsFiniteSet(Readable)
  BY <1>1, <1>2, FS_Subset
<1>4. \A i : IsFiniteSet({j \in Readable : j <= i})
  <2> TAKE i
  <2>1. {j \in Readable : j <= i} \in SUBSET Readable
    OBVIOUS
  <2> QED BY <2>1, <1>3, FS_Subset
<1> QED BY <1>1, <1>3, <1>4, FS_CardinalityType

LEMMA RankBounds ==
    ASSUME lines \in Seq(Nat), NEW i \in Readable
    PROVE  /\ ReadUpTo(i) \in 1..Cardinality(Readable)
           /\ ReadUpTo(i) <= i
<1> DEFINE U == {j \in Readable : j <= i}
<1>1. IsFiniteSet(U) /\ IsFiniteSet(Readable) /\ U \in SUBSET Readable /\ i \in Nat
  BY ReadableFinite
<1>2. Cardinality(U) <= Cardinality(Readable) /\ Cardinality(U) \in Nat
  BY <1>1, FS_Subset, FS_CardinalityType
<1>3. i \in U
  BY <1>1
<1>4. Cardinality(U) # 0
  BY <1>1, <1>3, FS_EmptySet
<1>5. U \in SUBSET (1..i)
  BY ReadableFinite
<1>6. Cardinality(U) <= i
  <2>1. IsFiniteSet(1..i) /\ Cardinality(1..i) = IF 1 > i THEN 0 ELSE i
    BY <1>1, FS_Interval
  <2>2. Cardinality(1..i) = i
    BY <1>1, <2>1
  <2> HIDE DEF U
  <2> QED BY <1>5, <2>1, <2>2, FS_Subset
<1> QED BY <1>2, <1>4, <1>6, ReadableFinite DEF ReadUpTo

LEMMA RankGrows ==
    ASSUME lines \in Seq(Nat), NEW i \in Readable, NEW k \in Readable, i < k
    PROVE  ReadUpTo(i) < ReadUpTo(k)
<1> DEFINE U == {j \in Readable : j <= i}
           V == {j \in Readable : j <= k}
<1>1. IsFiniteSet(V) /\ IsFiniteSet(U) /\ i \in Nat /\ k \in Nat
  BY ReadableFinite
<1>2. U \in SUBSET V
  <2>1. \A j \in Readable : j <= i => j <= k
    BY ReadableFinite, <1>1
  <2> QED BY <2>1
<1>3. k \in V /\ k \notin U
  BY <1>1
<1>4. Cardinality(U) <= Cardinality(V) /\ Cardinality(U) # Cardinality(V)
  <2> HIDE DEF U, V
  <2> QED BY <1>1, <1>2, <1>3, FS_Subset
<1>5. Cardinality(U) \in Nat /\ Cardinality(V) \in Nat
  BY <1>1, FS_CardinalityType
<1> QED BY <1>4, <1>5 DEF ReadUpTo

LEMMA RankHits ==
    ASSUME lines \in Seq(Nat), NEW n \in 1..Cardinality(Readable)
    PROVE  \E i \in Readable : ReadUpTo(i) = n
<1> DEFINE N == Cardinality(Readable)
           f == [i \in Readable |-> ReadUpTo(i)]
<1>1. f \in [Readable -> 1..N]
  BY RankBounds
<1>2. \A i, k \in Readable : f[i] = f[k] => i = k
  <2> SUFFICES ASSUME NEW i \in Readable, NEW k \in Readable, i # k PROVE f[i] # f[k]
    OBVIOUS
  <2>1. i \in Nat /\ k \in Nat /\ f[i] = ReadUpTo(i) /\ f[k] = ReadUpTo(k)
    BY ReadableFinite
  <2>2. ReadUpTo(i) \in Nat /\ ReadUpTo(k) \in Nat
    BY RankBounds
  <2>3. CASE i < k
    BY <2>1, <2>2, <2>3, RankGrows
  <2>4. CASE k < i
    BY <2>1, <2>2, <2>4, RankGrows
  <2> QED BY <2>1, <2>3, <2>4
<1>3. f \in Injection(Readable, 1..N)
  BY <1>1, <1>2 DEF Injection, IsInjective
<1>4. IsFiniteSet(1..N) /\ Cardinality(1..N) = N
  <2>1. N \in Nat
    BY ReadableFinite
  <2>2. IsFiniteSet(1..N) /\ Cardinality(1..N) = IF 1 > N THEN 0 ELSE N
    BY <2>1, FS_Interval
  <2> QED BY <2>1, <2>2
<1>5. f \in Surjection(Readable, 1..N)
  <2> HIDE DEF f
  <2> QED BY <1>3, <1>4, FS_Injection
<1> QED BY <1>5 DEF Surjection

\* The n-th record read is at line i, for the line i with n readable lines up
\* to it.
LEMMA ReadAllAt ==
    ASSUME lines \in Seq(Nat), NEW i \in Readable
    PROVE  ReadUpTo(i) \in 1..Len(ReadAll) /\ ReadAll[ReadUpTo(i)] = lines[i]
<1> DEFINE n == ReadUpTo(i)
           k == CHOOSE j \in Readable : ReadUpTo(j) = n
<1>1. n \in 1..Cardinality(Readable)
  BY RankBounds
<1>2. k \in Readable /\ ReadUpTo(k) = n
  OBVIOUS
<1>3. k = i
  <2>1. i \in Nat /\ k \in Nat /\ ReadUpTo(i) \in Nat /\ ReadUpTo(k) \in Nat
    BY <1>1, <1>2, ReadableFinite
  <2>2. ~(i < k) /\ ~(k < i)
    BY <1>2, <2>1, RankGrows
  <2> QED BY <2>1, <2>2
<1>4. ReadAll[n] = lines[k]
  BY <1>1 DEF ReadAll
<1>5. Len(ReadAll) = Cardinality(Readable)
  BY ReadableFinite DEF ReadAll
<1> QED BY <1>1, <1>3, <1>4, <1>5

LEMMA ReadAllType ==
    ASSUME lines \in Seq(Nat)
    PROVE  /\ ReadAll \in Seq(Nat) /\ Len(ReadAll) = Cardinality(Readable)
           /\ \A n \in 1..Len(ReadAll) : \E i \in Readable : ReadUpTo(i) = n /\ ReadAll[n] = lines[i]
<1>1. \A n \in 1..Cardinality(Readable) : \E i \in Readable : ReadUpTo(i) = n /\ ReadAll[n] = lines[i]
  BY RankHits, ReadAllAt
<1>2. \A i \in Readable : lines[i] \in Nat
  BY DEF Readable
<1>3. ReadAll \in [1..Cardinality(Readable) -> Nat]
  BY <1>1, <1>2 DEF ReadAll
<1>4. Cardinality(Readable) \in Nat
  BY ReadableFinite
<1>5. ReadAll \in Seq(Nat) /\ Len(ReadAll) = Cardinality(Readable)
  <2> HIDE DEF ReadAll
  <2> QED BY <1>3, <1>4
<1> QED BY <1>1, <1>5

LEMMA ReadAllNeighbours ==
    ASSUME lines \in Seq(Nat), NEW n \in 1..(Len(ReadAll) - 1)
    PROVE  \E i, k \in Readable : /\ i < k /\ ReadAll[n] = lines[i] /\ ReadAll[n + 1] = lines[k]
                                  /\ \A j \in Readable : ~(i < j /\ j < k)
<1>0. Len(ReadAll) \in Nat
  BY ReadAllType
<1>1. n \in 1..Len(ReadAll) /\ n + 1 \in 1..Len(ReadAll) /\ n \in Nat
  BY <1>0
<1>2. PICK i \in Readable : ReadUpTo(i) = n /\ ReadAll[n] = lines[i]
  BY <1>1, ReadAllType
<1>3. PICK k \in Readable : ReadUpTo(k) = n + 1 /\ ReadAll[n + 1] = lines[k]
  BY <1>1, ReadAllType
<1>4. i \in Nat /\ k \in Nat
  BY ReadableFinite
<1>5. ~(k < i) /\ i # k
  BY <1>1, <1>2, <1>3, RankGrows
<1>6. ASSUME NEW j \in Readable, i < j, j < k PROVE FALSE
  <2>1. ReadUpTo(j) \in Nat /\ ReadUpTo(i) < ReadUpTo(j) /\ ReadUpTo(j) < ReadUpTo(k)
    BY <1>6, RankGrows, RankBounds
  <2> QED BY <2>1, <1>1, <1>2, <1>3
<1>7. i < k
  BY <1>4, <1>5
<1>8. \A j \in Readable : ~(i < j /\ j < k)
  BY <1>6
<1> QED BY <1>2, <1>3, <1>7, <1>8

LEMMA ReadAllLast ==
    ASSUME lines \in Seq(Nat), ReadAll # <<>>
    PROVE  \E i \in Readable : Last(ReadAll) = lines[i] /\ \A j \in Readable : j <= i
<1> DEFINE n == Len(ReadAll)
<1>1. n \in 1..Len(ReadAll) /\ n \in Nat /\ Last(ReadAll) = ReadAll[n] /\ n = Cardinality(Readable)
  BY ReadAllType DEF Last
<1>2. PICK i \in Readable : ReadUpTo(i) = n /\ ReadAll[n] = lines[i]
  BY <1>1, ReadAllType
<1>3. ASSUME NEW j \in Readable PROVE j <= i
  <2>1. i \in Nat /\ j \in Nat
    BY ReadableFinite
  <2>2. CASE i < j
    <3>1. ReadUpTo(i) < ReadUpTo(j) /\ ReadUpTo(j) \in 1..Cardinality(Readable)
      BY <2>2, RankGrows, RankBounds
    <3> QED BY <3>1, <1>1, <1>2
  <2> QED BY <2>1, <2>2
<1> QED BY <1>1, <1>2, <1>3

LEMMA ReadAllNone ==
    ASSUME lines \in Seq(Nat), ReadAll = <<>>
    PROVE  Readable = {}
<1>1. ReadAll \in Seq(Nat) /\ Len(ReadAll) = 0
  OBVIOUS
<1>2. \A i \in Readable : FALSE
  BY <1>1, ReadAllAt
<1> QED BY <1>2

-----------------------------------------------------------------------------
(* The offline store: the invariant.                                       *)

\* The calls of the clients do not overlap.
OneClientAtATime == \A c, d \in Clients : at[c] # "idle" /\ at[d] # "idle" => c = d

Claim == [seq : Nat, prev : Nat, poison : BOOLEAN]
Local == [rec : Nat, next : Nat, prev : Nat, poison : BOOLEAN, registered : BOOLEAN,
          pending : Seq(Nat), chunk : Nat, kept : Seq(Nat)]
SdkSteps == {"idle", "chain", "append", "head", "read", "register", "post", "lines", "replace"}

SdkTypeOK ==
    /\ made \in Seq(Claim) /\ lines \in Seq(Nat) /\ open \in BOOLEAN
    /\ head \in [next : Nat, prev : Nat]
    /\ at \in [Clients -> SdkSteps] /\ mine \in [Clients -> Local]

\* A readable line names a record that was made, and only a line can be open.
LinesMade ==
    /\ \A i \in 1..Len(lines) : lines[i] <= Len(made)
    /\ open => lines # <<>>

\* A record continues the chain at the readable line i.
Follows(r, i) == made[r].prev = lines[i] /\ made[r].seq = made[lines[i]].seq + 1

\* A readable line continues the readable line before it.
LinesLinked ==
    \A i, k \in Readable : i < k /\ (\A j \in Readable : ~(i < j /\ j < k)) => Follows(lines[k], i)

\* The claim about to be appended continues the last readable line.
ClaimNext ==
    \A c \in Clients :
        /\ at[c] \in {"append", "head"} => mine[c].rec \in 1..Len(made)
        /\ at[c] = "append" =>
              \A i \in Readable : (\A j \in Readable : j <= i) => Follows(mine[c].rec, i)

\* The records in the queue were taken, or are pending at no later a place than
\* their line once n lines are dropped.
Behind(c, n) ==
    \A i \in Readable :
        \/ lines[i] \in accepted
        \/ \E j \in 1..Len(mine[c].pending) : j + n <= i /\ mine[c].pending[j] = lines[i]

DrainBehind ==
    \A c \in Clients :
        /\ at[c] \in {"register", "post"} => Behind(c, 0)
        /\ at[c] \in {"lines", "replace"} => Behind(c, mine[c].chunk)
        /\ at[c] = "replace" => mine[c].kept = Drop(lines, mine[c].chunk)

SdkInv == SdkTypeOK /\ LinesMade /\ LinesLinked /\ ClaimNext /\ DrainBehind

-----------------------------------------------------------------------------
LEMMA LocalFields ==
    ASSUME NEW m \in Local
    PROVE  /\ m.rec \in Nat /\ m.pending \in Seq(Nat) /\ m.chunk \in Nat /\ m.kept \in Seq(Nat)
           /\ m.poison \in BOOLEAN /\ m.registered \in BOOLEAN
BY DEF Local

LEMMA LocalUpdates ==
    ASSUME NEW m \in Local, NEW n \in Nat, NEW q \in Seq(Nat), NEW b \in BOOLEAN
    PROVE  /\ [m EXCEPT !.rec = n] \in Local /\ [m EXCEPT !.rec = n].rec = n
           /\ [m EXCEPT !.registered = b] \in Local /\ [m EXCEPT !.registered = b].pending = m.pending
           /\ [m EXCEPT !.pending = q] \in Local /\ [m EXCEPT !.pending = q].pending = q
           /\ [m EXCEPT !.poison = b] \in Local
BY DEF Local

LEMMA IdleTyped == Idle \in Local /\ \A b \in BOOLEAN : [Idle EXCEPT !.registered = b] \in Local
<1>1. <<>> \in Seq(Nat)
  OBVIOUS
<1>2. \A e \in Seq(Nat) : [rec |-> 0, next |-> 0, prev |-> 0, poison |-> FALSE, registered |-> FALSE,
                           pending |-> e, chunk |-> 0, kept |-> e] \in Local
  BY DEF Local
<1>3. Idle \in Local
  BY <1>1, <1>2 DEF Idle
<1>4. \A m \in Local : \A b \in BOOLEAN : [m EXCEPT !.registered = b] \in Local
  BY DEF Local
<1> QED BY <1>3, <1>4

LEMMA SdkInitInv == SdkInit => SdkInv
<1> SUFFICES ASSUME SdkInit PROVE SdkInv
  OBVIOUS
<1>1. SdkTypeOK
  <2>1. head \in [next : Nat, prev : Nat] /\ open \in BOOLEAN
    BY DEF SdkInit, NoHead
  <2>2. at \in [Clients -> SdkSteps]
    BY DEF SdkInit, SdkSteps
  <2>3. mine \in [Clients -> Local]
    BY IdleTyped DEF SdkInit
  <2>4. made \in Seq(Claim) /\ lines \in Seq(Nat)
    BY DEF SdkInit
  <2> QED BY <2>1, <2>2, <2>3, <2>4 DEF SdkTypeOK
<1>2. Readable = {}
  BY DEF SdkInit, Readable
<1> QED BY <1>1, <1>2 DEF SdkInit, SdkInv, LinesMade, LinesLinked, ClaimNext, DrainBehind

\* A step of client c that leaves the file and the records alone.
LEMMA QuietKeepsInv ==
    ASSUME SdkInv, NEW c \in Clients, NEW s \in SdkSteps, NEW m \in Local,
           s \notin {"append", "head"},
           at' = [at EXCEPT ![c] = s], mine' = [mine EXCEPT ![c] = m],
           UNCHANGED <<made, lines, open>>, head' \in [next : Nat, prev : Nat], accepted \subseteq accepted',
           s \in {"register", "post"} => Behind(c, 0)',
           s \in {"lines", "replace"} => Behind(c, m.chunk)',
           s = "replace" => m.kept = Drop(lines, m.chunk)
    PROVE  SdkInv'
<1>1. SdkTypeOK'
  BY DEF SdkInv, SdkTypeOK
<1>2. Readable' = Readable
  BY DEF Readable
<1>3. LinesMade' /\ LinesLinked'
  BY <1>2 DEF SdkInv, LinesMade, LinesLinked, Follows
<1>4. at'[c] = s /\ mine'[c] = m /\ \A d \in Clients : d # c => at'[d] = at[d] /\ mine'[d] = mine[d]
  BY DEF SdkInv, SdkTypeOK
<1>5. ClaimNext'
  BY <1>2, <1>4 DEF SdkInv, ClaimNext, Follows
<1>6. DrainBehind'
  <2> SUFFICES ASSUME NEW d \in Clients
               PROVE  (/\ at[d] \in {"register", "post"} => Behind(d, 0)
                       /\ at[d] \in {"lines", "replace"} => Behind(d, mine[d].chunk)
                       /\ at[d] = "replace" => mine[d].kept = Drop(lines, mine[d].chunk))'
    BY DEF DrainBehind
  <2>1. CASE d = c
    BY <1>4, <2>1
  <2>2. CASE d # c
    <3>1. Behind(d, 0) => Behind(d, 0)'
      BY <1>2, <1>4, <2>2 DEF Behind
    <3>2. Behind(d, mine[d].chunk) => Behind(d, mine[d].chunk)'
      BY <1>2, <1>4, <2>2 DEF Behind
    <3> QED BY <1>4, <2>2, <3>1, <3>2 DEF SdkInv, DrainBehind
  <2> QED BY <2>1, <2>2
<1> QED BY <1>1, <1>3, <1>5, <1>6 DEF SdkInv

LEMMA OthersIdle ==
    ASSUME OneClientAtATime, NEW c \in Clients, at[c] # "idle", NEW d \in Clients, d # c
    PROVE  at[d] = "idle"
BY DEF OneClientAtATime

\* When only client c is busy and goes to step s, the others have nothing to keep.
LEMMA AloneKeeps ==
    ASSUME OneClientAtATime, SdkInv, NEW c \in Clients, at[c] # "idle", NEW s \in SdkSteps,
           at' = [at EXCEPT ![c] = s], s \notin {"append", "register", "lines", "replace"},
           s = "head" => mine'[c].rec \in 1..Len(made'), s = "post" => Behind(c, 0)'
    PROVE  ClaimNext' /\ DrainBehind'
<1>1. at'[c] = s /\ \A d \in Clients : d # c => at'[d] = "idle"
  BY OthersIdle DEF SdkInv, SdkTypeOK
<1>2. ClaimNext'
  BY <1>1 DEF ClaimNext
<1>3. DrainBehind'
  BY <1>1 DEF DrainBehind
<1> QED BY <1>2, <1>3

\* The call returns, or the process dies.
LEMMA ReturnKeepsInv ==
    ASSUME SdkInv, NEW c \in Clients, Return(c) \/ Die(c), UNCHANGED <<made, lines, open>>,
           head' \in [next : Nat, prev : Nat], accepted \subseteq accepted'
    PROVE  SdkInv'
<1>1. mine[c].registered \in BOOLEAN
  BY LocalFields DEF SdkInv, SdkTypeOK
<1>2. PICK m \in Local : mine' = [mine EXCEPT ![c] = m]
  BY <1>1, IdleTyped DEF Return, Die
<1>3. at' = [at EXCEPT ![c] = "idle"]
  BY DEF Return, Die, SdkGoto
<1> QED BY <1>2, <1>3, QuietKeepsInv DEF SdkSteps

\* A file with one line more, unreadable or of the claim that continues it.
LEMMA AppendLinked ==
    ASSUME SdkInv, NEW r \in Nat, r # 0 => /\ r <= Len(made)
                                           /\ \A i \in Readable : (\A j \in Readable : j <= i) => Follows(r, i),
           lines' = Append(lines, r), made' = made
    PROVE  lines' \in Seq(Nat) /\ lines' # <<>> /\ LinesLinked'
           /\ (\A i \in 1..Len(lines') : lines'[i] <= Len(made'))
<1>1. /\ lines' \in Seq(Nat) /\ lines' # <<>> /\ Len(lines') = Len(lines) + 1 /\ Len(lines) \in Nat
      /\ \A i \in 1..Len(lines) : lines'[i] = lines[i]
      /\ lines'[Len(lines) + 1] = r
  <2>1. lines \in Seq(Nat) /\ Len(lines) \in Nat
    BY DEF SdkInv, SdkTypeOK
  <2>2. /\ lines' \in Seq(Nat) /\ Len(lines') = Len(lines) + 1
        /\ \A i \in 1..Len(lines) : lines'[i] = lines[i]
        /\ lines'[Len(lines) + 1] = r
    BY <2>1, AppendFacts
  <2>3. lines' # <<>>
    BY <2>1, <2>2
  <2> QED BY <2>1, <2>2, <2>3
<1>2. /\ \A i : i \in Readable => i \in 1..Len(lines) /\ i \in Readable'
      /\ \A i : i \in Readable' => i \in Readable \/ (i = Len(lines) + 1 /\ r # 0)
  BY <1>1 DEF Readable
<1>3. LinesLinked'
  <2> SUFFICES ASSUME NEW i \in Readable', NEW k \in Readable', i < k,
                      \A j \in Readable' : ~(i < j /\ j < k)
               PROVE  Follows(lines[k], i)'
    BY DEF LinesLinked
  <2>1. i \in Readable /\ i \in 1..Len(lines)
    BY <1>1, <1>2
  <2>2. CASE k \in Readable
    <3>1. Follows(lines[k], i)
      BY <1>2, <2>1, <2>2 DEF SdkInv, LinesLinked
    <3> QED BY <1>1, <1>2, <2>1, <2>2, <3>1 DEF Follows
  <2>3. CASE k = Len(lines) + 1 /\ r # 0
    <3>1. \A j \in Readable : j <= i
      BY <1>1, <1>2, <2>1, <2>3
    <3>2. Follows(r, i)
      BY <2>1, <2>3, <3>1
    <3> QED BY <1>1, <2>1, <2>3, <3>2 DEF Follows
  <2> QED BY <1>2, <2>2, <2>3
<1>4. \A i \in 1..Len(lines') : lines'[i] <= Len(made')
  <2>1. Len(made) \in Nat
    BY DEF SdkInv, SdkTypeOK
  <2> QED BY <1>1, <2>1 DEF SdkInv, LinesMade
<1> QED BY <1>1, <1>3, <1>4

\* A write joined to an unfinished line: the line stays or is spoilt.
LEMMA SpoilLinked ==
    ASSUME SdkInv, lines' \in Seq(Nat), Len(lines') = Len(lines), made' = made,
           \A i \in 1..Len(lines) : lines'[i] = lines[i] \/ (i = Len(lines) /\ lines'[i] = 0)
    PROVE  LinesLinked' /\ (\A i \in 1..Len(lines') : lines'[i] <= Len(made'))
<1>1. Len(lines) \in Nat /\ lines \in Seq(Nat)
  BY DEF SdkInv, SdkTypeOK
<1>2. /\ \A i : i \in Readable' => i \in Readable /\ lines'[i] = lines[i] /\ i \in 1..Len(lines)
      /\ \A i : i \in Readable => i \in 1..Len(lines) /\ (i \in Readable' \/ i = Len(lines))
  <2>1. DOMAIN lines = 1..Len(lines) /\ DOMAIN lines' = 1..Len(lines)
    BY <1>1
  <2> QED BY <1>1, <2>1 DEF Readable
<1>3. LinesLinked'
  <2> SUFFICES ASSUME NEW i \in Readable', NEW k \in Readable', i < k,
                      \A j \in Readable' : ~(i < j /\ j < k)
               PROVE  Follows(lines[k], i)'
    BY DEF LinesLinked
  <2>1. ASSUME NEW j \in Readable, i < j, j < k PROVE FALSE
    <3>1. k \in 1..Len(lines) /\ j \in 1..Len(lines)
      BY <1>2
    <3>2. j # Len(lines)
      BY <1>1, <2>1, <3>1
    <3> QED BY <1>2, <2>1, <3>2
  <2>2. Follows(lines[k], i)
    BY <1>2, <2>1 DEF SdkInv, LinesLinked
  <2> QED BY <1>2, <2>2 DEF Follows
<1>4. \A i \in 1..Len(lines') : lines'[i] <= Len(made')
  <2> SUFFICES ASSUME NEW i \in 1..Len(lines) PROVE lines'[i] <= Len(made)
    BY <1>1
  <2>1. Len(made) \in Nat /\ lines[i] <= Len(made)
    BY DEF SdkInv, SdkTypeOK, LinesMade
  <2> QED BY <1>1, <2>1
<1> QED BY <1>3, <1>4

\* The file after a write to an unfinished line.
LEMMA SpoilFacts ==
    ASSUME NEW q \in Seq(Nat), q # <<>>, NEW x \in {0, q[Len(q)]}, NEW r, r = [q EXCEPT ![Len(q)] = x]
    PROVE  /\ r \in Seq(Nat) /\ r # <<>> /\ Len(r) = Len(q)
           /\ \A i \in 1..Len(q) : r[i] = q[i] \/ (i = Len(q) /\ r[i] = 0)
OBVIOUS

LEMMA DropFacts ==
    ASSUME NEW q \in Seq(Nat), NEW n \in Nat
    PROVE  /\ Drop(q, n) \in Seq(Nat)
           /\ Len(Drop(q, n)) = IF n <= Len(q) THEN Len(q) - n ELSE 0
           /\ \A i \in 1..Len(Drop(q, n)) : i + n \in 1..Len(q) /\ Drop(q, n)[i] = q[i + n]
<1>1. Len(q) \in Nat /\ \A i \in n + 1 .. Len(q) : q[i] \in Nat
  OBVIOUS
<1>2. /\ Drop(q, n) \in Seq(Nat)
      /\ Len(Drop(q, n)) = IF n + 1 <= Len(q) THEN Len(q) - (n + 1) + 1 ELSE 0
      /\ \A i \in 1..(Len(q) - (n + 1) + 1) : Drop(q, n)[i] = q[(n + 1) + i - 1]
  BY <1>1, SubSeqProperties DEF Drop
<1>3. Len(Drop(q, n)) = IF n <= Len(q) THEN Len(q) - n ELSE 0
  BY <1>1, <1>2
<1>4. ASSUME NEW i \in 1..Len(Drop(q, n)) PROVE i + n \in 1..Len(q) /\ Drop(q, n)[i] = q[i + n]
  <2>1. i \in 1..(Len(q) - (n + 1) + 1) /\ (n + 1) + i - 1 = i + n /\ i + n \in 1..Len(q)
    BY <1>1, <1>3
  <2> QED BY <1>2, <2>1
<1> QED BY <1>2, <1>3, <1>4

\* A file without its first lines.
LEMMA DropLinked ==
    ASSUME SdkInv, NEW n \in Nat, made' = made,
           lines' \in Seq(Nat), Len(lines') = (IF n <= Len(lines) THEN Len(lines) - n ELSE 0),
           \A i \in 1..Len(lines') : i + n \in 1..Len(lines) /\ lines'[i] = lines[i + n]
    PROVE  /\ LinesLinked'
           /\ \A i \in 1..Len(lines') : lines'[i] <= Len(made')
           /\ \A i \in Readable' : i \in Nat /\ i + n \in Readable /\ lines'[i] = lines[i + n]
           /\ \A i \in Readable : i > n => i - n \in Readable' /\ lines'[i - n] = lines[i]
<1>0. lines \in Seq(Nat) /\ Len(lines) \in Nat
  BY DEF SdkInv, SdkTypeOK
<1>1. Len(lines') \in Nat
  BY <1>0
<1>2. \A i \in Readable' : i \in Nat /\ i + n \in Readable /\ lines'[i] = lines[i + n]
  <2>1. DOMAIN lines = 1..Len(lines) /\ DOMAIN lines' = 1..Len(lines') /\ Len(lines') \in Nat
    BY <1>0, <1>1
  <2> SUFFICES ASSUME NEW i \in Readable' PROVE i \in Nat /\ i + n \in Readable /\ lines'[i] = lines[i + n]
    OBVIOUS
  <2>2. i \in 1..Len(lines') /\ lines'[i] # 0
    BY <2>1 DEF Readable
  <2>3. i \in Nat /\ i + n \in 1..Len(lines) /\ lines[i + n] # 0 /\ lines'[i] = lines[i + n]
    BY <2>2
  <2> QED BY <2>1, <2>3 DEF Readable
<1>3. \A i \in Readable : i > n => i - n \in Readable' /\ lines'[i - n] = lines[i]
  <2> SUFFICES ASSUME NEW i \in Readable, i > n PROVE i - n \in Readable' /\ lines'[i - n] = lines[i]
    OBVIOUS
  <2>1. i \in 1..Len(lines) /\ lines[i] # 0
    BY <1>0 DEF Readable
  <2>2. i - n \in 1..Len(lines') /\ (i - n) + n = i
    BY <1>0, <1>1, <2>1
  <2>3. lines'[i - n] = lines[i]
    BY <1>1, <2>2
  <2> QED BY <1>1, <2>1, <2>2, <2>3 DEF Readable
<1>4. LinesLinked'
  <2> SUFFICES ASSUME NEW i \in Readable', NEW k \in Readable', i < k,
                      \A j \in Readable' : ~(i < j /\ j < k)
               PROVE  Follows(lines[k], i)'
    BY DEF LinesLinked
  <2>1. i \in Nat /\ k \in Nat /\ i + n \in Readable /\ k + n \in Readable /\ i + n < k + n
    BY <1>2
  <2>2. ASSUME NEW j \in Readable, i + n < j, j < k + n PROVE FALSE
    <3>1. j \in Nat /\ n \in Nat
      BY <1>0 DEF Readable
    <3>2. j > n /\ i < j - n /\ j - n < k
      <4>1. i \in Nat /\ k \in Nat
        BY <2>1
      <4> QED BY <4>1, <2>2, <3>1
    <3> QED BY <1>3, <3>2
  <2>3. Follows(lines[k + n], i + n)
    BY <2>1, <2>2 DEF SdkInv, LinesLinked
  <2> QED BY <1>2, <2>3 DEF Follows
<1>5. \A i \in 1..Len(lines') : lines'[i] <= Len(made')
  BY <1>1 DEF SdkInv, LinesMade
<1> QED BY <1>2, <1>3, <1>4, <1>5

-----------------------------------------------------------------------------
(* The steps of the clients.                                               *)

LEMMA MineTyped ==
    ASSUME SdkInv, NEW c \in Clients
    PROVE  /\ mine[c] \in Local /\ at[c] \in SdkSteps /\ mine = [mine EXCEPT ![c] = mine[c]]
           /\ lines \in Seq(Nat) /\ made \in Seq(Claim) /\ head \in [next : Nat, prev : Nat]
BY DEF SdkInv, SdkTypeOK

LEMMA GateKeepsInv ==
    ASSUME SdkInv, NEW c \in Clients,
           GateOnline(c) \/ \E poison \in BOOLEAN : GateOffline(c, poison)
    PROVE  SdkInv'
<1>1. CASE GateOnline(c)
  <2>1. at' = [at EXCEPT ![c] = "read"] /\ UNCHANGED <<made, lines, open, head, accepted, mine>>
    BY <1>1 DEF GateOnline, SdkGoto, Disk
  <2> QED BY <2>1, MineTyped, QuietKeepsInv DEF SdkSteps
<1>2. ASSUME NEW poison \in BOOLEAN, GateOffline(c, poison) PROVE SdkInv'
  <2>1. /\ at' = [at EXCEPT ![c] = "chain"] /\ UNCHANGED <<made, lines, open, head, accepted>>
        /\ mine' = [mine EXCEPT ![c] = [mine[c] EXCEPT !.poison = poison]]
    BY <1>2 DEF GateOffline, SdkGoto, Disk, SdkInv, SdkTypeOK
  <2>2. [mine[c] EXCEPT !.poison = poison] \in Local
    BY MineTyped DEF Local
  <2> QED BY <2>1, <2>2, MineTyped, QuietKeepsInv DEF SdkSteps
<1> QED BY <1>1, <1>2

LEMMA ChainStateType ==
    ASSUME SdkInv
    PROVE  ChainState.next \in Nat /\ ChainState.prev \in Nat
<1>1. CASE ReadAll = <<>>
  BY <1>1 DEF ChainState, SdkInv, SdkTypeOK
<1>2. CASE ReadAll # <<>>
  <2>1. PICK i \in Readable : Last(ReadAll) = lines[i]
    BY <1>2, ReadAllLast DEF SdkInv, SdkTypeOK
  <2>2. lines[i] \in 1..Len(made)
    BY DEF SdkInv, SdkTypeOK, LinesMade, Readable
  <2>3. made[lines[i]] \in Claim
    BY <2>2 DEF SdkInv, SdkTypeOK
  <2>4. made[lines[i]].seq \in Nat
    BY <2>3 DEF Claim
  <2> QED BY <1>2, <2>1, <2>2, <2>4 DEF ChainState
<1> QED BY <1>1, <1>2

\* The claim signed continues the last readable line.
LEMMA ChainStateFollows ==
    ASSUME SdkInv, NEW i \in Readable, \A j \in Readable : j <= i
    PROVE  ChainState.prev = lines[i] /\ ChainState.next = made[lines[i]].seq + 1
<1>1. lines \in Seq(Nat)
  BY DEF SdkInv, SdkTypeOK
<1>2. ReadAll # <<>>
  BY <1>1, ReadAllNone
<1>3. PICK k \in Readable : Last(ReadAll) = lines[k] /\ \A j \in Readable : j <= k
  BY <1>1, <1>2, ReadAllLast
<1>4. i = k
  BY <1>1, <1>3, ReadableFinite
<1> QED BY <1>2, <1>3, <1>4 DEF ChainState

LEMMA SignKeepsInv ==
    ASSUME OneClientAtATime, SdkInv, NEW c \in Clients, SignClaim(c)
    PROVE  SdkInv'
<1>1. CASE Return(c) /\ UNCHANGED Disk /\ UNCHANGED accepted
  BY <1>1, ReturnKeepsInv, MineTyped DEF Disk
<1>2. CASE /\ made' = Append(made, OfflineClaim(c)) /\ mine' = [mine EXCEPT ![c].rec = Len(made) + 1]
           /\ at[c] = "chain" /\ SdkGoto(c, "append") /\ UNCHANGED <<lines, open, head, accepted>>
  <2>0. PICK r : r = Len(made) + 1
    OBVIOUS
  <2> DEFINE x == OfflineClaim(c)
  <2>1. x \in Claim /\ x.prev = ChainState.prev /\ x.seq = ChainState.next
    <3>1. mine[c].poison \in BOOLEAN
      BY MineTyped, LocalFields
    <3> QED BY <3>1, ChainStateType DEF OfflineClaim, Claim
  <2> HIDE DEF x
  <2>2. /\ made' \in Seq(Claim) /\ Len(made') = r /\ Len(made) \in Nat /\ made'[r] = x
        /\ \A i \in 1..Len(made) : made'[i] = made[i]
    <3>1. made \in Seq(Claim) /\ made' = Append(made, x)
      BY <1>2 DEF SdkInv, SdkTypeOK, x
    <3> QED BY <2>0, <2>1, <3>1, AppendFacts
  <2>3. /\ at'[c] = "append" /\ mine'[c].rec = r /\ mine'[c] \in Local
        /\ \A d \in Clients : d # c => at'[d] = "idle"
        /\ at' \in [Clients -> SdkSteps] /\ mine' \in [Clients -> Local]
    <3>1. mine' = [mine EXCEPT ![c] = [mine[c] EXCEPT !.rec = r]]
      BY <1>2, <2>0 DEF SdkInv, SdkTypeOK
    <3>2. [mine[c] EXCEPT !.rec = r] \in Local /\ [mine[c] EXCEPT !.rec = r].rec = r
      <4>1. r \in Nat
        BY <2>0, <2>2
      <4> QED BY <4>1, MineTyped, LocalUpdates
    <3>3. at' = [at EXCEPT ![c] = "append"] /\ \A d \in Clients : d # c => at[d] = "idle"
      BY <1>2, OthersIdle DEF SdkGoto
    <3>4. at \in [Clients -> SdkSteps] /\ mine \in [Clients -> Local] /\ "append" \in SdkSteps
      BY DEF SdkInv, SdkTypeOK, SdkSteps
    <3> QED BY <3>1, <3>2, <3>3, <3>4
  <2>4. SdkTypeOK'
    BY <1>2, <2>2, <2>3 DEF SdkInv, SdkTypeOK
  <2>5. Readable' = Readable /\ lines' = lines /\ open' = open
    BY <1>2 DEF Readable
  <2>6. \A i \in Readable : lines[i] \in 1..Len(made) /\ made'[lines[i]] = made[lines[i]]
    <3>1. \A i \in Readable : lines[i] \in 1..Len(made)
      BY DEF SdkInv, SdkTypeOK, LinesMade, Readable
    <3> QED BY <2>2, <3>1
  <2>7. LinesMade'
    <3>1. \A i \in 1..Len(lines) : lines[i] \in Nat /\ lines[i] <= Len(made)
      BY DEF SdkInv, SdkTypeOK, LinesMade
    <3>2. \A i \in 1..Len(lines) : lines[i] <= Len(made')
      BY <2>0, <2>2, <3>1
    <3> QED BY <2>5, <3>2 DEF SdkInv, LinesMade
  <2>8. LinesLinked'
    BY <2>5, <2>6 DEF SdkInv, LinesLinked, Follows
  <2>9. ClaimNext'
    <3>1. ASSUME NEW i \in Readable, \A j \in Readable : j <= i PROVE Follows(r, i)'
      <4>1. ChainState.prev = lines[i] /\ ChainState.next = made[lines[i]].seq + 1
        BY <3>1, ChainStateFollows
      <4>2. made'[r].prev = lines[i] /\ made'[r].seq = made'[lines[i]].seq + 1
        BY <2>1, <2>2, <2>6, <4>1
      <4> QED BY <2>5, <4>2 DEF Follows
    <3>2. r \in 1..Len(made')
      BY <2>0, <2>2
    <3> QED BY <2>3, <2>5, <3>1, <3>2 DEF ClaimNext
  <2>10. DrainBehind'
    BY <2>3 DEF DrainBehind
  <2> QED BY <2>4, <2>7, <2>8, <2>9, <2>10 DEF SdkInv
<1> QED BY <1>1, <1>2 DEF SignClaim, Disk

\* What the file is after a write of claim r: a line more, or the unfinished
\* line joined.
LEMMA WriteKeepsLines ==
    ASSUME SdkInv, NEW c \in Clients, at[c] = "append", made' = made,
           \/ \E x \in {0, mine[c].rec} : lines' = Append(lines, x)
           \/ open /\ lines' \in Appended(mine[c].rec)
    PROVE  lines' \in Seq(Nat) /\ lines' # <<>> /\ LinesLinked'
           /\ (\A i \in 1..Len(lines') : lines'[i] <= Len(made'))
<1>1. CASE \E x \in {0, mine[c].rec} : lines' = Append(lines, x)
  <2>1. PICK x \in {0, mine[c].rec} : lines' = Append(lines, x)
    BY <1>1
  <2>2. mine[c].rec \in 1..Len(made) /\ \A i \in Readable : (\A j \in Readable : j <= i) => Follows(mine[c].rec, i)
    BY DEF SdkInv, ClaimNext
  <2>3. x \in Nat /\ (x # 0 => x <= Len(made))
    BY <2>2
  <2> QED BY <2>1, <2>2, <2>3, AppendLinked
<1>2. CASE open /\ lines' \in Appended(mine[c].rec)
  <2>1. PICK x \in {0, lines[Len(lines)]} : lines' = [lines EXCEPT ![Len(lines)] = x]
    BY <1>2 DEF Appended
  <2>2. lines \in Seq(Nat) /\ lines # <<>>
    BY <1>2 DEF SdkInv, SdkTypeOK, LinesMade
  <2>3. /\ lines' \in Seq(Nat) /\ lines' # <<>> /\ Len(lines') = Len(lines)
        /\ \A i \in 1..Len(lines) : lines'[i] = lines[i] \/ (i = Len(lines) /\ lines'[i] = 0)
    BY <2>1, <2>2, SpoilFacts
  <2> QED BY <2>3, SpoilLinked
<1> QED BY <1>1, <1>2

LEMMA AppendKeepsInv ==
    ASSUME OneClientAtATime, SdkInv, NEW c \in Clients, AppendRecord(c)
    PROVE  SdkInv'
<1>1. /\ at[c] = "append" /\ at' = [at EXCEPT ![c] = "head"] /\ open' = FALSE
      /\ UNCHANGED <<made, head, accepted, mine>>
      /\ \/ lines' = Append(lines, mine[c].rec)
         \/ open /\ lines' \in Appended(mine[c].rec)
  BY DEF AppendRecord, SdkGoto, Appended
<1>2. /\ lines' \in Seq(Nat) /\ LinesLinked'
      /\ \A i \in 1..Len(lines') : lines'[i] <= Len(made')
  BY <1>1, WriteKeepsLines
<1>3. at' \in [Clients -> SdkSteps]
  BY <1>1 DEF SdkInv, SdkTypeOK, SdkSteps
<1>4. SdkTypeOK' /\ LinesMade'
  BY <1>1, <1>2, <1>3 DEF SdkInv, SdkTypeOK, LinesMade
<1>5. mine'[c].rec \in 1..Len(made')
  BY <1>1 DEF SdkInv, ClaimNext
<1>6. ClaimNext' /\ DrainBehind'
  BY <1>1, <1>5, AloneKeeps DEF SdkSteps
<1> QED BY <1>2, <1>4, <1>6 DEF SdkInv

LEMMA TearKeepsInv ==
    ASSUME OneClientAtATime, SdkInv, NEW c \in Clients, TearAppend(c)
    PROVE  SdkInv'
<1>1. /\ at[c] = "append" /\ at' = [at EXCEPT ![c] = "idle"] /\ mine' = [mine EXCEPT ![c] = Idle]
      /\ open' = TRUE /\ UNCHANGED <<made, head, accepted>>
      /\ \/ \E x \in {0, mine[c].rec} : lines' = Append(lines, x)
         \/ open /\ lines' \in Appended(mine[c].rec)
  BY DEF TearAppend, Die, SdkGoto
<1>2. /\ lines' \in Seq(Nat) /\ lines' # <<>> /\ LinesLinked'
      /\ \A i \in 1..Len(lines') : lines'[i] <= Len(made')
  BY <1>1, WriteKeepsLines
<1>3. at' \in [Clients -> SdkSteps] /\ mine' \in [Clients -> Local]
  BY <1>1, IdleTyped DEF SdkInv, SdkTypeOK, SdkSteps
<1>4. SdkTypeOK' /\ LinesMade'
  BY <1>1, <1>2, <1>3 DEF SdkInv, SdkTypeOK, LinesMade
<1>5. ClaimNext' /\ DrainBehind'
  BY <1>1, AloneKeeps DEF SdkSteps
<1> QED BY <1>2, <1>4, <1>5 DEF SdkInv

LEMMA RememberKeepsInv ==
    ASSUME SdkInv, NEW c \in Clients, RememberHead(c)
    PROVE  SdkInv'
<1>1. made[mine[c].rec] \in Claim /\ mine[c].rec \in Nat
  BY DEF SdkInv, SdkTypeOK, ClaimNext, RememberHead
<1>2. made[mine[c].rec].seq + 1 \in Nat
  BY <1>1 DEF Claim
<1>3. head' \in [next : Nat, prev : Nat]
  BY <1>1, <1>2 DEF RememberHead
<1> QED BY <1>3, ReturnKeepsInv DEF RememberHead

\* The drain starts from what the file holds.
LEMMA ReadQueueKeepsInv ==
    ASSUME SdkInv, NEW c \in Clients, ReadQueue(c)
    PROVE  SdkInv'
<1>1. CASE Drained(c)
  BY <1>1, ReturnKeepsInv, MineTyped DEF Drained, Disk
<1>2. CASE /\ mine' = [mine EXCEPT ![c].pending = ReadAll] /\ SdkGoto(c, "register")
           /\ UNCHANGED <<Disk, accepted>>
  <2>1. PICK q : q = ReadAll
    OBVIOUS
  <2>2. q \in Seq(Nat) /\ \A i \in Readable : ReadUpTo(i) \in 1..Len(q) /\ q[ReadUpTo(i)] = lines[i]
    BY <2>1, MineTyped, ReadAllType, ReadAllAt
  <2>3. \A i \in Readable : ReadUpTo(i) + 0 <= i
    BY MineTyped, RankBounds, ReadableFinite
  <2> DEFINE m == [mine[c] EXCEPT !.pending = q]
  <2>4. m \in Local /\ m.pending = q
    BY <2>2, MineTyped, LocalUpdates
  <2>5. /\ mine' = [mine EXCEPT ![c] = m] /\ at' = [at EXCEPT ![c] = "register"]
        /\ UNCHANGED <<made, lines, open, head, accepted>>
    BY <1>2, <2>1 DEF SdkInv, SdkTypeOK, SdkGoto, Disk
  <2> HIDE DEF m
  <2>6. mine'[c].pending = q /\ Readable' = Readable
    BY <2>4, <2>5 DEF SdkInv, SdkTypeOK, Readable
  <2>7. Behind(c, 0)'
    BY <2>2, <2>3, <2>5, <2>6 DEF Behind
  <2>8. head' \in [next : Nat, prev : Nat] /\ accepted \subseteq accepted'
    BY <2>5, MineTyped
  <2> QED BY <2>4, <2>5, <2>7, <2>8, QuietKeepsInv DEF SdkSteps
<1> QED BY <1>1, <1>2 DEF ReadQueue

LEMMA RegisterKeepsInv ==
    ASSUME SdkInv, NEW c \in Clients, Register(c)
    PROVE  SdkInv'
<1>1. /\ at[c] = "register" /\ at' = [at EXCEPT ![c] = "post"]
      /\ UNCHANGED <<made, lines, open, head, accepted>>
      /\ \/ mine' = [mine EXCEPT ![c] = [mine[c] EXCEPT !.registered = TRUE]]
         \/ mine' = [mine EXCEPT ![c] = mine[c]]
  BY DEF Register, SdkGoto, Disk, SdkInv, SdkTypeOK
<1>2. PICK m \in Local : mine' = [mine EXCEPT ![c] = m] /\ m.pending = mine[c].pending
  BY <1>1, MineTyped, LocalUpdates
<1>3. mine'[c].pending = mine[c].pending /\ Readable' = Readable
  BY <1>1, <1>2 DEF SdkInv, SdkTypeOK, Readable
<1>4. Behind(c, 0)
  BY <1>1 DEF SdkInv, DrainBehind
<1>5. Behind(c, 0)'
  BY <1>1, <1>3, <1>4 DEF Behind
<1> QED BY <1>1, <1>2, <1>5, MineTyped, QuietKeepsInv DEF SdkSteps

LEMMA ChunkFacts ==
    ASSUME SdkInv, NEW c \in Clients
    PROVE  /\ Len(Chunk(c)) \in Nat /\ Len(Chunk(c)) <= Len(mine[c].pending)
           /\ \A j \in 1..Len(Chunk(c)) : mine[c].pending[j] \in Range(Chunk(c))
<1> DEFINE p == mine[c].pending
           n == IF Len(p) < Batch THEN Len(p) ELSE Batch
<1>1. p \in Seq(Nat) /\ Len(p) \in Nat
  BY MineTyped, LocalFields
<1>2. n \in Nat /\ n <= Len(p)
  BY <1>1, SdkAssumption
<1> HIDE DEF n
<1>3. \A i \in 1..n : p[i] \in Nat
  BY <1>1, <1>2
<1>4. Chunk(c) = SubSeq(p, 1, n)
  BY DEF Chunk, n
<1>5. /\ SubSeq(p, 1, n) \in Seq(Nat) /\ Len(SubSeq(p, 1, n)) = IF 1 <= n THEN n - 1 + 1 ELSE 0
      /\ \A i \in 1..(n - 1 + 1) : SubSeq(p, 1, n)[i] = p[1 + i - 1]
  BY <1>2, <1>3, SubSeqProperties
<1> HIDE DEF p
<1>6. Chunk(c) \in Seq(Nat) /\ Len(Chunk(c)) = n /\ \A i \in 1..n : Chunk(c)[i] = p[i]
  BY <1>2, <1>4, <1>5
<1>7. \A j \in 1..n : Chunk(c)[j] \in Range(Chunk(c))
  BY <1>6 DEF Range
<1> QED BY <1>2, <1>6, <1>7 DEF p

\* What is taken from the pending records is accepted.
LEMMA PostKeepsInv ==
    ASSUME SdkInv, NEW c \in Clients, Post(c)
    PROVE  SdkInv'
<1>1. CASE Return(c) /\ UNCHANGED Disk /\ accepted \subseteq accepted'
  BY <1>1, ReturnKeepsInv, MineTyped DEF Disk
<1>2. CASE /\ mine' = [mine EXCEPT ![c].chunk = Len(Chunk(c)), ![c].pending = Drop(@, Len(Chunk(c)))]
           /\ at[c] = "post" /\ SdkGoto(c, "lines") /\ UNCHANGED Disk
           /\ accepted' = accepted \cup Range(Chunk(c))
  <2>1. PICK n \in Nat, p \in Seq(Nat), q \in Seq(Nat) :
            n = Len(Chunk(c)) /\ p = mine[c].pending /\ q = Drop(p, n)
    <3>1. mine[c].pending \in Seq(Nat) /\ Len(Chunk(c)) \in Nat
      BY MineTyped, LocalFields, ChunkFacts
    <3> QED BY <3>1, DropFacts
  <2>2. /\ Len(q) = IF n <= Len(p) THEN Len(p) - n ELSE 0
        /\ \A i \in 1..Len(q) : i + n \in 1..Len(p) /\ q[i] = p[i + n]
    BY <2>1, DropFacts
  <2>3. n <= Len(p) /\ \A j \in 1..n : p[j] \in accepted'
    BY <1>2, <2>1, ChunkFacts
  <2>8. mine[c] \in Local
    BY MineTyped
  <2>9. PICK m : m = [mine[c] EXCEPT !.chunk = n, !.pending = q]
    OBVIOUS
  <2>4. m \in Local /\ m.chunk = n /\ m.pending = q
    BY <2>8, <2>9 DEF Local
  <2>5. /\ mine' = [mine EXCEPT ![c] = m] /\ at' = [at EXCEPT ![c] = "lines"]
        /\ UNCHANGED <<made, lines, open, head>>
    BY <1>2, <2>1, <2>9 DEF SdkInv, SdkTypeOK, SdkGoto, Disk
  <2>6. mine'[c].pending = q /\ Readable' = Readable /\ accepted \subseteq accepted'
    BY <1>2, <2>4, <2>5 DEF SdkInv, SdkTypeOK, Readable
  <2>7. Behind(c, n)'
    <3> SUFFICES ASSUME NEW i \in Readable, lines[i] \notin accepted'
                 PROVE  \E j \in 1..Len(q) : j + n <= i /\ q[j] = lines[i]
      BY <2>5, <2>6 DEF Behind
    <3>1. Behind(c, 0)
      BY <1>2 DEF SdkInv, DrainBehind
    <3>2. PICK j \in 1..Len(p) : j + 0 <= i /\ p[j] = lines[i]
      BY <2>1, <2>6, <3>1 DEF Behind
    <3>3. i \in Nat /\ Len(p) \in Nat
      BY MineTyped, ReadableFinite
    <3>4. j > n
      BY <2>3, <3>2, <3>3
    <3>5. j - n \in 1..Len(q) /\ (j - n) + n = j /\ (j - n) + n <= i
      BY <2>2, <2>3, <3>2, <3>3, <3>4
    <3> QED BY <2>2, <3>2, <3>5
  <2> QED BY <2>4, <2>5, <2>6, <2>7, MineTyped, QuietKeepsInv DEF SdkSteps
<1> QED BY <1>1, <1>2 DEF Post, Drained

LEMMA ReadLinesKeepsInv ==
    ASSUME SdkInv, NEW c \in Clients, ReadLines(c)
    PROVE  SdkInv'
<1>1. PICK q \in Seq(Nat), n \in Nat : n = mine[c].chunk /\ q = Drop(lines, n)
  <2>1. mine[c].chunk \in Nat /\ lines \in Seq(Nat)
    BY MineTyped, LocalFields
  <2> QED BY <2>1, DropFacts
<1>0. mine[c] \in Local
  BY MineTyped
<1>7. PICK m : m = [mine[c] EXCEPT !.kept = q]
  OBVIOUS
<1>2. m \in Local /\ m.kept = q /\ m.chunk = n /\ m.pending = mine[c].pending
  BY <1>0, <1>1, <1>7 DEF Local
<1>3. /\ at[c] = "lines" /\ mine' = [mine EXCEPT ![c] = m] /\ at' = [at EXCEPT ![c] = "replace"]
      /\ UNCHANGED <<made, lines, open, head, accepted>>
  BY <1>1, <1>7 DEF ReadLines, SdkInv, SdkTypeOK, SdkGoto, Disk
<1>4. Behind(c, n)
  BY <1>1, <1>3 DEF SdkInv, DrainBehind
<1>5. mine'[c].pending = mine[c].pending /\ Readable' = Readable
  BY <1>2, <1>3 DEF SdkInv, SdkTypeOK, Readable
<1>6. Behind(c, n)'
  BY <1>3, <1>4, <1>5 DEF Behind
<1>8. head' \in [next : Nat, prev : Nat] /\ accepted \subseteq accepted' /\ m.kept = Drop(lines, m.chunk)
  BY <1>1, <1>2, <1>3, MineTyped
<1> QED BY <1>2, <1>3, <1>6, <1>8, QuietKeepsInv DEF SdkSteps

\* What the file is replaced by: as many lines fewer as records were taken.
LEMMA ReplaceFacts ==
    ASSUME SdkInv, NEW c \in Clients, ReplaceFile(c)
    PROVE  LET n == mine[c].chunk
           IN  /\ n \in Nat /\ Behind(c, n) /\ made' = made /\ accepted' = accepted
               /\ lines' \in Seq(Nat) /\ Len(lines') = (IF n <= Len(lines) THEN Len(lines) - n ELSE 0)
               /\ \A i \in 1..Len(lines') : i + n \in 1..Len(lines) /\ lines'[i] = lines[i + n]
<1> DEFINE n == mine[c].chunk
<1>1. n \in Nat /\ lines \in Seq(Nat)
  BY MineTyped, LocalFields
<1>2. at[c] = "replace" /\ lines' = mine[c].kept /\ made' = made /\ accepted' = accepted
  BY DEF ReplaceFile
<1>3. Behind(c, n) /\ lines' = Drop(lines, n)
  BY <1>2 DEF SdkInv, DrainBehind
<1> HIDE DEF n
<1>4. /\ lines' \in Seq(Nat) /\ Len(lines') = (IF n <= Len(lines) THEN Len(lines) - n ELSE 0)
      /\ \A i \in 1..Len(lines') : i + n \in 1..Len(lines) /\ lines'[i] = lines[i + n]
  BY <1>1, <1>3, DropFacts
<1> QED BY <1>1, <1>2, <1>3, <1>4 DEF n

LEMMA ReplaceKeepsInv ==
    ASSUME OneClientAtATime, SdkInv, NEW c \in Clients, ReplaceFile(c)
    PROVE  SdkInv'
<1>1. PICK n : n = mine[c].chunk
  OBVIOUS
<1>2. /\ n \in Nat /\ Behind(c, n) /\ made' = made /\ accepted' = accepted
      /\ lines' \in Seq(Nat) /\ Len(lines') = (IF n <= Len(lines) THEN Len(lines) - n ELSE 0)
      /\ \A i \in 1..Len(lines') : i + n \in 1..Len(lines) /\ lines'[i] = lines[i + n]
  BY <1>1, ReplaceFacts
<1>3. /\ LinesLinked' /\ \A i \in 1..Len(lines') : lines'[i] <= Len(made')
      /\ \A i \in Readable' : i \in Nat /\ i + n \in Readable /\ lines'[i] = lines[i + n]
  BY <1>2, DropLinked
<1>0. mine[c] \in Local /\ <<>> \in Seq(Nat)
  BY MineTyped
<1>11. PICK m : m = [mine[c] EXCEPT !.kept = <<>>, !.chunk = 0]
  OBVIOUS
<1>4. m \in Local /\ m.pending = mine[c].pending
  <2>1. PICK e \in Seq(Nat) : e = <<>>
    BY <1>0
  <2>2. m = [mine[c] EXCEPT !.kept = e, !.chunk = 0]
    BY <1>11, <2>1
  <2> QED BY <1>0, <2>2 DEF Local
<1>5. PICK s \in {"idle", "post"} : at' = [at EXCEPT ![c] = s]
  BY DEF ReplaceFile, SdkGoto
<1>6. at[c] = "replace" /\ open' = FALSE /\ head' = head /\ mine' = [mine EXCEPT ![c] = m]
  BY <1>11 DEF ReplaceFile, SdkInv, SdkTypeOK
<1>7. mine' \in [Clients -> Local] /\ at' \in [Clients -> SdkSteps] /\ mine'[c].pending = mine[c].pending
  BY <1>4, <1>5, <1>6 DEF SdkInv, SdkTypeOK, SdkSteps
<1>8. SdkTypeOK' /\ LinesMade'
  BY <1>2, <1>3, <1>6, <1>7 DEF SdkInv, SdkTypeOK, LinesMade
<1>9. Behind(c, 0)'
  <2> SUFFICES ASSUME NEW i \in Readable', lines'[i] \notin accepted
               PROVE  \E j \in 1..Len(mine[c].pending) : j + 0 <= i /\ mine[c].pending[j] = lines'[i]
    BY <1>2, <1>7 DEF Behind
  <2>1. i \in Nat /\ i + n \in Readable /\ lines'[i] = lines[i + n]
    BY <1>3
  <2>2. PICK j \in 1..Len(mine[c].pending) : j + n <= i + n /\ mine[c].pending[j] = lines[i + n]
    BY <1>2, <2>1 DEF Behind
  <2>3. j \in Nat
    BY MineTyped, LocalFields
  <2>4. j + 0 <= i
    BY <1>2, <2>1, <2>2, <2>3
  <2> QED BY <2>1, <2>2, <2>4
<1>10. ClaimNext' /\ DrainBehind'
  BY <1>5, <1>6, <1>9, AloneKeeps DEF SdkSteps
<1> QED BY <1>3, <1>8, <1>10 DEF SdkInv

LEMMA CrashKeepsInv ==
    ASSUME SdkInv, NEW c \in Clients, SdkCrash(c) \/ TearHead(c)
    PROVE  SdkInv'
<1>1. head' \in [next : Nat, prev : Nat]
  BY MineTyped DEF SdkCrash, TearHead, TornHead, Disk
<1> QED BY <1>1, ReturnKeepsInv DEF SdkCrash, TearHead, Disk

LEMMA SdkNextInv == OneClientAtATime /\ SdkInv /\ [SdkNext]_sdkVars => SdkInv'
<1> SUFFICES ASSUME OneClientAtATime, SdkInv, [SdkNext]_sdkVars PROVE SdkInv'
  OBVIOUS
<1>1. CASE UNCHANGED sdkVars
  BY <1>1 DEF sdkVars, SdkInv, SdkTypeOK, LinesMade, LinesLinked, ClaimNext, DrainBehind, Readable, Follows,
              Behind, Drop
<1>2. ASSUME NEW c \in Clients, GateOnline(c) \/ \E poison \in BOOLEAN : GateOffline(c, poison) PROVE SdkInv'
  BY <1>2, GateKeepsInv
<1>3. ASSUME NEW c \in Clients, OfflineStep(c) PROVE SdkInv'
  BY <1>3, SignKeepsInv, AppendKeepsInv, RememberKeepsInv DEF OfflineStep
<1>4. ASSUME NEW c \in Clients, DrainStep(c) PROVE SdkInv'
  BY <1>4, ReadQueueKeepsInv, RegisterKeepsInv, PostKeepsInv, ReadLinesKeepsInv, ReplaceKeepsInv DEF DrainStep
<1>5. ASSUME NEW c \in Clients, SdkCrash(c) \/ TearAppend(c) \/ TearHead(c) PROVE SdkInv'
  BY <1>5, CrashKeepsInv, TearKeepsInv
<1> QED BY <1>1, <1>2, <1>3, <1>4, <1>5 DEF SdkNext, ClientStep

LEMMA SdkAlways == SdkSpec /\ []OneClientAtATime => []SdkInv
BY SdkInitInv, SdkNextInv, PTL DEF SdkSpec

-----------------------------------------------------------------------------
\* The queued records form one chain, each linked to its predecessor, whatever is
\* torn, lost or handed over, for any number of records, as long as the clients
\* that share the state directory do not overlap (OfflineStore, _drain_offline).
THEOREM QueueStaysLinked == SdkSpec /\ []OneClientAtATime => []QueueLinked
<1>1. SdkInv => QueueLinked
  <2> SUFFICES ASSUME SdkInv, NEW n \in 1..(Len(ReadAll) - 1)
               PROVE  /\ made[ReadAll[n + 1]].prev = ReadAll[n]
                      /\ made[ReadAll[n + 1]].seq = made[ReadAll[n]].seq + 1
    BY DEF QueueLinked
  <2>1. lines \in Seq(Nat)
    BY DEF SdkInv, SdkTypeOK
  <2>2. PICK i \in Readable, k \in Readable :
            /\ i < k /\ ReadAll[n] = lines[i] /\ ReadAll[n + 1] = lines[k]
            /\ \A j \in Readable : ~(i < j /\ j < k)
    BY <2>1, ReadAllNeighbours
  <2>3. Follows(lines[k], i)
    BY <2>2 DEF SdkInv, LinesLinked
  <2> QED BY <2>2, <2>3 DEF Follows
<1> QED BY <1>1, SdkAlways, PTL

\* What a step may do to the file.
LEMMA FileSteps ==
    ASSUME SdkInv, SdkNext
    PROVE  \/ lines' = lines
           \/ \E x \in Nat : lines' = Append(lines, x)
           \/ open /\ \E x \in {0, lines[Len(lines)]} : lines' = [lines EXCEPT ![Len(lines)] = x]
           \/ \E c \in Clients : ReplaceFile(c)
<1>1. PICK c \in Clients : \/ ClientStep(c) \/ SdkCrash(c) \/ TearAppend(c) \/ TearHead(c)
                           \/ \E poison \in BOOLEAN : GateOffline(c, poison)
  BY DEF SdkNext
<1>2. mine[c].rec \in Nat
  BY MineTyped, LocalFields
<1>3. CASE AppendRecord(c)
  BY <1>2, <1>3 DEF AppendRecord, Appended
<1>4. CASE TearAppend(c)
  BY <1>2, <1>4 DEF TearAppend, Appended
<1>5. CASE ReplaceFile(c)
  BY <1>5
<1>6. CASE GateOnline(c) \/ SignClaim(c) \/ RememberHead(c) \/ SdkCrash(c) \/ TearHead(c)
           \/ \E poison \in BOOLEAN : GateOffline(c, poison)
  BY <1>6 DEF GateOnline, SignClaim, RememberHead, SdkCrash, TearHead, GateOffline, Disk
<1>7. CASE ReadQueue(c) \/ Register(c) \/ Post(c) \/ ReadLines(c)
  BY <1>7 DEF ReadQueue, Register, Post, ReadLines, Drained, Disk
<1> QED BY <1>1, <1>3, <1>4, <1>5, <1>6, <1>7 DEF ClientStep, OfflineStep, DrainStep

LEMMA StepLeavesAccepted ==
    ASSUME SdkInv, [SdkNext]_sdkVars, NEW r \in Queued
    PROVE  r \in Queued' \/ r \in accepted' \/ (open /\ lines[Len(lines)] = r)
<1>1. PICK i \in 1..Len(lines) : lines[i] = r /\ r # 0 /\ r \in Records
  BY DEF Queued, Records
<1>2. lines \in Seq(Nat) /\ Len(lines) \in Nat /\ i \in Nat
  BY DEF SdkInv, SdkTypeOK
<1>3. (\E j \in 1..Len(lines') : lines'[j] = r) => r \in Queued'
  BY <1>1 DEF Queued, Records
<1>4. CASE lines' = lines
  BY <1>1, <1>3, <1>4
<1>5. CASE \E x \in Nat : lines' = Append(lines, x)
  <2>1. i \in 1..Len(lines') /\ lines'[i] = lines[i]
    BY <1>1, <1>2, <1>5, AppendFacts
  <2> QED BY <1>1, <1>3, <2>1
<1>6. CASE open /\ \E x \in {0, lines[Len(lines)]} : lines' = [lines EXCEPT ![Len(lines)] = x]
  <2>1. i # Len(lines) => i \in 1..Len(lines') /\ lines'[i] = lines[i]
    BY <1>1, <1>2, <1>6
  <2> QED BY <1>1, <1>3, <1>6, <2>1
<1>7. ASSUME NEW c \in Clients, ReplaceFile(c) PROVE r \in Queued' \/ r \in accepted'
  <2>1. PICK n : n = mine[c].chunk
    OBVIOUS
  <2>2. /\ n \in Nat /\ Behind(c, n) /\ made' = made /\ accepted' = accepted
        /\ lines' \in Seq(Nat) /\ Len(lines') = (IF n <= Len(lines) THEN Len(lines) - n ELSE 0)
        /\ \A j \in 1..Len(lines') : j + n \in 1..Len(lines) /\ lines'[j] = lines[j + n]
    BY <1>7, <2>1, ReplaceFacts
  <2>3. i \in Readable
    BY <1>1, <1>2 DEF Readable
  <2>4. CASE i > n
    <3>1. i - n \in 1..Len(lines') /\ (i - n) + n = i
      BY <1>1, <1>2, <2>2, <2>4
    <3> QED BY <1>1, <1>3, <2>2, <3>1
  <2>5. CASE i <= n
    <3>1. ASSUME NEW j \in 1..Len(mine[c].pending), j + n <= i PROVE FALSE
      <4>1. j \in Nat /\ j >= 1
        BY MineTyped, LocalFields
      <4> QED BY <1>2, <2>2, <2>5, <3>1, <4>1
    <3>2. lines[i] \in accepted
      BY <2>2, <2>3, <3>1 DEF Behind
    <3> QED BY <1>1, <2>2, <3>2
  <2> QED BY <1>2, <2>2, <2>4, <2>5
<1>8. CASE UNCHANGED sdkVars
  BY <1>4, <1>8 DEF sdkVars
<1> QED BY <1>4, <1>5, <1>6, <1>7, <1>8, FileSteps

\* A record leaves the queue only when the server took it, under the same
\* hypothesis (_drain_offline, OfflineStore.drop).
THEOREM TakenBeforeDropped == SdkSpec /\ []OneClientAtATime => LeavesOnlyAccepted
<1>1. SdkInv /\ [SdkNext]_sdkVars =>
          [\A r \in Queued :
              \/ r \in Queued' \/ r \in accepted'
              \/ open /\ lines[Len(lines)] = r]_sdkVars
  BY StepLeavesAccepted
<1> QED BY <1>1, SdkAlways, PTL DEF SdkSpec, LeavesOnlyAccepted
=============================================================================
