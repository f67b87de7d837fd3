--------------------------- MODULE GateFlowProofs ---------------------------
(***************************************************************************)
(* What GateFlow says of decisions, their index and their approvals, for   *)
(* any number of workers, any rulings and any bounds.                      *)
(***************************************************************************)
EXTENDS GateFlow, FiniteSetTheorems, SequenceTheorems, TLAPS

\* A row of approvals.
Approval == [id : Nat, tx : Nat, status : {"pending"} \cup Outcomes]

-----------------------------------------------------------------------------
(* The invariant, of a chain c, an index I and approvals A.  It is stated   *)
(* of these rather than of the variables because a replay extends the chain *)
(* twice in one step.                                                       *)

\* The types, and no event refers to a later one.
Formed(c, I, A) ==
    /\ c \in Seq(Event) /\ I \subseteq IndexRow /\ A \subseteq Approval
    /\ \A n \in DOMAIN c : c[n].ref <= Len(c)

\* No two rows of the index are of the same decision.
OneRowEach(I) == \A r, s \in I : r.seq = s.seq => r = s

\* A row of the index repeats its decision, and is the only one to do so.
RowsMatch(c, I) ==
    /\ \A r \in I :
          /\ r.seq \in DOMAIN c /\ IsDecision(c[r.seq])
          /\ r.tier = c[r.seq].tier /\ r.allowed = c[r.seq].allowed
          /\ r.of = c[r.seq].ref
          /\ r.status # None =>
                /\ r.status = DeriveStatus(c[r.seq])
                /\ r.output = r.seq + 1
                /\ r.output \in DOMAIN c /\ c[r.output] = Output
    /\ OneRowEach(I)
    /\ \A n \in DOMAIN c : IsDecision(c[n]) /\ ~c[n].failed => \E r \in I : r.seq = n

\* Event n is a compliant decision made as the cure of decision k.
Cures(c, n, k) == IsDecision(c[n]) /\ c[n].ref = k /\ DeriveStatus(c[n]) = "compliant"

\* A row names the last cure of its decision.
LastCure(c, I) ==
    \A r \in I :
        /\ r.cured = 0 => \A n \in DOMAIN c : ~Cures(c, n, r.seq)
        /\ r.cured # 0 =>
              /\ r.cured \in DOMAIN c /\ Cures(c, r.cured, r.seq) /\ r.cured > r.seq
              /\ \A n \in DOMAIN c : Cures(c, n, r.seq) => n <= r.cured
              /\ r.status \in {"flagged", "blocked"}

\* An approval belongs to an event, which has no other, and every high-risk
\* decision has one.
AskedOnce(c, A) ==
    /\ \A a \in A : a.id \in DOMAIN c
    /\ \A a, b \in A : a.id = b.id => a = b
    /\ \A n \in DOMAIN c :
          IsDecision(c[n]) /\ c[n].tier \in {"orange", "red"} => \E a \in A : a.id = n

\* Event n resolves approval k.
Resolves(c, n, k) == c[n].type \in Outcomes /\ c[n].ref = k

\* The status of an approval is that of its last resolution.
LastResolution(c, A) ==
    \A a \in A :
        /\ a.status = "pending" => \A n \in DOMAIN c : ~Resolves(c, n, a.id)
        /\ a.status # "pending" =>
              \E n \in DOMAIN c : /\ Resolves(c, n, a.id) /\ c[n].type = a.status
                                  /\ \A m \in DOMAIN c : Resolves(c, m, a.id) => m <= n

\* Nothing else is listed: no row is of a decision made while the engine had
\* failed or names an output without a verdict, and only high-risk decisions
\* have approvals.
Listed(c, I, A) ==
    /\ \A r \in I : ~c[r.seq].failed /\ (r.status = None => r.output = 0)
    /\ \A a \in A : IsDecision(c[a.id]) /\ c[a.id].tier \in {"orange", "red"}

\* What every committed state satisfies.
Sound(c, I, A) ==
    /\ Formed(c, I, A) /\ RowsMatch(c, I) /\ LastCure(c, I)
    /\ AskedOnce(c, A) /\ LastResolution(c, A) /\ Listed(c, I, A)

\* Curable, of an index.
CurableIn(I, k) == \E r \in I : r.seq = k /\ r.status \in {"flagged", "blocked"}

-----------------------------------------------------------------------------
(* Decisions.                                                              *)

\* combined_tier returns a tier.
LEMMA CombinedTierType ==
    ASSUME NEW own \in Tiers, NEW pack \in Tiers \cup {None}
    PROVE  CombinedTier(own, pack) \in Tiers
BY DEF CombinedTier

\* run_precheck seals a policy_decision that refers to what it was meant to
\* cure or to nothing.
LEMMA DecisionType ==
    ASSUME NEW of \in Nat, NEW d \in Decisions(of)
    PROVE  d \in Event /\ IsDecision(d) /\ d.ref \in {0, of}
<1>1. CASE d = FailClosed
  BY <1>1 DEF FailClosed, Event, IsDecision, Tiers, TierRank
<1>2. ASSUME NEW r \in Rulings, d = Judged(r, of) \/ d = Judged(Waved(r), of)
      PROVE  d \in Event /\ IsDecision(d) /\ d.ref \in {0, of}
  <2>1. r \in [tier : Tiers, allowed : BOOLEAN, pack : Tiers \cup {None}]
    BY GateAssumption
  <2>2. Waved(r) \in [tier : Tiers, allowed : BOOLEAN, pack : Tiers \cup {None}]
    BY <2>1 DEF Waved, Tiers, TierRank
  <2>3. ASSUME NEW q \in [tier : Tiers, allowed : BOOLEAN, pack : Tiers \cup {None}]
        PROVE  Judged(q, of) \in Event /\ IsDecision(Judged(q, of)) /\ Judged(q, of).ref = of
    BY CombinedTierType DEF Judged, Event, IsDecision
  <2> QED BY <1>2, <2>1, <2>2, <2>3
<1> QED BY <1>1, <1>2 DEF Decisions

\* The other events are no decisions.
LEMMA PlainType ==
    /\ Output \in Event /\ ~IsDecision(Output) /\ Output.type \notin Outcomes /\ Output.ref = 0
    /\ \A status \in Outcomes, a \in Nat :
          /\ Resolution(status, a) \in Event /\ ~IsDecision(Resolution(status, a))
          /\ Resolution(status, a).type = status /\ Resolution(status, a).ref = a
BY DEF Output, Resolution, Plain, Event, IsDecision, Outcomes, Tiers, TierRank

\* derive_status gives one of three verdicts.
LEMMA DeriveStatusType ==
    ASSUME NEW d PROVE DeriveStatus(d) \in {"compliant", "flagged", "blocked"}
BY DEF DeriveStatus

-----------------------------------------------------------------------------
(* What is appended to a chain.                                            *)

\* Decision d closes decision k.
Closes(d, k) == d.ref # 0 /\ k = d.ref /\ DeriveStatus(d) = "compliant"

\* IndexRow q is row r after decision d at number n.
RowAfter(q, r, d, n) ==
    /\ q.seq = r.seq /\ q.tier = r.tier /\ q.allowed = r.allowed /\ q.of = r.of
    /\ q.status = r.status /\ q.output = r.output
    /\ q.cured = IF Closes(d, r.seq) THEN n ELSE r.cured

\* The rows K are the rows I after decision d at number n.
RowsAfter(K, I, d, n) ==
    /\ K \subseteq IndexRow
    /\ \A q \in K : \E r \in I : RowAfter(q, r, d, n)
    /\ \A r \in I : \E q \in K : RowAfter(q, r, d, n)
    /\ OneRowEach(I) => OneRowEach(K)

\* Close keeps every row and changes only the cure of the one it closes.
LEMMA CloseRows ==
    ASSUME NEW I \in SUBSET IndexRow, NEW d \in Event, NEW n \in Nat
    PROVE  RowsAfter(Close(I, d, n), I, d, n)
<1> DEFINE F(r) == IF Closes(d, r.seq) THEN [r EXCEPT !.cured = n] ELSE r
<1>1. Close(I, d, n) = {F(r) : r \in I}
  BY DEF Close, Closes
<1>2. ASSUME NEW r \in IndexRow PROVE F(r) \in IndexRow /\ RowAfter(F(r), r, d, n)
  BY DEF IndexRow, RowAfter
<1> HIDE DEF F
<1>3. \A r \in I : F(r) \in IndexRow /\ RowAfter(F(r), r, d, n)
  BY <1>2
<1>4. Close(I, d, n) \subseteq IndexRow
  BY <1>1, <1>3
<1>5. \A q \in Close(I, d, n) : \E r \in I : q = F(r) /\ RowAfter(q, r, d, n)
  BY <1>1, <1>3
<1>6. \A r \in I : \E q \in Close(I, d, n) : RowAfter(q, r, d, n)
  BY <1>1, <1>3
<1>7. ASSUME OneRowEach(I),
             NEW p \in Close(I, d, n), NEW q \in Close(I, d, n), p.seq = q.seq
      PROVE  p = q
  <2>1. PICK r \in I : p = F(r) /\ p.seq = r.seq
    BY <1>5 DEF RowAfter
  <2>2. PICK s \in I : q = F(s) /\ q.seq = s.seq
    BY <1>5 DEF RowAfter
  <2> QED BY <1>7, <2>1, <2>2 DEF OneRowEach
<1> QED BY <1>4, <1>5, <1>6, <1>7 DEF RowsAfter, OneRowEach

\* What IndexRows and ApprovalRows add.
LEMMA NewRows ==
    ASSUME NEW d \in Event, NEW n \in Nat, NEW gated \in BOOLEAN
    PROVE  /\ IndexRows(d, n, gated) \subseteq IndexRow
           /\ \A r \in IndexRows(d, n, gated) :
                 /\ r.seq = n /\ r.tier = d.tier /\ r.allowed = d.allowed /\ r.of = d.ref /\ r.cured = 0
                 /\ r.status # None => gated /\ r.status = DeriveStatus(d) /\ r.output = n + 1
           /\ \A r \in IndexRows(d, n, gated) : ~d.failed /\ (r.status = None => r.output = 0)
           /\ OneRowEach(IndexRows(d, n, gated))
           /\ ~d.failed => \E r \in IndexRows(d, n, gated) : r.seq = n
<1>1. d.tier \in Tiers /\ d.allowed \in BOOLEAN /\ d.ref \in Nat
  BY DEF Event
<1>2. DeriveStatus(d) \in {"compliant", "flagged", "blocked"}
  BY DeriveStatusType
<1>3. IndexRows(d, n, gated) \subseteq IndexRow
  BY <1>1, <1>2 DEF IndexRows, IndexRow
<1>4. \A r \in IndexRows(d, n, gated) :
         /\ r.seq = n /\ r.tier = d.tier /\ r.allowed = d.allowed /\ r.of = d.ref /\ r.cured = 0
         /\ r.status # None => gated /\ r.status = DeriveStatus(d) /\ r.output = n + 1
  BY DEF IndexRows
<1>5. OneRowEach(IndexRows(d, n, gated))
  BY DEF IndexRows, OneRowEach
<1>6. ~d.failed => \E r \in IndexRows(d, n, gated) : r.seq = n
  BY DEF IndexRows
<1>7. \A r \in IndexRows(d, n, gated) : ~d.failed /\ (r.status = None => r.output = 0)
  <2>1. DeriveStatus(d) # None
    BY <1>2, GateAssumption
  <2> QED BY <2>1 DEF IndexRows
<1> QED BY <1>3, <1>4, <1>5, <1>6, <1>7

\* The approval a decision asks for.
LEMMA NewApprovals ==
    ASSUME NEW d \in Event, NEW n \in Nat, NEW t \in Nat
    PROVE  /\ ApprovalRows(d, n, t) \subseteq Approval
           /\ \A a \in ApprovalRows(d, n, t) : a = [id |-> n, tx |-> t, status |-> "pending"]
           /\ d.tier \in {"orange", "red"} => \E a \in ApprovalRows(d, n, t) : a.id = n
           /\ ApprovalRows(d, n, t) # {} => d.tier \in {"orange", "red"}
<1>1. ApprovalRows(d, n, t) \subseteq Approval
  BY DEF ApprovalRows, Approval
<1>2. \A a \in ApprovalRows(d, n, t) : a = [id |-> n, tx |-> t, status |-> "pending"]
  BY DEF ApprovalRows
<1>3. d.tier \in {"orange", "red"} => \E a \in ApprovalRows(d, n, t) : a.id = n
  BY DEF ApprovalRows, NeedsApproval
<1>4. ApprovalRows(d, n, t) # {} => d.tier \in {"orange", "red"}
  BY DEF ApprovalRows, NeedsApproval
<1> QED BY <1>1, <1>2, <1>3, <1>4

\* A chain with the events of a gate call, or of a precheck, at its end.
LEMMA Extension ==
    ASSUME NEW c \in Seq(Event), NEW d \in Event, NEW gated \in BOOLEAN,
           NEW e \in {c \o (IF gated THEN <<d, Output>> ELSE <<d>>)}
    PROVE  /\ e \in Seq(Event) /\ Len(e) = Len(c) + (IF gated THEN 2 ELSE 1)
           /\ \A m \in DOMAIN c : m \in DOMAIN e /\ e[m] = c[m]
           /\ Len(c) + 1 \in DOMAIN e /\ e[Len(c) + 1] = d
           /\ gated => Len(c) + 2 \in DOMAIN e /\ e[Len(c) + 2] = Output
           /\ \A m \in DOMAIN e : \/ m \in DOMAIN c
                                  \/ m = Len(c) + 1
                                  \/ gated /\ m = Len(c) + 2
<1> DEFINE s == IF gated THEN <<d, Output>> ELSE <<d>>
           k == IF gated THEN 2 ELSE 1
<1>1. Output \in Event
  BY PlainType
<1>2. /\ s \in Seq(Event) /\ Len(s) = k /\ k \in {1, 2} /\ (k = 2 <=> gated)
      /\ s[1] = d /\ (gated => s[2] = Output)
  BY <1>1
<1>3. e = c \o s
  OBVIOUS
<1> HIDE DEF s, k
<1>4. /\ e \in Seq(Event) /\ Len(e) = Len(c) + k
      /\ \A i \in 1..Len(c) + k : e[i] = IF i <= Len(c) THEN c[i] ELSE s[i - Len(c)]
  BY <1>2, <1>3, ConcatProperties
<1>5. Len(c) \in Nat /\ DOMAIN c = 1..Len(c) /\ DOMAIN e = 1..Len(c) + k
  BY <1>4, LenProperties
<1>6. \A m \in DOMAIN c : m \in DOMAIN e /\ e[m] = c[m]
  BY <1>2, <1>4, <1>5
<1>7. Len(c) + 1 \in DOMAIN e /\ e[Len(c) + 1] = d
  BY <1>2, <1>4, <1>5
<1>8. gated => Len(c) + 2 \in DOMAIN e /\ e[Len(c) + 2] = Output
  BY <1>2, <1>4, <1>5
<1>9. \A m \in DOMAIN e : m \in DOMAIN c \/ m = Len(c) + 1 \/ (gated /\ m = Len(c) + 2)
  BY <1>2, <1>5
<1> QED BY <1>4, <1>6, <1>7, <1>8, <1>9 DEF k

-----------------------------------------------------------------------------
(* Each kind of append keeps the invariant.                                *)

\* run_gate and run_precheck: decision d, its rows and, in the gate, the output.
LEMMA DecisionSound ==
    ASSUME NEW c, NEW I, NEW A, Sound(c, I, A),
           NEW of \in Nat, of # 0 => CurableIn(I, of), NEW d \in Decisions(of),
           NEW gated \in BOOLEAN, NEW t \in Nat,
           NEW e, e = c \o (IF gated THEN <<d, Output>> ELSE <<d>>),
           NEW J, J = Close(I, d, Len(c) + 1) \cup IndexRows(d, Len(c) + 1, gated),
           NEW B, B = A \cup ApprovalRows(d, Len(c) + 1, t)
    PROVE  Sound(e, J, B)
<1> DEFINE n == Len(c) + 1
           K == Close(I, d, n)
           N == IndexRows(d, n, gated)
           P == ApprovalRows(d, n, t)
<1>1. c \in Seq(Event) /\ I \subseteq IndexRow /\ A \subseteq Approval
  BY DEF Sound, Formed
<1>2. Len(c) \in Nat /\ n \in Nat /\ DOMAIN c = 1..Len(c)
  BY <1>1, LenProperties
<1>3. d \in Event /\ IsDecision(d) /\ d.ref \in {0, of} /\ d.type \notin Outcomes
  BY DecisionType DEF IsDecision, Outcomes
<1>4. /\ e \in Seq(Event) /\ Len(e) = Len(c) + (IF gated THEN 2 ELSE 1)
      /\ \A m \in DOMAIN c : m \in DOMAIN e /\ e[m] = c[m]
      /\ n \in DOMAIN e /\ e[n] = d
      /\ gated => n + 1 \in DOMAIN e /\ e[n + 1] = Output
      /\ \A m \in DOMAIN e : m \in DOMAIN c \/ m = n \/ (gated /\ m = n + 1)
  <2>1. n + 1 = Len(c) + 2
    BY <1>2
  <2>2. /\ e \in Seq(Event) /\ Len(e) = Len(c) + (IF gated THEN 2 ELSE 1)
        /\ \A m \in DOMAIN c : m \in DOMAIN e /\ e[m] = c[m]
        /\ Len(c) + 1 \in DOMAIN e /\ e[Len(c) + 1] = d
        /\ gated => Len(c) + 2 \in DOMAIN e /\ e[Len(c) + 2] = Output
        /\ \A m \in DOMAIN e : \/ m \in DOMAIN c
                               \/ m = Len(c) + 1
                               \/ gated /\ m = Len(c) + 2
    <3>1. e \in {c \o (IF gated THEN <<d, Output>> ELSE <<d>>)}
      OBVIOUS
    <3> QED BY <1>1, <1>3, <3>1, Extension
  <2> QED BY <2>1, <2>2, Zenon
<1>5. /\ K \subseteq IndexRow
      /\ \A q \in K : \E r \in I : RowAfter(q, r, d, n)
      /\ \A r \in I : \E q \in K : RowAfter(q, r, d, n)
      /\ OneRowEach(I) => OneRowEach(K)
  <2>1. I \in SUBSET IndexRow
    BY <1>1
  <2>2. RowsAfter(K, I, d, n)
    BY <1>2, <1>3, <2>1, CloseRows
  <2> HIDE DEF K, n
  <2> QED BY <2>2 DEF RowsAfter
<1>6. /\ N \subseteq IndexRow
      /\ \A r \in N :
            /\ r.seq = n /\ r.tier = d.tier /\ r.allowed = d.allowed /\ r.of = d.ref /\ r.cured = 0
            /\ r.status # None => gated /\ r.status = DeriveStatus(d) /\ r.output = n + 1
      /\ \A r \in N : ~d.failed /\ (r.status = None => r.output = 0)
      /\ OneRowEach(N)
      /\ ~d.failed => \E r \in N : r.seq = n
  BY <1>2, <1>3, NewRows
<1>7. /\ P \subseteq Approval
      /\ \A a \in P : a.id = n /\ a.status = "pending"
      /\ \A a, b \in P : a = b
      /\ d.tier \in {"orange", "red"} => \E a \in P : a.id = n
      /\ P # {} => d.tier \in {"orange", "red"}
  <2>1. /\ P \subseteq Approval
        /\ \A a \in P : a = [id |-> n, tx |-> t, status |-> "pending"]
        /\ d.tier \in {"orange", "red"} => \E a \in P : a.id = n
        /\ P # {} => d.tier \in {"orange", "red"}
    <3> HIDE DEF n
    <3> QED BY <1>2, <1>3, NewApprovals
  <2> HIDE DEF P, n
  <2>2. \A a \in P : a.id = n /\ a.status = "pending"
    BY <2>1
  <2>3. \A a, b \in P : a = b
    BY <2>1, Zenon
  <2> QED BY <2>1, <2>2, <2>3
<1>8. Output.ref = 0 /\ ~IsDecision(Output) /\ Output.type \notin Outcomes
  BY PlainType
<1>9. J = K \cup N /\ B = A \cup P
  BY Zenon
<1> HIDE DEF n, K, N, P
<1>10. n = Len(c) + 1
  BY DEF n
<1>11. d.ref <= Len(c)
  BY <1>2, <1>3 DEF Sound, RowsMatch, CurableIn
<1>12. Formed(e, J, B)
  <2>1. \A m \in DOMAIN e : e[m].ref <= Len(e)
    <3>1. Len(e) \in Nat /\ Len(c) <= Len(e)
      BY <1>2, <1>4
    <3>2. \A m \in DOMAIN c : c[m].ref \in Nat /\ c[m].ref <= Len(c)
      <4>1. \A m \in DOMAIN c : c[m] \in Event
        BY <1>1
      <4> QED BY <4>1 DEF Sound, Formed, Event
    <3>3. d.ref \in Nat
      BY <1>3
    <3> QED BY <1>2, <1>4, <1>8, <1>11, <3>1, <3>2, <3>3
  <2> QED BY <1>1, <1>4, <1>5, <1>6, <1>7, <1>9, <2>1 DEF Formed
<1>13. RowsMatch(e, J)
  <2>1. ASSUME NEW q \in K
        PROVE  /\ q.seq \in DOMAIN c /\ q.seq \in DOMAIN e /\ IsDecision(e[q.seq])
               /\ q.tier = e[q.seq].tier /\ q.allowed = e[q.seq].allowed
               /\ q.of = e[q.seq].ref
               /\ q.status # None =>
                     /\ q.status = DeriveStatus(e[q.seq])
                     /\ q.output = q.seq + 1
                     /\ q.output \in DOMAIN e /\ e[q.output] = Output
    <3>1. PICK r \in I : RowAfter(q, r, d, n)
      BY <1>5
    <3>2. r.seq \in DOMAIN c /\ e[r.seq] = c[r.seq]
      BY <1>4 DEF Sound, RowsMatch
    <3>3. r.output \in DOMAIN c => e[r.output] = c[r.output]
      BY <1>4
    <3> QED BY <1>4, <3>1, <3>2, <3>3 DEF Sound, RowsMatch, RowAfter
  <2>2. ASSUME NEW q \in N
        PROVE  /\ q.seq = n /\ q.seq \in DOMAIN e /\ IsDecision(e[q.seq])
               /\ q.tier = e[q.seq].tier /\ q.allowed = e[q.seq].allowed
               /\ q.of = e[q.seq].ref
               /\ q.status # None =>
                     /\ q.status = DeriveStatus(e[q.seq])
                     /\ q.output = q.seq + 1
                     /\ q.output \in DOMAIN e /\ e[q.output] = Output
    <3>1. q.seq = n /\ e[q.seq] = d
      BY <1>4, <1>6
    <3>2. q.tier = d.tier /\ q.allowed = d.allowed /\ q.of = d.ref
      BY <1>6
    <3>3. q.status # None => gated /\ q.status = DeriveStatus(d) /\ q.output = n + 1
      BY <1>6
    <3> QED BY <1>3, <1>4, <3>1, <3>2, <3>3
  <2>3. n \notin DOMAIN c
    BY <1>2, <1>10
  <2>4. OneRowEach(J)
    BY <1>5, <1>6, <1>9, <2>1, <2>2, <2>3 DEF OneRowEach, Sound, RowsMatch
  <2>5. ASSUME NEW m \in DOMAIN e, IsDecision(e[m]), ~e[m].failed
        PROVE  \E q \in J : q.seq = m
    <3>1. CASE m \in DOMAIN c
      <4>1. PICK r \in I : r.seq = m
        BY <1>4, <2>5, <3>1 DEF Sound, RowsMatch
      <4> QED BY <1>5, <1>9, <4>1 DEF RowAfter
    <3>2. CASE m = n
      BY <1>4, <1>6, <1>9, <2>5, <3>2
    <3> QED BY <1>4, <1>8, <2>5, <3>1, <3>2
  <2> QED BY <1>9, <2>1, <2>2, <2>4, <2>5 DEF RowsMatch
<1>14. LastCure(e, J)
  <2>1. \A m \in DOMAIN e, k \in Nat : Cures(e, m, k) =>
            (m \in DOMAIN c /\ Cures(c, m, k)) \/ (m = n /\ d.ref = k /\ DeriveStatus(d) = "compliant")
    BY <1>4, <1>8 DEF Cures
  <2>2. \A m \in DOMAIN c, k \in Nat : Cures(c, m, k) => m \in DOMAIN e /\ Cures(e, m, k)
    BY <1>4 DEF Cures
  <2>3. ASSUME NEW q \in K
        PROVE  /\ q.cured = 0 => \A m \in DOMAIN e : ~Cures(e, m, q.seq)
               /\ q.cured # 0 =>
                     /\ q.cured \in DOMAIN e /\ Cures(e, q.cured, q.seq) /\ q.cured > q.seq
                     /\ \A m \in DOMAIN e : Cures(e, m, q.seq) => m <= q.cured
                     /\ q.status \in {"flagged", "blocked"}
    <3>1. PICK r \in I : RowAfter(q, r, d, n)
      BY <1>5
    <3>2. r.seq \in DOMAIN c /\ r.seq \in Nat /\ r.seq # 0 /\ r.cured \in Nat
      BY <1>1, <1>2 DEF Sound, RowsMatch, IndexRow
    <3>3. CASE Closes(d, r.seq)
      <4>1. q.cured = n /\ q.seq = r.seq /\ n > r.seq /\ n # 0
        BY <1>2, <1>10, <3>1, <3>2, <3>3 DEF RowAfter
      <4>2. Cures(e, n, r.seq)
        BY <1>3, <1>4, <3>3 DEF Cures, Closes
      <4>3. \A m \in DOMAIN e : Cures(e, m, r.seq) => m <= n
        BY <1>2, <1>10, <2>1, <3>2
      <4>4. r.status \in {"flagged", "blocked"}
        <5>1. of # 0 /\ r.seq = of
          BY <1>3, <3>3 DEF Closes
        <5>2. PICK s \in I : s.seq = of /\ s.status \in {"flagged", "blocked"}
          BY <5>1 DEF CurableIn
        <5> QED BY <5>1, <5>2 DEF Sound, RowsMatch, OneRowEach
      <4> QED BY <1>4, <3>1, <4>1, <4>2, <4>3, <4>4 DEF RowAfter
    <3>4. CASE ~Closes(d, r.seq)
      <4>1. q.cured = r.cured /\ q.seq = r.seq /\ q.status = r.status
        BY <3>1, <3>4 DEF RowAfter
      <4>2. \A m \in DOMAIN e : Cures(e, m, r.seq) => m \in DOMAIN c /\ Cures(c, m, r.seq)
        BY <2>1, <3>2, <3>4 DEF Closes
      <4>3. /\ r.cured = 0 => \A m \in DOMAIN c : ~Cures(c, m, r.seq)
            /\ r.cured # 0 =>
                  /\ r.cured \in DOMAIN c /\ Cures(c, r.cured, r.seq) /\ r.cured > r.seq
                  /\ \A m \in DOMAIN c : Cures(c, m, r.seq) => m <= r.cured
                  /\ r.status \in {"flagged", "blocked"}
        BY DEF Sound, LastCure
      <4> QED BY <2>2, <3>2, <4>1, <4>2, <4>3
    <3> QED BY <3>3, <3>4
  <2>4. ASSUME NEW q \in N PROVE q.cured = 0 /\ \A m \in DOMAIN e : ~Cures(e, m, q.seq)
    <3>1. q.seq = n /\ q.cured = 0
      BY <1>6
    <3>2. \A m \in DOMAIN c : ~Cures(c, m, n)
      <4>1. \A m \in DOMAIN c : c[m] \in Event /\ c[m].ref <= Len(c)
        BY <1>1 DEF Sound, Formed
      <4> QED BY <1>2, <1>10, <4>1 DEF Cures, Event
    <3>3. d.ref # n
      BY <1>2, <1>3, <1>10, <1>11
    <3>4. \A m \in DOMAIN e : ~Cures(e, m, n)
      BY <1>2, <2>1, <3>2, <3>3
    <3> QED BY <3>1, <3>4
  <2> QED BY <1>9, <2>3, <2>4 DEF LastCure
<1>15. AskedOnce(e, B)
  <2>1. n \notin DOMAIN c
    BY <1>2, <1>10
  <2>2. \A a \in A : a.id \in DOMAIN c
    BY DEF Sound, AskedOnce
  <2>3. \A a \in B : a.id \in DOMAIN e
    BY <1>4, <1>7, <1>9, <2>2
  <2>4. \A a, b \in B : a.id = b.id => a = b
    BY <1>7, <1>9, <2>1, <2>2 DEF Sound, AskedOnce
  <2>5. ASSUME NEW m \in DOMAIN e, IsDecision(e[m]), e[m].tier \in {"orange", "red"}
        PROVE  \E a \in B : a.id = m
    <3>1. CASE m \in DOMAIN c
      BY <1>4, <1>9, <2>5, <3>1 DEF Sound, AskedOnce
    <3>2. CASE m = n
      BY <1>4, <1>7, <1>9, <2>5, <3>2
    <3> QED BY <1>4, <1>8, <2>5, <3>1, <3>2
  <2> QED BY <2>3, <2>4, <2>5 DEF AskedOnce
<1>16. LastResolution(e, B)
  <2>1. \A m \in DOMAIN e, k \in Nat : Resolves(e, m, k) => m \in DOMAIN c /\ Resolves(c, m, k)
    BY <1>3, <1>4, <1>8 DEF Resolves
  <2>2. \A m \in DOMAIN c, k \in Nat : Resolves(c, m, k) => m \in DOMAIN e /\ Resolves(e, m, k)
    BY <1>4 DEF Resolves
  <2>3. ASSUME NEW a \in A
        PROVE  /\ a.status = "pending" => \A m \in DOMAIN e : ~Resolves(e, m, a.id)
               /\ a.status # "pending" =>
                     \E m \in DOMAIN e : /\ Resolves(e, m, a.id) /\ e[m].type = a.status
                                         /\ \A l \in DOMAIN e : Resolves(e, l, a.id) => l <= m
    <3>1. a.id \in Nat
      BY <1>1 DEF Approval
    <3>2. CASE a.status = "pending"
      BY <2>1, <3>1, <3>2 DEF Sound, LastResolution
    <3>3. CASE a.status # "pending"
      <4>1. PICK m \in DOMAIN c : /\ Resolves(c, m, a.id) /\ c[m].type = a.status
                                  /\ \A l \in DOMAIN c : Resolves(c, l, a.id) => l <= m
        BY <3>3 DEF Sound, LastResolution
      <4>2. m \in DOMAIN e /\ Resolves(e, m, a.id) /\ e[m].type = a.status
        BY <1>4, <2>2, <3>1, <4>1
      <4>3. \A l \in DOMAIN e : Resolves(e, l, a.id) => l <= m
        BY <2>1, <3>1, <4>1
      <4> QED BY <3>3, <4>2, <4>3
    <3> QED BY <3>2, <3>3
  <2>4. ASSUME NEW a \in P
        PROVE  a.status = "pending" /\ \A m \in DOMAIN e : ~Resolves(e, m, a.id)
    <3>1. \A m \in DOMAIN c : c[m] \in Event /\ c[m].ref <= Len(c)
      BY <1>1 DEF Sound, Formed
    <3>2. \A m \in DOMAIN c : ~Resolves(c, m, n)
      BY <1>2, <1>10, <3>1 DEF Resolves, Event
    <3>3. \A m \in DOMAIN e : ~Resolves(e, m, n)
      BY <1>2, <2>1, <3>2
    <3>4. a.id = n /\ a.status = "pending"
      BY <1>7
    <3> QED BY <3>3, <3>4
  <2> QED BY <1>9, <2>3, <2>4 DEF LastResolution
<1>17. Listed(e, J, B)
  <2>1. ASSUME NEW r \in K PROVE ~e[r.seq].failed /\ (r.status = None => r.output = 0)
    <3>1. PICK q \in I : RowAfter(r, q, d, n)
      BY <1>5
    <3>2. q.seq \in DOMAIN c /\ ~c[q.seq].failed /\ (q.status = None => q.output = 0)
      BY DEF Sound, RowsMatch, Listed
    <3> QED BY <1>4, <3>1, <3>2 DEF RowAfter
  <2>2. ASSUME NEW r \in N PROVE ~e[r.seq].failed /\ (r.status = None => r.output = 0)
    BY <1>4, <1>6
  <2>3. ASSUME NEW a \in A PROVE IsDecision(e[a.id]) /\ e[a.id].tier \in {"orange", "red"}
    BY <1>4 DEF Sound, AskedOnce, Listed
  <2>4. ASSUME NEW a \in P PROVE IsDecision(e[a.id]) /\ e[a.id].tier \in {"orange", "red"}
    BY <1>3, <1>4, <1>7
  <2> QED BY <1>9, <2>1, <2>2, <2>3, <2>4 DEF Listed
<1> QED BY <1>12, <1>13, <1>14, <1>15, <1>16, <1>17 DEF Sound

\* What is known of a chain with one more event.
AppendedTo(c, e, x) ==
    /\ e \in Seq(Event) /\ Len(e) = Len(c) + 1 /\ Len(c) \in Nat
    /\ DOMAIN c = 1..Len(c) /\ DOMAIN e = 1..Len(c) + 1
    /\ \A m \in DOMAIN c : m \in DOMAIN e /\ e[m] = c[m]
    /\ e[Len(c) + 1] = x
    /\ \A m \in DOMAIN e : m \in DOMAIN c \/ m = Len(c) + 1

\* Append adds one event.
LEMMA Appending ==
    ASSUME NEW c \in Seq(Event), NEW x \in Event
    PROVE  AppendedTo(c, Append(c, x), x)
<1> DEFINE e == Append(c, x)
<1>1. /\ e \in Seq(Event) /\ Len(e) = Len(c) + 1
      /\ \A i \in 1..Len(c) : e[i] = c[i]
      /\ e[Len(c) + 1] = x
  BY AppendProperties
<1> HIDE DEF e
<1>2. Len(c) \in Nat /\ DOMAIN c = 1..Len(c) /\ DOMAIN e = 1..Len(c) + 1
  BY <1>1, LenProperties
<1>3. AppendedTo(c, e, x)
  BY <1>1, <1>2 DEF AppendedTo
<1> QED BY <1>3 DEF e

\* An event that is no decision leaves the index and the requests for approval
\* as they were.
LEMMA PlainSound ==
    ASSUME NEW c, NEW I, NEW A, Sound(c, I, A),
           NEW x \in Event, ~IsDecision(x), x.ref <= Len(c), NEW e, AppendedTo(c, e, x)
    PROVE  /\ Formed(e, I, A) /\ RowsMatch(e, I) /\ LastCure(e, I)
           /\ AskedOnce(e, A) /\ Listed(e, I, A)
<1>1. c \in Seq(Event) /\ I \subseteq IndexRow /\ A \subseteq Approval
  BY DEF Sound, Formed
<1>2. \A m \in DOMAIN c : c[m] \in Event /\ c[m].ref \in Nat /\ c[m].ref <= Len(c)
  <2>1. \A m \in DOMAIN c : c[m] \in Event
    BY <1>1
  <2> QED BY <2>1 DEF Sound, Formed, Event
<1>3. x.ref \in Nat
  BY DEF Event
<1>4. Formed(e, I, A)
  <2>1. \A m \in DOMAIN e : e[m].ref <= Len(e)
    BY <1>2, <1>3 DEF AppendedTo
  <2> QED BY <1>1, <2>1 DEF Formed, AppendedTo
<1>5. RowsMatch(e, I)
  <2>1. ASSUME NEW r \in I
        PROVE  /\ r.seq \in DOMAIN e /\ e[r.seq] = c[r.seq]
               /\ r.output \in DOMAIN c => r.output \in DOMAIN e /\ e[r.output] = c[r.output]
    BY DEF Sound, RowsMatch, AppendedTo
  <2>2. ASSUME NEW m \in DOMAIN e, IsDecision(e[m]) PROVE m \in DOMAIN c /\ e[m] = c[m]
    BY <2>2 DEF AppendedTo
  <2> QED BY <2>1, <2>2 DEF Sound, RowsMatch
<1>6. LastCure(e, I)
  <2>1. \A m \in DOMAIN e, k \in Nat : Cures(e, m, k) => m \in DOMAIN c /\ Cures(c, m, k)
    BY DEF Cures, AppendedTo
  <2>2. \A m \in DOMAIN c, k \in Nat : Cures(c, m, k) => m \in DOMAIN e /\ Cures(e, m, k)
    BY DEF Cures, AppendedTo
  <2>3. \A r \in I : r.seq \in Nat /\ r.cured \in Nat
    BY <1>1 DEF IndexRow
  <2> QED BY <2>1, <2>2, <2>3 DEF Sound, LastCure
<1>7. AskedOnce(e, A)
  BY DEF Sound, AskedOnce, AppendedTo
<1>8. Listed(e, I, A)
  <2>1. /\ \A r \in I : r.seq \in DOMAIN c /\ e[r.seq] = c[r.seq]
        /\ \A a \in A : a.id \in DOMAIN c /\ e[a.id] = c[a.id]
    BY DEF Sound, RowsMatch, AskedOnce, AppendedTo
  <2> QED BY <2>1 DEF Sound, Listed
<1> QED BY <1>4, <1>5, <1>6, <1>7, <1>8

\* run_gate without an active policy: the output alone is recorded.
LEMMA OutputSound ==
    ASSUME NEW c, NEW I, NEW A, Sound(c, I, A)
    PROVE  Sound(Append(c, Output), I, A)
<1> DEFINE e == Append(c, Output)
<1>1. Output \in Event /\ ~IsDecision(Output) /\ Output.type \notin Outcomes /\ Output.ref = 0
  BY PlainType
<1>2. c \in Seq(Event) /\ A \subseteq Approval
  BY DEF Sound, Formed
<1>3. AppendedTo(c, e, Output)
  BY <1>1, <1>2, Appending
<1> HIDE DEF e
<1>4. Formed(e, I, A) /\ RowsMatch(e, I) /\ LastCure(e, I) /\ AskedOnce(e, A) /\ Listed(e, I, A)
  <2>1. Output.ref <= Len(c)
    BY <1>1, <1>3 DEF AppendedTo
  <2> QED BY <1>1, <1>3, <2>1, PlainSound
<1>5. LastResolution(e, A)
  <2>1. \A m \in DOMAIN e, k \in Nat : Resolves(e, m, k) => m \in DOMAIN c /\ Resolves(c, m, k)
    BY <1>1, <1>3 DEF Resolves, AppendedTo
  <2>2. \A m \in DOMAIN c, k \in Nat : Resolves(c, m, k) => m \in DOMAIN e /\ Resolves(e, m, k)
    BY <1>3 DEF Resolves, AppendedTo
  <2>3. \A m \in DOMAIN c : e[m] = c[m]
    BY <1>3 DEF AppendedTo
  <2>4. \A a \in A : a.id \in Nat
    BY <1>2 DEF Approval
  <2> QED BY <2>1, <2>2, <2>3, <2>4 DEF Sound, LastResolution
<1>6. Sound(e, I, A)
  BY <1>4, <1>5 DEF Sound
<1> QED BY <1>6 DEF e

\* resolve_approval: the row and the event tell the same, whatever was resolved
\* before.
LEMMA ResolutionSound ==
    ASSUME NEW c, NEW I, NEW A, Sound(c, I, A), NEW id \in DOMAIN c, NEW status \in Outcomes
    PROVE  Sound(Append(c, Resolution(status, id)), I, Settle(A, id, status))
<1> DEFINE x == Resolution(status, id)
           e == Append(c, x)
           B == Settle(A, id, status)
<1>1. c \in Seq(Event) /\ A \subseteq Approval /\ Len(c) \in Nat /\ id \in 1..Len(c)
  BY LenProperties DEF Sound, Formed
<1>2. x \in Event /\ ~IsDecision(x) /\ x.type = status /\ x.ref = id
  BY <1>1, PlainType
<1>3. AppendedTo(c, e, x)
  BY <1>1, <1>2, Appending
<1>4. B = {IF a.id = id THEN [a EXCEPT !.status = status] ELSE a : a \in A}
  BY DEF Settle
<1> HIDE DEF x, e, B
<1>5. Formed(e, I, A) /\ RowsMatch(e, I) /\ LastCure(e, I) /\ AskedOnce(e, A) /\ Listed(e, I, A)
  <2>1. x.ref <= Len(c)
    BY <1>1, <1>2
  <2> QED BY <1>2, <1>3, <2>1, PlainSound
<1>6. /\ B \subseteq Approval
      /\ \A b \in B : \E a \in A : /\ b.id = a.id /\ b.tx = a.tx
                                   /\ b.status = IF a.id = id THEN status ELSE a.status
      /\ \A a \in A : \E b \in B : b.id = a.id
  <2> DEFINE F(a) == IF a.id = id THEN [a EXCEPT !.status = status] ELSE a
  <2>1. ASSUME NEW a \in Approval
        PROVE  /\ F(a) \in Approval /\ F(a).id = a.id /\ F(a).tx = a.tx
               /\ F(a).status = IF a.id = id THEN status ELSE a.status
    BY DEF Approval
  <2>2. B = {F(a) : a \in A}
    BY <1>4
  <2> HIDE DEF F
  <2> QED BY <1>1, <2>1, <2>2
<1>7. Formed(e, I, B)
  BY <1>5, <1>6 DEF Formed
<1>8. AskedOnce(e, B)
  <2>1. \A a, b \in B : a.id = b.id => a = b
    <3>1. SUFFICES ASSUME NEW a \in B, NEW b \in B, a.id = b.id PROVE a = b
      OBVIOUS
    <3>2. PICK p \in A : a = IF p.id = id THEN [p EXCEPT !.status = status] ELSE p
      BY <1>4
    <3>3. PICK q \in A : b = IF q.id = id THEN [q EXCEPT !.status = status] ELSE q
      BY <1>4
    <3>4. a.id = p.id /\ b.id = q.id
      BY <1>1, <3>2, <3>3 DEF Approval
    <3>5. p = q
      BY <1>5, <3>1, <3>4 DEF AskedOnce
    <3> QED BY <3>2, <3>3, <3>5, Zenon
  <2> QED BY <1>5, <1>6, <2>1 DEF AskedOnce
<1>9. LastResolution(e, B)
  <2> DEFINE n == Len(c) + 1
  <2>1. n \in DOMAIN e /\ e[n] = x /\ (\A m \in DOMAIN e : m <= n) /\ \A m \in DOMAIN c : e[m] = c[m]
    BY <1>3 DEF AppendedTo
  <2>2. \A m \in DOMAIN e : m \in DOMAIN c \/ m = n
    BY <1>3 DEF AppendedTo
  <2>3. \A m \in DOMAIN c : m \in DOMAIN e
    BY <1>3 DEF AppendedTo
  <2> HIDE DEF n
  <2>4. SUFFICES ASSUME NEW b \in B
                 PROVE  /\ b.status = "pending" => \A m \in DOMAIN e : ~Resolves(e, m, b.id)
                        /\ b.status # "pending" =>
                              \E m \in DOMAIN e : /\ Resolves(e, m, b.id) /\ e[m].type = b.status
                                                  /\ \A l \in DOMAIN e : Resolves(e, l, b.id) => l <= m
    BY DEF LastResolution
  <2>5. PICK a \in A : b.id = a.id /\ b.status = IF a.id = id THEN status ELSE a.status
    BY <1>6
  <2>6. CASE a.id = id
    <3>1. b.status = status /\ status # "pending"
      BY <2>5, <2>6 DEF Outcomes
    <3>2. Resolves(e, n, b.id) /\ e[n].type = b.status
      BY <1>2, <2>1, <2>5, <2>6, <3>1 DEF Resolves
    <3> QED BY <2>1, <3>1, <3>2
  <2>7. CASE a.id # id
    <3>1. b.status = a.status
      BY <2>5, <2>7
    <3>2. \A m \in DOMAIN e : Resolves(e, m, b.id) <=> m \in DOMAIN c /\ Resolves(c, m, a.id)
      BY <1>2, <2>1, <2>2, <2>5, <2>7 DEF Resolves
    <3>3. /\ a.status = "pending" => \A m \in DOMAIN c : ~Resolves(c, m, a.id)
          /\ a.status # "pending" =>
                \E m \in DOMAIN c : /\ Resolves(c, m, a.id) /\ c[m].type = a.status
                                    /\ \A l \in DOMAIN c : Resolves(c, l, a.id) => l <= m
      BY DEF Sound, LastResolution
    <3> QED BY <2>1, <2>3, <3>1, <3>2, <3>3
  <2> QED BY <2>6, <2>7
<1>10. Listed(e, I, B)
  BY <1>5, <1>6 DEF Listed
<1>11. Sound(e, I, B)
  BY <1>5, <1>7, <1>8, <1>9, <1>10 DEF Sound
<1> QED BY <1>11 DEF x, e, B

-----------------------------------------------------------------------------
(* The invariant of the specification.                                     *)

\* What a request holds: the event it refers to is there, and a gate call under
\* way still has something to cure.
RequestInv ==
    /\ pc \in [Workers -> {"idle", "begun", "judge", "lock", "number", "resolve"}]
    /\ req \in [Workers -> [kind : {"none"} \cup Kinds, seq : Nat, ref : Nat]]
    /\ \A w \in Workers :
          /\ pc[w] \in {"lock", "number", "resolve"} => req[w].ref \in DOMAIN chain
          /\ pc[w] = "judge" /\ req[w].ref # 0 => CurableIn(index, req[w].ref)

\* The inductive invariant.
IInv == Sound(chain, index, approvals) /\ RequestInv

\* Requests stay valid when the chain and the index grow.
LEMMA RequestsKept ==
    ASSUME RequestInv, NEW w \in Workers,
           \A m \in DOMAIN chain : m \in DOMAIN chain',
           \A k \in Nat : CurableIn(index, k) => CurableIn(index', k),
           Ends(w)
    PROVE  RequestInv'
<1>1. /\ pc' \in [Workers -> {"idle", "begun", "judge", "lock", "number", "resolve"}]
      /\ req' \in [Workers -> [kind : {"none"} \cup Kinds, seq : Nat, ref : Nat]]
  BY DEF RequestInv, Ends, Goto, NoReq
<1>2. pc'[w] = "idle" /\ \A v \in Workers \ {w} : pc'[v] = pc[v] /\ req'[v] = req[v]
  BY DEF RequestInv, Ends, Goto
<1>3. \A v \in Workers : req[v].ref \in Nat
  BY DEF RequestInv
<1>4. ASSUME NEW v \in Workers
      PROVE  /\ pc'[v] \in {"lock", "number", "resolve"} => req'[v].ref \in DOMAIN chain'
             /\ pc'[v] = "judge" /\ req'[v].ref # 0 => CurableIn(index', req'[v].ref)
  <2>1. CASE v = w
    BY <1>2, <2>1
  <2>2. CASE v # w
    BY <1>2, <1>3, <2>2 DEF RequestInv
  <2> QED BY <2>1, <2>2
<1> QED BY <1>1, <1>4 DEF RequestInv

\* A row keeps its verdict, so what was curable stays so.
LEMMA CurableKept ==
    ASSUME NEW I \in SUBSET IndexRow, NEW d \in Event, NEW n \in Nat, NEW N, NEW k \in Nat,
           CurableIn(I, k)
    PROVE  CurableIn(Close(I, d, n) \cup N, k)
<1>1. RowsAfter(Close(I, d, n), I, d, n)
  BY CloseRows
<1> QED BY <1>1 DEF RowsAfter, RowAfter, CurableIn

\* Before any request there is nothing to be wrong.
LEMMA InitInv ==
    Init => IInv
<1> SUFFICES ASSUME Init PROVE IInv
  OBVIOUS
<1>1. chain = <<>> /\ index = {} /\ approvals = {}
  BY DEF Init
<1>2. Sound(<<>>, {}, {})
  BY DEF Sound, Formed, RowsMatch, LastCure, AskedOnce, LastResolution, Listed, OneRowEach
<1>3. RequestInv
  BY DEF Init, RequestInv, NoReq
<1> QED BY <1>1, <1>2, <1>3 DEF IInv

\* The steps that write nothing: they only move a request on, or end it.
LEMMA QuietStep ==
    ASSUME IInv, NEW w \in Workers,
           \/ Begin(w)
           \/ \E ref \in {0} \cup DOMAIN chain : StartGate(w, ref)
           \/ StartReplay(w)
           \/ \E a \in approvals : StartResolve(w, a)
           \/ LockApproval(w) \/ NumberResolution(w)
           \/ Refuse(w) \/ Crash(w)
    PROVE  IInv'
<1>1. RequestInv /\ Sound(chain, index, approvals)
  BY DEF IInv
<1>2. chain' = chain /\ index' = index /\ approvals' = approvals
  BY DEF Begin, StartGate, StartReplay, StartResolve, LockApproval, NumberResolution, Refuse, Crash, Rollback
<1>3. Sound(chain', index', approvals')
  BY <1>1, <1>2
<1>4. Len(chain) \in Nat /\ DOMAIN chain \subseteq Nat
  BY <1>1, LenProperties DEF Sound, Formed
<1>5. SUFFICES RequestInv'
  BY <1>3 DEF IInv
<1>6. CASE Begin(w)
  BY <1>1, <1>2, <1>6 DEF Begin, Goto, RequestInv
<1>7. ASSUME NEW ref \in {0} \cup DOMAIN chain, StartGate(w, ref)
      PROVE  RequestInv'
  <2>1. CASE Rollback(w)
    BY <1>1, <1>2, <2>1, RequestsKept DEF Rollback
  <2>2. CASE ~Rollback(w)
    <3>1. /\ ref = 0 \/ Curable(ref)
          /\ req' = [req EXCEPT ![w] = [kind |-> "gate", seq |-> Len(chain) + 1, ref |-> ref]]
          /\ pc' = [pc EXCEPT ![w] = "judge"]
      BY <1>7, <2>2 DEF StartGate, Goto
    <3>2. ref \in Nat /\ (ref # 0 => CurableIn(index, ref))
      BY <1>4, <3>1 DEF Curable, CurableIn
    <3> QED BY <1>1, <1>2, <1>4, <3>1, <3>2 DEF RequestInv, Kinds
  <2> QED BY <2>1, <2>2
<1>8. CASE StartReplay(w)
  BY <1>1, <1>2, <1>4, <1>8 DEF StartReplay, Goto, RequestInv, Kinds
<1>9. ASSUME NEW a \in approvals, StartResolve(w, a)
      PROVE  RequestInv'
  <2>1. a.id \in DOMAIN chain /\ a.id \in Nat
    BY <1>1, <1>4 DEF Sound, AskedOnce
  <2> QED BY <1>1, <1>2, <1>9, <2>1 DEF StartResolve, Goto, RequestInv, Kinds
<1>10. CASE LockApproval(w)
  BY <1>1, <1>2, <1>10 DEF LockApproval, Goto, RequestInv
<1>11. CASE NumberResolution(w)
  <2>1. /\ pc' = [pc EXCEPT ![w] = "resolve"] /\ pc[w] = "number"
        /\ req' = [req EXCEPT ![w] = [req[w] EXCEPT !.seq = Len(chain) + 1]]
    BY <1>11 DEF NumberResolution, Goto
  <2>2. [req[w] EXCEPT !.seq = Len(chain) + 1] \in [kind : {"none"} \cup Kinds, seq : Nat, ref : Nat]
    BY <1>1, <1>4 DEF RequestInv
  <2>3. [req[w] EXCEPT !.seq = Len(chain) + 1].ref = req[w].ref
    BY <1>1 DEF RequestInv
  <2> QED BY <1>1, <1>2, <2>1, <2>2, <2>3 DEF RequestInv
<1>12. CASE Refuse(w) \/ Crash(w)
  BY <1>1, <1>2, <1>12, RequestsKept DEF Refuse, Crash, Rollback
<1> QED BY <1>6, <1>7, <1>8, <1>9, <1>10, <1>11, <1>12

\* A decision is committed by the gate or by the precheck.
LEMMA RecordStep ==
    ASSUME IInv, NEW w \in Workers, NEW of \in Nat, of # 0 => CurableIn(index, of),
           NEW d \in Decisions(of), NEW gated \in BOOLEAN, Record(w, d, gated), Ends(w)
    PROVE  IInv'
<1>1. RequestInv /\ Sound(chain, index, approvals)
  BY DEF IInv
<1>2. /\ chain \in Seq(Event) /\ index \in SUBSET IndexRow /\ Len(chain) \in Nat
      /\ d \in Event /\ Len(chain) + 1 \in Nat
  BY <1>1, LenProperties, DecisionType DEF Sound, Formed
<1>3. /\ chain' = chain \o (IF gated THEN <<d, Output>> ELSE <<d>>)
      /\ index' = Close(index, d, Len(chain) + 1) \cup IndexRows(d, Len(chain) + 1, gated)
      /\ approvals' = approvals \cup ApprovalRows(d, Len(chain) + 1, Len(chain) + 1)
  BY DEF Record, Asks
<1>4. Sound(chain', index', approvals')
  BY <1>1, <1>2, <1>3, DecisionSound
<1>5. \A m \in DOMAIN chain : m \in DOMAIN chain'
  <2>1. chain' \in {chain \o (IF gated THEN <<d, Output>> ELSE <<d>>)}
    BY <1>3
  <2> QED BY <1>2, <2>1, Extension
<1>6. \A k \in Nat : CurableIn(index, k) => CurableIn(index', k)
  BY <1>2, <1>3, CurableKept
<1>7. RequestInv'
  BY <1>1, <1>5, <1>6, RequestsKept
<1> QED BY <1>4, <1>7 DEF IInv

\* A replay commits two gate calls: the invariant holds after each.
LEMMA ReplayStep ==
    ASSUME IInv, NEW w \in Workers, JudgeReplay(w)
    PROVE  IInv'
<1>1. RequestInv /\ Sound(chain, index, approvals)
  BY DEF IInv
<1> DEFINE n == Len(chain) + 1
<1>2. PICK d \in Decisions(0), b \in Decisions(0) :
        /\ chain' = chain \o <<d, Output, b, Output>>
        /\ index' = index \cup IndexRows(d, n, TRUE) \cup IndexRows(b, n + 2, TRUE)
        /\ approvals' = approvals \cup (ApprovalRows(d, n, n) \cup ApprovalRows(b, n + 2, n))
  BY DEF JudgeReplay, Asks
<1>3. /\ d \in Event /\ b \in Event /\ d.ref = 0 /\ b.ref = 0 /\ Output \in Event
      /\ chain \in Seq(Event) /\ n \in Nat /\ Len(chain) \in Nat
  BY <1>1, DecisionType, PlainType, LenProperties DEF Sound, Formed
<1>4. ASSUME NEW I, NEW x \in {d, b}, NEW m
      PROVE  Close(I, x, m) = I
  BY <1>3 DEF Close
<1> DEFINE c == chain \o (IF TRUE THEN <<d, Output>> ELSE <<d>>)
           I == Close(index, d, n) \cup IndexRows(d, n, TRUE)
           A == approvals \cup ApprovalRows(d, n, n)
<1>5. Sound(c, I, A)
  BY <1>1, <1>3, DecisionSound
<1>6. c \in Seq(Event) /\ Len(c) = Len(chain) + 2 /\ Len(c) + 1 = n + 2
  <2>1. c \in {chain \o (IF TRUE THEN <<d, Output>> ELSE <<d>>)}
    OBVIOUS
  <2>2. c \in Seq(Event) /\ Len(c) = Len(chain) + (IF TRUE THEN 2 ELSE 1)
    BY <1>3, <2>1, Extension
  <2> QED BY <1>3, <2>2
<1>7. chain' = c \o (IF TRUE THEN <<b, Output>> ELSE <<b>>)
  <2>1. <<d, Output, b, Output>> = <<d, Output>> \o <<b, Output>>
    BY <1>3
  <2>2. <<d, Output>> \in Seq(Event) /\ <<b, Output>> \in Seq(Event)
    BY <1>3
  <2>3. chain \o (<<d, Output>> \o <<b, Output>>) = (chain \o <<d, Output>>) \o <<b, Output>>
    BY <1>3, <2>2, ConcatAssociative
  <2> QED BY <1>2, <2>1, <2>3
<1>8. index' = Close(I, b, Len(c) + 1) \cup IndexRows(b, Len(c) + 1, TRUE)
  BY <1>2, <1>4, <1>6
<1>9. approvals' = A \cup ApprovalRows(b, Len(c) + 1, n)
  BY <1>2, <1>6
<1> HIDE DEF c, I, A, n
<1>10. Sound(chain', index', approvals')
  BY <1>3, <1>5, <1>7, <1>8, <1>9, DecisionSound
<1>11. \A m \in DOMAIN chain : m \in DOMAIN chain'
  <2>1. \A m \in DOMAIN chain : m \in DOMAIN c
    <3>1. c \in {chain \o (IF TRUE THEN <<d, Output>> ELSE <<d>>)}
      BY DEF c
    <3> QED BY <1>3, <3>1, Extension
  <2>2. \A m \in DOMAIN c : m \in DOMAIN chain'
    <3>1. chain' \in {c \o (IF TRUE THEN <<b, Output>> ELSE <<b>>)}
      BY <1>7
    <3> QED BY <1>3, <1>6, <3>1, Extension
  <2> QED BY <2>1, <2>2
<1>12. \A k \in Nat : CurableIn(index, k) => CurableIn(index', k)
  BY <1>2 DEF CurableIn
<1>13. RequestInv'
  BY <1>1, <1>11, <1>12, RequestsKept DEF JudgeReplay
<1> QED BY <1>10, <1>13 DEF IInv

\* The steps that add one event that is no decision.
LEMMA AppendStep ==
    ASSUME IInv, NEW w \in Workers, NEW x \in Event, chain' = Append(chain, x), Ends(w),
           index' = index, Sound(chain', index', approvals')
    PROVE  IInv'
<1>1. RequestInv /\ chain \in Seq(Event)
  BY DEF IInv, Sound, Formed
<1>2. \A m \in DOMAIN chain : m \in DOMAIN chain'
  BY <1>1, Appending DEF AppendedTo
<1>3. RequestInv'
  BY <1>1, <1>2, RequestsKept
<1> QED BY <1>3 DEF IInv

\* Every step keeps the invariant.
LEMMA NextInv ==
    IInv /\ [Next]_vars => IInv'
<1> SUFFICES ASSUME IInv, [Next]_vars PROVE IInv'
  OBVIOUS
<1>1. RequestInv /\ Sound(chain, index, approvals)
  BY DEF IInv
<1>2. CASE UNCHANGED vars
  BY <1>1, <1>2 DEF IInv, RequestInv, vars
<1>3. ASSUME NEW w \in Workers, JudgeGate(w) PROVE IInv'
  <2>1. req[w].ref \in Nat /\ (req[w].ref # 0 => CurableIn(index, req[w].ref))
    BY <1>1, <1>3 DEF RequestInv, JudgeGate
  <2>2. ASSUME NEW d \in Decisions(req[w].ref), Record(w, d, TRUE) PROVE IInv'
    BY <1>3, <2>1, <2>2, RecordStep DEF JudgeGate
  <2>3. ASSUME chain' = Append(chain, Output), Asks(w, {}), index' = index PROVE IInv'
    <3>1. approvals' = approvals
      BY <2>3 DEF Asks
    <3>2. Sound(chain', index', approvals')
      BY <1>1, <2>3, <3>1, OutputSound
    <3> QED BY <1>3, <2>3, <3>2, AppendStep, PlainType DEF JudgeGate
  <2> QED BY <1>3, <2>2, <2>3 DEF JudgeGate
<1>4. ASSUME NEW w \in Workers, Precheck(w) PROVE IInv'
  <2>1. PICK d \in Decisions(0) : Record(w, d, FALSE)
    BY <1>4 DEF Precheck
  <2>2. Ends(w)
    BY <1>4 DEF Precheck
  <2> QED BY <2>1, <2>2, RecordStep
<1>5. ASSUME NEW w \in Workers, NEW status \in Outcomes, Resolve(w, status) PROVE IInv'
  <2>1. req[w].ref \in DOMAIN chain /\ req[w].ref \in Nat
    BY <1>1, <1>5 DEF RequestInv, Resolve
  <2>2. Resolution(status, req[w].ref) \in Event
    BY <2>1, PlainType
  <2>3. Sound(chain', index', approvals')
    BY <1>1, <1>5, <2>1, ResolutionSound DEF Resolve
  <2> QED BY <1>5, <2>2, <2>3, AppendStep DEF Resolve
<1>6. ASSUME NEW w \in Workers, JudgeReplay(w) PROVE IInv'
  BY <1>6, ReplayStep
<1>7. ASSUME NEW w \in Workers,
             \/ Begin(w)
             \/ \E ref \in {0} \cup DOMAIN chain : StartGate(w, ref)
             \/ StartReplay(w)
             \/ \E a \in approvals : StartResolve(w, a)
             \/ LockApproval(w) \/ NumberResolution(w)
             \/ Refuse(w) \/ Crash(w)
      PROVE  IInv'
  BY <1>7, QuietStep
<1> QED BY <1>2, <1>3, <1>4, <1>5, <1>6, <1>7 DEF Next

\* The invariant holds of every reachable state, for any number of workers, any
\* rulings and any bounds.
THEOREM Invariance ==
    Spec => []IInv
BY InitInv, NextInv, PTL DEF Spec

\* A status is the verdict of the last resolution on the chain, also when two
\* people resolve one approval at the same time (resolve_approval).
THEOREM ResolutionsEvidenced ==
    Spec => []ResolutionEvidenced
<1>1. IInv => ResolutionEvidenced
  <2> SUFFICES ASSUME IInv, NEW a \in approvals
               PROVE  LET R == {n \in DOMAIN chain : chain[n].type \in Outcomes /\ chain[n].ref = a.id}
                      IN  /\ R = {} => a.status = "pending"
                          /\ R # {} => \E n \in R : a.status = chain[n].type /\ \A m \in R : m <= n
    BY DEF ResolutionEvidenced
  <2>1. LastResolution(chain, approvals)
    BY DEF IInv, Sound
  <2> QED BY <2>1 DEF LastResolution, Resolves
<1> QED BY <1>1, Invariance, PTL

\* A decision counts as remediated exactly when a compliant decision was sealed
\* as its cure, and names the last one, whatever gate calls raced (run_gate).
THEOREM CuresAreReal ==
    Spec => []CureIsReal
<1>1. IInv => CureIsReal
  <2> SUFFICES ASSUME IInv, NEW r \in index
               PROVE  LET C == {n \in DOMAIN chain : /\ IsDecision(chain[n]) /\ chain[n].ref = r.seq
                                                     /\ DeriveStatus(chain[n]) = "compliant"}
                      IN  /\ C = {} => r.cured = 0
                          /\ C # {} => r.cured \in C /\ r.cured > r.seq /\ \A n \in C : n <= r.cured
                          /\ r.cured # 0 => r.status \in {"flagged", "blocked"}
    BY DEF CureIsReal
  <2>1. LastCure(chain, index)
    BY DEF IInv, Sound
  <2> QED BY <2>1 DEF LastCure, Cures
<1> QED BY <1>1, Invariance, PTL

\* The index repeats the chain (run_precheck, run_gate).
THEOREM IndexFaithful ==
    Spec => []IndexMatchesChain
<1>1. IInv => IndexMatchesChain
  <2> SUFFICES ASSUME IInv PROVE IndexMatchesChain
    OBVIOUS
  <2>1. RowsMatch(chain, index)
    BY DEF IInv, Sound
  <2>2. ASSUME NEW n \in DOMAIN chain, IsDecision(chain[n]), ~chain[n].failed
        PROVE  Cardinality({r \in index : r.seq = n}) = 1
    <3>1. PICK r \in index : r.seq = n
      BY <2>1, <2>2 DEF RowsMatch
    <3>2. {s \in index : s.seq = n} = {r}
      BY <2>1, <3>1 DEF RowsMatch, OneRowEach
    <3> QED BY <3>2, FS_Singleton
  <2> QED BY <2>1, <2>2 DEF IndexMatchesChain, RowsMatch
<1> QED BY <1>1, Invariance, PTL

\* Every high-risk decision on the chain has one approval (run_precheck,
\* _fail_closed_response).
THEOREM HighRiskAsked ==
    Spec => []HighRiskIsAsked
<1>1. IInv => HighRiskIsAsked
  <2> SUFFICES ASSUME IInv, NEW n \in DOMAIN chain, IsDecision(chain[n]),
                      chain[n].tier \in {"orange", "red"}
               PROVE  Cardinality({a \in approvals : a.id = n}) = 1
    BY DEF HighRiskIsAsked
  <2>1. AskedOnce(chain, approvals)
    BY DEF IInv, Sound
  <2>2. PICK a \in approvals : a.id = n
    BY <2>1 DEF AskedOnce
  <2>3. {b \in approvals : b.id = n} = {a}
    BY <2>1, <2>2 DEF AskedOnce
  <2> QED BY <2>3, FS_Singleton
<1> QED BY <1>1, Invariance, PTL

\* The officer's queue and the dashboard list what the sealed chain says is
\* open, flagged and uncured (build_workqueue, get_decisions).
THEOREM QueueFaithful ==
    Spec => []QueueTellsChain
<1>1. IInv => QueueTellsChain
  <2> SUFFICES ASSUME IInv PROVE QueueTellsChain
    OBVIOUS
  <2> DEFINE D == {n \in DOMAIN chain : IsDecision(chain[n])}
  <2>1. /\ RowsMatch(chain, index) /\ LastCure(chain, index) /\ AskedOnce(chain, approvals)
        /\ LastResolution(chain, approvals) /\ Listed(chain, index, approvals)
        /\ index \subseteq IndexRow /\ approvals \subseteq Approval /\ chain \in Seq(Event)
    BY DEF IInv, Sound, Formed
  <2>2. {r.seq : r \in FlaggedDecisions} =
           {n \in D : chain[n].tier \in {"orange", "red"} /\ ~chain[n].failed}
    BY <2>1 DEF RowsMatch, Listed, FlaggedDecisions, ByTier
  <2>3. {a.id : a \in PendingApprovals} =
           {n \in D : /\ chain[n].tier \in {"orange", "red"}
                      /\ \A m \in DOMAIN chain : chain[m].type \in Outcomes => chain[m].ref # n}
    BY <2>1 DEF AskedOnce, LastResolution, Resolves, Listed, PendingApprovals
  <2>4. {r.seq : r \in OpenFlags} =
           {n \in D : /\ \E r \in index : r.seq = n /\ r.output # 0
                      /\ DeriveStatus(chain[n]) = "flagged" /\ chain[n].ref = 0
                      /\ \A m \in D : DeriveStatus(chain[m]) = "compliant" => chain[m].ref # n}
    <3>1. ASSUME NEW r \in OpenFlags
          PROVE  /\ r.seq \in D /\ r.output # 0
                 /\ DeriveStatus(chain[r.seq]) = "flagged" /\ chain[r.seq].ref = 0
                 /\ \A m \in D : DeriveStatus(chain[m]) = "compliant" => chain[m].ref # r.seq
      <4>1. r \in index /\ r.status = "flagged" /\ r.cured = 0 /\ r.of = 0 /\ r.status # None
        BY GateAssumption DEF OpenFlags
      <4>2. /\ r.seq \in DOMAIN chain /\ IsDecision(chain[r.seq]) /\ r.of = chain[r.seq].ref
            /\ r.status = DeriveStatus(chain[r.seq]) /\ r.output = r.seq + 1
        BY <2>1, <4>1 DEF RowsMatch
      <4>3. \A m \in DOMAIN chain : ~Cures(chain, m, r.seq)
        BY <2>1, <4>1 DEF LastCure
      <4>4. r.output # 0
        BY <2>1, <4>1, <4>2 DEF IndexRow
      <4> QED BY <4>1, <4>2, <4>3, <4>4 DEF Cures
    <3>2. ASSUME NEW n \in D, NEW r \in index, r.seq = n, r.output # 0,
                 DeriveStatus(chain[n]) = "flagged", chain[n].ref = 0,
                 \A m \in D : DeriveStatus(chain[m]) = "compliant" => chain[m].ref # n
          PROVE  r \in OpenFlags
      <4>1. r.status # None
        BY <2>1, <3>2 DEF Listed
      <4>2. r.status = "flagged" /\ r.of = 0
        BY <2>1, <3>2, <4>1 DEF RowsMatch
      <4>3. r.cured = 0
        BY <2>1, <3>2 DEF LastCure, Cures
      <4> QED BY <4>2, <4>3 DEF OpenFlags
    <3> QED BY <3>1, <3>2 DEF OpenFlags
  <2> QED BY <2>2, <2>3, <2>4 DEF QueueTellsChain
<1> QED BY <1>1, Invariance, PTL

\* Every append asks for room first.
LEMMA BoundKept ==
    ASSUME IInv, Len(chain) <= MaxEvents, [Next]_vars
    PROVE  Len(chain') <= MaxEvents
<1>1. chain \in Seq(Event) /\ Len(chain) \in Nat /\ RequestInv
  BY LenProperties DEF IInv, Sound, Formed
<1>2. ASSUME NEW s \in Seq(Event), NEW m \in Nat, Fits(Len(s), m), chain' = chain \o s
      PROVE  Len(chain') <= MaxEvents
  <2>1. Len(chain \o s) = Len(chain) + Len(s)
    BY <1>1, ConcatProperties
  <2> QED BY <1>2, <2>1 DEF Fits
<1>3. ASSUME NEW of \in Nat, NEW d \in Decisions(of)
      PROVE  d \in Event /\ <<d, Output>> \in Seq(Event) /\ <<d>> \in Seq(Event)
  BY DecisionType, PlainType
<1>4. ASSUME NEW w \in Workers, JudgeGate(w) PROVE Len(chain') <= MaxEvents
  <2>1. req[w].ref \in Nat
    BY <1>1 DEF RequestInv
  <2>2. ASSUME NEW d \in Decisions(req[w].ref), Fits(2, 1), Record(w, d, TRUE)
        PROVE  Len(chain') <= MaxEvents
    <3>1. chain' = chain \o <<d, Output>>
      BY <2>2 DEF Record
    <3> QED BY <1>2, <1>3, <2>1, <2>2, <3>1
  <2>3. ASSUME Fits(1, 0), chain' = Append(chain, Output) PROVE Len(chain') <= MaxEvents
    BY <1>1, <2>3, PlainType, AppendProperties DEF Fits
  <2> QED BY <1>4, <2>2, <2>3 DEF JudgeGate
<1>5. ASSUME NEW w \in Workers, Precheck(w) PROVE Len(chain') <= MaxEvents
  <2>1. PICK d \in Decisions(0) : chain' = chain \o <<d>>
    BY <1>5 DEF Precheck, Record
  <2>2. Fits(1, 1)
    BY <1>5 DEF Precheck
  <2> QED BY <1>2, <1>3, <2>1, <2>2
<1>6. ASSUME NEW w \in Workers, JudgeReplay(w) PROVE Len(chain') <= MaxEvents
  <2>1. PICK d, e \in Decisions(0) : chain' = chain \o <<d, Output, e, Output>>
    BY <1>6 DEF JudgeReplay
  <2>2. Fits(4, 2)
    BY <1>6 DEF JudgeReplay
  <2>3. <<d, Output, e, Output>> \in Seq(Event)
    BY <1>3, PlainType
  <2> QED BY <1>2, <2>1, <2>2, <2>3
<1>7. ASSUME NEW w \in Workers, NEW status \in Outcomes, Resolve(w, status)
      PROVE  Len(chain') <= MaxEvents
  <2>1. Resolution(status, req[w].ref) \in Event
    BY <1>1, PlainType DEF RequestInv
  <2> QED BY <1>1, <1>7, <2>1, AppendProperties DEF Resolve, Fits
<1>8. CASE chain' = chain
  BY <1>8
<1> QED BY <1>4, <1>5, <1>6, <1>7, <1>8
    DEF Next, vars, Begin, StartGate, StartReplay, StartResolve, LockApproval, NumberResolution,
        Refuse, Crash, Rollback

\* Every variable keeps its type, and the chain its bound (run_gate,
\* run_precheck, resolve_approval).
THEOREM TypeCorrect ==
    Spec => []TypeOK
<1> DEFINE Bound == Len(chain) <= MaxEvents
<1>1. Init => Bound
  BY GateAssumption DEF Init
<1>2. IInv /\ Bound /\ [Next]_vars => Bound'
  BY BoundKept
<1>3. IInv /\ Bound => TypeOK
  BY DEF IInv, Sound, Formed, RequestInv, Approval, TypeOK
<1> QED BY <1>1, <1>2, <1>3, Invariance, PTL DEF Spec
=============================================================================
