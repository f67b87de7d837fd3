--------------------------- MODULE HumanAuthProofs ---------------------------
(***************************************************************************)
(* Human login (HumanAuth), for any number of desks, codes, sessions and   *)
(* guesses, whatever requests overlap: how far asking for a code voids the *)
(* older ones, and how far the cap on issued codes holds.                  *)
(***************************************************************************)
EXTENDS HumanAuth, FiniteSetTheorems, TLAPS

-----------------------------------------------------------------------------
(* The invariant.                                                          *)

\* The rows of the tables, and what a request keeps.
CodeRow == [used : BOOLEAN, fresh : BOOLEAN, attempts : Nat, guessed : Nat]
SessionRow == [method : {"code", "password"}, password : Nat, live : BOOLEAN]
UserRow == [password : Nat, failed : Nat, locked : {"never", "yes", "past"}]
DeskOps == {"free", "issue", "insert", "guess", "login", "change", "write"}
DeskRow == [op : DeskOps, right : BOOLEAN, row : Nat, attempts : Nat, user : UserRow]

\* Types.
AuthTypeOK ==
    /\ codes \in Seq(CodeRow) /\ sessions \in Seq(SessionRow) /\ user \in UserRow
    /\ desk \in [Desks -> DeskRow] /\ changer \in Nat /\ chosen \in Nat /\ failures \in Nat

\* Every open code is held by a desk of its own: the one that inserted it,
\* which voids it when it inserts the next.
HeldBy(f) ==
    /\ \A i, j \in Open : f[i] = f[j] => i = j
    /\ \A d \in Desks : desk[d].op = "insert" => \A i \in Open : f[i] = d => i <= desk[d].row

OpenHeld == \E f \in [Open -> Desks] : HeldBy(f)

\* The codes of the window, with those about to be issued.
IssueCounted ==
    Cardinality(FreshCodes) + Cardinality(Issuing) <= MaxIssued + Cardinality(Desks) - 1

AuthInv == AuthTypeOK /\ OpenHeld /\ IssueCounted

-----------------------------------------------------------------------------
(* Rows.                                                                   *)

LEMMA CodeFields ==
    ASSUME NEW c \in CodeRow
    PROVE  /\ c.used \in BOOLEAN /\ c.fresh \in BOOLEAN /\ c.attempts \in Nat /\ c.guessed \in Nat
           /\ [c EXCEPT !.used = TRUE] \in CodeRow /\ [c EXCEPT !.fresh = FALSE] \in CodeRow
BY DEF CodeRow

LEMMA DeskFields ==
    ASSUME NEW r \in DeskRow
    PROVE  /\ r.op \in DeskOps /\ r.right \in BOOLEAN /\ r.row \in Nat
           /\ r.attempts \in Nat /\ r.user \in UserRow
BY DEF DeskRow

LEMMA UserFields ==
    ASSUME NEW u \in UserRow
    PROVE  u.password \in Nat /\ u.failed \in Nat /\ u.locked \in {"never", "yes", "past"}
BY DEF UserRow

LEMMA UserUpdated ==
    ASSUME NEW u \in UserRow, NEW p \in Nat, NEW f \in Nat, NEW l \in {"never", "yes", "past"}
    PROVE  /\ [u EXCEPT !.password = p, !.failed = f, !.locked = l] \in UserRow
           /\ [u EXCEPT !.failed = f, !.locked = l] \in UserRow
BY DEF UserRow

LEMMA FailedTyped ==
    ASSUME NEW u \in UserRow
    PROVE  Failed(u).failed \in Nat /\ Failed(u).locked \in {"never", "yes", "past"}
BY AuthAssumption DEF Failed, UserRow

LEMMA Typed ==
    ASSUME AuthTypeOK
    PROVE  /\ \A i \in 1..Len(codes) : codes[i] \in CodeRow
           /\ \A s \in 1..Len(sessions) : sessions[s] \in SessionRow
           /\ \A d \in Desks : desk[d] \in DeskRow
           /\ Len(codes) \in Nat /\ Len(sessions) \in Nat
BY DEF AuthTypeOK

LEMMA FreeTyped == Free \in DeskRow /\ Free.op = "free"
BY DEF Free, DeskRow, DeskOps, UserRow

\* The code and desk tables are finite, and so are the sets counted.
LEMMA CountsTyped ==
    ASSUME AuthTypeOK
    PROVE  /\ IsFiniteSet(FreshCodes) /\ Cardinality(FreshCodes) \in Nat
           /\ IsFiniteSet(Issuing) /\ Cardinality(Issuing) \in Nat
           /\ Cardinality(Issuing) <= Cardinality(Desks) /\ Cardinality(Desks) \in Nat
<1>1. IsFiniteSet(1..Len(codes)) /\ FreshCodes \subseteq 1..Len(codes)
  BY Typed, FS_Interval DEF FreshCodes
<1>2. IsFiniteSet(FreshCodes)
  BY <1>1, FS_Subset
<1>3. Issuing \subseteq Desks /\ IsFiniteSet(Desks)
  BY AuthAssumption DEF Issuing
<1>4. IsFiniteSet(Issuing) /\ Cardinality(Issuing) <= Cardinality(Desks)
  BY <1>3, FS_Subset
<1> QED BY <1>2, <1>3, <1>4, FS_CardinalityType

-----------------------------------------------------------------------------
(* What keeps the two counts.                                              *)

\* Codes stop being open, and a desk that begins to insert voids all of them.
LEMMA HeldKept ==
    ASSUME OpenHeld, Open' \subseteq Open,
           \A d \in Desks : desk'[d].op = "insert" =>
              \/ \A i \in Open' : i <= desk'[d].row
              \/ desk[d].op = "insert" /\ desk'[d].row = desk[d].row
    PROVE  OpenHeld'
<1>1. PICK f \in [Open -> Desks] : HeldBy(f)
  BY DEF OpenHeld
<1>2. PICK g \in [Open' -> Desks] : \A i \in Open' : g[i] = f[i]
  <2> DEFINE restricted == [i \in Open' |-> f[i]]
  <2>1. restricted \in [Open' -> Desks] /\ \A i \in Open' : restricted[i] = f[i]
    BY <1>1
  <2> HIDE DEF restricted
  <2> QED BY <2>1
<1>3. \A i, j \in Open' : g[i] = g[j] => i = j
  BY <1>1, <1>2 DEF HeldBy
<1>4. ASSUME NEW d \in Desks, desk'[d].op = "insert", NEW i \in Open', g[i] = d
      PROVE  i <= desk'[d].row
  BY <1>1, <1>2, <1>4 DEF HeldBy
<1>5. HeldBy(g)'
  BY <1>3, <1>4 DEF HeldBy
<1> QED BY <1>2, <1>5 DEF OpenHeld

\* Codes age and requests end.
LEMMA CountKept ==
    ASSUME AuthTypeOK, IssueCounted, AuthTypeOK', FreshCodes' \subseteq FreshCodes, Issuing' \subseteq Issuing
    PROVE  IssueCounted'
<1>1. Cardinality(FreshCodes') <= Cardinality(FreshCodes) /\ Cardinality(Issuing') <= Cardinality(Issuing)
  BY CountsTyped, FS_Subset
<1>2. Cardinality(FreshCodes') \in Nat /\ Cardinality(Issuing') \in Nat
  <2>1. IsFiniteSet(FreshCodes') /\ IsFiniteSet(Issuing')
    BY CountsTyped, FS_Subset
  <2> QED BY <2>1, FS_CardinalityType
<1>3. Cardinality(FreshCodes) \in Nat /\ Cardinality(Issuing) \in Nat /\ Cardinality(Desks) \in Nat
  BY CountsTyped
<1>4. Cardinality(FreshCodes)' = Cardinality(FreshCodes') /\ Cardinality(Issuing)' = Cardinality(Issuing')
  OBVIOUS
<1> QED BY <1>1, <1>2, <1>3, <1>4, AuthAssumption DEF IssueCounted

\* Nothing is issued: codes only stop being open or fresh, and no desk comes to
\* be issuing.
LEMMA BothKept ==
    ASSUME AuthInv, AuthTypeOK', Open' \subseteq Open, FreshCodes' \subseteq FreshCodes,
           \A d \in Desks : desk'[d] = desk[d] \/ desk'[d].op \notin {"issue", "insert"}
    PROVE  AuthInv'
<1>1. Issuing' \subseteq Issuing
  BY DEF Issuing
<1>2. OpenHeld'
  BY HeldKept DEF AuthInv
<1>3. IssueCounted'
  BY <1>1, CountKept DEF AuthInv
<1> QED BY <1>2, <1>3 DEF AuthInv

LEMMA AuthInitInv == AuthInit => AuthInv
<1> SUFFICES ASSUME AuthInit PROVE AuthInv
  OBVIOUS
<1>1. AuthTypeOK
  <2>1. user \in UserRow
    BY DEF AuthInit, UserRow
  <2>2. desk \in [Desks -> DeskRow]
    BY FreeTyped DEF AuthInit
  <2> QED BY <2>1, <2>2 DEF AuthInit, AuthTypeOK
<1>2. FreshCodes = {} /\ Open = {} /\ Issuing = {}
  BY FreeTyped DEF AuthInit, FreshCodes, Open, Issuing
<1>3. OpenHeld
  <2>1. [i \in Open |-> CHOOSE d \in Desks : TRUE] \in [Open -> Desks]
    BY <1>2
  <2>2. HeldBy([i \in Open |-> CHOOSE d \in Desks : TRUE])
    BY <1>2 DEF HeldBy
  <2> QED BY <2>1, <2>2 DEF OpenHeld
<1>4. IssueCounted
  <2>1. Cardinality(Desks) \in Nat /\ Cardinality(Desks) # 0
    BY AuthAssumption, FS_CardinalityType, FS_EmptySet
  <2>2. Cardinality(FreshCodes) = 0 /\ Cardinality(Issuing) = 0
    BY <1>2, FS_EmptySet
  <2> QED BY <2>1, <2>2, AuthAssumption DEF IssueCounted
<1> QED BY <1>1, <1>3, <1>4 DEF AuthInv

-----------------------------------------------------------------------------
(* Types.                                                                  *)

\* A desk takes a request: it remembers the rows it read.
LEMMA CallTyped ==
    ASSUME AuthTypeOK, NEW d \in Desks, NEW r \in DeskRow, Call(d, r)
    PROVE  /\ AuthTypeOK' /\ UNCHANGED codes
           /\ desk'[d] = r /\ \A e \in Desks \ {d} : desk'[e] = desk[e]
BY DEF Call, AuthTypeOK

LEMMA DoneTyped ==
    ASSUME AuthTypeOK, NEW d \in Desks, Done(d)
    PROVE  /\ desk' \in [Desks -> DeskRow]
           /\ desk'[d].op = "free" /\ \A e \in Desks \ {d} : desk'[e] = desk[e]
BY FreeTyped DEF Done, AuthTypeOK

\* The table of codes when one row changes in place.
LEMMA CodeReplaced ==
    ASSUME AuthTypeOK, NEW i \in 1..Len(codes), NEW c \in CodeRow, codes' = [codes EXCEPT ![i] = c],
           c.used = FALSE => ~codes[i].used, c.fresh => codes[i].fresh
    PROVE  /\ codes' \in Seq(CodeRow)
           /\ Open' \subseteq Open /\ FreshCodes' \subseteq FreshCodes
<1>1. /\ codes' \in Seq(CodeRow) /\ Len(codes') = Len(codes) /\ codes'[i] = c
      /\ \A k \in 1..Len(codes) : k # i => codes'[k] = codes[k]
  BY DEF AuthTypeOK
<1>2. c.used \in BOOLEAN
  BY CodeFields
<1>3. FreshCodes' \subseteq FreshCodes
  BY <1>1 DEF FreshCodes
<1>4. Open' \subseteq Open
  BY <1>1, <1>2, <1>3 DEF Open
<1> QED BY <1>1, <1>3, <1>4

\* A session row added at the end.
LEMMA SessionAppended ==
    ASSUME AuthTypeOK, NEW m \in {"code", "password"}, NEW p \in Nat
    PROVE  /\ Append(sessions, NewSession(m)) \in Seq(SessionRow)
           /\ Append(sessions, [NewSession(m) EXCEPT !.password = p]) \in Seq(SessionRow)
<1>1. NewSession(m) \in SessionRow /\ [NewSession(m) EXCEPT !.password = p] \in SessionRow
  BY DEF AuthTypeOK, NewSession, SessionRow, UserRow
<1> QED BY <1>1 DEF AuthTypeOK

-----------------------------------------------------------------------------
(* One lemma per action.                                                   *)

\* The count leaves room for the threads that counted at the same time.
LEMMA RequestKeepsInv ==
    ASSUME AuthInv, NEW d \in Desks, RequestCode(d)
    PROVE  AuthInv'
<1> DEFINE r == [Free EXCEPT !.op = "issue"]
<1>1. r \in DeskRow /\ r.op = "issue"
  BY FreeTyped DEF DeskRow, DeskOps
<1>2. Call(d, r) /\ Cardinality(FreshCodes) < MaxIssued
  BY DEF RequestCode, MayIssue
<1> HIDE DEF r
<1>3. AuthTypeOK' /\ UNCHANGED codes /\ desk'[d] = r /\ \A e \in Desks \ {d} : desk'[e] = desk[e]
  BY <1>1, <1>2, CallTyped DEF AuthInv
<1>4. Open' = Open /\ FreshCodes' = FreshCodes
  BY <1>3 DEF Open, FreshCodes
<1>5. OpenHeld'
  BY <1>1, <1>3, <1>4, HeldKept DEF AuthInv
<1>6. IssueCounted'
  <2>1. Cardinality(Issuing)' <= Cardinality(Desks) /\ Cardinality(Issuing)' \in Nat
    <3>1. Issuing' \subseteq Desks /\ IsFiniteSet(Desks)
      BY AuthAssumption DEF Issuing
    <3> QED BY <3>1, FS_Subset, FS_CardinalityType
  <2>2. Cardinality(FreshCodes)' = Cardinality(FreshCodes)
    BY <1>4
  <2>3. Cardinality(FreshCodes) \in Nat /\ Cardinality(Desks) \in Nat
    BY CountsTyped DEF AuthInv
  <2> QED BY <1>2, <2>1, <2>2, <2>3, AuthAssumption DEF IssueCounted
<1> QED BY <1>3, <1>5, <1>6 DEF AuthInv

\* A desk about to insert voids every code committed so far.
LEMMA VoidKeepsInv ==
    ASSUME AuthInv, NEW d \in Desks, VoidCodes(d)
    PROVE  AuthInv'
<1> DEFINE r == [desk[d] EXCEPT !.op = "insert", !.row = Len(codes)]
<1>1. r \in DeskRow /\ r.op = "insert" /\ r.row = Len(codes)
  BY Typed DEF AuthInv, DeskRow, DeskOps
<1>2. desk' = [desk EXCEPT ![d] = r] /\ UNCHANGED <<codes, sessions, user, changer, chosen, failures>>
  BY DEF VoidCodes, AuthInv, AuthTypeOK
<1> HIDE DEF r
<1>3. AuthTypeOK' /\ desk'[d] = r /\ \A e \in Desks \ {d} : desk'[e] = desk[e]
  BY <1>1, <1>2 DEF AuthInv, AuthTypeOK
<1>4. Open' = Open /\ FreshCodes' = FreshCodes /\ \A i \in Open' : i <= Len(codes)
  BY <1>2, Typed DEF AuthInv, Open, FreshCodes
<1>5. OpenHeld'
  BY <1>1, <1>3, <1>4, HeldKept DEF AuthInv
<1>6. Issuing' \subseteq Issuing
  BY <1>3 DEF Issuing, VoidCodes
<1> QED BY <1>3, <1>4, <1>5, <1>6, CountKept DEF AuthInv

\* The codes the UPDATE picked are void; the new one is held by this desk.
LEMMA IssueKeepsInv ==
    ASSUME AuthInv, NEW d \in Desks, IssueCode(d)
    PROVE  AuthInv'
<1> DEFINE n == Len(codes)
           m == desk[d].row
           old == Voided(m)
<1>1. n \in Nat /\ m \in Nat /\ desk[d].op = "insert"
  BY Typed, DeskFields DEF AuthInv, IssueCode
<1>2. codes' = Append(old, NewCode) /\ Done(d) /\ UNCHANGED <<sessions, user, changer, chosen, failures>>
  BY DEF IssueCode
<1>3. /\ old \in [1..n -> CodeRow]
      /\ \A i \in 1..n : old[i].fresh = codes[i].fresh /\ (~old[i].used => ~codes[i].used /\ ~(i <= m))
  <2>1. ASSUME NEW i \in 1..n
        PROVE  /\ old[i] \in CodeRow /\ old[i].fresh = codes[i].fresh
               /\ ~old[i].used => ~codes[i].used /\ ~(i <= m)
    <3>1. old[i] = IF i <= m THEN [codes[i] EXCEPT !.used = TRUE] ELSE codes[i]
      BY DEF Voided
    <3>2. codes[i] \in CodeRow
      BY Typed DEF AuthInv
    <3> HIDE DEF old, m, n
    <3>3. CASE i <= m
      BY <3>1, <3>2, <3>3 DEF CodeRow
    <3>4. CASE ~(i <= m)
      BY <3>1, <3>2, <3>4
    <3> QED BY <3>3, <3>4
  <2>2. old = [i \in 1..n |-> old[i]]
    BY DEF Voided
  <2> HIDE DEF old
  <2> QED BY <2>1, <2>2
<1>4. old \in Seq(CodeRow) /\ Len(old) = n
  <2> HIDE DEF old, n
  <2> QED BY <1>1, <1>3
<1>5. NewCode \in CodeRow /\ NewCode.fresh
  BY DEF NewCode, CodeRow
<1> HIDE DEF old, n, m
<1>6. /\ codes' \in Seq(CodeRow) /\ Len(codes') = n + 1
      /\ codes'[n + 1] = NewCode /\ \A i \in 1..n : codes'[i] = old[i]
  BY <1>1, <1>2, <1>4, <1>5
<1>7. desk' \in [Desks -> DeskRow] /\ desk'[d].op = "free" /\ \A e \in Desks \ {d} : desk'[e] = desk[e]
  BY <1>2, DoneTyped DEF AuthInv
<1>8. AuthTypeOK'
  BY <1>2, <1>6, <1>7 DEF AuthInv, AuthTypeOK
<1>9. FreshCodes' = FreshCodes \cup {n + 1} /\ n + 1 \notin FreshCodes
  <2>1. FreshCodes = {i \in 1..n : codes[i].fresh}
    BY DEF FreshCodes, n
  <2>2. FreshCodes' = {i \in 1..(n + 1) : codes'[i].fresh}
    BY <1>6 DEF FreshCodes
  <2> QED BY <1>1, <1>3, <1>5, <1>6, <2>1, <2>2
<1>10. \A i \in Open' : i = n + 1 \/ (i \in Open /\ ~(i <= m))
  <2> SUFFICES ASSUME NEW i \in Open', i # n + 1 PROVE i \in Open /\ ~(i <= m)
    OBVIOUS
  <2>1. i \in FreshCodes /\ i \in 1..n /\ ~codes'[i].used
    BY <1>9 DEF Open, FreshCodes, n
  <2> QED BY <1>3, <1>6, <2>1 DEF Open
<1>11. OpenHeld'
  <2>1. PICK f \in [Open -> Desks] : HeldBy(f)
    BY DEF AuthInv, OpenHeld
  <2>2. PICK g \in [Open' -> Desks] : \A i \in Open' : g[i] = IF i = n + 1 THEN d ELSE f[i]
    <3> DEFINE h == [i \in Open' |-> IF i = n + 1 THEN d ELSE f[i]]
    <3>1. h \in [Open' -> Desks] /\ \A i \in Open' : h[i] = IF i = n + 1 THEN d ELSE f[i]
      BY <1>10, <2>1
    <3> HIDE DEF h
    <3> QED BY <3>1
  <2>3. \A i \in Open' : i # n + 1 => g[i] = f[i] /\ g[i] # d /\ i \in Open
    BY <1>1, <1>10, <2>1, <2>2 DEF HeldBy, m
  <2>4. \A i, j \in Open' : g[i] = g[j] => i = j
    BY <2>1, <2>2, <2>3 DEF HeldBy
  <2>5. ASSUME NEW e \in Desks, desk'[e].op = "insert", NEW i \in Open', g[i] = e
        PROVE  i <= desk'[e].row
    <3>1. e # d /\ desk'[e] = desk[e]
      BY <1>7, <2>5
    <3>2. i # n + 1
      BY <2>2, <2>5, <3>1
    <3> QED BY <2>1, <2>3, <2>5, <3>1, <3>2 DEF HeldBy
  <2>6. HeldBy(g)'
    BY <2>4, <2>5 DEF HeldBy
  <2> QED BY <2>2, <2>6 DEF OpenHeld
<1>12. IssueCounted'
  <2>1. Issuing' = Issuing \ {d} /\ d \in Issuing
    BY <1>1, <1>7 DEF Issuing
  <2>2. IsFiniteSet(FreshCodes) /\ IsFiniteSet(Issuing)
    BY CountsTyped DEF AuthInv
  <2>3. Cardinality(FreshCodes') = Cardinality(FreshCodes) + 1
    BY <1>9, <2>2, FS_AddElement
  <2>4. Cardinality(Issuing') = Cardinality(Issuing) - 1
    BY <2>1, <2>2, FS_RemoveElement
  <2>5. Cardinality(FreshCodes) \in Nat /\ Cardinality(Issuing) \in Nat /\ Cardinality(Desks) \in Nat
    BY CountsTyped DEF AuthInv
  <2>6. Cardinality(FreshCodes)' = Cardinality(FreshCodes') /\ Cardinality(Issuing)' = Cardinality(Issuing')
    OBVIOUS
  <2> QED BY <2>3, <2>4, <2>5, <2>6, AuthAssumption DEF AuthInv, IssueCounted
<1> QED BY <1>8, <1>11, <1>12 DEF AuthInv

\* A request that issues nothing begins.
LEMMA CallKeepsInv ==
    ASSUME AuthInv, NEW d \in Desks, NEW r \in DeskRow, r.op \notin {"issue", "insert"}, Call(d, r)
    PROVE  AuthInv'
<1>1. AuthTypeOK' /\ UNCHANGED codes /\ desk'[d] = r /\ \A e \in Desks \ {d} : desk'[e] = desk[e]
  BY CallTyped DEF AuthInv
<1>2. Open' = Open /\ FreshCodes' = FreshCodes
  BY <1>1 DEF Open, FreshCodes
<1> QED BY <1>1, <1>2, BothKept

LEMMA BeginKeepsInv ==
    ASSUME AuthInv, NEW d \in Desks, NEW right \in BOOLEAN,
           \/ VerifyCode(d, right) \/ LoginPassword(d, right)
           \/ \E s \in 1..MaxSessions : AskSetPassword(d, s, right)
    PROVE  AuthInv'
<1>1. user \in UserRow
  BY DEF AuthInv, AuthTypeOK
<1>2. CASE VerifyCode(d, right)
  <2>1. PICK i \in 1..Len(codes) :
            Call(d, [Free EXCEPT !.op = "guess", !.right = right, !.row = i, !.attempts = codes[i].attempts])
    BY <1>2 DEF VerifyCode, Open, FreshCodes
  <2>2. codes[i].attempts \in Nat /\ i \in Nat
    <3>1. codes[i] \in CodeRow /\ i \in Nat
      BY Typed DEF AuthInv
    <3>2. codes[i].attempts \in Nat
      BY <3>1, CodeFields
    <3> QED BY <3>1, <3>2
  <2> DEFINE r == [Free EXCEPT !.op = "guess", !.right = right, !.row = i, !.attempts = codes[i].attempts]
  <2>3. r \in DeskRow /\ r.op = "guess"
    BY <2>2, FreeTyped DEF DeskRow, DeskOps
  <2> HIDE DEF r
  <2>4. Call(d, r)
    BY <2>1 DEF r
  <2> QED BY <2>3, <2>4, CallKeepsInv
<1>3. CASE LoginPassword(d, right)
  <2> DEFINE r == [Free EXCEPT !.op = "login", !.right = right, !.user = user]
  <2>1. r \in DeskRow /\ r.op = "login"
    BY <1>1, FreeTyped DEF DeskRow, DeskOps
  <2>2. Call(d, r)
    BY <1>3 DEF LoginPassword
  <2> HIDE DEF r
  <2> QED BY <2>1, <2>2, CallKeepsInv
<1>4. ASSUME NEW s \in 1..MaxSessions, AskSetPassword(d, s, right)
      PROVE  AuthInv'
  <2> DEFINE r == [Free EXCEPT !.op = "change", !.row = s, !.user = user]
  <2>1. s \in Nat
    BY AuthAssumption
  <2>2. r \in DeskRow /\ r.op = "change"
    BY <1>1, <2>1, FreeTyped DEF DeskRow, DeskOps
  <2>3. Call(d, r)
    BY <1>4 DEF AskSetPassword
  <2> HIDE DEF r
  <2> QED BY <2>2, <2>3, CallKeepsInv
<1> QED BY <1>2, <1>3, <1>4

\* A guess may use its code up, and opens none.
LEMMA GuessKeepsInv ==
    ASSUME AuthInv, NEW d \in Desks, Guess(d)
    PROVE  AuthInv'
<1> DEFINE i == desk[d].row
           a == Spent(desk[d].attempts)
           within == a <= MaxAttempts
           good == within /\ desk[d].right
           c == [codes[i] EXCEPT !.attempts = a, !.guessed = IF within THEN @ + 1 ELSE @,
                                 !.used = @ \/ good]
<1>1. a \in Nat
  BY Typed, DeskFields DEF AuthInv, Spent
<1>2. good \in BOOLEAN
  BY Typed, DeskFields DEF AuthInv
<1>3. /\ codes' = [codes EXCEPT ![i] = c]
      /\ sessions' = IF good THEN Append(sessions, NewSession("code")) ELSE sessions
      /\ Done(d) /\ UNCHANGED <<user, changer, chosen, failures>>
  BY DEF Guess, AuthInv, AuthTypeOK
<1> HIDE DEF good, i, a
<1>7. codes' \in Seq(CodeRow) /\ Open' \subseteq Open /\ FreshCodes' \subseteq FreshCodes
  <2>1. CASE i \notin 1..Len(codes)
    <3>1. codes' = codes
      BY <1>3, <2>1 DEF AuthInv, AuthTypeOK
    <3> QED BY <3>1 DEF AuthInv, AuthTypeOK, Open, FreshCodes
  <2>2. CASE i \in 1..Len(codes)
    <3>1. codes[i] \in CodeRow
      BY <2>2, Typed DEF AuthInv
    <3>2. c.used = (codes[i].used \/ good) /\ c.used \in BOOLEAN /\ c.fresh = codes[i].fresh
      BY <1>2, <3>1, CodeFields DEF CodeRow
    <3>3. c.attempts = a /\ c.guessed = IF within THEN codes[i].guessed + 1 ELSE codes[i].guessed
      BY <3>1 DEF CodeRow
    <3>4. c.guessed \in Nat
      <4>1. codes[i].guessed \in Nat
        BY <3>1, CodeFields
      <4> HIDE DEF c
      <4> QED BY <3>3, <4>1
    <3>5. c \in CodeRow
      BY <1>1, <3>1, <3>2, <3>3, <3>4 DEF CodeRow
    <3>6. c.used = FALSE => ~codes[i].used
      BY <3>2
    <3> HIDE DEF c
    <3> QED BY <1>3, <2>2, <3>2, <3>5, <3>6, CodeReplaced DEF AuthInv
  <2> QED BY <2>1, <2>2
<1>8. sessions' \in Seq(SessionRow)
  BY <1>3, SessionAppended DEF AuthInv, AuthTypeOK
<1>9. desk' \in [Desks -> DeskRow] /\ desk'[d].op = "free" /\ \A e \in Desks \ {d} : desk'[e] = desk[e]
  BY <1>3, DoneTyped DEF AuthInv
<1>10. AuthTypeOK'
  BY <1>3, <1>7, <1>8, <1>9 DEF AuthInv, AuthTypeOK
<1> QED BY <1>7, <1>9, <1>10, BothKept

\* What does not touch the codes, and ends a request, issues nothing.
LEMMA EndKeepsInv ==
    ASSUME AuthInv, AuthTypeOK', NEW d \in Desks, Done(d), UNCHANGED codes
    PROVE  AuthInv'
<1>1. desk'[d].op = "free" /\ \A e \in Desks \ {d} : desk'[e] = desk[e]
  BY DoneTyped DEF AuthInv
<1>2. Open' = Open /\ FreshCodes' = FreshCodes
  BY DEF Open, FreshCodes
<1> QED BY <1>1, <1>2, BothKept

LEMMA LoginKeepsInv ==
    ASSUME AuthInv, NEW d \in Desks, Login(d)
    PROVE  AuthInv'
<1> DEFINE u == desk[d].user
<1>1. u \in UserRow /\ user \in UserRow
  BY Typed, DeskFields DEF AuthInv, AuthTypeOK
<1>2. Done(d) /\ UNCHANGED <<codes, changer, chosen>>
  BY DEF Login
<1>3. desk' \in [Desks -> DeskRow]
  BY <1>2, DoneTyped DEF AuthInv
<1>4. user' \in UserRow /\ failures' \in Nat /\ sessions' \in Seq(SessionRow)
  <2>1. CASE ~desk[d].right
    <3>1. /\ user' = [user EXCEPT !.failed = Failed(u).failed,
                                  !.locked = IF Failed(u).locked = "yes" THEN "yes" ELSE user.locked]
          /\ failures' = IF Failed(u).failed = 0 THEN 0 ELSE failures + 1
          /\ sessions' = sessions
      BY <2>1, <1>1 DEF Login, UserRow
    <3> DEFINE f == Failed(u).failed
               l == IF Failed(u).locked = "yes" THEN "yes" ELSE user.locked
    <3>2. f \in Nat /\ l \in {"never", "yes", "past"}
      BY <1>1, FailedTyped, UserFields
    <3>3. user' = [user EXCEPT !.failed = f, !.locked = l]
      BY <3>1
    <3> HIDE DEF f, l
    <3>4. user' \in UserRow
      BY <1>1, <3>2, <3>3, UserUpdated
    <3> QED BY <3>1, <3>4 DEF AuthInv, AuthTypeOK
  <2>2. CASE desk[d].right
    <3>1. PICK rehash \in BOOLEAN :
            user' = [user EXCEPT !.password = IF rehash THEN u.password ELSE user.password,
                                 !.failed = IF u.failed = 0 THEN user.failed ELSE 0,
                                 !.locked = IF u.locked = "never" THEN user.locked ELSE "never"]
      BY <2>2, <1>1 DEF Login, UserRow
    <3>2. failures' = 0 /\ sessions' = Append(sessions, [NewSession("password") EXCEPT !.password = u.password])
      BY <2>2 DEF Login
    <3> DEFINE w == IF rehash THEN u.password ELSE user.password
               f == IF u.failed = 0 THEN user.failed ELSE 0
               l == IF u.locked = "never" THEN user.locked ELSE "never"
    <3>3. w \in Nat /\ f \in Nat /\ l \in {"never", "yes", "past"}
      BY <1>1, UserFields
    <3>4. user' = [user EXCEPT !.password = w, !.failed = f, !.locked = l]
      BY <3>1
    <3> HIDE DEF w, f, l, u
    <3>5. user' \in UserRow
      BY <1>1, <3>3, <3>4, UserUpdated
    <3>6. sessions' \in Seq(SessionRow)
      BY <1>1, <3>2, UserFields, SessionAppended DEF AuthInv
    <3> QED BY <3>2, <3>5, <3>6
  <2> QED BY <2>1, <2>2
<1>5. AuthTypeOK'
  BY <1>2, <1>3, <1>4 DEF AuthInv, AuthTypeOK
<1> QED BY <1>2, <1>5, EndKeepsInv

LEMMA RevokeKeepsInv ==
    ASSUME AuthInv, NEW d \in Desks, RevokeOthers(d)
    PROVE  AuthInv'
<1> DEFINE r == [desk[d] EXCEPT !.op = "write", !.attempts = Len(sessions)]
<1>1. r \in DeskRow /\ r.op = "write"
  BY Typed DEF AuthInv, DeskRow, DeskOps
<1>2. desk' = [desk EXCEPT ![d] = r] /\ UNCHANGED <<codes, sessions, user, changer, chosen, failures>>
  BY DEF RevokeOthers, AuthInv, AuthTypeOK
<1> HIDE DEF r
<1>3. AuthTypeOK' /\ desk'[d] = r /\ \A e \in Desks \ {d} : desk'[e] = desk[e]
  BY <1>1, <1>2 DEF AuthInv, AuthTypeOK
<1>4. Open' = Open /\ FreshCodes' = FreshCodes
  BY <1>2 DEF Open, FreshCodes
<1> QED BY <1>1, <1>3, <1>4, BothKept

LEMMA SetPasswordKeepsInv ==
    ASSUME AuthInv, NEW d \in Desks, SetPassword(d)
    PROVE  AuthInv'
<1> DEFINE s == desk[d].row
           m == desk[d].attempts
           n == Len(sessions)
<1>1. s \in Nat /\ m \in Nat /\ n \in Nat /\ chosen \in Nat /\ desk[d].user \in UserRow /\ user \in UserRow
  BY Typed, DeskFields DEF AuthInv, AuthTypeOK
<1>2. /\ chosen' = chosen + 1 /\ failures' = 0 /\ Done(d) /\ UNCHANGED codes /\ changer' = s
      /\ sessions' = OthersRevoked(s, m)
      /\ user' = [user EXCEPT !.password = chosen + 1,
                              !.failed = IF desk[d].user.failed = 0 THEN user.failed ELSE 0,
                              !.locked = IF desk[d].user.locked = "never" THEN user.locked ELSE "never"]
  BY <1>1 DEF SetPassword, UserRow
<1>3. user' \in UserRow
  <2> DEFINE f == IF desk[d].user.failed = 0 THEN user.failed ELSE 0
             l == IF desk[d].user.locked = "never" THEN user.locked ELSE "never"
  <2>1. chosen + 1 \in Nat /\ f \in Nat /\ l \in {"never", "yes", "past"}
    BY <1>1, UserFields
  <2>2. user' = [user EXCEPT !.password = chosen + 1, !.failed = f, !.locked = l]
    BY <1>2
  <2> HIDE DEF f, l
  <2> QED BY <1>1, <2>1, <2>2, UserUpdated
<1>4. sessions' \in [1..n -> SessionRow]
  <2>1. ASSUME NEW k \in 1..n
        PROVE  (IF k # s /\ k <= m THEN [sessions[k] EXCEPT !.live = FALSE] ELSE sessions[k]) \in SessionRow
    <3>1. sessions[k] \in SessionRow
      BY Typed DEF AuthInv
    <3> QED BY <3>1 DEF SessionRow
  <2> HIDE DEF s, m, n
  <2>2. sessions' = [k \in 1..n |-> IF k # s /\ k <= m THEN [sessions[k] EXCEPT !.live = FALSE] ELSE sessions[k]]
    BY <1>2 DEF OthersRevoked, n
  <2> QED BY <2>1, <2>2
<1>5. sessions' \in Seq(SessionRow)
  <2> HIDE DEF n
  <2> QED BY <1>1, <1>4
<1>6. desk' \in [Desks -> DeskRow]
  BY <1>2, DoneTyped DEF AuthInv
<1>7. AuthTypeOK'
  BY <1>1, <1>2, <1>3, <1>5, <1>6 DEF AuthInv, AuthTypeOK
<1> QED BY <1>2, <1>7, EndKeepsInv

\* The codes and the desks stay.
LEMMA QuietKeepsInv ==
    ASSUME AuthInv, AuthTypeOK', UNCHANGED <<codes, desk>>
    PROVE  AuthInv'
<1>1. Open' = Open /\ FreshCodes' = FreshCodes
  BY DEF Open, FreshCodes
<1> QED BY <1>1, BothKept

LEMMA EndSessionKeepsInv ==
    ASSUME AuthInv, NEW s, EndSession(s)
    PROVE  AuthInv'
<1>1. /\ s \in 1..Len(sessions) /\ sessions' = [sessions EXCEPT ![s] = [sessions[s] EXCEPT !.live = FALSE]]
      /\ UNCHANGED <<codes, user, desk, changer, chosen, failures>>
  BY DEF EndSession, Live, AuthInv, AuthTypeOK
<1>2. [sessions[s] EXCEPT !.live = FALSE] \in SessionRow
  BY <1>1, Typed DEF AuthInv, SessionRow
<1>3. AuthTypeOK'
  BY <1>1, <1>2 DEF AuthInv, AuthTypeOK
<1> QED BY <1>1, <1>3, QuietKeepsInv

LEMMA AgeKeepsInv ==
    ASSUME AuthInv, AgeCode
    PROVE  AuthInv'
<1>1. PICK i \in 1..Len(codes) : /\ codes' = [codes EXCEPT ![i] = [codes[i] EXCEPT !.fresh = FALSE]]
                                 /\ UNCHANGED <<sessions, user, desk, changer, chosen, failures>>
  BY DEF AgeCode, FreshCodes, AuthInv, AuthTypeOK
<1> DEFINE c == [codes[i] EXCEPT !.fresh = FALSE]
<1>2. c \in CodeRow /\ c.used = codes[i].used /\ ~c.fresh
  BY Typed DEF AuthInv, CodeRow
<1> HIDE DEF c
<1>3. codes' \in Seq(CodeRow) /\ Open' \subseteq Open /\ FreshCodes' \subseteq FreshCodes
  BY <1>1, <1>2, CodeReplaced DEF AuthInv, c
<1>4. AuthTypeOK'
  BY <1>1, <1>3 DEF AuthInv, AuthTypeOK
<1> QED BY <1>1, <1>3, <1>4, BothKept

LEMMA CoolOffKeepsInv ==
    ASSUME AuthInv, CoolOff
    PROVE  AuthInv'
<1>1. user' = [user EXCEPT !.locked = "past"] /\ UNCHANGED <<codes, sessions, desk, changer, chosen, failures>>
  BY DEF CoolOff
<1>2. AuthTypeOK'
  BY <1>1 DEF AuthInv, AuthTypeOK, UserRow
<1> QED BY <1>1, <1>2, QuietKeepsInv

LEMMA AuthNextInv == AuthInv /\ [AuthNext]_authVars => AuthInv'
<1> SUFFICES ASSUME AuthInv, [AuthNext]_authVars PROVE AuthInv'
  OBVIOUS
<1>1. CASE UNCHANGED authVars
  <2>1. UNCHANGED <<codes, desk>> /\ AuthTypeOK'
    BY <1>1 DEF authVars, AuthInv, AuthTypeOK
  <2> QED BY <2>1, QuietKeepsInv
<1>2. ASSUME NEW d \in Desks, RequestCode(d) PROVE AuthInv'
  BY <1>2, RequestKeepsInv
<1>3. ASSUME NEW d \in Desks, VoidCodes(d) PROVE AuthInv'
  BY <1>3, VoidKeepsInv
<1>4. ASSUME NEW d \in Desks, IssueCode(d) PROVE AuthInv'
  BY <1>4, IssueKeepsInv
<1>5. ASSUME NEW d \in Desks, Guess(d) PROVE AuthInv'
  BY <1>5, GuessKeepsInv
<1>6. ASSUME NEW d \in Desks, Login(d) PROVE AuthInv'
  BY <1>6, LoginKeepsInv
<1>7. ASSUME NEW d \in Desks, RevokeOthers(d) PROVE AuthInv'
  BY <1>7, RevokeKeepsInv
<1>8. ASSUME NEW d \in Desks, SetPassword(d) PROVE AuthInv'
  BY <1>8, SetPasswordKeepsInv
<1>9. ASSUME NEW d \in Desks, NEW right \in BOOLEAN,
             \/ VerifyCode(d, right) \/ LoginPassword(d, right)
             \/ \E s \in 1..MaxSessions : AskSetPassword(d, s, right)
      PROVE  AuthInv'
  BY <1>9, BeginKeepsInv
<1>10. ASSUME NEW s \in 1..MaxSessions, EndSession(s) PROVE AuthInv'
  BY <1>10, EndSessionKeepsInv
<1>11. CASE AgeCode
  BY <1>11, AgeKeepsInv
<1>12. CASE CoolOff
  BY <1>12, CoolOffKeepsInv
<1> QED BY <1>1, <1>2, <1>3, <1>4, <1>5, <1>6, <1>7, <1>8, <1>9, <1>10, <1>11, <1>12 DEF AuthNext

LEMMA AuthAlways == AuthSpec => []AuthInv
BY AuthInitInv, AuthNextInv, PTL DEF AuthSpec

-----------------------------------------------------------------------------
\* At most one code per server thread can still be used: asking for a new one
\* voids those committed before, and only those (request_code), for any number of
\* threads and codes and whatever requests overlap.
THEOREM CodesVoided == AuthSpec => []OpenPerDesk
<1>1. AuthInv => OpenPerDesk
  <2> SUFFICES ASSUME AuthInv PROVE Cardinality(Open) <= Cardinality(Desks)
    BY DEF OpenPerDesk
  <2>1. PICK f \in [Open -> Desks] : \A i, j \in Open : f[i] = f[j] => i = j
    BY DEF AuthInv, OpenHeld, HeldBy
  <2>2. f \in Injection(Open, Desks)
    BY <2>1 DEF Injection, IsInjective
  <2> QED BY <2>2, AuthAssumption, FS_Injection
<1> QED BY <1>1, AuthAlways, PTL

\* Threads that count at the same time pass MAX_ISSUED_PER_WINDOW by at most one
\* code each but the first (request_code), for any cap, any number of threads and
\* whatever requests overlap.
THEOREM IssuesLimited == AuthSpec => []IssueBudget
<1>1. AuthInv => IssueBudget
  <2> SUFFICES ASSUME AuthInv PROVE IssueBudget
    OBVIOUS
  <2>1. Cardinality(FreshCodes) \in Nat /\ Cardinality(Issuing) \in Nat /\ Cardinality(Desks) \in Nat
    BY CountsTyped DEF AuthInv
  <2> QED BY <2>1, AuthAssumption DEF AuthInv, IssueCounted, IssueBudget
<1> QED BY <1>1, AuthAlways, PTL
=============================================================================
