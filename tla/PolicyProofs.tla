----------------------------- MODULE PolicyProofs -----------------------------
(***************************************************************************)
(* What governs an organisation: its policy documents (PolicyDocs), the    *)
(* rulebooks its profile derives (OrgProfile), what they say of an output  *)
(* (PolicyEval), and the watch over the page a rulebook cites (RegWatch),  *)
(* for any versions, profiles, packs, outputs and texts.                   *)
(*                                                                         *)
(* Documents: the version activated last has an active row, since another  *)
(* version retires it only by becoming active itself.                      *)
(*                                                                         *)
(* Profile: what is declared shrinks only by an approved request, and the  *)
(* rulebooks that follow from it stay subscribed, as long as the           *)
(* organisation's requests do not overlap (Serial).  A save under way is   *)
(* then the only one and has read the profile that still stands.           *)
(*                                                                         *)
(* Verdicts: among the rules that match, one comes before all others, so   *)
(* that the first matching rule is defined; the rest follows from what the *)
(* rules look at and what the edits take away.                             *)
(*                                                                         *)
(* Watch: what is pending is what the last sweep saw.  A person who        *)
(* supplies a text during a sweep can drop it, never set it; another sweep *)
(* could, so that sweeps may not overlap (OneSweepAtATime).                *)
(***************************************************************************)
EXTENDS PolicyDocs, OrgProfile, PolicyEval, RegWatch, WellFoundedInduction, TLAPS

-----------------------------------------------------------------------------
(* A non-empty set of positions has a last one.                            *)

LEMMA SmallestNat ==
    ASSUME NEW S \in SUBSET Nat, S # {}
    PROVE  \E m \in S : \A k \in S : m <= k
<1>1. PICK m \in S : \A k \in S : <<k, m>> \notin OpToRel(<, Nat)
  BY NatLessThanWellFounded, WFMin
<1>2. \A k \in S : ~(k < m)
  BY <1>1 DEF OpToRel
<1> QED BY <1>2

LEMMA LargestIndex ==
    ASSUME NEW n \in Nat, NEW S \in SUBSET (1..n), S # {}
    PROVE  \E m \in S : \A k \in S : k <= m
<1> DEFINE T == {n - k : k \in S}
<1>1. PICK s \in S : TRUE
  OBVIOUS
<1>2. n - s \in T
  BY <1>1
<1>3. T \in SUBSET Nat /\ T # {}
  BY <1>2
<1>4. PICK t \in T : \A k \in T : t <= k
  <2> HIDE DEF T
  <2> QED BY <1>3, SmallestNat
<1>5. PICK m \in S : t = n - m
  BY <1>4
<1>6. \A k \in S : n - m <= n - k
  BY <1>4, <1>5
<1> QED BY <1>6

-----------------------------------------------------------------------------
(* Policy documents: the invariant.                                        *)

\* A row of the table policies.
PolicyRow == [version : Versions, active : BOOLEAN]

\* The table, and the document asked for last.
DocsTypeOK ==
    /\ docs \in Seq(PolicyRow)
    /\ asked \in Versions \cup {"none"}

\* The version activated last has an active row.
AskedIsActive ==
    asked # "none" => \E i \in DOMAIN docs : docs[i].version = asked /\ docs[i].active

DocsInv == DocsTypeOK /\ AskedIsActive

LEMMA RowFields ==
    ASSUME NEW r \in PolicyRow, NEW b \in BOOLEAN
    PROVE  r.version \in Versions /\ [r EXCEPT !.active = b] \in PolicyRow
BY DEF PolicyRow

LEMMA RowsTyped ==
    ASSUME DocsTypeOK
    PROVE  \A i \in DOMAIN docs : docs[i] \in PolicyRow
BY DEF DocsTypeOK

LEMMA DocsInitInv == DocsInit => DocsInv
BY DEF DocsInit, DocsInv, DocsTypeOK, AskedIsActive

\* Storing a version that exists changes the flag of its own row.
LEMMA ReplaceKeepsInv ==
    ASSUME DocsInv, NEW v \in Versions, NEW activate \in BOOLEAN,
           PutPolicy(v, activate), ByVersion(v) # {}
    PROVE  DocsInv'
<1> USE VersionsAssumption
<1>1. docs' = [i \in DOMAIN docs |-> IF i \in ByVersion(v) THEN [docs[i] EXCEPT !.active = activate]
                                                           ELSE docs[i]]
  BY DEF PutPolicy
<1>2. /\ DOMAIN docs' = DOMAIN docs
      /\ \A i \in DOMAIN docs :
            /\ docs'[i].version = docs[i].version
            /\ docs[i].version # v => docs'[i] = docs[i]
            /\ docs[i].version = v => docs'[i].active = activate
  BY <1>1 DEF DocsInv, DocsTypeOK, ByVersion
<1>3. DocsTypeOK'
  <2>1. docs' \in Seq(PolicyRow)
    <3>1. \A i \in DOMAIN docs : docs'[i] \in PolicyRow
      <4> SUFFICES ASSUME NEW i \in DOMAIN docs PROVE docs'[i] \in PolicyRow
        OBVIOUS
      <4>1. docs[i] \in PolicyRow
        BY RowsTyped DEF DocsInv
      <4>2. [docs[i] EXCEPT !.active = activate] \in PolicyRow
        BY <4>1, RowFields
      <4> QED BY <1>1, <4>1, <4>2
    <3>2. docs' \in [1..Len(docs) -> PolicyRow]
      BY <1>1, <3>1 DEF DocsInv, DocsTypeOK
    <3> QED BY <3>2 DEF DocsInv, DocsTypeOK
  <2> QED BY <2>1 DEF PutPolicy, DocsInv, DocsTypeOK
<1>4. AskedIsActive'
  <2>1. CASE activate
    <3>1. PICK i \in DOMAIN docs : docs[i].version = v
      BY DEF ByVersion
    <3>2. docs'[i].version = v /\ docs'[i].active
      BY <1>2, <3>1, <2>1
    <3> QED BY <1>2, <2>1, <3>2 DEF AskedIsActive, PutPolicy
  <2>2. CASE ~activate /\ asked # v /\ asked # "none"
    <3>1. PICK i \in DOMAIN docs : docs[i].version = asked /\ docs[i].active
      BY <2>2 DEF DocsInv, AskedIsActive
    <3>2. docs'[i] = docs[i] /\ i \in DOMAIN docs'
      BY <1>2, <2>2, <3>1
    <3> QED BY <2>2, <3>1, <3>2 DEF AskedIsActive, PutPolicy
  <2>3. CASE ~activate /\ (asked = v \/ asked = "none")
    BY <2>3 DEF AskedIsActive, PutPolicy
  <2> QED BY <2>1, <2>2, <2>3
<1> QED BY <1>3, <1>4 DEF DocsInv

\* A new version is appended; the others are retired if it becomes active.
LEMMA AppendKeepsInv ==
    ASSUME DocsInv, NEW v \in Versions, NEW activate \in BOOLEAN,
           PutPolicy(v, activate), ByVersion(v) = {}
    PROVE  DocsInv'
<1> DEFINE old == Retired(docs, activate)
           new == [version |-> v, active |-> activate]
<1>1. docs' = Append(old, new)
  BY DEF PutPolicy
<1>2. old \in Seq(PolicyRow) /\ Len(old) = Len(docs)
  <2>1. CASE activate
    <3>1. old = [i \in DOMAIN docs |-> [docs[i] EXCEPT !.active = FALSE]]
      BY <2>1 DEF Retired
    <3>2. \A i \in DOMAIN docs : [docs[i] EXCEPT !.active = FALSE] \in PolicyRow
      BY RowsTyped, RowFields DEF DocsInv
    <3>3. old \in [1..Len(docs) -> PolicyRow]
      BY <3>1, <3>2 DEF DocsInv, DocsTypeOK
    <3>4. old \in Seq(PolicyRow)
      <4> HIDE DEF old
      <4> QED BY <3>3 DEF DocsInv, DocsTypeOK
    <3> QED BY <3>1, <3>4 DEF DocsInv, DocsTypeOK
  <2>2. CASE ~activate
    BY <2>2 DEF Retired, DocsInv, DocsTypeOK
  <2> QED BY <2>1, <2>2
<1>3. new \in PolicyRow
  BY DEF PolicyRow
<1>4. DocsTypeOK'
  <2>1. docs' \in Seq(PolicyRow)
    <3> HIDE DEF old, new
    <3> QED BY <1>1, <1>2, <1>3
  <2> QED BY <2>1 DEF PutPolicy, DocsInv, DocsTypeOK
<1>5. AskedIsActive'
  <2>1. CASE activate
    <3>1. docs'[Len(docs) + 1] = new /\ Len(docs) + 1 \in DOMAIN docs'
      <4> HIDE DEF old, new
      <4> QED BY <1>1, <1>2, <1>3 DEF DocsInv, DocsTypeOK
    <3>2. docs'[Len(docs) + 1].version = v /\ docs'[Len(docs) + 1].active
      BY <2>1, <3>1
    <3>3. asked' = v
      BY <2>1 DEF PutPolicy
    <3> QED BY <3>1, <3>2, <3>3 DEF AskedIsActive
  <2>2. CASE ~activate
    <3>1. docs' = Append(docs, new)
      BY <1>1, <2>2 DEF Retired
    <3>2. \A i \in DOMAIN docs : i \in DOMAIN docs' /\ docs'[i] = docs[i]
      <4> HIDE DEF new
      <4> QED BY <3>1 DEF DocsInv, DocsTypeOK
    <3>3. asked' = asked \/ asked' = "none"
      BY <2>2 DEF PutPolicy
    <3> QED BY <3>2, <3>3 DEF AskedIsActive, DocsInv
  <2> QED BY <2>1, <2>2
<1> QED BY <1>4, <1>5 DEF DocsInv

LEMMA DocsNextInv == DocsInv /\ [DocsNext]_docsVars => DocsInv'
<1> SUFFICES ASSUME DocsInv, [DocsNext]_docsVars PROVE DocsInv'
  OBVIOUS
<1>1. CASE DocsNext
  <2>1. PICK v \in Versions, activate \in BOOLEAN : PutPolicy(v, activate)
    BY <1>1 DEF DocsNext
  <2> QED BY <2>1, ReplaceKeepsInv, AppendKeepsInv
<1>2. CASE UNCHANGED docsVars
  BY <1>2 DEF docsVars, DocsInv, DocsTypeOK, AskedIsActive
<1> QED BY <1>1, <1>2

-----------------------------------------------------------------------------
(* Policy documents: the property.                                         *)

\* get_active_policy finds a document when an active row exists.
LEMMA ActiveIsFound ==
    ASSUME DocsTypeOK, NEW i \in DOMAIN docs, docs[i].active
    PROVE  ActivePolicy(docs) # "none"
<1> DEFINE on == {k \in DOMAIN docs : docs[k].active}
           m  == CHOOSE k \in on : \A j \in on : j <= k
<1>1. on \in SUBSET (1..Len(docs)) /\ on # {} /\ Len(docs) \in Nat
  BY DEF DocsTypeOK
<1>2. \E k \in on : \A j \in on : j <= k
  <2> HIDE DEF on
  <2> QED BY <1>1, LargestIndex
<1>3. m \in on
  <2> HIDE DEF on
  <2> QED BY <1>2
<1>4. docs[m].version \in Versions
  <2>1. m \in DOMAIN docs
    <3> HIDE DEF m
    <3> QED BY <1>3
  <2> HIDE DEF m
  <2> QED BY <2>1, RowsTyped, RowFields
<1>5. ActivePolicy(docs) = docs[m].version
  BY <1>1 DEF ActivePolicy
<1> QED BY <1>4, <1>5, VersionsAssumption

\* Until the document activated last is stored as inactive some document is in
\* force, whatever versions are stored in between (upsert_policy,
\* get_active_policy), for any set of version names.
THEOREM DocumentInForce == DocsSpec => []SomeDocumentInForce
<1>1. DocsInv => SomeDocumentInForce
  BY ActiveIsFound DEF DocsInv, AskedIsActive, SomeDocumentInForce
<1> QED BY <1>1, DocsInitInv, DocsNextInv, PTL DEF DocsSpec

-----------------------------------------------------------------------------
(* Profile: the invariant.                                                 *)

\* A row of regulation_packs.
PackRow == [code : Packs, places : SUBSET (Places \cup {"*"}), fields : SUBSET (Fields \cup {"*"})]

\* Every subscription is to a version in the table.
SubscribedExist == published \in Seq(PackRow) /\ DOMAIN applied \subseteq DOMAIN published

\* A request under way adds codes that are in the table.
PlansExist ==
    /\ saver = [w \in Savers |-> saver[w]]
    /\ \A w \in Savers : \A c \in saver[w].plan.add : VersionsOf(c, published) # {}

ProfileInv == SubscribedExist /\ PlansExist /\ followed \in BOOLEAN /\ ReconcileFollows

LEMMA LatestPackIs ==
    ASSUME SubscribedExist, NEW c, VersionsOf(c, published) # {}
    PROVE  LatestPack(c) \in DOMAIN published /\ published[LatestPack(c)].code = c
<1> DEFINE S == VersionsOf(c, published)
<1>1. S \in SUBSET (1..Len(published)) /\ S # {} /\ Len(published) \in Nat
  BY DEF SubscribedExist, VersionsOf
<1>2. \E v \in S : \A u \in S : u <= v
  <2> HIDE DEF S
  <2> QED BY <1>1, LargestIndex
<1>3. LatestPack(c) \in S
  BY <1>2 DEF LatestPack
<1> QED BY <1>3 DEF VersionsOf

LEMMA MandatoryPublished ==
    ASSUME NEW p, NEW c \in Mandatory(p, published)
    PROVE  VersionsOf(c, published) # {}
BY DEF Mandatory, VersionsOf

-----------------------------------------------------------------------------
(* reconcile_packs                                                         *)

\* What there is to do for profile p: done, every code that p derives has a
\* subscription, and a code beyond those had two, of which one was deleted.
LEMMA PlanApplies ==
    ASSUME SubscribedExist, NEW p, NEW plan \in Plans(p)
    PROVE  /\ Mandatory(p, published) \subseteq SubscribedCodes(Reconciled(plan))
           /\ \A c \in SubscribedCodes(Reconciled(plan)) \ Mandatory(p, published) :
                 \E u, v \in VersionsOf(c, published) : u # v
<1> DEFINE gone == SubscribedCodes(applied) \ Mandatory(p, published)
           kept == [gone -> DOMAIN applied]
           subs == Reconciled(plan)
<1>1. PICK k \in kept : /\ \A c \in gone : published[k[c]].code = c
                        /\ plan = [add |-> Added(p, applied), drop |-> {k[c] : c \in gone}]
  BY Zenon DEF Plans
<1>2. DOMAIN subs = (DOMAIN applied \cup {LatestPack(c) : c \in Added(p, applied)}) \ {k[c] : c \in gone}
  BY <1>1 DEF Reconciled
<1>3. \A c \in Mandatory(p, published) :
          LatestPack(c) \in DOMAIN published /\ published[LatestPack(c)].code = c
  BY MandatoryPublished, LatestPackIs
<1>4. Added(p, applied) \subseteq Mandatory(p, published)
  BY DEF Added
<1> HIDE DEF subs
<1>5. ASSUME NEW c \in Mandatory(p, published)
      PROVE  \E v \in DOMAIN subs : published[v].code = c
  <2>1. \A v : published[v].code = c => v \notin {k[b] : b \in gone}
    BY <1>1, <1>5
  <2>2. CASE c \in SubscribedCodes(applied)
    <3>1. PICK v \in DOMAIN applied : published[v].code = c
      BY <2>2 DEF SubscribedCodes
    <3> QED BY <1>2, <2>1, <3>1
  <2>3. CASE c \notin SubscribedCodes(applied)
    <3>1. c \in Added(p, applied)
      BY <1>5, <2>3 DEF Added
    <3> QED BY <1>2, <1>3, <2>1, <3>1
  <2> QED BY <2>2, <2>3
<1>6. ASSUME NEW c \in SubscribedCodes(subs), c \notin Mandatory(p, published)
      PROVE  \E u, v \in VersionsOf(c, published) : u # v
  <2>1. PICK v \in DOMAIN subs : published[v].code = c
    BY <1>6 DEF SubscribedCodes
  <2>2. v \in DOMAIN applied
    BY <1>2, <1>3, <1>4, <1>6, <2>1
  <2>3. c \in gone
    BY <1>6, <2>1, <2>2 DEF SubscribedCodes
  <2>4. k[c] \in DOMAIN applied /\ published[k[c]].code = c /\ v # k[c]
    BY <1>1, <1>2, <2>1, <2>3
  <2> QED BY <2>1, <2>2, <2>4 DEF VersionsOf, SubscribedExist
<1>7. Mandatory(p, published) \subseteq SubscribedCodes(subs)
  BY <1>5 DEF SubscribedCodes
<1> QED BY <1>6, <1>7 DEF subs

\* A plan adds codes that are in the table.
LEMMA PlanPublished ==
    ASSUME NEW p, NEW plan \in Plans(p)
    PROVE  \A c \in plan.add : VersionsOf(c, published) # {}
<1>1. plan.add = Added(p, applied)
  BY DEF Plans
<1> QED BY <1>1, MandatoryPublished DEF Added

LEMMA FollowInv ==
    ASSUME ProfileInv, NEW w \in Savers, Follow(w), published' = published
    PROVE  ProfileInv'
<1> DEFINE plan == saver[w].plan
           p    == saver[w].to
<1>1. /\ applied' = Reconciled(plan) /\ followed' = (plan \in Plans(p))
      /\ derived' = IF plan \in Plans(p) THEN Mandatory(p, published) ELSE {}
      /\ saver' = [saver EXCEPT ![w] = IdleSaver]
  BY DEF Follow
<1>2. SubscribedExist'
  <2>1. \A c \in plan.add : LatestPack(c) \in DOMAIN published
    BY LatestPackIs DEF ProfileInv, PlansExist
  <2>2. DOMAIN applied' = (DOMAIN applied \cup {LatestPack(c) : c \in plan.add}) \ plan.drop
    BY <1>1 DEF Reconciled
  <2> QED BY <2>1, <2>2 DEF ProfileInv, SubscribedExist
<1>3. PlansExist'
  <2>1. saver' = [v \in Savers |-> IF v = w THEN IdleSaver ELSE saver[v]]
    BY <1>1 DEF ProfileInv, PlansExist
  <2> QED BY <2>1 DEF ProfileInv, PlansExist, IdleSaver, VersionsOf
<1>4. ReconcileFollows'
  <2>1. SubscribedCodes(applied)' = SubscribedCodes(applied')
    BY DEF SubscribedCodes
  <2>2. CASE plan \in Plans(p)
    <3>1. /\ derived' \subseteq SubscribedCodes(applied')
          /\ \A c \in SubscribedCodes(applied') \ derived' : \E u, v \in VersionsOf(c, published) : u # v
      BY <1>1, <2>2, PlanApplies DEF ProfileInv
    <3> QED BY <2>1, <3>1 DEF ReconcileFollows
  <2>3. CASE plan \notin Plans(p)
    BY <1>1, <2>3 DEF ReconcileFollows
  <2> QED BY <2>2, <2>3
<1> QED BY <1>1, <1>2, <1>3, <1>4 DEF ProfileInv

\* When neither the packs nor the subscriptions change, and a request at most
\* comes to hold a plan of its own.
LEMMA SamePacks ==
    ASSUME ProfileInv, UNCHANGED <<published, applied, derived, followed>>,
           \/ saver' = saver
           \/ \E w \in Savers : \E r : /\ saver' = [saver EXCEPT ![w] = r]
                                       /\ \A c \in r.plan.add : VersionsOf(c, published) # {}
    PROVE  ProfileInv'
<1>1. PlansExist'
  <2>1. CASE saver' = saver
    BY <2>1 DEF ProfileInv, PlansExist, VersionsOf
  <2>2. ASSUME NEW w \in Savers, NEW r, saver' = [saver EXCEPT ![w] = r],
               \A c \in r.plan.add : VersionsOf(c, published) # {}
        PROVE  PlansExist'
    <3>1. saver' = [v \in Savers |-> IF v = w THEN r ELSE saver[v]]
      BY <2>2 DEF ProfileInv, PlansExist
    <3> QED BY <2>2, <3>1 DEF ProfileInv, PlansExist, VersionsOf
  <2> QED BY <2>1, <2>2
<1> QED BY <1>1 DEF ProfileInv, SubscribedExist, ReconcileFollows, SubscribedCodes, VersionsOf

\* A request that ends, or has only read, holds none.
LEMMA NoPlan ==
    ASSUME ProfileInv, UNCHANGED <<published, applied, derived, followed>>,
           NEW w \in Savers, NEW r, saver' = [saver EXCEPT ![w] = r], r.plan = IdleSaver.plan
    PROVE  ProfileInv'
<1>1. \A c \in r.plan.add : VersionsOf(c, published) # {}
  BY DEF IdleSaver
<1> QED BY <1>1, SamePacks

LEMMA LockProfileInv ==
    ASSUME ProfileInv, UNCHANGED <<published, applied, derived, followed>>,
           NEW w \in Savers, NEW saw, NEW p, NEW i, LockProfile(w, saw, p, i)
    PROVE  ProfileInv'
<1>1. PICK plan \in Plans(p) :
         saver' = [saver EXCEPT ![w] = [at |-> "save", saw |-> saw, to |-> p, plan |-> plan, ask |-> i]]
  BY DEF LockProfile
<1> DEFINE r == [at |-> "save", saw |-> saw, to |-> p, plan |-> plan, ask |-> i]
<1>2. r.plan = plan
  OBVIOUS
<1>3. \A c \in r.plan.add : VersionsOf(c, published) # {}
  BY <1>2, PlanPublished
<1>4. saver' = [saver EXCEPT ![w] = r]
  BY <1>1
<1> HIDE DEF r
<1> QED BY <1>3, <1>4, SamePacks

\* A version added keeps the ones there are; one refreshed keeps its code.
LEMMA PublishPackInv ==
    ASSUME ProfileInv, NEW doc \in Documents, PublishPack(doc)
    PROVE  ProfileInv'
<1>1. doc \in PackRow
  BY ProfileAssumption DEF PackRow
<1>2. followed' = FALSE /\ UNCHANGED <<applied, derived, saver>>
  BY DEF PublishPack
<1>3. /\ published' \in Seq(PackRow) /\ DOMAIN published \subseteq DOMAIN published'
      /\ \A v \in DOMAIN published : published'[v].code = published[v].code
  <2>1. CASE published' = Append(published, doc)
    BY <1>1, <2>1 DEF ProfileInv, SubscribedExist
  <2>2. ASSUME NEW v \in VersionsOf(doc.code, published), published' = [published EXCEPT ![v] = doc]
        PROVE  /\ published' \in Seq(PackRow) /\ DOMAIN published' = DOMAIN published
               /\ \A w \in DOMAIN published : published'[w].code = published[w].code
    <3>1. published \in Seq(PackRow) /\ v \in DOMAIN published /\ published[v].code = doc.code
      BY <2>2 DEF ProfileInv, SubscribedExist, VersionsOf
    <3> QED BY <1>1, <2>2, <3>1
  <2> QED BY <2>1, <2>2 DEF PublishPack
<1>4. SubscribedCodes(applied)' = SubscribedCodes(applied)
  BY <1>2, <1>3 DEF SubscribedCodes, ProfileInv, SubscribedExist
<1>5. ReconcileFollows'
  BY <1>2, <1>4 DEF ProfileInv, ReconcileFollows
<1>6. PlansExist'
  <2>1. \A c : VersionsOf(c, published) \subseteq VersionsOf(c, published')
    BY <1>3 DEF VersionsOf
  <2> QED BY <1>2, <2>1 DEF ProfileInv, PlansExist, VersionsOf
<1> QED BY <1>2, <1>3, <1>5, <1>6 DEF ProfileInv, SubscribedExist

LEMMA SubscribeOrgInv ==
    ASSUME ProfileInv, NEW c \in Packs, NEW on \in BOOLEAN, SubscribeOrg(c, on)
    PROVE  ProfileInv'
<1>1. followed' = FALSE /\ UNCHANGED <<published, derived, saver>>
  BY DEF SubscribeOrg
<1>2. DOMAIN applied' = DOMAIN applied \cup {LatestPack(c)} /\ LatestPack(c) \in DOMAIN published
  BY LatestPackIs DEF SubscribeOrg, Subscribed, ProfileInv
<1>3. SubscribedCodes(applied) \subseteq SubscribedCodes(applied)'
  BY <1>1, <1>2 DEF SubscribedCodes
<1>4. ReconcileFollows'
  BY <1>1, <1>3 DEF ProfileInv, ReconcileFollows
<1> QED BY <1>1, <1>2, <1>4 DEF ProfileInv, SubscribedExist, PlansExist, VersionsOf

LEMMA ProfileInitInv == ProfileInit => ProfileInv
BY DEF ProfileInit, ProfileInv, SubscribedExist, PlansExist, IdleSaver, ReconcileFollows, SubscribedCodes

LEMMA ProfileNextInv == ProfileInv /\ [ProfileNext]_profileVars => ProfileInv'
<1> SUFFICES ASSUME ProfileInv, [ProfileNext]_profileVars PROVE ProfileInv'
  OBVIOUS
<1>1. ASSUME NEW w \in Savers, NEW p \in Profiles, SaveRead(w, p) PROVE ProfileInv'
  <2> DEFINE r == [IdleSaver EXCEPT !.at = "read", !.saw = declared, !.to = p]
  <2>1. r.plan = IdleSaver.plan
    BY DEF IdleSaver
  <2>2. saver' = [saver EXCEPT ![w] = r] /\ UNCHANGED <<published, applied, derived, followed>>
    BY <1>1 DEF SaveRead
  <2> HIDE DEF r
  <2> QED BY <2>1, <2>2, NoPlan
<1>2. ASSUME NEW w \in Savers, FileRequest(w) \/ ReconcileOrg(w) PROVE ProfileInv'
  <2>1. CASE FileRequest(w)
    BY <2>1, NoPlan DEF FileRequest
  <2>2. CASE ReconcileOrg(w)
    <3> DEFINE r == [IdleSaver EXCEPT !.at = "reconcile", !.to = declared]
    <3>1. r.plan = IdleSaver.plan
      BY DEF IdleSaver
    <3>2. saver' = [saver EXCEPT ![w] = r] /\ UNCHANGED <<published, applied, derived, followed>>
      BY <2>2 DEF ReconcileOrg
    <3> HIDE DEF r
    <3> QED BY <3>1, <3>2, NoPlan
  <2> QED BY <1>2, <2>1, <2>2
<1>3. ASSUME NEW w \in Savers, SaveApply(w) PROVE ProfileInv'
  <2>1. UNCHANGED <<published, applied, derived, followed>>
    BY <1>3 DEF SaveApply
  <2>2. CASE saver' = [saver EXCEPT ![w] = IdleSaver]
    BY <2>1, <2>2, NoPlan
  <2>3. CASE LockProfile(w, saver[w].saw, saver[w].to, 0)
    <3> DEFINE a == saver[w].saw
               b == saver[w].to
    <3>1. LockProfile(w, a, b, 0)
      BY <2>3
    <3> HIDE DEF a, b
    <3> QED BY <2>1, <3>1, LockProfileInv
  <2> QED BY <1>3, <2>2, <2>3 DEF SaveApply
<1>4. ASSUME NEW w \in Savers, SaveWrite(w) \/ ReconcileWrite(w) PROVE ProfileInv'
  BY <1>4, FollowInv DEF SaveWrite, ReconcileWrite
<1>5. ASSUME NEW w \in Savers, NEW i \in DOMAIN asks, Approve(w, i) PROVE ProfileInv'
  BY <1>5, LockProfileInv DEF Approve
<1>6. ASSUME NEW w \in Savers, ReconcileRead(w) PROVE ProfileInv'
  <2>1. PICK plan \in Plans(saver[w].to) :
           saver' = [saver EXCEPT ![w] = [IdleSaver EXCEPT !.at = "fix", !.to = saver[w].to, !.plan = plan]]
    BY <1>6 DEF ReconcileRead
  <2> DEFINE r == [IdleSaver EXCEPT !.at = "fix", !.to = saver[w].to, !.plan = plan]
  <2>2. r.plan = plan
    BY DEF IdleSaver
  <2>3. \A c \in r.plan.add : VersionsOf(c, published) # {}
    BY <2>2, PlanPublished
  <2>4. saver' = [saver EXCEPT ![w] = r] /\ UNCHANGED <<published, applied, derived, followed>>
    BY <1>6, <2>1 DEF ReconcileRead
  <2> HIDE DEF r
  <2> QED BY <2>3, <2>4, SamePacks
<1>7. ASSUME NEW i \in DOMAIN asks, Deny(i) PROVE ProfileInv'
  BY <1>7, SamePacks DEF Deny
<1>8. ASSUME NEW doc \in Documents, PublishPack(doc) PROVE ProfileInv'
  BY <1>8, PublishPackInv
<1>9. ASSUME NEW c \in Packs, NEW on \in BOOLEAN, SubscribeOrg(c, on) PROVE ProfileInv'
  BY <1>9, SubscribeOrgInv
<1>10. CASE UNCHANGED profileVars
  BY <1>10, SamePacks DEF profileVars
<1> QED BY <1>1, <1>2, <1>3, <1>4, <1>5, <1>6, <1>7, <1>8, <1>9, <1>10 DEF ProfileNext

-----------------------------------------------------------------------------
(* Profile: the property.                                                  *)

\* What the profile derives when the subscriptions follow it stays subscribed,
\* and a code left over has another version (mandatory_packs, reconcile_packs),
\* for any profiles, documents and number of versions and whatever saves,
\* decisions, reconciliations and publications overlap.
THEOREM DerivedPacksStay == ProfileSpec => []ReconcileFollows
<1>1. ProfileInv => ReconcileFollows
  BY DEF ProfileInv
<1> QED BY <1>1, ProfileInitInv, ProfileNextInv, PTL DEF ProfileSpec

-----------------------------------------------------------------------------
(* Judging an output: the invariant.                                       *)

\* A rule of a policy.
DocumentRule ==
    [on : Signals, tier : DOMAIN TierRankOf, decision : {"allow", "flag", "deny"}, priority : Nat]

\* The inputs of the evaluators.
EvalTypeOK ==
    /\ policy \in Seq(DocumentRule)
    /\ packs \subseteq Rulebooks
    /\ output \subseteq AllTraits

LEMMA RuleFields ==
    ASSUME NEW r \in DocumentRule
    PROVE  r.decision \in {"allow", "flag", "deny"} /\ r.priority \in Nat
BY DEF DocumentRule

LEMMA DefaultRules == DEFAULT_POLICY_RULES \in Seq(DocumentRule)
<1>1. /\ PolicyRule("payment", "red", "deny", 1000) \in DocumentRule
      /\ PolicyRule("payment", "red", "deny", 990) \in DocumentRule
      /\ PolicyRule("cross_border", "red", "deny", 980) \in DocumentRule
      /\ PolicyRule("advice", "red", "deny", 970) \in DocumentRule
      /\ PolicyRule("lending", "red", "deny", 960) \in DocumentRule
  BY DEF PolicyRule, DocumentRule, Signals, TierRankOf
<1>2. /\ PolicyRule("has_pii", "orange", "flag", 800) \in DocumentRule
      /\ PolicyRule("prohibited_phrases", "orange", "flag", 750) \in DocumentRule
      /\ PolicyRule("citation_count", "yellow", "flag", 700) \in DocumentRule
      /\ PolicyRule("amount_aed", "orange", "flag", 650) \in DocumentRule
  BY DEF PolicyRule, DocumentRule, Signals, TierRankOf
<1> QED BY <1>1, <1>2 DEF DEFAULT_POLICY_RULES

LEMMA EvalTyped == EvalSpec => []EvalTypeOK
<1>1. EvalInit => EvalTypeOK
  <2> SUFFICES ASSUME EvalInit PROVE EvalTypeOK
    OBVIOUS
  <2>1. CASE policy = <<>>
    BY <2>1 DEF EvalInit, EvalTypeOK
  <2>2. CASE policy = DEFAULT_POLICY_RULES
    BY <2>2, DefaultRules DEF EvalInit, EvalTypeOK
  <2> QED BY <2>1, <2>2 DEF EvalInit
<1>2. EvalTypeOK /\ [EvalNext]_evalVars => EvalTypeOK'
  <2> SUFFICES ASSUME EvalTypeOK, [EvalNext]_evalVars PROVE EvalTypeOK'
    OBVIOUS
  <2>1. ASSUME NEW r \in OwnRules, WriteRule(r) PROVE EvalTypeOK'
    <3>1. r \in DocumentRule
      BY EvalAssumption DEF DocumentRule
    <3> QED BY <2>1, <3>1 DEF WriteRule, EvalTypeOK
  <2>2. ASSUME NEW p \in Rulebooks, ApplyPack(p) PROVE EvalTypeOK'
    BY <2>2 DEF ApplyPack, EvalTypeOK
  <2>3. ASSUME NEW t \in Traits, AddTrait(t) PROVE EvalTypeOK'
    BY <2>3, EvalAssumption DEF AddTrait, EvalTypeOK
  <2>4. CASE UNCHANGED evalVars
    BY <2>4 DEF evalVars, EvalTypeOK
  <2> QED BY <2>1, <2>2, <2>3, <2>4 DEF EvalNext
<1> QED BY <1>1, <1>2, PTL DEF EvalSpec

-----------------------------------------------------------------------------
(* The first matching rule.                                                *)

\* Some hit comes before all others: by induction on the length of a prefix of
\* the document.
LEMMA BestHitExists ==
    ASSUME NEW rules \in Seq(DocumentRule), NEW H \in SUBSET DOMAIN rules, H # {}
    PROVE  \E i \in H : \A j \in H : Before(rules, i, j)
<1> DEFINE In(m) == {i \in H : i <= m}
           Good(m) == In(m) # {} => \E i \in In(m) : \A j \in In(m) : Before(rules, i, j)
           Bad == {m \in Nat : ~Good(m)}
<1>1. \A i \in DOMAIN rules : i \in Nat /\ i >= 1 /\ i <= Len(rules) /\ rules[i].priority \in Nat
  <2>1. \A i \in DOMAIN rules : rules[i] \in DocumentRule
    OBVIOUS
  <2>2. \A i \in DOMAIN rules : rules[i].priority \in Nat
    BY <2>1, RuleFields
  <2> QED BY <2>2
<1>2. \A m, i : i \in In(m) <=> i \in H /\ i <= m
  OBVIOUS
<1>3. \A m : Good(m) <=> (In(m) # {} => \E i \in In(m) : \A j \in In(m) : Before(rules, i, j))
  OBVIOUS
<1>4. Bad \in SUBSET Nat /\ \A m \in Nat : m \in Bad <=> ~Good(m)
  OBVIOUS
<1> HIDE DEF In, Good, Bad
<1>5. Bad = {}
  <2> SUFFICES ASSUME Bad # {} PROVE FALSE
    OBVIOUS
  <2>1. PICK m \in Bad : \A k \in Bad : m <= k
    BY <1>4, SmallestNat
  <2>2. m \in Nat /\ ~Good(m)
    BY <1>4
  <2>3. \A i \in H : i \in Nat /\ i >= 1
    BY <1>1
  <2>4. m # 0
    <3> SUFFICES ASSUME m = 0 PROVE FALSE
      OBVIOUS
    <3>1. In(0) = {}
      BY <1>2, <2>3
    <3> QED BY <3>1, <1>3, <2>2
  <2>5. m - 1 \in Nat /\ ~(m <= m - 1)
    BY <2>2, <2>4
  <2>6. Good(m - 1)
    BY <2>1, <2>5, <1>4
  <2>7. \A i : i \in In(m) <=> (i \in In(m - 1) \/ (i = m /\ m \in H))
    BY <1>2, <2>2, <2>3
  <2>8. m \in H
    <3> SUFFICES ASSUME m \notin H PROVE FALSE
      OBVIOUS
    <3>1. In(m) = In(m - 1)
      BY <2>7
    <3> QED BY <3>1, <2>2, <2>6, <1>3
  <2>9. Before(rules, m, m)
    BY <1>1, <2>2, <2>8 DEF Before
  <2>10. CASE In(m - 1) = {}
    <3>1. In(m) = {m}
      BY <2>7, <2>8, <2>10
    <3> QED BY <3>1, <2>2, <2>9, <1>3
  <2>11. CASE In(m - 1) # {}
    <3>1. PICK i \in In(m - 1) : \A j \in In(m - 1) : Before(rules, i, j)
      BY <2>6, <2>11, <1>3
    <3>2. /\ i \in H /\ i <= m - 1 /\ i \in Nat
          /\ rules[i].priority \in Nat /\ rules[m].priority \in Nat
      BY <3>1, <1>1, <1>2, <2>8
    <3>3. CASE rules[m].priority <= rules[i].priority
      <4>1. Before(rules, i, m)
        BY <3>2, <3>3, <2>2 DEF Before
      <4>2. i \in In(m) /\ \A j \in In(m) : Before(rules, i, j)
        BY <4>1, <3>1, <2>7
      <4> QED BY <4>2, <2>2, <1>3
    <3>4. CASE rules[m].priority > rules[i].priority
      <4>1. \A j \in In(m - 1) : Before(rules, m, j)
        <5> SUFFICES ASSUME NEW j \in In(m - 1) PROVE Before(rules, m, j)
          OBVIOUS
        <5>1. j \in H /\ rules[j].priority \in Nat /\ Before(rules, i, j)
          BY <3>1, <1>1, <1>2
        <5> QED BY <5>1, <3>2, <3>4 DEF Before
      <4>2. m \in In(m) /\ \A j \in In(m) : Before(rules, m, j)
        BY <4>1, <2>7, <2>8, <2>9
      <4> QED BY <4>2, <2>2, <1>3
    <3> QED BY <3>2, <3>3, <3>4
  <2> QED BY <2>10, <2>11
<1>6. Len(rules) \in Nat /\ Good(Len(rules))
  BY <1>4, <1>5
<1>7. In(Len(rules)) = H
  BY <1>1, <1>2
<1> QED BY <1>3, <1>6, <1>7

\* The first matching rule matches, and no matching rule has a higher priority.
LEMMA FirstMatch ==
    ASSUME NEW rules \in Seq(DocumentRule), NEW side, NEW o, Hits(side, rules, o) # {}
    PROVE  \E i \in Hits(side, rules, o) :
               /\ FirstMatchingRule(side, rules, o) = rules[i]
               /\ \A j \in Hits(side, rules, o) : rules[j].priority <= rules[i].priority
<1>1. Hits(side, rules, o) \in SUBSET DOMAIN rules
  BY DEF Hits
<1> DEFINE i == CHOOSE i \in Hits(side, rules, o) : \A j \in Hits(side, rules, o) : Before(rules, i, j)
<1>2. i \in Hits(side, rules, o) /\ \A j \in Hits(side, rules, o) : Before(rules, i, j)
  BY <1>1, BestHitExists
<1>3. FirstMatchingRule(side, rules, o) = rules[i]
  BY DEF FirstMatchingRule
<1> HIDE DEF i
<1>4. \A j \in DOMAIN rules : rules[j].priority \in Nat
  BY RuleFields
<1>5. \A j \in Hits(side, rules, o) : rules[j].priority <= rules[i].priority
  BY <1>1, <1>2, <1>4 DEF Before
<1> QED BY <1>2, <1>3, <1>5

-----------------------------------------------------------------------------
(* Judging an output: the theorems.                                        *)

\* Only a rule of the organisation's own policy blocks an output, one that no
\* matching rule of a higher priority overrides (evaluate_policy_input,
\* _first_matching_rule): for any policy, packs and output.
THEOREM PolicyAloneBlocks == EvalSpec => []OnlyOwnPolicyBlocks
<1>1. EvalTypeOK => OnlyOwnPolicyBlocks
  <2> SUFFICES ASSUME EvalTypeOK, ServerStatus(output).status = "blocked"
               PROVE  \E i \in DOMAIN policy :
                        /\ RuleMatches(policy[i].on, output) /\ policy[i].decision \in {"deny", "flag"}
                        /\ \A j \in DOMAIN policy :
                              RuleMatches(policy[j].on, output) => policy[j].priority <= policy[i].priority
    BY DEF OnlyOwnPolicyBlocks
  <2>1. policy \in Seq(DocumentRule)
    BY DEF EvalTypeOK
  <2>2. ~Evaluate(policy, output, failMode).allowed
    BY DEF ServerStatus, Status
  <2>3. Hits("server", policy, output) # {}
    BY <2>2 DEF Evaluate
  <2>4. PICK i \in Hits("server", policy, output) :
              /\ FirstMatchingRule("server", policy, output) = policy[i]
              /\ \A j \in Hits("server", policy, output) : policy[j].priority <= policy[i].priority
    BY <2>1, <2>3, FirstMatch
  <2>5. Evaluate(policy, output, failMode) = RuleVerdict("server", policy[i], output, failMode)
    BY <2>3, <2>4 DEF Evaluate
  <2>6. ~DecisionAllowed(MaxTier(Floor("server", output), policy[i].tier), policy[i].decision, failMode)
    BY <2>2, <2>5 DEF RuleVerdict
  <2>7. policy[i].decision \in {"deny", "flag"}
    BY <2>6 DEF DecisionAllowed
  <2>8. \A j \in DOMAIN policy : j \in Hits("server", policy, output) <=> RuleMatches(policy[j].on, output)
    BY DEF Hits, Matches
  <2> QED BY <2>4, <2>7, <2>8 DEF Hits
<1> QED BY <1>1, EvalTyped, PTL

\* What the SDK's local precheck answers by itself, the server allows, at the same
\* tier, but for outputs the two do not see alike (precheck_smart): for any policy
\* and any fail mode.
THEOREM LocalAllowsSafely == EvalSpec => []LocalAllowIsServerAllow
<1>1. LocalAllowIsServerAllow
  <2> SUFFICES ASSUME SeenAlike(output),
                      ~NeedsServerEscalation(EvaluateLocal(policy, output, failMode))
               PROVE  /\ Evaluate(policy, output, failMode).allowed
                      /\ Evaluate(policy, output, failMode).tier
                            = EvaluateLocal(policy, output, failMode).tier
    BY DEF LocalAllowIsServerAllow
  <2>1. HasPii("server", output) <=> HasPii("sdk", output)
    BY DEF SeenAlike, HasPii
  <2>2. \A on : RuleMatches(on, output) <=> LocalRuleMatches(on, output)
    BY <2>1 DEF RuleMatches, LocalRuleMatches, PlainMatch, SeenAlike
  <2>3. Floor("server", output) = Floor("sdk", output)
    BY <2>1 DEF Floor, LayerTiers
  <2>4. Hits("server", policy, output) = Hits("sdk", policy, output)
    BY <2>2 DEF Hits, Matches
  <2>5. FirstMatchingRule("server", policy, output) = FirstMatchingRule("sdk", policy, output)
    BY <2>4 DEF FirstMatchingRule
  <2>6. EvaluateLocal(policy, output, failMode).allowed
    BY DEF NeedsServerEscalation
  <2>7. CASE Hits("sdk", policy, output) # {}
    BY <2>3, <2>4, <2>5, <2>6, <2>7 DEF Evaluate, EvaluateLocal, RuleVerdict
  <2>8. CASE Hits("sdk", policy, output) = {}
    BY <2>3, <2>4, <2>8 DEF Evaluate, EvaluateLocal
  <2> QED BY <2>7, <2>8
<1> QED BY <1>1, PTL

-----------------------------------------------------------------------------
(* The regulation watcher: the invariant.                                  *)

\* The sweeps do not overlap; texts may be supplied during a sweep.
OneSweepAtATime ==
    \A v, w \in Sweepers : sweep[v].at # "idle" /\ sweep[w].at # "idle" => v = w

SourceRow == [hash : Texts \cup {NoText}, pending : Texts \cup {NoText}, mode : {"auto", "manual"}, fails : Nat]

\* A transaction; S are the places of a version it may publish.
Transaction(S) ==
    [at : {"idle", "fetch", "fetched", "supplied"} \cup Answers, row : SourceRow, slot : S,
     before : SUBSET Watchers, text : Texts \cup {NoText}, publish : BOOLEAN]

WatchTypeOK ==
    /\ page \in [text : Texts, changes : Nat]
    /\ source \in SourceRow
    /\ \E S : sweep \in [Watchers -> Transaction(S)]

\* A transaction has a text once it was fetched or supplied.
TextObtained(w) == sweep[w].text # NoText <=> sweep[w].at \in {"fetched", "supplied"}

\* What is pending is what was seen last, in the table and in the row a sweep
\* under way has read; in the meantime it can only have been dropped.
PendingSeen(row) == row.pending # NoText => row.pending = lastSeen

PendingKept(w) ==
    sweep[w].at # "idle" => /\ PendingSeen(sweep[w].row)
                            /\ source.pending \in {NoText, sweep[w].row.pending}

WatchInv ==
    /\ WatchTypeOK
    /\ \A w \in Watchers : TextObtained(w)
    /\ PendingSeen(source)
    /\ \A w \in Sweepers : PendingKept(w)

-----------------------------------------------------------------------------
LEMMA OffType == \A S : 0 \in S => Off \in Transaction(S)
<1>1. Off.row \in SourceRow
  BY DEF Off, SourceRow
<1> QED BY <1>1 DEF Off, Transaction

LEMMA WatchInitInv == WatchInit => WatchInv
<1> SUFFICES ASSUME WatchInit PROVE WatchInv
  OBVIOUS
<1>1. /\ Off.at = "idle" /\ Off.text = NoText /\ Off.row.pending = NoText
      /\ Off.row \in SourceRow
  BY DEF Off, SourceRow
<1>2. sweep \in [Watchers -> Transaction(Nat)]
  BY OffType DEF WatchInit
<1>3. \A w \in Watchers : sweep[w] = Off
  BY DEF WatchInit
<1>4. page \in [text : Texts, changes : Nat]
  BY DEF WatchInit
<1>5. WatchTypeOK
  BY <1>1, <1>2, <1>4 DEF WatchInit, WatchTypeOK
<1>6. PendingSeen(source)
  BY <1>1 DEF WatchInit, PendingSeen
<1>7. \A w \in Watchers : TextObtained(w)
  BY <1>1, <1>3 DEF TextObtained
<1>8. \A w \in Sweepers : PendingKept(w)
  BY <1>1, <1>3 DEF PendingKept, Watchers
<1> QED BY <1>5, <1>6, <1>7, <1>8 DEF WatchInv

\* A transaction begins, or its request is answered.
LEMMA MoveKeepsInv ==
    ASSUME WatchInv, NEW S, NEW w \in Watchers, NEW x \in Transaction(S),
           x.text # NoText <=> x.at \in {"fetched", "supplied"},
           x.row = source \/ (sweep[w].at # "idle" /\ x.row = sweep[w].row),
           sweep' = [sweep EXCEPT ![w] = x],
           UNCHANGED <<source, page, lastSeen>>
    PROVE  WatchInv'
<1>1. PICK T : sweep \in [Watchers -> Transaction(T)]
  BY DEF WatchInv, WatchTypeOK
<1>2. sweep' \in [Watchers -> Transaction(S \cup T)]
  <2>1. \A v \in Watchers : sweep[v] \in Transaction(S \cup T)
    BY <1>1 DEF Transaction
  <2>2. x \in Transaction(S \cup T)
    BY DEF Transaction
  <2> QED BY <1>1, <2>1, <2>2
<1>3. sweep'[w] = x /\ \A v \in Watchers : v # w => sweep'[v] = sweep[v]
  BY <1>1
<1>4. WatchTypeOK'
  BY <1>2 DEF WatchInv, WatchTypeOK
<1>5. \A v \in Watchers : TextObtained(v)'
  BY <1>3 DEF WatchInv, TextObtained
<1>6. PendingSeen(source)'
  BY DEF WatchInv, PendingSeen
<1>7. \A v \in Sweepers : PendingKept(v)'
  BY <1>3 DEF WatchInv, PendingKept, PendingSeen, Watchers
<1> QED BY <1>4, <1>5, <1>6, <1>7 DEF WatchInv

LEMMA BeginFetchInv ==
    ASSUME WatchInv, NEW w \in Watchers,
           \/ BeginSweep(w) \/ FetchOk(w)
           \/ \E a \in Answers : FetchFails(w, a)
           \/ \E t \in Texts, publish \in BOOLEAN : BeginSupply(w, t, publish)
    PROVE  WatchInv'
<1> DEFINE c == sweep[w]
<1>0. PICK S : sweep \in [Watchers -> Transaction(S)]
  BY DEF WatchInv, WatchTypeOK
<1>1. c \in Transaction(S) /\ TextObtained(w)
  BY <1>0 DEF WatchInv
<1> PICK n : n = Len(versions)
  OBVIOUS
<1> DEFINE N == {n, 0}
<1>2. Off \in Transaction(N) /\ Off.text = NoText
  BY OffType DEF Off
<1>3. /\ Begun \in Transaction(N) /\ Begun.row = source /\ Begun.text = NoText
  <2>1. Busy \in SUBSET Watchers /\ source \in SourceRow
    BY DEF Busy, WatchInv, WatchTypeOK
  <2>2. Begun = [Off EXCEPT !.row = source, !.slot = n, !.before = Busy]
    BY DEF Begun
  <2> HIDE DEF N
  <2>3. n \in N
    BY DEF N
  <2> QED BY <1>2, <2>1, <2>2, <2>3 DEF Transaction
<1>4. ASSUME BeginSweep(w) PROVE WatchInv'
  <2> DEFINE x == [Begun EXCEPT !.at = "fetch", !.publish = TRUE]
  <2>1. x \in Transaction(N) /\ x.row = source /\ x.text = NoText /\ x.at = "fetch"
    BY <1>3 DEF Transaction
  <2>2. sweep' = [sweep EXCEPT ![w] = x] /\ UNCHANGED <<source, page, lastSeen>>
    BY <1>4 DEF BeginSweep
  <2> HIDE DEF x, N
  <2> QED BY <2>1, <2>2, MoveKeepsInv
<1>5. ASSUME NEW t \in Texts, NEW publish \in BOOLEAN, BeginSupply(w, t, publish) PROVE WatchInv'
  <2> DEFINE x == [Begun EXCEPT !.at = "supplied", !.text = t, !.publish = publish]
  <2>1. x \in Transaction(N) /\ x.row = source /\ x.at = "supplied" /\ x.text # NoText
    BY <1>3, WatchAssumption DEF Transaction
  <2>2. sweep' = [sweep EXCEPT ![w] = x] /\ UNCHANGED <<source, page, lastSeen>>
    BY <1>5 DEF BeginSupply
  <2> HIDE DEF x, N
  <2> QED BY <2>1, <2>2, MoveKeepsInv
<1>6. ASSUME FetchOk(w) PROVE WatchInv'
  <2> PICK t : t = page.text
    OBVIOUS
  <2> DEFINE x == [c EXCEPT !.at = "fetched", !.text = t]
  <2>1. t \in Texts /\ c.at = "fetch"
    BY <1>6 DEF FetchOk, WatchInv, WatchTypeOK
  <2>2. x \in Transaction(S) /\ x.row = c.row /\ x.at = "fetched" /\ x.text # NoText
    BY <1>1, <2>1, WatchAssumption DEF Transaction
  <2>3. sweep' = [sweep EXCEPT ![w] = x] /\ UNCHANGED <<source, page, lastSeen>>
    BY <1>6 DEF FetchOk
  <2> HIDE DEF x
  <2> QED BY <2>1, <2>2, <2>3, MoveKeepsInv
<1>7. ASSUME NEW a \in Answers, FetchFails(w, a) PROVE WatchInv'
  <2> DEFINE x == [c EXCEPT !.at = a]
  <2>1. c.at = "fetch" /\ c.text = NoText
    BY <1>1, <1>7 DEF FetchFails, TextObtained
  <2>2. x \in Transaction(S) /\ x.row = c.row /\ x.text = NoText /\ x.at = a
    BY <1>1, <2>1 DEF Transaction
  <2>3. sweep' = [sweep EXCEPT ![w] = x] /\ UNCHANGED <<source, page, lastSeen>>
    BY <1>7 DEF FetchFails
  <2>4. a \notin {"fetched", "supplied"}
    BY DEF Answers
  <2> HIDE DEF x
  <2> QED BY <2>1, <2>2, <2>3, <2>4, MoveKeepsInv
<1> QED BY <1>4, <1>5, <1>6, <1>7

\* The others, when a transaction ends.
LEMMA FinishLeaves ==
    ASSUME WatchInv, NEW w \in Watchers, NEW n \in Nat, Finish(w, n)
    PROVE  /\ \E S : sweep' \in [Watchers -> Transaction(S)]
           /\ sweep'[w].at = "idle" /\ sweep'[w].text = NoText
           /\ \A v \in Watchers : v # w => /\ sweep'[v].at = sweep[v].at /\ sweep'[v].text = sweep[v].text
                                           /\ sweep'[v].row = sweep[v].row
<1>1. PICK S : sweep \in [Watchers -> Transaction(S)]
  BY DEF WatchInv, WatchTypeOK
<1> DEFINE T == {0} \cup S \cup {s + n : s \in S}
           Later(v) == [sweep[v] EXCEPT !.slot = IF w \in sweep[v].before THEN @ + n ELSE @,
                                        !.before = @ \ {w}]
<1>2. \A v \in Watchers : /\ Later(v) \in Transaction(T)
                          /\ Later(v).at = sweep[v].at /\ Later(v).text = sweep[v].text
                          /\ Later(v).row = sweep[v].row
  <2> TAKE v \in Watchers
  <2> PICK c, s, b : /\ c = sweep[v] /\ s = IF w \in c.before THEN c.slot + n ELSE c.slot
                     /\ b = c.before \ {w}
    OBVIOUS
  <2>1. c \in Transaction(S)
    BY <1>1
  <2>2. s \in T /\ b \in SUBSET Watchers
    BY <2>1 DEF Transaction
  <2>3. Later(v) = [c EXCEPT !.slot = s, !.before = b]
    OBVIOUS
  <2> HIDE DEF Later, T
  <2> QED BY <2>1, <2>2, <2>3 DEF Transaction
<1>3. Off \in Transaction(T) /\ Off.at = "idle" /\ Off.text = NoText
  BY OffType DEF Off
<1>4. sweep' = [v \in Watchers |-> IF v = w THEN Off ELSE Later(v)]
  BY DEF Finish
<1> HIDE DEF Later, T
<1>5. sweep' \in [Watchers -> Transaction(T)]
  BY <1>2, <1>3, <1>4
<1> QED BY <1>2, <1>3, <1>4, <1>5

\* A transaction ends that leaves new of the row it has loaded.
LEMMA EndKeepsInv ==
    ASSUME WatchInv, OneSweepAtATime, NEW w \in Watchers, sweep[w].at # "idle", NEW n \in Nat, Finish(w, n),
           NEW new \in SourceRow, source' = Written(sweep[w].row, new), page' = page,
           \/ new.pending = sweep[w].row.pending /\ lastSeen' = lastSeen
           \/ /\ w \in Sweepers \/ new.pending = NoText
              /\ new.pending # NoText => new.pending = lastSeen' /\ new.pending # sweep[w].row.pending
              /\ w \notin Sweepers => lastSeen' = lastSeen
    PROVE  WatchInv'
<1> PICK old : old = sweep[w].row
  OBVIOUS
<1>0. old \in SourceRow /\ source \in SourceRow
  BY DEF WatchInv, WatchTypeOK, Transaction
<1>1. source'.pending = IF new.pending = old.pending THEN source.pending ELSE new.pending
  BY DEF Written
<1>2. source' \in SourceRow
  BY <1>0 DEF Written, SourceRow
<1>3. WatchTypeOK'
  BY <1>2, FinishLeaves DEF WatchInv, WatchTypeOK
<1>4. \A v \in Watchers : TextObtained(v)'
  BY FinishLeaves DEF WatchInv, TextObtained
<1>5. w \in Sweepers => /\ PendingSeen(old) /\ source.pending \in {NoText, old.pending}
                        /\ \A v \in Sweepers : v # w => sweep[v].at = "idle"
  BY DEF WatchInv, PendingKept, OneSweepAtATime
<1>6. source'.pending # NoText => source'.pending = lastSeen'
  BY <1>1, <1>5 DEF WatchInv, PendingSeen
<1>7. ASSUME NEW v \in Sweepers PROVE PendingKept(v)'
  <2>0. v \in Watchers
    BY DEF Watchers
  <2>1. CASE v = w
    BY <2>1, FinishLeaves DEF PendingKept
  <2>2. CASE v # w /\ w \in Sweepers
    BY <2>0, <2>2, <1>5, FinishLeaves DEF PendingKept
  <2>3. CASE v # w /\ w \notin Sweepers
    <3>1. /\ sweep'[v].at = sweep[v].at /\ sweep'[v].row = sweep[v].row /\ lastSeen' = lastSeen
      BY <2>0, <2>3, FinishLeaves
    <3>2. source'.pending \in {NoText, source.pending}
      BY <1>1, <2>3
    <3> QED BY <3>1, <3>2 DEF WatchInv, PendingKept, PendingSeen
  <2> QED BY <2>1, <2>2, <2>3
<1> QED BY <1>3, <1>4, <1>6, <1>7 DEF WatchInv, PendingSeen

LEMMA RecordFailureInv ==
    ASSUME WatchInv, OneSweepAtATime, NEW w \in Watchers, RecordFailure(w)
    PROVE  WatchInv'
<1> PICK old, n : /\ old = sweep[w].row
                  /\ n = IF old.fails < Persistent THEN old.fails + 1 ELSE old.fails
  OBVIOUS
<1> DEFINE new == [old EXCEPT !.fails = n]
<1>1. old \in SourceRow
  BY DEF WatchInv, WatchTypeOK, Transaction
<1>2. new \in SourceRow /\ new.pending = old.pending
  BY <1>1 DEF SourceRow
<1>3. /\ sweep[w].at # "idle" /\ source' = Written(old, new) /\ Finish(w, 0)
      /\ page' = page /\ lastSeen' = lastSeen
  BY DEF RecordFailure, Answers
<1> HIDE DEF new
<1> QED BY <1>2, <1>3, EndKeepsInv

\* What becomes of the row when text t was obtained.
LEMMA EvaluatedIs ==
    ASSUME NEW row \in SourceRow, NEW t \in Texts, NEW v
    PROVE  /\ Evaluated(row, t, v) \in SourceRow
           /\ v = "wait" => Evaluated(row, t, v).pending = t /\ Evaluated(row, t, v).hash = row.hash
           /\ v # "wait" => Evaluated(row, t, v).pending = NoText /\ Evaluated(row, t, v).hash = t
<1>1. CASE v = "wait"
  <2>1. Evaluated(row, t, v) = [row EXCEPT !.pending = t]
    BY <1>1 DEF Evaluated
  <2> QED BY <1>1, <2>1 DEF SourceRow
<1>2. CASE v # "wait"
  <2>1. Evaluated(row, t, v) = [row EXCEPT !.pending = NoText, !.hash = t]
    BY <1>2 DEF Evaluated
  <2> QED BY <1>2, <2>1 DEF SourceRow
<1> QED BY <1>1, <1>2

LEMMA ReachedIs ==
    ASSUME WatchInv, NEW w \in Watchers
    PROVE  /\ Reached(w) \in SourceRow
           /\ Reached(w).pending = sweep[w].row.pending /\ Reached(w).hash = sweep[w].row.hash
<1> PICK m, old : /\ m = IF sweep[w].at = "supplied" THEN "manual" ELSE "auto"
                  /\ old = sweep[w].row
  OBVIOUS
<1>1. old \in SourceRow
  BY DEF WatchInv, WatchTypeOK, Transaction
<1> DEFINE new == [old EXCEPT !.fails = 0, !.mode = m]
<1>2. Reached(w) = new
  BY DEF Reached
<1>3. m \in {"auto", "manual"}
  OBVIOUS
<1>4. new \in SourceRow /\ new.pending = old.pending /\ new.hash = old.hash
  BY <1>1, <1>3 DEF SourceRow
<1> HIDE DEF new
<1> QED BY <1>2, <1>4

LEMMA RecordTextInv ==
    ASSUME WatchInv, OneSweepAtATime, NEW w \in Watchers, RecordText(w)
    PROVE  WatchInv'
<1> PICK t, row, verdict : /\ t = sweep[w].text /\ row = Reached(w)
                           /\ verdict = Verdict(row, t, w \in Sweepers)
  OBVIOUS
<1> PICK new : new = Evaluated(row, t, verdict)
  OBVIOUS
<1>1. t \in Texts
  <2>1. sweep[w].text \in Texts \cup {NoText} /\ sweep[w].at \in {"fetched", "supplied"}
    BY DEF WatchInv, WatchTypeOK, Transaction, RecordText
  <2> QED BY <2>1 DEF WatchInv, TextObtained
<1>2. PICK n \in Nat : Finish(w, n)
  BY DEF RecordText
<1>3. /\ sweep[w].at # "idle" /\ page' = page /\ source' = Written(sweep[w].row, new)
      /\ lastSeen' = IF w \in Sweepers THEN t ELSE lastSeen
  BY DEF RecordText
<1>4. row \in SourceRow /\ row.pending = sweep[w].row.pending
  BY ReachedIs
<1>5. /\ verdict = "wait" => w \in Sweepers /\ row.pending # t
      /\ verdict # "wait" \/ verdict = "wait"
  BY DEF Verdict
<1>6. /\ new \in SourceRow
      /\ verdict = "wait" => new.pending = t
      /\ verdict # "wait" => new.pending = NoText
  BY <1>1, <1>4, EvaluatedIs
<1>7. /\ w \in Sweepers \/ new.pending = NoText
      /\ new.pending # NoText => new.pending = lastSeen' /\ new.pending # sweep[w].row.pending
      /\ w \notin Sweepers => lastSeen' = lastSeen
  BY <1>3, <1>4, <1>5, <1>6
<1> QED BY <1>2, <1>3, <1>6, <1>7, EndKeepsInv

LEMMA WatchAlways == WatchSpec /\ []OneSweepAtATime => []WatchInv
<1>1. WatchInv /\ OneSweepAtATime /\ WatchNext => WatchInv'
  <2> SUFFICES ASSUME WatchInv, OneSweepAtATime, WatchNext PROVE WatchInv'
    OBVIOUS
  <2>1. ASSUME NEW w \in Watchers, BeginSweep(w) \/ FetchOk(w) \/ \E a \in Answers : FetchFails(w, a)
        PROVE  WatchInv'
    BY <2>1, BeginFetchInv
  <2>2. ASSUME NEW w \in Watchers, \E t \in Texts, publish \in BOOLEAN : BeginSupply(w, t, publish)
        PROVE  WatchInv'
    BY <2>2, BeginFetchInv
  <2>3. ASSUME NEW w \in Watchers, RecordFailure(w) \/ RecordText(w)
        PROVE  WatchInv'
    BY <2>3, RecordFailureInv, RecordTextInv
  <2>4. ASSUME NEW t \in Texts, PageChanges(t)
        PROVE  WatchInv'
    <3>1. page' \in [text : Texts, changes : Nat]
      BY <2>4 DEF PageChanges, WatchInv, WatchTypeOK
    <3>2. UNCHANGED <<source, sweep, lastSeen>>
      BY <2>4 DEF PageChanges
    <3> QED BY <3>1, <3>2 DEF WatchInv, WatchTypeOK, TextObtained, PendingSeen, PendingKept
  <2> QED BY <2>1, <2>2, <2>3, <2>4 DEF WatchNext, SweepStep, Watchers
<1>2. WatchInv /\ UNCHANGED watchVars => WatchInv'
  BY DEF watchVars, WatchInv, WatchTypeOK, TextObtained, PendingSeen, PendingKept
<1> QED BY <1>1, <1>2, WatchInitInv, PTL DEF WatchSpec

\* Only the end of a transaction that has a text makes it idle.
LEMMA TextEnds ==
    ASSUME WatchInv, WatchNext, NEW w \in Watchers, sweep[w].text # NoText, sweep'[w].at = "idle"
    PROVE  RecordText(w)
<1>1. sweep[w].at \in {"fetched", "supplied"}
  BY DEF WatchInv, TextObtained
<1>2. PICK S : sweep \in [Watchers -> Transaction(S)]
  BY DEF WatchInv, WatchTypeOK
<1>3. ASSUME NEW v \in Watchers, v # w, sweep'[w] = sweep[w] PROVE FALSE
  BY <1>1, <1>3
<1>4. ASSUME NEW v \in Watchers,
             BeginSweep(v) \/ FetchOk(v) \/ (\E a \in Answers : FetchFails(v, a))
               \/ \E t \in Texts, publish \in BOOLEAN : BeginSupply(v, t, publish)
      PROVE  FALSE
  <2>1. sweep[v].at \in {"idle", "fetch"} /\ \E x : sweep' = [sweep EXCEPT ![v] = x]
    BY <1>2, <1>4 DEF BeginSweep, FetchOk, FetchFails, BeginSupply
  <2>2. v # w
    BY <1>1, <2>1
  <2>3. sweep'[w] = sweep[w]
    BY <1>2, <2>1, <2>2
  <2> QED BY <1>1, <2>3
<1>5. ASSUME NEW v \in Watchers, RecordFailure(v) \/ RecordText(v) PROVE v = w /\ RecordText(w)
  <2>1. PICK n \in Nat : Finish(v, n)
    BY <1>5 DEF RecordFailure, RecordText
  <2>2. v = w
    BY <1>1, <2>1, FinishLeaves
  <2>3. ~RecordFailure(w)
    BY <1>1 DEF RecordFailure, Answers
  <2> QED BY <1>5, <2>2, <2>3
<1>6. ~\E t \in Texts : PageChanges(t)
  BY <1>1 DEF PageChanges
<1> QED BY <1>4, <1>5, <1>6 DEF WatchNext, SweepStep, Watchers

LEMMA TextReported ==
    ASSUME WatchInv, NEW w \in Watchers, RecordText(w)
    PROVE  LET drift == [type |-> "source_drift", text |-> sweep[w].text]
           IN  /\ w \in Sweepers /\ drift \in news' => lastSeen = sweep[w].text
               /\ sweep[w].row.hash # NoText /\ sweep[w].row.hash = source.hash
                    /\ source'.hash # source.hash => drift \in news'
<1> PICK t, row, verdict : /\ t = sweep[w].text /\ row = Reached(w)
                           /\ verdict = Verdict(row, t, w \in Sweepers)
  OBVIOUS
<1> PICK new, old : new = Evaluated(row, t, verdict) /\ old = sweep[w].row
  OBVIOUS
<1> DEFINE drift == [type |-> "source_drift", text |-> t]
<1>1. t \in Texts /\ t # NoText
  <2>1. sweep[w].text \in Texts \cup {NoText} /\ sweep[w].at \in {"fetched", "supplied"}
    BY DEF WatchInv, WatchTypeOK, Transaction, RecordText
  <2> QED BY <2>1, WatchAssumption DEF WatchInv, TextObtained
<1>2. row \in SourceRow /\ row.pending = old.pending /\ row.hash = old.hash
  BY ReachedIs
<1>3. PICK C : /\ news' = {[type |-> c, text |-> t] : c \in C}
               /\ "source_drift" \in C <=> verdict = "drift"
  <2> DEFINE D == {x \in {"source_drift", "provision_confirmed"} :
                     \/ x = "source_drift" /\ verdict = "drift"
                     \/ x = "provision_confirmed" /\ (Confirms(verdict) /\ Confirmed(t) # {})
                          /\ ~((Confirms(verdict) /\ Confirmed(t) # {}) /\ sweep[w].publish)}
  <2>1. news' = {[type |-> c, text |-> t] : c \in D}
    BY DEF RecordText
  <2>2. "source_drift" \in D <=> verdict = "drift"
    OBVIOUS
  <2> HIDE DEF D
  <2> QED BY <2>1, <2>2
<1>4. drift \in news' <=> verdict = "drift"
  <2>1. ASSUME NEW c \in C, drift = [type |-> c, text |-> t] PROVE c = "source_drift"
    <3>1. drift.type = "source_drift" /\ [type |-> c, text |-> t].type = c
      OBVIOUS
    <3> QED BY <2>1, <3>1
  <2> QED BY <1>3, <2>1
<1>5. ASSUME w \in Sweepers, verdict = "drift" PROVE lastSeen = t
  <2>1. old.pending = t
    BY <1>2, <1>5 DEF Verdict
  <2>2. PendingSeen(old)
    <3>1. sweep[w].at # "idle" /\ PendingKept(w)
      BY <1>5 DEF WatchInv, RecordText
    <3> QED BY <3>1 DEF PendingKept
  <2> QED BY <1>1, <1>5, <2>1, <2>2 DEF PendingSeen
<1>6. ASSUME old.hash # NoText, old.hash = source.hash, source'.hash # source.hash
      PROVE  verdict = "drift"
  <2>1. source' = Written(old, new)
    BY DEF RecordText
  <2>2. new.hash # old.hash
    BY <1>6, <2>1 DEF Written
  <2>3. verdict # "wait" /\ new.hash = t
    BY <1>1, <1>2, <2>2, EvaluatedIs
  <2> QED BY <1>2, <1>6, <2>2, <2>3 DEF Verdict
<1> QED BY <1>4, <1>5, <1>6

\* For any numbers of texts, rules and people: as long as no two sweeps overlap, a
\* sweep reports drift only when the sweep before it saw the same text, and the
\* recorded text is never replaced in silence (check_source, _evaluate_snapshot).
THEOREM DriftConfirmed == WatchSpec /\ []OneSweepAtATime => DriftSeenTwice
<1>1. WatchInv /\ [WatchNext]_watchVars =>
        [\A w \in Watchers :
          LET drift == [type |-> "source_drift", text |-> sweep[w].text]
          IN  sweep[w].text # NoText /\ sweep'[w].at = "idle" =>
                /\ w \in Sweepers /\ drift \in news' => lastSeen = sweep[w].text
                /\ sweep[w].row.hash # NoText /\ sweep[w].row.hash = source.hash
                     /\ source'.hash # source.hash => drift \in news']_watchVars
  BY TextEnds, TextReported
<1> QED BY <1>1, WatchAlways, PTL DEF WatchSpec, DriftSeenTwice
=============================================================================
