------------------------------- MODULE OrgProfile -------------------------------
(***************************************************************************)
(* What one organisation declares about itself, and the rulebooks that     *)
(* follow from it.                                                         *)
(*                                                                         *)
(* Saving a profile is a transaction that reads the row, decides whether   *)
(* anything would be dropped, and then either writes the row and makes the *)
(* subscriptions follow, or files a request for Attest to decide.  The     *)
(* UPDATE names only the columns that differ from the row as read, and     *)
(* holds the row's lock to the commit; meanwhile reconcile_packs finds out *)
(* what to add and to delete, and the commit is a step of its own.  Saves, *)
(* decisions and reconciliations by Attest, which lock nothing, overlap.   *)
(***************************************************************************)
EXTENDS Naturals, Sequences, FiniteSets

CONSTANTS Savers,        \* server threads saving the profile
          Places,        \* jurisdictions
          Fields,        \* sectors
          Profiles,      \* profiles the organisation may save
          Packs,         \* pack codes
          Documents,     \* pack documents that get published: code, and the places
                         \* and fields the document names ("*": all)
          MaxVersions,   \* bound: versions published
          MaxAsks        \* bound: requests for a reduction

ASSUME ProfileAssumption ==
    /\ Profiles \subseteq [places : (SUBSET Places) \ {{}}, fields : (SUBSET Fields) \ {{}}]
    /\ Documents \subseteq [code : Packs, places : SUBSET (Places \cup {"*"}),
                            fields : SUBSET (Fields \cup {"*"})]
    /\ MaxVersions \in Nat /\ MaxAsks \in Nat

VARIABLES
    declared,    \* org_profiles: [places, fields], both empty when there is no row
    published,   \* regulation_packs: the document of each version, oldest first
    applied,     \* org_regulation_packs: version -> enabled
    asks,        \* profile_change_requests
    saver,       \* each thread's request: what it read and what it is to write
    derived,     \* the codes derived when the subscriptions last followed a profile
    followed     \* nothing was published or subscribed since

profileVars == <<declared, published, applied, asks, saver, derived, followed>>

Nowhere == [places |-> {}, fields |-> {}]

-----------------------------------------------------------------------------
(* Deriving the packs.                                                     *)

\* pack_applies: this version reaches both the place and the field.
PackApplies(row, p) ==
    /\ "*" \in row.places \/ row.places \cap p.places # {}
    /\ "*" \in row.fields \/ row.fields \cap p.fields # {}

\* mandatory_packs: nothing without a profile, else the codes of which some
\* version, however old, applies.
Mandatory(p, rows) ==
    IF p = Nowhere THEN {}
    ELSE {rows[v].code : v \in {u \in DOMAIN rows : PackApplies(rows[u], p)}}

VersionsOf(c, rows) == {v \in DOMAIN rows : rows[v].code = c}

\* latest_pack_by_code
LatestPack(c) == CHOOSE v \in VersionsOf(c, published) : \A u \in VersionsOf(c, published) : u <= v

\* subscribe_org: the latest version of the code, switched on or off.
Subscribed(subs, c, on) ==
    [v \in DOMAIN subs \cup {LatestPack(c)} |-> IF v = LatestPack(c) THEN on ELSE subs[v]]

SubscribedCodes(subs) == {published[v].code : v \in DOMAIN subs}

\* Mutant: packs are added to an organisation that has none.
AddedOnce(p, subs) == IF DOMAIN subs = {} THEN Mandatory(p, published) ELSE {}

\* The codes reconcile_packs adds.
Added(p, subs) == Mandatory(p, published) \ SubscribedCodes(subs)

\* What reconcile_packs may find to do for profile p: the codes to add and the
\* versions to delete.  `current` keeps one subscription per code, whichever the
\* query returns last, and only that one is deleted.
Plans(p) ==
    LET gone == SubscribedCodes(applied) \ Mandatory(p, published)
    IN  {[add |-> Added(p, applied), drop |-> {k[c] : c \in gone}] :
            k \in {f \in [gone -> DOMAIN applied] : \A c \in gone : published[f[c]].code = c}}

\* The subscriptions once that is done.
Reconciled(plan) ==
    LET new == {LatestPack(c) : c \in plan.add}
    IN  [v \in (DOMAIN applied \cup new) \ plan.drop |-> v \in new \/ applied[v]]

-----------------------------------------------------------------------------
(* Saving.                                                                 *)

IdleSaver == [at |-> "idle", saw |-> Nowhere, to |-> Nowhere, plan |-> [add |-> {}, drop |-> {}], ask |-> 0]

\* set_profile up to the read of the current row.
SaveRead(w, p) ==
    /\ saver[w].at = "idle"
    /\ saver' = [saver EXCEPT ![w] = [IdleSaver EXCEPT !.at = "read", !.saw = declared, !.to = p]]
    /\ UNCHANGED <<declared, published, applied, asks, derived, followed>>

\* What the change would drop.
Removed(saw, to) == (saw.places \ to.places) \cup (saw.fields \ to.fields)

\* A reduction files a request, or is refused for want of a reason.
FileRequest(w) ==
    /\ saver[w].at = "read" /\ Removed(saver[w].saw, saver[w].to) # {}
    /\ \/ /\ Len(asks) < MaxAsks
          /\ asks' = Append(asks, [to |-> saver[w].to, removed |-> Removed(saver[w].saw, saver[w].to),
                                   status |-> "pending"])
       \/ UNCHANGED asks
    /\ saver' = [saver EXCEPT ![w] = IdleSaver]
    /\ UNCHANGED <<declared, published, applied, derived, followed>>

\* _apply of profile p for a session that read `saw`, up to the queries of
\* reconcile_packs: the UPDATE waits until nobody else holds the row's lock.
LockProfile(w, saw, p, i) ==
    /\ \A v \in Savers : saver[v].at # "save"
    /\ \E plan \in Plans(p) :
          saver' = [saver EXCEPT ![w] = [at |-> "save", saw |-> saw, to |-> p, plan |-> plan, ask |-> i]]

\* Nothing is dropped: the profile applies at once.  Of two first saves the
\* second INSERT breaks the primary key and rolls back.
SaveApply(w) ==
    /\ saver[w].at = "read" /\ Removed(saver[w].saw, saver[w].to) = {}
    /\ IF saver[w].saw = Nowhere /\ declared # Nowhere
         THEN saver' = [saver EXCEPT ![w] = IdleSaver]
         ELSE LockProfile(w, saver[w].saw, saver[w].to, 0)
    /\ UNCHANGED <<declared, published, applied, asks, derived, followed>>

\* decide_change_request, approved: a decided request is left alone, else the
\* profile applies as it was filed.
Approve(w, i) ==
    /\ saver[w].at = "idle" /\ asks[i].status = "pending"
    /\ LockProfile(w, declared, asks[i].to, i)
    /\ UNCHANGED <<declared, published, applied, asks, derived, followed>>

\* The subscriptions follow a profile; if what w found to do is no longer what
\* there is to do, they follow none.
Follow(w) ==
    LET current == saver[w].plan \in Plans(saver[w].to)
    IN  /\ applied' = Reconciled(saver[w].plan)
        /\ derived' = IF current THEN Mandatory(saver[w].to, published) ELSE {}
        /\ followed' = current
        /\ saver' = [saver EXCEPT ![w] = IdleSaver]

\* The commit of a profile that applies.
SaveWrite(w) ==
    LET saw == saver[w].saw
        to  == saver[w].to
    IN  /\ saver[w].at = "save"
        /\ declared' = [places |-> IF to.places = saw.places THEN declared.places ELSE to.places,
                        fields |-> IF to.fields = saw.fields THEN declared.fields ELSE to.fields]
        /\ asks' = [i \in DOMAIN asks |->
                       IF i = saver[w].ask THEN [asks[i] EXCEPT !.status = "approved"] ELSE asks[i]]
        /\ Follow(w)
        /\ UNCHANGED published

\* decide_change_request, denied.
Deny(i) ==
    /\ asks[i].status = "pending" /\ \A w \in Savers : saver[w].ask # i
    /\ asks' = [asks EXCEPT ![i].status = "denied"]
    /\ UNCHANGED <<declared, published, applied, saver, derived, followed>>

-----------------------------------------------------------------------------
(* Attest's side.                                                          *)

\* upsert_pack, by the watcher or by seeding: a new version, or an existing one
\* refreshed in place.
PublishPack(doc) ==
    /\ \/ /\ Len(published) < MaxVersions
          /\ published' = Append(published, doc)
       \/ \E v \in VersionsOf(doc.code, published) : published' = [published EXCEPT ![v] = doc]
    /\ followed' = FALSE
    /\ UNCHANGED <<declared, applied, asks, saver, derived>>

\* subscribe_org_to_pack
SubscribeOrg(c, on) ==
    /\ VersionsOf(c, published) # {}
    /\ applied' = Subscribed(applied, c, on) /\ followed' = FALSE
    /\ UNCHANGED <<declared, published, asks, saver, derived>>

\* reconcile_org_packs, the read of the profile.
ReconcileOrg(w) ==
    /\ saver[w].at = "idle"
    /\ saver' = [saver EXCEPT ![w] = [IdleSaver EXCEPT !.at = "reconcile", !.to = declared]]
    /\ UNCHANGED <<declared, published, applied, asks, derived, followed>>

\* The queries of packs and subscriptions; no lock keeps the profile as it was.
ReconcileRead(w) ==
    /\ saver[w].at = "reconcile"
    /\ \E plan \in Plans(saver[w].to) :
          saver' = [saver EXCEPT ![w] = [IdleSaver EXCEPT !.at = "fix", !.to = saver[w].to, !.plan = plan]]
    /\ UNCHANGED <<declared, published, applied, asks, derived, followed>>

\* The writes and the commit; nor are the subscriptions kept as they were.
ReconcileWrite(w) ==
    /\ saver[w].at = "fix"
    /\ Follow(w)
    /\ UNCHANGED <<declared, published, asks>>

ProfileInit ==
    /\ declared = Nowhere /\ published = <<>> /\ applied = <<>> /\ asks = <<>>
    /\ saver = [w \in Savers |-> IdleSaver] /\ derived = {} /\ followed = TRUE

ProfileNext ==
    \/ \E w \in Savers : \/ \E p \in Profiles : SaveRead(w, p)
                         \/ FileRequest(w) \/ SaveApply(w) \/ SaveWrite(w)
                         \/ \E i \in DOMAIN asks : Approve(w, i)
                         \/ ReconcileOrg(w) \/ ReconcileRead(w) \/ ReconcileWrite(w)
    \/ \E i \in DOMAIN asks : Deny(i)
    \/ \E doc \in Documents : PublishPack(doc)
    \/ \E c \in Packs : SubscribeOrg(c, TRUE) \/ SubscribeOrg(c, FALSE)

ProfileSpec == ProfileInit /\ [][ProfileNext]_profileVars

-----------------------------------------------------------------------------
(* Properties.                                                             *)

\* What the profile last followed derives stays subscribed, whatever is saved,
\* published, refreshed or subscribed since; and right after it is followed, a
\* code beyond that is one with several versions, one of which reconcile_packs
\* has overlooked (mandatory_packs, reconcile_packs).  A request that writes what
\* is no longer to be done has followed no profile.
ReconcileFollows ==
    /\ derived \subseteq SubscribedCodes(applied)
    /\ followed => \A c \in SubscribedCodes(applied) \ derived :
                      \E u, v \in VersionsOf(c, published) : u # v

\* org_profile.py:90, "Make the applied rulebooks equal exactly what the profile
\* derives", and :137, "always equal": so they are until something is published
\* or subscribed.  (Not so: see ReconcileFollows.)
RulebooksEqualProfile ==
    followed => SubscribedCodes(applied) = Mandatory(declared, published)

\* org_profile.py:97, "shrinking a profile needs Attest's approval [...] Nothing
\* is shed unilaterally": what leaves the profile is among what an approved
\* request named as removed.  (Not so: a request applies as it was filed.)
NothingShedUnilaterally ==
    [][Removed(declared, declared') # {} =>
          \E i \in DOMAIN asks : /\ asks[i].status = "pending" /\ asks'[i].status = "approved"
                                 /\ Removed(declared, declared') \subseteq asks[i].removed]_profileVars
=============================================================================
