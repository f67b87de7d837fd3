------------------------------ MODULE RegWatch ------------------------------
(***************************************************************************)
(* The regulation watcher, for one pack and the official page it cites.  A *)
(* sweep loads the source's row, fetches the page (with retries) and, in   *)
(* the transaction it began before the fetch, detects drift and confirms   *)
(* citations that the text contains, publishing a new pack version.  Where *)
(* the site refuses the watcher a person supplies the text instead.        *)
(*                                                                         *)
(* What a transaction writes are the columns that differ from the row it   *)
(* loaded; another transaction may have committed since.  created_at of a  *)
(* version is the time its transaction began.  A text is named by its hash *)
(* and stands for the set of citations in its first 200,000 characters,    *)
(* the snapshot the citations are looked up in: one that comes later in    *)
(* the page is never confirmed.  Gate 3 runs a pure function three times,  *)
(* so it never fails.                                                      *)
(***************************************************************************)
EXTENDS Naturals, Sequences, SequencesExt

CONSTANTS Sweepers,     \* sweeps that may overlap: cron, the admin's button
          Humans,       \* people supplying text
          Texts,        \* versions of the official page
          Rules,        \* rules of the pack with a provision_candidate
          Mentions,     \* the candidates in the snapshot kept of each text
          NoText,       \* a NULL hash
          Persistent,   \* failures in a row that are no longer transient
          MaxChanges, MaxFailures, MaxSupplied          \* bounds

ASSUME WatchAssumption ==
    /\ Mentions \in [Texts -> SUBSET Rules] /\ NoText \notin Texts
    /\ Persistent \in Nat \ {0}
    /\ MaxChanges \in Nat /\ MaxFailures \in Nat /\ MaxSupplied \in Nat

VARIABLES
    page,       \* what the official page says, and how often it changed
    source,     \* the row of regulation_sources
    versions,   \* regulation_packs: the versions of the pack, by created_at.
                \* confirmed: rules with a provision; attested: of these, the
                \* ones that no fetched text confirmed
    news,       \* the regulation_changes the last transaction left quarantined
    sweep,      \* each transaction under way
    supplied,   \* texts supplied so far
    failures,   \* failed requests so far
    lastSeen    \* the text the last sweep that reached the page saw

watchVars == <<page, source, versions, news, sweep, supplied, failures, lastSeen>>

Watchers == Sweepers \cup Humans

Latest == versions[Len(versions)]

\* slot: how many versions are older than one this transaction publishes;
\* before: the transactions under way that began before it.
Off == [at |-> "idle", row |-> [hash |-> NoText, pending |-> NoText, mode |-> "auto", fails |-> 0],
        slot |-> 0, before |-> {}, text |-> NoText, publish |-> FALSE]

Busy == {w \in Watchers : sweep[w].at # "idle"}

Begun == [Off EXCEPT !.row = source, !.slot = Len(versions), !.before = Busy]

-----------------------------------------------------------------------------
(* Sweeps and supplied texts begin; the page is fetched.                   *)

\* run_watch loads the row of a source that is due.
BeginSweep(w) ==
    /\ sweep[w].at = "idle"
    /\ sweep' = [sweep EXCEPT ![w] = [Begun EXCEPT !.at = "fetch", !.publish = TRUE]]
    /\ UNCHANGED <<page, source, versions, news, supplied, failures, lastSeen>>

\* supply_source_text: a person posts text t; publishing may be off.
BeginSupply(h, t, publish) ==
    /\ sweep[h].at = "idle" /\ supplied < MaxSupplied
    /\ supplied' = supplied + 1
    /\ sweep' = [sweep EXCEPT ![h] = [Begun EXCEPT !.at = "supplied", !.text = t, !.publish = publish]]
    /\ UNCHANGED <<page, source, versions, news, failures, lastSeen>>

\* The fetcher gets the page, at once or on a retry.
FetchOk(w) ==
    /\ sweep[w].at = "fetch"
    /\ sweep' = [sweep EXCEPT ![w].at = "fetched", ![w].text = page.text]
    /\ UNCHANGED <<page, source, versions, news, supplied, failures, lastSeen>>

\* It is not: told to wait (429, 5xx) on every one of its MAX_RETRIES
\* retries, answered otherwise, or not at all.
FetchFails(w, answer) ==
    /\ sweep[w].at = "fetch" /\ failures < MaxFailures
    /\ failures' = failures + 1
    /\ sweep' = [sweep EXCEPT ![w].at = answer]
    /\ UNCHANGED <<page, source, versions, news, supplied, lastSeen>>

Answers == {"limited", "down", "refused", "gone", "error"}

-----------------------------------------------------------------------------
(* The end of a transaction, computed from the row as loaded.              *)

\* The row after a transaction that loaded old and ends with new.
Written(old, new) ==
    [hash    |-> IF new.hash = old.hash THEN source.hash ELSE new.hash,
     pending |-> IF new.pending = old.pending THEN source.pending ELSE new.pending,
     mode    |-> IF new.mode = old.mode THEN source.mode ELSE new.mode,
     fails   |-> IF new.fails = old.fails THEN source.fails ELSE new.fails]

\* The transaction ends, having published n versions.
Finish(w, n) ==
    sweep' = [v \in Watchers |->
                 IF v = w THEN Off
                 ELSE [sweep[v] EXCEPT !.slot = IF w \in sweep[v].before THEN @ + n ELSE @,
                                       !.before = @ \ {w}]]

\* What a failed check is reported as.
ChangeType(answer, fails) ==
    CASE answer = "gone"    -> "source_gone"
      [] answer = "refused" -> "source_blocked"
      [] answer = "limited" -> IF fails >= Persistent THEN "source_blocked" ELSE "source_unavailable"
      [] answer = "down"    -> "source_unavailable"
      [] OTHER              -> "fetch_failed"

\* check_source when the page was not reached: a source kept by hand is
\* probed in silence.  The count is not needed beyond the threshold.
RecordFailure(w) ==
    LET old == sweep[w].row
        n == IF old.fails < Persistent THEN old.fails + 1 ELSE old.fails
    IN  /\ sweep[w].at \in Answers
        /\ source' = Written(old, [old EXCEPT !.fails = n])
        /\ news' = IF old.mode = "manual" THEN {}
                   ELSE {[type |-> ChangeType(sweep[w].at, n), text |-> NoText]}
        /\ Finish(w, 0)
        /\ UNCHANGED <<page, versions, supplied, failures, lastSeen>>

\* The source before its text is evaluated: reached again by us, or attested.
Reached(w) ==
    [sweep[w].row EXCEPT !.fails = 0, !.mode = IF sweep[w].at = "supplied" THEN "manual" ELSE "auto"]

\* Mutant: the pending hash is compared with the recorded one.
VerdictNever(row, t, confirm) ==
    IF row.hash # NoText /\ t # row.hash
    THEN IF ~confirm \/ row.pending = row.hash THEN "drift" ELSE "wait"
    ELSE "same"

\* _evaluate_snapshot: a text other than the recorded one is drift once it
\* was seen twice in a row, or at once when a person put it in.
Verdict(row, t, confirm) ==
    IF row.hash # NoText /\ t # row.hash
    THEN IF ~confirm \/ row.pending = t THEN "drift" ELSE "wait"
    ELSE "same"

\* Mutant: what was seen once stays pending although the old text is back.
EvaluatedForgetful(row, t, verdict) ==
    IF verdict = "wait" THEN [row EXCEPT !.pending = t] ELSE [row EXCEPT !.hash = t]

Evaluated(row, t, verdict) ==
    IF verdict = "wait" THEN [row EXCEPT !.pending = t]
    ELSE [row EXCEPT !.pending = NoText, !.hash = t]

\* Gate 2: the snapshot of the text contains the candidate of rule r.
AppearsVerbatim(r, t) == r \in Mentions[t]

\* extract_confirmations, for the rules that have no provision yet.
Confirmed(t) == {r \in Rules \ Latest.confirmed : AppearsVerbatim(r, t)}

\* Mutant: a citation is looked up only where the text has changed.
ConfirmsChanged(verdict) == verdict = "drift"

\* Whether the snapshot is accepted and the gates are run on it.
Confirms(verdict) == verdict # "wait"

\* _publish_confirmations: a new version on top of the latest.
Published(w, mode) ==
    LET new == Confirmed(sweep[w].text)
    IN  InsertAt(versions, sweep[w].slot + 1,
                 [confirmed |-> Latest.confirmed \cup new,
                  attested  |-> IF mode = "manual" THEN Latest.attested \cup new ELSE Latest.attested,
                  status    |-> IF mode = "manual" THEN "attested_verified" ELSE "source_verified"])

\* check_source with the page, or supply_text, up to the commit.
RecordText(w) ==
    LET t == sweep[w].text
        row == Reached(w)
        verdict == Verdict(row, t, w \in Sweepers)
        confirmed == Confirms(verdict) /\ Confirmed(t) # {}
        publishes == confirmed /\ sweep[w].publish
    IN  /\ sweep[w].at \in {"fetched", "supplied"}
        /\ source' = Written(sweep[w].row, Evaluated(row, t, verdict))
        /\ news' = {[type |-> c, text |-> t] :
                       c \in {x \in {"source_drift", "provision_confirmed"} :
                                \/ x = "source_drift" /\ verdict = "drift"
                                \/ x = "provision_confirmed" /\ confirmed /\ ~publishes}}
        /\ versions' = IF publishes THEN Published(w, row.mode) ELSE versions
        /\ lastSeen' = IF w \in Sweepers THEN t ELSE lastSeen
        /\ Finish(w, IF publishes THEN 1 ELSE 0)
        /\ UNCHANGED <<page, supplied, failures>>

-----------------------------------------------------------------------------
(* Around the watcher.                                                     *)

\* The regulator changes the page (or serves a variant of it).
PageChanges(t) ==
    /\ t # page.text /\ page.changes < MaxChanges
    /\ page' = [text |-> t, changes |-> page.changes + 1]
    /\ UNCHANGED <<source, versions, news, sweep, supplied, failures, lastSeen>>

\* The pack is published by its author, without confirmed provisions, and
\* register_sources has created the row of its source.
WatchInit ==
    /\ page \in [text : Texts, changes : {0}]
    /\ source = Off.row
    /\ versions = <<[confirmed |-> {}, attested |-> {}, status |-> "unverified"]>>
    /\ news = {}
    /\ sweep = [w \in Watchers |-> Off]
    /\ supplied = 0 /\ failures = 0
    /\ lastSeen = NoText

SweepStep(w) == BeginSweep(w) \/ FetchOk(w) \/ RecordFailure(w) \/ RecordText(w)

WatchNext ==
    \/ \E w \in Sweepers : SweepStep(w) \/ \E a \in Answers : FetchFails(w, a)
    \/ \E h \in Humans : \/ \E t \in Texts, publish \in BOOLEAN : BeginSupply(h, t, publish)
                         \/ RecordText(h)
    \/ \E t \in Texts : PageChanges(t)

\* Sweeps are started again and again, and the fetcher's timeout ends each.
WatchFairness == /\ \A w \in Sweepers : WF_watchVars(SweepStep(w))
                 /\ \A h \in Humans : WF_watchVars(RecordText(h))

WatchSpec == WatchInit /\ [][WatchNext]_watchVars /\ WatchFairness

-----------------------------------------------------------------------------
(* Properties.                                                             *)

\* "Drift is only reported once the SAME new content has been seen twice": a
\* sweep that reports drift saw what the sweep before it saw, whatever failed,
\* reverted or was supplied by hand in between; and a transaction that replaces
\* the recorded text it has read reports it.
DriftSeenTwice ==
    [][\A w \in Watchers :
          LET drift == [type |-> "source_drift", text |-> sweep[w].text]
          IN  sweep[w].text # NoText /\ sweep'[w].at = "idle" =>
                /\ w \in Sweepers /\ drift \in news' => lastSeen = sweep[w].text
                /\ sweep[w].row.hash # NoText /\ sweep[w].row.hash = source.hash
                     /\ source'.hash # source.hash => drift \in news']_watchVars

\* A sweep is under way.
Sweeping == \E w \in Sweepers : sweep[w].at # "idle"

\* While there are sweeps, a page that stays as it is is recorded in the end, even when a person
\* supplied something else, requests failed and variants came in between.
PageRecorded == Sweeping ~> (source.hash = page.text)

\* A citation in the first 200,000 characters of the page gets into the latest
\* version in the end, although a slow sweep may publish a version that is not the latest.
CitationConfirmed == Sweeping ~> (Mentions[page.text] \subseteq Latest.confirmed)

\* reg_watch.py on ATTESTED_VERIFIED: "Never promoted to either SOURCE_VERIFIED
\* or counsel_reviewed".
AttestedNeverPromoted ==
    \A v \in 1..Len(versions) : versions[v].status = "source_verified" => versions[v].attested = {}
=============================================================================
