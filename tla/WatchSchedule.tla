----------------------------- MODULE WatchSchedule -----------------------------
(***************************************************************************)
(* Which regulation sources a sweep looks at.  A sweep is one transaction: *)
(* it registers the URLs the packs cite now, retires the others, lists the *)
(* sources that are due, longest overdue first and at most Cap of them,    *)
(* and books the next check of each before it is fetched (what it finds    *)
(* there is RegWatch).  An exception rolls all of it back, the bookings    *)
(* too.                                                                    *)
(*                                                                         *)
(* A sweep takes minutes and the intervals are days, so a day passes only  *)
(* between sweeps.  The rows are kept in the order of next_check_at, NULL  *)
(* first; `left` is the number of days until the check is due.             *)
(***************************************************************************)
EXTENDS Naturals, Integers, Sequences, SequencesExt

CONSTANTS Runners,        \* the scheduled job, the operator's button
          Cron,           \* the scheduled job
          Links,          \* the URLs each pack may cite
          Cap,            \* sources per run, 0 for no cap
          Interval,       \* days until a source is checked again
          ManualRetry,    \* ... if a person maintains it and it still refuses
          Watched,        \* the URL whose checks EverySourceChecked follows
          MaxCorrections, MaxCrashes     \* bounds

ASSUME ScheduleAssumption ==
    /\ Cron \in Runners /\ Cap \in Nat /\ Interval \in Nat \ {0} /\ ManualRetry \in Nat \ {0}
    /\ MaxCorrections \in Nat /\ MaxCrashes \in Nat
    /\ \A c, d \in DOMAIN Links : c # d => Links[c] \cap Links[d] = {}

VARIABLES
    cites,      \* the URL the latest version of each pack cites
    rows,       \* regulation_sources: [url, left, retired]
    run,        \* the sweep of each runner
    corrections, crashes      \* how often so far

scheduleVars == <<cites, rows, run, corrections, crashes>>

Never == -1     \* next_check_at is NULL

-----------------------------------------------------------------------------
(* A sweep.                                                                *)

\* current_pack_urls
CurrentPackUrls == {cites[c] : c \in DOMAIN cites}

Registered(R) == {R[i].url : i \in DOMAIN R}

\* Row r comes after the rows that are due no later than itself.
Placed(R, r) == SelectSeq(R, LAMBDA x : x.left <= r.left) \o <<r>> \o SelectSeq(R, LAMBDA x : x.left > r.left)

\* What register_sources does: rows to add, to bring back with their schedule, and
\* to retire.
Sync ==
    [new  |-> CurrentPackUrls \ Registered(rows),
     back |-> {u \in CurrentPackUrls : \E i \in DOMAIN rows : rows[i].url = u /\ rows[i].retired},
     off  |-> {u \in Registered(rows) \ CurrentPackUrls :
                 \E i \in DOMAIN rows : rows[i].url = u /\ ~rows[i].retired}]

RegisterSources(R, sync) ==
    LET known == [i \in DOMAIN R |-> [R[i] EXCEPT !.retired = R[i].url \notin sync.back
                                                              /\ (@ \/ R[i].url \in sync.off)]]
    IN  FoldLeft(LAMBDA S, u : Placed(S, [url |-> u, left |-> Never, retired |-> FALSE]),
                 known, SetToSeq(sync.new))

\* Mutant: the sources due last come first.
DueLast(R) ==
    LET due == SelectSeq(R, LAMBDA r : ~r.retired /\ r.left <= 0)
    IN  {due[i].url : i \in {k \in DOMAIN due : Cap = 0 \/ k > Len(due) - Cap}}

\* due_sources
DueSources(R) ==
    LET due == SelectSeq(R, LAMBDA r : ~r.retired /\ r.left <= 0)
    IN  {due[i].url : i \in {k \in DOMAIN due : Cap = 0 \/ k <= Cap}}

\* check_source books the next check of url u.
Booked(R, u, days) ==
    LET i == CHOOSE k \in DOMAIN R : R[k].url = u
    IN  Placed(RemoveAt(R, i), [R[i] EXCEPT !.left = days])

NoSweep == [at |-> "idle", sync |-> [new |-> {}, back |-> {}, off |-> {}], todo |-> {}]

\* run_watch up to the list of sources.
StartRun(r) ==
    /\ run[r].at = "idle"
    /\ run' = [run EXCEPT ![r] = [at |-> "sweep", sync |-> Sync,
                                  todo |-> DueSources(RegisterSources(rows, Sync))]]
    /\ UNCHANGED <<cites, rows, corrections, crashes>>

\* The sweep is committed.  A source it registered that another sweep has
\* registered in the meantime breaks the unique constraint: it is rolled back.
EndRun(r) ==
    /\ run[r].at = "sweep"
    /\ IF run[r].sync.new \cap Registered(rows) # {}
         THEN UNCHANGED rows
         ELSE \E days \in [run[r].todo -> {Interval, ManualRetry}] :
                 rows' = FoldLeft(LAMBDA S, u : Booked(S, u, days[u]),
                                  RegisterSources(rows, run[r].sync), SetToSeq(run[r].todo))
    /\ run' = [run EXCEPT ![r] = NoSweep]
    /\ UNCHANGED <<cites, corrections, crashes>>

\* Any other exception, or the end of the process: rolled back.
RunFails(r) ==
    /\ run[r].at = "sweep" /\ crashes < MaxCrashes
    /\ crashes' = crashes + 1
    /\ run' = [run EXCEPT ![r] = NoSweep]
    /\ UNCHANGED <<cites, rows, corrections>>

-----------------------------------------------------------------------------

\* A version of pack c is published that cites another URL (upsert_pack).
CorrectLink(c, u) ==
    /\ corrections < MaxCorrections /\ u # cites[c]
    /\ corrections' = corrections + 1
    /\ cites' = [cites EXCEPT ![c] = u]
    /\ UNCHANGED <<rows, run, crashes>>

DayPasses ==
    /\ \A r \in Runners : run[r].at = "idle"
    /\ rows' = [i \in DOMAIN rows |-> [rows[i] EXCEPT !.left = IF @ > 0 THEN @ - 1 ELSE @]]
    /\ UNCHANGED <<cites, run, corrections, crashes>>

ScheduleInit ==
    /\ cites = [c \in DOMAIN Links |-> CHOOSE u \in Links[c] : TRUE]
    /\ rows = <<>>
    /\ run = [r \in Runners |-> NoSweep]
    /\ corrections = 0 /\ crashes = 0

RunStep(r) == StartRun(r) \/ EndRun(r)

ScheduleNext ==
    \/ \E r \in Runners : RunStep(r) \/ RunFails(r)
    \/ \E c \in DOMAIN Links : \E u \in Links[c] : CorrectLink(c, u)
    \/ DayPasses

\* The job is started again and again, and each sweep ends: every fetch has a timeout.
ScheduleFairness == WF_scheduleVars(RunStep(Cron))

ScheduleSpec == ScheduleInit /\ [][ScheduleNext]_scheduleVars /\ ScheduleFairness

-----------------------------------------------------------------------------
(* Properties.                                                             *)

Fresh(u) == \E i \in DOMAIN rows : rows[i].url = u /\ ~rows[i].retired /\ rows[i].left > 0

\* No source starves: while the job runs, a URL (any one) that a pack cites is checked in
\* the end, and again after every interval, although a sweep takes only the first
\* Cap of the sources that are due, sweeps overlap or are rolled back, and links
\* are corrected and brought back (register_sources, due_sources).
EverySourceChecked ==
    (run[Cron].at # "idle" /\ Watched \in CurrentPackUrls) ~> (Watched \notin CurrentPackUrls \/ Fresh(Watched))
================================================================================
