------------------------------ MODULE Batching ------------------------------
(***************************************************************************)
(* Sealing and anchoring: a cron job (scripts/seal_and_anchor.py) collects *)
(* the events that are in no batch, signs the Merkle root over them and    *)
(* stores the batch; then it has every batch without an anchor timestamped *)
(* by an external authority.  Meanwhile evidence bundles are exported.     *)
(*                                                                         *)
(* Nothing keeps two runs of the job apart.  The database is PostgreSQL    *)
(* under READ COMMITTED: a step is one statement (or one HTTP request), an *)
(* UPDATE or a unique INSERT waits for the transaction that wrote the row. *)
(* Events are numbered by created_at; they may be committed in any order.  *)
(* A batch gets its number when its transaction commits.                   *)
(***************************************************************************)
EXTENDS Merkle, FiniteSets

CONSTANTS Jobs,         \* runs of the script that may overlap
          Sealers,      \* the ones without --anchor-only
          Anchorers,    \* the ones without --seal-only
          Exported,     \* events of the trace whose evidence is exported
          MaxEvents,    \* bound: events recorded
          MaxFaults     \* bound: crashes and failures of the authority

ASSUME BatchingAssumption ==
    /\ Jobs = Sealers \cup Anchorers
    /\ Exported \subseteq 1..MaxEvents
    /\ MaxEvents \in Nat /\ MaxFaults \in Nat

VARIABLES
    logged,     \* committed events
    batchOf,    \* events.batch_id, 0 for NULL
    batches,    \* the committed batches: event_ids in order, root, anchored
    cron,       \* what each job is doing
    faults,     \* faults so far
    export      \* the evidence bundle being built

batchVars == <<logged, batchOf, batches, cron, faults, export>>

Event == 1..MaxEvents

NoRun == [at |-> "idle", events |-> <<>>, todo |-> <<>>, stamped |-> {}]

NoExport == [trace |-> {}, sealed |-> {}]

CronGoto(j, step) == cron' = [cron EXCEPT ![j].at = step]

\* Whatever the job has not committed is rolled back; it exits.
Exit(j) == cron' = [cron EXCEPT ![j] = NoRun]

\* After the sealing half: the sweep, or the end.
AfterSeal(j) == IF j \in Anchorers THEN [NoRun EXCEPT !.at = "list"] ELSE NoRun

-----------------------------------------------------------------------------
(* seal_batch.                                                             *)

\* Mutant: the events after the last batched one.
AfterLastBatched == {e \in logged : \A d \in logged : batchOf[d] # 0 => d < e}

Unbatched == {e \in logged : batchOf[e] = 0}

\* How many of S are not newer than x, and S in the order of created_at.
AsOldAs(S, x) == Cardinality({y \in S : y <= x})

OldestFirst(S) == [n \in 1..Cardinality(S) |-> CHOOSE x \in S : AsOldAs(S, x) = n]

\* unbatched_events, oldest first; no event, no batch.
Gather(j) ==
    /\ cron[j].at = "idle" /\ j \in Sealers
    /\ \/ /\ Unbatched = {}
          /\ cron' = [cron EXCEPT ![j] = AfterSeal(j)]
       \/ /\ Unbatched # {}
          /\ cron' = [cron EXCEPT ![j].at = "assign",
                                  ![j].events = OldestFirst(Unbatched)]
    /\ UNCHANGED <<logged, batchOf, batches, faults, export>>

\* The rows a job's UPDATE has locked.
Locked(j) == IF cron[j].at = "sealed" THEN Range(cron[j].events) ELSE {}

\* insert_batch and assign_events_to_batch: the UPDATE waits for the rows.
Assign(j) ==
    /\ cron[j].at = "assign"
    /\ \A i \in Jobs \ {j} : Locked(i) \cap Range(cron[j].events) = {}
    /\ CronGoto(j, "sealed")
    /\ UNCHANGED <<logged, batchOf, batches, faults, export>>

Hashes(ids) == [i \in 1..Len(ids) |-> Leaf(ids[i])]

\* Mutant: the UPDATE takes whatever has no batch by now.
AssignedUnlisted(ids) == Range(ids) \cup Unbatched

\* The events whose batch_id is set: the listed ones, whatever it was before.
Assigned(ids) == Range(ids)

CommitSeal(j) ==
    LET ids == cron[j].events
    IN  /\ cron[j].at = "sealed"
        /\ batches' = Append(batches, [ids |-> ids, root |-> MerkleRoot(Hashes(ids)), anchored |-> FALSE])
        /\ batchOf' = [e \in Event |-> IF e \in Assigned(ids) THEN Len(batches) + 1 ELSE batchOf[e]]
        /\ cron' = [cron EXCEPT ![j] = AfterSeal(j)]
        /\ UNCHANGED <<logged, faults, export>>

-----------------------------------------------------------------------------
(* anchor_unanchored_batches.                                              *)

Unanchored == {b \in 1..Len(batches) : ~batches[b].anchored}

\* unanchored_batches, oldest first.
ListUnanchored(j) ==
    /\ cron[j].at = IF j \in Sealers THEN "list" ELSE "idle"
    /\ \/ Unanchored = {} /\ Exit(j)
       \/ /\ Unanchored # {}
          /\ cron' = [cron EXCEPT ![j].at = "stamp",
                                  ![j].todo = OldestFirst(Unanchored)]
    /\ UNCHANGED <<logged, batchOf, batches, faults, export>>

\* anchor_batch up to the token: a batch anchored meanwhile raises, which
\* ends the whole sweep.
Stamp(j) ==
    /\ cron[j].at = "stamp"
    /\ \/ batches[Head(cron[j].todo)].anchored /\ Exit(j)
       \/ ~batches[Head(cron[j].todo)].anchored /\ CronGoto(j, "insert")
    /\ UNCHANGED <<logged, batchOf, batches, faults, export>>

\* insert_anchor: batch_id is unique, so it waits for another job's
\* uncommitted row and fails once that is committed.
InsertAnchor(j) ==
    LET b == Head(cron[j].todo)
    IN  /\ cron[j].at = "insert"
        /\ \A i \in Jobs \ {j} : b \notin cron[i].stamped
        /\ \/ batches[b].anchored /\ Exit(j)
           \/ /\ ~batches[b].anchored
              /\ cron' = [cron EXCEPT ![j].at = IF Len(cron[j].todo) = 1 THEN "swept" ELSE "stamp",
                                      ![j].todo = Tail(@), ![j].stamped = @ \cup {b}]
        /\ UNCHANGED <<logged, batchOf, batches, faults, export>>

\* One commit at the end of the sweep.
CommitSweep(j) ==
    /\ cron[j].at = "swept"
    /\ batches' = [b \in 1..Len(batches) |->
                      IF b \in cron[j].stamped THEN [batches[b] EXCEPT !.anchored = TRUE]
                      ELSE batches[b]]
    /\ Exit(j)
    /\ UNCHANGED <<logged, batchOf, faults, export>>

\* The authority cannot be reached, the connection is lost, or the job dies.
CronFails(j) ==
    /\ cron[j].at # "idle" /\ faults < MaxFaults
    /\ faults' = faults + 1
    /\ Exit(j)
    /\ UNCHANGED <<logged, batchOf, batches, export>>

-----------------------------------------------------------------------------
(* build_evidence_bundle, and the events it is about.                      *)

\* The append path commits an event.
LogEvent(e) ==
    /\ e \notin logged
    /\ logged' = logged \cup {e}
    /\ UNCHANGED <<batchOf, batches, cron, faults, export>>

\* events_for_trace: the events of the trace as they are now.
ExportEvents ==
    /\ export = NoExport /\ logged \cap Exported # {}
    /\ export' = [trace |-> logged \cap Exported, sealed |-> {e \in logged \cap Exported : batchOf[e] # 0}]
    /\ UNCHANGED <<logged, batchOf, batches, cron, faults>>

\* batches_for_event_ids: a join on what batch_id is by now.
ExportedBatches == {batchOf[e] : e \in export.trace} \ {0}

\* The batches are read and the bundle is done.
ExportBatches ==
    /\ export # NoExport
    /\ export' = NoExport
    /\ UNCHANGED <<logged, batchOf, batches, cron, faults>>

\* _serialize_batch: where event e is in batch b, with its proof.
ExportedProof(e, b) ==
    LET ids == batches[b].ids
        index == (CHOOSE i \in 1..Len(ids) : ids[i] = e) - 1
    IN  [index |-> index, proof |-> MerkleProof(Hashes(ids), index)]

\* verify_bundle: batch b lists event e, and the proof exported for it leads
\* to the batch's root.
Proven(e, b) ==
    /\ e \in Range(batches[b].ids)
    /\ VerifyMerkleProof(Leaf(e), ExportedProof(e, b).index, ExportedProof(e, b).proof, batches[b].root)

-----------------------------------------------------------------------------
BatchInit ==
    /\ logged = {}
    /\ batchOf = [e \in Event |-> 0]
    /\ batches = <<>>
    /\ cron = [j \in Jobs |-> NoRun]
    /\ faults = 0
    /\ export = NoExport

JobStep(j) ==
    \/ Gather(j) \/ Assign(j) \/ CommitSeal(j)
    \/ ListUnanchored(j) \/ Stamp(j) \/ InsertAnchor(j) \/ CommitSweep(j)

BatchNext ==
    \/ \E j \in Jobs : JobStep(j) \/ CronFails(j)
    \/ \E e \in Event : LogEvent(e)
    \/ ExportEvents \/ ExportBatches

\* cron starts the jobs again and again and they run to an end; PostgreSQL
\* resolves waits in finite time.
BatchFairness == \A j \in Jobs : WF_batchVars(JobStep(j))

BatchSpec == BatchInit /\ [][BatchNext]_batchVars /\ BatchFairness

-----------------------------------------------------------------------------
(* Properties.                                                             *)

\* Whatever two sealers and an export do in whatever order, every event that
\* a finished bundle shows as sealed has in the same bundle a proof, and every
\* proof in it verifies against its batch's root.
SealedEventsProven ==
    [][export # NoExport /\ export' = NoExport =>
        /\ \A e \in export.sealed : \E b \in ExportedBatches : Proven(e, b)
        /\ \A b \in ExportedBatches : \A e \in Range(batches[b].ids) \cap export.trace :
              Proven(e, b)]_batchVars

\* Every event ends up in an anchored batch, although a failure throws away
\* a whole sweep and one job's anchors make another job's sweep fail.
EventuallyAnchored ==
    logged # {} ~> \A e \in logged : batchOf[e] # 0 /\ batches[batchOf[e]].anchored
=============================================================================
