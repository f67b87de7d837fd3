----------------------------- MODULE OfflineSdk -----------------------------
(***************************************************************************)
(* The SDK's gate() while the server may be unreachable: an output that    *)
(* could not be handed over is signed into the device's own chain and      *)
(* appended to an encrypted queue on disk; a later call drains the queue   *)
(* through /v1/sdk/replay.  The clients are the threads and processes that *)
(* share one state directory (the default is ~/.attest for all of them).   *)
(*                                                                         *)
(* A step is one file operation or one HTTP request.  A client may crash   *)
(* (or get an OSError) at any step: a write is then done, not done, or     *)
(* torn.  A reply may be lost after the server committed.  A record is     *)
(* named by its hash; occurred_at makes every one different.  What the     *)
(* server does with a segment is EventChain and GateFlow; here it is       *)
(* accepted or refused as a whole.                                         *)
(***************************************************************************)
EXTENDS Naturals, Sequences, FiniteSets, SequencesExt

CONSTANTS Clients,      \* callers that share the state directory
          Batch,        \* records per replay request (100 in the code)
          MaxRecords,   \* bound: offline records made
          MaxTroubles   \* bound: crashes, torn writes, failed requests and lost replies

ASSUME SdkAssumption == Batch \in Nat \ {0} /\ MaxRecords \in Nat /\ MaxTroubles \in Nat

VARIABLES
    \* the state directory
    made,       \* the records signed so far, by number: [seq, prev, poison]
    lines,      \* buffer.jsonl: a record's number, or 0 for a line that cannot be read
    open,       \* the last line has no newline
    head,       \* chain.json: [next, prev], or its state when it cannot be parsed
    \* the server
    known,      \* the device is registered
    accepted,   \* records the server took
    \* the clients
    at,         \* each client's next step
    mine,       \* its local variables
    troubles    \* faults so far

sdkVars == <<made, lines, open, head, known, accepted, at, mine, troubles>>

Disk == <<made, lines, open, head>>

NoHead == [next |-> 1, prev |-> 0]

TornHead == [next |-> 0, prev |-> 0]

Records == 1..MaxRecords

Idle == [rec |-> 0, next |-> 0, prev |-> 0, poison |-> FALSE, registered |-> FALSE,
         pending |-> <<>>, chunk |-> 0, kept |-> <<>>]

SdkGoto(c, step) == at' = [at EXCEPT ![c] = step]

\* A fault of the network, the disk or the process.
Trouble == troubles < MaxTroubles /\ troubles' = troubles + 1

Fine == UNCHANGED troubles

\* The call returns or raises; only the registration flag outlives it.
Return(c) ==
    /\ SdkGoto(c, "idle")
    /\ mine' = [mine EXCEPT ![c] = [Idle EXCEPT !.registered = mine[c].registered]]

-----------------------------------------------------------------------------
(* OfflineStore.                                                           *)

\* Mutant: reading stops at the first line that cannot be read.
ReadToTorn ==
    SubSeq(lines, 1, CHOOSE n \in 0..Len(lines) : /\ \A i \in 1..n : lines[i] # 0
                                                  /\ n < Len(lines) => lines[n + 1] = 0)

\* The lines that can be read, and how many there are up to line i.
Readable == {i \in DOMAIN lines : lines[i] # 0}

ReadUpTo(i) == Cardinality({j \in Readable : j <= i})

\* read_all: the records of the lines that can be read, in order.
ReadAll == [n \in 1..Cardinality(Readable) |-> lines[CHOOSE i \in Readable : ReadUpTo(i) = n]]

\* Mutant: chain.json decides.
RememberedState == head

\* chain_state: the last readable record decides; chain.json only when the
\* queue holds none, and then an unparseable file raises.
ChainState ==
    IF ReadAll # <<>> THEN [next |-> made[Last(ReadAll)].seq + 1, prev |-> Last(ReadAll)]
    ELSE head

\* A line after a write: joined to an unfinished line, the new record is lost;
\* the old one survives only if base64 padding ends its text.
Appended(r) ==
    IF open THEN {[lines EXCEPT ![Len(lines)] = x] : x \in {0, lines[Len(lines)]}}
    ELSE {Append(lines, r)}

\* drop: without the first n lines, readable or not.
Drop(L, n) == SubSeq(L, n + 1, Len(L))

-----------------------------------------------------------------------------
(* gate().                                                                 *)

\* The server recorded the output and the client knows: what was buffered is
\* drained next.  flush_offline drains too.
GateOnline(c) ==
    /\ Fine
    /\ at[c] = "idle"
    /\ SdkGoto(c, "read")
    /\ UNCHANGED <<Disk, known, accepted, mine>>

\* The request timed out, the server refused it with anything but 409, or
\* could not be reached: the verdict is computed locally and queued.  An
\* output the server will never take (an invalid trace id) is queued too.
GateOffline(c, poison) ==
    /\ Fine
    /\ at[c] = "idle"
    /\ Len(made) < MaxRecords
    /\ mine' = [mine EXCEPT ![c].poison = poison]
    /\ SdkGoto(c, "chain")
    /\ UNCHANGED <<Disk, known, accepted>>

\* build_offline_claim: the claim after the one ChainState names.
OfflineClaim(c) == [seq |-> ChainState.next, prev |-> ChainState.prev, poison |-> mine[c].poison]

\* _gate_offline reads the chain state and signs the claim.
SignClaim(c) ==
    /\ Fine
    /\ at[c] = "chain"
    /\ \/ /\ ChainState = TornHead
          /\ Return(c)
          /\ UNCHANGED <<Disk, known, accepted>>
       \/ /\ ChainState # TornHead
          /\ Len(made) < MaxRecords
          /\ made' = Append(made, OfflineClaim(c))
          /\ mine' = [mine EXCEPT ![c].rec = Len(made) + 1]
          /\ SdkGoto(c, "append")
          /\ UNCHANGED <<lines, open, head, known, accepted>>
       \/ /\ ChainState # TornHead
          /\ Len(made) = MaxRecords
          /\ Return(c)
          /\ UNCHANGED <<Disk, known, accepted>>

\* store.append, written and synced.
AppendRecord(c) ==
    /\ Fine
    /\ at[c] = "append"
    /\ lines' \in Appended(mine[c].rec)
    /\ open' = FALSE
    /\ SdkGoto(c, "head")
    /\ UNCHANGED <<made, head, known, accepted, mine>>

\* remember_head; the call returns a buffered verdict.
RememberHead(c) ==
    LET r == mine[c].rec
    IN  /\ at[c] = "head" /\ Fine
        /\ head' = [next |-> made[r].seq + 1, prev |-> r]
        /\ Return(c)
        /\ UNCHANGED <<made, lines, open, known, accepted>>

-----------------------------------------------------------------------------
(* _drain_offline.                                                         *)

Drained(c) == Return(c) /\ UNCHANGED <<Disk, known, accepted>>

\* read_all, once for the whole drain.
ReadQueue(c) ==
    /\ Fine
    /\ at[c] = "read"
    /\ \/ ReadAll = <<>> /\ Drained(c)
       \/ /\ ReadAll # <<>>
          /\ mine' = [mine EXCEPT ![c].pending = ReadAll]
          /\ SdkGoto(c, "register")
          /\ UNCHANGED <<Disk, known, accepted>>

\* register_device of the server, idempotent: a device it knows is renewed.
RegisterDevice == known' = TRUE

\* _ensure_device_registered, once per client: the reply may be lost or the
\* request fail, and _drain_offline goes on all the same.
Register(c) ==
    /\ at[c] = "register"
    /\ \/ /\ ~mine[c].registered
          /\ RegisterDevice
          /\ \/ mine' = [mine EXCEPT ![c].registered = TRUE] /\ Fine
             \/ UNCHANGED mine /\ Trouble
       \/ mine[c].registered /\ UNCHANGED <<known, mine>> /\ Fine
       \/ ~mine[c].registered /\ UNCHANGED <<known, mine>> /\ Trouble
    /\ SdkGoto(c, "post")
    /\ UNCHANGED <<Disk, accepted>>

Chunk(c) == SubSeq(mine[c].pending, 1, IF Len(mine[c].pending) < Batch
                                       THEN Len(mine[c].pending) ELSE Batch)

\* _verify_segment: each claim links to the one before it; the first link of
\* a segment is not checked.
Linked(S) == \A i \in 1..(Len(S) - 1) : made[S[i + 1]].prev = S[i]

\* graft_offline_segment takes a segment as a whole or refuses it.
Grafts(S) == known /\ Linked(S) /\ \A i \in 1..Len(S) : ~made[S[i]].poison

\* Mutant: a segment the server refused is dropped from the queue.
PostDroppingRefused(c) ==
    LET S == Chunk(c)
    IN  /\ at[c] = "post"
        /\ accepted' = IF Grafts(S) THEN accepted \cup Range(S) ELSE accepted
        /\ mine' = [mine EXCEPT ![c].chunk = Len(S), ![c].pending = Drop(@, Len(S))]
        /\ SdkGoto(c, "lines") /\ Fine
        /\ UNCHANGED <<Disk, known>>

\* POST /v1/sdk/replay: accepted; accepted and the reply lost; refused or
\* unreachable, which ends the drain and leaves the queue as it is.
Post(c) ==
    LET S == Chunk(c)
    IN  /\ at[c] = "post"
        /\ \/ /\ Grafts(S)
              /\ accepted' = accepted \cup Range(S)
              /\ \/ /\ mine' = [mine EXCEPT ![c].chunk = Len(S), ![c].pending = Drop(@, Len(S))]
                    /\ SdkGoto(c, "lines") /\ Fine
                 \/ Return(c) /\ Trouble
              /\ UNCHANGED <<Disk, known>>
           \/ ~Grafts(S) /\ Drained(c) /\ Fine
           \/ Grafts(S) /\ Drained(c) /\ Trouble

\* store.drop, first half: what is to stay is read from the file,
ReadLines(c) ==
    /\ Fine
    /\ at[c] = "lines"
    /\ mine' = [mine EXCEPT ![c].kept = Drop(lines, mine[c].chunk)]
    /\ SdkGoto(c, "replace")
    /\ UNCHANGED <<Disk, known, accepted>>

\* second half: and replaces the file; then the next chunk.
ReplaceFile(c) ==
    /\ Fine
    /\ at[c] = "replace"
    /\ lines' = mine[c].kept
    /\ open' = FALSE
    /\ mine' = [mine EXCEPT ![c].kept = <<>>, ![c].chunk = 0]
    /\ SdkGoto(c, IF mine[c].pending = <<>> THEN "idle" ELSE "post")
    /\ UNCHANGED <<made, head, known, accepted>>

-----------------------------------------------------------------------------
(* Failures of the client.                                                 *)

\* The process dies; what it knew in memory is gone.
Die(c) ==
    /\ Trouble
    /\ SdkGoto(c, "idle")
    /\ mine' = [mine EXCEPT ![c] = Idle]

\* Between two steps, or before a write took effect (os.replace is atomic).
SdkCrash(c) ==
    /\ at[c] # "idle"
    /\ Die(c)
    /\ UNCHANGED <<Disk, known, accepted>>

\* In the middle of an append: part of the line, or all of it but the
\* newline, is in the file.
TearAppend(c) ==
    /\ at[c] = "append"
    /\ \/ \E x \in {0, mine[c].rec} : ~open /\ lines' = Append(lines, x) /\ open' = TRUE
       \/ open /\ lines' \in Appended(mine[c].rec) /\ open' = TRUE
    /\ Die(c)
    /\ UNCHANGED <<made, head, known, accepted>>

\* In the middle of remember_head: write_text truncates before it writes.
TearHead(c) ==
    /\ at[c] = "head"
    /\ head' = TornHead
    /\ Die(c)
    /\ UNCHANGED <<made, lines, open, known, accepted>>

-----------------------------------------------------------------------------
SdkInit ==
    /\ made = <<>> /\ lines = <<>> /\ open = FALSE /\ head = NoHead
    /\ known = FALSE /\ accepted = {}
    /\ at = [c \in Clients |-> "idle"]
    /\ mine = [c \in Clients |-> Idle]
    /\ troubles = 0

DrainStep(c) ==
    \/ ReadQueue(c) \/ Register(c) \/ Post(c) \/ ReadLines(c) \/ ReplaceFile(c)

OfflineStep(c) == SignClaim(c) \/ AppendRecord(c) \/ RememberHead(c)

\* What a client does when it is called and when nothing goes wrong.
ClientStep(c) == GateOnline(c) \/ OfflineStep(c) \/ DrainStep(c)

SdkNext ==
    \E c \in Clients :
        \/ ClientStep(c)
        \/ \E poison \in BOOLEAN : GateOffline(c, poison)
        \/ SdkCrash(c) \/ TearAppend(c) \/ TearHead(c)

\* The application keeps calling and its calls make progress; the faults are
\* bounded, so outages, lost replies and crashes do not go on for ever.
SdkFairness == \A c \in Clients : WF_sdkVars(ClientStep(c))

SdkSpec == SdkInit /\ [][SdkNext]_sdkVars /\ SdkFairness

-----------------------------------------------------------------------------
(* Properties.                                                             *)

Queued == {r \in Records : \E i \in 1..Len(lines) : lines[i] = r}

\* What store.py promises: a queued record leaves the file only after the
\* server took it, also when lines before it are corrupt and the drain works
\* in batches.  (Only a torn append may spoil the line it writes to.)
LeavesOnlyAccepted ==
    [][\A r \in Queued :
          \/ r \in Queued' \/ r \in accepted'
          \/ open /\ lines[Len(lines)] = r]_sdkVars

\* The SDK never refuses itself: whatever was torn or dropped before, the
\* records that can be read form one linked, consecutively numbered chain,
\* which the server's check of the segment accepts.
QueueLinked ==
    \A i \in 1..(Len(ReadAll) - 1) :
        /\ made[ReadAll[i + 1]].prev = ReadAll[i]
        /\ made[ReadAll[i + 1]].seq = made[ReadAll[i]].seq + 1

\* What is queued is handed over in the end, unless the queue holds a record the
\* server refuses (which stops the drain at every attempt).
EventuallyHandedOver ==
    Queued # {} ~> (Queued \subseteq accepted \/ \E p \in Queued : made[p].poison)
=============================================================================
