# Attest: a TLA+ model of the evidence ledger

Attest records what an institution's AI systems do. A client sends each output
to the API; the server judges it against the institution's policy and the
regulation packs it has adopted, appends decision and output to a per-trace hash
chain, asks a human where the risk is high, and can later prove to an auditor
that nothing was changed. It is a FastAPI application over PostgreSQL
(`app/`), with a Python SDK (`attest_sdk/`) that keeps working while the server
cannot be reached.

## Inventory

| Part | State | Operations | What is hard | What makes it correct |
|---|---|---|---|---|
| Event recording (`services/events.py`, `repositories/events.py`) | traces, events | `record_event`: find or create the trace, check `seq`, hash, sign, store the payload, insert | read-then-insert without locks under READ COMMITTED; waits and deadlocks on unique keys | one unforked, gapless chain per trace, of one organisation, that always verifies |
| Payload store, erasure (`payload_store.py`, `erasure.py`) | payloads, keys | store (deduplicated), shred, erase with one retry | concurrent erasures, erasure racing an append, re-recording erased content | content is gone exactly when an erasure event says so, and stays gone |
| Signing keys (`org_signing.py`) | keys per organisation | provision, rotate, sign | rotation while requests are under way | every event verifies under the key its id names |
| Verification (`verification.py`, `replay.py`, `bundle/verify.py`) | none | replay a trace, verify an exported bundle | several keys on one trace | both accept what the server recorded |
| Gate, precheck (`gate.py`, `precheck.py`, `verdict.py`) | decision index | judge, record decision and output, open an approval, close a remediation | two appends in one transaction; fail-closed path | the index, the chain and the answer agree; only a compliant decision cures |
| Approvals, workflow gate (`approvals.py`, `workflow.py`) | approvals | resolve, ask whether the workflow may go on | two resolvers at once, order by start time, only 20 newest | a red decision blocks until a human approves it |
| Consent review (`access_review.py`, `consent_events.py`) | requests, approvals, released keys | file, approve (M of N), deny, revoke, read | approvals counted without a lock, approve racing deny, read racing revoke | content is read only under enough approvals, and every read is recorded |
| Offline path (`attest_sdk/store.py`, `attest.py`, `services/offline.py`) | encrypted queue, chain head, devices | append, drain, replay | crashes between two writes, torn lines, lost answers, refused records | nothing buffered is lost, the device chain has no gaps |
| Flush buffer (`attest_sdk/buffer.py`) | queue, worker thread | enqueue, flush, close | two consumers of one queue, sentinel, full queue | every event is delivered, in order |
| Batches (`batching.py`, `anchor_batches.py`, `crypto/merkle.py`) | batches, anchors | seal, anchor, prove inclusion | concurrent sealers, failure in the middle of a sweep | every event in one batch, every proof checks |
| Profile, packs, policies (`org_profile.py`, `regulation_packs.py`, `repositories/policies.py`) | profile, change requests, versions | set, request a reduction, decide, upsert | requests decided long after they were filed | a reduction only removes what was approved |
| Regulation watcher (`reg_watch.py`) | sources, changes | register, check, confirm drift, publish | drift confirmed over two sweeps with failures in between | a change is reported once it is stable, and never invented |
| Human login (`human_auth.py`) | users, codes, sessions | issue and verify codes, log in, lock, set a password | counters read and written without a lock | attempts and issued codes stay within their limits |
| Policy evaluation (server and SDK) | none | first match, tiers, packs | two implementations of one composition | the same verdict online and offline |

Every part, also those left out, is in `PROJECT.json` under `components`; what is
hard to test is under `hazards`, each at its line.

The parts meet in the database. Every write request runs in one transaction and
calls `record_event` for its evidence: the gate and its approvals, consent
events, erasures and grafted offline records all extend the chains, and fail
together with their own rows when the append fails. The SDK talks to the server
over HTTP only.

## Modules

| Module | Models |
|---|---|
| `Ledger` | abstract: entries only grow, each trace has one organisation and the numbers 1..n once each |
| `EventChain` | the append path and erasure, statement by statement, for concurrent requests; implements `Ledger` |
| `GateFlow` | decisions, their index, approvals, remediation, the work queue and the workflow gate on one trace |
| `ConsentAccess` | one consent request: filing, M-of-N approval, denial, revocation, reads and the consent trail |
| `OfflineSdk` | the SDK's encrypted queue, chain head and drain, with the server's segment check |
| `FlushBuffer` | the SDK's background queue, its worker, `flush` and `close` |
| `Merkle`, `Batching` | trees and inclusion proofs; sealing, anchoring and exporting by overlapping jobs (extends `Merkle`) |
| `OrgProfile` | profile, reductions on request, mandatory packs, subscriptions |
| `PolicyDocs` | versions of the policy document and which one is in force |
| `BuiltinRules`, `PolicyEval` | the rulebooks the repository ships; the verdict of server and SDK, plan, rewriting and unattended cure |
| `RegWatch`, `WatchSchedule` | one watched page and its pack; which pages a sweep visits |
| `HumanAuth` | codes, passwords, lockout and sessions of one user |
| `EventChainProofs`, `EventChainPayloadProofs` | theorems about `EventChain`: types, chains, refinement of `Ledger`; payloads, erasure and outputs |
| `GateFlowProofs`, `ConsentAccessProofs`, `HumanAuthProofs` | theorems about `GateFlow`, `ConsentAccess`, `HumanAuth` |
| `SdkProofs` | theorems about `FlushBuffer` and `OfflineSdk` |
| `BatchingProofs` | theorems about `Merkle` and `Batching` |
| `PolicyProofs` | theorems about `PolicyDocs`, `OrgProfile`, `PolicyEval` and `RegWatch` |
| `MCEventChain`, `MCGateFlow`, `MCRegWatch`, `MCPolicyEval` | instances for TLC |
| `MCOverlaps` | `GateFlow`, `HumanAuth` and `OrgProfile` side by side, and two bounds of `HumanAuth` that need `choose` of the community modules |
| `MCParts` | the components that share no state with any of these, side by side |

A definition whose comment begins with "Mutant" is no part of the model. It is a
plausible bug in the definition after it, and `PROJECT.json` names under `mutants`
the property that the bug breaks.

### EventChain

A worker serves one request in one transaction. The committed tables are `owner`
(traces), `events`, `store` (payloads with their keys) and `keys` (signing keys);
`rows` and `tx` hold what a transaction wrote and did not commit; `pc`, `job` and
`prev` are the request's place in the code and its local variables.

A step is one SQL statement, or several that no other commit can tell apart.
READ COMMITTED is modelled as it works: a SELECT sees the committed tables and
the transaction's own rows; an INSERT that meets an uncommitted row with the same
key waits (`WaitsFor`), then fails or goes through as the other transaction ends;
a cycle of waiters loses a member (`DeadlockVictim`). An integrity error is
caught by no handler, so it rolls back like the others; response codes are not
modelled.

- `FindTrace`, `CreateTrace`: `get_or_create_trace`. `ReadNextSeq`: `_next_seq`.
  `ReadTip`: the sequence check of `record_event`. `ReadKeyAndPayload`:
  `sign_event_for_org` and the lookup of `store_encrypted_payload`.
  `InsertPayload`, `InsertEvent`: the two INSERTs.
- `PostEvent` (caller's `seq`), `PostGate` and `PostReplay` (one or several
  `run_gate` calls in one transaction), `PostErasure` with `FindTarget` and
  `Shred`, `ProvisionKey`. The other appenders of the API (precheck, approvals,
  consent events) have the shape of one of these: one or two appends at a
  server-chosen number in one transaction.
- `Crash` ends a request anywhere: a killed process, a lost connection, a signing
  key that cannot be read (503).

Hashing and signatures are perfect. The type, time, policy version and algorithm
in an envelope travel with the content, since nothing here tells them apart.
Erasing the payload of an erasure event is left out (a bound on `Contents`,
`NotesAssumption`).

### GateFlow

One trace, several requests at a time. `chain` is the committed chain, `index` and
`approvals` are the tables `policy_decision_summaries` and `approvals`, `pc` and
`req` the requests under way.

A request reads first and writes at the end, and its writes are one step
(`JudgeGate`, `JudgeReplay`, `Precheck`, `Resolve`). `EventChain` justifies this:
the rows of a request are committed together at consecutive numbers or not at all,
so what others can do between its reads and its writes is to commit first; then
its number is stale and the append fails (`Refuse`). The row lock a resolver takes
before it reads its number is a step of its own (`LockApproval`).

- A ruling (policy tier, allowed or not, strictest tier of the packs' findings) is
  an arbitrary member of `Rulings`. An engine error may strike any judgement, under
  either fail mode, since an organisation can change its mode: `Waved` is
  `allow_with_flag`, `FailClosed` is `deny_on_error`.
- `StartGate` validates `remediates=` and reads the number; `Close` is the rule
  that only a compliant decision cures.
- `created_at` of an approval is the start time of its transaction
  (`server_default=now()`), so `began` keeps the order in which transactions began,
  of those that still run and those that made approvals. Two approvals of one
  replay have the same time.
- `Listings` are the answers `ORDER BY created_at DESC LIMIT` may give;
  `MayProceed` says whether `workflow_gate` may answer "proceed". `Limit` stands for
  the 20 of the code.

- `OpenFlags`, `PendingApprovals` and `FlaggedDecisions` are what the work queue and
  the dashboard read. The queue joins an approval with the latest decision of its
  trace, although its docstring speaks of "the decision that raised it"; flags of a
  precheck are never listed.

Left out: who may resolve; the drafting of fixes; events that clients post with
type `policy_decision` through `/v1/event` (the type is free text), and erased
decision payloads. Every red decision of the pipeline has an approval
(`HighRiskIsAsked`), so the answer `blocked_not_allowed` needs such a posted event.

### ConsentAccess

As in `EventChain` a worker serves one call in one transaction and a step is one
SQL statement. `request`, `approvals`, `released`, `trail` are the committed rows;
`tx` is what a transaction wrote; `job` is what the call has read: the status it
saw, the approvals it counted, the number it is to append at. An UPDATE locks its
row, and so does the `SELECT ... FOR UPDATE` on the consent trace (`LockTrace`).

Both ways of approving are modelled: the officer's client wraps the keys and posts
them (`PostApproval`), or the server releases all of them (`ServerApproval`).
Erasure of a record, expiry of a grant and crashes may come between any two steps.

An officer's client posts a key for any record of the request's scope; the server
releases those it can (`Releasable`).

`LastVerdictHolds` compares the status with the last event that decides it: a denial,
a revocation, or an approval that says "approved". The other approval events repeat
the status of the copy their request had loaded, so they may say "pending" after a
denial was committed; `consent_trail` shows it. Two officers that approve at the same
moment and release different keys, or one of them none, wait for nothing: each counts
its own row only (`access_review.py:148`, `:284`), and the request stays pending with
its quorum (`QuorumApproves`, under Further disagreements).

A read that is under way when the grant is revoked may be recorded after the
revocation. `attest_sdk/consent.py:172` promises only that new reads stop, so
`ReadsWithinGrant` asks for the approval and the release.
Requests older than the trail (without a trace) are left out.

### OfflineSdk and FlushBuffer

`OfflineSdk` takes file operations and HTTP requests as steps. `lines` is
`buffer.jsonl`, `head` is `chain.json`, `made` the signed records, `accepted` what
the server took. A write may be torn, a process may die anywhere, a reply may be
lost after the server committed. A torn `chain.json` is repaired from the queue as
long as the queue holds a record, and raises once it is drained. A reply of 422 is
handled like an outage, so a record the server refuses stays at the head of the
queue and stops every drain (`attest.py:171`, `:367`): `EventuallyHandedOver`
excludes it. In `parts` there is one client. With two that share the state directory,
as all processes of a user do by default, `LeavesOnlyAccepted` fails: the file is
rewritten from a copy read earlier, and a record appended meanwhile is gone unsent. A
record appended to a torn line is unreadable and does not count as queued.

`FlushBuffer` takes calls of `queue.Queue` as steps. `close` puts a sentinel; a
concurrent `flush` may take it, and then only the join's timeout ends the wait. `put`
waits while the queue is full, against the first line of `buffer.py`
(`HotPathNeverBlocks`).

### Merkle and Batching

Hashes are free terms, so a root determines its leaves and their order up to the
duplicated last node. `Level` is the levels of the tree from the leaves up, `Height`
the first with a single node; `Path` is where an index stands at each height, and
`MerkleProof` takes the sibling there. `Climb` is the loop of the verifier. `Batching`
runs two jobs of `seal_and_anchor.py` that nothing keeps apart, and an export that
reads events and batches in two statements. Two sealers may both list an event; it
then moves from the earlier batch to the later one, which may not be anchored yet, and
is anchored in the end.

### OrgProfile and PolicyDocs

`OrgProfile` splits a save where the code does. `SaveRead` loads the row, and then
`FileRequest` files a reduction, or `SaveApply` takes the row's lock by its UPDATE and
finds out which packs to add and to drop (`Plans`); `SaveWrite` is the commit, which
writes the columns that differ from the row as read. `Approve` does the same for a
request as it was filed (`org_profile.py:209`), also when the profile has grown since.
`ReconcileOrg`, `ReconcileRead`, `ReconcileWrite` are Attest's button, which takes no
lock at all. Saves, decisions, reconciliations and new packs overlap; two decisions on
one request do not.

Every version of a pack has its own places and fields, and `PublishPack` may also
refresh one in place; `PackApplies` looks at each version, as `mandatory_packs` does,
so a code is mandatory when any version of it applies. `Plans` keeps one subscription
per code, as the dictionary of the code does, so of two subscribed versions only one
is deleted (`org_profile.py:106`).

`derived` and `followed` are history variables: what the subscriptions last followed,
and whether a pack was published or subscribed since. A request that writes a plan
which another commit has made wrong has followed no profile, and leaves them empty.
`ReconcileFollows` is what the code achieves in all other cases, whatever overlaps.
What it promises, that rulebooks always equal the profile and that nothing is shed
unilaterally, fails (`RulebooksEqualProfile`, `NothingShedUnilaterally`, under Further
disagreements).

`PolicyDocs` is `upsert_policy` and `get_active_policy`; `asked` is a history
variable.

### PolicyEval

A policy, the packs and an output as a set of traits (a prohibited phrase, personal
data, a transfer abroad, ...) give the server's verdict, the SDK's with a fresh
bundle, and the answer of the local precheck. Rulebooks are the ones the
repository ships (`BuiltinRules`); an organisation's own policy has up to two
rules.

Each side has detectors of its own (`HasPii`, `LayerTiers`, `PlainMatch` take the
side): the server's telephone pattern accepts spaces and dashes
(`app/services/pii.py:15`), the SDK's does not (`attest_sdk/policy/pii.py:12`); hence
the trait `spaced_phone`. The documented field `classifier` is read by the server
only. `SeenAlike` says that an output has neither; for such outputs
`LocalAllowIsServerAllow` holds, and without the restriction an output may be orange
or red on the server and answered locally (`OrangeRedEscalates`). Both compare under one policy: the case that the SDK could not fetch it at first and
keeps its bundled subset of the default policy for the life of the client
(`attest.py:454-470`) is left out.

Plan, edits and drafts are modelled by the traits they remove. The trait `phrase` is
a phrase the softener rewrites ("guaranteed" or "risk-free", in lower case, in the
fields `output`, `summary` or `prompt`); `hard_phrase` is any other. The client calls
a cure complete when the plan leaves nothing unresolved, but the plan does not look
at what a high amount or the organisation's own policy flagged, and takes every phrase
for curable; the run `cure` finds a cure that is flagged again.

### RegWatch and WatchSchedule

`RegWatch` follows one page and the pack that cites it. A text of the model is the
part of the page the code confirms against, the first 200,000 characters
(`reg_watch.py:746`); a citation of what follows is never confirmed. A transaction
writes the columns that differ from the row it loaded before the fetch, and
`created_at` of a version is the start of its transaction, so a slow sweep may publish
a version that is not the latest. Two sweeps that overlap may confirm a drift that the
last of them did not see (`DriftSeenTwice` fails with two sweepers, the second of
which read its row before the first recorded what it saw). `ground_claims` is called
by nothing and left out; the three runs of Gate 3 call a pure function.

`WatchSchedule` keeps the order in which sources are due. A sweep that raises is
rolled back by the script, its bookings too; the comment at
`reg_watch.py:516-519` says that such a source stays scheduled.

### HumanAuth

Codes, attempts, lockout, passwords and sessions of one user, whose requests several
server threads (`Desks`) serve at the same time. A request reads rows and later
writes values computed from them: the counters of a code and of failed logins, the
voiding of older codes and the revocation of other sessions (an UPDATE that picks
the rows committed so far), and the rehashed password of a login.

Every limit the module's docstring states holds for one thread and fails for two
(run `guesses`; `OneOpenCode`, `CodesSingleUse`, `FailuresLock`, `SessionsCurrent`
under Further disagreements). What holds for n
threads is a budget: `OpenPerDesk` (n open codes), `IssueBudget` (n - 1 codes beyond
the cap), and, because an increment may be shared again and again by threads that
read ever older counts, `GuessBudget` and `LockoutBudget` with fewer than
C(limit + n, n) comparisons and C(limit - 1 + n, n) failures. For one thread they are
the documented limits.

### MCOverlaps and MCParts

Components that share no state are put side by side: `part` says which one runs, the
others stay as they start. The state graph is the union of the components' graphs.
`MCOverlaps` is for safety and uses symmetry; in `MCParts` the fairness of each
component is asserted when it runs.

## Runs

| Run | Instance | Checks |
|---|---|---|
| `chain` | 2 workers, 1 organisation, 2 traces, 2 events per trace, 1 rotation | `TypeOK`, `SeqsContiguous`, `OutputFollowsDecision`, `ReplayVerifies` |
| `erasure` | 2 workers, 2 organisations, 1 trace of up to 3 events, fair | `ErasureEvidenced`, `ErasureIsForever`, `EveryRequestEnds`, `ImplementsLedger` |
| `consent` | 2 workers, 2 approvers, 1 record, a trail of 4 events, fair | `ApprovedByQuorum`, `ReadsWithinGrant`, `LastVerdictHolds`, `LockedAppendsNeverCollide`, `RequestsEnd` |
| `overlaps` | see below | 10 properties of `GateFlow`, `HumanAuth`, `OrgProfile` |
| `parts` | see below | 16 properties of the other components |
| `double_erasure` | 2 workers, 1 trace | finds `ErasedOnce` violated |
| `red_blocks` | 2 workers, 2 decisions | finds `RedBlocksUntilApproved` violated |
| `denied` | as `consent` | finds `DeniedStaysDenied` violated |
| `promoted` | `RegWatch` as in `parts` | finds `AttestedNeverPromoted` violated |
| `cure` | `PolicyEval` as in `parts` | finds `CureComplete` violated |
| `guesses` | 2 threads, 2 attempts | finds `GuessesBounded` violated |
| `consent_trail` | as `consent` | finds `StateMatchesTrail` violated |

`overlaps`, by part:

| Part | Instance | Checks |
|---|---|---|
| `requests`, `gates` of `GateFlow` | 2 workers; requests of every kind with 2 decisions and 5 events, or gate calls with 3 decisions and 6 events | `IndexMatchesChain`, `HighRiskIsAsked`, `ResolutionEvidenced`, `CureIsReal`, `QueueTellsChain` |
| `codes` of `HumanAuth` | 2 threads, cap of 2 codes, up to 4 codes, right guesses | `OpenPerDesk`, `IssueBudget` |
| `guesses` | 1 code of 2 attempts | `GuessBudget` |
| `passwords` | 1 code, lockout after 3, 2 passwords | `LockoutBudget` |
| `profiles` of `OrgProfile` | 2 savers, 2 profiles, 2 packs, 3 documents, 2 versions, 1 request | `ReconcileFollows` |

`parts`, by component:

| Component | Instance | Checks |
|---|---|---|
| `OfflineSdk` | 1 client, 3 records, batches of 2, 2 faults | `QueueLinked`, `LeavesOnlyAccepted`, `EventuallyHandedOver` |
| `FlushBuffer` | 2 callers, the worker, 3 items, capacity 2 | `PostedOnce`, `CloseDrains`, `CloseReturns` |
| `Merkle` | 1 to 9 leaves | `ProofsVerifyExactly` |
| `Batching` | 2 jobs, 2 events, 1 fault | `SealedEventsProven`, `EventuallyAnchored` |
| `RegWatch` | 1 sweeper, 1 person, 2 texts, 2 page changes, 1 failure | `DriftSeenTwice`, `PageRecorded`, `CitationConfirmed` |
| `WatchSchedule` | 2 runners, 3 URLs, cap 1, 2 corrections, 1 crash | `EverySourceChecked` |
| `PolicyDocs` | 3 versions | `SomeDocumentInForce` |
| `PolicyEval` | up to 2 own rules of 3 or the default policy, up to 1 of the 7 packs, up to 3 of 14 traits | `OnlyOwnPolicyBlocks`, `LocalAllowIsServerAllow` |

Why the bounds are enough. All conflicts in `EventChain` are between two
transactions over one key (a trace id, a payload, a slot), and a cycle of waiters
needs two; two traces are the least for transactions that take two chains in
opposite orders. Two events per trace allow a decision with its output and the
race for either slot; three allow output, erasure and the retry of an erasure that
lost its slot, or a re-recording. One rotation gives a trace two keys. The theorems
below do not depend on any of these numbers.

In `GateFlow` two decisions suffice for two approvals in either order, one replay,
and a decision with one attempt to cure it; racing cures need three decisions with
their outputs. `overlaps` has both: two decisions and five events with requests of every
kind, and three decisions with gate calls only.

In `ConsentAccess` four events hold a filing, both approvals, and a resolution or a
read; a request for two approvals needs two officers. In `OfflineSdk` three records
make two batches, of which the second can fail, and two faults allow a torn line after
a crash. Nine leaves give a tree with odd levels at every height up to the third. Two
threads in `HumanAuth` are enough for every overlap of two requests, and the values
reach the budgets: two open codes and three in a window with a cap of two, five
comparisons of a code that allows two, and five failures before a lock that is due
after three. In `OrgProfile` two savers overlap, of two profiles one contains the
other, so that saving grows or reduces, and two versions make an overlooked one. A cap of one makes every sweep of `WatchSchedule` leave
sources behind.

Symmetry (workers, organisations, traces) is used in safety runs only; the threads
that serve gate calls, logins and saves in `overlaps` are the same. Deadlock checking
is off where a component rests once its bounds are used up (`consent`, `overlaps`,
`parts` and the runs that look for a violation); in the others clients can always send another request.

### Fairness

- `EventChain`, `ConsentAccess`: strong fairness of every worker's step. The server
  runs an accepted request to its end, PostgreSQL queues the waiters of a lock in
  order and detects deadlocks, so a worker that can go on again and again does go
  on. Nothing is assumed of clients, of key rotation or of expiry.
- `OfflineSdk`, `FlushBuffer`: weak fairness of a client's or a thread's next step.
  `EventuallyHandedOver` needs the application to call `gate` again: the SDK drains
  in such calls.
- `Batching`, `RegWatch`, `WatchSchedule`: weak fairness of the jobs, which a
  scheduler starts again and again; of a person only the end of a request that was
  sent. In `WatchSchedule` only the scheduled job is fair, not the operator's button.

### Findings

- `double_erasure`: `erase_event_payload` checks `erased_at` without a lock, and
  deleting a key that is already gone is no error, so two erasures that overlap both
  succeed; the test expects 409 for the second.
- `red_blocks`: the workflow gate goes by the newest approval, and newest means "its
  transaction began last". A request that began early and recorded the latest, red
  decision is outranked by an approval granted for an earlier one; two approvals of
  one replay are ordered arbitrarily. The gate then answers "proceed" although the
  red decision was denied.
- `denied`: an approval that loaded the request before it was denied writes
  "approved" without looking again (`access_review.py:152`), while
  `attest_sdk/consent.py:168` says that no key is ever released after `deny`.
- `consent_trail`: an approval event says "pending" after the denial
  (`access_review.py:298`), against `consent_events.py:13-15`.
- `promoted`: `_publish_confirmations` carries attested citations over into a version
  it calls source-verified (`reg_watch.py:886`), against `reg_watch.py:88`.
- `cure`: a revision that leaves a prohibited phrase, a high amount or a flag of the
  organisation's own policy counts as complete, against `attest_sdk/attest.py:272`
  ("only when it cures EVERYTHING").
- `guesses`: two guesses that read one count share an increment, so a code is compared
  more often than `MAX_ATTEMPTS`, against `human_auth.py:33`.

### Further disagreements

These formulas, each next to the properties of its module, say what a line of the
repository says and fail of the code in the same way. TLC shows each when the module is
run with its own specification, the constants of the table above and the formula as
the only property; they are kept for whoever repairs the code.

| Formula | Instance | What happens | Against |
|---|---|---|---|
| `EventChain!BundleVerifies` | `chain`, 1 worker | `services/evidence.py` exports the service's public key only and drops `signing_key_id`, so the events of an organisation with a key of its own fail the standalone verifier, while replay accepts them | `bundle/VERIFY_README.txt:40` |
| `ConsentAccess!QuorumApproves` | `consent` | two approvals at once leave the request pending with quorum and keys | `access_review.py:241` |
| `HumanAuth!OneOpenCode` | `codes` | two requests for a code overlap, neither voids the other's | `human_auth.py:34` |
| `HumanAuth!CodesSingleUse` | `passwords` | two right guesses read the code before either uses it up, and both get a session | `human_auth.py:32` |
| `HumanAuth!FailuresLock` | `passwords` | failed logins that overlap share an increment | `human_auth.py:19` |
| `HumanAuth!SessionsCurrent` | `passwords` | a login checked against the old password ends after the change, and its session lives on; with a rehash even the old password comes back (`:324`) | `human_auth.py:27` |
| `OrgProfile!RulebooksEqualProfile` | `profiles` | a reconciliation writes what an earlier profile derives, or overlooks a version | `org_profile.py:90`, `:137` |
| `OrgProfile!NothingShedUnilaterally` | `profiles` with a third profile, ADGM and financial | an approved request applies the profile as filed and drops what was added since (`:209`) | `org_profile.py:99` |
| `PolicyEval!SameVerdictOffline` | `PolicyEval` in `parts` | without a matching rule the SDK denies what its layers call red (`attest_sdk/policy/evaluator.py:54`), the server flags and allows | `attest_sdk/offline.py:5` |
| `PolicyEval!OrangeRedEscalates` | `PolicyEval` in `parts` | the SDK knows telephone numbers without separators only and does not read `classifier`, and answers locally | `attest_sdk/attest.py:487` |
| `PolicyDocs!ActivatedIsEnforced` | `PolicyDocs` in `parts` | storing an older version again with `activate` leaves the newer one active, which wins (`repositories/policies.py:40`) | `api/policies.py:74` |
| `FlushBuffer!HotPathNeverBlocks` | `FlushBuffer` in `parts` | `enqueue` waits while the queue is full | `buffer.py:1` |
| `OfflineSdk!LeavesOnlyAccepted` | `OfflineSdk` in `parts`, 2 clients | one client rewrites the queue file while another appends | `store.py:13` |

## Proofs

All theorems hold for every value of the constants that satisfies the named
assumption of the module: any number of workers, traces, officers, events.

`EventChain`, from `ChainAssumption` (`None` is no organisation, `Decision` is no
caller's payload, the bounds are naturals) and `NotesAssumption` (the payload of an
erasure event is not itself erased):

- `TypeCorrect`: `Spec => []TypeOK`. The types alone are not inductive:
  `TypeInv` adds `RequestInv`, what a request holds between its statements (a
  call left to make, a content to store, a valid number once past the check).
- `Invariance`: `Spec => []IInv`, with `IInv` the conjunction of `TypeInv` and
  - `DigestInv`: every row, also uncommitted ones, is hashed and signed properly;
  - `SlotInv`: a slot (trace, seq) has one holder among the table and all open
    transactions, which is what the unique constraint and the waiting give;
  - `LinkInv`: each row rests on all the smaller slots of its trace and carries
    the hash of the row just before it, as far as its transaction can see;
  - `OwnerInv`: who may write to which trace;
  - `CallInv`: a request past its sequence check still has the right
    predecessor. Its slot may be taken meanwhile (then the insert fails), but the
    rows before it cannot change. This is the fact that makes reading `prev_hash`
    long before the insert safe, and the reason `IInv` is needed:
    `ReplayVerifies` says nothing of transactions that are under way.
- `ChainVerifies`: `Spec => []ReplayVerifies`; `TenantsIsolated`:
  `Spec => []TenantIsolation`; `ChainContiguous`: `Spec => []SeqsContiguous`, since the
  numbers of a trace are exactly its slots; `Refinement`: `Spec => ImplementsLedger`,
  by mapping a commit to `Ledger!Extend` and every other step to a stutter.
- `ErasuresEvidenced`, `ErasuresFinal`: `Spec => []ErasureEvidenced` and
  `Spec => ErasureIsForever`. `EraseInv` says what a transaction may do with
  payloads: what it stored is absent from the table and nobody else's; what it
  shreds is present; and it shreds exactly what its erasure events, written or still
  to be written, name.
- `DecisionsAnswered`: `Spec => []OutputFollowsDecision`. In `OutputInv` a decision
  is followed by its output, or it is the last of its trace in its transaction, and
  the output is the next call of that request. `LinkInv` and `SlotInv` keep others
  out of the slot in between.

`GateFlow`, from `GateAssumption` (rulings are well formed, bounds are naturals):

- `ResolutionsEvidenced`, `CuresAreReal`, `IndexFaithful`, `HighRiskAsked`,
  `QueueFaithful`: the properties of `GateFlow` in the run `overlaps`; `TypeCorrect`.
- Their inductive invariant is `Sound(chain, index, approvals)` with `RequestInv`.
  `Sound` adds to the properties that no event refers to a later one (so that a
  new decision starts without cures and its approval without resolutions) and that
  rows and approvals are unique per decision. `RequestInv` says that what a request
  refers to is still there when it writes: the approval a resolver read, and the
  flagged row `_validate_remediates` found long before the gate closes it.
- `Sound` is an operator on a chain, an index and approvals, so that one lemma
  (`DecisionSound`) serves the gate, the precheck and, applied twice, the replay.

`ConsentAccess`, from `ConsentAssumption` (finitely many officers, `None` is none of
the values):

- `QuorumEvidenced`, `ReadsGranted`, `TrailFaithful` (`LastVerdictHolds`),
  `AppendsNeverCollide`: the
  safety properties of the run `consent`; `TypeCorrect`.
- `IInv` adds to them `WorkersOK` (what a call under way has seen and counted is in
  the trail, or in its own transaction), `HolderInv` (one call at a time holds the
  trace, and its number is the next) and `TrailOK` (every committed approval and
  released key has its event). A count taken early is safe because approvals are
  never withdrawn; a status seen early is not, which is what `denied` shows.

`PolicyDocs` and `OrgProfile`, in `PolicyProofs`, from `VersionsAssumption` and
`ProfileAssumption`:

- `DocumentInForce`: `DocsSpec => []SomeDocumentInForce`, because the version
  activated last has an active row (`AskedIsActive`).
- `DerivedPacksStay`: `ProfileSpec => []ReconcileFollows`, with no hypothesis on
  overlap. `PlanApplies` is about one plan that still stands when it is written: what
  the profile derives is subscribed then, and a code left beyond it had two versions
  subscribed, of which one is deleted. Publishing and subscribing only add codes or
  refresh versions. `PlansExist` says that plans under way add codes of the table.

`PolicyEval`, in `PolicyProofs`, from `EvalAssumption` (own rules are rules, traits
are traits): `PolicyAloneBlocks` and `LocalAllowsSafely` are the two invariants of
the run, for policies of any length and any subset of the
rulebooks. Their core is `BestHitExists`: among the rules that match there is one
before all others (of those with the highest priority the first), so
`FirstMatchingRule` is defined.

`RegWatch`, in `PolicyProofs`, from `WatchAssumption`: `DriftConfirmed`,
`WatchSpec /\ []OneSweepAtATime => DriftSeenTwice`. In `WatchInv` what is pending,
in the table and in the row that a sweep has read, is what the last sweep saw
(`PendingSeen`), and the table still has what the sweep read or nothing
(`PendingKept`): a person who supplies a text meanwhile drops what is pending and
never sets it. The second part is what makes it right to write back only the
columns that changed.

`FlushBuffer`, in `SdkProofs`, from `BufferAssumption`: `ItemsPostedOnce` and
`CloseLeavesNothing`, for any number of callers and items and any capacity. `BufInv`
says that an item is in one place (queue, hand of a thread, call that puts it, done)
and there once, and that every sentinel is behind what was queued before the first
one (`SentinelBehind`), also when a `flush` takes a sentinel.

`OfflineSdk`, in `SdkProofs`, from `SdkAssumption`: `QueueStaysLinked` and
`TakenBeforeDropped`, both under `[]OneClientAtATime`. `LinesLinked` says that each
readable line continues the readable one before it, `ClaimNext` that a claim not yet
written continues the last, and `DrainBehind` that what a drain has read stands at
its place of the file or further on: the number of records the server took is also
the number of lines dropped, and a torn line, which takes up one of these, makes a
drain drop fewer records than were posted, never more.

`HumanAuth`, in `HumanAuthProofs`, from `AuthAssumption`: `CodesVoided`,
`AuthSpec => []OpenPerDesk`, and `IssuesLimited`, `AuthSpec => []IssueBudget`, for any
number of threads whose requests overlap in any way. `OpenHeld` charges each open
code to a thread of its own: a thread that is about to insert will void all the open
codes charged to it. `IssueCounted` counts the codes of the window together with the
requests that have passed the cap and not yet inserted: the thread that passes it
finds fewer codes than the cap, and at most one such request on each other thread.

`Merkle`, in `BatchingProofs`, from no assumption but `MerkleAssumption`:
`ProofsExact`, `MerkleSpec => []ProofsVerifyExactly`, for any number of leaves.
`ProofVerifies` is the direction up: if at height k the verifier holds the node of
the path, it holds the parent at k + 1. `ProofBinds` is the direction down: digests
of different pairs differ, so from the root two climbs with one proof agree at every
height, in the node and, because the side is part of the index, in the index; the
duplicated last node makes no exception, since its copy has no index in the tree.
The recursive functions are made usable by `PathEq`, `LevelEq` and `ClimbEq`
(each satisfies its defining equation), and induction over the height is the
argument of the smallest counterexample (`UpTo`).

`Batching`, in `BatchingProofs`, from `BatchingAssumption`: `BundleProven`,
`BatchSpec => SealedEventsProven`, for any number of events and of jobs, all of which
may overlap. In `BatchInv` an event that has a batch is listed in it (`Contained`),
whichever sealer came last, a batch has the root of its list, and what an export has
seen sealed stays sealed; `ProofVerifies` does the rest. `OldestFirstLists` says
that a list in the order of `created_at` holds exactly events of the set.

Hypotheses on overlap. `OneClientAtATime` and `OneSweepAtATime` say that the calls of
the clients on one state directory, and the sweeps of the watcher, do not overlap. The
code enforces neither. With two clients `LeavesOnlyAccepted` is violated (Further
disagreements); with a second sweeper in the instance of `parts`, `DriftSeenTwice`
is. Hence the theorems name the hypothesis; they leave everything else free: faults,
other actors, the sizes. In the runs of `parts` one client and one sweeper make it
true.

What the provers needed of the model: no recursive operators, hence lists in an
order are given by rank (`OldestFirst`, `ReadAll`) and the first matching rule by
what it comes before, not by sorting.

Every invariant and every action property that a run shows to hold is proved, but for
`GuessBudget` and `LockoutBudget`, whose bounds are binomial coefficients: an argument
by induction over the threads. Model-checked only are these two and liveness
(`EveryRequestEnds`, `RequestsEnd`, `EventuallyHandedOver`, `CloseReturns`,
`EventuallyAnchored`, `PageRecorded`, `CitationConfirmed`, `EverySourceChecked`),
which is out of the prover's reach.

## Not modelled

- Rate limiter: a sliding window in the memory of one event loop, without an `await`
  between its reads and writes; nothing interleaves.
- Organisations, the admin API's single-row operations and request wiring; response
  codes. (A gate call that loses a race fails on the insert, so it answers 500 and
  not 409, `api/gate.py:62`; the model only sees the rollback.)
- Cryptographic primitives, which are taken as perfect; wrapping of keys; parsing of
  RFC 3161 tokens; password hashing and mail.
- Two key rotations at the same moment; malformed rule documents; normalisation of
  fetched pages and pacing of requests; the texts of drafts; `POST /v1/mitigations`,
  an append like any other.
- Onboarding checklist, trace list and paging: they only read.
- Dashboard, static pages, migrations and demonstration scripts.

## Plan

What could come next, most useful first:

1. A property that separates the limit of 20 approvals in the workflow gate
   (`workflow.py:30`) from the order, which alone violates `RedBlocksUntilApproved`.
2. What the code would have to lock for the documented limits to hold (a row lock in
   `verify_code`, `request_code` and `login_password`; a version of the profile's row),
   as a variant of the guards and a proof that they then do.
3. Two rotations at once in `EventChain`; two decisions on one profile request.
4. Theorems that say more than the runs: `GuessBudget` and `LockoutBudget` for any
   number of threads, the order of the trail in `ConsentAccess`.
