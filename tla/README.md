# MultiNexus in TLA+

MultiNexus connects chat platforms (Discord, KOOK) to command line coding
agents.  A *bridge* process turns an addressed chat message into a job at an
external service, *Coordinate*; an *agentd* worker process claims the job, runs
a provider (Claude, Codex, ...) for it and reports the result; the bridge waits
for the result and posts it.  This directory models the parts of the code whose
correctness depends on the order in which processes, requests, crashes and
timeouts happen, checks them with TLC on small instances, and proves the main
safety properties with TLAPS for all values of the constants.

## 1. Inventory

| Component | Source | State it keeps | Operations | What must hold |
|---|---|---|---|---|
| agentd worker loop | `multinexus/agentd/worker.py`, `__main__.py` | claim serial and key, job in hand, attempt and lease, provider task | claim, reconcile after an uncertain claim, provider call / resume / fallback, report, save, recovery start, exit | an answer lost by the network strands no job and runs none twice; one provider per job; a stale report changes nothing; the session is saved only for a recorded success |
| renewal supervisor | `worker.py:962-1055`, `execution_lease.py` | local deadline, lease | wake, renew with retries, lose, stop the provider | no provider outlives its lease |
| Coordinate client | `agentd/coordinate_client.py` | contract version, retry budget | CLI and HTTP calls, classification of failures, polling of results | bounded errors, no retry of an unsafe call |
| reply outbox | `client.py`, `kook/bot.py`, `context/store.py` | `runtime_reply_outbox` rows, one recovery task per client | submit, journal, wait, send, mark, recover | a reply is not lost, not marked before it was sent, eventually sent |
| session store, cursors | `sessions/`, `context/envelope.py`, `context/prompt.py` | session row per scope and agent, message cursor | compare-and-set upsert, cursor advance, retire, reset | a delta omits only what the session has seen, if no younger question overtook it; a retirement is final |
| message store | `context/store.py` | bounded expiring messages | record, read window, purge | order tokens identify messages |
| Discord client | `client.py`, `routing/mentions.py` | in-flight channel resolutions, message tasks | admission of messages and edits, shared resolve | a waiter of a shared resolution is never forgotten; no message is handled under a binding older than the message |
| direct path and standalone daemon | `client.py:675-793`, `agentd/server.py`, `commands.py` | session row per scope, no compare-and-set | resume, fall back, fresh call, save, reset | a dead session stays dead; a reset is final |
| KOOK bridge | `kook/` | as the Discord client, without a placeholder | admission, send, recovery | as the outbox |
| coordinator handoff | `coordinator_handoff.py`, `handoff_handler.py`, `handoff.py` | a task per message, nothing on disk | accept, bootstrap, run, respond, report | the coordinator is never left without an answer |
| desktop native execution | `agentd/desktop_execution.py`, `desktop/`, `integrations/dsh-desktop-host` | attempted jobs, progress latch, host scopes, reply endpoint | validate, latch, queue, acknowledge, observe, report | at most one native enqueue per job, traceable, under a lease; done means replied |
| binding, context, lease validation | `agentd/executor_binding.py`, `execution_context.py`, `execution_lease.py` | none | pure checks of a claim's answer | a provider runs only where one lease, one job and one tree agree |
| registry authority | `registry_authority.py` | none | load, project, compare | a pass means that the two files say the same |
| provider adapters | `adapters/` | subprocesses; for ZCode private contexts on disk and a protocol client | call, resume, event streams, stop | one native process per context as long as processes can be stopped, the credential only under a claim, one story per success |
| washer | `washer.py`, `persistence/db.py` | watermark per table | fetch, extract, advance, against save, archive, clear | nothing skipped |
| legacy code, setup, configuration | `routing/`, `agents/`, `services/`, `utils/`, `config.py`, ... | little | parsing, presentation | not concurrent |

**Interactions.**  Bridge and worker never talk directly: Coordinate's database
is between them, reached by a CLI subprocess or by HTTP.  A request that times
out at the caller may still be carried out.  Both keep local SQLite files: the
bridge messages and outbox rows, the worker session rows.  Within a bridge all
is one asyncio loop, so the interleavings are those at the awaits; between
processes they are those of single SQLite statements and Coordinate calls.

**What is hard.**  Uncertain claims and their retries; a job that changes
hands while its provider runs; late reports; local deadlines derived from an
answer of unknown age; recovery tasks that act on a snapshot; sends that succeed
without the row being marked; answers whose parts belong to different attempts; a
desktop that neither cancels nor deduplicates; servers that repeat or contradict
themselves; crash at every await.  `PROJECT.json` lists the
hazards with their lines and the properties that cover them.

## 2. Modules

| Module | Stands for |
|---|---|
| `AttemptLedger` | what the worker promises: attempts of a job start at most once, one at a time, and a job is done by a success of its current attempt |
| `AgentdWorker` | worker processes, the network of claim and report requests, and Coordinate's view of jobs |
| `LeaseRenewal` | one attempt's renewal supervisor against a clock |
| `ReplyDelivery` | bridge clients, their outbox, live handlers and recovery tasks |
| `SessionRow` | the session store's row and what one transaction makes of it |
| `SessionContext` | message store, envelopes, and the attempts of overlapping workers on one session row |
| `DirectSession` | the session of one channel in the modes without Coordinate, in the bridge and in the daemon |
| `ChannelAdmission` | what the clients of one bridge make of an event: gates, shared resolution, outcome |
| `CoordinatorHandoff` | handoffs of the coordinator from the gates to the reports |
| `ClaimValidation` | how a worker reads the answer to a claim |
| `NativeDelivery` | what the hand over of a job to a desktop promises to a reader of Coordinate: delivered at most once and not before it is announced, done once answered, with one text |
| `DesktopNative` | a job handed to a native desktop session, with its reply endpoint; implements `NativeDelivery` |
| `ZCodeContext`, `ZCodeTurn` | the private contexts of the ZCode transport; one invocation of its app server |
| `RegistryAuthority` | the comparison of the public registry with the private runtime configuration |
| `Washer` | the nightly extraction with its watermarks |
| `AgentdWorker_proofs`, `LeaseRenewal_proofs`, `ReplyDelivery_proofs`, `SessionContext_proofs`, `Bridge_proofs`, `DesktopNative_proofs`, `Host_proofs`, `ZCode_proofs` | the theorems |
| `MCAgentdWorker`, `MCReplyDelivery`, `MCSessionContext` | symmetry sets, windows and message lengths for TLC |
| `MCBridge`, `MCHost` | suites: `MCBridge` holds `DirectSession`, `ChannelAdmission` and `CoordinatorHandoff`, `MCHost` the other six |

The members of a suite share no state and no call, so the suite does not
interleave them: its initial state picks the member that moves, and the others
stay in one initial state.  A suite is what its members are, checked in one run.

### AgentdWorker

`pc[p]` is where a process is in `run` / `_process_job`: `off`, `idle` (loop
head), `claiming`, `answered`, `check` (validations of the claim), `running`,
`reporting`, `reported`.  `serial[p]` is the number in its claim key: `run`
keeps it after an uncertain claim and increments it after an answer.  `cur[p]`
is the claim in hand.  Coordinate's part (`jobStatus`, `attempt`, `keyClaim`,
...) is external and modelled from how the worker uses it: it replays a claim
recorded under the same key, grants a pending job, expires leases, fences
reports by attempt, and gives timed out jobs with a recorded session to recovery
processes only.  Requests are served at any time after they are sent, also when
the sender gave up, and answers may be lost.  `executed`, `succeeded`, `saved`,
`givenUp` and `evidence` are history: what was run, won, saved, dropped on
purpose, and which attempts left a session id.

### LeaseRenewal

Time advances by `1/Sec` second.  `LocalDeadline` is `_to_monotonic_deadline`:
what the answer says is left of the lease, less the margin, counted from the
moment the answer is read.  A renewal is up to `Attempts` tries of
`AttemptTimeout` with a `Backoff` between; a refused or failed renewal at the
deadline sets the lease as lost and the provider's process group is stopped
within `StopTime`.

### ReplyDelivery

Per job: `coordJob` (Coordinate's status), `row` (`absent`, `pending`, `sent`),
`stamp` (created_at), `live` (the handler of the request, whose client is
`by`), `shown` (how often a chunk reached the platform), `whole`.  Per client:
`ready`, `task` and `queue`, the recovery task and the rest of the snapshot it
took.  A Discord recovery is started by `on_ready` and by a handler's timeout, a
KOOK one by start-up and timeout, at most one per client.  Clients
of one process (`Bridges`) crash together.

### SessionContext

One managed channel and one agent, so one session row.  Messages are numbered
by `created_at`; `order[m]` is the rowid that the context store gave the
message, which need not follow the dates.  For a message that addresses the
agent, `Ask` builds the envelope: the window of recent messages (`Recent`), the
configuration's generation, the work directory; `upto` is the youngest rowid of that
moment.  The window is cut by the number of messages and by their length: `Fits` has
the sets of messages within `context_budget_chars`, of which the model only knows that
what fits still fits without one of its lines (`FitsAssumption`).  So a long message
that filled one window can be the reason that the next, of the same configuration,
holds an older one.  A worker's `pc[w]` is `ready`
(claimed, row read), `calling`, `saving` (before the upsert) or `advancing`
(before the cursor); `att[w]` is `_SessionAttempt` with the locals of
`_process_job`, `mem[w]` the entry of `_context_sessions`.  `SessionRow` has the
row and the SQL of the store: `Upserted`, `Advanced`, `Retired` and the
comparisons before them.  A comparison of rows compares every column; the
counter `ver` stands for those that only change with a write (`updated_at`,
`turn_count`).  `seen[s]` is what provider session `s` was given, `retired`
counts retirements, `basis` is the count that the writer of the row knew, and
`crossed` has the sessions that were sent a delta after a message whose envelope was
built when the question had already been recorded: all four are history.

The user commands that reset or archive a session, and the scopes of
legacy installations, are not in this module: a managed bridge opens no session
store (`client.py:131`) and passes no legacy scopes, so only workers write the
row.

### DirectSession

`dRow` has the rows of the canonical scope and of the legacy scope an upgraded
store may hold; `dReq[r]` is a request between two awaits: `resume` or `call`
while the provider works, with the session, scope and directory it read before.
`dSerial` picks the daemon, whose lock lets one request in (`MayBegin`), or the
bridge, which has none but has the reset command.  `Upserted` and `MarkedStale`
are the store's writes without an expected session: they hit whatever the row
holds.  `dDead`, `dReset` and `dTorn` are history: sessions whose resume failed,
sessions the operator was told are reset, and a crash between the two writes of
a save.

### ChannelAdmission

`cTask[c][e]` is the handler of event `e` in client `c`: `lookup` (it started the
Coordinate call), `waiting` (it found a future), `resolved` (woken), then one of
`handled`, `recorded`, `notified`, `dropped`, `cancelled`.  `cFuture` is
`_channel_resolve_inflight`, keyed by endpoint and event.  `Complete` removes a
future and wakes its waiters in one step, as the code does between two awaits.
`cSince[e]` is history: the bindings of the channel since `e` was first seen.

### CoordinatorHandoff

`hMsg[m]` is the handler of a message, `hCli[m]` the accept command (a process of
its own: it may record the accept after its 30 s are over), `hJob[m]` the run: a
Coordinate job in managed mode, an adapter call in direct mode.  `hTried[m]` are
the reports the handler tried to send; a send may fail.  After a crash nothing
of a handler is left, only the job may go on.

### ClaimValidation

One action, `ProcessClaim`: an answer is put together of parts Coordinate made
for some attempt, or of missing and malformed ones, and every combination is
tried.  `LeaseReads`, `BindingReads`, `ContextReads`, `ResponseReads`,
`LeaseFitsContext` and `LeaseFitsBinding` are the validators and cross-links in
the code's order; `Trusted` is the job and attempt a failure is reported for.  A job
may lack its id or its agent, whose cross-links are then not made, and two kinds of
answers raise what `_process_job` does not catch: a lease whose host or path makes no
resource, and a job that is no object (`EndsWorker`; `vEnded`).

### DesktopNative

`nRun` is `execute_native_job` of the job in hand, by the await it is at; `nJob[j]`
Coordinate's row with the progress record; `nReply` the endpoint `ActiveReply`; `nSends`
channel sends in worker threads, which survive a cancelled execution; `nCalls` queue
calls that nothing takes back, `nQueued` how often the desktop queued a job.  `progress`
is the attempt whose record Coordinate has, `evidence` the attempt whose record the
terminal report named.  What a later attempt names is `OriginalEvidence`: the record its
claim shows, or none, if the payload, the binding or the record cannot be validated.
Whole seconds: Coordinate's timestamps drop fractions, which the margin of the renewal
supervisor covers.  A crash drops the process' memory, not the calls and the scopes of
the host.

`NativeDelivery` has neither attempts nor leases nor crashes.  Its `fate` is the
job's status as a reader takes it (`Fate`: pending and running are open, failed is
rejected, timed out is uncertain), its `delivery` comes from the progress record
and the desktop's queue, its `said` is `nAsked`; a second queueing would be a value
(`repeated`) that it does not have.

### ZCodeContext and ZCodeTurn

In the first, invocations of several workers ask for contexts by session:
`zClaim` is the `.active` file, `zConfig` the files with the credential (the
configuration, the temporary file it is written to first, and one whose removal
failed), `zLocator` the session's locator, `zNative` the native processes, which survive
the worker.  Every file operation may fail, and so may the termination of the native
process: then the code closes the context all the same, and `zSurvived` has the
invocation.  In the second `tStage` is where `invoke` is while the read loop takes
one message at a time; an event carries id, sequence number, kind, turn and result, and the
server may send any of them at any time, again or in another order.  An event at or
below the snapshot of the opened session (`tFloor`) is ignored whatever it says.

### RegistryAuthority and Washer

The registry's entries and the runtime's are read one by one, of any content a
schema admits, and `Compare` is `verify_parity`.  In `Washer`, `wRow` is the rowid of
a message in each table, `wMark` the watermarks, `wPass` a pass of
`run_extraction`; beside it messages are saved, archived and cleared.  An answer of the
model that cannot be parsed is one without items, and moves the watermark as any other:
what was extracted is what the model was asked about.

## 3. Runs

| Run | Shows |
|---|---|
| `worker` | with 2 processes, 1 leased job, 2 attempts, 2 claim keys per process and one request on the wire at a time per process: `NoStrandedClaim`, `OneProviderPerJob`, `NoFreshDuplicate`, `DoneByItsOwnAttempt`, `SavedOnlyIfRecorded`, `EachAttemptRunsOnce`, and that `AttemptLedger` is implemented |
| `worker_jobs` | 1 process and 2 jobs, one without a lease, 3 keys: `NoStrandedClaim` when the process goes from job to job |
| `worker_errors` | *expected violation*: an error of the report ends the process |
| `lease` | default timing (ttl 30 s, interval 10 s, margin 5 s, HTTP budget 2 tries): `ProviderHoldsLease`, `DeadlineWithinLease` |
| `lease_cli` | *expected violation*: the CLI client's 30 s renewal |
| `replies` | 2 Discord clients in one process, 1 KOOK client, 2 requests, 1 crash: `UnseenReplyIsPending`, `KookSentIsWhole` |
| `replies_live` | 1 Discord and 1 KOOK client, batch of one row: `RepliesEventuallySent` |
| `replies_resent` | *expected violation*: a confirmed reply is sent again |
| `sessions` | 2 overlapping workers, 3 messages in any order of arrival, one of them as long as the two others, a window of 0 or of 2 messages by generation and a budget of the length of 2, 2 directories, 2 provider sessions: `CursorWasSeen`, `RetirementHolds`, `DeltaOmitsOnlySeen`, `CursorNeverBack` |
| `bridge` | the suite of the bridge: 3 direct requests, 2 directories, 3 provider sessions (`DeadNotResumed`); 2 clients of one endpoint and 2 events (`BindingNotOlderThanEvent`, `WaiterHasOwner`); 2 handoffs (`NoSilentHandoff`, `FinishedRunReports`) |
| `host` | the suite of the host: 1 answer put together of 4 attempts and 4 spellings of paths (`OneAuthority`); 1 desktop job, 2 claims, 2 texts, lease of 2 ticks out of 3 (`AtMostOneEnqueue`, `EnqueueIsTraceable`, `DoneWasReplied`, `CallsWithinLease`, and that `NativeDelivery` is implemented); 3 ZCode invocations (`OneNativePerContext`, `CredentialUnderClaim`); 2 turns, 3 event ids, 2 sequence numbers, 2 permission requests of which 1 may be decided (`SuccessIsUnambiguous`, `AllowedOnceInTurn`); 2 registry entries a file (`VerdictIsExact`); 3 messages, 2 a pass (`NothingSkipped`) |
| `direct_reset` | *expected violation*: a reset of the direct mode is undone by a request in flight |

**Bounds.**  Two attempts are enough for a job to change hands, and two keys for a retry
to meet the next claim; `MaxWire` = 1 request per process in flight still lets a late
copy overtake its retry because abandoning a request leaves it on the wire.  `MaxTime`
covers the first lease, two renewals and the expiry of the last.  In the live run the
batch limit (20 in the code) is 1 so that two rows already compete for it.  `MaxShown`
caps the count of sends; it bounds re-sends only and is 2 where re-sends matter.  In
`sessions`, `MaxUpset` = 1 allows one change of configuration or directory, expiry or
failure in a behaviour: each hazard of the row needs one, with the interleaving of three
attempts (the first makes the row, of the other two one retires it and one writes late).
Three direct requests are one that reads a session, one that replaces it and one that
meets the result.  Two clients and two events let a waiter be confused with another
event's; a client may see an event again as an edit.  The desktop job is claimed twice
so that the second attempt meets what the first left; the proofs cover any number of
jobs, attempts and ticks.  Three ZCode invocations are two workers that contend for a
context and one that comes after.  Three event ids are a start and two terminals, two
sequence numbers one in the snapshot and one above it; of two requests the second meets
the limit of decisions (256 in the code, 1 here).  Events are told apart by their ids
only, which are symmetric.  The answers to a claim do not depend on each other, so one
is checked.  A pass of two rows out of three messages ends before the last one.
Deadlock is not checked where the system may stop (processes exit, the clock ends at its
bound, all messages are answered).

**Fairness.**  Only `ReplyDelivery` states any.  Weak fairness of handler and
recovery steps: asyncio runs a task that can run.  Weak fairness of `OnReady`:
Discord sessions are re-established.  Weak fairness of `JobFinishes`: Coordinate
brings a job to a terminal status (timeouts and reaping).  Strong fairness of a
recovery's wait and send: the service is not unreachable each time it is tried.
The KOOK bridge has no liveness property: its recovery starts only with the
process, and nothing says that it restarts.  That no client hangs on a shared
resolution is stated as safety (`WaiterHasOwner`: a waiter's future has an owner
whose call is under way); that the call returns is the timeout of the
Coordinate client.

## 4. Theorems

| Module | Theorem | Property | Assumption |
|---|---|---|---|
| `AgentdWorker_proofs` | `TypeCorrect` | `TypeOK` | |
| | `AttemptsRunOnce` | `EachAttemptRunsOnce` | |
| | `ProvidersExclusive` | `OneProviderPerJob` | |
| | `FreshNeverDuplicates` | `NoFreshDuplicate` | |
| | `DoneIsOwn` | `DoneByItsOwnAttempt` | |
| | `SavedIsRecorded` | `SavedOnlyIfRecorded` | |
| | `ClaimsNotStranded` | `NoStrandedClaim` | `FencedEmpty` |
| | `LedgerRefined` | `ImplementsLedger` | |
| | `OutcomeFinal` | a job done or failed keeps status and attempt | |
| `LeaseRenewal_proofs` | `TypeCorrect` | `TypeOK` | |
| | `OverrunBounded` | a provider outlives its lease by at most `Excess` | |
| | `ProviderInsideLease` | `ProviderHoldsLease` | `RenewsInTime` |
| | `DeadlineInsideLease` | `DeadlineWithinLease` | `MarginCoversAnswer` |
| `ReplyDelivery_proofs` | `TypeCorrect` | `TypeOK` | |
| | `RepliesAccounted` | `UnseenReplyIsPending` | |
| | `KookRepliesWhole` | `KookSentIsWhole` | |
| | `ResendsBounded` | a confirmed reply is sent again at most once per holder | |
| `SessionContext_proofs` | `TypeCorrect` | `TypeOK` | |
| | `RetiredStaysRetired` | `RetirementHolds` | |
| | `CursorIsSeen` | `CursorWasSeen` | |
| | `CursorMonotone` | `CursorNeverBack` | |
| | `DeltaLeavesNoHoles` | `DeltaOmitsOnlySeen` | `FitsAssumption` |
| `Bridge_proofs` | `HandoffTypes`, `AdmissionTypes`, `DirectTypes`, `BridgeTypes` | the types, `BridgeTypeOK` | |
| | `BridgeParts` | a run of the suite is one of each part | |
| | `NoHandoffIsSilent` | `NoSilentHandoff` | |
| | `RunsAreReported` | `FinishedRunReports` | |
| | `NoUnownedRun` | no job runs before its owner is recorded | |
| | `NoWaiterIsForgotten` | `WaiterHasOwner` | |
| | `NoStaleBinding` | `BindingNotOlderThanEvent` | |
| | `DeadStaysDead` | `DeadNotResumed` | |
| | `QuietResetHolds` | a reset session is not resumed | `QuietReset` |
| `Host_proofs` | `ClaimTypes`, `RegistryTypes`, `WasherTypes`, `HostTypes` | the types, `HostTypeOK` | |
| | `HostParts` | a run of the suite is one of each part | |
| | `ProviderUnderOneAuthority` | `OneAuthority` | |
| | `VerdictExact` | `VerdictIsExact` | |
| | `WatermarkSkipsNothing` | `NothingSkipped` | |
| `DesktopNative_proofs` | `NativeTypes` | `NativeTypeOK` | |
| | `EnqueuedAtMostOnce` | `AtMostOneEnqueue` | |
| | `EnqueuesAreTraced` | `EnqueueIsTraceable` | |
| | `DoneMeansReplied` | `DoneWasReplied` | |
| | `CallsUnderLease` | `CallsWithinLease` | |
| | `DeliveryRefined` | `ImplementsDelivery` | |
| | `ReadersInformed` | what a reader learnt of a job stays true | |
| `ZCode_proofs` | `ZContextTypes`, `ZTurnTypes` | the types | |
| | `NativeIsExclusive` | `OneNativePerContext` | |
| | `CredentialIsClaimed` | `CredentialUnderClaim` | |
| | `AllowsOnce` | `AllowedOnceInTurn` | |
| | `SuccessHasOneStory` | `SuccessIsUnambiguous` | |

Each follows from an inductive invariant `IInv`.  For the worker its parts are:
`ClaimKeys` (a key names one claim, of an attempt Coordinate granted),
`InHand` (what a process holds came from its current key and no other process
holds it), `ExecutedClaims` (an executed attempt is not one that a key still to
be answered can return as new), `Reports` and `Receipts` (a report names the
attempt that sent it, an answer the attempt that is recorded), `Evidence` (only
executed attempts leave sessions), `Recovery` (while a recovery process runs no
other is alive), `Serials` and `RunningStarted`.  The properties alone are not
inductive: that an attempt runs once, say, needs to know where every copy of its
claim still is.  The lease's invariant bounds how far the clock is past the wake
time in each phase of a renewal.  The outbox's says which rows a handler or a
task may be working on (`Handlers`, `Tasks`), that stamps are distinct
(`Stamps`) and that only shown replies are marked (`SentIsSeen`).  The session
row's says that an attempt has a job of its own and saves only a session that
was given the job's message (`Attempts`), and that the row is never older than
what an attempt read and, if it is what the attempt read, has not been retired
since (`Snapshots`): each write makes a row that differs from all before, so the
comparison before a write cannot be fooled.  That a delta has no holes needs more:
a window holds every message that was there, has not expired and had room
(`Memories`), and what had room still has it among fewer messages, so of two windows of
one generation the younger shows nothing up to the older one's message that the older
did not show (`Nested`).  This needs that the younger question was recorded after the
older envelope: otherwise it is itself a line of the older window, and the older
message it displaced there may have room in its own.  The window of the row's cursor was
given to the row's session (`Known`), and so was everything an attempt is about to
leave out (`Knows`), unless the session is in `crossed`.

The handoff's invariant says which reports lie behind a handler's stage
(`Reported`) and that no run precedes the announcement (`RunFollows`).  The
admission's says that the client of a key whose task is at the call owns the key's
future (`OwnerAsks`), that an owner has the endpoint of its key (`OwnerShares`) and
that a waiter's future is there: so the owner's task for the same event is at
the call.  The daemon's says that at most one request is busy (`OneBusy`), one scope
is active and a request resumes what that scope holds (`OneScope`), which keeps a
retired session from coming back through the other scope.  The desktop's follows
the first attempt, the only one that may call the queue: nothing reached the desktop
before its `answer` step (`NotCalledYet`), its record is in Coordinate from the
latch on (`LatchedFirst`), every record and every reported evidence is the first
attempt's (`EvidenceSeen`), its endpoint is
the only one the job ever had (`NoTextYet`, `TextIsDigest`), and the lease it read is
not shortened while the answer travels (`LeaseOutlives`).  The ZCode invariants say
that who works in a directory holds its claim file, that a native process has the claim
of its invocation until it is gone or could not be stopped, and that events, decisions
and the terminal stored by the read loop are those that were read above the floor.

The registry's says that each of the two readings kept exactly the entries of its
file, each id once, unless it raised or counted an error (`CleanAuthority`,
`CleanRuntime`); that both files have as many entries follows from a bijection between
them.  The washer's says of each table that rowids are distinct and were given out
without a gap, and that the watermark is one of them (`TableInv`): a message stored
later at or below the watermark therefore reuses a rowid.  Of a pass it says that
whatever lies below a row still to be done was extracted, reuses a rowid or is in the
pass (`PassInv`), which needs that a limited fetch takes the lowest rows.

**Refinements.**  `LedgerRefined` maps each step of the worker, of Coordinate and of the
network to a step of `AttemptLedger` or to none; it needs all of the worker's
invariant and that a running provider was started (`RunningStarted`).  `started` is a
set there, so that an attempt does not start twice is `AttemptsRunOnce`, not the
refinement.  `DeliveryRefined` does the same for a desktop job and
`NativeDelivery`.  Beyond the invariant of the desktop it needs that Coordinate has
no record of a job to be rejected (`Unannounced`: the first attempt writes the record,
and a rejected one ended before that), that an execution past its latch can only end
as timed out or done (`ResultSet`), and that a send under way belongs to a queued job
(`SendsQueued`).  A lost answer, an expired lease and a new claim of a job whose record
exists are then steps nobody sees, and a job a later attempt gives up on becomes
uncertain although its queue call may still arrive (`Deliver` is possible after
the end).  `OutcomeFinal` and `ReadersInformed` are short because of this: they
are proved of the abstract modules and carried over.

**The findings, bounded.**  Three of the four violations of section 5 are
delimited by a theorem.  `OverrunBounded`: with any timing a provider outlives its
lease by at most `Excess`, what the lease is too short for one interval, one call and
one stop; it is 0 for the HTTP defaults, so `ProviderInsideLease` is a corollary, and
44.5 s for the CLI client, which TLC reaches exactly.  `ResendsBounded`: a
step that shows a confirmed reply uses up the right of its holder to do so, the
handler's or that of one recovery task with an older snapshot, and nobody gets a new
one (`ResendUsedUp`).  `QuietResetHolds`: if no request is resuming the session that a
reset deletes (`QuietReset`, a condition on the steps `DirectReset`), the session is never
resumed again; the invariant follows deleted sessions through both scopes
(`ResetsForgotten`) and says that a request prefers the legacy scope (`LegacyFirst`).
These statements are TLC-checked on the instances of the runs that show the
violations.

**Both directions.**  `VerdictExact` says of the parity check that what passes agrees
(`PassMeansSame`) and that what agrees passes (`SameMeansPass`): the second traces each
reason to fail back to an entry of a file (`FaultInv`).  An
entry that is in a file twice is excluded by `~gRead.twice`, because the model keeps the
entries of a file as a set.

**Suites.**  `bridge` and `host` are runs of independent parts side by side.
`BridgeParts` and `HostParts` prove that a run of the suite is a run of each part, so
that every theorem about a part holds of the suite and a run checks what the theorem
says.

**Updates.**  A step that changes several fields of one entry writes
`[f EXCEPT ![j] = [@ EXCEPT !.a = .., !.b = ..]]` and reads the old fields by name.  The
shorter `![j].a = .., ![j].b = ..` means the same to TLC, but tlapm 1.4.5 translates it for
its SMT solver as two updates of `f[j]` that both hold, which is a contradiction, and it
misreads an `@` inside the nested form.  Every action was tried for this: from its type
invariant and the action alone the solver does not derive `FALSE`.

**Assumptions.**  `FencedEmpty`: a claim key that Coordinate answered "no job"
is not honoured later; without it a delayed copy of a timed-out claim leases a
job after its retry was answered empty, and TLC finds `NoStrandedClaim`
violated.  Coordinate's source is not in this repository, so this is a
requirement on it.  `RenewsInTime`: wake time, retry budget and stop time fit
into the lease; true of the defaults, while `execution_lease.py` enforces only
interval < ttl.  `MarginCoversAnswer`: a claim's answer is read within the
margin.  A recovery worker is started when no other worker of the agent runs,
as `docs/desktop-sessions.md` prescribes (`NoRecoveryUnderway`, `OthersGone`).

`FitsAssumption`: a set of lines that fits into the character budget still fits without
one of them.

**Exceptions.**  Four properties except states which the code can reach; the models
reach them, and without the exception TLC finds the property violated.
`DeltaOmitsOnlySeen` excepts the sessions in `crossed`: the envelope of one job already
shows the question of another, which was recorded before and is claimed after it.  The
shown question can take the room of an older message, by number or by length, that
its own window then has; with the cursor behind it, that message is never given to the
session.  `OneNativePerContext` excepts a native process whose termination failed
(`terminate_owned_process_group` raises when the group survives SIGKILL or taskkill
fails): `run_native` closes the context and gives up the claim with the process alive,
and a resume starts a second one.  `CredentialUnderClaim` excepts a temporary file that
could neither be moved nor removed: two file operations have failed then.
`SuccessIsUnambiguous` speaks of events above the snapshot the session was opened with:
the code ignores the others, and a contradiction in one of them does not stop a success.

**Only model-checked.**  `RepliesEventuallySent`: liveness under fairness is
out of the prover's reach, as is `ENABLED`.  The violations are TLC's.  Every
invariant, action property and refinement of a passing run is the statement of a
theorem.  Only proved, because no run has it as a property: `OverrunBounded`,
`ResendsBounded`, `OutcomeFinal`, `ReadersInformed`, `NoUnownedRun`, `QuietResetHolds`.

## 5. Findings

1. `worker_errors`: the docstring of `_run_cli` promises normalised errors so
   that the loop can back off; an error of `report_job` leaves `run()` and
   `__main__` swallows it, so the process ends with status 0.
2. `lease_cli`: with the CLI transport one renewal may block for 30 s, more than
   the margin for which the supervisor's deadline allows; the provider outlives
   the lease.
3. `replies_resent`: `docs/architecture.md` says that confirmed deliveries are
   not sent again; the recovery task does not look at a row again before it
   sends.
4. `direct_reset`: `commands.py` answers a reset with "the next call starts a new
   session"; in the direct mode a request in flight saves its session afterwards
   without compare-and-set (`client.py:779`), and the next call resumes it.

## 6. Plan

Done: every module of section 2, with the proofs of section 4.  What would add
most next:

1. the outbox and the desktop job composed with the worker, with `AttemptLedger` as
   what they assume of a job;
2. the retry budget of the HTTP client as a pure algorithm;
3. the archive of sessions at a lifecycle notice, with the scopes it retires.

## 7. Not modelled

- Coordinate itself: external, modelled from how `src/` uses it.
- Parsing, prompts, texts, configuration, setup, usage, the command fronts of the
  desktop and of the channel, the legacy bots and services: sequential code
  without shared state, better tested than model-checked.
- `executor_capacity_authority.py` and `agentd/health.py`: files read once at start.
- Providers other than ZCode: one process, one answer; what a stop must achieve is
  an action of `LeaseRenewal`.
- The archive of sessions at a lifecycle notice and the listings of the session
  store.  An edit that arrives while its message is still being resolved.
- The local socket protocol of the daemon, socket framing and file permissions of
  the desktop, the desktop application.
- The tables of `persistence/db.py` other than the conversations: single statements
  of the legacy program.  `NothingSkipped` excuses messages stored under a rowid of a
  deleted row, which the washer does not see.
