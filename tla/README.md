# A verification project for PoliteDB

PoliteDB is a desktop database client: a Tauri backend in Rust
(`src/src-tauri/src`), a Preact frontend in TypeScript (`src/src`), and commands
and events between them. This directory holds TLA+ models of its core, the TLC
configurations that check them, and TLAPS proofs about them.

1. [Inventory](#1-inventory) 2. [Plan](#2-plan) 3. [The modules and the
code](#3-the-modules-and-the-code) 4. [The runs](#4-the-runs) 5. [What the code's
comments say and the code does not
keep](#5-what-the-codes-comments-say-and-the-code-does-not-keep) 6. [The
proofs](#6-the-proofs) 7. [What is only model-checked, and what is not
modelled](#7-what-is-only-model-checked-and-what-is-not-modelled)

## 1. Inventory

Concurrency in the backend is of two kinds: tokio tasks on a thread pool that
share `AppState`, a record of concurrent maps (`DashMap`) **without a common
lock**; and the servers and sockets behind them. The webview is a single thread
that interleaves at its awaits, fed by a queue of events.

| component | state it keeps | operations | what makes it correct |
|---|---|---|---|
| Operation registry: `operations/`, `engines/op_cleanup.rs`, `engines/cancel.rs`, `engines/runtime/connection_ops.rs` | `op_to_conn`, `active_ops`, `running_ops`, `cancel_requested`, `op_tasks`, `sql_busy`, `explain_analyze_running` | `dispatch_operation`, the spawned task with its drop guards, `cancel_operation`, the operations part of `connection_remove` | one stream per connection; its slot is released exactly once whoever ends it; a cancel is not lost; no mark outlives its operation |
| Query runners: `engines/*/operation.rs` | the batch, `flow_by_op`, a channel and an emit task | stream rows as `op:chunk_table`, end with `op:done` or `op:error` | chunks in order, one end behind them, no starvation |
| operationBus: `lib/tauri/operationBus.ts` | handlers, caches, serial queues, pending acknowledgements | listeners, `subscribe`, unsubscribe, the periodic sweep, acknowledgements | no chunk lost, doubled or reordered around `subscribe`; the end is heard |
| Held PostgreSQL sessions: `engines/postgres/sql_session.rs` | `sessions`, each one's state machine, client mutex, driver task | `begin`, `execute`, `end`, `close`, watch, `end_for_connection` | one owner of the outcome, a truthful report of it, nothing left open |
| SSH tunnel pool: `ssh_tunnel/pool.rs` | `ssh_tunnel_pool` with counts, `conn_to_tunnel` | acquire, the open race, release | a tunnel in use is open; the count is exact |
| EXPLAIN ANALYZE: `engines/postgres/explain_analyze.rs` | a permit per connection, a connection of its own | spawn, classify, execute, roll back | the permit follows the task; nothing is reported before the rollback is acknowledged |
| Connection lifecycle: `commands/connection/lifecycle.rs` | `connections`, `conn_to_tunnel` | create, test, remove | removal leaves no operation, session or tunnel |
| Table rows: `lib/table-data`, `hooks/useLoadTableData.ts`, `stores/connection/rowsSlice.ts`, `rowCache.ts` | one window and one cache per table, three maps of loads in flight | request a page, coalesce, supersede, retry busy, stream into the window, close | a page shows the rows of its own load; a joined load is alive; every load settles |
| Unsaved row changes: `stores/connection/store.ts`, `lib/patches`, `SaveChangesDialog.tsx`, `useConnectionActions.ts` | pending changes by position, the rows they were made against | edit, delete, discard, review, save | a save changes the rows the user changed, all of them and no others |
| Streaming export: `lib/export-pipeline/runStreamingExport.ts`, `commands/export.rs` | a run's flags, a native session with a temporary file | start, write a chunk, publish, fail, cancel | the file is the old or the whole new one, as reported; no temporary file is forgotten |
| Busy retry: `lib/tauri/query.ts` | none of its own | run, cancel the holder of the slot, run again | the loser hears of it |
| Backup and restore: `useDatabaseBackup.ts`, `lib/dump` | a run's flags, a held session | dump, read statements, execute, commit | a restore commits all or nothing |
| Session signals: `engines/postgres/session_signal.rs` | none of its own | cancel or terminate a backend found by pid and start | the signal reaches only the session that was meant; a timeout is told as unknown |
| AI: `ai/cancel.rs`, `ai/agent/run.rs`, `ai/generations.rs`, `ai/agent/consent.rs` | active and early-cancelled requests, runs, limits | register, cancel, finish, drive | a cancel hits its own request, also an early one; limits hold |
| Stores: `file_storage.rs`, `security/credential_store.rs`, `ai/provider_store.rs` | files, keychain items | atomic write, migrate, delete, save with rollback | a crash or a failed step leaves the old or the new, and never revives a deleted secret |
| Other: profiles, license, updater, query analyzer, SQL generation, user interface | files, component state | parsing, remote calls, rendering | outside this project, see section 7 |

How they interact: a frontend call `operation_execute` runs `dispatch_operation`,
which spawns a runner and returns the operation's id; the runner emits events;
operationBus queues them for a subscriber that may come before, between or after
them, and acknowledges chunks; `operation_cancel`, a busy retry of another caller
and `connection_remove` interfere at any moment. `sql_session_*` calls go to the
session registry and never pass the operation registry; `connection_create` and
`connection_remove` take and give back a tunnel.

What is hard here, with the line at which it bites, is listed under `hazards` in
`PROJECT.json`: above all, multi-step updates of maps that three other tasks also
update, two owners racing to end one transaction, and events that arrive before
their subscriber or after their owner has left.

## 2. Plan

| order | module | models | state |
|---|---|---|---|
| 1 | `Operations`, abstract `SqlSlot`, `OperationsProofs` | operation registry | done, eight theorems |
| 2 | `SqlSession`, abstract `SessionOutcome`, `SqlSessionProofs` | held sessions | done, six theorems |
| 3 | `SshTunnelPool`, `SshTunnelPoolProofs` | tunnel pool | done, three theorems |
| 4 | `ResultStream`, `ResultStreamProofs` | runner, flow control, operationBus | done, three theorems |
| 5 | `RowsWindow`, `TableLoads`, `RowsWindowProofs`, `TableLoadsProofs` | the rows of a table from the request to the window: `sqlLoader`, coalescing, busy retry | done, four theorems |
| 6 | `RowEdits` over `RowsWindow`, `RowEditsProofs` | unsaved changes, from the cell to the transaction | done, six theorems |
| 7 | `Export`, abstract `Publication`, `ExportProofs` | the export with its native session | done, three theorems |
| 8 | `Restore` | restore and backup, over `SqlSession` | planned |
| 9 | `ExplainAnalyze`, `SessionSignal` | the two PostgreSQL commands with their server | planned |
| 10 | `AiCancel`, `AgentRun` | early cancels, limits, turns | planned |
| 11 | `FileStorage`, `CredentialStore` | crash windows, migration and delete | planned |
| 12 | proofs | every invariant that a run checks | done; an ordered once-only delivery as an abstract specification of `ResultStream`, with its refinement, is planned |

Abstract specifications worth stating: `SqlSlot` (one stream per connection) for 1,
`SessionOutcome` (one owner, an outcome that never changes) for 2, an ordered
once-only delivery for 4, `Publication` (the old file or the whole new one, as
reported) for 7, a file that survives a crash for 11.

How they compose: `RowsWindow` is a library of pure transformations that
`TableLoads` and `RowEdits` both apply to their state. `TableLoads` and `Export`
see operations and events through what `Operations` and `ResultStream` establish:
a cancel frees the slot at once and the task reports done, an error or nothing;
chunks come once, in order, and the end behind them. The composition itself would
multiply state spaces that share nothing else.

No module uses a RECURSIVE operator, so theorems can be stated about all of them.

## 3. The modules and the code

A definition keeps the name of what it models where it can; `PROJECT.json` maps
each to its lines. A definition `Name_Variant` (with an underscore) is a faulty
variant of `Name` that stands beside it. It shows which property would notice the
fault; no specification uses it.

### Operations

Every access to one of the shared maps is a step of its own, because nothing
holds two of them together: `dispatch_operation` is `Lookup`, `MapOp`, `Acquire`,
`Activate`, `EmitStarted`, `Spawn`, `RegisterTask` (or `Reject`, `Rollback`); the
task is `Poll`, `RegisterHandle`, `CheckRequest`, then one of `Complete`, `Fail`,
`Interrupt`, `Notified`, and `Unwind`, which leaves the maps one at a time in the
order Rust drops the locals and then `OpCleanup`. `Interrupt` is PostgreSQL's 57014:
the runner asks whose it was where the statement itself runs (operation.rs:136, 301,
385, 419), and reports it unasked ("unclassified") where BEGIN, SET LOCAL, PREPARE or
COMMIT was cut (169-286, 325, 514); `Fail` is any other error. `DropTask` is the runtime
dropping an aborted future at an await: before the first poll the guards do not
exist, except for the `Ownership` an analysis captures. `cancel_operation` is
`CancelRelease`, `CancelKnown`, `CancelMark`, `CancelSignal`, `CancelAbort`;
`connection_remove` is `RemoveScan`, then for each operation `RemoveTake` and
`RemoveForget`, then `RemoveForce` and `RemoveConn`.

`reg[m]` is the key set of the map `m`. `sent[o]` is the one thing of the server
that matters: whether the running statement was sent a cancel, and by whom.
PostgreSQL cancels are requests to the server and reach a statement that is being
prepared or runs; the other engines use a tokio `Notify`, whose `notify_waiters`
stores nothing. `published` is what the frontend can know: an id returned by
`operation_execute`, or named in `ERR_SQL_BUSY`. Nothing listens to `op:started`.

Left out: the payload (`SQL_PAYLOAD_MISSING`, dispatcher.rs:164, would leave the
maps filled, but the frontend always sends one), `flow_by_op` (in `ResultStream`).
The engines that run a blocking call (sqlite, oracle, duckdb) are of class
"notify", though an abort reaches them only when the call has ended.

### SqlSlot

What the busy map promises: taken only while free, at most once per operation,
never handed over directly. `Registry == INSTANCE SqlSlot` in `Operations` maps
`slot` to `busy`, and `used` to the streams that are past `try_acquire`.

### SqlSession

An actor is a call of the frontend, a `sql_session_begin`, a `connection_remove`
or an idle watch; `pc` says where it is. `execute` is `Call`, `Execute`,
`Executed`; `end` is `BeginEnding`, `EndLock`, `EndTimeout`, `Claim`, `Ended`,
`Forget`; `close` is `CloseOwn`, `CloseAbort`, `CloseUnlist`, `CloseTake`, entered
from a timeout, a failed end, `Reclaim` (the watch) or `Sweep`
(`end_for_connection`). `state` is the atomic OPEN, ENDING, COMMITTING, CLOSED;
`lock` is the async mutex around the client; `taken` says that the client is gone
from it. A timeout may strike whenever an actor waits.

The server (`Serve`, `HangUp`, `LoseSocket`) is external: it reads messages in
order, also those that were written before the socket closed, and rolls back what
is open when it notices. A COMMIT of a failed transaction answers without an
error.

`execute` checks the state and sends without an await between them; another
thread may change the state in that instant, which is the order check, send,
change, so one step is enough. A `Reclaim` needs an unused session; as the limit is
15 minutes at least, its `begin` has returned. A session's mode changes only its
limits and is left out.

### SshTunnelPool

A tunnel is named after the connection that opened it. `Acquire` is the fast path,
`Open` and `Insert` the slow one with its race; the loser's own tunnel is closed
by a task (`CloseSpare`). A release is `Unpool` (`remove_if`), then `Close` or
`Decrement`. `Connect` either succeeds or gives the reference back at once;
`RewriteFails` is the early return of `connection_create` between the two, behind
which nobody gives it back ("leaked": section 5).

### ResultStream

One operation. The runner fills a batch (`Fill`), takes a credit, sends into the
channel; the credit is an RAII permit that is back when `Send` is done. The emit
task (`EmitNext`) turns channel items into events; the webview handles one event
per `Dispatch`. `HearChunk` and `HearEnd` are the three listeners, `Subscribe`
replays the cache, and the serial chain of an `awaitChunkHandlers` subscriber is
`queue` with `Work`, `Settle`, `Skip`, `Conclude`, `Concluded`. `Cleanup` is the
periodic sweep and `Flush`/`Ack` are the acknowledgements.

A chunk is its number; its rows, and the sort by number when cached (they arrive in
order), are left out. An operation has one subscriber, as all callers do.
Cancelling is `Cancel` (mark and interrupt) and `Abort` (the task is dropped); how
they reach the runner is the subject of `Operations`.

### RowsWindow

The transformations of `rowsSlice.ts` and `rowCache.ts` over a record with one
field per field of `TableRowState` that the transitions read: `beginRowsStream`
with what it keeps of the old window and the cache, `applyRowsChunk`,
`endRowsStream`, `failRowsStream`, `updateRow`, and the two lookups. Rows are
counted (`loadedMax`) a frame later, by `FlushNotify`. `NestedUpdateStays` is a
property of the store library the code runs into: a `set` inside the updater of
another `set` survives only when the outer updater returns something new.
`shiftWindowToViewport`, which nothing calls, and the cache's eviction beyond
100 000 rows are left out; the window's capacity, at least four pages, exceeds the
positions of an instance.

### TableLoads

What the webview does between two awaits is one step. A request (`Ask`, `Show`,
`Refresh`) runs `loadTableData` to its first await: the three ways it may join a
load in flight, the load plan, the maps it enters. The load is `ColumnsLoaded` or
`ColumnsFailed`, `Supersede` (the window's previous stream is cancelled), `Start`,
or `Busy` and `CancelHolder` up to `MaxTries` times, `Begin` (the window is given to the
operation), `Chunk`, and `Done`, `Error` or `StartFails`. `Settle` is the promise: it
settles those that joined it and each map deletes its own entry. `Close` is
`removeTableData`, whose cancels run later (`CloseCancels`). A load and its operation
have one name, a chunk is one row.

A cancel that takes the slot makes the operation "aborted", after which nothing
but chunks under way is heard of it, or "cut", after which done is reported early.

Left out, each named where it would stand: a request that `loadTableData` coalesced
takes its view as loaded again when the promise settles (`Settle`;
useMainTableDataLoading.ts:180); the flags that refresh counts, keys and structure,
which also keep a request from joining (`Joins`; useLoadTableData.ts:93); the up to
eight rounds of `operationExecuteWithBusyRetry` inside one attempt of `retryAsync`
(`Busy`; query.ts:160), alike in what they cancel.

### RowEdits

One table with a primary key and one column, the positions of its page, and the rows
there. `Edit` and `DeleteRow` are `onDataChange` with `setDataPatchMap`: the refusal
when another row has come to the position, the value that equals the original, the row
that is recorded. `Turn`, `AskToDiscard`, `DiscardAndTurn`, `KeepChanges`, `Truncate`,
`Refresh`, `DiscardChanges`, `Open` and `Close` are what the user does around it;
`Reload` is the second half of a refresh, behind its await of the metadata, with the
offset captured before it (`refreshing`); `beforeSaveChanges`, `CloseReview`,
`applyPatchesForCurrentTab`, `Saved`, `SaveFails` are the save; `Begin`, `Chunk`, `End`
are the newest load, which carries its own page, and `OtherClient` another client of the
database. A statement is its kind, the key in its WHERE and its value; `SaveFails`
covers the answer that is lost behind the commit.

`meant` is a ghost: the keys of the rows the user saw when changing a position. It is
compared with what is recorded and sent. `reloads` is a ghost too: changes were dropped
whose reload has not begun. `astray` is one: a refresh has loaded a page that the pane
did not show; `RecordedRowIsTheEdited`, `SaveHitsEditedRows` and `UnsavedIsPending`
speak of the time before (section 5). `Truncate` is the truncation in the object tree of
a table that is shown, together with the effect of the pane that finds it stale,
discards and reloads: the effect waits while the pane loads or another one is shown,
which is left out. Also left out: inserted rows, structure changes, several columns
(patches of different columns of one row share its record), the text of the statements.

### Export

`start()` is `BeginSession` or `BeginFails`, `Listen` or `StartFails`, `StartAborted`;
a chunk is `HearChunk`, then `ChunkWritten` or `ChunkFails`, `ChunkFailing`,
`ChunkAborted`; the end is `HearDone` or `HearError`, then `TrailerWritten`, `Publish`,
`Published`, or `CommitFails`, `EndFailing`, `EndAborted`; `cancel()` is `Cancel`,
`CancelOperation`, `AwaitHandlers`, `CancelAgain`, `CancelDetach`, `CancelAborted`,
`CancelAwaited`. A native command takes effect in a step of its own; between that
and its answer others run. `LateCancel` is the id that arrives behind an aborted
start. Who detaches the session's id (`sessionId`) owns its abort.

Each native command may fail, also in part: an abort may delete file and session
("gone"), lose the session with the file "left", or be rejected with both "stuck"; a
failed publication leaves neither, or the file; a failed `export_session_begin` may
leave a file no session was entered for. The code drops these errors and goes on, and
so do `Aborted`, `CommitFails` and `BeginFails`. `operationBus.subscribe()` is taken not
to reject: all it can fail in is `initOnce`, and `startSqlQueryStream` has awaited the
same promise (query.ts:487, `ensureInit`) before it returned an id.

The stream (`StreamStarts`, `Emit`, `StreamDone`, `StreamFails`, `StreamCut`,
`OtherCancels`) is what `Operations` and `ResultStream` leave possible to a subscriber
with `awaitChunkHandlers`. A trailer is always written, formats without one being
the special case; serialisation and masking are one step that may fail. Two waits
are dropped and only add behaviours: the grace of 500 ms may be over at once, and
`start()` may unsubscribe or not when a chunk failed inside `subscribe()`.

### Publication

What the user is promised: `Publish` at most once and before the report, `Report`
says what happened, nothing behind it. `Disturb` ends the promise: another caller
cancelled the stream (section 5). `Promise == INSTANCE Publication` in `Export` maps
the destination's content to "old", "new" (every chunk in order, and the trailer)
or "broken", which no step of `Publication` reaches.

## 4. The runs

Each operation, call and connection of an instance does its work at most once, and
a stream ends once, so every instance comes to rest: all runs say
`CHECK_DEADLOCK FALSE`.

| run | instance | shows |
|---|---|---|
| `OperationsCancel` | 2 PostgreSQL operations of 1 connection, streams or analyses, any number of cancels of both | `UncancelledStreamOwnsSlot`, `PostgresCancelNotLost`, `UserCancelIsQuiet`, `AnalysisCleansUp`, `ImplementsSlot` |
| `OperationsKinds` | 1 operation of any kind on 3 engines, cancel, removal of one connection, fair | `TypeOK`, `SlotNotOrphaned`, `UndisturbedOpForgotten`, `SlotEventuallyFree` |
| `SqlSessionRace` | 1 session, 3 calls of any kind, removal | `TypeOK`, `ClosedNeverCommits`, `EndIsTruthful`, `TakeTurns`, `RemovedHoldsNoSession`, `ImplementsOutcome` |
| `SqlSessionLive` | 1 session, 2 calls, 1 watch, fair | `EndReturns`, `SessionEnds` |
| `SshTunnelPoolShare` | 3 connections over one tunnel, 1 over another | `TypeOK`, `RefsCountHolders`, `HeldTunnelIsOpen` |
| `ResultStreamDelivery` | 3 chunks, window 1, channel 1, acknowledgements of 1, a plain or a serial subscriber, fair | `TypeOK`, `InOrder`, `DoneMeansAll`, `StreamEnds`, `SubscriberHears` |
| `TableLoads` | 2 loads, 2 tables of 1 connection, pages of 2 of 3 rows, an empty filter, 1 retry, fair | `TypeOK`, `WindowShowsItsLoad`, `RunningIsWatched`, `JoinsOnlyInFlight`, `LoadSettles` |
| `RowEdits` | 2 rows, 2 values, pages of 1 row in two orders, 1 write by another client | `TypeOK`, `RecordedWhilePending`, `RecordedRowIsTheEdited`, `SaveHitsEditedRows`, `SavesAllItForgets`, `UnsavedIsPending` |
| `Export` | 3 chunks, 2 cancels, fair | `TypeOK`, `TempFileOwned`, `ImplementsPublication`, `Settles` |

and the three runs of section 5, each of which TLC must find violated.

**Bounds.** Two operations per connection are enough for the slot: the third would
relate to the second as the second to the first, and all rules are about one owner
and one other. Cancels are repeated without a bound. Three calls let a statement,
an end and a second end of one session meet a removal; a fourth actor only repeats
one of them. Three sharers of a tunnel give two releases and an acquire at once.
The code's window is 3 and its channel 2; `ResultStreamDelivery` shrinks both to 1,
so that three chunks exceed them together and the state space stays small. Two
loads are a load and the one that joins, supersedes or starves it; the second table
takes the connection away without sharing the window; two pages, the second
shorter, and an empty result are the three cases of a window's length. One row per
page is enough for `RowEdits`, since positions do not interact: the other rows come
to the position by turning, sorting, deleting and by the other client. `RowEdits`
explores no further than a refresh that goes astray (`CONSTRAINT ShownPages`: three of
its invariants say nothing behind it, and the other three are proved for all of it)
and takes states that differ only in how many rows a window counts, or whether its
last load failed, as one (`VIEW Distinct`: no guard or property of the run but
`TypeOK` reads these), since otherwise it would take many times as long. The cancels
of `Export` are the button and an owner's teardown; three chunks put one in its
handler, one before and one behind it. The theorems of section 6 need none of these
bounds.

Operations are interchangeable where all of them may be cancelled, as are calls,
the connections that share a tunnel and the values of a cell: those runs use
symmetry, and no run with a liveness property does.

**Fairness.** `Operations`: a command that has begun and a task that is ready run on,
since tokio polls ready futures and no command awaits anything unbounded; a query ends
by itself, by its statement timeout. `SqlSession`: what has begun runs on, because every
await in it has a limit; the server notices a closed socket; a session's watch lives as
long as the session. A statement or COMMIT need never be answered. `ResultStream`: tasks
are polled, the webview dispatches its events, a handler settles. Nobody has to
subscribe, no acknowledgement has to be sent or to arrive. `TableLoads`: a load goes on,
its calls are answered and its query ends or fails; a cancel of `CloseCancels` may be
late for ever. `Export`: `start()`, the handlers and each `cancel()` that has begun go
on, a native command answers; the stream owes nothing, not even an end. Nothing that a
user decides is ever fair: to call, cancel, remove or leave.

## 5. What the code's comments say and the code does not keep

Three runs check a sentence of the repository that the code does not keep:

| run | statement | what happens |
|---|---|---|
| `SqlSessionTimeout` | sql_session.rs:191 "A statement past its limit is cancelled and the session ends, rolled back" | a waiting end(commit) gets the lock first and commits |
| `TableLoadsCancel` | useConnectionActions.ts:468 "a single table load error/cancel must still finish the MenuBar isRefreshing spin" | an aborted task reports nothing, so the load's promise never settles |
| `RowEditsMarkers` | rowPositionPatches.ts:7 "keeps the grid's markers on the right rows" | a row edited while other rows are on their way keeps its marker's position |

In `RowEditsMarkers` only the marker is wrong: `RecordedRowIsTheEdited` and
`SaveHitsEditedRows` show that the save still goes to the row that was edited.

More is visible in the models and has no run of its own; the properties that would
fail exempt it, as their comments say.

- Operations. An early cancel of a Notify engine is lost: `notify_waiters` runs
  before anyone waits (mysql/operation.rs:72 "If cancel was requested before runner
  registered, cancel immediately"). A dispatch that cloned the connection before its
  removal goes on (lifecycle.rs:394 "no stream should remain busy after the
  connection is gone"). An abort before the first poll drops no guard, and a cancel
  may insert its mark behind the cleanup (ctx.rs:38 "Always clean active marker +
  pending cancel request").
- Operations, the PostgreSQL runner. Not every interruption by the user ends quietly
  (postgres/operation.rs:122 "The request stays recorded ... so the resulting 57014 is
  reported as a user cancel"): an early cancel meets BEGIN or a SET LOCAL (169-286), a
  late one the commit (325, 514), whose errors are emitted without `cancelled_by_user`.
  `UserCancelIsQuiet` speaks of the statements that are asked about ("interrupted"),
  not of these ("unclassified").
- SshTunnelPool. Two releases both see two users, and both only decrement, so an
  open tunnel stays that nobody owns (pool.rs:157 "Either key not found OR refs > 1").
  And a create whose `rewrite_tunnel_endpoint` errs returns by its `?`
  (lifecycle.rs:49) before it kept the key it would roll back with (50 "we keep key
  for rollback", 67 "rollback tunnel ref if acquired"): its reference is never given
  back, the tunnel is never closed. `RefsCountHolders` counts such a create.
- ResultStream. The permit is returned when the chunk enters the channel, so
  nothing bounds what is in flight (mysql/operation.rs:196 "bound in-flight chunks to
  prevent IPC/UI backlog growth"). The sweep deletes a terminal cache without a
  subscriber at its next tick (operationBus.ts:313 "Keep cache until subscriber
  calls unsubscribe or TTL expires"). The done of a cancelled stream comes from the
  runner and overtakes chunks in the channel (postgres/operation.rs:361 "Serialize
  event emission on one task").
- TableLoads. The busy retry of an older load cancels the newer one of its own
  table and takes the window back (sqlLoader.ts:577). The map of queries in flight is
  keyed by the SQL text alone, so a table of the same name on another connection
  joins this one's load (sqlLoader.ts:546). The first rows of a page may be counted
  late: the nested update of `loadedMax` is lost (rowsSlice.ts:373).
- RowEdits. When the reload behind a discard fails, the discarded values stay in the
  grid (`UnsavedIsPending` exempts `reloads`). `refresh()` checks for changes,
  awaits the metadata (useConnectionActions.ts:462) and then loads the table and offset
  it captured before, although another page may be shown by now, or the table be
  closed: rows reach a window whose pane did not ask for them. On the instance of the
  run, without the exemption `astray`, TLC finds that an action on such a row, which has
  no cached copy to be compared with, is attached to the change of another row
  (store.ts:525 "never attach this action to the earlier row's change ... this only
  guards against paths that bypass it"), so that saving deletes one row of the two that
  were marked; and that a discard puts original rows back at positions of another page
  (store.ts:772).
- Export. A stream that another caller cancels ends with done and without
  truncation, and a chunk may come behind it: the partial file is saved as complete
  (`rival` in `Export`, `Disturb` in `Publication`). A temporary file whose deletion
  failed stays beside the destination for good: the error is dropped
  (export.rs:81, 94; runStreamingExport.ts:175), the session is gone, and nothing
  sweeps such files later. `TempFileOwned` says that the deletion was tried.

## 6. The proofs

Every invariant that a run checks is also a theorem, for every value of the
constants that the module's assumption admits; so are the three refinements. The
assumptions say that null values are not members, that sets of actors are disjoint,
that bounds are numbers; none says more than the code gives. No theorem has another
hypothesis: each is of the form `Spec => ...`. All follow the same plan: an
inductive invariant, checked by TLC on the instances of section 4 before it was
proved; `InitInv`, one lemma per action or group of actions, `StepInv`, and PTL for
the last step.

### Operations (`OperationsProofs`)

- `TypeCorrect`: `Spec => []TypeOK`;
- `NoOrphanedSlot`: `Spec => []SlotNotOrphaned`;
- `SlotRefinement`: `Spec => ImplementsSlot`, the busy map implements `SqlSlot`;
- `StreamOwnsItsSlot`: `Spec => []UncancelledStreamOwnsSlot`;
- `CancelIsNotLost`: `Spec => []PostgresCancelNotLost`;
- `UserCancelStaysQuiet`: `Spec => []UserCancelIsQuiet`;
- `AnalysisReturnsItsPermit`: `Spec => []AnalysisCleansUp`;
- `UndisturbedLeavesNoMark`: `Spec => []UndisturbedOpForgotten`.

`SlotNotOrphaned` says the release is ahead of every holder, but not that nothing
can take it away: an aborted task whose guards do not exist yet never releases.
The inductive invariant `IInv` is `TypeOK` and five conjuncts:

- `HolderReleases`: a holder is a stream of that connection, past `try_acquire`;
  nobody cancelled it; and it is aborted only while a removal is about to force
  the slot open;
- `LearntLate`: an id is learnt only behind `try_acquire`, and cancelled only once
  learnt. So `CancelRelease`, the first step of a cancel, always comes after the
  slot was taken and frees it, and the abort that follows cannot orphan it;
- `SweepsItsOwn`: a removal forgets operations of its own connection only, so
  what it aborts is covered by its own `RemoveForce`;
- `OneUnwinds`: either the dispatcher rolls back or the task unwinds, never both,
  each at a step it has; and only spawned tasks are aborted;
- `KnowsItsConn`: a dispatched operation has its connection.

`LeaveStep` says once what a step of a rollback, an unwinding or a removal can
disturb; then there is one lemma per actor with one step per action. For the
refinement, every step but `Acquire` leaves the set of operations that had their
slot alone and frees at most one slot (`FreesOne`, `TouchesNoSlot`); that at most
one slot is freed follows from `HolderReleases`: a holder is of that connection.

The other five are about what becomes of one operation, so their invariant
`Fate(o)`, relative to `IInv`, speaks of one: `MarksStay` (only a removal takes
the marks of an operation in flight), `CancelStands` (where a cancel under way has
left its mark, stage by stage), `OnlyAsked` (nobody is marked, aborted or sent a
cancel unasked), `ReportsLast`, `AnalysisIsStored` (an analysis waits for its
handle to be stored), `LeavesInOrder` (whoever unwinds has left the maps in front
of its place in the drop order). `SlotKept` says that only the owner, its cancel
and a removal release a slot, from which `OwnsSlot(o)` follows.

### SqlSession (`SqlSessionProofs`)

- `TypeCorrect`: `Spec => []TypeOK`;
- `ClosedIsNeverCommitted`: `Spec => []ClosedNeverCommits`;
- `Refinement`: `Spec => ImplementsOutcome`, the registry implements
  `SessionOutcome`;
- `SessionsTakeTurns`: `Spec => []TakeTurns`;
- `EndReportsTruth`: `Spec => []EndIsTruthful`;
- `RemovalLeavesNothing`: `Spec => []RemovedHoldsNoSession`.

`ClosedNeverCommits` is not inductive: a step of the server may commit what is on
the wire, so one must know who put it there. The inductive invariant `IInv` is
`TypeOK` and three conjuncts:

- `BeginsOwnSession`: the actor of a begin works on its own session, to roll back;
- `KnowsItsJob`: an actor in the part of the code that ends a session carries an
  ending, and one that waits for a statement carries a statement;
- `EndingIsOwned`: a COMMIT or ROLLBACK on the wire, or an applied transaction,
  belongs to a session that is COMMITTING.

COMMITTING is entered only from ENDING by `Claim`, in the step that sends, and
`CloseOwn` never leaves it: so a CLOSED session has neither. The refinement maps
`owner` and `outcome` to `state` and `txn`; besides `IInv` it needs `Fresh`, that a
session not yet opened has no transaction, so that `Open` is a stutter.

What `end` reports needs to know who talks to whom. `Honest` is
`SenderHoldsLock` (who sends and waits holds the client's lock), `Talk` (a message
on the wire is its sender's only one, and who gave up waiting for a COMMIT said
that it does not know; an applied transaction was, or is being, answered to the
`end` that committed it; a failed one has a statement that tells), `TakeTurns` and
`CloserOwns` (who closes a session, or took its client, has settled who owns the
outcome). The steps are first sorted by what they do to this talk (`StepKinds`):
most say nothing anew, a caller goes on before its message or reads its answer, a
caller sends, the server answers or hangs up; so each part is proved for these kinds
of step and not for every action. `Left`, for the removal, says that an open socket
belongs to a listed session (`UpIsListed`) and that a listed session of a removed
connection is still ahead of the removal or of its own begin (`ListedIsAhead`).

### SshTunnelPool (`SshTunnelPoolProofs`)

- `TypeCorrect`: `Spec => []TypeOK`;
- `CountIsOfHolders`: `Spec => []RefsCountHolders`;
- `UsedTunnelIsOpen`: `Spec => []HeldTunnelIsOpen`.

The count is right only because the last user takes the tunnel out of the pool
before anyone else can share it. `HolderIsPooled` says so: who has not given its
reference back uses the tunnel pooled under its key, and nobody uses what was taken
out. With `PooledIsOpen`, `UsedBehindInsert` and `CountIsExact`, each step either
keeps the users of the pooled tunnels, adds one to one of them or takes one away,
with the count (`SameUsers`, `OneMore`, `OneLess`), and the cardinalities follow. A
leaked reference stays counted, so it keeps its tunnel open and pooled: the count is
exact in what it counts, and no more than that.

### ResultStream (`ResultStreamProofs`)

- `TypeCorrect`: `Spec => []TypeOK`, with the bound on the semaphore's permits;
- `ChunksInOrder`: `Spec => []InOrder`;
- `DoneIsComplete`: `Spec => []DoneMeansAll`.

What the subscriber got, its queue or the cache, the webview's events and the
channel are read as one sequence of numbers. `Counts(s, a, z)` says that `s` counts
from `a` up to `z`, which comes next, with at most one end between; `Flows` says that
there are `g`, `f`, `b` and `c` such that what was handed over counts from `g` to `f`
(and `g` is 1 unless a cache was swept), what is queued or cached from `f` to `b`, the
events from `b` to `c`, the channel from `c` to `next`. Each action moves one of the
borders (`CountsOn`, `CountsRest`). `DoneMeansAll` needs more: an end that is told is
true (`EndsAreTrue`), and the done of a complete stream is behind everything else
(`DoneIsLast`), because `Join` waits for the emit task; so whoever hears it finds all
the borders at the end (`AtTheEnd`). The bound on the permits comes from `Paid` and
`Owed`: no chunk is acknowledged twice, which holds as only chunks that were not
yet counted can still be.

### RowsWindow, TableLoads and RowEdits

`RowsWindowProofs` has what the transformations of the window return, once for both
modules above it: the types they keep, what `beginRowsStream` keeps of the old rows,
what a chunk adds.

`TableLoadsProofs` proves `TypeCorrect` (`TypeOK`), `ShowsItsLoad`
(`WindowShowsItsLoad`), `SpinnerIsWatched` (`RunningIsWatched`) and `NeverJoinsSettled`
(`JoinsOnlyInFlight`), for every set of tables, queries and loads. `OwnedByItsLoad` is the
core: a window belongs to a load of its table, at that load's offset, and it is
running exactly while that load still streams. `DeliversItsPage` bounds what an operation
delivers, and `JoinsDriving` strengthens `JoinsOnlyInFlight`: what is joined drives a stream
of its own, so joins do not chain.

`RowEditsProofs` proves `TypeCorrect` (`TypeOK`), `RowIsRecorded`
(`RecordedWhilePending`), `RecordedRowIsMeant` (`RecordedRowIsTheEdited`),
`SaveIsAboutEditedRows` (`SaveHitsEditedRows`), `SaveIsComplete` (`SavesAllItForgets`)
and `ShownIsPendingOrLoaded` (`UnsavedIsPending`), for every finite set of rows, any
pages and any values. That a recorded row is the one the user saw depends on what is on
the screen: `PendingIsOnPage` (turning is refused while changes are pending), `SameRows`
(window and cache agree whose row is at a position) and `UncachedIsRecorded` (a row
whose copy is gone, or about to go, is the recorded one). They hold until a refresh goes
astray, so `IInv` has them, as `Shown`, under `~ astray`; `LoadsThePage` is what makes a
refresh harmless before: the newest load is for the page shown. `SavesWhatIsPending`
says nothing is changed while a save is in flight, and `UnlikeCacheIsPending` gives
`UnsavedIsPending`. The rows of a page are distinct because `Rank` is injective, for
which the set of rows must be finite (`RankIsInjective`).

### Export (`ExportProofs`)

- `TypeCorrect`: `Spec => []TypeOK`;
- `TempFileIsOwned`: `Spec => []TempFileOwned`;
- `Refinement`: `Spec => ImplementsPublication`.

`IInv` is `TypeOK`, four conjuncts that always hold and four that hold until another
caller cancels the stream:

- `StartFirst`: until `start()` has settled nothing else of the run has begun;
- `GivenUp`: who gives the run up has marked it, and a cancel that waited for the
  handlers finds none afterwards;
- `OneAbort`: the session's id is given away once, by who aborts or publishes it;
- `Ended`: an end that was reported is the stream's;
- `CutIsOwn`: the stream is cut short only by a run that was given up, so the end
  that leads to a publication is behind every chunk;
- `CommitOwned`: while the run commits it is neither cancelled nor reported, and the
  session is held until it is reported;
- `WrittenInOrder`: the temporary file holds the first chunks in order, then the
  trailer;
- `FileIsWhole`: the destination is the whole once published, and before that old.

`CommitOwned` is why it is needed: `Publish` is safe because no `cancel()` passes
`committing`, and no abort because all of them begin with a mark or a report that
`HearDone` would have seen. None of it depends on what becomes of the temporary file
when its deletion fails. `PromisedStep` says what each step may do to destination
and report; with `ContentsKnown` that is a step of `Publication`.

## 7. What is only model-checked, and what is not modelled

Only model-checked: liveness under fairness, which is out of the proof system's reach
(`SlotEventuallyFree`, `EndReturns`, `SessionEnds`, `StreamEnds`, `SubscriberHears`,
`LoadSettles`, `Settles`), and the three runs that expect a violation. No definition is
recursive.

Not modelled:

- what section 2 plans; each hazard of it is listed with a note in `PROJECT.json`;
- of table loading, the row counts, sizes, structure and foreign keys beside the
  rows, and the loaders of engines without SQL;
- the runners of engines other than PostgreSQL and MySQL, beyond the class of
  control `Operations` gives them; the SQL editor's runner, which is one more
  consumer of the bus;
- row decoding, SQL classification and generation, the query analyzer, patches:
  pure functions over text;
- profiles, import, sharing, legacy web storage, data migration: parsing and
  one-time file copies;
- license and updater: remote services and local files;
- the user interface;
- `connection_test`, which opens a tunnel and a connection of its own and shares
  no state.
