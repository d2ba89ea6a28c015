# Metidos in TLA+

Metidos is a local server (Bun, `src/src/bun`) with a browser client
(`src/src/mainview`). It runs coding agents in *threads* of *projects*, starts
threads from *cron jobs*, lets *plugins* bring messages in from outside, and
keeps its data in one SQLite file. The server is one event loop: code runs
without interruption from one `await` to the next, and everything that can go
wrong between two steps goes wrong at an `await`, a timer, a child process or a
restart.

This directory holds TLA+ modules of the parts where such steps meet, the TLC
configurations that check them, and proofs for TLAPS.

Paths below are relative to `src/src/bun` unless they start with `src/`.

## 1. Inventory

| Component | State it keeps | Operations | What is hard | Correct when |
|---|---|---|---|---|
| **Thread turns** `project-procedures/thread-turn-runner.ts`, `thread-runtime-lifecycle.ts`, `thread-turn-runtime.ts`, `runThreadMessageInBackground` in `project-procedures.ts` | maps of run statuses, abort controllers, completions and runtimes; the thread row (`active_turn_started_at`, last outcome); activity rows | send, run, stop, settle, recover at start, delete thread or project, change model or access | a stop races the settlement; a row outlives the process; a write waits for SQLite; a thread is deleted under its turn | one turn per thread; a working thread can be stopped; nothing stays "working" or "stopping" for ever |
| **Cron** `sidecar-cron-scheduler.ts`, `sidecar-cron-runner.ts`, `cron-store.ts`, `rpc-handlers/cron.ts` | registrations; `activeCronJobIds`; rows of jobs and runs; child threads | fire, run now, claim, launch, monitor, report, create, edit, delete, sync, restart | claim against stale rows; timeout against a late child; edits that wait; failure in the middle of a launch | runs never overlap; fires are not lost; history is true |
| **Concurrency limiter** `project-procedures/shared.ts` | FIFO queue, count of slots | run, start, settle, release, abort | abort at any moment; settle and release are separate steps | slots never leak, nobody starves |
| **Activity persistence** `thread-activity-persistence.ts`, `pi-event-projection.ts` | pending writes, timers, flush chain, last signatures | queue, flush on a timer, flush a terminal state, flush all | a rejected flush poisons the chain; a timer's flush that nobody awaits | a completed turn lost nothing; what a running turn projects lands |
| **Thread detail cache** `thread-detail.ts`, `thread-status-coalescer.ts` | cached detail per thread, pending publications | read, invalidate, coalesce | a read that awaits caches what is stale | a detail read between turns is current |
| **Plugin ingress** `plugin/ingress-*.ts` | source timers, cursors, message records, links, reuse map | poll, batch, deduplicate, verify, link, route, mark processed | a source registered again in the middle of its batch; crash between two records; a busy thread; a message no record can hold | a message gets at most one turn, only of a linked user; the cursor passes nothing unaccounted; polling goes on |
| **Plugin sidecar manager** `plugin/sidecar-manager.ts`, `sidecar-main.ts`, `sidecar-host-router.ts`, `sidecar-rpc.ts` | `sessions`, one object and process per start; crash timestamps; pending calls, write queue and timers of each session | start, ready, call, cancel, time out, exit, crash restart, stop, retry | starts that overlap at an await; late exit events; a write queue that is full; timeouts against stops | one sidecar per plugin; a call is on its way or over; a doomed session ends |
| **Plugin lifecycle and settings** `plugin/lifecycle.ts`, `rpc-handlers/plugin-admin.ts`, `settings.ts`, `discovery.ts` | the lifecycle file: review hash and state per plugin; the queue of reconciliations in `index.ts` | discover, approve, enable, disable, retry, change, reconcile | the file is read, awaited and written back whole; files change under an approval | only what was approved runs; failures and disables stay |
| **RPC transport** `rpc-transport.ts`, `src/mainview/index.ts`, `src/mainview/rpc-request-queue.ts` | backend: pending requests per client and their count; page: sockets, attempts, the `connectionReady` promise, permits and queue | connect, request, answer, cancel, time out, evict, close, reconnect | counters at their limit on every exit path; connections that overlap; a socket in its closing handshake | the counters are exact; what one end gives up, the other does; live calls settle |
| **Authentication** `auth/` | sessions, step-up, throttles | log in, refresh, step up, reset | expiry at the boundary, throttle windows | no session outlives its revocation |
| **Rate limiters** `token-bucket-rate-limit.ts`, `fixed-window-rate-limit.ts`, `lru-map.ts` | buckets, windows | take, prune | window boundary, clock | never more than the budget |
| **Terminals** `terminal-manager.ts` | PTY records, attached sockets, replay buffer | open, attach, detach, write, exit, prune | exit while attaching | output is delivered once in order |
| **Pi runtime and tools** `pi/` | sessions of the external SDK, pending UI requests | prompt, abort, tool calls | external timing | outside; environment of the turns |
| **Git tools** `git.ts`, `pi/git-tools/` | none beyond the limiter's queue | run git | timeouts | limiter properties |
| **Web server share** `pi/web-server/` | shares, leases, worker messages | start, renew, expire, stop | messages between worker threads | an expired share is unreachable |
| **Calendar** `calendar/` | events, occurrences, notifications | expand, notify, export | recurrence at boundaries | expansion equals its definition |
| **Worktrees and projects** `project-procedures/project-worktree-lifecycle.ts` | pollers, open worktrees | open, close, poll | poll in flight while closing | a closed project is not polled |
| **Agent memory, model catalog, outbound policy, permissions, statistics, logging, migration, notifications** | caches and rows | sequential | little | unit-testable |
| **Browser client** `src/src/mainview` | React state (the transport is above) | render, refresh | retry after reconnect | - |
| **Core plugins, native code, website, deployment** | - | - | third-party or packaging | - |

How they interact: an RPC handler or a cron run sends a message to a thread
(call); a turn publishes lifecycle events, which reach the client, the cron
monitors and the detail cache (callbacks, synchronously in the event loop); the
scheduler reads cron rows only when somebody tells it to sync (shared state);
deletion of a project removes threads, turns, jobs and rows at once (shared
state); a restart repairs what the rows say about work that died with the
process (`index.ts:4040-4046`: recovery, then the scheduler, before requests are
served).

`PROJECT.json` lists every component with its status, and every hazard at the
line where it bites.

## 2. Modules

| Module | Stands for |
|---|---|
| `ThreadTurnContract` | the abstract turn of a thread: quiet, working, stopping, gone, or lost in a crash, with the outcome of the last settlement |
| `ThreadTurns` | the turns as the code runs them: rows, maps, promises, retries, injection, settlement |
| `CronRuns` | scheduler and runner; child threads are instances of `ThreadTurnContract` |
| `ConcurrencyLimit` | `createAsyncConcurrencyLimit` |
| `IngressStore` | the tables of plugin ingress: message records, bindings, a link code, the cursor of a source |
| `Ingress` | poll timers, overlapping polls, sessions, routing and reply contexts over `IngressStore` |
| `ThreadActivity` | message rows of a turn, the buffered writer, the detail cache and its readers |
| `PluginRuntime` | the sidecars and the lifecycle record of one plugin, and the tasks that work on them |
| `PluginCalls` | host calls into sidecars: registration, write queue, the sidecar's loop, answers, teardown |
| `RpcWire` | the connections between page and backend, as each end sees them, and the frames under way |
| `RpcTransport`, `RpcClient` | the two ends, both over `RpcWire` |
| `Rpc` | both ends together |
| `ThreadTurnsProofs`, `CronRunsProofs`, `PluginRuntimeProofs`, `PluginCallsProofs`, `IngressProofs`, `RpcProofs` | theorems and proofs of the module each is named for |
| `ProcedureProofs` | theorems and proofs of `ConcurrencyLimit` and `ThreadActivity` |
| `SequenceCounts` | counts and ranks in queues, with the lemmas the proofs cite |
| `MC...` | instances for TLC: symmetry, message streams, priorities |

`CronRuns` composes with `ThreadTurns` through the contract: `CronRuns` uses the
actions of `ThreadTurnContract` for its children (`Turns!Start`, `Turns!Remove`,
`Turns!Die`, `Turns!Recover`...), and run `turns_safety` checks that
`ThreadTurns` implements that contract (property `ContractSpec`, with the
refinement mapping `phaseOf`, `lastOf`). `Rpc` composes two
machines that share the variables of `RpcWire`: each step belongs to one end and
leaves the other's variables alone. `PluginRuntime` and `PluginCalls` look at the
same manager at two scales: the first at which session is started and stopped
when, without its calls; the second at the calls of sessions that come and go.

Definitions whose comment begins with "Variant:" are not the system: each is
the definition below it with a plausible mistake, and each property of the
passing runs fails under at least one of them.

### 2.1 ThreadTurns

State. Rows: `deleted`, `active` (`active_turn_started_at`, which turn it stands
for), `outcome` (`last_run_at` and `last_error_at` as the settlement they
record), `inProgress` (activity rows left in progress, and whether they are
older or newer than the last settlement). Maps of
`ThreadRuntimeLifecycle`: `status`, `controller`, `completion`, `runtime`.
Turns: `pc` (where `runThreadMessageInBackground` waits), `thread`, `session`,
`aborted` (its signal), `awaited` (somebody waits for its promise).
`accessPending` are the access updates that wait for the plugin inventory, `up`
says whether the process runs.

Actions, each a stretch of code between two awaits: `Send` and `Retry`
(`queueMessage`, with `withSqliteRetry`), `RuntimeReady`/`RuntimeFails`,
`InjectionDone`/`InjectionFails` (a plugin adds to the prompt), `WriteActivity`,
`PromptEnds`, `GraceEnds` (the trailing event wait), `Stop`, `DeleteThread`,
`DeleteProject`, `UpdateModel`, `BeginAccessUpdate`/`EndAccessUpdate`,
`AbortAll` (`shutdownActiveThreadTurns`), `Crash`, `Restart`
(`recoverInterruptedTurns`).

`Faults` names what may go wrong: `sqlite_busy` (the message write waits and
retries), `plugin_injection` (a plugin takes its time with the prompt),
`slow_inventory` (the access update waits), `clock_tie` (an activity and a
settlement carry the same millisecond).

Abstractions. An `await` of something that is already settled runs on before
any other task of the loop, so it is not a step. A deleted thread has no rows
that anybody reads. The prompt of an aborted session either resolves or rejects;
it may reject with an error that is not an abort error. The handling of an event
or the flush of the writer may throw under any turn that prompted, a stopped one
included, which settles it as failed. Exit and kill are both `Crash`.

### 2.2 CronRuns

State. Rows: `jobs`, `enabled`, `gone`, `lastRun` (job), `runRow` (history),
`untracked` projects. Children: `phase`, `last` (variables of the contract; a run
and its child thread share a name). Process: `up`, `loaded` (the runner module
was imported), `registered`, `activeIds`, `edits` (an update that waits).
Runs: `pc` (unused, importing, creating, monitoring, recorded, failing, failed,
done), `job`, `scheduled`, `verdict`, `cronTurns` (turns the runner started).

Actions: `Fire`, `RunNow`, `ImportDone`, `LaunchSucceeds`, `LaunchFails`,
`Timeout`; `Report`, which is `monitorCronJobRun` write by write: `ReportRun` and
`ReportJob` on the way it should go, `ReportFails` into its catch block,
`CorrectRun` and `CorrectJob` there, `MonitorThrows` when those writes fail as well;
`UserSends`, `TurnEnds`, `TurnLeaves` for the child threads;
`NewCron`, `BeginEdit`, `EndEdit`, `EditAtOnce`, `DeleteCron`, `DeleteProject`,
`SyncAll`; `Crash`, `Restart`. `RunById` (stale takeover, claim, or a statement of
them that throws) is the common part of a fire and a manual run.

`Faults`: `slow_import` (the first fire waits for the runner module),
`slow_inventory` (an edit waits), `project_deletion`, `sqlite_busy` (any write of the
runner may throw: the healing of stale rows, the claim, the audit event after it,
the records of a failed launch, the report and the correction of a failed report),
`clock_back` (a run is not dated later than the last one of its job, since the clock
was set back or both are of one millisecond: `last_run_date < runDate` refuses it).

Abstractions. A monitor that was told a status reports in a microtask: the guard
`Quiescent` lets nothing but a crash come between, or between the writes of the
report. A monitor that rejects also ends the server, through the listener for
unhandled rejections (`index.ts:4871`); that end is a `Crash` at any later time.
The creation of the child, its run row, the message and the subscription follow
one external wait and are one action. A run that is claimed and a job that is
edited are looked at through their sets; schedules, prompts and time zones are
data.

### 2.3 ConcurrencyLimit

State: the queue, the count, what became of each task, tasks that settled but
did not give their slot back (`releasing`), tasks whose signal fired. `Schedule`
says where its loop comes to an end: `Reached` are the positions it takes, each
with a slot left after those started ahead of it.

### 2.4 IngressStore and Ingress

A message is its position in the stream of the source (`Inbox`), a cursor is the
position of the last message it covers, a thread is named by the message it was
created for. One source of one plugin and one link code.

State of `IngressStore` (survives a crash): `status` (the message record),
`limited` (only a rate limit marker was left), `binding`, `code`, `consumer`,
`cursor`. State of `Ingress`: the session (`ready`, `held` for
`ingressSourceIds`, `startup` for a `startPlugin` that is about to register),
the source objects (`src`, `current` for the one in the scheduler's map, `made`),
the `pollNow` of each object (`run`), the reuse map (`window`), the reply
contexts (`context`), the turns of the threads (`turn`, `sent`, `deleted`).
`lost` marks what a crash left verified.

Actions, each a stretch between two awaits: `StartSession`, `FinishStartup`,
`Resync` (a plugin sync registers a current session again), `StopSession`;
`TimerFires`, `PollAnswers`, `PollFails`; for the batch `ResolveSource`,
`ProcessMessage` (skip, link, refused, unverified, verified), `LinkConfirmed`,
`EndBatch`; for the routing `RouteKnown`, `PromptRendered`, `PromptFails`,
`ThreadCreated`, `SendMessage`, `MarkProcessed`; `Administration`, `TurnEnds`,
`DeleteThread`, `WindowPasses`, `Crash` (also between the consumption of a link
code and the record of its message).

What makes it hard: `removeSource` cancels the timer and the request of a source
object, not the batch it is in. A sync in the middle of a batch makes a new
object, which polls from the stored cursor, so two batches with the same
messages run side by side; the old one sets a timer on its way out, which fires
for the new one.

`Faults`: `poll` (the plugin throws), `reject` (conversation, images, route,
permissions or project are refused), `render`, `create`, `send`, `delete` (the
operator deletes a thread), `stop` (sessions end), `expire`, `unbind`.

Abstractions. The threads only have the guard of `queueMessage` that refuses a
thread with a turn; `ThreadTurns` has the rest. Delays are not measured, so
back-off and the "degraded" label are left out, and windows end at any time. The
plugin answers with at least one message after the cursor and with the cursor of
the last. The retention sweep (a day and more), the reply guard, audit events and
recipients are left out.

### 2.5 ThreadActivity

State: the turn and the last outcome; `version` (the last state of each activity
that was projected) and `rows` (the state in `thread_messages`); the writer of
`thread-activity-persistence.ts` (`entries`, `flushTimer`, `poisoned` for a
rejected `flushChain`), `eventError` of `runThreadMessageInBackground`; the detail
cache of one thread and its validation key (`stamp`); what each read in flight
has built (`reader`). `mine` are the activities of the turn or of the last one.

Actions: `Queue` and `QueueTerminal` (an event is projected; a terminal state is
flushed before the next event), `FlushTimerFires`, `StartTurn`, `Stop`, `Settle`
(`flushAll` and the settlement), `ReadBegins` and `ReadEnds` (two halves of
`buildThreadDetail`, around its wait for previews).

Abstractions. `flushEntries` awaits promises that are resolved already and then
writes one transaction, so a flush is one step, which writes all or nothing. The
interval of an entry may be over or not whenever the timer fires. A reader knows
the thread it asks for, so the key is compared.

### 2.6 PluginRuntime

State. Files: `disk` (the review hash of the plugin's files), `record` (its record
in the lifecycle file). Manager: `proc` (session object and process of each start),
`listed` (`sessions.get`), `crashes`. Server: `reconciler` and `pending`
(`pluginRuntimeReconciliationPromise` and the request behind it). `task` are the
asynchronous activities in flight, each with what it read before its last await:
the plan (the hash to start), the copy of the record, the session it stops. The
history variables `approved`, `overlapped` and `requests` are not in the code.

Actions, each a stretch between two awaits: the operator's `EditFiles`, `Act`,
`Acted`, `Refresh`, `Look`, `Request`, `RequestFresh`, `WriteOther`,
`WroteOther`; `ReadRecord`; `Sync`, `Keep`, `Halt`, `Retry`
(`startApprovedPlugins`, `stopSession`, `retryPlugin`); `Spawn`, `PrepareFails`,
`Ready`, `StartFails`, `Activated`, `Failed` (`startPlugin`); `ProcessExits`,
`StoppedExits`, `StartingExits`, `Crashes`, `WindowPasses`; `HostRestarts`.

What makes it hard: nothing locks. An approval starts plugins by itself while the
reconciliation at startup does, a crash restart is nobody's task, and each writer
of the lifecycle file writes back what it read.

Abstractions. One plugin; another plugin's record is `WriteOther`. Settings are
"as they were" or "changed" (`Keep`). Of the preparation only its hash check is
told apart from its other failures. The cache of static model providers and the
data reset are left out.

### 2.7 PluginCalls

State: `call` and `owner` of each request id, `session` (stopping, queued writes),
`sidecar` (process, `inbox`, the request it is `running`, `answers` not read yet),
`listed`.

Actions: `Open`, `Refuse`, `Invoke`, `Overrun` (the write queue is full), `WriteEnds`
(delivered or not, reported as written or not), `CallerAborts`, `TimerFires`,
`StopSession`, `HostReads`, `ExitNoticed`; in the sidecar `TakeFrame`, `Answer`,
`Exits`.

The sidecar takes its frames one by one, so a cancellation is seen after the
request it aims at was answered; `TakeFrame` therefore does nothing with it, and
its id stays in `cancelledHostRequestIds` of the sidecar. Payloads and framing are
left out, and so are calls from the sidecar into the host.

### 2.8 RpcWire, RpcTransport, RpcClient, Rpc

`RpcWire`: `readyState` (the page's end of each connection), `client` (the
backend's), the frames `up` and `down`. A frame on a connection that is not open
is lost.

`RpcTransport`: `pendingRequests` per connection and `pendingRequestCount`.
Actions: `Accept`, `Register`, `TurnAway`, `CancelRequest`, `HandlerEnds`,
`RequestTimesOut`, `EvictClient`, `NoticeClose`. Every response may fail to be
sent, which closes the connection (`CloseClient`).

`RpcClient`: `phase` and `socketOf` of each call; the queue and `activeCount` of
`RpcRequestQueue`; `socket`, `attempt`, `ready`, `enabled`, `reconnectTimer`.
Actions: `SendRequest`, `Acquire`, `NotReady`, `AbortUnsent`, `AbortPending`,
`EnableRpcTransport`, `DisableRpcTransport`, `ReconnectTimerFires`,
`TicketIssued`/`TicketFails`/`TicketRefused`, `OpenEvent`, `MessageEvent`,
`ClosingTask`, `CloseEvent`. Continuations run before the next task of the page
(guard `Idle`); `Finalize` gives freed permits to the queue in the same step.

`PageFaults`: `closing` (the page sees the closing handshake before the close
event), `overlap` (the page disables the transport while an attempt is under way).

Abstractions. Ids are used once. A handler that was cancelled or timed out may run
on without the transport. Rate limits may refuse any request. Priorities are ranks.

## 3. Runs

| Run | Instance | What it shows |
|---|---|---|
| `turns_safety` | 2 threads, 3 turns, prompt injection | all safety properties of the turns, and refinement of the contract |
| `turns_contended` | 1 thread, 2 turns, all faults, fair | with retries, waits and equal timestamps aborted turns settle and stopped threads reopen |
| `cron_safety` | 1 job, 3 runs, slow import and inventory | runs do not overlap, registrations follow the rows, fires are honoured |
| `cron_faults` | 1 job, 2 runs, all faults, fair | the history is truthful and final whatever write of the runner fails, but for the `Errored` of a report that failed; claimed runs end |
| `limit` | 4 tasks, 2 slots, fair | the limiter |
| `ingress` | 2 users, 3 messages, the last one refused, 2 source objects, 1 crash, fair; everything on the way fails | at most one turn for each message, only for linked users, records that tell the truth, a cursor that passes nothing unaccounted; polling never stops; messages are accounted for; verified messages settle |
| `activity` | 2 activities of 2 states, 2 turns, 2 readers, fair | completed turns lost nothing, details read between turns are current, projections land |
| `plugin_runtime` | 2 tasks, 2 processes, 2 versions, a crash threshold of 2, 4 requests | only approved code runs; one sidecar, no sidecar after a failure, failures that stick, as long as tasks do not overlap |
| `plugin_calls` | 3 calls, 1 session, 2 in flight, 2 queued writes, fair | pending calls are tracked; doomed sessions end |
| `rpc` | 2 calls of two priorities, one with a timeout, 2 connections, 1 permit, fair | exact counters, tracked calls, abandoned requests end, live calls settle |
| `double_send` | 1 thread, 2 turns, busy database | finding 1 |
| `two_sidecars` | 2 tasks, 2 processes | finding 2 |

Bounds. Turns of different threads meet only through a project, so two threads
show it, and three turns let one thread have a turn that is stopped, one that
follows and a third on the neighbour. Runs of different jobs do not share rows;
one job with three runs has a run that timed out, one that overlaps and one that
is refused. `turns_contended` and `cron_faults` use two turns and two runs, since
liveness allows no symmetry reduction. Two slots and four tasks give two that
wait, one of which overtakes if the order is wrong. Two source objects are one
that was removed in the middle of its batch and one that replaced it, or one
before and one after a crash (`MaxSources`, `MaxCrashes`). Two tasks of
`PluginRuntime` are what a race needs, two processes an old one and its successor,
and two crashes reach the threshold with one restart before it; an edit, an
approval and two more requests fit into `MaxRequests`. One session of
`PluginCalls` suffices for what is checked of it, since sessions share nothing but
`listed`; three calls fill the two slots, and two queued writes are a request and
the frame that ends it. One permit and two calls make one wait behind the other;
two connections are one and the one that supersedes it. Two states of an activity
are a first and an update, two turns the one before and the one that follows. No counter is unbounded:
each turn, run or task is used once, and a run stops when they are used up,
which is why deadlock is not checked.

Fairness. `ThreadTurns`: timers fire (`Retry`, the grace period), a turn whose
signal is aborted moves on (the SDK reacts to `abort`), a dead process is
restarted. Nothing is assumed of a prompt that was not aborted. `CronRuns`: the
import and the launch answer, the deadline fires, microtasks run; nothing is
assumed of a child. `Ingress`: timers fire, sidecar requests end (they have time
limits), continuations run, turns end; a plugin that is polled over and over
answers at some time (strong fairness, since polls may fail in between). Sessions
need not start again: `EveryMessageAccounted` is conditional on a plugin that
stays registered. `ThreadActivity`: the timer fires, and some time when every
interval is over. `PluginCalls`: writes end (`sidecarWriteTimeoutMs`), a process
that was killed ends, its exit is noticed; nothing is assumed of a sidecar's
answers. `Rpc`: continuations run, frames that arrived are heard, a connection
closed by one end is closed at the other, timers fire; nothing is assumed of
handlers, callers or reconnection. `PluginRuntime` has no liveness property and no
fairness. `ConcurrencyLimit`: callbacks end (git and fetch have
timeouts) and `finally` runs.

### Findings

1. `double_send`: two messages sent while SQLite is busy both start a turn.
   `queueMessage` checks, waits for the message write
   (`thread-turn-runner.ts:130`) and launches without another look. Hence the
   theorems on single turns assume that the write does not wait.
2. `two_sidecars`: two callers that start approved plugins at once both find no
   session, await their preparation and spawn (`plugin/sidecar-manager.ts:1029`,
   `:2129-2183`, `:2214`). The map keeps the second; the first runs on with its
   cron schedules, out of reach of disable, retry and shutdown. Hence the other
   properties of `PluginRuntime` are stated for tasks that do not overlap, except
   `OnlyApprovedCode`, which holds in any case.

More disagreements are visible in the models without a run of their own. The
modules state the properties named here; a configuration that lists one shows the
counterexample.

- `StopIsFinal` of `ThreadTurns` fails: a stopped turn that ends with an error
  other than an abort error, of the prompt, of the handling of an event (`:2481`) or
  of a flush (`:2487`), is settled as failed (`project-procedures.ts:2597-2618`).
- `FiresAreHonoured` fails with `sqlite_busy`: when the records of a failed launch
  cannot be written, the job stays in `activeCronJobIds` until the process ends
  (`sidecar-cron-runner.ts:445-474`), and a claim that throws drops its own fire. It
  fails with `clock_back`: until the clock has passed the date of the last run, the
  claim refuses the job (`db.ts:5003-5006`).
- `RecordsStay` and `ErrorsAreTrue` of `CronRuns` fail with `sqlite_busy`: when
  `updateLastRun` throws after `updateRunStatus` committed "Completed", the catch
  block writes "Errored" over it, for a child that ran to its end
  (`sidecar-cron-runner.ts:322-328`). `RecordsAreFinal` and `RecordsAreTruthful` allow
  a monitor exactly that, and nobody anything else.
- `EveryMessageAccounted` is stated up to the first message that `validateInput`
  refuses (no text, more than 16000 characters, an odd identifier): such a message
  fails the poll, and each later poll at the same place
  (`ingress-batch-processor.ts:248`, `:272`). Only the path of an unregistered
  source swallows the error.
- `TurnsKeepTheirContext` of `Ingress` fails: a second message while the turn of the
  first one runs is refused by the busy thread, and its failure deletes the reply
  context of the thread (`ingress-capability.ts:517`): the running turn cannot
  answer any more.
- `PendingIsOnLiveSocket` of `Rpc` fails: when a connection is lost, the permits of
  the rejected calls go to queued ones, which register and send on the dead socket
  (`src/src/mainview/index.ts:1075`) after "Fail and clear every in-flight request"
  (`:535`); they end by their own timeout only.
- `NeverFrozen` of `Rpc` fails with `closing`: `waitForOpenSocket` (`:985-991`) asks
  again without a pause while `connectionReady` is resolved and the socket is not
  open, and no task of the page runs any more; the comment at `:377` has requests
  await the reconnection. `LiveCallsSettle` leaves that case out.
- `OwnFailuresOnly` of `PluginCalls` fails: the answer to a call that was withdrawn
  matches none in flight and fails all of them
  (`plugin/sidecar-manager.ts:2083`). A test expects that of wrong ids
  (`plugin/sidecar-manager.test.ts:5289`); that a withdrawn call sends one is not
  tested.
- `DisableSticks` of `PluginRuntime` fails: a late activation or a stale copy of the
  lifecycle file writes "active" over a disable.
- `LiveReadsAreFresh` of `ThreadActivity` fails: while a turn works, a read that
  began before a flush fills the cache after it, with a key that still matches.
- A timer's flush that rejects is awaited by nobody; the listener for unhandled
  rejections ends the server (`thread-activity-persistence.ts:128`, `index.ts:4871`).
- A session that a timeout terminated is not started again before the next
  reconciliation; and a request with an older inventory can replace a newer one in
  `pendingPluginRuntimeReconciliation` (`index.ts:974-984`).
- `AccessChangesAtRest` fails with `slow_inventory`: the status is checked before
  the wait for the plugin inventory, the access is written after it
  (`project-procedures.ts:4772-4824`).
- `DeletedJobsStayDisabled` fails with `slow_inventory`: the same shape in
  `updateCronProcedure`; a job deleted meanwhile is enabled again
  (`project-procedures.ts:4290-4345`).
- `DisabledJobsDoNotFire` fails with `slow_import`: a scheduled fire claims with
  `includeDisabled: true` (`sidecar-cron-runner.ts:567`).
- `ScheduledLaunchCap` fails with three jobs: scheduled fires bypass the cap of
  two launches (`sidecar-cron-scheduler.ts:123`).
- `RecoveryKeepsSettlements` fails with `clock_tie`: the comparison at
  `thread-turn-runner.ts:239` is `>=`.
- `RegistrationsFollowRows` fails with `project_deletion`:
  `deleteProjectProcedure` does not sync the scheduler; the fires that remain
  are refused by the claim.
- `src/UBIQUITOUS_LANGUAGE.md:140` promises one dedicated thread for a user and
  window. In two overlapping batches `ThreadCreated` may run twice for one user;
  the window then names the later thread (`ingress-thread-router.ts:316-327`).

## 4. Proofs

The proofs hold for any sets of threads, turns, projects, jobs, runs, tasks,
processes, versions, messages, users, calls, sessions, connections, activities and
readers, and for any limits. The only assumptions on constants are the named ones of
each module, which give their types. Some theorems assume that one fault is absent;
the fault is named in the theorem, and section 3 has the run or the disagreement that
shows why it must be. A lost write lock, a slow inventory or a tied clock is not
excluded from the model: the runs and all other theorems have them.

Every safety invariant and every action property of the passing runs is stated by a
theorem, and so is the refinement of the contract.

**ThreadTurnsProofs.** `RegistryInv` ties the maps to the turns: what
`controller`, `completion` and `active` name is a live turn of that thread. It
is needed because `StopIsAvailable` alone says nothing of the turn that
`Release` is about to remove. It is inductive under all faults and gives
`TypeCorrect`, `WorkingThreadsCanBeStopped` and `NoGhosts`.

`TurnInv` adds, without `sqlite_busy`, that a live turn is the one its thread's maps
name until it is aborted, and that a deleted thread's turn is awaited; it gives
`OneTurnPerThread`, `RunningTurnsAreShown`, `DeletionNeverExits` and
`StopsNeverSucceed`. The assumption is necessary, see finding 1.
`RunningTurnsAreShown` and `StopsNeverSucceed` state `RunningTurnIsShown` and
`StoppedNeverRan`, which no run repeats.

Two invariants stand on `TurnInv`. `RuntimeInv` says that a turn nobody aborted has
registered the runtime it was given, or is about to register its own. With
`slow_inventory` an access update may drop the runtime of a running turn
(`AccessChangesAtRest` in section 3), so `StopsReachTheSession` assumes it away.
`RowInv` says what the rows, the only thing a restart has, tell of turns that are
gone: in-progress activity without an active turn is older than the settlement, or
belongs to a stopped turn. It gives `RecoveryIsFaithful`, without `clock_tie`, since
the recovery compares with `>=`.

`TurnsKeepTheContract` is the refinement: with `phaseOf` and `lastOf` every step is a
step of `ThreadTurnContract` or a stutter. A launch is `Start`, a stop `Stop`, a
deletion `Remove`, a crash `Die`; the restart is `Recover` because `RowInv` makes the
rows name exactly what was lost. It assumes away `sqlite_busy` and `clock_tie`, as the
two invariants do.

**CronRunsProofs.** `RunInv` has the core `Claimed`: a run between claim and
report is the only one of its job, the job is in `activeIds` and its row says so.
Overlap is impossible because the takeover of stale rows requires the job to be
absent from `activeIds`. It gives, under every fault, `CronTypeCorrect`,
`RunsNeverOverlap`, `TurnsNeverOverlap` and `RecordsNeverChange`, the last with the
exception that a monitor whose report failed makes; without `sqlite_busy` also
`ActiveIdsAreExact`, and without `clock_back` either `NoFireIsLost` (section 3 says
why); without `project_deletion` `RegistrationsAreExact`. `NoTwoCronTurns` and
`ActiveIdsAreOwned` are proved and not run.

`ChildFollowsRun` follows the child thread: fresh until the launch, at work until the
monitor is told, and a verdict agrees with the outcome of the turn. With `RunInv` it
gives `RecordsTellTheTruth` under every fault, with the same exception. Without
`sqlite_busy` no run enters the catch block (`ReportsSucceed`), and `RecordsStayTrue`
has both without an exception: `RecordsStay` and `ErrorsAreTrue`.

**PluginRuntimeProofs.** `HashInv` says that every hash carried by a task, a copy of
the lifecycle record, a pending request or a session was approved once. It is
needed because `OnlyApprovedCode` says nothing of where the next hash comes from.
Stale copies do no harm, since approvals are never forgotten; `Acted` is the one
step that makes a new hash, and approves it in the same step; `Spawn` compares the
files with the plan. `ApprovedCodeRuns` holds with overlapping tasks and host
restarts.

`LoneInv` is about the time before tasks overlapped (`~overlapped`; afterwards two
sidecars are possible, finding 2). No lock protects the snapshots a task takes, so the
invariant says, point by point, which of them are still true: what the record and
the map hold while the task stops, prepares, awaits, activates or gives up. It gives
`OneSidecarWhenAlone`, `FailedStaysDown` and `FailureIsForTheOperator`.

**PluginCallsProofs.** `CallsInv` counts: the frames of a call in the write queue, in
the inbox, at work or among the answers of its session are at most one, they are in
no other session, and a pending call belongs to the listed session and is there once
unless the process is dead. Shutdown frames are counted too, since a session that
has written one is stopping. It gives `CallTypes` and `CallsAreTracked`, for exits,
failed writes, aborts and timeouts at any point.

**IngressProofs.** `IngressInv` lets batches overlap as the code does. What keeps them
apart is that the record of a message is written "verified" in the step that finds
none, so at most one batch routes it (`RunsFit`); a cursor, of the row or of a source,
covers only messages with a record or a rate limit marker (`CursorsFit`), and those
are never taken back. `TablesFit` relates bindings, the link code, records and turns;
`SourcesFit` says that the source in the map is polled exactly while it is in
flight; `NothingForgotten`, that only a crash leaves a record "verified" with no batch
that routes it. It gives, with crashes, failing polls and any number of sources,
`NoMessageIsPassed`, `RecordsTellTheTurn`, `TurnsAreOfLinkedUsers`, `PollingGoesOn`
and `OneTurnOnly`, and beyond the runs `VerifiedIsRouted` and `OneUserPerCode`.

**RpcProofs.** `RpcInv` is about both ends at once. A call is in at most one place on one
connection: its request under way, pending at the backend, or its answer under way;
a call that has no permit yet is in none (`PlacesFit`). That is what makes the two counters
exact: the backend never registers a request it has, and the page never gives a permit
back twice (`CountersAreExact`). `LiveFit` adds that on a connection open on both ends
a pending call is in exactly one place (`LiveCallsAreSomewhere`). The page alone is
argued through its queue, which may hold no call twice, also after `Without` filtered
it.

**ProcedureProofs.** The limiter: `LimitInv` says that who waits is in the queue
once, that the tasks which run or are about to give their slot back are what
`activeCount` counts, and that nobody waits while a slot is free. The last part makes
the loop of `schedule` exact: an abort takes a task from the middle of the queue and
frees nothing. It gives `SlotsNeverLeak`, `SlotsAreUsed`, `AbortsAreHonoured` and
`FirstComeFirstServed`.

The activity: `WriterInv` says that as long as no write failed, what is not in the
buffer is in the rows. `ReadInv`: a detail carries a key no newer than the present
one, and one with the present key between turns has the present rows. Together they
give `CompletedTurnsLoseNothing` and `SettledDetailsAreFresh`.

**SequenceCounts.** How often values occur in a sequence, what `Append`, `Tail` and
concatenation do to that number, and the rank of an element in a finite order.

Only model-checked: the liveness properties (`AbortedTurnsSettle`,
`StoppedThreadsReopen`, `ClaimedRunsEnd`, `EveryTaskSettles`, `EveryMessageAccounted`,
`VerifiedSettles`, `DoomedSessionsEnd`, `AbandonedRequestsEnd`, `LiveCallsSettle`,
`ActivitiesLand`). They need fairness, hence `ENABLED`, which is out of the prover's
reach. `SingleTurn` with `sqlite_busy` and `OneSidecar` with overlapping tasks are
false (findings 1 and 2).

## 5. Not modelled

In the modelled parts: a settlement write that fails; a
runtime that becomes ready for a thread already deleted; a failing detail read
after a launch; the cap on registrations; a job moved to another project;
`runDueCronJobs`, which only tests call; SQLite retries of the message that a
cron run sends (the contract does not hold there, finding 1); eviction from the
detail cache, equal signatures, inputs written without the buffer and ties of
timestamps (`ThreadActivity`); other plugins, data resets and cached model providers
(`PluginRuntime`); duplicate request ids, encoding failures of parameters, the
development server and handlers that run on (`Rpc`).

Not modelled at all: what `PROJECT.json` marks `not_modelled`. Much of it is I/O,
string policy or plain SQL. What has interleavings of its own is in the plan.

## 6. Plan

Done: the turns, cron, the limiter, ingress, thread activity, the plugin runtime and
its calls, the RPC connections, and the theorems above.

Next, in this order:

1. Proofs: `VerifiedIsRouted` for the replies of a thread (the reply guard, when it
   is modelled); `RuntimeInv` and `RowInv` under weaker assumptions than the absence of
   a fault (an update or a tie on another thread does no harm).
2. An abstract inbox (each message recorded once, at most one turn) that `Ingress`
   implements, and the reply guard.
3. Calls from a sidecar into the host, beside `PluginCalls`.
4. `WebServerShare`, `Terminals`, `WorktreePolling`.
5. Algorithms against reference definitions over bounded inputs: `RateLimits`,
   `CalendarRecurrence`.
6. `AuthSessions`.
