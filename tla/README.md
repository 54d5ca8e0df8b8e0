# A TLA+ model of encv-go

encv-go is an AES-256-CTR encryption toolset: a container format with streaming
decryption, a server (HTTP, WebDAV, a proxy for OpenList) and a mobile back end
that runs encryptions, decryptions, file operations and index rebuilds as tasks.
This directory models the parts of it where goroutines, persistence and restarts
meet; TLC checks the models on small instances and TLAPS proves their main safety
properties for every value of the constants.

    tlasany M.tla                              parse
    tlc -workers 2 -config X.cfg M             check (section 8 lists the runs)
    tlapm TaskManagerProofs.tla                prove

## 1. Inventory

State, operations and interactions of the components, with what makes each
correct. PROJECT.json lists all of them with their files and status.

| Component | State | Operations | Hard behaviour | Correct when |
|---|---|---|---|---|
| Task manager (`internal/service/task_manager*.go`) | `tasks` map and the `MobileTask` objects, under `mu`; `stopCh`; a `cancelFn` per task | Create, Cancel, CancelByRunId, ResumeTask, Retry, RemoveTask, ClearCompleted; `worker` → `dequeue` → `processTask`; Stop; `loadTasks` | handlers and workers change a task between each other's critical sections; objects are used after they left the map; cancellation races completion | a task is started once per request; a running or cancelling task has a worker; nothing is called completed that did not succeed; every queued task is served; Stop returns |
| Progress persister and store (`task_manager_progress.go`, `pkg/tasksystem/store`) | `dirtyTasks` under `dirtyMu`; rows | `markDirty`, `flushDirtyTasks`, `persistTaskWithRetry`, `saveTasks` | copies are taken and written without a lock; writes fail; crashes | rows never claim more than happened; a restart shows no work that nobody does |
| Kernel pool and ledger (`internal/kernel/pool.go`, `pool_restore.go`, `lifecycle.go`) | `jobCh`, `closed`, `ctx`; ledger records | Submit, `worker`/`execute`, retry, Stop, StopWithTimeout, Restore, CancelJob | retry goroutines outlive their worker; Stop races Submit and retries; channel full or closed | a recorded end is true; an unfinished job stays pending; Stop returns; nobody waits for itself |
| Micro-kernel (`microkernel.go`, `service_lifecycle.go`, `tenant.go`) | service state, reference count, idle timer; tenant counters | Call, activate, deactivate, Allocate | activation races deactivation; forced deactivation after the grace | an active service is usable; quota is returned |
| Pairing hub (`internal/peerlink/hub.go`, `store.go`) | tickets, used tickets, peers, session tokens, under `Hub.mu`; two files | issue, redeem, pair, unpair, sweep, heartbeat, restore | copies are taken under the lock and written outside it; restart | a ticket pairs one device; what was spent, paired or unpaired stays so |
| Peer calls (`rpc.go`, `conn.go`, `edge.go`, `agent.go`, `internal/server/peerlink_agent_*.go`) | registered connection, waiting callers, slots; on the device an Edge, the idempotency table, open questions | call, deliver, time out, reconnect, approve, run a tool | lost answers, repeated calls, replaced connections, late decisions | a tool runs once and with consent; slots are returned; nobody waits in vain |
| Peer limits (`peerlink_limits.go`) | hits of each window, quota, breaker | allow, consume, record | clocks read before the lock; bytes known only afterwards | limits are kept up to what is under way; an open breaker closes |
| Bundles (`internal/bundle/apply.go`) | target, backup, staging, version label | apply, roll back | failing steps, the end of the process | a version survives; what is reported is in place |
| Rollback, trash, file tasks (`internal/service`) | the user's files, trash rows, task fields | move, copy, rename, delete, restore, purge, roll back | checks and renames apart; half-done copies; requests while tasks run | no content is lost without the user's doing; the trash lists what it holds |
| WebSocket hub (`ws_hub.go`) | clients, send buffers, two pumps each | register, broadcast, ping, unregister | a client leaves while it is sent to | nobody sends on a closed buffer; pumps end |
| File handles (`internal/v2/reader/file_handle_pool.go`, `file_container_reader.go`) | one handle and count for each path | Get, Put, Close; open, read, close a container | a forced close under a reader | a handle is closed once, after its last user |
| Container streams (`internal/v2/writer`, `internal/v2/reader`) | the piece being written, CRCs, offsets; a reader's fragment, decryptor, offset | write, seal, seek, read | counters after seeks; block boundaries; failed seeks | what is read is what was written; damage is reported |
| Agent session (`src/agent`) | messages of each loop, suspended call, grants, queue | chat, run a tool, confirm, queue | two loops of one session; stale copies of the history | a tool runs once, with consent; every request is answered |
| Crypto, file names (`internal/v2`) | keys | encode, decode | computation on bytes | round trips |
| Plugins (`internal/v2/plugins`) | registry; fields of shared instances | encrypt, decrypt | instances shared by workers | a task uses its own options |
| Mounts, WebDAV, OpenList, server boot | registries, tokens | route and adapt | start order | see PROJECT.json |
| Simverse, search, memory, skills, public library | own state | see PROJECT.json | mostly sequential or I/O | see PROJECT.json |

How they interact. HTTP handlers (`internal/server/mobile_tasks.go`) call the task
manager; its workers call plugins, file operations or the FTS rebuilder and report
through the broadcaster to WebSocket clients; `updateProgress` marks tasks dirty for
the persister, which writes to the store. At boot `NewMobileService` calls
`NewTaskManager` (no store, JSON file, no persister), and `db_init.go` then calls
`ReplaceStore`; `NewTaskManagerWithStore` is the variant that loads the store and
starts the persister. The kernel pool `task-manager` (four workers, queue of 64,
ledger on, no job timeout) is started by `server.go` behind an environment variable,
under `Lifecycle`, which runs Start with Restore, and Stop, one at a time.

A hub and its devices are two instances of the server. A device pairs with a ticket
over HTTP, then opens a WebSocket; requests that the hub's user makes become frames on
it, under the limits of `peerlink_limits.go`, and the device's Edge answers them: it
reads files, runs tools after asking its user, or installs bundles. File tasks are run
by the task manager's workers, while the trash and rollback APIs act on the same files
from HTTP handlers. Readers of one container share file handles through a global pool.

## 2. Plan

Written, in this order:

1. `WorkQueue`: the abstract promise of a pool of workers over a table of tasks.
2. `TaskManager` with `MCTaskManager`, which implements it; `TaskManagerProofs`.
3. `KernelPool` with `MCKernelPool`; `KernelPoolProofs`.
4. `ServiceLifecycle` with `MCServiceLifecycle`; `ServiceLifecycleProofs`.
5. `PairingHub`, `PeerLink`, `PeerLimits`, `BundleUpdate`: the link between hub and
   device; `PairingAndLimitsProofs`, `PeerLinkProofs`.
6. `WSHub`; `HandlePool`; `FileTasks`; `FilesAndHubProofs`, about bundles too.
7. `ContainerStream` with `ContainerStreamProofs`, about handles too; `AgentSession` with
   `AgentSessionProofs`.
8. `MCParts` and `MCLiveness`: the instances of 5 to 7 (and of 4 under fairness).

Next: the tenants' quota and the task manager without a store (JSON file), which share
the bounds of what exists; the plugin registry, whose instances are shared by workers;
mounts; the simulation's scheduler.

## 3. The task manager

`TaskManager.tla`. A step is what the code does under one acquisition of `tm.mu`, or
one read or write outside it. Each goroutine has a place `pc[a]` and its locals:
`on` (the task it holds a pointer to), `ids` (ids it has collected), `todo` (tasks it
still has to persist), `snap` (the copy it is about to write).

| Model | Code |
|---|---|
| `status`, `kind`, `hasRun`, `ctxOf`, `ctxDone` | fields of `MobileTask`; `ctxOf[t]` is the worker whose context `cancelFn` cancels |
| `inMap` | the keys of `tm.tasks`; an object may be used after its key is gone |
| `row` | the store's rows, reduced to status and whether the run metadata is there |
| `Create`, `SetRunMeta` | Create, and the assignments of CreateWithExtras and CreateWithRunMeta that follow without the lock |
| `Cancel`, `CancelByRunId`/`CancelNext`, `ResumeTask`, `Retry`, `RemoveTask`, `ClearCompleted`, `saveTasks` | the handlers; those that collect under the lock and act later are two steps |
| `dequeue`, `StartWork`, `updateProgress`, `CryptDone`, `FileDone`, `Rebuild…`, `failTask`, `NextTask` | `worker` and the process functions, with their outcome chosen freely |
| `Snapshot`, `Upsert` | `mobileTaskToData`, and the write of that copy later; with `StoreFails` a write may fail three times |
| `TakeDirty`, `SelectUnfinished`, `Flushed` | `flushDirtyTasks`, periodically and once after Stop |
| `Stop`, `WorkerExits`, `Restart` | `Stop`, the check of `stopCh`, a crash or exit followed by `loadTasks` |

Abstractions. A write to the store with its retries is one step. Progress,
steps, error texts, broadcasts are left out. For an encryption the context only
decides how soon the plugin returns, which may be any time; so only rebuilds, whose
code reads `ctx.Err()`, record it. The auxiliary `succeeded` holds the tasks whose
operation once returned without error; no guard reads it. Fields written without
`tm.mu` (run metadata, `cancelFn`) are one atomic step here.

Checked:

* `RunningIsOwned`, `CancellingIsOwned`: whatever was cancelled, retried, removed or
  interrupted, a task in the table that says *running*, or *cancelling* when it is a
  rebuild or a file operation, has a worker on it. The hazard is that a worker settles
  a task by id after it left the table, that Retry queues a running task so that two
  workers have it, and that rows read at boot say anything.
* `NoFalseSuccess`: neither table, copies nor rows say *completed* without success.
* `ImplementsWorkQueue`: with `requested` mapped to the queued tasks of the table and
  `executing` to what the workers hold, the manager implements `WorkQueue`.
* `QueuedIsServed`, `CancelResolves`, `StopReturns` under fairness.
* Two runs show where code and documentation part (section 8).

## 4. The kernel pool

`KernelPool.tla`. A step is one access to the channel, the ledger, the closed flag or
the context. `ledger` is the only thing that survives a crash. An envelope carries
who made it (`made`: 0 for Submit, n for the Restore of the n-th Start), which the
code does not record; it is what `OneEnvelope` compares.

| Model | Code |
|---|---|
| `SubmitChecks`, `SubmitSaves`, `SubmitSends`, `CallerLeaves` | `Submit`: the flag, `ledgerOnSubmit`, the select; a sender that finds the channel full is *blocked* and woken by the cancelled context |
| `Receive`, `Begin`, `Succeeds`/`Fails`, `RecordDone`, `Backoff`, `BackoffEnds`, `BackoffCancelled`, `RecordFailure` | `worker` and `execute` |
| `RetryChecks`, `RetrySaves`, `RetrySends`, `RetryPanics` | the goroutine that puts a job back |
| `Start`, `LoadPendingJobs`, `RestoreJob`, `Restored` | `Lifecycle.Start`: workers first, then `Restore` |
| `Stop`, `drainPendingToLedger`, `CancelContext`, `CloseChannel`, `Stopped` | `StopWithTimeout` and `Stop` |
| `Timeout`, `CancelJob`, `Crash` | JobTimeout, CancelJob, the end of the process |

Checked: `EndIsEarned` (a record *done* has a call that succeeded, a record *failed*
has more than `MaxRetry` failed calls, across stops, restores and crashes),
`OneEnvelope` (nothing put into the channel once is there or being served twice),
`HeldJobEnds` and `StopReturns` under fairness, and two disagreements.

Not modelled: failing ledger writes, which the code only logs; several pools under
one Lifecycle; callbacks.

## 5. The service lifecycle

`ServiceLifecycle.tla` is one service of the micro-kernel. The code keeps its status,
reference count, instance and timer in separate atomics and locks; calls hold no lock
that deactivations take (`activateCh` only keeps calls from building twice, `mu` only
deactivations from each other), so a step is one access. Calls are the goroutines of
`CallWithLifecycle`, or of `Activate`, which returns before `acquire`; deactivators are
those of `Deactivate` and of a timer that fired.

| Model | Code |
|---|---|
| `Enter`, `Compete`, `WaitForActive`, `Recheck`, `Activating`, `BuildFails`, `BuildSucceeds`, `Publish`, `ArmTimer`, `LeavePermit` | `ensureActive`, `waitForActive` |
| `CheckActive`, `Count`, `stopIdleTimer` | `acquire` |
| `ReadService`, `CallReturns`, `Release`, `Rearm` | the rest of `CallWithLifecycle`, `release` |
| `TimerFires`, `CheckIdle` | the function of `resetIdleTimer`; one that has fired is not stopped by `Stop` |
| `Decide`, `Claim`, `StandBy`, `StopTimer`, `Drain`, `Inactive`, `ClearService` | `deactivate` |

Checked: `TransitionIsOwned` (nobody waits for a status no one will leave),
`CountIsExact`, `IdleIsTimed` (stopping and resetting the timer from several calls never
leaves an idle service without one), `UnusedIsDropped` under fairness, and one
disagreement. That a goroutine standing by for another deactivation returns is not
claimed: it polls, and may miss every moment at which the status is another one.

## 6. Hub and device

Each of these modules is about one device, one path or one bundle: the code keeps
them apart by key, and no step reads two of them.

### PairingHub

`pending`, `used`, `paired` and `sessions` are the hub's memory; `ticketFile` and
`peerFile` its files. A request's `rpc` says where it is: every save is a `Copy…` under
`Hub.mu` and a `Write…` outside it, which may fail. `CreateTicket`/`Issue`, `Redeem`/
`Accept`/`Reject`, `Unpair`, `HeartbeatSweeps`, `Expire` and `Reboot` are the handlers,
the clock and a restart that may come at any point. Histories record what each copy
lacked, so that the properties can say when a restart may forget: `SpentStaysSpent`,
`AnsweredPeersStay` (both proved). `OneDevicePerTicket` needs that redeem takes the ticket out before
it decides. Names, addresses and the TTL of pairing results are left out.

### PeerLink

The hub: the registered connection `reg`, callers with their slot and frame, the
handler of each connection. The device: one Edge per pairing, of which `StartEdge`
retires the last without waiting for it, the table `idem` of call ids, the user's
question `asking`. The network: `Cut` at any time; what was written to a cut connection
is lost or still read. `CallPeer`, `Write`, `ReturnAnswer`, `ReleaseSlot` are Caller.Call;
`SetExclusive`, `Heartbeat`, `ReadAnswer`, `MarkOffline`, `DeleteConn` the WebSocket
handler; `Dial`, `ReceiveFrame`, `Disconnect`, `Answer` the Edge; `Require`,
`UserDecides`, `Settle`, `Execute`, `Finish`, `Drop`, `AnswerDuplicate` the invocation of a
tool. Checked: `SlotsAreExact`, `ToolRunsOnce`, `AnswersAreEarned`, `WaitersHaveARunner`,
`NewestIsKept` (all proved), and `OnlineFollows` under fairness. Left out: eviction from the table by
age or size, ping frames as separate frames (a heartbeat is one step), trust of several
devices, the audit log.

### PeerLimits

`Ask` reads the clock, `RateAllow` or `QuotaAllow` take a limiter's lock later,
`CircuitAllow` the breaker's; `Consume` enters the bytes when they are there; `Answered`,
`Failed`, `Unrecorded` and `CircuitFailure` are what the handlers do with an answer, which
differs by kind: only some clear the breaker, a push that the device refuses counts as a
failure, a busy device counts for nothing. `SetLimit` is a new measurement of the link.
`WindowsAreBounded` states the bound that remains: one call more for each of the other
requests, and the bytes of every read under way. `OpenIsEarned` says that an open breaker
counted its failures and closes a cooldown after one of them. A limiter drops old entries
of its slice and counts the others, so the order of the slice matters to nothing: `hits`
and `reads` are sets of a time and a number that tells equal times apart.

### BundleUpdate

Each step is one system call, or one whose error is ignored: `Stage`, `ClearBackup`,
`MoveToBackup`, `Switch`, `Restore`, `Label` of an update, `FindBackup`, `RemoveTarget`,
`MoveBack`, `Unlabel` of a rollback, and `Die` between any two. A failed update ends in
the rollback, as the handler does. `kind` distinguishes a directory, whose removal may stop half
way and which replaces nothing, from an executable. `OneVersionSurvives` and
`ReportIsTrue`; the latter admits that an update that fails early puts back the version
before the one in place, which the handler does.

Work begins (`Begins`) whatever other work is under way: an Edge reads one request at a
time, but one that was replaced goes on with its own (`peerlink_edge_runtime.go:632`
cancels it and does not wait), and the local rollback API runs in a handler. `overlapped`
records that this happened. Both properties speak of behaviours until then. After it the
code keeps neither: a second update unpacks into the staging directory that the first,
which has found its archive complete, renames into place (`apply.go:206`, `:246`), so that
half of an archive is there and is reported as installed. The run goes up to the moment
of overlapping (`BundlePart`).

## 7. Files, streams and sessions

### WSHub

`clients`, the buffers as counts `queued`, `closed`, and for each client its connection
and two pumps. A broadcast takes the read lock, so `sending[b]` is the set it has yet to
serve, and `Unregister` waits until it is empty. `HandlePing` and `Greet` send too.
`Lose` is a broken or silent connection. `NoSendToClosed` (proved), `PumpsEnd` under
fairness. What messages say, and the dropping of one for a full buffer, is not observed.

### HandlePool

`Get`, `Put` and `ClosePath` are the pool's operations on one path, composed into the
actions of containers and fragments: `OpenContainer` (which first closes the path),
`OpenFromMetadata`, `AcquireMain`/`SetOwn`/`CountFragment` (three steps in the code),
`CloseFragment`, `CloseContainer`. `UsesAreExact` holds as long as the path is not
opened again while it is read, and fragments do not take the container's use at once
(`contended`): the code does both without a guard, and its comment at
`file_container_reader.go:241` speaks of the other case.

### FileTasks

`fs` gives the content of each user's path and of the trash place of each task; `rows`
the trash table. Tasks step through stat, move to the trash, row, rename or copy; each
step may fail, and a copy that fails may have emptied its destination. Handlers restore,
purge and roll back. A rename task is a move with the same checks. Directories, restore
to another path and a source that is its own destination are left out.
`ContentsSurvive` lists the known ways to lose a content: purge, a restore over it, a
destination that was empty when it was looked at, and the rollback of a copy, which
`UndoRemovesItsCopy` shows to delete a file it should not (section 8).
`TrashIsListed` relates the places of the trash to the table.

### ContainerStream

One writer, at most one damaged byte, one reader. A byte is its place in the stream; CTR
decryption succeeds only with the byte's own nonce and counter, so a wrong seek gives
`Garbage`. `WriteContainer` cuts the stream as `V4StreamWriter` does (segments of a size,
own nonces) or as the packers do (fragments of any sizes, one IV); `Open` chooses any
reader the factory may return for it, the raw source with or without seeking, and
`ReadContainer` is one Read or Seek of any length. A seek sets up the fragment anew or on
the next read, as each reader does, and may fail. `MaxOffset`, twice the stream, bounds
how far the offset of the sequential reader runs after a Seek that failed: it keeps
counting from the old place, which `ReadsAreRight` excuses until the next Seek.
A CRC is the sequence of bytes it was fed: `AppendBlockCRC` and `FeedBlocks` cut what they
gathered and the bytes of the call into full blocks and a rest, as their loops do.
`DamageIsReported` is about the CRC guard. Segments are always authenticated here, as
written by the current writer; compression, the manifest's encoding and its plain sizes,
HTTP sources, and sinks that fail are left out.

### AgentSession

One session: loops in `runLoop` or `resumeAfterDecision`, each with its own copy of the
history; `pendingCall`, the grant of the session, the permission mode, the queue and the
goroutines that send from it. The model's answers are inputs: `LastAnswer` or
`ModelCalls` with up to `MaxCalls` calls in all. `RunTool`, `SkipTool` and `Suspend` handle
one call each; `ConfirmTool` takes the suspended call, `ResumeAfterDecision` continues.
The queue is drained as an agent of `NewAgentWithLLM` does it; `NewAgent` never registers
that hook. How often `spawnQueuedChat` looks again (five times) is left open. Events and
their replay, compaction, plan mode, skills and forks are left out. `RunsAreConsented`
(proved), `RequestsAreAnswered`; a turn in which two calls ask is exempt from the latter,
for the code then keeps only the last.

## 8. Runs

| Run | Instance | Shows |
|---|---|---|
| `tm_store` | 1 task of any kind, 1 worker, 1 handler, persister, failing writes, 1 requeue, 1 restart | invariants through late copies, failed writes and a restart |
| `tm_workers` | 1 task, 2 workers, 2 handlers, no persister (production boot), 1 requeue | two workers on one task; the refinement |
| `tm_live` | 1 rebuild, 1 worker, 1 handler, persister, 1 requeue | liveness under `FairSpec` |
| `tm_removed` | as `tm_store`, rebuilds only | a removed task comes back after a restart |
| `tm_cancel` | 1 encryption under `FairSpec` | a cancelled encryption that succeeds stays *cancelling* |
| `pool_live` | 1 job, 1 worker, channel of 1, 1 retry, timeouts, CancelJob, 2 starts | safety across stop, restore and crash; liveness |
| `pool_cancel` | 1 job | a stop during the backoff records *cancelled* |
| `pool_closed` | 1 job | a retry sends on the closed channel |
| `live` (`MCLiveness`) | a service with 2 calls and 2 deactivators; a device with 2 Edges and 2 connections; 2 clients and 2 broadcasters, buffers of 1 | the life cycle's invariants; liveness of all three |
| `parts` (`MCParts`) | the eight parts of sections 6 and 7, each by itself | their safety properties |
| `svc_call` | 1 call, 1 deactivator, no overrun | a call with a reference finds no service |
| `files_undo` | 2 paths, 2 contents, 2 tasks at once, 1 handler | the rollback of a copy deletes another file |

`MCParts` and `MCLiveness` put components that share no variable into one run: `part`
chooses, at the start, the only one that moves, so that their states add up and do not
multiply. The initial states fix what the other parts cannot show. In `MCLiveness`
the parts that do not move have nothing enabled that fairness asks for.

Bounds. Handlers of the task manager interact with a task through that task's status
and the table only, and no step reads two tasks' statuses together except the
selection of a set of them, so the interleavings that matter are those of several
goroutines on one task: one task, with two workers and two handlers or with the
persister and a restart, has them all. One requeue lets a task be run twice, also by
two workers at once; one restart suffices because a restart resets everything but the
rows, and any row status is reachable before it. In the pool, one job has an envelope of
Submit and one of each Restore, so that the channel of one is full, blocks Submit and a
retry, and makes Restore give up; more jobs are covered by the theorems. The life cycle of
a service has no bound but the number of goroutines; two of each kind race for every lock
and leave one user behind another.

The parts: two requests save the hub's files in either order, with two tickets, two
tokens of one device, one expiry and one restart. A call is written twice (`MaxFrames`),
over two connections, to two Edges: the least in which a repetition meets the first run.
The limiters have two requests, a window of two ticks, and four instants, so that a
window passes while a request is under way; a threshold and a limit of two distinguish
the first from the last; `KindsOf` explores the kinds that share a limiter together. A
bundle has three versions (the one in place, the backup's, the new), two works, one after
the other, and two deaths. Two containers and two fragments share three handles. Two file
tasks, one of which may undo the other, run at once on two paths beside one request. A stream of four bytes in two
pieces, with segments and CRC blocks of two, has reads and seeks before, on and after each
boundary, and a piece that is no multiple of a block. The agent has two loops, two calls,
two turns and one queued message. `Max…` constants name every bound; the code has none
of them but `MaxInFlight`, `MaxTurns`, `MaxRetry` and the limits.

Deadlock is not checked: a stopped manager, a pool whose starts are used up, or a part at
its bounds may have nothing left to do. Symmetry is used in safety runs only, over
goroutines and tasks that no formula tells apart; in `MCParts` the permutation of the
requests is that of the agent's loops and of the works on a bundle too, which is sound
since no behaviour moves more than one of them.
The type invariants of the parts (`HubTypeOK`, `LinkTypeOK`, ...) hold in these runs as
well; they are not listed, to keep the runs to what could go wrong.

Disagreements found (PROJECT.json, `findings`):

1. `RemoveTask` and `ClearCompleted` delete no row (`task_manager_crud.go:574`).
2. An encryption or decryption that succeeds while being cancelled is never settled
   (`task_manager_worker.go:361`, `:654`).
3. Stop during a backoff makes the job terminally cancelled (`pool.go:430`).
4. A retry goroutine may send on the closed channel (`pool.go:460`).
5. A deactivation between the check and the count of `acquire` takes the service from
   a call (`service_lifecycle.go:224`); cleared after *inactive* is stored (`:295`), the
   instance of a new activation is lost as well.
6. The rollback of an overwriting copy removes whatever is at the target
   (`rollback_manager.go:376`): also the overwritten file, when the user has restored it
   from the trash after the rollback was created.

## 9. Fairness

`TaskManager!Fairness`: weak fairness of each worker's loop, of each handler that has
started (not of the arrival of requests), of the persister and of each goroutine's
persisting. The Go scheduler runs every goroutine that can run, `mu` is a fair mutex,
workers poll, and each of these is continuously enabled until taken. It includes that
a plugin, file operation or rebuild returns. `updateProgress`, `Stop`, `Restart` and
new requests are not fair.

`KernelPool!Fairness`: weak fairness of workers, of the goroutines that put jobs back,
of Restore, of Stop, and of a Submit that waits in its select. Submits that have not
come that far, timeouts, cancellations, Start and crashes are not fair. `StopReturns`
assumes that a service call returns, as `wg.Wait` in the code does.

`ServiceLifecycle!Fairness`: weak fairness of calls and deactivations under way, whose
builds and service calls return, and of the timer. New calls and manual deactivations
are not fair.

`PeerLink!LinkFairness`: weak fairness of callers under way, of the handler of each
connection and of each Edge's loop. Cuts, new calls and the user are not fair:
`OnlineFollows` needs the ping that an Edge with a connection sends for ever, and speaks
of a connection that stays, or of none that stays.

`WSHub!WSFairness`: weak fairness of both pumps and of a broadcast that has begun. It
includes that a lost connection is noticed: the write fails or the read passes its
deadline (`pongWait`), as the code arranges.

## 10. Proofs

`TaskManagerProofs.tla` assumes `ConstantsAssumption` only (distinct kinds of
goroutine, `NoTask` not a task); tasks, workers, handlers and bounds are arbitrary, and
need not be finite.

* `TypeCorrect`: `TypeOK` is inductive. It includes that a goroutine that works on a
  task holds one that exists, which the other proofs need.
* `RunningOwned`, `CancellingOwned`: proved with `TypeOK` from an inductive invariant
  that speaks of every task in the table, one step per action. A worker that settles
  a task overwrites its status, so that no other task and no other worker is affected;
  a status *running* is written by `dequeue` only, *cancelling* over *running* only.
* `NoFalseSuccessHolds`: the three conjuncts, over table, rows and copies, are
  inductive together: each alone is broken by the next copy or restart.
* `Refinement`: initial states and steps map to `WorkQueue`'s, using that the task a
  worker holds is a task, with one lemma for each action that moves the mapping.

`KernelPoolProofs.tla` assumes `PoolAssumption`. `EndEarned` needs the invariant
`AttemptsInv`: every attempt an envelope or a record counts is backed by a failed call,
`attempts ≤ fails`, and one call more for a worker that waits in its backoff or has
failed without being cancelled. Without it `RecordFailure` says nothing about `fails`.

`EnvelopeIsSingle` needs `SingleInv`, which joins to `OneEnvelope` what makes the two
steps that create envelopes safe: what Restore has yet to put back is not in the pool,
nothing in the pool was made by the present Start before it restores, Submit's envelope
exists only once it was accepted, and workers that are idle hold none. Every other step
moves an envelope or drops it.

`ServiceLifecycleProofs.tla` assumes `LifecycleAssumption` (finitely many calls, kinds of
goroutine distinct). `TransitionOwned` is inductive by itself: who leaves a build or a
deactivation writes the status first. `CountExact` follows the set of counted calls
with the cardinality theorems of the library. `IdleTimed` needs the count: the last
release, and a timer that fires while the count is positive, rely on another call
being there. `LifecycleTypeCorrect` says the count is a natural number, by `CountExact`.

`PairingAndLimitsProofs.tla` assumes `HubAssumption` and `LimitsAssumption`; devices,
requests, tickets, failed saves and restarts of the hub are arbitrary, and the limiters
have any finite number of requests, any limits, window and cooldown.

* `TicketInv`: a ticket is pending, or one request took it and waits for its decision, or
  it gave its pairing, or it is gone (`HoldsAlone`, `WinsOnce`). What a snapshot or the file
  calls pending was issued (`WereIssued`), so that a restart, which forgets every waiting
  request, brings back no ticket that is issued anew later. A request that waits while it
  saves keeps its ticket (`SavesFirst`).
* `SaveInv` adds what every copy under way lacks. The file of tickets, or of peers, is as
  the memory is, or somebody has yet to save, or a save failed or was overtaken by an older
  one (`behind`); and a copy that is not late lacks nothing, unless a newer one is under
  way with it (`Overtaken`). `SpentStays` and `PeersStay` follow for the memory, and the
  invariant carries them through `Reboot`, which reads the files.
* `BreakerInv`: the failures of the breaker are the times it counted, of which one, not
  always the last or the latest, opened it.
* `WindowInv` bounds, for every window that ends at t, what a limiter let through
  (`CallsBound`): either it still holds all of it, and the limit does; or a later request
  has dropped some, and then only requests that read the clock before t and have not
  taken the lock yet (`Late`) may add to it, one each. `ReadsBound` does the same with the
  bytes of reads that passed (`Due`). The property's "one for each other request" is what
  remains when all of them were late.

`PeerLinkProofs.tla` assumes `LinkAssumption`; callers, call ids, Edges, connections,
frames and slots are arbitrary. Its invariant is a conjunction, each part proved from
those before it:

* `Types`, and `Slots`: the callers under way have a slot and a frame of their own, with
  ids that were given. This is `SlotsExact`.
* `ClosedInv`: a handler leaves because its connection went down, which is what
  `NewestStays` needs.
* `Table`: who runs a call is the Edge its entry names, whose outcome is open; whoever
  waits for another Edge waits for that one. A retired Edge goes on, so this is about all
  Edges, not the newest. It gives `WaitersRun`.
* `Consent`: a question is asked by the Edge that waits for it; a tool that ran with
  success left an entry with success or is about to, and that entry is never dropped; a
  destructive one was granted. With `Table` this gives `RunsOnce`.
* `Answers`: what carries a caller's frame id, on the wire either way, at an Edge, or in
  the table, is about the caller's call, and says "ok" only of a tool that ran
  (`EarnedAnswers`). Frame ids are never given twice (`Numbered`).

`ContainerStreamProofs.tla` assumes `StreamAssumption` (sizes of segments and blocks are
positive; stream, pieces and reads of any length). `StreamInv` has the writer's half, the
pieces cover the stream side by side (`Tiled`) and each byte of a piece is encrypted with
the counter its place gives, and the reader's half, the decryptor's nonce and counter
are those of the byte it will read next. The first gives `Find` and `LocateOffset` the
piece of an offset, by lemmas of their own; the second is established by `Setup` in each
of its cases and kept by a read. `DamageInv` adds the CRCs. The writer's are those of the
full blocks of what a piece holds, whatever the calls that brought it (`Gathered`), and
sealed ones have a CRC for each full block (`Checked`). A guard has been fed the raw bytes
from the start of its fragment and either has compared the full blocks, none of them with
the damaged byte (`Comparing`), or stays at the block that has it (`Stuck`); the end of that
block, and of a damaged fragment, has not come through. `GuardSays` draws
`DamageIsReported` from it. The lemmas on blocks need division only (`DivFacts`), no
induction. The second part of the module is about `HandlePool`, under
`HandleAssumption`: `PoolInv` counts the containers and fragments that use the handle of
the pool, until the path is `contended`; `UsesExact` is one of its conjuncts. The
containers and fragments need not be finitely many: only those that have opened are.

`FilesAndHubProofs.tla` has three parts.

* `FilesInv`, under `FileTasksAssumption`: the steps of a task are those of its kind
  (`OrderOf`), also while a handler creates a rollback and links it (`ApiOrder`); the trash
  place of a task is filled by that task only, and whoever is about to delete a row has
  emptied the place (`FilesKept`). It carries `ContentsSurvive` and `TrashIsListed` from
  step to step: a content that leaves a path is at another one, or in the list of losses.
  Files, contents, handlers and tasks are arbitrary.
* `BundleInv`, under `BundleAssumption`: until two works overlapped, one work is under way
  at most, what it has yet to do fits the files (`StepFits`), and what is on disk is
  complete (`Complete`) unless a removal was cut short. Requests, versions and deaths are
  arbitrary; `VersionSurvives` and `ReportTrue` have no further hypothesis, the properties
  themselves say `~overlapped`.
* `HubInv`: a broadcast has yet to serve registered clients only, and a registered
  client's read pump has not closed its buffer; `Unregister` needs the lock that a
  broadcast holds.

`AgentSessionProofs.tla` assumes `AgentAssumption`; loops, calls, turns and queue are
arbitrary. `ConsentInv`: a call that is yet to run is in one place only, the list of one
loop or the suspended call, has not run, and its verdict is what that place says. A step
that runs a call takes it out of its place, which gives both halves of
`RunsAreConsented`. `AnswerInv` says of each copy of the history what it lacks: nothing
before a turn, else the results of the calls its loop has left, or of the suspended one,
in their order after the request that made them (`OpenAt`). Every step appends the first
that lacks; `RequestsAnswered` is what remains at a turn.

Which excuses the proved properties make: `contended` (`UsesAreExact`), `overlapped` and
`halved` (bundles), `lost` (pairing after a restart), `Torn` (a turn with several calls of
which one asks) and the losses that `ContentsSurvive` lists. Each is a behaviour that the
code has and a run reaches, not an assumption on the constants.

`KernelPool.OneEnvelope` and the run's other invariants for more jobs, workers and larger
channels, `ServiceLifecycle` for more goroutines, and the parts of `MCParts` for larger
instances rest on these theorems.

Only model-checked: liveness (`QueuedIsServed`, `CancelResolves`, `HeldJobEnds`, both
`StopReturns`, `UnusedIsDropped`, `OnlineFollows`, `PumpsEnd`), which the prover does not
do under fairness. Every safety property that a passing run checks is a theorem.

## 11. Not modelled

Encryption, key derivation and the file name cipher compute on bytes, out of a model
checker's reach. WebDAV, OpenList, mounts, search, memory, skills, configuration and
the public library adapt or forward; their state is that of one request, or a registry
under one lock. The simulation, the mock generator, the benchmarks and the generated
ObjectBox code are no part of the tool's own promises. The tenants' quota, the shared
plugin instances and the task manager without a store are real candidates, left for
later. Within the modelled components, each section says what it leaves out.
