---------------------------- MODULE TaskManager ----------------------------
(***************************************************************************)
(* The task manager of internal/service: an in-memory table of tasks, the  *)
(* worker goroutines that take queued tasks from it, the HTTP handlers     *)
(* that create, cancel, resume, retry and remove tasks, the goroutine that *)
(* persists progress, and the rows of the task store.                      *)
(*                                                                         *)
(* A step is what happens under one acquisition of tm.mu, or one read or   *)
(* write outside it.  Persisting is two steps: the task is copied          *)
(* (mobileTaskToData) without a lock and the copy is written to the store  *)
(* later, so that another copy may be written in between.                  *)
(***************************************************************************)
EXTENDS Naturals, FiniteSets

CONSTANTS Tasks,         \* task ids (uuids: an id is created once)
          Workers,       \* the worker goroutines
          Clients,       \* concurrent HTTP handlers
          Persister,     \* the progress persister
          NoTask,        \* not a task
          LoadsStore,    \* TRUE: NewTaskManagerWithStore;
                         \* FALSE: NewTaskManager, then ReplaceStore
          Kinds,         \* the kinds of task that are created
          StoreFails,    \* TRUE: a write to the store may fail for good
          MaxRequeues,   \* bound on Retry and ResumeTask calls
          MaxBoots       \* bound on restarts

Actors == Workers \cup Clients \cup {Persister}

ASSUME ConstantsAssumption ==
  /\ NoTask \notin Tasks
  /\ Workers \cap Clients = {}
  /\ Persister \notin Workers \cup Clients
  /\ LoadsStore \in BOOLEAN /\ StoreFails \in BOOLEAN
  /\ Kinds \subseteq {"crypt", "file", "fts"}
  /\ MaxRequeues \in Nat
  /\ MaxBoots \in Nat

VARIABLES
  \* the heap and the table
  kind,       \* Type of each task: encrypt/decrypt, a file operation, FTS rebuild
  status,     \* Status of each task; "none" before Create, "gone" once forgotten
  inMap,      \* the keys of tm.tasks
  hasRun,     \* the tasks whose RunId and other run metadata are set
  ctxOf,      \* the worker whose context task.cancelFn cancels
  ctxDone,    \* the workers whose context is cancelled
  dirty,      \* tm.dirtyTasks
  \* the goroutines
  pc,         \* where each goroutine is
  on,         \* the task it works on
  ids,        \* the task ids it has collected and not yet handled
  todo,       \* the tasks it still has to persist
  snap,       \* the copy it is about to write to the store
  \* the store, and the process
  row,        \* the row of each task
  phase,      \* "up", or "stopping" once Stop has closed stopCh
  requeues, boots,
  \* what happened
  succeeded   \* the tasks whose operation once returned without error

memory == <<kind, status, inMap, hasRun, ctxOf, ctxDone>>
actors == <<pc, on, ids, todo, snap>>
bounds == <<requeues, boots>>
vars == <<memory, dirty, actors, row, phase, bounds, succeeded>>

-----------------------------------------------------------------------------
Unfinished == {"queued", "running", "cancelling", "paused"}
\* Of the terminal statuses only these three are ever assigned.
Terminal == {"completed", "failed", "cancelled"}
Statuses == Unfinished \cup Terminal
isTerminalStatus(s) == s \in Terminal

SavedRow == [status : Statuses, run : BOOLEAN]
NoRow == [status |-> "none", run |-> FALSE]
NoSnap == [task |-> NoTask, row |-> NoRow]
NoWorker == NoTask

WorkingPCs == {"claimed", "running", "checked"}
Working(w) == pc[w] \in WorkingPCs

PCs == WorkingPCs \cup
       {"idle", "finishing", "exited",         \* workers
        "creating", "cancelRun", "removing", "saving",  \* handlers
        "taken", "flushing", "lastTaken", "lastFlushing"} \* the persister

Saved(a) == todo[a] = {} /\ snap[a] = NoSnap

Init ==
  /\ kind = [t \in Tasks |-> "none"]
  /\ status = [t \in Tasks |-> "none"]
  /\ inMap = {}
  /\ hasRun = {}
  /\ ctxOf = [t \in Tasks |-> NoWorker]
  /\ ctxDone = {}
  /\ dirty = {}
  /\ pc = [a \in Actors |-> "idle"]
  /\ on = [a \in Actors |-> NoTask]
  /\ ids = [a \in Actors |-> {}]
  /\ todo = [a \in Actors |-> {}]
  /\ snap = [a \in Actors |-> NoSnap]
  /\ row = [t \in Tasks |-> NoRow]
  /\ phase = "up"
  /\ requeues = 0
  /\ boots = 0
  /\ succeeded = {}

-----------------------------------------------------------------------------
(* Persisting: saveTaskSingle and saveTasks go through the same two steps   *)
(* for each task.                                                          *)

\* mobileTaskToData: the copy is taken without tm.mu.
Copy(t) == [status |-> status[t], run |-> t \in hasRun]

Snapshot(a, t) ==
  /\ t \in todo[a]
  /\ snap[a] = NoSnap
  /\ snap' = [snap EXCEPT ![a] = [task |-> t, row |-> Copy(t)]]
  /\ todo' = [todo EXCEPT ![a] = @ \ {t}]
  /\ UNCHANGED <<memory, dirty, pc, on, ids, row, phase, bounds, succeeded>>

\* CreateTask, or UpdateTask when the row exists; after three failures the
\* write is given up and only logged.
Written(t, r) == {[row EXCEPT ![t] = r]} \cup (IF StoreFails THEN {row} ELSE {})

Upsert(a) ==
  /\ snap[a] # NoSnap
  /\ row' \in Written(snap[a].task, snap[a].row)
  /\ snap' = [snap EXCEPT ![a] = NoSnap]
  /\ UNCHANGED <<memory, dirty, pc, on, ids, todo, phase, bounds, succeeded>>

Persist(a) == (\E t \in Tasks : Snapshot(a, t)) \/ Upsert(a)

-----------------------------------------------------------------------------
(* HTTP handlers.                                                          *)

Idle(c) == pc[c] = "idle"

\* Create: the task is queued, hence visible to the workers, before its run
\* metadata and extra fields are set.
Create(c, t, k) ==
  /\ Idle(c)
  /\ status[t] = "none"
  /\ kind' = [kind EXCEPT ![t] = k]
  /\ status' = [status EXCEPT ![t] = "queued"]
  /\ inMap' = inMap \cup {t}
  /\ pc' = [pc EXCEPT ![c] = "creating"]
  /\ on' = [on EXCEPT ![c] = t]
  /\ todo' = [todo EXCEPT ![c] = {t}]
  /\ UNCHANGED <<hasRun, ctxOf, ctxDone, dirty, ids, snap, row, phase, bounds, succeeded>>

\* The rest of CreateWithExtras and CreateWithRunMeta, without tm.mu.
SetRunMeta(c) ==
  /\ pc[c] = "creating"
  /\ Saved(c)
  /\ hasRun' = hasRun \cup {on[c]}
  /\ pc' = [pc EXCEPT ![c] = "saving"]
  /\ on' = [on EXCEPT ![c] = NoTask]
  /\ todo' = [todo EXCEPT ![c] = {on[c]}]
  /\ UNCHANGED <<kind, status, inMap, ctxOf, ctxDone, dirty, ids, snap, row,
                 phase, bounds, succeeded>>

\* Mutant: every task has to be settled by a worker.
CancelTaskLater(t) ==
  /\ status' = [status EXCEPT ![t] = "cancelling"]
  /\ ctxDone' = IF status[t] = "running" THEN ctxDone \cup ({ctxOf[t]} \ {NoWorker})
                ELSE ctxDone

\* What Cancel does to the task under tm.mu.
CancelTask(t) ==
  /\ status' = [status EXCEPT ![t] = IF @ = "running" THEN "cancelling" ELSE "cancelled"]
  /\ ctxDone' = IF status[t] = "running" THEN ctxDone \cup ({ctxOf[t]} \ {NoWorker})
                ELSE ctxDone

\* Cancel does not persist.
Cancel(c, t) ==
  /\ Idle(c)
  /\ t \in inMap
  /\ CancelTask(t)
  /\ UNCHANGED <<kind, inMap, hasRun, ctxOf, dirty, actors, row, phase, bounds, succeeded>>

\* CancelByRunId: the ids are collected under one acquisition of tm.mu ...
CancelByRunId(c) ==
  /\ Idle(c)
  /\ ids' = [ids EXCEPT ![c] = {t \in inMap \cap hasRun : ~isTerminalStatus(status[t])}]
  /\ ids'[c] # {}
  /\ pc' = [pc EXCEPT ![c] = "cancelRun"]
  /\ UNCHANGED <<memory, dirty, on, todo, snap, row, phase, bounds, succeeded>>

\* ... and each is cancelled under another, then persisted.
CancelNext(c, t) ==
  /\ pc[c] = "cancelRun"
  /\ Saved(c)
  /\ t \in ids[c]
  /\ ids' = [ids EXCEPT ![c] = @ \ {t}]
  /\ \/ /\ t \in inMap
        /\ CancelTask(t)
        /\ todo' = [todo EXCEPT ![c] = {t}]
     \/ /\ t \notin inMap
        /\ UNCHANGED <<status, ctxDone, todo>>
  /\ pc' = [pc EXCEPT ![c] = IF ids'[c] = {} THEN "saving" ELSE "cancelRun"]
  /\ UNCHANGED <<kind, inMap, hasRun, ctxOf, dirty, on, snap, row, phase, bounds, succeeded>>

\* ResumeTask holds tm.mu while it persists, so that no other goroutine
\* changes the task between the copy and the write.
ResumeTask(c, t) ==
  /\ Idle(c)
  /\ t \in inMap
  /\ status[t] = "paused"
  /\ requeues < MaxRequeues
  /\ requeues' = requeues + 1
  /\ status' = [status EXCEPT ![t] = "queued"]
  /\ row' \in Written(t, [Copy(t) EXCEPT !.status = "queued"])
  /\ UNCHANGED <<kind, inMap, hasRun, ctxOf, ctxDone, dirty, actors, phase, boots, succeeded>>

\* Retry accepts a task in any status and does not persist.
Retry(c, t) ==
  /\ Idle(c)
  /\ t \in inMap
  /\ requeues < MaxRequeues
  /\ requeues' = requeues + 1
  /\ status' = [status EXCEPT ![t] = "queued"]
  /\ UNCHANGED <<kind, inMap, hasRun, ctxOf, ctxDone, dirty, actors, row, phase, boots, succeeded>>

\* RemoveTask and ClearCompleted take keys out of the table ...
Delete(c, S) ==
  /\ inMap' = inMap \ S
  /\ pc' = [pc EXCEPT ![c] = "removing"]
  /\ UNCHANGED <<kind, status, hasRun, ctxOf, ctxDone, dirty, on, ids, todo, snap, row,
                 phase, bounds, succeeded>>

RemoveTask(c, t) == /\ Idle(c)
                    /\ t \in inMap
                    /\ Delete(c, {t})

ClearCompleted(c) ==
  LET Finished == {t \in inMap : status[t] \in {"completed", "failed", "cancelled"}}
  IN /\ Idle(c)
     /\ Finished # {}
     /\ Delete(c, Finished)

\* ... and upsert whatever is in it once tm.mu is taken again: no row is
\* deleted.
saveTasks(c) ==
  /\ pc[c] = "removing"
  /\ todo' = [todo EXCEPT ![c] = inMap]
  /\ pc' = [pc EXCEPT ![c] = "saving"]
  /\ UNCHANGED <<memory, dirty, on, ids, snap, row, phase, bounds, succeeded>>

\* The handler returns once everything it had to persist is handed over.
Respond(c) ==
  /\ pc[c] = "saving"
  /\ Saved(c)
  /\ pc' = [pc EXCEPT ![c] = "idle"]
  /\ UNCHANGED <<memory, dirty, on, ids, todo, snap, row, phase, bounds, succeeded>>

-----------------------------------------------------------------------------
(* Workers.                                                                *)

\* Mutant: the task is not marked while tm.mu is held.
dequeueUnmarked(w, t) ==
  /\ pc[w] = "idle"
  /\ t \in inMap
  /\ status[t] = "queued"
  /\ pc' = [pc EXCEPT ![w] = "claimed"]
  /\ on' = [on EXCEPT ![w] = t]
  /\ UNCHANGED <<memory, dirty, ids, todo, snap, row, phase, bounds, succeeded>>

\* A worker may have passed the check of stopCh before Stop closed it; one
\* that finishes a task while the manager stops finds it closed.
dequeue(w, t) ==
  /\ pc[w] = "idle"
  /\ t \in inMap
  /\ status[t] = "queued"
  /\ status' = [status EXCEPT ![t] = "running"]
  /\ pc' = [pc EXCEPT ![w] = "claimed"]
  /\ on' = [on EXCEPT ![w] = t]
  /\ UNCHANGED <<kind, inMap, hasRun, ctxOf, ctxDone, dirty, ids, todo, snap, row,
                 phase, bounds, succeeded>>

\* processTask up to the plugin, the file operation or the rebuilder: the
\* first updateProgress, and for a rebuild the cancellable context (that of
\* an encryption only decides how soon the plugin returns).
StartWork(w) ==
  /\ pc[w] = "claimed"
  /\ pc' = [pc EXCEPT ![w] = "running"]
  /\ dirty' = dirty \cup {on[w]}
  /\ ctxDone' = ctxDone \ {w}
  /\ ctxOf' = [ctxOf EXCEPT ![on[w]] = IF kind[on[w]] = "fts" THEN w ELSE @]
  /\ UNCHANGED <<kind, status, inMap, hasRun, on, ids, todo, snap, row, phase, bounds, succeeded>>

\* updateProgress, from the plugin, the monitor or the rebuilder's callback.
\* Only the callback stays silent once the task is being cancelled.
updateProgress(w) ==
  /\ pc[w] = "running"
  /\ on[w] \notin dirty
  /\ \/ kind[on[w]] # "fts"
     \/ w \notin ctxDone /\ status[on[w]] \notin {"cancelling", "cancelled"}
  /\ dirty' = dirty \cup {on[w]}
  /\ UNCHANGED <<memory, actors, row, phase, bounds, succeeded>>

\* A worker leaves its task with status s; Pers are the tasks to persist.
Settle(w, s, Pers) ==
  /\ status' = [status EXCEPT ![on[w]] = s]
  /\ todo' = [todo EXCEPT ![w] = Pers]
  /\ ctxOf' = [ctxOf EXCEPT ![on[w]] = IF @ = w THEN NoWorker ELSE @]
  /\ ctxDone' = ctxDone \ {w}
  /\ pc' = [pc EXCEPT ![w] = "finishing"]
  /\ on' = [on EXCEPT ![w] = NoTask]
  /\ UNCHANGED <<kind, inMap, hasRun, dirty, ids, snap, row, phase, bounds>>

\* Mutant: no return after the failure.
failTaskFallsThrough(w) == Settle(w, "completed", {on[w]}) /\ UNCHANGED succeeded

\* failTask looks the task up by id: a removed task is left as it is.
failTask(w) ==
  /\ \/ on[w] \in inMap /\ Settle(w, "failed", {on[w]})
     \/ on[w] \notin inMap /\ Settle(w, status[on[w]], {})
  /\ UNCHANGED succeeded

Complete(w) == /\ Settle(w, "completed", {on[w]})
               /\ succeeded' = succeeded \cup {on[w]}

\* processEncrypt and processDecrypt: a task cancelled while the plugin
\* succeeded keeps its status, and is not persisted.
CryptDone(w) ==
  /\ pc[w] = "running"
  /\ kind[on[w]] = "crypt"
  /\ \/ failTask(w)
     \/ status[on[w]] # "cancelling" /\ Complete(w)
     \/ /\ status[on[w]] = "cancelling"
        /\ Settle(w, "cancelling", {})
        /\ succeeded' = succeeded \cup {on[w]}

\* processFileTask does not look at the status.
FileDone(w) ==
  /\ pc[w] = "running"
  /\ kind[on[w]] = "file"
  /\ failTask(w) \/ Complete(w)

\* processRebuildFTSIndex reads whether it was cancelled without tm.mu ...
Cancelled(w) == w \in ctxDone \/ status[on[w]] = "cancelling"

RebuildCancelled(w) ==
  /\ pc[w] = "running"
  /\ kind[on[w]] = "fts"
  /\ Cancelled(w)
  /\ Settle(w, "cancelled", {on[w]})
  /\ UNCHANGED succeeded

RebuildReturned(w) ==
  /\ pc[w] = "running"
  /\ kind[on[w]] = "fts"
  /\ ~Cancelled(w)
  /\ pc' = [pc EXCEPT ![w] = "checked"]
  /\ UNCHANGED <<memory, dirty, on, ids, todo, snap, row, phase, bounds, succeeded>>

\* ... and settles the task afterwards.
RebuildDone(w) ==
  /\ pc[w] = "checked"
  /\ failTask(w) \/ Complete(w)

TaskDone(w) == \/ CryptDone(w) \/ FileDone(w)
               \/ RebuildCancelled(w) \/ RebuildReturned(w) \/ RebuildDone(w)

\* Mutant: a worker serves one task.
NextTaskNever(w) ==
  /\ pc[w] = "finishing"
  /\ Saved(w)
  /\ pc' = [pc EXCEPT ![w] = "exited"]
  /\ UNCHANGED <<memory, dirty, on, ids, todo, snap, row, phase, bounds, succeeded>>

\* Back to the top of the loop of worker().
NextTask(w) ==
  /\ pc[w] = "finishing"
  /\ Saved(w)
  /\ pc' = [pc EXCEPT ![w] = IF phase = "stopping" THEN "exited" ELSE "idle"]
  /\ UNCHANGED <<memory, dirty, on, ids, todo, snap, row, phase, bounds, succeeded>>

WorkerExits(w) ==
  /\ pc[w] = "idle"
  /\ phase = "stopping"
  /\ pc' = [pc EXCEPT ![w] = "exited"]
  /\ UNCHANGED <<memory, dirty, on, ids, todo, snap, row, phase, bounds, succeeded>>

-----------------------------------------------------------------------------
(* The progress persister, which only NewTaskManagerWithStore starts.      *)

\* flushDirtyTasks swaps the dirty set under dirtyMu; the flush after stopCh
\* is closed is the last one ...
TakeDirty ==
  /\ LoadsStore
  /\ pc[Persister] = "idle"
  /\ dirty # {} \/ phase = "stopping"
  /\ ids' = [ids EXCEPT ![Persister] = dirty]
  /\ dirty' = {}
  /\ pc' = [pc EXCEPT ![Persister] = IF phase = "stopping" THEN "lastTaken" ELSE "taken"]
  /\ UNCHANGED <<memory, on, todo, snap, row, phase, bounds, succeeded>>

\* ... selects the tasks that are not finished under tm.mu ...
SelectUnfinished ==
  /\ pc[Persister] \in {"taken", "lastTaken"}
  /\ todo' = [todo EXCEPT ![Persister] =
                {t \in ids[Persister] \cap inMap : ~isTerminalStatus(status[t])}]
  /\ ids' = [ids EXCEPT ![Persister] = {}]
  /\ pc' = [pc EXCEPT ![Persister] = IF @ = "taken" THEN "flushing" ELSE "lastFlushing"]
  /\ UNCHANGED <<memory, dirty, on, snap, row, phase, bounds, succeeded>>

\* Mutant: the case of stopCh does not return.
FlushedAgain ==
  /\ pc[Persister] \in {"flushing", "lastFlushing"}
  /\ Saved(Persister)
  /\ pc' = [pc EXCEPT ![Persister] = "idle"]
  /\ UNCHANGED <<memory, dirty, on, ids, todo, snap, row, phase, bounds, succeeded>>

\* ... and persists them without it.
Flushed ==
  /\ pc[Persister] \in {"flushing", "lastFlushing"}
  /\ Saved(Persister)
  /\ pc' = [pc EXCEPT ![Persister] = IF @ = "flushing" THEN "idle" ELSE "exited"]
  /\ UNCHANGED <<memory, dirty, on, ids, todo, snap, row, phase, bounds, succeeded>>

-----------------------------------------------------------------------------
(* The process.                                                            *)

\* Stop closes stopCh and waits for the workers and the persister.
Stop ==
  /\ phase = "up"
  /\ phase' = "stopping"
  /\ UNCHANGED <<memory, dirty, actors, row, bounds, succeeded>>

\* Mutants: a running task, or one being cancelled, is loaded as it is.
LoadedRunning(s) == IF s = "queued" THEN "paused" ELSE s
LoadedCancelling(s) == CASE s = "running" -> "failed"
                         [] s = "queued" -> "paused"
                         [] OTHER -> s

\* loadTasks: a task that was under way has failed, a queued one is paused.
Loaded(s) == CASE s \in {"running", "cancelling"} -> "failed"
               [] s = "queued" -> "paused"
               [] OTHER -> s

\* Mutant: a task is known whether or not a row of it was written.
KnownUnsaved == IF LoadsStore THEN {t \in Tasks : status[t] # "none"} ELSE {}

\* What the table holds after a restart.  With NewTaskManager it is loaded
\* from the JSON file, which nothing writes once ReplaceStore has attached
\* the store.
Known == IF LoadsStore THEN {t \in Tasks : row[t] # NoRow} ELSE {}

\* The process dies at any point, or after Stop, and starts again.
Restart ==
  /\ boots < MaxBoots
  /\ boots' = boots + 1
  /\ phase' = "up"
  /\ inMap' = Known
  /\ status' = [t \in Tasks |-> IF t \in Known THEN Loaded(row[t].status)
                                ELSE IF status[t] = "none" THEN "none" ELSE "gone"]
  /\ hasRun' = {t \in Known : row[t].run}
  /\ ctxOf' = [t \in Tasks |-> NoWorker]
  /\ ctxDone' = {}
  /\ dirty' = {}
  /\ pc' = [a \in Actors |-> "idle"]
  /\ on' = [a \in Actors |-> NoTask]
  /\ ids' = [a \in Actors |-> {}]
  /\ todo' = [a \in Actors |-> {}]
  /\ snap' = [a \in Actors |-> NoSnap]
  /\ UNCHANGED <<kind, row, requeues, succeeded>>

-----------------------------------------------------------------------------
HandlerStep(c) == \/ SetRunMeta(c)
                  \/ \E t \in Tasks : CancelNext(c, t)
                  \/ saveTasks(c)
                  \/ Respond(c)

Handler(c) ==
  \/ \E t \in Tasks : \/ \E k \in Kinds : Create(c, t, k)
                      \/ Cancel(c, t)
                      \/ ResumeTask(c, t)
                      \/ Retry(c, t)
                      \/ RemoveTask(c, t)
  \/ CancelByRunId(c)
  \/ ClearCompleted(c)
  \/ HandlerStep(c)

WorkerStep(w) == \/ \E t \in Tasks : dequeue(w, t)
                 \/ StartWork(w)
                 \/ TaskDone(w)
                 \/ NextTask(w)
                 \/ WorkerExits(w)

PersisterStep == TakeDirty \/ SelectUnfinished \/ Flushed

Next == \/ \E c \in Clients : Handler(c)
        \/ \E w \in Workers : WorkerStep(w) \/ updateProgress(w)
        \/ PersisterStep
        \/ \E a \in Actors : Persist(a)
        \/ Stop
        \/ Restart

Spec == Init /\ [][Next]_vars

\* Every goroutine is scheduled, and every plugin call returns.
Fairness == /\ \A w \in Workers : WF_vars(WorkerStep(w))
            /\ \A c \in Clients : WF_vars(HandlerStep(c))
            /\ WF_vars(PersisterStep)
            /\ \A a \in Actors : WF_vars(Persist(a))

FairSpec == Spec /\ Fairness

-----------------------------------------------------------------------------
(* Properties.                                                             *)

Alive(t) == status[t] \in Statuses

\* Types, and that every goroutine holds on to tasks that exist.
TypeOK ==
  /\ kind \in [Tasks -> {"none", "crypt", "file", "fts"}]
  /\ status \in [Tasks -> Statuses \cup {"none", "gone"}]
  /\ inMap \subseteq {t \in Tasks : Alive(t)}
  /\ hasRun \subseteq Tasks
  /\ ctxOf \in [Tasks -> Workers \cup {NoWorker}]
  /\ ctxDone \subseteq Workers
  /\ dirty \subseteq Tasks
  /\ pc \in [Actors -> PCs]
  /\ on \in [Actors -> {t \in Tasks : Alive(t)} \cup {NoTask}]
  /\ \A a \in Actors : pc[a] \in WorkingPCs \cup {"creating"} => on[a] # NoTask
  /\ ids \in [Actors -> SUBSET Tasks]
  /\ todo \in [Actors -> SUBSET {t \in Tasks : Alive(t)}]
  /\ snap \in [Actors -> [task : Tasks, row : SavedRow] \cup {NoSnap}]
  /\ row \in [Tasks -> SavedRow \cup {NoRow}]
  /\ phase \in {"up", "stopping"}
  /\ requeues \in Nat
  /\ boots \in Nat
  /\ succeeded \subseteq Tasks

\* A task shown as running is being run: no cancellation, retry, removal,
\* failure or restart leaves a "running" task in the table behind without a
\* worker on it, although a worker may fail a task by an id that is gone and
\* the rows a restart reads may say "running" (dequeue, failTask, loadTasks).
RunningIsOwned ==
  \A t \in inMap : status[t] = "running" =>
    \E w \in Workers : Working(w) /\ on[w] = t

\* A rebuild or a file operation shown as being cancelled has a worker that
\* will settle it (processFileTask, processRebuildFTSIndex).
CancellingIsOwned ==
  \A t \in inMap : status[t] = "cancelling" /\ kind[t] # "crypt" =>
    \E w \in Workers : Working(w) /\ on[w] = t

\* Neither the table, nor a copy on its way to the store, nor a row calls a
\* task completed whose operation never succeeded, whatever was cancelled,
\* retried, interrupted by a crash or overwritten by a late copy.
NoFalseSuccess ==
  /\ \A t \in Tasks : status[t] = "completed" => t \in succeeded
  /\ \A t \in Tasks : row[t].status = "completed" => t \in succeeded
  /\ \A a \in Actors : snap[a].row.status = "completed" => snap[a].task \in succeeded

\* The manager keeps the promise of a work queue: a task is started only by
\* consuming a request, by one worker, and nothing runs by itself after a
\* restart (worker, dequeue, Retry, ResumeTask, loadTasks).
WQ == INSTANCE WorkQueue WITH
        requested <- {t \in inMap : status[t] = "queued"},
        executing <- [w \in Workers |-> IF Working(w) THEN on[w] ELSE NoTask]

ImplementsWorkQueue == WQ!AbsSpec

\* A queued task is taken by a worker, cancelled or removed, unless the
\* manager is stopped or the process restarts.
Queued(t) == phase = "up" /\ t \in inMap /\ status[t] = "queued"
QueuedIsServed == \A t \in Tasks : Queued(t) ~> ~Queued(t)

\* Stop returns: every worker leaves, and the persister after its last flush,
\* however many tasks are queued, being run or being written.
StopReturns ==
  phase = "stopping" ~> \/ phase = "up"
                        \/ /\ \A w \in Workers : pc[w] = "exited"
                           /\ LoadsStore => pc[Persister] = "exited"

\* What is being cancelled ends up cancelled, completed or failed, when it
\* is a file operation or a rebuild ...
Cancelling(t) == t \in inMap /\ status[t] = "cancelling"
CancelResolves == \A t \in Tasks :
  (Cancelling(t) /\ kind[t] # "crypt") ~> ~Cancelling(t)

\* ... and, the client's state machine says, whatever it is.  An encryption
\* that succeeds before it notices stays "cancelling" (processEncrypt).
CancelEnds == \A t \in Tasks : Cancelling(t) ~> ~Cancelling(t)

\* A task once removed does not come back, not even after a restart (the
\* test of persistence across removal).  RemoveTask deletes no row.
RemovedStaysRemoved ==
  [][\A t \in Tasks : status[t] # "none" /\ t \notin inMap => t \notin inMap']_vars
=============================================================================
