------------------------- MODULE TaskManagerProofs -------------------------
(***************************************************************************)
(* What holds of the task manager for every number of tasks, workers and   *)
(* handlers, with either way of starting it.                               *)
(***************************************************************************)
EXTENDS TaskManager, TLAPS

USE ConstantsAssumption

-----------------------------------------------------------------------------
(* Types.                                                                  *)

LEMMA InitTypes == Init => TypeOK
BY DEF Init, TypeOK, PCs, WorkingPCs, NoWorker, Actors

LEMMA WrittenTypes == ASSUME TypeOK, NEW t \in Tasks, NEW r \in SavedRow,
                             NEW R \in Written(t, r)
                      PROVE  R \in [Tasks -> SavedRow \cup {NoRow}]
BY DEF TypeOK, Written

\* The steps of Persist.
LEMMA PersistTypes == ASSUME TypeOK, NEW a \in Actors, Persist(a)
                      PROVE  TypeOK'
<1>1. ASSUME NEW t \in Tasks, Snapshot(a, t) PROVE TypeOK'
  <2>1. [task |-> t, row |-> Copy(t)] \in [task : Tasks, row : SavedRow]
    BY <1>1 DEF Snapshot, TypeOK, Copy, SavedRow, Alive
  <2> QED BY <1>1, <2>1 DEF Snapshot, TypeOK, Alive, memory, bounds
<1>2. ASSUME Upsert(a) PROVE TypeOK'
  <2>1. snap[a] \in [task : Tasks, row : SavedRow]
    BY <1>2 DEF Upsert, TypeOK
  <2>2. row' \in [Tasks -> SavedRow \cup {NoRow}]
    BY <1>2, <2>1, WrittenTypes DEF Upsert
  <2> QED BY <1>2, <2>2 DEF Upsert, TypeOK, Alive, memory, bounds
<1> QED BY <1>1, <1>2 DEF Persist

LEMMA ResumeRow == ASSUME TypeOK, NEW c, NEW t \in Tasks, ResumeTask(c, t)
                   PROVE  row' \in [Tasks -> SavedRow \cup {NoRow}]
<1>1. Copy(t) \in SavedRow /\ status[t] = "paused"
  BY DEF ResumeTask, Copy, SavedRow, TypeOK, Alive, Statuses, Unfinished
<1>2. [Copy(t) EXCEPT !.status = "queued"] \in SavedRow
  BY <1>1 DEF SavedRow, Statuses, Unfinished
<1>3. row' \in Written(t, [Copy(t) EXCEPT !.status = "queued"])
  BY DEF ResumeTask
<1> QED BY <1>2, <1>3, WrittenTypes

\* The steps of the handlers.
LEMMA HandlerTypes == ASSUME TypeOK, NEW c \in Clients, Handler(c)
                      PROVE  TypeOK'
<1> c \in Actors BY DEF Actors
<1> USE DEF TypeOK, Alive, Actors, PCs, WorkingPCs,
           Statuses, Unfinished, Terminal
<1>1. ASSUME NEW t \in Tasks, NEW k \in Kinds, Create(c, t, k) PROVE TypeOK'
  BY <1>1 DEF Create, bounds
<1>2. ASSUME NEW t \in Tasks, Cancel(c, t) PROVE TypeOK'
  BY <1>2 DEF Cancel, CancelTask, actors, bounds, NoWorker
<1>3. ASSUME NEW t \in Tasks, ResumeTask(c, t) PROVE TypeOK'
  <2>1. row' \in [Tasks -> SavedRow \cup {NoRow}]
    BY <1>3, ResumeRow
  <2>2. /\ status' = [status EXCEPT ![t] = "queued"]
        /\ requeues' = requeues + 1
        /\ UNCHANGED <<kind, inMap, hasRun, ctxOf, ctxDone, dirty, pc, on, ids, todo,
                       snap, phase, boots, succeeded>>
    BY <1>3 DEF ResumeTask, actors
  <2> QED BY <2>1, <2>2
<1>4. ASSUME NEW t \in Tasks, Retry(c, t) PROVE TypeOK'
  BY <1>4 DEF Retry, actors
<1>5. ASSUME NEW t \in Tasks, RemoveTask(c, t) PROVE TypeOK'
  BY <1>5 DEF RemoveTask, Delete, bounds
<1>6. CASE CancelByRunId(c)
  BY <1>6 DEF CancelByRunId, memory, bounds
<1>7. CASE ClearCompleted(c)
  BY <1>7 DEF ClearCompleted, Delete, bounds
<1>8. CASE SetRunMeta(c)
  BY <1>8 DEF SetRunMeta, bounds, WorkingPCs
<1>9. ASSUME NEW t \in Tasks, CancelNext(c, t) PROVE TypeOK'
  BY <1>9 DEF CancelNext, CancelTask, bounds, NoWorker, WorkingPCs
<1>10. CASE Respond(c)
  BY <1>10 DEF Respond, memory, bounds, WorkingPCs
<1>11. CASE saveTasks(c)
  BY <1>11 DEF saveTasks, memory, bounds, WorkingPCs
<1> QED BY <1>1, <1>2, <1>3, <1>4, <1>5, <1>6, <1>7, <1>8, <1>9, <1>10, <1>11
        DEF Handler, HandlerStep

\* A worker that leaves its task.
LEMMA SettleTypes ==
  ASSUME TypeOK, NEW w \in Workers, Working(w),
         NEW s \in Statuses, NEW Pers \in SUBSET {on[w]}, Settle(w, s, Pers),
         succeeded' \in {succeeded, succeeded \cup {on[w]}}
  PROVE  TypeOK'
BY DEF Settle, Working, WorkingPCs, TypeOK, Alive, Actors, PCs, bounds, NoWorker

\* The steps of the workers.
LEMMA TaskDoneTypes == ASSUME TypeOK, NEW w \in Workers, TaskDone(w)
                       PROVE  TypeOK'
<1> w \in Actors BY DEF Actors
<1>1. ASSUME Working(w), failTask(w) PROVE TypeOK'
  <2>1. status[on[w]] \in Statuses
    BY <1>1 DEF TypeOK, Alive, Working
  <2>2. "failed" \in Statuses
    BY DEF Statuses, Terminal
  <2> QED BY <1>1, <2>1, <2>2, SettleTypes DEF failTask
<1>2. ASSUME Working(w), Complete(w) PROVE TypeOK'
  <2>1. "completed" \in Statuses
    BY DEF Statuses, Terminal
  <2> QED BY <1>2, <2>1, SettleTypes DEF Complete
<1>3. CASE CryptDone(w)
  <2>1. Working(w) BY <1>3 DEF CryptDone, Working, WorkingPCs
  <2>2. "cancelling" \in Statuses BY DEF Statuses, Unfinished
  <2> QED BY <1>1, <1>2, <1>3, <2>1, <2>2, SettleTypes DEF CryptDone
<1>4. CASE FileDone(w)
  <2>1. Working(w) BY <1>4 DEF FileDone, Working, WorkingPCs
  <2> QED BY <1>1, <1>2, <1>4, <2>1 DEF FileDone
<1>5. CASE RebuildCancelled(w)
  <2>1. Working(w) BY <1>5 DEF RebuildCancelled, Working, WorkingPCs
  <2>2. "cancelled" \in Statuses BY DEF Statuses, Terminal
  <2> QED BY <1>5, <2>1, <2>2, SettleTypes DEF RebuildCancelled
<1>6. CASE RebuildReturned(w)
  BY <1>6 DEF RebuildReturned, TypeOK, Alive, WorkingPCs, PCs, memory, bounds
<1>7. CASE RebuildDone(w)
  <2>1. Working(w) BY <1>7 DEF RebuildDone, Working, WorkingPCs
  <2> QED BY <1>1, <1>2, <1>7, <2>1 DEF RebuildDone
<1> QED BY <1>3, <1>4, <1>5, <1>6, <1>7 DEF TaskDone

LEMMA WorkerTypes == ASSUME TypeOK, NEW w \in Workers, WorkerStep(w) \/ updateProgress(w)
                     PROVE  TypeOK'
<1> w \in Actors BY DEF Actors
<1> USE DEF TypeOK, Alive, PCs, WorkingPCs
<1>1. ASSUME NEW t \in Tasks, dequeue(w, t) PROVE TypeOK'
  BY <1>1 DEF dequeue, bounds, Statuses, Unfinished
<1>2. CASE StartWork(w)
  BY <1>2 DEF StartWork, bounds, NoWorker
<1>3. CASE NextTask(w)
  BY <1>3 DEF NextTask, memory, bounds
<1>4. CASE WorkerExits(w)
  BY <1>4 DEF WorkerExits, memory, bounds
<1>5. CASE updateProgress(w)
  BY <1>5 DEF updateProgress, memory, actors, bounds
<1> QED BY <1>1, <1>2, <1>3, <1>4, <1>5, TaskDoneTypes DEF WorkerStep

\* The steps of the persister, and of the process.
LEMMA PersisterTypes == ASSUME TypeOK, PersisterStep PROVE TypeOK'
<1> Persister \in Actors BY DEF Actors
<1> USE DEF TypeOK, Alive, PCs, WorkingPCs
<1>1. CASE TakeDirty
  BY <1>1 DEF TakeDirty, memory, bounds
<1>2. CASE SelectUnfinished
  BY <1>2 DEF SelectUnfinished, memory, bounds
<1>3. CASE Flushed
  BY <1>3 DEF Flushed, memory, bounds
<1> QED BY <1>1, <1>2, <1>3 DEF PersisterStep

\* A row that is loaded is neither running nor queued nor being cancelled.
LEMMA KnownRows == ASSUME TypeOK, NEW t \in Known
                   PROVE  /\ t \in Tasks
                          /\ Loaded(row[t].status) \in {"paused", "completed", "failed", "cancelled"}
                          /\ Loaded(row[t].status) = "completed" => row[t].status = "completed"
<1>1. t \in Tasks /\ row[t] \in SavedRow
  BY DEF Known, TypeOK
<1>2. row[t].status \in Statuses
  BY <1>1 DEF SavedRow
<1> QED BY <1>1, <1>2 DEF Loaded, Statuses, Unfinished, Terminal

LEMMA RestartTypes == ASSUME TypeOK, Restart PROVE TypeOK'
<1>1. status' \in [Tasks -> Statuses \cup {"none", "gone"}]
  BY KnownRows DEF Restart, Statuses, Unfinished, Terminal
<1>2. inMap' \subseteq {t \in Tasks : status'[t] \in Statuses}
  BY KnownRows DEF Restart, Statuses, Unfinished, Terminal
<1>3. hasRun' \subseteq Tasks
  BY KnownRows DEF Restart
<1>4. /\ pc' \in [Actors -> {"idle"}]
      /\ on' \in [Actors -> {NoTask}]
      /\ ids' \in [Actors -> {{}}]
      /\ todo' \in [Actors -> {{}}]
      /\ snap' \in [Actors -> {NoSnap}]
      /\ ctxOf' \in [Tasks -> {NoWorker}]
  BY DEF Restart
<1>5. /\ phase' = "up" /\ boots' \in Nat /\ ctxDone' = {} /\ dirty' = {}
      /\ UNCHANGED <<kind, row, requeues, succeeded>>
  BY DEF Restart, TypeOK
<1> QED BY <1>1, <1>2, <1>3, <1>4, <1>5 DEF TypeOK, Alive, PCs, WorkingPCs

LEMMA StepTypes == TypeOK /\ [Next]_vars => TypeOK'
<1> SUFFICES ASSUME TypeOK, [Next]_vars PROVE TypeOK'
  OBVIOUS
<1>1. CASE Stop
  BY <1>1 DEF Stop, TypeOK, Alive, memory, actors, bounds
<1>2. CASE UNCHANGED vars
  BY <1>2 DEF vars, TypeOK, Alive, memory, actors, bounds
<1> QED BY <1>1, <1>2, PersistTypes, HandlerTypes, WorkerTypes, PersisterTypes, RestartTypes
        DEF Next

\* Every behaviour of the task manager is well typed, and no goroutine works
\* on a task that was never created.
THEOREM TypeCorrect == Spec => []TypeOK
BY InitTypes, StepTypes, PTL DEF Spec

-----------------------------------------------------------------------------
(* Ownership: what is running, or is being cancelled and will be settled,  *)
(* has a worker.                                                           *)

Owned == RunningIsOwned /\ CancellingIsOwned

\* Whatever keeps the statuses that need an owner, and the workers, keeps
\* Owned.
LEMMA OwnedFrame ==
  ASSUME Owned, UNCHANGED <<pc, on>>, UNCHANGED kind,
         \A t \in inMap' : /\ status'[t] \in {"running", "cancelling"} => t \in inMap
                           /\ status'[t] = "running" => status[t] = "running"
                           /\ status'[t] = "cancelling" => status[t] \in {"running", "cancelling"}
  PROVE  Owned'
BY DEF Owned, RunningIsOwned, CancellingIsOwned, Working

\* The same when handlers and the persister move on.
LEMMA OthersFrame ==
  ASSUME TypeOK, Owned, NEW a \in Actors \ Workers, UNCHANGED <<kind, status>>,
         inMap' \subseteq inMap,
         \A w \in Workers : pc'[w] = pc[w] /\ on'[w] = on[w]
  PROVE  Owned'
BY DEF Owned, RunningIsOwned, CancellingIsOwned, Working

LEMMA SettleOwned ==
  ASSUME TypeOK, Owned, NEW w \in Workers, NEW s, NEW Pers, Settle(w, s, Pers),
         Working(w),
         \/ s \in Terminal
         \/ on[w] \notin inMap
         \/ s = "cancelling" /\ kind[on[w]] = "crypt"
  PROVE  Owned'
<1>1. on[w] \in Tasks /\ w \in Actors
  BY DEF TypeOK, Working, Actors
<1>2. \A t \in inMap' : t \in inMap /\ t \in Tasks
  BY DEF Settle, TypeOK
<1>3. ASSUME NEW t \in inMap', t # on[w]
      PROVE  /\ status'[t] = status[t] /\ kind'[t] = kind[t]
             /\ \A v \in Workers : on[v] = t /\ Working(v) => on'[v] = t /\ Working(v)'
  BY <1>1, <1>2, <1>3 DEF Settle, TypeOK, Working, Actors
<1>4. ASSUME NEW t \in inMap', t = on[w]
      PROVE  /\ status'[t] # "running"
             /\ status'[t] = "cancelling" => kind'[t] = "crypt"
  BY <1>1, <1>2, <1>4 DEF Settle, TypeOK, Terminal
<1> QED BY <1>2, <1>3, <1>4 DEF Owned, RunningIsOwned, CancellingIsOwned

LEMMA TaskDoneOwned == ASSUME TypeOK, Owned, NEW w \in Workers, TaskDone(w)
                       PROVE  Owned'
<1>1. ASSUME Working(w), failTask(w) PROVE Owned'
  BY <1>1, SettleOwned DEF failTask, Terminal
<1>2. ASSUME Working(w), Complete(w) PROVE Owned'
  BY <1>2, SettleOwned DEF Complete, Terminal
<1>3. CASE CryptDone(w)
  <2>1. Working(w) BY <1>3 DEF CryptDone, Working, WorkingPCs
  <2> QED BY <1>1, <1>2, <1>3, <2>1, SettleOwned DEF CryptDone
<1>4. CASE FileDone(w)
  <2>1. Working(w) BY <1>4 DEF FileDone, Working, WorkingPCs
  <2> QED BY <1>1, <1>2, <1>4, <2>1 DEF FileDone
<1>5. CASE RebuildCancelled(w)
  <2>1. Working(w) BY <1>5 DEF RebuildCancelled, Working, WorkingPCs
  <2> QED BY <1>5, <2>1, SettleOwned DEF RebuildCancelled, Terminal
<1>6. CASE RebuildReturned(w)
  BY <1>6 DEF RebuildReturned, TypeOK, Actors, Working, WorkingPCs, memory, bounds,
              Owned, RunningIsOwned, CancellingIsOwned
<1>7. CASE RebuildDone(w)
  <2>1. Working(w) BY <1>7 DEF RebuildDone, Working, WorkingPCs
  <2> QED BY <1>1, <1>2, <1>7, <2>1 DEF RebuildDone
<1> QED BY <1>3, <1>4, <1>5, <1>6, <1>7 DEF TaskDone

LEMMA WorkerOwned ==
  ASSUME TypeOK, Owned, NEW w \in Workers, WorkerStep(w) \/ updateProgress(w)
  PROVE  Owned'
<1> w \in Actors BY DEF Actors
<1> USE DEF TypeOK, Working, WorkingPCs, Owned, RunningIsOwned, CancellingIsOwned
<1>1. ASSUME NEW t \in Tasks, dequeue(w, t) PROVE Owned'
  BY <1>1 DEF dequeue, Actors
<1>2. CASE StartWork(w)
  BY <1>2 DEF StartWork, Actors
<1>3. CASE NextTask(w)
  BY <1>3 DEF NextTask, memory, Actors
<1>4. CASE WorkerExits(w)
  BY <1>4 DEF WorkerExits, memory, Actors
<1>5. CASE updateProgress(w)
  BY <1>5 DEF updateProgress, memory, actors
<1> QED BY <1>1, <1>2, <1>3, <1>4, <1>5, TaskDoneOwned DEF WorkerStep

LEMMA CancelTaskStatus ==
  ASSUME TypeOK, NEW t \in Tasks, CancelTask(t)
  PROVE  \A u \in Tasks : /\ status'[u] = "running" => status[u] = "running"
                          /\ status'[u] = "cancelling" => status[u] \in {"running", "cancelling"}
BY DEF CancelTask, TypeOK

LEMMA HandlerOwned == ASSUME TypeOK, Owned, NEW c \in Clients, Handler(c)
                      PROVE  Owned'
<1> c \in Actors \ Workers BY DEF Actors
<1>1. ASSUME NEW t \in Tasks, NEW k \in Kinds, Create(c, t, k) PROVE Owned'
  BY <1>1 DEF Create, TypeOK, Alive, Statuses, Unfinished, Terminal, Working, Actors,
              Owned, RunningIsOwned, CancellingIsOwned
<1>2. ASSUME NEW t \in Tasks, Cancel(c, t) PROVE Owned'
  BY <1>2, CancelTaskStatus, OwnedFrame DEF Cancel, TypeOK, actors
<1>3. ASSUME NEW t \in Tasks, ResumeTask(c, t) \/ Retry(c, t) PROVE Owned'
  <2>1. status' = [status EXCEPT ![t] = "queued"] /\ UNCHANGED <<kind, inMap, pc, on>>
    BY <1>3 DEF ResumeTask, Retry, actors
  <2> QED BY <2>1, OwnedFrame DEF TypeOK
<1>4. CASE CancelByRunId(c)
  BY <1>4, OthersFrame DEF CancelByRunId, TypeOK, memory
<1>5. ASSUME NEW S, Delete(c, S) PROVE Owned'
  BY <1>5, OthersFrame DEF Delete, TypeOK
<1>6. CASE SetRunMeta(c)
  BY <1>6, OthersFrame DEF SetRunMeta, TypeOK
<1>7. CASE Respond(c)
  BY <1>7, OthersFrame DEF Respond, TypeOK, memory
<1>9. CASE saveTasks(c)
  BY <1>9, OthersFrame DEF saveTasks, TypeOK, memory
<1>8. ASSUME NEW t \in Tasks, CancelNext(c, t) PROVE Owned'
  <2>1. /\ \A w \in Workers : pc'[w] = pc[w] /\ on'[w] = on[w]
        /\ UNCHANGED <<kind, inMap>>
    BY <1>8 DEF CancelNext, TypeOK
  <2>2. \A u \in inMap : /\ u \in Tasks
                         /\ status'[u] = "running" => status[u] = "running"
                         /\ status'[u] = "cancelling" => status[u] \in {"running", "cancelling"}
    BY <1>8, CancelTaskStatus DEF CancelNext, TypeOK
  <2> QED BY <2>1, <2>2 DEF Owned, RunningIsOwned, CancellingIsOwned, Working
<1> QED BY <1>1, <1>2, <1>3, <1>4, <1>5, <1>6, <1>7, <1>8, <1>9
        DEF Handler, HandlerStep, RemoveTask, ClearCompleted

LEMMA StepOwned == TypeOK /\ Owned /\ [Next]_vars => Owned'
<1> SUFFICES ASSUME TypeOK, Owned, [Next]_vars PROVE Owned'
  OBVIOUS
<1>1. ASSUME NEW a \in Actors, Persist(a) PROVE Owned'
  BY <1>1, OwnedFrame DEF Persist, Snapshot, Upsert, memory
<1>2. CASE PersisterStep
  <2>1. Persister \in Actors \ Workers BY DEF Actors
  <2>2. /\ \A w \in Workers : pc'[w] = pc[w] /\ on'[w] = on[w]
        /\ UNCHANGED <<kind, status, inMap>>
    BY <1>2, <2>1
       DEF PersisterStep, TakeDirty, SelectUnfinished, Flushed, TypeOK, memory, Actors
  <2> QED BY <2>1, <2>2, OthersFrame
<1>3. CASE Restart
  BY <1>3, KnownRows DEF Restart, Owned, RunningIsOwned, CancellingIsOwned
<1>4. CASE Stop \/ UNCHANGED vars
  BY <1>4, OwnedFrame DEF Stop, vars, memory, actors
<1> QED BY <1>1, <1>2, <1>3, <1>4, HandlerOwned, WorkerOwned DEF Next

\* A task shown as running is being run by a worker, after any sequence of
\* retries, cancellations, removals, failures and restarts.
THEOREM RunningOwned == Spec => []RunningIsOwned
<1>1. Init => Owned
  BY DEF Init, Owned, RunningIsOwned, CancellingIsOwned
<1>2. Owned => RunningIsOwned
  BY DEF Owned
<1> QED BY <1>1, <1>2, StepOwned, TypeCorrect, PTL DEF Spec

\* A file operation or a rebuild shown as being cancelled has a worker that
\* will settle it.
THEOREM CancellingOwned == Spec => []CancellingIsOwned
<1>1. Init => Owned
  BY DEF Init, Owned, RunningIsOwned, CancellingIsOwned
<1>2. Owned => CancellingIsOwned
  BY DEF Owned
<1> QED BY <1>1, <1>2, StepOwned, TypeCorrect, PTL DEF Spec

-----------------------------------------------------------------------------
(* No false success.                                                       *)

\* Steps that complete no task, write no row and take no copy.
LEMMA SuccessFrame ==
  ASSUME TypeOK, NoFalseSuccess, UNCHANGED <<row, snap>>,
         succeeded \subseteq succeeded',
         \A t \in Tasks : status'[t] = "completed" => status[t] = "completed"
  PROVE  NoFalseSuccess'
BY DEF NoFalseSuccess

LEMMA PersistSuccess ==
  ASSUME TypeOK, NoFalseSuccess, NEW a \in Actors, Persist(a)
  PROVE  NoFalseSuccess'
<1>1. ASSUME NEW t \in Tasks, Snapshot(a, t) PROVE NoFalseSuccess'
  BY <1>1 DEF Snapshot, Copy, TypeOK, NoFalseSuccess, memory
<1>2. ASSUME Upsert(a) PROVE NoFalseSuccess'
  <2>1. snap[a] \in [task : Tasks, row : SavedRow]
    BY <1>2 DEF Upsert, TypeOK
  <2>2. \A t \in Tasks : row'[t] = row[t] \/ (t = snap[a].task /\ row'[t] = snap[a].row)
    BY <1>2, <2>1 DEF Upsert, Written, TypeOK
  <2>3. snap' = [snap EXCEPT ![a] = NoSnap] /\ UNCHANGED <<status, succeeded>>
    BY <1>2 DEF Upsert, memory
  <2>4. NoSnap.row.status # "completed"
    BY DEF NoSnap, NoRow
  <2> QED BY <2>1, <2>2, <2>3, <2>4 DEF TypeOK, NoFalseSuccess
<1> QED BY <1>1, <1>2 DEF Persist

LEMMA SettleSuccess ==
  ASSUME TypeOK, NoFalseSuccess, NEW w \in Workers, Working(w),
         NEW s, NEW Pers, Settle(w, s, Pers),
         succeeded' \in {succeeded, succeeded \cup {on[w]}},
         s = "completed" => \/ on[w] \in succeeded'
                            \/ s = status[on[w]]
  PROVE  NoFalseSuccess'
<1>1. on[w] \in Tasks
  BY DEF TypeOK, Working, Actors
<1>2. \A t \in Tasks : status'[t] = IF t = on[w] THEN s ELSE status[t]
  BY DEF Settle, TypeOK
<1>3. UNCHANGED <<row, snap>>
  BY DEF Settle
<1> QED BY <1>1, <1>2, <1>3 DEF NoFalseSuccess

LEMMA WorkerSuccess ==
  ASSUME TypeOK, NoFalseSuccess, NEW w \in Workers, WorkerStep(w) \/ updateProgress(w)
  PROVE  NoFalseSuccess'
<1>1. ASSUME Working(w), failTask(w) PROVE NoFalseSuccess'
  BY <1>1, SettleSuccess DEF failTask
<1>2. ASSUME Working(w), Complete(w) PROVE NoFalseSuccess'
  BY <1>2, SettleSuccess DEF Complete
<1>3. CASE CryptDone(w)
  <2>1. Working(w) BY <1>3 DEF CryptDone, Working, WorkingPCs
  <2> QED BY <1>1, <1>2, <1>3, <2>1, SettleSuccess DEF CryptDone
<1>4. CASE FileDone(w)
  <2>1. Working(w) BY <1>4 DEF FileDone, Working, WorkingPCs
  <2> QED BY <1>1, <1>2, <1>4, <2>1 DEF FileDone
<1>5. CASE RebuildCancelled(w)
  <2>1. Working(w) BY <1>5 DEF RebuildCancelled, Working, WorkingPCs
  <2> QED BY <1>5, <2>1, SettleSuccess DEF RebuildCancelled
<1>6. CASE RebuildDone(w)
  <2>1. Working(w) BY <1>6 DEF RebuildDone, Working, WorkingPCs
  <2> QED BY <1>1, <1>2, <1>6, <2>1 DEF RebuildDone
<1>7. ASSUME NEW t \in Tasks, dequeue(w, t) PROVE NoFalseSuccess'
  BY <1>7, SuccessFrame DEF dequeue, TypeOK
<1>8. CASE StartWork(w) \/ RebuildReturned(w) \/ NextTask(w) \/ WorkerExits(w)
           \/ updateProgress(w)
  BY <1>8, SuccessFrame
     DEF StartWork, RebuildReturned, NextTask, WorkerExits, updateProgress, memory, actors
<1> QED BY <1>3, <1>4, <1>5, <1>6, <1>7, <1>8 DEF WorkerStep, TaskDone

LEMMA HandlerSuccess ==
  ASSUME TypeOK, NoFalseSuccess, NEW c \in Clients, Handler(c)
  PROVE  NoFalseSuccess'
<1>1. ASSUME NEW t \in Tasks, CancelTask(t)
      PROVE  \A u \in Tasks : status'[u] = "completed" => status[u] = "completed"
  BY <1>1 DEF CancelTask, TypeOK
<1>2. ASSUME NEW t \in Tasks, NEW k \in Kinds, Create(c, t, k) PROVE NoFalseSuccess'
  BY <1>2, SuccessFrame DEF Create, TypeOK
<1>3. ASSUME NEW t \in Tasks, Cancel(c, t) PROVE NoFalseSuccess'
  BY <1>1, <1>3, SuccessFrame DEF Cancel, actors
<1>4. ASSUME NEW t \in Tasks, CancelNext(c, t) PROVE NoFalseSuccess'
  BY <1>1, <1>4, SuccessFrame DEF CancelNext
<1>5. ASSUME NEW t \in Tasks, Retry(c, t) PROVE NoFalseSuccess'
  BY <1>5, SuccessFrame DEF Retry, actors, TypeOK
<1>6. ASSUME NEW t \in Tasks, ResumeTask(c, t) PROVE NoFalseSuccess'
  <2>1. [Copy(t) EXCEPT !.status = "queued"].status = "queued"
    BY DEF Copy
  <2>2. \A u \in Tasks : row'[u] = row[u] \/ row'[u].status = "queued"
    <3>1. row' \in Written(t, [Copy(t) EXCEPT !.status = "queued"])
      BY <1>6 DEF ResumeTask
    <3>2. ASSUME NEW r, r.status = "queued", NEW R \in Written(t, r), NEW u \in Tasks
          PROVE  R[u] = row[u] \/ R[u].status = "queued"
      BY <3>2 DEF Written, TypeOK
    <3> QED BY <2>1, <3>1, <3>2
  <2>3. status' = [status EXCEPT ![t] = "queued"] /\ UNCHANGED <<snap, succeeded>>
    BY <1>6 DEF ResumeTask, actors
  <2> QED BY <2>2, <2>3 DEF NoFalseSuccess, TypeOK
<1>7. ASSUME NEW S, Delete(c, S) PROVE NoFalseSuccess'
  BY <1>7, SuccessFrame DEF Delete
<1>8. CASE CancelByRunId(c) \/ SetRunMeta(c) \/ saveTasks(c) \/ Respond(c)
  BY <1>8, SuccessFrame DEF CancelByRunId, SetRunMeta, saveTasks, Respond, memory
<1> QED BY <1>2, <1>3, <1>4, <1>5, <1>6, <1>7, <1>8
        DEF Handler, HandlerStep, RemoveTask, ClearCompleted

LEMMA StepSuccess == TypeOK /\ NoFalseSuccess /\ [Next]_vars => NoFalseSuccess'
<1> SUFFICES ASSUME TypeOK, NoFalseSuccess, [Next]_vars PROVE NoFalseSuccess'
  OBVIOUS
<1>1. CASE PersisterStep
  BY <1>1, SuccessFrame DEF PersisterStep, TakeDirty, SelectUnfinished, Flushed, memory
<1>2. CASE Stop \/ UNCHANGED vars
  BY <1>2, SuccessFrame DEF Stop, vars, memory, actors
<1>3. CASE Restart
  <2>1. \A t \in Tasks : status'[t] = "completed" => row[t].status = "completed"
    BY <1>3, KnownRows DEF Restart
  <2>2. \A a \in Actors : snap'[a].row.status # "completed"
    BY <1>3 DEF Restart, NoSnap, NoRow
  <2>3. UNCHANGED <<row, succeeded>>
    BY <1>3 DEF Restart
  <2> QED BY <2>1, <2>2, <2>3 DEF NoFalseSuccess
<1> QED BY <1>1, <1>2, <1>3, PersistSuccess, WorkerSuccess, HandlerSuccess DEF Next

\* No task, row or copy of a task says "completed" unless the operation of
\* the task once returned without an error.
THEOREM NoFalseSuccessHolds == Spec => []NoFalseSuccess
<1>1. Init => NoFalseSuccess
  BY DEF Init, NoFalseSuccess, NoSnap, NoRow
<1> QED BY <1>1, StepSuccess, TypeCorrect, PTL DEF Spec

-----------------------------------------------------------------------------
(* The task manager implements the work queue.                             *)

Requested == {t \in inMap : status[t] = "queued"}
Executing == [w \in Workers |-> IF Working(w) THEN on[w] ELSE NoTask]

LEMMA InitQueue == Init => WQ!AbsInit
BY DEF Init, WQ!AbsInit, WQ!NothingRuns, Working, WorkingPCs, Actors

\* What the workers execute is unchanged by the other goroutines.
LEMMA OthersExecute ==
  ASSUME TypeOK, \A w \in Workers : pc'[w] = pc[w] /\ on'[w] = on[w]
  PROVE  Executing' = Executing
BY DEF Executing, Working

\* A step that at most withdraws requests.
LEMMA Withdrawn ==
  ASSUME TypeOK, Executing' = Executing, Requested' \subseteq Requested
  PROVE  WQ!AbsNext
<1>1. PICK S \in SUBSET Tasks : Requested' = Requested \ S
  <2>1. Requested' = Requested \ (Requested \ Requested')
    OBVIOUS
  <2>2. Requested \ Requested' \in SUBSET Tasks
    BY DEF Requested, TypeOK
  <2> QED BY <2>1, <2>2
<1>2. WQ!Withdraw(S)
  BY <1>1 DEF WQ!Withdraw, Executing, Requested
<1> QED BY <1>2 DEF WQ!AbsNext

\* A step that requests a task.
LEMMA Requesting ==
  ASSUME TypeOK, NEW t \in Tasks, Executing' = Executing,
         Requested' = Requested \cup {t}
  PROVE  WQ!AbsNext
<1>1. WQ!Request(t)
  BY DEF WQ!Request, Executing, Requested
<1> QED BY <1>1 DEF WQ!AbsNext

\* A worker that leaves its task finishes it.
LEMMA Finishing ==
  ASSUME TypeOK, NEW w \in Workers, Working(w), NEW s, NEW Pers, Settle(w, s, Pers),
         s # "queued" \/ s = status[on[w]]
  PROVE  WQ!AbsNext
<1>1. w \in Actors /\ on[w] \in Tasks
  BY DEF TypeOK, Working, Actors
<1>2. Executing[w] = on[w] /\ Executing[w] # NoTask
  BY <1>1 DEF Executing
<1>3. Executing' = [Executing EXCEPT ![w] = NoTask]
  BY <1>1 DEF Executing, Settle, TypeOK, Working, WorkingPCs, Actors
<1>4. Requested' \in {Requested, Requested \ {on[w]}}
  BY <1>1 DEF Requested, Settle, TypeOK
<1>5. WQ!Finish(w)
  BY <1>2, <1>3, <1>4 DEF WQ!Finish, Executing, Requested
<1> QED BY <1>5 DEF WQ!AbsNext

LEMMA WorkerQueue ==
  ASSUME TypeOK, NEW w \in Workers, WorkerStep(w) \/ updateProgress(w)
  PROVE  WQ!AbsNext
<1> w \in Actors BY DEF Actors
<1>1. ASSUME Working(w), failTask(w) PROVE WQ!AbsNext
  BY <1>1, Finishing DEF failTask
<1>2. ASSUME Working(w), Complete(w) PROVE WQ!AbsNext
  BY <1>2, Finishing DEF Complete
<1>3. CASE CryptDone(w)
  <2>1. Working(w) BY <1>3 DEF CryptDone, Working, WorkingPCs
  <2> QED BY <1>1, <1>2, <1>3, <2>1, Finishing DEF CryptDone
<1>4. CASE FileDone(w)
  <2>1. Working(w) BY <1>4 DEF FileDone, Working, WorkingPCs
  <2> QED BY <1>1, <1>2, <1>4, <2>1 DEF FileDone
<1>5. CASE RebuildCancelled(w)
  <2>1. Working(w) BY <1>5 DEF RebuildCancelled, Working, WorkingPCs
  <2> QED BY <1>5, <2>1, Finishing DEF RebuildCancelled
<1>6. CASE RebuildDone(w)
  <2>1. Working(w) BY <1>6 DEF RebuildDone, Working, WorkingPCs
  <2> QED BY <1>1, <1>2, <1>6, <2>1 DEF RebuildDone
<1>7. ASSUME NEW t \in Tasks, dequeue(w, t) PROVE WQ!AbsNext
  <2>1. Executing[w] = NoTask /\ t \in Requested
    BY <1>7 DEF Executing, Requested, dequeue, Working, WorkingPCs
  <2>2. Requested' = Requested \ {t}
    BY <1>7 DEF Requested, dequeue, TypeOK
  <2>3. Executing' = [Executing EXCEPT ![w] = t]
    BY <1>7 DEF Executing, dequeue, TypeOK, Working, WorkingPCs, Actors
  <2>4. WQ!Claim(w, t)
    BY <2>1, <2>2, <2>3 DEF WQ!Claim, Executing, Requested
  <2> QED BY <2>4 DEF WQ!AbsNext
<1>8. CASE StartWork(w) \/ RebuildReturned(w) \/ NextTask(w) \/ WorkerExits(w)
           \/ updateProgress(w)
  <2>1. Executing' = Executing
    BY <1>8 DEF StartWork, RebuildReturned, NextTask, WorkerExits, updateProgress, memory,
                actors, Executing, TypeOK, Working, WorkingPCs, Actors
  <2>2. Requested' = Requested
    BY <1>8 DEF StartWork, RebuildReturned, NextTask, WorkerExits, updateProgress, memory,
                Requested
  <2> QED BY <2>1, <2>2, Withdrawn
<1> QED BY <1>3, <1>4, <1>5, <1>6, <1>7, <1>8 DEF WorkerStep, TaskDone

LEMMA HandlerQueue == ASSUME TypeOK, NEW c \in Clients, Handler(c)
                      PROVE  WQ!AbsNext
<1> c \in Actors \ Workers BY DEF Actors
<1>1. Executing' = Executing
  <2>1. \A w \in Workers : pc'[w] = pc[w] /\ on'[w] = on[w]
    <3> USE DEF TypeOK
    <3>1. ASSUME NEW S, Delete(c, S) PROVE \A w \in Workers : pc'[w] = pc[w] /\ on'[w] = on[w]
      BY <3>1 DEF Delete
    <3>2. CASE HandlerStep(c)
      <4>1. ASSUME NEW t \in Tasks, CancelNext(c, t)
            PROVE  \A w \in Workers : pc'[w] = pc[w] /\ on'[w] = on[w]
        BY <4>1 DEF CancelNext
      <4>2. CASE SetRunMeta(c)
        BY <4>2 DEF SetRunMeta
      <4>3. CASE Respond(c)
        BY <4>3 DEF Respond
      <4>4. CASE saveTasks(c)
        BY <4>4 DEF saveTasks
      <4> QED BY <3>2, <4>1, <4>2, <4>3, <4>4 DEF HandlerStep
    <3>3. ASSUME NEW t \in Tasks, NEW k \in Kinds, Create(c, t, k)
          PROVE  \A w \in Workers : pc'[w] = pc[w] /\ on'[w] = on[w]
      BY <3>3 DEF Create
    <3>4. ASSUME NEW t \in Tasks, Cancel(c, t) \/ ResumeTask(c, t) \/ Retry(c, t)
          PROVE  \A w \in Workers : pc'[w] = pc[w] /\ on'[w] = on[w]
      BY <3>4 DEF Cancel, ResumeTask, Retry, actors
    <3>5. CASE CancelByRunId(c)
      BY <3>5 DEF CancelByRunId
    <3> QED BY <3>1, <3>2, <3>3, <3>4, <3>5 DEF Handler, RemoveTask, ClearCompleted
  <2> QED BY <2>1, OthersExecute
<1>2. ASSUME NEW t \in Tasks, CancelTask(t), inMap' = inMap PROVE WQ!AbsNext
  <2>1. Requested' \subseteq Requested
    BY <1>2 DEF Requested, CancelTask, TypeOK
  <2> QED BY <1>1, <2>1, Withdrawn
<1>3. ASSUME UNCHANGED <<status, inMap>> PROVE WQ!AbsNext
  BY <1>1, <1>3, Withdrawn DEF Requested
<1>4. ASSUME NEW t \in Tasks, inMap' = inMap \cup {t},
             status' = [status EXCEPT ![t] = "queued"]
      PROVE  WQ!AbsNext
  <2>1. Requested' = Requested \cup {t}
    BY <1>4 DEF Requested, TypeOK
  <2> QED BY <1>1, <2>1, Requesting
<1>5. ASSUME NEW t \in Tasks, NEW k \in Kinds, Create(c, t, k) PROVE WQ!AbsNext
  BY <1>4, <1>5 DEF Create
<1>6. ASSUME NEW t \in Tasks, ResumeTask(c, t) \/ Retry(c, t) PROVE WQ!AbsNext
  <2>1. inMap' = inMap \cup {t} /\ status' = [status EXCEPT ![t] = "queued"]
    BY <1>6 DEF ResumeTask, Retry
  <2> QED BY <1>4, <2>1
<1>7. ASSUME NEW S, Delete(c, S) PROVE WQ!AbsNext
  <2>1. Requested' \subseteq Requested
    BY <1>7 DEF Requested, Delete
  <2> QED BY <1>1, <2>1, Withdrawn
<1>8. ASSUME NEW t \in Tasks, Cancel(c, t) \/ CancelNext(c, t) PROVE WQ!AbsNext
  BY <1>2, <1>3, <1>8 DEF Cancel, CancelNext
<1>9. CASE CancelByRunId(c) \/ SetRunMeta(c) \/ saveTasks(c) \/ Respond(c)
  BY <1>3, <1>9 DEF CancelByRunId, SetRunMeta, saveTasks, Respond, memory
<1> QED BY <1>5, <1>6, <1>7, <1>8, <1>9 DEF Handler, HandlerStep, RemoveTask, ClearCompleted

LEMMA StepQueue == TypeOK /\ [Next]_vars => [WQ!AbsNext]_(WQ!absVars)
<1> SUFFICES ASSUME TypeOK, [Next]_vars PROVE [WQ!AbsNext]_(WQ!absVars)
  OBVIOUS
<1>1. ASSUME Executing' = Executing, Requested' = Requested PROVE WQ!AbsNext
  BY <1>1, Withdrawn
<1>2. ASSUME NEW a \in Actors, Persist(a) PROVE WQ!AbsNext
  BY <1>1, <1>2 DEF Persist, Snapshot, Upsert, memory, Executing, Requested, Working
<1>3. CASE PersisterStep
  <2>1. \A w \in Workers : pc'[w] = pc[w] /\ on'[w] = on[w]
    BY <1>3 DEF PersisterStep, TakeDirty, SelectUnfinished, Flushed, TypeOK, Actors
  <2>2. Requested' = Requested
    BY <1>3 DEF PersisterStep, TakeDirty, SelectUnfinished, Flushed, memory, Requested
  <2> QED BY <1>1, <2>1, <2>2, OthersExecute
<1>4. CASE Stop \/ UNCHANGED vars
  BY <1>1, <1>4 DEF Stop, vars, memory, actors, Executing, Requested, Working
<1>5. CASE Restart
  <2>1. Requested' = {}
    BY <1>5, KnownRows DEF Requested, Restart
  <2>2. Executing' = WQ!NothingRuns
    BY <1>5 DEF Executing, Restart, WQ!NothingRuns, Working, WorkingPCs, Actors
  <2> QED BY <2>1, <2>2 DEF WQ!AbsNext, WQ!Forget, Executing, Requested
<1> QED BY <1>2, <1>3, <1>4, <1>5, HandlerQueue, WorkerQueue DEF Next

\* The task manager implements the work queue: whatever the handlers, the
\* persister and the crashes do, a worker starts a task only by consuming a
\* request for it, and no two workers consume the same request.
THEOREM Refinement == Spec => ImplementsWorkQueue
<1>1. TypeOK /\ [Next]_vars => [WQ!AbsNext]_(WQ!absVars)
  BY StepQueue
<1> QED BY <1>1, InitQueue, TypeCorrect, PTL DEF Spec, ImplementsWorkQueue, WQ!AbsSpec
=============================================================================
