------------------------- MODULE FilesAndHubProofs -------------------------
(***************************************************************************)
(* Proofs about FileTasks, for any files, tasks, workers and requests;     *)
(* about BundleUpdate, for any requests, versions and deaths of the        *)
(* process; and about WSHub, for any number of clients and of broadcasts   *)
(* and any size of the send channels.                                      *)
(***************************************************************************)
EXTENDS FileTasks, BundleUpdate, WSHub, WellFoundedInduction, TLAPS

\* The code counts its ids upwards: as long as one is unused, the least one
\* exists and is unused.
LEMMA LeastId ==
  ASSUME Unused # {}
  PROVE  NextId \in Unused
<1> DEFINE R == OpToRel(<, Nat)
<1>1. IsWellFoundedOn(R, Nat)
  BY NatLessThanWellFounded
<1>2. Unused \subseteq Nat
  BY FileTasksAssumption DEF Unused, FileTaskIds
<1>3. \A a, b \in Nat : a < b => <<a, b>> \in R
  BY DEF OpToRel
<1> HIDE DEF R
<1>4. \E x \in Unused : \A y \in Unused : <<y, x>> \notin R
  BY <1>1, <1>2, WFMin
<1>5. PICK x \in Unused : \A y \in Unused : <<y, x>> \notin R
  BY <1>4
<1>6. \A y \in Unused : ~ (y < x)
  BY <1>2, <1>3, <1>5
<1>7. \A y \in Unused : x <= y
  BY <1>2, <1>6
<1> QED
  BY <1>7 DEF NextId
\* The tasks that the invariant speaks about: a task keeps what it was created
\* for, and has a place in the order of its handler.
TaskPlaces == {"none", "queued", "preparing", "trashing", "recording", "returning", "placing", "undoing",
               "moving back", "restoring", "bringing", "unlisting", "completed", "failed"}
TaskRecords == [kind : FileKinds \cup {"none"}, src : Paths \cup {Empty}, dst : Paths \cup {Empty},
              over : BOOLEAN, of : FileTaskIds \cup {NoFileTask}, pc : TaskPlaces, clear : BOOLEAN]
ApiRecords == [pc : {"idle", "creating", "linking", "unlisting"}, of : FileTaskIds \cup {NoFileTask}, by : FileTaskIds \cup {NoFileTask}]
OfFiles == FileKinds \ {"undo"}

FileTypes ==
  /\ fs \in [Places -> FileContents \cup {Empty}]
  /\ rows \subseteq FileTaskIds
  /\ ftask \in [FileTaskIds -> TaskRecords]
  /\ api \in [Handlers -> ApiRecords]

\* Where a task is, in the order that its handler goes: a move, a copy and a
\* delete have their paths and undo nothing, and a rollback that runs undoes a
\* task that has completed; a step that may write over a file has looked first.
Ordered(r) ==
  /\ r.kind = "none" => r.pc = "none"
  /\ r.pc = "none" => r.kind = "none"
  /\ r.kind \in OfFiles => r.src \in Paths /\ r.dst \in Paths
  /\ r.kind # "undo" => r.of = NoFileTask
  /\ r.kind = "undo" /\ r.of = NoFileTask => r.pc \in {"queued", "failed"}
  /\ r.pc \in {"preparing", "trashing", "recording", "returning", "placing"} => r.kind \in OfFiles
  /\ r.pc \in {"undoing", "moving back", "restoring", "bringing", "unlisting"} => r.kind = "undo"
  /\ r.pc \in {"recording", "returning", "placing", "moving back", "bringing"} => r.clear

OrderOf(t) ==
  /\ Ordered(ftask[t])
  /\ ftask[t].of # NoFileTask =>
       ftask[ftask[t].of].pc = "completed" /\ ftask[ftask[t].of].kind \in OfFiles

\* A handler that rolls back holds a task that has completed, and the rollback
\* that it has created is its own and undoes nothing yet.
ApiOrder(h) ==
  /\ api[h].pc \in {"creating", "linking"} =>
       /\ api[h].of # NoFileTask
       /\ ftask[api[h].of].pc = "completed" /\ ftask[api[h].of].kind \in OfFiles
  /\ api[h].pc = "linking" =>
       /\ api[h].by # NoFileTask
       /\ ftask[api[h].by].kind = "undo" /\ ftask[api[h].by].pc \in {"queued", "failed"}
       /\ ftask[api[h].by].of = NoFileTask
       /\ \A g \in Handlers : api[g].pc = "linking" /\ api[g].by = api[h].by => g = h

FileOrder == (\A t \in FileTaskIds : OrderOf(t)) /\ (\A h \in Handlers : ApiOrder(h))

\* A file comes to the trash when its task puts it there and in no other way;
\* what is about to lose its entry has left the trash.
Left(t) ==
  /\ t # NoFileTask
  /\ fs[t] = Empty
  /\ ftask[t].pc \in {"placing", "completed", "failed"}
  /\ ftask[t].kind \in OfFiles

FilesKept ==
  /\ \A t \in FileTaskIds :
       ftask[t].pc \in {"none", "queued", "preparing", "trashing"} => fs[t] = Empty
  /\ \A t \in FileTaskIds : ftask[t].pc = "recording" => fs[t] # Empty
  /\ \A t \in rows : ftask[t].pc \in {"placing", "completed", "failed"} /\ ftask[t].kind \in OfFiles
  /\ \A u \in FileTaskIds : ftask[u].pc = "unlisting" => Left(ftask[u].of)
  /\ \A h \in Handlers : api[h].pc = "unlisting" => Left(api[h].of)

FilesInv == FileTypes /\ FileOrder /\ FilesKept /\ TrashIsListed /\ ContentsSurvive

LEMMA InitFiles == FilesInit => FileTypes /\ FileOrder /\ FilesKept /\ TrashIsListed
<1> SUFFICES ASSUME FilesInit
             PROVE  FileTypes /\ FileOrder /\ FilesKept /\ TrashIsListed
  OBVIOUS
<1>1. FileTypes
  <2>0. NoTask0 \in TaskRecords
    BY DEF TaskRecords, TaskPlaces, NoTask0
  <2>1. IdleApi \in ApiRecords
    BY DEF ApiRecords, IdleApi
  <2>2. fs \in [Places -> FileContents \cup {Empty}] /\ rows = {}
    BY DEF FilesInit
  <2>3. ftask \in [FileTaskIds -> TaskRecords] /\ api \in [Handlers -> ApiRecords]
    BY <2>0, <2>1 DEF FilesInit
  <2> QED
    BY <2>2, <2>3 DEF FileTypes
<1>2. FileOrder
  BY DEF FilesInit, FileOrder, OrderOf, Ordered, ApiOrder, NoTask0, IdleApi, OfFiles, FileKinds, NoFileTask
<1>3. FilesKept /\ TrashIsListed
  BY DEF FilesInit, FilesKept, TrashIsListed, NoTask0, IdleApi
<1> QED
  BY <1>1, <1>2, <1>3

-----------------------------------------------------------------------------
(* The order of the tasks                                                  *)

\* What a step of a handler makes of its task: it goes on, and keeps the order.
Onward(t, r) ==
  /\ r \in TaskRecords
  /\ ftask' = [ftask EXCEPT ![t] = r]
  /\ r.kind = ftask[t].kind /\ r.src = ftask[t].src /\ r.dst = ftask[t].dst /\ r.of = ftask[t].of
  /\ ftask[t].pc \notin {"none", "completed", "failed"} /\ r.pc # "none"
  /\ Ordered(r)

\* A task that goes on keeps the order of all tasks, for no task undoes one
\* that has not completed.
LEMMA OnwardKeepsOrder ==
  ASSUME FileTypes, FileOrder, NEW t \in FileTaskIds, NEW r, Onward(t, r), api' = api
  PROVE  FileOrder'
<1>1. /\ ftask'[t] = r
      /\ \A u \in FileTaskIds : u # t => ftask'[u] = ftask[u]
  BY DEF FileTypes, Onward
<1>2. \A u \in FileTaskIds : /\ ftask'[u].kind = ftask[u].kind
                             /\ ftask'[u].src = ftask[u].src
                             /\ ftask'[u].dst = ftask[u].dst
                             /\ ftask'[u].of = ftask[u].of
                             /\ ftask[u].pc = "completed" => ftask'[u].pc = "completed"
  BY <1>1 DEF Onward
<1>3. \A u \in FileTaskIds : ftask[u].of \in FileTaskIds \cup {NoFileTask}
  BY DEF FileTypes, TaskRecords
<1>4. ASSUME NEW u \in FileTaskIds
      PROVE  OrderOf(u)'
  <2>1. ftask[u].of # NoFileTask =>
          ftask'[ftask[u].of].pc = "completed" /\ ftask'[ftask[u].of].kind \in OfFiles
    BY <1>2, <1>3 DEF FileOrder, OrderOf
  <2>2. CASE u = t
    BY <1>1, <1>2, <2>1, <2>2 DEF OrderOf, Onward
  <2>3. CASE u # t
    BY <1>1, <2>1, <2>3 DEF FileOrder, OrderOf
  <2> QED
    BY <2>2, <2>3
<1>5. ASSUME NEW h \in Handlers
      PROVE  ApiOrder(h)'
  <2>1. api[h].of \in FileTaskIds \cup {NoFileTask} /\ api[h].by \in FileTaskIds \cup {NoFileTask}
    BY DEF FileTypes, ApiRecords
  <2>2. ASSUME api[h].pc = "linking"
        PROVE  ftask'[api[h].by].pc \in {"queued", "failed"}
    <3>1. /\ api[h].by \in FileTaskIds
          /\ ftask[api[h].by].kind = "undo" /\ ftask[api[h].by].of = NoFileTask
          /\ ftask[api[h].by].pc \in {"queued", "failed"}
      BY <2>1, <2>2 DEF FileOrder, ApiOrder
    <3> QED
      BY <1>1, <3>1 DEF Onward, Ordered
  <2> QED
    BY <1>2, <2>1, <2>2 DEF FileOrder, ApiOrder
<1> QED
  BY <1>4, <1>5 DEF FileOrder

\* A step from one place to another that stays in the order is one onward.
LEMMA StepGoesOn ==
  ASSUME FileTypes, FileOrder, NEW t \in FileTaskIds, NEW from, NEW to \in TaskPlaces, Step(t, from, to),
         from \notin {"none", "completed", "failed"}, to # "none",
         ftask[t].kind = "undo" /\ ftask[t].of = NoFileTask => to \in {"queued", "failed"},
         to \in {"preparing", "trashing", "recording", "returning", "placing"} =>
           ftask[t].kind \in OfFiles,
         to \in {"undoing", "moving back", "restoring", "bringing", "unlisting"} =>
           ftask[t].kind = "undo",
         to \in {"recording", "returning", "placing", "moving back", "bringing"} => ftask[t].clear
  PROVE  \E r : Onward(t, r) /\ r.pc = to
<1> DEFINE r == [ftask[t] EXCEPT !.pc = to]
<1>1. /\ ftask[t] \in TaskRecords /\ ftask[t].pc = from
      /\ ftask' = [ftask EXCEPT ![t] = r] /\ Ordered(ftask[t])
  BY DEF FileTypes, Step, FileOrder, OrderOf
<1>2. /\ r \in TaskRecords /\ r.pc = to
      /\ r.kind = ftask[t].kind /\ r.src = ftask[t].src /\ r.dst = ftask[t].dst
      /\ r.of = ftask[t].of /\ r.clear = ftask[t].clear
  BY <1>1 DEF TaskRecords
<1> HIDE DEF r
<1>3. Ordered(r)
  BY <1>1, <1>2 DEF Ordered
<1>4. Onward(t, r)
  BY <1>1, <1>2, <1>3 DEF Onward
<1> QED
  BY <1>2, <1>4

LEMMA ClearGoesOn ==
  ASSUME FileTypes, FileOrder, NEW t \in FileTaskIds, NEW to \in TaskPlaces,
         ftask' = [ftask EXCEPT ![t].pc = to, ![t].clear = TRUE],
         ftask[t].pc \notin {"none", "completed", "failed"}, to # "none",
         ftask[t].kind = "undo" => ftask[t].of # NoFileTask,
         to \in {"preparing", "trashing", "recording", "returning", "placing"} =>
           ftask[t].kind \in OfFiles,
         to \in {"undoing", "moving back", "restoring", "bringing", "unlisting"} =>
           ftask[t].kind = "undo"
  PROVE  \E r : Onward(t, r) /\ r.pc = to
<1> DEFINE r == [ftask[t] EXCEPT !.pc = to, !.clear = TRUE]
<1>1. /\ ftask[t] \in TaskRecords
      /\ ftask' = [ftask EXCEPT ![t] = r] /\ Ordered(ftask[t])
  BY DEF FileTypes, FileOrder, OrderOf
<1>2. /\ r \in TaskRecords /\ r.pc = to
      /\ r.kind = ftask[t].kind /\ r.src = ftask[t].src /\ r.dst = ftask[t].dst
      /\ r.of = ftask[t].of /\ r.clear = TRUE
  BY <1>1 DEF TaskRecords
<1> HIDE DEF r
<1>3. Ordered(r)
  BY <1>1, <1>2 DEF Ordered
<1>4. Onward(t, r)
  BY <1>1, <1>2, <1>3 DEF Onward
<1> QED
  BY <1>2, <1>4

\* The places that the files of a task have.
LEMMA PathsOfTask ==
  ASSUME FileTypes, FileOrder, NEW t \in FileTaskIds, ftask[t].kind \in OfFiles
  PROVE  /\ ftask[t].src \in Paths /\ ftask[t].dst \in Paths /\ TrashedPath(t) \in Paths
         /\ t \notin Paths
         /\ t \in Places /\ TrashedPath(t) \in Places
         /\ ftask[t].src \in Places /\ ftask[t].dst \in Places
  BY FileTasksAssumption DEF FileOrder, OrderOf, Ordered, TrashedPath, Places

\* A rollback that runs undoes a task of files that has completed.
LEMMA UndoneTask ==
  ASSUME FileTypes, FileOrder, NEW t \in FileTaskIds, ftask[t].of # NoFileTask
  PROVE  /\ ftask[t].of \in FileTaskIds /\ ftask[t].kind = "undo"
         /\ Of(t).pc = "completed" /\ Of(t).kind \in OfFiles
         /\ ftask[t].of # t
         /\ From(t) \in Places /\ To(t) \in Paths /\ To(t) \in Places /\ Of(t).dst \in Paths
         /\ ftask[t].of \in Places /\ Of(t).dst \in Places
         /\ From(t) # ftask[t].of => From(t) \in Paths
<1>1. ftask[t].of \in FileTaskIds
  BY DEF FileTypes, TaskRecords
<1>2. ftask[t].kind = "undo" /\ Of(t).pc = "completed" /\ Of(t).kind \in OfFiles
  BY DEF FileOrder, OrderOf, Ordered, Of
<1>3. /\ Of(t).src \in Paths /\ Of(t).dst \in Paths
      /\ ftask[t].of \notin Paths /\ ftask[t].of \in Places
      /\ Of(t).src \in Places /\ Of(t).dst \in Places
  BY <1>1, <1>2, PathsOfTask DEF Of
<1>4. ftask[t].of # t
  BY <1>2 DEF Of, OfFiles
<1> QED
  BY <1>1, <1>2, <1>3, <1>4 DEF From, To

LEMMA UndoRuns ==
  ASSUME FileTypes, FileOrder, NEW t \in FileTaskIds,
         ftask[t].pc \in {"undoing", "moving back", "restoring", "bringing", "unlisting"}
  PROVE  ftask[t].of # NoFileTask /\ ftask[t].kind = "undo"
  BY DEF FileOrder, OrderOf, Ordered

LEMMA FilesRun ==
  ASSUME FileTypes, FileOrder, NEW t \in FileTaskIds,
         ftask[t].pc \in {"preparing", "trashing", "recording", "returning", "placing"}
  PROVE  ftask[t].kind \in OfFiles
  BY DEF FileOrder, OrderOf, Ordered

\* A step of the handler of a task.
TaskStep(t) ==
  \/ StartTask(t) \/ Prepare(t) \/ MoveToTrash(t) \/ CreateTrash(t) \/ PutBack(t) \/ Place(t)
  \/ CheckUndo(t) \/ MoveFileBack(t) \/ RemoveCopy(t) \/ CheckOverwritten(t)
  \/ BringOverwritten(t) \/ DeleteRow(t)

LEMMA TasksGoOn ==
  ASSUME FileTypes, FileOrder, NEW t \in FileTaskIds, TaskStep(t)
  PROVE  (\E r : Onward(t, r)) /\ api' = api
<1>0. api' = api
  BY DEF TaskStep, StartTask, Prepare, MoveToTrash, CreateTrash, PutBack, Place, CheckUndo,
         MoveFileBack, RemoveCopy, CheckOverwritten, BringOverwritten, DeleteRow
<1> SUFFICES \E r : Onward(t, r)
  BY <1>0
<1> USE DEF OfFiles, FileKinds, TaskPlaces
<1>1. CASE StartTask(t)
  <2>1. CASE ftask[t].kind \in {"move", "copy"} /\ Step(t, "queued", "preparing")
    BY <2>1, StepGoesOn
  <2>2. CASE ftask[t].kind = "delete" /\ Step(t, "queued", "trashing")
    BY <2>2, StepGoesOn
  <2>3. CASE ftask[t].kind = "undo" /\ ftask[t].of # NoFileTask /\ Step(t, "queued", "undoing")
    BY <2>3, StepGoesOn
  <2>4. CASE ftask[t].kind = "undo" /\ ftask[t].of = NoFileTask /\ Step(t, "queued", "failed")
    BY <2>4, StepGoesOn
  <2> QED
    BY <1>1, <2>1, <2>2, <2>3, <2>4 DEF StartTask
<1>2. CASE Prepare(t)
  <2>1. ftask[t].kind \in OfFiles /\ ftask[t].pc = "preparing"
    BY <1>2, FilesRun DEF Prepare
  <2>2. CASE ftask' = [ftask EXCEPT ![t].pc = "placing", ![t].clear = TRUE]
    BY <2>1, <2>2, ClearGoesOn
  <2>3. CASE Step(t, "preparing", "trashing")
    BY <2>1, <2>3, StepGoesOn
  <2>4. CASE Step(t, "preparing", "failed")
    BY <2>1, <2>4, StepGoesOn
  <2> QED
    BY <1>2, <2>2, <2>3, <2>4 DEF Prepare
<1>3. CASE MoveToTrash(t)
  <2>1. ftask[t].kind \in OfFiles /\ ftask[t].pc = "trashing"
    BY <1>3, FilesRun DEF MoveToTrash
  <2>2. CASE ftask' = [ftask EXCEPT ![t].pc = "recording", ![t].clear = TRUE]
    BY <2>1, <2>2, ClearGoesOn
  <2>3. CASE Step(t, "trashing", "failed")
    BY <2>1, <2>3, StepGoesOn
  <2> QED
    BY <1>3, <2>2, <2>3 DEF MoveToTrash
<1>4. CASE CreateTrash(t)
  <2>1. ftask[t].kind \in OfFiles /\ ftask[t].pc = "recording" /\ ftask[t].clear
    BY <1>4, FilesRun DEF CreateTrash, FileOrder, OrderOf, Ordered
  <2>2. CASE Step(t, "recording", "completed")
    BY <2>1, <2>2, StepGoesOn
  <2>3. CASE Step(t, "recording", "placing")
    BY <2>1, <2>3, StepGoesOn
  <2>4. CASE Step(t, "recording", "returning")
    BY <2>1, <2>4, StepGoesOn
  <2> QED
    BY <1>4, <2>2, <2>3, <2>4 DEF CreateTrash
<1>5. CASE PutBack(t)
  <2>1. ftask[t].kind \in OfFiles /\ Step(t, "returning", "failed")
    BY <1>5, FilesRun DEF PutBack, Step
  <2> QED
    BY <1>5, <2>1, StepGoesOn DEF PutBack
<1>6. CASE Place(t)
  <2>1. ftask[t].kind \in OfFiles /\ ftask[t].pc = "placing"
    BY <1>6, FilesRun DEF Place
  <2>2. CASE Step(t, "placing", "completed")
    BY <2>1, <2>2, StepGoesOn
  <2>3. CASE Step(t, "placing", "failed")
    BY <2>1, <2>3, StepGoesOn
  <2> QED
    BY <1>6, <2>2, <2>3 DEF Place
<1>7. CASE CheckUndo(t)
  <2>1. ftask[t].of # NoFileTask /\ ftask[t].kind = "undo" /\ ftask[t].pc = "undoing"
    BY <1>7, UndoRuns DEF CheckUndo
  <2>2. CASE ftask' = [ftask EXCEPT ![t].pc = "moving back", ![t].clear = TRUE]
    BY <2>1, <2>2, ClearGoesOn
  <2>3. CASE Step(t, "undoing", "failed")
    BY <2>1, <2>3, StepGoesOn
  <2> QED
    BY <1>7, <2>2, <2>3 DEF CheckUndo
<1>8. CASE MoveFileBack(t)
  <2>1. ftask[t].of # NoFileTask /\ ftask[t].kind = "undo" /\ ftask[t].pc = "moving back"
    BY <1>8, UndoRuns DEF MoveFileBack
  <2>2. CASE Step(t, "moving back", "unlisting")
    BY <2>1, <2>2, StepGoesOn
  <2>3. CASE Step(t, "moving back", "restoring")
    BY <2>1, <2>3, StepGoesOn
  <2>4. CASE Step(t, "moving back", "failed")
    BY <2>1, <2>4, StepGoesOn
  <2> QED
    BY <1>8, <2>2, <2>3, <2>4 DEF MoveFileBack
<1>9. CASE RemoveCopy(t)
  <2>1. ftask[t].of # NoFileTask /\ ftask[t].kind = "undo" /\ ftask[t].pc = "undoing"
    BY <1>9, UndoRuns DEF RemoveCopy
  <2>2. CASE Step(t, "undoing", "restoring")
    BY <2>1, <2>2, StepGoesOn
  <2>3. CASE Step(t, "undoing", "failed")
    BY <2>1, <2>3, StepGoesOn
  <2> QED
    BY <1>9, <2>2, <2>3 DEF RemoveCopy
<1>10. CASE CheckOverwritten(t)
  <2>1. ftask[t].of # NoFileTask /\ ftask[t].kind = "undo" /\ ftask[t].pc = "restoring"
    BY <1>10, UndoRuns DEF CheckOverwritten
  <2>2. CASE ftask' = [ftask EXCEPT ![t].pc = "bringing", ![t].clear = TRUE]
    BY <2>1, <2>2, ClearGoesOn
  <2>3. CASE Step(t, "restoring", "completed")
    BY <2>1, <2>3, StepGoesOn
  <2>4. CASE Step(t, "restoring", "failed")
    BY <2>1, <2>4, StepGoesOn
  <2> QED
    BY <1>10, <2>2, <2>3, <2>4 DEF CheckOverwritten
<1>11. CASE BringOverwritten(t)
  <2>1. ftask[t].of # NoFileTask /\ ftask[t].kind = "undo" /\ ftask[t].pc = "bringing"
    BY <1>11, UndoRuns DEF BringOverwritten
  <2>2. CASE Step(t, "bringing", "unlisting")
    BY <2>1, <2>2, StepGoesOn
  <2>3. CASE Step(t, "bringing", "failed")
    BY <2>1, <2>3, StepGoesOn
  <2> QED
    BY <1>11, <2>2, <2>3 DEF BringOverwritten
<1>12. CASE DeleteRow(t)
  <2>1. ftask[t].of # NoFileTask /\ ftask[t].kind = "undo" /\ Step(t, "unlisting", "completed")
    BY <1>12, UndoRuns DEF DeleteRow, Step
  <2> QED
    BY <1>12, <2>1, StepGoesOn DEF DeleteRow
<1> QED
  BY <1>1, <1>2, <1>3, <1>4, <1>5, <1>6, <1>7, <1>8, <1>9, <1>10, <1>11, <1>12
     DEF TaskStep

-----------------------------------------------------------------------------
(* The order of the requests                                               *)

\* A handler that does not link a rollback keeps the order.
LEMMA ApiKeepsOrder ==
  ASSUME FileTypes, FileOrder, NEW h \in Handlers, NEW r \in ApiRecords,
         api' = [api EXCEPT ![h] = r], ftask' = ftask, r.pc # "linking",
         r.pc = "creating" => /\ r.of # NoFileTask
                              /\ ftask[r.of].pc = "completed" /\ ftask[r.of].kind \in OfFiles
  PROVE  FileOrder' /\ api' \in [Handlers -> ApiRecords]
<1>1. /\ api'[h] = r /\ \A g \in Handlers : g # h => api'[g] = api[g]
      /\ api' \in [Handlers -> ApiRecords]
  BY DEF FileTypes
<1>2. ASSUME NEW t \in FileTaskIds
      PROVE  OrderOf(t)'
  BY DEF FileOrder, OrderOf
<1>3. ASSUME NEW g \in Handlers
      PROVE  ApiOrder(g)'
  <2>1. CASE g = h
    BY <1>1, <2>1 DEF ApiOrder
  <2>2. CASE g # h
    BY <1>1, <2>2 DEF FileOrder, ApiOrder
  <2> QED
    BY <2>1, <2>2
<1> QED
  BY <1>1, <1>2, <1>3 DEF FileOrder

\* Nobody holds an identifier that is not in use.
LEMMA UnusedIsFree ==
  ASSUME FileTypes, FileOrder, NEW n \in Unused
  PROVE  /\ n \in FileTaskIds /\ ftask[n].pc = "none" /\ ftask[n].kind = "none"
         /\ \A t \in FileTaskIds : ftask[t].of # n
         /\ \A h \in Handlers : api[h].pc \in {"creating", "linking"} => api[h].of # n
         /\ \A h \in Handlers : api[h].pc = "linking" => api[h].by # n
<1>1. n \in FileTaskIds /\ ftask[n].kind = "none" /\ ftask[n].pc = "none"
  BY DEF Unused, FileOrder, OrderOf, Ordered
<1>2. n # NoFileTask
  BY <1>1, FileTasksAssumption DEF FileTaskIds, NoFileTask
<1>3. ASSUME NEW t \in FileTaskIds
      PROVE  ftask[t].of # n
  BY <1>1, <1>2 DEF FileOrder, OrderOf
<1>4. ASSUME NEW h \in Handlers
      PROVE  /\ api[h].pc \in {"creating", "linking"} => api[h].of # n
             /\ api[h].pc = "linking" => api[h].by # n
  BY <1>1 DEF FileOrder, ApiOrder
<1> QED
  BY <1>1, <1>3, <1>4

\* A task that is created undoes nothing yet, and changes the order of no other.
LEMMA NewTaskOrdered ==
  ASSUME FileTypes, FileOrder, NEW n \in Unused, NEW r \in TaskRecords,
         ftask' = [ftask EXCEPT ![n] = r], Ordered(r), r.of = NoFileTask
  PROVE  /\ ftask' \in [FileTaskIds -> TaskRecords]
         /\ ftask'[n] = r /\ \A u \in FileTaskIds : u # n => ftask'[u] = ftask[u]
         /\ \A t \in FileTaskIds : OrderOf(t)'
<1>1. n \in FileTaskIds /\ \A t \in FileTaskIds : ftask[t].of # n
  BY UnusedIsFree
<1>2. /\ ftask'[n] = r /\ \A u \in FileTaskIds : u # n => ftask'[u] = ftask[u]
      /\ ftask' \in [FileTaskIds -> TaskRecords]
  BY <1>1 DEF FileTypes
<1>3. \A u \in FileTaskIds : ftask[u].of \in FileTaskIds \cup {NoFileTask}
  BY DEF FileTypes, TaskRecords
<1>4. ASSUME NEW t \in FileTaskIds
      PROVE  OrderOf(t)'
  <2>1. CASE t = n
    BY <1>2, <2>1 DEF OrderOf
  <2>2. CASE t # n
    <3>1. ftask'[t] = ftask[t]
      BY <1>2, <2>2
    <3>2. ftask[t].of # NoFileTask => ftask'[ftask[t].of] = ftask[ftask[t].of]
      BY <1>1, <1>2, <1>3
    <3> QED
      BY <3>1, <3>2 DEF FileOrder, OrderOf
  <2> QED
    BY <2>1, <2>2
<1> QED
  BY <1>2, <1>4

LEMMA CreateKeepsOrder ==
  ASSUME FileTypes, FileOrder, CreateFileTask
  PROVE  /\ FileOrder' /\ FileTypes' /\ api' = api
         /\ \E n \in Unused : \E r : /\ r.pc = "queued" /\ r.kind # "none"
                                     /\ ftask' = [ftask EXCEPT ![n] = r]
<1>1. NextId \in Unused
  BY LeastId DEF CreateFileTask
<1>2. PICK k \in FileKinds \ {"undo"}, s \in Paths, d \in Paths, o \in BOOLEAN :
        /\ s # d
        /\ k = "delete" => ~o /\ d = CHOOSE p \in Paths : p # s
        /\ ftask' = [ftask EXCEPT ![NextId] = [NoTask0 EXCEPT !.kind = k, !.src = s, !.dst = d,
                                                              !.over = o, !.pc = "queued"]]
  BY Zenon DEF CreateFileTask
<1> DEFINE r == [NoTask0 EXCEPT !.kind = k, !.src = s, !.dst = d, !.over = o, !.pc = "queued"]
<1>3. /\ r \in TaskRecords /\ r.kind = k /\ r.src = s /\ r.dst = d /\ r.pc = "queued"
      /\ r.of = NoFileTask
  BY DEF NoTask0, TaskRecords, TaskPlaces
<1>4. ftask' = [ftask EXCEPT ![NextId] = r]
  BY <1>2
<1> HIDE DEF r
<1>5. k \in OfFiles /\ k # "none" /\ k # "undo"
  BY DEF OfFiles, FileKinds
<1>6. Ordered(r)
  BY <1>3, <1>5 DEF Ordered
<1>7. /\ ftask' \in [FileTaskIds -> TaskRecords]
      /\ \A u \in FileTaskIds : u # NextId => ftask'[u] = ftask[u]
      /\ \A t \in FileTaskIds : OrderOf(t)'
  BY <1>1, <1>3, <1>4, <1>6, NewTaskOrdered
<1>8. UNCHANGED <<fs, rows, api>>
  BY DEF CreateFileTask
<1>9. ASSUME NEW h \in Handlers
      PROVE  ApiOrder(h)'
  <2>1. api[h].of \in FileTaskIds \cup {NoFileTask} /\ api[h].by \in FileTaskIds \cup {NoFileTask}
    BY DEF FileTypes, ApiRecords
  <2>2. /\ api[h].pc \in {"creating", "linking"} => api[h].of # NextId
        /\ api[h].pc = "linking" => api[h].by # NextId
    BY <1>1, UnusedIsFree
  <2> QED
    BY <1>7, <1>8, <2>1, <2>2 DEF FileOrder, ApiOrder
<1> QED
  BY <1>1, <1>3, <1>4, <1>5, <1>7, <1>8, <1>9 DEF FileOrder, FileTypes

LEMMA RollbackKeepsOrder ==
  ASSUME FileTypes, FileOrder, NEW h \in Handlers, CreateRollback(h)
  PROVE  /\ FileOrder' /\ FileTypes'
         /\ \E n \in Unused : \E r : /\ r.pc = "queued" /\ r.kind # "none"
                                     /\ ftask' = [ftask EXCEPT ![n] = r]
         /\ \A g \in Handlers : api'[g].pc = "unlisting" => api'[g] = api[g]
         /\ \A g \in Handlers : api[g].pc = "unlisting" => api'[g] = api[g]
<1>1. NextId \in Unused
  BY LeastId DEF CreateRollback
<1> DEFINE r == [NoTask0 EXCEPT !.kind = "undo", !.pc = "queued"]
<1>2. /\ r \in TaskRecords /\ r.kind = "undo" /\ r.pc = "queued" /\ r.of = NoFileTask
  BY DEF NoTask0, TaskRecords, TaskPlaces, FileKinds
<1>3. ftask' = [ftask EXCEPT ![NextId] = r]
  BY DEF CreateRollback
<1> HIDE DEF r
<1>4. Ordered(r)
  BY <1>2 DEF Ordered, OfFiles
<1>5. /\ ftask' \in [FileTaskIds -> TaskRecords]
      /\ ftask'[NextId] = r
      /\ \A u \in FileTaskIds : u # NextId => ftask'[u] = ftask[u]
      /\ \A t \in FileTaskIds : OrderOf(t)'
  BY <1>1, <1>2, <1>3, <1>4, NewTaskOrdered
<1>6. UNCHANGED <<fs, rows>>
  BY DEF CreateRollback
<1>7. NextId \in FileTaskIds /\ NextId # NoFileTask
  BY <1>1, UnusedIsFree, FileTasksAssumption DEF FileTaskIds, NoFileTask
<1>8. PICK a : a = [api[h] EXCEPT !.pc = "linking", !.by = NextId]
  OBVIOUS
<1>9. /\ api[h] \in ApiRecords /\ api[h].pc = "creating"
      /\ api' = [api EXCEPT ![h] = a]
  BY <1>8 DEF CreateRollback, FileTypes
<1>10. a \in ApiRecords /\ a.pc = "linking" /\ a.by = NextId /\ a.of = api[h].of
  BY <1>7, <1>8, <1>9 DEF ApiRecords
<1>11. /\ api' \in [Handlers -> ApiRecords] /\ api'[h] = a
       /\ \A g \in Handlers : g # h => api'[g] = api[g]
  BY <1>9, <1>10 DEF FileTypes
<1>12. ASSUME NEW g \in Handlers
       PROVE  ApiOrder(g)'
  <2>1. api[g].of \in FileTaskIds \cup {NoFileTask} /\ api[g].by \in FileTaskIds \cup {NoFileTask}
    BY DEF FileTypes, ApiRecords
  <2>2. \A e \in Handlers : api[e].pc = "linking" => api[e].by # NextId
    BY <1>1, UnusedIsFree
  <2>3. api[g].pc \in {"creating", "linking"} =>
          /\ api[g].of # NoFileTask
          /\ ftask'[api[g].of].pc = "completed" /\ ftask'[api[g].of].kind \in OfFiles
    BY <1>1, <1>5, <2>1, UnusedIsFree DEF FileOrder, ApiOrder
  <2>4. CASE g = h
    BY <1>2, <1>5, <1>7, <1>9, <1>10, <1>11, <2>2, <2>3, <2>4 DEF ApiOrder
  <2>5. CASE g # h
    BY <1>5, <1>10, <1>11, <2>1, <2>2, <2>3, <2>5 DEF FileOrder, ApiOrder
  <2> QED
    BY <2>4, <2>5
<1>13. \A g \in Handlers : /\ api'[g].pc = "unlisting" => api'[g] = api[g]
                           /\ api[g].pc = "unlisting" => api'[g] = api[g]
  BY <1>9, <1>10, <1>11
<1> QED
  BY <1>1, <1>2, <1>3, <1>5, <1>6, <1>11, <1>12, <1>13 DEF FileOrder, FileTypes

LEMMA LinkKeepsOrder ==
  ASSUME FileTypes, FileOrder, NEW h \in Handlers, SetRollbackOf(h)
  PROVE  /\ FileOrder' /\ FileTypes'
         /\ \A u \in FileTaskIds : ftask'[u].pc = ftask[u].pc /\ ftask'[u].kind = ftask[u].kind
         /\ \A u \in FileTaskIds : ftask[u].pc = "unlisting" => ftask'[u] = ftask[u]
         /\ \A g \in Handlers : api'[g].pc = "unlisting" => api'[g] = api[g]
         /\ \A g \in Handlers : api[g].pc = "unlisting" => api'[g] = api[g]
<1>1. PICK n, o, r : /\ n = api[h].by /\ o = api[h].of
                     /\ r = [ftask[n] EXCEPT !.of = o]
  OBVIOUS
<1>2. /\ n \in FileTaskIds /\ o \in FileTaskIds /\ o # NoFileTask
      /\ ftask[o].pc = "completed" /\ ftask[o].kind \in OfFiles
      /\ ftask[n].kind = "undo" /\ ftask[n].pc \in {"queued", "failed"}
      /\ api[h].pc = "linking"
  BY <1>1 DEF SetRollbackOf, FileOrder, ApiOrder, FileTypes, ApiRecords
<1>3. ftask' = [ftask EXCEPT ![n] = r] /\ api' = [api EXCEPT ![h] = IdleApi]
  BY <1>1 DEF SetRollbackOf
<1>4. /\ r \in TaskRecords /\ r.pc = ftask[n].pc /\ r.kind = "undo" /\ r.of = o
      /\ Ordered(ftask[n])
  BY <1>1, <1>2 DEF FileTypes, TaskRecords, FileOrder, OrderOf
<1>5. Ordered(r)
  BY <1>2, <1>4 DEF Ordered, OfFiles
<1>6. /\ ftask' \in [FileTaskIds -> TaskRecords] /\ ftask'[n] = r
      /\ \A u \in FileTaskIds : u # n => ftask'[u] = ftask[u]
  BY <1>2, <1>3, <1>4 DEF FileTypes
<1>7. \A u \in FileTaskIds : ftask'[u].pc = ftask[u].pc /\ ftask'[u].kind = ftask[u].kind
  BY <1>2, <1>4, <1>6
<1>8. /\ IdleApi \in ApiRecords /\ IdleApi.pc = "idle"
  BY DEF IdleApi, ApiRecords
<1>9. /\ api' \in [Handlers -> ApiRecords] /\ api'[h] = IdleApi
      /\ \A g \in Handlers : g # h => api'[g] = api[g]
  BY <1>3, <1>8 DEF FileTypes
<1>10. ASSUME NEW t \in FileTaskIds
       PROVE  OrderOf(t)'
  <2>1. ftask[t].of \in FileTaskIds \cup {NoFileTask}
    BY DEF FileTypes, TaskRecords
  <2>2. CASE t = n
    BY <1>2, <1>4, <1>5, <1>6, <1>7, <2>2 DEF OrderOf
  <2>3. CASE t # n
    BY <1>6, <1>7, <2>1, <2>3 DEF FileOrder, OrderOf
  <2> QED
    BY <2>2, <2>3
<1>11. ASSUME NEW g \in Handlers
       PROVE  ApiOrder(g)'
  <2>1. api[g].of \in FileTaskIds \cup {NoFileTask} /\ api[g].by \in FileTaskIds \cup {NoFileTask}
    BY DEF FileTypes, ApiRecords
  <2>2. CASE g = h
    BY <1>8, <1>9, <2>2 DEF ApiOrder
  <2>3. CASE g # h
    <3>1. api'[g] = api[g]
      BY <1>9, <2>3
    <3>2. api[g].pc = "linking" => api[g].by # n
      BY <1>1, <1>2, <2>3 DEF FileOrder, ApiOrder
    <3>3. \A e \in Handlers : api'[e].pc = "linking" => api'[e] = api[e]
      BY <1>8, <1>9
    <3> QED
      BY <1>6, <1>7, <2>1, <3>1, <3>2, <3>3 DEF FileOrder, ApiOrder
  <2> QED
    BY <2>2, <2>3
<1>12. UNCHANGED <<fs, rows>>
  BY DEF SetRollbackOf
<1>13. \A u \in FileTaskIds : ftask[u].pc = "unlisting" => ftask'[u] = ftask[u]
  BY <1>2, <1>6
<1>14. \A g \in Handlers : /\ api'[g].pc = "unlisting" => api'[g] = api[g]
                           /\ api[g].pc = "unlisting" => api'[g] = api[g]
  BY <1>2, <1>8, <1>9
<1> QED
  BY <1>6, <1>7, <1>9, <1>10, <1>11, <1>12, <1>13, <1>14 DEF FileOrder, FileTypes

-----------------------------------------------------------------------------
(* The files                                                               *)

\* What a move makes of the places.
LEMMA MovedFiles ==
  ASSUME FileTypes, NEW a \in Places, NEW b \in Places, a # b
  PROVE  /\ Moved(a, b) \in [Places -> FileContents \cup {Empty}]
         /\ Moved(a, b)[a] = Empty /\ Moved(a, b)[b] = fs[a]
         /\ \A p \in Places : p # a /\ p # b => Moved(a, b)[p] = fs[p]
  BY DEF FileTypes, Moved

\* And a move that fails: the source keeps its file.
LEMMA FailedFiles ==
  ASSUME FileTypes, NEW a \in Places, NEW b \in Places, a # b, NEW f \in MoveFailures(a, b)
  PROVE  /\ f \in [Places -> FileContents \cup {Empty}]
         /\ f[b] \in {fs[a], fs[b], Empty}
         /\ \A p \in Places : p # b => f[p] = fs[p]
  BY DEF FileTypes, MoveFailures

\* No content goes if the place that is written held none.
LEMMA WriteToEmpty ==
  ASSUME FileTypes, NEW a \in Places, NEW b \in Places, a # b, fs[b] = Empty,
         NEW f \in {Moved(a, b)} \cup MoveFailures(a, b)
  PROVE  Gone(f) \subseteq Gone(fs)
<1> SUFFICES ASSUME NEW c \in FileContents, NEW p \in Places, fs[p] = c
             PROVE  \E q \in Places : f[q] = c
  BY DEF Gone
<1>1. p # b
  BY FileTasksAssumption
<1>2. CASE f = Moved(a, b)
  BY <1>1, <1>2, MovedFiles
<1>3. CASE f \in MoveFailures(a, b)
  BY <1>1, <1>3, FailedFiles
<1> QED
  BY <1>2, <1>3

\* What goes with an excuse, or does not go, breaks no promise.
LEMMA ExcusedSurvive ==
  ASSUME ContentsSurvive, NEW c, Excuses(c), c \/ Gone(fs') \subseteq Gone(fs)
  PROVE  ContentsSurvive'
  BY DEF ContentsSurvive, Excuses, Gone

LEMMA KeptSurvive ==
  ASSUME ContentsSurvive, excused' = excused, Gone(fs') \subseteq Gone(fs)
  PROVE  ContentsSurvive'
  BY DEF ContentsSurvive, Gone

-----------------------------------------------------------------------------
(* The trash                                                               *)

\* What a step that takes a task on may do to the trash: fill the place of the
\* task as it comes there, or empty the place of the task it undoes as it comes
\* to take its entry away.
TrashStep(t, r) ==
  /\ \A i \in FileTaskIds \ {t} : fs'[i] # fs[i] =>
       fs'[i] = Empty /\ i = ftask[t].of /\ r.pc = "unlisting"
  /\ fs'[t] # fs[t] => ftask[t].pc \in {"trashing", "returning"}
  /\ r.pc = "unlisting" => fs'[ftask[t].of] = Empty
  /\ r.pc \in {"queued", "preparing", "trashing"} =>
       ftask[t].pc \in {"queued", "preparing", "trashing"} /\ fs'[t] = fs[t]
  /\ r.pc = "recording" => fs'[t] # Empty
  /\ fs'[t] # Empty => \/ fs'[t] = fs[t] /\ ftask[t].pc \notin {"recording", "returning"}
                       \/ t \in rows' \cup stranded'
                       \/ r.pc \in {"recording", "returning"}
  /\ t \in rows' => fs'[t] = fs[t] /\ r.pc \in {"placing", "completed", "failed"}
  /\ ftask[t].pc = "recording" => fs'[t] = fs[t]
  /\ ftask[t].pc = "placing" => r.pc \in {"placing", "completed", "failed"}
  /\ stranded \subseteq stranded' /\ stale \subseteq stale'
  /\ \A i \in rows \ rows' : i = ftask[t].of /\ ftask[t].pc = "unlisting"
  /\ \A i \in rows' \ rows : i = t /\ ftask[t].pc = "recording" /\ ftask[t].kind \in OfFiles
  /\ ftask[t].pc = "unlisting" => ftask[t].of \notin rows' \/ ftask[t].of \in stale'

LEMMA TrashStepKeeps ==
  ASSUME FileTypes, FileOrder, FilesKept, TrashIsListed, NEW t \in FileTaskIds, NEW r, Onward(t, r),
         TrashStep(t, r), FileOrder', api' = api, rows' \subseteq FileTaskIds
  PROVE  FilesKept' /\ TrashIsListed'
<1>1. /\ ftask'[t] = r
      /\ \A u \in FileTaskIds : u # t => ftask'[u] = ftask[u]
      /\ ftask'[t].kind = ftask[t].kind /\ ftask'[t].of = ftask[t].of
      /\ ftask[t].pc \notin {"none", "completed", "failed"} /\ r.pc # "none"
  BY DEF FileTypes, Onward
<1>2. NoFileTask \notin FileTaskIds
  BY FileTasksAssumption DEF FileTaskIds, NoFileTask
<1>3. \A u \in FileTaskIds : ftask[u].of \in FileTaskIds \cup {NoFileTask}
  BY DEF FileTypes, TaskRecords
<1>4. ASSUME NEW u \in FileTaskIds, Left(u)
      PROVE  Left(u)'
  <2>1. CASE u = t
    BY <1>1, <2>1, <1>4 DEF Left, TrashStep
  <2>2. CASE u # t
    BY <1>1, <2>2, <1>4 DEF Left, TrashStep
  <2> QED
    BY <2>1, <2>2
<1>5. ASSUME NEW u \in FileTaskIds
      PROVE  (ftask'[u].pc \in {"none", "queued", "preparing", "trashing"} => fs'[u] = Empty)
             /\ (ftask'[u].pc = "recording" => fs'[u] # Empty)
  <2>1. CASE u = t
    BY <1>1, <2>1 DEF TrashStep, FilesKept
  <2>2. CASE u # t
    <3>1. ftask'[u] = ftask[u]
      BY <1>1, <2>2
    <3>2. fs'[u] # fs[u] => fs'[u] = Empty /\ Of(t).pc = "completed" /\ u = ftask[t].of
      BY <1>2, <2>2 DEF TrashStep, FileOrder, OrderOf, Of
    <3> QED
      BY <3>1, <3>2 DEF FilesKept, Of
  <2> QED
    BY <2>1, <2>2
<1>6. ASSUME NEW u \in rows'
      PROVE  ftask'[u].pc \in {"placing", "completed", "failed"} /\ ftask'[u].kind \in OfFiles
  BY <1>1, <1>6 DEF TrashStep, FilesKept
<1>7. ASSUME NEW u \in FileTaskIds, ftask'[u].pc = "unlisting"
      PROVE  Left(ftask[u].of)'
  <2>0. PICK o : o = ftask[u].of
    OBVIOUS
  <2>1. ftask'[u].of = o /\ o \in FileTaskIds \cup {NoFileTask}
    BY <1>1, <1>3, <2>0
  <2>2. CASE u = t
    <3>1. o # NoFileTask /\ r.pc = "unlisting"
      BY <1>1, <1>7, <2>0, <2>2 DEF Onward, Ordered
    <3>2. /\ o \in FileTaskIds
          /\ ftask'[o].pc = "completed" /\ ftask'[o].kind \in OfFiles
      BY <2>1, <3>1 DEF FileOrder, OrderOf
    <3>3. fs'[o] = Empty
      BY <2>0, <2>2, <3>1 DEF TrashStep
    <3> QED
      BY <2>1, <3>1, <3>2, <3>3 DEF Left
  <2>3. CASE u # t
    <3>1. Left(o)
      BY <1>1, <1>7, <2>0, <2>3 DEF FilesKept
    <3>2. o \in FileTaskIds
      BY <2>1, <3>1 DEF Left
    <3>3. Left(o)'
      BY <1>4, <3>1, <3>2
    <3> QED
      BY <2>1, <3>3 DEF Left
  <2> QED
    BY <2>2, <2>3
<1>8. ASSUME NEW h \in Handlers, api'[h].pc = "unlisting"
      PROVE  Left(api[h].of)'
  <2>1. PICK o : o = api[h].of
    OBVIOUS
  <2>2. Left(o) /\ o \in FileTaskIds \cup {NoFileTask}
    BY <1>8, <2>1 DEF FilesKept, FileTypes, ApiRecords
  <2>3. Left(o)'
    BY <1>4, <2>2 DEF Left
  <2> QED
    BY <2>1, <2>3 DEF Left
<1>9. FilesKept'
  BY <1>5, <1>6, <1>7, <1>8 DEF FilesKept
<1>10. ASSUME NEW u \in FileTaskIds, fs'[u] # Empty
       PROVE  u \in rows' \cup stranded' \/ ftask'[u].pc \in {"recording", "returning"}
  <2>1. CASE u = t
    BY <1>1, <1>10, <2>1 DEF TrashStep, TrashIsListed, FilesKept
  <2>2. CASE u # t
    <3>1. fs'[u] = fs[u] /\ ftask'[u] = ftask[u]
      BY <1>1, <1>10, <2>2 DEF TrashStep
    <3>2. u \in rows \cup stranded \/ ftask[u].pc \in {"recording", "returning"}
      BY <1>10, <3>1 DEF TrashIsListed
    <3>3. u \in rows => u \in rows'
      BY <1>10, <3>1 DEF TrashStep, FilesKept, Left
    <3> QED
      BY <3>1, <3>2, <3>3 DEF TrashStep
  <2> QED
    BY <2>1, <2>2
<1>11. ASSUME NEW u \in rows', fs'[u] = Empty
       PROVE  \/ u \in stale'
              \/ \E h \in Handlers : api'[h].pc = "unlisting" /\ api'[h].of = u
              \/ \E v \in FileTaskIds : ftask'[v].pc = "unlisting" /\ ftask'[v].of = u
  <2>1. u \in FileTaskIds
    BY <1>11
  <2>2. CASE fs[u] # Empty
    <3>1. u # t
      BY <1>11, <2>2 DEF TrashStep
    <3> QED
      BY <1>1, <1>11, <2>1, <2>2, <3>1 DEF TrashStep
  <2>3. CASE fs[u] = Empty
    <3>1. u \in rows
      BY <1>11, <2>3 DEF TrashStep, FilesKept
    <3>2. CASE u \in stale
      BY <3>2 DEF TrashStep
    <3>3. CASE \E h \in Handlers : api[h].pc = "unlisting" /\ api[h].of = u
      BY <3>3
    <3>4. CASE \E v \in FileTaskIds : ftask[v].pc = "unlisting" /\ ftask[v].of = u
      <4>1. PICK v \in FileTaskIds : ftask[v].pc = "unlisting" /\ ftask[v].of = u
        BY <3>4
      <4>2. CASE v = t
        BY <1>11, <4>1, <4>2 DEF TrashStep
      <4>3. CASE v # t
        BY <1>1, <4>1, <4>3
      <4> QED
        BY <4>2, <4>3
    <3> QED
      BY <2>3, <3>1, <3>2, <3>3, <3>4 DEF TrashIsListed
  <2> QED
    BY <2>2, <2>3
<1>12. TrashIsListed'
  BY <1>10, <1>11 DEF TrashIsListed
<1> QED
  BY <1>9, <1>12

\* What each step of a handler does: to the types, to the trash, to contents.
FileStep(t, r) ==
  /\ fs' \in [Places -> FileContents \cup {Empty}]
  /\ rows' \subseteq FileTaskIds
  /\ TrashStep(t, r)
  /\ ContentsSurvive'

\* The place that a step leaves its task at.
LEMMA PlaceAfter ==
  ASSUME FileTypes, NEW t \in FileTaskIds, NEW r, Onward(t, r)
  PROVE  /\ \A from, to : Step(t, from, to) => ftask[t].pc = from /\ r.pc = to
         /\ \A to : ftask' = [ftask EXCEPT ![t].pc = to, ![t].clear = TRUE] => r.pc = to
<1>1. ftask'[t] = r /\ ftask[t] \in TaskRecords
  BY DEF FileTypes, Onward
<1>2. ASSUME NEW from, NEW to, Step(t, from, to)
      PROVE  ftask[t].pc = from /\ r.pc = to
  BY <1>1, <1>2 DEF FileTypes, TaskRecords, Step
<1>3. ASSUME NEW to, ftask' = [ftask EXCEPT ![t].pc = to, ![t].clear = TRUE]
      PROVE  r.pc = to
  BY <1>1, <1>3 DEF FileTypes, TaskRecords
<1> QED
  BY <1>2, <1>3

\* A step that leaves the files and the entries alone, and no place at the trash.
LEMMA QuietStep ==
  ASSUME FileTypes, FileOrder, FilesKept, ContentsSurvive, NEW t \in FileTaskIds, NEW r, Onward(t, r),
         UNCHANGED <<fs, rows, excused, stranded, stale>>,
         ftask[t].pc \in {"queued", "preparing", "undoing", "restoring"},
         r.pc \in {"preparing", "trashing"} => ftask[t].pc \in {"queued", "preparing"},
         r.pc \notin {"queued", "recording", "unlisting"}
  PROVE  FileStep(t, r)
<1>1. ContentsSurvive'
  BY KeptSurvive
<1>2. t \notin rows
  BY DEF FilesKept
<1>3. TrashStep(t, r)
  BY <1>2 DEF TrashStep
<1> QED
  BY <1>1, <1>3 DEF FileStep, FileTypes

LEMMA QuietSteps ==
  ASSUME FileTypes, FileOrder, FilesKept, ContentsSurvive, NEW t \in FileTaskIds, NEW r, Onward(t, r),
         StartTask(t) \/ Prepare(t) \/ CheckUndo(t) \/ CheckOverwritten(t)
  PROVE  FileStep(t, r)
<1>1. UNCHANGED <<fs, rows, excused, stranded, stale>>
  BY DEF StartTask, Prepare, CheckUndo, CheckOverwritten, fileHistory
<1>2. CASE StartTask(t)
  <2>1. ftask[t].pc = "queued" /\ r.pc \in {"preparing", "trashing", "undoing", "failed"}
    BY <1>2, PlaceAfter DEF StartTask
  <2> QED
    BY <1>1, <2>1, QuietStep
<1>3. CASE Prepare(t)
  <2>1. ftask[t].pc = "preparing" /\ r.pc \in {"placing", "trashing", "failed"}
    BY <1>3, PlaceAfter DEF Prepare
  <2> QED
    BY <1>1, <2>1, QuietStep
<1>4. CASE CheckUndo(t)
  <2>1. ftask[t].pc = "undoing" /\ r.pc \in {"moving back", "failed"}
    BY <1>4, PlaceAfter DEF CheckUndo
  <2> QED
    BY <1>1, <2>1, QuietStep
<1>5. CASE CheckOverwritten(t)
  <2>1. ftask[t].pc = "restoring" /\ r.pc \in {"bringing", "completed", "failed"}
    BY <1>5, PlaceAfter DEF CheckOverwritten
  <2> QED
    BY <1>1, <2>1, QuietStep
<1> QED
  BY <1>2, <1>3, <1>4, <1>5

\* The trash has no file of the task yet, and nothing goes.
LEMMA MoveToTrashStep ==
  ASSUME FileTypes, FileOrder, FilesKept, ContentsSurvive, NEW t \in FileTaskIds, NEW r, Onward(t, r),
         MoveToTrash(t)
  PROVE  FileStep(t, r)
<1>1. ftask[t].pc = "trashing" /\ fs[t] = Empty /\ t \notin rows
  BY DEF MoveToTrash, FilesKept
<1>2. /\ t \in Places /\ TrashedPath(t) \in Places /\ TrashedPath(t) # t
      /\ \A i \in FileTaskIds : i \in Places /\ i # TrashedPath(t)
  BY <1>1, FilesRun, PathsOfTask, FileTasksAssumption DEF Places
<1>3. ftask'[t] = r
  BY DEF FileTypes, Onward
<1>4. PICK p : p = TrashedPath(t)
  OBVIOUS
<1>5. CASE fs[p] # Empty /\ fs' = Moved(p, t)
           /\ ftask' = [ftask EXCEPT ![t].pc = "recording", ![t].clear = TRUE]
  <2>1. r.pc = "recording"
    BY <1>5, PlaceAfter
  <2>2. /\ fs' \in [Places -> FileContents \cup {Empty}]
        /\ fs'[t] = fs[p]
        /\ \A i \in FileTaskIds : i # t => fs'[i] = fs[i]
    BY <1>2, <1>4, <1>5, MovedFiles
  <2>3. Gone(fs') \subseteq Gone(fs)
    BY <1>1, <1>2, <1>4, <1>5, WriteToEmpty
  <2> QED
    BY <1>1, <1>3, <1>5, <2>1, <2>2, <2>3, KeptSurvive
       DEF MoveToTrash, FileStep, TrashStep, FileTypes
<1>6. CASE Step(t, "trashing", "failed")
           /\ fs' \in IF fs[p] # Empty THEN {fs, [fs EXCEPT ![t] = fs[p]]} ELSE {fs}
  <2>1. r.pc = "failed"
    BY <1>6, PlaceAfter
  <2>2. fs' \in MoveFailures(p, t)
    BY <1>6 DEF MoveFailures
  <2>3. /\ fs' \in [Places -> FileContents \cup {Empty}]
        /\ \A i \in FileTaskIds : i # t => fs'[i] = fs[i]
    BY <1>2, <1>4, <2>2, FailedFiles
  <2>4. Gone(fs') \subseteq Gone(fs)
    BY <1>1, <1>2, <1>4, <2>2, WriteToEmpty
  <2>5. fs'[t] # Empty => t \in stranded'
    BY <1>3, <2>1 DEF MoveToTrash
  <2> QED
    BY <1>1, <1>3, <2>1, <2>3, <2>4, <2>5, KeptSurvive
       DEF MoveToTrash, FileStep, TrashStep, FileTypes
<1> QED
  BY <1>4, <1>5, <1>6 DEF MoveToTrash

LEMMA CreateTrashStep ==
  ASSUME FileTypes, FileOrder, FilesKept, ContentsSurvive, NEW t \in FileTaskIds, NEW r, Onward(t, r),
         CreateTrash(t)
  PROVE  FileStep(t, r)
<1>1. /\ ftask[t].pc = "recording" /\ fs[t] # Empty /\ t \notin rows /\ ftask[t].kind \in OfFiles
      /\ UNCHANGED <<fs, excused, stranded, stale>>
  BY FilesRun DEF CreateTrash, FilesKept, fileHistory
<1>2. \/ rows' = rows \cup {t} /\ r.pc \in {"placing", "completed"}
      \/ rows' = rows /\ r.pc = "returning"
  BY PlaceAfter DEF CreateTrash
<1>3. ContentsSurvive'
  BY <1>1, KeptSurvive
<1>4. TrashStep(t, r)
  BY <1>1, <1>2 DEF TrashStep
<1> QED
  BY <1>1, <1>2, <1>3, <1>4 DEF FileStep, FileTypes

LEMMA PutBackStep ==
  ASSUME FileTypes, FileOrder, FilesKept, ContentsSurvive, NEW t \in FileTaskIds, NEW r, Onward(t, r),
         PutBack(t)
  PROVE  FileStep(t, r)
<1>1. ftask[t].pc = "returning" /\ r.pc = "failed" /\ t \notin rows
  <2>1. Step(t, "returning", "failed")
    BY DEF PutBack
  <2>2. ftask[t].pc = "returning" /\ r.pc = "failed"
    BY <2>1, PlaceAfter
  <2> QED
    BY <2>2 DEF FilesKept
<1>2. /\ t \in Places /\ TrashedPath(t) \in Places /\ TrashedPath(t) # t
      /\ \A i \in FileTaskIds : i \in Places /\ i # TrashedPath(t)
  BY <1>1, FilesRun, PathsOfTask, FileTasksAssumption DEF Places
<1>3. PICK p : p = TrashedPath(t)
  OBVIOUS
<1>4. fs' \in {Moved(t, p)} \cup MoveFailures(t, p)
  BY <1>3 DEF PutBack
<1>5. /\ fs' \in [Places -> FileContents \cup {Empty}]
      /\ \A i \in FileTaskIds : i # t => fs'[i] = fs[i]
  BY <1>2, <1>3, <1>4, MovedFiles, FailedFiles
<1>6. fs[p] = Empty => Gone(fs') \subseteq Gone(fs)
  BY <1>2, <1>3, <1>4, WriteToEmpty
<1>7. Excuses(fs[p] # Empty)
  BY <1>3 DEF PutBack
<1>8. ContentsSurvive'
  BY <1>6, <1>7, ExcusedSurvive
<1>9. TrashStep(t, r)
  BY <1>1, <1>5 DEF PutBack, TrashStep
<1> QED
  BY <1>5, <1>8, <1>9 DEF FileStep, FileTypes, PutBack

\* What a step among the files of the user leaves of the trash.
LEMMA FilesOnly ==
  ASSUME FileTypes, NEW a \in Paths, NEW b \in Paths,
         NEW f \in {Moved(a, b), [fs EXCEPT ![a] = Empty]} \cup MoveFailures(a, b)
  PROVE  /\ f \in [Places -> FileContents \cup {Empty}]
         /\ \A i \in FileTaskIds : f[i] = fs[i]
  BY FileTasksAssumption DEF FileTypes, Moved, MoveFailures, Places

LEMMA PlaceStep ==
  ASSUME FileTypes, FileOrder, FilesKept, ContentsSurvive, NEW t \in FileTaskIds, NEW r, Onward(t, r),
         Place(t)
  PROVE  FileStep(t, r)
<1>1. PICK s, d : s = ftask[t].src /\ d = ftask[t].dst
  OBVIOUS
<1>2. ftask[t].pc = "placing" /\ s \in Paths /\ d \in Paths /\ ftask[t].clear
  BY <1>1, FilesRun, PathsOfTask DEF Place, FileOrder, OrderOf, Ordered
<1>3. r.pc \in {"completed", "failed"}
  BY PlaceAfter DEF Place
<1>4. fs' \in {Moved(s, d)} \cup MoveFailures(s, d)
  BY <1>1 DEF Place, MoveFailures
<1>5. /\ fs' \in [Places -> FileContents \cup {Empty}]
      /\ \A i \in FileTaskIds : fs'[i] = fs[i]
  BY <1>2, <1>4, FilesOnly
<1>6. Excuses(ftask[t].clear)
  BY DEF Place
<1>7. ContentsSurvive'
  BY <1>2, <1>6, ExcusedSurvive
<1>8. TrashStep(t, r)
  BY <1>2, <1>3, <1>5 DEF Place, TrashStep, FilesKept
<1> QED
  BY <1>5, <1>7, <1>8 DEF FileStep, FileTypes, Place

LEMMA RemoveCopyStep ==
  ASSUME FileTypes, FileOrder, FilesKept, ContentsSurvive, NEW t \in FileTaskIds, NEW r, Onward(t, r),
         RemoveCopy(t)
  PROVE  FileStep(t, r)
<1>1. PICK d : d = Of(t).dst
  OBVIOUS
<1>2. ftask[t].pc = "undoing" /\ d \in Paths
  BY <1>1, UndoRuns, UndoneTask DEF RemoveCopy
<1>3. r.pc \in {"restoring", "failed"}
  BY PlaceAfter DEF RemoveCopy
<1>4. fs' \in {[fs EXCEPT ![d] = Empty]} \cup MoveFailures(d, d)
  BY <1>1 DEF RemoveCopy, MoveFailures
<1>5. /\ fs' \in [Places -> FileContents \cup {Empty}]
      /\ \A i \in FileTaskIds : fs'[i] = fs[i]
  BY <1>2, <1>4, FilesOnly
<1>6. Excuses(TRUE)
  BY DEF RemoveCopy
<1>7. ContentsSurvive'
  BY <1>6, ExcusedSurvive
<1>8. TrashStep(t, r)
  BY <1>2, <1>3, <1>5 DEF RemoveCopy, TrashStep, FilesKept
<1> QED
  BY <1>5, <1>7, <1>8 DEF FileStep, FileTypes, RemoveCopy

\* A move out of the trash, by the rollback of the task that filled the place.
LEMMA OutOfTrash ==
  ASSUME FileTypes, FileOrder, FilesKept, NEW t \in FileTaskIds, NEW r, Onward(t, r),
         ftask[t].pc \in {"moving back", "bringing"}, NEW b \in Paths, NEW o, o = ftask[t].of,
         UNCHANGED <<rows, stranded, stale>>,
         \/ r.pc = "unlisting" /\ fs' = Moved(o, b)
         \/ r.pc = "failed" /\ fs' \in MoveFailures(o, b)
  PROVE  fs' \in [Places -> FileContents \cup {Empty}] /\ TrashStep(t, r)
<1>1. /\ o \in FileTaskIds /\ o \in Places /\ b \in Places /\ o # b /\ o # t
      /\ \A i \in FileTaskIds : i \in Places /\ i # b
  <2>1. ftask[t].of # NoFileTask
    BY UndoRuns
  <2>2. o \in FileTaskIds /\ o # t
    BY <2>1, UndoneTask
  <2> QED
    BY <2>2, FileTasksAssumption DEF Places
<1>2. t \notin rows
  BY DEF FilesKept
<1>3. CASE r.pc = "unlisting" /\ fs' = Moved(o, b)
  <2>1. /\ fs' \in [Places -> FileContents \cup {Empty}] /\ fs'[o] = Empty
        /\ \A i \in FileTaskIds : i # o => fs'[i] = fs[i]
    BY <1>1, <1>3, MovedFiles
  <2> QED
    BY <1>1, <1>2, <1>3, <2>1 DEF TrashStep
<1>4. CASE r.pc = "failed" /\ fs' \in MoveFailures(o, b)
  <2>1. fs' \in MoveFailures(o, b)
    BY <1>4
  <2>2. /\ fs' \in [Places -> FileContents \cup {Empty}]
        /\ \A q \in Places : q # b => fs'[q] = fs[q]
    BY <1>1, <2>1, FailedFiles
  <2>3. \A i \in FileTaskIds : fs'[i] = fs[i]
    BY <1>1, <2>2
  <2> QED
    BY <1>2, <1>4, <2>2, <2>3 DEF TrashStep
<1> QED
  BY <1>3, <1>4

LEMMA BringStep ==
  ASSUME FileTypes, FileOrder, FilesKept, ContentsSurvive, NEW t \in FileTaskIds, NEW r, Onward(t, r),
         BringOverwritten(t)
  PROVE  FileStep(t, r)
<1>1. PICK o, b : o = ftask[t].of /\ b = Of(t).dst
  OBVIOUS
<1>2. ftask[t].pc = "bringing" /\ b \in Paths /\ ftask[t].clear
  BY <1>1, UndoRuns, UndoneTask DEF BringOverwritten, FileOrder, OrderOf, Ordered
<1>3. \/ r.pc = "unlisting" /\ fs' = Moved(o, b)
      \/ r.pc = "failed" /\ fs' \in MoveFailures(o, b)
  BY <1>1, PlaceAfter DEF BringOverwritten, MoveFailures
<1>4. UNCHANGED <<rows, stranded, stale>> /\ Excuses(ftask[t].clear)
  BY DEF BringOverwritten
<1>5. fs' \in [Places -> FileContents \cup {Empty}] /\ TrashStep(t, r)
  BY <1>1, <1>2, <1>3, <1>4, OutOfTrash
<1>6. ContentsSurvive'
  BY <1>2, <1>4, ExcusedSurvive
<1> QED
  BY <1>4, <1>5, <1>6 DEF FileStep, FileTypes

LEMMA MoveBackStep ==
  ASSUME FileTypes, FileOrder, FilesKept, ContentsSurvive, NEW t \in FileTaskIds, NEW r, Onward(t, r),
         MoveFileBack(t)
  PROVE  FileStep(t, r)
<1>1. PICK a, b : a = From(t) /\ b = To(t)
  OBVIOUS
<1>2. /\ ftask[t].pc = "moving back" /\ b \in Paths /\ ftask[t].clear
      /\ Of(t).kind = "delete" => a = ftask[t].of
      /\ Of(t).kind # "delete" => a \in Paths
  BY <1>1, UndoRuns, UndoneTask DEF MoveFileBack, FileOrder, OrderOf, Ordered, From
<1>3. /\ UNCHANGED <<rows, stranded, stale>> /\ Excuses(ftask[t].clear)
      /\ t \notin rows
  BY <1>2 DEF MoveFileBack, FilesKept
<1>4. \/ /\ r.pc = IF Of(t).kind = "delete" THEN "unlisting" ELSE "restoring"
         /\ fs' = Moved(a, b)
      \/ r.pc = "failed" /\ fs' \in MoveFailures(a, b)
  BY <1>1, PlaceAfter DEF MoveFileBack, MoveFailures
<1>5. fs' \in [Places -> FileContents \cup {Empty}] /\ TrashStep(t, r)
  <2>1. CASE Of(t).kind = "delete"
    BY <1>2, <1>3, <1>4, <2>1, OutOfTrash
  <2>2. CASE Of(t).kind # "delete"
    <3>1. a \in Paths /\ r.pc \in {"restoring", "failed"}
      BY <1>2, <1>4, <2>2
    <3>2. fs' \in {Moved(a, b), [fs EXCEPT ![a] = Empty]} \cup MoveFailures(a, b)
      BY <1>4
    <3>3. /\ fs' \in [Places -> FileContents \cup {Empty}]
          /\ \A i \in FileTaskIds : fs'[i] = fs[i]
      BY <1>2, <3>1, <3>2, FilesOnly
    <3> QED
      BY <1>2, <1>3, <3>1, <3>3 DEF TrashStep
  <2> QED
    BY <2>1, <2>2
<1>6. ContentsSurvive'
  BY <1>2, <1>3, ExcusedSurvive
<1> QED
  BY <1>3, <1>5, <1>6 DEF FileStep, FileTypes

LEMMA DeleteRowStep ==
  ASSUME FileTypes, FileOrder, FilesKept, ContentsSurvive, NEW t \in FileTaskIds, NEW r, Onward(t, r),
         DeleteRow(t)
  PROVE  FileStep(t, r)
<1>1. ftask[t].pc = "unlisting" /\ r.pc = "completed"
  <2>1. Step(t, "unlisting", "completed")
    BY DEF DeleteRow
  <2> QED
    BY <2>1, PlaceAfter
<1>2. UNCHANGED <<fs, excused, stranded>> /\ t \notin rows
  BY <1>1 DEF DeleteRow, FilesKept
<1>3. ContentsSurvive'
  BY <1>2, KeptSurvive
<1>4. TrashStep(t, r) /\ rows' \subseteq FileTaskIds
  BY <1>1, <1>2 DEF DeleteRow, Unlisted, TrashStep, FileTypes
<1> QED
  BY <1>2, <1>3, <1>4 DEF FileStep, FileTypes

-----------------------------------------------------------------------------
(* The requests                                                            *)

\* Tasks that are created or linked, and requests for a rollback, leave the
\* trash alone.
LEMMA QuietFiles ==
  ASSUME FileTypes, FilesKept, TrashIsListed, UNCHANGED <<fs, rows, stranded, stale>>,
         \A u \in FileTaskIds : \/ ftask'[u].pc = ftask[u].pc /\ ftask'[u].kind = ftask[u].kind
                                \/ ftask[u].pc = "none" /\ ftask'[u].pc = "queued",
         \A u \in FileTaskIds : ftask[u].pc = "unlisting" => ftask'[u] = ftask[u],
         \A g \in Handlers : api'[g].pc = "unlisting" => api'[g] = api[g],
         \A g \in Handlers : api[g].pc = "unlisting" => api'[g] = api[g]
  PROVE  FilesKept' /\ TrashIsListed'
<1>1. \A u \in FileTaskIds : ftask[u].of \in FileTaskIds \cup {NoFileTask}
  BY DEF FileTypes, TaskRecords
<1>2. \A g \in Handlers : api[g].of \in FileTaskIds \cup {NoFileTask}
  BY DEF FileTypes, ApiRecords
<1>3. \A u \in FileTaskIds : Left(u) => Left(u)'
  BY DEF Left
<1>4. \A u \in FileTaskIds : ftask'[u].pc = "unlisting" =>
        ftask[u].pc = "unlisting" /\ ftask'[u] = ftask[u] /\ ftask[u].of \in FileTaskIds
  BY <1>1 DEF FilesKept, Left
<1>5. \A g \in Handlers : api'[g].pc = "unlisting" =>
        api[g].pc = "unlisting" /\ api'[g] = api[g] /\ api[g].of \in FileTaskIds
  BY <1>2 DEF FilesKept, Left
<1>6. ASSUME NEW u \in FileTaskIds, ftask'[u].pc = "unlisting"
      PROVE  Left(ftask[u].of)'
  <2>1. PICK o : o = ftask[u].of
    OBVIOUS
  <2>2. Left(o)' /\ ftask'[u].of = o
    BY <1>3, <1>4, <1>6, <2>1 DEF FilesKept
  <2> QED
    BY <2>2 DEF Left
<1>7. ASSUME NEW g \in Handlers, api'[g].pc = "unlisting"
      PROVE  Left(api[g].of)'
  <2>1. PICK o : o = api[g].of
    OBVIOUS
  <2>2. Left(o)' /\ api'[g].of = o
    BY <1>3, <1>5, <1>7, <2>1 DEF FilesKept
  <2> QED
    BY <2>2 DEF Left
<1>8. /\ \A t \in FileTaskIds :
           ftask'[t].pc \in {"none", "queued", "preparing", "trashing"} => fs'[t] = Empty
      /\ \A t \in FileTaskIds : ftask'[t].pc = "recording" => fs'[t] # Empty
      /\ \A t \in rows' : ftask'[t].pc \in {"placing", "completed", "failed"} /\ ftask'[t].kind \in OfFiles
  BY DEF FilesKept, FileTypes
<1>9. FilesKept'
  BY <1>6, <1>7, <1>8 DEF FilesKept
<1>10. TrashIsListed'
  BY DEF TrashIsListed, FilesKept
<1> QED
  BY <1>9, <1>10

\* A request that empties the place of an entry is about to take the entry.
LEMMA RequestEmpties ==
  ASSUME FileTypes, FileOrder, FilesKept, TrashIsListed, NEW h \in Handlers, NEW t \in rows,
         api[h].pc = "idle",
         api' = [api EXCEPT ![h] = [pc |-> "unlisting", of |-> t, by |-> NoFileTask]],
         UNCHANGED <<rows, ftask, stranded, stale>>,
         fs' \in [Places -> FileContents \cup {Empty}], fs'[t] = Empty,
         \A i \in FileTaskIds : i # t => fs'[i] = fs[i]
  PROVE  FileTypes' /\ FileOrder' /\ FilesKept' /\ TrashIsListed'
<1>1. PICK r : r = [pc |-> "unlisting", of |-> t, by |-> NoFileTask]
  OBVIOUS
<1>2. /\ r \in ApiRecords /\ r.pc = "unlisting" /\ r.of = t /\ t \in FileTaskIds
      /\ api' = [api EXCEPT ![h] = r]
  BY <1>1 DEF ApiRecords, FileTypes
<1>3. FileOrder' /\ api' \in [Handlers -> ApiRecords]
  BY <1>2, ApiKeepsOrder
<1>4. api'[h] = r /\ \A g \in Handlers : g # h => api'[g] = api[g]
  BY <1>2 DEF FileTypes
<1>5. /\ ftask[t].pc \in {"placing", "completed", "failed"} /\ ftask[t].kind \in OfFiles
      /\ t # NoFileTask
  BY <1>2, FileTasksAssumption DEF FilesKept, FileTaskIds, NoFileTask
<1>6. \A u \in FileTaskIds : Left(u) => Left(u)'
  BY DEF Left
<1>7. Left(t)'
  BY <1>5 DEF Left
<1>8. ASSUME NEW u \in FileTaskIds, ftask[u].pc = "unlisting"
      PROVE  Left(ftask[u].of)'
  <2>1. PICK o : o = ftask[u].of
    OBVIOUS
  <2>2. Left(o) /\ o \in FileTaskIds \cup {NoFileTask}
    BY <1>8, <2>1 DEF FilesKept, FileTypes, TaskRecords
  <2>3. Left(o)'
    BY <1>6, <2>2 DEF Left
  <2> QED
    BY <2>1, <2>3 DEF Left
<1>9. ASSUME NEW g \in Handlers, api'[g].pc = "unlisting"
      PROVE  Left(api[g].of)'
  <2>1. PICK o : o = api'[g].of
    OBVIOUS
  <2>2. CASE g = h
    BY <1>2, <1>4, <1>7, <2>2 DEF Left
  <2>3. CASE g # h
    <3>1. api'[g] = api[g] /\ api[g].pc = "unlisting" /\ o = api[g].of
      BY <1>4, <1>9, <2>1, <2>3
    <3>2. Left(o) /\ o \in FileTaskIds \cup {NoFileTask}
      BY <3>1 DEF FilesKept, FileTypes, ApiRecords
    <3>3. Left(o)'
      BY <1>6, <3>2 DEF Left
    <3> QED
      BY <2>1, <3>3 DEF Left
  <2> QED
    BY <2>2, <2>3
<1>10. FilesKept'
  BY <1>5, <1>8, <1>9 DEF FilesKept, FileTypes
<1>11. ASSUME NEW u \in rows, fs'[u] = Empty
       PROVE  \/ u \in stale'
              \/ \E g \in Handlers : api'[g].pc = "unlisting" /\ api'[g].of = u
              \/ \E v \in FileTaskIds : ftask'[v].pc = "unlisting" /\ ftask'[v].of = u
  <2>1. CASE u = t
    BY <1>2, <1>4, <2>1
  <2>2. CASE u # t
    <3>1. fs[u] = Empty
      BY <1>11, <2>2 DEF FileTypes
    <3>2. \A g \in Handlers : api[g].pc = "unlisting" => api'[g] = api[g]
      BY <1>4
    <3> QED
      BY <3>1, <3>2 DEF TrashIsListed
  <2> QED
    BY <2>1, <2>2
<1>12. TrashIsListed'
  BY <1>11 DEF TrashIsListed
<1> QED
  BY <1>3, <1>10, <1>12 DEF FileTypes

LEMMA RestoreKeeps ==
  ASSUME FilesInv, NEW h \in Handlers, RestoreTrash(h)
  PROVE  FilesInv'
<1> USE DEF FilesInv
<1>1. ContentsSurvive'
  <2>1. Excuses(TRUE)
    BY DEF RestoreTrash
  <2> QED
    BY <2>1, ExcusedSurvive
<1>2. PICK t \in rows :
        \/ /\ fs' = Moved(t, TrashedPath(t))
           /\ api' = [api EXCEPT ![h] = [pc |-> "unlisting", of |-> t, by |-> NoFileTask]]
        \/ fs' \in MoveFailures(t, TrashedPath(t)) /\ api' = api
  BY DEF RestoreTrash
<1>3. PICK p : p = TrashedPath(t)
  OBVIOUS
<1>4. /\ t \in FileTaskIds /\ t \in Places /\ p \in Places /\ t # p
      /\ \A i \in FileTaskIds : i \in Places /\ i # p
  <2>1. t \in FileTaskIds /\ ftask[t].kind \in OfFiles
    BY DEF FilesKept, FileTypes
  <2>2. p \in Paths
    BY <1>3, <2>1, PathsOfTask
  <2> QED
    BY <2>1, <2>2, FileTasksAssumption DEF Places
<1>5. UNCHANGED <<rows, ftask, stranded, stale>> /\ api[h].pc = "idle"
  BY DEF RestoreTrash
<1>6. CASE /\ fs' = Moved(t, p)
           /\ api' = [api EXCEPT ![h] = [pc |-> "unlisting", of |-> t, by |-> NoFileTask]]
  <2>1. /\ fs' \in [Places -> FileContents \cup {Empty}] /\ fs'[t] = Empty
        /\ \A i \in FileTaskIds : i # t => fs'[i] = fs[i]
    BY <1>4, <1>6, MovedFiles
  <2> QED
    BY <1>1, <1>5, <1>6, <2>1, RequestEmpties
<1>7. CASE fs' \in MoveFailures(t, p) /\ api' = api
  <2>1. /\ fs' \in [Places -> FileContents \cup {Empty}]
        /\ \A i \in FileTaskIds : fs'[i] = fs[i]
    BY <1>4, <1>7, FailedFiles
  <2>2. FileTypes' /\ FileOrder'
    BY <1>5, <1>7, <2>1 DEF FileTypes, FileOrder, OrderOf, ApiOrder
  <2>3. \A i \in FileTaskIds : Left(i) => Left(i)'
    BY <1>5, <2>1 DEF Left
  <2>4. \A u \in FileTaskIds : ftask[u].pc = "unlisting" => ftask[u].of \in FileTaskIds
    BY DEF FilesKept, FileTypes, TaskRecords, Left
  <2>5. \A g \in Handlers : api[g].pc = "unlisting" => api[g].of \in FileTaskIds
    BY DEF FilesKept, FileTypes, ApiRecords, Left
  <2>6. FilesKept'
    BY <1>5, <1>7, <2>1, <2>4, <2>5 DEF FilesKept, FileTypes, Left
  <2>7. TrashIsListed'
    BY <1>5, <1>7, <2>1 DEF TrashIsListed, FileTypes
  <2> QED
    BY <1>1, <2>2, <2>6, <2>7
<1> QED
  BY <1>2, <1>3, <1>6, <1>7

LEMMA PurgeKeeps ==
  ASSUME FilesInv, NEW h \in Handlers, Purge(h)
  PROVE  FilesInv'
<1> USE DEF FilesInv
<1>1. ContentsSurvive'
  <2>1. Excuses(TRUE)
    BY DEF Purge
  <2> QED
    BY <2>1, ExcusedSurvive
<1>2. PICK t \in rows :
        /\ fs' = [fs EXCEPT ![t] = Empty]
        /\ api' = [api EXCEPT ![h] = [pc |-> "unlisting", of |-> t, by |-> NoFileTask]]
  BY DEF Purge
<1>3. UNCHANGED <<rows, ftask, stranded, stale>> /\ api[h].pc = "idle"
  BY DEF Purge
<1>4. /\ fs' \in [Places -> FileContents \cup {Empty}] /\ fs'[t] = Empty
      /\ \A i \in FileTaskIds : i # t => fs'[i] = fs[i]
  BY <1>2 DEF FileTypes, Places
<1> QED
  BY <1>1, <1>2, <1>3, <1>4, RequestEmpties

LEMMA DeleteTrashKeeps ==
  ASSUME FilesInv, NEW h \in Handlers, DeleteTrash(h)
  PROVE  FilesInv'
<1> USE DEF FilesInv
<1>1. ContentsSurvive'
  BY KeptSurvive DEF DeleteTrash
<1>2. PICK o : o = api[h].of
  OBVIOUS
<1>3. /\ api[h].pc = "unlisting" /\ Left(o) /\ o \in FileTaskIds
      /\ UNCHANGED <<fs, ftask, stranded>>
      /\ api' = [api EXCEPT ![h] = IdleApi]
  BY <1>2 DEF DeleteTrash, FilesKept, FileTypes, ApiRecords, Left
<1>4. /\ stale \subseteq stale' /\ rows' \subseteq rows
      /\ \A u \in rows : u \in rows' \/ u = o
      /\ o \notin rows' \/ o \in stale'
  BY <1>2 DEF DeleteTrash, Unlisted
<1>5. IdleApi \in ApiRecords /\ IdleApi.pc = "idle"
  BY DEF IdleApi, ApiRecords
<1>6. FileOrder' /\ api' \in [Handlers -> ApiRecords]
  BY <1>3, <1>5, ApiKeepsOrder
<1>7. api'[h] = IdleApi /\ \A g \in Handlers : g # h => api'[g] = api[g]
  BY <1>3 DEF FileTypes
<1>8. FilesKept'
  <2>1. \A u \in FileTaskIds : ftask[u].pc = "unlisting" => ftask[u].of \in FileTaskIds
    BY DEF FilesKept, FileTypes, TaskRecords, Left
  <2>2. \A g \in Handlers : api'[g].pc = "unlisting" => api[g].pc = "unlisting" /\ api'[g] = api[g]
    BY <1>5, <1>7
  <2> QED
    BY <1>3, <1>4, <2>1, <2>2 DEF FilesKept, Left
<1>9. TrashIsListed'
  <2>1. ASSUME NEW u \in FileTaskIds, fs'[u] # Empty
        PROVE  u \in rows' \cup stranded' \/ ftask'[u].pc \in {"recording", "returning"}
    <3>1. u # o
      BY <1>3, <2>1 DEF Left
    <3> QED
      BY <1>3, <1>4, <2>1, <3>1 DEF TrashIsListed
  <2>2. ASSUME NEW u \in rows', fs'[u] = Empty
        PROVE  \/ u \in stale'
               \/ \E g \in Handlers : api'[g].pc = "unlisting" /\ api'[g].of = u
               \/ \E v \in FileTaskIds : ftask'[v].pc = "unlisting" /\ ftask'[v].of = u
    <3>1. CASE u = o
      BY <1>4, <2>2, <3>1
    <3>2. CASE u # o
      <4>1. \/ u \in stale
            \/ \E g \in Handlers : api[g].pc = "unlisting" /\ api[g].of = u
            \/ \E v \in FileTaskIds : ftask[v].pc = "unlisting" /\ ftask[v].of = u
        BY <1>3, <1>4, <2>2 DEF TrashIsListed
      <4>2. \A g \in Handlers : api[g].of = u => api'[g] = api[g]
        BY <1>2, <1>7, <3>2
      <4> QED
        BY <1>3, <1>4, <4>1, <4>2
    <3> QED
      BY <3>1, <3>2
  <2> QED
    BY <2>1, <2>2 DEF TrashIsListed
<1> QED
  BY <1>1, <1>3, <1>4, <1>6, <1>8, <1>9 DEF FileTypes

LEMMA CanRollbackKeeps ==
  ASSUME FilesInv, NEW h \in Handlers, CanRollback(h)
  PROVE  FilesInv'
<1> USE DEF FilesInv
<1>1. PICK t \in FileTaskIds :
        /\ ftask[t].pc = "completed" /\ ftask[t].kind # "undo"
        /\ api' = [api EXCEPT ![h] = [pc |-> "creating", of |-> t, by |-> NoFileTask]]
  BY DEF CanRollback
<1>2. PICK r : r = [pc |-> "creating", of |-> t, by |-> NoFileTask]
  OBVIOUS
<1>3. /\ r \in ApiRecords /\ r.pc = "creating" /\ r.of = t /\ t # NoFileTask
      /\ api' = [api EXCEPT ![h] = r] /\ api[h].pc = "idle"
      /\ UNCHANGED <<fs, rows, ftask, excused, stranded, stale>>
  <2>1. t # NoFileTask
    BY FileTasksAssumption DEF FileTaskIds, NoFileTask
  <2>2. r \in ApiRecords /\ r.pc = "creating" /\ r.of = t
    BY <1>2 DEF ApiRecords
  <2>3. api[h].pc = "idle" /\ UNCHANGED <<fs, rows, ftask, excused, stranded, stale>>
    BY DEF CanRollback, fileHistory
  <2> QED
    BY <1>1, <1>2, <2>1, <2>2, <2>3
<1>4. ftask[t].kind \in OfFiles
  BY <1>1 DEF FileTypes, TaskRecords, FileOrder, OrderOf, Ordered, OfFiles
<1>5. FileOrder' /\ api' \in [Handlers -> ApiRecords]
  BY <1>1, <1>3, <1>4, ApiKeepsOrder
<1>6. api'[h] = r /\ \A g \in Handlers : g # h => api'[g] = api[g]
  BY <1>3 DEF FileTypes
<1>7. FilesKept' /\ TrashIsListed'
  BY <1>3, <1>6, QuietFiles
<1>8. ContentsSurvive'
  BY <1>3, KeptSurvive
<1> QED
  BY <1>3, <1>5, <1>7, <1>8 DEF FileTypes

LEMMA CreationKeeps ==
  ASSUME FilesInv,
         CreateFileTask \/ \E h \in Handlers : CreateRollback(h) \/ SetRollbackOf(h)
  PROVE  FilesInv'
<1> USE DEF FilesInv
<1>1. UNCHANGED <<fs, rows, excused, stranded, stale>>
  BY DEF CreateFileTask, CreateRollback, SetRollbackOf, fileHistory
<1>2. ContentsSurvive'
  BY <1>1, KeptSurvive
<1>3. ASSUME NEW n \in Unused, NEW r, r.pc = "queued", ftask' = [ftask EXCEPT ![n] = r]
      PROVE  /\ \A u \in FileTaskIds : \/ ftask'[u].pc = ftask[u].pc /\ ftask'[u].kind = ftask[u].kind
                                       \/ ftask[u].pc = "none" /\ ftask'[u].pc = "queued"
             /\ \A u \in FileTaskIds : ftask[u].pc = "unlisting" => ftask'[u] = ftask[u]
  <2>1. n \in FileTaskIds /\ ftask[n].pc = "none"
    BY UnusedIsFree
  <2>2. ftask'[n] = r /\ \A u \in FileTaskIds : u # n => ftask'[u] = ftask[u]
    BY <1>3, <2>1 DEF FileTypes
  <2> QED
    BY <1>3, <2>1, <2>2
<1>4. CASE CreateFileTask
  <2>1. FileTypes' /\ FileOrder' /\ api' = api
    BY <1>4, CreateKeepsOrder
  <2>2. PICK n \in Unused : \E r : r.pc = "queued" /\ ftask' = [ftask EXCEPT ![n] = r]
    BY <1>4, CreateKeepsOrder
  <2>3. FilesKept' /\ TrashIsListed'
    BY <1>1, <1>3, <2>1, <2>2, QuietFiles
  <2> QED
    BY <1>2, <2>1, <2>3
<1>5. ASSUME NEW h \in Handlers, CreateRollback(h)
      PROVE  FilesInv'
  <2>1. /\ FileTypes' /\ FileOrder'
        /\ \A g \in Handlers : api'[g].pc = "unlisting" => api'[g] = api[g]
        /\ \A g \in Handlers : api[g].pc = "unlisting" => api'[g] = api[g]
    BY <1>5, RollbackKeepsOrder
  <2>2. PICK n \in Unused : \E r : r.pc = "queued" /\ ftask' = [ftask EXCEPT ![n] = r]
    BY <1>5, RollbackKeepsOrder
  <2>3. FilesKept' /\ TrashIsListed'
    BY <1>1, <1>3, <2>1, <2>2, QuietFiles
  <2> QED
    BY <1>2, <2>1, <2>3
<1>6. ASSUME NEW h \in Handlers, SetRollbackOf(h)
      PROVE  FilesInv'
  <2>1. /\ FileTypes' /\ FileOrder'
        /\ \A u \in FileTaskIds : ftask'[u].pc = ftask[u].pc /\ ftask'[u].kind = ftask[u].kind
        /\ \A u \in FileTaskIds : ftask[u].pc = "unlisting" => ftask'[u] = ftask[u]
        /\ \A g \in Handlers : api'[g].pc = "unlisting" => api'[g] = api[g]
        /\ \A g \in Handlers : api[g].pc = "unlisting" => api'[g] = api[g]
    BY <1>6, LinkKeepsOrder
  <2>2. FilesKept' /\ TrashIsListed'
    BY <1>1, <2>1, QuietFiles
  <2> QED
    BY <1>2, <2>1, <2>2
<1> QED
  BY <1>4, <1>5, <1>6

LEMMA TaskStepKeeps ==
  ASSUME FilesInv, NEW t \in FileTaskIds, TaskStep(t)
  PROVE  FilesInv'
<1> USE DEF FilesInv
<1>1. PICK r : Onward(t, r)
  BY TasksGoOn
<1>2. api' = api
  BY TasksGoOn
<1>3. FileOrder'
  BY <1>1, <1>2, OnwardKeepsOrder
<1>4. FileStep(t, r)
  BY <1>1, QuietSteps, MoveToTrashStep, CreateTrashStep, PutBackStep, PlaceStep, RemoveCopyStep,
     BringStep, MoveBackStep, DeleteRowStep DEF TaskStep
<1>5. FileTypes'
  BY <1>1, <1>2, <1>4 DEF FileTypes, FileStep, Onward
<1>6. FilesKept' /\ TrashIsListed'
  BY <1>1, <1>2, <1>3, <1>4, TrashStepKeeps DEF FileStep
<1> QED
  BY <1>3, <1>4, <1>5, <1>6 DEF FileStep

LEMMA FilesStep == FilesInv /\ [FilesNext]_fileVars => FilesInv'
<1> SUFFICES ASSUME FilesInv, [FilesNext]_fileVars
             PROVE  FilesInv'
  OBVIOUS
<1>1. CASE CreateFileTask
  BY <1>1, CreationKeeps
<1>2. ASSUME NEW t \in FileTaskIds, TaskStep(t)
      PROVE  FilesInv'
  BY <1>2, TaskStepKeeps
<1>3. ASSUME NEW h \in Handlers,
             \/ CanRollback(h) \/ CreateRollback(h) \/ SetRollbackOf(h)
             \/ RestoreTrash(h) \/ Purge(h) \/ DeleteTrash(h)
      PROVE  FilesInv'
  BY <1>3, CanRollbackKeeps, CreationKeeps, RestoreKeeps, PurgeKeeps, DeleteTrashKeeps
<1>4. CASE UNCHANGED fileVars
  <2>1. UNCHANGED <<fs, rows, ftask, api, excused, stranded, stale>>
    BY <1>4 DEF fileVars, fileHistory
  <2>2. ContentsSurvive' /\ FileTypes' /\ TrashIsListed'
    BY <2>1 DEF FilesInv, ContentsSurvive, Gone, FileTypes, TrashIsListed
  <2>3. FileOrder' /\ FilesKept'
    BY <2>1 DEF FilesInv, FileOrder, OrderOf, ApiOrder, FilesKept, Left
  <2> QED
    BY <2>2, <2>3 DEF FilesInv
<1> QED
  BY <1>1, <1>2, <1>3, <1>4 DEF FilesNext, TaskStep

LEMMA InitContents == FilesInit => ContentsSurvive
  BY DEF FilesInit, ContentsSurvive, Gone, Places

LEMMA FilesInvariant == FilesSpec => []FilesInv
<1>1. FilesInit => FilesInv
  BY InitFiles, InitContents DEF FilesInv
<1> QED
  BY <1>1, FilesStep, PTL DEF FilesSpec

\* What a user had in a file is still somewhere, unless it went in one of the
\* ways that are known: for any files, tasks, workers and requests, whatever the
\* interleaving of the tasks that touch the files without the lock of the trash.
THEOREM FilesSurvive == FilesSpec => []ContentsSurvive
<1>1. FilesInv => ContentsSurvive
  BY DEF FilesInv
<1> QED
  BY <1>1, FilesInvariant, PTL

\* The trash holds no file without an entry, and no entry without a file, but
\* for what a failed step has left and for what a step in progress will mend.
THEOREM TrashListed == FilesSpec => []TrashIsListed
<1>1. FilesInv => TrashIsListed
  BY DEF FilesInv
<1> QED
  BY <1>1, FilesInvariant, PTL

-----------------------------------------------------------------------------
(* Bundles.  Until two works overlap, the one that is under way finds what *)
(* it relies on.                                                           *)

Work == [pc : {"idle", "staging", "clearing", "backing", "switching", "restoring",
               "labelling", "failing", "rolling", "removing", "returning", "unlabelling"},
         op : {"none", "update", "rollback"}, version : Versions \cup {Nothing},
         was : SUBSET Contents, had : BOOLEAN, result : {"none", "ok", "failed", "back"}]

BundleTypes ==
  /\ target \in Contents /\ backup \in Contents /\ staging \in Contents
  /\ inst \in [Installers -> Work]
  /\ served \in BOOLEAN /\ halved \in BOOLEAN

\* What the steps of installer w that follow rely on, the files being t, b, s,
\* and h that a removal was cut short.
StepFits(w, t, b, s, h) ==
  /\ w.pc = "staging" => w.version \in Versions
  /\ w.pc \in {"clearing", "backing", "switching"} => s = w.version /\ w.version \in Versions
  /\ w.pc \in {"staging", "clearing", "backing"} => t \in w.was
  /\ w.pc = "labelling" => t = w.version
  /\ w.pc = "removing" => b # Nothing
  /\ w.pc # "idle" /\ ~h => b \in w.was \cup {Nothing}
  /\ w.pc = "unlabelling" /\ ~h => t \in w.was \cap Versions

\* Without a removal that was cut short, what is on disk is complete.
Complete ==
  /\ ~halved => {target, backup} \subseteq Versions \cup {Nothing}
  /\ VersionIsKept

Sound ==
  /\ BundleTypes
  /\ Complete
  /\ \A i, j \in Installers : inst[i].pc # "idle" /\ inst[j].pc # "idle" => i = j
  /\ \A i \in Installers : StepFits(inst[i], target, backup, staging, halved)

\* Once two works were under way at once, nothing is claimed.
BundleInv == ~overlapped => Sound

LEMMA NoWorkFits ==
  \A t, b, s, h, result :
    LET w == [NoWorkToDo EXCEPT !.result = result] IN
    /\ w.pc = "idle" /\ StepFits(w, t, b, s, h)
    /\ result \in {"none", "ok", "failed", "back"} => w \in Work
<1> SUFFICES ASSUME NEW t, NEW b, NEW s, NEW h, NEW result,
                    NEW w, w = [NoWorkToDo EXCEPT !.result = result]
             PROVE  /\ w.pc = "idle" /\ StepFits(w, t, b, s, h)
                    /\ result \in {"none", "ok", "failed", "back"} => w \in Work
  BY Zenon
<1>1. w.pc = "idle"
  BY DEF NoWorkToDo
<1>2. StepFits(w, t, b, s, h)
  BY <1>1 DEF StepFits
<1>3. result \in {"none", "ok", "failed", "back"} => w \in Work
  BY DEF NoWorkToDo, Work
<1> QED
  BY <1>1, <1>2, <1>3

LEMMA BundleStarts == BundleInit => BundleInv /\ Sound
<1> SUFFICES ASSUME BundleInit
             PROVE  Sound
  BY DEF BundleInv
<1>1. NoWorkToDo \in Work /\ NoWorkToDo.pc = "idle"
  BY DEF NoWorkToDo, Work
<1>2. BundleTypes
  BY <1>1 DEF BundleInit, BundleTypes, Contents
<1>3. Complete
  BY DEF BundleInit, Complete, VersionIsKept
<1>4. \A i \in Installers : StepFits(inst[i], target, backup, staging, halved)
  BY <1>1 DEF BundleInit, StepFits
<1>5. \A i \in Installers : inst[i].pc = "idle"
  BY <1>1 DEF BundleInit
<1> QED
  BY <1>2, <1>3, <1>4, <1>5 DEF Sound

\* A step of the one work that is under way, which leaves what it needs next,
\* and the files, as they have to be.
LEMMA OneInstaller ==
  ASSUME Sound, NEW i \in Installers, inst[i].pc # "idle" \/ Alone(i),
         NEW w \in Work, inst' = [inst EXCEPT ![i] = w],
         StepFits(w, target', backup', staging', halved'),
         target' \in Contents, backup' \in Contents, staging' \in Contents,
         served' \in BOOLEAN, halved' \in BOOLEAN,
         Complete'
  PROVE  Sound'
<1>1. inst'[i] = w /\ inst' \in [Installers -> Work]
  BY DEF Sound, BundleTypes
<1>2. ASSUME NEW j \in Installers, j # i
      PROVE  inst'[j] = inst[j] /\ inst[j].pc = "idle"
  BY <1>2 DEF Sound, BundleTypes, Alone
<1>3. \A j \in Installers : StepFits(inst'[j], target', backup', staging', halved')
  BY <1>1, <1>2 DEF StepFits
<1>4. \A j, k \in Installers : inst'[j].pc # "idle" /\ inst'[k].pc # "idle" => j = k
  BY <1>2
<1> QED
  BY <1>1, <1>3, <1>4 DEF Sound, BundleTypes

\* An installer goes to its next place with the work it had.
LEMMA GoesOn ==
  ASSUME Sound, NEW i \in Installers, NEW from, NEW to, Goes(i, from, to),
         to \in {"clearing", "backing", "switching", "restoring", "labelling", "failing",
                 "rolling", "removing", "returning", "unlabelling"}
  PROVE  \E w \in Work :
           /\ inst' = [inst EXCEPT ![i] = w] /\ w.pc = to
           /\ inst[i].pc = from /\ inst[i] \in Work
           /\ w.version = inst[i].version /\ w.was = inst[i].was /\ w.op = inst[i].op
<1> DEFINE w == [inst[i] EXCEPT !.pc = to]
<1>1. inst[i] \in Work
  BY DEF Sound, BundleTypes
<1>2. /\ w \in Work /\ w.pc = to
      /\ w.version = inst[i].version /\ w.was = inst[i].was /\ w.op = inst[i].op
  BY <1>1 DEF Work
<1>3. inst' = [inst EXCEPT ![i] = w] /\ inst[i].pc = from
  BY DEF Goes, Sound, BundleTypes
<1> QED
  BY <1>1, <1>2, <1>3

LEMMA RemovedContents ==
  ASSUME NEW c \in Contents, NEW d \in Removed(c)
  PROVE  d \in Contents /\ d \in {Nothing, Partial, c}
  BY DEF Removed, Contents

LEMMA NamesDiffer == Nothing \notin Versions /\ Partial \notin Versions /\ Nothing # Partial
  BY BundleAssumption

LEMMA BundleStep ==
  ASSUME Sound, [BundleNext]_bundleVars, ~overlapped'
  PROVE  Sound'
<1>0. /\ target \in Contents /\ backup \in Contents /\ staging \in Contents
      /\ served \in BOOLEAN /\ halved \in BOOLEAN /\ inst \in [Installers -> Work]
      /\ Nothing \in Contents /\ Partial \in Contents
      /\ \A i \in Installers : inst[i] \in Work
  BY DEF Sound, BundleTypes, Contents
<1>1. ASSUME NEW i \in Installers, NEW w \in Work, Begins(i, w),
             w.pc \in {"staging", "rolling"}, w.was = {target, backup},
             w.pc = "staging" => w.version \in Versions
      PROVE  Sound'
  <2>1. UNCHANGED <<target, backup, staging, halved, served>> /\ inst' = [inst EXCEPT ![i] = w]
    BY <1>1 DEF Begins, files
  <2>2. Alone(i)
    BY <1>1 DEF Begins
  <2>3. Complete'
    BY <2>1 DEF Sound, Complete, VersionIsKept
  <2>4. StepFits(w, target, backup, staging, halved)
    BY <1>1 DEF StepFits
  <2> QED
    BY <1>0, <2>1, <2>2, <2>3, <2>4, OneInstaller
<1>2. ASSUME NEW i \in Installers, Update(i)
       PROVE  Sound'
  <2>1. PICK v \in Versions :
          Begins(i, [NoWorkToDo EXCEPT !.pc = "staging", !.op = "update", !.version = v, !.was = {target, backup}])
    BY <1>2 DEF Update
  <2>2. PICK w : w = [NoWorkToDo EXCEPT !.pc = "staging", !.op = "update", !.version = v, !.was = {target, backup}]
    OBVIOUS
  <2>3. w \in Work /\ w.pc = "staging" /\ w.version = v /\ w.was = {target, backup}
    BY <1>0, <2>2 DEF NoWorkToDo, Work
  <2> QED
    BY <1>1, <2>1, <2>2, <2>3
<1>3. ASSUME NEW i \in Installers, RollBack(i)
       PROVE  Sound'
  <2>1. PICK w : w = [NoWorkToDo EXCEPT !.pc = "rolling", !.op = "rollback", !.was = {target, backup}]
    OBVIOUS
  <2>2. w \in Work /\ w.pc = "rolling" /\ w.was = {target, backup}
    BY <1>0, <2>1 DEF NoWorkToDo, Work
  <2> QED
    BY <1>1, <1>3, <2>1, <2>2 DEF RollBack
<1>4. ASSUME NEW i \in Installers, Stage(i)
      PROVE  Sound'
  <2>1. PICK to \in {"clearing", "failing"} :
          /\ Goes(i, "staging", to)
          /\ to = "clearing" => staging' = inst[i].version
          /\ staging' \in {inst[i].version, staging, Partial}
    BY <1>4 DEF Stage
  <2>2. PICK w \in Work :
           /\ inst' = [inst EXCEPT ![i] = w] /\ w.pc = to
           /\ inst[i].pc = "staging" /\ inst[i] \in Work
           /\ w.version = inst[i].version /\ w.was = inst[i].was /\ w.op = inst[i].op
    BY <2>1, GoesOn
  <2>3. UNCHANGED <<target, backup, halved, served>> /\ staging' \in Contents
    BY <1>0, <1>4, <2>1, <2>2 DEF Stage, bundleHistory, Work, Contents
  <2>4. StepFits(inst[i], target, backup, staging, halved)
    BY DEF Sound
  <2>5. StepFits(w, target, backup, staging', halved)
    BY <2>1, <2>2, <2>4 DEF StepFits
  <2>6. Complete'
    BY <2>3 DEF Sound, Complete, VersionIsKept
  <2> QED
    BY <1>0, <2>2, <2>3, <2>5, <2>6, OneInstaller
<1>5. ASSUME NEW i \in Installers, ClearBackup(i)
      PROVE  Sound'
  <2>1. PICK to \in {"backing", "switching"} :
          /\ Goes(i, "clearing", to)
          /\ backup' \in {Nothing, Partial, backup}
          /\ target = Nothing => backup' = backup
    <3>1. CASE target # Nothing
      BY <1>0, <1>5, <3>1, RemovedContents DEF ClearBackup
    <3>2. CASE target = Nothing
      BY <1>5, <3>2 DEF ClearBackup
    <3> QED
      BY <3>1, <3>2
  <2>2. PICK w \in Work :
           /\ inst' = [inst EXCEPT ![i] = w] /\ w.pc = to
           /\ inst[i].pc = "clearing" /\ inst[i] \in Work
           /\ w.version = inst[i].version /\ w.was = inst[i].was /\ w.op = inst[i].op
    BY <2>1, GoesOn
  <2>3. /\ UNCHANGED <<target, staging, served>> /\ backup' \in Contents
        /\ halved' = (halved \/ backup' = Partial)
    BY <1>0, <1>5, <2>1 DEF ClearBackup
  <2>4. StepFits(inst[i], target, backup, staging, halved)
    BY DEF Sound
  <2>5. StepFits(w, target, backup', staging, halved')
    BY <2>1, <2>2, <2>3, <2>4 DEF StepFits
  <2>6. Complete'
    BY <1>0, <2>1, <2>3, NamesDiffer DEF Sound, Complete, VersionIsKept
  <2> QED
    BY <1>0, <2>2, <2>3, <2>5, <2>6, OneInstaller
<1>6. ASSUME NEW i \in Installers, MoveToBackup(i)
      PROVE  Sound'
  <2>1. \E w \in Work :
          /\ inst' = [inst EXCEPT ![i] = w] /\ w.pc \in {"switching", "failing"}
          /\ inst[i].pc = "backing"
          /\ w.version = inst[i].version /\ w.was = inst[i].was
          /\ \/ target # Nothing /\ backup' = target /\ target' = Nothing
             \/ w.pc = "failing" /\ UNCHANGED <<target, backup>>
    <3>1. CASE Goes(i, "backing", "failing") /\ UNCHANGED <<target, backup>>
      <4>1. \E w \in Work :
               /\ inst' = [inst EXCEPT ![i] = w] /\ w.pc = "failing"
               /\ inst[i].pc = "backing" /\ inst[i] \in Work
               /\ w.version = inst[i].version /\ w.was = inst[i].was /\ w.op = inst[i].op
        BY <3>1, GoesOn
      <4> QED
        BY <3>1, <4>1
    <3>2. CASE /\ Renames(target, backup)
               /\ inst[i].pc = "backing"
               /\ inst' = [inst EXCEPT ![i].pc = "switching", ![i].had = TRUE]
               /\ backup' = target /\ target' = Nothing
      <4> DEFINE w == [inst[i] EXCEPT !.pc = "switching", !.had = TRUE]
      <4>1. w \in Work /\ w.pc = "switching" /\ w.version = inst[i].version /\ w.was = inst[i].was
        BY <1>0 DEF Work
      <4>2. inst' = [inst EXCEPT ![i] = w]
        BY <1>0, <3>2
      <4> HIDE DEF w
      <4> QED
        BY <3>2, <4>1, <4>2 DEF Renames
    <3> QED
      BY <1>6, <3>1, <3>2 DEF MoveToBackup
  <2>2. PICK w \in Work :
          /\ inst' = [inst EXCEPT ![i] = w] /\ w.pc \in {"switching", "failing"}
          /\ inst[i].pc = "backing"
          /\ w.version = inst[i].version /\ w.was = inst[i].was
          /\ \/ target # Nothing /\ backup' = target /\ target' = Nothing
             \/ w.pc = "failing" /\ UNCHANGED <<target, backup>>
    BY <2>1
  <2>3. /\ UNCHANGED <<staging, halved, served>>
        /\ target' \in Contents /\ backup' \in Contents
    BY <1>0, <1>6, <2>2 DEF MoveToBackup, bundleHistory
  <2>4. StepFits(inst[i], target, backup, staging, halved)
    BY DEF Sound
  <2>5. StepFits(w, target', backup', staging, halved)
    BY <2>2, <2>4 DEF StepFits
  <2>6. Complete'
    BY <1>0, <2>2, <2>3, NamesDiffer DEF Sound, Complete, VersionIsKept
  <2> QED
    BY <1>0, <2>2, <2>3, <2>5, <2>6, OneInstaller
<1>7. ASSUME NEW i \in Installers, Switch(i)
      PROVE  Sound'
  <2>1. PICK to \in {"labelling", "failing", "restoring"} :
          /\ Goes(i, "switching", to)
          /\ \/ staging # Nothing /\ target' = staging /\ staging' = Nothing
             \/ to # "labelling" /\ UNCHANGED <<target, staging, served>>
    BY <1>7 DEF Switch, Renames
  <2>2. PICK w \in Work :
           /\ inst' = [inst EXCEPT ![i] = w] /\ w.pc = to
           /\ inst[i].pc = "switching" /\ inst[i] \in Work
           /\ w.version = inst[i].version /\ w.was = inst[i].was /\ w.op = inst[i].op
    BY <2>1, GoesOn
  <2>3. /\ UNCHANGED <<backup, halved>>
        /\ target' \in Contents /\ staging' \in Contents /\ served' \in BOOLEAN
    BY <1>0, <1>7, <2>1 DEF Switch
  <2>4. StepFits(inst[i], target, backup, staging, halved)
    BY DEF Sound
  <2>5. StepFits(w, target', backup, staging', halved)
    BY <2>1, <2>2, <2>4 DEF StepFits
  <2>6. staging \in Versions
    BY <2>2, <2>4 DEF StepFits
  <2>7. Complete'
    BY <2>1, <2>3, <2>6 DEF Sound, Complete, VersionIsKept
  <2> QED
    BY <1>0, <2>2, <2>3, <2>5, <2>7, OneInstaller
<1>8. ASSUME NEW i \in Installers, Restore(i)
      PROVE  Sound'
  <2>1. /\ Goes(i, "restoring", "failing")
        /\ \/ backup # Nothing /\ target' = backup /\ backup' = Nothing
           \/ UNCHANGED <<target, backup>>
    BY <1>8 DEF Restore, Renames
  <2>2. PICK w \in Work :
           /\ inst' = [inst EXCEPT ![i] = w] /\ w.pc = "failing"
           /\ inst[i].pc = "restoring" /\ inst[i] \in Work
           /\ w.version = inst[i].version /\ w.was = inst[i].was /\ w.op = inst[i].op
    BY <2>1, GoesOn
  <2>3. /\ UNCHANGED <<staging, halved, served>>
        /\ target' \in Contents /\ backup' \in Contents
    BY <1>0, <1>8, <2>1 DEF Restore, bundleHistory
  <2>4. StepFits(inst[i], target, backup, staging, halved)
    BY DEF Sound
  <2>5. StepFits(w, target', backup', staging, halved)
    BY <2>1, <2>2, <2>4 DEF StepFits
  <2>6. Complete'
    BY <2>1, <2>3 DEF Sound, Complete, VersionIsKept
  <2> QED
    BY <1>0, <2>2, <2>3, <2>5, <2>6, OneInstaller
<1>9. ASSUME NEW i \in Installers, Fail(i)
      PROVE  Sound'
  <2>2. PICK w \in Work :
           /\ inst' = [inst EXCEPT ![i] = w] /\ w.pc = "rolling"
           /\ inst[i].pc = "failing" /\ inst[i] \in Work
           /\ w.version = inst[i].version /\ w.was = inst[i].was /\ w.op = inst[i].op
    BY <1>9, GoesOn DEF Fail
  <2>3. UNCHANGED <<target, backup, halved, served>> /\ staging' \in Contents
    BY <1>0, <1>9 DEF Fail, bundleHistory
  <2>4. StepFits(inst[i], target, backup, staging, halved)
    BY DEF Sound
  <2>5. StepFits(w, target, backup, staging', halved)
    BY <2>2, <2>4 DEF StepFits
  <2>6. Complete'
    BY <2>3 DEF Sound, Complete, VersionIsKept
  <2> QED
    BY <1>0, <2>2, <2>3, <2>5, <2>6, OneInstaller
<1>10. ASSUME NEW i \in Installers, NEW result \in {"none", "ok", "failed", "back"}, Reports(i, result),
             inst[i].pc # "idle", UNCHANGED <<target, backup, staging, served, halved>>
      PROVE  Sound'
  <2>1. PICK w : w = [NoWorkToDo EXCEPT !.result = result]
    OBVIOUS
  <2>2. w \in Work /\ StepFits(w, target, backup, staging, halved)
    BY <2>1, NoWorkFits
  <2>3. inst' = [inst EXCEPT ![i] = w]
    BY <1>10, <2>1 DEF Reports
  <2>4. Complete'
    BY <1>10 DEF Sound, Complete, VersionIsKept
  <2> QED
    BY <1>0, <1>10, <2>2, <2>3, <2>4, OneInstaller
<1>11. ASSUME NEW i \in Installers, Label(i) \/ Unlabel(i)
      PROVE  Sound'
  BY <1>10, <1>11 DEF Label, Unlabel, bundleHistory
<1>12. ASSUME NEW i \in Installers, FindBackup(i)
       PROVE  Sound'
  <2>1. UNCHANGED <<target, backup, staging, served, halved>>
    BY <1>12 DEF FindBackup, files, bundleHistory
  <2>2. CASE backup = Nothing
    BY <1>10, <1>12, <2>1, <2>2 DEF FindBackup
  <2>3. CASE backup # Nothing
    <3>1. PICK w \in Work :
             /\ inst' = [inst EXCEPT ![i] = w] /\ w.pc = "removing"
             /\ inst[i].pc = "rolling" /\ inst[i] \in Work
             /\ w.version = inst[i].version /\ w.was = inst[i].was /\ w.op = inst[i].op
      BY <1>12, <2>3, GoesOn DEF FindBackup
    <3>2. StepFits(inst[i], target, backup, staging, halved)
      BY DEF Sound
    <3>3. StepFits(w, target, backup, staging, halved)
      BY <2>3, <3>1, <3>2 DEF StepFits
    <3>4. Complete'
      BY <2>1 DEF Sound, Complete, VersionIsKept
    <3> QED
      BY <1>0, <2>1, <3>1, <3>3, <3>4, OneInstaller
  <2> QED
    BY <2>2, <2>3
<1>13. ASSUME NEW i \in Installers, RemoveTarget(i)
       PROVE  Sound'
  <2>1. PICK w \in Work :
           /\ inst' = [inst EXCEPT ![i] = w] /\ w.pc = "returning"
           /\ inst[i].pc = "removing" /\ inst[i] \in Work
           /\ w.version = inst[i].version /\ w.was = inst[i].was /\ w.op = inst[i].op
    BY <1>13, GoesOn DEF RemoveTarget
  <2>2. target' \in Contents /\ target' \in {Nothing, Partial, target}
    BY <1>0, <1>13, RemovedContents DEF RemoveTarget
  <2>3. /\ UNCHANGED <<backup, staging, served>>
        /\ halved' = (halved \/ target' = Partial)
    BY <1>13 DEF RemoveTarget
  <2>4. StepFits(inst[i], target, backup, staging, halved)
    BY DEF Sound
  <2>5. StepFits(w, target', backup, staging, halved')
    BY <2>1, <2>3, <2>4 DEF StepFits
  <2>6. backup # Nothing
    BY <2>1, <2>4 DEF StepFits
  <2>7. Complete'
    BY <2>2, <2>3, <2>6 DEF Sound, Complete, VersionIsKept
  <2> QED
    BY <1>0, <2>1, <2>2, <2>3, <2>5, <2>7, OneInstaller
<1>14. ASSUME NEW i \in Installers, MoveBack(i)
       PROVE  Sound'
  <2>1. inst[i].pc = "returning" /\ UNCHANGED <<staging, halved, served>>
    BY <1>14 DEF MoveBack, bundleHistory
  <2>2. CASE Reports(i, "failed") /\ UNCHANGED <<target, backup>>
    BY <1>10, <2>1, <2>2
  <2>3. CASE /\ Renames(backup, target)
             /\ target' = backup /\ backup' = Nothing
             /\ Goes(i, "returning", "unlabelling") \/ Reports(i, "back")
    <3>1. backup # Nothing
      BY <2>3 DEF Renames
    <3>2. StepFits(inst[i], target, backup, staging, halved)
      BY DEF Sound
    <3>3. Complete'
      BY <2>1, <2>3, <3>1 DEF Sound, Complete, VersionIsKept
    <3>4. CASE Goes(i, "returning", "unlabelling")
      <4>1. PICK w \in Work :
               /\ inst' = [inst EXCEPT ![i] = w] /\ w.pc = "unlabelling"
               /\ inst[i].pc = "returning" /\ inst[i] \in Work
               /\ w.version = inst[i].version /\ w.was = inst[i].was /\ w.op = inst[i].op
        BY <3>4, GoesOn
      <4>2. ~halved => backup \in Versions
        BY <3>1 DEF Sound, Complete
      <4>3. StepFits(w, target', backup', staging, halved)
        BY <2>3, <3>1, <3>2, <4>1, <4>2 DEF StepFits
      <4> QED
        BY <1>0, <2>1, <2>3, <3>3, <4>1, <4>3, OneInstaller
    <3>5. CASE Reports(i, "back")
      <4>1. PICK w : w = [NoWorkToDo EXCEPT !.result = "back"]
        OBVIOUS
      <4>2. w \in Work /\ StepFits(w, target', backup', staging, halved)
        BY <4>1, NoWorkFits
      <4>3. inst' = [inst EXCEPT ![i] = w]
        BY <3>5, <4>1 DEF Reports
      <4> QED
        BY <1>0, <2>1, <2>3, <3>3, <4>2, <4>3, OneInstaller
    <3> QED
      BY <2>3, <3>4, <3>5
  <2> QED
    BY <1>14, <2>2, <2>3 DEF MoveBack
<1>15. CASE Die
  <2>1. UNCHANGED <<target, backup, staging, served, halved>>
    BY <1>15 DEF Die, files, bundleHistory
  <2>2. NoWorkToDo \in Work /\ NoWorkToDo.pc = "idle"
    BY DEF NoWorkToDo, Work
  <2>3. inst' = [i \in Installers |-> NoWorkToDo]
    BY <1>15 DEF Die
  <2>4. \A i \in Installers : StepFits(inst'[i], target', backup', staging', halved')
    BY <2>2, <2>3 DEF StepFits
  <2>5. Complete' /\ BundleTypes'
    BY <1>0, <2>1, <2>2, <2>3 DEF Sound, BundleTypes, Complete, VersionIsKept
  <2>6. \A i \in Installers : inst'[i].pc = "idle"
    BY <2>2, <2>3
  <2> QED
    BY <2>4, <2>5, <2>6 DEF Sound
<1>16. CASE UNCHANGED bundleVars
  BY <1>16 DEF bundleVars, files, bundleHistory, Sound, BundleTypes, Complete, VersionIsKept,
               StepFits
<1> QED
  BY <1>2, <1>3, <1>4, <1>5, <1>6, <1>7, <1>8, <1>9, <1>11, <1>12, <1>13, <1>14, <1>15, <1>16
     DEF BundleNext

\* Nobody forgets that two works overlapped.
LEMMA BundleKept == BundleInv /\ [BundleNext]_bundleVars => BundleInv'
<1>1. ASSUME [BundleNext]_bundleVars, ~overlapped'
      PROVE  ~overlapped
  <2>1. CASE UNCHANGED overlapped
    BY <1>1, <2>1
  <2>2. CASE \E i \in Installers : \E w : Begins(i, w)
    BY <1>1, <2>2 DEF Begins
  <2>3. UNCHANGED overlapped \/ \E i \in Installers : \E w : Begins(i, w)
    BY <1>1 DEF BundleNext, bundleVars, bundleHistory, Update, Stage, ClearBackup, MoveToBackup, Switch,
                Restore, Label, Fail, RollBack, FindBackup, RemoveTarget, MoveBack, Unlabel, Die
  <2> QED
    BY <2>1, <2>2, <2>3
<1> QED
  BY <1>1, BundleStep DEF BundleInv

\* The end of a work says what is in place.
LEMMA ReportedStep ==
  ASSUME Sound, BundleNext, NEW i \in Installers, inst[i].pc # "idle", inst'[i].pc = "idle"
  PROVE  /\ inst'[i].result = "ok" => target' = inst[i].version
         /\ inst'[i].result = "back" /\ ~halved => target' \in inst[i].was \cap Versions
<1>1. /\ inst \in [Installers -> Work]
      /\ StepFits(inst[i], target, backup, staging, halved)
  BY DEF Sound, BundleTypes
<1>2. ASSUME NEW from, NEW to, Goes(i, from, to), to # "idle"
      PROVE  FALSE
  <2>1. inst' = [inst EXCEPT ![i] = [inst[i] EXCEPT !.pc = to]]
    BY <1>1, <1>2 DEF Goes
  <2>2. inst'[i].pc = to
    BY <1>1, <2>1 DEF Work
  <2> QED
    BY <1>2, <2>2
<1>3. ASSUME NEW result, Reports(i, result)
      PROVE  inst'[i].result = result
  <2>1. inst'[i] = [NoWorkToDo EXCEPT !.result = result]
    BY <1>1, <1>3 DEF Reports
  <2> QED
    BY <2>1 DEF NoWorkToDo
<1>4. CASE Label(i)
  BY <1>1, <1>3, <1>4 DEF Label, StepFits
<1>5. CASE Unlabel(i)
  BY <1>1, <1>3, <1>5 DEF Unlabel, StepFits
<1>6. CASE FindBackup(i)
  BY <1>2, <1>3, <1>6 DEF FindBackup
<1>7. CASE MoveBack(i)
  <2>1. CASE Reports(i, "failed")
    BY <1>3, <2>1
  <2>2. CASE Renames(backup, target) /\ target' = backup /\ Reports(i, "back")
    <3>1. backup # Nothing /\ target' = backup
      BY <2>2 DEF Renames
    <3>2. ~halved => backup \in inst[i].was \cap Versions
      BY <1>1, <1>7, <3>1 DEF MoveBack, StepFits, Sound, Complete
    <3>3. inst'[i].result = "back"
      BY <1>3, <2>2
    <3> QED
      BY <3>1, <3>2, <3>3
  <2>3. CASE Goes(i, "returning", "unlabelling")
    BY <1>2, <2>3
  <2> QED
    BY <1>7, <2>1, <2>2, <2>3 DEF MoveBack
<1>8. CASE Die
  BY <1>8 DEF Die, NoWorkToDo
<1>9. CASE MoveToBackup(i)
  <2>1. CASE inst' = [inst EXCEPT ![i].pc = "switching", ![i].had = TRUE]
    <3>1. inst'[i].pc = "switching"
      BY <1>1, <2>1 DEF Work
    <3> QED
      BY <3>1
  <2> QED
    BY <1>2, <1>9, <2>1 DEF MoveToBackup
<1>10. CASE Stage(i)
  BY <1>2, <1>10 DEF Stage
<1>11. CASE ClearBackup(i)
  BY <1>2, <1>11 DEF ClearBackup
<1>12. CASE Switch(i)
  BY <1>2, <1>12 DEF Switch
<1>13. CASE Restore(i) \/ Fail(i) \/ RemoveTarget(i)
  BY <1>2, <1>13 DEF Restore, Fail, RemoveTarget
<1> QED
  <2>1. PICK j \in Installers :
          \/ Update(j) \/ Stage(j) \/ ClearBackup(j) \/ MoveToBackup(j) \/ Switch(j) \/ Restore(j)
          \/ Label(j) \/ Fail(j)
          \/ RollBack(j) \/ FindBackup(j) \/ RemoveTarget(j) \/ MoveBack(j) \/ Unlabel(j)
          \/ Die
    BY DEF BundleNext
  <2>2. CASE Update(j) \/ RollBack(j)
    <3>1. inst[j].pc = "idle" /\ \E w : inst' = [inst EXCEPT ![j] = w]
      BY <2>2 DEF Update, RollBack, Begins
    <3> QED
      BY <1>1, <3>1
  <2>3. CASE ~(Update(j) \/ RollBack(j) \/ Die)
    <3>1. inst[j].pc # "idle"
      BY <2>1, <2>3 DEF Stage, ClearBackup, MoveToBackup, Switch, Restore, Label, Fail, FindBackup,
                        RemoveTarget, MoveBack, Unlabel, Goes
    <3>2. i = j
      BY <3>1 DEF Sound
    <3> QED
      BY <1>4, <1>5, <1>6, <1>7, <1>9, <1>10, <1>11, <1>12, <1>13, <2>1, <2>3, <3>2
  <2> QED
    BY <1>8, <2>1, <2>2, <2>3

\* As long as one work on the bundle begins after the other has ended, a version
\* that was in place is not lost before another is, whatever fails and wherever
\* the process dies (apply.go:11), for any requests, versions and deaths.
THEOREM VersionSurvives == BundleSpec => []OneVersionSurvives
<1>1. BundleInit => BundleInv
  BY BundleStarts
<1>2. BundleInv /\ [BundleNext]_bundleVars => BundleInv'
  BY BundleKept
<1>3. BundleInv => OneVersionSurvives
  BY DEF BundleInv, Sound, Complete, OneVersionSurvives
<1> QED
  BY <1>1, <1>2, <1>3, PTL DEF BundleSpec

\* And what is reported of it then is what is in place
\* (peerlink_edge_runtime.go:200).
THEOREM ReportTrue == BundleSpec => ReportIsTrue
<1>1. BundleInit => BundleInv
  BY BundleStarts
<1>2. BundleInv /\ [BundleNext]_bundleVars => BundleInv'
  BY BundleKept
<1>3. BundleInv /\ [BundleNext]_bundleVars =>
        [\A i \in Installers :
           inst[i].pc # "idle" /\ inst'[i].pc = "idle" /\ ~overlapped =>
             /\ inst'[i].result = "ok" => target' = inst[i].version
             /\ inst'[i].result = "back" /\ ~halved => target' \in inst[i].was \cap Versions]_bundleVars
  BY ReportedStep DEF BundleInv
<1> QED
  BY <1>1, <1>2, <1>3, PTL DEF BundleSpec, ReportIsTrue

-----------------------------------------------------------------------------
(* The hub of the WebSocket clients                                        *)


\* What makes NoSendToClosed inductive: a broadcast only has clients of the
\* hub before it, as the write lock waits for it, and the read pump of a
\* client in the hub has not come to close the channel; a connection
\* registers once, before its pumps run.
HubInv ==
  /\ WSTypeOK
  /\ \A b \in Broadcasters : sending[b] \subseteq clients
  /\ \A c \in clients : readPump[c] \in {"greeting", "reading", "unregistering"}
  /\ \A c \in closed : readPump[c] = "ended"
  /\ \A c \in WClients : conn[c] = "new" => readPump[c] = "off"

LEMMA InitHub == WSInit => HubInv
  BY WSAssumption DEF WSInit, HubInv, WSTypeOK

\* A message more keeps the channel within its size.
LEMMA SendTypes ==
  ASSUME WSTypeOK, NEW c \in WClients, Send(c)
  PROVE  queued' \in [WClients -> 0..BufferSize]
  BY WSAssumption DEF WSTypeOK, Send

LEMMA StepHub == HubInv /\ [WSNext]_wsVars => HubInv'
<1> SUFFICES ASSUME HubInv, [WSNext]_wsVars
             PROVE  HubInv'
  OBVIOUS
<1> USE DEF HubInv
<1>1. ASSUME NEW c \in WClients, RegisterClient(c)
      PROVE  HubInv'
  BY <1>1 DEF RegisterClient, Unread, WSTypeOK
<1>2. ASSUME NEW c \in WClients, HandlePing(c)
      PROVE  HubInv'
  BY <1>2, SendTypes DEF HandlePing, WSTypeOK
<1>3. ASSUME NEW c \in WClients, Greet(c)
      PROVE  HubInv'
  BY <1>3, SendTypes DEF Greet, WSTypeOK
<1>4. ASSUME NEW c \in WClients, ReadFails(c)
      PROVE  HubInv'
  BY <1>4 DEF ReadFails, WSTypeOK
<1>5. ASSUME NEW c \in WClients, Unregister(c)
      PROVE  HubInv'
  BY <1>5 DEF Unregister, Unread, WSTypeOK
<1>6. ASSUME NEW c \in WClients, CloseSend(c)
      PROVE  HubInv'
  BY <1>6 DEF CloseSend, WSTypeOK
<1>7. ASSUME NEW c \in WClients, WriteMessage(c)
      PROVE  HubInv'
  <2>1. queued' \in [WClients -> 0..BufferSize]
    BY <1>7, WSAssumption DEF WriteMessage, WSTypeOK
  <2> QED
    BY <1>7, <2>1 DEF WriteMessage, WSTypeOK
<1>8. ASSUME NEW c \in WClients, WriteEnds(c)
      PROVE  HubInv'
  BY <1>8 DEF WriteEnds, WSTypeOK
<1>9. ASSUME NEW c \in WClients, Lose(c)
      PROVE  HubInv'
  BY <1>9 DEF Lose, WSTypeOK
<1>10. ASSUME NEW b \in Broadcasters, Broadcast(b)
       PROVE  HubInv'
  BY <1>10 DEF Broadcast, WSTypeOK
<1>11. ASSUME NEW b \in Broadcasters, SendNext(b)
       PROVE  HubInv'
  <2>1. PICK c \in sending[b] : /\ Send(c)
                                /\ sending' = [sending EXCEPT ![b] = @ \ {c}]
    BY <1>11 DEF SendNext
  <2>2. c \in WClients
    BY DEF WSTypeOK
  <2> QED
    BY <1>11, <2>1, <2>2, SendTypes DEF SendNext, WSTypeOK
<1>12. CASE UNCHANGED wsVars
  BY <1>12 DEF wsVars, WSTypeOK
<1> QED
  BY <1>1, <1>2, <1>3, <1>4, <1>5, <1>6, <1>7, <1>8, <1>9, <1>10, <1>11, <1>12
     DEF WSNext, ReadStep

LEMMA HubHolds == WSSpec => []HubInv
  BY InitHub, StepHub, PTL DEF WSSpec

\* The variables stay in their types: a send channel never holds more than
\* its buffer, whoever sends (ws_hub.go, the sends with a default).
THEOREM WSTypesHold == WSSpec => []WSTypeOK
  BY HubHolds, PTL DEF HubInv

\* Nobody is about to send to a channel that was closed, however broadcasts,
\* greetings and pongs interleave with clients that leave (ws_hub.go:170).
THEOREM NoSendToClosedHolds == WSSpec => []NoSendToClosed
<1>1. HubInv => NoSendToClosed
  BY DEF HubInv, NoSendToClosed, WSTypeOK
<1> QED
  BY <1>1, HubHolds, PTL
=============================================================================
