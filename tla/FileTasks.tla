----------------------------- MODULE FileTasks -----------------------------
(***************************************************************************)
(* The file tasks of internal/service: move, copy, rename and delete       *)
(* (file_task_handler.go), the trash that they put files into              *)
(* (trash_manager.go) and their rollback (rollback_manager.go).            *)
(*                                                                         *)
(* The trash has a lock.  Tasks and rollbacks touch the files without it:  *)
(* what a stat saw may have changed when the rename comes.  A rename       *)
(* replaces what is at its destination; it may fail, and so may the copy   *)
(* that is made instead, before or after it has touched the destination.   *)
(***************************************************************************)
EXTENDS Naturals, FiniteSets

CONSTANTS Paths,        \* files of the user
          FileContents, \* what they hold
          Empty,        \* no file
          TaskWorkers,  \* how many tasks run at once
          Handlers,     \* goroutines of the API of the trash and of rollbacks
          MaxFileTasks  \* bound: tasks created

FileTaskIds == 1..MaxFileTasks
NoFileTask == 0

ASSUME FileTasksAssumption ==
  /\ Empty \notin FileContents
  /\ Paths \cap FileTaskIds = {}
  /\ TaskWorkers \in Nat /\ MaxFileTasks \in Nat

\* A task moves at most one file to the trash: the place there is named by it.
Places == Paths \cup FileTaskIds

VARIABLES fs,        \* what is at each place
          rows,      \* the trash table: tasks that have an entry, its path is TrashedPath
          trashMu,   \* holder of TrashManagerImpl.mu: a task, a handler, or nobody
          ftask,     \* the tasks
          api        \* each handler: where it is, and for which task

\* History, read by no action.
VARIABLES excused,   \* contents whose last copy went in a way that is known
          stranded,  \* files of the trash whose entry could not be made, nor they be put back
          stale      \* entries that could not be deleted

fileHistory == <<excused, stranded, stale>>
fileVars == <<fs, rows, trashMu, ftask, api, fileHistory>>

FileKinds == {"move", "copy", "delete", "undo"}

\* clear: the destination was empty when the task had looked at it.
NoTask0 == [kind |-> "none", src |-> Empty, dst |-> Empty, over |-> FALSE, of |-> NoFileTask,
            pc |-> "none", clear |-> FALSE]
IdleApi == [pc |-> "idle", of |-> NoFileTask, by |-> NoFileTask]

FilesInit ==
  /\ fs \in [Places -> FileContents \cup {Empty}]
  /\ \A p \in FileTaskIds : fs[p] = Empty
  /\ {fs[p] : p \in Paths} \ {Empty} = FileContents
  /\ \A p, q \in Paths : p # q /\ fs[p] # Empty => fs[p] # fs[q]
  /\ rows = {} /\ trashMu = NoFileTask
  /\ ftask = [t \in FileTaskIds |-> NoTask0]
  /\ api = [h \in Handlers |-> IdleApi]
  /\ excused = {} /\ stranded = {} /\ stale = {}

Gone(files) == {c \in FileContents : \A p \in Places : files[p] # c}

\* The contents that this step loses are excused if the condition holds.
Excuses(condition) ==
  excused' = IF condition THEN excused \cup (Gone(fs') \ Gone(fs)) ELSE excused

\* The task of a path in the trash, and back: OriginalPath of an entry.
TrashedPath(t) == IF ftask[t].kind = "delete" THEN ftask[t].src ELSE ftask[t].dst

Step(t, from, to) ==
  /\ ftask[t].pc = from
  /\ ftask' = [ftask EXCEPT ![t].pc = to]

Running == {t \in FileTaskIds : ftask[t].pc \notin {"none", "created", "queued", "completed", "failed"}}
Unused == {t \in FileTaskIds : ftask[t].kind = "none"}
NextId == CHOOSE t \in Unused : \A u \in Unused : t <= u

-----------------------------------------------------------------------------
(* Moving files                                                            *)

Moved(a, b) == [fs EXCEPT ![b] = fs[a], ![a] = Empty]

\* What a move that fails may leave: nothing changed, a copy whose source could
\* not be removed, or nothing at the destination.
MoveFailures(a, b) == {fs, [fs EXCEPT ![b] = fs[a]], [fs EXCEPT ![b] = Empty]}

-----------------------------------------------------------------------------
(* File tasks                                                              *)

\* A move to itself does nothing, and a copy to itself is refused.
CreateFileTask ==
  /\ Unused # {}
  /\ \E k \in FileKinds \ {"undo"}, s, d \in Paths, o \in BOOLEAN :
       /\ s # d
       /\ k = "delete" => ~o /\ d = CHOOSE p \in Paths : p # s
       /\ ftask' = [ftask EXCEPT ![NextId] = [NoTask0 EXCEPT !.kind = k, !.src = s, !.dst = d,
                                                             !.over = o, !.pc = "queued"]]
  /\ UNCHANGED <<fs, rows, trashMu, api, fileHistory>>

StartTask(t) ==
  /\ Cardinality(Running) < TaskWorkers
  /\ \/ ftask[t].kind \in {"move", "copy"} /\ Step(t, "queued", "preparing")
     \/ ftask[t].kind = "delete" /\ Step(t, "queued", "trashing")
     \/ ftask[t].kind = "undo" /\ ftask[t].of # NoFileTask /\ Step(t, "queued", "undoing")
     \* The request has not set RollbackOf yet.
     \/ ftask[t].kind = "undo" /\ ftask[t].of = NoFileTask /\ Step(t, "queued", "failed")
  /\ UNCHANGED <<fs, rows, trashMu, api, fileHistory>>

\* Mutant: the destination is overwritten in place.
PrepareInPlace(t) ==
  /\ ftask[t].pc = "preparing"
  /\ \/ /\ fs[ftask[t].dst] = Empty
        /\ ftask' = [ftask EXCEPT ![t].pc = "placing", ![t].clear = TRUE]
     \/ /\ fs[ftask[t].dst] # Empty
        /\ Step(t, "preparing", IF ftask[t].over THEN "placing" ELSE "failed")
  /\ UNCHANGED <<fs, rows, trashMu, api, fileHistory>>

\* prepareDestination
Prepare(t) ==
  LET d == ftask[t].dst IN
  /\ ftask[t].pc = "preparing"
  /\ \/ /\ fs[d] = Empty
        /\ ftask' = [ftask EXCEPT ![t].pc = "placing", ![t].clear = TRUE]
     \/ fs[d] # Empty /\ Step(t, "preparing", IF ftask[t].over THEN "trashing" ELSE "failed")
  /\ UNCHANGED <<fs, rows, trashMu, api, fileHistory>>

\* MoveToTrash: the file, then its entry, or the file is put back.
MoveToTrash(t) ==
  LET p == TrashedPath(t) IN
  /\ ftask[t].pc = "trashing"
  /\ trashMu = NoFileTask
  /\ \/ /\ fs[p] # Empty
        /\ ftask' = [ftask EXCEPT ![t].pc = "recording", ![t].clear = TRUE]
        /\ fs' = Moved(p, t)
        /\ trashMu' = t
     \/ /\ Step(t, "trashing", "failed")
        /\ fs' \in IF fs[p] # Empty THEN {fs, [fs EXCEPT ![t] = fs[p]]} ELSE {fs}
        /\ UNCHANGED trashMu
  /\ stranded' = IF ftask'[t].pc = "failed" /\ fs'[t] # Empty THEN stranded \cup {t} ELSE stranded
  /\ UNCHANGED <<rows, api, excused, stale>>

\* Mutant: an entry that cannot be made is forgotten.
CreateTrashOrFail(t) ==
  /\ ftask[t].pc = "recording"
  /\ \/ /\ rows' = rows \cup {t}
        /\ Step(t, "recording", IF ftask[t].kind = "delete" THEN "completed" ELSE "placing")
     \/ Step(t, "recording", "failed") /\ UNCHANGED rows
  /\ trashMu' = NoFileTask
  /\ UNCHANGED <<fs, api, fileHistory>>

CreateTrash(t) ==
  /\ ftask[t].pc = "recording"
  /\ \/ /\ rows' = rows \cup {t}
        /\ trashMu' = NoFileTask
        /\ Step(t, "recording", IF ftask[t].kind = "delete" THEN "completed" ELSE "placing")
     \/ Step(t, "recording", "returning") /\ UNCHANGED <<rows, trashMu>>
  /\ UNCHANGED <<fs, api, fileHistory>>

PutBack(t) ==
  LET p == TrashedPath(t) IN
  /\ Step(t, "returning", "failed")
  /\ trashMu' = NoFileTask
  /\ fs' \in {Moved(t, p)} \cup MoveFailures(t, p)
  /\ stranded' = IF fs'[t] # Empty THEN stranded \cup {t} ELSE stranded
  /\ Excuses(fs[p] # Empty)
  /\ UNCHANGED <<rows, api, stale>>

\* The move or the copy itself.  Contents at a destination that was empty when
\* the task looked came there since.
Place(t) ==
  LET s == ftask[t].src  d == ftask[t].dst IN
  /\ ftask[t].pc = "placing"
  /\ \/ /\ fs[s] # Empty
        /\ Step(t, "placing", "completed")
        /\ fs' = IF ftask[t].kind = "move" THEN Moved(s, d) ELSE [fs EXCEPT ![d] = fs[s]]
     \/ /\ Step(t, "placing", "failed")
        /\ fs' \in IF fs[s] = Empty THEN {fs}
                   ELSE IF ftask[t].kind = "move" THEN MoveFailures(s, d)
                   ELSE {fs, [fs EXCEPT ![d] = Empty]}
  /\ Excuses(ftask[t].clear)
  /\ UNCHANGED <<rows, trashMu, api, stranded, stale>>

-----------------------------------------------------------------------------
(* Rollback                                                                *)

\* CanRollback: no other rollback of the task is stored.
CanRollback(h) ==
  /\ api[h].pc = "idle" /\ Unused # {}
  /\ \E t \in FileTaskIds :
       /\ ftask[t].pc = "completed" /\ ftask[t].kind # "undo"
       /\ \A u \in FileTaskIds : ftask[u].of # t
       /\ ftask[t].kind = "delete" => t \in rows
       /\ api' = [api EXCEPT ![h] = [pc |-> "creating", of |-> t, by |-> NoFileTask]]
  /\ UNCHANGED <<fs, rows, trashMu, ftask, fileHistory>>

\* Create puts the task into the queue; its RollbackOf is set afterwards.
CreateRollback(h) ==
  /\ api[h].pc = "creating" /\ Unused # {}
  /\ ftask' = [ftask EXCEPT ![NextId] = [NoTask0 EXCEPT !.kind = "undo", !.pc = "queued"]]
  /\ api' = [api EXCEPT ![h].pc = "linking", ![h].by = NextId]
  /\ UNCHANGED <<fs, rows, trashMu, fileHistory>>

SetRollbackOf(h) ==
  /\ api[h].pc = "linking"
  /\ ftask' = [ftask EXCEPT ![api[h].by].of = api[h].of]
  /\ api' = [api EXCEPT ![h] = IdleApi]
  /\ UNCHANGED <<fs, rows, trashMu, fileHistory>>

Of(t) == ftask[ftask[t].of]

\* From where and to where a rollback moves a file back.
From(t) == IF Of(t).kind = "delete" THEN ftask[t].of ELSE Of(t).dst
To(t) == Of(t).src

\* The stats before a file is moved back.
CheckUndo(t) ==
  /\ ftask[t].pc = "undoing" /\ Of(t).kind \in {"move", "delete"}
  /\ \/ /\ fs[From(t)] # Empty /\ fs[To(t)] = Empty
        /\ ftask' = [ftask EXCEPT ![t].pc = "moving back", ![t].clear = TRUE]
     \/ /\ fs[From(t)] = Empty \/ fs[To(t)] # Empty
        /\ Step(t, "undoing", "failed")
  /\ UNCHANGED <<fs, rows, trashMu, api, fileHistory>>

MoveFileBack(t) ==
  LET a == From(t)  b == To(t) IN
  /\ ftask[t].pc = "moving back"
  /\ \/ /\ fs[a] # Empty
        /\ Step(t, "moving back", IF Of(t).kind = "delete" THEN "unlisting" ELSE "restoring")
        /\ fs' = Moved(a, b)
     \/ /\ Step(t, "moving back", "failed")
        /\ fs' \in IF fs[a] = Empty THEN {fs} ELSE MoveFailures(a, b)
  /\ Excuses(ftask[t].clear)
  /\ UNCHANGED <<rows, trashMu, api, stranded, stale>>

\* CopyRollbackStrategy removes what is at the target now.
RemoveCopy(t) ==
  /\ ftask[t].pc = "undoing" /\ Of(t).kind = "copy"
  /\ \/ Step(t, "undoing", "restoring") /\ fs' = [fs EXCEPT ![Of(t).dst] = Empty]
     \/ Step(t, "undoing", "failed") /\ UNCHANGED fs
  /\ Excuses(TRUE)
  /\ UNCHANGED <<rows, trashMu, api, stranded, stale>>

\* restoreOverwrittenFromTrash, for a task that has an entry in the trash.
CheckOverwritten(t) ==
  /\ ftask[t].pc = "restoring"
  /\ \/ ftask[t].of \notin rows /\ Step(t, "restoring", "completed")
     \/ /\ ftask[t].of \in rows
        /\ fs[Of(t).dst] # Empty
        /\ Step(t, "restoring", "failed")
     \/ /\ ftask[t].of \in rows
        /\ fs[Of(t).dst] = Empty
        /\ ftask' = [ftask EXCEPT ![t].pc = "bringing", ![t].clear = TRUE]
  /\ UNCHANGED <<fs, rows, trashMu, api, fileHistory>>

BringOverwritten(t) ==
  LET a == ftask[t].of  b == Of(t).dst IN
  /\ ftask[t].pc = "bringing"
  /\ \/ /\ fs[a] # Empty
        /\ Step(t, "bringing", "unlisting")
        /\ fs' = Moved(a, b)
     \/ /\ Step(t, "bringing", "failed")
        /\ fs' \in IF fs[a] = Empty THEN {fs} ELSE MoveFailures(a, b)
  /\ Excuses(ftask[t].clear)
  /\ UNCHANGED <<rows, trashMu, api, stranded, stale>>

\* DeleteTrash, whose failure is only logged.
Unlisted(t) ==
  \/ rows' = rows \ {t} /\ UNCHANGED stale
  \/ rows' = rows /\ stale' = stale \cup {t}

DeleteRow(t) ==
  /\ Step(t, "unlisting", "completed")
  /\ Unlisted(ftask[t].of)
  /\ UNCHANGED <<fs, trashMu, api, excused, stranded>>

-----------------------------------------------------------------------------
(* The API of the trash                                                    *)

\* Restore moves the file to where it was, whatever is there now.
RestoreTrash(h) ==
  /\ api[h].pc = "idle" /\ trashMu = NoFileTask
  /\ \E t \in rows :
       \/ /\ fs[t] # Empty
          /\ fs' = Moved(t, TrashedPath(t))
          /\ api' = [api EXCEPT ![h] = [pc |-> "unlisting", of |-> t, by |-> NoFileTask]]
          /\ trashMu' = h
       \/ /\ fs[t] # Empty
          /\ fs' \in MoveFailures(t, TrashedPath(t)) \ {fs}
          /\ UNCHANGED <<api, trashMu>>
  /\ Excuses(TRUE)
  /\ UNCHANGED <<rows, ftask, stranded, stale>>

Purge(h) ==
  /\ api[h].pc = "idle" /\ trashMu = NoFileTask
  /\ \E t \in rows :
       /\ fs' = [fs EXCEPT ![t] = Empty]
       /\ api' = [api EXCEPT ![h] = [pc |-> "unlisting", of |-> t, by |-> NoFileTask]]
  /\ trashMu' = h
  /\ Excuses(TRUE)
  /\ UNCHANGED <<rows, ftask, stranded, stale>>

DeleteTrash(h) ==
  /\ api[h].pc = "unlisting"
  /\ Unlisted(api[h].of)
  /\ api' = [api EXCEPT ![h] = IdleApi]
  /\ trashMu' = NoFileTask
  /\ UNCHANGED <<fs, ftask, excused, stranded>>

FilesNext ==
  \/ CreateFileTask
  \/ \E t \in FileTaskIds :
       \/ StartTask(t) \/ Prepare(t) \/ MoveToTrash(t) \/ CreateTrash(t) \/ PutBack(t) \/ Place(t)
       \/ CheckUndo(t) \/ MoveFileBack(t) \/ RemoveCopy(t) \/ CheckOverwritten(t)
       \/ BringOverwritten(t) \/ DeleteRow(t)
  \/ \E h \in Handlers :
       \/ CanRollback(h) \/ CreateRollback(h) \/ SetRollbackOf(h)
       \/ RestoreTrash(h) \/ Purge(h) \/ DeleteTrash(h)

FilesSpec == FilesInit /\ [][FilesNext]_fileVars

-----------------------------------------------------------------------------
(* Properties                                                              *)

\* What a user had in a file is still somewhere, in a file or in the trash,
\* unless it was purged, replaced by a file that was restored to its place,
\* removed by the rollback of a copy, or came to a destination after a task
\* had seen it empty (file_task_handler.go:167, never silently replaced).
ContentsSurvive == Gone(fs) \subseteq excused

\* The trash lists what it holds: a file without an entry could not be put back
\* either, and an entry without a file could not be deleted, or is about to be.
TrashIsListed ==
  /\ \A t \in FileTaskIds : fs[t] # Empty =>
       t \in rows \cup stranded \/ ftask[t].pc \in {"recording", "returning"}
  /\ \A t \in rows : fs[t] = Empty =>
       \/ t \in stale
       \/ \E h \in Handlers : api[h].pc = "unlisting" /\ api[h].of = t
       \/ \E u \in FileTaskIds : ftask[u].pc = "unlisting" /\ ftask[u].of = t

\* The rollback of a copy removes the copy, and no other file
\* (rollback_manager.go:353).
UndoRemovesItsCopy ==
  [][\A t \in FileTaskIds :
       ftask[t].pc = "undoing" /\ ftask'[t].pc = "restoring" => Gone(fs') = Gone(fs)]_fileVars
=============================================================================
