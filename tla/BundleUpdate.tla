---------------------------- MODULE BundleUpdate ----------------------------
(***************************************************************************)
(* Installing a bundle that the hub pushed (internal/bundle/apply.go and   *)
(* the handlers of internal/server/peerlink_edge_runtime.go): an archive   *)
(* is unpacked beside the target, the version in place is moved to a       *)
(* backup, the new one takes its place, and a failure rolls back.          *)
(*                                                                         *)
(* The files have no lock, the process may die between any two steps, and  *)
(* the removal of a directory may stop half way.                           *)
(***************************************************************************)
EXTENDS Naturals

CONSTANTS Installers,   \* goroutines that install or roll back
          Versions,     \* versions of the bundle
          Nothing,      \* no file
          Partial,      \* what is left of a directory that was being removed
          BundleKinds,  \* "dir" for a directory, "file" for the executable
          MaxDeaths     \* bound: deaths of the process

ASSUME BundleAssumption ==
  /\ Nothing \notin Versions /\ Partial \notin Versions /\ Nothing # Partial
  /\ BundleKinds \subseteq {"dir", "file"}
  /\ MaxDeaths \in Nat

Contents == Versions \cup {Nothing, Partial}

VARIABLES kind,
          target, backup, staging,
          label,   \* the sidecar <target>.version of an executable
          inst,    \* each installer: where it is, and what for
          deaths

files == <<target, backup, staging, label>>

\* History, read by no action.
VARIABLES served,  \* a complete version was in place once
          halved,  \* a removal of a version was cut short
          overlapped  \* a work began while another was under way

bundleHistory == <<served, halved, overlapped>>
bundleVars == <<kind, files, inst, deaths, bundleHistory>>

\* was: what was in place and in the backup when the work began; had: the
\* former was moved to the backup.
NoWorkToDo == [pc |-> "idle", op |-> "none", version |-> Nothing, was |-> {},
               had |-> FALSE, result |-> "none"]

BundleInit ==
  /\ kind \in BundleKinds
  /\ target \in Versions \cup {Nothing}
  /\ backup = Nothing /\ staging = Nothing
  /\ label = Nothing
  /\ inst = [i \in Installers |-> NoWorkToDo]
  /\ deaths = 0
  /\ served = (target # Nothing) /\ halved = FALSE /\ overlapped = FALSE

Alone(i) == \A j \in Installers \ {i} : inst[j].pc = "idle"

\* A request begins its work, whatever others do: nothing keeps the read loop of
\* an Edge, a retired one that goes on, and the local API apart.
Begins(i, work) ==
  /\ inst[i].pc = "idle"
  /\ inst' = [inst EXCEPT ![i] = work]
  /\ overlapped' = (overlapped \/ ~Alone(i))
  /\ UNCHANGED <<kind, files, deaths, served, halved>>

Goes(i, from, to) ==
  /\ inst[i].pc = from
  /\ inst' = [inst EXCEPT ![i].pc = to]

\* The end of the work, with the result that is reported.
Reports(i, result) == inst' = [inst EXCEPT ![i] = [NoWorkToDo EXCEPT !.result = result]]

\* What a removal, whose error is ignored, may leave: a directory goes file by
\* file.
Removed(c) == {Nothing, c} \cup (IF kind = "dir" /\ c # Nothing THEN {Partial} ELSE {})

-----------------------------------------------------------------------------
(* peerLocalBundleUpdate and Apply                                         *)

\* A request that is refused, or whose archive cannot be fetched, changes
\* nothing.
Update(i) ==
  \E v \in Versions :
    Begins(i, [NoWorkToDo EXCEPT !.pc = "staging", !.op = "update", !.version = v, !.was = {target, backup}])

\* The archive is checked, unpacked and found complete, or Apply fails.
Stage(i) ==
  /\ \/ Goes(i, "staging", "clearing") /\ staging' = inst[i].version
     \/ Goes(i, "staging", "failing") /\ UNCHANGED staging
     \/ Goes(i, "staging", "failing") /\ staging' = Partial
  /\ UNCHANGED <<kind, target, backup, label, deaths, bundleHistory>>

\* With something in place, the backup before it is removed.
ClearBackup(i) ==
  /\ IF target # Nothing
       THEN Goes(i, "clearing", "backing") /\ backup' \in Removed(backup)
       ELSE Goes(i, "clearing", "switching") /\ UNCHANGED backup
  /\ halved' = (halved \/ backup' = Partial)
  /\ UNCHANGED <<kind, target, staging, label, deaths, served, overlapped>>

\* A directory does not replace one that is there; a file does.
Renames(from, to) == from # Nothing /\ (kind = "file" \/ to = Nothing)

MoveToBackup(i) ==
  /\ \/ /\ Renames(target, backup)
        /\ inst[i].pc = "backing"
        /\ inst' = [inst EXCEPT ![i].pc = "switching", ![i].had = TRUE]
        /\ backup' = target /\ target' = Nothing
     \/ Goes(i, "backing", "failing") /\ UNCHANGED <<target, backup>>
  /\ UNCHANGED <<kind, staging, label, deaths, bundleHistory>>

\* Mutant: the error of the second rename is not looked at.
SwitchUnchecked(i) ==
  /\ \/ /\ Renames(staging, target)
        /\ target' = staging /\ staging' = Nothing
        /\ served' = (served \/ staging \in Versions)
        /\ Goes(i, "switching", "labelling")
     \/ Goes(i, "switching", "labelling") /\ UNCHANGED <<target, staging, served>>
  /\ UNCHANGED <<kind, backup, label, deaths, halved, overlapped>>

\* The new version takes its place; an executable may still fail to be made one.
Switch(i) ==
  /\ \/ /\ Renames(staging, target)
        /\ target' = staging /\ staging' = Nothing
        /\ served' = (served \/ staging \in Versions)
        /\ \/ Goes(i, "switching", "labelling")
           \/ kind = "file" /\ Goes(i, "switching", "failing")
     \/ Goes(i, "switching", IF inst[i].had THEN "restoring" ELSE "failing")
        /\ UNCHANGED <<target, staging, served>>
  /\ UNCHANGED <<kind, backup, label, deaths, halved, overlapped>>

\* The switch failed: the backup is moved back, if it can be.
Restore(i) ==
  /\ Goes(i, "restoring", "failing")
  /\ \/ Renames(backup, target) /\ target' = backup /\ backup' = Nothing
     \/ UNCHANGED <<target, backup>>
  /\ UNCHANGED <<kind, staging, label, deaths, bundleHistory>>

\* The sidecar, whose write may fail unnoticed.
Label(i) ==
  /\ inst[i].pc = "labelling"
  /\ label' \in IF kind = "file" THEN {label, inst[i].version} ELSE {label}
  /\ Reports(i, "ok")
  /\ UNCHANGED <<kind, target, backup, staging, deaths, bundleHistory>>

\* Apply has failed.  The staging directory is removed as it returns, and then
\* the handler rolls back, whatever it was that failed.
Fail(i) ==
  /\ Goes(i, "failing", "rolling")
  /\ staging' \in {Nothing, Partial}
  /\ UNCHANGED <<kind, target, backup, label, deaths, bundleHistory>>

-----------------------------------------------------------------------------
(* peerLocalBundleRollback and Rollback                                    *)

\* Asked by the hub, or by the user of the device.
RollBack(i) == Begins(i, [NoWorkToDo EXCEPT !.pc = "rolling", !.op = "rollback", !.was = {target, backup}])

\* Mutant: the target is removed before the backup is looked for.
FindBackupUnchecked(i) ==
  /\ Goes(i, "rolling", "removing")
  /\ UNCHANGED <<kind, files, deaths, bundleHistory>>

FindBackup(i) ==
  /\ inst[i].pc = "rolling"
  /\ IF backup # Nothing
       THEN Goes(i, "rolling", "removing")
       ELSE Reports(i, "failed")
  /\ UNCHANGED <<kind, files, deaths, bundleHistory>>

RemoveTarget(i) ==
  /\ Goes(i, "removing", "returning")
  /\ target' \in Removed(target)
  /\ halved' = (halved \/ target' = Partial)
  /\ UNCHANGED <<kind, backup, staging, label, deaths, served, overlapped>>

MoveBack(i) ==
  /\ inst[i].pc = "returning"
  /\ \/ /\ Renames(backup, target)
        /\ target' = backup /\ backup' = Nothing
        /\ IF inst[i].op = "rollback" /\ kind = "file"
             THEN Goes(i, "returning", "unlabelling")
             ELSE Reports(i, "back")
     \/ Reports(i, "failed") /\ UNCHANGED <<target, backup>>
  /\ UNCHANGED <<kind, staging, label, deaths, bundleHistory>>

\* Without its sidecar, the executable of the app package is used.
Unlabel(i) ==
  /\ inst[i].pc = "unlabelling"
  /\ label' \in {label, Nothing}
  /\ Reports(i, "back")
  /\ UNCHANGED <<kind, target, backup, staging, deaths, bundleHistory>>

Die ==
  /\ deaths < MaxDeaths
  /\ deaths' = deaths + 1
  /\ inst' = [i \in Installers |-> NoWorkToDo]
  /\ UNCHANGED <<kind, files, bundleHistory>>

BundleNext ==
  \/ \E i \in Installers :
       \/ Update(i) \/ Stage(i) \/ ClearBackup(i) \/ MoveToBackup(i) \/ Switch(i) \/ Restore(i)
       \/ Label(i) \/ Fail(i)
       \/ RollBack(i) \/ FindBackup(i) \/ RemoveTarget(i) \/ MoveBack(i) \/ Unlabel(i)
  \/ Die

BundleSpec == BundleInit /\ [][BundleNext]_bundleVars

-----------------------------------------------------------------------------
(* Properties                                                              *)

\* Types.
BundleTypeOK ==
  /\ kind \in BundleKinds
  /\ target \in Contents /\ backup \in Contents /\ staging \in Contents
  /\ label \in Versions \cup {Nothing}
  /\ \A i \in Installers : inst[i].version \in Versions \cup {Nothing}

\* Once a version was in place, a complete one is on disk whatever fails and
\* wherever the process dies, in place or as the backup (apply.go:11), unless
\* the removal of a directory was cut short.  With two works at once the code
\* does not keep it.
VersionIsKept == served /\ ~halved => target \in Versions \/ backup \in Versions

\* It does as long as one work begins after the other has ended.
OneVersionSurvives == ~overlapped => VersionIsKept

\* An update that is reported as installed is in place.  One that failed and is
\* reported as rolled back, and a rollback, have put back a complete version
\* that was in place or in the backup when they began: the older one too, if
\* the update failed before it touched either (peerlink_edge_runtime.go:200).
\* Again, two works at once are not kept apart.
ReportIsTrue ==
  [][\A i \in Installers :
       inst[i].pc # "idle" /\ inst'[i].pc = "idle" /\ ~overlapped =>
         /\ inst'[i].result = "ok" => target' = inst[i].version
         /\ inst'[i].result = "back" /\ ~halved => target' \in inst[i].was \cap Versions]_bundleVars
=============================================================================
