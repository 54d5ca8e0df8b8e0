----------------------------- MODULE HandlePool -----------------------------
(***************************************************************************)
(* The shared handles of a container file (internal/v2/reader:             *)
(* file_handle_pool.go and file_container_reader.go).  The pool counts the *)
(* uses of one open file by path; a container reader holds one use until   *)
(* it is closed, and each fragment that is being read holds another.       *)
(*                                                                         *)
(* The pool has a lock.  The container reader's field for its own use is   *)
(* read and set without one, and opening a container again closes what the *)
(* pool holds of its file.  The files of other paths are independent.      *)
(***************************************************************************)
EXTENDS Integers, FiniteSets

CONSTANTS HReaders,    \* container readers of one file
          HFragments,  \* goroutines that read a fragment
          NoReader,
          MaxHandles   \* bound: times the file is opened

ASSUME HandleAssumption ==
  /\ NoReader \notin HReaders
  /\ MaxHandles \in Nat

NoHandle == 0
Handles == 1..MaxHandles

VARIABLES held, count,  \* fileHandleHold: the handle in the pool, and its uses
          openHandles,  \* handles of the process that are not closed
          handlesMade,
          state,        \* each container reader: "new", "open" or "closed"
          own,          \* its initMainFileHandle
          frag          \* each goroutine: where it is, of which reader, with which handle

poolVars == <<held, count, openHandles, handlesMade>>

\* History, read by no action: the file was opened again while it was read, or
\* a fragment took the container's own use at once with another, or with Close.
VARIABLE contended

handleVars == <<poolVars, state, own, frag, contended>>

NoFragment == [pc |-> "idle", of |-> NoReader, handle |-> NoHandle]

HandleInit ==
  /\ held = NoHandle /\ count = 0
  /\ openHandles = {} /\ handlesMade = 0
  /\ state = [r \in HReaders |-> "new"]
  /\ own = [r \in HReaders |-> NoHandle]
  /\ frag = [f \in HFragments |-> NoFragment]
  /\ contended = FALSE

-----------------------------------------------------------------------------
(* The pool                                                                *)

\* Get, which hands out the handle h.
Get(h) ==
  \/ /\ held # NoHandle
     /\ h = held
     /\ count' = count + 1
     /\ UNCHANGED <<held, openHandles, handlesMade>>
  \/ /\ held = NoHandle /\ handlesMade < MaxHandles
     /\ h = handlesMade + 1
     /\ held' = h /\ count' = 1
     /\ openHandles' = openHandles \cup {h}
     /\ handlesMade' = h

\* Mutant: a use too many is left.
PutKeepsOne(h) ==
  /\ IF held # NoHandle /\ count > 0
       THEN count' = count - 1 /\ UNCHANGED <<held, openHandles>>
       ELSE /\ held' = NoHandle /\ count' = 0
            /\ openHandles' = openHandles \ {h}
  /\ UNCHANGED handlesMade

\* Put counts down whatever handle the path has now, and closes the one it was
\* given.
Put(h) ==
  /\ IF held # NoHandle /\ count > 1
       THEN count' = count - 1 /\ UNCHANGED <<held, openHandles>>
       ELSE /\ held' = NoHandle /\ count' = 0
            /\ openHandles' = openHandles \ {h}
  /\ UNCHANGED handlesMade

\* Close drops the handle, used or not.
ClosePath ==
  /\ held' = NoHandle /\ count' = 0
  /\ openHandles' = openHandles \ {held}
  /\ UNCHANGED handlesMade

-----------------------------------------------------------------------------
(* The container reader                                                    *)

Using(r) == {f \in HFragments : frag[f].of = r}

\* NewEncryptedContainerReaderFromFile
OpenContainer(r) ==
  /\ state[r] = "new"
  /\ state' = [state EXCEPT ![r] = "open"]
  /\ ClosePath
  /\ contended' = (contended \/ \E q \in HReaders \ {r} : own[q] # NoHandle \/ Using(q) # {})
  /\ UNCHANGED <<own, frag>>

\* NewFileContainerReaderFromMetadata, for a file that was opened before.
OpenFromMetadata(r) ==
  /\ state[r] = "new"
  /\ state' = [state EXCEPT ![r] = "open"]
  /\ UNCHANGED <<poolVars, own, frag, contended>>

\* GetFragmentReader: acquireMainFile finds the container's own handle, if it
\* is still open, or takes one.
AcquireMain(f) ==
  /\ frag[f].pc = "idle"
  /\ \E r \in HReaders :
       /\ state[r] = "open"
       /\ \/ /\ own[r] \in openHandles
             /\ frag' = [frag EXCEPT ![f] = [pc |-> "counting", of |-> r, handle |-> own[r]]]
             /\ UNCHANGED poolVars
          \/ /\ own[r] \notin openHandles
             /\ \E h \in Handles :
                  /\ Get(h)
                  /\ frag' = [frag EXCEPT ![f] = [pc |-> "owning", of |-> r, handle |-> h]]
  /\ UNCHANGED <<state, own, contended>>

\* The handle becomes the container's own, also if it has one by now.
SetOwn(f) ==
  /\ frag[f].pc = "owning"
  /\ frag' = [frag EXCEPT ![f].pc = "counting"]
  /\ own' = [own EXCEPT ![frag[f].of] = frag[f].handle]
  /\ contended' = (contended \/ own[frag[f].of] # NoHandle)
  /\ UNCHANGED <<poolVars, state>>

\* A use for the fragment; the handle it was counted on is not looked at.
CountFragment(f) ==
  /\ frag[f].pc = "counting"
  /\ \E h \in Handles : Get(h)
  /\ frag' = [frag EXCEPT ![f].pc = "reading"]
  /\ UNCHANGED <<state, own, contended>>

\* The fragment is closed, or was found to be damaged.
CloseFragment(f) ==
  /\ frag[f].pc = "reading"
  /\ Put(frag[f].handle)
  /\ frag' = [frag EXCEPT ![f] = NoFragment]
  /\ UNCHANGED <<state, own, contended>>

\* Close of the container; fragments that are still read go on.
CloseContainer(r) ==
  /\ state[r] = "open"
  /\ state' = [state EXCEPT ![r] = "closed"]
  /\ IF own[r] # NoHandle THEN Put(own[r]) ELSE UNCHANGED poolVars
  /\ own' = [own EXCEPT ![r] = NoHandle]
  /\ contended' = (contended \/ \E f \in Using(r) : frag[f].pc \in {"owning", "counting"})
  /\ UNCHANGED frag

HandleNext ==
  \/ \E r \in HReaders : OpenContainer(r) \/ OpenFromMetadata(r) \/ CloseContainer(r)
  \/ \E f \in HFragments :
       AcquireMain(f) \/ SetOwn(f) \/ CountFragment(f) \/ CloseFragment(f)

HandleSpec == HandleInit /\ [][HandleNext]_handleVars

-----------------------------------------------------------------------------
(* Properties                                                              *)

Owners == {r \in HReaders : own[r] # NoHandle}
Owning == {f \in HFragments : frag[f].pc = "owning"}
Reading == {f \in HFragments : frag[f].pc = "reading"}

\* Types.
HandleTypeOK ==
  /\ held \in Handles \cup {NoHandle} /\ count \in Nat
  /\ openHandles \subseteq 1..handlesMade
  /\ handlesMade \in 0..MaxHandles
  /\ state \in [HReaders -> {"new", "open", "closed"}]
  /\ own \in [HReaders -> Handles \cup {NoHandle}]
  /\ frag \in [HFragments -> [pc : {"idle", "owning", "counting", "reading"},
                              of : HReaders \cup {NoReader}, handle : Handles \cup {NoHandle}]]

\* As long as the file is not opened again while it is read, and its fragments
\* do not take the container's use at once or while it is closed, the pool
\* counts each use once, has the only open handle, and every fragment reads
\* from it; with the last use the handle is closed
\* (file_container_reader.go:241).
UsesAreExact ==
  ~contended =>
    /\ count = Cardinality(Owners) + Cardinality(Owning) + Cardinality(Reading)
    /\ openHandles = IF held = NoHandle THEN {} ELSE {held}
    /\ held = NoHandle <=> count = 0
    /\ \A f \in Reading : frag[f].handle = held
=============================================================================
