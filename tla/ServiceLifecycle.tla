-------------------------- MODULE ServiceLifecycle --------------------------
(***************************************************************************)
(* The life cycle of one service of the micro-kernel (internal/kernel):    *)
(* the first call builds the service, calls are counted, and the service   *)
(* is dropped when its idle timer fires or when somebody deactivates it.   *)
(*                                                                         *)
(* The state, the reference count, the service and the timer are accessed  *)
(* one by one, by calls without a common lock: a step is one such access.  *)
(***************************************************************************)
EXTENDS Integers, FiniteSets

CONSTANTS Calls,        \* goroutines of CallWithLifecycle or Activate
          Deactivators, \* goroutines of Deactivate or of a timer that fired
          Nobody,       \* holder of a free lock
          IdleTimeout,  \* TRUE: idleTimeout is set
          Overruns      \* TRUE: a call may outlast the graceful window

Actors == Calls \cup Deactivators

ASSUME LifecycleAssumption ==
  /\ IsFiniteSet(Calls)
  /\ Calls \cap Deactivators = {}
  /\ Nobody \notin Actors
  /\ IdleTimeout \in BOOLEAN
  /\ Overruns \in BOOLEAN

VARIABLES state,      \* the status of the service
          hasSvc,     \* svc is not nil
          refCount,   \* the calls that hold a reference
          timerArmed, \* an idle timer is set and has not fired
          permit,     \* the call in the channel activateCh
          mu,         \* the deactivator that holds mu
          pc

vars == <<state, hasSvc, refCount, timerArmed, permit, mu, pc>>

Goes(a, from, to) == pc[a] = from /\ pc' = [pc EXCEPT ![a] = to]

States == {"inactive", "activating", "active", "deactivating"}

\* A call that has a reference: acquire has counted it, release has not.
CountedPCs == {"pausing", "reading", "calling", "releasing"}

PCs == CountedPCs \cup
       {"idle", "competing", "waiting", "checking", "starting", "building",
        "publishing", "arming", "activated", "failed", "acquiring", "counting", "rearming",
        "fired", "deciding", "claiming", "standing by", "stopping", "draining", "drained",
        "clearing"}

Init ==
  /\ state = "inactive"
  /\ hasSvc = FALSE
  /\ refCount = 0
  /\ timerArmed = FALSE
  /\ permit = Nobody
  /\ mu = Nobody
  /\ pc = [a \in Actors |-> "idle"]

-----------------------------------------------------------------------------
(* ensureActive                                                            *)

Enter(c) ==
  /\ Goes(c, "idle", IF state = "active" THEN "acquiring" ELSE "competing")
  /\ UNCHANGED <<state, hasSvc, refCount, timerArmed, permit, mu>>

\* The channel has room for one: who finds it full waits for the state.
Compete(c) ==
  /\ \/ permit = Nobody /\ permit' = c /\ Goes(c, "competing", "checking")
     \/ permit # Nobody /\ UNCHANGED permit /\ Goes(c, "competing", "waiting")
  /\ UNCHANGED <<state, hasSvc, refCount, timerArmed, mu>>

\* waitForActive: active is seen, or the context or the two seconds end.
WaitForActive(c) ==
  /\ \/ state = "active" /\ Goes(c, "waiting", "acquiring")
     \/ Goes(c, "waiting", "idle")
  /\ UNCHANGED <<state, hasSvc, refCount, timerArmed, permit, mu>>

Recheck(c) ==
  /\ Goes(c, "checking", CASE state = "active" -> "activated"
                           [] state = "deactivating" -> "failed"
                           [] OTHER -> "starting")
  /\ UNCHANGED <<state, hasSvc, refCount, timerArmed, permit, mu>>

Activating(c) ==
  /\ Goes(c, "starting", "building")
  /\ state' = "activating"
  /\ UNCHANGED <<hasSvc, refCount, timerArmed, permit, mu>>

\* Mutant: an error of the factory returns without a reset of the state.
BuildFailsAsItIs(c) ==
  /\ Goes(c, "building", "failed")
  /\ UNCHANGED <<state, hasSvc, refCount, timerArmed, permit, mu>>

\* The factory or Init fails.
BuildFails(c) ==
  /\ Goes(c, "building", "failed")
  /\ state' = "inactive"
  /\ UNCHANGED <<hasSvc, refCount, timerArmed, permit, mu>>

BuildSucceeds(c) ==
  /\ Goes(c, "building", "publishing")
  /\ hasSvc' = TRUE
  /\ UNCHANGED <<state, refCount, timerArmed, permit, mu>>

Publish(c) ==
  /\ Goes(c, "publishing", "arming")
  /\ state' = "active"
  /\ UNCHANGED <<hasSvc, refCount, timerArmed, permit, mu>>

resetIdleTimer == timerArmed' = (timerArmed \/ IdleTimeout)

ArmTimer(c) ==
  /\ Goes(c, "arming", "activated")
  /\ resetIdleTimer
  /\ UNCHANGED <<state, hasSvc, refCount, permit, mu>>

\* The deferred receive from activateCh, and the return.
LeavePermit(c) ==
  /\ Goes(c, "activated", "acquiring") \/ Goes(c, "failed", "idle")
  /\ permit' = Nobody
  /\ UNCHANGED <<state, hasSvc, refCount, timerArmed, mu>>

-----------------------------------------------------------------------------
(* CallWithLifecycle after ensureActive; Activate returns there.           *)

Return(c) ==
  /\ Goes(c, "acquiring", "idle")
  /\ UNCHANGED <<state, hasSvc, refCount, timerArmed, permit, mu>>

\* acquire
CheckActive(c) ==
  /\ Goes(c, "acquiring", IF state = "active" THEN "counting" ELSE "idle")
  /\ UNCHANGED <<state, hasSvc, refCount, timerArmed, permit, mu>>

Count(c) ==
  /\ Goes(c, "counting", "pausing")
  /\ refCount' = refCount + 1
  /\ UNCHANGED <<state, hasSvc, timerArmed, permit, mu>>

stopIdleTimer(c) ==
  /\ Goes(c, "pausing", "reading")
  /\ timerArmed' = FALSE
  /\ UNCHANGED <<state, hasSvc, refCount, permit, mu>>

\* Mutant: the error path is left before release is deferred.
ReadServiceLeaks(c) ==
  /\ Goes(c, "reading", IF hasSvc THEN "calling" ELSE "idle")
  /\ UNCHANGED <<state, hasSvc, refCount, timerArmed, permit, mu>>

\* Mutant: the error path releases, and the deferred release does so again.
ReadServiceReleases(c) ==
  /\ Goes(c, "reading", IF hasSvc THEN "calling" ELSE "releasing")
  /\ refCount' = IF hasSvc THEN refCount ELSE refCount - 1
  /\ UNCHANGED <<state, hasSvc, timerArmed, permit, mu>>

\* The call fails when svc is nil.
ReadService(c) ==
  /\ Goes(c, "reading", IF hasSvc THEN "calling" ELSE "releasing")
  /\ UNCHANGED <<state, hasSvc, refCount, timerArmed, permit, mu>>

CallReturns(c) ==
  /\ Goes(c, "calling", "releasing")
  /\ UNCHANGED <<state, hasSvc, refCount, timerArmed, permit, mu>>

\* Mutant: a release that leaves one reference arms the timer.
ReleaseEarly(c) ==
  /\ refCount' = refCount - 1
  /\ Goes(c, "releasing", IF refCount' = 1 /\ IdleTimeout THEN "rearming" ELSE "idle")
  /\ UNCHANGED <<state, hasSvc, timerArmed, permit, mu>>

\* release
Release(c) ==
  /\ refCount' = refCount - 1
  /\ Goes(c, "releasing", IF refCount' <= 0 /\ IdleTimeout THEN "rearming" ELSE "idle")
  /\ UNCHANGED <<state, hasSvc, timerArmed, permit, mu>>

Rearm(c) ==
  /\ Goes(c, "rearming", "idle")
  /\ resetIdleTimer
  /\ UNCHANGED <<state, hasSvc, refCount, permit, mu>>

-----------------------------------------------------------------------------
(* deactivate                                                              *)

\* The timer fires in a goroutine of its own, which Stop reaches no more.
TimerFires(d) ==
  /\ timerArmed
  /\ Goes(d, "idle", "fired")
  /\ timerArmed' = FALSE
  /\ UNCHANGED <<state, hasSvc, refCount, permit, mu>>

CheckIdle(d) ==
  /\ Goes(d, "fired", IF refCount <= 0 THEN "deciding" ELSE "idle")
  /\ UNCHANGED <<state, hasSvc, refCount, timerArmed, permit, mu>>

Deactivate(d) ==
  /\ Goes(d, "idle", "deciding")
  /\ UNCHANGED <<state, hasSvc, refCount, timerArmed, permit, mu>>

\* The state is read and set under mu, which calls do not take.
Decide(d) ==
  /\ mu = Nobody
  /\ \/ state = "inactive" /\ Goes(d, "deciding", "idle") /\ UNCHANGED mu
     \/ state = "deactivating" /\ Goes(d, "deciding", "standing by") /\ UNCHANGED mu
     \/ /\ state \in {"activating", "active"}
        /\ Goes(d, "deciding", "claiming")
        /\ mu' = d
  /\ UNCHANGED <<state, hasSvc, refCount, timerArmed, permit>>

Claim(d) ==
  /\ Goes(d, "claiming", "stopping")
  /\ state' = "deactivating"
  /\ mu' = Nobody
  /\ UNCHANGED <<hasSvc, refCount, timerArmed, permit>>

StandBy(d) ==
  /\ state # "deactivating"
  /\ Goes(d, "standing by", "idle")
  /\ UNCHANGED <<state, hasSvc, refCount, timerArmed, permit, mu>>

StopTimer(d) ==
  /\ Goes(d, "stopping", "draining")
  /\ timerArmed' = FALSE
  /\ UNCHANGED <<state, hasSvc, refCount, permit, mu>>

\* Mutant: a service that did not drain in time is left to its calls.
DrainOrGiveUp(d) ==
  /\ Goes(d, "draining", IF refCount <= 0 THEN "drained" ELSE "idle")
  /\ UNCHANGED <<state, hasSvc, refCount, timerArmed, permit, mu>>

\* No reference is left, or the graceful window ends.
Drain(d) ==
  /\ refCount <= 0 \/ Overruns
  /\ Goes(d, "draining", "drained")
  /\ UNCHANGED <<state, hasSvc, refCount, timerArmed, permit, mu>>

Inactive(d) ==
  /\ Goes(d, "drained", "clearing")
  /\ state' = "inactive"
  /\ UNCHANGED <<hasSvc, refCount, timerArmed, permit, mu>>

ClearService(d) ==
  /\ Goes(d, "clearing", "idle")
  /\ hasSvc' = FALSE
  /\ UNCHANGED <<state, refCount, timerArmed, permit, mu>>

-----------------------------------------------------------------------------
EnsureActive(c) == \/ Compete(c) \/ WaitForActive(c) \/ Recheck(c) \/ Activating(c)
                   \/ BuildFails(c) \/ BuildSucceeds(c) \/ Publish(c) \/ ArmTimer(c)
                   \/ LeavePermit(c)

Call(c) == \/ Return(c) \/ CheckActive(c) \/ Count(c) \/ stopIdleTimer(c)
           \/ ReadService(c) \/ CallReturns(c) \/ Release(c) \/ Rearm(c)

deactivate(d) == \/ CheckIdle(d) \/ Decide(d) \/ Claim(d) \/ StandBy(d) \/ StopTimer(d)
                 \/ Drain(d) \/ Inactive(d) \/ ClearService(d)

Next == \/ \E c \in Calls : Enter(c) \/ EnsureActive(c) \/ Call(c)
        \/ \E d \in Deactivators : TimerFires(d) \/ Deactivate(d) \/ deactivate(d)

Spec == Init /\ [][Next]_vars

\* Goroutines are scheduled, builds and calls return, a timer fires.
Fairness == /\ \A c \in Calls : WF_vars(EnsureActive(c) \/ Call(c))
            /\ \A d \in Deactivators : WF_vars(deactivate(d))
            /\ WF_vars(\E d \in Deactivators : TimerFires(d))

FairSpec == Spec /\ Fairness

-----------------------------------------------------------------------------
(* Properties.                                                             *)

TypeOK ==
  /\ state \in States
  /\ hasSvc \in BOOLEAN
  /\ refCount \in Nat
  /\ timerArmed \in BOOLEAN
  /\ permit \in Calls \cup {Nobody}
  /\ mu \in Deactivators \cup {Nobody}
  /\ pc \in [Actors -> PCs]

(* A service is never stuck on its way: whoever interferes, "activating"    *)
(* has a call that builds it and "deactivating" a goroutine that ends it,   *)
(* although both write the state without a common lock (ensureActive,       *)
(* deactivate).                                                             *)
TransitionIsOwned ==
  /\ state = "activating" => \E c \in Calls : pc[c] \in {"building", "publishing"}
  /\ state = "deactivating" =>
       \E d \in Deactivators : pc[d] \in {"stopping", "draining", "drained"}

(* The reference count is the number of calls between acquire and release,  *)
(* on the error paths too.                                                  *)
Counted == {c \in Calls : pc[c] \in CountedPCs}
CountIsExact == refCount = Cardinality(Counted)

(* An active service that nobody uses has its idle timer armed, or somebody *)
(* who arms it or deactivates the service: none stays loaded because a stop *)
(* of the timer by one call overtook the reset by another.                  *)
OnTheWay == \/ \E c \in Calls : pc[c] \in CountedPCs \cup {"arming", "rearming"}
            \/ \E d \in Deactivators : pc[d] \in {"fired", "deciding", "claiming", "stopping",
                                                  "draining", "drained"}
IdleIsTimed == state = "active" /\ IdleTimeout => timerArmed \/ OnTheWay

(* A service that is called no more, however its last calls raced with a    *)
(* deactivation, ends inactive and its instance is given up (the idle       *)
(* timeout, deactivate).                                                    *)
Unused == \A c \in Calls : pc[c] = "idle"
UnusedIsDropped ==
  IdleTimeout => (<>[]Unused => <>[](state = "inactive" /\ ~hasSvc))

(* A call that holds a reference finds the service, as long as no call      *)
(* outlasts the graceful window: the comments say that a service is stopped *)
(* only after every reference is released.                                  *)
CallFindsService == \A c \in Calls : pc[c] = "reading" => hasSvc
=============================================================================
