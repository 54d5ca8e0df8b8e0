----------------------- MODULE ServiceLifecycleProofs -----------------------
(***************************************************************************)
(* Proofs about ServiceLifecycle, for any number of calls and of           *)
(* goroutines that deactivate, with or without an idle timer and whether   *)
(* or not calls outlast the graceful window.                               *)
(***************************************************************************)
EXTENDS ServiceLifecycle, FiniteSetTheorems, TLAPS

USE LifecycleAssumption DEF Actors

\* Types, but for the sign of the reference count, which follows from
\* CountIsExact.
Types ==
  /\ state \in States
  /\ hasSvc \in BOOLEAN
  /\ refCount \in Int
  /\ timerArmed \in BOOLEAN
  /\ permit \in Calls \cup {Nobody}
  /\ mu \in Deactivators \cup {Nobody}
  /\ pc \in [Actors -> PCs]

\* Each of the three invariants is kept with those before it.
Inv == Types /\ TransitionIsOwned /\ CountIsExact /\ IdleIsTimed

CallStep(c) == Enter(c) \/ EnsureActive(c) \/ Call(c)
DeactivatorStep(d) == TimerFires(d) \/ Deactivate(d) \/ deactivate(d)

LEMMA InitInv == Init => Inv
<1> SUFFICES ASSUME Init PROVE Inv
  OBVIOUS
<1>1. Types
  <2>1. refCount \in Int /\ state \in States
    BY DEF Init, States
  <2>2. pc \in [Actors -> PCs]
    BY DEF Init, PCs
  <2> QED
    BY <2>1, <2>2 DEF Init, Types
<1>2. Counted = {}
  BY DEF Init, Counted, CountedPCs
<1>3. CountIsExact
  BY <1>2, FS_EmptySet DEF Init, CountIsExact
<1> QED
  BY <1>1, <1>3 DEF Init, Inv, TransitionIsOwned, IdleIsTimed

-----------------------------------------------------------------------------
(* Types and transitions.                                                  *)

\* Every step keeps the types.
LEMMA CallTypes ==
  ASSUME Types, NEW c \in Calls, CallStep(c)
  PROVE  Types'
<1>1. CASE Enter(c)
  BY <1>1 DEF Enter, Goes, Types, States, PCs, CountedPCs, resetIdleTimer
<1>2. CASE Compete(c)
  BY <1>2 DEF Compete, Goes, Types, States, PCs, CountedPCs, resetIdleTimer
<1>3. CASE WaitForActive(c)
  BY <1>3 DEF WaitForActive, Goes, Types, States, PCs, CountedPCs, resetIdleTimer
<1>4. CASE Recheck(c)
  BY <1>4 DEF Recheck, Goes, Types, States, PCs, CountedPCs, resetIdleTimer
<1>5. CASE Activating(c)
  BY <1>5 DEF Activating, Goes, Types, States, PCs, CountedPCs, resetIdleTimer
<1>6. CASE BuildFails(c)
  BY <1>6 DEF BuildFails, Goes, Types, States, PCs, CountedPCs, resetIdleTimer
<1>7. CASE BuildSucceeds(c)
  BY <1>7 DEF BuildSucceeds, Goes, Types, States, PCs, CountedPCs, resetIdleTimer
<1>8. CASE Publish(c)
  BY <1>8 DEF Publish, Goes, Types, States, PCs, CountedPCs, resetIdleTimer
<1>9. CASE ArmTimer(c)
  BY <1>9 DEF ArmTimer, Goes, Types, States, PCs, CountedPCs, resetIdleTimer
<1>10. CASE LeavePermit(c)
  BY <1>10 DEF LeavePermit, Goes, Types, States, PCs, CountedPCs, resetIdleTimer
<1>11. CASE Return(c)
  BY <1>11 DEF Return, Goes, Types, States, PCs, CountedPCs, resetIdleTimer
<1>12. CASE CheckActive(c)
  BY <1>12 DEF CheckActive, Goes, Types, States, PCs, CountedPCs, resetIdleTimer
<1>13. CASE Count(c)
  <2>1. refCount' \in Int
    BY <1>13 DEF Count, Types
  <2>2. pc' \in [Actors -> PCs]
    BY <1>13 DEF Count, Goes, Types, PCs, CountedPCs
  <2> QED
    BY <1>13, <2>1, <2>2 DEF Count, Types
<1>14. CASE stopIdleTimer(c)
  BY <1>14 DEF stopIdleTimer, Goes, Types, States, PCs, CountedPCs, resetIdleTimer
<1>15. CASE ReadService(c)
  BY <1>15 DEF ReadService, Goes, Types, States, PCs, CountedPCs, resetIdleTimer
<1>16. CASE CallReturns(c)
  BY <1>16 DEF CallReturns, Goes, Types, States, PCs, CountedPCs, resetIdleTimer
<1>17. CASE Release(c)
  <2>1. \/ pc' = [pc EXCEPT ![c] = "rearming"]
        \/ pc' = [pc EXCEPT ![c] = "idle"]
    BY <1>17 DEF Release, Goes
  <2>2. pc' \in [Actors -> PCs]
    BY <2>1 DEF Types, PCs
  <2>3. refCount' \in Int
    BY <1>17 DEF Release, Types
  <2> QED
    BY <1>17, <2>2, <2>3 DEF Release, Types
<1>18. CASE Rearm(c)
  BY <1>18 DEF Rearm, Goes, Types, States, PCs, CountedPCs, resetIdleTimer
<1> QED
  BY <1>1, <1>2, <1>3, <1>4, <1>5, <1>6, <1>7, <1>8, <1>9, <1>10, <1>11, <1>12, <1>13, <1>14, <1>15, <1>16, <1>17, <1>18
  DEF CallStep, EnsureActive, Call

LEMMA DeactivatorTypes ==
  ASSUME Types, NEW d \in Deactivators, DeactivatorStep(d)
  PROVE  Types'
<1>1. CASE TimerFires(d)
  BY <1>1 DEF TimerFires, Goes, Types, States, PCs, CountedPCs, resetIdleTimer
<1>2. CASE Deactivate(d)
  BY <1>2 DEF Deactivate, Goes, Types, States, PCs, CountedPCs, resetIdleTimer
<1>3. CASE CheckIdle(d)
  BY <1>3 DEF CheckIdle, Goes, Types, States, PCs, CountedPCs, resetIdleTimer
<1>4. CASE Decide(d)
  BY <1>4 DEF Decide, Goes, Types, States, PCs, CountedPCs, resetIdleTimer
<1>5. CASE Claim(d)
  BY <1>5 DEF Claim, Goes, Types, States, PCs, CountedPCs, resetIdleTimer
<1>6. CASE StandBy(d)
  BY <1>6 DEF StandBy, Goes, Types, States, PCs, CountedPCs, resetIdleTimer
<1>7. CASE StopTimer(d)
  BY <1>7 DEF StopTimer, Goes, Types, States, PCs, CountedPCs, resetIdleTimer
<1>8. CASE Drain(d)
  BY <1>8 DEF Drain, Goes, Types, States, PCs, CountedPCs, resetIdleTimer
<1>9. CASE Inactive(d)
  BY <1>9 DEF Inactive, Goes, Types, States, PCs, CountedPCs, resetIdleTimer
<1>10. CASE ClearService(d)
  BY <1>10 DEF ClearService, Goes, Types, States, PCs, CountedPCs, resetIdleTimer
<1> QED
  BY <1>1, <1>2, <1>3, <1>4, <1>5, <1>6, <1>7, <1>8, <1>9, <1>10
  DEF DeactivatorStep, deactivate

\* Whoever leaves the building or the deactivation writes the state.
LEMMA CallOwned ==
  ASSUME Types, TransitionIsOwned, NEW c \in Calls, CallStep(c)
  PROVE  TransitionIsOwned'
<1>1. CASE Enter(c)
  BY <1>1 DEF Enter, Goes, Types, TransitionIsOwned
<1>2. CASE Compete(c)
  BY <1>2 DEF Compete, Goes, Types, TransitionIsOwned
<1>3. CASE WaitForActive(c)
  BY <1>3 DEF WaitForActive, Goes, Types, TransitionIsOwned
<1>4. CASE Recheck(c)
  BY <1>4 DEF Recheck, Goes, Types, TransitionIsOwned
<1>5. CASE Activating(c)
  BY <1>5 DEF Activating, Goes, Types, TransitionIsOwned
<1>6. CASE BuildFails(c)
  BY <1>6 DEF BuildFails, Goes, Types, TransitionIsOwned
<1>7. CASE BuildSucceeds(c)
  BY <1>7 DEF BuildSucceeds, Goes, Types, TransitionIsOwned
<1>8. CASE Publish(c)
  BY <1>8 DEF Publish, Goes, Types, TransitionIsOwned
<1>9. CASE ArmTimer(c)
  BY <1>9 DEF ArmTimer, Goes, Types, TransitionIsOwned
<1>10. CASE LeavePermit(c)
  BY <1>10 DEF LeavePermit, Goes, Types, TransitionIsOwned
<1>11. CASE Return(c)
  BY <1>11 DEF Return, Goes, Types, TransitionIsOwned
<1>12. CASE CheckActive(c)
  BY <1>12 DEF CheckActive, Goes, Types, TransitionIsOwned
<1>13. CASE Count(c)
  BY <1>13 DEF Count, Goes, Types, TransitionIsOwned
<1>14. CASE stopIdleTimer(c)
  BY <1>14 DEF stopIdleTimer, Goes, Types, TransitionIsOwned
<1>15. CASE ReadService(c)
  BY <1>15 DEF ReadService, Goes, Types, TransitionIsOwned
<1>16. CASE CallReturns(c)
  BY <1>16 DEF CallReturns, Goes, Types, TransitionIsOwned
<1>17. CASE Release(c)
  BY <1>17 DEF Release, Goes, Types, TransitionIsOwned
<1>18. CASE Rearm(c)
  BY <1>18 DEF Rearm, Goes, Types, TransitionIsOwned
<1> QED
  BY <1>1, <1>2, <1>3, <1>4, <1>5, <1>6, <1>7, <1>8, <1>9, <1>10, <1>11, <1>12, <1>13, <1>14, <1>15, <1>16, <1>17, <1>18
  DEF CallStep, EnsureActive, Call

LEMMA DeactivatorOwned ==
  ASSUME Types, TransitionIsOwned, NEW d \in Deactivators, DeactivatorStep(d)
  PROVE  TransitionIsOwned'
<1>1. CASE TimerFires(d)
  BY <1>1 DEF TimerFires, Goes, Types, TransitionIsOwned
<1>2. CASE Deactivate(d)
  BY <1>2 DEF Deactivate, Goes, Types, TransitionIsOwned
<1>3. CASE CheckIdle(d)
  BY <1>3 DEF CheckIdle, Goes, Types, TransitionIsOwned
<1>4. CASE Decide(d)
  BY <1>4 DEF Decide, Goes, Types, TransitionIsOwned
<1>5. CASE Claim(d)
  BY <1>5 DEF Claim, Goes, Types, TransitionIsOwned
<1>6. CASE StandBy(d)
  BY <1>6 DEF StandBy, Goes, Types, TransitionIsOwned
<1>7. CASE StopTimer(d)
  BY <1>7 DEF StopTimer, Goes, Types, TransitionIsOwned
<1>8. CASE Drain(d)
  BY <1>8 DEF Drain, Goes, Types, TransitionIsOwned
<1>9. CASE Inactive(d)
  BY <1>9 DEF Inactive, Goes, Types, TransitionIsOwned
<1>10. CASE ClearService(d)
  BY <1>10 DEF ClearService, Goes, Types, TransitionIsOwned
<1> QED
  BY <1>1, <1>2, <1>3, <1>4, <1>5, <1>6, <1>7, <1>8, <1>9, <1>10
  DEF DeactivatorStep, deactivate

-----------------------------------------------------------------------------
(* The reference count.                                                    *)

LEMMA CountedFinite == IsFiniteSet(Counted)
<1>1. Counted \subseteq Calls
  BY DEF Counted
<1> QED
  BY <1>1, FS_Subset

\* A positive count has a call behind it.
LEMMA PositiveCount == ASSUME CountIsExact, refCount > 0
                       PROVE  \E c \in Calls : pc[c] \in CountedPCs
<1>1. Counted # {}
  BY FS_EmptySet DEF CountIsExact
<1> QED
  BY <1>1 DEF Counted

LEMMA CallCounts ==
  ASSUME Types, CountIsExact, NEW c \in Calls, CallStep(c)
  PROVE  CountIsExact'
<1>1. CASE Enter(c)
  <2>1. Counted' = Counted
    BY <1>1 DEF Enter, Goes, Types, Counted, CountedPCs
  <2> QED
    BY <1>1, <2>1 DEF Enter, CountIsExact
<1>2. CASE Compete(c)
  <2>1. Counted' = Counted
    BY <1>2 DEF Compete, Goes, Types, Counted, CountedPCs
  <2> QED
    BY <1>2, <2>1 DEF Compete, CountIsExact
<1>3. CASE WaitForActive(c)
  <2>1. Counted' = Counted
    BY <1>3 DEF WaitForActive, Goes, Types, Counted, CountedPCs
  <2> QED
    BY <1>3, <2>1 DEF WaitForActive, CountIsExact
<1>4. CASE Recheck(c)
  <2>1. Counted' = Counted
    BY <1>4 DEF Recheck, Goes, Types, Counted, CountedPCs
  <2> QED
    BY <1>4, <2>1 DEF Recheck, CountIsExact
<1>5. CASE Activating(c)
  <2>1. Counted' = Counted
    BY <1>5 DEF Activating, Goes, Types, Counted, CountedPCs
  <2> QED
    BY <1>5, <2>1 DEF Activating, CountIsExact
<1>6. CASE BuildFails(c)
  <2>1. Counted' = Counted
    BY <1>6 DEF BuildFails, Goes, Types, Counted, CountedPCs
  <2> QED
    BY <1>6, <2>1 DEF BuildFails, CountIsExact
<1>7. CASE BuildSucceeds(c)
  <2>1. Counted' = Counted
    BY <1>7 DEF BuildSucceeds, Goes, Types, Counted, CountedPCs
  <2> QED
    BY <1>7, <2>1 DEF BuildSucceeds, CountIsExact
<1>8. CASE Publish(c)
  <2>1. Counted' = Counted
    BY <1>8 DEF Publish, Goes, Types, Counted, CountedPCs
  <2> QED
    BY <1>8, <2>1 DEF Publish, CountIsExact
<1>9. CASE ArmTimer(c)
  <2>1. Counted' = Counted
    BY <1>9 DEF ArmTimer, Goes, Types, Counted, CountedPCs
  <2> QED
    BY <1>9, <2>1 DEF ArmTimer, CountIsExact
<1>10. CASE LeavePermit(c)
  <2>1. Counted' = Counted
    BY <1>10 DEF LeavePermit, Goes, Types, Counted, CountedPCs
  <2> QED
    BY <1>10, <2>1 DEF LeavePermit, CountIsExact
<1>11. CASE Return(c)
  <2>1. Counted' = Counted
    BY <1>11 DEF Return, Goes, Types, Counted, CountedPCs
  <2> QED
    BY <1>11, <2>1 DEF Return, CountIsExact
<1>12. CASE CheckActive(c)
  <2>1. Counted' = Counted
    BY <1>12 DEF CheckActive, Goes, Types, Counted, CountedPCs
  <2> QED
    BY <1>12, <2>1 DEF CheckActive, CountIsExact
<1>13. CASE Count(c)
  <2>1. Counted' = Counted \cup {c} /\ c \notin Counted
    BY <1>13 DEF Count, Goes, Types, Counted, CountedPCs
  <2>2. Cardinality(Counted') = Cardinality(Counted) + 1
    BY <2>1, CountedFinite, FS_AddElement
  <2> QED
    BY <1>13, <2>2 DEF Count, CountIsExact
<1>14. CASE stopIdleTimer(c)
  <2>1. Counted' = Counted
    BY <1>14 DEF stopIdleTimer, Goes, Types, Counted, CountedPCs
  <2> QED
    BY <1>14, <2>1 DEF stopIdleTimer, CountIsExact
<1>15. CASE ReadService(c)
  <2>1. Counted' = Counted
    BY <1>15 DEF ReadService, Goes, Types, Counted, CountedPCs
  <2> QED
    BY <1>15, <2>1 DEF ReadService, CountIsExact
<1>16. CASE CallReturns(c)
  <2>1. Counted' = Counted
    BY <1>16 DEF CallReturns, Goes, Types, Counted, CountedPCs
  <2> QED
    BY <1>16, <2>1 DEF CallReturns, CountIsExact
<1>17. CASE Release(c)
  <2>1. Counted' = Counted \ {c} /\ c \in Counted
    BY <1>17 DEF Release, Goes, Types, Counted, CountedPCs
  <2>2. Cardinality(Counted') = Cardinality(Counted) - 1
    BY <2>1, CountedFinite, FS_RemoveElement
  <2> QED
    BY <1>17, <2>2 DEF Release, CountIsExact
<1>18. CASE Rearm(c)
  <2>1. Counted' = Counted
    BY <1>18 DEF Rearm, Goes, Types, Counted, CountedPCs
  <2> QED
    BY <1>18, <2>1 DEF Rearm, CountIsExact
<1> QED
  BY <1>1, <1>2, <1>3, <1>4, <1>5, <1>6, <1>7, <1>8, <1>9, <1>10, <1>11, <1>12, <1>13, <1>14, <1>15, <1>16, <1>17, <1>18
  DEF CallStep, EnsureActive, Call

LEMMA DeactivatorCounts ==
  ASSUME Types, CountIsExact, NEW d \in Deactivators, DeactivatorStep(d)
  PROVE  CountIsExact'
<1>1. CASE TimerFires(d)
  <2>1. Counted' = Counted
    BY <1>1 DEF TimerFires, Goes, Types, Counted, CountedPCs
  <2> QED
    BY <1>1, <2>1 DEF TimerFires, CountIsExact
<1>2. CASE Deactivate(d)
  <2>1. Counted' = Counted
    BY <1>2 DEF Deactivate, Goes, Types, Counted, CountedPCs
  <2> QED
    BY <1>2, <2>1 DEF Deactivate, CountIsExact
<1>3. CASE CheckIdle(d)
  <2>1. Counted' = Counted
    BY <1>3 DEF CheckIdle, Goes, Types, Counted, CountedPCs
  <2> QED
    BY <1>3, <2>1 DEF CheckIdle, CountIsExact
<1>4. CASE Decide(d)
  <2>1. Counted' = Counted
    BY <1>4 DEF Decide, Goes, Types, Counted, CountedPCs
  <2> QED
    BY <1>4, <2>1 DEF Decide, CountIsExact
<1>5. CASE Claim(d)
  <2>1. Counted' = Counted
    BY <1>5 DEF Claim, Goes, Types, Counted, CountedPCs
  <2> QED
    BY <1>5, <2>1 DEF Claim, CountIsExact
<1>6. CASE StandBy(d)
  <2>1. Counted' = Counted
    BY <1>6 DEF StandBy, Goes, Types, Counted, CountedPCs
  <2> QED
    BY <1>6, <2>1 DEF StandBy, CountIsExact
<1>7. CASE StopTimer(d)
  <2>1. Counted' = Counted
    BY <1>7 DEF StopTimer, Goes, Types, Counted, CountedPCs
  <2> QED
    BY <1>7, <2>1 DEF StopTimer, CountIsExact
<1>8. CASE Drain(d)
  <2>1. Counted' = Counted
    BY <1>8 DEF Drain, Goes, Types, Counted, CountedPCs
  <2> QED
    BY <1>8, <2>1 DEF Drain, CountIsExact
<1>9. CASE Inactive(d)
  <2>1. Counted' = Counted
    BY <1>9 DEF Inactive, Goes, Types, Counted, CountedPCs
  <2> QED
    BY <1>9, <2>1 DEF Inactive, CountIsExact
<1>10. CASE ClearService(d)
  <2>1. Counted' = Counted
    BY <1>10 DEF ClearService, Goes, Types, Counted, CountedPCs
  <2> QED
    BY <1>10, <2>1 DEF ClearService, CountIsExact
<1> QED
  BY <1>1, <1>2, <1>3, <1>4, <1>5, <1>6, <1>7, <1>8, <1>9, <1>10
  DEF DeactivatorStep, deactivate

-----------------------------------------------------------------------------
(* The idle timer.                                                         *)

LEMMA PositiveCountNext == ASSUME CountIsExact', refCount' > 0
                           PROVE  \E c \in Calls : pc'[c] \in CountedPCs
<1>1. Counted' # {}
  BY FS_EmptySet DEF CountIsExact
<1> QED
  BY <1>1 DEF Counted

LEMMA CallTimed ==
  ASSUME Types, IdleIsTimed, Types', CountIsExact', NEW c \in Calls, CallStep(c)
  PROVE  IdleIsTimed'
<1>1. CASE Enter(c)
  BY <1>1 DEF Enter, Goes, Types, IdleIsTimed, OnTheWay, CountedPCs, resetIdleTimer
<1>2. CASE Compete(c)
  BY <1>2 DEF Compete, Goes, Types, IdleIsTimed, OnTheWay, CountedPCs, resetIdleTimer
<1>3. CASE WaitForActive(c)
  BY <1>3 DEF WaitForActive, Goes, Types, IdleIsTimed, OnTheWay, CountedPCs, resetIdleTimer
<1>4. CASE Recheck(c)
  BY <1>4 DEF Recheck, Goes, Types, IdleIsTimed, OnTheWay, CountedPCs, resetIdleTimer
<1>5. CASE Activating(c)
  BY <1>5 DEF Activating, Goes, Types, IdleIsTimed, OnTheWay, CountedPCs, resetIdleTimer
<1>6. CASE BuildFails(c)
  BY <1>6 DEF BuildFails, Goes, Types, IdleIsTimed, OnTheWay, CountedPCs, resetIdleTimer
<1>7. CASE BuildSucceeds(c)
  BY <1>7 DEF BuildSucceeds, Goes, Types, IdleIsTimed, OnTheWay, CountedPCs, resetIdleTimer
<1>8. CASE Publish(c)
  BY <1>8 DEF Publish, Goes, Types, IdleIsTimed, OnTheWay, CountedPCs, resetIdleTimer
<1>9. CASE ArmTimer(c)
  BY <1>9 DEF ArmTimer, Goes, Types, IdleIsTimed, OnTheWay, CountedPCs, resetIdleTimer
<1>10. CASE LeavePermit(c)
  BY <1>10 DEF LeavePermit, Goes, Types, IdleIsTimed, OnTheWay, CountedPCs, resetIdleTimer
<1>11. CASE Return(c)
  BY <1>11 DEF Return, Goes, Types, IdleIsTimed, OnTheWay, CountedPCs, resetIdleTimer
<1>12. CASE CheckActive(c)
  BY <1>12 DEF CheckActive, Goes, Types, IdleIsTimed, OnTheWay, CountedPCs, resetIdleTimer
<1>13. CASE Count(c)
  BY <1>13 DEF Count, Goes, Types, IdleIsTimed, OnTheWay, CountedPCs, resetIdleTimer
<1>14. CASE stopIdleTimer(c)
  BY <1>14 DEF stopIdleTimer, Goes, Types, IdleIsTimed, OnTheWay, CountedPCs, resetIdleTimer
<1>15. CASE ReadService(c)
  BY <1>15 DEF ReadService, Goes, Types, IdleIsTimed, OnTheWay, CountedPCs, resetIdleTimer
<1>16. CASE CallReturns(c)
  BY <1>16 DEF CallReturns, Goes, Types, IdleIsTimed, OnTheWay, CountedPCs, resetIdleTimer
<1>17. CASE Release(c)
  <2>1. CASE refCount' > 0
    BY <1>17, <2>1, PositiveCountNext DEF IdleIsTimed, OnTheWay
  <2>2. CASE ~(refCount' > 0)
    BY <1>17, <2>2 DEF Release, Goes, Types, IdleIsTimed, OnTheWay, CountedPCs, resetIdleTimer
  <2> QED
    BY <2>1, <2>2
<1>18. CASE Rearm(c)
  BY <1>18 DEF Rearm, Goes, Types, IdleIsTimed, OnTheWay, CountedPCs, resetIdleTimer
<1> QED
  BY <1>1, <1>2, <1>3, <1>4, <1>5, <1>6, <1>7, <1>8, <1>9, <1>10, <1>11, <1>12, <1>13, <1>14, <1>15, <1>16, <1>17, <1>18
  DEF CallStep, EnsureActive, Call

LEMMA DeactivatorTimed ==
  ASSUME Types, CountIsExact, IdleIsTimed, NEW d \in Deactivators, DeactivatorStep(d)
  PROVE  IdleIsTimed'
<1>1. CASE TimerFires(d)
  BY <1>1 DEF TimerFires, Goes, Types, IdleIsTimed, OnTheWay, CountedPCs, resetIdleTimer
<1>2. CASE Deactivate(d)
  BY <1>2 DEF Deactivate, Goes, Types, IdleIsTimed, OnTheWay, CountedPCs, resetIdleTimer
<1>3. CASE CheckIdle(d)
  <2>1. CASE refCount > 0
    <3>1. PICK c \in Calls : pc[c] \in CountedPCs
      BY <2>1, PositiveCount
    <3>2. pc'[c] = pc[c]
      BY <1>3 DEF CheckIdle, Goes, Types
    <3> QED
      BY <3>1, <3>2 DEF IdleIsTimed, OnTheWay
  <2>2. CASE ~(refCount > 0)
    BY <1>3, <2>2 DEF CheckIdle, Goes, Types, IdleIsTimed, OnTheWay, CountedPCs, resetIdleTimer
  <2> QED
    BY <2>1, <2>2
<1>4. CASE Decide(d)
  BY <1>4 DEF Decide, Goes, Types, IdleIsTimed, OnTheWay, CountedPCs, resetIdleTimer
<1>5. CASE Claim(d)
  BY <1>5 DEF Claim, Goes, Types, IdleIsTimed, OnTheWay, CountedPCs, resetIdleTimer
<1>6. CASE StandBy(d)
  BY <1>6 DEF StandBy, Goes, Types, IdleIsTimed, OnTheWay, CountedPCs, resetIdleTimer
<1>7. CASE StopTimer(d)
  BY <1>7 DEF StopTimer, Goes, Types, IdleIsTimed, OnTheWay, CountedPCs, resetIdleTimer
<1>8. CASE Drain(d)
  BY <1>8 DEF Drain, Goes, Types, IdleIsTimed, OnTheWay, CountedPCs, resetIdleTimer
<1>9. CASE Inactive(d)
  BY <1>9 DEF Inactive, Goes, Types, IdleIsTimed, OnTheWay, CountedPCs, resetIdleTimer
<1>10. CASE ClearService(d)
  BY <1>10 DEF ClearService, Goes, Types, IdleIsTimed, OnTheWay, CountedPCs, resetIdleTimer
<1> QED
  BY <1>1, <1>2, <1>3, <1>4, <1>5, <1>6, <1>7, <1>8, <1>9, <1>10
  DEF DeactivatorStep, deactivate

-----------------------------------------------------------------------------
(* The theorems.                                                           *)

LEMMA StepInv == Inv /\ [Next]_vars => Inv'
<1> SUFFICES ASSUME Inv, [Next]_vars PROVE Inv'
  OBVIOUS
<1>1. ASSUME NEW c \in Calls, CallStep(c) PROVE Inv'
  <2>1. Types' /\ TransitionIsOwned' /\ CountIsExact'
    BY <1>1, CallTypes, CallOwned, CallCounts DEF Inv
  <2> QED
    BY <1>1, <2>1, CallTimed DEF Inv
<1>2. ASSUME NEW d \in Deactivators, DeactivatorStep(d) PROVE Inv'
  BY <1>2, DeactivatorTypes, DeactivatorOwned, DeactivatorCounts, DeactivatorTimed DEF Inv
<1>3. CASE UNCHANGED vars
  BY <1>3 DEF vars, Inv, Types, TransitionIsOwned, CountIsExact, Counted, IdleIsTimed, OnTheWay
<1> QED
  BY <1>1, <1>2, <1>3 DEF Next, CallStep, DeactivatorStep

LEMMA Invariance == Spec => []Inv
BY InitInv, StepInv, PTL DEF Spec

LEMMA InvTypes == Inv => TypeOK
<1> SUFFICES ASSUME Inv PROVE refCount \in Nat
  BY DEF Inv, Types, TypeOK
<1> QED
  BY CountedFinite, FS_CardinalityType DEF Inv, CountIsExact

\* Types, and that the reference count never goes below zero (release).
THEOREM LifecycleTypeCorrect == Spec => []TypeOK
BY Invariance, InvTypes, PTL

\* No service is stuck in activating or deactivating without a goroutine
\* that will move it on (ensureActive, deactivate).
THEOREM TransitionOwned == Spec => []TransitionIsOwned
<1>1. Inv => TransitionIsOwned
  BY DEF Inv
<1> QED
  BY <1>1, Invariance, PTL

\* The count is that of the calls between acquire and release.
THEOREM CountExact == Spec => []CountIsExact
<1>1. Inv => CountIsExact
  BY DEF Inv
<1> QED
  BY <1>1, Invariance, PTL

\* No active service is left without a timer, a user or a deactivation
\* (resetIdleTimer, stopIdleTimer, release).
THEOREM IdleTimed == Spec => []IdleIsTimed
<1>1. Inv => IdleIsTimed
  BY DEF Inv
<1> QED
  BY <1>1, Invariance, PTL
=============================================================================
