----------------------------- MODULE WorkQueue -----------------------------
(***************************************************************************)
(* What a pool of workers over a table of tasks promises, whatever the     *)
(* table records about a task: a worker starts a task only by consuming a  *)
(* request to run it, a request is consumed by at most one worker, and     *)
(* after a restart nothing runs until it is requested again.               *)
(*                                                                         *)
(* A finishing worker writes the final status of its task over whatever is *)
(* there, so a request that arrived while the task was running may be      *)
(* swallowed: Finish says so, and nothing else may lose a request except   *)
(* Withdraw (a cancellation or a removal) and Restart.                     *)
(***************************************************************************)
CONSTANTS Tasks,     \* the tasks
          Workers,   \* the worker goroutines
          NoTask     \* what an idle worker executes

VARIABLES requested,   \* the tasks a worker may start
          executing    \* the task each worker executes

absVars == <<requested, executing>>

NothingRuns == [w \in Workers |-> NoTask]

AbsInit == requested = {} /\ executing = NothingRuns

Request(t) == /\ requested' = requested \cup {t}
              /\ UNCHANGED executing

Withdraw(S) == /\ requested' = requested \ S
               /\ UNCHANGED executing

Claim(w, t) == /\ executing[w] = NoTask
               /\ t \in requested
               /\ requested' = requested \ {t}
               /\ executing' = [executing EXCEPT ![w] = t]

Finish(w) == /\ executing[w] # NoTask
             /\ executing' = [executing EXCEPT ![w] = NoTask]
             /\ requested' \in {requested, requested \ {executing[w]}}

Forget == requested' = {} /\ executing' = NothingRuns

AbsNext == \/ \E t \in Tasks : Request(t)
           \/ \E S \in SUBSET Tasks : Withdraw(S)
           \/ \E w \in Workers, t \in Tasks : Claim(w, t)
           \/ \E w \in Workers : Finish(w)
           \/ Forget

AbsSpec == AbsInit /\ [][AbsNext]_absVars
=============================================================================
