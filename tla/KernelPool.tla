----------------------------- MODULE KernelPool -----------------------------
(***************************************************************************)
(* The worker pool of internal/kernel and its ledger: Submit records a job *)
(* in the ledger and puts it into a bounded channel, workers call the      *)
(* service and record the outcome, a failed call goes back into the        *)
(* channel from a goroutine of its own, Stop hands what is unfinished to   *)
(* the ledger, and Start restores it, in the same process or the next.     *)
(*                                                                         *)
(* A step is one access to the channel, to the ledger, or to the closed    *)
(* flag and the context; a record of the ledger is replaced atomically.    *)
(***************************************************************************)
EXTENDS Naturals, Sequences, FiniteSets

CONSTANTS Jobs,        \* the jobs, each with a trace id of its own
          Workers,     \* the worker goroutines
          NoJob,       \* what an idle worker holds
          QueueSize,   \* capacity of the channel
          MaxRetry,    \* MaxRetry of every job
          HasTimeout,  \* TRUE: JobTimeout is set
          UserCancels, \* TRUE: CancelJob is called
          MaxStarts    \* bound on Start

ASSUME PoolAssumption ==
  /\ NoJob \notin Jobs
  /\ QueueSize \in Nat \ {0}
  /\ MaxRetry \in Nat
  /\ HasTimeout \in BOOLEAN
  /\ UserCancels \in BOOLEAN
  /\ MaxStarts \in Nat

VARIABLES
  ledger,    \* the record of each job: status and attempts
  queue,     \* jobCh
  phase,     \* how far Start or Stop has come
  starts,    \* how often the pool was started
  toRestore, \* the envelopes Restore has yet to put back
  spc,       \* how far Submit of each job has come
  wpc,       \* what each worker does
  env,       \* the envelope each worker holds
  timedOut,  \* the workers whose JobTimeout has passed
  retriers,  \* the goroutines that put a failed job back
  \* what happened
  succeeded, \* the jobs a call of which returned without error
  fails,     \* how many calls of each job returned an error of their own
  cancelled, \* the jobs CancelJob was called for
  panicked   \* who sent on the closed channel

history == <<succeeded, fails, cancelled, panicked>>
vars == <<ledger, queue, phase, starts, toRestore, spc, wpc, env, timedOut, retriers, history>>

-----------------------------------------------------------------------------
Pending == {"submitted", "running"}
Terminal == {"done", "failed", "cancelled"}

\* An envelope is known by its job and by who made it: Submit (0), or the
\* Restore of the Start with that number.
Envelope == [job : Jobs, attempts : Nat, made : Nat]
NoEnvelope == [job |-> NoJob, attempts |-> 0, made |-> 0]
Retrier == [env : Envelope, at : {"new", "saving", "sending", "blocked"}]

Phases == {"off",        \* never started in this process
           "starting",   \* the workers run, Restore has not read the ledger
           "restoring", "up",
           "draining",   \* StopWithTimeout: closed, the grace has passed
           "closing",    \* closed, the queue is drained or left to the workers
           "cancelling", \* the context of the pool is cancelled
           "closed",     \* jobCh is closed
           "stopped"}    \* every worker has left
Open == phase \in {"starting", "restoring", "up"}
CtxDone == phase \in {"cancelling", "closed", "stopped"}
ChanClosed == phase \in {"closed", "stopped"}
Room == Len(queue) < QueueSize

Init ==
  /\ ledger = [j \in Jobs |-> [status |-> "none", attempts |-> 0]]
  /\ queue = <<>>
  /\ phase = "off"
  /\ starts = 0
  /\ toRestore = {}
  /\ spc = [j \in Jobs |-> "new"]
  /\ wpc = [w \in Workers |-> "exited"]
  /\ env = [w \in Workers |-> NoEnvelope]
  /\ timedOut = {}
  /\ retriers = {}
  /\ succeeded = {}
  /\ fails = [j \in Jobs |-> 0]
  /\ cancelled = {}
  /\ panicked = {}

-----------------------------------------------------------------------------
(* The ledger.                                                             *)

MarkStatus(j, s) == ledger' = [ledger EXCEPT ![j].status = s]

\* SaveJob of an unfinished job, with the attempts its envelope has counted.
SaveJob(e) == ledger' = [ledger EXCEPT ![e.job] =
                           [status |-> "submitted", attempts |-> e.attempts]]

\* CancelJob marks the record, whatever it says, and reaches no worker.
CancelJob(j) ==
  /\ UserCancels
  /\ ledger[j].status # "none"
  /\ MarkStatus(j, "cancelled")
  /\ cancelled' = cancelled \cup {j}
  /\ UNCHANGED <<queue, phase, starts, toRestore, spc, wpc, env, timedOut, retriers,
                 succeeded, fails, panicked>>

-----------------------------------------------------------------------------
(* Submit.                                                                 *)

SubmitChecks(j) ==
  /\ spc[j] = "new"
  /\ spc' = [spc EXCEPT ![j] = IF Open THEN "checked" ELSE "rejected"]
  /\ UNCHANGED <<ledger, queue, phase, starts, toRestore, wpc, env, timedOut, retriers, history>>

\* ledgerOnSubmit
SubmitSaves(j) ==
  /\ spc[j] = "checked"
  /\ ledger' = [ledger EXCEPT ![j] = [status |-> "submitted", attempts |-> 0]]
  /\ spc' = [spc EXCEPT ![j] = "sending"]
  /\ UNCHANGED <<queue, phase, starts, toRestore, wpc, env, timedOut, retriers, history>>

\* The select of Submit.  A sender that is already blocked when the context
\* is cancelled is woken by that (CancelContext); one that arrives when the
\* channel is closed as well may pick the send, and panics.
SubmitSends(j) ==
  /\ \/ /\ spc[j] \in {"sending", "blocked"}
        /\ Room /\ ~ChanClosed
        /\ queue' = Append(queue, [job |-> j, attempts |-> 0, made |-> 0])
        /\ spc' = [spc EXCEPT ![j] = "accepted"]
        /\ UNCHANGED panicked
     \/ /\ spc[j] = "sending"
        /\ ~Room /\ ~CtxDone
        /\ spc' = [spc EXCEPT ![j] = "blocked"]
        /\ UNCHANGED <<queue, panicked>>
     \/ /\ spc[j] = "sending"
        /\ CtxDone
        /\ spc' = [spc EXCEPT ![j] = "rejected"]
        /\ UNCHANGED <<queue, panicked>>
     \/ /\ spc[j] = "sending"
        /\ ChanClosed
        /\ spc' = [spc EXCEPT ![j] = "rejected"]
        /\ panicked' = panicked \cup {"submit"}
        /\ UNCHANGED queue
  /\ UNCHANGED <<ledger, phase, starts, toRestore, wpc, env, timedOut, retriers,
                 succeeded, fails, cancelled>>

\* The context of the caller ends, that of an HTTP request.
CallerLeaves(j) ==
  /\ spc[j] \in {"sending", "blocked"}
  /\ spc' = [spc EXCEPT ![j] = "rejected"]
  /\ UNCHANGED <<ledger, queue, phase, starts, toRestore, wpc, env, timedOut, retriers, history>>

-----------------------------------------------------------------------------
(* Workers: worker() and execute().                                        *)

\* Mutant of Leave: the count of the last job stays with the worker.
LeaveCounts(w) == /\ wpc' = [wpc EXCEPT ![w] = "idle"]
                  /\ env' = [env EXCEPT ![w].job = NoJob]
                  /\ timedOut' = timedOut \ {w}

Leave(w) == /\ wpc' = [wpc EXCEPT ![w] = "idle"]
            /\ env' = [env EXCEPT ![w] = NoEnvelope]
            /\ timedOut' = timedOut \ {w}

Receive(w) ==
  /\ wpc[w] = "idle"
  /\ queue # <<>>
  /\ env' = [env EXCEPT ![w] = Head(queue)]
  /\ queue' = Tail(queue)
  /\ wpc' = [wpc EXCEPT ![w] = "taken"]
  /\ UNCHANGED <<ledger, phase, starts, toRestore, spc, timedOut, retriers, history>>

\* ledgerOnStart; Call fails at once when the context is done.
Begin(w) ==
  /\ wpc[w] = "taken"
  /\ MarkStatus(env[w].job, "running")
  /\ wpc' = [wpc EXCEPT ![w] = IF CtxDone THEN "failed" ELSE "calling"]
  /\ UNCHANGED <<queue, phase, starts, toRestore, spc, env, timedOut, retriers, history>>

\* The deadline of the job passes.
Timeout(w) ==
  /\ HasTimeout
  /\ wpc[w] \in {"calling", "failed", "waiting"}
  /\ timedOut' = timedOut \cup {w}
  /\ UNCHANGED <<ledger, queue, phase, starts, toRestore, spc, wpc, env, retriers, history>>

isCancelled(w) == CtxDone \/ w \in timedOut

Succeeds(w) ==
  /\ wpc[w] = "calling"
  /\ wpc' = [wpc EXCEPT ![w] = "succeeded"]
  /\ succeeded' = succeeded \cup {env[w].job}
  /\ UNCHANGED <<ledger, queue, phase, starts, toRestore, spc, env, timedOut, retriers,
                 fails, cancelled, panicked>>

\* The service returns an error, of its own or because it was cancelled.
Fails(w) ==
  /\ wpc[w] = "calling"
  /\ wpc' = [wpc EXCEPT ![w] = "failed"]
  /\ \/ fails' = [fails EXCEPT ![env[w].job] = @ + 1]
     \/ isCancelled(w) /\ UNCHANGED fails
  /\ UNCHANGED <<ledger, queue, phase, starts, toRestore, spc, env, timedOut, retriers,
                 succeeded, cancelled, panicked>>

\* ledgerOnDone
RecordDone(w) ==
  /\ wpc[w] = "succeeded"
  /\ MarkStatus(env[w].job, "done")
  /\ Leave(w)
  /\ UNCHANGED <<queue, phase, starts, toRestore, spc, retriers, history>>

\* Mutant of Retries: the first call is not counted.
RetriesOneLess(w) == env[w].attempts + 1 < MaxRetry /\ ~isCancelled(w)

\* What execute does about an error: wait and retry, or record the end.
Retries(w) == env[w].attempts < MaxRetry /\ ~isCancelled(w)

Backoff(w) ==
  /\ wpc[w] = "failed"
  /\ Retries(w)
  /\ wpc' = [wpc EXCEPT ![w] = "waiting"]
  /\ UNCHANGED <<ledger, queue, phase, starts, toRestore, spc, env, timedOut, retriers, history>>

RecordFailure(w) ==
  /\ wpc[w] = "failed"
  /\ ~Retries(w)
  /\ \/ isCancelled(w) /\ ~Open /\ SaveJob(env[w])                    \* ledgerOnDelegate
     \/ isCancelled(w) /\ Open /\ MarkStatus(env[w].job, "cancelled") \* ledgerOnCancel
     \/ ~isCancelled(w) /\ MarkStatus(env[w].job, "failed")           \* ledgerOnFinalFailure
  /\ Leave(w)
  /\ UNCHANGED <<queue, phase, starts, toRestore, spc, retriers, history>>

\* Mutant of BackoffEnds: the worker sends the job back itself.
BackoffEndsInWorker(w) ==
  /\ wpc[w] = "waiting"
  /\ Room
  /\ queue' = Append(queue, [env[w] EXCEPT !.attempts = @ + 1])
  /\ Leave(w)
  /\ UNCHANGED <<ledger, phase, starts, toRestore, spc, retriers, history>>

\* Mutant of BackoffEnds: the return after the goroutine is missing.
BackoffEndsFallsThrough(w) ==
  /\ wpc[w] = "waiting"
  /\ retriers' = retriers \cup {[env |-> [env[w] EXCEPT !.attempts = @ + 1], at |-> "new"]}
  /\ env' = [env EXCEPT ![w].attempts = @ + 1]
  /\ wpc' = [wpc EXCEPT ![w] = "failed"]
  /\ UNCHANGED <<ledger, queue, phase, starts, toRestore, spc, timedOut, history>>

\* The select of the backoff: the delay passes, and a goroutine puts the job
\* back, or the wait is cancelled.
BackoffEnds(w) ==
  /\ wpc[w] = "waiting"
  /\ retriers' = retriers \cup {[env |-> [env[w] EXCEPT !.attempts = @ + 1], at |-> "new"]}
  /\ Leave(w)
  /\ UNCHANGED <<ledger, queue, phase, starts, toRestore, spc, history>>

BackoffCancelled(w) ==
  /\ wpc[w] = "waiting"
  /\ isCancelled(w)
  /\ MarkStatus(env[w].job, "cancelled")
  /\ Leave(w)
  /\ UNCHANGED <<queue, phase, starts, toRestore, spc, retriers, history>>

\* The range over the closed channel ends when it is empty.
WorkerExits(w) ==
  /\ wpc[w] = "idle"
  /\ ChanClosed
  /\ queue = <<>>
  /\ wpc' = [wpc EXCEPT ![w] = "exited"]
  /\ UNCHANGED <<ledger, queue, phase, starts, toRestore, spc, env, timedOut, retriers, history>>

-----------------------------------------------------------------------------
(* The goroutine that puts a job back; Stop does not wait for it.          *)

Moves(r, at) == retriers' = (retriers \ {r}) \cup {[r EXCEPT !.at = at]}
Ends(r) == retriers' = retriers \ {r}

RetryChecks(r) ==
  /\ r.at = "new"
  /\ Moves(r, IF Open THEN "sending" ELSE "saving")
  /\ UNCHANGED <<ledger, queue, phase, starts, toRestore, spc, wpc, env, timedOut, history>>

RetrySaves(r) ==
  /\ r.at = "saving"
  /\ SaveJob(r.env)
  /\ Ends(r)
  /\ UNCHANGED <<queue, phase, starts, toRestore, spc, wpc, env, timedOut, history>>

RetrySends(r) ==
  /\ \/ /\ r.at \in {"sending", "blocked"}
        /\ Room /\ ~ChanClosed
        /\ queue' = Append(queue, r.env)
        /\ Ends(r)
     \/ /\ r.at = "sending"
        /\ ~Room /\ ~CtxDone
        /\ Moves(r, "blocked")
        /\ UNCHANGED queue
     \/ /\ r.at = "sending"
        /\ CtxDone
        /\ Ends(r)
        /\ UNCHANGED queue
  /\ UNCHANGED <<ledger, phase, starts, toRestore, spc, wpc, env, timedOut, history>>

-----------------------------------------------------------------------------
(* Start and Stop, which Lifecycle calls one at a time, and the process.   *)

\* Pool.Start resets a stopped pool and runs the workers.
Start ==
  /\ phase \in {"off", "stopped"}
  /\ starts < MaxStarts
  /\ starts' = starts + 1
  /\ phase' = "starting"
  /\ wpc' = [w \in Workers |-> "idle"]
  /\ UNCHANGED <<ledger, queue, toRestore, spc, env, timedOut, retriers, history>>

\* Restore loads the unfinished records, those of jobs submitted since the
\* pool was opened among them.
LoadPendingJobs ==
  /\ phase = "starting"
  /\ phase' = "restoring"
  /\ toRestore' = {[job |-> j, attempts |-> ledger[j].attempts, made |-> starts] :
                     j \in {i \in Jobs : ledger[i].status \in Pending}}
  /\ UNCHANGED <<ledger, queue, starts, spc, wpc, env, timedOut, retriers, history>>

\* It marks each record and puts the job back without waiting, and gives up
\* at the first that finds the queue full.
RestoreJob(e) ==
  /\ phase = "restoring"
  /\ e \in toRestore
  /\ MarkStatus(e.job, "running")
  /\ \/ /\ Room
        /\ queue' = Append(queue, e)
        /\ toRestore' = toRestore \ {e}
     \/ /\ ~Room
        /\ toRestore' = {}
        /\ UNCHANGED queue
  /\ UNCHANGED <<phase, starts, spc, wpc, env, timedOut, retriers, history>>

Restored ==
  /\ phase = "restoring"
  /\ toRestore = {}
  /\ phase' = "up"
  /\ UNCHANGED <<ledger, queue, starts, toRestore, spc, wpc, env, timedOut, retriers, history>>

\* StopWithTimeout drains the queue into the ledger, Stop leaves it to the
\* workers.
Stop ==
  /\ phase = "up"
  /\ phase' \in {"draining", "closing"}
  /\ UNCHANGED <<ledger, queue, starts, toRestore, spc, wpc, env, timedOut, retriers, history>>

Blocked == {j \in Jobs : spc[j] = "blocked"} # {} \/ {r \in retriers : r.at = "blocked"} # {}

drainPendingToLedger ==
  /\ phase = "draining"
  /\ \/ /\ queue # <<>>
        /\ SaveJob(Head(queue))
        /\ queue' = Tail(queue)
        /\ UNCHANGED phase
     \/ /\ queue = <<>> /\ ~Blocked
        /\ phase' = "closing"
        /\ UNCHANGED <<ledger, queue>>
  /\ UNCHANGED <<starts, toRestore, spc, wpc, env, timedOut, retriers, history>>

CancelContext ==
  /\ phase = "closing"
  /\ phase' = "cancelling"
  /\ spc' = [j \in Jobs |-> IF spc[j] = "blocked" THEN "rejected" ELSE spc[j]]
  /\ retriers' = {r \in retriers : r.at # "blocked"}
  /\ UNCHANGED <<ledger, queue, starts, toRestore, wpc, env, timedOut, history>>

\* Mutant of CloseChannel: Stop waits for the workers before it closes.
CloseChannelLater ==
  /\ phase = "cancelling"
  /\ \A w \in Workers : wpc[w] = "exited"
  /\ phase' = "closed"
  /\ UNCHANGED <<ledger, queue, starts, toRestore, spc, wpc, env, timedOut, retriers, history>>

CloseChannel ==
  /\ phase = "cancelling"
  /\ phase' = "closed"
  /\ UNCHANGED <<ledger, queue, starts, toRestore, spc, wpc, env, timedOut, retriers, history>>

Stopped ==
  /\ phase = "closed"
  /\ \A w \in Workers : wpc[w] = "exited"
  /\ phase' = "stopped"
  /\ UNCHANGED <<ledger, queue, starts, toRestore, spc, wpc, env, timedOut, retriers, history>>

\* Only the ledger survives the process.
Dies ==
  /\ phase' = "off"
  /\ toRestore' = {}
  /\ spc' = [j \in Jobs |-> IF spc[j] \in {"checked", "sending", "blocked"}
                            THEN "rejected" ELSE spc[j]]
  /\ wpc' = [w \in Workers |-> "exited"]
  /\ queue' = <<>>
  /\ env' = [w \in Workers |-> NoEnvelope]
  /\ timedOut' = {}
  /\ retriers' = {}
  /\ UNCHANGED <<ledger, starts, succeeded, fails, cancelled>>

Crash == phase # "off" /\ Dies /\ UNCHANGED panicked

\* The panic of the goroutine that puts a job back is recovered by nobody;
\* that of Submit is by the HTTP server.
RetryPanics(r) ==
  /\ r.at = "sending"
  /\ ChanClosed
  /\ Dies
  /\ panicked' = panicked \cup {"retry"}

-----------------------------------------------------------------------------
Submit(j) == SubmitChecks(j) \/ SubmitSaves(j) \/ SubmitSends(j)

WorkerStep(w) == \/ Receive(w) \/ Begin(w)
                 \/ Succeeds(w) \/ RecordDone(w)
                 \/ Fails(w) \/ Backoff(w) \/ RecordFailure(w)
                 \/ BackoffEnds(w) \/ BackoffCancelled(w)
                 \/ WorkerExits(w)

RetrierStep == \E r \in retriers : RetryChecks(r) \/ RetrySaves(r) \/ RetrySends(r)

StopStep == drainPendingToLedger \/ CancelContext \/ CloseChannel \/ Stopped

RestoreStep == LoadPendingJobs \/ (\E e \in toRestore : RestoreJob(e)) \/ Restored

Next == \/ \E j \in Jobs : Submit(j) \/ CallerLeaves(j) \/ CancelJob(j)
        \/ \E w \in Workers : WorkerStep(w) \/ Timeout(w)
        \/ RetrierStep
        \/ \E r \in retriers : RetryPanics(r)
        \/ Start \/ RestoreStep
        \/ Stop \/ StopStep
        \/ Crash

Spec == Init /\ [][Next]_vars

\* Every goroutine is scheduled, every call returns, and Restore and Stop
\* make progress.
Fairness == /\ \A j \in Jobs : WF_vars(SubmitSends(j))
            /\ \A w \in Workers : WF_vars(WorkerStep(w))
            /\ WF_vars(RetrierStep)
            /\ WF_vars(RestoreStep)
            /\ WF_vars(StopStep)

FairSpec == Spec /\ Fairness

-----------------------------------------------------------------------------
(* Properties.                                                             *)

TypeOK ==
  /\ ledger \in [Jobs -> [status : Pending \cup Terminal \cup {"none"}, attempts : Nat]]
  /\ queue \in Seq(Envelope)
  /\ phase \in Phases
  /\ starts \in Nat
  /\ toRestore \subseteq Envelope
  /\ spc \in [Jobs -> {"new", "checked", "sending", "blocked", "accepted", "rejected"}]
  /\ wpc \in [Workers -> {"idle", "taken", "calling", "succeeded", "failed", "waiting", "exited"}]
  /\ env \in [Workers -> Envelope \cup {NoEnvelope}]
  /\ timedOut \subseteq Workers
  /\ retriers \subseteq Retrier
  /\ succeeded \subseteq Jobs
  /\ fails \in [Jobs -> Nat]
  /\ cancelled \subseteq Jobs
  /\ panicked \subseteq {"submit", "retry"}

(* A record that says a job is over is right about it: a call of a done job *)
(* has returned without error, and a failed job has had every call it may   *)
(* have fail, whatever was handed to the ledger and restored in between     *)
(* (the retry decision of execute, pool.go, and Attempts in pool_restore).  *)
EndIsEarned ==
  \A j \in Jobs : /\ ledger[j].status = "done" => j \in succeeded
                 /\ ledger[j].status = "failed" => fails[j] > MaxRetry

(* No envelope is served twice: of what one Submit or one Restore put into  *)
(* the channel for a job there is at most one in the channel, with a worker *)
(* or with a goroutine that puts it back.  Two workers call the same job at *)
(* once only when Submit and a Restore, or two Restores, made it.           *)
Same(a, b) == a.job = b.job /\ a.made = b.made
OneEnvelope ==
  /\ \A i, k \in 1..Len(queue) : i # k => ~Same(queue[i], queue[k])
  /\ \A i \in 1..Len(queue), w \in Workers : ~Same(queue[i], env[w])
  /\ \A i \in 1..Len(queue), r \in retriers : ~Same(queue[i], r.env)
  /\ \A v, w \in Workers : v # w /\ env[v] # NoEnvelope => ~Same(env[v], env[w])
  /\ \A w \in Workers, r \in retriers : ~Same(env[w], r.env)
  /\ \A q, r \in retriers : q # r => ~Same(q.env, r.env)

(* While the pool is up, a job it holds comes to an end in the ledger: a    *)
(* worker that puts a failed job back never waits for room in the channel   *)
(* itself (the goroutine of execute, pool.go).                              *)
Held(j) == \/ \E i \in 1..Len(queue) : queue[i].job = j
           \/ \E w \in Workers : env[w].job = j
           \/ \E r \in retriers : r.env.job = j /\ r.at # "saving"
HeldJobEnds == \A j \in Jobs :
  phase = "up" /\ Held(j) ~> phase # "up" \/ ledger[j].status \in Terminal

(* Stop and StopWithTimeout return, whatever the workers hold and whoever   *)
(* waits for room in the channel, as long as calls do.                      *)
StopReturns == phase \in {"draining", "closing", "cancelling", "closed"}
                 ~> phase \in {"stopped", "off"}

(* What pool.go says of the cancelled status: it is for jobs the user       *)
(* cancelled, and a job cut short because the pool closes stays pending.    *)
OnlyUserCancels == \A j \in Jobs : ledger[j].status = "cancelled" => j \in cancelled

(* What pool.go says the closed flag is for: no goroutine that puts a job   *)
(* back sends on the closed channel.                                        *)
NoSendOnClosed == "retry" \notin panicked
=============================================================================
