------------------------- MODULE KernelPoolProofs -------------------------
(***************************************************************************)
(* Proofs about KernelPool, for any jobs, workers, channel capacity and    *)
(* number of retries.                                                      *)
(***************************************************************************)
EXTENDS KernelPool, TLAPS


\* The attempts an envelope or a record carries are calls that failed.
Backed(e) == e.attempts <= fails[e.job]

Exited == \A w \in Workers : wpc[w] = "exited"

Holding(w) == wpc[w] \in {"taken", "calling", "succeeded", "failed", "waiting"}

WorkerInv(w) ==
  /\ Holding(w) => env[w] \in Envelope /\ Backed(env[w])
  /\ wpc[w] = "succeeded" => env[w].job \in succeeded
  /\ wpc[w] = "failed" => isCancelled(w) \/ env[w].attempts < fails[env[w].job]
  /\ wpc[w] = "waiting" => env[w].attempts < fails[env[w].job]

\* What each step keeps; EndIsEarned is its last part.
AttemptsInv ==
  /\ \A j \in Jobs : ledger[j].attempts <= fails[j]
  /\ \A i \in 1..Len(queue) : Backed(queue[i])
  /\ \A e \in toRestore : Backed(e)
  /\ \A r \in retriers : Backed(r.env)
  /\ \A w \in Workers : WorkerInv(w)
  /\ phase \in {"off", "stopped"} => Exited
  /\ EndIsEarned

Inv == TypeOK /\ AttemptsInv

-----------------------------------------------------------------------------
(* Facts about envelopes.                                                  *)

\* One more attempt, and another place to be in, leave the types alone.
LEMMA Attempted ==
  ASSUME NEW e \in Envelope
  PROVE  /\ [e EXCEPT !.attempts = @ + 1] \in Envelope
         /\ [e EXCEPT !.attempts = @ + 1].job = e.job
         /\ [e EXCEPT !.attempts = @ + 1].attempts = e.attempts + 1
  BY DEF Envelope

LEMMA RetrierType ==
  ASSUME NEW e \in Envelope, NEW at \in {"new", "saving", "sending", "blocked"}
  PROVE  /\ [env |-> e, at |-> at] \in Retrier
         /\ [env |-> e, at |-> at].env = e
  BY DEF Retrier

LEMMA Moved ==
  ASSUME NEW r \in Retrier, NEW at \in {"new", "saving", "sending", "blocked"}
  PROVE  /\ [r EXCEPT !.at = at] \in Retrier
         /\ [r EXCEPT !.at = at].env = r.env
         /\ r.env \in Envelope
  BY DEF Retrier

\* What a ledger looks like after one record of it was replaced.
LedgerType == [Jobs -> [status : Pending \cup Terminal \cup {"none"}, attempts : Nat]]

LEMMA Marked ==
  ASSUME NEW j \in Jobs, NEW st \in Pending \cup Terminal \cup {"none"},
         ledger \in LedgerType, MarkStatus(j, st)
  PROVE  /\ ledger' \in LedgerType
         /\ \A i \in Jobs : ledger'[i].attempts = ledger[i].attempts
         /\ \A i \in Jobs : i # j => ledger'[i] = ledger[i]
         /\ ledger'[j].status = st
  BY DEF MarkStatus, LedgerType

LEMMA Saved ==
  ASSUME NEW e \in Envelope, ledger \in LedgerType, SaveJob(e)
  PROVE  /\ ledger' \in LedgerType
         /\ \A i \in Jobs : i # e.job => ledger'[i] = ledger[i]
         /\ ledger'[e.job].status = "submitted"
         /\ ledger'[e.job].attempts = e.attempts
  BY DEF SaveJob, LedgerType, Envelope, Pending

\* A worker that leaves its job holds nothing, the others what they held.
LEMMA Left ==
  ASSUME NEW w \in Workers, TypeOK, Leave(w)
  PROVE  /\ wpc' \in [Workers -> {"idle", "taken", "calling", "succeeded",
                                  "failed", "waiting", "exited"}]
         /\ env' \in [Workers -> Envelope \cup {NoEnvelope}]
         /\ timedOut' \subseteq Workers
         /\ wpc'[w] = "idle"
         /\ \A v \in Workers : v # w => /\ wpc'[v] = wpc[v] /\ env'[v] = env[v]
                                        /\ v \in timedOut' <=> v \in timedOut
  BY DEF TypeOK, Leave

-----------------------------------------------------------------------------
LEMMA InitInv == Init => Inv
  BY PoolAssumption DEF Init, Inv, TypeOK, AttemptsInv, Exited, EndIsEarned, WorkerInv,
     Holding, Pending, Terminal, Phases, NoEnvelope, Envelope

-----------------------------------------------------------------------------
(* The steps outside the workers: each is one lemma.                       *)

LEMMA CancelJobStep == ASSUME Inv, NEW j \in Jobs, CancelJob(j) PROVE Inv'
<1> USE DEF Inv, TypeOK, CancelJob
<1>1. ledger \in LedgerType /\ MarkStatus(j, "cancelled") BY DEF LedgerType
<1>2. /\ ledger' \in LedgerType
      /\ \A i \in Jobs : ledger'[i].attempts = ledger[i].attempts
      /\ \A i \in Jobs : i # j => ledger'[i] = ledger[i]
      /\ ledger'[j].status = "cancelled"
  BY <1>1, Marked DEF Terminal
<1>3. TypeOK' BY <1>2 DEF LedgerType
<1>4. AttemptsInv'
  BY <1>2 DEF AttemptsInv, WorkerInv, Holding, Backed, EndIsEarned, Exited, isCancelled, CtxDone
<1> QED BY <1>3, <1>4

LEMMA SubmitChecksStep == ASSUME Inv, NEW j \in Jobs, SubmitChecks(j) \/ CallerLeaves(j)
                          PROVE  Inv'
<1>1. TypeOK' BY DEF Inv, TypeOK, SubmitChecks, CallerLeaves, history
<1>2. AttemptsInv'
  BY DEF Inv, AttemptsInv, WorkerInv, Holding, Backed, EndIsEarned, Exited, isCancelled, CtxDone,
     SubmitChecks, CallerLeaves, history
<1> QED BY <1>1, <1>2 DEF Inv

LEMMA SubmitSavesStep == ASSUME Inv, NEW j \in Jobs, SubmitSaves(j) PROVE Inv'
<1>1. TypeOK' BY DEF Inv, TypeOK, SubmitSaves, history, Pending
<1>2. AttemptsInv'
  BY DEF Inv, TypeOK, AttemptsInv, WorkerInv, Holding, Backed, EndIsEarned, Exited, isCancelled, CtxDone,
     SubmitSaves, history
<1> QED BY <1>1, <1>2 DEF Inv

\* Putting an envelope into the channel.
LEMMA Sent ==
  ASSUME Inv, NEW e \in Envelope, Backed(e), queue' = Append(queue, e), fails' = fails
  PROVE  /\ queue' \in Seq(Envelope)
         /\ (\A i \in 1..Len(queue) : Backed(queue[i]))'
<1>1. queue \in Seq(Envelope) BY DEF Inv, TypeOK
<1>2. queue' \in Seq(Envelope) BY <1>1
<1>3. /\ Len(queue') = Len(queue) + 1 /\ Len(queue) \in Nat
      /\ queue'[Len(queue) + 1] = e
      /\ \A i \in 1..Len(queue) : queue'[i] = queue[i]
  BY <1>1
<1>4. \A i \in 1..Len(queue') : i \in 1..Len(queue) \/ i = Len(queue) + 1
  BY <1>3
<1> QED BY <1>2, <1>3, <1>4 DEF Backed, Inv, AttemptsInv

LEMMA SubmitSendsStep == ASSUME Inv, NEW j \in Jobs, SubmitSends(j) PROVE Inv'
<1> DEFINE e == [job |-> j, attempts |-> 0, made |-> 0]
<1>1. e \in Envelope /\ Backed(e) BY DEF Envelope, Backed, Inv, TypeOK
<1>2. fails' = fails /\ UNCHANGED <<ledger, phase, starts, toRestore, wpc, env, timedOut,
                                  retriers, succeeded, cancelled>>
  BY DEF SubmitSends
<1>3. queue' = queue \/ queue' = Append(queue, e)
  BY DEF SubmitSends
<1>4. /\ queue' \in Seq(Envelope)
      /\ (\A i \in 1..Len(queue) : Backed(queue[i]))'
  BY <1>1, <1>2, <1>3, Sent DEF Inv, TypeOK, AttemptsInv, Backed
<1>5. spc' \in [Jobs -> {"new", "checked", "sending", "blocked", "accepted", "rejected"}]
  BY DEF Inv, TypeOK, SubmitSends
<1>6. panicked' \subseteq {"submit", "retry"}
  BY DEF Inv, TypeOK, SubmitSends
<1>7. TypeOK' BY <1>2, <1>4, <1>5, <1>6 DEF Inv, TypeOK
<1>8. AttemptsInv'
  BY <1>2, <1>4 DEF Inv, AttemptsInv, WorkerInv, Holding, Backed, EndIsEarned, Exited,
     isCancelled, CtxDone
<1> QED BY <1>7, <1>8 DEF Inv

-----------------------------------------------------------------------------
(* The steps of the workers.                                               *)

\* Taking the head of the channel.
LEMMA Taken ==
  ASSUME Inv, queue # <<>>
  PROVE  /\ Head(queue) \in Envelope /\ Backed(Head(queue))
         /\ Tail(queue) \in Seq(Envelope)
         /\ \A i \in 1..Len(Tail(queue)) : Backed(Tail(queue)[i])
<1>1. queue \in Seq(Envelope) BY DEF Inv, TypeOK
<1>2. /\ Len(Tail(queue)) = Len(queue) - 1 /\ Len(queue) \in Nat \ {0}
      /\ \A i \in 1..Len(Tail(queue)) : Tail(queue)[i] = queue[i + 1]
      /\ Head(queue) = queue[1] /\ Head(queue) \in Envelope
      /\ Tail(queue) \in Seq(Envelope)
  BY <1>1
<1>3. 1 \in 1..Len(queue) /\ \A i \in 1..Len(Tail(queue)) : i + 1 \in 1..Len(queue)
  BY <1>2
<1> QED BY <1>2, <1>3 DEF Inv, AttemptsInv

LEMMA ReceiveStep == ASSUME Inv, NEW w \in Workers, Receive(w) PROVE Inv'
<1>1. /\ queue # <<>> /\ queue' = Tail(queue) /\ wpc[w] = "idle"
      /\ UNCHANGED <<ledger, phase, starts, toRestore, spc, timedOut, retriers,
                     succeeded, fails, cancelled, panicked>>
  BY DEF Receive, history
<1>2. /\ env'[w] \in Envelope /\ env'[w].attempts <= fails[env'[w].job]
      /\ \A v \in Workers : v # w => env'[v] = env[v] /\ wpc'[v] = wpc[v]
      /\ wpc'[w] = "taken"
  BY Taken DEF Receive, Inv, TypeOK, Backed
<1>3. TypeOK'
  <2>1. wpc' \in [Workers -> {"idle", "taken", "calling", "succeeded",
                                "failed", "waiting", "exited"}]
    BY DEF Receive, Inv, TypeOK
  <2>2. env' \in [Workers -> Envelope \cup {NoEnvelope}]
    BY Taken DEF Receive, Inv, TypeOK
  <2> QED BY <1>1, <2>1, <2>2, Taken DEF Inv, TypeOK
<1>4. (\A i \in 1..Len(queue) : Backed(queue[i]))'
  BY <1>1, Taken DEF Backed
<1>5. phase \notin {"off", "stopped"} BY <1>1 DEF Inv, AttemptsInv, Exited
<1>6. (\A v \in Workers : WorkerInv(v))'
  BY <1>1, <1>2 DEF Inv, AttemptsInv, WorkerInv, Holding, Backed, isCancelled, CtxDone
<1> QED BY <1>1, <1>3, <1>4, <1>5, <1>6 DEF Inv, AttemptsInv, Backed, EndIsEarned, Exited

LEMMA BeginStep == ASSUME Inv, NEW w \in Workers, Begin(w) PROVE Inv'
<1>1. env[w] \in Envelope /\ Backed(env[w]) /\ env[w].job \in Jobs
  BY DEF Inv, AttemptsInv, WorkerInv, Holding, Begin, Envelope
<1>2. ledger \in LedgerType /\ MarkStatus(env[w].job, "running")
  BY DEF Inv, TypeOK, LedgerType, Begin
<1>3. /\ ledger' \in LedgerType
      /\ \A i \in Jobs : ledger'[i].attempts = ledger[i].attempts
      /\ \A i \in Jobs : i # env[w].job => ledger'[i] = ledger[i]
      /\ ledger'[env[w].job].status = "running"
  BY <1>1, <1>2, Marked DEF Pending
<1>4. TypeOK' BY <1>3 DEF LedgerType, Inv, TypeOK, Begin, history
<1>5. /\ UNCHANGED <<queue, phase, starts, toRestore, spc, env, timedOut, retriers,
                     succeeded, fails, cancelled, panicked>>
      /\ wpc[w] = "taken"
      /\ \/ wpc' = [wpc EXCEPT ![w] = "calling"]
         \/ wpc' = [wpc EXCEPT ![w] = "failed"] /\ CtxDone
  BY DEF Begin, history
<1>5a. /\ wpc'[w] = "calling" \/ (wpc'[w] = "failed" /\ CtxDone)
       /\ \A v \in Workers : v # w => wpc'[v] = wpc[v]
  BY <1>5 DEF Inv, TypeOK
<1>6. (\A v \in Workers : WorkerInv(v))'
  BY <1>1, <1>5, <1>5a DEF Inv, AttemptsInv, WorkerInv, Holding, Backed, isCancelled, CtxDone
<1>7. AttemptsInv'
  BY <1>3, <1>5, <1>6 DEF Inv, AttemptsInv, Backed, EndIsEarned, Exited
<1> QED BY <1>4, <1>7 DEF Inv

LEMMA TimeoutStep == ASSUME Inv, NEW w \in Workers, Timeout(w) PROVE Inv'
<1>1. TypeOK' BY DEF Inv, TypeOK, Timeout, history
<1>2. AttemptsInv'
  BY DEF Inv, AttemptsInv, WorkerInv, Holding, Backed, EndIsEarned, Exited, isCancelled, CtxDone,
     Timeout, history
<1> QED BY <1>1, <1>2 DEF Inv

LEMMA SucceedsStep == ASSUME Inv, NEW w \in Workers, Succeeds(w) PROVE Inv'
<1>1. env[w] \in Envelope /\ Backed(env[w]) /\ env[w].job \in Jobs
  BY DEF Inv, AttemptsInv, WorkerInv, Holding, Succeeds, Envelope
<1>2. TypeOK' BY <1>1 DEF Inv, TypeOK, Succeeds
<1>3. /\ UNCHANGED <<ledger, queue, phase, starts, toRestore, spc, env, timedOut, retriers,
                     fails, cancelled, panicked>>
      /\ succeeded' = succeeded \cup {env[w].job}
      /\ wpc[w] = "calling" /\ wpc'[w] = "succeeded"
      /\ \A v \in Workers : v # w => wpc'[v] = wpc[v]
  BY DEF Succeeds, Inv, TypeOK
<1>4. (\A v \in Workers : WorkerInv(v))'
  BY <1>1, <1>3 DEF Inv, AttemptsInv, WorkerInv, Holding, Backed, isCancelled, CtxDone
<1>5. AttemptsInv'
  BY <1>3, <1>4 DEF Inv, AttemptsInv, Backed, EndIsEarned, Exited
<1> QED BY <1>2, <1>5 DEF Inv

\* A failed call backs one more attempt, and unbacks none.
LEMMA FailsStep == ASSUME Inv, NEW w \in Workers, Fails(w) PROVE Inv'
<1>1. env[w] \in Envelope /\ Backed(env[w]) /\ env[w].job \in Jobs
  BY DEF Inv, AttemptsInv, WorkerInv, Holding, Fails, Envelope
<1>2. /\ UNCHANGED <<ledger, queue, phase, starts, toRestore, spc, env, timedOut, retriers,
                     succeeded, cancelled, panicked>>
      /\ wpc[w] = "calling" /\ wpc'[w] = "failed"
      /\ \A v \in Workers : v # w => wpc'[v] = wpc[v]
      /\ fails' \in [Jobs -> Nat]
      /\ \A j \in Jobs : fails[j] <= fails'[j]
      /\ fails[env[w].job] < fails'[env[w].job] \/ isCancelled(w)
      /\ fails \in [Jobs -> Nat]
  <2>1. fails \in [Jobs -> Nat] BY DEF Inv, TypeOK
  <2>2. CASE isCancelled(w) /\ UNCHANGED fails
    BY <1>1, <2>1, <2>2 DEF Fails, Inv, TypeOK
  <2>3. CASE fails' = [fails EXCEPT ![env[w].job] = @ + 1]
    <3>1. /\ fails' \in [Jobs -> Nat]
          /\ \A j \in Jobs : fails[j] <= fails'[j]
          /\ fails[env[w].job] < fails'[env[w].job]
      BY <1>1, <2>1, <2>3
    <3> QED BY <2>1, <3>1 DEF Fails, Inv, TypeOK
  <2> QED BY <2>2, <2>3 DEF Fails
<1>3. TypeOK' BY <1>2 DEF Inv, TypeOK, Fails
<1>4. \A e \in Envelope : Backed(e) => e.attempts <= fails'[e.job]
  BY <1>2 DEF Backed, Envelope
<1>5. \A e \in Envelope : e.attempts < fails[e.job] => e.attempts < fails'[e.job]
  BY <1>2 DEF Envelope
<1>6. env[w].attempts < fails'[env[w].job] \/ isCancelled(w)
  BY <1>1, <1>2 DEF Backed, Envelope
<1>7. (\A v \in Workers : WorkerInv(v))'
  BY <1>1, <1>2, <1>4, <1>5, <1>6
  DEF Inv, AttemptsInv, WorkerInv, Holding, Backed, isCancelled, CtxDone
<1>8. (\A i \in 1..Len(queue) : Backed(queue[i]))'
  <2>1. \A i \in 1..Len(queue) : queue[i] \in Envelope BY DEF Inv, TypeOK
  <2> QED BY <1>2, <1>4, <2>1 DEF Inv, AttemptsInv, Backed
<1>9. (\A e \in toRestore : Backed(e))' /\ (\A r \in retriers : Backed(r.env))'
  BY <1>2, <1>4 DEF Inv, TypeOK, AttemptsInv, Backed, Retrier
<1>10. (\A j \in Jobs : ledger[j].attempts <= fails[j])' /\ EndIsEarned'
  BY <1>2, PoolAssumption DEF Inv, TypeOK, AttemptsInv, EndIsEarned
<1>11. AttemptsInv'
  BY <1>2, <1>7, <1>8, <1>9, <1>10 DEF Inv, AttemptsInv, Exited
<1> QED BY <1>3, <1>11 DEF Inv

\* A worker that leaves its job keeps the invariant when the record and the
\* goroutine it leaves behind do.
LEMMA Settled ==
  ASSUME Inv, NEW w \in Workers, Leave(w),
         UNCHANGED <<queue, phase, starts, toRestore, spc, history>>,
         wpc[w] # "exited",
         ledger' \in LedgerType,
         \A j \in Jobs : ledger'[j].attempts <= fails[j],
         EndIsEarned',
         retriers' \subseteq Retrier,
         \A r \in retriers' : Backed(r.env)
  PROVE  Inv'
<1>1. TypeOK BY DEF Inv
<1>2. /\ wpc'[w] = "idle"
      /\ \A v \in Workers : v # w => /\ wpc'[v] = wpc[v] /\ env'[v] = env[v]
                                     /\ v \in timedOut' <=> v \in timedOut
  BY <1>1, Left
<1>3. TypeOK' BY <1>1, Left DEF TypeOK, LedgerType, history
<1>4. (\A v \in Workers : WorkerInv(v))'
  <2> SUFFICES ASSUME NEW v \in Workers PROVE WorkerInv(v)'
    OBVIOUS
  <2>1. CASE v = w BY <1>2, <2>1 DEF WorkerInv, Holding
  <2>2. CASE v # w
    <3>1. /\ wpc'[v] = wpc[v] /\ env'[v] = env[v] /\ UNCHANGED <<phase, succeeded, fails>>
          /\ v \in timedOut' <=> v \in timedOut
      BY <1>2, <2>2 DEF history
    <3>2. isCancelled(v)' <=> isCancelled(v) BY <3>1 DEF isCancelled, CtxDone
    <3>3. WorkerInv(v) BY DEF Inv, AttemptsInv
    <3> QED BY <3>1, <3>2, <3>3 DEF WorkerInv, Holding, Backed
  <2> QED BY <2>1, <2>2
<1>5. phase \notin {"off", "stopped"} BY DEF Inv, AttemptsInv, Exited
<1>6. AttemptsInv'
  BY <1>4, <1>5 DEF Inv, AttemptsInv, Backed, Exited, history
<1> QED BY <1>3, <1>6 DEF Inv

\* What a worker holds.
LEMMA Held1 ==
  ASSUME Inv, NEW w \in Workers, Holding(w)
  PROVE  /\ env[w] \in Envelope /\ Backed(env[w])
         /\ env[w].job \in Jobs /\ env[w].attempts \in Nat
         /\ wpc[w] # "exited"
         /\ ledger \in LedgerType /\ fails \in [Jobs -> Nat]
         /\ retriers \subseteq Retrier /\ \A r \in retriers : Backed(r.env)
         /\ \A j \in Jobs : ledger[j].attempts <= fails[j]
BY DEF Inv, TypeOK, AttemptsInv, WorkerInv, Holding, Envelope, LedgerType

LEMMA RecordDoneStep == ASSUME Inv, NEW w \in Workers, RecordDone(w) PROVE Inv'
<1>1. Holding(w) /\ MarkStatus(env[w].job, "done") /\ Leave(w)
  BY DEF RecordDone, Holding
<1>2. env[w].job \in succeeded BY DEF RecordDone, Inv, AttemptsInv, WorkerInv
<1>3. /\ ledger' \in LedgerType
      /\ \A i \in Jobs : ledger'[i].attempts = ledger[i].attempts
      /\ \A i \in Jobs : i # env[w].job => ledger'[i] = ledger[i]
      /\ ledger'[env[w].job].status = "done"
  BY <1>1, Held1, Marked DEF Terminal
<1>4. EndIsEarned'
  BY <1>2, <1>3 DEF Inv, AttemptsInv, EndIsEarned, RecordDone, history
<1> QED BY <1>1, <1>3, <1>4, Held1, Settled DEF RecordDone, history

LEMMA BackoffStep == ASSUME Inv, NEW w \in Workers, Backoff(w) PROVE Inv'
<1>1. TypeOK' BY DEF Inv, TypeOK, Backoff, history
<1>2. /\ UNCHANGED <<ledger, queue, phase, starts, toRestore, spc, env, timedOut, retriers,
                     succeeded, fails, cancelled, panicked>>
      /\ wpc[w] = "failed" /\ wpc'[w] = "waiting" /\ ~isCancelled(w)
      /\ \A v \in Workers : v # w => wpc'[v] = wpc[v]
  BY DEF Backoff, Retries, history, Inv, TypeOK
<1>3. env[w].attempts < fails[env[w].job]
  BY <1>2 DEF Inv, AttemptsInv, WorkerInv
<1>4. (\A v \in Workers : WorkerInv(v))'
  BY <1>2, <1>3 DEF Inv, AttemptsInv, WorkerInv, Holding, Backed, isCancelled, CtxDone
<1>5. AttemptsInv'
  BY <1>2, <1>4 DEF Inv, AttemptsInv, Backed, EndIsEarned, Exited
<1> QED BY <1>1, <1>5 DEF Inv

\* A job is recorded as failed only when its attempts are used up, by calls
\* that failed.
LEMMA RecordFailureStep == ASSUME Inv, NEW w \in Workers, RecordFailure(w) PROVE Inv'
<1>1. Holding(w) /\ Leave(w) /\ UNCHANGED <<queue, phase, starts, toRestore, spc, retriers, history>>
  BY DEF RecordFailure, Holding
<1>2. CASE SaveJob(env[w])
  <2>1. /\ ledger' \in LedgerType
        /\ \A i \in Jobs : i # env[w].job => ledger'[i] = ledger[i]
        /\ ledger'[env[w].job].status = "submitted"
        /\ ledger'[env[w].job].attempts = env[w].attempts
    BY <1>1, <1>2, Held1, Saved
  <2>2. EndIsEarned'
    BY <1>1, <2>1 DEF Inv, AttemptsInv, EndIsEarned, history
  <2>3. \A j \in Jobs : ledger'[j].attempts <= fails[j]
    BY <1>1, <2>1, Held1 DEF Backed
  <2> QED BY <1>1, <2>1, <2>2, <2>3, Held1, Settled DEF history
<1>3. CASE MarkStatus(env[w].job, "cancelled")
  <2>1. /\ ledger' \in LedgerType
        /\ \A i \in Jobs : ledger'[i].attempts = ledger[i].attempts
        /\ \A i \in Jobs : i # env[w].job => ledger'[i] = ledger[i]
        /\ ledger'[env[w].job].status = "cancelled"
    BY <1>1, <1>3, Held1, Marked DEF Terminal
  <2>2. EndIsEarned'
    BY <1>1, <2>1 DEF Inv, AttemptsInv, EndIsEarned, history
  <2> QED BY <1>1, <2>1, <2>2, Held1, Settled DEF history
<1>4. CASE ~isCancelled(w) /\ MarkStatus(env[w].job, "failed")
  <2>1. /\ ledger' \in LedgerType
        /\ \A i \in Jobs : ledger'[i].attempts = ledger[i].attempts
        /\ \A i \in Jobs : i # env[w].job => ledger'[i] = ledger[i]
        /\ ledger'[env[w].job].status = "failed"
    BY <1>1, <1>4, Held1, Marked DEF Terminal
  <2>2. ~(env[w].attempts < MaxRetry) /\ env[w].attempts < fails[env[w].job]
    BY <1>4 DEF RecordFailure, Retries, Inv, AttemptsInv, WorkerInv
  <2>3. MaxRetry < fails[env[w].job]
    BY <1>1, <2>2, Held1, PoolAssumption
  <2>4. EndIsEarned'
    BY <1>1, <2>1, <2>3 DEF Inv, AttemptsInv, EndIsEarned, history
  <2> QED BY <1>1, <2>1, <2>4, Held1, Settled DEF history
<1> QED BY <1>2, <1>3, <1>4 DEF RecordFailure

LEMMA BackoffEndsStep == ASSUME Inv, NEW w \in Workers, BackoffEnds(w) PROVE Inv'
<1> DEFINE e == [env[w] EXCEPT !.attempts = @ + 1]
<1> DEFINE r == [env |-> e, at |-> "new"]
<1>1. /\ Holding(w) /\ Leave(w) /\ retriers' = retriers \cup {r}
      /\ UNCHANGED <<ledger, queue, phase, starts, toRestore, spc, history>>
  BY DEF BackoffEnds, Holding
<1>2. /\ e \in Envelope /\ e.job = env[w].job /\ e.attempts = env[w].attempts + 1
      /\ r \in Retrier /\ r.env = e
  BY <1>1, Held1, Attempted, RetrierType
<1>3. env[w].attempts < fails[env[w].job]
  BY DEF BackoffEnds, Inv, AttemptsInv, WorkerInv
<1>4. Backed(e)
  BY <1>1, <1>2, <1>3, Held1 DEF Backed
<1>5. EndIsEarned' BY <1>1 DEF Inv, AttemptsInv, EndIsEarned, history
<1> HIDE DEF e, r
<1>6. retriers' \subseteq Retrier /\ \A q \in retriers' : Backed(q.env)
  BY <1>1, <1>2, <1>4, Held1
<1> QED BY <1>1, <1>5, <1>6, Held1, Settled

LEMMA BackoffCancelledStep == ASSUME Inv, NEW w \in Workers, BackoffCancelled(w) PROVE Inv'
<1>1. Holding(w) /\ MarkStatus(env[w].job, "cancelled") /\ Leave(w)
  BY DEF BackoffCancelled, Holding
<1>2. /\ ledger' \in LedgerType
      /\ \A i \in Jobs : ledger'[i].attempts = ledger[i].attempts
      /\ \A i \in Jobs : i # env[w].job => ledger'[i] = ledger[i]
      /\ ledger'[env[w].job].status = "cancelled"
  BY <1>1, Held1, Marked DEF Terminal
<1>3. EndIsEarned'
  BY <1>2 DEF Inv, AttemptsInv, EndIsEarned, BackoffCancelled, history
<1> QED BY <1>1, <1>2, <1>3, Held1, Settled DEF BackoffCancelled, history

LEMMA WorkerExitsStep == ASSUME Inv, NEW w \in Workers, WorkerExits(w) PROVE Inv'
<1>1. TypeOK' BY DEF Inv, TypeOK, WorkerExits, history
<1>2. AttemptsInv'
  BY DEF Inv, TypeOK, AttemptsInv, WorkerInv, Holding, Backed, EndIsEarned, Exited, isCancelled,
     CtxDone, WorkerExits, history
<1> QED BY <1>1, <1>2 DEF Inv

-----------------------------------------------------------------------------
(* The steps of the goroutines that put jobs back.                         *)

LEMMA Retrying ==
  ASSUME Inv, NEW r \in retriers
  PROVE  /\ r \in Retrier /\ r.env \in Envelope /\ Backed(r.env)
         /\ r.env.job \in Jobs /\ r.env.attempts \in Nat
         /\ ledger \in LedgerType
BY DEF Inv, TypeOK, AttemptsInv, Retrier, Envelope, LedgerType

\* Retriers that stay what they were, but for one that may move.
LEMMA RetrierMoves ==
  ASSUME Inv, NEW r \in retriers, NEW at \in {"new", "saving", "sending", "blocked"},
         Moves(r, at) \/ Ends(r), fails' = fails
  PROVE  retriers' \subseteq Retrier /\ (\A q \in retriers : Backed(q.env))'
<1> DEFINE m == [r EXCEPT !.at = at]
<1>1. m \in Retrier /\ m.env = r.env BY Retrying, Moved
<1>2. retriers' \subseteq retriers \cup {m} BY DEF Moves, Ends
<1> HIDE DEF m
<1>3. retriers \subseteq Retrier /\ \A q \in retriers : Backed(q.env)
  BY DEF Inv, TypeOK, AttemptsInv
<1> QED BY <1>1, <1>2, <1>3, Retrying DEF Backed

LEMMA RetryChecksStep == ASSUME Inv, NEW r \in retriers, RetryChecks(r) PROVE Inv'
<1>1. /\ UNCHANGED <<ledger, queue, phase, starts, toRestore, spc, wpc, env, timedOut,
                     succeeded, fails, cancelled, panicked>>
      /\ Moves(r, "sending") \/ Moves(r, "saving")
  BY DEF RetryChecks, history
<1>2. retriers' \subseteq Retrier /\ (\A q \in retriers : Backed(q.env))'
  BY <1>1, RetrierMoves
<1>3. TypeOK' BY <1>1, <1>2 DEF Inv, TypeOK
<1>4. AttemptsInv'
  BY <1>1, <1>2 DEF Inv, AttemptsInv, WorkerInv, Holding, Backed, EndIsEarned, Exited,
     isCancelled, CtxDone
<1> QED BY <1>3, <1>4 DEF Inv

LEMMA RetrySavesStep == ASSUME Inv, NEW r \in retriers, RetrySaves(r) PROVE Inv'
<1>1. /\ UNCHANGED <<queue, phase, starts, toRestore, spc, wpc, env, timedOut,
                     succeeded, fails, cancelled, panicked>>
      /\ SaveJob(r.env) /\ Ends(r)
  BY DEF RetrySaves, history
<1>2. retriers' \subseteq Retrier /\ (\A q \in retriers : Backed(q.env))'
  BY <1>1, RetrierMoves
<1>3. /\ ledger' \in LedgerType
      /\ \A i \in Jobs : i # r.env.job => ledger'[i] = ledger[i]
      /\ ledger'[r.env.job].status = "submitted"
      /\ ledger'[r.env.job].attempts = r.env.attempts
  BY <1>1, Retrying, Saved
<1>4. TypeOK' BY <1>1, <1>2, <1>3 DEF Inv, TypeOK, LedgerType
<1>5. (\A j \in Jobs : ledger[j].attempts <= fails[j])' /\ EndIsEarned'
  BY <1>1, <1>3, Retrying DEF Inv, AttemptsInv, Backed, EndIsEarned
<1>6. AttemptsInv'
  BY <1>1, <1>2, <1>5 DEF Inv, AttemptsInv, WorkerInv, Holding, Backed, Exited,
     isCancelled, CtxDone
<1> QED BY <1>4, <1>6 DEF Inv

LEMMA RetrySendsStep == ASSUME Inv, NEW r \in retriers, RetrySends(r) PROVE Inv'
<1>1. /\ UNCHANGED <<ledger, phase, starts, toRestore, spc, wpc, env, timedOut,
                     succeeded, fails, cancelled, panicked>>
      /\ Moves(r, "blocked") \/ Ends(r)
      /\ queue' = queue \/ queue' = Append(queue, r.env)
  BY DEF RetrySends, history
<1>2. retriers' \subseteq Retrier /\ (\A q \in retriers : Backed(q.env))'
  BY <1>1, RetrierMoves
<1>3. /\ queue' \in Seq(Envelope)
      /\ (\A i \in 1..Len(queue) : Backed(queue[i]))'
  <2>1. CASE queue' = queue BY <1>1, <2>1 DEF Inv, TypeOK, AttemptsInv, Backed
  <2>2. CASE queue' = Append(queue, r.env) BY <1>1, <2>2, Retrying, Sent
  <2> QED BY <1>1, <2>1, <2>2
<1>4. TypeOK' BY <1>1, <1>2, <1>3 DEF Inv, TypeOK
<1>5. AttemptsInv'
  BY <1>1, <1>2, <1>3 DEF Inv, AttemptsInv, WorkerInv, Holding, Backed, EndIsEarned, Exited,
     isCancelled, CtxDone
<1> QED BY <1>4, <1>5 DEF Inv

-----------------------------------------------------------------------------
(* Start, Restore, Stop and the end of the process.                        *)

LEMMA StartStep == ASSUME Inv, Start PROVE Inv'
<1>1. TypeOK' BY DEF Inv, TypeOK, Start, history, Phases
<1>2. AttemptsInv'
  BY DEF Inv, AttemptsInv, WorkerInv, Holding, Backed, EndIsEarned, Exited, isCancelled, CtxDone,
     Start, history
<1> QED BY <1>1, <1>2 DEF Inv

LEMMA LoadPendingJobsStep == ASSUME Inv, LoadPendingJobs PROVE Inv'
<1>1. \A e \in toRestore' : e \in Envelope /\ Backed(e)
  <2> SUFFICES ASSUME NEW j \in Jobs,
                      NEW e, e = [job |-> j, attempts |-> ledger[j].attempts, made |-> starts]
               PROVE  e \in Envelope /\ Backed(e)
    BY DEF LoadPendingJobs
  <2> QED BY DEF Envelope, Backed, Inv, TypeOK, AttemptsInv
<1>2. TypeOK' BY <1>1 DEF Inv, TypeOK, LoadPendingJobs, history, Phases
<1>3. AttemptsInv'
  BY <1>1 DEF Inv, AttemptsInv, WorkerInv, Holding, Backed, EndIsEarned, Exited, isCancelled,
     CtxDone, LoadPendingJobs, history
<1> QED BY <1>2, <1>3 DEF Inv

LEMMA RestoreJobStep == ASSUME Inv, NEW e \in toRestore, RestoreJob(e) PROVE Inv'
<1>1. e \in Envelope /\ Backed(e) /\ e.job \in Jobs /\ ledger \in LedgerType
  BY DEF Inv, TypeOK, AttemptsInv, Envelope, LedgerType
<1>2. /\ UNCHANGED <<phase, starts, spc, wpc, env, timedOut, retriers,
                     succeeded, fails, cancelled, panicked>>
      /\ MarkStatus(e.job, "running") /\ toRestore' \subseteq toRestore
      /\ queue' = queue \/ queue' = Append(queue, e)
  BY DEF RestoreJob, history
<1>3. /\ ledger' \in LedgerType
      /\ \A i \in Jobs : ledger'[i].attempts = ledger[i].attempts
      /\ \A i \in Jobs : i # e.job => ledger'[i] = ledger[i]
      /\ ledger'[e.job].status = "running"
  BY <1>1, <1>2, Marked DEF Pending
<1>4. /\ queue' \in Seq(Envelope)
      /\ (\A i \in 1..Len(queue) : Backed(queue[i]))'
  <2>1. CASE queue' = queue BY <1>2, <2>1 DEF Inv, TypeOK, AttemptsInv, Backed
  <2>2. CASE queue' = Append(queue, e) BY <1>1, <1>2, <2>2, Sent
  <2> QED BY <1>2, <2>1, <2>2
<1>5. TypeOK' BY <1>2, <1>3, <1>4 DEF Inv, TypeOK, LedgerType
<1>6. AttemptsInv'
  BY <1>2, <1>3, <1>4 DEF Inv, AttemptsInv, WorkerInv, Holding, Backed, EndIsEarned, Exited,
     isCancelled, CtxDone
<1> QED BY <1>5, <1>6 DEF Inv

LEMMA StopsStep == ASSUME Inv, Restored \/ Stop \/ CloseChannel \/ Stopped PROVE Inv'
<1>1. TypeOK' BY DEF Inv, TypeOK, Restored, Stop, CloseChannel, Stopped, history, Phases
<1>2. \A w \in Workers : isCancelled(w) => isCancelled(w)'
  BY DEF Restored, Stop, CloseChannel, Stopped, isCancelled, CtxDone
<1>3. AttemptsInv'
  BY <1>2 DEF Inv, AttemptsInv, WorkerInv, Holding, Backed, EndIsEarned, Exited,
     Restored, Stop, CloseChannel, Stopped, history
<1> QED BY <1>1, <1>3 DEF Inv

LEMMA drainStep == ASSUME Inv, drainPendingToLedger PROVE Inv'
<1>1. CASE queue = <<>>
  <2>1. TypeOK' BY <1>1 DEF Inv, TypeOK, drainPendingToLedger, history, Phases
  <2>2. AttemptsInv'
    BY <1>1 DEF Inv, AttemptsInv, WorkerInv, Holding, Backed, EndIsEarned, Exited, isCancelled,
       CtxDone, drainPendingToLedger, history
  <2> QED BY <2>1, <2>2 DEF Inv
<1>2. CASE queue # <<>>
  <2> DEFINE e == Head(queue)
  <2>1. e \in Envelope /\ Backed(e) /\ e.job \in Jobs /\ ledger \in LedgerType
    BY <1>2, Taken DEF Inv, TypeOK, Envelope, LedgerType
  <2>2. /\ UNCHANGED <<phase, starts, toRestore, spc, wpc, env, timedOut, retriers,
                       succeeded, fails, cancelled, panicked>>
        /\ SaveJob(e) /\ queue' = Tail(queue)
    BY <1>2 DEF drainPendingToLedger, history
  <2>3. /\ queue' \in Seq(Envelope)
        /\ (\A i \in 1..Len(queue) : Backed(queue[i]))'
    BY <1>2, <2>2, Taken DEF Backed
  <2> HIDE DEF e
  <2>4. /\ ledger' \in LedgerType
        /\ \A i \in Jobs : i # e.job => ledger'[i] = ledger[i]
        /\ ledger'[e.job].status = "submitted"
        /\ ledger'[e.job].attempts = e.attempts
    BY <2>1, <2>2, Saved
  <2>5. TypeOK' BY <2>2, <2>3, <2>4 DEF Inv, TypeOK, LedgerType
  <2>6. (\A j \in Jobs : ledger[j].attempts <= fails[j])' /\ EndIsEarned'
    BY <2>1, <2>2, <2>4 DEF Inv, AttemptsInv, Backed, EndIsEarned
  <2>7. AttemptsInv'
    BY <2>2, <2>3, <2>6 DEF Inv, AttemptsInv, WorkerInv, Holding, Backed, Exited,
       isCancelled, CtxDone
  <2> QED BY <2>5, <2>7 DEF Inv
<1> QED BY <1>1, <1>2

LEMMA CancelContextStep == ASSUME Inv, CancelContext PROVE Inv'
<1>1. TypeOK' BY DEF Inv, TypeOK, CancelContext, history, Phases
<1>2. AttemptsInv'
  BY DEF Inv, AttemptsInv, WorkerInv, Holding, Backed, EndIsEarned, Exited, isCancelled, CtxDone,
     CancelContext, history
<1> QED BY <1>1, <1>2 DEF Inv

LEMMA DiesStep == ASSUME Inv, Dies, panicked' \subseteq {"submit", "retry"} PROVE Inv'
<1>1. queue' = <<>> /\ Len(queue') = 0 /\ queue' \in Seq(Envelope)
  BY DEF Dies
<1>2. TypeOK' BY <1>1 DEF Inv, TypeOK, Dies, Phases
<1>3. AttemptsInv'
  BY <1>1 DEF Inv, AttemptsInv, WorkerInv, Holding, Backed, EndIsEarned, Exited, Dies
<1> QED BY <1>2, <1>3 DEF Inv

-----------------------------------------------------------------------------
(* The theorems.                                                           *)

LEMMA NextInv == Inv /\ [Next]_vars => Inv'
<1> SUFFICES ASSUME Inv, [Next]_vars PROVE Inv'
  OBVIOUS
<1>1. ASSUME NEW j \in Jobs, Submit(j) \/ CallerLeaves(j) \/ CancelJob(j) PROVE Inv'
  BY <1>1, SubmitChecksStep, SubmitSavesStep, SubmitSendsStep, CancelJobStep DEF Submit
<1>2. ASSUME NEW w \in Workers, WorkerStep(w) \/ Timeout(w) PROVE Inv'
  BY <1>2, ReceiveStep, BeginStep, SucceedsStep, RecordDoneStep, FailsStep, BackoffStep,
     RecordFailureStep, BackoffEndsStep, BackoffCancelledStep, WorkerExitsStep, TimeoutStep
  DEF WorkerStep
<1>3. CASE RetrierStep
  BY <1>3, RetryChecksStep, RetrySavesStep, RetrySendsStep DEF RetrierStep
<1>4. ASSUME NEW r \in retriers, RetryPanics(r) PROVE Inv'
  BY <1>4, DiesStep DEF RetryPanics, Inv, TypeOK
<1>5. CASE Start \/ RestoreStep
  BY <1>5, StartStep, LoadPendingJobsStep, RestoreJobStep, StopsStep DEF RestoreStep
<1>6. CASE Stop \/ StopStep
  BY <1>6, StopsStep, drainStep, CancelContextStep DEF StopStep
<1>7. CASE Crash
  BY <1>7, DiesStep DEF Crash, Inv, TypeOK
<1>8. CASE UNCHANGED vars
  <2>1. TypeOK' BY <1>8 DEF vars, history, Inv, TypeOK
  <2>2. AttemptsInv'
    BY <1>8 DEF vars, history, Inv, AttemptsInv, WorkerInv, Holding, Backed, EndIsEarned, Exited,
       isCancelled, CtxDone
  <2> QED BY <2>1, <2>2 DEF Inv
<1> QED BY <1>1, <1>2, <1>3, <1>4, <1>5, <1>6, <1>7, <1>8 DEF Next

LEMMA Invariance == Spec => []Inv
<1> QED BY InitInv, NextInv, PTL DEF Spec

(* The pool's variables keep their types: an envelope that a worker or a    *)
(* goroutine of pool.go holds is one that Submit or Restore made.           *)
THEOREM PoolTypeCorrect == Spec => []TypeOK
<1>1. Inv => TypeOK BY DEF Inv
<1> QED BY <1>1, Invariance, PTL

(* A record of the ledger that says done or failed is right about it, for   *)
(* any number of jobs, workers and retries, across stops, restores and      *)
(* crashes.                                                                 *)
THEOREM EndEarned == Spec => []EndIsEarned
<1>1. Inv => EndIsEarned BY DEF Inv, AttemptsInv
<1> QED BY <1>1, Invariance, PTL

-----------------------------------------------------------------------------
(* No envelope is served twice.                                            *)
(*                                                                         *)
(* An envelope is known by its job and its maker.  Submit makes one only   *)
(* when its job has none of Submit's in the pool, Restore only when none   *)
(* of this Start's is there, and every other step moves envelopes from one *)
(* holder to another or drops them.                                        *)


\* What the channel, the workers and the goroutines of execute hold.
LiveEnvs == {queue[i] : i \in 1..Len(queue)} \cup {env[w] : w \in Workers}
            \cup {r.env : r \in retriers}

Fresh(e) == \A f \in LiveEnvs : ~Same(e, f)

\* What Restore has yet to put back is not in the pool yet.
RestoresFresh ==
  \A e \in toRestore : /\ phase = "restoring"
                       /\ e.made = starts
                       /\ Fresh(e)
                       /\ \A f \in toRestore : e # f => e.job # f.job

\* Nothing in the pool is newer than its Start, or made by it before it restores.
MadeBefore ==
  /\ \A f \in LiveEnvs : f.made <= starts /\ (phase = "starting" => f.made < starts)
  /\ phase # "off" => starts > 0

SubmittedOnce == \A f \in LiveEnvs : f.made = 0 /\ f.job \in Jobs => spc[f.job] = "accepted"

IdleHoldsNone == \A w \in Workers : wpc[w] \in {"idle", "exited"} => env[w] = NoEnvelope

SingleInv == OneEnvelope /\ RestoresFresh /\ MadeBefore /\ SubmittedOnce /\ IdleHoldsNone

-----------------------------------------------------------------------------
(* Facts about what is live.                                               *)

LEMMA Envelopes ==
  ASSUME Inv
  PROVE  /\ \A i \in 1..Len(queue) : queue[i] \in Envelope
         /\ \A w \in Workers : env[w] \in Envelope \cup {NoEnvelope}
         /\ \A r \in retriers : r.env \in Envelope
         /\ \A e \in toRestore : e \in Envelope
         /\ \A e \in Envelope : e.job \in Jobs /\ e.made \in Nat
         /\ NoEnvelope.job \notin Jobs /\ NoEnvelope.made = 0
         /\ starts \in Nat
         /\ queue \in Seq(Envelope) /\ Len(queue) \in Nat
<1>1. /\ queue \in Seq(Envelope) /\ Len(queue) \in Nat /\ starts \in Nat
      /\ \A i \in 1..Len(queue) : queue[i] \in Envelope
  BY DEF Inv, TypeOK
<1>2. /\ \A w \in Workers : env[w] \in Envelope \cup {NoEnvelope}
      /\ \A e \in toRestore : e \in Envelope
  BY DEF Inv, TypeOK
<1>3. \A r \in retriers : r.env \in Envelope BY DEF Inv, TypeOK, Retrier
<1>4. /\ \A e \in Envelope : e.job \in Jobs /\ e.made \in Nat
      /\ NoEnvelope.job \notin Jobs /\ NoEnvelope.made = 0
  BY PoolAssumption DEF Envelope, NoEnvelope
<1> QED BY <1>1, <1>2, <1>3, <1>4

\* A step that brings no new envelope into the pool keeps the three parts
\* that speak of what is live.
LEMMA NothingNew ==
  ASSUME Inv, SingleInv,
         \A f \in LiveEnvs' : f = NoEnvelope \/ \E g \in LiveEnvs : Same(f, g),
         toRestore' \subseteq toRestore,
         starts' = starts,
         phase' # "off" => phase # "off",
         phase' = "starting" => phase = "starting",
         toRestore' # {} => phase' = phase,
         \A j \in Jobs : spc[j] = "accepted" => spc'[j] = "accepted"
  PROVE  RestoresFresh' /\ MadeBefore' /\ SubmittedOnce'
<1>1. RestoresFresh'
  <2> SUFFICES ASSUME NEW e \in toRestore'
               PROVE  /\ phase' = "restoring" /\ e.made = starts' /\ Fresh(e)'
                      /\ \A f \in toRestore' : e # f => e.job # f.job
    BY DEF RestoresFresh
  <2>1. e \in toRestore /\ e \in Envelope /\ toRestore' # {} BY Envelopes
  <2>2. /\ phase = "restoring" /\ e.made = starts /\ Fresh(e)
        /\ \A f \in toRestore : e # f => e.job # f.job
    BY <2>1 DEF SingleInv, RestoresFresh
  <2>3. Fresh(e)'
    BY <2>1, <2>2, Envelopes DEF Fresh, Same
  <2> QED BY <2>1, <2>2, <2>3
<1>2. MadeBefore' BY Envelopes DEF SingleInv, MadeBefore, Same
<1>3. SubmittedOnce' BY Envelopes DEF SingleInv, SubmittedOnce, Same
<1> QED BY <1>1, <1>2, <1>3

\* Who holds what does not change.
LEMMA SameHolders ==
  ASSUME SingleInv, UNCHANGED <<queue, env, retriers>>
  PROVE  OneEnvelope' /\ LiveEnvs' = LiveEnvs
  BY DEF SingleInv, OneEnvelope, LiveEnvs, Same

\* An envelope that is not live may be put into the channel.
LEMMA Joins ==
  ASSUME Inv, SingleInv, NEW e \in Envelope, Fresh(e), queue' = Append(queue, e),
         UNCHANGED <<env, retriers>>
  PROVE  /\ OneEnvelope'
         /\ \A f \in LiveEnvs' : f \in LiveEnvs \/ f = e
<1>1. /\ Len(queue') = Len(queue) + 1 /\ Len(queue) \in Nat
      /\ queue'[Len(queue) + 1] = e
      /\ \A i \in 1..Len(queue) : queue'[i] = queue[i]
  BY Envelopes
<1>2. \A i \in 1..Len(queue') : i \in 1..Len(queue) \/ i = Len(queue) + 1
  BY <1>1
<1>3. /\ \A i \in 1..Len(queue) : queue[i] \in LiveEnvs
      /\ \A w \in Workers : env[w] \in LiveEnvs
      /\ \A r \in retriers : r.env \in LiveEnvs
  BY DEF LiveEnvs
<1>4. \A f \in LiveEnvs' : f \in LiveEnvs \/ f = e
  BY <1>1, <1>2, <1>3 DEF LiveEnvs
<1>5. \A f \in LiveEnvs : ~Same(e, f) /\ ~Same(f, e) BY DEF Fresh, Same
<1>6. \A i, k \in 1..Len(queue') : i # k => ~Same(queue'[i], queue'[k])
  BY <1>1, <1>2, <1>3, <1>5 DEF SingleInv, OneEnvelope
<1>7. \A i \in 1..Len(queue'), w \in Workers : ~Same(queue'[i], env[w])
  BY <1>1, <1>2, <1>3, <1>5 DEF SingleInv, OneEnvelope
<1>8. \A i \in 1..Len(queue'), r \in retriers : ~Same(queue'[i], r.env)
  BY <1>1, <1>2, <1>3, <1>5 DEF SingleInv, OneEnvelope
<1>9. OneEnvelope'
  BY <1>6, <1>7, <1>8 DEF SingleInv, OneEnvelope, Same
<1> QED BY <1>4, <1>9

\* The head of the channel is the only one of its kind.
LEMMA HeadIsSingle ==
  ASSUME Inv, SingleInv, queue # <<>>
  PROVE  /\ Head(queue) \in LiveEnvs /\ Head(queue) \in Envelope
         /\ \A i \in 1..Len(Tail(queue)) : /\ Tail(queue)[i] \in LiveEnvs
                                           /\ ~Same(Tail(queue)[i], Head(queue))
                                           /\ i + 1 \in 1..Len(queue)
                                           /\ Tail(queue)[i] = queue[i + 1]
         /\ \A w \in Workers : ~Same(Head(queue), env[w])
         /\ \A r \in retriers : ~Same(Head(queue), r.env)
         /\ \A i, k \in 1..Len(Tail(queue)) : i # k => ~Same(Tail(queue)[i], Tail(queue)[k])
<1>1. /\ Len(Tail(queue)) = Len(queue) - 1 /\ Len(queue) \in Nat \ {0}
      /\ \A i \in 1..Len(Tail(queue)) : Tail(queue)[i] = queue[i + 1]
      /\ Head(queue) = queue[1] /\ Head(queue) \in Envelope
  BY Envelopes
<1>2. /\ 1 \in 1..Len(queue)
      /\ \A i \in 1..Len(Tail(queue)) : i + 1 \in 1..Len(queue) /\ i + 1 # 1
      /\ \A i, k \in 1..Len(Tail(queue)) : i # k => i + 1 # k + 1
  BY <1>1
<1>3. /\ Head(queue) \in LiveEnvs
      /\ \A i \in 1..Len(Tail(queue)) : Tail(queue)[i] \in LiveEnvs
  BY <1>1, <1>2 DEF LiveEnvs
<1>4. \A i \in 1..Len(Tail(queue)) : ~Same(Tail(queue)[i], Head(queue))
  BY <1>1, <1>2 DEF SingleInv, OneEnvelope
<1>5. \A i, k \in 1..Len(Tail(queue)) : i # k => ~Same(Tail(queue)[i], Tail(queue)[k])
  BY <1>1, <1>2 DEF SingleInv, OneEnvelope
<1>6. /\ \A w \in Workers : ~Same(Head(queue), env[w])
      /\ \A r \in retriers : ~Same(Head(queue), r.env)
  BY <1>1, <1>2 DEF SingleInv, OneEnvelope
<1> QED BY <1>1, <1>2, <1>3, <1>4, <1>5, <1>6

-----------------------------------------------------------------------------
(* The steps that leave the channel, the workers and the goroutines alone. *)

LEMMA HoldersStay ==
  ASSUME Inv, SingleInv, UNCHANGED <<queue, env, retriers>>,
         toRestore' \subseteq toRestore,
         starts' = starts,
         phase' # "off" => phase # "off",
         phase' = "starting" => phase = "starting",
         toRestore' # {} => phase' = phase,
         \A j \in Jobs : spc[j] = "accepted" => spc'[j] = "accepted",
         \A w \in Workers : wpc'[w] \in {"idle", "exited"} => wpc[w] \in {"idle", "exited"}
  PROVE  SingleInv'
<1>1. OneEnvelope' /\ LiveEnvs' = LiveEnvs BY SameHolders
<1>2. \A f \in LiveEnvs' : \E g \in LiveEnvs : Same(f, g) BY <1>1 DEF Same
<1>3. RestoresFresh' /\ MadeBefore' /\ SubmittedOnce' BY <1>2, NothingNew
<1>4. IdleHoldsNone' BY DEF SingleInv, IdleHoldsNone
<1> QED BY <1>1, <1>3, <1>4 DEF SingleInv

LEMMA QuietJobSteps ==
  ASSUME Inv, SingleInv, NEW j \in Jobs,
         SubmitChecks(j) \/ SubmitSaves(j) \/ CallerLeaves(j) \/ CancelJob(j)
  PROVE  SingleInv'
<1>1. UNCHANGED <<queue, env, retriers, toRestore, starts, phase, wpc>>
  BY DEF SubmitChecks, SubmitSaves, CallerLeaves, CancelJob
<1>2. \A i \in Jobs : spc[i] = "accepted" => spc'[i] = "accepted"
  BY DEF Inv, TypeOK, SubmitChecks, SubmitSaves, CallerLeaves, CancelJob
<1> QED BY <1>1, <1>2, HoldersStay

LEMMA QuietWorkerSteps ==
  ASSUME Inv, SingleInv, NEW w \in Workers,
         Begin(w) \/ Timeout(w) \/ Succeeds(w) \/ Fails(w) \/ Backoff(w) \/ WorkerExits(w)
  PROVE  SingleInv'
<1>1. UNCHANGED <<queue, env, retriers, toRestore, starts, phase, spc>>
  BY DEF Begin, Timeout, Succeeds, Fails, Backoff, WorkerExits
<1>2. \A v \in Workers : wpc'[v] \in {"idle", "exited"} => wpc[v] \in {"idle", "exited"}
  BY DEF Inv, TypeOK, Begin, Timeout, Succeeds, Fails, Backoff, WorkerExits
<1> QED BY <1>1, <1>2, HoldersStay

LEMMA QuietStopSteps ==
  ASSUME Inv, SingleInv, Restored \/ Stop \/ CloseChannel \/ Stopped
  PROVE  SingleInv'
<1>1. UNCHANGED <<queue, env, retriers, toRestore, starts, wpc, spc>>
  BY DEF Restored, Stop, CloseChannel, Stopped
<1>2. phase # "off" /\ phase' # "starting"
  BY DEF Restored, Stop, CloseChannel, Stopped
<1>3. toRestore # {} => phase = "restoring" BY DEF SingleInv, RestoresFresh
<1>4. toRestore' = {}
  BY <1>1, <1>3 DEF Restored, Stop, CloseChannel, Stopped
<1> QED BY <1>1, <1>2, <1>4, HoldersStay

\* What the pool holds is older than this Start.
LEMMA StartKeepsSingle == ASSUME Inv, SingleInv, Start PROVE SingleInv'
<1>1. /\ UNCHANGED <<queue, env, retriers, toRestore, spc>>
      /\ starts' = starts + 1 /\ phase' = "starting" /\ phase \in {"off", "stopped"}
  BY DEF Start
<1>2. OneEnvelope' /\ LiveEnvs' = LiveEnvs BY <1>1, SameHolders
<1>3. toRestore' = {} BY <1>1 DEF SingleInv, RestoresFresh
<1>4. \A f \in LiveEnvs : f.made \in Nat /\ f.made <= starts
  <2>1. \A f \in LiveEnvs : f \in Envelope \cup {NoEnvelope} BY Envelopes DEF LiveEnvs
  <2> QED BY <2>1, Envelopes DEF SingleInv, MadeBefore
<1>5. MadeBefore' BY <1>1, <1>2, <1>4, Envelopes DEF MadeBefore
<1>6. SubmittedOnce' BY <1>1, <1>2 DEF SingleInv, SubmittedOnce
<1>7. Exited BY <1>1 DEF Inv, AttemptsInv
<1>8. IdleHoldsNone' BY <1>1, <1>7 DEF SingleInv, IdleHoldsNone, Exited
<1> QED BY <1>2, <1>3, <1>5, <1>6, <1>8 DEF SingleInv, RestoresFresh

\* Restore makes envelopes no holder has: those are of an earlier Start.
LEMMA LoadKeepsSingle == ASSUME Inv, SingleInv, LoadPendingJobs PROVE SingleInv'
<1>1. /\ UNCHANGED <<queue, env, retriers, starts, spc, wpc>>
      /\ phase = "starting" /\ phase' = "restoring"
  BY DEF LoadPendingJobs
<1>2. OneEnvelope' /\ LiveEnvs' = LiveEnvs BY <1>1, SameHolders
<1>3. \A f \in LiveEnvs : f.made # starts
  <2>1. \A f \in LiveEnvs : f \in Envelope \cup {NoEnvelope} BY Envelopes DEF LiveEnvs
  <2>2. \A f \in LiveEnvs : f.made \in Nat BY <2>1, Envelopes
  <2> QED BY <1>1, <2>2, Envelopes DEF SingleInv, MadeBefore
<1>4. RestoresFresh'
  <2> DEFINE env0(j) == [job |-> j, attempts |-> ledger[j].attempts, made |-> starts]
  <2>1. \A e \in toRestore' : \E j \in Jobs : e = env0(j) BY DEF LoadPendingJobs
  <2>2. \A j \in Jobs : env0(j).job = j /\ env0(j).made = starts OBVIOUS
  <2> HIDE DEF env0
  <2>3. \A e \in toRestore' : e.made = starts
    BY <2>1, <2>2
  <2>4. \A e, f \in toRestore' : e # f => e.job # f.job
    BY <2>1, <2>2
  <2>5. \A e \in toRestore' : Fresh(e)'
    BY <1>2, <1>3, <2>3 DEF Fresh, Same
  <2> QED BY <1>1, <2>3, <2>4, <2>5 DEF RestoresFresh
<1>5. MadeBefore' BY <1>1, <1>2 DEF SingleInv, MadeBefore
<1>6. SubmittedOnce' BY <1>1, <1>2 DEF SingleInv, SubmittedOnce
<1>7. IdleHoldsNone' BY <1>1 DEF SingleInv, IdleHoldsNone
<1> QED BY <1>2, <1>4, <1>5, <1>6, <1>7 DEF SingleInv
-----------------------------------------------------------------------------
(* The steps that put an envelope into the channel.                        *)

LEMMA SubmitSendsKeepsSingle == ASSUME Inv, SingleInv, NEW j \in Jobs, SubmitSends(j)
                                PROVE  SingleInv'
<1> DEFINE e == [job |-> j, attempts |-> 0, made |-> 0]
<1>1. /\ UNCHANGED <<env, retriers, toRestore, starts, phase, wpc>>
      /\ spc[j] # "accepted"
      /\ \A i \in Jobs : spc[i] = "accepted" => spc'[i] = "accepted"
  BY DEF SubmitSends, Inv, TypeOK
<1>2. CASE queue' = queue BY <1>1, <1>2, HoldersStay
<1>3. CASE queue' = Append(queue, e) /\ spc' = [spc EXCEPT ![j] = "accepted"]
  <2>1. e \in Envelope /\ e.job = j /\ e.made = 0 BY DEF Envelope
  <2>2. Fresh(e) BY <1>1, <2>1 DEF SingleInv, SubmittedOnce, Fresh, Same
  <2>3. queue' = Append(queue, e) BY <1>3
  <2>4. spc'[j] = "accepted" BY <1>3 DEF Inv, TypeOK
  <2> HIDE DEF e
  <2>5. OneEnvelope' /\ \A f \in LiveEnvs' : f \in LiveEnvs \/ f = e
    BY <1>1, <2>1, <2>2, <2>3, Joins
  <2>6. SubmittedOnce'
    BY <1>1, <2>1, <2>4, <2>5 DEF SingleInv, SubmittedOnce
  <2>7. RestoresFresh'
    <3> SUFFICES ASSUME NEW r \in toRestore'
                 PROVE  /\ phase' = "restoring" /\ r.made = starts' /\ Fresh(r)'
                        /\ \A f \in toRestore' : r # f => r.job # f.job
      BY DEF RestoresFresh
    <3>1. /\ phase = "restoring" /\ r.made = starts /\ Fresh(r)
          /\ \A f \in toRestore : r # f => r.job # f.job
      BY <1>1 DEF SingleInv, RestoresFresh
    <3>2. starts # 0 BY <3>1, Envelopes DEF SingleInv, MadeBefore
    <3>3. Fresh(r)' BY <2>1, <2>5, <3>1, <3>2 DEF Fresh, Same
    <3> QED BY <1>1, <3>1, <3>3
  <2>8. MadeBefore'
    BY <1>1, <2>1, <2>5, Envelopes DEF SingleInv, MadeBefore, Inv, AttemptsInv
  <2>9. IdleHoldsNone' BY <1>1 DEF SingleInv, IdleHoldsNone
  <2> QED BY <2>5, <2>6, <2>7, <2>8, <2>9 DEF SingleInv
<1>4. queue' = queue \/ (queue' = Append(queue, e) /\ spc' = [spc EXCEPT ![j] = "accepted"])
  BY DEF SubmitSends
<1> QED BY <1>2, <1>3, <1>4

LEMMA RestoreJobKeepsSingle == ASSUME Inv, SingleInv, NEW e \in toRestore, RestoreJob(e)
                               PROVE  SingleInv'
<1>1. /\ UNCHANGED <<env, retriers, starts, phase, wpc, spc>>
      /\ phase = "restoring" /\ toRestore' \subseteq toRestore
  BY DEF RestoreJob
<1>2. CASE queue' = queue BY <1>1, <1>2, HoldersStay
<1>3. CASE queue' = Append(queue, e) /\ toRestore' = toRestore \ {e}
  <2>1. /\ e \in Envelope /\ e.made = starts /\ Fresh(e)
        /\ \A f \in toRestore : e # f => e.job # f.job
    BY Envelopes DEF SingleInv, RestoresFresh
  <2>2. OneEnvelope' /\ \A f \in LiveEnvs' : f \in LiveEnvs \/ f = e
    BY <1>1, <1>3, <2>1, Joins
  <2>3. starts # 0 BY <1>1, Envelopes DEF SingleInv, MadeBefore
  <2>4. SubmittedOnce'
    BY <1>1, <2>1, <2>2, <2>3 DEF SingleInv, SubmittedOnce
  <2>5. RestoresFresh'
    <3> SUFFICES ASSUME NEW r \in toRestore'
                 PROVE  /\ phase' = "restoring" /\ r.made = starts' /\ Fresh(r)'
                        /\ \A f \in toRestore' : r # f => r.job # f.job
      BY DEF RestoresFresh
    <3>1. /\ phase = "restoring" /\ r.made = starts /\ Fresh(r) /\ r # e /\ r \in toRestore
          /\ \A f \in toRestore : r # f => r.job # f.job
      BY <1>3 DEF SingleInv, RestoresFresh
    <3>2. Fresh(r)' BY <2>1, <2>2, <3>1 DEF Fresh, Same
    <3> QED BY <1>1, <3>1, <3>2
  <2>6. MadeBefore'
    BY <1>1, <2>1, <2>2, Envelopes DEF SingleInv, MadeBefore
  <2>7. IdleHoldsNone' BY <1>1 DEF SingleInv, IdleHoldsNone
  <2> QED BY <2>2, <2>4, <2>5, <2>6, <2>7 DEF SingleInv
<1> QED BY <1>2, <1>3 DEF RestoreJob

-----------------------------------------------------------------------------
(* The steps that move an envelope, or drop it.                            *)

LEMMA ReceiveKeepsSingle == ASSUME Inv, SingleInv, NEW w \in Workers, Receive(w)
                            PROVE  SingleInv'
<1>1. /\ UNCHANGED <<retriers, toRestore, starts, phase, spc>>
      /\ queue # <<>> /\ queue' = Tail(queue) /\ wpc[w] = "idle"
      /\ env'[w] = Head(queue) /\ wpc'[w] = "taken"
      /\ \A v \in Workers : v # w => env'[v] = env[v] /\ wpc'[v] = wpc[v]
  BY DEF Receive, Inv, TypeOK
<1>2. /\ Head(queue) \in LiveEnvs
      /\ \A i \in 1..Len(queue') : queue'[i] \in LiveEnvs
      /\ \A v \in Workers : env[v] \in LiveEnvs
      /\ \A r \in retriers : r.env \in LiveEnvs
  BY <1>1, HeadIsSingle DEF LiveEnvs
<1>3. \A f \in LiveEnvs' : f \in LiveEnvs
  <2>1. \A v \in Workers : env'[v] \in LiveEnvs BY <1>1, <1>2
  <2> QED BY <1>1, <1>2, <2>1 DEF LiveEnvs
<1>4. RestoresFresh' /\ MadeBefore' /\ SubmittedOnce'
  BY <1>1, <1>3, NothingNew DEF Same
<1>5. \A i, k \in 1..Len(queue') : i # k => ~Same(queue'[i], queue'[k])
  BY <1>1, HeadIsSingle
<1>6. \A i \in 1..Len(queue'), v \in Workers : ~Same(queue'[i], env'[v])
  <2>1. \A i \in 1..Len(queue') : ~Same(queue'[i], Head(queue))
    BY <1>1, HeadIsSingle
  <2>2. \A i \in 1..Len(queue'), v \in Workers : ~Same(queue'[i], env[v])
    BY <1>1, HeadIsSingle DEF SingleInv, OneEnvelope
  <2> QED BY <1>1, <2>1, <2>2
<1>7. \A i \in 1..Len(queue'), r \in retriers : ~Same(queue'[i], r.env)
  BY <1>1, HeadIsSingle DEF SingleInv, OneEnvelope
<1>8. \A v, u \in Workers : v # u /\ env'[v] # NoEnvelope => ~Same(env'[v], env'[u])
  <2>1. \A v \in Workers : ~Same(Head(queue), env[v]) /\ ~Same(env[v], Head(queue))
    BY <1>1, HeadIsSingle DEF Same
  <2> QED BY <1>1, <2>1 DEF SingleInv, OneEnvelope
<1>9. \A v \in Workers, r \in retriers : ~Same(env'[v], r.env)
  BY <1>1, HeadIsSingle DEF SingleInv, OneEnvelope
<1>10. OneEnvelope'
  BY <1>1, <1>5, <1>6, <1>7, <1>8, <1>9 DEF SingleInv, OneEnvelope, Same
<1>11. IdleHoldsNone' BY <1>1 DEF SingleInv, IdleHoldsNone
<1> QED BY <1>4, <1>10, <1>11 DEF SingleInv

\* A worker that leaves its job drops the envelope, or has given it away.
LEMMA DroppedByWorker ==
  ASSUME Inv, SingleInv, NEW w \in Workers, Leave(w),
         UNCHANGED <<queue, phase, starts, toRestore, spc, retriers>>
  PROVE  SingleInv'
<1>1. /\ env'[w] = NoEnvelope /\ wpc'[w] = "idle"
      /\ \A v \in Workers : v # w => env'[v] = env[v] /\ wpc'[v] = wpc[v]
  BY DEF Leave, Inv, TypeOK
<1>2. \A f \in LiveEnvs' : f = NoEnvelope \/ f \in LiveEnvs BY <1>1 DEF LiveEnvs
<1>3. RestoresFresh' /\ MadeBefore' /\ SubmittedOnce'
  BY <1>2, NothingNew DEF Same
<1>4. /\ \A e \in Envelope : ~Same(e, NoEnvelope) /\ ~Same(NoEnvelope, e)
  BY Envelopes DEF Same
<1>5. \A i \in 1..Len(queue), v \in Workers : ~Same(queue[i], env'[v])
  BY <1>1, <1>4, Envelopes DEF SingleInv, OneEnvelope
<1>6. \A v, u \in Workers : v # u /\ env'[v] # NoEnvelope => ~Same(env'[v], env'[u])
  <2>1. \A v \in Workers : env[v] # NoEnvelope => ~Same(env[v], NoEnvelope)
    BY <1>4, Envelopes
  <2> QED BY <1>1, <2>1 DEF SingleInv, OneEnvelope
<1>7. \A v \in Workers, r \in retriers : ~Same(env'[v], r.env)
  BY <1>1, <1>4, Envelopes DEF SingleInv, OneEnvelope
<1>8. OneEnvelope'
  BY <1>5, <1>6, <1>7 DEF SingleInv, OneEnvelope, Same
<1>9. IdleHoldsNone' BY <1>1 DEF SingleInv, IdleHoldsNone
<1> QED BY <1>3, <1>8, <1>9 DEF SingleInv

LEMMA BackoffEndsKeepsSingle == ASSUME Inv, SingleInv, NEW w \in Workers, BackoffEnds(w)
                                PROVE  SingleInv'
<1> DEFINE e == [env[w] EXCEPT !.attempts = @ + 1]
<1> DEFINE n == [env |-> e, at |-> "new"]
<1>1. /\ env'[w] = NoEnvelope /\ wpc'[w] = "idle"
      /\ \A v \in Workers : v # w => env'[v] = env[v] /\ wpc'[v] = wpc[v]
  BY DEF BackoffEnds, Leave, Inv, TypeOK
<1>2. /\ UNCHANGED <<queue, phase, starts, toRestore, spc>>
      /\ retriers' = retriers \cup {n} /\ n.env = e
  BY DEF BackoffEnds
<1>3. env[w] \in Envelope BY Held1 DEF BackoffEnds, Holding
<1>4. e.job = env[w].job /\ e.made = env[w].made /\ e \in Envelope
  BY <1>3 DEF Envelope
<1> HIDE DEF e, n
<1>5. \A f : Same(f, e) <=> Same(f, env[w]) BY <1>4 DEF Same
<1>6. \A f : Same(e, f) <=> Same(env[w], f) BY <1>4 DEF Same
<1>7. env[w] # NoEnvelope /\ \A x \in Envelope : ~Same(x, NoEnvelope) /\ ~Same(NoEnvelope, x)
  BY <1>3, Envelopes DEF Same
<1>8. \A f \in LiveEnvs' : f = NoEnvelope \/ \E g \in LiveEnvs : Same(f, g)
  <2>1. /\ \A i \in 1..Len(queue) : queue[i] \in LiveEnvs
        /\ \A v \in Workers : env[v] \in LiveEnvs
        /\ \A r \in retriers : r.env \in LiveEnvs
    BY DEF LiveEnvs
  <2>2. \A f \in LiveEnvs' : f = NoEnvelope \/ f \in LiveEnvs \/ f = e
    BY <1>1, <1>2, <2>1 DEF LiveEnvs
  <2>3. \A f : Same(f, f) BY DEF Same
  <2>4. Same(e, env[w]) /\ env[w] \in LiveEnvs BY <1>4, <2>1 DEF Same
  <2> QED BY <2>2, <2>3, <2>4
<1>9. RestoresFresh' /\ MadeBefore' /\ SubmittedOnce' BY <1>2, <1>8, NothingNew
<1>10. \A i \in 1..Len(queue), v \in Workers : ~Same(queue[i], env'[v])
  BY <1>1, <1>7, Envelopes DEF SingleInv, OneEnvelope
<1>11. \A i \in 1..Len(queue), r \in retriers' : ~Same(queue[i], r.env)
  BY <1>2, <1>5 DEF SingleInv, OneEnvelope
<1>12. \A v, u \in Workers : v # u /\ env'[v] # NoEnvelope => ~Same(env'[v], env'[u])
  <2>1. \A v \in Workers : env[v] # NoEnvelope => ~Same(env[v], NoEnvelope)
    BY <1>7, Envelopes
  <2> QED BY <1>1, <2>1 DEF SingleInv, OneEnvelope
<1>13. \A v \in Workers, r \in retriers' : ~Same(env'[v], r.env)
  <2>1. \A v \in Workers : v # w => ~Same(env[v], e)
    <3>1. \A v \in Workers : v # w => ~Same(env[w], env[v])
      BY <1>7 DEF SingleInv, OneEnvelope
    <3> QED BY <1>5, <3>1 DEF Same
  <2>2. \A r \in retriers' : ~Same(NoEnvelope, r.env)
    BY <1>2, <1>4, <1>7, Envelopes
  <2>3. \A v \in Workers, r \in retriers : ~Same(env[v], r.env)
    BY DEF SingleInv, OneEnvelope
  <2> QED BY <1>1, <1>2, <2>1, <2>2, <2>3
<1>14. \A q, r \in retriers' : q # r => ~Same(q.env, r.env)
  <2>1. \A r \in retriers : ~Same(e, r.env) /\ ~Same(r.env, e)
    <3>1. \A r \in retriers : ~Same(env[w], r.env) BY DEF SingleInv, OneEnvelope
    <3> QED BY <1>6, <3>1 DEF Same
  <2> QED BY <1>2, <2>1 DEF SingleInv, OneEnvelope
<1>15. OneEnvelope'
  BY <1>2, <1>10, <1>11, <1>12, <1>13, <1>14 DEF SingleInv, OneEnvelope, Same
<1>16. IdleHoldsNone' BY <1>1 DEF SingleInv, IdleHoldsNone
<1> QED BY <1>9, <1>15, <1>16 DEF SingleInv
-----------------------------------------------------------------------------
(* The goroutines that put a job back.                                     *)

\* A goroutine that moves on or ends takes its envelope with it.
LEMMA RetrierKeepsSingle ==
  ASSUME Inv, SingleInv, NEW r \in retriers, NEW at \in {"new", "saving", "sending", "blocked"},
         Moves(r, at) \/ Ends(r),
         UNCHANGED <<queue, env, wpc, phase, starts, toRestore, spc>>
  PROVE  SingleInv'
<1> DEFINE m == [r EXCEPT !.at = at]
<1>1. m.env = r.env BY Retrying, Moved
<1>2. retriers' = retriers \ {r} \/ retriers' = (retriers \ {r}) \cup {m} BY DEF Moves, Ends
<1> HIDE DEF m
<1>3. \A q \in retriers' : q = m \/ (q \in retriers /\ q # r) BY <1>2
<1>4. \A f \in LiveEnvs' : f \in LiveEnvs BY <1>1, <1>3 DEF LiveEnvs
<1>5. RestoresFresh' /\ MadeBefore' /\ SubmittedOnce' BY <1>4, NothingNew DEF Same
<1>6. \A q, p \in retriers' : q # p => ~Same(q.env, p.env)
  <2>1. \A q \in retriers : q # r => ~Same(q.env, r.env) /\ ~Same(r.env, q.env)
    BY DEF SingleInv, OneEnvelope
  <2> QED BY <1>1, <1>3, <2>1 DEF SingleInv, OneEnvelope
<1>7. \A i \in 1..Len(queue), q \in retriers' : ~Same(queue[i], q.env)
  BY <1>1, <1>3 DEF SingleInv, OneEnvelope
<1>8. \A v \in Workers, q \in retriers' : ~Same(env[v], q.env)
  BY <1>1, <1>3 DEF SingleInv, OneEnvelope
<1>9. OneEnvelope' BY <1>6, <1>7, <1>8 DEF SingleInv, OneEnvelope, Same
<1>10. IdleHoldsNone' BY DEF SingleInv, IdleHoldsNone
<1> QED BY <1>5, <1>9, <1>10 DEF SingleInv

LEMMA RetrySendsKeepsSingle == ASSUME Inv, SingleInv, NEW r \in retriers, RetrySends(r)
                               PROVE  SingleInv'
<1>1. /\ UNCHANGED <<env, wpc, phase, starts, toRestore, spc>>
      /\ \/ queue' = Append(queue, r.env) /\ Ends(r)
         \/ queue' = queue /\ (Moves(r, "blocked") \/ Ends(r))
  BY DEF RetrySends
<1>2. CASE queue' = queue BY <1>1, <1>2, RetrierKeepsSingle
<1>3. CASE queue' = Append(queue, r.env) /\ Ends(r)
  <2> DEFINE e == r.env
  <2>1. e \in Envelope /\ queue' = Append(queue, e) BY <1>3, Retrying
  <2>2. \A q \in retriers' : q \in retriers /\ q # r BY <1>3 DEF Ends
  <2>3. /\ \A q \in retriers : q # r => ~Same(q.env, e) /\ ~Same(e, q.env)
        /\ \A i \in 1..Len(queue) : ~Same(queue[i], e) /\ ~Same(e, queue[i])
        /\ \A v \in Workers : ~Same(env[v], e) /\ ~Same(e, env[v])
    BY DEF SingleInv, OneEnvelope, Same
  <2>4. e \in LiveEnvs BY DEF LiveEnvs
  <2> HIDE DEF e
  <2>5. /\ Len(queue') = Len(queue) + 1 /\ Len(queue) \in Nat
        /\ queue'[Len(queue) + 1] = e
        /\ \A i \in 1..Len(queue) : queue'[i] = queue[i]
        /\ \A i \in 1..Len(queue') : i \in 1..Len(queue) \/ i = Len(queue) + 1
    <3>1. /\ Len(queue') = Len(queue) + 1 /\ Len(queue) \in Nat
          /\ queue'[Len(queue) + 1] = e
          /\ \A i \in 1..Len(queue) : queue'[i] = queue[i]
      BY <2>1, Envelopes
    <3> QED BY <3>1
  <2>6. \A f \in LiveEnvs' : f \in LiveEnvs
    <3>1. \A i \in 1..Len(queue') : queue'[i] \in LiveEnvs BY <2>4, <2>5 DEF LiveEnvs
    <3> QED BY <1>1, <2>2, <3>1 DEF LiveEnvs
  <2>7. RestoresFresh' /\ MadeBefore' /\ SubmittedOnce'
    BY <1>1, <2>6, NothingNew DEF Same
  <2>8. \A i, k \in 1..Len(queue') : i # k => ~Same(queue'[i], queue'[k])
    BY <2>3, <2>5 DEF SingleInv, OneEnvelope
  <2>9. \A i \in 1..Len(queue'), v \in Workers : ~Same(queue'[i], env[v])
    BY <2>3, <2>5 DEF SingleInv, OneEnvelope
  <2>10. \A i \in 1..Len(queue'), q \in retriers' : ~Same(queue'[i], q.env)
    BY <2>2, <2>3, <2>5 DEF SingleInv, OneEnvelope
  <2>11. OneEnvelope'
    BY <1>1, <2>2, <2>8, <2>9, <2>10 DEF SingleInv, OneEnvelope, Same
  <2>12. IdleHoldsNone' BY <1>1 DEF SingleInv, IdleHoldsNone
  <2> QED BY <2>7, <2>11, <2>12 DEF SingleInv
<1> QED BY <1>1, <1>2, <1>3

-----------------------------------------------------------------------------
(* Stop and the end of the process.                                        *)

LEMMA drainKeepsSingle == ASSUME Inv, SingleInv, drainPendingToLedger PROVE SingleInv'
<1>1. /\ UNCHANGED <<env, retriers, wpc, starts, toRestore, spc>>
      /\ phase = "draining" /\ phase' \in {"draining", "closing"}
  BY DEF drainPendingToLedger
<1>2. toRestore = {} BY <1>1 DEF SingleInv, RestoresFresh
<1>3. CASE queue' = queue BY <1>1, <1>2, <1>3, HoldersStay
<1>4. CASE queue # <<>> /\ queue' = Tail(queue)
  <2>1. \A i \in 1..Len(queue') : /\ queue'[i] \in LiveEnvs
                                  /\ i + 1 \in 1..Len(queue)
                                  /\ queue'[i] = queue[i + 1]
    BY <1>4, HeadIsSingle
  <2>2. \A i, k \in 1..Len(queue') : i # k => ~Same(queue'[i], queue'[k])
    BY <1>4, HeadIsSingle
  <2>3. \A f \in LiveEnvs' : f \in LiveEnvs BY <1>1, <2>1 DEF LiveEnvs
  <2>4. RestoresFresh' /\ MadeBefore' /\ SubmittedOnce'
    BY <1>1, <1>2, <2>3, NothingNew DEF Same
  <2>5. OneEnvelope' BY <1>1, <2>1, <2>2 DEF SingleInv, OneEnvelope, Same
  <2>6. IdleHoldsNone' BY <1>1 DEF SingleInv, IdleHoldsNone
  <2> QED BY <2>4, <2>5, <2>6 DEF SingleInv
<1> QED BY <1>3, <1>4 DEF drainPendingToLedger

LEMMA CancelContextKeepsSingle == ASSUME Inv, SingleInv, CancelContext PROVE SingleInv'
<1>1. /\ UNCHANGED <<queue, env, wpc, starts, toRestore>>
      /\ phase = "closing" /\ phase' = "cancelling"
      /\ retriers' \subseteq retriers
      /\ \A j \in Jobs : spc[j] = "accepted" => spc'[j] = "accepted"
  BY DEF CancelContext
<1>2. toRestore = {} BY <1>1 DEF SingleInv, RestoresFresh
<1>3. \A f \in LiveEnvs' : f \in LiveEnvs BY <1>1 DEF LiveEnvs
<1>4. RestoresFresh' /\ MadeBefore' /\ SubmittedOnce'
  BY <1>1, <1>2, <1>3, NothingNew DEF Same
<1>5. OneEnvelope' BY <1>1 DEF SingleInv, OneEnvelope, Same
<1>6. IdleHoldsNone' BY <1>1 DEF SingleInv, IdleHoldsNone
<1> QED BY <1>4, <1>5, <1>6 DEF SingleInv

LEMMA DiesKeepsSingle == ASSUME Inv, SingleInv, Dies PROVE SingleInv'
<1>1. /\ queue' = <<>> /\ Len(queue') = 0 /\ retriers' = {} /\ toRestore' = {}
      /\ \A w \in Workers : env'[w] = NoEnvelope
      /\ phase' = "off" /\ starts' = starts
  BY DEF Dies
<1>2. \A f \in LiveEnvs' : f = NoEnvelope BY <1>1 DEF LiveEnvs
<1>3. OneEnvelope' BY <1>1 DEF OneEnvelope
<1>4. RestoresFresh' /\ SubmittedOnce' BY <1>1, <1>2, Envelopes DEF RestoresFresh, SubmittedOnce
<1>5. MadeBefore' BY <1>1, <1>2, Envelopes DEF MadeBefore
<1>6. IdleHoldsNone' BY <1>1 DEF IdleHoldsNone
<1> QED BY <1>3, <1>4, <1>5, <1>6 DEF SingleInv

-----------------------------------------------------------------------------
(* The theorem.                                                            *)

LEMMA InitSingle == Init => SingleInv
<1> SUFFICES ASSUME Init PROVE SingleInv OBVIOUS
<1>1. /\ Len(queue) = 0 /\ retriers = {} /\ toRestore = {} /\ phase = "off" /\ starts = 0
      /\ \A w \in Workers : env[w] = NoEnvelope
  BY DEF Init
<1>2. \A f \in LiveEnvs : f = NoEnvelope BY <1>1 DEF LiveEnvs
<1>3. OneEnvelope BY <1>1 DEF OneEnvelope
<1>4. NoEnvelope.made = 0 /\ NoEnvelope.job \notin Jobs BY PoolAssumption DEF NoEnvelope
<1> QED BY <1>1, <1>2, <1>3, <1>4
        DEF SingleInv, RestoresFresh, MadeBefore, SubmittedOnce, IdleHoldsNone

LEMMA NextSingle == Inv /\ SingleInv /\ [Next]_vars => SingleInv'
<1> SUFFICES ASSUME Inv, SingleInv, [Next]_vars PROVE SingleInv'
  OBVIOUS
<1>1. ASSUME NEW j \in Jobs, Submit(j) \/ CallerLeaves(j) \/ CancelJob(j) PROVE SingleInv'
  BY <1>1, QuietJobSteps, SubmitSendsKeepsSingle DEF Submit
<1>2. ASSUME NEW w \in Workers, WorkerStep(w) \/ Timeout(w) PROVE SingleInv'
  <2>1. CASE Receive(w) BY <2>1, ReceiveKeepsSingle
  <2>2. CASE RecordDone(w) \/ RecordFailure(w) \/ BackoffCancelled(w)
    BY <2>2, DroppedByWorker DEF RecordDone, RecordFailure, BackoffCancelled
  <2>3. CASE BackoffEnds(w) BY <2>3, BackoffEndsKeepsSingle
  <2> QED BY <1>2, <2>1, <2>2, <2>3, QuietWorkerSteps DEF WorkerStep
<1>3. ASSUME NEW r \in retriers, RetryChecks(r) \/ RetrySaves(r) \/ RetrySends(r)
      PROVE  SingleInv'
  <2>1. CASE RetryChecks(r) \/ RetrySaves(r)
    BY <2>1, RetrierKeepsSingle DEF RetryChecks, RetrySaves
  <2> QED BY <1>3, <2>1, RetrySendsKeepsSingle
<1>4. ASSUME NEW r \in retriers, RetryPanics(r) PROVE SingleInv'
  BY <1>4, DiesKeepsSingle DEF RetryPanics
<1>5. CASE Start \/ RestoreStep
  BY <1>5, StartKeepsSingle, LoadKeepsSingle, RestoreJobKeepsSingle, QuietStopSteps
  DEF RestoreStep
<1>6. CASE Stop \/ StopStep
  BY <1>6, QuietStopSteps, drainKeepsSingle, CancelContextKeepsSingle DEF StopStep
<1>7. CASE Crash BY <1>7, DiesKeepsSingle DEF Crash
<1>8. CASE UNCHANGED vars BY <1>8, HoldersStay DEF vars
<1> QED BY <1>1, <1>2, <1>3, <1>4, <1>5, <1>6, <1>7, <1>8 DEF Next, RetrierStep

(* No envelope is in two places: whatever Submit and Restore put into the   *)
(* channel is served by one worker at a time, for any number of jobs,       *)
(* workers, retries, stops, restores and crashes.                           *)
THEOREM EnvelopeIsSingle == Spec => []OneEnvelope
<1>1. Spec => []SingleInv BY Invariance, InitSingle, NextSingle, PTL DEF Spec
<1>2. SingleInv => OneEnvelope BY DEF SingleInv
<1> QED BY <1>1, <1>2, PTL
=============================================================================
