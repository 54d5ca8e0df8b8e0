----------------------------- MODULE PeerLimits -----------------------------
(***************************************************************************)
(* What keeps callers of a paired device within bounds                     *)
(* (internal/server/peerlink_limits.go and the handlers that call a peer): *)
(* a sliding window of calls, a quota of bytes read, which are known only  *)
(* when the answer is there, and a circuit breaker.                        *)
(*                                                                         *)
(* A request reads the clock before it takes the lock of a limiter, so     *)
(* that times may be entered in another order than they were read.  A      *)
(* limiter only filters and counts what it holds: its slices are sets here.*)
(***************************************************************************)
EXTENDS Naturals, Sequences, FiniteSets

CONSTANTS LRequests,   \* goroutines of the HTTP handlers
          Kinds,       \* what they ask the device for
          CallLimit,   \* rateWindow.limit
          Quotas,      \* limits that rateQuota takes: at first, and as measured later
          MaxChunk,    \* the longest read, in bytes
          Window,      \* one minute
          Threshold, Cooldown,
          MaxTime      \* bound: the clock stops there

ASSUME LimitsAssumption ==
  /\ Kinds \subseteq {"search", "agent", "file", "push", "rollback"}
  /\ IsFiniteSet(LRequests) /\ LRequests # {}
  /\ CallLimit \in Nat /\ MaxChunk \in Nat
  /\ Quotas \subseteq Nat /\ Quotas # {}
  /\ Window \in Nat \ {0}
  /\ Threshold \in Nat \ {0} /\ Cooldown \in Nat \ {0}
  /\ MaxTime \in Nat

Times == 0..MaxTime
Windowed == Kinds \cap {"search", "agent"}  \* limited by the number of calls
Resetting == {"search", "file", "rollback"} \* whose answer clears the breaker
Never == 0                                  \* the zero time of openUntil

VARIABLES now,
          hits,    \* rateWindow.hits of each kind: a time, and a number to tell them apart
          quota,   \* rateQuota.limit
          reads,   \* rateQuota.hits: each byte a time and a number
          failures, openUntil,
          lreq     \* each request: where it is, its kind, the time it read, the bytes it got

limiters == <<hits, quota, reads, failures, openUntil>>

\* History, which gives the numbers of hits and bytes and decides nothing.
VARIABLES letThrough, \* of each kind, the calls that were let through
          moved,   \* the bytes that were entered
          counted  \* what made the breaker count, since it was cleared last

limitsHistory == <<letThrough, moved, counted>>
limitsVars == <<now, limiters, lreq, limitsHistory>>

NoRequest == [pc |-> "idle", kind |-> "none", at |-> 0, bytes |-> 0]

LimitsInit ==
  /\ now = 0
  /\ hits = [k \in Windowed |-> {}]
  /\ quota \in Quotas
  /\ reads = {}
  /\ failures = 0 /\ openUntil = Never
  /\ lreq = [r \in LRequests |-> NoRequest]
  /\ letThrough = [k \in Windowed |-> {}]
  /\ moved = {}
  /\ counted = <<>>

BreakerOpen == failures >= Threshold /\ now < openUntil

-----------------------------------------------------------------------------

Ask(r) ==
  /\ lreq[r].pc = "idle"
  /\ \E k \in Kinds : lreq' = [lreq EXCEPT ![r] = [NoRequest EXCEPT !.pc = "limiting", !.kind = k, !.at = now]]
  /\ UNCHANGED <<now, limiters, limitsHistory>>

\* t.After(now.Add(-window))
After(t, at) == t + Window > at

\* Time t, entered n times after the entries of s.
Entered(s, t, n) == LET same == Cardinality({h \in s : h[1] = t}) IN
                    {t} \X ((same + 1)..(same + n))

\* Mutant: a hit leaves the window one instant early.
RateAllowEarly(r) ==
  LET k == lreq[r].kind
      recent == {h \in hits[k] : h[1] + Window > lreq[r].at + 1}
      hit == Entered(letThrough[k], lreq[r].at, 1)
  IN
  /\ lreq[r].pc = "limiting" /\ k \in Windowed
  /\ IF Cardinality(recent) >= CallLimit
       THEN /\ hits' = [hits EXCEPT ![k] = recent]
            /\ lreq' = [lreq EXCEPT ![r] = NoRequest]
            /\ UNCHANGED letThrough
       ELSE /\ hits' = [hits EXCEPT ![k] = recent \cup hit]
            /\ lreq' = [lreq EXCEPT ![r].pc = "checking"]
            /\ letThrough' = [letThrough EXCEPT ![k] = @ \cup hit]
  /\ UNCHANGED <<now, quota, reads, failures, openUntil, moved, counted>>

\* rateWindow.allow
RateAllow(r) ==
  LET k == lreq[r].kind
      recent == {h \in hits[k] : After(h[1], lreq[r].at)}
      hit == Entered(letThrough[k], lreq[r].at, 1)
  IN
  /\ lreq[r].pc = "limiting" /\ k \in Windowed
  /\ IF Cardinality(recent) >= CallLimit
       THEN /\ hits' = [hits EXCEPT ![k] = recent]
            /\ lreq' = [lreq EXCEPT ![r] = NoRequest]
            /\ UNCHANGED letThrough
       ELSE /\ hits' = [hits EXCEPT ![k] = recent \cup hit]
            /\ lreq' = [lreq EXCEPT ![r].pc = "checking"]
            /\ letThrough' = [letThrough EXCEPT ![k] = @ \cup hit]
  /\ UNCHANGED <<now, quota, reads, failures, openUntil, moved, counted>>

\* rateQuota.allow: it takes nothing off.
QuotaAllow(r) ==
  LET recent == {h \in reads : After(h[1], lreq[r].at)} IN
  /\ lreq[r].pc = "limiting" /\ lreq[r].kind = "file"
  /\ reads' = recent
  /\ lreq' = [lreq EXCEPT ![r] = IF Cardinality(recent) >= quota THEN NoRequest
                                 ELSE [@ EXCEPT !.pc = "checking"]]
  /\ UNCHANGED <<now, hits, quota, failures, openUntil, limitsHistory>>

\* Bundles are pushed and rolled back without a limit.
Unlimited(r) ==
  /\ lreq[r].pc = "limiting" /\ lreq[r].kind \in {"push", "rollback"}
  /\ lreq' = [lreq EXCEPT ![r].pc = "checking"]
  /\ UNCHANGED <<now, limiters, limitsHistory>>

\* peerCircuitAllow: every request passes once the cooldown is over.
CircuitAllow(r) ==
  /\ lreq[r].pc = "checking"
  /\ lreq' = [lreq EXCEPT ![r] = IF BreakerOpen THEN NoRequest ELSE [@ EXCEPT !.pc = "calling"]]
  /\ UNCHANGED <<now, limiters, limitsHistory>>

\* Mutant: a success does not take the earlier failures off.
AnsweredHalf(r) ==
  /\ lreq[r].pc = "calling" /\ lreq[r].kind \in Resetting
  /\ openUntil' = Never
  /\ counted' = <<>>
  /\ \E n \in 0..MaxChunk :
       lreq' = [lreq EXCEPT ![r] = IF @.kind = "file" /\ n > 0
                                     THEN [@ EXCEPT !.pc = "metering", !.at = now, !.bytes = n]
                                     ELSE NoRequest]
  /\ UNCHANGED <<now, hits, quota, reads, failures, letThrough, moved>>

\* recordSuccess, and for a read the bytes that came.
Answered(r) ==
  /\ lreq[r].pc = "calling" /\ lreq[r].kind \in Resetting
  /\ failures' = 0 /\ openUntil' = Never
  /\ counted' = <<>>
  /\ \E n \in 0..MaxChunk :
       lreq' = [lreq EXCEPT ![r] = IF @.kind = "file" /\ n > 0
                                     THEN [@ EXCEPT !.pc = "metering", !.at = now, !.bytes = n]
                                     ELSE NoRequest]
  /\ UNCHANGED <<now, hits, quota, reads, letThrough, moved>>

\* An answer that the handler of an agent call or of a push does not record,
\* and a device that has too many calls under way.
Unrecorded(r) ==
  /\ lreq[r].pc = "calling"
  /\ lreq' = [lreq EXCEPT ![r] = NoRequest]
  /\ UNCHANGED <<now, limiters, limitsHistory>>

\* The call failed; for an agent call or a push, the device may have refused it.
Failed(r) ==
  /\ lreq[r].pc = "calling"
  /\ lreq' = [lreq EXCEPT ![r].pc = "recording", ![r].at = now]
  /\ UNCHANGED <<now, limiters, limitsHistory>>

\* rateQuota.consume
Consume(r) ==
  /\ lreq[r].pc = "metering"
  /\ LET bytes == Entered(moved, lreq[r].at, lreq[r].bytes) IN
     reads' = reads \cup bytes /\ moved' = moved \cup bytes
  /\ lreq' = [lreq EXCEPT ![r] = NoRequest]
  /\ UNCHANGED <<now, hits, quota, failures, openUntil, letThrough, counted>>

\* recordFailure: a failure while the breaker is open counts for nothing.
CircuitFailure(r) ==
  /\ lreq[r].pc = "recording"
  /\ lreq' = [lreq EXCEPT ![r] = NoRequest]
  /\ IF failures >= Threshold /\ lreq[r].at < openUntil
       THEN UNCHANGED <<failures, openUntil, counted>>
       ELSE /\ failures' = failures + 1
            /\ openUntil' = IF failures' >= Threshold THEN lreq[r].at + Cooldown ELSE openUntil
            /\ counted' = Append(counted, lreq[r].at)
  /\ UNCHANGED <<now, hits, quota, reads, letThrough, moved>>

\* setLimit, when the bandwidth was measured.
SetLimit ==
  /\ \E n \in Quotas \ {quota} : quota' = n
  /\ UNCHANGED <<now, hits, reads, failures, openUntil, lreq, limitsHistory>>

Tick ==
  /\ now < MaxTime
  /\ now' = now + 1
  /\ UNCHANGED <<limiters, lreq, limitsHistory>>

LimitsNext ==
  \/ \E r \in LRequests :
       \/ Ask(r) \/ RateAllow(r) \/ QuotaAllow(r) \/ Unlimited(r) \/ CircuitAllow(r)
       \/ Answered(r) \/ Unrecorded(r) \/ Failed(r) \/ Consume(r) \/ CircuitFailure(r)
  \/ SetLimit
  \/ Tick

LimitsSpec == LimitsInit /\ [][LimitsNext]_limitsVars

-----------------------------------------------------------------------------
(* Properties                                                              *)

\* What s has in the window that ends at t.
InWindow(s, t) == {h \in s : h[1] <= t /\ After(h[1], t)}
Spent(s, t) == Cardinality(InWindow(s, t))

\* Types.
LimitsTypeOK ==
  /\ now \in Times
  /\ \A k \in Windowed : hits[k] \subseteq Times \X Nat /\ Cardinality(hits[k]) <= CallLimit
  /\ quota \in Quotas
  /\ reads \subseteq Times \X Nat
  /\ openUntil \in 0..(MaxTime + Cooldown)

\* Requests that read the clock in one order and took the lock in another may
\* let a window hold more calls than its limit, but never more than one for
\* each of the others.  Bytes are entered after they were read: the quota of a
\* window is overrun, but by no more than what every request under way may read.
WindowsAreBounded ==
  \A t \in Times :
    /\ \A k \in Windowed : Spent(letThrough[k], t) <= CallLimit + Cardinality(LRequests) - 1
    /\ \E q \in Quotas : Spent(moved, t) <= q + Cardinality(LRequests) * MaxChunk

\* A breaker that is open counted Threshold failures since it was cleared, and
\* closes a cooldown after one of them.
OpenIsEarned ==
  BreakerOpen => /\ Len(counted) >= Threshold
          /\ \E i \in DOMAIN counted : openUntil = counted[i] + Cooldown
=============================================================================
