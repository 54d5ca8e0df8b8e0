---------------------------- MODULE AgentSession ----------------------------
(* One session of the agent (src/agent): the loops that talk to the model,    *)
(* the tool calls they run or suspend, the user's decisions, the queue of     *)
(* messages for later.  The model's answers are inputs; of a message only     *)
(* what pairs calls and results is kept.  No compactor, as the agent is       *)
(* built outside its tests.                                                   *)
EXTENDS Naturals, Sequences, FiniteSets, SequencesExt

CONSTANTS
  Loops,        \* goroutines in runLoop or resumeAfterDecision (bound)
  MaxCalls,     \* tool calls the model makes in all (bound)
  MaxTurns,     \* MaxToolCallsPerTurn
  MaxQueued     \* messages in the queue or taken from it, not yet sent (bound)

ASSUME AgentAssumption == MaxCalls \in Nat /\ MaxTurns \in Nat \ {0} /\ MaxQueued \in Nat

VARIABLES
  loops,      \* what each goroutine is at
  pendingCall,    \* PendingCalls[session]
  sessionGrant,    \* SessionGrants has the tool that asks
  automatic,  \* the permission mode lets every tool run
  queued,     \* pendingMessages[session]
  drainers,   \* goroutines of spawnQueuedChat: with a message, or looking for one
  tool,       \* what the calls made so far ask for, by their number
  verdict,    \* what the user decided of each call (history)
  ran         \* how often each call's handler was called (history)

agentVars == <<loops, pendingCall, sessionGrant, automatic, queued, drainers, tool, verdict, ran>>

Calls == 1..MaxCalls
Tools == {"asks", "plain"}                                    \* NeedConfirm or not
UserDecisions == {"accept", "session", "decline", "cancel"}
Accepts == {"accept", "session"}

Request(ids) == [role |-> "assistant", ids |-> ids]
Result(c) == [role |-> "tool", ids |-> <<c>>]

NoPending == [id |-> 0, messages |-> <<>>]
Ended == [pc |-> "ended", messages |-> <<>>, left |-> <<>>, suspended |-> FALSE, turn |-> 0]
Turn(msgs, n) == [Ended EXCEPT !.pc = "turn", !.messages = msgs, !.turn = n]

AgentTypeOK ==
  /\ \A l \in Loops : /\ loops[l].pc \in {"ended", "turn", "calls"} \cup UserDecisions
                      /\ ToSet(loops[l].left) \subseteq Calls
                      /\ loops[l].suspended \in BOOLEAN /\ loops[l].turn \in 0..MaxTurns
  /\ pendingCall.id \in 0..MaxCalls
  /\ sessionGrant \in BOOLEAN /\ automatic \in BOOLEAN
  /\ queued \in 0..MaxQueued
  /\ drainers \in [{"sends", "looks"} -> Nat]
  /\ tool \in Seq(Tools) /\ Len(tool) <= MaxCalls
  /\ verdict \in [Calls -> UserDecisions \cup {"none"}]
  /\ ran \in [Calls -> Nat]

AgentInit ==
  /\ loops = [l \in Loops |-> Ended]
  /\ pendingCall = NoPending
  /\ sessionGrant = FALSE /\ automatic = FALSE
  /\ queued = 0 /\ drainers = [sends |-> 0, looks |-> 0]
  /\ tool = <<>>
  /\ verdict = [c \in Calls |-> "none"]
  /\ ran = [c \in Calls |-> 0]

-----------------------------------------------------------------------------
(* HandleChat and ChatMode                                                    *)

\* The mode that comes with a request holds for the session from then on,
\* whatever becomes of the request.
SetSessionPermissionMode == automatic' \in BOOLEAN

\* Nothing looks at whether a loop of the session is running.
ChatMode(l) ==
  /\ pendingCall = NoPending
  /\ loops[l] = Ended
  /\ loops' = [loops EXCEPT ![l] = Turn(<<>>, 0)]

Chat(l) ==
  /\ SetSessionPermissionMode
  /\ ChatMode(l)
  /\ UNCHANGED <<pendingCall, sessionGrant, queued, drainers, tool, verdict, ran>>

ChatRefused ==
  /\ pendingCall # NoPending
  /\ SetSessionPermissionMode
  /\ UNCHANGED <<loops, pendingCall, sessionGrant, queued, drainers, tool, verdict, ran>>

Enqueue ==
  /\ queued + drainers.sends < MaxQueued
  /\ SetSessionPermissionMode
  /\ queued' = queued + 1
  /\ UNCHANGED <<loops, pendingCall, sessionGrant, drainers, tool, verdict, ran>>

-----------------------------------------------------------------------------
(* streamOneTurn, and runLoop around it                                       *)

\* pendingQueueDrainHook: fires after every turn, also between two turns of a
\* loop and when the turn was suspended.
TurnEnd ==
  \/ queued = 0 /\ UNCHANGED <<queued, drainers>>
  \/ queued > 0 /\ queued' = queued - 1 /\ drainers' = [drainers EXCEPT !.sends = @ + 1]

TooManyTurns(l) ==
  /\ loops[l].pc = "turn" /\ loops[l].turn = MaxTurns
  /\ loops' = [loops EXCEPT ![l] = Ended]
  /\ UNCHANGED <<pendingCall, sessionGrant, automatic, queued, drainers, tool, verdict, ran>>

\* The stream fails, or the model answers with text alone.
LastAnswer(l) ==
  /\ loops[l].pc = "turn" /\ loops[l].turn < MaxTurns
  /\ TurnEnd
  /\ loops' = [loops EXCEPT ![l] = Ended]
  /\ UNCHANGED <<pendingCall, sessionGrant, automatic, tool, verdict, ran>>

ModelCalls(l) ==
  /\ loops[l].pc = "turn" /\ loops[l].turn < MaxTurns
  /\ \E n \in 1..2 :
       LET ids == [i \in 1..n |-> Len(tool) + i] IN
       /\ Len(tool) + n <= MaxCalls
       /\ \E ts \in [1..n -> Tools] : tool' = tool \o ts
       /\ loops' = [loops EXCEPT ![l].pc = "calls", ![l].left = ids,
                                 ![l].messages = Append(@, Request(ids))]
  /\ UNCHANGED <<pendingCall, sessionGrant, automatic, queued, drainers, verdict, ran>>

AutoRun(c) == tool[c] = "plain" \/ sessionGrant \/ automatic

AddResult(l, c) == loops' = [loops EXCEPT ![l].left = Tail(@),
                                       ![l].messages = Append(@, Result(c))]

RunTool(l) ==
  /\ loops[l].pc = "calls" /\ loops[l].left # <<>>
  /\ LET c == Head(loops[l].left) IN
     /\ AutoRun(c)
     /\ ran' = [ran EXCEPT ![c] = @ + 1]
     /\ AddResult(l, c)
  /\ UNCHANGED <<pendingCall, sessionGrant, automatic, queued, drainers, tool, verdict>>

\* A tool nobody registered, or a hook that cancels the call.
SkipTool(l) ==
  /\ loops[l].pc = "calls" /\ loops[l].left # <<>>
  /\ AutoRun(Head(loops[l].left))
  /\ AddResult(l, Head(loops[l].left))
  /\ UNCHANGED <<pendingCall, sessionGrant, automatic, queued, drainers, tool, verdict, ran>>

\* The history is copied as it is now: without the results of later calls of
\* this turn, and in the place of a call that was already waiting.
Suspend(l) ==
  /\ loops[l].pc = "calls" /\ loops[l].left # <<>>
  /\ ~AutoRun(Head(loops[l].left))
  /\ pendingCall' = [id |-> Head(loops[l].left), messages |-> loops[l].messages]
  /\ loops' = [loops EXCEPT ![l].left = Tail(@), ![l].suspended = TRUE]
  /\ UNCHANGED <<sessionGrant, automatic, queued, drainers, tool, verdict, ran>>

NextTurn(r) == Turn(r.messages, r.turn + 1)

EndTurn(l) ==
  /\ loops[l].pc = "calls" /\ loops[l].left = <<>>
  /\ TurnEnd
  /\ loops' = [loops EXCEPT ![l] = IF @.suspended THEN Ended ELSE NextTurn(@)]
  /\ UNCHANGED <<pendingCall, sessionGrant, automatic, tool, verdict, ran>>

-----------------------------------------------------------------------------
(* spawnQueuedChat: a message that Chat refuses is lost.                      *)

SendQueued(l) ==
  /\ drainers.sends > 0
  /\ ChatMode(l)
  /\ drainers' = [drainers EXCEPT !.sends = @ - 1]
  /\ UNCHANGED <<pendingCall, sessionGrant, automatic, queued, tool, verdict, ran>>

QueuedRefused ==
  /\ drainers.sends > 0 /\ pendingCall # NoPending
  /\ drainers' = [sends |-> drainers.sends - 1, looks |-> drainers.looks + 1]
  /\ UNCHANGED <<loops, pendingCall, sessionGrant, automatic, queued, tool, verdict, ran>>

\* The fifth refusal ends it too, even with another message in the queue.
LookAgain ==
  /\ drainers.looks > 0
  /\ \/ /\ drainers' = [drainers EXCEPT !.looks = @ - 1]
        /\ queued' = queued
     \/ /\ queued > 0 /\ queued' = queued - 1
        /\ drainers' = [sends |-> drainers.sends + 1, looks |-> drainers.looks - 1]
  /\ UNCHANGED <<loops, pendingCall, sessionGrant, automatic, tool, verdict, ran>>

-----------------------------------------------------------------------------
(* ConfirmTool and resumeAfterDecision                                        *)

\* Mutant: the call stays in PendingCalls until the session is confirmed anew.
ConfirmKeepsPending(l, c, d) ==
  /\ loops[l] = Ended
  /\ pendingCall # NoPending /\ pendingCall.id = c
  /\ verdict' = [verdict EXCEPT ![c] = d]
  /\ loops' = [loops EXCEPT ![l] = [Ended EXCEPT !.pc = d, !.left = <<c>>,
                                                 !.messages = pendingCall.messages]]
  /\ UNCHANGED <<pendingCall, sessionGrant, automatic, queued, drainers, tool, ran>>

ConfirmTool(l, c, d) ==
  /\ loops[l] = Ended
  /\ pendingCall # NoPending /\ pendingCall.id = c
  /\ pendingCall' = NoPending
  /\ verdict' = [verdict EXCEPT ![c] = d]
  /\ loops' = [loops EXCEPT ![l] = [Ended EXCEPT !.pc = d, !.left = <<c>>,
                                                 !.messages = pendingCall.messages]]
  /\ UNCHANGED <<sessionGrant, automatic, queued, drainers, tool, ran>>

\* Mutant: what the user declined goes back to the model without a result.
ResumeUnanswered(l) ==
  /\ loops[l].pc \in UserDecisions
  /\ LET c == Head(loops[l].left)
         d == loops[l].pc IN
     /\ sessionGrant' = (sessionGrant \/ d = "session")
     /\ ran' = IF d \in Accepts THEN [ran EXCEPT ![c] = @ + 1] ELSE ran
     /\ loops' = [loops EXCEPT ![l] =
                    IF d = "cancel" THEN Ended
                    ELSE Turn(IF d \in Accepts THEN Append(@.messages, Result(c))
                                               ELSE @.messages, 0)]
  /\ UNCHANGED <<pendingCall, automatic, queued, drainers, tool, verdict>>

\* Only "cancel" does not go back to the model.
ResumeAfterDecision(l) ==
  /\ loops[l].pc \in UserDecisions
  /\ LET c == Head(loops[l].left)
         d == loops[l].pc IN
     /\ sessionGrant' = (sessionGrant \/ d = "session")
     /\ ran' = IF d \in Accepts THEN [ran EXCEPT ![c] = @ + 1] ELSE ran
     /\ loops' = [loops EXCEPT ![l] =
                    IF d = "cancel" THEN Ended ELSE Turn(Append(@.messages, Result(c)), 0)]
  /\ UNCHANGED <<pendingCall, automatic, queued, drainers, tool, verdict>>

AgentNext ==
  \/ ChatRefused \/ Enqueue \/ QueuedRefused \/ LookAgain
  \/ \E l \in Loops :
       \/ Chat(l) \/ SendQueued(l)
       \/ TooManyTurns(l) \/ LastAnswer(l) \/ ModelCalls(l)
       \/ RunTool(l) \/ SkipTool(l) \/ Suspend(l) \/ EndTurn(l)
       \/ ResumeAfterDecision(l)
       \/ \E c \in Calls, d \in UserDecisions : ConfirmTool(l, c, d)

AgentSpec == AgentInit /\ [][AgentNext]_agentVars

-----------------------------------------------------------------------------
\* However loops, queued messages and decisions overlap, a call runs at most
\* once; a call of a tool that asks runs only when the user accepted that very
\* call, or, if no decision was asked for, under a grant or a permission mode
\* in force; what the user declined or cancelled never runs (the check of the
\* id and the deletion in ConfirmTool, the copy in streamOneTurn).
RunsAreConsented ==
  [][\A c \in Calls : ran'[c] # ran[c] =>
       /\ ran[c] = 0
       /\ \/ verdict[c] \in Accepts
          \/ verdict[c] = "none" /\ AutoRun(c)]_agentVars

\* The calls of a message that was suspended with other calls beside it.
Torn(ids) == Len(ids) > 1 /\ \E c \in ToSet(ids) : tool[c] = "asks"

\* A history goes to the model only when each call in it has exactly one
\* result, and that before the next message of the model: the model's service
\* refuses any other.  (What a turn appended must reach the next turn of the
\* loop, what was suspended must come back with its decision.)  A turn of
\* several calls, some of which asked, is exempt: the results of those that
\* follow the suspended one are not in the copy.
RequestsAreAnswered ==
  \A l \in Loops : loops[l].pc = "turn" =>
    LET h == loops[l].messages IN
    \A p \in DOMAIN h : h[p].role = "assistant" /\ ~Torn(h[p].ids) =>
      /\ p + Len(h[p].ids) <= Len(h)
      /\ \A k \in DOMAIN h[p].ids : h[p + k] = Result(h[p].ids[k])
      /\ \A q \in (p + Len(h[p].ids) + 1)..Len(h) :
           h[q].role = "tool" => ToSet(h[q].ids) \cap ToSet(h[p].ids) = {}
=============================================================================
