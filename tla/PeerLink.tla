------------------------------ MODULE PeerLink ------------------------------
(***************************************************************************)
(* Calls from the hub to a paired device over the connection that the      *)
(* device opened (internal/peerlink: conn.go, rpc.go, edge.go, agent.go,   *)
(* and the handlers of internal/server that use them).                     *)
(*                                                                         *)
(* The hub keeps one connection of the device, and its callers wait for    *)
(* the answer to the frame they wrote.  On the device each Edge reads one  *)
(* frame at a time, asks its user for approval and runs the tool; a new    *)
(* pairing cancels the Edge before it, which is not waited for.  Calls     *)
(* with the same call id are to run the tool once.  Connections break, and *)
(* what was written to them is lost or arrives late.                       *)
(***************************************************************************)
EXTENDS Naturals, Sequences, FiniteSets

CONSTANTS Callers,      \* goroutines of the hub that call the device
          CallIds,      \* ids that the initiators give their calls
          Destructive,  \* those of them whose tool needs approval every time
          MaxInFlight,  \* MaxConcurrentCallsPerPeer
          Edges,        \* Edge objects of the device, 1..n in order of creation
          MaxFrames,    \* bound: calls written
          MaxConns      \* bound: connections opened

ASSUME LinkAssumption ==
  /\ Destructive \subseteq CallIds
  /\ MaxInFlight \in Nat \ {0}
  /\ MaxFrames \in Nat /\ MaxConns \in Nat
  /\ Edges \in SUBSET (Nat \ {0})

Frames == 1..MaxFrames
Conns == 1..MaxConns
NoFrame == 0
NoConn == 0
NoEdge == 0
Outcomes == {"ok", "failed"}

VARIABLES
  \* the hub
  reg,       \* ConnRegistry: the connection of the device
  ws,        \* the WebSocket handler of each connection
  online,    \* Peer.Online
  inFlight, awaiting, seq,
  call,      \* each caller: where it is, the id it calls with, its frame, the answer in its channel
  \* the network
  up, toEdge, toHub, opened,
  \* the device
  edge,      \* each Edge: where it is, its connection, the frame it serves
  retired, newest,
  idem,      \* agentIdemTable: of each call id, who runs it and how it ended
  asking,    \* Approver.pending
  trusted    \* the hub is trusted by the device's user

linkHub == <<reg, ws, online, inFlight, awaiting, seq, call>>
linkNet == <<up, toEdge, toHub, opened>>
linkDevice == <<edge, retired, newest, idem, asking, trusted>>

\* History, read by no action.
VARIABLES runs,     \* how often the tool of a call id ran with success
          granted,  \* call ids whose last run the user approved
          results   \* what a caller is about to return

linkHistory == <<runs, granted, results>>
linkVars == <<linkHub, linkNet, linkDevice, linkHistory>>

CallPCs == {"idle", "writing", "waiting", "leaving"}
EdgePCs == {"off", "dialing", "reading", "duplicate", "requiring", "approving", "executing",
            "finishing", "dropping", "answering", "ended"}
Decisions == {"none", "accept", "trust"}

NoCall == [pc |-> "idle", id |-> NoFrame, callId |-> NoFrame, res |-> "none"]
NoWork == [conn |-> NoConn, id |-> NoFrame, callId |-> NoFrame, out |-> "none", dec |-> "none",
           of |-> NoEdge]
NoEntry == [by |-> NoEdge, out |-> "none"]

LinkInit ==
  /\ reg = NoConn
  /\ ws = [n \in Conns |-> "none"]
  /\ online = FALSE
  /\ inFlight = 0 /\ awaiting = {} /\ seq = 0
  /\ call = [c \in Callers |-> NoCall]
  /\ up = [n \in Conns |-> FALSE]
  /\ toEdge = [n \in Conns |-> <<>>]
  /\ toHub = [n \in Conns |-> <<>>]
  /\ opened = 0
  /\ edge = [e \in Edges |-> [pc |-> "off", work |-> NoWork]]
  /\ retired = {}
  /\ newest = NoEdge
  /\ idem = [k \in CallIds |-> NoEntry]
  /\ asking = [k \in CallIds |-> NoEdge]
  /\ trusted = FALSE
  /\ runs = [k \in CallIds |-> 0]
  /\ granted = {}
  /\ results = [c \in Callers |-> "none"]

-----------------------------------------------------------------------------
(* The hub: Caller.Call and Caller.Deliver                                 *)

Steps(c, from, to) ==
  /\ call[c].pc = from
  /\ call' = [call EXCEPT ![c].pc = to]

\* A device without a connection is offline, and one with too many calls under
\* way is busy: the call ends.  Otherwise it takes a slot (tryAcquire) and a
\* channel for the answer; what lies between the two locks disturbs neither.
CallPeer(c) ==
  /\ call[c].pc = "idle"
  /\ reg # NoConn
  /\ inFlight < MaxInFlight
  /\ seq < MaxFrames
  /\ inFlight' = inFlight + 1
  /\ seq' = seq + 1
  /\ awaiting' = awaiting \cup {seq'}
  /\ \E k \in CallIds :
       call' = [call EXCEPT ![c] = [NoCall EXCEPT !.pc = "writing", !.id = seq', !.callId = k]]
  /\ UNCHANGED <<reg, ws, online, linkNet, linkDevice, linkHistory>>

\* Mutant: a write error returns before the slot is given back.
WriteFailsWithSlot(c) ==
  /\ \/ /\ reg # NoConn
        /\ Steps(c, "writing", "waiting")
        /\ toEdge' = IF up[reg]
                       THEN [toEdge EXCEPT ![reg] = Append(@, [id |-> call[c].id, callId |-> call[c].callId])]
                       ELSE toEdge
     \/ /\ ~(reg \in Conns /\ up[reg])
        /\ call' = [call EXCEPT ![c] = NoCall]
        /\ UNCHANGED toEdge
  /\ UNCHANGED <<reg, ws, online, inFlight, awaiting, seq, up, toHub, opened,
                 linkDevice, linkHistory>>

\* A write to a broken connection may still succeed; the frame is lost.
Write(c) ==
  /\ \/ /\ reg # NoConn
        /\ Steps(c, "writing", "waiting")
        /\ toEdge' = IF up[reg]
                       THEN [toEdge EXCEPT ![reg] = Append(@, [id |-> call[c].id, callId |-> call[c].callId])]
                       ELSE toEdge
     \/ /\ ~(reg \in Conns /\ up[reg])
        /\ Steps(c, "writing", "leaving")
        /\ UNCHANGED toEdge
  /\ UNCHANGED <<reg, ws, online, inFlight, awaiting, seq, up, toHub, opened,
                 linkDevice, linkHistory>>

\* The answer, the timer or the caller's context: with an answer in the
\* channel the select may still take the others.
ReturnAnswer(c) ==
  /\ Steps(c, "waiting", "leaving")
  /\ \E r \in {call[c].res, "none"} : results' = [results EXCEPT ![c] = r]
  /\ UNCHANGED <<reg, ws, online, inFlight, awaiting, seq, linkNet, linkDevice, runs, granted>>

\* The deferred calls: the channel and the slot are given back.
ReleaseSlot(c) ==
  /\ call[c].pc = "leaving"
  /\ call' = [call EXCEPT ![c] = NoCall]
  /\ awaiting' = awaiting \ {call[c].id}
  /\ inFlight' = IF inFlight > 0 THEN inFlight - 1 ELSE inFlight
  /\ results' = [results EXCEPT ![c] = "none"]
  /\ UNCHANGED <<reg, ws, online, seq, linkNet, linkDevice, runs, granted>>

\* Deliver: an answer that nobody waits for, or a second one, is dropped.
Delivered(m) ==
  [c \in Callers |->
     IF m.id \in awaiting /\ call[c].id = m.id /\ call[c].res = "none"
       THEN [call[c] EXCEPT !.res = m.out] ELSE call[c]]

-----------------------------------------------------------------------------
(* The hub: handlePeerlinkWS and ConnRegistry                              *)

\* SetExclusive closes the connection that it replaces.
SetExclusive(n) ==
  /\ ws[n] = "upgraded"
  /\ ws' = [ws EXCEPT ![n] = "greeting"]
  /\ reg' = n
  /\ up' = IF reg \in Conns \ {n} THEN [up EXCEPT ![reg] = FALSE] ELSE up
  /\ UNCHANGED <<online, inFlight, awaiting, seq, call, toEdge, toHub, opened,
                 linkDevice, linkHistory>>

\* Mutant: only the greeting marks the device online, not the pings.
GreetingOnly(n) ==
  /\ ws[n] = "greeting"
  /\ ws' = [ws EXCEPT ![n] = "serving"]
  /\ online' = TRUE
  /\ UNCHANGED <<reg, inFlight, awaiting, seq, call, linkNet, linkDevice, linkHistory>>

\* The first Heartbeat, and one for every ping that is read later.
Heartbeat(n) ==
  /\ ws[n] = "greeting" \/ (ws[n] = "serving" /\ up[n])
  /\ ws' = [ws EXCEPT ![n] = "serving"]
  /\ online' = TRUE
  /\ UNCHANGED <<reg, inFlight, awaiting, seq, call, linkNet, linkDevice, linkHistory>>

ReadAnswer(n) ==
  /\ ws[n] = "serving"
  /\ toHub[n] # <<>>
  /\ toHub' = [toHub EXCEPT ![n] = Tail(@)]
  /\ call' = Delivered(Head(toHub[n]))
  /\ UNCHANGED <<reg, ws, online, inFlight, awaiting, seq, up, toEdge, opened,
                 linkDevice, linkHistory>>

\* A read fails on a broken connection; what it still held may be lost.
MarkOffline(n) ==
  /\ ws[n] = "serving" /\ ~up[n]
  /\ ws' = [ws EXCEPT ![n] = "leaving"]
  /\ online' = FALSE
  /\ toHub' = [toHub EXCEPT ![n] = <<>>]
  /\ UNCHANGED <<reg, inFlight, awaiting, seq, call, up, toEdge, opened, linkDevice, linkHistory>>

\* Mutant: the entry is deleted by the peer's id.
DeleteByPeer(n) ==
  /\ ws[n] = "leaving"
  /\ ws' = [ws EXCEPT ![n] = "closed"]
  /\ reg' = NoConn
  /\ UNCHANGED <<online, inFlight, awaiting, seq, call, linkNet, linkDevice, linkHistory>>

\* DeleteConn leaves the entry of a connection that replaced this one.
DeleteConn(n) ==
  /\ ws[n] = "leaving"
  /\ ws' = [ws EXCEPT ![n] = "closed"]
  /\ reg' = IF reg = n THEN NoConn ELSE reg
  /\ UNCHANGED <<online, inFlight, awaiting, seq, call, linkNet, linkDevice, linkHistory>>

\* The network cuts a connection at any time.
Cut(n) ==
  /\ up[n]
  /\ up' = [up EXCEPT ![n] = FALSE]
  /\ UNCHANGED <<linkHub, toEdge, toHub, opened, linkDevice, linkHistory>>

-----------------------------------------------------------------------------
(* The device: Edge.runSession and readLoop                                *)

Turns(e, from, to) ==
  /\ edge[e].pc = from
  /\ edge' = [edge EXCEPT ![e].pc = to]

\* runSession: a connection, or the end of an Edge that was cancelled.
Dial(e) ==
  /\ edge[e].pc = "dialing"
  /\ \/ /\ e \notin retired
        /\ opened < MaxConns
        /\ opened' = opened + 1
        /\ up' = [up EXCEPT ![opened'] = TRUE]
        /\ ws' = [ws EXCEPT ![opened'] = "upgraded"]
        /\ edge' = [edge EXCEPT ![e] = [pc |-> "reading", work |-> [NoWork EXCEPT !.conn = opened']]]
     \/ /\ e \in retired
        /\ edge' = [edge EXCEPT ![e] = [pc |-> "ended", work |-> NoWork]]
        /\ UNCHANGED <<opened, up, ws>>
  /\ UNCHANGED <<reg, online, inFlight, awaiting, seq, call, toEdge, toHub,
                 retired, newest, idem, asking, trusted, linkHistory>>

\* Mutant: a call that is already running runs again.
ReceiveAgain(e) ==
  LET n == edge[e].work.conn IN
  /\ edge[e].pc = "reading"
  /\ toEdge[n] # <<>>
  /\ toEdge' = [toEdge EXCEPT ![n] = Tail(@)]
  /\ LET k == Head(toEdge[n]).callId
         work == [NoWork EXCEPT !.conn = n, !.id = Head(toEdge[n]).id, !.callId = k]
     IN \/ /\ idem[k].out # "ok"
           /\ idem' = [idem EXCEPT ![k] = [by |-> e, out |-> "none"]]
           /\ edge' = [edge EXCEPT ![e] = [pc |-> "requiring", work |-> work]]
        \/ /\ idem[k].out = "ok"
           /\ edge' = [edge EXCEPT ![e] =
                         [pc |-> "duplicate", work |-> [work EXCEPT !.of = idem[k].by,
                                                                    !.out = idem[k].out]]]
           /\ UNCHANGED idem
  /\ UNCHANGED <<linkHub, up, toHub, opened, retired, newest, asking, trusted, linkHistory>>

\* A frame of the connection, also when it broke after the frame arrived.
ReceiveFrame(e) ==
  LET n == edge[e].work.conn IN
  /\ edge[e].pc = "reading"
  /\ toEdge[n] # <<>>
  /\ toEdge' = [toEdge EXCEPT ![n] = Tail(@)]
  /\ LET k == Head(toEdge[n]).callId
         work == [NoWork EXCEPT !.conn = n, !.id = Head(toEdge[n]).id, !.callId = k]
     IN \/ /\ idem[k].by = NoEdge
           /\ idem' = [idem EXCEPT ![k] = [by |-> e, out |-> "none"]]
           /\ edge' = [edge EXCEPT ![e] = [pc |-> "requiring", work |-> work]]
        \/ /\ idem[k].by # NoEdge
           /\ edge' = [edge EXCEPT ![e] =
                         [pc |-> "duplicate", work |-> [work EXCEPT !.of = idem[k].by,
                                                                    !.out = idem[k].out]]]
           /\ UNCHANGED idem
  /\ UNCHANGED <<linkHub, up, toHub, opened, retired, newest, asking, trusted, linkHistory>>

\* The read fails; the session ends, and is followed by another one after a
\* backoff unless the Edge was cancelled.  An Edge that is cancelled while it
\* reads notices only when a read returns.
Disconnect(e) ==
  /\ edge[e].pc = "reading"
  /\ ~up[edge[e].work.conn]
  /\ edge' = [edge EXCEPT ![e] = [pc |-> IF e \in retired THEN "ended" ELSE "dialing", work |-> NoWork]]
  /\ UNCHANGED <<linkHub, linkNet, retired, newest, idem, asking, trusted, linkHistory>>

\* The answer is lost with a broken connection.  A cancelled Edge closes its
\* connection before it reads again.
Answer(e) ==
  LET w == edge[e].work IN
  /\ edge[e].pc = "answering"
  /\ toHub' = IF up[w.conn]
                THEN [toHub EXCEPT ![w.conn] = Append(@, [id |-> w.id, out |-> w.out])]
                ELSE toHub
  /\ IF e \in retired
       THEN /\ edge' = [edge EXCEPT ![e] = [pc |-> "ended", work |-> NoWork]]
            /\ up' = [up EXCEPT ![w.conn] = FALSE]
       ELSE /\ edge' = [edge EXCEPT ![e] = [pc |-> "reading", work |-> [NoWork EXCEPT !.conn = w.conn]]]
            /\ UNCHANGED up
  /\ UNCHANGED <<linkHub, toEdge, opened, retired, newest, idem, asking, trusted, linkHistory>>

\* startEdgeLocked: a pairing starts an Edge and cancels the one before it.
StartEdge ==
  /\ newest + 1 \in Edges
  /\ retired' = (retired \cup {newest}) \ {NoEdge}
  /\ newest' = newest + 1
  /\ edge' = [edge EXCEPT ![newest'].pc = "dialing"]
  /\ UNCHANGED <<linkHub, linkNet, idem, asking, trusted, linkHistory>>

-----------------------------------------------------------------------------
(* The device: PeerAgentInvokeHandler and Approver                         *)

\* The same call is being run, or was: its outcome is the answer, unless the
\* wait for it ends first.
AnswerDuplicate(e) ==
  /\ edge[e].pc = "duplicate"
  /\ \E out \in {edge[e].work.out, "failed"} \ {"none"} :
       edge' = [edge EXCEPT ![e].pc = "answering", ![e].work.out = out]
  /\ UNCHANGED <<linkHub, linkNet, retired, newest, idem, asking, trusted, linkHistory>>

\* Mutant: trust is enough for every tool.
RequireUnlessTrusted(e) ==
  LET k == edge[e].work.callId IN
  /\ IF trusted
       THEN Turns(e, "requiring", "executing") /\ UNCHANGED asking
       ELSE Turns(e, "requiring", "approving") /\ asking' = [asking EXCEPT ![k] = e]
  /\ granted' = granted \ {k}
  /\ UNCHANGED <<linkHub, linkNet, retired, newest, idem, trusted, runs, results>>

\* Require: a trusted hub needs no approval, unless the tool is destructive.
Require(e) ==
  LET k == edge[e].work.callId IN
  /\ IF trusted /\ k \notin Destructive
       THEN Turns(e, "requiring", "executing") /\ UNCHANGED asking
       ELSE Turns(e, "requiring", "approving") /\ asking' = [asking EXCEPT ![k] = e]
  /\ granted' = granted \ {k}
  /\ UNCHANGED <<linkHub, linkNet, retired, newest, idem, trusted, runs, results>>

\* The user decides once; the decision waits in the channel of the request.
\* To decline or to cancel ends the request as its timeout does (Settle).
UserDecides ==
  /\ \E k \in CallIds, d \in Decisions \ {"none"} :
       /\ asking[k] # NoEdge
       /\ edge[asking[k]].work.dec = "none"
       /\ edge' = [edge EXCEPT ![asking[k]].work.dec = d]
       /\ granted' = granted \cup {k}
  /\ UNCHANGED <<linkHub, linkNet, retired, newest, idem, asking, trusted, runs, results>>

\* The select of Require takes the decision or the timeout, which declines.
Settle(e) ==
  LET w == edge[e].work IN
  /\ edge[e].pc = "approving"
  /\ asking' = [asking EXCEPT ![w.callId] = NoEdge]
  /\ \/ /\ w.dec \in {"accept", "trust"}
        /\ edge' = [edge EXCEPT ![e].pc = "executing"]
        /\ trusted' = (trusted \/ w.dec = "trust")
     \/ /\ edge' = [edge EXCEPT ![e].pc = "finishing", ![e].work.out = "failed"]
        /\ UNCHANGED trusted
  /\ UNCHANGED <<linkHub, linkNet, retired, newest, idem, linkHistory>>

\* executeAgentTool.
Execute(e) ==
  /\ edge[e].pc = "executing"
  /\ \E out \in Outcomes :
       /\ edge' = [edge EXCEPT ![e].pc = "finishing", ![e].work.out = out]
       /\ runs' = IF out = "ok" THEN [runs EXCEPT ![edge[e].work.callId] = @ + 1] ELSE runs
  /\ UNCHANGED <<linkHub, linkNet, retired, newest, idem, asking, trusted, granted, results>>

\* The outcome is set and done is closed: who waits for this run has it.
Finish(e) ==
  LET w == edge[e].work IN
  /\ edge[e].pc = "finishing"
  /\ idem' = [idem EXCEPT ![w.callId] = IF @.by = e THEN [@ EXCEPT !.out = w.out] ELSE @]
  /\ edge' = [d \in Edges |->
       CASE d = e -> [edge[e] EXCEPT !.pc = IF w.out = "ok" THEN "answering" ELSE "dropping"]
         [] d # e /\ edge[d].pc = "duplicate" /\ edge[d].work.of = e
                  /\ edge[d].work.callId = w.callId /\ edge[d].work.out = "none"
              -> [edge[d] EXCEPT !.work.out = w.out]
         [] OTHER -> edge[d]]
  /\ UNCHANGED <<linkHub, linkNet, retired, newest, asking, trusted, linkHistory>>

\* Mutant: the failed call stays in the table, without its outcome.
DropOutcome(e) ==
  /\ Turns(e, "dropping", "answering")
  /\ idem' = [idem EXCEPT ![edge[e].work.callId].out = "none"]
  /\ UNCHANGED <<linkHub, linkNet, retired, newest, asking, trusted, linkHistory>>

\* drop: a failed call may be tried again.
Drop(e) ==
  /\ Turns(e, "dropping", "answering")
  /\ idem' = [idem EXCEPT ![edge[e].work.callId] = NoEntry]
  /\ UNCHANGED <<linkHub, linkNet, retired, newest, asking, trusted, linkHistory>>

-----------------------------------------------------------------------------

HubStep ==
  \/ \E c \in Callers : CallPeer(c) \/ Write(c) \/ ReturnAnswer(c) \/ ReleaseSlot(c)
  \/ \E n \in Conns : \/ SetExclusive(n) \/ Heartbeat(n) \/ ReadAnswer(n)
                      \/ MarkOffline(n) \/ DeleteConn(n)

EdgeStep(e) ==
  \/ Dial(e) \/ ReceiveFrame(e) \/ Disconnect(e) \/ Answer(e)
  \/ AnswerDuplicate(e) \/ Require(e) \/ Settle(e) \/ Execute(e) \/ Finish(e) \/ Drop(e)

LinkNext ==
  \/ HubStep
  \/ \E e \in Edges : EdgeStep(e)
  \/ \E n \in Conns : Cut(n)
  \/ StartEdge
  \/ UserDecides

\* Goroutines are scheduled, tools and timers end.  Neither cuts, nor the
\* user, nor another call has to come.
LinkFairness ==
  /\ \A c \in Callers : WF_linkVars(Write(c) \/ ReturnAnswer(c) \/ ReleaseSlot(c))
  /\ \A n \in Conns : WF_linkVars(SetExclusive(n) \/ Heartbeat(n) \/ MarkOffline(n) \/ DeleteConn(n))
  /\ \A e \in Edges : WF_linkVars(EdgeStep(e))

LinkSpec == LinkInit /\ [][LinkNext]_linkVars /\ LinkFairness

-----------------------------------------------------------------------------
(* Properties                                                              *)

\* Types.
LinkTypeOK ==
  /\ reg \in Conns \cup {NoConn}
  /\ ws \in [Conns -> {"none", "upgraded", "greeting", "serving", "leaving", "closed"}]
  /\ online \in BOOLEAN
  /\ seq \in 0..MaxFrames /\ opened \in 0..MaxConns
  /\ awaiting \subseteq 1..seq
  /\ call \in [Callers -> [pc : CallPCs, id : 0..MaxFrames, callId : CallIds \cup {NoFrame},
                           res : Outcomes \cup {"none"}]]
  /\ up \in [Conns -> BOOLEAN]
  /\ edge \in [Edges -> [pc : EdgePCs,
                         work : [conn : 0..MaxConns, id : 0..MaxFrames, callId : CallIds \cup {NoFrame},
                                 out : Outcomes \cup {"none"}, dec : Decisions,
                                 of : Edges \cup {NoEdge}]]]
  /\ retired \subseteq Edges /\ newest \in Edges \cup {NoEdge}
  /\ idem \in [CallIds -> [by : Edges \cup {NoEdge}, out : Outcomes \cup {"none"}]]
  /\ asking \in [CallIds -> Edges \cup {NoEdge}]
  /\ trusted \in BOOLEAN
  /\ granted \subseteq CallIds

\* The slots of the device that are taken, and the answers that are awaited,
\* are those of the callers that are under way: none leaks on an error, a
\* timeout or a busy device, whatever the order of the deferred calls.
SlotsAreExact ==
  /\ inFlight = Cardinality({c \in Callers : call[c].pc # "idle"}) /\ inFlight <= MaxInFlight
  /\ awaiting = {call[c].id : c \in {d \in Callers : call[d].pc # "idle"}}

\* The tool of a call id runs with success once, although the call is written
\* again after a lost answer, to another connection and to another Edge, while
\* the first one still waits for the user (peerlink_agent_api.go:79).
ToolRunsOnce ==
  /\ \A k \in CallIds : runs[k] <= 1
  /\ \A d, e \in Edges : /\ d # e /\ edge[d].pc = "executing" /\ edge[e].pc = "executing"
                         => edge[d].work.callId # edge[e].work.callId

\* A caller that was answered "ok" called a tool that ran, and a destructive
\* one ran because the user approved that call.
AnswersAreEarned ==
  /\ \A c \in Callers : results[c] = "ok" /\ call[c].callId # NoFrame => runs[call[c].callId] = 1
  /\ \A k \in Destructive : runs[k] > 0 => k \in granted

\* The connection that the hub has registered is closed, replaced or served:
\* the end of an older handler does not take it from the calls.
NewestIsKept == [][\A n \in Conns : reg = n /\ reg' = NoConn => ~up[n]]_linkVars

\* A repeated call waits for a run that is still under way, and no run is
\* entered in the table by an Edge that has left it: nobody waits in vain, also
\* when the Edge of the first call was cancelled by a new pairing.
WaitersHaveARunner ==
  LET Runs(e, k) == /\ edge[e].pc \in {"requiring", "approving", "executing", "finishing"}
                    /\ edge[e].work.callId = k
  IN /\ \A k \in CallIds : idem[k].by # NoEdge /\ idem[k].out = "none" => Runs(idem[k].by, k)
     /\ \A e \in Edges : edge[e].pc = "duplicate" /\ edge[e].work.out = "none"
                         => Runs(edge[e].work.of, edge[e].work.callId)

\* A device whose connection stays is shown online, although the handler of an
\* older connection marks it offline when it leaves; one without a connection
\* is not shown online for ever (hub.go:483).
OnlineFollows ==
  /\ \A n \in Conns : reg = n /\ up[n] ~> online \/ reg # n \/ ~up[n]
  /\ (\A n \in Conns : ~up[n]) ~> ~online \/ (\E n \in Conns : up[n])
=============================================================================
