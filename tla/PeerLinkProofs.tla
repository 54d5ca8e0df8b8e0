------------------------- MODULE PeerLinkProofs -------------------------
(***************************************************************************)
(* Calls over the link: the proofs, for any callers, call ids, edges,      *)
(* frames and connections.                                                 *)
(*                                                                         *)
(* Callers that are under way have a slot and a frame of their own.  The   *)
(* table of the device names for each call id the one Edge that runs it.   *)
(* What answers a frame knows the call id of the frame.                    *)
(***************************************************************************)
EXTENDS PeerLink, FiniteSetTheorems, TLAPS

CallRecords == [pc : CallPCs, id : Nat, callId : CallIds \cup {NoFrame},
                res : Outcomes \cup {"none"}]
WorkRecords == [conn : Conns \cup {NoConn}, id : Nat, callId : CallIds \cup {NoFrame},
                out : Outcomes \cup {"none"}, dec : Decisions, of : Edges \cup {NoEdge}]
EdgeRecords == [pc : EdgePCs, work : WorkRecords]
FrameRecords == [id : Nat, callId : CallIds]
ReplyRecords == [id : Nat, out : Outcomes \cup {"none"}]
EntryRecords == [by : Edges \cup {NoEdge}, out : Outcomes \cup {"none"}]

\* An Edge without a session.
Apart == {"off", "dialing", "ended"}

Types ==
  /\ call \in [Callers -> CallRecords]
  /\ \A c \in Callers : call[c].pc # "idle" => call[c].callId \in CallIds
  /\ seq \in Nat
  /\ results \in [Callers -> Outcomes \cup {"none"}]
  /\ reg \in Conns \cup {NoConn}
  /\ opened \in 0..MaxConns
  /\ up \in [Conns -> BOOLEAN]
  /\ toEdge \in [Conns -> Seq(FrameRecords)]
  /\ toHub \in [Conns -> Seq(ReplyRecords)]
  /\ edge \in [Edges -> EdgeRecords]
  /\ \A e \in Edges : edge[e].pc \notin Apart => edge[e].work.conn \in Conns
  /\ idem \in [CallIds -> EntryRecords]
  /\ asking \in [CallIds -> Edges \cup {NoEdge}]
  /\ newest \in Edges \cup {NoEdge}

LEMMA NoEdgeIsNone == NoEdge \notin Edges
  BY LinkAssumption DEF NoEdge

LEMMA NoWorkType == NoWork \in WorkRecords
  BY DEF NoWork, WorkRecords, NoConn, NoFrame, NoEdge, Decisions

LEMMA InitTypes == LinkInit => Types
<1> SUFFICES ASSUME LinkInit
             PROVE  Types
  OBVIOUS
<1>1. NoCall \in CallRecords /\ NoCall.pc = "idle"
  BY DEF NoCall, CallRecords, CallPCs, NoFrame
<1>2. /\ call \in [Callers -> CallRecords]
      /\ \A c \in Callers : call[c].pc # "idle" => call[c].callId \in CallIds
  BY <1>1 DEF LinkInit
<1>3. NoEntry \in EntryRecords
  BY DEF NoEntry, EntryRecords
<1>4. edge \in [Edges -> EdgeRecords] /\ \A e \in Edges : edge[e].pc \in Apart
  BY NoWorkType DEF LinkInit, EdgePCs, Apart, EdgeRecords
<1> QED
  BY <1>2, <1>3, <1>4, LinkAssumption DEF LinkInit, Types

\* A caller that goes on keeps its call.
LEMMA StepsKeep ==
  ASSUME Types, NEW c \in Callers, NEW from \in CallPCs \ {"idle"}, NEW to \in CallPCs \ {"idle"},
         Steps(c, from, to)
  PROVE  /\ call' \in [Callers -> CallRecords]
         /\ \A d \in Callers : call'[d].pc # "idle" => call'[d].callId \in CallIds
         /\ \A d \in Callers : /\ call'[d].id = call[d].id /\ call'[d].callId = call[d].callId
                              /\ call'[d].res = call[d].res
                              /\ call'[d].pc = IF d = c THEN to ELSE call[d].pc
<1> DEFINE r == [call[c] EXCEPT !.pc = to]
<1>1. call[c] \in CallRecords /\ call[c].pc = from /\ call[c].callId \in CallIds
  BY DEF Steps, Types
<1>2. /\ r \in CallRecords /\ r.pc = to /\ r.id = call[c].id
      /\ r.callId = call[c].callId /\ r.res = call[c].res
  BY <1>1 DEF CallRecords
<1>3. call' = [call EXCEPT ![c] = r]
  BY DEF Steps
<1> HIDE DEF r
<1> QED
  BY <1>1, <1>2, <1>3 DEF Types

LEMMA HubTypes == ASSUME Types, HubStep PROVE Types'
<1>1. ASSUME NEW c \in Callers, CallPeer(c)
      PROVE  Types'
  <2>1. PICK k \in CallIds : call' = [call EXCEPT ![c] = [NoCall EXCEPT !.pc = "writing", !.id = seq', !.callId = k]]
    BY <1>1 DEF CallPeer
  <2>2. [NoCall EXCEPT !.pc = "writing", !.id = seq', !.callId = k] \in CallRecords
    <3>1. seq' \in Nat
      BY <1>1 DEF CallPeer, Types
    <3> QED
      BY <3>1 DEF NoCall, CallRecords, CallPCs
  <2>3. /\ call' \in [Callers -> CallRecords]
        /\ \A d \in Callers : call'[d].pc # "idle" => call'[d].callId \in CallIds
    BY <2>1, <2>2 DEF Types, NoCall
  <2> QED
    BY <1>1, <2>3 DEF CallPeer, Types, linkNet, linkDevice, linkHistory
<1>2. ASSUME NEW c \in Callers, Write(c)
      PROVE  Types'
  <2>1. /\ call' \in [Callers -> CallRecords]
        /\ \A d \in Callers : call'[d].pc # "idle" => call'[d].callId \in CallIds
    BY <1>2, StepsKeep DEF Write, CallPCs
  <2>2. toEdge' \in [Conns -> Seq(FrameRecords)]
    <3>1. [id |-> call[c].id, callId |-> call[c].callId] \in FrameRecords
      <4>1. call[c] \in CallRecords /\ (call[c].pc = "writing" => call[c].callId \in CallIds)
        BY DEF Types
      <4>2. call[c].id \in Nat /\ call[c].pc = "writing"
        BY <1>2, <4>1 DEF Write, Steps, CallRecords
      <4> QED
        BY <4>1, <4>2 DEF FrameRecords
    <3>2. \A s \in Seq(FrameRecords) : Append(s, [id |-> call[c].id, callId |-> call[c].callId]) \in Seq(FrameRecords)
      BY <3>1
    <3> QED
      <4>1. CASE toEdge' = toEdge
        BY <4>1 DEF Types
      <4>2. CASE reg \in Conns /\ toEdge' = [toEdge EXCEPT ![reg] = Append(toEdge[reg], [id |-> call[c].id, callId |-> call[c].callId])]
        BY <4>2, <3>2 DEF Types
      <4> QED
        BY <1>2, <4>1, <4>2 DEF Write, Types
  <2> QED
    BY <1>2, <2>1, <2>2 DEF Write, Types, linkDevice, linkHistory
<1>3. ASSUME NEW c \in Callers, ReturnAnswer(c)
      PROVE  Types'
  <2>1. /\ call' \in [Callers -> CallRecords]
        /\ \A d \in Callers : call'[d].pc # "idle" => call'[d].callId \in CallIds
    BY <1>3, StepsKeep DEF ReturnAnswer, CallPCs
  <2>2. results' \in [Callers -> Outcomes \cup {"none"}]
    BY <1>3 DEF ReturnAnswer, Types, CallRecords
  <2> QED
    BY <1>3, <2>1, <2>2 DEF ReturnAnswer, Types, linkNet, linkDevice
<1>4. ASSUME NEW c \in Callers, ReleaseSlot(c)
      PROVE  Types'
  <2>1. NoCall \in CallRecords /\ NoCall.pc = "idle"
    BY DEF NoCall, CallRecords, CallPCs, NoFrame
  <2>2. /\ call' \in [Callers -> CallRecords]
        /\ \A d \in Callers : call'[d].pc # "idle" => call'[d].callId \in CallIds
    BY <1>4, <2>1 DEF ReleaseSlot, Types
  <2> QED
    BY <1>4, <2>2 DEF ReleaseSlot, Types, linkNet, linkDevice
<1>5. ASSUME NEW n \in Conns, SetExclusive(n) \/ Heartbeat(n) \/ DeleteConn(n)
      PROVE  Types'
  BY <1>5 DEF SetExclusive, Heartbeat, DeleteConn, Types, linkDevice, linkHistory, linkNet
<1>6. ASSUME NEW n \in Conns, ReadAnswer(n)
      PROVE  Types'
  <2>1. toHub[n] \in Seq(ReplyRecords) /\ toHub[n] # <<>>
    BY <1>6 DEF ReadAnswer, Types
  <2>2. Head(toHub[n]) \in ReplyRecords /\ Tail(toHub[n]) \in Seq(ReplyRecords)
    BY <2>1
  <2>3. toHub' \in [Conns -> Seq(ReplyRecords)]
    BY <1>6, <2>2 DEF ReadAnswer, Types
  <2>4. /\ call' \in [Callers -> CallRecords]
        /\ \A d \in Callers : call'[d].pc # "idle" => call'[d].callId \in CallIds
    <3>1. ASSUME NEW d \in Callers
          PROVE  /\ call'[d] \in CallRecords
                 /\ call'[d].pc = call[d].pc /\ call'[d].callId = call[d].callId
      <4>1. call[d] \in CallRecords /\ Head(toHub[n]).out \in Outcomes \cup {"none"}
        BY <2>2 DEF Types, ReplyRecords
      <4>2. \/ call'[d] = call[d]
            \/ call'[d] = [call[d] EXCEPT !.res = Head(toHub[n]).out]
        BY <1>6 DEF ReadAnswer, Delivered
      <4> QED
        BY <4>1, <4>2 DEF CallRecords
    <3>2. call' \in [Callers -> CallRecords]
      BY <1>6, <3>1 DEF ReadAnswer, Delivered
    <3> QED
      BY <3>1, <3>2 DEF Types
  <2> QED
    BY <1>6, <2>3, <2>4 DEF ReadAnswer, Types, linkDevice, linkHistory
<1>7. ASSUME NEW n \in Conns, MarkOffline(n)
      PROVE  Types'
  BY <1>7 DEF MarkOffline, Types, linkDevice, linkHistory
<1> QED
  BY <1>1, <1>2, <1>3, <1>4, <1>5, <1>6, <1>7 DEF HubStep

\* What an Edge's record holds after its program counter, the outcome or the
\* decision of its work was set.
LEMMA PcSet ==
  ASSUME NEW r \in EdgeRecords, NEW p \in EdgePCs
  PROVE  /\ [r EXCEPT !.pc = p] \in EdgeRecords
         /\ [r EXCEPT !.pc = p].pc = p /\ [r EXCEPT !.pc = p].work = r.work
  BY DEF EdgeRecords

WithOut(r, x) == [r EXCEPT !.work.out = x]
WithDecision(r, x) == [r EXCEPT !.work.dec = x]

LEMMA OutSet ==
  ASSUME NEW r \in EdgeRecords, NEW x \in Outcomes \cup {"none"},
         NEW s, s = WithOut(r, x)
  PROVE  /\ s \in EdgeRecords /\ s.pc = r.pc
         /\ s.work.out = x /\ s.work.conn = r.work.conn /\ s.work.id = r.work.id
         /\ s.work.callId = r.work.callId /\ s.work.dec = r.work.dec /\ s.work.of = r.work.of
<1> DEFINE v == [r.work EXCEPT !.out = x]
<1>1. /\ v \in WorkRecords
      /\ v.out = x /\ v.conn = r.work.conn /\ v.id = r.work.id
      /\ v.callId = r.work.callId /\ v.dec = r.work.dec /\ v.of = r.work.of
  BY DEF EdgeRecords, WorkRecords
<1> HIDE DEF v
<1>2. /\ [r EXCEPT !.work = v] \in EdgeRecords /\ [r EXCEPT !.work = v].pc = r.pc
      /\ [r EXCEPT !.work = v].work = v
  BY <1>1 DEF EdgeRecords
<1>3. s = [r EXCEPT !.work = v]
  BY DEF v, WithOut
<1> QED
  BY <1>1, <1>2, <1>3

LEMMA DecSet ==
  ASSUME NEW r \in EdgeRecords, NEW x \in Decisions,
         NEW s, s = WithDecision(r, x)
  PROVE  /\ s \in EdgeRecords /\ s.pc = r.pc
         /\ s.work.dec = x /\ s.work.conn = r.work.conn /\ s.work.id = r.work.id
         /\ s.work.callId = r.work.callId /\ s.work.out = r.work.out /\ s.work.of = r.work.of
<1> DEFINE v == [r.work EXCEPT !.dec = x]
<1>1. /\ v \in WorkRecords
      /\ v.dec = x /\ v.conn = r.work.conn /\ v.id = r.work.id
      /\ v.callId = r.work.callId /\ v.out = r.work.out /\ v.of = r.work.of
  BY DEF EdgeRecords, WorkRecords
<1> HIDE DEF v
<1>2. /\ [r EXCEPT !.work = v] \in EdgeRecords /\ [r EXCEPT !.work = v].pc = r.pc
      /\ [r EXCEPT !.work = v].work = v
  BY <1>1 DEF EdgeRecords
<1>3. s = [r EXCEPT !.work = v]
  BY DEF v, WithDecision
<1> QED
  BY <1>1, <1>2, <1>3


\* The steps of an Edge e, as what they make of each part of its record.
Alone(e) == edge' \in [Edges -> EdgeRecords] /\ \A d \in Edges \ {e} : edge'[d] = edge[d]
Serves(e) == /\ edge'[e].work.conn = edge[e].work.conn /\ edge'[e].work.id = edge[e].work.id
             /\ edge'[e].work.callId = edge[e].work.callId /\ edge'[e].work.of = edge[e].work.of
Becomes(e, p, x) == /\ Alone(e) /\ Serves(e) /\ edge'[e].work.dec = edge[e].work.dec
                    /\ edge'[e].pc = p /\ edge'[e].work.out = x

LEMMA PcBecomes ==
  ASSUME Types, NEW e \in Edges, NEW p \in EdgePCs, edge' = [edge EXCEPT ![e].pc = p]
  PROVE  Becomes(e, p, edge[e].work.out)
<1>1. edge[e] \in EdgeRecords
  BY DEF Types
<1>2. PICK r : r = [edge[e] EXCEPT !.pc = p]
  OBVIOUS
<1>3. r \in EdgeRecords /\ r.pc = p /\ r.work = edge[e].work
  BY <1>1, <1>2, PcSet
<1>4. edge' = [edge EXCEPT ![e] = r]
  BY <1>2
<1> QED
  BY <1>3, <1>4 DEF Types, Becomes, Alone, Serves

LEMMA PcOutBecomes ==
  ASSUME Types, NEW e \in Edges, NEW p \in EdgePCs, NEW x \in Outcomes \cup {"none"},
         edge' = [edge EXCEPT ![e].pc = p, ![e].work.out = x]
  PROVE  Becomes(e, p, x)
<1>1. edge[e] \in EdgeRecords
  BY DEF Types
<1>2. PICK r : r = [edge[e] EXCEPT !.pc = p]
  OBVIOUS
<1>3. r \in EdgeRecords /\ r.pc = p /\ r.work = edge[e].work
  BY <1>1, <1>2, PcSet
<1>4. PICK s : s = WithOut(r, x)
  OBVIOUS
<1>5. /\ s \in EdgeRecords /\ s.pc = p /\ s.work.out = x /\ s.work.dec = edge[e].work.dec
      /\ s.work.conn = edge[e].work.conn /\ s.work.id = edge[e].work.id
      /\ s.work.callId = edge[e].work.callId /\ s.work.of = edge[e].work.of
  BY <1>3, <1>4, OutSet
<1>6. edge' = [edge EXCEPT ![e] = s]
  BY <1>2, <1>4 DEF WithOut
<1> QED
  BY <1>5, <1>6 DEF Types, Becomes, Alone, Serves

LEMMA DialView ==
  ASSUME Types, NEW e \in Edges, Dial(e)
  PROVE  /\ Alone(e) /\ edge[e].pc = "dialing" /\ edge'[e].pc \in {"reading", "ended"}
         /\ edge'[e].work.id = NoFrame /\ edge'[e].work.out = "none"
         /\ edge'[e].pc = "reading" => edge'[e].work.conn \in Conns
<1>1. CASE opened < MaxConns /\ opened' = opened + 1
           /\ edge' = [edge EXCEPT ![e] = [pc |-> "reading", work |-> [NoWork EXCEPT !.conn = opened']]]
  <2>1. opened' \in Conns
    BY <1>1, LinkAssumption DEF Types, Conns
  <2>2. /\ [NoWork EXCEPT !.conn = opened'] \in WorkRecords /\ [NoWork EXCEPT !.conn = opened'].conn = opened'
        /\ [NoWork EXCEPT !.conn = opened'].id = NoFrame /\ [NoWork EXCEPT !.conn = opened'].out = "none"
    BY <2>1, NoWorkType DEF WorkRecords, NoWork
  <2> QED
    BY <1>1, <2>1, <2>2 DEF Dial, Types, Alone, EdgeRecords, EdgePCs
<1>2. CASE edge' = [edge EXCEPT ![e] = [pc |-> "ended", work |-> NoWork]]
  BY <1>2, NoWorkType DEF Dial, Types, Alone, EdgeRecords, EdgePCs, NoWork
<1> QED
  BY <1>1, <1>2 DEF Dial

LEMMA DisconnectView ==
  ASSUME Types, NEW e \in Edges, Disconnect(e)
  PROVE  /\ Alone(e) /\ edge[e].pc = "reading" /\ edge'[e].pc \in {"dialing", "ended"}
         /\ edge'[e].work.id = NoFrame /\ edge'[e].work.out = "none"
<1>1. \E p \in {"dialing", "ended"} : edge' = [edge EXCEPT ![e] = [pc |-> p, work |-> NoWork]]
  BY DEF Disconnect
<1> QED
  BY <1>1, NoWorkType DEF Disconnect, Types, Alone, EdgeRecords, EdgePCs, NoWork

LEMMA AnswerView ==
  ASSUME Types, NEW e \in Edges, Answer(e)
  PROVE  /\ Alone(e) /\ edge[e].pc = "answering" /\ edge'[e].pc \in {"reading", "ended"}
         /\ edge'[e].work.id = NoFrame /\ edge'[e].work.out = "none"
         /\ edge'[e].pc = "reading" => edge'[e].work.conn \in Conns
<1>1. edge[e].pc = "answering" /\ edge[e].work \in WorkRecords /\ edge[e].work.conn \in Conns
  BY DEF Answer, Types, Apart, EdgeRecords
<1>2. PICK v : v = [NoWork EXCEPT !.conn = edge[e].work.conn]
  OBVIOUS
<1>3. v \in WorkRecords /\ v.conn \in Conns /\ v.id = NoFrame /\ v.out = "none"
  BY <1>1, <1>2, NoWorkType DEF WorkRecords, NoWork
<1>4. \/ edge' = [edge EXCEPT ![e] = [pc |-> "ended", work |-> NoWork]]
      \/ edge' = [edge EXCEPT ![e] = [pc |-> "reading", work |-> v]]
  BY <1>2 DEF Answer
<1>5. CASE edge' = [edge EXCEPT ![e] = [pc |-> "ended", work |-> NoWork]]
  BY <1>1, <1>5, NoWorkType DEF Types, Alone, EdgeRecords, EdgePCs, NoWork
<1>6. CASE edge' = [edge EXCEPT ![e] = [pc |-> "reading", work |-> v]]
  BY <1>1, <1>3, <1>6 DEF Types, Alone, EdgeRecords, EdgePCs
<1> QED
  BY <1>4, <1>5, <1>6

\* A frame that is received is the first of its connection, and its Edge runs
\* it or follows the Edge that did.
LEMMA ReceiveView ==
  ASSUME Types, NEW e \in Edges, ReceiveFrame(e)
  PROVE  /\ Alone(e) /\ edge[e].pc = "reading"
         /\ edge[e].work.conn \in Conns /\ edge'[e].work.conn \in Conns
         /\ toEdge[edge[e].work.conn] \in Seq(FrameRecords)
         /\ toEdge[edge[e].work.conn] # <<>>
         /\ toEdge' = [toEdge EXCEPT ![edge[e].work.conn] = Tail(toEdge[edge[e].work.conn])]
         /\ edge'[e].work.callId \in CallIds
         /\ edge'[e].work.callId = Head(toEdge[edge[e].work.conn]).callId
         /\ edge'[e].work.id = Head(toEdge[edge[e].work.conn]).id
         /\ \/ /\ idem[edge'[e].work.callId].by = NoEdge
               /\ idem' = [idem EXCEPT ![edge'[e].work.callId] = [by |-> e, out |-> "none"]]
               /\ edge'[e].pc = "requiring" /\ edge'[e].work.out = "none"
               /\ edge'[e].work.dec = "none"
            \/ /\ idem[edge'[e].work.callId].by # NoEdge
               /\ idem' = idem
               /\ edge'[e].pc = "duplicate"
               /\ edge'[e].work.out = idem[edge'[e].work.callId].out
               /\ edge'[e].work.of = idem[edge'[e].work.callId].by
<1> DEFINE n == edge[e].work.conn
           m == Head(toEdge[n])
           k == m.callId
           work == [NoWork EXCEPT !.conn = n, !.id = m.id, !.callId = k]
           seen == [work EXCEPT !.of = idem[k].by, !.out = idem[k].out]
<1>1. n \in Conns /\ toEdge[n] \in Seq(FrameRecords) /\ toEdge[n] # <<>>
  BY DEF ReceiveFrame, Types, Apart
<1>2. m \in FrameRecords
  BY <1>1
<1>3. /\ k \in CallIds /\ work \in WorkRecords /\ work.conn = n /\ work.id = m.id
      /\ work.callId = k /\ work.out = "none" /\ work.dec = "none"
  BY <1>1, <1>2, NoWorkType DEF FrameRecords, WorkRecords, NoWork
<1>4. idem[k] \in EntryRecords
  BY <1>3 DEF Types
<1>5. /\ seen \in WorkRecords /\ seen.conn = n /\ seen.id = m.id /\ seen.callId = k
      /\ seen.of = idem[k].by /\ seen.out = idem[k].out
  BY <1>3, <1>4 DEF WorkRecords, EntryRecords
<1>6. \/ /\ idem[k].by = NoEdge
         /\ idem' = [idem EXCEPT ![k] = [by |-> e, out |-> "none"]]
         /\ edge' = [edge EXCEPT ![e] = [pc |-> "requiring", work |-> work]]
      \/ /\ idem[k].by # NoEdge
         /\ idem' = idem
         /\ edge' = [edge EXCEPT ![e] = [pc |-> "duplicate", work |-> seen]]
  BY DEF ReceiveFrame
<1>7. edge[e].pc = "reading" /\ toEdge' = [toEdge EXCEPT ![n] = Tail(toEdge[n])]
  BY DEF ReceiveFrame
<1> HIDE DEF work, seen, m
<1>8. CASE edge' = [edge EXCEPT ![e] = [pc |-> "requiring", work |-> work]]
  <2>1. /\ Alone(e) /\ edge'[e].pc = "requiring" /\ edge'[e].work = work
    BY <1>3, <1>8 DEF Types, Alone, EdgeRecords, EdgePCs
  <2>2. idem[k].by = NoEdge /\ idem' = [idem EXCEPT ![k] = [by |-> e, out |-> "none"]]
    <3>1. edge' # [edge EXCEPT ![e] = [pc |-> "duplicate", work |-> seen]]
      BY <2>1 DEF Types
    <3> QED
      BY <1>6, <3>1
  <2> QED
    BY <1>1, <1>3, <1>7, <2>1, <2>2 DEF m
<1>9. CASE edge' = [edge EXCEPT ![e] = [pc |-> "duplicate", work |-> seen]]
  <2>1. /\ Alone(e) /\ edge'[e].pc = "duplicate" /\ edge'[e].work = seen
    BY <1>5, <1>9 DEF Types, Alone, EdgeRecords, EdgePCs
  <2>2. idem[k].by # NoEdge /\ idem' = idem
    <3>1. edge' # [edge EXCEPT ![e] = [pc |-> "requiring", work |-> work]]
      BY <2>1 DEF Types
    <3> QED
      BY <1>6, <3>1
  <2> QED
    BY <1>1, <1>3, <1>5, <1>7, <2>1, <2>2 DEF m
<1> QED
  BY <1>6, <1>8, <1>9

LEMMA AnswerDuplicateView ==
  ASSUME Types, NEW e \in Edges, AnswerDuplicate(e)
  PROVE  /\ edge[e].pc = "duplicate"
         /\ \E x \in {edge[e].work.out, "failed"} \cap Outcomes : Becomes(e, "answering", x)
<1>1. edge[e].work.out \in Outcomes \cup {"none"}
  BY DEF Types, EdgeRecords, WorkRecords
<1>2. PICK x \in {edge[e].work.out, "failed"} \ {"none"} :
        edge' = [edge EXCEPT ![e].pc = "answering", ![e].work.out = x]
  BY DEF AnswerDuplicate
<1>3. x \in Outcomes /\ "answering" \in EdgePCs
  BY <1>1 DEF Outcomes, EdgePCs
<1>4. Becomes(e, "answering", x)
  BY <1>2, <1>3, PcOutBecomes
<1> QED
  BY <1>3, <1>4 DEF AnswerDuplicate

LEMMA RequireView ==
  ASSUME Types, NEW e \in Edges, Require(e)
  PROVE  /\ edge[e].pc = "requiring"
         /\ \/ /\ Becomes(e, "executing", edge[e].work.out)
               /\ edge[e].work.callId \notin Destructive /\ asking' = asking
            \/ /\ Becomes(e, "approving", edge[e].work.out)
               /\ asking' = [asking EXCEPT ![edge[e].work.callId] = e]
         /\ granted' = granted \ {edge[e].work.callId}
<1>1. {"executing", "approving"} \subseteq EdgePCs
  BY DEF EdgePCs
<1>2. ASSUME NEW p \in {"executing", "approving"}, Turns(e, "requiring", p)
      PROVE  Becomes(e, p, edge[e].work.out)
  BY <1>1, <1>2, PcBecomes DEF Turns
<1> QED
  BY <1>2 DEF Require, Turns

LEMMA SettleView ==
  ASSUME Types, NEW e \in Edges, Settle(e)
  PROVE  /\ edge[e].pc = "approving"
         /\ asking' = [asking EXCEPT ![edge[e].work.callId] = NoEdge]
         /\ \/ Becomes(e, "executing", edge[e].work.out) /\ edge[e].work.dec # "none"
            \/ Becomes(e, "finishing", "failed")
<1>1. {"executing", "finishing"} \subseteq EdgePCs /\ "failed" \in Outcomes
  BY DEF EdgePCs, Outcomes
<1>2. CASE edge' = [edge EXCEPT ![e].pc = "executing"] /\ edge[e].work.dec # "none"
  BY <1>1, <1>2, PcBecomes DEF Settle
<1>3. CASE edge' = [edge EXCEPT ![e].pc = "finishing", ![e].work.out = "failed"]
  BY <1>1, <1>3, PcOutBecomes DEF Settle
<1> QED
  BY <1>2, <1>3 DEF Settle

LEMMA ExecuteView ==
  ASSUME Types, NEW e \in Edges, Execute(e)
  PROVE  /\ edge[e].pc = "executing"
         /\ \E x \in Outcomes :
              /\ Becomes(e, "finishing", x)
              /\ runs' = IF x = "ok" THEN [runs EXCEPT ![edge[e].work.callId] = @ + 1] ELSE runs
<1>1. "finishing" \in EdgePCs
  BY DEF EdgePCs
<1>2. PICK x \in Outcomes :
        /\ edge' = [edge EXCEPT ![e].pc = "finishing", ![e].work.out = x]
        /\ runs' = IF x = "ok" THEN [runs EXCEPT ![edge[e].work.callId] = @ + 1] ELSE runs
  BY DEF Execute
<1>3. Becomes(e, "finishing", x)
  BY <1>1, <1>2, PcOutBecomes
<1> QED
  BY <1>2, <1>3 DEF Execute

\* The Edges that wait for the run of e.
Follows(d, e) == /\ edge[d].pc = "duplicate" /\ edge[d].work.of = e
                 /\ edge[d].work.callId = edge[e].work.callId /\ edge[d].work.out = "none"

LEMMA FinishView ==
  ASSUME Types, NEW e \in Edges, Finish(e)
  PROVE  /\ edge[e].pc = "finishing"
         /\ edge' \in [Edges -> EdgeRecords]
         /\ Serves(e) /\ edge'[e].work.out = edge[e].work.out
         /\ edge'[e].pc = IF edge[e].work.out = "ok" THEN "answering" ELSE "dropping"
         /\ \A d \in Edges \ {e} :
              /\ edge'[d].pc = edge[d].pc /\ edge'[d].work.dec = edge[d].work.dec /\ Serves(d)
              /\ Follows(d, e) => edge'[d].work.out = edge[e].work.out
              /\ ~Follows(d, e) => edge'[d].work.out = edge[d].work.out
         /\ idem' = [idem EXCEPT ![edge[e].work.callId] =
                       IF @.by = e THEN [@ EXCEPT !.out = edge[e].work.out] ELSE @]
<1> DEFINE w == edge[e].work
<1>1. edge[e] \in EdgeRecords /\ w.out \in Outcomes \cup {"none"}
  BY DEF Types, EdgeRecords, WorkRecords
<1>2. /\ edge'[e] \in EdgeRecords /\ Serves(e) /\ edge'[e].work.out = w.out
      /\ edge'[e].pc = IF w.out = "ok" THEN "answering" ELSE "dropping"
  <2>1. PICK p : p = IF w.out = "ok" THEN "answering" ELSE "dropping"
    OBVIOUS
  <2>2. p \in EdgePCs
    BY <2>1 DEF EdgePCs
  <2>3. edge'[e] = [edge[e] EXCEPT !.pc = p]
    BY <2>1 DEF Finish
  <2>4. edge'[e] \in EdgeRecords /\ edge'[e].pc = p /\ edge'[e].work = edge[e].work
    BY <1>1, <2>2, <2>3, PcSet
  <2> QED
    BY <2>1, <2>4 DEF Serves
<1>3. ASSUME NEW d \in Edges \ {e}
      PROVE  /\ edge'[d] \in EdgeRecords
             /\ edge'[d].pc = edge[d].pc /\ edge'[d].work.dec = edge[d].work.dec /\ Serves(d)
             /\ Follows(d, e) => edge'[d].work.out = w.out
             /\ ~Follows(d, e) => edge'[d].work.out = edge[d].work.out
  <2>1. edge[d] \in EdgeRecords
    BY DEF Types
  <2>2. CASE Follows(d, e)
    <3>1. edge'[d] = WithOut(edge[d], w.out)
      BY <2>2 DEF Finish, Follows, WithOut
    <3> QED
      BY <1>1, <2>1, <2>2, <3>1, OutSet DEF Serves
  <2>3. CASE ~Follows(d, e)
    <3>1. edge'[d] = edge[d]
      BY <2>3 DEF Finish, Follows
    <3> QED
      BY <2>1, <2>3, <3>1 DEF Serves
  <2> QED
    BY <2>2, <2>3
<1>4. edge' \in [Edges -> EdgeRecords]
  <2>1. \A d \in Edges : edge'[d] \in EdgeRecords
    BY <1>2, <1>3
  <2>2. edge' = [d \in Edges |-> edge'[d]]
    BY DEF Finish
  <2> QED
    BY <2>1, <2>2
<1> QED
  BY <1>2, <1>3, <1>4 DEF Finish

LEMMA DropView ==
  ASSUME Types, NEW e \in Edges, Drop(e)
  PROVE  /\ edge[e].pc = "dropping" /\ Becomes(e, "answering", edge[e].work.out)
         /\ idem' = [idem EXCEPT ![edge[e].work.callId] = NoEntry]
<1>1. "answering" \in EdgePCs
  BY DEF EdgePCs
<1> QED
  BY <1>1, PcBecomes DEF Drop, Turns

LEMMA StartView ==
  ASSUME Types, StartEdge
  PROVE  /\ newest' \in Edges /\ newest' = newest + 1
         /\ Becomes(newest', "dialing", edge[newest'].work.out)
<1>1. newest' \in Edges /\ newest' = newest + 1 /\ edge' = [edge EXCEPT ![newest'].pc = "dialing"]
  BY DEF StartEdge
<1>2. PICK e \in Edges : e = newest'
  BY <1>1
<1>3. Becomes(e, "dialing", edge[e].work.out)
  BY <1>1, <1>2, PcBecomes DEF EdgePCs
<1> QED
  BY <1>1, <1>2, <1>3

LEMMA DecideView ==
  ASSUME Types, UserDecides
  PROVE  \E k \in CallIds, x \in Decisions \ {"none"} :
           /\ asking[k] \in Edges
           /\ Alone(asking[k]) /\ Serves(asking[k]) /\ edge'[asking[k]].pc = edge[asking[k]].pc
           /\ edge'[asking[k]].work.out = edge[asking[k]].work.out
           /\ granted' = granted \cup {k}
<1>1. PICK k \in CallIds, x \in Decisions \ {"none"} :
        /\ asking[k] # NoEdge /\ edge' = [edge EXCEPT ![asking[k]].work.dec = x]
        /\ granted' = granted \cup {k}
  BY DEF UserDecides
<1>2. PICK a \in Edges : a = asking[k]
  BY <1>1 DEF Types
<1>3. PICK s : s = WithDecision(edge[a], x)
  OBVIOUS
<1>4. edge[a] \in EdgeRecords
  BY DEF Types
<1>5. /\ s \in EdgeRecords /\ s.pc = edge[a].pc /\ s.work.conn = edge[a].work.conn
      /\ s.work.id = edge[a].work.id /\ s.work.callId = edge[a].work.callId
      /\ s.work.out = edge[a].work.out /\ s.work.of = edge[a].work.of
  BY <1>3, <1>4, DecSet
<1>6. edge' = [edge EXCEPT ![a] = s]
  BY <1>1, <1>2, <1>3 DEF WithDecision
<1>7. Alone(a) /\ Serves(a) /\ edge'[a].pc = edge[a].pc /\ edge'[a].work.out = edge[a].work.out
  BY <1>5, <1>6 DEF Types, Alone, Serves
<1> QED
  BY <1>1, <1>2, <1>7

\* The rest of an Edge's step is typed as its record is.
LEMMA AloneTypes ==
  ASSUME Types, NEW e \in Edges, Alone(e),
         edge'[e].pc \notin Apart => edge'[e].work.conn \in Conns
  PROVE  /\ edge' \in [Edges -> EdgeRecords]
         /\ \A d \in Edges : edge'[d].pc \notin Apart => edge'[d].work.conn \in Conns
  BY DEF Types, Alone

LEMMA EdgeTypes ==
  ASSUME Types, NEW e \in Edges, EdgeStep(e)
  PROVE  Types'
<1> DEFINE EdgesTyped == /\ edge' \in [Edges -> EdgeRecords]
                         /\ \A d \in Edges : edge'[d].pc \notin Apart => edge'[d].work.conn \in Conns
<1>0. ASSUME NEW p, NEW x, Becomes(e, p, x), edge[e].pc \notin Apart
      PROVE  EdgesTyped
  BY <1>0, AloneTypes DEF Becomes, Serves, Types
<1>1. CASE Dial(e)
  <2>1. EdgesTyped
    BY <1>1, DialView, AloneTypes DEF Apart
  <2>2. opened' \in 0..MaxConns /\ up' \in [Conns -> BOOLEAN]
    <3>1. opened' = opened \/ (opened' = opened + 1 /\ opened < MaxConns)
      BY <1>1 DEF Dial
    <3>2. up' = up \/ up' = [up EXCEPT ![opened'] = TRUE]
      BY <1>1 DEF Dial
    <3>3. opened' \in 0..MaxConns
      BY <3>1, LinkAssumption DEF Types
    <3> QED
      BY <3>2, <3>3 DEF Types
  <2> QED
    BY <1>1, <2>1, <2>2 DEF Dial, Types, linkHistory
<1>2. CASE ReceiveFrame(e)
  <2> DEFINE n == edge[e].work.conn
  <2>1. EdgesTyped
    BY <1>2, ReceiveView, AloneTypes
  <2>2. toEdge' \in [Conns -> Seq(FrameRecords)]
    <3>1. /\ n \in Conns /\ toEdge[n] \in Seq(FrameRecords) /\ toEdge[n] # <<>>
          /\ toEdge' = [toEdge EXCEPT ![n] = Tail(toEdge[n])]
      BY <1>2, ReceiveView
    <3>2. Tail(toEdge[n]) \in Seq(FrameRecords)
      BY <3>1
    <3> QED
      BY <3>1, <3>2 DEF Types
  <2>3. idem' \in [CallIds -> EntryRecords]
    <3>1. [by |-> e, out |-> "none"] \in EntryRecords
      BY DEF EntryRecords
    <3>2. idem' = idem \/ idem' = [idem EXCEPT ![edge'[e].work.callId] = [by |-> e, out |-> "none"]]
      BY <1>2, ReceiveView
    <3> QED
      BY <3>1, <3>2 DEF Types
  <2> QED
    BY <1>2, <2>1, <2>2, <2>3 DEF ReceiveFrame, Types, linkHub, linkHistory
<1>3. CASE Disconnect(e)
  <2>1. EdgesTyped
    BY <1>3, DisconnectView, AloneTypes DEF Apart
  <2> QED
    BY <1>3, <2>1 DEF Disconnect, Types, linkHub, linkNet, linkHistory
<1>4. CASE Answer(e)
  <2> DEFINE w == edge[e].work
  <2>1. EdgesTyped
    BY <1>4, AnswerView, AloneTypes DEF Apart
  <2>2. w \in WorkRecords
    BY DEF Types, EdgeRecords
  <2>3. PICK m : m = [id |-> w.id, out |-> w.out]
    OBVIOUS
  <2>4. m \in ReplyRecords
    BY <2>2, <2>3 DEF ReplyRecords, WorkRecords
  <2>5. toHub' = toHub \/ toHub' = [toHub EXCEPT ![w.conn] = Append(toHub[w.conn], m)]
    BY <1>4, <2>3 DEF Answer
  <2>6. toHub' \in [Conns -> Seq(ReplyRecords)]
    <3>1. \A n \in Conns : Append(toHub[n], m) \in Seq(ReplyRecords)
      BY <2>4 DEF Types
    <3>2. CASE toHub' = [toHub EXCEPT ![w.conn] = Append(toHub[w.conn], m)]
      BY <3>1, <3>2 DEF Types
    <3> QED
      BY <2>5, <3>2 DEF Types
  <2>7. up' \in [Conns -> BOOLEAN]
    BY <1>4 DEF Answer, Types
  <2> QED
    BY <1>4, <2>1, <2>6, <2>7 DEF Answer, Types, linkHub, linkHistory
<1>5. CASE AnswerDuplicate(e)
  <2>1. EdgesTyped
    BY <1>0, <1>5, AnswerDuplicateView DEF Apart
  <2> QED
    BY <1>5, <2>1 DEF AnswerDuplicate, Types, linkHub, linkNet, linkHistory
<1>6. CASE Require(e)
  <2>1. EdgesTyped
    BY <1>0, <1>6, RequireView DEF Apart
  <2>2. asking' \in [CallIds -> Edges \cup {NoEdge}]
    BY <1>6 DEF Require, Types
  <2> QED
    BY <1>6, <2>1, <2>2 DEF Require, Types, linkHub, linkNet
<1>7. CASE Settle(e)
  <2>1. EdgesTyped
    BY <1>0, <1>7, SettleView DEF Apart
  <2>2. asking' \in [CallIds -> Edges \cup {NoEdge}]
    BY <1>7 DEF Settle, Types
  <2> QED
    BY <1>7, <2>1, <2>2 DEF Settle, Types, linkHub, linkNet, linkHistory
<1>8. CASE Execute(e)
  <2>1. EdgesTyped
    BY <1>0, <1>8, ExecuteView DEF Apart
  <2> QED
    BY <1>8, <2>1 DEF Execute, Types, linkHub, linkNet
<1>9. CASE Finish(e)
  <2>1. EdgesTyped
    <3>1. /\ edge' \in [Edges -> EdgeRecords] /\ edge[e].pc = "finishing" /\ Serves(e)
          /\ \A d \in Edges \ {e} : edge'[d].pc = edge[d].pc /\ Serves(d)
      BY <1>9, FinishView
    <3> QED
      BY <3>1 DEF Types, Serves, Apart
  <2>2. idem' \in [CallIds -> EntryRecords]
    <3>1. ASSUME NEW r \in EntryRecords
          PROVE  (IF r.by = e THEN [r EXCEPT !.out = edge[e].work.out] ELSE r) \in EntryRecords
      BY DEF EntryRecords, Types, EdgeRecords, WorkRecords
    <3>2. PICK r : r = IF idem[edge[e].work.callId].by = e
                         THEN [idem[edge[e].work.callId] EXCEPT !.out = edge[e].work.out]
                         ELSE idem[edge[e].work.callId]
      OBVIOUS
    <3>3. idem' = [idem EXCEPT ![edge[e].work.callId] = r]
      BY <1>9, <3>2, FinishView
    <3>4. edge[e].work.callId \in CallIds => r \in EntryRecords
      BY <3>1, <3>2 DEF Types
    <3> QED
      BY <3>3, <3>4 DEF Types
  <2> QED
    BY <1>9, <2>1, <2>2 DEF Finish, Types, linkHub, linkNet, linkHistory
<1>10. CASE Drop(e)
  <2>1. EdgesTyped
    BY <1>0, <1>10, DropView DEF Apart
  <2>2. NoEntry \in EntryRecords
    BY DEF NoEntry, EntryRecords
  <2>3. idem' \in [CallIds -> EntryRecords]
    BY <1>10, <2>2, DropView DEF Types
  <2> QED
    BY <1>10, <2>1, <2>3 DEF Drop, Types, linkHub, linkNet, linkHistory
<1> QED
  BY <1>1, <1>2, <1>3, <1>4, <1>5, <1>6, <1>7, <1>8, <1>9, <1>10 DEF EdgeStep

LEMMA StepTypes == Types /\ [LinkNext]_linkVars => Types'
<1> SUFFICES ASSUME Types, [LinkNext]_linkVars
             PROVE  Types'
  OBVIOUS
<1>1. ASSUME NEW n \in Conns, Cut(n)
      PROVE  Types'
  BY <1>1 DEF Cut, Types, linkHub, linkDevice, linkHistory
<1>2. CASE StartEdge
  <2>1. newest' \in Edges
    BY <1>2, StartView
  <2>2. PICK e \in Edges : e = newest'
    BY <2>1
  <2>3. /\ edge' \in [Edges -> EdgeRecords]
        /\ \A d \in Edges : edge'[d].pc \notin Apart => edge'[d].work.conn \in Conns
    BY <1>2, <2>2, StartView, AloneTypes DEF Becomes, Apart
  <2> QED
    BY <1>2, <2>1, <2>3 DEF StartEdge, Types, linkHub, linkNet, linkHistory
<1>3. CASE UserDecides
  <2>1. PICK a \in Edges : Alone(a) /\ Serves(a) /\ edge'[a].pc = edge[a].pc
    BY <1>3, DecideView
  <2>2. /\ edge' \in [Edges -> EdgeRecords]
        /\ \A d \in Edges : edge'[d].pc \notin Apart => edge'[d].work.conn \in Conns
    BY <2>1, AloneTypes DEF Serves, Types
  <2> QED
    BY <1>3, <2>2 DEF UserDecides, Types, linkHub, linkNet
<1>4. CASE UNCHANGED linkVars
  BY <1>4 DEF Types, linkVars, linkHub, linkNet, linkDevice, linkHistory
<1> QED
  BY <1>1, <1>2, <1>3, <1>4, HubTypes, EdgeTypes DEF LinkNext

-----------------------------------------------------------------------------
(* Slots and connections                                                   *)

Under == {c \in Callers : call[c].pc # "idle"}

\* The callers under way have a slot each, and a frame that no other has.
Slots ==
  /\ IsFiniteSet(Under)
  /\ inFlight = Cardinality(Under) /\ inFlight <= MaxInFlight
  /\ awaiting = {call[c].id : c \in Under}
  /\ \A c \in Under : call[c].id \in 1..seq
  /\ \A c, d \in Under : c # d => call[c].id # call[d].id

\* A step that changes no caller's frame and no counter keeps the slots.
LEMMA SlotsStay ==
  ASSUME Slots, UNCHANGED <<inFlight, awaiting, seq>>,
         \A c \in Callers : /\ call'[c].id = call[c].id
                            /\ call'[c].pc = "idle" <=> call[c].pc = "idle"
  PROVE  Slots'
<1>1. Under' = Under /\ \A c \in Under : call'[c].id = call[c].id
  BY DEF Under
<1> QED
  BY <1>1 DEF Slots

LEMMA InitSlots == LinkInit => Slots
<1> SUFFICES ASSUME LinkInit
             PROVE  Slots
  OBVIOUS
<1>1. Under = {}
  BY DEF LinkInit, Under, NoCall
<1> QED
  BY <1>1, FS_EmptySet, LinkAssumption DEF LinkInit, Slots

LEMMA StepSlots == Types /\ Slots /\ [LinkNext]_linkVars => Slots'
<1> SUFFICES ASSUME Types, Slots, [LinkNext]_linkVars
             PROVE  Slots'
  OBVIOUS
<1>1. ASSUME NEW c \in Callers, CallPeer(c)
      PROVE  Slots'
  <2>1. /\ c \notin Under /\ inFlight < MaxInFlight /\ inFlight' = inFlight + 1
        /\ seq' = seq + 1 /\ awaiting' = awaiting \cup {seq'}
    BY <1>1 DEF CallPeer, Under
  <2>2. PICK r : r.pc = "writing" /\ r.id = seq' /\ call' = [call EXCEPT ![c] = r]
    BY <1>1 DEF CallPeer, NoCall
  <2>3. /\ call'[c].pc # "idle" /\ call'[c].id = seq + 1
        /\ \A d \in Callers \ {c} : call'[d] = call[d]
    BY <2>1, <2>2 DEF Types
  <2>4. Under' = Under \cup {c}
    BY <2>3 DEF Under
  <2>5. IsFiniteSet(Under') /\ Cardinality(Under') = Cardinality(Under) + 1
    BY <2>1, <2>4, FS_AddElement DEF Slots
  <2>6. inFlight' <= MaxInFlight
    BY <2>1, LinkAssumption, FS_CardinalityType DEF Slots
  <2>7. awaiting' = {call'[d].id : d \in Under'}
    BY <2>1, <2>3, <2>4 DEF Slots, Under
  <2>8. \A d \in Under : d \in Callers /\ call'[d] = call[d] /\ call[d].id \in 1..seq
    BY <2>1, <2>3 DEF Slots, Under
  <2>9. (\A d \in Under' : call'[d].id \in 1..seq')
        /\ \A d, f \in Under' : d # f => call'[d].id # call'[f].id
    BY <2>1, <2>3, <2>4, <2>8 DEF Slots, Types
  <2> QED
    BY <2>1, <2>5, <2>6, <2>7, <2>9 DEF Slots
<1>2. ASSUME NEW c \in Callers, Write(c)
      PROVE  Slots'
  <2>1. \E p \in {"waiting", "leaving"} : Steps(c, "writing", p)
    BY <1>2 DEF Write
  <2>2. \A d \in Callers : /\ call'[d].id = call[d].id
                           /\ call'[d].pc = "idle" <=> call[d].pc = "idle"
    BY <2>1, StepsKeep DEF Steps, CallPCs
  <2> QED
    BY <1>2, <2>2, SlotsStay DEF Write
<1>3. ASSUME NEW c \in Callers, ReturnAnswer(c)
      PROVE  Slots'
  <2>1. Steps(c, "waiting", "leaving")
    BY <1>3 DEF ReturnAnswer
  <2>2. \A d \in Callers : /\ call'[d].id = call[d].id
                           /\ call'[d].pc = "idle" <=> call[d].pc = "idle"
    BY <2>1, StepsKeep DEF Steps, CallPCs
  <2> QED
    BY <1>3, <2>2, SlotsStay DEF ReturnAnswer
<1>4. ASSUME NEW c \in Callers, ReleaseSlot(c)
      PROVE  Slots'
  <2>1. /\ c \in Under /\ seq' = seq
        /\ awaiting' = awaiting \ {call[c].id}
        /\ inFlight' = IF inFlight > 0 THEN inFlight - 1 ELSE inFlight
        /\ call' = [call EXCEPT ![c] = NoCall]
    BY <1>4 DEF ReleaseSlot, Under
  <2>2. /\ call'[c].pc = "idle"
        /\ \A d \in Callers \ {c} : call'[d] = call[d]
    BY <2>1 DEF Types, NoCall
  <2>3. Under' = Under \ {c}
    BY <2>2 DEF Under
  <2>4. IsFiniteSet(Under') /\ Cardinality(Under') = Cardinality(Under) - 1
    BY <2>1, <2>3, FS_RemoveElement DEF Slots
  <2>5. Cardinality(Under) \in Nat /\ Cardinality(Under') \in Nat
    BY <2>4, FS_CardinalityType DEF Slots
  <2>6. inFlight' = Cardinality(Under') /\ inFlight' <= MaxInFlight
    BY <2>1, <2>4, <2>5, LinkAssumption DEF Slots
  <2>7. \A d \in Under' : d \in Under /\ call'[d] = call[d] /\ call[d].id # call[c].id
    BY <2>1, <2>2, <2>3 DEF Slots, Under
  <2>8. awaiting' = {call'[d].id : d \in Under'}
    <3>1. \A d \in Under : d = c \/ d \in Under'
      BY <2>3
    <3> QED
      BY <2>1, <2>7, <3>1 DEF Slots
  <2> QED
    BY <2>1, <2>4, <2>6, <2>7, <2>8 DEF Slots
<1>5. ASSUME NEW n \in Conns, ReadAnswer(n)
      PROVE  Slots'
  <2>1. \A d \in Callers : call'[d].id = call[d].id /\ call'[d].pc = call[d].pc
    <3>1. ASSUME NEW d \in Callers
          PROVE  call'[d].id = call[d].id /\ call'[d].pc = call[d].pc
      <4>1. \/ call'[d] = call[d]
            \/ call'[d] = [call[d] EXCEPT !.res = Head(toHub[n]).out]
        BY <1>5 DEF ReadAnswer, Delivered
      <4> QED
        BY <4>1 DEF Types, CallRecords
    <3> QED
      BY <3>1
  <2> QED
    BY <1>5, <2>1, SlotsStay DEF ReadAnswer
<1>6. CASE UNCHANGED <<call, inFlight, awaiting, seq>>
  BY <1>6, SlotsStay
<1>7. ASSUME HubStep
      PROVE  Slots'
  BY <1>1, <1>2, <1>3, <1>4, <1>5, <1>6, <1>7
     DEF HubStep, SetExclusive, Heartbeat, MarkOffline, DeleteConn
<1>8. ASSUME NEW e \in Edges, EdgeStep(e)
      PROVE  Slots'
  BY <1>6, <1>8 DEF EdgeStep, Dial, ReceiveFrame, Disconnect, Answer, AnswerDuplicate, Require,
                    Settle, Execute, Finish, Drop, linkHub
<1> QED
  BY <1>6, <1>7, <1>8 DEF LinkNext, Cut, StartEdge, UserDecides, linkHub, linkVars

\* A connection that was not opened yet is down, and a handler that leaves does
\* so because its connection went down.
Closed ==
  \A n \in Conns : /\ n > opened => ws[n] = "none" /\ ~up[n]
                   /\ ws[n] = "leaving" => ~up[n]
ClosedInv == Closed /\ ws \in [Conns -> {"none", "upgraded", "greeting", "serving", "leaving", "closed"}]

LEMMA InitClosed == LinkInit => ClosedInv
  BY DEF LinkInit, ClosedInv, Closed

LEMMA StepClosed == Types /\ ClosedInv /\ [LinkNext]_linkVars => ClosedInv'
<1> SUFFICES ASSUME Types, ClosedInv, [LinkNext]_linkVars
             PROVE  ClosedInv'
  OBVIOUS
<1> USE DEF ClosedInv, Closed
<1>1. ASSUME NEW n \in Conns, SetExclusive(n)
      PROVE  ClosedInv'
  BY <1>1 DEF SetExclusive, Types
<1>2. ASSUME NEW n \in Conns, Heartbeat(n) \/ MarkOffline(n) \/ DeleteConn(n)
      PROVE  ClosedInv'
  BY <1>2 DEF Heartbeat, MarkOffline, DeleteConn, Types, linkNet
<1>3. ASSUME NEW n \in Conns, Cut(n)
      PROVE  ClosedInv'
  BY <1>3 DEF Cut, Types, linkHub
<1>4. ASSUME NEW e \in Edges, Dial(e)
      PROVE  ClosedInv'
  <2>1. CASE /\ opened < MaxConns /\ opened' = opened + 1
             /\ up' = [up EXCEPT ![opened'] = TRUE] /\ ws' = [ws EXCEPT ![opened'] = "upgraded"]
    <3>1. opened' \in Conns /\ \A n \in Conns : n > opened' => n > opened /\ n # opened'
      BY <2>1, LinkAssumption DEF Types, Conns
    <3> QED
      BY <2>1, <3>1 DEF Types
  <2>2. CASE UNCHANGED <<opened, up, ws>>
    BY <2>2
  <2> QED
    BY <1>4, <2>1, <2>2 DEF Dial
<1>5. ASSUME NEW e \in Edges, Answer(e)
      PROVE  ClosedInv'
  BY <1>5 DEF Answer, Types, linkHub
<1>6. CASE UNCHANGED <<opened, up, ws>>
  BY <1>6
<1>7. ASSUME NEW e \in Edges, EdgeStep(e)
      PROVE  ClosedInv'
  BY <1>4, <1>5, <1>6, <1>7 DEF EdgeStep, ReceiveFrame, Disconnect, AnswerDuplicate, Require,
                    Settle, Execute, Finish, Drop, linkHub, linkNet
<1>8. ASSUME HubStep
      PROVE  ClosedInv'
  BY <1>1, <1>2, <1>6, <1>8 DEF HubStep, CallPeer, Write, ReturnAnswer, ReleaseSlot, ReadAnswer, linkNet
<1> QED
  BY <1>3, <1>6, <1>7, <1>8 DEF LinkNext, StartEdge, UserDecides, linkHub, linkNet, linkVars

LEMMA KeepsNewest == Types /\ ClosedInv /\ [LinkNext]_linkVars
                     => \A n \in Conns : reg = n /\ reg' = NoConn => ~up[n]
<1> SUFFICES ASSUME Types, ClosedInv, [LinkNext]_linkVars,
                    NEW n \in Conns, reg = n, reg' = NoConn
             PROVE  ~up[n]
  OBVIOUS
<1>1. NoConn \notin Conns
  BY DEF NoConn, Conns
<1>2. reg' # reg
  BY <1>1
<1>3. PICK m \in Conns : SetExclusive(m) \/ DeleteConn(m)
  <2>1. ASSUME NEW e \in Edges, EdgeStep(e)
        PROVE  FALSE
    BY <1>2, <2>1 DEF EdgeStep, Dial, ReceiveFrame, Disconnect, Answer, AnswerDuplicate, Require,
                      Settle, Execute, Finish, Drop, linkHub
  <2>2. HubStep
    BY <1>2, <2>1 DEF LinkNext, Cut, StartEdge, UserDecides, linkHub, linkVars
  <2> QED
    BY <1>2, <2>2 DEF HubStep, CallPeer, Write, ReturnAnswer, ReleaseSlot, Heartbeat, ReadAnswer, MarkOffline
<1>4. reg = m /\ ws[m] = "leaving"
  BY <1>1, <1>2, <1>3 DEF SetExclusive, DeleteConn
<1> QED
  BY <1>4 DEF ClosedInv, Closed

-----------------------------------------------------------------------------
(* The table of the device                                                 *)

Running == {"requiring", "approving", "executing", "finishing"}
RunsCall(e, k) == edge[e].pc \in Running /\ edge[e].work.callId = k

\* An Edge that was not started yet is off.
Started == \A e \in Edges : e > newest => edge[e].pc = "off"

\* What the table holds of the call that an Edge serves.
Entered(e) ==
  /\ edge[e].pc \notin Apart \cup {"reading"} => edge[e].work.callId \in CallIds
  /\ edge[e].pc \in Running => /\ idem[edge[e].work.callId].by = e
                               /\ idem[edge[e].work.callId].out = "none"
  /\ edge[e].pc = "dropping" => /\ idem[edge[e].work.callId].by = e
                                /\ idem[edge[e].work.callId].out = "failed"
                                /\ edge[e].work.out # "ok"
  /\ edge[e].pc = "duplicate" /\ edge[e].work.out = "none"
       => edge[e].work.of \in Edges /\ RunsCall(edge[e].work.of, edge[e].work.callId)
  /\ edge[e].pc = "finishing" => edge[e].work.out \in Outcomes
  /\ edge[e].pc \in Running \ {"finishing"} => edge[e].work.out = "none"

\* A call id that is entered has a runner, or an outcome.
Run(k) ==
  /\ idem[k].out # "none" => idem[k].by \in Edges
  /\ idem[k].by # NoEdge /\ idem[k].out = "none" => RunsCall(idem[k].by, k)

Table == Started /\ (\A e \in Edges : Entered(e)) /\ \A k \in CallIds : Run(k)

LEMMA InitTable == LinkInit => Table
<1> SUFFICES ASSUME LinkInit
             PROVE  Table
  OBVIOUS
<1>1. \A e \in Edges : edge[e].pc = "off"
  BY DEF LinkInit
<1>2. \A k \in CallIds : idem[k].by = NoEdge /\ idem[k].out = "none"
  BY DEF LinkInit, NoEntry
<1> QED
  BY <1>1, <1>2 DEF Table, Started, Entered, Run, Running, Apart

\* The steps of an Edge that changes neither the table nor whether it runs.
LEMMA ElsewhereTable ==
  ASSUME Types, Table, NEW e \in Edges, Alone(e), UNCHANGED <<idem, newest>>,
         edge[e].pc \notin Running, edge'[e].pc \notin Running \cup {"off", "dropping", "duplicate"},
         edge[e].pc # "off",
         edge'[e].pc \notin Apart \cup {"reading"} => edge'[e].work.callId \in CallIds
  PROVE  Table'
<1>1. \A d \in Edges, k \in CallIds : RunsCall(d, k) => d # e /\ edge'[d] = edge[d] /\ RunsCall(d, k)'
  BY DEF RunsCall, Alone
<1>2. Started'
  BY DEF Started, Table, Alone
<1>3. ASSUME NEW d \in Edges
      PROVE  Entered(d)'
  <2>1. CASE d = e
    BY <2>1 DEF Entered, Running
  <2>2. CASE d # e
    <3>1. edge'[d] = edge[d] /\ Entered(d)
      BY <2>2 DEF Alone, Table
    <3>2. edge[d].pc = "duplicate" => edge[d].work.callId \in CallIds
      BY <3>1 DEF Entered, Apart
    <3> QED
      BY <1>1, <3>1, <3>2 DEF Entered
  <2> QED
    BY <2>1, <2>2
<1>4. ASSUME NEW k \in CallIds
      PROVE  Run(k)'
  <2>1. Run(k) /\ idem[k] \in EntryRecords
    BY DEF Table, Types
  <2>2. idem[k].by \in Edges \cup {NoEdge}
    BY <2>1 DEF EntryRecords
  <2> QED
    BY <1>1, <2>1, <2>2 DEF Run
<1> QED
  BY <1>2, <1>3, <1>4 DEF Table

\* The steps of a run, from one of its places to another.
LEMMA RunningTable ==
  ASSUME Types, Table, NEW e \in Edges, NEW p \in Running, NEW x, Becomes(e, p, x),
         UNCHANGED <<idem, newest>>, edge[e].pc \in Running,
         p = "finishing" => x \in Outcomes, p # "finishing" => x = "none"
  PROVE  Table'
<1>1. \A d \in Edges, k \in CallIds : RunsCall(d, k) => RunsCall(d, k)'
  BY DEF RunsCall, Becomes, Alone, Serves
<1>2. Started'
  BY DEF Started, Table, Becomes, Alone, Running
<1>3. Entered(e)'
  <2>1. Entered(e)
    BY DEF Table
  <2>2. /\ edge[e].work.callId \in CallIds /\ edge'[e].work.callId = edge[e].work.callId
        /\ edge'[e].pc = p /\ edge'[e].work.out = x
        /\ idem[edge[e].work.callId].by = e /\ idem[edge[e].work.callId].out = "none"
    BY <2>1 DEF Entered, Becomes, Serves, Apart, Running
  <2> QED
    BY <2>2 DEF Entered, Running
<1>4. ASSUME NEW d \in Edges \ {e}
      PROVE  Entered(d)'
  <2>1. edge'[d] = edge[d] /\ Entered(d)
    BY DEF Becomes, Alone, Table
  <2>2. edge[d].pc = "duplicate" => edge[d].work.callId \in CallIds
    BY <2>1 DEF Entered, Apart
  <2> QED
    BY <1>1, <2>1, <2>2 DEF Entered
<1>5. ASSUME NEW k \in CallIds
      PROVE  Run(k)'
  <2>1. Run(k) /\ idem[k].by \in Edges \cup {NoEdge}
    BY DEF Table, Types, EntryRecords
  <2> QED
    BY <1>1, <2>1 DEF Run
<1> QED
  BY <1>2, <1>3, <1>4, <1>5 DEF Table

LEMMA ReceiveTable ==
  ASSUME Types, Table, NEW e \in Edges, ReceiveFrame(e)
  PROVE  Table'
<1>0. PICK k : k = edge'[e].work.callId
  OBVIOUS
<1>1. Alone(e) /\ edge[e].pc = "reading" /\ k \in CallIds /\ newest' = newest
  BY <1>0, ReceiveView DEF ReceiveFrame
<1>2. Started'
  BY <1>1 DEF Started, Table, Alone
<1>3. \A d \in Edges, j \in CallIds : RunsCall(d, j) => d # e /\ edge'[d] = edge[d] /\ RunsCall(d, j)'
  BY <1>1 DEF RunsCall, Alone, Running
<1>4. \A j \in CallIds : Run(j) /\ idem[j].by \in Edges \cup {NoEdge}
  BY DEF Table, Types, EntryRecords
<1>5. CASE /\ idem[k].by = NoEdge /\ idem' = [idem EXCEPT ![k] = [by |-> e, out |-> "none"]]
           /\ edge'[e].pc = "requiring" /\ edge'[e].work.out = "none"
  <2>1. idem'[k].by = e /\ idem'[k].out = "none" /\ \A j \in CallIds \ {k} : idem'[j] = idem[j]
    BY <1>1, <1>5 DEF Types
  <2>2. Entered(e)'
    BY <1>0, <1>1, <1>5, <2>1 DEF Entered, Running
  <2>3. ASSUME NEW d \in Edges \ {e}
        PROVE  Entered(d)'
    <3>1. edge'[d] = edge[d] /\ Entered(d)
      BY <1>1 DEF Alone, Table
    <3>2. edge[d].pc \in Running \cup {"dropping"} => edge[d].work.callId # k
      BY <1>5, <3>1, NoEdgeIsNone DEF Entered
    <3>3. edge[d].pc \in Running \cup {"dropping", "duplicate"} => edge[d].work.callId \in CallIds
      BY <3>1 DEF Entered, Apart, Running
    <3> QED
      BY <1>3, <2>1, <3>1, <3>2, <3>3 DEF Entered
  <2>4. ASSUME NEW j \in CallIds
        PROVE  Run(j)'
    <3>1. CASE j = k
      BY <1>0, <1>5, <2>1, <3>1 DEF Run, RunsCall, Running
    <3>2. CASE j # k
      BY <1>3, <1>4, <2>1, <3>2 DEF Run
    <3> QED
      BY <3>1, <3>2
  <2> QED
    BY <1>2, <2>2, <2>3, <2>4 DEF Table
<1>6. CASE /\ idem[k].by # NoEdge /\ idem' = idem /\ edge'[e].pc = "duplicate"
           /\ edge'[e].work.out = idem[k].out /\ edge'[e].work.of = idem[k].by
  <2>1. Entered(e)'
    <3>1. PICK a : a = idem[k].by
      OBVIOUS
    <3>2. idem[k].out = "none" => a \in Edges /\ RunsCall(a, k)'
      BY <1>1, <1>3, <1>4, <1>6, <3>1 DEF Run
    <3> QED
      BY <1>0, <1>1, <1>6, <3>1, <3>2 DEF Entered, Running
  <2>2. ASSUME NEW d \in Edges \ {e}
        PROVE  Entered(d)'
    <3>1. edge'[d] = edge[d] /\ Entered(d)
      BY <1>1 DEF Alone, Table
    <3>2. edge[d].pc = "duplicate" => edge[d].work.callId \in CallIds
      BY <3>1 DEF Entered, Apart
    <3> QED
      BY <1>3, <1>6, <3>1, <3>2 DEF Entered
  <2>3. ASSUME NEW j \in CallIds
        PROVE  Run(j)'
    BY <1>3, <1>4, <1>6 DEF Run
  <2> QED
    BY <1>2, <2>1, <2>2, <2>3 DEF Table
<1> QED
  BY <1>0, <1>5, <1>6, ReceiveView

LEMMA FinishTable ==
  ASSUME Types, Table, NEW e \in Edges, Finish(e)
  PROVE  Table'
<1> DEFINE k == edge[e].work.callId
           x == edge[e].work.out
<1>1. /\ edge[e].pc = "finishing" /\ k \in CallIds /\ x \in Outcomes
      /\ idem[k].by = e /\ idem[k].out = "none"
  BY FinishView DEF Table, Entered, Running, Apart
<1>2. /\ edge'[e].pc = IF x = "ok" THEN "answering" ELSE "dropping"
      /\ edge'[e].work.callId = k /\ edge'[e].work.out = x
  BY FinishView DEF Serves
<1>3. idem'[k].by = e /\ idem'[k].out = x /\ \A j \in CallIds \ {k} : idem'[j] = idem[j]
  <2>1. PICK r : r = [idem[k] EXCEPT !.out = x]
    OBVIOUS
  <2>2. idem' = [idem EXCEPT ![k] = r]
    BY <1>1, <2>1, FinishView
  <2>3. r.by = e /\ r.out = x
    BY <1>1, <2>1 DEF Types, EntryRecords
  <2> HIDE DEF x
  <2> QED
    BY <1>1, <2>2, <2>3 DEF Types
<1>4. ASSUME NEW d \in Edges \ {e}
      PROVE  /\ edge'[d].pc = edge[d].pc /\ edge'[d].work.callId = edge[d].work.callId
             /\ edge'[d].work.of = edge[d].work.of
             /\ Follows(d, e) => edge'[d].work.out = x
             /\ ~Follows(d, e) => edge'[d].work.out = edge[d].work.out
  <2>1. /\ edge'[d].pc = edge[d].pc /\ Serves(d)
        /\ Follows(d, e) => edge'[d].work.out = x
        /\ ~Follows(d, e) => edge'[d].work.out = edge[d].work.out
    BY FinishView
  <2> QED
    BY <2>1 DEF Serves
<1> HIDE DEF k, x
<1>5. \A d \in Edges, j \in CallIds : RunsCall(d, j) /\ (d # e \/ j # k) => d # e /\ RunsCall(d, j)'
  BY <1>4 DEF RunsCall, k
<1>6. Started'
  <2>1. newest' = newest
    BY DEF Finish
  <2> QED
    BY <1>1, <1>4, <2>1 DEF Started, Table
<1>7. Entered(e)'
  BY <1>1, <1>2, <1>3 DEF Entered, Running, Outcomes
<1>8. ASSUME NEW d \in Edges \ {e}
      PROVE  Entered(d)'
  <2>1. Entered(d)
    BY DEF Table
  <2>2. edge[d].pc \in Running \cup {"dropping", "duplicate"} => edge[d].work.callId \in CallIds
    BY <2>1 DEF Entered, Apart, Running
  <2>3. CASE edge[d].pc = "duplicate"
    <3>1. CASE Follows(d, e)
      BY <1>1, <1>4, <2>2, <2>3, <3>1 DEF Entered, Running, Outcomes
    <3>2. CASE ~Follows(d, e)
      <4>1. edge[d].work.out = "none" =>
              /\ edge[d].work.of \in Edges /\ RunsCall(edge[d].work.of, edge[d].work.callId)
              /\ (edge[d].work.of # e \/ edge[d].work.callId # k)
        BY <2>1, <2>3, <3>2 DEF Entered, Follows, k
      <4> QED
        BY <1>4, <1>5, <2>2, <2>3, <3>2, <4>1 DEF Entered, Running
    <3> QED
      BY <3>1, <3>2
  <2>4. CASE edge[d].pc # "duplicate"
    <3>1. edge'[d].work.out = edge[d].work.out
      BY <1>4, <2>4 DEF Follows
    <3>2. edge[d].pc \in Running \cup {"dropping"} => edge[d].work.callId # k
      BY <1>1, <2>1 DEF Entered
    <3> QED
      BY <1>3, <1>4, <2>1, <2>2, <2>4, <3>1, <3>2 DEF Entered
  <2> QED
    BY <2>3, <2>4
<1>9. ASSUME NEW j \in CallIds
      PROVE  Run(j)'
  <2>1. CASE j = k
    BY <1>1, <1>3, <2>1 DEF Run, Outcomes
  <2>2. CASE j # k
    <3>1. Run(j) /\ idem[j].by \in Edges \cup {NoEdge}
      BY DEF Table, Types, EntryRecords
    <3> QED
      BY <1>3, <1>5, <2>2, <3>1 DEF Run
  <2> QED
    BY <2>1, <2>2
<1> QED
  BY <1>6, <1>7, <1>8, <1>9 DEF Table

LEMMA DropTable ==
  ASSUME Types, Table, NEW e \in Edges, Drop(e)
  PROVE  Table'
<1> DEFINE k == edge[e].work.callId
<1>1. /\ edge[e].pc = "dropping" /\ k \in CallIds /\ idem[k].by = e /\ idem[k].out = "failed"
      /\ Becomes(e, "answering", edge[e].work.out) /\ newest' = newest
  BY DropView DEF Table, Entered, Apart, Running, Drop
<1>2. idem'[k] = NoEntry /\ \A j \in CallIds \ {k} : idem'[j] = idem[j]
  BY <1>1, DropView DEF Types
<1>3. idem'[k].by = NoEdge /\ idem'[k].out = "none"
  BY <1>2 DEF NoEntry
<1>4. /\ edge'[e].pc = "answering" /\ edge'[e].work.callId = k
      /\ \A d \in Edges \ {e} : edge'[d] = edge[d]
  BY <1>1 DEF Becomes, Alone, Serves
<1> HIDE DEF k
<1>5. \A d \in Edges, j \in CallIds : RunsCall(d, j) => d # e /\ j # k /\ RunsCall(d, j)'
  <2>1. \A d \in Edges, j \in CallIds : RunsCall(d, j) => d # e /\ idem[j].out = "none"
    BY <1>1 DEF RunsCall, Table, Entered, Running
  <2> QED
    BY <1>1, <1>4, <2>1 DEF RunsCall
<1>6. Started'
  BY <1>1, <1>4 DEF Started, Table
<1>7. Entered(e)'
  BY <1>1, <1>4 DEF Entered, Running
<1>8. ASSUME NEW d \in Edges \ {e}
      PROVE  Entered(d)'
  <2>1. edge'[d] = edge[d] /\ Entered(d)
    BY <1>4 DEF Table
  <2>2. edge[d].pc \in Running \cup {"dropping", "duplicate"} => edge[d].work.callId \in CallIds
    BY <2>1 DEF Entered, Apart, Running
  <2>3. edge[d].pc \in Running \cup {"dropping"} => edge[d].work.callId # k
    BY <1>1, <2>1 DEF Entered
  <2> QED
    BY <1>2, <1>5, <2>1, <2>2, <2>3 DEF Entered
<1>9. ASSUME NEW j \in CallIds
      PROVE  Run(j)'
  <2>1. Run(j) /\ idem[j].by \in Edges \cup {NoEdge}
    BY DEF Table, Types, EntryRecords
  <2> QED
    BY <1>2, <1>3, <1>5, <2>1 DEF Run
<1> QED
  BY <1>6, <1>7, <1>8, <1>9 DEF Table

LEMMA StepTable == Types /\ Table /\ [LinkNext]_linkVars => Table'
<1> SUFFICES ASSUME Types, Table, [LinkNext]_linkVars
             PROVE  Table'
  OBVIOUS
<1>1. ASSUME UNCHANGED <<edge, idem, newest>>
      PROVE  Table'
  BY <1>1 DEF Table, Started, Entered, Run, RunsCall
<1>2. ASSUME NEW e \in Edges, EdgeStep(e)
      PROVE  Table'
  <2>0. Entered(e)
    BY DEF Table
  <2>1. CASE Dial(e)
    BY <2>1, DialView, ElsewhereTable DEF Dial, Running, Apart
  <2>2. CASE ReceiveFrame(e)
    BY <2>2, ReceiveTable
  <2>3. CASE Disconnect(e)
    BY <2>3, DisconnectView, ElsewhereTable DEF Disconnect, Running, Apart
  <2>4. CASE Answer(e)
    BY <2>4, AnswerView, ElsewhereTable DEF Answer, Running, Apart
  <2>5. CASE AnswerDuplicate(e)
    <3>1. /\ edge[e].pc = "duplicate" /\ Alone(e) /\ edge'[e].pc = "answering"
          /\ edge'[e].work.callId = edge[e].work.callId
      BY <2>5, AnswerDuplicateView DEF Becomes, Serves
    <3>2. edge[e].work.callId \in CallIds
      BY <2>0, <3>1 DEF Entered, Apart
    <3> QED
      BY <2>5, <3>1, <3>2, ElsewhereTable DEF AnswerDuplicate, Running
  <2>6. CASE Require(e)
    <3>1. edge[e].pc = "requiring" /\ edge[e].work.out = "none"
      BY <2>0, <2>6, RequireView DEF Entered, Running
    <3>2. \E p \in {"executing", "approving"} : Becomes(e, p, "none")
      BY <2>6, <3>1, RequireView
    <3> QED
      BY <2>6, <3>1, <3>2, RunningTable DEF Require, Running
  <2>7. CASE Settle(e)
    <3>1. edge[e].pc = "approving" /\ edge[e].work.out = "none"
      BY <2>0, <2>7, SettleView DEF Entered, Running
    <3>2. CASE Becomes(e, "executing", "none")
      BY <2>7, <3>1, <3>2, RunningTable DEF Settle, Running
    <3>3. CASE Becomes(e, "finishing", "failed")
      BY <2>7, <3>1, <3>3, RunningTable DEF Settle, Running, Outcomes
    <3> QED
      BY <2>7, <3>1, <3>2, <3>3, SettleView
  <2>8. CASE Execute(e)
    <3>1. edge[e].pc = "executing" /\ \E x \in Outcomes : Becomes(e, "finishing", x)
      BY <2>8, ExecuteView
    <3> QED
      BY <2>8, <3>1, RunningTable DEF Execute, Running
  <2>9. CASE Finish(e)
    BY <2>9, FinishTable
  <2>10. CASE Drop(e)
    BY <2>10, DropTable
  <2> QED
    BY <1>2, <2>1, <2>2, <2>3, <2>4, <2>5, <2>6, <2>7, <2>8, <2>9, <2>10 DEF EdgeStep
<1>3. CASE StartEdge
  <2>1. PICK e \in Edges : e = newest' /\ newest' = newest + 1 /\ Becomes(e, "dialing", edge[e].work.out)
    BY <1>3, StartView
  <2>2. newest \in Nat /\ edge[e].pc = "off" /\ idem' = idem
    BY <1>3, <2>1, LinkAssumption DEF StartEdge, Table, Started, Types, NoEdge
  <2>3. edge'[e].pc = "dialing" /\ \A d \in Edges \ {e} : edge'[d] = edge[d]
    BY <2>1 DEF Becomes, Alone
  <2>4. Started'
    BY <2>1, <2>2, <2>3, LinkAssumption DEF Started, Table
  <2>5. \A d \in Edges, k \in CallIds : RunsCall(d, k) => RunsCall(d, k)'
    BY <2>2, <2>3 DEF RunsCall, Running
  <2>6. ASSUME NEW d \in Edges
        PROVE  Entered(d)'
    <3>1. Entered(d) /\ (edge[d].pc = "duplicate" => edge[d].work.callId \in CallIds)
      BY DEF Table, Entered, Apart
    <3>2. CASE d = e
      BY <2>3, <3>2 DEF Entered, Running, Apart
    <3>3. CASE d # e
      BY <2>2, <2>3, <2>5, <3>1, <3>3 DEF Entered
    <3> QED
      BY <3>2, <3>3
  <2>7. ASSUME NEW k \in CallIds
        PROVE  Run(k)'
    <3>1. Run(k) /\ idem[k].by \in Edges \cup {NoEdge}
      BY DEF Table, Types, EntryRecords
    <3> QED
      BY <2>2, <2>5, <3>1 DEF Run
  <2> QED
    BY <2>4, <2>6, <2>7 DEF Table
<1>4. CASE UserDecides
  <2>1. PICK a \in Edges : /\ Alone(a) /\ Serves(a) /\ edge'[a].pc = edge[a].pc
                           /\ edge'[a].work.out = edge[a].work.out
    BY <1>4, DecideView
  <2>2. \A d \in Edges : /\ Serves(d) /\ edge'[d].pc = edge[d].pc
                         /\ edge'[d].work.out = edge[d].work.out
    BY <2>1 DEF Alone, Serves
  <2>3. UNCHANGED <<idem, newest>>
    BY <1>4 DEF UserDecides
  <2>4. Started'
    BY <2>2, <2>3 DEF Started, Table
  <2>5. \A d \in Edges, k \in CallIds : RunsCall(d, k) => RunsCall(d, k)'
    BY <2>2 DEF RunsCall, Serves
  <2>6. ASSUME NEW d \in Edges
        PROVE  Entered(d)'
    <3>1. Entered(d) /\ (edge[d].pc = "duplicate" => edge[d].work.callId \in CallIds)
      BY DEF Table, Entered, Apart
    <3>2. /\ edge'[d].pc = edge[d].pc /\ edge'[d].work.out = edge[d].work.out
          /\ edge'[d].work.callId = edge[d].work.callId /\ edge'[d].work.of = edge[d].work.of
      BY <2>2 DEF Serves
    <3> QED
      BY <2>3, <2>5, <3>1, <3>2 DEF Entered
  <2>7. ASSUME NEW k \in CallIds
        PROVE  Run(k)'
    <3>1. Run(k) /\ idem[k].by \in Edges \cup {NoEdge}
      BY DEF Table, Types, EntryRecords
    <3> QED
      BY <2>3, <2>5, <3>1 DEF Run
  <2> QED
    BY <2>4, <2>6, <2>7 DEF Table
<1> QED
  BY <1>1, <1>2, <1>3, <1>4
     DEF LinkNext, HubStep, CallPeer, Write, ReturnAnswer, ReleaseSlot, SetExclusive, Heartbeat, ReadAnswer,
         MarkOffline, DeleteConn, Cut, linkVars, linkDevice

-----------------------------------------------------------------------------
(* Approvals and runs                                                      *)

\* What the user has approved of the call that an Edge serves.
Approved(e) ==
  /\ edge[e].pc = "requiring" => edge[e].work.dec = "none"
  /\ edge[e].pc = "approving" /\ edge[e].work.dec # "none" => edge[e].work.callId \in granted
  /\ edge[e].pc = "executing" /\ edge[e].work.callId \in Destructive
       => edge[e].work.callId \in granted

\* A request for approval is that of an Edge which waits for it.
Asked(k) == asking[k] # NoEdge => /\ edge[asking[k]].pc = "approving"
                                  /\ edge[asking[k]].work.callId = k

\* A tool that ran is entered with its outcome, or its run is about to be.
Done(k) == \/ idem[k].out = "ok"
           \/ \E e \in Edges : /\ idem[k].by = e /\ edge[e].pc = "finishing"
                               /\ edge[e].work.callId = k /\ edge[e].work.out = "ok"
Ran(k) ==
  /\ runs[k] \in {0, 1}
  /\ runs[k] = 1 => Done(k)
  /\ runs[k] = 1 /\ k \in Destructive => k \in granted

Consent == /\ runs \in [CallIds -> Nat]
           /\ \A e \in Edges : Approved(e)
           /\ \A k \in CallIds : Asked(k) /\ Ran(k)

LEMMA InitConsent == LinkInit => Consent
<1> SUFFICES ASSUME LinkInit
             PROVE  Consent
  OBVIOUS
<1>1. \A e \in Edges : edge[e].pc = "off"
  BY DEF LinkInit
<1>2. runs \in [CallIds -> Nat] /\ \A k \in CallIds : asking[k] = NoEdge /\ runs[k] = 0
  BY DEF LinkInit
<1> QED
  BY <1>1, <1>2 DEF Consent, Approved, Asked, Ran

\* A call that an Edge runs or drops was not run yet, unless the Edge is about
\* to say so.
LEMMA NotYet ==
  ASSUME Types, Table, Consent, NEW e \in Edges, edge[e].pc \in Running \cup {"dropping"},
         edge[e].pc = "finishing" => edge[e].work.out # "ok"
  PROVE  edge[e].work.callId \in CallIds /\ runs[edge[e].work.callId] = 0
<1>1. Entered(e) /\ edge[e].work.callId \in CallIds
  BY DEF Table, Entered, Running, Apart
<1>2. idem[edge[e].work.callId].by = e /\ idem[edge[e].work.callId].out # "ok"
  BY <1>1 DEF Entered
<1>3. ~Done(edge[e].work.callId)
  BY <1>2 DEF Done
<1> QED
  BY <1>1, <1>3 DEF Consent, Ran

\* An Edge that runs nothing changes nothing of this, unless it starts a run.
LEMMA ElsewhereConsent ==
  ASSUME Types, Consent, NEW e \in Edges, Alone(e), UNCHANGED <<idem, asking, granted, runs>>,
         edge[e].pc \notin Running, edge'[e].pc \notin {"approving", "executing"},
         edge'[e].pc = "requiring" => edge'[e].work.dec = "none"
  PROVE  Consent'
<1>1. \A d \in Edges : edge[d].pc \in Running => d # e /\ edge'[d] = edge[d]
  BY DEF Alone
<1>2. ASSUME NEW d \in Edges
      PROVE  Approved(d)'
  BY DEF Approved, Alone, Consent
<1>3. ASSUME NEW k \in CallIds
      PROVE  Asked(k)' /\ Ran(k)'
  <2>1. Asked(k) /\ Ran(k) /\ asking[k] \in Edges \cup {NoEdge}
    BY DEF Consent, Types
  <2>2. Done(k) => Done(k)'
    BY <1>1 DEF Done, Running
  <2>3. Asked(k)'
    BY <1>1, <2>1 DEF Asked, Running
  <2> QED
    BY <2>1, <2>2, <2>3 DEF Ran
<1> QED
  BY <1>2, <1>3 DEF Consent

LEMMA ReceiveConsent ==
  ASSUME Types, Table, Consent, NEW e \in Edges, ReceiveFrame(e)
  PROVE  Consent'
<1>0. PICK k : k = edge'[e].work.callId
  OBVIOUS
<1>1. /\ Alone(e) /\ edge[e].pc = "reading" /\ k \in CallIds
      /\ UNCHANGED <<asking, granted, runs>>
  BY <1>0, ReceiveView DEF ReceiveFrame, linkHistory
<1>2. \A d \in Edges : edge[d].pc \in Running => d # e /\ edge'[d] = edge[d]
  BY <1>1 DEF Alone, Running
<1>3. CASE /\ idem[k].by = NoEdge /\ idem' = [idem EXCEPT ![k] = [by |-> e, out |-> "none"]]
           /\ edge'[e].pc = "requiring" /\ edge'[e].work.dec = "none"
  <2>1. \A j \in CallIds \ {k} : idem'[j] = idem[j]
    BY <1>3 DEF Types
  <2>2. runs[k] # 1
    <3>1. idem[k].out \in Outcomes \cup {"none"} /\ Run(k)
      BY <1>1 DEF Types, EntryRecords, Table
    <3>2. ~Done(k)
      BY <1>3, <3>1, NoEdgeIsNone DEF Run, Done
    <3> QED
      BY <1>1, <3>2 DEF Consent, Ran
  <2>3. ASSUME NEW d \in Edges
        PROVE  Approved(d)'
    BY <1>1, <1>3 DEF Approved, Alone, Consent
  <2>4. ASSUME NEW j \in CallIds
        PROVE  Asked(j)' /\ Ran(j)'
    <3>1. Asked(j) /\ Ran(j) /\ asking[j] \in Edges \cup {NoEdge}
      BY DEF Consent, Types
    <3>2. Asked(j)'
      BY <1>1, <1>2, <3>1 DEF Asked, Running
    <3>3. j # k /\ Done(j) => Done(j)'
      BY <1>2, <2>1 DEF Done, Running
    <3> QED
      BY <1>1, <2>2, <3>1, <3>2, <3>3 DEF Ran
  <2> QED
    BY <1>1, <2>3, <2>4 DEF Consent
<1>4. CASE idem' = idem /\ edge'[e].pc = "duplicate"
  BY <1>1, <1>4, ElsewhereConsent DEF Running
<1> QED
  BY <1>0, <1>3, <1>4, ReceiveView

LEMMA RequireConsent ==
  ASSUME Types, Table, Consent, NEW e \in Edges, Require(e)
  PROVE  Consent'
<1>0. PICK k : k = edge[e].work.callId
  OBVIOUS
<1>1. /\ edge[e].pc = "requiring" /\ granted' = granted \ {k} /\ UNCHANGED <<idem, runs>>
      /\ k \in CallIds /\ runs[k] = 0
  BY <1>0, RequireView, NotYet DEF Running, Require
<1>2. \A d \in Edges \ {e} : edge[d].pc \in Running => edge[d].work.callId # k
  BY <1>0, <1>1 DEF Table, Entered, Running
<1>3. /\ \A d \in Edges \ {e} : edge'[d] = edge[d]
      /\ edge'[e].work.callId = k /\ edge'[e].work.dec = edge[e].work.dec
      /\ \/ edge'[e].pc = "executing" /\ k \notin Destructive /\ asking' = asking
         \/ edge'[e].pc = "approving" /\ asking' = [asking EXCEPT ![k] = e]
  BY <1>0, RequireView DEF Becomes, Alone, Serves
<1>4. Approved(e)'
  BY <1>1, <1>3 DEF Approved, Consent
<1>5. ASSUME NEW d \in Edges \ {e}
      PROVE  Approved(d)'
  <2>1. edge'[d] = edge[d] /\ Approved(d)
    BY <1>3 DEF Consent
  <2> QED
    BY <1>1, <1>2, <2>1 DEF Approved, Running
<1>6. ASSUME NEW j \in CallIds
      PROVE  Asked(j)' /\ Ran(j)'
  <2>1. Asked(j) /\ Ran(j) /\ asking[j] \in Edges \cup {NoEdge}
    BY DEF Consent, Types
  <2>2. asking[j] # NoEdge => asking[j] \in Edges \ {e}
    BY <1>1, <2>1 DEF Asked
  <2>3. asking'[j] = asking[j] \/ (j = k /\ asking'[j] = e /\ edge'[e].pc = "approving")
    BY <1>1, <1>3 DEF Types
  <2>4. Asked(j)'
    BY <1>3, <2>1, <2>2, <2>3 DEF Asked
  <2>5. Done(j) => Done(j)'
    BY <1>1, <1>3 DEF Done
  <2>6. runs'[j] = 1 => j # k
    BY <1>1
  <2> QED
    BY <1>1, <2>1, <2>4, <2>5, <2>6 DEF Ran
<1> QED
  BY <1>1, <1>4, <1>5, <1>6 DEF Consent

LEMMA SettleConsent ==
  ASSUME Types, Table, Consent, NEW e \in Edges, Settle(e)
  PROVE  Consent'
<1>0. PICK k : k = edge[e].work.callId
  OBVIOUS
<1>1. /\ edge[e].pc = "approving" /\ asking' = [asking EXCEPT ![k] = NoEdge]
      /\ UNCHANGED <<idem, runs, granted>>
  BY <1>0, SettleView DEF Settle, linkHistory
<1>2. /\ \A d \in Edges \ {e} : edge'[d] = edge[d]
      /\ edge'[e].work.callId = k
      /\ \/ edge'[e].pc = "executing" /\ edge[e].work.dec # "none"
         \/ edge'[e].pc = "finishing"
  BY <1>0, SettleView DEF Becomes, Alone, Serves
<1>3. Approved(e)'
  BY <1>0, <1>1, <1>2 DEF Approved, Consent
<1>4. ASSUME NEW d \in Edges \ {e}
      PROVE  Approved(d)'
  BY <1>1, <1>2 DEF Approved, Consent
<1>5. ASSUME NEW j \in CallIds
      PROVE  Asked(j)' /\ Ran(j)'
  <2>1. Asked(j) /\ Ran(j) /\ asking[j] \in Edges \cup {NoEdge}
    BY DEF Consent, Types
  <2>2. j = k \/ asking[j] # e
    BY <1>0, <2>1, NoEdgeIsNone DEF Asked
  <2>3. asking'[j] = IF j = k THEN NoEdge ELSE asking[j]
    BY <1>1 DEF Types
  <2>4. Asked(j)'
    BY <1>2, <2>1, <2>2, <2>3 DEF Asked
  <2>5. Done(j) => Done(j)'
    BY <1>1, <1>2 DEF Done
  <2> QED
    BY <1>1, <2>1, <2>4, <2>5 DEF Ran
<1> QED
  BY <1>1, <1>3, <1>4, <1>5 DEF Consent

LEMMA ExecuteConsent ==
  ASSUME Types, Table, Consent, NEW e \in Edges, Execute(e)
  PROVE  Consent'
<1>0. PICK k : k = edge[e].work.callId
  OBVIOUS
<1>1. /\ edge[e].pc = "executing" /\ UNCHANGED <<idem, asking, granted>>
      /\ k \in CallIds /\ runs[k] = 0 /\ idem[k].by = e
  <2>1. edge[e].pc = "executing"
    BY ExecuteView
  <2>2. k \in CallIds /\ runs[k] = 0
    BY <1>0, <2>1, NotYet DEF Running
  <2>3. idem[k].by = e
    BY <1>0, <2>1 DEF Table, Entered, Running
  <2> QED
    BY <2>1, <2>2, <2>3 DEF Execute
<1>2. PICK x \in Outcomes : /\ Becomes(e, "finishing", x)
                            /\ runs' = IF x = "ok" THEN [runs EXCEPT ![k] = @ + 1] ELSE runs
  BY <1>0, ExecuteView
<1>3. /\ \A d \in Edges \ {e} : edge'[d] = edge[d]
      /\ edge'[e].work.callId = k /\ edge'[e].pc = "finishing" /\ edge'[e].work.out = x
  BY <1>0, <1>2 DEF Becomes, Alone, Serves
<1>4. /\ runs' \in [CallIds -> Nat] /\ \A j \in CallIds \ {k} : runs'[j] = runs[j]
      /\ runs'[k] = IF x = "ok" THEN 1 ELSE 0
  BY <1>1, <1>2 DEF Consent
<1>5. ASSUME NEW d \in Edges
      PROVE  Approved(d)'
  BY <1>1, <1>3 DEF Approved, Consent
<1>6. ASSUME NEW j \in CallIds
      PROVE  Asked(j)' /\ Ran(j)'
  <2>1. Asked(j) /\ Ran(j) /\ asking[j] \in Edges \cup {NoEdge}
    BY DEF Consent, Types
  <2>2. Asked(j)'
    BY <1>1, <1>3, <2>1 DEF Asked
  <2>3. CASE j = k
    <3>1. runs'[j] = 1 => Done(j)'
      BY <1>1, <1>3, <1>4, <2>3 DEF Done
    <3>2. j \in Destructive => j \in granted
      BY <1>0, <1>1, <2>3 DEF Consent, Approved
    <3> QED
      BY <1>1, <1>4, <2>2, <2>3, <3>1, <3>2 DEF Ran
  <2>4. CASE j # k
    <3>1. Done(j) => Done(j)'
      BY <1>1, <1>3 DEF Done
    <3> QED
      BY <1>1, <1>4, <2>1, <2>2, <2>4, <3>1 DEF Ran
  <2> QED
    BY <2>3, <2>4
<1> QED
  BY <1>4, <1>5, <1>6 DEF Consent

LEMMA FinishConsent ==
  ASSUME Types, Table, Consent, NEW e \in Edges, Finish(e)
  PROVE  Consent'
<1>0. PICK k, x : k = edge[e].work.callId /\ x = edge[e].work.out
  OBVIOUS
<1>1. /\ edge[e].pc = "finishing" /\ UNCHANGED <<runs, asking, granted>>
      /\ k \in CallIds /\ idem[k].by = e /\ (runs[k] = 1 => x = "ok")
  <2>1. edge[e].pc = "finishing"
    BY FinishView
  <2>2. k \in CallIds /\ idem[k].by = e
    BY <1>0, <2>1 DEF Table, Entered, Running, Apart
  <2>3. x # "ok" => runs[k] = 0
    BY <1>0, <2>1, NotYet DEF Running
  <2> QED
    BY <2>1, <2>2, <2>3 DEF Finish, linkHistory
<1>2. idem'[k].out = x /\ \A j \in CallIds \ {k} : idem'[j] = idem[j]
  <2>1. PICK r : r = [idem[k] EXCEPT !.out = x]
    OBVIOUS
  <2>2. idem' = [idem EXCEPT ![k] = r]
    BY <1>0, <1>1, <2>1, FinishView
  <2>3. r.out = x
    BY <1>1, <2>1 DEF Types, EntryRecords
  <2> QED
    BY <1>1, <2>2, <2>3 DEF Types
<1>3. ASSUME NEW d \in Edges \ {e}
      PROVE  /\ edge'[d].pc = edge[d].pc /\ edge'[d].work.callId = edge[d].work.callId
             /\ edge'[d].work.dec = edge[d].work.dec
             /\ edge[d].pc # "duplicate" => edge'[d].work.out = edge[d].work.out
  <2>1. /\ edge'[d].pc = edge[d].pc /\ Serves(d) /\ edge'[d].work.dec = edge[d].work.dec
        /\ ~Follows(d, e) => edge'[d].work.out = edge[d].work.out
    BY FinishView
  <2> QED
    BY <2>1 DEF Serves, Follows
<1>4. edge'[e].pc \in {"answering", "dropping"}
  BY FinishView
<1>5. ASSUME NEW d \in Edges
      PROVE  Approved(d)'
  <2>1. CASE d = e
    BY <1>4, <2>1 DEF Approved
  <2>2. CASE d # e
    BY <1>1, <1>3, <2>2 DEF Approved, Consent
  <2> QED
    BY <2>1, <2>2
<1>6. ASSUME NEW j \in CallIds
      PROVE  Asked(j)' /\ Ran(j)'
  <2>1. Asked(j) /\ Ran(j) /\ asking[j] \in Edges \cup {NoEdge}
    BY DEF Consent, Types
  <2>2. Asked(j)'
    BY <1>1, <1>3, <2>1 DEF Asked
  <2>3. runs[j] = 1 => Done(j)'
    <3>1. CASE j = k
      BY <1>1, <1>2, <3>1 DEF Done
    <3>2. CASE j # k
      BY <1>0, <1>2, <1>3, <2>1, <3>2 DEF Done, Ran
    <3> QED
      BY <3>1, <3>2
  <2> QED
    BY <1>1, <2>1, <2>2, <2>3 DEF Ran
<1> QED
  BY <1>1, <1>5, <1>6 DEF Consent

LEMMA DropConsent ==
  ASSUME Types, Table, Consent, NEW e \in Edges, Drop(e)
  PROVE  Consent'
<1>0. PICK k : k = edge[e].work.callId
  OBVIOUS
<1>1. /\ edge[e].pc = "dropping" /\ UNCHANGED <<runs, asking, granted>>
      /\ k \in CallIds /\ runs[k] = 0
      /\ \A j \in CallIds \ {k} : idem'[j] = idem[j]
  <2>1. edge[e].pc = "dropping" /\ idem' = [idem EXCEPT ![k] = NoEntry]
    BY <1>0, DropView
  <2>2. k \in CallIds /\ runs[k] = 0
    BY <1>0, <2>1, NotYet DEF Running
  <2> QED
    BY <2>1, <2>2 DEF Drop, linkHistory, Types
<1>2. edge'[e].pc = "answering" /\ \A d \in Edges \ {e} : edge'[d] = edge[d]
  BY DropView DEF Becomes, Alone
<1>3. ASSUME NEW d \in Edges
      PROVE  Approved(d)'
  BY <1>1, <1>2 DEF Approved, Consent
<1>4. ASSUME NEW j \in CallIds
      PROVE  Asked(j)' /\ Ran(j)'
  <2>1. Asked(j) /\ Ran(j) /\ asking[j] \in Edges \cup {NoEdge}
    BY DEF Consent, Types
  <2>2. Asked(j)'
    BY <1>1, <1>2, <2>1 DEF Asked
  <2>3. j # k /\ Done(j) => Done(j)'
    BY <1>1, <1>2 DEF Done
  <2> QED
    BY <1>1, <2>1, <2>2, <2>3 DEF Ran
<1> QED
  BY <1>1, <1>3, <1>4 DEF Consent

LEMMA DecideConsent ==
  ASSUME Types, Consent, UserDecides
  PROVE  Consent'
<1>1. PICK k \in CallIds :
        /\ asking[k] \in Edges /\ Alone(asking[k]) /\ Serves(asking[k])
        /\ edge'[asking[k]].pc = edge[asking[k]].pc
        /\ edge'[asking[k]].work.out = edge[asking[k]].work.out
        /\ granted' = granted \cup {k}
  BY DecideView
<1>2. PICK a \in Edges : a = asking[k]
  BY <1>1
<1>3. edge[a].pc = "approving" /\ edge[a].work.callId = k
  BY <1>1, <1>2, NoEdgeIsNone DEF Consent, Asked
<1>4. /\ \A d \in Edges \ {a} : edge'[d] = edge[d]
      /\ edge'[a].pc = "approving" /\ edge'[a].work.callId = k
      /\ UNCHANGED <<idem, asking, runs>>
  BY <1>1, <1>2, <1>3 DEF Alone, Serves, UserDecides
<1>5. ASSUME NEW d \in Edges
      PROVE  Approved(d)'
  BY <1>1, <1>4 DEF Approved, Consent
<1>6. ASSUME NEW j \in CallIds
      PROVE  Asked(j)' /\ Ran(j)'
  <2>1. Asked(j) /\ Ran(j) /\ asking[j] \in Edges \cup {NoEdge}
    BY DEF Consent, Types
  <2>2. Asked(j)'
    BY <1>3, <1>4, <2>1 DEF Asked
  <2>3. Done(j) => Done(j)'
    BY <1>3, <1>4 DEF Done
  <2> QED
    BY <1>1, <1>4, <2>1, <2>2, <2>3 DEF Ran
<1> QED
  BY <1>4, <1>5, <1>6 DEF Consent

LEMMA StepConsent == Types /\ Table /\ Consent /\ [LinkNext]_linkVars => Consent'
<1> SUFFICES ASSUME Types, Table, Consent, [LinkNext]_linkVars
             PROVE  Consent'
  OBVIOUS
<1>1. ASSUME UNCHANGED <<edge, idem, asking, granted, runs>>
      PROVE  Consent'
  BY <1>1 DEF Consent, Approved, Asked, Ran, Done
<1>2. ASSUME NEW e \in Edges, EdgeStep(e)
      PROVE  Consent'
  <2>1. CASE Dial(e)
    BY <2>1, DialView, ElsewhereConsent DEF Dial, Running, linkHistory
  <2>2. CASE ReceiveFrame(e)
    BY <2>2, ReceiveConsent
  <2>3. CASE Disconnect(e)
    BY <2>3, DisconnectView, ElsewhereConsent DEF Disconnect, Running, linkHistory
  <2>4. CASE Answer(e)
    BY <2>4, AnswerView, ElsewhereConsent DEF Answer, Running, linkHistory
  <2>5. CASE AnswerDuplicate(e)
    <3>1. edge[e].pc = "duplicate" /\ Alone(e) /\ edge'[e].pc = "answering"
      BY <2>5, AnswerDuplicateView DEF Becomes
    <3> QED
      BY <2>5, <3>1, ElsewhereConsent DEF AnswerDuplicate, Running, linkHistory
  <2>6. CASE Require(e)
    BY <2>6, RequireConsent
  <2>7. CASE Settle(e)
    BY <2>7, SettleConsent
  <2>8. CASE Execute(e)
    BY <2>8, ExecuteConsent
  <2>9. CASE Finish(e)
    BY <2>9, FinishConsent
  <2>10. CASE Drop(e)
    BY <2>10, DropConsent
  <2> QED
    BY <1>2, <2>1, <2>2, <2>3, <2>4, <2>5, <2>6, <2>7, <2>8, <2>9, <2>10 DEF EdgeStep
<1>3. CASE StartEdge
  <2>1. PICK e \in Edges : e = newest' /\ newest' = newest + 1 /\ Becomes(e, "dialing", edge[e].work.out)
    BY <1>3, StartView
  <2>2. edge[e].pc = "off"
    BY <2>1, LinkAssumption DEF Table, Started, Types, NoEdge
  <2>3. Alone(e) /\ edge'[e].pc = "dialing"
    BY <2>1 DEF Becomes
  <2> QED
    BY <1>3, <2>2, <2>3, ElsewhereConsent DEF StartEdge, Running, linkHistory
<1>4. CASE UserDecides
  BY <1>4, DecideConsent
<1>5. CASE HubStep \/ (\E n \in Conns : Cut(n)) \/ UNCHANGED linkVars
  BY <1>1, <1>5
     DEF HubStep, CallPeer, Write, ReturnAnswer, ReleaseSlot, SetExclusive, Heartbeat, ReadAnswer,
         MarkOffline, DeleteConn, Cut, linkVars, linkDevice, linkHistory
<1> QED
  BY <1>2, <1>3, <1>4, <1>5 DEF LinkNext

-----------------------------------------------------------------------------
(* Answers                                                                 *)

In(s) == {s[i] : i \in 1..Len(s)}

LEMMA InAppend ==
  ASSUME NEW S, NEW s \in Seq(S), NEW m \in S
  PROVE  In(Append(s, m)) = In(s) \cup {m}
<1>1. Len(Append(s, m)) = Len(s) + 1 /\ Len(s) \in Nat
  OBVIOUS
<1>2. \A i \in 1..Len(s) : Append(s, m)[i] = s[i] /\ i \in 1..(Len(s) + 1)
  OBVIOUS
<1>3. Append(s, m)[Len(s) + 1] = m
  OBVIOUS
<1>4. \A i \in 1..(Len(s) + 1) : i \in 1..Len(s) \/ i = Len(s) + 1
  BY <1>1
<1> QED
  BY <1>1, <1>2, <1>3, <1>4 DEF In

LEMMA InTail ==
  ASSUME NEW S, NEW s \in Seq(S), s # <<>>
  PROVE  In(Tail(s)) \subseteq In(s) /\ Head(s) \in In(s)
<1>1. Len(Tail(s)) = Len(s) - 1 /\ Len(s) \in Nat /\ Len(s) > 0
  OBVIOUS
<1>2. \A i \in 1..Len(Tail(s)) : Tail(s)[i] = s[i + 1] /\ i + 1 \in 1..Len(s)
  BY <1>1
<1>3. Head(s) = s[1] /\ 1 \in 1..Len(s)
  BY <1>1
<1> QED
  BY <1>2, <1>3 DEF In

LEMMA InSeq ==
  ASSUME NEW S, NEW s \in Seq(S)
  PROVE  In(s) \subseteq S
<1>1. \A i \in 1..Len(s) : s[i] \in S
  OBVIOUS
<1> QED
  BY <1>1 DEF In

LEMMA InEmpty == In(<<>>) = {}
  BY DEF In

\* No frame has an id that is yet to be given.
Numbered ==
  /\ \A n \in Conns : /\ \A m \in In(toEdge[n]) : m.id <= seq
                      /\ \A m \in In(toHub[n]) : m.id <= seq
  /\ \A e \in Edges : edge[e].work.id <= seq

\* What travels with the frame of a caller names its call, and says "ok" only
\* of a tool that ran.
Matched(c) ==
  /\ \A n \in Conns :
       /\ \A m \in In(toEdge[n]) : m.id = call[c].id => m.callId = call[c].callId
       /\ \A m \in In(toHub[n]) : m.id = call[c].id /\ m.out = "ok" => runs[call[c].callId] = 1
  /\ \A e \in Edges : edge[e].work.id = call[c].id => edge[e].work.callId = call[c].callId
  /\ call[c].res = "ok" => runs[call[c].callId] = 1

Returned(c) == results[c] = "ok" => call[c].pc = "leaving" /\ runs[call[c].callId] = 1

Earned(e) == edge[e].pc \in {"answering", "duplicate", "finishing"} /\ edge[e].work.out = "ok"
             => runs[edge[e].work.callId] = 1
EntryEarned(k) == idem[k].out = "ok" => runs[k] = 1

Answers == /\ Numbered
           /\ \A c \in Callers : (c \in Under => Matched(c)) /\ Returned(c)
           /\ \A e \in Edges : Earned(e)
           /\ \A k \in CallIds : EntryEarned(k)

LEMMA InitAnswers == LinkInit => Answers
<1> SUFFICES ASSUME LinkInit
             PROVE  Answers
  OBVIOUS
<1>1. \A n \in Conns : In(toEdge[n]) = {} /\ In(toHub[n]) = {}
  BY InEmpty DEF LinkInit
<1>2. \A e \in Edges : edge[e].pc = "off" /\ edge[e].work.id = 0
  BY DEF LinkInit, NoWork, NoFrame
<1>3. Under = {} /\ seq = 0
  BY DEF LinkInit, Under, NoCall
<1>4. \A k \in CallIds : idem[k].out = "none"
  BY DEF LinkInit, NoEntry
<1>5. \A c \in Callers : results[c] = "none"
  BY DEF LinkInit
<1> QED
  BY <1>1, <1>2, <1>3, <1>4, <1>5 DEF Answers, Numbered, Returned, Earned, EntryEarned

\* A tool that ran has run ever after.
LEMMA RunsGrow ==
  ASSUME Types, Table, Consent, LinkNext, NEW k \in CallIds, runs[k] = 1
  PROVE  runs'[k] = 1
<1>1. ASSUME NEW e \in Edges, Execute(e)
      PROVE  runs'[k] = 1
  <2>1. edge[e].pc = "executing"
    BY <1>1, ExecuteView
  <2>2. edge[e].work.callId \in CallIds /\ runs[edge[e].work.callId] = 0
    BY <2>1, NotYet DEF Running
  <2>3. runs' = runs \/ runs' = [runs EXCEPT ![edge[e].work.callId] = @ + 1]
    BY <1>1 DEF Execute
  <2> QED
    BY <2>2, <2>3 DEF Consent
<1>2. CASE runs' = runs
  BY <1>2
<1>3. ASSUME NEW e \in Edges, EdgeStep(e)
      PROVE  runs'[k] = 1
  BY <1>1, <1>2, <1>3 DEF EdgeStep, Dial, ReceiveFrame, Disconnect, Answer, AnswerDuplicate, Require,
                          Settle, Finish, Drop, linkHistory
<1> QED
  BY <1>2, <1>3 DEF LinkNext, HubStep, CallPeer, Write, ReturnAnswer, ReleaseSlot, SetExclusive, Heartbeat,
                    ReadAnswer, MarkOffline, DeleteConn, Cut, StartEdge, UserDecides, linkHistory

\* A step of the device keeps the answers when what the Edges serve stays, or
\* is of no frame, and their outcomes are earned.
LEMMA DeviceAnswers ==
  ASSUME Types, Slots, Answers, UNCHANGED <<call, seq, results, toEdge, toHub>>,
         \A k \in CallIds : runs[k] = 1 => runs'[k] = 1,
         \A e \in Edges : \/ edge'[e].work.id = NoFrame
                          \/ /\ edge'[e].work.id = edge[e].work.id
                             /\ edge'[e].work.callId = edge[e].work.callId,
         \A e \in Edges : Earned(e)', \A k \in CallIds : EntryEarned(k)'
  PROVE  Answers'
<1>1. Numbered'
  <2>1. ASSUME NEW e \in Edges
        PROVE  edge'[e].work.id <= seq'
    <3>1. edge[e].work.id <= seq /\ seq \in Nat /\ seq' = seq
      BY DEF Answers, Numbered, Types
    <3> QED
      BY <3>1 DEF NoFrame
  <2> QED
    BY <2>1 DEF Answers, Numbered
<1>2. ASSUME NEW c \in Callers
      PROVE  (c \in Under => Matched(c))' /\ Returned(c)'
  <2>1. /\ c \in Under => Matched(c) /\ call[c].id \in 1..seq /\ call[c].callId \in CallIds
        /\ Returned(c)
    BY DEF Answers, Slots, Under, Types
  <2>2. c \in Under' <=> c \in Under
    BY DEF Under
  <2>3. c \in Under => Matched(c)'
    BY <2>1 DEF Matched, NoFrame
  <2>4. Returned(c)'
    BY <2>1 DEF Returned, Under
  <2> QED
    BY <2>2, <2>3, <2>4
<1> QED
  BY <1>1, <1>2 DEF Answers

\* A step of the hub.
LEMMA HubAnswers ==
  ASSUME Types, Slots, Answers, UNCHANGED <<edge, idem, runs>>,
         Numbered', \A c \in Callers : (c \in Under => Matched(c))' /\ Returned(c)'
  PROVE  Answers'
  BY DEF Answers, Earned, EntryEarned

LEMMA CallAnswers ==
  ASSUME Types, Slots, Answers, NEW c \in Callers, CallPeer(c)
  PROVE  Answers'
<1>1. /\ seq' = seq + 1 /\ c \notin Under
      /\ UNCHANGED <<edge, idem, runs, toEdge, toHub, results>>
  BY DEF CallPeer, Under, linkDevice, linkNet, linkHistory
<1>2. PICK r : r.pc = "writing" /\ r.id = seq' /\ r.res = "none" /\ call' = [call EXCEPT ![c] = r]
  BY DEF CallPeer, NoCall
<1>3. /\ call'[c].id = seq + 1 /\ call'[c].res = "none"
      /\ \A d \in Callers \ {c} : call'[d] = call[d]
  BY <1>1, <1>2 DEF Types
<1>4. \A n \in Conns : /\ toEdge[n] \in Seq(FrameRecords) /\ toHub[n] \in Seq(ReplyRecords)
                       /\ \A m \in In(toEdge[n]) : m.id \in Nat
                       /\ \A m \in In(toHub[n]) : m.id \in Nat
  <2>1. ASSUME NEW n \in Conns
        PROVE  /\ toEdge[n] \in Seq(FrameRecords) /\ toHub[n] \in Seq(ReplyRecords)
               /\ In(toEdge[n]) \subseteq FrameRecords /\ In(toHub[n]) \subseteq ReplyRecords
    BY InSeq DEF Types
  <2> QED
    BY <2>1 DEF FrameRecords, ReplyRecords
<1>5. \A e \in Edges : edge[e].work.id \in Nat
  BY DEF Types, EdgeRecords, WorkRecords
<1>6. Numbered'
  BY <1>1, <1>4, <1>5 DEF Answers, Numbered, Types
<1>7. Matched(c)'
  <2>1. \A n \in Conns : /\ \A m \in In(toEdge[n]) : m.id # seq + 1
                         /\ \A m \in In(toHub[n]) : m.id # seq + 1
    BY <1>4 DEF Answers, Numbered, Types
  <2>2. \A e \in Edges : edge[e].work.id # seq + 1
    BY <1>5 DEF Answers, Numbered, Types
  <2> QED
    BY <1>1, <1>3, <2>1, <2>2 DEF Matched
<1>8. ASSUME NEW d \in Callers
      PROVE  (d \in Under => Matched(d))' /\ Returned(d)'
  <2>1. CASE d = c
    BY <1>1, <1>7, <2>1 DEF Returned, Answers, Under
  <2>2. CASE d # c
    BY <1>1, <1>3, <2>2 DEF Returned, Matched, Answers, Under
  <2> QED
    BY <2>1, <2>2
<1> QED
  BY <1>1, <1>6, <1>8, HubAnswers

LEMMA WriteAnswers ==
  ASSUME Types, Slots, Answers, NEW c \in Callers, Write(c)
  PROVE  Answers'
<1>1. /\ call[c].pc = "writing" /\ UNCHANGED <<seq, edge, idem, runs, toHub, results>>
      /\ \E p \in {"waiting", "leaving"} : Steps(c, "writing", p)
  BY DEF Write, Steps, linkDevice, linkHistory
<1>2. \A d \in Callers : /\ call'[d].id = call[d].id /\ call'[d].callId = call[d].callId
                         /\ call'[d].res = call[d].res
                         /\ call'[d].pc = "idle" <=> call[d].pc = "idle"
                         /\ d # c => call'[d].pc = call[d].pc
  BY <1>1, StepsKeep DEF CallPCs
<1>3. PICK m : m = [id |-> call[c].id, callId |-> call[c].callId]
  OBVIOUS
<1>4. /\ c \in Under /\ call[c].id \in 1..seq /\ m \in FrameRecords
      /\ m.id = call[c].id /\ m.callId = call[c].callId
  <2>1. c \in Under /\ call[c].id \in 1..seq /\ call[c].callId \in CallIds
    BY <1>1 DEF Under, Slots, Types
  <2> QED
    BY <1>3, <2>1 DEF FrameRecords, Types
<1>5. ASSUME NEW n \in Conns
      PROVE  In(toEdge'[n]) \subseteq In(toEdge[n]) \cup {m}
  <2>1. In(Append(toEdge[n], m)) = In(toEdge[n]) \cup {m}
    BY <1>4, InAppend DEF Types
  <2>2. toEdge'[n] = toEdge[n] \/ toEdge'[n] = Append(toEdge[n], m)
    BY <1>3 DEF Write, Types
  <2> QED
    BY <2>1, <2>2
<1>6. Numbered'
  BY <1>1, <1>4, <1>5 DEF Answers, Numbered
<1>7. ASSUME NEW d \in Callers
      PROVE  (d \in Under => Matched(d))' /\ Returned(d)'
  <2>1. (d \in Under)' <=> d \in Under
    BY <1>2 DEF Under
  <2>2. d \in Under /\ m.id = call[d].id => d = c
    BY <1>4 DEF Slots
  <2>3. d \in Under => Matched(d)'
    BY <1>1, <1>2, <1>4, <1>5, <2>2 DEF Answers, Matched
  <2>4. Returned(d)'
    BY <1>1, <1>2 DEF Answers, Returned
  <2> QED
    BY <2>1, <2>3, <2>4
<1> QED
  BY <1>1, <1>6, <1>7, HubAnswers

LEMMA ReturnAnswers ==
  ASSUME Types, Slots, Answers, NEW c \in Callers, ReturnAnswer(c)
  PROVE  Answers'
<1>1. /\ call[c].pc = "waiting" /\ Steps(c, "waiting", "leaving")
      /\ UNCHANGED <<seq, edge, idem, runs, toHub, toEdge>>
  BY DEF ReturnAnswer, Steps, linkDevice, linkNet
<1>2. \A d \in Callers : /\ call'[d].id = call[d].id /\ call'[d].callId = call[d].callId
                         /\ call'[d].res = call[d].res
                         /\ call'[d].pc = IF d = c THEN "leaving" ELSE call[d].pc
  BY <1>1, StepsKeep DEF CallPCs
<1>3. PICK r \in {call[c].res, "none"} : results' = [results EXCEPT ![c] = r]
  BY DEF ReturnAnswer
<1>4. Numbered'
  BY <1>1 DEF Answers, Numbered
<1>5. ASSUME NEW d \in Callers
      PROVE  (d \in Under => Matched(d))' /\ Returned(d)'
  <2>1. (d \in Under)' <=> d \in Under
    BY <1>1, <1>2 DEF Under
  <2>2. d \in Under => Matched(d)'
    BY <1>1, <1>2 DEF Answers, Matched
  <2>3. Returned(d)'
    <3>1. CASE d = c
      BY <1>1, <1>2, <1>3, <3>1 DEF Answers, Matched, Returned, Under, Types
    <3>2. CASE d # c
      BY <1>1, <1>2, <1>3, <3>2 DEF Answers, Returned, Types
    <3> QED
      BY <3>1, <3>2
  <2> QED
    BY <2>1, <2>2, <2>3
<1> QED
  BY <1>1, <1>4, <1>5, HubAnswers

LEMMA ReleaseAnswers ==
  ASSUME Types, Slots, Answers, NEW c \in Callers, ReleaseSlot(c)
  PROVE  Answers'
<1>1. /\ call' = [call EXCEPT ![c] = NoCall] /\ results' = [results EXCEPT ![c] = "none"]
      /\ UNCHANGED <<seq, edge, idem, runs, toHub, toEdge>>
  BY DEF ReleaseSlot, linkDevice, linkNet
<1>2. /\ call'[c].pc = "idle" /\ results'[c] = "none"
      /\ \A d \in Callers \ {c} : call'[d] = call[d] /\ results'[d] = results[d]
  BY <1>1 DEF Types, NoCall
<1>3. Numbered'
  BY <1>1 DEF Answers, Numbered
<1>4. ASSUME NEW d \in Callers
      PROVE  (d \in Under => Matched(d))' /\ Returned(d)'
  <2>1. CASE d = c
    BY <1>2, <2>1 DEF Under, Returned
  <2>2. CASE d # c
    BY <1>1, <1>2, <2>2 DEF Answers, Matched, Returned, Under
  <2> QED
    BY <2>1, <2>2
<1> QED
  BY <1>1, <1>3, <1>4, HubAnswers

LEMMA ReadAnswers ==
  ASSUME Types, Slots, Answers, NEW n \in Conns, ReadAnswer(n)
  PROVE  Answers'
<1>1. /\ toHub[n] \in Seq(ReplyRecords) /\ toHub[n] # <<>>
      /\ toHub' = [toHub EXCEPT ![n] = Tail(toHub[n])]
      /\ UNCHANGED <<seq, edge, idem, runs, toEdge, results>>
  BY DEF ReadAnswer, Types, linkDevice, linkHistory
<1>2. PICK m : m = Head(toHub[n])
  OBVIOUS
<1>3. m \in In(toHub[n]) /\ \A i \in Conns : In(toHub'[i]) \subseteq In(toHub[i])
  BY <1>1, <1>2, InTail DEF Types
<1>4. ASSUME NEW d \in Callers
      PROVE  /\ call'[d].id = call[d].id /\ call'[d].callId = call[d].callId
             /\ call'[d].pc = call[d].pc
             /\ \/ call'[d].res = call[d].res
                \/ call'[d].res = m.out /\ call[d].id = m.id
  <2>1. \/ call'[d] = call[d]
        \/ call'[d] = [call[d] EXCEPT !.res = m.out] /\ call[d].id = m.id
    BY <1>2 DEF ReadAnswer, Delivered
  <2> QED
    BY <2>1 DEF Types, CallRecords
<1>5. Numbered'
  BY <1>1, <1>3 DEF Answers, Numbered
<1>6. ASSUME NEW d \in Callers
      PROVE  (d \in Under => Matched(d))' /\ Returned(d)'
  <2>1. (d \in Under)' <=> d \in Under
    BY <1>4 DEF Under
  <2>2. ASSUME Matched(d)
        PROVE  Matched(d)'
    <3>1. call'[d].res = "ok" => runs[call[d].callId] = 1
      <4>1. CASE call'[d].res = call[d].res
        BY <2>2, <4>1 DEF Matched
      <4>2. CASE call'[d].res = m.out /\ call[d].id = m.id
        BY <1>3, <2>2, <4>2 DEF Matched
      <4> QED
        BY <1>4, <4>1, <4>2
    <3>2. call'[d].id = call[d].id /\ call'[d].callId = call[d].callId
      BY <1>4
    <3> QED
      BY <1>1, <1>3, <2>2, <3>1, <3>2 DEF Matched
  <2>3. Returned(d)'
    BY <1>1, <1>4 DEF Answers, Returned
  <2> QED
    BY <2>1, <2>2, <2>3 DEF Answers
<1> QED
  BY <1>1, <1>5, <1>6, HubAnswers

LEMMA ReceiveAnswers ==
  ASSUME Types, Slots, Table, Answers, NEW e \in Edges, ReceiveFrame(e)
  PROVE  Answers'
<1>0. PICK n, m, k : /\ n = edge[e].work.conn /\ m = Head(toEdge[n])
                     /\ k = edge'[e].work.callId
  OBVIOUS
<1>1. /\ Alone(e) /\ n \in Conns /\ toEdge[n] \in Seq(FrameRecords) /\ toEdge[n] # <<>>
      /\ toEdge' = [toEdge EXCEPT ![n] = Tail(toEdge[n])]
      /\ edge'[e].work.callId = m.callId /\ edge'[e].work.id = m.id /\ k \in CallIds
      /\ UNCHANGED <<call, seq, results, toHub, runs>>
  BY <1>0, ReceiveView DEF ReceiveFrame, linkHub, linkHistory
<1>2. m \in In(toEdge[n]) /\ \A i \in Conns : In(toEdge'[i]) \subseteq In(toEdge[i])
  BY <1>0, <1>1, InTail DEF Types
<1>3. /\ \/ idem' = idem \/ idem' = [idem EXCEPT ![k] = [by |-> e, out |-> "none"]]
      /\ \/ edge'[e].pc = "requiring"
         \/ edge'[e].pc = "duplicate" /\ edge'[e].work.out = idem[k].out
  BY <1>0, ReceiveView
<1>4. Numbered'
  BY <1>1, <1>2 DEF Answers, Numbered, Alone
<1>5. ASSUME NEW c \in Callers
      PROVE  (c \in Under => Matched(c))' /\ Returned(c)'
  <2>1. (c \in Under)' <=> c \in Under
    BY <1>1 DEF Under
  <2>2. c \in Under => Matched(c)'
    BY <1>1, <1>2 DEF Answers, Matched, Alone
  <2>3. Returned(c)'
    BY <1>1 DEF Answers, Returned
  <2> QED
    BY <2>1, <2>2, <2>3
<1>6. ASSUME NEW d \in Edges
      PROVE  Earned(d)'
  <2>1. CASE d = e
    <3>1. edge'[e].work.callId = k /\ (idem[k].out = "ok" => runs[k] = 1)
      BY <1>0, <1>1 DEF Answers, EntryEarned
    <3> QED
      BY <1>1, <1>3, <2>1, <3>1 DEF Earned
  <2>2. CASE d # e
    BY <1>1, <2>2 DEF Answers, Earned, Alone
  <2> QED
    BY <2>1, <2>2
<1>7. ASSUME NEW j \in CallIds
      PROVE  EntryEarned(j)'
  <2>1. idem'[j] = idem[j] \/ idem'[j].out = "none"
    BY <1>3 DEF Types
  <2> QED
    BY <1>1, <2>1 DEF Answers, EntryEarned
<1> QED
  BY <1>4, <1>5, <1>6, <1>7 DEF Answers

LEMMA AnswerAnswers ==
  ASSUME Types, Slots, Table, Answers, NEW e \in Edges, Answer(e)
  PROVE  Answers'
<1>0. PICK w : w = edge[e].work
  OBVIOUS
<1>1. PICK m : m = [id |-> w.id, out |-> w.out]
  OBVIOUS
<1>2. /\ m \in ReplyRecords /\ m.id = w.id /\ m.out = w.out
  BY <1>0, <1>1 DEF ReplyRecords, Types, EdgeRecords, WorkRecords
<1>3. /\ Alone(e) /\ edge[e].pc = "answering" /\ edge'[e].pc \in {"reading", "ended"}
      /\ edge'[e].work.id = NoFrame
      /\ UNCHANGED <<call, seq, results, toEdge, runs, idem>>
  BY AnswerView DEF Answer, linkHub, linkHistory
<1>4. ASSUME NEW n \in Conns
      PROVE  In(toHub'[n]) \subseteq In(toHub[n]) \cup {m}
  <2>1. In(Append(toHub[n], m)) = In(toHub[n]) \cup {m}
    BY <1>2, InAppend DEF Types
  <2>2. toHub'[n] = toHub[n] \/ toHub'[n] = Append(toHub[n], m)
    BY <1>0, <1>1 DEF Answer, Types
  <2> QED
    BY <2>1, <2>2
<1>5. m.id <= seq
  BY <1>0, <1>2 DEF Answers, Numbered
<1>6. Numbered'
  <2>1. ASSUME NEW d \in Edges
        PROVE  edge'[d].work.id <= seq
    <3>1. edge[d].work.id <= seq /\ seq \in Nat
      BY DEF Answers, Numbered, Types
    <3> QED
      BY <1>3, <3>1 DEF Alone, NoFrame
  <2> QED
    BY <1>3, <1>4, <1>5, <2>1 DEF Answers, Numbered
<1>7. ASSUME NEW c \in Callers
      PROVE  (c \in Under => Matched(c))' /\ Returned(c)'
  <2>1. (c \in Under)' <=> c \in Under
    BY <1>3 DEF Under
  <2>2. c \in Under /\ m.id = call[c].id /\ m.out = "ok" => runs[call[c].callId] = 1
    BY <1>0, <1>2, <1>3 DEF Answers, Matched, Earned
  <2>3. c \in Under => Matched(c) /\ call[c].id # NoFrame
    BY DEF Answers, Slots, NoFrame
  <2>4. c \in Under => Matched(c)'
    BY <1>3, <1>4, <2>2, <2>3 DEF Matched, Alone
  <2>5. Returned(c)'
    BY <1>3 DEF Answers, Returned
  <2> QED
    BY <2>1, <2>4, <2>5
<1>8. ASSUME NEW d \in Edges
      PROVE  Earned(d)'
  BY <1>3 DEF Answers, Earned, Alone
<1>9. \A k \in CallIds : EntryEarned(k)'
  BY <1>3 DEF Answers, EntryEarned
<1> QED
  BY <1>6, <1>7, <1>8, <1>9 DEF Answers

LEMMA FinishAnswers ==
  ASSUME Types, Slots, Table, Answers, NEW e \in Edges, Finish(e)
  PROVE  Answers'
<1>0. PICK k, x : k = edge[e].work.callId /\ x = edge[e].work.out
  OBVIOUS
<1>1. /\ edge[e].pc = "finishing" /\ UNCHANGED <<call, seq, results, toEdge, toHub, runs>>
      /\ x = "ok" => runs[k] = 1
  <2>1. edge[e].pc = "finishing"
    BY FinishView
  <2> QED
    BY <1>0, <2>1 DEF Answers, Earned, Finish, linkHub, linkNet, linkHistory
<1>2. \A d \in Edges : edge'[d].work.id = edge[d].work.id /\ edge'[d].work.callId = edge[d].work.callId
  BY FinishView DEF Serves
<1>3. ASSUME NEW d \in Edges
      PROVE  Earned(d)'
  <2>1. CASE d = e
    <3>1. edge'[e].work.out = x /\ edge'[e].work.callId = k
      BY <1>0, <1>2, FinishView
    <3> QED
      BY <1>1, <2>1, <3>1 DEF Earned
  <2>2. CASE Follows(d, e) /\ d # e
    <3>1. edge'[d].work.out = x
      BY <1>0, <2>2, FinishView
    <3>2. edge'[d].work.callId = k
      BY <1>0, <1>2, <2>2 DEF Follows
    <3> QED
      BY <1>1, <3>1, <3>2 DEF Earned
  <2>3. CASE ~Follows(d, e) /\ d # e
    <3>1. edge'[d].work.out = edge[d].work.out /\ edge'[d].pc = edge[d].pc
      BY <2>3, FinishView
    <3> QED
      BY <1>1, <1>2, <3>1 DEF Earned, Answers
  <2> QED
    BY <2>1, <2>2, <2>3
<1>4. ASSUME NEW j \in CallIds
      PROVE  EntryEarned(j)'
  <2>1. PICK r : r = IF idem[k].by = e THEN [idem[k] EXCEPT !.out = x] ELSE idem[k]
    OBVIOUS
  <2>2. idem' = [idem EXCEPT ![k] = r]
    BY <1>0, <2>1, FinishView
  <2>3. j = k => r.out = x \/ r.out = idem[k].out
    BY <2>1 DEF Types, EntryRecords
  <2> QED
    BY <1>1, <2>2, <2>3 DEF EntryEarned, Answers, Types
<1> QED
  BY <1>1, <1>2, <1>3, <1>4, DeviceAnswers

LEMMA StepAnswers ==
  Types /\ Slots /\ Table /\ Consent /\ Answers /\ [LinkNext]_linkVars => Answers'
<1> SUFFICES ASSUME Types, Slots, Table, Consent, Answers, [LinkNext]_linkVars
             PROVE  Answers'
  OBVIOUS
<1>0. \A k \in CallIds : runs[k] = 1 => runs'[k] = 1
  BY RunsGrow DEF linkVars, linkHistory
<1>1. CASE UNCHANGED <<edge, idem, runs, call, seq, results, toEdge, toHub>>
  BY <1>1 DEF Answers, Numbered, Matched, Returned, Earned, EntryEarned, Under
<1>2. ASSUME NEW n \in Conns, MarkOffline(n)
      PROVE  Answers'
  <2>1. /\ UNCHANGED <<edge, idem, runs, call, seq, results, toEdge>>
        /\ \A i \in Conns : In(toHub'[i]) \subseteq In(toHub[i])
    BY <1>2, InEmpty DEF MarkOffline, Types, linkDevice, linkHistory
  <2> QED
    BY <2>1 DEF Answers, Numbered, Matched, Returned, Earned, EntryEarned, Under
<1>3. ASSUME HubStep
      PROVE  Answers'
  BY <1>1, <1>2, <1>3, CallAnswers, WriteAnswers, ReturnAnswers, ReleaseAnswers, ReadAnswers
     DEF HubStep, SetExclusive, Heartbeat, DeleteConn, linkNet, linkDevice, linkHistory
<1>4. ASSUME NEW e \in Edges, EdgeStep(e)
      PROVE  Answers'
  <2> DEFINE Quiet == UNCHANGED <<call, seq, results, toEdge, toHub>>
  <2>0. ASSUME NEW d \in Edges, edge'[d] = edge[d]
        PROVE  Earned(d)'
    <3>1. Earned(d) /\ Entered(d)
      BY DEF Answers, Table
    <3>2. edge[d].pc \in {"answering", "duplicate", "finishing"} => edge[d].work.callId \in CallIds
      BY <3>1 DEF Entered, Apart
    <3> QED
      BY <1>0, <2>0, <3>1, <3>2 DEF Earned
  <2>1. ASSUME Quiet, idem' = idem
        PROVE  \A k \in CallIds : EntryEarned(k)'
    BY <1>0, <2>1 DEF EntryEarned, Answers
  <2>2. ASSUME Quiet, idem' = idem, Alone(e), edge'[e].work.id = NoFrame, edge'[e].work.out = "none"
        PROVE  Answers'
    <3>1. \A d \in Edges : Earned(d)'
      <4>1. Earned(e)'
        BY <2>2 DEF Earned
      <4> QED
        BY <2>0, <2>2, <4>1 DEF Alone
    <3> QED
      BY <1>0, <2>1, <2>2, <3>1, DeviceAnswers DEF Alone
  <2>3. ASSUME NEW p, NEW x, Quiet, Becomes(e, p, x), Earned(e)', \A k \in CallIds : EntryEarned(k)'
        PROVE  Answers'
    <3>1. \A d \in Edges : Earned(d)'
      BY <2>0, <2>3 DEF Becomes, Alone
    <3>2. \A d \in Edges : edge'[d].work.id = edge[d].work.id /\ edge'[d].work.callId = edge[d].work.callId
      BY <2>3 DEF Becomes, Alone, Serves
    <3> QED
      BY <1>0, <2>3, <3>1, <3>2, DeviceAnswers
  <2>4. CASE Dial(e)
    BY <2>2, <2>4, DialView DEF Dial, linkHistory
  <2>5. CASE ReceiveFrame(e)
    BY <2>5, ReceiveAnswers
  <2>6. CASE Disconnect(e)
    BY <2>2, <2>6, DisconnectView DEF Disconnect, linkHub, linkNet, linkHistory
  <2>7. CASE Answer(e)
    BY <2>7, AnswerAnswers
  <2>8. CASE AnswerDuplicate(e)
    <3>1. PICK x \in {edge[e].work.out, "failed"} : Becomes(e, "answering", x)
      BY <2>8, AnswerDuplicateView
    <3>2. edge[e].pc = "duplicate" /\ Quiet /\ UNCHANGED <<idem, runs>>
      BY <2>8 DEF AnswerDuplicate, linkHub, linkNet, linkHistory
    <3>3. Earned(e)'
      BY <3>1, <3>2 DEF Earned, Answers, Becomes, Serves
    <3> QED
      BY <2>1, <2>3, <3>1, <3>2, <3>3
  <2>9. CASE Require(e)
    <3>1. PICK p \in {"executing", "approving"} : Becomes(e, p, edge[e].work.out)
      BY <2>9, RequireView
    <3>2. Quiet /\ idem' = idem
      BY <2>9 DEF Require, linkHub, linkNet
    <3>3. Earned(e)'
      BY <3>1 DEF Earned, Becomes
    <3> QED
      BY <2>1, <2>3, <3>1, <3>2, <3>3
  <2>10. CASE Settle(e)
    <3>1. PICK p, x : /\ Becomes(e, p, x)
                      /\ p = "executing" \/ x = "failed"
      BY <2>10, SettleView
    <3>2. Quiet /\ idem' = idem
      BY <2>10 DEF Settle, linkHub, linkNet, linkHistory
    <3>3. Earned(e)'
      BY <3>1 DEF Earned, Becomes
    <3> QED
      BY <2>1, <2>3, <3>1, <3>2, <3>3
  <2>11. CASE Execute(e)
    <3>1. PICK k, x : /\ k = edge[e].work.callId /\ Becomes(e, "finishing", x)
                      /\ runs' = IF x = "ok" THEN [runs EXCEPT ![k] = @ + 1] ELSE runs
      BY <2>11, ExecuteView
    <3>2. edge[e].pc = "executing" /\ Quiet /\ idem' = idem
      BY <2>11 DEF Execute, linkHub, linkNet
    <3>3. k \in CallIds /\ runs[k] = 0
      BY <3>1, <3>2, NotYet DEF Running
    <3>4. x = "ok" => runs'[k] = 1
      BY <3>1, <3>3 DEF Consent
    <3>5. Earned(e)'
      BY <3>1, <3>4 DEF Earned, Becomes, Serves
    <3> QED
      BY <2>1, <2>3, <3>1, <3>2, <3>5
  <2>12. CASE Finish(e)
    BY <2>12, FinishAnswers
  <2>13. CASE Drop(e)
    <3>1. /\ edge[e].pc = "dropping" /\ Becomes(e, "answering", edge[e].work.out)
          /\ idem' = [idem EXCEPT ![edge[e].work.callId] = NoEntry]
      BY <2>13, DropView
    <3>2. Quiet
      BY <2>13 DEF Drop, linkHub, linkNet, linkHistory
    <3>3. edge[e].work.out # "ok"
      BY <3>1 DEF Table, Entered
    <3>4. Earned(e)'
      BY <3>1, <3>3 DEF Earned, Becomes
    <3>5. ASSUME NEW k \in CallIds
          PROVE  EntryEarned(k)'
      <4>1. idem'[k] = idem[k] \/ idem'[k] = NoEntry
        BY <3>1 DEF Types
      <4> QED
        BY <1>0, <4>1 DEF EntryEarned, Answers, NoEntry
    <3> QED
      BY <2>3, <3>1, <3>2, <3>4, <3>5
  <2> QED
    BY <1>4, <2>4, <2>5, <2>6, <2>7, <2>8, <2>9, <2>10, <2>11, <2>12, <2>13 DEF EdgeStep
<1>5. ASSUME UNCHANGED <<call, seq, results, toEdge, toHub, idem, runs>>,
             \A d \in Edges : /\ Serves(d) /\ edge'[d].work.out = edge[d].work.out
                              /\ edge'[d].pc = edge[d].pc \/ edge'[d].pc = "dialing"
      PROVE  Answers'
  <2>1. \A d \in Edges : Earned(d)'
    BY <1>5 DEF Earned, Answers, Serves
  <2>2. \A k \in CallIds : EntryEarned(k)'
    BY <1>5 DEF EntryEarned, Answers
  <2>3. ASSUME NEW d \in Edges
        PROVE  edge'[d].work.id = edge[d].work.id /\ edge'[d].work.callId = edge[d].work.callId
    <3>1. Serves(d)
      BY <1>5
    <3> QED
      BY <3>1 DEF Serves
  <2> QED
    BY <1>5, <2>1, <2>2, <2>3, DeviceAnswers
<1>6. CASE StartEdge
  <2>1. PICK e \in Edges : Becomes(e, "dialing", edge[e].work.out)
    BY <1>6, StartView
  <2>2. \A d \in Edges : /\ Serves(d) /\ edge'[d].work.out = edge[d].work.out
                         /\ edge'[d].pc = edge[d].pc \/ edge'[d].pc = "dialing"
    BY <2>1 DEF Becomes, Alone, Serves
  <2> QED
    BY <1>5, <1>6, <2>2 DEF StartEdge, linkHub, linkNet, linkHistory
<1>7. CASE UserDecides
  <2>1. PICK a \in Edges : /\ Alone(a) /\ Serves(a) /\ edge'[a].pc = edge[a].pc
                           /\ edge'[a].work.out = edge[a].work.out
    BY <1>7, DecideView
  <2>2. \A d \in Edges : /\ Serves(d) /\ edge'[d].work.out = edge[d].work.out
                         /\ edge'[d].pc = edge[d].pc \/ edge'[d].pc = "dialing"
    BY <2>1 DEF Alone, Serves
  <2> QED
    BY <1>5, <1>7, <2>2 DEF UserDecides, linkHub, linkNet
<1>8. CASE (\E n \in Conns : Cut(n)) \/ UNCHANGED linkVars
  BY <1>1, <1>8 DEF Cut, linkHub, linkNet, linkDevice, linkHistory, linkVars
<1> QED
  BY <1>3, <1>4, <1>6, <1>7, <1>8 DEF LinkNext

-----------------------------------------------------------------------------
(* The theorems                                                            *)

LinkInv == Types /\ Slots /\ ClosedInv /\ Table /\ Consent /\ Answers

LEMMA LinkInvariant == LinkSpec => []LinkInv
<1>1. LinkInit => LinkInv
  BY InitTypes, InitSlots, InitClosed, InitTable, InitConsent, InitAnswers DEF LinkInv
<1>2. LinkInv /\ [LinkNext]_linkVars => LinkInv'
  BY StepTypes, StepSlots, StepClosed, StepTable, StepConsent, StepAnswers DEF LinkInv
<1> QED
  BY <1>1, <1>2, PTL DEF LinkSpec

\* Every caller under way has a slot and awaits its own frame, and no slot or
\* channel outlives its call, for any number of callers (rpc.go, Caller.Call).
THEOREM SlotsExact == LinkSpec => []SlotsAreExact
<1>1. LinkInv => SlotsAreExact
  BY DEF LinkInv, Slots, SlotsAreExact, Under
<1> QED
  BY <1>1, LinkInvariant, PTL

\* A call id has one Edge that runs it, and its tool runs with success once:
\* the table of agentIdemTable is entered before the user is asked and an entry
\* with success is never dropped (peerlink_agent_api.go).
THEOREM RunsOnce == LinkSpec => []ToolRunsOnce
<1>1. ASSUME LinkInv
      PROVE  ToolRunsOnce
  <2>1. \A k \in CallIds : runs[k] <= 1
    BY <1>1 DEF LinkInv, Consent, Ran
  <2>2. \A e \in Edges : edge[e].pc = "executing" => idem[edge[e].work.callId].by = e
    BY <1>1 DEF LinkInv, Table, Entered, Running
  <2> QED
    BY <2>1, <2>2 DEF ToolRunsOnce
<1> QED
  BY <1>1, LinkInvariant, PTL

\* A repeated call waits for an Edge that still runs the first one, also when
\* that Edge was cancelled and a newer one received the repetition.
THEOREM WaitersRun == LinkSpec => []WaitersHaveARunner
<1>1. ASSUME LinkInv
      PROVE  WaitersHaveARunner
  <2>1. \A k \in CallIds : idem[k].by # NoEdge /\ idem[k].out = "none" => RunsCall(idem[k].by, k)
    BY <1>1 DEF LinkInv, Table, Run
  <2>2. \A e \in Edges : edge[e].pc = "duplicate" /\ edge[e].work.out = "none"
                        => RunsCall(edge[e].work.of, edge[e].work.callId)
    BY <1>1 DEF LinkInv, Table, Entered
  <2> QED
    BY <2>1, <2>2 DEF WaitersHaveARunner, RunsCall, Running
<1> QED
  BY <1>1, LinkInvariant, PTL

\* A caller that returns "ok" returns it for a tool that ran, whatever frame,
\* connection or Edge brought the answer, and a destructive tool that ran had
\* the user's approval for that call.
THEOREM EarnedAnswers == LinkSpec => []AnswersAreEarned
<1>1. ASSUME LinkInv
      PROVE  AnswersAreEarned
  <2>1. \A c \in Callers : results[c] = "ok" => runs[call[c].callId] = 1
    BY <1>1 DEF LinkInv, Answers, Returned
  <2>2. \A k \in Destructive : k \in CallIds /\ runs[k] \in {0, 1} /\ (runs[k] = 1 => k \in granted)
    BY <1>1, LinkAssumption DEF LinkInv, Consent, Ran
  <2> QED
    BY <2>1, <2>2 DEF AnswersAreEarned
<1> QED
  BY <1>1, LinkInvariant, PTL

\* The registry gives up a connection only when that connection is down: the
\* handler of an older one that leaves later does not take the newer one away
\* (ConnRegistry.DeleteConn).
THEOREM NewestStays == LinkSpec => NewestIsKept
<1>1. LinkInv /\ [LinkNext]_linkVars
        => [\A n \in Conns : reg = n /\ reg' = NoConn => ~up[n]]_linkVars
  BY KeepsNewest DEF LinkInv
<1> QED
  BY <1>1, LinkInvariant, PTL DEF LinkSpec, NewestIsKept
=============================================================================
