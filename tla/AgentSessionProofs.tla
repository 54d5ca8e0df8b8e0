-------------------------- MODULE AgentSessionProofs --------------------------
(* Proofs about AgentSession, for any number of loops, calls, turns and       *)
(* queued messages.                                                           *)
EXTENDS AgentSession, TLAPS

Messages == [role : {"assistant", "tool"}, ids : Seq(Calls)]
LoopStates == [pc : {"ended", "turn", "calls"} \cup UserDecisions, messages : Seq(Messages),
               left : Seq(Calls), suspended : BOOLEAN, turn : Nat]

Types ==
  /\ loops \in [Loops -> LoopStates]
  /\ pendingCall \in [id : 0..MaxCalls, messages : Seq(Messages)]
  /\ tool \in Seq(Tools) /\ Len(tool) <= MaxCalls
  /\ verdict \in [Calls -> UserDecisions \cup {"none"}]
  /\ ran \in [Calls -> Nat]

\* What a loop has left to do at its place: the calls of its turn that follow,
\* or the one call the user decided.
LeftFits(r) ==
  /\ r.pc \in {"ended", "turn"} => r.left = <<>>
  /\ r.pc \in UserDecisions => Len(r.left) = 1

\* A call that is yet to run, and what the user said of it.
Waits(c, v) == c \in 1..Len(tool) /\ ran[c] = 0 /\ verdict[c] = v

Said(r) == IF r.pc = "calls" THEN "none" ELSE r.pc

\* A call that is yet to run is in one place only: once in what one loop has
\* left, or in PendingCalls.
ConsentInv ==
  /\ Types
  /\ \A l \in Loops : LeftFits(loops[l])
  /\ \A l \in Loops : \A i \in 1..Len(loops[l].left) :
       /\ Waits(loops[l].left[i], Said(loops[l]))
       /\ loops[l].left[i] # pendingCall.id
       /\ \A k \in Loops : \A j \in 1..Len(loops[k].left) :
            loops[l].left[i] = loops[k].left[j] => l = k /\ i = j
  /\ pendingCall.id # 0 => Waits(pendingCall.id, "none")
  /\ \A c \in Calls : c > Len(tool) => ran[c] = 0 /\ verdict[c] = "none"

\* The calls made so far are few enough to be numbered.
LEMMA CallsCounted ==
  ASSUME ConsentInv
  PROVE  Len(tool) \in Nat /\ Len(tool) <= MaxCalls /\ MaxCalls \in Nat
<1>1. tool \in Seq(Tools) /\ Len(tool) <= MaxCalls
  BY DEF ConsentInv, Types
<1>2. MaxCalls \in Nat
  BY AgentAssumption
<1> QED
  BY <1>1, <1>2

LEMMA EndedType == Ended \in LoopStates /\ Ended.left = <<>> /\ Ended.pc = "ended"
<1>1. <<>> \in Seq(Messages) /\ <<>> \in Seq(Calls)
  OBVIOUS
<1> QED
  BY <1>1 DEF Ended, LoopStates

LEMMA TurnType ==
  ASSUME NEW ms \in Seq(Messages), NEW n \in Nat
  PROVE  Turn(ms, n) \in LoopStates /\ Turn(ms, n).left = <<>> /\ Turn(ms, n).pc = "turn"
  BY EndedType DEF Turn, LoopStates

LEMMA InitConsent == AgentInit => ConsentInv
<1> SUFFICES ASSUME AgentInit
             PROVE  ConsentInv
  OBVIOUS
<1>1. NoPending \in [id : 0..MaxCalls, messages : Seq(Messages)] /\ NoPending.id = 0
  BY AgentAssumption DEF NoPending
<1>2. tool \in Seq(Tools) /\ Len(tool) = 0
  BY DEF AgentInit
<1>3. Types
  BY <1>1, <1>2, EndedType, AgentAssumption DEF AgentInit, Types
<1>4. \A l \in Loops : loops[l].left = <<>> /\ loops[l].pc = "ended"
  BY EndedType DEF AgentInit
<1>5. \A l \in Loops : LeftFits(loops[l]) /\ 1..Len(loops[l].left) = {}
  BY <1>4 DEF LeftFits, UserDecisions
<1> QED
  BY <1>1, <1>3, <1>5 DEF ConsentInv, AgentInit, Calls

\* A loop that ends, or begins a turn, has nothing left.
LEMMA LoopEnds ==
  ASSUME ConsentInv, NEW l \in Loops, NEW r \in LoopStates, r.left = <<>>,
         r.pc \in {"ended", "turn", "calls"},
         loops' = [loops EXCEPT ![l] = r],
         UNCHANGED <<pendingCall, tool, verdict, ran>>
  PROVE  ConsentInv'
<1>1. Types'
  BY DEF ConsentInv, Types
<1>2. \A k \in Loops : k # l => loops'[k] = loops[k]
  BY DEF ConsentInv, Types
<1>3. loops'[l] = r /\ 1..Len(loops'[l].left) = {}
  BY DEF ConsentInv, Types
<1>4. \A k \in Loops : LeftFits(loops'[k])
  BY <1>2, <1>3 DEF ConsentInv, LeftFits, UserDecisions
<1>5. \A c, v : Waits(c, v)' <=> Waits(c, v)
  BY DEF Waits
<1>6. \A k \in Loops : \A i \in 1..Len(loops'[k].left) :
        k # l /\ loops'[k] = loops[k] /\ i \in 1..Len(loops[k].left)
  BY <1>2, <1>3
<1>7. \A k \in Loops : \A i \in 1..Len(loops'[k].left) :
         /\ Waits(loops[k].left[i], Said(loops[k]))'
         /\ loops'[k].left[i] # pendingCall'.id
  <2> SUFFICES ASSUME NEW k \in Loops, NEW i \in 1..Len(loops'[k].left)
               PROVE  /\ Waits(loops[k].left[i], Said(loops[k]))'
                      /\ loops'[k].left[i] # pendingCall'.id
    OBVIOUS
  <2>1. k # l /\ loops'[k] = loops[k] /\ i \in 1..Len(loops[k].left)
    BY <1>6
  <2>2. Waits(loops[k].left[i], Said(loops[k])) /\ loops[k].left[i] # pendingCall.id
    BY <2>1 DEF ConsentInv
  <2> QED
    BY <2>1, <2>2 DEF Waits, Said
<1> QED
  BY <1>1, <1>4, <1>5, <1>6, <1>7 DEF ConsentInv

LEMMA RequestType == \A ids \in Seq(Calls) : Request(ids) \in Messages
  BY DEF Request, Messages

LEMMA ResultType == \A c \in Calls : Result(c) \in Messages
  BY DEF Result, Messages

\* The call at the front is answered.
LEMMA FrontAnswered ==
  ASSUME ConsentInv, NEW l \in Loops, loops[l].pc = "calls", loops[l].left # <<>>
  PROVE  LET c == Head(loops[l].left) IN
         /\ c \in Calls /\ c = loops[l].left[1] /\ Waits(c, "none")
         /\ Tail(loops[l].left) \in Seq(Calls)
         /\ Len(Tail(loops[l].left)) = Len(loops[l].left) - 1
         /\ \A i \in 1..Len(Tail(loops[l].left)) :
              i + 1 \in 1..Len(loops[l].left) /\ Tail(loops[l].left)[i] = loops[l].left[i + 1]
         /\ Append(loops[l].messages, Result(c)) \in Seq(Messages)
<1>1. loops[l].left \in Seq(Calls) /\ loops[l].messages \in Seq(Messages)
  BY DEF ConsentInv, Types, LoopStates
<1>2. Len(loops[l].left) \in Nat /\ Len(loops[l].left) > 0
  BY <1>1
<1>3. Waits(loops[l].left[1], "none")
  BY <1>2 DEF ConsentInv, Said
<1> QED
  BY <1>1, <1>2, <1>3, ResultType

\* Once the call at the front of a loop has a result, or waits for the user,
\* every other call is where it was.
LEMMA FrontLeaves ==
  ASSUME ConsentInv, NEW l \in Loops, loops[l].pc = "calls", loops[l].left # <<>>,
         NEW r \in LoopStates, r.pc = "calls", r.left = Tail(loops[l].left),
         loops' = [loops EXCEPT ![l] = r],
         tool' = tool, verdict' = verdict,
         \/ ran' = ran /\ pendingCall' = pendingCall
         \/ /\ ran' = [ran EXCEPT ![Head(loops[l].left)] = @ + 1]
            /\ pendingCall' = pendingCall
         \/ /\ ran' = ran
            /\ pendingCall' = [id |-> Head(loops[l].left), messages |-> loops[l].messages]
  PROVE  ConsentInv'
<1> DEFINE c == Head(loops[l].left)
<1>1. /\ c \in Calls /\ c = loops[l].left[1] /\ Waits(c, "none")
      /\ r.left \in Seq(Calls) /\ Len(r.left) = Len(loops[l].left) - 1
      /\ \A i \in 1..Len(r.left) :
           i + 1 \in 1..Len(loops[l].left) /\ r.left[i] = loops[l].left[i + 1]
      /\ 1 \in 1..Len(loops[l].left)
  <2>1. Len(loops[l].left) \in Nat /\ Len(loops[l].left) > 0
    <3>1. loops[l].left \in Seq(Calls)
      BY DEF ConsentInv, Types, LoopStates
    <3> QED
      BY <3>1
  <2> HIDE DEF c
  <2>2. /\ c \in Calls /\ c = loops[l].left[1] /\ Waits(c, "none")
        /\ r.left \in Seq(Calls) /\ Len(r.left) = Len(loops[l].left) - 1
        /\ \A i \in 1..Len(r.left) :
             i + 1 \in 1..Len(loops[l].left) /\ r.left[i] = loops[l].left[i + 1]
    BY FrontAnswered, Zenon DEF c
  <2> QED
    BY <2>1, <2>2
<1>2. /\ loops'[l] = r
      /\ \A k \in Loops : k # l => loops'[k] = loops[k]
  BY DEF ConsentInv, Types
<1>3. Types'
  <2>1. loops' \in [Loops -> LoopStates]
    BY DEF ConsentInv, Types
  <2>2. ran' \in [Calls -> Nat]
    <3>1. ran \in [Calls -> Nat] /\ ran[c] \in Nat /\ c \in Calls
      BY <1>1 DEF ConsentInv, Types
    <3>2. [ran EXCEPT ![c] = ran[c] + 1] \in [Calls -> Nat]
      BY <3>1
    <3> QED
      BY <3>1, <3>2
  <2>3. c \in 0..MaxCalls /\ loops[l].messages \in Seq(Messages)
    BY <1>1 DEF ConsentInv, Types, Calls, LoopStates
  <2>4. pendingCall' \in [id : 0..MaxCalls, messages : Seq(Messages)]
    BY <2>3 DEF ConsentInv, Types
  <2> QED
    BY <2>1, <2>2, <2>4 DEF ConsentInv, Types
<1>4. \A k \in Loops : LeftFits(loops'[k])
  BY <1>2 DEF ConsentInv, LeftFits, UserDecisions
\* Where a call was before the step, and that it is not the one at the front.
<1>5. \A k \in Loops : \A i \in 1..Len(loops'[k].left) :
        \E h \in 1..Len(loops[k].left) :
          /\ h = IF k = l THEN i + 1 ELSE i
          /\ loops'[k].left[i] = loops[k].left[h]
          /\ loops[k].left[h] # c
          /\ Said(loops'[k]) = Said(loops[k])
  <2> SUFFICES ASSUME NEW k \in Loops, NEW i \in 1..Len(loops'[k].left)
               PROVE  \E h \in 1..Len(loops[k].left) :
                        /\ h = IF k = l THEN i + 1 ELSE i
                        /\ loops'[k].left[i] = loops[k].left[h]
                        /\ loops[k].left[h] # c
                        /\ Said(loops'[k]) = Said(loops[k])
    OBVIOUS
  <2>1. CASE k = l
    <3>1. i \in 1..Len(r.left) /\ i \in Nat /\ i + 1 # 1
      <4>1. loops'[k].left = r.left
        BY <1>2, <2>1
      <4>2. i \in 1..Len(r.left)
        BY <4>1
      <4>3. Len(r.left) \in Nat
        BY <1>1
      <4> QED
        BY <4>2, <4>3
    <3>2. i + 1 \in 1..Len(loops[l].left) /\ r.left[i] = loops[l].left[i + 1]
      BY <1>1, <3>1
    <3>3. loops[l].left[i + 1] # c
      BY <1>1, <3>1, <3>2 DEF ConsentInv
    <3> QED
      BY <1>2, <2>1, <3>2, <3>3 DEF Said
  <2>2. CASE k # l
    BY <1>1, <1>2, <2>2 DEF ConsentInv, Said
  <2> QED
    BY <2>1, <2>2
<1> DEFINE StillWaits(d, v) == d \in 1..Len(tool') /\ ran'[d] = 0 /\ verdict'[d] = v
<1>6. ASSUME NEW d, NEW v, Waits(d, v), d # c
      PROVE  StillWaits(d, v)
  <2>1. d \in Calls
    <3>1. Len(tool) \in Nat /\ Len(tool) <= MaxCalls /\ MaxCalls \in Nat
      BY CallsCounted
    <3>2. d \in 1..Len(tool)
      BY <1>6 DEF Waits
    <3> QED
      BY <3>1, <3>2 DEF Calls
  <2>2. ran'[d] = ran[d]
    BY <1>6, <2>1 DEF ConsentInv, Types
  <2> QED
    BY <1>6, <2>2 DEF Waits
<1>7. pendingCall'.id \in {c, pendingCall.id}
  OBVIOUS
<1>8. \A k \in Loops : \A i \in 1..Len(loops'[k].left) :
        /\ Waits(loops[k].left[i], Said(loops[k]))'
        /\ loops'[k].left[i] # pendingCall'.id
  <2> SUFFICES ASSUME NEW k \in Loops, NEW i \in 1..Len(loops'[k].left)
               PROVE  /\ Waits(loops[k].left[i], Said(loops[k]))'
                      /\ loops'[k].left[i] # pendingCall'.id
    OBVIOUS
  <2>1. PICK h \in 1..Len(loops[k].left) :
          /\ loops'[k].left[i] = loops[k].left[h]
          /\ loops[k].left[h] # c
          /\ Said(loops'[k]) = Said(loops[k])
    BY <1>5
  <2>2. Waits(loops[k].left[h], Said(loops[k])) /\ loops[k].left[h] # pendingCall.id
    BY DEF ConsentInv
  <2>3. StillWaits(loops[k].left[h], Said(loops[k]))
    BY <2>1, <2>2, <1>6
  <2> QED
    BY <2>1, <2>2, <2>3, <1>7 DEF Waits, Said
<1>9. \A k, m \in Loops : \A i \in 1..Len(loops'[k].left), j \in 1..Len(loops'[m].left) :
        loops'[k].left[i] = loops'[m].left[j] => k = m /\ i = j
  <2> SUFFICES ASSUME NEW k \in Loops, NEW m \in Loops,
                      NEW i \in 1..Len(loops'[k].left), NEW j \in 1..Len(loops'[m].left),
                      loops'[k].left[i] = loops'[m].left[j]
               PROVE  k = m /\ i = j
    OBVIOUS
  <2>1. PICK h \in 1..Len(loops[k].left) :
          h = (IF k = l THEN i + 1 ELSE i) /\ loops'[k].left[i] = loops[k].left[h]
    BY <1>5
  <2>2. PICK g \in 1..Len(loops[m].left) :
          g = (IF m = l THEN j + 1 ELSE j) /\ loops'[m].left[j] = loops[m].left[g]
    BY <1>5
  <2>3. k = m /\ h = g
    BY <2>1, <2>2 DEF ConsentInv
  <2>4. i \in Int /\ j \in Int
    OBVIOUS
  <2> QED
    BY <2>1, <2>2, <2>3, <2>4
<1>10. pendingCall'.id # 0 => StillWaits(pendingCall'.id, "none")
  <2>1. CASE pendingCall' = pendingCall
    <3>1. c # pendingCall.id
      BY <1>1 DEF ConsentInv
    <3> QED
      BY <2>1, <3>1, <1>6 DEF ConsentInv
  <2>2. CASE ran' = ran /\ pendingCall'.id = c
    BY <2>2, <1>1 DEF Waits
  <2> QED
    BY <2>1, <2>2
<1>11. \A d \in Calls : d > Len(tool') => ran'[d] = 0 /\ verdict'[d] = "none"
  <2> SUFFICES ASSUME NEW d \in Calls, d > Len(tool)
               PROVE  ran'[d] = 0 /\ verdict'[d] = "none"
    OBVIOUS
  <2>1. d # c
    <3>1. Len(tool) \in Nat /\ c \in 1..Len(tool) /\ d \in Int
      BY <1>1 DEF ConsentInv, Types, Waits, Calls
    <3> QED
      BY <3>1
  <2>2. ran'[d] = ran[d]
    BY <2>1, <1>1 DEF ConsentInv, Types
  <2> QED
    BY <2>2 DEF ConsentInv
<1>12. \A k \in Loops : \A i \in 1..Len(loops'[k].left) :
         /\ Waits(loops[k].left[i], Said(loops[k]))'
         /\ loops'[k].left[i] # pendingCall'.id
         /\ \A m \in Loops : \A j \in 1..Len(loops'[m].left) :
              loops'[k].left[i] = loops'[m].left[j] => k = m /\ i = j
  BY <1>8, <1>9
<1>13. pendingCall'.id # 0 => Waits(pendingCall.id, "none")'
  BY <1>10 DEF Waits
<1> HIDE DEF c, StillWaits
<1> QED
  BY <1>3, <1>4, <1>11, <1>12, <1>13 DEF ConsentInv

\* The calls the model just made are numbers no call had.
LEMMA CallsArrive ==
  ASSUME ConsentInv, NEW l \in Loops, ModelCalls(l)
  PROVE  ConsentInv'
<1>0. PICK n \in 1..2 :
        LET ids == [i \in 1..n |-> Len(tool) + i] IN
        /\ Len(tool) + n <= MaxCalls
        /\ \E ts \in [1..n -> Tools] : tool' = tool \o ts
        /\ loops' = [loops EXCEPT ![l].pc = "calls", ![l].left = ids,
                                  ![l].messages = Append(@, Request(ids))]
  BY DEF ModelCalls
<1> DEFINE ids == [i \in 1..n |-> Len(tool) + i]
<1>1. PICK ts \in [1..n -> Tools] :
        /\ Len(tool) + n <= MaxCalls
        /\ tool' = tool \o ts
        /\ loops' = [loops EXCEPT ![l].pc = "calls", ![l].left = ids,
                                  ![l].messages = Append(@, Request(ids))]
  BY <1>0
<1> DEFINE r == loops'[l]
<1>2. /\ Len(tool) \in Nat /\ Len(tool) <= MaxCalls /\ MaxCalls \in Nat /\ n \in Nat
      /\ tool \in Seq(Tools) /\ ts \in Seq(Tools) /\ Len(ts) = n
  <2>1. tool \in Seq(Tools)
    BY DEF ConsentInv, Types
  <2>2. ts \in Seq(Tools) /\ Len(ts) = n
    OBVIOUS
  <2> HIDE DEF ids, r
  <2> QED
    BY <2>1, <2>2, CallsCounted
<1>18. Len(tool) + n <= MaxCalls /\ tool' = tool \o ts
  BY <1>1
<1>3. tool' \in Seq(Tools) /\ Len(tool') = Len(tool) + n
  <2>1. tool \o ts \in Seq(Tools) /\ Len(tool \o ts) = Len(tool) + Len(ts)
    BY <1>2
  <2> QED
    BY <2>1, <1>18, <1>2
<1>4. ids \in Seq(Calls) /\ Len(ids) = n
  <2>1. \A i \in 1..n : Len(tool) + i \in Calls
    <3> SUFFICES ASSUME NEW i \in 1..n
                 PROVE  Len(tool) + i \in 1..MaxCalls
      BY DEF Calls
    <3> QED
      BY <1>18, <1>2
  <2> QED
    BY <1>2, <2>1
<1>5. loops[l] \in LoopStates /\ loops' \in [Loops -> LoopStates]
  <2>1. loops[l] \in LoopStates
    BY DEF ConsentInv, Types
  <2>2. Append(loops[l].messages, Request(ids)) \in Seq(Messages)
    BY <1>4, <2>1, RequestType DEF LoopStates
  <2> QED
    BY <1>1, <1>4, <2>1, <2>2 DEF ConsentInv, Types, LoopStates
<1>6. r.pc = "calls" /\ r.left = ids /\ \A k \in Loops : k # l => loops'[k] = loops[k]
  BY <1>1, <1>5 DEF ConsentInv, Types, LoopStates
<1>7. UNCHANGED <<pendingCall, verdict, ran>>
  BY DEF ModelCalls
<1>8. Types'
  BY <1>1, <1>3, <1>5, <1>7 DEF ConsentInv, Types
<1>9. \A k \in Loops : LeftFits(loops'[k])
  BY <1>6 DEF ConsentInv, LeftFits, UserDecisions
\* A call in the new list was in no place before.
<1>11. \A i \in 1..n : /\ ids[i] = Len(tool) + i /\ ids[i] \in Calls
                        /\ ids[i] \in 1..Len(tool') /\ ids[i] > Len(tool)
  <2> SUFFICES ASSUME NEW i \in 1..n
               PROVE  /\ Len(tool) + i \in 1..MaxCalls
                      /\ Len(tool) + i \in 1..Len(tool') /\ Len(tool) + i > Len(tool)
    BY DEF Calls
  <2> QED
    BY <1>18, <1>2, <1>3
<1>12. \A c, v : Waits(c, v) => c \in 1..Len(tool)
  BY DEF Waits
<1>13. \A k \in Loops : k # l => \A i \in 1..Len(loops[k].left) :
         loops[k].left[i] \in 1..Len(tool)
  BY <1>12 DEF ConsentInv
<1>14. \A k \in Loops : \A i \in 1..Len(loops'[k].left) :
         /\ Waits(loops[k].left[i], Said(loops[k]))'
         /\ loops'[k].left[i] # pendingCall'.id
  <2> SUFFICES ASSUME NEW k \in Loops, NEW i \in 1..Len(loops'[k].left)
               PROVE  /\ Waits(loops[k].left[i], Said(loops[k]))'
                      /\ loops'[k].left[i] # pendingCall'.id
    OBVIOUS
  <2>1. CASE k = l
    <3>1. i \in 1..n /\ loops'[k].left[i] = ids[i] /\ Said(loops'[k]) = "none"
      BY <2>1, <1>4, <1>6 DEF Said
    <3>2. ran[ids[i]] = 0 /\ verdict[ids[i]] = "none"
      BY <3>1, <1>11 DEF ConsentInv
    <3>3. pendingCall.id = 0 \/ pendingCall.id \in 1..Len(tool)
      BY DEF ConsentInv, Waits
    <3>4. ids[i] # pendingCall.id
      BY <3>1, <3>3, <1>2, <1>11 DEF Calls
    <3> QED
      BY <3>1, <3>2, <3>4, <1>7, <1>11 DEF Waits
  <2>2. CASE k # l
    <3>1. loops'[k] = loops[k] /\ i \in 1..Len(loops[k].left)
      BY <2>2, <1>6
    <3>2. Waits(loops[k].left[i], Said(loops[k])) /\ loops[k].left[i] # pendingCall.id
      BY <3>1 DEF ConsentInv
    <3>3. loops[k].left[i] \in 1..Len(tool')
      BY <3>2, <1>2, <1>3 DEF Waits
    <3> QED
      BY <3>1, <3>2, <3>3, <1>7 DEF Waits, Said
  <2> QED
    BY <2>1, <2>2
<1>15. \A k, m \in Loops : \A i \in 1..Len(loops'[k].left), j \in 1..Len(loops'[m].left) :
         loops'[k].left[i] = loops'[m].left[j] => k = m /\ i = j
  <2> SUFFICES ASSUME NEW k \in Loops, NEW m \in Loops,
                      NEW i \in 1..Len(loops'[k].left), NEW j \in 1..Len(loops'[m].left),
                      loops'[k].left[i] = loops'[m].left[j]
               PROVE  k = m /\ i = j
    OBVIOUS
  <2>1. CASE k = l /\ m = l
    <3>1. i \in 1..n /\ j \in 1..n /\ ids[i] = ids[j]
      BY <2>1, <1>4, <1>6
    <3> QED
      BY <2>1, <3>1, <1>2, <1>11
  <2>2. CASE k = l /\ m # l
    <3>1. i \in 1..n /\ ids[i] = loops[m].left[j] /\ j \in 1..Len(loops[m].left)
      BY <2>2, <1>4, <1>6
    <3> QED
      BY <2>2, <3>1, <1>2, <1>11, <1>13
  <2>3. CASE k # l /\ m = l
    <3>1. j \in 1..n /\ ids[j] = loops[k].left[i] /\ i \in 1..Len(loops[k].left)
      BY <2>3, <1>4, <1>6
    <3> QED
      BY <2>3, <3>1, <1>2, <1>11, <1>13
  <2>4. CASE k # l /\ m # l
    <3>1. /\ i \in 1..Len(loops[k].left) /\ j \in 1..Len(loops[m].left)
          /\ loops[k].left[i] = loops[m].left[j]
      BY <2>4, <1>6
    <3> HIDE DEF ids, r
    <3> QED
      BY <3>1 DEF ConsentInv
  <2> QED
    BY <2>1, <2>2, <2>3, <2>4
<1>16. \A c \in Calls : c > Len(tool') => ran'[c] = 0 /\ verdict'[c] = "none"
  <2>1. \A c \in Calls : c > Len(tool') => c > Len(tool)
    BY <1>2, <1>3 DEF Calls
  <2> QED
    BY <2>1, <1>7 DEF ConsentInv
<1>17. pendingCall'.id # 0 => Waits(pendingCall.id, "none")'
  <2>1. pendingCall.id # 0 => Waits(pendingCall.id, "none")
    BY DEF ConsentInv
  <2>2. pendingCall.id # 0 => pendingCall.id \in 1..Len(tool')
    BY <2>1, <1>2, <1>3 DEF Waits
  <2> QED
    BY <2>1, <2>2, <1>7 DEF Waits
<1> QED
  BY <1>8, <1>9, <1>14, <1>15, <1>16, <1>17 DEF ConsentInv, Waits

\* The call that waited goes, with its decision, to the loop that resumes it.
LEMMA DecisionMoves ==
  ASSUME ConsentInv, NEW l \in Loops, NEW c \in Calls, NEW d \in UserDecisions,
         ConfirmTool(l, c, d)
  PROVE  ConsentInv'
<1> DEFINE r == [Ended EXCEPT !.pc = d, !.left = <<c>>, !.messages = pendingCall.messages]
<1>1. /\ loops' = [loops EXCEPT ![l] = r] /\ loops[l] = Ended
      /\ pendingCall.id = c /\ pendingCall' = NoPending
      /\ verdict' = [verdict EXCEPT ![c] = d]
      /\ tool' = tool /\ ran' = ran
  BY DEF ConfirmTool
<1>2. /\ r \in LoopStates /\ r.pc = d /\ r.left = <<c>> /\ Len(r.left) = 1
      /\ 1..Len(r.left) = {1} /\ r.left[1] = c
  <2>1. <<c>> \in Seq(Calls) /\ Len(<<c>>) = 1 /\ 1..1 = {1}
    OBVIOUS
  <2>2. pendingCall.messages \in Seq(Messages)
    BY DEF ConsentInv, Types
  <2>3. Ended \in LoopStates
    BY EndedType
  <2> QED
    BY <2>1, <2>2, <2>3 DEF LoopStates
<1>3. loops'[l] = r /\ \A k \in Loops : k # l => loops'[k] = loops[k]
  BY <1>1 DEF ConsentInv, Types
<1>4. NoPending \in [id : 0..MaxCalls, messages : Seq(Messages)] /\ NoPending.id = 0
  BY AgentAssumption DEF NoPending
<1>5. Types'
  <2>1. loops' \in [Loops -> LoopStates]
    BY <1>1, <1>2 DEF ConsentInv, Types
  <2>2. verdict' \in [Calls -> UserDecisions \cup {"none"}]
    BY <1>1 DEF ConsentInv, Types
  <2> QED
    BY <1>1, <1>4, <2>1, <2>2 DEF ConsentInv, Types
<1>6. \A k \in Loops : LeftFits(loops'[k])
  BY <1>2, <1>3 DEF ConsentInv, LeftFits, UserDecisions
<1>7. c # 0 /\ c \in 1..Len(tool) /\ ran[c] = 0
  <2>1. c # 0
    BY DEF Calls
  <2> QED
    BY <2>1, <1>1 DEF ConsentInv, Waits
<1>8. \A e \in Calls : e # c => verdict'[e] = verdict[e]
  BY <1>1 DEF ConsentInv, Types
<1>9. verdict'[c] = d
  BY <1>1 DEF ConsentInv, Types
<1>10. \A k \in Loops : k # l => \A i \in 1..Len(loops[k].left) : loops[k].left[i] # c
  BY <1>1 DEF ConsentInv
<1>11. \A e, v : Waits(e, v) => e \in Calls
  <2>1. Len(tool) \in Nat /\ Len(tool) <= MaxCalls /\ MaxCalls \in Nat
    BY CallsCounted
  <2> QED
    BY <2>1 DEF Waits, Calls
<1>12. \A k \in Loops : \A i \in 1..Len(loops'[k].left) :
         /\ Waits(loops[k].left[i], Said(loops[k]))'
         /\ loops'[k].left[i] # pendingCall'.id
  <2> SUFFICES ASSUME NEW k \in Loops, NEW i \in 1..Len(loops'[k].left)
               PROVE  /\ Waits(loops[k].left[i], Said(loops[k]))'
                      /\ loops'[k].left[i] # pendingCall'.id
    OBVIOUS
  <2>1. CASE k = l
    <3>1. loops'[k].left[i] = c /\ Said(loops'[k]) = d
      BY <2>1, <1>2, <1>3 DEF Said, UserDecisions
    <3> QED
      BY <3>1, <1>1, <1>4, <1>7, <1>9 DEF Waits
  <2>2. CASE k # l
    <3>1. loops'[k] = loops[k] /\ i \in 1..Len(loops[k].left)
      BY <2>2, <1>3
    <3>2. Waits(loops[k].left[i], Said(loops[k])) /\ loops[k].left[i] # c
      BY <2>2, <3>1, <1>10 DEF ConsentInv
    <3>3. loops[k].left[i] \in Calls /\ loops[k].left[i] # 0
      BY <3>2, <1>11 DEF Calls
    <3>4. verdict'[loops[k].left[i]] = verdict[loops[k].left[i]]
      BY <3>2, <3>3, <1>8
    <3> QED
      BY <3>1, <3>2, <3>3, <3>4, <1>1, <1>4 DEF Waits, Said
  <2> QED
    BY <2>1, <2>2
<1>13. \A k, m \in Loops : \A i \in 1..Len(loops'[k].left), j \in 1..Len(loops'[m].left) :
         loops'[k].left[i] = loops'[m].left[j] => k = m /\ i = j
  <2> SUFFICES ASSUME NEW k \in Loops, NEW m \in Loops,
                      NEW i \in 1..Len(loops'[k].left), NEW j \in 1..Len(loops'[m].left),
                      loops'[k].left[i] = loops'[m].left[j]
               PROVE  k = m /\ i = j
    OBVIOUS
  <2>1. \A h \in 1..Len(loops'[l].left) : h = 1 /\ loops'[l].left[h] = c
    BY <1>2, <1>3
  <2>2. CASE k = l /\ m = l
    BY <2>1, <2>2
  <2>3. CASE k = l /\ m # l
    BY <2>1, <2>3, <1>3, <1>10
  <2>4. CASE k # l /\ m = l
    BY <2>1, <2>4, <1>3, <1>10
  <2>5. CASE k # l /\ m # l
    BY <2>5, <1>3 DEF ConsentInv
  <2> QED
    BY <2>2, <2>3, <2>4, <2>5
<1>14. \A e \in Calls : e > Len(tool') => ran'[e] = 0 /\ verdict'[e] = "none"
  <2>1. \A e \in Calls : e > Len(tool) => e # c
    BY <1>7 DEF ConsentInv, Types, Calls
  <2> QED
    BY <2>1, <1>1, <1>8 DEF ConsentInv
<1> QED
  BY <1>1, <1>4, <1>5, <1>6, <1>12, <1>13, <1>14 DEF ConsentInv, Waits

\* The decided call is dealt with, and its loop has nothing left of it.
LEMMA DecisionTaken ==
  ASSUME ConsentInv, NEW l \in Loops, ResumeAfterDecision(l)
  PROVE  ConsentInv'
<1> DEFINE c == Head(loops[l].left)
<1> DEFINE r == IF loops[l].pc = "cancel" THEN Ended
                ELSE Turn(Append(loops[l].messages, Result(c)), 0)
<1>1. loops' = [loops EXCEPT ![l] = r] /\ loops[l].pc \in UserDecisions
  BY DEF ResumeAfterDecision, ConsentInv, Types
<1>2. /\ loops[l].left \in Seq(Calls) /\ Len(loops[l].left) = 1
      /\ loops[l].messages \in Seq(Messages)
  BY <1>1 DEF ConsentInv, Types, LoopStates, LeftFits
<1>3. c \in Calls /\ c = loops[l].left[1] /\ 1 \in 1..Len(loops[l].left)
  BY <1>2
<1>4. /\ Waits(c, loops[l].pc) /\ c # pendingCall.id
      /\ \A k \in Loops : k # l => \A i \in 1..Len(loops[k].left) : loops[k].left[i] # c
  BY <1>1, <1>3 DEF ConsentInv, Said, UserDecisions
<1>5. r \in LoopStates /\ r.left = <<>> /\ r.pc \in {"ended", "turn"}
  <2>1. Append(loops[l].messages, Result(c)) \in Seq(Messages)
    BY <1>2, <1>3, ResultType
  <2> QED
    BY <2>1, EndedType, TurnType
<1>6. /\ \A e \in Calls : e # c => ran'[e] = ran[e]
      /\ ran' \in [Calls -> Nat]
      /\ UNCHANGED <<pendingCall, tool, verdict>>
  <2>1. ran \in [Calls -> Nat] /\ ran[c] + 1 \in Nat
    BY <1>3 DEF ConsentInv, Types
  <2>2. ran' = ran \/ ran' = [ran EXCEPT ![c] = ran[c] + 1]
    BY DEF ResumeAfterDecision
  <2> QED
    BY <2>1, <2>2, <1>3 DEF ResumeAfterDecision
<1>7. loops'[l] = r /\ \A k \in Loops : k # l => loops'[k] = loops[k]
  BY <1>1 DEF ConsentInv, Types
<1>8. Types'
  <2>1. loops' \in [Loops -> LoopStates]
    BY <1>1, <1>5 DEF ConsentInv, Types
  <2> QED
    BY <2>1, <1>6 DEF ConsentInv, Types
<1>9. \A k \in Loops : LeftFits(loops'[k])
  BY <1>5, <1>7 DEF ConsentInv, LeftFits, UserDecisions
<1>10. \A k \in Loops : \A i \in 1..Len(loops'[k].left) :
         k # l /\ loops'[k] = loops[k] /\ i \in 1..Len(loops[k].left)
  BY <1>5, <1>7
<1>11. Len(tool) \in Nat /\ Len(tool) <= MaxCalls /\ MaxCalls \in Nat
  BY CallsCounted
<1>12. \A e, v : Waits(e, v) /\ e # c =>
         e \in 1..Len(tool') /\ ran'[e] = 0 /\ verdict'[e] = v
  BY <1>6, <1>11 DEF Waits, Calls
<1>13. \A k \in Loops : \A i \in 1..Len(loops'[k].left) :
         /\ Waits(loops[k].left[i], Said(loops[k]))'
         /\ loops'[k].left[i] # pendingCall'.id
  <2> SUFFICES ASSUME NEW k \in Loops, NEW i \in 1..Len(loops'[k].left)
               PROVE  /\ Waits(loops[k].left[i], Said(loops[k]))'
                      /\ loops'[k].left[i] # pendingCall'.id
    OBVIOUS
  <2>1. k # l /\ loops'[k] = loops[k] /\ i \in 1..Len(loops[k].left)
    BY <1>10
  <2>2. /\ Waits(loops[k].left[i], Said(loops[k])) /\ loops[k].left[i] # pendingCall.id
        /\ loops[k].left[i] # c
    BY <2>1, <1>4 DEF ConsentInv
  <2> QED
    BY <2>1, <2>2, <1>6, <1>12 DEF Waits, Said
<1>14. \A e \in Calls : e > Len(tool') => ran'[e] = 0 /\ verdict'[e] = "none"
  <2>1. \A e \in Calls : e > Len(tool) => e # c
    BY <1>4, <1>11 DEF Waits, Calls
  <2> QED
    BY <2>1, <1>6 DEF ConsentInv
<1>15. pendingCall'.id # 0 => Waits(pendingCall.id, "none")'
  BY <1>4, <1>6, <1>12 DEF ConsentInv, Waits
<1>16. \A k, m \in Loops : \A i \in 1..Len(loops'[k].left), j \in 1..Len(loops'[m].left) :
         loops'[k].left[i] = loops'[m].left[j] => k = m /\ i = j
  <2> SUFFICES ASSUME NEW k \in Loops, NEW m \in Loops,
                      NEW i \in 1..Len(loops'[k].left), NEW j \in 1..Len(loops'[m].left),
                      loops'[k].left[i] = loops'[m].left[j]
               PROVE  k = m /\ i = j
    OBVIOUS
  <2>1. /\ loops'[k] = loops[k] /\ i \in 1..Len(loops[k].left)
        /\ loops'[m] = loops[m] /\ j \in 1..Len(loops[m].left)
    BY <1>10
  <2>2. loops[k].left[i] = loops[m].left[j]
    BY <2>1
  <2> HIDE DEF c, r
  <2> QED
    BY <2>1, <2>2 DEF ConsentInv
<1>17. \A k \in Loops : \A i \in 1..Len(loops'[k].left) :
         /\ Waits(loops[k].left[i], Said(loops[k]))'
         /\ loops'[k].left[i] # pendingCall'.id
         /\ \A m \in Loops : \A j \in 1..Len(loops'[m].left) :
              loops'[k].left[i] = loops'[m].left[j] => k = m /\ i = j
  BY <1>13, <1>16
<1> HIDE DEF c, r
<1> QED
  BY <1>8, <1>9, <1>14, <1>15, <1>17 DEF ConsentInv

LEMMA StepConsent == ConsentInv /\ [AgentNext]_agentVars => ConsentInv'
<1> SUFFICES ASSUME ConsentInv, [AgentNext]_agentVars
             PROVE  ConsentInv'
  OBVIOUS
<1>1. ASSUME UNCHANGED <<loops, pendingCall, tool, verdict, ran>>
      PROVE  ConsentInv'
  BY <1>1 DEF ConsentInv, Types, Waits
<1>2. \A l \in Loops : loops[l] \in LoopStates
  BY DEF ConsentInv, Types
<1>3. ASSUME NEW l \in Loops, ChatMode(l), UNCHANGED <<pendingCall, tool, verdict, ran>>
      PROVE  ConsentInv'
  <2>1. <<>> \in Seq(Messages)
    OBVIOUS
  <2> QED
    BY <1>3, <2>1, TurnType, LoopEnds DEF ChatMode
<1>4. ASSUME NEW l \in Loops, TooManyTurns(l) \/ LastAnswer(l)
      PROVE  ConsentInv'
  BY <1>4, EndedType, LoopEnds DEF TooManyTurns, LastAnswer
<1>5. ASSUME NEW l \in Loops, EndTurn(l)
      PROVE  ConsentInv'
  <2>1. NextTurn(loops[l]) \in LoopStates /\ NextTurn(loops[l]).left = <<>>
        /\ NextTurn(loops[l]).pc = "turn"
    <3>1. loops[l].messages \in Seq(Messages) /\ loops[l].turn + 1 \in Nat
      BY <1>2 DEF LoopStates
    <3> QED
      BY <3>1, TurnType DEF NextTurn
  <2>2. loops' = [loops EXCEPT ![l] = IF loops[l].suspended THEN Ended ELSE NextTurn(loops[l])]
    BY <1>5 DEF EndTurn, ConsentInv, Types
  <2> QED
    BY <1>5, <2>1, <2>2, EndedType, LoopEnds DEF EndTurn
<1>6. ASSUME NEW l \in Loops, RunTool(l) \/ SkipTool(l) \/ Suspend(l)
      PROVE  ConsentInv'
  <2> DEFINE c == Head(loops[l].left)
  <2>1. loops[l].pc = "calls" /\ loops[l].left # <<>>
    BY <1>6 DEF RunTool, SkipTool, Suspend
  <2>2. /\ Tail(loops[l].left) \in Seq(Calls)
        /\ Append(loops[l].messages, Result(c)) \in Seq(Messages)
    BY <2>1, FrontAnswered
  <2>3. ASSUME AddResult(l, c)
        PROVE  \E r \in LoopStates :
                 /\ r.pc = "calls" /\ r.left = Tail(loops[l].left)
                 /\ loops' = [loops EXCEPT ![l] = r]
    <3> DEFINE r == [loops[l] EXCEPT !.left = Tail(@), !.messages = Append(@, Result(c))]
    <3>1. r \in LoopStates /\ r.pc = "calls" /\ r.left = Tail(loops[l].left)
      BY <1>2, <2>1, <2>2 DEF LoopStates
    <3>2. loops' = [loops EXCEPT ![l] = r]
      BY <2>3 DEF AddResult, ConsentInv, Types
    <3> QED
      BY <3>1, <3>2
  <2>4. CASE RunTool(l) \/ SkipTool(l)
    BY <2>1, <2>3, <2>4, FrontLeaves DEF RunTool, SkipTool
  <2>5. CASE Suspend(l)
    <3> DEFINE r == [loops[l] EXCEPT !.left = Tail(@), !.suspended = TRUE]
    <3>1. r \in LoopStates /\ r.pc = "calls" /\ r.left = Tail(loops[l].left)
      BY <1>2, <2>1, <2>2 DEF LoopStates
    <3>2. loops' = [loops EXCEPT ![l] = r]
      BY <2>5 DEF Suspend, ConsentInv, Types
    <3> QED
      BY <2>1, <2>5, <3>1, <3>2, FrontLeaves DEF Suspend
  <2> QED
    BY <1>6, <2>4, <2>5
<1>7. CASE UNCHANGED agentVars
  BY <1>1, <1>7 DEF agentVars
<1>8. CASE ChatRefused \/ Enqueue \/ QueuedRefused \/ LookAgain
  BY <1>1, <1>8 DEF ChatRefused, Enqueue, QueuedRefused, LookAgain
<1>9. ASSUME NEW l \in Loops, Chat(l) \/ SendQueued(l)
      PROVE  ConsentInv'
  BY <1>3, <1>9 DEF Chat, SendQueued
<1> QED
  BY <1>4, <1>5, <1>6, <1>7, <1>8, <1>9, CallsArrive, DecisionMoves, DecisionTaken DEF AgentNext

\* What ConsentInv says of the call that runs is what consent asks for.
LEMMA ConsentedStep ==
  ASSUME ConsentInv, AgentNext, NEW c \in Calls, ran'[c] # ran[c]
  PROVE  /\ ran[c] = 0
         /\ \/ verdict[c] \in Accepts
            \/ verdict[c] = "none" /\ AutoRun(c)
<1>1. CASE \E l \in Loops : RunTool(l)
  <2>1. PICK l \in Loops : RunTool(l)
    BY <1>1
  <2>2. c = Head(loops[l].left)
    BY <2>1 DEF RunTool, ConsentInv, Types
  <2> QED
    BY <2>1, <2>2, FrontAnswered DEF RunTool, Waits
<1>2. CASE \E l \in Loops : ResumeAfterDecision(l)
  <2>1. PICK l \in Loops : ResumeAfterDecision(l)
    BY <1>2
  <2>2. c = Head(loops[l].left) /\ loops[l].pc \in Accepts
    BY <2>1 DEF ResumeAfterDecision, ConsentInv, Types
  <2>3. loops[l].left \in Seq(Calls) /\ Len(loops[l].left) = 1
    BY <2>1 DEF ResumeAfterDecision, ConsentInv, Types, LoopStates, LeftFits
  <2>4. c = loops[l].left[1] /\ 1 \in 1..Len(loops[l].left)
    BY <2>2, <2>3
  <2>5. Waits(loops[l].left[1], Said(loops[l]))
    BY <2>4 DEF ConsentInv
  <2>6. Said(loops[l]) = loops[l].pc
    BY <2>2 DEF Said, Accepts
  <2>7. Waits(c, loops[l].pc)
    BY <2>4, <2>5, <2>6
  <2>8. ran[c] = 0 /\ verdict[c] = loops[l].pc
    BY <2>7 DEF Waits
  <2> QED
    BY <2>2, <2>8
<1> QED
  BY <1>1, <1>2 DEF AgentNext, ChatRefused, Enqueue, QueuedRefused, LookAgain, Chat, SendQueued,
     TooManyTurns, LastAnswer, ModelCalls, SkipTool, Suspend, EndTurn, ConfirmTool

\* However many loops, decisions and queued messages overlap, a call runs at
\* most once and never without consent.
THEOREM RunsAreConsentedHolds == AgentSpec => RunsAreConsented
<1>1. AgentInit => ConsentInv
  BY InitConsent
<1>2. ConsentInv /\ [AgentNext]_agentVars => ConsentInv'
  BY StepConsent
<1>3. ConsentInv /\ [AgentNext]_agentVars =>
        [\A c \in Calls : ran'[c] # ran[c] =>
           /\ ran[c] = 0
           /\ \/ verdict[c] \in Accepts
              \/ verdict[c] = "none" /\ AutoRun(c)]_agentVars
  BY ConsentedStep
<1> QED
  BY <1>1, <1>2, <1>3, PTL DEF AgentSpec, RunsAreConsented

-----------------------------------------------------------------------------
(* What the model is sent                                                     *)

\* The request at p of history h has its results after it, and none later.
Answered(h, p) ==
  /\ p + Len(h[p].ids) <= Len(h)
  /\ \A k \in DOMAIN h[p].ids : h[p + k] = Result(h[p].ids[k])
  /\ \A q \in (p + Len(h[p].ids) + 1)..Len(h) : h[q].role = "tool" =>
       \A j \in DOMAIN h[q].ids, k \in DOMAIN h[p].ids : h[q].ids[j] # h[p].ids[k]

\* Torn, for any record t of what the calls ask for.
Split(t, ids) == Len(ids) > 1 /\ \E k \in DOMAIN ids : t[ids[k]] = "asks"

Owed(t, h, p) == h[p].role = "assistant" /\ ~Split(t, h[p].ids)

Full(t, h) == \A p \in DOMAIN h : Owed(t, h, p) => Answered(h, p)

\* History h lacks the results of the calls of rest, the last of those of its
\* request at p, which no other request names.
OpenAt(t, h, p, rest) ==
  /\ h[p].role = "assistant"
  /\ \A q \in DOMAIN h \ {p} : Owed(t, h, q) => Answered(h, q)
  /\ \A i \in DOMAIN rest :
       /\ \E k \in DOMAIN h[p].ids : h[p].ids[k] = rest[i]
       /\ \A q \in DOMAIN h \ {p} : h[q].role = "assistant" =>
            \A k \in DOMAIN h[q].ids : h[q].ids[k] # rest[i]
  /\ ~Split(t, h[p].ids) =>
       /\ Len(h[p].ids) = Len(h) - p + Len(rest)
       /\ \A i \in DOMAIN rest : rest[i] = h[p].ids[Len(h) - p + i]
       /\ \A k \in 1..(Len(h) - p) : h[p + k] = Result(h[p].ids[k])

Open(t, h, rest) == \E p \in DOMAIN h : OpenAt(t, h, p, rest)

\* The calls that a history names were made.
Made(t, h) == \A p \in DOMAIN h : \A k \in DOMAIN h[p].ids : h[p].ids[k] \in DOMAIN t

\* A loop before a turn has a complete history; one that deals with calls, or
\* with a decision, lacks what it is about to add.  A turn that suspended its
\* last call adds nothing, and ends.
LoopOk(t, r) ==
  /\ Made(t, r.messages)
  /\ r.pc = "turn" => Full(t, r.messages)
  /\ r.pc = "calls" /\ (~r.suspended \/ r.left # <<>>) => Open(t, r.messages, r.left)
  /\ r.pc \in UserDecisions => Open(t, r.messages, r.left)

PendingOk(t, call) ==
  /\ Made(t, call.messages)
  /\ call.id # 0 => Open(t, call.messages, <<call.id>>)

AnswerInv == (\A l \in Loops : LoopOk(tool, loops[l])) /\ PendingOk(tool, pendingCall)

LEMMA EmptyHistory == \A t : Made(t, <<>>) /\ Full(t, <<>>)
  BY DEF Made, Full

LEMMA EndedOk == \A t : LoopOk(t, Ended)
  BY EmptyHistory DEF LoopOk, Ended, UserDecisions

LEMMA NoPendingOk == \A t : PendingOk(t, NoPending)
  BY EmptyHistory DEF PendingOk, NoPending

LEMMA InitAnswers == AgentInit => AnswerInv
  BY EndedOk, NoPendingOk DEF AgentInit, AnswerInv

LEMMA IdsType ==
  \A m \in Messages : /\ m.ids \in Seq(Calls) /\ Len(m.ids) \in Nat
                       /\ DOMAIN m.ids = 1..Len(m.ids)
<1> SUFFICES ASSUME NEW m \in Messages
             PROVE  /\ m.ids \in Seq(Calls) /\ Len(m.ids) \in Nat
                    /\ DOMAIN m.ids = 1..Len(m.ids)
  OBVIOUS
<1>1. m.ids \in Seq(Calls)
  BY DEF Messages
<1> QED
  BY <1>1

LEMMA AddMessage ==
  ASSUME NEW h \in Seq(Messages), NEW m \in Messages, NEW g, g = Append(h, m)
  PROVE  /\ g \in Seq(Messages) /\ Len(g) = Len(h) + 1 /\ Len(h) \in Nat
         /\ DOMAIN h = 1..Len(h) /\ DOMAIN g = 1..(Len(h) + 1)
         /\ g[Len(h) + 1] = m
         /\ \A i \in 1..Len(h) : g[i] = h[i]
         /\ \A i \in 1..Len(h) : h[i] \in Messages /\ Len(h[i].ids) \in Nat
                                 /\ DOMAIN h[i].ids = 1..Len(h[i].ids)
<1>1. \A i \in 1..Len(h) : h[i] \in Messages
  OBVIOUS
<1>2. \A i \in 1..Len(h) : Len(h[i].ids) \in Nat /\ DOMAIN h[i].ids = 1..Len(h[i].ids)
  BY <1>1, IdsType
<1> QED
  BY <1>1, <1>2

LEMMA ResultFacts ==
  ASSUME NEW c \in Calls
  PROVE  /\ Result(c) \in Messages /\ Result(c).role = "tool"
         /\ \A k \in DOMAIN Result(c).ids : Result(c).ids[k] = c
  BY DEF Result, Messages

\* An answered request stays so, if what is added is no result of its own.
LEMMA StaysAnswered ==
  ASSUME NEW h \in Seq(Messages), NEW m \in Messages, NEW g, g = Append(h, m), NEW p \in DOMAIN h,
         Answered(h, p),
         m.role = "tool" =>
           \A j \in DOMAIN m.ids, k \in DOMAIN h[p].ids : m.ids[j] # h[p].ids[k]
  PROVE  Answered(g, p)
<1>1. /\ Len(g) = Len(h) + 1 /\ Len(h) \in Nat /\ p \in 1..Len(h) /\ g[Len(h) + 1] = m
      /\ \A i \in 1..Len(h) : g[i] = h[i]
      /\ Len(h[p].ids) \in Nat /\ DOMAIN h[p].ids = 1..Len(h[p].ids)
  BY AddMessage
<1>2. PICK n : n = Len(h[p].ids)
  OBVIOUS
<1>3. g[p] = h[p] /\ n \in Nat /\ p + n <= Len(h)
  BY <1>1, <1>2 DEF Answered
<1>4. \A k \in 1..n : p + k \in 1..Len(h) /\ g[p + k] = Result(h[p].ids[k])
  <2> SUFFICES ASSUME NEW k \in 1..n
               PROVE  p + k \in 1..Len(h) /\ g[p + k] = Result(h[p].ids[k])
    OBVIOUS
  <2>1. p + k \in 1..Len(h)
    BY <1>1, <1>3
  <2>2. h[p + k] = Result(h[p].ids[k])
    BY <1>1, <1>2 DEF Answered
  <2> QED
    BY <1>1, <2>1, <2>2
<1>5. \A q \in (p + n + 1)..Len(g) : g[q].role = "tool" =>
        \A j \in DOMAIN g[q].ids, k \in DOMAIN h[p].ids : g[q].ids[j] # h[p].ids[k]
  <2> SUFFICES ASSUME NEW q \in (p + n + 1)..Len(g), g[q].role = "tool"
               PROVE  \A j \in DOMAIN g[q].ids, k \in DOMAIN h[p].ids : g[q].ids[j] # h[p].ids[k]
    OBVIOUS
  <2>1. CASE q = Len(h) + 1
    BY <1>1, <2>1
  <2>2. CASE q # Len(h) + 1
    <3>1. q \in (p + n + 1)..Len(h) /\ q \in 1..Len(h)
      BY <1>1, <1>3, <2>2
    <3>2. g[q] = h[q]
      BY <1>1, <3>1
    <3> QED
      BY <1>2, <3>1, <3>2 DEF Answered
  <2> QED
    BY <2>1, <2>2
<1>6. p + n <= Len(g)
  BY <1>1, <1>3
<1>7. /\ p + Len(g[p].ids) <= Len(g)
      /\ \A k \in DOMAIN g[p].ids : g[p + k] = Result(g[p].ids[k])
  BY <1>1, <1>2, <1>3, <1>4, <1>6
<1>8. \A q \in (p + Len(g[p].ids) + 1)..Len(g) : g[q].role = "tool" =>
        \A j \in DOMAIN g[q].ids, k \in DOMAIN g[p].ids : g[q].ids[j] # g[p].ids[k]
  BY <1>2, <1>3, <1>5
<1> QED
  BY <1>7, <1>8 DEF Answered

\* A result fills the first of the places that are open.
LEMMA GetsResult ==
  ASSUME NEW t, NEW h \in Seq(Messages), NEW rest \in Seq(Calls), rest # <<>>,
         NEW g, g = Append(h, Result(Head(rest))), Open(t, h, rest)
  PROVE  Open(t, g, Tail(rest))
<1>0. PICK p \in DOMAIN h : OpenAt(t, h, p, rest)
  BY DEF Open
<1>1. PICK c : c = Head(rest)
  OBVIOUS
<1>2. /\ c \in Calls /\ c = rest[1] /\ 1 \in DOMAIN rest
      /\ Len(rest) \in Nat /\ Len(rest) > 0
  BY <1>1
<1>3. PICK left : left = Tail(rest)
  OBVIOUS
<1>4. /\ left \in Seq(Calls) /\ Len(left) = Len(rest) - 1 /\ DOMAIN left = 1..Len(left)
      /\ \A i \in DOMAIN left : i + 1 \in DOMAIN rest /\ left[i] = rest[i + 1]
  BY <1>3
<1>5. /\ g \in Seq(Messages) /\ Len(g) = Len(h) + 1 /\ Len(h) \in Nat
      /\ DOMAIN h = 1..Len(h) /\ DOMAIN g = 1..(Len(h) + 1)
      /\ g[Len(h) + 1] = Result(c)
      /\ \A i \in 1..Len(h) : g[i] = h[i]
  BY <1>1, <1>2, ResultFacts, AddMessage
<1>6. g[p] = h[p] /\ p \in 1..Len(h) /\ p \in DOMAIN g
  BY <1>5
<1>7. \A q \in DOMAIN g \ {p} : g[q].role = "assistant" => q \in DOMAIN h \ {p} /\ g[q] = h[q]
  <2> SUFFICES ASSUME NEW q \in DOMAIN g \ {p}, g[q].role = "assistant"
               PROVE  q \in DOMAIN h \ {p} /\ g[q] = h[q]
    OBVIOUS
  <2>1. q # Len(h) + 1
    BY <1>2, <1>5, ResultFacts
  <2> QED
    BY <2>1, <1>5
<1>8. \A q \in DOMAIN g \ {p} : Owed(t, g, q) => Answered(g, q)
  <2> SUFFICES ASSUME NEW q \in DOMAIN g \ {p}, Owed(t, g, q)
               PROVE  Answered(g, q)
    OBVIOUS
  <2>1. q \in DOMAIN h \ {p} /\ g[q] = h[q] /\ h[q].role = "assistant"
    BY <1>7 DEF Owed
  <2>2. Owed(t, h, q)
    BY <2>1 DEF Owed
  <2>3. Answered(h, q) /\ \A k \in DOMAIN h[q].ids : h[q].ids[k] # c
    BY <1>0, <1>2, <2>1, <2>2 DEF OpenAt
  <2>4. PICK m : m = Result(c)
    OBVIOUS
  <2>5. m \in Messages /\ \A k \in DOMAIN m.ids : m.ids[k] = c
    BY <1>2, <2>4, ResultFacts
  <2>6. \A j \in DOMAIN m.ids, k \in DOMAIN h[q].ids : m.ids[j] # h[q].ids[k]
    BY <2>3, <2>5
  <2>7. g = Append(h, m)
    BY <1>1, <2>4
  <2> QED
    BY <2>1, <2>3, <2>5, <2>6, <2>7, StaysAnswered
<1>9. \A i \in DOMAIN left :
        /\ \E k \in DOMAIN g[p].ids : g[p].ids[k] = left[i]
        /\ \A q \in DOMAIN g \ {p} : g[q].role = "assistant" =>
             \A k \in DOMAIN g[q].ids : g[q].ids[k] # left[i]
  BY <1>0, <1>4, <1>6, <1>7 DEF OpenAt
<1>10. ASSUME ~Split(t, g[p].ids)
       PROVE  /\ Len(g[p].ids) = Len(g) - p + Len(left)
              /\ \A i \in DOMAIN left : left[i] = g[p].ids[Len(g) - p + i]
              /\ \A k \in 1..(Len(g) - p) : g[p + k] = Result(g[p].ids[k])
  <2> DEFINE ids == h[p].ids
  <2>1. /\ Len(ids) = Len(h) - p + Len(rest)
        /\ \A i \in DOMAIN rest : rest[i] = ids[Len(h) - p + i]
        /\ \A k \in 1..(Len(h) - p) : h[p + k] = Result(ids[k])
    BY <1>0, <1>6, <1>10 DEF OpenAt
  <2> HIDE DEF ids
  <2>2. Len(ids) = Len(g) - p + Len(left)
    BY <1>2, <1>4, <1>5, <1>6, <2>1
  <2>3. ASSUME NEW i \in DOMAIN left
        PROVE  left[i] = ids[Len(g) - p + i]
    <3>1. left[i] = ids[Len(h) - p + (i + 1)]
      BY <1>4, <2>1
    <3>2. Len(h) - p + (i + 1) = Len(g) - p + i
      BY <1>4, <1>5, <1>6
    <3> QED
      BY <3>1, <3>2
  <2>4. ASSUME NEW k \in 1..(Len(g) - p)
        PROVE  g[p + k] = Result(ids[k])
    <3>1. CASE k = Len(h) - p + 1
      <4>1. p + k = Len(h) + 1
        BY <1>5, <1>6, <3>1
      <4> QED
        BY <1>2, <1>5, <2>1, <3>1, <4>1
    <3>2. CASE k # Len(h) - p + 1
      <4>1. k \in 1..(Len(h) - p) /\ p + k \in 1..Len(h)
        BY <1>5, <1>6, <3>2
      <4> QED
        BY <1>5, <2>1, <4>1
    <3> QED
      BY <3>1, <3>2
  <2> QED
    BY <1>6, <2>2, <2>3, <2>4 DEF ids
<1>11. OpenAt(t, g, p, left)
  BY <1>0, <1>6, <1>8, <1>9, <1>10 DEF OpenAt
<1> QED
  BY <1>3, <1>6, <1>11 DEF Open

\* Once the last result is there, nothing is lacking.
LEMMA AllAnswered ==
  ASSUME NEW t, NEW h \in Seq(Messages), Open(t, h, <<>>)
  PROVE  Full(t, h)
<1>1. PICK p \in DOMAIN h : OpenAt(t, h, p, <<>>)
  BY DEF Open
<1>2. /\ Len(h) \in Nat /\ DOMAIN h = 1..Len(h)
      /\ h[p] \in Messages
      /\ Len(h[p].ids) \in Nat /\ DOMAIN h[p].ids = 1..Len(h[p].ids)
  BY IdsType
<1>3. ASSUME Owed(t, h, p)
      PROVE  Answered(h, p)
  <2>1. /\ Len(h[p].ids) = Len(h) - p + 0
        /\ \A k \in 1..(Len(h) - p) : h[p + k] = Result(h[p].ids[k])
    BY <1>1, <1>3 DEF OpenAt, Owed
  <2>2. Len(h[p].ids) = Len(h) - p /\ p + Len(h[p].ids) = Len(h)
    BY <1>2, <2>1
  <2>3. \A k \in DOMAIN h[p].ids : h[p + k] = Result(h[p].ids[k])
    BY <1>2, <2>1, <2>2
  <2>4. (p + Len(h[p].ids) + 1)..Len(h) = {}
    BY <1>2, <2>2
  <2> QED
    BY <1>2, <2>2, <2>3, <2>4 DEF Answered
<1> QED
  BY <1>1, <1>3 DEF OpenAt, Full

\* A call that asks is the last of its turn, or its turn is torn: either way
\* the copy of the history, and what the loop keeps, lack what they should.
LEMMA AsksAlone ==
  ASSUME NEW t, NEW h \in Seq(Messages), NEW rest \in Seq(Calls), rest # <<>>,
         Open(t, h, rest), t[Head(rest)] = "asks"
  PROVE  /\ Open(t, h, <<Head(rest)>>)
         /\ Tail(rest) # <<>> => Open(t, h, Tail(rest))
<1>0. PICK p \in DOMAIN h : OpenAt(t, h, p, rest)
  BY DEF Open
<1>1. PICK c : c = Head(rest)
  OBVIOUS
<1>2. /\ c \in Calls /\ c = rest[1] /\ 1 \in DOMAIN rest
      /\ Len(rest) \in Nat /\ Len(rest) > 0 /\ DOMAIN rest = 1..Len(rest)
  BY <1>1
<1>3. PICK left : left = Tail(rest)
  OBVIOUS
<1>4. /\ left \in Seq(Calls) /\ Len(left) = Len(rest) - 1 /\ DOMAIN left = 1..Len(left)
      /\ \A i \in DOMAIN left : i + 1 \in DOMAIN rest /\ left[i] = rest[i + 1]
  BY <1>3
<1>5. PICK one : one = <<c>>
  OBVIOUS
<1>6. DOMAIN one = {1} /\ one[1] = c
  BY <1>5
<1>7. CASE left = <<>>
  <2>1. Len(rest) = 1
    <3>1. Len(left) = 0
      BY <1>7
    <3>2. PICK n \in Nat : n = Len(rest)
      BY <1>2
    <3>3. n - 1 = 0
      BY <1>4, <3>1, <3>2
    <3>4. n = 1
      BY <3>3
    <3> QED
      BY <3>2, <3>4
  <2>2. rest = one
    BY <1>2, <1>5, <2>1
  <2> QED
    BY <1>0, <1>1, <1>3, <1>5, <1>7, <2>2 DEF Open
<1>8. CASE left # <<>>
  <2>1. Len(rest) > 1
    BY <1>2, <1>4, <1>8
  <2>2. \E k \in DOMAIN h[p].ids : h[p].ids[k] = c
    BY <1>0, <1>2 DEF OpenAt
  <2>3. Split(t, h[p].ids)
    <3>1. SUFFICES ASSUME ~Split(t, h[p].ids)
                   PROVE  FALSE
      OBVIOUS
    <3>2. Len(h[p].ids) = Len(h) - p + Len(rest)
      BY <1>0, <3>1 DEF OpenAt
    <3>3. Len(h[p].ids) > 1
      BY <1>2, <2>1, <3>2
    <3> QED
      BY <1>1, <2>2, <3>1, <3>3 DEF Split
  <2>4. OpenAt(t, h, p, one)
    BY <1>0, <1>2, <1>6, <2>3 DEF OpenAt
  <2>5. OpenAt(t, h, p, left)
    BY <1>0, <1>4, <2>3 DEF OpenAt
  <2> QED
    BY <1>1, <1>3, <1>5, <2>4, <2>5 DEF Open
<1> QED
  BY <1>7, <1>8

\* What calls asked for is recorded once: u knows what t knows.
Extends(u, t) == \A c \in DOMAIN t : c \in DOMAIN u /\ u[c] = t[c]

LEMMA StaysSplit ==
  ASSUME NEW t, NEW u, Extends(u, t), NEW h \in Seq(Messages), Made(t, h)
  PROVE  \A p \in DOMAIN h : Split(u, h[p].ids) <=> Split(t, h[p].ids)
  BY DEF Extends, Made, Split

\* So a history is as complete as it was.
LEMMA StaysOk ==
  ASSUME NEW t, NEW u, Extends(u, t), NEW h \in Seq(Messages), Made(t, h)
  PROVE  /\ Made(u, h)
         /\ Full(t, h) => Full(u, h)
         /\ \A rest : Open(t, h, rest) => Open(u, h, rest)
<1>1. Made(u, h)
  BY DEF Extends, Made
<1>2. \A p \in DOMAIN h : Split(u, h[p].ids) <=> Split(t, h[p].ids)
  BY StaysSplit
<1>3. \A p \in DOMAIN h : Owed(u, h, p) <=> Owed(t, h, p)
  BY <1>2 DEF Owed
<1>4. Full(t, h) => Full(u, h)
  BY <1>3 DEF Full
<1>5. ASSUME NEW rest, Open(t, h, rest)
      PROVE  Open(u, h, rest)
  <2>1. PICK p \in DOMAIN h : OpenAt(t, h, p, rest)
    BY <1>5 DEF Open
  <2>2. OpenAt(u, h, p, rest)
    BY <1>2, <1>3, <2>1 DEF OpenAt
  <2> QED
    BY <2>2 DEF Open
<1> QED
  BY <1>1, <1>4, <1>5

LEMMA LoopStaysOk ==
  ASSUME NEW t, NEW u, Extends(u, t), NEW r \in LoopStates, LoopOk(t, r)
  PROVE  LoopOk(u, r)
<1>1. r.messages \in Seq(Messages)
  BY DEF LoopStates
<1>2. Made(t, r.messages)
  BY DEF LoopOk
<1>3. /\ Made(u, r.messages)
      /\ Full(t, r.messages) => Full(u, r.messages)
      /\ \A rest : Open(t, r.messages, rest) => Open(u, r.messages, rest)
  BY <1>1, <1>2, StaysOk
<1> QED
  BY <1>3 DEF LoopOk

LEMMA PendingStaysOk ==
  ASSUME NEW t, NEW u, Extends(u, t), NEW call, call.messages \in Seq(Messages), PendingOk(t, call)
  PROVE  PendingOk(u, call)
<1>1. /\ Made(u, call.messages)
      /\ \A rest : Open(t, call.messages, rest) => Open(u, call.messages, rest)
  BY StaysOk DEF PendingOk
<1> QED
  BY <1>1 DEF PendingOk

\* A new request of calls that nobody made before lacks its results, and
\* nothing else does.
LEMMA AsksAnew ==
  ASSUME NEW t, NEW u, Extends(u, t), NEW n \in Nat, DOMAIN t = 1..n,
         NEW h \in Seq(Messages), Made(t, h), Full(t, h),
         NEW ids \in Seq(Calls), \A k \in DOMAIN ids : ids[k] > n /\ ids[k] \in DOMAIN u,
         NEW g, g = Append(h, Request(ids))
  PROVE  Made(u, g) /\ Open(u, g, ids)
<1>0. PICK m : m = Request(ids)
  OBVIOUS
<1>1. m \in Messages /\ m.role = "assistant" /\ m.ids = ids /\ g = Append(h, m)
  BY <1>0, RequestType DEF Request
<1>2. /\ Len(g) = Len(h) + 1 /\ Len(h) \in Nat
      /\ DOMAIN h = 1..Len(h) /\ DOMAIN g = 1..(Len(h) + 1)
      /\ g[Len(h) + 1] = m
      /\ \A i \in 1..Len(h) : g[i] = h[i]
  BY <1>1, AddMessage
<1>3. PICK p : p = Len(h) + 1
  OBVIOUS
<1>4. p \in DOMAIN g /\ g[p].ids = ids /\ g[p].role = "assistant" /\ Len(g) - p = 0
  BY <1>1, <1>2, <1>3
<1>5. \A q \in DOMAIN g \ {p} : q \in DOMAIN h /\ g[q] = h[q]
  BY <1>2, <1>3
<1>6. \A q \in DOMAIN g \ {p} : Owed(u, g, q) => Answered(g, q)
  <2> SUFFICES ASSUME NEW q \in DOMAIN g \ {p}, Owed(u, g, q)
               PROVE  Answered(g, q)
    OBVIOUS
  <2>1. q \in DOMAIN h /\ g[q] = h[q]
    BY <1>5
  <2>2. Split(u, h[q].ids) <=> Split(t, h[q].ids)
    BY <2>1, StaysSplit
  <2>3. Answered(h, q)
    BY <2>1, <2>2 DEF Owed, Full
  <2> QED
    BY <1>1, <2>1, <2>3, StaysAnswered
<1>7. \A q \in DOMAIN g \ {p} : \A k \in DOMAIN g[q].ids : g[q].ids[k] \in 1..n
  BY <1>5 DEF Made
<1>8. ASSUME NEW i \in DOMAIN ids
      PROVE  /\ \E k \in DOMAIN g[p].ids : g[p].ids[k] = ids[i]
             /\ \A q \in DOMAIN g \ {p} : g[q].role = "assistant" =>
                  \A k \in DOMAIN g[q].ids : g[q].ids[k] # ids[i]
  <2>1. ids[i] > n /\ ids[i] \in Int
    <3>1. ids[i] \in Calls
      OBVIOUS
    <3> QED
      BY <3>1 DEF Calls
  <2>2. ids[i] \notin 1..n
    BY <2>1
  <2> QED
    BY <1>4, <1>7, <2>2
<1>9. /\ Len(g[p].ids) = Len(g) - p + Len(ids)
      /\ \A i \in DOMAIN ids : ids[i] = g[p].ids[Len(g) - p + i]
      /\ 1..(Len(g) - p) = {}
  <2>1. Len(ids) \in Nat /\ DOMAIN ids = 1..Len(ids)
    OBVIOUS
  <2>2. \A i \in DOMAIN ids : Len(g) - p + i = i
    BY <1>4, <2>1
  <2> QED
    BY <1>4, <2>1, <2>2
<1>10. OpenAt(u, g, p, ids)
  BY <1>4, <1>6, <1>8, <1>9 DEF OpenAt
<1>11. Made(u, g)
  <2> SUFFICES ASSUME NEW q \in DOMAIN g, NEW k \in DOMAIN g[q].ids
               PROVE  g[q].ids[k] \in DOMAIN u
    BY DEF Made
  <2>1. CASE q = p
    BY <1>4, <2>1
  <2>2. CASE q # p
    BY <1>5, <2>2 DEF Made, Extends
  <2> QED
    BY <2>1, <2>2
<1> QED
  BY <1>4, <1>10, <1>11 DEF Open

\* A result names a call of the request it answers.
LEMMA ResultMade ==
  ASSUME NEW t, NEW h \in Seq(Messages), Made(t, h), NEW c \in Calls, c \in DOMAIN t,
         NEW g, g = Append(h, Result(c))
  PROVE  Made(t, g)
<1>1. PICK m : m = Result(c)
  OBVIOUS
<1>2. m \in Messages /\ \A k \in DOMAIN m.ids : m.ids[k] = c
  BY <1>1, ResultFacts
<1>3. /\ Len(h) \in Nat /\ DOMAIN h = 1..Len(h) /\ DOMAIN g = 1..(Len(h) + 1)
      /\ g[Len(h) + 1] = m
      /\ \A i \in 1..Len(h) : g[i] = h[i]
  BY <1>1, <1>2, AddMessage
<1> SUFFICES ASSUME NEW q \in DOMAIN g, NEW k \in DOMAIN g[q].ids
             PROVE  g[q].ids[k] \in DOMAIN t
  BY DEF Made
<1>4. CASE q = Len(h) + 1
  BY <1>2, <1>3, <1>4
<1>5. CASE q # Len(h) + 1
  <2>1. q \in DOMAIN h /\ g[q] = h[q]
    BY <1>3, <1>5
  <2> QED
    BY <2>1 DEF Made
<1> QED
  BY <1>4, <1>5

\* The loop of a step becomes r; the others, and what waits, are as they were.
LEMMA LoopChanges ==
  ASSUME ConsentInv, AnswerInv, NEW l \in Loops, NEW r, LoopOk(tool', r),
         loops' = [loops EXCEPT ![l] = r], Extends(tool', tool),
         PendingOk(tool', pendingCall')
  PROVE  AnswerInv'
<1>1. \A k \in Loops : LoopOk(tool', loops'[k])
  <2> SUFFICES ASSUME NEW k \in Loops
               PROVE  LoopOk(tool', loops'[k])
    OBVIOUS
  <2>1. CASE k = l
    BY <2>1 DEF ConsentInv, Types
  <2>2. CASE k # l
    <3>1. loops'[k] = loops[k] /\ loops[k] \in LoopStates
      BY <2>2 DEF ConsentInv, Types
    <3>2. LoopOk(tool, loops[k])
      BY DEF AnswerInv
    <3> QED
      BY <3>1, <3>2, LoopStaysOk
  <2> QED
    BY <2>1, <2>2
<1> QED
  BY <1>1 DEF AnswerInv

\* What a step starts from, at one loop.
LEMMA LoopBefore ==
  ASSUME ConsentInv, AnswerInv, NEW l \in Loops
  PROVE  /\ loops[l] \in LoopStates /\ loops[l].messages \in Seq(Messages)
         /\ loops[l].left \in Seq(Calls)
         /\ LoopOk(tool, loops[l]) /\ PendingOk(tool, pendingCall)
         /\ pendingCall.messages \in Seq(Messages)
         /\ DOMAIN tool = 1..Len(tool) /\ Extends(tool, tool)
<1>1. loops[l] \in LoopStates /\ tool \in Seq(Tools)
  BY DEF ConsentInv, Types
<1>2. pendingCall.messages \in Seq(Messages)
  BY DEF ConsentInv, Types
<1> QED
  BY <1>1, <1>2 DEF LoopStates, AnswerInv, Extends

LEMMA TurnOk ==
  ASSUME NEW t, NEW h \in Seq(Messages), Made(t, h), Full(t, h), NEW n
  PROVE  LoopOk(t, Turn(h, n))
<1>1. Turn(h, n).messages = h /\ Turn(h, n).pc = "turn"
  BY DEF Turn, Ended
<1> QED
  BY <1>1 DEF LoopOk, UserDecisions

\* A loop that ends, or begins a turn with a complete history.
LEMMA LoopEndsAnswered ==
  ASSUME ConsentInv, AnswerInv, NEW l \in Loops, NEW r, LoopOk(tool, r),
         loops' = [loops EXCEPT ![l] = r], UNCHANGED <<pendingCall, tool>>
  PROVE  AnswerInv'
<1>1. Extends(tool', tool) /\ PendingOk(tool', pendingCall') /\ LoopOk(tool', r)
  BY LoopBefore
<1> QED
  BY <1>1, LoopChanges

LEMMA ModelCallsAnswered ==
  ASSUME ConsentInv, AnswerInv, NEW l \in Loops, ModelCalls(l)
  PROVE  AnswerInv'
<1>1. PICK n \in 1..2 :
        LET ids == [i \in 1..n |-> Len(tool) + i] IN
        /\ Len(tool) + n <= MaxCalls
        /\ \E ts \in [1..n -> Tools] : tool' = tool \o ts
        /\ loops' = [loops EXCEPT ![l].pc = "calls", ![l].left = ids,
                                  ![l].messages = Append(@, Request(ids))]
  BY DEF ModelCalls
<1>2. PICK ids : ids = [i \in 1..n |-> Len(tool) + i]
  OBVIOUS
<1>3. PICK ts \in [1..n -> Tools] : tool' = tool \o ts
  BY <1>1
<1>4. PICK r : r = [loops[l] EXCEPT !.pc = "calls", !.left = ids,
                                    !.messages = Append(@, Request(ids))]
  OBVIOUS
<1>5. loops' = [loops EXCEPT ![l] = r]
  BY <1>1, <1>2, <1>4 DEF ConsentInv, Types
<1>6. /\ Len(tool) \in Nat /\ MaxCalls \in Nat /\ Len(tool) + n <= MaxCalls
      /\ tool \in Seq(Tools) /\ DOMAIN tool = 1..Len(tool)
  <2>1. tool \in Seq(Tools)
    BY DEF ConsentInv, Types
  <2>2. Len(tool) + n <= MaxCalls
    BY <1>1
  <2> QED
    BY <2>1, <2>2, CallsCounted
<1>7. ts \in Seq(Tools) /\ Len(ts) = n
  OBVIOUS
<1>8. /\ DOMAIN tool' = 1..(Len(tool) + n)
      /\ \A i \in 1..Len(tool) : tool'[i] = tool[i]
  BY <1>3, <1>6, <1>7
<1>9. Extends(tool', tool)
  BY <1>6, <1>8 DEF Extends
<1>10. /\ ids \in Seq(Calls)
       /\ \A k \in DOMAIN ids : ids[k] > Len(tool) /\ ids[k] \in DOMAIN tool'
  <2>1. \A k \in 1..n : /\ Len(tool) + k \in 1..MaxCalls
                        /\ Len(tool) + k > Len(tool)
                        /\ Len(tool) + k \in 1..(Len(tool) + n)
    BY <1>6
  <2> QED
    BY <1>2, <1>8, <2>1 DEF Calls
<1>11. PICK h : h = loops[l].messages
  OBVIOUS
<1>12. h \in Seq(Messages) /\ Made(tool, h) /\ Full(tool, h)
  BY <1>11, LoopBefore DEF LoopOk, ModelCalls
<1>13. PICK g : g = Append(h, Request(ids))
  OBVIOUS
<1>14. Made(tool', g) /\ Open(tool', g, ids)
  BY <1>6, <1>9, <1>10, <1>12, <1>13, AsksAnew
<1>15. r.pc = "calls" /\ r.left = ids /\ r.messages = g
  BY <1>4, <1>11, <1>13, LoopBefore DEF LoopStates
<1>16. LoopOk(tool', r)
  BY <1>14, <1>15 DEF LoopOk, UserDecisions
<1>17. PendingOk(tool', pendingCall')
  BY <1>9, LoopBefore, PendingStaysOk DEF ModelCalls
<1> QED
  BY <1>5, <1>9, <1>16, <1>17, LoopChanges

\* A call that ran, or that was skipped, has its result.
LEMMA AddResultAnswered ==
  ASSUME ConsentInv, AnswerInv, NEW l \in Loops, loops[l].pc = "calls", loops[l].left # <<>>,
         AddResult(l, Head(loops[l].left)), UNCHANGED <<pendingCall, tool>>
  PROVE  AnswerInv'
<1>1. PICK c : c = Head(loops[l].left)
  OBVIOUS
<1>2. c \in Calls /\ c \in DOMAIN tool
  <2>1. Waits(c, "none") /\ c \in Calls
    BY <1>1, FrontAnswered
  <2> QED
    BY <2>1, LoopBefore DEF Waits
<1>3. PICK h : h = loops[l].messages
  OBVIOUS
<1>4. PICK rest : rest = loops[l].left
  OBVIOUS
<1>5. PICK g : g = Append(h, Result(c))
  OBVIOUS
<1>6. h \in Seq(Messages) /\ rest \in Seq(Calls) /\ Made(tool, h) /\ Open(tool, h, rest)
  BY <1>3, <1>4, LoopBefore DEF LoopOk
<1>7. Made(tool, g) /\ Open(tool, g, Tail(rest))
  BY <1>1, <1>2, <1>4, <1>5, <1>6, GetsResult, ResultMade
<1>8. PICK r : r = [loops[l] EXCEPT !.left = Tail(@), !.messages = Append(@, Result(c))]
  OBVIOUS
<1>9. loops' = [loops EXCEPT ![l] = r]
  BY <1>1, <1>8 DEF AddResult, ConsentInv, Types
<1>10. r.pc = "calls" /\ r.left = Tail(rest) /\ r.messages = g
  BY <1>3, <1>4, <1>5, <1>8, LoopBefore DEF LoopStates
<1>11. LoopOk(tool, r)
  BY <1>7, <1>10 DEF LoopOk, UserDecisions
<1> QED
  BY <1>9, <1>11, LoopEndsAnswered

\* The copy lacks the result of the call that waits; so does the loop, which
\* goes on with the rest of its turn.
LEMMA SuspendAnswered ==
  ASSUME ConsentInv, AnswerInv, NEW l \in Loops, Suspend(l)
  PROVE  AnswerInv'
<1>1. PICK h : h = loops[l].messages
  OBVIOUS
<1>2. PICK rest : rest = loops[l].left
  OBVIOUS
<1>3. PICK c : c = Head(rest)
  OBVIOUS
<1>4. /\ loops[l].pc = "calls" /\ rest # <<>> /\ tool' = tool
      /\ tool[c] # "plain"
      /\ pendingCall' = [id |-> c, messages |-> h]
  BY <1>1, <1>2, <1>3 DEF Suspend, AutoRun
<1>5. c \in DOMAIN tool /\ tool \in Seq(Tools)
  <2>1. Waits(c, "none")
    BY <1>2, <1>3, <1>4, FrontAnswered
  <2> QED
    BY <2>1 DEF Waits, ConsentInv, Types
<1>6. tool[c] = "asks"
  BY <1>4, <1>5 DEF Tools
<1>7. h \in Seq(Messages) /\ rest \in Seq(Calls) /\ Made(tool, h) /\ Open(tool, h, rest)
  BY <1>1, <1>2, <1>4, LoopBefore DEF LoopOk
<1>8. Open(tool, h, <<c>>) /\ (Tail(rest) # <<>> => Open(tool, h, Tail(rest)))
  BY <1>3, <1>4, <1>6, <1>7, AsksAlone
<1>9. PendingOk(tool', pendingCall')
  BY <1>4, <1>7, <1>8 DEF PendingOk
<1>10. PICK r : r = [loops[l] EXCEPT !.left = Tail(@), !.suspended = TRUE]
  OBVIOUS
<1>11. loops' = [loops EXCEPT ![l] = r]
  BY <1>10 DEF Suspend, ConsentInv, Types
<1>12. r.pc = "calls" /\ r.suspended /\ r.left = Tail(rest) /\ r.messages = h
  BY <1>1, <1>2, <1>4, <1>10, LoopBefore DEF LoopStates
<1>13. LoopOk(tool', r)
  BY <1>4, <1>7, <1>8, <1>12 DEF LoopOk, UserDecisions
<1>14. Extends(tool', tool)
  BY <1>4, LoopBefore
<1> QED
  BY <1>9, <1>11, <1>13, <1>14, LoopChanges

LEMMA EndTurnAnswered ==
  ASSUME ConsentInv, AnswerInv, NEW l \in Loops, EndTurn(l)
  PROVE  AnswerInv'
<1>1. PICK r : r = IF loops[l].suspended THEN Ended ELSE NextTurn(loops[l])
  OBVIOUS
<1>2. loops' = [loops EXCEPT ![l] = r] /\ UNCHANGED <<pendingCall, tool>>
  BY <1>1 DEF EndTurn, ConsentInv, Types
<1>3. LoopOk(tool, r)
  <2>1. CASE loops[l].suspended
    BY <1>1, <2>1, EndedOk
  <2>2. CASE ~loops[l].suspended
    <3>1. Made(tool, loops[l].messages) /\ Open(tool, loops[l].messages, <<>>)
      BY <2>2, LoopBefore DEF LoopOk, EndTurn
    <3>2. Full(tool, loops[l].messages)
      BY <3>1, LoopBefore, AllAnswered
    <3> QED
      BY <1>1, <2>2, <3>1, <3>2, LoopBefore, TurnOk DEF NextTurn
  <2> QED
    BY <2>1, <2>2
<1> QED
  BY <1>2, <1>3, LoopEndsAnswered

LEMMA ConfirmToolAnswered ==
  ASSUME ConsentInv, AnswerInv, NEW l \in Loops, NEW c \in Calls, NEW d \in UserDecisions,
         ConfirmTool(l, c, d)
  PROVE  AnswerInv'
<1>1. PICK r : r = [Ended EXCEPT !.pc = d, !.left = <<c>>, !.messages = pendingCall.messages]
  OBVIOUS
<1>2. /\ loops' = [loops EXCEPT ![l] = r] /\ tool' = tool
      /\ pendingCall.id = c /\ pendingCall' = NoPending /\ c # 0
  BY <1>1 DEF ConfirmTool, Calls
<1>3. r.pc = d /\ r.left = <<c>> /\ r.messages = pendingCall.messages
  BY <1>1 DEF Ended
<1>4. Made(tool, pendingCall.messages) /\ Open(tool, pendingCall.messages, <<c>>)
  BY <1>2, LoopBefore DEF PendingOk
<1>5. LoopOk(tool', r)
  BY <1>2, <1>3, <1>4 DEF LoopOk, UserDecisions
<1> QED
  BY <1>2, <1>5, NoPendingOk, LoopBefore, LoopChanges

LEMMA ResumeAnswered ==
  ASSUME ConsentInv, AnswerInv, NEW l \in Loops, ResumeAfterDecision(l)
  PROVE  AnswerInv'
<1>1. PICK h : h = loops[l].messages
  OBVIOUS
<1>2. PICK rest : rest = loops[l].left
  OBVIOUS
<1>3. PICK c : c = Head(rest)
  OBVIOUS
<1>4. PICK g : g = Append(h, Result(c))
  OBVIOUS
<1>5. PICK r : r = IF loops[l].pc = "cancel" THEN Ended ELSE Turn(g, 0)
  OBVIOUS
<1>6. /\ loops' = [loops EXCEPT ![l] = r] /\ loops[l].pc \in UserDecisions
      /\ UNCHANGED <<pendingCall, tool>>
  BY <1>1, <1>2, <1>3, <1>4, <1>5 DEF ResumeAfterDecision, ConsentInv, Types
<1>7. h \in Seq(Messages) /\ rest \in Seq(Calls) /\ Made(tool, h) /\ Open(tool, h, rest)
  BY <1>1, <1>2, <1>6, LoopBefore DEF LoopOk
<1>8. rest # <<>> /\ Tail(rest) = <<>> /\ c = rest[1] /\ Len(rest) = 1 /\ c \in Calls
  <2>1. Len(rest) = 1
    BY <1>2, <1>6 DEF ConsentInv, LeftFits
  <2>2. rest # <<>> /\ c = rest[1] /\ c \in Calls
    BY <1>3, <1>7, <2>1
  <2>3. Tail(rest) = <<>>
    <3>1. rest = <<rest[1]>>
      BY <1>7, <2>1
    <3>2. Tail(<<c>>) = <<>>
      OBVIOUS
    <3> QED
      BY <2>2, <3>1, <3>2
  <2> QED
    BY <2>1, <2>2, <2>3
<1>9. c \in DOMAIN tool
  <2>1. Waits(c, Said(loops[l]))
    BY <1>2, <1>8 DEF ConsentInv
  <2> QED
    BY <2>1, LoopBefore DEF Waits
<1>10. Made(tool, g) /\ Open(tool, g, <<>>)
  BY <1>3, <1>4, <1>7, <1>8, <1>9, GetsResult, ResultMade
<1>11. g \in Seq(Messages)
  BY <1>4, <1>7, <1>8, ResultFacts
<1>12. LoopOk(tool, r)
  BY <1>5, <1>10, <1>11, EndedOk, TurnOk, AllAnswered
<1> QED
  BY <1>6, <1>12, LoopEndsAnswered

LEMMA StepAnswers == ConsentInv /\ AnswerInv /\ [AgentNext]_agentVars => AnswerInv'
<1> SUFFICES ASSUME ConsentInv, AnswerInv, [AgentNext]_agentVars
             PROVE  AnswerInv'
  OBVIOUS
<1>1. ASSUME UNCHANGED <<loops, pendingCall, tool>>
      PROVE  AnswerInv'
  BY <1>1 DEF AnswerInv
<1>2. ASSUME NEW l \in Loops, ChatMode(l), UNCHANGED <<pendingCall, tool>>
      PROVE  AnswerInv'
  <2>1. LoopOk(tool, Turn(<<>>, 0))
    <3>1. <<>> \in Seq(Messages)
      OBVIOUS
    <3> QED
      BY <3>1, EmptyHistory, TurnOk
  <2> QED
    BY <1>2, <2>1, LoopEndsAnswered DEF ChatMode
<1>3. ASSUME NEW l \in Loops, Chat(l) \/ SendQueued(l)
      PROVE  AnswerInv'
  BY <1>2, <1>3 DEF Chat, SendQueued
<1>4. ASSUME NEW l \in Loops, TooManyTurns(l) \/ LastAnswer(l)
      PROVE  AnswerInv'
  BY <1>4, EndedOk, LoopEndsAnswered DEF TooManyTurns, LastAnswer
<1>5. ASSUME NEW l \in Loops, RunTool(l) \/ SkipTool(l)
      PROVE  AnswerInv'
  BY <1>5, AddResultAnswered DEF RunTool, SkipTool
<1>6. CASE UNCHANGED agentVars
  BY <1>1, <1>6 DEF agentVars
<1>7. CASE ChatRefused \/ Enqueue \/ QueuedRefused \/ LookAgain
  BY <1>1, <1>7 DEF ChatRefused, Enqueue, QueuedRefused, LookAgain
<1> QED
  BY <1>3, <1>4, <1>5, <1>6, <1>7, ModelCallsAnswered, SuspendAnswered, EndTurnAnswered,
     ConfirmToolAnswered, ResumeAnswered DEF AgentNext

\* A complete history is one that the model's service accepts.
LEMMA FullIsAnswered ==
  ASSUME ConsentInv, AnswerInv
  PROVE  RequestsAreAnswered
<1> SUFFICES ASSUME NEW l \in Loops, loops[l].pc = "turn",
                    NEW h, h = loops[l].messages,
                    NEW p \in DOMAIN h, h[p].role = "assistant", ~Torn(h[p].ids)
             PROVE  /\ p + Len(h[p].ids) <= Len(h)
                    /\ \A k \in DOMAIN h[p].ids : h[p + k] = Result(h[p].ids[k])
                    /\ \A q \in (p + Len(h[p].ids) + 1)..Len(h) :
                         h[q].role = "tool" => ToSet(h[q].ids) \cap ToSet(h[p].ids) = {}
  BY DEF RequestsAreAnswered
<1>1. Full(tool, h)
  BY LoopBefore DEF LoopOk
<1>2. ~Split(tool, h[p].ids)
  BY DEF Split, Torn, ToSet
<1>3. Answered(h, p)
  BY <1>1, <1>2 DEF Full, Owed
<1> QED
  BY <1>3 DEF Answered, ToSet

\* Whatever the model calls, whatever runs, waits, is declined or is torn from
\* its turn, a turn of the model starts from a history in which every request
\* has its results.
THEOREM RequestsAnswered == AgentSpec => []RequestsAreAnswered
<1>1. AgentInit => ConsentInv /\ AnswerInv
  BY InitConsent, InitAnswers
<1>2. ConsentInv /\ AnswerInv /\ [AgentNext]_agentVars => (ConsentInv /\ AnswerInv)'
  BY StepConsent, StepAnswers
<1>3. ConsentInv /\ AnswerInv => RequestsAreAnswered
  BY FullIsAnswered
<1> QED
  BY <1>1, <1>2, <1>3, PTL DEF AgentSpec
===============================================================================
