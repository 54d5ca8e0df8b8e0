----------------------- MODULE PairingAndLimitsProofs -----------------------
(***************************************************************************)
(* The proofs of what stands before a call to a device: pairing, for any   *)
(* devices, requests, tickets and restarts, and the limits, for any        *)
(* requests and bounds.                                                    *)
(*                                                                         *)
(* A ticket is pending, or one request has taken it and waits for the      *)
(* decision, or it has given its pairing, or it is gone; and a ticket that *)
(* is yet to be issued is none of these.  What a request saved, and what   *)
(* the files hold, is what was the case, or older than that, and then it   *)
(* is known to be stale.                                                   *)
(*                                                                         *)
(* A window holds what it let through until a later request has come, and  *)
(* once it is over only requests that read the clock before can enter it.  *)
(***************************************************************************)
EXTENDS PairingHub, PeerLimits, FiniteSetTheorems, TLAPS

\* Between redeem and the decision, saving the tickets included.
Waiting(r) == rpc[r] = "accepting" \/ then[r] = "accepting"

TicketCopies == [pending : SUBSET Nat, used : SUBSET Nat]

Types ==
  /\ issued \in Nat
  /\ used \subseteq Nat
  /\ rpc \in [Requests -> RequestPCs]
  /\ then \in [Requests -> {"idle", "issuing", "accepting"}]
  /\ asked \in [Requests -> [ticket : Nat, device : Devices \cup {NoDevice}]]
  /\ copyT \in [Requests -> TicketCopies]
  /\ ticketFile \in TicketCopies
  /\ wins \in [Tickets -> Nat]

\* What is saved and what is pending was issued.
WereIssued ==
  /\ pending \subseteq 1..issued
  /\ ticketFile.pending \subseteq 1..issued
  /\ \A r \in Requests : copyT[r].pending \subseteq 1..issued
  /\ \A r \in Requests : Waiting(r) => asked[r].ticket \in 1..issued

\* Who is to decide later saves the tickets now.
SavesFirst ==
  \A r \in Requests : then[r] = "accepting" => rpc[r] \in {"copying tickets", "writing tickets"}

\* Whoever waits has the ticket to itself.
HoldsAlone ==
  \A r \in Requests : Waiting(r) =>
    /\ asked[r].ticket \notin pending
    /\ \A q \in Requests : Waiting(q) /\ q # r => asked[q].ticket # asked[r].ticket

\* A ticket that has given a pairing was issued, is not pending, and nobody
\* waits with it.
WinsOnce ==
  \A t \in Tickets : wins[t] # 0 =>
    /\ wins[t] = 1
    /\ t \in 1..issued
    /\ t \notin pending
    /\ \A r \in Requests : Waiting(r) => asked[r].ticket # t

TicketInv == Types /\ WereIssued /\ SavesFirst /\ HoldsAlone /\ WinsOnce

-----------------------------------------------------------------------------
LEMMA HubInitInv == HubInit => TicketInv
  BY HubAssumption DEF HubInit, TicketInv, Types, WereIssued, SavesFirst, HoldsAlone, WinsOnce, Waiting,
     TicketCopies, RequestPCs, NoAsk, NoCopyT, NoTicket, Tickets

\* A step that neither moves tickets nor lets a request begin to wait.
Quiet ==
  /\ UNCHANGED <<issued, ticketFile, wins>>
  /\ pending' \subseteq pending
  /\ \A r \in Requests : Waiting(r)' => Waiting(r) /\ asked'[r] = asked[r]

LEMMA QuietKeeps ==
  ASSUME TicketInv, Quiet, Types', SavesFirst',
         \A r \in Requests : copyT'[r].pending \subseteq 1..issued
  PROVE  TicketInv'
<1>1. WereIssued'
  BY DEF TicketInv, Quiet, WereIssued
<1>2. HoldsAlone'
  BY DEF TicketInv, Quiet, HoldsAlone
<1>3. WinsOnce'
  BY DEF TicketInv, Quiet, WinsOnce
<1> QED
  BY <1>1, <1>2, <1>3 DEF TicketInv

LEMMA IssuedAreNat == TicketInv => 1..issued \subseteq Nat /\ pending \subseteq Nat /\ used \subseteq Nat
<1> SUFFICES ASSUME TicketInv PROVE 1..issued \subseteq Nat /\ pending \subseteq Nat /\ used \subseteq Nat
  OBVIOUS
<1>1. 1..issued \subseteq Nat
  BY DEF TicketInv, Types
<1>2. pending \subseteq 1..issued /\ used \subseteq Nat
  BY DEF TicketInv, Types, WereIssued
<1> QED
  BY <1>1, <1>2

-----------------------------------------------------------------------------
(* Saving.                                                                 *)

LEMMA CopyTicketsInv == ASSUME TicketInv, NEW r \in Requests, CopyTickets(r) PROVE TicketInv'
<1> USE DEF CopyTickets, Asks, hubMemory, hubFiles, hubBounds
<1>1. Types'
  <2>1. pending \subseteq Nat /\ used \subseteq Nat
    BY IssuedAreNat
  <2>2. [pending |-> pending, used |-> used] \in TicketCopies
    BY <2>1 DEF TicketCopies
  <2> QED
    BY <2>2 DEF TicketInv, Types, RequestPCs
<1>2. SavesFirst'
  BY DEF TicketInv, Types, SavesFirst
<1>3. Quiet
  BY DEF TicketInv, Types, Quiet, Waiting
<1>4. \A q \in Requests : copyT'[q].pending \subseteq 1..issued
  BY DEF TicketInv, Types, WereIssued
<1> QED
  BY <1>1, <1>2, <1>3, <1>4, QuietKeeps

LEMMA WriteTicketsInv == ASSUME TicketInv, NEW r \in Requests, WriteTickets(r) PROVE TicketInv'
<1> USE DEF WriteTickets, Asks, hubMemory, hubBounds
<1>1. Types'
  <2>1. NoCopyT \in TicketCopies
    BY DEF TicketCopies, NoCopyT
  <2>2. ticketFile' \in TicketCopies /\ copyT' \in [Requests -> TicketCopies]
    BY <2>1 DEF TicketInv, Types
  <2>3. rpc' \in [Requests -> RequestPCs] /\ then' \in [Requests -> {"idle", "issuing", "accepting"}]
    BY DEF TicketInv, Types, RequestPCs
  <2> QED
    BY <2>2, <2>3 DEF TicketInv, Types
<1>2. SavesFirst'
  BY DEF TicketInv, Types, SavesFirst
<1>3. \A q \in Requests : Waiting(q)' => Waiting(q) /\ asked'[q] = asked[q]
  BY DEF TicketInv, Types, Waiting
<1>4. \A q \in Requests : copyT'[q].pending \subseteq 1..issued
  BY DEF TicketInv, Types, WereIssued, NoCopyT
<1>5. ticketFile'.pending \subseteq 1..issued
  BY DEF TicketInv, WereIssued
<1>6. WereIssued'
  BY <1>3, <1>4, <1>5 DEF TicketInv, WereIssued
<1>7. HoldsAlone'
  BY <1>3 DEF TicketInv, HoldsAlone
<1>8. WinsOnce'
  BY <1>3 DEF TicketInv, WinsOnce
<1> QED
  BY <1>1, <1>2, <1>6, <1>7, <1>8 DEF TicketInv

\* What moves no ticket: a request among the steps that save the peers, or
\* one that ends.
LEMMA AsideInv ==
  ASSUME TicketInv, NEW r \in Requests, NEW pc \in {"idle", "copying peers", "writing peers"},
         rpc' = [rpc EXCEPT ![r] = pc],
         asked' = asked \/ asked' = [asked EXCEPT ![r] = NoAsk],
         rpc[r] \notin {"copying tickets", "writing tickets"},
         UNCHANGED <<issued, used, pending, ticketFile, copyT, then, wins>>
  PROVE  TicketInv'
<1>1. Types'
  <2>1. NoAsk \in [ticket : Nat, device : Devices \cup {NoDevice}]
    BY DEF NoAsk, NoTicket
  <2>2. rpc' \in [Requests -> RequestPCs]
    BY DEF TicketInv, Types, RequestPCs
  <2>3. asked' \in [Requests -> [ticket : Nat, device : Devices \cup {NoDevice}]]
    BY <2>1 DEF TicketInv, Types
  <2> QED
    BY <2>2, <2>3 DEF TicketInv, Types
<1>2. SavesFirst'
  BY DEF TicketInv, Types, SavesFirst
<1>3. \A q \in Requests : Waiting(q)' => Waiting(q) /\ asked'[q] = asked[q]
  BY DEF TicketInv, Types, SavesFirst, Waiting
<1>4. Quiet
  BY <1>3 DEF Quiet
<1>5. \A q \in Requests : copyT'[q].pending \subseteq 1..issued
  BY DEF TicketInv, WereIssued
<1> QED
  BY <1>1, <1>2, <1>4, <1>5, QuietKeeps

LEMMA PeersInv ==
  ASSUME TicketInv, NEW r \in Requests, CopyPeers(r) \/ WritePeers(r) \/ Unpair(r) \/ Reject(r)
  PROVE  TicketInv'
<1> USE DEF Asks, hubMemory, hubFiles, hubBounds, hubHistory
<1>1. CASE CopyPeers(r)
  BY <1>1, AsideInv DEF CopyPeers
<1>2. CASE WritePeers(r)
  BY <1>2, AsideInv DEF WritePeers
<1>3. CASE Unpair(r)
  BY <1>3, AsideInv DEF Unpair
<1>4. CASE Reject(r)
  BY <1>4, AsideInv DEF Reject
<1> QED
  BY <1>1, <1>2, <1>3, <1>4

-----------------------------------------------------------------------------
(* Issuing.                                                                *)

LEMMA CreateTicketInv == ASSUME TicketInv, NEW r \in Requests, CreateTicket(r) PROVE TicketInv'
<1> USE DEF CreateTicket, SavesTickets, Asks, hubFiles, hubBounds, hubHistory
<1>1. Types'
  BY DEF TicketInv, Types, RequestPCs
<1>2. SavesFirst'
  BY DEF TicketInv, Types, SavesFirst
<1>3. Quiet
  BY DEF TicketInv, Types, Quiet, Waiting
<1>4. \A q \in Requests : copyT'[q].pending \subseteq 1..issued
  BY DEF TicketInv, WereIssued
<1> QED
  BY <1>1, <1>2, <1>3, <1>4, QuietKeeps

\* The number of a new ticket is nobody's.
LEMMA IssueInv == ASSUME TicketInv, NEW r \in Requests, Issue(r) PROVE TicketInv'
<1> USE DEF Issue, SavesTickets, Asks, hubFiles, hubHistory
<1>0. issued' = issued + 1 /\ issued \in Nat
  BY DEF TicketInv, Types
<1>1. Types'
  <2>1. rpc' \in [Requests -> RequestPCs] /\ then' \in [Requests -> {"idle", "issuing", "accepting"}]
    BY DEF TicketInv, Types, RequestPCs
  <2>2. UNCHANGED <<used, asked, copyT, ticketFile, wins>>
    OBVIOUS
  <2> HIDE DEF Issue
  <2>3. issued' \in Nat
    BY <1>0
  <2> QED
    BY <2>1, <2>2, <2>3 DEF TicketInv, Types
<1>2. SavesFirst'
  BY DEF TicketInv, Types, SavesFirst
<1>3. \A q \in Requests : Waiting(q)' => Waiting(q) /\ asked'[q] = asked[q]
  BY DEF TicketInv, Types, Waiting
<1>4. 1..issued \subseteq 1..issued' /\ issued' \in 1..issued' /\ issued' \notin 1..issued
  <2> HIDE DEF Issue
  <2>1. \A n \in Nat : 1..n \subseteq 1..(n + 1) /\ n + 1 \in 1..(n + 1) /\ n + 1 \notin 1..n
    OBVIOUS
  <2> QED
    BY <1>0, <2>1
<1>5. WereIssued'
  BY <1>3, <1>4 DEF TicketInv, WereIssued
<1>6. HoldsAlone'
  BY <1>3, <1>4 DEF TicketInv, HoldsAlone, WereIssued
<1>7. WinsOnce'
  BY <1>3, <1>4 DEF TicketInv, WinsOnce
<1> QED
  BY <1>1, <1>2, <1>5, <1>6, <1>7 DEF TicketInv

-----------------------------------------------------------------------------
(* Pairing.                                                                *)

LEMMA RedeemInv == ASSUME TicketInv, NEW r \in Requests, Redeem(r) PROVE TicketInv'
<1>1. PICK t \in pending, d \in Devices :
        /\ pending' = pending \ {t}
        /\ used' = used \cup {t}
        /\ asked' = [asked EXCEPT ![r] = [ticket |-> t, device |-> d]]
  BY DEF Redeem
<1> USE DEF SavesTickets, Asks, hubFiles, hubBounds, saveHistory
<1>2. /\ rpc' = [rpc EXCEPT ![r] = "copying tickets"] /\ rpc[r] = "idle"
      /\ then' = [then EXCEPT ![r] = "accepting"]
      /\ UNCHANGED <<issued, ticketFile, copyT, wins>>
  BY DEF Redeem
<1>3. t \in 1..issued /\ t \in Nat
  <2>1. t \in 1..issued /\ issued \in Nat
    BY <1>1 DEF TicketInv, Types, WereIssued
  <2> QED
    BY <2>1
<1>4. Types'
  BY <1>1, <1>2, <1>3 DEF TicketInv, Types, RequestPCs
<1>5. SavesFirst'
  BY <1>2 DEF TicketInv, Types, SavesFirst
<1>6. /\ asked'[r].ticket = t
      /\ \A q \in Requests : q # r /\ Waiting(q)' => Waiting(q) /\ asked'[q] = asked[q]
  BY <1>1, <1>2 DEF TicketInv, Types, Waiting
<1>7. WereIssued'
  BY <1>1, <1>2, <1>3, <1>6 DEF TicketInv, WereIssued
<1>8. HoldsAlone'
  BY <1>1, <1>6 DEF TicketInv, HoldsAlone
<1>9. WinsOnce'
  <2> SUFFICES ASSUME NEW u \in Tickets, wins[u] # 0
               PROVE  /\ wins[u] = 1
                      /\ u \in 1..issued
                      /\ u \notin pending'
                      /\ \A q \in Requests : Waiting(q)' => asked'[q].ticket # u
    BY <1>2 DEF WinsOnce
  <2>1. u \notin pending /\ u # t
    BY DEF TicketInv, WinsOnce
  <2>2. \A q \in Requests : Waiting(q)' => asked'[q].ticket # u
    BY <1>6, <2>1 DEF TicketInv, WinsOnce
  <2> QED
    BY <1>1, <2>1, <2>2 DEF TicketInv, WinsOnce
<1> QED
  BY <1>4, <1>5, <1>7, <1>8, <1>9 DEF TicketInv

LEMMA AcceptInv == ASSUME TicketInv, NEW r \in Requests, Accept(r) PROVE TicketInv'
<1> DEFINE t == asked[r].ticket
<1>1. /\ rpc' = [rpc EXCEPT ![r] = "copying peers"] /\ rpc[r] = "accepting"
      /\ wins' = [wins EXCEPT ![t] = @ + 1]
      /\ UNCHANGED <<issued, pending, used, ticketFile, then, asked, copyT>>
  BY DEF Accept, Asks, hubFiles, saveHistory
<1>2. Waiting(r) /\ then[r] # "accepting"
  BY <1>1 DEF Waiting, TicketInv, SavesFirst
<1>3. Types'
  <2>1. wins' \in [Tickets -> Nat]
    <3>1. CASE t \in Tickets
      <4>1. wins \in [Tickets -> Nat] /\ wins[t] + 1 \in Nat
        BY <3>1 DEF TicketInv, Types
      <4> HIDE DEF t
      <4> QED
        BY <1>1, <4>1
    <3>2. CASE t \notin Tickets
      BY <1>1, <3>2 DEF TicketInv, Types
    <3> QED
      BY <3>1, <3>2
  <2>2. rpc' \in [Requests -> RequestPCs]
    BY <1>1 DEF TicketInv, Types, RequestPCs
  <2> QED
    BY <1>1, <2>1, <2>2 DEF TicketInv, Types
<1>4. SavesFirst'
  BY <1>1, <1>2 DEF TicketInv, Types, SavesFirst
<1>5. \A q \in Requests : Waiting(q)' => q # r /\ Waiting(q)
  BY <1>1, <1>2 DEF TicketInv, Types, Waiting
<1>6. WereIssued'
  BY <1>1, <1>5 DEF TicketInv, WereIssued
<1>7. HoldsAlone'
  BY <1>1, <1>5 DEF TicketInv, HoldsAlone
<1>8. WinsOnce'
  <2> SUFFICES ASSUME NEW u \in Tickets, wins'[u] # 0
               PROVE  /\ wins'[u] = 1
                      /\ u \in 1..issued
                      /\ u \notin pending
                      /\ \A q \in Requests : Waiting(q)' => asked[q].ticket # u
    BY <1>1 DEF WinsOnce
  <2>1. CASE u = t
    <3>1. t \in 1..issued /\ t \notin pending
      BY <1>2 DEF TicketInv, WereIssued, HoldsAlone
    <3>2. wins[t] = 0
      BY <1>2, <2>1 DEF TicketInv, WinsOnce
    <3>3. \A q \in Requests : Waiting(q)' => asked[q].ticket # t
      BY <1>2, <1>5 DEF TicketInv, HoldsAlone
    <3>4. wins'[u] = 1
      <4>1. wins \in [Tickets -> Nat] /\ t \in Tickets
        BY <2>1 DEF TicketInv, Types
      <4>2. wins'[u] = wins[t] + 1
        BY <1>1, <2>1, <4>1
      <4> QED
        BY <3>2, <4>2
    <3> QED
      BY <2>1, <3>1, <3>3, <3>4
  <2>2. CASE u # t
    BY <1>1, <1>5, <2>2 DEF TicketInv, Types, WinsOnce
  <2> QED
    BY <2>1, <2>2
<1> QED
  BY <1>3, <1>4, <1>6, <1>7, <1>8 DEF TicketInv

-----------------------------------------------------------------------------
(* Heartbeats, time and restarts.                                          *)

LEMMA SweepsInv == ASSUME TicketInv, HeartbeatSweeps \/ Expire \/ UNCHANGED hubVars PROVE TicketInv'
<1>1. /\ UNCHANGED <<issued, ticketFile, wins, rpc, then, asked, copyT>>
      /\ pending' \subseteq pending /\ used' \subseteq used
  BY DEF HeartbeatSweeps, Expire, hubVars, hubMemory, hubFiles, hubRequests, hubBounds, hubHistory, saveHistory
<1>2. Types' /\ SavesFirst'
  BY <1>1 DEF TicketInv, Types, SavesFirst
<1>3. Quiet
  BY <1>1 DEF Quiet, Waiting
<1>4. \A q \in Requests : copyT'[q].pending \subseteq 1..issued
  BY <1>1 DEF TicketInv, WereIssued
<1> QED
  BY <1>2, <1>3, <1>4, QuietKeeps

LEMMA RebootInv == ASSUME TicketInv, Reboot PROVE TicketInv'
<1> USE DEF Reboot, RestoredTickets, hubFiles
<1>1. \A r \in Requests : ~Waiting(r)'
  BY DEF Waiting
<1>2. ticketFile.pending \subseteq 1..issued /\ ticketFile.used \subseteq Nat
  BY DEF TicketInv, Types, WereIssued, TicketCopies
<1>3. Types'
  <2>1. NoCopyT \in TicketCopies /\ NoAsk \in [ticket : Nat, device : Devices \cup {NoDevice}]
    BY DEF NoCopyT, TicketCopies, NoAsk, NoTicket
  <2> QED
    BY <1>2, <2>1 DEF TicketInv, Types, RequestPCs
<1>4. WereIssued'
  BY <1>1, <1>2 DEF WereIssued, NoCopyT
<1>5. SavesFirst' /\ HoldsAlone' /\ WinsOnce'
  BY <1>1 DEF SavesFirst, HoldsAlone, WinsOnce
<1> QED
  BY <1>3, <1>4, <1>5 DEF TicketInv

-----------------------------------------------------------------------------
(* What is saved                                                           *)
(*                                                                         *)
(* A copy that misses a change is overtaken: the request that made the     *)
(* change has yet to take its own copy, or holds a newer one.  So the last *)
(* copy that is written, and is not late, misses nothing.                  *)

Copying(f) == IF f = "tickets" THEN "copying tickets" ELSE "copying peers"
Writing(f) == IF f = "tickets" THEN "writing tickets" ELSE "writing peers"

Overtaken(r, f) ==
  \E q \in Requests \ {r} : \/ rpc[q] = Copying(f)
                            \/ rpc[q] = Writing(f) /\ r \in older[q]

\* Tickets that may be redeemed, and peers that may be restored.
Unspent(tickets) == tickets \cap spent = {}
Current(peers) == paired \subseteq DOMAIN peers /\ \A d \in DOMAIN peers : peers[d] \notin revoked
Known(peers) == \A d \in DOMAIN peers : peers[d] \in 1..drawn

SaveTypes ==
  /\ drawn \in Nat
  /\ spent \subseteq 1..issued
  /\ revoked \subseteq 1..drawn /\ DOMAIN sessions \subseteq 1..drawn
  /\ Known(peerFile)
  /\ DOMAIN copyP = Requests /\ \A r \in Requests : Known(copyP[r])
  /\ older \in [Requests -> SUBSET Requests]

TicketsKept ==
  "tickets" \notin lost =>
    /\ Unspent(pending)
    /\ Unspent(ticketFile.pending) \/ "tickets" \in behind \/ Unsaved("tickets") # {}
    /\ \A r \in Requests : rpc[r] = "writing tickets" /\ r \notin late =>
         Unspent(copyT[r].pending) \/ Overtaken(r, "tickets")

PeersKept ==
  "peers" \notin lost =>
    /\ DOMAIN sessions \cap revoked = {} /\ kept \subseteq paired
    /\ Current(peerFile) \/ "peers" \in behind \/ Unsaved("peers") # {}
    /\ \A r \in Requests : rpc[r] = "writing peers" /\ r \notin late =>
         Current(copyP[r]) \/ Overtaken(r, "peers")

SaveInv == TicketInv /\ SaveTypes /\ TicketsKept /\ PeersKept

LEMMA InitSaves == HubInit => SaveTypes /\ TicketsKept /\ PeersKept
<1> SUFFICES ASSUME HubInit
             PROVE  SaveTypes /\ TicketsKept /\ PeersKept
  OBVIOUS
<1>1. DOMAIN NoCopyP = {}
  BY DEF NoCopyP
<1>2. SaveTypes
  BY <1>1 DEF HubInit, SaveTypes, Known
<1>3. TicketsKept
  BY DEF HubInit, TicketsKept, Unspent, NoCopyT
<1>4. PeersKept
  BY <1>1 DEF HubInit, PeersKept, Current
<1> QED
  BY <1>2, <1>3, <1>4

-----------------------------------------------------------------------------
(* Steps and the saves under way                                           *)

\* A step of r that is no save of f leaves the saves of f in their order.
SavesOn(f) ==
  /\ \A q \in Requests : rpc[q] = Copying(f) => rpc'[q] = Copying(f)
  /\ \A q \in Requests : rpc[q] = Writing(f) => rpc'[q] = Writing(f)
  /\ \A q \in Requests : rpc'[q] = Writing(f) => rpc[q] = Writing(f)
  /\ \A q, p \in Requests : rpc[q] = Writing(f) /\ rpc[p] = Writing(f) /\ p \in older[q] => p \in older'[q]
  /\ \A q \in Requests : rpc[q] = Writing(f) /\ q \in late => q \in late'

LEMMA StaysOvertaken ==
  ASSUME NEW f \in Files, SavesOn(f), NEW r \in Requests, rpc[r] = Writing(f), Overtaken(r, f)
  PROVE  Overtaken(r, f)'
  BY DEF SavesOn, Overtaken, Copying, Writing

LEMMA StaysUnsaved ==
  ASSUME NEW f \in Files, SavesOn(f), Unsaved(f) # {}
  PROVE  Unsaved(f)' # {}
  BY DEF SavesOn, Unsaved, Files, Copying, Writing

\* A copy that r takes is newer than those that others hold.
LEMMA CopyOvertakes ==
  ASSUME Types, NEW r \in Requests, NEW f \in Files, Asks(r, Copying(f), Writing(f)), Copied(r, f),
         NEW q \in Requests, q # r, rpc[q] = Writing(f)
  PROVE  Overtaken(q, f)'
<1>1. rpc'[r] = Writing(f) /\ q \in older'[r]
  BY DEF Types, Asks, Copied, Holding, Writing
<1> QED
  BY <1>1 DEF Overtaken

\* Whose copy is written last of those that were overtaken by r is late.
LEMMA WriteOvertakes ==
  ASSUME Types, SaveTypes, NEW r \in Requests, NEW f \in Files, NEW to \in {"idle", "issuing", "accepting"},
         Asks(r, Writing(f), to), NEW ok \in BOOLEAN, Recorded(r, f, ok),
         NEW q \in Requests, q # r, rpc[q] = Writing(f), q \notin late', Overtaken(q, f)
  PROVE  Overtaken(q, f)'
<1>1. PICK p \in Requests \ {q} : rpc[p] = Copying(f) \/ (rpc[p] = Writing(f) /\ q \in older[p])
  BY DEF Overtaken
<1>2. rpc[r] = Writing(f) /\ Copying(f) # Writing(f)
  BY DEF Asks, Copying, Writing
<1>3. p # r
  BY <1>1, <1>2 DEF Recorded
<1>4. rpc'[p] = rpc[p] /\ older'[p] = older[p] \ {r}
  BY <1>3 DEF Types, Asks, Recorded
<1>5. rpc[p] = Writing(f) /\ q \in older[p] => q \in older'[p]
  BY <1>4
<1> QED
  BY <1>1, <1>4, <1>5 DEF Overtaken

\* Saving one file leaves the saves of the other on.
LEMMA OtherSaves ==
  ASSUME Types, SaveTypes, NEW r \in Requests, NEW f \in Files, NEW g \in Files, f # g, NEW to \in RequestPCs,
         \/ Asks(r, Copying(g), Writing(g)) /\ Copied(r, g) /\ late' = late
         \/ /\ Asks(r, Writing(g), to) /\ to \in {"idle", "issuing", "accepting"}
            /\ \E ok \in BOOLEAN : Recorded(r, g, ok)
  PROVE  SavesOn(f)
<1>1. /\ rpc[r] \notin {Copying(f), Writing(f)} /\ rpc'[r] \notin {Copying(f), Writing(f)}
      /\ \A q \in Requests : q # r => rpc'[q] = rpc[q]
  BY DEF Types, Asks, Copying, Writing, Files
<1>2. \A q \in Requests : q # r => older'[q] = older[q] \ {r}
  BY DEF Copied, Recorded
<1>3. \A q \in Requests : q # r /\ q \in late => q \in late'
  BY DEF Recorded
<1> QED
  BY <1>1, <1>2, <1>3 DEF SavesOn

-----------------------------------------------------------------------------
(* Saving tickets                                                          *)

\* A step that leaves the saves of the tickets on, and makes none redeemable.
LEMMA TicketsAside ==
  ASSUME TicketsKept, SavesOn("tickets"), lost' = lost, UNCHANGED <<ticketFile, spent>>,
         pending' \cap spent \subseteq pending,
         \A r \in Requests : copyT'[r] = copyT[r],
         "tickets" \in behind => "tickets" \in behind'
  PROVE  TicketsKept'
<1> SUFFICES ASSUME "tickets" \notin lost
             PROVE  /\ Unspent(pending')
                    /\ Unspent(ticketFile.pending) \/ "tickets" \in behind' \/ Unsaved("tickets")' # {}
                    /\ \A r \in Requests : rpc'[r] = "writing tickets" /\ r \notin late' =>
                         Unspent(copyT[r].pending) \/ Overtaken(r, "tickets")'
  BY DEF TicketsKept, Unspent
<1>1. Unspent(pending')
  BY DEF TicketsKept, Unspent
<1>2. Unspent(ticketFile.pending) \/ "tickets" \in behind' \/ Unsaved("tickets")' # {}
  BY StaysUnsaved DEF TicketsKept, Files
<1>3. ASSUME NEW r \in Requests, rpc'[r] = "writing tickets", r \notin late'
      PROVE  Unspent(copyT[r].pending) \/ Overtaken(r, "tickets")'
  <2>1. rpc[r] = "writing tickets" /\ r \notin late
    BY <1>3 DEF SavesOn, Writing
  <2>2. Unspent(copyT[r].pending) \/ Overtaken(r, "tickets")
    BY <2>1 DEF TicketsKept
  <2> QED
    BY <2>1, <2>2, StaysOvertaken DEF Files, Writing
<1> QED
  BY <1>1, <1>2, <1>3

LEMMA CopyTicketsKept ==
  ASSUME SaveInv, NEW r \in Requests, CopyTickets(r)
  PROVE  TicketsKept'
<1> USE DEF SaveInv, TicketInv
<1>1. /\ rpc[r] = "copying tickets" /\ rpc' = [rpc EXCEPT ![r] = "writing tickets"]
      /\ UNCHANGED <<pending, ticketFile, spent, late, behind, lost>>
  BY DEF CopyTickets, Asks, hubMemory, hubFiles
<1>2. copyT' = [copyT EXCEPT ![r] = [pending |-> pending, used |-> used]]
  BY DEF CopyTickets
<1>3. rpc'[r] = "writing tickets" /\ \A q \in Requests : q # r => rpc'[q] = rpc[q]
  BY <1>1 DEF Types
<1>4. copyT'[r].pending = pending /\ \A q \in Requests : q # r => copyT'[q] = copyT[q]
  BY <1>2 DEF Types
<1>5. ASSUME NEW q \in Requests, q # r, rpc[q] = "writing tickets"
      PROVE  Overtaken(q, "tickets")'
  <2>1. Asks(r, Copying("tickets"), Writing("tickets")) /\ Copied(r, "tickets")
    BY DEF CopyTickets, Copying, Writing
  <2> QED
    BY <1>5, <2>1, CopyOvertakes DEF Files, Writing
<1>6. Unsaved("tickets")' # {}
  BY <1>3 DEF Unsaved
<1> QED
  BY <1>1, <1>3, <1>4, <1>5, <1>6 DEF TicketsKept, Unspent

LEMMA WriteTicketsKept ==
  ASSUME SaveInv, NEW r \in Requests, WriteTickets(r)
  PROVE  TicketsKept'
<1> USE DEF SaveInv, TicketInv
<1>1. PICK to \in {"idle", "issuing", "accepting"} : to = then[r]
  BY DEF Types
<1>2. /\ rpc[r] = "writing tickets" /\ rpc' = [rpc EXCEPT ![r] = to]
      /\ UNCHANGED <<pending, spent, lost>>
  BY <1>1 DEF WriteTickets, Asks, hubMemory
<1>3. PICK ok \in BOOLEAN : /\ ticketFile' = IF ok THEN copyT[r] ELSE ticketFile
                            /\ Recorded(r, "tickets", ok)
  BY DEF WriteTickets
<1>4. rpc'[r] = to /\ \A q \in Requests : q # r => rpc'[q] = rpc[q] /\ copyT'[q] = copyT[q]
  BY <1>2 DEF Types, WriteTickets
<1>5. ASSUME NEW q \in Requests, rpc'[q] = "writing tickets", q \notin late', "tickets" \notin lost
      PROVE  Unspent(copyT'[q].pending) \/ Overtaken(q, "tickets")'
  <2>1. q # r /\ rpc[q] = "writing tickets" /\ copyT'[q] = copyT[q]
    BY <1>4, <1>5
  <2>2. q \notin late
    BY <1>3, <1>5, <2>1 DEF Recorded
  <2>3. Unspent(copyT[q].pending) \/ Overtaken(q, "tickets")
    BY <1>5, <2>1, <2>2 DEF TicketsKept
  <2>4. Asks(r, Writing("tickets"), to)
    BY <1>1 DEF WriteTickets, Writing
  <2>5. Overtaken(q, "tickets") => Overtaken(q, "tickets")'
    BY <1>3, <1>5, <2>1, <2>4, WriteOvertakes DEF Files, Writing
  <2> QED
    BY <2>1, <2>3, <2>5
<1>6. ASSUME "tickets" \notin lost, "tickets" \notin behind', Unsaved("tickets")' = {}
      PROVE  Unspent(ticketFile'.pending)
  <2>1. ok /\ r \notin late
    BY <1>3, <1>6 DEF Recorded
  <2>2. \A q \in Requests \ {r} : rpc[q] \notin {"copying tickets", "writing tickets"}
    BY <1>4, <1>6 DEF Unsaved
  <2>3. ~Overtaken(r, "tickets")
    BY <2>2 DEF Overtaken, Copying, Writing
  <2>4. Unspent(copyT[r].pending)
    BY <1>2, <1>6, <2>1, <2>3 DEF TicketsKept
  <2> QED
    BY <1>3, <2>1, <2>4
<1>7. "tickets" \notin lost => Unspent(pending)
  BY DEF TicketsKept
<1> QED
  BY <1>2, <1>5, <1>6, <1>7 DEF TicketsKept, Unspent

LEMMA SaverUnsaved ==
  ASSUME NEW q \in Requests, NEW f \in Files, rpc'[q] = Copying(f)
  PROVE  Unsaved(f)' # {}
<1>1. q \in {p \in Requests : rpc'[p] \in IF f = "tickets" THEN {"copying tickets", "writing tickets"}
                                           ELSE {"copying peers", "writing peers"}}
  BY DEF Copying
<1> QED
  BY <1>1 DEF Unsaved

\* Who is about to save the tickets has overtaken every copy of them.
LEMMA TicketsChanged ==
  ASSUME SaveInv, NEW r \in Requests, rpc[r] \notin {"copying tickets", "writing tickets"},
         rpc' = [rpc EXCEPT ![r] = "copying tickets"], UNCHANGED <<lost, late, copyT>>,
         Unspent(pending) => Unspent(pending)'
  PROVE  TicketsKept'
<1> USE DEF SaveInv, TicketInv
<1>1. rpc'[r] = "copying tickets" /\ \A q \in Requests : q # r => rpc'[q] = rpc[q]
  BY DEF Types
<1>2. Unsaved("tickets")' # {}
  BY <1>1, SaverUnsaved DEF Files, Copying
<1>3. \A q \in Requests : rpc'[q] = "writing tickets" => Overtaken(q, "tickets")'
  BY <1>1 DEF Overtaken, Copying
<1> QED
  BY <1>2, <1>3 DEF TicketsKept

LEMMA StartsKeepTickets ==
  ASSUME SaveInv, NEW r \in Requests, CreateTicket(r) \/ Issue(r) \/ Redeem(r)
  PROVE  TicketsKept'
<1> USE DEF SaveInv, TicketInv
<1>1. CASE CreateTicket(r) /\ (pending \cup used) \cap expired # {}
  BY <1>1, TicketsChanged DEF CreateTicket, SavesTickets, Asks, hubHistory, saveHistory, Unspent
<1>2. CASE CreateTicket(r) /\ (pending \cup used) \cap expired = {}
  <2>1. rpc' = [rpc EXCEPT ![r] = "issuing"] /\ rpc[r] = "idle"
    BY <1>2 DEF CreateTicket, Asks
  <2>2. SavesOn("tickets")
    BY <1>2, <2>1 DEF CreateTicket, hubHistory, saveHistory, SavesOn, Copying, Writing, Types
  <2> QED
    BY <1>2, <2>2, TicketsAside DEF CreateTicket, hubFiles, hubHistory, saveHistory
<1>3. CASE Issue(r)
  <2>1. issued + 1 \notin spent
    BY DEF SaveTypes, Types
  <2>2. Unspent(pending) => Unspent(pending)'
    BY <1>3, <2>1 DEF Issue, Unspent, hubHistory
  <2> QED
    BY <1>3, <2>2, TicketsChanged DEF Issue, SavesTickets, Asks, hubHistory, saveHistory
<1>4. CASE Redeem(r)
  <2>1. Unspent(pending) => Unspent(pending)'
    BY <1>4 DEF Redeem, Unspent
  <2> QED
    BY <1>4, <2>1, TicketsChanged DEF Redeem, SavesTickets, Asks, saveHistory
<1> QED
  BY <1>1, <1>2, <1>3, <1>4

LEMMA OthersKeepTickets ==
  ASSUME SaveInv,
         \/ \E r \in Requests : CopyPeers(r) \/ WritePeers(r) \/ Reject(r) \/ Accept(r) \/ Unpair(r)
         \/ HeartbeatSweeps \/ Expire \/ UNCHANGED hubVars
  PROVE  TicketsKept'
<1> USE DEF SaveInv, TicketInv
<1>1. ASSUME NEW r \in Requests, CopyPeers(r)
      PROVE  TicketsKept'
  <2>1. Asks(r, Copying("peers"), Writing("peers")) /\ Copied(r, "peers") /\ late' = late
    BY <1>1 DEF CopyPeers, Copying, Writing
  <2>2. SavesOn("tickets")
    BY <2>1, OtherSaves DEF Files, RequestPCs
  <2> QED
    BY <1>1, <2>2, TicketsAside DEF CopyPeers, hubMemory, hubFiles
<1>2. ASSUME NEW r \in Requests, WritePeers(r)
      PROVE  TicketsKept'
  <2>1. PICK ok \in BOOLEAN : Recorded(r, "peers", ok)
    BY <1>2 DEF WritePeers
  <2>2. Asks(r, Writing("peers"), "idle")
    BY <1>2 DEF WritePeers, Writing
  <2>3. SavesOn("tickets")
    BY <2>1, <2>2, OtherSaves DEF Files, RequestPCs
  <2>4. "tickets" \in behind => "tickets" \in behind'
    BY <2>1 DEF Recorded
  <2> QED
    BY <1>2, <2>3, <2>4, TicketsAside DEF WritePeers, hubMemory
<1>3. ASSUME NEW r \in Requests, Reject(r) \/ Accept(r) \/ Unpair(r)
      PROVE  TicketsKept'
  <2>1. /\ rpc[r] \in {"accepting", "idle"}
        /\ \E to \in {"idle", "copying peers"} : rpc' = [rpc EXCEPT ![r] = to]
        /\ UNCHANGED <<pending, ticketFile, spent, copyT, older, late, behind, lost>>
    BY <1>3 DEF Reject, Accept, Unpair, Asks, hubMemory, hubFiles, hubHistory, saveHistory
  <2>2. SavesOn("tickets")
    BY <2>1 DEF SavesOn, Copying, Writing, Types
  <2> QED
    BY <2>1, <2>2, TicketsAside
<1>4. CASE HeartbeatSweeps \/ Expire \/ UNCHANGED hubVars
  <2>1. /\ UNCHANGED <<ticketFile, spent, copyT, rpc, older, late, behind, lost>>
        /\ pending' \subseteq pending
    BY <1>4 DEF HeartbeatSweeps, Expire, hubVars, hubMemory, hubFiles, hubRequests, hubHistory, saveHistory
  <2>2. SavesOn("tickets")
    BY <2>1 DEF SavesOn
  <2> QED
    BY <2>1, <2>2, TicketsAside
<1> QED
  BY <1>1, <1>2, <1>3, <1>4

-----------------------------------------------------------------------------
(* Saving peers                                                            *)

LEMMA PeersAside ==
  ASSUME PeersKept, SavesOn("peers"), UNCHANGED <<lost, sessions, revoked, kept, paired, peerFile>>,
         \A r \in Requests : copyP'[r] = copyP[r],
         "peers" \in behind => "peers" \in behind'
  PROVE  PeersKept'
<1> SUFFICES ASSUME "peers" \notin lost
             PROVE  /\ Current(peerFile) \/ "peers" \in behind' \/ Unsaved("peers")' # {}
                    /\ \A r \in Requests : rpc'[r] = "writing peers" /\ r \notin late' =>
                         Current(copyP[r]) \/ Overtaken(r, "peers")'
  BY DEF PeersKept, Current
<1>1. Current(peerFile) \/ "peers" \in behind' \/ Unsaved("peers")' # {}
  BY StaysUnsaved DEF PeersKept, Files
<1>2. ASSUME NEW r \in Requests, rpc'[r] = "writing peers", r \notin late'
      PROVE  Current(copyP[r]) \/ Overtaken(r, "peers")'
  <2>1. rpc[r] = "writing peers" /\ r \notin late
    BY <1>2 DEF SavesOn, Writing
  <2>2. Current(copyP[r]) \/ Overtaken(r, "peers")
    BY <2>1 DEF PeersKept
  <2> QED
    BY <2>1, <2>2, StaysOvertaken DEF Files, Writing
<1> QED
  BY <1>1, <1>2

LEMMA CopyPeersKept ==
  ASSUME SaveInv, NEW r \in Requests, CopyPeers(r)
  PROVE  PeersKept'
<1> USE DEF SaveInv, TicketInv
<1>1. /\ rpc[r] = "copying peers" /\ rpc' = [rpc EXCEPT ![r] = "writing peers"]
      /\ UNCHANGED <<paired, sessions, peerFile, revoked, kept, late, behind, lost>>
  BY DEF CopyPeers, Asks, hubMemory, hubFiles
<1>2. PICK f \in [paired -> DOMAIN sessions] : copyP' = [copyP EXCEPT ![r] = f]
  BY DEF CopyPeers
<1>3. rpc'[r] = "writing peers" /\ \A q \in Requests : q # r => rpc'[q] = rpc[q]
  BY <1>1 DEF Types
<1>4. copyP'[r] = f /\ \A q \in Requests : q # r => copyP'[q] = copyP[q]
  BY <1>2 DEF SaveTypes
<1>5. ASSUME NEW q \in Requests, q # r, rpc[q] = "writing peers"
      PROVE  Overtaken(q, "peers")'
  <2>1. Asks(r, Copying("peers"), Writing("peers")) /\ Copied(r, "peers")
    BY DEF CopyPeers, Copying, Writing
  <2> QED
    BY <1>5, <2>1, CopyOvertakes DEF Files, Writing
<1>6. Unsaved("peers")' # {}
  BY <1>3 DEF Unsaved
<1>7. "peers" \notin lost => Current(f)
  BY DEF PeersKept, Current
<1>8. "peers" \notin lost' => \A q \in Requests : rpc'[q] = "writing peers" /\ q \notin late' =>
        (Current(copyP[q]) \/ Overtaken(q, "peers"))'
  BY <1>1, <1>3, <1>4, <1>5, <1>7 DEF Current
<1> QED
  BY <1>1, <1>6, <1>8 DEF PeersKept

LEMMA WritePeersKept ==
  ASSUME SaveInv, NEW r \in Requests, WritePeers(r)
  PROVE  PeersKept'
<1> USE DEF SaveInv, TicketInv
<1>1. /\ rpc[r] = "writing peers" /\ rpc' = [rpc EXCEPT ![r] = "idle"]
      /\ UNCHANGED <<paired, sessions, revoked, lost>>
      /\ kept' \subseteq kept \cup paired
  BY DEF WritePeers, Asks, hubMemory
<1>2. PICK ok \in BOOLEAN : /\ peerFile' = IF ok THEN copyP[r] ELSE peerFile
                            /\ Recorded(r, "peers", ok)
  BY DEF WritePeers
<1>3. rpc'[r] = "idle" /\ \A q \in Requests : q # r => rpc'[q] = rpc[q] /\ copyP'[q] = copyP[q]
  BY <1>1 DEF Types, SaveTypes, WritePeers
<1>4. ASSUME NEW q \in Requests, rpc'[q] = "writing peers", q \notin late', "peers" \notin lost
      PROVE  q # r /\ copyP'[q] = copyP[q] /\ (Current(copyP[q]) \/ Overtaken(q, "peers")')
  <2>1. q # r /\ rpc[q] = "writing peers" /\ copyP'[q] = copyP[q]
    BY <1>3, <1>4
  <2>2. q \notin late
    BY <1>2, <1>4, <2>1 DEF Recorded
  <2>3. Current(copyP[q]) \/ Overtaken(q, "peers")
    BY <1>4, <2>1, <2>2 DEF PeersKept
  <2>4. Asks(r, Writing("peers"), "idle")
    BY DEF WritePeers, Writing
  <2>5. Overtaken(q, "peers") => Overtaken(q, "peers")'
    BY <1>2, <1>4, <2>1, <2>4, WriteOvertakes DEF Files, Writing
  <2> QED
    BY <2>1, <2>3, <2>5
<1>5. ASSUME "peers" \notin lost, "peers" \notin behind', Unsaved("peers")' = {}
      PROVE  Current(copyP[r]) /\ peerFile' = copyP[r]
  <2>1. ok /\ r \notin late
    BY <1>2, <1>5 DEF Recorded
  <2>2. \A q \in Requests \ {r} : rpc[q] \notin {"copying peers", "writing peers"}
    BY <1>3, <1>5 DEF Unsaved
  <2>3. ~Overtaken(r, "peers")
    BY <2>2 DEF Overtaken, Copying, Writing
  <2> QED
    BY <1>1, <1>2, <1>5, <2>1, <2>3 DEF PeersKept
<1>6. "peers" \notin lost => DOMAIN sessions \cap revoked = {} /\ kept \subseteq paired
  BY DEF PeersKept
<1> QED
  BY <1>1, <1>4, <1>5, <1>6 DEF PeersKept, Current

\* Who is about to save the peers has overtaken every copy of them.
LEMMA PeersChanged ==
  ASSUME SaveInv, NEW r \in Requests, rpc[r] \notin {"copying peers", "writing peers"},
         rpc' = [rpc EXCEPT ![r] = "copying peers"], UNCHANGED <<lost, late>>,
         (DOMAIN sessions \cap revoked = {} /\ kept \subseteq paired) =>
           DOMAIN sessions' \cap revoked' = {} /\ kept' \subseteq paired'
  PROVE  PeersKept'
<1> USE DEF SaveInv, TicketInv
<1>1. rpc'[r] = "copying peers" /\ \A q \in Requests : q # r => rpc'[q] = rpc[q]
  BY DEF Types
<1>2. Unsaved("peers")' # {}
  BY <1>1, SaverUnsaved DEF Files, Copying
<1>3. \A q \in Requests : rpc'[q] = "writing peers" => Overtaken(q, "peers")'
  BY <1>1 DEF Overtaken, Copying
<1> QED
  BY <1>2, <1>3 DEF PeersKept

LEMMA StartsKeepPeers ==
  ASSUME SaveInv, NEW r \in Requests, Accept(r) \/ Unpair(r)
  PROVE  PeersKept'
<1> USE DEF SaveInv, TicketInv
<1>1. CASE Accept(r)
  <2>1. drawn + 1 \notin revoked
    BY DEF SaveTypes
  <2>2. /\ DOMAIN sessions' = DOMAIN sessions \cup {drawn + 1} /\ paired \subseteq paired'
        /\ UNCHANGED <<revoked, kept, late, lost>>
    BY <1>1 DEF Accept, saveHistory
  <2> QED
    BY <1>1, <2>1, <2>2, PeersChanged DEF Accept, Asks
<1>2. CASE Unpair(r)
  <2>1. PICK d \in paired : /\ paired' = paired \ {d}
                            /\ sessions' = [k \in DOMAIN sessions \ TokensOf(d) |-> sessions[k]]
                            /\ revoked' = revoked \cup TokensOf(d)
                            /\ kept' = kept \ {d}
    BY <1>2 DEF Unpair
  <2>2. DOMAIN sessions' = DOMAIN sessions \ TokensOf(d)
    BY <2>1
  <2> QED
    BY <1>2, <2>1, <2>2, PeersChanged DEF Unpair, Asks, saveHistory
<1> QED
  BY <1>1, <1>2

LEMMA OthersKeepPeers ==
  ASSUME SaveInv,
         \/ \E r \in Requests : \/ CopyTickets(r) \/ WriteTickets(r) \/ CreateTicket(r) \/ Issue(r)
                                \/ Redeem(r) \/ Reject(r)
         \/ HeartbeatSweeps \/ Expire \/ UNCHANGED hubVars
  PROVE  PeersKept'
<1> USE DEF SaveInv, TicketInv
<1>1. ASSUME NEW r \in Requests, CopyTickets(r)
      PROVE  PeersKept'
  <2>1. Asks(r, Copying("tickets"), Writing("tickets")) /\ Copied(r, "tickets") /\ late' = late
    BY <1>1 DEF CopyTickets, Copying, Writing
  <2>2. SavesOn("peers")
    BY <2>1, OtherSaves DEF Files, RequestPCs
  <2> QED
    BY <1>1, <2>2, PeersAside DEF CopyTickets, hubMemory, hubFiles
<1>2. ASSUME NEW r \in Requests, WriteTickets(r)
      PROVE  PeersKept'
  <2>1. PICK ok \in BOOLEAN : Recorded(r, "tickets", ok)
    BY <1>2 DEF WriteTickets
  <2>2. then[r] \in {"idle", "issuing", "accepting"} /\ Asks(r, Writing("tickets"), then[r])
    BY <1>2 DEF WriteTickets, Writing, Types
  <2>3. SavesOn("peers")
    BY <2>1, <2>2, OtherSaves DEF Files, RequestPCs
  <2>4. "peers" \in behind => "peers" \in behind'
    BY <2>1 DEF Recorded
  <2> QED
    BY <1>2, <2>3, <2>4, PeersAside DEF WriteTickets, hubMemory
<1>3. ASSUME NEW r \in Requests, CreateTicket(r) \/ Issue(r) \/ Redeem(r) \/ Reject(r)
      PROVE  PeersKept'
  <2>1. /\ rpc[r] \in {"idle", "issuing", "accepting"}
        /\ \E to \in {"copying tickets", "issuing", "idle"} : rpc' = [rpc EXCEPT ![r] = to]
    BY <1>3 DEF CreateTicket, Issue, Redeem, Reject, SavesTickets, Asks
  <2>2. UNCHANGED <<paired, sessions, peerFile, revoked, kept, copyP, older, late, behind, lost>>
    BY <1>3 DEF CreateTicket, Issue, Redeem, Reject, hubMemory, hubFiles, hubHistory, saveHistory
  <2>3. SavesOn("peers")
    BY <2>1, <2>2 DEF SavesOn, Copying, Writing, Types
  <2> QED
    BY <2>2, <2>3, PeersAside
<1>4. CASE HeartbeatSweeps \/ Expire \/ UNCHANGED hubVars
  <2>1. UNCHANGED <<paired, sessions, peerFile, revoked, kept, copyP, rpc, older, late, behind, lost>>
    BY <1>4 DEF HeartbeatSweeps, Expire, hubVars, hubMemory, hubFiles, hubRequests, hubHistory, saveHistory
  <2>2. SavesOn("peers")
    BY <2>1 DEF SavesOn
  <2> QED
    BY <2>1, <2>2, PeersAside
<1> QED
  BY <1>1, <1>2, <1>3, <1>4

-----------------------------------------------------------------------------
(* Restarts                                                                *)

LEMMA RebootKeeps ==
  ASSUME SaveInv, Reboot
  PROVE  TicketsKept' /\ PeersKept'
<1> USE DEF SaveInv, TicketInv
<1>1. \A r \in Requests : rpc'[r] = "idle"
  BY DEF Reboot
<1>2. \A f \in Files : f \notin lost' => f \notin lost /\ f \notin behind /\ Unsaved(f) = {}
  BY DEF Reboot
<1>3. UNCHANGED <<ticketFile, peerFile, spent, revoked, kept>>
  BY DEF Reboot, hubFiles
<1>4. ASSUME "tickets" \notin lost'
      PROVE  Unspent(pending)' /\ Unspent(ticketFile.pending)'
  <2>1. Unspent(ticketFile.pending)
    BY <1>2, <1>4 DEF TicketsKept, Files
  <2>2. pending' \subseteq ticketFile.pending
    BY DEF Reboot, RestoredTickets
  <2> QED
    BY <1>3, <2>1, <2>2 DEF Unspent
<1>5. ASSUME "peers" \notin lost'
      PROVE  DOMAIN sessions' \cap revoked' = {} /\ kept' \subseteq paired' /\ Current(peerFile)'
  <2>1. Current(peerFile) /\ kept \subseteq paired
    BY <1>2, <1>5 DEF PeersKept, Files
  <2>2. paired' = DOMAIN peerFile /\ DOMAIN sessions' = {peerFile[d] : d \in DOMAIN peerFile}
    BY DEF Reboot, RestoredSessions
  <2> QED
    BY <1>3, <2>1, <2>2 DEF Current
<1> QED
  BY <1>1, <1>4, <1>5 DEF TicketsKept, PeersKept

-----------------------------------------------------------------------------
(* What was drawn and what was issued                                      *)

LEMMA OlderTypes ==
  ASSUME Types, older \in [Requests -> SUBSET Requests], NEW r \in Requests,
         (\E f \in Files : Copied(r, f)) \/ (\E f \in Files, ok \in BOOLEAN : Recorded(r, f, ok))
  PROVE  older' \in [Requests -> SUBSET Requests]
<1>1. \A f : Holding(f) \subseteq Requests
  BY DEF Holding
<1> QED
  BY <1>1 DEF Copied, Recorded

LEMMA SaveTypesKept ==
  ASSUME SaveInv, [HubNext]_hubVars
  PROVE  SaveTypes'
<1> USE DEF SaveInv, TicketInv
<1>1. ASSUME NEW r \in Requests, CopyTickets(r)
      PROVE  SaveTypes'
  BY <1>1, OlderTypes DEF CopyTickets, SaveTypes, Known, Files, hubMemory, hubFiles, hubBounds
<1>2. ASSUME NEW r \in Requests, WriteTickets(r)
      PROVE  SaveTypes'
  BY <1>2, OlderTypes DEF WriteTickets, SaveTypes, Known, Files, hubMemory, hubBounds
<1>3. ASSUME NEW r \in Requests, CopyPeers(r)
      PROVE  SaveTypes'
  <2>1. PICK f \in [paired -> DOMAIN sessions] : copyP' = [copyP EXCEPT ![r] = f]
    BY <1>3 DEF CopyPeers
  <2>2. /\ UNCHANGED <<drawn, issued, spent, revoked, sessions, peerFile>>
        /\ older' \in [Requests -> SUBSET Requests]
    BY <1>3, OlderTypes DEF CopyPeers, SaveTypes, Files, hubMemory, hubFiles, hubBounds
  <2>3. Known(f)
    BY DEF Known, SaveTypes
  <2>4. DOMAIN copyP' = Requests /\ \A q \in Requests : Known(copyP'[q])
    BY <2>1, <2>3 DEF SaveTypes
  <2> QED
    BY <2>2, <2>4 DEF SaveTypes, Known
<1>4. ASSUME NEW r \in Requests, WritePeers(r)
      PROVE  SaveTypes'
  <2>1. /\ UNCHANGED <<drawn, issued, spent, revoked, sessions>>
        /\ copyP' = [copyP EXCEPT ![r] = NoCopyP]
        /\ peerFile' = peerFile \/ peerFile' = copyP[r]
        /\ older' \in [Requests -> SUBSET Requests]
    BY <1>4, OlderTypes DEF WritePeers, SaveTypes, Files, hubMemory, hubBounds
  <2>2. Known(NoCopyP)
    BY DEF Known, NoCopyP
  <2>3. DOMAIN copyP' = Requests /\ \A q \in Requests : Known(copyP'[q])
    BY <2>1, <2>2 DEF SaveTypes
  <2> QED
    BY <2>1, <2>3 DEF SaveTypes, Known
<1>5. ASSUME NEW r \in Requests, CreateTicket(r) \/ Reject(r)
      PROVE  SaveTypes'
  BY <1>5 DEF CreateTicket, Reject, SaveTypes, Known, hubMemory, hubFiles, hubBounds, hubHistory,
              saveHistory
<1>6. ASSUME NEW r \in Requests, Issue(r)
      PROVE  SaveTypes'
  <2>1. 1..issued \subseteq 1..issued'
    BY <1>6 DEF Issue, Types
  <2>2. UNCHANGED <<drawn, spent, revoked, sessions, peerFile, copyP, older>>
    BY <1>6 DEF Issue, hubFiles, hubHistory, saveHistory
  <2> QED
    BY <2>1, <2>2 DEF SaveTypes, Known
<1>7. ASSUME NEW r \in Requests, Redeem(r)
      PROVE  SaveTypes'
  <2>1. /\ spent' \subseteq spent \cup pending
        /\ UNCHANGED <<drawn, issued, revoked, sessions, peerFile, copyP, older>>
    BY <1>7 DEF Redeem, hubFiles, hubBounds, saveHistory
  <2> QED
    BY <2>1 DEF SaveTypes, Known, WereIssued
<1>8. ASSUME NEW r \in Requests, Accept(r)
      PROVE  SaveTypes'
  <2>1. /\ drawn' = drawn + 1 /\ DOMAIN sessions' = DOMAIN sessions \cup {drawn + 1}
        /\ UNCHANGED <<issued, spent, revoked, peerFile, copyP, older>>
    BY <1>8 DEF Accept, hubFiles, saveHistory
  <2>2. 1..drawn \subseteq 1..drawn' /\ drawn' \in Nat /\ drawn + 1 \in 1..drawn'
    BY <2>1 DEF SaveTypes
  <2> QED
    BY <2>1, <2>2 DEF SaveTypes, Known
<1>9. ASSUME NEW r \in Requests, Unpair(r)
      PROVE  SaveTypes'
  <2>1. /\ DOMAIN sessions' \subseteq DOMAIN sessions /\ revoked' \subseteq revoked \cup DOMAIN sessions
        /\ UNCHANGED <<drawn, issued, spent, peerFile, copyP, older>>
    BY <1>9 DEF Unpair, TokensOf, hubFiles, hubBounds, saveHistory
  <2> QED
    BY <2>1 DEF SaveTypes, Known
<1>10. CASE HeartbeatSweeps \/ Expire \/ UNCHANGED hubVars
  <2>1. UNCHANGED <<drawn, issued, spent, revoked, sessions, peerFile, copyP, older>>
    BY <1>10 DEF HeartbeatSweeps, Expire, hubVars, hubMemory, hubFiles, hubRequests, hubBounds, hubHistory,
                 saveHistory
  <2> QED
    BY <2>1 DEF SaveTypes, Known
<1>11. CASE Reboot
  <2>1. /\ UNCHANGED <<drawn, issued, spent, revoked, peerFile>>
        /\ DOMAIN sessions' = {peerFile[d] : d \in DOMAIN peerFile}
        /\ copyP' = [r \in Requests |-> NoCopyP] /\ older' = [r \in Requests |-> {}]
    BY <1>11 DEF Reboot, RestoredSessions, hubFiles
  <2>2. Known(NoCopyP)
    BY DEF Known, NoCopyP
  <2> QED
    BY <2>1, <2>2 DEF SaveTypes, Known
<1> QED
  BY <1>1, <1>2, <1>3, <1>4, <1>5, <1>6, <1>7, <1>8, <1>9, <1>10, <1>11 DEF HubNext

-----------------------------------------------------------------------------
LEMMA TicketsStep == TicketInv /\ [HubNext]_hubVars => TicketInv'
  BY CopyTicketsInv, WriteTicketsInv, PeersInv, CreateTicketInv, IssueInv, RedeemInv, AcceptInv,
     SweepsInv, RebootInv DEF HubNext

LEMMA SaveStep == SaveInv /\ [HubNext]_hubVars => SaveInv'
<1> SUFFICES ASSUME SaveInv, [HubNext]_hubVars
             PROVE  SaveInv'
  OBVIOUS
<1>1. TicketInv'
  BY TicketsStep DEF SaveInv
<1>2. TicketsKept'
  BY CopyTicketsKept, WriteTicketsKept, StartsKeepTickets, OthersKeepTickets, RebootKeeps DEF HubNext
<1>3. PeersKept'
  BY CopyPeersKept, WritePeersKept, StartsKeepPeers, OthersKeepPeers, RebootKeeps DEF HubNext
<1> QED
  BY <1>1, <1>2, <1>3, SaveTypesKept DEF SaveInv

LEMMA SaveInvariant == HubSpec => []SaveInv
<1>1. HubInit => SaveInv
  BY HubInitInv, InitSaves DEF SaveInv
<1> QED
  BY <1>1, SaveStep, PTL DEF HubSpec

\* A ticket gives at most one pairing in the life of a process, whatever the
\* requests, sweeps, expiries and restarts (redeem, hub.go:337).
THEOREM OneDeviceHolds == HubSpec => []OneDevicePerTicket
<1>1. TicketInv => OneDevicePerTicket
  BY DEF TicketInv, Types, WinsOnce, OneDevicePerTicket
<1> QED
  BY <1>1, HubInitInv, TicketsStep, PTL DEF HubSpec

\* A ticket that was redeemed is redeemed again only after a restart that came
\* before its save, or after a save that failed or was overtaken by an older
\* one, for any number of requests that save at once and any restarts.
THEOREM SpentStays == HubSpec => []SpentStaysSpent
<1>1. SaveInv => SpentStaysSpent
  BY DEF SaveInv, TicketsKept, Unspent, SpentStaysSpent
<1> QED
  BY <1>1, SaveInvariant, PTL

\* A token that was taken back is not accepted again, and a device that was
\* told it is paired stays a peer, over restarts too, unless the file of peers
\* lacked a change when the process died.
THEOREM PeersStay == HubSpec => []AnsweredPeersStay
<1>1. SaveInv => AnsweredPeersStay
  BY DEF SaveInv, PeersKept, AnsweredPeersStay
<1> QED
  BY <1>1, SaveInvariant, PTL

-----------------------------------------------------------------------------
(* The circuit breaker                                                     *)

LRecords == [pc : {"idle", "limiting", "checking", "calling", "metering", "recording"},
             kind : Kinds \cup {"none"}, at : Nat, bytes : Nat]

\* The failures are those that were counted since the breaker was cleared, and
\* one of them opened it; the times are of any order.
BreakerInv ==
  /\ now \in Nat
  /\ lreq \in [LRequests -> LRecords]
  /\ counted \in Seq(Nat) /\ failures = Len(counted)
  /\ failures >= Threshold => \E i \in DOMAIN counted : openUntil = counted[i] + Cooldown

LEMMA InitBreaker == LimitsInit => BreakerInv
<1> SUFFICES ASSUME LimitsInit
             PROVE  BreakerInv
  OBVIOUS
<1>1. NoRequest \in LRecords
  BY DEF NoRequest, LRecords
<1> QED
  BY <1>1, LimitsAssumption DEF LimitsInit, BreakerInv

LEMMA StepBreaker == BreakerInv /\ [LimitsNext]_limitsVars => BreakerInv'
<1> SUFFICES ASSUME BreakerInv, [LimitsNext]_limitsVars
             PROVE  BreakerInv'
  OBVIOUS
<1>0. NoRequest \in LRecords
  BY DEF NoRequest, LRecords
<1>1. ASSUME NEW r \in LRequests, NEW q \in LRecords, lreq' = [lreq EXCEPT ![r] = q],
             UNCHANGED <<now, failures, openUntil, counted>>
      PROVE  BreakerInv'
  BY <1>1 DEF BreakerInv
<1>2. ASSUME NEW r \in LRequests, NEW p \in {"checking", "calling"}, NEW q, q = [lreq[r] EXCEPT !.pc = p]
      PROVE  q \in LRecords
  <2>1. lreq[r] \in LRecords
    BY DEF BreakerInv
  <2> QED
    BY <1>2, <2>1 DEF LRecords
<1>3. ASSUME NEW r \in LRequests, Ask(r)
      PROVE  BreakerInv'
  <2>0. PICK k \in Kinds :
          lreq' = [lreq EXCEPT ![r] = [NoRequest EXCEPT !.pc = "limiting", !.kind = k, !.at = now]]
    BY <1>3 DEF Ask
  <2>1. PICK q : /\ q = [NoRequest EXCEPT !.pc = "limiting", !.kind = k, !.at = now]
                 /\ lreq' = [lreq EXCEPT ![r] = q]
    BY <2>0
  <2>2. q \in LRecords
    BY <2>1 DEF BreakerInv, NoRequest, LRecords
  <2> QED
    BY <1>1, <1>3, <2>1, <2>2 DEF Ask, limiters, limitsHistory
<1>4. ASSUME NEW r \in LRequests,
             RateAllow(r) \/ QuotaAllow(r) \/ Unlimited(r) \/ CircuitAllow(r) \/ Unrecorded(r) \/ Consume(r)
      PROVE  BreakerInv'
  <2>1. \/ lreq' = [lreq EXCEPT ![r] = NoRequest]
        \/ lreq' = [lreq EXCEPT ![r] = [lreq[r] EXCEPT !.pc = "checking"]]
        \/ lreq' = [lreq EXCEPT ![r] = [lreq[r] EXCEPT !.pc = "calling"]]
    BY <1>4 DEF RateAllow, QuotaAllow, Unlimited, CircuitAllow, Unrecorded, Consume
  <2>2. UNCHANGED <<now, failures, openUntil, counted>>
    BY <1>4 DEF RateAllow, QuotaAllow, Unlimited, CircuitAllow, Unrecorded, Consume, limiters, limitsHistory
  <2>3. \E q \in LRecords : lreq' = [lreq EXCEPT ![r] = q]
    BY <1>0, <1>2, <2>1
  <2> QED
    BY <1>1, <2>2, <2>3
<1>5. ASSUME NEW r \in LRequests, Failed(r)
      PROVE  BreakerInv'
  <2>1. PICK q : q = [lreq[r] EXCEPT !.pc = "recording", !.at = now]
    OBVIOUS
  <2>2. lreq' = [lreq EXCEPT ![r] = q]
    BY <1>5, <2>1 DEF Failed, BreakerInv
  <2>3. q \in LRecords
    BY <2>1 DEF BreakerInv, LRecords
  <2> QED
    BY <1>1, <1>5, <2>2, <2>3 DEF Failed, limiters, limitsHistory
<1>6. ASSUME NEW r \in LRequests, Answered(r)
      PROVE  BreakerInv'
  <2>0. PICK n \in 0..MaxChunk :
          lreq' = [lreq EXCEPT ![r] = IF lreq[r].kind = "file" /\ n > 0
                                        THEN [lreq[r] EXCEPT !.pc = "metering", !.at = now, !.bytes = n]
                                        ELSE NoRequest]
    BY <1>6 DEF Answered
  <2>1. PICK q :
          /\ q = IF lreq[r].kind = "file" /\ n > 0
                   THEN [lreq[r] EXCEPT !.pc = "metering", !.at = now, !.bytes = n]
                   ELSE NoRequest
          /\ lreq' = [lreq EXCEPT ![r] = q]
    BY <2>0
  <2>2. n \in Nat
    BY LimitsAssumption
  <2>3. q \in LRecords
    BY <1>0, <2>1, <2>2 DEF BreakerInv, LRecords
  <2>4. failures' = 0 /\ counted' = <<>> /\ now' = now
    BY <1>6 DEF Answered
  <2> QED
    BY <2>1, <2>3, <2>4, LimitsAssumption DEF BreakerInv
<1>7. ASSUME NEW r \in LRequests, CircuitFailure(r)
      PROVE  BreakerInv'
  <2>1. lreq' = [lreq EXCEPT ![r] = NoRequest] /\ now' = now
    BY <1>7 DEF CircuitFailure
  <2>2. CASE UNCHANGED <<failures, openUntil, counted>>
    BY <1>0, <1>1, <2>1, <2>2
  <2>3. CASE /\ failures' = failures + 1
             /\ openUntil' = IF failures' >= Threshold THEN lreq[r].at + Cooldown ELSE openUntil
             /\ counted' = Append(counted, lreq[r].at)
    <3>1. lreq[r].at \in Nat
      BY DEF BreakerInv, LRecords
    <3>2. /\ counted' \in Seq(Nat) /\ Len(counted') = Len(counted) + 1
          /\ counted'[Len(counted) + 1] = lreq[r].at
      BY <2>3, <3>1 DEF BreakerInv
    <3>3. Len(counted) + 1 \in DOMAIN counted'
      BY <3>2 DEF BreakerInv
    <3>4. failures' >= Threshold => \E i \in DOMAIN counted' : openUntil' = counted'[i] + Cooldown
      BY <2>3, <3>2, <3>3
    <3>5. lreq' \in [LRequests -> LRecords]
      BY <1>0, <2>1 DEF BreakerInv
    <3> QED
      BY <2>1, <2>3, <3>2, <3>4, <3>5 DEF BreakerInv
  <2> QED
    BY <1>7, <2>2, <2>3 DEF CircuitFailure
<1>8. CASE SetLimit \/ Tick \/ UNCHANGED limitsVars
  <2>1. now' \in Nat /\ UNCHANGED <<lreq, failures, openUntil, counted>>
    BY <1>8 DEF SetLimit, Tick, limitsVars, limiters, limitsHistory, BreakerInv
  <2> QED
    BY <2>1 DEF BreakerInv
<1> QED
  BY <1>3, <1>4, <1>5, <1>6, <1>7, <1>8 DEF LimitsNext

\* The breaker that is open counted Threshold failures since an answer cleared
\* it, and opened for a cooldown after one of them, although requests that fail
\* at once enter times that were read in another order (peerlink_limits.go,
\* recordFailure).
THEOREM BreakerEarned == LimitsSpec => []OpenIsEarned
<1>1. BreakerInv => OpenIsEarned
  BY DEF BreakerInv, OpenIsEarned, BreakerOpen
<1>2. LimitsSpec => []BreakerInv
  BY InitBreaker, StepBreaker, PTL DEF LimitsSpec
<1> QED
  BY <1>1, <1>2, PTL

-----------------------------------------------------------------------------
(* The windows                                                             *)

\* What a limiter let through is numbered from one at each time.
Numbered(s) ==
  /\ IsFiniteSet(s)
  /\ \A h \in s : /\ h = <<h[1], h[2]>> /\ h[1] \in Nat /\ h[2] \in Nat
                  /\ h[2] <= Cardinality({g \in s : g[1] = h[1]})

\* What a limiter still holds was let through.
WindowTypes ==
  /\ \A r \in LRequests : lreq[r].at <= now /\ lreq[r].bytes <= MaxChunk
  /\ quota \in Quotas
  /\ hits = [k \in Windowed |-> hits[k]]
  /\ letThrough = [k \in Windowed |-> letThrough[k]]
  /\ \A k \in Windowed : Numbered(letThrough[k]) /\ hits[k] \subseteq letThrough[k]
  /\ Numbered(moved) /\ reads \subseteq moved

\* The requests that are about to ask for a call of kind k at a time up to t,
\* and those that may yet enter the bytes of a read at such a time.
Late(k, t) == {r \in LRequests : lreq[r].pc = "limiting" /\ lreq[r].kind = k /\ lreq[r].at <= t}
Due(t) ==
  {r \in LRequests :
     \/ lreq[r].pc \in {"checking", "calling"} /\ lreq[r].kind = "file" /\ now <= t
     \/ lreq[r].pc = "metering" /\ lreq[r].at <= t}

\* A window is full at most while its hits are held; once a later request has
\* dropped some of them, only requests that read the clock before may add to it.
CallsBound(k, t) ==
  \/ /\ InWindow(letThrough[k], t) \subseteq hits[k]
     /\ Spent(letThrough[k], t) <= CallLimit
  \/ /\ now > t
     /\ Spent(letThrough[k], t) + Cardinality(Late(k, t)) + 1 <= CallLimit + Cardinality(LRequests)

\* A window that is not over is held as a whole, so that who passes sees all of
\* it; what it overruns then is what the requests that passed may read.
ReadsBound(t) ==
  /\ now <= t => InWindow(moved, t) \subseteq reads
  /\ \E q \in Quotas :
       Spent(moved, t) + Cardinality(Due(t)) * MaxChunk <= q + Cardinality(LRequests) * MaxChunk

WindowInv ==
  /\ BreakerInv
  /\ WindowTypes
  /\ \A t \in Nat : (\A k \in Windowed : CallsBound(k, t)) /\ ReadsBound(t)

\* A limiter enters as many as it means to.
LEMMA EnteredCounts ==
  ASSUME NEW s, Numbered(s), NEW t \in Nat, NEW n \in Nat
  PROVE  IsFiniteSet(Entered(s, t, n)) /\ Cardinality(Entered(s, t, n)) = n
<1>1. PICK same : same = {h \in s : h[1] = t}
  OBVIOUS
<1>2. PICK c : c = Cardinality(same)
  OBVIOUS
<1>3. IsFiniteSet(s) /\ IsFiniteSet(same) /\ c \in Nat
  BY <1>1, <1>2, FS_Subset, FS_CardinalityType DEF Numbered
<1>4. PICK places : places = (c + 1)..(c + n)
  OBVIOUS
<1>5. IsFiniteSet(places) /\ Cardinality(places) = n
  <2>1. c + 1 \in Int /\ c + n \in Int
    BY <1>3
  <2>2. /\ IsFiniteSet((c + 1)..(c + n))
        /\ Cardinality((c + 1)..(c + n)) = IF c + 1 > c + n THEN 0 ELSE (c + n) - (c + 1) + 1
    BY <2>1, FS_Interval
  <2> QED
    BY <1>3, <1>4, <2>2
<1>6. Entered(s, t, n) = {t} \X places
  BY <1>1, <1>2, <1>4 DEF Entered
<1> QED
  <2>1. IsFiniteSet({t}) /\ Cardinality({t}) = 1
    BY FS_Singleton
  <2>2. IsFiniteSet({t} \X places) /\ Cardinality({t} \X places) = Cardinality({t}) * Cardinality(places)
    BY <1>5, <2>1, FS_Product
  <2>3. Cardinality({t} \X places) = 1 * n
    BY <1>5, <2>1, <2>2
  <2>4. 1 * n = n
    OBVIOUS
  <2>5. Cardinality({t} \X places) = n
    BY <2>3, <2>4
  <2> QED
    BY <1>6, <2>2, <2>5

\* New entries are new, and numbered on.
LEMMA EnteredIsNew ==
  ASSUME NEW s, Numbered(s), NEW t \in Nat, NEW n \in Nat, NEW e, e = Entered(s, t, n)
  PROVE  e \cap s = {} /\ Numbered(s \cup e)
<1>1. PICK same : same = {h \in s : h[1] = t}
  OBVIOUS
<1>2. PICK c : c = Cardinality(same)
  OBVIOUS
<1>3. IsFiniteSet(s) /\ IsFiniteSet(same) /\ c \in Nat
  BY <1>1, <1>2, FS_Subset, FS_CardinalityType DEF Numbered
<1>4. e = {t} \X ((c + 1)..(c + n))
  BY <1>1, <1>2 DEF Entered
<1>5. IsFiniteSet(e) /\ Cardinality(e) = n
  BY EnteredCounts
<1>6. \A h \in e : h = <<h[1], h[2]>> /\ h[1] = t /\ h[2] \in Nat /\ h[2] > c /\ h[2] <= c + n
  BY <1>3, <1>4
<1>7. e \cap s = {}
  BY <1>1, <1>2, <1>3, <1>6 DEF Numbered
<1>8. PICK all : all = s \cup e
  OBVIOUS
<1>9. IsFiniteSet(all)
  BY <1>3, <1>5, <1>8, FS_Union
<1>10. ASSUME NEW h \in all
       PROVE  /\ h = <<h[1], h[2]>> /\ h[1] \in Nat /\ h[2] \in Nat
              /\ h[2] <= Cardinality({g \in all : g[1] = h[1]})
  <2>1. h = <<h[1], h[2]>> /\ h[1] \in Nat /\ h[2] \in Nat
    BY <1>6, <1>8, <1>10 DEF Numbered
  <2>2. CASE h[1] = t
    <3>1. {g \in all : g[1] = t} = same \cup e
      BY <1>1, <1>6, <1>8
    <3>2. same \cap e = {}
      BY <1>1, <1>7
    <3>3. Cardinality(same \cup e) = c + n
      <4>1. Cardinality(same \cup e) = Cardinality(same) + Cardinality(e) - Cardinality(same \cap e)
        BY <1>3, <1>5, FS_Union
      <4>2. Cardinality(same \cap e) = 0
        BY <3>2, FS_EmptySet
      <4> QED
        BY <1>2, <1>3, <1>5, <4>1, <4>2
    <3>4. h[2] <= c + n
      BY <1>1, <1>2, <1>3, <1>6, <1>8, <2>2 DEF Numbered
    <3> QED
      BY <1>3, <2>1, <2>2, <3>1, <3>3, <3>4
  <2>3. CASE h[1] # t
    <3>1. {g \in all : g[1] = h[1]} = {g \in s : g[1] = h[1]} /\ h \in s
      BY <1>6, <1>8, <2>3
    <3> QED
      BY <2>1, <3>1 DEF Numbered
  <2> QED
    BY <2>1, <2>2, <2>3
<1>11. Numbered(all)
  BY <1>9, <1>10 DEF Numbered
<1> QED
  BY <1>7, <1>8, <1>11

\* The part of a finite set that lies in a window, and what adding does to it.
LEMMA WindowFinite ==
  ASSUME NEW s, IsFiniteSet(s), NEW t
  PROVE  IsFiniteSet(InWindow(s, t)) /\ Spent(s, t) \in Nat
<1>1. InWindow(s, t) \in SUBSET s
  BY DEF InWindow
<1>2. IsFiniteSet(InWindow(s, t))
  BY <1>1, FS_Subset
<1> QED
  BY <1>2, FS_CardinalityType DEF Spent

LEMMA WindowGrows ==
  ASSUME NEW s, IsFiniteSet(s), NEW e, IsFiniteSet(e), NEW t
  PROVE  /\ InWindow(s \cup e, t) = InWindow(s, t) \cup InWindow(e, t)
         /\ Spent(s \cup e, t) <= Spent(s, t) + Cardinality(e)
<1>1. InWindow(s \cup e, t) = InWindow(s, t) \cup InWindow(e, t)
  BY DEF InWindow
<1>2. PICK a : a = InWindow(s, t)
  OBVIOUS
<1>3. PICK b : b = InWindow(e, t)
  OBVIOUS
<1>4. IsFiniteSet(a) /\ IsFiniteSet(b) /\ Cardinality(a) \in Nat /\ Cardinality(b) \in Nat
  BY <1>2, <1>3, WindowFinite, FS_CardinalityType
<1>5. Cardinality(b) <= Cardinality(e) /\ Cardinality(e) \in Nat
  <2>1. b \in SUBSET e
    BY <1>3 DEF InWindow
  <2> QED
    BY <2>1, FS_Subset, FS_CardinalityType
<1>6. Cardinality(a \cup b) = Cardinality(a) + Cardinality(b) - Cardinality(a \cap b)
  BY <1>4, FS_Union
<1>7. Cardinality(a \cap b) \in Nat
  <2>1. a \cap b \in SUBSET a
    OBVIOUS
  <2> QED
    BY <1>4, <2>1, FS_Subset, FS_CardinalityType
<1>8. Cardinality(a \cup b) <= Cardinality(a) + Cardinality(e)
  BY <1>4, <1>5, <1>6, <1>7
<1> QED
  BY <1>1, <1>2, <1>3, <1>8 DEF Spent

\* Entries at a time outside a window do not count in it.
LEMMA WindowStays ==
  ASSUME NEW s, NEW e, NEW t \in Nat, NEW a \in Nat, \A h \in e : h[1] = a, a > t
  PROVE  InWindow(s \cup e, t) = InWindow(s, t) /\ Spent(s \cup e, t) = Spent(s, t)
<1>1. InWindow(s \cup e, t) = InWindow(s, t)
  BY DEF InWindow
<1> QED
  BY <1>1 DEF Spent

\* A limiter that reads the clock in a window drops nothing that counts in it.
LEMMA WindowKept ==
  ASSUME NEW s, \A h \in s : h[1] \in Nat, NEW t \in Nat, NEW a \in Nat, a <= t,
         NEW held, InWindow(s, t) \subseteq held
  PROVE  InWindow(s, t) \subseteq {h \in held : After(h[1], a)}
<1>1. Window \in Nat
  BY LimitsAssumption
<1>2. \A h \in InWindow(s, t) : h[1] \in Nat /\ After(h[1], t)
  BY DEF InWindow
<1>3. \A h \in InWindow(s, t) : After(h[1], a)
  BY <1>1, <1>2 DEF After
<1> QED
  BY <1>3

\* Requests are finitely many: so are those of a set of them, and one less
\* when one has gone.
LEMMA RequestsFinite ==
  /\ IsFiniteSet(LRequests) /\ Cardinality(LRequests) \in Nat
  /\ \A s \in SUBSET LRequests :
       /\ IsFiniteSet(s) /\ Cardinality(s) \in Nat /\ Cardinality(s) <= Cardinality(LRequests)
       /\ \A r \in LRequests \ s : Cardinality(s) + 1 <= Cardinality(LRequests)
       /\ \A r \in s : Cardinality(s \ {r}) + 1 = Cardinality(s)
       /\ \A u \in SUBSET s : Cardinality(u) <= Cardinality(s)
<1>1. IsFiniteSet(LRequests) /\ Cardinality(LRequests) \in Nat
  BY LimitsAssumption, FS_CardinalityType
<1>2. ASSUME NEW s \in SUBSET LRequests
      PROVE  /\ IsFiniteSet(s) /\ Cardinality(s) \in Nat /\ Cardinality(s) <= Cardinality(LRequests)
             /\ \A r \in s : Cardinality(s \ {r}) + 1 = Cardinality(s)
             /\ \A u \in SUBSET s : Cardinality(u) <= Cardinality(s)
  <2>1. IsFiniteSet(s) /\ Cardinality(s) <= Cardinality(LRequests)
    BY <1>1, FS_Subset
  <2>2. Cardinality(s) \in Nat
    BY <2>1, FS_CardinalityType
  <2>3. ASSUME NEW r \in s
        PROVE  Cardinality(s \ {r}) + 1 = Cardinality(s)
    <3>1. Cardinality(s \ {r}) = Cardinality(s) - 1
      BY <2>1, <2>3, FS_RemoveElement
    <3>2. PICK n \in Nat : n = Cardinality(s)
      BY <2>2
    <3> QED
      BY <3>1, <3>2
  <2> QED
    BY <2>1, <2>2, <2>3, FS_Subset
<1>3. ASSUME NEW s \in SUBSET LRequests, NEW r \in LRequests \ s
      PROVE  Cardinality(s) + 1 <= Cardinality(LRequests)
  <2>1. s \cup {r} \in SUBSET LRequests
    BY <1>3
  <2>2. Cardinality(s \cup {r}) <= Cardinality(LRequests)
    BY <1>2, <2>1
  <2>3. Cardinality(s \cup {r}) = Cardinality(s) + 1
    BY <1>2, <1>3, FS_AddElement
  <2> QED
    BY <2>2, <2>3
<1> QED
  BY <1>1, <1>2, <1>3

LEMMA InitWindow == LimitsInit => WindowInv
<1> SUFFICES ASSUME LimitsInit
             PROVE  WindowInv
  OBVIOUS
<1>0. LimitsAssumption
  BY LimitsAssumption
<1>1. BreakerInv
  BY InitBreaker
<1>2. Numbered({})
  BY FS_EmptySet DEF Numbered
<1>3. WindowTypes
  BY <1>0, <1>2, LimitsAssumption DEF LimitsInit, WindowTypes, NoRequest
<1>4. \A t : InWindow({}, t) = {} /\ Spent({}, t) = 0
  BY FS_EmptySet DEF InWindow, Spent
<1>5. ASSUME NEW t \in Nat, NEW k \in Windowed
      PROVE  CallsBound(k, t)
  BY <1>4, LimitsAssumption DEF LimitsInit, CallsBound
<1>6. ASSUME NEW t \in Nat
      PROVE  ReadsBound(t)
  <2>1. Due(t) \in SUBSET LRequests /\ \A r \in LRequests : lreq[r].pc = "idle"
    BY DEF Due, LimitsInit, NoRequest
  <2>2. Due(t) = {}
    BY <2>1 DEF Due
  <2>3. Cardinality(Due(t)) = 0
    BY <2>2, FS_EmptySet
  <2>4. PICK n \in Nat : n = Cardinality(LRequests) * MaxChunk
    BY RequestsFinite, LimitsAssumption
  <2>5. moved = {} /\ quota \in Quotas /\ quota \in Nat /\ MaxChunk \in Nat
    BY LimitsAssumption DEF LimitsInit
  <2>6. Spent(moved, t) + Cardinality(Due(t)) * MaxChunk = 0
    BY <1>4, <2>3, <2>5
  <2> QED
    BY <1>4, <2>4, <2>5, <2>6 DEF ReadsBound
<1> QED
  BY <1>1, <1>3, <1>5, <1>6 DEF WindowInv

\* What a step makes of the request r that takes it: who may still ask read the
\* clock now, and who may enter bytes was let through for a read.
LEMMA Moves ==
  ASSUME WindowInv, NEW r \in LRequests,
         \/ Ask(r) \/ RateAllow(r) \/ QuotaAllow(r) \/ Unlimited(r) \/ CircuitAllow(r)
         \/ Answered(r) \/ Unrecorded(r) \/ Failed(r) \/ Consume(r) \/ CircuitFailure(r)
  PROVE  /\ now' = now /\ quota' = quota
         /\ \E q : /\ lreq' = [lreq EXCEPT ![r] = q]
                   /\ q.at <= now /\ q.bytes <= MaxChunk
                   /\ q.pc = "limiting" => q.at = now
                   /\ q.pc \in {"checking", "calling"} /\ q.kind = "file" =>
                        lreq[r].kind = "file" /\ lreq[r].pc \in {"limiting", "checking", "calling"}
                   /\ q.pc = "metering" =>
                        q.at = now /\ lreq[r].pc = "calling" /\ lreq[r].kind = "file"
<1>1. now' = now /\ quota' = quota
  BY DEF Ask, RateAllow, QuotaAllow, Unlimited, CircuitAllow, Answered, Unrecorded, Failed, Consume,
         CircuitFailure, limiters
<1>2. now \in Nat /\ lreq[r] \in LRecords /\ lreq[r].at <= now /\ lreq[r].bytes <= MaxChunk
  BY DEF WindowInv, BreakerInv, WindowTypes
<1>3. NoRequest.pc = "idle" /\ NoRequest.at <= now /\ NoRequest.bytes <= MaxChunk
  BY <1>2, LimitsAssumption DEF NoRequest
<1> DEFINE Fits(q) ==
  /\ lreq' = [lreq EXCEPT ![r] = q]
  /\ q.at <= now /\ q.bytes <= MaxChunk
  /\ q.pc = "limiting" => q.at = now
  /\ q.pc \in {"checking", "calling"} /\ q.kind = "file" =>
       lreq[r].kind = "file" /\ lreq[r].pc \in {"limiting", "checking", "calling"}
  /\ q.pc = "metering" =>
       q.at = now /\ lreq[r].pc = "calling" /\ lreq[r].kind = "file"
<1>4. lreq' = [lreq EXCEPT ![r] = NoRequest] => Fits(NoRequest)
  BY <1>3
<1>5. ASSUME NEW p \in {"checking", "calling"}, NEW q, q = [lreq[r] EXCEPT !.pc = p],
             lreq' = [lreq EXCEPT ![r] = q],
             lreq[r].kind = "file" => lreq[r].pc \in {"limiting", "checking", "calling"}
      PROVE  Fits(q)
  <2>1. q.pc = p /\ q.at = lreq[r].at /\ q.bytes = lreq[r].bytes /\ q.kind = lreq[r].kind
    BY <1>2, <1>5 DEF LRecords
  <2> QED
    BY <1>2, <1>5, <2>1
<1>6. CASE Ask(r)
  <2>0. PICK k \in Kinds :
          lreq' = [lreq EXCEPT ![r] = [NoRequest EXCEPT !.pc = "limiting", !.kind = k, !.at = now]]
    BY <1>6 DEF Ask
  <2>1. PICK q : /\ q = [NoRequest EXCEPT !.pc = "limiting", !.kind = k, !.at = now]
                 /\ lreq' = [lreq EXCEPT ![r] = q]
    BY <2>0
  <2>2. q.pc = "limiting" /\ q.at = now /\ q.bytes = 0
    BY <2>1 DEF NoRequest
  <2>3. Fits(q)
    BY <1>2, <2>1, <2>2, LimitsAssumption
  <2> QED
    BY <1>1, <2>3
<1>7. CASE RateAllow(r) \/ QuotaAllow(r) \/ Unlimited(r) \/ CircuitAllow(r) \/ Unrecorded(r)
             \/ Consume(r) \/ CircuitFailure(r)
  <2>1. \/ lreq' = [lreq EXCEPT ![r] = NoRequest]
        \/ /\ lreq' = [lreq EXCEPT ![r] = [lreq[r] EXCEPT !.pc = "checking"]]
           /\ lreq[r].pc = "limiting"
        \/ /\ lreq' = [lreq EXCEPT ![r] = [lreq[r] EXCEPT !.pc = "calling"]]
           /\ lreq[r].pc = "checking"
    BY <1>7 DEF RateAllow, QuotaAllow, Unlimited, CircuitAllow, Unrecorded, Consume, CircuitFailure
  <2>2. \E q : Fits(q)
    BY <1>4, <1>5, <2>1
  <2> QED
    BY <1>1, <2>2
<1>8. CASE Failed(r)
  <2>1. PICK q : q = [lreq[r] EXCEPT !.pc = "recording", !.at = now]
    OBVIOUS
  <2>2. lreq' = [lreq EXCEPT ![r] = q]
    BY <1>8, <2>1 DEF Failed, WindowInv, BreakerInv
  <2>3. q.pc = "recording" /\ q.at = now /\ q.bytes = lreq[r].bytes
    BY <1>2, <2>1 DEF LRecords
  <2>4. Fits(q)
    BY <1>2, <2>2, <2>3
  <2> QED
    BY <1>1, <2>4
<1>9. CASE Answered(r)
  <2>0. PICK n \in 0..MaxChunk :
          lreq' = [lreq EXCEPT ![r] = IF lreq[r].kind = "file" /\ n > 0
                                        THEN [lreq[r] EXCEPT !.pc = "metering", !.at = now, !.bytes = n]
                                        ELSE NoRequest]
    BY <1>9 DEF Answered
  <2>1. CASE lreq[r].kind = "file" /\ n > 0
    <3>1. PICK q : /\ q = [lreq[r] EXCEPT !.pc = "metering", !.at = now, !.bytes = n]
                   /\ lreq' = [lreq EXCEPT ![r] = q]
      BY <2>0, <2>1
    <3>2. q.pc = "metering" /\ q.at = now /\ q.bytes = n
      BY <1>2, <3>1 DEF LRecords
    <3>3. lreq[r].pc = "calling"
      BY <1>9 DEF Answered
    <3>4. n <= MaxChunk
      BY LimitsAssumption
    <3>5. Fits(q)
      BY <1>2, <2>1, <3>1, <3>2, <3>3, <3>4
    <3> QED
      BY <1>1, <3>5
  <2>2. CASE ~(lreq[r].kind = "file" /\ n > 0)
    <3>1. lreq' = [lreq EXCEPT ![r] = NoRequest]
      BY <2>0, <2>2
    <3>2. Fits(NoRequest)
      BY <1>4, <3>1
    <3> QED
      BY <1>1, <3>2
  <2> QED
    BY <2>1, <2>2
<1> QED
  BY <1>6, <1>7, <1>8, <1>9

\* A step without a request.
LEMMA Passes ==
  ASSUME WindowInv, SetLimit \/ Tick \/ UNCHANGED limitsVars
  PROVE  /\ now' \in Nat /\ now <= now' /\ quota' \in Quotas
         /\ UNCHANGED <<hits, reads, lreq, letThrough, moved>>
<1>1. now \in Nat /\ quota \in Quotas
  BY DEF WindowInv, BreakerInv, WindowTypes
<1> QED
  BY <1>1 DEF SetLimit, Tick, limitsVars, limiters, limitsHistory

\* What the limiter of calls does for the request r: it drops what left the
\* window, and adds one new hit to what it holds and to what it let through.
LEMMA Allows ==
  ASSUME WindowInv, NEW r \in LRequests, RateAllow(r), NEW k, k = lreq[r].kind
  PROVE  \E recent, hit :
           /\ k \in Windowed /\ lreq[r].pc = "limiting"
           /\ recent = {h \in hits[k] : After(h[1], lreq[r].at)}
           /\ hit = Entered(letThrough[k], lreq[r].at, 1)
           /\ \/ /\ hits' = [hits EXCEPT ![k] = recent]
                 /\ letThrough' = letThrough
              \/ /\ Cardinality(recent) < CallLimit
                 /\ hits' = [hits EXCEPT ![k] = recent \cup hit]
                 /\ letThrough' = [letThrough EXCEPT ![k] = letThrough[k] \cup hit]
<1>1. PICK recent : recent = {h \in hits[k] : After(h[1], lreq[r].at)}
  OBVIOUS
<1>2. PICK hit : hit = Entered(letThrough[k], lreq[r].at, 1)
  OBVIOUS
<1>3. k \in Windowed /\ lreq[r].pc = "limiting"
  BY DEF RateAllow
<1>4. IF Cardinality(recent) >= CallLimit
        THEN hits' = [hits EXCEPT ![k] = recent] /\ letThrough' = letThrough
        ELSE /\ hits' = [hits EXCEPT ![k] = recent \cup hit]
             /\ letThrough' = [letThrough EXCEPT ![k] = letThrough[k] \cup hit]
  BY <1>1, <1>2 DEF RateAllow
<1>5. Cardinality(recent) \in Nat /\ CallLimit \in Nat
  <2>1. recent \in SUBSET letThrough[k] /\ IsFiniteSet(letThrough[k])
    BY <1>1, <1>3 DEF WindowInv, WindowTypes, Numbered
  <2> QED
    BY <2>1, FS_Subset, FS_CardinalityType, LimitsAssumption
<1> QED
  BY <1>1, <1>2, <1>3, <1>4, <1>5

LEMMA StepWindowTypes == WindowInv /\ [LimitsNext]_limitsVars => WindowTypes'
<1> SUFFICES ASSUME WindowInv, [LimitsNext]_limitsVars
             PROVE  WindowTypes'
  OBVIOUS
<1>0. /\ now \in Nat /\ quota \in Quotas
      /\ lreq \in [LRequests -> LRecords]
      /\ \A r \in LRequests : lreq[r].at \in Nat /\ lreq[r].at <= now /\ lreq[r].bytes \in Nat /\ lreq[r].bytes <= MaxChunk
      /\ hits = [k \in Windowed |-> hits[k]]
      /\ letThrough = [k \in Windowed |-> letThrough[k]]
      /\ \A k \in Windowed : Numbered(letThrough[k]) /\ hits[k] \subseteq letThrough[k]
      /\ Numbered(moved) /\ reads \subseteq moved
  BY DEF WindowInv, BreakerInv, WindowTypes, LRecords
<1> DEFINE Calls == /\ hits' = [k \in Windowed |-> hits'[k]]
                    /\ letThrough' = [k \in Windowed |-> letThrough'[k]]
                    /\ \A k \in Windowed : Numbered(letThrough'[k]) /\ hits'[k] \subseteq letThrough'[k]
           Reads == Numbered(moved') /\ reads' \subseteq moved'
           Fits == /\ quota' \in Quotas
                   /\ \A r \in LRequests : lreq'[r].at <= now' /\ lreq'[r].bytes <= MaxChunk
<1>1. UNCHANGED <<hits, letThrough>> => Calls
  BY <1>0
<1>2. reads' \subseteq reads /\ moved' = moved => Reads
  BY <1>0
<1>3. CASE SetLimit \/ Tick \/ UNCHANGED limitsVars
  <2>1. /\ now' \in Nat /\ now <= now' /\ quota' \in Quotas
        /\ UNCHANGED <<hits, reads, lreq, letThrough, moved>>
    BY <1>3, Passes
  <2>2. \A r \in LRequests : lreq[r].at <= now'
    BY <1>0, <2>1
  <2> QED
    BY <1>0, <2>1, <2>2 DEF WindowTypes
<1>4. ASSUME NEW r \in LRequests,
             \/ Ask(r) \/ RateAllow(r) \/ QuotaAllow(r) \/ Unlimited(r) \/ CircuitAllow(r)
             \/ Answered(r) \/ Unrecorded(r) \/ Failed(r) \/ Consume(r) \/ CircuitFailure(r)
      PROVE  WindowTypes'
  <2>1. Fits
    <3>1. PICK q : now' = now /\ quota' = quota /\ lreq' = [lreq EXCEPT ![r] = q] /\ q.at <= now /\ q.bytes <= MaxChunk
      BY <1>4, Moves
    <3> QED
      BY <1>0, <3>1
  <2>2. Calls
    <3>1. CASE RateAllow(r)
      <4>1. PICK k : k = lreq[r].kind
        OBVIOUS
      <4>2. PICK recent, hit :
              /\ k \in Windowed /\ lreq[r].pc = "limiting"
              /\ recent = {h \in hits[k] : After(h[1], lreq[r].at)}
              /\ hit = Entered(letThrough[k], lreq[r].at, 1)
              /\ \/ /\ hits' = [hits EXCEPT ![k] = recent]
                    /\ letThrough' = letThrough
                 \/ /\ Cardinality(recent) < CallLimit
                    /\ hits' = [hits EXCEPT ![k] = recent \cup hit]
                    /\ letThrough' = [letThrough EXCEPT ![k] = letThrough[k] \cup hit]
        BY <3>1, <4>1, Allows
      <4>3. Numbered(letThrough[k]) /\ lreq[r].at \in Nat /\ 1 \in Nat
        BY <1>0, <4>2
      <4>4. Numbered(letThrough[k] \cup hit)
        BY <4>2, <4>3, EnteredIsNew
      <4>5. recent \subseteq letThrough[k]
        BY <1>0, <4>2
      <4>6. PICK all : all = letThrough[k] \cup hit
        OBVIOUS
      <4>7. PICK held : held = recent \cup hit
        OBVIOUS
      <4>8. CASE hits' = [hits EXCEPT ![k] = recent] /\ letThrough' = letThrough
        BY <1>0, <4>2, <4>5, <4>8
      <4>9. CASE hits' = [hits EXCEPT ![k] = held] /\ letThrough' = [letThrough EXCEPT ![k] = all]
        <5>1. Numbered(all) /\ held \subseteq all
          BY <4>4, <4>5, <4>6, <4>7
        <5> QED
          BY <1>0, <4>2, <4>9, <5>1
      <4> QED
        BY <4>2, <4>6, <4>7, <4>8, <4>9
    <3>2. CASE ~RateAllow(r)
      BY <1>1, <1>4, <3>2 DEF Ask, QuotaAllow, Unlimited, CircuitAllow, Answered, Unrecorded, Failed, Consume,
                              CircuitFailure, limiters, limitsHistory
    <3> QED
      BY <3>1, <3>2
  <2>3. Reads
    <3>1. CASE QuotaAllow(r)
      BY <1>2, <3>1 DEF QuotaAllow, limitsHistory
    <3>2. CASE Consume(r)
      <4>1. PICK bytes : bytes = Entered(moved, lreq[r].at, lreq[r].bytes)
        OBVIOUS
      <4>2. reads' = reads \cup bytes /\ moved' = moved \cup bytes
        BY <3>2, <4>1 DEF Consume
      <4>3. Numbered(moved \cup bytes)
        BY <1>0, <4>1, EnteredIsNew
      <4> QED
        BY <1>0, <4>2, <4>3
    <3>3. CASE ~(QuotaAllow(r) \/ Consume(r))
      BY <1>2, <1>4, <3>3 DEF Ask, RateAllow, Unlimited, CircuitAllow, Answered, Unrecorded, Failed,
                              CircuitFailure, limiters, limitsHistory
    <3> QED
      BY <3>1, <3>2, <3>3
  <2> QED
    BY <2>1, <2>2, <2>3 DEF WindowTypes
<1> QED
  BY <1>3, <1>4 DEF LimitsNext

\* A step that neither holds nor lets through other calls of kind k.
LEMMA CallsStay ==
  ASSUME WindowInv, NEW k \in Windowed, NEW t \in Nat,
         now' \in Nat, now <= now', hits'[k] = hits[k], letThrough'[k] = letThrough[k],
         now > t => Late(k, t)' \subseteq Late(k, t)
  PROVE  CallsBound(k, t)'
<1>0. now \in Nat /\ CallsBound(k, t) /\ IsFiniteSet(letThrough[k])
  BY DEF WindowInv, BreakerInv, WindowTypes, Numbered
<1>1. CASE InWindow(letThrough[k], t) \subseteq hits[k] /\ Spent(letThrough[k], t) <= CallLimit
  BY <1>1 DEF CallsBound
<1>2. CASE /\ now > t
           /\ Spent(letThrough[k], t) + Cardinality(Late(k, t)) + 1 <= CallLimit + Cardinality(LRequests)
  <2>1. now' > t
    BY <1>0, <1>2
  <2>2. Late(k, t) \in SUBSET LRequests /\ Late(k, t)' \in SUBSET Late(k, t)
    BY <1>2 DEF Late
  <2>3. PICK a \in Nat : a = Cardinality(Late(k, t))
    BY <2>2, RequestsFinite
  <2>4. PICK b \in Nat : b = Cardinality(Late(k, t)')
    BY <2>2, RequestsFinite
  <2>5. b <= a
    BY <2>2, <2>3, <2>4, RequestsFinite
  <2>6. PICK n \in Nat : n = Spent(letThrough[k], t)
    BY <1>0, WindowFinite
  <2>7. PICK c \in Nat : c = CallLimit + Cardinality(LRequests)
    BY RequestsFinite, LimitsAssumption
  <2>8. n + b + 1 <= c
    BY <1>2, <2>3, <2>5, <2>6, <2>7
  <2>9. Spent(letThrough[k], t)' = n
    BY <2>6
  <2> QED
    BY <2>1, <2>4, <2>7, <2>8, <2>9 DEF CallsBound
<1> QED
  BY <1>0, <1>1, <1>2 DEF CallsBound

LEMMA StepCalls ==
  ASSUME WindowInv, NEW k \in Windowed, NEW t \in Nat, NEW r \in LRequests, RateAllow(r), lreq[r].kind = k
  PROVE  CallsBound(k, t)'
<1>1. PICK recent, hit :
        /\ k \in Windowed /\ lreq[r].pc = "limiting"
        /\ recent = {h \in hits[k] : After(h[1], lreq[r].at)}
        /\ hit = Entered(letThrough[k], lreq[r].at, 1)
        /\ \/ /\ hits' = [hits EXCEPT ![k] = recent]
              /\ letThrough' = letThrough
           \/ /\ Cardinality(recent) < CallLimit
              /\ hits' = [hits EXCEPT ![k] = recent \cup hit]
              /\ letThrough' = [letThrough EXCEPT ![k] = letThrough[k] \cup hit]
  BY Allows
<1>2. PICK a \in Nat : a = lreq[r].at /\ a <= now
  BY DEF WindowInv, BreakerInv, WindowTypes, LRecords
<1>3. now \in Nat /\ now' = now
  BY Moves DEF WindowInv, BreakerInv
<1>4. PICK let : let = letThrough[k]
  OBVIOUS
<1>5. PICK all : all = letThrough'[k]
  OBVIOUS
<1>6. Numbered(let) /\ IsFiniteSet(let) /\ hits[k] \subseteq let /\ \A h \in let : h[1] \in Nat
  BY <1>4 DEF WindowInv, WindowTypes, Numbered
<1>7. k \in DOMAIN hits /\ k \in DOMAIN letThrough
  BY DEF WindowInv, WindowTypes
<1>8. \/ hits'[k] = recent /\ all = let
      \/ Cardinality(recent) < CallLimit /\ hits'[k] = recent \cup hit /\ all = let \cup hit
  BY <1>1, <1>4, <1>5, <1>7
<1>9. /\ IsFiniteSet(hit) /\ Cardinality(hit) = 1
      /\ \A h \in hit : h[1] = a
  <2>1. hit = Entered(let, a, 1) /\ 1 \in Nat
    BY <1>1, <1>2, <1>4
  <2>2. IsFiniteSet(hit) /\ Cardinality(hit) = 1
    <3>1. IsFiniteSet(Entered(let, a, 1)) /\ Cardinality(Entered(let, a, 1)) = 1
      BY <1>6, <2>1, EnteredCounts
    <3> QED
      BY <2>1, <3>1
  <2>3. \A h \in hit : h[1] = a
    BY <2>1 DEF Entered
  <2> QED
    BY <2>2, <2>3
<1>10. PICK q : lreq' = [lreq EXCEPT ![r] = q] /\ q.pc # "limiting"
  <2>1. lreq \in [LRequests -> LRecords]
    BY DEF WindowInv, BreakerInv
  <2>2. lreq' = [lreq EXCEPT ![r] = NoRequest] \/ lreq' = [lreq EXCEPT ![r] = [lreq[r] EXCEPT !.pc = "checking"]]
    BY DEF RateAllow
  <2>3. NoRequest.pc # "limiting" /\ [lreq[r] EXCEPT !.pc = "checking"].pc # "limiting"
    BY <2>1 DEF NoRequest, LRecords
  <2> QED
    BY <2>2, <2>3
<1>11. Late(k, t)' \in SUBSET (Late(k, t) \ {r}) /\ Late(k, t) \in SUBSET LRequests /\ Late(k, t)' \in SUBSET LRequests
  BY <1>10 DEF Late, WindowInv, BreakerInv
<1>12. PICK m \in Nat : m = Cardinality(LRequests) /\ m >= 1
  <2>1. {} \in SUBSET LRequests /\ r \in LRequests \ {}
    OBVIOUS
  <2>2. Cardinality({}) = 0
    BY FS_EmptySet
  <2> QED
    BY <2>1, <2>2, RequestsFinite
<1>13. PICK later \in Nat : later = Cardinality(Late(k, t)')
  BY <1>11, RequestsFinite
<1>14. PICK before \in Nat : before = Cardinality(Late(k, t))
  BY <1>11, RequestsFinite
<1>15. PICK had \in Nat : had = Spent(let, t)
  BY <1>6, WindowFinite
<1>16. IsFiniteSet(all)
  <2>1. IsFiniteSet(let \cup hit)
    BY <1>6, <1>9, FS_Union
  <2> QED
    BY <1>6, <1>8, <2>1
<1>17. PICK has \in Nat : has = Spent(all, t)
  BY <1>16, WindowFinite
<1>18. PICK c \in Nat : c = CallLimit
  BY LimitsAssumption
<1>19. has <= had + 1
  <2>1. CASE all = let
    BY <1>15, <1>17, <2>1
  <2>2. CASE all = let \cup hit
    BY <1>6, <1>9, <1>15, <1>17, <2>2, WindowGrows
  <2> QED
    BY <1>8, <2>1, <2>2
<1>20. a > t => has = had
  <2>1. CASE all = let
    BY <1>15, <1>17, <2>1
  <2>2. CASE all = let \cup hit
    <3>1. \A h \in hit : h[1] = a
      BY <1>9
    <3>2. a > t => Spent(let \cup hit, t) = Spent(let, t)
      BY <3>1, WindowStays
    <3> QED
      BY <1>15, <1>17, <2>2, <3>2
  <2> QED
    BY <1>8, <2>1, <2>2
<1>21. now' > t /\ has + later + 1 <= c + m => CallsBound(k, t)'
  <2>1. Spent(letThrough[k], t)' = has
    BY <1>5, <1>17
  <2> QED
    BY <1>12, <1>13, <1>18, <2>1 DEF CallsBound
<1>22. CASE InWindow(let, t) \subseteq hits[k] /\ had <= c
  <2>1. CASE a <= t
    <3>1. InWindow(let, t) \subseteq recent
      BY <1>1, <1>2, <1>6, <1>22, <2>1, WindowKept
    <3>2. InWindow(all, t) \subseteq hits'[k]
      <4>1. CASE all = let /\ hits'[k] = recent
        BY <3>1, <4>1
      <4>2. CASE all = let \cup hit /\ hits'[k] = recent \cup hit
        <5>1. InWindow(let \cup hit, t) \subseteq InWindow(let, t) \cup hit
          BY DEF InWindow
        <5> QED
          BY <3>1, <4>2, <5>1
      <4> QED
        BY <1>8, <4>1, <4>2
    <3>3. has <= c
      <4>1. CASE all = let
        BY <1>15, <1>17, <1>22, <4>1
      <4>2. CASE Cardinality(recent) < CallLimit /\ all = let \cup hit
        <5>1. IsFiniteSet(recent)
          <6>1. recent \in SUBSET let
            BY <1>1, <1>6
          <6> QED
            BY <1>6, <6>1, FS_Subset
        <5>2. had <= Cardinality(recent) /\ Cardinality(recent) \in Nat
          <6>1. InWindow(let, t) \in SUBSET recent
            BY <3>1
          <6> QED
            BY <1>15, <5>1, <6>1, FS_Subset, FS_CardinalityType DEF Spent
        <5> QED
          BY <1>18, <1>19, <4>2, <5>2
      <4> QED
        BY <1>8, <4>1, <4>2
    <3>4. Spent(letThrough[k], t)' = has /\ InWindow(letThrough[k], t)' = InWindow(all, t)
      BY <1>5, <1>17
    <3> QED
      BY <1>5, <1>18, <3>2, <3>3, <3>4 DEF CallsBound
  <2>2. CASE a > t
    <3>1. now' > t
      BY <1>2, <1>3, <2>2
    <3>2. later + 1 <= m
      <4>1. r \in LRequests \ Late(k, t)'
        BY <1>11
      <4> QED
        BY <1>11, <1>12, <1>13, <4>1, RequestsFinite
    <3> QED
      BY <1>20, <1>21, <1>22, <2>2, <3>1, <3>2
  <2> QED
    BY <1>2, <2>1, <2>2
<1>23. CASE now > t /\ had + before + 1 <= c + m
  <2>1. later <= before
    BY <1>11, <1>13, <1>14, RequestsFinite
  <2>2. CASE a <= t
    <3>1. r \in Late(k, t)
      BY <1>1, <1>2, <2>2 DEF Late
    <3>2. later + 1 <= before
      <4>1. Late(k, t) \ {r} \in SUBSET LRequests
        BY <1>11
      <4>2. Cardinality(Late(k, t) \ {r}) + 1 = before
        BY <1>11, <1>14, <3>1, RequestsFinite
      <4>3. PICK n \in Nat : n = Cardinality(Late(k, t) \ {r})
        BY <4>1, RequestsFinite
      <4>4. later <= n
        BY <1>11, <1>13, <4>1, <4>3, RequestsFinite
      <4> QED
        BY <4>2, <4>3, <4>4
    <3> QED
      BY <1>3, <1>19, <1>21, <1>23, <3>2
  <2>3. CASE a > t
    BY <1>3, <1>20, <1>21, <1>23, <2>1, <2>3
  <2> QED
    BY <1>2, <2>2, <2>3
<1>24. CallsBound(k, t)
  BY DEF WindowInv
<1> QED
  BY <1>4, <1>12, <1>14, <1>15, <1>18, <1>22, <1>23, <1>24 DEF CallsBound

\* What as many requests as a may read, and one more.
LEMMA Chunks ==
  ASSUME NEW a \in Nat, NEW b \in Nat, a <= b, NEW m \in Nat
  PROVE  /\ a * m \in Nat /\ a * m <= b * m
         /\ (a + 1) * m = a * m + m
<1>1. PICK d \in Nat : b = a + d
  <2>1. b - a \in Nat /\ b = a + (b - a)
    OBVIOUS
  <2> QED
    BY <2>1
<1>2. b * m = a * m + d * m /\ d * m \in Nat /\ a * m \in Nat
  BY <1>1
<1> QED
  BY <1>2

\* A step that neither drops nor enters bytes, and lets nobody through to them.
LEMMA ReadsStay ==
  ASSUME WindowInv, NEW t \in Nat, now' \in Nat, now <= now', moved' = moved,
         now' <= t => InWindow(moved, t) \subseteq reads',
         Due(t)' \subseteq Due(t)
  PROVE  ReadsBound(t)'
<1>1. ReadsBound(t) /\ IsFiniteSet(moved)
  BY DEF WindowInv, WindowTypes, Numbered
<1>2. PICK quotum \in Quotas :
        Spent(moved, t) + Cardinality(Due(t)) * MaxChunk <= quotum + Cardinality(LRequests) * MaxChunk
  BY <1>1 DEF ReadsBound
<1>3. Due(t) \in SUBSET LRequests /\ Due(t)' \in SUBSET Due(t)
  BY DEF Due
<1>4. PICK a \in Nat : a = Cardinality(Due(t)')
  BY <1>3, RequestsFinite
<1>5. PICK b \in Nat : b = Cardinality(Due(t))
  BY <1>3, RequestsFinite
<1>6. a <= b
  BY <1>3, <1>4, <1>5, RequestsFinite
<1>7. MaxChunk \in Nat /\ quotum \in Nat
  BY LimitsAssumption
<1>8. a * MaxChunk \in Nat /\ b * MaxChunk \in Nat /\ a * MaxChunk <= b * MaxChunk
  BY <1>6, <1>7, Chunks
<1>9. PICK n \in Nat : n = Spent(moved, t)
  BY <1>1, WindowFinite
<1>10. PICK c \in Nat : c = quotum + Cardinality(LRequests) * MaxChunk
  BY <1>7, RequestsFinite
<1>11. n + a * MaxChunk <= c
  BY <1>2, <1>5, <1>8, <1>9, <1>10
<1>12. Spent(moved, t)' = n /\ InWindow(moved, t)' = InWindow(moved, t)
  BY <1>9
<1> QED
  BY <1>4, <1>10, <1>11, <1>12 DEF ReadsBound

LEMMA StepQuota ==
  ASSUME WindowInv, NEW t \in Nat, NEW r \in LRequests, QuotaAllow(r)
  PROVE  ReadsBound(t)'
<1>1. PICK recent : recent = {h \in reads : After(h[1], lreq[r].at)}
  OBVIOUS
<1>2. reads' = recent /\ moved' = moved /\ lreq[r].pc = "limiting"
  BY <1>1 DEF QuotaAllow, limitsHistory
<1>3. now \in Nat /\ now' = now /\ quota \in Quotas /\ quota \in Nat
  BY Moves, LimitsAssumption DEF WindowInv, BreakerInv, WindowTypes
<1>4. lreq \in [LRequests -> LRecords] /\ lreq[r].at \in Nat /\ lreq[r].at <= now
  BY DEF WindowInv, BreakerInv, WindowTypes, LRecords
<1>5. IsFiniteSet(moved) /\ reads \subseteq moved /\ \A h \in moved : h[1] \in Nat
  BY DEF WindowInv, WindowTypes, Numbered
<1>6. ASSUME now <= t
      PROVE  InWindow(moved, t) \subseteq recent
  <2>1. InWindow(moved, t) \subseteq reads
    BY <1>6 DEF WindowInv, ReadsBound
  <2>2. lreq[r].at <= t
    BY <1>3, <1>4, <1>6
  <2> QED
    BY <1>1, <1>4, <1>5, <2>1, <2>2, WindowKept
<1>7. CASE now > t \/ Cardinality(recent) >= quota
  <2>1. \/ lreq' = [lreq EXCEPT ![r] = NoRequest]
        \/ now > t /\ lreq' = [lreq EXCEPT ![r] = [lreq[r] EXCEPT !.pc = "checking"]]
    BY <1>1, <1>7 DEF QuotaAllow
  <2>2. Due(t)' \subseteq Due(t)
    <3>1. CASE lreq' = [lreq EXCEPT ![r] = NoRequest]
      BY <1>3, <1>4, <3>1 DEF Due, NoRequest
    <3>2. CASE now > t /\ lreq' = [lreq EXCEPT ![r] = [lreq[r] EXCEPT !.pc = "checking"]]
      <4>1. PICK q : q = [lreq[r] EXCEPT !.pc = "checking"]
        OBVIOUS
      <4>2. q.pc = "checking" /\ lreq' = [lreq EXCEPT ![r] = q]
        BY <1>4, <3>2, <4>1 DEF LRecords
      <4> QED
        BY <1>3, <1>4, <3>2, <4>2 DEF Due
    <3> QED
      BY <2>1, <3>1, <3>2
  <2> QED
    BY <1>2, <1>3, <1>6, <2>2, ReadsStay
<1>8. CASE now <= t /\ ~(Cardinality(recent) >= quota)
  <2>1. InWindow(moved, t) \in SUBSET recent /\ IsFiniteSet(recent)
    <3>1. recent \in SUBSET moved
      BY <1>1, <1>5
    <3> QED
      BY <1>5, <1>6, <1>8, <3>1, FS_Subset
  <2>2. PICK n \in Nat : n = Spent(moved, t)
    BY <1>5, WindowFinite
  <2>3. n <= Cardinality(recent) /\ Cardinality(recent) \in Nat
    BY <2>1, <2>2, FS_Subset, FS_CardinalityType DEF Spent
  <2>4. n <= quota
    BY <1>3, <1>8, <2>3
  <2>5. Due(t)' \in SUBSET LRequests
    BY DEF Due
  <2>6. PICK d \in Nat : d = Cardinality(Due(t)')
    BY <2>5, RequestsFinite
  <2>7. PICK m \in Nat : m = Cardinality(LRequests) /\ d <= m
    BY <2>5, <2>6, RequestsFinite
  <2>8. MaxChunk \in Nat /\ d * MaxChunk \in Nat /\ m * MaxChunk \in Nat /\ d * MaxChunk <= m * MaxChunk
    BY <2>7, LimitsAssumption, Chunks
  <2>9. n + d * MaxChunk <= quota + m * MaxChunk
    BY <1>3, <2>4, <2>8
  <2>10. Spent(moved, t)' = n /\ InWindow(moved, t)' = InWindow(moved, t)
    BY <1>2, <2>2
  <2>11. (\E qq \in Quotas :
           Spent(moved, t) + Cardinality(Due(t)) * MaxChunk <= qq + Cardinality(LRequests) * MaxChunk)'
    BY <1>3, <2>6, <2>7, <2>9, <2>10
  <2> QED
    BY <1>2, <1>6, <1>8, <2>10, <2>11 DEF ReadsBound
<1>9. recent \in SUBSET moved /\ Cardinality(recent) \in Nat
  <2>1. recent \in SUBSET moved
    BY <1>1, <1>5
  <2> QED
    BY <1>5, <2>1, FS_Subset, FS_CardinalityType
<1> QED
  BY <1>3, <1>7, <1>8, <1>9

LEMMA StepConsume ==
  ASSUME WindowInv, NEW t \in Nat, NEW r \in LRequests, Consume(r)
  PROVE  ReadsBound(t)'
<1>1. lreq \in [LRequests -> LRecords] /\ MaxChunk \in Nat /\ now \in Nat
  BY LimitsAssumption DEF WindowInv, BreakerInv
<1>2. PICK a \in Nat : a = lreq[r].at
  BY <1>1 DEF LRecords
<1>3. PICK n \in Nat : n = lreq[r].bytes /\ n <= MaxChunk
  BY <1>1 DEF LRecords, WindowInv, WindowTypes
<1>4. PICK bytes : bytes = Entered(moved, a, n)
  OBVIOUS
<1>5. PICK all : all = moved \cup bytes
  OBVIOUS
<1>6. /\ lreq[r].pc = "metering" /\ now' = now
      /\ reads' = reads \cup bytes /\ moved' = all
      /\ lreq' = [lreq EXCEPT ![r] = NoRequest]
  BY <1>2, <1>3, <1>4, <1>5 DEF Consume
<1>7. Numbered(moved) /\ IsFiniteSet(moved)
  BY DEF WindowInv, WindowTypes, Numbered
<1>8. IsFiniteSet(bytes) /\ Cardinality(bytes) = n /\ \A h \in bytes : h[1] = a
  <2>1. IsFiniteSet(bytes) /\ Cardinality(bytes) = n
    <3>1. IsFiniteSet(Entered(moved, a, n)) /\ Cardinality(Entered(moved, a, n)) = n
      BY <1>7, EnteredCounts
    <3> QED
      BY <1>4, <3>1
  <2>2. \A h \in bytes : h[1] = a
    BY <1>4 DEF Entered
  <2> QED
    BY <2>1, <2>2
<1>9. IsFiniteSet(all)
  <2>1. IsFiniteSet(moved \cup bytes)
    BY <1>7, <1>8, FS_Union
  <2> QED
    BY <1>5, <2>1
<1>10. Due(t) \in SUBSET LRequests /\ Due(t)' \in SUBSET (Due(t) \ {r}) /\ Due(t)' \in SUBSET LRequests
  BY <1>1, <1>6 DEF Due, NoRequest
<1>11. ReadsBound(t)
  BY DEF WindowInv
<1>12. PICK quotum \in Quotas :
         Spent(moved, t) + Cardinality(Due(t)) * MaxChunk <= quotum + Cardinality(LRequests) * MaxChunk
  BY <1>11 DEF ReadsBound
<1>13. PICK had \in Nat : had = Spent(moved, t)
  BY <1>7, WindowFinite
<1>14. PICK has \in Nat : has = Spent(all, t)
  BY <1>9, WindowFinite
<1>15. PICK before \in Nat : before = Cardinality(Due(t))
  BY <1>10, RequestsFinite
<1>16. PICK later \in Nat : later = Cardinality(Due(t)')
  BY <1>10, RequestsFinite
<1>17. PICK c \in Nat : c = quotum + Cardinality(LRequests) * MaxChunk
  BY <1>1, RequestsFinite, LimitsAssumption
<1>18. had + before * MaxChunk <= c
  BY <1>12, <1>13, <1>15, <1>17
<1>19. has + later * MaxChunk <= c
  <2>1. CASE a <= t
    <3>1. has <= had + n
      BY <1>5, <1>7, <1>8, <1>13, <1>14, WindowGrows
    <3>2. r \in Due(t)
      BY <1>2, <1>6, <2>1 DEF Due
    <3>3. later + 1 <= before
      <4>1. Due(t) \ {r} \in SUBSET LRequests
        BY <1>10
      <4>2. Cardinality(Due(t) \ {r}) + 1 = before
        BY <1>10, <1>15, <3>2, RequestsFinite
      <4>3. PICK m \in Nat : m = Cardinality(Due(t) \ {r})
        BY <4>1, RequestsFinite
      <4>4. later <= m
        BY <1>10, <1>16, <4>1, <4>3, RequestsFinite
      <4> QED
        BY <4>2, <4>3, <4>4
    <3>4. (later + 1) * MaxChunk <= before * MaxChunk /\ before * MaxChunk \in Nat
      <4>1. later + 1 \in Nat
        OBVIOUS
      <4> QED
        BY <1>1, <3>3, <4>1, Chunks
    <3>5. (later + 1) * MaxChunk = later * MaxChunk + MaxChunk /\ later * MaxChunk \in Nat
      BY <1>1, Chunks
    <3> QED
      BY <1>1, <1>3, <1>18, <3>1, <3>4, <3>5
  <2>2. CASE a > t
    <3>1. has = had
      BY <1>5, <1>8, <1>13, <1>14, <2>2, WindowStays
    <3>2. Due(t)' \in SUBSET Due(t)
      BY <1>10
    <3>3. later <= before
      BY <1>10, <1>15, <1>16, <3>2, RequestsFinite
    <3>4. /\ later * MaxChunk \in Nat /\ before * MaxChunk \in Nat
          /\ later * MaxChunk <= before * MaxChunk
      BY <1>1, <3>3, Chunks
    <3> QED
      BY <1>18, <3>1, <3>4
  <2> QED
    BY <2>1, <2>2
<1>20. now <= t => InWindow(all, t) \subseteq reads \cup bytes
  BY <1>5, <1>11 DEF ReadsBound, InWindow
<1>21. Spent(moved, t)' = has /\ InWindow(moved, t)' = InWindow(all, t)
  BY <1>6, <1>14
<1> QED
  BY <1>6, <1>16, <1>17, <1>19, <1>20, <1>21 DEF ReadsBound

LEMMA StepWindow == WindowInv /\ [LimitsNext]_limitsVars => WindowInv'
<1> SUFFICES ASSUME WindowInv, [LimitsNext]_limitsVars
             PROVE  WindowInv'
  OBVIOUS
<1>1. BreakerInv'
  BY StepBreaker DEF WindowInv
<1>2. WindowTypes'
  BY StepWindowTypes
<1>3. now \in Nat /\ lreq \in [LRequests -> LRecords] /\ \A r \in LRequests : lreq[r].at \in Nat
  BY DEF WindowInv, BreakerInv, LRecords
<1>4. ASSUME SetLimit \/ Tick \/ UNCHANGED limitsVars, NEW t \in Nat
      PROVE  (\A k \in Windowed : CallsBound(k, t)') /\ ReadsBound(t)'
  <2>1. /\ now' \in Nat /\ now <= now'
        /\ UNCHANGED <<hits, reads, lreq, letThrough, moved>>
    BY <1>4, Passes
  <2>2. ASSUME NEW k \in Windowed
        PROVE  CallsBound(k, t)'
    <3>1. Late(k, t)' \subseteq Late(k, t)
      BY <2>1 DEF Late
    <3> QED
      BY <2>1, <3>1, CallsStay
  <2>3. Due(t)' \subseteq Due(t)
    BY <1>3, <2>1 DEF Due
  <2>4. now' <= t => InWindow(moved, t) \subseteq reads'
    <3>1. now' <= t => now <= t
      BY <1>3, <2>1
    <3> QED
      BY <2>1, <3>1 DEF WindowInv, ReadsBound
  <2> QED
    BY <2>1, <2>2, <2>3, <2>4, ReadsStay
<1>5. ASSUME NEW r \in LRequests,
             \/ Ask(r) \/ RateAllow(r) \/ QuotaAllow(r) \/ Unlimited(r) \/ CircuitAllow(r)
             \/ Answered(r) \/ Unrecorded(r) \/ Failed(r) \/ Consume(r) \/ CircuitFailure(r),
             NEW t \in Nat
      PROVE  (\A k \in Windowed : CallsBound(k, t)') /\ ReadsBound(t)'
  <2>1. PICK q : /\ now' = now
                 /\ lreq' = [lreq EXCEPT ![r] = q]
                 /\ q.pc = "limiting" => q.at = now
                 /\ q.pc \in {"checking", "calling"} /\ q.kind = "file" =>
                      lreq[r].kind = "file" /\ lreq[r].pc \in {"limiting", "checking", "calling"}
                 /\ q.pc = "metering" =>
                      q.at = now /\ lreq[r].pc = "calling" /\ lreq[r].kind = "file"
    BY <1>5, Moves
  <2>2. ASSUME NEW k \in Windowed
        PROVE  CallsBound(k, t)'
    <3>1. CASE RateAllow(r) /\ lreq[r].kind = k
      BY <3>1, StepCalls
    <3>2. CASE ~(RateAllow(r) /\ lreq[r].kind = k)
      <4>1. hits'[k] = hits[k] /\ letThrough'[k] = letThrough[k]
        <5>1. CASE RateAllow(r)
          <6>1. PICK j : j = lreq[r].kind /\ j # k
            BY <3>2, <5>1
          <6>2. PICK recent, hit :
                  \/ /\ hits' = [hits EXCEPT ![j] = recent]
                     /\ letThrough' = letThrough
                  \/ /\ hits' = [hits EXCEPT ![j] = recent \cup hit]
                     /\ letThrough' = [letThrough EXCEPT ![j] = letThrough[j] \cup hit]
            BY <5>1, <6>1 DEF RateAllow
          <6>3. k \in DOMAIN hits /\ k \in DOMAIN letThrough
            BY DEF WindowInv, WindowTypes
          <6> QED
            BY <6>1, <6>2, <6>3
        <5>2. CASE ~RateAllow(r)
          BY <1>5, <5>2 DEF Ask, QuotaAllow, Unlimited, CircuitAllow, Answered, Unrecorded, Failed, Consume,
                            CircuitFailure, limiters, limitsHistory
        <5> QED
          BY <5>1, <5>2
      <4>2. now > t => Late(k, t)' \subseteq Late(k, t)
        BY <1>3, <2>1 DEF Late
      <4> QED
        BY <1>3, <2>1, <4>1, <4>2, CallsStay
    <3> QED
      BY <3>1, <3>2
  <2>3. ReadsBound(t)'
    <3>1. CASE QuotaAllow(r)
      BY <3>1, StepQuota
    <3>2. CASE Consume(r)
      BY <3>2, StepConsume
    <3>3. CASE ~(QuotaAllow(r) \/ Consume(r))
      <4>1. moved' = moved /\ reads' = reads
        BY <1>5, <3>3 DEF Ask, RateAllow, Unlimited, CircuitAllow, Answered, Unrecorded, Failed,
                          CircuitFailure, limiters, limitsHistory
      <4>2. now' <= t => InWindow(moved, t) \subseteq reads'
        BY <2>1, <4>1 DEF WindowInv, ReadsBound
      <4>3. q.pc \in {"checking", "calling"} /\ q.kind = "file" => lreq[r].pc # "limiting"
        <5>1. CASE Ask(r) \/ Answered(r) \/ Unrecorded(r) \/ Failed(r) \/ CircuitFailure(r) \/ CircuitAllow(r)
          BY <5>1 DEF Ask, Answered, Unrecorded, Failed, CircuitFailure, CircuitAllow
        <5>2. CASE RateAllow(r) \/ Unlimited(r)
          <6>1. lreq[r].kind # "file"
            BY <5>2 DEF RateAllow, Unlimited, Windowed
          <6> QED
            BY <2>1, <6>1
        <5> QED
          BY <1>5, <3>3, <5>1, <5>2
      <4>4. Due(t)' \subseteq Due(t)
        BY <1>3, <2>1, <4>3 DEF Due
      <4> QED
        BY <1>3, <2>1, <4>1, <4>2, <4>4, ReadsStay
    <3> QED
      BY <3>1, <3>2, <3>3
  <2> QED
    BY <2>2, <2>3
<1>6. ASSUME NEW t \in Nat
      PROVE  (\A k \in Windowed : CallsBound(k, t)') /\ ReadsBound(t)'
  BY <1>4, <1>5, <1>6 DEF LimitsNext
<1> QED
  BY <1>1, <1>2, <1>6 DEF WindowInv

\* Requests read the clock before they take the lock of a limiter
\* (peerlink_limits.go, allow), and bytes are entered after they were read
\* (consume).  Yet no window of calls holds more than its limit and one for
\* each other request, and no window of bytes more than a quota and what every
\* request may read.
THEOREM WindowsBounded == LimitsSpec => []WindowsAreBounded
<1>1. WindowInv => WindowsAreBounded
  <2> SUFFICES ASSUME WindowInv, NEW t \in Times
               PROVE  /\ \A k \in Windowed :
                           Spent(letThrough[k], t) <= CallLimit + Cardinality(LRequests) - 1
                      /\ \E q \in Quotas : Spent(moved, t) <= q + Cardinality(LRequests) * MaxChunk
    BY DEF WindowsAreBounded
  <2>0. t \in Nat
    BY LimitsAssumption DEF Times
  <2>1. ASSUME NEW k \in Windowed
        PROVE  Spent(letThrough[k], t) <= CallLimit + Cardinality(LRequests) - 1
    <3>1. CallsBound(k, t)
      BY <2>0 DEF WindowInv
    <3>2. PICK n \in Nat : n = Spent(letThrough[k], t)
      BY WindowFinite DEF WindowInv, WindowTypes, Numbered
    <3>3. PICK c \in Nat, m \in Nat : c = CallLimit /\ m = Cardinality(LRequests)
      BY LimitsAssumption, RequestsFinite
    <3>4. Cardinality(Late(k, t)) \in Nat
      <4>1. Late(k, t) \in SUBSET LRequests
        BY DEF Late
      <4> QED
        BY <4>1, RequestsFinite
    <3>5. m >= 1
      <4>1. PICK r : r \in LRequests \ {}
        BY LimitsAssumption
      <4>2. Cardinality({}) = 0 /\ {} \in SUBSET LRequests
        BY FS_EmptySet
      <4> QED
        BY <3>3, <4>1, <4>2, RequestsFinite
    <3> QED
      BY <3>1, <3>2, <3>3, <3>4, <3>5 DEF CallsBound
  <2>2. \E q \in Quotas : Spent(moved, t) <= q + Cardinality(LRequests) * MaxChunk
    <3>1. PICK q \in Quotas :
            Spent(moved, t) + Cardinality(Due(t)) * MaxChunk <= q + Cardinality(LRequests) * MaxChunk
      BY <2>0 DEF WindowInv, ReadsBound
    <3>2. Due(t) \in SUBSET LRequests
      BY DEF Due
    <3>3. PICK d \in Nat : d = Cardinality(Due(t))
      BY <3>2, RequestsFinite
    <3>4. d * MaxChunk \in Nat
      BY LimitsAssumption
    <3>5. PICK n \in Nat : n = Spent(moved, t)
      BY WindowFinite DEF WindowInv, WindowTypes, Numbered
    <3>6. PICK c \in Nat : c = q + Cardinality(LRequests) * MaxChunk
      BY LimitsAssumption, RequestsFinite
    <3> QED
      BY <3>1, <3>3, <3>4, <3>5, <3>6
  <2> QED
    BY <2>1, <2>2
<1>2. LimitsSpec => []WindowInv
  BY InitWindow, StepWindow, PTL DEF LimitsSpec
<1> QED
  BY <1>1, <1>2, PTL
=============================================================================
