----------------------------- MODULE PairingHub -----------------------------
(***************************************************************************)
(* The hub that pairs devices (internal/peerlink): tickets that are issued *)
(* as QR codes and redeemed once, the peers and session tokens that come   *)
(* of them, and the two files that carry both over a restart.              *)
(*                                                                         *)
(* Requests change the memory under Hub.mu and save it afterwards: each    *)
(* save takes a copy under the lock and writes it without the lock, so     *)
(* that copies may reach a file in another order than they were taken.     *)
(***************************************************************************)
EXTENDS Naturals, FiniteSets

CONSTANTS Devices,      \* devices that pair
          Requests,     \* goroutines of the HTTP handlers
          NoDevice,
          MaxTickets,   \* bound: tickets issued
          MaxExpired,   \* bound: tickets that expire
          MaxTokens,    \* bound: session tokens drawn
          MaxHubBoots   \* bound: restarts of the process

\* Pairing ids and tokens are drawn at random once: here, numbered as drawn.
Tickets == 1..MaxTickets
Tokens == 1..MaxTokens
NoTicket == 0
Files == {"tickets", "peers"}

ASSUME HubAssumption ==
  /\ NoDevice \notin Devices
  /\ MaxTickets \in Nat
  /\ MaxExpired \in Nat
  /\ MaxTokens \in Nat
  /\ MaxHubBoots \in Nat

VARIABLES pending,     \* Hub.tickets
          used,        \* Hub.used
          paired,      \* Hub.peers
          sessions,    \* Hub.sessions: the device of each valid token
          ticketFile,  \* tickets.json
          peerFile,    \* peers.json: the devices with a token each
          rpc, then,   \* where a request is, and where it goes after saving tickets
          asked,       \* the ticket and the device a request came with
          copyT, copyP,\* the copies that a request is about to write
          issued, expired, drawn, boots

hubMemory == <<pending, used, paired, sessions>>
hubFiles == <<ticketFile, peerFile>>
hubRequests == <<rpc, then, asked, copyT, copyP>>
hubBounds == <<issued, expired, drawn, boots>>

\* History, read by no action: what each ticket and each device ended in.
VARIABLES wins,      \* pairings a ticket gave since the start
          spent,     \* tickets that were ever redeemed
          revoked,   \* tokens that an unpairing deleted
          kept,      \* devices whose pairing was answered, not unpaired since
          older,     \* of each copy under way, the requests that held one before it
          late,      \* requests that hold a copy older than one already written or lost
          behind,    \* files that lack the last change that a save was for
          lost       \* files that lacked one when the process died

saveHistory == <<older, late, behind, lost>>
hubHistory == <<wins, spent, revoked, kept, saveHistory>>
hubVars == <<hubMemory, hubFiles, hubRequests, hubBounds, hubHistory>>

NoAsk == [ticket |-> NoTicket, device |-> NoDevice]
NoCopyT == [pending |-> {}, used |-> {}]
NoCopyP == <<>>
RequestPCs == {"idle", "copying tickets", "writing tickets", "issuing", "accepting",
               "copying peers", "writing peers"}

HubInit ==
  /\ pending = {} /\ used = {} /\ paired = {} /\ sessions = <<>>
  /\ ticketFile = NoCopyT /\ peerFile = NoCopyP
  /\ rpc = [r \in Requests |-> "idle"]
  /\ then = [r \in Requests |-> "idle"]
  /\ asked = [r \in Requests |-> NoAsk]
  /\ copyT = [r \in Requests |-> NoCopyT]
  /\ copyP = [r \in Requests |-> NoCopyP]
  /\ issued = 0 /\ expired = {} /\ drawn = 0 /\ boots = 0
  /\ wins = [t \in Tickets |-> 0]
  /\ spent = {} /\ revoked = {} /\ kept = {}
  /\ older = [r \in Requests |-> {}] /\ late = {} /\ behind = {} /\ lost = {}

Asks(r, from, to) == rpc[r] = from /\ rpc' = [rpc EXCEPT ![r] = to]

\* The request goes on to save the tickets, and after that to next.
SavesTickets(r, from, next) ==
  /\ Asks(r, from, "copying tickets")
  /\ then' = [then EXCEPT ![r] = next]

-----------------------------------------------------------------------------
(* Saving: a copy under the lock, a write outside it.                      *)

Holding(f) == {r \in Requests : rpc[r] = IF f = "tickets" THEN "writing tickets" ELSE "writing peers"}

\* The history of a copy of file f taken by r.
Copied(r, f) == older' = [q \in Requests |-> IF q = r THEN Holding(f) ELSE older[q] \ {r}]

CopyTickets(r) ==
  /\ Asks(r, "copying tickets", "writing tickets")
  /\ copyT' = [copyT EXCEPT ![r] = [pending |-> pending, used |-> used]]
  /\ Copied(r, "tickets")
  /\ UNCHANGED <<hubMemory, hubFiles, then, asked, copyP, hubBounds,
                 wins, spent, revoked, kept, late, behind, lost>>

\* The history of a write of file f by r, which may fail and is only logged.
Recorded(r, f, ok) ==
  /\ older' = [q \in Requests |-> IF q = r THEN {} ELSE older[q] \ {r}]
  /\ late' = (late \cup older[r]) \ {r}
  /\ behind' = IF ok /\ r \notin late THEN behind \ {f} ELSE behind \cup {f}

WriteTickets(r) ==
  /\ Asks(r, "writing tickets", then[r])
  /\ then' = [then EXCEPT ![r] = "idle"]
  /\ copyT' = [copyT EXCEPT ![r] = NoCopyT]
  /\ \E ok \in BOOLEAN :
       /\ ticketFile' = IF ok THEN copyT[r] ELSE ticketFile
       /\ Recorded(r, "tickets", ok)
  /\ UNCHANGED <<hubMemory, peerFile, asked, copyP, hubBounds, wins, spent, revoked, kept, lost>>

\* ExportState: every peer with one of its tokens, whichever the map yields.
CopyPeers(r) ==
  /\ Asks(r, "copying peers", "writing peers")
  /\ \E f \in [paired -> DOMAIN sessions] :
       /\ \A d \in paired : sessions[f[d]] = d
       /\ copyP' = [copyP EXCEPT ![r] = f]
  /\ Copied(r, "peers")
  /\ UNCHANGED <<hubMemory, hubFiles, then, asked, copyT, hubBounds,
                 wins, spent, revoked, kept, late, behind, lost>>

\* The handler answers after the save: a device that paired now relies on it.
WritePeers(r) ==
  /\ Asks(r, "writing peers", "idle")
  /\ copyP' = [copyP EXCEPT ![r] = NoCopyP]
  /\ asked' = [asked EXCEPT ![r] = NoAsk]
  /\ kept' = kept \cup ({asked[r].device} \cap paired)
  /\ \E ok \in BOOLEAN :
       /\ peerFile' = IF ok THEN copyP[r] ELSE peerFile
       /\ Recorded(r, "peers", ok)
  /\ UNCHANGED <<hubMemory, ticketFile, then, copyT, hubBounds, wins, spent, revoked, lost>>

-----------------------------------------------------------------------------
(* CreateTicket                                                            *)

Issuing == {r \in Requests : "issuing" \in {rpc[r], then[r]}}

\* Sweep drops what has expired, and saves if there was something to drop.
CreateTicket(r) ==
  /\ issued + Cardinality(Issuing) < MaxTickets
  /\ pending' = pending \ expired
  /\ used' = used \ expired
  /\ IF (pending \cup used) \cap expired # {}
       THEN SavesTickets(r, "idle", "issuing")
       ELSE Asks(r, "idle", "issuing") /\ UNCHANGED then
  /\ UNCHANGED <<paired, sessions, hubFiles, asked, copyT, copyP, hubBounds, hubHistory>>

Issue(r) ==
  /\ SavesTickets(r, "issuing", "idle")
  /\ issued' = issued + 1
  /\ pending' = pending \cup {issued'}
  /\ UNCHANGED <<used, paired, sessions, hubFiles, asked, copyT, copyP,
                 expired, drawn, boots, hubHistory>>

-----------------------------------------------------------------------------
(* Pair                                                                    *)

\* Mutant: redeem looks the ticket up and leaves it to Sweep to drop it.
RedeemKeepsTicket(r) ==
  /\ SavesTickets(r, "idle", "accepting")
  /\ \E t \in pending, d \in Devices :
       /\ used' = used \cup {t}
       /\ asked' = [asked EXCEPT ![r] = [ticket |-> t, device |-> d]]
       /\ spent' = spent \cup {t}
  /\ UNCHANGED <<pending, paired, sessions, hubFiles, copyT, copyP, hubBounds,
                 wins, revoked, kept, saveHistory>>

\* Mutant: redeem forgets to save, as nothing in this process needs it.
RedeemUnsaved(r) ==
  /\ Asks(r, "idle", "accepting")
  /\ \E t \in pending, d \in Devices :
       /\ pending' = pending \ {t}
       /\ used' = used \cup {t}
       /\ asked' = [asked EXCEPT ![r] = [ticket |-> t, device |-> d]]
       /\ spent' = spent \cup {t}
  /\ UNCHANGED <<then, paired, sessions, hubFiles, copyT, copyP, hubBounds,
                 wins, revoked, kept, saveHistory>>

\* redeem: the ticket leaves the pending ones for good, whatever follows.
Redeem(r) ==
  /\ SavesTickets(r, "idle", "accepting")
  /\ \E t \in pending, d \in Devices :
       /\ pending' = pending \ {t}
       /\ used' = used \cup {t}
       /\ asked' = [asked EXCEPT ![r] = [ticket |-> t, device |-> d]]
       /\ spent' = spent \cup {t}
  /\ UNCHANGED <<paired, sessions, hubFiles, copyT, copyP, hubBounds,
                 wins, revoked, kept, saveHistory>>

\* A bad proof, or a ticket that has expired, ends the request.
Reject(r) ==
  /\ Asks(r, "accepting", "idle")
  /\ asked' = [asked EXCEPT ![r] = NoAsk]
  /\ UNCHANGED <<hubMemory, hubFiles, then, copyT, copyP, hubBounds, hubHistory>>

\* Otherwise the device becomes a peer with a new token; the tokens of an
\* earlier pairing of the same device stay valid.
Accept(r) ==
  /\ asked[r].ticket \notin expired
  /\ drawn < MaxTokens
  /\ Asks(r, "accepting", "copying peers")
  /\ drawn' = drawn + 1
  /\ paired' = paired \cup {asked[r].device}
  /\ sessions' = [k \in DOMAIN sessions \cup {drawn'} |->
                    IF k = drawn' THEN asked[r].device ELSE sessions[k]]
  /\ wins' = [wins EXCEPT ![asked[r].ticket] = @ + 1]
  /\ UNCHANGED <<pending, used, hubFiles, then, asked, copyT, copyP,
                 issued, expired, boots, spent, revoked, kept, saveHistory>>

-----------------------------------------------------------------------------
(* Unpair, Heartbeat, time and restarts                                    *)

TokensOf(d) == {k \in DOMAIN sessions : sessions[k] = d}

\* Mutant: only the token that the list of peers shows is deleted.
UnpairOneToken(r) ==
  /\ Asks(r, "idle", "copying peers")
  /\ \E d \in paired, k \in DOMAIN sessions :
       /\ sessions[k] = d
       /\ paired' = paired \ {d}
       /\ sessions' = [i \in DOMAIN sessions \ {k} |-> sessions[i]]
       /\ revoked' = revoked \cup TokensOf(d)
       /\ kept' = kept \ {d}
  /\ UNCHANGED <<pending, used, hubFiles, then, asked, copyT, copyP, hubBounds,
                 wins, spent, saveHistory>>

Unpair(r) ==
  /\ Asks(r, "idle", "copying peers")
  /\ \E d \in paired :
       /\ paired' = paired \ {d}
       /\ sessions' = [k \in DOMAIN sessions \ TokensOf(d) |-> sessions[k]]
       /\ revoked' = revoked \cup TokensOf(d)
       /\ kept' = kept \ {d}
  /\ UNCHANGED <<pending, used, hubFiles, then, asked, copyT, copyP, hubBounds,
                 wins, spent, saveHistory>>

\* A heartbeat of a valid token sweeps too, if there is a ticket or a result of
\* a pairing (not kept here) to look at, and does not save.
HeartbeatSweeps ==
  /\ DOMAIN sessions # {}
  /\ (pending \cup used) \cap expired # {}
  /\ pending' = pending \ expired
  /\ used' = used \ expired
  /\ UNCHANGED <<paired, sessions, hubFiles, hubRequests, hubBounds, hubHistory>>

Expire ==
  /\ Cardinality(expired) < MaxExpired
  /\ \E t \in (1..issued) \ expired : expired' = expired \cup {t}
  /\ UNCHANGED <<hubMemory, hubFiles, hubRequests, issued, drawn, boots, hubHistory>>

\* Who is to save changed the memory and has not written it.
Unsaved(f) ==
  {r \in Requests : rpc[r] \in IF f = "tickets" THEN {"copying tickets", "writing tickets"}
                               ELSE {"copying peers", "writing peers"}}

\* RestoreTickets and RestoreState, before the next process serves requests.
RestoredTickets == [pending |-> ticketFile.pending \ expired,
                    used |-> ticketFile.used \ expired]
RestoredSessions == [k \in {peerFile[d] : d \in DOMAIN peerFile} |->
                       CHOOSE d \in DOMAIN peerFile : peerFile[d] = k]

Reboot ==
  /\ boots < MaxHubBoots
  /\ boots' = boots + 1
  /\ pending' = RestoredTickets.pending
  /\ used' = RestoredTickets.used
  /\ paired' = DOMAIN peerFile
  /\ sessions' = RestoredSessions
  /\ rpc' = [r \in Requests |-> "idle"]
  /\ then' = [r \in Requests |-> "idle"]
  /\ asked' = [r \in Requests |-> NoAsk]
  /\ copyT' = [r \in Requests |-> NoCopyT]
  /\ copyP' = [r \in Requests |-> NoCopyP]
  /\ older' = [r \in Requests |-> {}]
  /\ late' = {}
  /\ lost' = lost \cup behind \cup {f \in Files : Unsaved(f) # {}}
  /\ behind' = {}
  /\ wins' = [t \in Tickets |-> 0]
  /\ UNCHANGED <<hubFiles, issued, expired, drawn, spent, revoked, kept>>

HubNext ==
  \/ \E r \in Requests :
       \/ CopyTickets(r) \/ WriteTickets(r) \/ CopyPeers(r) \/ WritePeers(r)
       \/ CreateTicket(r) \/ Issue(r) \/ Redeem(r) \/ Reject(r) \/ Accept(r) \/ Unpair(r)
  \/ HeartbeatSweeps
  \/ Expire
  \/ Reboot

HubSpec == HubInit /\ [][HubNext]_hubVars

-----------------------------------------------------------------------------
(* Properties                                                              *)

\* Types; every token belongs to a peer, and every peer has a token.
HubTypeOK ==
  /\ pending \subseteq Tickets /\ used \subseteq Tickets /\ pending \cap used = {}
  /\ paired \subseteq Devices
  /\ DOMAIN sessions \subseteq Tokens
  /\ {sessions[k] : k \in DOMAIN sessions} = paired
  /\ ticketFile \in [pending : SUBSET Tickets, used : SUBSET Tickets]
  /\ DOMAIN peerFile \subseteq Devices
  /\ \A d \in DOMAIN peerFile : peerFile[d] \in 1..drawn
  /\ rpc \in [Requests -> RequestPCs]
  /\ then \in [Requests -> {"idle", "issuing", "accepting"}]
  /\ asked \in [Requests -> [ticket : Tickets \cup {NoTicket},
                             device : Devices \cup {NoDevice}]]
  /\ issued \in 0..MaxTickets /\ expired \subseteq 1..issued
  /\ drawn \in 0..MaxTokens /\ boots \in 0..MaxHubBoots

\* A ticket gives at most one pairing in the life of a process, although it
\* is saved, swept, and asked for by several devices meanwhile
\* (hub.go:332, "taken out is destroyed").
OneDevicePerTicket == \A t \in Tickets : wins[t] <= 1

\* A ticket that was redeemed can be redeemed again only after a restart that
\* came before its save, or after a save that failed or was overtaken by an
\* older one: in every other case the restored tickets are the unspent ones.
SpentStaysSpent == pending \cap spent # {} => "tickets" \in lost

\* A token that an unpairing took back is not accepted again, and a device that
\* was told it is paired and was not unpaired is a peer, after a restart too,
\* unless the file of peers lacked a change when the process died: one not
\* saved yet, or one whose copy was overtaken by an older one
\* (peerlink_api.go:200 and :251).
AnsweredPeersStay ==
  "peers" \notin lost => DOMAIN sessions \cap revoked = {} /\ kept \subseteq paired
=============================================================================
