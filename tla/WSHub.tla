------------------------------- MODULE WSHub -------------------------------
(***************************************************************************)
(* The hub of the WebSocket clients of the user interface                  *)
(* (internal/service/ws_hub.go): broadcasts put messages into the send     *)
(* channel of each client without waiting, a write pump sends them, and a  *)
(* read pump that ends takes its client out and closes the channel.        *)
(*                                                                         *)
(* Broadcasts hold the read lock of the hub; clients come and go under the *)
(* write lock.  The pumps touch the connection without either.             *)
(***************************************************************************)
EXTENDS Naturals, FiniteSets

CONSTANTS WClients,      \* connections of user interfaces
          Broadcasters,  \* goroutines that broadcast
          BufferSize     \* sendBufferSize

ASSUME WSAssumption == BufferSize \in Nat \ {0}

VARIABLES clients,   \* WSHub.clients
          queued,    \* of each client, the messages in its send channel
          closed,    \* clients whose send channel is closed
          conn,      \* each connection: "new", "up", "lost" or "closed"
          readPump, writePump,
          sending    \* of each broadcaster, the clients that it has yet to send to

wsVars == <<clients, queued, closed, conn, readPump, writePump, sending>>

WSInit ==
  /\ clients = {} /\ closed = {}
  /\ queued = [c \in WClients |-> 0]
  /\ conn = [c \in WClients |-> "new"]
  /\ readPump = [c \in WClients |-> "off"]
  /\ writePump = [c \in WClients |-> "off"]
  /\ sending = [b \in Broadcasters |-> {}]

\* RWMutex: the write lock waits for every broadcast, and no reader is let in
\* before a writer that waits.
Unread == \A b \in Broadcasters : sending[b] = {}
Unwanted == \A c \in WClients : readPump[c] # "unregistering"

\* A send that does not wait; with a full channel the message is dropped.
Send(c) == queued' = [queued EXCEPT ![c] = IF @ < BufferSize THEN @ + 1 ELSE @]

-----------------------------------------------------------------------------

RegisterClient(c) ==
  /\ conn[c] = "new" /\ Unread
  /\ conn' = [conn EXCEPT ![c] = "up"]
  /\ clients' = clients \cup {c}
  /\ readPump' = [readPump EXCEPT ![c] = "greeting"]
  /\ UNCHANGED <<queued, closed, writePump, sending>>

\* The first message is sent without the lock; then both pumps are started.
Greet(c) ==
  /\ readPump[c] = "greeting"
  /\ Send(c)
  /\ readPump' = [readPump EXCEPT ![c] = "reading"]
  /\ writePump' = [writePump EXCEPT ![c] = "on"]
  /\ UNCHANGED <<clients, closed, conn, sending>>

Broadcast(b) ==
  /\ sending[b] = {} /\ clients # {}
  /\ Unwanted
  /\ sending' = [sending EXCEPT ![b] = clients]
  /\ UNCHANGED <<clients, queued, closed, conn, readPump, writePump>>

SendNext(b) ==
  /\ \E c \in sending[b] :
       /\ Send(c)
       /\ sending' = [sending EXCEPT ![b] = @ \ {c}]
  /\ UNCHANGED <<clients, closed, conn, readPump, writePump>>

\* HandlePing, which renews the read deadline too.
HandlePing(c) ==
  /\ readPump[c] = "reading" /\ conn[c] = "up"
  /\ c \in clients /\ Unwanted
  /\ Send(c)
  /\ UNCHANGED <<clients, closed, conn, readPump, writePump, sending>>

\* A read fails on a connection that is closed, broken or silent for too long.
ReadFails(c) ==
  /\ readPump[c] = "reading" /\ conn[c] # "up"
  /\ readPump' = [readPump EXCEPT ![c] = "unregistering"]
  /\ UNCHANGED <<clients, queued, closed, conn, writePump, sending>>

\* Mutant: the client is taken out of the map without waiting for the lock.
UnregisterUnlocked(c) ==
  /\ readPump[c] = "unregistering"
  /\ clients' = clients \ {c}
  /\ readPump' = [readPump EXCEPT ![c] = "closing"]
  /\ UNCHANGED <<queued, closed, conn, writePump, sending>>

\* UnregisterClient
Unregister(c) ==
  /\ readPump[c] = "unregistering" /\ Unread
  /\ clients' = clients \ {c}
  /\ readPump' = [readPump EXCEPT ![c] = "closing"]
  /\ UNCHANGED <<queued, closed, conn, writePump, sending>>

\* Mutant: the channel stays open, as nobody sends to it any more.
LeaveSendOpen(c) ==
  /\ readPump[c] = "closing"
  /\ conn' = [conn EXCEPT ![c] = "closed"]
  /\ readPump' = [readPump EXCEPT ![c] = "ended"]
  /\ UNCHANGED <<clients, queued, closed, writePump, sending>>

CloseSend(c) ==
  /\ readPump[c] = "closing"
  /\ conn' = [conn EXCEPT ![c] = "closed"]
  /\ closed' = closed \cup {c}
  /\ readPump' = [readPump EXCEPT ![c] = "ended"]
  /\ UNCHANGED <<clients, queued, writePump, sending>>

\* A message is written, or the write fails and the pump closes the connection.
WriteMessage(c) ==
  /\ writePump[c] = "on" /\ queued[c] > 0
  /\ queued' = [queued EXCEPT ![c] = @ - 1]
  /\ IF conn[c] = "up"
       THEN UNCHANGED <<conn, writePump>>
       ELSE /\ conn' = [conn EXCEPT ![c] = "closed"]
            /\ writePump' = [writePump EXCEPT ![c] = "ended"]
  /\ UNCHANGED <<clients, closed, readPump, sending>>

\* The channel is closed and empty.
WriteEnds(c) ==
  /\ writePump[c] = "on" /\ c \in closed /\ queued[c] = 0
  /\ conn' = [conn EXCEPT ![c] = "closed"]
  /\ writePump' = [writePump EXCEPT ![c] = "ended"]
  /\ UNCHANGED <<clients, queued, closed, readPump, sending>>

\* The client goes away, with or without a word.
Lose(c) ==
  /\ conn[c] = "up"
  /\ conn' = [conn EXCEPT ![c] = "lost"]
  /\ UNCHANGED <<clients, queued, closed, readPump, writePump, sending>>

ReadStep(c) == Greet(c) \/ ReadFails(c) \/ Unregister(c) \/ CloseSend(c)

WSNext ==
  \/ \E c \in WClients :
       RegisterClient(c) \/ HandlePing(c) \/ ReadStep(c) \/ WriteMessage(c) \/ WriteEnds(c) \/ Lose(c)
  \/ \E b \in Broadcasters : Broadcast(b) \/ SendNext(b)

\* Goroutines are scheduled; a client that is silent is noticed by the deadline
\* of the read.  No client and no broadcast has to come.
WSFairness ==
  /\ \A c \in WClients : WF_wsVars(ReadStep(c)) /\ WF_wsVars(WriteMessage(c) \/ WriteEnds(c))
  /\ \A b \in Broadcasters : WF_wsVars(SendNext(b))

WSSpec == WSInit /\ [][WSNext]_wsVars /\ WSFairness

-----------------------------------------------------------------------------
(* Properties                                                              *)

\* Types.
WSTypeOK ==
  /\ clients \subseteq WClients /\ closed \subseteq WClients
  /\ queued \in [WClients -> 0..BufferSize]
  /\ conn \in [WClients -> {"new", "up", "lost", "closed"}]
  /\ readPump \in [WClients -> {"off", "greeting", "reading", "unregistering", "closing", "ended"}]
  /\ writePump \in [WClients -> {"off", "on", "ended"}]
  /\ sending \in [Broadcasters -> SUBSET WClients]

\* Nobody is about to send to a channel that is closed: not a broadcast that
\* began before the client left, nor the greeting, nor a pong (ws_hub.go:170).
NoSendToClosed ==
  \A c \in closed : /\ c \notin clients
                    /\ \A b \in Broadcasters : c \notin sending[b]
                    /\ readPump[c] = "ended"

\* Both pumps of a client that went away end, and it is forgotten.
PumpsEnd ==
  \A c \in WClients : conn[c] = "lost" ~> /\ readPump[c] = "ended" /\ writePump[c] = "ended"
                                         /\ c \notin clients /\ conn[c] = "closed"
=============================================================================
