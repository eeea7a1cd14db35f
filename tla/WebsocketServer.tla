---------------------------- MODULE WebsocketServer ----------------------------
(***************************************************************************)
(* The websocket server of TApiWebsocket.{h,cpp}: the accept thread        *)
(* (TWebsocketServer::Iteration, AddClient), the array of clients it       *)
(* shares with the main thread, and for each client its TWebsocketServer-  *)
(* Peer with a read thread and a write thread.                             *)
(*                                                                         *)
(* A client is the SoyRef of one connection; a DevTools window that        *)
(* reconnects is another client.  Every section under mClientsLock only    *)
(* touches mClients and takes no other lock, so it is one atomic step.     *)
(* The socket, the decoder of requests and the two thread classes are in   *)
(* SoyLib, outside the repository's sources; they are modelled by what     *)
(* TApiWebsocket.cpp relies on.                                            *)
(***************************************************************************)
EXTENDS Naturals, Sequences

CONSTANTS
  Clients,   (* the connections that may be made, each a SoyRef            *)
  NoClient   (* the default SoyRef, which is no connection's               *)

ASSUME NoClientAssumption == NoClient \notin Clients

VARIABLES
  mClients,    (* the array of registered peers, by their mConnectionRef   *)
  adding,      (* the peer AddClient has built but not pushed yet          *)
  socket,      (* the connection: "none", "open" or "closed"               *)
  mHandshake,  (* per peer: upgrade asked for, accept reply sent           *)
  reader,      (* where each peer's read thread is                         *)
  outbox,      (* packets pushed for each write thread, not written yet    *)
  wire         (* packets each write thread has written, oldest first      *)

serverVars == <<mClients, adding, socket, mHandshake, reader, outbox, wire>>

(* What a write thread sends: the http reply that accepts the handshake,   *)
(* V8's response to the text message numbered text, or a notification.     *)
Packet == [kind : {"reply", "response", "notification"}, text : Nat]
Reply == [kind |-> "reply", text |-> 0]
Response(k) == [kind |-> "response", text |-> k]
Notification == [kind |-> "notification", text |-> 0]

(* "reply": mHasSentAcceptReply is set, the reply is not pushed yet.       *)
(* "lock", "push", "unlock": in the message callback.                      *)
(* "stopped": ended by an exception out of OnDataRecieved.                 *)
ReaderStates == {"recv", "reply", "lock", "push", "unlock", "stopped"}

ServerTypeOK ==
  /\ mClients \in Seq(Clients)
  /\ adding \in Clients \cup {NoClient}
  /\ socket \in [Clients -> {"none", "open", "closed"}]
  /\ mHandshake \in [Clients -> [upgrade : BOOLEAN, sent : BOOLEAN]]
  /\ reader \in [Clients -> ReaderStates]
  /\ outbox \in [Clients -> Seq(Packet)]
  /\ wire \in [Clients -> Seq(Packet)]

ServerInit ==
  /\ mClients = <<>>
  /\ adding = NoClient
  /\ socket = [c \in Clients |-> "none"]
  /\ mHandshake = [c \in Clients |-> [upgrade |-> FALSE, sent |-> FALSE]]
  /\ reader = [c \in Clients |-> "recv"]
  /\ outbox = [c \in Clients |-> <<>>]
  /\ wire = [c \in Clients |-> <<>>]
-----------------------------------------------------------------------------
Registered == {mClients[i] : i \in DOMAIN mClients}

(* THandshakeMeta::IsCompleted *)
IsCompleted(c) == mHandshake[c].upgrade /\ mHandshake[c].sent

(* TSocketWriteThread::Push *)
Push(c, packet) == outbox' = [outbox EXCEPT ![c] = Append(@, packet)]

(* Everything ever pushed for c, in the order of the pushes. *)
Pushed(c) == wire[c] \o outbox[c]

(* The read thread of an open connection has decoded its next request. *)
Receiving(c) == socket[c] = "open" /\ reader[c] = "recv"

(***************************************************************************)
(* The accept thread.  WaitForClient calls mOnConnect, hence AddClient,    *)
(* whose first statement builds the peer; the peer's constructor starts    *)
(* both of its threads.  Its second statement pushes the peer.             *)
(***************************************************************************)
AddClient(c) ==
  /\ adding = NoClient
  /\ socket[c] = "none"
  /\ socket' = [socket EXCEPT ![c] = "open"]
  /\ adding' = c
  /\ UNCHANGED <<mClients, mHandshake, reader, outbox, wire>>

RegisterClient ==
  /\ adding # NoClient
  /\ mClients' = Append(mClients, adding)
  /\ adding' = NoClient
  /\ UNCHANGED <<socket, mHandshake, reader, outbox, wire>>

(* A bug: the peer of a lost connection is taken out of the array. *)
RemoveClientErases(c) == mClients' = SelectSeq(mClients, LAMBDA d : d # c)

(* mOnDisconnect: the body of RemoveClient is empty. *)
RemoveClient(c) == UNCHANGED mClients

Disconnect(c) ==
  /\ socket[c] = "open"
  /\ socket' = [socket EXCEPT ![c] = "closed"]
  /\ RemoveClient(c)
  /\ UNCHANGED <<adding, mHandshake, reader, outbox, wire>>

(* A bug: a second request is answered again. *)
OnHttpRequestAgain(c, upgrade) ==
  /\ Receiving(c)
  /\ ~IsCompleted(c)
  /\ mHandshake' = [mHandshake EXCEPT ![c] = [upgrade |-> upgrade, sent |-> TRUE]]
  /\ reader' = [reader EXCEPT ![c] = "reply"]
  /\ UNCHANGED <<mClients, adding, socket, outbox, wire>>

(***************************************************************************)
(* The read thread, OnDataRecieved with an http request: until the         *)
(* handshake is completed the decoder reads http and builds a reply.  The  *)
(* flag is set before the reply is pushed.                                 *)
(***************************************************************************)
OnHttpRequest(c, upgrade) ==
  /\ Receiving(c)
  /\ ~IsCompleted(c)
  /\ ~mHandshake[c].sent
  /\ mHandshake' = [mHandshake EXCEPT ![c] = [upgrade |-> upgrade, sent |-> TRUE]]
  /\ reader' = [reader EXCEPT ![c] = "reply"]
  /\ UNCHANGED <<mClients, adding, socket, outbox, wire>>

PushReply(c) ==
  /\ reader[c] = "reply"
  /\ Push(c, Reply)
  /\ reader' = [reader EXCEPT ![c] = "recv"]
  /\ UNCHANGED <<mClients, adding, socket, mHandshake, wire>>

(* "Already sent handshake reply": the exception ends the read thread. *)
OnSecondHttpRequest(c) ==
  /\ Receiving(c)
  /\ ~IsCompleted(c)
  /\ mHandshake[c].sent
  /\ reader' = [reader EXCEPT ![c] = "stopped"]
  /\ UNCHANGED <<mClients, adding, socket, mHandshake, outbox, wire>>

(* TSocketWriteThread: the oldest packet goes to the socket. *)
WritePacket(c) ==
  /\ socket[c] = "open"
  /\ outbox[c] # <<>>
  /\ wire' = [wire EXCEPT ![c] = Append(@, Head(outbox[c]))]
  /\ outbox' = [outbox EXCEPT ![c] = Tail(@)]
  /\ UNCHANGED <<mClients, adding, socket, mHandshake, reader>>

ServerNext ==
  \/ RegisterClient
  \/ \E c \in Clients :
       \/ AddClient(c)
       \/ Disconnect(c)
       \/ \E upgrade \in BOOLEAN : OnHttpRequest(c, upgrade)
       \/ OnSecondHttpRequest(c)
       \/ PushReply(c)
       \/ WritePacket(c)
=============================================================================
