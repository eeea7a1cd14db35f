----------------------------- MODULE MessageChannel -----------------------------
(***************************************************************************)
(* TWebsocketMessageChannel of TV8MessageChannel.{h,cpp} and the OnMessage *)
(* lambda of v8min_main_helloworld: what each read thread does with a      *)
(* complete text message, and the queue it shares with the main thread.    *)
(*                                                                         *)
(* Every text is numbered, in the order in which mWebsocketClient was      *)
(* assigned for it; texts is that history, and text k stands for its       *)
(* content.  mWebsocketClient is a plain variable written by the read      *)
(* threads and read by the main thread: a word, so never torn.             *)
(***************************************************************************)
EXTENDS WebsocketServer

CONSTANTS
  Main,      (* the main thread, as the owner of MessagesLock              *)
  Unlocked,  (* no owner                                                   *)
  MaxTexts   (* bound: the text messages all clients send                  *)

ASSUME OwnersAssumption ==
  Main \notin Clients /\ Unlocked \notin Clients /\ Main # Unlocked

ASSUME MaxTextsAssumption == MaxTexts \in Nat

VARIABLES
  mWebsocketClient,  (* the last client a text came from                   *)
  Messages,          (* the texts queued for the main thread               *)
  MessagesLock,      (* who holds the mutex that guards Messages           *)
  texts,             (* history: the client each text came from            *)
  pending            (* the text each read thread is about to queue, or 0  *)

channelVars == <<mWebsocketClient, Messages, MessagesLock, texts, pending>>

ChannelTypeOK ==
  /\ mWebsocketClient \in Clients \cup {NoClient}
  /\ Messages \in Seq(Nat)
  /\ MessagesLock \in Clients \cup {Main, Unlocked}
  /\ texts \in Seq(Clients)
  /\ pending \in [Clients -> Nat]

ChannelInit ==
  /\ mWebsocketClient = NoClient
  /\ Messages = <<>>
  /\ MessagesLock = Unlocked
  /\ texts = <<>>
  /\ pending = [c \in Clients |-> 0]
-----------------------------------------------------------------------------
(* The read thread's place changes; the rest of the server stays. *)
ReaderGoesTo(c, place) ==
  /\ reader' = [reader EXCEPT ![c] = place]
  /\ UNCHANGED <<mClients, adding, socket, mHandshake, outbox, wire>>

(* A bug: the first client is remembered, not the last. *)
RecordFirstClient(c) ==
  mWebsocketClient' = IF mWebsocketClient = NoClient THEN c ELSE mWebsocketClient

RecordClient(c) == mWebsocketClient' = c

(* A bug: a message is taken before the handshake is over. *)
AcceptsAnyText(c) == TRUE

(* The decoder yields messages, not http requests. *)
AcceptsText(c) == IsCompleted(c)

(* A bug: the newest message goes to the front of the queue. *)
EnqueueInFront(k) == Messages' = <<k>> \o Messages

Enqueue(k) == Messages' = Append(Messages, k)

(* A bug: nobody waits for the lock. *)
LockAnyway == TRUE

LockFree == MessagesLock = Unlocked

(***************************************************************************)
(* OnDataRecieved with a complete text message calls mOnTextMessage, which *)
(* records the client and calls OnMessage; OnMessage locks, queues and     *)
(* unlocks.  The decoder yields messages, not http requests, only once the *)
(* handshake is completed.  (UnlockMessages also resets mCurrentMessage,   *)
(* which no other thread reads.)                                           *)
(***************************************************************************)
OnTextMessage(c) ==
  /\ Receiving(c)
  /\ AcceptsText(c)
  /\ Len(texts) < MaxTexts
  /\ RecordClient(c)
  /\ texts' = Append(texts, c)
  /\ pending' = [pending EXCEPT ![c] = Len(texts) + 1]
  /\ ReaderGoesTo(c, "lock")
  /\ UNCHANGED <<Messages, MessagesLock>>

LockMessages(c) ==
  /\ reader[c] = "lock"
  /\ LockFree
  /\ MessagesLock' = c
  /\ ReaderGoesTo(c, "push")
  /\ UNCHANGED <<mWebsocketClient, Messages, texts, pending>>

PushMessage(c) ==
  /\ reader[c] = "push"
  /\ Enqueue(pending[c])
  /\ pending' = [pending EXCEPT ![c] = 0]
  /\ ReaderGoesTo(c, "unlock")
  /\ UNCHANGED <<mWebsocketClient, MessagesLock, texts>>

UnlockMessages(c) ==
  /\ reader[c] = "unlock"
  /\ MessagesLock' = Unlocked
  /\ ReaderGoesTo(c, "recv")
  /\ UNCHANGED <<mWebsocketClient, Messages, texts, pending>>

ChannelNext == \E c \in Clients :
  \/ OnTextMessage(c)
  \/ LockMessages(c)
  \/ PushMessage(c)
  \/ UnlockMessages(c)
=============================================================================
