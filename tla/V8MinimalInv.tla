------------------------------ MODULE V8MinimalInv ------------------------------
(***************************************************************************)
(* The inductive invariant behind the safety properties of V8Minimal: what *)
(* relates the threads' places, the lock, the queue, the handshakes and    *)
(* the packets in every reachable state.                                   *)
(***************************************************************************)
EXTENDS V8Minimal

(* current is set by PopMessage, to a text's number, and reset when V8     *)
(* returns; it is kept while V8 calls back into Send.                      *)
MainInv ==
  /\ pc \notin {"dispatch", "getclient", "push", "terminated"} => current = 0
  /\ pc = "dispatch" => current # 0
  /\ packet.kind # "reply"

(* A read thread holds a text from the record of its client until it has   *)
(* queued it, and it is that client's text.  A thread that is ended by an  *)
(* exception while it queues a text (QueueFault) holds it for ever.        *)
PendingInv ==
  \A c \in Clients :
    /\ reader[c] \in {"lock", "push"} => pending[c] # 0
    /\ pending[c] # 0 => reader[c] \in {"lock", "push", "stopped"}
    /\ pending[c] # 0 => pending[c] \in DOMAIN texts /\ texts[pending[c]] = c

(* What is queued was recorded, before whatever its client holds now. *)
QueueInv ==
  \A i \in DOMAIN Queued :
    /\ Queued[i] \in DOMAIN texts
    /\ \A c \in Clients :
         texts[Queued[i]] = c /\ pending[c] # 0 => Queued[i] < pending[c]

(* The reply is the first packet pushed, between the flag and the reader's *)
(* return; a client that has sent a text is past it.                       *)
HandshakeInv ==
  \A c \in Clients :
    /\ mHandshake[c].sent /\ reader[c] # "reply" <=> Pushed(c) # <<>>
    /\ reader[c] = "reply" => mHandshake[c].sent
    /\ reader[c] \in {"lock", "push", "unlock"} => IsCompleted(c)
    /\ SpokeSince(0, c) =>
         IsCompleted(c) /\ reader[c] # "reply" /\ socket[c] # "none"

(* The last client recorded is the last one that spoke. *)
LastClientInv == texts # <<>> => mWebsocketClient = texts[Len(texts)]

(* A connection's peer is registered, or AddClient is about to do it. *)
RegisterInv ==
  \A c \in Clients : socket[c] # "none" => c \in Registered \/ c = adding

(* What needs no lock, each action being one access to the queue.          *)
TextsInv ==
  /\ TypeOK
  /\ MainInv
  /\ PendingInv
  /\ QueueInv
  /\ QueuedOnceInOrder
  /\ NoTextLost
  /\ HandshakeInv
  /\ HandshakeFirst
  /\ LastClientInv
  /\ ResponseToRecentSpeaker
  /\ RegisterInv
  /\ CrashOnlyWhileAdding

(* Whoever is at the queue holds the lock: the half of QueueExclusive that *)
(* a thread cannot break by ending at the queue.                           *)
PlacesInv ==
  /\ MainInQueue <=> MessagesLock = Main
  /\ \A c \in Clients : ReaderInQueue(c) => MessagesLock = c

IInv == TextsInv /\ QueueExclusive
=============================================================================
