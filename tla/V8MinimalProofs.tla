---------------------------- MODULE V8MinimalProofs ----------------------------
(***************************************************************************)
(* What holds of V8Minimal for every set of clients and every bound: type  *)
(* correctness, the safety properties by the inductive invariant IInv, and *)
(* that it implements TextService.                                         *)
(***************************************************************************)
EXTENDS V8MinimalInv, TLAPS, SequenceTheorems

-----------------------------------------------------------------------------
(***************************************************************************)
(* Sequences.                                                              *)
(***************************************************************************)
(* Moving the head of the second of two sequences to the end of the first  *)
(* leaves what they hold together: a write thread takes a packet, the main *)
(* thread takes a message.                                                 *)
LEMMA MoveHead ==
  ASSUME NEW S, NEW s \in Seq(S), NEW t \in Seq(S), t # <<>>
  PROVE  /\ Head(t) \in S
         /\ Tail(t) \in Seq(S)
         /\ Append(s, Head(t)) \in Seq(S)
         /\ Append(s, Head(t)) \o Tail(t) = s \o t
<1>1. /\ Head(t) \in S /\ Tail(t) \in Seq(S) /\ Len(Tail(t)) = Len(t) - 1
      /\ \A i \in 1..Len(Tail(t)) : Tail(t)[i] = t[i + 1]
  BY HeadTailProperties
<1>2. Len(t) \in Nat \ {0} /\ Len(s) \in Nat
  BY EmptySeq, LenProperties
<1> DEFINE a == Append(s, Head(t))
<1>3. a \in Seq(S) /\ Len(a) = Len(s) + 1
      /\ \A i \in 1..Len(a) : a[i] = IF i <= Len(s) THEN s[i] ELSE t[1]
  BY <1>1, <1>2
<1> HIDE DEF a
<1>4. a \o Tail(t) \in Seq(S) /\ s \o t \in Seq(S)
      /\ Len(a \o Tail(t)) = Len(s \o t)
  <2>1. a \o Tail(t) \in Seq(S) /\ Len(a \o Tail(t)) = Len(a) + Len(Tail(t))
    BY <1>1, <1>3, ConcatProperties
  <2>2. s \o t \in Seq(S) /\ Len(s \o t) = Len(s) + Len(t)
    BY ConcatProperties
  <2> QED
    BY <1>1, <1>2, <1>3, <2>1, <2>2
<1>5. \A i \in 1..Len(s \o t) : (a \o Tail(t))[i] = (s \o t)[i]
  <2> TAKE i \in 1..Len(s \o t)
  <2>1. i \in 1..(Len(s) + Len(t)) /\ i \in 1..(Len(a) + Len(Tail(t)))
    BY <1>1, <1>2, <1>3, ConcatProperties
  <2>2. (s \o t)[i] = IF i <= Len(s) THEN s[i] ELSE t[i - Len(s)]
    BY <2>1, ConcatProperties
  <2>3. (a \o Tail(t))[i] = IF i <= Len(a) THEN a[i] ELSE Tail(t)[i - Len(a)]
    BY <1>1, <1>3, <2>1, ConcatProperties
  <2> QED
    BY <1>1, <1>2, <1>3, <2>1, <2>2, <2>3
<1> QED
  BY <1>1, <1>3, <1>4, <1>5, SeqEqual DEF a

(* Pushing to the second of two sequences appends to both together. *)
LEMMA PushRight ==
  ASSUME NEW S, NEW s \in Seq(S), NEW t \in Seq(S), NEW e \in S
  PROVE  s \o Append(t, e) = Append(s \o t, e)
<1>1. s \o t \in Seq(S) /\ Append(t, e) \in Seq(S) /\ Append(s \o t, e) \in Seq(S)
      /\ s \o Append(t, e) \in Seq(S)
  BY ConcatProperties
<1>2. Len(s) \in Nat /\ Len(t) \in Nat /\ Len(s \o t) = Len(s) + Len(t)
      /\ Len(s \o Append(t, e)) = Len(s) + Len(t) + 1
  BY <1>1, ConcatProperties, LenProperties
<1>3. \A i \in 1..Len(s \o Append(t, e)) :
        (s \o Append(t, e))[i] = Append(s \o t, e)[i]
  <2> TAKE i \in 1..Len(s \o Append(t, e))
  <2> DEFINE b == Append(t, e)
  <2>1. (s \o b)[i] = IF i <= Len(s) THEN s[i] ELSE b[i - Len(s)]
    <3>1. b \in Seq(S) /\ i \in 1..(Len(s) + Len(b))
      BY <1>1, <1>2
    <3> HIDE DEF b
    <3> QED
      BY <3>1, ConcatProperties
  <2>2. CASE i <= Len(s) + Len(t)
    <3>1. (s \o t)[i] = IF i <= Len(s) THEN s[i] ELSE t[i - Len(s)]
      BY <1>2, <2>2, ConcatProperties
    <3> QED
      BY <1>1, <1>2, <2>1, <2>2, <3>1
  <2>3. CASE i = Len(s) + Len(t) + 1
    BY <1>1, <1>2, <2>1, <2>3
  <2> QED
    BY <1>2, <2>2, <2>3
<1> QED
  BY <1>1, <1>2, <1>3, SeqEqual

(* The elements of a sequence with one more at its end. *)
LEMMA Appended ==
  ASSUME NEW S, NEW s \in Seq(S), NEW e \in S
  PROVE  /\ Append(s, e) \in Seq(S)
         /\ Append(s, e) # <<>>
         /\ Len(s) \in Nat /\ Len(Append(s, e)) = Len(s) + 1
         /\ DOMAIN s = 1..Len(s) /\ DOMAIN Append(s, e) = 1..(Len(s) + 1)
         /\ \A i \in DOMAIN s : Append(s, e)[i] = s[i]
         /\ Append(s, e)[Len(s) + 1] = e
BY LenProperties
-----------------------------------------------------------------------------
(***************************************************************************)
(* Type correctness.                                                       *)
(***************************************************************************)
(* Every step of the accept, read and write threads keeps the server's     *)
(* variables in their sets.                                                *)
LEMMA ServerTypeStep ==
  ASSUME ServerTypeOK, ServerNext
  PROVE  ServerTypeOK'
<1> USE DEF ServerTypeOK, ReaderStates
<1>1. CASE RegisterClient
  BY <1>1 DEF RegisterClient
<1>2. ASSUME NEW c \in Clients, AddClient(c)
      PROVE  ServerTypeOK'
  BY <1>2 DEF AddClient
<1>3. ASSUME NEW c \in Clients, Disconnect(c)
      PROVE  ServerTypeOK'
  BY <1>3 DEF Disconnect, RemoveClient
<1>4. ASSUME NEW c \in Clients, NEW upgrade \in BOOLEAN, OnHttpRequest(c, upgrade)
      PROVE  ServerTypeOK'
  BY <1>4 DEF OnHttpRequest
<1>5. ASSUME NEW c \in Clients, OnSecondHttpRequest(c)
      PROVE  ServerTypeOK'
  BY <1>5 DEF OnSecondHttpRequest
<1>6. ASSUME NEW c \in Clients, PushReply(c)
      PROVE  ServerTypeOK'
  BY <1>6 DEF PushReply, Push, Reply, Packet
<1>7. ASSUME NEW c \in Clients, WritePacket(c)
      PROVE  ServerTypeOK'
  <2>1. Append(wire[c], Head(outbox[c])) \in Seq(Packet) /\ Tail(outbox[c]) \in Seq(Packet)
    BY <1>7, MoveHead DEF WritePacket
  <2> QED
    BY <1>7, <2>1 DEF WritePacket
<1> QED
  BY <1>1, <1>2, <1>3, <1>4, <1>5, <1>6, <1>7 DEF ServerNext

(* The read thread moves to one of its states, the queue grows by a text's *)
(* number: the message callback keeps the types of server and channel.     *)
LEMMA ChannelTypeStep ==
  ASSUME ServerTypeOK, ChannelTypeOK, ChannelNext
  PROVE  ServerTypeOK' /\ ChannelTypeOK'
<1> USE DEF ServerTypeOK, ChannelTypeOK, ReaderStates, ReaderGoesTo
<1>1. ASSUME NEW c \in Clients, OnTextMessage(c)
      PROVE  ServerTypeOK' /\ ChannelTypeOK'
  BY <1>1 DEF OnTextMessage, RecordClient
<1>2. ASSUME NEW c \in Clients, LockMessages(c)
      PROVE  ServerTypeOK' /\ ChannelTypeOK'
  BY <1>2 DEF LockMessages
<1>3. ASSUME NEW c \in Clients, PushMessage(c)
      PROVE  ServerTypeOK' /\ ChannelTypeOK'
  <2>1. Append(Messages, pending[c]) \in Seq(Nat)
    BY Appended
  <2> QED
    BY <1>3, <2>1 DEF PushMessage, Enqueue
<1>4. ASSUME NEW c \in Clients, UnlockMessages(c)
      PROVE  ServerTypeOK' /\ ChannelTypeOK'
  BY <1>4 DEF UnlockMessages
<1> QED
  BY <1>1, <1>2, <1>3, <1>4 DEF ChannelNext

(* What a step leaves alone keeps its type. *)
LEMMA ServerTypeFrame == ServerTypeOK /\ UNCHANGED serverVars => ServerTypeOK'
BY DEF ServerTypeOK, serverVars

LEMMA ChannelTypeFrame == ChannelTypeOK /\ UNCHANGED channelVars => ChannelTypeOK'
BY DEF ChannelTypeOK, channelVars

(* The types of the main thread's variables. *)
MainTypeOK ==
  /\ pc \in MainStates
  /\ current \in Nat
  /\ packet \in Packet
  /\ target \in Clients \cup {NoClient}
  /\ RunOnlyMessagesInLoop \in BOOLEAN
  /\ foreground \in Nat /\ notes \in Nat
  /\ dispatched \in Seq(Nat)
  /\ answered \in SUBSET Nat

LEMMA TypeParts == TypeOK <=> ServerTypeOK /\ ChannelTypeOK /\ MainTypeOK
BY DEF TypeOK, MainTypeOK

(* What is sent is a packet. *)
LEMMA PacketType ==
  Reply \in Packet /\ Notification \in Packet /\ \A k \in Nat : Response(k) \in Packet
BY DEF Reply, Notification, Response, Packet

(* What the session was given are numbers of texts. *)
LEMMA DispatchedType == dispatched \in Seq(Nat) => Dispatched \subseteq Nat
<1> SUFFICES ASSUME dispatched \in Seq(Nat), NEW i \in DOMAIN dispatched
             PROVE  dispatched[i] \in Nat
  BY DEF Dispatched
<1> QED
  BY LenProperties, ElementOfSeq

(* Every step of the main thread and of V8 keeps all types. *)
LEMMA MainTypeStep ==
  ASSUME TypeOK, MainNext
  PROVE  TypeOK'
<1>0. ServerTypeOK /\ ChannelTypeOK /\ MainTypeOK
  BY TypeParts
<1>a. UNCHANGED serverVars => ServerTypeOK'
  BY <1>0, ServerTypeFrame
<1>b. UNCHANGED channelVars => ChannelTypeOK'
  BY <1>0, ChannelTypeFrame
<1>c. SUFFICES ServerTypeOK' /\ ChannelTypeOK' /\ MainTypeOK'
  BY DEF TypeOK, MainTypeOK
<1> USE DEF MainTypeOK, MainStates
<1>1. CASE Boot \/ EnterPump \/ SkipPump \/ FinishTask \/ PumpDone
  BY <1>0, <1>a, <1>b, <1>1 DEF Boot, EnterPump, SkipPump, FinishTask, PumpDone, MainGoesTo
<1>2. CASE RunTask
  BY <1>0, <1>a, <1>b, <1>2 DEF RunTask
<1>3. CASE LockQueue
  BY <1>0, <1>a, <1>3 DEF LockQueue, ChannelTypeOK
<1>4. CASE PopMessage
  <2>1. Head(Messages) \in Nat /\ Tail(Messages) \in Seq(Nat)
        /\ Append(dispatched, Head(Messages)) \in Seq(Nat)
    BY <1>0, <1>4, MoveHead DEF PopMessage, ChannelTypeOK
  <2>2. MainTypeOK'
    BY <1>0, <1>4, <2>1 DEF PopMessage
  <2>3. ChannelTypeOK'
    BY <1>0, <1>4, <2>1 DEF PopMessage, ChannelTypeOK
  <2> QED
    BY <1>a, <1>4, <2>2, <2>3 DEF PopMessage
<1>5. CASE FinishDispatch
  BY <1>0, <1>a, <1>b, <1>5 DEF FinishDispatch
<1>6. CASE UnlockAndSleep
  BY <1>0, <1>a, <1>6 DEF UnlockAndSleep, ChannelTypeOK
<1>7. CASE SendResponse
  <2>1. target' \in Clients \cup {NoClient}
    BY <1>0, <1>7 DEF SendResponse, ChannelTypeOK
  <2>2. packet' \in Packet /\ notes' \in Nat /\ answered' \in SUBSET Nat
    <3>1. CASE Notify
      BY <1>0, <3>1 DEF Notify, Notification, Packet
    <3>2. ASSUME NEW k \in Dispatched, Respond(k)
          PROVE  packet' \in Packet /\ notes' \in Nat /\ answered' \in SUBSET Nat
      BY <1>0, <3>2, DispatchedType DEF Respond, Response, Packet
    <3> QED
      BY <1>7, <3>1, <3>2 DEF SendResponse
  <2> QED
    BY <1>0, <1>a, <1>b, <1>7, <2>1, <2>2 DEF SendResponse
<1>8. CASE GetClient
  BY <1>0, <1>a, <1>b, <1>8 DEF GetClient, Unsent
<1>9. CASE PeerSend
  <2>1. CASE IsCompleted(target)
    <3>1. ServerTypeOK'
      <4>1. outbox' = [outbox EXCEPT ![target] = Append(@, packet)]
            /\ UNCHANGED <<mClients, adding, socket, mHandshake, reader, wire>>
        BY <1>9, <2>1 DEF PeerSend, Push
      <4>2. target \in Clients => Append(outbox[target], packet) \in Seq(Packet)
        BY <1>0, Appended DEF ServerTypeOK
      <4> QED
        BY <1>0, <4>1, <4>2 DEF ServerTypeOK
    <3>2. MainTypeOK'
      BY <1>0, <1>9, <2>1, PacketType DEF PeerSend
    <3> QED
      BY <1>b, <1>9, <2>1, <3>1, <3>2 DEF PeerSend
  <2>2. CASE ~IsCompleted(target)
    BY <1>0, <1>a, <1>b, <1>9, <2>2 DEF PeerSend, Unsent
  <2> QED
    BY <2>1, <2>2
<1>10. CASE RunMessageLoop \/ QuitMessageLoop
  BY <1>0, <1>a, <1>b, <1>10 DEF RunMessageLoop, QuitMessageLoop
<1>11. CASE PostTask
  BY <1>0, <1>a, <1>b, <1>11 DEF PostTask
<1> QED
  BY <1>1, <1>2, <1>3, <1>4, <1>5, <1>6, <1>7, <1>8, <1>9, <1>10, <1>11
     DEF MainNext, Drain

(* The initial state has the types, and every step keeps them. *)
LEMMA TypeInit == Init => TypeOK
<1> SUFFICES ASSUME Init PROVE ServerTypeOK /\ ChannelTypeOK /\ MainTypeOK
  BY TypeParts
<1>1. ServerTypeOK
  BY DEF Init, ServerInit, ServerTypeOK, ReaderStates
<1>2. ChannelTypeOK
  BY DEF Init, ChannelInit, ChannelTypeOK
<1>3. MainTypeOK
  BY PacketType, EmptySeq DEF Init, MainTypeOK, MainStates
<1> QED
  BY <1>1, <1>2, <1>3

LEMMA TypeStep == TypeOK /\ [Next]_vars => TypeOK'
<1> SUFFICES ASSUME TypeOK, [Next]_vars PROVE TypeOK'
  OBVIOUS
<1>1. CASE MainNext
  BY <1>1, MainTypeStep
<1>2. CASE ServerNext /\ UNCHANGED <<channelVars, mainVars>>
  <2>1. ServerTypeOK'
    BY <1>2, ServerTypeStep DEF TypeOK
  <2> QED
    BY <1>2, <2>1 DEF TypeOK, ChannelTypeOK, channelVars, mainVars
<1>3. CASE ChannelNext /\ UNCHANGED mainVars
  <2>1. ServerTypeOK' /\ ChannelTypeOK'
    BY <1>3, ChannelTypeStep DEF TypeOK
  <2> QED
    BY <1>3, <2>1 DEF TypeOK, mainVars
<1>4. CASE UNCHANGED vars
  BY <1>4 DEF vars, serverVars, channelVars, mainVars, TypeOK, ServerTypeOK, ChannelTypeOK
<1> QED
  BY <1>1, <1>2, <1>3, <1>4 DEF Next, Running, Terminated

(* Every variable stays in its set: in particular the pump never runs a    *)
(* task that was not posted (foreground does not pass below zero).         *)
THEOREM TypeCorrect == Spec => []TypeOK
BY TypeInit, TypeStep, PTL DEF Spec
-----------------------------------------------------------------------------
(***************************************************************************)
(* The texts: recorded, held by a read thread, queued, dispatched.         *)
(***************************************************************************)
(* Only three actions move a text; popping one leaves Queued as it is.     *)
LEMMA TextMoves ==
  ASSUME [Next]_vars
  PROVE  \/ \E c \in Clients : OnTextMessage(c) /\ UNCHANGED dispatched
         \/ \E c \in Clients : PushMessage(c) /\ UNCHANGED dispatched
         \/ PopMessage
         \/ UNCHANGED <<texts, pending, Messages, dispatched>>
<1> USE DEF channelVars, mainVars
<1>1. CASE MainNext
  BY <1>1 DEF MainNext, Drain, Boot, EnterPump, SkipPump, RunTask, FinishTask,
              PumpDone, MainGoesTo, LockQueue, FinishDispatch, UnlockAndSleep,
              SendResponse, GetClient, PeerSend, Unsent, RunMessageLoop,
              QuitMessageLoop, PostTask
<1>2. CASE ServerNext /\ UNCHANGED <<channelVars, mainVars>>
  BY <1>2
<1>3. CASE ChannelNext /\ UNCHANGED mainVars
  BY <1>3 DEF ChannelNext, LockMessages, UnlockMessages
<1>4. CASE UNCHANGED vars
  BY <1>4 DEF vars
<1> QED
  BY <1>1, <1>2, <1>3, <1>4 DEF Next, Running, Terminated

LEMMA QueuedType ==
  ASSUME TypeOK
  PROVE  /\ Queued \in Seq(Nat) /\ Len(Queued) \in Nat
         /\ DOMAIN Queued = 1..Len(Queued)
         /\ \A i \in DOMAIN Queued : Queued[i] \in Nat
<1>1. Queued \in Seq(Nat)
  BY ConcatProperties DEF TypeOK, ChannelTypeOK, Queued
<1> HIDE DEF Queued
<1> QED
  BY <1>1, LenProperties, ElementOfSeq

LEMMA TextsType ==
  ASSUME TypeOK
  PROVE  /\ texts \in Seq(Clients) /\ Len(texts) \in Nat
         /\ DOMAIN texts = 1..Len(texts)
         /\ \A k \in DOMAIN texts : texts[k] \in Clients
         /\ pending \in [Clients -> Nat]
BY LenProperties, ElementOfSeq DEF TypeOK, ChannelTypeOK

(* What the delivery of texts rests on. *)
TextInv == QueueInv /\ QueuedOnceInOrder /\ NoTextLost

(* A text that arrives is held by its read thread, whose earlier texts are *)
(* queued: it is the newest of all.                                        *)
LEMMA TextArrives ==
  ASSUME TypeOK, PendingInv, TextInv, NEW c \in Clients, OnTextMessage(c),
         UNCHANGED dispatched
  PROVE  TextInv'
<1> DEFINE n == Len(texts) + 1
<1>1. /\ Queued' = Queued
      /\ texts' = Append(texts, c)
      /\ pending' = [pending EXCEPT ![c] = n]
      /\ reader[c] = "recv"
  BY DEF OnTextMessage, Receiving, Queued
<1>2. pending[c] = 0
  BY <1>1, TextsType DEF PendingInv
<1>3. /\ DOMAIN texts = 1..Len(texts) /\ DOMAIN texts' = 1..n /\ n \in Nat
      /\ \A k \in DOMAIN texts : texts'[k] = texts[k] /\ texts[k] \in Clients
      /\ texts'[n] = c
      /\ pending \in [Clients -> Nat]
  BY <1>1, TextsType, Appended
<1>4. DOMAIN Queued = 1..Len(Queued) /\ Len(Queued) \in Nat
  BY QueuedType
<1>5. \A i \in DOMAIN Queued : Queued[i] \in DOMAIN texts
  BY DEF TextInv, QueueInv
<1> HIDE DEF n
<1>6. n = Len(texts) + 1 /\ Len(texts) \in Nat
  BY TextsType DEF n
<1>7. QueueInv'
  <2>1. ASSUME NEW i \in DOMAIN Queued, NEW d \in Clients,
               texts'[Queued[i]] = d, pending'[d] # 0
        PROVE  Queued[i] < pending'[d]
    <3>1. CASE d = c
      BY <1>1, <1>3, <1>5, <1>6, <3>1
    <3>2. CASE d # c
      BY <1>1, <1>3, <1>5, <2>1, <3>2 DEF TextInv, QueueInv
    <3> QED
      BY <3>1, <3>2
  <2> QED
    BY <1>1, <1>3, <1>5, <1>6, <2>1 DEF QueueInv
<1>8. QueuedOnceInOrder'
  BY <1>1, <1>3, <1>5 DEF TextInv, QueuedOnceInOrder
<1>9. NoTextLost'
  <2> SUFFICES ASSUME NEW k \in DOMAIN texts'
               PROVE  pending'[texts'[k]] = k <=> ~\E i \in DOMAIN Queued : Queued[i] = k
    BY <1>1 DEF NoTextLost
  <2>1. CASE k = n
    BY <1>1, <1>3, <1>5, <1>6, <2>1
  <2>2. CASE k # n
    <3>1. k \in DOMAIN texts /\ texts'[k] = texts[k]
      BY <1>3, <1>6, <2>2
    <3>2. pending'[texts[k]] = k <=> pending[texts[k]] = k
      BY <1>1, <1>2, <1>3, <1>6, <2>2, <3>1
    <3> QED
      BY <3>1, <3>2 DEF TextInv, NoTextLost
  <2> QED
    BY <2>1, <2>2
<1> QED
  BY <1>7, <1>8, <1>9 DEF TextInv

(* The text a read thread queues goes behind all of its client's.          *)
LEMMA TextQueued ==
  ASSUME TypeOK, PendingInv, TextInv, NEW c \in Clients, PushMessage(c),
         UNCHANGED dispatched
  PROVE  TextInv'
<1> DEFINE p == pending[c]
           m == Len(Queued) + 1
<1>1. /\ p # 0 /\ p \in DOMAIN texts /\ texts[p] = c /\ p \in Nat
      /\ texts' = texts
      /\ pending' = [pending EXCEPT ![c] = 0]
  BY TextsType DEF PushMessage, PendingInv
<1>2. Queued' = Append(Queued, p)
  <2>1. dispatched \o Append(Messages, p) = Append(dispatched \o Messages, p)
    <3>1. p \in Nat /\ dispatched \in Seq(Nat) /\ Messages \in Seq(Nat)
      BY <1>1 DEF TypeOK, ChannelTypeOK
    <3> HIDE DEF p
    <3> QED
      BY <3>1, PushRight
  <2>2. Messages' = Append(Messages, p) /\ dispatched' = dispatched
    BY DEF PushMessage, Enqueue
  <2> QED
    BY <2>1, <2>2 DEF Queued
<1>3. /\ DOMAIN Queued = 1..Len(Queued) /\ DOMAIN Queued' = 1..m /\ Len(Queued) \in Nat
      /\ \A i \in DOMAIN Queued : Queued'[i] = Queued[i]
      /\ Queued'[m] = p
  BY <1>1, <1>2, QueuedType, Appended
<1>4. pending \in [Clients -> Nat] /\ \A k \in DOMAIN texts : texts[k] \in Clients /\ k \in Nat
  BY TextsType
<1>5. ASSUME NEW i \in DOMAIN Queued
      PROVE  /\ Queued[i] \in DOMAIN texts
             /\ Queued[i] # p
             /\ texts[Queued[i]] = c => Queued[i] < p
  BY <1>1, <1>4 DEF TextInv, QueueInv
<1>6. m = Len(Queued) + 1
  OBVIOUS
<1> HIDE DEF m, p
<1>7. QueueInv'
  <2> SUFFICES ASSUME NEW i \in DOMAIN Queued'
               PROVE  /\ Queued'[i] \in DOMAIN texts
                      /\ \A d \in Clients :
                           texts[Queued'[i]] = d /\ pending'[d] # 0 => Queued'[i] < pending'[d]
    BY <1>1 DEF QueueInv
  <2>1. CASE i = m
    BY <1>1, <1>3, <1>4, <2>1
  <2>2. CASE i \in DOMAIN Queued
    BY <1>1, <1>3, <1>4, <2>2 DEF TextInv, QueueInv
  <2> QED
    BY <1>3, <1>6, <2>1, <2>2
<1>8. QueuedOnceInOrder'
  <2> SUFFICES ASSUME NEW i \in DOMAIN Queued', NEW j \in DOMAIN Queued', i < j
               PROVE  /\ Queued'[i] # Queued'[j]
                      /\ texts[Queued'[i]] = texts[Queued'[j]] => Queued'[i] < Queued'[j]
    BY <1>1 DEF QueuedOnceInOrder
  <2>1. i \in DOMAIN Queued
    BY <1>3, <1>6
  <2>2. CASE j = m
    BY <1>1, <1>3, <1>5, <2>1, <2>2
  <2>3. CASE j \in DOMAIN Queued
    BY <1>3, <2>1, <2>3 DEF TextInv, QueuedOnceInOrder
  <2> QED
    BY <1>3, <1>6, <2>2, <2>3
<1>9. NoTextLost'
  <2> SUFFICES ASSUME NEW k \in DOMAIN texts
               PROVE  pending'[texts[k]] = k <=> ~\E i \in DOMAIN Queued' : Queued'[i] = k
    BY <1>1 DEF NoTextLost
  <2>1. k # 0 /\ texts[k] \in Clients
    BY <1>4, TextsType
  <2>2. CASE k = p
    BY <1>1, <1>3, <1>4, <1>6, <2>1, <2>2
  <2>3. CASE k # p
    <3>1. pending'[texts[k]] = k <=> pending[texts[k]] = k
      BY <1>1, <1>4, <2>1, <2>3 DEF p
    <3>2. (\E i \in DOMAIN Queued' : Queued'[i] = k) <=> (\E i \in DOMAIN Queued : Queued[i] = k)
      BY <1>3, <1>6, <2>3
    <3> QED
      BY <3>1, <3>2 DEF TextInv, NoTextLost
  <2> QED
    BY <2>2, <2>3
<1> QED
  BY <1>7, <1>8, <1>9 DEF TextInv

LEMMA TextStep ==
  ASSUME TypeOK, PendingInv, TextInv, [Next]_vars
  PROVE  TextInv'
<1>1. CASE PopMessage
  <2>1. /\ Messages # <<>> /\ Messages' = Tail(Messages)
        /\ dispatched' = Append(dispatched, Head(Messages))
        /\ UNCHANGED <<texts, pending>>
    BY <1>1 DEF PopMessage
  <2>2. Append(dispatched, Head(Messages)) \o Tail(Messages) = dispatched \o Messages
    BY <2>1, MoveHead DEF TypeOK, ChannelTypeOK
  <2>3. Queued' = Queued
    BY <2>1, <2>2 DEF Queued
  <2> QED
    BY <2>1, <2>3 DEF TextInv, QueueInv, QueuedOnceInOrder, NoTextLost
<1>2. CASE UNCHANGED <<texts, pending, Messages, dispatched>>
  <2>1. Queued' = Queued
    BY <1>2 DEF Queued
  <2> QED
    BY <1>2, <2>1 DEF TextInv, QueueInv, QueuedOnceInOrder, NoTextLost
<1> QED
  BY <1>1, <1>2, TextMoves, TextArrives, TextQueued
-----------------------------------------------------------------------------
(***************************************************************************)
(* The lock and the places of the threads.                                 *)
(***************************************************************************)
(* The message to pop is a recorded text, so its number is not zero.       *)
LEMMA HeadIsText ==
  ASSUME TypeOK, QueueInv, Messages # <<>>
  PROVE  Head(Messages) \in DOMAIN texts /\ Head(Messages) # 0
<1> DEFINE i == Len(dispatched) + 1
<1>1. /\ Messages \in Seq(Nat) /\ dispatched \in Seq(Nat)
      /\ Len(Messages) \in Nat \ {0} /\ Len(dispatched) \in Nat
  BY EmptySeq, LenProperties DEF TypeOK, ChannelTypeOK
<1>2. i \in 1..(Len(dispatched) + Len(Messages)) /\ ~(i <= Len(dispatched))
      /\ i - Len(dispatched) = 1
  BY <1>1
<1> HIDE DEF i
<1>3. i \in DOMAIN Queued /\ Queued[i] = Messages[1]
  BY <1>1, <1>2, ConcatProperties, QueuedType DEF Queued
<1>4. Head(Messages) = Messages[1]
  BY <1>1
<1> QED
  BY <1>3, <1>4, TextsType DEF QueueInv

(* The main thread holds the lock from LockQueue to UnlockAndSleep, also   *)
(* while V8 calls back, and does not touch the read threads.               *)
LEMMA MainLockStep ==
  ASSUME TypeOK, QueueInv, MainInv, PendingInv, MainNext
  PROVE  /\ MainInv' /\ PendingInv'
         /\ QueueExclusive => QueueExclusive'
         /\ PlacesInv => PlacesInv'
<1> USE OwnersAssumption
    DEF MainInv, QueueExclusive, PlacesInv, MainInQueue, ReaderInQueue
<1>1. UNCHANGED <<reader, texts, pending>>
  BY DEF MainNext, Drain, Boot, EnterPump, SkipPump, RunTask, FinishTask,
         PumpDone, MainGoesTo, LockQueue, PopMessage, FinishDispatch,
         UnlockAndSleep, SendResponse, GetClient, PeerSend, Unsent,
         RunMessageLoop, QuitMessageLoop, PostTask, serverVars, channelVars
<1>2. PendingInv'
  BY <1>1 DEF PendingInv
<1>3. CASE Boot \/ EnterPump \/ SkipPump \/ FinishTask \/ PumpDone
  BY <1>1, <1>2, <1>3 DEF Boot, EnterPump, SkipPump, FinishTask, PumpDone, MainGoesTo,
                     channelVars
<1>4. CASE RunTask
  BY <1>1, <1>2, <1>4 DEF RunTask, channelVars
<1>5. CASE LockQueue
  BY <1>1, <1>2, <1>5 DEF LockQueue, LockFree
<1>6. CASE PopMessage
  BY <1>1, <1>2, <1>6, HeadIsText DEF PopMessage
<1>7. CASE FinishDispatch
  BY <1>1, <1>2, <1>7 DEF FinishDispatch, channelVars
<1>8. CASE UnlockAndSleep
  BY <1>1, <1>2, <1>8 DEF UnlockAndSleep
<1>9. CASE SendResponse
  <2>1. packet'.kind # "reply"
    BY <1>9 DEF SendResponse, Notify, Respond, Notification, Response
  <2> QED
    BY <1>1, <1>2, <1>9, <2>1 DEF SendResponse, InV8, Notify, Respond, channelVars
<1>10. CASE GetClient
  BY <1>1, <1>2, <1>10 DEF GetClient, Unsent, channelVars
<1>11. CASE PeerSend
  BY <1>1, <1>2, <1>11 DEF PeerSend, Unsent, channelVars, Notification
<1>12. CASE RunMessageLoop \/ QuitMessageLoop \/ PostTask
  BY <1>1, <1>2, <1>12 DEF RunMessageLoop, QuitMessageLoop, PostTask, channelVars
<1> QED
  BY <1>3, <1>4, <1>5, <1>6, <1>7, <1>8, <1>9, <1>10, <1>11, <1>12 DEF MainNext, Drain

(* A read thread that handles an http request is in no callback. *)
LEMMA ServerReader ==
  ASSUME TypeOK, ServerNext, NEW c \in Clients,
         NEW place \in {"lock", "push", "unlock"}
  PROVE  reader'[c] = place <=> reader[c] = place
BY DEF TypeOK, ServerTypeOK, ServerNext, RegisterClient, AddClient, Disconnect,
       RemoveClient, OnHttpRequest, OnSecondHttpRequest, PushReply, WritePacket,
       Receiving

LEMMA ServerStops ==
  ASSUME TypeOK, ServerNext, NEW c \in Clients, reader[c] = "stopped"
  PROVE  reader'[c] = "stopped"
BY DEF TypeOK, ServerTypeOK, ServerNext, RegisterClient, AddClient, Disconnect,
       RemoveClient, OnHttpRequest, OnSecondHttpRequest, PushReply, WritePacket,
       Receiving

(* A read thread holds the lock from LockMessages to UnlockMessages.       *)
LEMMA ChannelLockStep ==
  ASSUME TypeOK, MainInv, PendingInv, ChannelNext, UNCHANGED mainVars
  PROVE  /\ MainInv' /\ PendingInv'
         /\ QueueExclusive => QueueExclusive'
         /\ PlacesInv => PlacesInv'
<1> USE OwnersAssumption
    DEF QueueExclusive, PlacesInv, MainInQueue, ReaderInQueue, ReaderGoesTo
<1>1. MainInv' /\ UNCHANGED <<pc, current>>
  BY DEF MainInv, mainVars
<1>2. reader \in [Clients -> ReaderStates] /\ pending \in [Clients -> Nat]
      /\ MessagesLock \in Clients \cup {Main, Unlocked}
  BY DEF TypeOK, ServerTypeOK, ChannelTypeOK
<1>3. ASSUME NEW c \in Clients, OnTextMessage(c)
      PROVE  /\ PendingInv'
             /\ QueueExclusive => QueueExclusive'
             /\ PlacesInv => PlacesInv'
  <2>1. DOMAIN texts = 1..Len(texts) /\ DOMAIN texts' = 1..(Len(texts) + 1)
        /\ Len(texts) \in Nat /\ texts'[Len(texts) + 1] = c
        /\ \A k \in DOMAIN texts : texts'[k] = texts[k]
    BY <1>3, TextsType, Appended DEF OnTextMessage
  <2>2. (QueueExclusive => QueueExclusive') /\ (PlacesInv => PlacesInv')
    BY <1>1, <1>2, <1>3 DEF OnTextMessage, Receiving
  <2>3. PendingInv'
    BY <1>2, <1>3, <2>1 DEF OnTextMessage, PendingInv
  <2> QED
    BY <2>2, <2>3
<1>4. ASSUME NEW c \in Clients, LockMessages(c)
      PROVE  /\ PendingInv'
             /\ QueueExclusive => QueueExclusive'
             /\ PlacesInv => PlacesInv'
  BY <1>1, <1>2, <1>4 DEF LockMessages, LockFree, PendingInv
<1>5. ASSUME NEW c \in Clients, PushMessage(c)
      PROVE  /\ PendingInv'
             /\ QueueExclusive => QueueExclusive'
             /\ PlacesInv => PlacesInv'
  BY <1>1, <1>2, <1>5 DEF PushMessage, PendingInv
<1>6. ASSUME NEW c \in Clients, UnlockMessages(c)
      PROVE  /\ PendingInv'
             /\ QueueExclusive => QueueExclusive'
             /\ PlacesInv => PlacesInv'
  BY <1>1, <1>2, <1>6 DEF UnlockMessages, PendingInv
<1> QED
  BY <1>1, <1>3, <1>4, <1>5, <1>6 DEF ChannelNext

LEMMA LockStep ==
  ASSUME TypeOK, QueueInv, MainInv, PendingInv, [Next]_vars
  PROVE  /\ MainInv' /\ PendingInv'
         /\ QueueExclusive => QueueExclusive'
         /\ PlacesInv => PlacesInv'
<1>1. CASE ServerNext /\ UNCHANGED <<channelVars, mainVars>>
  <2>1. UNCHANGED <<pc, current, packet, MessagesLock, texts, pending>>
    BY <1>1 DEF channelVars, mainVars
  <2>2. \A c \in Clients : \A place \in {"lock", "push", "unlock"} :
          reader'[c] = place <=> reader[c] = place
    BY <1>1, ServerReader
  <2>3. \A c \in Clients : reader[c] = "stopped" => reader'[c] = "stopped"
    BY <1>1, ServerStops
  <2>4. PendingInv'
    BY <2>1, <2>2, <2>3 DEF PendingInv
  <2> QED
    BY <2>1, <2>2, <2>4 DEF MainInv, QueueExclusive, PlacesInv, MainInQueue, ReaderInQueue
<1>2. CASE UNCHANGED vars
  BY <1>2 DEF vars, serverVars, channelVars, mainVars, MainInv,
              QueueExclusive, PlacesInv, MainInQueue, ReaderInQueue, PendingInv
<1> QED
  BY <1>1, <1>2, MainLockStep, ChannelLockStep DEF Next, Running, Terminated
-----------------------------------------------------------------------------
(***************************************************************************)
(* The packets: what a client is sent, and who it is.                      *)
(***************************************************************************)
LEMMA PushedType ==
  ASSUME TypeOK, NEW c \in Clients
  PROVE  /\ Pushed(c) \in Seq(Packet) /\ Len(Pushed(c)) \in Nat
         /\ DOMAIN Pushed(c) = 1..Len(Pushed(c))
         /\ Pushed(c) # <<>> <=> Len(Pushed(c)) # 0
<1>1. Pushed(c) \in Seq(Packet)
  BY ConcatProperties DEF TypeOK, ServerTypeOK, Pushed
<1> HIDE DEF Pushed
<1> QED
  BY <1>1, LenProperties, EmptySeq

(* A push appends to what a client was pushed; a write thread's step does  *)
(* not change it.                                                          *)
LEMMA PushAppends ==
  ASSUME TypeOK, NEW c \in Clients, NEW p \in Packet, Push(c, p), UNCHANGED wire
  PROVE  \A d \in Clients :
           Pushed(d)' = IF d = c THEN Append(Pushed(d), p) ELSE Pushed(d)
<1> TAKE d \in Clients
<1>1. wire[c] \o Append(outbox[c], p) = Append(wire[c] \o outbox[c], p)
  BY PushRight DEF TypeOK, ServerTypeOK
<1> QED
  BY <1>1 DEF TypeOK, ServerTypeOK, Push, Pushed

LEMMA WriteKeepsPushed ==
  ASSUME TypeOK, NEW c \in Clients, WritePacket(c)
  PROVE  \A d \in Clients : Pushed(d)' = Pushed(d)
<1> TAKE d \in Clients
<1>1. Append(wire[c], Head(outbox[c])) \o Tail(outbox[c]) = wire[c] \o outbox[c]
  <2>1. wire[c] \in Seq(Packet) /\ outbox[c] \in Seq(Packet) /\ outbox[c] # <<>>
    BY DEF TypeOK, ServerTypeOK, WritePacket
  <2> QED
    BY <2>1, MoveHead
<1> QED
  BY <1>1 DEF TypeOK, ServerTypeOK, WritePacket, Pushed

(* The packets a client was pushed change in two actions only. *)
LEMMA PushedMoves ==
  ASSUME TypeOK, [Next]_vars
  PROVE  \/ /\ PeerSend /\ IsCompleted(target)
            /\ \A d \in Clients :
                 Pushed(d)' = IF d = target THEN Append(Pushed(d), packet) ELSE Pushed(d)
         \/ \E c \in Clients :
              /\ PushReply(c) /\ UNCHANGED <<channelVars, mainVars>>
              /\ \A d \in Clients :
                   Pushed(d)' = IF d = c THEN Append(Pushed(d), Reply) ELSE Pushed(d)
         \/ \A d \in Clients : Pushed(d)' = Pushed(d)
<1>1. UNCHANGED <<outbox, wire>> => \A d \in Clients : Pushed(d)' = Pushed(d)
  BY DEF Pushed
<1>2. CASE PeerSend /\ IsCompleted(target)
  <2>1. Push(target, packet) /\ UNCHANGED wire
    BY <1>2 DEF PeerSend
  <2>2. CASE target \in Clients
    BY <1>2, <2>1, <2>2, PushAppends DEF TypeOK
  <2>3. CASE target \notin Clients
    BY <2>1, <2>3, <1>1 DEF Push, TypeOK, ServerTypeOK
  <2> QED
    BY <2>2, <2>3
<1>3. CASE MainNext /\ ~(PeerSend /\ IsCompleted(target))
  BY <1>1, <1>3 DEF MainNext, Drain, Boot, EnterPump, SkipPump, RunTask, FinishTask,
         PumpDone, MainGoesTo, LockQueue, PopMessage, FinishDispatch,
         UnlockAndSleep, SendResponse, GetClient, PeerSend, Unsent,
         RunMessageLoop, QuitMessageLoop, PostTask, serverVars
<1>4. CASE ChannelNext
  BY <1>1, <1>4 DEF ChannelNext, OnTextMessage, LockMessages, PushMessage, UnlockMessages,
                    ReaderGoesTo
<1>5. ASSUME NEW c \in Clients, PushReply(c), UNCHANGED <<channelVars, mainVars>>
      PROVE  \A d \in Clients :
               Pushed(d)' = IF d = c THEN Append(Pushed(d), Reply) ELSE Pushed(d)
  BY <1>5, PushAppends, PacketType DEF PushReply
<1>6. ASSUME NEW c \in Clients,
             AddClient(c) \/ Disconnect(c) \/ OnSecondHttpRequest(c)
               \/ \E upgrade \in BOOLEAN : OnHttpRequest(c, upgrade)
      PROVE  \A d \in Clients : Pushed(d)' = Pushed(d)
  BY <1>1, <1>6 DEF AddClient, Disconnect, OnSecondHttpRequest, OnHttpRequest
<1>7. CASE RegisterClient
  BY <1>1, <1>7 DEF RegisterClient
<1>8. CASE UNCHANGED vars
  BY <1>1, <1>8 DEF vars, serverVars
<1> QED
  BY <1>2, <1>3, <1>4, <1>5, <1>6, <1>7, <1>8, WriteKeepsPushed
     DEF Next, Running, Terminated, ServerNext

(* texts grows at its end or stays. *)
LEMMA TextsGrow ==
  ASSUME TypeOK, [Next]_vars
  PROVE  /\ DOMAIN texts \subseteq DOMAIN texts'
         /\ \A k \in DOMAIN texts : texts'[k] = texts[k]
<1>1. ASSUME NEW c \in Clients, OnTextMessage(c)
      PROVE  /\ DOMAIN texts \subseteq DOMAIN texts'
             /\ \A k \in DOMAIN texts : texts'[k] = texts[k]
  BY <1>1, TextsType, Appended DEF OnTextMessage
<1> QED
  BY <1>1, TextMoves DEF PushMessage, PopMessage

(* Who spoke since a text is a connected client past its handshake. *)
LEMMA SpeakerIsClient ==
  ASSUME TypeOK, HandshakeInv, NEW k, NEW c, SpokeSince(k, c)
  PROVE  /\ c \in Clients /\ IsCompleted(c) /\ reader[c] # "reply" /\ socket[c] # "none"
         /\ Pushed(c) # <<>>
<1>1. c \in Clients /\ SpokeSince(0, c)
  BY TextsType DEF SpokeSince
<1> QED
  BY <1>1 DEF HandshakeInv, IsCompleted

(* SpokeSince is about texts alone. *)
LEMMA SpokeFrame ==
  ASSUME texts' = texts, NEW k, NEW c
  PROVE  SpokeSince(k, c)' <=> SpokeSince(k, c)
BY DEF SpokeSince

(***************************************************************************)
(* HandshakeInv.                                                           *)
(***************************************************************************)
(* The main thread sends to a client that has spoken, hence to one that    *)
(* was pushed its reply.                                                   *)
LEMMA MainHandshakeStep ==
  ASSUME TypeOK, HandshakeInv, ResponseToRecentSpeaker, [Next]_vars, MainNext
  PROVE  HandshakeInv'
<1>1. UNCHANGED <<reader, mHandshake, socket, texts>>
  BY DEF MainNext, Drain, Boot, EnterPump, SkipPump, RunTask, FinishTask,
         PumpDone, MainGoesTo, LockQueue, PopMessage, FinishDispatch,
         UnlockAndSleep, SendResponse, GetClient, PeerSend, Unsent,
         RunMessageLoop, QuitMessageLoop, PostTask, serverVars, channelVars
<1>2. \A d \in Clients : Pushed(d)' # <<>> <=> Pushed(d) # <<>>
  <2>1. CASE PeerSend /\ \A d \in Clients :
               Pushed(d)' = IF d = target THEN Append(Pushed(d), packet) ELSE Pushed(d)
    <3>1. target \in Clients => Pushed(target) # <<>>
      BY <2>1, SpeakerIsClient DEF PeerSend, ResponseToRecentSpeaker
    <3>2. target \in Clients => Append(Pushed(target), packet) # <<>>
      BY PushedType, Appended DEF TypeOK
    <3> QED
      BY <2>1, <3>1, <3>2
  <2>2. ASSUME NEW c \in Clients, PushReply(c)
        PROVE  FALSE
    BY <1>1, <2>2 DEF PushReply, TypeOK, ServerTypeOK
  <2> QED
    BY <2>1, <2>2, PushedMoves
<1> QED
  BY <1>1, <1>2, SpokeFrame DEF HandshakeInv, IsCompleted

(* The accept, read and write threads. *)
LEMMA ServerHandshakeStep ==
  ASSUME TypeOK, HandshakeInv, ServerNext, UNCHANGED <<channelVars, mainVars>>
  PROVE  HandshakeInv'
<1>1. texts' = texts /\ \A c : SpokeSince(0, c)' <=> SpokeSince(0, c)
  BY SpokeFrame DEF channelVars
<1>2. /\ reader \in [Clients -> ReaderStates] /\ socket \in [Clients -> {"none", "open", "closed"}]
      /\ mHandshake \in [Clients -> [upgrade : BOOLEAN, sent : BOOLEAN]]
  BY DEF TypeOK, ServerTypeOK
<1>3. UNCHANGED <<outbox, wire>> => \A d \in Clients : Pushed(d)' = Pushed(d)
  BY DEF Pushed
<1> USE DEF HandshakeInv, IsCompleted
<1>4. CASE RegisterClient
  BY <1>1, <1>3, <1>4 DEF RegisterClient
<1>5. ASSUME NEW c \in Clients, AddClient(c) \/ Disconnect(c)
      PROVE  HandshakeInv'
  BY <1>1, <1>2, <1>3, <1>5 DEF AddClient, Disconnect
<1>6. ASSUME NEW c \in Clients, NEW upgrade \in BOOLEAN, OnHttpRequest(c, upgrade)
      PROVE  HandshakeInv'
  <2>1. \A d \in Clients : Pushed(d)' = Pushed(d)
    BY <1>3, <1>6 DEF OnHttpRequest
  <2>2. ~mHandshake[c].sent /\ ~SpokeSince(0, c) /\ Pushed(c) = <<>>
    BY <1>6 DEF OnHttpRequest
  <2>3. /\ \A d \in Clients : d # c => mHandshake'[d] = mHandshake[d] /\ reader'[d] = reader[d]
        /\ mHandshake'[c].sent /\ reader'[c] = "reply" /\ socket' = socket
    BY <1>2, <1>6 DEF OnHttpRequest
  <2> QED
    BY <1>1, <2>1, <2>2, <2>3
<1>7. ASSUME NEW c \in Clients, OnSecondHttpRequest(c)
      PROVE  HandshakeInv'
  <2>1. \A d \in Clients : Pushed(d)' = Pushed(d)
    BY <1>3, <1>7 DEF OnSecondHttpRequest
  <2>2. /\ \A d \in Clients : d # c => reader'[d] = reader[d]
        /\ reader[c] = "recv" /\ reader'[c] = "stopped" /\ UNCHANGED <<socket, mHandshake>>
    BY <1>2, <1>7 DEF OnSecondHttpRequest, Receiving
  <2> QED
    BY <1>1, <2>1, <2>2
<1>8. ASSUME NEW c \in Clients, PushReply(c)
      PROVE  HandshakeInv'
  <2>1. Pushed(c)' # <<>> /\ \A d \in Clients : d # c => Pushed(d)' = Pushed(d)
    <3>1. \A d \in Clients : Pushed(d)' = IF d = c THEN Append(Pushed(d), Reply) ELSE Pushed(d)
      BY <1>8, PushAppends, PacketType DEF PushReply
    <3>2. Append(Pushed(c), Reply) # <<>>
      BY PushedType, PacketType, Appended
    <3> QED
      BY <3>1, <3>2
  <2>2. /\ \A d \in Clients : d # c => reader'[d] = reader[d]
        /\ reader[c] = "reply" /\ reader'[c] = "recv" /\ UNCHANGED <<socket, mHandshake>>
    BY <1>2, <1>8 DEF PushReply
  <2> QED
    BY <1>1, <2>1, <2>2
<1>9. ASSUME NEW c \in Clients, WritePacket(c)
      PROVE  HandshakeInv'
  BY <1>1, <1>9, WriteKeepsPushed DEF WritePacket
<1> QED
  BY <1>4, <1>5, <1>6, <1>7, <1>8, <1>9 DEF ServerNext

(* A text is taken from an open connection whose handshake is completed.   *)
LEMMA ChannelHandshakeStep ==
  ASSUME TypeOK, HandshakeInv, ChannelNext
  PROVE  HandshakeInv'
<1>1. /\ reader \in [Clients -> ReaderStates]
      /\ UNCHANGED <<socket, mHandshake, outbox, wire>>
      /\ \A d \in Clients : Pushed(d)' = Pushed(d)
  BY DEF TypeOK, ServerTypeOK, ChannelNext, OnTextMessage, LockMessages, PushMessage,
         UnlockMessages, ReaderGoesTo, Pushed
<1> USE DEF HandshakeInv, IsCompleted, ReaderGoesTo
<1>2. ASSUME NEW c \in Clients, OnTextMessage(c)
      PROVE  HandshakeInv'
  <2>1. /\ \A d \in Clients : d # c => reader'[d] = reader[d]
        /\ reader[c] = "recv" /\ reader'[c] = "lock" /\ IsCompleted(c) /\ socket[c] = "open"
    BY <1>1, <1>2 DEF OnTextMessage, Receiving, AcceptsText
  <2>2. \A d \in Clients : d # c /\ SpokeSince(0, d)' => SpokeSince(0, d)
    <3> SUFFICES ASSUME NEW d \in Clients, d # c,
                        NEW j \in DOMAIN texts', j >= 0, texts'[j] = d
                 PROVE  SpokeSince(0, d)
      BY DEF SpokeSince
    <3>1. texts' = Append(texts, c)
      BY <1>2 DEF OnTextMessage
    <3> QED
      BY <3>1, TextsType, Appended DEF SpokeSince
  <2> QED
    BY <1>1, <2>1, <2>2
<1>3. ASSUME NEW c \in Clients, LockMessages(c) \/ PushMessage(c) \/ UnlockMessages(c)
      PROVE  HandshakeInv'
  <2>1. /\ \A d \in Clients : d # c => reader'[d] = reader[d]
        /\ reader[c] \in {"lock", "push", "unlock"}
        /\ reader'[c] \in {"push", "unlock", "recv"} /\ texts' = texts
    BY <1>1, <1>3 DEF LockMessages, PushMessage, UnlockMessages
  <2> QED
    BY <1>1, <2>1, SpokeFrame
<1> QED
  BY <1>2, <1>3 DEF ChannelNext

LEMMA HandshakeStep ==
  ASSUME TypeOK, HandshakeInv, ResponseToRecentSpeaker, [Next]_vars
  PROVE  HandshakeInv'
<1>1. CASE UNCHANGED vars
  <2>1. UNCHANGED <<texts, reader, mHandshake, socket, outbox, wire>>
    BY <1>1 DEF vars, serverVars, channelVars
  <2>2. \A d \in Clients : Pushed(d)' = Pushed(d)
    BY <2>1 DEF Pushed
  <2> QED
    BY <2>1, <2>2, SpokeFrame DEF HandshakeInv, IsCompleted
<1> QED
  BY <1>1, MainHandshakeStep, ServerHandshakeStep, ChannelHandshakeStep
     DEF Next, Running, Terminated
-----------------------------------------------------------------------------
(***************************************************************************)
(* The order and the routing of packets.                                   *)
(***************************************************************************)
(* The reply is pushed to a client that was pushed nothing, anything else  *)
(* to one that was pushed something.                                       *)
LEMMA HandshakeFirstStep ==
  ASSUME TypeOK, MainInv, HandshakeInv, HandshakeFirst, ResponseToRecentSpeaker,
         [Next]_vars
  PROVE  HandshakeFirst'
<1>1. CASE PeerSend /\ \A d \in Clients :
             Pushed(d)' = IF d = target THEN Append(Pushed(d), packet) ELSE Pushed(d)
  <2> SUFFICES ASSUME NEW d \in Clients, NEW i \in DOMAIN Pushed(d)'
               PROVE  Pushed(d)'[i].kind = "reply" <=> i = 1
    BY DEF HandshakeFirst
  <2>1. CASE d # target
    BY <1>1, <2>1 DEF HandshakeFirst
  <2>2. CASE d = target
    <3>1. Pushed(d)' = Append(Pushed(d), packet) /\ packet.kind # "reply"
      BY <1>1, <2>2 DEF MainInv
    <3>2. Pushed(d) # <<>>
      BY <1>1, <2>2, SpeakerIsClient DEF PeerSend, ResponseToRecentSpeaker
    <3>3. /\ Len(Pushed(d)) \in Nat \ {0} /\ DOMAIN Pushed(d) = 1..Len(Pushed(d))
          /\ DOMAIN Pushed(d)' = 1..(Len(Pushed(d)) + 1)
          /\ \A j \in DOMAIN Pushed(d) : Pushed(d)'[j] = Pushed(d)[j]
          /\ Pushed(d)'[Len(Pushed(d)) + 1] = packet
      <4> DEFINE s == Pushed(d)
      <4>1. s \in Seq(Packet) /\ packet \in Packet /\ s # <<>>
        BY <3>2, PushedType DEF TypeOK
      <4>2. Pushed(d)' = Append(s, packet)
        BY <3>1
      <4> HIDE DEF s
      <4>3. /\ Len(s) \in Nat \ {0} /\ DOMAIN s = 1..Len(s)
            /\ DOMAIN Append(s, packet) = 1..(Len(s) + 1)
            /\ \A j \in DOMAIN s : Append(s, packet)[j] = s[j]
            /\ Append(s, packet)[Len(s) + 1] = packet
        BY <4>1, Appended, EmptySeq
      <4> QED
        BY <4>2, <4>3 DEF s
    <3>4. CASE i \in DOMAIN Pushed(d)
      BY <3>3, <3>4 DEF HandshakeFirst
    <3>5. CASE i = Len(Pushed(d)) + 1
      BY <3>1, <3>3, <3>5
    <3> QED
      BY <3>3, <3>4, <3>5
  <2> QED
    BY <2>1, <2>2
<1>2. ASSUME NEW c \in Clients, PushReply(c),
             \A d \in Clients :
               Pushed(d)' = IF d = c THEN Append(Pushed(d), Reply) ELSE Pushed(d)
      PROVE  HandshakeFirst'
  <2>1. Pushed(c) = <<>>
    BY <1>2 DEF PushReply, HandshakeInv
  <2>2. Pushed(c)' = <<Reply>>
    <3>1. Append(<<>>, Reply) = <<Reply>>
      OBVIOUS
    <3>2. Pushed(c)' = Append(Pushed(c), Reply)
      BY <1>2
    <3> QED
      BY <2>1, <3>1, <3>2
  <2>3. \A i \in DOMAIN Pushed(c)' : i = 1 /\ Pushed(c)'[i].kind = "reply"
    BY <2>2 DEF Reply
  <2> QED
    BY <1>2, <2>3 DEF HandshakeFirst
<1>3. CASE \A d \in Clients : Pushed(d)' = Pushed(d)
  BY <1>3 DEF HandshakeFirst
<1> QED
  BY <1>1, <1>2, <1>3, PushedMoves

(* mWebsocketClient is assigned for every text, and only then. *)
LEMMA LastClientStep ==
  ASSUME TypeOK, LastClientInv, [Next]_vars
  PROVE  LastClientInv'
<1>1. ASSUME NEW c \in Clients, OnTextMessage(c)
      PROVE  LastClientInv'
  <2>1. texts' = Append(texts, c) /\ mWebsocketClient' = c
    BY <1>1 DEF OnTextMessage, RecordClient
  <2>2. Len(texts') = Len(texts) + 1 /\ texts'[Len(texts) + 1] = c
    BY <2>1, TextsType, Appended
  <2> QED
    BY <2>1, <2>2 DEF LastClientInv
<1>2. ASSUME UNCHANGED <<texts, mWebsocketClient>>
      PROVE  LastClientInv'
  BY <1>2 DEF LastClientInv
<1>3. ASSUME ChannelNext, UNCHANGED mainVars
      PROVE  LastClientInv'
  BY <1>1, <1>2, <1>3 DEF ChannelNext, LockMessages, PushMessage, UnlockMessages
<1>4. CASE MainNext
  BY <1>2, <1>4 DEF MainNext, Drain, Boot, EnterPump, SkipPump, RunTask, FinishTask,
         PumpDone, MainGoesTo, LockQueue, PopMessage, FinishDispatch,
         UnlockAndSleep, SendResponse, GetClient, PeerSend, Unsent,
         RunMessageLoop, QuitMessageLoop, PostTask, channelVars
<1> QED
  BY <1>2, <1>3, <1>4 DEF Next, Running, Terminated, vars, channelVars

(* V8 answers what it was given: the packet's text is no later than the    *)
(* last text, whose client SendResponse reads.                             *)
LEMMA TargetSpoke ==
  ASSUME TypeOK, QueueInv, LastClientInv, SendResponse
  PROVE  target' # NoClient /\ SpokeSince(packet'.text, target')
<1>1. texts \in Seq(Clients) /\ Len(texts) \in Nat /\ DOMAIN texts = 1..Len(texts)
  BY TextsType
<1>2. ASSUME NEW k \in Dispatched
      PROVE  k \in DOMAIN texts
  <2>1. PICK i \in DOMAIN dispatched : dispatched[i] = k
    BY DEF Dispatched
  <2>2. i \in DOMAIN Queued /\ Queued[i] = k
    <3>1. /\ dispatched \in Seq(Nat) /\ Messages \in Seq(Nat)
          /\ i \in 1..Len(dispatched) /\ Len(dispatched) \in Nat /\ Len(Messages) \in Nat
      BY LenProperties DEF TypeOK, ChannelTypeOK
    <3>2. i \in 1..(Len(dispatched) + Len(Messages)) /\ i <= Len(dispatched)
      BY <3>1
    <3> QED
      BY <2>1, <3>1, <3>2, ConcatProperties, QueuedType DEF Queued
  <2> QED
    BY <2>2 DEF QueueInv
<1>3. packet'.text <= Len(texts) /\ texts # <<>>
  <2>1. CASE Notify
    <3>1. 1 \in DOMAIN dispatched
      BY <2>1, EmptySeq, LenProperties DEF Notify, TypeOK
    <3>2. dispatched[1] \in DOMAIN texts
      BY <3>1, <1>2 DEF Dispatched
    <3> QED
      BY <1>1, <2>1, <3>2 DEF Notify, Notification
  <2>2. ASSUME NEW k \in Dispatched, Respond(k)
        PROVE  packet'.text <= Len(texts) /\ texts # <<>>
    BY <1>1, <1>2, <2>2 DEF Respond, Response
  <2> QED
    BY <2>1, <2>2 DEF SendResponse
<1>4. Len(texts) \in DOMAIN texts /\ texts[Len(texts)] \in Clients
  BY <1>1, <1>3, EmptySeq, TextsType
<1> QED
  BY <1>3, <1>4, NoClientAssumption DEF SendResponse, LastClientInv, SpokeSince

(* What is being sent, and what was pushed, stays with one that spoke.     *)
LEMMA RoutingStep ==
  ASSUME TypeOK, QueueInv, LastClientInv, ResponseToRecentSpeaker, [Next]_vars
  PROVE  ResponseToRecentSpeaker'
<1>1. pc' \in {"getclient", "push"} =>
        target' # NoClient /\ SpokeSince(packet.text, target)'
  <2>1. CASE SendResponse
    <3>1. target' # NoClient /\ SpokeSince(packet'.text, target')
      BY <2>1, TargetSpoke
    <3>2. texts' = texts
      BY <2>1 DEF SendResponse, channelVars
    <3> QED
      BY <3>1, <3>2 DEF SpokeSince
  <2>2. CASE pc \in {"getclient", "push"} /\ UNCHANGED <<packet, target>>
    <3>1. target # NoClient /\ SpokeSince(packet.text, target)
      BY <2>2 DEF ResponseToRecentSpeaker
    <3>2. SpokeSince(packet.text, target)'
      <4>1. PICK j \in DOMAIN texts : j >= packet.text /\ texts[j] = target
        BY <3>1 DEF SpokeSince
      <4> QED
        BY <2>2, <4>1, TextsGrow DEF SpokeSince
    <3> QED
      BY <2>2, <3>1, <3>2
  <2>3. CASE pc' \notin {"getclient", "push"}
    BY <2>3
  <2>4. \/ SendResponse
        \/ pc' \notin {"getclient", "push"}
        \/ pc \in {"getclient", "push"} /\ UNCHANGED <<packet, target>>
    BY DEF Next, Running, Terminated, vars, mainVars, MainNext, Drain, Boot, EnterPump,
           SkipPump, RunTask, FinishTask, PumpDone, MainGoesTo, LockQueue, PopMessage,
           FinishDispatch, UnlockAndSleep, GetClient, PeerSend, Unsent,
           RunMessageLoop, QuitMessageLoop, PostTask, InV8
  <2> QED
    BY <2>1, <2>2, <2>3, <2>4
<1>2. ASSUME NEW c \in Clients, NEW i \in DOMAIN Pushed(c)',
             Pushed(c)'[i].kind = "response"
      PROVE  \E j \in DOMAIN texts' : j >= Pushed(c)'[i].text /\ texts'[j] = c
  <2>1. CASE i \in DOMAIN Pushed(c) /\ Pushed(c)'[i] = Pushed(c)[i]
    <3>1. SpokeSince(Pushed(c)[i].text, c)
      BY <1>2, <2>1 DEF ResponseToRecentSpeaker
    <3> QED
      BY <2>1, <3>1, TextsGrow DEF SpokeSince
  <2>2. ASSUME NEW p \in Packet, Pushed(c)' = Append(Pushed(c), p)
        PROVE  \/ i \in DOMAIN Pushed(c) /\ Pushed(c)'[i] = Pushed(c)[i]
               \/ Pushed(c)'[i] = p
    <3> DEFINE s == Pushed(c)
    <3>1. s \in Seq(Packet)
      BY PushedType
    <3>2. i \in DOMAIN Append(s, p) /\ Pushed(c)' = Append(s, p)
      BY <1>2, <2>2
    <3> HIDE DEF s
    <3>3. \/ i \in DOMAIN s /\ Append(s, p)[i] = s[i]
          \/ Append(s, p)[i] = p
      BY <3>1, <3>2, Appended
    <3> QED
      BY <3>2, <3>3 DEF s
  <2>3. CASE PeerSend /\ c = target /\ Pushed(c)' = Append(Pushed(c), packet)
    <3>1. CASE Pushed(c)'[i] = packet
      <4>1. SpokeSince(packet.text, c)
        BY <2>3 DEF PeerSend, ResponseToRecentSpeaker
      <4> QED
        BY <3>1, <4>1, TextsGrow DEF SpokeSince
    <3> QED
      BY <2>1, <2>2, <2>3, <3>1 DEF TypeOK
  <2>4. CASE Pushed(c)' = Append(Pushed(c), Reply)
    <3>1. Pushed(c)'[i] # Reply
      BY <1>2 DEF Reply
    <3> QED
      BY <2>1, <2>2, <2>4, <3>1, PacketType
  <2>5. CASE Pushed(c)' = Pushed(c)
    BY <1>2, <2>1, <2>5
  <2> QED
    BY <2>3, <2>4, <2>5, PushedMoves
<1> QED
  BY <1>1, <1>2 DEF ResponseToRecentSpeaker, SpokeSince

(* A peer is in the array from RegisterClient on: nothing removes it.      *)
LEMMA RegisterStep ==
  ASSUME TypeOK, RegisterInv, [Next]_vars
  PROVE  RegisterInv'
<1>1. CASE RegisterClient
  <2>1. Registered' = Registered \cup {adding}
    <3>1. mClients' = Append(mClients, adding) /\ adding \in Clients /\ mClients \in Seq(Clients)
      BY <1>1 DEF RegisterClient, TypeOK, ServerTypeOK
    <3>2. /\ Len(mClients) \in Nat /\ DOMAIN mClients = 1..Len(mClients)
          /\ DOMAIN mClients' = 1..(Len(mClients) + 1)
          /\ \A i \in DOMAIN mClients : mClients'[i] = mClients[i]
          /\ mClients'[Len(mClients) + 1] = adding
      BY <3>1, Appended
    <3> QED
      BY <3>2 DEF Registered
  <2> QED
    BY <1>1, <2>1 DEF RegisterInv, RegisterClient
<1>2. ASSUME NEW c \in Clients, AddClient(c)
      PROVE  RegisterInv'
  <2>1. Registered' = Registered
    BY <1>2 DEF AddClient, Registered
  <2>2. adding \notin Clients /\ adding' = c
    BY <1>2, NoClientAssumption DEF AddClient
  <2>3. \A d \in Clients : d # c => socket'[d] = socket[d]
    BY <1>2 DEF AddClient, TypeOK, ServerTypeOK
  <2> QED
    BY <2>1, <2>2, <2>3 DEF RegisterInv
<1>3. ASSUME NEW c \in Clients, Disconnect(c)
      PROVE  RegisterInv'
  BY <1>3 DEF Disconnect, RemoveClient, RegisterInv, Registered, TypeOK, ServerTypeOK
<1>4. CASE UNCHANGED <<socket, mClients, adding>>
  BY <1>4 DEF RegisterInv, Registered
<1>5. CASE MainNext
  BY <1>4, <1>5 DEF MainNext, Drain, Boot, EnterPump, SkipPump, RunTask, FinishTask,
         PumpDone, MainGoesTo, LockQueue, PopMessage, FinishDispatch,
         UnlockAndSleep, SendResponse, GetClient, PeerSend, Unsent,
         RunMessageLoop, QuitMessageLoop, PostTask, serverVars
<1>6. CASE ServerNext
  BY <1>1, <1>2, <1>3, <1>4, <1>6 DEF ServerNext, OnHttpRequest, OnSecondHttpRequest,
     PushReply, WritePacket
<1>7. CASE ChannelNext
  BY <1>4, <1>7 DEF ChannelNext, OnTextMessage, LockMessages, PushMessage,
     UnlockMessages, ReaderGoesTo
<1> QED
  BY <1>4, <1>5, <1>6, <1>7 DEF Next, Running, Terminated, vars, serverVars

(* A target has spoken, so it is connected: it is in the array or AddClient *)
(* is about to push it; its handshake is completed, so Send cannot throw.  *)
LEMMA CrashStep ==
  ASSUME TypeOK, HandshakeInv, ResponseToRecentSpeaker, RegisterInv,
         CrashOnlyWhileAdding, [Next]_vars
  PROVE  CrashOnlyWhileAdding'
<1>1. pc \in {"getclient", "push"} =>
        /\ target \in Clients /\ IsCompleted(target) /\ target # NoClient
        /\ target \in Registered \/ target = adding
  BY SpeakerIsClient DEF ResponseToRecentSpeaker, RegisterInv
<1>2. CASE GetClient
  BY <1>1, <1>2 DEF GetClient, Unsent, serverVars, CrashOnlyWhileAdding
<1>3. CASE PeerSend
  BY <1>1, <1>3 DEF PeerSend, CrashOnlyWhileAdding
<1>4. CASE pc' # "terminated"
  BY <1>4 DEF CrashOnlyWhileAdding
<1>5. CASE UNCHANGED vars
  BY <1>5 DEF vars, serverVars, mainVars, CrashOnlyWhileAdding
<1>6. CASE pc # "terminated" /\ Running /\ ~GetClient /\ ~PeerSend
  <2>1. pc' # "terminated"
    BY <1>6 DEF Running, mainVars, MainNext, Drain, Boot, EnterPump, SkipPump, RunTask,
           FinishTask, PumpDone, MainGoesTo, LockQueue, PopMessage, FinishDispatch,
           UnlockAndSleep, SendResponse, RunMessageLoop, QuitMessageLoop, PostTask
  <2> QED
    BY <1>4, <2>1
<1> QED
  BY <1>2, <1>3, <1>5, <1>6 DEF Next, Terminated
-----------------------------------------------------------------------------
(***************************************************************************)
(* The theorems.                                                           *)
(***************************************************************************)
(* Initially nothing is connected, queued or sent. *)
LEMMA InvInit == Init => IInv /\ PlacesInv
<1> SUFFICES ASSUME Init PROVE IInv /\ PlacesInv
  OBVIOUS
<1> USE DEF Init, ServerInit, ChannelInit
<1>1. TypeOK
  BY TypeInit
<1>2. Queued = <<>> /\ DOMAIN Queued = {} /\ DOMAIN texts = {}
  BY DEF Queued
<1>3. \A c \in Clients : Pushed(c) = <<>> /\ DOMAIN Pushed(c) = {}
  <2>1. <<>> \o <<>> = <<>> /\ DOMAIN <<>> = {}
    OBVIOUS
  <2>2. \A c \in Clients : wire[c] = <<>> /\ outbox[c] = <<>>
    OBVIOUS
  <2> QED
    BY <2>1, <2>2 DEF Pushed
<1>4. MainInv /\ QueueExclusive /\ PlacesInv /\ PendingInv
  BY OwnersAssumption DEF MainInv, QueueExclusive, PlacesInv, MainInQueue, ReaderInQueue,
     PendingInv, Notification
<1>5. QueueInv /\ QueuedOnceInOrder /\ NoTextLost
  BY <1>2 DEF QueueInv, QueuedOnceInOrder, NoTextLost
<1>6. HandshakeInv /\ HandshakeFirst
  BY <1>2, <1>3 DEF HandshakeInv, HandshakeFirst, SpokeSince
<1>7. LastClientInv /\ ResponseToRecentSpeaker /\ RegisterInv /\ CrashOnlyWhileAdding
  BY <1>3 DEF LastClientInv, ResponseToRecentSpeaker, RegisterInv, CrashOnlyWhileAdding
<1> QED
  BY <1>1, <1>4, <1>5, <1>6, <1>7 DEF IInv, TextsInv

(* Each part is kept by every step, with the help of the others.           *)
LEMMA TextsInvStep ==
  ASSUME TextsInv, [Next]_vars
  PROVE  TextsInv'
<1> USE DEF TextsInv
<1>1. TypeOK'
  BY TypeStep
<1>2. MainInv' /\ PendingInv'
  BY LockStep
<1>3. QueueInv' /\ QueuedOnceInOrder' /\ NoTextLost'
  BY TextStep DEF TextInv
<1>4. HandshakeInv'
  BY HandshakeStep
<1>5. HandshakeFirst'
  BY HandshakeFirstStep
<1>6. LastClientInv' /\ ResponseToRecentSpeaker'
  BY LastClientStep, RoutingStep
<1>7. RegisterInv' /\ CrashOnlyWhileAdding'
  BY RegisterStep, CrashStep
<1> QED
  BY <1>1, <1>2, <1>3, <1>4, <1>5, <1>6, <1>7

LEMMA InvStep == IInv /\ [Next]_vars => IInv'
BY TextsInvStep, LockStep DEF IInv, TextsInv

(* The inductive invariant holds in every reachable state, for any number  *)
(* of clients, texts, tasks and notifications.                             *)
THEOREM InvCorrect == Spec => []IInv
BY InvInit, InvStep, PTL DEF Spec

(* MessagesLock is held exactly between a thread's lock and its unlock.    *)
THEOREM LockCorrect == Spec => []QueueExclusive
<1>1. IInv => QueueExclusive
  BY DEF IInv, TextsInv
<1> QED
  BY <1>1, InvCorrect, PTL

(* Texts are queued once and in each client's order.                       *)
THEOREM DeliveryCorrect == Spec => []QueuedOnceInOrder
<1>1. IInv => QueuedOnceInOrder
  BY DEF IInv, TextsInv
<1> QED
  BY <1>1, InvCorrect, PTL

(* OnMessage to PopMessage: every text recorded is dispatched, queued, or  *)
(* in the hand of its client's read thread.                                *)
THEOREM LossCorrect == Spec => []NoTextLost
<1>1. IInv => NoTextLost
  BY DEF IInv, TextsInv
<1> QED
  BY <1>1, InvCorrect, PTL

(* The accept reply comes first and once.                                  *)
THEOREM HandshakeCorrect == Spec => []HandshakeFirst
<1>1. IInv => HandshakeFirst
  BY DEF IInv, TextsInv
<1> QED
  BY <1>1, InvCorrect, PTL

(* Send's IsCompleted: the main thread never sends to a client whose       *)
(* handshake is not completed, nor does the flag change under it.          *)
THEOREM SettledCorrect == Spec => []HandshakeSettled
<1>1. IInv => HandshakeSettled
  BY SpeakerIsClient DEF IInv, TextsInv, HandshakeSettled, ResponseToRecentSpeaker
<1> QED
  BY <1>1, InvCorrect, PTL

(* A response goes to a client that spoke at its text or later.            *)
THEOREM RoutingCorrect == Spec => []ResponseToRecentSpeaker
<1>1. IInv => ResponseToRecentSpeaker
  BY DEF IInv, TextsInv
<1> QED
  BY <1>1, InvCorrect, PTL

(* The process ends only for a client AddClient has not pushed yet.        *)
THEOREM CrashCorrect == Spec => []CrashOnlyWhileAdding
<1>1. IInv => CrashOnlyWhileAdding
  BY DEF IInv, TextsInv
<1> QED
  BY <1>1, InvCorrect, PTL
-----------------------------------------------------------------------------
(***************************************************************************)
(* V8Minimal implements TextService: each step is a step of the service,   *)
(* or none.                                                                *)
(***************************************************************************)
(* An answer is on its way from the moment V8 gives it to the moment it is *)
(* pushed, which happens once.                                             *)
Sending == pc \in {"getclient", "push"}

AnswerInv ==
  /\ answered \subseteq Dispatched
  /\ \A k, c : c \in Clients /\ PushedTo(k, c) => k \in answered
  /\ Sending => \A k : packet = Response(k) =>
       k \in answered /\ \A c \in Clients : ~PushedTo(k, c)

ServiceInv == TextsInv /\ AnswerInv
-----------------------------------------------------------------------------
LEMMA PacketsDiffer ==
  /\ \A k, l : Response(k) = Response(l) => k = l
  /\ \A k : Response(k) # Reply /\ Response(k) # Notification /\ Response(k).text = k
BY DEF Response, Reply, Notification

(* The packets pushed to a client, when one is added. *)
LEMMA PushedToMoves ==
  ASSUME TypeOK, NEW c \in Clients, NEW p \in Packet, NEW k,
         Pushed(c)' = Append(Pushed(c), p)
  PROVE  PushedTo(k, c)' <=> PushedTo(k, c) \/ p = Response(k)
<1> DEFINE s == Pushed(c)
           t == Pushed(c)'
           n == Len(s) + 1
<1>1. /\ s \in Seq(Packet) /\ t = Append(s, p)
  BY PushedType
<1>2. /\ DOMAIN t = DOMAIN s \cup {n}
      /\ \A i \in DOMAIN s : t[i] = s[i]
      /\ t[n] = p
  <2> HIDE DEF s, t
  <2>1. /\ Len(s) \in Nat /\ DOMAIN s = 1..Len(s) /\ DOMAIN Append(s, p) = 1..(Len(s) + 1)
        /\ \A i \in DOMAIN s : Append(s, p)[i] = s[i]
        /\ Append(s, p)[Len(s) + 1] = p
    BY <1>1, Appended
  <2> QED
    BY <1>1, <2>1
<1>3. /\ PushedTo(k, c)' <=> \E i \in DOMAIN t : t[i] = Response(k)
      /\ PushedTo(k, c) <=> \E i \in DOMAIN s : s[i] = Response(k)
  BY DEF PushedTo, Response
<1> HIDE DEF s, t, n
<1> QED
  BY <1>2, <1>3

LEMMA PushedToFrame ==
  ASSUME NEW c \in Clients, NEW k, Pushed(c)' = Pushed(c)
  PROVE  PushedTo(k, c)' <=> PushedTo(k, c)
BY DEF PushedTo, Response

(* Who is sent what is pushed, by kind of step. *)
LEMMA AnswersPushed ==
  ASSUME TypeOK, TextsInv, [Next]_vars
  PROVE  \/ /\ PeerSend /\ IsCompleted(target) /\ target \in Clients
            /\ \A k : \A c \in Clients :
                 PushedTo(k, c)' <=> PushedTo(k, c) \/ (c = target /\ packet = Response(k))
         \/ /\ ~(PeerSend /\ IsCompleted(target))
            /\ \A k : \A c \in Clients : PushedTo(k, c)' <=> PushedTo(k, c)
<1>1. CASE /\ PeerSend /\ IsCompleted(target)
           /\ \A d \in Clients :
                Pushed(d)' = IF d = target THEN Append(Pushed(d), packet) ELSE Pushed(d)
  <2>1. target \in Clients
    BY <1>1, SpeakerIsClient DEF PeerSend, TextsInv, ResponseToRecentSpeaker
  <2>2. packet \in Packet
    BY DEF TypeOK
  <2>3. ASSUME NEW k, NEW c \in Clients
        PROVE  PushedTo(k, c)' <=> PushedTo(k, c) \/ (c = target /\ packet = Response(k))
    <3>1. CASE c = target
      BY <1>1, <2>2, <3>1, PushedToMoves
    <3>2. CASE c # target
      BY <1>1, <3>2, PushedToFrame
    <3> QED
      BY <3>1, <3>2
  <2> QED
    BY <1>1, <2>1, <2>3
<1>2. ASSUME NEW d \in Clients, PushReply(d), UNCHANGED <<channelVars, mainVars>>,
             \A c \in Clients :
               Pushed(c)' = IF c = d THEN Append(Pushed(c), Reply) ELSE Pushed(c)
      PROVE  /\ ~(PeerSend /\ IsCompleted(target))
             /\ \A k : \A c \in Clients : PushedTo(k, c)' <=> PushedTo(k, c)
  <2>1. ASSUME NEW k, NEW c \in Clients
        PROVE  PushedTo(k, c)' <=> PushedTo(k, c)
    <3>1. CASE c = d
      BY <1>2, <3>1, PushedToMoves, PacketType, PacketsDiffer
    <3>2. CASE c # d
      BY <1>2, <3>2, PushedToFrame
    <3> QED
      BY <3>1, <3>2
  <2>2. ~(PeerSend /\ IsCompleted(target))
    BY <1>2 DEF PeerSend, mainVars
  <2> QED
    BY <2>1, <2>2
<1>3. CASE /\ \A d \in Clients : Pushed(d)' = Pushed(d)
           /\ ~(PeerSend /\ IsCompleted(target))
  BY <1>3, PushedToFrame
<1>4. ASSUME PeerSend, IsCompleted(target), \A d \in Clients : Pushed(d)' = Pushed(d)
      PROVE  FALSE
  <2>1. PICK c \in Clients : c = target
    BY <1>4, SpeakerIsClient DEF PeerSend, TextsInv, ResponseToRecentSpeaker
  <2>2. Push(c, packet) /\ UNCHANGED wire /\ packet \in Packet
    BY <1>4, <2>1 DEF PeerSend, TypeOK
  <2>3. Pushed(c)' = Append(Pushed(c), packet)
    BY <2>2, PushAppends
  <2>4. Pushed(c) \in Seq(Packet)
    BY PushedType
  <2>5. Len(Append(Pushed(c), packet)) = Len(Pushed(c)) + 1 /\ Len(Pushed(c)) \in Nat
    BY <2>2, <2>4, Appended
  <2>6. Pushed(c)' = Pushed(c)
    BY <1>4
  <2> QED
    BY <2>3, <2>5, <2>6
<1> QED
  BY <1>1, <1>2, <1>3, <1>4, PushedMoves
-----------------------------------------------------------------------------
(***************************************************************************)
(* AnswerInv.                                                              *)
(***************************************************************************)
(* What happens to answers, by kind of step.                               *)
LEMMA AnswerMoves ==
  ASSUME [Next]_vars
  PROVE  \/ SendResponse
         \/ PopMessage
         \/ PeerSend /\ IsCompleted(target)
         \/ UNCHANGED <<answered, dispatched, packet>> /\ (Sending' => Sending)
<1> USE DEF channelVars, mainVars, Sending
<1>1. CASE MainNext
  BY <1>1 DEF MainNext, Drain, Boot, EnterPump, SkipPump, RunTask, FinishTask,
       PumpDone, MainGoesTo, LockQueue, FinishDispatch, UnlockAndSleep, GetClient,
       PeerSend, Unsent, RunMessageLoop, QuitMessageLoop, PostTask
<1>2. CASE ServerNext /\ UNCHANGED <<channelVars, mainVars>>
  BY <1>2
<1>3. CASE ChannelNext /\ UNCHANGED mainVars
  BY <1>3
<1>4. CASE UNCHANGED vars
  BY <1>4 DEF vars
<1> QED
  BY <1>1, <1>2, <1>3, <1>4 DEF Next, Running, Terminated

LEMMA AnswerStep == ServiceInv /\ [Next]_vars => AnswerInv'
<1> SUFFICES ASSUME TypeOK, TextsInv, AnswerInv, [Next]_vars PROVE AnswerInv'
  BY DEF ServiceInv, TextsInv
<1>1. CASE SendResponse
  <2>1. dispatched' = dispatched /\ ~Sending
    BY <1>1 DEF SendResponse, Notify, Respond, InV8, Sending
  <2>2. Dispatched' = Dispatched
    BY <2>1 DEF Dispatched
  <2>3. \A k : \A c \in Clients : PushedTo(k, c)' <=> PushedTo(k, c)
    BY <1>1, AnswersPushed DEF SendResponse, Notify, Respond, InV8, PeerSend
  <2>4. CASE Notify
    BY <2>2, <2>3, <2>4, PacketsDiffer DEF Notify, AnswerInv
  <2>5. ASSUME NEW k \in Dispatched, Respond(k) PROVE AnswerInv'
    BY <2>2, <2>3, <2>5, PacketsDiffer DEF Respond, AnswerInv
  <2> QED
    BY <1>1, <2>4, <2>5 DEF SendResponse
<1>2. CASE PopMessage
  <2>1. /\ answered' = answered /\ ~Sending'
        /\ dispatched' = Append(dispatched, Head(Messages)) /\ Messages # <<>>
    BY <1>2 DEF PopMessage, Sending
  <2>2. Dispatched \subseteq Dispatched'
    <3>1. dispatched \in Seq(Nat) /\ Head(Messages) \in Nat
      BY <2>1, HeadIsText, TextsType DEF TextsInv, TypeOK
    <3> QED
      BY <2>1, <3>1, Appended DEF Dispatched
  <2>3. \A k : \A c \in Clients : PushedTo(k, c)' <=> PushedTo(k, c)
    BY <1>2, AnswersPushed DEF PopMessage, PeerSend
  <2> QED
    BY <2>1, <2>2, <2>3 DEF AnswerInv
<1>3. CASE PeerSend /\ IsCompleted(target)
  <2>1. Sending /\ ~Sending' /\ UNCHANGED <<answered, dispatched>>
    BY <1>3 DEF PeerSend, Sending
  <2>2. Dispatched' = Dispatched
    BY <2>1 DEF Dispatched
  <2> QED
    BY <1>3, <2>1, <2>2, AnswersPushed DEF AnswerInv
<1>4. CASE /\ UNCHANGED <<answered, dispatched, packet>> /\ (Sending' => Sending)
           /\ ~(PeerSend /\ IsCompleted(target))
  <2>1. Dispatched' = Dispatched
    BY <1>4 DEF Dispatched
  <2> QED
    BY <1>4, <2>1, AnswersPushed DEF AnswerInv
<1> QED
  BY <1>1, <1>2, <1>3, <1>4, AnswerMoves
-----------------------------------------------------------------------------
(***************************************************************************)
(* The refinement.                                                         *)
(***************************************************************************)
(* The answers of the service change when V8's answer is pushed.           *)
LEMMA AnswersFrame ==
  ASSUME TextsInv, AnswerInv, [Next]_vars,
         ~(PeerSend /\ IsCompleted(target))
  PROVE  Answers' = Answers
<1>1. \A k : \A c \in Clients : PushedTo(k, c)' <=> PushedTo(k, c)
  BY AnswersPushed DEF TextsInv
<1>2. CASE answered' = answered
  BY <1>1, <1>2 DEF Answers
<1>3. CASE SendResponse
  <2>1. CASE Notify
    BY <1>2, <2>1 DEF Notify
  <2>2. ASSUME NEW k, Respond(k) PROVE Answers' = Answers
    <3>1. answered' = answered \cup {k} /\ k \notin answered
      BY <2>2 DEF Respond
    <3>2. \A c \in Clients : ~PushedTo(k, c)
      BY <3>1 DEF AnswerInv
    <3> QED
      BY <1>1, <3>1, <3>2 DEF Answers
  <2> QED
    BY <1>3, <2>1, <2>2 DEF SendResponse
<1> QED
  BY <1>2, <1>3, AnswerMoves DEF PopMessage

(* A popped text was not given before, and its client's earlier texts were. *)
LEMMA PopGives ==
  ASSUME TextsInv, AnswerInv, PopMessage, [Next]_vars
  PROVE  \E k \in DOMAIN texts : Service!Give(k)
<1> DEFINE k == Head(Messages)
           n == Len(dispatched) + 1
<1>1. /\ Messages # <<>> /\ dispatched' = Append(dispatched, k)
      /\ UNCHANGED <<texts, answered>>
  BY DEF PopMessage
<1>2. k \in DOMAIN texts
  BY <1>1, HeadIsText DEF TextsInv
<1>3. /\ Messages \in Seq(Nat) /\ dispatched \in Seq(Nat)
      /\ Len(dispatched) \in Nat /\ DOMAIN dispatched = 1..Len(dispatched)
  BY LenProperties DEF TextsInv, TypeOK, ChannelTypeOK
<1>4. /\ n \in DOMAIN Queued /\ Queued[n] = k
      /\ \A i \in DOMAIN dispatched :
           i \in DOMAIN Queued /\ Queued[i] = dispatched[i] /\ i < n
      /\ \A i \in DOMAIN Queued : i \notin DOMAIN dispatched => i = n \/ n < i
  <2>1. Len(Messages) \in Nat \ {0} /\ k = Messages[1]
    BY <1>1, <1>3, EmptySeq, LenProperties
  <2>2. /\ Queued \in Seq(Nat) /\ Len(Queued) = Len(dispatched) + Len(Messages)
        /\ DOMAIN Queued = 1..Len(Queued)
        /\ \A i \in 1..Len(Queued) :
             Queued[i] = IF i <= Len(dispatched) THEN dispatched[i]
                                                 ELSE Messages[i - Len(dispatched)]
    BY <1>3, ConcatProperties, QueuedType DEF Queued, TextsInv
  <2> HIDE DEF k
  <2>3. n \in DOMAIN Queued /\ Queued[n] = k
    <3>1. n \in 1..Len(Queued) /\ ~(n <= Len(dispatched)) /\ n - Len(dispatched) = 1
      BY <1>3, <2>1, <2>2
    <3> HIDE DEF n
    <3>2. Queued[n] = Messages[n - Len(dispatched)]
      BY <2>2, <3>1
    <3> QED
      BY <2>1, <2>2, <3>1, <3>2
  <2>4. \A i \in DOMAIN dispatched :
          i \in DOMAIN Queued /\ Queued[i] = dispatched[i] /\ i < n
    BY <1>3, <2>1, <2>2
  <2>5. \A i \in DOMAIN Queued : i \notin DOMAIN dispatched => i = n \/ n < i
    BY <1>3, <2>2
  <2> QED
    BY <2>3, <2>4, <2>5
<1> HIDE DEF k, n
<1>5. k \notin Dispatched
  BY <1>3, <1>4 DEF Dispatched, TextsInv, QueuedOnceInOrder
<1>6. ASSUME NEW j \in 1..(k - 1), texts[j] = texts[k] PROVE j \in Dispatched
  <2>1. j \in DOMAIN texts /\ j < k /\ texts[k] \in Clients /\ j # 0 /\ k \in Nat
    BY <1>2, TextsType DEF TextsInv
  <2>2. pending[texts[j]] # j
    BY <1>4, <1>6, <2>1 DEF TextsInv, QueueInv
  <2>3. PICK i \in DOMAIN Queued : Queued[i] = j
    BY <2>1, <2>2 DEF TextsInv, NoTextLost
  <2>4. i \in DOMAIN dispatched
    BY <1>4, <1>6, <2>1, <2>3 DEF TextsInv, QueuedOnceInOrder
  <2> QED
    BY <1>4, <2>3, <2>4 DEF Dispatched
<1>7. Answers' = Answers
  <2>1. ~PeerSend
    BY DEF PopMessage, PeerSend
  <2> QED
    BY <2>1, AnswersFrame
<1>8. Service!Given = Dispatched
  BY DEF Service!Given, Dispatched
<1>9. Service!Give(k)
  BY <1>1, <1>5, <1>6, <1>7, <1>8 DEF Service!Give
<1> QED
  BY <1>2, <1>9

LEMMA DispatchedFirst ==
  ASSUME TypeOK, NEW i \in DOMAIN dispatched
  PROVE  i \in DOMAIN Queued /\ Queued[i] = dispatched[i]
<1>1. dispatched \in Seq(Nat) /\ Messages \in Seq(Nat)
  BY DEF TypeOK, ChannelTypeOK
<1> QED
  BY <1>1, ConcatProperties, LenProperties DEF Queued

(* What is pushed by Send is V8's answer to a text, to a client that has   *)
(* spoken since, or no answer.                                             *)
LEMMA SendAnswers ==
  ASSUME TextsInv, AnswerInv, PeerSend, IsCompleted(target), [Next]_vars
  PROVE  \/ \E k \in DOMAIN texts, c \in Clients : Service!Answer(k, c)
         \/ UNCHANGED <<texts, dispatched, Answers>>
<1>1. /\ Sending /\ UNCHANGED <<texts, dispatched, answered>>
      /\ target \in Clients
      /\ \A k : \A c \in Clients :
           PushedTo(k, c)' <=> PushedTo(k, c) \/ (c = target /\ packet = Response(k))
  BY AnswersPushed DEF PeerSend, Sending, channelVars, TextsInv
<1>2. ASSUME NEW k, packet = Response(k)
      PROVE  \E l \in DOMAIN texts, c \in Clients : Service!Answer(l, c)
  <2>1. PICK c \in Clients : c = target
    BY <1>1
  <2>2. k \in answered /\ \A d \in Clients : ~PushedTo(k, d)
    BY <1>1, <1>2 DEF AnswerInv
  <2>3. k \in Dispatched
    BY <2>2 DEF AnswerInv
  <2>4. \E j \in DOMAIN texts : j >= k /\ texts[j] = c
    BY <1>2, <2>1, PacketsDiffer DEF TextsInv, ResponseToRecentSpeaker, PeerSend, SpokeSince
  <2>5. k \in DOMAIN texts
    <3>1. PICK i \in DOMAIN dispatched : dispatched[i] = k
      BY <2>3 DEF Dispatched
    <3>2. i \in DOMAIN Queued /\ Queued[i] = dispatched[i]
      BY <3>1, DispatchedFirst DEF TextsInv
    <3> QED
      BY <3>1, <3>2 DEF TextsInv, QueueInv
  <2>6. \E j \in k..Len(texts) : texts[j] = c
    BY <2>4, <2>5, TextsType DEF TextsInv
  <2>7. Answers' = Answers \cup {<<k, c>>}
    <3>1. \A l \in answered, d \in Clients :
            PushedTo(l, d)' <=> PushedTo(l, d) \/ (d = c /\ l = k)
      BY <1>1, <1>2, <2>1, PacketsDiffer
    <3> QED
      BY <1>1, <2>2, <3>1 DEF Answers
  <2>8. \A d \in Clients : <<k, d>> \notin Answers
    BY <2>2 DEF Answers
  <2>9. Service!Given = Dispatched
    BY DEF Service!Given, Dispatched
  <2>10. Service!Answer(k, c)
    BY <1>1, <2>3, <2>6, <2>7, <2>8, <2>9 DEF Service!Answer
  <2> QED
    BY <2>5, <2>10
<1>3. CASE \A k : packet # Response(k)
  BY <1>1, <1>3 DEF Answers
<1> QED
  BY <1>1, <1>2, <1>3

LEMMA ServiceStep ==
  ASSUME ServiceInv, [Next]_vars
  PROVE  [Service!Next]_<<texts, dispatched, Answers>>
<1>1. TextsInv /\ AnswerInv /\ TypeOK
  BY DEF ServiceInv, TextsInv
<1>2. CASE PopMessage
  BY <1>1, <1>2, PopGives DEF Service!Next
<1>3. CASE PeerSend /\ IsCompleted(target)
  BY <1>1, <1>3, SendAnswers DEF Service!Next
<1>4. ASSUME NEW c \in Clients, OnTextMessage(c), UNCHANGED dispatched,
             ~(PeerSend /\ IsCompleted(target))
      PROVE  Service!Accept(c)
  BY <1>1, <1>4, AnswersFrame DEF OnTextMessage, Service!Accept
<1>5. CASE /\ UNCHANGED <<texts, dispatched>>
           /\ ~(PeerSend /\ IsCompleted(target))
  BY <1>1, <1>5, AnswersFrame
<1> QED
  BY <1>2, <1>3, <1>4, <1>5, TextMoves DEF Service!Next, PushMessage

LEMMA AnswerInit == Init => AnswerInv /\ Service!Init
<1> SUFFICES ASSUME Init PROVE AnswerInv /\ Service!Init
  OBVIOUS
<1>1. \A k : \A c \in Clients : ~PushedTo(k, c)
  <2>1. ASSUME NEW c \in Clients PROVE DOMAIN Pushed(c) = {}
    BY EmptySeq, ConcatProperties, LenProperties DEF Init, ServerInit, Pushed
  <2> QED
    BY <2>1 DEF PushedTo
<1>2. ~Sending /\ answered = {} /\ texts = <<>> /\ dispatched = <<>>
  BY DEF Init, ChannelInit, Sending
<1> QED
  BY <1>1, <1>2 DEF AnswerInv, Service!Init, Answers

LEMMA ServiceInvHolds == Spec => []ServiceInv
<1>1. Init => ServiceInv
  BY InvInit, AnswerInit DEF ServiceInv, IInv
<1>2. ServiceInv /\ [Next]_vars => ServiceInv'
  BY TextsInvStep, AnswerStep DEF ServiceInv
<1> QED
  BY <1>1, <1>2, PTL DEF Spec

(* Threads, locks, handshakes and callbacks implement the text service:    *)
(* every text is given to the session once and in its client's order, and  *)
(* V8's answer goes once to a client that has spoken since the text.       *)
THEOREM ServiceImplemented == Spec => ServiceSpec
<1>1. Init => Service!Init
  BY AnswerInit
<1>2. ServiceInv /\ [Next]_vars => [Service!Next]_<<texts, dispatched, Answers>>
  BY ServiceStep
<1> QED
  BY <1>1, <1>2, ServiceInvHolds, PTL DEF Spec, ServiceSpec, Service!Spec
=============================================================================
