------------------------------- MODULE FaultProofs -------------------------------
(***************************************************************************)
(* What holds of QueueFault for every set of clients and every bound.  The *)
(* exclusion V8Minimal has (QueueExclusive) is weaker here: a reader that  *)
(* has thrown keeps the lock without being at the queue.  Nothing else is: *)
(* what V8Minimal promises of texts, packets and answers does not need the *)
(* reader to go on, and is kept by the step that ends it.                  *)
(***************************************************************************)
EXTENDS QueueFault, V8MinimalProofs

FaultInv == TextsInv /\ PlacesInv
-----------------------------------------------------------------------------
(***************************************************************************)
(* The invariant.                                                          *)
(***************************************************************************)
(* The thread that ends was at the queue, with a text it keeps.            *)
LEMMA Throws ==
  ASSUME TypeOK, UNCHANGED mainVars, NEW c \in Clients, PushMessageThrows(c)
  PROVE  /\ reader[c] = "push" /\ reader'[c] = "stopped"
         /\ \A d \in Clients : d # c => reader'[d] = reader[d]
         /\ UNCHANGED <<mClients, adding, socket, mHandshake, outbox, wire,
                        channelVars, mainVars>>
BY DEF PushMessageThrows, ReaderGoesTo, TypeOK, ServerTypeOK

LEMMA ThrowTypeStep ==
  ASSUME TypeOK, UNCHANGED mainVars, NEW c \in Clients, PushMessageThrows(c)
  PROVE  TypeOK'
<1>1. ServerTypeOK'
  BY DEF PushMessageThrows, ReaderGoesTo, TypeOK, ServerTypeOK, ReaderStates
<1> QED
  BY <1>1 DEF PushMessageThrows, TypeOK, ChannelTypeOK, channelVars, mainVars

(* What was pushed, queued and answered stays. *)
LEMMA ThrowFrame ==
  ASSUME UNCHANGED <<outbox, wire, channelVars, mainVars>>
  PROVE  /\ Queued' = Queued
         /\ Answers' = Answers
         /\ \A c \in Clients : Pushed(c)' = Pushed(c)
         /\ \A k, c : SpokeSince(k, c)' <=> SpokeSince(k, c)
BY DEF Queued, Pushed, Answers, PushedTo, Response, SpokeSince, channelVars, mainVars

LEMMA ThrowTextsStep ==
  ASSUME TextsInv, UNCHANGED mainVars, NEW c \in Clients, PushMessageThrows(c)
  PROVE  TextsInv'
<1>0. TypeOK
  BY DEF TextsInv
<1>1. TypeOK'
  BY <1>0, ThrowTypeStep
<1>2. /\ reader[c] = "push" /\ reader'[c] = "stopped"
      /\ \A d \in Clients : d # c => reader'[d] = reader[d]
      /\ UNCHANGED <<mClients, adding, socket, mHandshake, outbox, wire,
                     channelVars, mainVars>>
  BY <1>0, Throws
<1>3. /\ Queued' = Queued
      /\ \A d \in Clients : Pushed(d)' = Pushed(d)
      /\ \A k, d : SpokeSince(k, d)' <=> SpokeSince(k, d)
  BY <1>2, ThrowFrame
<1>4. UNCHANGED <<pc, current, packet, target, texts, pending, mWebsocketClient>>
  BY <1>2 DEF channelVars, mainVars
<1>5. MainInv' /\ PendingInv'
  BY <1>2, <1>4 DEF TextsInv, MainInv, PendingInv
<1>6. QueueInv' /\ QueuedOnceInOrder' /\ NoTextLost' /\ LastClientInv'
  BY <1>3, <1>4 DEF TextsInv, QueueInv, QueuedOnceInOrder, NoTextLost, LastClientInv
<1>7. HandshakeInv'
  BY <1>2, <1>3 DEF TextsInv, HandshakeInv, IsCompleted
<1>8. HandshakeFirst' /\ ResponseToRecentSpeaker'
  BY <1>3, <1>4 DEF TextsInv, HandshakeFirst, ResponseToRecentSpeaker
<1>9. RegisterInv' /\ CrashOnlyWhileAdding'
  BY <1>2, <1>4 DEF TextsInv, RegisterInv, Registered, CrashOnlyWhileAdding
<1> QED
  BY <1>1, <1>5, <1>6, <1>7, <1>8, <1>9 DEF TextsInv

LEMMA FaultInvStep == FaultInv /\ [FaultNext]_vars => FaultInv'
<1> SUFFICES ASSUME FaultInv, [FaultNext]_vars PROVE FaultInv'
  OBVIOUS
<1>1. CASE [Next]_vars
  BY <1>1, TextsInvStep, LockStep DEF FaultInv, TextsInv
<1>2. ASSUME UNCHANGED mainVars, NEW c \in Clients, PushMessageThrows(c)
      PROVE  FaultInv'
  <2>1. TextsInv'
    BY <1>2, ThrowTextsStep DEF FaultInv
  <2>2. PlacesInv'
    BY <1>2, Throws
       DEF FaultInv, TextsInv, PlacesInv, MainInQueue, ReaderInQueue, channelVars, mainVars
  <2> QED
    BY <2>1, <2>2 DEF FaultInv
<1> QED
  BY <1>1, <1>2 DEF FaultNext

LEMMA FaultInvHolds == FaultSpec => []FaultInv
<1>1. Init => FaultInv
  BY InvInit DEF FaultInv, IInv
<1> QED
  BY <1>1, FaultInvStep, PTL DEF FaultSpec

(* The queue's lock is in use by the thread at the queue, or lost.         *)
LEMMA LostIsNotInUse == FaultInv => LockInUseOrLost
<1> SUFFICES ASSUME FaultInv PROVE LockInUseOrLost
  OBVIOUS
<1>1. ASSUME LockLost
      PROVE  ~MainInQueue /\ \A c \in Clients : ~ReaderInQueue(c)
  <2>1. PICK c \in Clients : MessagesLock = c /\ reader[c] = "stopped"
    BY <1>1 DEF LockLost
  <2> QED
    BY <2>1, OwnersAssumption DEF FaultInv, PlacesInv, ReaderInQueue
<1> QED
  BY <1>1 DEF FaultInv, PlacesInv, LockInUseOrLost

(* Whoever throws between lock and unlock of the OnMessage lambda, main    *)
(* thread and readers that go on hold MessagesLock exactly at the queue.   *)
THEOREM LockAccountedFor == FaultSpec => []LockInUseOrLost
BY LostIsNotInUse, FaultInvHolds, PTL
-----------------------------------------------------------------------------
(***************************************************************************)
(* A lost lock stays lost.                                                 *)
(***************************************************************************)
LEMMA LostStep ==
  ASSUME FaultInv, LockLost, [FaultNext]_vars
  PROVE  LockLost' /\ UNCHANGED <<Messages, dispatched>>
<1>1. PICK c \in Clients : MessagesLock = c /\ reader[c] = "stopped"
  BY DEF LockLost
<1>2. ~MainInQueue /\ (\A d \in Clients : ~ReaderInQueue(d)) /\ ~LockFree
  BY <1>1, LostIsNotInUse, OwnersAssumption DEF LockInUseOrLost, LockFree
<1>3. reader \in [Clients -> ReaderStates]
  BY DEF FaultInv, TextsInv, TypeOK, ServerTypeOK
<1> SUFFICES MessagesLock' = c /\ reader'[c] = "stopped" /\ UNCHANGED <<Messages, dispatched>>
  BY DEF LockLost
<1>4. CASE MainNext
  <2>1. ~LockQueue /\ ~PopMessage /\ ~UnlockAndSleep
    BY <1>2 DEF LockQueue, PopMessage, UnlockAndSleep, MainInQueue
  <2> QED
    BY <1>1, <1>4, <2>1
       DEF MainNext, Drain, Boot, EnterPump, SkipPump, RunTask, FinishTask, PumpDone,
           MainGoesTo, FinishDispatch, SendResponse, GetClient, PeerSend, Unsent,
           RunMessageLoop, QuitMessageLoop, PostTask, serverVars, channelVars
<1>5. CASE ServerNext /\ UNCHANGED <<channelVars, mainVars>>
  BY <1>1, <1>3, <1>5
     DEF ServerNext, RegisterClient, AddClient, Disconnect, RemoveClient, OnHttpRequest,
         OnSecondHttpRequest, PushReply, WritePacket, Receiving, channelVars, mainVars
<1>6. CASE ChannelNext /\ UNCHANGED mainVars
  <2>1. PICK d \in Clients : OnTextMessage(d)
    BY <1>2, <1>6
       DEF ChannelNext, LockMessages, PushMessage, UnlockMessages, ReaderInQueue
  <2> QED
    BY <1>1, <1>3, <1>6, <2>1 DEF OnTextMessage, Receiving, ReaderGoesTo, mainVars
<1>7. CASE UNCHANGED vars
  BY <1>1, <1>7 DEF vars, serverVars, channelVars, mainVars
<1>8. ASSUME NEW d \in Clients PROVE ~PushMessageThrows(d)
  BY <1>2 DEF PushMessageThrows, ReaderInQueue
<1> QED
  BY <1>4, <1>5, <1>6, <1>7, <1>8 DEF FaultNext, Next, Running, Terminated

(* After a throw nothing is queued or dispatched any more, for ever.       *)
THEOREM LossIsFinal == FaultSpec => LostForGood
<1>1. FaultInv /\ [FaultNext]_vars
        => [LockLost => LockLost' /\ UNCHANGED <<Messages, dispatched>>]_vars
  BY LostStep
<1> QED
  BY <1>1, FaultInvHolds, PTL DEF FaultSpec, LostForGood

(* The main thread's end: at the lock, or terminated, it stays.            *)
LEMMA StopsStep ==
  ASSUME FaultInv, LockLost, pc \in {"lock", "terminated"}, [FaultNext]_vars
  PROVE  pc' = pc
<1>1. ~LockQueue
  <2>1. PICK c \in Clients : MessagesLock = c
    BY DEF LockLost
  <2> QED
    BY <2>1, OwnersAssumption DEF LockQueue, LockFree
<1>2. CASE pc = "lock" /\ MainNext
  BY <1>1, <1>2
     DEF MainNext, Drain, Boot, EnterPump, SkipPump, RunTask, FinishTask, PumpDone,
         MainGoesTo, PopMessage, FinishDispatch, UnlockAndSleep, SendResponse, Notify,
         Respond, InV8, GetClient, PeerSend, RunMessageLoop, QuitMessageLoop, PostTask
<1>3. CASE UNCHANGED mainVars
  BY <1>3 DEF mainVars
<1>4. CASE UNCHANGED vars
  BY <1>4 DEF vars, mainVars
<1> QED
  BY <1>2, <1>3, <1>4 DEF FaultNext, Next, Running, Terminated, Alive

(* The safety half of LostLockStopsMain: once the lock is lost the main    *)
(* thread never passes the lock_guard, and so never pumps a task again.    *)
THEOREM MainNeverPasses ==
  FaultSpec => [][LockLost /\ pc \in {"lock", "terminated"} => pc' = pc]_vars
<1>1. FaultInv /\ [FaultNext]_vars
        => [LockLost /\ pc \in {"lock", "terminated"} => pc' = pc]_vars
  BY StopsStep
<1> QED
  BY <1>1, FaultInvHolds, PTL DEF FaultSpec
-----------------------------------------------------------------------------
(***************************************************************************)
(* What a throw does not change.                                           *)
(***************************************************************************)
(* The texts that do reach the queue reach it once and in each client's    *)
(* order, whichever read threads have thrown.                              *)
THEOREM OrderSurvives == FaultSpec => []QueuedOnceInOrder
<1>1. FaultInv => QueuedOnceInOrder
  BY DEF FaultInv, TextsInv
<1> QED
  BY <1>1, FaultInvHolds, PTL

(* The text whose PushBack threw is the only one its thread keeps: every   *)
(* other text recorded is queued or dispatched.                            *)
THEOREM NothingElseLost == FaultSpec => []NoTextLost
<1>1. FaultInv => NoTextLost
  BY DEF FaultInv, TextsInv
<1> QED
  BY <1>1, FaultInvHolds, PTL

(* A response still goes to a client that spoke at its text or later: the  *)
(* thread that throws has recorded its client, as one that goes on has.    *)
THEOREM RoutingSurvives == FaultSpec => []ResponseToRecentSpeaker
<1>1. FaultInv => ResponseToRecentSpeaker
  BY DEF FaultInv, TextsInv
<1> QED
  BY <1>1, FaultInvHolds, PTL

(* A lost lock does not end the process: that still takes a client that    *)
(* AddClient has not pushed yet.                                           *)
THEOREM CrashesNoMore == FaultSpec => []CrashOnlyWhileAdding
<1>1. FaultInv => CrashOnlyWhileAdding
  BY DEF FaultInv, TextsInv
<1> QED
  BY <1>1, FaultInvHolds, PTL

LEMMA ServiceFaultStep ==
  ASSUME ServiceInv, [FaultNext]_vars
  PROVE  ServiceInv' /\ [Service!Next]_<<texts, dispatched, Answers>>
<1>1. CASE [Next]_vars
  BY <1>1, TextsInvStep, AnswerStep, ServiceStep DEF ServiceInv
<1>2. ASSUME UNCHANGED mainVars, NEW c \in Clients, PushMessageThrows(c)
      PROVE  ServiceInv' /\ UNCHANGED <<texts, dispatched, Answers>>
  <2>1. TextsInv'
    BY <1>2, ThrowTextsStep DEF ServiceInv
  <2>2. UNCHANGED <<outbox, wire, channelVars, mainVars>>
    BY <1>2, Throws DEF ServiceInv, TextsInv
  <2>3. /\ UNCHANGED <<texts, dispatched, answered, packet, pc>>
        /\ \A d \in Clients : Pushed(d)' = Pushed(d)
        /\ Answers' = Answers
    BY <2>2, ThrowFrame DEF channelVars, mainVars
  <2>4. \A k : \A d \in Clients : PushedTo(k, d)' <=> PushedTo(k, d)
    BY <2>3, PushedToFrame
  <2>5. AnswerInv'
    BY <2>3, <2>4 DEF ServiceInv, AnswerInv, Dispatched, Sending, Response
  <2> QED
    BY <2>1, <2>3, <2>5 DEF ServiceInv
<1> QED
  BY <1>1, <1>2 DEF FaultNext

(* The text service is kept: whatever throws, a text is given to the       *)
(* session once and in its client's order, and answered once, to a client  *)
(* that has spoken since.  Whether it is given at all is another matter    *)
(* (LossIsFinal).                                                          *)
THEOREM ServiceSurvives == FaultSpec => ServiceSpec
<1>1. Init => ServiceInv /\ Service!Init
  BY InvInit, AnswerInit DEF ServiceInv, IInv
<1> QED
  BY <1>1, ServiceFaultStep, PTL DEF FaultSpec, ServiceSpec, Service!Spec
=============================================================================
