------------------------------- MODULE V8Minimal -------------------------------
(***************************************************************************)
(* The program: the main thread of v8min_main_helloworld (v8Minimal.cpp)   *)
(* with the inspector's callbacks (InspectorClientImpl, TV8Channel), over  *)
(* the message channel and the websocket server.                           *)
(*                                                                         *)
(* V8 itself is outside the repository: between the moment the main thread *)
(* enters V8 (a dispatched message, a pumped task) and the moment V8       *)
(* returns, V8 may call back whatever the program gave it.  Nothing in the *)
(* program catches an exception, so one that leaves TWebsocketServer::Send *)
(* on the main thread ends the process.                                    *)
(***************************************************************************)
EXTENDS MessageChannel

CONSTANTS
  MaxTasks,  (* bound: the foreground tasks that wait at any one time      *)
  MaxNotes   (* bound: the notifications V8 sends                          *)

ASSUME V8BoundsAssumption == MaxTasks \in Nat /\ MaxNotes \in Nat

VARIABLES
  pc,                     (* where the main thread is                      *)
  current,                (* the text being dispatched, 0 outside dispatch *)
  packet, target,         (* what is being sent, and to which client       *)
  RunOnlyMessagesInLoop,  (* the pause flag                                *)
  foreground,             (* tasks queued for the main thread              *)
  notes,                  (* notifications sent                            *)
  dispatched,             (* history: the texts given to the session       *)
  answered                (* history: the texts V8 has responded to        *)

mainVars == <<pc, current, packet, target, RunOnlyMessagesInLoop,
              foreground, notes, dispatched, answered>>

vars == <<serverVars, channelVars, mainVars>>

(* "task" and "dispatch": inside V8.  "getclient" and "push": inside       *)
(* TWebsocketServer::Send, called back from V8.                            *)
MainStates == {"boot", "loop", "pump", "task", "lock", "drain", "dispatch",
               "getclient", "push", "terminated"}

TypeOK ==
  /\ ServerTypeOK
  /\ ChannelTypeOK
  /\ pc \in MainStates
  /\ current \in Nat
  /\ packet \in Packet
  /\ target \in Clients \cup {NoClient}
  /\ RunOnlyMessagesInLoop \in BOOLEAN
  /\ foreground \in Nat /\ notes \in Nat
  /\ dispatched \in Seq(Nat)
  /\ answered \in SUBSET Nat

Init ==
  /\ ServerInit
  /\ ChannelInit
  /\ pc = "boot"
  /\ current = 0
  /\ packet = Notification
  /\ target = NoClient
  /\ RunOnlyMessagesInLoop = FALSE
  /\ foreground = 0 /\ notes = 0
  /\ dispatched = <<>>
  /\ answered = {}
-----------------------------------------------------------------------------
Dispatched == {dispatched[i] : i \in DOMAIN dispatched}

(* The main thread moves; neither the lock, the queue nor V8 change. *)
MainGoesTo(place) ==
  /\ pc' = place
  /\ UNCHANGED <<serverVars, channelVars, current, packet, target,
                 RunOnlyMessagesInLoop, foreground, notes,
                 dispatched, answered>>

(***************************************************************************)
(* The main thread.                                                        *)
(***************************************************************************)
(* The session is connected and the script has run: the loop is entered.   *)
(* The server has been accepting since its constructor.                    *)
Boot == pc = "boot" /\ MainGoesTo("loop")

EnterPump == pc = "loop" /\ ~RunOnlyMessagesInLoop /\ MainGoesTo("pump")
(* A bug: a pause stops the loop altogether. *)
SkipPumpAndWait == pc = "loop" /\ RunOnlyMessagesInLoop /\ MainGoesTo("loop")

SkipPump == pc = "loop" /\ RunOnlyMessagesInLoop /\ MainGoesTo("lock")

(* A bug: the queue of tasks is not tested. *)
RunTaskUntested ==
  /\ pc = "pump"
  /\ foreground' = foreground - 1
  /\ pc' = "task"
  /\ UNCHANGED <<serverVars, channelVars, current, packet, target,
                 RunOnlyMessagesInLoop, notes, dispatched, answered>>

(* PumpMessageLoop ran one task and returned true, or returns false. *)
RunTask ==
  /\ pc = "pump"
  /\ foreground > 0
  /\ foreground' = foreground - 1
  /\ pc' = "task"
  /\ UNCHANGED <<serverVars, channelVars, current, packet, target,
                 RunOnlyMessagesInLoop, notes, dispatched, answered>>

FinishTask == pc = "task" /\ MainGoesTo("pump")
(* A bug: the pump may be left with tasks to run. *)
PumpAbandoned == pc = "pump" /\ MainGoesTo("lock")

PumpDone == pc = "pump" /\ foreground = 0 /\ MainGoesTo("lock")

LockQueue ==
  /\ pc = "lock"
  /\ LockFree
  /\ MessagesLock' = Main
  /\ pc' = "drain"
  /\ UNCHANGED <<serverVars, mWebsocketClient, Messages, texts, pending,
                 current, packet, target, RunOnlyMessagesInLoop, foreground,
                 notes, dispatched, answered>>

(* A bug: the newest message is popped. *)
PopNewestMessage ==
  /\ pc = "drain"
  /\ Messages # <<>>
  /\ current' = Messages[Len(Messages)]
  /\ Messages' = SubSeq(Messages, 1, Len(Messages) - 1)
  /\ dispatched' = Append(dispatched, Messages[Len(Messages)])
  /\ pc' = "dispatch"
  /\ UNCHANGED <<serverVars, mWebsocketClient, MessagesLock, texts, pending,
                 packet, target, RunOnlyMessagesInLoop, foreground,
                 notes, answered>>

(* PopAt(0), then SendMessageToSession: the lock is held all along. *)
PopMessage ==
  /\ pc = "drain"
  /\ Messages # <<>>
  /\ current' = Head(Messages)
  /\ Messages' = Tail(Messages)
  /\ dispatched' = Append(dispatched, Head(Messages))
  /\ pc' = "dispatch"
  /\ UNCHANGED <<serverVars, mWebsocketClient, MessagesLock, texts, pending,
                 packet, target, RunOnlyMessagesInLoop, foreground,
                 notes, answered>>

(* A bug: the queue is cleared after a dispatch. *)
FinishDispatchAndClear ==
  /\ pc = "dispatch"
  /\ current' = 0
  /\ Messages' = <<>>
  /\ pc' = "drain"
  /\ UNCHANGED <<serverVars, mWebsocketClient, MessagesLock, texts, pending,
                 packet, target, RunOnlyMessagesInLoop, foreground,
                 notes, dispatched, answered>>

FinishDispatch ==
  /\ pc = "dispatch"
  /\ current' = 0
  /\ pc' = "drain"
  /\ UNCHANGED <<serverVars, channelVars, packet, target,
                 RunOnlyMessagesInLoop, foreground, notes,
                 dispatched, answered>>

(* The lock_guard ends and the thread sleeps for 100 ms. *)
UnlockAndSleep ==
  /\ pc = "drain"
  /\ Messages = <<>>
  /\ MessagesLock' = Unlocked
  /\ pc' = "loop"
  /\ UNCHANGED <<serverVars, mWebsocketClient, Messages, texts, pending,
                 current, packet, target, RunOnlyMessagesInLoop, foreground,
                 notes, dispatched, answered>>
-----------------------------------------------------------------------------
(***************************************************************************)
(* V8, external: what it may do while the main thread is inside it.        *)
(***************************************************************************)
InV8 == pc \in {"task", "dispatch"}

(* It answers a message once, as it dispatches it or later on. *)
Respond(k) ==
  /\ InV8
  /\ k \in Dispatched \ answered
  /\ answered' = answered \cup {k}
  /\ packet' = Response(k)
  /\ UNCHANGED notes

(* It notifies once a message has enabled one of its agents. *)
Notify ==
  /\ InV8
  /\ dispatched # <<>>
  /\ notes < MaxNotes
  /\ notes' = notes + 1
  /\ packet' = Notification
  /\ UNCHANGED answered

(* TV8Channel::sendResponse and sendNotification both come to              *)
(* TWebsocketMessageChannel::SendResponse, which reads mWebsocketClient.   *)
SendResponse ==
  /\ Notify \/ \E k \in Dispatched : Respond(k)
  /\ target' = mWebsocketClient
  /\ pc' = "getclient"
  /\ UNCHANGED <<serverVars, channelVars, current, RunOnlyMessagesInLoop,
                 foreground, dispatched>>

(* A bug: the pause runs a loop of its own, which locks the queue again.   *)
RunNestedMessageLoop ==
  /\ InV8
  /\ RunOnlyMessagesInLoop' = TRUE
  /\ pc' = "lock"
  /\ UNCHANGED <<serverVars, channelVars, current, packet, target,
                 foreground, notes, dispatched, answered>>

(* runMessageLoopOnPause: the lambda sets the flag and returns. *)
RunMessageLoop ==
  /\ InV8
  /\ RunOnlyMessagesInLoop' = TRUE
  /\ UNCHANGED <<serverVars, channelVars, pc, current, packet, target,
                 foreground, notes, dispatched, answered>>

(* quitMessageLoopOnPause *)
QuitMessageLoop ==
  /\ InV8
  /\ RunOnlyMessagesInLoop' = FALSE
  /\ UNCHANGED <<serverVars, channelVars, pc, current, packet, target,
                 foreground, notes, dispatched, answered>>

(* From the main thread, also from a task, or from one of V8's workers;    *)
(* there is no end to it.                                                  *)
PostTask ==
  /\ foreground < MaxTasks
  /\ foreground' = foreground + 1
  /\ UNCHANGED <<serverVars, channelVars, pc, current, packet, target,
                 RunOnlyMessagesInLoop, notes, dispatched, answered>>

(***************************************************************************)
(* TWebsocketServer::Send, on the main thread.                             *)
(***************************************************************************)
Unsent == UNCHANGED <<channelVars, current, packet, target,
                      RunOnlyMessagesInLoop, foreground, notes,
                      dispatched, answered>>

(* A bug: what is sent to an unknown client is dropped. *)
GetClientOrDrop ==
  /\ pc = "getclient"
  /\ pc' = IF target \in Registered THEN "push"
           ELSE IF current = 0 THEN "task" ELSE "dispatch"
  /\ UNCHANGED serverVars
  /\ Unsent

(* GetClient finds the peer under mClientsLock or throws. *)
GetClient ==
  /\ pc = "getclient"
  /\ pc' = IF target \in Registered THEN "push" ELSE "terminated"
  /\ UNCHANGED serverVars
  /\ Unsent

(* TWebsocketServerPeer::Send: the handshake is tested without a lock. *)
PeerSend ==
  /\ pc = "push"
  /\ IF IsCompleted(target)
     THEN /\ Push(target, packet)
          /\ pc' = IF current = 0 THEN "task" ELSE "dispatch"
          /\ target' = NoClient
          /\ packet' = Notification
          /\ UNCHANGED <<mClients, adding, socket, mHandshake, reader, wire,
                         channelVars, current, RunOnlyMessagesInLoop,
                         foreground, notes, dispatched, answered>>
     ELSE /\ pc' = "terminated"
          /\ UNCHANGED serverVars
          /\ Unsent
-----------------------------------------------------------------------------
Drain == LockQueue \/ PopMessage \/ FinishDispatch \/ UnlockAndSleep

MainNext ==
  \/ Boot \/ EnterPump \/ SkipPump \/ RunTask \/ FinishTask \/ PumpDone
  \/ Drain
  \/ SendResponse \/ GetClient \/ PeerSend
  \/ RunMessageLoop \/ QuitMessageLoop \/ PostTask

Running ==
  \/ MainNext
  \/ ServerNext /\ UNCHANGED <<channelVars, mainVars>>
  \/ ChannelNext /\ UNCHANGED mainVars

(* An uncaught exception ends every thread. *)
Terminated == pc = "terminated" /\ UNCHANGED vars

Next == (pc # "terminated" /\ Running) \/ Terminated

Spec == Init /\ [][Next]_vars

(***************************************************************************)
(* Fairness: the operating system schedules the threads, V8 returns from   *)
(* what it is given.  The main thread sleeps for 100 ms without the lock   *)
(* and a read thread holds it for one PushBack, so whoever waits for the   *)
(* lock gets it.  Nothing obliges a client, or V8, to do anything else.    *)
(***************************************************************************)
MainFairness ==
  /\ WF_vars(Boot) /\ WF_vars(EnterPump) /\ WF_vars(SkipPump)
  /\ WF_vars(RunTask) /\ WF_vars(PumpDone)
  /\ WF_vars(FinishTask) /\ WF_vars(FinishDispatch)
  /\ SF_vars(LockQueue) /\ WF_vars(PopMessage) /\ WF_vars(UnlockAndSleep)
  /\ WF_vars(GetClient) /\ WF_vars(PeerSend)

Alive == pc # "terminated"

ServerFairness ==
  /\ WF_vars(Alive /\ RegisterClient /\ UNCHANGED <<channelVars, mainVars>>)
  /\ \A c \in Clients :
       /\ WF_vars(Alive /\ PushReply(c) /\ UNCHANGED <<channelVars, mainVars>>)
       /\ WF_vars(Alive /\ WritePacket(c) /\ UNCHANGED <<channelVars, mainVars>>)
       /\ SF_vars(Alive /\ LockMessages(c) /\ UNCHANGED mainVars)
       /\ WF_vars(Alive /\ PushMessage(c) /\ UNCHANGED mainVars)
       /\ WF_vars(Alive /\ UnlockMessages(c) /\ UNCHANGED mainVars)

FairSpec == Spec /\ MainFairness /\ ServerFairness
-----------------------------------------------------------------------------
(***************************************************************************)
(* Safety.                                                                 *)
(***************************************************************************)
(* From locking until releasing; current is set for all of a dispatch. *)
MainInQueue == pc = "drain" \/ current # 0
ReaderInQueue(c) == reader[c] \in {"push", "unlock"}

(* MessagesLock is held exactly by the thread that is between its lock and *)
(* its unlock: never two threads at the queue, and no thread that has left *)
(* it, on whatever path, keeps the lock from the others.                   *)
QueueExclusive ==
  /\ MainInQueue <=> MessagesLock = Main
  /\ \A c \in Clients : ReaderInQueue(c) <=> MessagesLock = c

(* The texts that have reached the queue, in the order they did. *)
Queued == dispatched \o Messages

(* Across all interleavings of read threads and main thread, a text is     *)
(* queued once, and the texts of one client keep their order.              *)
QueuedOnceInOrder ==
  \A i, j \in DOMAIN Queued : i < j =>
    /\ Queued[i] # Queued[j]
    /\ texts[Queued[i]] = texts[Queued[j]] => Queued[i] < Queued[j]

(* No text is lost: each is either still with its read thread or queued.   *)
NoTextLost ==
  \A k \in DOMAIN texts :
    pending[texts[k]] = k <=> ~\E i \in DOMAIN Queued : Queued[i] = k

(* Whatever a client is sent starts with the accept reply, which is sent   *)
(* once: the read thread sets mHasSentAcceptReply before it pushes the     *)
(* reply, and the main thread, which tests the flag, must not get between. *)
HandshakeFirst ==
  \A c \in Clients : \A i \in DOMAIN Pushed(c) :
    (Pushed(c)[i].kind = "reply") <=> (i = 1)

(* "handshake probably doesn't need a lock as its only modified by         *)
(* packets": the exception of TWebsocketServerPeer::Send never fires.      *)
HandshakeSettled == pc = "push" => IsCompleted(target)

(* A client that spoke when the text numbered k came, or later. *)
SpokeSince(k, c) == \E j \in DOMAIN texts : j >= k /\ texts[j] = c

(* mWebsocketClient is overwritten by any client's next text.  Still a     *)
(* response never goes to a client that has been silent since its text,    *)
(* and while one client speaks, its responses are its own.                 *)
ResponseToRecentSpeaker ==
  /\ pc \in {"getclient", "push"} =>
       target # NoClient /\ SpokeSince(packet.text, target)
  /\ \A c \in Clients : \A i \in DOMAIN Pushed(c) :
       Pushed(c)[i].kind = "response" => SpokeSince(Pushed(c)[i].text, c)

(* "Client not found" ends the process only in one window: AddClient has   *)
(* started the peer's threads and not yet pushed the peer.  In particular  *)
(* a lost connection never makes the server throw.                         *)
CrashOnlyWhileAdding ==
  pc = "terminated" => adding # NoClient /\ target = adding

(* What TWebsocketServer::GetClient asserts, "Client not found": a client  *)
(* whose text was taken has its peer in the array.                         *)
ClientFound == pc = "getclient" => target \in Registered

(***************************************************************************)
(* Refinement and liveness.                                                *)
(***************************************************************************)
(* The text service is implemented: an answer is given when the packet is  *)
(* pushed to the peer's write thread.                                      *)
PushedTo(k, c) == \E i \in DOMAIN Pushed(c) : Pushed(c)[i] = Response(k)

Answers == {a \in answered \X Clients : PushedTo(a[1], a[2])}

Service == INSTANCE TextService
             WITH senders <- texts, given <- dispatched, answers <- Answers
ServiceSpec == Service!Spec

(* While tasks wait for the main thread one of them is run, as long as no  *)
(* pause leaves the loop to messages only.                                 *)
TasksPumped ==
  foreground > 0 ~> pc = "task" \/ RunOnlyMessagesInLoop \/ pc = "terminated"

(* The main thread is in the loop over PumpMessageLoop.                    *)
Pumping == pc \in {"pump", "task", "getclient", "push"} /\ current = 0

(* A text is dispatched, paused or not, unless the process ends or V8's    *)
(* tasks never run out: the loop over them does not look at the queue.     *)
TextsDispatched == \A k \in 1..MaxTexts :
  Len(texts) >= k ~> k \in Dispatched \/ pc = "terminated" \/ []Pumping

(* What V8 has answered is on some client's wire in the end, unless a      *)
(* connection was closed or the process ends.                              *)
AnswersWritten == \A k \in 1..MaxTexts :
  k \in answered ~>
    \/ \E c \in Clients : \E i \in DOMAIN wire[c] : wire[c][i] = Response(k)
    \/ \E c \in Clients : socket[c] = "closed"
    \/ pc = "terminated"
=============================================================================
