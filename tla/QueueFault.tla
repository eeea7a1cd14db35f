------------------------------- MODULE QueueFault -------------------------------
(***************************************************************************)
(* V8Minimal with one fault: PushBack, between the lock and the unlock of  *)
(* the OnMessage lambda, may throw (the array or the text's copy cannot be *)
(* allocated).  Nothing unlocks on that path: the exception leaves         *)
(* OnDataRecieved and ends the read thread, and MessagesLock stays its.    *)
(***************************************************************************)
EXTENDS V8Minimal

(* The text stays with the thread that ended. *)
PushMessageThrows(c) ==
  /\ reader[c] = "push"
  /\ ReaderGoesTo(c, "stopped")
  /\ UNCHANGED channelVars

FaultNext ==
  \/ Next
  \/ Alive /\ UNCHANGED mainVars /\ \E c \in Clients : PushMessageThrows(c)

FaultSpec == Init /\ [][FaultNext]_vars

(* Fairness is that of V8Minimal: nothing has to throw. *)
FairFaultSpec == FaultSpec /\ MainFairness /\ ServerFairness
-----------------------------------------------------------------------------
LockLost == \E c \in Clients : MessagesLock = c /\ reader[c] = "stopped"

(* Whoever throws, the lock is either in use or lost; only a throw loses   *)
(* it, never the main thread or a reader that went on.                     *)
LockInUseOrLost ==
  /\ MainInQueue <=> MessagesLock = Main
  /\ \A c \in Clients : ReaderInQueue(c) => MessagesLock = c
  /\ LockLost => ~MainInQueue /\ \A c \in Clients : ~ReaderInQueue(c)

(* A lost lock is lost for good, and nothing is queued or dispatched after. *)
LostForGood ==
  [][LockLost => LockLost' /\ UNCHANGED <<Messages, dispatched>>]_vars

(* The main thread stops too, at the lock, also for V8's tasks: a pump in  *)
(* progress, with the answers it sends, is its last act.                   *)
LostLockStopsMain == LockLost ~> [](pc \in {"lock", "terminated"})

(* Short of that, every text is dispatched unless the process ends or V8's *)
(* tasks never run out, although main thread and read threads contend for  *)
(* the lock, which V8's callbacks find taken.                              *)
DispatchedUnlessLost == \A k \in 1..MaxTexts :
  Len(texts) >= k ~> k \in Dispatched \/ LockLost \/ pc = "terminated" \/ []Pumping
=============================================================================
