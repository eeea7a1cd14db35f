------------------------------ MODULE V8Platform ------------------------------
(***************************************************************************)
(* TV8Platform (TV8Platform.h), the proxy V8 posts its tasks to, over the  *)
(* default platform it forwards to.  V8, which posts, and the default      *)
(* platform, whose headers are in src/v8/include, are the environment: a   *)
(* worker thread or the main thread's PumpMessageLoop takes the first task *)
(* of a queue; a delayed task joins its queue when its time has come.      *)
(*                                                                         *)
(* PumpMessageLoop is taken at its word here, although the program hands   *)
(* it the proxy, not the platform its header asks for.                     *)
(***************************************************************************)
EXTENDS Naturals, Sequences

CONSTANTS
  Tasks,     (* bound: the tasks V8 posts                                  *)
  MaxDelay,  (* bound: the longest delay V8 asks for                       *)
  MaxTime    (* bound: the clock                                           *)

ASSUME TimeAssumption == MaxDelay \in Nat /\ MaxTime \in Nat

VARIABLES
  asked,       (* history: the tasks V8 posted and what it asked for them  *)
  worker,      (* the default platform's tasks for its worker threads      *)
  foreground,  (* and for the main thread                                  *)
  now,         (* MonotonicallyIncreasingTime                              *)
  ran,         (* history: the tasks run, in order, on which thread, when  *)
  pumping,     (* the main thread is in its loop over PumpMessageLoop      *)
  RunOnlyMessagesInLoop  (* the pause flag                                 *)

vars == <<asked, worker, foreground, now, ran, pumping, RunOnlyMessagesInLoop>>

tasks == <<asked, worker, foreground, now, ran>>
mainLoop == <<pumping, RunOnlyMessagesInLoop>>

Threads == {"worker", "main"}
Asked == [task : Tasks, thread : Threads, delay : 0..MaxDelay, at : 0..MaxTime]
Queued == [task : Tasks, delay : 0..MaxDelay, due : Nat]
Ran == [task : Tasks, thread : Threads, at : 0..MaxTime]

TypeOK ==
  /\ asked \in Seq(Asked)
  /\ worker \in Seq(Queued) /\ foreground \in Seq(Queued)
  /\ now \in 0..MaxTime
  /\ ran \in Seq(Ran)
  /\ pumping \in BOOLEAN /\ RunOnlyMessagesInLoop \in BOOLEAN

Init ==
  /\ asked = <<>>
  /\ worker = <<>> /\ foreground = <<>>
  /\ now = 0
  /\ ran = <<>>
  /\ pumping = FALSE /\ RunOnlyMessagesInLoop = FALSE
-----------------------------------------------------------------------------
(***************************************************************************)
(* The default platform.                                                   *)
(***************************************************************************)
Enqueue(queue, t, delay) ==
  Append(queue, [task |-> t, delay |-> delay, due |-> now + delay])

(* Tasks without a delay in their order, others once their time has come.  *)
IsReady(queue, i) ==
  IF queue[i].delay > 0 THEN queue[i].due <= now
                        ELSE \A j \in 1..i - 1 : queue[j].delay > 0

Without(queue, i) == SubSeq(queue, 1, i - 1) \o SubSeq(queue, i + 1, Len(queue))

Runs(t, thread) == ran' = Append(ran, [task |-> t, thread |-> thread, at |-> now])
-----------------------------------------------------------------------------
(***************************************************************************)
(* V8's calls, from any of its threads, and what the proxy makes of them.  *)
(***************************************************************************)
Asks(t, thread, delay) ==
  /\ \A i \in DOMAIN asked : asked[i].task # t
  /\ asked' = Append(asked, [task |-> t, thread |-> thread, delay |-> delay, at |-> now])
  /\ UNCHANGED <<now, ran, mainLoop>>

(* Also CallBlockingTaskOnWorkerThread. *)
CallOnWorkerThread(t) ==
  /\ Asks(t, "worker", 0)
  /\ worker' = Enqueue(worker, t, 0)
  /\ UNCHANGED foreground

(* "bodged fix to avoid the assert": delay_in_seconds = 0. *)
CallDelayedOnWorkerThread(t, delay) ==
  /\ Asks(t, "worker", delay)
  /\ worker' = Enqueue(worker, t, 0)
  /\ UNCHANGED foreground

(* A bug: the task is posted as a delayed one. *)
CallOnForegroundThreadDelayed(t) ==
  /\ Asks(t, "main", 0)
  /\ foreground' = Enqueue(foreground, t, 1)
  /\ UNCHANGED worker

(* A bug: the task is handed over twice. *)
CallOnForegroundThreadTwice(t) ==
  /\ Asks(t, "main", 0)
  /\ foreground' = Enqueue(Enqueue(foreground, t, 0), t, 0)
  /\ UNCHANGED worker

(* Also a TaskRunner of GetForegroundTaskRunner. *)
CallOnForegroundThread(t) ==
  /\ Asks(t, "main", 0)
  /\ foreground' = Enqueue(foreground, t, 0)
  /\ UNCHANGED worker

(* A bug: the delay is cleared here too. *)
CallDelayedOnForegroundThreadNow(t, delay) ==
  /\ Asks(t, "main", delay)
  /\ foreground' = Enqueue(foreground, t, 0)
  /\ UNCHANGED worker

(* A bug: the delay is passed on in milliseconds. *)
CallDelayedOnForegroundThreadMillis(t, delay) ==
  /\ Asks(t, "main", delay)
  /\ foreground' = Enqueue(foreground, t, 1000 * delay)
  /\ UNCHANGED worker

CallDelayedOnForegroundThread(t, delay) ==
  /\ Asks(t, "main", delay)
  /\ foreground' = Enqueue(foreground, t, delay)
  /\ UNCHANGED worker
-----------------------------------------------------------------------------
WorkerRuns == \E i \in DOMAIN worker :
  /\ IsReady(worker, i)
  /\ Runs(worker[i].task, "worker")
  /\ worker' = Without(worker, i)
  /\ UNCHANGED <<asked, foreground, now, mainLoop>>

(***************************************************************************)
(* The main loop.                                                          *)
(***************************************************************************)
(* A bug: the test of the flag is the wrong way round.                     *)
EnterPumpWhenPaused ==
  /\ ~pumping /\ RunOnlyMessagesInLoop
  /\ pumping' = TRUE
  /\ UNCHANGED <<tasks, RunOnlyMessagesInLoop>>

(* Every round of the loop comes to the pump unless V8 has paused.         *)
EnterPump ==
  /\ ~pumping /\ ~RunOnlyMessagesInLoop
  /\ pumping' = TRUE
  /\ UNCHANGED <<tasks, RunOnlyMessagesInLoop>>

(* while (PumpMessageLoop(...)): a call runs one task, or returns false.   *)
(* The flag is not looked at again before.                                 *)
PumpMessageLoop ==
  /\ pumping
  /\ \/ \E i \in DOMAIN foreground :
          /\ IsReady(foreground, i)
          /\ Runs(foreground[i].task, "main")
          /\ foreground' = Without(foreground, i)
          /\ UNCHANGED pumping
     \/ /\ \A i \in DOMAIN foreground : ~IsReady(foreground, i)
        /\ pumping' = FALSE
        /\ UNCHANGED <<foreground, ran>>
  /\ UNCHANGED <<asked, worker, now, RunOnlyMessagesInLoop>>

(* runMessageLoopOnPause and quitMessageLoopOnPause, called back by V8 on  *)
(* the main thread: from a task, or from a text it dispatches in between.  *)
RunMessageLoop ==
  /\ RunOnlyMessagesInLoop' = TRUE
  /\ UNCHANGED <<tasks, pumping>>

QuitMessageLoop ==
  /\ RunOnlyMessagesInLoop' = FALSE
  /\ UNCHANGED <<tasks, pumping>>
-----------------------------------------------------------------------------
Tick ==
  /\ now < MaxTime
  /\ now' = now + 1
  /\ UNCHANGED <<asked, worker, foreground, ran, mainLoop>>

Next ==
  \/ \E t \in Tasks :
       \/ CallOnWorkerThread(t)
       \/ CallOnForegroundThread(t)
       \/ \E delay \in 1..MaxDelay :
            \/ CallDelayedOnWorkerThread(t, delay)
            \/ CallDelayedOnForegroundThread(t, delay)
  \/ WorkerRuns
  \/ EnterPump \/ PumpMessageLoop
  \/ RunMessageLoop \/ QuitMessageLoop
  \/ Tick

Spec == Init /\ [][Next]_vars

(* Threads run and time passes; nobody has to end a pause. *)
FairSpec ==
  /\ Spec
  /\ WF_vars(WorkerRuns) /\ WF_vars(EnterPump) /\ WF_vars(PumpMessageLoop)
  /\ WF_vars(Tick)
-----------------------------------------------------------------------------
(* Every task is run at most once, by the kind of thread it was posted for. *)
RunsOnceWhereAsked ==
  /\ \A i, j \in DOMAIN ran : ran[i].task = ran[j].task => i = j
  /\ \A i \in DOMAIN ran : \E k \in DOMAIN asked :
       asked[k].task = ran[i].task /\ asked[k].thread = ran[i].thread

(* A task runs no earlier than was asked; true of what CallDelayedOn-       *)
(* ForegroundThread passes on.                                             *)
DelayKept(thread) == \A i \in DOMAIN ran, k \in DOMAIN asked :
  asked[k].task = ran[i].task /\ asked[k].thread = thread
    => ran[i].at >= asked[k].at + asked[k].delay

ForegroundDelayKept == DelayKept("main")

(* v8-platform.h of CallDelayedOnWorkerThread: the task is invoked "after   *)
(* |delay_in_seconds| expires".  The proxy sets the delay to zero.         *)
WorkerDelayKept == DelayKept("worker")

(* Tasks posted for the main thread without a delay, "executed in order of *)
(* scheduling" (v8-platform.h): neither thread hand-over reorders them.    *)
ForegroundInOrder == \A i, j \in DOMAIN ran, k, l \in DOMAIN asked :
  /\ i < j /\ ran[i].task = asked[k].task /\ ran[j].task = asked[l].task
  /\ asked[k].thread = "main" /\ asked[l].thread = "main"
  /\ asked[k].delay = 0 /\ asked[l].delay = 0
  => k < l

(* A task whose time comes within the clock's bound is run: none is lost   *)
(* between the proxy and the threads, delayed or not.  Only a pause holds  *)
(* one up, and only one for the main thread.                               *)
IsAsked(t, thread) == \E k \in DOMAIN asked :
  asked[k].task = t /\ asked[k].thread = thread /\ asked[k].at + asked[k].delay <= MaxTime

TasksRun == \A t \in Tasks :
  IsAsked(t, "worker") \/ IsAsked(t, "main")
    ~> \/ \E i \in DOMAIN ran : ran[i].task = t
       \/ IsAsked(t, "main") /\ RunOnlyMessagesInLoop
=============================================================================
