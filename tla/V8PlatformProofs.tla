---------------------------- MODULE V8PlatformProofs ----------------------------
(***************************************************************************)
(* What holds of V8Platform for any tasks, delays and clock.               *)
(***************************************************************************)
EXTENDS V8Platform, TLAPS

(* Task t was asked for, for this thread, by the requests a.               *)
AskedFor(t, thread, a) == \E k \in DOMAIN a : a[k].task = t /\ a[k].thread = thread

(* V8 posts a task once, and not in the future.                            *)
AskedInv ==
  /\ \A k, l \in DOMAIN asked : asked[k].task = asked[l].task => k = l
  /\ \A k \in DOMAIN asked : asked[k].at <= now

(* What queue q holds was asked for its thread, is there once, and is not  *)
(* among the tasks r that were run.                                        *)
QueueOf(q, thread, a, r) ==
  /\ \A i \in DOMAIN q : AskedFor(q[i].task, thread, a)
  /\ \A i, j \in DOMAIN q : q[i].task = q[j].task => i = j
  /\ \A i \in DOMAIN q, j \in DOMAIN r : q[i].task # r[j].task

QueuesInv == QueueOf(worker, "worker", asked, ran) /\ QueueOf(foreground, "main", asked, ran)

(* The foreground queue f keeps the delay asked for.                       *)
KeepsDelay(f, a) == \A i \in DOMAIN f, k \in DOMAIN a :
  f[i].task = a[k].task => f[i].delay = a[k].delay /\ f[i].due = a[k].at + a[k].delay

(* Its tasks without a delay are in the order of asking.                   *)
KeepsOrder(f, a) == \A i, j \in DOMAIN f, k, l \in DOMAIN a :
  /\ i < j /\ f[i].task = a[k].task /\ f[j].task = a[l].task
  /\ a[k].delay = 0 /\ a[l].delay = 0
  => k < l

(* They were asked for after those that were run already.                  *)
ComesAfter(f, a, r) == \A i \in DOMAIN r, j \in DOMAIN f, k, l \in DOMAIN a :
  /\ r[i].task = a[k].task /\ f[j].task = a[l].task
  /\ a[k].thread = "main" /\ a[k].delay = 0 /\ a[l].delay = 0
  => k < l

ForegroundInv ==
  /\ KeepsDelay(foreground, asked)
  /\ KeepsOrder(foreground, asked)
  /\ ComesAfter(foreground, asked, ran)

IInv ==
  /\ TypeOK
  /\ AskedInv
  /\ QueuesInv
  /\ ForegroundInv
  /\ RunsOnceWhereAsked
  /\ ForegroundDelayKept
  /\ ForegroundInOrder
-----------------------------------------------------------------------------
LEMMA SeqFacts ==
  ASSUME NEW S, NEW q \in Seq(S)
  PROVE  /\ Len(q) \in Nat /\ DOMAIN q = 1..Len(q)
         /\ \A i \in DOMAIN q : q[i] \in S
OBVIOUS

LEMMA AppendFacts ==
  ASSUME NEW S, NEW q \in Seq(S), NEW e \in S
  PROVE  /\ Append(q, e) \in Seq(S)
         /\ DOMAIN Append(q, e) = DOMAIN q \cup {Len(q) + 1}
         /\ Len(q) + 1 \notin DOMAIN q /\ \A i \in DOMAIN q : i < Len(q) + 1
         /\ \A i \in DOMAIN q : Append(q, e)[i] = q[i]
         /\ Append(q, e)[Len(q) + 1] = e
OBVIOUS

(* Taking out the element at i moves the later ones up by one.             *)
LEMMA WithoutFacts ==
  ASSUME NEW S, NEW q \in Seq(S), NEW i \in DOMAIN q
  PROVE  /\ Without(q, i) \in Seq(S)
         /\ DOMAIN Without(q, i) = 1..Len(q) - 1
         /\ \A j \in 1..Len(q) - 1 :
              Without(q, i)[j] = IF j < i THEN q[j] ELSE q[j + 1]
<1>1. i \in 1..Len(q) /\ Len(q) \in Nat
  OBVIOUS
<1> DEFINE a == SubSeq(q, 1, i - 1)
           b == SubSeq(q, i + 1, Len(q))
<1>2. a \in Seq(S) /\ Len(a) = i - 1 /\ \A j \in 1..i - 1 : a[j] = q[j]
  BY <1>1
<1>3. b \in Seq(S) /\ Len(b) = Len(q) - i /\ \A j \in 1..Len(q) - i : b[j] = q[i + j]
  BY <1>1
<1>4. Without(q, i) = a \o b
  BY DEF Without
<1> HIDE DEF a, b
<1>5. a \o b \in Seq(S) /\ Len(a \o b) = Len(q) - 1
  BY <1>1, <1>2, <1>3
<1>6. ASSUME NEW j \in 1..Len(q) - 1
      PROVE  (a \o b)[j] = IF j < i THEN q[j] ELSE q[j + 1]
  <2>1. CASE j < i
    BY <1>1, <1>2, <1>3, <2>1
  <2>2. CASE ~(j < i)
    <3>1. (a \o b)[j] = b[j - (i - 1)]
      BY <1>1, <1>2, <1>3, <2>2
    <3>2. j - (i - 1) \in 1..Len(q) - i /\ i + (j - (i - 1)) = j + 1
      BY <1>1, <2>2
    <3> QED
      BY <1>3, <2>2, <3>1, <3>2
  <2> QED
    BY <2>1, <2>2
<1> QED
  BY <1>4, <1>5, <1>6

(* The place in q of the element that is at j once that at i is gone.      *)
Place(i, j) == IF j < i THEN j ELSE j + 1

LEMMA WithoutPlaces ==
  ASSUME NEW S, NEW q \in Seq(S), NEW i \in DOMAIN q
  PROVE  /\ \A j \in DOMAIN Without(q, i) :
              /\ Place(i, j) \in DOMAIN q /\ Place(i, j) # i
              /\ Without(q, i)[j] = q[Place(i, j)]
         /\ \A j, k \in DOMAIN Without(q, i) :
              /\ j < k => Place(i, j) < Place(i, k)
              /\ Place(i, j) = Place(i, k) => j = k
<1>1. i \in 1..Len(q) /\ Len(q) \in Nat
  OBVIOUS
<1>2. DOMAIN Without(q, i) = 1..Len(q) - 1 /\ DOMAIN q = 1..Len(q)
  BY WithoutFacts
<1>3. \A j \in 1..Len(q) - 1 : Without(q, i)[j] = q[Place(i, j)]
  BY WithoutFacts DEF Place
<1> QED
  BY <1>1, <1>2, <1>3 DEF Place
-----------------------------------------------------------------------------
(***************************************************************************)
(* The kinds of steps.                                                     *)
(***************************************************************************)
(* V8 asks for task t; it joins its thread's queue, to be run kept later.  *)
Posts(t, thread, delay, kept) ==
  /\ Asks(t, thread, delay)
  /\ thread = "main" => kept = delay
  /\ IF thread = "worker"
     THEN worker' = Enqueue(worker, t, kept) /\ UNCHANGED foreground
     ELSE foreground' = Enqueue(foreground, t, kept) /\ UNCHANGED worker

(* The thread runs the task at i of its queue.                             *)
WorkerTakes(i) ==
  /\ Runs(worker[i].task, "worker")
  /\ worker' = Without(worker, i)
  /\ UNCHANGED <<asked, foreground, now>>

MainTakes(i) ==
  /\ IsReady(foreground, i)
  /\ Runs(foreground[i].task, "main")
  /\ foreground' = Without(foreground, i)
  /\ UNCHANGED <<asked, worker, now>>

Idles == UNCHANGED <<asked, worker, foreground, ran>> /\ (now' = now \/ now' = now + 1)

LEMMA StepKinds ==
  ASSUME [Next]_vars
  PROVE  \/ \E t \in Tasks, thread \in Threads, delay, kept \in 0..MaxDelay :
              Posts(t, thread, delay, kept)
         \/ \E i \in DOMAIN worker : WorkerTakes(i)
         \/ \E i \in DOMAIN foreground : MainTakes(i)
         \/ Idles
<1> USE TimeAssumption
<1> DEFINE Post == \E t \in Tasks, thread \in Threads, delay, kept \in 0..MaxDelay :
                     Posts(t, thread, delay, kept)
<1>1. ASSUME NEW t \in Tasks, CallOnWorkerThread(t) PROVE Post
  <2>1. Posts(t, "worker", 0, 0)
    BY <1>1 DEF CallOnWorkerThread, Posts
  <2> QED
    BY <2>1 DEF Threads
<1>2. ASSUME NEW t \in Tasks, CallOnForegroundThread(t) PROVE Post
  <2>1. Posts(t, "main", 0, 0)
    BY <1>2 DEF CallOnForegroundThread, Posts
  <2> QED
    BY <2>1 DEF Threads
<1>3. ASSUME NEW t \in Tasks, NEW delay \in 1..MaxDelay, CallDelayedOnWorkerThread(t, delay)
      PROVE  Post
  <2>1. Posts(t, "worker", delay, 0)
    BY <1>3 DEF CallDelayedOnWorkerThread, Posts
  <2> QED
    BY <2>1 DEF Threads
<1>4. ASSUME NEW t \in Tasks, NEW delay \in 1..MaxDelay, CallDelayedOnForegroundThread(t, delay)
      PROVE  Post
  <2>1. Posts(t, "main", delay, delay)
    BY <1>4 DEF CallDelayedOnForegroundThread, Posts
  <2> QED
    BY <2>1 DEF Threads
<1>5. CASE WorkerRuns
  BY <1>5 DEF WorkerRuns, WorkerTakes
<1>6. CASE PumpMessageLoop
  BY <1>6 DEF PumpMessageLoop, MainTakes, Idles
<1>7. CASE EnterPump \/ RunMessageLoop \/ QuitMessageLoop \/ Tick \/ UNCHANGED vars
  BY <1>7 DEF EnterPump, RunMessageLoop, QuitMessageLoop, Tick, tasks, vars, Idles
<1> QED
  BY <1>1, <1>2, <1>3, <1>4, <1>5, <1>6, <1>7 DEF Next
-----------------------------------------------------------------------------
LEMMA TypeStep == TypeOK /\ [Next]_vars => TypeOK'
<1> SUFFICES ASSUME TypeOK, [Next]_vars PROVE TypeOK'
  OBVIOUS
<1> USE TimeAssumption
<1>1. now' \in 0..MaxTime /\ pumping' \in BOOLEAN /\ RunOnlyMessagesInLoop' \in BOOLEAN
  <2>1. CASE UNCHANGED <<now, mainLoop>>
    BY <2>1 DEF TypeOK, mainLoop
  <2>2. CASE EnterPump
    BY <2>2 DEF TypeOK, EnterPump, tasks
  <2>3. CASE PumpMessageLoop
    <3>1. now' = now /\ RunOnlyMessagesInLoop' = RunOnlyMessagesInLoop
      BY <2>3 DEF PumpMessageLoop
    <3>2. pumping' = pumping \/ pumping' = FALSE
      BY <2>3 DEF PumpMessageLoop
    <3> QED
      BY <3>1, <3>2 DEF TypeOK
  <2>4. CASE RunMessageLoop \/ QuitMessageLoop
    BY <2>4 DEF TypeOK, RunMessageLoop, QuitMessageLoop, tasks
  <2>5. CASE Tick
    BY <2>5 DEF TypeOK, Tick, mainLoop
  <2> QED
    BY <2>1, <2>2, <2>3, <2>4, <2>5 DEF Next, vars, mainLoop, CallOnWorkerThread,
       CallOnForegroundThread, CallDelayedOnWorkerThread, CallDelayedOnForegroundThread,
       Asks, WorkerRuns
<1>2. ASSUME NEW t \in Tasks, NEW thread \in Threads, NEW delay \in 0..MaxDelay,
             NEW kept \in 0..MaxDelay, Posts(t, thread, delay, kept)
      PROVE  TypeOK'
  <2>1. [task |-> t, thread |-> thread, delay |-> delay, at |-> now] \in Asked
    BY DEF TypeOK, Asked
  <2>2. [task |-> t, delay |-> kept, due |-> now + kept] \in Queued
    BY DEF TypeOK, Queued
  <2>3. asked' \in Seq(Asked) /\ ran' \in Seq(Ran)
    BY <1>2, <2>1 DEF TypeOK, Posts, Asks
  <2>4. worker' \in Seq(Queued) /\ foreground' \in Seq(Queued)
    <3>1. Enqueue(worker, t, kept) \in Seq(Queued)
      BY <2>2 DEF TypeOK, Enqueue
    <3>2. Enqueue(foreground, t, kept) \in Seq(Queued)
      BY <2>2 DEF TypeOK, Enqueue
    <3> QED
      BY <1>2, <3>1, <3>2 DEF TypeOK, Posts
  <2> QED
    BY <1>1, <2>3, <2>4 DEF TypeOK
<1>3. ASSUME NEW q \in Seq(Queued), NEW i \in DOMAIN q, NEW thread \in Threads,
             Runs(q[i].task, thread)
      PROVE  ran' \in Seq(Ran) /\ Without(q, i) \in Seq(Queued)
  <2>1. q[i] \in Queued
    OBVIOUS
  <2>2. [task |-> q[i].task, thread |-> thread, at |-> now] \in Ran
    BY <2>1 DEF TypeOK, Queued, Ran
  <2> QED
    BY <1>3, <2>2, WithoutFacts DEF TypeOK, Runs
<1>4. ASSUME NEW i \in DOMAIN worker, WorkerTakes(i) PROVE TypeOK'
  BY <1>1, <1>3, <1>4 DEF TypeOK, WorkerTakes, Threads
<1>5. ASSUME NEW i \in DOMAIN foreground, MainTakes(i) PROVE TypeOK'
  BY <1>1, <1>3, <1>5 DEF TypeOK, MainTakes, Threads
<1>6. CASE Idles
  BY <1>1, <1>6 DEF TypeOK, Idles
<1> QED
  BY <1>2, <1>4, <1>5, <1>6, StepKinds

LEMMA AskedStep == TypeOK /\ AskedInv /\ [Next]_vars => AskedInv'
<1> SUFFICES ASSUME TypeOK, AskedInv, [Next]_vars PROVE AskedInv'
  OBVIOUS
<1>1. now \in Nat /\ now' \in Nat /\ now <= now'
  <2>1. now \in Nat
    BY TimeAssumption DEF TypeOK
  <2>2. now' = now \/ now' = now + 1
    BY StepKinds DEF Posts, Asks, WorkerTakes, MainTakes, Idles
  <2> QED
    BY <2>1, <2>2
<1>2. ASSUME NEW t \in Tasks, NEW thread \in Threads, NEW delay \in 0..MaxDelay,
             NEW kept \in 0..MaxDelay, Posts(t, thread, delay, kept)
      PROVE  AskedInv'
  <2> DEFINE e == [task |-> t, thread |-> thread, delay |-> delay, at |-> now]
  <2>1. asked \in Seq(Asked) /\ e \in Asked
    BY DEF TypeOK, Asked
  <2>2. asked' = Append(asked, e) /\ e.task = t /\ e.at = now /\ now' = now
    BY <1>2 DEF Posts, Asks
  <2>3. \A k \in DOMAIN asked : asked[k].task # t
    BY <1>2 DEF Posts, Asks
  <2> HIDE DEF e
  <2> QED
    BY <1>1, <2>1, <2>2, <2>3, AppendFacts DEF AskedInv
<1>3. CASE UNCHANGED asked
  <2>1. \A k \in DOMAIN asked : asked[k].at \in Nat
    <3>1. \A k \in DOMAIN asked : asked[k] \in Asked
      BY SeqFacts DEF TypeOK
    <3> QED
      BY <3>1, TimeAssumption DEF Asked
  <2> QED
    BY <1>1, <1>3, <2>1 DEF AskedInv
<1> QED
  BY <1>2, <1>3, StepKinds DEF WorkerTakes, MainTakes, Idles

(***************************************************************************)
(* The queues.                                                             *)
(***************************************************************************)
(* A task that joins its queue when it is asked for.                       *)
LEMMA QueueGrows ==
  ASSUME NEW q \in Seq(Queued), NEW f \in Queued, NEW thread, NEW r,
         NEW a \in Seq(Asked), NEW e \in Asked, e.task = f.task, e.thread = thread,
         QueueOf(q, thread, a, r),
         \A i \in DOMAIN q : q[i].task # f.task,
         \A i \in DOMAIN r : r[i].task # f.task
  PROVE  QueueOf(Append(q, f), thread, Append(a, e), r)
<1> DEFINE m == Len(q) + 1
           n == Len(a) + 1
<1>1. /\ DOMAIN Append(q, f) = DOMAIN q \cup {m}
      /\ \A i \in DOMAIN q : Append(q, f)[i] = q[i]
      /\ Append(q, f)[m] = f
  BY AppendFacts
<1>2. /\ DOMAIN Append(a, e) = DOMAIN a \cup {n}
      /\ \A i \in DOMAIN a : Append(a, e)[i] = a[i]
      /\ Append(a, e)[n] = e
  BY AppendFacts
<1> HIDE DEF m, n
<1>3. \A i \in DOMAIN Append(q, f) : AskedFor(Append(q, f)[i].task, thread, Append(a, e))
  BY <1>1, <1>2 DEF QueueOf, AskedFor
<1>4. \A i, j \in DOMAIN Append(q, f) : Append(q, f)[i].task = Append(q, f)[j].task => i = j
  BY <1>1 DEF QueueOf
<1>5. \A i \in DOMAIN Append(q, f), j \in DOMAIN r : Append(q, f)[i].task # r[j].task
  BY <1>1 DEF QueueOf
<1> QED
  BY <1>3, <1>4, <1>5 DEF QueueOf

(* A task of another queue is asked for.                                   *)
LEMMA QueueStays ==
  ASSUME NEW q, NEW thread, NEW r, NEW a \in Seq(Asked), NEW e \in Asked,
         QueueOf(q, thread, a, r)
  PROVE  QueueOf(q, thread, Append(a, e), r)
BY AppendFacts DEF QueueOf, AskedFor

(* A task is run: that at i of this queue, or one this queue has not.      *)
LEMMA QueueShrinks ==
  ASSUME NEW q \in Seq(Queued), NEW i \in DOMAIN q, NEW thread, NEW a,
         NEW r \in Seq(Ran), NEW e \in Ran, e.task = q[i].task,
         QueueOf(q, thread, a, r)
  PROVE  QueueOf(Without(q, i), thread, a, Append(r, e))
BY AppendFacts, WithoutPlaces DEF QueueOf

LEMMA QueueKept ==
  ASSUME NEW q, NEW thread, NEW a, NEW r \in Seq(Ran), NEW e \in Ran,
         \A i \in DOMAIN q : q[i].task # e.task,
         QueueOf(q, thread, a, r)
  PROVE  QueueOf(q, thread, a, Append(r, e))
BY AppendFacts DEF QueueOf

(* A task that is asked for now is in neither queue and has not been run.  *)
LEMMA NewTaskIsNew ==
  ASSUME QueuesInv, RunsOnceWhereAsked, NEW t \in Tasks,
         \A k \in DOMAIN asked : asked[k].task # t
  PROVE  /\ \A i \in DOMAIN worker : worker[i].task # t
         /\ \A i \in DOMAIN foreground : foreground[i].task # t
         /\ \A i \in DOMAIN ran : ran[i].task # t
BY DEF QueuesInv, QueueOf, RunsOnceWhereAsked, AskedFor

(* The two queues have no task in common.                                  *)
LEMMA QueuesApart ==
  ASSUME QueuesInv, AskedInv, NEW i \in DOMAIN worker, NEW j \in DOMAIN foreground
  PROVE  worker[i].task # foreground[j].task
BY DEF QueuesInv, QueueOf, AskedInv, AskedFor

(* What a post and the start of a task do, seen from outside the queues.   *)
Request(t, thread, delay) == [task |-> t, thread |-> thread, delay |-> delay, at |-> now]
Entry(t, kept) == [task |-> t, delay |-> kept, due |-> now + kept]
Start(t, thread) == [task |-> t, thread |-> thread, at |-> now]

LEMMA RecordTypes ==
  ASSUME TypeOK, NEW t \in Tasks, NEW thread \in Threads, NEW delay \in 0..MaxDelay
  PROVE  /\ Request(t, thread, delay) \in Asked
         /\ Entry(t, delay) \in Queued
         /\ Start(t, thread) \in Ran
BY TimeAssumption DEF TypeOK, Request, Entry, Start, Asked, Queued, Ran

LEMMA QueuesStep ==
  ASSUME TypeOK, AskedInv, QueuesInv, RunsOnceWhereAsked, [Next]_vars
  PROVE  QueuesInv'
<1>1. ASSUME NEW t \in Tasks, NEW thread \in Threads, NEW delay \in 0..MaxDelay,
             NEW kept \in 0..MaxDelay, Posts(t, thread, delay, kept)
      PROVE  QueuesInv'
  <2> DEFINE e == Request(t, thread, delay)
             f == Entry(t, kept)
  <2>1. e \in Asked /\ f \in Queued
    BY RecordTypes
  <2>2. e.task = t /\ f.task = t /\ e.thread = thread
    BY DEF Request, Entry
  <2>3. asked' = Append(asked, e) /\ ran' = ran
    BY <1>1 DEF Posts, Asks, Request
  <2>4. \/ thread = "worker" /\ worker' = Append(worker, f) /\ foreground' = foreground
        \/ thread = "main" /\ foreground' = Append(foreground, f) /\ worker' = worker
    BY <1>1 DEF Posts, Enqueue, Entry, Threads
  <2>5. /\ \A i \in DOMAIN worker : worker[i].task # t
        /\ \A i \in DOMAIN foreground : foreground[i].task # t
        /\ \A i \in DOMAIN ran : ran[i].task # t
    BY <1>1, NewTaskIsNew DEF Posts, Asks
  <2>6. /\ worker \in Seq(Queued) /\ foreground \in Seq(Queued) /\ asked \in Seq(Asked)
    BY DEF TypeOK
  <2> HIDE DEF e, f
  <2>7. CASE thread = "worker" /\ worker' = Append(worker, f) /\ foreground' = foreground
    <3>1. QueueOf(Append(worker, f), "worker", Append(asked, e), ran)
      BY <2>1, <2>2, <2>5, <2>6, <2>7, QueueGrows DEF QueuesInv
    <3>2. QueueOf(foreground, "main", Append(asked, e), ran)
      BY <2>1, <2>6, QueueStays DEF QueuesInv
    <3> QED
      BY <2>3, <2>7, <3>1, <3>2 DEF QueuesInv
  <2>8. CASE thread = "main" /\ foreground' = Append(foreground, f) /\ worker' = worker
    <3>1. QueueOf(Append(foreground, f), "main", Append(asked, e), ran)
      BY <2>1, <2>2, <2>5, <2>6, <2>8, QueueGrows DEF QueuesInv
    <3>2. QueueOf(worker, "worker", Append(asked, e), ran)
      BY <2>1, <2>6, QueueStays DEF QueuesInv
    <3> QED
      BY <2>3, <2>8, <3>1, <3>2 DEF QueuesInv
  <2> QED
    BY <2>4, <2>7, <2>8
<1>2. ASSUME NEW i \in DOMAIN worker, WorkerTakes(i) PROVE QueuesInv'
  <2> DEFINE e == Start(worker[i].task, "worker")
  <2>1. worker \in Seq(Queued) /\ ran \in Seq(Ran) /\ worker[i].task \in Tasks
    <3>1. worker \in Seq(Queued) /\ ran \in Seq(Ran)
      BY DEF TypeOK
    <3>2. worker[i] \in Queued
      BY <3>1, SeqFacts
    <3> QED
      BY <3>1, <3>2 DEF Queued
  <2>2. e \in Ran /\ e.task = worker[i].task
    BY <2>1, RecordTypes, TimeAssumption DEF Start, Threads, Ran, TypeOK
  <2>3. ran' = Append(ran, e) /\ worker' = Without(worker, i) /\ UNCHANGED <<asked, foreground>>
    BY <1>2 DEF WorkerTakes, Runs, Start
  <2> HIDE DEF e
  <2>4. QueueOf(Without(worker, i), "worker", asked, Append(ran, e))
    BY <2>1, <2>2, QueueShrinks DEF QueuesInv
  <2>5. QueueOf(foreground, "main", asked, Append(ran, e))
    BY <2>1, <2>2, QueueKept, QueuesApart DEF QueuesInv
  <2> QED
    BY <2>3, <2>4, <2>5 DEF QueuesInv
<1>3. ASSUME NEW i \in DOMAIN foreground, MainTakes(i) PROVE QueuesInv'
  <2> DEFINE e == Start(foreground[i].task, "main")
  <2>1. foreground \in Seq(Queued) /\ ran \in Seq(Ran) /\ foreground[i].task \in Tasks
    <3>1. foreground \in Seq(Queued) /\ ran \in Seq(Ran)
      BY DEF TypeOK
    <3>2. foreground[i] \in Queued
      BY <3>1, SeqFacts
    <3> QED
      BY <3>1, <3>2 DEF Queued
  <2>2. e \in Ran /\ e.task = foreground[i].task
    BY <2>1, RecordTypes, TimeAssumption DEF Start, Threads, Ran, TypeOK
  <2>3. ran' = Append(ran, e) /\ foreground' = Without(foreground, i) /\ UNCHANGED <<asked, worker>>
    BY <1>3 DEF MainTakes, Runs, Start
  <2> HIDE DEF e
  <2>4. QueueOf(Without(foreground, i), "main", asked, Append(ran, e))
    BY <2>1, <2>2, QueueShrinks DEF QueuesInv
  <2>5. QueueOf(worker, "worker", asked, Append(ran, e))
    BY <2>1, <2>2, QueueKept, QueuesApart DEF QueuesInv
  <2> QED
    BY <2>3, <2>4, <2>5 DEF QueuesInv
<1>4. CASE Idles
  BY <1>4 DEF Idles, QueuesInv
<1> QED
  BY <1>1, <1>2, <1>3, <1>4, StepKinds
-----------------------------------------------------------------------------
LEMMA RunsOnceStep ==
  ASSUME TypeOK, QueuesInv, RunsOnceWhereAsked, [Next]_vars
  PROVE  RunsOnceWhereAsked'
<1> DEFINE Once(r) == \A i, j \in DOMAIN r : r[i].task = r[j].task => i = j
           Where(a, r) == \A i \in DOMAIN r : AskedFor(r[i].task, r[i].thread, a)
<1>1. /\ RunsOnceWhereAsked <=> Once(ran) /\ Where(asked, ran)
      /\ RunsOnceWhereAsked' <=> Once(ran') /\ Where(asked', ran')
  BY DEF RunsOnceWhereAsked, AskedFor
<1>2. ASSUME NEW a \in Seq(Asked), NEW e \in Asked, NEW r, Where(a, r)
      PROVE  Where(Append(a, e), r)
  BY <1>2, AppendFacts DEF AskedFor
<1>3. ASSUME NEW q \in Seq(Queued), NEW i \in DOMAIN q, NEW thread \in Threads,
             NEW a, NEW r \in Seq(Ran), NEW e \in Ran, e.task = q[i].task, e.thread = thread,
             QueueOf(q, thread, a, r), Once(r), Where(a, r)
      PROVE  Once(Append(r, e)) /\ Where(a, Append(r, e))
  <2> DEFINE n == Len(r) + 1
  <2>1. /\ DOMAIN Append(r, e) = DOMAIN r \cup {n}
        /\ \A j \in DOMAIN r : Append(r, e)[j] = r[j]
        /\ Append(r, e)[n] = e
    BY AppendFacts
  <2>2. AskedFor(e.task, e.thread, a) /\ \A j \in DOMAIN r : r[j].task # e.task
    BY <1>3 DEF QueueOf
  <2> HIDE DEF n
  <2> QED
    BY <1>3, <2>1, <2>2
<1> HIDE DEF Once, Where
<1>4. ASSUME NEW t \in Tasks, NEW thread \in Threads, NEW delay \in 0..MaxDelay,
             NEW kept \in 0..MaxDelay, Posts(t, thread, delay, kept)
      PROVE  RunsOnceWhereAsked'
  <2>1. asked' = Append(asked, Request(t, thread, delay)) /\ ran' = ran
    BY <1>4 DEF Posts, Asks, Request
  <2>2. Request(t, thread, delay) \in Asked /\ asked \in Seq(Asked)
    BY RecordTypes DEF TypeOK
  <2> QED
    BY <1>1, <1>2, <2>1, <2>2 DEF Once
<1>5. ASSUME NEW q \in Seq(Queued), NEW i \in DOMAIN q, NEW thread \in Threads,
             QueueOf(q, thread, asked, ran), Runs(q[i].task, thread), asked' = asked
      PROVE  RunsOnceWhereAsked'
  <2> DEFINE e == Start(q[i].task, thread)
  <2>1. q[i] \in Queued
    BY SeqFacts
  <2>2. e \in Ran /\ e.task = q[i].task /\ e.thread = thread
    BY <2>1, RecordTypes, TimeAssumption DEF Start, Queued, Ran, TypeOK
  <2>3. ran' = Append(ran, e) /\ ran \in Seq(Ran)
    BY <1>5 DEF Runs, Start, TypeOK
  <2> HIDE DEF e
  <2> QED
    BY <1>1, <1>3, <1>5, <2>2, <2>3
<1>6. ASSUME NEW i \in DOMAIN worker, WorkerTakes(i) PROVE RunsOnceWhereAsked'
  BY <1>5, <1>6 DEF WorkerTakes, TypeOK, QueuesInv, Threads
<1>7. ASSUME NEW i \in DOMAIN foreground, MainTakes(i) PROVE RunsOnceWhereAsked'
  BY <1>5, <1>7 DEF MainTakes, TypeOK, QueuesInv, Threads
<1>8. CASE Idles
  BY <1>1, <1>8 DEF Idles
<1> QED
  BY <1>4, <1>6, <1>7, <1>8, StepKinds
-----------------------------------------------------------------------------
(***************************************************************************)
(* The foreground queue's delays and order.                                *)
(***************************************************************************)
(* The two properties of what was run, as ForegroundInv's parts are put.   *)
RanLate(a, r) == \A i \in DOMAIN r, k \in DOMAIN a :
  a[k].task = r[i].task /\ a[k].thread = "main" => r[i].at >= a[k].at + a[k].delay

RanInOrder(a, r) == \A i, j \in DOMAIN r, k, l \in DOMAIN a :
  /\ i < j /\ r[i].task = a[k].task /\ r[j].task = a[l].task
  /\ a[k].thread = "main" /\ a[l].thread = "main" /\ a[k].delay = 0 /\ a[l].delay = 0
  => k < l

Ordered(f, a, r) ==
  /\ KeepsDelay(f, a) /\ KeepsOrder(f, a) /\ ComesAfter(f, a, r)
  /\ RanLate(a, r) /\ RanInOrder(a, r)

LEMMA OrderedIs ==
  /\ Ordered(foreground, asked, ran) <=>
       ForegroundInv /\ ForegroundDelayKept /\ ForegroundInOrder
  /\ Ordered(foreground, asked, ran)' <=>
       ForegroundInv' /\ ForegroundDelayKept' /\ ForegroundInOrder'
BY DEF Ordered, ForegroundInv, ForegroundDelayKept, DelayKept, ForegroundInOrder,
   RanLate, RanInOrder

(* A new task is asked for, whichever thread it is for.                    *)
LEMMA OrderedAsk ==
  ASSUME NEW f, NEW a \in Seq(Asked), NEW e \in Asked, NEW r, Ordered(f, a, r),
         \A i \in DOMAIN f : f[i].task # e.task,
         \A i \in DOMAIN r : r[i].task # e.task
  PROVE  Ordered(f, Append(a, e), r)
<1> DEFINE n == Len(a) + 1
           b == Append(a, e)
<1>1. /\ DOMAIN b = DOMAIN a \cup {n}
      /\ \A k \in DOMAIN a : b[k] = a[k]
      /\ b[n] = e
  BY AppendFacts
<1> HIDE DEF n, b
<1>2. \A i \in DOMAIN f, k \in DOMAIN b : f[i].task = b[k].task => k \in DOMAIN a /\ b[k] = a[k]
  BY <1>1
<1>3. \A i \in DOMAIN r, k \in DOMAIN b : r[i].task = b[k].task => k \in DOMAIN a /\ b[k] = a[k]
  BY <1>1
<1>4. KeepsDelay(f, b) /\ KeepsOrder(f, b)
  BY <1>2 DEF Ordered, KeepsDelay, KeepsOrder
<1>5. ComesAfter(f, b, r)
  BY <1>2, <1>3 DEF Ordered, ComesAfter
<1>6. RanLate(b, r) /\ RanInOrder(b, r)
  BY <1>3 DEF Ordered, RanLate, RanInOrder
<1> QED
  BY <1>4, <1>5, <1>6 DEF Ordered, b

(* The task that was asked for last joins the queue.                       *)
LEMMA OrderedPost ==
  ASSUME NEW f \in Seq(Queued), NEW x \in Queued, NEW a, NEW r, Ordered(f, a, r),
         NEW n \in DOMAIN a, a[n].task = x.task,
         x.delay = a[n].delay, x.due = a[n].at + a[n].delay,
         \A k \in DOMAIN a : k # n => k < n /\ a[k].task # x.task,
         \A i \in DOMAIN f : f[i].task # x.task,
         \A i \in DOMAIN r : r[i].task # x.task
  PROVE  Ordered(Append(f, x), a, r)
<1> DEFINE m == Len(f) + 1
           g == Append(f, x)
<1>1. /\ DOMAIN g = DOMAIN f \cup {m} /\ m \notin DOMAIN f
      /\ \A i \in DOMAIN f : i < m /\ ~(m < i)
      /\ \A i \in DOMAIN f : g[i] = f[i]
      /\ g[m] = x /\ ~(m < m)
  BY AppendFacts, SeqFacts
<1> HIDE DEF m, g
<1>2. KeepsDelay(g, a)
  BY <1>1 DEF Ordered, KeepsDelay
<1>3. KeepsOrder(g, a)
  BY <1>1 DEF Ordered, KeepsOrder
<1>4. ComesAfter(g, a, r)
  BY <1>1 DEF Ordered, ComesAfter
<1> QED
  BY <1>2, <1>3, <1>4 DEF Ordered, g

(* A task that was asked of another thread is run.                         *)
LEMMA OrderedOther ==
  ASSUME NEW f, NEW a, NEW r \in Seq(Ran), NEW e \in Ran, Ordered(f, a, r),
         \A k \in DOMAIN a : a[k].task = e.task => a[k].thread # "main"
  PROVE  Ordered(f, a, Append(r, e))
<1> DEFINE n == Len(r) + 1
           s == Append(r, e)
<1>1. /\ DOMAIN s = DOMAIN r \cup {n}
      /\ \A k \in DOMAIN r : s[k] = r[k]
      /\ s[n] = e
  BY AppendFacts
<1> HIDE DEF n, s
<1>2. ComesAfter(f, a, s)
  BY <1>1 DEF Ordered, ComesAfter
<1>3. RanLate(a, s) /\ RanInOrder(a, s)
  BY <1>1 DEF Ordered, RanLate, RanInOrder
<1> QED
  BY <1>2, <1>3 DEF Ordered, s

(* The main thread runs a task that is ready.                              *)
LEMMA OrderedTake ==
  ASSUME NEW f \in Seq(Queued), NEW x \in DOMAIN f, NEW a \in Seq(Asked),
         NEW r \in Seq(Ran), NEW e \in Ran, e.task = f[x].task, Ordered(f, a, r),
         \A k \in DOMAIN a : a[k].at <= e.at,
         IF f[x].delay > 0 THEN f[x].due <= e.at ELSE \A j \in 1..x - 1 : f[j].delay > 0
  PROVE  Ordered(Without(f, x), a, Append(r, e))
<1> DEFINE n == Len(r) + 1
           s == Append(r, e)
           g == Without(f, x)
<1>1. /\ DOMAIN s = DOMAIN r \cup {n}
      /\ \A k \in DOMAIN r : s[k] = r[k]
      /\ s[n] = e
      /\ \A k \in DOMAIN r : k < n /\ ~(n < k)
      /\ ~(n < n)
  BY AppendFacts, SeqFacts
<1>2. /\ \A j \in DOMAIN g : Place(x, j) \in DOMAIN f /\ Place(x, j) # x /\ g[j] = f[Place(x, j)]
      /\ \A j, k \in DOMAIN g : j < k => Place(x, j) < Place(x, k)
  BY WithoutPlaces
<1>3. /\ e.at \in Nat
      /\ \A k \in DOMAIN a : a[k].at \in Nat /\ a[k].delay \in Nat
  <2>1. \A k \in DOMAIN a : a[k] \in Asked
    BY SeqFacts
  <2> QED
    BY <2>1, TimeAssumption DEF Asked, Ran
<1> HIDE DEF n, s, g
<1>4. KeepsDelay(g, a)
  BY <1>2 DEF Ordered, KeepsDelay
<1>5. KeepsOrder(g, a)
  BY <1>2 DEF Ordered, KeepsOrder
<1>6. ASSUME NEW j \in DOMAIN f, j # x, NEW k \in DOMAIN a, NEW l \in DOMAIN a,
             f[x].task = a[k].task, f[j].task = a[l].task, a[k].delay = 0, a[l].delay = 0
      PROVE  k < l
  <2>1. f[x].delay = 0 /\ f[j].delay = 0
    BY <1>6 DEF Ordered, KeepsDelay
  <2>2. x < j
    <3>1. x \in Nat /\ j \in Nat /\ j >= 1
      BY SeqFacts
    <3>2. j \notin 1..x - 1
      BY <2>1
    <3> QED
      BY <1>6, <3>1, <3>2
  <2> QED
    BY <1>6, <2>2 DEF Ordered, KeepsOrder
<1>7. ComesAfter(g, a, s)
  BY <1>1, <1>2, <1>6 DEF Ordered, ComesAfter
<1>8. RanLate(a, s)
  <2>1. ASSUME NEW k \in DOMAIN a, a[k].task = e.task PROVE e.at >= a[k].at + a[k].delay
    <3>1. f[x].delay = a[k].delay /\ f[x].due = a[k].at + a[k].delay
      BY <2>1 DEF Ordered, KeepsDelay
    <3> QED
      BY <1>3, <3>1
  <2> QED
    BY <1>1, <2>1 DEF Ordered, RanLate
<1>9. RanInOrder(a, s)
  <2>1. ASSUME NEW i \in DOMAIN r, NEW k \in DOMAIN a, NEW l \in DOMAIN a,
               r[i].task = a[k].task, e.task = a[l].task,
               a[k].thread = "main", a[k].delay = 0, a[l].delay = 0
        PROVE  k < l
    BY <2>1 DEF Ordered, ComesAfter
  <2> QED
    BY <1>1, <2>1 DEF Ordered, RanInOrder
<1> QED
  BY <1>4, <1>5, <1>7, <1>8, <1>9 DEF Ordered, s, g

LEMMA OrderedStep ==
  ASSUME TypeOK, AskedInv, QueuesInv, RunsOnceWhereAsked,
         Ordered(foreground, asked, ran), [Next]_vars
  PROVE  Ordered(foreground, asked, ran)'
<1>1. ASSUME NEW t \in Tasks, NEW thread \in Threads, NEW delay \in 0..MaxDelay,
             NEW kept \in 0..MaxDelay, Posts(t, thread, delay, kept)
      PROVE  Ordered(foreground', asked', ran')
  <2> DEFINE e == Request(t, thread, delay)
             x == Entry(t, kept)
             n == Len(asked) + 1
  <2>1. e \in Asked /\ x \in Queued
    BY RecordTypes
  <2>2. /\ e.task = t /\ x.task = t
        /\ thread = "main" => x.delay = e.delay /\ x.due = e.at + e.delay
    BY <1>1 DEF Request, Entry, Posts
  <2>3. asked' = Append(asked, e) /\ ran' = ran
    BY <1>1 DEF Posts, Asks, Request
  <2>4. \/ thread = "worker" /\ foreground' = foreground
        \/ thread = "main" /\ foreground' = Append(foreground, x)
    BY <1>1 DEF Posts, Enqueue, Entry, Threads
  <2>5. /\ \A i \in DOMAIN foreground : foreground[i].task # t
        /\ \A i \in DOMAIN ran : ran[i].task # t
        /\ \A k \in DOMAIN asked : asked[k].task # t
    BY <1>1, NewTaskIsNew DEF Posts, Asks
  <2>6. foreground \in Seq(Queued) /\ asked \in Seq(Asked)
    BY DEF TypeOK
  <2>7. /\ n \in DOMAIN Append(asked, e) /\ Append(asked, e)[n] = e
        /\ \A k \in DOMAIN Append(asked, e) :
             k # n => k < n /\ Append(asked, e)[k].task # t
    <3>1. /\ DOMAIN Append(asked, e) = DOMAIN asked \cup {n}
          /\ \A k \in DOMAIN asked : Append(asked, e)[k] = asked[k] /\ k < n
          /\ Append(asked, e)[n] = e
      BY <2>1, <2>6, AppendFacts
    <3> HIDE DEF n, e
    <3> QED
      BY <2>5, <3>1
  <2> HIDE DEF e, x, n
  <2>8. Ordered(foreground, Append(asked, e), ran)
    BY <2>1, <2>2, <2>5, <2>6, OrderedAsk
  <2>9. thread = "main" => Ordered(Append(foreground, x), Append(asked, e), ran)
    BY <2>1, <2>2, <2>5, <2>6, <2>7, <2>8, OrderedPost
  <2> QED
    BY <2>3, <2>4, <2>8, <2>9
<1>2. ASSUME NEW i \in DOMAIN worker, WorkerTakes(i) PROVE Ordered(foreground', asked', ran')
  <2> DEFINE e == Start(worker[i].task, "worker")
  <2>1. e \in Ran /\ e.task = worker[i].task
    <3>1. worker[i] \in Queued
      BY SeqFacts DEF TypeOK
    <3> QED
      BY <3>1, RecordTypes, TimeAssumption DEF Start, Threads, Queued, Ran, TypeOK
  <2>2. ran' = Append(ran, e) /\ UNCHANGED <<asked, foreground>> /\ ran \in Seq(Ran)
    BY <1>2 DEF WorkerTakes, Runs, Start, TypeOK
  <2>3. \A k \in DOMAIN asked : asked[k].task = e.task => asked[k].thread # "main"
    BY <2>1 DEF QueuesInv, QueueOf, AskedFor, AskedInv
  <2> HIDE DEF e
  <2> QED
    BY <2>1, <2>2, <2>3, OrderedOther
<1>3. ASSUME NEW i \in DOMAIN foreground, MainTakes(i) PROVE Ordered(foreground', asked', ran')
  <2> DEFINE e == Start(foreground[i].task, "main")
  <2>1. e \in Ran /\ e.task = foreground[i].task /\ e.at = now
    <3>1. foreground[i] \in Queued
      BY SeqFacts DEF TypeOK
    <3> QED
      BY <3>1, RecordTypes, TimeAssumption DEF Start, Threads, Queued, Ran, TypeOK
  <2>2. /\ ran' = Append(ran, e) /\ foreground' = Without(foreground, i) /\ asked' = asked
        /\ foreground \in Seq(Queued) /\ asked \in Seq(Asked) /\ ran \in Seq(Ran)
    BY <1>3 DEF MainTakes, Runs, Start, TypeOK
  <2>3. /\ \A k \in DOMAIN asked : asked[k].at <= e.at
        /\ IF foreground[i].delay > 0 THEN foreground[i].due <= e.at
                                      ELSE \A j \in 1..i - 1 : foreground[j].delay > 0
    BY <1>3, <2>1 DEF AskedInv, MainTakes, IsReady
  <2> HIDE DEF e
  <2> QED
    BY <2>1, <2>2, <2>3, OrderedTake
<1>4. CASE Idles
  BY <1>4 DEF Idles
<1> QED
  BY <1>1, <1>2, <1>3, <1>4, StepKinds
-----------------------------------------------------------------------------
LEMMA InitIInv == Init => IInv
<1> SUFFICES ASSUME Init PROVE IInv
  OBVIOUS
<1>1. TypeOK
  <2>1. pumping \in BOOLEAN /\ RunOnlyMessagesInLoop \in BOOLEAN
    BY Zenon DEF Init
  <2>2. /\ asked \in Seq(Asked) /\ ran \in Seq(Ran)
        /\ worker \in Seq(Queued) /\ foreground \in Seq(Queued)
    BY DEF Init
  <2>3. now \in 0..MaxTime
    BY TimeAssumption DEF Init
  <2> QED
    BY <2>1, <2>2, <2>3 DEF TypeOK
<1>2. AskedInv /\ QueuesInv /\ RunsOnceWhereAsked
  BY DEF Init, AskedInv, QueuesInv, QueueOf, RunsOnceWhereAsked
<1>3. Ordered(foreground, asked, ran)
  BY DEF Init, Ordered, KeepsDelay, KeepsOrder, ComesAfter, RanLate, RanInOrder
<1> QED
  BY <1>1, <1>2, <1>3, OrderedIs DEF IInv

LEMMA IInvStep == IInv /\ [Next]_vars => IInv'
<1> SUFFICES ASSUME IInv, [Next]_vars PROVE IInv'
  OBVIOUS
<1>1. TypeOK' /\ AskedInv' /\ QueuesInv' /\ RunsOnceWhereAsked'
  BY TypeStep, AskedStep, QueuesStep, RunsOnceStep DEF IInv
<1>2. Ordered(foreground, asked, ran)'
  BY OrderedIs, OrderedStep DEF IInv
<1> QED
  BY <1>1, <1>2, OrderedIs DEF IInv

LEMMA IInvHolds == Spec => []IInv
BY InitIInv, IInvStep, PTL DEF Spec

(* Every variable keeps its type.                                          *)
THEOREM TypeCorrect == Spec => []TypeOK
<1>1. IInv => TypeOK
  BY DEF IInv
<1> QED
  BY <1>1, IInvHolds, PTL

(* What V8 posts through the proxy is run at most once, on the kind of     *)
(* thread it was posted for, for any number of tasks.                      *)
THEOREM RunsOnce == Spec => []RunsOnceWhereAsked
<1>1. IInv => RunsOnceWhereAsked
  BY DEF IInv
<1> QED
  BY <1>1, IInvHolds, PTL

(* CallDelayedOnForegroundThread: no task of the main thread runs before   *)
(* its time, whatever the delays.                                          *)
THEOREM DelayIsKept == Spec => []ForegroundDelayKept
<1>1. IInv => ForegroundDelayKept
  BY DEF IInv
<1> QED
  BY <1>1, IInvHolds, PTL

(* CallOnForegroundThread: tasks without a delay run in the order of the   *)
(* calls, also with delayed ones among them in the queue.                  *)
THEOREM OrderIsKept == Spec => []ForegroundInOrder
<1>1. IInv => ForegroundInOrder
  BY DEF IInv
<1> QED
  BY <1>1, IInvHolds, PTL
=============================================================================
