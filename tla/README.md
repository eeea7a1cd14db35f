# V8InspectorMinimal: a TLA+ model

The program embeds V8 and lets Chrome DevTools attach to it: a websocket
server takes the inspector protocol's messages, the main thread hands them to
V8's inspector session, and what V8 answers goes back over the websocket.
This directory models the program's own code (`src/src/*.cpp`, `*.h`). V8
(`src/src/v8`, headers only) and SoyLib (`src/src/SoyLib`, a submodule: sockets,
threads, http and websocket decoders) are its environment and are modelled as
the program uses them.

## Inventory

| component | state | operations | what makes it correct |
|---|---|---|---|
| websocket server (`TApiWebsocket`) | `mClients` under `mClientsLock`; per peer `mHandshake`, `mCurrentMessage`, outgoing packets | `AddClient`, `RemoveClient`, `GetClient`, `Send`, `OnDataRecieved`, `AllocProtocol` | the reply to the handshake precedes everything, once; a client that can speak can be answered; one message's frames are not mixed with another's |
| message channel (`TV8MessageChannel`) | `mWebsocketClient`, the last client that sent a text | text callback, `SendResponse`, constructor (port 8008, then any) | answers go to a client that asked |
| main loop (`v8Minimal.cpp`) | `Messages`, `MessagesLock`, `RunOnlyMessagesInLoop` | queue a message, pump V8's tasks, drain and dispatch, pause and resume | each text is dispatched once, in its client's order, eventually; the lock is not kept |
| inspector client and channel (`InspectorClientImpl`, `TV8Channel`) | none of their own | V8's callbacks: pause, resume, response, notification; `GetString` | what V8 says reaches the message channel unchanged |
| platform proxy (`TV8Platform`) | the default platform | forwards tasks; a delayed worker task loses its delay | tasks run where and when V8 asked |
| start and shutdown (`v8min_main`, `MessageHandler`) | which port a run serves, the window it opens | V8, ports 8008 and then any, session, script, loop; a failure ends the run | a window leads to the run that opened it; nothing is used before it exists; texts that come before the session wait |
| value conversions (`SoyV8`) | none | `EnumArray`, `SafeCast`, `EnumString`, `GetTypedArray`, ... | what is copied out is what the value holds |
| predefined channel (`TPredefinedMessageChannel`) | two fixed messages | queued by its constructor; only with `USE_PREBAKED_COMMANDS`, which is off | they wait for the session |

Threads: the main thread (everything in V8), the server's accept thread, and
for each connection a read thread and a write thread. They share `Messages`
(mutex `MessagesLock`), `mClients` (mutex `mClientsLock`), each peer's outgoing
packets (inside SoyLib), and, without a lock, `mWebsocketClient` and
`mHandshake`. No handler stands between the main thread and the operating
system: an exception out of `TWebsocketServer::Send` ends the process.

The hard behaviours are the interleavings of these threads with V8's callbacks
(V8 calls `SendResponse` while the main thread holds `MessagesLock`), a client
recorded before its text is queued, several clients sharing one
`mWebsocketClient`, connections that are lost, and a pause that sets a flag
instead of running a loop. `PROJECT.json` lists each hazard at its line with
the properties that cover it.

## Modules

`WebsocketServer`, `MessageChannel` and `V8Minimal` each EXTEND the one before and
leave its variables alone otherwise; `QueueFault` adds a fault to `V8Minimal`.
`WebsocketPeer`, `Startup`, `V8Platform`, `InspectorText` and `EnumArray` stand by
themselves: each opens up something the program modules take as one step (a
text's arrival, `Boot`, the pump, a text's characters), or that the loop does
not use.

* `WebsocketServer`: accept, read and write threads, `mClients`, handshakes.
  `AddClient` and `RegisterClient` are the two statements of
  `TWebsocketServer::AddClient`: the peer's constructor, which starts its
  threads, and `PushBack`. `Disconnect` calls `RemoveClient`, whose body is
  empty. `OnHttpRequest` and `PushReply` split `OnDataRecieved` between the flag
  and the push, because the main thread reads the flag. A request that is not a
  websocket upgrade is answered too, and leaves the handshake incomplete.
  `Pushed(c)` is everything ever pushed for a client; `WritePacket` moves the
  oldest packet from the write thread's queue to the wire.
* `MessageChannel`: the text callback. `OnTextMessage` records the client,
  `LockMessages`, `PushMessage` and `UnlockMessages` are the three statements of
  the `OnMessage` lambda. Texts are numbered in the order `mWebsocketClient` was
  assigned; the history `texts` says whose text each number is.
* `V8Minimal`: the main thread. `pc` is its place: `loop`, `pump` and `task`
  (PumpMessageLoop and a task it runs), `lock`, `drain` and `dispatch` (the
  `lock_guard` block), `getclient` and `push` (inside `Send`, called back from
  V8), `terminated`. V8 is free, while it has the thread, to answer any
  dispatched text it has not answered (at once or from a later task), to notify,
  to pause, to resume, and to post tasks at any time. This module also states
  the properties.
* `TextService`: the abstract service: texts are accepted, given to the session
  once and in their client's order, and answered once, to a client that spoke at
  the text or after it. `V8Minimal!Service` instantiates it with `texts`,
  `dispatched` and the responses found in `Pushed`.
* `QueueFault`: `V8Minimal` where `PushBack`, between the lock and the unlock of the
  `OnMessage` lambda, may throw. There is no guard object: the exception ends the
  read thread and the mutex stays locked. Everything else is `V8Minimal`'s.
* `Startup`: `v8min_main` and `v8min_main_helloworld` up to the loop, for several runs
  of the program and other programs that want the same ports. `ListenOnPreferred`
  and `ListenOnAny` are the two rounds of the channel constructor's loop over
  8008 and 0, `OpenWindow` is `ShellOpenUrl`; a window is named by the run that
  opened it, outlives it, and may then connect to the next run on its port. Each
  run is a build with the websocket channel or one with the predefined commands.
  `Kill` may end a run at any moment. A server fails on a held port and may fail on
  a free one: the constructor catches any `std::exception` on 8008 and goes on to
  0 (`FailOn`, which records in `refused` that 8008 was free), and when 0 fails too
  its own exception ends the run (`FailToListen`).
* `MessageStream`: what a connection promises the message channel: whole messages,
  once and in order, all of them while it lasts. `WebsocketPeer!Stream` instantiates
  it with the messages as the client cut them into frames.
* `InspectorText`: the characters of one text and its answer: `SendMessageToSession`
  hands UTF-8 bytes to V8 as 8-bit characters, `GetString` takes every byte of an
  8-bit view and every second one of a 16-bit view.
* `WebsocketPeer`: one peer's read thread, frame by frame: `AllocProtocol`, the
  buffer `mCurrentMessage` that successive protocols share, the text and the
  binary branch of `OnDataRecieved` with their resets, and a connection that may
  be lost anywhere. It shows that a text arrives whole and once, which is what
  `MessageChannel!OnTextMessage` takes as one step. Decoding is SoyLib's: control
  frames between the frames of a message are not modelled. The comment on
  `mCurrentMessage` speaks of different threads; in the code only the read
  thread allocates, fills and resets it, so `mCurrentMessageLock` is not needed
  and not modelled.
* `V8Platform`: `TV8Platform` between V8, which posts tasks from any thread, and
  the default platform's worker threads and `PumpMessageLoop`. The default
  platform is taken to run undelayed tasks of a queue in order, and a delayed one
  at any moment after its time. The main thread is in its loop over
  `PumpMessageLoop` or elsewhere (`pumping`), and comes to it only while no pause has
  set `RunOnlyMessagesInLoop`; V8 sets and resets that at any time.
* `EnumArray`: the copy of a script's value into a native array, with the C++
  recursion as a stack over arrays that may hold each other. The integers have
  `IntValues`, `ShortValues` and `ByteValues` values: 2^32, 2^16 and 2^8 in the code.
  A number is a double and changes its type on the way into the array: into an int
  it loses its fraction, and out of an int's range, which is undefined in C++, any
  int may come of it; into a float it is rounded (`ToFloat`) to a nearest member of
  `Floats`, the numbers that are floats, whose ends stand for the infinities. Of two
  floats as near, either may come: which one is the rounding mode's. NaN, which
  stays NaN in a float and is undefined in an int, is left out.
* `ArrayLeaves`: what the copy must be, the leaves of the value, by recursion on
  the depth (`LeafTable`), and the properties. It adds `root`, the value of the first
  call, which the stack forgets. `MCEnumArray` has the inputs TLC runs it on.
* `V8MinimalInv`: the inductive invariant of the program. `V8MinimalProofs`,
  `FaultProofs`, `PeerProofs`, `StartupProofs`, `V8PlatformProofs`, `InspectorTextProofs`,
  `EnumArrayProofs`: the theorems, below; `FlattenFacts`: the lemmas about flattened
  sequences that the last two need.
* `MCV8Minimal`: the instance TLC runs, with the symmetry of clients.

Definitions named as "a bug" are the mutated forms that `PROJECT.json` lists:
each shows that a property can tell the code from a plausible mistake. No
specification uses them.

## Runs

| run | asks | bounds | states |
|---|---|---|---|
| `safety` | type invariant, lock discipline, delivery, handshake before data, routing, the one way to die | 2 clients, 2 texts, 1 task waiting at any time, 1 notification; symmetry | 909,678 |
| `service` | `TextService` is implemented | the same, no symmetry | 1,819,334 |
| `queue_fault` | a throw at the queue: the lock is accounted for, what is lost stays lost, the main thread comes to rest at the lock; short of that every text is dispatched | 2 clients, 2 texts | 191,885 |
| `liveness` | tasks are pumped unless paused; texts are dispatched unless tasks never run out; answers are written | 1 client, 2 texts, 2 tasks waiting at any time, 1 notification | 18,861 |
| `client_found` | violation: `GetClient`'s assertion | as `safety` | |
| `startup` | who serves where, which run a window reaches, what becomes of early texts | 3 runs, 2 ports, 1 text for each run besides the predefined ones | 725,344 |
| `startup_liveness` | a run comes to its loop or ends; its session gets every text | 2 runs, 2 ports, 2 texts for each run | 30,398 |
| `frames` | messages are delivered whole, once and in order; `MessageStream` is implemented, its liveness too | 3 messages of up to 3 frames, text or binary | 32,753 |
| `platform` | tasks run once, where asked, in order, not early, and all of them but for a pause | 3 tasks, delays up to 1, clock up to 2 | 431,016 |
| `worker_delay` | violation: the delay of a worker task | as `platform` | |
| `text` | what V8 reads of a text, what the window gets of an answer | texts of up to 3 of 5 characters: one of ASCII, two below 256, and two above, one of two and one of three bytes in UTF-8, whose low byte is a quote | 62,072 |
| `enum_array` | the copy is the value's leaves, exactly as far as it must go; it ends | 2 arrays, 38 contents each, a stack of 3 calls, 16 values of int, 4 of short, 2 of char, 17 floats | 24,742 |

Why the bounds are enough: two read threads and the main thread make every kind
of contention on the lock; two texts make a queue that can be reordered, a
client that is overtaken by another, and, when one client sends both, an order
to keep; one task lets V8 call back outside a dispatch; one notification is a
packet that answers nothing. Each client connects once: a window that reconnects
is another SoyRef, so another client. `MaxTexts` and `MaxNotes` bound the texts and
notifications there ever are, `MaxTasks` only the tasks that wait at any one time,
so that V8 may go on posting for ever; they stand in the guards of `OnTextMessage`,
`Notify` and `PostTask`. No deadlock is possible: the main loop never ends, and the ended
process stutters. `queue_fault` has the smallest instance in which one reader loses
the lock with another one and the main thread still to ask for it; there the
system does stop, which is the point, so deadlock is not checked.
`DispatchedUnlessLost` says of the program without a throw that every text is
dispatched or the process ends; it has no tasks, which `TextsDispatched` of `liveness`
has, with one reader: tasks that post tasks without end are the one thing that keeps
a text waiting (`[]Pumping`), and the code does let them.
`DispatchedUnlessLost` would fail if the pause ran a loop of its own (its mutant): the
loop would wait for the lock its own thread holds.

`startup`: two runs that compete and a third that takes over a port its window's
run has left; with one port besides 8008, also the case that nothing is free.
`startup_liveness` needs no third run: a run waits for none. The remaining runs: three messages give one before, one in and one after a reset, and
three frames a first, a middle and a last one. Three tasks are enough to have a
task overtaken while another waits for its time. Two arrays make every shape of
sharing and both kinds of cycle (through itself, through the other), a stack of
three calls is one more than acyclic arrays need, and the typed arrays hold the
ends of their ranges; an int of 16 values keeps a number out of range (undefined in
C++, so any int) small to enumerate. The floats have two binary digits: the numbers
are one that is a float, one between two floats, one nearer to one of them, and one
beyond the largest. In `enum_array`, `frames` and `text` the system
stops when the call, the connection or the answer is over, so deadlock is not
checked there.

Symmetry is only used with invariants; the temporal runs are without it.

Fairness (`FairSpec`): weak for each step of the main thread and for the end of
a task or dispatch (V8 returns), for the accept thread's second statement, for
each write thread and for a read thread inside its callback: these are threads
that can run, and the scheduler runs them. Strong for taking `MessagesLock`: the
main thread sleeps 100 ms in every round with the lock free and a read thread
holds it for one `PushBack`, so a waiter is not passed over for ever.
`QueueFault` has the same fairness, and nothing has to throw. In `Startup` the main
thread of a living run goes on. `WebsocketPeer` and `EnumArray` have one thread,
which goes on; `MessageStream` promises delivery while the connection lasts; in `V8Platform`
the worker threads go on, the main thread enters and goes on with the pump, which it
does in each round unless V8 has paused, and time passes. Nothing
obliges a client to connect or send, V8 to answer, or a pause to end.

### What the violations show

`client_found`: `AddClient` builds the peer, whose constructor starts the read and
write threads, and only then pushes it to `mClients`. A client whose handshake
and first text are served in between is not found by `GetClient`, which throws
`Client not found` on the main thread; nothing catches it. Pushing the peer
before starting its threads would close the window. `CrashOnlyWhileAdding`
(checked, and proved for every instance) says it is the only one: in
particular the empty `RemoveClient`, which lets `mClients` grow, also keeps lost
connections from making `Send` throw.

`worker_delay`: `CallDelayedOnWorkerThread` forwards a delay of zero ("bodged fix to
avoid the assert"), where `v8-platform.h:314-315` promises the task after its
delay. `ForegroundDelayKept` shows the other delayed call does not share this.

One divergence is not a run, because what follows from it is decided inside V8:
the main loop hands `PumpMessageLoop` the proxy (`v8Minimal.cpp:221`, `gPlatform`), and
that function's header (`libplatform.h:58-59`) wants a platform from
`NewDefaultPlatform`; given another object its behaviour is undefined. `V8Minimal` and
`V8Platform` take the call at its documented word, so what they show of tasks
(`TasksPumped`, `TasksRun`, the order of foreground tasks) holds for a build in which it
does work, or once the call is given `mpPlatform`. `TasksRun` is about a program that
lives on; how it can end is `V8Minimal`'s.

### Memory model

`mWebsocketClient` and the two booleans of `mHandshake` are read and written
without a lock. They are words: the build (x86-64, Xcode project) does not tear
them and keeps each thread's stores in order, so a read returns some value the
variable had, which is what interleaved steps give. Where the properties need an
order, the code has one: a text is dispatched after its read thread has released
`MessagesLock`, hence after its handshake and its record.

### What the fault and the start show

`queue_fault`: one exception between `lock()` and `unlock()` (`v8Minimal.cpp:143-145`)
stops the whole program without a word: the main thread blocks at its next
`lock_guard`, so V8's tasks are not pumped either, and the window stays connected
to a program that no longer answers. A `lock_guard` in the lambda would confine
the loss to one connection.

`startup`: a run may serve on another port than 8008 even if nobody has ever had
8008, when its own server failed there; `PreferredPortFirst` says these are the only
two reasons. While a run lives its window reaches it and nobody else, on whichever
port it came to serve. `WindowFindsItsRun` says nothing of a window whose run has
ended, and rightly: it connects to the next run that gets the port.

`text`: only ASCII is read by V8 as it was said. What V8 repeats comes back right
all the same, because `GetString` makes the opposite mistake; a character above
255 goes out as its low byte.

## Proofs

All are for every value of the constants that satisfies the named assumptions
of the modules. Each starts from an inductive invariant, proved one action at a
time.

**The program** (`V8MinimalProofs`; the invariants are in `V8MinimalInv`). `TypeCorrect`,
`InvCorrect`, and from it `LockCorrect`, `DeliveryCorrect`, `LossCorrect`,
`HandshakeCorrect`, `SettledCorrect`, `RoutingCorrect` and `CrashCorrect`. `IInv` is the lock
discipline `QueueExclusive` and `TextsInv`, which is inductive without it, because
every action is one access to the queue; that an action may be is what
`QueueExclusive` says. `TextsInv` adds to the safety properties what makes them
inductive:
`PendingInv` and `QueueInv` (a text held by a read thread is later than all of its
client's queued ones, so appending it keeps the order and popping the head
changes nothing of `dispatched \o Messages`); `MainInv` (`current` is non-zero just
while a text is in V8, so `MessagesLock = Main` can be read off the main thread's
place; its step uses that the head of the queue is a text, never 0);
`HandshakeInv` (a peer has been pushed something exactly when its flag is set and
its reader is past the reply; who has spoken is connected and past it), which
gives `HandshakeFirst` and `HandshakeSettled`, since the main thread only sends to
clients that have spoken; `LastClientInv`, which makes `SendResponse` pick the last
speaker; and `RegisterInv` (who is connected is in the array or being added),
which gives `CrashOnlyWhileAdding`. The proof goes group by group; each group
first shows which actions touch its variables (`TextMoves`, `PushedMoves`,
`TextsGrow`), then treats those.

**The service** (at the end of `V8MinimalProofs`): `ServiceImplemented`, that `Spec`
implements `TextService`. Beside `TextsInv` it needs `AnswerInv`: what has been pushed as
an answer was answered, and an answer on its way to `Push` is at no client yet.
`PeerSend` of a response is the service's answer, `OnTextMessage` its acceptance,
`PopMessage` its giving; every other step leaves all three histories alone.

**The fault** (`FaultProofs`): what a throw at the queue takes away, and what it does
not. `QueueExclusive` is false here; `PlacesInv`, its half that survives (who is at the
queue holds the lock), and `TextsInv` are inductive with the throw among the steps,
for the throw changes only its reader's place, and a stopped reader may hold a
text. `LockAccountedFor` and `LossIsFinal`: with the lock at a stopped reader, every
action on `Messages` or `dispatched` has a guard that `PlacesInv` refutes.
`MainNeverPasses`: nor does the main thread get past its next `lock_guard`, the safety
half of `LostLockStopsMain`.
`OrderSurvives`, `NothingElseLost`, `RoutingSurvives`, `CrashesNoMore` and
`ServiceSurvives`: in every other respect the program is as safe as without the
fault, and still implements `TextService`. What it loses is liveness.

**A peer** (`PeerProofs`): `TypeCorrect`, `WholeMessagesDelivered`, `BufferKeptCurrent` and
`StreamImplemented`. `BufferInv`: the buffer holds parts 1, 2, ... of the message
after the delivered ones, and is complete just with its last part. `StreamInv`:
what is on its way goes on where the buffer ends, each frame following the one
before. `EndInv`: while the connection lasts it ends with the last message sent,
which is what a new message's first frame must follow. `StreamImplemented` is the
safety part of `StreamSpec`.

**The start** (`StartupProofs`): `TypeCorrect`, `PreferredPortComesFirst`,
`WindowReachesItsRun`, `ExactlyOneServer` and `EarlyTextsAreKept`. `OwnerInv`: a run owns
one port from serving to its end and none otherwise; `WindowInv`: a connected
window is connected to the owner of its port, and that is its own run while it
lives; `TakenInv`: a run that fell back did so because 8008 had another
owner, or its server failed on it while free.

**The platform** (`V8PlatformProofs`): `TypeCorrect`, `RunsOnce`, `DelayIsKept` and
`OrderIsKept`. `QueueOf`: a queued task was asked for, for that thread, is there
once and has not run; `KeepsDelay`, `KeepsOrder` and `ComesAfter` say of the
foreground queue what will be needed when a task is taken from its middle.

**A text's characters** (`InspectorTextProofs`): `TypeCorrect`, `SessionReads`,
`BytesThrough` and `EchoReturns`, for texts of any length of characters that are
one 16-bit character (no surrogate pairs). The invariant says what each stage
holds: the view is the text's bytes as 8-bit characters, the buffer V8's text in
one width or the other, the wire `GetString` of the buffer. The rest is about the
conversions. `Encode` is a flattened sequence of one to three bytes for a
character, so an encoded text equals the text exactly when that is ASCII: with any
other character it is longer (`EncodeAscii`). `LowBytes`: every second byte of a
16-bit view is each character's low byte, which is the character just when it
fits.

**An array's leaves** (`EnumArrayProofs`): `TypeCorrect`, `LeavesEnumerated` and
`OverflowCyclic`, for every heap, cyclic ones included, every depth of the stack,
every width of the integers and every set of floats. `LeavesEnumerated` relates the stack of
calls to the recursion: at any moment the value's leaves are those already copied, then those of
the value in hand, then what is left of each array on the stack, from the innermost
out, each read in the table row of its own depth (`Splits`). Entering an array,
taking its next element and leaving it each move a boundary of this partition;
pushing a number or copying a typed array moves leaves into the copied part. The
call ends with nothing in hand and nothing on the stack, or with a leaf in hand that
has no copy. `OverflowCyclic`: the array of each frame is held by that of the
frame around it (`Nested`), so a full stack is a path of more arrays than there are,
on which one must come twice.

**Induction.** Both rest on facts about sequences of any length. The libraries'
induction theorems take a predicate as a parameter, which the provers here cannot
instantiate; `SetInduction` (`FlattenFacts`) states induction for a set of numbers
instead, and follows from the well-foundedness of `<`. From it come that the partial
flattenings of a sequence exist and are unique, hence what `FlattenSeq` of the
community modules does to the empty sequence, to a head and its tail, and to the
type; and, in the same way, that the function `LeafTable` is what its recursive
equation says.

Model-checked only: liveness (`TasksPumped`, `TextsDispatched`, `AnswersWritten`,
`DispatchedUnlessLost`,
`LostLockStopsMain`, `TasksRun`, `TextsReachSession`, `StartsOrEnds`, `Ends`, and the
fairness in `StreamSpec`), which is out of the prover's reach. Every safety property
that a passing run checks is proved.

## Not modelled

* `GetTypedArray` and `CopyToTypedArray` of `SoyV8`: what they leave in a buffer of
  another size than the source is decided by SoyLib's `Array::Copy`, which is not
  in the repository. The handle helpers (`GetObject`, `V8Storage`, `SafeCast`,
  `EnumString`) are single calls into V8 with a check. Nothing in the program but
  `MessageHandler` and `RunHelloWorld` calls `SoyV8.cpp` at all; its status is partly.
* The contents of messages: V8 parses them. The commands of the predefined channel
  carry a `Message=` prefix, so V8 will refuse both; the model only keeps when they
  are given to the session.
* A pause that a pumped task sets does not stop the inner pump loop
  (`v8Minimal.cpp:219-224`); `V8Minimal` has this, as `RunTask` does not test the flag.
* The DevTools URL's wording, logging, the Xcode and interface files, the built-in
  script, `TV8Allocator` and the object templates of `SoyV8.h`, which the program
  does not use.
* `src/src/v8` and `src/src/SoyLib`: V8's public headers, most of the repository's
  lines, declare a library that is not here; SoyLib is an empty submodule. Both
  are the environment and appear only as the program uses them.

With this every part of the program's own code that changes state is modelled,
and every safety property of its modules is proved.
