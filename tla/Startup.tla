-------------------------------- MODULE Startup --------------------------------
(***************************************************************************)
(* Starting the program: v8min_main, v8min_main_helloworld up to its loop, *)
(* and the constructors of the two message channels, with several runs of  *)
(* the program, other programs that use the same ports, and the DevTools   *)
(* windows the runs open.  A run may be killed at any moment; the system   *)
(* then frees its port, but its window stays and may connect again, to     *)
(* whoever listens there by then.                                          *)
(*                                                                         *)
(* V8Minimal has the loop in detail; here it only empties the queue.       *)
(***************************************************************************)
EXTENDS Naturals, Sequences, FiniteSets

CONSTANTS
  Runs,           (* executions of the program; a restart is another run   *)
  PreferredPort,  (* 8008                                                  *)
  AnyPorts,       (* the ports the system picks from when asked for port 0 *)
  NoPort,
  Other,          (* another program, as the owner of a port               *)
  Nobody,         (* no owner; also the peer of a window without one       *)
  MaxTexts        (* bound: the texts a run is sent                        *)

ASSUME PortsAssumption == PreferredPort \notin AnyPorts /\ NoPort \notin AnyPorts \cup {PreferredPort}
ASSUME RunsAssumption == Other \notin Runs /\ Nobody \notin Runs /\ Other # Nobody
ASSUME TextsAssumption == MaxTexts \in Nat

Ports == AnyPorts \cup {PreferredPort}

VARIABLES
  build,       (* per run: "websocket", or "prebaked": USE_PREBAKED_COMMANDS *)
  stage,       (* per run: how far its main thread has come                *)
  owner,       (* who listens on each port                                 *)
  url,         (* per run: the port of the window it has opened, or NoPort *)
  peer,        (* per window, named by its run: the run it is connected to *)
  Messages,    (* per run: the queue of texts                              *)
  dispatched,  (* history, per run: the texts given to its session         *)
  received,    (* history, per run: the texts that reached its OnMessage   *)
  taken,       (* history: the owners PreferredPort has had                *)
  refused      (* history: the runs whose server failed on it while free   *)

portVars == <<taken, refused>>

vars == <<build, stage, owner, url, peer, Messages, dispatched, received, portVars>>

(* "channel": V8 is up.  "fallback": the server on the first port failed.  *)
(* "open": the server accepts.  "session": the message channel is built.   *)
Stages == {"off", "channel", "fallback", "open", "session", "script", "loop", "ended"}

(* A text is known by the window it comes from; a predefined one by its run. *)
Text == [from : Runs, number : Nat]

TypeOK ==
  /\ build \in [Runs -> {"websocket", "prebaked"}]
  /\ stage \in [Runs -> Stages]
  /\ owner \in [Ports -> Runs \cup {Other, Nobody}]
  /\ url \in [Runs -> Ports \cup {NoPort}]
  /\ peer \in [Runs -> Runs \cup {Nobody}]
  /\ Messages \in [Runs -> Seq(Text)]
  /\ dispatched \in [Runs -> Seq(Text)]
  /\ received \in [Runs -> Seq(Text)]
  /\ taken \in SUBSET (Runs \cup {Other})
  /\ refused \in SUBSET Runs

Init ==
  /\ build \in [Runs -> {"websocket", "prebaked"}]
  /\ stage = [r \in Runs |-> "off"]
  /\ owner \in [Ports -> {Other, Nobody}]
  /\ url = [r \in Runs |-> NoPort]
  /\ peer = [w \in Runs |-> Nobody]
  /\ Messages = [r \in Runs |-> <<>>]
  /\ dispatched = [r \in Runs |-> <<>>]
  /\ received = [r \in Runs |-> <<>>]
  /\ taken = {owner[PreferredPort]} \ {Nobody}
  /\ refused = {}
-----------------------------------------------------------------------------
queueVars == <<Messages, dispatched, received>>

(* Everything but the stages is left alone. *)
OnlyStage == UNCHANGED <<build, owner, url, peer, queueVars, portVars>>

Alive(r) == stage[r] \notin {"off", "ended"}

Free(p) == owner[p] = Nobody

Goes(r, from, to) == stage[r] = from /\ stage' = [stage EXCEPT ![r] = to]

(* The process ends: its ports are free again, its connections lost. *)
Ends(r) ==
  /\ stage' = [stage EXCEPT ![r] = "ended"]
  /\ owner' = [p \in Ports |-> IF owner[p] = r THEN Nobody ELSE owner[p]]
  /\ peer' = [w \in Runs |-> IF peer[w] = r THEN Nobody ELSE peer[w]]
  /\ UNCHANGED <<build, url, queueVars, portVars>>

(* The constructor of TWebsocketServer: ListenTcp(p), then Start(). *)
Serve(who, p) ==
  /\ owner' = [owner EXCEPT ![p] = who]
  /\ taken' = IF p = PreferredPort THEN taken \cup {who} ELSE taken
  /\ UNCHANGED <<build, url, peer, queueVars, refused>>
-----------------------------------------------------------------------------
(***************************************************************************)
(* The main thread of a run.                                               *)
(***************************************************************************)
(* ICU, start-up data, platform, V8, isolate, context. *)
InitialiseV8(r) ==
  /\ Goes(r, "off", "channel")
  /\ OnlyStage

(* "Failed to load ICU" *)
FailToInitialise(r) == stage[r] = "off" /\ Ends(r)

(* A server on port p fails, whatever the reason: the port is held, or the *)
(* system makes no socket or thread.                                       *)
FailOn(r, p) ==
  /\ refused' = IF p = PreferredPort /\ Free(p) THEN refused \cup {r} ELSE refused
  /\ UNCHANGED <<build, owner, url, peer, queueVars, taken>>

(* A bug: the ports are tried in the other order. *)
ListenOnAnyFirst(r) ==
  /\ build[r] = "websocket"
  /\ \/ Goes(r, "channel", "open") /\ \E p \in AnyPorts : Free(p) /\ Serve(r, p)
     \/ Goes(r, "channel", "fallback") /\ \E p \in AnyPorts : FailOn(r, p)

(* InspectorPorts begins with ListenPort; an exception is only logged. *)
ListenOnPreferred(r) ==
  /\ build[r] = "websocket"
  /\ \/ Goes(r, "channel", "open") /\ Free(PreferredPort) /\ Serve(r, PreferredPort)
     \/ Goes(r, "channel", "fallback") /\ FailOn(r, PreferredPort)

(* InspectorPorts goes on with 0. *)
ListenOnAny(r) ==
  /\ Goes(r, "fallback", "open")
  /\ \E p \in AnyPorts : Free(p) /\ Serve(r, p)

(* A bug: the server is not tested after the loop over the ports. *)
GoOnWithoutServer(r) == Goes(r, "fallback", "open") /\ OnlyStage

(* A bug: the loop over the ports is entered again. *)
TryPortsAgain(r) == Goes(r, "fallback", "channel") /\ OnlyStage

(* 0 fails too: "Failed to open websocket server".  Nobody catches that. *)
FailToListen(r) == stage[r] = "fallback" /\ Ends(r)

(* A bug: the address is made of the port asked for. *)
AskedPort(r) == PreferredPort

(* A bug: the same, when the port asked for is the system's choice. *)
AskedAny(r) == IF owner[PreferredPort] = r THEN PreferredPort ELSE 0

(* GetWebsocketAddress: the port of the server's socket. *)
SocketPort(r) == CHOOSE p \in Ports : owner[p] = r

(* ShellOpenUrl *)
OpenWindow(r) ==
  /\ Goes(r, "open", "session")
  /\ url' = [url EXCEPT ![r] = SocketPort(r)]
  /\ UNCHANGED <<build, owner, peer, queueVars, portVars>>

Predefined(r) == [i \in 1..2 |-> [from |-> r, number |-> i]]

(* TPredefinedMessageChannel queues its two commands in its constructor. *)
QueuePredefined(r) ==
  /\ build[r] = "prebaked"
  /\ Goes(r, "channel", "session")
  /\ Messages' = [Messages EXCEPT ![r] = @ \o Predefined(r)]
  /\ received' = [received EXCEPT ![r] = @ \o Predefined(r)]
  /\ UNCHANGED <<build, owner, url, peer, dispatched, portVars>>

(* A bug: the session starts with an empty queue. *)
ConnectAndClear(r) ==
  /\ Goes(r, "session", "script")
  /\ Messages' = [Messages EXCEPT ![r] = <<>>]
  /\ UNCHANGED <<build, owner, url, peer, dispatched, received, portVars>>

(* gInspector, mChannel, mSession; the server has been accepting for long. *)
ConnectSession(r) ==
  /\ Goes(r, "session", "script")
  /\ OnlyStage

RunHelloWorld(r) ==
  /\ Goes(r, "script", "loop")
  /\ OnlyStage

DispatchMessage(r) ==
  /\ stage[r] = "loop"
  /\ Messages[r] # <<>>
  /\ Messages' = [Messages EXCEPT ![r] = Tail(@)]
  /\ dispatched' = [dispatched EXCEPT ![r] = Append(@, Head(Messages[r]))]
  /\ UNCHANGED <<build, stage, owner, url, peer, received, portVars>>

MainNext(r) ==
  \/ InitialiseV8(r)
  \/ FailToInitialise(r)
  \/ ListenOnPreferred(r)
  \/ ListenOnAny(r)
  \/ FailToListen(r)
  \/ OpenWindow(r)
  \/ QueuePredefined(r)
  \/ ConnectSession(r)
  \/ RunHelloWorld(r)
  \/ DispatchMessage(r)
-----------------------------------------------------------------------------
(***************************************************************************)
(* The surroundings: the user, other programs, the windows.                *)
(***************************************************************************)
Kill(r) == Alive(r) /\ Ends(r)

OtherListens(p) == Free(p) /\ Serve(Other, p) /\ UNCHANGED stage

OtherCloses(p) ==
  /\ owner[p] = Other
  /\ owner' = [owner EXCEPT ![p] = Nobody]
  /\ UNCHANGED <<build, stage, url, peer, queueVars, portVars>>

WindowConnects(w) ==
  /\ url[w] # NoPort
  /\ peer[w] = Nobody
  /\ owner[url[w]] \in Runs
  /\ peer' = [peer EXCEPT ![w] = owner[url[w]]]
  /\ UNCHANGED <<build, stage, owner, url, queueVars, portVars>>

(* A text of window w reaches the OnMessage lambda of run r, which queues  *)
(* it, whatever r's main thread is doing.                                  *)
WindowSends(w) == LET r == peer[w] IN
  /\ r # Nobody
  /\ Len(received[r]) < MaxTexts
  /\ LET text == [from |-> w, number |-> Len(received[r]) + 1]
     IN  /\ received' = [received EXCEPT ![r] = Append(@, text)]
         /\ Messages' = [Messages EXCEPT ![r] = Append(@, text)]
  /\ UNCHANGED <<build, stage, owner, url, peer, dispatched, portVars>>

Surroundings ==
  \/ \E r \in Runs : Kill(r) \/ WindowConnects(r) \/ WindowSends(r)
  \/ \E p \in Ports : OtherListens(p) \/ OtherCloses(p)

Next == (\E r \in Runs : MainNext(r)) \/ Surroundings

Spec == Init /\ [][Next]_vars

(* A run that has begun goes on; nobody has to start, connect or send. *)
FairSpec == Spec /\ \A r \in Runs : WF_vars(Alive(r) /\ MainNext(r))
-----------------------------------------------------------------------------
(* Two runs, or a run and another program, compete for 8008: a run serves  *)
(* on another port only if somebody else has had 8008, or its own server   *)
(* failed on 8008 though it was free.                                      *)
PreferredPortFirst == \A r \in Runs, p \in AnyPorts :
  owner[p] = r => taken \ {r} # {} \/ r \in refused

(* The window a run opens leads to that run for as long as it lives, on    *)
(* whichever port it came to serve, whatever other runs start and end, and *)
(* is connected to no other run meanwhile.  (Afterwards it may be, to the  *)
(* next run that gets its port.)                                           *)
WindowFindsItsRun == \A w \in Runs : Alive(w) =>
  /\ url[w] # NoPort => owner[url[w]] = w
  /\ peer[w] \in {w, Nobody}

(* Nobody goes past the channel's constructor without a server, or with    *)
(* two; what the channel's SendResponse dereferences exists.               *)
OneServer == \A r \in Runs :
  build[r] = "websocket" /\ stage[r] \in {"open", "session", "script", "loop"} =>
    Cardinality({p \in Ports : owner[p] = r}) = 1

(* Texts come as soon as the server listens, before there is a session to  *)
(* give them to: none is lost or overtaken meanwhile.                      *)
EarlyTextsKept == \A r \in Runs : received[r] = dispatched[r] \o Messages[r]

(* They are all given to the session in the end, the two predefined ones   *)
(* too, unless the run ends.                                               *)
TextsReachSession == \A r \in Runs, n \in 1..MaxTexts \cup {2} :
  Len(received[r]) >= n ~> Len(dispatched[r]) >= n \/ stage[r] = "ended"

(* A run that has begun is in its loop in the end, or has ended: it does   *)
(* not wait for a port.                                                    *)
StartsOrEnds == \A r \in Runs :
  stage[r] = "channel" ~> stage[r] \in {"loop", "ended"}
=============================================================================
