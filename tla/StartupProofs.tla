----------------------------- MODULE StartupProofs -----------------------------
(***************************************************************************)
(* What holds of Startup for any number of runs, ports and texts.          *)
(***************************************************************************)
EXTENDS Startup, TLAPS, FiniteSetTheorems

(* A run has one port from the moment it serves, none before and after,    *)
(* and none at all when it is built with predefined commands.              *)
HasServer(r) ==
  build[r] = "websocket" /\ stage[r] \in {"open", "session", "script", "loop"}

OwnerInv == \A r \in Runs :
  /\ HasServer(r) <=> \E p \in Ports : owner[p] = r
  /\ \A p, q \in Ports : owner[p] = r /\ owner[q] = r => p = q
  /\ stage[r] \in {"fallback", "open"} => build[r] = "websocket"

(* A window is opened on the run's port; who is connected is connected to  *)
(* the owner of its url's port.                                            *)
WindowInv == \A w \in Runs :
  /\ stage[w] \in {"off", "channel", "fallback", "open"} => url[w] = NoPort
  /\ url[w] # NoPort /\ Alive(w) => owner[url[w]] = w
  /\ peer[w] # Nobody => url[w] # NoPort /\ owner[url[w]] = peer[w]

(* Who has 8008 has been recorded; when a run fell back somebody else had  *)
(* it, or its server failed on the free port.                              *)
TakenInv ==
  /\ owner[PreferredPort] # Nobody => owner[PreferredPort] \in taken
  /\ \A r \in Runs : stage[r] = "fallback" => taken \ {r} # {} \/ r \in refused

IInv ==
  /\ TypeOK
  /\ OwnerInv
  /\ WindowInv
  /\ TakenInv
  /\ PreferredPortFirst
  /\ EarlyTextsKept
-----------------------------------------------------------------------------
(* The head of the queue moves to the end of what was dispatched, and what *)
(* the run has received is unchanged.                                      *)
LEMMA MoveHead ==
  ASSUME NEW S, NEW s \in Seq(S), NEW t \in Seq(S), t # <<>>
  PROVE  /\ Head(t) \in S /\ Tail(t) \in Seq(S)
         /\ Append(s, Head(t)) \in Seq(S)
         /\ Append(s, Head(t)) \o Tail(t) = s \o t
OBVIOUS

(* A text that arrives joins the queue's end and the end of all received.  *)
LEMMA PushRight ==
  ASSUME NEW S, NEW s \in Seq(S), NEW t \in Seq(S), NEW e \in Seq(S)
  PROVE  s \o (t \o e) = (s \o t) \o e
OBVIOUS

LEMMA AppendIsConcat ==
  ASSUME NEW S, NEW s \in Seq(S), NEW t \in S
  PROVE  Append(s, t) = s \o <<t>>
OBVIOUS

(* While a run is about to open its window it has exactly one port.        *)
LEMMA SocketPortOwned ==
  ASSUME OwnerInv, NEW r \in Runs, stage[r] = "open"
  PROVE  SocketPort(r) \in Ports /\ owner[SocketPort(r)] = r
BY DEF OwnerInv, HasServer, SocketPort

(* Each action keeps the variables in their sets.                          *)
LEMMA TypeStep == TypeOK /\ OwnerInv /\ [Next]_vars => TypeOK'
<1> SUFFICES ASSUME TypeOK, OwnerInv, [Next]_vars PROVE TypeOK'
  OBVIOUS
<1> USE DEF TypeOK, OnlyStage, queueVars, portVars, Goes, Stages
<1>1. ASSUME NEW r \in Runs, Ends(r) PROVE TypeOK'
  BY <1>1 DEF Ends
<1>2. ASSUME NEW who \in Runs \cup {Other}, NEW p \in Ports, Serve(who, p),
             stage' \in [Runs -> Stages]
      PROVE  TypeOK'
  <2>1. taken' \in SUBSET (Runs \cup {Other})
    BY <1>2 DEF Serve
  <2> QED
    BY <1>2, <2>1 DEF Serve
<1>3. ASSUME NEW r \in Runs, MainNext(r) PROVE TypeOK'
  <2>1. CASE InitialiseV8(r)
    BY <2>1 DEF InitialiseV8
  <2>2. CASE FailToInitialise(r) \/ FailToListen(r)
    BY <1>1, <2>2 DEF FailToInitialise, FailToListen
  <2>3. CASE ListenOnPreferred(r)
    BY <1>2, <2>3 DEF ListenOnPreferred, FailOn, Ports
  <2>4. CASE ListenOnAny(r)
    BY <1>2, <2>4 DEF ListenOnAny, Ports
  <2>5. CASE OpenWindow(r)
    BY <2>5, SocketPortOwned DEF OpenWindow
  <2>6. CASE QueuePredefined(r)
    BY <2>6 DEF QueuePredefined, Predefined, Text
  <2>7. CASE ConnectSession(r) \/ RunHelloWorld(r)
    BY <2>7 DEF ConnectSession, RunHelloWorld
  <2>8. CASE DispatchMessage(r)
    BY <2>8, MoveHead DEF DispatchMessage
  <2> QED
    BY <1>3, <2>1, <2>2, <2>3, <2>4, <2>5, <2>6, <2>7, <2>8 DEF MainNext
<1>4. ASSUME NEW r \in Runs, Kill(r) PROVE TypeOK'
  BY <1>1, <1>4 DEF Kill
<1>5. ASSUME NEW w \in Runs, WindowConnects(w) PROVE TypeOK'
  BY <1>5 DEF WindowConnects
<1>6. ASSUME NEW w \in Runs, WindowSends(w) PROVE TypeOK'
  BY <1>6 DEF WindowSends, Text
<1>7. ASSUME NEW p \in Ports, OtherListens(p) PROVE TypeOK'
  BY <1>2, <1>7 DEF OtherListens
<1>8. ASSUME NEW p \in Ports, OtherCloses(p) PROVE TypeOK'
  BY <1>8 DEF OtherCloses
<1>9. CASE UNCHANGED vars
  BY <1>9 DEF vars
<1> QED
  BY <1>3, <1>4, <1>5, <1>6, <1>7, <1>8, <1>9 DEF Next, Surroundings
-----------------------------------------------------------------------------
(***************************************************************************)
(* What an action can do to stages, ports and windows.                     *)
(***************************************************************************)
(* A run goes on without touching a port.                                  *)
Advances(r) ==
  /\ UNCHANGED <<build, owner, peer, taken>> /\ refused \subseteq refused'
  /\ \E to \in Stages : stage' = [stage EXCEPT ![r] = to]
  /\ stage[r] # "ended" /\ Alive(r)'
  /\ HasServer(r)' <=> HasServer(r)
  /\ stage'[r] # "open"
  /\ stage'[r] = "fallback" =>
       /\ build[r] = "websocket" /\ stage[r] = "channel"
       /\ owner[PreferredPort] # Nobody \/ r \in refused'
  /\ \/ UNCHANGED url
     \/ stage[r] = "open" /\ stage'[r] = "session" /\ url' = [url EXCEPT ![r] = SocketPort(r)]
  /\ stage'[r] \in {"channel", "fallback"} => stage[r] \in {"off", "channel"}

(* A run gets its port.                                                    *)
Opens(r, p) ==
  /\ Serve(r, p) /\ Free(p)
  /\ build[r] = "websocket"
  /\ stage' = [stage EXCEPT ![r] = "open"]
  /\ \/ stage[r] = "channel" /\ p = PreferredPort
     \/ stage[r] = "fallback" /\ p \in AnyPorts

(* Every step is of one of these kinds, or leaves stages, ports and        *)
(* windows alone, but for one that connects.                               *)
LEMMA StepKinds ==
  ASSUME TypeOK, OwnerInv, [Next]_vars
  PROVE  \/ \E r \in Runs : Ends(r)
         \/ \E r \in Runs : Advances(r)
         \/ \E r \in Runs, p \in Ports : Opens(r, p)
         \/ \E p \in Ports : OtherListens(p) \/ OtherCloses(p)
         \/ \E w \in Runs : WindowConnects(w)
         \/ UNCHANGED <<build, stage, owner, url, peer, portVars>>
<1>1. ASSUME NEW r \in Runs, MainNext(r)
      PROVE  \/ Ends(r) \/ Advances(r) \/ \E p \in Ports : Opens(r, p)
             \/ UNCHANGED <<build, stage, owner, url, peer, portVars>>
  <2> USE DEF TypeOK, OnlyStage, queueVars, portVars, Goes, Stages, Alive, HasServer
  <2>1. CASE InitialiseV8(r)
    BY <2>1 DEF InitialiseV8, Advances
  <2>2. CASE FailToInitialise(r) \/ FailToListen(r)
    BY <2>2 DEF FailToInitialise, FailToListen
  <2>3. CASE ListenOnPreferred(r)
    <3>1. CASE Goes(r, "channel", "open") /\ Free(PreferredPort) /\ Serve(r, PreferredPort)
      BY <2>3, <3>1 DEF ListenOnPreferred, Opens, Ports
    <3>2. CASE Goes(r, "channel", "fallback") /\ FailOn(r, PreferredPort)
      BY <2>3, <3>2 DEF ListenOnPreferred, FailOn, Advances, Free
    <3> QED
      BY <2>3, <3>1, <3>2 DEF ListenOnPreferred
  <2>4. CASE ListenOnAny(r)
    BY <2>4 DEF ListenOnAny, Opens, Ports, OwnerInv
  <2>5. CASE OpenWindow(r)
    BY <2>5 DEF OpenWindow, Advances
  <2>6. CASE QueuePredefined(r)
    BY <2>6 DEF QueuePredefined, Advances
  <2>7. CASE ConnectSession(r) \/ RunHelloWorld(r)
    BY <2>7 DEF ConnectSession, RunHelloWorld, Advances
  <2>8. CASE DispatchMessage(r)
    BY <2>8 DEF DispatchMessage
  <2> QED
    BY <1>1, <2>1, <2>2, <2>3, <2>4, <2>5, <2>6, <2>7, <2>8 DEF MainNext
<1>2. ASSUME NEW w \in Runs, WindowSends(w)
      PROVE  UNCHANGED <<build, stage, owner, url, peer, portVars>>
  BY <1>2 DEF WindowSends, portVars
<1> QED
  BY <1>1, <1>2 DEF Next, Surroundings, Kill, vars, portVars

LEMMA OwnerStep == TypeOK /\ OwnerInv /\ [Next]_vars => OwnerInv'
<1> SUFFICES ASSUME TypeOK, OwnerInv, [Next]_vars PROVE OwnerInv'
  OBVIOUS
<1> USE RunsAssumption
<1> USE DEF TypeOK, OwnerInv, HasServer
<1>1. ASSUME NEW r \in Runs, Ends(r) PROVE OwnerInv'
  BY <1>1 DEF Ends
<1>2. ASSUME NEW r \in Runs, Advances(r) PROVE OwnerInv'
  BY <1>2 DEF Advances
<1>3. ASSUME NEW r \in Runs, NEW p \in Ports, Opens(r, p) PROVE OwnerInv'
  BY <1>3 DEF Opens, Serve, Free
<1>4. ASSUME NEW p \in Ports, OtherListens(p) \/ OtherCloses(p) PROVE OwnerInv'
  BY <1>4 DEF OtherListens, OtherCloses, Serve, Free
<1>5. ASSUME NEW w \in Runs, WindowConnects(w) PROVE OwnerInv'
  BY <1>5 DEF WindowConnects
<1>6. CASE UNCHANGED <<build, stage, owner, url, peer, portVars>>
  BY <1>6
<1> QED
  BY <1>1, <1>2, <1>3, <1>4, <1>5, <1>6, StepKinds

LEMMA WindowStep == TypeOK /\ OwnerInv /\ WindowInv /\ [Next]_vars => WindowInv'
<1> SUFFICES ASSUME TypeOK, OwnerInv, WindowInv, [Next]_vars PROVE WindowInv'
  OBVIOUS
<1> USE RunsAssumption, PortsAssumption
<1> USE DEF TypeOK, WindowInv, Alive
<1>1. ASSUME NEW r \in Runs, Ends(r) PROVE WindowInv'
  BY <1>1 DEF Ends
<1>2. ASSUME NEW r \in Runs, Advances(r) PROVE WindowInv'
  <2>1. CASE UNCHANGED url
    BY <1>2, <2>1 DEF Advances, Stages
  <2>2. CASE /\ stage[r] = "open" /\ stage'[r] = "session"
             /\ url' = [url EXCEPT ![r] = SocketPort(r)]
    BY <1>2, <2>2, SocketPortOwned DEF Advances, Stages
  <2> QED
    BY <1>2, <2>1, <2>2 DEF Advances
<1>3. ASSUME NEW r \in Runs, NEW p \in Ports, Opens(r, p) PROVE WindowInv'
  BY <1>3 DEF Opens, Serve, Free
<1>4. ASSUME NEW p \in Ports, OtherListens(p) \/ OtherCloses(p) PROVE WindowInv'
  BY <1>4 DEF OtherListens, OtherCloses, Serve, Free
<1>5. ASSUME NEW w \in Runs, WindowConnects(w) PROVE WindowInv'
  BY <1>5 DEF WindowConnects
<1>6. CASE UNCHANGED <<build, stage, owner, url, peer, portVars>>
  BY <1>6
<1> QED
  BY <1>1, <1>2, <1>3, <1>4, <1>5, <1>6, StepKinds

LEMMA TakenStep ==
  ASSUME TypeOK, OwnerInv, TakenInv, PreferredPortFirst, [Next]_vars
  PROVE  TakenInv' /\ PreferredPortFirst'
<1> USE RunsAssumption, PortsAssumption
<1> USE DEF TypeOK, TakenInv, PreferredPortFirst, Ports, portVars
<1>1. ASSUME NEW r \in Runs, Ends(r) PROVE TakenInv' /\ PreferredPortFirst'
  BY <1>1 DEF Ends
<1>2. ASSUME NEW r \in Runs, Advances(r) PROVE TakenInv' /\ PreferredPortFirst'
  <2>1. PreferredPortFirst'
    BY <1>2 DEF Advances
  <2>2. ASSUME stage'[r] = "fallback" PROVE taken \ {r} # {} \/ r \in refused'
    <3>1. owner[PreferredPort] # r
      BY <1>2, <2>2 DEF Advances, OwnerInv, HasServer
    <3> QED
      BY <1>2, <2>2, <3>1 DEF Advances
  <2> QED
    BY <1>2, <2>1, <2>2 DEF Advances
<1>3. ASSUME NEW r \in Runs, NEW p \in Ports, Opens(r, p)
      PROVE  TakenInv' /\ PreferredPortFirst'
  BY <1>3 DEF Opens, Serve, Free
<1>4. ASSUME NEW p \in Ports, OtherListens(p) \/ OtherCloses(p)
      PROVE  TakenInv' /\ PreferredPortFirst'
  BY <1>4 DEF OtherListens, OtherCloses, Serve, Free
<1>5. ASSUME NEW w \in Runs, WindowConnects(w) PROVE TakenInv' /\ PreferredPortFirst'
  BY <1>5 DEF WindowConnects
<1>6. CASE UNCHANGED <<build, stage, owner, url, peer, portVars>>
  BY <1>6
<1> QED
  BY <1>1, <1>2, <1>3, <1>4, <1>5, <1>6, StepKinds
-----------------------------------------------------------------------------
(***************************************************************************)
(* Texts.  Only three actions touch the queues.                            *)
(***************************************************************************)
LEMMA QueueSteps ==
  ASSUME [Next]_vars
  PROVE  \/ \E r \in Runs : DispatchMessage(r) \/ QueuePredefined(r) \/ WindowSends(r)
         \/ UNCHANGED queueVars
<1>1. ASSUME NEW r \in Runs, MainNext(r)
      PROVE  DispatchMessage(r) \/ QueuePredefined(r) \/ UNCHANGED queueVars
  BY <1>1 DEF MainNext, InitialiseV8, FailToInitialise, ListenOnPreferred, FailOn, ListenOnAny,
     FailToListen, OpenWindow, ConnectSession, RunHelloWorld, Serve, Ends, OnlyStage, queueVars
<1> QED
  BY <1>1 DEF Next, Surroundings, Kill, WindowConnects, OtherListens, OtherCloses,
     Serve, Ends, queueVars, vars

(* A sequence of texts that is appended to a run's queue and to all that   *)
(* the run has received keeps the order of texts.                          *)
LEMMA ArrivalKeeps ==
  ASSUME TypeOK, EarlyTextsKept, NEW r \in Runs, NEW e \in Seq(Text),
         Messages' = [Messages EXCEPT ![r] = @ \o e],
         received' = [received EXCEPT ![r] = @ \o e],
         UNCHANGED dispatched
  PROVE  EarlyTextsKept'
<1>1. received'[r] = dispatched'[r] \o Messages'[r]
  <2> DEFINE M == Messages[r]
             D == dispatched[r]
  <2>1. M \in Seq(Text) /\ D \in Seq(Text)
    BY DEF TypeOK
  <2>2. received[r] = D \o M
    BY DEF EarlyTextsKept
  <2>3. /\ Messages'[r] = M \o e /\ dispatched'[r] = D
        /\ received'[r] = received[r] \o e
    BY DEF TypeOK
  <2> HIDE DEF M, D
  <2>4. D \o (M \o e) = (D \o M) \o e
    BY <2>1, PushRight
  <2> QED
    BY <2>2, <2>3, <2>4
<1>2. ASSUME NEW s \in Runs, s # r PROVE received'[s] = dispatched'[s] \o Messages'[s]
  BY <1>2 DEF TypeOK, EarlyTextsKept
<1> QED
  BY <1>1, <1>2 DEF EarlyTextsKept

LEMMA TextsStep == TypeOK /\ EarlyTextsKept /\ [Next]_vars => EarlyTextsKept'
<1> SUFFICES ASSUME TypeOK, EarlyTextsKept, [Next]_vars PROVE EarlyTextsKept'
  OBVIOUS
<1>1. ASSUME NEW r \in Runs, DispatchMessage(r) PROVE EarlyTextsKept'
  <2>1. received'[r] = dispatched'[r] \o Messages'[r]
    <3> DEFINE M == Messages[r]
               D == dispatched[r]
    <3>1. M \in Seq(Text) /\ D \in Seq(Text) /\ M # <<>>
      BY <1>1 DEF TypeOK, DispatchMessage
    <3>2. received[r] = D \o M
      BY DEF EarlyTextsKept
    <3>3. /\ Messages'[r] = Tail(M) /\ dispatched'[r] = Append(D, Head(M))
          /\ received'[r] = received[r]
      BY <1>1 DEF TypeOK, DispatchMessage
    <3> HIDE DEF M, D
    <3> QED
      BY <3>1, <3>2, <3>3, MoveHead
  <2>2. ASSUME NEW s \in Runs, s # r PROVE received'[s] = dispatched'[s] \o Messages'[s]
    BY <1>1, <2>2 DEF TypeOK, EarlyTextsKept, DispatchMessage
  <2> QED
    BY <2>1, <2>2 DEF EarlyTextsKept
<1>2. ASSUME NEW r \in Runs, QueuePredefined(r) PROVE EarlyTextsKept'
  <2>1. Predefined(r) \in Seq(Text)
    BY DEF Predefined, Text
  <2> QED
    BY <1>2, <2>1, ArrivalKeeps DEF QueuePredefined
<1>3. ASSUME NEW w \in Runs, WindowSends(w) PROVE EarlyTextsKept'
  <2> DEFINE r == peer[w]
             text == [from |-> w, number |-> Len(received[r]) + 1]
  <2>1. r \in Runs /\ text \in Text
    BY <1>3 DEF WindowSends, TypeOK, Text
  <2>2. /\ received' = [received EXCEPT ![r] = Append(@, text)]
        /\ Messages' = [Messages EXCEPT ![r] = Append(@, text)]
        /\ UNCHANGED dispatched
    BY <1>3 DEF WindowSends
  <2> HIDE DEF r, text
  <2>3. /\ received' = [received EXCEPT ![r] = @ \o <<text>>]
        /\ Messages' = [Messages EXCEPT ![r] = @ \o <<text>>]
    BY <2>1, <2>2, AppendIsConcat DEF TypeOK
  <2>4. <<text>> \in Seq(Text)
    BY <2>1
  <2> QED
    BY <2>1, <2>2, <2>3, <2>4, ArrivalKeeps
<1>4. CASE UNCHANGED queueVars
  BY <1>4 DEF queueVars, EarlyTextsKept
<1> QED
  BY <1>1, <1>2, <1>3, <1>4, QueueSteps
-----------------------------------------------------------------------------
LEMMA InitIInv == Init => IInv
<1> SUFFICES ASSUME Init PROVE IInv
  OBVIOUS
<1> USE RunsAssumption, PortsAssumption DEF Init
<1>1. TypeOK
  BY DEF TypeOK, Stages, Ports
<1>2. OwnerInv /\ WindowInv
  BY DEF OwnerInv, HasServer, WindowInv, Alive, Ports
<1>3. TakenInv /\ PreferredPortFirst
  BY DEF TakenInv, PreferredPortFirst, Ports
<1>4. EarlyTextsKept
  BY DEF EarlyTextsKept
<1> QED
  BY <1>1, <1>2, <1>3, <1>4 DEF IInv

LEMMA IInvStep == IInv /\ [Next]_vars => IInv'
BY TypeStep, OwnerStep, WindowStep, TakenStep, TextsStep DEF IInv

LEMMA IInvHolds == Spec => []IInv
BY InitIInv, IInvStep, PTL DEF Spec

(* Every variable keeps its type; in particular the window's port is       *)
(* always one of the ports, which the CHOOSE of SocketPort does not give   *)
(* for free: it takes that the run has a server.                           *)
THEOREM TypeCorrect == Spec => []TypeOK
<1>1. IInv => TypeOK
  BY DEF IInv
<1> QED
  BY <1>1, IInvHolds, PTL

(* Listening, 8008 and then any: a run serves on another port only if      *)
(* somebody else has had 8008, or its own server failed on it while free.  *)
THEOREM PreferredPortComesFirst == Spec => []PreferredPortFirst
<1>1. IInv => PreferredPortFirst
  BY DEF IInv
<1> QED
  BY <1>1, IInvHolds, PTL

(* The address that the channel gives to the browser: the window leads to  *)
(* its run and to no other as long as the run lives, for any number of     *)
(* runs that start, end and take over each other's ports.                  *)
THEOREM WindowReachesItsRun == Spec => []WindowFindsItsRun
<1>1. IInv => WindowFindsItsRun
  BY RunsAssumption DEF IInv, WindowInv, WindowFindsItsRun, Alive, TypeOK
<1> QED
  BY <1>1, IInvHolds, PTL

(* Past the channel's constructor there is a server, and only one.         *)
THEOREM ExactlyOneServer == Spec => []OneServer
<1>1. ASSUME IInv PROVE OneServer
  <2> SUFFICES ASSUME NEW r \in Runs, HasServer(r)
               PROVE  Cardinality({p \in Ports : owner[p] = r}) = 1
    BY DEF OneServer, HasServer
  <2>1. PICK p \in Ports : owner[p] = r
    BY <1>1 DEF IInv, OwnerInv
  <2>2. {q \in Ports : owner[q] = r} = {p}
    BY <1>1, <2>1 DEF IInv, OwnerInv
  <2> QED
    BY <2>2, FS_Singleton
<1> QED
  BY <1>1, IInvHolds, PTL

(* OnMessage queues from the moment the server listens: what a run has     *)
(* received is what its session was given and then what still waits, in    *)
(* the order of arrival, for any number of texts.                          *)
THEOREM EarlyTextsAreKept == Spec => []EarlyTextsKept
<1>1. IInv => EarlyTextsKept
  BY DEF IInv
<1> QED
  BY <1>1, IInvHolds, PTL
=============================================================================
