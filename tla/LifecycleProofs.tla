--------------------------- MODULE LifecycleProofs ---------------------------
(***************************************************************************)
(* Proofs about Lifecycle for any number of servers, applications,         *)
(* components, requests and runs.                                          *)
(***************************************************************************)
EXTENDS Lifecycle, TLAPS

BeforeLaunch == {"starting", "appStarting", "raised"}

(* The tasks exist only once everything has started.                       *)
TasksLaunched ==
  /\ phase \in BeforeLaunch => manage = "none"
  /\ \A s \in Servers : server[s] = "none" <=> manage = "none"
  /\ manage \in {"none", "created", "neverRan"} =>
       \A s \in Servers : server[s] \notin Accepting
  /\ manage = "neverRan" => phase \in {"stopping", "closed"}

(* The components of an application before, during and after its start.    *)
StartsAgree ==
  /\ \A a \in Apps, c \in Components : starts[a][c] \in {0, 1}
  /\ \A a \in Apps \ started :
       /\ a \notin handler /\ comps[a] = Components /\ off[a] = {}
       /\ \A c \in Components : starts[a][c] = 0
  /\ \A a \in handler, c \in Components : c \in comps[a] <=> starts[a][c] = 1
  /\ phase = "appStarting" =>
       /\ at \in Servers /\ App \in started \ handler /\ comps[App] = Components
       /\ \A c \in Components :
            IF c \in todo THEN starts[App][c] = 0 /\ c \notin off[App]
                          ELSE starts[App][c] = 1 <=> c \notin off[App]

(* In the first run the applications have started up to the server at      *)
(* which the start is, and all of them after that.                         *)
StartsInOrder ==
  runs = 1 =>
    /\ phase \in {"starting", "appStarting"} =>
         \A s \in Servers : s < at => appOf[s] \in handler
    /\ phase = "starting" => started = handler
    /\ phase = "appStarting" => started = handler \cup {App}
    /\ phase \notin BeforeLaunch => \A s \in Servers : appOf[s] \in handler

(* The stop goes through the servers and the components in order.          *)
StopsInOrder ==
  /\ runs = 1 /\ phase \in BeforeLaunch =>
       \A a \in Apps, c \in Components : stops[a][c] = 0
  /\ runs = 1 => \A a \in Apps, c \in Components : stops[a][c] > 0 => starts[a][c] = 1
  /\ manage = "stopping" =>
       /\ at \in Servers /\ todo \subseteq comps[App]
       /\ \A c \in comps[App] \ todo : stops[App][c] > 0
       /\ \A s \in Servers : s < at => \A c \in comps[appOf[s]] : stops[appOf[s]][c] > 0
  /\ manage \in {"closing", "returned", "resultFailed"} =>
       \A s \in Servers : \A c \in comps[appOf[s]] : stops[appOf[s]][c] > 0

Inv ==
  /\ TypeOK
  /\ TasksLaunched
  /\ StartsAgree
  /\ StartsInOrder
  /\ StopsInOrder
  /\ phase = "closed" => manage \in ManageOver
  /\ SocketsClosed

-----------------------------------------------------------------------------

LEMMA InitInv == Init => Inv
<1> SUFFICES ASSUME Init PROVE Inv
  OBVIOUS
<1> USE LifecycleAssumption DEF Init
<1>1. TypeOK
  <2>1. 1 \in 1 .. NServers + 1 /\ 1 \in 1 .. MaxRuns
    OBVIOUS
  <2>2. starts \in [Apps -> [Components -> Nat]] /\ stops \in [Apps -> [Components -> Nat]]
    OBVIOUS
  <2>3. QED
    BY <2>1, <2>2 DEF TypeOK, Phases, ServerStates, ManageStates
<1>2. TasksLaunched /\ StartsAgree
  BY DEF TasksLaunched, StartsAgree, BeforeLaunch, Accepting
<1>3. StartsInOrder /\ StopsInOrder
  BY DEF StartsInOrder, StopsInOrder, BeforeLaunch, Servers
<1>4. SocketsClosed
  BY DEF SocketsClosed
<1>5. QED
  BY <1>1, <1>2, <1>3, <1>4 DEF Inv

LEMMA RunAgainInv ==
  ASSUME Inv, NEW w \in BOOLEAN, RunAgain(w)
  PROVE  Inv'
<1> USE LifecycleAssumption DEF RunAgain, NewRun
<1>1. runs' \in 1 .. MaxRuns /\ runs' # 1
  BY DEF Inv, TypeOK
<1>2. TypeOK'
  <2>1. 1 \in 1 .. NServers + 1
    OBVIOUS
  <2>2. wait' \in BOOLEAN /\ stopEvent' \in BOOLEAN
    OBVIOUS
  <2>3. QED
    BY <1>1, <2>1, <2>2 DEF Inv, TypeOK, apps, Phases, ServerStates, ManageStates
<1>3. TasksLaunched'
  BY DEF TasksLaunched, Accepting
<1>4. StartsAgree'
  BY DEF Inv, StartsAgree, apps
<1>5. StartsInOrder' /\ StopsInOrder' /\ SocketsClosed'
  BY <1>1 DEF StartsInOrder, StopsInOrder, SocketsClosed
<1>6. QED
  BY <1>2, <1>3, <1>4, <1>5 DEF Inv

LEMMA StartServerInv ==
  ASSUME Inv, StartServer
  PROVE  Inv'
<1> USE LifecycleAssumption
<1>1. /\ phase = "starting" /\ at \in Servers /\ App \in Apps
      /\ UNCHANGED <<config, handler, comps, off, starts, stops, loop>>
  BY DEF StartServer, Inv, TypeOK, App, Servers
<1>2. manage = "none"
  BY <1>1 DEF Inv, TasksLaunched, BeforeLaunch
<1>3. CASE App \in started /\ at' = at + 1 /\ UNCHANGED <<phase, todo, started>>
  <2>1. TypeOK'
    BY <1>1, <1>3 DEF Inv, TypeOK, config, loop, Servers
  <2>2. TasksLaunched' /\ StartsAgree' /\ SocketsClosed' /\ StopsInOrder'
    BY <1>1, <1>2, <1>3 DEF Inv, TasksLaunched, StartsAgree, SocketsClosed, StopsInOrder, config, loop
  <2>3. StartsInOrder'
    BY <1>1, <1>3 DEF Inv, TypeOK, StartsInOrder, config, App, Servers
  <2>4. QED
    BY <1>1, <1>3, <2>1, <2>2, <2>3 DEF Inv
<1>4. CASE /\ App \notin started /\ started' = started \cup {App}
           /\ phase' = "appStarting" /\ todo' = comps[App] /\ UNCHANGED at
  <2>1. comps[App] = Components /\ off[App] = {} /\ App \notin handler
    BY <1>1, <1>4 DEF Inv, StartsAgree
  <2>2. App' = App
    BY <1>1, <1>4 DEF App, config
  <2>3. TypeOK'
    BY <1>1, <1>4, <2>1 DEF Inv, TypeOK, config, loop, Phases
  <2>4. TasksLaunched' /\ SocketsClosed'
    BY <1>1, <1>2, <1>4 DEF Inv, TasksLaunched, SocketsClosed, BeforeLaunch, loop
  <2>5. StartsAgree'
    BY <1>1, <1>4, <2>1, <2>2 DEF Inv, StartsAgree
  <2>6. StartsInOrder' /\ StopsInOrder'
    BY <1>1, <1>2, <1>4, <2>2 DEF Inv, StartsInOrder, StopsInOrder, BeforeLaunch, config, loop
  <2>7. QED
    BY <1>4, <2>3, <2>4, <2>5, <2>6 DEF Inv
<1>5. QED
  BY <1>3, <1>4 DEF StartServer

LEMMA StartComponentInv ==
  ASSUME Inv, NEW end, StartComponent(end)
  PROVE  Inv'
<1> USE LifecycleAssumption
<1>1. PICK c \in todo :
        \/ /\ starts' = Counted(starts, App, c) /\ todo' = todo \ {c}
           /\ UNCHANGED <<phase, off>>
        \/ /\ off' = [off EXCEPT ![App] = @ \cup {c}] /\ todo' = todo \ {c}
           /\ UNCHANGED <<phase, starts>>
        \/ /\ phase' = "raised" /\ UNCHANGED <<todo, off, starts>>
  BY DEF StartComponent
<1>2. /\ phase = "appStarting" /\ manage = "none"
      /\ UNCHANGED <<config, at, started, handler, comps, stops, loop>>
  BY DEF StartComponent, Inv, TasksLaunched, BeforeLaunch
<1>3. /\ App \in Apps /\ App \in started /\ App \notin handler /\ comps[App] = Components
      /\ starts[App][c] = 0 /\ c \notin off[App] /\ c \in Components /\ at \in Servers
  BY <1>2 DEF Inv, TypeOK, StartsAgree
<1>4. App' = App
  BY <1>2 DEF App, config
<1>5. phase' \in BeforeLaunch /\ manage' = "none"
  BY <1>1, <1>2 DEF BeforeLaunch, loop
<1>6. TasksLaunched' /\ SocketsClosed'
  BY <1>2, <1>5 DEF Inv, TasksLaunched, SocketsClosed, BeforeLaunch, loop
<1>7. StartsInOrder'
  BY <1>1, <1>2, <1>4 DEF Inv, StartsInOrder, BeforeLaunch, config
<1>8. CASE /\ starts' = Counted(starts, App, c) /\ todo' = todo \ {c}
           /\ UNCHANGED <<phase, off>>
  <2>1. /\ starts' = [starts EXCEPT ![App] = starts'[App]]
        /\ starts'[App] = [starts[App] EXCEPT ![c] = 1]
    BY <1>3, <1>8 DEF Counted, Inv, TypeOK
  <2>2. TypeOK'
    <3>1. starts'[App] \in [Components -> Nat]
      BY <1>3, <2>1 DEF Inv, TypeOK
    <3>2. starts' \in [Apps -> [Components -> Nat]]
      BY <1>3, <2>1, <3>1 DEF Inv, TypeOK
    <3>3. QED
      BY <1>2, <1>3, <1>8, <3>2 DEF Inv, TypeOK, config, loop
  <2>3. StartsAgree'
    <3>1. \A a \in Apps : a # App => starts'[a] = starts[a]
      BY <2>1, <1>3 DEF Inv, TypeOK
    <3>2. \A a \in Apps, d \in Components : starts'[a][d] \in {0, 1}
      <4>1. SUFFICES ASSUME NEW a \in Apps, NEW d \in Components
                     PROVE  starts'[a][d] \in {0, 1}
        OBVIOUS
      <4>2. starts[a][d] \in {0, 1} /\ starts[a] \in [Components -> Nat]
        BY DEF Inv, TypeOK, StartsAgree
      <4>3. CASE a = App
        BY <2>1, <4>2, <4>3
      <4>4. CASE a # App
        BY <3>1, <4>2, <4>4
      <4>5. QED
        BY <4>3, <4>4
    <3>3. \A d \in Components :
            IF d \in todo' THEN starts'[App][d] = 0 /\ d \notin off[App]
                           ELSE starts'[App][d] = 1 <=> d \notin off[App]
      BY <1>2, <1>3, <1>8, <2>1 DEF Inv, TypeOK, StartsAgree
    <3>4. \A a \in Apps \ started :
            /\ a \notin handler /\ comps[a] = Components /\ off[a] = {}
            /\ \A d \in Components : starts'[a][d] = 0
      BY <1>3, <3>1 DEF Inv, StartsAgree
    <3>5. \A a \in handler, d \in Components : d \in comps[a] <=> starts'[a][d] = 1
      <4>1. SUFFICES ASSUME NEW a \in handler, NEW d \in Components
                     PROVE  d \in comps[a] <=> starts'[a][d] = 1
        OBVIOUS
      <4>2. a \in Apps /\ a # App /\ starts'[a] = starts[a]
        BY <1>3, <3>1 DEF Inv, TypeOK
      <4>3. QED
        BY <4>2 DEF Inv, StartsAgree
    <3>6. QED
      BY <1>2, <1>3, <1>4, <1>8, <3>2, <3>3, <3>4, <3>5 DEF StartsAgree
  <2>4. StopsInOrder'
    BY <1>2, <1>5 DEF Inv, TypeOK, StopsInOrder, BeforeLaunch, config
  <2>5. QED
    BY <1>2, <1>6, <1>7, <1>8, <2>2, <2>3, <2>4 DEF Inv
<1>9. CASE /\ off' = [off EXCEPT ![App] = @ \cup {c}] /\ todo' = todo \ {c}
           /\ UNCHANGED <<phase, starts>>
  <2>1. TypeOK'
    BY <1>2, <1>3, <1>9 DEF Inv, TypeOK, config, loop
  <2>2. StartsAgree'
    BY <1>2, <1>3, <1>4, <1>9 DEF Inv, TypeOK, StartsAgree
  <2>3. StopsInOrder'
    BY <1>2, <1>5, <1>9 DEF Inv, StopsInOrder, config
  <2>4. QED
    BY <1>2, <1>6, <1>7, <1>9, <2>1, <2>2, <2>3 DEF Inv
<1>10. CASE phase' = "raised" /\ UNCHANGED <<todo, off, starts>>
  <2>1. TypeOK'
    BY <1>2, <1>10 DEF Inv, TypeOK, config, loop, Phases
  <2>2. StartsAgree' /\ StopsInOrder'
    BY <1>2, <1>5, <1>10 DEF Inv, StartsAgree, StopsInOrder, BeforeLaunch, config
  <2>3. QED
    BY <1>6, <1>7, <1>10, <2>1, <2>2 DEF Inv
<1>11. QED
  BY <1>1, <1>8, <1>9, <1>10

LEMMA AppStartedInv ==
  ASSUME Inv, AppStarted
  PROVE  Inv'
<1> USE LifecycleAssumption
<1>1. /\ phase = "appStarting" /\ todo = {} /\ phase' = "starting" /\ at' = at + 1
      /\ comps' = [comps EXCEPT ![App] = @ \ off[App]] /\ handler' = handler \cup {App}
      /\ UNCHANGED <<config, todo, started, off, starts, stops, loop>>
  BY DEF AppStarted
<1>2. /\ manage = "none" /\ at \in Servers /\ App \in Apps
      /\ App \in started /\ comps[App] = Components
      /\ \A c \in Components : starts[App][c] = 1 <=> c \notin off[App]
  BY <1>1 DEF Inv, TypeOK, TasksLaunched, BeforeLaunch, StartsAgree
<1>3. TypeOK'
  BY <1>1, <1>2 DEF Inv, TypeOK, config, loop, Phases, Servers
<1>4. TasksLaunched' /\ SocketsClosed'
  BY <1>1, <1>2 DEF Inv, TasksLaunched, SocketsClosed, BeforeLaunch, loop
<1>5. StartsAgree'
  BY <1>1, <1>2 DEF Inv, TypeOK, StartsAgree
<1>6. StartsInOrder'
  <2>1. SUFFICES ASSUME runs = 1, NEW s \in Servers, s < at + 1
                 PROVE  started = handler \cup {App} /\ appOf[s] \in handler \cup {App}
    BY <1>1, <1>2 DEF StartsInOrder, BeforeLaunch, config, Servers
  <2>2. s < at \/ s = at
    BY <1>2, <2>1 DEF Servers
  <2>3. QED
    BY <1>1, <2>1, <2>2 DEF Inv, StartsInOrder, App
<1>7. StopsInOrder'
  BY <1>1, <1>2 DEF Inv, StopsInOrder, BeforeLaunch, config, loop
<1>8. QED
  BY <1>1, <1>3, <1>4, <1>5, <1>6, <1>7 DEF Inv

LEMMA LaunchInv ==
  ASSUME Inv, Launch
  PROVE  Inv'
<1> USE LifecycleAssumption DEF Launch
<1>1. TypeOK'
  BY DEF Inv, TypeOK, config, apps, Phases, ServerStates, Pending, ManageStates, Servers
<1>2. TasksLaunched' /\ SocketsClosed'
  BY DEF TasksLaunched, SocketsClosed, BeforeLaunch, Accepting
<1>3. StartsAgree'
  BY DEF Inv, StartsAgree, apps
<1>4. StartsInOrder'
  BY DEF Inv, TypeOK, StartsInOrder, BeforeLaunch, config, apps, Servers
<1>5. StopsInOrder'
  BY DEF Inv, StopsInOrder, BeforeLaunch, config, apps
<1>6. QED
  BY <1>1, <1>2, <1>3, <1>4, <1>5 DEF Inv

-----------------------------------------------------------------------------
(* The event loop.                                                         *)

LEMMA AppsKept ==
  ASSUME Inv, UNCHANGED <<config, started, handler, comps, off, starts>>,
         phase \notin BeforeLaunch, phase' \notin BeforeLaunch
  PROVE  StartsAgree' /\ StartsInOrder'
<1>1. StartsAgree'
  BY DEF Inv, StartsAgree, BeforeLaunch
<1>2. StartsInOrder'
  BY DEF Inv, StartsInOrder, BeforeLaunch, config
<1>3. QED
  BY <1>1, <1>2

LEMMA StopsKept ==
  ASSUME Inv, UNCHANGED <<config, at, todo, comps, starts, stops>>,
         phase' \notin BeforeLaunch,
         \/ manage' = manage
         \/ manage' \notin {"stopping", "closing", "returned", "resultFailed"}
  PROVE  StopsInOrder'
<1>1. App' = App
  BY DEF App, config
<1>2. QED
  BY <1>1 DEF Inv, StopsInOrder, config

LEMMA LoopRunning ==
  ASSUME LoopRuns
  PROVE  phase \notin BeforeLaunch /\ phase # "closed"
BY DEF LoopRuns, BeforeLaunch

LEMMA ServerBeginsInv ==
  ASSUME Inv, NEW s \in Servers, ServerBegins(s)
  PROVE  Inv'
<1>1. PICK new \in {"cancelled", "binding"} :
        /\ server[s] = "created" /\ server' = [server EXCEPT ![s] = new]
        /\ UNCHANGED <<config, phase, at, todo, apps, stopEvent, manage,
                       connected, request, awaited>>
  BY DEF ServerBegins
<1>2. phase \notin BeforeLaunch
  BY LoopRunning DEF ServerBegins
<1>3. TypeOK'
  BY <1>1 DEF Inv, TypeOK, config, apps, ServerStates, Pending
<1>4. TasksLaunched' /\ SocketsClosed'
  BY <1>1 DEF Inv, TypeOK, TasksLaunched, SocketsClosed, Accepting
<1>5. StartsAgree' /\ StartsInOrder' /\ StopsInOrder'
  BY <1>1, <1>2, AppsKept, StopsKept DEF apps
<1>6. QED
  BY <1>1, <1>3, <1>4, <1>5 DEF Inv

LEMMA ServerEndsInv ==
  ASSUME Inv, NEW s \in Servers, NEW end, ServerEnds(s, end)
  PROVE  Inv'
<1>1. /\ server[s] = "binding" /\ server' = [server EXCEPT ![s] = end]
      /\ manage # "created"
      /\ end \in {"listening", "leaked", "failed"}
      /\ UNCHANGED <<config, phase, at, todo, apps, manage, connected, request, awaited>>
  BY DEF ServerEnds, Got, CreateServer
<1>2. phase \notin BeforeLaunch
  BY LoopRunning DEF ServerEnds
<1>3. stopEvent' \in BOOLEAN
  BY DEF ServerEnds, Got, Inv, TypeOK
<1>4. manage = "neverRan" => end = "failed"
  BY DEF Inv, TasksLaunched, ServerEnds, LoopRuns, Cancelling, Got, CreateServer
<1>5. TypeOK'
  BY <1>1, <1>3 DEF Inv, TypeOK, config, apps, ServerStates, Accepting
<1>6. TasksLaunched' /\ SocketsClosed'
  BY <1>1, <1>4 DEF Inv, TypeOK, TasksLaunched, SocketsClosed, Accepting
<1>7. StartsAgree' /\ StartsInOrder' /\ StopsInOrder'
  BY <1>1, <1>2, AppsKept, StopsKept DEF apps
<1>8. QED
  BY <1>1, <1>5, <1>6, <1>7 DEF Inv

(* The steps of requests and of whoever sets the event.                    *)
LEMMA OutsideInv ==
  ASSUME Inv,
         \/ StopRequested
         \/ \E r \in Requests : Answer(r) \/ \E s \in Servers : Receive(r, s)
  PROVE  Inv'
<1>1. /\ UNCHANGED <<config, phase, at, todo, apps, server, manage, awaited>>
      /\ phase \notin BeforeLaunch
  BY LoopRunning DEF StopRequested, Answer, Receive
<1>2. /\ stopEvent' \in BOOLEAN /\ connected' \in SUBSET Servers
      /\ request' \in [Requests -> {"none", "running", "over"}]
  BY DEF StopRequested, Answer, Receive, Inv, TypeOK
<1>3. TypeOK'
  BY <1>1, <1>2 DEF Inv, TypeOK, config, apps
<1>4. TasksLaunched' /\ SocketsClosed'
  BY <1>1 DEF Inv, TasksLaunched, SocketsClosed
<1>5. StartsAgree' /\ StartsInOrder' /\ StopsInOrder'
  BY <1>1, AppsKept, StopsKept DEF apps
<1>6. QED
  BY <1>1, <1>3, <1>4, <1>5 DEF Inv

LEMMA ManageBeginsInv ==
  ASSUME Inv, ManageBegins
  PROVE  Inv'
<1>1. /\ manage = "created" /\ manage' \in {"neverRan", "waiting"}
      /\ manage' = "neverRan" => phase = "stopping"
      /\ UNCHANGED <<config, phase, at, todo, apps, server, stopEvent, connected,
                     request, awaited>>
      /\ phase \notin BeforeLaunch /\ phase # "closed"
  BY LoopRunning DEF ManageBegins, Cancelling
<1>2. TypeOK'
  BY <1>1 DEF Inv, TypeOK, config, apps, ManageStates, ManageOver
<1>3. TasksLaunched' /\ SocketsClosed'
  BY <1>1 DEF Inv, TasksLaunched, SocketsClosed
<1>4. StartsAgree' /\ StartsInOrder' /\ StopsInOrder'
  BY <1>1, AppsKept, StopsKept DEF apps
<1>5. QED
  BY <1>1, <1>2, <1>3, <1>4 DEF Inv

LEMMA ManageWakesInv ==
  ASSUME Inv, ManageWakes
  PROVE  Inv'
<1> USE LifecycleAssumption
<1>1. /\ manage = "waiting" /\ manage' = "stopping" /\ at' = 1 /\ todo' = comps[appOf[1]]
      /\ UNCHANGED <<config, phase, apps, server, stopEvent, connected, request, awaited>>
      /\ phase \notin BeforeLaunch /\ phase # "closed"
  BY LoopRunning DEF ManageWakes, Woken
<1>2. 1 \in Servers /\ 1 \in 1 .. NServers + 1 /\ \A s \in Servers : ~(s < 1)
  BY DEF Servers
<1>3. TypeOK'
  BY <1>1, <1>2 DEF Inv, TypeOK, config, apps, ManageStates
<1>4. TasksLaunched' /\ SocketsClosed'
  BY <1>1 DEF Inv, TasksLaunched, SocketsClosed
<1>5. StartsAgree' /\ StartsInOrder'
  BY <1>1, AppsKept DEF apps
<1>6. App' = appOf[1]
  BY <1>1 DEF App, config
<1>7. StopsInOrder'
  BY <1>1, <1>2, <1>6 DEF Inv, StopsInOrder, config, apps
<1>8. QED
  BY <1>1, <1>3, <1>4, <1>5, <1>7 DEF Inv

LEMMA StopComponentInv ==
  ASSUME Inv, NEW ok \in BOOLEAN, StopComponent(ok)
  PROVE  Inv'
<1> USE LifecycleAssumption
<1>1. /\ manage = "stopping" /\ phase \notin BeforeLaunch /\ phase # "closed"
      /\ UNCHANGED <<config, phase, at, started, handler, comps, off, starts,
                     server, stopEvent, connected, request, awaited>>
  BY LoopRunning DEF StopComponent
<1>2. StartsAgree' /\ StartsInOrder'
  BY <1>1, AppsKept
<1>3. PICK c \in todo :
        /\ stops' = IF ok THEN Counted(stops, App, c) ELSE stops
        /\ todo' = IF ok THEN todo \ {c} ELSE todo
        /\ manage' = IF ok THEN manage ELSE "stopFailed"
  BY DEF StopComponent
<1>4. TasksLaunched' /\ SocketsClosed'
  BY <1>1, <1>3 DEF Inv, TasksLaunched, SocketsClosed
<1>5. CASE ~ok
  <2>1. TypeOK'
    BY <1>1, <1>3, <1>5 DEF Inv, TypeOK, config, ManageStates, ManageOver
  <2>2. StopsInOrder'
    BY <1>1, <1>3, <1>5, StopsKept
  <2>3. QED
    BY <1>1, <1>2, <1>4, <2>1, <2>2 DEF Inv
<1>6. CASE ok
  <2>1. /\ App \in Apps /\ at \in Servers /\ c \in comps[App] /\ c \in Components
        /\ todo \subseteq comps[App] /\ App' = App
    BY <1>1 DEF Inv, TypeOK, StopsInOrder, App, config
  <2>2. /\ stops' = [stops EXCEPT ![App] = stops'[App]]
        /\ stops'[App] = [stops[App] EXCEPT ![c] = stops[App][c] + 1]
        /\ stops[App] \in [Components -> Nat]
    BY <1>3, <1>6, <2>1 DEF Counted, Inv, TypeOK
  <2>3. stops'[App] \in [Components -> Nat] /\ stops'[App][c] > 0
    BY <2>1, <2>2
  <2>4. TypeOK'
    <3>1. stops' \in [Apps -> [Components -> Nat]]
      BY <2>1, <2>2, <2>3 DEF Inv, TypeOK
    <3>2. QED
      BY <1>1, <1>3, <1>6, <3>1 DEF Inv, TypeOK, config
  <2>5. \A a \in Apps, d \in Components :
          stops'[a][d] > 0 <=> stops[a][d] > 0 \/ (a = App /\ d = c)
    <3>1. SUFFICES ASSUME NEW a \in Apps, NEW d \in Components
                   PROVE  stops'[a][d] > 0 <=> stops[a][d] > 0 \/ (a = App /\ d = c)
      OBVIOUS
    <3>2. CASE a # App
      BY <2>1, <2>2, <3>2 DEF Inv, TypeOK
    <3>3. CASE a = App /\ d # c
      BY <2>2, <3>3
    <3>4. CASE a = App /\ d = c
      BY <2>3, <3>4
    <3>5. QED
      BY <3>2, <3>3, <3>4
  <2>6. runs = 1 => starts[App][c] = 1
    BY <1>1, <2>1 DEF Inv, StartsInOrder, StartsAgree, App
  <2>7. \A s \in Servers : appOf[s] \in Apps /\ comps[appOf[s]] \subseteq Components
    BY DEF Inv, TypeOK
  <2>8. \A d \in comps[App] \ todo' : stops'[App][d] > 0
    BY <1>1, <1>3, <1>6, <2>1, <2>5 DEF Inv, TypeOK, StopsInOrder
  <2>9. \A s \in Servers : s < at => \A d \in comps[appOf[s]] : stops'[appOf[s]][d] > 0
    BY <1>1, <2>5, <2>7 DEF Inv, StopsInOrder
  <2>10. runs = 1 => \A a \in Apps, d \in Components : stops'[a][d] > 0 => starts[a][d] = 1
    BY <2>5, <2>6 DEF Inv, StopsInOrder
  <2>11. StopsInOrder'
    BY <1>1, <1>3, <1>6, <2>1, <2>8, <2>9, <2>10 DEF StopsInOrder, config
  <2>12. QED
    BY <1>1, <1>2, <1>4, <2>4, <2>11 DEF Inv
<1>7. QED
  BY <1>5, <1>6

LEMMA AppStoppedInv ==
  ASSUME Inv, AppStopped
  PROVE  Inv'
<1> USE LifecycleAssumption
<1>1. /\ manage = "stopping" /\ todo = {} /\ phase \notin BeforeLaunch /\ phase # "closed"
      /\ UNCHANGED <<config, phase, apps, server, stopEvent, connected, request, awaited>>
      /\ \/ /\ at < NServers /\ at' = at + 1 /\ todo' = comps[appOf[at + 1]]
            /\ manage' = manage
         \/ ~(at < NServers) /\ manage' = "closing" /\ UNCHANGED <<at, todo>>
  BY LoopRunning DEF AppStopped
<1>2. StartsAgree' /\ StartsInOrder'
  BY <1>1, AppsKept DEF apps
<1>3. TasksLaunched' /\ SocketsClosed'
  BY <1>1 DEF Inv, TasksLaunched, SocketsClosed
<1>4. /\ at \in Servers
      /\ \A s \in Servers : s <= at => \A c \in comps[appOf[s]] : stops[appOf[s]][c] > 0
  <2>1. at \in Servers /\ \A c \in comps[App] : stops[App][c] > 0
    BY <1>1 DEF Inv, StopsInOrder
  <2>2. \A s \in Servers : s <= at => s < at \/ s = at
    BY <2>1 DEF Servers
  <2>3. QED
    BY <1>1, <2>1, <2>2 DEF Inv, StopsInOrder, App
<1>5. CASE at < NServers /\ at' = at + 1 /\ todo' = comps[appOf[at + 1]] /\ manage' = manage
  <2>1. at' \in Servers /\ at' \in 1 .. NServers + 1 /\ \A s \in Servers : s < at' => s <= at
    BY <1>4, <1>5 DEF Servers
  <2>2. TypeOK'
    BY <1>1, <1>5, <2>1 DEF Inv, TypeOK, config, apps
  <2>3. App' = appOf[at'] /\ todo' = comps[appOf[at']]
    BY <1>1, <1>5 DEF App, config
  <2>4. StopsInOrder'
    BY <1>1, <1>4, <1>5, <2>1, <2>3 DEF Inv, StopsInOrder, config, apps
  <2>5. QED
    BY <1>1, <1>2, <1>3, <2>2, <2>4 DEF Inv
<1>6. CASE ~(at < NServers) /\ manage' = "closing" /\ UNCHANGED <<at, todo>>
  <2>1. \A s \in Servers : s <= at
    BY <1>4, <1>6 DEF Servers
  <2>2. TypeOK'
    BY <1>1, <1>6 DEF Inv, TypeOK, config, apps, ManageStates
  <2>3. StopsInOrder'
    BY <1>1, <1>4, <1>6, <2>1 DEF Inv, StopsInOrder, config, apps
  <2>4. QED
    BY <1>1, <1>2, <1>3, <2>2, <2>3 DEF Inv
<1>7. QED
  BY <1>1, <1>5, <1>6

LEMMA CloseServersInv ==
  ASSUME Inv, CloseServers
  PROVE  Inv'
<1> DEFINE pending == {s \in Servers : server[s] \in Pending}
<1>1. /\ manage = "closing" /\ phase \notin BeforeLaunch /\ phase # "closed"
      /\ UNCHANGED <<config, phase, at, todo, apps, stopEvent, connected, request, awaited>>
      /\ server' = [s \in Servers |->
                      IF server[s] = "listening" /\ \A t \in pending : s < t
                      THEN "closed" ELSE server[s]]
      /\ manage' = IF pending = {} THEN "returned" ELSE "resultFailed"
  BY LoopRunning DEF CloseServers, Closed
<1>2. TypeOK'
  BY <1>1 DEF Inv, TypeOK, config, apps, ServerStates, ManageStates, ManageOver
<1>3. TasksLaunched'
  BY <1>1 DEF Inv, TasksLaunched
<1>4. SocketsClosed'
  <2>1. SUFFICES ASSUME pending = {}, NEW s \in Servers
                 PROVE  server'[s] \in {"failed", "leaked", "closed"}
    BY <1>1 DEF SocketsClosed
  <2>2. server[s] \in ServerStates /\ server[s] # "none" /\ server[s] \notin Pending
    BY <1>1, <2>1 DEF Inv, TypeOK, TasksLaunched
  <2>3. QED
    BY <1>1, <2>1, <2>2 DEF ServerStates, Accepting
<1>5. StartsAgree' /\ StartsInOrder'
  BY <1>1, AppsKept DEF apps
<1>6. StopsInOrder'
  BY <1>1 DEF Inv, StopsInOrder, config, apps
<1>7. QED
  BY <1>1, <1>2, <1>3, <1>4, <1>5, <1>6 DEF Inv

LEMMA EndOfRunInv ==
  ASSUME Inv, Stop \/ CloseLoop
  PROVE  Inv'
<1>1. /\ phase \in {"running", "stopping"} /\ phase' \in {"stopping", "closed"}
      /\ phase' = "closed" => manage \in ManageOver
      /\ UNCHANGED <<config, at, todo, apps, server, manage, connected, request>>
      /\ stopEvent' \in BOOLEAN /\ awaited' \in SUBSET Requests
  BY DEF Stop, CloseLoop, Inv, TypeOK, loop
<1>2. TypeOK'
  BY <1>1 DEF Inv, TypeOK, config, apps, Phases
<1>3. TasksLaunched' /\ SocketsClosed'
  BY <1>1 DEF Inv, TasksLaunched, SocketsClosed, BeforeLaunch
<1>4. StartsAgree' /\ StartsInOrder' /\ StopsInOrder'
  BY <1>1, AppsKept, StopsKept DEF apps, BeforeLaunch
<1>5. QED
  BY <1>1, <1>2, <1>3, <1>4 DEF Inv

LEMMA StepInv == Inv /\ [Next]_vars => Inv'
<1> SUFFICES ASSUME Inv, [Next]_vars PROVE Inv'
  OBVIOUS
<1>1. CASE UNCHANGED vars
  <2>1. UNCHANGED <<appOf, wait, runs, phase, at, todo, started, handler, comps, off,
                    starts, stops, server, stopEvent, manage, connected, request, awaited>>
    BY <1>1 DEF vars, config, apps, loop
  <2>2. TypeOK' /\ TasksLaunched' /\ SocketsClosed'
    BY <2>1 DEF Inv, TypeOK, TasksLaunched, SocketsClosed
  <2>3. App' = App
    BY <2>1 DEF App
  <2>4. StartsAgree' /\ StartsInOrder' /\ StopsInOrder'
    BY <2>1, <2>3 DEF Inv, StartsAgree, StartsInOrder, StopsInOrder
  <2>5. QED
    BY <2>1, <2>2, <2>4 DEF Inv
<1>2. ASSUME NEW w \in BOOLEAN, RunAgain(w) PROVE Inv'
  BY <1>2, RunAgainInv
<1>3. ASSUME NEW end, StartComponent(end) PROVE Inv'
  BY <1>3, StartComponentInv
<1>4. CASE StartServer \/ AppStarted \/ Launch
  BY <1>4, StartServerInv, AppStartedInv, LaunchInv
<1>5. ASSUME NEW s \in Servers, ServerBegins(s) \/ \E end \in ServerStates : ServerEnds(s, end)
      PROVE  Inv'
  BY <1>5, ServerBeginsInv, ServerEndsInv
<1>6. CASE StopRequested \/ \E r \in Requests : Answer(r) \/ \E s \in Servers : Receive(r, s)
  BY <1>6, OutsideInv
<1>7. ASSUME NEW ok \in BOOLEAN, StopComponent(ok) PROVE Inv'
  BY <1>7, StopComponentInv
<1>8. CASE ManageBegins \/ ManageWakes \/ AppStopped \/ CloseServers
  BY <1>8, ManageBeginsInv, ManageWakesInv, AppStoppedInv, CloseServersInv
<1>9. CASE Finish \/ Interrupt \/ CloseLoop
  BY <1>9, EndOfRunInv DEF Finish, Interrupt
<1>10. QED
  BY <1>1, <1>2, <1>3, <1>4, <1>5, <1>6, <1>7, <1>8, <1>9 DEF Next, Over

(* The starts of the applications, the tasks of the loop and the stops     *)
(* agree in every reachable state (server.py:81-123, app.py:55-74).        *)
THEOREM Invariance == Spec => []Inv
BY InitInv, StepInv, PTL DEF Spec

(* Every variable keeps its type; get_task ends with a server or None and  *)
(* never with an exception once it has begun (server.py:67-72).            *)
THEOREM TypeCorrect == Spec => []TypeOK
<1>1. Inv => TypeOK
  BY DEF Inv
<1>2. QED
  BY <1>1, Invariance, PTL

(* However many servers share an application, and however often run is     *)
(* called, no component starts twice (app.py:55-62).                       *)
THEOREM ComponentsStartOnce == Spec => []StartedOnce
<1>1. Inv => StartedOnce
  BY DEF Inv, StartsAgree, StartedOnce
<1>2. QED
  BY <1>1, Invariance, PTL

(* In the first run no server accepts a connection before its application's*)
(* handler is built and its components have started (server.py:101-110,    *)
(* app.py:55-68).                                                          *)
THEOREM ServersStartLast == Spec => []ServeReady
<1>1. Inv => ServeReady
  <2> SUFFICES ASSUME Inv, runs = 1, NEW s \in Servers, server[s] \in Accepting
               PROVE  /\ appOf[s] \in handler
                      /\ \A c \in comps[appOf[s]] : starts[appOf[s]][c] = 1
    BY DEF ServeReady
  <2>1. phase \notin BeforeLaunch
    BY DEF Inv, TasksLaunched, Accepting
  <2>2. appOf[s] \in handler
    BY <2>1 DEF Inv, StartsInOrder
  <2>3. comps[appOf[s]] \subseteq Components
    BY DEF Inv, TypeOK
  <2>4. QED
    BY <2>2, <2>3 DEF Inv, StartsAgree
<1>2. QED
  BY <1>1, Invariance, PTL

(* In the first run a component that is disabled, or whose application did *)
(* not get to it, is never stopped (app.py:59-66, 70-74).                  *)
THEOREM OnlyStartedStop == Spec => []StoppedWereStarted
<1>1. Inv => StoppedWereStarted
  BY DEF Inv, StopsInOrder, StoppedWereStarted
<1>2. QED
  BY <1>1, Invariance, PTL

(* When the first run has closed its loop, every component in use has been *)
(* stopped unless one raised, or no server ever listened                   *)
(* (server.py:81-87, 117-123).                                             *)
THEOREM StopsAreComplete == Spec => []GracefulStop
<1>1. Inv => GracefulStop
  BY DEF Inv, TasksLaunched, StopsInOrder, GracefulStop, ManageOver
<1>2. QED
  BY <1>1, Invariance, PTL

(* A normal end of _manage leaves no server listening (server.py:88-94). A *)
(* socket that was bound by a task cancelled before it could return its    *)
(* server is not among them: nobody can close it.                          *)
THEOREM NoServerListens == Spec => []SocketsClosed
<1>1. Inv => SocketsClosed
  BY DEF Inv
<1>2. QED
  BY <1>1, Invariance, PTL

-----------------------------------------------------------------------------
(* The first run implements Service.                                       *)

NotStopping == {"none", "created", "waiting", "neverRan"}

(* What the stops have come to: a built handler knows for each component   *)
(* whether it is disabled, nothing stops before _manage wakes, the stops   *)
(* have not passed the server they are at, and only _manage closes.        *)
FirstRun ==
  /\ \A a \in handler, c \in Components : c \in comps[a] \/ c \in off[a]
  /\ runs = 1 /\ manage \in NotStopping =>
       \A a \in Apps, c \in Components : stops[a][c] = 0
  /\ runs = 1 /\ manage = "stopping" =>
       \A a \in Apps, c \in Components :
         stops[a][c] > 0 => \E s \in Servers : s <= at /\ appOf[s] = a
  /\ \A s \in Servers : server[s] = "closed" => manage \in {"returned", "resultFailed"}

LEMMA InitFirstRun == Init => FirstRun
  BY DEF Init, FirstRun, NotStopping

(* The start of the applications.                                          *)
LEMMA StartFirstRun ==
  ASSUME Inv, FirstRun,
         \/ \E w \in BOOLEAN : RunAgain(w)
         \/ StartServer
         \/ \E end \in {"started", "disabled", "raised"} : StartComponent(end)
         \/ AppStarted
         \/ Launch
  PROVE  FirstRun'
<1>1. CASE \E w \in BOOLEAN : RunAgain(w)
  <2>1. runs' # 1 /\ manage' = "none" /\ UNCHANGED apps /\ \A s \in Servers : server'[s] = "none"
    BY <1>1 DEF RunAgain, NewRun, Inv, TypeOK
  <2>2. QED
    BY <2>1 DEF FirstRun, apps
<1>2. CASE StartServer
  BY <1>2 DEF StartServer, FirstRun, NotStopping, Inv, TasksLaunched, BeforeLaunch, config, loop
<1>3. CASE \E end \in {"started", "disabled", "raised"} : StartComponent(end)
  <2>1. /\ UNCHANGED <<handler, comps, stops, runs, manage, server>>
        /\ manage = "none"
        /\ App \in Apps
        /\ off' = off \/ \E c \in todo : off' = [off EXCEPT ![App] = @ \cup {c}]
    BY <1>3 DEF StartComponent, Inv, TypeOK, TasksLaunched, StartsAgree, BeforeLaunch, config, loop
  <2>2. \A a \in Apps : off[a] \subseteq off'[a]
    <3>1. off \in [Apps -> SUBSET Components]
      BY DEF Inv, TypeOK
    <3>2. ASSUME NEW c, off' = [off EXCEPT ![App] = @ \cup {c}]
          PROVE  \A a \in Apps : off[a] \subseteq off'[a]
      BY <2>1, <3>1, <3>2
    <3>3. QED
      BY <2>1, <3>2
  <2>3. handler \subseteq Apps
    BY DEF Inv, TypeOK
  <2>4. QED
    BY <2>1, <2>2, <2>3 DEF FirstRun, NotStopping
<1>4. CASE AppStarted
  <2>1. /\ comps' = [comps EXCEPT ![App] = @ \ off[App]] /\ handler' = handler \cup {App}
        /\ UNCHANGED <<off, stops, runs, manage, server>>
        /\ manage = "none"
        /\ App \in Apps /\ comps[App] = Components
    BY <1>4 DEF AppStarted, Inv, TypeOK, TasksLaunched, StartsAgree, BeforeLaunch, config, loop
  <2>2. \A a \in handler', c \in Components : c \in comps'[a] \/ c \in off[a]
    BY <2>1 DEF FirstRun, Inv, TypeOK
  <2>3. QED
    BY <2>1, <2>2 DEF FirstRun, NotStopping
<1>5. CASE Launch
  <2>1. /\ UNCHANGED <<handler, comps, off, stops, runs>> /\ manage = "none" /\ manage' = "created"
        /\ \A s \in Servers : server'[s] = "created"
    BY <1>5 DEF Launch, Inv, TasksLaunched, BeforeLaunch, config, apps
  <2>2. QED
    BY <2>1 DEF FirstRun, NotStopping
<1>6. QED
  BY <1>1, <1>2, <1>3, <1>4, <1>5

(* The loop, with _manage and _stop.                                       *)
LEMMA LoopFirstRun ==
  ASSUME Inv, FirstRun,
         \/ \E s \in Servers :
              \/ ServerBegins(s)
              \/ \E end \in ServerStates : ServerEnds(s, end)
              \/ \E r \in Requests : Receive(r, s)
         \/ \E r \in Requests : Answer(r)
         \/ StopRequested \/ ManageBegins \/ ManageWakes
         \/ \E ok \in BOOLEAN : StopComponent(ok)
         \/ AppStopped \/ CloseServers \/ Finish \/ Interrupt \/ CloseLoop
  PROVE  FirstRun'
<1>0. UNCHANGED <<handler, comps, off, config>>
  BY DEF ServerBegins, ServerEnds, Receive, Answer, StopRequested, ManageBegins, ManageWakes,
         StopComponent, AppStopped, CloseServers, Finish, Interrupt, Stop, CloseLoop, apps
<1>1. ASSUME \/ \E s \in Servers :
                  \/ ServerBegins(s)
                  \/ \E end \in ServerStates : ServerEnds(s, end)
                  \/ \E r \in Requests : Receive(r, s)
             \/ \E r \in Requests : Answer(r)
             \/ StopRequested \/ Finish \/ Interrupt \/ CloseLoop
      PROVE  FirstRun'
  <2>1. UNCHANGED <<stops, manage, at>>
    BY <1>1 DEF ServerBegins, ServerEnds, Receive, Answer, StopRequested, Finish, Interrupt,
                Stop, CloseLoop, apps, loop
  <2>2. \/ UNCHANGED server
        \/ \E s \in Servers, new \in {"cancelled", "binding", "listening", "leaked", "failed"} :
             server' = [server EXCEPT ![s] = new]
    BY <1>1 DEF ServerBegins, ServerEnds, Got, CreateServer, Receive, Answer, StopRequested,
                Finish, Interrupt, Stop, CloseLoop, loop
  <2>3. \A s \in Servers : server'[s] = "closed" => server[s] = "closed"
    BY <2>2 DEF Inv, TypeOK
  <2>4. QED
    BY <1>0, <2>1, <2>3 DEF FirstRun, config
<1>2. CASE ManageBegins
  BY <1>0, <1>2 DEF ManageBegins, FirstRun, NotStopping, apps, config
<1>3. CASE ManageWakes
  BY <1>0, <1>3 DEF ManageWakes, Woken, FirstRun, NotStopping, apps, config
<1>4. ASSUME NEW ok \in BOOLEAN, StopComponent(ok) PROVE FirstRun'
  <2>1. PICK c \in todo :
          stops' = IF ok THEN Counted(stops, App, c) ELSE stops
    BY <1>4 DEF StopComponent
  <2>2. /\ manage = "stopping" /\ manage' \in {"stopping", "stopFailed"}
        /\ UNCHANGED <<at, server>> /\ at \in Servers
    BY <1>4 DEF StopComponent, Inv, StopsInOrder
  <2>3. \A a \in Apps, d \in Components : stops'[a][d] > 0 => stops[a][d] > 0 \/ a = appOf[at]
    BY <2>1, <2>2 DEF Counted, App, Inv, TypeOK
  <2>4. at <= at
    BY <2>2 DEF Servers
  <2>5. ASSUME runs = 1
        PROVE  \A a \in Apps, d \in Components :
                 stops'[a][d] > 0 => \E s \in Servers : s <= at /\ appOf[s] = a
    BY <2>2, <2>3, <2>4, <2>5 DEF FirstRun
  <2>6. QED
    BY <1>0, <2>2, <2>5 DEF FirstRun, NotStopping, config
<1>5. CASE AppStopped
  <2>1. /\ manage = "stopping" /\ UNCHANGED <<stops, server>> /\ at \in Servers
        /\ at' \in {at, at + 1} /\ manage' \in {"stopping", "closing"}
    BY <1>5 DEF AppStopped, apps, Inv, StopsInOrder
  <2>2. \A s \in Servers : s <= at => s <= at'
    BY <2>1 DEF Servers
  <2>3. QED
    BY <1>0, <2>1, <2>2 DEF FirstRun, NotStopping, config
<1>6. CASE CloseServers
  <2>1. /\ manage' \in {"returned", "resultFailed"} /\ UNCHANGED stops
    BY <1>6 DEF CloseServers, Closed, apps
  <2>2. QED
    BY <1>0, <2>1 DEF FirstRun, NotStopping, config
<1>7. QED
  BY <1>1, <1>2, <1>3, <1>4, <1>5, <1>6

LEMMA NextFirstRun == Inv /\ FirstRun /\ [Next]_vars => FirstRun'
<1>1. ASSUME FirstRun, Over \/ UNCHANGED vars PROVE FirstRun'
  BY <1>1 DEF Over, FirstRun, vars, config, apps, loop
<1>2. QED
  BY <1>1, StartFirstRun, LoopFirstRun DEF Next

-----------------------------------------------------------------------------
(* Each step of a run is a step of Service or changes nothing it sees.     *)

Lives == [a \in Apps |-> [c \in Components |-> Life(a, c)]]
Doors == [s \in Servers |-> Door(s)]

(* A step that a run's components and clients do not see.                  *)
LEMMA Unseen ==
  ASSUME appOf' = appOf, Stage' = Stage,
         \A a \in Apps, c \in Components : Life(a, c)' = Life(a, c),
         \A s \in Servers : Door(s)' = Door(s)
  PROVE  UNCHANGED S!vars
  BY DEF S!vars

LEMMA InitService == Init => S!Init
  BY DEF Init, S!Init, Stage, Life, Door, Accepting

(* The components of applications that have their handler, and of those    *)
(* whose start has not begun.                                              *)
LEMMA LifeBeforeLaunch ==
  ASSUME Inv, FirstRun, runs = 1, phase \in BeforeLaunch
  PROVE  /\ \A a \in handler, c \in Components : Life(a, c) \in {"up", "disabled"}
         /\ \A a \in Apps \ started, c \in Components : Life(a, c) = "new"
<1>1. handler \subseteq Apps
  BY DEF Inv, TypeOK
<1>2. \A a \in Apps, c \in Components : ~ (stops[a][c] > 0)
  BY DEF Inv, StopsInOrder
<1>3. \A a \in handler, c \in Components : starts[a][c] > 0 \/ c \in off[a]
  BY <1>1 DEF Inv, StartsAgree, FirstRun
<1>4. \A a \in Apps \ started, c \in Components : ~ (starts[a][c] > 0) /\ c \notin off[a]
  BY DEF Inv, StartsAgree
<1>5. QED
  BY <1>1, <1>2, <1>3, <1>4 DEF Life

(* Where _manage has come to the sockets, nothing is up.                   *)
LEMMA NothingLeftUp ==
  ASSUME Inv, FirstRun, runs = 1, manage \in {"closing", "returned", "resultFailed"}
  PROVE  S!NothingUp
<1>1. SUFFICES ASSUME NEW s \in Servers, NEW c \in Components
               PROVE  Life(appOf[s], c) # "up"
  BY DEF S!NothingUp, S!Used, Inv, TypeOK
<1>2. appOf[s] \in handler /\ appOf[s] \in Apps
  BY DEF Inv, TypeOK, TasksLaunched, StartsInOrder
<1>3. CASE c \in comps[appOf[s]]
  <2>1. stops[appOf[s]][c] > 0
    BY <1>3 DEF Inv, StopsInOrder
  <2>2. Life(appOf[s], c) = "down"
    BY <2>1 DEF Life
  <2>3. QED
    BY <2>2
<1>4. CASE c \notin comps[appOf[s]]
  <2>1. starts[appOf[s]][c] # 1 /\ starts[appOf[s]][c] \in {0, 1}
    BY <1>2, <1>4 DEF Inv, StartsAgree
  <2>2. QED
    BY <2>1 DEF Life
<1>5. QED
  BY <1>3, <1>4

(* One component goes one step.                                            *)
LEMMA OneLife ==
  ASSUME NEW x \in Apps, NEW y \in Components, NEW end, Life(x, y)' = end,
         \A a \in Apps, c \in Components : a # x \/ c # y => Life(a, c)' = Life(a, c)
  PROVE  Lives' = [Lives EXCEPT ![x][y] = end]
<1>1. /\ Lives' = [a \in Apps |-> [c \in Components |-> Life(a, c)']]
      /\ Lives[x] = [c \in Components |-> Life(x, c)]
  BY DEF Lives
<1>2. [Lives[x] EXCEPT ![y] = end] = [c \in Components |-> Life(x, c)']
  BY <1>1
<1>3. \A a \in Apps : a # x => Lives[a] = [c \in Components |-> Life(a, c)']
  BY DEF Lives
<1>4. [Lives EXCEPT ![x][y] = end] = [Lives EXCEPT ![x] = [c \in Components |-> Life(x, c)']]
  BY <1>2
<1>5. Lives = [a \in Apps |-> Lives[a]]
  BY DEF Lives
<1>6. [Lives EXCEPT ![x] = [c \in Components |-> Life(x, c)']] =
        [a \in Apps |-> IF a = x THEN [c \in Components |-> Life(x, c)'] ELSE Lives[a]]
  BY <1>5
<1>7. QED
  BY <1>1, <1>3, <1>4, <1>6

LEMMA LifeOf ==
  ASSUME NEW a \in Apps, NEW c \in Components
  PROVE  Lives[a][c] = Life(a, c)
  BY DEF Lives

(* The start of a component, which may raise.                              *)
LEMMA StartComponentService ==
  ASSUME Inv, FirstRun, runs = 1, NEW end, StartComponent(end)
  PROVE  [S!Next]_S!vars
<1>1. PICK c \in todo :
        /\ FirstOf(c, todo)
        /\ \/ /\ starts' = Counted(starts, App, c) /\ UNCHANGED <<phase, off>>
           \/ /\ off' = [off EXCEPT ![App] = @ \cup {c}] /\ UNCHANGED <<phase, starts>>
           \/ /\ phase' = "raised" /\ UNCHANGED <<off, starts>>
  BY DEF StartComponent
<1>2. /\ phase = "appStarting" /\ UNCHANGED <<config, stops, loop>>
      /\ App \in Apps /\ at \in Servers /\ c \in Components /\ started = handler \cup {App}
  BY DEF StartComponent, Inv, TypeOK, StartsAgree, StartsInOrder
<1>2a. PICK app \in Apps : app = App
  BY <1>2
<1>3. /\ starts[app][c] = 0 /\ c \notin off[app]
      /\ \A d \in Components : stops[app][d] = 0
      /\ \A d \in Components : d < c => starts[app][d] = 1 \/ d \in off[app]
  <2>1. \A d \in Components : d < c => d \notin todo
    BY <1>1, <1>2 DEF FirstOf, Components, Inv, TypeOK
  <2>2. QED
    BY <1>2a, <1>2, <2>1 DEF Inv, StartsAgree, StopsInOrder, BeforeLaunch
<1>4. Life(app, c) = "new" /\ \A d \in Components : d < c => Life(app, d) # "new"
  BY <1>2a, <1>2, <1>3 DEF Life
<1>5. \A a \in Apps \ {app} : \/ \A d \in Components : Life(a, d) = "new"
                              \/ \A d \in Components : Life(a, d) # "new"
  BY <1>2a, <1>2, LifeBeforeLaunch DEF BeforeLaunch
<1>6. S!StartsAlone(app)
  BY <1>2a, <1>2, <1>5 DEF S!StartsAlone
<1>7. Stage = "starting" /\ Doors' = Doors /\ appOf' = appOf /\ app \in S!Used
  BY <1>2a, <1>2 DEF Stage, Doors, Door, config, loop, S!Used, App
<1>8. ASSUME UNCHANGED phase, NEW new \in {"up", "disabled"}, Life(app, c)' = new,
             \A a \in Apps, d \in Components : a # app \/ d # c => Life(a, d)' = Life(a, d)
      PROVE  S!Next
  <2>1. Stage' = Stage
    BY <1>2a, <1>2, <1>8 DEF Stage, loop
  <2>2. Lives' = [Lives EXCEPT ![app][c] = new]
    BY <1>2a, <1>2, <1>8, OneLife
  <2>3. S!Start(app, c)
    BY <1>2a, <1>2, <1>4, <1>6, <1>7, <2>1, <2>2 DEF S!Start, Lives, Doors
  <2>4. QED
    BY <1>2a, <1>2, <1>7, <2>3 DEF S!Next
<1>9. CASE starts' = Counted(starts, App, c) /\ UNCHANGED <<phase, off>>
  <2>1. /\ starts'[app][c] = 1
        /\ \A a \in Apps, d \in Components : a # app \/ d # c => starts'[a][d] = starts[a][d]
    BY <1>2a, <1>2, <1>3, <1>9 DEF Counted, Inv, TypeOK
  <2>2. Life(app, c)' = "up"
    <3>1. stops'[app][c] = 0
      BY <1>2a, <1>2, <1>3
    <3>2. QED
      BY <2>1, <3>1 DEF Life
  <2>3. \A a \in Apps, d \in Components : a # app \/ d # c => Life(a, d)' = Life(a, d)
    BY <1>2a, <1>2, <1>9, <2>1 DEF Life
  <2>4. QED
    BY <1>8, <1>9, <2>2, <2>3
<1>10. CASE off' = [off EXCEPT ![App] = @ \cup {c}] /\ UNCHANGED <<phase, starts>>
  <2>1. /\ c \in off'[app]
        /\ \A a \in Apps, d \in Components : a # app \/ d # c => (d \in off'[a] <=> d \in off[a])
    BY <1>2a, <1>2, <1>10 DEF Inv, TypeOK
  <2>2. Life(app, c)' = "disabled"
    <3>1. stops'[app][c] = 0 /\ starts'[app][c] = 0
      BY <1>2a, <1>2, <1>3, <1>10
    <3>2. QED
      BY <2>1, <3>1 DEF Life
  <2>3. \A a \in Apps, d \in Components : a # app \/ d # c => Life(a, d)' = Life(a, d)
    BY <1>2a, <1>2, <1>10, <2>1 DEF Life
  <2>4. QED
    BY <1>8, <1>10, <2>2, <2>3
<1>11. CASE phase' = "raised" /\ UNCHANGED <<off, starts>>
  <2>1. Stage' = "over"
    BY <1>11 DEF Stage
  <2>2. Lives' = Lives
    BY <1>2a, <1>2, <1>11 DEF Lives, Life
  <2>3. ~ S!Decided
    BY <1>2a, <1>2, <1>4, <1>7 DEF S!Decided
  <2>4. S!StartFails
    BY <1>7, <2>1, <2>2, <2>3 DEF S!StartFails, Lives, Doors
  <2>5. QED
    BY <2>4 DEF S!Next
<1>12. QED
  BY <1>1, <1>9, <1>10, <1>11

(* The rest of the start.                                                  *)
LEMMA StartService ==
  ASSUME Inv, FirstRun, runs = 1, StartServer \/ AppStarted \/ Launch
  PROVE  [S!Next]_S!vars
<1>1. CASE StartServer \/ AppStarted
  <2>1. /\ UNCHANGED <<config, starts, stops, off, loop>>
        /\ Stage = "starting" /\ Stage' = "starting"
    BY <1>1 DEF StartServer, AppStarted, Stage
  <2>2. \A a \in Apps, c \in Components : Life(a, c)' = Life(a, c)
    BY <2>1 DEF Life
  <2>3. \A s \in Servers : Door(s)' = Door(s)
    BY <2>1 DEF Door, loop
  <2>4. QED
    BY <2>1, <2>2, <2>3, Unseen DEF config
<1>2. CASE Launch
  <2>1. /\ phase = "starting" /\ at = NServers + 1 /\ UNCHANGED <<config, apps>>
        /\ manage = "none" /\ phase' = "running" /\ manage' = "created"
        /\ \A s \in Servers : server[s] = "none" /\ server'[s] = "created"
    BY <1>2 DEF Launch, Inv, TasksLaunched, BeforeLaunch
  <2>2. Stage = "starting" /\ Stage' = "serving"
    BY <2>1 DEF Stage
  <2>3. Lives' = Lives
    BY <2>1 DEF Lives, Life, apps
  <2>4. Doors' = Doors
    BY <2>1 DEF Doors, Door, Accepting
  <2>5. S!Decided
    <3>1. SUFFICES ASSUME NEW s \in Servers, NEW c \in Components
                   PROVE  Life(appOf[s], c) # "new"
      BY DEF S!Decided, S!Used, Inv, TypeOK
    <3>2. s < at
      BY <2>1, LifecycleAssumption DEF Servers
    <3>3. appOf[s] \in handler
      BY <2>1, <3>2 DEF Inv, StartsInOrder
    <3>4. QED
      BY <2>1, <3>3, LifeBeforeLaunch DEF BeforeLaunch
  <2>6. S!Serve
    BY <2>1, <2>2, <2>3, <2>4, <2>5 DEF S!Serve, Lives, Doors, config
  <2>7. QED
    BY <2>6 DEF S!Next
<1>3. QED
  BY <1>1, <1>2

(* A server listens, or does not.                                          *)
LEMMA ServerService ==
  ASSUME Inv, NEW s \in Servers, NEW end, ServerEnds(s, end)
  PROVE  [S!Next]_S!vars
<1>1. /\ phase \in {"running", "stopping"} /\ UNCHANGED <<config, phase, apps, manage>>
      /\ server[s] = "binding" /\ server' = [server EXCEPT ![s] = end]
      /\ end \in {"listening", "leaked", "failed"}
  BY DEF ServerEnds, LoopRuns, Got, CreateServer
<1>2. Stage \in {"serving", "failing"} /\ Stage' = Stage
  BY <1>1 DEF Stage
<1>3. \A a \in Apps, c \in Components : Life(a, c)' = Life(a, c)
  BY <1>1 DEF Life, apps
<1>4. \A t \in Servers : Door(t)' = IF t = s /\ end # "failed" THEN "open" ELSE Door(t)
  BY <1>1 DEF Door, Accepting, Inv, TypeOK
<1>5. CASE end = "failed"
  BY <1>1, <1>2, <1>3, <1>4, <1>5, Unseen DEF config
<1>6. CASE end # "failed"
  <2>1. Lives' = Lives
    BY <1>3 DEF Lives
  <2>2. Doors' = [Doors EXCEPT ![s] = "open"]
    BY <1>4, <1>6 DEF Doors
  <2>3. Door(s) = "new"
    BY <1>1 DEF Door, Accepting
  <2>4. S!Open(s)
    BY <1>1, <1>2, <2>1, <2>2, <2>3 DEF S!Open, Lives, Doors, config
  <2>5. QED
    BY <2>4 DEF S!Next
<1>7. QED
  BY <1>5, <1>6

(* What the loop does without a change for components or clients.          *)
LEMMA QuietService ==
  ASSUME Inv,
         \/ \E s \in Servers : ServerBegins(s) \/ \E r \in Requests : Receive(r, s)
         \/ \E r \in Requests : Answer(r)
         \/ StopRequested \/ ManageBegins \/ ManageWakes \/ AppStopped
         \/ Finish \/ Interrupt
  PROVE  UNCHANGED S!vars
<1>1. /\ UNCHANGED <<config, apps>>
      /\ phase \in {"running", "stopping"} /\ phase' \in {"running", "stopping"}
      /\ \/ manage' = manage
         \/ manage # "stopFailed" /\ manage' # "stopFailed"
  BY DEF ServerBegins, Receive, Answer, StopRequested, ManageBegins, ManageWakes, Woken,
         AppStopped, Finish, Interrupt, Stop, LoopRuns
<1>2. Stage' = Stage
  BY <1>1 DEF Stage
<1>3. \A a \in Apps, c \in Components : Life(a, c)' = Life(a, c)
  BY <1>1 DEF Life, apps
<1>4. \/ server' = server
      \/ \E s \in Servers, new \in {"cancelled", "binding"} :
           server[s] = "created" /\ server' = [server EXCEPT ![s] = new]
  BY DEF ServerBegins, Receive, Answer, StopRequested, ManageBegins, ManageWakes,
         AppStopped, Finish, Interrupt, Stop
<1>5. \A s \in Servers : Door(s)' = Door(s)
  BY <1>4 DEF Door, Accepting, Inv, TypeOK
<1>6. QED
  BY <1>1, <1>2, <1>3, <1>5, Unseen DEF config

(* An application other than the one that is stopping is stopped or has    *)
(* not begun to.                                                           *)
LEMMA OthersWhole ==
  ASSUME Inv, FirstRun, runs = 1, manage = "stopping", NEW b \in Apps, b # App
  PROVE  \/ \A c \in Components : Life(b, c) # "down"
         \/ \A c \in Components : Life(b, c) # "up"
<1>1. at \in Servers
  BY DEF Inv, StopsInOrder
<1>2. CASE \A c \in Components : ~ (stops[b][c] > 0)
  BY <1>2 DEF Life
<1>3. CASE \E c \in Components : stops[b][c] > 0
  <2>1. PICK s \in Servers : s <= at /\ appOf[s] = b
    BY <1>3 DEF FirstRun
  <2>2. s < at
    BY <1>1, <2>1 DEF App, Servers
  <2>3. \A c \in comps[b] : stops[b][c] > 0
    BY <2>1, <2>2 DEF Inv, StopsInOrder
  <2>4. b \in handler
    BY <2>1 DEF Inv, TasksLaunched, StartsInOrder
  <2>5. \A c \in Components : c \in comps[b] \/ ~ (starts[b][c] > 0)
    BY <2>4 DEF Inv, StartsAgree
  <2>6. QED
    BY <2>3, <2>5 DEF Life
<1>4. QED
  BY <1>2, <1>3

(* A component stops or raises.                                            *)
LEMMA StopComponentService ==
  ASSUME Inv, FirstRun, runs = 1, NEW ok \in BOOLEAN, StopComponent(ok)
  PROVE  [S!Next]_S!vars
<1>1. PICK c \in todo :
        /\ FirstOf(c, todo)
        /\ stops' = IF ok THEN Counted(stops, App, c) ELSE stops
        /\ manage' = IF ok THEN manage ELSE "stopFailed"
  BY DEF StopComponent
<1>2. /\ phase \in {"running", "stopping"} /\ manage = "stopping"
      /\ UNCHANGED <<config, phase, starts, off, server>>
  BY DEF StopComponent, LoopRuns
<1>3. PICK app \in Apps : app = App
  BY <1>2 DEF App, Inv, TypeOK, StopsInOrder
<1>4. /\ at \in Servers /\ app \in S!Used /\ c \in comps[app] /\ c \in Components
      /\ starts[app][c] = 1 /\ app \in handler
      /\ \A d \in comps[app] \ todo : stops[app][d] > 0
      /\ stops[app][c] \in Nat
  BY <1>2, <1>3 DEF App, S!Used, Inv, TypeOK, TasksLaunched, StartsAgree, StartsInOrder,
                    StopsInOrder
<1>5. Stage = "serving" /\ Doors' = Doors
  BY <1>2 DEF Stage, Doors, Door
<1>6. CASE ~ok
  <2>1. Stage' = "failing"
    BY <1>1, <1>2, <1>6 DEF Stage
  <2>2. Lives' = Lives
    BY <1>1, <1>2, <1>6 DEF Lives, Life
  <2>3. S!StopFails
    BY <1>2, <1>5, <2>1, <2>2 DEF S!StopFails, Lives, Doors, config
  <2>4. QED
    BY <2>3 DEF S!Next
<1>7. CASE ok
  <2>1. Stage' = "serving"
    BY <1>1, <1>2, <1>7 DEF Stage
  <2>2. /\ stops'[app][c] = stops[app][c] + 1
        /\ \A a \in Apps, d \in Components : a # app \/ d # c => stops'[a][d] = stops[a][d]
    BY <1>1, <1>3, <1>4, <1>7 DEF Counted, Inv, TypeOK
  <2>3. stops'[app][c] > 0
    BY <1>4, <2>2
  <2>4. Life(app, c)' = "down"
    BY <2>3 DEF Life
  <2>5. \A a \in Apps, d \in Components : a # app \/ d # c => Life(a, d)' = Life(a, d)
    BY <1>2, <2>2 DEF Life
  <2>6. Lives' = [Lives EXCEPT ![app][c] = "down"]
    BY <1>4, <2>4, <2>5, OneLife
  <2>7. CASE stops[app][c] > 0
    <3>1. Life(app, c) = "down"
      BY <2>7 DEF Life
    <3>2. \A a \in Apps, d \in Components : Life(a, d)' = Life(a, d)
      BY <2>4, <2>5, <3>1
    <3>3. \A s \in Servers : Door(s)' = Door(s)
      BY <1>2 DEF Door
    <3>4. QED
      BY <1>2, <1>5, <2>1, <3>2, <3>3, Unseen DEF config
  <2>8. CASE ~ (stops[app][c] > 0)
    <3>1. Life(app, c) = "up"
      BY <1>4, <2>8 DEF Life
    <3>2. \A d \in Components : d < c => Life(app, d) # "up"
      <4>1. SUFFICES ASSUME NEW d \in Components, d < c PROVE Life(app, d) # "up"
        OBVIOUS
      <4>2. d \notin todo
        BY <1>1, <1>4, <4>1 DEF FirstOf, Components
      <4>3. stops[app][d] > 0 \/ ~ (starts[app][d] > 0)
        BY <1>4, <4>2 DEF Inv, StartsAgree
      <4>4. QED
        BY <4>3 DEF Life
    <3>3. S!StopsAlone(app)
      BY <1>2, <1>3, OthersWhole DEF S!StopsAlone
    <3>4. S!Stop(app, c)
      BY <1>2, <1>4, <1>5, <2>1, <2>6, <3>1, <3>2, <3>3 DEF S!Stop, Lives, Doors, config
    <3>5. QED
      BY <1>4, <3>4 DEF S!Next
  <2>9. QED
    BY <2>7, <2>8
<1>8. QED
  BY <1>6, <1>7

(* _manage closes the servers in front of the first that is pending.       *)
LEMMA CloseServersService ==
  ASSUME Inv, FirstRun, runs = 1, CloseServers
  PROVE  [S!Next]_S!vars
<1>1. PICK shut \in SUBSET Servers :
        /\ \A s \in shut : server[s] = "listening"
        /\ server' = [s \in Servers |-> IF s \in shut THEN "closed" ELSE server[s]]
  <2> DEFINE pending == {s \in Servers : server[s] \in Pending}
             shut == {s \in Servers : server[s] = "listening" /\ \A t \in pending : s < t}
  <2>1. server' = [s \in Servers |-> IF s \in shut THEN "closed" ELSE server[s]]
    BY DEF CloseServers, Closed
  <2>2. QED
    BY <2>1
<1>2. /\ phase \in {"running", "stopping"} /\ manage = "closing"
      /\ manage' \in {"returned", "resultFailed"} /\ UNCHANGED <<config, phase, apps>>
  BY DEF CloseServers, Closed, LoopRuns
<1>3. Stage = "serving" /\ Stage' = "serving"
  BY <1>2 DEF Stage
<1>4. Lives' = Lives
  BY <1>2 DEF Lives, Life, apps
<1>5. Doors' = [s \in Servers |-> IF s \in shut THEN "shut" ELSE Doors[s]]
  BY <1>1 DEF Doors, Door, Accepting
<1>6. \A s \in shut : Door(s) = "open"
  BY <1>1 DEF Door, Accepting
<1>7. S!Shut(shut)
  BY <1>2, <1>3, <1>4, <1>5, <1>6, NothingLeftUp DEF S!Shut, Lives, Doors, config
<1>8. QED
  BY <1>7 DEF S!Next

(* The end of _stop: who closes the loop has stopped every component, met  *)
(* an exception, or never served.                                          *)
LEMMA CloseLoopService ==
  ASSUME Inv, FirstRun, runs = 1, CloseLoop
  PROVE  [S!Next]_S!vars
<1>1. /\ phase = "stopping" /\ phase' = "closed" /\ manage \in ManageOver
      /\ UNCHANGED <<config, apps, loop>>
  BY DEF CloseLoop
<1>2. Stage' = "over" /\ Lives' = Lives /\ Doors' = Doors
  BY <1>1 DEF Stage, Lives, Life, Doors, Door, apps, loop
<1>3. \/ Stage = "failing"
      \/ Stage = "serving" /\ (S!NothingUp \/ \A s \in Servers : Door(s) = "new")
  <2>1. CASE manage = "stopFailed"
    BY <1>1, <2>1 DEF Stage
  <2>2. CASE manage \in {"returned", "resultFailed"}
    BY <1>1, <2>2, NothingLeftUp DEF Stage
  <2>3. CASE manage = "neverRan"
    <3>1. \A s \in Servers : server[s] \notin Accepting /\ server[s] # "closed"
      BY <2>3 DEF Inv, TasksLaunched, FirstRun
    <3>2. QED
      BY <1>1, <2>3, <3>1 DEF Stage, Door
  <2>4. QED
    BY <1>1, <2>1, <2>2, <2>3 DEF ManageOver
<1>4. S!End
  BY <1>1, <1>2, <1>3 DEF S!End, Lives, Doors, config
<1>5. QED
  BY <1>4 DEF S!Next

(* Every step of the first run is one of Service, or unseen.               *)
LEMMA StepService ==
  ASSUME Inv, FirstRun, [Next]_vars, runs' = 1
  PROVE  [S!Next]_S!vars
<1>1. ASSUME NEW w \in BOOLEAN, RunAgain(w) PROVE FALSE
  BY <1>1 DEF RunAgain, Inv, TypeOK
<1>2. CASE Over \/ UNCHANGED vars
  <2>1. UNCHANGED vars
    BY <1>2 DEF Over
  <2>2. Stage' = Stage
    BY <2>1 DEF vars, loop, Stage
  <2>3. \A a \in Apps, c \in Components : Life(a, c)' = Life(a, c)
    BY <2>1 DEF vars, apps, Life
  <2>4. \A s \in Servers : Door(s)' = Door(s)
    BY <2>1 DEF vars, loop, Door
  <2>5. QED
    BY <2>1, <2>2, <2>3, <2>4, Unseen DEF vars, config
<1>3. CASE Next /\ ~ Over /\ ~ \E w \in BOOLEAN : RunAgain(w)
  <2>1. runs = 1
    BY <1>3 DEF Next, StartServer, StartComponent, AppStarted, Launch, ServerBegins, ServerEnds,
                Receive, Answer, StopRequested, ManageBegins, ManageWakes, StopComponent,
                AppStopped, CloseServers, Finish, Interrupt, Stop, CloseLoop, config
  <2>2. QED
    BY <1>3, <2>1, StartService, StartComponentService, ServerService, QuietService,
       StopComponentService, CloseServersService, CloseLoopService DEF Next
<1>4. QED
  BY <1>1, <1>2, <1>3

(* The first run starts components in order and once each, opens its       *)
(* servers after that and stops what has started in order; it leaves       *)
(* something up when a component raises, or when no server has opened      *)
(* (server.py:81-123, app.py:55-74).                                       *)
THEOREM RunIsService == Spec => KeepsService
<1>1. Inv /\ FirstRun /\ [Next]_vars => FirstRun' /\ [runs' = 1 => [S!Next]_S!vars]_vars
  BY NextFirstRun, StepService
<1>2. Spec => [](Inv /\ FirstRun)
  BY InitFirstRun, NextFirstRun, Invariance, PTL DEF Spec
<1>3. QED
  BY <1>1, <1>2, InitService, PTL DEF Spec, KeepsService

=============================================================================
