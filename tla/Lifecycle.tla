------------------------------ MODULE Lifecycle ------------------------------
(***************************************************************************)
(* The life of a process that calls run (levin/core/server.py): the        *)
(* applications of the servers start one after the other                   *)
(* (levin/core/app.py, component.py), the event loop binds the servers and *)
(* serves requests, _manage waits for the stop event, stops the            *)
(* applications and closes the servers, and _stop cancels what is left and *)
(* closes the loop.  Two servers may share an application, and run may be  *)
(* called again for the same applications.                                 *)
(*                                                                         *)
(* The event loop is Python 3.7's, where CancelledError is an Exception.   *)
(***************************************************************************)
EXTENDS Naturals, FiniteSets

CONSTANTS
  NServers,     (* servers passed to run, in the order 1 .. NServers        *)
  Apps,         (* applications                                             *)
  NComponents,  (* components of an application, in the order of its list   *)
  Requests,     (* requests of one call of run                              *)
  MaxRuns       (* bound on the calls of run                                *)

ASSUME LifecycleAssumption ==
  /\ NServers \in Nat \ {0}
  /\ NComponents \in Nat
  /\ MaxRuns \in Nat \ {0}

Servers    == 1 .. NServers
Components == 1 .. NComponents

VARIABLES
  appOf,        (* the application of each server                          *)
  wait,         (* run's argument                                          *)
  runs,         (* calls of run so far                                     *)
  phase,        (* how far this call is                                    *)
  at,           (* the server whose application starts or stops            *)
  todo,         (* its components still to start or to stop                *)
  started,      (* Application.__start                                     *)
  handler,      (* applications whose handler is built                     *)
  comps,        (* Application._components                                 *)
  off,          (* components that raised DisableComponentError            *)
  starts,       (* how often each component started ...                    *)
  stops,        (* ... and stopped                                         *)
  server,       (* the task of Server.get_task                             *)
  stopEvent,
  manage,       (* the task of _manage                                     *)
  connected,    (* servers with a connection                               *)
  request,      (* the tasks of requests                                   *)
  awaited       (* the request tasks _stop waits for                       *)

config == <<appOf, wait, runs>>
apps   == <<started, handler, comps, off, starts, stops>>
loop   == <<server, stopEvent, manage, connected, request, awaited>>
vars   == <<config, phase, at, todo, apps, loop>>

-----------------------------------------------------------------------------

(* "raised": an application failed to start and run raised.                *)
Phases == {"starting", "appStarting", "running", "stopping", "closed", "raised"}

(* "failed" returned None; "leaked" too, after its socket began to listen; *)
(* "cancelled" never took its first step.                                  *)
Pending      == {"created", "binding", "cancelled"}
Accepting    == {"listening", "leaked"}
ServerStates == {"none", "failed", "closed"} \cup Pending \cup Accepting

(* "stopFailed": a component raised; "resultFailed": a server was pending; *)
(* "neverRan": cancelled before its first step.                            *)
ManageOver   == {"returned", "stopFailed", "resultFailed", "neverRan"}
ManageStates == {"none", "created", "waiting", "stopping", "closing"} \cup ManageOver

TypeOK ==
  /\ appOf \in [Servers -> Apps] /\ wait \in BOOLEAN /\ runs \in 1 .. MaxRuns
  /\ phase \in Phases
  /\ at \in 1 .. NServers + 1
  /\ todo \in SUBSET Components
  /\ started \in SUBSET Apps /\ handler \in SUBSET Apps
  /\ comps \in [Apps -> SUBSET Components] /\ off \in [Apps -> SUBSET Components]
  /\ starts \in [Apps -> [Components -> Nat]]
  /\ stops \in [Apps -> [Components -> Nat]]
  /\ server \in [Servers -> ServerStates]
  /\ stopEvent \in BOOLEAN
  /\ manage \in ManageStates
  /\ connected \in SUBSET Servers
  /\ request \in [Requests -> {"none", "running", "over"}]
  /\ awaited \in SUBSET Requests

(* run up to its loop over the servers: a new event loop, no task.         *)
NewRun(w) ==
  /\ wait' = w
  /\ phase' = "starting" /\ at' = 1 /\ todo' = {}
  /\ server' = [s \in Servers |-> "none"]
  /\ stopEvent' = FALSE
  /\ manage' = "none"
  /\ connected' = {}
  /\ request' = [r \in Requests |-> "none"]
  /\ awaited' = {}

Init ==
  /\ appOf \in [Servers -> Apps] /\ wait \in BOOLEAN /\ runs = 1
  /\ phase = "starting" /\ at = 1 /\ todo = {}
  /\ started = {} /\ handler = {}
  /\ comps = [a \in Apps |-> Components] /\ off = [a \in Apps |-> {}]
  /\ starts = [a \in Apps |-> [c \in Components |-> 0]]
  /\ stops = [a \in Apps |-> [c \in Components |-> 0]]
  /\ server = [s \in Servers |-> "none"]
  /\ stopEvent = FALSE /\ manage = "none"
  /\ connected = {} /\ request = [r \in Requests |-> "none"] /\ awaited = {}

(* run is called again when it has returned or raised.                     *)
RunAgain(w) ==
  /\ phase \in {"closed", "raised"}
  /\ runs < MaxRuns
  /\ runs' = runs + 1
  /\ NewRun(w)
  /\ UNCHANGED <<appOf, apps>>

-----------------------------------------------------------------------------
(* Application.start, of one server after the other.                       *)

App == appOf[at]

FirstOf(c, C) == c \in C /\ \A d \in C : c <= d

StartServer ==
  /\ phase = "starting" /\ at <= NServers
  /\ \/ /\ App \in started
        /\ at' = at + 1
        /\ UNCHANGED <<phase, todo, started>>
     \/ /\ App \notin started
        /\ started' = started \cup {App}
        /\ phase' = "appStarting" /\ todo' = comps[App]
        /\ UNCHANGED at
  /\ UNCHANGED <<config, handler, comps, off, starts, stops, loop>>

Counted(count, a, c) == [count EXCEPT ![a][c] = @ + 1]

(* Mutant: any exception of a component lets the others go on.             *)
StartComponentTolerant(end) ==
  /\ phase = "appStarting"
  /\ \E c \in todo :
       /\ FirstOf(c, todo)
       /\ todo' = todo \ {c}
       /\ starts' = IF end = "started" THEN Counted(starts, App, c) ELSE starts
       /\ off' = IF end = "disabled" THEN [off EXCEPT ![App] = @ \cup {c}] ELSE off
  /\ UNCHANGED <<config, phase, at, started, handler, comps, stops, loop>>

(* Component._start: the component starts, is disabled, or raises; then    *)
(* run raises too, and nothing is undone.                                  *)
StartComponent(end) ==
  /\ phase = "appStarting"
  /\ \E c \in todo :
       /\ FirstOf(c, todo)
       /\ \/ /\ end = "started"
             /\ starts' = Counted(starts, App, c)
             /\ todo' = todo \ {c}
             /\ UNCHANGED <<phase, off>>
          \/ /\ end = "disabled"
             /\ off' = [off EXCEPT ![App] = @ \cup {c}]
             /\ todo' = todo \ {c}
             /\ UNCHANGED <<phase, starts>>
          \/ /\ end = "raised"
             /\ phase' = "raised"
             /\ UNCHANGED <<todo, off, starts>>
  /\ UNCHANGED <<config, at, started, handler, comps, stops, loop>>

(* Mutant: the disabled components stay in the list.                       *)
AppStartedWithAll ==
  /\ phase = "appStarting" /\ todo = {}
  /\ handler' = handler \cup {App}
  /\ phase' = "starting" /\ at' = at + 1
  /\ UNCHANGED <<config, todo, started, comps, off, starts, stops, loop>>

(* The end of start: disabled components leave the list, and the handler   *)
(* is built from the others.                                               *)
AppStarted ==
  /\ phase = "appStarting" /\ todo = {}
  /\ comps' = [comps EXCEPT ![App] = @ \ off[App]]
  /\ handler' = handler \cup {App}
  /\ phase' = "starting" /\ at' = at + 1
  /\ UNCHANGED <<config, todo, started, off, starts, stops, loop>>

(* Every application has started: the tasks are created.                   *)
Launch ==
  /\ phase = "starting" /\ at = NServers + 1
  /\ phase' = "running"
  /\ at' = 1
  /\ server' = [s \in Servers |-> "created"]
  /\ manage' = "created"
  /\ UNCHANGED <<config, todo, apps, stopEvent, connected, request, awaited>>

-----------------------------------------------------------------------------
(* The event loop.  While _stop runs it, every task of before has been     *)
(* cancelled.                                                              *)

LoopRuns   == phase = "stopping" \/ (phase = "running" /\ wait)
Cancelling == phase = "stopping"

(* The first step of get_task, up to the wait for the name service.        *)
ServerBegins(s) ==
  /\ LoopRuns
  /\ server[s] = "created"
  /\ server' = [server EXCEPT ![s] = IF Cancelling THEN "cancelled" ELSE "binding"]
  /\ UNCHANGED <<config, phase, at, todo, apps, stopEvent, manage, connected, request, awaited>>

(* create_server listens or raises; a cancellation makes it raise, but may *)
(* come in the one step between its socket's listen and its return.        *)
CreateServer(end) ==
  end \in IF ~Cancelling              THEN {"listening", "failed"}
          ELSE IF manage = "neverRan" THEN {"failed"}
                                      ELSE {"leaked", "failed"}

(* Mutants: without the except clause; without setting the event in it.    *)
GotRaises(s, end) ==
  /\ CreateServer(end)
  /\ server' = [server EXCEPT ![s] = IF end = "listening" THEN end ELSE "raised"]
  /\ UNCHANGED stopEvent

GotSilently(s, end) ==
  /\ CreateServer(end)
  /\ server' = [server EXCEPT ![s] = end]
  /\ UNCHANGED stopEvent

(* An exception sets the event, and the task returns None.                 *)
Got(s, end) ==
  /\ CreateServer(end)
  /\ server' = [server EXCEPT ![s] = end]
  /\ stopEvent' = (stopEvent \/ end # "listening")

(* The end of get_task, several turns of the loop after its first step and *)
(* so after _manage's.                                                     *)
ServerEnds(s, end) ==
  /\ LoopRuns
  /\ server[s] = "binding"
  /\ manage # "created"
  /\ Got(s, end)
  /\ UNCHANGED <<config, phase, at, todo, apps, manage, connected, request, awaited>>

(* Whoever has the event given to run sets it.                             *)
StopRequested ==
  /\ LoopRuns
  /\ ~stopEvent
  /\ stopEvent' = TRUE
  /\ UNCHANGED <<config, phase, at, todo, apps, server, manage, connected, request, awaited>>

(* A client of s sends a request, over a connection of before or a new one.*)
Receive(r, s) ==
  /\ LoopRuns
  /\ request[r] = "none"
  /\ server[s] \in Accepting \/ s \in connected
  /\ request' = [request EXCEPT ![r] = "running"]
  /\ connected' = connected \cup {s}
  /\ UNCHANGED <<config, phase, at, todo, apps, server, stopEvent, manage, awaited>>

Answer(r) ==
  /\ LoopRuns
  /\ request[r] = "running"
  /\ request' = [request EXCEPT ![r] = "over"]
  /\ UNCHANGED <<config, phase, at, todo, apps, server, stopEvent, manage, connected, awaited>>

-----------------------------------------------------------------------------
(* _manage.                                                                *)

(* Its first step comes after those of the servers' tasks.                 *)
ManageBegins ==
  /\ LoopRuns
  /\ manage = "created"
  /\ \/ Cancelling /\ manage' = "neverRan"
     \/ /\ ~Cancelling
        /\ \A s \in Servers : server[s] # "created"
        /\ manage' = "waiting"
  /\ UNCHANGED <<config, phase, at, todo, apps, server, stopEvent, connected, request, awaited>>

(* Mutant: a cancellation of the wait passes through _manage.              *)
WokenUnlessCancelled ==
  IF Cancelling THEN manage' = "neverRan" /\ UNCHANGED <<at, todo>>
                ELSE manage' = "stopping" /\ at' = 1 /\ todo' = comps[appOf[1]]

(* The wait ends, by the event or a cancellation, which is swallowed: the  *)
(* first application begins to stop.                                       *)
Woken == manage' = "stopping" /\ at' = 1 /\ todo' = comps[appOf[1]]

ManageWakes ==
  /\ LoopRuns
  /\ manage = "waiting" /\ stopEvent
  /\ Woken
  /\ UNCHANGED <<config, phase, apps, server, stopEvent, connected, request, awaited>>

(* Application.stop: the next component stops or raises, and an exception  *)
(* ends _manage.                                                           *)
StopComponent(ok) ==
  /\ LoopRuns
  /\ manage = "stopping"
  /\ \E c \in todo :
       /\ FirstOf(c, todo)
       /\ stops' = IF ok THEN Counted(stops, App, c) ELSE stops
       /\ todo' = IF ok THEN todo \ {c} ELSE todo
       /\ manage' = IF ok THEN manage ELSE "stopFailed"
  /\ UNCHANGED <<config, phase, at, started, handler, comps, off, starts,
                 server, stopEvent, connected, request, awaited>>

(* The application of the next server, which may be the same, is next.     *)
AppStopped ==
  /\ LoopRuns
  /\ manage = "stopping" /\ todo = {}
  /\ IF at < NServers
     THEN /\ at' = at + 1
          /\ todo' = comps[appOf[at + 1]]
          /\ UNCHANGED manage
     ELSE manage' = "closing" /\ UNCHANGED <<at, todo>>
  /\ UNCHANGED <<config, phase, apps, server, stopEvent, connected, request, awaited>>

(* Mutants of the loop over the servers' tasks: it ends at a server that   *)
(* failed; it waits for a server that is pending.                          *)
ClosedUntilFailed ==
  LET ends == {s \in Servers : server[s] \in Pending \cup {"failed"}}
  IN /\ server' = [s \in Servers |->
                     IF server[s] = "listening" /\ \A t \in ends : s < t
                     THEN "closed" ELSE server[s]]
     /\ manage' = "returned"

ClosedWhenBound ==
  /\ \A s \in Servers : server[s] \notin Pending
  /\ server' = [s \in Servers |-> IF server[s] = "listening" THEN "closed" ELSE server[s]]
  /\ manage' = "returned"

(* The servers up to the first whose task is pending are closed: result()  *)
(* raises for that one.                                                    *)
Closed ==
  LET pending == {s \in Servers : server[s] \in Pending}
  IN /\ server' = [s \in Servers |->
                     IF server[s] = "listening" /\ \A t \in pending : s < t
                     THEN "closed" ELSE server[s]]
     /\ manage' = IF pending = {} THEN "returned" ELSE "resultFailed"

CloseServers ==
  /\ LoopRuns
  /\ manage = "closing"
  /\ Closed
  /\ UNCHANGED <<config, phase, at, todo, apps, stopEvent, connected, request, awaited>>

-----------------------------------------------------------------------------
(* _stop.                                                                  *)

(* run comes to its finally clause: _manage is over, or was not to be      *)
(* waited for, or Ctrl-C left the loop.  Every task is cancelled.          *)
Stop ==
  /\ phase = "running"
  /\ phase' = "stopping"
  /\ stopEvent' = TRUE
  /\ awaited' = {r \in Requests : request[r] = "running"}
  /\ UNCHANGED <<config, at, todo, apps, server, manage, connected, request>>

Finish == Stop /\ (manage \in ManageOver \/ ~wait)

Interrupt == Stop /\ wait /\ manage \notin ManageOver

(* Every cancelled task is over: the loop is closed.                       *)
CloseLoop ==
  /\ phase = "stopping"
  /\ \A s \in Servers : server[s] \notin {"created", "binding"}
  /\ manage \in ManageOver
  /\ \A r \in awaited : request[r] = "over"
  /\ phase' = "closed"
  /\ UNCHANGED <<config, at, todo, apps, loop>>

(* The process ends.                                                       *)
Over == phase \in {"closed", "raised"} /\ UNCHANGED vars

Next ==
  \/ \E w \in BOOLEAN : RunAgain(w)
  \/ StartServer
  \/ \E end \in {"started", "disabled", "raised"} : StartComponent(end)
  \/ AppStarted
  \/ Launch
  \/ \E s \in Servers :
       \/ ServerBegins(s)
       \/ \E end \in ServerStates : ServerEnds(s, end)
       \/ \E r \in Requests : Receive(r, s)
  \/ \E r \in Requests : Answer(r)
  \/ StopRequested
  \/ ManageBegins
  \/ ManageWakes
  \/ \E ok \in BOOLEAN : StopComponent(ok)
  \/ AppStopped
  \/ CloseServers
  \/ Finish
  \/ Interrupt
  \/ CloseLoop
  \/ Over

Spec == Init /\ [][Next]_vars

(* The event loop serves the callbacks it has.  The components' stop and   *)
(* the requests' handlers come to an end; no more than that is assumed of  *)
(* the name service, which need not answer before it is cancelled.         *)
Fairness ==
  /\ \A s \in Servers : WF_vars(ServerBegins(s))
  /\ \A s \in Servers : WF_vars(Cancelling /\ \E end \in ServerStates : ServerEnds(s, end))
  /\ WF_vars(ManageBegins)
  /\ WF_vars(ManageWakes)
  /\ WF_vars(\E ok \in BOOLEAN : StopComponent(ok))
  /\ WF_vars(AppStopped)
  /\ WF_vars(CloseServers)
  /\ WF_vars(Finish)
  /\ WF_vars(CloseLoop)
  /\ \A r \in Requests : WF_vars(Answer(r))

FairSpec == Spec /\ Fairness

-----------------------------------------------------------------------------
(* Properties.                                                             *)

(* A server of the first run accepts connections only when its             *)
(* application's handler is built and every component in it has started,   *)
(* whether or not another server shares the application (app.py:55-68,     *)
(* server.py:101-110).                                                     *)
ServeReady ==
  runs = 1 =>
    \A s \in Servers : server[s] \in Accepting =>
      /\ appOf[s] \in handler
      /\ \A c \in comps[appOf[s]] : starts[appOf[s]][c] = 1

(* No component starts twice, although its application may be that of      *)
(* several servers and of several runs (app.py:55-58).                     *)
StartedOnce == \A a \in Apps, c \in Components : starts[a][c] <= 1

(* In the first run only a component that started is stopped: one that is  *)
(* disabled never is (app.py:59-66, 70-74).                                *)
StoppedWereStarted ==
  runs = 1 =>
    \A a \in Apps, c \in Components : stops[a][c] > 0 => starts[a][c] = 1

(* When the loop of the first run is closed, every component in use has    *)
(* been stopped, after Ctrl-C as well, unless a component raised on the way;*)
(* a _manage that never ran goes with servers that never listened          *)
(* (server.py:81-87, 117-123).                                             *)
GracefulStop ==
  runs = 1 /\ phase = "closed" /\ manage # "stopFailed" =>
    IF manage = "neverRan"
    THEN \A s \in Servers : server[s] \notin Accepting
    ELSE \A s \in Servers : \A c \in comps[appOf[s]] : stops[appOf[s]][c] > 0

(* A normal end of _manage leaves no server listening, whichever others    *)
(* failed or were cancelled while they began to (server.py:67-72, 88-94).  *)
(* It may leave a socket that leaked: _stop cancelled its task in the last *)
(* await of create_server, so nobody has the server to close it.           *)
SocketsClosed ==
  manage = "returned" =>
    \A s \in Servers : server[s] \in {"failed", "leaked", "closed"}

(* One server that cannot listen stops the whole run (server.py:67-72,     *)
(* 81-87).                                                                 *)
FailureStopsRun ==
  \A s \in Servers :
    server[s] = "failed" ~> manage \notin {"none", "created", "waiting"}

(* A run that is asked to stop ends, although a server may never come to   *)
(* listen or fail (server.py:81-94, 117-123).                              *)
StopEndsRun == stopEvent ~> phase = "closed"

-----------------------------------------------------------------------------
(* One call of run, seen by its components and its clients.                *)

Stage == CASE phase \in {"starting", "appStarting"} -> "starting"
           [] phase \in {"closed", "raised"}        -> "over"
           [] OTHER -> IF manage = "stopFailed" THEN "failing" ELSE "serving"

Life(a, c) ==
  IF stops[a][c] > 0 THEN "down"
  ELSE IF starts[a][c] > 0 THEN "up"
  ELSE IF c \in off[a] THEN "disabled" ELSE "new"

Door(s) == CASE server[s] \in Accepting -> "open"
             [] server[s] = "closed"    -> "shut"
             [] OTHER                   -> "new"

S == INSTANCE Service WITH
       stage <- Stage,
       life  <- [a \in Apps |-> [c \in Components |-> Life(a, c)]],
       door  <- [s \in Servers |-> Door(s)]

(* The first run implements Service, whichever servers share applications, *)
(* fail or are cancelled: components start in order and once each, servers *)
(* open after that, and what has started stops in order. A component stays *)
(* up when one raises, or when no server has opened: then _manage may not  *)
(* have run at all (wait=False). That the components of a shared           *)
(* application are stopped again is not seen (server.py:81-123,            *)
(* app.py:55-74).                                                          *)
KeepsService == S!Init /\ [][runs' = 1 => [S!Next]_S!vars]_vars

=============================================================================
