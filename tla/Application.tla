---------------------------- MODULE Application -----------------------------
(* The default application (levin/app.py): what its components do to a     *)
(* request on the way to the handler and to the result on the way back,    *)
(* when some of them are disabled, and what requests share: the routes and *)
(* the state of the profiler.                                              *)
(*                                                                         *)
(* The components are nested in this order, the outermost first:           *)
(*   patch_request push logger error_handle handler_timeout route          *)
(*   process_executor profile sync_to_async json_format text_format        *)
(*   templates injector add_request                                        *)
(* Nothing on the way in awaits but handler_timeout, which goes on in a    *)
(* task of its own, and what is before it touches only the request: Start  *)
(* is one action, up to the handler's first await or its hand-over to a    *)
(* pool.                                                                   *)
EXTENDS Naturals, Sequences, FiniteSets, SequencesExt

CONSTANTS
  Requests,     (* requests handled at the same time; each may be followed *)
                (* by another one once it is answered                      *)
  Asks,         (* what a client may ask for, see Matches                  *)
  FirstRoutes,  (* routes added before the start, in order                 *)
  LateRoutes,   (* routes that may be added while requests are handled     *)
  Configs,      (* sets of enabled components to consider                  *)
  MaxTargets,   (* bound on the list of targets                            *)
  Depth,        (* ProfileHandler.depth                                    *)
  NoOne

Components ==
  {"patch_request", "push", "logger", "error_handle", "handler_timeout",
   "route", "process_executor", "profile", "sync_to_async", "json_format",
   "text_format", "templates", "injector", "add_request"}

ASSUME ApplicationAssumption ==
  /\ Configs \subseteq SUBSET Components
  /\ Asks # {}
  /\ FirstRoutes \in Seq(Range(FirstRoutes))
  /\ MaxTargets \in Nat /\ Depth \in Nat
  /\ NoOne \notin Requests

VARIABLES
  on,       (* the enabled components                                      *)
  routes,   (* HttpRouter._routes                                          *)
  ask,      (* what each request asks for                                  *)
  phase,    (* of each request: idle, running, failing (its call raised),  *)
            (* cancelled (by its deadline), stubborn (its handler has      *)
            (* caught that and goes on), answered                          *)
  scope,    (* request._scope: for each key, who set it                    *)
  route,    (* the route found                                             *)
  runs,     (* how the handler runs: as a coroutine, in a thread or process*)
  busy,     (* requests whose handler occupies a thread                    *)
  profiled, (* requests inside _run_with_profile                           *)
  targets,  (* ProfileHandler._targets                                     *)
  lock,     (* who holds ProfileHandler._lock                              *)
  answer    (* what the chain returned for each request                    *)

vars == <<on, routes, ask, phase, scope, route, runs, busy, profiled, targets,
          lock, answer>>

-----------------------------------------------------------------------------
(* The scope of a request. A value is a function of the request's own      *)
(* bytes, which nobody changes, and of who set it: whether it is lazy and  *)
(* when it is computed makes no difference, so the setter stands for it.   *)

Owners == {"connection", "patch_request", "push", "logger", "route", "match",
           "meta"}

(* Mutant: the last one who sets a key wins.                               *)
SetAllRewrite(s, keys, owner) ==
  [k \in DOMAIN s \cup keys |-> IF k \in keys THEN owner ELSE s[k]]

(* Request.set without rewrite, for several keys: the first who sets a key *)
(* wins.                                                                   *)
SetAll(s, keys, owner) ==
  [k \in DOMAIN s \cup keys |-> IF k \in DOMAIN s THEN s[k] ELSE owner]

SetIf(enabled, s, keys, owner) == IF enabled THEN SetAll(s, keys, owner) ELSE s

Patched == {"data", "path", "query_params", "json", "content_type", "encoding"}

(* The scope when the request reaches the router.                          *)
Outer ==
  LET s0 == SetAll(<<>>, {"get_transport_info"}, "connection")
      s1 == SetIf("patch_request" \in on, s0, Patched, "patch_request")
      s2 == SetIf("push" \in on, s1, {"add_push"}, "push")
  IN SetIf("logger" \in on, s2, {"logger"}, "logger")

-----------------------------------------------------------------------------
(* The router. An ask is a path, cut into segments, with or without a      *)
(* trailing slash and a query, in UTF-8 or not; a route is a pattern whose *)
(* segments in args are named by their keys, and the meta its decorator was*)
(* given. A compiled pattern is taken as it is, every other one with the   *)
(* trailing slash optional.                                                *)

ArgNames(rt) == {rt.args[i] : i \in DOMAIN rt.args}

(* RegexpCondition and EqualsCondition on request.path, which without      *)
(* patch_request is the raw path, query included.                          *)
Matches(rt, a) ==
  /\ rt.method = a.method
  /\ a.query => "patch_request" \in on
  /\ Len(rt.segs) = Len(a.segs)
  /\ \A i \in DOMAIN rt.segs : i \in DOMAIN rt.args \/ rt.segs[i] = a.segs[i]
  /\ rt.compiled => rt.slash = a.slash

(* The handlers nobody adds: of an unknown path, and of an application     *)
(* without its router.                                                     *)
Unrouted(kind) ==
  [method |-> "ANY", segs |-> <<>>, args |-> <<>>, compiled |-> FALSE,
   slash |-> FALSE, meta |-> {},
   handler |-> [kind |-> kind, params |-> <<"request">>, gives |-> {"response"}]]

NotFound == Unrouted("sync")
Default  == Unrouted("async")

(* Mutant: the last match wins.                                            *)
ResolveLast(rs, a) ==
  LET i == SelectLastInSeq(rs, LAMBDA rt : Matches(rt, a))
  IN IF i = 0 THEN NotFound ELSE rs[i]

(* _resolve: the first route that matches.                                 *)
Resolve(rs, a) ==
  LET i == SelectInSeq(rs, LAMBDA rt : Matches(rt, a))
  IN IF i = 0 THEN NotFound ELSE rs[i]

(* HttpRouter.middleware: of {**groups, "pattern", **meta} the later entry *)
(* counts, and the scope keeps what it has.                                *)
Routed(s, rt) ==
  LET s1 == SetAll(s, {"get_url", "get_route"}, "route")
      s2 == SetAll(SetAll(s1, rt.meta, "meta"), {"pattern"}, "route")
  IN IF rt = NotFound THEN s1 ELSE SetAll(s2, ArgNames(rt), "match")

-----------------------------------------------------------------------------
(* The call of the handler. Its parameters are in order, each "request" or *)
(* the key of the scope its annotation injects.                            *)

(* Every parameter of a coroutine function is bound exactly once: the      *)
(* injected ones by name, request as the first positional argument.        *)
Bound(params) ==
  \A i \in DOMAIN params :
    IF params[i] = "request" THEN i = 1 /\ "add_request" \in on
                             ELSE "injector" \in on

(* How a handler runs, or "failing" if its call raises a TypeError. A      *)
(* profiled coroutine function is replaced by a _wrap that shows none of   *)
(* its parameters (utils/profile.py:161-162). A synchronous handler gets   *)
(* the request as its only argument, from a thread or from nobody.         *)
HowItRuns(h, s, traced) ==
  LET process == "process" \in DOMAIN s
      request == "add_request" \in on
  IN IF process /\ "process_executor" \in on
     THEN IF request /\ ~traced THEN "process" ELSE "failing"
     ELSE IF h.kind = "sync"
     THEN IF request /\ ~process /\ "sync_to_async" \in on THEN "thread" ELSE "failing"
     ELSE IF IF traced THEN h.params = <<>> ELSE Bound(h.params)
          THEN "coroutine" ELSE "failing"

(* What the handler of a request may give; a coroutine may end cancelled   *)
(* by whatever it awaits. To a process the request cannot be sent: its     *)
(* scope refers to the connection, whose transport is not to be pickled.   *)
Gives(r) ==
  LET h == route[r].handler IN
  CASE runs[r] = "coroutine"                      -> h.gives \cup {"raised", "cancelled"}
    [] runs[r] = "thread" /\ Len(h.params) = 1    -> h.gives \cup {"raised"}
    [] OTHER                                      -> {"raised"}

-----------------------------------------------------------------------------
(* The way back.                                                           *)

Answers == {"response", "error", "timeout"}   (* instances of Response      *)

(* TemplateFormat: a Template, and a dict when the scope names a template. *)
(* One that is named by a path argument is never found.                    *)
TemplateFormat(s, v) ==
  CASE "templates" \notin on                  -> v
    [] v = "dict" /\ "template" \in DOMAIN s  ->
         IF s["template"] = "match" THEN "raised" ELSE "response"
    [] OTHER -> IF v = "template" THEN "response" ELSE v

TextFormat(v) == IF v = "text" /\ "text_format" \in on THEN "response" ELSE v

JsonFormat(v) ==
  IF v \in {"dict", "list"} /\ "json_format" \in on THEN "response" ELSE v

Format(s, v) == JsonFormat(TextFormat(TemplateFormat(s, v)))

(* A path argument, which is bytes, under a key that a component reads.    *)
Argument(s, key) == key \in DOMAIN s /\ s[key] = "match"

HasLogger(s) == "logger" \in DOMAIN s /\ s["logger"] = "logger"

(* A profile follows the calls of the handler, to functions whose source   *)
(* may be out of reach.                                                    *)
Deep(s) == Depth > 1 \/ "depth" \in DOMAIN s

(* Whether the finally clause of profile raises. Of a request with profile *)
(* it makes the report, which fails over a function without source; for    *)
(* any other one it calls profile_condition, and request.logger when the   *)
(* request was slow.                                                       *)
NoteRaises(r, found) ==
  /\ "profile" \in on
  /\ IF r \in profiled
     THEN found = "sourceless"
     ELSE Argument(scope[r], "profile_condition") \/ (found = "slow" /\ ~HasLogger(scope[r]))

(* handler_timeout takes every cancelled task for a deadline that passed.  *)
TimeLimit(v) == IF v = "cancelled" /\ "handler_timeout" \in on THEN "timeout" ELSE v

(* Mutant: error_handle lets an exception pass.                            *)
ErrorHandleNothing(v) == v

(* CancelledError is an Exception like any other in Python 3.7.            *)
ErrorHandle(v) ==
  IF v \in {"raised", "cancelled"} /\ "error_handle" \in on THEN "error" ELSE v

(* LoggerComponent reads response.status and decodes what was asked for.   *)
Logged(a, v) == IF "logger" \in on /\ (v \notin Answers \/ ~a.utf8) THEN "raised" ELSE v

(* Bytes have no format(), and nothing can be appended to them.            *)
PushOfBytes(s) ==
  "push" \in DOMAIN s /\ (Argument(s, "push") \/ Argument(s, "_pushes"))

(* Push sets response.pushes, which the scope keeps under "_pushes"; added *)
(* says whether the handler has called add_push.                           *)
Pushed(s, v, added) ==
  LET pushes == "push" \in on /\ (added \/ {"push", "_pushes"} \cap DOMAIN s # {})
  IN IF pushes /\ (v \notin Answers \/ PushOfBytes(s)) THEN "raised" ELSE v

Outward(a, s, v, added) ==
  Pushed(s, Logged(a, ErrorHandle(TimeLimit(v))), added)

(* What the finally clause of profile may find: a request that took long,  *)
(* or a profile with a function whose source is out of reach.              *)
Founds == {"nothing", "slow", "sourceless"}

(* The requests on their way through the chain.                            *)
OnItsWay(r) == phase[r] \in {"running", "failing", "cancelled", "stubborn"}

Nothing == [value |-> "none", kind |-> "none"]

AnAsk == CHOOSE a \in Asks : TRUE

-----------------------------------------------------------------------------

Init ==
  /\ on \in Configs
  /\ routes = FirstRoutes
  /\ ask = [r \in Requests |-> AnAsk]
  /\ phase = [r \in Requests |-> "idle"]
  /\ scope = [r \in Requests |-> <<>>]
  /\ route = [r \in Requests |-> Default]
  /\ runs = [r \in Requests |-> "none"]
  /\ busy = {}
  /\ profiled = {}
  /\ targets = <<>>
  /\ lock = NoOne
  /\ answer = [r \in Requests |-> Nothing]

(* A call that failed takes its exception through the chain before the     *)
(* loop does anything else.                                                *)
Turn == \A r \in Requests : phase[r] # "failing"

(* Mutant: the lock is not looked at.                                      *)
TracedUnlocked(a) == "profile" \in on /\ a \in Range(targets)

(* Whether ProfileHandler.middleware traces a request. Its hash is its     *)
(* method and raw path.                                                    *)
Traced(a) == "profile" \in on /\ a \in Range(targets) /\ lock = NoOne

(* A request comes in. The test for a profile and what follows from it are *)
(* one step.                                                               *)
Start(r, a) ==
  /\ Turn
  /\ phase[r] \in {"idle", "answered"} /\ r \notin busy
  /\ LET routed == "route" \in on
         rt     == IF routed THEN Resolve(routes, a) ELSE Default
         s      == IF routed THEN Routed(Outer, rt) ELSE Outer
         traced == Traced(a)
         how    == HowItRuns(rt.handler, s, traced)
     IN /\ ask' = [ask EXCEPT ![r] = a]
        /\ route' = [route EXCEPT ![r] = rt]
        /\ scope' = [scope EXCEPT ![r] = s]
        /\ runs' = [runs EXCEPT ![r] = how]
        /\ phase' = [phase EXCEPT ![r] = IF how = "failing" THEN how ELSE "running"]
        /\ busy' = IF how = "thread" THEN busy \cup {r} ELSE busy
        /\ IF traced
           THEN /\ lock' = r
                /\ targets' = RemoveFirst(targets, a)
                /\ profiled' = profiled \cup {r}
           ELSE UNCHANGED <<lock, targets, profiled>>
  /\ answer' = [answer EXCEPT ![r] = Nothing]
  /\ UNCHANGED <<on, routes>>

(* Mutant: an exception leaves the lock as it is.                          *)
UnlockAfterReturn(r, v) ==
  /\ profiled' = profiled \ {r}
  /\ lock' = IF lock = r /\ v \notin {"raised", "cancelled"} THEN NoOne ELSE lock

(* The end of "async with self._lock".                                     *)
Unlock(r, v) ==
  /\ profiled' = profiled \ {r}
  /\ lock' = IF lock = r THEN NoOne ELSE lock

(* The way out of profile and the components around it, with the value v.  *)
(* A request without profile that took long appends its target. Of a       *)
(* request that is answered nothing is kept but the answer.                *)
Leave(r, v, found, added) ==
  /\ found = "slow" =>
       /\ "profile" \in on /\ r \notin profiled /\ Len(targets) < MaxTargets
       /\ ~Argument(scope[r], "profile_condition")
  /\ found = "sourceless" => r \in profiled /\ Deep(scope[r])
  /\ added => "push" \in on /\ runs[r] \in {"coroutine", "thread"}
  /\ LET w == IF NoteRaises(r, found) THEN "raised" ELSE v
     IN /\ targets' = IF found = "slow" /\ HasLogger(scope[r])
                      THEN Append(targets, ask[r]) ELSE targets
        /\ answer' = [answer EXCEPT ![r] =
                        [value |-> v, kind |-> Outward(ask[r], scope[r], w, added)]]
  /\ Unlock(r, v)
  /\ phase' = [phase EXCEPT ![r] = "answered"]
  /\ ask' = [ask EXCEPT ![r] = AnAsk]
  /\ scope' = [scope EXCEPT ![r] = <<>>]
  /\ route' = [route EXCEPT ![r] = Default]
  /\ runs' = [runs EXCEPT ![r] = "none"]
  /\ UNCHANGED <<on, routes>>

(* The handler ends, or its call has failed.                               *)
Finish(r, v, found, added) ==
  /\ phase[r] = "failing" \/ (phase[r] \in {"running", "stubborn"} /\ Turn)
  /\ v \in Gives(r)
  /\ Leave(r, Format(scope[r], v), found, added)
  /\ busy' = busy \ {r}

(* Mutant: only a coroutine is cancelled.                                  *)
DeadlineCoroutine(r) ==
  /\ Turn
  /\ phase[r] = "running" /\ runs[r] = "coroutine"
  /\ "handler_timeout" \in on
  /\ phase' = [phase EXCEPT ![r] = "cancelled"]
  /\ UNCHANGED <<on, routes, ask, scope, route, runs, busy, profiled, targets,
                 lock, answer>>

(* _timeout_manager wakes and cancels the task of the handler, once.       *)
Deadline(r) ==
  /\ Turn
  /\ phase[r] = "running"
  /\ "handler_timeout" \in on
  /\ phase' = [phase EXCEPT ![r] = "cancelled"]
  /\ UNCHANGED <<on, routes, ask, scope, route, runs, busy, profiled, targets,
                 lock, answer>>

(* The CancelledError goes out through the chain. A thread runs on.        *)
Cancelled(r, found, added) ==
  /\ Turn
  /\ phase[r] = "cancelled"
  /\ Leave(r, "cancelled", found, added)
  /\ UNCHANGED busy

(* A coroutine catches it and goes on. What waits for a thread or for a    *)
(* process cannot.                                                         *)
Catch(r) ==
  /\ Turn
  /\ phase[r] = "cancelled" /\ runs[r] = "coroutine"
  /\ phase' = [phase EXCEPT ![r] = "stubborn"]
  /\ UNCHANGED <<on, routes, ask, scope, route, runs, busy, profiled, targets,
                 lock, answer>>

ThreadEnds(r) ==
  /\ Turn
  /\ r \in busy
  /\ phase[r] \in {"cancelled", "answered"}
  /\ busy' = busy \ {r}
  /\ UNCHANGED <<on, routes, ask, phase, scope, route, runs, profiled, targets,
                 lock, answer>>

(* HttpRouter.add and clean.                                               *)
AddRoute(rt) ==
  /\ Turn
  /\ rt \notin Range(routes)
  /\ routes' = Append(routes, rt)
  /\ UNCHANGED <<on, ask, phase, scope, route, runs, busy, profiled, targets,
                 lock, answer>>

Clean ==
  /\ Turn
  /\ routes' = <<>>
  /\ UNCHANGED <<on, ask, phase, scope, route, runs, busy, profiled, targets,
                 lock, answer>>

Next ==
  \/ \E r \in Requests, a \in Asks : Start(r, a)
  \/ \E r \in Requests, found \in Founds, added \in BOOLEAN :
       \/ \E v \in Gives(r) : Finish(r, v, found, added)
       \/ Cancelled(r, found, added)
  \/ \E r \in Requests : Deadline(r) \/ Catch(r) \/ ThreadEnds(r)
  \/ \E rt \in LateRoutes : AddRoute(rt)
  \/ Clean

Spec == Init /\ [][Next]_vars

(* Time passes and the loop runs every callback that is due, however many  *)
(* requests come in meanwhile, so a deadline comes and the cancellation it *)
(* makes reaches the handler; the exception of a failed call is on its way.*)
(* No handler is assumed to end, nor to let a cancellation pass.           *)
Fairness ==
  \A r \in Requests :
    /\ WF_vars(phase[r] = "failing" /\ Finish(r, "raised", "nothing", FALSE))
    /\ SF_vars(Deadline(r))
    /\ SF_vars(Cancelled(r, "nothing", FALSE) \/ Catch(r))

FairSpec == Spec /\ Fairness

-----------------------------------------------------------------------------

(* The types of the variables; only a request on its way holds the lock.   *)
TypeOK ==
  /\ on \in Configs
  /\ routes \in Seq(LateRoutes \cup Range(FirstRoutes))
  /\ ask \in [Requests -> Asks]
  /\ phase \in [Requests -> {"idle", "running", "failing", "cancelled", "stubborn",
                            "answered"}]
  /\ \A r \in Requests : Range(scope[r]) \subseteq Owners
  /\ runs \in [Requests -> {"none", "coroutine", "thread", "process", "failing"}]
  /\ busy \subseteq Requests /\ profiled \subseteq Requests
  /\ targets \in Seq(Asks) /\ Len(targets) <= MaxTargets
  /\ lock # NoOne => lock \in Requests /\ OnItsWay(lock)

(* Nothing in a path or in the meta of a route takes the place of what a   *)
(* component has put into the scope: a handler's request.logger is the     *)
(* logger whatever its path arguments are called (common.py:90-94,         *)
(* router.py:171-177).                                                     *)
ComponentKeysKept ==
  \A r \in Requests :
    OnItsWay(r) =>
      /\ "logger" \in on => scope[r]["logger"] = "logger"
      /\ "patch_request" \in on => \A k \in Patched : scope[r][k] = "patch_request"
      /\ "push" \in on => scope[r]["add_push"] = "push"

(* At most one request runs with profile, and it holds the lock            *)
(* (profiling.py:33-46).                                                   *)
OneProfile == profiled = {lock} \ {NoOne}

(* Whether the end of a request may meet an exception of a component's own *)
(* inside error_handle: without its logger a slow request fails            *)
(* (profiling.py:55), a path argument may be called profile_condition      *)
(* (profiling.py:52), and of a deep profile the report may fail            *)
(* (profiling.py:43, profile.py:233-234);                                  *)
NoteAtRisk(r) ==
  /\ "profile" \in on
  /\ IF r \in profiled
     THEN Deep(scope[r])
     ELSE Argument(scope[r], "profile_condition") \/ ~HasLogger(scope[r])

(* and outside it: the logger cannot decode every path (logger.py:47), and *)
(* a path argument may be called push or _pushes (h2.py:14-17).            *)
ExitAtRisk(r) ==
  \/ "logger" \in on /\ ~ask[r].utf8
  \/ "push" \in on /\ PushOfBytes(scope[r])

(* Whichever components are disabled, a result that is a Response once     *)
(* formatted reaches the connection as it is, a cancelled handler is       *)
(* answered by handler_timeout, and with error_handle every exception      *)
(* becomes a response, but for the risks above; they too end in an error   *)
(* response or an exception, never in another result. With the logger no   *)
(* value that is no Response reaches the connection (common.py:26-33,      *)
(* formating.py, logger.py:37-56, h2.py:11-18).                            *)
Arrives(r) ==
  LET x == answer'[r] IN
  phase[r] # phase'[r] /\ phase'[r] = "answered" =>
    /\ x.kind \in {TimeLimit(x.value), "error", "raised"}
    /\ ~ExitAtRisk(r) /\ ~NoteAtRisk(r) =>
         /\ x.value = "response" => x.kind = "response"
         /\ x.value = "cancelled" /\ "handler_timeout" \in on => x.kind = "timeout"
    /\ ~ExitAtRisk(r) /\ x.value = "raised" /\ "error_handle" \in on => x.kind = "error"
    /\ "logger" \in on => x.kind \in Answers \cup {"raised"}

ResultsReachTheClient == [][\A r \in Requests : Arrives(r)]_vars

(* A route added later takes no path from the routes before it             *)
(* (router.py:76-81, 120-128).                                             *)
RoutesStay ==
  [][routes' = <<>> \/ \A a \in Asks :
       Resolve(routes, a) # NotFound => Resolve(routes', a) = Resolve(routes, a)]_vars

(* With handler_timeout every request is answered, and has given the lock  *)
(* of the profiler back by then, even if its thread, its process or its    *)
(* coroutine never ends; only a coroutine that catches the CancelledError  *)
(* of its deadline is not cut short, since a deadline cancels only once    *)
(* (limit.py:16-31, profiling.py:34-43, concurrent.py:25-29).              *)
EveryRequestAnswered ==
  \A r \in Requests :
    "handler_timeout" \in on /\ OnItsWay(r)
      ~> \/ phase[r] = "answered" /\ lock # r
         \/ phase[r] = "stubborn" /\ runs[r] = "coroutine"

=============================================================================
