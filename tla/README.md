# Levin, specified in TLA+

Levin is an asyncio web framework (Python 3.7) that speaks HTTP/1.1 and HTTP/2.
These modules model the parts of it where the order of events decides whether it
is right: the connection, the two HTTP/1 parsers behind it, the HTTP/2 side with
its pushes and flow control, the time limit over the thread pool, the default
application with its components, routes and profiler, the tracer the profiler
uses, and the life of a server process. TLC checks them on small instances; TLAPS
proves every invariant and every action property that the passing runs check, and
two refinements, for every value of the constants. Paths below are relative to
`src/levin/`; inside `core/` and `components/` the file name alone is given where
it is unambiguous.

Contents: [inventory](#1-inventory) · [modules](#2-modules-and-the-code) ·
[runs](#3-runs) · [fairness](#4-fairness) · [proofs](#5-proofs) ·
[findings](#6-disagreements-with-the-documentation) ·
[not modelled](#7-not-modelled) · [plan](#8-plan)

## 1. Inventory

### Components

| Part | State | Operations | Correct when |
|---|---|---|---|
| connection (`core/connection.py`) | transport, chosen parser, `_futures`, one future and one task per request | `connection_made`, `data_received`, `eof_received`, `connection_lost`, `close`, `handle_request`, `handle_push`, `_done_callback`, `_close_callback`, `_write_500` | the list holds exactly the undecided futures; each request is answered once, and on an open connection left in silence only if h2 takes no answer to it any more; a GOAWAY closes the connection after the request it came with |
| HTTP/2 parser (`core/parsers/hyper.py`) | the h2 connection, `_streams`, `push_support` | `handle_request`, `_parse_event`, `handle_response`, `_handle_http1` | each handler gets its own whole body; nothing follows the end of a stream; the end of a response without pushes means that the whole body went out (one with pushes leaves the end to its first push, also when it was cut itself); no stream is left open but for named reasons |
| HTTP/1 parsers (`core/parsers/http_simple.py`, `http_tools.py`) | none between chunks | `handle_request`, `handle_response` | no message makes two requests, whether it is cut between its lines or inside one, as long as no second line of it has a request line in it; a client that waits for each answer gets it in its turn or loses the connection |
| handler_timeout (`components/limit.py`) | a timer and an inner task per request | `middleware`, `_timeout_manager` | an answered request leaves nothing behind; every request that waits for a thread is answered, unless the pool is being stopped |
| sync_to_async, process_executor (`components/concurrent.py`) | the executor and its queue | `start`, `stop`, `middleware` | late results reach nobody; nothing runs after `stop` |
| application and components (`core/app.py`, `core/component.py`) | `__start`, `_components`, the built handler | `start`, `stop`, `configure`, `add` | components start once, before the first connection; only what started is stopped |
| server (`core/server.py`) | the tasks of the servers and of `_manage`, the stop event, the loop | `run`, `get_task`, `_manage`, `_stop` | one failed server stops the run; a stop ends; no server is left listening when `_manage` ends normally |
| push (`components/h2.py`) | the pushes of a request | `middleware` | a push is sent or refused by h2, and touches no stream that has ended |
| request scope (`core/common.py`, `components/common.py`) | the scope of a request: values and lazy attributes | `set`, `get`, `middleware` of patch_request and error_handle | what was set first stays, so no path argument or meta takes the place of a component's key |
| router (`components/router.py`) | the list of routes | `add`, `_resolve`, `url`, `middleware` | the first match wins, also while routes are added |
| profile (`components/profiling.py`, `utils/profile.py`) | the targets, a lock, the tracer | `middleware`, `_run_with_profile` | one profile at a time, whose lock is given back with the answer of its request; the tracer raises into the program for two reasons only, and without them reports each line where it belongs |
| formats (`components/formating.py`) | none | conversions of a handler's result | a response reaches the client whichever components are disabled, unless the code of a component raises on the way out |
| inject, add_request, logger (`components/inject.py`, `components/logger.py`) | none that lasts | `middleware` | every parameter of a handler is bound once |
| cli, typing | none that lasts | reflection and console output | — |

### How they interact

The event loop calls the connection (`data_received`, `connection_lost`). The
connection asks its parser for complete requests and starts a task for each
with `run_coroutine_threadsafe`, which gives it a `concurrent.futures.Future`
that is not the task: the two are chained by callbacks of the loop. The task
calls the application's handler, a chain of middlewares that
`handler_timeout` cuts into two tasks and a timer; `sync_to_async` leaves the
loop for a thread. The response goes back through the parser, which writes it
to the transport and may start a task per push. `run` owns the loop, starts the
applications before it and stops them when the stop event is set; `_stop`
cancels every task that is left.

### What is hard

* **Callbacks inside loops.** `close` and `connection_lost` iterate over
  `_futures` while `_done_callback` removes from it, and `_close_callback` may
  enter `close` again from within.
* **Two objects for one request.** A future can be decided by the loops while
  its task runs on; the task's end arrives a turn later.
* **Cancellation races.** A deadline, a lost connection and a thread's result
  can fall in the same turn; a cancellation that arrives before the first step
  of a task behaves unlike one that arrives later.
* **Threads** that no cancellation reaches, behind a queue one can withdraw
  from only until a thread has taken the work.
* **Shared applications.** Two servers may have the same application, which
  starts once and is stopped once for each of them.
* **Flow control.** The window may run out in the middle of a body, and a
  pushed response is measured by the window of another stream.
* **Chunks.** HTTP/1 parsers keep nothing between chunks, and the network cuts
  and joins messages as it likes, inside a line too, where each piece may read
  as something else.
* **One scope for all.** Path arguments, the meta of a route and the components
  write their keys into the same map, and some keys switch features on or are
  called.
* **A profile of a living loop.** The profile function sees every task of the
  thread, and functions become targets while they run, whether their source can be
  found or not.
* **Shared streams.** All pushes of a request use its stream, which the first
  of them ends.

`PROJECT.json` lists these hazards with their lines and the properties that
cover each.

## 2. Modules and the code

| Module | Models | Extended or used by |
|---|---|---|
| `Connection` | `core/connection.py` | `MCConnection`, `ConnectionProofs` |
| `Exchange` | what a connection promises its client, independent of how | instantiated by `Connection` |
| `HandlerTimeout` | `components/limit.py` over the pool of `components/concurrent.py` | `MCHandlerTimeout`, `HandlerTimeoutProofs` |
| `Lifecycle` | `core/server.py`, `core/app.py`, `core/component.py` | `MCLifecycle`, `LifecycleProofs` |
| `Service` | what one call of `run` promises for components and servers | instantiated by `Lifecycle` |
| `Http2` | `core/parsers/hyper.py`, the request and push tasks of `core/connection.py` | `MCHttp2`, `Http2Proofs` |
| `Http1` | `core/parsers/http_simple.py`, `http_tools.py`, the upgrade in `hyper.py`, the choice of a parser in `core/connection.py` | `MCHttp1`, `Http1Proofs` |
| `Application` | `app.py`: the chain of all its components; `components/router.py`, `profiling.py`, `formating.py`, `inject.py`, `logger.py`, `h2.py`, `common.py`, the scope of `core/common.py` | `MCApplication`, `ApplicationProofs` |
| `Tracer` | `utils/profile.py` | `MCTracer`, `TracerProofs` |
| `NumberLemmas` | nothing of the code: least and greatest elements, induction, folds | `ApplicationProofs`, `TracerProofs`, `Http1Proofs` |

`PROJECT.json` maps each definition to its lines. What follows is what one
needs to know to read the modules.

### Connection

One action is one callback of the loop, which nothing interrupts; the two loops
over `_futures` are the exception. They appear as a stack `calls` of iterators,
one turn per action (`LoopTurn`), because a turn decides a future, whose
callbacks run at once: they remove the future from the list under the iterator
and may push a second loop on the stack. While the stack is not empty no other
action is enabled.

`fut` is the `concurrent.futures.Future`, `task` the task behind it. `Settle`
copies the task's end to the future one turn later, unless a loop decided the
future first. `cancel` follows the cancellation on its way to the task, which may
still end in any way. A response is one of the outcomes of `write_response`:
complete, with pushes to follow, cut short after its first bytes (HTTP/1, a body
that is not bytes), the stock 500, or refused by the parser. A refused one
reaches nobody. `shut` is what the connection notices of h2: the requests whose
stream takes no response headers any more, because the client has reset it
(`StreamReset`) or sent a GOAWAY, or because a response went over it; for these
the stock 500 is refused as well (`Stock`).

`Link`, `Status` and `Waived` map a connection to `Exchange`: the link is up while
the transport is open; a request is open while its future is pending, dropped
when a loop decided it, answered when a response of which the client got at
least the head was written, and silent otherwise. A request is waived when its
stream is shut and it has no answer: only such a request may end in silence while
the link is up. Once the link is down a request may end in any way.

### HandlerTimeout

Three tasks per request: the outer one suspended in `TimeLimit.middleware`, the
inner one it created for the rest of the chain, and the timer. `cancelling` is
`task.cancel()` under way to an inner task, `check` the call one turn later that
withdraws the work item from the queue. Threads take and finish work at any
time, also while `stop` blocks the loop (`pool = "stopping"`): then no action of
the loop is enabled. A `CancelledError` is an `Exception` in Python 3.7, so the
except clause turns every cancellation, the connection's too, into the 500
"Timeout" (`Answer`).

### Lifecycle

`phase` is how far `run` is; `at` and `todo` are its position in the loops over
servers and components. A server's task and `_manage` go through the states of
`server` and `manage`; a cancellation of a task that never took its first step
is a state of its own. `_manage` ends in one of three ways, one of them being
the `InvalidStateError` of `result()` on a server that is still binding. A new
call of `run` starts from the applications as the last one left them.

`Stage`, `Life` and `Door` map the first run to `Service`: a component is new, up,
disabled or down; a server's door is new, open or shut. A second stop of a
component, which a shared application gets, changes nothing there. Later runs
implement nothing of the kind: what was stopped is not started again, and their
servers open all the same (`lifecycle_again`).

### Http2

Octets are counted, not told apart. The peer sends frames of any stream in any
order, resets streams, grows windows and disables push. `handle_response` is a
sequence of steps (`SendData`, then `CutShort`, `SendRaises` or the end) between
which nothing else runs, as the code has no await there. h2 is external and
modelled from the calls of the code: its stream states, `local_flow_control_window`,
the `FlowControlError` of `send_data` and the refusals of `push_stream`. A
response is given by its octets and its number of pushes; a push that is
promised takes a stream of `Promised`.

### Http1

A message is a sequence of lines, told apart only as far as the parsers tell them
apart: request line, header (the two of an upgrade by name), a line without a
colon, a blank line, text, and text with one request line in it ("see GET /b
HTTP/1.1"). The network joins messages and cuts them anywhere: `Cut` makes two
pieces of a line, and `Cuts` lists what the pieces of a line of each kind read
like. The front of a request line may end before its path, inside it or inside
the version; the back may still have three segments. A line knows its message and
whether it is the last one, which is what Content-Length tells httptools. Each
parser is a fold over the lines of a chunk; the simple one takes a line without
an end for a whole one, httptools waits for its end. `Deliver` hands over any
beginning of what is on the wire that has a front only at its end, so a chunk may
be a part of a message, or several messages, and may begin inside a line.
`OnceAndInOrder` and `ReadsOneMessage` are about messages with at most one line
that has a request line in it (`AllPlain`): where a chunk begins with that
request line, it is taken for one, wherever it stood. `Choice` is
`Connection._parse`: a `ParseError` passes the chunk on to the next parser, any
other exception leaves `data_received`, and asyncio aborts the transport. A
response without a body but with headers is never terminated
(`http_simple.py:52-57`), so a patient client stops there: `Answer` with the
outcome "open".

### Application

The chain of the default application, in its order, for every set `on` of enabled
components. `Start` is the way in, `Leave` the way out; between them a handler
runs as a coroutine, in a thread, or its call has failed. `Deadline` cancels a
request, once; then the cancellation goes out through the chain (`Cancelled`), or
the handler, if it is a coroutine, catches it and goes on (`Catch`): the
deadline does not cancel it again. On the way out code of a component may raise in place
of the result: profile's finally clauses (`NoteRaises`), the logger over a path
that is not UTF-8 or a value that is no response (`Logged`), push over a pattern
that is bytes (`Pushed`). The scope of a request is a map from keys to who has
set them: a value is a function of the request's own bytes and of its setter,
lazy or not, so nothing else about it can change. Routes are lists of segments
with named arguments; `Resolve` is the first match. A handler is given by its
parameters in order and by the kinds of results it may return; it may always
raise. Four things are assumed: what is profiled is a function with source, a response
has a body with a length, a push pattern in the meta of a route is a string that
names keys of the scope, and the loss of a connection is the business of
`Connection` and `HandlerTimeout`.

### Tracer

`stack` is the stack of the traced thread from the target upwards, `calls` the
records, `targets` the functions whose lines are timed; a call or return of a C
function looks like one of a Python function that calls nothing. A coroutine
that awaits is `Switch`: below it the loop may run any function of the thread.
When a function becomes a target its source is looked for; `Sourceless` are the
functions without one (frozen modules, generated code), over which
`inspect.getsource` raises inside the profile function (`SourceMissing`): the
exception goes to the program, and the function stays a target without a source.
`Report` is `get_lines`, which needs the source of every target (`Sourced`).

## 3. Runs

| Run | Instance | Shows |
|---|---|---|
| `connection` | 3 requests, 2 pushes each, see below; 195 k states | the list of futures is exact, answers are given once, a GOAWAY waits, at least half of the pending requests are stopped, and `Exchange` is implemented, in particular silence on an open connection only where h2 takes no answer; every request is decided and a GOAWAY closes the transport however requests end |
| `handler_timeout` | 2 requests, 1 thread; 25 k states | nothing is left behind an answer, late results reach nobody, a stopped pool is idle, a request that waits for a thread is answered though no thread ever ends |
| `lifecycle` | 2 servers, 2 applications, 2 components, 1 request, 2 calls of `run`; 257 k states | the first run implements `Service`: no request is handled before its components have started, a stop reaches exactly what started, in order, and no server is left listening; a failed server stops the run, a stop ends |
| `http2` | 2 streams, 2 promised ones, bodies up to 1 octet, 2 pushes, window 1; 1.3 M states | requests stay whole when interleaved, nothing follows END_STREAM, streams stay open only for the named reasons |
| `http2_flow` | 1 stream and a promised one, bodies up to 4 octets, window 3, frames of 2, growth 2 | the write loop ends, END_STREAM without pushes means a whole body, frames stay in the buffer only after a cut |
| `http1` | 2 messages of 7 shapes, each line cut at most once, patient clients and others; 264 k states | no message makes two requests, a patient client gets each answer in its turn or loses the connection, a handler sees one message up to its cut |
| `application` | 2 requests at a time, 4 asks, 4 routes, 1 target, depth 2, all components or all but one of six; 143 k states | components' keys are kept, one profile at a time, routes stay, responses and errors reach the client but for the named exceptions, every request is answered and gives the lock back unless its coroutine catches the cancellation |
| `tracer` | 4 functions of 2 lines, one without source, depth 1 to 3, a stack of 5; 3.1 M states | the tracer raises for two reasons only, no line is left without an end, every line is reported in its place |
| four more | see [findings](#6-disagreements-with-the-documentation) | each refutes what a document or comment says |

Why these bounds are enough to see the interesting cases:

* Three requests are the least for which a loop over `_futures` passes over one
  and still meets another; two chunks of data with a GOAWAY between them fit as
  well. Two pushes are the least for which one fails while the other runs on.
  Three requests are explored only as long as none of them has promised a push
  (`Small` in `MCConnection`); two are explored with all their pushes. The
  liveness properties are about the behaviours that stay within this bound.
* Two requests and one thread are the least for which a request waits in the
  queue behind one whose deadline has passed.
* Two servers and two applications give both the shared and the separate case
  (`appOf` is chosen in the initial state), and a failing server beside one
  that listens. Two components give a failing one after one that has started.
  Two calls of `run` show what the first leaves behind.
* In `http2` a window of one octet is exhausted by the first frame of either
  stream, so every order of exhaustion and growth occurs; the two pushes of one
  stream compete for its end. A frame that h2 refuses for its size needs larger
  windows and belongs to `http2_raised`. The streams are interchangeable, and so
  are the promised ones, so symmetry is sound: the run has no liveness property.
  In `http2_flow` a body of 4 takes several frames, ends in the middle of a
  window or with it, and the window of the request's stream can exceed that of
  the push.
* In `http1` a second message follows one that was cut, or is joined with what is
  left of it. The shapes have a body with a blank line in it, one with a request
  line in it, a blank line in front, an upgrade, and a message that is not HTTP,
  so that each parser is chosen, refuses and raises. A line is cut once: a second
  cut of the same line could only take more of a request line away. Without
  `AllPlain` both invariants fail, with the body that has a request line in it.
  The proofs cover every shape and any number of messages.
* In `application` the path argument of one route is called `logger`, of another
  `push`, of the late one `profile_condition`; that one is compiled and overlaps
  the others, and one path is not UTF-8. A second profile may be due while the
  first runs, because a slow request appends its target again after the profile
  took it out, so one place in the list is enough.
* In `tracer` depth 3 is the least at which a function can be a target twice; two
  lines distinguish a repeated call from another one. The functions with source
  below the target are interchangeable, and no property is a liveness property.

Counters that the code does not bound and the models do: requests of a
connection (`MaxRequests`), pushes of a response (`MaxPushes`), calls of `run`
(`MaxRuns`), octets of a body (`MaxBody`), octets of window updates
(`MaxGrowth`), messages of an HTTP/1 connection (`MaxMessages`), the list of
profile targets (`MaxTargets`), the stack of a traced program (`MaxStack`).

No run disables the deadlock check. Where a system has come to rest, the action
`Over` of its module says when that is right.

## 4. Fairness

* `Connection`: the loop serves every callback it was given, and handlers and
  pushes end, which `handler_timeout` sees to unless a coroutine catches its
  cancellation. Nothing is assumed of the peer: it may send nothing, and
  `connection_lost` may never come, because a closing transport waits for data
  the peer need not read.
* `HandlerTimeout`: the loop serves its callbacks and time passes, so timers
  fire. No thread and no async handler is assumed to end: that is what the
  component is for.
* `Lifecycle`: the loop serves its callbacks; a component's `stop` and the
  handlers of requests end, since `_manage` and `_stop` await them without a
  limit. The binding of a server is assumed to end only once it is cancelled:
  the name service owes no answer. Nobody is assumed to ask for a stop.
* `Http2`: the write loop goes on. It contains no await, so nothing can keep it
  from its next step.
* `Http1`: the network delivers what was sent and handlers end. The client owes
  nothing.
* `Application`: time passes, so a deadline comes, its cancellation reaches the
  handler, and an exception on its way goes on. No handler and no thread is
  assumed to end, and no coroutine to let a cancellation pass. A deadline and the
  cancellation get strong fairness: they are not enabled while another request's
  exception is on its way, but the loop runs every callback that is due in turn,
  however many requests come in.
* `Tracer` states safety only.

The rest is weak fairness: no action that matters there is switched on and off by
another process.

## 5. Proofs

The theorems hold for all constants that satisfy the modules' assumptions
(`ConnectionAssumption`, `HandlerTimeoutAssumption`, `LifecycleAssumption`,
`Http2Assumption`, `Http1Assumption`, `ApplicationAssumption`,
`TracerAssumption`). They say that bounds are natural numbers, that a message has
lines of known kinds, that the target is a function with source, and for
`Application` that there is something to ask for and that the first routes form a
list. Each module of proofs has one inductive invariant, three facts (it holds
initially, one lemma per action, every step keeps it) and a theorem for each
property.

| Module | Theorems | What the invariant adds to the properties |
|---|---|---|
| `ConnectionProofs` | `TypeCorrect`, `ListIsExact`, `AnsweredOnce`, `CloseIsOwed`, `OnlyLossCancels`, `AtLeastHalfStopped`; `Refinement`: `Spec => E!Spec` | that requests not yet received have left no trace; what a task in each state has written (else a second answer could not be excluded); who decided a future (else a settled task could settle again); that no loop runs on an open transport; for `Refinement` that a request decided on an open connection has been answered or its stream is shut (`Heard`) |
| `HandlerTimeoutProofs` | `TypeCorrect`, `NothingLeftBehind`, `StopJoins`, `LateResultsReachNobody` | that a cancellation is owed to every task that awaits the pool past its deadline, that a withdrawal belongs to such a task, and that a queued item is in the queue and awaited |
| `LifecycleProofs` | `TypeCorrect`, `ComponentsStartOnce`, `ServersStartLast`, `OnlyStartedStop`, `StopsAreComplete`, `NoServerListens`; `RunIsService`: the first run implements `Service` | where the start and the stop are in their double loops and what is true of the part behind them, in particular when two servers share an application |
| `Http2Proofs` | `TypeCorrect`, `RequestsAreWhole`, `EndedStreamsAreWhole`, `NoStreamForgotten`, `EndIsFinal`, `BufferIsFlushed` | that the body so far is what the peer sent, that an ended stream is closed, that a promised stream's parent has ended, and that a half-closed stream whose body went out has announced pushes |
| `Http1Proofs` | `TypeCorrect`, `MessagesOnceInOrder`, `OneMessageRead` | that lines carry the number of their message, that request lines on the wire are in order and behind those read, and for a patient client that its last message lies whole on the wire from its request line on |
| `ApplicationProofs` | `TypeCorrect`, `OneIsProfiled`, `KeysAreKept`, `ResultsArrive`, `FirstRouteWins` | that the lock's holder is on its way (else a second profile could begin before the first has left), and that the scope of every request on its way keeps the components' keys |
| `TracerProofs` | `TypeCorrect`, `RaisesInTwoCases`, `ReportsAreRight` | that a frame which has called has a place among the targets for itself and for each frame of its function below it, and a record of the line it calls from; for the report, that a line has one record at a depth |

`ConnectionProofs` begins with two lemmas about the list of futures: what
`list.remove` and the extension by new futures do to a list in which nothing
occurs twice. `ListHoldsPending` is what makes the type invariant hold at all:
`list.remove` raises for a value it cannot find. The proof of `AtLeastHalfStopped`
counts (`StopsCounted`): the loop of `connection_lost` is the bottom of the stack,
and each of its turns stops a request, so where it has come to is at most one
more than the requests stopped, whatever the loops above it do to the list; where
it ends, the list is no longer than that. The refinement maps every action to a
step of `Exchange` or a stutter, one lemma per kind of step. So does the one of
`RunIsService`, which needs to know how far the stops have come (`FirstRun`): an
application other than the one that is stopping is stopped as a whole or not at
all, also when several servers share it.

The argument for `KeysAreKept` goes over the scope: `SetAll` never changes a key
that is there, the components in front of the router have no key in common, and
so whatever a route adds comes too late (`OuterKept`, `RoutedKept`).
`FirstRouteWins` rests on the least matching place of a list being that of every
longer one (`AppendResolve`).

`TracerProofs` is about depths. A target added later leaves the depth of a frame
as it was or takes it away (`DepthStays`), because a frame that has called has as
many places as frames of its function reach up to it (`Settled`); so a return
finds the record of its call or looks for none. Only a coroutine that recurses
escapes this: another task's frames stand where the recursion is counted. A
function without source becomes a target of a profile of depth 2 or more only
(`EventSourced`).

`Http1Proofs` follows the folds of the two parsers line by line. `FoldExists`
turns a fold into the sequence of its intermediate values, and an invariant of
one line (`SimpleLineAt`, `ToolsLineAt`) carries through it (`SimpleMakes`,
`ToolsMakes`): what a parser makes of a chunk is a request line of the chunk, the
lines behind it up to the first blank one, and those behind a blank one to the
end. With the order of the lines on the wire that line belongs to a message not
yet read, which is `OnceAndInOrder`; for a message that lies whole on the wire, the request is its
reading up to the cut, which is `ReadsOneMessage`. The proof showed what both
need of the client: a message whose body contains a request line, on a line of its
own or inside one, may be taken for two when the network cuts it there. The
properties say so (`AllPlain`). That a cut inside a line makes no second request
of any other message rests on the pieces of its lines: none but a request line
has a piece that is one (`Cuts`).

Induction over data goes by the least element of a set of numbers: the induction
theorems of the library take an operator, which no prover here can instantiate,
but its theorem about well-founded relations takes a set (`LeastNatural`,
`Induction`, `InductionUpTo` in `NumberLemmas`).

Proved only: `OnlyLossCancels` (no handler is cancelled unless the connection was
lost), `ComponentsStartOnce`, and `OnlyStartedStop`, which `Service` implies.

Model-checked only: the liveness properties `EveryRequestDecided`,
`GoAwayHonoured`, `PooledAnswered`, `FailureStopsRun`, `StopEndsRun`,
`WriteEnds`, `PatientServed` and `EveryRequestAnswered`. Liveness under fairness
is out of the prover's reach.

## 6. Disagreements with the documentation

Four runs state what a document, a comment or a test of the repository says and
find it violated by what the code does.

* `connection_stop`: a GOAWAY is to "Stop all requests" (`hyper.py:72`); `close`
  passes over every second one, because callbacks shorten the list it iterates
  over. `connection_lost` has the same loop. `HalfStopped` states what is left.
* `lifecycle_again`: the README has the application start before it handles
  requests; after a component failed to start, a second `run` serves an
  application that has no handler.
* `application_profile`: the README says that `profile` traces slow handlers; the
  wrapper around a traced handler hides its parameters (`utils/profile.py:161`),
  so a coroutine handler that takes the request or an injected value is called
  without it and its client gets a 500.
* `http2_raised`: a comment says the write loop is left by an exception because
  the stream got closed (`hyper.py:133`); a pushed response is also abandoned on
  an open stream, as its chunk is measured by the window of another.

Three more sentences of the documentation do not hold in the models, without a
run of their own:

* the README says that `handler_timeout` limits the execution of handlers; it
  limits how long they are waited for, and a thread runs on after the 500
  (`WorkerTakes` and `WorkerEnds` of `HandlerTimeout` know no deadline);
* the README has components stop after they handle requests; `_manage` stops them
  while the sockets still accept (`Receive` of `Lifecycle` stays enabled);
* a test fixture calls `run(wait=False)` and talks to the server afterwards; the
  call cancels its own tasks and closes the loop (`wait` of `Lifecycle`).

Some behaviour the models show is promised nowhere, so no property claims
otherwise:

* a response cut by an exhausted window is never resumed; an incomplete request
  whose stream is reset stays in `_streams`;
* a component that raises on start leaves those before it running; a request
  that arrives while `_stop` waits is lost with the loop;
* an HTTP/1 message that arrives in two chunks is handled after the first one
  with what it has, and the second chunk aborts the connection; of two messages
  in one chunk the simple parser answers one; an HTTP/1 response without a body
  but with headers has no end; a request line in a body, also inside a line of it,
  is taken for one where a chunk begins with it;
* a handler of the process pool always fails: the scope of its request refers to
  the connection, and a socket cannot be pickled; an argument of a path that is
  called `process`, `push` or `template` switches that feature on; an injected
  parameter of a synchronous handler is never given;
* without `logger` a slow request ends with an AttributeError
  (`profiling.py:55`), with a path argument called `profile_condition` every
  request does in a TypeError (`profiling.py:52`), and the logger raises outside
  `error_handle` for a path that is not UTF-8 (`logger.py:47`); the list of
  profile targets has no bound;
* a deadline cancels a handler once: a coroutine that catches the CancelledError,
  an Exception in Python 3.7, keeps its client waiting and, when it is profiled,
  the lock, for as long as it likes (`limit.py:16-27`);
* at depth 3 the tracer may take one function for two targets, and loses the
  times of its lines; with coroutines and recursion a return may find no record,
  and the tracer raises into the loop; at depth 2 and more it raises OSError into
  the program that calls a function without source, and has no report
  (`profile.py:212`, `profile.py:234`). `ReportRight` and `RaisesForAReason` are
  stated for what is left.

## 7. Not modelled

* SETTINGS that change the initial window or the frame size; the windows for the
  data of the peer (the parser never acknowledges data, so h2 refuses a peer that
  exhausts them as it refuses any other wrong data). GOAWAY and refused data are
  in `Connection`, not in `Http2`; the upgrade to h2c is in `Http1` up to its
  first request.
* A second Ctrl-C during `_stop`; the TLS context; the arguments of `run_apps`.
* A process pool beyond its outcome, which is always an exception.
* `configure`, `get_component` and attribute access of an application: lookups
  in a list that change nothing while the application runs.
* The conversions themselves: JSON, text and templates to bytes, query strings
  and encodings, the text of the log, `HttpRouter.url`.
* The command line and the aliases of types: reflection and console output.
* The memory a profile measures, and traces that go on in the thread of a handler
  whose deadline has passed.

## 8. Plan

Done: `Connection` with `Exchange`, `HandlerTimeout`, `Lifecycle`, `Http2`,
`Http1`, `Application`, `Tracer`, the refinements of `Exchange` and `Service`, and the
proofs of all invariants and action properties. Still to do, in order of importance:

1. A composition of `Connection` with `Http2`: the outcome "refused" of
   `Connection` and the failed tasks of `Http2` should be one, so that the
   HTTP/2 task of `Http2` implements the request of `Connection`.
2. A composition of `Application` with `HandlerTimeout`: a profile that goes on in
   a thread whose request was answered.
