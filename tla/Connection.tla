----------------------------- MODULE Connection -----------------------------
(***************************************************************************)
(* One client connection of the server (levin/core/connection.py).         *)
(*                                                                         *)
(* The event loop is single threaded: every action below is one callback   *)
(* the loop runs to completion, except that the two `for future in         *)
(* self._futures` loops (close and connection_lost) are modelled one       *)
(* iteration per action.  While such a loop is on the call stack `calls`   *)
(* nothing else may run.                                                   *)
(*                                                                         *)
(* data_received starts one task per request with                          *)
(* asyncio.run_coroutine_threadsafe, which returns a                       *)
(* concurrent.futures.Future distinct from the task: `fut` is the state of *)
(* that future, `task` the state of the task behind it.  Cancelling the    *)
(* future or setting an exception on it runs its done callbacks at once,   *)
(* in the caller; the task's own end reaches the future one turn of the    *)
(* loop later (Settle).                                                    *)
(*                                                                         *)
(* Of h2, the library behind the HTTP/2 parser, the connection notices one *)
(* thing: for some requests it takes no response headers any more, and     *)
(* then handle_response raises before anything is written.  `shut` is the  *)
(* set of these requests.                                                  *)
(***************************************************************************)
EXTENDS Naturals, Sequences, SequencesExt

CONSTANTS
  MaxRequests,   (* bound: requests received over the connection's life   *)
  MaxPushes      (* bound: pushes attached to one response                *)

ASSUME ConnectionAssumption ==
  /\ MaxRequests \in Nat
  /\ MaxPushes \in Nat

(* A request is named by its arrival number.                               *)
Requests == 1 .. MaxRequests

VARIABLES
  transport,   (* self._transport: not attached, open, closing, lost      *)
  parser,      (* self._parser: which parser the connection settled on    *)
  received,    (* number of requests handed to tasks so far               *)
  futures,     (* self._futures, in the order of the list                 *)
  fut,         (* state of the future of each request                     *)
  closes,      (* requests whose future carries _close_callback           *)
  task,        (* state of the handle_request task of each request        *)
  cancel,      (* what became of task.cancel() for each request           *)
  pushes,      (* handle_push coroutines still running for each request   *)
  writes,      (* write_response calls made for each request, in order    *)
  calls,       (* stack of the running loops over self._futures           *)
  shut         (* requests whose stream takes no response headers any more*)

vars == <<transport, parser, received, futures, fut, closes, task, cancel,
          pushes, writes, calls, shut>>

-----------------------------------------------------------------------------

TransportStates == {"detached", "open", "closing", "lost"}

Parsers == {"none", "http1", "http2"}

(* "closed" is a future finished with CloseException, "error" one finished *)
(* with the exception of its task.                                         *)
FutureStates == {"none", "pending", "result", "error", "cancelled", "closed"}

Running == {"scheduled", "handler", "pushing"}
Ended   == {"returned", "raised", "cancelled"}

TaskStates == {"none", "settled"} \cup Running \cup Ended

CancelStates == {"no", "requested", "delivered"}

(* What one write_response call did: a whole response, a whole response    *)
(* whose pushes follow, a response cut short by an exception after its     *)
(* first bytes (http1: the body is not bytes), the stock 500, or nothing   *)
(* because the parser raised first (http1: unknown status; http2: the      *)
(* stream is shut, or the response's headers or body are not fit to send). *)
(* Whether the windows of HTTP/2 let a body through is for module Http2: a *)
(* response whose body they cut is a response here.                        *)
Writes == {"response", "promising", "partial", "error", "refused"}

Loops == [loop: {"close", "lost"}, next: Nat \ {0}]

(* Mutant: the iteration starts at the second element.                     *)
LoopFromSecond(name) == [loop |-> name, next |-> 2]

(* The list iterator of a for statement that is about to start.            *)
Loop(name) == [loop |-> name, next |-> 1]

Pending == {r \in Requests : fut[r] = "pending"}

(* The event loop can run its next callback.                               *)
Idle == calls = <<>>

TypeOK ==
  /\ transport \in TransportStates
  /\ parser \in Parsers
  /\ received \in 0 .. MaxRequests
  /\ futures \in Seq(Requests)
  /\ fut \in [Requests -> FutureStates]
  /\ closes \in SUBSET Requests
  /\ task \in [Requests -> TaskStates]
  /\ cancel \in [Requests -> CancelStates]
  /\ pushes \in [Requests -> 0 .. MaxPushes]
  /\ writes \in [Requests -> Seq(Writes)]
  /\ calls \in Seq(Loops)
  /\ shut \in SUBSET Requests

Init ==
  /\ transport = "detached"
  /\ parser = "none"
  /\ received = 0
  /\ futures = <<>>
  /\ fut = [r \in Requests |-> "none"]
  /\ closes = {}
  /\ task = [r \in Requests |-> "none"]
  /\ cancel = [r \in Requests |-> "no"]
  /\ pushes = [r \in Requests |-> 0]
  /\ writes = [r \in Requests |-> <<>>]
  /\ calls = <<>>
  /\ shut = {}

-----------------------------------------------------------------------------
(* The transport and the parsers.                                          *)

ConnectionMade ==
  /\ transport = "detached"
  /\ transport' = "open"
  /\ UNCHANGED <<parser, received, futures, fut, closes, task, cancel,
                 pushes, writes, calls, shut>>

(* Connection.close(): transport.close() has no effect on a transport that *)
(* is closing or lost; then the loop over self._futures starts on top of   *)
(* the loops that are already running.                                     *)
StartClose(running) ==
  /\ transport' = IF transport = "open" THEN "closing" ELSE transport
  /\ calls' = <<Loop("close")>> \o running

(* The parser that accepts the data: the one chosen before, or the first   *)
(* of the list that does not raise ParseError.  After a GOAWAY h2 accepts  *)
(* nothing but another GOAWAY.                                             *)
Parse(n, close) ==
  /\ parser' \in IF parser = "none" THEN {"http1", "http2"} ELSE {parser}
  /\ parser' = "http1" => n = 1 /\ ~close
  /\ closes # {} => n = 0 /\ close

(* n parsed requests become n tasks; a GOAWAY closes the connection when   *)
(* the last request of the same data is done, at once if there is none;    *)
(* h2 is closed by it and shuts every stream.                              *)
DataReceived(n, close) ==
  LET new == (received + 1) .. (received + n) IN
  /\ Idle
  /\ transport = "open"
  /\ Parse(n, close)
  /\ received' = received + n
  /\ futures' = futures \o [i \in 1 .. n |-> received + i]
  /\ fut' = [r \in Requests |-> IF r \in new THEN "pending" ELSE fut[r]]
  /\ task' = [r \in Requests |-> IF r \in new THEN "scheduled" ELSE task[r]]
  /\ closes' = IF close /\ n > 0 THEN closes \cup {received + n} ELSE closes
  /\ shut' = IF close THEN shut \cup 1 .. (received + n) ELSE shut
  /\ IF close /\ n = 0 THEN StartClose(<<>>)
                       ELSE UNCHANGED <<transport, calls>>
  /\ UNCHANGED <<cancel, pushes, writes>>

(* The client resets the stream of a request.  The parser ignores the      *)
(* event, the handler goes on; for a request that is decided it makes no   *)
(* difference.                                                             *)
StreamReset(r) ==
  /\ Idle
  /\ transport = "open"
  /\ parser = "http2"
  /\ fut[r] = "pending"
  /\ r \notin shut
  /\ shut' = shut \cup {r}
  /\ UNCHANGED <<transport, parser, received, futures, fut, closes, task,
                 cancel, pushes, writes, calls>>

(* An exception leaves data_received (the chosen parser raised, or every   *)
(* parser refused and the None result cannot be unpacked): asyncio aborts  *)
(* the transport.                                                          *)
DataRejected ==
  /\ Idle
  /\ transport = "open"
  /\ transport' = "closing"
  /\ UNCHANGED <<parser, received, futures, fut, closes, task, cancel,
                 pushes, writes, calls, shut>>

(* eof_received returns None, so the transport closes itself.              *)
EofReceived ==
  /\ Idle
  /\ transport = "open"
  /\ transport' = "closing"
  /\ UNCHANGED <<parser, received, futures, fut, closes, task, cancel,
                 pushes, writes, calls, shut>>

(* asyncio reports the end of a closing transport once; connection_lost    *)
(* starts its loop over self._futures.                                     *)
ConnectionLost ==
  /\ Idle
  /\ transport = "closing"
  /\ transport' = "lost"
  /\ calls' = <<Loop("lost")>>
  /\ UNCHANGED <<parser, received, futures, fut, closes, task, cancel,
                 pushes, writes, shut>>

-----------------------------------------------------------------------------
(* handle_request and handle_push.                                         *)

(* The callback of run_coroutine_threadsafe creates the task and the task  *)
(* runs up to its first await; callbacks are served in arrival order.      *)
StartTask(r) ==
  /\ Idle
  /\ task[r] = "scheduled"
  /\ \A q \in Requests : q < r => task[q] # "scheduled"
  /\ task' = [task EXCEPT ![r] = "handler"]
  /\ UNCHANGED <<transport, parser, received, futures, fut, closes, cancel,
                 pushes, writes, calls, shut>>

(* The cancellation of a future reaches its task one turn later, and not   *)
(* before the task exists.  It is a request only: the handler may still    *)
(* end in any way.                                                         *)
CancelTask(r) ==
  /\ Idle
  /\ cancel[r] = "requested"
  /\ task[r] # "scheduled"
  /\ cancel' = [cancel EXCEPT ![r] = "delivered"]
  /\ UNCHANGED <<transport, parser, received, futures, fut, closes, task,
                 pushes, writes, calls, shut>>

(* The application answered: the response is written, and the n pushes it  *)
(* carries start if the parser supports them.  An HTTP/2 stream takes the  *)
(* headers of one final response (an informational status leaves it open), *)
(* and it is shut as well by a response whose body is refused after them.  *)
HandlerReturns(r, w, n) ==
  /\ Idle
  /\ task[r] = "handler"
  /\ w \in {"response", "promising", "partial", "refused"}
  /\ w = "promising" <=> n > 0
  /\ w = "partial" => parser = "http1"
  /\ n > 0 => parser = "http2"
  /\ r \in shut => w = "refused"
  /\ shut' \in IF parser = "http2" THEN {shut, shut \cup {r}} ELSE {shut}
  /\ writes' = [writes EXCEPT ![r] = Append(@, w)]
  /\ pushes' = [pushes EXCEPT ![r] = n]
  /\ task' = [task EXCEPT ![r] = CASE w = "response"  -> "returned"
                                   [] w = "promising" -> "pushing"
                                   [] OTHER           -> "raised"]
  /\ UNCHANGED <<transport, parser, received, futures, fut, closes, cancel,
                 calls>>

(* The application raised, or its awaited work was cancelled.              *)
HandlerFails(r, end) ==
  /\ Idle
  /\ task[r] = "handler"
  /\ end \in {"raised", "cancelled"}
  /\ task' = [task EXCEPT ![r] = end]
  /\ UNCHANGED <<transport, parser, received, futures, fut, closes, cancel,
                 pushes, writes, calls, shut>>

(* Mutant: gather is over only when the last push has succeeded.           *)
GatherOverOnSuccess(r, end) == end = "returned" /\ pushes[r] = 1

(* asyncio.gather is over with the last push or with the first that fails. *)
GatherOver(r, end) == end # "returned" \/ pushes[r] = 1

(* One handle_push coroutine ends; after a failure the others run on       *)
(* unattended.                                                             *)
PushEnds(r, end) ==
  /\ Idle
  /\ pushes[r] > 0
  /\ end \in Ended
  /\ pushes' = [pushes EXCEPT ![r] = @ - 1]
  /\ task' = IF task[r] = "pushing" /\ GatherOver(r, end)
             THEN [task EXCEPT ![r] = end]
             ELSE task
  /\ UNCHANGED <<transport, parser, received, futures, fut, closes, cancel,
                 writes, calls, shut>>

-----------------------------------------------------------------------------
(* The futures and their callbacks.                                        *)

(* What comes of the stock 500: h2 refuses it on a shut stream, nothing    *)
(* else can be wrong with it.                                              *)
Stock(r) == IF r \in shut THEN "refused" ELSE "error"

(* Mutant: the test of is_closing is inverted.                             *)
Write500Inverted(r) ==
  IF transport # "open"
  THEN writes' = [writes EXCEPT ![r] = Append(@, Stock(r))]
  ELSE UNCHANGED writes

(* _write_500: the stock answer goes out unless the transport is closing.  *)
Write500(r) ==
  IF transport = "open"
  THEN writes' = [writes EXCEPT ![r] = Append(@, Stock(r))]
  ELSE UNCHANGED writes

(* Mutants: an early return skips the removal; the exception is not looked *)
(* at before the 500 is written.                                           *)
DoneCallbackEarlyReturn(r, failed) ==
  IF failed THEN Write500(r) /\ UNCHANGED futures
            ELSE futures' = RemoveFirst(futures, r) /\ UNCHANGED writes

DoneCallbackUnchecked(r, failed) ==
  Write500(r) /\ futures' = RemoveFirst(futures, r)

(* _done_callback: a future that was cancelled or failed is answered with  *)
(* the stock 500; in every case it leaves self._futures.                   *)
DoneCallback(r, failed) ==
  /\ IF failed THEN Write500(r) ELSE UNCHANGED writes
  /\ futures' = RemoveFirst(futures, r)

(* Mutant: the close callback acts on a successful request only.           *)
CloseCallbackOnSuccess(r, running) ==
  IF r \in closes /\ fut'[r] = "result"
  THEN StartClose(running)
  ELSE calls' = running /\ UNCHANGED transport

(* _close_callback, for the futures that carry it; `running` are the loops *)
(* it interrupts.                                                          *)
CloseCallback(r, running) ==
  IF r \in closes THEN StartClose(running)
                  ELSE calls' = running /\ UNCHANGED transport

(* Mutant: the end is copied without being translated.                     *)
SettledRaw(end) == end

(* The state a task's end gives to its future.                             *)
Settled(end) == CASE end = "returned"  -> "result"
                  [] end = "raised"    -> "error"
                  [] end = "cancelled" -> "cancelled"

(* _chain_future copies the end of the task to the future, whose callbacks *)
(* then run in the order they were added: _done_callback, _close_callback. *)
(* A future that close or connection_lost resolved first is left as it is. *)
Settle(r) ==
  /\ Idle
  /\ task[r] \in Ended
  /\ task' = [task EXCEPT ![r] = "settled"]
  /\ IF fut[r] = "pending"
     THEN /\ fut' = [fut EXCEPT ![r] = Settled(task[r])]
          /\ DoneCallback(r, task[r] # "returned")
          /\ CloseCallback(r, <<>>)
     ELSE UNCHANGED <<fut, writes, futures, transport, calls>>
  /\ UNCHANGED <<parser, received, closes, cancel, pushes, shut>>

(* future.cancel() also asks the task to stop; future.set_exception() says *)
(* nothing to the task.                                                    *)
Stop(r, loop) ==
  IF loop = "lost"
  THEN /\ fut' = [fut EXCEPT ![r] = "cancelled"]
       /\ cancel' = [cancel EXCEPT ![r] = "requested"]
  ELSE /\ fut' = [fut EXCEPT ![r] = "closed"]
       /\ UNCHANGED cancel

(* One turn of the innermost loop: close sets an exception on the future,  *)
(* connection_lost cancels it.  The done callbacks run inside the turn, so *)
(* the list loses the element the iterator has just passed, and a          *)
(* _close_callback enters close() again before the next turn.              *)
LoopTurn ==
  /\ ~Idle
  /\ Head(calls).next <= Len(futures)
  /\ LET top  == Head(calls)
         r    == futures[top.next]
         rest == <<[top EXCEPT !.next = @ + 1]>> \o Tail(calls)
     IN /\ Stop(r, top.loop)
        /\ DoneCallback(r, TRUE)
        /\ CloseCallback(r, rest)
  /\ UNCHANGED <<parser, received, closes, task, pushes, shut>>

(* The iterator ran off the end of the list.                               *)
LoopEnd ==
  /\ ~Idle
  /\ Head(calls).next > Len(futures)
  /\ calls' = Tail(calls)
  /\ UNCHANGED <<transport, parser, received, futures, fut, closes, task,
                 cancel, pushes, writes, shut>>

-----------------------------------------------------------------------------

(* Nothing is left to do for a lost connection.                            *)
Over ==
  /\ Idle
  /\ transport = "lost"
  /\ \A r \in Requests : /\ task[r] \in {"none", "settled"}
                         /\ pushes[r] = 0
                         /\ cancel[r] # "requested"
  /\ UNCHANGED vars

HandlerEnds(r) ==
  \/ \E w \in Writes, n \in 0 .. MaxPushes : HandlerReturns(r, w, n)
  \/ \E end \in Ended : HandlerFails(r, end)

Next ==
  \/ ConnectionMade
  \/ \E n \in 0 .. (MaxRequests - received), close \in BOOLEAN :
       DataReceived(n, close)
  \/ DataRejected
  \/ EofReceived
  \/ ConnectionLost
  \/ \E r \in Requests :
       \/ StreamReset(r)
       \/ StartTask(r)
       \/ CancelTask(r)
       \/ HandlerEnds(r)
       \/ \E end \in Ended : PushEnds(r, end)
       \/ Settle(r)
  \/ LoopTurn
  \/ LoopEnd
  \/ Over

Spec == Init /\ [][Next]_vars

(* The event loop serves every callback it was given, and handlers end, as *)
(* they do under handler_timeout unless they catch its cancellation (see   *)
(* Application).  The peer owes nothing: it may stay silent, or never read *)
(* what a closing transport still has to send, so that connection_lost     *)
(* never comes.                                                            *)
Fairness ==
  /\ WF_vars(LoopTurn)
  /\ WF_vars(LoopEnd)
  /\ \A r \in Requests : /\ WF_vars(StartTask(r))
                         /\ WF_vars(CancelTask(r))
                         /\ WF_vars(HandlerEnds(r))
                         /\ WF_vars(\E end \in Ended : PushEnds(r, end))
                         /\ WF_vars(Settle(r))

FairSpec == Spec /\ Fairness

-----------------------------------------------------------------------------
(* Properties.                                                             *)

(* self._futures lists exactly the futures that are not done, each once:   *)
(* _done_callback (connection.py:44-54) takes a future out in the same     *)
(* callback that resolves it, even in the middle of a loop over the list,  *)
(* so the list cannot leak and list.remove cannot fail.                    *)
ListHoldsPending ==
  /\ ToSet(futures) = Pending
  /\ \A i, j \in 1 .. Len(futures) : futures[i] = futures[j] => i = j

(* A request that has its whole response or the stock 500 gets nothing     *)
(* more; only a response that was cut short, refused, or followed by a     *)
(* failing push is followed by the 500 of _done_callback, and at most once *)
(* (connection.py:44-61, 108-113).                                         *)
OneAnswer ==
  \A r \in Requests :
    /\ Len(writes[r]) <= 2
    /\ Len(writes[r]) = 2 => /\ writes[r][1] \in {"partial", "refused", "promising"}
                             /\ writes[r][2] \in {"error", "refused"}

(* A GOAWAY waits for the request that came with it and for no longer:     *)
(* while the transport is open, every future that carries _close_callback  *)
(* (connection.py:85-87) is still pending.                                 *)
CloseWaits ==
  transport = "open" => \A r \in closes : fut[r] = "pending"

(* Only connection_lost cancels a task (connection.py:71-73): a handler is *)
(* never interrupted while its client may still read the answer.           *)
CancelMeansLost ==
  \A r \in Requests : cancel[r] # "no" => transport = "lost"

(* connection_lost and close remove each future they resolve from the list *)
(* they iterate over, so they pass over every second one: of the futures   *)
(* pending when the connection is lost, at least as many are stopped as    *)
(* are left running (connection.py:54, 71-73, 131-132).                    *)
HalfStopped ==
  transport = "lost" /\ Idle =>
    Cardinality(Pending) <=
      Cardinality({r \in Requests : fut[r] \in {"cancelled", "closed"}})

(* Every request handed to a task is eventually decided, whatever happens  *)
(* to its client, its response and its pushes (connection.py:82-84).       *)
EveryRequestDecided ==
  \A r \in Requests : fut[r] = "pending" ~> fut[r] # "pending"

(* A GOAWAY that waits for a request eventually closes the transport,      *)
(* whether the request succeeds, fails or is cancelled                     *)
(* (connection.py:85-89).                                                  *)
GoAwayHonoured == closes # {} ~> transport # "open"

-----------------------------------------------------------------------------
(* The promise to the client, on the connection's own variables.  A        *)
(* request is dropped when close or connection_lost resolved its future.   *)

Dropped(r) ==
  fut[r] = "closed" \/ (fut[r] = "cancelled" /\ cancel[r] # "no")

(* Response headers were sent to the client.                               *)
Answered(r) ==
  \E i \in DOMAIN writes[r] : writes[r][i] # "refused"

Status(r) ==
  CASE fut[r] = "none"    -> "unseen"
    [] fut[r] = "pending" -> "open"
    [] Dropped(r)         -> "dropped"
    [] OTHER -> IF Answered(r) THEN "answered" ELSE "silent"

(* The requests that no answer can reach any more.                         *)
Waived == {r \in shut : ~Answered(r)}

Link == CASE transport = "detached" -> "new"
          [] transport = "open"     -> "up"
          [] OTHER                  -> "down"

E == INSTANCE Exchange WITH
       link   <- Link,
       status <- [r \in Requests |-> Status(r)],
       waived <- Waived

(* The connection keeps the promise of Exchange: it accepts requests only  *)
(* while it is open and decides each of them once; as long as it is open   *)
(* it never drops one, and it leaves one in silence only if h2 takes no    *)
(* answer to it any more: the client has reset its stream or sent a        *)
(* GOAWAY, or a body was refused after its headers (connection.py:44-61,   *)
(* 71-73, 82-89, 108-113, 124-132).                                        *)
KeepsPromise == E!Spec

=============================================================================
