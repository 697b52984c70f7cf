--------------------------- MODULE HandlerTimeout ---------------------------
(***************************************************************************)
(* handler_timeout (levin/components/limit.py) over the thread pool of     *)
(* sync_to_async (levin/components/concurrent.py).                         *)
(*                                                                         *)
(* Each request has three tasks of the event loop: the connection's        *)
(* ("outer"), suspended in TimeLimit.middleware; the one TimeLimit creates *)
(* for the rest of the chain ("inner"); and the timer.  A sync handler     *)
(* runs in a thread of the pool, and the inner task awaits an asyncio      *)
(* future chained to the work item.  Event loop steps and threads          *)
(* interleave; SyncToAsync.stop joins the threads and blocks the loop.     *)
(***************************************************************************)
EXTENDS Naturals, Sequences, FiniteSets

CONSTANTS
  Requests,     (* the requests under way                                  *)
  MaxWorkers    (* max_workers of the pool                                 *)

ASSUME HandlerTimeoutAssumption == MaxWorkers \in Nat \ {0}

VARIABLES
  outer,        (* the task of TimeLimit.middleware                        *)
  answer,       (* what the middleware returned                            *)
  inner,        (* the task of call_next                                   *)
  timer,        (* the task of _timeout_manager                            *)
  cancelling,   (* inner tasks with a cancellation on its way to them      *)
  check,        (* requests whose work item is about to be cancelled       *)
  work,         (* the work item of each request                           *)
  queue,        (* the pool's queue of work items                          *)
  pool          (* the pool itself                                         *)

vars == <<outer, answer, inner, timer, cancelling, check, work, queue, pool>>

-----------------------------------------------------------------------------

(* "doomed" is a waiting task that will be cancelled when it resumes.      *)
OuterStates == {"new", "waiting", "doomed", "answered"}

Answers == {"none", "response", "error", "timeout"}

(* "handling" runs an async handler; "pooled" awaits a thread; "ready" has *)
(* the thread's result but has not resumed yet.                            *)
InnerDone   == {"result", "raised", "cancelled"}
InnerStates == {"none", "created", "handling", "pooled", "ready"} \cup InnerDone

TimerStates == {"none", "sleeping", "over", "cancelled"}

WorkStates == {"none", "queued", "running", "finished", "delivered", "cancelled"}

PoolStates == {"open", "stopping", "stopped"}

TypeOK ==
  /\ outer \in [Requests -> OuterStates]
  /\ answer \in [Requests -> Answers]
  /\ inner \in [Requests -> InnerStates]
  /\ timer \in [Requests -> TimerStates]
  /\ cancelling \in SUBSET Requests
  /\ check \in SUBSET Requests
  /\ work \in [Requests -> WorkStates]
  /\ queue \in Seq(Requests)
  /\ pool \in PoolStates

Init ==
  /\ outer = [r \in Requests |-> "new"]
  /\ answer = [r \in Requests |-> "none"]
  /\ inner = [r \in Requests |-> "none"]
  /\ timer = [r \in Requests |-> "none"]
  /\ cancelling = {}
  /\ check = {}
  /\ work = [r \in Requests |-> "none"]
  /\ queue = <<>>
  /\ pool = "open"

(* The event loop runs unless SyncToAsync.stop joins the threads.          *)
LoopRuns == pool # "stopping"

Busy == {r \in Requests : work[r] = "running"}

-----------------------------------------------------------------------------
(* TimeLimit.                                                              *)

(* middleware up to its await.                                             *)
Begin(r) ==
  /\ LoopRuns
  /\ outer[r] = "new"
  /\ outer' = [outer EXCEPT ![r] = "waiting"]
  /\ inner' = [inner EXCEPT ![r] = "created"]
  /\ timer' = [timer EXCEPT ![r] = "sleeping"]
  /\ UNCHANGED <<answer, cancelling, check, work, queue, pool>>

(* task.cancel() on the inner task: if it awaits the pool, the future it   *)
(* awaits is cancelled at once and the work item one turn later.           *)
CancelInner(r) ==
  /\ cancelling' = cancelling \cup {r}
  /\ check' = IF inner[r] = "pooled" /\ r \notin cancelling
              THEN check \cup {r} ELSE check

(* Mutant: the timer forgets to cancel.                                    *)
TimerFiresIdle(r) ==
  /\ LoopRuns
  /\ timer[r] = "sleeping"
  /\ inner[r] # "created"
  /\ timer' = [timer EXCEPT ![r] = "over"]
  /\ UNCHANGED <<outer, answer, inner, cancelling, check, work, queue, pool>>

(* _timeout_manager after its sleep.  The timer starts to sleep after the  *)
(* first step of the inner task, which was created before it.              *)
TimerFires(r) ==
  /\ LoopRuns
  /\ timer[r] = "sleeping"
  /\ inner[r] # "created"
  /\ timer' = [timer EXCEPT ![r] = "over"]
  /\ IF inner[r] \notin InnerDone THEN CancelInner(r)
                                  ELSE UNCHANGED <<cancelling, check>>
  /\ UNCHANGED <<outer, answer, inner, work, queue, pool>>

(* The connection is lost or the server stops: the outer task is cancelled.*)
(* It passes the cancellation on to the inner task it awaits; if that one  *)
(* is over, the cancellation is kept for the outer task's next step.       *)
OuterCancelled(r) ==
  /\ LoopRuns
  /\ outer[r] = "waiting"
  /\ IF inner[r] \in InnerDone
     THEN /\ outer' = [outer EXCEPT ![r] = "doomed"]
          /\ UNCHANGED <<cancelling, check>>
     ELSE CancelInner(r) /\ UNCHANGED outer
  /\ UNCHANGED <<answer, inner, timer, work, queue, pool>>

(* Mutant: the end of the inner task is handed on as it is.                *)
AnswerRaw(r) == inner[r]

(* What `return await task` and its except clause make of the inner task.  *)
Answer(r) ==
  CASE outer[r] = "doomed" \/ inner[r] = "cancelled" -> "timeout"
    [] outer[r] # "doomed" /\ inner[r] = "result"    -> "response"
    [] outer[r] # "doomed" /\ inner[r] = "raised"    -> "error"

(* Mutant: the timer is stopped on the way out of the except clause only.  *)
StopTimerOnTimeout(r) ==
  timer' = IF timer[r] = "sleeping" /\ inner[r] = "cancelled"
           THEN [timer EXCEPT ![r] = "cancelled"] ELSE timer

(* The finally clause.                                                     *)
StopTimer(r) ==
  timer' = IF timer[r] = "sleeping"
           THEN [timer EXCEPT ![r] = "cancelled"] ELSE timer

(* middleware after its await.                                             *)
OuterResumes(r) ==
  /\ LoopRuns
  /\ outer[r] \in {"waiting", "doomed"}
  /\ inner[r] \in InnerDone
  /\ outer' = [outer EXCEPT ![r] = "answered"]
  /\ answer' = [answer EXCEPT ![r] = Answer(r)]
  /\ StopTimer(r)
  /\ UNCHANGED <<inner, cancelling, check, work, queue, pool>>

-----------------------------------------------------------------------------
(* The inner task.                                                         *)

(* The first step: a task cancelled before it never runs; an async handler *)
(* starts; a sync one is submitted, which a stopped pool refuses.          *)
InnerStarts(r) ==
  /\ LoopRuns
  /\ inner[r] = "created"
  /\ \/ /\ r \in cancelling
        /\ inner' = [inner EXCEPT ![r] = "cancelled"]
        /\ UNCHANGED <<work, queue>>
     \/ /\ r \notin cancelling
        /\ inner' = [inner EXCEPT ![r] = "handling"]
        /\ UNCHANGED <<work, queue>>
     \/ /\ r \notin cancelling
        /\ pool = "open"
        /\ inner' = [inner EXCEPT ![r] = "pooled"]
        /\ work' = [work EXCEPT ![r] = "queued"]
        /\ queue' = Append(queue, r)
     \/ /\ r \notin cancelling
        /\ pool = "stopped"
        /\ inner' = [inner EXCEPT ![r] = "raised"]
        /\ UNCHANGED <<work, queue>>
  /\ cancelling' = cancelling \ {r}
  /\ UNCHANGED <<outer, answer, timer, check, pool>>

(* An async handler resumes.  A cancellation is thrown into it first, and  *)
(* it may let it pass, end in another way, or catch it and go on.          *)
HandlerResumes(r, end) ==
  /\ LoopRuns
  /\ inner[r] = "handling"
  /\ end \in InnerDone \/ (end = "handling" /\ r \in cancelling)
  /\ inner' = [inner EXCEPT ![r] = end]
  /\ cancelling' = cancelling \ {r}
  /\ UNCHANGED <<outer, answer, timer, check, work, queue, pool>>

(* The inner task resumes from the pool: with the result of the thread, or *)
(* with the cancellation that came before it resumed.  The callback that   *)
(* withdraws the work item was registered, and so runs, before this one.   *)
PoolResumes(r, end) ==
  /\ LoopRuns
  /\ r \notin check
  /\ \/ r \in cancelling /\ inner[r] \in {"pooled", "ready"} /\ end = "cancelled"
     \/ r \notin cancelling /\ inner[r] = "ready" /\ end \in {"result", "raised"}
  /\ inner' = [inner EXCEPT ![r] = end]
  /\ cancelling' = cancelling \ {r}
  /\ UNCHANGED <<outer, answer, timer, check, work, queue, pool>>

-----------------------------------------------------------------------------
(* The pool.                                                               *)

(* The cancellation of the awaited future reaches the work item: it is     *)
(* dropped if no thread has taken it, else the thread runs on.             *)
CheckCancel(r) ==
  /\ LoopRuns
  /\ r \in check
  /\ check' = check \ {r}
  /\ work' = IF work[r] = "queued" THEN [work EXCEPT ![r] = "cancelled"] ELSE work
  /\ UNCHANGED <<outer, answer, inner, timer, cancelling, queue, pool>>

(* A thread takes the next work item and skips a cancelled one.            *)
WorkerTakes ==
  /\ queue # <<>>
  /\ Cardinality(Busy) < MaxWorkers
  /\ LET r == Head(queue) IN
       work' = IF work[r] = "queued" THEN [work EXCEPT ![r] = "running"] ELSE work
  /\ queue' = Tail(queue)
  /\ UNCHANGED <<outer, answer, inner, timer, cancelling, check, pool>>

WorkerEnds(r) ==
  /\ work[r] = "running"
  /\ work' = [work EXCEPT ![r] = "finished"]
  /\ UNCHANGED <<outer, answer, inner, timer, cancelling, check, queue, pool>>

(* Mutant: the result is handed over whether or not it is still awaited.   *)
HandOverAlways(r) == inner' = [inner EXCEPT ![r] = "ready"]

(* The awaited future takes the result unless it was cancelled.            *)
HandOver(r) ==
  inner' = IF inner[r] = "pooled" /\ r \notin cancelling
           THEN [inner EXCEPT ![r] = "ready"] ELSE inner

(* The thread's call_soon_threadsafe reaches the event loop.               *)
ResultArrives(r) ==
  /\ LoopRuns
  /\ work[r] = "finished"
  /\ work' = [work EXCEPT ![r] = "delivered"]
  /\ HandOver(r)
  /\ UNCHANGED <<outer, answer, timer, cancelling, check, queue, pool>>

(* SyncToAsync.stop: shutdown(wait=True) blocks the loop until the threads *)
(* have emptied the queue.                                                 *)
Stop ==
  /\ pool = "open"
  /\ pool' = "stopping"
  /\ UNCHANGED <<outer, answer, inner, timer, cancelling, check, work, queue>>

(* Mutant: shutdown(wait=False).                                           *)
JoinedAtOnce == TRUE

(* Every thread has met the end of the queue.                              *)
Joined == queue = <<>> /\ Busy = {}

StopReturns ==
  /\ pool = "stopping"
  /\ Joined
  /\ pool' = "stopped"
  /\ UNCHANGED <<outer, answer, inner, timer, cancelling, check, work, queue>>

-----------------------------------------------------------------------------

(* Every request is answered and the pool is done with it.                 *)
Over ==
  /\ pool = "stopped"
  /\ \A r \in Requests : outer[r] = "answered" /\ work[r] # "finished"
  /\ UNCHANGED vars

InnerResumes(r) ==
  \E end \in InnerStates : HandlerResumes(r, end) \/ PoolResumes(r, end)

Next ==
  \/ \E r \in Requests :
       \/ Begin(r)
       \/ TimerFires(r)
       \/ OuterCancelled(r)
       \/ OuterResumes(r)
       \/ InnerStarts(r)
       \/ InnerResumes(r)
       \/ CheckCancel(r)
       \/ WorkerEnds(r)
       \/ ResultArrives(r)
  \/ WorkerTakes
  \/ Stop
  \/ StopReturns
  \/ Over

Spec == Init /\ [][Next]_vars

(* The event loop serves every callback it has, and time passes.  Nothing  *)
(* is assumed of the threads or of the async handlers: they may never end. *)
LoopFairness ==
  \A r \in Requests :
    /\ WF_vars(TimerFires(r))
    /\ WF_vars(OuterResumes(r))
    /\ WF_vars(InnerStarts(r))
    /\ WF_vars(\E end \in InnerDone : PoolResumes(r, end))
    /\ WF_vars(CheckCancel(r))
    /\ WF_vars(ResultArrives(r))

FairSpec == Spec /\ LoopFairness

-----------------------------------------------------------------------------
(* Properties.                                                             *)

(* When the middleware has answered, nothing of the request is left on the *)
(* event loop or in the queue of the pool: the rest of the chain has ended,*)
(* the timer cannot fire, and no work item waits for a thread              *)
(* (limit.py:22-31, concurrent.py:25-29).                                  *)
AnsweredIsOver ==
  \A r \in Requests :
    outer[r] = "answered" =>
      /\ inner[r] \in InnerDone
      /\ timer[r] \in {"over", "cancelled"}
      /\ work[r] # "queued"

(* When stop returns, no thread runs a handler and none will               *)
(* (concurrent.py:18-19).                                                  *)
StoppedPoolIsIdle ==
  pool = "stopped" =>
    \A r \in Requests : work[r] \notin {"queued", "running"}

(* After the deadline the result of a thread changes nothing: the request  *)
(* that awaits the pool can only be cancelled (limit.py:16-20,             *)
(* concurrent.py:25-29).                                                   *)
LateResultIgnored ==
  [][\A r \in Requests :
       inner[r] = "pooled" /\ timer[r] = "over" =>
         inner'[r] \in {"pooled", "cancelled"}]_vars

(* A request whose handler waits for a thread is answered even if no       *)
(* thread ever ends, unless stop blocks the loop (limit.py:16-31).         *)
PooledAnswered ==
  \A r \in Requests :
    inner[r] = "pooled" ~> outer[r] = "answered" \/ pool = "stopping"

=============================================================================
