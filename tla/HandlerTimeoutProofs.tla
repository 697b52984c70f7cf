------------------------ MODULE HandlerTimeoutProofs ------------------------
(***************************************************************************)
(* Proofs about HandlerTimeout for any requests and any size of the pool.  *)
(***************************************************************************)
EXTENDS HandlerTimeout, SequenceTheorems, TLAPS

(* How the three tasks of a request stand to each other.                   *)
TasksAgree ==
  \A r \in Requests :
    /\ outer[r] = "new" <=> inner[r] = "none"
    /\ outer[r] = "new" <=> timer[r] = "none"
    /\ outer[r] \in {"doomed", "answered"} => inner[r] \in InnerDone
    /\ outer[r] = "answered" => timer[r] # "sleeping"
    /\ inner[r] = "created" => timer[r] = "sleeping"

(* Where a cancellation can be under way: it is owed to a task that awaits *)
(* the pool past its deadline, and a work item to withdraw belongs to such *)
(* a task.                                                                 *)
CancellationsAgree ==
  \A r \in Requests :
    /\ r \in cancelling => inner[r] \in {"created", "handling", "pooled", "ready"}
    /\ r \in check => inner[r] = "pooled" /\ r \in cancelling
    /\ inner[r] = "pooled" /\ timer[r] = "over" => r \in cancelling

(* A queued work item is in the queue, awaited, and not given up.          *)
WorkAgrees ==
  /\ \A r \in Requests :
       work[r] = "queued" =>
         /\ \E i \in 1 .. Len(queue) : queue[i] = r
         /\ inner[r] = "pooled"
         /\ r \in cancelling => r \in check
  /\ pool = "stopped" => queue = <<>> /\ Busy = {}

Inv == TypeOK /\ TasksAgree /\ CancellationsAgree /\ WorkAgrees

-----------------------------------------------------------------------------

LEMMA InitInv == Init => Inv
<1> SUFFICES ASSUME Init PROVE Inv
  OBVIOUS
<1> USE DEF Init
<1>1. TypeOK
  BY DEF TypeOK, OuterStates, Answers, InnerStates, TimerStates, WorkStates, PoolStates
<1>2. TasksAgree /\ CancellationsAgree /\ WorkAgrees
  BY DEF TasksAgree, CancellationsAgree, WorkAgrees, InnerDone
<1>3. QED
  BY <1>1, <1>2 DEF Inv

(* The event loop's steps that leave the pool alone.                       *)
LEMMA UnchangedPool ==
  ASSUME Inv, UNCHANGED <<work, queue, pool>>,
         \A r \in Requests : work[r] = "queued" =>
           inner'[r] = "pooled" /\ (r \in cancelling' => r \in check')
  PROVE  WorkAgrees'
  BY DEF Inv, WorkAgrees, Busy

LEMMA BeginInv ==
  ASSUME Inv, NEW r \in Requests, Begin(r)
  PROVE  Inv'
<1> USE DEF Begin
<1>1. TypeOK'
  BY DEF Inv, TypeOK, OuterStates, InnerStates, TimerStates
<1>2. TasksAgree' /\ CancellationsAgree'
  BY DEF Inv, TypeOK, TasksAgree, CancellationsAgree, InnerDone
<1>3. WorkAgrees'
  BY UnchangedPool DEF Inv, TypeOK, TasksAgree, WorkAgrees
<1>4. QED
  BY <1>1, <1>2, <1>3 DEF Inv

(* task.cancel() on an inner task that is not over.                        *)
LEMMA CancelInnerInv ==
  ASSUME Inv, NEW r \in Requests, CancelInner(r),
         inner[r] \notin InnerDone \cup {"none"},
         UNCHANGED <<outer, answer, inner, work, queue, pool>>,
         UNCHANGED timer \/ timer' = [timer EXCEPT ![r] = "over"],
         (timer[r] = "sleeping" /\ inner[r] # "created") \/ UNCHANGED timer
  PROVE  Inv'
<1>1. TypeOK'
  BY DEF Inv, TypeOK, CancelInner, TimerStates
<1>2. TasksAgree'
  BY DEF Inv, TypeOK, TasksAgree
<1>3. CancellationsAgree'
  BY DEF Inv, TypeOK, CancellationsAgree, CancelInner, InnerStates, InnerDone
<1>4. WorkAgrees'
  BY UnchangedPool DEF Inv, WorkAgrees, CancelInner
<1>5. QED
  BY <1>1, <1>2, <1>3, <1>4 DEF Inv

LEMMA TimerFiresInv ==
  ASSUME Inv, NEW r \in Requests, TimerFires(r)
  PROVE  Inv'
<1>1. timer' = [timer EXCEPT ![r] = "over"] /\ timer[r] = "sleeping" /\ inner[r] # "created"
  BY DEF TimerFires
<1>2. CASE inner[r] \notin InnerDone
  <2>1. inner[r] # "none"
    BY <1>1 DEF Inv, TypeOK, TasksAgree
  <2>2. QED
    BY <1>1, <1>2, <2>1, CancelInnerInv DEF TimerFires
<1>3. CASE inner[r] \in InnerDone
  <2>1. UNCHANGED <<outer, answer, inner, cancelling, check, work, queue, pool>>
    BY <1>3 DEF TimerFires
  <2>2. TypeOK'
    BY <1>1, <2>1 DEF Inv, TypeOK, TimerStates
  <2>3. TasksAgree' /\ CancellationsAgree'
    BY <1>1, <1>3, <2>1 DEF Inv, TypeOK, TasksAgree, CancellationsAgree, InnerDone
  <2>4. WorkAgrees'
    BY <2>1, UnchangedPool DEF Inv, WorkAgrees
  <2>5. QED
    BY <2>2, <2>3, <2>4 DEF Inv
<1>4. QED
  BY <1>2, <1>3

LEMMA OuterCancelledInv ==
  ASSUME Inv, NEW r \in Requests, OuterCancelled(r)
  PROVE  Inv'
<1>1. CASE inner[r] \notin InnerDone
  <2>1. inner[r] # "none"
    BY DEF Inv, TypeOK, TasksAgree, OuterCancelled
  <2>2. QED
    BY <1>1, <2>1, CancelInnerInv DEF OuterCancelled
<1>2. CASE inner[r] \in InnerDone
  <2>1. /\ outer' = [outer EXCEPT ![r] = "doomed"] /\ outer[r] = "waiting"
        /\ UNCHANGED <<answer, inner, timer, cancelling, check, work, queue, pool>>
    BY <1>2 DEF OuterCancelled
  <2>2. TypeOK'
    BY <2>1 DEF Inv, TypeOK, OuterStates
  <2>3. TasksAgree' /\ CancellationsAgree'
    BY <1>2, <2>1 DEF Inv, TypeOK, TasksAgree, CancellationsAgree
  <2>4. WorkAgrees'
    BY <2>1, UnchangedPool DEF Inv, WorkAgrees
  <2>5. QED
    BY <2>2, <2>3, <2>4 DEF Inv
<1>3. QED
  BY <1>1, <1>2

LEMMA OuterResumesInv ==
  ASSUME Inv, NEW r \in Requests, OuterResumes(r)
  PROVE  Inv'
<1>1. Answer(r) \in Answers
  BY DEF OuterResumes, Answer, InnerDone, Answers
<1>2. /\ timer' = [timer EXCEPT ![r] = timer'[r]]
      /\ timer'[r] = IF timer[r] = "sleeping" THEN "cancelled" ELSE timer[r]
  BY DEF OuterResumes, StopTimer, Inv, TypeOK
<1>3. TypeOK'
  BY <1>1, <1>2 DEF OuterResumes, StopTimer, Inv, TypeOK, OuterStates, TimerStates
<1>4. TasksAgree' /\ CancellationsAgree'
  BY <1>2 DEF OuterResumes, Inv, TypeOK, TasksAgree, CancellationsAgree, InnerDone
<1>5. WorkAgrees'
  BY UnchangedPool DEF OuterResumes, Inv, WorkAgrees
<1>6. QED
  BY <1>3, <1>4, <1>5 DEF Inv

LEMMA InnerStartsInv ==
  ASSUME Inv, NEW r \in Requests, InnerStarts(r)
  PROVE  Inv'
<1>1. /\ inner[r] = "created" /\ cancelling' = cancelling \ {r}
      /\ UNCHANGED <<outer, answer, timer, check, pool>>
  BY DEF InnerStarts
<1>2. timer[r] = "sleeping" /\ outer[r] = "waiting" /\ work[r] # "queued"
  BY <1>1 DEF Inv, TypeOK, TasksAgree, WorkAgrees, OuterStates, InnerDone
<1>3. CASE UNCHANGED <<work, queue>>
  <2>1. PICK s \in {"cancelled", "handling", "raised", "pooled"} :
          inner' = [inner EXCEPT ![r] = s]
    BY DEF InnerStarts
  <2>2. TypeOK'
    BY <1>1, <1>3, <2>1 DEF Inv, TypeOK, InnerStates, InnerDone
  <2>3. TasksAgree' /\ CancellationsAgree'
    BY <1>1, <1>2, <2>1 DEF Inv, TypeOK, TasksAgree, CancellationsAgree, InnerDone
  <2>4. WorkAgrees'
    BY <1>1, <1>2, <1>3, <2>1, UnchangedPool DEF Inv, TypeOK, WorkAgrees
  <2>5. QED
    BY <2>2, <2>3, <2>4 DEF Inv
<1>4. CASE /\ r \notin cancelling
           /\ pool = "open"
           /\ inner' = [inner EXCEPT ![r] = "pooled"]
           /\ work' = [work EXCEPT ![r] = "queued"]
           /\ queue' = Append(queue, r)
  <2>1. /\ queue \in Seq(Requests) /\ queue' \in Seq(Requests)
        /\ Len(queue) \in Nat /\ Len(queue') = Len(queue) + 1
        /\ \A i \in 1 .. Len(queue) : queue'[i] = queue[i]
        /\ queue'[Len(queue) + 1] = r
    BY <1>4, AppendProperties, LenProperties DEF Inv, TypeOK
  <2>2. TypeOK'
    BY <1>1, <1>4, <2>1 DEF Inv, TypeOK, InnerStates, WorkStates
  <2>3. TasksAgree' /\ CancellationsAgree'
    BY <1>1, <1>2, <1>4 DEF Inv, TypeOK, TasksAgree, CancellationsAgree, InnerDone
  <2>4. \A q \in Requests : work'[q] = "queued" => \E i \in 1 .. Len(queue') : queue'[i] = q
    <3>1. SUFFICES ASSUME NEW q \in Requests, work'[q] = "queued"
                   PROVE  \E i \in 1 .. Len(queue') : queue'[i] = q
      OBVIOUS
    <3>2. CASE q = r
      BY <2>1, <3>2
    <3>3. CASE q # r
      <4>1. PICK i \in 1 .. Len(queue) : queue[i] = q
        BY <1>4, <3>1, <3>3 DEF Inv, TypeOK, WorkAgrees
      <4>2. i \in 1 .. Len(queue') /\ queue'[i] = q
        BY <2>1, <4>1
      <4>3. QED
        BY <4>2
    <3>4. QED
      BY <3>2, <3>3
  <2>5. WorkAgrees'
    BY <1>1, <1>4, <2>4 DEF Inv, TypeOK, WorkAgrees
  <2>6. QED
    BY <2>2, <2>3, <2>5 DEF Inv
<1>5. QED
  BY <1>3, <1>4 DEF InnerStarts

LEMMA InnerResumesInv ==
  ASSUME Inv, NEW r \in Requests, InnerResumes(r)
  PROVE  Inv'
<1>1. PICK s \in InnerDone \cup {"handling"} :
        /\ inner' = [inner EXCEPT ![r] = s]
        /\ inner[r] \in {"handling", "pooled", "ready"}
        /\ inner[r] = "pooled" => r \in cancelling /\ r \notin check
        /\ s = "handling" => inner[r] = "handling"
        /\ cancelling' = cancelling \ {r}
        /\ UNCHANGED <<outer, answer, timer, check, work, queue, pool>>
  BY DEF InnerResumes, HandlerResumes, PoolResumes, InnerDone
<1>2. work[r] # "queued"
  BY <1>1 DEF Inv, WorkAgrees
<1>3. TypeOK'
  BY <1>1 DEF Inv, TypeOK, InnerStates
<1>4. TasksAgree' /\ CancellationsAgree'
  BY <1>1 DEF Inv, TypeOK, TasksAgree, CancellationsAgree, InnerDone
<1>5. WorkAgrees'
  BY <1>1, <1>2, UnchangedPool DEF Inv, TypeOK, WorkAgrees
<1>6. QED
  BY <1>3, <1>4, <1>5 DEF Inv

LEMMA CheckCancelInv ==
  ASSUME Inv, NEW r \in Requests, CheckCancel(r)
  PROVE  Inv'
<1> USE DEF CheckCancel
<1>1. TypeOK'
  BY DEF Inv, TypeOK, WorkStates
<1>2. TasksAgree' /\ CancellationsAgree'
  BY DEF Inv, TypeOK, TasksAgree, CancellationsAgree
<1>3. work'[r] # "queued" /\ \A q \in Requests : work'[q] \in {work[q], "cancelled"}
  BY DEF Inv, TypeOK
<1>4. WorkAgrees'
  <2>1. Busy' \subseteq Busy
    BY <1>3 DEF Busy
  <2>2. QED
    BY <1>3, <2>1 DEF Inv, WorkAgrees
<1>5. QED
  BY <1>1, <1>2, <1>4 DEF Inv

LEMMA WorkerTakesInv ==
  ASSUME Inv, WorkerTakes
  PROVE  Inv'
<1> DEFINE h == Head(queue)
<1>1. /\ queue \in Seq(Requests) /\ queue # <<>> /\ queue' = Tail(queue)
      /\ UNCHANGED <<outer, answer, inner, timer, cancelling, check, pool>>
  BY DEF WorkerTakes, Inv, TypeOK
<1>2. /\ queue' \in Seq(Requests) /\ h \in Requests /\ h = queue[1]
      /\ Len(queue) \in Nat /\ Len(queue') = Len(queue) - 1
      /\ \A i \in 1 .. Len(queue') : queue'[i] = queue[i + 1]
  BY <1>1, HeadTailProperties, LenProperties
<1>3. work' = [work EXCEPT ![h] = work'[h]] /\ work'[h] # "queued"
  BY <1>2 DEF WorkerTakes, Inv, TypeOK
<1>4. work'[h] \in {"running", work[h]}
  BY <1>2 DEF WorkerTakes, Inv, TypeOK
<1>5. TypeOK'
  BY <1>1, <1>2, <1>3, <1>4 DEF Inv, TypeOK, WorkStates
<1>6. TasksAgree' /\ CancellationsAgree'
  BY <1>1 DEF Inv, TasksAgree, CancellationsAgree
<1>7. \A q \in Requests : work'[q] = "queued" => \E i \in 1 .. Len(queue') : queue'[i] = q
  <2>1. SUFFICES ASSUME NEW q \in Requests, work'[q] = "queued"
                 PROVE  \E i \in 1 .. Len(queue') : queue'[i] = q
    OBVIOUS
  <2>2. q # h /\ work[q] = "queued"
    BY <1>2, <1>3, <2>1 DEF Inv, TypeOK
  <2>3. PICK i \in 1 .. Len(queue) : queue[i] = q
    BY <2>2 DEF Inv, WorkAgrees
  <2>4. i - 1 \in 1 .. Len(queue') /\ queue'[i - 1] = q
    BY <1>2, <2>2, <2>3
  <2>5. QED
    BY <2>4
<1>8. pool # "stopped"
  BY <1>1 DEF Inv, WorkAgrees
<1>9. WorkAgrees'
  BY <1>1, <1>2, <1>3, <1>7, <1>8 DEF Inv, TypeOK, WorkAgrees
<1>10. QED
  BY <1>5, <1>6, <1>9 DEF Inv

LEMMA WorkerEndsInv ==
  ASSUME Inv, NEW r \in Requests, WorkerEnds(r)
  PROVE  Inv'
<1> USE DEF WorkerEnds
<1>1. TypeOK'
  BY DEF Inv, TypeOK, WorkStates
<1>2. TasksAgree' /\ CancellationsAgree'
  BY DEF Inv, TasksAgree, CancellationsAgree
<1>3. pool # "stopped"
  BY DEF Inv, WorkAgrees, Busy
<1>4. WorkAgrees'
  BY <1>3 DEF Inv, TypeOK, WorkAgrees
<1>5. QED
  BY <1>1, <1>2, <1>4 DEF Inv

LEMMA ResultArrivesInv ==
  ASSUME Inv, NEW r \in Requests, ResultArrives(r)
  PROVE  Inv'
<1>1. /\ work[r] = "finished" /\ work' = [work EXCEPT ![r] = "delivered"]
      /\ UNCHANGED <<outer, answer, timer, cancelling, check, queue, pool>>
  BY DEF ResultArrives
<1>2. \/ UNCHANGED inner
      \/ /\ inner[r] = "pooled" /\ r \notin cancelling
         /\ inner' = [inner EXCEPT ![r] = "ready"]
  BY DEF ResultArrives, HandOver
<1>3. TypeOK'
  BY <1>1, <1>2 DEF Inv, TypeOK, InnerStates, WorkStates
<1>4. TasksAgree' /\ CancellationsAgree'
  BY <1>1, <1>2 DEF Inv, TypeOK, TasksAgree, CancellationsAgree, InnerDone
<1>5. \A q \in Requests : work'[q] = "queued" => work[q] = "queued" /\ inner'[q] = inner[q]
  BY <1>1, <1>2 DEF Inv, TypeOK
<1>6. Busy' \subseteq Busy
  BY <1>1 DEF Inv, TypeOK, Busy
<1>7. WorkAgrees'
  BY <1>1, <1>5, <1>6 DEF Inv, WorkAgrees
<1>8. QED
  BY <1>3, <1>4, <1>7 DEF Inv

LEMMA StopInv ==
  ASSUME Inv, Stop \/ StopReturns
  PROVE  Inv'
<1>1. /\ pool' \in {"stopping", "stopped"}
      /\ pool' = "stopped" => queue = <<>> /\ Busy = {}
      /\ UNCHANGED <<outer, answer, inner, timer, cancelling, check, work, queue>>
  BY DEF Stop, StopReturns, Joined
<1>2. TypeOK'
  BY <1>1 DEF Inv, TypeOK, PoolStates
<1>3. TasksAgree' /\ CancellationsAgree' /\ WorkAgrees'
  BY <1>1 DEF Inv, TasksAgree, CancellationsAgree, WorkAgrees, Busy
<1>4. QED
  BY <1>2, <1>3 DEF Inv

LEMMA StepInv == Inv /\ [Next]_vars => Inv'
<1> SUFFICES ASSUME Inv, [Next]_vars PROVE Inv'
  OBVIOUS
<1>1. CASE UNCHANGED vars
  BY <1>1 DEF vars, Inv, TypeOK, TasksAgree, CancellationsAgree, WorkAgrees, Busy
<1>2. ASSUME NEW r \in Requests,
             \/ Begin(r) \/ TimerFires(r) \/ OuterCancelled(r) \/ OuterResumes(r)
             \/ InnerStarts(r) \/ InnerResumes(r)
      PROVE  Inv'
  BY <1>2, BeginInv, TimerFiresInv, OuterCancelledInv, OuterResumesInv,
     InnerStartsInv, InnerResumesInv
<1>3. ASSUME NEW r \in Requests,
             CheckCancel(r) \/ WorkerEnds(r) \/ ResultArrives(r)
      PROVE  Inv'
  BY <1>3, CheckCancelInv, WorkerEndsInv, ResultArrivesInv
<1>4. CASE WorkerTakes \/ Stop \/ StopReturns
  BY <1>4, WorkerTakesInv, StopInv
<1>5. QED
  BY <1>1, <1>2, <1>3, <1>4 DEF Next, Over

(* The three tasks of a request, the cancellations under way and the work  *)
(* items agree with one another in every reachable state (limit.py:16-31,  *)
(* concurrent.py:18-29).                                                   *)
THEOREM Invariance == Spec => []Inv
BY InitInv, StepInv, PTL DEF Spec

(* Every variable keeps its type; in particular the middleware returns a   *)
(* response, an error or the 500 "Timeout" and nothing else                *)
(* (limit.py:22-31).                                                       *)
THEOREM TypeCorrect == Spec => []TypeOK
<1>1. Inv => TypeOK
  BY DEF Inv
<1>2. QED
  BY <1>1, Invariance, PTL

(* When the middleware has answered, the rest of the chain is over, the    *)
(* timer cannot fire and no work item waits in the queue (limit.py:26-31,  *)
(* concurrent.py:25-29).                                                   *)
THEOREM NothingLeftBehind == Spec => []AnsweredIsOver
<1>1. Inv => AnsweredIsOver
  <2> SUFFICES ASSUME Inv, NEW r \in Requests, outer[r] = "answered"
               PROVE  /\ inner[r] \in InnerDone
                      /\ timer[r] \in {"over", "cancelled"}
                      /\ work[r] # "queued"
    BY DEF AnsweredIsOver
  <2>1. inner[r] \in InnerDone
    BY DEF Inv, TasksAgree
  <2>2. timer[r] \in {"over", "cancelled"}
    BY DEF Inv, TypeOK, TimerStates, TasksAgree
  <2>3. work[r] # "queued"
    BY <2>1 DEF Inv, WorkAgrees, InnerDone
  <2>4. QED
    BY <2>1, <2>2, <2>3
<1>2. QED
  BY <1>1, Invariance, PTL

(* When SyncToAsync.stop returns no thread runs a handler, and none will   *)
(* (concurrent.py:18-19).                                                  *)
THEOREM StopJoins == Spec => []StoppedPoolIsIdle
<1>1. Inv => StoppedPoolIsIdle
  <2> SUFFICES ASSUME Inv, pool = "stopped", NEW r \in Requests
               PROVE  work[r] \notin {"queued", "running"}
    BY DEF StoppedPoolIsIdle
  <2>1. queue = <<>> /\ Len(queue) = 0 /\ Busy = {}
    BY DEF Inv, WorkAgrees
  <2>2. work[r] # "queued"
    BY <2>1 DEF Inv, WorkAgrees
  <2>3. QED
    BY <2>1, <2>2 DEF Busy
<1>2. QED
  BY <1>1, Invariance, PTL

(* The result of a thread that ends after the deadline reaches nobody: a   *)
(* request that awaits the pool past its deadline leaves it cancelled      *)
(* (limit.py:16-20, concurrent.py:25-29).                                  *)
THEOREM LateResultsReachNobody == Spec => LateResultIgnored
<1> DEFINE Kept(r) == inner[r] = "pooled" /\ timer[r] = "over" =>
                        inner'[r] \in {"pooled", "cancelled"}
<1>1. Inv /\ [Next]_vars => [\A r \in Requests : Kept(r)]_vars
  <2> SUFFICES ASSUME Inv, Next, NEW r \in Requests,
                      inner[r] = "pooled", timer[r] = "over"
               PROVE  inner'[r] \in {"pooled", "cancelled"}
    OBVIOUS
  <2>1. r \in cancelling
    BY DEF Inv, CancellationsAgree
  <2>2. ASSUME NEW q \in Requests,
               \/ Begin(q) \/ InnerStarts(q) \/ InnerResumes(q) \/ ResultArrives(q)
        PROVE  inner'[r] \in {"pooled", "cancelled"}
    <3>1. CASE Begin(q)
      BY <3>1 DEF Begin, Inv, TypeOK, TasksAgree
    <3>2. CASE InnerStarts(q)
      BY <3>2 DEF InnerStarts, Inv, TypeOK
    <3>3. CASE InnerResumes(q)
      BY <2>1, <3>3 DEF InnerResumes, HandlerResumes, PoolResumes, Inv, TypeOK
    <3>4. CASE ResultArrives(q)
      BY <2>1, <3>4 DEF ResultArrives, HandOver, Inv, TypeOK
    <3>5. QED
      BY <2>2, <3>1, <3>2, <3>3, <3>4
  <2>3. ASSUME NEW q \in Requests,
               \/ TimerFires(q) \/ OuterCancelled(q) \/ OuterResumes(q)
               \/ CheckCancel(q) \/ WorkerEnds(q)
        PROVE  inner' = inner
    BY <2>3 DEF TimerFires, OuterCancelled, OuterResumes, CheckCancel, WorkerEnds
  <2>4. CASE WorkerTakes \/ Stop \/ StopReturns \/ Over
    BY <2>4 DEF WorkerTakes, Stop, StopReturns, Over, vars
  <2>5. QED
    BY <2>2, <2>3, <2>4 DEF Next
<1>2. QED
  BY <1>1, Invariance, PTL DEF Spec, LateResultIgnored

=============================================================================
