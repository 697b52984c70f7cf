-------------------------- MODULE ConnectionProofs --------------------------
(***************************************************************************)
(* Proofs about Connection for every number of requests and pushes.        *)
(***************************************************************************)
EXTENDS Connection, SequenceTheorems, FiniteSetTheorems, TLAPS

(* No value occurs twice in s.                                             *)
Once(s) == \A i, j \in 1 .. Len(s) : s[i] = s[j] => i = j

-----------------------------------------------------------------------------
(* What list.remove (connection.py:54) does to a list without duplicates.  *)

(* Removing a value leaves a list of the other values, each still once.    *)
LEMMA RemoveOnce ==
  ASSUME NEW S, NEW s \in Seq(S), Once(s), NEW e \in ToSet(s)
  PROVE  /\ RemoveFirst(s, e) \in Seq(S)
         /\ Len(RemoveFirst(s, e)) = Len(s) - 1
         /\ Once(RemoveFirst(s, e))
         /\ ToSet(RemoveFirst(s, e)) = ToSet(s) \ {e}
<1>1. PICK k \in 1 .. Len(s) : s[k] = e
  BY DEF ToSet
<1> DEFINE pre  == SubSeq(s, 1, k - 1)
           post == SubSeq(s, k + 1, Len(s))
           t    == pre \o post
<1>2. RemoveFirst(s, e) = t
  <2> DEFINE I == {i \in 1 .. Len(s) : s[i] = e}
  <2>1. I = {k}
    BY <1>1 DEF Once
  <2>2. Min(I) = k
    BY <2>1 DEF Min
  <2>3. RemoveFirst(s, e) = RemoveAt(s, Min(I))
    BY <1>1 DEF RemoveFirst, SelectInSeq
  <2> HIDE DEF I
  <2>4. QED
    BY <2>2, <2>3 DEF RemoveAt
<1>3. /\ pre \in Seq(S) /\ Len(pre) = k - 1
      /\ \A i \in 1 .. k - 1 : pre[i] = s[i]
  BY SubSeqProperties, ElementOfSeq
<1>4. /\ post \in Seq(S) /\ Len(post) = Len(s) - k
      /\ \A i \in 1 .. Len(s) - k : post[i] = s[k + i]
  BY SubSeqProperties, ElementOfSeq
<1>5. /\ t \in Seq(S)
      /\ Len(t) = Len(s) - 1
      /\ \A i \in 1 .. Len(s) - 1 : t[i] = s[IF i < k THEN i ELSE i + 1]
  <2> HIDE DEF pre, post
  <2>1. /\ t \in Seq(S)
        /\ Len(t) = Len(pre) + Len(post)
        /\ \A i \in 1 .. Len(pre) + Len(post) :
             t[i] = IF i <= Len(pre) THEN pre[i] ELSE post[i - Len(pre)]
    BY <1>3, <1>4, ConcatProperties
  <2> HIDE DEF t
  <2>2. Len(pre) + Len(post) = Len(s) - 1 /\ Len(s) \in Nat
    BY <1>3, <1>4, LenProperties
  <2>3. ASSUME NEW i \in 1 .. Len(s) - 1
        PROVE  t[i] = s[IF i < k THEN i ELSE i + 1]
    <3>1. CASE i < k
      BY <1>3, <2>1, <2>2, <3>1
    <3>2. CASE ~(i < k)
      <4>1. i - Len(pre) \in 1 .. Len(s) - k /\ k + (i - Len(pre)) = i + 1
        BY <1>3, <2>2, <3>2
      <4>2. t[i] = post[i - Len(pre)]
        <5>1. i \in 1 .. Len(pre) + Len(post) /\ ~(i <= Len(pre))
          BY <1>3, <2>2, <3>2
        <5>2. QED
          BY <2>1, <5>1
      <4>3. QED
        BY <1>4, <3>2, <4>1, <4>2
    <3>3. QED
      BY <3>1, <3>2
  <2>4. QED
    BY <2>1, <2>2, <2>3
<1> HIDE DEF t
<1>6. Once(t)
  BY <1>5 DEF Once
<1>7. ToSet(t) = ToSet(s) \ {e}
  <2>1. ASSUME NEW v \in ToSet(t) PROVE v \in ToSet(s) \ {e}
    BY <1>1, <1>5 DEF Once, ToSet
  <2>2. ASSUME NEW v \in ToSet(s) \ {e} PROVE v \in ToSet(t)
    <3>1. PICK j \in 1 .. Len(s) : s[j] = v
      BY DEF ToSet
    <3>2. j # k
      BY <1>1, <3>1
    <3>3. CASE j < k
      BY <1>5, <3>1, <3>3 DEF ToSet
    <3>4. CASE j > k
      <4>1. j - 1 \in 1 .. Len(t) /\ t[j - 1] = v
        BY <1>5, <3>1, <3>4
      <4>2. QED
        BY <4>1, <1>5 DEF ToSet
    <3>5. QED
      BY <3>2, <3>3, <3>4
  <2>3. QED
    BY <2>1, <2>2
<1>8. QED
  BY <1>2, <1>5, <1>6, <1>7

(* The next n arrival numbers after m.                                     *)
Arrivals(m, n) == [i \in 1 .. n |-> m + i]

(* Appending the next arrival numbers to a list of earlier ones.           *)
LEMMA AppendFresh ==
  ASSUME NEW s \in Seq(Requests), Once(s),
         NEW m \in Nat, NEW n \in Nat, m + n <= MaxRequests,
         ToSet(s) \cap ((m + 1) .. (m + n)) = {}
  PROVE  /\ s \o Arrivals(m, n) \in Seq(Requests)
         /\ Once(s \o Arrivals(m, n))
         /\ ToSet(s \o Arrivals(m, n)) = ToSet(s) \cup ((m + 1) .. (m + n))
<1> DEFINE t == s \o Arrivals(m, n)
<1>1. Arrivals(m, n) \in Seq(Requests) /\ Len(Arrivals(m, n)) = n
  BY ConnectionAssumption DEF Requests, Arrivals
<1>2. \A i \in 1 .. n : Arrivals(m, n)[i] = m + i
  BY DEF Arrivals
<1>3. /\ t \in Seq(Requests)
      /\ Len(t) = Len(s) + n
      /\ \A i \in 1 .. Len(s) + n :
           t[i] = IF i <= Len(s) THEN s[i] ELSE Arrivals(m, n)[i - Len(s)]
  BY <1>1, ConcatProperties
<1>4. Len(s) \in Nat /\ DOMAIN s = 1 .. Len(s) /\ DOMAIN t = 1 .. (Len(s) + n)
  BY <1>3, LenProperties
<1> HIDE DEF t
<1>5. \A i \in 1 .. Len(s) : t[i] = s[i] /\ s[i] \in ToSet(s)
  BY <1>3, <1>4 DEF ToSet
<1>6. \A i \in (Len(s) + 1) .. (Len(s) + n) : t[i] = m + (i - Len(s))
  <2>1. SUFFICES ASSUME NEW i \in (Len(s) + 1) .. (Len(s) + n)
                 PROVE  t[i] = m + (i - Len(s))
    OBVIOUS
  <2>2. t[i] = Arrivals(m, n)[i - Len(s)] /\ i - Len(s) \in 1 .. n
    BY <1>3, <1>4
  <2>3. QED
    BY <1>2, <2>2
<1>7. Once(t)
  <2>1. SUFFICES ASSUME NEW i \in 1 .. Len(s) + n, NEW j \in 1 .. Len(s) + n,
                        t[i] = t[j], i <= j
                 PROVE  i = j
    BY <1>3, <1>4 DEF Once
  <2>2. CASE j <= Len(s)
    BY <1>4, <1>5, <2>1, <2>2 DEF Once
  <2>3. CASE i <= Len(s) /\ Len(s) < j
    <3>1. t[i] \in ToSet(s) /\ t[j] \in (m + 1) .. (m + n)
      BY <1>4, <1>5, <1>6, <2>3
    <3>2. QED
      BY <2>1, <3>1
  <2>4. CASE Len(s) < i
    BY <1>4, <1>6, <2>1, <2>4
  <2>5. QED
    BY <1>4, <2>1, <2>2, <2>3, <2>4
<1>8. ToSet(t) = ToSet(s) \cup ((m + 1) .. (m + n))
  <2>1. ASSUME NEW v \in ToSet(t) PROVE v \in ToSet(s) \cup ((m + 1) .. (m + n))
    BY <1>4, <1>5, <1>6 DEF ToSet
  <2>2. ASSUME NEW v \in ToSet(s) PROVE v \in ToSet(t)
    <3>1. PICK i \in 1 .. Len(s) : s[i] = v
      BY <1>4 DEF ToSet
    <3>2. i \in DOMAIN t /\ t[i] = v
      BY <1>4, <1>5, <3>1
    <3>3. QED
      BY <3>2 DEF ToSet
  <2>3. ASSUME NEW v \in (m + 1) .. (m + n) PROVE v \in ToSet(t)
    <3>1. Len(s) + (v - m) \in DOMAIN t /\ t[Len(s) + (v - m)] = v
      BY <1>4, <1>6
    <3>2. QED
      BY <3>1 DEF ToSet
  <2>4. QED
    BY <2>1, <2>2, <2>3
<1>9. QED
  BY <1>3, <1>7, <1>8 DEF t

-----------------------------------------------------------------------------
(* The inductive invariant.                                                *)

(* Requests that have not arrived have left no trace, and none arrives     *)
(* before the transport.                                                   *)
Arrival ==
  /\ transport = "detached" => received = 0
  /\ closes \subseteq 1 .. received
  /\ \A r \in Requests : received < r => fut[r] = "none" /\ task[r] = "none"

(* What a task has written by the time it reached its state.               *)
WritesFollowTask ==
  \A r \in Requests :
    /\ task[r] \in {"none", "scheduled", "handler"} => writes[r] = <<>>
    /\ task[r] = "pushing" => writes[r] = <<"promising">>
    /\ task[r] = "returned" => \E w \in {"response", "promising"} : writes[r] = <<w>>
    /\ task[r] \in {"raised", "cancelled"} =>
         \/ writes[r] = <<>>
         \/ \E w \in {"partial", "refused", "promising"} : writes[r] = <<w>>

(* Who decided a future: its task, which is then settled, or a loop.       *)
Decided ==
  \A r \in Requests :
    /\ task[r] = "settled" => fut[r] # "pending"
    /\ fut[r] = "pending" => cancel[r] = "no"
    /\ fut[r] \in {"result", "error"} => task[r] = "settled"
    /\ fut[r] = "cancelled" => task[r] = "settled" \/ cancel[r] # "no"

(* No loop over self._futures runs on an open transport, and the loop of   *)
(* connection_lost only on a lost one.                                     *)
LoopsAfterClose ==
  /\ calls # <<>> => transport \in {"closing", "lost"}
  /\ \A i \in 1 .. Len(calls) : calls[i].loop = "lost" => transport = "lost"

Inv ==
  /\ TypeOK
  /\ ListHoldsPending
  /\ Arrival
  /\ WritesFollowTask
  /\ Decided
  /\ LoopsAfterClose
  /\ OneAnswer
  /\ CloseWaits
  /\ CancelMeansLost

-----------------------------------------------------------------------------
(* Steps shared by several actions.                                        *)

(* Taking a resolved future out of the list keeps it the list of the       *)
(* pending ones.                                                           *)
LEMMA RemovalKeepsList ==
  ASSUME TypeOK, ListHoldsPending,
         NEW r \in Requests, fut[r] = "pending",
         NEW s, s # "pending",
         fut' = [fut EXCEPT ![r] = s],
         futures' = RemoveFirst(futures, r)
  PROVE  futures' \in Seq(Requests) /\ ListHoldsPending'
<1>1. Once(futures) /\ r \in ToSet(futures) /\ futures \in Seq(Requests)
  BY DEF Once, ListHoldsPending, Pending, TypeOK
<1>2. /\ futures' \in Seq(Requests)
      /\ Once(futures')
      /\ ToSet(futures') = ToSet(futures) \ {r}
  BY <1>1, RemoveOnce
<1>3. Pending' = Pending \ {r}
  BY DEF Pending, TypeOK
<1>4. QED
  BY <1>2, <1>3 DEF ListHoldsPending, Once

(* The stack of loops after close() has put its own on top.                *)
LEMMA StackedClose ==
  ASSUME NEW running \in Seq(Loops),
         \A i \in 1 .. Len(running) : running[i].loop = "lost" => transport = "lost",
         transport \in TransportStates,
         StartClose(running)
  PROVE  /\ calls' \in Seq(Loops)
         /\ transport' \in {transport, "closing"} \ {"open"}
         /\ transport = "lost" => transport' = "lost"
         /\ transport = "detached" => transport' = "detached"
         /\ \A i \in 1 .. Len(calls') :
              calls'[i].loop = "lost" => transport' = "lost"
<1> DEFINE top == <<Loop("close")>>
<1>1. top \in Seq(Loops) /\ Len(top) = 1 /\ top[1].loop = "close"
  BY DEF Loop, Loops
<1>2. calls' = top \o running
  BY DEF StartClose
<1> HIDE DEF top
<1>3. /\ calls' \in Seq(Loops)
      /\ Len(calls') = 1 + Len(running)
      /\ \A i \in 1 .. 1 + Len(running) :
           calls'[i] = IF i <= 1 THEN top[i] ELSE running[i - 1]
  BY <1>1, <1>2, ConcatProperties
<1>4. \A i \in 1 .. Len(calls') :
        calls'[i].loop = "lost" => \E j \in 1 .. Len(running) : running[j].loop = "lost"
  <2> SUFFICES ASSUME NEW i \in 1 .. Len(calls'), calls'[i].loop = "lost"
               PROVE  \E j \in 1 .. Len(running) : running[j].loop = "lost"
    OBVIOUS
  <2>1. i # 1
    BY <1>1, <1>3
  <2>2. i - 1 \in 1 .. Len(running) /\ running[i - 1].loop = "lost"
    BY <2>1, <1>3, LenProperties
  <2>3. QED
    BY <2>2
<1>5. QED
  BY <1>3, <1>4 DEF StartClose, TransportStates

-----------------------------------------------------------------------------

LEMMA InitInv == Init => Inv
<1> SUFFICES ASSUME Init PROVE Inv
  OBVIOUS
<1> USE DEF Init
<1>1. TypeOK
  BY ConnectionAssumption DEF TypeOK, TransportStates, Parsers, FutureStates, TaskStates,
     CancelStates
<1>2. ListHoldsPending
  BY DEF ListHoldsPending, Pending, ToSet
<1>3. Arrival /\ WritesFollowTask /\ Decided /\ LoopsAfterClose
  BY DEF Arrival, WritesFollowTask, Decided, LoopsAfterClose, Requests
<1>4. OneAnswer /\ CloseWaits /\ CancelMeansLost
  BY DEF OneAnswer, CloseWaits, CancelMeansLost
<1>5. QED
  BY <1>1, <1>2, <1>3, <1>4 DEF Inv

(* New requests: their futures are appended in arrival order.              *)
LEMMA DataReceivedInv ==
  ASSUME Inv, NEW n \in 0 .. (MaxRequests - received), NEW close \in BOOLEAN,
         DataReceived(n, close)
  PROVE  Inv'
<1> DEFINE new   == (received + 1) .. (received + n)
<1> USE DEF Inv
<1>1. /\ received \in Nat /\ received + n <= MaxRequests /\ n \in Nat
      /\ new \subseteq Requests /\ received' = received + n
  BY ConnectionAssumption DEF TypeOK, Requests, DataReceived
<1>2. fut' = [r \in Requests |-> IF r \in new THEN "pending" ELSE fut[r]]
  BY DEF DataReceived
<1>3. task' = [r \in Requests |-> IF r \in new THEN "scheduled" ELSE task[r]]
  BY DEF DataReceived
<1>4. \A r \in new : fut[r] = "none" /\ task[r] = "none" /\ writes[r] = <<>>
  BY <1>1 DEF Arrival, WritesFollowTask
<1>5. futures' \in Seq(Requests) /\ ListHoldsPending'
  <2>1. futures' = futures \o Arrivals(received, n)
    BY DEF DataReceived, Arrivals
  <2>2. Pending' = Pending \cup new
    BY <1>1, <1>2 DEF Pending
  <2>3. /\ futures \in Seq(Requests) /\ Once(futures)
        /\ ToSet(futures) = Pending /\ Pending \cap new = {}
    BY <1>4 DEF ListHoldsPending, Once, Pending, TypeOK
  <2> HIDE DEF Inv
  <2>4. QED
    BY <1>1, <2>1, <2>2, <2>3, AppendFresh DEF ListHoldsPending, Once
<1>6. calls = <<>> /\ transport = "open"
  BY DEF DataReceived, Idle
<1>7. /\ calls' \in Seq(Loops)
      /\ transport' \in {"open", "closing"}
      /\ LoopsAfterClose'
  <2>1. CASE close /\ n = 0
    <3>1. StartClose(<<>>)
      BY <2>1 DEF DataReceived
    <3>2. <<>> \in Seq(Loops) /\ Len(<<>>) = 0
      OBVIOUS
    <3>3. QED
      <4>1. \A i \in 1 .. Len(<<>>) : <<>>[i].loop = "lost" => transport = "lost"
        BY <3>2
      <4>2. /\ calls' \in Seq(Loops)
            /\ transport' = "closing"
            /\ \A i \in 1 .. Len(calls') : calls'[i].loop = "lost" => transport' = "lost"
        BY <1>6, <3>1, <3>2, <4>1, StackedClose DEF TransportStates
      <4>3. QED
        BY <4>2 DEF LoopsAfterClose
  <2>2. CASE ~(close /\ n = 0)
    <3>1. UNCHANGED <<transport, calls>>
      BY <2>2 DEF DataReceived
    <3>2. QED
      BY <1>6, <3>1 DEF LoopsAfterClose, TypeOK
  <2>3. QED
    BY <2>1, <2>2
<1>8. TypeOK'
  <2>1. /\ received' \in 0 .. MaxRequests
        /\ fut' \in [Requests -> FutureStates]
        /\ task' \in [Requests -> TaskStates]
        /\ closes' \in SUBSET Requests
    BY <1>1, <1>2, <1>3
       DEF DataReceived, TypeOK, FutureStates, TaskStates, Running, Requests
  <2>2. parser' \in Parsers
    BY DEF DataReceived, Parse, TypeOK, Parsers
  <2>3. shut' \in SUBSET Requests
    <3>1. 1 .. (received + n) \subseteq Requests
      BY <1>1, ConnectionAssumption DEF Requests
    <3>2. shut \subseteq Requests
      BY DEF TypeOK
    <3>3. shut' = shut \cup 1 .. (received + n) \/ shut' = shut
      BY DEF DataReceived
    <3>4. QED
      BY <3>1, <3>2, <3>3
  <2>4. UNCHANGED <<cancel, pushes, writes>>
    BY DEF DataReceived
  <2>5. transport' \in TransportStates
    BY <1>7 DEF TransportStates
  <2>6. QED
    BY <1>5, <1>7, <2>1, <2>2, <2>3, <2>4, <2>5 DEF TypeOK
<1>9. /\ UNCHANGED <<cancel, writes>>
      /\ closes' \subseteq closes \cup new
  BY <1>1 DEF DataReceived
<1>10. Arrival'
  BY <1>1, <1>2, <1>3, <1>7, <1>9 DEF Arrival, TypeOK, Requests
<1>11. WritesFollowTask' /\ OneAnswer'
  <2>1. OneAnswer'
    BY <1>9 DEF OneAnswer
  <2>2. ASSUME NEW r \in Requests PROVE WritesFollowTask!(r)'
    <3>1. CASE r \in new
      BY <1>3, <1>4, <1>9, <3>1
    <3>2. CASE r \notin new
      BY <1>3, <1>9, <3>2 DEF WritesFollowTask
    <3>3. QED
      BY <3>1, <3>2
  <2>3. QED
    BY <2>1, <2>2 DEF WritesFollowTask
<1>12. Decided' /\ CancelMeansLost'
  BY <1>2, <1>3, <1>4, <1>6, <1>9 DEF Decided, CancelMeansLost
<1>13. CloseWaits'
  BY <1>1, <1>2, <1>6, <1>9 DEF CloseWaits, TypeOK
<1>14. QED
  BY <1>5, <1>7, <1>8, <1>10, <1>11, <1>12, <1>13

-----------------------------------------------------------------------------
(* The transport's callbacks.                                              *)

(* The invariant's parts that only speak of requests.                      *)
LEMMA UnchangedRequests ==
  ASSUME Inv, UNCHANGED <<parser, received, futures, fut, closes, task, cancel,
                          pushes, writes>>
  PROVE  ListHoldsPending' /\ WritesFollowTask' /\ Decided' /\ OneAnswer'
<1>1. ListHoldsPending'
  BY DEF Inv, ListHoldsPending, Pending, ToSet
<1>2. WritesFollowTask' /\ Decided' /\ OneAnswer'
  BY DEF Inv, WritesFollowTask, Decided, OneAnswer
<1>3. QED
  BY <1>1, <1>2

LEMMA ConnectionMadeInv == Inv /\ ConnectionMade => Inv'
<1> SUFFICES ASSUME Inv, ConnectionMade PROVE Inv'
  OBVIOUS
<1> USE DEF ConnectionMade
<1>1. TypeOK' /\ Arrival' /\ CancelMeansLost'
  BY DEF Inv, TypeOK, Arrival, CancelMeansLost, TransportStates
<1>2. closes = {} /\ calls = <<>>
  BY DEF Inv, Arrival, LoopsAfterClose
<1>3. LoopsAfterClose' /\ CloseWaits'
  BY <1>2 DEF LoopsAfterClose, CloseWaits
<1>4. QED
  BY <1>1, <1>3, UnchangedRequests DEF Inv

LEMMA DataRejectedInv == Inv /\ DataRejected => Inv'
<1> SUFFICES ASSUME Inv, DataRejected PROVE Inv'
  OBVIOUS
<1> USE DEF DataRejected
<1>1. TypeOK' /\ Arrival' /\ CancelMeansLost'
  BY DEF Inv, TypeOK, Arrival, CancelMeansLost, TransportStates
<1>2. LoopsAfterClose' /\ CloseWaits'
  BY DEF Inv, LoopsAfterClose, CloseWaits, Idle
<1>3. QED
  BY <1>1, <1>2, UnchangedRequests DEF Inv

LEMMA StreamResetInv ==
  ASSUME Inv, NEW r \in Requests, StreamReset(r)
  PROVE  Inv'
<1> USE DEF StreamReset
<1>1. TypeOK' /\ Arrival' /\ CancelMeansLost'
  BY DEF Inv, TypeOK, Arrival, CancelMeansLost
<1>2. LoopsAfterClose' /\ CloseWaits'
  BY DEF Inv, LoopsAfterClose, CloseWaits
<1>3. QED
  BY <1>1, <1>2, UnchangedRequests DEF Inv

LEMMA EofReceivedInv == Inv /\ EofReceived => Inv'
  BY DataRejectedInv DEF EofReceived, DataRejected

LEMMA ConnectionLostInv == Inv /\ ConnectionLost => Inv'
<1> SUFFICES ASSUME Inv, ConnectionLost PROVE Inv'
  OBVIOUS
<1> USE DEF ConnectionLost
<1>1. TypeOK' /\ Arrival' /\ CancelMeansLost'
  BY DEF Inv, TypeOK, Arrival, CancelMeansLost, TransportStates, Loop, Loops
<1>2. LoopsAfterClose' /\ CloseWaits'
  BY DEF Inv, LoopsAfterClose, CloseWaits, Loop
<1>3. QED
  BY <1>1, <1>2, UnchangedRequests DEF Inv

-----------------------------------------------------------------------------
(* The steps of a task.  They leave the futures and the transport alone.   *)

LEMMA UnchangedFutures ==
  ASSUME Inv, UNCHANGED <<transport, received, futures, fut, closes, calls>>
  PROVE  ListHoldsPending' /\ LoopsAfterClose' /\ CloseWaits'
<1>1. ListHoldsPending'
  BY DEF Inv, ListHoldsPending, Pending, ToSet
<1>2. LoopsAfterClose' /\ CloseWaits'
  BY DEF Inv, LoopsAfterClose, CloseWaits
<1>3. QED
  BY <1>1, <1>2

LEMMA StartTaskInv ==
  ASSUME Inv, NEW r \in Requests, StartTask(r)
  PROVE  Inv'
<1> USE DEF StartTask
<1>1. TypeOK' /\ Arrival' /\ CancelMeansLost' /\ OneAnswer'
  BY DEF Inv, TypeOK, Arrival, CancelMeansLost, OneAnswer, TaskStates, Running
<1>2. WritesFollowTask' /\ Decided'
  BY DEF Inv, TypeOK, WritesFollowTask, Decided
<1>3. QED
  BY <1>1, <1>2, UnchangedFutures DEF Inv

LEMMA CancelTaskInv ==
  ASSUME Inv, NEW r \in Requests, CancelTask(r)
  PROVE  Inv'
<1> USE DEF CancelTask
<1>1. TypeOK' /\ Arrival' /\ CancelMeansLost' /\ OneAnswer'
  BY DEF Inv, TypeOK, Arrival, CancelMeansLost, OneAnswer, CancelStates
<1>2. WritesFollowTask' /\ Decided'
  BY DEF Inv, TypeOK, WritesFollowTask, Decided
<1>3. QED
  BY <1>1, <1>2, UnchangedFutures DEF Inv

LEMMA HandlerReturnsInv ==
  ASSUME Inv, NEW r \in Requests, NEW w \in Writes, NEW n \in 0 .. MaxPushes,
         HandlerReturns(r, w, n)
  PROVE  Inv'
<1> USE DEF HandlerReturns
<1>1. writes[r] = <<>> /\ writes' = [writes EXCEPT ![r] = <<w>>]
  <2>1. writes[r] = <<>>
    BY DEF Inv, WritesFollowTask
  <2>2. Append(<<>>, w) = <<w>>
    OBVIOUS
  <2>3. QED
    BY <2>1, <2>2
<1>2. TypeOK' /\ Arrival' /\ CancelMeansLost'
  BY <1>1 DEF Inv, TypeOK, Arrival, CancelMeansLost, TaskStates, Running, Ended
<1>3. OneAnswer'
  BY <1>1 DEF Inv, TypeOK, OneAnswer
<1>4. WritesFollowTask' /\ Decided'
  BY <1>1 DEF Inv, TypeOK, WritesFollowTask, Decided
<1>5. QED
  BY <1>2, <1>3, <1>4, UnchangedFutures DEF Inv

LEMMA HandlerFailsInv ==
  ASSUME Inv, NEW r \in Requests, NEW end \in Ended, HandlerFails(r, end)
  PROVE  Inv'
<1> USE DEF HandlerFails
<1>1. TypeOK' /\ Arrival' /\ CancelMeansLost' /\ OneAnswer'
  BY DEF Inv, TypeOK, Arrival, CancelMeansLost, OneAnswer, TaskStates, Ended
<1>2. WritesFollowTask' /\ Decided'
  BY DEF Inv, TypeOK, WritesFollowTask, Decided
<1>3. QED
  BY <1>1, <1>2, UnchangedFutures DEF Inv

LEMMA PushEndsInv ==
  ASSUME Inv, NEW r \in Requests, NEW end \in Ended, PushEnds(r, end)
  PROVE  Inv'
<1> USE DEF PushEnds
<1>1. \/ UNCHANGED task
      \/ task[r] = "pushing" /\ task' = [task EXCEPT ![r] = end]
  OBVIOUS
<1>2. TypeOK'
  BY <1>1, ConnectionAssumption DEF Inv, TypeOK, TaskStates
<1>3. Arrival' /\ CancelMeansLost' /\ OneAnswer'
  BY <1>1 DEF Inv, TypeOK, Arrival, CancelMeansLost, OneAnswer
<1>4. WritesFollowTask' /\ Decided'
  BY <1>1 DEF Inv, TypeOK, WritesFollowTask, Decided, Ended
<1>5. QED
  BY <1>2, <1>3, <1>4, UnchangedFutures DEF Inv

-----------------------------------------------------------------------------
(* The steps that resolve a future.                                        *)

(* The close callback: it leaves a stack of loops over a transport that is *)
(* not open, or nothing new at all.                                        *)
LEMMA CloseCallbackInv ==
  ASSUME Inv, NEW r \in Requests, fut[r] = "pending",
         NEW running \in Seq(Loops),
         \A i \in 1 .. Len(running) : running[i].loop = "lost" => transport = "lost",
         running # <<>> => transport \in {"closing", "lost"},
         CloseCallback(r, running)
  PROVE  /\ calls' \in Seq(Loops)
         /\ transport' \in TransportStates \ {"detached"}
         /\ transport = "lost" => transport' = "lost"
         /\ r \in closes => transport' # "open"
         /\ transport' = "open" => transport = "open"
         /\ LoopsAfterClose'
<1>1. transport \in TransportStates \ {"detached"}
  BY DEF Inv, Arrival, TypeOK, Requests
<1>2. CASE r \in closes
  <2>1. StartClose(running)
    BY <1>2 DEF CloseCallback
  <2>2. /\ calls' \in Seq(Loops)
        /\ transport' \in {transport, "closing"} \ {"open"}
        /\ transport = "lost" => transport' = "lost"
        /\ \A i \in 1 .. Len(calls') : calls'[i].loop = "lost" => transport' = "lost"
    BY <1>1, <2>1, StackedClose
  <2>3. QED
    BY <1>1, <2>2 DEF LoopsAfterClose, TransportStates
<1>3. CASE r \notin closes
  <2>1. calls' = running /\ UNCHANGED transport
    BY <1>3 DEF CloseCallback
  <2>2. QED
    BY <1>1, <1>3, <2>1 DEF LoopsAfterClose
<1>4. QED
  BY <1>2, <1>3

(* A task reports its end.                                                 *)
LEMMA SettleInv ==
  ASSUME Inv, NEW r \in Requests, Settle(r)
  PROVE  Inv'
<1>1. task' = [task EXCEPT ![r] = "settled"]
  BY DEF Settle
<1>2. UNCHANGED <<parser, received, closes, cancel, pushes, shut>>
  BY DEF Settle
<1>3. CASE fut[r] # "pending"
  <2>1. UNCHANGED <<transport, fut, writes, futures, calls>>
    BY <1>3 DEF Settle
  <2>2. TypeOK' /\ Arrival' /\ CancelMeansLost' /\ OneAnswer'
    <3>1. TypeOK'
      BY <1>1, <1>2, <2>1 DEF Inv, TypeOK, TaskStates
    <3>2. Arrival'
      BY <1>1, <1>2, <2>1 DEF Inv, TypeOK, Arrival, Settle, Ended
    <3>3. CancelMeansLost' /\ OneAnswer'
      BY <1>2, <2>1 DEF Inv, CancelMeansLost, OneAnswer
    <3>4. QED
      BY <3>1, <3>2, <3>3
  <2>3. WritesFollowTask' /\ Decided'
    BY <1>1, <1>2, <1>3, <2>1 DEF Inv, TypeOK, WritesFollowTask, Decided
  <2>4. QED
    BY <1>2, <2>1, <2>2, <2>3, UnchangedFutures DEF Inv
<1>4. CASE fut[r] = "pending"
  <2>1. /\ fut' = [fut EXCEPT ![r] = Settled(task[r])]
        /\ Settled(task[r]) \in {"result", "error", "cancelled"}
    BY <1>4 DEF Settle, Settled, Ended
  <2>2. futures' \in Seq(Requests) /\ ListHoldsPending'
    BY <1>4, <2>1, RemovalKeepsList DEF Settle, DoneCallback, Inv
  <2>3. /\ calls' \in Seq(Loops)
        /\ transport' \in TransportStates \ {"detached"}
        /\ transport = "lost" => transport' = "lost"
        /\ r \in closes => transport' # "open"
        /\ transport' = "open" => transport = "open"
        /\ LoopsAfterClose'
    <3>1. CloseCallback(r, <<>>)
      BY <1>4 DEF Settle
    <3>2. <<>> \in Seq(Loops) /\ \A i \in 1 .. Len(<<>>) : FALSE
      OBVIOUS
    <3>3. QED
      BY <1>4, <3>1, <3>2, CloseCallbackInv
  <2>4. \/ UNCHANGED writes
        \/ /\ task[r] \in {"raised", "cancelled"}
           /\ \E w \in {"error", "refused"} :
                writes' = [writes EXCEPT ![r] = Append(@, w)]
    BY <1>4 DEF Settle, DoneCallback, Write500, Stock, Ended
  <2>5. writes' \in [Requests -> Seq(Writes)]
    <3>1. writes \in [Requests -> Seq(Writes)]
      BY DEF Inv, TypeOK
    <3>2. \A w \in {"error", "refused"} : Append(writes[r], w) \in Seq(Writes)
      BY <3>1, AppendProperties DEF Writes
    <3>3. QED
      BY <2>4, <3>1, <3>2
  <2>6. TypeOK'
    BY <1>1, <1>2, <2>1, <2>2, <2>3, <2>5
       DEF Inv, TypeOK, FutureStates, TaskStates
  <2>7. Arrival' /\ CancelMeansLost'
    BY <1>1, <1>2, <1>4, <2>1, <2>3 DEF Inv, TypeOK, Arrival, CancelMeansLost
  <2>8. OneAnswer'
    <3>1. CASE UNCHANGED writes
      BY <3>1 DEF Inv, OneAnswer
    <3>2. ASSUME task[r] \in {"raised", "cancelled"},
                 NEW w \in {"error", "refused"},
                 writes' = [writes EXCEPT ![r] = Append(@, w)]
          PROVE  OneAnswer'
      <4>1. \/ writes[r] = <<>>
            \/ \E v \in {"partial", "refused", "promising"} : writes[r] = <<v>>
        BY <3>2 DEF Inv, WritesFollowTask
      <4>2. writes'[r] = Append(writes[r], w)
        BY <3>2 DEF Inv, TypeOK
      <4>3. CASE writes[r] = <<>>
        BY <3>2, <4>2, <4>3 DEF Inv, TypeOK, OneAnswer
      <4>4. ASSUME NEW v \in {"partial", "refused", "promising"}, writes[r] = <<v>>
            PROVE  OneAnswer'
        <5>1. <<v>> \in Seq(Writes) /\ Len(<<v>>) = 1 /\ w \in Writes
          BY <4>4, <3>2 DEF Writes
        <5>2. /\ Len(Append(<<v>>, w)) = 2
              /\ Append(<<v>>, w)[1] = v
              /\ Append(<<v>>, w)[2] = w
          BY <5>1, AppendProperties
        <5>3. /\ writes'[r] = Append(<<v>>, w)
              /\ \A q \in Requests : q # r => writes'[q] = writes[q]
          BY <3>2, <4>2, <4>4 DEF Inv, TypeOK
        <5>4. QED
          BY <5>2, <5>3, <4>4, <3>2 DEF Inv, OneAnswer
      <4>5. QED
        BY <4>1, <4>3, <4>4
    <3>3. QED
      BY <2>4, <3>1, <3>2
  <2>9. WritesFollowTask' /\ Decided'
    BY <1>1, <1>2, <2>1, <2>4 DEF Inv, TypeOK, WritesFollowTask, Decided
  <2>10. CloseWaits'
    BY <1>2, <2>1, <2>3 DEF Inv, TypeOK, CloseWaits
  <2>11. QED
    BY <2>2, <2>3, <2>6, <2>7, <2>8, <2>9, <2>10 DEF Inv
<1>5. QED
  BY <1>3, <1>4

(* The future a loop is about to resolve is pending, and nobody is told.   *)
LEMMA LoopTurnPicks ==
  ASSUME Inv, LoopTurn
  PROVE  /\ transport \in {"closing", "lost"}
         /\ Head(calls) \in Loops
         /\ futures[Head(calls).next] \in Pending
         /\ UNCHANGED writes
<1> DEFINE top == Head(calls)
           r   == futures[top.next]
<1>1. calls \in Seq(Loops) /\ calls # <<>> /\ transport \in {"closing", "lost"}
  BY DEF Inv, TypeOK, LoopTurn, Idle, LoopsAfterClose
<1>2. top \in Loops
  BY <1>1, HeadTailProperties
<1>3. top.next <= Len(futures)
  BY DEF LoopTurn
<1>4. top.next \in Nat \ {0} /\ Len(futures) \in Nat
  BY <1>2, LenProperties DEF Loops, Inv, TypeOK
<1>5. r \in ToSet(futures)
  BY <1>3, <1>4, LenProperties DEF ToSet, Inv, TypeOK
<1>6. DoneCallback(r, TRUE)
  BY Zenon DEF LoopTurn
<1>7. UNCHANGED writes
  BY <1>1, <1>6 DEF DoneCallback, Write500
<1>8. QED
  BY <1>1, <1>2, <1>5, <1>7 DEF Inv, ListHoldsPending

(* One turn of close or connection_lost.                                   *)
LEMMA LoopTurnInv == Inv /\ LoopTurn => Inv'
<1> SUFFICES ASSUME Inv, LoopTurn PROVE Inv'
  OBVIOUS
<1> DEFINE top  == Head(calls)
           r    == futures[top.next]
           next == [top EXCEPT !.next = @ + 1]
           rest == <<next>> \o Tail(calls)
<1>1. /\ calls \in Seq(Loops) /\ calls # <<>>
      /\ transport \in {"closing", "lost"}
      /\ \A i \in 1 .. Len(calls) : calls[i].loop = "lost" => transport = "lost"
  BY DEF Inv, TypeOK, LoopTurn, Idle, LoopsAfterClose
<1>2. /\ top \in Loops /\ top = calls[1] /\ Len(calls) \in Nat \ {0}
      /\ Tail(calls) \in Seq(Loops) /\ Len(Tail(calls)) = Len(calls) - 1
      /\ \A i \in 1 .. Len(calls) - 1 : Tail(calls)[i] = calls[i + 1]
  BY <1>1, HeadTailProperties, EmptySeq
<1>3. /\ UNCHANGED <<parser, received, closes, task, pushes, shut>>
      /\ Stop(r, top.loop) /\ DoneCallback(r, TRUE) /\ CloseCallback(r, rest)
  BY Zenon DEF LoopTurn
<1>4. r \in Requests /\ fut[r] = "pending"
  BY LoopTurnPicks DEF Pending
<1>5. next \in Loops /\ next.loop = top.loop
  BY <1>2 DEF Loops
<1>6. /\ rest \in Seq(Loops)
      /\ \A i \in 1 .. Len(rest) : rest[i].loop = "lost" => transport = "lost"
  <2> HIDE DEF next, top
  <2>1. <<next>> \in Seq(Loops) /\ Len(<<next>>) = 1 /\ <<next>>[1] = next
    BY <1>5
  <2>2. /\ rest \in Seq(Loops)
        /\ Len(rest) = Len(calls)
        /\ \A i \in 1 .. Len(calls) :
             rest[i] = IF i <= 1 THEN <<next>>[i] ELSE Tail(calls)[i - 1]
    BY <1>2, <2>1, ConcatProperties
  <2>3. \A i \in 1 .. Len(calls) : rest[i].loop = calls[i].loop
    <3>1. SUFFICES ASSUME NEW i \in 1 .. Len(calls) PROVE rest[i].loop = calls[i].loop
      OBVIOUS
    <3>2. CASE i = 1
      BY <1>2, <1>5, <2>1, <2>2, <3>2
    <3>3. CASE i # 1
      BY <1>2, <2>2, <3>3
    <3>4. QED
      BY <3>2, <3>3
  <2>4. QED
    BY <1>1, <2>2, <2>3
<1>7. /\ calls' \in Seq(Loops)
      /\ transport' \in TransportStates \ {"detached"}
      /\ transport = "lost" => transport' = "lost"
      /\ transport' # "open"
      /\ LoopsAfterClose'
  <2> HIDE DEF rest, r
  <2>1. QED
    BY <1>1, <1>3, <1>4, <1>6, CloseCallbackInv
<1>8. UNCHANGED writes /\ futures' = RemoveFirst(futures, r)
  BY <1>3, LoopTurnPicks DEF DoneCallback
<1>9. \/ /\ top.loop = "lost" /\ transport' = "lost"
         /\ fut' = [fut EXCEPT ![r] = "cancelled"]
         /\ cancel' = [cancel EXCEPT ![r] = "requested"]
      \/ /\ fut' = [fut EXCEPT ![r] = "closed"]
         /\ UNCHANGED cancel
  BY <1>1, <1>2, <1>3, <1>7 DEF Stop
<1> HIDE DEF r, top, rest, next
<1>10. futures' \in Seq(Requests) /\ ListHoldsPending'
  BY <1>4, <1>8, <1>9, RemovalKeepsList DEF Inv
<1>11. TypeOK'
  BY <1>3, <1>4, <1>7, <1>8, <1>9, <1>10
     DEF Inv, TypeOK, FutureStates, CancelStates
<1>12. Arrival'
  BY <1>3, <1>4, <1>7, <1>9 DEF Inv, TypeOK, Arrival
<1>13. WritesFollowTask' /\ OneAnswer'
  BY <1>3, <1>8 DEF Inv, WritesFollowTask, OneAnswer
<1>14. Decided'
  BY <1>3, <1>4, <1>9 DEF Inv, TypeOK, Decided
<1>15. CloseWaits' /\ CancelMeansLost'
  BY <1>4, <1>7, <1>9 DEF Inv, TypeOK, CloseWaits, CancelMeansLost
<1>16. QED
  BY <1>7, <1>10, <1>11, <1>12, <1>13, <1>14, <1>15 DEF Inv

LEMMA LoopEndInv == Inv /\ LoopEnd => Inv'
<1> SUFFICES ASSUME Inv, LoopEnd PROVE Inv'
  OBVIOUS
<1>1. /\ UNCHANGED <<transport, parser, received, futures, fut, closes, task,
                     cancel, pushes, writes, shut>>
      /\ calls' = Tail(calls) /\ calls # <<>> /\ calls \in Seq(Loops)
  BY DEF Inv, TypeOK, LoopEnd, Idle
<1>2. /\ calls' \in Seq(Loops) /\ Len(calls') = Len(calls) - 1
      /\ \A i \in 1 .. Len(calls') : calls'[i] = calls[i + 1]
      /\ Len(calls) \in Nat
  BY <1>1, HeadTailProperties, LenProperties
<1>3. LoopsAfterClose'
  BY <1>1, <1>2 DEF Inv, LoopsAfterClose
<1>4. TypeOK' /\ Arrival' /\ CloseWaits' /\ CancelMeansLost'
  BY <1>1, <1>2 DEF Inv, TypeOK, Arrival, CloseWaits, CancelMeansLost
<1>5. QED
  BY <1>1, <1>3, <1>4, UnchangedRequests DEF Inv

-----------------------------------------------------------------------------
(* How many requests the loops stop. An iterator that is at position n of  *)
(* the list has resolved a future for each of the n - 1 positions behind   *)
(* it, whatever happened to the list meanwhile; where it ends, the list is *)
(* no longer than that.                                                    *)

Stopped == {r \in Requests : fut[r] \in {"cancelled", "closed"}}

(* The loop that was started first, below those it was interrupted by.     *)
Bottom(stack) == stack[Len(stack)]

StopsCounted ==
  transport = "lost" =>
    IF Idle THEN Len(futures) <= Cardinality(Stopped)
            ELSE Bottom(calls).next <= Cardinality(Stopped) + 1

LEMMA StoppedFinite ==
  ASSUME NEW S \in SUBSET Requests
  PROVE  IsFiniteSet(S) /\ Cardinality(S) \in Nat
<1>1. IsFiniteSet(Requests)
  BY ConnectionAssumption, FS_Interval DEF Requests
<1>2. QED
  BY <1>1, FS_Subset, FS_CardinalityType

(* Starting another loop on top of others changes nothing at the bottom.   *)
LEMMA BottomStays ==
  ASSUME NEW running \in Seq(Loops), running # <<>>, NEW top \in Loops
  PROVE  /\ <<top>> \o running # <<>>
         /\ Bottom(<<top>> \o running) = Bottom(running)
<1>1. <<top>> \in Seq(Loops) /\ Len(<<top>>) = 1
  OBVIOUS
<1>2. Len(running) \in Nat \ {0}
  BY EmptySeq, LenProperties
<1>3. /\ Len(<<top>> \o running) = 1 + Len(running)
      /\ (<<top>> \o running)[1 + Len(running)] = running[Len(running)]
  BY <1>1, <1>2, ConcatProperties
<1>4. QED
  BY <1>2, <1>3 DEF Bottom

(* One more future is resolved than positions are left behind.             *)
LEMMA LoopTurnCounts == Inv /\ StopsCounted /\ LoopTurn => StopsCounted'
<1> SUFFICES ASSUME Inv, StopsCounted, LoopTurn, transport' = "lost"
             PROVE  calls' # <<>> /\ Bottom(calls').next <= Cardinality(Stopped') + 1
  BY DEF StopsCounted, Idle
<1> DEFINE top  == Head(calls)
           r    == futures[top.next]
           next == [top EXCEPT !.next = @ + 1]
           rest == <<next>> \o Tail(calls)
<1>1. /\ calls \in Seq(Loops) /\ calls # <<>>
      /\ Stop(r, top.loop) /\ CloseCallback(r, rest)
  BY Zenon DEF LoopTurn, Inv, TypeOK, Idle
<1>2. r \in Requests /\ fut[r] = "pending" /\ top \in Loops
  BY LoopTurnPicks DEF Pending
<1>3. transport = "lost"
  BY <1>1 DEF CloseCallback, StartClose
<1>4. Cardinality(Stopped') = Cardinality(Stopped) + 1
  <2>1. Stopped' = Stopped \cup {r} /\ r \notin Stopped
    BY <1>1, <1>2 DEF Stop, Stopped, Inv, TypeOK
  <2> HIDE DEF r
  <2>2. QED
    BY <2>1, StoppedFinite, FS_AddElement DEF Stopped
<1>5. /\ next \in Loops /\ next.next = top.next + 1 /\ top.next \in Nat
      /\ Tail(calls) \in Seq(Loops) /\ Len(calls) \in Nat \ {0}
      /\ top = calls[1] /\ Len(Tail(calls)) = Len(calls) - 1
      /\ \A i \in 1 .. Len(calls) - 1 : Tail(calls)[i] = calls[i + 1]
  BY <1>1, <1>2, HeadTailProperties, EmptySeq DEF Loops
<1>6. /\ Bottom(calls).next \in Nat /\ Cardinality(Stopped) \in Nat
      /\ Bottom(calls).next <= Cardinality(Stopped) + 1
  <2>1. Bottom(calls) \in Loops
    BY <1>1, <1>5, ElementOfSeq DEF Bottom
  <2>2. Stopped \in SUBSET Requests
    BY DEF Stopped
  <2>3. QED
    BY <1>1, <1>3, <2>1, <2>2, StoppedFinite DEF StopsCounted, Loops, Idle
<1> HIDE DEF top, next
<1>7. /\ rest \in Seq(Loops) /\ rest # <<>>
      /\ Bottom(rest).next \in Nat /\ Bottom(rest).next <= Bottom(calls).next + 1
  <2>1. <<next>> \in Seq(Loops) /\ Len(<<next>>) = 1 /\ <<next>>[1] = next
    BY <1>5
  <2>2. /\ rest \in Seq(Loops)
        /\ Len(rest) = Len(calls)
        /\ \A i \in 1 .. Len(calls) :
             rest[i] = IF i <= 1 THEN <<next>>[i] ELSE Tail(calls)[i - 1]
    BY <1>5, <2>1, ConcatProperties
  <2> HIDE DEF rest
  <2>3. CASE Len(calls) = 1
    <3>1. Bottom(rest) = next /\ Bottom(calls) = top
      BY <1>5, <2>1, <2>2, <2>3 DEF Bottom
    <3>2. QED
      BY <1>5, <2>2, <2>3, <3>1, EmptySeq
  <2>4. CASE Len(calls) # 1
    <3>1. Len(calls) \in 2 .. Len(calls) /\ Len(calls) - 1 \in 1 .. Len(calls) - 1
      BY <1>5, <2>4
    <3>2. Bottom(rest) = Bottom(calls)
      BY <1>5, <2>2, <3>1 DEF Bottom
    <3>3. QED
      BY <1>5, <1>6, <2>2, <3>2
  <2>5. QED
    BY <1>5, <2>3, <2>4
<1> HIDE DEF rest
<1>8. calls' # <<>> /\ Bottom(calls') = Bottom(rest)
  <2>1. CASE calls' = rest
    BY <1>7, <2>1
  <2>2. CASE calls' = <<Loop("close")>> \o rest
    <3>1. Loop("close") \in Loops
      BY DEF Loop, Loops
    <3>2. QED
      BY <1>7, <2>2, <3>1, BottomStays
  <2>3. QED
    BY <1>1, <2>1, <2>2 DEF CloseCallback, StartClose
<1>9. QED
  BY <1>4, <1>6, <1>7, <1>8

(* The end of the first loop: the list is no longer than the positions it  *)
(* left behind.                                                            *)
LEMMA LoopEndCounts == Inv /\ StopsCounted /\ LoopEnd => StopsCounted'
<1> SUFFICES ASSUME Inv, StopsCounted, LoopEnd, transport = "lost"
             PROVE  StopsCounted'
  BY DEF StopsCounted, LoopEnd
<1>1. /\ calls \in Seq(Loops) /\ calls # <<>> /\ calls' = Tail(calls)
      /\ Head(calls).next > Len(futures)
      /\ UNCHANGED <<transport, fut, futures>>
  BY DEF LoopEnd, Inv, TypeOK, Idle
<1>2. /\ Bottom(calls).next <= Cardinality(Stopped) + 1
      /\ Stopped' = Stopped /\ Cardinality(Stopped) \in Nat
  BY <1>1, StoppedFinite DEF StopsCounted, Stopped, Idle
<1>3. /\ Len(calls) \in Nat \ {0} /\ Len(futures) \in Nat
      /\ Tail(calls) \in Seq(Loops) /\ Len(Tail(calls)) = Len(calls) - 1
      /\ Head(calls) = calls[1] /\ Head(calls) \in Loops
      /\ \A i \in 1 .. Len(calls) - 1 : Tail(calls)[i] = calls[i + 1]
  BY <1>1, HeadTailProperties, EmptySeq, LenProperties DEF Inv, TypeOK
<1>4. CASE Len(calls) = 1
  <2>1. calls' = <<>> /\ Bottom(calls) = Head(calls)
    BY <1>1, <1>3, <1>4, EmptySeq DEF Bottom
  <2>2. QED
    BY <1>1, <1>2, <1>3, <2>1 DEF StopsCounted, Idle, Loops
<1>5. CASE Len(calls) # 1
  <2>1. Len(calls) - 1 \in 1 .. Len(calls) - 1
    BY <1>3, <1>5
  <2>2. calls' # <<>> /\ Bottom(calls') = Bottom(calls)
    <3>1. Tail(calls)[Len(calls) - 1] = calls[Len(calls)]
      BY <1>3, <2>1
    <3>2. Len(Tail(calls)) # 0
      BY <1>3, <1>5
    <3>3. QED
      BY <1>1, <1>3, <3>1, <3>2, EmptySeq DEF Bottom
  <2>3. QED
    BY <1>1, <1>2, <2>2 DEF StopsCounted, Idle
<1>6. QED
  BY <1>4, <1>5

(* A task that reports its end after the connection was lost only shortens *)
(* the list; its _close_callback may start a loop of its own.              *)
LEMMA SettleCounts ==
  ASSUME Inv, StopsCounted, NEW r \in Requests, Settle(r)
  PROVE  StopsCounted'
<1> SUFFICES ASSUME transport' = "lost" PROVE StopsCounted'
  BY DEF StopsCounted
<1>1. CASE fut[r] # "pending"
  BY <1>1 DEF Settle, StopsCounted, Stopped, Idle
<1>2. CASE fut[r] = "pending"
  <2>1. /\ fut' = [fut EXCEPT ![r] = Settled(task[r])]
        /\ futures' = RemoveFirst(futures, r)
        /\ CloseCallback(r, <<>>) /\ calls = <<>>
    BY <1>2 DEF Settle, DoneCallback, Idle
  <2>2. transport = "lost"
    BY <2>1 DEF CloseCallback, StartClose
  <2>3. /\ Cardinality(Stopped) <= Cardinality(Stopped')
        /\ Cardinality(Stopped) \in Nat /\ Cardinality(Stopped') \in Nat
    <3>1. Stopped \subseteq Stopped'
      BY <1>2, <2>1 DEF Stopped, Inv, TypeOK
    <3>2. Stopped \in SUBSET Requests /\ Stopped' \in SUBSET Requests
      BY DEF Stopped
    <3>3. QED
      BY <3>1, <3>2, StoppedFinite, FS_Subset
  <2>4. Len(futures') <= Len(futures) /\ Len(futures) \in Nat /\ Len(futures') \in Nat
    <3>1. futures \in Seq(Requests) /\ Once(futures) /\ r \in ToSet(futures)
      BY <1>2 DEF Inv, TypeOK, ListHoldsPending, Once, Pending
    <3>2. QED
      BY <2>1, <3>1, RemoveOnce, LenProperties
  <2>5. CASE calls' = <<>>
    BY <2>1, <2>2, <2>3, <2>4, <2>5 DEF StopsCounted, Idle
  <2>6. CASE calls' # <<>>
    <3>1. calls' = <<Loop("close")>>
      BY <2>1, <2>6, ConcatEmptySeq DEF CloseCallback, StartClose
    <3>2. Bottom(calls').next = 1
      BY <3>1 DEF Bottom, Loop
    <3>3. QED
      BY <2>3, <2>6, <3>2 DEF StopsCounted, Idle
  <2>7. QED
    BY <2>5, <2>6
<1>3. QED
  BY <1>1, <1>2

(* The other steps find or leave the transport not lost, begin the loop of *)
(* connection_lost, or touch nothing that is counted.                      *)
LEMMA StepCounts == Inv /\ StopsCounted /\ [Next]_vars => StopsCounted'
<1> SUFFICES ASSUME Inv, StopsCounted, [Next]_vars PROVE StopsCounted'
  OBVIOUS
<1>1. ASSUME transport' # "lost" PROVE StopsCounted'
  BY <1>1 DEF StopsCounted
<1>2. ASSUME UNCHANGED <<transport, futures, fut, calls>> PROVE StopsCounted'
  BY <1>2 DEF StopsCounted, Stopped, Idle
<1>3. ASSUME \/ ConnectionMade \/ DataRejected \/ EofReceived
             \/ \E n \in 0 .. (MaxRequests - received), close \in BOOLEAN :
                  DataReceived(n, close)
      PROVE  transport' # "lost"
  BY <1>3 DEF ConnectionMade, DataRejected, EofReceived, DataReceived, StartClose
<1>4. CASE ConnectionLost
  <2>1. calls' = <<Loop("lost")>> /\ fut' = fut
    BY <1>4 DEF ConnectionLost
  <2>2. calls' # <<>> /\ Bottom(calls').next = 1
    BY <2>1 DEF Bottom, Loop
  <2>3. Cardinality(Stopped') \in Nat
    <3>1. Stopped' \in SUBSET Requests
      BY DEF Stopped
    <3>2. QED
      BY <3>1, StoppedFinite
  <2>4. QED
    BY <2>2, <2>3 DEF StopsCounted, Idle
<1>5. ASSUME NEW r \in Requests,
             \/ StreamReset(r) \/ StartTask(r) \/ CancelTask(r) \/ HandlerEnds(r)
             \/ \E end \in Ended : PushEnds(r, end)
      PROVE  UNCHANGED <<transport, futures, fut, calls>>
  BY <1>5 DEF StreamReset, StartTask, CancelTask, HandlerEnds, HandlerReturns, HandlerFails, PushEnds
<1>6. ASSUME Over \/ UNCHANGED vars
      PROVE  UNCHANGED <<transport, futures, fut, calls>>
  BY <1>6 DEF Over, vars
<1>7. QED
  BY <1>1, <1>2, <1>3, <1>4, <1>5, <1>6, SettleCounts, LoopTurnCounts, LoopEndCounts
     DEF Next

-----------------------------------------------------------------------------
(* The invariant of every behaviour.                                       *)

LEMMA StutterInv == Inv /\ UNCHANGED vars => Inv'
<1> SUFFICES ASSUME Inv, UNCHANGED vars PROVE Inv'
  OBVIOUS
<1> USE DEF vars
<1>1. TypeOK' /\ Arrival' /\ CancelMeansLost'
  BY DEF Inv, TypeOK, Arrival, CancelMeansLost
<1>2. QED
  BY <1>1, UnchangedRequests, UnchangedFutures DEF Inv

LEMMA StepInv == Inv /\ [Next]_vars => Inv'
<1> SUFFICES ASSUME Inv, [Next]_vars PROVE Inv'
  OBVIOUS
<1>1. CASE ConnectionMade
  BY <1>1, ConnectionMadeInv
<1>2. ASSUME NEW n \in 0 .. (MaxRequests - received), NEW close \in BOOLEAN,
             DataReceived(n, close)
      PROVE  Inv'
  BY <1>2, DataReceivedInv
<1>3. CASE DataRejected \/ EofReceived \/ ConnectionLost
  BY <1>3, DataRejectedInv, EofReceivedInv, ConnectionLostInv
<1>4. ASSUME NEW r \in Requests,
             StreamReset(r) \/ StartTask(r) \/ CancelTask(r) \/ Settle(r)
      PROVE  Inv'
  BY <1>4, StreamResetInv, StartTaskInv, CancelTaskInv, SettleInv
<1>5. ASSUME NEW r \in Requests, HandlerEnds(r)
      PROVE  Inv'
  BY <1>5, HandlerReturnsInv, HandlerFailsInv DEF HandlerEnds
<1>6. ASSUME NEW r \in Requests, NEW end \in Ended, PushEnds(r, end)
      PROVE  Inv'
  BY <1>6, PushEndsInv
<1>7. CASE LoopTurn \/ LoopEnd
  BY <1>7, LoopTurnInv, LoopEndInv
<1>8. CASE Over \/ UNCHANGED vars
  BY <1>8, StutterInv DEF Over
<1>9. QED
  BY <1>1, <1>2, <1>3, <1>4, <1>5, <1>6, <1>7, <1>8 DEF Next

(* Every reachable state of a connection satisfies the inductive invariant.*)
THEOREM Invariance == Spec => []Inv
  BY InitInv, StepInv, PTL DEF Spec

(* The variables keep their types: in particular list.remove in            *)
(* _done_callback (connection.py:54) never meets a future it cannot find.  *)
THEOREM TypeCorrect == Spec => []TypeOK
  BY Invariance, PTL DEF Inv

(* self._futures holds exactly the pending futures, in spite of the loops  *)
(* that change it while they iterate over it (connection.py:44-73,         *)
(* 129-132).                                                               *)
THEOREM ListIsExact == Spec => []ListHoldsPending
  BY Invariance, PTL DEF Inv

(* A request answered in full, or by the stock 500, is not answered again  *)
(* (connection.py:44-61, 108-124).                                         *)
THEOREM AnsweredOnce == Spec => []OneAnswer
  BY Invariance, PTL DEF Inv

(* While the transport is open every close callback is still to come       *)
(* (connection.py:56-57, 85-89).                                           *)
THEOREM CloseIsOwed == Spec => []CloseWaits
  BY Invariance, PTL DEF Inv

(* No handler is cancelled while its client is connected                   *)
(* (connection.py:71-73, 129-132).                                         *)
THEOREM OnlyLossCancels == Spec => []CancelMeansLost
  BY Invariance, PTL DEF Inv

(* Although the loops pass over futures, at least half of what was pending *)
(* when they began is stopped: no more is left than was stopped            *)
(* (connection.py:54, 71-73, 131-132).                                     *)
THEOREM AtLeastHalfStopped == Spec => []HalfStopped
<1>1. Init => StopsCounted
  BY DEF Init, StopsCounted
<1>2. Inv /\ StopsCounted => HalfStopped
  <2> SUFFICES ASSUME Inv, StopsCounted, transport = "lost", Idle
               PROVE  Cardinality(Pending) <= Cardinality(Stopped)
    BY DEF HalfStopped, Stopped
  <2>1. Len(futures) <= Cardinality(Stopped) /\ Len(futures) \in Nat
    BY LenProperties DEF StopsCounted, Inv, TypeOK
  <2>2. Cardinality(Pending) <= Len(futures)
    <3>1. futures \in Surjection(1 .. Len(futures), Pending)
      <4>1. /\ futures \in [1 .. Len(futures) -> Requests]
            /\ DOMAIN futures = 1 .. Len(futures)
        BY LenProperties DEF Inv, TypeOK
      <4>2. ToSet(futures) = Pending
        BY DEF Inv, ListHoldsPending
      <4>3. /\ \A i \in 1 .. Len(futures) : futures[i] \in Pending
            /\ \A r \in Pending : \E i \in 1 .. Len(futures) : futures[i] = r
        BY <4>1, <4>2 DEF ToSet
      <4>4. QED
        BY <4>1, <4>3 DEF Surjection
    <3>2. QED
      BY <2>1, <3>1, FS_SurjCardinalityBound DEF ExistsSurjection
  <2>3. Cardinality(Pending) \in Nat /\ Cardinality(Stopped) \in Nat
    BY StoppedFinite DEF Pending, Stopped
  <2>4. QED
    BY <2>1, <2>2, <2>3
<1>3. QED
  BY <1>1, <1>2, StepCounts, Invariance, PTL DEF Spec

-----------------------------------------------------------------------------
(* Who is answered. As long as the transport is open, a request is decided *)
(* by its task, and then it is answered or its stream is shut.             *)

Heard ==
  /\ \A r \in Requests : r <= received => fut[r] # "none"
  /\ transport = "open" =>
       \A r \in Requests :
         fut[r] \notin {"none", "pending"} => Answered(r) \/ r \in shut

(* A write answers unless it is refused, and takes no answer back.         *)
LEMMA AnsweredAppend ==
  ASSUME TypeOK, NEW r \in Requests, NEW w \in Writes,
         writes' = [writes EXCEPT ![r] = Append(@, w)]
  PROVE  /\ Answered(r)' <=> Answered(r) \/ w # "refused"
         /\ \A q \in Requests : q # r => (Answered(q)' <=> Answered(q))
<1>1. writes[r] \in Seq(Writes) /\ writes'[r] = Append(writes[r], w)
  BY DEF TypeOK
<1>2. /\ DOMAIN writes[r] = 1 .. Len(writes[r]) /\ Len(writes[r]) \in Nat
      /\ DOMAIN writes'[r] = 1 .. (Len(writes[r]) + 1)
      /\ \A i \in 1 .. Len(writes[r]) : writes'[r][i] = writes[r][i]
      /\ writes'[r][Len(writes[r]) + 1] = w
  BY <1>1, AppendProperties, LenProperties
<1>3. Answered(r)' <=> Answered(r) \/ w # "refused"
  <2>1. ASSUME Answered(r)' PROVE Answered(r) \/ w # "refused"
    <3>1. PICK i \in 1 .. (Len(writes[r]) + 1) : writes'[r][i] # "refused"
      BY <1>2, <2>1 DEF Answered
    <3>2. CASE i \in 1 .. Len(writes[r])
      BY <1>2, <3>1, <3>2 DEF Answered
    <3>3. CASE i = Len(writes[r]) + 1
      BY <1>2, <3>1, <3>3
    <3>4. QED
      BY <1>2, <3>2, <3>3
  <2>2. ASSUME Answered(r) PROVE Answered(r)'
    <3>1. PICK i \in 1 .. Len(writes[r]) : writes[r][i] # "refused"
      BY <1>2, <2>2 DEF Answered
    <3>2. i \in DOMAIN writes'[r] /\ writes'[r][i] # "refused"
      BY <1>2, <3>1
    <3>3. QED
      BY <3>2 DEF Answered
  <2>3. ASSUME w # "refused" PROVE Answered(r)'
    <3>1. Len(writes[r]) + 1 \in DOMAIN writes'[r]
      BY <1>2
    <3>2. QED
      BY <1>2, <2>3, <3>1 DEF Answered
  <2>4. QED
    BY <2>1, <2>2, <2>3
<1>4. ASSUME NEW q \in Requests, q # r PROVE (Answered(q)' <=> Answered(q))
  <2>1. writes'[q] = writes[q]
    BY <1>4 DEF TypeOK
  <2>2. QED
    BY <2>1 DEF Answered
<1>5. QED
  BY <1>3, <1>4

LEMMA UnwrittenAnswers ==
  ASSUME NEW r \in Requests, writes'[r] = writes[r]
  PROVE  (Answered(r)' <=> Answered(r))
  BY DEF Answered

(* A task that has come to its end has answered if it returned.            *)
LEMMA ReturnedAnswers ==
  ASSUME Inv, NEW r \in Requests, task[r] = "returned"
  PROVE  Answered(r)
<1>1. PICK w \in {"response", "promising"} : writes[r] = <<w>>
  BY DEF Inv, WritesFollowTask
<1>2. 1 \in DOMAIN writes[r] /\ writes[r][1] = w
  BY <1>1
<1>3. QED
  BY <1>2 DEF Answered

(* The end of a task leaves every request as answered as it was; its own   *)
(* is answered by then if the link is up and the stream is not shut.       *)
LEMMA SettleAnswers ==
  ASSUME Inv, NEW r \in Requests, Settle(r), fut[r] = "pending"
  PROVE  /\ \A q \in Requests : q # r => (Answered(q)' <=> Answered(q))
         /\ r \in shut => (Answered(r)' <=> Answered(r))
         /\ transport = "open" => Answered(r)' \/ r \in shut
<1>1. DoneCallback(r, task[r] # "returned")
  BY DEF Settle
<1>2. CASE task[r] # "returned" /\ transport = "open"
  <2>1. writes' = [writes EXCEPT ![r] = Append(@, Stock(r))]
    BY <1>1, <1>2 DEF DoneCallback, Write500
  <2>2. Stock(r) \in Writes /\ (Stock(r) = "refused" <=> r \in shut)
    BY DEF Stock, Writes
  <2>3. /\ Answered(r)' <=> Answered(r) \/ Stock(r) # "refused"
        /\ \A q \in Requests : q # r => (Answered(q)' <=> Answered(q))
    BY <2>1, <2>2, AnsweredAppend DEF Inv
  <2>4. QED
    BY <2>2, <2>3
<1>3. CASE ~(task[r] # "returned" /\ transport = "open")
  <2>1. UNCHANGED writes
    BY <1>1, <1>3 DEF DoneCallback, Write500
  <2>2. \A q \in Requests : (Answered(q)' <=> Answered(q))
    BY <2>1, UnwrittenAnswers
  <2>3. QED
    BY <1>3, <2>2, ReturnedAnswers
<1>4. QED
  BY <1>2, <1>3

LEMMA SettleHeard ==
  ASSUME Inv, Heard, NEW r \in Requests, Settle(r)
  PROVE  Heard'
<1>1. UNCHANGED <<received, shut>>
  BY DEF Settle
<1>2. CASE fut[r] # "pending"
  BY <1>1, <1>2, UnwrittenAnswers DEF Settle, Heard
<1>3. CASE fut[r] = "pending"
  <2>1. /\ fut' = [fut EXCEPT ![r] = Settled(task[r])]
        /\ Settled(task[r]) # "none"
        /\ transport' = "open" => transport = "open"
    BY <1>3 DEF Settle, Settled, Ended, CloseCallback, StartClose
  <2>2. QED
    BY <1>1, <1>3, <2>1, SettleAnswers DEF Heard, Inv, TypeOK
<1>4. QED
  BY <1>2, <1>3

LEMMA HandlerReturnsHeard ==
  ASSUME Inv, Heard, NEW r \in Requests, NEW w \in Writes, NEW n \in 0 .. MaxPushes,
         HandlerReturns(r, w, n)
  PROVE  Heard'
<1>1. /\ UNCHANGED <<transport, received, fut>>
      /\ shut \subseteq shut'
      /\ writes' = [writes EXCEPT ![r] = Append(@, w)]
  BY DEF HandlerReturns
<1>2. \A q \in Requests : Answered(q) => Answered(q)'
  BY <1>1, AnsweredAppend DEF Inv
<1>3. QED
  BY <1>1, <1>2 DEF Heard

LEMMA DataReceivedHeard ==
  ASSUME Inv, Heard, NEW n \in 0 .. (MaxRequests - received), NEW close \in BOOLEAN,
         DataReceived(n, close)
  PROVE  Heard'
<1> DEFINE new == (received + 1) .. (received + n)
<1>1. /\ received \in Nat /\ n \in Nat /\ received' = received + n
      /\ fut' = [r \in Requests |-> IF r \in new THEN "pending" ELSE fut[r]]
      /\ UNCHANGED writes /\ shut \subseteq shut' /\ transport = "open"
  BY DEF Inv, TypeOK, DataReceived
<1>2. \A r \in Requests : r <= received' /\ r \notin new => r <= received
  BY <1>1 DEF Requests
<1>3. QED
  BY <1>1, <1>2, UnwrittenAnswers DEF Heard

LEMMA StepHeard == Inv /\ Heard /\ [Next]_vars => Heard'
<1> SUFFICES ASSUME Inv, Heard, [Next]_vars PROVE Heard'
  OBVIOUS
<1>1. ASSUME UNCHANGED <<received, fut, writes>>, shut \subseteq shut',
             transport' = "open" => transport = "open" \/ received = 0
      PROVE  Heard'
  <2>1. ASSUME received = 0, NEW r \in Requests PROVE fut[r] = "none"
    BY <2>1 DEF Inv, Arrival, Requests
  <2>2. QED
    BY <1>1, <2>1, UnwrittenAnswers DEF Heard
<1>2. CASE ConnectionMade \/ DataRejected \/ EofReceived \/ ConnectionLost
  <2>1. transport = "detached" => received = 0
    BY DEF Inv, Arrival
  <2>2. QED
    BY <1>1, <1>2, <2>1 DEF ConnectionMade, DataRejected, EofReceived, ConnectionLost
<1>3. ASSUME NEW n \in 0 .. (MaxRequests - received), NEW close \in BOOLEAN,
             DataReceived(n, close)
      PROVE  Heard'
  BY <1>3, DataReceivedHeard
<1>4. ASSUME NEW r \in Requests,
             \/ StreamReset(r) \/ StartTask(r) \/ CancelTask(r)
             \/ \E end \in Ended : HandlerFails(r, end) \/ PushEnds(r, end)
      PROVE  Heard'
  BY <1>1, <1>4 DEF StreamReset, StartTask, CancelTask, HandlerFails, PushEnds
<1>5. ASSUME NEW r \in Requests, Settle(r) PROVE Heard'
  BY <1>5, SettleHeard
<1>6. ASSUME NEW r \in Requests, NEW w \in Writes, NEW n \in 0 .. MaxPushes,
             HandlerReturns(r, w, n)
      PROVE  Heard'
  BY <1>6, HandlerReturnsHeard
<1>7. CASE LoopTurn
  <2>1. /\ transport \in {"closing", "lost"}
        /\ futures[Head(calls).next] \in Requests
    BY <1>7, LoopTurnPicks DEF Pending
  <2> DEFINE r == futures[Head(calls).next]
  <2>2. /\ Stop(r, Head(calls).loop)
        /\ UNCHANGED received
        /\ \E running : CloseCallback(r, running)
    BY <1>7, Zenon DEF LoopTurn
  <2> HIDE DEF r
  <2>3. transport' # "open"
    BY <2>1, <2>2 DEF CloseCallback, StartClose
  <2>4. \A q \in Requests : fut[q] # "none" => fut'[q] # "none"
    BY <2>2 DEF Stop, Inv, TypeOK
  <2>5. QED
    BY <2>2, <2>3, <2>4 DEF Heard
<1>8. CASE LoopEnd \/ Over \/ UNCHANGED vars
  BY <1>1, <1>8 DEF LoopEnd, Over, vars
<1>9. QED
  BY <1>2, <1>3, <1>4, <1>5, <1>6, <1>7, <1>8 DEF Next, HandlerEnds

LEMMA AlwaysHeard == Spec => []Heard
<1>1. Init => Heard
  BY DEF Init, Heard, Requests
<1>2. QED
  BY <1>1, StepHeard, Invariance, PTL DEF Spec

-----------------------------------------------------------------------------
(* A connection implements Exchange: a step of a callback is one of its    *)
(* steps or changes neither the link nor the status of a request.          *)

Statuses == [r \in Requests |-> Status(r)]

(* A step that changes nothing in sight is no step of Exchange.            *)
LEMMA NoExchange ==
  ASSUME Link' = Link, \A r \in Requests : Status(r)' = Status(r),
         Waived' = Waived
  PROVE  UNCHANGED E!vars
  BY DEF E!vars

(* Nobody is waived by a step that leaves shut and the writes alone.       *)
LEMMA NotWaived ==
  ASSUME Inv, UNCHANGED <<shut, writes>>
  PROVE  Waived' = Waived
  BY UnwrittenAnswers DEF Waived, Inv, TypeOK

LEMMA InitExchange == Init => E!Init
  BY DEF Init, E!Init, Link, Status, Dropped, Waived

(* Requests that are waived have arrived and have not been answered.       *)
LEMMA WaiveExchange ==
  ASSUME Inv, shut \subseteq shut',
         \A r \in Requests : r \in shut => (Answered(r)' <=> Answered(r)),
         \A r \in shut' \ shut : ~Answered(r)' => Status(r)' \in {"open", "dropped"},
         shut' \subseteq Requests
  PROVE  E!Waive
<1>1. Waived \subseteq Waived'
  BY DEF Waived, Inv, TypeOK
<1>2. ASSUME NEW r \in Waived' \ Waived
      PROVE  r \in Requests /\ Statuses'[r] \in {"open", "dropped"}
  <2>1. r \in shut' /\ r \in Requests /\ ~Answered(r)'
    BY <1>2 DEF Waived
  <2>2. r \notin shut
    BY <1>2, <2>1 DEF Waived
  <2>3. QED
    BY <2>1, <2>2 DEF Statuses
<1>3. QED
  BY <1>1, <1>2 DEF E!Waive, Statuses

(* Opening and hanging up.                                                 *)
LEMMA LinkExchange ==
  ASSUME Inv, ConnectionMade \/ DataRejected \/ EofReceived \/ ConnectionLost
  PROVE  [E!Next]_E!vars
<1>1. \A r \in Requests : Status(r)' = Status(r)
  <2>1. UNCHANGED <<fut, cancel, writes>>
    BY DEF ConnectionMade, DataRejected, EofReceived, ConnectionLost
  <2>2. QED
    BY <2>1, UnwrittenAnswers DEF Status, Dropped
<1>2. Statuses' = Statuses /\ Waived' = Waived
  <2>1. UNCHANGED <<shut, writes>>
    BY DEF ConnectionMade, DataRejected, EofReceived, ConnectionLost
  <2>2. QED
    BY <1>1, <2>1, NotWaived DEF Statuses
<1>3. CASE ConnectionMade
  BY <1>2, <1>3 DEF ConnectionMade, Link, Statuses, E!Next, E!Open
<1>4. CASE DataRejected \/ EofReceived
  BY <1>2, <1>4 DEF DataRejected, EofReceived, Link, Statuses, E!Next, E!HangUp, E!Waive
<1>5. CASE ConnectionLost
  BY <1>1, <1>2, <1>5, NoExchange DEF ConnectionLost, Link
<1>6. QED
  BY <1>3, <1>4, <1>5

(* New requests, or a GOAWAY that came with none.                          *)
LEMMA AcceptExchange ==
  ASSUME Inv, Heard, NEW n \in 0 .. (MaxRequests - received), NEW close \in BOOLEAN,
         DataReceived(n, close)
  PROVE  [E!Next]_E!vars
<1> DEFINE new == (received + 1) .. (received + n)
<1>1. /\ received \in Nat /\ received + n <= MaxRequests /\ n \in Nat
      /\ new \subseteq Requests
  BY ConnectionAssumption DEF Inv, TypeOK, Requests
<1>2. /\ fut' = [r \in Requests |-> IF r \in new THEN "pending" ELSE fut[r]]
      /\ UNCHANGED <<cancel, writes>> /\ Link = "up"
  BY DEF DataReceived, Link
<1>3. \A r \in new : fut[r] = "none"
  BY <1>1 DEF Inv, Arrival
<1>4. \A r \in Requests : Status(r)' = IF r \in new THEN "open" ELSE Status(r)
  <2>1. SUFFICES ASSUME NEW r \in Requests
                 PROVE  Status(r)' = IF r \in new THEN "open" ELSE Status(r)
    OBVIOUS
  <2>2. CASE r \in new
    BY <1>2, <2>2 DEF Status, Dropped
  <2>3. CASE r \notin new
    BY <1>2, <2>3, UnwrittenAnswers DEF Status, Dropped
  <2>4. QED
    BY <2>2, <2>3
<1>11. E!Waive
  <2>1. \A r \in Requests : Answered(r)' <=> Answered(r)
    BY <1>2, UnwrittenAnswers
  <2>2. 1 .. (received + n) \subseteq Requests
    BY <1>1, ConnectionAssumption DEF Requests
  <2>3. shut' = shut \cup 1 .. (received + n) \/ shut' = shut
    BY DEF DataReceived
  <2>4. shut \subseteq shut' /\ shut' \subseteq Requests
    BY <2>2, <2>3 DEF Inv, TypeOK
  <2>5. ASSUME NEW r \in shut' \ shut, ~Answered(r)' PROVE Status(r)' \in {"open", "dropped"}
    <3>1. r \in 1 .. (received + n) /\ r \in Requests /\ ~Answered(r)
      BY <2>1, <2>2, <2>3, <2>5
    <3>2. CASE r \in new
      BY <1>4, <3>1, <3>2
    <3>3. CASE r \notin new
      <4>1. r <= received
        BY <1>1, <3>1, <3>3
      <4>2. fut[r] = "pending"
        BY <2>5, <3>1, <4>1 DEF Heard, DataReceived
      <4>3. Status(r) = "open"
        BY <4>2 DEF Status, Dropped
      <4>4. QED
        BY <1>4, <3>1, <3>3, <4>3
    <3>4. QED
      BY <3>2, <3>3
  <2> HIDE DEF new
  <2>6. QED
    BY <2>1, <2>4, <2>5, WaiveExchange
<1>5. CASE close /\ n = 0
  <2>1. Link' = "down"
    BY <1>5 DEF DataReceived, StartClose, Link
  <2>2. Statuses' = Statuses
    BY <1>1, <1>4, <1>5 DEF Statuses
  <2>3. QED
    BY <1>2, <1>11, <2>1, <2>2 DEF Statuses, E!Next, E!HangUp
<1>6. CASE ~(close /\ n = 0)
  <2>1. Link' = "up"
    BY <1>6 DEF DataReceived, Link
  <2>2. new \in SUBSET {r \in Requests : Statuses[r] = "unseen"}
    <3>1. SUFFICES ASSUME NEW r \in new PROVE r \in Requests /\ Statuses[r] = "unseen"
      OBVIOUS
    <3>2. r \in Requests /\ fut[r] = "none"
      BY <1>1, <1>3
    <3>3. QED
      BY <3>2 DEF Statuses, Status, Dropped
  <2>3. Statuses' = [r \in Requests |-> IF r \in new THEN "open" ELSE Statuses[r]]
    BY <1>4 DEF Statuses
  <2> HIDE DEF new
  <2>4. E!Accept
    BY <1>2, <1>11, <2>1, <2>2, <2>3 DEF Statuses, E!Accept
  <2>5. QED
    BY <2>4 DEF E!Next
<1>7. QED
  BY <1>5, <1>6

(* A request that is waived by its client or by its own response.          *)
LEMMA ShutExchange ==
  ASSUME Inv, Link # "new", Link' = Link,
         NEW r \in Requests, Status(r)' \in {"open", "dropped"},
         shut' \in {shut, shut \cup {r}},
         \A q \in Requests : Status(q)' = Status(q),
         \A q \in Requests : q \in shut => (Answered(q)' <=> Answered(q))
  PROVE  [E!Next]_E!vars
<1>1. Statuses' = Statuses
  BY DEF Statuses
<1>2. E!Waive
  BY WaiveExchange DEF Inv, TypeOK
<1>3. QED
  BY <1>1, <1>2 DEF E!TakeBack, E!Next, Statuses

(* What a task does before it reports its end shows to nobody, unless its  *)
(* response is refused.                                                    *)
LEMMA TaskExchange ==
  ASSUME Inv, Heard, NEW r \in Requests,
         \/ StreamReset(r) \/ StartTask(r) \/ CancelTask(r) \/ HandlerEnds(r)
         \/ \E end \in Ended : PushEnds(r, end)
  PROVE  [E!Next]_E!vars
<1>1. CASE StartTask(r) \/ CancelTask(r) \/ \E end \in Ended : PushEnds(r, end) \/ HandlerFails(r, end)
  <2>1. UNCHANGED <<transport, fut, writes, shut>>
    BY <1>1 DEF StartTask, CancelTask, PushEnds, HandlerFails
  <2>2. \A q \in Requests : cancel'[q] # "no" <=> cancel[q] # "no"
    BY <1>1 DEF StartTask, CancelTask, PushEnds, HandlerFails, Inv, TypeOK
  <2>3. \A q \in Requests : Status(q)' = Status(q)
    BY <2>1, <2>2, UnwrittenAnswers DEF Status, Dropped
  <2>4. QED
    BY <2>1, <2>3, NoExchange, NotWaived DEF Link
<1>2. CASE StreamReset(r)
  <2>1. UNCHANGED <<transport, fut, writes, cancel>> /\ shut' = shut \cup {r}
        /\ transport = "open" /\ fut[r] = "pending"
    BY <1>2 DEF StreamReset
  <2>2. \A q \in Requests : (Answered(q)' <=> Answered(q)) /\ Status(q)' = Status(q)
    BY <2>1, UnwrittenAnswers DEF Status, Dropped
  <2>3. Status(r)' = "open" /\ Link = "up" /\ Link' = Link
    BY <2>1 DEF Status, Dropped, Link
  <2>4. QED
    BY <2>1, <2>2, <2>3, ShutExchange
<1>3. ASSUME NEW w \in Writes, NEW n \in 0 .. MaxPushes, HandlerReturns(r, w, n)
      PROVE  [E!Next]_E!vars
  <2>1. /\ UNCHANGED <<transport, fut, cancel>> /\ task[r] = "handler"
        /\ writes' = [writes EXCEPT ![r] = Append(@, w)]
        /\ r \in shut => w = "refused"
        /\ shut' \in {shut, shut \cup {r}}
    BY <1>3 DEF HandlerReturns
  <2>2. /\ Answered(r)' <=> Answered(r) \/ w # "refused"
        /\ \A q \in Requests : q # r => (Answered(q)' <=> Answered(q))
    BY <2>1, AnsweredAppend DEF Inv
  <2>3. \A q \in Requests : q \in shut => (Answered(q)' <=> Answered(q))
    BY <2>1, <2>2
  <2>4. /\ fut[r] # "none"
        /\ \/ fut[r] \in {"pending", "closed"}
           \/ fut[r] = "cancelled" /\ cancel[r] # "no"
    <3>1. r <= received
      BY <2>1 DEF Inv, Arrival, TypeOK, Requests
    <3>2. QED
      BY <2>1, <3>1 DEF Heard, Inv, TypeOK, Decided, FutureStates
  <2>5. Status(r)' \in {"open", "dropped"} /\ Status(r)' = Status(r)
    BY <2>1, <2>4 DEF Status, Dropped
  <2>6. \A q \in Requests : Status(q)' = Status(q)
    <3>1. \A q \in Requests : q # r => Status(q)' = Status(q)
      BY <2>1, <2>2 DEF Status, Dropped
    <3>2. QED
      BY <2>5, <3>1
  <2>7. Link # "new" /\ Link' = Link
    BY <2>1, <2>4 DEF Link, Inv, Arrival, TypeOK, Requests
  <2>8. QED
    BY <2>1, <2>3, <2>5, <2>6, <2>7, ShutExchange
<1>4. QED
  BY <1>1, <1>2, <1>3 DEF HandlerEnds

(* The end of a task decides its request: by an answer if the link is up   *)
(* and the request is not waived.                                          *)
LEMMA FinishExchange ==
  ASSUME Inv, NEW r \in Requests, Settle(r)
  PROVE  [E!Next]_E!vars
<1>1. CASE fut[r] # "pending"
  <2>1. UNCHANGED <<transport, fut, writes, cancel, shut>>
    BY <1>1 DEF Settle
  <2>2. \A q \in Requests : Status(q)' = Status(q)
    BY <2>1, UnwrittenAnswers DEF Status, Dropped
  <2>3. QED
    BY <2>1, <2>2, NoExchange, NotWaived DEF Link
<1>2. CASE fut[r] = "pending"
  <2>1. /\ fut' = [fut EXCEPT ![r] = Settled(task[r])]
        /\ Settled(task[r]) \in {"result", "error", "cancelled"}
        /\ UNCHANGED <<cancel, shut>> /\ cancel[r] = "no"
    BY <1>2 DEF Settle, Settled, Ended, Inv, Decided
  <2>2. transport # "detached"
    BY <1>2 DEF Inv, Arrival, TypeOK, Requests
  <2>3. Link \in {"up", "down"} /\ Link' \in {Link, "down"}
    BY <1>2, <2>2 DEF Settle, CloseCallback, StartClose, Link, Inv, TypeOK, TransportStates
  <2>4. /\ \A q \in Requests : q # r => (Answered(q)' <=> Answered(q))
        /\ r \in shut => (Answered(r)' <=> Answered(r))
        /\ transport = "open" => Answered(r)' \/ r \in shut
    BY <1>2, SettleAnswers
  <2>5. Waived' = Waived
    BY <2>1, <2>4 DEF Waived, Inv, TypeOK
  <2> DEFINE end == IF Answered(r)' THEN "answered" ELSE "silent"
  <2>6. \A q \in Requests : q # r => fut'[q] = fut[q]
    BY <2>1 DEF Inv, TypeOK
  <2>7. Status(r)' = end /\ Status(r) = "open"
    BY <1>2, <2>1 DEF Status, Dropped, Inv, TypeOK
  <2>8. \A q \in Requests : q # r => Status(q)' = Status(q)
    BY <2>1, <2>4, <2>6 DEF Status, Dropped
  <2>9. Statuses' = [Statuses EXCEPT ![r] = end] /\ Statuses[r] = "open"
    BY <2>7, <2>8 DEF Statuses
  <2>10. end \in E!Ends(r)
    <3>1. end = "answered" => r \notin Waived
      BY <2>4 DEF Waived
    <3>2. end = "silent" /\ Link # "down" => r \in Waived
      BY <2>2, <2>4 DEF Waived, Link
    <3>3. end \in {"answered", "silent"}
      OBVIOUS
    <3> HIDE DEF end
    <3>4. QED
      BY <3>1, <3>2, <3>3 DEF E!Ends
  <2> HIDE DEF end
  <2>11. E!Finish(r)
    BY <2>3, <2>5, <2>9, <2>10 DEF Statuses, E!Finish
  <2>12. QED
    BY <2>11 DEF E!Next
<1>3. QED
  BY <1>1, <1>2

(* A turn of a loop drops a request of a link that is down.                *)
LEMMA DropExchange ==
  ASSUME Inv, LoopTurn
  PROVE  [E!Next]_E!vars
<1> DEFINE top == Head(calls)
           r   == futures[top.next]
<1>1. /\ r \in Requests /\ fut[r] = "pending" /\ top \in Loops
      /\ transport \in {"closing", "lost"} /\ UNCHANGED writes
  BY LoopTurnPicks DEF Pending
<1>2. \E running : CloseCallback(r, running)
  BY Zenon DEF LoopTurn
<1>3. Link = "down" /\ Link' = "down"
  BY <1>1, <1>2 DEF CloseCallback, StartClose, Link
<1>4. Stop(r, top.loop)
  BY Zenon DEF LoopTurn
<1> HIDE DEF top, r
<1>5. \/ /\ fut' = [fut EXCEPT ![r] = "cancelled"]
         /\ cancel' = [cancel EXCEPT ![r] = "requested"]
      \/ /\ fut' = [fut EXCEPT ![r] = "closed"]
         /\ UNCHANGED cancel
  BY <1>4 DEF Stop
<1>6. Status(r) = "open"
  BY <1>1 DEF Status, Dropped
<1>7. \A q \in Requests : Status(q)' = IF q = r THEN "dropped" ELSE Status(q)
  <2>1. SUFFICES ASSUME NEW q \in Requests
                 PROVE  Status(q)' = IF q = r THEN "dropped" ELSE Status(q)
    OBVIOUS
  <2>2. CASE q = r
    BY <1>1, <1>5, <2>2 DEF Status, Dropped, Inv, TypeOK
  <2>3. CASE q # r
    BY <1>1, <1>5, <2>3, UnwrittenAnswers DEF Status, Dropped, Inv, TypeOK
  <2>4. QED
    BY <2>2, <2>3
<1>8. Statuses' = [Statuses EXCEPT ![r] = "dropped"] /\ Statuses[r] = "open"
  BY <1>1, <1>6, <1>7 DEF Statuses
<1>11. Waived' = Waived
  <2>1. UNCHANGED shut
    BY DEF LoopTurn
  <2>2. QED
    BY <1>1, <2>1, NotWaived
<1>9. E!Drop(r)
  BY <1>3, <1>8, <1>11 DEF Statuses, E!Drop
<1>10. QED
  BY <1>1, <1>9 DEF E!Next

LEMMA StepExchange == Inv /\ Heard /\ [Next]_vars => [E!Next]_E!vars
<1> SUFFICES ASSUME Inv, Heard, [Next]_vars PROVE [E!Next]_E!vars
  OBVIOUS
<1>1. CASE ConnectionMade \/ DataRejected \/ EofReceived \/ ConnectionLost
  BY <1>1, LinkExchange
<1>2. ASSUME NEW n \in 0 .. (MaxRequests - received), NEW close \in BOOLEAN,
             DataReceived(n, close)
      PROVE  [E!Next]_E!vars
  BY <1>2, AcceptExchange
<1>3. ASSUME NEW r \in Requests,
             \/ StreamReset(r) \/ StartTask(r) \/ CancelTask(r) \/ HandlerEnds(r)
             \/ \E end \in Ended : PushEnds(r, end)
      PROVE  [E!Next]_E!vars
  BY <1>3, TaskExchange
<1>4. ASSUME NEW r \in Requests, Settle(r)
      PROVE  [E!Next]_E!vars
  BY <1>4, FinishExchange
<1>5. CASE LoopTurn
  BY <1>5, DropExchange
<1>6. CASE LoopEnd \/ Over \/ UNCHANGED vars
  <2>1. UNCHANGED <<transport, fut, cancel, writes, shut>>
    BY <1>6 DEF LoopEnd, Over, vars
  <2>2. \A q \in Requests : Status(q)' = Status(q)
    BY <2>1, UnwrittenAnswers DEF Status, Dropped
  <2>3. QED
    BY <2>1, <2>2, NoExchange, NotWaived DEF Link
<1>7. QED
  BY <1>1, <1>2, <1>3, <1>4, <1>5, <1>6 DEF Next

(* The connection keeps the promise of Exchange: it accepts requests only  *)
(* while it is open and decides each of them once; while it is open it     *)
(* drops none, and leaves none in silence but those that can no longer be  *)
(* answered: their stream was reset, a GOAWAY has come, or their response  *)
(* broke off after its headers (connection.py:44-73, 82-89, 108-132).      *)
THEOREM Refinement == Spec => KeepsPromise
  BY InitExchange, StepExchange, Invariance, AlwaysHeard, PTL DEF Spec, KeepsPromise, E!Spec

=============================================================================
