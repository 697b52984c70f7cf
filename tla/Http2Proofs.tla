----------------------------- MODULE Http2Proofs -----------------------------
(***************************************************************************)
(* Proofs about Http2 for any streams, windows, frame size and bounds.     *)
(***************************************************************************)
EXTENDS Http2, TLAPS

(* A request and the frames of its stream.                                 *)
RequestsAgree ==
  \A s \in Streams :
    /\ stream[s] = "idle" => got[s] = 0
    /\ stream[s] = "open" => partial[s] = got[s]
    /\ stream[s] \in {"idle", "open"} => task[s] = "none" /\ handed[s] = None
    /\ handed[s] # None => handed[s] = got[s]

(* A request, its response and its pushes.                                 *)
TasksAgree ==
  \A s \in Streams :
    /\ task[s] \in {"none", "handling"} => left[s] = 0 /\ outcome[s] = "none"
    /\ task[s] = "none" => stream[s] # "half"
    /\ left[s] > 0 => pushes[s] > 0 /\ outcome[s] # "none"
    /\ task[s] # "none" /\ task[s] # "handling" /\ outcome[s] = "none" => stream[s] = "closed"

(* A promised stream and the stream of its request, which it has ended.    *)
PromisesAgree ==
  \A p \in Promised :
    /\ stream[p] # "open"
    /\ parent[p] = NoId <=> stream[p] = "idle"
    /\ parent[p] = NoId <=> outcome[p] = "none"
    /\ parent[p] # NoId => parent[p] \in ended /\ pushes[parent[p]] > 0

(* The frames of a response: an ended stream is closed, a half-closed one  *)
(* whose body went out has announced pushes.                               *)
WritesAgree ==
  /\ writing # NoId => stream[writing] = "half"
  /\ \A i \in Ids :
       /\ outcome[i] = "writing" <=> i = writing
       /\ sent[i] <= body[i]
       /\ outcome[i] = "none" => sent[i] = 0
       /\ i \in ended => stream[i] = "closed"
       /\ stream[i] = "half" /\ outcome[i] = "sent" => pushes[i] > 0
  /\ EndedIsWhole

Inv == TypeOK /\ RequestsAgree /\ TasksAgree /\ PromisesAgree /\ WritesAgree

-----------------------------------------------------------------------------

LEMMA InitInv == Init => Inv
<1> SUFFICES ASSUME Init PROVE Inv
  OBVIOUS
<1> USE Http2Assumption DEF Init
<1>1. TypeOK
  <2>1. pushOn \in BOOLEAN /\ buffer \in BOOLEAN
    OBVIOUS
  <2>2. /\ partial \in [Streams -> None .. MaxBody] /\ handed \in [Streams -> None .. MaxBody]
        /\ window \in [Ids -> Nat] /\ connWindow \in Nat /\ growth \in 0 .. MaxGrowth
    BY DEF None
  <2>3. /\ stream \in [Ids -> StreamStates] /\ outcome \in [Ids -> Outcomes]
        /\ task \in [Streams -> TaskStates] /\ ended \in SUBSET Ids
        /\ parent \in [Promised -> Streams \cup {NoId}] /\ writing \in Ids \cup {NoId}
    BY DEF StreamStates, TaskStates, Outcomes
  <2>4. QED
    BY <2>1, <2>2, <2>3 DEF TypeOK
<1>2. RequestsAgree /\ TasksAgree /\ PromisesAgree
  BY DEF RequestsAgree, TasksAgree, PromisesAgree, Ids
<1>3. WritesAgree
  BY DEF WritesAgree, EndedIsWhole
<1>4. QED
  BY <1>1, <1>2, <1>3 DEF Inv

(* A frame of the peer that leaves the responses alone: a stream may open, *)
(* or close, or end on the peer's side with a task to follow.              *)
LEMMA FramesKeepWrites ==
  ASSUME Inv, UNCHANGED responses, Quiet,
         \A i \in Ids : \/ stream'[i] = stream[i]
                        \/ stream'[i] = "closed"
                        \/ stream[i] # "closed" /\ outcome[i] # "sent"
  PROVE  WritesAgree'
<1>1. EndedIsWhole'
  BY DEF Inv, WritesAgree, EndedIsWhole, responses
<1>2. QED
  BY <1>1 DEF Inv, WritesAgree, responses, Quiet, TypeOK

LEMMA RequestReceivedInv ==
  ASSUME Inv, NEW s \in Streams, RequestReceived(s)
  PROVE  Inv'
<1> USE Http2Assumption DEF RequestReceived, requests, tasks, responses, flow
<1>1. TypeOK'
  <2>1. pushOn' \in BOOLEAN /\ buffer' \in BOOLEAN
    BY DEF Inv, TypeOK
  <2>2. partial' \in [Streams -> None .. MaxBody] /\ stream' \in [Ids -> StreamStates]
    BY DEF Inv, TypeOK, StreamStates, Ids, None
  <2>3. QED
    BY <2>1, <2>2 DEF Inv, TypeOK
<1>2. outcome[s] = "none"
  BY DEF Inv, RequestsAgree, TasksAgree
<1>3. RequestsAgree'
  BY DEF Inv, TypeOK, RequestsAgree, Ids, None
<1>4. TasksAgree' /\ PromisesAgree'
  BY <1>2 DEF Inv, TypeOK, RequestsAgree, TasksAgree, PromisesAgree, Ids
<1>5. WritesAgree'
  BY <1>2, FramesKeepWrites DEF Inv, TypeOK, Ids
<1>6. QED
  BY <1>1, <1>3, <1>4, <1>5 DEF Inv

LEMMA DataReceivedInv ==
  ASSUME Inv, NEW s \in Streams, DataReceived(s)
  PROVE  Inv'
<1> USE Http2Assumption DEF DataReceived, AppendBody, tasks, responses, flow
<1>1. partial[s] = got[s] /\ got[s] \in Nat /\ got[s] < MaxBody /\ handed[s] = None
  BY DEF Inv, TypeOK, RequestsAgree
<1>2. partial' = [partial EXCEPT ![s] = @ + 1]
  BY <1>1 DEF None
<1>3. got' \in [Streams -> 0 .. MaxBody] /\ partial' \in [Streams -> None .. MaxBody]
  BY <1>1, <1>2 DEF Inv, TypeOK, None
<1>4. TypeOK'
  BY <1>3 DEF Inv, TypeOK
<1>5. RequestsAgree'
  BY <1>1, <1>2 DEF Inv, TypeOK, RequestsAgree
<1>6. TasksAgree' /\ PromisesAgree'
  BY DEF Inv, TasksAgree, PromisesAgree
<1>7. WritesAgree'
  BY FramesKeepWrites
<1>8. QED
  BY <1>4, <1>5, <1>6, <1>7 DEF Inv

LEMMA StreamEndedInv ==
  ASSUME Inv, NEW s \in Streams, StreamEnded(s)
  PROVE  Inv'
<1> USE Http2Assumption DEF StreamEnded, responses, flow
<1>1. task[s] = "none" /\ outcome[s] = "none" /\ left[s] = 0 /\ partial[s] = got[s]
  BY DEF Inv, RequestsAgree, TasksAgree
<1>2. TypeOK'
  <2>1. pushOn' \in BOOLEAN /\ buffer' \in BOOLEAN
    BY DEF Inv, TypeOK
  <2>2. /\ partial' \in [Streams -> None .. MaxBody] /\ handed' \in [Streams -> None .. MaxBody]
        /\ stream' \in [Ids -> StreamStates] /\ task' \in [Streams -> TaskStates]
    BY DEF Inv, TypeOK, StreamStates, TaskStates, Ids, None
  <2>3. QED
    BY <2>1, <2>2 DEF Inv, TypeOK
<1>3. RequestsAgree'
  BY <1>1 DEF Inv, TypeOK, RequestsAgree, Ids
<1>4. TasksAgree' /\ PromisesAgree'
  BY <1>1 DEF Inv, TypeOK, TasksAgree, PromisesAgree, Ids
<1>5. WritesAgree'
  BY <1>1, FramesKeepWrites DEF Inv, TypeOK, Ids
<1>6. QED
  BY <1>2, <1>3, <1>4, <1>5 DEF Inv

LEMMA StreamResetInv ==
  ASSUME Inv, NEW i \in Ids, StreamReset(i)
  PROVE  Inv'
<1> USE Http2Assumption DEF StreamReset, requests, tasks, responses, flow
<1>1. TypeOK'
  BY DEF Inv, TypeOK, StreamStates
<1>2. RequestsAgree'
  BY DEF Inv, TypeOK, RequestsAgree, Ids
<1>3. TasksAgree' /\ PromisesAgree'
  BY DEF Inv, TypeOK, TasksAgree, PromisesAgree, Ids
<1>4. WritesAgree'
  BY FramesKeepWrites DEF Inv, TypeOK
<1>5. QED
  BY <1>1, <1>2, <1>3, <1>4 DEF Inv

LEMMA SettingsInv ==
  ASSUME Inv, WindowUpdated \/ PushDisabled
  PROVE  Inv'
<1> USE Http2Assumption DEF WindowUpdated, PushDisabled, requests, tasks, responses, flow
<1>1. TypeOK'
  <2>1. pushOn' \in BOOLEAN /\ buffer' \in BOOLEAN
    BY DEF Inv, TypeOK
  <2>2. window' \in [Ids -> Nat] /\ connWindow' \in Nat /\ growth' \in 0 .. MaxGrowth
    BY DEF Inv, TypeOK
  <2>3. QED
    BY <2>1, <2>2 DEF Inv, TypeOK
<1>2. RequestsAgree' /\ TasksAgree' /\ PromisesAgree'
  BY DEF Inv, RequestsAgree, TasksAgree, PromisesAgree
<1>3. WritesAgree'
  BY FramesKeepWrites
<1>4. QED
  BY <1>1, <1>2, <1>3 DEF Inv

-----------------------------------------------------------------------------
(* The loop of handle_response.                                            *)

LEMMA ParentIsStream ==
  ASSUME Inv, writing # NoId
  PROVE  writing \in Ids /\ Parent(writing) \in Ids
<1>1. writing \in Ids /\ outcome[writing] = "writing"
  BY DEF Inv, TypeOK, WritesAgree
<1>2. CASE writing \in Streams
  BY <1>1, <1>2 DEF Parent, Ids
<1>3. CASE writing \notin Streams
  <2>1. writing \in Promised /\ parent[writing] # NoId
    BY <1>1, <1>3 DEF Ids, Inv, PromisesAgree
  <2>2. parent[writing] \in Streams
    BY <2>1 DEF Inv, TypeOK
  <2>3. QED
    BY <1>1, <1>3, <2>2 DEF Parent, Ids
<1>4. QED
  BY <1>2, <1>3

(* A chunk is at most what is left of the body.                            *)
LEMMA ChunkFits ==
  ASSUME Inv, writing # NoId, ~Exhausted
  PROVE  Chunk \in Nat /\ Chunk <= body[writing] - sent[writing]
<1>1. /\ body[writing] \in Nat /\ sent[writing] \in Nat /\ sent[writing] <= body[writing]
      /\ Room(Parent(writing)) \in Nat
  BY ParentIsStream, Http2Assumption DEF Inv, TypeOK, WritesAgree, Room, Least
<1>2. QED
  BY <1>1, Http2Assumption DEF Chunk, Least

(* The loop is left, by the window or by an exception.                     *)
LEMMA LeaveInv ==
  ASSUME Inv, CutShort \/ SendRaises
  PROVE  Inv'
<1> USE Http2Assumption DEF requests, tasks, flow
<1>1. PICK how \in {"cut", "raised"} : Leave(how)
  BY DEF CutShort, SendRaises
<1>2. /\ writing # NoId
      /\ UNCHANGED <<stream, requests, tasks, body, pushes, sent, ended, parent, flow, pushOn, buffer>>
  BY DEF CutShort, SendRaises
<1>3. writing \in Ids /\ outcome[writing] = "writing" /\ stream[writing] = "half"
  BY <1>2 DEF Inv, TypeOK, WritesAgree
<1>4. TypeOK'
  <2>1. pushOn' \in BOOLEAN /\ buffer' \in BOOLEAN
    BY <1>2 DEF Inv, TypeOK
  <2>2. outcome' \in [Ids -> Outcomes] /\ writing' = NoId
    BY <1>1 DEF Inv, TypeOK, Leave, Outcomes
  <2>3. QED
    BY <1>2, <2>1, <2>2 DEF Inv, TypeOK
<1>5. RequestsAgree'
  BY <1>2 DEF Inv, RequestsAgree
<1>6. TasksAgree' /\ PromisesAgree'
  BY <1>1, <1>2, <1>3 DEF Inv, TypeOK, Leave, TasksAgree, PromisesAgree, Ids
<1>7. WritesAgree'
  <2>1. EndedIsWhole'
    BY <1>2 DEF Inv, WritesAgree, EndedIsWhole
  <2>2. QED
    BY <1>1, <1>2, <1>3, <2>1 DEF Inv, TypeOK, Leave, WritesAgree
<1>8. QED
  BY <1>4, <1>5, <1>6, <1>7 DEF Inv

LEMMA SendDataInv ==
  ASSUME Inv, SendData
  PROVE  Inv'
<1> USE Http2Assumption DEF requests, tasks, flow
<1> DEFINE i == writing
<1>1. /\ i \in Ids /\ outcome[i] = "writing" /\ stream[i] = "half" /\ i \notin ended
      /\ body[i] \in Nat /\ sent[i] \in Nat /\ pushes[i] \in Nat
  BY DEF SendData, Inv, TypeOK, WritesAgree
<1>2. /\ Chunk \in Nat /\ Chunk <= body[i] - sent[i]
      /\ Chunk <= connWindow /\ Chunk <= window[i]
  BY <1>1, ChunkFits DEF SendData, Room, Least, Inv, TypeOK
<1>3. /\ UNCHANGED <<got, partial, handed, task, left, body, pushes, parent, growth, pushOn>>
      /\ sent' = [sent EXCEPT ![i] = @ + Chunk]
  BY DEF SendData
<1>4. \/ /\ Chunk = body[i] - sent[i] /\ writing' = NoId
         /\ outcome' = [outcome EXCEPT ![i] = "sent"]
      \/ Chunk # body[i] - sent[i] /\ UNCHANGED <<outcome, writing>>
  BY DEF SendData, Leave
<1>5. \/ /\ pushes[i] = 0 /\ Chunk = body[i] - sent[i]
         /\ ended' = ended \cup {i} /\ stream' = [stream EXCEPT ![i] = "closed"]
      \/ /\ pushes[i] > 0 \/ Chunk # body[i] - sent[i]
         /\ UNCHANGED <<ended, stream>>
  BY <1>1, <1>2 DEF SendData, Ends
<1>6. TypeOK'
  <2>1. pushOn' \in BOOLEAN /\ buffer' \in BOOLEAN
    BY DEF SendData, Written, Inv, TypeOK
  <2>2. window' \in [Ids -> Nat] /\ connWindow' \in Nat
    BY <1>1, <1>2 DEF SendData, Inv, TypeOK
  <2>3. sent' \in [Ids -> 0 .. MaxBody]
    BY <1>1, <1>2, <1>3 DEF Inv, TypeOK
  <2>4. /\ outcome' \in [Ids -> Outcomes] /\ writing' \in Ids \cup {NoId}
        /\ ended' \in SUBSET Ids /\ stream' \in [Ids -> StreamStates]
    BY <1>1, <1>4, <1>5 DEF Inv, TypeOK, Outcomes, StreamStates
  <2>5. QED
    BY <1>3, <2>1, <2>2, <2>3, <2>4 DEF Inv, TypeOK
<1>7. RequestsAgree'
  BY <1>1, <1>3, <1>5 DEF Inv, TypeOK, RequestsAgree, Ids
<1>8. TasksAgree' /\ PromisesAgree'
  <2>1. i \in Streams => task[i] # "none" /\ task[i] # "handling"
    BY <1>1 DEF Inv, TasksAgree
  <2>2. TasksAgree'
    BY <1>1, <1>3, <1>4, <1>5, <2>1 DEF Inv, TypeOK, TasksAgree, Ids
  <2>3. PromisesAgree'
    BY <1>1, <1>3, <1>4, <1>5 DEF Inv, TypeOK, PromisesAgree, Ids
  <2>4. QED
    BY <2>2, <2>3
<1>9. WritesAgree'
  <2>1. EndedIsWhole'
    BY <1>1, <1>2, <1>3, <1>5 DEF Inv, TypeOK, WritesAgree, EndedIsWhole
  <2>2. writing' # NoId => stream'[writing'] = "half"
    BY <1>1, <1>4, <1>5
  <2>3. ASSUME NEW j \in Ids
        PROVE  /\ outcome'[j] = "writing" <=> j = writing'
               /\ sent'[j] <= body'[j]
               /\ outcome'[j] = "none" => sent'[j] = 0
               /\ j \in ended' => stream'[j] = "closed"
               /\ stream'[j] = "half" /\ outcome'[j] = "sent" => pushes'[j] > 0
    <3>1. CASE j = i
      BY <1>1, <1>2, <1>3, <1>4, <1>5, <3>1 DEF Inv, TypeOK
    <3>2. CASE j # i
      BY <1>1, <1>3, <1>4, <1>5, <3>2 DEF Inv, TypeOK, WritesAgree
    <3>3. QED
      BY <3>1, <3>2
  <2>4. QED
    BY <2>1, <2>2, <2>3 DEF WritesAgree
<1>10. QED
  BY <1>6, <1>7, <1>8, <1>9 DEF Inv

-----------------------------------------------------------------------------
(* The tasks.                                                              *)

(* A response begins on a half-closed stream that had none: nothing was    *)
(* sent on it.                                                             *)
LEMMA HeadKeepsWrites ==
  ASSUME Inv, Quiet, UNCHANGED sent,
         NEW i \in Ids, NEW n \in 0 .. MaxBody, NEW k \in 0 .. MaxPushes, Head(i, n, k),
         outcome[i] = "none", i \notin ended', stream'[i] = "half",
         \A j \in Ids \ {i} : \/ stream'[j] = stream[j] /\ (j \in ended' <=> j \in ended)
                             \/ stream'[j] = "closed",
         EndedIsWhole'
  PROVE  WritesAgree'
<1> USE Http2Assumption DEF Head, Quiet
<1>1. ASSUME NEW j \in Ids
      PROVE  /\ outcome'[j] = "writing" <=> j = writing'
             /\ sent'[j] <= body'[j]
             /\ outcome'[j] = "none" => sent'[j] = 0
             /\ j \in ended' => stream'[j] = "closed"
             /\ stream'[j] = "half" /\ outcome'[j] = "sent" => pushes'[j] > 0
  <2>1. CASE j = i
    BY <2>1 DEF Inv, TypeOK, WritesAgree
  <2>2. CASE j # i
    BY <2>2 DEF Inv, TypeOK, WritesAgree
  <2>3. QED
    BY <2>1, <2>2
<1>2. QED
  BY <1>1 DEF WritesAgree

LEMMA HeadType ==
  ASSUME Inv, NEW i \in Ids, NEW n \in 0 .. MaxBody, NEW k \in 0 .. MaxPushes, Head(i, n, k)
  PROVE  /\ body' \in [Ids -> 0 .. MaxBody] /\ pushes' \in [Ids -> 0 .. MaxPushes]
         /\ outcome' \in [Ids -> Outcomes] /\ writing' \in Ids \cup {NoId}
         /\ buffer' \in BOOLEAN
  BY DEF Inv, TypeOK, Head, Outcomes

(* A handler that ends, with a response or, reset or failed, without one.  *)
LEMMA HandlerEndsInv ==
  ASSUME Inv, Quiet, NEW s \in Streams, task[s] = "handling",
         NEW n \in 0 .. MaxBody, NEW k \in 0 .. MaxPushes,
         UNCHANGED <<stream, got, partial, handed, sent, ended, parent, flow, pushOn>>,
         \/ /\ stream[s] = "closed"
            /\ task' = [task EXCEPT ![s] = "failed"]
            /\ UNCHANGED <<left, body, pushes, outcome, writing, buffer>>
         \/ /\ stream[s] # "closed" /\ Head(s, n, k)
            /\ \/ k > 0 /\ task' = [task EXCEPT ![s] = "pushing"] /\ left' = [left EXCEPT ![s] = k]
               \/ \E end \in {"over", "failed"} :
                    task' = [task EXCEPT ![s] = end] /\ UNCHANGED left
  PROVE  Inv'
<1> USE Http2Assumption DEF flow
<1>1. /\ s \in Ids /\ outcome[s] = "none" /\ left[s] = 0
      /\ stream[s] \in {"half", "closed"}
  BY DEF Inv, TypeOK, RequestsAgree, TasksAgree, Ids, StreamStates
<1>2. RequestsAgree'
  <2>1. ASSUME NEW t \in Streams, stream[t] \in {"idle", "open"}
        PROVE  task'[t] = "none"
    BY <1>1, <2>1 DEF Inv, TypeOK, RequestsAgree
  <2>2. QED
    BY <2>1 DEF Inv, RequestsAgree
<1>3. CASE stream[s] = "closed"
  <2>1. /\ task' = [task EXCEPT ![s] = "failed"]
        /\ UNCHANGED <<left, body, pushes, outcome, writing, buffer>>
    BY <1>3
  <2>2. TypeOK'
    <3>1. pushOn' \in BOOLEAN /\ buffer' \in BOOLEAN
      BY <2>1 DEF Inv, TypeOK
    <3>2. QED
      BY <2>1, <3>1 DEF Inv, TypeOK, TaskStates
  <2>3. TasksAgree' /\ PromisesAgree'
    BY <1>1, <1>3, <2>1 DEF Inv, TypeOK, TasksAgree, PromisesAgree
  <2>4. WritesAgree'
    BY <2>1 DEF Inv, WritesAgree, EndedIsWhole
  <2>5. QED
    BY <1>2, <2>2, <2>3, <2>4 DEF Inv
<1>4. CASE stream[s] = "half"
  <2>1. /\ Head(s, n, k)
        /\ \/ k > 0 /\ task' = [task EXCEPT ![s] = "pushing"] /\ left' = [left EXCEPT ![s] = k]
           \/ \E end \in {"over", "failed"} :
                task' = [task EXCEPT ![s] = end] /\ UNCHANGED left
    BY <1>4
  <2>2. TypeOK'
    <3>1. pushOn' \in BOOLEAN
      BY DEF Inv, TypeOK
    <3>2. task' \in [Streams -> TaskStates] /\ left' \in [Streams -> 0 .. MaxPushes]
      BY <2>1 DEF Inv, TypeOK, TaskStates
    <3>3. QED
      BY <1>1, <2>1, <3>1, <3>2, HeadType DEF Inv, TypeOK
  <2>3. TasksAgree'
    BY <1>1, <1>4, <2>1 DEF Inv, TypeOK, TasksAgree, Head, Ids
  <2>4. s \notin ended /\ \A p \in Promised : parent[p] # s
    BY <1>1, <1>4 DEF Inv, WritesAgree, PromisesAgree
  <2>5. PromisesAgree'
    BY <1>1, <2>1, <2>4 DEF Inv, TypeOK, PromisesAgree, Head, Ids
  <2>6. EndedIsWhole'
    BY <1>1, <2>1, <2>4 DEF Inv, TypeOK, WritesAgree, EndedIsWhole, Head
  <2>7. WritesAgree'
    BY <1>1, <1>4, <2>1, <2>4, <2>6, HeadKeepsWrites
  <2>8. QED
    BY <1>2, <2>2, <2>3, <2>5, <2>7 DEF Inv
<1>5. QED
  BY <1>1, <1>3, <1>4

LEMMA HandlerReturnsInv ==
  ASSUME Inv, NEW s \in Streams, NEW n \in Bodies, NEW k \in 0 .. MaxPushes,
         HandlerReturns(s, n, k)
  PROVE  Inv'
<1>1. Quiet /\ task[s] = "handling" /\ n \in 0 .. MaxBody
  BY DEF HandlerReturns, Bodies
<1>2. UNCHANGED <<stream, got, partial, handed, sent, ended, parent, flow, pushOn>>
  BY DEF HandlerReturns, requests
<1>3. CASE stream[s] = "closed"
  BY <1>1, <1>2, <1>3, HandlerEndsInv DEF HandlerReturns
<1>4. CASE stream[s] # "closed"
  <2>1. /\ Head(s, n, k)
        /\ \/ k > 0 /\ task' = [task EXCEPT ![s] = "pushing"] /\ left' = [left EXCEPT ![s] = k]
           \/ task' = [task EXCEPT ![s] = "over"] /\ UNCHANGED left
    BY <1>4 DEF HandlerReturns
  <2>2. QED
    BY <1>1, <1>2, <1>4, <2>1, HandlerEndsInv
<1>5. QED
  BY <1>3, <1>4

LEMMA HandlerFailsInv ==
  ASSUME Inv, NEW s \in Streams, NEW n \in Bodies, HandlerFails(s, n)
  PROVE  Inv'
<1>1. Quiet /\ task[s] = "handling" /\ n \in 0 .. MaxBody /\ 0 \in 0 .. MaxPushes
  BY Http2Assumption DEF HandlerFails, Bodies
<1>2. /\ UNCHANGED <<stream, got, partial, handed, sent, ended, parent, flow, pushOn>>
      /\ task' = [task EXCEPT ![s] = "failed"] /\ UNCHANGED left
  BY DEF HandlerFails, requests
<1>3. CASE stream[s] = "closed"
  BY <1>1, <1>2, <1>3, HandlerEndsInv DEF HandlerFails
<1>4. CASE stream[s] # "closed"
  <2>1. Head(s, n, 0)
    BY <1>4 DEF HandlerFails
  <2>2. QED
    BY <1>1, <1>2, <1>4, <2>1, HandlerEndsInv
<1>5. QED
  BY <1>3, <1>4

(* gather with one push less.                                              *)
LEMMA PushOverType ==
  ASSUME Inv, NEW s \in Streams, left[s] > 0, NEW failed \in BOOLEAN, PushOver(s, failed)
  PROVE  /\ left' \in [Streams -> 0 .. MaxPushes] /\ task' \in [Streams -> TaskStates]
         /\ \A t \in Streams : t # s => task'[t] = task[t] /\ left'[t] = left[t]
         /\ task[s] \notin {"none", "handling"} /\ task'[s] \notin {"none", "handling"}
         /\ pushes[s] > 0 /\ outcome[s] # "none"
<1>1. task[s] \notin {"none", "handling"} /\ pushes[s] > 0 /\ outcome[s] # "none"
  BY DEF Inv, TypeOK, TasksAgree
<1>2. left' = [left EXCEPT ![s] = left[s] - 1]
  BY DEF PushOver
<1>3. left' \in [Streams -> 0 .. MaxPushes]
  BY <1>2, Http2Assumption DEF Inv, TypeOK
<1>4. PICK end \in {task[s], "failed", "over"} : task' = [task EXCEPT ![s] = end]
  BY DEF PushOver, Inv, TypeOK
<1>5. QED
  BY <1>1, <1>2, <1>3, <1>4 DEF Inv, TypeOK, TaskStates

(* A push that promises no stream.                                         *)
LEMMA PushDroppedInv ==
  ASSUME Inv, NEW s \in Streams, left[s] > 0, NEW failed \in BOOLEAN, PushOver(s, failed),
         UNCHANGED <<stream, requests, responses, flow, pushOn, buffer>>
  PROVE  Inv'
<1> USE Http2Assumption DEF requests, responses, flow
<1> USE PushOverType
<1>1. TypeOK'
  <2>1. pushOn' \in BOOLEAN /\ buffer' \in BOOLEAN
    BY DEF Inv, TypeOK
  <2>2. QED
    BY <2>1 DEF Inv, TypeOK
<1>2. RequestsAgree'
  BY DEF Inv, RequestsAgree
<1>3. TasksAgree'
  BY DEF Inv, TasksAgree
<1>4. PromisesAgree' /\ WritesAgree'
  BY DEF Inv, PromisesAgree, WritesAgree, EndedIsWhole
<1>5. QED
  BY <1>1, <1>2, <1>3, <1>4 DEF Inv

(* A push that promises stream p.                                          *)
LEMMA PushPromisedInv ==
  ASSUME Inv, Quiet, NEW s \in Streams, left[s] > 0, PushOver(s, FALSE), MayPush(s),
         NEW p \in Promised, stream[p] = "idle",
         NEW n \in 0 .. MaxBody, NEW k \in 0 .. MaxPushes, Head(p, n, k),
         parent' = [parent EXCEPT ![p] = s],
         stream' = [stream EXCEPT ![s] = "closed", ![p] = "half"],
         ended' = ended \cup {s},
         UNCHANGED <<requests, sent, flow, pushOn>>
  PROVE  Inv'
<1> USE Http2Assumption DEF requests, flow
<1>1. /\ s \in Ids /\ p \in Ids /\ s # p /\ p \notin Streams /\ s \notin Promised
      /\ stream[s] # "closed" /\ s \notin ended /\ p \notin ended
      /\ outcome[p] = "none" /\ parent[p] = NoId
  BY DEF Ids, MayPush, Inv, WritesAgree, PromisesAgree
<1>2. /\ left' \in [Streams -> 0 .. MaxPushes] /\ task' \in [Streams -> TaskStates]
      /\ \A t \in Streams : t # s => task'[t] = task[t] /\ left'[t] = left[t]
      /\ task[s] \notin {"none", "handling"} /\ task'[s] \notin {"none", "handling"}
      /\ pushes[s] > 0 /\ outcome[s] # "none"
  BY PushOverType
<1>3. /\ stream'[s] = "closed" /\ stream'[p] = "half"
      /\ \A i \in Ids \ {s, p} : stream'[i] = stream[i]
      /\ stream' \in [Ids -> StreamStates]
  BY <1>1 DEF Inv, TypeOK, StreamStates
<1>4. /\ outcome'[p] = "writing" /\ pushes'[p] = k /\ body'[p] = n
      /\ \A i \in Ids \ {p} : /\ outcome'[i] = outcome[i] /\ pushes'[i] = pushes[i]
                             /\ body'[i] = body[i]
  BY <1>1 DEF Inv, TypeOK, Head
<1>5. parent'[p] = s /\ \A q \in Promised \ {p} : parent'[q] = parent[q]
  BY DEF Inv, TypeOK
<1>6. TypeOK'
  <2>1. pushOn' \in BOOLEAN
    BY DEF Inv, TypeOK
  <2>2. parent' \in [Promised -> Streams \cup {NoId}] /\ ended' \in SUBSET Ids
    BY <1>1 DEF Inv, TypeOK
  <2>3. QED
    BY <1>1, <1>2, <1>3, <2>1, <2>2, HeadType DEF Inv, TypeOK
<1>7. RequestsAgree'
  <2>1. stream[s] \notin {"idle", "open"}
    BY <1>2 DEF Inv, RequestsAgree
  <2>2. ASSUME NEW t \in Streams
        PROVE  /\ stream'[t] = "idle" => got'[t] = 0
               /\ stream'[t] = "open" => partial'[t] = got'[t]
               /\ stream'[t] \in {"idle", "open"} => task'[t] = "none" /\ handed'[t] = None
               /\ handed'[t] # None => handed'[t] = got'[t]
    <3>1. CASE t = s
      BY <1>3, <3>1 DEF Inv, RequestsAgree
    <3>2. CASE t # s
      BY <1>1, <1>2, <1>3, <3>2 DEF Inv, RequestsAgree, Ids
    <3>3. QED
      BY <3>1, <3>2
  <2>3. QED
    BY <2>2 DEF RequestsAgree
<1>8. TasksAgree'
  BY <1>1, <1>2, <1>3, <1>4 DEF Inv, TasksAgree, Ids
<1>9. PromisesAgree'
  <2>1. ASSUME NEW q \in Promised, q # p
        PROVE  /\ stream'[q] # "open"
               /\ parent'[q] = NoId <=> stream'[q] = "idle"
               /\ parent'[q] = NoId <=> outcome'[q] = "none"
               /\ parent'[q] # NoId => parent'[q] \in ended' /\ pushes'[parent'[q]] > 0
    <3>1. q \in Ids \ {s, p} /\ (parent[q] # NoId => parent[q] \in Ids \ {p})
      BY <1>1, <2>1 DEF Inv, TypeOK, Ids
    <3>2. QED
      BY <1>3, <1>4, <1>5, <2>1, <3>1 DEF Inv, PromisesAgree, Ids
  <2>2. s # NoId /\ pushes'[s] > 0
    BY <1>1, <1>2, <1>4
  <2>3. /\ stream'[p] = "half" /\ outcome'[p] = "writing" /\ parent'[p] = s
        /\ parent'[p] # NoId /\ parent'[p] \in ended' /\ pushes'[parent'[p]] > 0
    BY <1>3, <1>4, <1>5, <2>2
  <2>4. ASSUME NEW q \in Promised
        PROVE  /\ stream'[q] # "open"
               /\ parent'[q] = NoId <=> stream'[q] = "idle"
               /\ parent'[q] = NoId <=> outcome'[q] = "none"
               /\ parent'[q] # NoId => parent'[q] \in ended' /\ pushes'[parent'[q]] > 0
    BY <2>1, <2>3
  <2>5. QED
    BY <2>4 DEF PromisesAgree
<1>10. EndedIsWhole'
  <2>1. ASSUME NEW i \in ended
        PROVE  \/ pushes'[i] = 0 /\ sent'[i] = body'[i]
               \/ pushes'[i] > 0 /\ \E q \in Promised : parent'[q] = i
    <3>1. i \in Ids \ {p}
      BY <1>1 DEF Inv, TypeOK
    <3>2. CASE pushes[i] = 0 /\ sent[i] = body[i]
      BY <1>4, <3>1, <3>2
    <3>3. CASE pushes[i] > 0 /\ \E q \in Promised : parent[q] = i
      <4>1. PICK q \in Promised : parent[q] = i
        BY <3>3
      <4>2. q # p
        BY <1>1, <3>1, <4>1
      <4>3. QED
        BY <1>4, <1>5, <3>1, <3>3, <4>1, <4>2
    <3>4. QED
      BY <3>2, <3>3 DEF Inv, WritesAgree, EndedIsWhole
  <2>2. pushes'[s] > 0 /\ parent'[p] = s
    BY <1>1, <1>2, <1>4, <1>5
  <2>3. QED
    BY <2>1, <2>2 DEF EndedIsWhole
<1>11. WritesAgree'
  <2>1. \A i \in Ids \ {p} : \/ stream'[i] = stream[i] /\ (i \in ended' <=> i \in ended)
                           \/ stream'[i] = "closed"
    BY <1>1, <1>3
  <2>2. p \notin ended'
    BY <1>1
  <2>3. QED
    BY <1>1, <1>3, <1>10, <2>1, <2>2, HeadKeepsWrites
<1>12. QED
  BY <1>6, <1>7, <1>8, <1>9, <1>11 DEF Inv

LEMMA PushReturnsInv ==
  ASSUME Inv, NEW s \in Streams, NEW n \in Bodies, NEW k \in 0 .. MaxPushes,
         PushReturns(s, n, k)
  PROVE  Inv'
<1>1. CASE MayPush(s)
  <2>1. PICK p \in Promised :
          /\ stream[p] = "idle" /\ Head(p, n, k)
          /\ parent' = [parent EXCEPT ![p] = s]
          /\ stream' = [stream EXCEPT ![s] = "closed", ![p] = "half"]
          /\ ended' = ended \cup {s}
    BY <1>1 DEF PushReturns
  <2>2. /\ Quiet /\ left[s] > 0 /\ PushOver(s, FALSE) /\ n \in 0 .. MaxBody
        /\ UNCHANGED <<requests, sent, flow, pushOn>>
    BY DEF PushReturns, Bodies
  <2>3. QED
    BY <1>1, <2>1, <2>2, PushPromisedInv
<1>2. CASE ~MayPush(s)
  <2>1. UNCHANGED <<stream, requests, responses, flow, pushOn, buffer>>
    BY <1>2 DEF PushReturns, responses
  <2>2. left[s] > 0 /\ PushOver(s, FALSE)
    BY DEF PushReturns
  <2>3. QED
    BY <2>1, <2>2, PushDroppedInv
<1>3. QED
  BY <1>1, <1>2

LEMMA PushFailsInv ==
  ASSUME Inv, NEW s \in Streams, PushFails(s)
  PROVE  Inv'
<1>1. left[s] > 0 /\ PushOver(s, TRUE)
      /\ UNCHANGED <<stream, requests, responses, flow, pushOn, buffer>>
  BY DEF PushFails
<1>2. QED
  BY <1>1, PushDroppedInv

-----------------------------------------------------------------------------

LEMMA StepInv == Inv /\ [Next]_vars => Inv'
<1> SUFFICES ASSUME Inv, [Next]_vars PROVE Inv'
  OBVIOUS
<1>1. ASSUME NEW s \in Streams,
             RequestReceived(s) \/ DataReceived(s) \/ StreamEnded(s)
      PROVE  Inv'
  BY <1>1, RequestReceivedInv, DataReceivedInv, StreamEndedInv
<1>2. ASSUME NEW s \in Streams, NEW n \in Bodies, NEW k \in 0 .. MaxPushes,
             HandlerReturns(s, n, k) \/ PushReturns(s, n, k)
      PROVE  Inv'
  BY <1>2, HandlerReturnsInv, PushReturnsInv
<1>3. ASSUME NEW s \in Streams, NEW n \in Bodies, HandlerFails(s, n)
      PROVE  Inv'
  BY <1>3, HandlerFailsInv
<1>4. ASSUME NEW s \in Streams, PushFails(s)
      PROVE  Inv'
  BY <1>4, PushFailsInv
<1>5. ASSUME NEW i \in Ids, StreamReset(i)
      PROVE  Inv'
  BY <1>5, StreamResetInv
<1>6. CASE WindowUpdated \/ PushDisabled
  BY <1>6, SettingsInv
<1>7. CASE CutShort \/ SendRaises
  BY <1>7, LeaveInv
<1>8. CASE SendData
  BY <1>8, SendDataInv
<1>9. CASE UNCHANGED vars
  <2>1. UNCHANGED <<stream, requests, tasks, responses, flow, pushOn, buffer>>
    BY <1>9 DEF vars
  <2>2. UNCHANGED <<stream, got, partial, handed, task, left, body, pushes, sent, ended,
                    outcome, parent, writing, window, connWindow, growth, pushOn, buffer>>
    BY <2>1 DEF requests, tasks, responses, flow
  <2>3. TypeOK'
    BY <2>2 DEF Inv, TypeOK
  <2>4. RequestsAgree' /\ TasksAgree' /\ PromisesAgree'
    BY <2>2 DEF Inv, RequestsAgree, TasksAgree, PromisesAgree
  <2>5. WritesAgree'
    BY <2>2 DEF Inv, WritesAgree, EndedIsWhole
  <2>6. QED
    BY <2>3, <2>4, <2>5 DEF Inv
<1>10. QED
  BY <1>1, <1>2, <1>3, <1>4, <1>5, <1>6, <1>7, <1>8, <1>9 DEF Next, Over

(* The state of a stream, its request, its tasks and its response agree.   *)
THEOREM Invariance == Spec => []Inv
<1>1. QED
  BY InitInv, StepInv, PTL DEF Spec

(* Every variable keeps its type: no count goes below zero, in particular  *)
(* no window (hyper.py:128-131).                                           *)
THEOREM TypeCorrect == Spec => []TypeOK
<1>1. Inv => TypeOK
  BY DEF Inv
<1>2. QED
  BY <1>1, Invariance, PTL

(* Every handler gets the body that was sent on its own stream             *)
(* (hyper.py:63-70).                                                       *)
THEOREM RequestsAreWhole == Spec => []RequestWhole
<1>1. Inv => RequestWhole
  BY DEF Inv, RequestsAgree, RequestWhole
<1>2. QED
  BY <1>1, Invariance, PTL

(* A stream that was ended without pushes had its whole body sent, one     *)
(* with pushes was ended by a push (hyper.py:119, 131).                    *)
THEOREM EndedStreamsAreWhole == Spec => []EndedIsWhole
<1>1. Inv => EndedIsWhole
  BY DEF Inv, WritesAgree
<1>2. QED
  BY <1>1, Invariance, PTL

(* A stream whose tasks are over is left half-closed only by an exhausted  *)
(* window, a refused frame, or pushes of which none was promised           *)
(* (hyper.py:101-139).                                                     *)
THEOREM NoStreamForgotten == Spec => []OpenForAReason
<1>1. Inv => OpenForAReason
  <2> SUFFICES ASSUME Inv, NEW i \in Ids, stream[i] = "half", Quiet,
                      i \in Streams => task[i] \in {"over", "failed"} /\ left[i] = 0
               PROVE  \/ outcome[i] \in {"cut", "raised"}
                      \/ pushes[i] > 0 /\ \A p \in Promised : parent[p] # i
    BY DEF OpenForAReason
  <2>1. outcome[i] # "none"
    BY DEF Inv, TasksAgree, PromisesAgree, Ids
  <2>2. outcome[i] # "writing"
    BY Http2Assumption DEF Inv, WritesAgree, Quiet
  <2>3. outcome[i] = "sent" => pushes[i] > 0
    BY DEF Inv, WritesAgree
  <2>4. \A p \in Promised : parent[p] # i
    BY Http2Assumption DEF Inv, PromisesAgree, WritesAgree
  <2>5. QED
    BY <2>1, <2>2, <2>3, <2>4 DEF Inv, TypeOK, Outcomes
<1>2. QED
  BY <1>1, Invariance, PTL

(* After END_STREAM neither an octet nor a promise goes out on a stream    *)
(* (hyper.py:110-119, 131).                                                *)
THEOREM EndIsFinal == Spec => NothingAfterEnd
<1> DEFINE Kept(i) == /\ sent'[i] = sent[i]
                      /\ \A p \in Promised : parent'[p] = i => parent[p] = i
<1>1. Inv /\ [Next]_vars => [\A i \in ended : Kept(i)]_vars
  <2> SUFFICES ASSUME Inv, Next, NEW i \in ended
               PROVE  Kept(i)
    OBVIOUS
  <2>1. i \in Ids /\ stream[i] = "closed"
    BY DEF Inv, TypeOK, WritesAgree
  <2>2. CASE SendData
    <3>1. i # writing
      BY <2>1, <2>2 DEF SendData, Inv, WritesAgree
    <3>2. QED
      BY <2>1, <2>2, <3>1 DEF SendData, Inv, TypeOK
  <2>3. ASSUME NEW s \in Streams, NEW n \in Bodies, NEW k \in 0 .. MaxPushes,
               PushReturns(s, n, k)
        PROVE  Kept(i)
    <3>1. CASE MayPush(s)
      BY <2>1, <2>3, <3>1 DEF PushReturns, MayPush, Inv, TypeOK
    <3>2. CASE ~MayPush(s)
      BY <2>3, <3>2 DEF PushReturns
    <3>3. QED
      BY <3>1, <3>2
  <2>4. ASSUME UNCHANGED <<sent, parent>>
        PROVE  Kept(i)
    BY <2>4
  <2>5. ASSUME NEW s \in Streams,
               \/ RequestReceived(s) \/ DataReceived(s) \/ StreamEnded(s) \/ PushFails(s)
               \/ \E n \in Bodies : HandlerFails(s, n)
               \/ \E n \in Bodies, k \in 0 .. MaxPushes : HandlerReturns(s, n, k)
        PROVE  UNCHANGED <<sent, parent>>
    BY <2>5 DEF RequestReceived, DataReceived, StreamEnded, PushFails, HandlerFails,
                HandlerReturns, responses
  <2>6. ASSUME \/ WindowUpdated \/ PushDisabled \/ CutShort \/ SendRaises \/ Over
               \/ \E j \in Ids : StreamReset(j)
        PROVE  UNCHANGED <<sent, parent>>
    BY <2>6 DEF WindowUpdated, PushDisabled, CutShort, SendRaises, Over, StreamReset,
                responses, vars
  <2>7. QED
    BY <2>2, <2>3, <2>4, <2>5, <2>6 DEF Next
<1>2. QED
  BY <1>1, Invariance, PTL DEF Spec, NothingAfterEnd

(* Frames stay in h2's buffer only after a response was cut short: whoever *)
(* leaves the write loop otherwise has just written, and whatever the peer *)
(* sends is followed by a write (hyper.py:124-136).                        *)
THEOREM BufferIsFlushed == Spec => []BufferedMeansCut
<1>1. Init => BufferedMeansCut
  BY DEF Init, BufferedMeansCut
<1>2. Inv /\ BufferedMeansCut /\ [Next]_vars => BufferedMeansCut'
  <2> SUFFICES ASSUME Inv, BufferedMeansCut, [Next]_vars
               PROVE  BufferedMeansCut'
    OBVIOUS
  <2>1. ASSUME buffer' = FALSE PROVE BufferedMeansCut'
    BY <2>1 DEF BufferedMeansCut
  <2>2. ASSUME NEW i \in Ids, writing' = i PROVE BufferedMeansCut'
    BY <2>2, Http2Assumption DEF BufferedMeansCut, Quiet
  <2>3. ASSUME UNCHANGED <<writing, buffer, outcome>> PROVE BufferedMeansCut'
    BY <2>3 DEF BufferedMeansCut, Quiet
  <2>4. ASSUME \/ \E s \in Streams :
                    RequestReceived(s) \/ DataReceived(s) \/ StreamEnded(s)
               \/ \E i \in Ids : StreamReset(i)
               \/ WindowUpdated \/ PushDisabled \/ SendData
        PROVE  buffer' = FALSE
    BY <2>4 DEF RequestReceived, DataReceived, StreamEnded, StreamReset,
                WindowUpdated, PushDisabled, SendData, Written
  <2>5. ASSUME CutShort \/ SendRaises PROVE BufferedMeansCut'
    <3>1. writing \in Ids /\ \E how \in {"cut", "raised"} :
            outcome' = [outcome EXCEPT ![writing] = how]
      BY <2>5 DEF CutShort, SendRaises, Leave, Inv, TypeOK
    <3>2. QED
      BY <3>1 DEF Inv, TypeOK, BufferedMeansCut
  <2>6. ASSUME NEW s \in Streams,
               \/ \E n \in Bodies, k \in 0 .. MaxPushes :
                    HandlerReturns(s, n, k) \/ PushReturns(s, n, k)
               \/ \E n \in Bodies : HandlerFails(s, n)
        PROVE  (\E i \in Ids : writing' = i) \/ UNCHANGED <<writing, buffer, outcome>>
    BY <2>6 DEF HandlerReturns, PushReturns, HandlerFails, Head, Ids
  <2>7. ASSUME (\E s \in Streams : PushFails(s)) \/ Over \/ UNCHANGED vars
        PROVE  UNCHANGED <<writing, buffer, outcome>>
    BY <2>7 DEF PushFails, Over, vars, responses
  <2>8. QED
    BY <2>1, <2>2, <2>3, <2>4, <2>5, <2>6, <2>7 DEF Next
<1>3. QED
  BY <1>1, <1>2, Invariance, PTL DEF Spec

=============================================================================
