-------------------------------- MODULE Http2 --------------------------------
(***************************************************************************)
(* The HTTP/2 side of one connection: levin/core/parsers/hyper.py over the *)
(* h2 library, with the tasks of requests and pushes of                    *)
(* levin/core/connection.py and the pushes of levin/components/h2.py.      *)
(*                                                                         *)
(* The peer opens streams, sends requests in frames of any streams, grows  *)
(* the flow control windows, resets streams and disables push.  Octets of  *)
(* a body are counted, not told apart.  A response is written in one go;   *)
(* the loop of handle_response is a sequence of steps of this module that  *)
(* nothing else interrupts.                                                *)
(***************************************************************************)
EXTENDS Integers, FiniteSets

CONSTANTS
  Streams,      (* the streams the peer opens                              *)
  Promised,     (* the streams the server promises                         *)
  MaxBody,      (* bound on the octets of a body                           *)
  MaxPushes,    (* bound on the pushes of a response                       *)
  Window,       (* the initial window of the connection and of a stream    *)
  MaxFrame,     (* max_outbound_frame_size                                 *)
  MaxGrowth     (* bound on the octets of all WINDOW_UPDATEs               *)

Ids    == Streams \cup Promised
None   == -1
NoId   == "no stream"

ASSUME Http2Assumption ==
  /\ MaxBody \in Nat /\ MaxPushes \in Nat /\ MaxGrowth \in Nat
  /\ Window \in Nat /\ MaxFrame \in Nat \ {0}
  /\ Streams \cap Promised = {}
  /\ NoId \notin Ids

VARIABLES
  stream,       (* h2's state of each stream                               *)
  got,          (* octets of the request the peer has sent                 *)
  partial,      (* Parser._streams: octets so far, None if absent          *)
  handed,       (* octets of the request given to the handler              *)
  task,         (* the task of Connection.handle_request                   *)
  left,         (* its tasks of handle_push that are not over              *)
  body,         (* the response of a stream: octets, ...                   *)
  pushes,       (* ... and pushes                                          *)
  sent,         (* octets of it sent                                       *)
  ended,        (* streams on which END_STREAM was sent                    *)
  outcome,      (* how handle_response left the stream                     *)
  parent,       (* the stream that a promised stream belongs to            *)
  writing,      (* the stream handle_response is at                        *)
  window,       (* the window of each stream                               *)
  connWindow,   (* the window of the connection                            *)
  growth,       (* octets of WINDOW_UPDATEs so far                         *)
  pushOn,       (* Parser.push_support                                     *)
  buffer        (* h2 holds frames that were not written                   *)

requests  == <<got, partial, handed>>
tasks     == <<task, left>>
responses == <<body, pushes, sent, ended, outcome, parent, writing>>
flow      == <<window, connWindow, growth>>
vars      == <<stream, requests, tasks, responses, flow, pushOn, buffer>>

-----------------------------------------------------------------------------

(* "half": the peer's side has ended (half-closed (remote)).               *)
StreamStates == {"idle", "open", "half", "closed"}

(* "cut": the window was exhausted; "raised": h2 refused the frame.        *)
Outcomes == {"none", "writing", "sent", "cut", "raised"}

TaskStates == {"none", "handling", "pushing", "over", "failed"}

TypeOK ==
  /\ stream \in [Ids -> StreamStates]
  /\ got \in [Streams -> 0 .. MaxBody]
  /\ partial \in [Streams -> None .. MaxBody]
  /\ handed \in [Streams -> None .. MaxBody]
  /\ task \in [Streams -> TaskStates]
  /\ left \in [Streams -> 0 .. MaxPushes]
  /\ body \in [Ids -> 0 .. MaxBody]
  /\ pushes \in [Ids -> 0 .. MaxPushes]
  /\ sent \in [Ids -> 0 .. MaxBody]
  /\ ended \in SUBSET Ids
  /\ outcome \in [Ids -> Outcomes]
  /\ parent \in [Promised -> Streams \cup {NoId}]
  /\ writing \in Ids \cup {NoId}
  /\ window \in [Ids -> Nat] /\ connWindow \in Nat
  /\ growth \in 0 .. MaxGrowth
  /\ pushOn \in BOOLEAN /\ buffer \in BOOLEAN

Init ==
  /\ stream = [i \in Ids |-> "idle"]
  /\ got = [s \in Streams |-> 0]
  /\ partial = [s \in Streams |-> None] /\ handed = [s \in Streams |-> None]
  /\ task = [s \in Streams |-> "none"] /\ left = [s \in Streams |-> 0]
  /\ body = [i \in Ids |-> 0] /\ pushes = [i \in Ids |-> 0] /\ sent = [i \in Ids |-> 0]
  /\ ended = {} /\ outcome = [i \in Ids |-> "none"]
  /\ parent = [p \in Promised |-> NoId] /\ writing = NoId
  /\ window = [i \in Ids |-> Window] /\ connWindow = Window /\ growth = 0
  /\ pushOn \in BOOLEAN /\ buffer = FALSE

Quiet == writing = NoId

-----------------------------------------------------------------------------
(* Frames of the peer.  data_received writes what h2 holds afterwards.     *)

RequestReceived(s) ==
  /\ Quiet
  /\ stream[s] = "idle"
  /\ stream' = [stream EXCEPT ![s] = "open"]
  /\ partial' = [partial EXCEPT ![s] = 0]
  /\ buffer' = FALSE
  /\ UNCHANGED <<got, handed, tasks, responses, flow, pushOn>>

(* Mutants of the event's effect: every open stream takes the data; the    *)
(* padding of the frame is counted in.                                     *)
AppendEverywhere(s) ==
  partial' = [t \in Streams |-> IF partial[t] # None THEN partial[t] + 1 ELSE None]

AppendPadded(s) == partial' = [partial EXCEPT ![s] = @ + 2]

AppendBody(s) ==
  partial' = IF partial[s] # None THEN [partial EXCEPT ![s] = @ + 1] ELSE partial

DataReceived(s) ==
  /\ Quiet
  /\ stream[s] = "open"
  /\ got[s] < MaxBody
  /\ got' = [got EXCEPT ![s] = @ + 1]
  /\ AppendBody(s)
  /\ buffer' = FALSE
  /\ UNCHANGED <<stream, handed, tasks, responses, flow, pushOn>>

(* The request is complete: it leaves _streams for a task of its own.      *)
StreamEnded(s) ==
  /\ Quiet
  /\ stream[s] = "open"
  /\ stream' = [stream EXCEPT ![s] = "half"]
  /\ handed' = [handed EXCEPT ![s] = partial[s]]
  /\ partial' = [partial EXCEPT ![s] = None]
  /\ task' = [task EXCEPT ![s] = "handling"]
  /\ buffer' = FALSE
  /\ UNCHANGED <<got, left, responses, flow, pushOn>>

(* RST_STREAM: the event is ignored.                                       *)
StreamReset(i) ==
  /\ Quiet
  /\ stream[i] \in {"open", "half"}
  /\ stream' = [stream EXCEPT ![i] = "closed"]
  /\ buffer' = FALSE
  /\ UNCHANGED <<requests, tasks, responses, flow, pushOn>>

(* WINDOW_UPDATE and a SETTINGS frame that changes ENABLE_PUSH: h2 takes   *)
(* note, and no response is resumed.                                       *)
WindowUpdated ==
  /\ Quiet
  /\ growth < MaxGrowth
  /\ growth' = growth + 1
  /\ \/ connWindow' = connWindow + 1 /\ UNCHANGED window
     \/ \E i \in Ids :
          /\ stream[i] \in {"open", "half"}
          /\ window' = [window EXCEPT ![i] = @ + 1]
          /\ UNCHANGED connWindow
  /\ buffer' = FALSE
  /\ UNCHANGED <<stream, requests, tasks, responses, pushOn>>

PushDisabled ==
  /\ Quiet
  /\ pushOn
  /\ pushOn' = FALSE
  /\ buffer' = FALSE
  /\ UNCHANGED <<stream, requests, tasks, responses, flow>>

-----------------------------------------------------------------------------
(* handle_response.                                                        *)

(* send_headers on stream i, and the loop begins.                          *)
Head(i, n, k) ==
  /\ body' = [body EXCEPT ![i] = n]
  /\ pushes' = [pushes EXCEPT ![i] = k]
  /\ outcome' = [outcome EXCEPT ![i] = "writing"]
  /\ writing' = i
  /\ buffer' = TRUE

Parent(i) == IF i \in Streams THEN i ELSE parent[i]

Least(m, n) == IF m <= n THEN m ELSE n

(* local_flow_control_window: for a pushed response too, that of the       *)
(* request's stream is asked.                                              *)
Room(i) == Least(connWindow, window[i])

Chunk == Least(Least(Room(Parent(writing)), body[writing] - sent[writing]), MaxFrame)

Leave(how) ==
  /\ outcome' = [outcome EXCEPT ![writing] = how]
  /\ writing' = NoId

(* Mutant: the loop goes on with a window of 0.                            *)
ExhaustedLate == Room(Parent(writing)) < 0

Exhausted == Room(Parent(writing)) < 1

CutShort ==
  /\ writing # NoId
  /\ Exhausted
  /\ Leave("cut")
  /\ UNCHANGED <<stream, requests, tasks, body, pushes, sent, ended, parent, flow, pushOn, buffer>>

(* send_data raises FlowControlError on the window of the stream itself.   *)
SendRaises ==
  /\ writing # NoId
  /\ ~Exhausted
  /\ Chunk > Room(writing)
  /\ Leave("raised")
  /\ UNCHANGED <<stream, requests, tasks, body, pushes, sent, ended, parent, flow, pushOn, buffer>>

(* Mutants of send_data's end_stream: it is set on every frame; it is not  *)
(* set on a last frame that takes all of the chunk.                        *)
EndsAlways == pushes[writing] = 0

EndsBeyond == pushes[writing] = 0 /\ Chunk > body[writing] - sent[writing]

Ends == pushes[writing] = 0 /\ Chunk >= body[writing] - sent[writing]

(* Mutant: the frames are written at the start of the next turn.           *)
WrittenLater == buffer' = (Chunk = body[writing] - sent[writing])

Written == buffer' = FALSE

SendData ==
  /\ writing # NoId
  /\ ~Exhausted
  /\ Chunk <= Room(writing)
  /\ sent' = [sent EXCEPT ![writing] = @ + Chunk]
  /\ window' = [window EXCEPT ![writing] = @ - Chunk]
  /\ connWindow' = connWindow - Chunk
  /\ IF Ends
     THEN ended' = ended \cup {writing} /\ stream' = [stream EXCEPT ![writing] = "closed"]
     ELSE UNCHANGED <<ended, stream>>
  /\ Written
  /\ IF Chunk = body[writing] - sent[writing]
     THEN Leave("sent")
     ELSE UNCHANGED <<outcome, writing>>
  /\ UNCHANGED <<requests, tasks, body, pushes, parent, growth, pushOn>>

-----------------------------------------------------------------------------
(* The tasks.                                                              *)

(* The handler returns a response of n octets with k pushes, or fails and  *)
(* the stock 500 is written.  A stream that was reset refuses both.        *)
HandlerReturns(s, n, k) ==
  /\ Quiet
  /\ task[s] = "handling"
  /\ IF stream[s] = "closed"
     THEN /\ task' = [task EXCEPT ![s] = "failed"]
          /\ UNCHANGED <<left, body, pushes, outcome, writing, buffer>>
     ELSE /\ Head(s, n, k)
          /\ IF k > 0 /\ pushOn
             THEN task' = [task EXCEPT ![s] = "pushing"] /\ left' = [left EXCEPT ![s] = k]
             ELSE task' = [task EXCEPT ![s] = "over"] /\ UNCHANGED left
  /\ UNCHANGED <<stream, requests, sent, ended, parent, flow, pushOn>>

HandlerFails(s, n) ==
  /\ Quiet
  /\ task[s] = "handling"
  /\ task' = [task EXCEPT ![s] = "failed"]
  /\ IF stream[s] = "closed"
     THEN UNCHANGED <<body, pushes, outcome, writing, buffer>>
     ELSE Head(s, n, 0)
  /\ UNCHANGED <<stream, requests, left, sent, ended, parent, flow, pushOn>>

(* gather is over with its last push, or at once with a failed one.        *)
PushOver(s, failed) ==
  /\ left' = [left EXCEPT ![s] = @ - 1]
  /\ task' = IF task[s] # "pushing" THEN task
             ELSE IF failed         THEN [task EXCEPT ![s] = "failed"]
             ELSE IF left[s] = 1    THEN [task EXCEPT ![s] = "over"]
                                    ELSE task

(* Mutant: a stream that has ended does not keep h2 from promising.        *)
MayPushAnyway(s) == pushOn

(* push_stream raises ProtocolError when the peer has disabled push or the *)
(* stream is closed.                                                       *)
MayPush(s) == pushOn /\ stream[s] # "closed"

(* A pushed response of n octets with k pushes of its own.  PUSH_PROMISE   *)
(* and END_STREAM go out on the request's stream, HEADERS on the promised  *)
(* one; what h2 refuses to promise is dropped.                             *)
PushReturns(s, n, k) ==
  /\ Quiet
  /\ left[s] > 0
  /\ PushOver(s, FALSE)
  /\ IF MayPush(s)
     THEN \E p \in Promised :
            /\ stream[p] = "idle"
            /\ parent' = [parent EXCEPT ![p] = s]
            /\ stream' = [stream EXCEPT ![s] = "closed", ![p] = "half"]
            /\ ended' = ended \cup {s}
            /\ Head(p, n, k)
     ELSE UNCHANGED <<stream, ended, parent, body, pushes, outcome, writing, buffer>>
  /\ UNCHANGED <<requests, sent, flow, pushOn>>

(* A failed push: the 500 that follows is a second HEADERS for the stream  *)
(* and is refused by h2.                                                   *)
PushFails(s) ==
  /\ Quiet
  /\ left[s] > 0
  /\ PushOver(s, TRUE)
  /\ UNCHANGED <<stream, requests, responses, flow, pushOn, buffer>>

-----------------------------------------------------------------------------

(* The peer has nothing more to send and the tasks are over.               *)
Over ==
  /\ Quiet
  /\ \A s \in Streams : stream[s] # "open" /\ task[s] # "handling" /\ left[s] = 0
  /\ UNCHANGED vars

Bodies == 0 .. MaxBody

Next ==
  \/ \E s \in Streams :
       \/ RequestReceived(s)
       \/ DataReceived(s)
       \/ StreamEnded(s)
       \/ \E n \in Bodies, k \in 0 .. MaxPushes : HandlerReturns(s, n, k)
       \/ \E n \in Bodies : HandlerFails(s, n)
       \/ \E n \in Bodies, k \in 0 .. MaxPushes : PushReturns(s, n, k)
       \/ PushFails(s)
  \/ \E i \in Ids : StreamReset(i)
  \/ WindowUpdated
  \/ PushDisabled
  \/ CutShort
  \/ SendRaises
  \/ SendData
  \/ Over

Spec == Init /\ [][Next]_vars

(* The loop of handle_response runs without an await.                      *)
FairSpec == Spec /\ WF_vars(CutShort \/ SendRaises \/ SendData)

-----------------------------------------------------------------------------
(* Properties.                                                             *)

(* A handler gets the whole body the peer sent on its stream, whatever     *)
(* frames of other streams came in between (hyper.py:63-70).               *)
RequestWhole == \A s \in Streams : handed[s] # None => handed[s] = got[s]

(* A response without pushes ends its stream only when the whole body went *)
(* out; one with pushes leaves the end to a pushed response                *)
(* (hyper.py:119, 131).                                                    *)
EndedIsWhole ==
  \A i \in ended :
    \/ pushes[i] = 0 /\ sent[i] = body[i]
    \/ pushes[i] > 0 /\ \E p \in Promised : parent[p] = i

(* When nothing is left to do for a request, its stream and those promised *)
(* for it are closed, unless the window was exhausted, h2 refused a frame, *)
(* or pushes were announced of which none was promised (hyper.py:101-139,  *)
(* connection.py:108-120).                                                 *)
OpenForAReason ==
  \A i \in Ids :
    /\ stream[i] = "half" /\ Quiet
    /\ i \in Streams => task[i] \in {"over", "failed"} /\ left[i] = 0
    => \/ outcome[i] \in {"cut", "raised"}
       \/ pushes[i] > 0 /\ \A p \in Promised : parent[p] # i

(* Frames stay in the buffer of h2 only after a response was cut short     *)
(* (hyper.py:124-136).                                                     *)
BufferedMeansCut ==
  Quiet /\ buffer => \E i \in Ids : outcome[i] \in {"cut", "raised"}

(* After END_STREAM no octet and no promise goes out on a stream, although *)
(* the tasks of several pushes share it (hyper.py:110-119, 131).           *)
NothingAfterEnd ==
  [][\A i \in ended :
       /\ sent'[i] = sent[i]
       /\ \A p \in Promised : parent'[p] = i => parent[p] = i]_vars

(* The loop over the frames of a response comes to an end, whatever the    *)
(* windows are (hyper.py:123-139).                                         *)
WriteEnds == writing # NoId ~> Quiet

=============================================================================
