------------------------------- MODULE Http1 --------------------------------
(* HTTP/1 on a connection: how chunks of data become requests, whatever    *)
(* the network makes of the messages, and how the responses come back      *)
(* (core/parsers/http_simple.py, http_tools.py, the HTTP/1 part of         *)
(* hyper.py and the choice between the three in core/connection.py).       *)
(*                                                                         *)
(* A message is a sequence of lines, told apart by their kinds; the        *)
(* network may cut it anywhere, in the middle of a line too. Parsers keep  *)
(* nothing between chunks: each chunk is read as if it were a message.     *)
EXTENDS Naturals, Sequences, SequencesExt

CONSTANTS
  Shapes,       (* the messages a client may send: sequences of kinds      *)
  MaxMessages   (* bound on the messages of a connection                   *)

(* "start" is a request line; "field" is any header, "upgrade" the header  *)
(* Upgrade: h2c, "settings" HTTP2-Settings; "nocolon" cannot be a header;  *)
(* "text" is a line of a body, "quote" one that has one request line in it *)
(* and is none: "see GET /b HTTP/1.1". No other line has one in it.        *)
Headers == {"field", "upgrade", "settings"}
Kinds   == Headers \cup {"start", "nocolon", "blank", "text", "quote"}

(* What else a piece of a line can be: "odd" has the three segments of a   *)
(* request line and no known method ("ET /a HTTP/1.1"), "target" ends      *)
(* inside the path of a request line, "method" before it.                  *)
Pieces == {"odd", "target", "method"}

ASSUME Http1Assumption ==
  /\ MaxMessages \in Nat \ {0}
  /\ \A s \in Shapes : s \in Seq(Kinds) /\ s # <<>>

VARIABLES
  patient,   (* whether the client waits for each response                 *)
  sent,      (* the messages sent so far, in order                         *)
  wire,      (* lines on their way to the server                           *)
  parser,    (* self._parser of the connection                             *)
  requests,  (* the requests given to handlers, in order                   *)
  running,   (* those whose handler has not ended, by position             *)
  answers,   (* responses written: to which request, and whether whole     *)
  up         (* whether the transport is open                              *)

vars == <<patient, sent, wire, parser, requests, running, answers, up>>

(* A line knows the message it belongs to and whether it is its last: what *)
(* Content-Length, or its absence, tells a parser that heeds it. The front *)
(* of a line that was cut has no end.                                      *)
Lines == [of : 1..MaxMessages, kind : Kinds \cup Pieces, last : BOOLEAN,
          part : {"whole", "front", "back"}]

Message(m, shape) ==
  [i \in DOMAIN shape |->
     [of |-> m, kind |-> shape[i], last |-> i = Len(shape), part |-> "whole"]]

(* The two pieces a cut makes of a line: both parsers end the last line of *)
(* a chunk with the chunk, and a cut before or within CR LF leaves a blank *)
(* line behind. A cut in the value of HTTP2-Settings spoils it, which      *)
(* raises as a line without colon does, or leaves settings.                *)
Cuts(kind) ==
  CASE kind = "start"    -> {<<"start", "text">>, <<"start", "blank">>,
                             <<"target", "text">>, <<"method", "text">>,
                             <<"method", "odd">>, <<"method", "start">>}
    [] kind = "field"    -> {"field", "nocolon"} \X {"text", "blank"}
    [] kind = "upgrade"  -> {<<"upgrade", "blank">>, <<"field", "text">>,
                             <<"nocolon", "text">>}
    [] kind = "settings" -> {<<"settings", "blank">>, <<"settings", "text">>,
                             <<"field", "text">>, <<"nocolon", "text">>}
    [] kind = "nocolon"  -> {"nocolon"} \X {"text", "blank"}
    [] kind = "text"     -> {"text"} \X {"text", "blank"}
    [] kind = "quote"    -> {<<"quote", "blank">>, <<"text", "text">>,
                             <<"text", "start">>, <<"start", "text">>}
    [] OTHER             -> {<<"blank", "blank">>}

FirstPiece(l, cut)  == [l EXCEPT !.kind = cut[1], !.last = FALSE, !.part = "front"]
SecondPiece(l, cut) == [l EXCEPT !.kind = cut[2], !.part = "back"]

-----------------------------------------------------------------------------

(* What a parser has made of the lines so far. "refused" is ParseError,    *)
(* "raised" any other exception; done counts messages that are complete.   *)
NothingRead ==
  [state |-> "start", first |-> <<>>, head |-> <<>>, body |-> <<>>, done |-> 0]

Read(l, m, state) == [m EXCEPT !.state = state, !.first = <<l>>]
AddHeader(l, m)   == [m EXCEPT !.head = Append(@, l)]
AddBody(l, m)     == [m EXCEPT !.body = Append(@, l)]
Fail(m, state)    == [m EXCEPT !.state = state]

(* Mutant: blank lines inside a body are skipped.                          *)
SimpleLineSkipsBlank(m, l) ==
  CASE m.state = "start" -> IF l.kind \in {"start", "odd"} THEN Read(l, m, "head")
                                                          ELSE Fail(m, "refused")
    [] m.state = "head" ->
         CASE l.kind = "blank"   -> Fail(m, "body")
           [] l.kind \in Headers -> AddHeader(l, m)
           [] OTHER              -> Fail(m, "raised")
    [] m.state = "body" /\ l.kind # "blank" -> AddBody(l, m)
    [] OTHER -> m

(* Mutant: the request line is split without a look at its segments.       *)
SimpleLineUnchecked(m, l) ==
  CASE m.state = "start" -> Read(l, m, "head")
    [] m.state = "head" /\ l.kind \in Headers -> AddHeader(l, m)
    [] m.state = "head" /\ l.kind \notin Headers \cup {"blank"} -> Fail(m, "raised")
    [] m.state \in {"head", "body"} /\ l.kind = "blank" ->
         [m EXCEPT !.state = "body", !.body = <<>>]
    [] m.state = "body" /\ l.kind # "blank" -> AddBody(l, m)
    [] OTHER -> m

(* http_simple.py: every blank line begins the body anew, and what comes   *)
(* after one is body to the end of the chunk.                              *)
SimpleLine(m, l) ==
  CASE m.state = "start" -> IF l.kind \in {"start", "odd"} THEN Read(l, m, "head")
                                                          ELSE Fail(m, "refused")
    [] m.state \in {"head", "body"} /\ l.kind = "blank" ->
         [m EXCEPT !.state = "body", !.body = <<>>]
    [] m.state = "head" /\ l.kind \in Headers -> AddHeader(l, m)
    [] m.state = "head" /\ l.kind \notin Headers \cup {"blank"} -> Fail(m, "raised")
    [] m.state = "body" /\ l.kind # "blank" -> AddBody(l, m)
    [] OTHER -> m

Simple(chunk) == FoldLeft(SimpleLine, NothingRead, chunk)

(* http_tools.py: httptools reads one message after the other into the     *)
(* same _PRequest: paths and bodies replace, headers add up. It accepts    *)
(* blank lines before a message and stops at an upgrade; it calls back for *)
(* the path and the body it has at the end of a chunk, never for a header  *)
(* whose end is missing.                                                   *)
EndMessage(m) ==
  IF \E i \in DOMAIN m.head : m.head[i].kind = "upgrade"
  THEN Fail(m, "raised")
  ELSE [m EXCEPT !.state = "start", !.done = @ + 1]

ToolsLine(m, l) ==
  CASE m.state \in {"refused", "raised"} -> m
    [] m.state = "start" ->
         CASE l.kind \in {"start", "target"} -> Read(l, m, "head")
           [] l.kind \in {"blank", "method"} -> m
           [] OTHER                          -> Fail(m, "refused")
    [] m.state = "head" /\ l.part = "front" -> m
    [] m.state = "head" /\ l.part # "front" ->
         CASE l.kind \in Headers -> AddHeader(l, m)
           [] l.kind = "blank"   ->
                IF l.last THEN EndMessage(m)
                          ELSE [m EXCEPT !.state = "body", !.body = <<>>]
           [] OTHER              -> Fail(m, "raised")
    [] m.state = "body" ->
         IF l.last THEN EndMessage(AddBody(l, m)) ELSE AddBody(l, m)

Tools(chunk) == FoldLeft(ToolsLine, NothingRead, chunk)

(* When a parser returns a request. The simple one needs no more than a    *)
(* request line.                                                           *)
SimpleReturns(m) == m.state \in {"head", "body"}
ToolsReturns(m)  == m.done > 0 /\ m.state \notin {"refused", "raised"}

(* hyper.py: data that is no HTTP/2 preface is read by the simple parser   *)
(* and taken only with both headers of an upgrade.                         *)
UpgradeReturns(m) ==
  /\ SimpleReturns(m)
  /\ {"upgrade", "settings"} \subseteq {m.head[i].kind : i \in DOMAIN m.head}

(* The parsers in the order of server.py:34.                               *)
Parsers == <<"http2", "simple", "tools">>

(* Connection._parse: the first parser that does not refuse is kept. An    *)
(* exception other than ParseError ends the search, and so the connection. *)
Choice(chunk) ==
  LET simple == Simple(chunk)
      raised == parser = "none" /\ simple.state = "raised"
      takes  == [p \in {"http2", "simple", "tools"} |->
                   CASE p = "http2"  -> parser = "none" /\ UpgradeReturns(simple)
                     [] p = "simple" -> parser \in {"none", p} /\ SimpleReturns(simple)
                     [] p = "tools"  -> parser \in {"none", p} /\ ToolsReturns(Tools(chunk))]
      first  == SelectInSeq(Parsers, LAMBDA p : takes[p])
  IN IF raised \/ first = 0 THEN "none" ELSE Parsers[first]

Parsed(chunk) == IF Choice(chunk) = "tools" THEN Tools(chunk) ELSE Simple(chunk)

-----------------------------------------------------------------------------

Init ==
  /\ patient \in BOOLEAN
  /\ sent = <<>>
  /\ wire = <<>>
  /\ parser = "none"
  /\ requests = <<>>
  /\ running = {}
  /\ answers = <<>>
  /\ up = TRUE

(* A patient client has got a response to each message it sent.            *)
Satisfied ==
  /\ Len(answers) = Len(sent)
  /\ \A i \in DOMAIN answers : answers[i].whole

(* The client sends a message; after an upgrade it speaks HTTP/2.          *)
Send(shape) ==
  /\ up
  /\ parser # "http2"
  /\ Len(sent) < MaxMessages
  /\ patient => Satisfied
  /\ LET m == Message(Len(sent) + 1, shape) IN
       /\ sent' = Append(sent, m)
       /\ wire' = wire \o m
  /\ UNCHANGED <<patient, parser, requests, running, answers, up>>

(* The network cuts a line in two: it will deliver the first piece at the  *)
(* end of a chunk and the second at the beginning of another. No line is   *)
(* cut twice, and none while the piece of another is on its way.           *)
Cut(i, cut) ==
  /\ up
  /\ \A j \in DOMAIN wire : wire[j].part # "front"
  /\ wire[i].part = "whole"
  /\ wire' = SubSeq(wire, 1, i - 1) \o <<FirstPiece(wire[i], cut), SecondPiece(wire[i], cut)>>
               \o SubSeq(wire, i + 1, Len(wire))
  /\ UNCHANGED <<patient, sent, parser, requests, running, answers, up>>

(* Mutant: data that no parser takes is dropped in silence.                *)
DeliverIgnores(n) ==
  /\ up
  /\ n <= Len(wire)
  /\ \A i \in 1..(n - 1) : wire[i].part # "front"
  /\ LET chunk == SubSeq(wire, 1, n)
         by    == Choice(chunk)
         read  == Parsed(chunk)
     IN /\ wire' = SubSeq(wire, n + 1, Len(wire))
        /\ IF by = "none"
           THEN UNCHANGED <<parser, requests, running>>
           ELSE /\ parser' = by
                /\ requests' = Append(requests, [first |-> read.first[1],
                                                 head  |-> read.head,
                                                 body  |-> read.body])
                /\ running' = running \cup {Len(requests) + 1}
  /\ UNCHANGED <<patient, sent, answers, up>>

(* data_received: the network hands over the first n lines, where a line   *)
(* without its end can only be the last. Whatever is no request raises in  *)
(* data_received, and asyncio aborts the transport.                        *)
Deliver(n) ==
  /\ up
  /\ n <= Len(wire)
  /\ \A i \in 1..(n - 1) : wire[i].part # "front"
  /\ LET chunk == SubSeq(wire, 1, n)
         by    == Choice(chunk)
         read  == Parsed(chunk)
     IN /\ wire' = SubSeq(wire, n + 1, Len(wire))
        /\ IF by = "none"
           THEN /\ up' = FALSE
                /\ running' = {}
                /\ UNCHANGED <<parser, requests>>
           ELSE /\ parser' = by
                /\ requests' = Append(requests, [first |-> read.first[1],
                                                 head  |-> read.head,
                                                 body  |-> read.body])
                /\ running' = running \cup {Len(requests) + 1}
                /\ UNCHANGED up
  /\ UNCHANGED <<patient, sent, answers>>

(* Mutant: positions are counted from the request that comes next.         *)
AnswerNext(i, outcome) ==
  /\ up
  /\ i \in running
  /\ running' = running \ {i}
  /\ answers' = Append(answers, [to |-> i + 1, whole |-> outcome # "open"])
  /\ UNCHANGED <<patient, sent, wire, parser, requests, up>>

(* The handler of a request ends and handle_response writes. Over HTTP/1 a *)
(* response without a body has neither Content-Length nor, unless it has   *)
(* no header either, the blank line that ends its headers: "open".         *)
Outcomes == {"body", "bare", "open"}

Answer(i, outcome) ==
  /\ up
  /\ i \in running
  /\ running' = running \ {i}
  /\ answers' = Append(answers,
       [to |-> i, whole |-> outcome # "open" \/ parser = "http2"])
  /\ UNCHANGED <<patient, sent, wire, parser, requests, up>>

(* Nothing is left to do: all is sent and served, or the connection is     *)
(* down, or the client waits for an end of a response that never comes.    *)
Over ==
  /\ up => wire = <<>> /\ running = {}
  /\ UNCHANGED vars

Next ==
  \/ \E shape \in Shapes : Send(shape)
  \/ \E i \in DOMAIN wire : \E cut \in Cuts(wire[i].kind) : Cut(i, cut)
  \/ \E n \in 1..Len(wire) : Deliver(n)
  \/ \E i \in running, outcome \in Outcomes : Answer(i, outcome)
  \/ Over

Spec == Init /\ [][Next]_vars

(* The network delivers what was sent and handlers end; the client owes    *)
(* nothing.                                                                *)
Fairness ==
  /\ WF_vars(\E n \in 1..Len(wire) : Deliver(n))
  /\ WF_vars(\E i \in running, outcome \in Outcomes : Answer(i, outcome))

FairSpec == Spec /\ Fairness

-----------------------------------------------------------------------------

(* The types of the variables.                                             *)
TypeOK ==
  /\ patient \in BOOLEAN
  /\ sent \in Seq(Seq(Lines))
  /\ wire \in Seq(Lines)
  /\ parser \in {"none", "simple", "tools", "http2"}
  /\ requests \in Seq([first : Lines, head : Seq(Lines), body : Seq(Lines)])
  /\ running \subseteq DOMAIN requests
  /\ answers \in Seq([to : DOMAIN requests, whole : BOOLEAN])
  /\ up \in BOOLEAN

(* At most one line of a message reads like a request line, or has a piece *)
(* that does. At the beginning of a chunk a line of a body that does is    *)
(* taken for one, and nothing the parsers keep could tell.                 *)
RequestLines == {"start", "odd", "target", "quote"}

Plain(m) ==
  \A i, j \in DOMAIN m : m[i].kind \in RequestLines /\ m[j].kind \in RequestLines => i = j

AllPlain == \A k \in DOMAIN sent : Plain(sent[k])

(* The first and the last line of some kinds, 0 where there is none.       *)
FirstOf(s, kinds) == SelectInSeq(s, LAMBDA l : l.kind \in kinds)
LastOf(s, kinds)  == SelectLastInSeq(s, LAMBDA l : l.kind \in kinds)

IsReadingOf(q, s, by) ==
  LET start == FirstOf(s, RequestLines)
      rest  == SubSeq(s, start + 1, Len(s))
      blank == FirstOf(rest, {"blank"})
      from  == IF by = "tools" THEN blank ELSE LastOf(rest, {"blank"})
  IN /\ start > 0
     /\ q.first = s[start]
     /\ q.head = IF blank = 0 THEN rest ELSE SubSeq(rest, 1, blank - 1)
     /\ q.body = IF blank = 0 THEN <<>> ELSE SubSeq(rest, from + 1, Len(rest))

(* What has arrived of a message: whole lines, then perhaps the front of   *)
(* the next.                                                               *)
Fronts(l) == {FirstPiece(l, cut) : cut \in Cuts(l.kind)}

Beginnings(m) ==
  {SubSeq(m, 1, n) : n \in DOMAIN m}
  \cup UNION {{Append(SubSeq(m, 1, n - 1), f) : f \in Fronts(m[n])} : n \in DOMAIN m}

(* However the network cuts and joins the messages of a patient client, a  *)
(* handler sees one message, or the beginning of one that arrived in parts:*)
(* its request line, its headers up to the cut, and of its body what comes *)
(* after the last blank line up to the cut (http_simple.py:19-31).         *)
ReadsOneMessage ==
  patient /\ AllPlain =>
    \A i \in DOMAIN requests :
      \E s \in Beginnings(sent[requests[i].first.of]) :
        IsReadingOf(requests[i], s, parser)

(* No message makes two requests, whoever sends it and however it is cut:  *)
(* a handler that has seen its beginning never runs again for the rest. So *)
(* the n-th response a patient client reads is to the n-th message it sent *)
(* (http_simple.py:20-37, connection.py:91-101).                           *)
OnceAndInOrder ==
  AllPlain =>
    /\ \A i, j \in DOMAIN requests :
         i # j => requests[i].first.of # requests[j].first.of
    /\ patient => \A n \in DOMAIN answers : requests[answers[n].to].first.of = n

(* Every message of a patient client is answered, unless the connection    *)
(* goes down: no cut leaves the client waiting on an open connection.      *)
PatientServed ==
  \A k \in 1..MaxMessages :
    patient /\ Len(sent) = k ~> Len(answers) >= k \/ ~up

=============================================================================
