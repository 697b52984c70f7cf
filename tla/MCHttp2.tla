------------------------------- MODULE MCHttp2 -------------------------------
(* Http2 on small instances, and what a comment says.                      *)
EXTENDS Http2, TLC

Symmetry == Permutations(Streams) \cup Permutations(Promised)

(* hyper.py:133: "The stream got closed and we didn't get told. We're done *)
(* here.": the loop is left by an exception only on a closed stream.       *)
RaisedMeansClosed ==
  \A i \in Ids : outcome[i] = "raised" => stream[i] = "closed"

=============================================================================
