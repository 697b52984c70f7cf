---------------------------- MODULE MCConnection ----------------------------
(* Connection on small instances, and what the source says of it.          *)
EXTENDS Connection

(* Three requests are not explored further when one of them has promised a *)
(* push; two are, with all their pushes.                                   *)
Small ==
  received = MaxRequests =>
    \A r \in Requests : \A i \in DOMAIN writes[r] : writes[r][i] # "promising"

(* hyper.py:72 has "# Stop all requests" on the branch that makes          *)
(* data_received call Connection.close: when its loop over self._futures   *)
(* (connection.py:131-132) ends, no request is left.                       *)
StopAllRequests ==
  [][LoopEnd /\ Head(calls).loop = "close" => futures = <<>>]_vars

=============================================================================
