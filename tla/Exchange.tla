------------------------------ MODULE Exchange ------------------------------
(***************************************************************************)
(* What a connection promises for the requests of its client, whatever     *)
(* their number and the order in which the client, the handlers and the    *)
(* network act:                                                            *)
(*   - requests are accepted only while the link is up;                    *)
(*   - a request is decided once: answered (the head of a response has     *)
(*     been sent to the client), dropped, or finished in silence;          *)
(*   - while the link is up no request is dropped, and a request finishes  *)
(*     in silence only if it was waived before: it can no longer be        *)
(*     answered, as a rule because its client has taken it back;           *)
(*   - a request that was answered is not waived, one that was waived is   *)
(*     not answered;                                                       *)
(*   - the link goes down once and never comes back.                       *)
(***************************************************************************)
CONSTANT Requests

VARIABLES
  link,     (* the client's link: not yet there, up, or down               *)
  status,   (* what became of each request                                 *)
  waived    (* the requests that cannot be answered any more               *)

vars == <<link, status, waived>>

Links == {"new", "up", "down"}

Statuses == {"unseen", "open", "answered", "dropped", "silent"}

TypeOK ==
  /\ link \in Links
  /\ status \in [Requests -> Statuses]
  /\ waived \in SUBSET Requests

Init ==
  /\ link = "new"
  /\ status = [r \in Requests |-> "unseen"]
  /\ waived = {}

Open ==
  /\ link = "new"
  /\ link' = "up"
  /\ UNCHANGED <<status, waived>>

(* More requests, which have arrived and have not been answered.           *)
Waive ==
  /\ waived \subseteq waived'
  /\ \A r \in waived' \ waived :
       r \in Requests /\ status'[r] \in {"open", "dropped"}

Accept ==
  /\ link = "up"
  /\ \E R \in SUBSET {r \in Requests : status[r] = "unseen"} :
       status' = [r \in Requests |-> IF r \in R THEN "open" ELSE status[r]]
  /\ Waive
  /\ UNCHANGED link

(* How a request may end.                                                  *)
Ends(r) ==
  {end \in {"answered", "silent"} :
     /\ end = "answered" => r \notin waived
     /\ end = "silent" => r \in waived \/ link = "down"}

(* A finished request may be the last the client wants.                    *)
Finish(r) ==
  /\ status[r] = "open"
  /\ link # "new"
  /\ \E end \in Ends(r) : status' = [status EXCEPT ![r] = end]
  /\ link' \in {link, "down"}
  /\ UNCHANGED waived

Drop(r) ==
  /\ link = "down"
  /\ status[r] = "open"
  /\ status' = [status EXCEPT ![r] = "dropped"]
  /\ UNCHANGED <<link, waived>>

HangUp ==
  /\ link = "up"
  /\ link' = "down"
  /\ Waive
  /\ UNCHANGED status

TakeBack ==
  /\ link # "new"
  /\ Waive
  /\ UNCHANGED <<link, status>>

Next ==
  \/ Open
  \/ Accept
  \/ \E r \in Requests : Finish(r) \/ Drop(r)
  \/ HangUp
  \/ TakeBack

Spec == Init /\ [][Next]_vars

=============================================================================
