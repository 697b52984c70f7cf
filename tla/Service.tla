------------------------------- MODULE Service -------------------------------
(***************************************************************************)
(* What one call of run promises for the components of its applications    *)
(* and for its servers, however the loops over them are written:           *)
(*   - the components of an application start in order, each once, and one *)
(*     application at a time;                                              *)
(*   - servers open when every component in use has started or is disabled *)
(*     and never open again;                                               *)
(*   - the components that started are stopped in order, one application   *)
(*     at a time, and no others are;                                       *)
(*   - servers are closed when no component is left to stop;               *)
(*   - the run is over when no component is left to stop, unless one       *)
(*     raised or no server has opened.                                     *)
(***************************************************************************)
EXTENDS Naturals

CONSTANTS
  Servers,
  Apps,
  Components   (* of an application, in order                              *)

VARIABLES
  appOf,       (* the application of each server                           *)
  stage,       (* of the run; "failing" after a component raised in stop   *)
  life,        (* of each component                                        *)
  door         (* of each server                                           *)

vars == <<appOf, stage, life, door>>

TypeOK ==
  /\ appOf \in [Servers -> Apps]
  /\ stage \in {"starting", "serving", "failing", "over"}
  /\ life \in [Apps -> [Components -> {"new", "up", "disabled", "down"}]]
  /\ door \in [Servers -> {"new", "open", "shut"}]

Used == {appOf[s] : s \in Servers}

Decided   == \A a \in Used, c \in Components : life[a][c] # "new"
NothingUp == \A a \in Used, c \in Components : life[a][c] # "up"

(* No application but a is half started, and none is half stopped.         *)
StartsAlone(a) ==
  \A b \in Apps \ {a} : \/ \A c \in Components : life[b][c] = "new"
                        \/ \A c \in Components : life[b][c] # "new"
StopsAlone(a) ==
  \A b \in Apps \ {a} : \/ \A c \in Components : life[b][c] # "down"
                        \/ \A c \in Components : life[b][c] # "up"

Init ==
  /\ appOf \in [Servers -> Apps]
  /\ stage = "starting"
  /\ life = [a \in Apps |-> [c \in Components |-> "new"]]
  /\ door = [s \in Servers |-> "new"]

Start(a, c) ==
  /\ stage = "starting"
  /\ life[a][c] = "new"
  /\ \A d \in Components : d < c => life[a][d] # "new"
  /\ StartsAlone(a)
  /\ \E end \in {"up", "disabled"} : life' = [life EXCEPT ![a][c] = end]
  /\ UNCHANGED <<appOf, stage, door>>

(* A component raised.                                                     *)
StartFails ==
  /\ stage = "starting"
  /\ ~Decided
  /\ stage' = "over"
  /\ UNCHANGED <<appOf, life, door>>

Serve ==
  /\ stage = "starting"
  /\ Decided
  /\ stage' = "serving"
  /\ UNCHANGED <<appOf, life, door>>

Open(s) ==
  /\ stage \in {"serving", "failing"}
  /\ door[s] = "new"
  /\ door' = [door EXCEPT ![s] = "open"]
  /\ UNCHANGED <<appOf, stage, life>>

Stop(a, c) ==
  /\ stage = "serving"
  /\ life[a][c] = "up"
  /\ \A d \in Components : d < c => life[a][d] # "up"
  /\ StopsAlone(a)
  /\ life' = [life EXCEPT ![a][c] = "down"]
  /\ UNCHANGED <<appOf, stage, door>>

StopFails ==
  /\ stage = "serving"
  /\ stage' = "failing"
  /\ UNCHANGED <<appOf, life, door>>

Shut(S) ==
  /\ stage = "serving"
  /\ NothingUp
  /\ \A s \in S : door[s] = "open"
  /\ door' = [s \in Servers |-> IF s \in S THEN "shut" ELSE door[s]]
  /\ UNCHANGED <<appOf, stage, life>>

End ==
  /\ \/ stage = "failing"
     \/ stage = "serving" /\ (NothingUp \/ \A s \in Servers : door[s] = "new")
  /\ stage' = "over"
  /\ UNCHANGED <<appOf, life, door>>

Next ==
  \/ \E a \in Used, c \in Components : Start(a, c) \/ Stop(a, c)
  \/ StartFails \/ Serve \/ StopFails \/ End
  \/ \E s \in Servers : Open(s)
  \/ \E S \in SUBSET Servers : Shut(S)

Spec == Init /\ [][Next]_vars

=============================================================================
