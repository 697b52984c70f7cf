------------------------- MODULE ApplicationProofs --------------------------
(***************************************************************************)
(* Proofs about Application for any requests, routes and configurations.   *)
(***************************************************************************)
EXTENDS Application, NumberLemmas, SequenceTheorems

(* The shape of the functions that actions update.                         *)
Shapes ==
  /\ phase \in [Requests -> {"idle", "running", "failing", "cancelled", "stubborn",
                            "answered"}]
  /\ scope = [r \in Requests |-> scope[r]]
  /\ answer = [r \in Requests |-> answer[r]]

(* The lock is held by one request, which is on its way.                   *)
LockHeld ==
  /\ OneProfile
  /\ lock # NoOne => lock \in Requests /\ OnItsWay(lock)

-----------------------------------------------------------------------------
(* Scopes.                                                                 *)

(* What is set stays set, and as it was (core/common.py:90-94).            *)
LEMMA SetAllKeeps ==
  ASSUME NEW s, NEW keys, NEW owner, NEW k \in DOMAIN s
  PROVE  k \in DOMAIN SetAll(s, keys, owner) /\ SetAll(s, keys, owner)[k] = s[k]
BY DEF SetAll

(* What was not set is set by the one who asks for it.                     *)
LEMMA SetAllAdds ==
  ASSUME NEW s, NEW keys, NEW owner, NEW k \in keys, k \notin DOMAIN s
  PROVE  k \in DOMAIN SetAll(s, keys, owner) /\ SetAll(s, keys, owner)[k] = owner
BY DEF SetAll

(* Nothing but the keys asked for is added.                                *)
LEMMA SetAllDomain ==
  ASSUME NEW s, NEW keys, NEW owner
  PROVE  DOMAIN SetAll(s, keys, owner) = DOMAIN s \cup keys
BY DEF SetAll

(* The keys of a scope that components have put there.                     *)
Kept(s) ==
  /\ "logger" \in on => "logger" \in DOMAIN s /\ s["logger"] = "logger"
  /\ "patch_request" \in on =>
       \A k \in Patched : k \in DOMAIN s /\ s[k] = "patch_request"
  /\ "push" \in on => "add_push" \in DOMAIN s /\ s["add_push"] = "push"

(* Before the router every enabled component has set its keys: no two of   *)
(* them have a key in common.                                              *)
LEMMA OuterKept == Kept(Outer)
<1> DEFINE s0 == SetAll(<<>>, {"get_transport_info"}, "connection")
           s1 == SetIf("patch_request" \in on, s0, Patched, "patch_request")
           s2 == SetIf("push" \in on, s1, {"add_push"}, "push")
           s3 == SetIf("logger" \in on, s2, {"logger"}, "logger")
<1>0. Outer = s3
  BY DEF Outer
<1>1. DOMAIN s0 = {"get_transport_info"}
  <2>1. DOMAIN <<>> = {}
    OBVIOUS
  <2> QED  BY <2>1, SetAllDomain
<1> HIDE DEF s0
<1>2. /\ DOMAIN s1 \subseteq {"get_transport_info"} \cup Patched
      /\ "patch_request" \in on => \A k \in Patched : k \in DOMAIN s1 /\ s1[k] = "patch_request"
  <2>1. \A k \in Patched : k \notin DOMAIN s0
    BY <1>1 DEF Patched
  <2>2. CASE "patch_request" \in on
    <3>1. s1 = SetAll(s0, Patched, "patch_request")
      BY <2>2 DEF SetIf
    <3>2. DOMAIN s1 = DOMAIN s0 \cup Patched
      BY <3>1, SetAllDomain
    <3>3. ASSUME NEW k \in Patched PROVE k \in DOMAIN s1 /\ s1[k] = "patch_request"
      BY <3>1, <2>1, SetAllAdds
    <3> HIDE DEF s1
    <3> QED  BY <3>2, <3>3, <1>1
  <2>3. CASE "patch_request" \notin on
    <3>1. s1 = s0
      BY <2>3 DEF SetIf
    <3> HIDE DEF s1
    <3> QED  BY <3>1, <2>3, <1>1
  <2> QED  BY <2>2, <2>3
<1> HIDE DEF s1
<1>3. /\ DOMAIN s2 \subseteq {"get_transport_info", "add_push"} \cup Patched
      /\ "patch_request" \in on => \A k \in Patched : k \in DOMAIN s2 /\ s2[k] = "patch_request"
      /\ "push" \in on => "add_push" \in DOMAIN s2 /\ s2["add_push"] = "push"
  <2>1. \A k \in {"add_push"} : k \notin DOMAIN s1
    BY <1>2 DEF Patched
  <2>2. CASE "push" \in on
    <3>1. s2 = SetAll(s1, {"add_push"}, "push")
      BY <2>2 DEF SetIf
    <3>2. DOMAIN s2 = DOMAIN s1 \cup {"add_push"}
      BY <3>1, SetAllDomain
    <3>3. "add_push" \in DOMAIN s2 /\ s2["add_push"] = "push"
      BY <3>1, <2>1, SetAllAdds
    <3>4. ASSUME NEW k \in DOMAIN s1 PROVE k \in DOMAIN s2 /\ s2[k] = s1[k]
      BY <3>1, SetAllKeeps
    <3> HIDE DEF s2
    <3> QED  BY <3>2, <3>3, <3>4, <1>2
  <2>3. CASE "push" \notin on
    <3>1. s2 = s1
      BY <2>3 DEF SetIf
    <3> HIDE DEF s2
    <3> QED  BY <3>1, <2>3, <1>2
  <2> QED  BY <2>2, <2>3
<1> HIDE DEF s2
<1>4. Kept(s3)
  <2>1. \A k \in {"logger"} : k \notin DOMAIN s2
    BY <1>3 DEF Patched
  <2>2. CASE "logger" \in on
    <3>1. s3 = SetAll(s2, {"logger"}, "logger")
      BY <2>2 DEF SetIf
    <3> HIDE DEF s3
    <3> QED  BY <3>1, <2>1, <2>2, <1>3, SetAllDomain, SetAllAdds, SetAllKeeps DEF Kept
  <2>3. CASE "logger" \notin on
    <3>1. s3 = s2
      BY <2>3 DEF SetIf
    <3> HIDE DEF s3
    <3> QED  BY <3>1, <2>3, <1>3 DEF Kept
  <2> QED  BY <2>2, <2>3
<1> QED  BY <1>0, <1>4

(* SetAll takes nothing away from what is kept.                            *)
LEMMA SetAllKept ==
  ASSUME NEW s, Kept(s), NEW keys, NEW owner
  PROVE  Kept(SetAll(s, keys, owner))
BY SetAllKeeps DEF Kept

(* Whatever the pattern and the meta of a route name (router.py:171-177).  *)
LEMMA RoutedKept ==
  ASSUME NEW s, Kept(s), NEW rt
  PROVE  Kept(Routed(s, rt))
BY SetAllKept DEF Routed

-----------------------------------------------------------------------------

Inv == Shapes /\ LockHeld /\ \A r \in Requests : OnItsWay(r) => Kept(scope[r])

LEMMA InitInv == Init => Inv
BY DEF Init, Inv, Shapes, LockHeld, OneProfile, OnItsWay

(* The lock is taken only when it is free, and the scope is complete.      *)
LEMMA StartInv ==
  ASSUME Inv, NEW r \in Requests, NEW a \in Asks, Start(r, a)
  PROVE  Inv'
<1> USE ApplicationAssumption DEF Inv
<1> DEFINE routed == "route" \in on
           rt  == IF routed THEN Resolve(routes, a) ELSE Default
           s   == IF routed THEN Routed(Outer, rt) ELSE Outer
           how == HowItRuns(rt.handler, s, Traced(a))
<1>1. /\ scope' = [scope EXCEPT ![r] = s]
      /\ phase' = [phase EXCEPT ![r] = IF how = "failing" THEN how ELSE "running"]
      /\ answer' = [answer EXCEPT ![r] = Nothing]
      /\ on' = on
      /\ phase[r] \in {"idle", "answered"}
      /\ \/ /\ Traced(a) /\ lock' = r /\ profiled' = profiled \cup {r}
         \/ UNCHANGED <<lock, profiled>>
  BY DEF Start
<1>2. Kept(s)
  BY OuterKept, RoutedKept
<1> HIDE DEF s, how
<1>3. Shapes'
  BY <1>1 DEF Shapes
<1>4. LockHeld'
  <2>1. CASE Traced(a) /\ lock' = r /\ profiled' = profiled \cup {r}
    BY <2>1, <1>1 DEF Traced, LockHeld, OneProfile, Shapes, OnItsWay
  <2>2. CASE UNCHANGED <<lock, profiled>>
    BY <2>2, <1>1 DEF LockHeld, OneProfile, Shapes, OnItsWay
  <2> QED  BY <1>1, <2>1, <2>2
<1>5. ASSUME NEW q \in Requests, OnItsWay(q)'
      PROVE  Kept(scope[q])'
  <2>1. Kept(scope'[q])
    BY <1>1, <1>2, <1>5 DEF Shapes, OnItsWay
  <2> QED  BY <2>1, <1>1 DEF Kept
<1> QED  BY <1>3, <1>4, <1>5

(* Whatever a request ends with, it gives the lock back.                   *)
LEMMA LeaveInv ==
  ASSUME Inv, NEW r \in Requests, NEW v, NEW found, NEW added,
         Leave(r, v, found, added)
  PROVE  Inv'
<1> USE ApplicationAssumption DEF Inv
<1>1. /\ scope' = [scope EXCEPT ![r] = <<>>]
      /\ phase' = [phase EXCEPT ![r] = "answered"]
      /\ \E x : answer' = [answer EXCEPT ![r] = x]
      /\ on' = on
      /\ profiled' = profiled \ {r}
      /\ lock' = IF lock = r THEN NoOne ELSE lock
  BY DEF Leave, Unlock
<1>2. Shapes'
  BY <1>1 DEF Shapes
<1>3. LockHeld'
  BY <1>1 DEF LockHeld, OneProfile, Shapes, OnItsWay
<1>4. ASSUME NEW q \in Requests, OnItsWay(q)'
      PROVE  Kept(scope[q])'
  <2>1. Kept(scope'[q])
    BY <1>1, <1>4 DEF Shapes, OnItsWay
  <2> QED  BY <2>1, <1>1 DEF Kept
<1> QED  BY <1>2, <1>3, <1>4

(* The deadline of a request, and a handler that outlives it, leave the    *)
(* request on its way.                                                     *)
LEMMA StaysInv ==
  ASSUME Inv, NEW r \in Requests, OnItsWay(r), NEW ph \in {"cancelled", "stubborn"},
         phase' = [phase EXCEPT ![r] = ph],
         UNCHANGED <<on, scope, profiled, lock, answer>>
  PROVE  Inv'
<1>1. Shapes'
  BY DEF Inv, Shapes
<1>2. \A q \in Requests : OnItsWay(q)' <=> OnItsWay(q)
  BY DEF Inv, Shapes, OnItsWay
<1>3. LockHeld'
  BY <1>2 DEF Inv, LockHeld, OneProfile
<1> QED  BY <1>1, <1>2, <1>3 DEF Inv, Kept

(* Steps that touch neither a request nor the lock.                        *)
LEMMA OtherInv ==
  ASSUME Inv, UNCHANGED <<on, phase, scope, profiled, lock, answer>>
  PROVE  Inv'
BY DEF Inv, Shapes, LockHeld, OneProfile, Kept, OnItsWay

(* Every action keeps the invariant.                                       *)
LEMMA NextInv == Inv /\ [Next]_vars => Inv'
<1> SUFFICES ASSUME Inv, [Next]_vars PROVE Inv'
  OBVIOUS
<1>1. ASSUME NEW r \in Requests, NEW a \in Asks, Start(r, a) PROVE Inv'
  BY <1>1, StartInv
<1>2. ASSUME NEW r \in Requests, NEW v, NEW found, NEW added,
             Finish(r, v, found, added) \/ Cancelled(r, found, added)
      PROVE  Inv'
  BY <1>2, LeaveInv DEF Finish, Cancelled
<1>3. ASSUME NEW r \in Requests, Deadline(r) \/ Catch(r)
      PROVE  Inv'
  BY <1>3, StaysInv DEF Deadline, Catch, OnItsWay
<1>4. ASSUME NEW r \in Requests, ThreadEnds(r) PROVE Inv'
  BY <1>4, OtherInv DEF ThreadEnds
<1>5. ASSUME NEW rt, AddRoute(rt) PROVE Inv'
  BY <1>5, OtherInv DEF AddRoute
<1>6. CASE Clean
  BY <1>6, OtherInv DEF Clean
<1>7. CASE UNCHANGED vars
  BY <1>7, OtherInv DEF vars
<1> QED  BY <1>1, <1>2, <1>3, <1>4, <1>5, <1>6, <1>7 DEF Next

-----------------------------------------------------------------------------

(* The invariant of the application: the profiler's lock and the scopes of *)
(* the requests on their way.                                              *)
THEOREM Invariance == Spec => []Inv
<1> QED  BY InitInv, NextInv, PTL DEF Spec

(* At most one request runs with profile, and it holds the lock, for any   *)
(* number of requests and targets (profiling.py:33-46).                    *)
THEOREM OneIsProfiled == Spec => []OneProfile
<1>1. Inv => OneProfile
  BY DEF Inv, LockHeld
<1> QED  BY <1>1, Invariance, PTL

(* No path argument and no meta takes the place of a component's key,      *)
(* whatever the routes are called (common.py:90-94, router.py:171-177).    *)
THEOREM KeysAreKept == Spec => []ComponentKeysKept
<1>1. Inv => ComponentKeysKept
  BY DEF Inv, Kept, ComponentKeysKept
<1> QED  BY <1>1, Invariance, PTL

-----------------------------------------------------------------------------
(* Types.                                                                  *)

(* Whoever sets keys is an owner.                                          *)
LEMMA SetAllOwners ==
  ASSUME NEW s, Range(s) \subseteq Owners, NEW keys, NEW owner \in Owners
  PROVE  Range(SetAll(s, keys, owner)) \subseteq Owners
BY DEF Range, SetAll

LEMMA OuterOwners == Range(Outer) \subseteq Owners
<1> DEFINE s0 == SetAll(<<>>, {"get_transport_info"}, "connection")
           s1 == SetIf("patch_request" \in on, s0, Patched, "patch_request")
           s2 == SetIf("push" \in on, s1, {"add_push"}, "push")
           s3 == SetIf("logger" \in on, s2, {"logger"}, "logger")
<1>0. Outer = s3
  BY DEF Outer
<1>1. Range(s0) \subseteq Owners
  <2>1. Range(<<>>) \subseteq Owners
    BY DEF Range
  <2> QED  BY <2>1, SetAllOwners DEF Owners
<1> HIDE DEF s0
<1>2. Range(s1) \subseteq Owners
  BY <1>1, SetAllOwners DEF SetIf, Owners
<1> HIDE DEF s1
<1>3. Range(s2) \subseteq Owners
  BY <1>2, SetAllOwners DEF SetIf, Owners
<1> HIDE DEF s2
<1>4. Range(s3) \subseteq Owners
  BY <1>3, SetAllOwners DEF SetIf, Owners
<1> QED  BY <1>0, <1>4

(* The route's keys are set by owners.                                     *)
LEMMA RoutedOwners ==
  ASSUME NEW s, Range(s) \subseteq Owners, NEW rt
  PROVE  Range(Routed(s, rt)) \subseteq Owners
<1> DEFINE s1 == SetAll(s, {"get_url", "get_route"}, "route")
           m  == SetAll(s1, rt.meta, "meta")
           s2 == SetAll(m, {"pattern"}, "route")
           s3 == SetAll(s2, ArgNames(rt), "match")
<1>1. Range(s1) \subseteq Owners
  BY SetAllOwners DEF Owners
<1> HIDE DEF s1
<1>2. Range(m) \subseteq Owners
  BY <1>1, SetAllOwners DEF Owners
<1> HIDE DEF m
<1>3. Range(s2) \subseteq Owners
  BY <1>2, SetAllOwners DEF Owners
<1> HIDE DEF s2
<1>4. Range(s3) \subseteq Owners
  BY <1>3, SetAllOwners DEF Owners
<1> QED  BY <1>1, <1>4 DEF Routed, s1, m, s2

(* There are four ways in which a handler runs.                            *)
LEMMA RunsType ==
  ASSUME NEW h, NEW s, NEW traced
  PROVE  HowItRuns(h, s, traced) \in {"coroutine", "thread", "process", "failing"}
BY DEF HowItRuns

(* Taking a target that is there off the list.                             *)
LEMMA TargetTaken ==
  ASSUME NEW s \in Seq(Asks), NEW a \in Range(s)
  PROVE  RemoveFirst(s, a) \in Seq(Asks) /\ Len(RemoveFirst(s, a)) = Len(s) - 1
<1> DEFINE I == {i \in 1 .. Len(s) : s[i] = a}
<1>1. PICK j \in 1 .. Len(s) : s[j] = a
  BY LenProperties DEF Range
<1>2. Min(I) \in 1 .. Len(s)
  <2>1. I # {} /\ I \in SUBSET Nat
    BY <1>1, LenProperties
  <2>2. Min(I) \in I
    BY <2>1, MinIsLeast
  <2> QED  BY <2>2
<1>3. RemoveFirst(s, a) = RemoveAt(s, Min(I))
  BY <1>1 DEF RemoveFirst, SelectInSeq
<1> HIDE DEF I
<1> DEFINE pre  == SubSeq(s, 1, Min(I) - 1)
           post == SubSeq(s, Min(I) + 1, Len(s))
<1>4. pre \in Seq(Asks) /\ Len(pre) = Min(I) - 1
  BY <1>2, SubSeqProperties, LenProperties, ElementOfSeq
<1>5. post \in Seq(Asks) /\ Len(post) = Len(s) - Min(I)
  BY <1>2, SubSeqProperties, LenProperties, ElementOfSeq
<1>6. RemoveFirst(s, a) = pre \o post
  BY <1>3 DEF RemoveAt
<1> HIDE DEF pre, post
<1>7. Len(s) \in Nat
  BY LenProperties
<1> QED  BY <1>2, <1>4, <1>5, <1>6, <1>7, ConcatProperties

-----------------------------------------------------------------------------

LEMMA InitType == Init => TypeOK
<1> SUFFICES ASSUME Init PROVE TypeOK
  OBVIOUS
<1>1. AnAsk \in Asks
  BY ApplicationAssumption DEF AnAsk
<1>2. routes \in Seq(LateRoutes \cup Range(FirstRoutes))
  BY ApplicationAssumption DEF Init
<1>3. \A r \in Requests : Range(scope[r]) \subseteq Owners
  BY DEF Init, Range
<1>4. targets \in Seq(Asks) /\ Len(targets) = 0 /\ MaxTargets \in Nat
  BY ApplicationAssumption DEF Init
<1> QED  BY <1>1, <1>2, <1>3, <1>4 DEF Init, TypeOK

(* A request on its way in keeps the types.                                *)
LEMMA StartType ==
  ASSUME Inv, TypeOK, NEW r \in Requests, NEW a \in Asks, Start(r, a)
  PROVE  TypeOK'
<1> DEFINE routed == "route" \in on
           rt  == IF routed THEN Resolve(routes, a) ELSE Default
           s   == IF routed THEN Routed(Outer, rt) ELSE Outer
           how == HowItRuns(rt.handler, s, Traced(a))
<1>1. /\ ask' = [ask EXCEPT ![r] = a]
      /\ scope' = [scope EXCEPT ![r] = s]
      /\ runs' = [runs EXCEPT ![r] = how]
      /\ phase' = [phase EXCEPT ![r] = IF how = "failing" THEN how ELSE "running"]
      /\ busy' = IF how = "thread" THEN busy \cup {r} ELSE busy
      /\ UNCHANGED <<on, routes>>
      /\ \/ /\ Traced(a) /\ lock' = r /\ profiled' = profiled \cup {r}
            /\ targets' = RemoveFirst(targets, a)
         \/ UNCHANGED <<lock, targets, profiled>>
  BY DEF Start
<1>2. Range(s) \subseteq Owners /\ how \in {"coroutine", "thread", "process", "failing"}
  BY OuterOwners, RoutedOwners, RunsType
<1> HIDE DEF s, how, rt
<1>3. /\ ask' \in [Requests -> Asks]
      /\ phase' \in [Requests -> {"idle", "running", "failing", "cancelled",
                                 "stubborn", "answered"}]
      /\ runs' \in [Requests -> {"none", "coroutine", "thread", "process", "failing"}]
      /\ busy' \subseteq Requests /\ profiled' \subseteq Requests
  BY <1>1, <1>2 DEF TypeOK
<1>4. \A q \in Requests : Range(scope'[q]) \subseteq Owners
  BY <1>1, <1>2 DEF TypeOK, Inv, Shapes
<1>5. targets' \in Seq(Asks) /\ Len(targets') <= MaxTargets
  <2>1. targets \in Seq(Asks) /\ Len(targets) <= MaxTargets
    BY DEF TypeOK
  <2>2. CASE Traced(a) /\ targets' = RemoveFirst(targets, a)
    BY <2>1, <2>2, TargetTaken, LenProperties, ApplicationAssumption DEF Traced
  <2>3. CASE UNCHANGED targets
    BY <2>1, <2>3
  <2> QED  BY <1>1, <2>2, <2>3
<1>6. (lock # NoOne => lock \in Requests /\ OnItsWay(lock))'
  BY StartInv DEF Inv, LockHeld
<1> QED  BY <1>1, <1>3, <1>4, <1>5, <1>6 DEF TypeOK

(* A request on its way out keeps the types.                               *)
LEMMA LeaveType ==
  ASSUME Inv, TypeOK, NEW r \in Requests, NEW v, NEW found, NEW added,
         Leave(r, v, found, added), busy' \subseteq busy
  PROVE  TypeOK'
<1>1. /\ ask' = [ask EXCEPT ![r] = AnAsk]
      /\ scope' = [scope EXCEPT ![r] = <<>>]
      /\ runs' = [runs EXCEPT ![r] = "none"]
      /\ phase' = [phase EXCEPT ![r] = "answered"]
      /\ profiled' = profiled \ {r}
      /\ UNCHANGED <<on, routes>>
      /\ \/ Len(targets) < MaxTargets /\ targets' = Append(targets, ask[r])
         \/ UNCHANGED targets
  BY DEF Leave, Unlock
<1>2. AnAsk \in Asks
  BY ApplicationAssumption DEF AnAsk
<1>3. /\ ask' \in [Requests -> Asks]
      /\ phase' \in [Requests -> {"idle", "running", "failing", "cancelled",
                                 "stubborn", "answered"}]
      /\ runs' \in [Requests -> {"none", "coroutine", "thread", "process", "failing"}]
      /\ busy' \subseteq Requests /\ profiled' \subseteq Requests
  BY <1>1, <1>2 DEF TypeOK
<1>4. \A q \in Requests : Range(scope'[q]) \subseteq Owners
  <2>1. Range(<<>>) \subseteq Owners
    BY DEF Range
  <2> QED  BY <1>1, <2>1 DEF TypeOK, Inv, Shapes
<1>5. targets' \in Seq(Asks) /\ Len(targets') <= MaxTargets
  <2>1. targets \in Seq(Asks) /\ Len(targets) <= MaxTargets /\ ask[r] \in Asks
    BY DEF TypeOK
  <2>2. CASE Len(targets) < MaxTargets /\ targets' = Append(targets, ask[r])
    BY <2>1, <2>2, AppendProperties, LenProperties, ApplicationAssumption
  <2> QED  BY <1>1, <2>1, <2>2
<1>6. (lock # NoOne => lock \in Requests /\ OnItsWay(lock))'
  BY LeaveInv DEF Inv, LockHeld
<1> QED  BY <1>1, <1>3, <1>4, <1>5, <1>6 DEF TypeOK

(* Every action keeps the types.                                           *)
LEMMA NextType == Inv /\ TypeOK /\ [Next]_vars => TypeOK'
<1> SUFFICES ASSUME Inv, TypeOK, [Next]_vars PROVE TypeOK'
  OBVIOUS
<1>1. ASSUME NEW r \in Requests, NEW a \in Asks, Start(r, a) PROVE TypeOK'
  BY <1>1, StartType
<1>2. ASSUME NEW r \in Requests, NEW v, NEW found, NEW added,
             Finish(r, v, found, added) \/ Cancelled(r, found, added)
      PROVE  TypeOK'
  BY <1>2, LeaveType DEF Finish, Cancelled
<1>3. ASSUME NEW r \in Requests, Deadline(r) \/ Catch(r)
      PROVE  TypeOK'
  BY <1>3 DEF Deadline, Catch, TypeOK, OnItsWay
<1>4. ASSUME NEW r \in Requests, ThreadEnds(r) PROVE TypeOK'
  BY <1>4 DEF ThreadEnds, TypeOK, OnItsWay
<1>5. ASSUME NEW rt \in LateRoutes, AddRoute(rt) PROVE TypeOK'
  <2>1. routes' \in Seq(LateRoutes \cup Range(FirstRoutes))
    BY <1>5, AppendProperties DEF AddRoute, TypeOK
  <2> QED  BY <1>5, <2>1 DEF AddRoute, TypeOK, OnItsWay
<1>6. CASE Clean
  BY <1>6 DEF Clean, TypeOK, OnItsWay
<1>7. CASE UNCHANGED vars
  BY <1>7 DEF vars, TypeOK, OnItsWay
<1> QED  BY <1>1, <1>2, <1>3, <1>4, <1>5, <1>6, <1>7 DEF Next

(* The types of the variables; the list of targets stays in its bound.     *)
THEOREM TypeCorrect == Spec => []TypeOK
<1> QED  BY InitType, NextType, Invariance, PTL DEF Spec

-----------------------------------------------------------------------------
(* Results.                                                                *)

(* What the components around profile make of a value, when the logger     *)
(* can decode the path and no argument is called push; and whatever they   *)
(* meet, they make no other result of it.                                  *)
LEMMA OutwardKeeps ==
  ASSUME NEW a, NEW s, NEW added, NEW v
  PROVE  /\ Outward(a, s, v, added) \in {TimeLimit(v), "error", "raised"}
         /\ ("logger" \in on => a.utf8) /\ ~("push" \in on /\ PushOfBytes(s)) =>
              /\ v = "response" => Outward(a, s, v, added) = v
              /\ v = "cancelled" /\ "handler_timeout" \in on =>
                   Outward(a, s, v, added) = "timeout"
              /\ v = "raised" /\ "error_handle" \in on => Outward(a, s, v, added) = "error"
         /\ "logger" \in on => Outward(a, s, v, added) \in Answers \cup {"raised"}
BY DEF Outward, TimeLimit, ErrorHandle, Logged, Pushed, Answers

(* A result that is a response reaches the connection as it is, a          *)
(* cancelled handler is answered, and with error_handle every exception    *)
(* becomes a response, unless the logger, profile or push fails on the way *)
(* out, which never makes another result (common.py:26-33, limit.py:22-31, *)
(* logger.py:37-56, profiling.py:43-56, h2.py:11-18).                      *)
THEOREM ResultsArrive == Spec => ResultsReachTheClient
<1>1. Inv /\ [Next]_vars => [\A r \in Requests : Arrives(r)]_vars
  <2> SUFFICES ASSUME Inv, Next, NEW q \in Requests,
                      phase[q] # phase'[q], phase'[q] = "answered"
               PROVE  Arrives(q)
    BY DEF Arrives
  <2>1. ASSUME NEW r \in Requests, NEW v, NEW found, NEW added,
               Leave(r, v, found, added)
        PROVE  Arrives(q)
    <3>1. q = r
      BY <2>1 DEF Leave, Inv, Shapes
    <3>2. PICK w : w = (IF NoteRaises(r, found) THEN "raised" ELSE v)
      OBVIOUS
    <3>3. answer'[r] = [value |-> v, kind |-> Outward(ask[r], scope[r], w, added)]
      BY <2>1, <3>2 DEF Leave, Inv, Shapes
    <3>4. ~NoteAtRisk(r) => w = v
      BY <2>1, <3>2 DEF Leave, NoteAtRisk, NoteRaises
    <3>5. w \in {v, "raised"}
      BY <3>2
    <3>6. PICK k : k = Outward(ask[r], scope[r], w, added)
      OBVIOUS
    <3>7. answer'[q].value = v /\ answer'[q].kind = k
      BY <3>1, <3>3, <3>6
    <3>8. k \in {TimeLimit(v), "error", "raised"}
      BY <3>5, <3>6, OutwardKeeps DEF TimeLimit
    <3>9. ~ExitAtRisk(r) =>
            /\ w = "response" => k = w
            /\ w = "cancelled" /\ "handler_timeout" \in on => k = "timeout"
            /\ w = "raised" /\ "error_handle" \in on => k = "error"
      BY <3>6, OutwardKeeps DEF ExitAtRisk
    <3>10. "logger" \in on => k \in Answers \cup {"raised"}
      BY <3>6, OutwardKeeps
    <3> QED  BY <3>1, <3>4, <3>5, <3>7, <3>8, <3>9, <3>10 DEF Arrives
  <2>2. \A r \in Requests, a \in Asks : ~ Start(r, a)
    <3> SUFFICES ASSUME NEW r \in Requests, NEW a \in Asks, Start(r, a) PROVE FALSE
      OBVIOUS
    <3>1. \E how : phase' = [phase EXCEPT ![r] = IF how = "failing" THEN how ELSE "running"]
      BY DEF Start
    <3> QED  BY <3>1 DEF Inv, Shapes
  <2>3. ASSUME \/ \E r \in Requests : Deadline(r) \/ Catch(r) \/ ThreadEnds(r)
               \/ \E rt \in LateRoutes : AddRoute(rt)
               \/ Clean
        PROVE  FALSE
    BY <2>3 DEF Deadline, Catch, ThreadEnds, AddRoute, Clean, Inv, Shapes
  <2>4. ASSUME NEW r \in Requests, NEW found \in Founds, NEW added \in BOOLEAN,
               \/ \E v \in Gives(r) : Finish(r, v, found, added)
               \/ Cancelled(r, found, added)
        PROVE  \E v : Leave(r, v, found, added)
    BY <2>4 DEF Finish, Cancelled
  <2> QED  BY <2>1, <2>2, <2>3, <2>4 DEF Next
<1> QED  BY <1>1, Invariance, PTL DEF Spec, ResultsReachTheClient

-----------------------------------------------------------------------------
(* Routes.                                                                 *)

Matching(rs, a) == {i \in 1 .. Len(rs) : Matches(rs[i], a)}

(* Resolve gives the route with the least matching place.                  *)
LEMMA ResolveFirst ==
  ASSUME NEW rs, NEW a
  PROVE  Resolve(rs, a) = IF Matching(rs, a) # {} THEN rs[Min(Matching(rs, a))]
                                                  ELSE NotFound
<1> DEFINE i == SelectInSeq(rs, LAMBDA rt : Matches(rt, a))
<1>1. i = IF Matching(rs, a) # {} THEN Min(Matching(rs, a)) ELSE 0
  BY DEF SelectInSeq, Matching
<1>2. Matching(rs, a) # {} => Min(Matching(rs, a)) # 0
  <2>1. Matching(rs, a) \in SUBSET Nat /\ 0 \notin Matching(rs, a)
    BY DEF Matching
  <2> QED  BY <2>1, MinIsLeast
<1>3. Resolve(rs, a) = IF i = 0 THEN NotFound ELSE rs[i]
  BY DEF Resolve
<1> HIDE DEF i
<1> QED  BY <1>1, <1>2, <1>3

(* The first match in a list is the first match in a longer one.           *)
LEMMA AppendResolve ==
  ASSUME NEW E, NEW rs \in Seq(E), NEW rt \in E, NEW a, Matching(rs, a) # {}
  PROVE  Resolve(Append(rs, rt), a) = Resolve(rs, a)
<1> DEFINE longer == Append(rs, rt)
<1>1. /\ Len(rs) \in Nat /\ Len(longer) = Len(rs) + 1
      /\ \A i \in 1 .. Len(rs) : longer[i] = rs[i]
  BY AppendProperties, LenProperties
<1> HIDE DEF longer
<1> DEFINE m == Min(Matching(rs, a))
<1>2. m \in Matching(rs, a) /\ \A i \in Matching(rs, a) : m <= i
  <2>1. Matching(rs, a) \in SUBSET Nat
    BY DEF Matching
  <2> QED  BY <2>1, MinIsLeast
<1> HIDE DEF m
<1>3. m \in 1 .. Len(rs) /\ m \in Matching(longer, a)
  BY <1>1, <1>2 DEF Matching
<1>4. \A i \in Matching(longer, a) : m <= i
  BY <1>1, <1>2, <1>3 DEF Matching
<1>5. Min(Matching(longer, a)) = m
  <2>1. Matching(longer, a) \in SUBSET Nat
    BY DEF Matching
  <2>2. /\ Min(Matching(longer, a)) \in Matching(longer, a)
        /\ Min(Matching(longer, a)) <= m
    BY <1>3, <2>1, MinIsLeast
  <2>3. m <= Min(Matching(longer, a))
    BY <1>4, <2>2
  <2>4. m \in Nat /\ Min(Matching(longer, a)) \in Nat
    BY <1>3, <2>1, <2>2
  <2> QED  BY <2>2, <2>3, <2>4
<1>6. Resolve(longer, a) = longer[m]
  BY <1>3, <1>5, ResolveFirst
<1>7. Resolve(rs, a) = rs[m]
  BY ResolveFirst DEF m
<1> QED  BY <1>1, <1>3, <1>6, <1>7 DEF longer

(* A route that is added takes no path from those before it                *)
(* (router.py:76-81, 120-128).                                             *)
THEOREM FirstRouteWins == Spec => RoutesStay
<1> DEFINE Stay == routes' = <<>> \/ \A a \in Asks :
                     Resolve(routes, a) # NotFound => Resolve(routes', a) = Resolve(routes, a)
<1>1. TypeOK /\ [Next]_vars => [Stay]_vars
  <2> SUFFICES ASSUME TypeOK, Next PROVE Stay
    OBVIOUS
  <2>1. ASSUME UNCHANGED routes PROVE Stay
    BY <2>1
  <2>2. ASSUME NEW rt \in LateRoutes, AddRoute(rt) PROVE Stay
    <3>1. routes' = Append(routes, rt) /\ routes \in Seq(LateRoutes \cup Range(FirstRoutes))
      BY <2>2 DEF AddRoute, TypeOK
    <3>2. ASSUME NEW a \in Asks, Resolve(routes, a) # NotFound
          PROVE  Resolve(routes', a) = Resolve(routes, a)
      <4>1. Matching(routes, a) # {}
        BY <3>2, ResolveFirst
      <4> QED  BY <3>1, <4>1, AppendResolve
    <3> QED  BY <3>2
  <2>3. CASE Clean
    BY <2>3 DEF Clean
  <2>4. ASSUME \/ \E r \in Requests, a \in Asks : Start(r, a)
               \/ \E r \in Requests, found \in Founds, added \in BOOLEAN :
                    \/ \E v \in Gives(r) : Finish(r, v, found, added)
                    \/ Cancelled(r, found, added)
               \/ \E r \in Requests : Deadline(r) \/ Catch(r) \/ ThreadEnds(r)
        PROVE  UNCHANGED routes
    BY <2>4 DEF Start, Finish, Cancelled, Leave, Deadline, Catch, ThreadEnds
  <2> QED  BY <2>1, <2>2, <2>3, <2>4 DEF Next
<1> QED  BY <1>1, TypeCorrect, PTL DEF Spec, RoutesStay

=============================================================================
