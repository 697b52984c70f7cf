---------------------------- MODULE TracerProofs ----------------------------
(***************************************************************************)
(* Proofs about Tracer for any functions, any depth and any program.       *)
(***************************************************************************)
EXTENDS Tracer, NumberLemmas, SequenceTheorems, FiniteSetTheorems

(* The frames below i that have another code, and how many right below i   *)
(* have its code: what RecursionDepth counts.                              *)
Others(stk, i) == {j \in 1 .. (i - 1) : stk[j].code # stk[i].code}

SameBelow(stk, i) ==
  i - 1 - (IF Others(stk, i) = {} THEN 0 ELSE Max(Others(stk, i)))

(* The places of a function among the targets, and how many it has.        *)
Places(tgt, c) == {k \in DOMAIN tgt : tgt[k] = c}

Times(tgt, c) == Cardinality(Places(tgt, c))

(* The first i frames run the same functions.                              *)
SameCodes(s, t, i) == \A j \in 1 .. i : s[j].code = t[j].code

-----------------------------------------------------------------------------
(* Frames with the same code.                                              *)

(* The frames right below i are among those below i.                       *)
LEMMA SameBelowType ==
  ASSUME NEW stk, NEW i \in Nat \ {0}
  PROVE  SameBelow(stk, i) \in 0 .. (i - 1)
<1>1. CASE Others(stk, i) = {}
  BY <1>1 DEF SameBelow
<1>2. CASE Others(stk, i) # {}
  <2>1. Others(stk, i) \in SUBSET (0 .. (i - 1)) /\ i - 1 \in Nat
    BY DEF Others
  <2>2. Max(Others(stk, i)) \in Others(stk, i)
    BY <1>2, <2>1, MaxIsGreatest
  <2>3. Max(Others(stk, i)) \in 1 .. (i - 1)
    BY <2>2 DEF Others
  <2> QED  BY <1>2, <2>3 DEF SameBelow
<1> QED  BY <1>1, <1>2

(* They are one more than below the next frame, when that one has the same *)
(* code, and none when it has another.                                     *)
LEMMA SameBelowNext ==
  ASSUME NEW stk, NEW i \in Nat, i > 1
  PROVE  SameBelow(stk, i) =
           IF stk[i - 1].code = stk[i].code THEN SameBelow(stk, i - 1) + 1 ELSE 0
<1>1. CASE stk[i - 1].code = stk[i].code
  <2>1. Others(stk, i) = Others(stk, i - 1)
    BY <1>1 DEF Others
  <2>2. SameBelow(stk, i - 1) \in 0 .. (i - 2)
    BY SameBelowType
  <2>3. CASE Others(stk, i) = {}
    BY <1>1, <2>1, <2>3 DEF SameBelow
  <2>4. CASE Others(stk, i) # {}
    <3>1. Others(stk, i) \in SUBSET (0 .. (i - 1)) /\ i - 1 \in Nat
      BY DEF Others
    <3>2. Max(Others(stk, i)) \in Nat
      BY <2>4, <3>1, MaxIsGreatest
    <3> QED  BY <1>1, <2>1, <2>4, <3>2 DEF SameBelow
  <2> QED  BY <2>3, <2>4
<1>2. CASE stk[i - 1].code # stk[i].code
  <2>1. /\ i - 1 \in Others(stk, i) /\ i - 1 \in Nat
        /\ Others(stk, i) \in SUBSET (0 .. (i - 1))
    BY <1>2 DEF Others
  <2>2. /\ Max(Others(stk, i)) \in Others(stk, i)
        /\ i - 1 <= Max(Others(stk, i))
    BY <2>1, MaxIsGreatest
  <2>3. Max(Others(stk, i)) = i - 1
    BY <2>2 DEF Others
  <2> QED  BY <1>2, <2>1, <2>3 DEF SameBelow
<1> QED  BY <1>1, <1>2

(* The depth at which an event is timed depends on codes alone.            *)
LEMMA DepthNeedsCodes ==
  ASSUME NEW s, NEW t, NEW i \in Nat \ {0}, SameCodes(s, t, i)
  PROVE  /\ SameBelow(s, i) = SameBelow(t, i)
         /\ \A tgt : CurrentDepth(tgt, s, i) = CurrentDepth(tgt, t, i)
<1>1. s[i].code = t[i].code
  BY DEF SameCodes
<1>2. Others(s, i) = Others(t, i)
  BY <1>1 DEF SameCodes, Others
<1>3. \A n : RecursionDepth(s, i, n) = RecursionDepth(t, i, n)
  BY <1>2 DEF RecursionDepth, Others
<1>4. \A tgt : CurrentDepth(tgt, s, i) = CurrentDepth(tgt, t, i)
  BY <1>1, <1>3 DEF CurrentDepth
<1> QED  BY <1>2, <1>4 DEF SameBelow

-----------------------------------------------------------------------------
(* Places among the targets.                                               *)

(* How often a function is a target: a number, 0 without a place, 1 with   *)
(* one.                                                                    *)
LEMMA TimesType ==
  ASSUME NEW tgt \in Seq(Codes), NEW c
  PROVE  /\ Times(tgt, c) \in 0 .. Len(tgt)
         /\ Times(tgt, c) = 0 <=> Places(tgt, c) = {}
         /\ Times(tgt, c) = 1 => \E k \in 1 .. Len(tgt) : Places(tgt, c) = {k}
<1>1. Len(tgt) \in Nat /\ DOMAIN tgt = 1 .. Len(tgt)
  BY LenProperties
<1>2. IsFiniteSet(1 .. Len(tgt)) /\ Cardinality(1 .. Len(tgt)) = Len(tgt)
  <2>1. \A n \in Nat : IsFiniteSet(1 .. n) /\ Cardinality(1 .. n) = n
    BY FS_Interval
  <2> QED  BY <1>1, <2>1
<1>3. Places(tgt, c) \in SUBSET (1 .. Len(tgt))
  BY <1>1 DEF Places
<1>4. IsFiniteSet(Places(tgt, c)) /\ Times(tgt, c) <= Len(tgt)
  BY <1>2, <1>3, FS_Subset DEF Times
<1>5. Times(tgt, c) \in Nat
  BY <1>4, FS_CardinalityType DEF Times
<1>6. Times(tgt, c) = 0 <=> Places(tgt, c) = {}
  BY <1>4, FS_EmptySet DEF Times
<1>7. Times(tgt, c) = 1 => \E k : Places(tgt, c) = {k}
  BY <1>4, FS_Singleton DEF Times
<1> QED  BY <1>1, <1>3, <1>4, <1>5, <1>6, <1>7

(* A new target takes one more place, and no place of another.             *)
LEMMA TimesAppend ==
  ASSUME NEW tgt \in Seq(Codes), NEW c \in Codes
  PROVE  /\ Times(Append(tgt, c), c) = Times(tgt, c) + 1
         /\ \A b : b # c => Places(Append(tgt, c), b) = Places(tgt, b)
<1> DEFINE longer == Append(tgt, c)
<1>1. /\ longer \in Seq(Codes) /\ Len(tgt) \in Nat
      /\ DOMAIN longer = 1 .. (Len(tgt) + 1) /\ DOMAIN tgt = 1 .. Len(tgt)
      /\ \A k \in 1 .. Len(tgt) : longer[k] = tgt[k]
      /\ longer[Len(tgt) + 1] = c
  BY AppendProperties, LenProperties
<1> HIDE DEF longer
<1>2. Places(longer, c) = Places(tgt, c) \cup {Len(tgt) + 1}
  BY <1>1 DEF Places
<1>3. Len(tgt) + 1 \notin Places(tgt, c)
  BY <1>1 DEF Places
<1>4. IsFiniteSet(Places(tgt, c))
  <2>1. IsFiniteSet(1 .. Len(tgt)) /\ Places(tgt, c) \in SUBSET (1 .. Len(tgt))
    BY <1>1, FS_Interval DEF Places
  <2> QED  BY <2>1, FS_Subset
<1>5. Times(longer, c) = Times(tgt, c) + 1
  BY <1>2, <1>3, <1>4, FS_AddElement DEF Times
<1>6. ASSUME NEW b, b # c PROVE Places(longer, b) = Places(tgt, b)
  BY <1>1, <1>6 DEF Places
<1> QED  BY <1>5, <1>6 DEF longer

(* The depth of a function with no place, with one and with more.          *)
LEMMA DepthByTimes ==
  ASSUME NEW tgt \in Seq(Codes), NEW stk, NEW i \in Nat \ {0}
  PROVE  LET n == Times(tgt, stk[i].code)
             d == CurrentDepth(tgt, stk, i)
         IN /\ d \in 0 .. Len(tgt)
            /\ n = 0 => d = 0
            /\ n = 1 => Places(tgt, stk[i].code) = {d} /\ d \in 1 .. Len(tgt)
            /\ n > 1 => d = IF SameBelow(stk, i) >= n THEN 0 ELSE SameBelow(stk, i)
<1> DEFINE c == stk[i].code
           n == Times(tgt, c)
           d == CurrentDepth(tgt, stk, i)
<1>1. Len(tgt) \in Nat /\ n \in 0 .. Len(tgt)
  BY TimesType, LenProperties
<1>2. SameBelow(stk, i) \in Nat
  BY SameBelowType
<1>3. RecursionDepth(stk, i, n) = IF SameBelow(stk, i) >= n THEN 0 ELSE SameBelow(stk, i)
  BY DEF RecursionDepth, SameBelow, Others
<1>4. d = CASE Places(tgt, c) = {} -> 0
            [] n = 1 -> Max(Places(tgt, c))
            [] OTHER -> RecursionDepth(stk, i, n)
  BY DEF CurrentDepth, Places, Times
<1> HIDE DEF d, n
<1>5. CASE n = 0
  <2>1. Places(tgt, c) = {}
    BY <1>5, TimesType DEF n
  <2> QED  BY <1>1, <1>4, <1>5, <2>1 DEF d, n
<1>6. CASE n = 1
  <2>1. PICK k \in 1 .. Len(tgt) : Places(tgt, c) = {k}
    BY <1>6, TimesType DEF n
  <2>2. Max({k}) = k
    BY <2>1 DEF Max
  <2>3. d = k
    BY <1>4, <1>6, <2>1, <2>2
  <2> QED  BY <1>1, <1>6, <2>1, <2>3 DEF d, n
<1>7. CASE n > 1
  <2>1. Places(tgt, c) # {} /\ n # 1
    BY <1>7, TimesType DEF n
  <2>2. d = IF SameBelow(stk, i) >= n THEN 0 ELSE SameBelow(stk, i)
    BY <1>3, <1>4, <2>1
  <2> QED  BY <1>1, <1>2, <1>7, <2>2 DEF d, n
<1> QED  BY <1>1, <1>5, <1>6, <1>7

(* Targets that are added later leave the depth of a frame as it was, or   *)
(* take it away: the frame's function has a place for each frame of it, or *)
(* it is not the one that is added.                                        *)
LEMMA DepthStays ==
  ASSUME NEW tgt \in Seq(Codes), NEW stk, NEW i \in Nat \ {0}, NEW c \in Codes,
         Times(tgt, stk[i].code) > SameBelow(stk, i) \/ stk[i].code # c
  PROVE  CurrentDepth(Append(tgt, c), stk, i) \in {0, CurrentDepth(tgt, stk, i)}
<1> DEFINE b == stk[i].code
           longer == Append(tgt, c)
<1>0. longer \in Seq(Codes) /\ SameBelow(stk, i) \in Nat /\ Times(tgt, b) \in Nat
  BY AppendProperties, SameBelowType, TimesType
<1>1. CASE b # c
  <2>1. Places(longer, b) = Places(tgt, b)
    BY <1>1, TimesAppend
  <2> QED  BY <2>1 DEF CurrentDepth, Places
<1>2. CASE b = c /\ Times(tgt, b) > SameBelow(stk, i)
  <2>1. Times(longer, b) = Times(tgt, b) + 1
    BY <1>2, TimesAppend
  <2>2. CurrentDepth(longer, stk, i) = SameBelow(stk, i)
    <3> HIDE DEF longer
    <3>1. Times(longer, stk[i].code) > 1
      BY <1>0, <1>2, <2>1
    <3>2. CurrentDepth(longer, stk, i) =
            IF SameBelow(stk, i) >= Times(longer, stk[i].code) THEN 0 ELSE SameBelow(stk, i)
      BY <1>0, <3>1, DepthByTimes
    <3> QED  BY <1>0, <1>2, <2>1, <3>2
  <2>3. Times(tgt, b) = 1 => SameBelow(stk, i) = 0
    BY <1>0, <1>2
  <2>4. Times(tgt, b) > 1 => CurrentDepth(tgt, stk, i) = SameBelow(stk, i)
    BY <1>0, <1>2, DepthByTimes
  <2> QED  BY <1>0, <1>2, <2>2, <2>3, <2>4
<1> QED  BY <1>1, <1>2

-----------------------------------------------------------------------------
(* The invariant.                                                          *)

(* The target given to add_target is the first one, and unless it is a     *)
(* coroutine function, that other tasks run beside, its frame is the first.*)
Rooted ==
  /\ Len(stack) >= 1
  /\ Len(targets) >= 1 /\ targets[1] = Target
  /\ ~ coroutine => stack[1].code = Target

(* Without recursion no function has two frames.                           *)
Distinct ==
  ~ recursed => \A i, j \in 1 .. Len(stack) : stack[i].code = stack[j].code => i = j

(* A frame that has called has a place for itself and one for every frame  *)
(* of the same function right below it, unless the targets are complete. A *)
(* frame of another task has none.                                         *)
Settled(i) ==
  \/ Len(targets) = depth
  \/ Times(targets, stack[i].code) > SameBelow(stack, i)
  \/ coroutine /\ ~ IsTarget(stack, i - 1)

(* A frame that is timed has a record of the line it calls from.           *)
Recorded(i) ==
  CurrentDepth(targets, stack, i) # 0
    => Same(stack[i], CurrentDepth(targets, stack, i)) # {}

Followed ==
  ~ (coroutine /\ recursed) /\ Sourced =>
    /\ state # "crashed"
    /\ \A i \in 1 .. (Len(stack) - 1) : Settled(i) /\ Recorded(i)

TracerInv == TypeOK /\ Rooted /\ Distinct /\ Followed

(* An event adds at most its own function to the targets.                  *)
LEMMA SaveFrameIs ==
  ASSUME NEW stk, NEW e
  PROVE  \/ SaveFrame(stk, e) = targets
         \/ /\ SaveFrame(stk, e) = Append(targets, stk[e].code)
            /\ Len(targets) # depth /\ IsTarget(stk, e - 1)
BY DEF SaveFrame

(* A frame below one that calls or gets control back stays as it was.      *)
LEMMA EventKeeps ==
  ASSUME TypeOK, Distinct, ~ (coroutine /\ recursed),
         NEW e \in 1 .. Len(stack), NEW at, SameCodes(stack, at, e),
         targets' = SaveFrame(at, e), UNCHANGED <<coroutine, depth>>,
         NEW i \in 1 .. (e - 1), Settled(i), Recorded(i),
         \A j \in 1 .. i : stack'[j] = stack[j],
         \A r \in calls : \E q \in calls' :
           q.depth = r.depth /\ q.code = r.code /\ q.line = r.line
  PROVE  Settled(i)' /\ Recorded(i)'
<1> DEFINE c == stack[e].code
<1>1. /\ targets \in Seq(Codes) /\ Len(stack) \in Nat /\ stack \in Seq(Frames)
      /\ Len(targets) \in Nat
  BY LenProperties DEF TypeOK
<1>2. e \in Nat \ {0} /\ i \in Nat \ {0} /\ i < e
  BY <1>1
<1>3. c \in Codes /\ stack[e] \in Frames /\ at[e].code = c
  <2>1. stack[e] \in Frames
    BY <1>1, <1>2, ElementOfSeq
  <2> QED  BY <1>2, <2>1 DEF Frames, SameCodes
<1>4. SameCodes(stack, stack', i) /\ stack'[i] = stack[i]
  BY <1>2 DEF SameCodes
<1>5. /\ SameBelow(stack', i) = SameBelow(stack, i)
      /\ CurrentDepth(targets', stack', i) = CurrentDepth(targets', stack, i)
  BY <1>2, <1>4, DepthNeedsCodes
<1>6. i > 1 => stack'[i - 1] = stack[i - 1]
  BY <1>2
<1>7. SameBelow(stack, i) \in Nat /\ Times(targets, stack[i].code) \in Nat
  BY <1>1, <1>2, SameBelowType, TimesType
<1>8. ASSUME NEW frame, NEW d, Same(frame, d) # {} PROVE Same(frame, d)' # {}
  BY <1>8 DEF Same
<1>9. CASE targets' = targets
  <2>1. Settled(i)'
    BY <1>2, <1>4, <1>5, <1>6, <1>9 DEF Settled, IsTarget
  <2>2. Recorded(i)'
    BY <1>4, <1>5, <1>8, <1>9 DEF Recorded, Same
  <2> QED  BY <2>1, <2>2
<1>10. CASE targets' = Append(targets, c) /\ Len(targets) # depth
  <2>1. \/ Times(targets, stack[i].code) > SameBelow(stack, i)
        \/ /\ coroutine /\ ~ IsTarget(stack, i - 1)
           /\ c # stack[i].code /\ (i > 1 => c # stack[i - 1].code)
    BY <1>1, <1>2, <1>10 DEF Settled, Distinct
  <2>2. CurrentDepth(targets', stack, i) \in {0, CurrentDepth(targets, stack, i)}
    BY <1>1, <1>2, <1>3, <1>10, <2>1, DepthStays
  <2>3. Recorded(i)'
    BY <1>4, <1>5, <1>8, <2>2 DEF Recorded, Same
  <2>4. Times(targets', stack[i].code) \in {Times(targets, stack[i].code),
                                            Times(targets, stack[i].code) + 1}
    <3>1. CASE c = stack[i].code
      BY <1>1, <1>3, <1>10, <3>1, TimesAppend
    <3>2. CASE c # stack[i].code
      <4>1. Places(targets', stack[i].code) = Places(targets, stack[i].code)
        BY <1>1, <1>3, <1>10, <3>2, TimesAppend
      <4> QED  BY <4>1 DEF Times
    <3> QED  BY <3>1, <3>2
  <2>5. ASSUME coroutine, ~ IsTarget(stack, i - 1), i > 1 => c # stack[i - 1].code
        PROVE  ~ IsTarget(stack, i - 1)'
    <3>1. \A k \in DOMAIN targets' :
            targets'[k] = c \/ (k \in DOMAIN targets /\ targets'[k] = targets[k])
      <4>1. /\ DOMAIN targets' = 1 .. (Len(targets) + 1)
            /\ DOMAIN targets = 1 .. Len(targets)
            /\ \A k \in 1 .. Len(targets) : targets'[k] = targets[k]
            /\ targets'[Len(targets) + 1] = c
        BY <1>1, <1>3, <1>10, AppendProperties, LenProperties
      <4> QED  BY <1>1, <4>1
    <3> QED  BY <1>2, <1>6, <2>5, <3>1 DEF IsTarget
  <2>6. Settled(i)'
    BY <1>4, <1>5, <1>7, <2>1, <2>4, <2>5 DEF Settled
  <2> QED  BY <2>3, <2>6
<1> QED  BY <1>3, <1>9, <1>10, SaveFrameIs

(* The frame that calls has its place after the event, when it ought to.   *)
LEMMA TopSettles ==
  ASSUME TypeOK, Rooted, Distinct, ~ (coroutine /\ recursed),
         NEW e \in 1 .. Len(stack), NEW at, SameCodes(stack, at, e),
         targets' = SaveFrame(at, e), UNCHANGED <<coroutine, depth>>,
         \A i \in 1 .. (e - 1) : Settled(i)
  PROVE  \/ Len(targets') = depth
         \/ Times(targets', stack[e].code) > SameBelow(stack, e)
         \/ coroutine /\ ~ (e > 1 /\ \E k \in DOMAIN targets' : targets'[k] = stack[e - 1].code)
<1> DEFINE c == stack[e].code
<1>1. /\ targets \in Seq(Codes) /\ stack \in Seq(Frames)
      /\ Len(stack) \in Nat /\ Len(targets) \in Nat
      /\ DOMAIN targets = 1 .. Len(targets)
  BY LenProperties DEF TypeOK
<1>2. e \in Nat \ {0}
  BY <1>1
<1>3. c \in Codes /\ at[e].code = c /\ (e > 1 => at[e - 1].code = stack[e - 1].code)
  <2>1. stack[e] \in Frames
    BY <1>1, <1>2, ElementOfSeq
  <2> QED  BY <1>2, <2>1 DEF Frames, SameCodes
<1>4. SameBelow(stack, e) \in Nat /\ Times(targets, c) \in Nat
  BY <1>1, <1>2, SameBelowType, TimesType
<1> SUFFICES ASSUME Len(targets) # depth
             PROVE  \/ Times(targets', c) > SameBelow(stack, e)
                    \/ coroutine /\ ~ (e > 1 /\ \E k \in DOMAIN targets' :
                                         targets'[k] = stack[e - 1].code)
  BY SaveFrameIs
<1>5. CASE IsTarget(at, e - 1)
  <2>1. targets' = Append(targets, c)
    BY <1>3, <1>5 DEF SaveFrame
  <2>2. Times(targets', c) = Times(targets, c) + 1
    BY <1>1, <1>3, <2>1, TimesAppend
  <2>3. e > 1
    BY <1>2, <1>5 DEF IsTarget
  <2>4. SameBelow(stack, e) = IF stack[e - 1].code = c THEN SameBelow(stack, e - 1) + 1 ELSE 0
    BY <1>2, <2>3, SameBelowNext
  <2>5. CASE stack[e - 1].code # c
    BY <1>4, <2>2, <2>4, <2>5
  <2>6. CASE stack[e - 1].code = c
    <3>1. recursed /\ ~ coroutine
      BY <1>1, <1>2, <2>3, <2>6 DEF Distinct
    <3>2. Times(targets, c) > SameBelow(stack, e - 1)
      BY <1>1, <1>2, <2>3, <2>6, <3>1 DEF Settled
    <3>3. SameBelow(stack, e - 1) \in Nat
      BY <1>2, <2>3, SameBelowType
    <3> QED  BY <1>4, <2>2, <2>4, <2>6, <3>2, <3>3
  <2> QED  BY <2>5, <2>6
<1>6. CASE ~ IsTarget(at, e - 1)
  <2>1. targets' = targets
    BY <1>6 DEF SaveFrame
  <2>2. ~ (e > 1 /\ \E k \in DOMAIN targets : targets[k] = stack[e - 1].code)
    BY <1>2, <1>3, <1>6 DEF IsTarget
  <2>3. CASE ~ coroutine
    <3>1. CASE e = 1
      <4>1. c = Target /\ 1 \in Places(targets, c)
        BY <1>1, <2>3, <3>1 DEF Rooted, Places
      <4>2. SameBelow(stack, e) \in 0 .. 0
        BY <3>1, SameBelowType
      <4>3. Times(targets, c) # 0
        BY <1>1, <4>1, TimesType
      <4> QED  BY <1>4, <2>1, <4>2, <4>3
    <3>2. CASE e > 1
      <4>1. Times(targets, stack[e - 1].code) > SameBelow(stack, e - 1)
        BY <1>1, <1>2, <2>3, <3>2 DEF Settled
      <4>2. SameBelow(stack, e - 1) \in Nat /\ Times(targets, stack[e - 1].code) \in Nat
        BY <1>1, <1>2, <3>2, SameBelowType, TimesType
      <4>3. Places(targets, stack[e - 1].code) # {}
        BY <1>1, <4>1, <4>2, TimesType
      <4> QED  BY <2>2, <3>2, <4>3 DEF Places
    <3> QED  BY <1>2, <3>1, <3>2
  <2> QED  BY <2>1, <2>2, <2>3
<1> QED  BY <1>5, <1>6

(* A frame that gets control back finds the record of its line.            *)
LEMMA ReturnFinds ==
  ASSUME TypeOK, Distinct, ~ (coroutine /\ recursed),
         NEW e \in 1 .. Len(stack), Settled(e), Recorded(e),
         CurrentDepth(SaveFrame(stack, e), stack, e) # 0
  PROVE  Same(stack[e], CurrentDepth(SaveFrame(stack, e), stack, e)) # {}
<1> DEFINE c == stack[e].code
<1>1. targets \in Seq(Codes) /\ stack \in Seq(Frames) /\ Len(stack) \in Nat
  BY LenProperties DEF TypeOK
<1>2. e \in Nat \ {0}
  BY <1>1
<1>3. c \in Codes
  <2>1. stack[e] \in Frames
    BY <1>1, <1>2, ElementOfSeq
  <2> QED  BY <2>1 DEF Frames
<1>4. CASE SaveFrame(stack, e) = targets
  BY <1>4 DEF Recorded
<1>5. CASE SaveFrame(stack, e) = Append(targets, c) /\ Len(targets) # depth /\ IsTarget(stack, e - 1)
  <2>1. Times(targets, c) > SameBelow(stack, e)
    BY <1>5 DEF Settled
  <2>2. CurrentDepth(SaveFrame(stack, e), stack, e) \in {0, CurrentDepth(targets, stack, e)}
    BY <1>1, <1>2, <1>3, <1>5, <2>1, DepthStays
  <2> QED  BY <2>2 DEF Recorded
<1> QED  BY <1>4, <1>5, SaveFrameIs

-----------------------------------------------------------------------------
(* Types, and the stack that a call and a return leave.                    *)

(* The stack with the line of the frame that runs.                         *)
At(line) == [stack EXCEPT ![Len(stack)].line = line]

(* At moves the frame on the top to another line and leaves the rest.      *)
LEMMA AtIs ==
  ASSUME TypeOK, Rooted, NEW line \in Lines
  PROVE  /\ At(line) \in Seq(Frames) /\ Len(At(line)) = Len(stack)
         /\ \A j \in 1 .. Len(stack) :
              At(line)[j] = IF j = Len(stack) THEN [code |-> stack[j].code, line |-> line]
                                              ELSE stack[j]
         /\ SameCodes(stack, At(line), Len(stack))
<1> DEFINE top == Len(stack)
           frame == [stack[top] EXCEPT !.line = line]
<1>1. stack \in Seq(Frames) /\ top \in Nat /\ top >= 1
  BY LenProperties DEF TypeOK, Rooted
<1>2. stack[top] \in Frames
  BY <1>1, ElementOfSeq
<1>3. frame \in Frames /\ frame = [code |-> stack[top].code, line |-> line]
  BY <1>2 DEF Frames
<1>4. At(line) = [stack EXCEPT ![top] = frame]
  BY DEF At
<1> HIDE DEF frame
<1>5. /\ At(line) \in Seq(Frames) /\ Len(At(line)) = top
      /\ \A j \in 1 .. top : At(line)[j] = IF j = top THEN frame ELSE stack[j]
  BY <1>1, <1>3, <1>4, ExceptSeq
<1> QED  BY <1>1, <1>3, <1>5 DEF SameCodes

(* A call puts one frame on the stack and leaves the functions below.      *)
LEMMA CallStack ==
  ASSUME TypeOK, Rooted, NEW code \in Codes, NEW line \in Lines, Call(code, line)
  PROVE  /\ stack' \in Seq(Frames) /\ Len(stack') = Len(stack) + 1
         /\ \A j \in 1 .. Len(stack) : stack'[j] = At(line)[j]
         /\ stack'[Len(stack) + 1].code = code
         /\ Len(stack) \in Nat \ {0}
         /\ TraceCall(At(line), Len(stack))
         /\ UNCHANGED <<coroutine, depth>> /\ state = "running"
<1> DEFINE frame == [code |-> code, line |-> 1]
<1>1. stack' = Append(At(line), frame) /\ TraceCall(At(line), Len(stack))
  BY DEF Call, At
<1>2. frame \in Frames /\ frame.code = code
  BY TracerAssumption DEF Frames, Lines
<1>3. /\ At(line) \in Seq(Frames) /\ Len(At(line)) = Len(stack)
      /\ Len(stack) \in Nat /\ Len(stack) >= 1
  BY AtIs, LenProperties DEF TypeOK, Rooted
<1> HIDE DEF frame
<1>4. /\ stack' \in Seq(Frames) /\ Len(stack') = Len(stack) + 1
      /\ \A j \in 1 .. Len(stack) : stack'[j] = At(line)[j]
      /\ stack'[Len(stack) + 1] = frame
  BY <1>1, <1>2, <1>3, AppendProperties
<1>5. UNCHANGED <<coroutine, depth>> /\ state = "running"
  BY DEF Call
<1> QED  BY <1>1, <1>2, <1>3, <1>4, <1>5

(* A return takes the frame on the top and nothing else.                   *)
LEMMA ReturnStack ==
  ASSUME TypeOK, Return
  PROVE  /\ stack' \in Seq(Frames) /\ Len(stack') = Len(stack) - 1
         /\ \A j \in 1 .. (Len(stack) - 1) : stack'[j] = stack[j]
         /\ Len(stack) \in Nat \ {0, 1}
<1>1. /\ stack \in Seq(Frames) /\ Len(stack) \in Nat /\ Len(stack) > 1
      /\ stack' = SubSeq(stack, 1, Len(stack) - 1)
  BY LenProperties DEF TypeOK, Return
<1>2. \A i \in 1 .. (Len(stack) - 1) : stack[i] \in Frames
  BY <1>1, ElementOfSeq
<1>3. Len(stack) - 1 \in Int /\ 1 \in Int
  BY <1>1
<1>4. /\ stack' \in Seq(Frames)
      /\ Len(stack') = IF 1 <= Len(stack) - 1 THEN Len(stack) - 1 - 1 + 1 ELSE 0
      /\ \A i \in 1 .. Len(stack) - 1 - 1 + 1 : stack'[i] = stack[1 + i - 1]
  BY <1>1, <1>2, <1>3, SubSeqProperties
<1> QED  BY <1>1, <1>4

(* What an event does to the targets and to the depth it is timed at.      *)
LEMMA EventType ==
  ASSUME TypeOK, NEW stk \in Seq(Frames), NEW e \in 1 .. Len(stk)
  PROVE  /\ SaveFrame(stk, e) \in Seq(Codes) /\ Len(SaveFrame(stk, e)) <= depth
         /\ Len(SaveFrame(stk, e)) >= Len(targets)
         /\ \A k \in 1 .. Len(targets) : SaveFrame(stk, e)[k] = targets[k]
         /\ CurrentDepth(SaveFrame(stk, e), stk, e) \in 0 .. MaxDepth
         /\ stk[e].code \in Codes /\ stk[e].line \in Lines
<1> DEFINE tgt == SaveFrame(stk, e)
<1>1. /\ targets \in Seq(Codes) /\ Len(targets) \in Nat /\ Len(targets) <= depth
      /\ depth \in 1 .. MaxDepth /\ MaxDepth \in Nat /\ Len(stk) \in Nat
  BY TracerAssumption, LenProperties DEF TypeOK
<1>2. e \in Nat \ {0} /\ stk[e] \in Frames
  BY <1>1, ElementOfSeq
<1>3. stk[e].code \in Codes /\ stk[e].line \in Lines
  BY <1>2 DEF Frames
<1>4. /\ tgt \in Seq(Codes) /\ Len(tgt) <= depth /\ Len(tgt) >= Len(targets)
      /\ \A k \in 1 .. Len(targets) : tgt[k] = targets[k]
  <2>1. CASE tgt = targets
    BY <1>1, <2>1
  <2>2. CASE tgt = Append(targets, stk[e].code) /\ Len(targets) # depth
    <3> HIDE DEF tgt
    <3>1. /\ tgt \in Seq(Codes) /\ Len(tgt) = Len(targets) + 1
          /\ \A k \in 1 .. Len(targets) : tgt[k] = targets[k]
      BY <1>1, <1>3, <2>2, AppendProperties
    <3> QED  BY <1>1, <2>2, <3>1
  <2> QED  BY <2>1, <2>2, SaveFrameIs
<1> HIDE DEF tgt
<1>5. CurrentDepth(tgt, stk, e) \in 0 .. Len(tgt) /\ Len(tgt) \in Nat
  BY <1>2, <1>4, DepthByTimes, LenProperties
<1> QED  BY <1>1, <1>3, <1>4, <1>5 DEF tgt

(* If the source of every target is there after an event, it was there     *)
(* before, and the event missed none.                                      *)
LEMMA EventSourced ==
  ASSUME TypeOK, NEW stk \in Seq(Frames), NEW e \in 1 .. Len(stk),
         targets' = SaveFrame(stk, e), Sourced'
  PROVE  Sourced /\ ~ SourceMissing(stk, e)
<1>1. /\ targets \in Seq(Codes) /\ Len(targets) \in Nat
      /\ DOMAIN targets = 1 .. Len(targets)
  BY LenProperties DEF TypeOK
<1>2. stk[e].code \in Codes
  BY EventType
<1>3. CASE SaveFrame(stk, e) = targets
  BY <1>3 DEF Sourced, SourceMissing
<1>4. CASE targets' = Append(targets, stk[e].code)
  <2>1. /\ DOMAIN targets' = 1 .. (Len(targets) + 1)
        /\ \A k \in 1 .. Len(targets) : targets'[k] = targets[k]
        /\ targets'[Len(targets) + 1] = stk[e].code
    BY <1>1, <1>2, <1>4, AppendProperties, LenProperties
  <2>2. Len(targets) + 1 \in DOMAIN targets' /\ \A k \in DOMAIN targets : k \in DOMAIN targets'
    BY <1>1, <2>1
  <2> QED  BY <1>1, <2>1, <2>2 DEF Sourced, SourceMissing
<1> QED  BY <1>3, <1>4, SaveFrameIs

(* A call keeps the types and the target at the bottom.                    *)
LEMMA CallType ==
  ASSUME TypeOK, Rooted, NEW code \in Codes, NEW line \in Lines, Call(code, line)
  PROVE  TypeOK' /\ Rooted'
<1> DEFINE e == Len(stack)
           d == CurrentDepth(SaveFrame(At(line), e), At(line), e)
<1>1. At(line) \in Seq(Frames) /\ e \in 1 .. Len(At(line)) /\ e \in Nat \ {0}
  BY CallStack, AtIs
<1>2. /\ targets' = SaveFrame(At(line), e) /\ UNCHANGED <<coroutine, depth>>
      /\ state' \in {"crashed", "running"}
  BY CallStack DEF TraceCall
<1>3. calls' \subseteq Records
  <2>1. d \in 0 .. MaxDepth /\ At(line)[e].code \in Codes /\ At(line)[e].line \in Lines
    BY <1>1, EventType
  <2>2. \/ calls' = calls
        \/ /\ d # 0
           /\ calls' = calls \cup {[depth |-> d, code |-> At(line)[e].code,
                                    line |-> At(line)[e].line, open |-> TRUE]}
    BY CallStack DEF TraceCall
  <2> HIDE DEF d
  <2>3. MaxDepth \in Nat /\ calls \subseteq Records
    BY TracerAssumption DEF TypeOK
  <2>4. d # 0 => [depth |-> d, code |-> At(line)[e].code,
                  line |-> At(line)[e].line, open |-> TRUE] \in Records
    BY <2>1, <2>3 DEF Records
  <2> QED  BY <2>2, <2>3, <2>4
<1>4. recursed' \in BOOLEAN
  BY DEF Call, TypeOK
<1>5. TypeOK'
  BY <1>1, <1>2, <1>3, <1>4, CallStack, EventType DEF TypeOK
<1>6. Rooted'
  <2>1. stack'[1].code = stack[1].code
    BY <1>1, AtIs, CallStack DEF SameCodes
  <2>2. Len(targets') >= 1 /\ targets'[1] = Target
    <3>1. Len(targets) \in Nat /\ Len(targets') \in Nat
      BY <1>5, LenProperties DEF TypeOK
    <3> QED  BY <1>1, <1>2, <3>1, EventType DEF Rooted
  <2> QED  BY <1>2, <2>1, <2>2, CallStack DEF Rooted
<1> QED  BY <1>5, <1>6

(* The records that are closed are those there were.                       *)
LEMMA CloseKeeps ==
  ASSUME TypeOK, Return
  PROVE  /\ calls' \subseteq Records
         /\ \A r \in calls : \E q \in calls' :
              q.depth = r.depth /\ q.code = r.code /\ q.line = r.line
         /\ \A q \in calls' : \E r \in calls :
              q = r \/ q = [r EXCEPT !.open = FALSE]
<1>1. PICK found \in SUBSET calls :
        calls' \in {calls, (calls \ found) \cup {[r EXCEPT !.open = FALSE] : r \in found}}
  BY DEF Return, TraceReturn, Same
<1>2. calls \subseteq Records
  BY DEF TypeOK
<1>3. \A r \in Records : /\ [r EXCEPT !.open = FALSE] \in Records
                         /\ [r EXCEPT !.open = FALSE].depth = r.depth
                         /\ [r EXCEPT !.open = FALSE].code = r.code
                         /\ [r EXCEPT !.open = FALSE].line = r.line
  BY DEF Records
<1> QED  BY <1>1, <1>2, <1>3

(* A return keeps the types and the target at the bottom.                  *)
LEMMA ReturnType ==
  ASSUME TypeOK, Rooted, Return
  PROVE  TypeOK' /\ Rooted'
<1> DEFINE e == Len(stack) - 1
<1>1. stack \in Seq(Frames) /\ e \in 1 .. Len(stack) /\ e \in Nat \ {0}
  <2>1. stack \in Seq(Frames)
    BY DEF TypeOK
  <2> QED  BY <2>1, ReturnStack
<1>2. /\ targets' = SaveFrame(stack, e) /\ UNCHANGED <<coroutine, depth, recursed>>
      /\ state' \in {"crashed", "running"}
  BY DEF Return, TraceReturn
<1>3. TypeOK'
  BY <1>1, <1>2, CloseKeeps, ReturnStack, EventType DEF TypeOK
<1>4. Len(targets') >= 1 /\ targets'[1] = Target
  <2>1. Len(targets) \in Nat /\ Len(targets') \in Nat
    BY <1>3, LenProperties DEF TypeOK
  <2> QED  BY <1>1, <1>2, <2>1, EventType DEF Rooted
<1> QED  BY <1>1, <1>2, <1>3, <1>4, ReturnStack DEF Rooted

-----------------------------------------------------------------------------
(* The invariant is kept.                                                  *)

(* A call keeps the invariant (profile.py, the events call and c_call).    *)
LEMMA CallKeepsInv ==
  ASSUME TracerInv, NEW code \in Codes, NEW line \in Lines, Call(code, line)
  PROVE  TracerInv'
<1>0. PICK e \in Nat \ {0} : e = Len(stack)
  BY CallStack DEF TracerInv
<1>a. PICK at : at = At(line)
  OBVIOUS
<1> DEFINE d == CurrentDepth(targets', at, e)
<1>1. /\ TypeOK /\ Rooted /\ Distinct /\ Followed
      /\ e = Len(stack) /\ Len(stack') = e + 1
      /\ \A j \in 1 .. e : stack'[j] = at[j]
      /\ \A j \in 1 .. (e - 1) : stack'[j] = stack[j]
      /\ stack'[e + 1].code = code
      /\ SameCodes(stack, at, e) /\ SameCodes(at, stack', e) /\ SameCodes(stack, stack', e)
  <2>1. /\ TypeOK /\ Rooted /\ Distinct /\ Followed
        /\ e = Len(stack) /\ Len(stack') = e + 1
        /\ \A j \in 1 .. e : stack'[j] = at[j]
        /\ stack'[e + 1].code = code
    BY <1>0, <1>a, CallStack DEF TracerInv
  <2>2. SameCodes(stack, at, e)
    BY <1>a, <2>1, AtIs
  <2>3. \A j \in 1 .. e : at[j] = IF j = e THEN [code |-> stack[j].code, line |-> line]
                                          ELSE stack[j]
    BY <1>a, <2>1, AtIs
  <2>4. ASSUME NEW j \in 1 .. (e - 1) PROVE at[j] = stack[j]
    <3>1. j \in 1 .. e /\ j # e
      BY <1>0
    <3> QED  BY <2>3, <3>1
  <2> QED  BY <2>1, <2>2, <2>4 DEF SameCodes
<1>2. /\ targets' = SaveFrame(at, e) /\ UNCHANGED <<coroutine, depth>>
      /\ ~ SourceMissing(at, e) =>
           /\ state' = "running"
           /\ calls' = IF d = 0 \/ Same(at[e], d) # {} THEN calls
                       ELSE calls \cup {[depth |-> d, code |-> at[e].code,
                                         line |-> at[e].line, open |-> TRUE]}
  BY <1>1, <1>a, CallStack DEF TraceCall
<1>3. TypeOK' /\ Rooted'
  BY <1>1, CallType
<1>4. Distinct' /\ (recursed => recursed')
  <2>1. recursed' = (recursed \/ \E i \in 1 .. e : stack[i].code = code)
    BY <1>1 DEF Call
  <2>2. recursed => recursed'
    BY <2>1
  <2>3. ASSUME ~ recursed', NEW i \in 1 .. (e + 1), NEW j \in 1 .. (e + 1),
               stack'[i].code = stack'[j].code
        PROVE  i = j
    <3>1. ~ recursed /\ \A k \in 1 .. e : stack[k].code # code
      BY <2>1, <2>3
    <3>2. \A k \in 1 .. e : stack'[k].code = stack[k].code
      BY <1>1 DEF SameCodes
    <3> QED  BY <1>1, <2>3, <3>1, <3>2 DEF Distinct
  <2> QED  BY <1>1, <2>2, <2>3 DEF Distinct
<1>5. ASSUME ~ (coroutine' /\ recursed'), Sourced'
      PROVE  state' # "crashed" /\ \A i \in 1 .. (Len(stack') - 1) : Settled(i)' /\ Recorded(i)'
  <2>0. Sourced /\ ~ SourceMissing(at, e)
    <3>1. at \in Seq(Frames) /\ e \in 1 .. Len(at)
      BY <1>1, <1>a, AtIs
    <3> QED  BY <1>1, <1>2, <1>5, <3>1, EventSourced
  <2>1. /\ ~ (coroutine /\ recursed)
        /\ \A i \in 1 .. (e - 1) : Settled(i) /\ Recorded(i)
    BY <1>1, <1>2, <1>4, <1>5, <2>0 DEF Followed
  <2>2. ASSUME NEW i \in 1 .. (e - 1) PROVE Settled(i)' /\ Recorded(i)'
    <3>1. \A r \in calls : \E q \in calls' :
            q.depth = r.depth /\ q.code = r.code /\ q.line = r.line
      BY <1>2, <2>0
    <3>2. \A j \in 1 .. i : stack'[j] = stack[j]
      BY <1>1
    <3>3. e \in 1 .. Len(stack)
      BY <1>1
    <3> QED  BY <1>1, <1>2, <2>1, <3>1, <3>2, <3>3, EventKeeps
  <2>3. Settled(e)'
    <3>1. \/ Len(targets') = depth
          \/ Times(targets', stack[e].code) > SameBelow(stack, e)
          \/ coroutine /\ ~ (e > 1 /\ \E k \in DOMAIN targets' : targets'[k] = stack[e - 1].code)
      BY <1>1, <1>2, <2>1, TopSettles
    <3>2. SameBelow(stack', e) = SameBelow(stack, e)
      BY <1>1, DepthNeedsCodes
    <3>3. stack'[e].code = stack[e].code /\ (e > 1 => stack'[e - 1] = stack[e - 1])
      BY <1>1 DEF SameCodes
    <3> QED  BY <1>1, <1>2, <3>1, <3>2, <3>3 DEF Settled, IsTarget
  <2>4. Recorded(e)'
    <3>1. CurrentDepth(targets', stack', e) = d /\ stack'[e] = at[e]
      BY <1>1, DepthNeedsCodes
    <3> HIDE DEF d
    <3>2. d # 0 => \E q \in calls' :
            q.depth = d /\ q.code = at[e].code /\ q.line = at[e].line
      <4>1. CASE Same(at[e], d) # {}
        BY <1>2, <2>0, <4>1 DEF Same
      <4>2. CASE Same(at[e], d) = {} /\ d # 0
        <5> DEFINE new == [depth |-> d, code |-> at[e].code,
                           line |-> at[e].line, open |-> TRUE]
        <5>1. new \in calls' /\ new.depth = d /\ new.code = at[e].code /\ new.line = at[e].line
          BY <1>2, <2>0, <4>2
        <5> QED  BY <5>1
      <4> QED  BY <4>1, <4>2
    <3> QED  BY <3>1, <3>2 DEF Recorded, Same
  <2>5. state' # "crashed"
    BY <1>2, <2>0
  <2>6. \A i \in 1 .. (Len(stack') - 1) : i \in 1 .. (e - 1) \/ i = e
    BY <1>1
  <2> QED  BY <2>2, <2>3, <2>4, <2>5, <2>6
<1> QED  BY <1>3, <1>4, <1>5 DEF TracerInv, Followed

(* A return keeps the invariant (profile.py, the events return and         *)
(* c_return).                                                              *)
LEMMA ReturnKeepsInv ==
  ASSUME TracerInv, Return
  PROVE  TracerInv'
<1>0. PICK e \in Nat \ {0} : e = Len(stack) - 1
  BY ReturnStack DEF TracerInv
<1> DEFINE d == CurrentDepth(targets', stack, e)
<1>1. /\ TypeOK /\ Rooted /\ Distinct /\ Followed
      /\ e = Len(stack) - 1 /\ e \in 1 .. Len(stack)
      /\ Len(stack) \in Nat /\ Len(stack') = e
      /\ \A j \in 1 .. e : stack'[j] = stack[j]
      /\ SameCodes(stack, stack, e)
  BY <1>0, ReturnStack DEF TracerInv, SameCodes
<1>2. /\ targets' = SaveFrame(stack, e) /\ UNCHANGED <<coroutine, depth, recursed>>
      /\ state' = IF SourceMissing(stack, e) \/ (d # 0 /\ Same(stack[e], d) = {})
                  THEN "crashed" ELSE "running"
  BY <1>0 DEF Return, TraceReturn
<1>3. TypeOK' /\ Rooted'
  BY <1>1, ReturnType
<1>4. Distinct'
  BY <1>1, <1>2 DEF Distinct
<1>5. ASSUME ~ (coroutine' /\ recursed'), Sourced'
      PROVE  state' # "crashed" /\ \A i \in 1 .. (Len(stack') - 1) : Settled(i)' /\ Recorded(i)'
  <2>0. Sourced /\ ~ SourceMissing(stack, e)
    BY <1>1, <1>2, <1>5, EventSourced DEF TypeOK
  <2>1. /\ ~ (coroutine /\ recursed)
        /\ \A i \in 1 .. e : Settled(i) /\ Recorded(i)
    BY <1>1, <1>2, <1>5, <2>0 DEF Followed
  <2>2. d # 0 => Same(stack[e], d) # {}
    <3>1. targets' = SaveFrame(stack, e)
      BY <1>2
    <3>2. e \in 1 .. e /\ Settled(e) /\ Recorded(e)
      BY <1>0, <2>1
    <3> QED  BY <1>1, <2>1, <3>1, <3>2, ReturnFinds
  <2>3. state' # "crashed"
    BY <1>2, <2>0, <2>2
  <2>4. ASSUME NEW i \in 1 .. (e - 1) PROVE Settled(i)' /\ Recorded(i)'
    <3>1. \A r \in calls : \E q \in calls' :
            q.depth = r.depth /\ q.code = r.code /\ q.line = r.line
      BY <1>1, CloseKeeps
    <3>2. i \in 1 .. e /\ \A j \in 1 .. i : stack'[j] = stack[j]
      BY <1>1
    <3> QED  BY <1>1, <1>2, <2>1, <3>1, <3>2, EventKeeps
  <2> QED  BY <1>1, <2>3, <2>4
<1> QED  BY <1>3, <1>4, <1>5 DEF TracerInv, Followed

(* Another function of the loop below a coroutine keeps the invariant,     *)
(* which says nothing of coroutines' stacks.                               *)
LEMMA SwitchKeepsInv ==
  ASSUME TracerInv, NEW code \in Codes, Switch(code)
  PROVE  TracerInv'
<1> DEFINE frame == [code |-> code, line |-> 1]
<1>1. frame \in Frames
  BY TracerAssumption DEF Frames, Lines
<1> HIDE DEF frame
<1>2. /\ coroutine /\ state = "running" /\ stack' = <<frame>>
      /\ UNCHANGED <<coroutine, depth, targets, calls, recursed, state>>
  BY DEF Switch, frame
<1>3. Len(stack') = 1 /\ stack' \in Seq(Frames)
  BY <1>1, <1>2
<1> QED  BY <1>2, <1>3 DEF TracerInv, TypeOK, Rooted, Distinct, Followed

LEMMA InitInv == Init => TracerInv
<1> SUFFICES ASSUME Init PROVE TracerInv
  OBVIOUS
<1> DEFINE frame == [code |-> Target, line |-> 1]
<1>1. frame \in Frames /\ frame.code = Target /\ Target \in Codes
  BY TracerAssumption DEF Frames, Lines
<1> HIDE DEF frame
<1>2. stack = <<frame>> /\ targets = <<Target>>
  BY DEF Init, frame
<1>3. /\ Len(stack) = 1 /\ stack \in Seq(Frames) /\ stack[1] = frame
      /\ Len(targets) = 1 /\ targets \in Seq(Codes) /\ targets[1] = Target
  BY <1>1, <1>2
<1>4. depth \in 1 .. MaxDepth /\ depth >= 1
  BY TracerAssumption DEF Init
<1>5. TypeOK
  BY <1>3, <1>4 DEF Init, TypeOK
<1> QED  BY <1>1, <1>3, <1>5 DEF Init, TracerInv, Rooted, Distinct, Followed

(* Every action keeps the invariant.                                       *)
LEMMA NextInv == TracerInv /\ [Next]_vars => TracerInv'
<1> SUFFICES ASSUME TracerInv, [Next]_vars PROVE TracerInv'
  OBVIOUS
<1>1. ASSUME NEW code \in Codes, NEW line \in Lines, Call(code, line) PROVE TracerInv'
  BY <1>1, CallKeepsInv
<1>2. CASE Return
  BY <1>2, ReturnKeepsInv
<1>3. ASSUME NEW code \in Codes, Switch(code) PROVE TracerInv'
  BY <1>3, SwitchKeepsInv
<1>4. ASSUME UNCHANGED <<coroutine, depth, targets, calls, stack, recursed>>,
             state' \in {state, "stopped"}
      PROVE  TracerInv'
  <2>1. TypeOK' /\ Rooted' /\ Distinct'
    BY <1>4 DEF TracerInv, TypeOK, Rooted, Distinct
  <2>2. ASSUME NEW i, Settled(i), Recorded(i) PROVE Settled(i)' /\ Recorded(i)'
    BY <1>4, <2>2 DEF Settled, Recorded, IsTarget, Same
  <2>3. Followed'
    BY <1>4, <2>2 DEF TracerInv, Followed, Sourced
  <2> QED  BY <2>1, <2>3 DEF TracerInv
<1> QED  BY <1>1, <1>2, <1>3, <1>4 DEF Next, Stop, Over, vars

(* The invariant holds in every state of a trace.                          *)
LEMMA Traced == Spec => []TracerInv
BY InitInv, NextInv, PTL DEF Spec

(* Every variable keeps its type: the targets never outnumber the depth.   *)
THEOREM TypeCorrect == Spec => []TypeOK
<1>1. TracerInv => TypeOK
  BY DEF TracerInv
<1> QED  BY <1>1, Traced, PTL

(* The tracer raises into no program that it watches, whatever the program *)
(* calls, but a coroutine that recurses and, with a depth of 2 or more, one*)
(* that calls a function without source (profile.py:90-93, 134-148, 212).  *)
THEOREM RaisesInTwoCases == Spec => []RaisesForAReason
<1>1. TracerInv => RaisesForAReason
  <2> SUFFICES ASSUME TracerInv, state = "crashed", ~ (coroutine /\ recursed)
               PROVE  depth > 1 /\ ~ Sourced
    BY DEF RaisesForAReason
  <2>1. ~ Sourced
    BY DEF TracerInv, Followed
  <2>2. /\ DOMAIN targets = 1 .. Len(targets) /\ Len(targets) \in Nat
        /\ Len(targets) <= depth /\ depth \in Nat
        /\ targets[1] \notin Sourceless
    BY TracerAssumption, LenProperties DEF TracerInv, TypeOK, Rooted
  <2>3. PICK k \in 1 .. Len(targets) : targets[k] \in Sourceless
    BY <2>1, <2>2 DEF Sourced
  <2>4. k # 1
    BY <2>2, <2>3
  <2> QED  BY <2>1, <2>2, <2>3, <2>4
<1> QED  BY <1>1, Traced, PTL

-----------------------------------------------------------------------------
(* The report.                                                             *)

(* A line has one record at a depth.                                       *)
OneRecord ==
  \A q, r \in calls :
    q.depth = r.depth /\ q.code = r.code /\ q.line = r.line => q = r

(* Without recursion a record is at the place of its function.             *)
Placed ==
  ~ recursed =>
    \A r \in calls : r.depth \in 1 .. Len(targets) /\ targets[r.depth] = r.code

Injective(tgt) == \A j, k \in DOMAIN tgt : tgt[j] = tgt[k] => j = k

(* To depth 2 a function then has one place, and an open record belongs to *)
(* a frame that waits for a call.                                          *)
Closed ==
  ~ recursed /\ depth <= 2 =>
    /\ Injective(targets)
    /\ \A r \in calls : r.open =>
         \E i \in 1 .. (Len(stack) - 1) : r.code = stack[i].code /\ r.line = stack[i].line

ReportInv == TracerInv /\ (Sourced => OneRecord /\ Placed /\ Closed)

(* Without recursion a frame is timed where its function has a place.      *)
LEMMA DepthIsPlace ==
  ASSUME TypeOK, Distinct, ~ recursed, NEW e \in 1 .. Len(stack),
         NEW tgt \in Seq(Codes), NEW stk, SameCodes(stack, stk, e)
  PROVE  LET d == CurrentDepth(tgt, stk, e)
         IN /\ d # 0 => d \in 1 .. Len(tgt) /\ tgt[d] = stk[e].code
            /\ \A k \in 1 .. Len(tgt) :
                 Injective(tgt) /\ tgt[k] = stk[e].code => d = k
<1> DEFINE c == stk[e].code
           n == Times(tgt, c)
           d == CurrentDepth(tgt, stk, e)
<1>1. /\ Len(stack) \in Nat /\ e \in Nat \ {0} /\ Len(tgt) \in Nat
      /\ DOMAIN tgt = 1 .. Len(tgt)
  BY LenProperties DEF TypeOK
<1>2. SameBelow(stk, e) = 0
  <2>1. SameBelow(stack, e) \in 0 .. (e - 1)
    BY <1>1, SameBelowType
  <2>2. e > 1 => SameBelow(stack, e) = 0
    <3>1. e > 1 => stack[e - 1].code # stack[e].code
      BY <1>1 DEF Distinct
    <3> QED  BY <1>1, <3>1, SameBelowNext
  <2>3. SameBelow(stk, e) = SameBelow(stack, e)
    BY <1>1, DepthNeedsCodes
  <2> QED  BY <1>1, <2>1, <2>2, <2>3
<1>3. /\ n \in Nat /\ (n = 0 <=> Places(tgt, c) = {})
      /\ n = 0 => d = 0
      /\ n = 1 => Places(tgt, c) = {d} /\ d \in 1 .. Len(tgt)
      /\ n > 1 => d = 0
  <2>1. n \in 0 .. Len(tgt) /\ (n = 0 <=> Places(tgt, c) = {})
    BY TimesType
  <2>2. /\ n = 0 => d = 0
        /\ n = 1 => Places(tgt, c) = {d} /\ d \in 1 .. Len(tgt)
        /\ n > 1 => d = IF SameBelow(stk, e) >= n THEN 0 ELSE SameBelow(stk, e)
    <3>1. e \in Nat \ {0}
      BY <1>1
    <3> QED  BY <3>1, DepthByTimes, Zenon
  <2> QED  BY <1>1, <1>2, <2>1, <2>2
<1> HIDE DEF n, d
<1>4. d # 0 => d \in 1 .. Len(tgt) /\ tgt[d] = c
  BY <1>3 DEF Places
<1>5. ASSUME NEW k \in 1 .. Len(tgt), Injective(tgt), tgt[k] = c PROVE d = k
  <2>1. Places(tgt, c) = {k}
    BY <1>1, <1>5 DEF Places, Injective
  <2>2. n = 1
    BY <2>1, FS_Singleton DEF n, Times
  <2> QED  BY <1>3, <2>1, <2>2
<1> QED  BY <1>4, <1>5 DEF d

(* The second target is called by the first and is not the same function.  *)
LEMMA InjectiveStays ==
  ASSUME TypeOK, Rooted, Distinct, ~ recursed, depth <= 2, Injective(targets),
         NEW e \in 1 .. Len(stack), NEW at, SameCodes(stack, at, e)
  PROVE  Injective(SaveFrame(at, e))
<1> DEFINE c == stack[e].code
<1>1. /\ targets \in Seq(Codes) /\ Len(targets) \in Nat /\ stack \in Seq(Frames)
      /\ Len(targets) <= depth /\ depth \in Nat /\ Len(targets) >= 1
      /\ Len(stack) \in Nat /\ e \in Nat \ {0}
      /\ DOMAIN targets = 1 .. Len(targets)
  BY TracerAssumption, LenProperties DEF TypeOK, Rooted
<1>2. c \in Codes /\ at[e].code = c /\ (e > 1 => at[e - 1].code = stack[e - 1].code)
  <2>1. stack[e] \in Frames
    BY <1>1, ElementOfSeq
  <2> QED  BY <1>1, <2>1 DEF Frames, SameCodes
<1>3. CASE /\ SaveFrame(at, e) = Append(targets, c)
           /\ Len(targets) # depth /\ IsTarget(at, e - 1)
  <2>1. Len(targets) = 1
    <3>1. Len(targets) # depth
      BY <1>3, Zenon
    <3>2. \A l, m \in Nat : 1 <= l /\ l <= m /\ l # m /\ m <= 2 => l = 1
      OBVIOUS
    <3>3. Len(targets) \in Nat /\ depth \in Nat /\ 1 <= Len(targets) /\ Len(targets) <= depth
      BY <1>1
    <3> QED  BY <3>1, <3>2, <3>3, Zenon
  <2>2. targets[1] # c
    <3>1. e > 1 /\ targets[1] = stack[e - 1].code
      BY <1>1, <1>2, <1>3, <2>1 DEF IsTarget
    <3> QED  BY <1>1, <3>1 DEF Distinct
  <2>3. /\ DOMAIN Append(targets, c) = 1 .. 2
        /\ Append(targets, c)[1] = targets[1] /\ Append(targets, c)[2] = c
    <3> DEFINE longer == Append(targets, c)
    <3>1. /\ longer \in Seq(Codes) /\ Len(longer) = 2
          /\ longer[1] = targets[1] /\ longer[2] = c
      <4>1. /\ longer \in Seq(Codes) /\ Len(longer) = Len(targets) + 1
            /\ \A k \in 1 .. Len(targets) : longer[k] = targets[k]
            /\ longer[Len(targets) + 1] = c
        BY <1>1, <1>2, AppendProperties
      <4> HIDE DEF longer
      <4> QED  BY <2>1, <4>1
    <3> HIDE DEF longer
    <3>2. DOMAIN longer = 1 .. 2
      BY <3>1, LenProperties
    <3> QED  BY <3>1, <3>2 DEF longer
  <2> QED  BY <1>3, <2>2, <2>3 DEF Injective
<1> QED  BY <1>2, <1>3, SaveFrameIs

(* A call keeps what the report needs.                                     *)
LEMMA CallReports ==
  ASSUME ReportInv, NEW code \in Codes, NEW line \in Lines, Call(code, line)
  PROVE  ReportInv'
<1> SUFFICES ASSUME Sourced' PROVE OneRecord' /\ Placed' /\ Closed'
  BY CallKeepsInv DEF ReportInv
<1>0. PICK e \in Nat \ {0} : e = Len(stack)
  BY CallStack DEF ReportInv, TracerInv
<1>a. PICK at : at = At(line)
  OBVIOUS
<1> DEFINE d == CurrentDepth(targets', at, e)
           new == [depth |-> d, code |-> at[e].code, line |-> at[e].line, open |-> TRUE]
<1>b. Sourced /\ ~ SourceMissing(at, e)
  <2>1. TypeOK /\ Rooted
    BY DEF ReportInv, TracerInv
  <2>2. at \in Seq(Frames) /\ e \in 1 .. Len(at)
    BY <1>0, <1>a, <2>1, AtIs
  <2>3. targets' = SaveFrame(at, e)
    BY <1>0, <1>a, <2>1, CallStack DEF TraceCall
  <2> QED  BY <2>1, <2>2, <2>3, EventSourced
<1>1. /\ TypeOK /\ Rooted /\ Distinct /\ OneRecord /\ Placed /\ Closed
      /\ TracerInv' /\ TypeOK' /\ e \in 1 .. Len(stack) /\ Len(stack') = e + 1
      /\ \A j \in 1 .. e : stack'[j] = at[j]
      /\ \A j \in 1 .. e : j < e => stack'[j] = stack[j]
      /\ SameCodes(stack, at, e) /\ at \in Seq(Frames) /\ e \in 1 .. Len(at)
  <2>1. /\ TypeOK /\ Rooted /\ Distinct /\ OneRecord /\ Placed /\ Closed
        /\ TracerInv' /\ TypeOK'
    BY <1>b, CallKeepsInv DEF ReportInv, TracerInv
  <2>2. e \in 1 .. Len(stack) /\ Len(stack') = e + 1 /\ \A j \in 1 .. e : stack'[j] = at[j]
    BY <1>0, <1>a, <2>1, CallStack
  <2>3. SameCodes(stack, at, e) /\ at \in Seq(Frames) /\ e \in 1 .. Len(at)
    BY <1>0, <1>a, <2>1, AtIs
  <2>4. \A j \in 1 .. e : at[j] = IF j = e THEN [code |-> stack[j].code, line |-> line]
                                          ELSE stack[j]
    BY <1>0, <1>a, <2>1, AtIs
  <2>5. ASSUME NEW j \in 1 .. e, j < e PROVE stack'[j] = stack[j]
    <3>1. j # e
      BY <2>5
    <3> QED  BY <2>2, <2>4, <3>1
  <2> QED  BY <2>1, <2>2, <2>3, <2>5
<1>2. /\ targets' = SaveFrame(at, e) /\ UNCHANGED depth /\ (recursed => recursed')
      /\ calls' = IF d = 0 \/ Same(at[e], d) # {} THEN calls ELSE calls \cup {new}
  <2>1. TraceCall(at, e) /\ UNCHANGED depth
    BY <1>0, <1>1, <1>a, CallStack
  <2>2. recursed => recursed'
    BY DEF Call
  <2> QED  BY <1>b, <2>1, <2>2 DEF TraceCall
<1>3. calls' = calls \/ (d # 0 /\ Same(at[e], d) = {} /\ calls' = calls \cup {new})
  BY <1>2
<1>4. /\ targets' \in Seq(Codes) /\ Len(targets) <= Len(targets')
      /\ \A k \in 1 .. Len(targets) : targets'[k] = targets[k]
      /\ Len(targets) \in Nat /\ Len(targets') \in Nat
  <2>1. Len(targets) \in Nat /\ Len(targets') \in Nat
    BY <1>1, LenProperties DEF TypeOK
  <2> QED  BY <1>1, <1>2, <2>1, EventType
<1>5. OneRecord'
  <2>1. CASE calls' = calls
    BY <1>1, <2>1 DEF OneRecord
  <2>2. CASE Same(at[e], d) = {} /\ calls' = calls \cup {new}
    <3>1. \A r \in calls : ~ (r.depth = new.depth /\ r.code = new.code /\ r.line = new.line)
      BY <2>2 DEF Same
    <3> HIDE DEF new
    <3> QED  BY <1>1, <2>2, <3>1 DEF OneRecord
  <2> QED  BY <1>3, <2>1, <2>2
<1>6. ASSUME ~ recursed'
      PROVE  \A r \in calls' : r.depth \in 1 .. Len(targets') /\ targets'[r.depth] = r.code
  <2>1. ~ recursed
    BY <1>2, <1>6
  <2>2. \A r \in calls : r.depth \in 1 .. Len(targets') /\ targets'[r.depth] = r.code
    <3>1. \A k \in 1 .. Len(targets) : k \in 1 .. Len(targets') /\ targets'[k] = targets[k]
      BY <1>4
    <3>2. \A r \in calls : r.depth \in 1 .. Len(targets) /\ targets[r.depth] = r.code
      BY <1>1, <2>1 DEF Placed
    <3> QED  BY <3>1, <3>2, Zenon
  <2>3. d # 0 => d \in 1 .. Len(targets') /\ targets'[d] = at[e].code
    BY <1>1, <1>4, <2>1, DepthIsPlace
  <2>4. new.depth = d /\ new.code = at[e].code
    OBVIOUS
  <2> HIDE DEF d, new
  <2> QED  BY <1>3, <2>2, <2>3, <2>4
<1>7. ASSUME ~ recursed', depth' <= 2
      PROVE  /\ Injective(targets')
             /\ \A r \in calls' : r.open => \E i \in 1 .. (Len(stack') - 1) :
                  r.code = stack'[i].code /\ r.line = stack'[i].line
  <2>1. ~ recursed /\ depth <= 2
    BY <1>2, <1>7
  <2>2. Injective(targets')
    BY <1>1, <1>2, <2>1, InjectiveStays DEF Closed
  <2>3. ASSUME NEW r \in calls, r.open
        PROVE  \E i \in 1 .. (Len(stack') - 1) : r.code = stack'[i].code /\ r.line = stack'[i].line
    <3>1. PICK i \in 1 .. (Len(stack) - 1) : r.code = stack[i].code /\ r.line = stack[i].line
      BY <1>1, <2>1, <2>3 DEF Closed
    <3>2. i \in 1 .. e /\ i < e /\ i \in 1 .. (Len(stack') - 1)
      BY <1>0, <1>1
    <3> QED  BY <1>1, <3>1, <3>2
  <2>4. \E i \in 1 .. (Len(stack') - 1) : new.code = stack'[i].code /\ new.line = stack'[i].line
    <3>1. e \in 1 .. (Len(stack') - 1) /\ stack'[e] = at[e]
      BY <1>0, <1>1
    <3>2. new.code = at[e].code /\ new.line = at[e].line
      OBVIOUS
    <3> HIDE DEF new
    <3> QED  BY <3>1, <3>2
  <2> HIDE DEF new
  <2> QED  BY <1>3, <2>2, <2>3, <2>4
<1> QED  BY <1>5, <1>6, <1>7 DEF Placed, Closed

(* A return keeps what the report needs.                                   *)
LEMMA ReturnReports ==
  ASSUME ReportInv, Return
  PROVE  ReportInv'
<1> SUFFICES ASSUME Sourced' PROVE OneRecord' /\ Placed' /\ Closed'
  BY ReturnKeepsInv DEF ReportInv
<1>0. PICK e \in Nat \ {0} : e = Len(stack) - 1
  BY ReturnStack DEF ReportInv, TracerInv
<1> DEFINE d == CurrentDepth(targets', stack, e)
<1>b. Sourced /\ ~ SourceMissing(stack, e)
  <2>1. TypeOK /\ stack \in Seq(Frames) /\ e \in 1 .. Len(stack)
    BY <1>0, ReturnStack DEF ReportInv, TracerInv, TypeOK
  <2>2. targets' = SaveFrame(stack, e)
    BY <1>0 DEF Return, TraceReturn
  <2> QED  BY <2>1, <2>2, EventSourced
<1>1. /\ TypeOK /\ Rooted /\ Distinct /\ OneRecord /\ Placed /\ Closed
      /\ TracerInv' /\ TypeOK' /\ e \in 1 .. Len(stack) /\ Len(stack') = e
      /\ \A j \in 1 .. e : stack'[j] = stack[j]
      /\ SameCodes(stack, stack, e) /\ stack \in Seq(Frames)
  <2>1. /\ TypeOK /\ Rooted /\ Distinct /\ OneRecord /\ Placed /\ Closed
        /\ TracerInv' /\ TypeOK'
    BY <1>b, ReturnKeepsInv DEF ReportInv, TracerInv
  <2>2. /\ e \in 1 .. Len(stack) /\ Len(stack') = e
        /\ \A j \in 1 .. e : stack'[j] = stack[j]
    BY <1>0, <2>1, ReturnStack
  <2>3. stack \in Seq(Frames)
    BY <2>1 DEF TypeOK
  <2> QED  BY <2>1, <2>2, <2>3 DEF SameCodes
<1>2. /\ targets' = SaveFrame(stack, e) /\ UNCHANGED <<depth, recursed>>
      /\ calls' = IF d = 0 THEN calls
                  ELSE (calls \ Same(stack[e], d)) \cup
                       {[r EXCEPT !.open = FALSE] : r \in Same(stack[e], d)}
  BY <1>0, <1>b DEF Return, TraceReturn
<1>3. /\ targets' \in Seq(Codes) /\ Len(targets) <= Len(targets')
      /\ \A k \in 1 .. Len(targets) : targets'[k] = targets[k]
      /\ Len(targets) \in Nat /\ Len(targets') \in Nat
  <2>1. Len(targets) \in Nat /\ Len(targets') \in Nat
    BY <1>1, LenProperties DEF TypeOK
  <2> QED  BY <1>1, <1>2, <2>1, EventType
<1>4. \A r \in calls : /\ r \in Records
                       /\ [r EXCEPT !.open = FALSE].depth = r.depth
                       /\ [r EXCEPT !.open = FALSE].code = r.code
                       /\ [r EXCEPT !.open = FALSE].line = r.line
                       /\ ~ [r EXCEPT !.open = FALSE].open
  BY <1>1 DEF TypeOK, Records
<1>5. \A q \in calls' : \E r \in calls :
        /\ q.depth = r.depth /\ q.code = r.code /\ q.line = r.line
        /\ \/ q = r /\ (d # 0 => r \notin Same(stack[e], d))
           \/ d # 0 /\ r \in Same(stack[e], d) /\ q = [r EXCEPT !.open = FALSE]
  <2> HIDE DEF d
  <2>1. Same(stack[e], d) \subseteq calls
    BY DEF Same
  <2> QED  BY <1>2, <1>4, <2>1
<1>6. OneRecord'
  <2> SUFFICES ASSUME NEW p \in calls', NEW q \in calls',
                      p.depth = q.depth /\ p.code = q.code /\ p.line = q.line
               PROVE  p = q
    BY DEF OneRecord
  <2> HIDE DEF d
  <2>1. PICK r \in calls :
          /\ p.depth = r.depth /\ p.code = r.code /\ p.line = r.line
          /\ \/ p = r /\ (d # 0 => r \notin Same(stack[e], d))
             \/ d # 0 /\ r \in Same(stack[e], d) /\ p = [r EXCEPT !.open = FALSE]
    BY <1>5
  <2>2. PICK s \in calls :
          /\ q.depth = s.depth /\ q.code = s.code /\ q.line = s.line
          /\ \/ q = s /\ (d # 0 => s \notin Same(stack[e], d))
             \/ d # 0 /\ s \in Same(stack[e], d) /\ q = [s EXCEPT !.open = FALSE]
    BY <1>5
  <2>3. r = s
    BY <1>1, <2>1, <2>2 DEF OneRecord
  <2> QED  BY <2>1, <2>2, <2>3
<1>7. ASSUME ~ recursed'
      PROVE  \A q \in calls' : q.depth \in 1 .. Len(targets') /\ targets'[q.depth] = q.code
  <2>1. \A r \in calls : r.depth \in 1 .. Len(targets') /\ targets'[r.depth] = r.code
    BY <1>1, <1>2, <1>3, <1>7 DEF Placed
  <2> HIDE DEF d
  <2> QED  BY <1>5, <2>1
<1>8. ASSUME ~ recursed', depth' <= 2
      PROVE  /\ Injective(targets')
             /\ \A q \in calls' : q.open => \E i \in 1 .. (Len(stack') - 1) :
                  q.code = stack'[i].code /\ q.line = stack'[i].line
  <2>1. ~ recursed /\ depth <= 2
    BY <1>2, <1>8
  <2>2. Injective(targets')
    BY <1>1, <1>2, <2>1, InjectiveStays DEF Closed
  <2>3. ASSUME NEW q \in calls', q.open
        PROVE  \E i \in 1 .. (Len(stack') - 1) : q.code = stack'[i].code /\ q.line = stack'[i].line
    <3>1. q \in calls /\ (d # 0 => q \notin Same(stack[e], d))
      BY <1>4, <1>5, <2>3
    <3>2. PICK i \in 1 .. (Len(stack) - 1) : q.code = stack[i].code /\ q.line = stack[i].line
      BY <1>1, <2>1, <2>3, <3>1 DEF Closed
    <3>3. i # e
      <4> SUFFICES ASSUME i = e PROVE FALSE
        OBVIOUS
      <4>1. q.depth \in 1 .. Len(targets') /\ targets'[q.depth] = stack[e].code
        BY <1>1, <1>3, <2>1, <3>1, <3>2 DEF Placed
      <4>2. d = q.depth
        BY <1>1, <1>3, <2>1, <2>2, <4>1, DepthIsPlace
      <4>3. d # 0
        BY <4>1, <4>2
      <4> QED  BY <3>1, <3>2, <4>2, <4>3 DEF Same
    <3>4. i \in 1 .. e /\ i \in 1 .. (Len(stack') - 1)
      BY <1>0, <1>1, <3>3
    <3> QED  BY <1>1, <3>2, <3>4
  <2> QED  BY <2>2, <2>3
<1> QED  BY <1>6, <1>7, <1>8 DEF Placed, Closed

(* What the report needs holds in every state of a trace.                  *)
LEMMA Reported == Spec => []ReportInv
<1>1. Init => ReportInv
  <2> SUFFICES ASSUME Init PROVE ReportInv
    OBVIOUS
  <2>1. TracerInv /\ targets = <<Target>> /\ calls = {}
    BY InitInv DEF Init
  <2>2. Injective(targets)
    BY <2>1 DEF Injective
  <2> QED  BY <2>1, <2>2 DEF ReportInv, OneRecord, Placed, Closed
<1>2. ReportInv /\ [Next]_vars => ReportInv'
  <2> SUFFICES ASSUME ReportInv, [Next]_vars PROVE ReportInv'
    OBVIOUS
  <2>1. ASSUME NEW code \in Codes, NEW line \in Lines, Call(code, line) PROVE ReportInv'
    BY <2>1, CallReports
  <2>2. CASE Return
    BY <2>2, ReturnReports
  <2>3. TracerInv'
    BY NextInv DEF ReportInv
  <2>4. ASSUME NEW code \in Codes, Switch(code) PROVE ReportInv'
    <3>1. Len(stack) = 1
      BY <2>4 DEF Switch
    <3> QED  BY <2>3, <2>4, <3>1 DEF Switch, ReportInv, OneRecord, Placed, Closed, Sourced
  <2>5. CASE Stop \/ UNCHANGED vars
    BY <2>3, <2>5 DEF Stop, vars, ReportInv, OneRecord, Placed, Closed, Sourced
  <2> QED  BY <2>1, <2>2, <2>4, <2>5 DEF Next, Over
<1> QED  BY <1>1, <1>2, PTL DEF Spec

(* The report places every line at the depth of its function; to depth 2   *)
(* it has each line once, and knows every time when the profile stops      *)
(* (profile.py:90-93, 143-147, 230-244).                                   *)
THEOREM ReportsAreRight == Spec => []ReportRight
<1>1. ReportInv => ReportRight
  <2> SUFFICES ASSUME ReportInv, Sourced, ~ recursed, NEW r \in Report
               PROVE  /\ r.depth <= Len(targets) /\ targets[r.depth] = r.code
                      /\ depth <= 2 =>
                           /\ r.open => r \in InProgress
                           /\ \A q \in Report : q.code = r.code /\ q.line = r.line => q = r
    BY DEF ReportRight
  <2>1. Len(targets) \in Nat /\ DOMAIN targets = 1 .. Len(targets) /\ calls \subseteq Records
    BY LenProperties DEF ReportInv, TracerInv, TypeOK
  <2>2. ASSUME NEW q \in Report
        PROVE  /\ q.depth \in 1 .. Len(targets) /\ targets[q.depth] = q.code
               /\ \/ q \in calls
                  \/ /\ q = Unseen(q.depth, q.line) /\ ~ q.open
                     /\ \A p \in calls : ~ (p.depth = q.depth /\ p.code = q.code /\ p.line = q.line)
    <3>1. CASE q \in calls
      BY <3>1 DEF ReportInv, Placed
    <3>2. CASE q \notin calls
      <4>1. PICK d \in DOMAIN targets, line \in Lines : q = Unseen(d, line)
        BY <3>2 DEF Report
      <4>2. q.depth = d /\ q.line = line /\ q.code = targets[d] /\ q.open = FALSE
        BY <4>1 DEF Unseen
      <4>3. Same([code |-> q.code, line |-> q.line], q.depth) = {}
        BY <3>2 DEF Report
      <4> QED  BY <2>1, <4>1, <4>2, <4>3 DEF Same
    <3> QED  BY <3>1, <3>2
  <2>3. r.depth <= Len(targets) /\ targets[r.depth] = r.code
    BY <2>1, <2>2
  <2>4. ASSUME depth <= 2, r.open PROVE r \in InProgress
    <3>1. r \in calls /\ r \in Records
      BY <2>1, <2>2, <2>4
    <3> QED  BY <2>4, <3>1 DEF ReportInv, Closed, InProgress
  <2>5. ASSUME depth <= 2, NEW q \in Report, q.code = r.code, q.line = r.line PROVE q = r
    <3>1. q.depth = r.depth
      BY <2>1, <2>2, <2>5 DEF ReportInv, Closed, Injective
    <3>2. CASE q \in calls /\ r \in calls
      BY <2>5, <3>1, <3>2 DEF ReportInv, OneRecord
    <3>3. CASE q \notin calls /\ r \notin calls
      BY <2>2, <2>5, <3>1, <3>3
    <3>4. CASE (q \in calls) # (r \in calls)
      BY <2>2, <2>5, <3>1, <3>4
    <3> QED  BY <3>2, <3>3, <3>4
  <2> QED  BY <2>3, <2>4, <2>5
<1> QED  BY <1>1, Reported, PTL

=============================================================================
