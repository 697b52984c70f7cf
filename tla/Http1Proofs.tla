----------------------------- MODULE Http1Proofs -----------------------------
(***************************************************************************)
(* Proofs about Http1 for any messages and any cuts of the network.        *)
(***************************************************************************)
EXTENDS Http1, NumberLemmas, SequenceTheorems

States == {"start", "head", "body", "refused", "raised"}

Readings ==
  [state : States, first : Seq(Lines), head : Seq(Lines), body : Seq(Lines), done : Nat]

(* g[k] is what a parser has made of the first k lines of c, line by line. *)
StepsTo(g, c, r) ==
  /\ g \in [0 .. Len(c) -> Readings]
  /\ g[0] = NothingRead
  /\ g[Len(c)] = r

SimpleStep(g, c) == \A k \in 0 .. (Len(c) - 1) : g[k + 1] = SimpleLine(g[k], c[k + 1])
ToolsStep(g, c)  == \A k \in 0 .. (Len(c) - 1) : g[k + 1] = ToolsLine(g[k], c[k + 1])

(* The two other changes of a reading that a line can make.                *)
BeginBody(m) == [m EXCEPT !.state = "body", !.body = <<>>]
Complete(m)  == [m EXCEPT !.state = "start", !.done = @ + 1]

-----------------------------------------------------------------------------
(* A fold reads line by line.                                              *)

(* A reading begins with nothing read.                                     *)
LEMMA NothingType == NothingRead \in Readings
<1>1. <<>> \in Seq(Lines)
  BY EmptySeq
<1> QED  BY <1>1 DEF NothingRead, Readings, States

(* What a line can do to a reading.                                        *)
Changes(m, l) ==
  {m, Read(l, m, "head"), Fail(m, "refused"), Fail(m, "raised"), BeginBody(m),
   AddHeader(l, m), AddBody(l, m), Complete(m), Complete(AddBody(l, m)),
   Fail(AddBody(l, m), "raised")}

(* What one line can change in a reading leaves it a reading.              *)
LEMMA ChangeType ==
  ASSUME NEW m \in Readings, NEW l \in Lines
  PROVE  Changes(m, l) \subseteq Readings
<1>1. /\ <<>> \in Seq(Lines) /\ <<l>> \in Seq(Lines)
      /\ \A r \in Readings : /\ Append(r.head, l) \in Seq(Lines)
                             /\ Append(r.body, l) \in Seq(Lines)
  BY EmptySeq, AppendProperties DEF Readings
<1>2. \A r \in Readings : r.done + 1 \in Nat
  BY DEF Readings
<1>3. \A r \in Readings : Fail(r, "refused") \in Readings /\ Fail(r, "raised") \in Readings
  BY DEF Readings, Fail, States
<1>4. Read(l, m, "head") \in Readings
  BY <1>1 DEF Readings, Read, States
<1>5. AddHeader(l, m) \in Readings
  BY <1>1 DEF Readings, AddHeader
<1>6. AddBody(l, m) \in Readings
  BY <1>1 DEF Readings, AddBody
<1>7. BeginBody(m) \in Readings
  BY <1>1 DEF Readings, States, BeginBody
<1>8. \A r \in Readings : Complete(r) \in Readings
  BY <1>2 DEF Readings, States, Complete
<1> QED  BY <1>3, <1>4, <1>5, <1>6, <1>7, <1>8 DEF Changes

LEMMA SimpleLineType ==
  ASSUME NEW m \in Readings, NEW l \in Lines
  PROVE  SimpleLine(m, l) \in Readings
<1>1. SimpleLine(m, l) \in
        {m, Read(l, m, "head"), Fail(m, "refused"), Fail(m, "raised"),
         BeginBody(m), AddHeader(l, m), AddBody(l, m)}
  BY DEF SimpleLine, BeginBody
<1>2. SimpleLine(m, l) \in Changes(m, l)
  BY <1>1 DEF Changes
<1> QED  BY <1>2, ChangeType

LEMMA ToolsLineType ==
  ASSUME NEW m \in Readings, NEW l \in Lines
  PROVE  ToolsLine(m, l) \in Readings
<1>1. m.state \in {"start", "head", "body", "refused", "raised"}
  BY DEF Readings, States
<1>2. \A r : EndMessage(r) \in {Fail(r, "raised"), Complete(r)}
  BY DEF EndMessage, Complete
<1>3. ToolsLine(m, l) \in
        {m, Read(l, m, "head"), Fail(m, "refused"), Fail(m, "raised"),
         BeginBody(m), AddHeader(l, m), AddBody(l, m),
         EndMessage(m), EndMessage(AddBody(l, m))}
  <2>1. CASE m.state \in {"refused", "raised"}
    BY <2>1 DEF ToolsLine
  <2>2. CASE m.state = "start"
    BY <2>2 DEF ToolsLine
  <2>3. CASE m.state = "head"
    BY <2>3 DEF ToolsLine, BeginBody
  <2>4. CASE m.state = "body"
    BY <2>4 DEF ToolsLine
  <2> QED  BY <1>1, <2>1, <2>2, <2>3, <2>4
<1>4. ToolsLine(m, l) \in Changes(m, l)
  BY <1>2, <1>3 DEF Changes
<1> QED  BY <1>4, ChangeType

(* The simple parser reads the lines of a chunk one after the other        *)
(* (http_simple.py:19-31).                                                 *)
LEMMA SimpleReads ==
  ASSUME NEW c \in Seq(Lines)
  PROVE  \E g : StepsTo(g, c, Simple(c)) /\ SimpleStep(g, c)
<1>0. PICK n : n = Len(c)
  OBVIOUS
<1>f. PICK F : F = [m \in Readings |-> [k \in 1 .. n |-> SimpleLine(m, c[k])]]
  OBVIOUS
<1> DEFINE D == DOMAIN c
           iter == CHOOSE it : it = [s \in SUBSET D |->
                     IF s = {} THEN NothingRead
                     ELSE SimpleLine(it[s \ {Max(s)}], c[Max(s)])]
<1>1. n \in Nat /\ D = 1 .. n /\ \A k \in 1 .. n : c[k] \in Lines
  BY <1>0, LenProperties, ElementOfSeq
<1>2. Simple(c) = iter[D]
  BY DEF Simple, FoldLeft, MapThenFoldSet
<1>3. \A m \in Readings, k \in 1 .. n : F[m][k] = SimpleLine(m, c[k])
  BY <1>f
<1> HIDE DEF D
<1>4. \A m \in Readings, k \in 1 .. n : F[m][k] \in Readings
  <2>1. \A m \in Readings : \A l \in Lines : SimpleLine(m, l) \in Readings
    BY SimpleLineType
  <2> QED  BY <1>1, <1>3, <2>1
<1>5. PICK f \in [SUBSET (1 .. n) -> Readings] : Folding(f, NothingRead, F, n)
  BY <1>1, <1>4, NothingType, FoldExists
<1>6. \A s \in SUBSET (1 .. n) : s # {} => Max(s) \in 1 .. n /\ s \ {Max(s)} \in SUBSET (1 .. n)
  <2> SUFFICES ASSUME NEW s \in SUBSET (1 .. n), s # {} PROVE Max(s) \in s
    OBVIOUS
  <2>1. s \in SUBSET (0 .. n)
    BY <1>1
  <2> QED  BY <1>1, <2>1, MaxIsGreatest
<1>7. f = [s \in SUBSET D |-> IF s = {} THEN NothingRead
                              ELSE SimpleLine(f[s \ {Max(s)}], c[Max(s)])]
  <2>1. \A s \in SUBSET (1 .. n) :
          f[s] = IF s = {} THEN NothingRead ELSE SimpleLine(f[s \ {Max(s)}], c[Max(s)])
    BY <1>3, <1>5, <1>6 DEF Folding
  <2> QED  BY <1>1, <2>1
<1>8. iter = [s \in SUBSET D |-> IF s = {} THEN NothingRead
                                 ELSE SimpleLine(iter[s \ {Max(s)}], c[Max(s)])]
  BY <1>7
<1> HIDE DEF iter
<1>9. iter[1 .. 0] = NothingRead
  <2>1. 1 .. 0 = {} /\ {} \in SUBSET D
    OBVIOUS
  <2> QED  BY <1>8, <2>1
<1>10. ASSUME NEW k \in 0 .. (n - 1)
       PROVE  iter[1 .. (k + 1)] = SimpleLine(iter[1 .. k], c[k + 1])
  <2>1. k \in Nat /\ k + 1 \in 1 .. (k + 1) /\ \A j \in 1 .. (k + 1) : j \in 1 .. n
    BY <1>1
  <2>2. 1 .. (k + 1) \in SUBSET D /\ 1 .. (k + 1) # {}
    BY <1>1, <2>1
  <2>3. Max(1 .. (k + 1)) = k + 1 /\ (1 .. (k + 1)) \ {k + 1} = 1 .. k
    BY <2>1, LastOfInterval
  <2> QED  BY <1>8, <2>2, <2>3
<1>11. \A k \in 0 .. n : iter[1 .. k] \in Readings
  <2> DEFINE S == {k \in 0 .. n : iter[1 .. k] \in Readings}
  <2>1. 0 \in S
    BY <1>1, <1>9, NothingType
  <2>2. ASSUME NEW k \in 0 .. (n - 1), k \in S PROVE k + 1 \in S
    <3>1. k + 1 \in 1 .. n /\ k + 1 \in 0 .. n
      BY <1>1
    <3> QED  BY <1>1, <1>10, <2>2, <3>1, SimpleLineType
  <2> HIDE DEF S
  <2>3. \A k \in 0 .. n : k \in S
    BY <1>1, <2>1, <2>2, InductionUpTo
  <2> QED  BY <2>3 DEF S
<1> DEFINE g == [k \in 0 .. n |-> iter[1 .. k]]
<1>12. StepsTo(g, c, Simple(c))
  BY <1>1, <1>2, <1>9, <1>0, <1>11 DEF StepsTo
<1>13. SimpleStep(g, c)
  BY <1>0, <1>1, <1>10 DEF SimpleStep
<1> QED  BY <1>12, <1>13

(* So does httptools (http_tools.py).                                      *)
LEMMA ToolsReads ==
  ASSUME NEW c \in Seq(Lines)
  PROVE  \E g : StepsTo(g, c, Tools(c)) /\ ToolsStep(g, c)
<1>0. PICK n : n = Len(c)
  OBVIOUS
<1>f. PICK F : F = [m \in Readings |-> [k \in 1 .. n |-> ToolsLine(m, c[k])]]
  OBVIOUS
<1> DEFINE D == DOMAIN c
           iter == CHOOSE it : it = [s \in SUBSET D |->
                     IF s = {} THEN NothingRead
                     ELSE ToolsLine(it[s \ {Max(s)}], c[Max(s)])]
<1>1. n \in Nat /\ D = 1 .. n /\ \A k \in 1 .. n : c[k] \in Lines
  BY <1>0, LenProperties, ElementOfSeq
<1>2. Tools(c) = iter[D]
  BY DEF Tools, FoldLeft, MapThenFoldSet
<1>3. \A m \in Readings, k \in 1 .. n : F[m][k] = ToolsLine(m, c[k])
  BY <1>f
<1> HIDE DEF D
<1>4. \A m \in Readings, k \in 1 .. n : F[m][k] \in Readings
  <2>1. \A m \in Readings : \A l \in Lines : ToolsLine(m, l) \in Readings
    BY ToolsLineType
  <2> QED  BY <1>1, <1>3, <2>1
<1>5. PICK f \in [SUBSET (1 .. n) -> Readings] : Folding(f, NothingRead, F, n)
  BY <1>1, <1>4, NothingType, FoldExists
<1>6. \A s \in SUBSET (1 .. n) : s # {} => Max(s) \in 1 .. n /\ s \ {Max(s)} \in SUBSET (1 .. n)
  <2> SUFFICES ASSUME NEW s \in SUBSET (1 .. n), s # {} PROVE Max(s) \in s
    OBVIOUS
  <2>1. s \in SUBSET (0 .. n)
    BY <1>1
  <2> QED  BY <1>1, <2>1, MaxIsGreatest
<1>7. f = [s \in SUBSET D |-> IF s = {} THEN NothingRead
                              ELSE ToolsLine(f[s \ {Max(s)}], c[Max(s)])]
  <2>1. \A s \in SUBSET (1 .. n) :
          f[s] = IF s = {} THEN NothingRead ELSE ToolsLine(f[s \ {Max(s)}], c[Max(s)])
    BY <1>3, <1>5, <1>6 DEF Folding
  <2> QED  BY <1>1, <2>1
<1>8. iter = [s \in SUBSET D |-> IF s = {} THEN NothingRead
                                 ELSE ToolsLine(iter[s \ {Max(s)}], c[Max(s)])]
  BY <1>7
<1> HIDE DEF iter
<1>9. iter[1 .. 0] = NothingRead
  <2>1. 1 .. 0 = {} /\ {} \in SUBSET D
    OBVIOUS
  <2> QED  BY <1>8, <2>1
<1>10. ASSUME NEW k \in 0 .. (n - 1)
       PROVE  iter[1 .. (k + 1)] = ToolsLine(iter[1 .. k], c[k + 1])
  <2>1. k \in Nat /\ k + 1 \in 1 .. (k + 1) /\ \A j \in 1 .. (k + 1) : j \in 1 .. n
    BY <1>1
  <2>2. 1 .. (k + 1) \in SUBSET D /\ 1 .. (k + 1) # {}
    BY <1>1, <2>1
  <2>3. Max(1 .. (k + 1)) = k + 1 /\ (1 .. (k + 1)) \ {k + 1} = 1 .. k
    BY <2>1, LastOfInterval
  <2> QED  BY <1>8, <2>2, <2>3
<1>11. \A k \in 0 .. n : iter[1 .. k] \in Readings
  <2> DEFINE S == {k \in 0 .. n : iter[1 .. k] \in Readings}
  <2>1. 0 \in S
    BY <1>1, <1>9, NothingType
  <2>2. ASSUME NEW k \in 0 .. (n - 1), k \in S PROVE k + 1 \in S
    <3>1. k + 1 \in 1 .. n /\ k + 1 \in 0 .. n
      BY <1>1
    <3> QED  BY <1>1, <1>10, <2>2, <3>1, ToolsLineType
  <2> HIDE DEF S
  <2>3. \A k \in 0 .. n : k \in S
    BY <1>1, <2>1, <2>2, InductionUpTo
  <2> QED  BY <2>3 DEF S
<1> DEFINE g == [k \in 0 .. n |-> iter[1 .. k]]
<1>12. StepsTo(g, c, Tools(c))
  BY <1>1, <1>2, <1>9, <1>0, <1>11 DEF StepsTo
<1>13. ToolsStep(g, c)
  BY <1>0, <1>1, <1>10 DEF ToolsStep
<1> QED  BY <1>12, <1>13

-----------------------------------------------------------------------------
(* What a reading holds.                                                   *)

(* s is the lines a to z of c.                                             *)
Slice(s, c, a, z) ==
  /\ s \in Seq(Lines)
  /\ Len(s) = z + 1 - a
  /\ \A j \in 1 .. (z + 1 - a) : s[j] = c[a + j - 1]

(* Nothing is the empty slice that ends before its first place.            *)
LEMMA SliceEmpty ==
  ASSUME NEW c, NEW a \in Nat
  PROVE  Slice(<<>>, c, a + 1, a)
<1>1. <<>> \in Seq(Lines) /\ Len(<<>>) = 0
  BY EmptySeq
<1> QED  BY <1>1 DEF Slice

(* The next line of the chunk makes a slice longer by one.                 *)
LEMMA SliceAppend ==
  ASSUME NEW c \in Seq(Lines), NEW s, NEW a \in Nat \ {0}, NEW z \in Nat, a <= z + 1,
         z + 1 \in 1 .. Len(c), Slice(s, c, a, z)
  PROVE  Slice(Append(s, c[z + 1]), c, a, z + 1)
<1> DEFINE l == c[z + 1]
           n == z + 1 - a
           t == Append(s, l)
<1>1. s \in Seq(Lines) /\ Len(s) = n /\ l \in Lines /\ n \in Nat
  BY ElementOfSeq DEF Slice
<1>2. /\ t \in Seq(Lines) /\ Len(t) = n + 1 /\ t[n + 1] = l
      /\ \A j \in 1 .. n : t[j] = s[j]
  BY <1>1, AppendProperties
<1> HIDE DEF t
<1>3. \A j \in 1 .. n : t[j] = c[a + j - 1]
  BY <1>2 DEF Slice
<1>4. ASSUME NEW j \in 1 .. (z + 2 - a) PROVE t[j] = c[a + j - 1]
  <2>1. CASE j \in 1 .. n
    BY <1>3, <2>1
  <2>2. CASE j = n + 1
    <3>1. a + j - 1 = z + 1
      BY <2>2
    <3> QED  BY <1>2, <2>2, <3>1
  <2> QED  BY <1>1, <2>1, <2>2
<1> QED  BY <1>2, <1>4 DEF t, Slice

(* The headers of a request that ends at line k before any blank line.     *)
HeadOnly(r, c, p, k) ==
  /\ \A j \in (p + 1) .. k : c[j].kind # "blank"
  /\ Slice(r.head, c, p + 1, k)
  /\ r.body = <<>>

(* Headers up to the first blank line b, and a body that follows line f.   *)
WithBody(r, c, p, k, b, f) ==
  /\ c[b].kind = "blank" /\ \A j \in (p + 1) .. (b - 1) : c[j].kind # "blank"
  /\ Slice(r.head, c, p + 1, b - 1)
  /\ Slice(r.body, c, f + 1, k)

LastBlank(c, f, k) ==
  c[f].kind = "blank" /\ \A j \in (f + 1) .. k : c[j].kind # "blank"

(* The simple parser after k lines.                                        *)
SimpleAt(r, c, k) ==
  \/ k = 0 /\ r = NothingRead
  \/ r.state \in {"refused", "raised"}
  \/ /\ k > 0 /\ c[1].kind \in RequestLines /\ r.first = <<c[1]>>
     /\ \/ r.state = "head" /\ HeadOnly(r, c, 1, k)
        \/ /\ r.state = "body"
           /\ \E b \in 2 .. k : \E f \in b .. k :
                WithBody(r, c, 1, k, b, f) /\ LastBlank(c, f, k)

(* One more line keeps what the simple parser has read of a chunk          *)
(* (http_simple.py:19-30).                                                 *)
LEMMA SimpleLineAt ==
  ASSUME NEW c \in Seq(Lines), NEW k \in Nat, k + 1 \in 1 .. Len(c),
         NEW m \in Readings, SimpleAt(m, c, k)
  PROVE  SimpleAt(SimpleLine(m, c[k + 1]), c, k + 1)
<1> DEFINE l == c[k + 1]
           r == SimpleLine(m, l)
<1> SUFFICES SimpleAt(r, c, k + 1)
  OBVIOUS
<1>1. l \in Lines
  BY ElementOfSeq
<1>2. l.kind \in Kinds \cup Pieces
  BY <1>1 DEF Lines
<1>3. CASE k = 0 /\ m = NothingRead
  <2>1. CASE l.kind \notin {"start", "odd"}
    <3>1. r.state = "refused"
      BY <1>3, <2>1, NothingType DEF SimpleLine, NothingRead, Fail
    <3> QED  BY <3>1 DEF SimpleAt
  <2>2. CASE l.kind \in {"start", "odd"}
    <3>1. /\ r.state = "head" /\ r.first = <<l>> /\ r.head = <<>> /\ r.body = <<>>
      BY <1>3, <2>2 DEF SimpleLine, NothingRead, Read
    <3>2. Slice(r.head, c, 2, 1)
      <4>1. Slice(<<>>, c, 1 + 1, 1)
        BY SliceEmpty
      <4> QED  BY <3>1, <4>1
    <3>3. HeadOnly(r, c, 1, 1)
      BY <3>1, <3>2 DEF HeadOnly
    <3> QED  BY <1>3, <2>2, <3>1, <3>3 DEF SimpleAt, RequestLines
  <2> QED  BY <2>1, <2>2
<1>4. CASE m.state \in {"refused", "raised"}
  <2>1. r = m
    BY <1>4 DEF SimpleLine
  <2> QED  BY <1>4, <2>1 DEF SimpleAt
<1>5. CASE /\ k > 0 /\ c[1].kind \in RequestLines /\ m.first = <<c[1]>>
           /\ m.state = "head" /\ HeadOnly(m, c, 1, k)
  <2>1. CASE l.kind = "blank"
    <3>0. r = BeginBody(m)
      BY <1>5, <2>1 DEF SimpleLine, BeginBody, Headers
    <3>1. r.state = "body" /\ r.first = m.first /\ r.head = m.head /\ r.body = <<>>
      BY <3>0 DEF BeginBody, Readings
    <3>2. Slice(r.body, c, (k + 1) + 1, k + 1)
      <4>0. k + 1 \in Nat
        OBVIOUS
      <4>1. Slice(<<>>, c, (k + 1) + 1, k + 1)
        BY <4>0, SliceEmpty
      <4> QED  BY <3>1, <4>1
    <3>3. k + 1 \in 2 .. (k + 1) /\ k + 1 \in (k + 1) .. (k + 1)
      BY <1>5
    <3>4. WithBody(r, c, 1, k + 1, k + 1, k + 1)
      BY <1>5, <2>1, <3>1, <3>2 DEF WithBody, HeadOnly
    <3>5. LastBlank(c, k + 1, k + 1)
      BY <2>1 DEF LastBlank
    <3> QED  BY <1>5, <3>1, <3>3, <3>4, <3>5 DEF SimpleAt
  <2>2. CASE l.kind \in Headers
    <3>1. r = AddHeader(l, m)
      BY <1>5, <2>2 DEF SimpleLine, Headers
    <3>2. /\ r.state = "head" /\ r.first = m.first /\ r.head = Append(m.head, l)
          /\ r.body = m.body
      BY <1>5, <3>1 DEF AddHeader, Readings
    <3>3. Slice(r.head, c, 2, k + 1)
      BY <1>5, <3>2, SliceAppend DEF HeadOnly
    <3>4. \A j \in 2 .. (k + 1) : j \in 2 .. k \/ j = k + 1
      OBVIOUS
    <3>5. HeadOnly(r, c, 1, k + 1)
      BY <1>5, <2>2, <3>2, <3>3, <3>4 DEF HeadOnly, Headers
    <3> QED  BY <1>5, <3>2, <3>5 DEF SimpleAt
  <2>3. CASE l.kind \notin Headers \cup {"blank"}
    <3>1. r = Fail(m, "raised")
      BY <1>5, <2>3 DEF SimpleLine, Headers
    <3>2. r.state = "raised"
      BY <3>1 DEF Fail, Readings
    <3> QED  BY <3>2 DEF SimpleAt
  <2> QED  BY <2>1, <2>2, <2>3
<1>6. CASE /\ k > 0 /\ c[1].kind \in RequestLines /\ m.first = <<c[1]>>
           /\ m.state = "body"
           /\ \E b \in 2 .. k : \E f \in b .. k :
                WithBody(m, c, 1, k, b, f) /\ LastBlank(c, f, k)
  <2>0. PICK b \in 2 .. k : \E f \in b .. k : WithBody(m, c, 1, k, b, f) /\ LastBlank(c, f, k)
    BY <1>6
  <2>1. PICK f \in b .. k : WithBody(m, c, 1, k, b, f) /\ LastBlank(c, f, k)
    BY <2>0
  <2>2. CASE l.kind = "blank"
    <3>0. r = BeginBody(m)
      BY <1>6, <2>2 DEF SimpleLine, BeginBody, Headers
    <3>1. r.state = "body" /\ r.first = m.first /\ r.head = m.head /\ r.body = <<>>
      BY <3>0 DEF BeginBody, Readings
    <3>2. Slice(r.body, c, (k + 1) + 1, k + 1)
      <4>0. k + 1 \in Nat
        OBVIOUS
      <4>1. Slice(<<>>, c, (k + 1) + 1, k + 1)
        BY <4>0, SliceEmpty
      <4> QED  BY <3>1, <4>1
    <3>3. b \in 2 .. (k + 1) /\ k + 1 \in b .. (k + 1)
      BY <2>1
    <3>4. WithBody(r, c, 1, k + 1, b, k + 1)
      BY <2>1, <3>1, <3>2 DEF WithBody
    <3>5. LastBlank(c, k + 1, k + 1)
      BY <2>2 DEF LastBlank
    <3> QED  BY <1>6, <3>1, <3>3, <3>4, <3>5 DEF SimpleAt
  <2>3. CASE l.kind # "blank"
    <3>1. r = AddBody(l, m)
      BY <1>6, <2>3 DEF SimpleLine
    <3>2. /\ r.state = "body" /\ r.first = m.first /\ r.head = m.head
          /\ r.body = Append(m.body, l)
      BY <1>6, <3>1 DEF AddBody, Readings
    <3>3. Slice(r.body, c, f + 1, k + 1)
      <4>1. f + 1 \in Nat \ {0} /\ f + 1 <= k + 1
        BY <2>1
      <4> QED  BY <2>1, <3>2, <4>1, SliceAppend DEF WithBody
    <3>4. b \in 2 .. (k + 1) /\ f \in b .. (k + 1)
      BY <2>1
    <3>5. WithBody(r, c, 1, k + 1, b, f)
      BY <2>1, <3>2, <3>3 DEF WithBody
    <3>6. LastBlank(c, f, k + 1)
      <4>1. \A j \in (f + 1) .. (k + 1) : j \in (f + 1) .. k \/ j = k + 1
        BY <2>1
      <4> QED  BY <2>1, <2>3, <4>1 DEF LastBlank
    <3> HIDE DEF r
    <3>7. k + 1 > 0 /\ c[1].kind \in RequestLines /\ r.first = <<c[1]>>
      BY <1>6, <3>2
    <3>8. \E b1 \in 2 .. (k + 1) : \E f1 \in b1 .. (k + 1) :
            WithBody(r, c, 1, k + 1, b1, f1) /\ LastBlank(c, f1, k + 1)
      BY <3>4, <3>5, <3>6, Zenon
    <3> QED  BY <3>2, <3>7, <3>8, Zenon DEF SimpleAt
  <2> QED  BY <2>2, <2>3
<1> QED  BY <1>3, <1>4, <1>5, <1>6 DEF SimpleAt

(* What the simple parser makes of a chunk (http_simple.py:19-37).         *)
LEMMA SimpleMakes ==
  ASSUME NEW c \in Seq(Lines)
  PROVE  Simple(c) \in Readings /\ SimpleAt(Simple(c), c, Len(c))
<1>1. PICK g : StepsTo(g, c, Simple(c)) /\ SimpleStep(g, c)
  BY SimpleReads
<1>2. PICK n : n = Len(c)
  OBVIOUS
<1>3. n \in Nat
  BY <1>2, LenProperties
<1> DEFINE S == {k \in 0 .. n : SimpleAt(g[k], c, k)}
<1>4. 0 \in S
  BY <1>1, <1>3 DEF StepsTo, SimpleAt
<1>5. ASSUME NEW k \in 0 .. (n - 1), k \in S PROVE k + 1 \in S
  <2>1. k \in Nat /\ k + 1 \in 1 .. n /\ k \in 0 .. n /\ k + 1 \in 0 .. n
    BY <1>3
  <2>2. g[k] \in Readings /\ g[k + 1] = SimpleLine(g[k], c[k + 1])
    BY <1>1, <1>2, <2>1 DEF StepsTo, SimpleStep
  <2>3. SimpleAt(g[k], c, k)
    BY <1>5
  <2>4. SimpleAt(g[k + 1], c, k + 1)
    BY <1>2, <2>1, <2>2, <2>3, SimpleLineAt
  <2> QED  BY <2>1, <2>4
<1> HIDE DEF S
<1>6. \A k \in 0 .. n : k \in S
  BY <1>3, <1>4, <1>5, InductionUpTo
<1>7. n \in S /\ n \in 0 .. n
  BY <1>3, <1>6
<1> QED  BY <1>1, <1>2, <1>7 DEF S, StepsTo

(* httptools after k lines: the request line it holds, if any, is one of   *)
(* the chunk.                                                              *)
FirstAt(r, c, k) ==
  \/ r.first = <<>> /\ r.done = 0 /\ r.state \in {"start", "refused"}
  \/ \E p \in 1 .. k : c[p].kind \in RequestLines /\ r.first = <<c[p]>>

(* One more line keeps the first request line httptools has read           *)
(* (http_tools.py).                                                        *)
LEMMA ToolsLineFirst ==
  ASSUME NEW c \in Seq(Lines), NEW k \in Nat, k + 1 \in 1 .. Len(c),
         NEW m \in Readings, FirstAt(m, c, k)
  PROVE  FirstAt(ToolsLine(m, c[k + 1]), c, k + 1)
<1> DEFINE l == c[k + 1]
           r == ToolsLine(m, l)
<1> SUFFICES FirstAt(r, c, k + 1)
  OBVIOUS
<1>1. m.state \in {"start", "head", "body", "refused", "raised"}
  BY DEF Readings, States
<1>2. \A p \in 1 .. k : p \in 1 .. (k + 1)
  OBVIOUS
<1>3. FirstAt(m, c, k + 1)
  BY <1>2 DEF FirstAt
<1>4. CASE m.state \in {"refused", "raised"}
  BY <1>3, <1>4 DEF ToolsLine
<1>5. CASE m.state = "start"
  <2>1. CASE l.kind \in {"start", "target"}
    <3>1. r.first = <<l>>
      BY <1>5, <2>1 DEF ToolsLine, Read, Readings
    <3>2. k + 1 \in 1 .. (k + 1)
      OBVIOUS
    <3> QED  BY <2>1, <3>1, <3>2 DEF FirstAt, RequestLines
  <2>2. CASE l.kind \in {"blank", "method"}
    BY <1>3, <1>5, <2>2 DEF ToolsLine
  <2>3. CASE l.kind \notin {"start", "target", "blank", "method"}
    <3>1. r = Fail(m, "refused")
      BY <1>5, <2>3 DEF ToolsLine
    <3>2. r.first = m.first /\ r.done = m.done /\ r.state = "refused"
      BY <3>1 DEF Fail, Readings
    <3> QED  BY <1>3, <3>2 DEF FirstAt
  <2> QED  BY <2>1, <2>2, <2>3
<1>6. CASE m.state \in {"head", "body"}
  <2>1. \A q \in Readings : EndMessage(q) \in Readings /\ EndMessage(q).first = q.first
    <3>1. \A q \in Readings : Fail(q, "raised") \in Readings /\ Fail(q, "raised").first = q.first
      BY DEF Fail, Readings, States
    <3>0. \A q \in Readings : q.done + 1 \in Nat
      BY DEF Readings
    <3>2. \A q \in Readings : Complete(q) \in Readings /\ Complete(q).first = q.first
      BY <3>0 DEF Complete, Readings, States
    <3>3. \A q : EndMessage(q) \in {Fail(q, "raised"), Complete(q)}
      BY DEF EndMessage, Complete
    <3> QED  BY <3>1, <3>2, <3>3
  <2>2. l \in Lines
    BY ElementOfSeq
  <2>3. /\ AddBody(l, m) \in Readings /\ AddBody(l, m).first = m.first
    BY <2>2, ChangeType DEF Changes, AddBody, Readings
  <2>4. /\ AddHeader(l, m).first = m.first /\ BeginBody(m).first = m.first
        /\ Fail(m, "raised").first = m.first
    BY DEF AddHeader, BeginBody, Fail, Readings
  <2>5. r \in {m, AddHeader(l, m), BeginBody(m), Fail(m, "raised"), AddBody(l, m),
               EndMessage(m), EndMessage(AddBody(l, m))}
    BY <1>6 DEF ToolsLine, BeginBody
  <2>6. r.first = m.first
    BY <2>1, <2>3, <2>4, <2>5
  <2>7. \E p \in 1 .. (k + 1) : c[p].kind \in RequestLines /\ m.first = <<c[p]>>
    BY <1>3, <1>6 DEF FirstAt
  <2> QED  BY <2>6, <2>7 DEF FirstAt
<1> QED  BY <1>1, <1>4, <1>5, <1>6

(* A request of httptools has a request line of its chunk.                 *)
LEMMA ToolsFirst ==
  ASSUME NEW c \in Seq(Lines)
  PROVE  Tools(c) \in Readings /\ FirstAt(Tools(c), c, Len(c))
<1>1. PICK g : StepsTo(g, c, Tools(c)) /\ ToolsStep(g, c)
  BY ToolsReads
<1>2. PICK n : n = Len(c)
  OBVIOUS
<1>3. n \in Nat
  BY <1>2, LenProperties
<1> DEFINE S == {k \in 0 .. n : FirstAt(g[k], c, k)}
<1>4. 0 \in S
  BY <1>1, <1>3 DEF StepsTo, FirstAt, NothingRead
<1>5. ASSUME NEW k \in 0 .. (n - 1), k \in S PROVE k + 1 \in S
  <2>1. k \in Nat /\ k + 1 \in 1 .. n /\ k \in 0 .. n /\ k + 1 \in 0 .. n
    BY <1>3
  <2>2. g[k] \in Readings /\ g[k + 1] = ToolsLine(g[k], c[k + 1])
    BY <1>1, <1>2, <2>1 DEF StepsTo, ToolsStep
  <2>3. FirstAt(g[k], c, k)
    BY <1>5
  <2>4. FirstAt(g[k + 1], c, k + 1)
    BY <1>2, <2>1, <2>2, <2>3, ToolsLineFirst
  <2> QED  BY <2>1, <2>4
<1> HIDE DEF S
<1>6. \A k \in 0 .. n : k \in S
  BY <1>3, <1>4, <1>5, InductionUpTo
<1>7. n \in S /\ n \in 0 .. n
  BY <1>3, <1>6
<1> QED  BY <1>1, <1>2, <1>7 DEF S, StepsTo

(* Behind a request line no line but the last of the chunk ends a message, *)
(* and no line but the last is without its end.                            *)
EndsLast(c) ==
  /\ \A p, j \in 1 .. Len(c) :
       c[p].kind \in RequestLines /\ p < j /\ c[j].last => j = Len(c)
  /\ \A j \in 1 .. Len(c) : c[j].part = "front" => j = Len(c)

(* httptools after k lines of such a chunk.                                *)
InHead(r, c, p, k) == r.state = "head" /\ r.done = 0 /\ HeadOnly(r, c, p, k)
InBody(r, c, p, k) ==
  /\ \/ r.state = "body" /\ r.done = 0
     \/ r.state = "start" /\ r.done = 1 /\ k = Len(c)
  /\ \E b \in (p + 1) .. k : WithBody(r, c, p, k, b, b)

ToolsAt(r, c, k) ==
  \/ r = NothingRead
  \/ r.state \in {"refused", "raised"}
  \/ r.done = 0 /\ k = Len(c)
  \/ \E p \in 1 .. k :
       /\ c[p].kind \in RequestLines /\ r.first = <<c[p]>>
       /\ InHead(r, c, p, k) \/ InBody(r, c, p, k)

(* One more line keeps what httptools has read of a chunk in which no      *)
(* message ends before the last line.                                      *)
LEMMA ToolsLineAt ==
  ASSUME NEW c \in Seq(Lines), EndsLast(c), NEW k \in Nat, k + 1 \in 1 .. Len(c),
         NEW m \in Readings, ToolsAt(m, c, k)
  PROVE  ToolsAt(ToolsLine(m, c[k + 1]), c, k + 1)
<1> DEFINE l == c[k + 1]
           r == ToolsLine(m, l)
<1> SUFFICES ToolsAt(r, c, k + 1)
  OBVIOUS
<1>0. l \in Lines /\ k + 1 \in Nat /\ k + 1 \in 1 .. (k + 1) /\ Len(c) \in Nat
  BY ElementOfSeq, LenProperties
<1>1. \A q : EndMessage(q) = Fail(q, "raised") \/ EndMessage(q) = Complete(q)
  BY DEF EndMessage, Complete
<1>2. ASSUME NEW q \in Readings, r = EndMessage(q), r # Complete(q)
      PROVE  ToolsAt(r, c, k + 1)
  <2>1. r.state = "raised"
    BY <1>1, <1>2 DEF Fail, Readings
  <2> QED  BY <2>1 DEF ToolsAt
<1>3. CASE m = NothingRead
  <2>0. m.state = "start"
    BY <1>3 DEF NothingRead
  <2>1. CASE l.kind \in {"start", "target"}
    <3>1. r = Read(l, m, "head")
      BY <2>0, <2>1 DEF ToolsLine
    <3>2. /\ r.state = "head" /\ r.first = <<l>> /\ r.done = 0
          /\ r.head = <<>> /\ r.body = <<>>
      BY <1>3, <3>1 DEF NothingRead, Read
    <3>3. Slice(<<>>, c, (k + 1) + 1, k + 1)
      BY <1>0, SliceEmpty
    <3>4. InHead(r, c, k + 1, k + 1)
      BY <3>2, <3>3 DEF HeadOnly, InHead
    <3> HIDE DEF r
    <3> QED  BY <1>0, <2>1, <3>2, <3>4 DEF ToolsAt, RequestLines
  <2>2. CASE l.kind \in {"blank", "method"}
    BY <1>3, <2>0, <2>2 DEF ToolsLine, ToolsAt
  <2>3. CASE l.kind \notin {"start", "target", "blank", "method"}
    <3>1. r = Fail(m, "refused")
      BY <2>0, <2>3 DEF ToolsLine
    <3>2. r.state = "refused"
      BY <3>1 DEF Fail, Readings
    <3> QED  BY <3>2 DEF ToolsAt
  <2> QED  BY <2>1, <2>2, <2>3
<1>4. CASE m.state \in {"refused", "raised"}
  BY <1>4 DEF ToolsLine, ToolsAt
<1>5. ASSUME NEW p \in 1 .. k, c[p].kind \in RequestLines, m.first = <<c[p]>>, InHead(m, c, p, k)
      PROVE  ToolsAt(r, c, k + 1)
  <2>0. m.state = "head" /\ m.done = 0 /\ HeadOnly(m, c, p, k) /\ p \in 1 .. (k + 1)
    BY <1>5 DEF InHead
  <2>4. CASE l.part = "front"
    <3>1. r = m /\ k + 1 = Len(c)
      BY <1>0, <2>0, <2>4 DEF ToolsLine, EndsLast
    <3> QED  BY <2>0, <3>1 DEF ToolsAt
  <2>1. CASE l.part # "front" /\ l.kind \in Headers
    <3>1. r = AddHeader(l, m)
      BY <2>0, <2>1 DEF ToolsLine, Headers
    <3>2. /\ r.state = "head" /\ r.first = m.first /\ r.done = 0
          /\ r.head = Append(m.head, l) /\ r.body = m.body
      BY <2>0, <3>1 DEF AddHeader, Readings
    <3>3. Slice(r.head, c, p + 1, k + 1)
      <4>1. p + 1 \in Nat \ {0} /\ p + 1 <= k + 1
        OBVIOUS
      <4> QED  BY <2>0, <3>2, <4>1, SliceAppend DEF HeadOnly
    <3>4. \A j \in (p + 1) .. (k + 1) : j \in (p + 1) .. k \/ j = k + 1
      OBVIOUS
    <3>5. InHead(r, c, p, k + 1)
      BY <2>0, <2>1, <3>2, <3>3, <3>4 DEF HeadOnly, Headers, InHead
    <3> HIDE DEF r
    <3> QED  BY <1>5, <2>0, <3>2, <3>5 DEF ToolsAt
  <2>2. CASE l.part # "front" /\ l.kind = "blank"
    <3>0. k + 1 \in (p + 1) .. (k + 1)
      OBVIOUS
    <3>1. Slice(<<>>, c, (k + 1) + 1, k + 1)
      BY <1>0, SliceEmpty
    <3>2. CASE ~l.last
      <4>1. r = BeginBody(m)
        BY <2>0, <2>2, <3>2 DEF ToolsLine, BeginBody, Headers
      <4>2. /\ r.state = "body" /\ r.first = m.first /\ r.done = 0
            /\ r.head = m.head /\ r.body = <<>>
        BY <2>0, <4>1 DEF BeginBody, Readings
      <4>3. WithBody(r, c, p, k + 1, k + 1, k + 1)
        BY <2>0, <2>2, <3>1, <4>2 DEF WithBody, HeadOnly
      <4> HIDE DEF r
      <4>4. InBody(r, c, p, k + 1)
        BY <3>0, <4>2, <4>3 DEF InBody
      <4> QED  BY <1>5, <2>0, <4>2, <4>4 DEF ToolsAt
    <3>3. CASE l.last
      <4>1. r = EndMessage(m)
        BY <2>0, <2>2, <3>3 DEF ToolsLine, Headers
      <4>2. CASE r = Complete(m)
        <5>1. /\ r.state = "start" /\ r.first = m.first /\ r.done = 1
              /\ r.head = m.head /\ r.body = <<>>
          BY <2>0, <4>2 DEF Complete, Readings, HeadOnly
        <5>2. k + 1 = Len(c)
          <6>1. p \in 1 .. Len(c) /\ p < k + 1
            BY <1>0
          <6> QED  BY <1>5, <3>3, <6>1 DEF EndsLast
        <5>3. WithBody(r, c, p, k + 1, k + 1, k + 1)
          BY <2>0, <2>2, <3>1, <5>1 DEF WithBody, HeadOnly
        <5> HIDE DEF r
        <5>4. InBody(r, c, p, k + 1)
          BY <3>0, <5>1, <5>2, <5>3 DEF InBody
        <5> QED  BY <1>5, <2>0, <5>1, <5>4 DEF ToolsAt
      <4> QED  BY <1>2, <4>1, <4>2
    <3> QED  BY <3>2, <3>3
  <2>3. CASE l.part # "front" /\ l.kind \notin Headers \cup {"blank"}
    <3>1. r = Fail(m, "raised")
      BY <2>0, <2>3 DEF ToolsLine
    <3>2. r.state = "raised"
      BY <3>1 DEF Fail, Readings
    <3> QED  BY <3>2 DEF ToolsAt
  <2> QED  BY <2>1, <2>2, <2>3, <2>4
<1>6. ASSUME NEW p \in 1 .. k, c[p].kind \in RequestLines, m.first = <<c[p]>>, InBody(m, c, p, k)
      PROVE  ToolsAt(r, c, k + 1)
  <2>1. m.state = "body" /\ m.done = 0
    BY <1>0, <1>6 DEF InBody
  <2>2. PICK b \in (p + 1) .. k : WithBody(m, c, p, k, b, b)
    BY <1>6 DEF InBody
  <2> DEFINE q == AddBody(l, m)
  <2>3. /\ q \in Readings
        /\ q.state = "body" /\ q.first = m.first /\ q.done = 0
        /\ q.head = m.head /\ q.body = Append(m.body, l)
    BY <1>0, <2>1, ChangeType DEF Changes, AddBody, Readings
  <2>4. Slice(q.body, c, b + 1, k + 1)
    <3>1. b + 1 \in Nat \ {0} /\ b + 1 <= k + 1
      OBVIOUS
    <3> QED  BY <2>2, <2>3, <3>1, SliceAppend DEF WithBody
  <2>5. \A s : s.head = q.head /\ s.body = q.body => WithBody(s, c, p, k + 1, b, b)
    BY <2>2, <2>3, <2>4 DEF WithBody
  <2>6. b \in (p + 1) .. (k + 1) /\ p \in 1 .. (k + 1)
    OBVIOUS
  <2>7. CASE r = q
    <3>1. InBody(r, c, p, k + 1)
      BY <2>3, <2>5, <2>6, <2>7 DEF InBody
    <3> QED  BY <1>6, <2>3, <2>6, <2>7, <3>1 DEF ToolsAt
  <2>8. CASE l.last /\ r = Complete(q)
    <3>1. /\ r.state = "start" /\ r.first = m.first /\ r.done = 1
          /\ r.head = q.head /\ r.body = q.body
      BY <2>3, <2>8 DEF Complete, Readings
    <3>2. k + 1 = Len(c)
      <4>1. p \in 1 .. Len(c) /\ p < k + 1
        BY <1>0
      <4> QED  BY <1>6, <2>8, <4>1 DEF EndsLast
    <3> HIDE DEF r, q
    <3>3. InBody(r, c, p, k + 1)
      BY <2>5, <2>6, <3>1, <3>2 DEF InBody
    <3> QED  BY <1>6, <2>6, <3>1, <3>3 DEF ToolsAt
  <2>9. r = IF l.last THEN EndMessage(q) ELSE q
    BY <2>1 DEF ToolsLine
  <2> HIDE DEF r, q
  <2> QED  BY <1>1, <1>2, <2>3, <2>7, <2>8, <2>9
<1>7. ~ (m.done = 0 /\ k = Len(c))
  BY <1>0
<1> QED  BY <1>3, <1>4, <1>5, <1>6, <1>7 DEF ToolsAt

(* What httptools makes of such a chunk (http_tools.py).                   *)
LEMMA ToolsMakes ==
  ASSUME NEW c \in Seq(Lines), EndsLast(c)
  PROVE  ToolsAt(Tools(c), c, Len(c))
<1>1. PICK g : StepsTo(g, c, Tools(c)) /\ ToolsStep(g, c)
  BY ToolsReads
<1>2. PICK n : n = Len(c)
  OBVIOUS
<1>3. n \in Nat
  BY <1>2, LenProperties
<1> DEFINE S == {k \in 0 .. n : ToolsAt(g[k], c, k)}
<1>4. 0 \in S
  BY <1>1, <1>3 DEF StepsTo, ToolsAt
<1>5. ASSUME NEW k \in 0 .. (n - 1), k \in S PROVE k + 1 \in S
  <2>1. k \in Nat /\ k + 1 \in 1 .. n /\ k \in 0 .. n /\ k + 1 \in 0 .. n
    BY <1>3
  <2>2. g[k] \in Readings /\ g[k + 1] = ToolsLine(g[k], c[k + 1])
    BY <1>1, <1>2, <2>1 DEF StepsTo, ToolsStep
  <2>3. ToolsAt(g[k], c, k)
    BY <1>5
  <2>4. ToolsAt(g[k + 1], c, k + 1)
    BY <1>2, <2>1, <2>2, <2>3, ToolsLineAt
  <2> QED  BY <2>1, <2>4
<1> HIDE DEF S
<1>6. \A k \in 0 .. n : k \in S
  BY <1>3, <1>4, <1>5, InductionUpTo
<1>7. n \in S /\ n \in 0 .. n
  BY <1>3, <1>6
<1> QED  BY <1>1, <1>2, <1>7 DEF S, StepsTo

-----------------------------------------------------------------------------
(* What a chunk becomes.                                                   *)

(* The parser that is kept is one that takes the chunk, and no other than  *)
(* the one kept before (connection.py:91-101).                             *)
LEMMA ChoiceTakes ==
  ASSUME NEW c, Choice(c) # "none"
  PROVE  /\ Choice(c) \in {"http2", "simple", "tools"}
         /\ parser \in {"none", Choice(c)}
         /\ Choice(c) = "tools" => ToolsReturns(Tools(c))
         /\ Choice(c) # "tools" => SimpleReturns(Simple(c))
<1> DEFINE simple == Simple(c)
           takes  == [p \in {"http2", "simple", "tools"} |->
                   CASE p = "http2"  -> parser = "none" /\ UpgradeReturns(simple)
                     [] p = "simple" -> parser \in {"none", p} /\ SimpleReturns(simple)
                     [] p = "tools"  -> parser \in {"none", p} /\ ToolsReturns(Tools(c))]
           I == {i \in 1 .. Len(Parsers) : takes[Parsers[i]]}
<1>0. Len(Parsers) = 3 /\ Parsers[1] = "http2" /\ Parsers[2] = "simple" /\ Parsers[3] = "tools"
  BY DEF Parsers
<1> HIDE DEF takes
<1>1. I # {} /\ Choice(c) = Parsers[Min(I)]
  BY DEF Choice, SelectInSeq, takes
<1>2. Min(I) \in I
  <2>1. I \in SUBSET Nat
    OBVIOUS
  <2> HIDE DEF I
  <2> QED  BY <1>1, <2>1, MinIsLeast
<1>3. Choice(c) \in {"http2", "simple", "tools"} /\ takes[Choice(c)]
  BY <1>0, <1>1, <1>2
<1> QED  BY <1>3 DEF takes, UpgradeReturns

(* The requests of handlers.                                               *)
Requests == [first : Lines, head : Seq(Lines), body : Seq(Lines)]

(* q is read from the request line p of c on: httptools keeps what follows *)
(* the first blank line, the simple parser what follows the last.          *)
ReadsFrom(q, c, p, k, by) ==
  /\ c[p].kind \in RequestLines /\ q.first = c[p]
  /\ \/ HeadOnly(q, c, p, k)
     \/ \E b \in (p + 1) .. k : \E f \in b .. k :
          /\ WithBody(q, c, p, k, b, f)
          /\ IF by = "tools" THEN f = b ELSE LastBlank(c, f, k)

(* Whichever parser is chosen, the request it makes begins with a request  *)
(* line of the chunk and, when no message ends before the chunk, is read   *)
(* from that line to the end.                                              *)
LEMMA ParsedReads ==
  ASSUME NEW c \in Seq(Lines), Choice(c) # "none",
         NEW q, q = [first |-> Parsed(c).first[1],
                     head  |-> Parsed(c).head,
                     body  |-> Parsed(c).body]
  PROVE  /\ q \in Requests
         /\ \E p \in 1 .. Len(c) : c[p].kind \in RequestLines /\ q.first = c[p]
         /\ EndsLast(c) =>
              \E p \in 1 .. Len(c) : ReadsFrom(q, c, p, Len(c), Choice(c))
<1>0. Len(c) \in Nat /\ \A p \in 1 .. Len(c) : c[p] \in Lines
  BY ElementOfSeq, LenProperties
<1>1. CASE Choice(c) = "tools"
  <2> DEFINE r == Tools(c)
  <2>1. ToolsReturns(r) /\ Parsed(c) = r
    BY <1>1, ChoiceTakes DEF Parsed
  <2>2. r \in Readings /\ FirstAt(r, c, Len(c)) /\ (EndsLast(c) => ToolsAt(r, c, Len(c)))
    BY ToolsFirst, ToolsMakes
  <2> HIDE DEF r
  <2>3. q.head = r.head /\ q.body = r.body /\ q.first = r.first[1]
        /\ q = [first |-> q.first, head |-> q.head, body |-> q.body]
    BY <2>1
  <2>4. \A x : r.first = <<x>> => q.first = x
    BY <2>3
  <2>5. PICK p \in 1 .. Len(c) : c[p].kind \in RequestLines /\ r.first = <<c[p]>>
    BY <2>1, <2>2 DEF FirstAt, ToolsReturns
  <2>6. q.first = c[p] /\ q \in Requests
    BY <1>0, <2>2, <2>3, <2>4, <2>5 DEF Readings, Requests
  <2>7. ASSUME EndsLast(c)
        PROVE  \E p1 \in 1 .. Len(c) : ReadsFrom(q, c, p1, Len(c), Choice(c))
    <3>1. ~ r.state \in {"refused", "raised"} /\ r # NothingRead /\ r.done # 0
      BY <2>1, <2>2 DEF ToolsReturns, NothingRead, Readings
    <3>2. PICK p1 \in 1 .. Len(c) : /\ c[p1].kind \in RequestLines /\ r.first = <<c[p1]>>
                                    /\ InBody(r, c, p1, Len(c))
      BY <2>2, <2>7, <3>1 DEF ToolsAt, InHead
    <3>3. PICK b \in (p1 + 1) .. Len(c) : WithBody(r, c, p1, Len(c), b, b)
      BY <3>2 DEF InBody
    <3>4. WithBody(q, c, p1, Len(c), b, b) /\ b \in b .. Len(c)
      BY <2>3, <3>3 DEF WithBody
    <3>5. q.first = c[p1]
      BY <2>4, <3>2
    <3> QED  BY <1>1, <3>2, <3>3, <3>4, <3>5 DEF ReadsFrom
  <2> QED  BY <2>5, <2>6, <2>7
<1>2. CASE Choice(c) # "tools"
  <2> DEFINE r == Simple(c)
  <2>1. SimpleReturns(r) /\ Parsed(c) = r
    BY <1>2, ChoiceTakes DEF Parsed
  <2>2. r \in Readings /\ SimpleAt(r, c, Len(c))
    BY SimpleMakes
  <2> HIDE DEF r
  <2>3. q.head = r.head /\ q.body = r.body /\ q.first = r.first[1]
        /\ q = [first |-> q.first, head |-> q.head, body |-> q.body]
    BY <2>1
  <2>4. \A x : r.first = <<x>> => q.first = x
    BY <2>3
  <2>5. ~ r.state \in {"refused", "raised"} /\ r # NothingRead
    BY <2>1, <2>2 DEF SimpleReturns, NothingRead, Readings
  <2>6. /\ Len(c) > 0 /\ c[1].kind \in RequestLines /\ r.first = <<c[1]>>
        /\ \/ HeadOnly(r, c, 1, Len(c))
           \/ \E b \in 2 .. Len(c) : \E f \in b .. Len(c) :
                WithBody(r, c, 1, Len(c), b, f) /\ LastBlank(c, f, Len(c))
    BY <2>2, <2>5 DEF SimpleAt
  <2>7. 1 \in 1 .. Len(c) /\ q.first = c[1]
    BY <1>0, <2>4, <2>6
  <2>8. q \in Requests
    BY <1>0, <2>2, <2>3, <2>7 DEF Readings, Requests
  <2>9. \/ HeadOnly(q, c, 1, Len(c))
        \/ \E b \in (1 + 1) .. Len(c) : \E f \in b .. Len(c) :
             WithBody(q, c, 1, Len(c), b, f) /\ LastBlank(c, f, Len(c))
    BY <2>3, <2>6 DEF HeadOnly, WithBody
  <2>10. ReadsFrom(q, c, 1, Len(c), Choice(c))
    BY <1>2, <2>6, <2>7, <2>9 DEF ReadsFrom
  <2> QED  BY <2>6, <2>7, <2>8, <2>10
<1> QED  BY <1>1, <1>2

(* Data delivered closes the connection or makes one request.              *)
Accepts(q, n) ==
  LET c == SubSeq(wire, 1, n) IN
  /\ q \in Requests
  /\ \E p \in 1 .. n : c[p].kind \in RequestLines /\ q.first = c[p]
  /\ EndsLast(c) => \E p \in 1 .. n : ReadsFrom(q, c, p, n, parser')
  /\ parser' \in {"http2", "simple", "tools"} /\ parser \in {"none", parser'}
  /\ requests' = Append(requests, q)
  /\ running' = running \cup {Len(requests) + 1}
  /\ up' = up

Closes == up' = FALSE /\ running' = {} /\ parser' = parser /\ requests' = requests

(* A chunk closes the connection or brings one request.                    *)
LEMMA DeliverDoes ==
  ASSUME wire \in Seq(Lines), NEW n \in 1 .. Len(wire), Deliver(n)
  PROVE  Closes \/ \E q : Accepts(q, n)
<1> DEFINE c == SubSeq(wire, 1, n)
<1>1. c \in Seq(Lines) /\ Len(c) = n
  <2>1. \A i \in 1 .. n : wire[i] \in Lines
    BY ElementOfSeq
  <2> QED  BY <2>1, SubSeqProperties
<1>2. CASE Choice(c) = "none"
  BY <1>2 DEF Deliver, Closes
<1>3. CASE Choice(c) # "none"
  <2> DEFINE q == [first |-> Parsed(c).first[1],
                   head  |-> Parsed(c).head,
                   body  |-> Parsed(c).body]
  <2>1. /\ parser' = Choice(c) /\ requests' = Append(requests, q)
        /\ running' = running \cup {Len(requests) + 1} /\ up' = up
    BY <1>3 DEF Deliver
  <2>2. /\ q \in Requests
        /\ \E p \in 1 .. n : c[p].kind \in RequestLines /\ q.first = c[p]
        /\ EndsLast(c) => \E p \in 1 .. n : ReadsFrom(q, c, p, n, Choice(c))
    BY <1>1, <1>3, ParsedReads
  <2>3. Choice(c) \in {"http2", "simple", "tools"} /\ parser \in {"none", Choice(c)}
    BY <1>3, ChoiceTakes
  <2> HIDE DEF q
  <2>4. Accepts(q, n)
    BY <2>1, <2>2, <2>3 DEF Accepts
  <2> QED  BY <2>4
<1> QED  BY <1>2, <1>3

-----------------------------------------------------------------------------
(* The invariant.                                                          *)

(* Lines know their message, on the wire too, and whether they end it.     *)
Numbered ==
  /\ Len(sent) <= MaxMessages
  /\ \A k \in DOMAIN sent : \A j \in DOMAIN sent[k] :
       sent[k][j].of = k /\ (sent[k][j].last <=> j = Len(sent[k]))
  /\ \A i \in DOMAIN wire : wire[i].of \in DOMAIN sent
  /\ \A r \in DOMAIN requests : requests[r].first.of \in DOMAIN sent

(* The parser of the first request stays (connection.py:91-101).           *)
Kept == requests # <<>> => parser # "none"

(* Request lines arrive in the order of their messages, and those on the   *)
(* wire are of later messages than those read.                             *)
Starts(i) == wire[i].kind \in RequestLines

Ahead ==
  /\ \A i, j \in DOMAIN wire : i < j /\ Starts(i) /\ Starts(j) => wire[i].of < wire[j].of
  /\ \A r \in DOMAIN requests : \A i \in DOMAIN wire :
       Starts(i) => requests[r].first.of < wire[i].of
  /\ \A r, s \in DOMAIN requests : r < s => requests[r].first.of < requests[s].first.of

(* A patient client is never more than one message ahead of the responses. *)
InTurn ==
  /\ \A r \in DOMAIN requests : requests[r].first.of = r
  /\ \A n \in DOMAIN answers : answers[n].to = n
  /\ Len(answers) <= Len(requests)
  /\ Len(requests) <= Len(sent)
  /\ Len(sent) <= Len(answers) + 1
  /\ \A i \in running : i > Len(answers)

(* From its line i on the wire carries the message s from line st on, up   *)
(* to a line that is cut.                                                  *)
Unbroken(w, i, j) == \A x \in i .. (j - 1) : w[x].part # "front"

Follows(w, i, s, st) ==
  \A j \in i .. Len(w) : Unbroken(w, i, j) =>
    /\ st + j - i \in DOMAIN s
    /\ w[j] = s[st + j - i] \/ w[j] \in Fronts(s[st + j - i])

(* A request line of its is on the wire with the rest of its message, the  *)
(* last one sent, and nothing else behind it; or it is the second piece of *)
(* a line that is cut.                                                     *)
Intact ==
  up => \A i \in DOMAIN wire : Starts(i) =>
    /\ wire[i].of = Len(sent)
    /\ \/ i > 1 /\ wire[i - 1].part = "front"
       \/ \E st \in DOMAIN sent[Len(sent)] : Follows(wire, i, sent[Len(sent)], st)

Http1Inv ==
  /\ TypeOK
  /\ Numbered
  /\ Kept
  /\ AllPlain => Ahead
  /\ AllPlain /\ patient => InTurn /\ Intact

-----------------------------------------------------------------------------
(* Types.                                                                  *)

(* A sequence over a set is one over every larger set.                     *)
LEMMA SequenceOfMore ==
  ASSUME NEW S, NEW T, S \subseteq T, NEW s \in Seq(S)
  PROVE  s \in Seq(T)
<1>1. PICK n \in Nat : s \in [1 .. n -> S]
  BY LenProperties
<1>2. s \in [1 .. n -> T]
  BY <1>1
<1> QED  BY <1>2

(* A message has the lines of its shape.                                   *)
LEMMA MessageLines ==
  ASSUME NEW m \in 1 .. MaxMessages, NEW shape \in Shapes
  PROVE  \E s \in Seq(Lines) :
           /\ s = Message(m, shape)
           /\ \A j \in 1 .. Len(s) : s[j].of = m /\ (s[j].last <=> j = Len(s))
<1>1. shape \in Seq(Kinds)
  BY Http1Assumption
<1>2. PICK n \in Nat : n = Len(shape) /\ DOMAIN shape = 1 .. n
  BY <1>1, LenProperties
<1>3. \A j \in 1 .. n : shape[j] \in Kinds
  BY <1>1, <1>2, ElementOfSeq
<1>4. \A j \in 1 .. n : [of |-> m, kind |-> shape[j], last |-> j = n, part |-> "whole"] \in Lines
  BY <1>3 DEF Lines
<1>5. PICK s : s = [j \in 1 .. n |-> [of |-> m, kind |-> shape[j], last |-> j = n, part |-> "whole"]]
  OBVIOUS
<1>6. s = Message(m, shape)
  BY <1>2, <1>5 DEF Message
<1>7. s \in [1 .. n -> Lines]
  BY <1>4, <1>5
<1>8. s \in Seq(Lines)
  BY <1>2, <1>7
<1>9. Len(s) = n
  BY <1>2, <1>7, <1>8, LenProperties
<1>10. \A j \in 1 .. n : s[j].of = m /\ (s[j].last <=> j = n)
  BY <1>5
<1> QED  BY <1>6, <1>8, <1>9, <1>10

(* What a wire that n lines have left holds.                               *)
LEMMA WireShrinks ==
  ASSUME wire \in Seq(Lines), NEW n \in 1 .. Len(wire), Deliver(n)
  PROVE  /\ wire' \in Seq(Lines)
         /\ Len(wire') = Len(wire) - n
         /\ \A i \in 1 .. Len(wire') : wire'[i] = wire[n + i] /\ n + i \in 1 .. Len(wire)
<1>1. wire' = SubSeq(wire, n + 1, Len(wire))
  BY DEF Deliver
<1>2. Len(wire) \in Nat /\ \A i \in (n + 1) .. Len(wire) : wire[i] \in Lines
  BY ElementOfSeq, LenProperties
<1>3. /\ SubSeq(wire, n + 1, Len(wire)) \in Seq(Lines)
      /\ Len(SubSeq(wire, n + 1, Len(wire))) =
           IF n + 1 <= Len(wire) THEN Len(wire) - (n + 1) + 1 ELSE 0
      /\ \A i \in 1 .. Len(wire) - (n + 1) + 1 :
           SubSeq(wire, n + 1, Len(wire))[i] = wire[n + 1 + i - 1]
  <2>1. n + 1 \in Int /\ Len(wire) \in Int
    BY <1>2
  <2> QED  BY <1>2, <2>1, SubSeqProperties
<1>4. Len(wire') = Len(wire) - n
  BY <1>1, <1>2, <1>3
<1>5. ASSUME NEW i \in 1 .. Len(wire')
      PROVE  wire'[i] = wire[n + i] /\ n + i \in 1 .. Len(wire)
  BY <1>1, <1>2, <1>3, <1>4
<1> QED  BY <1>1, <1>3, <1>4, <1>5

(* What a message that is sent adds.                                       *)
LEMMA SendAdds ==
  ASSUME TypeOK, NEW shape \in Shapes, Send(shape)
  PROVE  \E m \in Seq(Lines) :
         /\ Len(sent) + 1 \in 1 .. MaxMessages
         /\ \A j \in 1 .. Len(m) : m[j].of = Len(sent) + 1 /\ (m[j].last <=> j = Len(m))
         /\ sent' \in Seq(Seq(Lines)) /\ Len(sent') = Len(sent) + 1
         /\ \A k \in 1 .. Len(sent) : sent'[k] = sent[k]
         /\ sent'[Len(sent) + 1] = m
         /\ wire' \in Seq(Lines) /\ Len(wire') = Len(wire) + Len(m)
         /\ \A i \in 1 .. Len(wire) : wire'[i] = wire[i]
         /\ \A i \in 1 .. Len(m) : wire'[Len(wire) + i] = m[i]
<1>1. sent \in Seq(Seq(Lines)) /\ wire \in Seq(Lines) /\ Len(sent) \in Nat /\ Len(wire) \in Nat
  BY LenProperties DEF TypeOK
<1>2. Len(sent) + 1 \in 1 .. MaxMessages
  BY <1>1, Http1Assumption DEF Send
<1>3. PICK m \in Seq(Lines) :
        /\ m = Message(Len(sent) + 1, shape)
        /\ \A j \in 1 .. Len(m) : m[j].of = Len(sent) + 1 /\ (m[j].last <=> j = Len(m))
  BY <1>2, MessageLines
<1>4. sent' = Append(sent, m) /\ wire' = wire \o m /\ Len(m) \in Nat
  BY <1>3, LenProperties DEF Send
<1>5. /\ sent' \in Seq(Seq(Lines)) /\ Len(sent') = Len(sent) + 1
      /\ \A k \in 1 .. Len(sent) : sent'[k] = sent[k]
      /\ sent'[Len(sent) + 1] = m
  BY <1>1, <1>4, AppendProperties
<1>6. /\ wire \o m \in Seq(Lines) /\ Len(wire \o m) = Len(wire) + Len(m)
      /\ \A i \in 1 .. Len(wire) + Len(m) :
           (wire \o m)[i] = IF i <= Len(wire) THEN wire[i] ELSE m[i - Len(wire)]
  BY <1>1, ConcatProperties
<1>7. PICK w, x, y : w = wire \o m /\ x = Len(wire) /\ y = Len(m)
  OBVIOUS
<1>8. /\ x \in Nat /\ y \in Nat
      /\ \A i \in 1 .. x + y : w[i] = IF i <= x THEN wire[i] ELSE m[i - x]
  BY <1>1, <1>4, <1>6, <1>7
<1>9. \A i \in 1 .. x : w[i] = wire[i]
  BY <1>8
<1>10. \A i \in 1 .. y : w[x + i] = m[i]
  <2> TAKE i \in 1 .. y
  <2>1. x + i \in 1 .. x + y /\ ~ (x + i <= x) /\ (x + i) - x = i
    BY <1>8
  <2> QED  BY <1>8, <2>1
<1> QED  BY <1>2, <1>3, <1>4, <1>5, <1>6, <1>7, <1>9, <1>10

(* At most one piece of a line reads like a request line, and only of a    *)
(* line that does or has a piece that does.                                *)
LEMMA OnePiece ==
  ASSUME NEW l \in Lines, NEW cut \in Cuts(l.kind)
  PROVE  /\ FirstPiece(l, cut) \in Lines /\ SecondPiece(l, cut) \in Lines
         /\ FirstPiece(l, cut).of = l.of /\ SecondPiece(l, cut).of = l.of
         /\ FirstPiece(l, cut).part = "front" /\ ~ FirstPiece(l, cut).last
         /\ \/ FirstPiece(l, cut).kind \in RequestLines
            \/ SecondPiece(l, cut).kind \in RequestLines
            => l.kind \in RequestLines
         /\ ~ /\ FirstPiece(l, cut).kind \in RequestLines
              /\ SecondPiece(l, cut).kind \in RequestLines
<1>1. l.kind \in Kinds \cup Pieces
  BY DEF Lines
<1>2. /\ cut[1] \in Kinds \cup Pieces /\ cut[2] \in Kinds \cup Pieces
      /\ cut[1] \in RequestLines \/ cut[2] \in RequestLines => l.kind \in RequestLines
      /\ ~ (cut[1] \in RequestLines /\ cut[2] \in RequestLines)
  <2>1. CASE l.kind = "start"
    BY <2>1 DEF Cuts, Kinds, Pieces, Headers, RequestLines
  <2>2. CASE l.kind = "field"
    BY <2>2 DEF Cuts, Kinds, Pieces, Headers, RequestLines
  <2>3. CASE l.kind = "upgrade"
    BY <2>3 DEF Cuts, Kinds, Pieces, Headers, RequestLines
  <2>4. CASE l.kind = "settings"
    BY <2>4 DEF Cuts, Kinds, Pieces, Headers, RequestLines
  <2>5. CASE l.kind = "nocolon"
    BY <2>5 DEF Cuts, Kinds, Pieces, Headers, RequestLines
  <2>6. CASE l.kind = "text"
    BY <2>6 DEF Cuts, Kinds, Pieces, Headers, RequestLines
  <2>7. CASE l.kind = "quote"
    BY <2>7 DEF Cuts, Kinds, Pieces, Headers, RequestLines
  <2>8. CASE l.kind \in {"blank", "odd", "target", "method"}
    BY <2>8 DEF Cuts, Kinds, Pieces, Headers, RequestLines
  <2> QED  BY <1>1, <2>1, <2>2, <2>3, <2>4, <2>5, <2>6, <2>7, <2>8
           DEF Kinds, Pieces, Headers
<1>3. /\ FirstPiece(l, cut) \in Lines /\ SecondPiece(l, cut) \in Lines
      /\ FirstPiece(l, cut).of = l.of /\ SecondPiece(l, cut).of = l.of
      /\ FirstPiece(l, cut).part = "front" /\ FirstPiece(l, cut).last = FALSE
      /\ FirstPiece(l, cut).kind = cut[1] /\ SecondPiece(l, cut).kind = cut[2]
  BY <1>2 DEF Lines, FirstPiece, SecondPiece
<1> QED  BY <1>2, <1>3

(* The line of the wire that the line j was before line i was cut.         *)
Uncut(i, j) == IF j <= i THEN j ELSE j - 1

(* What the wire holds when line i is cut.                                 *)
LEMMA CutMakes ==
  ASSUME wire \in Seq(Lines), NEW i \in 1 .. Len(wire),
         NEW cut \in Cuts(wire[i].kind), Cut(i, cut)
  PROVE  /\ wire' \in Seq(Lines) /\ Len(wire') = Len(wire) + 1
         /\ \A j \in 1 .. (i - 1) : wire'[j] = wire[j]
         /\ wire'[i] = FirstPiece(wire[i], cut)
         /\ wire'[i + 1] = SecondPiece(wire[i], cut)
         /\ \A j \in (i + 2) .. (Len(wire) + 1) : wire'[j] = wire[j - 1]
<1>1. PICK w \in Nat : w = Len(wire) /\ DOMAIN wire = 1 .. w
  BY LenProperties
<1>2. i \in 1 .. w /\ wire[i] \in Lines /\ \A j \in 1 .. w : wire[j] \in Lines
  BY <1>1, ElementOfSeq
<1>3. PICK f \in Lines, b \in Lines : f = FirstPiece(wire[i], cut) /\ b = SecondPiece(wire[i], cut)
  BY <1>2, OnePiece
<1>4. PICK x, y : x = SubSeq(wire, 1, i - 1) /\ y = SubSeq(wire, i + 1, w)
  OBVIOUS
<1>5. x \in Seq(Lines) /\ Len(x) = i - 1 /\ \A j \in 1 .. (i - 1) : x[j] = wire[j]
  <2>1. i - 1 \in Int /\ 1 \in Int /\ \A j \in 1 .. (i - 1) : wire[j] \in Lines
    BY <1>2
  <2>2. /\ SubSeq(wire, 1, i - 1) \in Seq(Lines)
        /\ Len(SubSeq(wire, 1, i - 1)) = IF 1 <= i - 1 THEN i - 1 - 1 + 1 ELSE 0
        /\ \A j \in 1 .. i - 1 - 1 + 1 : SubSeq(wire, 1, i - 1)[j] = wire[1 + j - 1]
    BY <2>1, SubSeqProperties
  <2>3. i - 1 = (IF 1 <= i - 1 THEN i - 1 - 1 + 1 ELSE 0) /\ i - 1 - 1 + 1 = i - 1
        /\ \A j \in 1 .. (i - 1) : 1 + j - 1 = j
    BY <1>2
  <2> QED  BY <1>4, <2>2, <2>3
<1>6. y \in Seq(Lines) /\ Len(y) = w - i /\ \A j \in 1 .. (w - i) : y[j] = wire[i + j]
  <2>1. i + 1 \in Int /\ w \in Int /\ \A j \in (i + 1) .. w : wire[j] \in Lines
    BY <1>2
  <2>2. /\ SubSeq(wire, i + 1, w) \in Seq(Lines)
        /\ Len(SubSeq(wire, i + 1, w)) = IF i + 1 <= w THEN w - (i + 1) + 1 ELSE 0
        /\ \A j \in 1 .. w - (i + 1) + 1 : SubSeq(wire, i + 1, w)[j] = wire[i + 1 + j - 1]
    BY <2>1, SubSeqProperties
  <2>3. w - i = (IF i + 1 <= w THEN w - (i + 1) + 1 ELSE 0) /\ w - (i + 1) + 1 = w - i
        /\ \A j \in 1 .. (w - i) : i + 1 + j - 1 = i + j
    BY <1>2
  <2> QED  BY <1>4, <2>2, <2>3
<1>7. PICK z : z = <<f, b>>
  OBVIOUS
<1>8. z \in Seq(Lines) /\ Len(z) = 2 /\ z[1] = f /\ z[2] = b
  BY <1>7
<1>9. PICK xz : xz = x \o z
  OBVIOUS
<1>10. /\ xz \in Seq(Lines) /\ Len(xz) = i + 1
       /\ \A j \in 1 .. (i + 1) : xz[j] = IF j <= i - 1 THEN x[j] ELSE z[j - (i - 1)]
  <2>1. PICK m \in Nat, n \in Nat : m = i - 1 /\ n = 2
    BY <1>2
  <2>2. Len(x) = m /\ Len(z) = n
    BY <1>5, <1>8, <2>1
  <2>3. x \in Seq(Lines) /\ z \in Seq(Lines)
    BY <1>5, <1>8
  <2>5. /\ x \o z \in Seq(Lines) /\ Len(x \o z) = Len(x) + Len(z)
        /\ \A j \in 1 .. Len(x) + Len(z) :
             (x \o z)[j] = IF j <= Len(x) THEN x[j] ELSE z[j - Len(x)]
    BY <2>3, ConcatProperties
  <2>6. /\ xz \in Seq(Lines) /\ Len(xz) = m + n
        /\ \A j \in 1 .. m + n : xz[j] = IF j <= m THEN x[j] ELSE z[j - m]
    BY <1>9, <2>2, <2>5
  <2>4. m + n = i + 1
    BY <2>1
  <2> QED  BY <2>1, <2>4, <2>6
<1>11. wire' = xz \o y
  BY <1>1, <1>3, <1>4, <1>7, <1>9 DEF Cut
<1>12. /\ wire' \in Seq(Lines) /\ Len(wire') = w + 1
       /\ \A j \in 1 .. (w + 1) : wire'[j] = IF j <= i + 1 THEN xz[j] ELSE y[j - (i + 1)]
  <2>1. PICK m \in Nat, n \in Nat : m = i + 1 /\ n = w - i
    BY <1>2
  <2>2. Len(xz) = m /\ Len(y) = n
    BY <1>6, <1>10, <2>1
  <2>3. xz \in Seq(Lines) /\ y \in Seq(Lines)
    BY <1>10, <1>6
  <2>5. /\ xz \o y \in Seq(Lines) /\ Len(xz \o y) = Len(xz) + Len(y)
        /\ \A j \in 1 .. Len(xz) + Len(y) :
             (xz \o y)[j] = IF j <= Len(xz) THEN xz[j] ELSE y[j - Len(xz)]
    BY <2>3, ConcatProperties
  <2>6. /\ wire' \in Seq(Lines) /\ Len(wire') = m + n
        /\ \A j \in 1 .. m + n : wire'[j] = IF j <= m THEN xz[j] ELSE y[j - m]
    BY <1>11, <2>2, <2>5
  <2>4. m + n = w + 1
    BY <1>2, <2>1
  <2> QED  BY <2>1, <2>4, <2>6
<1>13. \A j \in 1 .. (i - 1) : wire'[j] = wire[j]
  <2> TAKE j \in 1 .. (i - 1)
  <2>1. j \in 1 .. (w + 1) /\ j \in 1 .. (i + 1) /\ j <= i + 1 /\ j <= i - 1
    BY <1>2
  <2> QED  BY <1>5, <1>10, <1>12, <2>1
<1>14. wire'[i] = f /\ wire'[i + 1] = b
  <2>1. /\ i \in 1 .. (w + 1) /\ i \in 1 .. (i + 1) /\ i <= i + 1 /\ ~ (i <= i - 1)
        /\ i - (i - 1) = 1
        /\ i + 1 \in 1 .. (w + 1) /\ i + 1 \in 1 .. (i + 1) /\ i + 1 <= i + 1 /\ ~ (i + 1 <= i - 1)
        /\ i + 1 - (i - 1) = 2
    BY <1>2
  <2> QED  BY <1>8, <1>10, <1>12, <2>1
<1>15. \A j \in (i + 2) .. (w + 1) : wire'[j] = wire[j - 1]
  <2> TAKE j \in (i + 2) .. (w + 1)
  <2>1. /\ j \in 1 .. (w + 1) /\ ~ (j <= i + 1) /\ j - (i + 1) \in 1 .. (w - i)
        /\ i + (j - (i + 1)) = j - 1
    BY <1>2
  <2> QED  BY <1>6, <1>12, <2>1
<1> QED  BY <1>1, <1>3, <1>12, <1>13, <1>14, <1>15

(* Every line of that wire is of the message of the line it was, and reads *)
(* like a request line only if that one did; no two do of one line.        *)
LEMMA CutKeeps ==
  ASSUME wire \in Seq(Lines), NEW i \in 1 .. Len(wire),
         NEW cut \in Cuts(wire[i].kind), Cut(i, cut),
         NEW j \in 1 .. Len(wire')
  PROVE  /\ Uncut(i, j) \in 1 .. Len(wire)
         /\ wire'[j].of = wire[Uncut(i, j)].of
         /\ Starts(j)' => Starts(Uncut(i, j))
         /\ Starts(i)' => ~ Starts(i + 1)'
<1>1. PICK w \in Nat : w = Len(wire)
  BY LenProperties
<1>2. i \in 1 .. w /\ Len(wire') = w + 1 /\ j \in 1 .. (w + 1) /\ wire[i] \in Lines
  BY <1>1, CutMakes, ElementOfSeq
<1>3. /\ wire'[i].of = wire[i].of /\ wire'[i + 1].of = wire[i].of
      /\ Starts(i)' \/ Starts(i + 1)' => Starts(i)
      /\ ~ (Starts(i)' /\ Starts(i + 1)')
  BY <1>2, CutMakes, OnePiece DEF Starts
<1>4. CASE j \in 1 .. (i - 1)
  <2>1. Uncut(i, j) = j /\ wire'[j] = wire[j]
    BY <1>2, <1>4, CutMakes DEF Uncut
  <2> QED  BY <1>1, <1>2, <1>3, <1>4, <2>1 DEF Starts
<1>5. CASE j = i
  BY <1>1, <1>2, <1>3, <1>5 DEF Uncut
<1>6. CASE j = i + 1
  <2>1. Uncut(i, j) = i
    BY <1>2, <1>6 DEF Uncut
  <2> QED  BY <1>1, <1>2, <1>3, <1>6, <2>1
<1>7. CASE j \in (i + 2) .. (w + 1)
  <2>1. Uncut(i, j) = j - 1 /\ wire'[j] = wire[j - 1] /\ j - 1 \in 1 .. w
    BY <1>1, <1>2, <1>7, CutMakes DEF Uncut
  <2> QED  BY <1>1, <1>3, <2>1 DEF Starts
<1> QED  BY <1>2, <1>4, <1>5, <1>6, <1>7

(* What a chunk that is accepted adds.                                     *)
LEMMA AcceptAdds ==
  ASSUME TypeOK, NEW n \in 1 .. Len(wire), NEW q, Accepts(q, n)
  PROVE  /\ requests' \in Seq(Requests) /\ Len(requests') = Len(requests) + 1
         /\ \A r \in 1 .. Len(requests) : requests'[r] = requests[r]
         /\ requests'[Len(requests) + 1] = q
         /\ \E p \in 1 .. n : q.first = wire[p] /\ Starts(p)
<1>1. requests \in Seq(Requests)
  BY DEF TypeOK, Requests
<1>2. q \in Requests /\ requests' = Append(requests, q)
  BY DEF Accepts
<1>3. /\ requests' \in Seq(Requests) /\ Len(requests') = Len(requests) + 1
      /\ \A r \in 1 .. Len(requests) : requests'[r] = requests[r]
      /\ requests'[Len(requests) + 1] = q
  BY <1>1, <1>2, AppendProperties
<1>4. \A i \in 1 .. n : SubSeq(wire, 1, n)[i] = wire[i]
  <2>1. wire \in Seq(Lines) /\ Len(wire) \in Nat
    BY LenProperties DEF TypeOK
  <2>2. \A i \in 1 .. n : wire[i] \in Lines
    BY <2>1, ElementOfSeq
  <2>3. \A i \in 1 .. n - 1 + 1 : SubSeq(wire, 1, n)[i] = wire[1 + i - 1]
    BY <2>1, <2>2, SubSeqProperties
  <2> QED  BY <2>1, <2>3
<1>5. \E p \in 1 .. n : q.first = wire[p] /\ Starts(p)
  BY <1>4 DEF Accepts, Starts
<1> QED  BY <1>3, <1>5

LEMMA InitType == Init => TypeOK
<1>1. \A S : <<>> \in Seq(S) /\ DOMAIN <<>> = {}
  BY EmptySeq
<1> QED  BY <1>1 DEF Init, TypeOK

(* Every action keeps the types.                                           *)
LEMMA NextType == TypeOK /\ [Next]_vars => TypeOK'
<1> SUFFICES ASSUME TypeOK, [Next]_vars PROVE TypeOK'
  OBVIOUS
<1> USE DEF Requests
<1>0. /\ requests \in Seq(Requests) /\ Len(requests) \in Nat
      /\ DOMAIN requests = 1 .. Len(requests)
      /\ wire \in Seq(Lines) /\ answers \in Seq([to : DOMAIN requests, whole : BOOLEAN])
  BY LenProperties DEF TypeOK
<1>1. ASSUME NEW shape \in Shapes, Send(shape) PROVE TypeOK'
  <2>1. sent' \in Seq(Seq(Lines)) /\ wire' \in Seq(Lines)
    BY <1>1, SendAdds
  <2> QED  BY <1>1, <2>1 DEF Send, TypeOK
<1>2. ASSUME NEW n \in 1 .. Len(wire), Deliver(n) PROVE TypeOK'
  <2>1. wire' \in Seq(Lines)
    BY <1>0, <1>2, WireShrinks
  <2>2. patient' = patient /\ sent' = sent /\ answers' = answers
    BY <1>2 DEF Deliver
  <2>3. CASE Closes
    BY <2>1, <2>2, <2>3 DEF Closes, TypeOK
  <2>4. ASSUME NEW q, Accepts(q, n) PROVE TypeOK'
    <3>1. requests' \in Seq(Requests) /\ Len(requests') = Len(requests) + 1
      BY <2>4, AcceptAdds
    <3>2. DOMAIN requests' = 1 .. (Len(requests) + 1)
      BY <3>1, LenProperties
    <3>3. DOMAIN requests \subseteq DOMAIN requests'
      BY <1>0, <3>2
    <3>4. running' \subseteq DOMAIN requests'
      BY <1>0, <2>4, <3>2, <3>3 DEF Accepts, TypeOK
    <3>5. answers' \in Seq([to : DOMAIN requests', whole : BOOLEAN])
      <4>1. [to : DOMAIN requests, whole : BOOLEAN] \subseteq [to : DOMAIN requests', whole : BOOLEAN]
        BY <3>3
      <4> QED  BY <1>0, <2>2, <4>1, SequenceOfMore
    <3> QED  BY <2>1, <2>2, <2>4, <3>1, <3>4, <3>5 DEF Accepts, TypeOK
  <2> QED  BY <1>0, <1>2, <2>3, <2>4, DeliverDoes
<1>3. ASSUME NEW i \in running, NEW outcome \in Outcomes, Answer(i, outcome) PROVE TypeOK'
  <2>1. i \in DOMAIN requests
    BY DEF TypeOK
  <2> DEFINE a == [to |-> i, whole |-> outcome # "open" \/ parser = "http2"]
  <2>2. a \in [to : DOMAIN requests, whole : BOOLEAN]
    BY <2>1
  <2>3. answers' = Append(answers, a)
    BY <1>3 DEF Answer
  <2> HIDE DEF a
  <2>4. answers' \in Seq([to : DOMAIN requests, whole : BOOLEAN])
    BY <1>0, <2>2, <2>3, AppendProperties
  <2> QED  BY <1>3, <2>4 DEF Answer, TypeOK
<1>4. CASE UNCHANGED vars
  BY <1>4 DEF vars, TypeOK
<1>5. ASSUME NEW i \in DOMAIN wire, NEW cut \in Cuts(wire[i].kind), Cut(i, cut) PROVE TypeOK'
  <2>1. wire' \in Seq(Lines)
    <3>1. i \in 1 .. Len(wire)
      BY <1>0, LenProperties
    <3> QED  BY <1>0, <1>5, <3>1, CutMakes
  <2> QED  BY <1>5, <2>1 DEF Cut, TypeOK
<1> QED  BY <1>1, <1>2, <1>3, <1>4, <1>5 DEF Next, Over

(* HTTP/1 keeps to its types.                                              *)
THEOREM TypeCorrect == Spec => []TypeOK
<1> QED  BY InitType, NextType, PTL DEF Spec

-----------------------------------------------------------------------------
(* Numbers of messages.                                                    *)

(* Every action keeps each line numbered with its message.                 *)
LEMMA NumberedStep == TypeOK /\ Numbered /\ [Next]_vars => Numbered'
<1> SUFFICES ASSUME TypeOK, Numbered, [Next]_vars PROVE Numbered'
  OBVIOUS
<1>0. /\ Len(sent) \in Nat /\ DOMAIN sent = 1 .. Len(sent)
      /\ Len(wire) \in Nat /\ DOMAIN wire = 1 .. Len(wire)
      /\ Len(requests) \in Nat /\ DOMAIN requests = 1 .. Len(requests)
      /\ wire \in Seq(Lines)
  BY LenProperties DEF TypeOK
<1>1. ASSUME NEW shape \in Shapes, Send(shape) PROVE Numbered'
  <2>1. PICK m \in Seq(Lines) :
         /\ Len(sent) + 1 \in 1 .. MaxMessages
         /\ \A j \in 1 .. Len(m) : m[j].of = Len(sent) + 1 /\ (m[j].last <=> j = Len(m))
         /\ sent' \in Seq(Seq(Lines)) /\ Len(sent') = Len(sent) + 1
         /\ \A k \in 1 .. Len(sent) : sent'[k] = sent[k]
         /\ sent'[Len(sent) + 1] = m
         /\ wire' \in Seq(Lines) /\ Len(wire') = Len(wire) + Len(m)
         /\ \A i \in 1 .. Len(wire) : wire'[i] = wire[i]
         /\ \A i \in 1 .. Len(m) : wire'[Len(wire) + i] = m[i]
    BY <1>1, SendAdds
  <2>2. /\ Len(sent) + 1 \in 1 .. MaxMessages
        /\ \A j \in 1 .. Len(m) : m[j].of = Len(sent) + 1 /\ (m[j].last <=> j = Len(m))
        /\ sent' \in Seq(Seq(Lines)) /\ Len(sent') = Len(sent) + 1
        /\ \A k \in 1 .. Len(sent) : sent'[k] = sent[k]
        /\ sent'[Len(sent) + 1] = m
    BY <2>1
  <2>3. /\ wire' \in Seq(Lines) /\ Len(wire') = Len(wire) + Len(m)
        /\ \A i \in 1 .. Len(wire) : wire'[i] = wire[i]
        /\ \A i \in 1 .. Len(m) : wire'[Len(wire) + i] = m[i]
    BY <2>1
  <2>4. /\ DOMAIN sent' = 1 .. (Len(sent) + 1) /\ DOMAIN wire' = 1 .. (Len(wire) + Len(m))
        /\ DOMAIN m = 1 .. Len(m) /\ Len(m) \in Nat
    BY <2>2, <2>3, LenProperties
  <2>5. \A k \in DOMAIN sent' : \A j \in DOMAIN sent'[k] :
          sent'[k][j].of = k /\ (sent'[k][j].last <=> j = Len(sent'[k]))
    <3> TAKE k \in DOMAIN sent'
    <3>1. CASE k \in 1 .. Len(sent)
      BY <1>0, <2>2, <3>1 DEF Numbered
    <3>2. CASE k = Len(sent) + 1
      <4>1. sent'[k] = m
        BY <2>2, <3>2
      <4>2. \A j \in DOMAIN m : m[j].of = k /\ (m[j].last <=> j = Len(m))
        BY <2>2, <2>4, <3>2, Zenon
      <4> QED  BY <4>1, <4>2, Zenon
    <3> QED  BY <1>0, <2>4, <3>1, <3>2
  <2>6. \A i \in DOMAIN wire' : wire'[i].of \in DOMAIN sent'
    <3> TAKE i \in DOMAIN wire'
    <3>1. CASE i \in 1 .. Len(wire)
      BY <1>0, <2>3, <2>4, <3>1 DEF Numbered
    <3>2. CASE ~ i \in 1 .. Len(wire)
      <4>1. PICK j \in 1 .. Len(m) : i = Len(wire) + j
        <5>1. i - Len(wire) \in 1 .. Len(m) /\ i = Len(wire) + (i - Len(wire))
          BY <1>0, <2>4, <3>2
        <5> QED  BY <5>1
      <4>2. wire'[i] = m[j] /\ m[j].of = Len(sent) + 1
        BY <2>2, <2>3, <4>1
      <4> QED  BY <1>0, <2>4, <4>2
    <3> QED  BY <3>1, <3>2
  <2>7. requests' = requests
    BY <1>1 DEF Send
  <2>8. \A r \in DOMAIN requests' : requests'[r].first.of \in DOMAIN sent'
    BY <1>0, <2>4, <2>7 DEF Numbered
  <2>9. Len(sent') <= MaxMessages
    BY <2>2, Http1Assumption
  <2> QED  BY <2>5, <2>6, <2>8, <2>9 DEF Numbered
<1>2. ASSUME NEW n \in 1 .. Len(wire), Deliver(n) PROVE Numbered'
  <2>1. /\ wire' \in Seq(Lines)
        /\ \A i \in 1 .. Len(wire') : wire'[i] = wire[n + i] /\ n + i \in 1 .. Len(wire)
    <3>1. wire \in Seq(Lines)
      BY <1>0
    <3> QED  BY <1>2, <3>1, WireShrinks
  <2>2. sent' = sent
    BY <1>2 DEF Deliver
  <2>3. DOMAIN wire' = 1 .. Len(wire')
    BY <2>1, LenProperties
  <2>4. \A i \in DOMAIN wire' : wire'[i].of \in DOMAIN sent'
    BY <1>0, <2>1, <2>2, <2>3 DEF Numbered
  <2>5. CASE Closes
    BY <2>2, <2>4, <2>5 DEF Closes, Numbered
  <2>6. ASSUME NEW q, Accepts(q, n) PROVE Numbered'
    <3>1. /\ requests' \in Seq(Requests) /\ Len(requests') = Len(requests) + 1
          /\ \A r \in 1 .. Len(requests) : requests'[r] = requests[r]
          /\ requests'[Len(requests) + 1] = q
          /\ \E p \in 1 .. n : q.first = wire[p] /\ Starts(p)
      BY <2>6, AcceptAdds
    <3>2. DOMAIN requests' = 1 .. (Len(requests) + 1)
      BY <3>1, LenProperties
    <3>3. q.first.of \in DOMAIN sent
      <4>1. \A p \in 1 .. n : p \in DOMAIN wire
        BY <1>0
      <4> QED  BY <3>1, <4>1 DEF Numbered
    <3>4. \A r \in DOMAIN requests' : requests'[r].first.of \in DOMAIN sent'
      <4> TAKE r \in DOMAIN requests'
      <4>1. CASE r \in 1 .. Len(requests)
        BY <1>0, <2>2, <3>1, <4>1 DEF Numbered
      <4>2. CASE r = Len(requests) + 1
        BY <2>2, <3>1, <3>3, <4>2
      <4> QED  BY <1>0, <3>2, <4>1, <4>2
    <3> QED  BY <2>2, <2>4, <3>4 DEF Numbered
  <2> QED  BY <1>0, <1>2, <2>5, <2>6, DeliverDoes
<1>3. ASSUME NEW i \in running, NEW outcome \in Outcomes, Answer(i, outcome) PROVE Numbered'
  BY <1>3 DEF Answer, Numbered
<1>4. CASE UNCHANGED vars
  BY <1>4 DEF vars, Numbered
<1>5. ASSUME NEW i \in DOMAIN wire, NEW cut \in Cuts(wire[i].kind), Cut(i, cut) PROVE Numbered'
  <2>1. sent' = sent /\ requests' = requests
    BY <1>5 DEF Cut
  <2>2. DOMAIN wire' = 1 .. Len(wire')
    BY <1>0, <1>5, CutMakes, LenProperties
  <2>3. \A j \in DOMAIN wire' : wire'[j].of \in DOMAIN sent
    BY <1>0, <1>5, <2>2, CutKeeps DEF Numbered
  <2> QED  BY <2>1, <2>3 DEF Numbered
<1> QED  BY <1>1, <1>2, <1>3, <1>4, <1>5 DEF Next, Over

(* A parser once chosen stays chosen.                                      *)
LEMMA KeptStep == TypeOK /\ Kept /\ [Next]_vars => Kept'
<1> SUFFICES ASSUME TypeOK, Kept, [Next]_vars PROVE Kept'
  OBVIOUS
<1>1. ASSUME NEW shape \in Shapes, Send(shape) PROVE Kept'
  BY <1>1 DEF Send, Kept
<1>2. ASSUME NEW n \in 1 .. Len(wire), Deliver(n) PROVE Kept'
  <2>1. CASE Closes
    BY <2>1 DEF Closes, Kept
  <2>2. ASSUME NEW q, Accepts(q, n) PROVE Kept'
    BY <2>2 DEF Accepts, Kept
  <2>3. wire \in Seq(Lines)
    BY DEF TypeOK
  <2> QED  BY <1>2, <2>1, <2>2, <2>3, DeliverDoes
<1>3. ASSUME NEW i \in running, NEW outcome \in Outcomes, Answer(i, outcome) PROVE Kept'
  BY <1>3 DEF Answer, Kept
<1>4. CASE UNCHANGED vars
  BY <1>4 DEF vars, Kept
<1>5. ASSUME NEW i \in DOMAIN wire, NEW cut \in Cuts(wire[i].kind), Cut(i, cut) PROVE Kept'
  BY <1>5 DEF Cut, Kept
<1> QED  BY <1>1, <1>2, <1>3, <1>4, <1>5 DEF Next, Over

-----------------------------------------------------------------------------
(* The order of messages.                                                  *)

(* When only plain messages have been sent, that was so a step before.     *)
LEMMA PlainBefore == TypeOK /\ AllPlain' /\ [Next]_vars => AllPlain
<1> SUFFICES ASSUME TypeOK, AllPlain', [Next]_vars PROVE AllPlain
  OBVIOUS
<1>1. ASSUME NEW shape \in Shapes, Send(shape) PROVE AllPlain
  <2>1. /\ sent' \in Seq(Seq(Lines)) /\ Len(sent') = Len(sent) + 1
        /\ \A k \in 1 .. Len(sent) : sent'[k] = sent[k]
    BY <1>1, SendAdds
  <2>2. DOMAIN sent = 1 .. Len(sent) /\ Len(sent) \in Nat /\ DOMAIN sent' = 1 .. Len(sent')
    BY <2>1, LenProperties DEF TypeOK
  <2>3. \A k \in DOMAIN sent : k \in DOMAIN sent' /\ sent'[k] = sent[k]
    BY <2>1, <2>2
  <2> QED  BY <2>3 DEF AllPlain, Plain
<1>2. CASE sent' = sent
  BY <1>2 DEF AllPlain
<1> QED  BY <1>1, <1>2 DEF Next, Cut, Deliver, Answer, Over, vars

(* A line of the wire after a message is sent is one of before or one of   *)
(* the message.                                                            *)
LEMMA SendWire ==
  ASSUME TypeOK, NEW m \in Seq(Lines),
         wire' \in Seq(Lines), Len(wire') = Len(wire) + Len(m),
         \A i \in 1 .. Len(wire) : wire'[i] = wire[i],
         \A i \in 1 .. Len(m) : wire'[Len(wire) + i] = m[i],
         NEW i \in DOMAIN wire'
  PROVE  \/ i \in DOMAIN wire /\ i <= Len(wire) /\ wire'[i] = wire[i]
         \/ \E a \in 1 .. Len(m) : i = Len(wire) + a /\ wire'[i] = m[a]
<1>1. /\ DOMAIN wire' = 1 .. Len(wire') /\ DOMAIN wire = 1 .. Len(wire)
      /\ Len(wire) \in Nat /\ Len(m) \in Nat
  BY LenProperties DEF TypeOK
<1>2. CASE i <= Len(wire)
  BY <1>1, <1>2
<1>3. CASE ~ (i <= Len(wire))
  <2>1. i - Len(wire) \in 1 .. Len(m) /\ i = Len(wire) + (i - Len(wire))
    BY <1>1, <1>3
  <2> QED  BY <2>1
<1> QED  BY <1>2, <1>3

(* Every action keeps the request lines in order, those read before those  *)
(* on the wire.                                                            *)
LEMMA AheadStep == TypeOK /\ Numbered /\ Ahead /\ AllPlain' /\ [Next]_vars => Ahead'
<1> SUFFICES ASSUME TypeOK, Numbered, Ahead, AllPlain', [Next]_vars PROVE Ahead'
  OBVIOUS
<1>0. /\ Len(sent) \in Nat /\ DOMAIN sent = 1 .. Len(sent)
      /\ Len(wire) \in Nat /\ DOMAIN wire = 1 .. Len(wire)
      /\ Len(requests) \in Nat /\ DOMAIN requests = 1 .. Len(requests)
      /\ wire \in Seq(Lines)
  BY LenProperties DEF TypeOK
<1>1. ASSUME NEW shape \in Shapes, Send(shape) PROVE Ahead'
  <2>1. PICK m \in Seq(Lines) :
         /\ \A j \in 1 .. Len(m) : m[j].of = Len(sent) + 1 /\ (m[j].last <=> j = Len(m))
         /\ sent' \in Seq(Seq(Lines)) /\ Len(sent') = Len(sent) + 1
         /\ sent'[Len(sent) + 1] = m
         /\ wire' \in Seq(Lines) /\ Len(wire') = Len(wire) + Len(m)
         /\ \A i \in 1 .. Len(wire) : wire'[i] = wire[i]
         /\ \A i \in 1 .. Len(m) : wire'[Len(wire) + i] = m[i]
    BY <1>1, SendAdds
  <2>2. requests' = requests
    BY <1>1 DEF Send
  <2>3. \A i \in DOMAIN wire' :
           \/ i \in DOMAIN wire /\ i <= Len(wire) /\ wire'[i] = wire[i]
           \/ \E a \in 1 .. Len(m) : i = Len(wire) + a /\ wire'[i] = m[a]
    BY <2>1, SendWire
  <2>4. Plain(m)
    <3>1. Len(sent) + 1 \in DOMAIN sent'
      BY <1>0, <2>1, LenProperties
    <3> QED  BY <2>1, <3>1 DEF AllPlain
  <2>5. \A a, b \in 1 .. Len(m) :
          m[a].kind \in RequestLines /\ m[b].kind \in RequestLines => a = b
    BY <2>4, LenProperties DEF Plain
  <2>6. \A i \in DOMAIN wire : wire[i].of < Len(sent) + 1
    BY <1>0 DEF Numbered
  <2>7. \A r \in DOMAIN requests : requests[r].first.of < Len(sent) + 1
    BY <1>0 DEF Numbered
  <2>8. ASSUME NEW i \in DOMAIN wire', NEW j \in DOMAIN wire', i < j, Starts(i)', Starts(j)'
        PROVE  wire'[i].of < wire'[j].of
    <3>1. CASE j \in DOMAIN wire /\ j <= Len(wire) /\ wire'[j] = wire[j]
      <4>1. i \in DOMAIN wire /\ wire'[i] = wire[i]
        <5>1. i \in Nat /\ Len(wire) \in Nat /\ i <= Len(wire)
          BY <1>0, <2>1, <2>8, <3>1, LenProperties
        <5>2. \A a \in 1 .. Len(m) : i # Len(wire) + a
          BY <5>1, <1>0, LenProperties
        <5> QED  BY <2>3, <5>2
      <4> QED  BY <2>8, <3>1, <4>1 DEF Ahead, Starts
    <3>2. ASSUME NEW b \in 1 .. Len(m), j = Len(wire) + b, wire'[j] = m[b]
          PROVE  wire'[i].of < wire'[j].of
      <4>1. wire'[j].of = Len(sent) + 1
        BY <2>1, <3>2
      <4>2. CASE i \in DOMAIN wire /\ wire'[i] = wire[i]
        BY <2>6, <4>1, <4>2
      <4>3. ASSUME NEW a \in 1 .. Len(m), i = Len(wire) + a, wire'[i] = m[a]
            PROVE  FALSE
        <5>1. a = b
          BY <2>5, <2>8, <3>2, <4>3 DEF Starts
        <5>2. i = j
          BY <3>2, <4>3, <5>1
        <5>3. i \in Nat
          BY <2>1, LenProperties
        <5> QED  BY <2>8, <5>2, <5>3
      <4> QED  BY <2>3, <4>2, <4>3
    <3> QED  BY <2>3, <3>1, <3>2
  <2>9. ASSUME NEW r \in DOMAIN requests, NEW i \in DOMAIN wire', Starts(i)'
        PROVE  requests[r].first.of < wire'[i].of
    <3>1. CASE i \in DOMAIN wire /\ wire'[i] = wire[i]
      BY <2>9, <3>1 DEF Ahead, Starts
    <3>2. ASSUME NEW a \in 1 .. Len(m), wire'[i] = m[a]
          PROVE  requests[r].first.of < wire'[i].of
      BY <2>1, <2>7, <3>2
    <3> QED  BY <2>3, <3>1, <3>2
  <2> QED  BY <2>2, <2>8, <2>9 DEF Ahead
<1>2. ASSUME NEW n \in 1 .. Len(wire), Deliver(n) PROVE Ahead'
  <2>1. /\ wire' \in Seq(Lines)
        /\ \A i \in 1 .. Len(wire') : wire'[i] = wire[n + i] /\ n + i \in 1 .. Len(wire)
    <3>1. wire \in Seq(Lines)
      BY <1>0
    <3> QED  BY <1>2, <3>1, WireShrinks
  <2>2. DOMAIN wire' = 1 .. Len(wire') /\ Len(wire') \in Nat
    BY <2>1, LenProperties
  <2>3. \A i, j \in DOMAIN wire' :
          i < j /\ Starts(i)' /\ Starts(j)' => wire'[i].of < wire'[j].of
    <3> TAKE i, j \in DOMAIN wire'
    <3> HAVE i < j /\ Starts(i)' /\ Starts(j)'
    <3>1. n + i \in DOMAIN wire /\ n + j \in DOMAIN wire /\ n + i < n + j
      BY <1>0, <2>1, <2>2
    <3>2. Starts(n + i) /\ Starts(n + j)
      BY <2>1, <2>2 DEF Starts
    <3>3. wire[n + i].of < wire[n + j].of
      BY <3>1, <3>2 DEF Ahead
    <3> QED  BY <2>1, <2>2, <3>3
  <2>4. \A r \in DOMAIN requests : \A i \in DOMAIN wire' :
          Starts(i)' => requests[r].first.of < wire'[i].of
    <3> TAKE r \in DOMAIN requests
    <3> TAKE i \in DOMAIN wire'
    <3> HAVE Starts(i)'
    <3>1. n + i \in DOMAIN wire /\ wire'[i] = wire[n + i]
      BY <1>0, <2>1, <2>2
    <3>2. Starts(n + i)
      BY <3>1 DEF Starts
    <3> QED  BY <3>1, <3>2 DEF Ahead
  <2>5. CASE Closes
    BY <2>3, <2>4, <2>5 DEF Closes, Ahead
  <2>6. ASSUME NEW q, Accepts(q, n) PROVE Ahead'
    <3>1. /\ requests' \in Seq(Requests) /\ Len(requests') = Len(requests) + 1
          /\ \A r \in 1 .. Len(requests) : requests'[r] = requests[r]
          /\ requests'[Len(requests) + 1] = q
      BY <2>6, AcceptAdds
    <3>2. PICK p \in 1 .. n : q.first = wire[p] /\ Starts(p)
      BY <2>6, AcceptAdds
    <3>3. DOMAIN requests' = 1 .. (Len(requests) + 1)
      BY <3>1, LenProperties
    <3>4. \A r \in DOMAIN requests' :
            \/ r \in DOMAIN requests /\ r < Len(requests) + 1 /\ requests'[r] = requests[r]
            \/ r = Len(requests) + 1 /\ requests'[r] = q
      BY <1>0, <3>1, <3>3
    <3>5. \A r \in DOMAIN requests : requests[r].first.of < q.first.of
      BY <1>0, <3>2 DEF Ahead
    <3>6. \A i \in DOMAIN wire' : Starts(i)' => q.first.of < wire'[i].of
      <4> TAKE i \in DOMAIN wire'
      <4> HAVE Starts(i)'
      <4>1. n + i \in DOMAIN wire /\ p \in DOMAIN wire /\ p < n + i /\ wire'[i] = wire[n + i]
        BY <1>0, <2>1, <2>2
      <4>2. Starts(n + i)
        BY <4>1 DEF Starts
      <4> QED  BY <3>2, <4>1, <4>2 DEF Ahead
    <3>7. \A r, s \in DOMAIN requests' :
            r < s => requests'[r].first.of < requests'[s].first.of
      <4> TAKE r, s \in DOMAIN requests'
      <4> HAVE r < s
      <4>1. r \in DOMAIN requests /\ requests'[r] = requests[r]
        BY <1>0, <3>3, <3>4
      <4>2. CASE s \in DOMAIN requests /\ requests'[s] = requests[s]
        BY <4>1, <4>2 DEF Ahead
      <4>3. CASE s = Len(requests) + 1 /\ requests'[s] = q
        BY <3>5, <4>1, <4>3
      <4> QED  BY <3>4, <4>2, <4>3
    <3>8. \A r \in DOMAIN requests' : \A i \in DOMAIN wire' :
            Starts(i)' => requests'[r].first.of < wire'[i].of
      BY <2>4, <3>4, <3>6
    <3> QED  BY <2>3, <3>7, <3>8 DEF Ahead
  <2> QED  BY <1>0, <1>2, <2>5, <2>6, DeliverDoes
<1>3. ASSUME NEW i \in running, NEW outcome \in Outcomes, Answer(i, outcome) PROVE Ahead'
  BY <1>3 DEF Answer, Ahead, Starts
<1>4. CASE UNCHANGED vars
  BY <1>4 DEF vars, Ahead, Starts
<1>5. ASSUME NEW i \in DOMAIN wire, NEW cut \in Cuts(wire[i].kind), Cut(i, cut) PROVE Ahead'
  <2>1. requests' = requests
    BY <1>5 DEF Cut
  <2>2. DOMAIN wire' = 1 .. Len(wire') /\ Len(wire') \in Nat /\ i \in 1 .. Len(wire)
    BY <1>0, <1>5, CutMakes, LenProperties
  <2>3. ASSUME NEW j \in DOMAIN wire'
        PROVE  /\ Uncut(i, j) \in DOMAIN wire
               /\ wire'[j].of = wire[Uncut(i, j)].of
               /\ Starts(j)' => Starts(Uncut(i, j))
               /\ Starts(i)' => ~ Starts(i + 1)'
    <3>1. j \in 1 .. Len(wire')
      BY <2>2
    <3> QED  BY <1>0, <1>5, <2>2, <3>1, CutKeeps
  <2>4. ASSUME NEW j \in DOMAIN wire', NEW k \in DOMAIN wire', j < k, Starts(j)', Starts(k)'
        PROVE  wire'[j].of < wire'[k].of
    <3>1. ~ (j = i /\ k = i + 1)
      BY <2>3, <2>4
    <3>2. Uncut(i, j) < Uncut(i, k)
      BY <2>2, <2>4, <3>1 DEF Uncut
    <3>3. Starts(Uncut(i, j)) /\ Starts(Uncut(i, k))
      BY <2>3, <2>4
    <3> QED  BY <2>3, <3>2, <3>3 DEF Ahead
  <2>5. ASSUME NEW r \in DOMAIN requests, NEW j \in DOMAIN wire', Starts(j)'
        PROVE  requests[r].first.of < wire'[j].of
    <3>1. Starts(Uncut(i, j))
      BY <2>3, <2>5
    <3> QED  BY <2>3, <3>1 DEF Ahead
  <2> QED  BY <2>1, <2>4, <2>5 DEF Ahead
<1> QED  BY <1>1, <1>2, <1>3, <1>4, <1>5 DEF Next, Over

(* A patient client's messages are read and answered in turn.              *)
LEMMA InTurnStep ==
  TypeOK /\ Numbered /\ Ahead /\ patient /\ InTurn /\ [Next]_vars => InTurn'
<1> SUFFICES ASSUME TypeOK, Numbered, Ahead, patient, InTurn, [Next]_vars PROVE InTurn'
  OBVIOUS
<1>0. /\ Len(sent) \in Nat /\ DOMAIN sent = 1 .. Len(sent)
      /\ Len(wire) \in Nat /\ DOMAIN wire = 1 .. Len(wire)
      /\ Len(requests) \in Nat /\ DOMAIN requests = 1 .. Len(requests)
      /\ Len(answers) \in Nat /\ DOMAIN answers = 1 .. Len(answers)
      /\ wire \in Seq(Lines)
  BY LenProperties DEF TypeOK
<1>1. ASSUME NEW shape \in Shapes, Send(shape) PROVE InTurn'
  <2>1. Len(sent') = Len(sent) + 1
    BY <1>1, SendAdds
  <2>2. Len(answers) = Len(sent) /\ answers' = answers /\ requests' = requests /\ running' = running
    BY <1>1 DEF Send, Satisfied
  <2> QED  BY <1>0, <2>1, <2>2 DEF InTurn
<1>2. ASSUME NEW n \in 1 .. Len(wire), Deliver(n) PROVE InTurn'
  <2>1. sent' = sent /\ answers' = answers
    BY <1>2 DEF Deliver
  <2>2. CASE Closes
    BY <2>1, <2>2 DEF Closes, InTurn
  <2>3. ASSUME NEW q, Accepts(q, n) PROVE InTurn'
    <3>1. /\ requests' \in Seq(Requests) /\ Len(requests') = Len(requests) + 1
          /\ \A r \in 1 .. Len(requests) : requests'[r] = requests[r]
          /\ requests'[Len(requests) + 1] = q
      BY <2>3, AcceptAdds
    <3>2. PICK p \in 1 .. n : q.first = wire[p] /\ Starts(p)
      BY <2>3, AcceptAdds
    <3>3. DOMAIN requests' = 1 .. (Len(requests) + 1)
      BY <3>1, LenProperties
    <3>4. p \in DOMAIN wire
      BY <1>0
    <3>5. q.first.of \in 1 .. Len(sent)
      BY <1>0, <3>2, <3>4 DEF Numbered
    <3>6. \A r \in 1 .. Len(requests) : r < q.first.of
      BY <1>0, <3>2, <3>4 DEF Ahead, InTurn
    <3>7. q.first.of = Len(requests) + 1
      <4>1. CASE Len(requests) = 0
        BY <1>0, <3>5, <4>1 DEF InTurn
      <4>2. CASE Len(requests) # 0
        <5>1. Len(requests) \in 1 .. Len(requests)
          BY <1>0, <4>2
        <5>2. Len(requests) < q.first.of
          BY <3>6, <5>1
        <5> QED  BY <1>0, <3>5, <5>2 DEF InTurn
      <4> QED  BY <4>1, <4>2
    <3>8. \A r \in DOMAIN requests' : requests'[r].first.of = r
      <4> TAKE r \in DOMAIN requests'
      <4>1. CASE r \in 1 .. Len(requests)
        BY <1>0, <3>1, <4>1 DEF InTurn
      <4>2. CASE r = Len(requests) + 1
        BY <3>1, <3>7, <4>2
      <4> QED  BY <1>0, <3>3, <4>1, <4>2
    <3>9. \A i \in running' : i > Len(answers)
      <4>1. running' = running \cup {Len(requests) + 1}
        BY <2>3 DEF Accepts
      <4>2. Len(requests) + 1 > Len(answers)
        BY <1>0 DEF InTurn
      <4> QED  BY <4>1, <4>2 DEF InTurn
    <3>10. Len(requests') <= Len(sent)
      BY <1>0, <3>1, <3>5, <3>7
    <3>11. Len(answers) <= Len(requests')
      BY <1>0, <3>1 DEF InTurn
    <3> QED  BY <2>1, <3>8, <3>9, <3>10, <3>11 DEF InTurn
  <2> QED  BY <1>0, <1>2, <2>2, <2>3, DeliverDoes
<1>3. ASSUME NEW i \in running, NEW outcome \in Outcomes, Answer(i, outcome) PROVE InTurn'
  <2>1. \A j \in running : j = Len(answers) + 1 /\ j <= Len(requests)
    BY <1>0 DEF InTurn, TypeOK
  <2>2. running' = {}
    BY <1>3, <2>1 DEF Answer
  <2>3. i \in DOMAIN requests
    BY DEF TypeOK
  <2>4. PICK a \in [to : DOMAIN requests, whole : BOOLEAN] :
          a.to = i /\ answers' = Append(answers, a)
    <3> DEFINE a == [to |-> i, whole |-> outcome # "open" \/ parser = "http2"]
    <3>1. a \in [to : DOMAIN requests, whole : BOOLEAN]
      BY <2>3
    <3>2. answers' = Append(answers, a) /\ a.to = i
      BY <1>3 DEF Answer
    <3> HIDE DEF a
    <3> QED  BY <3>1, <3>2
  <2>5. answers \in Seq([to : DOMAIN requests, whole : BOOLEAN])
    BY DEF TypeOK
  <2>6. /\ answers' \in Seq([to : DOMAIN requests, whole : BOOLEAN])
        /\ Len(answers') = Len(answers) + 1
        /\ \A k \in 1 .. Len(answers) : answers'[k] = answers[k]
        /\ answers'[Len(answers) + 1] = a
    BY <2>4, <2>5, AppendProperties
  <2>7. DOMAIN answers' = 1 .. (Len(answers) + 1)
    BY <2>6, LenProperties
  <2>8. \A k \in DOMAIN answers' : answers'[k].to = k
    <3> TAKE k \in DOMAIN answers'
    <3>1. CASE k \in 1 .. Len(answers)
      BY <1>0, <2>6, <3>1 DEF InTurn
    <3>2. CASE k = Len(answers) + 1
      BY <2>1, <2>4, <2>6, <3>2
    <3> QED  BY <1>0, <2>7, <3>1, <3>2
  <2>9. sent' = sent /\ requests' = requests
    BY <1>3 DEF Answer
  <2>10. Len(answers) + 1 <= Len(requests)
    BY <2>1
  <2>11. Len(sent) <= Len(answers') + 1
    BY <1>0, <2>6 DEF InTurn
  <2> QED  BY <2>2, <2>6, <2>8, <2>9, <2>10, <2>11 DEF InTurn
<1>4. CASE UNCHANGED vars
  BY <1>4 DEF vars, InTurn
<1>5. ASSUME NEW i \in DOMAIN wire, NEW cut \in Cuts(wire[i].kind), Cut(i, cut) PROVE InTurn'
  BY <1>5 DEF Cut, InTurn
<1> QED  BY <1>1, <1>2, <1>3, <1>4, <1>5 DEF Next, Over

(* When a patient client sends, no request line is left on the wire.       *)
LEMMA WireSpent ==
  ASSUME TypeOK, Numbered, Ahead, InTurn, Len(answers) = Len(sent),
         NEW i \in DOMAIN wire
  PROVE  ~ Starts(i)
<1>1. Len(sent) \in Nat /\ DOMAIN sent = 1 .. Len(sent)
  BY LenProperties DEF TypeOK
<1>2. Len(requests) \in Nat /\ DOMAIN requests = 1 .. Len(requests)
  BY LenProperties DEF TypeOK
<1>3. wire[i].of \in DOMAIN sent
  BY DEF Numbered
<1>4. wire[i].of \in DOMAIN requests
  BY <1>1, <1>2, <1>3 DEF InTurn
<1>5. requests[wire[i].of].first.of = wire[i].of
  BY <1>4 DEF InTurn
<1>6. wire[i].of \in Nat
  BY <1>1, <1>3
<1> QED  BY <1>4, <1>5, <1>6 DEF Ahead

(* A patient client's message keeps together from its request line on.     *)
LEMMA IntactStep ==
  /\ TypeOK /\ Numbered /\ Ahead /\ InTurn /\ patient /\ Intact /\ [Next]_vars
  => Intact'
<1> SUFFICES ASSUME TypeOK, Numbered, Ahead, InTurn, patient, Intact, [Next]_vars
             PROVE  Intact'
  OBVIOUS
<1>0. /\ Len(sent) \in Nat /\ DOMAIN sent = 1 .. Len(sent)
      /\ Len(wire) \in Nat /\ DOMAIN wire = 1 .. Len(wire)
  BY LenProperties DEF TypeOK
<1>5. wire \in Seq(Lines)
  BY DEF TypeOK
<1>1. ASSUME NEW shape \in Shapes, Send(shape) PROVE Intact'
  <2>1. PICK m \in Seq(Lines) :
         /\ \A j \in 1 .. Len(m) : m[j].of = Len(sent) + 1 /\ (m[j].last <=> j = Len(m))
         /\ sent' \in Seq(Seq(Lines)) /\ Len(sent') = Len(sent) + 1
         /\ sent'[Len(sent) + 1] = m
         /\ wire' \in Seq(Lines) /\ Len(wire') = Len(wire) + Len(m)
         /\ \A i \in 1 .. Len(wire) : wire'[i] = wire[i]
         /\ \A i \in 1 .. Len(m) : wire'[Len(wire) + i] = m[i]
    BY <1>1, SendAdds
  <2>2. Len(answers) = Len(sent)
    BY <1>1 DEF Send, Satisfied
  <2>3. Len(m) \in Nat /\ DOMAIN m = 1 .. Len(m) /\ Len(wire') \in Nat
    BY <2>1, LenProperties
  <2>4. ASSUME NEW i \in DOMAIN wire', Starts(i)'
        PROVE  /\ wire'[i].of = Len(sent')
               /\ \E st \in DOMAIN sent'[Len(sent')] : Follows(wire', i, sent'[Len(sent')], st)
    <3>1. \/ i \in DOMAIN wire /\ i <= Len(wire) /\ wire'[i] = wire[i]
          \/ \E a \in 1 .. Len(m) : i = Len(wire) + a /\ wire'[i] = m[a]
      BY <2>1, SendWire
    <3>2. ~ (i \in DOMAIN wire /\ wire'[i] = wire[i])
      BY <2>2, <2>4, WireSpent DEF Starts
    <3>3. PICK a \in 1 .. Len(m) : i = Len(wire) + a /\ wire'[i] = m[a]
      BY <3>1, <3>2
    <3>4. sent'[Len(sent')] = m /\ wire'[i].of = Len(sent')
      BY <2>1, <3>3
    <3>5. Len(wire') = Len(wire) + Len(m) /\ i = Len(wire) + a
      BY <2>1, <3>3
    <3>6. PICK x, y : x = Len(wire) /\ y = Len(m) /\ x \in Nat /\ y \in Nat
      BY <1>0, <2>3
    <3>7. Len(wire') = x + y /\ i = x + a /\ a \in 1 .. y
      BY <3>5, <3>6
    <3>8. ASSUME NEW j \in i .. Len(wire')
          PROVE  a + j - i \in DOMAIN m /\ wire'[j] = m[a + j - i]
      <4>1. PICK b \in 1 .. Len(m) : b = a + j - i /\ Len(wire) + b = j
        <5>1. a + j - i \in 1 .. Len(m) /\ Len(wire) + (a + j - i) = j
          BY <3>6, <3>7
        <5> QED  BY <5>1
      <4>2. wire'[j] = m[b]
        BY <2>1, <4>1
      <4> QED  BY <2>3, <4>1, <4>2
    <3>9. Follows(wire', i, m, a)
      BY <3>8 DEF Follows
    <3> QED  BY <2>3, <3>4, <3>9
  <2> QED  BY <2>4 DEF Intact
<1>2. ASSUME NEW n \in 1 .. Len(wire), Deliver(n) PROVE Intact'
  <2>1. /\ wire' \in Seq(Lines)
        /\ \A i \in 1 .. Len(wire') : wire'[i] = wire[n + i] /\ n + i \in 1 .. Len(wire)
    BY <1>5, <1>2, WireShrinks
  <2>2. DOMAIN wire' = 1 .. Len(wire') /\ Len(wire') \in Nat
    BY <2>1, LenProperties
  <2>3. CASE Closes
    BY <2>3 DEF Closes, Intact
  <2>4. ASSUME NEW q, Accepts(q, n), NEW i \in DOMAIN wire', Starts(i)'
        PROVE  FALSE
    <3>1. PICK p \in 1 .. n : Starts(p)
      BY <2>4, AcceptAdds
    <3>2. p \in DOMAIN wire /\ n + i \in DOMAIN wire /\ p < n + i /\ wire'[i] = wire[n + i]
      BY <1>0, <2>1, <2>2
    <3>3. Starts(n + i)
      BY <2>4, <3>2 DEF Starts
    <3>4. wire[p].of = Len(sent) /\ wire[n + i].of = Len(sent)
      BY <1>2, <3>1, <3>2, <3>3 DEF Deliver, Intact
    <3>5. wire[p].of < wire[n + i].of
      BY <3>1, <3>2, <3>3 DEF Ahead
    <3> QED  BY <1>0, <3>4, <3>5
  <2>5. CASE \E q : Accepts(q, n)
    BY <2>4, <2>5 DEF Intact
  <2> QED  BY <1>2, <1>5, <2>3, <2>5, DeliverDoes
<1>3. ASSUME NEW i \in running, NEW outcome \in Outcomes, Answer(i, outcome) PROVE Intact'
  BY <1>3 DEF Answer, Intact, Starts, Follows, Unbroken
<1>4. CASE UNCHANGED vars
  BY <1>4 DEF vars, Intact, Starts, Follows, Unbroken
<1>6. ASSUME NEW i \in DOMAIN wire, NEW cut \in Cuts(wire[i].kind), Cut(i, cut) PROVE Intact'
  <2>1. /\ i \in 1 .. Len(wire) /\ up /\ sent' = sent /\ wire[i].part = "whole"
        /\ \A j \in DOMAIN wire : wire[j].part # "front"
    BY <1>0, <1>6 DEF Cut
  <2>2. /\ wire' \in Seq(Lines) /\ Len(wire') = Len(wire) + 1
        /\ \A j \in 1 .. (i - 1) : wire'[j] = wire[j]
        /\ wire'[i] = FirstPiece(wire[i], cut)
        /\ \A j \in (i + 2) .. (Len(wire) + 1) : wire'[j] = wire[j - 1]
    BY <1>5, <1>6, <2>1, CutMakes
  <2>3. DOMAIN wire' = 1 .. (Len(wire) + 1)
    BY <2>2, LenProperties
  <2>4. wire'[i].part = "front"
    BY <1>5, <2>1, <2>2, OnePiece, ElementOfSeq
  <2> SUFFICES ASSUME NEW j \in DOMAIN wire', Starts(j)'
               PROVE  /\ wire'[j].of = Len(sent)
                      /\ \/ j > 1 /\ wire'[j - 1].part = "front"
                         \/ \E st \in DOMAIN sent[Len(sent)] :
                              Follows(wire', j, sent[Len(sent)], st)
    BY <2>1 DEF Intact
  <2>5. PICK u \in DOMAIN wire : u = Uncut(i, j) /\ wire'[j].of = wire[u].of /\ Starts(u)
    BY <1>0, <1>5, <1>6, <2>1, <2>2, <2>3, CutKeeps
  <2>6. wire[u].of = Len(sent) /\ Len(sent) \in DOMAIN sent
    BY <2>1, <2>5 DEF Intact, Numbered
  <2>7. CASE j = i + 1
    <3>1. j > 1 /\ j - 1 = i
      BY <2>1, <2>7
    <3> QED  BY <2>4, <2>5, <2>6, <3>1
  <2>8. CASE j # i + 1
    <3>1. PICK s : s = sent[Len(sent)] /\ s \in Seq(Lines)
      <4>1. sent \in Seq(Seq(Lines)) /\ Len(sent) \in 1 .. Len(sent)
        BY <1>0, <2>6 DEF TypeOK
      <4> QED  BY <4>1, ElementOfSeq
    <3>2. u \in Nat /\ ~ (u > 1 /\ wire[u - 1].part = "front")
      <4>1. u \in Nat /\ (u > 1 => u - 1 \in DOMAIN wire)
        BY <1>0
      <4> QED  BY <2>1, <4>1
    <3>3. PICK st \in DOMAIN s : Follows(wire, u, s, st)
      BY <2>1, <2>5, <3>1, <3>2 DEF Intact
    <3>4. st \in Nat /\ DOMAIN s = 1 .. Len(s)
      BY <3>1, <3>3, LenProperties
    <3>5. ASSUME NEW x \in u .. Len(wire)
          PROVE  /\ st + x - u \in DOMAIN s
                 /\ wire[x] = s[st + x - u] \/ wire[x] \in Fronts(s[st + x - u])
      <4>1. Unbroken(wire, u, x)
        <5>1. \A y \in u .. (x - 1) : y \in DOMAIN wire
          BY <1>0
        <5> QED  BY <2>1, <5>1 DEF Unbroken
      <4> QED  BY <3>3, <4>1 DEF Follows
    <3>6. ASSUME NEW k \in j .. Len(wire'), Unbroken(wire', j, k)
          PROVE  /\ st + k - j \in DOMAIN s
                 /\ wire'[k] = s[st + k - j] \/ wire'[k] \in Fronts(s[st + k - j])
      <4>0. /\ i \in Nat /\ j \in Nat /\ k \in Nat /\ 1 <= j /\ j <= k /\ k <= Len(wire) + 1
            /\ Len(wire) \in Nat /\ i <= Len(wire) /\ 1 <= i
        BY <1>0, <2>1, <2>2, <2>3
      <4>1. ~ (i \in j .. (k - 1))
        BY <2>4, <3>6 DEF Unbroken
      <4>2. CASE j > i + 1
        <5>1. u = j - 1
          BY <2>5, <4>0, <4>2 DEF Uncut
        <5>2. PICK w \in Nat : w = Len(wire)
          BY <4>0
        <5>3. k \in Nat /\ j \in Nat /\ i \in Nat /\ j <= k /\ k <= w + 1 /\ i + 1 < j
          BY <4>0, <4>2, <5>2
        <5>4. PICK x \in Nat : x = k - 1
          BY <5>3
        <5>7. st + x - u = st + k - j
          BY <3>4, <5>1, <5>3, <5>4
        <5>8. x \in u .. w
          BY <5>1, <5>3, <5>4
        <5>9. k \in (i + 2) .. (w + 1)
          BY <5>3
        <5>5. x \in u .. w /\ st + x - u = st + k - j /\ k \in (i + 2) .. (w + 1)
          BY <5>7, <5>8, <5>9
        <5>6. wire'[k] = wire[x]
          BY <2>2, <5>2, <5>4, <5>5
        <5> QED  BY <3>5, <5>2, <5>5, <5>6
      <4>3. CASE j <= i
        <5>1. u = j /\ k <= i /\ k \in u .. Len(wire)
          BY <2>5, <4>0, <4>1, <4>3 DEF Uncut
        <5>2. CASE k < i
          <6>1. wire'[k] = wire[k]
            BY <2>2, <4>0, <5>2
          <6> QED  BY <3>5, <5>1, <6>1
        <5>3. CASE k = i
          <6>1. PICK l \in Lines : l = s[st + k - j] /\ st + k - j \in DOMAIN s
            BY <3>1, <3>4, <3>5, <5>1, ElementOfSeq
          <6>2. wire[i] = l \/ wire[i] \in Fronts(l)
            BY <3>5, <5>1, <5>3, <6>1
          <6>3. wire[i] \notin Fronts(l)
            BY <2>1, OnePiece DEF Fronts
          <6>4. wire'[k] \in Fronts(l)
            BY <1>6, <2>2, <5>3, <6>2, <6>3 DEF Fronts
          <6> QED  BY <6>1, <6>4
        <5> QED  BY <4>0, <5>1, <5>2, <5>3
      <4> QED  BY <2>8, <4>0, <4>2, <4>3
    <3>7. Follows(wire', j, s, st)
      BY <3>6 DEF Follows
    <3> QED  BY <2>5, <2>6, <3>1, <3>7
  <2> QED  BY <2>7, <2>8
<1> QED  BY <1>1, <1>2, <1>3, <1>4, <1>6 DEF Next, Over

LEMMA InitHttp1Inv == Init => Http1Inv
<1> SUFFICES ASSUME Init PROVE Http1Inv
  OBVIOUS
<1>1. TypeOK
  BY InitType
<1>2. DOMAIN <<>> = {} /\ Len(<<>>) = 0
  BY EmptySeq
<1>3. sent = <<>> /\ wire = <<>> /\ requests = <<>> /\ answers = <<>> /\ running = {}
  BY DEF Init
<1>4. Numbered
  BY <1>2, <1>3, Http1Assumption DEF Numbered
<1>5. Kept /\ Ahead
  BY <1>2, <1>3 DEF Kept, Ahead
<1>6. InTurn /\ Intact
  BY <1>2, <1>3 DEF InTurn, Intact
<1> QED  BY <1>1, <1>4, <1>5, <1>6 DEF Http1Inv

(* Every action keeps the invariant.                                       *)
LEMMA NextHttp1Inv == Http1Inv /\ [Next]_vars => Http1Inv'
<1> SUFFICES ASSUME Http1Inv, [Next]_vars PROVE Http1Inv'
  OBVIOUS
<1>1. TypeOK' /\ Numbered' /\ Kept'
  BY NextType, NumberedStep, KeptStep DEF Http1Inv
<1>2. ASSUME AllPlain' PROVE Ahead'
  BY <1>2, PlainBefore, AheadStep DEF Http1Inv
<1>3. ASSUME AllPlain', patient' PROVE InTurn' /\ Intact'
  <2>1. patient
    BY <1>3 DEF Next, Send, Cut, Deliver, Answer, Over, vars
  <2>2. AllPlain
    BY <1>3, PlainBefore DEF Http1Inv
  <2> QED  BY <2>1, <2>2, InTurnStep, IntactStep DEF Http1Inv
<1> QED  BY <1>1, <1>2, <1>3 DEF Http1Inv

(* The invariant holds.                                                    *)
THEOREM Http1Invariant == Spec => []Http1Inv
<1> QED  BY InitHttp1Inv, NextHttp1Inv, PTL DEF Spec

(* However the network cuts lines and joins messages, no message makes two *)
(* requests and the n-th response to a patient client is to its n-th       *)
(* message, as long as one line of a message at most has a request line in *)
(* it (http_simple.py:19-45, connection.py:91-101).                        *)
THEOREM MessagesOnceInOrder == Spec => []OnceAndInOrder
<1>1. Http1Inv => OnceAndInOrder
  <2> SUFFICES ASSUME Http1Inv, AllPlain
               PROVE  /\ \A i, j \in DOMAIN requests :
                           i # j => requests[i].first.of # requests[j].first.of
                      /\ patient =>
                           \A n \in DOMAIN answers : requests[answers[n].to].first.of = n
    BY DEF OnceAndInOrder
  <2>1. Ahead /\ (patient => InTurn) /\ TypeOK /\ Numbered
    BY DEF Http1Inv
  <2>2. DOMAIN requests = 1 .. Len(requests) /\ Len(requests) \in Nat
    BY <2>1, LenProperties DEF TypeOK
  <2>3. \A i \in DOMAIN requests : requests[i].first.of \in Nat
    <3>1. DOMAIN sent = 1 .. Len(sent) /\ Len(sent) \in Nat
      BY <2>1, LenProperties DEF TypeOK
    <3> QED  BY <2>1, <3>1 DEF Numbered
  <2>4. \A i, j \in DOMAIN requests :
          i # j => requests[i].first.of # requests[j].first.of
    <3> TAKE i, j \in DOMAIN requests
    <3> HAVE i # j
    <3>1. i < j \/ j < i
      BY <2>2
    <3> QED  BY <2>1, <2>3, <3>1 DEF Ahead
  <2>5. ASSUME patient, NEW n \in DOMAIN answers
        PROVE  requests[answers[n].to].first.of = n
    <3>1. answers[n].to \in DOMAIN requests
      <4>1. answers \in Seq([to : DOMAIN requests, whole : BOOLEAN])
        BY <2>1 DEF TypeOK
      <4>2. answers[n] \in [to : DOMAIN requests, whole : BOOLEAN]
        BY <4>1, LenProperties, ElementOfSeq
      <4> QED  BY <4>2
    <3> QED  BY <2>1, <2>5, <3>1 DEF InTurn
  <2> QED  BY <2>4, <2>5
<1> QED  BY <1>1, Http1Invariant, PTL

-----------------------------------------------------------------------------
(* A request is a reading of one message.                                  *)

(* A request with these parts is the reading of the lines s.               *)
LEMMA ReadingIs ==
  ASSUME NEW q, NEW s, NEW by,
         NEW start, start = FirstOf(s, RequestLines), start > 0, q.first = s[start],
         NEW rest, rest = SubSeq(s, start + 1, Len(s)),
         NEW blank, blank = FirstOf(rest, {"blank"}),
         NEW from, from = (IF by = "tools" THEN blank ELSE LastOf(rest, {"blank"})),
         q.head = IF blank = 0 THEN rest ELSE SubSeq(rest, 1, blank - 1),
         q.body = IF blank = 0 THEN <<>> ELSE SubSeq(rest, from + 1, Len(rest))
  PROVE  IsReadingOf(q, s, by)
BY DEF IsReadingOf

(* No line a to z of s is of these kinds.                                  *)
NoneOf(s, kinds, a, z) == \A i \in a .. z : s[i].kind \notin kinds

(* FirstOf finds the place in front of which there is no line of that      *)
(* kind.                                                                   *)
LEMMA FirstIs ==
  ASSUME NEW s \in Seq(Lines), NEW kinds, NEW x \in 1 .. Len(s), s[x].kind \in kinds,
         NoneOf(s, kinds, 1, x - 1)
  PROVE  FirstOf(s, kinds) = x
<1> DEFINE I == {i \in 1 .. Len(s) : s[i].kind \in kinds}
<1>1. I \in SUBSET Nat /\ x \in I /\ x \in Nat
  OBVIOUS
<1>2. \A i \in I : i \in 1 .. Len(s) /\ ~ (i \in 1 .. (x - 1))
  BY DEF NoneOf
<1>3. FirstOf(s, kinds) = Min(I)
  BY <1>1 DEF FirstOf, SelectInSeq
<1> HIDE DEF I
<1>4. PICK m : m = Min(I) /\ m \in I /\ m <= x
  BY <1>1, MinIsLeast
<1>5. m \in Nat /\ m >= 1 /\ ~ (m \in 1 .. (x - 1))
  BY <1>1, <1>2, <1>4
<1>6. m = x
  BY <1>1, <1>4, <1>5
<1> QED  BY <1>3, <1>4, <1>6

(* LastOf finds the place behind which there is no line of that kind.      *)
LEMMA LastIs ==
  ASSUME NEW s \in Seq(Lines), NEW kinds, NEW x \in 1 .. Len(s), s[x].kind \in kinds,
         NoneOf(s, kinds, x + 1, Len(s))
  PROVE  LastOf(s, kinds) = x
<1> DEFINE I == {i \in 1 .. Len(s) : s[i].kind \in kinds}
<1>0. PICK n \in Nat : n = Len(s)
  BY LenProperties
<1>1. I \in SUBSET (0 .. n) /\ x \in I /\ x \in Nat
  BY <1>0
<1>2. \A i \in I : i \in 1 .. n /\ ~ (i \in (x + 1) .. n)
  BY <1>0 DEF NoneOf
<1>3. LastOf(s, kinds) = Max(I)
  BY <1>1 DEF LastOf, SelectLastInSeq
<1> HIDE DEF I
<1>4. PICK m : m = Max(I) /\ m \in I /\ x <= m
  BY <1>0, <1>1, MaxIsGreatest
<1>5. m \in 1 .. n /\ ~ (m \in (x + 1) .. n)
  BY <1>2, <1>4
<1>6. m = x
  BY <1>0, <1>1, <1>4, <1>5
<1> QED  BY <1>3, <1>4, <1>6

(* r is what follows line p of c, d lines.                                 *)
Rest(r, c, p, d) ==
  /\ r \in Seq(Lines) /\ Len(r) = d /\ Len(c) = p + d
  /\ \A i \in 1 .. d : r[i] = c[p + i]

(* Lines a to z of c are lines m to n of d lines that follow line p.       *)
Within(m, n, d, p, a, z) ==
  m \in 1 .. (d + 1) /\ n \in (m - 1) .. d /\ a = p + m /\ z = p + n

(* A slice of the chunk is a subsequence of what is behind the request     *)
(* line.                                                                   *)
LEMMA SliceOf ==
  ASSUME NEW c, NEW p \in Nat, NEW d \in Nat, NEW r, Rest(r, c, p, d),
         NEW m, NEW n, NEW a, NEW z, Within(m, n, d, p, a, z),
         NEW x, Slice(x, c, a, z)
  PROVE  x = SubSeq(r, m, n)
<1>1. m \in 1 .. (d + 1) /\ n \in (m - 1) .. d /\ a = p + m /\ z = p + n
  BY DEF Within
<1>2. m \in Nat /\ n \in Nat
  BY <1>1
<1>3. PICK l \in Nat : l = z + 1 - a
  BY <1>1
<1>4. /\ m >= 1 /\ n <= d /\ n - m + 1 = l /\ l = IF m <= n THEN n - m + 1 ELSE 0
      /\ \A i \in m .. n : i \in 1 .. d
      /\ \A i \in 1 .. l : m + i - 1 \in 1 .. d /\ p + (m + i - 1) = a + i - 1
  BY <1>1, <1>2, <1>3
<1>5. \A i \in m .. n : r[i] \in Lines
  BY <1>4, ElementOfSeq DEF Rest
<1>6. /\ SubSeq(r, m, n) \in Seq(Lines)
      /\ Len(SubSeq(r, m, n)) = IF m <= n THEN n - m + 1 ELSE 0
      /\ \A i \in 1 .. n - m + 1 : SubSeq(r, m, n)[i] = r[m + i - 1]
  <2>1. m \in Int /\ n \in Int
    BY <1>2
  <2> QED  BY <1>5, <2>1, SubSeqProperties
<1>7. x \in Seq(Lines) /\ Len(x) = l /\ \A i \in 1 .. l : x[i] = c[a + i - 1]
  BY <1>3 DEF Slice
<1>8. PICK y : y = SubSeq(r, m, n)
  OBVIOUS
<1>9. y \in Seq(Lines) /\ Len(y) = l /\ \A i \in 1 .. l : y[i] = r[m + i - 1]
  BY <1>4, <1>6, <1>8
<1>10. ASSUME NEW i \in 1 .. l PROVE x[i] = y[i]
  <2>1. r[m + i - 1] = c[p + (m + i - 1)]
    BY <1>4 DEF Rest
  <2> QED  BY <1>4, <1>7, <1>9, <2>1
<1>11. x = y
  BY <1>7, <1>9, <1>10, SeqEqual
<1> QED  BY <1>8, <1>11

(* From its line p on the chunk c is the message t from line st on.        *)
GoesOn(c, p, t, st, d) ==
  /\ Len(c) = p + d /\ st + d <= Len(t)
  /\ \A i \in 0 .. d : c[p + i] = t[st + i]

(* What is read from there, up to the end of the chunk, is a reading of t. *)
LEMMA ReadsMessage ==
  ASSUME NEW c \in Seq(Lines), NEW t \in Seq(Lines), Plain(t),
         NEW p \in Nat \ {0}, NEW st \in Nat \ {0}, NEW d \in Nat, GoesOn(c, p, t, st, d),
         NEW q \in Requests, NEW by, ReadsFrom(q, c, p, p + d, by)
  PROVE  IsReadingOf(q, SubSeq(t, 1, st + d), by)
<1>1. PICK k \in Nat : k = p + d
  OBVIOUS
<1>2. PICK e \in Nat : e = st + d
  OBVIOUS
<1>3. PICK s : s = SubSeq(t, 1, e)
  OBVIOUS
<1>4. s \in Seq(Lines) /\ Len(s) = e /\ \A i \in 1 .. e : s[i] = t[i] /\ i \in 1 .. Len(t)
  <2>1. Len(t) \in Nat /\ e <= Len(t)
    BY <1>2, LenProperties DEF GoesOn
  <2>2. \A i \in 1 .. e : i \in 1 .. Len(t)
    BY <2>1
  <2>3. \A i \in 1 .. e : t[i] \in Lines
    BY <2>2, ElementOfSeq
  <2>4. /\ SubSeq(t, 1, e) \in Seq(Lines)
        /\ Len(SubSeq(t, 1, e)) = IF 1 <= e THEN e - 1 + 1 ELSE 0
        /\ \A i \in 1 .. e - 1 + 1 : SubSeq(t, 1, e)[i] = t[1 + i - 1]
    <3>1. 1 \in Int /\ e \in Int
      OBVIOUS
    <3> QED  BY <2>3, <3>1, SubSeqProperties
  <2>5. e - 1 + 1 = e /\ 1 <= e /\ \A i \in 1 .. e : 1 + i - 1 = i
    BY <1>2
  <2> QED  BY <1>3, <2>2, <2>4, <2>5
<1>5. PICK r : r = SubSeq(s, st + 1, e)
  OBVIOUS
<1>6. Rest(r, c, p, d)
  <2>1. \A i \in (st + 1) .. e : i \in 1 .. e
    BY <1>2
  <2>2. \A i \in (st + 1) .. e : s[i] \in Lines
    BY <1>4, <2>1, ElementOfSeq
  <2>3. /\ SubSeq(s, st + 1, e) \in Seq(Lines)
        /\ Len(SubSeq(s, st + 1, e)) = IF st + 1 <= e THEN e - (st + 1) + 1 ELSE 0
        /\ \A i \in 1 .. e - (st + 1) + 1 : SubSeq(s, st + 1, e)[i] = s[st + 1 + i - 1]
    <3>1. st + 1 \in Int /\ e \in Int
      OBVIOUS
    <3> QED  BY <2>2, <3>1, SubSeqProperties
  <2>4. /\ e - (st + 1) + 1 = d /\ d = IF st + 1 <= e THEN e - (st + 1) + 1 ELSE 0
        /\ \A i \in 1 .. d : st + 1 + i - 1 = st + i /\ st + i \in 1 .. e /\ i \in 0 .. d
    BY <1>2
  <2>5. r \in Seq(Lines) /\ Len(r) = d /\ \A i \in 1 .. d : r[i] = s[st + i]
    BY <1>5, <2>3, <2>4
  <2>6. \A i \in 1 .. d : r[i] = c[p + i]
    <3> TAKE i \in 1 .. d
    <3>1. r[i] = t[st + i]
      BY <1>4, <2>4, <2>5
    <3>2. c[p + i] = t[st + i]
      BY <2>4 DEF GoesOn
    <3> QED  BY <3>1, <3>2
  <2>7. Len(c) = p + d
    BY DEF GoesOn
  <2> QED  BY <2>5, <2>6, <2>7 DEF Rest
<1>7. c[p] = t[st] /\ s[st] = t[st] /\ st \in 1 .. e
  <2>1. 0 \in 0 .. d /\ p + 0 = p /\ st + 0 = st /\ st \in 1 .. e
    BY <1>2
  <2>2. c[p + 0] = t[st + 0]
    BY <2>1 DEF GoesOn
  <2> QED  BY <1>4, <2>1, <2>2
<1>8. c[p].kind \in RequestLines /\ q.first = s[st]
  BY <1>7 DEF ReadsFrom
<1>9. FirstOf(s, RequestLines) = st
  <2>1. ASSUME NEW i \in 1 .. (st - 1) PROVE s[i].kind \notin RequestLines
    <3>1. i # st /\ i \in 1 .. e
      BY <1>2
    <3>2. i \in DOMAIN t /\ st \in DOMAIN t
      BY <1>4, <1>7, <3>1, LenProperties
    <3>3. t[i].kind \notin RequestLines
      BY <1>7, <1>8, <3>1, <3>2 DEF Plain
    <3> QED  BY <1>4, <3>1, <3>3
  <2>2. NoneOf(s, RequestLines, 1, st - 1)
    BY <2>1 DEF NoneOf
  <2> QED  BY <1>4, <1>7, <1>8, <2>2, FirstIs
<1>10. ASSUME NEW i \in 1 .. d PROVE r[i] = c[p + i] /\ p + i \in (p + 1) .. k
  <2>1. p + i \in (p + 1) .. k
    BY <1>1
  <2> QED  BY <1>6, <2>1 DEF Rest
<1>11. r \in Seq(Lines) /\ Len(r) = d
  BY <1>6 DEF Rest
<1>12. ReadsFrom(q, c, p, k, by)
  BY <1>1
<1>13. p \in Nat /\ d \in Nat
  OBVIOUS
<1>14. ASSUME NEW x, NEW m, NEW n, NEW a, NEW z, Within(m, n, d, p, a, z), Slice(x, c, a, z)
      PROVE x = SubSeq(r, m, n)
  BY <1>6, <1>13, <1>14, SliceOf
<1>15. CASE HeadOnly(q, c, p, k)
  <2>1. FirstOf(r, {"blank"}) = 0
    <3>1. \A i \in 1 .. d : r[i].kind # "blank"
      BY <1>10, <1>15 DEF HeadOnly
    <3> QED  BY <1>11, <3>1 DEF FirstOf, SelectInSeq
  <2>2. q.head = r
    <3>1. Slice(q.head, c, p + 1, k)
      BY <1>15 DEF HeadOnly
    <3>2. p \in Nat /\ Within(1, d, d, p, p + 1, k)
      BY <1>1 DEF Within
    <3>3. q.head = SubSeq(r, 1, d)
      BY <3>1, <3>2, <1>14
    <3>4. SubSeq(r, 1, d) = r
      BY <1>11, SubSeqFull
    <3> QED  BY <3>3, <3>4
  <2>3. q.body = <<>>
    BY <1>15 DEF HeadOnly
  <2>4. IsReadingOf(q, s, by)
    <3>1. st > 0 /\ r = SubSeq(s, st + 1, Len(s))
      BY <1>4, <1>5
    <3> QED  BY <1>8, <1>9, <2>1, <2>2, <2>3, <3>1, ReadingIs
  <2> QED  BY <1>2, <1>3, <2>4
<1>16. ASSUME NEW b \in (p + 1) .. k, NEW f \in b .. k, WithBody(q, c, p, k, b, f),
             IF by = "tools" THEN f = b ELSE LastBlank(c, f, k)
      PROVE  IsReadingOf(q, SubSeq(t, 1, st + d), by)
  <2>1. PICK x \in 1 .. d : x = b - p
    BY <1>1
  <2>2. PICK y \in 1 .. d : y = f - p
    BY <1>1
  <2>3. FirstOf(r, {"blank"}) = x
    <3>1. p + x = b /\ \A i \in 1 .. (x - 1) : p + i \in (p + 1) .. (b - 1) /\ i \in 1 .. d
      BY <2>1
    <3>2. r[x].kind = "blank"
      BY <1>10, <1>16, <3>1 DEF WithBody
    <3>3. \A i \in 1 .. (x - 1) : r[i].kind # "blank"
      BY <1>10, <1>16, <3>1 DEF WithBody
    <3>4. NoneOf(r, {"blank"}, 1, x - 1)
      BY <3>3 DEF NoneOf
    <3> QED  BY <1>11, <3>2, <3>4, FirstIs
  <2>4. (IF by = "tools" THEN x ELSE LastOf(r, {"blank"})) = y
    <3>1. CASE by = "tools"
      BY <1>16, <2>1, <2>2, <3>1
    <3>2. CASE by # "tools"
      <4>1. LastBlank(c, f, k)
        BY <1>16, <3>2
      <4>2. p + y = f /\ \A i \in (y + 1) .. d : p + i \in (f + 1) .. k /\ i \in 1 .. d
        BY <1>1, <2>2
      <4>3. r[y].kind = "blank"
        BY <1>10, <4>1, <4>2 DEF LastBlank
      <4>4. \A i \in (y + 1) .. d : r[i].kind # "blank"
        BY <1>10, <4>1, <4>2 DEF LastBlank
      <4>5. NoneOf(r, {"blank"}, y + 1, Len(r))
        BY <1>11, <4>4 DEF NoneOf
      <4>6. LastOf(r, {"blank"}) = y
        BY <1>11, <4>3, <4>5, LastIs
      <4> QED  BY <3>2, <4>6
    <3> QED  BY <3>1, <3>2
  <2>5. q.head = SubSeq(r, 1, x - 1)
    <3>1. Slice(q.head, c, p + 1, b - 1)
      BY <1>16 DEF WithBody
    <3>2. p \in Nat /\ Within(1, x - 1, d, p, p + 1, b - 1)
      BY <2>1 DEF Within
    <3> QED  BY <3>1, <3>2, <1>14
  <2>6. q.body = SubSeq(r, y + 1, Len(r))
    <3>1. Slice(q.body, c, f + 1, k)
      BY <1>16 DEF WithBody
    <3>2. p \in Nat /\ Within(y + 1, d, d, p, f + 1, k)
      BY <1>1, <2>2 DEF Within
    <3>3. q.body = SubSeq(r, y + 1, d)
      BY <3>1, <3>2, <1>14
    <3> QED  BY <1>11, <3>3
  <2>7. x # 0
    OBVIOUS
  <2>8. IsReadingOf(q, s, by)
    <3>1. st > 0 /\ r = SubSeq(s, st + 1, Len(s))
      BY <1>4, <1>5
    <3> QED  BY <1>8, <1>9, <2>3, <2>4, <2>5, <2>6, <2>7, <3>1, ReadingIs
  <2> QED  BY <1>2, <1>3, <2>8
<1> QED  BY <1>12, <1>15, <1>16 DEF ReadsFrom

(* Some beginning of t has e lines, the last of them l, and is plain if t  *)
(* is.                                                                     *)
BeginsIn(t, e, l) ==
  \E b \in Beginnings(t) :
    /\ b \in Seq(Lines) /\ Len(b) = e
    /\ \A i \in 1 .. (e - 1) : b[i] = t[i]
    /\ b[e] = l
    /\ Plain(t) => Plain(b)

(* A beginning of a message ends with a line of it or with the front of    *)
(* one, and is plain if the message is.                                    *)
LEMMA BeginningIs ==
  ASSUME NEW t \in Seq(Lines), NEW e \in 1 .. Len(t), NEW l,
         l = t[e] \/ l \in Fronts(t[e])
  PROVE  BeginsIn(t, e, l)
<1>0. DOMAIN t = 1 .. Len(t) /\ Len(t) \in Nat /\ \A i \in 1 .. Len(t) : t[i] \in Lines
  BY LenProperties, ElementOfSeq
<1>1. l \in Lines /\ (l.kind \in RequestLines => t[e].kind \in RequestLines)
  BY <1>0, OnePiece DEF Fronts
<1>2. ASSUME NEW b \in Beginnings(t), b \in Seq(Lines), Len(b) = e,
             \A i \in 1 .. (e - 1) : b[i] = t[i], b[e] = l, Plain(t)
      PROVE  Plain(b)
  <2>1. DOMAIN b = 1 .. e
    BY <1>2, LenProperties
  <2>2. \A i \in 1 .. e : i \in DOMAIN t /\ (b[i].kind \in RequestLines => t[i].kind \in RequestLines)
    BY <1>0, <1>1, <1>2
  <2> QED  BY <1>2, <2>1, <2>2 DEF Plain
<1>3. ASSUME NEW n \in 0 .. e
      PROVE  /\ SubSeq(t, 1, n) \in Seq(Lines) /\ Len(SubSeq(t, 1, n)) = n
             /\ \A i \in 1 .. n : SubSeq(t, 1, n)[i] = t[i]
  <2>1. 1 \in Int /\ n \in Int /\ \A i \in 1 .. n : t[i] \in Lines
    BY <1>0
  <2>2. /\ SubSeq(t, 1, n) \in Seq(Lines)
        /\ Len(SubSeq(t, 1, n)) = IF 1 <= n THEN n - 1 + 1 ELSE 0
        /\ \A i \in 1 .. n - 1 + 1 : SubSeq(t, 1, n)[i] = t[1 + i - 1]
    BY <2>1, SubSeqProperties
  <2>3. n = (IF 1 <= n THEN n - 1 + 1 ELSE 0) /\ n - 1 + 1 = n /\ \A i \in 1 .. n : 1 + i - 1 = i
    OBVIOUS
  <2> QED  BY <2>2, <2>3
<1>4. CASE l = t[e]
  <2>1. PICK b : b = SubSeq(t, 1, e)
    OBVIOUS
  <2>2. e \in 0 .. e /\ e \in 1 .. e /\ \A i \in 1 .. (e - 1) : i \in 1 .. e
    BY <1>0
  <2>3. /\ b \in Seq(Lines) /\ Len(b) = e /\ b[e] = l
        /\ \A i \in 1 .. (e - 1) : b[i] = t[i]
    BY <1>3, <1>4, <2>1, <2>2
  <2>4. b \in Beginnings(t)
    BY <1>0, <2>1 DEF Beginnings
  <2> QED  BY <1>2, <2>3, <2>4 DEF BeginsIn
<1>5. CASE l \in Fronts(t[e])
  <2>1. PICK a : a = SubSeq(t, 1, e - 1)
    OBVIOUS
  <2>2. PICK b : b = Append(a, l)
    OBVIOUS
  <2>3. e - 1 \in 0 .. e /\ (e - 1) + 1 = e
    BY <1>0
  <2>4. a \in Seq(Lines) /\ Len(a) = e - 1 /\ \A i \in 1 .. (e - 1) : a[i] = t[i]
    BY <1>3, <2>1, <2>3
  <2>5. /\ Append(a, l) \in Seq(Lines) /\ Len(Append(a, l)) = Len(a) + 1
        /\ \A i \in 1 .. Len(a) : Append(a, l)[i] = a[i]
        /\ Append(a, l)[Len(a) + 1] = l
    BY <1>1, <2>4, AppendProperties
  <2>6. /\ b \in Seq(Lines) /\ Len(b) = e /\ b[e] = l
        /\ \A i \in 1 .. (e - 1) : b[i] = t[i]
    BY <2>2, <2>3, <2>4, <2>5
  <2>7. b \in {Append(SubSeq(t, 1, e - 1), f) : f \in Fronts(t[e])} /\ e \in DOMAIN t
    BY <1>0, <1>5, <2>1, <2>2
  <2>8. b \in Beginnings(t)
    BY <2>7, Zenon DEF Beginnings
  <2> QED  BY <1>2, <2>6, <2>8 DEF BeginsIn
<1> QED  BY <1>4, <1>5

(* When a patient client's chunk has a request line, the lines behind it   *)
(* are those of its message, the last perhaps without its end.             *)
LEMMA ChunkGoesOn ==
  ASSUME TypeOK, Numbered, Intact, up, NEW n \in 1 .. Len(wire), NEW p \in 1 .. n, Starts(p),
         \A i \in 1 .. (n - 1) : wire[i].part # "front"
  PROVE  LET c == SubSeq(wire, 1, n)
             t == sent[Len(sent)]
         IN  /\ wire[p].of = Len(sent) /\ Len(sent) \in DOMAIN sent
             /\ \A j \in p .. n : c[j].last /\ p < j => j = n
             /\ \E b \in Beginnings(t), st \in Nat \ {0} :
                  /\ b \in Seq(Lines) /\ (Plain(t) => Plain(b))
                  /\ GoesOn(c, p, b, st, n - p) /\ st + (n - p) = Len(b)
<1>1. wire \in Seq(Lines) /\ sent \in Seq(Seq(Lines))
  BY DEF TypeOK
<1>2. PICK w \in Nat : w = Len(wire) /\ DOMAIN wire = 1 .. w /\ n \in 1 .. w
  BY <1>1, LenProperties
<1>3. PICK c : c = SubSeq(wire, 1, n)
  OBVIOUS
<1>4. Len(c) = n /\ \A i \in 1 .. n : c[i] = wire[i]
  <2>1. \A i \in 1 .. n : wire[i] \in Lines
    BY <1>1, <1>2, ElementOfSeq
  <2>2. /\ Len(SubSeq(wire, 1, n)) = IF 1 <= n THEN n - 1 + 1 ELSE 0
        /\ \A i \in 1 .. n - 1 + 1 : SubSeq(wire, 1, n)[i] = wire[1 + i - 1]
    <3>1. 1 \in Int /\ n \in Int
      BY <1>2
    <3> QED  BY <2>1, <3>1, SubSeqProperties
  <2>3. n - 1 + 1 = n /\ 1 <= n /\ \A i \in 1 .. n : 1 + i - 1 = i
    BY <1>2
  <2> QED  BY <1>3, <2>2, <2>3
<1>5. p \in DOMAIN wire /\ p \in Nat
  BY <1>2
<1>6. wire[p].of = Len(sent) /\ Len(sent) \in DOMAIN sent
  BY <1>5 DEF Intact, Numbered
<1>7. PICK t : t = sent[Len(sent)] /\ t \in Seq(Lines)
  BY <1>1, <1>6, ElementOfSeq, LenProperties
<1>8. PICK l \in Nat : l = Len(t) /\ DOMAIN t = 1 .. l
  BY <1>7, LenProperties
<1>9. PICK st \in 1 .. l : Follows(wire, p, t, st)
  <2>1. ~ (p > 1 /\ wire[p - 1].part = "front")
    <3>1. p > 1 => p - 1 \in 1 .. (n - 1)
      BY <1>2
    <3> QED  BY <3>1
  <2> QED  BY <1>5, <1>7, <1>8, <2>1 DEF Intact
<1>10. ASSUME NEW j \in p .. n
       PROVE  /\ st + j - p \in 1 .. l
              /\ wire[j] = t[st + j - p] \/ wire[j] \in Fronts(t[st + j - p])
  <2>1. j \in p .. Len(wire)
    BY <1>2
  <2>2. Unbroken(wire, p, j)
    <3>1. \A x \in p .. (j - 1) : x \in 1 .. (n - 1)
      BY <1>2
    <3> QED  BY <3>1 DEF Unbroken
  <2> QED  BY <1>8, <1>9, <2>1, <2>2 DEF Follows
<1>11. ASSUME NEW j \in p .. n, j < n PROVE wire[j] = t[st + j - p]
  <2>1. PICK x \in 1 .. l : x = st + j - p
    BY <1>10
  <2>2. t[x] \in Lines
    BY <1>7, <1>8, ElementOfSeq
  <2>3. j \in 1 .. (n - 1)
    BY <1>2, <1>11
  <2>4. wire[j] \notin Fronts(t[x])
    BY <2>2, <2>3, OnePiece DEF Fronts
  <2> QED  BY <1>10, <2>1, <2>4
<1>12. ASSUME NEW j \in p .. n, c[j].last, p < j PROVE j = n
  <2> SUFFICES ASSUME j < n PROVE FALSE
    BY <1>2
  <2>1. PICK x \in 1 .. l : x = st + j - p
    BY <1>10
  <2>2. c[j] = wire[j] /\ wire[j] = t[x]
    <3>1. j \in 1 .. n
      BY <1>2
    <3> QED  BY <1>4, <1>11, <2>1, <3>1
  <2>3. x = l
    BY <1>6, <1>7, <1>8, <1>12, <2>2 DEF Numbered
  <2>4. j + 1 \in p .. n
    BY <1>2
  <2>5. st + (j + 1) - p \in 1 .. l
    BY <1>10, <2>4
  <2> QED  BY <1>2, <2>1, <2>3, <2>5
<1>13. PICK e \in 1 .. l : e = st + n - p /\ (wire[n] = t[e] \/ wire[n] \in Fronts(t[e]))
  <2>1. n \in p .. n
    BY <1>2
  <2> QED  BY <1>10, <2>1
<1>14. PICK b \in Beginnings(t) :
         /\ b \in Seq(Lines) /\ Len(b) = e
         /\ \A i \in 1 .. (e - 1) : b[i] = t[i]
         /\ b[e] = wire[n]
         /\ Plain(t) => Plain(b)
  <2>1. PICK x : x = wire[n] /\ (x = t[e] \/ x \in Fronts(t[e]))
    BY <1>13
  <2>2. e \in 1 .. Len(t)
    BY <1>8
  <2>3. BeginsIn(t, e, x)
    BY <1>7, <2>1, <2>2, BeginningIs
  <2> QED  BY <2>1, <2>3 DEF BeginsIn
<1>15. GoesOn(c, p, b, st, n - p) /\ st + (n - p) = Len(b)
  <2>1. n = p + (n - p) /\ st + (n - p) = e
    BY <1>2, <1>13
  <2>2. ASSUME NEW i \in 0 .. (n - p) PROVE c[p + i] = b[st + i]
    <3>1. PICK j \in p .. n : j = p + i /\ j \in 1 .. n /\ st + i = st + j - p
      BY <1>2
    <3>2. CASE j = n
      <4>1. st + i = e
        BY <1>13, <3>1, <3>2
      <4> QED  BY <1>4, <1>14, <3>1, <3>2, <4>1
    <3>3. CASE j < n
      <4>1. st + i \in 1 .. (e - 1)
        BY <1>13, <3>1, <3>3
      <4>2. wire[j] = t[st + i]
        BY <1>11, <3>1, <3>3
      <4> QED  BY <1>4, <1>14, <3>1, <4>1, <4>2
    <3> QED  BY <1>2, <3>2, <3>3
  <2> QED  BY <1>4, <1>14, <2>1, <2>2 DEF GoesOn
<1>16. \E b1 \in Beginnings(t), st1 \in Nat \ {0} :
         /\ b1 \in Seq(Lines) /\ (Plain(t) => Plain(b1))
         /\ GoesOn(c, p, b1, st1, n - p) /\ st1 + (n - p) = Len(b1)
  <2>1. st \in Nat \ {0}
    OBVIOUS
  <2> QED  BY <1>14, <1>15, <2>1
<1> QED  BY <1>3, <1>6, <1>7, <1>12, <1>16

(* Every request made in a step is the reading of one message.             *)
LEMMA ReadsStep == Http1Inv /\ ReadsOneMessage /\ [Next]_vars => ReadsOneMessage'
<1> SUFFICES ASSUME Http1Inv, ReadsOneMessage, [Next]_vars, patient', AllPlain'
             PROVE  \A i \in DOMAIN requests' :
                      \E s \in Beginnings(sent'[requests'[i].first.of]) :
                        IsReadingOf(requests'[i], s, parser')
  BY DEF ReadsOneMessage
<1>1. TypeOK /\ Numbered /\ Kept
  BY DEF Http1Inv
<1>2. AllPlain
  BY <1>1, PlainBefore
<1>3. patient
  BY DEF Next, Send, Cut, Deliver, Answer, Over, vars
<1>4. Intact
  BY <1>2, <1>3 DEF Http1Inv
<1>5. \A i \in DOMAIN requests :
        \E s \in Beginnings(sent[requests[i].first.of]) : IsReadingOf(requests[i], s, parser)
  BY <1>2, <1>3 DEF ReadsOneMessage
<1>6. /\ Len(requests) \in Nat /\ DOMAIN requests = 1 .. Len(requests)
      /\ DOMAIN sent = 1 .. Len(sent)
  BY <1>1, LenProperties DEF TypeOK
<1>7. wire \in Seq(Lines) /\ sent \in Seq(Seq(Lines))
  BY <1>1 DEF TypeOK
<1>8. ASSUME NEW shape \in Shapes, Send(shape)
      PROVE  /\ requests' = requests /\ parser' = parser
             /\ \A i \in DOMAIN requests : sent'[requests[i].first.of] = sent[requests[i].first.of]
  <2>1. \A k \in 1 .. Len(sent) : sent'[k] = sent[k]
    BY <1>1, <1>8, SendAdds
  <2> QED  BY <1>1, <1>6, <1>8, <2>1 DEF Send, Numbered
<1>9. ASSUME NEW n \in 1 .. Len(wire), Deliver(n), NEW q, Accepts(q, n)
      PROVE  \A i \in DOMAIN requests' :
               \E s \in Beginnings(sent'[requests'[i].first.of]) :
                 IsReadingOf(requests'[i], s, parser')
  <2>1. /\ requests' \in Seq(Requests) /\ Len(requests') = Len(requests) + 1
        /\ \A r \in 1 .. Len(requests) : requests'[r] = requests[r]
        /\ requests'[Len(requests) + 1] = q
    BY <1>1, <1>9, AcceptAdds
  <2>2. sent' = sent
    BY <1>9 DEF Deliver
  <2>3. DOMAIN requests' = 1 .. (Len(requests) + 1)
    BY <2>1, LenProperties
  <2> TAKE i \in DOMAIN requests'
  <2>4. CASE i \in DOMAIN requests
    <3>1. requests # <<>>
      BY <2>4
    <3>2. parser' = parser
      BY <1>1, <1>9, <3>1 DEF Kept, Accepts
    <3>3. requests'[i] = requests[i]
      BY <1>6, <2>1, <2>4
    <3> QED  BY <1>5, <2>2, <2>4, <3>2, <3>3
  <2>5. CASE i = Len(requests) + 1
    <3>1. PICK c : c = SubSeq(wire, 1, n)
      OBVIOUS
    <3>2. PICK t : t = sent[Len(sent)]
      OBVIOUS
    <3>3. n \in Nat /\ c \in Seq(Lines) /\ Len(c) = n /\ \A j \in 1 .. n : c[j] = wire[j]
      <4>1. Len(wire) \in Nat /\ n \in Int /\ 1 \in Int /\ n \in 1 .. Len(wire)
        BY <1>7, LenProperties
      <4>2. \A j \in 1 .. n : wire[j] \in Lines
        BY <1>7, <4>1, ElementOfSeq
      <4>3. /\ SubSeq(wire, 1, n) \in Seq(Lines)
            /\ Len(SubSeq(wire, 1, n)) = IF 1 <= n THEN n - 1 + 1 ELSE 0
            /\ \A j \in 1 .. n - 1 + 1 : SubSeq(wire, 1, n)[j] = wire[1 + j - 1]
        BY <4>1, <4>2, SubSeqProperties
      <4>4. n - 1 + 1 = n /\ 1 <= n /\ \A j \in 1 .. n : 1 + j - 1 = j
        BY <4>1
      <4> QED  BY <3>1, <4>1, <4>3, <4>4
    <3>4. ASSUME NEW p \in 1 .. n, c[p].kind \in RequestLines
          PROVE  /\ c[p].of = Len(sent) /\ Len(sent) \in DOMAIN sent
                 /\ \A j \in p .. n : c[j].last /\ p < j => j = n
                 /\ \E b \in Beginnings(t), st \in Nat \ {0} :
                      /\ b \in Seq(Lines) /\ (Plain(t) => Plain(b))
                      /\ GoesOn(c, p, b, st, n - p) /\ st + (n - p) = Len(b)
      <4>1. Starts(p) /\ c[p] = wire[p]
        BY <3>3, <3>4 DEF Starts
      <4>2. up /\ \A i1 \in 1 .. (n - 1) : wire[i1].part # "front"
        BY <1>9 DEF Deliver
      <4> QED  BY <1>1, <1>4, <3>1, <3>2, <4>1, <4>2, ChunkGoesOn
    <3>5. EndsLast(c)
      <4>1. ASSUME NEW p \in 1 .. Len(c), NEW j \in 1 .. Len(c),
                   c[p].kind \in RequestLines, p < j, c[j].last
            PROVE  j = Len(c)
        <5>1. p \in 1 .. n /\ j \in p .. n
          BY <3>3, <4>1
        <5>2. j = n
          BY <3>4, <4>1, <5>1
        <5> QED  BY <3>3, <5>2
      <4>2. ASSUME NEW j \in 1 .. Len(c), c[j].part = "front" PROVE j = Len(c)
        <5>1. j \notin 1 .. (n - 1) /\ j \in 1 .. n
          BY <1>9, <3>3, <4>2 DEF Deliver
        <5> QED  BY <3>3, <5>1
      <4> QED  BY <4>1, <4>2 DEF EndsLast
    <3>6. PICK p \in 1 .. n : ReadsFrom(q, c, p, n, parser')
      BY <1>9, <3>1, <3>5 DEF Accepts
    <3>7. c[p].kind \in RequestLines /\ q.first = c[p]
      BY <3>6 DEF ReadsFrom
    <3>8. q.first.of = Len(sent) /\ Len(sent) \in DOMAIN sent
      BY <3>4, <3>7
    <3>9. Plain(t)
      BY <1>2, <3>2, <3>8 DEF AllPlain
    <3>10. PICK d \in Nat : d = n - p
      BY <3>3
    <3>11. PICK b \in Beginnings(t), st \in Nat \ {0} :
             /\ b \in Seq(Lines) /\ (Plain(t) => Plain(b))
             /\ GoesOn(c, p, b, st, d) /\ st + d = Len(b)
      BY <3>4, <3>7, <3>10
    <3>12. q \in Requests
      BY <1>9 DEF Accepts
    <3>13. p \in Nat \ {0} /\ p + d = n
      BY <3>3, <3>10
    <3>14. IsReadingOf(q, SubSeq(b, 1, st + d), parser')
      <4>1. ReadsFrom(q, c, p, p + d, parser')
        BY <3>6, <3>13
      <4> QED  BY <3>3, <3>9, <3>11, <3>12, <3>13, <4>1, ReadsMessage
    <3>15. SubSeq(b, 1, st + d) = b
      BY <3>11, SubSeqFull
    <3>16. requests'[i] = q
      BY <2>1, <2>5
    <3>17. sent'[requests'[i].first.of] = t
      BY <2>2, <3>2, <3>8, <3>16
    <3> QED  BY <3>11, <3>14, <3>15, <3>16, <3>17
  <2> QED  BY <1>6, <2>3, <2>4, <2>5
<1>10. ASSUME NEW n \in 1 .. Len(wire), Deliver(n), Closes
       PROVE  requests' = requests /\ parser' = parser /\ sent' = sent
  BY <1>10 DEF Deliver, Closes
<1>11. ASSUME NEW i \in running, NEW outcome \in Outcomes, Answer(i, outcome)
       PROVE  requests' = requests /\ parser' = parser /\ sent' = sent
  BY <1>11 DEF Answer
<1>12. CASE requests' = requests /\ parser' = parser /\ sent' = sent
  BY <1>5, <1>12
<1>13. CASE \E shape \in Shapes : Send(shape)
  <2>1. PICK shape \in Shapes : Send(shape)
    BY <1>13
  <2>2. /\ requests' = requests /\ parser' = parser
        /\ \A i \in DOMAIN requests : sent'[requests[i].first.of] = sent[requests[i].first.of]
    BY <1>8, <2>1
  <2> QED  BY <1>5, <2>2
<1>14. CASE \E n \in 1 .. Len(wire) : Deliver(n)
  <2>1. PICK n \in 1 .. Len(wire) : Deliver(n)
    BY <1>14
  <2>2. CASE Closes
    BY <1>10, <1>12, <2>1, <2>2
  <2>3. CASE \E q : Accepts(q, n)
    BY <1>9, <2>1, <2>3
  <2> QED  BY <1>7, <2>1, <2>2, <2>3, DeliverDoes
<1>15. CASE \E i \in running, outcome \in Outcomes : Answer(i, outcome)
  BY <1>11, <1>12, <1>15
<1>16. CASE UNCHANGED vars
  BY <1>12, <1>16 DEF vars
<1>17. CASE \E i \in DOMAIN wire : \E cut \in Cuts(wire[i].kind) : Cut(i, cut)
  BY <1>12, <1>17 DEF Cut
<1> QED  BY <1>13, <1>14, <1>15, <1>16, <1>17 DEF Next, Over

(* However the network cuts lines and joins messages of a patient client,  *)
(* a handler sees one message or the beginning of one, as long as one line *)
(* of a message at most has a request line in it (http_simple.py:19-45,    *)
(* http_tools.py:20-55, connection.py:91-101).                             *)
THEOREM OneMessageRead == Spec => []ReadsOneMessage
<1>1. Init => ReadsOneMessage
  <2>1. DOMAIN <<>> = {}
    OBVIOUS
  <2> QED  BY <2>1 DEF Init, ReadsOneMessage
<1>2. Http1Inv /\ ReadsOneMessage /\ [Next]_vars => (Http1Inv /\ ReadsOneMessage)'
  BY ReadsStep, NextHttp1Inv
<1> QED  BY <1>1, <1>2, InitHttp1Inv, PTL DEF Spec

=============================================================================
