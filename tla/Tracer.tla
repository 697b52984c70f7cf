------------------------------- MODULE Tracer -------------------------------
(* SimpleProfile (utils/profile.py): a profile function that sees every    *)
(* call and return of a thread and times the lines of one function, and of *)
(* the functions below it down to a depth.                                 *)
(*                                                                         *)
(* The traced program calls and returns as it likes. A call of a C function*)
(* looks to the tracer like a call of a Python function that calls nothing:*)
(* in both cases the event is about the line of the caller (_get_event_frame).*)
EXTENDS Naturals, Sequences, FiniteSets, FiniteSetsExt

CONSTANTS
  Codes,      (* functions, told apart by their code alias                 *)
  Target,     (* the function given to add_target                          *)
  Sourceless, (* functions whose source inspect.getsource cannot find      *)
  MaxDepth,   (* largest depth a profile is made with                      *)
  MaxLines,   (* lines of a function that contain calls                    *)
  MaxStack    (* bound on the depth of the traced program's stack          *)

ASSUME TracerAssumption ==
  /\ Target \in Codes \ Sourceless /\ Sourceless \subseteq Codes
  /\ {MaxDepth, MaxLines, MaxStack} \subseteq Nat \ {0}

VARIABLES
  coroutine,  (* whether the target is a coroutine function                *)
  depth,      (* self._depth                                               *)
  targets,    (* self._target_func: the functions whose lines are timed    *)
  calls,      (* self._calls: one record for each line and depth           *)
  stack,      (* the frames of the thread, the target's first              *)
  recursed,   (* whether a function has called itself, directly or not     *)
  state       (* of the profile: running, stopped, or crashed in _trace    *)

vars == <<coroutine, depth, targets, calls, stack, recursed, state>>

Lines  == 1..MaxLines
Frames == [code : Codes, line : Lines]

(* CallResult: "open" until its end is set. The time of an open record is  *)
(* 0.0 minus its start.                                                    *)
Records == [depth : 1..MaxDepth, code : Codes, line : Lines, open : BOOLEAN]

-----------------------------------------------------------------------------

(* The code of frame i; below the target is the profile's own _run, no     *)
(* target.                                                                 *)
IsTarget(stk, i) == i > 0 /\ \E k \in DOMAIN targets : targets[k] = stk[i].code

(* Mutant: the number of targets is not compared with the depth.           *)
SaveFrameUnbounded(stk, i) ==
  IF IsTarget(stk, i - 1) THEN Append(targets, stk[i].code) ELSE targets

(* _save_frame: the first frames that run below a target become targets,   *)
(* once for each event, until there are as many as the depth.              *)
SaveFrame(stk, i) ==
  IF Len(targets) # depth /\ IsTarget(stk, i - 1)
  THEN Append(targets, stk[i].code) ELSE targets

(* _save_function: of a new target the source is wanted, and               *)
(* inspect.getsource raises OSError when there is none.                    *)
SourceMissing(stk, i) == SaveFrame(stk, i) # targets /\ stk[i].code \in Sourceless

(* _get_depth_at_recursion: how many frames right below have the same code. *)
RecursionDepth(stk, i, n) ==
  LET others == {j \in 1..(i - 1) : stk[j].code # stk[i].code}
      same   == i - 1 - (IF others = {} THEN 0 ELSE Max(others))
  IN IF same >= n THEN 0 ELSE same

(* _get_current_depth after _save_frame: the place of the frame's function *)
(* among the targets; 0 is None.                                           *)
CurrentDepth(tgt, stk, i) ==
  LET places == {k \in DOMAIN tgt : tgt[k] = stk[i].code} IN
  CASE places = {}              -> 0
    [] Cardinality(places) = 1  -> Max(places)
    [] OTHER                    -> RecursionDepth(stk, i, Cardinality(places))

Same(frame, d) ==
  {r \in calls : r.depth = d /\ r.code = frame.code /\ r.line = frame.line}

(* _trace for the event that frame i of stk calls: a new record, or one    *)
(* more call (ncalls) of the one there is. An exception in _trace ends the *)
(* trace and goes to the traced program.                                   *)
TraceCall(stk, i) ==
  LET tgt == SaveFrame(stk, i)
      d   == CurrentDepth(tgt, stk, i)
  IN /\ targets' = tgt
     /\ state' = IF SourceMissing(stk, i) THEN "crashed" ELSE "running"
     /\ calls' = IF d = 0 \/ Same(stk[i], d) # {} \/ SourceMissing(stk, i) THEN calls
                 ELSE calls \cup {[depth |-> d, code |-> stk[i].code,
                                   line |-> stk[i].line, open |-> TRUE]}

(* Mutant: only the lines of the target itself get their end.              *)
TraceReturnTargetOnly(stk, i) ==
  LET tgt   == SaveFrame(stk, i)
      d     == CurrentDepth(tgt, stk, i)
      found == Same(stk[i], d)
  IN /\ targets' = tgt
     /\ state' = IF SourceMissing(stk, i) \/ (d # 0 /\ found = {}) THEN "crashed"
                                                                  ELSE "running"
     /\ calls' = IF d # 1 \/ SourceMissing(stk, i) THEN calls
                 ELSE (calls \ found) \cup {[r EXCEPT !.open = FALSE] : r \in found}

(* _trace for the event that frame i gets control back: sets the end of    *)
(* the record of its line. call is None when there is no record, and       *)
(* call.end = ... raises.                                                  *)
TraceReturn(stk, i) ==
  LET tgt   == SaveFrame(stk, i)
      d     == CurrentDepth(tgt, stk, i)
      found == Same(stk[i], d)
  IN /\ targets' = tgt
     /\ state' = IF SourceMissing(stk, i) \/ (d # 0 /\ found = {}) THEN "crashed"
                                                                  ELSE "running"
     /\ calls' = IF d = 0 \/ SourceMissing(stk, i) THEN calls
                 ELSE (calls \ found) \cup {[r EXCEPT !.open = FALSE] : r \in found}

-----------------------------------------------------------------------------

(* run: add_target, then start_trace and the call of the function.         *)
Init ==
  /\ coroutine \in BOOLEAN
  /\ depth \in 1..MaxDepth
  /\ targets = <<Target>>
  /\ calls = {}
  /\ stack = <<[code |-> Target, line |-> 1]>>
  /\ recursed = FALSE
  /\ state = "running"

(* The running function calls another one from one of its lines.           *)
Call(code, line) ==
  LET top == Len(stack)
      at  == [stack EXCEPT ![top].line = line]
  IN /\ state = "running"
     /\ top < MaxStack
     /\ TraceCall(at, top)
     /\ stack' = Append(at, [code |-> code, line |-> 1])
     /\ recursed' = (recursed \/ \E i \in 1..top : stack[i].code = code)
     /\ UNCHANGED <<coroutine, depth>>

(* Mutant: a return is about the frame that returns, not about its caller. *)
ReturnOwnFrame ==
  /\ state = "running"
  /\ Len(stack) > 1
  /\ stack' = SubSeq(stack, 1, Len(stack) - 1)
  /\ TraceReturn(stack, Len(stack))
  /\ UNCHANGED <<coroutine, depth, recursed>>

(* The running function returns, or is left by an exception.               *)
Return ==
  /\ state = "running"
  /\ Len(stack) > 1
  /\ stack' = SubSeq(stack, 1, Len(stack) - 1)
  /\ TraceReturn(stack, Len(stack) - 1)
  /\ UNCHANGED <<coroutine, depth, recursed>>

(* A coroutine that awaits has returned down to the loop, which runs any   *)
(* task of the thread, the same function for another request included; to  *)
(* resume the awaited frames is to call them again.                        *)
Switch(code) ==
  /\ coroutine
  /\ state = "running"
  /\ Len(stack) = 1
  /\ stack' = <<[code |-> code, line |-> 1]>>
  /\ UNCHANGED <<coroutine, depth, targets, calls, recursed, state>>

(* get_lines needs the source of every target,                             *)
Sourced == \A k \in DOMAIN targets : targets[k] \notin Sourceless

(* and shows the records, and for every target in its place the lines that *)
(* have none, with no time.                                                *)
Unseen(d, line) ==
  [depth |-> d, code |-> targets[d], line |-> line, open |-> FALSE]

Report ==
  calls \cup
  {r \in {Unseen(d, line) : d \in DOMAIN targets, line \in Lines} :
     Same([code |-> r.code, line |-> r.line], r.depth) = {}}

(* The target itself returns: _run is no target, and stop ends the trace.  *)
Stop ==
  /\ state = "running"
  /\ Len(stack) = 1
  /\ state' = "stopped"
  /\ UNCHANGED <<coroutine, depth, targets, calls, stack, recursed>>

Over == state # "running" /\ UNCHANGED vars

Next ==
  \/ \E code \in Codes, line \in Lines : Call(code, line)
  \/ Return
  \/ \E code \in Codes : Switch(code)
  \/ Stop
  \/ Over

Spec == Init /\ [][Next]_vars

-----------------------------------------------------------------------------

(* The types of the variables.                                             *)
TypeOK ==
  /\ coroutine \in BOOLEAN
  /\ depth \in 1..MaxDepth
  /\ targets \in Seq(Codes) /\ Len(targets) <= depth
  /\ calls \subseteq Records
  /\ stack \in Seq(Frames)
  /\ recursed \in BOOLEAN
  /\ state \in {"running", "stopped", "crashed"}

(* Whatever the program calls, recursion included, a return finds the      *)
(* record of its call, although targets are added in between, which may    *)
(* change the depth of a frame. The tracer raises into the program it      *)
(* watches in two cases only: a coroutine that recurses, and a profile     *)
(* deeper than the default of 1 that meets a function without source       *)
(* (profile.py:90-93, 134-148, 212).                                       *)
RaisesForAReason ==
  state = "crashed" => (coroutine /\ recursed) \/ (depth > 1 /\ ~Sourced)

(* Without recursion the report, when the source of every target is there, *)
(* shows every line at the depth of its function. To depth 2 it shows each *)
(* line once, and the lines without an end are lines being executed: when  *)
(* the profile stops every time is known (profile.py:90-93, 143-147,       *)
(* 230-244; tests/test_profile.py:76-77).                                  *)
InProgress ==
  {r \in Records : \E i \in 1..(Len(stack) - 1) :
     r.code = stack[i].code /\ r.line = stack[i].line}

ReportRight ==
  ~recursed /\ Sourced =>
    \A r \in Report :
      /\ r.depth <= Len(targets) /\ targets[r.depth] = r.code
      /\ depth <= 2 =>
           /\ r.open => r \in InProgress
           /\ \A q \in Report : q.code = r.code /\ q.line = r.line => q = r

=============================================================================
