------------------------------ MODULE GlslExecution ------------------------------
(***************************************************************************)
(* The function that was written, run beside the function that was read.   *)
(* The conditions of both are the same, whatever they are: in every block  *)
(* one choice is made, for the SPIR-V's branch and for whatever GLSL tests *)
(* the block's condition.                                                  *)
(*                                                                         *)
(* Blocks that do nothing but branch are passed without notice on both     *)
(* sides, as the writer does not write them.                               *)
(***************************************************************************)
EXTENDS BlockEmission

VARIABLES
  at,       \* the block that the SPIR-V has come to, or how it ended
  glsl_at,  \* the one that the GLSL has come to
  stack,    \* what the GLSL has still to run, the innermost statements first
  ladders,  \* the ladder variables that are true
  misled    \* did a continue hit a do { } while (false)?

execution == <<at, glsl_at, stack, ladders, misled>>

\* How a run ends; blocks are positive.
Returned == -1
Left == -2    \* discarded, or another end of the invocation
Lost == -3    \* the GLSL tests a condition of another block
Start == 0

ExecutionInit == at = Start /\ glsl_at = Start /\ stack = << >> /\ ladders = {} /\ misled = FALSE

-------------------------------------------------------------------------------
(* The SPIR-V *)

Ways(b) ==
  CASE b = Start -> {0}
    [] b # Start /\ blocks[b].terminator = "Select" -> {0, 1}
    [] b # Start /\ blocks[b].terminator = "MultiSelect" ->
         {-1} \cup {blocks[b].cases[k].value : k \in DOMAIN blocks[b].cases}
    [] OTHER -> {0}

TargetOf(b, choice) ==
  LET block == blocks[b]
      chosen == {k \in DOMAIN block.cases : block.cases[k].value = choice}
  IN  CASE block.terminator = "Direct" -> block.next_block
        [] block.terminator = "Select" -> IF choice = 1 THEN block.true_block ELSE block.false_block
        [] OTHER -> IF chosen = {} THEN block.default_block ELSE block.cases[CHOOSE k \in chosen : TRUE].block

\* A block that is unreachable and has no instructions is written as nothing.
WithoutNotice(b) == BlockIsNoop(b) \/ (blocks[b].terminator = "Unreachable" /\ Statements(b) = << >>)

RECURSIVE Settled(_)
Settled(b) == IF BlockIsNoop(b) THEN Settled(blocks[b].next_block) ELSE b

Ended(b) == b < 0 \/ (b > 0 /\ blocks[b].terminator \notin {"Direct", "Select", "MultiSelect"})
EndOf(b) == IF b > 0 /\ Ended(b) THEN IF blocks[b].terminator = "Return" THEN Returned ELSE Left ELSE b

\* Where the SPIR-V goes, and the edge whose phis are written on the way.
SpirvStep(b, choice) ==
  IF b = Start THEN [at |-> Settled(entry_block), phis |-> << >>]
  ELSE [at |-> Settled(TargetOf(b, choice)),
        phis |-> IF FlushPhiRequired(b, TargetOf(b, choice)) THEN <<[from |-> b, to |-> TargetOf(b, choice)]>> ELSE << >>]

-------------------------------------------------------------------------------
(* The GLSL *)

\* A frame is the rest of some statements, or the loop or switch around them.
Frame(k, rest, statement) == [k |-> k, rest |-> rest, statement |-> statement]
NoStatement == [k |-> "none"]
Run(statements) == Frame("run", statements, NoStatement)

\* A run of the GLSL: the stack, the choice of the block it came from, and what it does.
RECURSIVE Runs(_, _, _), Breaks(_), Continues(_)

Breaks(frames) == IF frames[1].k = "run" THEN Breaks(Tail(frames)) ELSE Tail(frames)

\* A switch is no loop, but do { } while (false) is one.
Continues(frames) ==
  CASE frames[1].k = "loop" -> frames
    [] frames[1].k = "once" -> Tail(frames)
    [] OTHER -> Continues(Tail(frames))
RECURSIVE HitsOnce(_)
HitsOnce(frames) == IF frames[1].k = "loop" THEN FALSE ELSE frames[1].k = "once" \/ HitsOnce(Tail(frames))

\* From the matching label on: cases fall through.
ArmsFrom(switch, choice) ==
  LET arms == switch.arms
      labelled == {k \in DOMAIN arms : choice \in arms[k].labels}
      default == {k \in DOMAIN arms : arms[k].default}
      entered == IF labelled # {} THEN labelled ELSE default
  IN  IF switch.loopLike THEN FlattenSeq([k \in DOMAIN arms |-> arms[k].code])
      ELSE IF entered = {} THEN << >>
      ELSE LET first == CHOOSE k \in entered : \A l \in entered : k <= l
           IN  FlattenSeq([k \in 1 .. Len(arms) - first + 1 |-> arms[k + first - 1].code])

\* Runs to the next block that does something.
Runs(b, choice, r) ==
  LET frame == r.stack[1]
      outer == Tail(r.stack)
      s == frame.rest[1]
      rest == <<[frame EXCEPT !.rest = Tail(@)]>> \o outer
      then(frames) == Runs(b, choice, [r EXCEPT !.stack = frames])
      stops(where, frames) == [r EXCEPT !.at = where, !.stack = frames]
      test(l) == <<Run(l.test), Frame("test", << >>, l)>>
  IN  IF r.stack = << >> THEN stops(Returned, << >>)
      ELSE IF frame.k = "loop"
      THEN then(<<Run(frame.statement.continue)>> \o test(frame.statement) \o outer)
      ELSE IF frame.k = "test"
      THEN IF frame.statement.block \notin {0, b} THEN stops(Lost, << >>)
           ELSE IF frame.statement.block = 0 \/ choice \in frame.statement.stay
           THEN then(<<Run(frame.statement.body), Frame("loop", << >>, frame.statement)>> \o outer)
           ELSE then(outer)
      ELSE IF frame.k \in {"once", "switch"} \/ frame.rest = << >> THEN then(outer)
      ELSE CASE s.k = "block" -> IF WithoutNotice(s.block) THEN then(rest) ELSE stops(s.block, rest)
             [] s.k = "phi" ->
                  Runs(b, choice, [r EXCEPT !.stack = rest, !.phis = Append(@, [from |-> s.from, to |-> s.to])])
             [] s.k = "if" ->
                  IF s.block # b THEN stops(Lost, << >>)
                  ELSE then(<<Run(IF choice \in s.values THEN s.then ELSE s.else)>> \o rest)
             [] s.k = "loop" ->
                  then((IF s.first = "test" THEN test(s) ELSE <<Run(s.body), Frame("loop", << >>, s)>>) \o rest)
             [] s.k = "switch" ->
                  IF s.block # b /\ ~s.loopLike THEN stops(Lost, << >>)
                  ELSE then(<<Run(ArmsFrom(s, choice)),
                              Frame(IF s.loopLike THEN "once" ELSE "switch", << >>, NoStatement)>> \o rest)
             [] s.k = "break" -> then(Breaks(rest))
             [] s.k = "continue" ->
                  Runs(b, choice, [r EXCEPT !.stack = Continues(rest), !.misled = @ \/ HitsOnce(rest)])
             [] s.k = "ladder" ->
                  Runs(b, choice, [r EXCEPT !.stack = rest,
                    !.ladders = IF s.value THEN @ \cup {s.switch} ELSE @ \ {s.switch}])
             [] s.k = "ifladder" -> then(IF s.switch \in r.ladders THEN <<Run(s.then)>> \o rest ELSE rest)
             [] OTHER -> stops(IF s.how = "Return" THEN Returned ELSE Left, << >>)

GlslStep(b, choice) ==
  Runs(b, choice, [at |-> b, stack |-> IF b = Start THEN <<Run(code)>> ELSE stack, phis |-> << >>,
                   ladders |-> ladders, misled |-> misled])

-------------------------------------------------------------------------------
Running == phase = "emitted" /\ at \in DOMAIN blocks \cup {Start} /\ at = glsl_at

\* One block after the other; after a wrong step there is no next one.
Execute ==
  /\ Running /\ ~Ended(at)
  /\ \E choice \in Ways(at) :
       LET spirv_step == SpirvStep(at, choice)
           step == GlslStep(at, choice)
       IN  /\ at' = spirv_step.at
           /\ glsl_at' = IF step.phis = spirv_step.phis THEN step.at ELSE Lost
           /\ stack' = step.stack /\ ladders' = step.ladders /\ misled' = step.misled
  /\ UNCHANGED <<spirv, phase, error, ir, parsing, cfg, scope, emitting>>

\* The end of the SPIR-V is one that the GLSL has still to come to.
Finish ==
  /\ Running /\ Ended(at)
  /\ LET step == GlslStep(at, 0)
     IN  at' = EndOf(at) /\ glsl_at' = step.at /\ misled' = step.misled
  /\ stack' = << >> /\ ladders' = {}
  /\ UNCHANGED <<spirv, phase, error, ir, parsing, cfg, scope, emitting>>

ExecuteGlsl == Execute \/ Finish

-------------------------------------------------------------------------------
(* SPIRV-Cross from the module to the GLSL, and the GLSL's run *)

Init == ParserInit /\ CfgInit /\ ScopeInit /\ EmissionInit /\ ExecutionInit

Next ==
  \/ Parse /\ UNCHANGED <<cfg, scope, emitting, execution>>
  \/ BuildCfg /\ UNCHANGED <<scope, emitting, execution>>
  \/ AnalyzeVariableScope /\ UNCHANGED <<emitting, execution>>
  \/ EmitGlsl /\ UNCHANGED execution
  \/ ExecuteGlsl

vars == <<spirv, phase, error, ir, parsing, cfg, scope, emitting, execution>>
Spec == Init /\ [][Next]_vars

-------------------------------------------------------------------------------
(* Properties *)

\* Whatever the conditions are, the GLSL runs the blocks that the SPIR-V runs, in
\* their order, assigns the phis of the edges it takes and of no others, and ends
\* as the SPIR-V ends; what is written is found within the passes there are.
LogicalEquivalent ==
  /\ at = glsl_at
  /\ error \notin {"Invalid continue block detected!",
                   "Maximum compilation loops detected and no forward progress was made."}

\* The same, but for a switch without labels.
ControlFlowPreserved == misled \/ LogicalEquivalent
================================================================================
