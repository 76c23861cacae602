------------------------------ MODULE BlockEmission ------------------------------
(***************************************************************************)
(* How SPIRV-Cross writes the blocks of a function as GLSL (spirv_glsl.cpp, *)
(* emit_block_chain and what it calls).  Blocks are written where control   *)
(* first needs them; branches become the end of a brace, break, continue or *)
(* return.  The writer guesses what a loop is, and when it guessed wrong it *)
(* notes so at the block and writes everything again.                      *)
(*                                                                         *)
(* What is written is a sequence of statements:                            *)
(*   block   the statements of a block's instructions                      *)
(*   phi     the assignments to the phis of an edge                        *)
(*   if      a test of a block's condition                                 *)
(*   loop    for, while and do-while: test first or body first             *)
(*   switch  and do { } while (false), which is one without labels         *)
(*   ladder  the variable that says that a break goes on                   *)
(* The GLSL is 450 or ES 300, never legacy, so that cases may fall through. *)
(***************************************************************************)
EXTENDS VariableScope

VARIABLES
  code,      \* what the last pass wrote
  passes,    \* the passes so far
  emission   \* what passes note at blocks, and the emitter's own state

emitting == <<code, passes, emission>>

Fresh(e) == [e EXCEPT !.forcing = FALSE, !.progress = FALSE, !.switches = << >>, !.fallthrough = FALSE]

EmissionInit ==
  /\ code = << >> /\ passes = 0
  /\ emission = [disable_block_optimization |-> {}, complex_continue |-> {}, need_ladder_break |-> {},
                 ignore_phi_from_block |-> [b \in Block |-> 0], no_loop_variables |-> {},
                 forcing |-> FALSE, progress |-> FALSE, switches |-> << >>, fallthrough |-> FALSE,
                 thrown |-> None]

-------------------------------------------------------------------------------
(* Statements, with what the emitter knows after them *)

Nothing(st) == [code |-> << >>, st |-> st]
Say(statement, st) == [code |-> <<statement>>, st |-> st]
Joined(r, s) == [code |-> r.code \o s.code, st |-> s.st]
Then(r, After(_)) == Joined(r, After(r.st))
Around(r, Statement(_)) == Say(Statement(r.code), r.st)
ForceRecompile(st) == [st EXCEPT !.forcing = TRUE]
Throw(what, st) == [st EXCEPT !.thrown = IF @ = None THEN what ELSE @]

Break    == [k |-> "break"]
Continue == [k |-> "continue"]
Ends(how) == [k |-> "end", how |-> how]

\* Loads are written where their result is used, the others are statements.
Statements(block) == SelectSeq(blocks[block].ops, LAMBDA o : o.op # "Load" /\ o.op \notin Anywhere)
EmitBlockInstructions(block, st) == Say([k |-> "block", block |-> block], st)

FlushPhiRequired(from, to) == \E k \in DOMAIN blocks[to].phi_variables : blocks[to].phi_variables[k].parent = from

FlushPhi(from, to, st) ==
  IF st.ignore_phi_from_block[to] # from /\ FlushPhiRequired(from, to)
  THEN Say([k |-> "phi", from |-> from, to |-> to], st) ELSE Nothing(st)

-------------------------------------------------------------------------------
(* What blocks look like *)

IsBreak(b)       == block_meta[b] \cap {"LOOP_MERGE", "MULTISELECT_MERGE"} # {}
IsLoopBreak(b)   == "LOOP_MERGE" \in block_meta[b]
IsConditional(b) == block_meta[b] \cap {"SELECTION_MERGE", "MULTISELECT_MERGE"} # {}

BlockIsNoop(b) ==
  /\ blocks[b].terminator = "Direct"
  /\ ~FlushPhiRequired(b, b) /\ ~FlushPhiRequired(blocks[b].next_block, b)
  /\ ~FlushPhiRequired(b, blocks[b].next_block)
  /\ \A k \in DOMAIN blocks[b].ops : blocks[b].ops[k].op \in Anywhere

\* Where direct branches without a merge lead, past blocks that do nothing or all.
DirectTo(from, to) == blocks[from].terminator = "Direct" /\ blocks[from].merge = "None" /\ blocks[from].next_block = to
RECURSIVE LeadsThrough(_, _, _)
LeadsThrough(passed, from, to) ==
  \/ from = to
  \/ from \in passed /\ DirectTo(from, blocks[from].next_block) /\ LeadsThrough(passed, blocks[from].next_block, to)

ExecutionIsBranchless(from, to) == LeadsThrough(DOMAIN blocks, from, to)
ExecutionIsNoop(from, to) == LeadsThrough({b \in DOMAIN blocks : BlockIsNoop(b)}, from, to)

\* One of a block's two ways leads nowhere but to a block.
LeadsTo(b, to) == b = to \/ (b # 0 /\ to # 0 /\ ExecutionIsNoop(b, to))

ContinueBlockType(c, st) ==
  LET b == blocks[c]
      header == loop_dominator[c]
      merge == blocks[header].merge_block
  IN  IF c \in st.complex_continue THEN "ComplexLoop"
      ELSE IF b.merge = "Loop" THEN "WhileLoop"
      ELSE IF header = NoDominator THEN "ComplexLoop"
      ELSE IF ExecutionIsNoop(c, header) THEN "WhileLoop"
      ELSE IF ExecutionIsBranchless(c, header) THEN "ForLoop"
      ELSE IF \E t \in {b.true_block, b.false_block} \ {0} : FlushPhiRequired(c, t) THEN "ComplexLoop"
      ELSE IF /\ b.merge = "None" /\ b.terminator = "Select"
              /\ \/ b.true_block = header /\ LeadsTo(b.false_block, merge)
                 \/ b.false_block = header /\ LeadsTo(b.true_block, merge)
      THEN "DoWhileLoop"
      ELSE "ComplexLoop"

\* The block that tests, and leaves for the loop's merge block on one side.
Positive(b, t) == LET m == blocks[b].merge_block
                  IN  blocks[t].true_block \notin {m, b} /\ LeadsTo(blocks[t].false_block, m)
Negative(b, t) == LET m == blocks[b].merge_block
                  IN  blocks[t].false_block \notin {m, b} /\ LeadsTo(blocks[t].true_block, m)

BlockIsLoopCandidate(b, method, st) ==
  LET block == blocks[b]
      test == IF method = "MergeToDirectForLoop" THEN block.next_block ELSE b
  IN  /\ b \notin st.disable_block_optimization \cup st.complex_continue
      /\ block.merge = "Loop"
      /\ method = "MergeToDirectForLoop" =>
           block.terminator = "Direct" /\ BlockIsNoop(b) /\ blocks[test].merge = "None"
      /\ blocks[test].terminator = "Select" /\ (Positive(b, test) \/ Negative(b, test))
      /\ method = "MergeToSelectContinueForLoop" =>
           block.continue_block = (IF Positive(b, b) THEN block.true_block ELSE block.false_block)
      /\ IF method = "MergeToDirectForLoop"
         THEN ~FlushPhiRequired(b, block.merge_block) /\ ~FlushPhiRequired(blocks[test].false_block, block.merge_block)
         ELSE ~FlushPhiRequired(b, b) /\ ~FlushPhiRequired(b, block.merge_block)

Methods == <<"MergeToSelectContinueForLoop", "MergeToSelectForLoop", "MergeToDirectForLoop">>
MethodOf(b, st) ==
  LET candidates == SelectSeq(Methods, LAMBDA m : BlockIsLoopCandidate(b, m, st))
  IN  IF candidates = << >> THEN "none" ELSE candidates[1]

\* node_terminates_control_flow_in_sub_graph: is a block run whenever another is?
MergesToNothing(d) ==
  \/ blocks[d].merge = "None"
  \/ blocks[d].merge = "Selection" /\ blocks[blocks[d].next_block].terminator = "Unreachable"
  \/ blocks[d].merge = "Loop" /\ blocks[blocks[d].merge_block].terminator = "Unreachable"

TerminatesControlFlow(from, to) ==
  LET outside == IF blocks[from].merge = "Loop" THEN blocks[from].merge_block ELSE 0
      leaves(d, t) == /\ d = from \/ MergesToNothing(d)
                      /\ outside # 0 /\ ExecutionIsBranchless(t, outside)
      allows(d, t) ==
        LET dom == blocks[d]
        IN  \/ dom.merge = "Selection" /\ dom.next_block = t
            \/ dom.merge = "Loop" /\ dom.merge_block = t
            \/ dom.terminator = "Direct" /\ dom.next_block = t
            \/ dom.terminator = "Select" /\ dom.true_block = t /\ leaves(d, dom.false_block)
            \/ dom.terminator = "Select" /\ dom.false_block = t /\ leaves(d, dom.true_block)
      walk[t \in Block] ==
        \/ t = from
        \/ LET d == DominatorOf(Range(EdgesOf(preceding_edges, t)))
           IN  d # 0 /\ allows(d, t) /\ walk[d]
  IN  walk[to]

-------------------------------------------------------------------------------
(* Branches *)

RECURSIVE EmitBlockChain(_, _), EmitContinueBlock(_, _, _, _)

\* A continue that ends the loop's body is left out.
\* Mutant: so is every other.
InsideLoop(from) == blocks[from].merge_block # 0 \/ loop_dominator[from] # NoDominator
OutsideControlFlow(from) ==
  LET loop == IF blocks[from].merge_block # 0 THEN from ELSE loop_dominator[from]
  IN  loop # NoDominator /\ TerminatesControlFlow(loop, from)

BranchToContinue(from, to, st) ==
  IF from = to THEN Nothing(st)
  ELSE IF to \in st.complex_continue THEN EmitBlockChain(to, st)
  ELSE IF OutsideControlFlow(from) THEN Nothing(st)
  ELSE Say(Continue, st)

\* The switches around that a break out of a loop has to leave, too, the inner first.
LeavesLoop(switch, to) == loop_dominator[switch] # NoDominator /\ blocks[loop_dominator[switch]].merge_block = to
SwitchesLeft(to, st) ==
  IF IsLoopBreak(to)
  THEN Reverse(SelectSeq([k \in DOMAIN st.switches |-> <<k, st.switches[k]>>],
                 LAMBDA s : \A k \in s[1] .. Len(st.switches) : LeavesLoop(st.switches[k], to)))
  ELSE << >>

BranchToBreak(to, st) ==
  LET left == [k \in DOMAIN SwitchesLeft(to, st) |-> SwitchesLeft(to, st)[k][2]]
  IN  [code |-> Append([k \in DOMAIN left |-> [k |-> "ladder", switch |-> left[k], value |-> TRUE]], Break),
       st |-> IF Range(left) \subseteq st.need_ladder_break THEN st
              ELSE ForceRecompile([st EXCEPT !.need_ladder_break = @ \cup Range(left)])]

Branch(from, to, st0) ==
  Then(FlushPhi(from, to, st0), LAMBDA st :
    IF "LOOP_HEADER" \in block_meta[to] /\ loop_dominator[from] = to THEN Say(Continue, st)
    ELSE IF from # to /\ IsBreak(to) THEN BranchToBreak(to, st)
    ELSE IF IsContinue(to) \/ from = to
    THEN IF IsContinue(to) /\ (IsBreak(to) \/ IsConditional(to)) THEN Nothing(st) ELSE BranchToContinue(from, to, st)
    ELSE IF IsConditional(to) THEN Nothing(st)
    ELSE EmitBlockChain(to, st))

\* A way to the merge block of the selection needs no code.
MergeOf(b) == IF blocks[b].merge = "Selection" THEN blocks[b].next_block ELSE 0
Way(from, to, st) ==
  IF to # MergeOf(from) \/ FlushPhiRequired(from, to) THEN Branch(from, to, st) ELSE Nothing(st)
BothWays(from, yes, no) == Say([k |-> "if", block |-> from, values |-> {1}, then |-> yes.code, else |-> no.code], no.st)
OtherWay(from, yes) == BothWays(from, yes, Way(from, blocks[from].false_block, yes.st))

BranchOnCondition(from, st) ==
  IF {blocks[from].true_block, blocks[from].false_block} = {MergeOf(from)} /\ ~FlushPhiRequired(from, MergeOf(from))
  THEN Nothing(st)
  ELSE OtherWay(from, Way(from, blocks[from].true_block, st))

-------------------------------------------------------------------------------
(* Loops *)

\* The continue block's statements go into the loop's header.  Phis of all of its
\* blocks are written as if they came from the first.
EmitContinueBlock(continue, b, follow, st0) ==
  IF "LOOP_HEADER" \in block_meta[b] THEN Nothing(st0)
  ELSE LET block == blocks[b]
           next == CASE block.next_block # 0 -> block.next_block
                     [] block.next_block = 0 /\ follow = "true" -> block.true_block
                     [] block.next_block = 0 /\ follow = "false" -> block.false_block
                     [] OTHER -> 0
       IN  Then(EmitBlockInstructions(b, st0), LAMBDA st :
             IF next = 0 THEN Nothing(Throw("Invalid continue block detected!", st))
             ELSE Then(FlushPhi(continue, next, st), LAMBDA s : EmitContinueBlock(continue, next, follow, s)))

Loop(first, test, tested, stay, continue, body) ==
  [k |-> "loop", first |-> first, test |-> test, block |-> tested, stay |-> stay, continue |-> continue, body |-> body]

\* attempt_emit_loop_header: the loop has a test if nothing but the test is left of the
\* block that tests, and if its continue block is a for's or a while's.
TestedBlock(b, method) == IF method = "MergeToDirectForLoop" THEN blocks[b].next_block ELSE b
HeaderSucceeds(b, method, type) ==
  LET t == TestedBlock(b, method)
  IN  /\ Statements(t) = << >>
      /\ ~FlushPhiRequired(t, blocks[t].true_block) /\ ~FlushPhiRequired(t, blocks[t].false_block)
      /\ type \in {"ForLoop", "WhileLoop"}

HeaderFails(b, st) == ForceRecompile([st EXCEPT !.disable_block_optimization = @ \cup {b}])

\* The condition may have to be inverted.
Inverted(b, t) == ExecutionIsNoop(blocks[t].true_block, blocks[b].merge_block)

\* A body that is the continue block is written in place.
InPlace(b, method, st) ==
  IF method = "MergeToSelectContinueForLoop"
  THEN [st EXCEPT !.complex_continue = @ \cup {blocks[b].continue_block}] ELSE st
OutOfPlace(b, method, before, st) ==
  IF method = "MergeToSelectContinueForLoop" /\ blocks[b].continue_block \notin before.complex_continue
  THEN [st EXCEPT !.complex_continue = @ \ {blocks[b].continue_block}] ELSE st

TestedLoop(b, method, type, st0) ==
  LET t == TestedBlock(b, method)
      header == IF t = b THEN << >> ELSE EmitBlockInstructions(b, st0).code
      test == header \o EmitBlockInstructions(t, st0).code
      target == IF Inverted(b, t) THEN blocks[t].false_block ELSE blocks[t].true_block
      stay == IF Inverted(b, t) THEN {0} ELSE {1}
      with(continue, body) ==
        Say(Loop("test", test, t, stay, continue.code, body.code), OutOfPlace(b, method, continue.st, body.st))
      after(continue) == with(continue, Branch(t, target, InPlace(b, method, continue.st)))
  IN  after(IF type = "ForLoop" /\ method # "MergeToSelectContinueForLoop"
            THEN EmitContinueBlock(blocks[b].continue_block, blocks[b].continue_block, "none", st0)
            ELSE Nothing(st0))

\* A do-while's test must not need statements of its own.
DoWhileLoop(b, body) ==
  LET c == blocks[b].continue_block
      positive == ExecutionIsNoop(blocks[c].true_block, loop_dominator[c])
      test == EmitContinueBlock(c, c, IF positive THEN "true" ELSE "false", body.st)
      trivial == Statements(c) = << >>
  IN  Say(Loop("body", test.code, c, IF positive THEN {1} ELSE {0}, << >>, body.code),
          IF trivial THEN test.st
          ELSE ForceRecompile([test.st EXCEPT !.complex_continue = @ \cup {c}]))

-------------------------------------------------------------------------------
(* Switches *)

\* The blocks of the labels, in order, and the default where it falls through.
CaseBlocks(b) ==
  LET others == SelectSeq(blocks[b].cases, LAMBDA c : c.block \notin {blocks[b].next_block, blocks[b].default_block})
      order == Distinct([k \in DOMAIN others |-> others[k].block], {})
      default == blocks[b].default_block
      meets == {k \in DOMAIN order : DirectTo(order[k], default) \/ DirectTo(default, order[k])}
      first == CHOOSE k \in meets : \A l \in meets : k <= l
  IN  IF default = blocks[b].next_block THEN order
      ELSE IF meets = {} THEN Append(order, default)
      ELSE InsertAt(order, IF DirectTo(order[first], default) THEN first + 1 ELSE first, default)

Labels(b, t) ==
  IF t = blocks[b].default_block THEN {}
  ELSE {blocks[b].cases[k].value : k \in {l \in DOMAIN blocks[b].cases : blocks[b].cases[l].block = t}}
AllLabels(b) == UNION {Labels(b, t) : t \in Range(CaseBlocks(b))}
\* Labels that lead to the merge block though there is a default.
LiteralsToMerge(b) ==
  IF blocks[b].default_block = blocks[b].next_block THEN {} ELSE Labels(b, blocks[b].next_block)

\* A case that is entered from the case before it, too, has its phis written ahead.
EmitPhisAhead(b, st0) ==
  LET order == CaseBlocks(b)
      write(r, i) ==
        LET t == order[i]
            unmarked == [r.st EXCEPT !.ignore_phi_from_block[t] = 0]
            marked == [r.st EXCEPT !.ignore_phi_from_block[t] = b]
            flush == FlushPhi(b, t, unmarked).code
        IN  IF ~(FlushPhiRequired(b, t) /\ FlushPhiRequired(order[i - 1], t)) THEN r
            ELSE [code |-> Append(r.code,
                    IF Labels(b, t) = {}
                    THEN [k |-> "if", block |-> b, values |-> AllLabels(b), then |-> << >>, else |-> flush]
                    ELSE [k |-> "if", block |-> b, values |-> Labels(b, t), then |-> flush, else |-> << >>]),
                  st |-> marked]
  IN  FoldLeft(write, Nothing(st0), [i \in 1 .. Len(order) - 1 |-> i + 1])

AddArm(b, t, r, case) ==
  [arms |-> Append(r.arms, [labels |-> Labels(b, t), default |-> t = blocks[b].default_block, code |-> case.code]),
   st |-> [case.st EXCEPT !.fallthrough = FALSE]]

EmitCases(b, st0) ==
  LET order == CaseBlocks(b)
      falls(i) == i < Len(order) /\ DirectTo(order[i], order[i + 1])
      write(r, i) == AddArm(b, order[i], r, Branch(b, order[i], [r.st EXCEPT !.fallthrough = falls(i)]))
      toMerge == blocks[b].default_block = blocks[b].next_block
      last == [labels |-> LiteralsToMerge(b), default |-> toMerge,
               code |-> Append(FlushPhi(b, blocks[b].next_block, st0).code, Break)]
      lastNeeded == LiteralsToMerge(b) # {} \/ (toMerge /\ FlushPhiRequired(b, blocks[b].next_block))
      close(r) == IF lastNeeded THEN [r EXCEPT !.arms = Append(@, last)] ELSE r
  IN  close(FoldLeft(write, [arms |-> << >>, st |-> st0], [i \in DOMAIN order |-> i]))

\* A switch without labels is a loop that runs once.  The ladder is declared before it if
\* an earlier pass has found it needed, and tested behind it if this one has.
EmitSwitch(b, st0) ==
  LET loopLike == blocks[b].cases = << >>
      collapsed == loopLike /\ blocks[b].default_block = blocks[b].next_block
      cleared == IF b \in st0.need_ladder_break
                 THEN <<[k |-> "ladder", switch |-> b, value |-> FALSE]>> ELSE << >>
      switch(cases) == IF collapsed THEN FlushPhi(b, blocks[b].next_block, cases.st).code
                       ELSE <<[k |-> "switch", block |-> b, loopLike |-> loopLike, arms |-> cases.arms]>>
      further(st) == IF b \in st.need_ladder_break
                     THEN <<[k |-> "ifladder", switch |-> b, then |-> <<Break>>]>> ELSE << >>
      popped(st) == [st EXCEPT !.switches = SubSeq(@, 1, Len(@) - 1)]
      left(st) == IF blocks[b].merge = "None" THEN Throw("Switch statement is not structured", st) ELSE st
      after(ahead, cases) == [code |-> cleared \o ahead.code \o switch(cases) \o further(cases.st),
                              st |-> left(popped(cases.st))]
      into(ahead) == after(ahead, EmitCases(b, ahead.st))
  IN  into(EmitPhisAhead(b, [st0 EXCEPT !.switches = Append(@, b)]))

-------------------------------------------------------------------------------
(* Blocks *)

\* A return at the end of the function is left out.
ReturnNeeded(b) == ~TerminatesControlFlow(entry_block, b) \/ loop_dominator[b] # NoDominator

\* A case that ends in unreachable code must not seem to fall through.
InnerDominatorIsSwitch(b) ==
  LET around(a) ==
        LET out == IF blocks[a].merge = "Loop" THEN blocks[a].merge_block ELSE blocks[a].next_block
        IN  /\ blocks[a].terminator = "MultiSelect" \/ blocks[a].merge = "Loop"
            /\ ~(out # 0 /\ FindCommonDominator(out, b) = out)
      inner[a \in Block] ==
        IF around(a) THEN blocks[a].terminator = "MultiSelect"
        ELSE EdgesOf(preceding_edges, a) # << >> /\ inner[immediate_dominators[a]]
  IN  inner[b]

Chained(r, next) == [code |-> r.code, st |-> r.st, next |-> next]

\* The block that comes after this one on the same level, unless it is left by
\* break or continue, or is the next case.
Trail(b, r) ==
  LET next == blocks[b].next_block
      onward(flushed) ==
        CASE flushed.st.fallthrough -> Chained(flushed, 0)
          [] ~flushed.st.fallthrough /\ IsLoopBreak(next) -> Chained(Then(flushed, LAMBDA st : Say(Break, st)), 0)
          [] OTHER ->
               IF IsContinue(next) THEN Chained(Then(flushed, LAMBDA st : BranchToContinue(b, next, st)), 0)
               ELSE IF b = next THEN Chained(flushed, 0)
               ELSE IF blocks[b].merge = "Loop" THEN Chained(Then(flushed, LAMBDA st : EmitBlockChain(next, st)), 0)
               ELSE Chained(flushed, next)
  IN  IF next = 0 THEN Chained(r, 0)
      ELSE onward(Then(r, LAMBDA st : IF blocks[b].merge = "Selection" THEN Nothing(st) ELSE FlushPhi(b, next, st)))

\* A direct branch to a block that is not written behind this one.
JumpsAway(b) ==
  LET next == blocks[b].next_block
  IN  loop_dominator[b] = next \/ IsContinue(next) \/ IsBreak(next) \/ IsConditional(next)

EmitTerminator(b, st) ==
  LET terminator == blocks[b].terminator
  IN  CASE terminator = "Direct" -> IF JumpsAway(b) THEN Branch(b, blocks[b].next_block, st) ELSE Nothing(st)
        [] terminator = "Select" -> BranchOnCondition(b, st)
        [] terminator = "MultiSelect" -> EmitSwitch(b, st)
        [] terminator = "Return" -> IF ReturnNeeded(b) THEN Say(Ends("Return"), st) ELSE Nothing(st)
        [] terminator = "Unreachable" -> IF InnerDominatorIsSwitch(b) THEN Say(Break, st) ELSE Nothing(st)
        [] OTHER -> Say(Ends(terminator), st)

GoesOn(b) == blocks[b].terminator \in {"Select", "MultiSelect"} \/ (blocks[b].terminator = "Direct" /\ ~JumpsAway(b))
EmitEnd(b, st) ==
  LET after(r) == IF GoesOn(b) THEN Trail(b, r) ELSE Chained(r, 0)
  IN  after(EmitTerminator(b, st))

EmitBlock(b, st) ==
  LET behind(body) == [EmitEnd(b, body.st) EXCEPT !.code = body.code \o @]
  IN  behind(EmitBlockInstructions(b, st))

\* What follows a loop.
AfterLoop(b, r) ==
  LET merge == blocks[b].merge_block
  IN  IF IsContinue(merge) THEN Chained(Then(r, LAMBDA st : BranchToContinue(b, merge, st)), 0)
      ELSE Chained(r, merge)

\* Loop variables that got no loop become variables again.
WithoutLoopVariables(b, st) ==
  IF loop_variables[b] # {} /\ b \notin st.no_loop_variables
  THEN ForceRecompile([st EXCEPT !.progress = TRUE, !.no_loop_variables = @ \cup {b}]) ELSE st

\* A loop whose header has failed is written as something that the next pass replaces.
EmitLoop(b, type, method, st) ==
  LET complex == [st EXCEPT !.complex_continue = @ \cup {blocks[b].continue_block}]
      endless(code_) == Loop("body", << >>, 0, {}, << >>, code_)
      around(body) == CASE type = "DoWhileLoop" -> DoWhileLoop(b, body)
                        [] type # "DoWhileLoop" /\ method = "none" -> Around(body, endless)
                        [] OTHER -> Nothing(body.st)
  IN  IF method # "none" /\ HeaderSucceeds(b, method, type) THEN TestedLoop(b, method, type, st)
      ELSE around(IF method # "none" THEN EmitEnd(b, WithoutLoopVariables(b, HeaderFails(b, st)))
                  ELSE EmitBlock(b, IF type = "DoWhileLoop" THEN st ELSE complex))

EmitBlockChainInner(b, st0) ==
  LET type == ContinueBlockType(blocks[b].continue_block, st0)
      st == IF type = "ComplexLoop" THEN [st0 EXCEPT !.complex_continue = @ \cup {b}] ELSE st0
  IN  IF blocks[b].merge = "Loop" THEN AfterLoop(b, EmitLoop(b, type, MethodOf(b, st), st)) ELSE EmitBlock(b, st0)

FollowChain(r) == Then(r, LAMBDA st : IF r.next = 0 THEN Nothing(st) ELSE EmitBlockChain(r.next, st))
EmitBlockChain(b, st) == FollowChain(EmitBlockChainInner(b, st))

-------------------------------------------------------------------------------
(* compile(): pass after pass, until one has found nothing to do differently *)

MaxPasses == 3   \* force_recompile_max_debug_iterations

Written(r) ==
  /\ code' = r.code /\ emission' = r.st /\ passes' = passes + 1
  /\ phase' = IF r.st.thrown # None THEN "failed" ELSE IF r.st.forcing THEN "scoped" ELSE "emitted"
  /\ error' = r.st.thrown

\* The checks at the start of a pass come from the one before.  A loop that lost its
\* header to a bogus conditional is beyond these definitions: LeadsThrough has no end.
EmitGlsl ==
  /\ phase = "scoped" /\ Collapsed = {}
  /\ IF passes >= MaxPasses /\ ~emission.progress
     THEN /\ phase' = "failed"
          /\ error' = "Maximum compilation loops detected and no forward progress was made."
          /\ UNCHANGED emitting
     ELSE Written(EmitBlockChain(entry_block, Fresh(emission)))
  /\ UNCHANGED <<spirv, ir, parsing, cfg, scope>>
================================================================================
