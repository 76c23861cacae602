------------------------------ MODULE VariableScope ------------------------------
(***************************************************************************)
(* Where the variables of a function are declared (spirv_cross.cpp,        *)
(* analyze_variable_scope): SPIR-V declares them all at the top, the GLSL  *)
(* that is written declares each one in the block that dominates its uses. *)
(* A block is inside of a loop's braces or outside of them: a variable     *)
(* that is declared inside is a new one in every iteration.                *)
(***************************************************************************)
EXTENDS ControlFlow

\* No loop around a block; 0 is for blocks that were not analysed.
NoDominator == -1

VARIABLES
  preserved,       \* the parameters that need their value from the caller
  loop_dominator,  \* by block
  dominator,       \* by variable: the block that declares it, 0 for dead code
  potential_loop_variables,  \* by variable: the continue block that uses it
  loop_variables   \* by header: those that its for loop declares

scope == <<preserved, loop_dominator, dominator, potential_loop_variables, loop_variables>>

ScopeInit ==
  /\ preserved = {} /\ loop_dominator = [b \in Block |-> 0] /\ dominator = << >>
  /\ potential_loop_variables = << >> /\ loop_variables = [b \in Block |-> {}]

FuncBlocks == Range(Func.blocks)
IsContinue(block) == "CONTINUE" \in block_meta[block]

-------------------------------------------------------------------------------
(* AnalyzeVariableScopeAccessHandler *)

\* Instructions that name a variable.  A partial store goes through an access chain.
Reads  == {"Load", "PartialStore"}
Writes == {"Store"}

OpsOn(block, v) ==
  {k \in 1 .. Len(blocks[block].ops) : /\ blocks[block].ops[k].op \in Reads \cup Writes
                                       /\ blocks[block].ops[k].var = v}
FirstOp(block, v) == blocks[block].ops[CHOOSE k \in OpsOn(block, v) : \A l \in OpsOn(block, v) : k <= l].op

\* A branch from a phi's parent writes it there, and the target reads it.
PhiEdges(v) ==
  {e \in FuncBlocks \X FuncBlocks :
     e[2] \in Range(Targets(e[1])) /\
       \E k \in DOMAIN blocks[e[2]].phi_variables :
         blocks[e[2]].phi_variables[k] = [parent |-> e[1], function_variable |-> v]}

accessed_variables_to_block(v) ==
  {b \in FuncBlocks : OpsOn(b, v) # {} \/ \E e \in PhiEdges(v) : b \in {e[1], e[2]}}
complete_write_variables_to_block(v) ==
  {b \in FuncBlocks : \E k \in OpsOn(b, v) : blocks[b].ops[k].op \in Writes}

-------------------------------------------------------------------------------
(* analyze_parameter_preservation *)

\* A block with no edge onwards is taken for the end.
ExistsUnaccessedPathToReturn(written) ==
  LET open == {b \in DOMAIN visit_order : b \notin written}
      edges == {e \in open \X open : e[2] \in Range(EdgesOf(succeeding_edges, e[1]))}
  IN  entry_block \in open /\
        \E b \in Reaches(edges, {entry_block}, 0) : EdgesOf(succeeding_edges, b) = << >>

MustPreserve(v) == ExistsUnaccessedPathToReturn(complete_write_variables_to_block(v))

AnalyzeParameterPreservation ==
  /\ phase = "walked"
  /\ preserved' = {v \in Range(Func.arguments) : accessed_variables_to_block(v) # {} /\ MustPreserve(v)}
  /\ phase' = "preserved"
  /\ UNCHANGED <<spirv, error, ir, parsing, cfg, loop_dominator, dominator, potential_loop_variables, loop_variables>>

-------------------------------------------------------------------------------
(* The loop around a block *)

\* From a merge block straight to its header; else any edge backwards will do.
\* The header that a loop's merge block leads to is not around the block.
IsMergeOf(block, header) ==
  \/ blocks[header].merge = "Loop" /\ blocks[header].merge_block = block
  \/ blocks[header].merge = "Selection" /\ blocks[header].next_block = block

FindLoopDominator(block) ==
  LET find[b \in Block] ==
        LET edges == EdgesOf(preceding_edges, b)
            headers == Distinct(edges, {p \in Range(edges) : ~IsMergeOf(b, p)})
            pred == IF headers # << >> THEN headers[1] ELSE edges[1]
        IN  IF edges = << >> THEN NoDominator
            ELSE IF blocks[pred].merge = "Loop" /\ ~(headers # << >> /\ blocks[pred].merge_block = b)
            THEN pred
            ELSE find[pred]
  IN  find[block]

LoopDominator(block) ==
  IF /\ block \in DOMAIN continue_block_to_loop_header
     /\ continue_block_to_loop_header[block] # block
  THEN continue_block_to_loop_header[block]
  ELSE FindLoopDominator(block)

FindLoopDominators ==
  /\ phase = "preserved"
  /\ loop_dominator' = [b \in Block |-> IF b \in FuncBlocks THEN LoopDominator(b) ELSE 0]
  /\ phase' = "loops"
  /\ UNCHANGED <<spirv, error, ir, parsing, cfg, preserved, dominator, potential_loop_variables, loop_variables>>

-------------------------------------------------------------------------------
(* The block that declares a variable *)

\* A continue block declares nothing: it is the end of a loop's header.
WithHeaders(used) == used \cup {continue_block_to_loop_header[b] : b \in {c \in used : IsContinue(c)}}

LiftContinueBlockDominator(block) ==
  IF block # 0 /\ \E t \in Range(Targets(block)) : visit_order[t] > visit_order[block]
  THEN entry_block ELSE block

\* The first access of the block that declares it may read the variable; a block
\* without an access is taken to do so in its branch.
MayReadUndefinedVariableInBlock(block, v) ==
  OpsOn(block, v) = {} \/ FirstOp(block, v) \in Reads

\* A value may have to live through an iteration: the variable is declared
\* outside of all loops.  Phis are written before they are read.
OutermostLoop(block) ==
  LET out[b \in DOMAIN visit_order] == IF loop_dominator[b] = NoDominator THEN b ELSE out[loop_dominator[b]]
  IN  out[block]

\* Mutant: a variable is declared where it is used first.
DeclaredAtUse(v, block) == block
PreservedAcrossIterations(v, block) ==
  IF block = 0 \/ locals[v].phi_variable \/ ~MayReadUndefinedVariableInBlock(block, v) THEN block
  ELSE FindCommonDominator(OutermostLoop(block), block)

Lifted(v) == LiftContinueBlockDominator(DominatorOf(WithHeaders(accessed_variables_to_block(v))))

\* One continue block uses it, and none that comes after the declaring loop.
ContinueCandidate(v, declared) ==
  LET continues == {b \in accessed_variables_to_block(v) : IsContinue(b)}
      merge == IF blocks[declared].merge = "Loop" THEN blocks[declared].merge_block
               ELSE IF loop_dominator[declared] # NoDominator
               THEN blocks[loop_dominator[declared]].merge_block ELSE 0
  IN  {b \in continues :
         /\ Cardinality(continues) = 1
         /\ merge # 0 /\ IsReachable(merge) => IsReachable(b) /\ visit_order[merge] <= visit_order[b]}

AnalyzeVariables ==
  /\ phase = "loops"
  /\ LET used == {v \in Range(Func.local_variables) : accessed_variables_to_block(v) # {}}
     IN  /\ dominator' = [v \in used |-> PreservedAcrossIterations(v, Lifted(v))]
         /\ potential_loop_variables' =
              [v \in {w \in used : Lifted(w) # 0 /\ ContinueCandidate(w, Lifted(w)) # {}} |->
                 CHOOSE b \in ContinueCandidate(v, Lifted(v)) : TRUE]
  /\ phase' = "variables"
  /\ UNCHANGED <<spirv, error, ir, parsing, cfg, preserved, loop_dominator, loop_variables>>

-------------------------------------------------------------------------------
(* Loop variables *)

\* The blocks from the declaring one to the header, if there is no other way.
StraightTo(header, from) ==
  LET line[b \in Block] ==
        LET succ == EdgesOf(succeeding_edges, b)
        IN  IF b = header THEN {b}
            ELSE IF Len(succ) = 1 /\ preceding_edges[succ[1]] = <<b>> /\ line[succ[1]] # {}
            THEN {b} \cup line[succ[1]]
            ELSE {}
  IN  line[from]

\* Used before the loop or in its header, and not after its merge block.
BecomesLoopVariable(v, header, line) ==
  /\ line \cap accessed_variables_to_block(v) # {}
  /\ LET edges == {e \in Block \X Block : e[2] \in Range(EdgesOf(succeeding_edges, e[1]))}
     IN  Reaches(edges, {blocks[header].merge_block}, 0) \cap accessed_variables_to_block(v) = {}

FindLoopVariables ==
  /\ phase = "variables"
  /\ LET header(v) == continue_block_to_loop_header[potential_loop_variables[v]]
         found == {v \in DOMAIN potential_loop_variables :
                     BecomesLoopVariable(v, header(v), StraightTo(header(v), dominator[v]))}
     IN  loop_variables' = [b \in Block |-> {v \in found : header(v) = b}]
  /\ phase' = "scoped"
  /\ UNCHANGED <<spirv, error, ir, parsing, cfg, preserved, loop_dominator, dominator, potential_loop_variables>>

AnalyzeVariableScope ==
  AnalyzeParameterPreservation \/ FindLoopDominators \/ AnalyzeVariables \/ FindLoopVariables

-------------------------------------------------------------------------------
(* Properties *)

Scoped == phase = "scoped"
Reachable == DOMAIN visit_order
Accesses(v) == accessed_variables_to_block(v) \cap Reachable

\* A loop's variables are declared before it, so its back edges do not come by.
Declares(v, e) ==
  /\ e[2] = dominator[v]
  /\ blocks[e[2]].merge = "Loop" => ~Dominates(e[2], e[1])

\* The blocks that see the value a variable has when control enters some block,
\* because nothing on the way there overwrites it.
SeenFrom(v, block) ==
  LET open == Reachable \ complete_write_variables_to_block(v)
  IN  Reaches({e \in AllEdges : e[1] \in open}, {block}, 0)
ReadsFirst(v, block) == OpsOn(block, v) # {} /\ FirstOp(block, v) \in Reads
Changes(v) ==
  {b \in Reachable : \E k \in OpsOn(b, v) : blocks[b].ops[k].op \in {"Store", "PartialStore"}}

\* A value that is read is never separated from its write by a declaration.
ValueSurvives(v) ==
  \A e \in AllEdges :
    Declares(v, e) /\ e[1] \in Reaches(AllEdges, Changes(v), 0) =>
      \A b \in SeenFrom(v, e[2]) : ~ReadsFirst(v, b)

\* After the loop of a loop variable the variable is declared anew before it is used.
LoopVariableIsLocal(v, header) ==
  Accesses(v) \cap Reaches(AllEdges, {blocks[header].merge_block}, dominator[v]) = {}

\* The caller's value of a parameter is seen by the caller or by a read.
CallersValueNeeded(v) ==
  \E b \in SeenFrom(v, entry_block) :
    blocks[b].terminator = "Return" /\ b \notin complete_write_variables_to_block(v)

\* Every variable that is used is declared in a block that all of its uses go
\* through.
DeclaredAboveUses ==
  \A v \in Range(Func.local_variables) : Accesses(v) # {} =>
    /\ v \in DOMAIN dominator /\ dominator[v] \in Reachable
    /\ \A b \in Accesses(v) : Dominates(dominator[v], b)

\* A parameter that some way through the function leaves as it was is marked as
\* preserved.
ParametersPreserved ==
  \A v \in Range(Func.arguments) :
    Accesses(v) # {} /\ CallersValueNeeded(v) => v \in preserved

\* The loops, and the blocks of each: those that its header dominates and its
\* merge block does not.
LoopHeaders == {h \in Reachable : blocks[h].merge = "Loop"}
Inside(h) == DominatedBy(AllEdges, h) \ DominatedBy(AllEdges, blocks[h].merge_block)

\* SPIR-V's own rules for the flow of control, which nothing here looks after.
\* Branches stay in the function.  A loop is entered by its header and left for its
\* merge block, which it shares with no other header and which comes behind it; what
\* goes backwards goes from inside of a loop to its header.  A block that returns is
\* no header.  A continue block is in the loop that it continues, and is not the
\* header; it is one block, that branches back.
LoopsStructured ==
  /\ Reachable \subseteq FuncBlocks
  /\ \A h \in LoopHeaders :
       LET merge  == blocks[h].merge_block
           inside == Inside(h)
       IN  /\ merge # h /\ Dominates(h, merge)
           /\ \A p \in Reachable : IsMergeOf(merge, p) => p = h
           /\ \A e \in AllEdges : e[2] \in inside \ {h} => e[1] \in inside
           /\ \A e \in AllEdges : e[1] \in inside => e[2] \in inside \cup {merge}
  /\ \A e \in AllEdges : e[2] \notin Range(EdgesOf(succeeding_edges, e[1])) =>
       e[2] \in LoopHeaders /\ e[1] \in Inside(e[2])
  /\ \A b \in Reachable : blocks[b].terminator = "Return" => blocks[b].merge = "None"
  /\ \A c \in DOMAIN continue_block_to_loop_header :
       LET h == continue_block_to_loop_header[c]
       IN  /\ h \in Reachable => h \in LoopHeaders
           /\ c \in Reachable => h = c \/ (c \in Inside(h) /\ h \in Range(Targets(c)))
  /\ \A c \in FuncBlocks : IsContinue(c) =>
       c \in DOMAIN continue_block_to_loop_header /\ continue_block_to_loop_header[c] # c

\* Declarations are above all uses, and no loop, jump or continue block can bring
\* control from a write over a declaration to a read: not with declarations moved
\* into loops, not for variables that become a for loop's own.  Parameters keep
\* their values where they have to.
ScopesSound ==
  Scoped =>
    /\ DeclaredAboveUses /\ ParametersPreserved
    /\ \A v \in Range(Func.local_variables) : Accesses(v) # {} =>
         ~IsContinue(dominator[v]) /\ (~locals[v].phi_variable => ValueSurvives(v))
    /\ \A h \in Block : \A v \in loop_variables[h] : LoopVariableIsLocal(v, h)
================================================================================
