------------------------------- MODULE ControlFlow -------------------------------
(***************************************************************************)
(* SPIRV-Cross's CFG of a function (spirv_cfg.cpp): a depth-first walk     *)
(* from the entry block with a stack of its own, which records the edges   *)
(* that are not back edges and the order in which blocks are left, and the *)
(* tree of immediate dominators made from them.                            *)
(***************************************************************************)
EXTENDS SpirvParser

VARIABLES
  visit_stack,
  visited_branches,     \* the blocks whose targets are on the stack, or were
  visit_order,          \* by block that is resolved: its number
  post_order,           \* those blocks, in order
  preceding_edges,      \* by block: where it is entered from
  succeeding_edges,     \* by block: where it goes to
  immediate_dominators  \* by block

cfg == <<visit_stack, visited_branches, visit_order, post_order, preceding_edges,
         succeeding_edges, immediate_dominators>>

CfgInit ==
  /\ visit_stack = << >> /\ visited_branches = {} /\ visit_order = << >> /\ post_order = << >>
  /\ preceding_edges = << >> /\ succeeding_edges = << >> /\ immediate_dominators = << >>

Func == functions[default_entry_point]
entry_block == Func.entry_block

\* The entry of a map of lists: an empty one where there is none.
EdgesOf(edges, block) == IF block \in DOMAIN edges THEN edges[block] ELSE << >>
AddUnique(list, value) == IF value \in Range(list) THEN list ELSE Append(list, value)

\* What is listed, each once, but for some of it.
Distinct(s, but) ==
  LET upto[n \in 0 .. Len(s)] ==
        IF n = 0 THEN << >>
        ELSE IF s[n] \in but THEN upto[n - 1] ELSE AddUnique(upto[n - 1], s[n])
  IN  upto[Len(s)]

\* Where the end of a block leads, in the order of the walk.
Targets(block) ==
  LET b == blocks[block]
  IN  CASE b.terminator = "Direct" -> <<b.next_block>>
        [] b.terminator = "Select" -> <<b.true_block, b.false_block>>
        [] b.terminator = "MultiSelect" -> Append([k \in DOMAIN b.cases |-> b.cases[k].block], b.default_block)
        [] OTHER -> << >>

LoopMergeOf(block)  == IF blocks[block].merge = "Loop" THEN <<blocks[block].merge_block>> ELSE << >>
MergeTargets(block) ==
  IF blocks[block].merge = "Selection" THEN <<blocks[block].next_block>> ELSE LoopMergeOf(block)

\* The entry point must have a body.
StartCfg ==
  /\ phase = "parsed"
  /\ IF default_entry_point \in DOMAIN functions /\ entry_block # 0
     THEN phase' = "walk" /\ error' = error /\ visit_stack' = <<entry_block>>
     ELSE phase' = "failed" /\ error' = "nullptr" /\ UNCHANGED visit_stack
  /\ UNCHANGED <<spirv, ir, parsing, visited_branches, visit_order, post_order, preceding_edges,
                 succeeding_edges, immediate_dominators>>

-------------------------------------------------------------------------------
(* The walk *)

ToVisit == visit_stack[Len(visit_stack)]
Walking == phase = "walk" /\ visit_stack # << >>

\* A branch to a block that is no block throws.
Dangling(block) == \E t \in Range(MergeTargets(block) \o Targets(block)) : t \notin DOMAIN blocks

\* post_order_visit_branches: the targets go on the stack so that the first is on
\* top, merge blocks before the others.
Branches(block, but) == Distinct(MergeTargets(block) \o Targets(block), but)

VisitBranches ==
  /\ Walking /\ ToVisit \notin visited_branches /\ ~Dangling(ToVisit)
  /\ LET seen == visited_branches \cup {ToVisit}
     IN  /\ visited_branches' = seen
         /\ visit_stack' = visit_stack \o Reverse(Branches(ToVisit, seen))
  /\ UNCHANGED <<spirv, phase, error, ir, parsing, visit_order, post_order, preceding_edges,
                 succeeding_edges, immediate_dominators>>

VisitThrows ==
  /\ Walking /\ ToVisit \notin visited_branches /\ Dangling(ToVisit)
  /\ phase' = "failed" /\ error' = "nullptr"
  /\ UNCHANGED <<spirv, ir, parsing, cfg>>

\* Visited, and not resolved: the walk came here through these blocks.
Unresolved == visited_branches \ DOMAIN visit_order
IsBackEdge(to) == to \in Unresolved

Preceded(edges, from, tos) ==
  [b \in DOMAIN edges \cup Range(tos) |->
     IF b \in Range(tos) THEN AddUnique(EdgesOf(edges, b), from) ELSE edges[b]]

\* The edges of a block: the merge block of a loop first, as if the header went there.
ForwardEdges(block) == Distinct(LoopMergeOf(block) \o Targets(block), Unresolved)

\* A selection gets an edge to its merge block, too, if a branch could else be
\* taken for the merge block's dominator, or if nothing goes there.
NeedsMergeEdge(block) ==
  LET b == blocks[block]
      entered == EdgesOf(Preceded(preceding_edges, block, ForwardEdges(block)), b.next_block)
  IN  /\ b.merge = "Selection" /\ ~IsBackEdge(b.next_block)
      /\ \/ entered = << >>
         \/ b.terminator = "MultiSelect" /\ Len(ForwardEdges(block)) = 1
         \/ /\ ~(b.terminator = "MultiSelect" /\ Len(ForwardEdges(block)) = 1)
            /\ Len(entered) = 1 /\ entered[1] # block

Edges(block) ==
  IF NeedsMergeEdge(block) THEN AddUnique(ForwardEdges(block), blocks[block].next_block)
  ELSE ForwardEdges(block)

\* post_order_visit_resolve, and nothing the second time.
Resolve ==
  /\ Walking /\ ToVisit \in visited_branches
  /\ IF ToVisit \in DOMAIN visit_order
     THEN UNCHANGED <<visit_order, post_order, preceding_edges, succeeding_edges>>
     ELSE /\ preceding_edges' = Preceded(preceding_edges, ToVisit, Edges(ToVisit))
          /\ succeeding_edges' = IF Edges(ToVisit) = << >> THEN succeeding_edges
                                 ELSE Extended(succeeding_edges, ToVisit, Edges(ToVisit))
          /\ post_order' = Append(post_order, ToVisit)
          /\ visit_order' = Extended(visit_order, ToVisit, Len(post_order) + 1)
  /\ visit_stack' = SubSeq(visit_stack, 1, Len(visit_stack) - 1)
  /\ UNCHANGED <<spirv, phase, error, ir, parsing, visited_branches, immediate_dominators>>

-------------------------------------------------------------------------------
(* Dominators *)

\* The common ancestor in a tree of dominators.
CommonDominator(dominators, x, y) ==
  LET meet[pair \in (DOMAIN dominators) \X (DOMAIN dominators)] ==
        LET a == pair[1]
            b == pair[2]
        IN  IF a = b THEN a
            ELSE IF visit_order[a] < visit_order[b] THEN meet[<<dominators[a], b>>]
            ELSE meet[<<a, dominators[b]>>]
  IN  meet[<<x, y>>]

\* Mutant: the first edge decides.
FirstEdge(dominators, edges) == edges[1]
Dominating(dominators, edges) ==
  LET common[n \in 1 .. Len(edges)] ==
        IF n = 1 THEN edges[1] ELSE CommonDominator(dominators, common[n - 1], edges[n])
  IN  common[Len(edges)]

\* Blocks in reverse post order, which are those that have dominators first.
Dominators ==
  LET known[n \in 0 .. Len(post_order)] ==
        LET block  == Reverse(post_order)[n]
            before == known[n - 1]
        IN  IF n = 0 THEN [b \in {entry_block} |-> entry_block]
            ELSE IF EdgesOf(preceding_edges, block) = << >> THEN before
            ELSE Extended(before, block, Dominating(before, preceding_edges[block]))
  IN  known[Len(post_order)]

BuildImmediateDominators ==
  /\ phase = "walk" /\ visit_stack = << >>
  /\ immediate_dominators' = Dominators
  /\ phase' = "walked"
  /\ UNCHANGED <<spirv, error, ir, parsing, visit_stack, visited_branches, visit_order, post_order,
                 preceding_edges, succeeding_edges>>

BuildCfg == StartCfg \/ VisitBranches \/ VisitThrows \/ Resolve \/ BuildImmediateDominators

\* What the analyses ask of the CFG.
ImmediateDominator(block) == IF block \in DOMAIN immediate_dominators THEN immediate_dominators[block] ELSE 0
IsReachable(block) == block \in DOMAIN visit_order
FindCommonDominator(a, b) == CommonDominator(immediate_dominators, a, b)

\* DominatorBuilder: blocks that the walk did not reach do not count.
DominatorOf(set) ==
  LET counted == {b \in set : ImmediateDominator(b) # 0}
      added == Distinct(post_order, DOMAIN visit_order \ counted)
  IN  IF added = << >> THEN 0 ELSE Dominating(immediate_dominators, added)

-------------------------------------------------------------------------------
(* Properties *)

Walked == phase = "walked"

\* All a function's edges, the implied ones and the back edges among them.
AllEdges == {e \in (DOMAIN visit_order) \X Block :
               e[2] \in Range(Targets(e[1])) \/ e[2] \in Range(EdgesOf(succeeding_edges, e[1]))}

\* What can be reached from some blocks by edges that do not enter a given one.
Reaches(edges, from, avoided) ==
  LET seen[n \in 0 .. Cardinality(DOMAIN blocks)] ==
        LET before == seen[n - 1]
        IN  IF n = 0 THEN from \ {avoided}
            ELSE before \cup {e[2] : e \in {d \in edges : d[1] \in before /\ d[2] # avoided}}
  IN  seen[Cardinality(DOMAIN blocks)]

DominatedBy(edges, a) == DOMAIN visit_order \ Reaches(edges, {entry_block}, a)
Dominates(a, b) == b \in DominatedBy(AllEdges, a)

\* Every edge that is left out goes to a block that dominates its source.
Reducible ==
  \A e \in AllEdges : e[2] \notin Range(EdgesOf(succeeding_edges, e[1])) => Dominates(e[2], e[1])

\* The dominators of a block up to the entry block.
Ancestors(block) ==
  Reaches({<<a, immediate_dominators[a]>> : a \in DOMAIN immediate_dominators}, {block}, 0)

\* The walk resolves every block that can be reached, or merged to, exactly once
\* and after all it has edges to; each but the entry block has an edge that leads
\* to it, and so an immediate dominator that comes later in the order.  In a
\* reducible function, as HLSL makes them, the tree is exact although back edges
\* are left out and edges to merge blocks made up.
DominatorsExact ==
  Walked =>
    /\ \A k, l \in DOMAIN post_order : k # l => post_order[k] # post_order[l]
    /\ Reaches(AllEdges, {entry_block}, 0) = DOMAIN visit_order
    /\ DOMAIN immediate_dominators = DOMAIN visit_order
    /\ \A b \in DOMAIN visit_order :
         /\ \A t \in Range(EdgesOf(succeeding_edges, b)) : visit_order[t] < visit_order[b]
         /\ b # entry_block => visit_order[immediate_dominators[b]] > visit_order[b]
    /\ Reducible => LET edges == AllEdges
                    IN  \A a \in DOMAIN visit_order :
                          DominatedBy(edges, a) = {b \in DOMAIN visit_order : a \in Ancestors(b)}
================================================================================
