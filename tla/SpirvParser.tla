------------------------------ MODULE SpirvParser ------------------------------
(***************************************************************************)
(* SPIRV-Cross's Parser (spirv_parser.cpp), which every GLSL and GLSL ES   *)
(* translation begins with: one instruction after the other becomes a      *)
(* function, a block, a part of a block, or an entry in the tables that    *)
(* say what a block is to the others.                                      *)
(*                                                                         *)
(* Blocks, functions and variables are numbers, 0 is none.  Types,         *)
(* constants, names and decorations are left out: no instruction that is   *)
(* kept here looks at them.                                                *)
(***************************************************************************)
EXTENDS Integers, FiniteSets, SequencesExt

CONSTANTS
  Block,     \* the ids of blocks
  None,      \* no error
  Modules    \* the modules considered: sequences of instructions

ASSUME BlockAssumption == Block \subseteq Nat \ {0}

\* What CompilerError says.
Messages ==
  {"Must end a function before starting a new one!", "Must be in a function!",
   "No function currently in scope", "Cannot end a function before ending the current block.",
   "Cannot start a block before ending the current block.", "No block currently in scope",
   "Function was not terminated.", "Block was not terminated.",
   "There is no entry point in the SPIR-V module."}
ASSUME NoneAssumption == None \notin Messages

\* Labels are blocks' ids, and no function's id is another's; a switch has a list
\* of cases.
ASSUME ModulesAssumption ==
  \A m \in Modules :
    /\ DOMAIN m = 1 .. Len(m)
    /\ \A k \in DOMAIN m : m[k].op = "Label" => m[k].id \in Block
    /\ \A k \in DOMAIN m : m[k].op = "Function" => m[k].id \in Nat \ {0}
    /\ \A k \in DOMAIN m : m[k].op = "Switch" => m[k].cases \in Seq(Range(m[k].cases))
    /\ \A k, l \in DOMAIN m : m[k].op = "Function" /\ m[l].op = "Function" /\ m[k].id = m[l].id => k = l

VARIABLES
  spirv,                          \* the module's instructions
  offset,                         \* the next one
  phase,                          \* what runs: the parser, or what follows it
  error,                          \* what CompilerError says
  functions,                      \* by id
  blocks,                         \* by id
  locals,                         \* the variables that are a function's own, by id
  block_meta,                     \* by block: what it is to others
  continue_block_to_loop_header,  \* by block
  default_entry_point,
  current_function,
  current_block,
  ignore_trailing_block_opcodes   \* was the last one a terminator that may not be one?

ir == <<functions, blocks, locals, block_meta, continue_block_to_loop_header, default_entry_point>>
parsing == <<offset, current_function, current_block, ignore_trailing_block_opcodes>>

NewFunction == [blocks |-> << >>, entry_block |-> 0, arguments |-> << >>, local_variables |-> << >>]

NewBlock ==
  [terminator |-> "Unknown", merge |-> "None", next_block |-> 0, merge_block |-> 0,
   continue_block |-> 0, true_block |-> 0, false_block |-> 0, default_block |-> 0,
   cases |-> << >>, ops |-> << >>, phi_variables |-> << >>]

\* Entries of a map that are not there yet.
Extended(map, id, value) == [i \in DOMAIN map \cup {id} |-> IF i = id THEN value ELSE map[i]]

ParserInit ==
  /\ spirv \in Modules
  /\ offset = 1 /\ phase = "parse" /\ error = None
  /\ functions = << >> /\ blocks = << >> /\ locals = << >>
  /\ block_meta = [b \in Block \cup {0} |-> {}]
  /\ continue_block_to_loop_header = << >>
  /\ default_entry_point = 0
  /\ current_function = 0 /\ current_block = 0
  /\ ignore_trailing_block_opcodes = FALSE

-------------------------------------------------------------------------------
(* The instruction at hand *)

Instruction == spirv[offset]

\* OpReturn, OpBranch and OpUnreachable are skipped after OpEmitMeshTasksEXT.
Ignored == ignore_trailing_block_opcodes /\ Instruction.op \in {"Return", "Branch", "Unreachable"}

\* Those that only end a block.
PlainTerminators ==
  [Return |-> "Return", ReturnValue |-> "Return", Unreachable |-> "Unreachable", Kill |-> "Kill",
   TerminateInvocation |-> "Kill", TerminateRayKHR |-> "TerminateRay",
   IgnoreIntersectionKHR |-> "IgnoreIntersection", EmitMeshTasksEXT |-> "EmitMeshTasks"]
Terminators == DOMAIN PlainTerminators \cup {"Branch", "BranchConditional", "Switch"}

\* Kept inside of a block, and passed over outside: OpLine, OpNoLine, OpUndef.
Anywhere == {"Line"}
Headers == {"SelectionMerge", "LoopMerge"}
Structural ==
  Terminators \cup Headers \cup Anywhere
    \cup {"EntryPoint", "Function", "FunctionParameter", "FunctionEnd", "Label", "Variable", "Phi"}

\* What the parser throws at an instruction.
\* Mutant: a function may end inside of a block.
NeedsBlock(op) == op \notin Structural \/ op \in Terminators \cup Headers
BlockLeftOpen == FALSE
BlockOpen == current_block # 0

Thrown(i) ==
  CASE i.op = "Function" /\ current_function # 0 -> "Must end a function before starting a new one!"
    [] i.op \in {"FunctionParameter", "Label", "Phi"} /\ current_function = 0 -> "Must be in a function!"
    [] i.op = "Variable" /\ i.storage = "Function" /\ current_function = 0 -> "No function currently in scope"
    [] i.op = "FunctionEnd" /\ BlockOpen -> "Cannot end a function before ending the current block."
    [] i.op = "Label" /\ current_block # 0 -> "Cannot start a block before ending the current block."
    [] (i.op = "Phi" \/ NeedsBlock(i.op)) /\ current_block = 0 -> "No block currently in scope"
    [] OTHER -> None

Parsing == phase = "parse" /\ offset <= Len(spirv) /\ ~Ignored
Parses(ops) == Parsing /\ Instruction.op \in ops /\ Thrown(Instruction) = None

\* Every instruction but OpEmitMeshTasksEXT leaves the next one to be read.
Read == offset' = offset + 1 /\ ignore_trailing_block_opcodes' = FALSE /\ UNCHANGED <<spirv, phase, error>>

ParseThrows ==
  /\ Parsing /\ Thrown(Instruction) # None
  /\ phase' = "failed" /\ error' = Thrown(Instruction)
  /\ UNCHANGED <<spirv, ir, parsing>>

ParseIgnored ==
  /\ phase = "parse" /\ offset <= Len(spirv) /\ Ignored
  /\ Read
  /\ UNCHANGED <<ir, current_function, current_block>>

-------------------------------------------------------------------------------
(* Functions *)

\* The first entry point is the default.
ParseEntryPoint ==
  /\ Parses({"EntryPoint"})
  /\ Read
  /\ default_entry_point' = IF default_entry_point = 0 THEN Instruction.id ELSE default_entry_point
  /\ UNCHANGED <<functions, blocks, locals, block_meta, continue_block_to_loop_header, current_function, current_block>>

ParseFunction ==
  /\ Parses({"Function"})
  /\ Read
  /\ functions' = Extended(functions, Instruction.id, NewFunction)
  /\ current_function' = Instruction.id
  /\ UNCHANGED <<blocks, locals, block_meta, continue_block_to_loop_header, default_entry_point, current_block>>

\* A parameter is no local variable, but a variable of the function's class.
ParseFunctionParameter ==
  /\ Parses({"FunctionParameter"})
  /\ Read
  /\ functions' = [functions EXCEPT ![current_function].arguments = Append(@, Instruction.id)]
  /\ UNCHANGED <<blocks, locals, block_meta, continue_block_to_loop_header, default_entry_point, current_function, current_block>>

ParseFunctionEnd ==
  /\ Parses({"FunctionEnd"})
  /\ Read
  /\ current_function' = 0
  /\ UNCHANGED <<ir, current_block>>

\* Global variables are in no function's list.
ParseVariable ==
  /\ Parses({"Variable"})
  /\ Read
  /\ IF Instruction.storage = "Function"
     THEN /\ functions' = [functions EXCEPT ![current_function].local_variables = Append(@, Instruction.id)]
          /\ locals' = Extended(locals, Instruction.id, [phi_variable |-> FALSE])
     ELSE UNCHANGED <<functions, locals>>
  /\ UNCHANGED <<blocks, block_meta, continue_block_to_loop_header, default_entry_point, current_function, current_block>>

-------------------------------------------------------------------------------
(* Blocks *)

Current == blocks[current_block]

ParseLabel ==
  /\ Parses({"Label"})
  /\ Read
  /\ functions' = [functions EXCEPT
       ![current_function].blocks = Append(@, Instruction.id),
       ![current_function].entry_block = IF @ = 0 THEN Instruction.id ELSE @]
  /\ blocks' = Extended(blocks, Instruction.id, NewBlock)
  /\ current_block' = Instruction.id
  /\ UNCHANGED <<locals, block_meta, continue_block_to_loop_header, default_entry_point, current_function>>

\* A phi is a variable of its function, written where control leaves the parents.
ParsePhi ==
  /\ Parses({"Phi"})
  /\ Read
  /\ functions' = [functions EXCEPT ![current_function].local_variables = Append(@, Instruction.id)]
  /\ locals' = Extended(locals, Instruction.id, [phi_variable |-> TRUE])
  /\ blocks' = [blocks EXCEPT ![current_block].phi_variables =
       @ \o [k \in DOMAIN Instruction.parents |-> [parent |-> Instruction.parents[k], function_variable |-> Instruction.id]]]
  /\ UNCHANGED <<block_meta, continue_block_to_loop_header, default_entry_point, current_function, current_block>>

ParseOp ==
  /\ Parsing /\ Instruction.op \notin Structural \ Anywhere /\ Thrown(Instruction) = None
  /\ Read
  /\ blocks' = IF current_block = 0 THEN blocks
               ELSE [blocks EXCEPT ![current_block].ops = Append(@, Instruction)]
  /\ UNCHANGED <<functions, locals, block_meta, continue_block_to_loop_header, default_entry_point, current_function, current_block>>

ParseSelectionMerge ==
  /\ Parses({"SelectionMerge"})
  /\ Read
  /\ blocks' = [blocks EXCEPT ![current_block].next_block = Instruction.merge, ![current_block].merge = "Selection"]
  /\ block_meta' = [block_meta EXCEPT ![Instruction.merge] = @ \cup {"SELECTION_MERGE"}]
  /\ UNCHANGED <<functions, locals, continue_block_to_loop_header, default_entry_point, current_function, current_block>>

\* A header that continues itself is no continue block.
ContinueBit(continue) == IF continue = current_block THEN {} ELSE {"CONTINUE"}
ParseLoopMerge ==
  /\ Parses({"LoopMerge"})
  /\ Read
  /\ blocks' = [blocks EXCEPT ![current_block].merge_block = Instruction.merge,
                              ![current_block].continue_block = Instruction.continue,
                              ![current_block].merge = "Loop"]
  /\ block_meta' = [block_meta EXCEPT ![current_block] = @ \cup {"LOOP_HEADER"},
                                      ![Instruction.merge] = @ \cup {"LOOP_MERGE"},
                                      ![Instruction.continue] = @ \cup ContinueBit(Instruction.continue)]
  /\ continue_block_to_loop_header' =
       Extended(continue_block_to_loop_header, Instruction.continue, current_block)
  /\ UNCHANGED <<functions, locals, default_entry_point, current_function, current_block>>

-------------------------------------------------------------------------------
(* The ends of blocks *)

EndBlock(block) ==
  /\ blocks' = [blocks EXCEPT ![current_block] = block]
  /\ current_block' = 0
  /\ UNCHANGED <<functions, locals, continue_block_to_loop_header, default_entry_point, current_function>>

ParsePlainTerminator ==
  /\ Parses(DOMAIN PlainTerminators)
  /\ offset' = offset + 1
  /\ ignore_trailing_block_opcodes' = (Instruction.op = "EmitMeshTasksEXT")
  /\ EndBlock([Current EXCEPT !.terminator = PlainTerminators[Instruction.op]])
  /\ UNCHANGED <<spirv, phase, error, block_meta>>

ParseBranch ==
  /\ Parses({"Branch"})
  /\ Read
  /\ EndBlock([Current EXCEPT !.terminator = "Direct", !.next_block = Instruction.target])
  /\ UNCHANGED block_meta

ParseBranchConditional ==
  /\ Parses({"BranchConditional"}) /\ Instruction.true # Instruction.false
  /\ Read
  /\ EndBlock([Current EXCEPT !.terminator = "Select", !.true_block = Instruction.true,
                              !.false_block = Instruction.false])
  /\ UNCHANGED block_meta

\* A bogus conditional has one target.  Inside of a selection that merges
\* elsewhere it is a switch with nothing but a default.
Bogus == Parses({"BranchConditional"}) /\ Instruction.true = Instruction.false
LeavesSelection == Instruction.true # Current.next_block /\ Current.merge = "Selection"

ParseBogusSelection ==
  /\ Bogus /\ LeavesSelection
  /\ Read
  /\ EndBlock([Current EXCEPT !.terminator = "MultiSelect", !.default_block = Instruction.true,
                              !.true_block = Instruction.true, !.false_block = Instruction.true])
  /\ block_meta' = [block_meta EXCEPT
       ![Current.next_block] = (@ \ {"SELECTION_MERGE"}) \cup {"MULTISELECT_MERGE"}]

\* Otherwise it is a direct branch, and no header.  What the header said of other
\* blocks is only taken back for a loop that is left at once.
Collapse ==
  IF Current.merge = "Loop" /\ Instruction.true = Current.merge_block
  THEN [b \in DOMAIN block_meta |->
          block_meta[b] \ ((IF b = Current.merge_block THEN {"LOOP_MERGE"} ELSE {})
                             \cup (IF b = Current.continue_block THEN {"CONTINUE"} ELSE {}))]
  ELSE block_meta

ParseBogusBranch ==
  /\ Bogus /\ ~LeavesSelection
  /\ Read
  /\ EndBlock([Current EXCEPT !.terminator = "Direct", !.next_block = Instruction.true,
                              !.merge = "None", !.merge_block = 0])
  /\ block_meta' = Collapse

\* The mark goes to block 0 when there is no merge.
ParseSwitch ==
  /\ Parses({"Switch"})
  /\ Read
  /\ EndBlock([Current EXCEPT !.terminator = "MultiSelect", !.default_block = Instruction.default,
                              !.cases = Instruction.cases])
  /\ block_meta' = [block_meta EXCEPT ![Current.next_block] = @ \cup {"MULTISELECT_MERGE"}]

-------------------------------------------------------------------------------
\* The end of the module.
Unterminated ==
  IF current_function # 0 THEN "Function was not terminated."
  ELSE IF current_block # 0 THEN "Block was not terminated."
  ELSE IF default_entry_point = 0 THEN "There is no entry point in the SPIR-V module."
  ELSE None

ParseEnd ==
  /\ phase = "parse" /\ offset > Len(spirv)
  /\ phase' = IF Unterminated = None THEN "parsed" ELSE "failed"
  /\ error' = Unterminated
  /\ UNCHANGED <<spirv, ir, parsing>>

Parse ==
  \/ ParseThrows \/ ParseIgnored \/ ParseEntryPoint \/ ParseFunction \/ ParseFunctionParameter
  \/ ParseFunctionEnd \/ ParseVariable \/ ParseLabel \/ ParsePhi \/ ParseOp
  \/ ParseSelectionMerge \/ ParseLoopMerge \/ ParsePlainTerminator \/ ParseBranch
  \/ ParseBranchConditional \/ ParseBogusSelection \/ ParseBogusBranch \/ ParseSwitch \/ ParseEnd

-------------------------------------------------------------------------------
(* Properties *)

Parsed == phase = "parsed"

\* The last label up to the k-th instruction is b's.
Within(k, b) ==
  \E l \in 1 .. k :
    spirv[l].op = "Label" /\ spirv[l].id = b /\ \A m \in l + 1 .. k : spirv[m].op # "Label"

\* The blocks whose header instruction is lost to a bogus conditional.
Collapsed ==
  {b \in DOMAIN blocks : blocks[b].terminator = "Direct" /\ blocks[b].merge = "None" /\
     \E k \in DOMAIN spirv : spirv[k].op \in Headers /\ Within(k, b)}

\* SPIR-V's own rules, which the parser does not look after: every label is of one
\* block, branches go to blocks, a header is followed by its branch, and is alone
\* in naming its merge block.
Structured(m) ==
  /\ \A k, l \in DOMAIN m : m[k].op = "Label" /\ m[l].op = "Label" /\ m[k].id = m[l].id => k = l
  /\ \A k, l \in DOMAIN m :
       m[k].op = "SelectionMerge" /\ m[l].op = "SelectionMerge" /\ m[k].merge = m[l].merge => k = l
  /\ \A k \in DOMAIN m :
       /\ m[k].op = "BranchConditional" => m[k].true \in Block
       /\ m[k].op \in Headers => k + 1 \in DOMAIN m
       /\ m[k].op = "SelectionMerge" => m[k + 1].op \in {"BranchConditional", "Switch"}
       /\ m[k].op = "LoopMerge" => m[k + 1].op \in {"Branch", "BranchConditional"}

\* What the header h says of a block.
Says(header, h, b) ==
  {bit \in {"LOOP_HEADER", "CONTINUE", "LOOP_MERGE", "SELECTION_MERGE", "MULTISELECT_MERGE"} :
     \/ bit = "LOOP_HEADER" /\ header.merge = "Loop" /\ b = h
     \/ bit = "LOOP_MERGE" /\ header.merge = "Loop" /\ b = header.merge_block
     \/ bit = "CONTINUE" /\ header.merge = "Loop" /\ b = header.continue_block /\ b # h
     \/ /\ bit = "SELECTION_MERGE" /\ header.merge = "Selection" /\ b = header.next_block
        /\ ~(header.terminator = "MultiSelect" /\ header.true_block # 0)
     \/ bit = "MULTISELECT_MERGE" /\ header.terminator = "MultiSelect" /\ b = header.next_block}
SaidBy(h, b) == Says(blocks[h], h, b)

\* A module is accepted only if every block has an end and belongs to a function,
\* whatever OpEmitMeshTasksEXT makes the parser skip; and the last block's check
\* is never the one that fails, as no function ends in an open block.
BlocksClosed ==
  /\ error # "Block was not terminated."
  /\ current_block # 0 => current_function # 0 /\ current_block = Last(functions[current_function].blocks)
  /\ Parsed =>
       /\ DOMAIN blocks = UNION {Range(functions[f].blocks) : f \in DOMAIN functions}
       /\ \A b \in DOMAIN blocks : blocks[b].terminator # "Unknown"

\* Hazard spirv_parser.cpp:1173.  The parser accepts only what is closed.  Unless
\* a bogus conditional has lost a header, what the table says of the blocks of a
\* structured module is what the headers that are left say: switches are told from
\* selections, and a loop that continues itself has no continue block.
ModuleClosed ==
  /\ BlocksClosed
  /\ Parsed /\ Structured(spirv) /\ Collapsed = {} =>
       \A b \in DOMAIN blocks : block_meta[b] = UNION {SaidBy(h, b) : h \in DOMAIN blocks}
================================================================================
