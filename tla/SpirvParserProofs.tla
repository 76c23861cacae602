--------------------------- MODULE SpirvParserProofs ---------------------------
(***************************************************************************)
(* The parser's tables for every module: the parser never forgets an open  *)
(* block, every block is in its function's list from its label on, and the *)
(* tables of headers and merge blocks keep what the blocks say of them.    *)
(***************************************************************************)
EXTENDS SpirvParser, TLAPS

parser == <<spirv, phase, error, ir, parsing>>
ParserSpec == ParserInit /\ [][Parse]_parser

Listed == UNION {Range(functions[f].blocks) : f \in DOMAIN functions}

\* Functions come from instructions that have been read, and list blocks.
FunctionsRead ==
  /\ spirv \in Modules /\ offset \in Nat \ {0}
  /\ \A f \in DOMAIN functions :
       /\ \E k \in DOMAIN spirv : k < offset /\ spirv[k].op = "Function" /\ spirv[k].id = f
       /\ "blocks" \in DOMAIN functions[f] /\ functions[f].blocks \in Seq(Block)

\* Of the blocks only the current one may have no end.
BlocksEnded ==
  /\ DOMAIN blocks = Listed
  /\ \A b \in DOMAIN blocks :
       "terminator" \in DOMAIN blocks[b] /\ (b # current_block => blocks[b].terminator # "Unknown")

\* An open block is the last one of the open function.
BlockInFunction ==
  /\ current_function # 0 => current_function \in DOMAIN functions
  /\ current_block # 0 =>
       /\ current_function # 0 /\ current_block \in Block
       /\ functions[current_function].blocks # << >>
       /\ current_block = Last(functions[current_function].blocks)

PhaseTold ==
  /\ phase \in {"parse", "parsed", "failed"}
  /\ phase = "parsed" => current_block = 0
  /\ error # "Block was not terminated."

Closed == FunctionsRead /\ BlocksEnded /\ BlockInFunction /\ PhaseTold

-------------------------------------------------------------------------------
(* What a step may do to the parser's tables *)

\* Functions keep their lists.
ListsKept ==
  /\ DOMAIN functions' = DOMAIN functions
  /\ \A f \in DOMAIN functions :
       /\ "blocks" \in DOMAIN functions[f] => "blocks" \in DOMAIN functions'[f]
       /\ "blocks" \in DOMAIN functions[f] => functions'[f].blocks = functions[f].blocks

\* Blocks keep their ends, but for one.
EndsKeptBut(c) ==
  /\ DOMAIN blocks' = DOMAIN blocks
  /\ \A b \in DOMAIN blocks :
       /\ "terminator" \in DOMAIN blocks[b] => "terminator" \in DOMAIN blocks'[b]
       /\ b # c /\ "terminator" \in DOMAIN blocks[b] => blocks'[b].terminator = blocks[b].terminator

EndsKept == EndsKeptBut(0)

ReadsOne == spirv' = spirv /\ phase' = phase /\ error' = error /\ offset' = offset + 1

LEMMA ListedKept ==
  ASSUME FunctionsRead, ListsKept
  PROVE  Listed' = Listed
  <1>1. \A f \in DOMAIN functions : functions'[f].blocks = functions[f].blocks
    BY DEF FunctionsRead, ListsKept
  <1> QED BY <1>1 DEF ListsKept, Listed, Range

LEMMA FunctionsKept ==
  ASSUME FunctionsRead, ListsKept, ReadsOne
  PROVE  FunctionsRead'
  <1>1. spirv' \in Modules /\ offset' \in Nat \ {0}
    BY DEF FunctionsRead, ReadsOne
  <1>2. ASSUME NEW f \in DOMAIN functions'
        PROVE  /\ \E k \in DOMAIN spirv' : k < offset' /\ spirv'[k].op = "Function" /\ spirv'[k].id = f
               /\ "blocks" \in DOMAIN functions'[f] /\ functions'[f].blocks \in Seq(Block)
    <2>1. f \in DOMAIN functions
      BY <1>2 DEF ListsKept
    <2>2. PICK k \in DOMAIN spirv : k < offset /\ spirv[k].op = "Function" /\ spirv[k].id = f
      BY <2>1 DEF FunctionsRead
    <2>3. k \in Int
      BY ModulesAssumption DEF FunctionsRead
    <2>4. k < offset'
      BY <2>2, <2>3 DEF FunctionsRead, ReadsOne
    <2>5. "blocks" \in DOMAIN functions'[f] /\ functions'[f].blocks \in Seq(Block)
      BY <2>1 DEF FunctionsRead, ListsKept
    <2> QED BY <2>2, <2>4, <2>5 DEF ReadsOne
  <1> QED BY <1>1, <1>2 DEF FunctionsRead

\* A block is a block, and not 0.
LEMMA ListedAreBlocks ==
  ASSUME FunctionsRead
  PROVE  Listed \subseteq Block
  <1> SUFFICES ASSUME NEW f \in DOMAIN functions PROVE Range(functions[f].blocks) \subseteq Block
    BY DEF Listed
  <1>1. functions[f].blocks \in Seq(Block)
    BY DEF FunctionsRead
  <1> QED BY <1>1 DEF Range

LEMMA OpenBlockListed ==
  ASSUME FunctionsRead, BlockInFunction, current_block # 0
  PROVE  current_block \in Listed
  <1>1. current_function \in DOMAIN functions
    BY DEF BlockInFunction
  <1> DEFINE list == functions[current_function].blocks
  <1>2. list \in Seq(Block) /\ list # << >>
    BY <1>1 DEF FunctionsRead, BlockInFunction
  <1>3. current_block = list[Len(list)] /\ Len(list) \in DOMAIN list
    BY <1>2 DEF BlockInFunction, Last
  <1> QED BY <1>1, <1>3 DEF Listed, Range

\* A step inside of a block, of a function or of neither.
LEMMA KeepsClosed ==
  ASSUME Closed, ReadsOne, ListsKept, EndsKept, UNCHANGED <<current_function, current_block>>
  PROVE  Closed'
  <1>1. FunctionsRead'
    BY FunctionsKept DEF Closed
  <1>2. Listed' = Listed /\ Listed \subseteq Block
    BY ListedKept, ListedAreBlocks DEF Closed
  <1>3. BlocksEnded'
    BY <1>2, BlockAssumption DEF Closed, BlocksEnded, EndsKept, EndsKeptBut
  <1>4. BlockInFunction'
    BY DEF Closed, FunctionsRead, BlockInFunction, ListsKept
  <1>5. PhaseTold'
    BY DEF Closed, PhaseTold, ReadsOne
  <1> QED BY <1>1, <1>3, <1>4, <1>5 DEF Closed

\* A step that ends the block.
LEMMA EndsClosed ==
  ASSUME Closed, ReadsOne, ListsKept, EndsKeptBut(current_block), current_block # 0, phase = "parse",
         blocks'[current_block].terminator # "Unknown",
         UNCHANGED current_function, current_block' = 0
  PROVE  Closed'
  <1>1. FunctionsRead'
    BY FunctionsKept DEF Closed
  <1>2. Listed' = Listed /\ Listed \subseteq Block
    BY ListedKept, ListedAreBlocks DEF Closed
  <1>3. BlocksEnded'
    BY <1>2, BlockAssumption DEF Closed, BlocksEnded, EndsKeptBut
  <1>4. BlockInFunction'
    BY DEF Closed, FunctionsRead, BlockInFunction, ListsKept
  <1>5. PhaseTold'
    BY DEF Closed, PhaseTold, ReadsOne
  <1> QED BY <1>1, <1>3, <1>4, <1>5 DEF Closed

-------------------------------------------------------------------------------
(* The instructions *)

LEMMA InitClosed == ParserInit => Closed
  <1> SUFFICES ASSUME ParserInit PROVE Closed
    OBVIOUS
  <1>1. DOMAIN functions = {} /\ DOMAIN blocks = {} /\ current_block = 0 /\ current_function = 0
    BY DEF ParserInit
  <1>2. FunctionsRead
    BY <1>1 DEF ParserInit, FunctionsRead
  <1>3. BlocksEnded
    BY <1>1 DEF BlocksEnded, Listed
  <1>4. BlockInFunction /\ PhaseTold
    BY <1>1, NoneAssumption DEF ParserInit, BlockInFunction, PhaseTold, Messages
  <1> QED BY <1>2, <1>3, <1>4 DEF Closed

LEMMA BlockEnds ==
  ASSUME NEW block, "terminator" \in DOMAIN block,
         blocks' = [blocks EXCEPT ![current_block] = block]
  PROVE  /\ EndsKeptBut(current_block)
         /\ current_block \in DOMAIN blocks => blocks'[current_block] = block
  BY DEF EndsKeptBut

LEMMA ReadReads == ASSUME Read PROVE ReadsOne
  BY DEF Read, ReadsOne

\* An instruction of a block: where it is open.
LEMMA InBlock ==
  ASSUME Closed, current_block # 0
  PROVE  current_block \in DOMAIN blocks /\ "terminator" \in DOMAIN Current
  <1>1. current_block \in DOMAIN blocks
    BY OpenBlockListed DEF Closed, BlocksEnded
  <1> QED BY <1>1 DEF Closed, BlocksEnded, Current

\* What Thrown lets pass.
LEMMA NeedsOpenBlock ==
  ASSUME NEW ops, Parses(ops), ops \subseteq Terminators \cup Headers \cup {"Phi"}
  PROVE  current_block # 0
  <1> SUFFICES ASSUME current_block = 0 PROVE FALSE
    OBVIOUS
  <1>1. PICK op : op = Instruction.op /\ op \in Terminators \cup Headers \cup {"Phi"}
    BY DEF Parses
  <1>2. op \notin {"Function", "FunctionParameter", "Label", "Variable", "FunctionEnd"}
    BY <1>1 DEF Terminators, Headers, PlainTerminators
  <1>3. op = "Phi" \/ NeedsBlock(op)
    BY <1>1 DEF NeedsBlock
  <1>4. Thrown(Instruction) \in Messages
    BY <1>1, <1>2, <1>3 DEF Thrown, Messages
  <1> QED BY <1>4, NoneAssumption DEF Parses

LEMMA NeedsFunction ==
  ASSUME NEW ops, Parses(ops), ops \subseteq {"FunctionParameter", "Label", "Phi"}
  PROVE  current_function # 0
  <1>1. Instruction.op \in {"FunctionParameter", "Label", "Phi"}
    BY DEF Parses
  <1> QED BY <1>1, NoneAssumption DEF Parses, Thrown, Messages

LEMMA NeedsNoBlock ==
  ASSUME NEW ops, Parses(ops), ops \subseteq {"FunctionEnd", "Label"}, current_function # 0
  PROVE  current_block = 0
  <1>1. Instruction.op \in {"FunctionEnd", "Label"}
    BY DEF Parses
  <1> QED BY <1>1, NoneAssumption DEF Parses, Thrown, Messages, BlockOpen

\* An instruction that touches neither lists nor ends.
LEMMA StepKeeps ==
  ASSUME Closed, Read, ListsKept, EndsKept, UNCHANGED <<current_function, current_block>>
  PROVE  Closed'
  BY KeepsClosed, ReadReads

LEMMA SameLists == ASSUME UNCHANGED functions PROVE ListsKept
  BY DEF ListsKept
LEMMA SameEnds == ASSUME UNCHANGED blocks PROVE EndsKept
  BY DEF EndsKept, EndsKeptBut

LEMMA ThrowClosed == ASSUME Closed, ParseThrows PROVE Closed'
  <1>1. Thrown(Instruction) # "Block was not terminated."
    BY DEF ParseThrows, Thrown
  <1>2. UNCHANGED <<spirv, functions, blocks, offset, current_function, current_block>>
    BY DEF ParseThrows, ir, parsing
  <1>3. PhaseTold'
    BY <1>1 DEF ParseThrows, PhaseTold
  <1> QED BY <1>2, <1>3 DEF Closed, FunctionsRead, BlocksEnded, BlockInFunction, Listed

LEMMA EndClosed == ASSUME Closed, ParseEnd PROVE Closed'
  <1>1. current_function = 0 => current_block = 0
    BY DEF Closed, BlockInFunction
  <1>2. /\ Unterminated # "Block was not terminated."
        /\ Unterminated = None => current_block = 0
    BY <1>1, NoneAssumption DEF Unterminated, Messages
  <1>3. UNCHANGED <<spirv, functions, blocks, offset, current_function, current_block>>
    BY DEF ParseEnd, ir, parsing
  <1>4. PhaseTold'
    BY <1>2, <1>3 DEF ParseEnd, PhaseTold
  <1> QED BY <1>3, <1>4 DEF Closed, FunctionsRead, BlocksEnded, BlockInFunction, Listed

\* The steps that write no block.
LEMMA PassiveClosed ==
  ASSUME Closed, ParseIgnored \/ ParseEntryPoint
  PROVE  Closed'
  <1>1. Read /\ UNCHANGED <<functions, blocks, current_function, current_block>>
    BY DEF ParseIgnored, ParseEntryPoint, ir
  <1> QED BY <1>1, StepKeeps, SameLists, SameEnds

LEMMA ParameterClosed == ASSUME Closed, ParseFunctionParameter PROVE Closed'
  <1>1. Read /\ UNCHANGED <<blocks, current_function, current_block>>
    BY DEF ParseFunctionParameter
  <1>2. ListsKept
    BY DEF ParseFunctionParameter, ListsKept
  <1> QED BY <1>1, <1>2, StepKeeps, SameEnds

LEMMA VariableClosed == ASSUME Closed, ParseVariable PROVE Closed'
  <1>1. Read /\ UNCHANGED <<blocks, current_function, current_block>>
    BY DEF ParseVariable
  <1>2. ListsKept
    BY DEF ParseVariable, ListsKept
  <1> QED BY <1>1, <1>2, StepKeeps, SameEnds

LEMMA FunctionEndClosed == ASSUME Closed, ParseFunctionEnd PROVE Closed'
  <1>1. Read /\ UNCHANGED <<functions, blocks, current_block>> /\ current_function' = 0
    BY DEF ParseFunctionEnd, ir
  <1>2. current_block = 0
    <2>1. CASE current_function = 0
      BY <2>1 DEF Closed, BlockInFunction
    <2>2. CASE current_function # 0
      BY <2>2, NeedsNoBlock DEF ParseFunctionEnd
    <2> QED BY <2>1, <2>2
  <1>3. FunctionsRead'
    BY <1>1, FunctionsKept, ReadReads, SameLists DEF Closed
  <1>4. BlocksEnded' /\ BlockInFunction' /\ PhaseTold'
    BY <1>1, <1>2 DEF Closed, BlocksEnded, BlockInFunction, PhaseTold, Listed, Read
  <1> QED BY <1>3, <1>4 DEF Closed

LEMMA OpClosed == ASSUME Closed, ParseOp PROVE Closed'
  <1>1. Read /\ UNCHANGED <<functions, current_function, current_block>>
    BY DEF ParseOp
  <1>2. EndsKept
    BY DEF ParseOp, EndsKept, EndsKeptBut
  <1> QED BY <1>1, <1>2, StepKeeps, SameLists

LEMMA PhiClosed == ASSUME Closed, ParsePhi PROVE Closed'
  <1>1. Read /\ UNCHANGED <<current_function, current_block>>
    BY DEF ParsePhi
  <1>2. ListsKept
    BY DEF ParsePhi, ListsKept
  <1>3. EndsKept
    BY DEF ParsePhi, EndsKept, EndsKeptBut
  <1> QED BY <1>1, <1>2, <1>3, StepKeeps

LEMMA HeaderClosed == ASSUME Closed, ParseSelectionMerge \/ ParseLoopMerge PROVE Closed'
  <1>1. Read /\ UNCHANGED <<functions, current_function, current_block>>
    BY DEF ParseSelectionMerge, ParseLoopMerge
  <1>2. CASE ParseSelectionMerge
    <2>1. EndsKept
      BY <1>2 DEF ParseSelectionMerge, EndsKept, EndsKeptBut
    <2> QED BY <1>1, <2>1, StepKeeps, SameLists
  <1>3. CASE ParseLoopMerge
    <2>1. EndsKept
      BY <1>3 DEF ParseLoopMerge, EndsKept, EndsKeptBut
    <2> QED BY <1>1, <2>1, StepKeeps, SameLists
  <1> QED BY <1>2, <1>3

\* The id of a function that is read now is none that was read before.
LEMMA FunctionClosed == ASSUME Closed, ParseFunction PROVE Closed'
  <1> DEFINE id == Instruction.id
  <1>1. /\ Read /\ UNCHANGED <<blocks, current_block>>
        /\ functions' = Extended(functions, id, NewFunction) /\ current_function' = id
    BY DEF ParseFunction
  <1>2. offset \in DOMAIN spirv /\ spirv[offset].op = "Function"
    <2>1. offset \in 1 .. Len(spirv)
      BY DEF ParseFunction, Parses, Parsing, Closed, FunctionsRead
    <2> QED BY <2>1, ModulesAssumption DEF ParseFunction, Parses, Instruction, Closed, FunctionsRead
  <1>3. id \in Nat \ {0}
    BY <1>2, ModulesAssumption DEF Closed, FunctionsRead, Instruction
  <1>4. id \notin DOMAIN functions
    <2> SUFFICES ASSUME id \in DOMAIN functions PROVE FALSE
      OBVIOUS
    <2>1. PICK k \in DOMAIN spirv : k < offset /\ spirv[k].op = "Function" /\ spirv[k].id = id
      BY DEF Closed, FunctionsRead
    <2>2. k = offset
      BY <1>2, <2>1, ModulesAssumption DEF Closed, FunctionsRead, Instruction
    <2> QED BY <2>1, <2>2 DEF Closed, FunctionsRead
  <1>5. current_function = 0
    BY NoneAssumption DEF ParseFunction, Parses, Thrown, Messages
  <1>6. current_block = 0
    BY <1>5 DEF Closed, BlockInFunction
  <1> HIDE DEF id
  <1>7. /\ DOMAIN functions' = DOMAIN functions \cup {id}
        /\ \A f \in DOMAIN functions : functions'[f] = functions[f]
        /\ functions'[id] = NewFunction
    BY <1>1, <1>4 DEF Extended
  <1>8. "blocks" \in DOMAIN NewFunction /\ NewFunction.blocks = << >>
    BY DEF NewFunction
  <1>9. FunctionsRead'
    <2>1. spirv' \in Modules /\ offset' \in Nat \ {0} /\ offset' = offset + 1 /\ spirv' = spirv
      BY <1>1 DEF Closed, FunctionsRead, Read
    <2>2. \A f \in DOMAIN functions' : "blocks" \in DOMAIN functions'[f] /\ functions'[f].blocks \in Seq(Block)
      <3>1. "blocks" \in DOMAIN functions'[id] /\ functions'[id].blocks \in Seq(Block)
        BY <1>7, <1>8
      <3>2. \A f \in DOMAIN functions : "blocks" \in DOMAIN functions'[f] /\ functions'[f].blocks \in Seq(Block)
        BY <1>7 DEF Closed, FunctionsRead
      <3> QED BY <1>7, <3>1, <3>2
    <2>3. ASSUME NEW f \in DOMAIN functions'
          PROVE  \E k \in DOMAIN spirv' : k < offset' /\ spirv'[k].op = "Function" /\ spirv'[k].id = f
      <3>1. CASE f = id
        <4>1. offset < offset' /\ spirv[offset].id = id
          BY <2>1 DEF Closed, FunctionsRead, id, Instruction
        <4> QED BY <1>2, <2>1, <3>1, <4>1
      <3>2. CASE f # id
        <4>1. f \in DOMAIN functions
          BY <1>7, <3>2
        <4>2. PICK k \in DOMAIN spirv : k < offset /\ spirv[k].op = "Function" /\ spirv[k].id = f
          BY <4>1 DEF Closed, FunctionsRead
        <4>3. k \in Int
          BY ModulesAssumption DEF Closed, FunctionsRead
        <4>4. k < offset'
          BY <2>1, <4>2, <4>3 DEF Closed, FunctionsRead
        <4> QED BY <2>1, <4>2, <4>4
      <3> QED BY <3>1, <3>2
    <2> QED BY <2>1, <2>2, <2>3 DEF FunctionsRead
  <1>10. Listed' = Listed
    <2>1. Range(NewFunction.blocks) = {}
      BY <1>8 DEF Range
    <2> QED BY <1>7, <2>1 DEF Listed
  <1>11. BlocksEnded' /\ BlockInFunction' /\ PhaseTold'
    BY <1>1, <1>3, <1>6, <1>7, <1>10 DEF Closed, BlocksEnded, BlockInFunction, PhaseTold, Read
  <1> QED BY <1>9, <1>11 DEF Closed

LEMMA LabelClosed == ASSUME Closed, ParseLabel PROVE Closed'
  <1> DEFINE id == Instruction.id
             list == functions[current_function].blocks
  <1>1. /\ Read /\ UNCHANGED current_function /\ current_block' = id
        /\ blocks' = Extended(blocks, id, NewBlock)
    BY DEF ParseLabel
  <1>2. current_function # 0 /\ current_block = 0
    BY NeedsFunction, NeedsNoBlock DEF ParseLabel
  <1>3. current_function \in DOMAIN functions /\ list \in Seq(Block)
    BY <1>2 DEF Closed, BlockInFunction, FunctionsRead
  <1>4. id \in Block /\ id # 0
    <2>1. offset \in 1 .. Len(spirv)
      BY DEF ParseLabel, Parses, Parsing, Closed, FunctionsRead
    <2>2. id \in Block
      BY <2>1, ModulesAssumption DEF ParseLabel, Parses, Instruction, Closed, FunctionsRead
    <2> QED BY <2>2, BlockAssumption
  <1>5. /\ DOMAIN functions' = DOMAIN functions
        /\ \A f \in DOMAIN functions : "blocks" \in DOMAIN functions'[f]
        /\ \A f \in DOMAIN functions \ {current_function} : functions'[f] = functions[f]
        /\ functions'[current_function].blocks = Append(list, id)
    BY <1>3 DEF ParseLabel, Closed, FunctionsRead
  <1> HIDE DEF id, list
  <1>6. Append(list, id) \in Seq(Block) /\ Append(list, id) # << >> /\ Last(Append(list, id)) = id
    BY <1>3, <1>4 DEF Last
  <1>7. Range(Append(list, id)) = Range(list) \cup {id}
    <2>1. DOMAIN Append(list, id) = 1 .. Len(list) + 1
      BY <1>3
    <2>2. \A k \in 1 .. Len(list) : Append(list, id)[k] = list[k]
      BY <1>3
    <2>3. Append(list, id)[Len(list) + 1] = id
      BY <1>3
    <2> QED BY <1>3, <2>1, <2>2, <2>3 DEF Range
  <1>8. Listed' = Listed \cup {id}
    <2>1. Range(list) \subseteq Listed
      BY <1>3 DEF Listed, list
    <2>2. Listed' = UNION {Range(functions'[f].blocks) : f \in DOMAIN functions}
      BY <1>5 DEF Listed
    <2>3. ASSUME NEW b \in Listed' PROVE b \in Listed \cup {id}
      <3>1. PICK f \in DOMAIN functions : b \in Range(functions'[f].blocks)
        BY <2>2
      <3>2. CASE f = current_function
        BY <1>5, <1>7, <2>1, <3>1, <3>2
      <3>3. CASE f # current_function
        BY <1>5, <3>1, <3>3 DEF Listed
      <3> QED BY <3>2, <3>3
    <2>4. ASSUME NEW b \in Listed \cup {id} PROVE b \in Listed'
      <3>1. CASE b = id
        BY <1>3, <1>5, <1>7, <2>2, <3>1
      <3>2. CASE b \in Listed
        <4>1. PICK f \in DOMAIN functions : b \in Range(functions[f].blocks)
          BY <3>2 DEF Listed
        <4>2. CASE f = current_function
          BY <1>3, <1>5, <1>7, <2>2, <4>1, <4>2 DEF list
        <4>3. CASE f # current_function
          BY <1>5, <2>2, <4>1, <4>3
        <4> QED BY <4>2, <4>3
      <3> QED BY <3>1, <3>2
    <2> QED BY <2>3, <2>4
  <1>9. FunctionsRead'
    <2>1. spirv' \in Modules /\ offset' \in Nat \ {0} /\ offset' = offset + 1 /\ spirv' = spirv
      BY <1>1 DEF Closed, FunctionsRead, Read
    <2>2. \A f \in DOMAIN functions' : "blocks" \in DOMAIN functions'[f] /\ functions'[f].blocks \in Seq(Block)
      BY <1>3, <1>5, <1>6 DEF Closed, FunctionsRead
    <2>3. ASSUME NEW f \in DOMAIN functions'
          PROVE  \E k \in DOMAIN spirv' : k < offset' /\ spirv'[k].op = "Function" /\ spirv'[k].id = f
      <3>1. PICK k \in DOMAIN spirv : k < offset /\ spirv[k].op = "Function" /\ spirv[k].id = f
        BY <1>5 DEF Closed, FunctionsRead
      <3>2. k \in Int
        BY ModulesAssumption DEF Closed, FunctionsRead
      <3>3. k < offset'
        BY <2>1, <3>1, <3>2 DEF Closed, FunctionsRead
      <3> QED BY <2>1, <3>1, <3>3
    <2> QED BY <2>1, <2>2, <2>3 DEF FunctionsRead
  <1>10. BlocksEnded'
    <2>1. /\ DOMAIN blocks' = DOMAIN blocks \cup {id}
          /\ \A b \in DOMAIN blocks \ {id} : blocks'[b] = blocks[b]
          /\ blocks'[id] = NewBlock
      BY <1>1 DEF Extended
    <2>2. "terminator" \in DOMAIN NewBlock
      BY DEF NewBlock
    <2>3. Listed \subseteq Block
      BY ListedAreBlocks DEF Closed
    <2> QED BY <1>1, <1>2, <1>8, <2>1, <2>2, <2>3, BlockAssumption DEF Closed, BlocksEnded
  <1>11. BlockInFunction' /\ PhaseTold'
    BY <1>1, <1>2, <1>3, <1>4, <1>5, <1>6 DEF Closed, BlockInFunction, PhaseTold, Read, ParseLabel, Parses, Parsing
  <1> QED BY <1>9, <1>10, <1>11 DEF Closed

\* The terminators: each ends the block with a terminator of its own.
LEMMA TerminatorClosed ==
  ASSUME Closed, NEW ops, Parses(ops), ops \subseteq Terminators, ReadsOne,
         NEW block, EndBlock(block), "terminator" \in DOMAIN block, block.terminator # "Unknown"
  PROVE  Closed'
  <1>1. current_block # 0
    BY NeedsOpenBlock
  <1>2. current_block \in DOMAIN blocks
    BY <1>1, InBlock
  <1>3. blocks' = [blocks EXCEPT ![current_block] = block] /\ UNCHANGED <<functions, current_function>> /\ current_block' = 0
    BY DEF EndBlock
  <1>4. EndsKeptBut(current_block) /\ blocks'[current_block] = block
    BY <1>2, <1>3, BlockEnds
  <1>5. phase = "parse"
    BY DEF Parses, Parsing
  <1> QED BY <1>1, <1>3, <1>4, <1>5, EndsClosed, SameLists

LEMMA OpenCurrent ==
  ASSUME Closed, NEW ops, Parses(ops), ops \subseteq Terminators
  PROVE  "terminator" \in DOMAIN Current
  BY NeedsOpenBlock, InBlock

LEMMA PlainClosed == ASSUME Closed, ParsePlainTerminator PROVE Closed'
  <1> DEFINE block == [Current EXCEPT !.terminator = PlainTerminators[Instruction.op]]
  <1>1. Parses(DOMAIN PlainTerminators) /\ DOMAIN PlainTerminators \subseteq Terminators
    BY DEF ParsePlainTerminator, Terminators
  <1>2. ReadsOne /\ EndBlock(block)
    BY DEF ParsePlainTerminator, ReadsOne
  <1>3. "terminator" \in DOMAIN Current
    BY <1>1, OpenCurrent
  <1>4. "terminator" \in DOMAIN block /\ block.terminator = PlainTerminators[Instruction.op]
    BY <1>3
  <1>5. PlainTerminators[Instruction.op] # "Unknown"
    BY <1>1 DEF Parses, PlainTerminators
  <1> HIDE DEF block
  <1> QED BY <1>1, <1>2, <1>4, <1>5, TerminatorClosed

LEMMA BranchClosed == ASSUME Closed, ParseBranch PROVE Closed'
  <1> DEFINE block == [Current EXCEPT !.terminator = "Direct", !.next_block = Instruction.target]
  <1>1. Parses({"Branch"}) /\ {"Branch"} \subseteq Terminators
    BY DEF ParseBranch, Terminators
  <1>2. ReadsOne /\ EndBlock(block)
    BY DEF ParseBranch, Read, ReadsOne
  <1>3. "terminator" \in DOMAIN block /\ block.terminator # "Unknown"
    BY <1>1, OpenCurrent
  <1> HIDE DEF block
  <1> QED BY <1>1, <1>2, <1>3, TerminatorClosed

LEMMA SwitchClosed == ASSUME Closed, ParseSwitch PROVE Closed'
  <1> DEFINE block == [Current EXCEPT !.terminator = "MultiSelect", !.default_block = Instruction.default,
                                      !.cases = Instruction.cases]
  <1>1. Parses({"Switch"}) /\ {"Switch"} \subseteq Terminators
    BY DEF ParseSwitch, Terminators
  <1>2. ReadsOne /\ EndBlock(block)
    BY DEF ParseSwitch, Read, ReadsOne
  <1>3. "terminator" \in DOMAIN block /\ block.terminator # "Unknown"
    BY <1>1, OpenCurrent
  <1> HIDE DEF block
  <1> QED BY <1>1, <1>2, <1>3, TerminatorClosed

\* A conditional branch ends the block as a selection, as a switch or directly.
LEMMA ConditionalClosed ==
  ASSUME Closed, ParseBranchConditional \/ ParseBogusSelection \/ ParseBogusBranch
  PROVE  Closed'
  <1> DEFINE select == [Current EXCEPT !.terminator = "Select", !.true_block = Instruction.true,
                                       !.false_block = Instruction.false]
             switch == [Current EXCEPT !.terminator = "MultiSelect", !.default_block = Instruction.true,
                                       !.true_block = Instruction.true, !.false_block = Instruction.true]
             direct == [Current EXCEPT !.terminator = "Direct", !.next_block = Instruction.true,
                                       !.merge = "None", !.merge_block = 0]
  <1>1. Parses({"BranchConditional"}) /\ {"BranchConditional"} \subseteq Terminators
    BY DEF ParseBranchConditional, ParseBogusSelection, ParseBogusBranch, Bogus, Terminators
  <1>2. ReadsOne
    BY DEF ParseBranchConditional, ParseBogusSelection, ParseBogusBranch, Read, ReadsOne
  <1>3. EndBlock(select) \/ EndBlock(switch) \/ EndBlock(direct)
    BY DEF ParseBranchConditional, ParseBogusSelection, ParseBogusBranch
  <1>4. "terminator" \in DOMAIN Current
    BY <1>1, OpenCurrent
  <1>5. "terminator" \in DOMAIN select /\ select.terminator # "Unknown"
    BY <1>4
  <1>6. "terminator" \in DOMAIN switch /\ switch.terminator # "Unknown"
    BY <1>4
  <1>7. "terminator" \in DOMAIN direct /\ direct.terminator # "Unknown"
    BY <1>4
  <1> HIDE DEF select, switch, direct
  <1>8. CASE EndBlock(select)
    BY <1>1, <1>2, <1>5, <1>8, TerminatorClosed
  <1>9. CASE EndBlock(switch)
    BY <1>1, <1>2, <1>6, <1>9, TerminatorClosed
  <1>10. CASE EndBlock(direct)
    BY <1>1, <1>2, <1>7, <1>10, TerminatorClosed
  <1> QED BY <1>3, <1>8, <1>9, <1>10

-------------------------------------------------------------------------------
LEMMA NextClosed == ASSUME Closed, [Parse]_parser PROVE Closed'
  <1>1. CASE UNCHANGED parser
    <2>1. UNCHANGED <<spirv, phase, error, functions, blocks, offset, current_function, current_block>>
      BY <1>1 DEF parser, ir, parsing
    <2>2. FunctionsRead' /\ BlockInFunction' /\ PhaseTold'
      BY <2>1 DEF Closed, FunctionsRead, BlockInFunction, PhaseTold
    <2>3. BlocksEnded'
      BY <2>1 DEF Closed, BlocksEnded, Listed
    <2> QED BY <2>2, <2>3 DEF Closed
  <1>2. CASE Parse
    BY <1>2, ThrowClosed, PassiveClosed, FunctionClosed, ParameterClosed, FunctionEndClosed,
       VariableClosed, LabelClosed, PhiClosed, OpClosed, HeaderClosed, PlainClosed, BranchClosed,
       ConditionalClosed, SwitchClosed, EndClosed DEF Parse
  <1> QED BY <1>1, <1>2

LEMMA ClosedMeans == Closed => BlocksClosed
  <1> SUFFICES ASSUME Closed PROVE BlocksClosed
    OBVIOUS
  <1>1. ASSUME Parsed
        PROVE  DOMAIN blocks = Listed /\ \A b \in DOMAIN blocks : blocks[b].terminator # "Unknown"
    <2>1. current_block = 0 /\ 0 \notin DOMAIN blocks
      BY <1>1, ListedAreBlocks, BlockAssumption DEF Closed, PhaseTold, Parsed, BlocksEnded
    <2> QED BY <2>1 DEF Closed, BlocksEnded
  <1> QED BY <1>1 DEF BlocksClosed, Closed, PhaseTold, BlockInFunction, Listed

\* Whatever the module: what the parser accepts has every block in its function's
\* list and ended, an open block is always the last of the open function, and the
\* check for an open block at the end never fails.
THEOREM ParsedModulesAreClosed == ParserSpec => []BlocksClosed
  <1>1. Closed /\ [Parse]_parser => Closed'
    BY NextClosed
  <1> QED BY InitClosed, <1>1, ClosedMeans, PTL DEF ParserSpec

-------------------------------------------------------------------------------
(* What the headers say *)

Said(b) == UNION {SaidBy(h, b) : h \in DOMAIN blocks}

\* Labels have been read; the last one is that of the open block, which has no end
\* yet, and a header only as its last instruction.
BlocksRead ==
  /\ \A b \in DOMAIN blocks :
       /\ DOMAIN blocks[b] = DOMAIN NewBlock
       /\ \E l \in 1 .. offset - 1 : spirv[l].op = "Label" /\ spirv[l].id = b
  /\ ignore_trailing_block_opcodes => current_block = 0
  /\ current_block # 0 =>
       /\ Within(offset - 1, current_block)
       /\ Current.terminator = "Unknown" /\ Current.true_block = 0
       /\ Current.merge # "None" => spirv[offset - 1].op \in Headers
       /\ Current.merge = "Selection" => spirv[offset - 1].op = "SelectionMerge"

\* A block has a header from an instruction of its own, and a selection keeps the
\* merge block that this names.
HeadersRead ==
  \A b \in DOMAIN blocks :
    /\ blocks[b].merge # "None" => \E k \in 1 .. offset - 1 : spirv[k].op \in Headers /\ Within(k, b)
    /\ blocks[b].merge = "Selection" =>
         \E k \in 1 .. offset - 1 :
           spirv[k].op = "SelectionMerge" /\ Within(k, b) /\ spirv[k].merge = blocks[b].next_block

\* So the table says what the headers say, after every instruction.
MetaSaid ==
  /\ DOMAIN block_meta = Block \cup {0}
  /\ Collapsed = {} => \A b \in Block : block_meta[b] = Said(b)

HeadersSay == Structured(spirv) => BlocksRead /\ HeadersRead /\ MetaSaid
\* What a block says is one of its fields' doing.
SameHeader(r, s) ==
  /\ r.terminator = s.terminator /\ r.merge = s.merge /\ r.next_block = s.next_block
  /\ r.merge_block = s.merge_block /\ r.continue_block = s.continue_block /\ r.true_block = s.true_block

LEMMA SameSays ==
  ASSUME NEW h, SameHeader(blocks'[h], blocks[h])
  PROVE  \A b : SaidBy(h, b)' = SaidBy(h, b)
  BY DEF SameHeader, SaidBy, Says

\* A block without a header and without an end says nothing.
LEMMA SaysNothing ==
  ASSUME NEW h, blocks[h].merge = "None", blocks[h].terminator # "MultiSelect"
  PROVE  \A b : SaidBy(h, b) = {}
  BY DEF SaidBy, Says

\* What has been read stays so.
LEMMA WithinKept ==
  ASSUME spirv' = spirv
  PROVE  \A k, b : Within(k, b)' = Within(k, b)
  BY DEF Within

LEMMA WithinOne ==
  ASSUME NEW k \in Nat, NEW b, NEW c, Within(k, b), Within(k, c)
  PROVE  b = c
  <1>1. PICK l \in 1 .. k : spirv[l].op = "Label" /\ spirv[l].id = b /\ \A m \in l + 1 .. k : spirv[m].op # "Label"
    BY DEF Within
  <1>2. PICK n \in 1 .. k : spirv[n].op = "Label" /\ spirv[n].id = c /\ \A m \in n + 1 .. k : spirv[m].op # "Label"
    BY DEF Within
  <1>3. n \notin l + 1 .. k /\ l \notin n + 1 .. k
    BY <1>1, <1>2
  <1>4. l = n
    BY <1>3
  <1> QED BY <1>1, <1>2, <1>4

LEMMA WithinNext ==
  ASSUME NEW k \in Nat, NEW b, Within(k, b), spirv[k + 1].op # "Label"
  PROVE  Within(k + 1, b)
  <1>1. PICK l \in 1 .. k : spirv[l].op = "Label" /\ spirv[l].id = b /\ \A m \in l + 1 .. k : spirv[m].op # "Label"
    BY DEF Within
  <1>2. \A m \in l + 1 .. k + 1 : m \in l + 1 .. k \/ m = k + 1
    OBVIOUS
  <1>3. \A m \in l + 1 .. k + 1 : spirv[m].op # "Label"
    BY <1>1, <1>2
  <1> QED BY <1>1, <1>3 DEF Within

\* A header that was lost stays lost.
LEMMA StaysLost ==
  ASSUME spirv' = spirv, DOMAIN blocks \subseteq DOMAIN blocks',
         \A b \in DOMAIN blocks : blocks[b].terminator # "Unknown" =>
           blocks'[b].terminator = blocks[b].terminator /\ blocks'[b].merge = blocks[b].merge
  PROVE  Collapsed' = {} => Collapsed = {}
  <1> SUFFICES ASSUME NEW b \in Collapsed PROVE b \in Collapsed'
    OBVIOUS
  <1>1. b \in DOMAIN blocks /\ blocks[b].terminator = "Direct" /\ blocks[b].merge = "None"
        /\ \E k \in DOMAIN spirv : spirv[k].op \in Headers /\ Within(k, b)
    BY DEF Collapsed
  <1>2. blocks'[b].terminator = "Direct" /\ blocks'[b].merge = "None"
    BY <1>1
  <1> QED BY <1>1, <1>2, WithinKept DEF Collapsed

\* After a header comes its branch.
LEMMA AfterHeader ==
  ASSUME Closed, BlocksRead, Structured(spirv), offset \in DOMAIN spirv,
         current_block # 0, Current.merge # "None"
  PROVE  /\ spirv[offset].op \in {"Branch", "BranchConditional", "Switch"}
         /\ Current.merge = "Selection" => spirv[offset].op # "Branch"
  <1>1. offset \in Nat \ {0} /\ DOMAIN spirv = 1 .. Len(spirv)
    BY ModulesAssumption DEF Closed, FunctionsRead
  <1>2. PICK n \in Nat : n = offset - 1
    BY <1>1
  <1>3. Within(n, current_block) /\ spirv[n].op \in Headers
        /\ (Current.merge = "Selection" => spirv[n].op = "SelectionMerge")
    BY <1>2 DEF BlocksRead
  <1>4. n \in DOMAIN spirv
    <2>1. n >= 1
      BY <1>3 DEF Within
    <2>2. PICK m : m = Len(spirv) /\ DOMAIN spirv = 1 .. m
      BY <1>1
    <2>3. offset \in 1 .. m
      BY <2>2
    <2> QED BY <1>1, <1>2, <2>1, <2>2, <2>3
  <1>5. n + 1 = offset
    BY <1>1, <1>2
  <1>6. /\ spirv[n].op = "SelectionMerge" => spirv[offset].op \in {"BranchConditional", "Switch"}
        /\ spirv[n].op = "LoopMerge" => spirv[offset].op \in {"Branch", "BranchConditional"}
    BY <1>4, <1>5 DEF Structured
  <1> QED BY <1>3, <1>6 DEF Headers

\* A step that writes no header changes nothing that is said.
LEMMA QuietSays ==
  ASSUME Closed, HeadersSay, spirv' = spirv, block_meta' = block_meta, current_block' = current_block,
         DOMAIN blocks' = DOMAIN blocks,
         \A b \in DOMAIN blocks : DOMAIN blocks'[b] = DOMAIN blocks[b] /\ SameHeader(blocks'[b], blocks[b]),
         \/ offset' = offset /\ ignore_trailing_block_opcodes' = ignore_trailing_block_opcodes
         \/ /\ offset' = offset + 1 /\ ignore_trailing_block_opcodes' = FALSE
            /\ current_block # 0 =>
                 offset \in DOMAIN spirv /\ spirv[offset].op # "Label" /\ spirv[offset].op \notin Terminators
  PROVE  HeadersSay'
  <1> SUFFICES ASSUME Structured(spirv) PROVE BlocksRead' /\ HeadersRead' /\ MetaSaid'
    BY DEF HeadersSay, Structured
  <1>1. BlocksRead /\ HeadersRead /\ MetaSaid
    BY DEF HeadersSay
  <1>2. PICK n \in Nat : n = offset - 1 /\ offset = n + 1
    BY DEF Closed, FunctionsRead
  <1>3. PICK m \in Nat : m = offset' - 1 /\ (m = n \/ (m = n + 1 /\ offset' = offset + 1))
    BY <1>2
  <1>4. \A k \in 1 .. n : k \in 1 .. m
    BY <1>3
  <1>5. \A k, b : Within(k, b)' = Within(k, b)
    BY WithinKept
  <1>6. \A b \in DOMAIN blocks : blocks'[b].terminator = blocks[b].terminator /\ blocks'[b].merge = blocks[b].merge
          /\ blocks'[b].true_block = blocks[b].true_block /\ blocks'[b].next_block = blocks[b].next_block
    BY DEF SameHeader
  <1>7. BlocksRead'
    <2>1. \A b \in DOMAIN blocks' : DOMAIN blocks'[b] = DOMAIN NewBlock
      BY <1>1 DEF BlocksRead
    <2>2. \A b \in DOMAIN blocks' : \E l \in 1 .. m : spirv[l].op = "Label" /\ spirv[l].id = b
      BY <1>1, <1>2, <1>4 DEF BlocksRead
    <2>3. ignore_trailing_block_opcodes' => current_block = 0
      BY <1>1 DEF BlocksRead
    <2>4. ASSUME current_block # 0
          PROVE  /\ Within(m, current_block)
                 /\ Current'.terminator = "Unknown" /\ Current'.true_block = 0
                 /\ Current'.merge # "None" => spirv[m].op \in Headers
                 /\ Current'.merge = "Selection" => spirv[m].op = "SelectionMerge"
      <3>1. /\ Within(n, current_block) /\ Current.terminator = "Unknown" /\ Current.true_block = 0
            /\ Current.merge # "None" => spirv[n].op \in Headers
            /\ Current.merge = "Selection" => spirv[n].op = "SelectionMerge"
        BY <1>1, <1>2, <2>4 DEF BlocksRead
      <3>2. current_block \in DOMAIN blocks
        BY <2>4, InBlock
      <3>3. Current'.terminator = Current.terminator /\ Current'.true_block = Current.true_block
            /\ Current'.merge = Current.merge
        BY <1>6, <3>2 DEF Current
      <3>4. CASE m = n
        BY <3>1, <3>3, <3>4
      <3>5. CASE m = n + 1 /\ offset' = offset + 1
        <4>1. offset \in DOMAIN spirv /\ spirv[n + 1].op # "Label" /\ spirv[offset].op \notin Terminators
          BY <1>2, <2>4, <3>5
        <4>2. Within(m, current_block)
          BY <3>1, <3>5, <4>1, WithinNext
        <4>3. Current.merge = "None"
          BY <1>1, <2>4, <4>1, AfterHeader DEF Terminators
        <4> QED BY <3>1, <3>3, <4>2, <4>3
      <3> QED BY <1>3, <3>4, <3>5
    <2> QED BY <1>3, <1>5, <2>1, <2>2, <2>3, <2>4 DEF BlocksRead
  <1>8. HeadersRead'
    <2>1. ASSUME NEW b \in DOMAIN blocks
          PROVE  /\ blocks'[b].merge # "None" =>
                      \E k \in 1 .. m : spirv[k].op \in Headers /\ Within(k, b)
                 /\ blocks'[b].merge = "Selection" =>
                      \E k \in 1 .. m : spirv[k].op = "SelectionMerge" /\ Within(k, b)
                                        /\ spirv[k].merge = blocks'[b].next_block
      <3>1. /\ blocks[b].merge # "None" =>
                 \E k \in 1 .. n : spirv[k].op \in Headers /\ Within(k, b)
            /\ blocks[b].merge = "Selection" =>
                 \E k \in 1 .. n : spirv[k].op = "SelectionMerge" /\ Within(k, b)
                                   /\ spirv[k].merge = blocks[b].next_block
        BY <1>1, <1>2 DEF HeadersRead
      <3> QED BY <1>4, <1>6, <3>1
    <2> QED BY <1>3, <1>5, <2>1 DEF HeadersRead
  <1>9. MetaSaid'
    <2>1. Collapsed' = {} => Collapsed = {}
      BY <1>6, StaysLost
    <2>2. \A b : Said(b)' = Said(b)
      <3>1. \A h \in DOMAIN blocks : \A b : SaidBy(h, b)' = SaidBy(h, b)
        BY SameSays
      <3> QED BY <3>1 DEF Said
    <2> QED BY <1>1, <2>1, <2>2 DEF MetaSaid
  <1> QED BY <1>7, <1>8, <1>9
\* A step that writes the open block, which it may end.
LEMMA BlockSays ==
  ASSUME Closed, BlocksRead, HeadersRead, spirv' = spirv, current_block # 0,
         offset \in DOMAIN spirv, offset' = offset + 1, spirv[offset].op # "Label",
         NEW block, blocks' = [blocks EXCEPT ![current_block] = block], DOMAIN block = DOMAIN NewBlock,
         current_block' \in {0, current_block}, ignore_trailing_block_opcodes' => current_block' = 0,
         current_block' # 0 =>
           /\ block.terminator = "Unknown" /\ block.true_block = 0
           /\ spirv[offset].op \in Headers
           /\ block.merge = "Selection" => spirv[offset].op = "SelectionMerge",
         block.merge # "None" => block.merge = Current.merge \/ spirv[offset].op \in Headers,
         block.merge = "Selection" =>
           \/ Current.merge = "Selection" /\ block.next_block = Current.next_block
           \/ spirv[offset].op = "SelectionMerge" /\ spirv[offset].merge = block.next_block
  PROVE  BlocksRead' /\ HeadersRead'
  <1>1. PICK n \in Nat : n = offset - 1 /\ offset = n + 1 /\ offset' - 1 = n + 1
    BY DEF Closed, FunctionsRead
  <1>2. PICK c : c = current_block /\ c \in DOMAIN blocks /\ c # 0
    BY InBlock
  <1>3. \A k \in 1 .. n : k \in 1 .. n + 1
    OBVIOUS
  <1>4. n + 1 \in 1 .. n + 1
    OBVIOUS
  <1>5. \A k, b : Within(k, b)' = Within(k, b)
    BY WithinKept
  <1>6. /\ DOMAIN blocks' = DOMAIN blocks /\ blocks'[c] = block
        /\ \A b \in DOMAIN blocks : b # c => blocks'[b] = blocks[b]
    BY <1>2
  <1>7. Within(n + 1, c)
    <2>1. Within(n, c)
      BY <1>1, <1>2 DEF BlocksRead
    <2> QED BY <1>1, <2>1, WithinNext
  <1>8. BlocksRead'
    <2>1. \A b \in DOMAIN blocks' : DOMAIN blocks'[b] = DOMAIN NewBlock
      BY <1>2, <1>6 DEF BlocksRead
    <2>2. \A b \in DOMAIN blocks' : \E l \in 1 .. n + 1 : spirv[l].op = "Label" /\ spirv[l].id = b
      BY <1>1, <1>3, <1>6 DEF BlocksRead
    <2>3. current_block' # 0 => current_block' = c /\ Current' = block
      BY <1>2, <1>6 DEF Current
    <2> QED BY <1>1, <1>5, <1>7, <2>1, <2>2, <2>3 DEF BlocksRead
  <1>9. HeadersRead'
    <2>1. ASSUME NEW b \in DOMAIN blocks
          PROVE  /\ blocks'[b].merge # "None" =>
                      \E k \in 1 .. n + 1 : spirv[k].op \in Headers /\ Within(k, b)
                 /\ blocks'[b].merge = "Selection" =>
                      \E k \in 1 .. n + 1 : spirv[k].op = "SelectionMerge" /\ Within(k, b)
                                            /\ spirv[k].merge = blocks'[b].next_block
      <3>1. /\ blocks[b].merge # "None" =>
                 \E k \in 1 .. n : spirv[k].op \in Headers /\ Within(k, b)
            /\ blocks[b].merge = "Selection" =>
                 \E k \in 1 .. n : spirv[k].op = "SelectionMerge" /\ Within(k, b)
                                   /\ spirv[k].merge = blocks[b].next_block
        BY <1>1 DEF HeadersRead
      <3>2. CASE b # c
        BY <1>3, <1>6, <3>1, <3>2
      <3>3. CASE b = c
        <4>1. /\ block.merge # "None" => blocks[c].merge = block.merge \/ spirv[n + 1].op \in Headers
              /\ block.merge = "Selection" =>
                   \/ blocks[c].merge = "Selection" /\ block.next_block = blocks[c].next_block
                   \/ spirv[n + 1].op = "SelectionMerge" /\ spirv[n + 1].merge = block.next_block
          BY <1>1, <1>2 DEF Current
        <4> QED BY <1>3, <1>4, <1>6, <1>7, <3>1, <3>3, <4>1
      <3> QED BY <3>2, <3>3
    <2> QED BY <1>1, <1>5, <1>6, <2>1 DEF HeadersRead
  <1> QED BY <1>8, <1>9

\* What is said of a block is what the others say and what one says.
SaidByOthers(c, b) == UNION {SaidBy(h, b) : h \in DOMAIN blocks \ {c}}

LEMMA SaidNow ==
  ASSUME NEW c, c \in DOMAIN blocks, NEW b
  PROVE  Said(b) = SaidByOthers(c, b) \cup SaidBy(c, b)
  <1>1. ASSUME NEW x \in Said(b) PROVE x \in SaidByOthers(c, b) \cup SaidBy(c, b)
    <2>1. PICK h \in DOMAIN blocks : x \in SaidBy(h, b)
      BY <1>1 DEF Said
    <2> QED BY <2>1 DEF SaidByOthers
  <1>2. ASSUME NEW x \in SaidByOthers(c, b) \cup SaidBy(c, b) PROVE x \in Said(b)
    BY <1>2 DEF Said, SaidByOthers
  <1> QED BY <1>1, <1>2

\* Afterwards, too, and the others have said it before.
LEMMA SaidThen ==
  ASSUME NEW c, c \in DOMAIN blocks, DOMAIN blocks' = DOMAIN blocks,
         \A h \in DOMAIN blocks : h # c => blocks'[h] = blocks[h], NEW b
  PROVE  Said(b)' = SaidByOthers(c, b) \cup SaidBy(c, b)'
  <1>1. \A h \in DOMAIN blocks : h # c => SaidBy(h, b)' = SaidBy(h, b)
    BY DEF SaidBy
  <1>2. ASSUME NEW x \in Said(b)' PROVE x \in SaidByOthers(c, b) \cup SaidBy(c, b)'
    <2>1. PICK h \in DOMAIN blocks : x \in SaidBy(h, b)'
      BY <1>2 DEF Said
    <2>2. CASE h = c
      BY <2>1, <2>2
    <2>3. CASE h # c
      BY <1>1, <2>1, <2>3 DEF SaidByOthers
    <2> QED BY <2>2, <2>3
  <1>3. ASSUME NEW x \in SaidByOthers(c, b) \cup SaidBy(c, b)' PROVE x \in Said(b)'
    <2>1. CASE x \in SaidByOthers(c, b)
      <3>1. PICK h \in DOMAIN blocks \ {c} : x \in SaidBy(h, b)
        BY <2>1 DEF SaidByOthers
      <3>2. x \in SaidBy(h, b)'
        BY <1>1, <3>1
      <3> QED BY <3>2 DEF Said
    <2>2. CASE x \in SaidBy(c, b)'
      BY <2>2 DEF Said
    <2> QED BY <1>3, <2>1, <2>2
  <1> QED BY <1>2, <1>3

\* Headers and ends that only add to what is said.
LEMMA AddsSaid ==
  ASSUME Closed, BlocksRead, MetaSaid, spirv' = spirv, current_block # 0,
         NEW c, c = current_block, NEW block, blocks' = [blocks EXCEPT ![c] = block],
         DOMAIN block_meta' = DOMAIN block_meta,
         \A b \in Block : /\ SaidBy(c, b) \subseteq SaidBy(c, b)'
                          /\ block_meta[b] \subseteq block_meta'[b]
                          /\ block_meta'[b] \subseteq block_meta[b] \cup SaidBy(c, b)'
                          /\ SaidBy(c, b)' \subseteq block_meta'[b] \cup SaidBy(c, b)
  PROVE  MetaSaid'
  <1>1. c \in DOMAIN blocks /\ blocks[c].terminator = "Unknown"
    BY InBlock DEF BlocksRead, Current
  <1>2. /\ DOMAIN blocks' = DOMAIN blocks
        /\ \A h \in DOMAIN blocks : h # c => blocks'[h] = blocks[h]
    BY <1>1
  <1>3. Collapsed' = {} => Collapsed = {}
    BY <1>1, <1>2, StaysLost
  <1>4. ASSUME NEW b \in Block, block_meta[b] = Said(b)
        PROVE  block_meta'[b] = Said(b)'
    <2>1. PICK U, x, y : U = SaidByOthers(c, b) /\ x = SaidBy(c, b) /\ y = SaidBy(c, b)'
      OBVIOUS
    <2>2. Said(b)' = U \cup y /\ Said(b) = U \cup x
      BY <1>1, <1>2, <2>1, SaidThen, SaidNow
    <2>3. PICK p, q : p = block_meta[b] /\ q = block_meta'[b]
      OBVIOUS
    <2>4. p = U \cup x /\ p \subseteq q /\ q \subseteq p \cup y /\ y \subseteq q \cup x /\ x \subseteq y
      BY <1>4, <2>1, <2>2, <2>3
    <2>5. q = U \cup y
      BY <2>4
    <2> QED BY <2>2, <2>3, <2>5
  <1> QED BY <1>3, <1>4 DEF MetaSaid
\* The parser reads instructions of the module.
LEMMA AtInstruction ==
  ASSUME Closed, offset <= Len(spirv)
  PROVE  offset \in DOMAIN spirv
  <1>1. offset \in Nat \ {0} /\ DOMAIN spirv = 1 .. Len(spirv)
    BY ModulesAssumption DEF Closed, FunctionsRead
  <1>2. DOMAIN spirv = 1 .. Len(spirv) => \A k \in Nat \ {0} : k <= Len(spirv) => k \in 1 .. Len(spirv)
    OBVIOUS
  <1> QED BY <1>1, <1>2

\* The steps that neither open, head nor end a block.
LEMMA QuietSteps ==
  ASSUME Closed, HeadersSay,
         ParseThrows \/ ParseEnd \/ ParseIgnored \/ ParseEntryPoint \/ ParseFunction
           \/ ParseFunctionParameter \/ ParseFunctionEnd \/ ParseVariable \/ ParsePhi \/ ParseOp
  PROVE  HeadersSay'
  <1>1. CASE ParseThrows \/ ParseEnd
    BY <1>1, QuietSays DEF ParseThrows, ParseEnd, ir, parsing, SameHeader
  <1>2. CASE ParseIgnored
    <2>1. /\ Read /\ UNCHANGED <<blocks, block_meta, current_block>> /\ ignore_trailing_block_opcodes
      BY <1>2 DEF ParseIgnored, Ignored, ir
    <2>2. CASE Structured(spirv)
      <3>1. current_block = 0
        BY <2>1, <2>2 DEF HeadersSay, BlocksRead
      <3> QED BY <2>1, <3>1, QuietSays DEF Read, SameHeader
    <2>3. CASE ~Structured(spirv)
      BY <2>1, <2>3 DEF HeadersSay, Structured, Read
    <2> QED BY <2>2, <2>3
  <1>3. CASE ParseEntryPoint \/ ParseFunction \/ ParseFunctionParameter \/ ParseVariable
    <2>1. /\ Read /\ UNCHANGED <<blocks, block_meta, current_block>> /\ offset <= Len(spirv)
          /\ spirv[offset].op \in {"EntryPoint", "Function", "FunctionParameter", "Variable"}
      BY <1>3 DEF ParseEntryPoint, ParseFunction, ParseFunctionParameter, ParseVariable,
                  Parses, Parsing, Instruction
    <2>2. spirv[offset].op # "Label" /\ spirv[offset].op \notin Terminators
      BY <2>1 DEF Terminators, PlainTerminators
    <2> QED BY <2>1, <2>2, AtInstruction, QuietSays DEF Read, SameHeader
  <1>4. CASE ParseFunctionEnd
    <2>1. /\ Read /\ UNCHANGED <<blocks, block_meta, current_block>> /\ offset <= Len(spirv)
          /\ spirv[offset].op = "FunctionEnd"
      BY <1>4 DEF ParseFunctionEnd, Parses, Parsing, Instruction, ir
    <2>2. spirv[offset].op # "Label" /\ spirv[offset].op \notin Terminators
      BY <2>1 DEF Terminators, PlainTerminators
    <2> QED BY <2>1, <2>2, AtInstruction, QuietSays DEF Read, SameHeader
  <1>5. CASE ParsePhi
    <2>1. /\ Read /\ UNCHANGED <<block_meta, current_block>> /\ offset <= Len(spirv)
          /\ spirv[offset].op = "Phi"
      BY <1>5 DEF ParsePhi, Parses, Parsing, Instruction
    <2>2. spirv[offset].op # "Label" /\ spirv[offset].op \notin Terminators
      BY <2>1 DEF Terminators, PlainTerminators
    <2>3. /\ DOMAIN blocks' = DOMAIN blocks
          /\ \A b \in DOMAIN blocks : DOMAIN blocks'[b] = DOMAIN blocks[b] /\ SameHeader(blocks'[b], blocks[b])
      BY <1>5 DEF ParsePhi, SameHeader
    <2> QED BY <2>1, <2>2, <2>3, AtInstruction, QuietSays DEF Read
  <1>6. CASE ParseOp
    <2>1. /\ Read /\ UNCHANGED <<block_meta, current_block>> /\ offset <= Len(spirv)
          /\ spirv[offset].op \notin Structural \ Anywhere
      BY <1>6 DEF ParseOp, Parsing, Instruction
    <2>2. spirv[offset].op # "Label" /\ spirv[offset].op \notin Terminators
      BY <2>1 DEF Structural, Anywhere, Terminators, PlainTerminators
    <2>3. /\ DOMAIN blocks' = DOMAIN blocks
          /\ \A b \in DOMAIN blocks : DOMAIN blocks'[b] = DOMAIN blocks[b] /\ SameHeader(blocks'[b], blocks[b])
      BY <1>6 DEF ParseOp, SameHeader
    <2> QED BY <2>1, <2>2, <2>3, AtInstruction, QuietSays DEF Read
  <1> QED BY <1>1, <1>2, <1>3, <1>4, <1>5, <1>6

\* A header comes first in saying anything of its block.
LEMMA HeadersSaid == ASSUME Closed, HeadersSay, ParseSelectionMerge \/ ParseLoopMerge PROVE HeadersSay'
  <1> SUFFICES ASSUME Structured(spirv) PROVE BlocksRead' /\ HeadersRead' /\ MetaSaid'
    BY DEF HeadersSay, Structured, ParseSelectionMerge, ParseLoopMerge, Read
  <1>1. BlocksRead /\ HeadersRead /\ MetaSaid
    BY DEF HeadersSay
  <1>2. /\ Read /\ UNCHANGED current_block /\ offset <= Len(spirv)
        /\ spirv[offset].op \in Headers
    BY DEF ParseSelectionMerge, ParseLoopMerge, Parses, Parsing, Instruction, Headers
  <1>3. current_block # 0
    BY NeedsOpenBlock DEF ParseSelectionMerge, ParseLoopMerge, Headers
  <1>4. PICK c : c = current_block /\ c \in DOMAIN blocks /\ c # 0
    BY <1>3, InBlock
  <1>5. PICK r : r = Current /\ r = blocks[c] /\ DOMAIN r = DOMAIN NewBlock
    BY <1>1, <1>4 DEF BlocksRead, Current
  <1>6. offset \in DOMAIN spirv /\ spirv[offset].op # "Label"
    BY <1>2, AtInstruction DEF Headers
  <1>7. r.merge = "None" /\ r.terminator = "Unknown" /\ r.true_block = 0
    BY <1>1, <1>2, <1>3, <1>5, <1>6, AfterHeader DEF BlocksRead, Headers
  <1>8. \A b : SaidBy(c, b) = {}
    BY <1>5, <1>7, SaysNothing
  <1>9. CASE ParseSelectionMerge
    <2>1. PICK m : m = Instruction.merge /\ m = spirv[offset].merge /\ spirv[offset].op = "SelectionMerge"
      BY <1>9 DEF ParseSelectionMerge, Parses, Instruction
    <2>2. PICK block : block = [r EXCEPT !.next_block = m, !.merge = "Selection"]
      OBVIOUS
    <2>3. /\ DOMAIN block = DOMAIN NewBlock /\ block.merge = "Selection" /\ block.next_block = m
          /\ block.terminator = "Unknown" /\ block.true_block = 0
      BY <1>5, <1>7, <2>2 DEF NewBlock
    <2>4. blocks' = [blocks EXCEPT ![c] = block]
      BY <1>4, <1>5, <1>9, <2>1, <2>2 DEF ParseSelectionMerge
    <2>5. BlocksRead' /\ HeadersRead'
      BY <1>1, <1>2, <1>3, <1>4, <1>6, <2>1, <2>3, <2>4, BlockSays DEF Read
    <2>6. blocks'[c] = block
      BY <1>4, <2>4
    <2>7. \A b : SaidBy(c, b)' = IF b = m THEN {"SELECTION_MERGE"} ELSE {}
      BY <2>3, <2>6 DEF SaidBy, Says
    <2>8. /\ DOMAIN block_meta' = DOMAIN block_meta
          /\ \A b \in Block : block_meta'[b] = IF b = m THEN block_meta[b] \cup {"SELECTION_MERGE"} ELSE block_meta[b]
      BY <1>1, <1>9, <2>1 DEF ParseSelectionMerge, MetaSaid
    <2>9. MetaSaid'
      BY <1>1, <1>2, <1>3, <1>4, <1>8, <2>4, <2>7, <2>8, AddsSaid DEF Read
    <2> QED BY <2>5, <2>9
  <1>10. CASE ParseLoopMerge
    <2>1. PICK m, k : m = Instruction.merge /\ k = Instruction.continue
      OBVIOUS
    <2>2. PICK block : block = [r EXCEPT !.merge_block = m, !.continue_block = k, !.merge = "Loop"]
      OBVIOUS
    <2>3. /\ DOMAIN block = DOMAIN NewBlock /\ block.merge = "Loop" /\ block.merge_block = m
          /\ block.continue_block = k /\ block.terminator = "Unknown" /\ block.true_block = 0
      BY <1>5, <1>7, <2>2 DEF NewBlock
    <2>4. blocks' = [blocks EXCEPT ![c] = block]
      BY <1>4, <1>5, <1>10, <2>1, <2>2 DEF ParseLoopMerge
    <2>5. BlocksRead' /\ HeadersRead'
      BY <1>1, <1>2, <1>3, <1>4, <1>6, <2>3, <2>4, BlockSays DEF Read
    <2>6. blocks'[c] = block
      BY <1>4, <2>4
    <2>7. \A b : SaidBy(c, b)' = (IF b = c THEN {"LOOP_HEADER"} ELSE {}) \cup (IF b = m THEN {"LOOP_MERGE"} ELSE {})
                                   \cup (IF b = k /\ b # c THEN {"CONTINUE"} ELSE {})
      BY <2>3, <2>6 DEF SaidBy, Says
    <2>8. /\ DOMAIN block_meta' = DOMAIN block_meta
          /\ \A b \in Block :
               block_meta'[b] = block_meta[b] \cup (IF b = c THEN {"LOOP_HEADER"} ELSE {})
                                  \cup (IF b = m THEN {"LOOP_MERGE"} ELSE {})
                                  \cup (IF b = k /\ b # c THEN {"CONTINUE"} ELSE {})
      <3>1. block_meta' = [block_meta EXCEPT ![c] = @ \cup {"LOOP_HEADER"}, ![m] = @ \cup {"LOOP_MERGE"},
                                             ![k] = @ \cup ContinueBit(k)]
        BY <1>4, <1>10, <2>1 DEF ParseLoopMerge
      <3>2. ContinueBit(k) = IF k = c THEN {} ELSE {"CONTINUE"}
        BY <1>4 DEF ContinueBit
      <3> QED BY <1>1, <3>1, <3>2 DEF MetaSaid
    <2>9. ASSUME NEW b \in Block
          PROVE  /\ SaidBy(c, b) \subseteq SaidBy(c, b)'
                 /\ block_meta[b] \subseteq block_meta'[b]
                 /\ block_meta'[b] \subseteq block_meta[b] \cup SaidBy(c, b)'
                 /\ SaidBy(c, b)' \subseteq block_meta'[b] \cup SaidBy(c, b)
      <3>1. PICK x : x = (IF b = c THEN {"LOOP_HEADER"} ELSE {}) \cup (IF b = m THEN {"LOOP_MERGE"} ELSE {})
                           \cup (IF b = k /\ b # c THEN {"CONTINUE"} ELSE {})
        OBVIOUS
      <3>2. SaidBy(c, b)' = x
        BY <2>7, <3>1
      <3>3. block_meta'[b] = block_meta[b] \cup x
        BY <2>8, <3>1
      <3> QED BY <1>8, <3>2, <3>3
    <2>10. MetaSaid'
      BY <1>1, <1>2, <1>3, <1>4, <2>4, <2>8, <2>9, AddsSaid DEF Read
    <2> QED BY <2>5, <2>10
  <1> QED BY <1>9, <1>10
\* What an instruction finds that ends the open block.
LEMMA AtEnd ==
  ASSUME Closed, HeadersSay, Structured(spirv), NEW ops, Parses(ops), ops \subseteq Terminators
  PROVE  /\ current_block # 0 /\ current_block \in DOMAIN blocks /\ Current = blocks[current_block]
         /\ DOMAIN Current = DOMAIN NewBlock /\ Current.terminator = "Unknown" /\ Current.true_block = 0
         /\ offset \in DOMAIN spirv /\ spirv[offset].op \in ops /\ spirv[offset].op # "Label"
         /\ BlocksRead /\ HeadersRead /\ MetaSaid
  <1>1. current_block # 0 /\ current_block \in DOMAIN blocks /\ Current = blocks[current_block]
    BY NeedsOpenBlock, InBlock DEF Current
  <1>2. offset <= Len(spirv) /\ spirv[offset].op \in ops
    BY DEF Parses, Parsing, Instruction
  <1>3. spirv[offset].op # "Label"
    BY <1>2 DEF Terminators, PlainTerminators
  <1> QED BY <1>1, <1>2, <1>3, AtInstruction DEF HeadersSay, BlocksRead

\* The parser's last instruction tells its successor whether to be skipped only
\* when the block is closed.
LEMMA EndSays ==
  ASSUME Closed, HeadersSay, Structured(spirv), NEW ops, Parses(ops), ops \subseteq Terminators, ReadsOne,
         NEW block, EndBlock(block), DOMAIN block = DOMAIN NewBlock,
         block.merge # "None" => block.merge = Current.merge,
         block.merge = "Selection" => block.next_block = Current.next_block
  PROVE  BlocksRead' /\ HeadersRead'
  <1>1. blocks' = [blocks EXCEPT ![current_block] = block] /\ current_block' = 0
    BY DEF EndBlock
  <1> QED BY <1>1, AtEnd, BlockSays DEF ReadsOne

\* Ends that say nothing of other blocks: what the header said remains.
LEMMA PlainSays ==
  ASSUME Closed, HeadersSay, ParsePlainTerminator \/ ParseBranch \/ ParseBranchConditional
  PROVE  HeadersSay'
  <1> SUFFICES ASSUME Structured(spirv) PROVE BlocksRead' /\ HeadersRead' /\ MetaSaid'
    BY DEF HeadersSay, Structured, ParsePlainTerminator, ParseBranch, ParseBranchConditional, Read
  <1>1. PICK ops : /\ Parses(ops) /\ ops \subseteq Terminators
                   /\ ParsePlainTerminator => ops = DOMAIN PlainTerminators
                   /\ ParseBranch => ops = {"Branch"}
                   /\ ParseBranchConditional => ops = {"BranchConditional"}
    <2>1. CASE ParsePlainTerminator
      <3>1. \A o \in DOMAIN PlainTerminators : o \notin {"Branch", "BranchConditional"}
        BY DEF PlainTerminators
      <3> QED BY <2>1, <3>1 DEF ParsePlainTerminator, ParseBranch, ParseBranchConditional, Parses, Terminators
    <2>2. CASE ParseBranch
      <3>1. Instruction.op = "Branch" /\ "Branch" \notin DOMAIN PlainTerminators
        BY <2>2 DEF ParseBranch, Parses, PlainTerminators
      <3> QED BY <2>2, <3>1 DEF ParsePlainTerminator, ParseBranch, ParseBranchConditional, Parses, Terminators
    <2>3. CASE ParseBranchConditional
      <3>1. Instruction.op = "BranchConditional" /\ "BranchConditional" \notin DOMAIN PlainTerminators
        BY <2>3 DEF ParseBranchConditional, Parses, PlainTerminators
      <3> QED BY <2>3, <3>1 DEF ParsePlainTerminator, ParseBranch, ParseBranchConditional, Parses, Terminators
    <2> QED BY <2>1, <2>2, <2>3
  <1>2. /\ current_block # 0 /\ current_block \in DOMAIN blocks /\ Current = blocks[current_block]
        /\ DOMAIN Current = DOMAIN NewBlock /\ Current.terminator = "Unknown" /\ Current.true_block = 0
        /\ offset \in DOMAIN spirv /\ spirv[offset].op \in ops
        /\ BlocksRead /\ HeadersRead /\ MetaSaid
    BY <1>1, AtEnd
  <1>3. PICK c, r : c = current_block /\ r = Current /\ r = blocks[c] /\ c \in DOMAIN blocks
    BY <1>2
  <1>4. ReadsOne /\ UNCHANGED block_meta
    BY DEF ParsePlainTerminator, ParseBranch, ParseBranchConditional, Read, ReadsOne
  <1>5. PICK block : /\ EndBlock(block) /\ DOMAIN block = DOMAIN NewBlock
                     /\ block.merge = r.merge
                     /\ r.merge = "Selection" => block.next_block = r.next_block
                     /\ \A b : Says(block, c, b) = Says(r, c, b)
    <2>1. CASE ParsePlainTerminator
      <3>1. PICK t : t = PlainTerminators[Instruction.op] /\ t # "MultiSelect"
        <4>1. Instruction.op \in DOMAIN PlainTerminators
          BY <2>1 DEF ParsePlainTerminator, Parses
        <4> QED BY <4>1 DEF PlainTerminators
      <3>2. PICK block : block = [r EXCEPT !.terminator = t]
        OBVIOUS
      <3>3. EndBlock(block)
        BY <1>3, <2>1, <3>1, <3>2 DEF ParsePlainTerminator
      <3>4. /\ DOMAIN block = DOMAIN NewBlock /\ block.merge = r.merge /\ block.next_block = r.next_block
            /\ block.merge_block = r.merge_block /\ block.continue_block = r.continue_block /\ block.terminator = t
        BY <1>2, <1>3, <3>2 DEF NewBlock
      <3>5. \A b : Says(block, c, b) = Says(r, c, b)
        BY <1>2, <1>3, <3>1, <3>4 DEF Says
      <3> QED BY <3>3, <3>4, <3>5
    <2>2. CASE ParseBranch
      <3>1. PICK block : block = [r EXCEPT !.terminator = "Direct", !.next_block = Instruction.target]
        OBVIOUS
      <3>2. EndBlock(block)
        BY <1>3, <2>2, <3>1 DEF ParseBranch
      <3>3. /\ DOMAIN block = DOMAIN NewBlock /\ block.merge = r.merge
            /\ block.merge_block = r.merge_block /\ block.continue_block = r.continue_block
            /\ block.terminator = "Direct"
        BY <1>2, <1>3, <3>1 DEF NewBlock
      <3>4. r.merge # "Selection"
        <4>1. spirv[offset].op = "Branch"
          BY <1>1, <1>2, <2>2
        <4> QED BY <1>2, <1>3, <4>1, AfterHeader
      <3>5. \A b : Says(block, c, b) = Says(r, c, b)
        BY <1>2, <1>3, <3>3, <3>4 DEF Says
      <3> QED BY <3>2, <3>3, <3>4, <3>5
    <2>3. CASE ParseBranchConditional
      <3>1. PICK block : block = [r EXCEPT !.terminator = "Select", !.true_block = Instruction.true,
                                           !.false_block = Instruction.false]
        OBVIOUS
      <3>2. EndBlock(block)
        BY <1>3, <2>3, <3>1 DEF ParseBranchConditional
      <3>3. /\ DOMAIN block = DOMAIN NewBlock /\ block.merge = r.merge /\ block.next_block = r.next_block
            /\ block.merge_block = r.merge_block /\ block.continue_block = r.continue_block
            /\ block.terminator = "Select"
        BY <1>2, <1>3, <3>1 DEF NewBlock
      <3>4. \A b : Says(block, c, b) = Says(r, c, b)
        BY <1>2, <1>3, <3>3 DEF Says
      <3> QED BY <3>2, <3>3, <3>4
    <2> QED BY <2>1, <2>2, <2>3
  <1>6. BlocksRead' /\ HeadersRead'
    BY <1>1, <1>3, <1>4, <1>5, EndSays
  <1>7. blocks' = [blocks EXCEPT ![c] = block] /\ blocks'[c] = block
    BY <1>3, <1>5 DEF EndBlock
  <1>8. \A b : SaidBy(c, b)' = SaidBy(c, b)
    BY <1>3, <1>5, <1>7 DEF SaidBy, Says
  <1>9. MetaSaid'
    BY <1>2, <1>3, <1>4, <1>7, <1>8, AddsSaid DEF ReadsOne
  <1> QED BY <1>6, <1>9

LEMMA SwitchSays == ASSUME Closed, HeadersSay, ParseSwitch PROVE HeadersSay'
  <1> SUFFICES ASSUME Structured(spirv) PROVE BlocksRead' /\ HeadersRead' /\ MetaSaid'
    BY DEF HeadersSay, Structured, ParseSwitch, Read
  <1>1. Parses({"Switch"}) /\ {"Switch"} \subseteq Terminators /\ ReadsOne
    BY DEF ParseSwitch, Terminators, Read, ReadsOne
  <1>2. /\ current_block # 0 /\ current_block \in DOMAIN blocks /\ Current = blocks[current_block]
        /\ DOMAIN Current = DOMAIN NewBlock /\ Current.terminator = "Unknown" /\ Current.true_block = 0
        /\ BlocksRead /\ HeadersRead /\ MetaSaid
    BY <1>1, AtEnd
  <1>3. PICK c, r : c = current_block /\ r = Current /\ r = blocks[c] /\ c \in DOMAIN blocks
    BY <1>2
  <1>4. PICK block : block = [r EXCEPT !.terminator = "MultiSelect", !.default_block = Instruction.default,
                                       !.cases = Instruction.cases]
    OBVIOUS
  <1>5. EndBlock(block)
    BY <1>3, <1>4 DEF ParseSwitch
  <1>6. /\ DOMAIN block = DOMAIN NewBlock /\ block.merge = r.merge /\ block.next_block = r.next_block
        /\ block.merge_block = r.merge_block /\ block.continue_block = r.continue_block
        /\ block.terminator = "MultiSelect" /\ block.true_block = 0
    BY <1>2, <1>3, <1>4 DEF NewBlock
  <1>7. BlocksRead' /\ HeadersRead'
    BY <1>1, <1>3, <1>5, <1>6, EndSays
  <1>8. blocks' = [blocks EXCEPT ![c] = block] /\ blocks'[c] = block
    BY <1>3, <1>5 DEF EndBlock
  <1>9. ASSUME NEW b
        PROVE  SaidBy(c, b)' = SaidBy(c, b) \cup (IF b = r.next_block THEN {"MULTISELECT_MERGE"} ELSE {})
    <2>1. r.terminator = "Unknown"
      BY <1>2, <1>3
    <2> QED BY <1>3, <1>6, <1>8, <2>1 DEF SaidBy, Says
  <1>10. /\ DOMAIN block_meta' = DOMAIN block_meta
         /\ \A b \in Block : block_meta'[b] = block_meta[b] \cup (IF b = r.next_block THEN {"MULTISELECT_MERGE"} ELSE {})
    BY <1>2, <1>3 DEF ParseSwitch, MetaSaid
  <1>11. ASSUME NEW b \in Block
         PROVE  /\ SaidBy(c, b) \subseteq SaidBy(c, b)'
                /\ block_meta[b] \subseteq block_meta'[b]
                /\ block_meta'[b] \subseteq block_meta[b] \cup SaidBy(c, b)'
                /\ SaidBy(c, b)' \subseteq block_meta'[b] \cup SaidBy(c, b)
    <2>1. PICK x : x = IF b = r.next_block THEN {"MULTISELECT_MERGE"} ELSE {}
      OBVIOUS
    <2>2. SaidBy(c, b)' = SaidBy(c, b) \cup x
      BY <1>9, <2>1
    <2>3. block_meta'[b] = block_meta[b] \cup x
      BY <1>10, <2>1
    <2> QED BY <2>2, <2>3
  <1>12. MetaSaid'
    BY <1>1, <1>2, <1>3, <1>8, <1>10, <1>11, AddsSaid DEF ReadsOne
  <1> QED BY <1>7, <1>12
\* A selection that becomes a switch takes back what it said of its merge block,
\* which no other selection has said.
LEMMA BogusSelectionSays == ASSUME Closed, HeadersSay, ParseBogusSelection PROVE HeadersSay'
  <1> SUFFICES ASSUME Structured(spirv) PROVE BlocksRead' /\ HeadersRead' /\ MetaSaid'
    BY DEF HeadersSay, Structured, ParseBogusSelection, Read
  <1>1. Parses({"BranchConditional"}) /\ {"BranchConditional"} \subseteq Terminators /\ ReadsOne
    BY DEF ParseBogusSelection, Bogus, Terminators, Read, ReadsOne
  <1>2. /\ current_block # 0 /\ current_block \in DOMAIN blocks /\ Current = blocks[current_block]
        /\ DOMAIN Current = DOMAIN NewBlock /\ Current.terminator = "Unknown" /\ Current.true_block = 0
        /\ offset \in DOMAIN spirv /\ spirv[offset].op = "BranchConditional"
        /\ BlocksRead /\ HeadersRead /\ MetaSaid
    BY <1>1, AtEnd
  <1>3. PICK c, r, m : /\ c = current_block /\ r = Current /\ r = blocks[c] /\ c \in DOMAIN blocks
                       /\ m = r.next_block /\ r.merge = "Selection"
    BY <1>2 DEF ParseBogusSelection, LeavesSelection
  <1>4. PICK t : t = Instruction.true /\ t # 0
    BY <1>2, BlockAssumption DEF Structured, Instruction
  <1>5. PICK block : block = [r EXCEPT !.terminator = "MultiSelect", !.default_block = t,
                                       !.true_block = t, !.false_block = t]
    OBVIOUS
  <1>6. EndBlock(block)
    BY <1>3, <1>4, <1>5 DEF ParseBogusSelection
  <1>7. /\ DOMAIN block = DOMAIN NewBlock /\ block.merge = "Selection" /\ block.next_block = m
        /\ block.terminator = "MultiSelect" /\ block.true_block = t
    BY <1>2, <1>3, <1>5 DEF NewBlock
  <1>8. BlocksRead' /\ HeadersRead'
    BY <1>1, <1>3, <1>6, <1>7, EndSays
  <1>9. blocks' = [blocks EXCEPT ![c] = block] /\ blocks'[c] = block
    BY <1>3, <1>6 DEF EndBlock
  <1>10. \A b : SaidBy(c, b) = IF b = m THEN {"SELECTION_MERGE"} ELSE {}
    BY <1>2, <1>3 DEF SaidBy, Says
  <1>11. \A b : SaidBy(c, b)' = IF b = m THEN {"MULTISELECT_MERGE"} ELSE {}
    BY <1>4, <1>7, <1>9 DEF SaidBy, Says
  <1>12. /\ DOMAIN block_meta' = DOMAIN block_meta
         /\ \A b \in Block : block_meta'[b] = IF b = m THEN (block_meta[b] \ {"SELECTION_MERGE"}) \cup {"MULTISELECT_MERGE"}
                                              ELSE block_meta[b]
    BY <1>2, <1>3 DEF ParseBogusSelection, MetaSaid
  <1>13. "SELECTION_MERGE" \notin SaidByOthers(c, m)
    <2> SUFFICES ASSUME NEW h \in DOMAIN blocks, h # c, "SELECTION_MERGE" \in SaidBy(h, m) PROVE FALSE
      BY DEF SaidByOthers
    <2>1. blocks[h].merge = "Selection" /\ blocks[h].next_block = m
      BY DEF SaidBy, Says
    <2>2. PICK n \in Nat : n = offset - 1 /\ 1 .. n \subseteq DOMAIN spirv
      <3>1. offset \in Nat \ {0} /\ DOMAIN spirv = 1 .. Len(spirv)
        BY ModulesAssumption DEF Closed, FunctionsRead
      <3>2. PICK l : l = Len(spirv) /\ DOMAIN spirv = 1 .. l
        BY <3>1
      <3>3. offset \in 1 .. l
        BY <1>2, <3>2
      <3> QED BY <3>1, <3>2, <3>3
    <2>3. PICK k \in 1 .. n : spirv[k].op = "SelectionMerge" /\ Within(k, h) /\ spirv[k].merge = m
      BY <2>1, <2>2 DEF HeadersRead, HeadersSay
    <2>4. PICK l \in 1 .. n : spirv[l].op = "SelectionMerge" /\ Within(l, c) /\ spirv[l].merge = m
      BY <1>2, <1>3, <2>2 DEF HeadersRead
    <2>5. k = l
      BY <2>2, <2>3, <2>4 DEF Structured
    <2> QED BY <2>3, <2>4, <2>5, WithinOne
  <1>14. /\ DOMAIN blocks' = DOMAIN blocks
         /\ \A h \in DOMAIN blocks : h # c => blocks'[h] = blocks[h]
    BY <1>9
  <1>15. Collapsed' = {} => Collapsed = {}
    BY <1>1, <1>2, <1>3, <1>14, StaysLost DEF ReadsOne
  <1>16. ASSUME NEW b \in Block, block_meta[b] = Said(b)
         PROVE  block_meta'[b] = Said(b)'
    <2>1. PICK U, x, y : U = SaidByOthers(c, b) /\ x = SaidBy(c, b) /\ y = SaidBy(c, b)'
      OBVIOUS
    <2>2. Said(b)' = U \cup y /\ Said(b) = U \cup x
      BY <1>3, <1>14, <2>1, SaidThen, SaidNow
    <2>3. CASE b = m
      <3>1. x = {"SELECTION_MERGE"} /\ y = {"MULTISELECT_MERGE"} /\ "SELECTION_MERGE" \notin U
        BY <1>10, <1>11, <1>13, <2>1, <2>3
      <3>2. block_meta'[b] = (block_meta[b] \ {"SELECTION_MERGE"}) \cup {"MULTISELECT_MERGE"}
        BY <1>12, <2>3
      <3> QED BY <1>16, <2>2, <3>1, <3>2
    <2>4. CASE b # m
      <3>1. x = {} /\ y = {}
        BY <1>10, <1>11, <2>1, <2>4
      <3> QED BY <1>12, <1>16, <2>2, <2>4, <3>1
    <2> QED BY <2>3, <2>4
  <1>17. MetaSaid'
    BY <1>2, <1>12, <1>15, <1>16 DEF MetaSaid
  <1> QED BY <1>8, <1>17

\* A conditional that becomes a branch has no header, or loses it.
LEMMA BogusBranchSays == ASSUME Closed, HeadersSay, ParseBogusBranch PROVE HeadersSay'
  <1> SUFFICES ASSUME Structured(spirv) PROVE BlocksRead' /\ HeadersRead' /\ MetaSaid'
    BY DEF HeadersSay, Structured, ParseBogusBranch, Read
  <1>1. Parses({"BranchConditional"}) /\ {"BranchConditional"} \subseteq Terminators /\ ReadsOne
    BY DEF ParseBogusBranch, Bogus, Terminators, Read, ReadsOne
  <1>2. /\ current_block # 0 /\ current_block \in DOMAIN blocks /\ Current = blocks[current_block]
        /\ DOMAIN Current = DOMAIN NewBlock /\ Current.terminator = "Unknown" /\ Current.true_block = 0
        /\ offset \in DOMAIN spirv
        /\ BlocksRead /\ HeadersRead /\ MetaSaid
    BY <1>1, AtEnd
  <1>3. PICK c, r : c = current_block /\ r = Current /\ r = blocks[c] /\ c \in DOMAIN blocks
    BY <1>2
  <1>4. PICK block : block = [r EXCEPT !.terminator = "Direct", !.next_block = Instruction.true,
                                       !.merge = "None", !.merge_block = 0]
    OBVIOUS
  <1>5. EndBlock(block)
    BY <1>3, <1>4 DEF ParseBogusBranch
  <1>6. DOMAIN block = DOMAIN NewBlock /\ block.merge = "None" /\ block.terminator = "Direct"
    BY <1>2, <1>3, <1>4 DEF NewBlock
  <1>7. BlocksRead' /\ HeadersRead'
    BY <1>1, <1>3, <1>5, <1>6, EndSays
  <1>8. blocks' = [blocks EXCEPT ![c] = block] /\ blocks'[c] = block
    BY <1>3, <1>5 DEF EndBlock
  <1>9. CASE r.merge = "None"
    <2>1. block_meta' = block_meta
      BY <1>3, <1>9 DEF ParseBogusBranch, Collapse
    <2>2. \A b : SaidBy(c, b)' = {}
      BY <1>6, <1>8 DEF SaidBy, Says
    <2>3. \A b : SaidBy(c, b) = {}
      BY <1>2, <1>3, <1>9 DEF SaidBy, Says
    <2>4. MetaSaid'
      BY <1>1, <1>2, <1>3, <1>8, <2>1, <2>2, <2>3, AddsSaid DEF ReadsOne
    <2> QED BY <1>7, <2>4
  <1>10. CASE r.merge # "None"
    <2>1. DOMAIN block_meta' = Block \cup {0}
      BY <1>2 DEF ParseBogusBranch, Collapse, MetaSaid
    <2>2. PICK n \in Nat : n = offset - 1 /\ 1 .. n \subseteq DOMAIN spirv
      <3>1. offset \in Nat \ {0} /\ DOMAIN spirv = 1 .. Len(spirv)
        BY ModulesAssumption DEF Closed, FunctionsRead
      <3>2. PICK l : l = Len(spirv) /\ DOMAIN spirv = 1 .. l
        BY <3>1
      <3>3. offset \in 1 .. l
        BY <1>2, <3>2
      <3> QED BY <3>1, <3>2, <3>3
    <2>3. PICK k \in 1 .. n : spirv[k].op \in Headers /\ Within(k, c)
      BY <1>2, <1>3, <1>10, <2>2 DEF HeadersRead
    <2>4. spirv' = spirv /\ Within(k, c)'
      BY <1>1, <2>3, WithinKept DEF ReadsOne
    <2>5. c \in DOMAIN blocks' /\ blocks'[c].terminator = "Direct" /\ blocks'[c].merge = "None"
      BY <1>3, <1>6, <1>8
    <2>6. k \in DOMAIN spirv' /\ spirv'[k].op \in Headers
      BY <2>2, <2>3, <2>4
    <2>7. c \in Collapsed'
      BY <2>4, <2>5, <2>6 DEF Collapsed
    <2> QED BY <1>7, <2>1, <2>7 DEF MetaSaid
  <1> QED BY <1>9, <1>10

\* A block that is opened is none that was, and says nothing yet.
LEMMA LabelSays == ASSUME Closed, HeadersSay, ParseLabel PROVE HeadersSay'
  <1> SUFFICES ASSUME Structured(spirv) PROVE BlocksRead' /\ HeadersRead' /\ MetaSaid'
    BY DEF HeadersSay, Structured, ParseLabel, Read
  <1>1. PICK id : id = Instruction.id
    OBVIOUS
  <1>2. /\ ReadsOne /\ ignore_trailing_block_opcodes' = FALSE /\ UNCHANGED block_meta
        /\ current_block' = id /\ blocks' = Extended(blocks, id, NewBlock)
        /\ offset <= Len(spirv) /\ spirv[offset].op = "Label" /\ spirv[offset].id = id
    BY <1>1 DEF ParseLabel, Read, ReadsOne, Parses, Parsing, Instruction
  <1>3. BlocksRead /\ HeadersRead /\ MetaSaid
    BY DEF HeadersSay
  <1>4. offset \in DOMAIN spirv
    BY <1>2, AtInstruction
  <1>5. PICK n \in Nat : n = offset - 1 /\ n + 1 = offset /\ offset' - 1 = n + 1 /\ 1 .. n \subseteq DOMAIN spirv
    <2>1. offset \in Nat \ {0} /\ DOMAIN spirv = 1 .. Len(spirv)
      BY ModulesAssumption DEF Closed, FunctionsRead
    <2>2. PICK l : l = Len(spirv) /\ DOMAIN spirv = 1 .. l
      BY <2>1
    <2>3. offset \in 1 .. l
      BY <1>4, <2>2
    <2> QED BY <1>2, <2>1, <2>2, <2>3 DEF ReadsOne
  <1>6. id \notin DOMAIN blocks
    <2> SUFFICES ASSUME id \in DOMAIN blocks PROVE FALSE
      OBVIOUS
    <2>1. PICK l \in 1 .. n : spirv[l].op = "Label" /\ spirv[l].id = id
      BY <1>3, <1>5 DEF BlocksRead
    <2>2. l = offset
      BY <1>2, <1>4, <1>5, <2>1 DEF Structured
    <2> QED BY <1>5, <2>2
  <1>7. /\ DOMAIN blocks' = DOMAIN blocks \cup {id} /\ blocks'[id] = NewBlock
        /\ \A b \in DOMAIN blocks : blocks'[b] = blocks[b]
    BY <1>2, <1>6 DEF Extended
  <1>8. \A k, b : Within(k, b)' = Within(k, b)
    BY <1>2, WithinKept DEF ReadsOne
  <1>9. \A k \in 1 .. n : k \in 1 .. n + 1
    OBVIOUS
  <1>10. n + 1 \in 1 .. n + 1 /\ n + 1 + 1 .. n + 1 = {}
    OBVIOUS
  <1>11. /\ NewBlock.terminator = "Unknown" /\ NewBlock.true_block = 0 /\ NewBlock.merge = "None"
    BY DEF NewBlock
  <1>12. BlocksRead'
    <2>1. ASSUME NEW b \in DOMAIN blocks'
          PROVE  /\ DOMAIN blocks'[b] = DOMAIN NewBlock
                 /\ \E l \in 1 .. n + 1 : spirv[l].op = "Label" /\ spirv[l].id = b
      <3>1. CASE b = id
        BY <1>2, <1>5, <1>7, <1>10, <3>1
      <3>2. CASE b \in DOMAIN blocks
        BY <1>3, <1>5, <1>7, <1>9, <3>2 DEF BlocksRead
      <3> QED BY <1>7, <3>1, <3>2
    <2>2. Within(n + 1, id)
      BY <1>2, <1>5, <1>10 DEF Within
    <2>3. Current' = NewBlock
      BY <1>2, <1>7 DEF Current
    <2> QED BY <1>2, <1>5, <1>8, <1>11, <2>1, <2>2, <2>3 DEF BlocksRead, ReadsOne
  <1>13. HeadersRead'
    <2>1. ASSUME NEW b \in DOMAIN blocks'
          PROVE  /\ blocks'[b].merge # "None" =>
                      \E k \in 1 .. n + 1 : spirv[k].op \in Headers /\ Within(k, b)
                 /\ blocks'[b].merge = "Selection" =>
                      \E k \in 1 .. n + 1 : spirv[k].op = "SelectionMerge" /\ Within(k, b)
                                            /\ spirv[k].merge = blocks'[b].next_block
      <3>1. CASE b = id
        BY <1>7, <1>11, <3>1
      <3>2. CASE b \in DOMAIN blocks
        BY <1>3, <1>5, <1>7, <1>9, <3>2 DEF HeadersRead
      <3> QED BY <1>7, <3>1, <3>2
    <2> QED BY <1>2, <1>5, <1>8, <2>1 DEF HeadersRead, ReadsOne
  <1>14. MetaSaid'
    <2>1. Collapsed' = {} => Collapsed = {}
      BY <1>2, <1>7, StaysLost DEF ReadsOne
    <2>2. ASSUME NEW b PROVE Said(b)' = Said(b)
      <3>1. \A h \in DOMAIN blocks : SaidBy(h, b)' = SaidBy(h, b)
        BY <1>7 DEF SaidBy
      <3>2. SaidBy(id, b)' = {}
        BY <1>7, <1>11 DEF SaidBy, Says
      <3>3. \A x : x \in Said(b)' <=> x \in Said(b)
        <4>1. \A x : x \in Said(b)' <=> \E h \in DOMAIN blocks' : x \in SaidBy(h, b)'
          BY DEF Said
        <4>2. \A x : x \in Said(b) <=> \E h \in DOMAIN blocks : x \in SaidBy(h, b)
          BY DEF Said
        <4>3. \A h \in DOMAIN blocks : h \in DOMAIN blocks'
          BY <1>7
        <4>4. \A h \in DOMAIN blocks' : h = id \/ h \in DOMAIN blocks
          BY <1>7
        <4> QED BY <3>1, <3>2, <4>1, <4>2, <4>3, <4>4
      <3> QED BY <3>3 DEF Said
    <2> QED BY <1>2, <1>3, <2>1, <2>2 DEF MetaSaid
  <1> QED BY <1>12, <1>13, <1>14

LEMMA InitSays == ParserInit => HeadersSay
  <1> SUFFICES ASSUME ParserInit PROVE BlocksRead /\ HeadersRead /\ MetaSaid
    BY DEF HeadersSay
  <1>1. DOMAIN blocks = {} /\ current_block = 0 /\ block_meta = [b \in Block \cup {0} |-> {}]
    BY DEF ParserInit
  <1>2. \A b : Said(b) = {}
    BY <1>1 DEF Said
  <1> QED BY <1>1, <1>2 DEF BlocksRead, HeadersRead, MetaSaid

LEMMA NextSays == ASSUME Closed, HeadersSay, [Parse]_parser PROVE HeadersSay'
  <1>1. CASE UNCHANGED parser
    BY <1>1, QuietSays DEF parser, ir, parsing, SameHeader
  <1>2. CASE Parse
    BY <1>2, QuietSteps, LabelSays, HeadersSaid, PlainSays, BogusSelectionSays, BogusBranchSays, SwitchSays
       DEF Parse
  <1> QED BY <1>1, <1>2

LEMMA SaidMeans == Closed /\ HeadersSay => ModuleClosed
  <1> SUFFICES ASSUME Closed, HeadersSay, Structured(spirv), Collapsed = {}, NEW b \in DOMAIN blocks
               PROVE  block_meta[b] = UNION {SaidBy(h, b) : h \in DOMAIN blocks}
    BY ClosedMeans DEF ModuleClosed
  <1>1. b \in Block
    BY ListedAreBlocks DEF Closed, BlocksEnded
  <1> QED BY <1>1 DEF HeadersSay, MetaSaid, Said

\* Whatever the module: what the parser accepts is closed, and as long as it is
\* structured and no header was lost, the table of blocks says of each what the
\* headers say, in whatever order they come.
THEOREM ParsedModulesAreTold == ParserSpec => []ModuleClosed
  <1>1. Closed /\ HeadersSay /\ [Parse]_parser => (Closed /\ HeadersSay)'
    BY NextClosed, NextSays
  <1> QED BY InitClosed, InitSays, <1>1, SaidMeans, PTL DEF ParserSpec
================================================================================
