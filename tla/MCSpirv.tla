-------------------------------- MODULE MCSpirv --------------------------------
(***************************************************************************)
(* Functions as the compiler lowers them: statements are structured, each  *)
(* selection and each loop has its merge block, what no branch leads to is *)
(* unreachable.                                                            *)
(***************************************************************************)
EXTENDS GlslExecution

MaxBlock == 16
BlockValue == 1 .. MaxBlock
Function == 50
X == 51       \* a variable
P == 52       \* a parameter
V == 53       \* a phi

-------------------------------------------------------------------------------
(* Statements *)

Op(op, var) == [k |-> "op", op |-> op, var |-> var]
LoadX == Op("Load", X)
StoreX == Op("Store", X)
PartX == Op("PartialStore", X)
StoreP == Op("Store", P)
Call == Op("Call", 0)
Jump(k) == [k |-> k]
\* A phi of the merge block, or none.
If(then, else, phi) == [k |-> "if", then |-> then, else |-> else, phi |-> phi]
\* A phi of the header and one of the merge block.
PhiLoop(style, cond, body, inc, phi, exit) ==
  [k |-> "loop", style |-> style, cond |-> cond, body |-> body, inc |-> inc, phi |-> phi, exit |-> exit]
While(style, cond, body, inc) == PhiLoop(style, cond, body, inc, 0, 0)
\* An arm has labels, the default arm none; it may fall through, and have a phi.
Arm(labels, body, falls, phi) == [labels |-> labels, body |-> body, falls |-> falls, phi |-> phi]
Switch(arms, phi) == [k |-> "switch", bogus |-> FALSE, arms |-> arms, phi |-> phi]
\* A conditional with one target inside of a selection.
Once(body) == [k |-> "switch", bogus |-> TRUE, arms |-> <<Arm(<< >>, body, FALSE, 0)>>, phi |-> 0]

-------------------------------------------------------------------------------
(* Lowering: the instructions so far, the next id, and whether the block is open *)

Add(st, is) == [st EXCEPT !.code = @ \o is]
Label(id, phi) == [op |-> "Label", id |-> id, phi |-> phi]
Goto(b) == [op |-> "Branch", target |-> b]
Cond(t, f) == [op |-> "BranchConditional", true |-> t, false |-> f]
End(st, is) == [Add(st, is) EXCEPT !.open = FALSE]
Open(st, id, phi) == [Add(st, <<Label(id, phi)>>) EXCEPT !.open = TRUE]
GotoIfOpen(st, b) == IF st.open THEN End(st, <<Goto(b)>>) ELSE st
Instructions(ops) == [i \in DOMAIN ops |-> [op |-> ops[i].op, var |-> ops[i].var]]

TargetsOf(i) ==
  CASE i.op = "Branch" -> {i.target}
    [] i.op = "BranchConditional" -> {i.true, i.false}
    [] i.op = "Switch" -> {i.default} \cup {i.cases[c].block : c \in DOMAIN i.cases}
    [] OTHER -> {}

\* A merge block is unreachable when no branch leads to it.
Merge(st, b, phi) ==
  IF \E k \in DOMAIN st.code : b \in TargetsOf(st.code[k]) THEN Open(st, b, phi)
  ELSE End(st, <<Label(b, 0), [op |-> "Unreachable"]>>)

RECURSIVE Lower(_, _, _), LowerArms(_, _, _, _)

\* The exits are those of the loop and switch around.
LowerIf(s, exits, st) ==
  LET then == st.next
      else == IF s.else = << >> THEN st.next + 1 ELSE st.next + 2
      merge == st.next + 1
      header == End([st EXCEPT !.next = @ + 3],
                    <<[op |-> "SelectionMerge", merge |-> merge], Cond(then, else)>>)
      first == GotoIfOpen(Lower(s.then, exits, Open(header, then, 0)), merge)
      second == IF s.else = << >> THEN first ELSE GotoIfOpen(Lower(s.else, exits, Open(first, else, 0)), merge)
  IN  Merge(second, merge, s.phi)

LowerLoop(s, exits, st) ==
  LET header == st.next
      test == st.next + 1
      body == st.next + 2
      continue == st.next + 3
      merge == st.next + 4
      in == [break |-> merge, continue |-> continue, leave |-> merge]
      loopMerge(c) == <<[op |-> "LoopMerge", merge |-> merge, continue |-> c]>>
      begin == Open(GotoIfOpen([st EXCEPT !.next = @ + 5], header), header, s.phi)
      cond == Instructions(s.cond)
      inc == Instructions(s.inc)
      into(b, r) == GotoIfOpen(Lower(s.body, in, Open(r, b, 0)), continue)
      again(r, end) == End(Open(r, continue, 0), inc \o end)
      loop == CASE s.style = "check" ->
                     again(into(body, End(begin, cond \o loopMerge(continue) \o <<Cond(body, merge)>>)), <<Goto(header)>>)
                [] s.style = "negative" ->
                     again(into(body, End(begin, cond \o loopMerge(continue) \o <<Cond(merge, body)>>)), <<Goto(header)>>)
                [] s.style = "direct" ->
                     again(into(body, End(Open(End(begin, loopMerge(continue) \o <<Goto(test)>>), test, 0),
                                          cond \o <<Cond(body, merge)>>)), <<Goto(header)>>)
                [] s.style = "do" ->
                     again(into(body, End(begin, loopMerge(continue) \o <<Goto(body)>>)), cond \o <<Cond(header, merge)>>)
                [] s.style = "forever" ->
                     again(into(body, End(begin, loopMerge(continue) \o <<Goto(body)>>)), <<Goto(header)>>)
                [] s.style = "self" ->
                     End(begin, Instructions(s.body) \o loopMerge(header) \o <<Cond(header, merge)>>)
                [] s.style = "inplace" ->
                     again(End(begin, cond \o loopMerge(continue) \o <<Cond(continue, merge)>>),
                           Instructions(s.body) \o <<Goto(header)>>)
  IN  Merge(loop, merge, s.exit)

\* Arms have consecutive ids from first on.
LowerArms(arms, first, exits, st) ==
  IF arms = << >> THEN st
  ELSE LET r == Lower(arms[1].body, exits, Open(st, first, arms[1].phi))
       IN  LowerArms(Tail(arms), first + 1, exits,
                     GotoIfOpen(r, IF arms[1].falls THEN first + 1 ELSE exits.break))

LowerSwitch(s, exits, st) ==
  LET merge == st.next
      first == st.next + 1
      default == {k \in DOMAIN s.arms : s.arms[k].labels = << >>}
      cases == FlattenSeq([k \in DOMAIN s.arms |->
                 [l \in DOMAIN s.arms[k].labels |-> [value |-> s.arms[k].labels[l], block |-> st.next + k]]])
      header == End([st EXCEPT !.next = @ + 1 + Len(s.arms)],
                    <<[op |-> "SelectionMerge", merge |-> merge],
                      IF s.bogus THEN Cond(first, first)
                      ELSE [op |-> "Switch", cases |-> cases,
                            default |-> IF default = {} THEN merge ELSE st.next + (CHOOSE k \in default : TRUE)]>>)
  IN  Merge(LowerArms(s.arms, first, [exits EXCEPT !.break = merge], header), merge, s.phi)

Lower(statements, exits, st) ==
  IF statements = << >> \/ ~st.open THEN st
  ELSE LET s == statements[1]
       IN  Lower(Tail(statements), exits,
             CASE s.k = "op" -> Add(st, Instructions(<<s>>))
               [] s.k = "return" -> End(st, <<[op |-> "Return"]>>)
               [] s.k = "discard" -> End(st, <<[op |-> "Kill"]>>)
               [] s.k = "break" -> End(st, <<Goto(exits.break)>>)
               [] s.k = "continue" -> End(st, <<Goto(exits.continue)>>)
               [] s.k = "leave" -> End(st, <<Goto(exits.leave)>>)
               [] s.k = "if" -> LowerIf(s, exits, st)
               [] s.k = "loop" -> LowerLoop(s, exits, st)
               [] s.k = "switch" -> LowerSwitch(s, exits, st))

\* The block an instruction is in.
BlockAt(code_, k) ==
  LET labels == {l \in 1 .. k : code_[l].op = "Label"}
  IN  code_[CHOOSE l \in labels : \A m \in labels : m <= l].id

WithPhis(code_) ==
  FlattenSeq([k \in DOMAIN code_ |->
    IF code_[k].op = "Label" /\ code_[k].phi # 0
    THEN LET branches == {l \in DOMAIN code_ : code_[k].id \in TargetsOf(code_[l])}
         IN  <<code_[k], [op |-> "Phi", id |-> code_[k].phi,
                          parents |-> SetToSeq({BlockAt(code_, l) : l \in branches})]>>
    ELSE <<code_[k]>>])

Lowered(body) ==
  LET st == Lower(body, [break |-> 0, continue |-> 0, leave |-> 0], Open([code |-> << >>, next |-> 2, open |-> TRUE], 1, 0))
      ended == IF st.open THEN End(st, <<[op |-> "Return"]>>) ELSE st
  IN  WithPhis(ended.code)

ModuleOf(body) ==
  <<[op |-> "EntryPoint", id |-> Function], [op |-> "Function", id |-> Function],
    [op |-> "FunctionParameter", id |-> P]>>
    \o <<Head(Lowered(body)), [op |-> "Variable", id |-> X, storage |-> "Function"]>> \o Tail(Lowered(body))
    \o <<[op |-> "FunctionEnd"]>>

-------------------------------------------------------------------------------
(* The functions that are looked at *)

Jumps == {<<Jump("break")>>, <<Jump("continue")>>, <<Jump("return")>>, <<Jump("discard")>>}
Leaves == Jumps \cup {<<Call>>, <<StoreX, Jump("break")>>, <<LoadX, Jump("continue")>>}
Styles == {"check", "negative", "direct", "do", "forever"}
AllStyles == Styles \cup {"self", "inplace"}

Selections == {If(t, e, 0) : t \in Leaves, e \in {<< >>, <<Call>>, <<Jump("break")>>, <<Jump("return")>>}}
Deeper == {<<If(j, << >>, 0), Call>> : j \in Jumps \cup {<<Jump("leave")>>, <<StoreX, Jump("leave")>>}}
SwitchLeaves == Leaves \cup Deeper \cup {<<Jump("leave")>>}
Others == {<<Call>>, <<Jump("break")>>}
Switches ==
  {Switch(<<Arm(<<1>>, a, FALSE, 0), Arm(<<2, 3>>, b, FALSE, 0)>>, 0) : a \in SwitchLeaves, b \in Others}
    \cup {Switch(<<Arm(<<1>>, a, f, 0), Arm(<< >>, b, FALSE, 0)>>, 0) : a \in SwitchLeaves, b \in Others, f \in BOOLEAN}
    \cup {Switch(<<Arm(<< >>, a, f, 0), Arm(<<1>>, b, FALSE, 0)>>, 0) : a \in Deeper, b \in Others, f \in BOOLEAN}
    \cup {Switch(<<Arm(<< >>, a, FALSE, 0)>>, 0) : a \in SwitchLeaves}
    \cup {Once(a) : a \in Leaves}

\* A loop around a selection or a switch.
InLoop ==
  {<<While(style, <<LoadX>>, <<c, Call>>, <<StoreX>>), Call>> : style \in Styles, c \in Selections \cup Switches}

\* A loop around a loop.  Loops that are one block have nothing but instructions.
LoopsInLoops ==
  {<<While(outer, cond, <<inner, LoadX>>, <<StoreX>>), LoadX>> :
     outer \in Styles, cond \in {<<LoadX>>, <<Call>>},
     inner \in {While(style, <<LoadX>>, <<Call>>, inc) : style \in AllStyles, inc \in {<< >>, <<Call>>}}
                 \cup {While(style, <<LoadX>>, b, <<StoreX>>) : style \in Styles,
                          b \in {<<Call, If(<<Jump("break")>>, << >>, 0)>>, <<If(<<Jump("continue")>>, << >>, 0), Call>>}}}

\* What a loop does with a variable.
Access == {<< >>, <<LoadX>>, <<StoreX>>, <<PartX>>}
Scopes ==
  {pre \o <<While(style, cond, body, inc)>> \o post :
     style \in Styles \ {"negative"}, pre \in {<< >>, <<StoreX>>}, post \in {<< >>, <<LoadX>>},
     cond \in {<< >>, <<LoadX>>}, inc \in {<<Call>>, <<LoadX>>, <<StoreX>>},
     body \in (Access \ {<< >>}) \cup {<<If(t, << >>, 0), Call>> : t \in {<<StoreX>>, <<PartX>>, <<StoreX, Jump("break")>>}}
                \cup {<<If(<<Jump("continue")>>, << >>, 0), StoreX>>}}
\* A loop in a loop, or in a selection, and a variable of theirs.
ScopesInLoops ==
  {<<While("check", << >>, pre \o <<c>> \o post, <<Call>>), Call>> :
     pre \in Access, post \in {<< >>, <<LoadX>>},
     c \in {While(style, << >>, body, inc) : style \in {"check", "direct", "forever"}, body \in {<<StoreX>>, <<LoadX>>},
                                              inc \in {<<Call>>, <<LoadX>>}}
             \cup {While("do", << >>, <<If(<<StoreX, Jump("break")>>, << >>, 0)>>, <<Call>>)}
             \cup {If(<<While("check", <<LoadX>>, <<Call>>, <<StoreX>>)>>, e, 0) : e \in Access}
             \cup {Switch(<<Arm(<<1>>, <<StoreX>>, FALSE, 0), Arm(<< >>, e, f, 0)>>, 0) : e \in Access, f \in BOOLEAN}}

\* Ways through a function that write a parameter.
Parameters ==
  LET ends == {<<StoreP>>, <<Op("Load", P)>>, <<Jump("return")>>, <<StoreP, Jump("return")>>, <<Jump("discard")>>}
  IN  {<<If(t, e, 0)>> \o post : t \in ends, e \in ends, post \in {<< >>, <<StoreP>>}}
        \cup {<<While(style, << >>, b, <<Call>>)>> : style \in Styles, b \in ends \cup {<<StoreP, Jump("break")>>}}

\* Phis of merge blocks, of loop headers, of loops' merge blocks and of cases.
LoadV == Op("Load", V)
Phis ==
  {<<While(style, << >>, <<c, LoadV>>, << >>), Call>> : style \in Styles,
     c \in {If(<<Call>>, e, V) : e \in {<< >>, <<Call>>}}
             \cup {Switch(<<Arm(<<1>>, <<Call>>, f, 0), Arm(labels, <<Call>>, FALSE, 0)>>, V) :
                     f \in BOOLEAN, labels \in {<< >>, <<2>>}}}
  \cup {<<PhiLoop(style, << >>, b, inc, V, 0), Call>> : style \in AllStyles, inc \in {<< >>, <<Call>>}, b \in {<<LoadV>>}}
  \cup {<<PhiLoop(style, cond, <<If(<<Jump("break")>>, << >>, 0), c>>, << >>, phi, V), Call>> :
          style \in Styles, cond \in {<< >>, <<Call>>}, c \in {Call, If(<<Jump("continue")>>, << >>, 0)}, phi \in {0, V + 1}}
  \cup {<<Switch(<<Arm(<<1>>, <<Call>>, TRUE, 0), Arm(labels, <<LoadV>>, FALSE, V)>>, 0), Call>> : labels \in {<< >>, <<2, 3>>}}
  \cup {<<Switch(<<Arm(<< >>, <<Call>>, TRUE, 0), Arm(<<2, 3>>, <<LoadV>>, FALSE, V)>>, 0), Call>>}

\* Modules that the parser refuses, or sees through.
Lines(body) ==
  <<[op |-> "EntryPoint", id |-> Function], [op |-> "EntryPoint", id |-> Function + 1],
    [op |-> "Function", id |-> Function], Label(1, 0)>> \o body \o <<[op |-> "FunctionEnd"]>>
Headed(target) ==
  {Lines(<<[op |-> "SelectionMerge", merge |-> 3], Cond(target, target), Label(2, 0), Goto(3), Label(3, 0), [op |-> "Return"]>>),
   Lines(<<Goto(4), Label(4, 0), [op |-> "LoopMerge", merge |-> 3, continue |-> 2], Cond(target, target),
           Label(2, 0), Goto(4), Label(3, 0), [op |-> "Return"]>>),
   Lines(<<Cond(target, target), Label(2, 0), Goto(3), Label(3, 0), [op |-> "Return"]>>)}
Whole == ModuleOf(<<Op("Line", 0), While("check", <<LoadX>>, <<If(<<StoreX>>, << >>, V)>>, << >>)>>)
\* Functions have ids of their own.
Again(i) == IF i.op = "Function" THEN [i EXCEPT !.id = @ + 1] ELSE i
Odd ==
  {Tail(RemoveAt(Whole, k)) : k \in 2 .. Len(Whole)} \cup {Tail(InsertAt(Whole, k, Again(Whole[k]))) : k \in 2 .. Len(Whole)}
    \cup Headed(2) \cup Headed(3)
    \cup {Lines(<<Goto(2)>>), Lines(<<[op |-> "EmitMeshTasksEXT"], [op |-> "Return"]>>),
          <<[op |-> "EntryPoint", id |-> Function], [op |-> "Function", id |-> Function], [op |-> "FunctionEnd"]>>,
          <<[op |-> "EntryPoint", id |-> Function]>>,
          <<[op |-> "Line"], [op |-> "Variable", id |-> X, storage |-> "Private"], [op |-> "Function", id |-> Function]>>}

Bodies == InLoop \cup LoopsInLoops \cup Scopes \cup ScopesInLoops \cup Parameters \cup Phis
LoweredModules == {ModuleOf(b) : b \in Bodies} \cup Odd

\* The modules above keep SPIR-V's rules for the flow of control, those that the
\* parser refuses aside and those whose loop a bogus conditional has collapsed
\* (Parser::parse, OpBranchConditional with equal targets): what is proved of
\* modules that keep them is about these.
RulesFollowed == phase = "scoped" /\ Collapsed = {} => LoopsStructured

\* A continue inside of a switch without labels, and code behind the switch.
OnceModules ==
  {ModuleOf(<<While(style, <<LoadX>>, <<Switch(<<Arm(<< >>, <<If(<<Jump("continue")>>, << >>, 0), Call>>, FALSE, 0)>>, 0), Call>>,
                    <<StoreX>>)>>) : style \in Styles}
================================================================================
