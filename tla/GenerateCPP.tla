------------------------------ MODULE GenerateCPP ------------------------------
(***************************************************************************)
(* The loop of generateCPP (generateCPP.cpp) over the functions of the     *)
(* reflected library: the constant buffers and their bind points, the      *)
(* resource blocks, and what is declared in the header for each function.  *)
(*                                                                         *)
(* What generateConstantBufferStruct writes for a type is StructGen's subject;  *)
(* here the call makes the type known and the header hold it.              *)
(***************************************************************************)
EXTENDS Integers, Sequences, FiniteSets, Functions

CONSTANTS
  UINT_MOD,    \* 2^32: the arithmetic of UINT wraps
  Id,          \* the names of functions, resources and types
  None,        \* the empty string
  Handle,      \* Engine::Resources::ImageLoader::Handle
  Libraries    \* the reflected libraries considered

Kinds == {"cbuffer", "sampler", "texture", "structured", "rwstructured"}

Text == Id \cup {None, Handle}

\* A bound resource; type is the element's or the buffer's struct.
Resource == [name : Id, kind : Kinds, type : Text, space : Nat, point : Nat]

\* A function: its constant buffers and its bound resources; suffix is what its last two letters make of it, "short" when it
\* has none; demangles is FALSE when the demangler does not know the mangled
\* name, and name then is whatever an empty optional is read as.
Function == [name : Id, suffix : {"VS", "PS", "none", "short"},
             demangles : BOOLEAN, buffers : Seq(Resource), resources : Seq(Resource)]

\* Reflection lists the views of structs among the constant buffers, too.
IsBuffer(r) == r.kind \in {"cbuffer", "structured", "rwstructured"}

ASSUME UintAssumption == UINT_MOD \in Nat \ {0}
ASSUME NamesAssumption == None \notin Id /\ Handle \notin Id
ASSUME LibrariesAssumption ==
  /\ Libraries \subseteq Seq(Function)
  /\ \A l \in Libraries : \A k \in 1 .. Len(l) :
       /\ Range(l[k].buffers) \subseteq Range(l[k].resources)
       /\ \A r \in Range(l[k].resources) : IsBuffer(r) => r \in Range(l[k].buffers)
       /\ \A r \in Range(l[k].resources) : r.point < UINT_MOD
       /\ \A r \in Range(l[k].buffers) : r.type \in Id

VARIABLES
  library,                 \* the functions
  fn,                      \* the function of the outer loop
  pc,                      \* where control is
  j,                       \* the cursor of the inner loop that is running
  constantBufferBindings,  \* the types by bind point, None where there is none
  resourceBlocks,          \* the blocks by space, from space 2 on
  generatedStructs,        \* the types with a struct in the header
  of,                      \* what the header declares, in order
  profileEntrypoints       \* the entry points by profile

locals == <<constantBufferBindings, resourceBlocks>>
output == <<generatedStructs, of, profileEntrypoints>>
vars   == <<library, fn, pc, j, locals, output>>

\* A block's name is its function's and a number, written here as a pair.
Name   == [of : Text, block : Nat]
Plain(n) == [of |-> n, block |-> 0]
Unnamed == Plain(None)

Member == [name : Text, type : Text]
NoMember == [name |-> None, type |-> None]
Block  == [mName : Name, mMembers : Seq(Member)]
NoBlock == [mName |-> Unnamed, mMembers |-> << >>]

\* A declaration of the header and the types it names; fn and space say what it
\* was written for.
Declaration == [kind : {"struct", "block", "function"}, name : Name,
                uses : Seq(Member), fn : Nat, space : Nat]

TypeOK ==
  /\ library \in Seq(Function)
  /\ fn \in Nat \ {0} /\ j \in Nat \ {0}
  /\ pc \in {"functions", "buffers", "resources", "blocks", "done", "failed", "crashed"}
  /\ constantBufferBindings \in Seq(Text) /\ Len(constantBufferBindings) < UINT_MOD
  /\ resourceBlocks \in Seq(Block)
  /\ \A k \in 1 .. Len(resourceBlocks) : Len(resourceBlocks[k].mMembers) < UINT_MOD
  /\ generatedStructs \subseteq Id
  /\ of \in Seq(Declaration)
  /\ profileEntrypoints \in [vs : Seq(Id), ps : Seq(Id)]

Init ==
  /\ library \in Libraries
  /\ fn = 1 /\ j = 1
  /\ pc = "functions"
  /\ constantBufferBindings = << >> /\ resourceBlocks = << >>
  /\ generatedStructs = {}
  /\ of = << >>
  /\ profileEntrypoints = [vs |-> << >>, ps |-> << >>]

-------------------------------------------------------------------------------
(* Vectors *)

\* vector::resize(n).
Resized(v, n, filler) == [k \in 1 .. n |-> IF k <= Len(v) THEN v[k] ELSE filler]

\* if (v.size() <= at) v.resize(at + 1), with the UINT arithmetic of at + 1.
\* Mutants: the vector is resized whether it is too short or not; the addition
\* is done in a wider type; it is left out.
AlwaysResized(v, at, filler) == Resized(v, (at + 1) % UINT_MOD, filler)
WidelyReaching(v, at, filler) == IF Len(v) <= at THEN Resized(v, at + 1, filler) ELSE v
AlmostReaching(v, at, filler) == IF Len(v) <= at THEN Resized(v, at, filler) ELSE v
Reaching(v, at, filler) ==
  IF Len(v) <= at THEN Resized(v, (at + 1) % UINT_MOD, filler) ELSE v

Replaced(v, at, x) == [v EXCEPT ![at + 1] = x]

-------------------------------------------------------------------------------
(* The constant buffers of a function *)

F == library[fn]
Buffer == F.buffers[j]

\* Mutant: the vectors outlive their function.
KeptLocals == UNCHANGED locals
FreshLocals == constantBufferBindings' = << >> /\ resourceBlocks' = << >>

BeginFunction ==
  /\ pc = "functions" /\ fn <= Len(library)
  /\ FreshLocals
  /\ j' = 1
  /\ pc' = "buffers"
  /\ UNCHANGED <<library, fn, output>>

\* Mutant: only the buffers of space 0 get their struct.
NewInSpace0(r) == r.type \notin generatedStructs /\ r.space = 0
NewStruct(r) == r.type \notin generatedStructs

StructDeclaration(t) ==
  [kind |-> "struct", name |-> Plain(t), uses |-> << >>, fn |-> fn, space |-> 0]
GenerateStruct(r) ==
  /\ IF NewStruct(r) THEN
       /\ generatedStructs' = generatedStructs \cup {r.type}
       /\ of' = Append(of, StructDeclaration(r.type))
     ELSE UNCHANGED <<generatedStructs, of>>
  /\ UNCHANGED profileEntrypoints

\* "Bind Point .. used for .. and ..": a type is compared with a buffer's name.
\* Mutant: nothing is compared.
NoConflict(v, r) == FALSE
Conflict(v, r) == v[r.point + 1] # None /\ v[r.point + 1] # r.name

\* A buffer outside space 0 only has its struct written ...
ReadBuffer ==
  /\ pc = "buffers" /\ j <= Len(F.buffers) /\ Buffer.space # 0
  /\ GenerateStruct(Buffer)
  /\ j' = j + 1
  /\ UNCHANGED <<library, fn, pc, locals>>

\* ... and one in space 0 takes its bind point, unless that is taken or its type
\* cannot be read.  BindPoint + 1 wraps for the last bind point, which leaves an
\* empty vector to be indexed.
BindBuffer ==
  /\ pc = "buffers" /\ j <= Len(F.buffers) /\ Buffer.space = 0
  /\ GenerateStruct(Buffer)
  /\ LET v == Reaching(constantBufferBindings, Buffer.point, None)
     IN  IF Buffer.point >= Len(v) THEN
           pc' = "crashed" /\ UNCHANGED <<j, constantBufferBindings>>
         ELSE \/ /\ ~Conflict(v, Buffer)
                 /\ constantBufferBindings' = Replaced(v, Buffer.point, Buffer.type)
                 /\ j' = j + 1
                 /\ UNCHANGED pc
              \/ pc' = "failed" /\ constantBufferBindings' = v /\ UNCHANGED j
  /\ UNCHANGED <<library, fn, resourceBlocks>>

EndBuffers ==
  /\ pc = "buffers" /\ j > Len(F.buffers)
  /\ j' = 1
  /\ pc' = "resources"
  /\ UNCHANGED <<library, fn, locals, output>>

-------------------------------------------------------------------------------
(* The resource blocks of a function *)

R == F.resources[j]

\* Spaces 0 and 1 have no block; samplers are left out of theirs, and so are
\* the types of resources that are not supported.
InBlock(r) == r.space >= 2 /\ r.kind \in {"cbuffer", "texture", "structured"}

\* Mutant: skipping a resource does not come to the next one.
SkipResourceForever ==
  /\ pc = "resources" /\ j <= Len(F.resources) /\ ~InBlock(R)
  /\ UNCHANGED vars
SkipResource ==
  /\ pc = "resources" /\ j <= Len(F.resources) /\ ~InBlock(R)
  /\ j' = j + 1
  /\ UNCHANGED <<library, fn, pc, locals, output>>

MemberOf(r) ==
  [name |-> r.name,
   type |-> IF r.kind = "texture" THEN Handle ELSE r.type]

\* Mutant: every block of a function has the same name.
OneBlockName(f, n) == [of |-> f.name, block |-> 1]
BlockName(f, n) == [of |-> f.name, block |-> n + 1]

\* The vector of blocks grows to space n + 2, and only then names it.
\* Mutant: the first block to be made is named instead.
GrownFirst(v, f, n) ==
  IF v = << >> THEN Replaced(Resized(v, n + 1, NoBlock), 0,
                             [mName |-> BlockName(f, 0), mMembers |-> << >>])
  ELSE Resized(v, IF Len(v) > n THEN Len(v) ELSE n + 1, NoBlock)
Grown(v, f, n) ==
  IF Len(v) > n THEN v
  ELSE Replaced(Resized(v, n + 1, NoBlock), n,
                [mName |-> BlockName(f, n), mMembers |-> << >>])

\* The name of a function that did not demangle is not there to be read: the
\* process dies, or goes on with a name that is nobody's.
BindResource ==
  /\ pc = "resources" /\ j <= Len(F.resources) /\ InBlock(R)
  /\ LET n == R.space - 2
         readsName == Len(resourceBlocks) <= n
         v == Grown(resourceBlocks, F, n)
         m == Reaching(v[n + 1].mMembers, R.point, NoMember)
     IN  \/ /\ (readsName /\ ~F.demangles) \/ R.point >= Len(m)
            /\ pc' = "crashed"
            /\ UNCHANGED <<j, resourceBlocks>>
         \/ /\ R.point < Len(m)
            /\ resourceBlocks' =
                 Replaced(v, n, [mName |-> v[n + 1].mName,
                                 mMembers |-> Replaced(m, R.point, MemberOf(R))])
            /\ j' = j + 1
            /\ UNCHANGED pc
  /\ UNCHANGED <<library, fn, constantBufferBindings, output>>

EndResources ==
  /\ pc = "resources" /\ j > Len(F.resources)
  /\ j' = 1
  /\ pc' = "blocks"
  /\ UNCHANGED <<library, fn, locals, output>>

-------------------------------------------------------------------------------
(* The declarations of a function *)

BlockDeclaration ==
  [kind |-> "block", name |-> resourceBlocks[j].mName,
   uses |-> resourceBlocks[j].mMembers, fn |-> fn, space |-> j + 1]

\* A block without members is left out, and shows only in the signature.
DeclareBlock ==
  /\ pc = "blocks" /\ j <= Len(resourceBlocks)
  /\ of' = IF resourceBlocks[j].mMembers = << >> THEN of ELSE Append(of, BlockDeclaration)
  /\ j' = j + 1
  /\ UNCHANGED <<library, fn, pc, locals, generatedStructs, profileEntrypoints>>

BlocksDeclared == pc = "blocks" /\ j > Len(resourceBlocks)

FunctionDeclaration ==
  [kind |-> "function", name |-> Plain(F.name),
   uses |-> [k \in 1 .. Len(constantBufferBindings) |->
               [name |-> None, type |-> constantBufferBindings[k]]],
   fn |-> fn, space |-> 0]

\* The last two letters of the name choose the profile.
\* Mutant: pixel shaders are entered as vertex shaders, too.
EnteredTwice(f) ==
  [vs |-> IF f.suffix \in {"VS", "PS"} THEN Append(profileEntrypoints.vs, f.name)
          ELSE profileEntrypoints.vs,
   ps |-> IF f.suffix = "PS" THEN Append(profileEntrypoints.ps, f.name)
          ELSE profileEntrypoints.ps]
Entered(f) ==
  [vs |-> IF f.suffix = "VS" THEN Append(profileEntrypoints.vs, f.name)
          ELSE profileEntrypoints.vs,
   ps |-> IF f.suffix = "PS" THEN Append(profileEntrypoints.ps, f.name)
          ELSE profileEntrypoints.ps]

Declare ==
  /\ BlocksDeclared /\ F.demangles /\ F.suffix # "short"
  /\ of' = Append(of, FunctionDeclaration)
  /\ profileEntrypoints' = Entered(F)
  /\ fn' = fn + 1
  /\ pc' = "functions"
  /\ UNCHANGED <<library, j, locals, generatedStructs>>

\* substr(size() - 2) throws on a name of one letter; nothing catches it.
DeclareShort ==
  /\ BlocksDeclared /\ F.demangles /\ F.suffix = "short"
  /\ pc' = "crashed"
  /\ UNCHANGED <<library, fn, j, locals, output>>

\* "Error demangling": the test comes after the name is used, so that the
\* process may die before it, or enter whatever it read.
DeclareUnknown ==
  /\ BlocksDeclared /\ ~F.demangles
  /\ profileEntrypoints' \in {Entered([F EXCEPT !.suffix = x]) : x \in {"VS", "PS", "none"}}
  /\ pc' \in {"failed", "crashed"}
  /\ UNCHANGED <<library, fn, j, locals, generatedStructs, of>>

-------------------------------------------------------------------------------

\* One of the reflection's GetDesc calls fails, or generateStruct does.
ReflectionFails ==
  /\ pc \in {"functions", "buffers", "resources"}
  /\ pc' = "failed"
  /\ UNCHANGED <<library, fn, j, locals, output>>

\* Mutant: the last function is left out.
AllButLast == fn >= Len(library)
FunctionsDone == fn > Len(library)

Complete ==
  /\ pc = "functions" /\ FunctionsDone
  /\ pc' = "done"
  /\ UNCHANGED <<library, fn, j, locals, output>>

Stopped == pc \in {"done", "failed", "crashed"} /\ UNCHANGED vars

Progress ==
  \/ BeginFunction \/ ReadBuffer \/ BindBuffer \/ EndBuffers
  \/ SkipResource \/ BindResource \/ EndResources
  \/ DeclareBlock \/ Declare \/ DeclareShort \/ DeclareUnknown \/ Complete

Next == Progress \/ ReflectionFails \/ Stopped

Spec == Init /\ [][Next]_vars /\ WF_vars(Progress)

-------------------------------------------------------------------------------
(* Properties *)

Declared(kind) == {k \in 1 .. Len(of) : of[k].kind = kind}

\* The positions of the resources of function f that go to the block of a space.
InSpace(f, space) ==
  {i \in 1 .. Len(library[f].resources) :
     InBlock(library[f].resources[i]) /\ library[f].resources[i].space = space}

\* Whatever order the resources come in, a block has a member for every register
\* of its space up to the last: the last resource of that number, or a hole
\* where the space has none.
BlocksHoldRegisters ==
  \A k \in Declared("block") :
    LET d   == of[k]
        res == library[d.fn].resources
        own == InSpace(d.fn, d.space)
    IN  /\ \A i \in own : res[i].point < Len(d.uses)
        /\ \A p \in 1 .. Len(d.uses) :
             LET here == {i \in own : res[i].point = p - 1}
             IN  d.uses[p] = IF here = {} THEN NoMember
                             ELSE MemberOf(res[CHOOSE i \in here : \A l \in here : l <= i])

\* A block goes without its name exactly when a block of a higher space was
\* made before it.
BlocksNamed ==
  \A k \in Declared("block") :
    LET d   == of[k]
        res == library[d.fn].resources
        overtaken ==
          \E h \in 1 .. Len(res) :
            /\ InBlock(res[h]) /\ res[h].space > d.space
            /\ \A i \in InSpace(d.fn, d.space) : h < i
    IN  d.name = IF overtaken THEN Unnamed ELSE BlockName(library[d.fn], d.space - 2)

\* The bindings in a function's declaration are its own: those of space 0, each
\* at its bind point.  A buffer only loses its place to one named like its type.
BindingsAreOwn ==
  \A k \in Declared("function") :
    LET d   == of[k]
        own == library[d.fn].buffers
        at(p) == {i \in 1 .. Len(own) : own[i].space = 0 /\ own[i].point = p}
    IN  /\ \A p \in 0 .. Len(d.uses) - 1 :
             d.uses[p + 1].type \in IF at(p) = {} THEN {None} ELSE {own[i].type : i \in at(p)}
        /\ \A i \in 1 .. Len(own) : own[i].space = 0 =>
             \/ own[i].point < Len(d.uses) /\ d.uses[own[i].point + 1].type = own[i].type
             \/ \E l \in at(own[i].point) : l > i /\ own[l].name = own[i].type

\* Every struct that a block or a function of the header names comes before it,
\* though the struct is written in another loop, and once for all functions.
TypesBeforeUse ==
  \A k \in 1 .. Len(of) : \A u \in Range(of[k].uses) :
    \/ u.type \in {None, Handle}
    \/ \E l \in Declared("struct") : l < k /\ of[l].name = Plain(u.type)

\* No two declarations of the header have the same name, unless they are for
\* functions of the same name, or for blocks without one.
NamesUnique ==
  \A k, l \in 1 .. Len(of) :
    k # l /\ of[k].kind = of[l].kind /\ of[k].name = of[l].name =>
      \/ of[k].name = Unnamed
      \/ of[k].fn # of[l].fn /\ library[of[k].fn].name = library[of[l].fn].name

\* The entries are the names of the first n functions that have the suffix: each
\* comes after those before it.
AreNamesWith(entries, suffix, n) ==
  LET has == {k \in 1 .. n : library[k].suffix = suffix}
  IN  /\ Len(entries) = Cardinality(has)
      /\ \A k \in has : entries[Cardinality({l \in has : l <= k})] = library[k].name

\* main transpiles what the header declares: unless generateCPP failed, the
\* entry points are the declared functions with their suffix, in their order,
\* and at the end every function is declared.
EntrypointsAreDeclared ==
  pc \notin {"failed", "crashed"} =>
    /\ AreNamesWith(profileEntrypoints.vs, "VS", fn - 1)
    /\ AreNamesWith(profileEntrypoints.ps, "PS", fn - 1)
    /\ {of[k].fn : k \in Declared("function")} = 1 .. fn - 1
    /\ pc = "done" => fn - 1 = Len(library)

\* The process dies only of a name that did not demangle, one without a suffix,
\* or the last bind point of all, at which BindPoint + 1 wraps.
CrashHasCause ==
  pc = "crashed" =>
    \/ ~F.demangles \/ F.suffix = "short"
    \/ \E r \in Range(F.resources) : r.point + 1 = UINT_MOD

\* The three loops come to their end.
Terminates == <>(pc \in {"done", "failed", "crashed"})

\* "Error demangling: " (generateCPP.cpp:682): a function whose name does not
\* demangle is reported.
DemangleFailureReported == pc = "crashed" => F.demangles
================================================================================
