--------------------------- MODULE GenerateCPPProofs ---------------------------
(***************************************************************************)
(* Theorems about GenerateCPP, for every library that reflection can       *)
(* report: any number of functions and resources, in any order, and any    *)
(* width of UINT.                                                          *)
(***************************************************************************)
EXTENDS GenerateCPP, TLAPS, FiniteSetTheorems

USE UintAssumption

-------------------------------------------------------------------------------
(* Vectors *)

LEMMA ResizedFacts ==
  ASSUME NEW S, NEW v \in Seq(S), NEW n \in Nat, NEW x \in S
  PROVE  /\ Resized(v, n, x) \in Seq(S)
         /\ Len(Resized(v, n, x)) = n
         /\ \A k \in 1 .. n : Resized(v, n, x)[k] = IF k <= Len(v) THEN v[k] ELSE x
  <1>1. \A k \in 1 .. n : (IF k <= Len(v) THEN v[k] ELSE x) \in S
    OBVIOUS
  <1> QED
    BY <1>1 DEF Resized

\* The vector reaches the index unless the addition wraps, keeps its elements,
\* and stays below UINT_MOD.
LEMMA ReachingFacts ==
  ASSUME NEW S, NEW v \in Seq(S), NEW at \in 0 .. UINT_MOD - 1, NEW x \in S
  PROVE  /\ Reaching(v, at, x) \in Seq(S)
         /\ \A k \in 1 .. Len(Reaching(v, at, x)) :
              Reaching(v, at, x)[k] = IF k <= Len(v) THEN v[k] ELSE x
         /\ at + 1 < UINT_MOD => at < Len(Reaching(v, at, x))
         /\ at < Len(Reaching(v, at, x)) => Len(v) <= Len(Reaching(v, at, x))
         /\ Len(v) < UINT_MOD => Len(Reaching(v, at, x)) < UINT_MOD
  <1>1. CASE Len(v) > at
    BY <1>1 DEF Reaching
  <1>2. CASE Len(v) <= at
    <2> DEFINE n == (at + 1) % UINT_MOD
    <2>1. n \in 0 .. UINT_MOD - 1
      OBVIOUS
    <2>2. at + 1 < UINT_MOD => n = at + 1
      OBVIOUS
    <2>3. at + 1 = UINT_MOD => n = 0
      OBVIOUS
    <2>4. Reaching(v, at, x) = Resized(v, n, x)
      BY <1>2 DEF Reaching
    <2>5. n \in Nat /\ n < UINT_MOD
      BY <2>1
    <2> HIDE DEF n
    <2>6. /\ Reaching(v, at, x) \in Seq(S)
          /\ Len(Reaching(v, at, x)) = n
          /\ \A k \in 1 .. n : Reaching(v, at, x)[k] = IF k <= Len(v) THEN v[k] ELSE x
      <3>1. /\ Resized(v, n, x) \in Seq(S)
            /\ Len(Resized(v, n, x)) = n
            /\ \A k \in 1 .. n : Resized(v, n, x)[k] = IF k <= Len(v) THEN v[k] ELSE x
        BY <2>5, ResizedFacts, SMTT(30)
      <3> QED
        BY <2>4, <3>1
    <2>7. at + 1 < UINT_MOD \/ at + 1 = UINT_MOD
      OBVIOUS
    <2>8. Len(v) \in Nat
      OBVIOUS
    <2> QED
      BY <1>2, <2>2, <2>3, <2>5, <2>6, <2>7, <2>8
  <1> QED
    BY <1>1, <1>2

LEMMA ReplacedFacts ==
  ASSUME NEW S, NEW v \in Seq(S), NEW at \in Nat, at < Len(v), NEW x \in S
  PROVE  /\ Replaced(v, at, x) \in Seq(S)
         /\ Len(Replaced(v, at, x)) = Len(v)
         /\ \A k \in 1 .. Len(v) : Replaced(v, at, x)[k] = IF k = at + 1 THEN x ELSE v[k]
  BY DEF Replaced

LEMMA AppendFacts ==
  ASSUME NEW S, NEW v \in Seq(S), NEW x \in S
  PROVE  /\ Append(v, x) \in Seq(S)
         /\ Len(Append(v, x)) = Len(v) + 1
         /\ \A k \in 1 .. Len(v) : Append(v, x)[k] = v[k]
         /\ Append(v, x)[Len(v) + 1] = x
  OBVIOUS

-------------------------------------------------------------------------------
(* The library *)

\* The function and the lists that the loops are in.
Inner == pc \in {"buffers", "resources", "blocks"}
InLibrary == library \in Libraries /\ (Inner => fn <= Len(library))

LEMMA FunctionType ==
  ASSUME TypeOK, InLibrary, fn <= Len(library)
  PROVE  /\ F \in Function
         /\ Range(F.buffers) \subseteq Range(F.resources)
         /\ \A r \in Range(F.resources) : IsBuffer(r) => r \in Range(F.buffers)
         /\ \A r \in Range(F.resources) : r.point < UINT_MOD
         /\ \A r \in Range(F.buffers) : r.type \in Id
  <1>1. fn \in 1 .. Len(library)
    BY DEF TypeOK
  <1>2. library \in Seq(Function) /\ library \in Libraries
    BY DEF TypeOK, InLibrary
  <1>3. F \in Function
    BY <1>1, <1>2 DEF F
  <1>4. /\ Range(library[fn].buffers) \subseteq Range(library[fn].resources)
        /\ \A r \in Range(library[fn].resources) :
             IsBuffer(r) => r \in Range(library[fn].buffers)
        /\ \A r \in Range(library[fn].resources) : r.point < UINT_MOD
        /\ \A r \in Range(library[fn].buffers) : r.type \in Id
    BY <1>1, <1>2, LibrariesAssumption
  <1> QED
    BY <1>3, <1>4 DEF F

LEMMA BufferType ==
  ASSUME TypeOK, InLibrary, fn <= Len(library), NEW i \in 1 .. Len(F.buffers)
  PROVE  /\ F.buffers[i] \in Resource
         /\ F.buffers[i] \in Range(F.buffers) /\ F.buffers[i] \in Range(F.resources)
         /\ F.buffers[i].point \in 0 .. UINT_MOD - 1
         /\ F.buffers[i].type \in Id /\ F.buffers[i].name \in Id
  <1>1. F.buffers \in Seq(Resource)
    BY FunctionType DEF Function
  <1>2. F.buffers[i] \in Resource /\ F.buffers[i] \in Range(F.buffers)
    BY <1>1 DEF Range
  <1>3. F.buffers[i] \in Range(F.resources)
    BY <1>2, FunctionType
  <1>4. F.buffers[i].point < UINT_MOD /\ F.buffers[i].type \in Id
    BY <1>2, <1>3, FunctionType
  <1>5. F.buffers[i].point \in Nat /\ F.buffers[i].name \in Id
    BY <1>2 DEF Resource
  <1>6. F.buffers[i].point \in 0 .. UINT_MOD - 1
    BY <1>4, <1>5
  <1> QED
    BY <1>2, <1>3, <1>4, <1>5, <1>6, Zenon

LEMMA ResourceType ==
  ASSUME TypeOK, InLibrary, fn <= Len(library), NEW i \in 1 .. Len(F.resources)
  PROVE  /\ F.resources[i] \in Resource
         /\ F.resources[i] \in Range(F.resources)
         /\ F.resources[i].point \in 0 .. UINT_MOD - 1
         /\ MemberOf(F.resources[i]) \in Member
         /\ IsBuffer(F.resources[i]) =>
              \E k \in 1 .. Len(F.buffers) : F.buffers[k] = F.resources[i]
  <1>1. F.resources \in Seq(Resource) /\ F.buffers \in Seq(Resource)
    BY FunctionType DEF Function
  <1>2. F.resources[i] \in Resource /\ F.resources[i] \in Range(F.resources)
    BY <1>1 DEF Range
  <1>3. F.resources[i].point < UINT_MOD
    BY <1>2, FunctionType
  <1>4. IsBuffer(F.resources[i]) => F.resources[i] \in Range(F.buffers)
    BY <1>2, FunctionType
  <1>5. IsBuffer(F.resources[i]) =>
          \E k \in 1 .. Len(F.buffers) : F.buffers[k] = F.resources[i]
    BY <1>1, <1>4 DEF Range
  <1>6. MemberOf(F.resources[i]) \in Member
    BY <1>2 DEF MemberOf, Member, Resource, Text
  <1> QED
    BY <1>2, <1>3, <1>5, <1>6 DEF Resource

-------------------------------------------------------------------------------
(* The invariant: what is named anywhere is known, and what is known has its   *)
(* struct in the header                                                        *)

Known == generatedStructs \cup {None, Handle}

StructAt(header, l, t) == header[l].kind = "struct" /\ header[l].name = Plain(t)

StructsDeclared ==
  \A t \in generatedStructs : \E l \in 1 .. Len(of) : StructAt(of, l, t)
UsesDeclared ==
  \A k \in 1 .. Len(of) : \A p \in 1 .. Len(of[k].uses) :
    \/ of[k].uses[p].type \in {None, Handle}
    \/ \E l \in 1 .. k - 1 : StructAt(of, l, of[k].uses[p].type)

BindingsKnown ==
  \A p \in 1 .. Len(constantBufferBindings) : constantBufferBindings[p] \in Known
MembersKnown ==
  \A k \in 1 .. Len(resourceBlocks) : \A p \in 1 .. Len(resourceBlocks[k].mMembers) :
    resourceBlocks[k].mMembers[p].type \in Known

\* The buffers that were read are known: all of them, once their loop is over.
BuffersRead ==
  /\ pc = "buffers" => \A i \in 1 .. Len(F.buffers) :
       i < j => F.buffers[i].type \in generatedStructs
  /\ pc \in {"resources", "blocks"} => \A i \in 1 .. Len(F.buffers) :
       F.buffers[i].type \in generatedStructs

IInv ==
  /\ TypeOK /\ InLibrary
  /\ StructsDeclared /\ UsesDeclared
  /\ BindingsKnown /\ MembersKnown /\ BuffersRead
  /\ CrashHasCause

LEMMA InitIInv == Init => IInv
  <1> SUFFICES ASSUME Init PROVE IInv
    OBVIOUS
  <1>1. library \in Seq(Function) /\ library \in Libraries
    BY LibrariesAssumption DEF Init
  <1>2. TypeOK
    BY <1>1 DEF Init, TypeOK
  <1> QED
    BY <1>1, <1>2 DEF Init, IInv, InLibrary, Inner, StructsDeclared, UsesDeclared,
                      BindingsKnown, MembersKnown, BuffersRead, CrashHasCause

\* A declaration that names known types keeps the header in order.
LEMMA HeaderGrows ==
  ASSUME of \in Seq(Declaration), StructsDeclared, UsesDeclared,
         NEW d \in Declaration, of' = Append(of, d),
         \A p \in 1 .. Len(d.uses) : d.uses[p].type \in Known,
         \A t \in generatedStructs' :
           t \in generatedStructs \/ (d.kind = "struct" /\ d.name = Plain(t))
  PROVE  StructsDeclared' /\ UsesDeclared'
  <1>1. PICK n \in Nat : n = Len(of)
    OBVIOUS
  <1>2. /\ Len(of') = n + 1
        /\ \A k \in 1 .. n : of'[k] = of[k]
        /\ of'[n + 1] = d
    BY <1>1, AppendFacts
  <1>3. \A t : \A l \in 1 .. n : StructAt(of, l, t) => StructAt(of', l, t)
    BY <1>2 DEF StructAt, Plain
  <1>4. \A t \in generatedStructs : \E l \in 1 .. n : StructAt(of', l, t)
    BY <1>1, <1>3 DEF StructsDeclared
  <1>5. StructsDeclared'
    <2> SUFFICES ASSUME NEW t \in generatedStructs'
                 PROVE  \E l \in 1 .. n + 1 : StructAt(of', l, t)
      BY <1>2 DEF StructsDeclared
    <2>1. CASE t \in generatedStructs
      BY <1>4, <2>1
    <2>2. CASE d.kind = "struct" /\ d.name = Plain(t)
      <3>1. StructAt(of', n + 1, t)
        BY <1>2, <2>2 DEF StructAt, Plain
      <3>2. n + 1 \in 1 .. n + 1
        OBVIOUS
      <3> QED
        BY <3>1, <3>2
    <2> QED
      BY <2>1, <2>2
  <1>6. UsesDeclared'
    <2> SUFFICES ASSUME NEW k \in 1 .. n + 1, NEW p \in 1 .. Len(of'[k].uses)
                 PROVE  \/ of'[k].uses[p].type \in {None, Handle}
                        \/ \E l \in 1 .. k - 1 : StructAt(of', l, of'[k].uses[p].type)
      BY <1>2 DEF UsesDeclared
    <2>1. CASE k = n + 1
      <3>1. of'[k].uses[p].type \in Known
        BY <1>2, <2>1
      <3>2. k - 1 = n
        BY <2>1
      <3> QED
        BY <1>4, <3>1, <3>2 DEF Known
    <2>2. CASE k # n + 1
      <3>1. k \in 1 .. n /\ of'[k] = of[k]
        BY <1>2, <2>2
      <3>2. \A l \in 1 .. k - 1 : l \in 1 .. n
        BY <3>1
      <3> QED
        BY <1>1, <1>3, <3>1, <3>2 DEF UsesDeclared
    <2> QED
      BY <2>1, <2>2
  <1> QED
    BY <1>5, <1>6

\* A step that leaves the header and the cache alone leaves their order alone.
LEMMA HeaderUnchanged ==
  ASSUME StructsDeclared, UsesDeclared, UNCHANGED <<of, generatedStructs>>
  PROVE  StructsDeclared' /\ UsesDeclared'
  BY DEF StructsDeclared, UsesDeclared, StructAt, Plain

\* After a call of generateConstantBufferStruct the buffer's type is known.
LEMMA StructWritten ==
  ASSUME IInv, pc = "buffers", j <= Len(F.buffers), GenerateStruct(Buffer)
  PROVE  /\ generatedStructs' = generatedStructs \cup {Buffer.type}
         /\ generatedStructs' \subseteq Id
         /\ of' \in Seq(Declaration)
         /\ StructsDeclared' /\ UsesDeclared'
         /\ UNCHANGED profileEntrypoints
  <1>1. TypeOK /\ InLibrary /\ StructsDeclared /\ UsesDeclared /\ fn <= Len(library)
    BY DEF IInv, InLibrary, Inner
  <1>2. j \in 1 .. Len(F.buffers)
    BY <1>1 DEF TypeOK
  <1>3. Buffer.type \in Id
    BY <1>1, <1>2, BufferType DEF Buffer
  <1>4. of \in Seq(Declaration) /\ generatedStructs \subseteq Id /\ fn \in Nat
    BY <1>1 DEF TypeOK
  <1>5. CASE NewStruct(Buffer)
    <2> DEFINE d == StructDeclaration(Buffer.type)
    <2>1. of' = Append(of, d) /\ generatedStructs' = generatedStructs \cup {Buffer.type}
      BY <1>5 DEF GenerateStruct
    <2>2. d \in Declaration /\ d.kind = "struct" /\ d.name = Plain(Buffer.type) /\ d.uses = << >>
      BY <1>3, <1>4 DEF StructDeclaration, Declaration, Name, Plain, Text
    <2> HIDE DEF d
    <2>3. Len(d.uses) = 0
      BY <2>2
    <2>4. StructsDeclared' /\ UsesDeclared'
      BY <1>1, <1>4, <2>1, <2>2, <2>3, HeaderGrows
    <2> QED
      BY <1>3, <1>4, <2>1, <2>2, <2>4, AppendFacts DEF GenerateStruct
  <1>6. CASE ~NewStruct(Buffer)
    <2>1. UNCHANGED <<of, generatedStructs>> /\ Buffer.type \in generatedStructs
      BY <1>6 DEF GenerateStruct, NewStruct
    <2> QED
      BY <1>1, <1>4, <2>1, HeaderUnchanged DEF GenerateStruct
  <1> QED
    BY <1>5, <1>6

\* What is known stays known.
LEMMA KnownGrows ==
  ASSUME generatedStructs \subseteq generatedStructs', BindingsKnown, MembersKnown
  PROVE  /\ UNCHANGED constantBufferBindings => BindingsKnown'
         /\ UNCHANGED resourceBlocks => MembersKnown'
  BY DEF Known, BindingsKnown, MembersKnown

LEMMA ReadBufferKeeps == IInv /\ ReadBuffer => IInv'
  <1> SUFFICES ASSUME IInv, ReadBuffer PROVE IInv'
    OBVIOUS
  <1>1. /\ generatedStructs' = generatedStructs \cup {Buffer.type}
        /\ generatedStructs' \subseteq Id
        /\ of' \in Seq(Declaration)
        /\ StructsDeclared' /\ UsesDeclared'
        /\ UNCHANGED profileEntrypoints
    BY StructWritten DEF ReadBuffer
  <1>2. pc = "buffers" /\ j' = j + 1 /\ UNCHANGED <<library, fn, pc, constantBufferBindings, resourceBlocks>>
    BY DEF ReadBuffer, locals
  <1>3. TypeOK' /\ InLibrary'
    BY <1>1, <1>2 DEF IInv, TypeOK, InLibrary, Inner
  <1>4. BindingsKnown' /\ MembersKnown'
    BY <1>1, <1>2, KnownGrows DEF IInv
  <1>5. BuffersRead'
    <2>1. j \in Nat
      BY DEF IInv, TypeOK
    <2> QED
      BY <1>1, <1>2, <2>1 DEF IInv, BuffersRead, F, Buffer
  <1>6. CrashHasCause'
    BY <1>2 DEF CrashHasCause
  <1> QED
    BY <1>1, <1>3, <1>4, <1>5, <1>6 DEF IInv

\* The three ways BindBuffer can end.
LEMMA BindBufferKeeps == IInv /\ BindBuffer => IInv'
  <1> SUFFICES ASSUME IInv, BindBuffer PROVE IInv'
    OBVIOUS
  <1> DEFINE v == Reaching(constantBufferBindings, Buffer.point, None)
             w == Replaced(v, Buffer.point, Buffer.type)
  <1>1. /\ generatedStructs' = generatedStructs \cup {Buffer.type}
        /\ generatedStructs' \subseteq Id
        /\ of' \in Seq(Declaration)
        /\ StructsDeclared' /\ UsesDeclared'
        /\ UNCHANGED profileEntrypoints
    BY StructWritten DEF BindBuffer
  <1>2. TypeOK /\ InLibrary /\ fn <= Len(library) /\ j \in 1 .. Len(F.buffers)
    BY DEF IInv, TypeOK, InLibrary, Inner, BindBuffer
  <1>3. /\ Buffer.point \in 0 .. UINT_MOD - 1
        /\ Buffer.type \in Id
        /\ Buffer \in Range(F.resources)
    BY <1>2, BufferType DEF Buffer
  <1>4. constantBufferBindings \in Seq(Text) /\ Len(constantBufferBindings) < UINT_MOD
    BY <1>2 DEF TypeOK
  <1>5. None \in Text /\ Buffer.type \in Text
    BY <1>3 DEF Text
  <1>6. /\ v \in Seq(Text)
        /\ \A k \in 1 .. Len(v) :
             v[k] = IF k <= Len(constantBufferBindings) THEN constantBufferBindings[k] ELSE None
        /\ Buffer.point + 1 < UINT_MOD => Buffer.point < Len(v)
        /\ Len(v) < UINT_MOD
    <2>1. PICK c, at : c = constantBufferBindings /\ at = Buffer.point
      OBVIOUS
    <2>2. c \in Seq(Text) /\ Len(c) < UINT_MOD /\ at \in 0 .. UINT_MOD - 1
      BY <1>3, <1>4, <2>1
    <2>3. /\ Reaching(c, at, None) \in Seq(Text)
          /\ \A k \in 1 .. Len(Reaching(c, at, None)) :
               Reaching(c, at, None)[k] = IF k <= Len(c) THEN c[k] ELSE None
          /\ at + 1 < UINT_MOD => at < Len(Reaching(c, at, None))
          /\ Len(c) < UINT_MOD => Len(Reaching(c, at, None)) < UINT_MOD
      BY <1>5, <2>2, ReachingFacts, ZenonT(30)
    <2> QED
      BY <2>1, <2>2, <2>3
  <1>7. pc = "buffers" /\ UNCHANGED <<library, fn, resourceBlocks>>
    BY DEF BindBuffer
  <1>8. \A k \in 1 .. Len(v) : v[k] \in Known
    BY <1>4, <1>6 DEF IInv, BindingsKnown, Known
  <1>9. MembersKnown'
    BY <1>1, <1>7, KnownGrows DEF IInv
  <1>10. CASE Buffer.point >= Len(v)
    <2>1. pc' = "crashed" /\ UNCHANGED <<j, constantBufferBindings>>
      BY <1>10 DEF BindBuffer
    <2>2. Buffer.point + 1 = UINT_MOD
      <3>1. Len(v) \in Nat
        BY <1>6
      <3> QED
        BY <1>3, <1>6, <1>10, <3>1
    <2>3. CrashHasCause'
      BY <1>3, <1>7, <2>2 DEF CrashHasCause, F
    <2>4. TypeOK' /\ InLibrary' /\ BuffersRead'
      BY <1>1, <1>2, <1>7, <2>1 DEF TypeOK, InLibrary, Inner, BuffersRead
    <2>5. BindingsKnown'
      BY <1>1, <2>1, KnownGrows DEF IInv
    <2> QED
      BY <1>1, <1>9, <2>3, <2>4, <2>5 DEF IInv
  <1>11. CASE /\ Buffer.point < Len(v)
              /\ constantBufferBindings' = w /\ j' = j + 1 /\ UNCHANGED pc
    <2>1. /\ w \in Seq(Text) /\ Len(w) = Len(v)
          /\ \A k \in 1 .. Len(v) : w[k] = IF k = Buffer.point + 1 THEN Buffer.type ELSE v[k]
      <3>1. PICK c, at, x : c = v /\ at = Buffer.point /\ x = Buffer.type
        OBVIOUS
      <3>2. c \in Seq(Text) /\ at \in Nat /\ at < Len(c) /\ x \in Text
        BY <1>3, <1>5, <1>6, <1>11, <3>1
      <3>3. /\ Replaced(c, at, x) \in Seq(Text) /\ Len(Replaced(c, at, x)) = Len(c)
            /\ \A k \in 1 .. Len(c) : Replaced(c, at, x)[k] = IF k = at + 1 THEN x ELSE c[k]
        BY <3>2 DEF Replaced
      <3> QED
        BY <3>1, <3>3
    <2> HIDE DEF v, w
    <2>2. TypeOK' /\ InLibrary'
      BY <1>1, <1>2, <1>6, <1>7, <1>11, <2>1 DEF TypeOK, InLibrary, Inner
    <2>3. BindingsKnown'
      BY <1>1, <1>8, <1>11, <2>1 DEF BindingsKnown, Known
    <2>4. BuffersRead'
      BY <1>1, <1>2, <1>7, <1>11 DEF IInv, BuffersRead, F, Buffer
    <2>5. CrashHasCause'
      BY <1>7, <1>11 DEF CrashHasCause
    <2> QED
      BY <1>1, <1>9, <2>2, <2>3, <2>4, <2>5 DEF IInv
  <1>12. CASE pc' = "failed" /\ constantBufferBindings' = v /\ UNCHANGED j
    <2> HIDE DEF v, w
    <2>1. TypeOK' /\ InLibrary' /\ BuffersRead' /\ CrashHasCause'
      BY <1>1, <1>2, <1>6, <1>7, <1>12
      DEF TypeOK, InLibrary, Inner, BuffersRead, CrashHasCause
    <2>2. BindingsKnown'
      BY <1>1, <1>8, <1>12 DEF BindingsKnown, Known
    <2> QED
      BY <1>1, <1>9, <2>1, <2>2 DEF IInv
  <1> QED
    <2>1. Len(v) \in Nat /\ Buffer.point \in Nat
      BY <1>3, <1>6
    <2> QED
      BY <1>10, <1>11, <1>12, <2>1 DEF BindBuffer

\* A vector of blocks that fits UINT and names known types.
GoodBlocks(v) ==
  /\ v \in Seq(Block)
  /\ \A k \in 1 .. Len(v) :
       /\ Len(v[k].mMembers) < UINT_MOD
       /\ \A p \in 1 .. Len(v[k].mMembers) : v[k].mMembers[p].type \in Known

\* It stays one when it is made longer, and when a block is replaced.
LEMMA GoodResized ==
  ASSUME NEW v, GoodBlocks(v), NEW n \in Nat
  PROVE  GoodBlocks(Resized(v, n, NoBlock)) /\ Len(Resized(v, n, NoBlock)) = n
  <1>1. NoBlock \in Block /\ NoBlock.mMembers = << >>
    BY DEF NoBlock, Block, Unnamed, Plain, Name, Text, Member
  <1>2. v \in Seq(Block)
    BY DEF GoodBlocks
  <1>3. /\ Resized(v, n, NoBlock) \in Seq(Block)
        /\ Len(Resized(v, n, NoBlock)) = n
        /\ \A k \in 1 .. n :
             Resized(v, n, NoBlock)[k] = IF k <= Len(v) THEN v[k] ELSE NoBlock
    <2>1. \A k \in 1 .. n : (IF k <= Len(v) THEN v[k] ELSE NoBlock) \in Block
      BY <1>1, <1>2
    <2> QED
      BY <2>1 DEF Resized
  <1>4. UINT_MOD \in Nat /\ UINT_MOD > 0 /\ Len(v) \in Nat /\ Len(<< >>) = 0
    BY <1>2
  <1> DEFINE u == Resized(v, n, NoBlock)
  <1> HIDE DEF u
  <1>5. /\ u \in Seq(Block) /\ Len(u) = n
        /\ \A k \in 1 .. n : u[k] = IF k <= Len(v) THEN v[k] ELSE NoBlock
    BY <1>3 DEF u
  <1>6. ASSUME NEW k \in 1 .. n
        PROVE  /\ Len(u[k].mMembers) < UINT_MOD
               /\ \A p \in 1 .. Len(u[k].mMembers) : u[k].mMembers[p].type \in Known
    <2>1. CASE k <= Len(v)
      BY <1>4, <1>5, <2>1 DEF GoodBlocks
    <2>2. CASE k > Len(v)
      <3>1. u[k] = NoBlock
        BY <1>4, <1>5, <2>2
      <3>2. Len(u[k].mMembers) = 0
        BY <1>1, <1>4, <3>1
      <3> QED
        BY <1>4, <3>2
    <2> QED
      BY <1>4, <2>1, <2>2
  <1>7. GoodBlocks(u)
    BY <1>5, <1>6 DEF GoodBlocks
  <1> QED
    BY <1>3, <1>7 DEF u

LEMMA GoodReplaced ==
  ASSUME NEW v, GoodBlocks(v), NEW n \in Nat, n < Len(v),
         NEW b \in Block, Len(b.mMembers) < UINT_MOD,
         \A p \in 1 .. Len(b.mMembers) : b.mMembers[p].type \in Known
  PROVE  GoodBlocks(Replaced(v, n, b)) /\ Len(Replaced(v, n, b)) = Len(v)
  <1>1. v \in Seq(Block)
    BY DEF GoodBlocks
  <1> DEFINE u == Replaced(v, n, b)
  <1>2. /\ u \in Seq(Block) /\ Len(u) = Len(v)
        /\ \A k \in 1 .. Len(v) : u[k] = IF k = n + 1 THEN b ELSE v[k]
    BY <1>1 DEF Replaced
  <1> HIDE DEF u
  <1>3. GoodBlocks(u)
    BY <1>2 DEF GoodBlocks
  <1> QED
    BY <1>2, <1>3 DEF u

LEMMA GoodGrown ==
  ASSUME NEW v, GoodBlocks(v), NEW f \in Function, NEW n \in Nat
  PROVE  GoodBlocks(Grown(v, f, n)) /\ n < Len(Grown(v, f, n))
  <1>1. CASE Len(v) > n
    BY <1>1 DEF Grown
  <1>2. CASE ~(Len(v) > n)
    <2> DEFINE u == Resized(v, n + 1, NoBlock)
               b == [mName |-> BlockName(f, n), mMembers |-> << >>]
    <2>1. GoodBlocks(u) /\ Len(u) = n + 1
      <3>1. n + 1 \in Nat
        OBVIOUS
      <3> QED
        BY <3>1, GoodResized
    <2>2. b \in Block /\ b.mMembers = << >>
      BY DEF Block, BlockName, Name, Text, Function, Member
    <2>3. Grown(v, f, n) = Replaced(u, n, b)
      BY <1>2 DEF Grown
    <2> HIDE DEF u, b
    <2>4. Len(b.mMembers) = 0 /\ 0 < UINT_MOD
      BY <2>2
    <2>5. GoodBlocks(Replaced(u, n, b)) /\ Len(Replaced(u, n, b)) = Len(u)
      BY <2>1, <2>2, <2>4, GoodReplaced
    <2> QED
      BY <2>1, <2>3, <2>5
  <1> QED
    BY <1>1, <1>2

LEMMA GoodNow ==
  (TypeOK /\ MembersKnown) <=> (TypeOK /\ GoodBlocks(resourceBlocks))
  BY DEF TypeOK, MembersKnown, GoodBlocks

\* Reaching a register of a block.
LEMMA GoodMembers ==
  ASSUME NEW m \in Seq(Member), Len(m) < UINT_MOD,
         \A p \in 1 .. Len(m) : m[p].type \in Known,
         NEW at \in 0 .. UINT_MOD - 1
  PROVE  /\ Reaching(m, at, NoMember) \in Seq(Member)
         /\ Len(Reaching(m, at, NoMember)) < UINT_MOD
         /\ \A p \in 1 .. Len(Reaching(m, at, NoMember)) :
              Reaching(m, at, NoMember)[p].type \in Known
         /\ at + 1 < UINT_MOD => at < Len(Reaching(m, at, NoMember))
  <1>1. NoMember \in Member /\ NoMember.type \in Known
    BY DEF NoMember, Member, Text, Known
  <1>2. /\ Reaching(m, at, NoMember) \in Seq(Member)
        /\ Len(Reaching(m, at, NoMember)) < UINT_MOD
        /\ \A p \in 1 .. Len(Reaching(m, at, NoMember)) :
             Reaching(m, at, NoMember)[p] = IF p <= Len(m) THEN m[p] ELSE NoMember
        /\ at + 1 < UINT_MOD => at < Len(Reaching(m, at, NoMember))
    BY <1>1, ReachingFacts, SMTT(30)
  <1> DEFINE r == Reaching(m, at, NoMember)
  <1> HIDE DEF r
  <1>3. /\ r \in Seq(Member)
        /\ \A p \in 1 .. Len(r) : r[p] = IF p <= Len(m) THEN m[p] ELSE NoMember
    BY <1>2 DEF r
  <1>4. \A p \in 1 .. Len(r) : r[p].type \in Known
    BY <1>1, <1>3
  <1> QED
    BY <1>2, <1>4 DEF r

\* A resource takes its register, or the process dies of its name or its number.
LEMMA BindResourceKeeps == IInv /\ BindResource => IInv'
  <1> SUFFICES ASSUME IInv, BindResource PROVE IInv'
    OBVIOUS
  <1>1. /\ TypeOK /\ InLibrary /\ fn <= Len(library)
        /\ pc = "resources" /\ j \in 1 .. Len(F.resources)
        /\ UNCHANGED <<library, fn, constantBufferBindings, generatedStructs, of, profileEntrypoints>>
    BY DEF IInv, TypeOK, InLibrary, Inner, BindResource, output
  <1>2. /\ R \in Range(F.resources)
        /\ R.point \in 0 .. UINT_MOD - 1
        /\ MemberOf(R) \in Member
        /\ R.space \in Nat /\ R.space >= 2
        /\ IsBuffer(R) => \E k \in 1 .. Len(F.buffers) : F.buffers[k] = R
    <2>1. R = F.resources[j]
      BY DEF R
    <2>2. R \in Resource
      BY <1>1, <2>1, ResourceType
    <2>3. R.space \in Nat
      BY <2>2 DEF Resource
    <2> QED
      BY <1>1, <2>1, <2>3, ResourceType DEF BindResource, InBlock
  <1> DEFINE n == R.space - 2
             v == Grown(resourceBlocks, F, n)
             m == Reaching(v[n + 1].mMembers, R.point, NoMember)
             b == [mName |-> v[n + 1].mName, mMembers |-> Replaced(m, R.point, MemberOf(R))]
             w == Replaced(v, n, b)
  <1>3. n \in Nat
    BY <1>2
  <1>4. GoodBlocks(v) /\ n < Len(v)
    <2>1. GoodBlocks(resourceBlocks) /\ F \in Function
      BY <1>1, GoodNow, FunctionType DEF IInv
    <2> HIDE DEF n
    <2> QED
      BY <1>3, <2>1, GoodGrown
  <1>4a. /\ n + 1 \in 1 .. Len(v)
         /\ v[n + 1].mName \in Name /\ v[n + 1].mMembers \in Seq(Member)
    <2> HIDE DEF n, v
    <2>1. v \in Seq(Block) /\ n + 1 \in 1 .. Len(v)
      BY <1>3, <1>4 DEF GoodBlocks
    <2>2. v[n + 1] \in Block
      BY <2>1
    <2> QED
      BY <2>1, <2>2 DEF Block
  <1>5. StructsDeclared' /\ UsesDeclared' /\ BindingsKnown'
    BY <1>1, HeaderUnchanged DEF IInv, BindingsKnown, Known
  <1>6. \/ /\ (Len(resourceBlocks) <= n /\ ~F.demangles) \/ R.point >= Len(m)
           /\ pc' = "crashed" /\ UNCHANGED <<j, resourceBlocks>>
        \/ /\ R.point < Len(m)
           /\ resourceBlocks' = w /\ j' = j + 1 /\ UNCHANGED pc
    BY DEF BindResource
  <1>7. /\ m \in Seq(Member) /\ Len(m) < UINT_MOD
        /\ \A p \in 1 .. Len(m) : m[p].type \in Known
        /\ R.point + 1 < UINT_MOD => R.point < Len(m)
    <2> HIDE DEF n, v
    <2>2. PICK c, at : c = v[n + 1].mMembers /\ at = R.point
      OBVIOUS
    <2>3. /\ c \in Seq(Member) /\ Len(c) < UINT_MOD
          /\ \A p \in 1 .. Len(c) : c[p].type \in Known
          /\ at \in 0 .. UINT_MOD - 1
      BY <1>2, <1>4, <1>4a, <2>2 DEF GoodBlocks
    <2>4. /\ Reaching(c, at, NoMember) \in Seq(Member)
          /\ Len(Reaching(c, at, NoMember)) < UINT_MOD
          /\ \A p \in 1 .. Len(Reaching(c, at, NoMember)) :
               Reaching(c, at, NoMember)[p].type \in Known
          /\ at + 1 < UINT_MOD => at < Len(Reaching(c, at, NoMember))
      BY <2>3, GoodMembers
    <2> QED
      BY <2>2, <2>4
  <1>8. CASE /\ (Len(resourceBlocks) <= n /\ ~F.demangles) \/ R.point >= Len(m)
             /\ pc' = "crashed" /\ UNCHANGED <<j, resourceBlocks>>
    <2> HIDE DEF n, v, m
    <2>1. TypeOK' /\ InLibrary' /\ MembersKnown' /\ BuffersRead'
      BY <1>1, <1>8 DEF IInv, TypeOK, InLibrary, Inner, MembersKnown, Known, BuffersRead
    <2>2. ~F.demangles \/ R.point + 1 = UINT_MOD
      <3>1. Len(m) \in Nat /\ R.point \in Nat /\ UINT_MOD \in Nat /\ R.point < UINT_MOD
        BY <1>2, <1>7
      <3>2. R.point + 1 < UINT_MOD \/ R.point + 1 = UINT_MOD
        BY <3>1
      <3>3. R.point >= Len(m) => ~(R.point < Len(m))
        BY <3>1
      <3> QED
        BY <1>7, <1>8, <3>2, <3>3
    <2>3. CrashHasCause'
      BY <1>1, <1>2, <2>2 DEF CrashHasCause, F
    <2> QED
      BY <1>5, <2>1, <2>3 DEF IInv
  <1>9. CASE /\ R.point < Len(m)
             /\ resourceBlocks' = w /\ j' = j + 1 /\ UNCHANGED pc
    <2>1. MemberOf(R).type \in Known
      <3>1. R.kind \in {"cbuffer", "texture", "structured"}
        BY DEF BindResource, InBlock
      <3>2. CASE R.kind = "texture"
        BY <3>2 DEF MemberOf, Known
      <3>3. CASE R.kind # "texture"
        <4>1. IsBuffer(R) /\ MemberOf(R).type = R.type
          BY <3>1, <3>3 DEF IsBuffer, MemberOf
        <4> QED
          BY <1>1, <1>2, <4>1 DEF IInv, BuffersRead, Known
      <3> QED
        BY <3>2, <3>3
    <2>2. /\ b \in Block /\ Len(b.mMembers) < UINT_MOD
          /\ \A p \in 1 .. Len(b.mMembers) : b.mMembers[p].type \in Known
      <3> HIDE DEF n, v, m
      <3> DEFINE q == Replaced(m, R.point, MemberOf(R))
      <3>1. PICK at, x : at = R.point /\ x = MemberOf(R)
        OBVIOUS
      <3>2. at \in Nat /\ at < Len(m) /\ x \in Member /\ x.type \in Known
        BY <1>2, <1>9, <2>1, <3>1
      <3>3. /\ Replaced(m, at, x) \in Seq(Member)
            /\ Len(Replaced(m, at, x)) = Len(m)
            /\ \A p \in 1 .. Len(m) : Replaced(m, at, x)[p] = IF p = at + 1 THEN x ELSE m[p]
        BY <1>7, <3>2 DEF Replaced
      <3>4. /\ q \in Seq(Member) /\ Len(q) < UINT_MOD
            /\ \A p \in 1 .. Len(q) : q[p].type \in Known
        BY <1>7, <3>1, <3>2, <3>3
      <3> HIDE DEF q
      <3>6. b = [mName |-> v[n + 1].mName, mMembers |-> q]
        BY DEF q
      <3> HIDE DEF b
      <3> QED
        BY <1>4a, <3>4, <3>6 DEF Block
    <2>3. GoodBlocks(w)
      <3> HIDE DEF n, v, m, b
      <3> QED
        BY <1>3, <1>4, <2>2, GoodReplaced
    <2>4. resourceBlocks' = w /\ generatedStructs' = generatedStructs
      BY <1>1, <1>9
    <2> HIDE DEF n, v, m, b, w
    <2>5. TypeOK'
      BY <1>1, <1>9, <2>3, <2>4 DEF TypeOK, GoodBlocks
    <2>6. MembersKnown'
      BY <2>3, <2>4 DEF MembersKnown, GoodBlocks, Known
    <2>7. InLibrary' /\ BuffersRead' /\ CrashHasCause'
      BY <1>1, <1>9 DEF IInv, InLibrary, Inner, BuffersRead, CrashHasCause, F
    <2> QED
      BY <1>5, <2>5, <2>6, <2>7 DEF IInv
  <1> QED
    BY <1>6, <1>8, <1>9

\* Writing a block, or leaving an empty one out.
LEMMA DeclareBlockKeeps == IInv /\ DeclareBlock => IInv'
  <1> SUFFICES ASSUME IInv, DeclareBlock PROVE IInv'
    OBVIOUS
  <1>1. /\ TypeOK /\ pc = "blocks" /\ j \in 1 .. Len(resourceBlocks) /\ j' = j + 1
        /\ UNCHANGED <<library, fn, pc, constantBufferBindings, resourceBlocks,
                       generatedStructs, profileEntrypoints>>
    BY DEF IInv, TypeOK, DeclareBlock, locals
  <1>2. StructsDeclared' /\ UsesDeclared' /\ of' \in Seq(Declaration)
    <2>1. CASE UNCHANGED of
      BY <1>1, <2>1, HeaderUnchanged DEF IInv, TypeOK
    <2>2. CASE of' = Append(of, BlockDeclaration)
      <3> DEFINE d == BlockDeclaration
      <3>1. resourceBlocks[j] \in Block
        BY <1>1 DEF TypeOK
      <3>2. /\ resourceBlocks[j].mName \in Name /\ resourceBlocks[j].mMembers \in Seq(Member)
            /\ fn \in Nat /\ j + 1 \in Nat
        BY <1>1, <3>1 DEF TypeOK, Block
      <3>3. d \in Declaration
        BY <3>2 DEF BlockDeclaration, Declaration
      <3>4. \A p \in 1 .. Len(d.uses) : d.uses[p].type \in Known
        BY <1>1 DEF BlockDeclaration, IInv, MembersKnown
      <3>5. of \in Seq(Declaration)
        BY <1>1 DEF TypeOK
      <3>6. of' = Append(of, d)
        BY <2>2
      <3> HIDE DEF d
      <3> QED
        BY <1>1, <3>3, <3>4, <3>5, <3>6, HeaderGrows, AppendFacts DEF IInv
    <2> QED
      BY <2>1, <2>2 DEF DeclareBlock
  <1>3. TypeOK' /\ InLibrary'
    BY <1>1, <1>2 DEF IInv, TypeOK, InLibrary, Inner
  <1>4. BindingsKnown' /\ MembersKnown' /\ BuffersRead' /\ CrashHasCause'
    BY <1>1, KnownGrows DEF IInv, BuffersRead, CrashHasCause, F
  <1> QED
    BY <1>2, <1>3, <1>4 DEF IInv

\* A function is declared with its bindings.
LEMMA DeclareKeeps == IInv /\ Declare => IInv'
  <1> SUFFICES ASSUME IInv, Declare PROVE IInv'
    OBVIOUS
  <1>1. /\ TypeOK /\ InLibrary /\ fn <= Len(library) /\ pc' = "functions" /\ fn' = fn + 1
        /\ UNCHANGED <<library, j, constantBufferBindings, resourceBlocks, generatedStructs>>
        /\ of' = Append(of, FunctionDeclaration)
        /\ profileEntrypoints' = Entered(F)
    BY DEF IInv, InLibrary, Inner, Declare, BlocksDeclared, locals
  <1>2. StructsDeclared' /\ UsesDeclared' /\ of' \in Seq(Declaration)
    <2> DEFINE d == FunctionDeclaration
               u == [k \in 1 .. Len(constantBufferBindings) |->
                       [name |-> None, type |-> constantBufferBindings[k]]]
    <2>1. constantBufferBindings \in Seq(Text) /\ fn \in Nat
      BY <1>1 DEF TypeOK
    <2>2. u \in Seq(Member) /\ Len(u) = Len(constantBufferBindings)
      BY <2>1 DEF Member, Text
    <2>3. \A p \in 1 .. Len(u) : u[p].type \in Known
      BY <2>1, <2>2 DEF IInv, BindingsKnown
    <2>4. Plain(F.name) \in Name
      BY <1>1, FunctionType DEF Plain, Name, Text, Function
    <2> HIDE DEF u
    <2>5. d = [kind |-> "function", name |-> Plain(F.name), uses |-> u, fn |-> fn, space |-> 0]
      BY DEF FunctionDeclaration, u
    <2> HIDE DEF d
    <2>6. d \in Declaration /\ d.uses = u
      BY <2>1, <2>2, <2>4, <2>5 DEF Declaration
    <2>7. of \in Seq(Declaration) /\ of' = Append(of, d)
      BY <1>1 DEF TypeOK, d
    <2> QED
      BY <1>1, <2>3, <2>6, <2>7, HeaderGrows, AppendFacts DEF IInv
  <1>3. profileEntrypoints' \in [vs : Seq(Id), ps : Seq(Id)]
    <2>1. F.name \in Id
      BY <1>1, FunctionType DEF Function
    <2> QED
      BY <1>1, <2>1 DEF TypeOK, Entered
  <1>4. TypeOK' /\ InLibrary'
    BY <1>1, <1>2, <1>3 DEF TypeOK, InLibrary, Inner
  <1>5. BindingsKnown' /\ MembersKnown' /\ BuffersRead' /\ CrashHasCause'
    BY <1>1, KnownGrows DEF IInv, BuffersRead, CrashHasCause
  <1> QED
    BY <1>2, <1>4, <1>5 DEF IInv

\* The two ways in which a function's declaration is not reached.
LEMMA NotDeclaredKeeps == IInv /\ (DeclareShort \/ DeclareUnknown) => IInv'
  <1> SUFFICES ASSUME IInv, DeclareShort \/ DeclareUnknown PROVE IInv'
    OBVIOUS
  <1>1. /\ TypeOK /\ InLibrary /\ fn <= Len(library)
        /\ pc' \in {"failed", "crashed"}
        /\ ~F.demangles \/ F.suffix = "short"
        /\ UNCHANGED <<library, fn, j, constantBufferBindings, resourceBlocks, generatedStructs, of>>
    BY DEF IInv, InLibrary, Inner, DeclareShort, DeclareUnknown, BlocksDeclared, locals, output
  <1>2. profileEntrypoints' \in [vs : Seq(Id), ps : Seq(Id)]
    <2>1. F.name \in Id /\ profileEntrypoints \in [vs : Seq(Id), ps : Seq(Id)]
      BY <1>1, FunctionType DEF Function, TypeOK
    <2>2. CASE DeclareShort
      BY <2>1, <2>2 DEF DeclareShort, output
    <2>3. CASE DeclareUnknown
      <3>1. PICK x \in {"VS", "PS", "none"} :
              profileEntrypoints' = Entered([F EXCEPT !.suffix = x])
        BY <2>3 DEF DeclareUnknown
      <3>2. [F EXCEPT !.suffix = x].name = F.name
        BY <1>1, FunctionType DEF Function
      <3> QED
        BY <2>1, <3>1, <3>2 DEF Entered
    <2> QED
      BY <2>2, <2>3
  <1>3. TypeOK' /\ InLibrary'
    BY <1>1, <1>2 DEF TypeOK, InLibrary, Inner
  <1>4. StructsDeclared' /\ UsesDeclared' /\ BindingsKnown' /\ MembersKnown' /\ BuffersRead'
    BY <1>1, HeaderUnchanged, KnownGrows DEF IInv, BuffersRead
  <1>5. CrashHasCause'
    BY <1>1 DEF CrashHasCause, F
  <1> QED
    BY <1>3, <1>4, <1>5 DEF IInv

\* The actions that only move on leave what is known alone.
LEMMA MovesKeep ==
  IInv /\ (BeginFunction \/ EndBuffers \/ SkipResource \/ EndResources \/ Complete
           \/ ReflectionFails \/ Stopped) => IInv'
  <1> SUFFICES ASSUME IInv,
                      BeginFunction \/ EndBuffers \/ SkipResource \/ EndResources
                        \/ Complete \/ ReflectionFails \/ Stopped
               PROVE  IInv'
    OBVIOUS
  <1>1. TypeOK /\ InLibrary
    BY DEF IInv
  <1>2. UNCHANGED <<library, fn, generatedStructs, of, profileEntrypoints>>
    BY DEF BeginFunction, EndBuffers, SkipResource, EndResources, Complete,
           ReflectionFails, Stopped, output, vars
  <1>3. StructsDeclared' /\ UsesDeclared'
    BY <1>2, HeaderUnchanged DEF IInv
  <1>4. CASE BeginFunction
    <2>1. /\ pc' = "buffers" /\ j' = 1 /\ fn <= Len(library)
          /\ constantBufferBindings' = << >> /\ resourceBlocks' = << >>
      BY <1>4 DEF BeginFunction, FreshLocals
    <2>2. TypeOK' /\ InLibrary'
      BY <1>1, <1>2, <2>1 DEF TypeOK, InLibrary, Inner
    <2>3. BindingsKnown' /\ MembersKnown' /\ CrashHasCause'
      BY <2>1 DEF BindingsKnown, MembersKnown, CrashHasCause
    <2>4. BuffersRead'
      BY <2>1 DEF BuffersRead
    <2> QED
      BY <1>3, <2>2, <2>3, <2>4 DEF IInv
  <1>5. CASE ~BeginFunction
    <2>1. UNCHANGED <<constantBufferBindings, resourceBlocks>>
      BY <1>5 DEF EndBuffers, SkipResource, EndResources, Complete,
                  ReflectionFails, Stopped, locals, vars
    <2>2. BindingsKnown' /\ MembersKnown'
      BY <1>2, <2>1, KnownGrows DEF IInv
    <2>3. TypeOK' /\ InLibrary'
      BY <1>1, <1>2, <1>5, <2>1
      DEF TypeOK, InLibrary, Inner, EndBuffers, SkipResource, EndResources, Complete,
          ReflectionFails, Stopped, vars
    <2>4. CrashHasCause'
      BY <1>2, <1>5 DEF IInv, CrashHasCause, F, EndBuffers, SkipResource, EndResources,
                        Complete, ReflectionFails, Stopped, vars
    <2>5. BuffersRead'
      <3>1. CASE EndBuffers
        <4>1. pc = "buffers" /\ pc' = "resources" /\ j > Len(F.buffers) /\ j \in Nat
          BY <1>1, <3>1 DEF EndBuffers, TypeOK
        <4>2. \A k \in 1 .. Len(F.buffers) : k < j
          BY <4>1
        <4> QED
          BY <1>2, <4>1, <4>2 DEF IInv, BuffersRead, F
      <3>2. CASE ~EndBuffers
        BY <1>2, <1>5, <3>2
        DEF IInv, BuffersRead, F, SkipResource, EndResources, Complete, ReflectionFails,
            Stopped, vars
      <3> QED
        BY <3>1, <3>2
    <2> QED
      BY <1>3, <2>2, <2>3, <2>4, <2>5 DEF IInv
  <1> QED
    BY <1>4, <1>5

LEMMA NextKeeps == IInv /\ [Next]_vars => IInv'
  <1>1. IInv /\ UNCHANGED vars => IInv'
    <2> SUFFICES ASSUME IInv, UNCHANGED vars PROVE IInv'
      OBVIOUS
    <2>1. UNCHANGED <<library, fn, pc, j, constantBufferBindings, resourceBlocks,
                      generatedStructs, of, profileEntrypoints>>
      BY DEF vars, locals, output
    <2>2. TypeOK' /\ InLibrary' /\ BuffersRead' /\ CrashHasCause'
      BY <2>1 DEF IInv, TypeOK, InLibrary, Inner, BuffersRead, CrashHasCause, F
    <2> QED
      BY <2>1, <2>2, HeaderUnchanged, KnownGrows DEF IInv
  <1> QED
    BY <1>1, ReadBufferKeeps, BindBufferKeeps, BindResourceKeeps, DeclareBlockKeeps,
       DeclareKeeps, NotDeclaredKeeps, MovesKeep DEF Next, Progress

LEMMA Invariance == Spec => []IInv
  BY InitIInv, NextKeeps, PTL DEF Spec

-------------------------------------------------------------------------------
(* Theorems *)

\* The vectors of generateCPP keep their types and sizes, for any library.
THEOREM TypeCorrect == Spec => []TypeOK
  <1>1. IInv => TypeOK
    BY DEF IInv
  <1> QED
    BY <1>1, Invariance, PTL

\* Whatever functions and resources there are, and in whatever order, the header
\* never names a struct that it has not defined before.
THEOREM StructsComeFirst == Spec => []TypesBeforeUse
  <1>1. IInv => TypesBeforeUse
    <2> SUFFICES ASSUME IInv, NEW k \in 1 .. Len(of), NEW u \in Range(of[k].uses)
                 PROVE  \/ u.type \in {None, Handle}
                        \/ \E l \in Declared("struct") : l < k /\ of[l].name = Plain(u.type)
      BY DEF TypesBeforeUse
    <2>1. of \in Seq(Declaration)
      BY DEF IInv, TypeOK
    <2>2. of[k].uses \in Seq(Member)
      <3>1. of[k] \in Declaration
        BY <2>1
      <3> QED
        BY <3>1 DEF Declaration
    <2>3. PICK p \in 1 .. Len(of[k].uses) : u = of[k].uses[p]
      BY <2>2 DEF Range
    <2>4. \/ u.type \in {None, Handle}
          \/ \E l \in 1 .. k - 1 : StructAt(of, l, u.type)
      BY <2>3 DEF IInv, UsesDeclared
    <2>5. Len(of) \in Nat
      BY <2>1
    <2> QED
      BY <2>4, <2>5 DEF StructAt, Declared
  <1> QED
    BY <1>1, Invariance, PTL

\* generateCPP dies of nothing but the causes named.
THEOREM CrashesAreExplained == Spec => []CrashHasCause
  <1>1. IInv => CrashHasCause
    BY DEF IInv
  <1> QED
    BY <1>1, Invariance, PTL

-------------------------------------------------------------------------------
(* The bindings of a function are its own.  The invariant counts the buffers   *)
(* of the function that were read, and remembers what was declared             *)

At(own, i, p) == own[i].space = 0 /\ own[i].point = p

\* v holds the types of the first n buffers, by their bind points.
Own(v, own, n) ==
  /\ \A p \in 0 .. Len(v) - 1 :
       \/ v[p + 1] = None /\ \A i \in 1 .. n : ~At(own, i, p)
       \/ \E i \in 1 .. n : At(own, i, p) /\ v[p + 1] = own[i].type
  /\ \A i \in 1 .. n : own[i].space = 0 =>
       /\ own[i].point < Len(v)
       /\ \/ v[own[i].point + 1] = own[i].type
          \/ \E l \in 1 .. n : /\ l > i /\ At(own, l, own[i].point)
                               /\ own[l].name = own[i].type

Read == IF pc = "buffers" /\ j <= Len(F.buffers) THEN j - 1 ELSE Len(F.buffers)
BoundSoFar == Inner => Own(constantBufferBindings, F.buffers, Read)
DeclaredOwn ==
  \A k \in 1 .. Len(of) : of[k].kind = "function" =>
    /\ of[k].fn \in 1 .. Len(library)
    /\ Own([p \in 1 .. Len(of[k].uses) |-> of[k].uses[p].type],
           library[of[k].fn].buffers, Len(library[of[k].fn].buffers))

OInv == BoundSoFar /\ DeclaredOwn

\* One more buffer, which takes its bind point without a conflict.
LEMMA OwnBound ==
  ASSUME NEW c \in Seq(Text), NEW own \in Seq(Resource), NEW n \in 1 .. Len(own),
         \A i \in 1 .. n : own[i].type \in Id,
         Own(c, own, n - 1),
         NEW v \in Seq(Text), Len(c) <= Len(v), own[n].point < Len(v), own[n].space = 0,
         \A k \in 1 .. Len(v) : v[k] = IF k <= Len(c) THEN c[k] ELSE None,
         ~Conflict(v, own[n]),
         NEW w \in Seq(Text), Len(w) = Len(v),
         \A k \in 1 .. Len(v) : w[k] = IF k = own[n].point + 1 THEN own[n].type ELSE v[k]
  PROVE  Own(w, own, n)
  <1>1. \A i \in 1 .. Len(own) : own[i] \in Resource
    OBVIOUS
  <1>2. \A i \in 1 .. Len(own) : own[i].point \in Nat
    BY <1>1 DEF Resource
  <1>3. PICK at \in Nat : at = own[n].point
    BY <1>2
  <1>4. /\ Len(c) \in Nat /\ Len(v) \in Nat /\ n \in Nat /\ n <= Len(own)
        /\ \A i \in 1 .. n : i # n => i \in 1 .. n - 1
    OBVIOUS
  <1>4a. \A p \in 0 .. Len(w) - 1 :
          /\ p \in Nat /\ p + 1 \in 1 .. Len(v) /\ p + 1 \in Nat
          /\ w[p + 1] = IF p = at THEN own[n].type ELSE v[p + 1]
          /\ v[p + 1] = IF p < Len(c) THEN c[p + 1] ELSE None
    <2> SUFFICES ASSUME NEW p \in 0 .. Len(w) - 1
                 PROVE  /\ p \in Nat /\ p + 1 \in 1 .. Len(v) /\ p + 1 \in Nat
                        /\ w[p + 1] = IF p = at THEN own[n].type ELSE v[p + 1]
                        /\ v[p + 1] = IF p < Len(c) THEN c[p + 1] ELSE None
      OBVIOUS
    <2>1. p \in Nat /\ p + 1 \in 1 .. Len(v)
      BY <1>4
    <2>2. p + 1 = at + 1 <=> p = at
      BY <2>1
    <2>3. p + 1 <= Len(c) <=> p < Len(c)
      BY <1>4, <2>1
    <2>4. w[p + 1] = IF p + 1 = at + 1 THEN own[n].type ELSE v[p + 1]
      BY <1>3, <2>1
    <2>5. v[p + 1] = IF p + 1 <= Len(c) THEN c[p + 1] ELSE None
      BY <2>1
    <2> QED
      BY <2>1, <2>2, <2>3, <2>4, <2>5
  <1>5. ASSUME NEW p \in 0 .. Len(w) - 1
        PROVE  \/ w[p + 1] = None /\ \A i \in 1 .. n : ~At(own, i, p)
               \/ \E i \in 1 .. n : At(own, i, p) /\ w[p + 1] = own[i].type
    <2>1. CASE p = at
      <3>1. At(own, n, p) /\ w[p + 1] = own[n].type /\ n \in 1 .. n
        <4>1. w[p + 1] = own[n].type
          BY <1>4a, <2>1
        <4>2. At(own, n, p)
          BY <1>3, <2>1 DEF At
        <4>3. n \in 1 .. n
          BY <1>4
        <4> QED
          BY <4>1, <4>2, <4>3
      <3> QED
        BY <3>1
    <2>2. CASE p # at /\ p < Len(c)
      <3>1. w[p + 1] = c[p + 1]
        BY <1>4a, <2>2
      <3>2. ~At(own, n, p)
        BY <1>3, <2>2 DEF At
      <3>3. \/ c[p + 1] = None /\ \A i \in 1 .. n - 1 : ~At(own, i, p)
            \/ \E i \in 1 .. n - 1 : At(own, i, p) /\ c[p + 1] = own[i].type
        BY <1>4, <2>2 DEF Own
      <3>4. \A i \in 1 .. n - 1 : i \in 1 .. n
        BY <1>4
      <3> QED
        BY <1>4, <3>1, <3>2, <3>3, <3>4
    <2>3. CASE p # at /\ p >= Len(c)
      <3>1. w[p + 1] = None
        BY <1>4, <1>4a, <2>3
      <3>2. ~At(own, n, p)
        BY <1>3, <2>3 DEF At
      <3>3. ASSUME NEW i \in 1 .. n - 1, At(own, i, p) PROVE FALSE
        <4>1. own[i].point < Len(c)
          BY <1>4, <3>3 DEF Own, At
        <4> QED
          BY <1>4, <2>3, <3>3, <4>1 DEF At
      <3> QED
        BY <1>4, <3>1, <3>2, <3>3
    <2> QED
      BY <1>4, <2>1, <2>2, <2>3
  <1>6. ASSUME NEW i \in 1 .. n, own[i].space = 0
        PROVE  /\ own[i].point < Len(w)
               /\ \/ w[own[i].point + 1] = own[i].type
                  \/ \E l \in 1 .. n : /\ l > i /\ At(own, l, own[i].point)
                                       /\ own[l].name = own[i].type
    <2>1. CASE i = n
      BY <1>3, <1>4, <2>1
    <2>2. CASE i # n
      <3>0. own[i].point \in Nat
        BY <1>2, <1>4
      <3>1. PICK q \in Nat : q = own[i].point
        BY <3>0
      <3>2. /\ q < Len(c)
            /\ \/ c[q + 1] = own[i].type
               \/ \E l \in 1 .. n - 1 : /\ l > i /\ At(own, l, q)
                                        /\ own[l].name = own[i].type
        BY <1>4, <1>6, <2>2, <3>1 DEF Own
      <3>3. q < Len(w) /\ q + 1 \in 1 .. Len(c) /\ q + 1 \in 1 .. Len(v) /\ v[q + 1] = c[q + 1]
        BY <1>4, <3>1, <3>2
      <3>4. CASE \E l \in 1 .. n - 1 : /\ l > i /\ At(own, l, q)
                                       /\ own[l].name = own[i].type
        <4>1. \A l \in 1 .. n - 1 : l \in 1 .. n
          BY <1>4
        <4> QED
          BY <3>1, <3>3, <3>4, <4>1
      <3>5. CASE c[q + 1] = own[i].type /\ q # at
        <4>1. w[q + 1] = v[q + 1]
          BY <1>3, <3>3, <3>5, SMTT(30)
        <4> QED
          BY <3>1, <3>3, <3>5, <4>1
      <3>6. CASE c[q + 1] = own[i].type /\ q = at
        <4>1. v[q + 1] # None
          <5>1. own[i].type \in Id
            OBVIOUS
          <5> QED
            BY <3>3, <3>6, <5>1, NamesAssumption
        <4>2. own[n].name = own[i].type
          BY <1>3, <3>3, <3>6, <4>1 DEF Conflict
        <4>3. n > i /\ n \in 1 .. n /\ At(own, n, q)
          BY <1>3, <1>4, <2>2, <3>6 DEF At
        <4> QED
          BY <3>1, <3>3, <4>2, <4>3
      <3> QED
        BY <3>2, <3>4, <3>5, <3>6
    <2> QED
      BY <2>1, <2>2
  <1> QED
    BY <1>5, <1>6 DEF Own

\* One more buffer outside space 0.
LEMMA OwnPassed ==
  ASSUME NEW v, NEW own, NEW n \in Nat \ {0}, Own(v, own, n - 1), own[n].space # 0
  PROVE  Own(v, own, n)
  <1>1. \A i \in 1 .. n : i \in 1 .. n - 1 \/ i = n
    OBVIOUS
  <1>2. \A i \in 1 .. n - 1 : i \in 1 .. n
    OBVIOUS
  <1>3. \A p : ~At(own, n, p)
    BY DEF At
  <1>4. ASSUME NEW p \in 0 .. Len(v) - 1
        PROVE  \/ v[p + 1] = None /\ \A i \in 1 .. n : ~At(own, i, p)
               \/ \E i \in 1 .. n : At(own, i, p) /\ v[p + 1] = own[i].type
    BY <1>1, <1>2, <1>3 DEF Own
  <1>5. ASSUME NEW i \in 1 .. n, own[i].space = 0
        PROVE  /\ own[i].point < Len(v)
               /\ \/ v[own[i].point + 1] = own[i].type
                  \/ \E l \in 1 .. n : /\ l > i /\ At(own, l, own[i].point)
                                       /\ own[l].name = own[i].type
    <2>1. i \in 1 .. n - 1
      BY <1>1, <1>5
    <2> QED
      BY <1>2, <1>5, <2>1 DEF Own
  <1> QED
    BY <1>4, <1>5 DEF Own

\* The vectors of a function that begins are empty, and hold none of its buffers.
LEMMA OwnNone == \A own : Own(<< >>, own, 0)
  <1>1. Len(<< >>) = 0
    OBVIOUS
  <1> QED
    BY <1>1 DEF Own

LEMMA BoundKeeps == IInv /\ OInv /\ Next => BoundSoFar'
  <1> SUFFICES ASSUME IInv, OInv, Next PROVE BoundSoFar'
    OBVIOUS
  <1>1. TypeOK /\ InLibrary /\ (Inner => fn <= Len(library))
    BY DEF IInv, InLibrary
  <1>2. CASE BeginFunction
    <2>1. pc' = "buffers" /\ j' = 1 /\ constantBufferBindings' = << >>
      BY <1>2 DEF BeginFunction, FreshLocals
    <2>2. Read' = 0
      <3>1. F' = F /\ fn <= Len(library)
        BY <1>2 DEF BeginFunction, F
      <3>2. Len(F.buffers) \in Nat
        BY <1>1, <3>1, FunctionType DEF Function
      <3> QED
        BY <2>1, <3>1, <3>2 DEF Read
    <2> QED
      BY <2>1, <2>2, OwnNone DEF BoundSoFar
  <1>3. CASE ReadBuffer
    <2>1. /\ pc = "buffers" /\ pc' = "buffers" /\ j' = j + 1 /\ j \in Nat \ {0}
          /\ j <= Len(F.buffers) /\ F.buffers[j].space # 0
          /\ UNCHANGED <<library, fn, constantBufferBindings>>
      BY <1>1, <1>3 DEF ReadBuffer, TypeOK, Buffer, locals
    <2>2. Own(constantBufferBindings, F.buffers, j - 1)
      BY <2>1 DEF OInv, BoundSoFar, Inner, Read
    <2>3. Own(constantBufferBindings, F.buffers, j)
      BY <2>1, <2>2, OwnPassed
    <2>4. Read' = j /\ F' = F
      <3>1. F' = F
        BY <2>1 DEF F
      <3>2. Len(F.buffers) \in Nat
        BY <1>1, <2>1, FunctionType DEF Function, Inner
      <3> QED
        BY <2>1, <3>1, <3>2 DEF Read
    <2> QED
      BY <2>1, <2>3, <2>4 DEF BoundSoFar
  <1>4. CASE BindBuffer
    <2> DEFINE v == Reaching(constantBufferBindings, Buffer.point, None)
               w == Replaced(v, Buffer.point, Buffer.type)
    <2>1. CASE pc' \in {"crashed", "failed"}
      BY <2>1 DEF BoundSoFar, Inner
    <2>2. CASE pc' \notin {"crashed", "failed"}
      <3>1. /\ pc = "buffers" /\ pc' = "buffers" /\ j' = j + 1 /\ j \in 1 .. Len(F.buffers)
            /\ Buffer.space = 0 /\ ~(Buffer.point >= Len(v)) /\ ~Conflict(v, Buffer)
            /\ constantBufferBindings' = w
            /\ UNCHANGED <<library, fn>>
        BY <1>1, <1>4, <2>2 DEF BindBuffer, TypeOK
      <3>2. /\ Buffer.point \in 0 .. UINT_MOD - 1 /\ Buffer.type \in Text
            /\ \A i \in 1 .. Len(F.buffers) : F.buffers[i].type \in Id
        BY <1>1, <3>1, BufferType DEF Buffer, Inner, Text
      <3>3. constantBufferBindings \in Seq(Text) /\ None \in Text
        BY <1>1 DEF TypeOK, Text
      <3>4. PICK c, at : c = constantBufferBindings /\ at = Buffer.point
        OBVIOUS
      <3>5. /\ v \in Seq(Text)
            /\ \A k \in 1 .. Len(v) : v[k] = IF k <= Len(c) THEN c[k] ELSE None
            /\ at < Len(v) => Len(c) <= Len(v)
        <4>1. c \in Seq(Text) /\ at \in 0 .. UINT_MOD - 1
          BY <3>2, <3>3, <3>4
        <4>2. /\ Reaching(c, at, None) \in Seq(Text)
              /\ \A k \in 1 .. Len(Reaching(c, at, None)) :
                   Reaching(c, at, None)[k] = IF k <= Len(c) THEN c[k] ELSE None
              /\ at < Len(Reaching(c, at, None)) => Len(c) <= Len(Reaching(c, at, None))
          BY <3>3, <4>1, ReachingFacts
        <4> QED
          BY <3>4, <4>2
      <3> HIDE DEF v
      <3>6. at \in Nat /\ at < Len(v) /\ Len(c) <= Len(v)
        <4>1. at \in Nat /\ Len(v) \in Nat
          BY <3>2, <3>4, <3>5
        <4> QED
          BY <3>1, <3>4, <3>5, <4>1
      <3>7. PICK x : x = Buffer.type
        OBVIOUS
      <3>8. /\ Replaced(v, at, x) \in Seq(Text) /\ Len(Replaced(v, at, x)) = Len(v)
            /\ \A k \in 1 .. Len(v) : Replaced(v, at, x)[k] = IF k = at + 1 THEN x ELSE v[k]
        BY <3>2, <3>5, <3>6, <3>7 DEF Replaced
      <3>9. w = Replaced(v, at, x)
        BY <3>4, <3>7
      <3> HIDE DEF w
      <3>10. PICK own, n : own = F.buffers /\ n = j
        OBVIOUS
      <3>11. own \in Seq(Resource)
        BY <1>1, <3>1, <3>10, FunctionType DEF Function, Inner
      <3>12. /\ n \in 1 .. Len(own) /\ own[n].point = at /\ own[n].type = x
             /\ own[n].space = 0 /\ ~Conflict(v, own[n])
             /\ \A i \in 1 .. n : own[i].type \in Id
        BY <3>1, <3>2, <3>4, <3>7, <3>10 DEF Buffer
      <3>13. Own(c, own, n - 1)
        BY <3>1, <3>4, <3>10 DEF OInv, BoundSoFar, Inner, Read
      <3>14. /\ w \in Seq(Text) /\ Len(w) = Len(v)
             /\ \A k \in 1 .. Len(v) :
                  w[k] = IF k = own[n].point + 1 THEN own[n].type ELSE v[k]
        BY <3>8, <3>9, <3>12
      <3>15. own[n].point < Len(v) /\ Len(c) <= Len(v) /\ c \in Seq(Text)
        BY <3>3, <3>4, <3>6, <3>12
      <3>16. Own(w, own, n)
        BY <3>5, <3>11, <3>12, <3>13, <3>14, <3>15, OwnBound
      <3>17. Read' = n /\ F'.buffers = own
        <4>1. F' = F
          BY <3>1 DEF F
        <4>2. Len(own) \in Nat
          BY <3>11
        <4> QED
          BY <3>1, <3>10, <4>1, <4>2 DEF Read
      <3> QED
        BY <3>1, <3>16, <3>17 DEF BoundSoFar
    <2> QED
      BY <2>1, <2>2
  <1>5. CASE EndBuffers \/ SkipResource \/ BindResource \/ EndResources \/ DeclareBlock
    <2>1. /\ Inner' => Inner
          /\ UNCHANGED <<library, fn, constantBufferBindings>>
          /\ pc' = "buffers" => FALSE
      BY <1>5 DEF Inner, EndBuffers, SkipResource, BindResource, EndResources,
                  DeclareBlock, locals
    <2>2. Inner /\ Own(constantBufferBindings, F.buffers, Len(F.buffers))
      <3>1. CASE EndBuffers
        <4>1. pc = "buffers" /\ j > Len(F.buffers) /\ j \in Nat
          BY <1>1, <3>1 DEF EndBuffers, TypeOK
        <4>2. Len(F.buffers) \in Nat
          BY <1>1, <4>1, FunctionType DEF Function, Inner
        <4>3. ~(j <= Len(F.buffers))
          BY <4>1, <4>2
        <4> QED
          BY <4>1, <4>3 DEF OInv, BoundSoFar, Inner, Read
      <3>2. CASE SkipResource \/ BindResource \/ EndResources \/ DeclareBlock
        BY <3>2 DEF OInv, BoundSoFar, Inner, Read, SkipResource, BindResource,
                    EndResources, DeclareBlock
      <3> QED
        BY <1>5, <3>1, <3>2
    <2>3. (F' = F /\ Read' = Len(F.buffers)) \/ ~Inner'
      BY <2>1 DEF Read, F
    <2> QED
      BY <2>1, <2>2, <2>3 DEF BoundSoFar
  <1>6. CASE Declare \/ DeclareShort \/ DeclareUnknown \/ Complete \/ ReflectionFails
    BY <1>6 DEF BoundSoFar, Inner, Declare, DeclareShort, DeclareUnknown, Complete,
                ReflectionFails
  <1>7. CASE Stopped
    BY <1>7 DEF BoundSoFar, Inner, Stopped, vars
  <1> QED
    BY <1>2, <1>3, <1>4, <1>5, <1>6, <1>7 DEF Next, Progress

\* What is asked of one declaration, and of one more.
OwnDeclaration(d) ==
  d.kind = "function" =>
    /\ d.fn \in 1 .. Len(library)
    /\ Own([p \in 1 .. Len(d.uses) |-> d.uses[p].type],
           library[d.fn].buffers, Len(library[d.fn].buffers))

LEMMA DeclaredGrows ==
  ASSUME of \in Seq(Declaration), DeclaredOwn, UNCHANGED library,
         NEW d \in Declaration, OwnDeclaration(d), of' \in {of, Append(of, d)}
  PROVE  DeclaredOwn'
  <1>1. \A k \in 1 .. Len(of) : OwnDeclaration(of[k])
    BY DEF DeclaredOwn, OwnDeclaration
  <1>2. \A k \in 1 .. Len(of') : OwnDeclaration(of'[k])
    <2>1. CASE of' = of
      BY <1>1, <2>1
    <2>2. CASE of' = Append(of, d)
      <3>1. PICK n \in Nat : n = Len(of)
        OBVIOUS
      <3>2. /\ Len(of') = n + 1 /\ of'[n + 1] = d
            /\ \A k \in 1 .. n : of'[k] = of[k]
        BY <2>2, <3>1, AppendFacts
      <3>3. \A k \in 1 .. n + 1 : k \in 1 .. n \/ k = n + 1
        OBVIOUS
      <3> QED
        BY <1>1, <3>1, <3>2, <3>3
    <2> QED
      BY <2>1, <2>2
  <1> QED
    BY <1>2 DEF DeclaredOwn, OwnDeclaration

LEMMA DeclaredKeeps == IInv /\ OInv /\ Next => DeclaredOwn'
  <1> SUFFICES ASSUME IInv, OInv, Next PROVE DeclaredOwn'
    OBVIOUS
  <1>1. /\ TypeOK /\ InLibrary /\ DeclaredOwn
        /\ of \in Seq(Declaration) /\ fn \in Nat \ {0} /\ j \in Nat \ {0}
    BY DEF IInv, OInv, TypeOK
  <1>2. CASE ReadBuffer \/ BindBuffer
    <2>1. /\ UNCHANGED library /\ pc = "buffers" /\ j \in 1 .. Len(F.buffers)
          /\ GenerateStruct(Buffer) /\ fn <= Len(library)
      BY <1>1, <1>2 DEF ReadBuffer, BindBuffer, InLibrary, Inner
    <2> DEFINE d == StructDeclaration(Buffer.type)
    <2>2. Buffer.type \in Id
      BY <1>1, <2>1, BufferType DEF Buffer
    <2>3. d \in Declaration /\ OwnDeclaration(d)
      BY <1>1, <2>2 DEF StructDeclaration, Declaration, Name, Plain, Text, OwnDeclaration
    <2>4. of' \in {of, Append(of, d)}
      BY <2>1 DEF GenerateStruct
    <2> HIDE DEF d
    <2> QED
      BY <1>1, <2>1, <2>3, <2>4, DeclaredGrows
  <1>3. CASE DeclareBlock
    <2> DEFINE d == BlockDeclaration
    <2>1. UNCHANGED library /\ j \in 1 .. Len(resourceBlocks) /\ of' \in {of, Append(of, d)}
      BY <1>1, <1>3 DEF DeclareBlock
    <2>2. resourceBlocks[j] \in Block
      BY <1>1, <2>1 DEF TypeOK
    <2>3. /\ resourceBlocks[j].mName \in Name /\ resourceBlocks[j].mMembers \in Seq(Member)
          /\ j + 1 \in Nat
      BY <1>1, <2>2 DEF Block
    <2>4. d \in Declaration /\ OwnDeclaration(d)
      BY <1>1, <2>3 DEF BlockDeclaration, Declaration, OwnDeclaration
    <2> HIDE DEF d
    <2> QED
      BY <1>1, <2>1, <2>4, DeclaredGrows
  <1>4. CASE Declare
    <2> DEFINE d == FunctionDeclaration
               u == [k \in 1 .. Len(constantBufferBindings) |->
                       [name |-> None, type |-> constantBufferBindings[k]]]
    <2>1. /\ UNCHANGED library /\ of' \in {of, Append(of, d)}
          /\ pc = "blocks" /\ fn <= Len(library) /\ fn \in 1 .. Len(library)
      BY <1>1, <1>4 DEF Declare, BlocksDeclared, InLibrary, Inner
    <2>2. constantBufferBindings \in Seq(Text)
      BY <1>1 DEF TypeOK
    <2>3. u \in Seq(Member) /\ Len(u) = Len(constantBufferBindings)
      BY <2>2 DEF Member, Text
    <2>4. [p \in 1 .. Len(u) |-> u[p].type] = constantBufferBindings
      BY <2>2, <2>3
    <2>5. Plain(F.name) \in Name
      BY <1>1, <2>1, FunctionType DEF Plain, Name, Text, Function
    <2> HIDE DEF u
    <2>6. d = [kind |-> "function", name |-> Plain(F.name), uses |-> u, fn |-> fn, space |-> 0]
      BY DEF FunctionDeclaration, u
    <2>7. Own(constantBufferBindings, library[fn].buffers, Len(library[fn].buffers))
      BY <2>1 DEF OInv, BoundSoFar, Inner, Read, F
    <2> HIDE DEF d
    <2>8. d \in Declaration /\ d.uses = u /\ d.fn = fn
      BY <1>1, <2>3, <2>5, <2>6 DEF Declaration
    <2>9. OwnDeclaration(d)
      BY <2>1, <2>4, <2>7, <2>8 DEF OwnDeclaration
    <2> QED
      BY <1>1, <2>1, <2>8, <2>9, DeclaredGrows
  <1>5. CASE ~(ReadBuffer \/ BindBuffer \/ DeclareBlock \/ Declare)
    <2>1. UNCHANGED <<library, of>>
      BY <1>5 DEF Next, Progress, BeginFunction, EndBuffers, SkipResource, BindResource,
                  EndResources, DeclareShort, DeclareUnknown, Complete, ReflectionFails,
                  Stopped, output, vars
    <2> QED
      BY <1>1, <2>1 DEF DeclaredOwn
  <1> QED
    BY <1>2, <1>3, <1>4, <1>5

LEMMA OwnInvariance == Spec => []OInv
  <1>1. Init => OInv
    BY DEF Init, OInv, BoundSoFar, DeclaredOwn, Inner
  <1>2. IInv /\ OInv /\ [Next]_vars => OInv'
    <2>1. OInv /\ UNCHANGED vars => OInv'
      BY DEF OInv, BoundSoFar, DeclaredOwn, Inner, Read, F, vars, locals, output
    <2> QED
      BY <2>1, BoundKeeps, DeclaredKeeps DEF OInv
  <1> QED
    BY <1>1, <1>2, Invariance, PTL DEF Spec

\* The bindings in a function's declaration are those of its own buffers, at
\* their bind points, whatever functions came before; a buffer loses its place
\* only to a later one that is named like its type.
THEOREM BindingsStayOwn == Spec => []BindingsAreOwn
  <1>1. IInv /\ OInv => BindingsAreOwn
    <2> SUFFICES ASSUME IInv, OInv, NEW k \in 1 .. Len(of), of[k].kind = "function"
                 PROVE  LET d   == of[k]
                            own == library[d.fn].buffers
                            at(p) == {i \in 1 .. Len(own) : own[i].space = 0 /\ own[i].point = p}
                        IN  /\ \A p \in 0 .. Len(d.uses) - 1 :
                                 d.uses[p + 1].type \in
                                   IF at(p) = {} THEN {None} ELSE {own[i].type : i \in at(p)}
                            /\ \A i \in 1 .. Len(own) : own[i].space = 0 =>
                                 \/ own[i].point < Len(d.uses)
                                    /\ d.uses[own[i].point + 1].type = own[i].type
                                 \/ \E l \in at(own[i].point) : l > i /\ own[l].name = own[i].type
      BY DEF BindingsAreOwn, Declared
    <2> DEFINE uses == of[k].uses
               own  == library[of[k].fn].buffers
               v    == [p \in 1 .. Len(uses) |-> uses[p].type]
               at(p) == {i \in 1 .. Len(own) : own[i].space = 0 /\ own[i].point = p}
    <2>1. Own(v, own, Len(own)) /\ of[k].fn \in 1 .. Len(library)
      BY DEF OInv, DeclaredOwn
    <2>2. uses \in Seq(Member) /\ own \in Seq(Resource)
      <3>1. of[k] \in Declaration /\ library[of[k].fn] \in Function
        BY <2>1 DEF IInv, TypeOK
      <3> QED
        BY <3>1 DEF Declaration, Function
    <2> HIDE DEF uses, own
    <2>3. Len(v) = Len(uses) /\ \A p \in 1 .. Len(uses) : v[p] = uses[p].type
      BY <2>2
    <2> HIDE DEF v
    <2>4. ASSUME NEW p \in 0 .. Len(uses) - 1
          PROVE  uses[p + 1].type \in IF at(p) = {} THEN {None} ELSE {own[i].type : i \in at(p)}
      <3>1. p + 1 \in 1 .. Len(uses) /\ p \in 0 .. Len(v) - 1
        BY <2>2, <2>3
      <3>2. v[p + 1] = uses[p + 1].type
        BY <2>3, <3>1
      <3>3. \/ v[p + 1] = None /\ \A i \in 1 .. Len(own) : ~At(own, i, p)
            \/ \E i \in 1 .. Len(own) : At(own, i, p) /\ v[p + 1] = own[i].type
        BY <2>1, <3>1 DEF Own
      <3> QED
        BY <3>2, <3>3 DEF At
    <2>5. ASSUME NEW i \in 1 .. Len(own), own[i].space = 0
          PROVE  \/ own[i].point < Len(uses) /\ uses[own[i].point + 1].type = own[i].type
                 \/ \E l \in at(own[i].point) : l > i /\ own[l].name = own[i].type
      <3>1. own[i].point \in Nat
        <4>1. own[i] \in Resource
          BY <2>2
        <4> QED
          BY <4>1 DEF Resource
      <3>2. /\ own[i].point < Len(v)
            /\ \/ v[own[i].point + 1] = own[i].type
               \/ \E l \in 1 .. Len(own) : /\ l > i /\ At(own, l, own[i].point)
                                           /\ own[l].name = own[i].type
        BY <2>1, <2>5 DEF Own
      <3>3. own[i].point + 1 \in 1 .. Len(uses) /\ own[i].point < Len(uses)
        BY <2>2, <2>3, <3>1, <3>2
      <3>4. v[own[i].point + 1] = uses[own[i].point + 1].type
        BY <2>3, <3>3
      <3> QED
        BY <3>2, <3>3, <3>4 DEF At
    <2> QED
      BY <2>4, <2>5 DEF uses, own
  <1> QED
    BY <1>1, Invariance, OwnInvariance, PTL

-------------------------------------------------------------------------------
(* The blocks after the first n resources of a function f *)

Goes(f, i, s) == InBlock(f.resources[i]) /\ f.resources[i].space = s
Takes(f, i, s, p) == Goes(f, i, s) /\ f.resources[i].point = p

\* m has the members of space s, each where its register is.
Holds(m, f, s, n) ==
  /\ \A i \in 1 .. n : Goes(f, i, s) => f.resources[i].point < Len(m)
  /\ \A p \in 1 .. Len(m) :
       \/ m[p] = NoMember /\ \A i \in 1 .. n : ~Takes(f, i, s, p - 1)
       \/ \E i \in 1 .. n : /\ Takes(f, i, s, p - 1) /\ m[p] = MemberOf(f.resources[i])
                            /\ \A l \in 1 .. n : Takes(f, l, s, p - 1) => l <= i

\* A block of a higher space was made before that of space s.
Overtaken(f, s, n) ==
  \E h \in 1 .. n : /\ InBlock(f.resources[h]) /\ f.resources[h].space > s
                    /\ \A i \in 1 .. n : Goes(f, i, s) => h < i
NameRead(f, s, n) == IF Overtaken(f, s, n) THEN Unnamed ELSE BlockName(f, s - 2)

\* The vector ends with the highest space.
Spans(v, f, n) ==
  /\ \A i \in 1 .. n : InBlock(f.resources[i]) => f.resources[i].space <= Len(v) + 1
  /\ v # << >> => \E i \in 1 .. n : Goes(f, i, Len(v) + 1)

BlocksRead(v, f, n) ==
  /\ Spans(v, f, n)
  /\ \A k \in 1 .. Len(v) :
       /\ Holds(v[k].mMembers, f, k + 1, n)
       /\ v[k].mName = NameRead(f, k + 1, n)

\* The resources of the function that were read.
ReadResources ==
  IF pc = "buffers" THEN 0
  ELSE IF pc = "resources" /\ j <= Len(F.resources) THEN j - 1
  ELSE Len(F.resources)
BlocksSoFar == Inner => BlocksRead(resourceBlocks, F, ReadResources)

\* A block in the header has what its function's resources say.
OwnBlock(d) ==
  d.kind = "block" =>
    /\ d.fn \in 1 .. Len(library) /\ d.space >= 2
    /\ Holds(d.uses, library[d.fn], d.space, Len(library[d.fn].resources))
    /\ d.name = NameRead(library[d.fn], d.space, Len(library[d.fn].resources))
DeclaredBlocks == \A k \in 1 .. Len(of) : OwnBlock(of[k])

BlockInv == BlocksSoFar /\ DeclaredBlocks


LEMMA ReadableResource ==
  ASSUME NEW f \in Function, NEW i \in 1 .. Len(f.resources)
  PROVE  /\ f.resources[i] \in Resource
         /\ f.resources[i].point \in Nat /\ f.resources[i].space \in Nat
  <1>1. f.resources[i] \in Resource
    BY DEF Function
  <1> QED
    BY <1>1 DEF Resource

\* A resource that goes elsewhere leaves a block as it is ...
LEMMA HoldsOther ==
  ASSUME NEW m, NEW f, NEW s, NEW n \in Nat, Holds(m, f, s, n), ~Goes(f, n + 1, s)
  PROVE  Holds(m, f, s, n + 1)
  <1>1. \A i \in 1 .. n + 1 : i \in 1 .. n \/ i = n + 1
    OBVIOUS
  <1>2. \A i \in 1 .. n : i \in 1 .. n + 1
    OBVIOUS
  <1>3. \A p : ~Takes(f, n + 1, s, p)
    BY DEF Takes
  <1>4. \A i \in 1 .. n + 1 : Goes(f, i, s) => f.resources[i].point < Len(m)
    BY <1>1 DEF Holds
  <1>5. ASSUME NEW p \in 1 .. Len(m)
        PROVE  \/ m[p] = NoMember /\ \A i \in 1 .. n + 1 : ~Takes(f, i, s, p - 1)
               \/ \E i \in 1 .. n + 1 : /\ Takes(f, i, s, p - 1) /\ m[p] = MemberOf(f.resources[i])
                                        /\ \A l \in 1 .. n + 1 : Takes(f, l, s, p - 1) => l <= i
    <2>1. CASE m[p] = NoMember /\ \A i \in 1 .. n : ~Takes(f, i, s, p - 1)
      BY <1>1, <1>3, <2>1
    <2>2. ASSUME NEW i \in 1 .. n, Takes(f, i, s, p - 1), m[p] = MemberOf(f.resources[i]),
                 \A l \in 1 .. n : Takes(f, l, s, p - 1) => l <= i
          PROVE  \E h \in 1 .. n + 1 : /\ Takes(f, h, s, p - 1) /\ m[p] = MemberOf(f.resources[h])
                                       /\ \A l \in 1 .. n + 1 : Takes(f, l, s, p - 1) => l <= h
      <3>1. \A l \in 1 .. n + 1 : Takes(f, l, s, p - 1) => l <= i
        BY <1>1, <1>3, <2>2
      <3> QED
        BY <1>2, <2>2, <3>1
    <2> QED
      BY <2>1, <2>2 DEF Holds
  <1> QED
    BY <1>4, <1>5 DEF Holds

\* ... and one that goes there takes its register, over what was there.
LEMMA HoldsBound ==
  ASSUME NEW f \in Function, NEW s, NEW n \in Nat, n + 1 \in 1 .. Len(f.resources),
         NEW m \in Seq(Member), Holds(m, f, s, n), Goes(f, n + 1, s),
         NEW r \in Seq(Member), Len(m) <= Len(r),
         \A p \in 1 .. Len(r) : r[p] = IF p <= Len(m) THEN m[p] ELSE NoMember,
         f.resources[n + 1].point < Len(r),
         NEW w \in Seq(Member), Len(w) = Len(r),
         \A p \in 1 .. Len(r) :
           w[p] = IF p = f.resources[n + 1].point + 1 THEN MemberOf(f.resources[n + 1]) ELSE r[p]
  PROVE  Holds(w, f, s, n + 1)
  <1>1. \A i \in 1 .. n + 1 : i \in 1 .. n \/ i = n + 1
    OBVIOUS
  <1>2. \A i \in 1 .. n : i \in 1 .. n + 1 /\ i <= n + 1
    OBVIOUS
  <1>3. \A i \in 1 .. Len(f.resources) : f.resources[i].point \in Nat
    BY ReadableResource
  <1>4. Len(m) \in Nat /\ Len(r) \in Nat
    OBVIOUS
  <1>5. \A i \in 1 .. n + 1 : i \in 1 .. Len(f.resources)
    <2>1. Len(f.resources) \in Nat
      BY DEF Function
    <2> QED
      BY <2>1
  <1>6. \A i \in 1 .. n + 1 : Goes(f, i, s) => f.resources[i].point < Len(w)
    <2> SUFFICES ASSUME NEW i \in 1 .. n + 1, Goes(f, i, s) PROVE f.resources[i].point < Len(w)
      OBVIOUS
    <2>1. CASE i = n + 1
      BY <2>1
    <2>2. CASE i \in 1 .. n
      <3>1. f.resources[i].point < Len(m) /\ f.resources[i].point \in Nat
        BY <1>3, <1>5, <2>2 DEF Holds
      <3> QED
        BY <1>4, <3>1
    <2> QED
      BY <1>1, <2>1, <2>2
  <1>7. ASSUME NEW p \in 1 .. Len(w)
        PROVE  \/ w[p] = NoMember /\ \A i \in 1 .. n + 1 : ~Takes(f, i, s, p - 1)
               \/ \E i \in 1 .. n + 1 : /\ Takes(f, i, s, p - 1) /\ w[p] = MemberOf(f.resources[i])
                                        /\ \A l \in 1 .. n + 1 : Takes(f, l, s, p - 1) => l <= i
    <2>1. CASE p = f.resources[n + 1].point + 1
      <3>1. f.resources[n + 1].point \in Nat /\ p - 1 = f.resources[n + 1].point
        BY <1>3, <2>1
      <3>2. Takes(f, n + 1, s, p - 1) /\ w[p] = MemberOf(f.resources[n + 1])
        BY <2>1, <3>1 DEF Takes
      <3>3. \A l \in 1 .. n + 1 : l <= n + 1
        OBVIOUS
      <3>4. n + 1 \in 1 .. n + 1
        OBVIOUS
      <3> QED
        BY <3>2, <3>3, <3>4
    <2>2. CASE p # f.resources[n + 1].point + 1
      <3>1. w[p] = r[p] /\ p \in 1 .. Len(r)
        BY <2>2
      <3>2. ~Takes(f, n + 1, s, p - 1)
        <4>1. f.resources[n + 1].point \in Nat
          BY <1>3
        <4>2. f.resources[n + 1].point # p - 1
          BY <2>2, <4>1
        <4> QED
          BY <4>2 DEF Takes
      <3>3. CASE p > Len(m)
        <4>1. w[p] = NoMember
          BY <1>4, <3>1, <3>3
        <4>2. \A i \in 1 .. n : ~Takes(f, i, s, p - 1)
          <5> SUFFICES ASSUME NEW i \in 1 .. n, Takes(f, i, s, p - 1) PROVE FALSE
            OBVIOUS
          <5>1. f.resources[i].point < Len(m) /\ f.resources[i].point = p - 1
            BY DEF Holds, Takes
          <5> QED
            BY <1>4, <3>1, <3>3, <5>1
        <4> QED
          BY <1>1, <3>2, <4>1, <4>2
      <3>4. CASE p <= Len(m)
        <4>1. w[p] = m[p] /\ p \in 1 .. Len(m)
          BY <1>4, <3>1, <3>4
        <4>2. CASE m[p] = NoMember /\ \A i \in 1 .. n : ~Takes(f, i, s, p - 1)
          BY <1>1, <3>2, <4>1, <4>2
        <4>3. ASSUME NEW i \in 1 .. n, Takes(f, i, s, p - 1), m[p] = MemberOf(f.resources[i]),
                     \A l \in 1 .. n : Takes(f, l, s, p - 1) => l <= i
              PROVE  \E h \in 1 .. n + 1 :
                       /\ Takes(f, h, s, p - 1) /\ w[p] = MemberOf(f.resources[h])
                       /\ \A l \in 1 .. n + 1 : Takes(f, l, s, p - 1) => l <= h
          <5>1. \A l \in 1 .. n + 1 : Takes(f, l, s, p - 1) => l <= i
            BY <1>1, <3>2, <4>3
          <5> QED
            BY <1>2, <4>1, <4>3, <5>1
        <4> QED
          BY <4>1, <4>2, <4>3 DEF Holds
      <3> QED
        BY <1>4, <3>1, <3>3, <3>4
    <2> QED
      BY <2>1, <2>2
  <1> QED
    BY <1>6, <1>7 DEF Holds

LEMMA HoldsNone ==
  ASSUME NEW f, NEW s, NEW n \in Nat, \A i \in 1 .. n : ~Goes(f, i, s)
  PROVE  Holds(<< >>, f, s, n)
  BY DEF Holds

\* The name of a block that was made does not change: not when a resource goes
\* elsewhere, because its space has one before that or a higher space has; and
\* not when one goes there.
LEMMA NameKept ==
  ASSUME NEW f \in Function, NEW s \in Nat, NEW n \in Nat, n + 1 \in 1 .. Len(f.resources),
         \E h \in 1 .. n : InBlock(f.resources[h]) /\ f.resources[h].space >= s
  PROVE  NameRead(f, s, n + 1) = NameRead(f, s, n)
  <1>1. \A i \in 1 .. n + 1 : i \in 1 .. n \/ i = n + 1
    OBVIOUS
  <1>2. \A i \in 1 .. n : i \in 1 .. n + 1 /\ i < n + 1
    OBVIOUS
  <1>3. PICK h \in 1 .. n : InBlock(f.resources[h]) /\ f.resources[h].space >= s
    OBVIOUS
  <1>4. f.resources[h].space \in Nat
    <2>1. h \in 1 .. Len(f.resources)
      <3>1. Len(f.resources) \in Nat
        BY DEF Function
      <3> QED
        BY <3>1
    <2> QED
      BY <2>1, ReadableResource
  <1>5. Overtaken(f, s, n) => Overtaken(f, s, n + 1)
    BY <1>1, <1>2 DEF Overtaken
  <1>6. ASSUME Overtaken(f, s, n + 1) PROVE Overtaken(f, s, n)
    <2>1. PICK g \in 1 .. n + 1 : /\ InBlock(f.resources[g]) /\ f.resources[g].space > s
                                  /\ \A i \in 1 .. n + 1 : Goes(f, i, s) => g < i
      BY <1>6 DEF Overtaken
    <2>2. CASE g \in 1 .. n
      BY <1>2, <2>1, <2>2 DEF Overtaken
    <2>3. CASE g = n + 1
      <3>1. \A i \in 1 .. n : ~Goes(f, i, s)
        BY <1>2, <2>1, <2>3
      <3>2. f.resources[h].space # s
        BY <1>3, <3>1 DEF Goes
      <3> QED
        BY <1>3, <1>4, <3>1, <3>2 DEF Overtaken
    <2> QED
      BY <1>1, <2>2, <2>3
  <1> QED
    BY <1>5, <1>6 DEF NameRead

\* A resource without a block changes nothing.
LEMMA BlocksSkip ==
  ASSUME NEW v \in Seq(Block), NEW f \in Function, NEW n \in Nat,
         n + 1 \in 1 .. Len(f.resources),
         BlocksRead(v, f, n), ~InBlock(f.resources[n + 1])
  PROVE  BlocksRead(v, f, n + 1)
  <1>1. \A i \in 1 .. n + 1 : i \in 1 .. n \/ i = n + 1
    OBVIOUS
  <1>2. \A i \in 1 .. n : i \in 1 .. n + 1
    OBVIOUS
  <1>3. \A s : ~Goes(f, n + 1, s)
    BY DEF Goes
  <1>4. Spans(v, f, n + 1)
    BY <1>1, <1>2 DEF BlocksRead, Spans
  <1>5. ASSUME NEW k \in 1 .. Len(v)
        PROVE  Holds(v[k].mMembers, f, k + 1, n + 1) /\ v[k].mName = NameRead(f, k + 1, n + 1)
    <2>1. Holds(v[k].mMembers, f, k + 1, n) /\ v[k].mName = NameRead(f, k + 1, n)
      BY DEF BlocksRead
    <2>2. \E h \in 1 .. n : InBlock(f.resources[h]) /\ f.resources[h].space >= k + 1
      <3>1. v # << >> /\ k + 1 <= Len(v) + 1
        OBVIOUS
      <3> QED
        BY <3>1 DEF BlocksRead, Spans, Goes
    <2>3. k + 1 \in Nat
      OBVIOUS
    <2> QED
      BY <1>3, <2>1, <2>2, <2>3, HoldsOther, NameKept
  <1> QED
    BY <1>4, <1>5 DEF BlocksRead

\* The vector of blocks after it was made to reach a space.
IsGrown(g, v, f, a) ==
  /\ g \in Seq(Block)
  /\ Len(g) = IF Len(v) > a THEN Len(v) ELSE a + 1
  /\ \A k \in 1 .. Len(g) :
       g[k] = IF k <= Len(v) THEN v[k]
              ELSE IF k = a + 1 THEN [mName |-> BlockName(f, a), mMembers |-> << >>]
              ELSE NoBlock

LEMMA GrownFacts ==
  ASSUME NEW v \in Seq(Block), NEW f \in Function, NEW a \in Nat
  PROVE  IsGrown(Grown(v, f, a), v, f, a)
  <1> DEFINE u == Resized(v, a + 1, NoBlock)
             b == [mName |-> BlockName(f, a), mMembers |-> << >>]
  <1>1. CASE Len(v) > a
    BY <1>1 DEF Grown, IsGrown
  <1>2. CASE ~(Len(v) > a)
    <2>1. NoBlock \in Block
      BY DEF NoBlock, Block, Unnamed, Plain, Name, Text, Member
    <2>2. a + 1 \in Nat
      OBVIOUS
    <2>3. /\ u \in Seq(Block) /\ Len(u) = a + 1
          /\ \A k \in 1 .. a + 1 : u[k] = IF k <= Len(v) THEN v[k] ELSE NoBlock
      <3>1. PICK c, x : c = a + 1 /\ x = NoBlock
        OBVIOUS
      <3>2. c \in Nat /\ x \in Block
        BY <2>1, <3>1
      <3>3. /\ Resized(v, c, x) \in Seq(Block) /\ Len(Resized(v, c, x)) = c
            /\ \A k \in 1 .. c : Resized(v, c, x)[k] = IF k <= Len(v) THEN v[k] ELSE x
        BY <3>2, ResizedFacts, SMTT(30)
      <3> QED
        BY <3>1, <3>3
    <2>4. b \in Block
      BY DEF Block, BlockName, Name, Text, Function, Member
    <2>5. Grown(v, f, a) = Replaced(u, a, b)
      BY <1>2 DEF Grown
    <2> HIDE DEF u, b
    <2>6. /\ Replaced(u, a, b) \in Seq(Block) /\ Len(Replaced(u, a, b)) = a + 1
          /\ \A k \in 1 .. a + 1 : Replaced(u, a, b)[k] = IF k = a + 1 THEN b ELSE u[k]
      BY <2>3, <2>4 DEF Replaced
    <2>7. Len(v) \in Nat
      OBVIOUS
    <2>8. \A k \in 1 .. a + 1 :
            Replaced(u, a, b)[k] = IF k <= Len(v) THEN v[k] ELSE IF k = a + 1 THEN b ELSE NoBlock
      BY <1>2, <2>3, <2>6, <2>7
    <2> QED
      BY <1>2, <2>5, <2>6, <2>8 DEF b, IsGrown
  <1> QED
    BY <1>1, <1>2

\* What the vector holds for the resources before the one it was made to reach
\* the space of, and how its blocks are named when that is counted.
LEMMA GrownHolds ==
  ASSUME NEW v \in Seq(Block), NEW f \in Function, NEW n \in Nat,
         n + 1 \in 1 .. Len(f.resources), BlocksRead(v, f, n),
         NEW a \in Nat, Goes(f, n + 1, a + 2),
         NEW g, IsGrown(g, v, f, a)
  PROVE  /\ Spans(g, f, n + 1)
         /\ \A k \in 1 .. Len(g) :
              /\ Holds(g[k].mMembers, f, k + 1, n)
              /\ g[k].mName = NameRead(f, k + 1, n + 1)
  <1> USE DEF IsGrown
  <1>1. \A i \in 1 .. n + 1 : i \in 1 .. n \/ i = n + 1
    OBVIOUS
  <1>2. \A i \in 1 .. n : i \in 1 .. n + 1
    OBVIOUS
  <1>3. Len(v) \in Nat
    OBVIOUS
  <1>4. ASSUME NEW i \in 1 .. n
        PROVE  /\ f.resources[i].space \in Nat
               /\ InBlock(f.resources[i]) => f.resources[i].space <= Len(v) + 1
    <2>1. i \in 1 .. Len(f.resources)
      <3>1. Len(f.resources) \in Nat
        BY DEF Function
      <3> QED
        BY <3>1
    <2> QED
      BY <2>1, ReadableResource DEF BlocksRead, Spans
  <1>5. InBlock(f.resources[n + 1]) /\ f.resources[n + 1].space = a + 2
    BY DEF Goes
  <1>6. Spans(g, f, n + 1)
    <2>1. \A i \in 1 .. n + 1 : InBlock(f.resources[i]) => f.resources[i].space <= Len(g) + 1
      BY <1>1, <1>3, <1>4, <1>5
    <2>2. \E i \in 1 .. n + 1 : Goes(f, i, Len(g) + 1)
      <3>1. CASE Len(v) > a
        <4>1. v # << >>
          BY <3>1
        <4> QED
          BY <1>2, <3>1, <4>1 DEF BlocksRead, Spans
      <3>2. CASE ~(Len(v) > a)
        <4>1. Len(g) + 1 = a + 2 /\ n + 1 \in 1 .. n + 1
          BY <3>2
        <4> QED
          BY <4>1
      <3> QED
        BY <3>1, <3>2
    <2> QED
      BY <2>1, <2>2 DEF Spans
  <1>7. ASSUME NEW k \in 1 .. Len(g)
        PROVE  /\ Holds(g[k].mMembers, f, k + 1, n)
               /\ g[k].mName = NameRead(f, k + 1, n + 1)
    <2>1. CASE k <= Len(v)
      <3>1. k \in 1 .. Len(v) /\ g[k] = v[k] /\ k + 1 \in Nat
        BY <1>3, <2>1
      <3>2. v # << >>
        BY <3>1
      <3>3. \E h \in 1 .. n : InBlock(f.resources[h]) /\ f.resources[h].space >= k + 1
        <4>1. PICK h \in 1 .. n : Goes(f, h, Len(v) + 1)
          BY <3>2 DEF BlocksRead, Spans
        <4>2. InBlock(f.resources[h]) /\ f.resources[h].space = Len(v) + 1
          BY <4>1 DEF Goes
        <4> QED
          BY <1>3, <3>1, <4>2
      <3>4. NameRead(f, k + 1, n + 1) = NameRead(f, k + 1, n)
        BY <3>1, <3>3, NameKept
      <3> QED
        BY <3>1, <3>4 DEF BlocksRead
    <2>2. CASE k > Len(v)
      <3>1. \A i \in 1 .. n : ~Goes(f, i, k + 1)
        BY <1>3, <1>4, <2>2 DEF Goes
      <3>2. Holds(<< >>, f, k + 1, n)
        BY <3>1, HoldsNone
      <3>3. CASE k = a + 1
        <4>1. g[k] = [mName |-> BlockName(f, a), mMembers |-> << >>]
          BY <1>3, <2>2, <3>3
        <4>2. ~Overtaken(f, k + 1, n + 1)
          <5> SUFFICES ASSUME NEW h \in 1 .. n + 1, InBlock(f.resources[h]),
                              f.resources[h].space > k + 1
                       PROVE  FALSE
            BY DEF Overtaken
          <5> QED
            BY <1>1, <1>3, <1>4, <1>5, <2>2, <3>3
        <4>3. k + 1 - 2 = a
          BY <3>3
        <4> QED
          BY <3>2, <4>1, <4>2, <4>3 DEF NameRead
      <3>4. CASE k # a + 1
        <4>1. g[k] = NoBlock /\ k < a + 1
          BY <1>3, <2>2, <3>4
        <4>2. \A i \in 1 .. n + 1 : ~Goes(f, i, k + 1)
          BY <1>1, <1>5, <3>1, <4>1 DEF Goes
        <4>3. Overtaken(f, k + 1, n + 1)
          <5>1. n + 1 \in 1 .. n + 1 /\ f.resources[n + 1].space > k + 1
            BY <1>5, <4>1
          <5> QED
            BY <1>5, <4>2, <5>1 DEF Overtaken
        <4> QED
          BY <3>2, <4>1, <4>3 DEF NameRead, NoBlock
      <3> QED
        BY <3>3, <3>4
    <2> QED
      BY <1>3, <2>1, <2>2
  <1> QED
    BY <1>6, <1>7

\* A resource of a block is entered in it.
LEMMA BlocksBind ==
  ASSUME NEW v \in Seq(Block), NEW f \in Function, NEW n \in Nat,
         n + 1 \in 1 .. Len(f.resources), BlocksRead(v, f, n),
         NEW a \in Nat, Goes(f, n + 1, a + 2),
         NEW g, g = Grown(v, f, a),
         NEW m \in Seq(Member), Len(g[a + 1].mMembers) <= Len(m),
         \A p \in 1 .. Len(m) :
           m[p] = IF p <= Len(g[a + 1].mMembers) THEN g[a + 1].mMembers[p] ELSE NoMember,
         f.resources[n + 1].point < Len(m),
         MemberOf(f.resources[n + 1]) \in Member,
         NEW u, u = Replaced(m, f.resources[n + 1].point, MemberOf(f.resources[n + 1]))
  PROVE  BlocksRead(Replaced(g, a, [mName |-> g[a + 1].mName, mMembers |-> u]), f, n + 1)
  <1> DEFINE w == Replaced(g, a, [mName |-> g[a + 1].mName, mMembers |-> u])
  <1>1. IsGrown(g, v, f, a)
    BY GrownFacts
  <1>2. /\ Spans(g, f, n + 1)
        /\ \A k \in 1 .. Len(g) :
             /\ Holds(g[k].mMembers, f, k + 1, n)
             /\ g[k].mName = NameRead(f, k + 1, n + 1)
    BY <1>1, GrownHolds
  <1>3. g \in Seq(Block) /\ a + 1 \in 1 .. Len(g) /\ a < Len(g)
    BY <1>1 DEF IsGrown
  <1>4. g[a + 1].mMembers \in Seq(Member) /\ g[a + 1].mName \in Name
    <2>1. g[a + 1] \in Block
      BY <1>3
    <2> QED
      BY <2>1 DEF Block
  <1>5. /\ u \in Seq(Member) /\ Len(u) = Len(m)
        /\ \A p \in 1 .. Len(m) :
             u[p] = IF p = f.resources[n + 1].point + 1 THEN MemberOf(f.resources[n + 1]) ELSE m[p]
    <2>1. PICK at, x : at = f.resources[n + 1].point /\ x = MemberOf(f.resources[n + 1])
      OBVIOUS
    <2>2. at \in Nat /\ at < Len(m) /\ x \in Member
      BY <2>1, ReadableResource
    <2>3. /\ Replaced(m, at, x) \in Seq(Member) /\ Len(Replaced(m, at, x)) = Len(m)
          /\ \A p \in 1 .. Len(m) : Replaced(m, at, x)[p] = IF p = at + 1 THEN x ELSE m[p]
      BY <2>2 DEF Replaced
    <2> QED
      BY <2>1, <2>3
  <1>6. PICK b : b = [mName |-> g[a + 1].mName, mMembers |-> u]
    OBVIOUS
  <1>7. b \in Block /\ b.mName = g[a + 1].mName /\ b.mMembers = u
    BY <1>4, <1>5, <1>6 DEF Block
  <1>8. w = Replaced(g, a, b)
    BY <1>6
  <1> HIDE DEF w
  <1>9. /\ w \in Seq(Block) /\ Len(w) = Len(g)
        /\ \A k \in 1 .. Len(g) : w[k] = IF k = a + 1 THEN b ELSE g[k]
    BY <1>3, <1>7, <1>8 DEF Replaced
  <1>10. Holds(g[a + 1].mMembers, f, a + 2, n)
    <2>1. a + 1 + 1 = a + 2
      OBVIOUS
    <2> QED
      BY <1>2, <1>3, <2>1
  <1>11. Holds(u, f, a + 2, n + 1)
    BY <1>4, <1>5, <1>10, HoldsBound
  <1>12. ASSUME NEW k \in 1 .. Len(w)
         PROVE  /\ Holds(w[k].mMembers, f, k + 1, n + 1)
                /\ w[k].mName = NameRead(f, k + 1, n + 1)
    <2>1. CASE k = a + 1
      <3>1. k + 1 = a + 2 /\ w[k] = b
        BY <1>9, <2>1
      <3>2. w[k].mName = NameRead(f, k + 1, n + 1)
        BY <1>2, <1>3, <1>7, <2>1, <3>1
      <3> QED
        BY <1>7, <1>11, <3>1, <3>2
    <2>2. CASE k # a + 1
      <3>1. w[k] = g[k] /\ k \in 1 .. Len(g)
        BY <1>9, <2>2
      <3>2. ~Goes(f, n + 1, k + 1)
        BY <2>2 DEF Goes
      <3>3. Holds(g[k].mMembers, f, k + 1, n)
        BY <1>2, <3>1
      <3>4. Holds(g[k].mMembers, f, k + 1, n + 1)
        BY <3>2, <3>3, HoldsOther
      <3> QED
        BY <1>2, <3>1, <3>4
    <2> QED
      BY <2>1, <2>2
  <1>13. Spans(w, f, n + 1)
    <2>1. Len(g) # 0 /\ Len(w) # 0
      BY <1>3, <1>9
    <2>2. g # << >> /\ w # << >>
      BY <2>1
    <2> QED
      BY <1>2, <1>9, <2>2 DEF Spans
  <1>14. BlocksRead(w, f, n + 1)
    BY <1>12, <1>13 DEF BlocksRead
  <1> QED
    BY <1>14 DEF w

-------------------------------------------------------------------------------
(* The steps *)

LEMMA BlocksBegin ==
  ASSUME BeginFunction PROVE BlocksSoFar'
  <1>1. resourceBlocks' = << >> /\ pc' = "buffers"
    BY DEF BeginFunction, FreshLocals
  <1>2. ReadResources' = 0
    BY <1>1 DEF ReadResources
  <1>3. BlocksRead(<< >>, F', 0)
    BY DEF BlocksRead, Spans
  <1> QED
    BY <1>1, <1>2, <1>3 DEF BlocksSoFar

LEMMA BlocksSkipped ==
  ASSUME IInv, BlocksSoFar, SkipResource
  PROVE  BlocksSoFar'
  <1>1. TypeOK /\ InLibrary /\ fn <= Len(library) /\ pc = "resources" /\ j <= Len(F.resources)
    BY DEF IInv, InLibrary, Inner, SkipResource
  <1>2. j \in Nat \ {0} /\ resourceBlocks \in Seq(Block) /\ F \in Function
    BY <1>1, FunctionType DEF TypeOK
  <1>3. Len(F.resources) \in Nat
    BY <1>2 DEF Function
  <1>4. PICK n \in Nat : n = j - 1
    BY <1>2
  <1>5. n + 1 = j /\ n + 1 \in 1 .. Len(F.resources) /\ ReadResources = n
    BY <1>1, <1>2, <1>3, <1>4 DEF ReadResources
  <1>6. BlocksRead(resourceBlocks, F, n)
    BY <1>1, <1>5 DEF BlocksSoFar, Inner
  <1>7. ~InBlock(F.resources[n + 1])
    BY <1>5 DEF SkipResource, R
  <1>8. BlocksRead(resourceBlocks, F, n + 1)
    BY <1>2, <1>5, <1>6, <1>7, BlocksSkip
  <1>9. /\ F' = F /\ resourceBlocks' = resourceBlocks /\ pc' = "resources" /\ j' = j + 1
    BY <1>1 DEF SkipResource, F, locals
  <1>10. ReadResources' = n + 1
    BY <1>2, <1>3, <1>5, <1>9 DEF ReadResources
  <1> QED
    BY <1>8, <1>9, <1>10 DEF BlocksSoFar

LEMMA BlocksBound ==
  ASSUME IInv, BlocksSoFar, BindResource
  PROVE  BlocksSoFar'
  <1>1. TypeOK /\ InLibrary /\ fn <= Len(library) /\ pc = "resources" /\ j <= Len(F.resources)
    BY DEF IInv, InLibrary, Inner, BindResource
  <1>2. j \in Nat \ {0} /\ resourceBlocks \in Seq(Block) /\ F \in Function
    BY <1>1, FunctionType DEF TypeOK
  <1>3. Len(F.resources) \in Nat
    BY <1>2 DEF Function
  <1>4. PICK n \in Nat : n = j - 1
    BY <1>2
  <1>5. n + 1 = j /\ n + 1 \in 1 .. Len(F.resources) /\ ReadResources = n
    BY <1>1, <1>2, <1>3, <1>4 DEF ReadResources
  <1>6. BlocksRead(resourceBlocks, F, n)
    BY <1>1, <1>5 DEF BlocksSoFar, Inner
  <1>7. R = F.resources[n + 1]
    BY <1>5 DEF R
  <1>8. /\ R.point \in 0 .. UINT_MOD - 1 /\ MemberOf(R) \in Member
        /\ R.space \in Nat /\ R.space >= 2
    <2>1. R.space \in Nat
      BY <1>2, <1>5, <1>7, ReadableResource
    <2> QED
      BY <1>1, <1>5, <1>7, <2>1, ResourceType DEF BindResource, InBlock
  <1>9. PICK a \in Nat : a = R.space - 2
    BY <1>8
  <1>10. Goes(F, n + 1, a + 2)
    <2>1. a + 2 = R.space /\ InBlock(R)
      BY <1>8, <1>9 DEF BindResource
    <2> QED
      BY <1>7, <2>1 DEF Goes
  <1> DEFINE g == Grown(resourceBlocks, F, a)
             m == Reaching(g[a + 1].mMembers, R.point, NoMember)
             u == Replaced(m, R.point, MemberOf(R))
             w == Replaced(g, a, [mName |-> g[a + 1].mName, mMembers |-> u])
  <1>11. \/ pc' = "crashed"
         \/ R.point < Len(m) /\ resourceBlocks' = w /\ j' = j + 1 /\ pc' = pc
    BY <1>9 DEF BindResource
  <1>12. F' = F
    BY DEF BindResource, F
  <1>13. CASE pc' = "crashed"
    BY <1>13 DEF BlocksSoFar, Inner
  <1>14. CASE R.point < Len(m) /\ resourceBlocks' = w /\ j' = j + 1 /\ pc' = pc
    <2>1. IsGrown(g, resourceBlocks, F, a)
      BY <1>2, GrownFacts
    <2> HIDE DEF g
    <2>2. g[a + 1] \in Block
      <3>1. a + 1 \in 1 .. Len(g) /\ g \in Seq(Block)
        BY <1>2, <2>1 DEF IsGrown
      <3> QED
        BY <3>1
    <2>3. g[a + 1].mMembers \in Seq(Member)
      BY <2>2 DEF Block
    <2>4. /\ m \in Seq(Member)
          /\ \A p \in 1 .. Len(m) :
               m[p] = IF p <= Len(g[a + 1].mMembers) THEN g[a + 1].mMembers[p] ELSE NoMember
          /\ R.point < Len(m) => Len(g[a + 1].mMembers) <= Len(m)
      <3>1. PICK T, c, at, x : c = g[a + 1].mMembers /\ at = R.point /\ x = NoMember /\ T = Member
        OBVIOUS
      <3>2. NoMember \in Member
        BY DEF NoMember, Member, Text
      <3>3. c \in Seq(T) /\ at \in 0 .. UINT_MOD - 1 /\ x \in T
        BY <1>8, <2>3, <3>1, <3>2
      <3>4. /\ Reaching(c, at, x) \in Seq(T)
            /\ \A k \in 1 .. Len(Reaching(c, at, x)) :
                 Reaching(c, at, x)[k] = IF k <= Len(c) THEN c[k] ELSE x
            /\ at < Len(Reaching(c, at, x)) => Len(c) <= Len(Reaching(c, at, x))
        BY <3>3, ReachingFacts
      <3> QED
        BY <3>1, <3>4
    <2> HIDE DEF m
    <2>5. PICK q : q = u
      OBVIOUS
    <2>6. q = Replaced(m, F.resources[n + 1].point, MemberOf(F.resources[n + 1]))
      BY <1>7, <2>5
    <2>7. g = Grown(resourceBlocks, F, a)
      BY DEF g
    <2>8. BlocksRead(Replaced(g, a, [mName |-> g[a + 1].mName, mMembers |-> q]), F, n + 1)
      <3>1. F.resources[n + 1].point < Len(m) /\ Len(g[a + 1].mMembers) <= Len(m)
        BY <1>7, <1>14, <2>4
      <3>2. MemberOf(F.resources[n + 1]) \in Member
        BY <1>7, <1>8
      <3> QED
        BY <1>2, <1>5, <1>6, <1>10, <2>4, <2>6, <2>7, <3>1, <3>2, BlocksBind
    <2>9. resourceBlocks' = Replaced(g, a, [mName |-> g[a + 1].mName, mMembers |-> q])
      BY <1>14, <2>5
    <2>10. ReadResources' = n + 1
      BY <1>1, <1>2, <1>3, <1>5, <1>12, <1>14 DEF ReadResources
    <2> QED
      BY <1>12, <2>8, <2>9, <2>10 DEF BlocksSoFar
  <1> QED
    BY <1>11, <1>13, <1>14

LEMMA BlocksKept ==
  ASSUME IInv, BlocksSoFar, Next
  PROVE  BlocksSoFar'
  <1>1. /\ TypeOK /\ InLibrary /\ j \in Nat \ {0}
        /\ Inner => F \in Function /\ Len(F.resources) \in Nat
    <2>1. TypeOK /\ InLibrary
      BY DEF IInv
    <2>2. Inner => F \in Function
      BY <2>1, FunctionType DEF InLibrary
    <2> QED
      BY <2>1, <2>2 DEF Function, TypeOK
  <1>2. CASE BeginFunction
    BY <1>2, BlocksBegin
  <1>3. CASE SkipResource
    BY <1>3, BlocksSkipped
  <1>4. CASE BindResource
    BY <1>4, BlocksBound
  <1>5. CASE ReadBuffer \/ BindBuffer
    <2>1. /\ F' = F /\ UNCHANGED resourceBlocks /\ pc = "buffers"
          /\ pc' \in {"buffers", "crashed", "failed"}
      BY <1>5 DEF ReadBuffer, BindBuffer, F, locals
    <2>2. Inner' => ReadResources' = ReadResources
      BY <2>1 DEF Inner, ReadResources
    <2> QED
      BY <2>1, <2>2 DEF BlocksSoFar, Inner
  <1>6. CASE EndBuffers
    <2>1. /\ F' = F /\ UNCHANGED resourceBlocks /\ pc = "buffers" /\ pc' = "resources" /\ j' = 1
      BY <1>6 DEF EndBuffers, F, locals
    <2>2. Len(F.resources) \in Nat
      BY <1>1, <2>1 DEF Inner
    <2>3. ReadResources' = 0 /\ ReadResources = 0
      BY <2>1, <2>2 DEF ReadResources
    <2> QED
      BY <2>1, <2>3 DEF BlocksSoFar, Inner
  <1>7. CASE EndResources
    <2>1. /\ F' = F /\ UNCHANGED resourceBlocks /\ pc = "resources" /\ pc' = "blocks"
          /\ j > Len(F.resources)
      BY <1>7 DEF EndResources, F, locals
    <2>2. ~(j <= Len(F.resources))
      BY <1>1, <2>1 DEF Inner
    <2>3. ReadResources' = ReadResources
      BY <2>1, <2>2 DEF ReadResources
    <2> QED
      BY <2>1, <2>3 DEF BlocksSoFar, Inner
  <1>8. CASE DeclareBlock
    <2>1. F' = F /\ UNCHANGED resourceBlocks /\ pc = "blocks" /\ pc' = "blocks"
      BY <1>8 DEF DeclareBlock, F, locals
    <2>2. ReadResources' = ReadResources
      BY <2>1 DEF ReadResources
    <2> QED
      BY <2>1, <2>2 DEF BlocksSoFar, Inner
  <1>9. CASE Declare \/ DeclareShort \/ DeclareUnknown \/ Complete \/ ReflectionFails
    BY <1>9 DEF BlocksSoFar, Inner, Declare, DeclareShort, DeclareUnknown, Complete,
                ReflectionFails
  <1>10. CASE Stopped
    BY <1>10 DEF BlocksSoFar, Inner, Stopped, vars
  <1> QED
    BY <1>2, <1>3, <1>4, <1>5, <1>6, <1>7, <1>8, <1>9, <1>10 DEF Next, Progress

\* A step declares at most one thing: a struct, a block or the function.
LEMMA DeclaresOne ==
  ASSUME IInv, Next
  PROVE  /\ UNCHANGED library
         /\ \/ of' = of
            \/ /\ ReadBuffer \/ BindBuffer
               /\ pc = "buffers" /\ UNCHANGED fn
               /\ NewStruct(Buffer) /\ generatedStructs' = generatedStructs \cup {Buffer.type}
               /\ StructDeclaration(Buffer.type) \in Declaration
               /\ of' = Append(of, StructDeclaration(Buffer.type))
            \/ /\ DeclareBlock /\ j \in 1 .. Len(resourceBlocks) /\ fn \in 1 .. Len(library)
               /\ pc = "blocks" /\ pc' = "blocks" /\ j' = j + 1 /\ UNCHANGED <<fn, generatedStructs>>
               /\ resourceBlocks[j] \in Block
               /\ BlockDeclaration \in Declaration /\ of' = Append(of, BlockDeclaration)
            \/ /\ Declare /\ fn \in 1 .. Len(library)
               /\ fn' = fn + 1 /\ pc' = "functions" /\ UNCHANGED generatedStructs
               /\ FunctionDeclaration \in Declaration /\ of' = Append(of, FunctionDeclaration)
  <1>1. TypeOK /\ InLibrary /\ fn \in Nat \ {0} /\ j \in Nat \ {0}
    BY DEF IInv, TypeOK
  <1>2. CASE ReadBuffer \/ BindBuffer
    <2>1. /\ UNCHANGED <<library, fn>> /\ pc = "buffers" /\ j \in 1 .. Len(F.buffers)
          /\ GenerateStruct(Buffer) /\ fn <= Len(library)
      BY <1>1, <1>2 DEF ReadBuffer, BindBuffer, InLibrary, Inner
    <2>2. Buffer.type \in Id
      BY <1>1, <2>1, BufferType DEF Buffer
    <2>3. StructDeclaration(Buffer.type) \in Declaration
      BY <1>1, <2>2 DEF StructDeclaration, Declaration, Name, Plain, Text
    <2> QED
      BY <1>2, <2>1, <2>3 DEF GenerateStruct
  <1>3. CASE DeclareBlock
    <2>1. /\ UNCHANGED <<library, fn, generatedStructs>> /\ j \in 1 .. Len(resourceBlocks)
          /\ fn \in 1 .. Len(library) /\ pc = "blocks" /\ pc' = "blocks" /\ j' = j + 1
          /\ of' \in {of, Append(of, BlockDeclaration)}
      BY <1>1, <1>3 DEF DeclareBlock, InLibrary, Inner
    <2>2. resourceBlocks[j] \in Block
      BY <1>1, <2>1 DEF TypeOK
    <2>3. /\ resourceBlocks[j].mName \in Name /\ resourceBlocks[j].mMembers \in Seq(Member)
          /\ j + 1 \in Nat
      BY <1>1, <2>2 DEF Block
    <2>4. BlockDeclaration \in Declaration
      BY <1>1, <2>3 DEF BlockDeclaration, Declaration
    <2> QED
      BY <1>3, <2>1, <2>2, <2>4
  <1>4. CASE Declare
    <2> DEFINE u == [k \in 1 .. Len(constantBufferBindings) |->
                       [name |-> None, type |-> constantBufferBindings[k]]]
    <2>1. /\ UNCHANGED <<library, generatedStructs>> /\ of' = Append(of, FunctionDeclaration)
          /\ pc = "blocks" /\ fn <= Len(library) /\ fn \in 1 .. Len(library)
          /\ fn' = fn + 1 /\ pc' = "functions"
      BY <1>1, <1>4 DEF Declare, BlocksDeclared, InLibrary, Inner
    <2>2. constantBufferBindings \in Seq(Text)
      BY <1>1 DEF TypeOK
    <2>3. u \in Seq(Member)
      BY <2>2 DEF Member, Text
    <2>5. Plain(F.name) \in Name
      BY <1>1, <2>1, FunctionType DEF Plain, Name, Text, Function
    <2> HIDE DEF u
    <2>6. FunctionDeclaration =
            [kind |-> "function", name |-> Plain(F.name), uses |-> u, fn |-> fn, space |-> 0]
      BY DEF FunctionDeclaration, u
    <2>7. FunctionDeclaration \in Declaration
      BY <1>1, <2>3, <2>5, <2>6 DEF Declaration
    <2> QED
      BY <1>4, <2>1, <2>7
  <1>5. CASE ~(ReadBuffer \/ BindBuffer \/ DeclareBlock \/ Declare)
    BY <1>5 DEF Next, Progress, BeginFunction, EndBuffers, SkipResource, BindResource,
                EndResources, DeclareShort, DeclareUnknown, Complete, ReflectionFails,
                Stopped, output, vars
  <1> QED
    BY <1>2, <1>3, <1>4, <1>5

LEMMA AppendOne ==
  ASSUME of \in Seq(Declaration), NEW d \in Declaration, of' = Append(of, d)
  PROVE  /\ Len(of) \in Nat /\ Len(of') = Len(of) + 1
         /\ \A k \in 1 .. Len(of) : of'[k] = of[k]
         /\ of'[Len(of) + 1] = d
         /\ \A k \in 1 .. Len(of') : k \in 1 .. Len(of) \/ k = Len(of) + 1
  <1>1. PICK n \in Nat : n = Len(of)
    OBVIOUS
  <1>2. /\ Len(of') = n + 1
        /\ \A k \in 1 .. n : of'[k] = of[k]
        /\ of'[n + 1] = d
    BY <1>1, AppendFacts
  <1> QED
    BY <1>1, <1>2

LEMMA DeclaredBlocksKept ==
  ASSUME IInv, BlockInv, Next
  PROVE  DeclaredBlocks'
  <1>1. UNCHANGED library /\ of \in Seq(Declaration)
    BY DeclaresOne DEF IInv, TypeOK
  <1>2. \A d : OwnBlock(d)' <=> OwnBlock(d)
    BY <1>1 DEF OwnBlock
  <1>3. \A k \in 1 .. Len(of) : OwnBlock(of[k])
    BY DEF BlockInv, DeclaredBlocks
  <1>4. ASSUME NEW d \in Declaration, OwnBlock(d), of' = Append(of, d)
        PROVE  DeclaredBlocks'
    <2>1. \A k \in 1 .. Len(of') : OwnBlock(of'[k])
      <3> HIDE DEF OwnBlock
      <3> QED
        BY <1>1, <1>3, <1>4, AppendOne
    <2> QED
      BY <1>1, <2>1 DEF DeclaredBlocks, OwnBlock
  <1>5. CASE of' = of
    BY <1>1, <1>3, <1>5 DEF DeclaredBlocks, OwnBlock
  <1>6. CASE /\ StructDeclaration(Buffer.type) \in Declaration
             /\ of' = Append(of, StructDeclaration(Buffer.type))
    <2>1. OwnBlock(StructDeclaration(Buffer.type))
      BY DEF OwnBlock, StructDeclaration
    <2> QED
      BY <1>4, <1>6, <2>1
  <1>7. CASE FunctionDeclaration \in Declaration /\ of' = Append(of, FunctionDeclaration)
    <2>1. OwnBlock(FunctionDeclaration)
      BY DEF OwnBlock, FunctionDeclaration
    <2> QED
      BY <1>4, <1>7, <2>1
  <1>8. CASE /\ j \in 1 .. Len(resourceBlocks) /\ fn \in 1 .. Len(library) /\ pc = "blocks"
             /\ BlockDeclaration \in Declaration /\ of' = Append(of, BlockDeclaration)
    <2>1. BlocksRead(resourceBlocks, F, Len(F.resources))
      BY <1>8 DEF BlockInv, BlocksSoFar, Inner, ReadResources
    <2>2. /\ Holds(resourceBlocks[j].mMembers, F, j + 1, Len(F.resources))
          /\ resourceBlocks[j].mName = NameRead(F, j + 1, Len(F.resources))
      BY <1>8, <2>1 DEF BlocksRead
    <2>3. j + 1 >= 2
      BY <1>8
    <2>4. OwnBlock(BlockDeclaration)
      BY <1>8, <2>2, <2>3 DEF OwnBlock, BlockDeclaration, F
    <2> QED
      BY <1>4, <1>8, <2>4
  <1> QED
    BY <1>5, <1>6, <1>7, <1>8, DeclaresOne

LEMMA BlockInvariance == Spec => []BlockInv
  <1>1. Init => BlockInv
    BY DEF Init, BlockInv, BlocksSoFar, DeclaredBlocks, Inner
  <1>2. IInv /\ BlockInv /\ [Next]_vars => BlockInv'
    <2>1. BlockInv /\ UNCHANGED vars => BlockInv'
      BY DEF BlockInv, BlocksSoFar, DeclaredBlocks, OwnBlock, Inner, ReadResources, F,
             vars, locals, output
    <2>2. IInv /\ BlockInv /\ Next => BlockInv'
      BY BlocksKept, DeclaredBlocksKept DEF BlockInv
    <2> QED
      BY <2>1, <2>2
  <1> QED
    BY <1>1, <1>2, Invariance, PTL DEF Spec

\* Every block of the header holds the registers of its space, whatever the
\* order and the number of the resources, and their spaces.
THEOREM BlocksAreComplete == Spec => []BlocksHoldRegisters
  <1>1. IInv /\ BlockInv => BlocksHoldRegisters
    <2> SUFFICES ASSUME IInv, BlockInv, NEW k \in 1 .. Len(of), of[k].kind = "block"
                 PROVE  LET d   == of[k]
                            res == library[d.fn].resources
                            own == InSpace(d.fn, d.space)
                        IN  /\ \A i \in own : res[i].point < Len(d.uses)
                            /\ \A p \in 1 .. Len(d.uses) :
                                 LET here == {i \in own : res[i].point = p - 1}
                                 IN  d.uses[p] = IF here = {} THEN NoMember
                                                 ELSE MemberOf(res[CHOOSE i \in here :
                                                                     \A l \in here : l <= i])
      BY DEF BlocksHoldRegisters, Declared
    <2> DEFINE d == of[k]
               f == library[d.fn]
               N == Len(f.resources)
               own == InSpace(d.fn, d.space)
    <2>1. d.fn \in 1 .. Len(library) /\ Holds(d.uses, f, d.space, N)
      BY DEF BlockInv, DeclaredBlocks, OwnBlock
    <2>2. own = {i \in 1 .. N : Goes(f, i, d.space)}
      BY DEF InSpace, Goes
    <2>3. f \in Function
      BY <2>1 DEF IInv, TypeOK
    <2>4. N \in Nat
      BY <2>3 DEF Function
    <2> HIDE DEF d, f, N, own
    <2>5. \A i \in own : f.resources[i].point < Len(d.uses)
      BY <2>1, <2>2 DEF Holds
    <2>6. ASSUME NEW p \in 1 .. Len(d.uses)
          PROVE  LET here == {i \in own : f.resources[i].point = p - 1}
                 IN  d.uses[p] = IF here = {} THEN NoMember
                                 ELSE MemberOf(f.resources[CHOOSE i \in here : \A l \in here : l <= i])
      <3> DEFINE here == {i \in own : f.resources[i].point = p - 1}
                 last == CHOOSE i \in here : \A l \in here : l <= i
      <3>1. here = {i \in 1 .. N : Takes(f, i, d.space, p - 1)}
        BY <2>2 DEF Takes
      <3> HIDE DEF here
      <3>2. CASE d.uses[p] = NoMember /\ \A i \in 1 .. N : ~Takes(f, i, d.space, p - 1)
        BY <3>1, <3>2 DEF here
      <3>3. ASSUME NEW i \in 1 .. N, Takes(f, i, d.space, p - 1), d.uses[p] = MemberOf(f.resources[i]),
                   \A l \in 1 .. N : Takes(f, l, d.space, p - 1) => l <= i
            PROVE  here # {} /\ d.uses[p] = MemberOf(f.resources[last])
        <4>1. i \in here /\ \A l \in here : l <= i
          BY <3>1, <3>3
        <4>2. last \in here /\ \A l \in here : l <= last
          BY <4>1
        <4>3. last = i
          <5>1. last \in 1 .. N
            BY <3>1, <4>2
          <5> HIDE DEF last
          <5>2. last <= i /\ i <= last
            BY <4>1, <4>2
          <5> QED
            BY <2>4, <5>1, <5>2
        <4> QED
          BY <3>3, <4>1, <4>3
      <3>4. d.uses[p] = IF here = {} THEN NoMember ELSE MemberOf(f.resources[last])
        BY <2>1, <3>2, <3>3, <3>1 DEF Holds
      <3> QED
        BY <3>4 DEF here
    <2> QED
      BY <2>5, <2>6 DEF d, f, own
  <1> QED
    BY <1>1, Invariance, BlockInvariance, PTL

\* A block lacks its name exactly when a block of a higher space was made before it.
THEOREM BlocksGetTheirNames == Spec => []BlocksNamed
  <1>1. IInv /\ BlockInv => BlocksNamed
    <2> SUFFICES ASSUME IInv, BlockInv, NEW k \in 1 .. Len(of), of[k].kind = "block"
                 PROVE  LET d   == of[k]
                            res == library[d.fn].resources
                            overtaken ==
                              \E h \in 1 .. Len(res) :
                                /\ InBlock(res[h]) /\ res[h].space > d.space
                                /\ \A i \in InSpace(d.fn, d.space) : h < i
                        IN  d.name = IF overtaken THEN Unnamed
                                     ELSE BlockName(library[d.fn], d.space - 2)
      BY DEF BlocksNamed, Declared
    <2>1. of[k].name = NameRead(library[of[k].fn], of[k].space, Len(library[of[k].fn].resources))
      BY DEF BlockInv, DeclaredBlocks, OwnBlock
    <2> QED
      BY <2>1 DEF NameRead, Overtaken, InSpace, Goes
  <1> QED
    BY <1>1, Invariance, BlockInvariance, PTL

-------------------------------------------------------------------------------
(* The names of the header *)

\* Each declaration has its name from the type, the function or the block it is
\* for, and no other is for the same.
NamedFor(d) ==
  /\ d.kind = "struct" => \E t \in generatedStructs : d.name = Plain(t)
  /\ d.kind = "function" =>
       d.fn \in 1 .. fn - 1 /\ d.fn <= Len(library) /\ d.name = Plain(library[d.fn].name)
  /\ d.kind = "block" =>
       /\ d.fn \in 1 .. Len(library) /\ d.space >= 2
       /\ d.name \in {Unnamed, BlockName(library[d.fn], d.space - 2)}
       /\ \/ d.fn < fn
          \/ d.fn = fn /\ pc \in {"blocks", "failed", "crashed"} /\ d.space <= j
For(c, d) ==
  \/ c.kind = "struct" /\ c.name = d.name
  \/ c.kind = "function" /\ c.fn = d.fn
  \/ c.kind = "block" /\ c.fn = d.fn /\ c.space = d.space
Apart == \A k, l \in 1 .. Len(of) : k < l /\ of[k].kind = of[l].kind => ~For(of[k], of[l])

NameInv == (\A k \in 1 .. Len(of) : NamedFor(of[k])) /\ Apart

LEMMA LaterStep ==
  ASSUME IInv, Next
  PROVE  /\ UNCHANGED library /\ fn \in Nat /\ fn' \in Nat /\ fn <= fn'
         /\ generatedStructs \subseteq generatedStructs'
         /\ pc \in {"blocks", "failed", "crashed"} /\ fn' = fn =>
              pc' \in {"blocks", "failed", "crashed"} /\ j <= j' /\ j \in Nat /\ j' \in Nat
  <1>1. fn \in Nat /\ j \in Nat
    BY DEF IInv, TypeOK
  <1>2. CASE BeginFunction \/ EndBuffers \/ SkipResource \/ EndResources \/ Complete \/ ReflectionFails
    BY <1>1, <1>2 DEF BeginFunction, EndBuffers, SkipResource, EndResources, Complete,
                      ReflectionFails, output
  <1>3. CASE ReadBuffer \/ BindBuffer
    BY <1>1, <1>3 DEF ReadBuffer, BindBuffer, GenerateStruct
  <1>4. CASE BindResource
    BY <1>1, <1>4 DEF BindResource, output
  <1>5. CASE DeclareBlock
    BY <1>1, <1>5 DEF DeclareBlock
  <1>6. CASE Declare
    BY <1>1, <1>6 DEF Declare
  <1>7. CASE DeclareShort \/ DeclareUnknown
    BY <1>1, <1>7 DEF DeclareShort, DeclareUnknown, output
  <1>8. CASE Stopped
    BY <1>1, <1>8 DEF Stopped, vars, output
  <1> QED
    BY <1>2, <1>3, <1>4, <1>5, <1>6, <1>7, <1>8 DEF Next, Progress

\* A declaration keeps what it is named for.
LEMMA NamedForKept ==
  ASSUME IInv, Next, NEW d \in Declaration, NamedFor(d)
  PROVE  NamedFor(d)'
  <1>1. d.fn \in Nat /\ d.space \in Nat
    BY DEF Declaration
  <1>2. CASE d.kind = "struct"
    BY <1>2, LaterStep DEF NamedFor, Plain
  <1>3. CASE d.kind = "function"
    <2>1. d.fn \in 1 .. fn' - 1
      BY <1>1, <1>3, LaterStep DEF NamedFor
    <2> QED
      BY <1>3, <2>1, LaterStep DEF NamedFor, Plain
  <1>4. CASE d.kind = "block"
    <2>1. \/ d.fn < fn'
          \/ d.fn = fn' /\ pc' \in {"blocks", "failed", "crashed"} /\ d.space <= j'
      BY <1>1, <1>4, LaterStep DEF NamedFor
    <2> QED
      BY <1>4, <2>1, LaterStep DEF NamedFor, BlockName, Unnamed, Plain
  <1> QED
    BY <1>2, <1>3, <1>4 DEF NamedFor

LEMMA NamesKept ==
  ASSUME IInv, BlockInv, NameInv, Next
  PROVE  NameInv'
  <1>1. of \in Seq(Declaration) /\ UNCHANGED library /\ fn \in Nat \ {0}
    BY DeclaresOne DEF IInv, TypeOK
  <1>2. \A k \in 1 .. Len(of) : of[k] \in Declaration /\ NamedFor(of[k])
    BY <1>1 DEF NameInv
  <1>3. \A k \in 1 .. Len(of) : of[k].fn \in Nat /\ of[k].space \in Nat
    BY <1>2 DEF Declaration
  <1>4. ASSUME NEW k \in 1 .. Len(of), NEW d \in Declaration, d = of[k] PROVE NamedFor(d)'
    <2>1. NamedFor(d)
      BY <1>2, <1>4
    <2> QED
      BY <2>1, NamedForKept
  <1>5. \A k \in 1 .. Len(of) : \A d \in Declaration : d = of[k] => NamedFor(d)'
    BY <1>4
  <1>6. CASE of' = of
    <2>1. \A k \in 1 .. Len(of') : NamedFor(of[k])'
      <3> SUFFICES ASSUME NEW k \in 1 .. Len(of') PROVE NamedFor(of[k])'
        OBVIOUS
      <3>1. PICK d \in Declaration : d = of[k] /\ k \in 1 .. Len(of)
        BY <1>2, <1>6
      <3>2. NamedFor(d)' /\ d = of'[k]
        BY <1>5, <1>6, <3>1
      <3> QED
        BY <3>2 DEF NamedFor
    <2> QED
      BY <1>6, <2>1 DEF NameInv, Apart, For
  <1>7. ASSUME NEW d \in Declaration, of' = Append(of, d), NamedFor(d)',
               \A k \in 1 .. Len(of) : of[k].kind = d.kind => ~For(of[k], d)
        PROVE  NameInv'
    <2>1. /\ Len(of) \in Nat /\ Len(of') = Len(of) + 1
          /\ \A k \in 1 .. Len(of) : of'[k] = of[k]
          /\ of'[Len(of) + 1] = d
          /\ \A k \in 1 .. Len(of') : k \in 1 .. Len(of) \/ k = Len(of) + 1
      BY <1>1, <1>7, AppendOne
    <2>2. \A k \in 1 .. Len(of') : NamedFor(of[k])'
      <3> SUFFICES ASSUME NEW k \in 1 .. Len(of') PROVE NamedFor(of[k])'
        OBVIOUS
      <3>1. CASE k \in 1 .. Len(of)
        <4>1. PICK c \in Declaration : c = of[k]
          BY <1>2, <3>1
        <4>2. NamedFor(c)' /\ c = of'[k]
          BY <1>5, <2>1, <3>1, <4>1
        <4> QED
          BY <4>2 DEF NamedFor
      <3>2. CASE k = Len(of) + 1
        BY <1>7, <2>1, <3>2 DEF NamedFor
      <3> QED
        BY <2>1, <3>1, <3>2
    <2>3. \A k, l \in 1 .. Len(of') : k < l /\ of'[k].kind = of'[l].kind => ~For(of'[k], of'[l])
      <3> SUFFICES ASSUME NEW k \in 1 .. Len(of'), NEW l \in 1 .. Len(of'),
                          k < l, of'[k].kind = of'[l].kind
                   PROVE  ~For(of'[k], of'[l])
        OBVIOUS
      <3>1. k \in 1 .. Len(of) /\ of'[k] = of[k]
        BY <2>1
      <3>2. CASE l \in 1 .. Len(of)
        <4>1. of'[l] = of[l]
          BY <2>1, <3>2
        <4> QED
          BY <3>1, <3>2, <4>1 DEF NameInv, Apart
      <3>3. CASE l = Len(of) + 1
        BY <1>7, <2>1, <3>1, <3>3
      <3> QED
        BY <2>1, <3>2, <3>3
    <2> QED
      BY <2>2, <2>3 DEF NameInv, Apart, For
  <1>8. CASE /\ NewStruct(Buffer) /\ generatedStructs' = generatedStructs \cup {Buffer.type}
             /\ StructDeclaration(Buffer.type) \in Declaration
             /\ of' = Append(of, StructDeclaration(Buffer.type))
    <2>0. PICK b : b = StructDeclaration(Buffer.type)
      OBVIOUS
    <2>1. /\ b \in Declaration /\ of' = Append(of, b)
          /\ b.kind = "struct" /\ b.name = Plain(Buffer.type)
      BY <1>8, <2>0 DEF StructDeclaration
    <2>2. \A k \in 1 .. Len(of) : of[k].kind = "struct" => of[k].name # Plain(Buffer.type)
      <3> SUFFICES ASSUME NEW k \in 1 .. Len(of), of[k].kind = "struct",
                          of[k].name = Plain(Buffer.type)
                   PROVE  FALSE
        OBVIOUS
      <3>1. PICK t \in generatedStructs : of[k].name = Plain(t)
        BY <1>2 DEF NamedFor
      <3>2. t = Buffer.type
        BY <3>1 DEF Plain
      <3> QED
        BY <1>8, <3>1, <3>2 DEF NewStruct
    <2>3. \A k \in 1 .. Len(of) : of[k].kind = b.kind => ~For(of[k], b)
      BY <2>1, <2>2 DEF For
    <2>4. NamedFor(b)'
      BY <1>8, <2>1 DEF NamedFor, Plain
    <2> QED
      BY <1>7, <2>1, <2>3, <2>4
  <1>9. CASE /\ j \in 1 .. Len(resourceBlocks) /\ fn \in 1 .. Len(library) /\ pc = "blocks"
             /\ pc' = "blocks" /\ j' = j + 1 /\ fn' = fn
             /\ BlockDeclaration \in Declaration /\ of' = Append(of, BlockDeclaration)
    <2>1. BlocksRead(resourceBlocks, F, Len(F.resources))
      BY <1>9 DEF BlockInv, BlocksSoFar, Inner, ReadResources
    <2>2. resourceBlocks[j].mName \in {Unnamed, BlockName(F, j + 1 - 2)}
      BY <1>9, <2>1 DEF BlocksRead, NameRead
    <2>3. PICK b : b = BlockDeclaration
      OBVIOUS
    <2>4. /\ b \in Declaration /\ of' = Append(of, b)
          /\ b.kind = "block" /\ b.fn = fn /\ b.space = j + 1
          /\ b.name \in {Unnamed, BlockName(library[b.fn], b.space - 2)}
      BY <1>9, <2>2, <2>3 DEF BlockDeclaration, F
    <2>5. NamedFor(b)'
      <3>1. j + 1 >= 2 /\ b.space <= j'
        BY <1>9, <2>4
      <3> QED
        BY <1>1, <1>9, <2>4, <3>1 DEF NamedFor, BlockName, Unnamed, Plain
    <2>6. \A k \in 1 .. Len(of) : of[k].kind = b.kind => ~For(of[k], b)
      <3> SUFFICES ASSUME NEW k \in 1 .. Len(of), of[k].kind = "block", For(of[k], b)
                   PROVE  FALSE
        BY <2>4
      <3>1. of[k].fn = fn /\ of[k].space = j + 1
        BY <2>4 DEF For
      <3>2. of[k].space <= j
        BY <1>1, <1>2, <1>3, <3>1 DEF NamedFor
      <3> QED
        BY <1>9, <3>1, <3>2
    <2> QED
      BY <1>7, <2>4, <2>5, <2>6
  <1>10. CASE /\ fn \in 1 .. Len(library) /\ fn' = fn + 1
              /\ FunctionDeclaration \in Declaration /\ of' = Append(of, FunctionDeclaration)
    <2>1. PICK b : b = FunctionDeclaration
      OBVIOUS
    <2>2. /\ b \in Declaration /\ of' = Append(of, b)
          /\ b.kind = "function" /\ b.fn = fn /\ b.name = Plain(library[fn].name)
      BY <1>10, <2>1 DEF FunctionDeclaration, F
    <2>3. NamedFor(b)'
      <3>1. b.fn \in 1 .. fn' - 1 /\ b.fn <= Len(library)
        BY <1>10, <2>2
      <3> QED
        BY <1>1, <2>2, <3>1 DEF NamedFor, Plain
    <2>4. \A k \in 1 .. Len(of) : of[k].kind = b.kind => ~For(of[k], b)
      <3> SUFFICES ASSUME NEW k \in 1 .. Len(of), of[k].kind = "function", For(of[k], b)
                   PROVE  FALSE
        BY <2>2
      <3>1. of[k].fn = fn /\ of[k].fn \in 1 .. fn - 1
        BY <1>2, <2>2 DEF For, NamedFor
      <3> QED
        BY <1>1, <3>1
    <2> QED
      BY <1>7, <2>2, <2>3, <2>4
  <1> QED
    BY <1>6, <1>8, <1>9, <1>10, DeclaresOne

LEMMA NameInvariance == Spec => []NameInv
  <1>1. Init => NameInv
    BY DEF Init, NameInv, Apart
  <1>2. IInv /\ BlockInv /\ NameInv /\ [Next]_vars => NameInv'
    <2>1. NameInv /\ UNCHANGED vars => NameInv'
      BY DEF NameInv, NamedFor, Apart, For, vars, output, Plain, Unnamed, BlockName
    <2> QED
      BY <2>1, NamesKept
  <1> QED
    BY <1>1, <1>2, Invariance, BlockInvariance, PTL DEF Spec

\* Two declarations of one kind have one name only if they are for two functions
\* of one name, or are blocks that lack theirs.
THEOREM NamesAreUnique == Spec => []NamesUnique
  <1>1. IInv /\ NameInv => NamesUnique
    <2> SUFFICES ASSUME IInv, NameInv, NEW k \in 1 .. Len(of), NEW l \in 1 .. Len(of),
                        k # l, of[k].kind = of[l].kind, of[k].name = of[l].name,
                        of[k].name # Unnamed
                 PROVE  of[k].fn # of[l].fn /\ library[of[k].fn].name = library[of[l].fn].name
      BY DEF NamesUnique
    <2>1. NamedFor(of[k]) /\ NamedFor(of[l]) /\ of[k] \in Declaration /\ of[l] \in Declaration
      BY DEF NameInv, IInv, TypeOK
    <2>2. ~For(of[k], of[l]) \/ ~For(of[l], of[k])
      <3>1. k < l \/ l < k
        OBVIOUS
      <3> QED
        BY <3>1 DEF NameInv, Apart
    <2>3. of[k].kind \in {"struct", "block", "function"} /\ of[k].space \in Nat /\ of[l].space \in Nat
      BY <2>1 DEF Declaration
    <2>4. of[k].kind # "struct"
      BY <2>2 DEF For
    <2>5. CASE of[k].kind = "function"
      <3>1. Plain(library[of[k].fn].name) = Plain(library[of[l].fn].name)
        BY <2>1, <2>5 DEF NamedFor
      <3> QED
        BY <2>2, <2>5, <3>1 DEF For, Plain
    <2>6. CASE of[k].kind = "block"
      <3>1. BlockName(library[of[k].fn], of[k].space - 2) = BlockName(library[of[l].fn], of[l].space - 2)
        BY <2>1, <2>6 DEF NamedFor
      <3>2. /\ library[of[k].fn].name = library[of[l].fn].name
            /\ of[k].space - 2 + 1 = of[l].space - 2 + 1
        BY <3>1 DEF BlockName
      <3>3. of[k].space = of[l].space
        BY <2>3, <3>2
      <3> QED
        BY <2>2, <2>6, <3>2, <3>3 DEF For
    <2> QED
      BY <2>3, <2>4, <2>5, <2>6
  <1> QED
    BY <1>1, Invariance, NameInvariance, PTL

-------------------------------------------------------------------------------
(* The entry points *)

EntryInv ==
  /\ pc \notin {"failed", "crashed"} =>
       /\ AreNamesWith(profileEntrypoints.vs, "VS", fn - 1)
       /\ AreNamesWith(profileEntrypoints.ps, "PS", fn - 1)
       /\ {of[k].fn : k \in Declared("function")} = 1 .. fn - 1
       /\ fn - 1 <= Len(library)
  /\ pc = "done" => fn - 1 = Len(library)
\* The next function's name is entered with its suffix, and with no other.
LEMMA EntryAdded ==
  ASSUME NEW n \in Nat, n + 1 \in 1 .. Len(library), library \in Seq(Function),
         NEW e \in Seq(Id), NEW x, AreNamesWith(e, x, n)
  PROVE  /\ library[n + 1].suffix = x => AreNamesWith(Append(e, library[n + 1].name), x, n + 1)
         /\ library[n + 1].suffix # x => AreNamesWith(e, x, n + 1)
  <1> DEFINE has(m) == {k \in 1 .. m : library[k].suffix = x}
             upTo(m, k) == {l \in has(m) : l <= k}
  <1>1. /\ \A k \in 1 .. n + 1 : k \in 1 .. n \/ k = n + 1
        /\ \A k \in 1 .. n : k \in 1 .. n + 1
        /\ n + 1 \notin 1 .. n /\ n + 1 \in 1 .. n + 1
    OBVIOUS
  <1>2. Len(e) = Cardinality(has(n)) /\ \A k \in has(n) : e[Cardinality(upTo(n, k))] = library[k].name
    BY DEF AreNamesWith
  <1>3. CASE library[n + 1].suffix # x
    <2>1. has(n + 1) = has(n)
      BY <1>1, <1>3
    <2> QED
      BY <1>2, <1>3, <2>1 DEF AreNamesWith
  <1>4. CASE library[n + 1].suffix = x
    <2>1. has(n + 1) = has(n) \cup {n + 1} /\ n + 1 \notin has(n)
      BY <1>1, <1>4
    <2>2. IsFiniteSet(has(n))
      <3>1. 1 \in Int /\ n \in Int
        OBVIOUS
      <3>2. IsFiniteSet(1 .. n)
        BY <3>1, FS_Interval
      <3>3. has(n) \in SUBSET (1 .. n)
        OBVIOUS
      <3> QED
        BY <3>2, <3>3, FS_Subset
    <2>3. Cardinality(has(n)) \in Nat /\ Cardinality(has(n + 1)) = Cardinality(has(n)) + 1
      BY <2>1, <2>2, FS_CardinalityType, FS_AddElement
    <2>4. \A k \in has(n) : upTo(n + 1, k) = upTo(n, k)
      <3> SUFFICES ASSUME NEW k \in has(n) PROVE upTo(n + 1, k) = upTo(n, k)
        OBVIOUS
      <3>1. ~(n + 1 <= k)
        OBVIOUS
      <3> QED
        BY <2>1, <3>1
    <2>5. upTo(n + 1, n + 1) = has(n + 1)
      BY <1>1
    <2>6. \A k \in has(n) : Cardinality(upTo(n, k)) \in 1 .. Len(e)
      <3> SUFFICES ASSUME NEW k \in has(n) PROVE Cardinality(upTo(n, k)) \in 1 .. Len(e)
        OBVIOUS
      <3>1. upTo(n, k) \in SUBSET has(n) /\ k \in upTo(n, k)
        OBVIOUS
      <3> HIDE DEF has, upTo
      <3>2. /\ IsFiniteSet(upTo(n, k)) /\ Cardinality(upTo(n, k)) <= Cardinality(has(n))
        BY <2>2, <3>1, FS_Subset
      <3>3. Cardinality(upTo(n, k)) \in Nat /\ Cardinality(upTo(n, k)) # 0
        BY <3>1, <3>2, FS_CardinalityType, FS_EmptySet
      <3> QED
        BY <1>2, <2>3, <3>2, <3>3
    <2>7. library[n + 1].name \in Id
      <3>1. library[n + 1] \in Function
        OBVIOUS
      <3> QED
        BY <3>1 DEF Function
    <2> DEFINE a == Append(e, library[n + 1].name)
    <2>8. /\ Len(a) = Len(e) + 1 /\ \A k \in 1 .. Len(e) : a[k] = e[k]
          /\ a[Len(e) + 1] = library[n + 1].name
      BY <2>7, AppendFacts
    <2> HIDE DEF a, has, upTo
    <2>9. Len(a) = Cardinality(has(n + 1))
      BY <1>2, <2>3, <2>8
    <2>10. \A k \in has(n + 1) : a[Cardinality(upTo(n + 1, k))] = library[k].name
      <3> SUFFICES ASSUME NEW k \in has(n + 1)
                   PROVE  a[Cardinality(upTo(n + 1, k))] = library[k].name
        OBVIOUS
      <3>1. CASE k \in has(n)
        BY <1>2, <2>4, <2>6, <2>8, <3>1
      <3>2. CASE k = n + 1
        BY <1>2, <2>3, <2>5, <2>8, <3>2
      <3> QED
        BY <2>1, <3>1, <3>2
    <2>11. AreNamesWith(a, x, n + 1)
      BY <2>9, <2>10 DEF AreNamesWith, has, upTo
    <2> QED
      BY <1>4, <2>11 DEF a
  <1> QED
    BY <1>3, <1>4

LEMMA EntriesKept ==
  ASSUME IInv, EntryInv, Next
  PROVE  EntryInv'
  <1>1. /\ of \in Seq(Declaration) /\ UNCHANGED library /\ fn \in Nat \ {0}
        /\ library \in Seq(Function) /\ profileEntrypoints \in [vs : Seq(Id), ps : Seq(Id)]
    BY DeclaresOne DEF IInv, TypeOK
  <1>1a. \A e, x, m : AreNamesWith(e, x, m) => AreNamesWith(e, x, m)'
    BY <1>1 DEF AreNamesWith
  <1> DEFINE functions == {of[k].fn : k \in Declared("function")}
  <1>2. CASE Declare
    <2>1. PICK n \in Nat : n = fn - 1
      BY <1>1
    <2>2. /\ n + 1 = fn /\ fn' = n + 2 /\ fn' - 1 = n + 1
          /\ pc = "blocks" /\ pc' = "functions" /\ n + 1 \in 1 .. Len(library)
          /\ profileEntrypoints' = Entered(library[n + 1])
          /\ of' = Append(of, FunctionDeclaration) /\ FunctionDeclaration \in Declaration
      <3>1. /\ pc = "blocks" /\ pc' = "functions" /\ fn' = fn + 1
            /\ profileEntrypoints' = Entered(F) /\ of' = Append(of, FunctionDeclaration)
        BY <1>2 DEF Declare, BlocksDeclared
      <3>2. fn \in 1 .. Len(library)
        BY <1>1, <3>1 DEF IInv, InLibrary, Inner
      <3>3. FunctionDeclaration \in Declaration
        <4>1. of # of'
          BY <1>1, <3>1, AppendFacts
        <4> QED
          BY <1>2, <3>1, <4>1, DeclaresOne
      <3> QED
        BY <1>1, <2>1, <3>1, <3>2, <3>3 DEF F
    <2>3. /\ AreNamesWith(profileEntrypoints.vs, "VS", n)
          /\ AreNamesWith(profileEntrypoints.ps, "PS", n)
          /\ functions = 1 .. n
      BY <2>1, <2>2 DEF EntryInv
    <2>4. profileEntrypoints.vs \in Seq(Id) /\ profileEntrypoints.ps \in Seq(Id)
      BY <1>1
    <2>5. AreNamesWith(profileEntrypoints'.vs, "VS", n + 1)
      BY <1>1, <2>2, <2>3, <2>4, EntryAdded DEF Entered
    <2>6. AreNamesWith(profileEntrypoints'.ps, "PS", n + 1)
      BY <1>1, <2>2, <2>3, <2>4, EntryAdded DEF Entered
    <2>7. functions' = 1 .. n + 1
      <3>1. /\ Len(of) \in Nat /\ Len(of') = Len(of) + 1
            /\ \A k \in 1 .. Len(of) : of'[k] = of[k]
            /\ of'[Len(of) + 1] = FunctionDeclaration
            /\ \A k \in 1 .. Len(of') : k \in 1 .. Len(of) \/ k = Len(of) + 1
        BY <1>1, <2>2, AppendOne
      <3>2. FunctionDeclaration.kind = "function" /\ FunctionDeclaration.fn = n + 1
        BY <2>2 DEF FunctionDeclaration
      <3>3. functions' = functions \cup {n + 1}
        <4>1. ASSUME NEW y \in functions' PROVE y \in functions \cup {n + 1}
          BY <3>1, <3>2 DEF Declared
        <4>2. ASSUME NEW y \in functions PROVE y \in functions'
          BY <3>1 DEF Declared
        <4>3. n + 1 \in functions'
          <5>1. Len(of) + 1 \in 1 .. Len(of')
            BY <3>1
          <5> QED
            BY <3>1, <3>2, <5>1 DEF Declared
        <4> QED
          BY <4>1, <4>2, <4>3
      <3> QED
        BY <2>3, <3>3
    <2> HIDE DEF functions
    <2>8. fn' - 1 <= Len(library') /\ functions' = 1 .. fn' - 1
      BY <1>1, <2>2, <2>7
    <2>9. /\ AreNamesWith(profileEntrypoints'.vs, "VS", fn' - 1)
          /\ AreNamesWith(profileEntrypoints'.ps, "PS", fn' - 1)
      BY <2>2, <2>5, <2>6
    <2>10. /\ AreNamesWith(profileEntrypoints.vs, "VS", fn - 1)'
           /\ AreNamesWith(profileEntrypoints.ps, "PS", fn - 1)'
      BY <1>1a, <2>9
    <2>11. pc' # "done"
      BY <2>2
    <2> QED
      BY <2>8, <2>10, <2>11 DEF EntryInv, functions
  <1>3. CASE ~Declare
    <2>1. \/ pc' \in {"failed", "crashed"}
          \/ /\ pc \notin {"failed", "crashed"} /\ UNCHANGED <<fn, profileEntrypoints>>
             /\ pc' = "done" => pc = "done" \/ Complete
      BY <1>3 DEF Next, Progress, BeginFunction, ReadBuffer, BindBuffer, GenerateStruct, EndBuffers,
                  SkipResource, BindResource, EndResources, DeclareBlock, DeclareShort,
                  DeclareUnknown, Complete, ReflectionFails, Stopped, output, vars
    <2>2. CASE pc' \in {"failed", "crashed"}
      BY <2>2 DEF EntryInv
    <2>3. CASE /\ pc \notin {"failed", "crashed"} /\ UNCHANGED <<fn, profileEntrypoints>>
               /\ pc' = "done" => pc = "done" \/ Complete
      <3>1. functions' = functions
        <4>1. ASSUME NEW d \in Declaration, of' = Append(of, d), d.kind # "function"
              PROVE  functions' = functions
          <5>1. /\ Len(of) \in Nat /\ Len(of') = Len(of) + 1
                /\ \A k \in 1 .. Len(of) : of'[k] = of[k]
                /\ of'[Len(of) + 1] = d
                /\ \A k \in 1 .. Len(of') : k \in 1 .. Len(of) \/ k = Len(of) + 1
            BY <1>1, <4>1, AppendOne
          <5>2. ASSUME NEW y \in functions' PROVE y \in functions
            BY <4>1, <5>1 DEF Declared
          <5>3. ASSUME NEW y \in functions PROVE y \in functions'
            BY <5>1 DEF Declared
          <5> QED
            BY <5>2, <5>3
        <4>2. CASE of' = of
          BY <4>2 DEF Declared
        <4>3. CASE /\ StructDeclaration(Buffer.type) \in Declaration
                   /\ of' = Append(of, StructDeclaration(Buffer.type))
          <5>1. StructDeclaration(Buffer.type).kind # "function"
            BY DEF StructDeclaration
          <5> HIDE DEF functions
          <5> QED
            BY <4>1, <4>3, <5>1
        <4>4. CASE BlockDeclaration \in Declaration /\ of' = Append(of, BlockDeclaration)
          <5>1. BlockDeclaration.kind # "function"
            BY DEF BlockDeclaration
          <5> HIDE DEF functions
          <5> QED
            BY <4>1, <4>4, <5>1
        <4> QED
          BY <1>3, <4>2, <4>3, <4>4, DeclaresOne
      <3>2. /\ AreNamesWith(profileEntrypoints.vs, "VS", fn - 1)
            /\ AreNamesWith(profileEntrypoints.ps, "PS", fn - 1)
            /\ functions = 1 .. fn - 1 /\ fn - 1 <= Len(library)
        BY <2>3 DEF EntryInv
      <3>3. pc' = "done" => fn - 1 = Len(library)
        <4>1. Complete => fn - 1 = Len(library)
          <5>1. Complete => fn > Len(library)
            BY DEF Complete, FunctionsDone
          <5>2. Len(library) \in Nat
            BY <1>1
          <5> QED
            BY <1>1, <3>2, <5>1, <5>2
        <4> QED
          BY <2>3, <4>1 DEF EntryInv
      <3> HIDE DEF functions
      <3>4. /\ AreNamesWith(profileEntrypoints.vs, "VS", fn - 1)'
            /\ AreNamesWith(profileEntrypoints.ps, "PS", fn - 1)'
        BY <1>1a, <2>3, <3>2
      <3>5. /\ functions' = 1 .. fn' - 1 /\ fn' - 1 <= Len(library')
            /\ pc' = "done" => fn' - 1 = Len(library')
        BY <1>1, <2>3, <3>1, <3>2, <3>3
      <3> QED
        BY <3>4, <3>5 DEF EntryInv, functions
    <2> QED
      BY <2>1, <2>2, <2>3
  <1> QED
    BY <1>2, <1>3

\* The entry points are the declared functions with their suffix, in their order.
THEOREM EntrypointsMatch == Spec => []EntrypointsAreDeclared
  <1>1. Init => EntryInv
    <2> SUFFICES ASSUME Init PROVE EntryInv
      OBVIOUS
    <2>1. /\ fn = 1 /\ pc = "functions" /\ of = << >> /\ library \in Seq(Function)
          /\ profileEntrypoints.vs = << >> /\ profileEntrypoints.ps = << >>
      BY LibrariesAssumption DEF Init
    <2>2. \A x : {k \in 1 .. 0 : library[k].suffix = x} = {}
      OBVIOUS
    <2>3. \A x : AreNamesWith(<< >>, x, 0)
      BY <2>2, FS_EmptySet DEF AreNamesWith
    <2>4. {of[k].fn : k \in Declared("function")} = 1 .. 0
      BY <2>1 DEF Declared
    <2>5. fn - 1 = 0 /\ 0 <= Len(library)
      BY <2>1
    <2> QED
      BY <2>1, <2>3, <2>4, <2>5 DEF EntryInv
  <1>2. IInv /\ EntryInv /\ [Next]_vars => EntryInv'
    <2>1. EntryInv /\ UNCHANGED vars => EntryInv'
      BY DEF EntryInv, AreNamesWith, Declared, vars, output
    <2> QED
      BY <2>1, EntriesKept
  <1>3. EntryInv => EntrypointsAreDeclared
    BY DEF EntryInv, EntrypointsAreDeclared
  <1> QED
    BY <1>1, <1>2, <1>3, Invariance, PTL DEF Spec
===============================================================================
