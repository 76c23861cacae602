------------------------------- MODULE StructGen -------------------------------
(***************************************************************************)
(* generateStruct, writeType and generateConstantBufferStruct of           *)
(* generateCPP.cpp: the C++ structs written for the types of the constant  *)
(* buffers, members first, each once, padded to the offsets that DXC's     *)
(* reflection reports.                                                     *)
(*                                                                         *)
(* The recursion is an explicit stack of frames.  A frame's text is local  *)
(* to it until the struct is complete, so it is kept as what C++ will make *)
(* of it: the offset its next member gets.  Structs are numbered in the    *)
(* order of their HLSL definitions: a struct holds only earlier ones.      *)
(***************************************************************************)
EXTENDS Integers, Sequences, Functions

CONSTANTS
  NStructs,   \* the number of struct types
  UINT_MOD,   \* 2^32: the arithmetic of UINT wraps
  Programs    \* the reflected programs considered

Struct == 1 .. NStructs

\* A member: a scalar, vector or matrix of so many bytes ("plain"), a struct,
\* or of a class writeType does not know ("other"); elems is 0 if no array.
Member == [kind : {"plain", "struct", "other"}, bytes : Nat, type : Struct,
           elems : Nat, offset : Nat]

\* A program: the members of each struct, the bytes they span (which the code
\* never reads), and the constant buffers in the order generateCPP meets them.
Program == [members : [Struct -> Seq(Member)], spans : [Struct -> Nat],
            calls : Seq([type : Struct, meta : BOOLEAN])]

ASSUME NStructsAssumption == NStructs \in Nat \ {0}
ASSUME UintAssumption == UINT_MOD \in Nat \ {0} /\ UINT_MOD % 16 = 0
ASSUME ProgramsAssumption ==
  /\ Programs \subseteq Program
  /\ \A p \in Programs, s \in Struct : \A i \in 1 .. Len(p.members[s]) :
       p.members[s][i].kind = "struct" => p.members[s][i].type < s

VARIABLES
  prog,              \* the program
  call,              \* the next call of generateConstantBufferStruct
  stack,             \* the active generateStruct frames, the innermost last
  generatedStructs,  \* the cache: sizes by struct
  of,                \* the struct definitions in the header, in order
  of_cpp,            \* the metatables in the source file, in order
  status,            \* "running", "done" or "failed"
  sizeofs,           \* history: sizeof of each defined struct in C++
  comments           \* history: the "// offset: , size:" comments

fixed == <<prog, call>>
vars  == <<prog, call, stack, generatedStructs, of, of_cpp, status, sizeofs, comments>>

Frame == [s : Struct, i : Nat \ {0}, size : Nat, cpp : Nat]
Comment == [s : Struct, i : Nat \ {0}, offset : Nat, size : Nat, cpp : Nat]

TypeOK ==
  /\ prog \in Program
  /\ call \in Nat \ {0}
  /\ stack \in Seq(Frame)
  /\ DOMAIN generatedStructs \subseteq Struct
  /\ Range(generatedStructs) \subseteq 0 .. UINT_MOD - 1
  /\ of \in Seq(Struct) /\ of_cpp \in Seq(Struct)
  /\ status \in {"running", "done", "failed"}
  /\ DOMAIN sizeofs = Range(of) /\ Range(sizeofs) \subseteq Nat
  /\ comments \subseteq Comment

Empty == [s \in {} |-> 0]

Init ==
  /\ prog \in Programs
  /\ call = 1
  /\ stack = << >>
  /\ generatedStructs = Empty
  /\ of = << >> /\ of_cpp = << >>
  /\ status = "running"
  /\ sizeofs = Empty
  /\ comments = {}

-------------------------------------------------------------------------------
(* The arithmetic of UINT *)

Uint(n) == n % UINT_MOD

\* ((size - 1) / 16 + 1) * 16, which leaves 0 at 0.
\* Mutant: the product is computed in a wider type than size - 1.
RoundedWide(size) == (Uint(size - 1) \div 16 + 1) * 16
Rounded(size) == Uint((Uint(size - 1) \div 16 + 1) * 16)

\* writeType's size of an array, from its element's.
Extent(size, elems) ==
  IF elems > 0 THEN Uint(size + Rounded(size) * (elems - 1)) ELSE size

\* dummy() writes so many floats between size and offset.
Dummies(offset, size) == Uint(offset - size) \div 4

-------------------------------------------------------------------------------
(* The frames *)

Top == stack[Len(stack)]
Below == SubSeq(stack, 1, Len(stack) - 1)
MembersOf(s) == prog.members[s]
Current == MembersOf(Top.s)[Top.i]
AtMember == status = "running" /\ stack # << >> /\ Top.i <= Len(MembersOf(Top.s))

\* Mutant: an entry with size 0 counts as missing.
CachedWithSize(s) == s \in DOMAIN generatedStructs /\ generatedStructs[s] # 0
Cached(s) == s \in DOMAIN generatedStructs

With(f, s, n) == [x \in DOMAIN f \cup {s} |-> IF x = s THEN n ELSE f[x]]

\* try_emplace made an entry: its size is not known before its members are.
Enter(s) ==
  /\ stack' = Append(stack, [s |-> s, i |-> 1, size |-> 0, cpp |-> 0])
  /\ generatedStructs' = With(generatedStructs, s, 0)

-------------------------------------------------------------------------------
(* Actions *)

\* Mutant: the loop over the buffers stays where it is.
SameCall == call
NextCall == call + 1

\* generateCPP comes to its next constant buffer, whose struct is new ...
CallNew ==
  /\ status = "running" /\ stack = << >> /\ call <= Len(prog.calls)
  /\ ~Cached(prog.calls[call].type)
  /\ Enter(prog.calls[call].type)
  /\ UNCHANGED <<fixed, of, of_cpp, status, sizeofs, comments>>

\* ... or is known: the call is over at once.
CallCached ==
  /\ status = "running" /\ stack = << >> /\ call <= Len(prog.calls)
  /\ Cached(prog.calls[call].type)
  /\ call' = NextCall
  /\ UNCHANGED <<prog, stack, generatedStructs, of, of_cpp, status, sizeofs, comments>>

\* writeType calls generateStruct for a member whose struct is new.  When that
\* returns the struct is cached, and WriteMember goes on with the member.
MemberNew ==
  /\ AtMember /\ Current.kind = "struct" /\ ~Cached(Current.type)
  /\ Enter(Current.type)
  /\ UNCHANGED <<fixed, of, of_cpp, status, sizeofs, comments>>

\* The size writeType reports for one element, and the one C++ gives it.
ElementSize == IF Current.kind = "struct" THEN generatedStructs[Current.type]
               ELSE Current.bytes
ElementCpp == IF Current.kind = "struct" THEN sizeofs[Current.type]
              ELSE Current.bytes
Times(n, elems) == IF elems > 0 THEN n * elems ELSE n

\* Pads up to the member's offset and writes the member with its comment.
WriteMember ==
  /\ AtMember /\ Current.kind # "other"
  /\ Current.kind = "struct" => Cached(Current.type)
  /\ LET size == Extent(ElementSize, Current.elems)
         at   == Top.cpp + 4 * Dummies(Current.offset, Top.size)
     IN  /\ stack' = Append(Below,
              [s |-> Top.s, i |-> Top.i + 1, size |-> Uint(Current.offset + size),
               cpp |-> at + Times(ElementCpp, Current.elems)])
         /\ comments' = comments \cup
              {[s |-> Top.s, i |-> Top.i, offset |-> Current.offset, size |-> size,
                cpp |-> at]}
  /\ UNCHANGED <<fixed, generatedStructs, of, of_cpp, status, sizeofs>>

\* "Unsupported type class": every frame returns the error, and so does
\* generateCPP.
MemberUnsupported ==
  /\ AtMember /\ Current.kind = "other"
  /\ status' = "failed"
  /\ UNCHANGED <<fixed, stack, generatedStructs, of, of_cpp, sizeofs, comments>>

\* One of the GetDesc calls fails.
ReflectionFails ==
  /\ status = "running"
  /\ status' = "failed"
  /\ UNCHANGED <<fixed, stack, generatedStructs, of, of_cpp, sizeofs, comments>>

\* Mutant: the definition goes in front of what the header holds.
EmitFirst(s) == <<s>> \o of
Emit(s) == Append(of, s)

\* Mutant: the entry keeps the size it was made with.
StoreNothing(s, n) == generatedStructs
Store(s, n) == With(generatedStructs, s, n)

\* Mutant: the struct is not padded to its rounded size.
TrailingNone(size) == 0
Trailing(size) == Dummies(Rounded(size), size)

\* Mutant: generateMeta is not passed on to the members.
MetaOfRoots(s) == IF prog.calls[call].meta /\ Below = << >> THEN Append(of_cpp, s)
                  ELSE of_cpp
Meta(s) == IF prog.calls[call].meta THEN Append(of_cpp, s) ELSE of_cpp

\* The struct is complete: it is written, its size is cached, its frame returns.
EndStruct ==
  /\ status = "running" /\ stack # << >> /\ Top.i > Len(MembersOf(Top.s))
  /\ generatedStructs' = Store(Top.s, Rounded(Top.size))
  /\ of' = Emit(Top.s)
  /\ of_cpp' = Meta(Top.s)
  /\ sizeofs' = With(sizeofs, Top.s, Top.cpp + 4 * Trailing(Top.size))
  /\ stack' = Below
  /\ call' = IF Below = << >> THEN NextCall ELSE call
  /\ UNCHANGED <<prog, status, comments>>

\* Mutant: the last buffer is left out.
AllButLast == call >= Len(prog.calls)
CallsDone == call > Len(prog.calls)

Complete ==
  /\ status = "running" /\ stack = << >> /\ CallsDone
  /\ status' = "done"
  /\ UNCHANGED <<fixed, stack, generatedStructs, of, of_cpp, sizeofs, comments>>

Stopped == status # "running" /\ UNCHANGED vars

\* What the code does by itself; no call of the reflection has to fail.
Progress ==
  \/ CallNew \/ CallCached \/ MemberNew \/ WriteMember \/ MemberUnsupported
  \/ EndStruct \/ Complete

Next == Progress \/ ReflectionFails \/ Stopped

Spec == Init /\ [][Next]_vars /\ WF_vars(Progress)

-------------------------------------------------------------------------------
(* Properties *)

Uses(s) == {MembersOf(s)[i].type : i \in {k \in 1 .. Len(MembersOf(s)) :
                                            MembersOf(s)[k].kind = "struct"}}
OnStack == {stack[d].s : d \in 1 .. Len(stack)}

\* A C++ struct cannot hold a type that is not complete yet: in the header, the
\* structs a struct holds by value come before it.
DeclaredBeforeUse ==
  \A k \in 1 .. Len(of) : Uses(of[k]) \subseteq {of[l] : l \in 1 .. k - 1}

\* However many buffers and members share a struct, the header defines it once.
NoRedefinition == \A k, l \in 1 .. Len(of) : of[k] = of[l] => k = l

\* HLSL's packing: array elements begin registers, so all of them but the last
\* take whole registers.
Aligned(n) == ((n + 15) \div 16) * 16
BytesOf(m) == IF m.kind = "struct" THEN prog.spans[m.type] ELSE m.bytes
EndsAt(m) ==
  m.offset + (IF m.elems > 0 THEN Aligned(BytesOf(m)) * (m.elems - 1) ELSE 0) + BytesOf(m)

\* The members of a struct follow one another, four-byte aligned, structs at the
\* beginning of a register, and their offsets are far from the end of UINT.
Packed(s) ==
  /\ \A i \in 1 .. Len(MembersOf(s)) :
       LET m == MembersOf(s)[i]
       IN  /\ m.offset % 4 = 0 /\ BytesOf(m) % 4 = 0
           /\ m.kind = "struct" => m.offset % 16 = 0
           /\ i > 1 => EndsAt(MembersOf(s)[i - 1]) <= m.offset
           /\ EndsAt(m) + 32 <= UINT_MOD
  /\ prog.spans[s] = IF MembersOf(s) = << >> THEN 0
                     ELSE EndsAt(MembersOf(s)[Len(MembersOf(s))])

\* Layouts that C++ can be made to follow with paddings alone: HLSL's packing
\* where no struct is empty, array elements fill their registers, and nothing
\* is packed into the last register of a struct.
Representable ==
  \A s \in Struct :
    /\ Packed(s)
    /\ MembersOf(s) # << >>
    /\ \A i \in 1 .. Len(MembersOf(s)) :
         LET m == MembersOf(s)[i]
         IN  /\ m.elems > 1 /\ m.kind = "plain" => m.bytes % 16 = 0
             /\ i > 1 /\ MembersOf(s)[i - 1].kind = "struct" => m.offset % 16 = 0

\* A cached struct is one that is written or being written; and where C++ can
\* follow the layout at all, the size that the cache gives for it, which later
\* members and buffers build on, is its sizeof.
CacheHoldsSizeof ==
  \A s \in DOMAIN generatedStructs \ OnStack :
    s \in Range(of) /\ (Representable => generatedStructs[s] = sizeofs[s])

\* In such a layout every member of the generated struct is, in C++, at the
\* offset at which HLSL has it: the paddings before members and after the last
\* one do their work, for nested structs and arrays too.
LayoutAgrees == Representable => \A c \in comments : c.offset = c.cpp

\* A struct has a metatable when the first buffer that reached it asked for
\* one; so a metatable whose nested types have none comes after a buffer that
\* did not ask.
MetaLostToEarlierCall ==
  \A s \in Range(of_cpp) : s \in Range(of) /\
    \A t \in Uses(s) \ Range(of_cpp) :
      \E k \in 1 .. call - 1 : ~prog.calls[k].meta

\* generateStruct always returns: its recursion and its loops are finite.
Terminates == <>(status # "running")

D == INSTANCE DeclOrder WITH
  uses    <- [s \in Struct |-> Uses(s)],
  wanted  <- {prog.calls[k].type : k \in 1 .. Len(prog.calls)},
  defined <- Range(of),
  outcome <- status

\* The generated header keeps the order and the completeness C++ needs.
ImplementsDeclOrder == D!DeclSpec

\* "// offset: <o>, size: <n>" (generateCPP.cpp:302): in the generated struct
\* the member is at the offset its comment names.
OffsetCommentsHold == \A c \in comments : c.offset = c.cpp
================================================================================
