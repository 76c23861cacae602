---------------------------- MODULE StructGenProofs ----------------------------
(***************************************************************************)
(* Theorems about StructGen, for every program, every number of structs    *)
(* and every width of UINT.  The order of the definitions rests on three   *)
(* facts about the stack: its structs get strictly smaller, they are the   *)
(* cached structs that are not yet written, and the members each frame     *)
(* has passed are written.                                                 *)
(***************************************************************************)
EXTENDS StructGen, TLAPS

USE NStructsAssumption, UintAssumption, ProgramsAssumption

\* Deeper frames are for earlier structs.
Sorted == \A d, e \in 1 .. Len(stack) : d < e => stack[e].s < stack[d].s

\* A cached struct is either written or being written.
CacheSplit ==
  /\ DOMAIN generatedStructs = Range(of) \cup OnStack
  /\ Range(of) \cap OnStack = {}

\* The members a frame has passed are of structs that are written.
MembersDone ==
  \A d \in 1 .. Len(stack) : \A i \in 1 .. Len(MembersOf(stack[d].s)) :
    i < stack[d].i /\ MembersOf(stack[d].s)[i].kind = "struct" =>
      MembersOf(stack[d].s)[i].type \in Range(of)

\* The calls that are over have left their structs in the header, and the
\* outermost frame is for the call that is running.
CallsSay ==
  /\ \A k \in 1 .. Len(prog.calls) : k < call => prog.calls[k].type \in Range(of)
  /\ stack # << >> => call <= Len(prog.calls) /\ stack[1].s = prog.calls[call].type

IInv ==
  /\ TypeOK /\ prog \in Programs
  /\ Sorted /\ CacheSplit /\ MembersDone /\ CallsSay
  /\ DeclaredBeforeUse /\ NoRedefinition

-------------------------------------------------------------------------------
(* The arithmetic *)

\* UINT values lie below UINT_MOD.
LEMMA UintType == \A n \in Int : Uint(n) \in 0 .. UINT_MOD - 1
  BY DEF Uint

\* The number of dummies is a natural number.
LEMMA DummiesType == \A o, n \in Int : Dummies(o, n) \in Nat
  <1> SUFFICES ASSUME NEW o \in Int, NEW n \in Int PROVE Dummies(o, n) \in Nat
    OBVIOUS
  <1>1. Uint(o - n) \in 0 .. UINT_MOD - 1
    BY UintType
  <1>2. \A x \in Nat : x \div 4 \in Nat
    OBVIOUS
  <1> QED
    BY <1>1, <1>2 DEF Dummies

\* A rounded size is a UINT value.
LEMMA RoundedType == \A n \in Int : Rounded(n) \in 0 .. UINT_MOD - 1
  <1> SUFFICES ASSUME NEW n \in Int PROVE Rounded(n) \in 0 .. UINT_MOD - 1
    OBVIOUS
  <1>1. Uint(n - 1) \in Int
    BY UintType
  <1>2. (Uint(n - 1) \div 16 + 1) * 16 \in Int
    BY <1>1
  <1> QED
    BY <1>2, UintType DEF Rounded

\* The extent of a member is a natural number.
LEMMA ExtentType == \A n, e \in Nat : Extent(n, e) \in Nat
  <1> SUFFICES ASSUME NEW n \in Nat, NEW e \in Nat PROVE Extent(n, e) \in Nat
    OBVIOUS
  <1>1. Rounded(n) \in Nat
    BY RoundedType
  <1>2. \A a, b \in Int : a * b \in Int
    OBVIOUS
  <1>3. n + Rounded(n) * (e - 1) \in Int
    BY <1>1, <1>2
  <1> QED
    BY <1>3, UintType DEF Extent

\* So is the product of a size and a number of elements.
LEMMA TimesType == \A n, e \in Nat : Times(n, e) \in Nat
  BY DEF Times

-------------------------------------------------------------------------------
(* The data structures *)

\* A definition that is appended is all that the header gains.
LEMMA RangeAppend ==
  ASSUME NEW S, NEW q \in Seq(S), NEW x \in S
  PROVE  Range(Append(q, x)) = Range(q) \cup {x}
  <1>1. PICK n \in Nat : n = Len(q)
    OBVIOUS
  <1>2. /\ DOMAIN Append(q, x) = 1 .. n + 1 /\ DOMAIN q = 1 .. n
        /\ \A k \in 1 .. n : Append(q, x)[k] = q[k]
        /\ Append(q, x)[n + 1] = x
    BY <1>1
  <1>3. 1 .. n + 1 = (1 .. n) \cup {n + 1}
    OBVIOUS
  <1> QED
    BY <1>2, <1>3 DEF Range

\* Adding an entry to a function, or changing one.
LEMMA WithFacts ==
  ASSUME NEW f, NEW s, NEW n
  PROVE  /\ DOMAIN With(f, s, n) = DOMAIN f \cup {s}
         /\ \A x \in DOMAIN f : x # s => With(f, s, n)[x] = f[x]
         /\ With(f, s, n)[s] = n
         /\ Range(With(f, s, n)) \subseteq Range(f) \cup {n}
  BY DEF With, Range

\* The reflected program's parts have their types.
LEMMA ProgramType ==
  ASSUME prog \in Programs, NEW s \in Struct
  PROVE  /\ MembersOf(s) \in Seq(Member)
         /\ \A i \in 1 .. Len(MembersOf(s)) :
              /\ MembersOf(s)[i] \in Member
              /\ MembersOf(s)[i].kind = "struct" => MembersOf(s)[i].type < s
         /\ prog.calls \in Seq([type : Struct, meta : BOOLEAN])
  <1>1. prog \in Program
    OBVIOUS
  <1>2. MembersOf(s) \in Seq(Member)
    BY <1>1 DEF Program, MembersOf
  <1>3. prog.calls \in Seq([type : Struct, meta : BOOLEAN])
    BY <1>1 DEF Program
  <1>4. \A i \in 1 .. Len(MembersOf(s)) :
          MembersOf(s)[i].kind = "struct" => MembersOf(s)[i].type < s
    BY DEF MembersOf
  <1> QED
    BY <1>2, <1>3, <1>4

\* The innermost frame and the members of its struct.
LEMMA TopType ==
  ASSUME TypeOK, prog \in Programs, stack # << >>
  PROVE  /\ Len(stack) \in Nat \ {0}
         /\ Top \in Frame
         /\ Top.s \in Struct
         /\ MembersOf(Top.s) \in Seq(Member)
  <1>1. Len(stack) \in Nat \ {0} /\ Top \in Frame
    BY DEF TypeOK, Top
  <1>2. Top.s \in Struct
    BY <1>1 DEF Frame
  <1> QED
    BY <1>1, <1>2, ProgramType

\* The member that is about to be written.
LEMMA CurrentType ==
  ASSUME TypeOK, prog \in Programs, AtMember
  PROVE  /\ Top.i \in 1 .. Len(MembersOf(Top.s))
         /\ Current \in Member
         /\ Current.kind = "struct" => Current.type < Top.s
  <1>1. stack # << >> /\ Top.i <= Len(MembersOf(Top.s))
    BY DEF AtMember
  <1>2. Top \in Frame /\ Top.s \in Struct /\ MembersOf(Top.s) \in Seq(Member)
    BY <1>1, TopType
  <1>3. Top.i \in 1 .. Len(MembersOf(Top.s))
    BY <1>1, <1>2 DEF Frame
  <1> QED
    BY <1>2, <1>3, ProgramType DEF Current

\* A struct that is earlier than the innermost frame's has no frame.
LEMMA EarlierNotOnStack ==
  ASSUME TypeOK, prog \in Programs, Sorted, stack # << >>, NEW t \in Struct, t < Top.s
  PROVE  t \notin OnStack
  <1>1. PICK n \in Nat \ {0} : n = Len(stack)
    BY TopType
  <1>2. \A d \in 1 .. n : stack[d].s \in Struct
    <2>1. \A d \in 1 .. n : stack[d] \in Frame
      BY <1>1 DEF TypeOK
    <2> QED
      BY <2>1 DEF Frame
  <1>3. \A d \in 1 .. n : d = n \/ stack[n].s < stack[d].s
    BY <1>1 DEF Sorted
  <1>4. \A d \in 1 .. n : stack[d].s # t
    BY <1>1, <1>2, <1>3 DEF Top, Struct
  <1> QED
    BY <1>1, <1>4 DEF OnStack

-------------------------------------------------------------------------------
(* The invariant *)

\* It holds before anything is generated.
LEMMA InitIInv == Init => IInv
  <1> SUFFICES ASSUME Init PROVE IInv
    OBVIOUS
  <1>1. TypeOK
    <2>1. DOMAIN Empty = {} /\ Range(Empty) = {} /\ Range(<< >>) = {}
      BY DEF Empty, Range
    <2>2. prog \in Program /\ stack \in Seq(Frame) /\ of \in Seq(Struct)
          /\ of_cpp \in Seq(Struct)
      BY DEF Init
    <2> QED
      BY <2>1, <2>2 DEF Init, TypeOK
  <1>2. Sorted /\ MembersDone /\ CallsSay
    BY DEF Init, Sorted, MembersDone, CallsSay
  <1>3. CacheSplit
    BY DEF Init, CacheSplit, OnStack, Empty, Range
  <1> QED
    BY <1>1, <1>2, <1>3 DEF Init, IInv, DeclaredBeforeUse, NoRedefinition

\* The order of the header is about the header and the program only.
LEMMA OrderUnchanged ==
  ASSUME DeclaredBeforeUse, NoRedefinition, UNCHANGED <<prog, of>>
  PROVE  DeclaredBeforeUse' /\ NoRedefinition'
  <1>1. \A s : Uses(s)' = Uses(s)
    BY DEF Uses, MembersOf
  <1>2. DeclaredBeforeUse'
    BY <1>1 DEF DeclaredBeforeUse
  <1> QED
    BY <1>2 DEF NoRedefinition

\* A new frame is for a struct smaller than the innermost one, which becomes
\* cached and is not written.
LEMMA EnterKeeps ==
  ASSUME IInv, NEW t \in Struct, ~Cached(t), Enter(t),
         UNCHANGED <<fixed, of, of_cpp, status, sizeofs, comments>>,
         stack # << >> => t < Top.s,
         stack = << >> => call <= Len(prog.calls) /\ t = prog.calls[call].type
  PROVE  IInv'
  <1> USE DEF IInv
  <1>1. PICK n \in Nat : n = Len(stack)
    BY DEF TypeOK
  <1>2. /\ stack' = Append(stack, [s |-> t, i |-> 1, size |-> 0, cpp |-> 0])
        /\ generatedStructs' = With(generatedStructs, t, 0)
        /\ UNCHANGED <<prog, call, of, of_cpp, status, sizeofs, comments>>
    BY DEF Enter, fixed
  <1>2a. /\ DOMAIN generatedStructs' = DOMAIN generatedStructs \cup {t}
         /\ Range(generatedStructs') \subseteq Range(generatedStructs) \cup {0}
    BY <1>2, WithFacts
  <1>3. /\ stack' \in Seq(Frame) /\ Len(stack') = n + 1
        /\ \A d \in 1 .. n : stack'[d] = stack[d]
        /\ stack'[n + 1] = [s |-> t, i |-> 1, size |-> 0, cpp |-> 0]
    BY <1>1, <1>2 DEF TypeOK, Frame
  <1>4. TypeOK'
    <2>1. /\ DOMAIN generatedStructs' \subseteq Struct
          /\ Range(generatedStructs') \subseteq 0 .. UINT_MOD - 1
      BY <1>2a DEF TypeOK
    <2> QED
      BY <1>2, <1>3, <2>1 DEF TypeOK
  <1>5. Sorted'
    <2>1. \A d \in 1 .. n : stack[d].s \in Struct /\ t < stack[d].s
      <3>1. \A d \in 1 .. n : stack[d] \in Frame
        BY <1>1 DEF TypeOK
      <3>2. \A d \in 1 .. n : d = n \/ stack[n].s < stack[d].s
        BY <1>1 DEF Sorted
      <3>3. n > 0 => t < stack[n].s
        BY <1>1 DEF Top
      <3> QED
        BY <3>1, <3>2, <3>3, SMTT(30) DEF Frame, Struct
    <2> SUFFICES ASSUME NEW d \in 1 .. n + 1, NEW e \in 1 .. n + 1, d < e
                 PROVE  stack'[e].s < stack'[d].s
      BY <1>3 DEF Sorted
    <2>2. d \in 1 .. n /\ stack'[d] = stack[d]
      BY <1>3
    <2>3. CASE e = n + 1
      <3>1. stack'[e].s = t
        BY <1>3, <2>3
      <3> QED
        BY <2>1, <2>2, <3>1
    <2>4. CASE e # n + 1
      <3>1. e \in 1 .. n /\ stack'[e] = stack[e]
        BY <1>3, <2>4
      <3> QED
        BY <1>1, <2>2, <3>1 DEF Sorted
    <2> QED
      BY <2>3, <2>4
  <1>6. OnStack' = OnStack \cup {t}
    BY <1>1, <1>3, SMTT(30) DEF OnStack
  <1>7. CacheSplit'
    BY <1>2, <1>2a, <1>6 DEF CacheSplit, Cached
  <1>8. MembersDone'
    <2> SUFFICES ASSUME NEW d \in 1 .. n + 1,
                        NEW i \in 1 .. Len(MembersOf(stack'[d].s)),
                        i < stack'[d].i, MembersOf(stack'[d].s)[i].kind = "struct"
                 PROVE  MembersOf(stack'[d].s)[i].type \in Range(of)
      BY <1>2, <1>3 DEF MembersDone, MembersOf
    <2>1. d # n + 1
      BY <1>3
    <2> QED
      BY <1>1, <1>3, <2>1 DEF MembersDone
  <1>9. CallsSay'
    <2>1. n = 0 \/ stack'[1] = stack[1]
      BY <1>3
    <2>2. stack'[1].s = prog.calls[call].type /\ call <= Len(prog.calls)
      BY <1>1, <1>3, <2>1 DEF CallsSay
    <2> QED
      BY <1>2, <2>2 DEF CallsSay
  <1> QED
    BY <1>2, <1>4, <1>5, <1>7, <1>8, <1>9, OrderUnchanged

\* A member is written: its frame moves on, past a struct that is written.
LEMMA WriteMemberKeeps == ASSUME IInv, WriteMember PROVE IInv'
  <1> USE DEF IInv
  <1> DEFINE size == Extent(ElementSize, Current.elems)
             at   == Top.cpp + 4 * Dummies(Current.offset, Top.size)
             new  == [s |-> Top.s, i |-> Top.i + 1,
                      size |-> Uint(Current.offset + size),
                      cpp |-> at + Times(ElementCpp, Current.elems)]
  <1>1. AtMember /\ (Current.kind = "struct" => Cached(Current.type))
    BY DEF WriteMember
  <1>2. stack # << >>
    BY <1>1 DEF AtMember
  <1>3. PICK n \in Nat \ {0} : n = Len(stack)
    BY <1>2, TopType
  <1>4. Top \in Frame /\ Top.s \in Struct
    BY <1>2, TopType
  <1>5. /\ Current \in Member /\ Top.i \in 1 .. Len(MembersOf(Top.s))
        /\ Current.kind = "struct" => Current.type < Top.s
    BY <1>1, CurrentType
  <1>6. Current.kind = "struct" => Current.type \in Range(of)
    <2> SUFFICES ASSUME Current.kind = "struct" PROVE Current.type \in Range(of)
      OBVIOUS
    <2>1. Current.type \in Struct /\ Current.type < Top.s
      BY <1>5 DEF Member
    <2>2. Current.type \notin OnStack
      BY <1>2, <2>1, EarlierNotOnStack
    <2> QED
      BY <1>1, <2>2 DEF Cached, CacheSplit
  <1>7. ElementSize \in Nat /\ ElementCpp \in Nat
    <2>1. CASE Current.kind = "struct"
      <3>1. generatedStructs[Current.type] \in Range(generatedStructs)
        BY <1>1, <2>1 DEF Range, Cached
      <3>2. sizeofs[Current.type] \in Range(sizeofs)
        BY <1>6, <2>1 DEF Range, TypeOK
      <3> QED
        BY <2>1, <3>1, <3>2 DEF TypeOK, ElementSize, ElementCpp
    <2>2. CASE Current.kind # "struct"
      BY <1>5, <2>2 DEF ElementSize, ElementCpp, Member
    <2> QED
      BY <2>1, <2>2
  <1>8. Current.offset \in Nat /\ Current.elems \in Nat
    BY <1>5 DEF Member
  <1>9. size \in Nat
    BY <1>7, <1>8, ExtentType
  <1>10. at \in Nat /\ new \in Frame
    <2>1. Top.cpp \in Nat /\ Top.size \in Nat /\ Top.i \in Nat \ {0}
      BY <1>4 DEF Frame
    <2>2. Dummies(Current.offset, Top.size) \in Nat
      <3>1. Current.offset \in Int /\ Top.size \in Int
        BY <1>8, <2>1
      <3> QED
        BY <3>1, DummiesType
    <2>3. at \in Nat
      BY <2>1, <2>2
    <2>4. Times(ElementCpp, Current.elems) \in Nat
      BY <1>7, <1>8, TimesType
    <2> HIDE DEF size, at
    <2>5. Uint(Current.offset + size) \in Nat
      <3>1. Current.offset + size \in Int
        BY <1>8, <1>9
      <3> QED
        BY <3>1, UintType, SMTT(30)
    <2> QED
      BY <1>4, <2>1, <2>3, <2>4, <2>5 DEF Frame
  <1>10a. /\ Len(stack') = n
          /\ \A d \in 1 .. n - 1 : stack'[d] = stack[d]
          /\ stack'[n] = new
          /\ stack' \in Seq(Frame)
    <2>1. stack' = Append(Below, new)
      BY DEF WriteMember
    <2>2. /\ Below \in Seq(Frame) /\ Len(Below) = n - 1
          /\ \A d \in 1 .. n - 1 : Below[d] = stack[d]
      BY <1>3 DEF TypeOK, Below
    <2> HIDE DEF size, at, new
    <2> QED
      BY <1>3, <1>10, <2>1, <2>2
  <1>11. comments' \subseteq Comment
    <2>1. comments' = comments \cup
            {[s |-> Top.s, i |-> Top.i, offset |-> Current.offset, size |-> size,
              cpp |-> at]}
      BY DEF WriteMember
    <2> HIDE DEF size, at
    <2> QED
      BY <1>4, <1>8, <1>9, <1>10, <2>1, SMTT(30) DEF Comment, TypeOK, Frame
  <1>12. UNCHANGED <<prog, call, generatedStructs, of, of_cpp, status, sizeofs>>
    BY DEF WriteMember, fixed
  <1> HIDE DEF size, at
  <1>13. TypeOK'
    BY <1>10a, <1>11, <1>12 DEF TypeOK
  <1>14. \A d \in 1 .. n : stack'[d].s = stack[d].s
    BY <1>3, <1>10a DEF Top
  <1> HIDE DEF new
  <1>15. Sorted' /\ CacheSplit'
    BY <1>3, <1>10a, <1>12, <1>14 DEF Sorted, CacheSplit, OnStack
  <1>16. MembersDone'
    <2> SUFFICES ASSUME NEW d \in 1 .. n,
                        NEW i \in 1 .. Len(MembersOf(stack[d].s)),
                        i < stack'[d].i, MembersOf(stack[d].s)[i].kind = "struct"
                 PROVE  MembersOf(stack[d].s)[i].type \in Range(of)
      BY <1>10a, <1>12, <1>14 DEF MembersDone, MembersOf
    <2>1. CASE d = n /\ i = Top.i
      BY <1>3, <1>6, <2>1 DEF Current, Top
    <2>2. CASE d = n /\ i # Top.i
      <3>1. i < stack[d].i
        BY <1>3, <1>4, <1>5, <1>10a, <2>2 DEF new, Top
      <3> QED
        BY <1>3, <3>1 DEF MembersDone
    <2>3. CASE d # n
      BY <1>3, <1>10a, <2>3 DEF MembersDone
    <2> QED
      BY <2>1, <2>2, <2>3
  <1>17. CallsSay'
    BY <1>2, <1>3, <1>10a, <1>12, <1>14 DEF CallsSay
  <1> QED
    BY <1>12, <1>13, <1>15, <1>16, <1>17, OrderUnchanged

\* What a complete struct brings to the header: a definition that was not there
\* and whose parts are.
LEMMA EndStructEmits ==
  ASSUME IInv, EndStruct
  PROVE  /\ Top.s \in Struct /\ Top.s \in OnStack /\ Top.s \notin Range(of)
         /\ Uses(Top.s) \subseteq Range(of)
         /\ of' \in Seq(Struct) /\ Range(of') = Range(of) \cup {Top.s}
  <1> USE DEF IInv
  <1>1. stack # << >> /\ Top.i > Len(MembersOf(Top.s)) /\ of' = Append(of, Top.s)
    BY DEF EndStruct, Emit
  <1>2. PICK n \in Nat \ {0} : n = Len(stack)
    BY <1>1, TopType
  <1>3. /\ Top \in Frame /\ Top.s \in Struct /\ Top = stack[n]
        /\ MembersOf(Top.s) \in Seq(Member)
    BY <1>1, <1>2, TopType DEF Top
  <1>4. of' \in Seq(Struct) /\ Range(of') = Range(of) \cup {Top.s}
    BY <1>1, <1>3, RangeAppend DEF TypeOK
  <1>5. Top.s \in OnStack /\ Top.s \notin Range(of)
    BY <1>2, <1>3 DEF OnStack, CacheSplit
  <1>6. Uses(Top.s) \subseteq Range(of)
    <2>1. \A i \in 1 .. Len(MembersOf(Top.s)) : i < Top.i
      BY <1>1, <1>3 DEF Frame
    <2> QED
      BY <1>2, <1>3, <2>1 DEF Uses, MembersDone
  <1> QED
    BY <1>3, <1>4, <1>5, <1>6

\* A struct is complete: it goes from the stack to the header, after all of the
\* structs it holds.
LEMMA EndStructKeeps == ASSUME IInv, EndStruct PROVE IInv'
  <1> USE DEF IInv
  <1>1. stack # << >> /\ Top.i > Len(MembersOf(Top.s))
    BY DEF EndStruct
  <1>2. PICK n \in Nat \ {0} : n = Len(stack)
    BY <1>1, TopType
  <1>3. /\ Top \in Frame /\ Top.s \in Struct /\ Top = stack[n]
        /\ MembersOf(Top.s) \in Seq(Member)
    BY <1>1, <1>2, TopType DEF Top
  <1>4. /\ generatedStructs' = With(generatedStructs, Top.s, Rounded(Top.size))
        /\ of' = Append(of, Top.s)
        /\ of_cpp' = Meta(Top.s)
        /\ sizeofs' = With(sizeofs, Top.s, Top.cpp + 4 * Trailing(Top.size))
        /\ stack' = Below
        /\ call' = IF Below = << >> THEN call + 1 ELSE call
        /\ UNCHANGED <<prog, status, comments>>
    BY DEF EndStruct, Store, Emit, NextCall
  <1>5. /\ stack' \in Seq(Frame) /\ Len(stack') = n - 1
        /\ \A d \in 1 .. n - 1 : stack'[d] = stack[d]
    BY <1>2, <1>4 DEF TypeOK, Below
  <1>6. of' \in Seq(Struct) /\ Range(of') = Range(of) \cup {Top.s}
    BY EndStructEmits
  <1>7. Top.s \notin Range(of) /\ Top.s \in DOMAIN generatedStructs
    BY EndStructEmits DEF CacheSplit
  <1>8. /\ DOMAIN generatedStructs' = DOMAIN generatedStructs
        /\ Range(generatedStructs') \subseteq Range(generatedStructs) \cup {Rounded(Top.size)}
    <2> DEFINE r == Rounded(Top.size)
    <2>1. generatedStructs' = With(generatedStructs, Top.s, r)
      BY <1>4
    <2> HIDE DEF r
    <2>2. /\ DOMAIN generatedStructs' = DOMAIN generatedStructs \cup {Top.s}
          /\ Range(generatedStructs') \subseteq Range(generatedStructs) \cup {r}
      BY <2>1, WithFacts, ZenonT(30)
    <2> QED
      BY <1>7, <2>2 DEF r
  <1>9. TypeOK'
    <2>1. Top.size \in Nat /\ Top.cpp \in Nat
      BY <1>3 DEF Frame
    <2>2. Range(generatedStructs') \subseteq 0 .. UINT_MOD - 1
      <3>1. Rounded(Top.size) \in 0 .. UINT_MOD - 1
        <4>1. Top.size \in Int
          BY <2>1
        <4> QED
          BY <4>1, RoundedType
      <3> QED
        BY <1>8, <3>1 DEF TypeOK
    <2>3. Trailing(Top.size) \in Nat
      <3>1. Rounded(Top.size) \in Int /\ Top.size \in Int
        BY <2>1, RoundedType
      <3> QED
        BY <3>1, DummiesType DEF Trailing
    <2>4. DOMAIN sizeofs' = Range(of') /\ Range(sizeofs') \subseteq Nat
      <3> DEFINE c == Top.cpp + 4 * Trailing(Top.size)
      <3>1. c \in Nat
        BY <2>1, <2>3
      <3>2. sizeofs' = With(sizeofs, Top.s, c)
        BY <1>4
      <3> HIDE DEF c
      <3>3. /\ DOMAIN sizeofs' = DOMAIN sizeofs \cup {Top.s}
            /\ Range(sizeofs') \subseteq Range(sizeofs) \cup {c}
        BY <3>2, WithFacts, ZenonT(30)
      <3> QED
        BY <1>6, <3>1, <3>3 DEF TypeOK
    <2>5. of_cpp' \in Seq(Struct)
      BY <1>3, <1>4 DEF Meta, TypeOK
    <2>6. call' \in Nat \ {0}
      BY <1>4 DEF TypeOK
    <2> QED
      BY <1>4, <1>5, <1>6, <1>8, <2>2, <2>4, <2>5, <2>6 DEF TypeOK
  <1>10. Sorted'
    BY <1>2, <1>5, SMTT(30) DEF Sorted
  <1>11. CacheSplit'
    <2>1. \A d \in 1 .. n - 1 : stack[d].s # Top.s
      <3>1. \A d \in 1 .. n - 1 : stack[n].s < stack[d].s
        BY <1>2 DEF Sorted
      <3> QED
        BY <1>3, <3>1 DEF Struct
    <2>2. OnStack = OnStack' \cup {Top.s} /\ Top.s \notin OnStack'
      <3>1. OnStack' = {stack[d].s : d \in 1 .. n - 1}
        BY <1>5 DEF OnStack
      <3>2. 1 .. n = (1 .. n - 1) \cup {n}
        BY <1>2
      <3>3. OnStack = {stack[d].s : d \in (1 .. n - 1) \cup {n}}
        BY <1>2, <3>2 DEF OnStack
      <3> QED
        BY <1>3, <2>1, <3>1, <3>3
    <2> QED
      BY <1>6, <1>8, <2>2 DEF CacheSplit
  <1>12. MembersDone'
    <2> SUFFICES ASSUME NEW d \in 1 .. n - 1,
                        NEW i \in 1 .. Len(MembersOf(stack[d].s)),
                        i < stack[d].i, MembersOf(stack[d].s)[i].kind = "struct"
                 PROVE  MembersOf(stack[d].s)[i].type \in Range(of) \cup {Top.s}
      <3>1. \A s : MembersOf(s)' = MembersOf(s)
        BY <1>4 DEF MembersOf
      <3> QED
        BY <1>5, <1>6, <3>1 DEF MembersDone
    <2> QED
      BY <1>2 DEF MembersDone
  <1>13. CallsSay'
    <2>1. CASE n = 1
      <3>1. Below = << >> /\ stack' = << >>
        BY <1>2, <1>4, <1>5, <2>1
      <3>2. call' = call + 1 /\ prog.calls[call].type = Top.s
        BY <1>1, <1>3, <1>4, <2>1, <3>1 DEF CallsSay
      <3>3. prog' = prog /\ call \in Nat
        BY <1>4 DEF TypeOK
      <3>4. \A k \in 1 .. Len(prog.calls) : k < call => prog.calls[k].type \in Range(of)
        BY DEF CallsSay
      <3>5. ASSUME NEW k \in 1 .. Len(prog.calls), k < call + 1 PROVE prog.calls[k].type \in Range(of')
        <4>1. k < call \/ k = call
          BY <3>3, <3>5
        <4> QED
          BY <1>6, <3>2, <3>4, <4>1
      <3> QED
        BY <3>1, <3>2, <3>3, <3>5 DEF CallsSay
    <2>2. CASE n > 1
      <3>1. Below # << >> /\ stack' # << >> /\ stack'[1] = stack[1]
        BY <1>2, <1>4, <1>5, <2>2
      <3> QED
        BY <1>1, <1>4, <1>6, <3>1 DEF CallsSay
    <2> QED
      BY <2>1, <2>2
  <1>14. Uses(Top.s) \subseteq Range(of)
    BY EndStructEmits
  <1>15. PICK m \in Nat : m = Len(of)
    BY DEF TypeOK
  <1>16. /\ Len(of') = m + 1 /\ of'[m + 1] = Top.s
         /\ \A k \in 1 .. m : of'[k] = of[k]
    BY <1>3, <1>4, <1>15 DEF TypeOK
  <1>17. Range(of) = {of[l] : l \in 1 .. m}
    <2>1. DOMAIN of = 1 .. m
      BY <1>15 DEF TypeOK
    <2> QED
      BY <2>1 DEF Range
  <1>18. DeclaredBeforeUse'
    <2>1. \A s : Uses(s)' = Uses(s)
      BY <1>4 DEF Uses, MembersOf
    <2> SUFFICES ASSUME NEW k \in 1 .. m + 1
                 PROVE  Uses(of'[k]) \subseteq {of'[l] : l \in 1 .. k - 1}
      BY <1>16, <2>1 DEF DeclaredBeforeUse
    <2>2. CASE k = m + 1
      <3>1. {of'[l] : l \in 1 .. m} = {of[l] : l \in 1 .. m}
        BY <1>16
      <3> QED
        BY <1>14, <1>16, <1>17, <2>2, <3>1
    <2>3. CASE k \in 1 .. m
      <3>1. {of'[l] : l \in 1 .. k - 1} = {of[l] : l \in 1 .. k - 1}
        BY <1>16, <2>3
      <3> QED
        BY <1>15, <1>16, <2>3, <3>1 DEF DeclaredBeforeUse
    <2> QED
      BY <2>2, <2>3
  <1>19. NoRedefinition'
    <2> SUFFICES ASSUME NEW k \in 1 .. m + 1, NEW l \in 1 .. m + 1, of'[k] = of'[l]
                 PROVE  k = l
      BY <1>16 DEF NoRedefinition
    <2>1. \A j \in 1 .. m : of'[j] # Top.s
      BY <1>7, <1>16, <1>17
    <2> QED
      BY <1>15, <1>16, <2>1 DEF NoRedefinition
  <1> QED
    BY <1>4, <1>9, <1>10, <1>11, <1>12, <1>13, <1>18, <1>19

\* Every step preserves the invariant.
LEMMA NextIInv == IInv /\ [Next]_vars => IInv'
  <1> SUFFICES ASSUME IInv, [Next]_vars PROVE IInv'
    OBVIOUS
  <1>1. CASE CallNew
    <2>1. prog.calls[call].type \in Struct
      <3>1. prog.calls \in Seq([type : Struct, meta : BOOLEAN])
        BY DEF IInv, Program
      <3>2. call \in 1 .. Len(prog.calls)
        BY <1>1, <3>1 DEF CallNew, IInv, TypeOK
      <3>3. prog.calls[call] \in [type : Struct, meta : BOOLEAN]
        <4>1. \A S, q : q \in Seq(S) => \A k \in 1 .. Len(q) : q[k] \in S
          OBVIOUS
        <4> QED
          BY <3>1, <3>2, <4>1
      <3> QED
        BY <3>3
    <2> QED
      BY <1>1, <2>1, EnterKeeps DEF CallNew
  <1>2. CASE MemberNew
    <2>1. Current.type \in Struct /\ Current.type < Top.s /\ stack # << >>
      BY <1>2, CurrentType DEF MemberNew, IInv, AtMember, Member
    <2> QED
      BY <1>2, <2>1, EnterKeeps DEF MemberNew
  <1>3. CASE CallCached
    <2>1. /\ stack = << >> /\ call <= Len(prog.calls)
          /\ prog.calls[call].type \in DOMAIN generatedStructs
          /\ call' = call + 1
          /\ UNCHANGED <<prog, stack, generatedStructs, of, of_cpp, status, sizeofs,
                         comments>>
      BY <1>3 DEF CallCached, Cached, NextCall
    <2>2. OnStack = {}
      BY <2>1 DEF OnStack
    <2>3. prog.calls[call].type \in Range(of)
      BY <2>1, <2>2 DEF IInv, CacheSplit
    <2>4. TypeOK'
      BY <2>1 DEF IInv, TypeOK
    <2>5. CallsSay'
      BY <2>1, <2>3 DEF IInv, CallsSay, TypeOK
    <2> QED
      BY <2>1, <2>4, <2>5, OrderUnchanged
         DEF IInv, Sorted, CacheSplit, OnStack, MembersDone, MembersOf
  <1>4. CASE WriteMember
    BY <1>4, WriteMemberKeeps
  <1>5. CASE EndStruct
    BY <1>5, EndStructKeeps
  <1>6. CASE MemberUnsupported \/ ReflectionFails \/ Complete \/ UNCHANGED vars
    <2>1. /\ status' \in {status, "failed", "done"}
          /\ UNCHANGED <<prog, call, stack, generatedStructs, of, of_cpp, sizeofs,
                         comments>>
      BY <1>6 DEF MemberUnsupported, ReflectionFails, Complete, fixed, vars
    <2>2. TypeOK' /\ CallsSay'
      BY <2>1 DEF IInv, TypeOK, CallsSay
    <2> QED
      BY <2>1, <2>2, OrderUnchanged
         DEF IInv, Sorted, CacheSplit, OnStack, MembersDone, MembersOf
  <1> QED
    BY <1>1, <1>2, <1>3, <1>4, <1>5, <1>6 DEF Next, Progress, Stopped

LEMMA Invariant == Spec => []IInv
  BY InitIInv, NextIInv, PTL DEF Spec

-------------------------------------------------------------------------------
(* The theorems *)

\* The variables keep their types: in particular no size leaves the range of
\* UINT, whatever the offsets.
THEOREM TypeCorrect == Spec => []TypeOK
  BY Invariant, PTL DEF IInv

\* In the header every struct comes after the structs it holds by value.
THEOREM HeaderIsOrdered == Spec => []DeclaredBeforeUse
  BY Invariant, PTL DEF IInv

\* The header defines no struct twice.
THEOREM HeaderDefinesOnce == Spec => []NoRedefinition
  BY Invariant, PTL DEF IInv

-------------------------------------------------------------------------------
(* The metatables *)

\* A buffer that asked for no metatables has been met, or its structs are
\* being generated.
Unasked ==
  \/ \E k \in 1 .. call - 1 : ~prog.calls[k].meta
  \/ stack # << >> /\ ~prog.calls[call].meta

\* Only structs of the header have metatables, and a struct of the header that
\* has none was reached by a buffer that asked for none.
UnmarkedSay ==
  /\ Range(of_cpp) \subseteq Range(of)
  /\ Range(of) # Range(of_cpp) => Unasked

MetaInv == UnmarkedSay /\ MetaLostToEarlierCall

\* A buffer that asked for none stays asked for none.
LEMMA UnaskedStays ==
  ASSUME IInv, Unasked, prog' = prog, call' = call \/ call' = call + 1,
         call' = call => (stack = << >> \/ stack' # << >>)
  PROVE  Unasked'
  <1>1. call \in Nat \ {0}
    BY DEF IInv, TypeOK
  <1>2. CASE call' = call
    BY <1>2 DEF Unasked
  <1>3. CASE call' = call + 1
    <2>1. \A k \in 1 .. call - 1 : k \in 1 .. call' - 1
      BY <1>1, <1>3
    <2>2. call \in 1 .. call' - 1
      BY <1>1, <1>3
    <2> QED
      BY <2>1, <2>2 DEF Unasked
  <1> QED
    BY <1>2, <1>3

\* Steps that complete no struct leave the metatables as they are.
LEMMA MetaSkip ==
  ASSUME IInv, MetaInv, UNCHANGED <<prog, of, of_cpp>>,
         call' = call \/ call' = call + 1,
         call' = call => (stack = << >> \/ stack' # << >>)
  PROVE  MetaInv'
  <1>1. UnmarkedSay'
    BY UnaskedStays DEF MetaInv, UnmarkedSay
  <1>2. \A s : Uses(s)' = Uses(s)
    BY DEF Uses, MembersOf
  <1>3. \A k \in 1 .. call - 1 : k \in 1 .. call' - 1
    BY DEF IInv, TypeOK
  <1>4. MetaLostToEarlierCall'
    BY <1>2, <1>3 DEF MetaInv, MetaLostToEarlierCall
  <1> QED
    BY <1>1, <1>4 DEF MetaInv

\* A complete struct gets its metatable if the running call asked for it; if
\* its parts have none, an earlier call did not ask.
LEMMA EndStructMeta == ASSUME IInv, MetaInv, EndStruct PROVE MetaInv'
  <1>1. /\ Top.s \in Struct /\ Uses(Top.s) \subseteq Range(of)
        /\ Range(of') = Range(of) \cup {Top.s}
    BY EndStructEmits
  <1>2. /\ stack # << >> /\ prog' = prog /\ stack' = Below
        /\ of_cpp' = IF prog.calls[call].meta THEN Append(of_cpp, Top.s) ELSE of_cpp
        /\ call' = IF Below = << >> THEN call + 1 ELSE call
    BY DEF EndStruct, NextCall, Meta
  <1>3. call \in Nat \ {0} /\ of_cpp \in Seq(Struct)
    BY DEF IInv, TypeOK
  <1>4. \A s : Uses(s)' = Uses(s)
    BY <1>2 DEF Uses, MembersOf
  <1>5. \A k \in 1 .. call - 1 : k \in 1 .. call' - 1
    BY <1>2, <1>3
  <1>6. CASE ~prog.calls[call].meta
    <2>1. of_cpp' = of_cpp
      BY <1>2, <1>6
    <2>2. Unasked'
      <3>1. CASE Below = << >>
        <4>1. call \in 1 .. call' - 1
          BY <1>2, <1>3, <3>1
        <4> QED
          BY <1>2, <1>6, <4>1 DEF Unasked
      <3>2. CASE Below # << >>
        <4>1. call' = call /\ stack' # << >>
          BY <1>2, <3>2
        <4> QED
          BY <1>2, <1>6, <4>1 DEF Unasked
      <3> QED
        BY <3>1, <3>2
    <2>3. UnmarkedSay'
      BY <1>1, <2>1, <2>2 DEF MetaInv, UnmarkedSay
    <2>4. MetaLostToEarlierCall'
      BY <1>1, <1>2, <1>4, <1>5, <2>1 DEF MetaInv, MetaLostToEarlierCall
    <2> QED
      BY <2>3, <2>4 DEF MetaInv
  <1>7. CASE prog.calls[call].meta
    <2>1. Range(of_cpp') = Range(of_cpp) \cup {Top.s}
      BY <1>1, <1>2, <1>3, <1>7, RangeAppend
    <2>2. Range(of) # Range(of_cpp) => \E k \in 1 .. call - 1 : ~prog.calls[k].meta
      BY <1>7 DEF MetaInv, UnmarkedSay, Unasked
    <2>3. UnmarkedSay'
      <3>1. Range(of') # Range(of_cpp') => Range(of) # Range(of_cpp)
        BY <1>1, <2>1
      <3>2. Range(of) # Range(of_cpp) => Unasked'
        BY <1>2, <1>5, <2>2 DEF Unasked
      <3> QED
        BY <1>1, <2>1, <3>1, <3>2 DEF MetaInv, UnmarkedSay
    <2>4. ASSUME NEW s \in Range(of_cpp'), NEW t \in Uses(s) \ Range(of_cpp')
          PROVE  s \in Range(of') /\ \E k \in 1 .. call' - 1 : ~prog.calls[k].meta
      <3>1. CASE s \in Range(of_cpp)
        BY <1>1, <1>5, <2>1, <2>4, <3>1 DEF MetaInv, MetaLostToEarlierCall
      <3>2. CASE s = Top.s
        <4>1. t \in Range(of) /\ t \notin Range(of_cpp)
          BY <1>1, <2>1, <2>4, <3>2
        <4> QED
          BY <1>1, <1>5, <2>2, <3>2, <4>1
      <3> QED
        BY <2>1, <2>4, <3>1, <3>2
    <2>5. \A s \in Range(of_cpp') : s \in Range(of')
      BY <1>1, <2>1 DEF MetaInv, UnmarkedSay
    <2>6. MetaLostToEarlierCall'
      BY <1>2, <1>4, <2>4, <2>5 DEF MetaLostToEarlierCall
    <2> QED
      BY <2>3, <2>6 DEF MetaInv
  <1> QED
    BY <1>6, <1>7

LEMMA InitMeta == Init => MetaInv
  BY DEF Init, MetaInv, UnmarkedSay, MetaLostToEarlierCall, Range

LEMMA NextMeta == IInv /\ MetaInv /\ [Next]_vars => MetaInv'
  <1> SUFFICES ASSUME IInv, MetaInv, [Next]_vars PROVE MetaInv'
    OBVIOUS
  <1>1. CASE CallNew \/ MemberNew
    <2>1. stack' # << >>
      BY <1>1 DEF CallNew, MemberNew, Enter, IInv, TypeOK
    <2> QED
      BY <1>1, <2>1, MetaSkip DEF CallNew, MemberNew, fixed
  <1>2. CASE CallCached
    BY <1>2, MetaSkip DEF CallCached, NextCall
  <1>3. CASE WriteMember
    <2>1. UNCHANGED <<prog, call, of, of_cpp>> /\ stack # << >>
      BY <1>3 DEF WriteMember, fixed, AtMember
    <2>2. PICK f : stack' = Append(Below, f)
      BY <1>3 DEF WriteMember
    <2>3. Below \in Seq(Frame)
      BY <2>1 DEF Below, IInv, TypeOK
    <2>4. stack' # << >>
      BY <2>2, <2>3
    <2> QED
      BY <2>1, <2>4, MetaSkip
  <1>4. CASE EndStruct
    BY <1>4, EndStructMeta
  <1>5. CASE MemberUnsupported \/ ReflectionFails \/ Complete \/ UNCHANGED vars
    <2>1. UNCHANGED <<prog, call, stack, of, of_cpp>>
      BY <1>5 DEF MemberUnsupported, ReflectionFails, Complete, fixed, vars
    <2> QED
      BY <2>1, MetaSkip
  <1> QED
    BY <1>1, <1>2, <1>3, <1>4, <1>5 DEF Next, Progress, Stopped

\* A struct that is written without the metatables of its parts was preceded
\* by a buffer that reached those parts and asked for none.
THEOREM MetatablesLost == Spec => []MetaLostToEarlierCall
  <1>1. Spec => []MetaInv
    BY Invariant, InitMeta, NextMeta, PTL DEF Spec
  <1> QED
    BY <1>1, PTL DEF MetaInv

-------------------------------------------------------------------------------
(* Refinement *)

\* Nothing is defined at the start.
LEMMA InitRefines == Init => D!DeclInit
  <1> SUFFICES ASSUME Init PROVE D!DeclInit
    OBVIOUS
  <1>1. prog \in Programs /\ prog \in Program
    BY DEF Init
  <1>2. \A s \in Struct : Uses(s) \in SUBSET Struct
    <2> SUFFICES ASSUME NEW s \in Struct,
                        NEW i \in 1 .. Len(MembersOf(s))
                 PROVE  MembersOf(s)[i].type \in Struct
      BY DEF Uses
    <2>1. MembersOf(s)[i] \in Member
      BY <1>1, ProgramType
    <2> QED
      BY <2>1 DEF Member
  <1>3. \A k \in 1 .. Len(prog.calls) : prog.calls[k].type \in Struct
    <2>1. prog.calls \in Seq([type : Struct, meta : BOOLEAN])
      BY <1>1 DEF Program
    <2>2. \A S, q : q \in Seq(S) => \A k \in 1 .. Len(q) : q[k] \in S
      OBVIOUS
    <2>3. \A k \in 1 .. Len(prog.calls) : prog.calls[k] \in [type : Struct, meta : BOOLEAN]
      BY <2>1, <2>2
    <2> QED
      BY <2>3
  <1>4. Range(of) = {} /\ status = "running"
    BY DEF Init, Range
  <1> QED
    BY <1>2, <1>3, <1>4 DEF D!DeclInit

\* Every step defines the next struct, ends the run, or changes nothing that
\* the header's promise is about.
LEMMA NextRefines == IInv /\ [Next]_vars => [D!DeclNext]_(D!declVars)
  <1> SUFFICES ASSUME IInv, [Next]_vars
               PROVE  D!DeclNext \/ UNCHANGED D!declVars
    OBVIOUS
  <1>1. prog' = prog
    BY DEF Next, Progress, vars, fixed, CallNew, CallCached, MemberNew, WriteMember,
           MemberUnsupported, ReflectionFails, EndStruct, Complete, Stopped
  <1>2. /\ [s \in Struct |-> Uses(s)]' = [s \in Struct |-> Uses(s)]
        /\ {prog.calls[k].type : k \in 1 .. Len(prog.calls)}'
             = {prog.calls[k].type : k \in 1 .. Len(prog.calls)}
    BY <1>1 DEF Uses, MembersOf
  <1>3. CASE EndStruct
    <2>1. /\ Top.s \in Struct /\ Top.s \notin Range(of)
          /\ Uses(Top.s) \subseteq Range(of)
          /\ Range(of') = Range(of) \cup {Top.s}
      BY <1>3, EndStructEmits
    <2>2. status = "running" /\ status' = status
      BY <1>3 DEF EndStruct
    <2>3. D!Define(Top.s)
      BY <1>2, <2>1, <2>2 DEF D!Define
    <2> QED
      BY <2>1, <2>3 DEF D!DeclNext
  <1>4. CASE Complete
    <2>1. /\ status = "running" /\ status' = "done" /\ of' = of
          /\ call > Len(prog.calls)
      BY <1>4 DEF Complete, CallsDone
    <2>2. \A k \in 1 .. Len(prog.calls) : k < call
      <3>1. prog.calls \in Seq([type : Struct, meta : BOOLEAN])
        BY DEF IInv, Program
      <3>2. PICK c \in Nat : c = Len(prog.calls)
        BY <3>1
      <3> QED
        BY <2>1, <3>2 DEF IInv, TypeOK
    <2>3. {prog.calls[k].type : k \in 1 .. Len(prog.calls)} \subseteq Range(of)
      BY <2>2 DEF IInv, CallsSay
    <2>4. D!Complete
      BY <1>2, <2>1, <2>3 DEF D!Complete
    <2> QED
      BY <2>4 DEF D!DeclNext
  <1>5. CASE MemberUnsupported \/ ReflectionFails
    <2>1. status = "running" /\ status' = "failed" /\ of' = of
      BY <1>5 DEF MemberUnsupported, ReflectionFails, AtMember
    <2>2. D!GiveUp
      BY <1>2, <2>1 DEF D!GiveUp
    <2> QED
      BY <2>2 DEF D!DeclNext
  <1>6. CASE CallNew \/ CallCached \/ MemberNew \/ WriteMember \/ UNCHANGED vars
    <2>1. of' = of /\ status' = status
      BY <1>6 DEF CallNew, CallCached, MemberNew, WriteMember, vars
    <2> QED
      BY <1>2, <2>1 DEF D!declVars
  <1> QED
    BY <1>3, <1>4, <1>5, <1>6 DEF Next, Progress, Stopped

\* The generation of structs implements the order and the completeness that a
\* C++ compiler needs of the header.
THEOREM GeneratesInOrder == Spec => ImplementsDeclOrder
  <1>1. Spec => D!DeclInit /\ [][D!DeclNext]_(D!declVars)
    BY InitRefines, NextRefines, Invariant, PTL DEF Spec
  <1> QED
    BY <1>1 DEF ImplementsDeclOrder, D!DeclSpec

-------------------------------------------------------------------------------
(***************************************************************************)
(* The layout of the generated structs, for every program and every width  *)
(* of UINT: where C++ can follow HLSL's layout at all, the cached sizes    *)
(* are the sizes C++ gives the structs, and every member is at the offset  *)
(* its comment names.  The argument goes along the members of a struct:    *)
(* what HLSL packs leaves room for what C++ has written so far.            *)
(***************************************************************************)

\* The size of one element of a member in C++, and where the member ends there.
CppBytes(m) == IF m.kind = "struct" THEN Aligned(BytesOf(m)) ELSE BytesOf(m)
Written(m) == m.offset + Times(CppBytes(m), m.elems)

\* What is written of a struct ends after its last member, or at 0.
WrittenUpTo(s, i) == IF i = 1 THEN 0 ELSE Written(MembersOf(s)[i - 1])

\* The structs in the header have their size rounded up to whole registers, in
\* the cache and in C++.
SizesSay == \A t \in Range(of) : generatedStructs[t] = Aligned(prog.spans[t])
                              /\ sizeofs[t] = Aligned(prog.spans[t])

\* A frame has counted in HLSL's bytes what C++ counts in its own, and all the
\* members it has passed are of known classes.
FramesSay ==
  \A d \in 1 .. Len(stack) :
    /\ stack[d].i <= Len(MembersOf(stack[d].s)) + 1
    /\ stack[d].size = WrittenUpTo(stack[d].s, stack[d].i)
    /\ stack[d].cpp = stack[d].size
    /\ \A i \in 1 .. stack[d].i - 1 : MembersOf(stack[d].s)[i].kind # "other"

LayoutInv == Representable => SizesSay /\ FramesSay /\ LayoutAgrees

-------------------------------------------------------------------------------
(* The arithmetic *)

\* A number below UINT_MOD is its own UINT value.
LEMMA UintIs == \A n \in Nat : n < UINT_MOD => Uint(n) = n
  <1> SUFFICES ASSUME NEW n \in Nat, n < UINT_MOD PROVE Uint(n) = n
    OBVIOUS
  <1>1. \A m \in Int : n < m => n % m = n
    OBVIOUS
  <1>2. UINT_MOD \in Int
    OBVIOUS
  <1> QED
    BY <1>1, <1>2 DEF Uint

\* Aligning goes up to the next multiple of 16, and no further.
LEMMA AlignedFacts ==
  ASSUME NEW n \in Nat
  PROVE  /\ Aligned(n) \in Nat /\ n <= Aligned(n) /\ Aligned(n) <= n + 15
         /\ Aligned(n) % 16 = 0 /\ Aligned(n) % 4 = 0
         /\ n % 16 = 0 => Aligned(n) = n
         /\ \A k \in Nat : k % 16 = 0 /\ n <= k => Aligned(n) <= k
  BY DEF Aligned

\* Whole registers in front of what is aligned stay.
LEMMA AlignedShift ==
  ASSUME NEW h \in Nat, h % 16 = 0, NEW n \in Nat
  PROVE  Aligned(h + n) = h + Aligned(n)
  BY DEF Aligned

\* The code's expression for the rounded size aligns, in particular at 0, where
\* it wraps around twice.
LEMMA RoundedIs == \A n \in Nat : n + 16 <= UINT_MOD => Rounded(n) = Aligned(n)
  <1> SUFFICES ASSUME NEW n \in Nat, n + 16 <= UINT_MOD PROVE Rounded(n) = Aligned(n)
    OBVIOUS
  <1>1. CASE n = 0
    <2>1. Uint(n - 1) = UINT_MOD - 1
      <3>1. \A m \in Int : m > 0 => (0 - 1) % m = m - 1
        OBVIOUS
      <3>2. UINT_MOD \in Int /\ UINT_MOD > 0
        OBVIOUS
      <3> QED
        BY <1>1, <3>1, <3>2 DEF Uint
    <2>2. (Uint(n - 1) \div 16 + 1) * 16 = UINT_MOD
      BY <2>1
    <2>3. \A m \in Nat \ {0} : m % m = 0
      OBVIOUS
    <2>4. Rounded(n) = 0
      BY <2>2, <2>3 DEF Rounded, Uint
    <2> QED
      BY <1>1, <2>4 DEF Aligned
  <1>2. CASE n > 0
    <2>1. Uint(n - 1) = n - 1
      BY <1>2, UintIs
    <2>2. (Uint(n - 1) \div 16 + 1) * 16 = Aligned(n)
      BY <1>2, <2>1 DEF Aligned
    <2>3. Aligned(n) \in Nat /\ Aligned(n) < UINT_MOD
      <3>1. Aligned(n) \in Nat /\ Aligned(n) <= n + 15
        BY AlignedFacts
      <3> QED
        BY <3>1
    <2> QED
      BY <2>2, <2>3, UintIs DEF Rounded
  <1> QED
    BY <1>1, <1>2

\* The dummies fill a gap of whole floats.
LEMMA DummiesFill ==
  ASSUME NEW o \in Nat, NEW n \in Nat, n <= o, o < UINT_MOD, o % 4 = 0, n % 4 = 0
  PROVE  n + 4 * Dummies(o, n) = o
  <1>1. Uint(o - n) = o - n
    BY UintIs
  <1>2. 4 * ((o - n) \div 4) = o - n
    BY Z3
  <1> QED
    BY <1>1, <1>2 DEF Dummies

\* Multiples of 16 and of 4 under products.
LEMMA Multiples ==
  ASSUME NEW a \in Nat, NEW k \in Nat
  PROVE  /\ a * k \in Nat
         /\ a % 16 = 0 => (a * k) % 16 = 0
         /\ a % 4 = 0 => (a * k) % 4 = 0
         /\ a * (k + 1) = a * k + a
  <1>1. a * k \in Nat /\ a * (k + 1) = a * k + a
    OBVIOUS
  <1>2. ASSUME a % 16 = 0 PROVE (a * k) % 16 = 0
    <2>1. PICK q \in Nat : a = 16 * q
      <3>1. a = 16 * (a \div 16) /\ a \div 16 \in Nat
        BY <1>2
      <3> QED
        BY <3>1
    <2>2. PICK r \in Nat : r = q * k
      OBVIOUS
    <2>3. a * k = 16 * r
      BY <2>1, <2>2
    <2> QED
      BY <2>3
  <1>3. ASSUME a % 4 = 0 PROVE (a * k) % 4 = 0
    <2>1. PICK q \in Nat : a = 4 * q
      <3>1. a = 4 * (a \div 4) /\ a \div 4 \in Nat
        BY <1>3
      <3> QED
        BY <3>1
    <2>2. PICK r \in Nat : r = q * k
      OBVIOUS
    <2>3. a * k = 4 * r
      BY <2>1, <2>2
    <2> QED
      BY <2>3
  <1> QED
    BY <1>1, <1>2, <1>3

-------------------------------------------------------------------------------
(* Where a member ends *)

\* A member of a program, and the two sizes of its elements.
LEMMA MemberSizes ==
  ASSUME prog \in Programs, Representable, NEW s \in Struct,
         NEW i \in 1 .. Len(MembersOf(s)), NEW m, m = MembersOf(s)[i]
  PROVE  /\ m \in Member /\ m.offset \in Nat /\ m.elems \in Nat
         /\ m.offset % 4 = 0 /\ m.offset + BytesOf(m) \in Nat
         /\ BytesOf(m) \in Nat /\ BytesOf(m) % 4 = 0
         /\ CppBytes(m) \in Nat /\ CppBytes(m) % 4 = 0
         /\ m.kind = "struct" => /\ m.offset % 16 = 0
                                 /\ CppBytes(m) = Aligned(BytesOf(m))
         /\ m.kind # "struct" => /\ CppBytes(m) = BytesOf(m)
                                 /\ m.kind = "plain" /\ m.elems > 1 => BytesOf(m) % 16 = 0
         /\ EndsAt(m) + 32 <= UINT_MOD
  <1>1. m \in Member /\ prog \in Program
    BY ProgramType, ProgramsAssumption
  <1>2. m.offset \in Nat /\ m.elems \in Nat /\ m.type \in Struct /\ m.bytes \in Nat
    BY <1>1 DEF Member
  <1>3. BytesOf(m) \in Nat
    BY <1>1, <1>2 DEF BytesOf, Program
  <1>4. /\ m.offset % 4 = 0 /\ BytesOf(m) % 4 = 0
        /\ m.kind = "struct" => m.offset % 16 = 0
        /\ EndsAt(m) + 32 <= UINT_MOD
    BY DEF Representable, Packed
  <1>5. m.kind # "struct" /\ m.elems > 1 /\ m.kind = "plain" => BytesOf(m) % 16 = 0
    BY DEF Representable, BytesOf
  <1>6. CppBytes(m) \in Nat /\ CppBytes(m) % 4 = 0
    BY <1>3, <1>4, AlignedFacts DEF CppBytes
  <1> QED
    BY <1>1, <1>2, <1>3, <1>4, <1>5, <1>6, SMTT(30) DEF CppBytes

\* The elements but the last take as much in C++ as in HLSL; so a member ends
\* where HLSL ends it, or, if it is a struct, at the end of its register.
LEMMA WrittenFacts ==
  ASSUME prog \in Programs, Representable, NEW s \in Struct,
         NEW i \in 1 .. Len(MembersOf(s)), NEW m, m = MembersOf(s)[i], m.kind # "other"
  PROVE  /\ EndsAt(m) \in Nat /\ Written(m) \in Nat /\ Written(m) % 4 = 0
         /\ m.offset <= Written(m)
         /\ m.kind = "struct" => Written(m) = Aligned(EndsAt(m))
         /\ m.kind # "struct" => Written(m) = EndsAt(m)
  <1> DEFINE k == IF m.elems > 0 THEN m.elems - 1 ELSE 0
  <1>1. PICK o \in Nat, b \in Nat, x \in Nat :
          o = m.offset /\ b = BytesOf(m) /\ x = CppBytes(m)
    BY MemberSizes
  <1>2. /\ m.elems \in Nat /\ o % 4 = 0 /\ b % 4 = 0 /\ x % 4 = 0
        /\ m.kind = "struct" => o % 16 = 0 /\ x = Aligned(b)
        /\ m.kind # "struct" => x = b /\ (m.elems > 1 => b % 16 = 0)
    <2>1. m.kind \in {"plain", "struct", "other"}
      BY MemberSizes DEF Member
    <2> QED
      BY <1>1, <2>1, MemberSizes
  <1>3. k \in Nat
    BY <1>2
  <1>4. PICK p \in Nat : p = x * k /\ p % 4 = 0 /\ (m.kind = "struct" => p % 16 = 0)
    <2>1. m.kind = "struct" => x % 16 = 0
      BY <1>2, AlignedFacts
    <2> QED
      BY <1>2, <1>3, <2>1, Multiples
  <1>5. Times(x, m.elems) = p + x
    <2>1. CASE m.elems > 0
      <3>1. m.elems = k + 1
        BY <1>2, <2>1
      <3> HIDE DEF k
      <3> QED
        BY <1>3, <1>4, <2>1, <3>1, Multiples DEF Times
    <2>2. CASE m.elems = 0
      BY <1>4, <2>2 DEF Times
    <2> QED
      BY <1>2, <2>1, <2>2
  <1>6. (IF m.elems > 0 THEN Aligned(b) * (m.elems - 1) ELSE 0) = p
    <2>1. CASE k = 0
      <3>1. p = 0
        BY <1>4, <2>1
      <3>2. \A a \in Nat : a * 0 = 0
        OBVIOUS
      <3>3. Aligned(b) \in Nat
        BY AlignedFacts
      <3>4. m.elems > 0 => m.elems - 1 = 0
        BY <1>2, <2>1
      <3> QED
        BY <3>1, <3>2, <3>3, <3>4
    <2>2. CASE k # 0
      <3>1. m.elems > 1 /\ m.elems - 1 = k
        BY <1>2, <2>2
      <3>2. Aligned(b) = x
        BY <1>2, <3>1, AlignedFacts
      <3> QED
        BY <1>4, <3>1, <3>2
    <2> QED
      BY <2>1, <2>2
  <1>7. Written(m) = o + (p + x) /\ EndsAt(m) = o + p + b
    BY <1>1, <1>5, <1>6 DEF Written, EndsAt
  <1>8. m.kind = "struct" => Written(m) = Aligned(EndsAt(m))
    <2> SUFFICES ASSUME m.kind = "struct" PROVE Written(m) = Aligned(EndsAt(m))
      OBVIOUS
    <2>1. o % 16 = 0 /\ p % 16 = 0 /\ x = Aligned(b)
      BY <1>2, <1>4
    <2>2. PICK h \in Nat : h = o + p /\ h % 16 = 0
      BY <2>1
    <2>3. Aligned(h + b) = h + x
      BY <2>1, <2>2, AlignedShift
    <2>4. Written(m) = h + x /\ EndsAt(m) = h + b
      BY <1>7, <2>2
    <2> QED
      BY <2>3, <2>4
  <1>9. m.kind # "struct" => Written(m) = EndsAt(m)
    BY <1>2, <1>7
  <1>10. (o + (p + x)) % 4 = 0
    <2>1. o % 4 = 0 /\ p % 4 = 0 /\ x % 4 = 0
      BY <1>2, <1>4
    <2>2. \A c, d \in Nat : c % 4 = 0 /\ d % 4 = 0 => (c + d) % 4 = 0
      OBVIOUS
    <2>3. PICK c \in Nat : c = p + x /\ c % 4 = 0
      BY <2>1, <2>2
    <2> QED
      BY <2>1, <2>2, <2>3
  <1> HIDE DEF k
  <1>11. PICK w \in Nat, e \in Nat :
           /\ w = Written(m) /\ e = EndsAt(m) /\ w % 4 = 0 /\ o <= w
    <2>1. o + (p + x) \in Nat /\ o + p + b \in Nat /\ o <= o + (p + x)
      OBVIOUS
    <2> QED
      BY <1>7, <1>10, <2>1
  <1> QED
    BY <1>1, <1>8, <1>9, <1>11

\* HLSL's next member begins where C++ is by then, or later.
LEMMA NextFits ==
  ASSUME prog \in Programs, Representable, NEW s \in Struct,
         NEW i \in 1 .. Len(MembersOf(s)), i > 1, MembersOf(s)[i - 1].kind # "other"
  PROVE  Written(MembersOf(s)[i - 1]) <= MembersOf(s)[i].offset
  <1>1. PICK m, p : m = MembersOf(s)[i] /\ p = MembersOf(s)[i - 1]
    OBVIOUS
  <1>2. i - 1 \in 1 .. Len(MembersOf(s))
    <2>1. MembersOf(s) \in Seq(Member)
      BY ProgramType
    <2> QED
      BY <2>1
  <1>3. /\ EndsAt(p) <= m.offset
        /\ p.kind = "struct" => m.offset % 16 = 0
    BY <1>1 DEF Representable, Packed
  <1>4. m.offset \in Nat
    BY <1>1, MemberSizes
  <1>5. /\ EndsAt(p) \in Nat
        /\ p.kind = "struct" => Written(p) = Aligned(EndsAt(p))
        /\ p.kind # "struct" => Written(p) = EndsAt(p)
    BY <1>1, <1>2, WrittenFacts
  <1>6. CASE p.kind = "struct"
    BY <1>1, <1>3, <1>4, <1>5, <1>6, AlignedFacts, ZenonT(30)
  <1>7. CASE p.kind # "struct"
    BY <1>1, <1>3, <1>5, <1>7
  <1> QED
    BY <1>6, <1>7

\* Where a member ends in C++ is still a UINT value, with a register to spare.
LEMMA WrittenBelow ==
  ASSUME prog \in Programs, Representable, NEW s \in Struct,
         NEW i \in 1 .. Len(MembersOf(s)), MembersOf(s)[i].kind # "other"
  PROVE  Written(MembersOf(s)[i]) + 16 <= UINT_MOD
  <1>1. PICK m : m = MembersOf(s)[i]
    OBVIOUS
  <1>2. /\ EndsAt(m) \in Nat /\ Written(m) \in Nat
        /\ Written(m) = Aligned(EndsAt(m)) \/ Written(m) = EndsAt(m)
    BY <1>1, WrittenFacts
  <1>3. EndsAt(m) + 32 <= UINT_MOD
    BY <1>1, MemberSizes
  <1>4. Aligned(EndsAt(m)) <= EndsAt(m) + 15
    BY <1>2, AlignedFacts
  <1> QED
    BY <1>1, <1>2, <1>3, <1>4

\* What writeType reports of an array is what it takes in C++, if its elements
\* fill their registers.
LEMMA ExtentIs ==
  ASSUME NEW x \in Nat, NEW e \in Nat, Times(x, e) + 16 <= UINT_MOD,
         e > 1 => x % 16 = 0
  PROVE  Extent(x, e) = Times(x, e)
  <1>1. CASE e = 0
    BY <1>1 DEF Extent, Times
  <1>2. CASE e > 0
    <2>1. PICK k \in Nat : k = e - 1 /\ e = k + 1
      BY <1>2
    <2>2. PICK p \in Nat : p = x * k /\ x * e = p + x
      BY <2>1, Multiples
    <2>3. Times(x, e) = p + x
      BY <1>2, <2>2 DEF Times
    <2>4. Rounded(x) * k = p
      <3>1. CASE k = 0
        <4>1. Rounded(x) \in Nat
          BY RoundedType
        <4> QED
          BY <2>2, <3>1, <4>1
      <3>2. CASE k > 0
        <4>1. Rounded(x) = Aligned(x)
          BY <2>3, RoundedIs
        <4>2. x % 16 = 0
          BY <2>1, <3>2
        <4>3. Aligned(x) = x
          BY <4>2, AlignedFacts
        <4> QED
          BY <2>2, <4>1, <4>3
      <3> QED
        BY <3>1, <3>2
    <2>5. Extent(x, e) = Uint(x + p)
      BY <1>2, <2>1, <2>4 DEF Extent
    <2>6. x + p \in Nat /\ x + p < UINT_MOD
      BY <2>3
    <2> QED
      BY <2>3, <2>5, <2>6, UintIs
  <1> QED
    BY <1>1, <1>2

-------------------------------------------------------------------------------
(* The invariant *)

\* The layout is a matter of the program, which does not change.
LEMMA LayoutOfProgram ==
  ASSUME prog' = prog
  PROVE  /\ Representable' = Representable
         /\ \A s : MembersOf(s)' = MembersOf(s)
         /\ \A s, i : WrittenUpTo(s, i)' = WrittenUpTo(s, i)
  <1>1. \A s : MembersOf(s)' = MembersOf(s)
    BY DEF MembersOf
  <1>2. Representable' = Representable
    BY DEF Representable, Packed, EndsAt, BytesOf, MembersOf
  <1>3. \A s, i : WrittenUpTo(s, i)' = WrittenUpTo(s, i)
    BY DEF WrittenUpTo, Written, CppBytes, BytesOf, MembersOf
  <1> QED
    BY <1>1, <1>2, <1>3

\* What a frame has written ends where the next member can still go.
LEMMA WrittenSoFar ==
  ASSUME prog \in Programs, Representable, NEW s \in Struct, NEW i \in Nat \ {0},
         i <= Len(MembersOf(s)) + 1,
         \A k \in 1 .. i - 1 : MembersOf(s)[k].kind # "other"
  PROVE  /\ WrittenUpTo(s, i) \in Nat /\ WrittenUpTo(s, i) % 4 = 0
         /\ i <= Len(MembersOf(s)) => WrittenUpTo(s, i) <= MembersOf(s)[i].offset
  <1>1. MembersOf(s) \in Seq(Member)
    BY ProgramType
  <1>2. CASE i = 1
    <2>1. i <= Len(MembersOf(s)) => MembersOf(s)[i].offset \in Nat
      BY <1>1, <1>2, MemberSizes
    <2> QED
      BY <1>2, <2>1 DEF WrittenUpTo
  <1>3. CASE i > 1
    <2>1. i - 1 \in 1 .. Len(MembersOf(s)) /\ MembersOf(s)[i - 1].kind # "other"
      BY <1>1, <1>3
    <2>2. WrittenUpTo(s, i) = Written(MembersOf(s)[i - 1])
      BY <1>3 DEF WrittenUpTo
    <2>3. /\ Written(MembersOf(s)[i - 1]) \in Nat
          /\ Written(MembersOf(s)[i - 1]) % 4 = 0
      BY <2>1, WrittenFacts
    <2>4. i <= Len(MembersOf(s)) =>
            Written(MembersOf(s)[i - 1]) <= MembersOf(s)[i].offset
      BY <1>1, <1>3, <2>1, NextFits
    <2> QED
      BY <2>2, <2>3, <2>4
  <1> QED
    BY <1>2, <1>3

LEMMA InitLayout == Init => LayoutInv
  BY DEF Init, LayoutInv, SizesSay, FramesSay, LayoutAgrees, Range

\* A new frame has written nothing; its struct is not in the header yet.
LEMMA EnterLayout ==
  ASSUME IInv, LayoutInv, NEW t \in Struct, ~Cached(t), Enter(t),
         UNCHANGED <<fixed, of, of_cpp, status, sizeofs, comments>>
  PROVE  LayoutInv'
  <1>1. PICK n \in Nat : n = Len(stack)
    BY DEF IInv, TypeOK
  <1>2. /\ stack' = Append(stack, [s |-> t, i |-> 1, size |-> 0, cpp |-> 0])
        /\ generatedStructs' = With(generatedStructs, t, 0)
        /\ UNCHANGED <<prog, call, of, of_cpp, status, sizeofs, comments>>
    BY DEF Enter, fixed
  <1>3. /\ Len(stack') = n + 1
        /\ \A d \in 1 .. n : stack'[d] = stack[d]
        /\ stack'[n + 1] = [s |-> t, i |-> 1, size |-> 0, cpp |-> 0]
    BY <1>1, <1>2 DEF IInv, TypeOK
  <1> SUFFICES ASSUME Representable PROVE SizesSay' /\ FramesSay' /\ LayoutAgrees'
    BY <1>2, LayoutOfProgram DEF LayoutInv
  <1>4. SizesSay'
    <2>1. \A x \in Range(of) : x \in DOMAIN generatedStructs /\ x # t
      BY DEF IInv, CacheSplit, Cached
    <2>2. \A x \in Range(of) : generatedStructs'[x] = generatedStructs[x]
      BY <1>2, <2>1 DEF With
    <2> QED
      BY <1>2, <2>2 DEF LayoutInv, SizesSay
  <1>5. FramesSay'
    <2> SUFFICES ASSUME NEW d \in 1 .. n + 1
                 PROVE  /\ stack'[d].i <= Len(MembersOf(stack'[d].s)) + 1
                        /\ stack'[d].size = WrittenUpTo(stack'[d].s, stack'[d].i)
                        /\ stack'[d].cpp = stack'[d].size
                        /\ \A i \in 1 .. stack'[d].i - 1 :
                             MembersOf(stack'[d].s)[i].kind # "other"
      <3>1. /\ \A s : MembersOf(s)' = MembersOf(s)
            /\ \A s, i : WrittenUpTo(s, i)' = WrittenUpTo(s, i)
        BY <1>2, LayoutOfProgram
      <3> QED
        BY <1>3, <3>1 DEF FramesSay
    <2>1. CASE d = n + 1
      <3>1. MembersOf(t) \in Seq(Member)
        BY ProgramType DEF IInv
      <3> QED
        BY <1>3, <2>1, <3>1 DEF WrittenUpTo
    <2>2. CASE d \in 1 .. n
      BY <1>1, <1>3, <2>2 DEF LayoutInv, FramesSay
    <2> QED
      BY <2>1, <2>2
  <1> QED
    BY <1>2, <1>4, <1>5, LayoutOfProgram DEF LayoutInv, LayoutAgrees

\* A member is written at the offset at which HLSL has it, and its frame moves
\* on to where C++ is behind it.
LEMMA WriteMemberLayout == ASSUME IInv, LayoutInv, WriteMember PROVE LayoutInv'
  <1>1. prog' = prog
    BY DEF WriteMember, fixed
  <1> SUFFICES ASSUME Representable PROVE SizesSay' /\ FramesSay' /\ LayoutAgrees'
    BY <1>1, LayoutOfProgram DEF LayoutInv
  <1>2. AtMember /\ stack # << >> /\ Current.kind # "other"
        /\ (Current.kind = "struct" => Cached(Current.type))
    BY DEF WriteMember, AtMember
  <1>3. PICK n \in Nat \ {0} : n = Len(stack)
    BY <1>2, TopType DEF IInv
  <1>4. PICK f, m : f \in Frame /\ f = Top /\ f = stack[n] /\ m = Current
    BY <1>2, <1>3, TopType DEF IInv, Top
  <1>5. PICK s \in Struct, i \in Nat \ {0} :
          /\ s = f.s /\ i = f.i /\ i \in 1 .. Len(MembersOf(s)) /\ m = MembersOf(s)[i]
          /\ m \in Member
          /\ m.kind = "struct" => m.type < s
    <2>1. f.s \in Struct /\ f.i \in Nat \ {0}
      BY <1>4 DEF Frame
    <2> QED
      BY <1>2, <1>4, <2>1, CurrentType DEF IInv, Current
  <1>6. PICK w \in Nat, o \in Nat, x \in Nat, e \in Nat :
          w = WrittenUpTo(s, i) /\ o = m.offset /\ x = CppBytes(m) /\ e = m.elems
    <2>1. WrittenUpTo(s, i) \in Nat
      <3>1. \A k \in 1 .. i - 1 : MembersOf(s)[k].kind # "other"
        BY <1>3, <1>4, <1>5 DEF LayoutInv, FramesSay
      <3> QED
        BY <1>5, <3>1, WrittenSoFar DEF IInv
    <2> QED
      BY <1>5, <2>1, MemberSizes DEF IInv
  <1>7. f.size = w /\ f.cpp = w /\ w <= o /\ w % 4 = 0
    <2>1. /\ f.size = WrittenUpTo(s, i) /\ f.cpp = f.size
          /\ \A k \in 1 .. i - 1 : MembersOf(s)[k].kind # "other"
      <3>1. FramesSay
        BY <1>3 DEF LayoutInv
      <3>2. n \in 1 .. Len(stack)
        BY <1>3
      <3>3. /\ stack[n].size = WrittenUpTo(stack[n].s, stack[n].i) /\ stack[n].cpp = stack[n].size
            /\ \A k \in 1 .. stack[n].i - 1 : MembersOf(stack[n].s)[k].kind # "other"
        BY <3>1, <3>2, Zenon DEF FramesSay
      <3> QED
        BY <1>4, <1>5, <3>3
    <2>2. WrittenUpTo(s, i) % 4 = 0 /\ WrittenUpTo(s, i) <= MembersOf(s)[i].offset
      BY <1>5, <2>1, WrittenSoFar DEF IInv
    <2> QED
      BY <1>5, <1>6, <2>1, <2>2
  <1>8. /\ Written(m) = o + Times(x, e) /\ Written(m) + 16 <= UINT_MOD
        /\ o % 4 = 0 /\ (e > 1 => x % 16 = 0) /\ Times(x, e) \in Nat
    <2>1. o % 4 = 0
      BY <1>5, <1>6, MemberSizes DEF IInv
    <2>2. e > 1 => x % 16 = 0
      <3>1. CASE m.kind = "struct"
        <4>1. x = Aligned(BytesOf(m)) /\ BytesOf(m) \in Nat
          BY <1>5, <1>6, <3>1, MemberSizes DEF IInv
        <4> QED
          BY <4>1, AlignedFacts
      <3>2. CASE m.kind # "struct"
        <4>1. m.kind = "plain"
          BY <1>2, <1>4, <1>5, <3>2 DEF Member
        <4>2. m.elems > 1 => BytesOf(m) % 16 = 0
          BY <1>5, <3>2, <4>1, MemberSizes DEF IInv
        <4>3. x = BytesOf(m)
          BY <1>6, <3>2 DEF CppBytes
        <4> QED
          BY <1>6, <4>2, <4>3
      <3> QED
        BY <3>1, <3>2
    <2>3. Written(m) + 16 <= UINT_MOD
      BY <1>2, <1>4, <1>5, WrittenBelow DEF IInv
    <2> QED
      BY <1>6, <2>1, <2>2, <2>3, TimesType DEF Written
  <1>9. ElementSize = x /\ ElementCpp = x
    <2>1. CASE m.kind = "struct"
      <3>1. m.type \in Struct /\ m.type < Top.s
        BY <1>4, <1>5, <2>1 DEF Member
      <3>2. m.type \notin OnStack
        BY <1>2, <3>1, EarlierNotOnStack DEF IInv
      <3>3. m.type \in Range(of)
        BY <1>2, <1>4, <2>1, <3>2 DEF Cached, CacheSplit, IInv
      <3>4. x = Aligned(prog.spans[m.type])
        BY <1>6, <2>1 DEF CppBytes, BytesOf
      <3> QED
        BY <1>4, <2>1, <3>3, <3>4 DEF LayoutInv, SizesSay, ElementSize, ElementCpp
    <2>2. CASE m.kind # "struct"
      BY <1>4, <1>6, <2>2 DEF CppBytes, BytesOf, ElementSize, ElementCpp
    <2> QED
      BY <2>1, <2>2
  <1>10. Extent(x, e) = Times(x, e)
    <2>1. Times(x, e) + 16 <= UINT_MOD
      BY <1>8
    <2> QED
      BY <1>8, <2>1, ExtentIs
  <1>11. w + 4 * Dummies(o, w) = o
    <2>1. o < UINT_MOD
      BY <1>8
    <2> QED
      BY <1>7, <1>8, <2>1, DummiesFill
  <1>12. Uint(o + Times(x, e)) = Written(m)
    <2>1. o + Times(x, e) \in Nat /\ o + Times(x, e) < UINT_MOD
      BY <1>8
    <2> QED
      BY <1>8, <2>1, UintIs
  <1>13. /\ stack' = Append(Below, [s |-> s, i |-> i + 1, size |-> Written(m),
                                    cpp |-> Written(m)])
         /\ comments' = comments \cup
              {[s |-> s, i |-> i, offset |-> o, size |-> Times(x, e), cpp |-> o]}
         /\ UNCHANGED <<prog, call, generatedStructs, of, of_cpp, status, sizeofs>>
    <2>1. Extent(ElementSize, Current.elems) = Times(x, e)
          /\ Times(ElementCpp, Current.elems) = Times(x, e)
          /\ Top.cpp + 4 * Dummies(Current.offset, Top.size) = o
          /\ Top.s = s /\ Top.i = i /\ Current.offset = o
      BY <1>4, <1>5, <1>6, <1>7, <1>9, <1>10, <1>11
    <2> QED
      BY <1>8, <1>12, <2>1 DEF WriteMember, fixed
  <1>14. /\ Len(stack') = n /\ stack'[n] = [s |-> s, i |-> i + 1, size |-> Written(m),
                                            cpp |-> Written(m)]
         /\ \A d \in 1 .. n - 1 : stack'[d] = stack[d]
    <2>1. /\ Below \in Seq(Frame) /\ Len(Below) = n - 1
          /\ \A d \in 1 .. n - 1 : Below[d] = stack[d]
      BY <1>3, SMTT(30) DEF IInv, TypeOK, Below
    <2> QED
      BY <1>3, <1>13, <2>1, SMTT(30)
  <1>15. SizesSay'
    BY <1>13 DEF LayoutInv, SizesSay
  <1>16. FramesSay'
    <2>1. /\ \A y : MembersOf(y)' = MembersOf(y)
          /\ \A y, j : WrittenUpTo(y, j)' = WrittenUpTo(y, j)
      BY <1>13, LayoutOfProgram
    <2> SUFFICES ASSUME NEW d \in 1 .. n
                 PROVE  /\ stack'[d].i <= Len(MembersOf(stack'[d].s)) + 1
                        /\ stack'[d].size = WrittenUpTo(stack'[d].s, stack'[d].i)
                        /\ stack'[d].cpp = stack'[d].size
                        /\ \A j \in 1 .. stack'[d].i - 1 :
                             MembersOf(stack'[d].s)[j].kind # "other"
      BY <1>14, <2>1 DEF FramesSay
    <2>2. CASE d = n
      <3>1. /\ stack'[d].s = s /\ stack'[d].i = i + 1
            /\ stack'[d].size = Written(m) /\ stack'[d].cpp = Written(m)
        BY <1>14, <2>2
      <3>2. WrittenUpTo(s, i + 1) = Written(m)
        BY <1>5 DEF WrittenUpTo
      <3>3. \A j \in 1 .. i - 1 : MembersOf(s)[j].kind # "other"
        BY <1>3, <1>4, <1>5 DEF LayoutInv, FramesSay
      <3>4. \A j \in 1 .. (i + 1) - 1 : MembersOf(s)[j].kind # "other"
        BY <1>2, <1>4, <1>5, <3>3
      <3>5. i + 1 <= Len(MembersOf(s)) + 1
        <4>1. MembersOf(s) \in Seq(Member)
          BY ProgramType DEF IInv
        <4> QED
          BY <1>5, <4>1
      <3> QED
        BY <3>1, <3>2, <3>4, <3>5
    <2>3. CASE d \in 1 .. n - 1
      BY <1>3, <1>14, <2>3 DEF LayoutInv, FramesSay
    <2> QED
      BY <2>2, <2>3
  <1>17. LayoutAgrees'
    <2>1. \A c \in comments' : c \in comments \/ (c.offset = o /\ c.cpp = o)
      BY <1>13
    <2>2. \A c \in comments : c.offset = c.cpp
      BY DEF LayoutInv, LayoutAgrees
    <2> QED
      BY <2>1, <2>2 DEF LayoutAgrees
  <1> QED
    BY <1>15, <1>16, <1>17

\* A complete struct is padded to whole registers, which is what the cache says
\* of it.
LEMMA EndStructLayout == ASSUME IInv, LayoutInv, EndStruct PROVE LayoutInv'
  <1>1. prog' = prog /\ stack # << >> /\ Top.i > Len(MembersOf(Top.s))
    BY DEF EndStruct
  <1> SUFFICES ASSUME Representable PROVE SizesSay' /\ FramesSay' /\ LayoutAgrees'
    BY <1>1, LayoutOfProgram DEF LayoutInv
  <1>2. PICK n \in Nat \ {0} : n = Len(stack)
    BY <1>1, TopType DEF IInv
  <1>3. PICK f \in Frame : f = Top /\ f = stack[n]
    BY <1>1, <1>2, TopType DEF IInv, Top
  <1>4. PICK s \in Struct, j \in Nat :
          /\ s = f.s /\ j = Len(MembersOf(s)) /\ j > 0 /\ f.i = j + 1
          /\ \A k \in 1 .. j : MembersOf(s)[k].kind # "other"
    <2>1. f.s \in Struct /\ f.i \in Nat \ {0}
      BY DEF Frame
    <2>2. MembersOf(f.s) \in Seq(Member) /\ MembersOf(f.s) # << >>
      BY <2>1, ProgramType DEF IInv, Representable
    <2>3. PICK j \in Nat : j = Len(MembersOf(f.s)) /\ j > 0
      BY <2>2
    <2>4. f.i <= j + 1 /\ f.i > j
      BY <1>1, <1>2, <1>3, <2>3 DEF LayoutInv, FramesSay
    <2>5. f.i = j + 1
      BY <2>1, <2>4
    <2>6. \A k \in 1 .. f.i - 1 : MembersOf(f.s)[k].kind # "other"
      BY <1>2, <1>3 DEF LayoutInv, FramesSay
    <2>7. \A k \in 1 .. j : MembersOf(f.s)[k].kind # "other"
      BY <2>5, <2>6
    <2> QED
      BY <2>1, <2>3, <2>5, <2>7
  <1>5. PICK m : m = MembersOf(s)[j]
    OBVIOUS
  <1>6. j \in 1 .. Len(MembersOf(s)) /\ m.kind # "other"
    BY <1>4, <1>5
  <1>7. PICK w \in Nat, e \in Nat :
          /\ w = Written(m) /\ e = EndsAt(m) /\ w % 4 = 0 /\ w + 16 <= UINT_MOD
          /\ w = Aligned(e) \/ w = e
    BY <1>5, <1>6, WrittenFacts, WrittenBelow DEF IInv
  <1>8. PICK a \in Nat :
          /\ a = Aligned(w) /\ a = Aligned(e) /\ w <= a /\ a <= w + 15 /\ a % 4 = 0
    <2>1. Aligned(w) = Aligned(e)
      <3>1. CASE w = e
        BY <3>1
      <3>2. CASE w = Aligned(e)
        <4>1. w % 16 = 0
          BY <3>2, AlignedFacts
        <4> QED
          BY <3>2, <4>1, AlignedFacts
      <3> QED
        BY <1>7, <3>1, <3>2
    <2> QED
      BY <2>1, AlignedFacts
  <1>9. f.size = w /\ f.cpp = w
    <2>1. f.size = WrittenUpTo(s, f.i) /\ f.cpp = f.size
      BY <1>2, <1>3, <1>4 DEF LayoutInv, FramesSay
    <2>2. WrittenUpTo(s, j + 1) = w
      BY <1>4, <1>5, <1>7 DEF WrittenUpTo
    <2> QED
      BY <1>4, <2>1, <2>2
  <1>10. Rounded(w) = a
    BY <1>7, <1>8, RoundedIs
  <1>11. w + 4 * Dummies(a, w) = a
    <2>1. a < UINT_MOD
      BY <1>7, <1>8
    <2> QED
      BY <1>7, <1>8, <2>1, DummiesFill
  <1>12. prog.spans[s] = e
    BY <1>4, <1>5, <1>7 DEF Representable, Packed
  <1>13. /\ generatedStructs' = With(generatedStructs, s, a)
         /\ sizeofs' = With(sizeofs, s, a)
         /\ stack' = Below /\ comments' = comments
    BY <1>3, <1>4, <1>9, <1>10, <1>11 DEF EndStruct, Store, Trailing
  <1>14. Range(of') = Range(of) \cup {s} /\ s \notin Range(of)
    BY <1>3, <1>4, EndStructEmits
  <1>15. SizesSay'
    <2>1. ASSUME NEW t \in Range(of')
          PROVE  generatedStructs'[t] = Aligned(prog.spans[t])
                 /\ sizeofs'[t] = Aligned(prog.spans[t])
      <3>1. CASE t = s
        BY <1>8, <1>12, <1>13, <3>1 DEF With
      <3>2. CASE t # s
        <4>1. t \in Range(of)
          BY <1>14, <2>1, <3>2
        <4>2. t \in DOMAIN generatedStructs /\ t \in DOMAIN sizeofs
          BY <4>1 DEF IInv, CacheSplit, TypeOK
        <4>3. generatedStructs'[t] = generatedStructs[t] /\ sizeofs'[t] = sizeofs[t]
          BY <1>13, <3>2, <4>2 DEF With
        <4> QED
          BY <4>1, <4>3 DEF LayoutInv, SizesSay
      <3> QED
        BY <3>1, <3>2
    <2> QED
      BY <1>1, <2>1 DEF SizesSay
  <1>16. FramesSay'
    <2>1. /\ \A y : MembersOf(y)' = MembersOf(y)
          /\ \A y, i : WrittenUpTo(y, i)' = WrittenUpTo(y, i)
      BY <1>1, LayoutOfProgram
    <2>2. Len(stack') = n - 1 /\ \A d \in 1 .. n - 1 : stack'[d] = stack[d]
      BY <1>2, <1>13 DEF IInv, TypeOK, Below
    <2>3. \A d \in 1 .. n - 1 : d \in 1 .. n
      OBVIOUS
    <2> QED
      BY <1>2, <2>1, <2>2, <2>3 DEF LayoutInv, FramesSay
  <1> QED
    BY <1>13, <1>15, <1>16 DEF LayoutInv, LayoutAgrees

LEMMA NextLayout == IInv /\ LayoutInv /\ [Next]_vars => LayoutInv'
  <1> SUFFICES ASSUME IInv, LayoutInv, [Next]_vars PROVE LayoutInv'
    OBVIOUS
  <1>1. CASE CallNew
    <2>1. prog.calls[call].type \in Struct
      <3>1. prog.calls \in Seq([type : Struct, meta : BOOLEAN]) /\ prog \in Program
        BY ProgramsAssumption DEF IInv, Program
      <3>2. call \in 1 .. Len(prog.calls)
        BY <1>1, <3>1 DEF CallNew, IInv, TypeOK
      <3>3. \A S, q : q \in Seq(S) => \A k \in 1 .. Len(q) : q[k] \in S
        OBVIOUS
      <3>4. prog.calls[call] \in [type : Struct, meta : BOOLEAN]
        BY <3>1, <3>2, <3>3
      <3> QED
        BY <3>4
    <2> QED
      BY <1>1, <2>1, EnterLayout DEF CallNew
  <1>2. CASE MemberNew
    <2>1. Current.type \in Struct
      BY <1>2, CurrentType DEF MemberNew, IInv, Member
    <2> QED
      BY <1>2, <2>1, EnterLayout DEF MemberNew
  <1>3. CASE WriteMember
    BY <1>3, WriteMemberLayout
  <1>4. CASE EndStruct
    BY <1>4, EndStructLayout
  <1>5. CASE CallCached \/ MemberUnsupported \/ ReflectionFails \/ Complete
             \/ UNCHANGED vars
    <2>1. UNCHANGED <<prog, stack, generatedStructs, of, sizeofs, comments>>
      BY <1>5 DEF CallCached, MemberUnsupported, ReflectionFails, Complete, fixed, vars
    <2>2. /\ Representable' = Representable
          /\ \A y : MembersOf(y)' = MembersOf(y)
          /\ \A y, i : WrittenUpTo(y, i)' = WrittenUpTo(y, i)
      BY <2>1, LayoutOfProgram
    <2> QED
      BY <2>1, <2>2 DEF LayoutInv, SizesSay, FramesSay, LayoutAgrees
  <1> QED
    BY <1>1, <1>2, <1>3, <1>4, <1>5 DEF Next, Progress, Stopped

LEMMA LayoutHolds == Spec => [](IInv /\ LayoutInv)
  BY Invariant, InitLayout, NextLayout, PTL DEF Spec

-------------------------------------------------------------------------------
(* The theorems *)

\* Where C++ can follow HLSL's layout with paddings alone, every member of every
\* generated struct is in C++ at the offset at which HLSL has it.
THEOREM MembersAreInPlace == Spec => []LayoutAgrees
  <1>1. LayoutInv => LayoutAgrees
    BY DEF LayoutInv, LayoutAgrees
  <1> QED
    BY <1>1, LayoutHolds, PTL

\* A cached struct is written or being written, and where C++ can follow the
\* layout the size the cache gives for it is its sizeof.
THEOREM CachedSizesHold == Spec => []CacheHoldsSizeof
  <1>1. IInv /\ LayoutInv => CacheHoldsSizeof
    BY DEF IInv, CacheSplit, LayoutInv, SizesSay, CacheHoldsSizeof
  <1> QED
    BY <1>1, LayoutHolds, PTL
================================================================================
