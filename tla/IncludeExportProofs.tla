-------------------------- MODULE IncludeExportProofs --------------------------
(***************************************************************************)
(* Theorems about IncludeExport, for every set of files, every contents    *)
(* and both settings of the macro.  The invariants that matter are not     *)
(* inductive: that the root's macro is restored depends on what __keep     *)
(* remembers and on the macro being defined in every open include; that    *)
(* the root's functions are exported one by one depends on that.           *)
(***************************************************************************)
EXTENDS IncludeExport, TLAPS

\* The root is open below everything else, and nothing but includes above it.
Nesting ==
  /\ Len(stack) >= 1
  /\ stack[1].file = Root
  /\ \A d \in 2 .. Len(stack) : stack[d].file \in File

\* __keep remembers what the command line said, from the first include on.
KeepSays == keep # "undef" => (keep = "1" <=> source.defined)
Inside == Len(stack) > 1 => keep # "undef" /\ exportMacro

\* What was delivered has run its #pragma once.
LoadedOnly == \A k \in 1 .. Len(loaded) : loaded[k] \in once

IInv ==
  /\ TypeOK /\ Nesting
  /\ KeepSays /\ Inside /\ RootUndisturbed
  /\ IncludesStripped /\ OwnExportsExact
  /\ LoadedOnly /\ LoadedOnce

USE NamesAssumption, SourcesAssumption

\* The bodies of the open files are sequences of items.
LEMMA BodyType ==
  ASSUME TypeOK, Nesting
  PROVE  /\ Len(stack) \in Nat \ {0}
         /\ Top \in Frame
         /\ Body \in Seq(Item)
         /\ Len(Body) \in Nat
  <1>1. Len(stack) \in Nat \ {0} /\ Top \in Frame
    BY DEF TypeOK, Nesting, Top
  <1>2. Top.file \in File \cup {Root}
    BY <1>1 DEF Frame
  <1>3. Body \in Seq(Item)
    BY <1>2 DEF TypeOK, Body, Source
  <1> QED
    BY <1>1, <1>3

\* Moving on in the innermost file changes neither the files nor the nesting.
LEMMA AdvancedKeeps ==
  ASSUME TypeOK, Nesting
  PROVE  /\ Advanced \in Seq(Frame)
         /\ Len(Advanced) = Len(stack)
         /\ \A d \in 1 .. Len(stack) : Advanced[d].file = stack[d].file
         /\ Advanced[1].next = IF Len(stack) = 1 THEN stack[1].next + 1 ELSE stack[1].next
  <1>1. Top \in Frame /\ Len(stack) \in 1 .. Len(stack)
    BY BodyType DEF Nesting
  <1>2. [Top EXCEPT !.next = @ + 1] \in Frame
    BY <1>1 DEF Frame
  <1> QED
    BY <1>1, <1>2 DEF TypeOK, Advanced, Frame, Top

\* Reading on adds an item of the source file to those read, if none is open above it.
LEMMA OwnFunctionsGrow ==
  ASSUME TypeOK, Nesting, UNCHANGED source,
         stack'[1].next = IF Len(stack) = 1 THEN stack[1].next + 1 ELSE stack[1].next
  PROVE  OwnFunctions' = IF Len(stack) = 1 /\ Body[Top.next] = Export THEN OwnFunctions \cup {Top.next}
                         ELSE OwnFunctions
  <1>1. stack[1].next \in Nat \ {0}
    <2>1. stack[1] \in Frame
      BY DEF TypeOK, Nesting
    <2> QED
      BY <2>1 DEF Frame
  <1>2. CASE Len(stack) = 1
    <2>1. Top = stack[1] /\ Body = source.body[Root]
      BY <1>2 DEF Top, Body, Nesting
    <2>2. stack'[1].next - 1 = stack[1].next
      BY <1>1, <1>2
    <2>3. 1 .. stack[1].next = (1 .. stack[1].next - 1) \cup {stack[1].next}
      BY <1>1
    <2> QED
      BY <1>2, <2>1, <2>2, <2>3 DEF OwnFunctions
  <1>3. CASE Len(stack) # 1
    BY <1>3 DEF OwnFunctions
  <1> QED
    BY <1>2, <1>3

\* The inductive invariant holds initially.
LEMMA InitIInv == Init => IInv
  <1> SUFFICES ASSUME Init PROVE IInv
    OBVIOUS
  <1>1. TypeOK
    <2>1. source \in Source /\ source.defined \in BOOLEAN
      BY DEF Init, Source
    <2>2. stack \in Seq(Frame) /\ loaded \in Seq(File)
      BY DEF Init, Frame
    <2>3. exportMacro \in BOOLEAN
      BY <2>1 DEF Init
    <2> QED
      BY <2>1, <2>2, <2>3 DEF Init, TypeOK
  <1>2. Nesting /\ KeepSays /\ Inside /\ RootUndisturbed
    BY DEF Init, Nesting, KeepSays, Inside, RootUndisturbed
  <1>3. OwnExportsExact
    BY DEF Init, OwnExportsExact, OwnFunctions
  <1> QED
    BY <1>1, <1>2, <1>3 DEF Init, IInv, IncludesStripped, LoadedOnly, LoadedOnce

\* Every step preserves it.
LEMMA NextIInv == IInv /\ [Next]_vars => IInv'
  <1> SUFFICES ASSUME IInv, [Next]_vars PROVE IInv'
    OBVIOUS
  <1> USE DEF IInv
  <1>0. PICK n \in Nat \ {0} : n = Len(stack)
    BY BodyType
  <1>1. CASE IncludeNew
    <2> DEFINE f == Body[Top.next]
    <2>1. f \in File /\ f \notin once
      BY <1>1 DEF IncludeNew
    <2>2. /\ stack' = Append(Advanced, [file |-> f, next |-> 1])
          /\ once' = once \cup {f}
          /\ keep' = PrefixKeep
          /\ exportMacro' = PrefixExport(Level + 1)
          /\ loaded' = Append(loaded, f)
          /\ UNCHANGED <<source, status, exported>>
      BY <1>1 DEF IncludeNew, Once
    <2>3. /\ Advanced \in Seq(Frame) /\ Len(Advanced) = Len(stack)
          /\ \A d \in 1 .. Len(stack) : Advanced[d].file = stack[d].file
      BY AdvancedKeeps
    <2>4. /\ stack' \in Seq(Frame) /\ Len(stack') = Len(stack) + 1
          /\ \A d \in 1 .. Len(stack) : stack'[d].file = stack[d].file
          /\ stack'[Len(stack) + 1].file = f
          /\ stack'[1] = Advanced[1]
      BY <1>0, <2>1, <2>2, <2>3 DEF Frame
    <2>5. TypeOK'
      BY <2>1, <2>2, <2>4 DEF TypeOK, PrefixKeep, PrefixExport
    <2>6. Nesting'
      BY <2>1, <2>4 DEF Nesting
    <2>7. exportMacro' /\ keep' # "undef"
      <3>1. Level + 1 = 1 \/ Len(stack) > 1
        BY <1>0 DEF Level
      <3>2. exportMacro'
        BY <2>2, <3>1 DEF PrefixExport, Inside
      <3>3. keep' # "undef"
        BY <2>2 DEF PrefixKeep
      <3> QED
        BY <3>2, <3>3
    <2>8. KeepSays'
      <3>1. CASE keep = "undef"
        <4>1. Len(stack) = 1
          BY <1>0, <3>1 DEF Inside
        <4>2. exportMacro = source.defined
          BY <4>1 DEF RootUndisturbed
        <4>3. keep' = IF exportMacro THEN "1" ELSE "0"
          BY <2>2, <3>1 DEF PrefixKeep
        <4>4. keep' = "1" <=> exportMacro
          BY <4>3
        <4> QED
          BY <2>2, <4>2, <4>4 DEF KeepSays
      <3>2. CASE keep # "undef"
        BY <2>2, <3>2 DEF PrefixKeep, KeepSays
      <3> QED
        BY <3>1, <3>2
    <2>9. Inside' /\ RootUndisturbed' /\ IncludesStripped'
      BY <2>2, <2>4, <2>7, BodyType DEF Inside, RootUndisturbed, IncludesStripped
    <2>10. LoadedOnly' /\ LoadedOnce'
      BY <2>1, <2>2 DEF LoadedOnly, LoadedOnce, TypeOK
    <2>11. OwnExportsExact'
      <3>1. OwnFunctions' = OwnFunctions
        BY <2>1, <2>2, <2>4, AdvancedKeeps, OwnFunctionsGrow
      <3> QED
        BY <2>2, <3>1 DEF OwnExportsExact
    <2> QED
      BY <2>5, <2>6, <2>8, <2>9, <2>10, <2>11
  <1>2. CASE IncludeFails
    BY <1>2 DEF IncludeFails, TypeOK, Nesting, KeepSays, Inside, RootUndisturbed,
                IncludesStripped, OwnExportsExact, OwnFunctions, LoadedOnly, LoadedOnce
  <1>3. CASE IncludeAgain \/ ExportFunction
    <2>1. /\ stack' = Advanced
          /\ UNCHANGED <<source, once, exportMacro, keep, status, loaded>>
      BY <1>3 DEF IncludeAgain, ExportFunction
    <2>2. /\ stack' \in Seq(Frame) /\ Len(stack') = Len(stack)
          /\ \A d \in 1 .. Len(stack) : stack'[d].file = stack[d].file
      BY <2>1, AdvancedKeeps
    <2>3. exported' = exported \/ (~exportMacro /\ exported' = exported \cup {<<Top.file, Top.next>>})
      BY <1>3 DEF IncludeAgain, ExportFunction
    <2>4. ~exportMacro => Top.file = Root
      BY BodyType DEF Inside, Nesting, Top
    <2>5. IncludesStripped' /\ exported' \subseteq (File \cup {Root}) \X (Nat \ {0})
      <3>1. Top \in Frame
        BY BodyType
      <3>2. Top.file \in File \cup {Root} /\ Top.next \in Nat \ {0}
        BY <3>1 DEF Frame
      <3> QED
        BY <2>3, <2>4, <3>2 DEF IncludesStripped, TypeOK
    <2>6. TypeOK'
      BY <2>1, <2>2, <2>5 DEF TypeOK
    <2>7. Nesting'
      <3>1. \A d \in 1 .. n : stack'[d].file = stack[d].file
        BY <1>0, <2>2
      <3> QED
        BY <1>0, <2>2, <3>1 DEF Nesting
    <2>8. OwnExportsExact'
      <3>1. OwnFunctions' = IF Len(stack) = 1 /\ Body[Top.next] = Export THEN OwnFunctions \cup {Top.next}
                            ELSE OwnFunctions
        BY <2>1, AdvancedKeeps, OwnFunctionsGrow
      <3>2. CASE Len(stack) = 1 /\ Body[Top.next] = Export
        <4>1. exported' = IF exportMacro THEN exported ELSE exported \cup {<<Root, Top.next>>}
          <5>1. ExportFunction
            BY <1>3, <3>2, NamesAssumption DEF IncludeAgain, TypeOK
          <5>2. Top.file = Root
            BY <3>2 DEF Top, Nesting
          <5> QED
            BY <5>1, <5>2 DEF ExportFunction
        <4>2. exportMacro = source.defined
          BY <3>2 DEF RootUndisturbed
        <4>3. OwnFunctions' = OwnFunctions \cup {Top.next}
          BY <3>1, <3>2
        <4>4. CASE source.defined
          BY <2>1, <4>1, <4>2, <4>4 DEF OwnExportsExact
        <4>5. CASE ~source.defined
          <5>1. {e \in exported' : e[1] = Root} = {e \in exported : e[1] = Root} \cup {<<Root, Top.next>>}
            BY <4>1, <4>2, <4>5
          <5>2. {e \in exported : e[1] = Root} = {Root} \X OwnFunctions
            BY <4>5 DEF OwnExportsExact
          <5>3. {Root} \X OwnFunctions' = ({Root} \X OwnFunctions) \cup {<<Root, Top.next>>}
            BY <4>3
          <5> QED
            BY <2>1, <4>5, <5>1, <5>2, <5>3 DEF OwnExportsExact
        <4> QED
          BY <4>4, <4>5
      <3>3. CASE Len(stack) # 1
        <4>1. exportMacro
          BY <1>0, <3>3 DEF Inside
        <4>2. exported' = exported
          BY <1>3, <4>1 DEF IncludeAgain, ExportFunction
        <4> QED
          BY <2>1, <3>1, <3>3, <4>2 DEF OwnExportsExact
      <3>4. CASE Body[Top.next] # Export
        <4>1. exported' = exported
          BY <1>3, <3>4 DEF IncludeAgain, ExportFunction
        <4> QED
          BY <2>1, <3>1, <3>4, <4>1 DEF OwnExportsExact
      <3> QED
        BY <3>2, <3>3, <3>4
    <2> QED
      BY <2>1, <2>2, <2>5, <2>6, <2>7, <2>8
         DEF KeepSays, Inside, RootUndisturbed, LoadedOnly, LoadedOnce
  <1>4. CASE EndInclude
    <2>1. /\ Len(stack) > 1
          /\ stack' = Below
          /\ exportMacro' = SuffixExport
          /\ UNCHANGED <<source, once, keep, status, exported, loaded>>
      BY <1>4 DEF EndInclude
    <2>2. /\ stack' \in Seq(Frame) /\ Len(stack') = Len(stack) - 1
          /\ \A d \in 1 .. Len(stack) - 1 : stack'[d] = stack[d]
      BY <2>1, BodyType DEF Below, TypeOK
    <2>3. TypeOK' /\ Nesting'
      BY <2>1, <2>2, BodyType DEF TypeOK, Nesting, SuffixExport
    <2>4. Inside'
      <3> SUFFICES ASSUME Len(stack') > 1 PROVE keep' # "undef" /\ exportMacro'
        BY DEF Inside
      <3>1. Level # 1
        BY <2>2, BodyType DEF Level
      <3>2. keep # "undef" /\ exportMacro
        BY <2>1 DEF Inside
      <3> QED
        BY <2>1, <3>1, <3>2 DEF SuffixExport
    <2>5. RootUndisturbed'
      BY <2>1, <2>2, BodyType DEF RootUndisturbed, SuffixExport, Level, Inside, KeepSays, TypeOK, Source
    <2>6. OwnExportsExact'
      BY <2>1, <2>2 DEF OwnExportsExact, OwnFunctions
    <2> QED
      BY <2>1, <2>3, <2>4, <2>5, <2>6 DEF KeepSays, IncludesStripped, LoadedOnly, LoadedOnce
  <1>5. CASE EndRoot
    BY <1>5 DEF EndRoot, TypeOK, Nesting, KeepSays, Inside, RootUndisturbed,
                IncludesStripped, OwnExportsExact, OwnFunctions, LoadedOnly, LoadedOnce
  <1>6. CASE UNCHANGED vars
    BY <1>6 DEF vars, TypeOK, Nesting, KeepSays, Inside, RootUndisturbed,
                IncludesStripped, OwnExportsExact, OwnFunctions, LoadedOnly, LoadedOnce
  <1> QED
    BY <1>1, <1>2, <1>3, <1>4, <1>5, <1>6 DEF Next, Stopped

LEMMA Invariant == Spec => []IInv
  BY InitIInv, NextIInv, PTL DEF Spec

\* The variables keep their types, whatever the files hold.
THEOREM TypeCorrect == Spec => []TypeOK
  BY Invariant, PTL DEF IInv

\* No included file exports a function, through any nesting of includes.
THEOREM IncludesAreStripped == Spec => []IncludesStripped
  BY Invariant, PTL DEF IInv

\* The source file finds the macro as the command line defined it, after any
\* sequence of includes.
THEOREM RootIsUndisturbed == Spec => []RootUndisturbed
  BY Invariant, PTL DEF IInv

\* LoadSource never delivers a file twice to one compilation.
THEOREM FilesLoadedOnce == Spec => []LoadedOnce
  BY Invariant, PTL DEF IInv

\* The source file's own functions are exported one by one where generateCPP compiles
\* it and not at all where transpile does, for any includes before each of them.
THEOREM OwnExportsAreExact == Spec => []OwnExportsExact
  BY Invariant, PTL DEF IInv
================================================================================
