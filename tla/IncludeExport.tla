----------------------------- MODULE IncludeExport -----------------------------
(***************************************************************************)
(* IncludeHandler::LoadSource of main.cpp: the text it puts around every   *)
(* included file, as the preprocessor carries it out.  The text makes the  *)
(* macro "export" erase the keyword of that name inside included files,    *)
(* and must leave the main file's own exports as they were: erased where   *)
(* transpile defines the macro, kept where generateCPP does not.           *)
(*                                                                         *)
(* The preprocessor and the default include handler belong to DXC: they    *)
(* are external, and modelled as far as the text makes use of them.        *)
(***************************************************************************)
EXTENDS Integers, Sequences

CONSTANTS
  File,       \* the files that can be included
  Root,       \* the source file itself, which is compiled from a buffer
  Sources     \* what the files hold, and whether -D export= is given

\* Of a file only the order of its #includes and of its exported functions is
\* kept: an included file, or the keyword.
Export == "export"
Item == File \cup {Export}
Source == [body : [File \cup {Root} -> Seq(Item)], defined : BOOLEAN]

ASSUME NamesAssumption == Root \notin File /\ Export \notin File
ASSUME SourcesAssumption == Sources \subseteq Source

VARIABLES
  source,      \* the files and the command line
  stack,       \* the open files and the next item of each, the root first
  once,        \* the files that have executed #pragma once
  exportMacro, \* the macro export is defined
  keep,        \* the macro __keep: "undef", "0" or "1"
  status,      \* "running", "done" or "failed"
  exported,    \* history: the functions exported, by file and place in it
  loaded       \* history: the files LoadSource delivered, in order

vars == <<source, stack, once, exportMacro, keep, status, exported, loaded>>

Frame == [file : File \cup {Root}, next : Nat \ {0}]

TypeOK ==
  /\ source \in Source
  /\ stack \in Seq(Frame)
  /\ once \subseteq File
  /\ exportMacro \in BOOLEAN
  /\ keep \in {"undef", "0", "1"}
  /\ status \in {"running", "done", "failed"}
  /\ exported \subseteq (File \cup {Root}) \X (Nat \ {0})
  /\ loaded \in Seq(File)

Init ==
  /\ source \in Sources
  /\ stack = <<[file |-> Root, next |-> 1]>>
  /\ once = {}
  /\ exportMacro = source.defined
  /\ keep = "undef"
  /\ status = "running"
  /\ exported = {}
  /\ loaded = << >>

Top == stack[Len(stack)]
Body == source.body[Top.file]
Below == SubSeq(stack, 1, Len(stack) - 1)
Advanced == [stack EXCEPT ![Len(stack)].next = @ + 1]
AtItem == status = "running" /\ Top.next <= Len(Body)

\* __INCLUDE_LEVEL__ : 0 in the root.
Level == Len(stack) - 1

-------------------------------------------------------------------------------
(* The text *)

\* #pragma once.  Mutant: it is missing.
WithoutOnce(f) == once
Once(f) == once \cup {f}

\* #ifndef __keep ... #define __keep 1 / 0
\* Mutant: without the #ifndef.
KeepEachTime == IF exportMacro THEN "1" ELSE "0"
\* Mutant: the macro is defined to nothing.
KeepNothing == IF keep # "undef" THEN keep ELSE IF exportMacro THEN "" ELSE "0"
PrefixKeep == IF keep # "undef" THEN keep ELSE IF exportMacro THEN "1" ELSE "0"

\* #if __INCLUDE_LEVEL__ == 1, #define export.  level is the included file's.
PrefixExport(level) == exportMacro \/ level = 1

\* #if __INCLUDE_LEVEL__ == 1 && __keep == 0, #undef export
\* Mutant: at every level.
SuffixAnyLevel == exportMacro /\ keep # "0"
\* Mutant: __keep is not asked for.
SuffixAlways == exportMacro /\ Level # 1
SuffixExport == exportMacro /\ ~(Level = 1 /\ keep = "0")

-------------------------------------------------------------------------------
(* Actions *)

\* The default handler finds the file and LoadSource wraps it.
IncludeNew ==
  /\ AtItem /\ Body[Top.next] \in File \ once
  /\ LET f == Body[Top.next]
     IN  /\ stack' = Append(Advanced, [file |-> f, next |-> 1])
         /\ once' = Once(f)
         /\ keep' = PrefixKeep
         /\ exportMacro' = PrefixExport(Level + 1)
         /\ loaded' = Append(loaded, f)
  /\ UNCHANGED <<source, status, exported>>

\* The default handler or CreateBlob fails, and with it the compilation.
IncludeFails ==
  /\ AtItem /\ Body[Top.next] \in File \ once
  /\ status' = "failed"
  /\ UNCHANGED <<source, stack, once, exportMacro, keep, exported, loaded>>

\* The file has run #pragma once.
IncludeAgain ==
  /\ AtItem /\ Body[Top.next] \in once
  /\ stack' = Advanced
  /\ UNCHANGED <<source, once, exportMacro, keep, status, exported, loaded>>

\* An exported function: the macro, where it is defined, erases the keyword.
ExportFunction ==
  /\ AtItem /\ Body[Top.next] = Export
  /\ exported' = IF exportMacro THEN exported ELSE exported \cup {<<Top.file, Top.next>>}
  /\ stack' = Advanced
  /\ UNCHANGED <<source, once, exportMacro, keep, status, loaded>>

EndInclude ==
  /\ status = "running" /\ Top.next > Len(Body) /\ Len(stack) > 1
  /\ exportMacro' = SuffixExport
  /\ stack' = Below
  /\ UNCHANGED <<source, once, keep, status, exported, loaded>>

EndRoot ==
  /\ status = "running" /\ Top.next > Len(Body) /\ Len(stack) = 1
  /\ status' = "done"
  /\ UNCHANGED <<source, stack, once, exportMacro, keep, exported, loaded>>

Stopped == status # "running" /\ UNCHANGED vars

Next ==
  \/ IncludeNew \/ IncludeFails \/ IncludeAgain \/ ExportFunction
  \/ EndInclude \/ EndRoot \/ Stopped

Spec == Init /\ [][Next]_vars

-------------------------------------------------------------------------------
(* Properties *)

\* No included file exports a function, whatever includes what: this is what
\* the prefix is for, and what generateCPP relies on to find the entry points
\* of the source file only.
IncludesStripped == \A e \in exported : e[1] = Root

\* Back in the source file the macro is as the command line left it, after any
\* includes: its own functions are exported exactly where they should be.
RootUndisturbed == Len(stack) = 1 => exportMacro = source.defined

\* No file is delivered twice, so that cyclic includes come to an end.
LoadedOnce == \A k, l \in 1 .. Len(loaded) : loaded[k] = loaded[l] => k = l

\* Of the functions that the source file exports, as far as it has been read, all
\* are exported where generateCPP compiles it and none where transpile does, one by
\* one, whichever includes came before each and however deep they went.
OwnFunctions == {k \in 1 .. stack[1].next - 1 : source.body[Root][k] = Export}
OwnExportsExact ==
  {e \in exported : e[1] = Root} = IF source.defined THEN {} ELSE {Root} \X OwnFunctions
================================================================================
