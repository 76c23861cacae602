-------------------------------- MODULE Driver --------------------------------
(***************************************************************************)
(* main() and transpile() of main.cpp: the two passes over the command     *)
(* line, the map of profiles to entry points, the loop over its jobs, the  *)
(* HLSL-to-SPIR-V compilation of each job and the loop over the targets,   *)
(* down to the exit code.                                                  *)
(*                                                                         *)
(* argv holds the arguments after the program's name, so that position k   *)
(* here is argv[k] there.  Each back end is one action that may end in any *)
(* of the ways its code can end; the compiler (DXC) is external.           *)
(***************************************************************************)
EXTENDS Integers, Sequences

CONSTANTS
  Word,      \* the strings: arguments, profiles and the names of functions
  Argvs,     \* the command lines considered
  Exports    \* what generateCPP can return: entry points by profile

ASSUME WordAssumption == {"", "main", "ps_6_2", "vs_6_2"} \subseteq Word
ASSUME ArgvsAssumption == Argvs \subseteq Seq(Word)
ASSUME ExportsAssumption == Exports \subseteq [vs : Seq(Word), ps : Seq(Word)]

Valued   == {"-I", "-T", "-E"}
Backends == {"-HLSL", "-GLSL", "-GLSLES", "-SPIRV"}
Ignored  == {"-g", "-CPP"}

VARIABLES
  argv,            \* the command line
  pc,              \* where control is
  i,               \* the cursor of the loop over argv that is running
  debug,           \* -g was seen
  shaderTarget,    \* a target other than -CPP was seen
  codegenTarget,   \* -CPP was seen
  profile,         \* the operand of the last -T, "" when there is none
  entrypoint,      \* the operand of the last -E
  jobs,            \* profileEntrypoints, in the order the loop visits it
  job,             \* the job being transpiled
  pCompileResult,  \* the job's SPIR-V: "null", "noobject" or "object"
  spirvArguments,  \* the job's argument vector: "full", or "empty" once moved from
  subResult,       \* transpile's result
  result,          \* main's result, and the exit code once pc = "exited"
  operands,        \* history: positions main's parser consumed as operands
  attempts         \* history: what transpile's steps reported

flagVars == <<debug, shaderTarget, codegenTarget, profile, entrypoint, operands>>
jobVars  == <<pCompileResult, spirvArguments, subResult>>
vars     == <<argv, pc, i, flagVars, jobs, job, jobVars, result, attempts>>

\* How a step of transpile can end.  "unwritten": the output stream did not
\* open, which no back end notices.  "noargs": a compilation started from the
\* moved-from argument vector.
Reported == {"ok", "unwritten"}
Failures == {"fail", "noargs", "unknown"}
Outcome  == Reported \cup Failures \cup {"crash"}

Job == [profile : Word, entry : Word]
Attempt == [job : Nat, pos : Nat, outcome : Outcome]

TypeOK ==
  /\ argv \in Seq(Word)
  /\ pc \in {"start", "parse", "setup", "codegen", "jobs", "targets",
             "exited", "crashed"}
  /\ i \in Nat
  /\ debug \in BOOLEAN /\ shaderTarget \in BOOLEAN /\ codegenTarget \in BOOLEAN
  /\ profile \in Word /\ entrypoint \in Word
  /\ jobs \in Seq(Job)
  /\ job \in Nat \ {0}
  /\ pCompileResult \in {"null", "noobject", "object"}
  /\ spirvArguments \in {"full", "empty"}
  /\ subResult \in {0, -1}
  /\ result \in {0, -1}
  /\ operands \subseteq Nat
  /\ attempts \subseteq Attempt

Init ==
  /\ argv \in Argvs
  /\ pc = "start"
  /\ i = 3
  /\ debug = FALSE /\ shaderTarget = FALSE /\ codegenTarget = FALSE
  /\ profile = "" /\ entrypoint = "main"
  /\ jobs = << >>
  /\ job = 1
  /\ pCompileResult = "null"
  /\ spirvArguments = "full"
  /\ subResult = 0
  /\ result = 0
  /\ operands = {}
  /\ attempts = {}

-------------------------------------------------------------------------------
(* main: the command line *)

Exit(code) == pc' = "exited" /\ result' = code

Start ==
  /\ pc = "start"
  /\ IF Len(argv) < 2 THEN Exit(-1) ELSE pc' = "parse" /\ UNCHANGED result
  /\ UNCHANGED <<argv, i, flagVars, jobs, job, jobVars, attempts>>

\* -g, -CPP and the targets set a flag; anything else is passed over here.
ParseFlag ==
  /\ pc = "parse" /\ i <= Len(argv) /\ argv[i] \notin Valued
  /\ debug' = (debug \/ argv[i] = "-g")
  /\ codegenTarget' = (codegenTarget \/ argv[i] = "-CPP")
  /\ shaderTarget' = (shaderTarget \/ argv[i] \in Backends)
  /\ i' = i + 1
  /\ UNCHANGED <<argv, pc, profile, entrypoint, jobs, job, jobVars, result,
                 operands, attempts>>

\* -I, -T and -E consume the next argument.
ParseValued ==
  /\ pc = "parse" /\ i < Len(argv) /\ argv[i] \in Valued
  /\ profile' = IF argv[i] = "-T" THEN argv[i + 1] ELSE profile
  /\ entrypoint' = IF argv[i] = "-E" THEN argv[i + 1] ELSE entrypoint
  /\ operands' = operands \cup {i + 1}
  /\ i' = i + 2
  /\ UNCHANGED <<argv, pc, debug, shaderTarget, codegenTarget, jobs, job,
                 jobVars, result, attempts>>

ParseMissingOperand ==
  /\ pc = "parse" /\ i = Len(argv) /\ argv[i] \in Valued
  /\ Exit(-1)
  /\ UNCHANGED <<argv, i, flagVars, jobs, job, jobVars, attempts>>

\* Mutant: the check for a missing profile is gone.
ProfileNeverMissing == FALSE
ProfileMissing == shaderTarget /\ ~codegenTarget /\ profile = ""

ParseDone ==
  /\ pc = "parse" /\ i > Len(argv)
  /\ IF ProfileMissing THEN Exit(-1) ELSE pc' = "setup" /\ UNCHANGED result
  /\ UNCHANGED <<argv, i, flagVars, jobs, job, jobVars, attempts>>

-------------------------------------------------------------------------------
(* main: the compiler, the source file and the jobs *)

\* Two DxcCreateInstance, CreateDefaultIncludeHandler, LoadFile: any may fail.
Setup ==
  /\ pc = "setup"
  /\ \/ Exit(-1)
     \/ pc' = "codegen" /\ UNCHANGED result
  /\ UNCHANGED <<argv, i, flagVars, jobs, job, jobVars, attempts>>

JobsWith(p, names) == [k \in 1 .. Len(names) |-> [profile |-> p, entry |-> names[k]]]

\* The map is ordered by its keys, so pixel shaders come first.
JobsOf(e) == JobsWith("ps_6_2", e.ps) \o JobsWith("vs_6_2", e.vs)

\* generateCPP succeeds, reports a failure, or dies.
Codegen ==
  /\ pc = "codegen" /\ codegenTarget
  /\ \/ \E e \in Exports : jobs' = JobsOf(e) /\ pc' = "jobs" /\ UNCHANGED result
     \/ Exit(-1) /\ UNCHANGED jobs
     \/ pc' = "crashed" /\ UNCHANGED <<jobs, result>>
  /\ UNCHANGED <<argv, i, flagVars, job, jobVars, attempts>>

SingleJob ==
  /\ pc = "codegen" /\ ~codegenTarget
  /\ jobs' = IF shaderTarget THEN JobsWith(profile, <<entrypoint>>) ELSE << >>
  /\ pc' = "jobs"
  /\ UNCHANGED <<argv, i, flagVars, job, jobVars, result, attempts>>

\* main keeps the first failure of its jobs.
\* Mutant: failures are added up.
FoldBySum(sub) == result + sub
Fold(sub) == IF sub # 0 /\ result = 0 THEN sub ELSE result

\* transpile returns sub to the loop of main.
ReturnWith(sub) ==
  /\ result' = Fold(sub)
  /\ job' = job + 1
  /\ pc' = "jobs"

Finish ==
  /\ pc = "jobs" /\ job > Len(jobs)
  /\ pc' = "exited"
  /\ UNCHANGED <<argv, i, flagVars, jobs, job, jobVars, result, attempts>>

-------------------------------------------------------------------------------
(* transpile: the compilation of a job *)

Report(p, o) == attempts' = attempts \cup {[job |-> job, pos |-> p, outcome |-> o]}

\* Mutant: the argument vector outlives the job that moved from it.
KeptArguments(p) == IF p = "" THEN "empty" ELSE spirvArguments
FreshArguments(p) == IF p = "" THEN "empty" ELSE "full"

\* Mutant: the loop over the targets starts one argument late.
SecondArgument == 4
FirstArgument == 3

\* The call succeeds, with or without an object in its result.  An empty
\* profile skips the compilation and leaves the result null.
CompileJob ==
  /\ pc = "jobs" /\ job <= Len(jobs)
  /\ IF jobs[job].profile = "" THEN pCompileResult' = "null"
     ELSE pCompileResult' \in {"object", "noobject"}
  /\ spirvArguments' = FreshArguments(jobs[job].profile)
  /\ subResult' = 0
  /\ i' = FirstArgument
  /\ pc' = "targets"
  /\ UNCHANGED <<argv, flagVars, jobs, job, result, attempts>>

\* GetOutput(DXC_OUT_ERRORS) fails, or Compile failed and left a result.
CompileJobFails ==
  /\ pc = "jobs" /\ job <= Len(jobs) /\ jobs[job].profile # ""
  /\ Report(0, "fail")
  /\ ReturnWith(-1)
  /\ UNCHANGED <<argv, i, flagVars, jobs, jobVars>>

\* Compile failed and left no result, which GetOutput then dereferences.
CompileJobCrashes ==
  /\ pc = "jobs" /\ job <= Len(jobs) /\ jobs[job].profile # ""
  /\ Report(0, "crash")
  /\ pc' = "crashed"
  /\ UNCHANGED <<argv, i, flagVars, jobs, job, jobVars, result>>

-------------------------------------------------------------------------------
(* transpile: the targets *)

AtTarget(names) == pc = "targets" /\ i <= Len(argv) /\ argv[i] \in names

\* transpile keeps the last failure of its targets.
\* Mutant: the result is overwritten by a later success.
LastOutcome(o) == IF o \in Failures THEN -1 ELSE 0
Record(o) == IF o \in Failures THEN -1 ELSE subResult

\* A target reports o and the loop goes on, or the process dies.
Step(o) ==
  /\ Report(i, o)
  /\ IF o = "crash" THEN pc' = "crashed" /\ UNCHANGED <<i, subResult>>
     ELSE i' = i + 1 /\ subResult' = Record(o) /\ UNCHANGED pc

\* The back ends that translate the job's SPIR-V: SPIRV-Cross may throw on it,
\* and a missing object is an error or a null pointer.
ObjectOutcomes == CASE pCompileResult = "object"   -> {"ok", "unwritten", "fail"}
                    [] pCompileResult = "noobject" -> {"fail", "crash"}
                    [] pCompileResult = "null"     -> {"crash"}
Translate(flag) ==
  /\ AtTarget({flag})
  /\ \E o \in ObjectOutcomes : Step(o)
  /\ UNCHANGED <<argv, flagVars, jobs, job, pCompileResult, spirvArguments, result>>

TranspileHLSL == ~debug /\ Translate("-HLSL")
TranspileGLSL == Translate("-GLSL")
TranspileGLSLES == Translate("-GLSLES")

\* transpileHLSL with -g only preprocesses, in a compilation of its own.
PreprocessHLSL ==
  /\ debug /\ AtTarget({"-HLSL"})
  /\ \E o \in {"ok", "unwritten", "fail", "crash"} : Step(o)
  /\ UNCHANGED <<argv, flagVars, jobs, job, pCompileResult, spirvArguments, result>>

\* transpileSPIRV compiles again, with the vector moved out of transpile.
TranspileSPIRV ==
  /\ AtTarget({"-SPIRV"})
  /\ \E o \in IF spirvArguments = "full" THEN {"ok", "unwritten", "fail"}
              ELSE {"noargs"} : Step(o)
  /\ spirvArguments' = "empty"
  /\ UNCHANGED <<argv, flagVars, jobs, job, pCompileResult, result>>

\* The operand of -I, -E and -T is passed over with its flag.
\* Mutant: only the flag is.
NextArgument == i + 1
AfterOperand == i + 2

SkipOperand ==
  /\ AtTarget(Valued)
  /\ i' = AfterOperand
  /\ UNCHANGED <<argv, pc, flagVars, jobs, job, jobVars, result, attempts>>

\* Mutant: the cursor stays on the flag.
SkipIgnoredForever ==
  /\ AtTarget(Ignored)
  /\ UNCHANGED vars
SkipIgnored ==
  /\ AtTarget(Ignored)
  /\ i' = i + 1
  /\ UNCHANGED <<argv, pc, flagVars, jobs, job, jobVars, result, attempts>>

\* Mutant: -CPP, handled by main, is an unknown target to transpile.
ComparedFlags == Backends \cup Valued \cup {"-g"}
KnownFlags == Backends \cup Valued \cup Ignored

UnknownTarget ==
  /\ pc = "targets" /\ i <= Len(argv) /\ argv[i] \notin KnownFlags
  /\ Step("unknown")
  /\ UNCHANGED <<argv, flagVars, jobs, job, pCompileResult, spirvArguments, result>>

\* Mutant: the first failure ends the loop.
StopAtFailure == i > Len(argv) \/ subResult # 0
TargetsDone == i > Len(argv)

EndJob ==
  /\ pc = "targets" /\ TargetsDone
  /\ ReturnWith(subResult)
  /\ UNCHANGED <<argv, i, flagVars, jobs, jobVars, attempts>>

Stopped == pc \in {"exited", "crashed"} /\ UNCHANGED vars

-------------------------------------------------------------------------------

Next ==
  \/ Start \/ ParseFlag \/ ParseValued \/ ParseMissingOperand \/ ParseDone
  \/ Setup \/ Codegen \/ SingleJob
  \/ CompileJob \/ CompileJobFails \/ CompileJobCrashes
  \/ TranspileHLSL \/ PreprocessHLSL \/ TranspileGLSL \/ TranspileGLSLES
  \/ TranspileSPIRV
  \/ SkipOperand \/ SkipIgnored \/ UnknownTarget \/ EndJob
  \/ Finish \/ Stopped

Spec == Init /\ [][Next]_vars /\ WF_vars(Next)

-------------------------------------------------------------------------------
(* Properties *)

\* The targets main announced: a back end's flag that is nobody's operand.
TargetPositions == {p \in 3 .. Len(argv) : argv[p] \in Backends} \ operands
Tasks == (1 .. Len(jobs)) \X TargetPositions
Attempted(j, p, outcomes) ==
  \E a \in attempts : a.job = j /\ a.pos = p /\ a.outcome \in outcomes

\* Exit code 0 means that every target of every entry point was built and that
\* nothing at all was reported as failing: main folds what transpile returns,
\* and transpile what its back ends return, without losing a failure.
ExitZeroMeansBuilt ==
  pc = "exited" /\ result = 0 =>
    /\ \A t \in Tasks : Attempted(t[1], t[2], Reported)
    /\ \A a \in attempts : a.outcome \in Reported

\* A run that got as far as its jobs fails only because a compilation or a back
\* end did, or because of a word that main's parser gives no meaning to either.
FailureHasCause ==
  pc = "exited" /\ result # 0 /\ jobs # << >> =>
    \E a \in attempts :
      \/ a.outcome \in {"fail", "noargs"}
      \/ a.outcome = "unknown" /\ argv[a.pos] \notin Valued \cup Backends \cup Ignored

\* A failing target costs neither the later targets of its job nor the later
\* jobs: only a failing compilation gives up, and only its own job's targets.
NoTargetSkipped ==
  \A t \in Tasks :
    t[1] < job => Attempted(t[1], t[2], Outcome) \/ Attempted(t[1], 0, {"fail"})

\* main and transpile go through argv separately.  They agree on which words
\* are operands: transpile never takes one for a target or an unknown flag.
OperandsStayOperands == \A a \in attempts : a.pos \notin operands

\* transpile leaves its result null without a profile, and every back end
\* dereferences it: no job comes to it without one.
JobsHaveProfile == \A j \in 1 .. Len(jobs) : jobs[j].profile # ""

\* The argument vector is each job's own: a compilation that starts without
\* arguments comes after another -SPIRV of the same job.
SpirvArgumentsIntact ==
  \A a \in attempts : a.outcome = "noargs" =>
    \E b \in attempts : b.job = a.job /\ b.pos < a.pos
                         /\ b.pos \in TargetPositions /\ argv[b.pos] = "-SPIRV"

\* The process always stops: both loops over argv and the loop over the jobs
\* come to their end.
Terminates == <>(pc \in {"exited", "crashed"})

\* The driver is a batch of tasks: it plans once, takes every task once, drops
\* tasks only with a failure, and its exit code says whether there was one.
B == INSTANCE Batch WITH
  Task   <- Nat \X Nat,
  phase  <- CASE pc \in {"start", "parse", "setup", "codegen"} -> "planning"
              [] pc \in {"jobs", "targets"} -> "running"
              [] OTHER -> pc,
  todo   <- {t \in Tasks : t[1] >= job /\ (t[1] = job /\ pc = "targets" => t[2] >= i)},
  done   <- {t \in Tasks : Attempted(t[1], t[2], Outcome)},
  failed <- result # 0 \/ (pc = "targets" /\ subResult # 0),
  code   <- IF pc = "exited" THEN result ELSE 0
ImplementsBatch == B!BatchSpec

-------------------------------------------------------------------------------
(* What the program says of itself, and does not keep *)

\* "Unknown target language" (main.cpp:330): a run with a word that is no flag
\* and no operand is not reported as a success.
UnknownTargetReported ==
  pc = "exited" /\ result = 0 =>
    \A p \in 3 .. Len(argv) :
      argv[p] \in Valued \cup Backends \cup Ignored \/ p \in operands

\* "Failed to compile HLSL to SPIR-V" (main.cpp:298): a compilation that fails
\* is reported.
CompileFailureReported == \A a \in attempts : a.pos = 0 => a.outcome # "crash"

\* "Success!" (shadergenGLSL.cpp:132, and in every back end): a run that ends
\* with exit code 0 has written all of its output files.
SuccessMeansWritten ==
  pc = "exited" /\ result = 0 => \A a \in attempts : a.outcome # "unwritten"
===============================================================================
