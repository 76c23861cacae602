------------------------------ MODULE DriverProofs ------------------------------
(***************************************************************************)
(* Theorems about Driver, for every set of strings, every command line and *)
(* every entry points that code generation may return.                     *)
(***************************************************************************)
EXTENDS Driver, TLAPS

-------------------------------------------------------------------------------
(* Types *)

LEMMA JobsOfType == \A e \in Exports : JobsOf(e) \in Seq(Job)
  <1>1. \A p \in Word : \A names \in Seq(Word) : JobsWith(p, names) \in Seq(Job)
    BY DEF JobsWith, Job
  <1>2. "ps_6_2" \in Word /\ "vs_6_2" \in Word
    BY WordAssumption
  <1> SUFFICES ASSUME NEW e \in Exports PROVE JobsOf(e) \in Seq(Job)
    OBVIOUS
  <1>3. e.ps \in Seq(Word) /\ e.vs \in Seq(Word)
    BY ExportsAssumption
  <1>4. JobsWith("ps_6_2", e.ps) \in Seq(Job) /\ JobsWith("vs_6_2", e.vs) \in Seq(Job)
    BY <1>1, <1>2, <1>3
  <1> QED
    BY <1>4 DEF JobsOf

LEMMA OutcomesType == TypeOK => ObjectOutcomes \subseteq Outcome \ {"noargs", "unknown"}
  BY DEF TypeOK, ObjectOutcomes, Outcome, Reported, Failures

LEMMA StepType ==
  ASSUME TypeOK, NEW o \in Outcome, Step(o)
  PROVE  /\ i' \in Nat /\ subResult' \in {0, -1} /\ attempts' \subseteq Attempt
         /\ pc' \in {pc, "crashed"}
  <1>1. [job |-> job, pos |-> i, outcome |-> o] \in Attempt
    BY DEF TypeOK, Attempt
  <1> QED
    BY <1>1 DEF TypeOK, Step, Report, Record

LEMMA InitType == Init => TypeOK
  <1>1. "" \in Word /\ "main" \in Word
    BY WordAssumption
  <1>2. << >> \in Seq(Job)
    OBVIOUS
  <1> SUFFICES ASSUME Init PROVE TypeOK
    OBVIOUS
  <1>3. argv \in Seq(Word) /\ jobs \in Seq(Job)
    BY <1>2, ArgvsAssumption DEF Init
  <1>4. debug \in BOOLEAN /\ shaderTarget \in BOOLEAN /\ codegenTarget \in BOOLEAN
    BY DEF Init
  <1>5. operands \subseteq Nat /\ attempts \subseteq Attempt
    <2>1. operands = {} /\ attempts = {}
      BY DEF Init
    <2> QED
      BY <2>1, Zenon
  <1>6. i \in Nat /\ job \in Nat \ {0} /\ subResult \in {0, -1} /\ result \in {0, -1}
    <2>1. i = 3 /\ job = 1 /\ subResult = 0 /\ result = 0
      BY DEF Init
    <2> QED
      BY <2>1
  <1>7. /\ pc \in {"start", "parse", "setup", "codegen", "jobs", "targets", "exited", "crashed"}
        /\ profile \in Word /\ entrypoint \in Word
        /\ pCompileResult \in {"null", "noobject", "object"}
        /\ spirvArguments \in {"full", "empty"}
    BY <1>1 DEF Init
  <1> QED
    BY <1>3, <1>4, <1>5, <1>6, <1>7 DEF TypeOK

LEMMA ParseType ==
  ASSUME TypeOK, Start \/ ParseFlag \/ ParseValued \/ ParseMissingOperand \/ ParseDone
  PROVE  TypeOK'
  <1>1. CASE Start
    BY <1>1 DEF TypeOK, Start, Exit, flagVars, jobVars
  <1>2. CASE ParseFlag
    BY <1>2 DEF TypeOK, ParseFlag, jobVars
  <1>3. CASE ParseValued
    <2>1. argv[i + 1] \in Word
      <3>1. i + 1 \in 1 .. Len(argv) \/ i + 1 \notin 1 .. Len(argv)
        OBVIOUS
      <3> QED
        BY <1>3 DEF TypeOK, ParseValued
    <2>2. i + 1 \in Nat /\ i + 2 \in Nat
      BY DEF TypeOK
    <2> QED
      BY <1>3, <2>1, <2>2 DEF TypeOK, ParseValued, jobVars
  <1>4. CASE ParseMissingOperand
    BY <1>4 DEF TypeOK, ParseMissingOperand, Exit, flagVars, jobVars
  <1>5. CASE ParseDone
    BY <1>5 DEF TypeOK, ParseDone, Exit, flagVars, jobVars
  <1> QED
    BY <1>1, <1>2, <1>3, <1>4, <1>5

LEMMA PlanType ==
  ASSUME TypeOK, Setup \/ Codegen \/ SingleJob
  PROVE  TypeOK'
  <1>1. CASE Setup
    BY <1>1 DEF TypeOK, Setup, Exit, flagVars, jobVars
  <1>2. CASE Codegen
    <2>1. jobs' \in Seq(Job)
      BY <1>2, JobsOfType DEF TypeOK, Codegen
    <2> QED
      BY <1>2, <2>1 DEF TypeOK, Codegen, Exit, flagVars, jobVars
  <1>3. CASE SingleJob
    <2>1. JobsWith(profile, <<entrypoint>>) \in Seq(Job)
      BY DEF TypeOK, JobsWith, Job
    <2>2. << >> \in Seq(Job)
      OBVIOUS
    <2> QED
      BY <1>3, <2>1, <2>2 DEF TypeOK, SingleJob, flagVars, jobVars
  <1> QED
    BY <1>1, <1>2, <1>3

LEMMA JobType ==
  ASSUME TypeOK, CompileJob \/ CompileJobFails \/ CompileJobCrashes \/ EndJob \/ Finish
  PROVE  TypeOK'
  <1>1. Attempt = [job : Nat, pos : Nat, outcome : Outcome] /\ "fail" \in Outcome /\ "crash" \in Outcome
    BY DEF Attempt, Outcome, Failures
  <1>2. /\ [job |-> job, pos |-> 0, outcome |-> "fail"] \in Attempt
        /\ [job |-> job, pos |-> 0, outcome |-> "crash"] \in Attempt
    BY <1>1 DEF TypeOK
  <1>3. CASE CompileJob
    BY <1>3 DEF TypeOK, CompileJob, FreshArguments, FirstArgument, flagVars
  <1>4. CASE CompileJobFails
    <2>1. attempts' \subseteq Attempt
      BY <1>2, <1>4 DEF TypeOK, CompileJobFails, Report
    <2>2. result \in {0, -1} /\ job \in Nat \ {0} /\ ReturnWith(-1)
      BY <1>4 DEF TypeOK, CompileJobFails
    <2>3. result' \in {0, -1}
      BY <2>2 DEF ReturnWith, Fold
    <2>4. job' \in Nat \ {0} /\ pc' = "jobs"
      BY <2>2 DEF ReturnWith
    <2> QED
      BY <1>4, <2>1, <2>3, <2>4 DEF TypeOK, CompileJobFails, flagVars, jobVars
  <1>5. CASE CompileJobCrashes
    BY <1>2, <1>5 DEF TypeOK, CompileJobCrashes, Report, flagVars, jobVars
  <1>6. CASE EndJob
    BY <1>6 DEF TypeOK, EndJob, ReturnWith, Fold, flagVars, jobVars
  <1>7. CASE Finish
    BY <1>7 DEF TypeOK, Finish, flagVars, jobVars
  <1> QED
    BY <1>3, <1>4, <1>5, <1>6, <1>7

BackEnd ==
  \/ TranspileHLSL \/ PreprocessHLSL \/ TranspileGLSL \/ TranspileGLSLES \/ TranspileSPIRV

\* What the five back ends have in common.
LEMMA BackEndSteps ==
  ASSUME TypeOK, BackEnd
  PROVE  /\ AtTarget(Backends)
         /\ \E o \in Outcome \ {"unknown"} :
              Step(o) /\ (o = "noargs" => argv[i] = "-SPIRV" /\ spirvArguments = "empty")
         /\ UNCHANGED <<argv, flagVars, jobs, job, pCompileResult, result>>
         /\ \/ UNCHANGED spirvArguments
            \/ spirvArguments' = "empty" /\ argv[i] = "-SPIRV"
  <1>1. ASSUME NEW flag \in Backends, Translate(flag)
        PROVE  /\ AtTarget(Backends)
               /\ \E o \in Outcome \ {"noargs", "unknown"} : Step(o)
               /\ UNCHANGED <<argv, flagVars, jobs, job, pCompileResult, spirvArguments, result>>
    BY <1>1, OutcomesType DEF Translate, AtTarget
  <1>2. CASE TranspileHLSL \/ TranspileGLSL \/ TranspileGLSLES
    <2>1. {"-HLSL", "-GLSL", "-GLSLES"} \subseteq Backends
      BY DEF Backends
    <2> QED
      BY <1>1, <1>2, <2>1 DEF TranspileHLSL, TranspileGLSL, TranspileGLSLES
  <1>3. CASE PreprocessHLSL
    BY <1>3 DEF PreprocessHLSL, AtTarget, Backends, Outcome, Reported, Failures
  <1>4. CASE TranspileSPIRV
    BY <1>4 DEF TypeOK, TranspileSPIRV, AtTarget, Backends, Outcome, Reported, Failures
  <1> QED
    BY <1>2, <1>3, <1>4 DEF BackEnd

LEMMA TargetType ==
  ASSUME TypeOK, BackEnd \/ SkipOperand \/ SkipIgnored \/ UnknownTarget
  PROVE  TypeOK'
  <1>1. CASE BackEnd
    <2>1. PICK o \in Outcome : Step(o)
      BY <1>1, BackEndSteps
    <2>2. /\ i' \in Nat /\ subResult' \in {0, -1} /\ attempts' \subseteq Attempt
          /\ pc' \in {pc, "crashed"}
      BY <2>1, StepType
    <2>3. /\ UNCHANGED <<argv, flagVars, jobs, job, pCompileResult, result>>
          /\ spirvArguments' \in {spirvArguments, "empty"}
      BY <1>1, BackEndSteps
    <2> QED
      BY <2>2, <2>3 DEF TypeOK, flagVars
  <1>2. CASE SkipOperand
    BY <1>2 DEF TypeOK, SkipOperand, AfterOperand, flagVars, jobVars
  <1>3. CASE SkipIgnored
    BY <1>3 DEF TypeOK, SkipIgnored, flagVars, jobVars
  <1>4. CASE UnknownTarget
    <2>1. "unknown" \in Outcome
      BY DEF Outcome, Failures
    <2> QED
      BY <1>4, <2>1, StepType DEF TypeOK, UnknownTarget, flagVars
  <1> QED
    BY <1>1, <1>2, <1>3, <1>4

\* The actions of Next, in the groups of the lemmas.
LEMMA NextCases ==
  ASSUME [Next]_vars
  PROVE  \/ Start \/ ParseFlag \/ ParseValued \/ ParseMissingOperand \/ ParseDone
         \/ Setup \/ Codegen \/ SingleJob
         \/ CompileJob \/ CompileJobFails \/ CompileJobCrashes \/ EndJob \/ Finish
         \/ BackEnd \/ SkipOperand \/ SkipIgnored \/ UnknownTarget
         \/ UNCHANGED vars
  BY DEF Next, BackEnd, Stopped

LEMMA TypeKeeps == TypeOK /\ [Next]_vars => TypeOK'
  <1>1. TypeOK /\ UNCHANGED vars => TypeOK'
    BY DEF TypeOK, vars, flagVars, jobVars
  <1> QED
    BY <1>1, NextCases, ParseType, PlanType, JobType, TargetType

\* Every variable keeps its type, for any command line and any results of the
\* compiler: main and transpile never produce an exit code but 0 and -1.
THEOREM TypeCorrect == Spec => []TypeOK
  BY InitType, TypeKeeps, PTL DEF Spec

-------------------------------------------------------------------------------
(* The two passes over argv *)

\* An operand follows a valued flag that is no operand itself, ...
OperandsFollow ==
  \A p \in operands : /\ p - 1 \in 3 .. Len(argv) /\ argv[p - 1] \in Valued
                      /\ p - 1 \notin operands

\* ... and what follows such a flag is an operand, as far as main has come.
FlagsHaveOperands ==
  pc \in {"parse", "setup", "codegen", "jobs", "targets"} =>
    \A p \in 3 .. Len(argv) :
      argv[p] \in Valued /\ p \notin operands /\ (pc = "parse" => p < i) => p + 1 \in operands

OperandsBehind ==
  /\ pc \in {"start", "parse"} => i >= 3 /\ \A p \in operands : p < i
  /\ pc = "start" => i = 3

\* transpile's cursor never stands on an operand.
OnNoOperand == pc = "targets" => i >= 3 /\ i \notin operands

CursorInv == OperandsFollow /\ FlagsHaveOperands /\ OperandsBehind /\ OnNoOperand

LEMMA FlagPassed ==
  ASSUME TypeOK, CursorInv, pc = "targets", i <= Len(argv), argv[i] \notin Valued
  PROVE  i + 1 >= 3 /\ i + 1 \notin operands
  BY DEF TypeOK, CursorInv, OperandsFollow, OnNoOperand

LEMMA ParseCursor ==
  ASSUME TypeOK, CursorInv, Start \/ ParseFlag \/ ParseValued \/ ParseMissingOperand \/ ParseDone
  PROVE  CursorInv'
  <1>1. i \in Nat /\ Len(argv) \in Nat
    BY DEF TypeOK
  <1>2. CASE Start
    BY <1>1, <1>2 DEF Start, Exit, flagVars, CursorInv, OperandsFollow, FlagsHaveOperands,
                      OperandsBehind, OnNoOperand
  <1>3. CASE ParseFlag
    <2>1. /\ pc = "parse" /\ pc' = "parse" /\ i' = i + 1 /\ argv[i] \notin Valued
          /\ UNCHANGED <<argv, operands>>
      BY <1>3 DEF ParseFlag
    <2>2. FlagsHaveOperands'
      <3>1. ASSUME NEW p \in 3 .. Len(argv), argv[p] \in Valued, p \notin operands, p < i + 1
            PROVE  p + 1 \in operands
        <4>1. p # i /\ p < i
          BY <1>1, <2>1, <3>1
        <4> QED
          BY <2>1, <3>1, <4>1 DEF CursorInv, FlagsHaveOperands
      <3> QED
        BY <2>1, <3>1 DEF FlagsHaveOperands
    <2>3. OperandsBehind' /\ OnNoOperand' /\ OperandsFollow'
      <3>1. i >= 3 /\ (\A p \in operands : p < i) /\ operands \subseteq Nat
        BY <2>1 DEF TypeOK, CursorInv, OperandsBehind
      <3> QED
        BY <1>1, <2>1, <3>1 DEF CursorInv, OperandsFollow, OperandsBehind, OnNoOperand
    <2> QED
      BY <2>2, <2>3 DEF CursorInv
  <1>4. CASE ParseValued
    <2>1. /\ pc = "parse" /\ pc' = "parse" /\ i' = i + 2 /\ i < Len(argv) /\ argv[i] \in Valued
          /\ operands' = operands \cup {i + 1} /\ UNCHANGED argv
      BY <1>4 DEF ParseValued
    <2>2. i >= 3 /\ (\A p \in operands : p < i) /\ operands \subseteq Nat
      BY <2>1 DEF TypeOK, CursorInv, OperandsBehind
    <2>3. OperandsFollow'
      BY <1>1, <2>1, <2>2 DEF CursorInv, OperandsFollow
    <2>4. FlagsHaveOperands'
      BY <1>1, <2>1, <2>2 DEF CursorInv, FlagsHaveOperands
    <2>5. OperandsBehind' /\ OnNoOperand'
      BY <1>1, <2>1, <2>2 DEF OperandsBehind, OnNoOperand
    <2> QED
      BY <2>3, <2>4, <2>5 DEF CursorInv
  <1>5. CASE ParseMissingOperand
    BY <1>5 DEF ParseMissingOperand, Exit, flagVars, CursorInv, OperandsFollow,
                FlagsHaveOperands, OperandsBehind, OnNoOperand
  <1>6. CASE ParseDone
    BY <1>1, <1>6 DEF ParseDone, Exit, flagVars, CursorInv, OperandsFollow, FlagsHaveOperands,
                      OperandsBehind, OnNoOperand
  <1> QED
    BY <1>2, <1>3, <1>4, <1>5, <1>6

LEMMA JobCursor ==
  ASSUME TypeOK, CursorInv,
         \/ Setup \/ Codegen \/ SingleJob
         \/ CompileJob \/ CompileJobFails \/ CompileJobCrashes \/ EndJob \/ Finish
  PROVE  CursorInv'
  <1>1. /\ UNCHANGED <<argv, operands>>
        /\ pc \in {"setup", "codegen", "jobs", "targets"} /\ pc' \notin {"start", "parse"}
        /\ pc' = "targets" => i' = 3
    BY DEF Setup, Codegen, SingleJob, CompileJob, CompileJobFails, CompileJobCrashes, EndJob,
           Finish, ReturnWith, Exit, flagVars, FirstArgument
  <1>2. 3 \notin operands
    BY DEF CursorInv, OperandsFollow
  <1> QED
    BY <1>1, <1>2 DEF CursorInv, OperandsFollow, FlagsHaveOperands, OperandsBehind, OnNoOperand

LEMMA TargetCursor ==
  ASSUME TypeOK, CursorInv, BackEnd \/ SkipOperand \/ SkipIgnored \/ UnknownTarget
  PROVE  CursorInv'
  <1>1. /\ UNCHANGED <<argv, operands>> /\ pc = "targets" /\ pc' \in {"targets", "crashed"}
        /\ i <= Len(argv)
    <2>1. CASE BackEnd
      BY <2>1, BackEndSteps DEF AtTarget, Step, flagVars
    <2>2. CASE SkipOperand \/ SkipIgnored \/ UnknownTarget
      BY <2>2 DEF SkipOperand, SkipIgnored, UnknownTarget, AtTarget, Step, flagVars
    <2> QED
      BY <2>1, <2>2
  <1>2. OnNoOperand'
    <2>1. CASE argv[i] \notin Valued
      <3>1. i' = i + 1 \/ pc' = "crashed"
        <4>1. CASE BackEnd
          BY <4>1, BackEndSteps DEF Step
        <4>2. CASE SkipOperand \/ SkipIgnored \/ UnknownTarget
          BY <2>1, <4>2 DEF SkipOperand, SkipIgnored, UnknownTarget, AtTarget, Step
        <4> QED
          BY <4>1, <4>2
      <3> QED
        BY <1>1, <2>1, <3>1, FlagPassed DEF OnNoOperand
    <2>2. CASE argv[i] \in Valued
      <3>1. i' = i + 2
        <4>1. SkipOperand
          <5>1. ~BackEnd
            BY <2>2, BackEndSteps DEF AtTarget, Backends, Valued
          <5> QED
            BY <2>2, <5>1 DEF SkipIgnored, UnknownTarget, AtTarget, Ignored, Valued, KnownFlags
        <4> QED
          BY <4>1 DEF SkipOperand, AfterOperand
      <3>2. i \in Nat /\ i >= 3 /\ i + 1 \in operands
        BY <1>1, <2>2 DEF TypeOK, CursorInv, FlagsHaveOperands, OnNoOperand
      <3>3. i + 2 \notin operands
        <4>1. (i + 2) - 1 = i + 1
          BY <3>2
        <4> QED
          BY <3>2, <4>1 DEF CursorInv, OperandsFollow
      <3> QED
        BY <1>1, <3>1, <3>2, <3>3 DEF OnNoOperand
    <2> QED
      BY <2>1, <2>2
  <1> QED
    BY <1>1, <1>2 DEF CursorInv, OperandsFollow, FlagsHaveOperands, OperandsBehind

LEMMA CursorKeeps == TypeOK /\ CursorInv /\ [Next]_vars => CursorInv'
  <1>1. CursorInv /\ UNCHANGED vars => CursorInv'
    BY DEF CursorInv, OperandsFollow, FlagsHaveOperands, OperandsBehind, OnNoOperand, vars,
           flagVars
  <1> QED
    BY <1>1, NextCases, ParseCursor, JobCursor, TargetCursor

-------------------------------------------------------------------------------
(* Up to the jobs *)

Early == {"start", "parse", "setup", "codegen"}
NothingYet == pc \in Early => jobs = << >> /\ job = 1 /\ result = 0 /\ attempts = {}
JobInRange == pc = "targets" => job <= Len(jobs)

\* main turned down a missing profile before it came to the jobs.
ProfileGiven == pc \in {"setup", "codegen"} => ~ProfileMissing

PlanInv == NothingYet /\ JobInRange /\ ProfileGiven /\ JobsHaveProfile

EarlyStep ==
  \/ Start \/ ParseFlag \/ ParseValued \/ ParseMissingOperand \/ ParseDone
  \/ Setup \/ Codegen \/ SingleJob
JobStep == CompileJob \/ CompileJobFails \/ CompileJobCrashes \/ EndJob \/ Finish
TargetStep == BackEnd \/ SkipOperand \/ SkipIgnored \/ UnknownTarget

\* Until the jobs are known, nothing is reported, and an exit leaves no job.
LEMMA EarlySteps ==
  ASSUME TypeOK, EarlyStep
  PROVE  /\ pc \in Early
         /\ UNCHANGED <<argv, job, attempts>>
         /\ \/ pc' \in Early /\ UNCHANGED <<jobs, result>>
            \/ pc' = "exited" /\ result' = -1 /\ UNCHANGED jobs
            \/ pc' = "crashed" /\ UNCHANGED <<jobs, result>>
            \/ pc' = "jobs" /\ UNCHANGED <<result, operands>> /\ (Codegen \/ SingleJob)
  <1>1. CASE Start \/ ParseFlag \/ ParseValued \/ ParseMissingOperand \/ ParseDone
    BY <1>1 DEF Start, ParseFlag, ParseValued, ParseMissingOperand, ParseDone, Exit, Early
  <1>2. CASE Setup \/ Codegen \/ SingleJob
    BY <1>2 DEF Setup, Codegen, SingleJob, Exit, Early, flagVars
  <1> QED
    BY <1>1, <1>2 DEF EarlyStep

\* From then on the plan stays.
LEMMA LateSteps ==
  ASSUME TypeOK, JobStep \/ TargetStep
  PROVE  /\ pc \in {"jobs", "targets"} /\ pc' \in {"jobs", "targets", "exited", "crashed"}
         /\ UNCHANGED <<argv, operands, jobs>>
  <1>1. CASE JobStep
    BY <1>1 DEF JobStep, CompileJob, CompileJobFails, CompileJobCrashes, EndJob, Finish,
                ReturnWith, flagVars
  <1>2. CASE BackEnd
    BY <1>2, BackEndSteps DEF AtTarget, Step, flagVars
  <1>3. CASE SkipOperand \/ SkipIgnored \/ UnknownTarget
    BY <1>3 DEF SkipOperand, SkipIgnored, UnknownTarget, AtTarget, Step, flagVars
  <1> QED
    BY <1>1, <1>2, <1>3 DEF TargetStep

LEMMA JobsOfProfile ==
  \A e \in Exports : \A k \in 1 .. Len(JobsOf(e)) : JobsOf(e)[k].profile # ""
  <1> SUFFICES ASSUME NEW e \in Exports, NEW k \in 1 .. Len(JobsOf(e))
               PROVE  JobsOf(e)[k].profile # ""
    OBVIOUS
  <1> DEFINE a == JobsWith("ps_6_2", e.ps)
             b == JobsWith("vs_6_2", e.vs)
  <1>1. e.ps \in Seq(Word) /\ e.vs \in Seq(Word)
    BY ExportsAssumption
  <1>2. /\ a \in Seq(Job) /\ \A l \in 1 .. Len(a) : a[l].profile = "ps_6_2"
        /\ b \in Seq(Job) /\ \A l \in 1 .. Len(b) : b[l].profile = "vs_6_2"
    <2>1. "ps_6_2" \in Word /\ "vs_6_2" \in Word
      BY WordAssumption
    <2> QED
      BY <1>1, <2>1 DEF JobsWith, Job
  <1>3. JobsOf(e) = a \o b
    BY DEF JobsOf
  <1> HIDE DEF a, b
  <1>4. k \in 1 .. Len(a) + Len(b) /\ (a \o b)[k] = IF k <= Len(a) THEN a[k] ELSE b[k - Len(a)]
    BY <1>2, <1>3
  <1>5. CASE k <= Len(a)
    <2>1. JobsOf(e)[k] = a[k] /\ k \in 1 .. Len(a)
      BY <1>2, <1>3, <1>4, <1>5
    <2>2. a[k].profile = "ps_6_2"
      BY <1>2, <2>1
    <2>3. JobsOf(e)[k].profile = "ps_6_2"
      BY <2>1, <2>2
    <2> QED
      BY <2>3
  <1>6. CASE k > Len(a)
    <2>1. k - Len(a) \in 1 .. Len(b)
      BY <1>2, <1>4, <1>6
    <2>2. JobsOf(e)[k] = b[k - Len(a)]
      BY <1>2, <1>3, <1>4, <1>6
    <2>3. b[k - Len(a)].profile = "vs_6_2"
      BY <1>2, <2>1
    <2> QED
      BY <2>2, <2>3
  <1>7. Len(a) \in Nat /\ k \in Int
    BY <1>2, <1>4
  <1>8. k <= Len(a) \/ k > Len(a)
    BY <1>7
  <1> QED
    BY <1>5, <1>6, <1>8

LEMMA EarlyPlan == ASSUME TypeOK, PlanInv, EarlyStep PROVE PlanInv'
  <1>1. NothingYet' /\ JobInRange'
    BY EarlySteps DEF PlanInv, NothingYet, JobInRange, Early
  <1>2. ProfileGiven'
    <2>1. CASE ParseDone
      <3>1. ProfileMissing' <=> ProfileMissing
        BY <2>1 DEF ParseDone, ProfileMissing, flagVars
      <3>2. pc' \in {"setup", "codegen"} => ~ProfileMissing
        BY <2>1 DEF ParseDone, Exit
      <3> QED
        BY <3>1, <3>2 DEF ProfileGiven
    <2>2. CASE Setup
      <3>1. (ProfileMissing' <=> ProfileMissing) /\ ~ProfileMissing
        BY <2>2 DEF Setup, ProfileMissing, flagVars, PlanInv, ProfileGiven
      <3> QED
        BY <3>1 DEF ProfileGiven
    <2>3. CASE EarlyStep /\ ~ParseDone /\ ~Setup
      BY <2>3 DEF EarlyStep, Start, ParseFlag, ParseValued, ParseMissingOperand, Codegen,
                  SingleJob, Exit, ProfileGiven
    <2> QED
      BY <2>1, <2>2, <2>3
  <1>3. JobsHaveProfile'
    <2>1. CASE Codegen
      BY <2>1, JobsOfProfile DEF Codegen, PlanInv, JobsHaveProfile
    <2>2. CASE SingleJob
      <3>1. pc = "codegen" /\ ~codegenTarget /\ (shaderTarget => profile # "")
        BY <2>2 DEF SingleJob, PlanInv, ProfileGiven, ProfileMissing
      <3>2. CASE shaderTarget
        <4>1. jobs' = [k \in 1 .. 1 |-> [profile |-> profile, entry |-> <<entrypoint>>[k]]]
          BY <2>2, <3>2 DEF SingleJob, JobsWith
        <4>2. Len(jobs') = 1 /\ jobs'[1].profile = profile
          BY <4>1
        <4>3. \A k \in 1 .. 1 : k = 1
          OBVIOUS
        <4> QED
          BY <3>1, <3>2, <4>2, <4>3 DEF JobsHaveProfile
      <3>3. CASE ~shaderTarget
        <4>1. jobs' = << >>
          BY <2>2, <3>3 DEF SingleJob
        <4>2. Len(jobs') = 0
          BY <4>1
        <4>3. 1 .. Len(jobs') = {}
          BY <4>2
        <4> QED
          BY <4>3 DEF JobsHaveProfile
      <3> QED
        BY <3>2, <3>3
    <2>3. CASE ~Codegen /\ ~SingleJob
      BY <2>3, EarlySteps DEF PlanInv, JobsHaveProfile
    <2> QED
      BY <2>1, <2>2, <2>3
  <1> QED
    BY <1>1, <1>2, <1>3 DEF PlanInv

LEMMA LatePlan == ASSUME TypeOK, PlanInv, JobStep \/ TargetStep PROVE PlanInv'
  <1>1. JobInRange'
    <2>1. CASE JobStep
      BY <2>1, LateSteps DEF JobStep, CompileJob, CompileJobFails, CompileJobCrashes, EndJob,
                             Finish, ReturnWith, JobInRange
    <2>2. CASE TargetStep
      <3>1. pc = "targets" /\ UNCHANGED job
        <4>1. CASE BackEnd
          BY <4>1, BackEndSteps DEF AtTarget
        <4> QED
          BY <2>2, <4>1 DEF TargetStep, SkipOperand, SkipIgnored, UnknownTarget, AtTarget
      <3> QED
        BY <2>2, <3>1, LateSteps DEF PlanInv, JobInRange
    <2> QED
      BY <2>1, <2>2
  <1> QED
    BY <1>1, LateSteps DEF PlanInv, NothingYet, ProfileGiven, JobsHaveProfile, Early

LEMMA PlanKeeps == TypeOK /\ PlanInv /\ [Next]_vars => PlanInv'
  <1>1. PlanInv /\ UNCHANGED vars => PlanInv'
    <2> SUFFICES ASSUME PlanInv, UNCHANGED vars PROVE PlanInv'
      OBVIOUS
    <2>1. UNCHANGED <<pc, jobs, job, result, attempts, profile>>
      BY DEF vars, flagVars
    <2>2. ProfileMissing' <=> ProfileMissing
      BY DEF ProfileMissing, vars, flagVars
    <2> QED
      BY <2>1, <2>2 DEF PlanInv, NothingYet, JobInRange, ProfileGiven, JobsHaveProfile
  <1> QED
    BY <1>1, NextCases, EarlyPlan, LatePlan DEF EarlyStep, JobStep, TargetStep

-------------------------------------------------------------------------------
(* Failures and the exit code *)

HasCause(a) ==
  \/ a.outcome \in {"fail", "noargs"}
  \/ a.outcome = "unknown" /\ argv[a.pos] \notin Valued \cup Backends \cup Ignored

\* A failure on record is a failure reported, and the other way round, though
\* for a while only transpile's result knows of it.
FailuresKept ==
  \A a \in attempts :
    a.outcome \in Reported \/ pc = "crashed" \/ result # 0 \/ (pc = "targets" /\ subResult # 0)
CauseKnown ==
  (result # 0 /\ jobs # << >>) \/ (pc = "targets" /\ subResult # 0) =>
    \E a \in attempts : HasCause(a)
ExitedLate == pc = "exited" => result # 0 \/ job > Len(jobs)

ResultInv == FailuresKept /\ CauseKnown /\ ExitedLate

LEMMA StepResult ==
  ASSUME TypeOK, ResultInv, NEW o \in Outcome, pc = "targets", Step(o),
         UNCHANGED <<argv, jobs, job, result>>,
         o = "unknown" => argv[i] \notin Valued \cup Backends \cup Ignored
  PROVE  ResultInv'
  <1>1. PICK a : a = [job |-> job, pos |-> i, outcome |-> o]
    OBVIOUS
  <1>2. a.pos = i /\ a.outcome = o /\ attempts' = attempts \cup {a}
    BY <1>1 DEF Step, Report
  <1>3. o \in Reported \/ o \in {"fail", "noargs", "unknown"} \/ o = "crash"
    BY DEF Outcome, Failures
  <1>4. \/ pc' = "crashed" /\ o = "crash" /\ UNCHANGED subResult
        \/ pc' = "targets" /\ o # "crash" /\ subResult' = Record(o)
    BY DEF Step
  <1>5. o \in {"fail", "noargs", "unknown"} => HasCause(a)'
    BY <1>2 DEF HasCause
  <1>6. FailuresKept'
    <2>1. o \in {"fail", "noargs", "unknown"} /\ o # "crash" => subResult' = -1 /\ pc' = "targets"
      BY <1>4 DEF Record, Failures
    <2>2. \A b \in attempts : b.outcome \in Reported \/ result # 0 \/ subResult # 0
      BY DEF ResultInv, FailuresKept
    <2>3. subResult # 0 /\ pc' = "targets" => subResult' # 0
      BY <1>4 DEF Record
    <2>4. o \notin {"fail", "noargs", "unknown"} => o \in Reported \/ pc' = "crashed"
      BY <1>3, <1>4
    <2>5. o = "crash" => pc' = "crashed"
      BY <1>4
    <2>6. pc' \in {"targets", "crashed"}
      BY <1>4
    <2>7. o \in {"fail", "noargs", "unknown"} => o # "crash"
      OBVIOUS
    <2> QED
      BY <1>2, <2>1, <2>2, <2>3, <2>4, <2>5, <2>6, <2>7 DEF FailuresKept
  <1>7. CauseKnown'
    <2>1. \A b : HasCause(b) => HasCause(b)'
      BY DEF HasCause
    <2>2. (result # 0 /\ jobs # << >>) \/ subResult # 0 => \E b \in attempts : HasCause(b)
      BY DEF ResultInv, CauseKnown
    <2>3. pc' = "targets" /\ subResult' # 0 =>
            subResult # 0 \/ o \in {"fail", "noargs", "unknown"}
      BY <1>4 DEF Record, Failures
    <2> QED
      BY <1>2, <1>5, <2>1, <2>2, <2>3 DEF CauseKnown
  <1>8. ExitedLate'
    BY <1>4 DEF ExitedLate
  <1> QED
    BY <1>6, <1>7, <1>8 DEF ResultInv

LEMMA EarlyResult ==
  ASSUME TypeOK, PlanInv, ResultInv, EarlyStep
  PROVE  ResultInv'
  <1>1. jobs = << >> /\ result = 0 /\ attempts = {} /\ attempts' = {}
    BY EarlySteps DEF PlanInv, NothingYet
  <1>2. result' = 0 \/ (jobs' = << >> /\ result' = -1)
    BY <1>1, EarlySteps
  <1>3. pc' = "exited" => result' # 0
    BY EarlySteps DEF Early
  <1>4. pc' # "targets"
    BY EarlySteps DEF Early
  <1> QED
    BY <1>1, <1>2, <1>3, <1>4 DEF ResultInv, FailuresKept, CauseKnown, ExitedLate

LEMMA JobResult ==
  ASSUME TypeOK, ResultInv, JobStep
  PROVE  ResultInv'
  <1>1. UNCHANGED <<argv, jobs>>
    BY LateSteps
  <1>2. \A b : HasCause(b) => HasCause(b)'
    BY <1>1 DEF HasCause
  <1>3. CASE CompileJob
    <2>1. pc = "jobs" /\ pc' = "targets" /\ subResult' = 0 /\ UNCHANGED <<result, attempts>>
      BY <1>3 DEF CompileJob
    <2> QED
      BY <1>1, <1>2, <2>1 DEF ResultInv, FailuresKept, CauseKnown, ExitedLate
  <1>4. CASE CompileJobFails
    <2>1. PICK a : a = [job |-> job, pos |-> 0, outcome |-> "fail"]
      OBVIOUS
    <2>2. a \in attempts' /\ HasCause(a)'
      BY <1>4, <2>1 DEF CompileJobFails, Report, HasCause
    <2>3. ReturnWith(-1)
      BY <1>4 DEF CompileJobFails
    <2>4. pc' = "jobs" /\ result' # 0
      BY <2>3 DEF ReturnWith, Fold
    <2> QED
      BY <2>2, <2>4 DEF ResultInv, FailuresKept, CauseKnown, ExitedLate
  <1>5. CASE CompileJobCrashes
    <2>1. /\ pc' = "crashed" /\ UNCHANGED result
          /\ \A b \in attempts : b \in attempts'
      BY <1>5 DEF CompileJobCrashes, Report
    <2> QED
      BY <1>1, <1>2, <2>1 DEF ResultInv, FailuresKept, CauseKnown, ExitedLate
  <1>6. CASE EndJob
    <2>1. /\ pc = "targets" /\ pc' = "jobs" /\ UNCHANGED attempts
          /\ result' = Fold(subResult)
      BY <1>6 DEF EndJob, ReturnWith
    <2>2. result' # 0 <=> result # 0 \/ subResult # 0
      BY <2>1 DEF Fold
    <2> QED
      BY <1>1, <1>2, <2>1, <2>2 DEF ResultInv, FailuresKept, CauseKnown, ExitedLate
  <1>7. CASE Finish
    <2>1. /\ pc = "jobs" /\ pc' = "exited" /\ UNCHANGED <<attempts, result, job>>
          /\ job > Len(jobs)
      BY <1>7 DEF Finish
    <2> QED
      BY <1>1, <1>2, <2>1 DEF ResultInv, FailuresKept, CauseKnown, ExitedLate
  <1> QED
    BY <1>3, <1>4, <1>5, <1>6, <1>7 DEF JobStep

LEMMA TargetResult ==
  ASSUME TypeOK, ResultInv, TargetStep
  PROVE  ResultInv'
  <1>1. CASE BackEnd
    <2>1. PICK o \in Outcome \ {"unknown"} : Step(o)
      BY <1>1, BackEndSteps
    <2>2. pc = "targets" /\ UNCHANGED <<argv, jobs, job, result>>
      BY <1>1, BackEndSteps DEF AtTarget
    <2> QED
      BY <2>1, <2>2, StepResult
  <1>2. CASE SkipOperand \/ SkipIgnored
    <2>1. /\ pc = "targets"
          /\ UNCHANGED <<argv, pc, jobs, job, subResult, result, attempts>>
      BY <1>2 DEF SkipOperand, SkipIgnored, AtTarget, jobVars
    <2> QED
      BY <2>1 DEF ResultInv, FailuresKept, CauseKnown, ExitedLate, HasCause
  <1>3. CASE UnknownTarget
    <2>1. /\ pc = "targets" /\ Step("unknown") /\ UNCHANGED <<argv, jobs, job, result>>
          /\ argv[i] \notin Valued \cup Backends \cup Ignored
      BY <1>3 DEF UnknownTarget, KnownFlags
    <2>2. "unknown" \in Outcome
      BY DEF Outcome, Failures
    <2> QED
      BY <2>1, <2>2, StepResult
  <1> QED
    BY <1>1, <1>2, <1>3 DEF TargetStep

LEMMA ResultKeeps == TypeOK /\ PlanInv /\ ResultInv /\ [Next]_vars => ResultInv'
  <1>1. ResultInv /\ UNCHANGED vars => ResultInv'
    BY DEF ResultInv, FailuresKept, CauseKnown, ExitedLate, HasCause, vars, jobVars
  <1> QED
    BY <1>1, NextCases, EarlyResult, JobResult, TargetResult DEF EarlyStep, JobStep, TargetStep

-------------------------------------------------------------------------------
(* The targets *)

\* What the current job has tried, up to transpile's cursor.
CurrentAttempted ==
  pc = "targets" => \A p \in TargetPositions : p < i => Attempted(job, p, Outcome)

\* The argument vector is only gone to an earlier -SPIRV of the current job.
GoneBefore(j, p) ==
  \E b \in attempts : b.job = j /\ b.pos < p /\ b.pos \in TargetPositions
                      /\ argv[b.pos] = "-SPIRV"
ArgumentsGone == pc = "targets" /\ spirvArguments = "empty" => GoneBefore(job, i)

TargetInv ==
  /\ NoTargetSkipped /\ CurrentAttempted /\ OperandsStayOperands
  /\ ArgumentsGone /\ SpirvArgumentsIntact

LEMMA AttemptedGrows ==
  ASSUME attempts \subseteq attempts', UNCHANGED <<argv, operands>>
  PROVE  /\ TargetPositions' = TargetPositions
         /\ \A j, p, outcomes : Attempted(j, p, outcomes) => Attempted(j, p, outcomes)'
         /\ \A j, p : GoneBefore(j, p) => GoneBefore(j, p)'
  BY DEF TargetPositions, Attempted, GoneBefore

\* One more report, of a word that is no operand.
LEMMA ReportKeeps ==
  ASSUME CursorInv, TargetInv, NEW a \in Attempt, attempts' = attempts \cup {a},
         a.pos \notin operands, UNCHANGED <<argv, operands>>,
         a.outcome = "noargs" => GoneBefore(a.job, a.pos)
  PROVE  OperandsStayOperands' /\ SpirvArgumentsIntact'
  <1>1. /\ TargetPositions' = TargetPositions
        /\ \A j, p : GoneBefore(j, p) => GoneBefore(j, p)'
    BY AttemptedGrows
  <1>2. \A b \in attempts : b.pos \notin operands /\ (b.outcome = "noargs" => GoneBefore(b.job, b.pos))
    BY DEF TargetInv, OperandsStayOperands, SpirvArgumentsIntact, GoneBefore
  <1>3. \A b \in attempts' : b.pos \notin operands
                             /\ (b.outcome = "noargs" => GoneBefore(b.job, b.pos)')
    BY <1>1, <1>2
  <1> QED
    BY <1>3 DEF OperandsStayOperands, SpirvArgumentsIntact, GoneBefore

LEMMA SkippedKeeps ==
  ASSUME TargetInv, attempts \subseteq attempts', UNCHANGED <<argv, operands, jobs>>,
         NEW n \in Nat, n = job,
         \/ UNCHANGED job
         \/ /\ job' = n + 1
            /\ \A p \in TargetPositions : Attempted(n, p, Outcome)' \/ Attempted(n, 0, {"fail"})'
  PROVE  NoTargetSkipped'
  <1>1. /\ TargetPositions' = TargetPositions /\ Tasks' = Tasks
        /\ \A j, p, outcomes : Attempted(j, p, outcomes) => Attempted(j, p, outcomes)'
    BY AttemptedGrows DEF Tasks
  <1> SUFFICES ASSUME NEW t \in Tasks, t[1] < job'
               PROVE  Attempted(t[1], t[2], Outcome)' \/ Attempted(t[1], 0, {"fail"})'
    BY <1>1 DEF NoTargetSkipped
  <1>2. t[1] \in 1 .. Len(jobs) /\ t[2] \in TargetPositions
    BY DEF Tasks
  <1>3. CASE t[1] < job
    BY <1>1, <1>3 DEF TargetInv, NoTargetSkipped
  <1>4. CASE ~(t[1] < job)
    <2>1. job' = n + 1
      BY <1>4
    <2>2. t[1] = n
      <3>1. PICK x \in Int : x = t[1]
        BY <1>2
      <3>2. x < n + 1 /\ ~(x < n)
        BY <1>4, <2>1, <3>1
      <3> QED
        BY <3>1, <3>2
    <2> QED
      BY <1>2, <1>4, <2>2
  <1> QED
    BY <1>3, <1>4

LEMMA StepTarget ==
  ASSUME TypeOK, CursorInv, TargetInv, pc = "targets", i <= Len(argv), argv[i] \notin Valued,
         NEW o \in Outcome, Step(o), UNCHANGED <<argv, operands, jobs, job>>,
         o = "noargs" => argv[i] = "-SPIRV" /\ spirvArguments = "empty",
         UNCHANGED spirvArguments \/ argv[i] = "-SPIRV"
  PROVE  TargetInv'
  <1>1. PICK a : a = [job |-> job, pos |-> i, outcome |-> o]
    OBVIOUS
  <1>2. a.job = job /\ a.pos = i /\ a.outcome = o /\ attempts' = attempts \cup {a}
    BY <1>1 DEF Step, Report
  <1>3. a \in Attempt /\ i \in Nat
    BY <1>1 DEF Attempt, TypeOK
  <1>4. i >= 3 /\ i \notin operands
    BY DEF CursorInv, OnNoOperand
  <1>5. i' = i + 1 \/ pc' = "crashed"
    BY DEF Step
  <1>6. /\ TargetPositions' = TargetPositions
        /\ \A j, p, outcomes : Attempted(j, p, outcomes) => Attempted(j, p, outcomes)'
        /\ \A j, p : GoneBefore(j, p) => GoneBefore(j, p)'
    BY <1>2, AttemptedGrows
  <1>7. OperandsStayOperands' /\ SpirvArgumentsIntact'
    <2>1. a.outcome = "noargs" => GoneBefore(a.job, a.pos)
      BY <1>2 DEF TargetInv, ArgumentsGone
    <2> QED
      BY <1>2, <1>3, <1>4, <2>1, ReportKeeps
  <1>8. NoTargetSkipped'
    <2>1. PICK n \in Nat : n = job
      BY DEF TypeOK
    <2> QED
      BY <1>2, <2>1, SkippedKeeps
  <1>9. CurrentAttempted'
    <2> SUFFICES ASSUME pc' # "crashed", NEW p \in TargetPositions, p < i'
                 PROVE  Attempted(job, p, Outcome)'
      BY <1>6 DEF CurrentAttempted
    <2>1. p \in Nat /\ p < i + 1
      BY <1>5 DEF TargetPositions
    <2>2. CASE p = i
      BY <1>2, <2>2 DEF Attempted
    <2>3. CASE p < i
      BY <1>6, <2>3 DEF TargetInv, CurrentAttempted
    <2> QED
      BY <1>3, <2>1, <2>2, <2>3
  <1>10. ArgumentsGone'
    <2>3. PICK n, k : n = job /\ k = i
      OBVIOUS
    <2> SUFFICES ASSUME pc' = "targets", spirvArguments' = "empty"
                 PROVE  GoneBefore(n, k + 1)'
      <3>1. pc' = "targets" => job' = n /\ i' = k + 1
        BY <1>5, <2>3
      <3> QED
        BY <3>1 DEF ArgumentsGone, GoneBefore
    <2>1. CASE argv[i] = "-SPIRV"
      <3>1. Len(argv) \in Nat /\ "-SPIRV" \in Backends
        BY DEF TypeOK, Backends
      <3>2. i \in TargetPositions
        BY <1>3, <1>4, <2>1, <3>1 DEF TargetPositions
      <3>3. i < i + 1
        BY <1>3
      <3> QED
        BY <1>2, <1>6, <2>1, <2>3, <3>2, <3>3 DEF GoneBefore
    <2>2. CASE argv[i] # "-SPIRV"
      <3>1. PICK b \in attempts : /\ b.job = job /\ b.pos < i /\ b.pos \in TargetPositions
                                  /\ argv[b.pos] = "-SPIRV"
        BY <2>2 DEF TargetInv, ArgumentsGone, GoneBefore
      <3>2. b.pos < i + 1
        <4>1. b.pos \in Nat
          BY <3>1 DEF TargetPositions
        <4> QED
          BY <1>3, <3>1, <4>1
      <3> QED
        BY <1>2, <1>6, <2>3, <3>1, <3>2 DEF GoneBefore
    <2> QED
      BY <2>1, <2>2
  <1> QED
    BY <1>7, <1>8, <1>9, <1>10 DEF TargetInv

LEMMA EarlyTarget ==
  ASSUME TypeOK, PlanInv, EarlyStep
  PROVE  TargetInv'
  <1>1. attempts' = {} /\ job' = 1 /\ pc' # "targets"
    BY EarlySteps DEF PlanInv, NothingYet, Early
  <1>2. \A t \in Tasks' : ~(t[1] < 1)
    BY DEF Tasks
  <1> QED
    BY <1>1, <1>2 DEF TargetInv, NoTargetSkipped, CurrentAttempted, OperandsStayOperands,
                      ArgumentsGone, SpirvArgumentsIntact

LEMMA JobTarget ==
  ASSUME TypeOK, CursorInv, PlanInv, TargetInv, JobStep
  PROVE  TargetInv'
  <1>1. UNCHANGED <<argv, operands, jobs>> /\ job \in Nat
    BY LateSteps DEF TypeOK
  <1> PICK n \in Nat : n = job
    BY <1>1
  <1>2. CASE CompileJob \/ Finish \/ EndJob
    <2>1. UNCHANGED attempts
      BY <1>2 DEF CompileJob, Finish, EndJob
    <2>2. /\ TargetPositions' = TargetPositions
          /\ \A j, p, outcomes : Attempted(j, p, outcomes) => Attempted(j, p, outcomes)'
          /\ \A j, p : GoneBefore(j, p) => GoneBefore(j, p)'
      BY <1>1, <2>1, AttemptedGrows
    <2>3. OperandsStayOperands' /\ SpirvArgumentsIntact'
      BY <1>1, <2>1, <2>2 DEF TargetInv, OperandsStayOperands, SpirvArgumentsIntact
    <2>4. NoTargetSkipped'
      <3>1. CASE CompileJob \/ Finish
        BY <1>1, <2>1, <3>1, SkippedKeeps DEF CompileJob, Finish
      <3>2. CASE EndJob
        <4>1. pc = "targets" /\ i > Len(argv) /\ job' = job + 1
          BY <3>2 DEF EndJob, TargetsDone, ReturnWith
        <4>2. \A p \in TargetPositions : p < i
          <5>1. i \in Nat /\ Len(argv) \in Nat
            BY DEF TypeOK
          <5> QED
            BY <4>1, <5>1 DEF TargetPositions
        <4>3. \A p \in TargetPositions : Attempted(n, p, Outcome)
          BY <4>1, <4>2 DEF TargetInv, CurrentAttempted
        <4>4. \A p \in TargetPositions : Attempted(n, p, Outcome)'
          BY <2>2, <4>3
        <4> QED
          BY <1>1, <2>1, <4>1, <4>4, SkippedKeeps
      <3> QED
        BY <1>2, <3>1, <3>2
    <2>5. CurrentAttempted' /\ ArgumentsGone'
      <3>1. CASE CompileJob
        <4>1. i' = 3 /\ job \in 1 .. Len(jobs)
          <5>1. i' = 3 /\ job <= Len(jobs) /\ job \in Nat \ {0} /\ Len(jobs) \in Nat
            <6>1. i' = 3 /\ job <= Len(jobs)
              BY <3>1 DEF CompileJob, FirstArgument
            <6>2. job \in Nat \ {0} /\ Len(jobs) \in Nat
              BY DEF TypeOK
            <6> QED
              BY <6>1, <6>2
          <5> QED
            BY <5>1
        <4>2. spirvArguments' = "full"
          BY <3>1, <4>1 DEF CompileJob, FreshArguments, PlanInv, JobsHaveProfile
        <4>3. \A p \in TargetPositions : ~(p < 3)
          BY DEF TargetPositions
        <4> QED
          BY <2>2, <4>1, <4>2, <4>3 DEF CurrentAttempted, ArgumentsGone
      <3>2. CASE Finish \/ EndJob
        BY <3>2 DEF Finish, EndJob, ReturnWith, CurrentAttempted, ArgumentsGone
      <3> QED
        BY <1>2, <3>1, <3>2
    <2> QED
      BY <2>3, <2>4, <2>5 DEF TargetInv
  <1>3. CASE CompileJobFails \/ CompileJobCrashes
    <2>1. PICK o \in {"fail", "crash"} :
            /\ Report(0, o) /\ pc' # "targets"
            /\ IF o = "fail" THEN job' = job + 1 ELSE UNCHANGED job
      BY <1>3 DEF CompileJobFails, CompileJobCrashes, ReturnWith
    <2>2. PICK a : a = [job |-> job, pos |-> 0, outcome |-> o]
      OBVIOUS
    <2>3. /\ a \in Attempt /\ attempts' = attempts \cup {a}
          /\ a.job = job /\ a.pos = 0 /\ a.outcome = o
      BY <1>1, <2>1, <2>2 DEF Report, Attempt, Outcome, Failures
    <2>4. 0 \notin operands
      BY DEF CursorInv, OperandsFollow
    <2>5. OperandsStayOperands' /\ SpirvArgumentsIntact'
      <3>1. a.outcome # "noargs"
        BY <2>3
      <3> QED
        BY <1>1, <2>3, <2>4, <3>1, ReportKeeps
    <2>6. NoTargetSkipped'
      <3>1. o = "fail" => Attempted(n, 0, {"fail"})'
        BY <2>3 DEF Attempted
      <3>2. UNCHANGED job \/ (o = "fail" /\ job' = n + 1)
        BY <2>1
      <3> QED
        BY <1>1, <2>3, <3>1, <3>2, SkippedKeeps
    <2> QED
      BY <2>1, <2>5, <2>6 DEF TargetInv, CurrentAttempted, ArgumentsGone
  <1> QED
    BY <1>2, <1>3 DEF JobStep

LEMMA TargetTarget ==
  ASSUME TypeOK, CursorInv, TargetInv, TargetStep
  PROVE  TargetInv'
  <1>1. UNCHANGED <<argv, operands, jobs>>
    BY LateSteps
  <1>2. CASE BackEnd
    <2>1. /\ pc = "targets" /\ i <= Len(argv) /\ argv[i] \notin Valued /\ UNCHANGED job
          /\ UNCHANGED spirvArguments \/ argv[i] = "-SPIRV"
      BY <1>2, BackEndSteps DEF AtTarget, Backends, Valued
    <2>2. PICK o \in Outcome :
            Step(o) /\ (o = "noargs" => argv[i] = "-SPIRV" /\ spirvArguments = "empty")
      BY <1>2, BackEndSteps
    <2> QED
      BY <1>1, <2>1, <2>2, StepTarget
  <1>3. CASE UnknownTarget
    <2>1. /\ pc = "targets" /\ i <= Len(argv) /\ argv[i] \notin Valued /\ Step("unknown")
          /\ UNCHANGED <<job, spirvArguments>>
      BY <1>3 DEF UnknownTarget, KnownFlags
    <2>2. "unknown" \in Outcome
      BY DEF Outcome, Failures
    <2> QED
      BY <1>1, <2>1, <2>2, StepTarget
  <1>4. CASE SkipOperand \/ SkipIgnored
    <2>1. /\ pc = "targets" /\ i <= Len(argv)
          /\ UNCHANGED <<pc, job, attempts, spirvArguments>>
      BY <1>4 DEF SkipOperand, SkipIgnored, AtTarget, jobVars
    <2>2. /\ TargetPositions' = TargetPositions
          /\ \A j, p, outcomes : Attempted(j, p, outcomes) => Attempted(j, p, outcomes)'
          /\ \A j, p : GoneBefore(j, p) => GoneBefore(j, p)'
      BY <1>1, <2>1, AttemptedGrows
    <2>3. i \in Nat /\ i' \in Nat /\ i < i' /\ \A p \in TargetPositions : p < i' => p < i
      <3>1. i \in Nat /\ i >= 3
        BY <2>1 DEF TypeOK, CursorInv, OnNoOperand
      <3>2. CASE SkipIgnored
        <4>1. i' = i + 1 /\ argv[i] \notin Backends
          BY <3>2 DEF SkipIgnored, AtTarget, Ignored, Backends
        <4>2. i \notin TargetPositions
          BY <4>1 DEF TargetPositions
        <4> QED
          BY <3>1, <4>1, <4>2 DEF TargetPositions
      <3>3. CASE SkipOperand
        <4>1. i' = i + 2 /\ argv[i] \in Valued /\ argv[i] \notin Backends
          BY <3>3 DEF SkipOperand, AtTarget, AfterOperand, Valued, Backends
        <4>2. i + 1 \in operands
          BY <2>1, <3>1, <4>1 DEF TypeOK, CursorInv, FlagsHaveOperands, OnNoOperand
        <4>3. i \notin TargetPositions /\ i + 1 \notin TargetPositions
          BY <4>1, <4>2 DEF TargetPositions
        <4> QED
          BY <3>1, <4>1, <4>3 DEF TargetPositions
      <3> QED
        BY <1>4, <3>2, <3>3
    <2>4. OperandsStayOperands' /\ SpirvArgumentsIntact' /\ NoTargetSkipped'
      <3>1. NoTargetSkipped'
        <4>1. PICK n \in Nat : n = job
          BY DEF TypeOK
        <4> QED
          BY <1>1, <2>1, <4>1, SkippedKeeps
      <3> QED
        BY <1>1, <2>1, <2>2, <3>1 DEF TargetInv, OperandsStayOperands, SpirvArgumentsIntact
    <2>5. CurrentAttempted'
      BY <2>1, <2>2, <2>3 DEF TargetInv, CurrentAttempted
    <2>6. ArgumentsGone'
      <3>3. PICK n, k : n = job /\ k = i'
        OBVIOUS
      <3> SUFFICES ASSUME spirvArguments' = "empty", pc' = "targets" PROVE GoneBefore(n, k)'
        BY <2>1, <3>3 DEF ArgumentsGone, GoneBefore
      <3>1. PICK b \in attempts : /\ b.job = job /\ b.pos < i /\ b.pos \in TargetPositions
                                  /\ argv[b.pos] = "-SPIRV"
        BY <2>1 DEF TargetInv, ArgumentsGone, GoneBefore
      <3>2. b.pos < i'
        <4>1. b.pos \in Nat
          BY <3>1 DEF TargetPositions
        <4> QED
          BY <2>3, <3>1, <4>1
      <3> QED
        BY <1>1, <2>1, <2>2, <3>1, <3>2, <3>3 DEF GoneBefore
    <2> QED
      BY <2>4, <2>5, <2>6 DEF TargetInv
  <1> QED
    BY <1>2, <1>3, <1>4 DEF TargetStep

LEMMA TargetKeeps == TypeOK /\ CursorInv /\ PlanInv /\ TargetInv /\ [Next]_vars => TargetInv'
  <1>1. TargetInv /\ UNCHANGED vars => TargetInv'
    <2> SUFFICES ASSUME TargetInv, UNCHANGED vars PROVE TargetInv'
      OBVIOUS
    <2>1. UNCHANGED <<argv, pc, i, jobs, job, spirvArguments, operands, attempts>>
      BY DEF vars, flagVars, jobVars
    <2>2. /\ TargetPositions' = TargetPositions /\ Tasks' = Tasks
          /\ \A j, p, outcomes : Attempted(j, p, outcomes) => Attempted(j, p, outcomes)'
          /\ \A j, p : GoneBefore(j, p) => GoneBefore(j, p)'
      BY <2>1, AttemptedGrows DEF Tasks
    <2>3. PICK n, k : n = job /\ k = i
      OBVIOUS
    <2>4. NoTargetSkipped' /\ CurrentAttempted'
      BY <2>1, <2>2 DEF TargetInv, NoTargetSkipped, CurrentAttempted
    <2>5. ArgumentsGone'
      <3>1. ArgumentsGone <=> (pc = "targets" /\ spirvArguments = "empty" => GoneBefore(n, k))
        BY <2>3 DEF ArgumentsGone
      <3>2. ArgumentsGone' <=> (pc = "targets" /\ spirvArguments = "empty" => GoneBefore(n, k)')
        BY <2>1, <2>3 DEF ArgumentsGone, GoneBefore
      <3> QED
        BY <2>2, <3>1, <3>2 DEF TargetInv
    <2>6. OperandsStayOperands' /\ SpirvArgumentsIntact'
      BY <2>1, <2>2 DEF TargetInv, OperandsStayOperands, SpirvArgumentsIntact
    <2> QED
      BY <2>4, <2>5, <2>6 DEF TargetInv
  <1> QED
    BY <1>1, NextCases, EarlyTarget, JobTarget, TargetTarget DEF EarlyStep, JobStep, TargetStep

-------------------------------------------------------------------------------
(* The theorems *)

IInv == TypeOK /\ CursorInv /\ PlanInv /\ ResultInv /\ TargetInv

LEMMA InitIInv == Init => IInv
  <1> SUFFICES ASSUME Init PROVE IInv
    OBVIOUS
  <1>1. pc = "start" /\ i = 3 /\ jobs = << >> /\ job = 1 /\ result = 0
    BY DEF Init
  <1>2. operands = {} /\ attempts = {}
    BY DEF Init
  <1>3. CursorInv
    BY <1>1, <1>2 DEF CursorInv, OperandsFollow, FlagsHaveOperands, OperandsBehind, OnNoOperand
  <1>4. PlanInv
    <2>1. 1 .. Len(jobs) = {}
      BY <1>1
    <2> QED
      BY <1>1, <1>2, <2>1 DEF PlanInv, NothingYet, JobInRange, ProfileGiven, JobsHaveProfile
  <1>5. ResultInv
    BY <1>1, <1>2 DEF ResultInv, FailuresKept, CauseKnown, ExitedLate
  <1>6. TargetInv
    <2>1. \A t \in Tasks : ~(t[1] < 1)
      BY DEF Tasks
    <2> QED
      BY <1>1, <1>2, <2>1 DEF TargetInv, NoTargetSkipped, CurrentAttempted,
                              OperandsStayOperands, ArgumentsGone, SpirvArgumentsIntact
  <1> QED
    BY <1>3, <1>4, <1>5, <1>6, InitType DEF IInv

LEMMA Invariance == Spec => []IInv
  <1>1. IInv /\ [Next]_vars => IInv'
    BY TypeKeeps, CursorKeeps, PlanKeeps, ResultKeeps, TargetKeeps DEF IInv
  <1> QED
    BY <1>1, InitIInv, PTL DEF Spec

\* Exit code 0 is never a lie: whatever fails, in whichever back end of whichever
\* entry point, main and transpile fold it into the exit code, and no target is
\* left out.
THEOREM ZeroMeansBuilt == Spec => []ExitZeroMeansBuilt
  <1>1. IInv => ExitZeroMeansBuilt
    <2> SUFFICES ASSUME IInv, pc = "exited", result = 0
                 PROVE  /\ \A t \in Tasks : Attempted(t[1], t[2], Reported)
                        /\ \A a \in attempts : a.outcome \in Reported
      BY DEF ExitZeroMeansBuilt
    <2>1. \A a \in attempts : a.outcome \in Reported
      BY DEF IInv, ResultInv, FailuresKept
    <2>2. ASSUME NEW t \in Tasks PROVE Attempted(t[1], t[2], Reported)
      <3>1. t[1] < job
        <4>1. job > Len(jobs)
          BY DEF IInv, ResultInv, ExitedLate
        <4>2. PICK x \in 1 .. Len(jobs) : x = t[1]
          BY DEF Tasks
        <4>3. Len(jobs) \in Nat /\ job \in Nat
          BY DEF IInv, TypeOK
        <4> QED
          BY <4>1, <4>2, <4>3
      <3>2. Attempted(t[1], t[2], Outcome) \/ Attempted(t[1], 0, {"fail"})
        BY <3>1 DEF IInv, TargetInv, NoTargetSkipped
      <3>3. ~Attempted(t[1], 0, {"fail"})
        BY <2>1 DEF Attempted, Reported
      <3> QED
        BY <2>1, <3>2, <3>3 DEF Attempted
    <2> QED
      BY <2>1, <2>2
  <1> QED
    BY <1>1, Invariance, PTL

\* And a failure is never made up: once there are jobs, exit code -1 goes back to
\* a compilation, a back end, or a word that neither pass gives a meaning to.
THEOREM FailuresHaveCauses == Spec => []FailureHasCause
  <1>1. IInv => FailureHasCause
    BY DEF IInv, ResultInv, CauseKnown, HasCause, FailureHasCause
  <1> QED
    BY <1>1, Invariance, PTL

\* A failing target costs neither the job's later targets nor the later jobs.
THEOREM NoTargetIsSkipped == Spec => []NoTargetSkipped
  BY Invariance, PTL DEF IInv, TargetInv

\* main and transpile agree on which words of any command line are operands.
THEOREM PassesAgree == Spec => []OperandsStayOperands
  BY Invariance, PTL DEF IInv, TargetInv

\* No job comes to the back ends without a profile, so that none of them finds
\* the null result that transpile leaves then.
THEOREM ProfilesAreGiven == Spec => []JobsHaveProfile
  BY Invariance, PTL DEF IInv, PlanInv

\* Only an earlier -SPIRV of the same job takes the argument vector from a later.
THEOREM ArgumentsStayWithJob == Spec => []SpirvArgumentsIntact
  BY Invariance, PTL DEF IInv, TargetInv

-------------------------------------------------------------------------------
(* The refinement of Batch *)

\* The mapping of Batch's variables, as in Driver.
Phase == CASE pc \in {"start", "parse", "setup", "codegen"} -> "planning"
           [] pc \in {"jobs", "targets"} -> "running"
           [] OTHER -> pc
Todo == {t \in Tasks : t[1] >= job /\ (t[1] = job /\ pc = "targets" => t[2] >= i)}
Taken == {t \in Tasks : Attempted(t[1], t[2], Outcome)}
Failed == result # 0 \/ (pc = "targets" /\ subResult # 0)
Code == IF pc = "exited" THEN result ELSE 0

LEMMA PhaseCases ==
  ASSUME TypeOK
  PROVE  /\ pc \in Early => Phase = "planning"
         /\ pc \in {"jobs", "targets"} => Phase = "running"
         /\ pc \in {"exited", "crashed"} => Phase = pc
  BY DEF TypeOK, Phase, Early

LEMMA MapReject ==
  ASSUME Phase = "planning", Phase' = "exited", Code' = -1, Failed', Todo' = Todo, Taken' = Taken
  PROVE  B!Reject
  BY DEF B!Reject, Phase, Todo, Taken, Failed, Code

LEMMA MapPlan ==
  ASSUME Phase = "planning", Phase' = "running", Todo' \subseteq Nat \X Nat,
         Taken' = Taken, Failed' <=> Failed, Code' = Code
  PROVE  B!Plan
  BY DEF B!Plan, Phase, Todo, Taken, Failed, Code

LEMMA MapBuild ==
  ASSUME Phase = "running", Phase' = "running", Code' = Code, Failed => Failed',
         NEW t \in Todo, Todo' = Todo \ {t}, Taken' = Taken \cup {t}
  PROVE  B!Build
  BY DEF B!Build, Phase, Todo, Taken, Failed, Code

LEMMA MapAbandon ==
  ASSUME Phase = "running", Phase' = "running", Code' = Code, Failed',
         Todo' \subseteq Todo, Taken' = Taken
  PROVE  B!Abandon
  BY DEF B!Abandon, Phase, Todo, Taken, Failed, Code

LEMMA MapFinish ==
  ASSUME Phase = "running", Phase' = "exited", Todo = {}, Todo' = {}, Taken' = Taken,
         Failed' <=> Failed, Code' = IF Failed THEN -1 ELSE 0
  PROVE  B!Finish
  BY DEF B!Finish, Phase, Todo, Taken, Failed, Code

LEMMA MapCrash ==
  ASSUME Phase \in {"planning", "running"}, Phase' = "crashed", Code' = Code
  PROVE  B!Crash
  BY DEF B!Crash, Phase, Code

LEMMA MapStutter ==
  ASSUME Phase' = Phase, Todo' = Todo, Taken' = Taken, Failed' <=> Failed, Code' = Code
  PROVE  UNCHANGED B!batchVars
  BY DEF B!batchVars, Phase, Todo, Taken, Failed, Code

LEMMA MapInit ==
  ASSUME Phase = "planning", Todo = {}, Taken = {}, ~Failed, Code = 0
  PROVE  B!BatchInit
  BY DEF B!BatchInit, Phase, Todo, Taken, Failed, Code

LEMMA NoTasks == jobs = << >> => Tasks = {} /\ Todo = {} /\ Taken = {}
  <1> SUFFICES ASSUME jobs = << >> PROVE Tasks = {} /\ Todo = {} /\ Taken = {}
    OBVIOUS
  <1>1. 1 .. Len(jobs) = {}
    OBVIOUS
  <1>2. Tasks = {}
    BY <1>1 DEF Tasks
  <1> QED
    BY <1>2 DEF Todo, Taken

LEMMA InitRefines == Init => B!BatchInit
  <1> SUFFICES ASSUME Init PROVE B!BatchInit
    OBVIOUS
  <1>1. pc = "start" /\ jobs = << >> /\ result = 0
    BY DEF Init
  <1>2. Phase = "planning" /\ ~Failed /\ Code = 0
    BY <1>1 DEF Phase, Failed, Code
  <1> QED
    BY <1>1, <1>2, NoTasks, MapInit

\* While main plans, there is nothing to do and nothing has failed.
LEMMA EarlyRefines ==
  ASSUME IInv, EarlyStep
  PROVE  B!BatchNext \/ UNCHANGED B!batchVars
  <1>1. TypeOK /\ TypeOK' /\ PlanInv /\ PlanInv'
    <2>1. [Next]_vars
      BY DEF EarlyStep, Next
    <2> QED
      BY <2>1, TypeKeeps, PlanKeeps DEF IInv
  <1>2. /\ pc \in Early /\ jobs = << >> /\ result = 0 /\ attempts = {} /\ attempts' = {}
    BY <1>1, EarlySteps DEF PlanInv, NothingYet
  <1>3. Phase = "planning" /\ Todo = {} /\ Taken = {} /\ ~Failed /\ Code = 0
    BY <1>1, <1>2, PhaseCases, NoTasks DEF Failed, Code, Early
  <1>4. Taken' = {}
    BY <1>2 DEF Taken, Attempted
  <1>5. jobs' = << >> => Todo' = {}
    <2>1. ASSUME jobs' = << >> PROVE Todo' = {}
      <3>1. 1 .. Len(jobs') = {}
        BY <2>1
      <3> QED
        BY <3>1 DEF Todo, Tasks
    <2> QED
      BY <2>1
  <1>6. CASE pc' \in Early
    <2>1. jobs' = << >> /\ result' = 0
      BY <1>1, <1>2, <1>6, EarlySteps DEF Early
    <2>2. Phase' = "planning" /\ ~Failed' /\ Code' = 0
      BY <1>6, <2>1 DEF Phase, Early, Failed, Code
    <2> QED
      BY <1>3, <1>4, <1>5, <2>1, <2>2, MapStutter
  <1>7. CASE pc' = "exited"
    <2>1. jobs' = << >> /\ result' = -1
      BY <1>1, <1>2, <1>7, EarlySteps DEF Early
    <2>2. Phase' = "exited" /\ Failed' /\ Code' = -1
      BY <1>7, <2>1 DEF Phase, Failed, Code
    <2> QED
      BY <1>3, <1>4, <1>5, <2>1, <2>2, MapReject DEF B!BatchNext
  <1>8. CASE pc' = "crashed"
    <2>1. Phase' = "crashed" /\ Code' = 0
      BY <1>8 DEF Phase, Code
    <2> QED
      BY <1>3, <2>1, MapCrash DEF B!BatchNext
  <1>9. CASE pc' = "jobs"
    <2>1. result' = 0
      BY <1>1, <1>2, <1>9, EarlySteps DEF Early
    <2>2. Phase' = "running" /\ ~Failed' /\ Code' = 0
      BY <1>9, <2>1 DEF Phase, Failed, Code
    <2>3. Todo' \subseteq Nat \X Nat
      BY DEF Todo, Tasks, TargetPositions
    <2> QED
      BY <1>3, <1>4, <2>2, <2>3, MapPlan DEF B!BatchNext
  <1> QED
    BY <1>1, <1>6, <1>7, <1>8, <1>9, EarlySteps

\* What a task is does not change once there are jobs.
LEMMA TasksStay ==
  ASSUME UNCHANGED <<argv, operands, jobs>>
  PROVE  /\ TargetPositions' = TargetPositions /\ Tasks' = Tasks
         /\ \A t \in Tasks : t[1] \in Nat \ {0} /\ t[2] \in Nat \ {0} /\ t = <<t[1], t[2]>>
  BY DEF Tasks, TargetPositions

LEMMA JobRefines ==
  ASSUME IInv, JobStep
  PROVE  B!BatchNext \/ UNCHANGED B!batchVars
  <1>1. /\ TypeOK /\ UNCHANGED <<argv, operands, jobs>>
        /\ pc \in {"jobs", "targets"} /\ pc' \in {"jobs", "targets", "exited", "crashed"}
    BY LateSteps DEF IInv
  <1>2. /\ TargetPositions' = TargetPositions /\ Tasks' = Tasks
        /\ \A t \in Tasks : t[1] \in Nat /\ t[2] \in Nat
    BY <1>1, TasksStay
  <1>3. Phase = "running" /\ Code = 0 /\ job \in Nat /\ result \in {0, -1} /\ subResult \in {0, -1}
    BY <1>1, PhaseCases DEF Code, TypeOK
  <1>4. CASE CompileJob
    <2>1. /\ pc = "jobs" /\ pc' = "targets" /\ i' = 3 /\ subResult' = 0
          /\ UNCHANGED <<job, result, attempts>>
      BY <1>4 DEF CompileJob, FirstArgument
    <2>2. Phase' = "running" /\ Code' = 0 /\ (Failed' <=> Failed)
      BY <2>1 DEF Phase, Code, Failed
    <2>3. Taken' = Taken
      BY <1>2, <2>1 DEF Taken, Attempted
    <2>4. \A t \in Tasks : t[2] >= 3
      BY DEF Tasks, TargetPositions
    <2>5. Todo' = Todo
      BY <1>2, <2>1, <2>4 DEF Todo
    <2> QED
      BY <1>3, <2>2, <2>3, <2>5, MapStutter
  <1>5. CASE CompileJobFails
    <2>1. pc = "jobs" /\ Report(0, "fail") /\ ReturnWith(-1)
      BY <1>5 DEF CompileJobFails
    <2>2. pc' = "jobs" /\ job' = job + 1 /\ result' # 0
      BY <2>1 DEF ReturnWith, Fold
    <2>3. Phase' = "running" /\ Code' = 0 /\ Failed'
      BY <2>2 DEF Phase, Code, Failed
    <2>4. Taken' = Taken
      <3>1. PICK a : a = [job |-> job, pos |-> 0, outcome |-> "fail"]
        OBVIOUS
      <3>2. a.pos = 0 /\ attempts' = attempts \cup {a}
        BY <2>1, <3>1 DEF Report
      <3>3. \A t \in Tasks : t[2] # 0
        BY DEF Tasks, TargetPositions
      <3> QED
        BY <1>2, <3>2, <3>3 DEF Taken, Attempted
    <2>5. Todo' \subseteq Todo
      <3>1. \A t \in Tasks : t[1] >= job + 1 => t[1] >= job /\ t[1] # job
        BY <1>2, <1>3
      <3> QED
        BY <1>2, <2>1, <2>2, <3>1 DEF Todo
    <2> QED
      BY <1>3, <2>3, <2>4, <2>5, MapAbandon DEF B!BatchNext
  <1>6. CASE CompileJobCrashes
    <2>1. pc' = "crashed"
      BY <1>6 DEF CompileJobCrashes
    <2>2. Phase' = "crashed" /\ Code' = 0
      BY <2>1 DEF Phase, Code
    <2> QED
      BY <1>3, <2>2, MapCrash DEF B!BatchNext
  <1>7. CASE EndJob
    <2>1. /\ pc = "targets" /\ pc' = "jobs" /\ i > Len(argv) /\ UNCHANGED attempts
          /\ job' = job + 1 /\ result' = Fold(subResult)
      BY <1>7 DEF EndJob, TargetsDone, ReturnWith
    <2>2. result' # 0 <=> result # 0 \/ subResult # 0
      BY <2>1 DEF Fold
    <2>3. Phase' = "running" /\ Code' = 0 /\ (Failed' <=> Failed)
      BY <2>1, <2>2 DEF Phase, Code, Failed
    <2>4. Taken' = Taken
      BY <1>2, <2>1 DEF Taken, Attempted
    <2>5. Todo' = Todo
      <3>1. \A t \in Tasks : ~(t[2] >= i)
        <4>1. i \in Nat /\ Len(argv) \in Nat
          BY <1>1 DEF TypeOK
        <4> QED
          BY <2>1, <4>1 DEF Tasks, TargetPositions
      <3>2. \A t \in Tasks : t[1] >= job + 1 <=> t[1] >= job /\ t[1] # job
        BY <1>2, <1>3
      <3> QED
        BY <1>2, <2>1, <3>1, <3>2 DEF Todo
    <2> QED
      BY <1>3, <2>3, <2>4, <2>5, MapStutter
  <1>8. CASE Finish
    <2>1. /\ pc = "jobs" /\ pc' = "exited" /\ job > Len(jobs) /\ UNCHANGED <<attempts, job, result>>
      BY <1>8 DEF Finish
    <2>2. Phase' = "exited" /\ Code' = result /\ (Failed' <=> Failed) /\ (Failed <=> result # 0)
      BY <2>1 DEF Phase, Code, Failed
    <2>3. Code' = IF Failed THEN -1 ELSE 0
      BY <1>3, <2>2
    <2>4. Taken' = Taken
      BY <1>2, <2>1 DEF Taken, Attempted
    <2>5. Todo = {} /\ Todo' = {}
      <3>1. Len(jobs) \in Nat
        BY <1>1 DEF TypeOK
      <3>2. \A t \in Tasks : ~(t[1] >= job)
        BY <1>3, <2>1, <3>1 DEF Tasks
      <3> QED
        BY <1>2, <2>1, <3>2 DEF Todo
    <2> QED
      BY <1>3, <2>2, <2>3, <2>4, <2>5, MapFinish DEF B!BatchNext
  <1> QED
    BY <1>4, <1>5, <1>6, <1>7, <1>8 DEF JobStep

\* A report on a word that is a target takes one task; on any other word it is a
\* failure, and takes none.
LEMMA StepRefines ==
  ASSUME IInv, pc = "targets", i <= Len(argv), NEW o \in Outcome, Step(o),
         UNCHANGED <<argv, operands, jobs, job, result>>,
         argv[i] \in Backends \/ (argv[i] \notin Backends /\ o = "unknown")
  PROVE  B!BatchNext
  <1>1. /\ TypeOK /\ job \in Nat /\ i \in Nat /\ i >= 3 /\ i \notin operands
        /\ job \in 1 .. Len(jobs)
    <2>1. TypeOK /\ i >= 3 /\ i \notin operands /\ job <= Len(jobs)
      BY DEF IInv, CursorInv, OnNoOperand, PlanInv, JobInRange
    <2>2. job \in Nat \ {0} /\ i \in Nat /\ Len(jobs) \in Nat
      BY <2>1 DEF TypeOK
    <2> QED
      BY <2>1, <2>2
  <1>2. /\ TargetPositions' = TargetPositions /\ Tasks' = Tasks
        /\ \A t \in Tasks : t[1] \in Nat /\ t[2] \in Nat /\ t = <<t[1], t[2]>>
    BY TasksStay
  <1>3. Phase = "running" /\ Code = 0
    BY <1>1, PhaseCases DEF Code
  <1>4. CASE pc' = "crashed"
    <2>1. Phase' = "crashed" /\ Code' = 0
      BY <1>4 DEF Phase, Code
    <2> QED
      BY <1>3, <2>1, MapCrash DEF B!BatchNext
  <1>5. CASE pc' # "crashed"
    <2>1. pc' = "targets" /\ i' = i + 1 /\ subResult' = Record(o)
      BY <1>5 DEF Step
    <2>2. Phase' = "running" /\ Code' = 0
      BY <2>1 DEF Phase, Code
    <2>3. Failed => Failed'
      BY <2>1 DEF Failed, Record
    <2>4. PICK a : a = [job |-> job, pos |-> i, outcome |-> o]
      OBVIOUS
    <2>5. /\ a.job = job /\ a.pos = i /\ a.outcome \in Outcome
          /\ attempts' = attempts \cup {a}
      BY <2>4 DEF Step, Report
    <2>6. CASE argv[i] \in Backends
      <3>1. i \in TargetPositions
        <4>1. Len(argv) \in Nat
          BY <1>1 DEF TypeOK
        <4> QED
          BY <1>1, <2>6, <4>1 DEF TargetPositions
      <3>2. PICK t : t = <<job, i>>
        OBVIOUS
      <3>3. t \in Tasks /\ t[1] = job /\ t[2] = i
        BY <1>1, <3>1, <3>2 DEF Tasks
      <3>4. \A u \in Tasks : u[1] = job /\ u[2] = i => u = t
        BY <1>2, <3>2
      <3>5. t \in Todo
        BY <1>1, <3>3 DEF Todo
      <3>6. Todo' = Todo \ {t}
        <4>1. \A u \in Tasks : u[2] >= i + 1 <=> u[2] >= i /\ u[2] # i
          BY <1>1, <1>2
        <4> QED
          BY <1>2, <2>1, <3>3, <3>4, <4>1 DEF Todo
      <3>7. Taken' = Taken \cup {t}
        <4>1. \A u \in Tasks : (\E b \in attempts' : b.job = u[1] /\ b.pos = u[2]
                                                    /\ b.outcome \in Outcome)
                <=> u = t \/ \E b \in attempts : b.job = u[1] /\ b.pos = u[2]
                                                 /\ b.outcome \in Outcome
          BY <2>5, <3>3, <3>4
        <4> QED
          BY <1>2, <3>3, <4>1 DEF Taken, Attempted
      <3> QED
        BY <1>3, <2>2, <2>3, <3>5, <3>6, <3>7, MapBuild DEF B!BatchNext
    <2>7. CASE argv[i] \notin Backends
      <3>1. Failed'
        BY <2>1, <2>7 DEF Failed, Record, Failures
      <3>2. \A u \in Tasks : u[2] # i
        BY <2>7 DEF Tasks, TargetPositions
      <3>3. Taken' = Taken
        BY <1>2, <2>5, <3>2 DEF Taken, Attempted
      <3>4. Todo' \subseteq Todo
        <4>1. \A u \in Tasks : u[2] >= i + 1 => u[2] >= i
          BY <1>1, <1>2
        <4> QED
          BY <1>2, <2>1, <4>1 DEF Todo
      <3> QED
        BY <1>3, <2>2, <3>1, <3>3, <3>4, MapAbandon DEF B!BatchNext
    <2> QED
      BY <2>6, <2>7
  <1> QED
    BY <1>4, <1>5

LEMMA TargetRefines ==
  ASSUME IInv, TargetStep
  PROVE  B!BatchNext \/ UNCHANGED B!batchVars
  <1>1. TypeOK /\ UNCHANGED <<argv, operands, jobs>>
    BY LateSteps DEF IInv
  <1>2. CASE BackEnd
    <2>1. /\ pc = "targets" /\ i <= Len(argv) /\ argv[i] \in Backends
          /\ UNCHANGED <<job, result>>
      BY <1>1, <1>2, BackEndSteps DEF AtTarget
    <2>2. PICK o \in Outcome : Step(o)
      BY <1>1, <1>2, BackEndSteps
    <2> QED
      BY <1>1, <2>1, <2>2, StepRefines
  <1>3. CASE UnknownTarget
    <2>1. /\ pc = "targets" /\ i <= Len(argv) /\ argv[i] \notin Backends /\ Step("unknown")
          /\ UNCHANGED <<job, result>>
      BY <1>3 DEF UnknownTarget, KnownFlags
    <2>2. "unknown" \in Outcome
      BY DEF Outcome, Failures
    <2> QED
      BY <1>1, <2>1, <2>2, StepRefines
  <1>4. CASE SkipOperand \/ SkipIgnored
    <2>1. /\ pc = "targets" /\ i <= Len(argv)
          /\ UNCHANGED <<pc, job, attempts, result, subResult>>
      BY <1>4 DEF SkipOperand, SkipIgnored, AtTarget, jobVars
    <2>2. /\ TargetPositions' = TargetPositions /\ Tasks' = Tasks
          /\ \A t \in Tasks : t[1] \in Nat /\ t[2] \in Nat
      BY <1>1, TasksStay
    <2>3. i \in Nat /\ \A t \in Tasks : t[2] >= i' <=> t[2] >= i
      <3>1. i \in Nat /\ i >= 3
        BY <2>1 DEF IInv, TypeOK, CursorInv, OnNoOperand
      <3>2. CASE SkipIgnored
        <4>1. i' = i + 1 /\ argv[i] \notin Backends
          BY <3>2 DEF SkipIgnored, AtTarget, Ignored, Backends
        <4>2. \A t \in Tasks : t[2] # i
          BY <4>1 DEF Tasks, TargetPositions
        <4> QED
          BY <2>2, <3>1, <4>1, <4>2
      <3>3. CASE SkipOperand
        <4>1. i' = i + 2 /\ argv[i] \in Valued /\ argv[i] \notin Backends
          BY <3>3 DEF SkipOperand, AtTarget, AfterOperand, Valued, Backends
        <4>2. i + 1 \in operands
          BY <2>1, <3>1, <4>1 DEF IInv, TypeOK, CursorInv, FlagsHaveOperands, OnNoOperand
        <4>3. \A t \in Tasks : t[2] # i /\ t[2] # i + 1
          BY <4>1, <4>2 DEF Tasks, TargetPositions
        <4> QED
          BY <2>2, <3>1, <4>1, <4>3
      <3> QED
        BY <1>4, <3>2, <3>3
    <2>4. Todo' = Todo
      BY <2>1, <2>2, <2>3 DEF Todo
    <2>5. Taken' = Taken
      BY <2>1, <2>2 DEF Taken, Attempted
    <2>6. Phase' = Phase /\ Code' = Code /\ (Failed' <=> Failed)
      BY <2>1 DEF Phase, Code, Failed
    <2> QED
      BY <2>4, <2>5, <2>6, MapStutter
  <1> QED
    BY <1>2, <1>3, <1>4 DEF TargetStep

LEMMA NextRefines == IInv /\ [Next]_vars => [B!BatchNext]_(B!batchVars)
  <1>1. UNCHANGED vars => UNCHANGED B!batchVars
    <2> SUFFICES ASSUME UNCHANGED vars PROVE UNCHANGED B!batchVars
      OBVIOUS
    <2>1. UNCHANGED <<argv, pc, i, jobs, job, subResult, result, operands, attempts>>
      BY DEF vars, flagVars, jobVars
    <2>2. Tasks' = Tasks
      BY <2>1, TasksStay
    <2>3. Todo' = Todo /\ Taken' = Taken
      BY <2>1, <2>2 DEF Todo, Taken, Attempted
    <2>4. Phase' = Phase /\ Code' = Code /\ (Failed' <=> Failed)
      BY <2>1 DEF Phase, Code, Failed
    <2> QED
      BY <2>3, <2>4, MapStutter
  <1> QED
    BY <1>1, NextCases, EarlyRefines, JobRefines, TargetRefines
       DEF EarlyStep, JobStep, TargetStep

\* For every command line the driver is a batch: planned once, every task taken
\* once, tasks dropped only with a failure, and an exit code that tells.
THEOREM DriverIsABatch == Spec => ImplementsBatch
  <1>1. Spec => B!BatchInit /\ [][B!BatchNext]_(B!batchVars)
    BY InitRefines, NextRefines, Invariance, PTL DEF Spec
  <1> QED
    BY <1>1 DEF ImplementsBatch, B!BatchSpec
===============================================================================
