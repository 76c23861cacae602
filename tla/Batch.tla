-------------------------------- MODULE Batch --------------------------------
(***************************************************************************)
(* What a run of ShaderGen promises, without its loops, flags and calls:   *)
(* a set of tasks is fixed once, every task is taken once, or dropped with *)
(* a failure recorded, and the exit code is zero exactly when nothing      *)
(* failed.                                                                 *)
(***************************************************************************)
EXTENDS Integers

CONSTANT Task   \* every task a run could ever have

VARIABLES
  phase,    \* "planning", "running", "exited" or "crashed"
  todo,     \* the tasks not taken yet
  done,     \* the tasks taken
  failed,   \* some step of the run reported a failure
  code      \* the exit code, 0 until the run exits

batchVars == <<phase, todo, done, failed, code>>

BatchInit ==
  /\ phase = "planning"
  /\ todo = {}
  /\ done = {}
  /\ failed = FALSE
  /\ code = 0

\* The command line, the set-up or the code generation is refused.
Reject ==
  /\ phase = "planning"
  /\ phase' = "exited"
  /\ code' = -1
  /\ failed' = TRUE
  /\ UNCHANGED <<todo, done>>

\* The tasks are known: from here on the set only shrinks.
Plan ==
  /\ phase = "planning"
  /\ phase' = "running"
  /\ todo' \in SUBSET Task
  /\ UNCHANGED <<done, failed, code>>

\* One task is taken and reports success or failure.
Build ==
  /\ phase = "running"
  /\ \E t \in todo : todo' = todo \ {t} /\ done' = done \cup {t}
  /\ failed' \in {failed, TRUE}
  /\ UNCHANGED <<phase, code>>

\* Something else fails, and takes the tasks that depended on it along.
Abandon ==
  /\ phase = "running"
  /\ todo' \in SUBSET todo
  /\ failed' = TRUE
  /\ UNCHANGED <<phase, done, code>>

Finish ==
  /\ phase = "running"
  /\ todo = {}
  /\ phase' = "exited"
  /\ code' = IF failed THEN -1 ELSE 0
  /\ UNCHANGED <<todo, done, failed>>

\* The process dies: nothing is promised about it but that it reports no code.
Crash ==
  /\ phase \in {"planning", "running"}
  /\ phase' = "crashed"
  /\ UNCHANGED code

BatchNext == Reject \/ Plan \/ Build \/ Abandon \/ Finish \/ Crash

BatchSpec == BatchInit /\ [][BatchNext]_batchVars
==============================================================================
