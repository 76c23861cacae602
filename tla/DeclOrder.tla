------------------------------- MODULE DeclOrder -------------------------------
(***************************************************************************)
(* What the generated header promises a C++ compiler: every struct is      *)
(* defined once, after the structs it holds by value, and the structs that *)
(* were asked for are all there unless the generation failed.              *)
(***************************************************************************)
CONSTANT Struct

VARIABLES
  uses,      \* the structs each struct holds by value
  wanted,    \* the structs the generation was asked for
  defined,   \* the structs defined so far
  outcome    \* "running", "done" or "failed"

declVars == <<uses, wanted, defined, outcome>>

DeclInit ==
  /\ uses \in [Struct -> SUBSET Struct]
  /\ wanted \in SUBSET Struct
  /\ defined = {}
  /\ outcome = "running"

Define(s) ==
  /\ outcome = "running"
  /\ s \notin defined /\ uses[s] \subseteq defined
  /\ defined' = defined \cup {s}
  /\ UNCHANGED <<uses, wanted, outcome>>

Complete ==
  /\ outcome = "running" /\ wanted \subseteq defined
  /\ outcome' = "done"
  /\ UNCHANGED <<uses, wanted, defined>>

GiveUp ==
  /\ outcome = "running"
  /\ outcome' = "failed"
  /\ UNCHANGED <<uses, wanted, defined>>

DeclNext == (\E s \in Struct : Define(s)) \/ Complete \/ GiveUp

DeclSpec == DeclInit /\ [][DeclNext]_declVars
================================================================================
