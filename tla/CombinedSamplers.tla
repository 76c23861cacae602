---------------------------- MODULE CombinedSamplers ----------------------------
(***************************************************************************)
(* SPIRV-Cross's combined image samplers (spirv_cross.cpp), which the GLSL *)
(* back ends ask for: HLSL's separate images and samplers become one       *)
(* sampler for each pair that is used together, found by walking all       *)
(* functions that the entry point reaches, call by call.                   *)
(*                                                                         *)
(* An operand stands for the variable it was loaded from, a parameter or a *)
(* global: what maybe_get_backing_variable makes of it.                    *)
(***************************************************************************)
EXTENDS Integers, Sequences, Functions

CONSTANTS
  Id,       \* variables and parameters
  Fn,       \* functions
  Dummy,    \* the sampler that build_dummy_sampler_for_combined_images makes
  None,     \* no variable
  Shaders   \* the shaders considered

\* "image" is a texture that is read through a sampler, "texelBuffer" one that
\* never is, "sampledImage" one that is combined in the source already.
Kinds == {"image", "texelBuffer", "sampledImage", "sampler", "storage", "uniform"}

ASSUME IdAssumption == Dummy \notin Id /\ None \notin Id \cup {Dummy}

\* SPIR-V is typed: an operand of f is an argument of f or a global, of the kind
\* that the operation, or the function called, asks for; the entry point has no
\* arguments.
IsOfKind(s, f, id, kind) ==
  LET named == {k \in DOMAIN s.functions[f].arguments : s.functions[f].arguments[k].id = id}
  IN  IF named = {} THEN id \in DOMAIN s.globals /\ s.globals[id].kind = kind
      ELSE \A k \in named : s.functions[f].arguments[k].kind = kind
ASSUME OperandsAssumption ==
  \A s \in Shaders :
    /\ s.entry \in Fn /\ s.functions[s.entry].arguments = << >>
    /\ DOMAIN s.globals \subseteq Id
    /\ \A f \in Fn : \A k \in DOMAIN s.functions[f].arguments :
         LET a == s.functions[f].arguments[k]
         IN  a.id \in Id \ DOMAIN s.globals /\ a.kind \in Kinds
    /\ \A f \in Fn : s.functions[f].body \in Seq(Range(s.functions[f].body))
    /\ \A f \in Fn : \A n \in 1 .. Len(s.functions[f].body) :
         LET o == s.functions[f].body[n]
         IN  /\ o.op = "sample" =>
                  IsOfKind(s, f, o.image, "image") /\ IsOfKind(s, f, o.sampler, "sampler")
             /\ o.op = "fetch" =>
                  IsOfKind(s, f, o.image, "image") \/ IsOfKind(s, f, o.image, "texelBuffer")
             /\ o.op = "call" =>
                  /\ o.callee \in Fn
                  /\ \A k \in DOMAIN s.functions[o.callee].arguments :
                       IsOfKind(s, f, o.args[k], s.functions[o.callee].arguments[k].kind)

\* Calls do not recur below the entry point, and nest no deeper than depth; what
\* is not called at all may have any level.
IsLevel(s, level) ==
  /\ level[s.entry] <= s.depth
  /\ \A f \in Fn : level[f] <= s.depth =>
       \A o \in Range(s.functions[f].body) : o.op = "call" => level[o.callee] < level[f]
ASSUME CallsAssumption ==
  \A s \in Shaders : s.depth \in Nat /\ \E level \in [Fn -> 0 .. s.depth + 1] : IsLevel(s, level)

VARIABLES
  shader,                  \* the shader, which is not changed
  phase,                   \* which of the back end's calls is running
  dummy,                   \* is there a dummy sampler?
  stack,                   \* the calls the traversal is in, the entry point's first
  combined_parameters,     \* by function: the pairs it needs handed in
  do_combined_parameters,  \* by function: is that list still open?
  combined_image_samplers  \* the pairs of globals, in the order found

traversal == <<stack, combined_parameters, do_combined_parameters, combined_image_samplers>>

Function(f) == shader.functions[f]
Body(f)     == Function(f).body

\* The positions of a function's arguments with a given id.
ArgumentsNamed(f, id) == {k \in DOMAIN Function(f).arguments : Function(f).arguments[k].id = id}

\* What is sampled there, seen from anywhere: parameters have a kind as globals do.
KindOf(f, id) ==
  IF ArgumentsNamed(f, id) # {} THEN Function(f).arguments[CHOOSE k \in ArgumentsNamed(f, id) : TRUE].kind
  ELSE shader.globals[id].kind

\* The functions reached from the entry point in at most n calls.
Reached[n \in Nat] ==
  IF n = 0 THEN {shader.entry}
  ELSE Reached[n - 1] \cup
       {o.callee : o \in {p \in UNION {Range(Body(f)) : f \in Reached[n - 1]} : p.op = "call"}}
Reachable == Reached[shader.depth]

-------------------------------------------------------------------------------
(* The dummy sampler *)

\* A fetch, or a query of a size, reads an image without a sampler.
FetchesImage(f, o) == o.op = "fetch" /\ KindOf(f, o.image) = "image"

\* The traversal stops at the first fetch: there is one, or there is none.
BuildDummySampler ==
  /\ phase = "dummy"
  /\ dummy' = \E f \in Reachable : \E o \in Range(Body(f)) : FetchesImage(f, o)
  /\ combined_parameters' = [f \in Fn |-> << >>]
  /\ do_combined_parameters' = [f \in Fn |-> TRUE]
  /\ combined_image_samplers' = << >>
  /\ stack' = <<[fn |-> shader.entry, at |-> 1, args |-> << >>, remapping |-> << >>]>>
  /\ phase' = "combine"
  /\ UNCHANGED shader

-------------------------------------------------------------------------------
(* The traversal *)

Top    == stack[Len(stack)]
Caller == stack[Len(stack) - 1]
AtOp   == phase = "combine" /\ Top.at <= Len(Body(Top.fn))
Op     == Body(Top.fn)[Top.at]

Advanced(s) == [s EXCEPT ![Len(s)].at = @ + 1]

\* What a parameter of the running function stands for.  Remapping the arguments
\* of a call by the caller's own table keeps every entry a global.
\* Mutant: a call hands on the caller's parameters as they are.
NotRemapped(id) == id
RemapParameter(id) == IF id \in DOMAIN Top.remapping THEN Top.remapping[id] ELSE id

\* A pair as a function with these arguments sees it: a position, or a global.
Parameter(f, image, sampler) ==
  LET at(id) == ArgumentsNamed(f, id)
      side(id) == IF at(id) = {} THEN [global |-> TRUE, id |-> id, position |-> 0]
                  ELSE [global |-> FALSE, id |-> None, position |-> CHOOSE k \in at(id) : TRUE]
  IN  [image |-> side(image), sampler |-> side(sampler)]

\* register_combined_image_sampler.
Registered(params, f, image, sampler) ==
  LET p == Parameter(f, image, sampler)
  IN  IF (p.image.global /\ p.sampler.global) \/ p \in Range(params[f]) THEN params
      ELSE [params EXCEPT ![f] = Append(@, p)]

\* The entry point is not on the stack of functions, and keeps no parameters.
InFunction == Len(stack) > 1

\* OpSampledImage, or a fetch, which takes the dummy sampler: handle() first tells
\* the function, in its own terms, and then the module, in terms of globals.
KnownPair(image, sampler) == [image |-> image, sampler |-> sampler] \in Range(combined_image_samplers)

Combine(image, own, sampler) ==
  /\ combined_parameters' =
       IF InFunction /\ do_combined_parameters[Top.fn]
       THEN Registered(combined_parameters, Top.fn, image, own) ELSE combined_parameters
  /\ combined_image_samplers' =
       IF KnownPair(RemapParameter(image), sampler) THEN combined_image_samplers
       ELSE Append(combined_image_samplers, [image |-> RemapParameter(image), sampler |-> sampler])
  /\ stack' = Advanced(stack)
  /\ UNCHANGED <<shader, phase, dummy, do_combined_parameters>>

Sample == AtOp /\ Op.op = "sample" /\ Combine(Op.image, Op.sampler, RemapParameter(Op.sampler))

Fetch ==
  /\ AtOp /\ FetchesImage(Top.fn, Op) /\ dummy
  /\ Combine(Op.image, Dummy, Dummy)

FetchBuffer ==
  /\ AtOp /\ Op.op = "fetch" /\ KindOf(Top.fn, Op.image) # "image"
  /\ stack' = Advanced(stack)
  /\ UNCHANGED <<shader, phase, dummy, combined_parameters, do_combined_parameters, combined_image_samplers>>

\* An array of samplers, or a fetch with no dummy sampler, throws CompilerError.
Throw ==
  /\ AtOp
  /\ Op.op = "samplerArray" \/ (FetchesImage(Top.fn, Op) /\ ~dummy)
  /\ phase' = "failed"
  /\ UNCHANGED <<shader, dummy, traversal>>

\* begin_function_scope.
Call ==
  /\ AtOp /\ Op.op = "call"
  /\ LET formal == Function(Op.callee).arguments
         value(id) == RemapParameter(Op.args[CHOOSE k \in ArgumentsNamed(Op.callee, id) : TRUE])
     IN  stack' = Append(Advanced(stack),
           [fn |-> Op.callee, at |-> 1, args |-> Op.args,
            remapping |-> [id \in {formal[k].id : k \in DOMAIN formal} |-> value(id)]])
  /\ UNCHANGED <<shader, phase, dummy, combined_parameters, do_combined_parameters, combined_image_samplers>>

\* The callee's pairs in terms of the caller's operands, added one by one.
HandedUp(params, callee, args, caller) ==
  LET operand(side) == IF side.global THEN side.id ELSE args[side.position]
      up[n \in 0 .. Len(params[callee])] ==
        IF n = 0 THEN params
        ELSE LET p == params[callee][n]
             IN  Registered(up[n - 1], caller, operand(p.image), operand(p.sampler))
  IN  up[Len(params[callee])]

\* end_function_scope.
Collects(caller) == do_combined_parameters[caller]
Return ==
  /\ phase = "combine" /\ Top.at > Len(Body(Top.fn)) /\ InFunction
  /\ combined_parameters' =
       IF Len(stack) > 2 /\ Collects(Caller.fn)
       THEN HandedUp(combined_parameters, Top.fn, Top.args, Caller.fn)
       ELSE combined_parameters
  /\ do_combined_parameters' = [do_combined_parameters EXCEPT ![Top.fn] = FALSE]
  /\ stack' = SubSeq(stack, 1, Len(stack) - 1)
  /\ UNCHANGED <<shader, phase, dummy, combined_image_samplers>>

EndTraversal ==
  /\ phase = "combine" /\ Top.at > Len(Body(Top.fn)) /\ ~InFunction
  /\ phase' = "names"
  /\ UNCHANGED <<shader, dummy, traversal>>

BuildCombinedImageSamplers ==
  Sample \/ Fetch \/ FetchBuffer \/ Throw \/ Call \/ Return \/ EndTraversal

-------------------------------------------------------------------------------
(* Properties *)

\* An operand of the callee as the caller has it.
Own(o, id) ==
  IF ArgumentsNamed(o.callee, id) = {} THEN id
  ELSE o.args[CHOOSE k \in ArgumentsNamed(o.callee, id) : TRUE]

\* The pairs that an instruction of f needs, in the terms of f, where a callee
\* needs those that are given.
Needs(f, o, called) ==
  CASE o.op = "sample" -> {<<o.image, o.sampler>>}
    [] FetchesImage(f, o) -> {<<o.image, Dummy>>}
    [] o.op = "call" -> {<<Own(o, p[1]), Own(o, p[2])>> : p \in called}
    [] OTHER -> {}

\* The pairs that the functions need, in their own terms, with all that they call
\* put in its place; n bounds the depth of the calls.
Pairs[n \in Nat] ==
  [f \in Fn |-> UNION {Needs(f, o, IF n = 0 THEN {} ELSE Pairs[n - 1][o.callee]) : o \in Range(Body(f))}]
PairsOf(f) == Pairs[shader.depth][f]

\* The traversal was made, and came to its end.
Traversed == stack # << >> /\ phase \notin {"combine", "failed"}

ParametersOf(f) ==
  {q \in {Parameter(f, p[1], p[2]) : p \in PairsOf(f)} : ~(q.image.global /\ q.sampler.global)}

\* Hazard spirv_cross.cpp:2843.  The combined images are exactly the pairs that
\* inlining every call would show at the samplings, each once, whatever the
\* number and order of the calls; and a function that is called gets exactly the
\* pairs handed in that it or one of its callees samples through a parameter of
\* its own, each once, although its list is closed by its first return.
CombinedExact ==
  Traversed =>
    /\ {<<c.image, c.sampler>> : c \in Range(combined_image_samplers)} = PairsOf(shader.entry)
    /\ IsInjective(combined_image_samplers)
    /\ \A f \in Reachable \ {shader.entry} :
         Range(combined_parameters[f]) = ParametersOf(f) /\ IsInjective(combined_parameters[f])
================================================================================
