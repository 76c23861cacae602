----------------------------- MODULE MCGenerateCPP -----------------------------
(***************************************************************************)
(* Small libraries.  Reflection lists a function's resources by class:     *)
(* constant buffers, samplers, read-only and read-write views.             *)
(***************************************************************************)
EXTENDS GenerateCPP, SequencesExt

MCId == {"a", "T", "U", "aVS", "bVS", "aPS", "f", "?"}

Shape(k, t, s, p) == [kind |-> k, type |-> t, space |-> s, point |-> p]

Class(k) == CASE k = "cbuffer" -> 1 [] k = "sampler" -> 2
              [] k \in {"texture", "structured"} -> 3 [] k = "rwstructured" -> 4
Listed(shapes) ==
  \A a, b \in 1 .. Len(shapes) : a < b => Class(shapes[a].kind) <= Class(shapes[b].kind)

\* The last bind point, 3 here, is what a resource without a register gets.
Anywhere == {Shape("cbuffer", t, s, p) : t \in {"T", "U"}, s \in {0, 1, 2, 3}, p \in {0, 1}}
  \cup {Shape("structured", "T", s, p) : s \in {0, 2, 3}, p \in {0, 1}}
  \cup {Shape("texture", "", s, p) : s \in {0, 2}, p \in {0, 1}}
  \cup {Shape("sampler", "", 2, 0), Shape("rwstructured", "U", 0, 0),
        Shape("rwstructured", "U", 2, 1),
        Shape("cbuffer", "T", 0, 3), Shape("texture", "", 3, 3)}
Blocked == {Shape("cbuffer", "T", s, p) : s \in {2, 3}, p \in {0, 1}}
  \cup {Shape("texture", "", s, p) : s \in {2, 3, 4}, p \in {0, 1}}

Shapes == {s \in SeqOf(Anywhere, 2) \cup TupleOf(Blocked, 3) : Listed(s)}

\* The third resource is named like a type.
Names == <<"a", "T", "U">>
Named(shapes) ==
  [k \in 1 .. Len(shapes) |->
     [name |-> Names[k], kind |-> shapes[k].kind, type |-> shapes[k].type,
      space |-> shapes[k].space, point |-> shapes[k].point]]

Fn(n, s, d, shapes) ==
  LET all == Named(shapes)
  IN  [name |-> n, suffix |-> s, demangles |-> d, resources |-> all,
       buffers |-> SelectSeq(all, IsBuffer)]
Pixel == Fn("aPS", "PS", TRUE, <<Shape("cbuffer", "U", 0, 1), Shape("texture", "", 2, 0)>>)
Vertex(n) == Fn(n, "VS", TRUE, <<Shape("cbuffer", "T", 2, 0)>>)

MCLibraries ==
  {<< >>}
    \cup {<<Fn("aVS", "VS", TRUE, s), Pixel>> : s \in Shapes}
    \cup {<<Vertex("aVS"), Fn("aVS", "VS", TRUE, s)>> : s \in SeqOf(Anywhere, 1)}
    \cup {<<Vertex("bVS"), Fn("f", x, TRUE, s)>> : x \in {"short", "none"}, s \in SeqOf(Anywhere, 1)}
    \cup {<<Pixel, Fn("?", "none", FALSE, s), Vertex("aVS")>> : s \in SeqOf(Anywhere, 1)}

-------------------------------------------------------------------------------
(* Mangled names: all declarations with up to three parameters of the types
   shaders use, four of those that refer back, and the types at the edge of
   what the demangler knows. *)

D == INSTANCE Demangle

Vector == D!Class("vector", <<D!Float, D!Number(4)>>)
Foo    == D!Struct("Foo", << >>)
Scoped == D!Struct("Foo", <<"ns">>)
Buffered(t) == D!Class("StructuredBuffer", <<t>>)
Pair   == D!Class("Pair", <<Foo, Scoped>>)
Array(n) == D!Class("Array", <<D!Float, D!Number(n)>>)

Usual == {D!Float, Foo, Vector, Scoped, Buffered(Foo), Buffered(Vector)}
Edge  == {D!Integer, Pair, Buffered(Buffered(Foo)), Buffered(D!Integer)} \cup {Array(n) : n \in {9, 10, 16, 28}}

Signatures(scopes, returns, parameters) ==
  [name : {"mainVS"}, scope : scopes, returnType : returns, parameterTypes : parameters]
Declarations ==
  Signatures({<< >>, <<"ns">>}, {D!Void, D!Float, Foo, Vector, Buffered(Foo)}, SeqOf(Usual, 3))
    \cup Signatures({<<"Foo">>}, {Vector, Foo}, TupleOf({D!Float, Foo, Vector}, 4))
    \cup Signatures({<<"mainVS", "ns">>}, {D!Void, Foo} \cup Edge, SeqOf(Edge \cup {Foo, D!Float}, 2))

\* Every name is read where there is nothing to generate.
SignaturesAsDeclared ==
  library = << >> /\ pc = "functions" =>
    \A d \in Declarations : \A m \in {D!Mangle(d)} : D!ReadsAsDeclared(d, m, D!Demangle(m.out))
================================================================================
