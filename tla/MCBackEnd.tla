------------------------------- MODULE MCBackEnd -------------------------------
(***************************************************************************)
(* Small shaders: call graphs over two textures, two samplers and a buffer *)
(* that is fetched from, and flat shaders over many registers.             *)
(***************************************************************************)
EXTENDS BackEnd, SequencesExt

MCFn == {"main", "f", "g"}
Textures == {"T0", "T1"}
MCId == Textures \cup {"S0", "S1", "B", "C", "X0", "X1", "N", "a", "s", "b", "r"}

Of(kind, globals, order) == SelectSeq(order, LAMBDA v : globals[v].kind = kind)

Register(kind, set, binding, type) == [kind |-> kind, set |-> set, binding |-> binding, type |-> type]
Sampling(i, s) == [op |-> "sample", image |-> i, sampler |-> s]
Fetching(i) == [op |-> "fetch", image |-> i]
Calling(f, args) == [op |-> "call", callee |-> f, args |-> args]
Argument(id, kind) == [id |-> id, kind |-> kind]

-------------------------------------------------------------------------------
(* Call graphs *)

MainOps == {Sampling("T0", "S0"), Sampling("T0", "S1"), Fetching("T0"), Fetching("B"),
            Calling("f", <<"T0", "S0">>), Calling("f", <<"T1", "S0">>), Calling("f", <<"T0", "S1">>),
            Calling("g", <<"T1", "S1">>), [op |-> "samplerArray"]}
FOps == {Sampling("a", "s"), Sampling("T1", "s"), Sampling("a", "S0"), Fetching("a"),
         Calling("g", <<"a", "s">>), Calling("g", <<"T1", "s">>)}
GBodies == {<< >>, <<Sampling("b", "r")>>, <<Sampling("b", "S1")>>, <<Fetching("b"), Sampling("b", "r")>>}

CallGlobals ==
  [T0 |-> Register("image", 0, 0, None), T1 |-> Register("image", 2, 1, None),
   S0 |-> Register("sampler", 0, 0, None), S1 |-> Register("sampler", 0, 1, None),
   B |-> Register("texelBuffer", 0, 1, None)]

CallShaders ==
  {[globals |-> CallGlobals,
    sampled_images |-> << >>, storage_buffers |-> << >>, uniform_buffers |-> << >>,
    entry |-> "main", depth |-> 2, stage |-> "fragment",
    inputs |-> <<[prefix |-> "in", semantic |-> "COLOR", location |-> 0]>>,
    functions |->
      [main |-> [arguments |-> << >>, body |-> m],
       f |-> [arguments |-> <<Argument("a", "image"), Argument("s", "sampler")>>, body |-> f],
       g |-> [arguments |-> <<Argument("b", "image"), Argument("r", "sampler")>>, body |-> g]]] :
   m \in SeqOf(MainOps, 2), f \in SeqOf(FOps, 2), g \in GBodies}

-------------------------------------------------------------------------------
(* Registers *)

Registers == {<<0, 0>>, <<0, 1>>, <<0, 2>>, <<1, 0>>, <<2, 0>>, <<2, 1>>, <<3, 1>>, <<0, 4>>}

FlatFunctions(body) ==
  [f \in MCFn |-> [arguments |-> << >>, body |-> IF f = "main" THEN body ELSE << >>]]

Semantics == {"POSITION0", "POSITION1", "NORMAL", "INSTANCEDATA", "INSTANCEDATA1", "TANGENT"}
InputLists ==
  {[k \in DOMAIN p |-> [prefix |-> "in", semantic |-> p[k], location |-> k - 1]] :
     p \in {q \in SeqOf(Semantics, 4) : IsInjective(q)}}

Flat(globals, order, body, ins) ==
  [globals |-> globals, sampled_images |-> Of("sampledImage", globals, order),
   storage_buffers |-> Of("storage", globals, order),
   uniform_buffers |-> Of("uniform", globals, order), entry |-> "main", depth |-> 0, stage |-> "vertex",
   inputs |-> ins, functions |-> FlatFunctions(body)]

\* Two images, and one that HLSL combines itself.
ImageShaders ==
  {Flat([T0 |-> Register("image", p[1], p[2], None), T1 |-> Register("image", q[1], q[2], None),
         N |-> Register("sampledImage", 0, 2, None), S0 |-> Register("sampler", 0, 0, None)],
        order, <<Sampling("T0", "S0"), Sampling("T1", "S0")>>, << >>) :
     p \in Registers, q \in Registers, order \in {<<"T0", "T1", "N", "S0">>, <<"N", "T1", "T0", "S0">>}}

\* Four buffers, of which one may have the type of another.  No two of a class
\* have one register, as HLSL demands.
BufferShaders ==
  {Flat([B |-> Register("storage", p[1], p[2], "U"), X0 |-> Register("storage", 2, 1, t),
         C |-> Register("uniform", q[1], q[2], "V"), X1 |-> Register("uniform", 0, 1, u)],
        order, << >>, << >>) :
     p \in Registers \ {<<2, 1>>}, q \in Registers \ {<<0, 1>>}, t \in {"U", "W"}, u \in {"V", "Z"},
     order \in {<<"B", "X0", "C", "X1">>, <<"X1", "X0", "C", "B">>}}

MCShaders ==
  CallShaders \cup ImageShaders \cup BufferShaders
    \cup {Flat([C |-> Register("uniform", 0, 0, "V")], <<"C">>, << >>, i) : i \in InputLists}
================================================================================
