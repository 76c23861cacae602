----------------------------- MODULE BackEndProofs -----------------------------
(***************************************************************************)
(* The registers of the back ends for every shader: the inputs' locations, *)
(* the buffers' bindings, names and slots, and the images' texture units.  *)
(* The inputs stay as they were until AssignInputs; each loop has done the *)
(* entries before its cursor; and the traversal binds every parameter to a *)
(* global of its kind, so that the combined images are separate images.    *)
(***************************************************************************)
EXTENDS BackEnd, TLAPS, SequenceTheorems, Recursion

Moved(i) ==
  IF IsListed(i.semantic) THEN [i EXCEPT !.location = SemanticLocationMappings[i.semantic]] ELSE i

\* The inputs of a vertex shader, by the phase of the back ends that move them.
InputsMoved ==
  /\ shader \in Shaders
  /\ target # "SPIRV" => phase \in {"reflect", "dummy", "combine", "names", "buffers", "inputs", "compile", "compiled", "failed"}
  /\ phase \in {"reflect", "dummy", "combine", "names", "buffers", "inputs"} => inputs = shader.inputs
  /\ target # "SPIRV" /\ shader.stage = "vertex" /\ phase \in {"compile", "compiled"} =>
       /\ DOMAIN inputs = DOMAIN shader.inputs
       /\ \A k \in DOMAIN inputs : inputs[k] = Moved(shader.inputs[k])

-------------------------------------------------------------------------------
LEMMA InitMoved == Init => InputsMoved
  BY DEF Init, InputsMoved

\* What combining images leaves alone.
LEMMA CombineKeeps ==
  ASSUME CombineImages
  PROVE  /\ UNCHANGED <<shader, target, inputs>>
         /\ phase \in {"dummy", "combine"} /\ phase' \in {"combine", "names", "failed"}
  <1>1. CASE BuildDummySampler
    BY <1>1 DEF CombineImages, BuildDummySampler, assigned
  <1>2. CASE BuildCombinedImageSamplers
    <2>1. UNCHANGED <<target, inputs>>
      BY DEF CombineImages, assigned
    <2>2. UNCHANGED shader /\ phase = "combine" /\ phase' \in {"combine", "names", "failed"}
      BY <1>2 DEF BuildCombinedImageSamplers, Sample, Fetch, FetchBuffer, Throw, Call, Return,
                  EndTraversal, Combine, AtOp
    <2> QED BY <2>1, <2>2
  <1> QED BY <1>1, <1>2 DEF CombineImages

LEMMA NextMoved ==
  ASSUME InputsMoved, [Next]_vars
  PROVE  InputsMoved'
  <1>1. CASE CompileSPIRV
    BY <1>1 DEF CompileSPIRV, InputsMoved
  <1>2. CASE Reflect
    BY <1>2 DEF Reflect, InputsMoved
  <1>3. CASE CombineImages
    BY <1>3, CombineKeeps DEF InputsMoved
  <1>4. CASE NameImage \/ ImagesNamed
    BY <1>4 DEF NameImage, ImagesNamed, InputsMoved
  <1>5. CASE AssignBuffer \/ BuffersAssigned
    BY <1>5 DEF AssignBuffer, BuffersAssigned, assigned, InputsMoved
  <1>6. CASE AssignInputs \/ AssignInputsHLSL
    <2>1. phase \in {"reflect", "inputs"} /\ phase' = "compile" /\ UNCHANGED <<shader, target>>
      BY <1>6 DEF AssignInputs, AssignInputsHLSL
    <2>2. inputs = shader.inputs
      BY <2>1 DEF InputsMoved
    <2>3. ASSUME shader.stage = "vertex"
          PROVE  /\ DOMAIN inputs' = DOMAIN shader.inputs
                 /\ \A k \in DOMAIN inputs' : inputs'[k] = Moved(shader.inputs[k])
      BY <1>6, <2>2, <2>3 DEF AssignInputs, AssignInputsHLSL, Relocated, Moved
    <2> QED BY <2>1, <2>3 DEF InputsMoved
  <1>7. CASE Compile
    BY <1>7 DEF Compile, assigned, InputsMoved
  <1>8. CASE Stopped \/ UNCHANGED vars
    BY <1>8 DEF Stopped, vars, assigned, InputsMoved
  <1> QED BY <1>1, <1>2, <1>3, <1>4, <1>5, <1>6, <1>7, <1>8 DEF Next

-------------------------------------------------------------------------------
\* Two semantics of the table have two locations.
LEMMA TableInjective ==
  ASSUME NEW a \in DOMAIN SemanticLocationMappings, NEW b \in DOMAIN SemanticLocationMappings,
         SemanticLocationMappings[a] = SemanticLocationMappings[b]
  PROVE  a = b
  BY DEF SemanticLocationMappings

LEMMA TableBounded ==
  ASSUME NEW a \in DOMAIN SemanticLocationMappings
  PROVE  SemanticLocationMappings[a] \in 0 .. 8
  BY DEF SemanticLocationMappings

LEMMA MovedLocation ==
  ASSUME NEW i \in Input
  PROVE  Moved(i).location = IF IsListed(i.semantic) THEN SemanticLocationMappings[i.semantic] ELSE i.location
  <1>1. DOMAIN i = {"prefix", "semantic", "location"}
    BY DEF Input
  <1> QED BY <1>1 DEF Moved

LEMMA MovedSemantic ==
  ASSUME NEW i \in Input
  PROVE  Moved(i).semantic = i.semantic
  BY DEF Moved, Input

LEMMA MovedDistinct ==
  ASSUME InputsMoved
  PROVE  LocationsDistinct
  <1> SUFFICES ASSUME phase = "compiled", target # "SPIRV", shader.stage = "vertex",
                      NEW k \in DOMAIN inputs, NEW l \in DOMAIN inputs,
                      k # l, inputs[k].location = inputs[l].location
               PROVE  \E m \in {k, l} : ~IsListed(inputs[m].semantic) /\ shader.inputs[m].location <= 8
    BY DEF LocationsDistinct
  <1>1. k \in DOMAIN shader.inputs /\ l \in DOMAIN shader.inputs
    BY DEF InputsMoved
  <1>2. shader.inputs[k] \in Input /\ shader.inputs[l] \in Input
    BY <1>1, InputsAssumption DEF InputsMoved
  <1>3. shader.inputs[k].location # shader.inputs[l].location /\ shader.inputs[k].semantic # shader.inputs[l].semantic
    BY <1>1, InputsAssumption DEF InputsMoved
  <1>4. inputs[k] = Moved(shader.inputs[k]) /\ inputs[l] = Moved(shader.inputs[l])
    BY DEF InputsMoved
  <1>5. PICK i \in Input, j \in Input : i = shader.inputs[k] /\ j = shader.inputs[l]
    BY <1>2
  <1>6. inputs[k].semantic = i.semantic /\ inputs[l].semantic = j.semantic
    BY <1>4, <1>5, MovedSemantic
  <1>7. Moved(i).location = Moved(j).location
    BY <1>4, <1>5
  <1>8. i.location \in Nat /\ j.location \in Nat
    BY DEF Input
  <1>9. CASE IsListed(i.semantic) /\ IsListed(j.semantic)
    BY <1>3, <1>5, <1>7, <1>9, MovedLocation, TableInjective DEF IsListed
  <1>10. CASE ~IsListed(i.semantic) /\ IsListed(j.semantic)
    BY <1>5, <1>6, <1>7, <1>8, <1>10, MovedLocation, TableBounded DEF IsListed
  <1>11. CASE IsListed(i.semantic) /\ ~IsListed(j.semantic)
    BY <1>5, <1>6, <1>7, <1>8, <1>11, MovedLocation, TableBounded DEF IsListed
  <1>12. CASE ~IsListed(i.semantic) /\ ~IsListed(j.semantic)
    BY <1>3, <1>5, <1>7, <1>12, MovedLocation
  <1> QED BY <1>9, <1>10, <1>11, <1>12

\* Hazard shadergenGLSL.cpp:104.  Two inputs of a vertex shader get one location
\* only if one of them keeps what DXC gave it and that is one of the table's: for
\* any shader whose inputs have distinct locations and semantics.
THEOREM LocationsAreDistinct == Spec => []LocationsDistinct
  <1>1. InputsMoved /\ [Next]_vars => InputsMoved'
    BY NextMoved
  <1> QED BY InitMoved, <1>1, MovedDistinct, PTL DEF Spec

-------------------------------------------------------------------------------
(* The buffers *)

\* What a buffer's binding, or the name of its type, is to become.
Assigned(v) == Packed(Set(v), Binding(v))

\* The loops have come to the n-th buffer: in GLSL those before it have their
\* bindings, and in GLSL ES the last of each type among them has named the type.
BuffersUpTo(n) ==
  /\ target = "GLSL" =>
       \A k \in 1 .. Len(Buffers) :
         bindings[Buffers[k]] = IF k < n THEN Assigned(Buffers[k]) ELSE Binding(Buffers[k])
  /\ target = "GLSLES" =>
       /\ DOMAIN typeNames = {Type(Buffers[k]) : k \in 1 .. n - 1}
       /\ \A k \in 1 .. n - 1 :
            (\A l \in 1 .. n - 1 : k < l => Type(Buffers[l]) # Type(Buffers[k])) =>
              typeNames[Type(Buffers[k])] = Assigned(Buffers[k])

\* SPIR-V has its table or nothing.  The loops are not for it, and not for HLSL.
SlotsSay ==
  /\ target = "HLSL" => phase \in {"reflect", "compile", "compiled", "failed"}
  /\ target = "SPIRV" =>
       /\ phase \in {"reflect", "compiled", "failed"}
       /\ phase = "compiled" =>
            /\ DOMAIN slots = DOMAIN shader.globals
            /\ \A v \in DOMAIN slots : slots[v] \in Bound(v)

BufferInv ==
  /\ shader \in Shaders /\ target \in Targets /\ next \in Nat \ {0}
  /\ DOMAIN bindings = {v \in DOMAIN shader.globals : IsStorage(v) \/ IsUniform(v)}
  /\ phase \in {"reflect", "dummy", "combine"} => next = 1
  /\ phase \in {"reflect", "dummy", "combine", "names"} => BuffersUpTo(1)
  /\ phase = "buffers" => next <= Len(Buffers) + 1 /\ BuffersUpTo(next)
  /\ phase \in {"inputs", "compile", "compiled"} /\ target # "SPIRV" => BuffersUpTo(Len(Buffers) + 1)
  /\ SlotsSay

-------------------------------------------------------------------------------
(* The images *)

\* The parameters of a function, and the values that a call can bind them to.
Ids(f)  == {Function(f).arguments[k].id : k \in DOMAIN Function(f).arguments}
Globals == DOMAIN shader.globals
IsBoundTo(remapping, f) ==
  /\ DOMAIN remapping = Ids(f)
  /\ \A id \in Ids(f) :
       /\ remapping[id] \in Globals
       /\ \A kind \in Kinds : IsOfKind(shader, f, id, kind) => shader.globals[remapping[id]].kind = kind

\* The calls the traversal is in are of functions whose parameters stand for
\* globals of their kinds.
Calls(f) == {n \in 1 .. Len(Body(f)) : Body(f)[n].op = "call"}
Frame == [fn : Fn, at : Nat \ {0},
          args : {<< >>} \cup UNION {{Body(f)[n].args : n \in Calls(f)} : f \in Fn},
          remapping : UNION {[Ids(f) -> Globals] : f \in Fn}]
StackTyped ==
  phase = "combine" =>
    /\ stack \in Seq(Frame) /\ stack # << >>
    /\ \A d \in 1 .. Len(stack) : IsBoundTo(stack[d].remapping, stack[d].fn)

\* So the images that are combined are separate images.
Pair == [image : {v \in Globals : shader.globals[v].kind = "image"}, sampler : Globals \cup {Dummy}]
PairsTyped == combined_image_samplers \in Seq(Pair)

\* What NameImage gives to a sampled image.
Image(r) == [image |-> r.image, sampler |-> r.sampler,
             name |-> IF target = "GLSL" THEN Data(r).name ELSE None, binding |-> Data(r).binding]
ImagesUpTo(n) == images = [k \in 1 .. n - 1 |-> Image(SampledImages[k])]

ImageInv ==
  CombinesImages =>
    /\ StackTyped /\ PairsTyped
    /\ phase # "reflect" => imageData = [v \in {w \in Globals : IsSeparate(w)} |-> [name |-> v, binding |-> Assigned(v)]]
    /\ phase \in {"reflect", "dummy", "combine"} => next = 1 /\ ImagesUpTo(1)
    /\ phase = "names" => next \in 1 .. Len(SampledImages) + 1 /\ ImagesUpTo(next)
    /\ phase \in {"buffers", "inputs", "compile", "compiled"} => ImagesUpTo(Len(SampledImages) + 1)

-------------------------------------------------------------------------------
(* The registers *)

\* Sets and bindings are numbers.
LEMMA RegisterType ==
  ASSUME shader \in Shaders, NEW v \in Globals
  PROVE  /\ Set(v) \in Nat /\ Binding(v) \in Nat /\ Assigned(v) \in Nat
         /\ shader.globals[v].kind \in Kinds
         /\ Set(v) = 0 => Assigned(v) = Binding(v)
         /\ Packed(Set(v), Binding(v)) = Assigned(v)
  <1>1. Set(v) \in Nat /\ Binding(v) \in Nat /\ shader.globals[v].kind \in Kinds
    BY ResourcesAssumption DEF Set, Binding, Globals
  <1> QED
    BY <1>1 DEF Assigned, Packed

\* Below 4, what a register is packed into tells it apart from any other.
LEMMA PackedApart ==
  ASSUME shader \in Shaders, NEW v \in Globals, NEW w \in Globals, Small(v), Small(w)
  PROVE  Assigned(v) = Assigned(w) <=> SameRegister(v, w)
  <1>1. PICK a \in Nat, b \in Nat, c \in Nat, d \in Nat :
          a = Set(v) /\ b = Binding(v) /\ c = Set(w) /\ d = Binding(w)
    BY RegisterType
  <1>2. b < 4 /\ d < 4
    BY <1>1 DEF Small
  <1>3. 4 * a + b = 4 * c + d <=> a = c /\ b = d
    BY <1>2
  <1> QED
    BY <1>1, <1>3 DEF Assigned, Packed, SameRegister

\* The entries of two sequences, one after the other.
LEMMA Joined ==
  ASSUME NEW S, NEW p \in Seq(S), NEW q \in Seq(S)
  PROVE  /\ p \o q \in Seq(S) /\ Len(p \o q) = Len(p) + Len(q)
         /\ \A k \in 1 .. Len(p) : (p \o q)[k] = p[k]
         /\ \A k \in 1 .. Len(q) : (p \o q)[Len(p) + k] = q[k]
         /\ \A k \in 1 .. Len(p) + Len(q) : k \in 1 .. Len(p) \/ k - Len(p) \in 1 .. Len(q)
  OBVIOUS

\* The two loops meet each storage or uniform buffer once, and nothing else.
LEMMA BuffersFacts ==
  ASSUME shader \in Shaders
  PROVE  /\ Buffers \in Seq(Globals)
         /\ \A k \in 1 .. Len(Buffers) :
              Buffers[k] \in Globals /\ (IsStorage(Buffers[k]) \/ IsUniform(Buffers[k]))
         /\ \A k, l \in 1 .. Len(Buffers) : Buffers[k] = Buffers[l] => k = l
         /\ \A v \in Globals : IsStorage(v) \/ IsUniform(v) =>
              \E k \in 1 .. Len(Buffers) : Buffers[k] = v
  <1>1. PICK p, q : p = shader.storage_buffers /\ q = shader.uniform_buffers
    OBVIOUS
  <1>2. /\ p \in Seq(Globals) /\ q \in Seq(Globals)
        /\ \A k, l \in 1 .. Len(p) : p[k] = p[l] => k = l
        /\ \A k, l \in 1 .. Len(q) : q[k] = q[l] => k = l
        /\ {p[k] : k \in 1 .. Len(p)} = {v \in Globals : IsStorage(v)}
        /\ {q[k] : k \in 1 .. Len(q)} = {v \in Globals : IsUniform(v)}
    <2>1. Lists(shader, p, "storage") /\ Lists(shader, q, "uniform")
      BY <1>1, ResourcesAssumption
    <2>2. p \in Seq(Globals) /\ q \in Seq(Globals)
      BY <2>1 DEF Lists, Globals
    <2>3. DOMAIN p = 1 .. Len(p) /\ DOMAIN q = 1 .. Len(q)
      BY <2>2
    <2> QED
      BY <2>1, <2>2, <2>3 DEF Lists, IsInjective, Range, IsStorage, IsUniform, Globals
  <1>3. PICK b \in Seq(Globals), m \in Nat, n \in Nat :
          b = Buffers /\ b = p \o q /\ m = Len(p) /\ n = Len(q)
    <2>1. Buffers = p \o q
      BY <1>1 DEF Buffers
    <2>2. Len(p) \in Nat /\ Len(q) \in Nat
      BY <1>2
    <2>3. p \o q \in Seq(Globals)
      BY <1>2
    <2> QED
      BY <2>1, <2>2, <2>3
  <1>4. /\ b \in Seq(Globals) /\ Len(b) = m + n
        /\ \A k \in 1 .. m : b[k] = p[k] /\ b[k] \in Globals /\ IsStorage(b[k])
        /\ \A k \in 1 .. n : b[m + k] = q[k] /\ b[m + k] \in Globals /\ IsUniform(b[m + k])
    BY <1>2, <1>3, Joined
  <1>5. \A k \in 1 .. m + n : k \in 1 .. m \/ (k - m \in 1 .. n /\ k = m + (k - m))
    OBVIOUS
  <1>6. \A v \in Globals : ~(IsStorage(v) /\ IsUniform(v))
    BY DEF IsStorage, IsUniform
  <1>7. \A k \in 1 .. m + n : b[k] \in Globals /\ (IsStorage(b[k]) \/ IsUniform(b[k]))
    BY <1>4, <1>5
  <1>8. \A k, l \in 1 .. m + n : b[k] = b[l] => k = l
    <2> SUFFICES ASSUME NEW k \in 1 .. m + n, NEW l \in 1 .. m + n, b[k] = b[l]
                 PROVE  k = l
      OBVIOUS
    <2>1. CASE k \in 1 .. m
      <3>1. l \in 1 .. m
        BY <1>4, <1>5, <1>6, <2>1, ZenonT(30)
      <3> QED
        BY <1>2, <1>3, <1>4, <2>1, <3>1
    <2>2. CASE k - m \in 1 .. n /\ k = m + (k - m)
      <3>1. l - m \in 1 .. n /\ l = m + (l - m)
        BY <1>4, <1>5, <1>6, <2>2
      <3>2. PICK i \in 1 .. n, j \in 1 .. n : k = m + i /\ l = m + j
        BY <2>2, <3>1
      <3>3. q[i] = q[j]
        BY <1>4, <3>2
      <3> QED
        BY <1>2, <1>3, <3>2, <3>3
    <2> QED
      BY <1>5, <2>1, <2>2
  <1>9. ASSUME NEW v \in Globals, IsStorage(v) \/ IsUniform(v)
        PROVE  \E k \in 1 .. m + n : b[k] = v
    <2>1. CASE IsStorage(v)
      <3>1. PICK k \in 1 .. m : p[k] = v
        BY <1>2, <1>3, <2>1
      <3>2. k \in 1 .. m + n
        OBVIOUS
      <3> QED
        BY <1>4, <3>1, <3>2
    <2>2. CASE IsUniform(v)
      <3>1. PICK k \in 1 .. n : q[k] = v
        BY <1>2, <1>3, <2>2
      <3>2. m + k \in 1 .. m + n
        OBVIOUS
      <3> QED
        BY <1>4, <3>1, <3>2
    <2> QED
      BY <1>9, <2>1, <2>2
  <1>10. Len(b) = m + n /\ b \in Seq(Globals)
    BY <1>4
  <1>11. /\ \A k \in 1 .. Len(b) : b[k] \in Globals /\ (IsStorage(b[k]) \/ IsUniform(b[k]))
         /\ \A k, l \in 1 .. Len(b) : b[k] = b[l] => k = l
         /\ \A v \in Globals : IsStorage(v) \/ IsUniform(v) => \E k \in 1 .. Len(b) : b[k] = v
    BY <1>7, <1>8, <1>9, <1>10
  <1>12. b = Buffers
    BY <1>3
  <1> HIDE DEF IsStorage, IsUniform, Globals, Buffers
  <1> QED
    BY <1>10, <1>11, <1>12

-------------------------------------------------------------------------------
(* The loops over the buffers *)

\* What the loops have done stays done.
LEMMA UpToStays ==
  ASSUME UNCHANGED <<shader, target, bindings, typeNames>>, NEW n, BuffersUpTo(n)
  PROVE  BuffersUpTo(n)'
  BY DEF BuffersUpTo, Buffers, Assigned, Packed, Set, Binding, Type

\* What the operators of the registers make of the same shader.
LEMMA SameShader ==
  ASSUME shader' = shader
  PROVE  /\ Buffers' = Buffers /\ Globals' = Globals
         /\ \A v : Assigned(v)' = Assigned(v) /\ Binding(v)' = Binding(v) /\ Type(v)' = Type(v)
         /\ \A v : IsStorage(v)' = IsStorage(v) /\ IsUniform(v)' = IsUniform(v)
                   /\ IsSeparate(v)' = IsSeparate(v)
         /\ \A v : Bound(v)' = Bound(v)
  BY DEF Buffers, Globals, Assigned, Packed, Set, Binding, Type, IsStorage, IsUniform,
         IsSeparate, Bound

\* One buffer gets its binding, or names its type.
LEMMA AssignOne ==
  ASSUME BufferInv, AssignBuffer
  PROVE  next <= Len(Buffers) /\ next' = next + 1 /\ BuffersUpTo(next)' /\ DOMAIN bindings' = DOMAIN bindings
  <1>1. /\ phase = "buffers" /\ next <= Len(Buffers) /\ next' = next + 1
        /\ UNCHANGED <<shader, target>>
        /\ IF target = "GLSL" THEN bindings' = BindBuffer(Buffers[next]) /\ typeNames' = typeNames
           ELSE typeNames' = NameType(Buffers[next]) /\ bindings' = bindings
    BY DEF AssignBuffer
  <1>2. PICK n \in Nat \ {0}, m \in Nat, b \in Seq(Globals) :
          n = next /\ b = Buffers /\ m = Len(b) /\ n \in 1 .. m
    <2>1. Buffers \in Seq(Globals) /\ next \in Nat \ {0}
      BY BuffersFacts DEF BufferInv
    <2>2. Len(Buffers) \in Nat
      BY <2>1
    <2> QED
      BY <1>1, <2>1, <2>2
  <1>3. PICK v \in Globals : v = b[n] /\ v \in DOMAIN bindings
    BY <1>2, BuffersFacts DEF BufferInv, Globals
  <1>4. BuffersUpTo(n)
    BY <1>1, <1>2 DEF BufferInv
  <1>5. \A k \in 1 .. m : b[k] \in DOMAIN bindings /\ (b[k] = v => k = n)
    BY <1>2, <1>3, BuffersFacts DEF BufferInv, Globals
  <1>6. \A x \in Globals : Assigned(x) = Packed(Set(x), Binding(x))
    BY DEF Assigned
  <1>7. CASE target = "GLSL"
    <2>1. bindings' = BindBuffer(v) /\ typeNames' = typeNames
      BY <1>1, <1>2, <1>3, <1>7
    <2>2. \A k \in 1 .. m : bindings[b[k]] = IF k < n THEN Assigned(b[k]) ELSE Binding(b[k])
      BY <1>2, <1>4, <1>7 DEF BuffersUpTo
    <2>3. bindings[v] = Binding(v)
      BY <1>2, <1>3, <2>2
    <2>4. /\ DOMAIN bindings' = DOMAIN bindings /\ bindings'[v] = Assigned(v)
          /\ \A x \in DOMAIN bindings : x # v => bindings'[x] = bindings[x]
      <3>1. CASE Set(v) > 0
        BY <1>3, <1>6, <2>1, <2>3, <3>1 DEF BindBuffer
      <3>2. CASE ~(Set(v) > 0)
        <4>1. Set(v) = 0
          BY <1>2, <3>2, RegisterType DEF BufferInv
        <4>2. Assigned(v) = Binding(v)
          BY <4>1, RegisterType DEF BufferInv
        <4> QED
          BY <2>1, <2>3, <3>2, <4>2 DEF BindBuffer
      <3> QED
        BY <3>1, <3>2
    <2>5. ASSUME NEW k \in 1 .. m
          PROVE  bindings'[b[k]] = IF k < n + 1 THEN Assigned(b[k]) ELSE Binding(b[k])
      <3>1. CASE k = n
        BY <1>2, <1>3, <2>4, <3>1
      <3>2. CASE k # n
        <4>1. bindings'[b[k]] = bindings[b[k]]
          BY <1>5, <2>4, <3>2
        <4>2. k < n + 1 <=> k < n
          BY <1>2, <3>2
        <4> QED
          BY <2>2, <4>1, <4>2
      <3> QED
        BY <3>1, <3>2
    <2>6. BuffersUpTo(next)'
      BY <1>1, <1>2, <1>7, <2>5, SameShader DEF BuffersUpTo
    <2> QED
      BY <1>1, <2>4, <2>6
  <1>8. CASE target # "GLSL"
    <2>1. typeNames' = NameType(v) /\ bindings' = bindings
      BY <1>1, <1>2, <1>3, <1>8
    <2>2. CASE target # "GLSLES"
      BY <1>1, <1>8, <2>1, <2>2 DEF BuffersUpTo
    <2>3. CASE target = "GLSLES"
      <3>1. /\ DOMAIN typeNames = {Type(b[k]) : k \in 1 .. n - 1}
            /\ \A k \in 1 .. n - 1 :
                 (\A l \in 1 .. n - 1 : k < l => Type(b[l]) # Type(b[k])) =>
                   typeNames[Type(b[k])] = Assigned(b[k])
        BY <1>2, <1>4, <2>3 DEF BuffersUpTo
      <3>2. /\ DOMAIN typeNames' = DOMAIN typeNames \cup {Type(v)}
            /\ typeNames'[Type(v)] = Assigned(v)
            /\ \A t \in DOMAIN typeNames : t # Type(v) => typeNames'[t] = typeNames[t]
        BY <1>6, <2>1 DEF NameType, Type
      <3>3. 1 .. n = (1 .. n - 1) \cup {n}
        OBVIOUS
      <3>4. DOMAIN typeNames' = {Type(b[k]) : k \in 1 .. n}
        BY <1>3, <3>1, <3>2, <3>3
      <3>5. ASSUME NEW k \in 1 .. n, \A l \in 1 .. n : k < l => Type(b[l]) # Type(b[k])
            PROVE  typeNames'[Type(b[k])] = Assigned(b[k])
        <4>1. CASE k = n
          BY <1>3, <3>2, <4>1
        <4>2. CASE k # n
          <5>1. k \in 1 .. n - 1 /\ k < n /\ n \in 1 .. n
            BY <4>2
          <5>2. Type(b[k]) # Type(v)
            BY <1>3, <3>5, <5>1
          <5>3. typeNames[Type(b[k])] = Assigned(b[k])
            BY <3>1, <3>3, <3>5, <5>1
          <5>4. Type(b[k]) \in DOMAIN typeNames
            BY <3>1, <5>1
          <5> QED
            BY <3>2, <5>2, <5>3, <5>4
        <4> QED
          BY <4>1, <4>2
      <3>6. next' - 1 = n /\ target' = target /\ Buffers' = b
        BY <1>1, <1>2, SameShader
      <3>7. \A x : Type(x)' = Type(x) /\ Assigned(x)' = Assigned(x)
        BY <1>1, SameShader
      <3>8. BuffersUpTo(next)'
        BY <2>3, <3>4, <3>5, <3>6, <3>7 DEF BuffersUpTo
      <3> QED
        BY <1>1, <2>1, <3>8
    <2> QED
      BY <2>2, <2>3
  <1> QED
    BY <1>7, <1>8

LEMMA InitBuffers == Init => BufferInv
  <1> SUFFICES ASSUME Init PROVE BufferInv
    OBVIOUS
  <1>1. /\ shader \in Shaders /\ target \in Targets /\ phase = "reflect" /\ next = 1
        /\ bindings = [v \in {w \in DOMAIN shader.globals : IsStorage(w) \/ IsUniform(w)} |-> Binding(v)]
        /\ typeNames = << >>
    BY DEF Init
  <1>2. PICK b \in Seq(Globals), m \in Nat : b = Buffers /\ m = Len(b)
    <2>1. Buffers \in Seq(Globals)
      BY <1>1, BuffersFacts
    <2>2. Len(Buffers) \in Nat
      BY <2>1
    <2> QED
      BY <2>1, <2>2
  <1>3. \A k \in 1 .. m : b[k] \in Globals /\ (IsStorage(b[k]) \/ IsUniform(b[k]))
    BY <1>1, <1>2, BuffersFacts
  <1>4. \A k \in 1 .. m : bindings[b[k]] = IF k < 1 THEN Assigned(b[k]) ELSE Binding(b[k])
    BY <1>1, <1>3 DEF Globals
  <1>5. 1 .. 1 - 1 = {} /\ DOMAIN typeNames = {}
    BY <1>1
  <1>6. BuffersUpTo(1)
    BY <1>2, <1>4, <1>5 DEF BuffersUpTo
  <1> QED
    BY <1>1, <1>6 DEF BufferInv, SlotsSay

\* Combining images concerns no register.
LEMMA CombineRest ==
  ASSUME CombineImages
  PROVE  UNCHANGED <<shader, target, imageData, next, images, bindings, typeNames, inputs, slots>>
  BY CombineKeeps DEF CombineImages, assigned

LEMMA NextBuffers == BufferInv /\ [Next]_vars => BufferInv'
  <1> SUFFICES ASSUME BufferInv, [Next]_vars PROVE BufferInv'
    OBVIOUS
  <1>1. CASE CompileSPIRV
    <2>1. /\ phase = "reflect" /\ target = "SPIRV" /\ phase' \in {"failed", "compiled"}
          /\ UNCHANGED <<shader, target, next, bindings, typeNames>>
      BY <1>1 DEF CompileSPIRV
    <2>2. SlotsSay'
      <3>1. CASE phase' = "failed"
        BY <3>1 DEF SlotsSay
      <3>2. CASE phase' = "compiled"
        <4>1. /\ \A v \in DOMAIN shader.globals : Bound(v) # {}
              /\ slots' = [v \in DOMAIN shader.globals |-> CHOOSE s \in Bound(v) : TRUE]
          BY <1>1, <3>2 DEF CompileSPIRV
        <4>2. \A v \in DOMAIN shader.globals : slots'[v] \in Bound(v)
          <5>1. \A S : S # {} => (CHOOSE s \in S : TRUE) \in S
            OBVIOUS
          <5> QED
            BY <4>1, <5>1
        <4>3. DOMAIN slots' = DOMAIN shader.globals
          BY <4>1
        <4>4. \A v : Bound(v)' = Bound(v)
          BY <2>1, SameShader
        <4> QED
          BY <2>1, <3>2, <4>2, <4>3, <4>4 DEF SlotsSay
      <3> QED
        BY <2>1, <3>1, <3>2
    <2> QED
      BY <2>1, <2>2, SameShader DEF BufferInv
  <1>2. CASE Reflect
    <2>1. /\ phase = "reflect" /\ phase' = "dummy" /\ CombinesImages
          /\ UNCHANGED <<shader, target, next, bindings, typeNames>>
      BY <1>2 DEF Reflect
    <2> QED
      BY <2>1, UpToStays, SameShader DEF BufferInv, SlotsSay, CombinesImages
  <1>3. CASE CombineImages
    <2>1. /\ phase \in {"dummy", "combine"} /\ phase' \in {"combine", "names", "failed"}
          /\ UNCHANGED <<shader, target, next, bindings, typeNames>>
      BY <1>3, CombineRest, CombineKeeps
    <2>2. CombinesImages
      BY <2>1 DEF BufferInv, SlotsSay, Targets, CombinesImages
    <2> QED
      BY <2>1, <2>2, UpToStays, SameShader DEF BufferInv, SlotsSay, CombinesImages
  <1>4. CASE NameImage
    <2>1. /\ phase = "names" /\ phase' = phase /\ next' = next + 1
          /\ UNCHANGED <<shader, target, bindings, typeNames>>
      BY <1>4 DEF NameImage
    <2>2. CombinesImages
      BY <2>1 DEF BufferInv, SlotsSay, Targets, CombinesImages
    <2> QED
      BY <2>1, <2>2, UpToStays, SameShader DEF BufferInv, SlotsSay, CombinesImages
  <1>5. CASE ImagesNamed
    <2>1. /\ phase = "names" /\ phase' = "buffers" /\ next' = 1
          /\ UNCHANGED <<shader, target, bindings, typeNames>>
      BY <1>5 DEF ImagesNamed
    <2>2. CombinesImages
      BY <2>1 DEF BufferInv, SlotsSay, Targets, CombinesImages
    <2>3. 1 <= Len(Buffers) + 1
      <3>1. Buffers \in Seq(Globals)
        BY BuffersFacts DEF BufferInv
      <3> QED
        BY <3>1
    <2> QED
      BY <2>1, <2>2, <2>3, UpToStays, SameShader DEF BufferInv, SlotsSay, CombinesImages
  <1>6. CASE AssignBuffer
    <2>1. /\ phase = "buffers" /\ phase' = phase /\ UNCHANGED <<shader, target>>
      BY <1>6 DEF AssignBuffer
    <2>2. CombinesImages
      BY <2>1 DEF BufferInv, SlotsSay, Targets, CombinesImages
    <2>3. next <= Len(Buffers) /\ next' = next + 1 /\ BuffersUpTo(next)' /\ DOMAIN bindings' = DOMAIN bindings
      BY <1>6, AssignOne
    <2>4. Len(Buffers) \in Nat
      <3>1. Buffers \in Seq(Globals)
        BY BuffersFacts DEF BufferInv
      <3> QED
        BY <3>1
    <2> QED
      BY <2>1, <2>2, <2>3, <2>4, SameShader DEF BufferInv, SlotsSay, CombinesImages
  <1>7. CASE BuffersAssigned
    <2>1. /\ phase = "buffers" /\ phase' = "inputs" /\ next > Len(Buffers)
          /\ UNCHANGED <<shader, target, next, bindings, typeNames>>
      BY <1>7 DEF BuffersAssigned, assigned
    <2>2. CombinesImages
      BY <2>1 DEF BufferInv, SlotsSay, Targets, CombinesImages
    <2>3. next = Len(Buffers) + 1
      <3>1. Buffers \in Seq(Globals)
        BY BuffersFacts DEF BufferInv
      <3>2. Len(Buffers) \in Nat
        BY <3>1
      <3> QED
        BY <2>1, <3>2 DEF BufferInv
    <2>4. BuffersUpTo(Len(Buffers) + 1)
      BY <2>1, <2>3 DEF BufferInv
    <2> QED
      BY <2>1, <2>2, <2>4, UpToStays, SameShader DEF BufferInv, SlotsSay, CombinesImages
  <1>8. CASE AssignInputs \/ Compile
    <2>1. /\ \/ phase = "inputs" /\ phase' = "compile"
             \/ phase = "compile" /\ phase' \in {"compiled", "failed"}
          /\ UNCHANGED <<shader, target, next, bindings, typeNames>>
      BY <1>8 DEF AssignInputs, Compile, assigned
    <2>2. target # "SPIRV"
      BY <2>1 DEF BufferInv, SlotsSay
    <2>3. BuffersUpTo(Len(Buffers) + 1)
      BY <2>1, <2>2 DEF BufferInv
    <2> QED
      BY <2>1, <2>2, <2>3, UpToStays, SameShader DEF BufferInv, SlotsSay
  <1>10. CASE AssignInputsHLSL
    <2>1. /\ phase = "reflect" /\ phase' = "compile" /\ target = "HLSL"
          /\ UNCHANGED <<shader, target, next, bindings, typeNames>>
      BY <1>10 DEF AssignInputsHLSL
    <2>2. BuffersUpTo(Len(Buffers) + 1)'
      BY <2>1 DEF BuffersUpTo
    <2> QED
      BY <2>1, <2>2, SameShader DEF BufferInv, SlotsSay
  <1>9. CASE Stopped \/ UNCHANGED vars
    <2>1. UNCHANGED <<shader, phase, target, next, bindings, typeNames, slots>>
      BY <1>9 DEF Stopped, vars, assigned
    <2> QED
      BY <2>1, UpToStays, SameShader DEF BufferInv, SlotsSay
  <1> QED
    BY <1>1, <1>2, <1>3, <1>4, <1>5, <1>6, <1>7, <1>8, <1>9, <1>10 DEF Next

\* A slot of transpileSPIRV's table is for one register, and below space 2 for
\* one class.
LEMMA SlotOfOne ==
  ASSUME shader \in Shaders, NEW v \in Globals, NEW w \in Globals, NEW s,
         s \in Bound(v), s \in Bound(w)
  PROVE  SameRegister(v, w) /\ (SameClass(v, w) \/ Set(v) >= 2)
  <1>0. PICK x, y : x = RegisterClass[shader.globals[v].kind] /\ y = RegisterClass[shader.globals[w].kind]
    OBVIOUS
  <1>1. PICK a \in Nat, b \in Nat, c \in Nat, d \in Nat :
          a = Set(v) /\ b = Binding(v) /\ c = Set(w) /\ d = Binding(w)
    BY RegisterType
  <1>2. s \in BoundRegister(x, a, b) /\ s \in BoundRegister(y, c, d)
    BY <1>0, <1>1 DEF Bound
  <1>3. \A k, e, f : s \in BoundRegister(k, e, f) =>
          \/ k = "b" /\ e = 0 /\ f \in 0 .. 3 /\ s = <<0, f>>
          \/ k = "t" /\ e = 0 /\ f = 0 /\ s = <<1, 0>>
          \/ k = "t" /\ e = 1 /\ f = 0 /\ s = <<2, 0>>
          \/ k = "s" /\ e = 0 /\ f \in 0 .. 1 /\ s = <<3, f>>
          \/ e \in 2 .. 4 /\ f \in 0 .. 3 /\ s = <<2 + e, f>>
    BY DEF BoundRegister
  <1>4. \A e, f, g, h : <<e, f>> = <<g, h>> => e = g /\ f = h
    OBVIOUS
  <1>5. a = c /\ b = d /\ (x = y \/ a >= 2)
    <2>1. CASE a >= 2
      <3>1. s = <<2 + a, b>>
        BY <1>2, <1>3, <2>1
      <3> QED
        BY <1>2, <1>3, <1>4, <2>1, <3>1
    <2>2. CASE a = 0
      BY <1>2, <1>3, <1>4, <2>2
    <2>3. CASE a = 1
      BY <1>2, <1>3, <1>4, <2>3
    <2> QED
      BY <2>1, <2>2, <2>3
  <1> QED
    BY <1>0, <1>1, <1>5 DEF SameRegister, SameClass

\* At the end the registers that three of the back ends give tell buffers apart as
\* well as they can.
LEMMA BuffersAreDistinct == BufferInv => BuffersDistinct
  <1> SUFFICES ASSUME BufferInv, phase = "compiled"
               PROVE  /\ target = "GLSL" => \A v, w \in DOMAIN bindings :
                           Small(v) /\ Small(w) /\ bindings[v] = bindings[w] => SameRegister(v, w)
                      /\ target = "GLSLES" => \A v, w \in DOMAIN bindings :
                           Small(v) /\ Small(w) /\ IsLastOfType(v) /\ IsLastOfType(w) =>
                             (typeNames[Type(v)] = typeNames[Type(w)] <=> SameRegister(v, w))
                      /\ target = "SPIRV" => \A v, w \in DOMAIN slots :
                           slots[v] = slots[w] =>
                             SameRegister(v, w) /\ (SameClass(v, w) \/ Set(v) >= 2)
    BY DEF BuffersDistinct
  <1>1. PICK b \in Seq(Globals), m \in Nat :
          b = Buffers /\ m = Len(b) /\ shader \in Shaders
    <2>1. Buffers \in Seq(Globals)
      BY BuffersFacts DEF BufferInv
    <2>2. Len(Buffers) \in Nat
      BY <2>1
    <2> QED
      BY <2>1, <2>2 DEF BufferInv
  <1>2. \A v \in DOMAIN bindings : v \in Globals /\ \E k \in 1 .. m : b[k] = v
    BY <1>1, BuffersFacts DEF BufferInv, Globals
  <1>3. target # "SPIRV" => BuffersUpTo(m + 1)
    BY <1>1 DEF BufferInv
  <1>4. ASSUME target = "GLSL", NEW v \in DOMAIN bindings, NEW w \in DOMAIN bindings,
               Small(v), Small(w), bindings[v] = bindings[w]
        PROVE  SameRegister(v, w)
    <2>1. \A k \in 1 .. m : bindings[b[k]] = Assigned(b[k])
      BY <1>1, <1>3, <1>4 DEF BuffersUpTo
    <2>2. bindings[v] = Assigned(v) /\ bindings[w] = Assigned(w)
      BY <1>2, <2>1
    <2> QED
      BY <1>1, <1>2, <1>4, <2>2, PackedApart
  <1>5. ASSUME target = "GLSLES", NEW v \in DOMAIN bindings, NEW w \in DOMAIN bindings,
               Small(v), Small(w), IsLastOfType(v), IsLastOfType(w)
        PROVE  typeNames[Type(v)] = typeNames[Type(w)] <=> SameRegister(v, w)
    <2>1. ASSUME NEW x \in DOMAIN bindings, IsLastOfType(x)
          PROVE  typeNames[Type(x)] = Assigned(x)
      <3>1. PICK k \in 1 .. m : b[k] = x
        BY <1>2
      <3>2. DOMAIN b = 1 .. m
        BY <1>1
      <3>3. \A l \in 1 .. m : k < l => Type(b[l]) # Type(b[k])
        BY <1>1, <2>1, <3>1, <3>2 DEF IsLastOfType
      <3>4. \A j \in 1 .. m :
              (\A l \in 1 .. m : j < l => Type(b[l]) # Type(b[j])) =>
                typeNames[Type(b[j])] = Assigned(b[j])
        BY <1>1, <1>3, <1>5 DEF BuffersUpTo
      <3> QED
        BY <3>1, <3>3, <3>4
    <2> QED
      BY <1>1, <1>2, <1>5, <2>1, PackedApart
  <1>6. ASSUME target = "SPIRV", NEW v \in DOMAIN slots, NEW w \in DOMAIN slots, slots[v] = slots[w]
        PROVE  SameRegister(v, w) /\ (SameClass(v, w) \/ Set(v) >= 2)
    <2>1. v \in Globals /\ w \in Globals /\ slots[v] \in Bound(v) /\ slots[v] \in Bound(w)
      BY <1>6 DEF BufferInv, SlotsSay, Globals
    <2> QED
      BY <1>1, <2>1, SlotOfOne
  <1> QED
    BY <1>4, <1>5, <1>6

\* GLSL's bindings, GLSL ES's type names and transpileSPIRV's slots tell buffers
\* apart, for every shader: by their registers, as long as these are below 4.
THEOREM BuffersApart == Spec => []BuffersDistinct
  <1>1. Spec => []BufferInv
    BY InitBuffers, NextBuffers, PTL DEF Spec
  <1> QED
    BY <1>1, BuffersAreDistinct, PTL

-------------------------------------------------------------------------------
(* The traversal *)

\* Whatever a parameter's kind is, what it stands for has it; a global stands
\* for itself.
LEMMA RemapTyped ==
  ASSUME NEW kind \in Kinds, NEW id, Top.fn \in Fn, IsBoundTo(Top.remapping, Top.fn),
         IsOfKind(shader, Top.fn, id, kind)
  PROVE  RemapParameter(id) \in Globals /\ shader.globals[RemapParameter(id)].kind = kind
  <1>1. CASE id \in Ids(Top.fn)
    BY <1>1 DEF IsBoundTo, RemapParameter
  <1>2. CASE id \notin Ids(Top.fn)
    <2>1. id \in Globals /\ shader.globals[id].kind = kind
      BY <1>2 DEF IsOfKind, Ids, Globals, Function
    <2> QED
      BY <1>2, <2>1 DEF IsBoundTo, RemapParameter
  <1> QED
    BY <1>1, <1>2

\* The innermost call and the operation it is at.
LEMMA TopTyped ==
  ASSUME StackTyped, shader \in Shaders, AtOp
  PROVE  /\ Len(stack) \in Nat \ {0}
         /\ Top.fn \in Fn /\ Top.at \in 1 .. Len(Body(Top.fn)) /\ IsBoundTo(Top.remapping, Top.fn)
         /\ Op.op = "sample" => IsOfKind(shader, Top.fn, Op.image, "image")
                                /\ IsOfKind(shader, Top.fn, Op.sampler, "sampler")
         /\ FetchesImage(Top.fn, Op) => IsOfKind(shader, Top.fn, Op.image, "image")
         /\ Op.op = "call" =>
              /\ Op.callee \in Fn
              /\ \A k \in DOMAIN Function(Op.callee).arguments :
                   IsOfKind(shader, Top.fn, Op.args[k], Function(Op.callee).arguments[k].kind)
  <1>1. phase = "combine" /\ Top.at <= Len(Body(Top.fn))
    BY DEF AtOp
  <1>2. Len(stack) \in Nat \ {0} /\ Top.fn \in Fn /\ Top.at \in Nat \ {0}
        /\ IsBoundTo(Top.remapping, Top.fn)
    <2>1. Len(stack) \in Nat \ {0} /\ Top \in Frame /\ IsBoundTo(Top.remapping, Top.fn)
      BY <1>1 DEF StackTyped, Top
    <2> QED
      BY <2>1 DEF Frame
  <1>3. PICK f, n, o :
          f \in Fn /\ n \in Nat \ {0} /\ f = Top.fn /\ n = Top.at /\ o = Op /\ o = shader.functions[f].body[n]
    BY <1>2 DEF Op, Body, Function
  <1>4. n \in 1 .. Len(shader.functions[f].body)
    BY <1>1, <1>2, <1>3 DEF Body, Function
  <1>5. /\ o.op = "sample" => IsOfKind(shader, f, o.image, "image") /\ IsOfKind(shader, f, o.sampler, "sampler")
        /\ o.op = "fetch" =>
             IsOfKind(shader, f, o.image, "image") \/ IsOfKind(shader, f, o.image, "texelBuffer")
        /\ o.op = "call" =>
             /\ o.callee \in Fn
             /\ \A k \in DOMAIN shader.functions[o.callee].arguments :
                  IsOfKind(shader, f, o.args[k], shader.functions[o.callee].arguments[k].kind)
    BY <1>3, <1>4, OperandsAssumption
  <1>6. FetchesImage(f, o) => IsOfKind(shader, f, o.image, "image")
    <2> SUFFICES ASSUME FetchesImage(f, o), IsOfKind(shader, f, o.image, "texelBuffer")
                 PROVE  FALSE
      BY <1>5 DEF FetchesImage
    <2>1. KindOf(f, o.image) = "image"
      BY DEF FetchesImage
    <2>2. CASE ArgumentsNamed(f, o.image) = {}
      BY <2>1, <2>2 DEF KindOf, IsOfKind, ArgumentsNamed, Function
    <2>3. CASE ArgumentsNamed(f, o.image) # {}
      <3>1. PICK k : k = CHOOSE j \in ArgumentsNamed(f, o.image) : TRUE
        OBVIOUS
      <3>2. k \in ArgumentsNamed(f, o.image)
        BY <2>3, <3>1
      <3>3. Function(f).arguments[k].kind = "image"
        BY <2>1, <2>3, <3>1 DEF KindOf
      <3> QED
        BY <3>2, <3>3 DEF IsOfKind, ArgumentsNamed, Function
    <2> QED
      BY <2>2, <2>3
  <1>7. Top.at \in 1 .. Len(Body(Top.fn))
    BY <1>3, <1>4 DEF Body, Function
  <1> QED
    BY <1>2, <1>3, <1>5, <1>6, <1>7 DEF Function

\* The types are those of the shader.
LEMMA SameTypes ==
  ASSUME shader' = shader
  PROVE  /\ Frame' = Frame /\ Pair' = Pair /\ Globals' = Globals
         /\ \A remapping, f : IsBoundTo(remapping, f) => IsBoundTo(remapping, f)'
  <1>1. Globals' = Globals /\ \A f : Ids(f)' = Ids(f)
    BY DEF Globals, Ids, Function
  <1>2. Frame' = Frame /\ Pair' = Pair
    BY <1>1 DEF Frame, Pair, Ids, Globals, Calls, Body, Function
  <1>3. \A remapping, f : IsBoundTo(remapping, f) => IsBoundTo(remapping, f)'
    BY <1>1 DEF IsBoundTo, Ids, Function
  <1> QED
    BY <1>1, <1>2, <1>3

\* The innermost call moves on to its next operation.
LEMMA AdvancedTyped ==
  ASSUME stack \in Seq(Frame), stack # << >>
  PROVE  /\ Advanced(stack) \in Seq(Frame) /\ Len(Advanced(stack)) = Len(stack)
         /\ \A d \in 1 .. Len(stack) :
              /\ Advanced(stack)[d].fn = stack[d].fn
              /\ Advanced(stack)[d].remapping = stack[d].remapping
  <1>1. PICK n \in Nat \ {0} : n = Len(stack)
    OBVIOUS
  <1>2. PICK f : f \in Frame /\ f = stack[n]
    BY <1>1
  <1>3. PICK g : g = [f EXCEPT !.at = @ + 1]
    OBVIOUS
  <1>4. g \in Frame /\ g.fn = f.fn /\ g.remapping = f.remapping
    BY <1>2, <1>3 DEF Frame
  <1>5. Advanced(stack) = [stack EXCEPT ![n] = g]
    BY <1>1, <1>2, <1>3 DEF Advanced
  <1> HIDE DEF Frame
  <1>6. /\ [stack EXCEPT ![n] = g] \in Seq(Frame)
        /\ Len([stack EXCEPT ![n] = g]) = n
        /\ \A j \in 1 .. n : [stack EXCEPT ![n] = g][j] = IF j = n THEN g ELSE stack[j]
    BY <1>1, <1>4, ExceptSeq
  <1> QED
    BY <1>1, <1>2, <1>4, <1>5, <1>6

\* So the stack stays typed.
LEMMA AdvancedStack ==
  ASSUME StackTyped, phase = "combine", shader' = shader, stack' = Advanced(stack)
  PROVE  StackTyped'
  <1>1. /\ stack \in Seq(Frame) /\ stack # << >>
        /\ \A d \in 1 .. Len(stack) : IsBoundTo(stack[d].remapping, stack[d].fn)
    BY DEF StackTyped
  <1>2. /\ stack' \in Seq(Frame) /\ Len(stack') = Len(stack)
        /\ \A d \in 1 .. Len(stack) : stack'[d].fn = stack[d].fn /\ stack'[d].remapping = stack[d].remapping
    BY <1>1, AdvancedTyped
  <1>3. stack' # << >>
    BY <1>1, <1>2
  <1>4. \A d \in 1 .. Len(stack') : IsBoundTo(stack'[d].remapping, stack'[d].fn)
    BY <1>1, <1>2
  <1>5. /\ Frame' = Frame
        /\ \A remapping, f : IsBoundTo(remapping, f) => IsBoundTo(remapping, f)'
    BY SameTypes
  <1> QED
    BY <1>2, <1>3, <1>4, <1>5 DEF StackTyped

\* A call binds the parameters of its callee to globals of their kinds.
LEMMA CallBinds ==
  ASSUME shader \in Shaders, StackTyped, Call, NEW remapping, NEW n \in Nat,
         n = Len(stack), remapping = stack'[n + 1].remapping
  PROVE  /\ stack' = Append(Advanced(stack), [fn |-> Op.callee, at |-> 1, args |-> Op.args,
                                              remapping |-> remapping])
         /\ IsBoundTo(remapping, Op.callee)
         /\ remapping \in [Ids(Op.callee) -> Globals]
  <1>1. AtOp /\ Op.op = "call"
    BY DEF Call
  <1>2. /\ Op.callee \in Fn
        /\ \A k \in DOMAIN Function(Op.callee).arguments :
             IsOfKind(shader, Top.fn, Op.args[k], Function(Op.callee).arguments[k].kind)
        /\ Top.fn \in Fn /\ IsBoundTo(Top.remapping, Top.fn)
    BY <1>1, TopTyped
  <1>3. PICK c, formal : c = Op.callee /\ c \in Fn /\ formal = Function(c).arguments
    BY <1>2
  <1> DEFINE value(id) == RemapParameter(Op.args[CHOOSE k \in ArgumentsNamed(c, id) : TRUE])
             m == [id \in Ids(c) |-> value(id)]
             top == [fn |-> c, at |-> 1, args |-> Op.args, remapping |-> m]
  <1>4. stack' = Append(Advanced(stack), top)
    BY <1>3 DEF Call, Ids
  <1>5. stack \in Seq(Frame) /\ stack # << >>
    BY <1>1 DEF StackTyped, AtOp
  <1>6. Advanced(stack) \in Seq(Frame) /\ Len(Advanced(stack)) = n
    BY <1>5, AdvancedTyped
  <1>7. stack'[n + 1] = top
    <2> HIDE DEF top
    <2>1. \A S, q, x : q \in Seq(S) => Append(q, x)[Len(q) + 1] = x
      OBVIOUS
    <2> QED
      BY <1>4, <1>6, <2>1
  <1>8. remapping = m
    <2>1. top.remapping = m
      OBVIOUS
    <2> HIDE DEF top
    <2> QED
      BY <1>7, <2>1
  <1>9. ASSUME NEW id \in Ids(c)
        PROVE  /\ value(id) \in Globals
               /\ \A kind \in Kinds : IsOfKind(shader, c, id, kind) => shader.globals[value(id)].kind = kind
    <2>1. ArgumentsNamed(c, id) # {}
      BY <1>9 DEF Ids, ArgumentsNamed
    <2>2. PICK k : k \in ArgumentsNamed(c, id) /\ k = CHOOSE j \in ArgumentsNamed(c, id) : TRUE
      BY <2>1
    <2>3. k \in DOMAIN formal /\ formal[k].id = id
      BY <1>3, <2>2 DEF ArgumentsNamed
    <2>4. IsOfKind(shader, Top.fn, Op.args[k], formal[k].kind)
      BY <1>2, <1>3, <2>3
    <2>5. formal[k].kind \in Kinds
      BY <1>3, <2>3, OperandsAssumption DEF Function
    <2>6. value(id) \in Globals /\ shader.globals[value(id)].kind = formal[k].kind
      BY <1>2, <2>2, <2>4, <2>5, RemapTyped
    <2>7. \A kind \in Kinds : IsOfKind(shader, c, id, kind) => formal[k].kind = kind
      BY <1>3, <2>2 DEF IsOfKind, ArgumentsNamed, Function
    <2> HIDE DEF value
    <2> QED
      BY <2>6, <2>7
  <1> HIDE DEF value
  <1>10. IsBoundTo(m, c)
    BY <1>9 DEF IsBoundTo
  <1>11. m \in [Ids(c) -> Globals]
    BY <1>9
  <1> QED
    BY <1>3, <1>4, <1>8, <1>10, <1>11

\* The callee's frame is one, and it is typed.
LEMMA CallTyped == ASSUME shader \in Shaders, StackTyped, Call PROVE StackTyped'
  <1>1. phase = "combine" /\ AtOp /\ Op.op = "call" /\ shader' = shader
    BY DEF Call, AtOp
  <1>2. stack \in Seq(Frame) /\ stack # << >>
        /\ \A d \in 1 .. Len(stack) : IsBoundTo(stack[d].remapping, stack[d].fn)
    BY <1>1 DEF StackTyped
  <1>3. PICK n \in Nat : n = Len(stack)
    BY <1>2
  <1>4. PICK r : r = stack'[n + 1].remapping
    OBVIOUS
  <1>5. PICK a : a = Advanced(stack)
    OBVIOUS
  <1>6. PICK g : g = [fn |-> Op.callee, at |-> 1, args |-> Op.args, remapping |-> r]
    OBVIOUS
  <1>7. stack' = Append(a, g) /\ IsBoundTo(r, Op.callee) /\ r \in [Ids(Op.callee) -> Globals]
    BY <1>3, <1>4, <1>5, <1>6, CallBinds
  <1>8. Op.callee \in Fn /\ Top.fn \in Fn /\ Top.at \in Calls(Top.fn)
    BY <1>1, TopTyped DEF Calls, Op
  <1>9. g \in Frame
    <2>1. Op.args \in UNION {{Body(f)[k].args : k \in Calls(f)} : f \in Fn}
      BY <1>8 DEF Op
    <2>2. r \in UNION {[Ids(f) -> Globals] : f \in Fn}
      BY <1>7, <1>8
    <2> QED
      BY <1>6, <1>8, <2>1, <2>2 DEF Frame
  <1>10. a \in Seq(Frame) /\ Len(a) = n
         /\ \A d \in 1 .. n : a[d].fn = stack[d].fn /\ a[d].remapping = stack[d].remapping
    BY <1>2, <1>3, <1>5, AdvancedTyped
  <1>11. /\ stack' \in Seq(Frame) /\ stack' # << >> /\ Len(stack') = n + 1
         /\ \A d \in 1 .. n : stack'[d] = a[d]
         /\ stack'[n + 1] = g
    BY <1>7, <1>9, <1>10, AppendProperties
  <1>12. ASSUME NEW d \in 1 .. n + 1 PROVE IsBoundTo(stack'[d].remapping, stack'[d].fn)
    <2>1. CASE d = n + 1
      BY <1>6, <1>7, <1>11, <2>1
    <2>2. CASE d \in 1 .. n
      BY <1>2, <1>3, <1>10, <1>11, <2>2
    <2> QED
      BY <2>1, <2>2
  <1>13. /\ Frame' = Frame
         /\ \A remapping, f : IsBoundTo(remapping, f) => IsBoundTo(remapping, f)'
    BY <1>1, SameTypes
  <1> QED
    BY <1>11, <1>12, <1>13 DEF StackTyped

\* A pair that is combined is one of a separate image and a sampler.
LEMMA CombineTyped ==
  ASSUME shader \in Shaders, StackTyped, PairsTyped, AtOp, NEW image, NEW own, NEW sampler,
         IsOfKind(shader, Top.fn, image, "image"), sampler \in Globals \cup {Dummy},
         Combine(image, own, sampler)
  PROVE  StackTyped' /\ PairsTyped'
  <1>1. phase = "combine" /\ phase' = phase /\ shader' = shader /\ stack' = Advanced(stack)
    BY DEF AtOp, Combine
  <1>2. StackTyped'
    BY <1>1, AdvancedStack
  <1>3. PICK c : c = [image |-> RemapParameter(image), sampler |-> sampler]
    OBVIOUS
  <1>4. c \in Pair
    <2>1. Top.fn \in Fn /\ IsBoundTo(Top.remapping, Top.fn)
      BY TopTyped
    <2>2. "image" \in Kinds
      BY DEF Kinds
    <2>3. RemapParameter(image) \in Globals /\ shader.globals[RemapParameter(image)].kind = "image"
      BY <2>1, <2>2, RemapTyped
    <2> QED
      BY <1>3, <2>3 DEF Pair
  <1>5. combined_image_samplers' \in {combined_image_samplers, Append(combined_image_samplers, c)}
    BY <1>3 DEF Combine
  <1>6. combined_image_samplers' \in Seq(Pair)
    BY <1>4, <1>5, AppendProperties DEF PairsTyped
  <1> QED
    BY <1>1, <1>2, <1>6, SameTypes DEF PairsTyped

\* The traversal starts in the entry point, which has no parameters.
LEMMA DummyTyped ==
  ASSUME shader \in Shaders, PairsTyped, BuildDummySampler
  PROVE  StackTyped' /\ PairsTyped'
  <1>1. PICK g : g = [fn |-> shader.entry, at |-> 1, args |-> << >>, remapping |-> << >>]
    OBVIOUS
  <1>2. shader' = shader /\ stack' = <<g>> /\ combined_image_samplers' = << >>
    BY <1>1 DEF BuildDummySampler
  <1>3. shader.entry \in Fn /\ Function(shader.entry).arguments = << >>
    BY OperandsAssumption DEF Function
  <1>4. Ids(shader.entry) = {}
    BY <1>3 DEF Ids
  <1>5. IsBoundTo(<< >>, shader.entry)
    BY <1>4 DEF IsBoundTo
  <1>6. g \in Frame
    <2>1. << >> \in [Ids(shader.entry) -> Globals]
      <3>1. << >> \in Seq(Globals)
        OBVIOUS
      <3>2. << >> = [x \in {} |-> x]
        OBVIOUS
      <3> QED
        BY <1>4, <3>2
    <2>2. << >> \in UNION {[Ids(f) -> Globals] : f \in Fn}
      BY <1>3, <2>1
    <2> QED
      BY <1>1, <1>3, <2>2 DEF Frame
  <1>7. stack' \in Seq(Frame) /\ stack' # << >> /\ Len(stack') = 1 /\ stack'[1] = g
    BY <1>2, <1>6
  <1>8. \A d \in 1 .. Len(stack') : IsBoundTo(stack'[d].remapping, stack'[d].fn)
    <2>1. IsBoundTo(g.remapping, g.fn)
      BY <1>1, <1>5
    <2>2. \A d \in 1 .. 1 : d = 1
      OBVIOUS
    <2> QED
      BY <1>7, <2>1, <2>2
  <1>9. /\ Frame' = Frame
        /\ \A remapping, f : IsBoundTo(remapping, f) => IsBoundTo(remapping, f)'
    BY <1>2, SameTypes
  <1> QED
    BY <1>2, <1>7, <1>8, <1>9 DEF StackTyped, PairsTyped

\* Every step of the traversal keeps the types.
LEMMA TraversalTyped ==
  ASSUME shader \in Shaders, StackTyped, PairsTyped, CombineImages
  PROVE  StackTyped' /\ PairsTyped'
  <1>1. CASE BuildDummySampler
    BY <1>1, DummyTyped
  <1>2. CASE Sample
    <2>1. AtOp /\ Op.op = "sample" /\ Combine(Op.image, Op.sampler, RemapParameter(Op.sampler))
      BY <1>2 DEF Sample
    <2>2. /\ IsOfKind(shader, Top.fn, Op.image, "image") /\ IsOfKind(shader, Top.fn, Op.sampler, "sampler")
          /\ Top.fn \in Fn /\ IsBoundTo(Top.remapping, Top.fn)
      BY <2>1, TopTyped
    <2>3. RemapParameter(Op.sampler) \in Globals
      <3>1. "sampler" \in Kinds
        BY DEF Kinds
      <3> QED
        BY <2>2, <3>1, RemapTyped
    <2> QED
      BY <2>1, <2>2, <2>3, CombineTyped
  <1>3. CASE Fetch
    <2>1. AtOp /\ FetchesImage(Top.fn, Op) /\ Combine(Op.image, Dummy, Dummy)
      BY <1>3 DEF Fetch
    <2>2. IsOfKind(shader, Top.fn, Op.image, "image")
      BY <2>1, TopTyped
    <2> QED
      BY <2>1, <2>2, CombineTyped
  <1>4. CASE FetchBuffer
    <2>1. /\ phase = "combine" /\ shader' = shader /\ stack' = Advanced(stack)
          /\ combined_image_samplers' = combined_image_samplers
      BY <1>4 DEF FetchBuffer, AtOp
    <2> QED
      BY <2>1, AdvancedStack, SameTypes DEF PairsTyped
  <1>5. CASE Throw \/ EndTraversal
    <2>1. phase' # "combine" /\ shader' = shader /\ combined_image_samplers' = combined_image_samplers
      BY <1>5 DEF Throw, EndTraversal, traversal
    <2> QED
      BY <2>1, SameTypes DEF StackTyped, PairsTyped
  <1>6. CASE Call
    <2>1. shader' = shader /\ combined_image_samplers' = combined_image_samplers
      BY <1>6 DEF Call
    <2> QED
      BY <1>6, <2>1, CallTyped, SameTypes DEF PairsTyped
  <1>7. CASE Return
    <2>1. /\ phase = "combine" /\ InFunction /\ shader' = shader
          /\ stack' = SubSeq(stack, 1, Len(stack) - 1)
          /\ combined_image_samplers' = combined_image_samplers
      BY <1>7 DEF Return
    <2>2. /\ stack \in Seq(Frame)
          /\ \A d \in 1 .. Len(stack) : IsBoundTo(stack[d].remapping, stack[d].fn)
      BY <2>1 DEF StackTyped
    <2>3. PICK n \in Nat : n = Len(stack) /\ n > 1
      BY <2>1, <2>2 DEF InFunction
    <2>4. /\ stack' \in Seq(Frame) /\ Len(stack') = n - 1 /\ stack' # << >>
          /\ \A d \in 1 .. n - 1 : stack'[d] = stack[d]
      <3>1. stack' = SubSeq(stack, 1, n - 1)
        BY <2>1, <2>3
      <3>2. /\ SubSeq(stack, 1, n - 1) \in Seq(Frame) /\ Len(SubSeq(stack, 1, n - 1)) = n - 1
            /\ \A d \in 1 .. n - 1 : SubSeq(stack, 1, n - 1)[d] = stack[d]
        BY <2>2, <2>3
      <3>3. n - 1 # 0
        BY <2>3, SMTT(30)
      <3>4. stack' # << >>
        BY <3>1, <3>2, <3>3
      <3> QED
        BY <3>1, <3>2, <3>4
    <2>5. \A d \in 1 .. n - 1 : IsBoundTo(stack'[d].remapping, stack'[d].fn)
      BY <2>2, <2>3, <2>4
    <2>6. /\ Frame' = Frame /\ Pair' = Pair
          /\ \A remapping, f : IsBoundTo(remapping, f) => IsBoundTo(remapping, f)'
      BY <2>1, SameTypes
    <2> QED
      BY <2>1, <2>4, <2>5, <2>6 DEF StackTyped, PairsTyped
  <1> QED
    BY <1>1, <1>2, <1>3, <1>4, <1>5, <1>6, <1>7 DEF CombineImages, BuildCombinedImageSamplers

-------------------------------------------------------------------------------
(* The names and units *)

\* The sampled images are the source's and the combined ones.
Sampled == [image : Globals, sampler : Globals \cup {Dummy, None}]

LEMMA SampledType ==
  ASSUME shader \in Shaders, PairsTyped
  PROVE  /\ SampledImages \in Seq(Sampled)
         /\ \A k \in 1 .. Len(SampledImages) :
              \/ SampledImages[k].sampler = None
              \/ shader.globals[SampledImages[k].image].kind = "image"
  <1>1. PICK q : q = shader.sampled_images
    OBVIOUS
  <1>2. q \in Seq(Globals)
    BY <1>1, ResourcesAssumption DEF Lists, Globals
  <1>3. PICK p : p = [k \in 1 .. Len(q) |-> Native(q[k])]
    OBVIOUS
  <1>4. SampledImages = p \o combined_image_samplers
    BY <1>1, <1>3 DEF SampledImages
  <1>5. p \in Seq(Sampled) /\ \A k \in 1 .. Len(p) : p[k].sampler = None
    BY <1>2, <1>3 DEF Native, Sampled
  <1>6. /\ combined_image_samplers \in Seq(Sampled)
        /\ \A k \in 1 .. Len(combined_image_samplers) :
             shader.globals[combined_image_samplers[k].image].kind = "image"
    <2>1. \A r \in Pair : r \in Sampled /\ shader.globals[r.image].kind = "image"
      BY DEF Pair, Sampled
    <2>2. \A S, T, c : c \in Seq(S) /\ (\A r \in S : r \in T) => c \in Seq(T)
      OBVIOUS
    <2>3. combined_image_samplers \in Seq(Pair)
      BY DEF PairsTyped
    <2>4. \A k \in 1 .. Len(combined_image_samplers) : combined_image_samplers[k] \in Pair
      BY <2>3
    <2> HIDE DEF Pair, Sampled
    <2>5. combined_image_samplers \in Seq(Sampled)
      BY <2>1, <2>2, <2>3
    <2> QED
      BY <2>1, <2>4, <2>5
  <1>7. PICK c : c = combined_image_samplers
    OBVIOUS
  <1>8. /\ p \o c \in Seq(Sampled) /\ Len(p \o c) = Len(p) + Len(c)
        /\ \A k \in 1 .. Len(p) : (p \o c)[k] = p[k]
        /\ \A k \in 1 .. Len(c) : (p \o c)[Len(p) + k] = c[k]
        /\ \A k \in 1 .. Len(p) + Len(c) : k \in 1 .. Len(p) \/ k - Len(p) \in 1 .. Len(c)
    BY <1>5, <1>6, <1>7, Joined
  <1>9. ASSUME NEW k \in 1 .. Len(p) + Len(c)
        PROVE  \/ (p \o c)[k].sampler = None
               \/ shader.globals[(p \o c)[k].image].kind = "image"
    <2>1. CASE k \in 1 .. Len(p)
      BY <1>5, <1>8, <2>1
    <2>2. CASE k - Len(p) \in 1 .. Len(c)
      <3>1. PICK m \in Nat : m = Len(p)
        BY <1>5
      <3>2. m + (k - m) = k
        BY <3>1
      <3>3. (p \o c)[k] = c[k - m]
        BY <1>8, <2>2, <3>1, <3>2
      <3> QED
        BY <1>6, <1>7, <2>2, <3>1, <3>3
    <2> QED
      BY <1>8, <2>1, <2>2
  <1> QED
    BY <1>4, <1>7, <1>8, <1>9

\* The images that are named stay so.
LEMMA ImagesStay ==
  ASSUME UNCHANGED <<shader, target, imageData, images, combined_image_samplers>>, NEW n, ImagesUpTo(n)
  PROVE  ImagesUpTo(n)' /\ SampledImages' = SampledImages
  BY DEF ImagesUpTo, Image, Data, SampledImages, Native

LEMMA InitImages == Init => ImageInv
  <1> SUFFICES ASSUME Init, CombinesImages PROVE ImageInv
    BY DEF ImageInv
  <1>1. /\ phase = "reflect" /\ next = 1 /\ images = << >> /\ combined_image_samplers = << >>
    BY DEF Init
  <1>2. ImagesUpTo(1)
    <2>1. [k \in 1 .. 0 |-> Image(SampledImages[k])] = << >>
      OBVIOUS
    <2> QED
      BY <1>1, <2>1 DEF ImagesUpTo
  <1> QED
    BY <1>1, <1>2 DEF ImageInv, StackTyped, PairsTyped

\* One image gets its name and its unit.
LEMMA NameOne ==
  ASSUME BufferInv, ImageInv, NameImage, CombinesImages
  PROVE  /\ next' \in 1 .. Len(SampledImages) + 1
         /\ ImagesUpTo(next)' /\ SampledImages' = SampledImages
  <1>1. /\ phase = "names" /\ next <= Len(SampledImages) /\ next' = next + 1
        /\ UNCHANGED <<shader, target, imageData, combined_image_samplers>>
        /\ images' = Append(images, Image(SampledImages[next]))
    BY DEF NameImage, Image, traversal
  <1>2. next \in 1 .. Len(SampledImages) + 1 /\ ImagesUpTo(next)
    BY <1>1 DEF ImageInv
  <1>3. SampledImages \in Seq(Sampled)
    BY SampledType DEF BufferInv, ImageInv
  <1>4. PICK n \in Nat \ {0}, m \in Nat : n = next /\ m = Len(SampledImages) /\ n <= m
    BY <1>1, <1>2, <1>3
  <1> DEFINE named(k) == Image(SampledImages[k])
  <1>5. images = [k \in 1 .. n - 1 |-> named(k)] /\ images' = Append(images, named(n))
    BY <1>1, <1>2, <1>4 DEF ImagesUpTo
  <1> HIDE DEF named
  <1>6. images' = [k \in 1 .. n |-> named(k)]
    <2>1. PICK T : T = {named(k) : k \in 1 .. n}
      OBVIOUS
    <2>2. images \in Seq(T) /\ Len(images) = n - 1 /\ named(n) \in T
      BY <1>5, <2>1, SMTT(30)
    <2>3. /\ images' \in Seq(T) /\ Len(images') = n
          /\ \A k \in 1 .. n - 1 : images'[k] = images[k]
          /\ images'[n] = named(n)
      BY <1>5, <2>2, AppendProperties
    <2>4. \A k \in 1 .. n : images'[k] = named(k)
      BY <1>5, <2>3
    <2> QED
      BY <2>3, <2>4
  <1>7. SampledImages' = SampledImages /\ \A r : Image(r)' = Image(r)
    BY <1>1 DEF SampledImages, Native, Image, Data
  <1>8. next' - 1 = n /\ next' \in 1 .. m + 1
    BY <1>1, <1>4
  <1>9. ImagesUpTo(next)'
    BY <1>6, <1>7, <1>8 DEF ImagesUpTo, named
  <1> QED
    BY <1>4, <1>7, <1>8, <1>9

LEMMA NextImages == BufferInv /\ ImageInv /\ [Next]_vars => ImageInv'
  <1> SUFFICES ASSUME BufferInv, ImageInv, [Next]_vars PROVE ImageInv'
    OBVIOUS
  <1>t. target' = target
    <2>1. CompileSPIRV \/ Reflect \/ NameImage \/ ImagesNamed => target' = target
      BY DEF CompileSPIRV, Reflect, NameImage, ImagesNamed
    <2>2. AssignBuffer \/ BuffersAssigned \/ AssignInputs \/ AssignInputsHLSL \/ Compile => target' = target
      BY DEF AssignBuffer, BuffersAssigned, AssignInputs, AssignInputsHLSL, Compile
    <2>3. Stopped \/ UNCHANGED vars => target' = target
      BY DEF Stopped, vars
    <2> QED
      BY <2>1, <2>2, <2>3, CombineRest DEF Next
  <1> SUFFICES ASSUME CombinesImages PROVE ImageInv'
    BY <1>t DEF ImageInv, CombinesImages
  <1>0. StackTyped /\ PairsTyped /\ shader \in Shaders
    BY DEF ImageInv, BufferInv
  <1>1. CASE CompileSPIRV \/ AssignInputsHLSL
    BY <1>1 DEF CompileSPIRV, AssignInputsHLSL, CombinesImages
  <1>2. CASE Reflect
    <2>1. /\ phase = "reflect" /\ phase' = "dummy"
          /\ UNCHANGED <<shader, target, next, images, combined_image_samplers>>
          /\ imageData' = [v \in {w \in Globals : IsSeparate(w)} |-> [name |-> v, binding |-> Assigned(v)]]
      BY <1>2 DEF Reflect, traversal, Globals, Assigned
    <2>2. next = 1 /\ images = [k \in 1 .. 0 |-> Image(SampledImages[k])]
      BY <2>1 DEF ImageInv, ImagesUpTo
    <2>3. ImagesUpTo(1)'
      BY <2>1, <2>2 DEF ImagesUpTo
    <2> QED
      BY <1>0, <2>1, <2>2, <2>3, SameTypes, SameShader DEF ImageInv, StackTyped, PairsTyped
  <1>3. CASE CombineImages
    <2>1. /\ phase \in {"dummy", "combine"} /\ phase' \in {"combine", "names", "failed"}
          /\ UNCHANGED <<shader, target, imageData, next, images>>
      BY <1>3, CombineRest, CombineKeeps
    <2>2. StackTyped' /\ PairsTyped'
      BY <1>0, <1>3, TraversalTyped
    <2>3. next' = 1 /\ images = [k \in 1 .. 0 |-> Image(SampledImages[k])]
      BY <2>1 DEF ImageInv, ImagesUpTo
    <2>4. ImagesUpTo(1)'
      BY <2>1, <2>3 DEF ImagesUpTo
    <2>5. next' \in 1 .. Len(SampledImages') + 1
      <3>1. PICK p, c : p = [k \in 1 .. Len(shader.sampled_images) |-> Native(shader.sampled_images[k])]
                         /\ c = combined_image_samplers'
        OBVIOUS
      <3>2. SampledImages' = p \o c
        BY <2>1, <3>1 DEF SampledImages, Native
      <3>3. c \in Seq(Pair)
        BY <2>1, <2>2, <3>1, SameTypes DEF PairsTyped
      <3>4. shader.sampled_images \in Seq(Globals)
        BY <1>0, ResourcesAssumption DEF Lists, Globals
      <3>5. p \in Seq({Native(v) : v \in Globals})
        BY <3>1, <3>4
      <3>6. Len(p \o c) \in Nat
        BY <3>3, <3>5
      <3> QED
        BY <2>3, <3>2, <3>6
    <2> QED
      BY <2>1, <2>2, <2>3, <2>4, <2>5, SameShader DEF ImageInv
  <1>4. CASE NameImage
    <2>1. /\ phase = "names" /\ phase' = phase
          /\ UNCHANGED <<shader, target, imageData, combined_image_samplers>>
      BY <1>4 DEF NameImage, traversal
    <2>2. next' \in 1 .. Len(SampledImages) + 1 /\ ImagesUpTo(next)' /\ SampledImages' = SampledImages
      BY <1>4, NameOne
    <2> QED
      BY <1>0, <2>1, <2>2, SameTypes, SameShader DEF ImageInv, StackTyped, PairsTyped
  <1>5. CASE ImagesNamed
    <2>1. /\ phase = "names" /\ phase' = "buffers" /\ next > Len(SampledImages)
          /\ UNCHANGED <<shader, target, imageData, images, combined_image_samplers>>
      BY <1>5 DEF ImagesNamed, traversal
    <2>2. ImagesUpTo(Len(SampledImages) + 1)
      <3>1. next \in 1 .. Len(SampledImages) + 1 /\ ImagesUpTo(next)
        BY <2>1 DEF ImageInv
      <3>2. PICK m \in Nat : m = Len(SampledImages)
        BY <1>0, SampledType
      <3>3. next = m + 1
        BY <2>1, <3>1, <3>2
      <3> QED
        BY <3>1, <3>2, <3>3
    <2>3. ImagesUpTo(Len(SampledImages) + 1)' /\ SampledImages' = SampledImages
      BY <2>1, <2>2, ImagesStay
    <2> QED
      BY <1>0, <2>1, <2>3, SameTypes, SameShader DEF ImageInv, StackTyped, PairsTyped
  <1>6. CASE AssignBuffer \/ BuffersAssigned \/ AssignInputs \/ Compile
    <2>1. /\ \/ phase = "buffers" /\ phase' \in {"buffers", "inputs"}
             \/ phase = "inputs" /\ phase' = "compile"
             \/ phase = "compile" /\ phase' \in {"compiled", "failed"}
          /\ UNCHANGED <<shader, target, imageData, images, combined_image_samplers>>
      BY <1>6 DEF AssignBuffer, BuffersAssigned, AssignInputs, Compile, traversal, assigned
    <2>2. ImagesUpTo(Len(SampledImages) + 1)
      BY <2>1 DEF ImageInv
    <2>3. ImagesUpTo(Len(SampledImages) + 1)' /\ SampledImages' = SampledImages
      BY <2>1, <2>2, ImagesStay
    <2> QED
      BY <1>0, <2>1, <2>3, SameTypes, SameShader DEF ImageInv, StackTyped, PairsTyped
  <1>7. CASE Stopped \/ UNCHANGED vars
    <2>1. UNCHANGED <<shader, phase, stack, target, imageData, next, images, combined_image_samplers>>
      BY <1>7 DEF Stopped, vars, traversal, assigned
    <2>2. \A n : ImagesUpTo(n) => ImagesUpTo(n)'
      BY <2>1, ImagesStay
    <2>3. SampledImages' = SampledImages
      BY <2>1 DEF SampledImages, Native
    <2> QED
      BY <1>0, <2>1, <2>2, <2>3, SameTypes, SameShader DEF ImageInv, StackTyped, PairsTyped
  <1> QED
    BY <1>1, <1>2, <1>3, <1>4, <1>5, <1>6, <1>7 DEF Next

\* In the end two combined images share a unit only if their images share a
\* register.
LEMMA UnitsAreDistinct == BufferInv /\ ImageInv => UnitsDistinct
  <1> SUFFICES ASSUME BufferInv, ImageInv, phase \in {"compile", "compiled"}, CombinesImages
               PROVE  /\ Len(images) = Len(SampledImages)
                      /\ \A a, b \in Range(images) :
                           /\ a.sampler = None => a.binding = 0 /\ a.name = None
                           /\ a.sampler # None /\ b.sampler # None /\ Small(a.image) /\ Small(b.image) =>
                                /\ a.binding = b.binding <=> SameRegister(a.image, b.image)
                                /\ target = "GLSL" => a.name = a.image
    BY DEF UnitsDistinct
  <1>1. shader \in Shaders /\ PairsTyped /\ ImagesUpTo(Len(SampledImages) + 1)
    BY DEF BufferInv, ImageInv
  <1>2. imageData = [v \in {w \in Globals : IsSeparate(w)} |-> [name |-> v, binding |-> Assigned(v)]]
    BY DEF ImageInv
  <1>3. PICK s \in Seq(Sampled), m \in Nat :
          /\ s = SampledImages /\ m = Len(s)
          /\ \A k \in 1 .. m : s[k].sampler = None \/ shader.globals[s[k].image].kind = "image"
    <2>1. /\ SampledImages \in Seq(Sampled)
          /\ \A k \in 1 .. Len(SampledImages) :
               \/ SampledImages[k].sampler = None
               \/ shader.globals[SampledImages[k].image].kind = "image"
      BY <1>1, SampledType
    <2>2. Len(SampledImages) \in Nat
      BY <2>1
    <2> QED
      BY <2>1, <2>2
  <1>4. images = [k \in 1 .. m |-> Image(s[k])]
    BY <1>1, <1>3 DEF ImagesUpTo
  <1>5. Len(images) = m
    BY <1>4
  <1>6. ASSUME NEW a \in Range(images)
        PROVE  /\ a.sampler = None => a.binding = 0 /\ a.name = None
               /\ a.sampler # None =>
                    /\ a.image \in Globals /\ a.binding = Assigned(a.image)
                    /\ target = "GLSL" => a.name = a.image
    <2>1. PICK k \in 1 .. m : a = Image(s[k])
      BY <1>4 DEF Range
    <2>2. PICK r \in Sampled : r = s[k] /\ (r.sampler = None \/ shader.globals[r.image].kind = "image")
      BY <1>3
    <2>3. /\ a.image = r.image /\ a.sampler = r.sampler /\ a.binding = Data(r).binding
          /\ a.name = IF target = "GLSL" THEN Data(r).name ELSE None
      BY <2>1, <2>2 DEF Image
    <2>4. CASE r.sampler = None
      BY <2>3, <2>4 DEF Data
    <2>5. CASE r.sampler # None
      <3>1. r.image \in Globals /\ IsSeparate(r.image)
        BY <2>2, <2>5 DEF Sampled, IsSeparate
      <3>2. Data(r) = [name |-> r.image, binding |-> Assigned(r.image)]
        BY <1>2, <2>5, <3>1 DEF Data
      <3> QED
        BY <2>3, <2>5, <3>1, <3>2
    <2> QED
      BY <2>4, <2>5
  <1>7. ASSUME NEW a \in Range(images), NEW b \in Range(images),
               a.sampler # None, b.sampler # None, Small(a.image), Small(b.image)
        PROVE  a.binding = b.binding <=> SameRegister(a.image, b.image)
    BY <1>1, <1>6, <1>7, PackedApart
  <1> QED
    BY <1>3, <1>5, <1>6, <1>7

\* The texture units of transpileGLSL and transpileGLSLES tell images apart, for
\* every shader: by their registers, as long as these are below 4, and whatever
\* parameters the traversal found the images through.
THEOREM UnitsApart == Spec => []UnitsDistinct
  <1>1. Spec => [](BufferInv /\ ImageInv)
    BY InitBuffers, InitImages, NextBuffers, NextImages, PTL DEF Spec
  <1> QED
    BY <1>1, UnitsAreDistinct, PTL

-------------------------------------------------------------------------------
(* The pairs of a function *)

\* What a function can name.
Operands(f) == Ids(f) \cup Globals \cup {Dummy}
PairsIn(f)  == Operands(f) \X Operands(f)

LEMMA BodyType ==
  ASSUME shader \in Shaders, NEW f \in Fn
  PROVE  /\ Body(f) \in Seq(Range(Body(f))) /\ Len(Body(f)) \in Nat
         /\ DOMAIN Body(f) = 1 .. Len(Body(f))
         /\ Range(Body(f)) = {Body(f)[n] : n \in 1 .. Len(Body(f))}
  <1>1. Body(f) \in Seq(Range(Body(f)))
    BY OperandsAssumption DEF Body, Function
  <1>2. Len(Body(f)) \in Nat /\ DOMAIN Body(f) = 1 .. Len(Body(f))
    BY <1>1
  <1> QED
    BY <1>1, <1>2 DEF Range

\* An operand that has a kind is a parameter or a global.
LEMMA OperandsTyped ==
  ASSUME shader \in Shaders, NEW f \in Fn, NEW id, NEW kind, IsOfKind(shader, f, id, kind)
  PROVE  id \in Ids(f) \cup Globals
  BY DEF IsOfKind, Ids, Function, Globals

\* Parameters are no globals, and neither is the dummy sampler.
LEMMA IdsApart ==
  ASSUME shader \in Shaders, NEW f \in Fn
  PROVE  /\ Ids(f) \cap (Globals \cup {Dummy}) = {} /\ Dummy \notin Globals
         /\ \A id : ArgumentsNamed(f, id) # {} <=> id \in Ids(f)
  <1>1. DOMAIN shader.globals \subseteq Id
    BY OperandsAssumption
  <1>2. \A k \in DOMAIN Function(f).arguments : Function(f).arguments[k].id \in Id \ Globals
    BY OperandsAssumption DEF Function, Globals
  <1> QED
    BY <1>1, <1>2, IdAssumption DEF Ids, Globals, ArgumentsNamed

\* What the caller has for an operand of the callee is an operand of the caller.
LEMMA OwnTyped ==
  ASSUME shader \in Shaders, NEW f \in Fn, NEW o \in Range(Body(f)), o.op = "call",
         NEW id \in Operands(o.callee)
  PROVE  /\ o.callee \in Fn /\ Own(o, id) \in Operands(f)
         /\ id \notin Ids(o.callee) => Own(o, id) = id
         /\ id \in Ids(o.callee) => Own(o, id) \in Ids(f) \cup Globals
  <1>1. PICK n \in 1 .. Len(Body(f)) : o = Body(f)[n]
    BY BodyType
  <1>2. /\ o.callee \in Fn
        /\ \A k \in DOMAIN Function(o.callee).arguments :
             IsOfKind(shader, f, o.args[k], Function(o.callee).arguments[k].kind)
    BY <1>1, OperandsAssumption DEF Body, Function
  <1>3. CASE ArgumentsNamed(o.callee, id) = {}
    <2>1. id \notin Ids(o.callee) /\ Own(o, id) = id
      BY <1>2, <1>3, IdsApart DEF Own
    <2> QED
      BY <1>2, <2>1 DEF Operands
  <1>4. CASE ArgumentsNamed(o.callee, id) # {}
    <2>1. PICK k \in ArgumentsNamed(o.callee, id) : Own(o, id) = o.args[k]
      BY <1>4 DEF Own
    <2>2. k \in DOMAIN Function(o.callee).arguments
      BY <2>1 DEF ArgumentsNamed
    <2>3. Own(o, id) \in Ids(f) \cup Globals
      BY <1>2, <2>1, <2>2, OperandsTyped
    <2>4. id \in Ids(o.callee)
      BY <1>2, <1>4, IdsApart
    <2> QED
      BY <1>2, <2>3, <2>4 DEF Operands
  <1> QED
    BY <1>3, <1>4

LEMMA NeedsTyped ==
  ASSUME shader \in Shaders, NEW f \in Fn, NEW o \in Range(Body(f)), NEW called,
         o.op = "call" => called \subseteq PairsIn(o.callee)
  PROVE  Needs(f, o, called) \subseteq PairsIn(f)
  <1>1. PICK n \in 1 .. Len(Body(f)) : o = Body(f)[n]
    BY BodyType
  <1>2. CASE o.op = "sample"
    <2>1. o.image \in Operands(f) /\ o.sampler \in Operands(f)
      BY <1>1, <1>2, OperandsAssumption, OperandsTyped DEF Body, Function, Operands
    <2>2. ~FetchesImage(f, o) /\ o.op # "call"
      BY <1>2 DEF FetchesImage
    <2>3. Needs(f, o, called) = {<<o.image, o.sampler>>}
      BY <1>2, <2>2 DEF Needs
    <2> QED
      BY <2>1, <2>3 DEF PairsIn
  <1>3. CASE FetchesImage(f, o)
    <2>1. o.op = "fetch"
      BY <1>3 DEF FetchesImage
    <2>2. o.image \in Operands(f)
      BY <1>1, <2>1, OperandsAssumption, OperandsTyped DEF Body, Function, Operands
    <2> QED
      BY <1>3, <2>1, <2>2 DEF Needs, PairsIn, Operands
  <1>4. CASE o.op = "call"
    <2>1. ~FetchesImage(f, o)
      BY <1>4 DEF FetchesImage
    <2>2. Needs(f, o, called) = {<<Own(o, p[1]), Own(o, p[2])>> : p \in called}
      BY <1>4, <2>1 DEF Needs
    <2>3. \A p \in called : Own(o, p[1]) \in Operands(f) /\ Own(o, p[2]) \in Operands(f)
      BY <1>4, OwnTyped DEF PairsIn
    <2> QED
      BY <2>2, <2>3 DEF PairsIn
  <1>5. CASE ~(o.op = "sample" \/ FetchesImage(f, o) \/ o.op = "call")
    BY <1>5 DEF Needs
  <1> QED
    BY <1>2, <1>3, <1>4, <1>5

\* What all functions need, when those that they call need what is given.
NeedsOf(f, called) == UNION {Needs(f, o, called[o.callee]) : o \in Range(Body(f))}
AllNeed(called) == [f \in Fn |-> NeedsOf(f, called)]
Typed == {needed \in [Fn -> SUBSET UNION {PairsIn(f) : f \in Fn}] : \A f \in Fn : needed[f] \subseteq PairsIn(f)}

LEMMA AllNeedTyped ==
  ASSUME shader \in Shaders, NEW called \in Typed
  PROVE  AllNeed(called) \in Typed
  <1>1. ASSUME NEW f \in Fn PROVE NeedsOf(f, called) \subseteq PairsIn(f)
    <2>1. ASSUME NEW o \in Range(Body(f)) PROVE Needs(f, o, called[o.callee]) \subseteq PairsIn(f)
      <3>1. o.op = "call" => o.callee \in Fn
        <4>1. PICK n \in 1 .. Len(Body(f)) : o = Body(f)[n]
          BY BodyType
        <4> QED
          BY <4>1, OperandsAssumption DEF Body, Function
      <3>2. o.op = "call" => called[o.callee] \subseteq PairsIn(o.callee)
        BY <3>1 DEF Typed
      <3> QED
        BY <3>2, NeedsTyped
    <2> QED
      BY <2>1 DEF NeedsOf
  <1> QED
    BY <1>1 DEF Typed, AllNeed

\* The recursion of Pairs, unfolded.
LEMMA PairsUnfold ==
  ASSUME shader \in Shaders
  PROVE  /\ Pairs \in [Nat -> Typed]
         /\ Pairs[0] = AllNeed([g \in Fn |-> {}])
         /\ \A n \in Nat : Pairs[n + 1] = AllNeed(Pairs[n])
  <1> DEFINE none == [g \in Fn |-> {}]
             H == [n \in Nat |-> [called \in Typed |-> AllNeed(called)]]
             v == AllNeed(none)
  <1>1. none \in Typed /\ v \in Typed
    <2>1. none \in Typed
      BY DEF Typed
    <2> HIDE DEF none
    <2> QED
      BY <2>1, AllNeedTyped
  <1>2. H \in [Nat -> [Typed -> Typed]]
    BY AllNeedTyped
  <1>3. PICK F : IsIteration(F, Typed, v, H)
    <2> HIDE DEF H, v, none
    <2> QED
      BY <1>1, <1>2, Iterates
  <1>4. F \in [Nat -> Typed] /\ F[0] = v /\ \A n \in Nat : F[n + 1] = AllNeed(F[n])
    <2>1. F \in [Nat -> Typed] /\ F[0] = v /\ \A n \in Nat : F[n + 1] = H[n][F[n]]
      <3> HIDE DEF H, v
      <3> QED
        BY <1>3 DEF IsIteration
    <2>2. \A n \in Nat : \A called \in Typed : H[n][called] = AllNeed(called)
      OBVIOUS
    <2> HIDE DEF H, v
    <2> QED
      BY <2>1, <2>2
  <1> DEFINE E(p, n) == [f \in Fn |-> UNION {Needs(f, o, IF n = 0 THEN {} ELSE p[n - 1][o.callee]) : o \in Range(Body(f))}]
  <1>5. ASSUME NEW p, NEW n \in Nat PROVE E(p, n + 1) = AllNeed(p[n])
    BY DEF AllNeed, NeedsOf
  <1>6. ASSUME NEW p PROVE E(p, 0) = v
    <2>1. ASSUME NEW f \in Fn, NEW o \in Range(Body(f)) PROVE Needs(f, o, {}) = Needs(f, o, none[o.callee])
      <3>1. CASE o.op = "call"
        <4>1. PICK n \in 1 .. Len(Body(f)) : o = Body(f)[n]
          BY BodyType
        <4>2. o.callee \in Fn
          BY <3>1, <4>1, OperandsAssumption DEF Body, Function
        <4> QED
          BY <4>2
      <3>2. CASE o.op # "call"
        BY <3>2 DEF Needs
      <3> QED
        BY <3>1, <3>2
    <2> QED
      BY <2>1 DEF AllNeed, NeedsOf
  <1>7. F = [n \in Nat |-> E(F, n)]
    <2>1. ASSUME NEW n \in Nat PROVE F[n] = E(F, n)
      <3>1. CASE n = 0
        <4> HIDE DEF E, v
        <4>1. F[0] = v /\ E(F, 0) = v
          BY <1>4, <1>6
        <4> QED
          BY <3>1, <4>1
      <3>2. CASE n # 0
        <4>1. PICK m \in Nat : n = m + 1
          <5>1. n - 1 \in Nat /\ n = (n - 1) + 1
            BY <3>2
          <5> QED
            BY <5>1
        <4>2. E(F, m + 1) = AllNeed(F[m])
          BY <1>5
        <4>3. F[m + 1] = AllNeed(F[m])
          BY <1>4
        <4> HIDE DEF E
        <4> QED
          BY <4>1, <4>2, <4>3
      <3> QED
        BY <3>1, <3>2
    <2> HIDE DEF E, v
    <2> QED
      BY <1>4, <2>1
  <1>8. Pairs = [n \in Nat |-> E(Pairs, n)]
    BY <1>7 DEF Pairs
  <1>9. \A n \in Nat : Pairs[n] = E(Pairs, n)
    <2> HIDE DEF E
    <2> QED
      BY <1>8
  <1>10. Pairs[0] = v
    <2> HIDE DEF E, v
    <2> QED
      BY <1>6, <1>9
  <1>11. ASSUME NEW n \in Nat PROVE Pairs[n + 1] = AllNeed(Pairs[n])
    <2>1. Pairs[n + 1] = E(Pairs, n + 1)
      <3> HIDE DEF E
      <3> QED
        BY <1>9
    <2>2. E(Pairs, n + 1) = AllNeed(Pairs[n])
      BY <1>5
    <2> HIDE DEF E
    <2> QED
      BY <2>1, <2>2
  <1>12. \A n \in Nat : Pairs[n] \in Typed
    <2> DEFINE S == {n \in Nat : Pairs[n] \in Typed}
    <2>1. 0 \in S
      <3> HIDE DEF v
      <3> QED
        BY <1>1, <1>10
    <2>2. ASSUME NEW n \in Nat, n \in S PROVE n + 1 \in S
      <3>1. AllNeed(Pairs[n]) \in Typed
        BY <2>2, AllNeedTyped
      <3>2. Pairs[n + 1] \in Typed
        BY <3>1, <1>11
      <3> QED
        BY <3>2
    <2>3. Nat \subseteq S
      <3> HIDE DEF S
      <3> QED
        BY <2>1, <2>2, Induct
    <2> QED
      BY <2>3
  <1>13. Pairs \in [Nat -> Typed]
    <2> HIDE DEF E
    <2> QED
      BY <1>8, <1>12
  <1> QED
    BY <1>10, <1>11, <1>13

\* The recursions read the shader alone.
LEMMA RecursionsStay ==
  ASSUME UNCHANGED shader
  PROVE  Pairs' = Pairs /\ Reached' = Reached
  <1>1. Reached' = Reached
    BY Z3 DEF Reached, Body, Function
  <1>2. Pairs' = Pairs
    BY Z3 DEF Pairs, Body, Function, Needs, FetchesImage, KindOf, ArgumentsNamed, Own
  <1> QED
    BY <1>1, <1>2

\* The level of each function that is called: calls lead down, from the entry point's.
Level == CHOOSE level \in [Fn -> 0 .. shader.depth + 1] : IsLevel(shader, level)
Deep  == {f \in Fn : Level[f] <= shader.depth}

LEMMA Leveled ==
  ASSUME shader \in Shaders
  PROVE  /\ shader.depth \in Nat /\ Level \in [Fn -> 0 .. shader.depth + 1] /\ shader.entry \in Deep
         /\ \A f \in Deep : \A o \in Range(Body(f)) : o.op = "call" =>
              o.callee \in Deep /\ Level[o.callee] < Level[f]
  <1>1. shader.depth \in Nat /\ \E level \in [Fn -> 0 .. shader.depth + 1] : IsLevel(shader, level)
    BY CallsAssumption
  <1>2. Level \in [Fn -> 0 .. shader.depth + 1] /\ IsLevel(shader, Level)
    BY <1>1 DEF Level
  <1> HIDE DEF Level
  <1>3. shader.entry \in Fn
    BY OperandsAssumption
  <1>4. shader.entry \in Deep
    BY <1>2, <1>3 DEF IsLevel, Deep
  <1>5. ASSUME NEW f \in Deep, NEW o \in Range(Body(f)), o.op = "call"
        PROVE  o.callee \in Deep /\ Level[o.callee] < Level[f]
    <2>1. f \in Fn /\ Level[f] <= shader.depth
      BY DEF Deep
    <2>2. PICK n \in 1 .. Len(Body(f)) : o = Body(f)[n]
      BY <2>1, BodyType
    <2>3. o.callee \in Fn
      BY <1>5, <2>1, <2>2, OperandsAssumption DEF Body, Function
    <2>4. Level[o.callee] < Level[f]
      BY <1>2, <1>5, <2>1 DEF IsLevel, Body, Function
    <2>5. Level[o.callee] \in Int /\ Level[f] \in Int
      BY <1>2, <2>1, <2>3, <1>1
    <2> QED
      BY <1>1, <2>1, <2>3, <2>4, <2>5 DEF Deep
  <1> QED
    BY <1>1, <1>2, <1>4, <1>5

\* Only the pairs of what is called matter.
LEMMA NeedsOfSame ==
  ASSUME NEW f, NEW a, NEW b, \A o \in Range(Body(f)) : o.op = "call" => a[o.callee] = b[o.callee]
  PROVE  NeedsOf(f, a) = NeedsOf(f, b)
  <1>1. \A o \in Range(Body(f)) : Needs(f, o, a[o.callee]) = Needs(f, o, b[o.callee])
    BY DEF Needs
  <1> QED
    BY <1>1 DEF NeedsOf

\* From its level on, the pairs of a function do not change.
LEMMA PairsSettle ==
  ASSUME shader \in Shaders, NEW n \in Nat, NEW f \in Deep, Level[f] <= n
  PROVE  Pairs[n][f] = Pairs[n + 1][f]
  <1>1. /\ Pairs[0] = AllNeed([g \in Fn |-> {}])
        /\ \A m \in Nat : Pairs[m + 1] = AllNeed(Pairs[m])
    BY PairsUnfold
  <1>2. /\ \A g \in Deep : Level[g] \in Nat /\ g \in Fn
        /\ \A g \in Deep : \A o \in Range(Body(g)) : o.op = "call" =>
              o.callee \in Deep /\ Level[o.callee] < Level[g]
    BY Leveled DEF Deep
  <1> DEFINE S == {m \in Nat : \A g \in Deep : Level[g] <= m => Pairs[m][g] = Pairs[m + 1][g]}
  <1>3. 0 \in S
    <2> SUFFICES ASSUME NEW g \in Deep, Level[g] <= 0 PROVE Pairs[0][g] = Pairs[0 + 1][g]
      OBVIOUS
    <2>1. \A o \in Range(Body(g)) : o.op # "call"
      BY <1>2
    <2>2. NeedsOf(g, [h \in Fn |-> {}]) = NeedsOf(g, Pairs[0])
      BY <2>1, NeedsOfSame
    <2>3. Pairs[0] = AllNeed([h \in Fn |-> {}]) /\ Pairs[0 + 1] = AllNeed(Pairs[0])
      BY <1>1
    <2> QED
      BY <1>2, <2>2, <2>3 DEF AllNeed
  <1>4. ASSUME NEW m \in Nat, m \in S PROVE m + 1 \in S
    <2> SUFFICES ASSUME NEW g \in Deep, Level[g] <= m + 1 PROVE Pairs[m + 1][g] = Pairs[(m + 1) + 1][g]
      BY DEF S
    <2>1. ASSUME NEW o \in Range(Body(g)), o.op = "call" PROVE Pairs[m][o.callee] = Pairs[m + 1][o.callee]
      <3>1. o.callee \in Deep /\ Level[o.callee] < Level[g] /\ Level[o.callee] \in Nat /\ Level[g] \in Nat
        BY <1>2, <2>1
      <3>2. Level[o.callee] <= m
        BY <3>1
      <3> QED
        BY <1>4, <3>1, <3>2
    <2>2. NeedsOf(g, Pairs[m]) = NeedsOf(g, Pairs[m + 1])
      BY <2>1, NeedsOfSame
    <2>3. Pairs[m + 1] = AllNeed(Pairs[m]) /\ Pairs[(m + 1) + 1] = AllNeed(Pairs[m + 1])
      BY <1>1
    <2> QED
      BY <1>2, <2>2, <2>3 DEF AllNeed
  <1>5. Nat \subseteq S
    <2> HIDE DEF S
    <2> QED
      BY <1>3, <1>4, Induct
  <1> QED
    BY <1>5

\* So what a function needs is what its instructions need, all of them.
LEMMA PairsClosed ==
  ASSUME shader \in Shaders, NEW f \in Deep
  PROVE  /\ PairsOf(f) = UNION {Needs(f, o, PairsOf(o.callee)) : o \in Range(Body(f))}
         /\ PairsOf(f) \subseteq PairsIn(f)
  <1>1. shader.depth \in Nat /\ f \in Fn /\ Level[f] <= shader.depth
    BY Leveled DEF Deep
  <1>2. PairsOf(f) = Pairs[shader.depth + 1][f]
    BY <1>1, PairsSettle DEF PairsOf
  <1>3. Pairs[shader.depth + 1] = AllNeed(Pairs[shader.depth]) /\ Pairs[shader.depth] \in Typed
    BY <1>1, PairsUnfold
  <1>4. PairsOf(f) = NeedsOf(f, Pairs[shader.depth])
    BY <1>1, <1>2, <1>3 DEF AllNeed
  <1> QED
    BY <1>1, <1>3, <1>4 DEF NeedsOf, PairsOf, Typed

\* What is closed under the calls holds all that is reached.
LEMMA ReachedIn ==
  ASSUME shader \in Shaders, NEW C, shader.entry \in C,
         \A f \in C \cap Fn : \A o \in Range(Body(f)) : o.op = "call" => o.callee \in C
  PROVE  Reachable \subseteq C
  <1> DEFINE Callees(r) == {o.callee : o \in {p \in UNION {Range(Body(f)) : f \in r} : p.op = "call"}}
             More(r) == r \cup Callees(r)
             H == [n \in Nat |-> [r \in SUBSET Fn |-> More(r)]]
             v == {shader.entry}
             E(p, n) == IF n = 0 THEN v ELSE More(p[n - 1])
  <1>1. v \in SUBSET Fn
    BY OperandsAssumption
  <1>2. ASSUME NEW r \in SUBSET Fn PROVE More(r) \in SUBSET Fn
    <2>1. ASSUME NEW f \in r, NEW o \in Range(Body(f)), o.op = "call" PROVE o.callee \in Fn
      <3>1. PICK n \in 1 .. Len(Body(f)) : o = Body(f)[n]
        BY BodyType
      <3> QED
        BY <2>1, <3>1, OperandsAssumption DEF Body, Function
    <2> QED
      BY <2>1
  <1>3. H \in [Nat -> [SUBSET Fn -> SUBSET Fn]]
    <2> HIDE DEF More
    <2> QED
      BY <1>2
  <1>4. PICK F : IsIteration(F, SUBSET Fn, v, H)
    <2> HIDE DEF H, v
    <2> QED
      BY <1>1, <1>3, Iterates
  <1> HIDE DEF More
  <1>5. F \in [Nat -> SUBSET Fn] /\ F[0] = v /\ \A n \in Nat : F[n + 1] = More(F[n])
    <2>1. F \in [Nat -> SUBSET Fn] /\ F[0] = v /\ \A n \in Nat : F[n + 1] = H[n][F[n]]
      <3> HIDE DEF H, v
      <3> QED
        BY <1>4 DEF IsIteration
    <2>2. \A n \in Nat : \A r \in SUBSET Fn : H[n][r] = More(r)
      OBVIOUS
    <2> HIDE DEF H, v
    <2> QED
      BY <2>1, <2>2
  <1> HIDE DEF v
  <1>6. F = [n \in Nat |-> E(F, n)]
    <2>1. ASSUME NEW n \in Nat PROVE F[n] = E(F, n)
      <3>1. CASE n = 0
        BY <1>5, <3>1
      <3>2. CASE n # 0
        <4>1. PICK m \in Nat : n = m + 1
          <5>1. n - 1 \in Nat /\ n = (n - 1) + 1
            BY <3>2
          <5> QED
            BY <5>1
        <4>2. F[m + 1] = More(F[m]) /\ n # 0 /\ n - 1 = m
          BY <1>5, <4>1
        <4> QED
          BY <4>1, <4>2
      <3> QED
        BY <3>1, <3>2
    <2> HIDE DEF E
    <2> QED
      BY <1>5, <2>1
  <1>7. Reached = [n \in Nat |-> E(Reached, n)]
    BY <1>6 DEF Reached, More, v
  <1>8. \A n \in Nat : Reached[n] = E(Reached, n)
    <2> HIDE DEF E
    <2> QED
      BY <1>7
  <1> DEFINE S == {n \in Nat : Reached[n] \subseteq C /\ Reached[n] \subseteq Fn}
  <1>9. 0 \in S
    <2>1. Reached[0] = v
      BY <1>8
    <2> QED
      BY <1>1, <2>1 DEF v
  <1>10. ASSUME NEW n \in Nat, n \in S PROVE n + 1 \in S
    <2>1. Reached[n + 1] = More(Reached[n])
      BY <1>8
    <2>2. Reached[n] \subseteq C /\ Reached[n] \subseteq Fn
      BY <1>10
    <2>3. Callees(Reached[n]) \subseteq C
      BY <2>2
    <2>4. More(Reached[n]) \subseteq C /\ More(Reached[n]) \subseteq Fn
      BY <1>2, <2>2, <2>3 DEF More
    <2> QED
      BY <2>1, <2>4
  <1>11. Nat \subseteq S
    <2> HIDE DEF S
    <2> QED
      BY <1>9, <1>10, Induct
  <1>12. shader.depth \in Nat
    BY CallsAssumption
  <1> QED
    BY <1>11, <1>12 DEF Reachable

-------------------------------------------------------------------------------
(* The lists of parameters *)

\* The pairs of f, of those that are given, that it has to be handed.
Sides(f) == {Parameter(f, p[1], p[2]) : p \in PairsIn(f)}
Local(f, pairs) ==
  {q \in {Parameter(f, p[1], p[2]) : p \in pairs} : ~(q.image.global /\ q.sampler.global)}
ParameterLists == [Fn -> Seq(UNION {Sides(f) : f \in Fn})]

LEMMA AppendRange ==
  ASSUME NEW S, NEW s \in Seq(S), NEW x \in S
  PROVE  /\ Append(s, x) \in Seq(S) /\ Range(Append(s, x)) = Range(s) \cup {x}
         /\ IsInjective(s) /\ x \notin Range(s) => IsInjective(Append(s, x))
  <1>1. PICK n \in Nat : n = Len(s) /\ DOMAIN s = 1 .. n
    OBVIOUS
  <1>2. PICK t : t = Append(s, x)
    OBVIOUS
  <1>3. /\ t \in Seq(S) /\ Len(t) = n + 1 /\ DOMAIN t = 1 .. n + 1
        /\ \A k \in 1 .. n : t[k] = s[k]
        /\ t[n + 1] = x
    BY <1>1, <1>2, AppendProperties
  <1>4. 1 .. n + 1 = (1 .. n) \cup {n + 1} /\ n + 1 \notin 1 .. n
    OBVIOUS
  <1>5. Range(t) = Range(s) \cup {x}
    BY <1>1, <1>3, <1>4 DEF Range
  <1>6. ASSUME IsInjective(s), x \notin Range(s) PROVE IsInjective(t)
    <2>1. \A k \in 1 .. n : s[k] # x
      BY <1>1, <1>6 DEF Range
    <2> QED
      BY <1>1, <1>3, <1>4, <1>6, <2>1 DEF IsInjective
  <1> QED
    BY <1>2, <1>3, <1>5, <1>6

\* A side is a global just when it is no parameter of the function.
LEMMA ParameterSides ==
  ASSUME shader \in Shaders, NEW f \in Fn, NEW image, NEW sampler
  PROVE  /\ Parameter(f, image, sampler).image.global <=> image \notin Ids(f)
         /\ Parameter(f, image, sampler).sampler.global <=> sampler \notin Ids(f)
  BY IdsApart DEF Parameter

\* The list of f has grown by the pairs that are given, each once.
Grown(r, params, f, pairs) ==
  /\ r \in ParameterLists /\ \A g \in Fn : g # f => r[g] = params[g]
  /\ Range(r[f]) = Range(params[f]) \cup Local(f, pairs)
  /\ IsInjective(params[f]) => IsInjective(r[f])

LEMMA RegisteredOne ==
  ASSUME shader \in Shaders, NEW params \in ParameterLists, NEW f \in Fn,
         NEW image \in Operands(f), NEW sampler \in Operands(f)
  PROVE  Grown(Registered(params, f, image, sampler), params, f, {<<image, sampler>>})
  <1>0. PICK r : r = Registered(params, f, image, sampler)
    OBVIOUS
  <1>1. PICK p : p = Parameter(f, image, sampler)
    OBVIOUS
  <1>2. p \in UNION {Sides(g) : g \in Fn}
    <2>1. <<image, sampler>> \in PairsIn(f)
      BY DEF PairsIn
    <2>2. \A q \in PairsIn(f) : Parameter(f, q[1], q[2]) \in Sides(f)
      BY DEF Sides
    <2>3. <<image, sampler>>[1] = image /\ <<image, sampler>>[2] = sampler
      OBVIOUS
    <2>4. p \in Sides(f)
      BY <1>1, <2>1, <2>2, <2>3
    <2> QED
      BY <2>4
  <1>3. Local(f, {<<image, sampler>>}) = IF p.image.global /\ p.sampler.global THEN {} ELSE {p}
    BY <1>1 DEF Local
  <1>4. r = IF (p.image.global /\ p.sampler.global) \/ p \in Range(params[f]) THEN params
            ELSE [params EXCEPT ![f] = Append(params[f], p)]
    BY <1>0, <1>1 DEF Registered
  <1>5. CASE (p.image.global /\ p.sampler.global) \/ p \in Range(params[f])
    BY <1>0, <1>3, <1>4, <1>5 DEF Grown
  <1>6. CASE ~((p.image.global /\ p.sampler.global) \/ p \in Range(params[f]))
    <2>1. PICK t : t = Append(params[f], p)
      OBVIOUS
    <2>2. params[f] \in Seq(UNION {Sides(g) : g \in Fn})
      BY DEF ParameterLists
    <2>3. /\ t \in Seq(UNION {Sides(g) : g \in Fn}) /\ Range(t) = Range(params[f]) \cup {p}
          /\ IsInjective(params[f]) => IsInjective(t)
      BY <1>2, <1>6, <2>1, <2>2, AppendRange
    <2>4. r = [params EXCEPT ![f] = t]
      BY <1>4, <1>6, <2>1
    <2>5. r \in ParameterLists /\ r[f] = t /\ \A g \in Fn : g # f => r[g] = params[g]
      BY <2>3, <2>4 DEF ParameterLists
    <2> QED
      BY <1>0, <1>3, <1>6, <2>3, <2>5 DEF Grown
  <1> QED
    BY <1>5, <1>6

\* What a callee's parameters are for its caller.
Operand(args, side) == IF side.global THEN side.id ELSE args[side.position]
Handed(args, params) == {<<Operand(args, p.image), Operand(args, p.sampler)>> : p \in params}

LEMMA LocalJoins ==
  ASSUME NEW f, NEW a, NEW b
  PROVE  Local(f, a \cup b) = Local(f, a) \cup Local(f, b) /\ Local(f, {}) = {}
  BY DEF Local

\* Adding the callee's parameters one by one adds them all.
LEMMA HandedUpAll ==
  ASSUME shader \in Shaders, NEW params \in ParameterLists, NEW callee \in Fn, NEW caller \in Fn, NEW args,
         \A p \in Range(params[callee]) :
           Operand(args, p.image) \in Operands(caller) /\ Operand(args, p.sampler) \in Operands(caller),
         NEW r, r = HandedUp(params, callee, args, caller)
  PROVE  Grown(r, params, caller, Handed(args, Range(params[callee])))
  <1> DEFINE list == params[callee]
             L == Len(list)
             Add(c, p) == Registered(c, caller, Operand(args, p.image), Operand(args, p.sampler))
             E(up, n) == IF n = 0 THEN params ELSE Add(up[n - 1], list[n])
             H == [n \in Nat |-> [c \in ParameterLists |-> IF n + 1 \in 1 .. L THEN Add(c, list[n + 1]) ELSE c]]
             fixed(up) == up = [n \in 0 .. L |-> E(up, n)]
             u == CHOOSE up : fixed(up)
  <1>1. L \in Nat /\ DOMAIN list = 1 .. L /\ \A n \in 1 .. L : list[n] \in Range(list)
    <2>1. list \in Seq(UNION {Sides(f) : f \in Fn})
      BY DEF ParameterLists
    <2>2. L \in Nat /\ DOMAIN list = 1 .. L
      BY <2>1
    <2> HIDE DEF list, L
    <2> QED
      BY <2>2 DEF Range
  <1>2. ASSUME NEW c \in ParameterLists, NEW p \in Range(list)
        PROVE  Grown(Add(c, p), c, caller, Handed(args, {p}))
    <2>1. Operand(args, p.image) \in Operands(caller) /\ Operand(args, p.sampler) \in Operands(caller)
      OBVIOUS
    <2>2. Handed(args, {p}) = {<<Operand(args, p.image), Operand(args, p.sampler)>>}
      BY DEF Handed
    <2> QED
      BY <2>1, <2>2, RegisteredOne
  <1>3. r = u[L]
    BY DEF HandedUp, Operand
  <1> HIDE DEF Add, list
  <1>4. H \in [Nat -> [ParameterLists -> ParameterLists]]
    <2>1. ASSUME NEW n \in Nat, NEW c \in ParameterLists
          PROVE  (IF n + 1 \in 1 .. L THEN Add(c, list[n + 1]) ELSE c) \in ParameterLists
      BY <1>1, <1>2 DEF Grown
    <2> HIDE DEF L
    <2> QED
      BY <2>1
  <1> HIDE DEF L
  <1>5. PICK F : IsIteration(F, ParameterLists, params, H)
    <2> HIDE DEF H
    <2> QED
      BY <1>4, Iterates
  <1>6. F \in [Nat -> ParameterLists] /\ F[0] = params /\ \A n \in Nat : F[n + 1] = H[n][F[n]]
    <2> HIDE DEF H
    <2> QED
      BY <1>5 DEF IsIteration
  <1>7. ASSUME NEW n \in Nat, n + 1 \in 1 .. L PROVE F[n + 1] = Add(F[n], list[n + 1])
    <2>1. \A c \in ParameterLists : H[n][c] = Add(c, list[n + 1])
      BY <1>7
    <2> HIDE DEF H
    <2> QED
      BY <1>6, <2>1
  <1> HIDE DEF H
  <1> DEFINE G == [n \in 0 .. L |-> F[n]]
  <1>8. fixed(G)
    <2>1. ASSUME NEW n \in 0 .. L PROVE G[n] = E(G, n)
      <3>1. CASE n = 0
        BY <1>6, <3>1
      <3>2. CASE n # 0
        <4>1. PICK m \in Nat : n = m + 1 /\ m \in 0 .. L /\ m + 1 \in 1 .. L /\ n - 1 = m
          <5>1. n - 1 \in Nat /\ n = (n - 1) + 1 /\ n - 1 \in 0 .. L /\ (n - 1) + 1 \in 1 .. L
            BY <1>1, <3>2
          <5> QED
            BY <5>1
        <4>2. F[m + 1] = Add(F[m], list[m + 1])
          BY <1>7, <4>1
        <4>3. G[n] = F[n] /\ G[m] = F[m]
          BY <4>1
        <4>4. E(G, n) = Add(G[m], list[n])
          BY <4>1, <3>2
        <4> HIDE DEF E, G
        <4> QED
          BY <4>1, <4>2, <4>3, <4>4
      <3> QED
        BY <3>1, <3>2
    <2>2. G = [n \in 0 .. L |-> G[n]]
      OBVIOUS
    <2> HIDE DEF E, G
    <2> QED
      BY <2>1, <2>2
  <1>9. fixed(u)
    <2> HIDE DEF fixed, G
    <2> QED
      BY <1>8
  <1> HIDE DEF u, G
  <1>10. \A n \in 0 .. L : u[n] = E(u, n)
    <2> HIDE DEF E
    <2> QED
      BY <1>9
  <1>11. u[0] = params /\ \A n \in Nat : n + 1 \in 1 .. L => u[n + 1] = Add(u[n], list[n + 1])
    <2>1. 0 \in 0 .. L /\ \A n \in Nat : n + 1 \in 1 .. L => n + 1 \in 0 .. L /\ n + 1 # 0 /\ (n + 1) - 1 = n
      BY <1>1
    <2> QED
      BY <1>10, <2>1
  <1> DEFINE First(n) == {list[k] : k \in 1 .. n}
             Good(n) == Grown(u[n], params, caller, Handed(args, First(n)))
             S == {n \in Nat : n <= L => Good(n)}
  <1>12. 0 \in S
    <2>1. First(0) = {}
      OBVIOUS
    <2>2. Handed(args, First(0)) = {}
      BY <2>1 DEF Handed
    <2> HIDE DEF First
    <2> QED
      BY <1>11, <2>2, LocalJoins DEF Grown
  <1>13. ASSUME NEW n \in Nat, n \in S PROVE n + 1 \in S
    <2> SUFFICES ASSUME n + 1 <= L PROVE Good(n + 1)
      BY DEF S
    <2>1. n + 1 \in 1 .. L /\ n <= L
      BY <1>1
    <2>2. Good(n)
      BY <1>13, <2>1
    <2>3. list[n + 1] \in Range(list) /\ u[n + 1] = Add(u[n], list[n + 1])
      BY <1>1, <1>11, <2>1
    <2>4. First(n + 1) = First(n) \cup {list[n + 1]}
      <3>1. 1 .. n + 1 = (1 .. n) \cup {n + 1}
        OBVIOUS
      <3> QED
        BY <3>1
    <2>5. Handed(args, First(n + 1)) = Handed(args, First(n)) \cup Handed(args, {list[n + 1]})
      BY <2>4 DEF Handed
    <2>6. Local(caller, Handed(args, First(n + 1)))
            = Local(caller, Handed(args, First(n))) \cup Local(caller, Handed(args, {list[n + 1]}))
      <3>1. PICK a, b : a = Handed(args, First(n)) /\ b = Handed(args, {list[n + 1]})
        OBVIOUS
      <3>2. Local(caller, a \cup b) = Local(caller, a) \cup Local(caller, b)
        BY LocalJoins
      <3>3. Handed(args, First(n + 1)) = a \cup b
        BY <2>5, <3>1
      <3> HIDE DEF First
      <3> QED
        BY <3>1, <3>2, <3>3
    <2> HIDE DEF First
    <2> QED
      BY <1>2, <2>2, <2>3, <2>6 DEF Grown
  <1>14. Good(L)
    <2>1. Nat \subseteq S
      <3> HIDE DEF S
      <3> QED
        BY <1>12, <1>13, Induct
    <2> QED
      BY <1>1, <2>1
  <1>15. First(L) = Range(list)
    BY <1>1 DEF Range
  <1> QED
    <2> HIDE DEF First
    <2> QED
      BY <1>3, <1>14, <1>15, Zenon DEF list

-------------------------------------------------------------------------------
(* The invariant of the traversal, by stack, images, lists and open lists *)

\* The pairs that the first n instructions of f need.
Needed(f, n) == UNION {Needs(f, Body(f)[i], PairsOf(Body(f)[i].callee)) : i \in 1 .. n}

\* A call that is running has done the instructions before the one it is at, or
\* before the call that it waits for, which has moved it on already.
Done(s, d) == IF d = Len(s) THEN s[d].at - 1 ELSE s[d].at - 2
Seen(s, d) == Needed(s[d].fn, Done(s, d))

\* The call that frame d waits for.
Waiting(s, d) == Body(s[d].fn)[s[d].at - 1]

\* What an operand means in a running call.
Meant(frame, id) == IF id \in DOMAIN frame.remapping THEN frame.remapping[id] ELSE id

Stack(s) ==
  /\ s \in Seq(Frame) /\ s # << >>
  /\ \A d \in 1 .. Len(s) : IsBoundTo(s[d].remapping, s[d].fn)

\* Every frame was made by the call that the frame below it waits for.
Linked(s) ==
  /\ s[1].fn = shader.entry
  /\ \A d \in 1 .. Len(s) : s[d].fn \in Deep /\ s[d].at \in 1 .. Len(Body(s[d].fn)) + 1
  /\ \A d \in 1 .. Len(s) - 1 :
       /\ s[d].at # 1 /\ Waiting(s, d).op = "call" /\ Waiting(s, d).callee = s[d + 1].fn
       /\ s[d + 1].args = Waiting(s, d).args
       /\ \A id \in Ids(s[d + 1].fn) : s[d + 1].remapping[id] = Meant(s[d], Own(Waiting(s, d), id))
  /\ \A d, e \in 1 .. Len(s) : d < e => Level[s[e].fn] < Level[s[d].fn]

\* The combined images are what the running calls have seen, in terms of globals.
Shown(s, d) == {<<Meant(s[d], p[1]), Meant(s[d], p[2])>> : p \in Seen(s, d)}
PairsListed(list) == {<<c.image, c.sampler>> : c \in Range(list)}
ImagesShown(s, list) ==
  PairsListed(list) = UNION {Shown(s, d) : d \in 1 .. Len(s)} /\ IsInjective(list)

\* A list is empty before the first call, has what that call has seen while it
\* runs, and is complete from its return on, as are those of all it calls.
Complete(params, open, f) ==
  /\ f \in Deep /\ Range(params[f]) = Local(f, PairsOf(f))
  /\ \A o \in Range(Body(f)) : o.op = "call" => ~open[o.callee]
ListsTyped(params, open) ==
  /\ params \in ParameterLists /\ open \in [Fn -> BOOLEAN]
  /\ \A f \in Fn : IsInjective(params[f])
Runs(s, f) == \E d \in 1 .. Len(s) : d # 1 /\ s[d].fn = f
ListsSeen(s, params, open) ==
  /\ \A f \in Fn : ~open[f] => Complete(params, open, f)
  /\ \A d \in 1 .. Len(s) : d # 1 /\ open[s[d].fn] => Range(params[s[d].fn]) = Local(s[d].fn, Seen(s, d))
  /\ \A d \in 1 .. Len(s) : \A i \in 1 .. Done(s, d) :
       Body(s[d].fn)[i].op = "call" => ~open[Body(s[d].fn)[i].callee]
  /\ \A f \in Fn : open[f] /\ ~Runs(s, f) => params[f] = << >>

CombineInv ==
  phase = "combine" =>
    /\ Linked(stack) /\ ImagesShown(stack, combined_image_samplers)
    /\ ListsTyped(combined_parameters, do_combined_parameters)
    /\ ListsSeen(stack, combined_parameters, do_combined_parameters)

-------------------------------------------------------------------------------
LEMMA SameReading ==
  ASSUME UNCHANGED shader
  PROVE  /\ \A s : Linked(s)' = Linked(s)
         /\ \A s, list : ImagesShown(s, list)' = ImagesShown(s, list)
         /\ \A params, open : ListsTyped(params, open)' = ListsTyped(params, open)
         /\ \A s, params, open : ListsSeen(s, params, open)' = ListsSeen(s, params, open)
  <1>1. \A f : Body(f)' = Body(f) /\ PairsOf(f)' = PairsOf(f)
    BY RecursionsStay DEF Body, Function, PairsOf
  <1>2. \A f, o, called : Needs(f, o, called)' = Needs(f, o, called)
    BY DEF Needs, FetchesImage, KindOf, ArgumentsNamed, Function, Own
  <1>3. \A f, n : Needed(f, n)' = Needed(f, n)
    BY <1>1, <1>2 DEF Needed
  <1>4. Level' = Level /\ Deep' = Deep
    <2>1. Level' = Level
      BY Z3 DEF Level, IsLevel
    <2> QED
      BY <2>1 DEF Deep
  <1>5. \A f, id : Ids(f)' = Ids(f)
    BY DEF Ids, Function
  <1>6. \A f, pairs : Local(f, pairs)' = Local(f, pairs)
    BY DEF Local, Parameter, ArgumentsNamed, Function
  <1>7. \A o, id : Own(o, id)' = Own(o, id)
    BY DEF Own, ArgumentsNamed, Function
  <1>8. \A s, d : Done(s, d)' = Done(s, d) /\ Waiting(s, d)' = Waiting(s, d) /\ Seen(s, d)' = Seen(s, d) /\ Shown(s, d)' = Shown(s, d)
    BY <1>1, <1>3 DEF Done, Waiting, Seen, Shown, Meant
  <1>9. \A s : Linked(s)' = Linked(s)
    BY <1>1, <1>4, <1>5, <1>7, <1>8, SMTT(30) DEF Linked, Meant
  <1>10. \A s, list : ImagesShown(s, list)' = ImagesShown(s, list)
    BY <1>8 DEF ImagesShown, PairsListed
  <1>11. \A params, open : ListsTyped(params, open)' = ListsTyped(params, open)
    <2>1. ParameterLists' = ParameterLists
      BY Z3, <1>5 DEF ParameterLists, Sides, Parameter, PairsIn, Operands, Ids, Globals, Function, ArgumentsNamed
    <2> QED
      BY <2>1 DEF ListsTyped
  <1>12. \A s, params, open : ListsSeen(s, params, open)' = ListsSeen(s, params, open)
    BY <1>1, <1>4, <1>6, <1>8 DEF ListsSeen, Complete, Runs
  <1> QED
    BY <1>9, <1>10, <1>11, <1>12

\* A stack and its frames.
LEMMA Frames ==
  ASSUME shader \in Shaders, NEW s, Stack(s), Linked(s)
  PROVE  /\ Len(s) \in Nat \ {0} /\ DOMAIN s = 1 .. Len(s)
         /\ \A d \in 1 .. Len(s) :
              /\ s[d] \in Frame /\ s[d].fn \in Fn /\ s[d].fn \in Deep /\ Level[s[d].fn] \in Nat
              /\ s[d].at \in Nat \ {0} /\ s[d].at <= Len(Body(s[d].fn)) + 1
              /\ Len(Body(s[d].fn)) \in Nat /\ Done(s, d) \in Int
              /\ DOMAIN s[d].remapping = Ids(s[d].fn)
  <1>1. Len(s) \in Nat \ {0} /\ DOMAIN s = 1 .. Len(s) /\ \A d \in 1 .. Len(s) : s[d] \in Frame
    BY DEF Stack
  <1>2. ASSUME NEW d \in 1 .. Len(s)
        PROVE  /\ s[d] \in Frame /\ s[d].fn \in Fn /\ s[d].fn \in Deep /\ Level[s[d].fn] \in Nat
               /\ s[d].at \in Nat \ {0} /\ s[d].at <= Len(Body(s[d].fn)) + 1
               /\ Len(Body(s[d].fn)) \in Nat /\ Done(s, d) \in Int
               /\ DOMAIN s[d].remapping = Ids(s[d].fn)
    <2>1. s[d] \in Frame /\ s[d].fn \in Deep /\ s[d].at \in 1 .. Len(Body(s[d].fn)) + 1
      BY <1>1 DEF Linked
    <2>2. s[d].fn \in Fn
      BY <2>1 DEF Deep
    <2>3. Len(Body(s[d].fn)) \in Nat
      BY <2>2, BodyType
    <2>4. s[d].at \in Nat \ {0} /\ s[d].at <= Len(Body(s[d].fn)) + 1
      BY <2>1, <2>3
    <2>5. Level[s[d].fn] \in Nat
      BY <2>2, Leveled
    <2>6. DOMAIN s[d].remapping = Ids(s[d].fn)
      BY DEF Stack, IsBoundTo
    <2>7. Done(s, d) \in Int
      BY <2>4 DEF Done
    <2> QED
      BY <2>1, <2>2, <2>3, <2>4, <2>5, <2>6, <2>7
  <1> QED
    BY <1>1, <1>2

\* One instruction more.
LEMMA NeededOne ==
  ASSUME NEW f, NEW n \in Nat
  PROVE  Needed(f, n + 1) = Needed(f, n) \cup Needs(f, Body(f)[n + 1], PairsOf(Body(f)[n + 1].callee))
  <1>1. 1 .. n + 1 = (1 .. n) \cup {n + 1}
    OBVIOUS
  <1> QED
    BY <1>1 DEF Needed

LEMMA NeededAll ==
  ASSUME shader \in Shaders, NEW f \in Deep
  PROVE  /\ Needed(f, Len(Body(f))) = PairsOf(f) /\ Needed(f, 0) = {}
         /\ \A n \in Int : n <= Len(Body(f)) => Needed(f, n) \subseteq PairsIn(f)
  <1>1. f \in Fn /\ Len(Body(f)) \in Nat /\ Range(Body(f)) = {Body(f)[n] : n \in 1 .. Len(Body(f))}
    BY BodyType DEF Deep
  <1>2. PairsOf(f) = UNION {Needs(f, o, PairsOf(o.callee)) : o \in Range(Body(f))}
    BY PairsClosed
  <1>3. Needed(f, Len(Body(f))) = PairsOf(f)
    BY <1>1, <1>2 DEF Needed
  <1>4. Needed(f, 0) = {}
    BY DEF Needed
  <1>5. \A n \in Int : n <= Len(Body(f)) => Needed(f, n) \subseteq Needed(f, Len(Body(f)))
    BY <1>1 DEF Needed
  <1> QED
    BY <1>3, <1>4, <1>5, PairsClosed

\* The innermost call moves on.
LEMMA AdvancedFrames ==
  ASSUME shader \in Shaders, NEW s, Stack(s), Linked(s), NEW t, t = Advanced(s)
  PROVE  /\ t \in Seq(Frame) /\ Len(t) = Len(s)
         /\ \A d \in 1 .. Len(s) :
              /\ t[d].fn = s[d].fn /\ t[d].remapping = s[d].remapping /\ t[d].args = s[d].args
              /\ t[d].at = IF d = Len(s) THEN s[d].at + 1 ELSE s[d].at
  <1>1. PICK n \in Nat \ {0} : n = Len(s)
    BY Frames
  <1>2. PICK f : f \in Frame /\ f = s[n]
    BY <1>1, Frames
  <1>3. PICK g : g = [f EXCEPT !.at = @ + 1]
    OBVIOUS
  <1>4. g \in Frame /\ g.fn = f.fn /\ g.remapping = f.remapping /\ g.args = f.args /\ g.at = f.at + 1
    BY <1>2, <1>3 DEF Frame
  <1>5. t = [s EXCEPT ![n] = g]
    BY <1>1, <1>2, <1>3 DEF Advanced
  <1> HIDE DEF Frame
  <1>6. /\ [s EXCEPT ![n] = g] \in Seq(Frame)
        /\ Len([s EXCEPT ![n] = g]) = n
        /\ \A j \in 1 .. n : [s EXCEPT ![n] = g][j] = IF j = n THEN g ELSE s[j]
    <2>1. s \in Seq(Frame)
      BY DEF Stack
    <2> QED
      BY <1>1, <1>4, <2>1, ExceptSeq
  <1> QED
    BY <1>1, <1>2, <1>4, <1>5, <1>6

LEMMA AdvancedLinked ==
  ASSUME shader \in Shaders, NEW s, Stack(s), Linked(s), NEW t, t = Advanced(s),
         s[Len(s)].at <= Len(Body(s[Len(s)].fn))
  PROVE  Stack(t) /\ Linked(t)
  <1>1. PICK n \in Nat \ {0} : n = Len(s)
    BY Frames
  <1>2. /\ t \in Seq(Frame) /\ Len(t) = n
        /\ \A d \in 1 .. n :
              /\ t[d].fn = s[d].fn /\ t[d].remapping = s[d].remapping /\ t[d].args = s[d].args
              /\ t[d].at = IF d = n THEN s[d].at + 1 ELSE s[d].at
    BY <1>1, AdvancedFrames
  <1>3. Stack(t)
    <2>1. t # << >>
      BY <1>2
    <2> QED
      BY <1>1, <1>2, <2>1 DEF Stack
  <1>4. t[1].fn = shader.entry
    BY <1>1, <1>2 DEF Linked
  <1>5. \A d \in 1 .. n : t[d].fn \in Deep /\ t[d].at \in 1 .. Len(Body(t[d].fn)) + 1
    <2> SUFFICES ASSUME NEW d \in 1 .. n PROVE t[d].fn \in Deep /\ t[d].at \in 1 .. Len(Body(t[d].fn)) + 1
      OBVIOUS
    <2>1. s[d].fn \in Deep /\ s[d].at \in Nat \ {0} /\ s[d].at <= Len(Body(s[d].fn)) + 1 /\ Len(Body(s[d].fn)) \in Nat
      BY <1>1, Frames
    <2>2. d = n => s[d].at <= Len(Body(s[d].fn))
      BY <1>1
    <2> QED
      BY <1>2, <2>1, <2>2, SMTT(30)
  <1>6. ASSUME NEW d \in 1 .. n - 1
        PROVE  /\ t[d].at # 1 /\ Waiting(t, d).op = "call" /\ Waiting(t, d).callee = t[d + 1].fn
               /\ t[d + 1].args = Waiting(t, d).args
               /\ \A id \in Ids(t[d + 1].fn) : t[d + 1].remapping[id] = Meant(t[d], Own(Waiting(t, d), id))
    <2>1. /\ s[d].at # 1 /\ Waiting(s, d).op = "call" /\ Waiting(s, d).callee = s[d + 1].fn
          /\ s[d + 1].args = Waiting(s, d).args
          /\ \A id \in Ids(s[d + 1].fn) : s[d + 1].remapping[id] = Meant(s[d], Own(Waiting(s, d), id))
      BY <1>1 DEF Linked
    <2>2. /\ t[d].fn = s[d].fn /\ t[d].remapping = s[d].remapping /\ t[d].at = s[d].at
          /\ t[d + 1].fn = s[d + 1].fn /\ t[d + 1].args = s[d + 1].args /\ t[d + 1].remapping = s[d + 1].remapping
      <3>1. d \in 1 .. n /\ d + 1 \in 1 .. n /\ d # n
        OBVIOUS
      <3> QED
        BY <1>2, <3>1
    <2>3. Waiting(t, d) = Waiting(s, d)
      BY <2>2 DEF Waiting
    <2>4. \A id : Meant(t[d], id) = Meant(s[d], id)
      BY <2>2 DEF Meant
    <2> QED
      BY <2>1, <2>2, <2>3, <2>4
  <1>7. \A d, e \in 1 .. n : d < e => Level[t[e].fn] < Level[t[d].fn]
    BY <1>1, <1>2 DEF Linked
  <1> QED
    BY <1>2, <1>3, <1>4, <1>5, <1>6, <1>7 DEF Linked

\* The innermost call, of n, is at the instruction o ...
IsAt(s, n, o) ==
  /\ Stack(s) /\ Linked(s)
  /\ n = Len(s) /\ s[n].at <= Len(Body(s[n].fn)) /\ o = Body(s[n].fn)[s[n].at]

\* ... and in t it has moved on, and seen what the instruction needs.
MovedOn(s, t, n, o) ==
  /\ n \in Nat \ {0} /\ n \in 1 .. n /\ Len(t) = n
  /\ \A d \in 1 .. n : t[d].fn = s[d].fn /\ t[d].remapping = s[d].remapping
  /\ \A d \in 1 .. n : d # n =>
       Done(t, d) = Done(s, d) /\ Seen(t, d) = Seen(s, d) /\ Shown(t, d) = Shown(s, d)
  /\ Done(s, n) + 1 = s[n].at /\ Done(t, n) = s[n].at /\ Done(s, n) \in Nat
  /\ Seen(t, n) = Seen(s, n) \cup Needs(s[n].fn, o, PairsOf(o.callee))
  /\ s[n].fn \in Deep /\ o \in Range(Body(s[n].fn))

LEMMA AdvancedSees ==
  ASSUME shader \in Shaders, NEW s, NEW n, NEW o, IsAt(s, n, o)
  PROVE  MovedOn(s, Advanced(s), n, o)
  <1>0. /\ Stack(s) /\ Linked(s)
        /\ n = Len(s) /\ s[n].at <= Len(Body(s[n].fn)) /\ o = Body(s[n].fn)[s[n].at]
    BY DEF IsAt
  <1> DEFINE t == Advanced(s)
  <1>1. n \in Nat \ {0} /\ n \in 1 .. n
    BY <1>0, Frames
  <1>2. /\ t \in Seq(Frame) /\ Len(t) = n
        /\ \A d \in 1 .. n :
              /\ t[d].fn = s[d].fn /\ t[d].remapping = s[d].remapping /\ t[d].args = s[d].args
              /\ t[d].at = IF d = n THEN s[d].at + 1 ELSE s[d].at
    BY <1>0, AdvancedFrames
  <1> HIDE DEF t
  <1>3. s[n].at \in Nat \ {0} /\ s[n].fn \in Fn /\ s[n].fn \in Deep /\ Len(Body(s[n].fn)) \in Nat
    BY <1>0, <1>1, Frames
  <1>4. \A d \in 1 .. n : t[d].fn = s[d].fn /\ \A id : Meant(t[d], id) = Meant(s[d], id)
    BY <1>2 DEF Meant
  <1>5. ASSUME NEW d \in 1 .. n, d # n
        PROVE  Done(t, d) = Done(s, d) /\ Seen(t, d) = Seen(s, d) /\ Shown(t, d) = Shown(s, d)
    <2>1. Done(t, d) = Done(s, d)
      BY <1>0, <1>2, <1>5 DEF Done
    <2>2. Seen(t, d) = Seen(s, d)
      BY <1>2, <2>1 DEF Seen
    <2> QED
      BY <1>4, <2>1, <2>2 DEF Shown
  <1>6. Done(s, n) + 1 = s[n].at /\ Done(t, n) = s[n].at /\ Done(s, n) \in Nat
    BY <1>0, <1>1, <1>2, <1>3 DEF Done
  <1>7. Seen(t, n) = Seen(s, n) \cup Needs(s[n].fn, o, PairsOf(o.callee))
    <2>1. Needed(s[n].fn, Done(s, n) + 1) = Needed(s[n].fn, Done(s, n)) \cup
            Needs(s[n].fn, Body(s[n].fn)[Done(s, n) + 1], PairsOf(Body(s[n].fn)[Done(s, n) + 1].callee))
      BY <1>6, NeededOne
    <2>2. t[n].fn = s[n].fn
      BY <1>1, <1>2
    <2> QED
      BY <1>0, <1>6, <2>1, <2>2 DEF Seen
  <1>8. o \in Range(Body(s[n].fn))
    <2>1. s[n].at \in 1 .. Len(Body(s[n].fn))
      BY <1>0, <1>3
    <2> QED
      BY <1>0, <1>3, <2>1, BodyType
  <1>9. MovedOn(s, t, n, o)
    BY <1>1, <1>2, <1>3, <1>5, <1>6, <1>7, <1>8 DEF MovedOn
  <1> QED
    BY <1>9 DEF t

\* What is shown: all frames' but one stay, and this one's grows.
LEMMA ShownGrows ==
  ASSUME NEW s, NEW t, NEW n \in Nat \ {0}, NEW more,
         \A d \in 1 .. n : d # n => Shown(t, d) = Shown(s, d),
         Shown(t, n) = Shown(s, n) \cup more
  PROVE  UNION {Shown(t, d) : d \in 1 .. n} = (UNION {Shown(s, d) : d \in 1 .. n}) \cup more
  <1>1. n \in 1 .. n
    OBVIOUS
  <1>2. \A x : (\E d \in 1 .. n : x \in Shown(t, d)) <=> (\E d \in 1 .. n : x \in Shown(s, d)) \/ x \in more
    <2> SUFFICES ASSUME NEW x
                 PROVE  (\E d \in 1 .. n : x \in Shown(t, d)) <=> (\E d \in 1 .. n : x \in Shown(s, d)) \/ x \in more
      OBVIOUS
    <2>1. ASSUME NEW d \in 1 .. n, x \in Shown(t, d) PROVE (\E e \in 1 .. n : x \in Shown(s, e)) \/ x \in more
      BY <2>1
    <2>2. ASSUME NEW d \in 1 .. n, x \in Shown(s, d) PROVE \E e \in 1 .. n : x \in Shown(t, e)
      BY <2>2
    <2>3. ASSUME x \in more PROVE \E e \in 1 .. n : x \in Shown(t, e)
      BY <1>1, <2>3
    <2> QED
      BY <2>1, <2>2, <2>3
  <1> QED
    BY <1>2

\* Frames are of different functions.
LEMMA FramesApart ==
  ASSUME shader \in Shaders, NEW s, Stack(s), Linked(s), NEW d \in 1 .. Len(s), NEW e \in 1 .. Len(s),
         s[d].fn = s[e].fn
  PROVE  d = e
  <1>1. Level[s[d].fn] \in Nat /\ Level[s[e].fn] \in Nat /\ Len(s) \in Nat
    BY Frames
  <1>2. ~(d < e) /\ ~(e < d)
    <2>1. d < e => Level[s[e].fn] < Level[s[d].fn]
      BY DEF Linked
    <2>2. e < d => Level[s[d].fn] < Level[s[e].fn]
      BY DEF Linked
    <2> QED
      BY <1>1, <2>1, <2>2
  <1> QED
    BY <1>1, <1>2

\* A sampling: the module's list and the function's grow by its pair.
LEMMA CombineShows ==
  ASSUME shader \in Shaders, NEW s, NEW n, NEW o, IsAt(s, n, o), NEW t, t = Advanced(s),
         NEW image, NEW own, Needs(s[n].fn, o, PairsOf(o.callee)) = {<<image, own>>},
         NEW list \in Seq(Pair), ImagesShown(s, list),
         NEW c \in Pair, c = [image |-> Meant(s[n], image), sampler |-> Meant(s[n], own)],
         NEW more, more = IF c \in Range(list) THEN list ELSE Append(list, c)
  PROVE  ImagesShown(t, more)
  <1>1. MovedOn(s, t, n, o) /\ n \in Nat \ {0} /\ n \in 1 .. n /\ n = Len(s) /\ Len(t) = n
    <2>1. MovedOn(s, t, n, o)
      BY AdvancedSees
    <2> QED
      BY <2>1 DEF MovedOn, IsAt
  <1>2. /\ \A d \in 1 .. n : t[d].fn = s[d].fn /\ \A id : Meant(t[d], id) = Meant(s[d], id)
        /\ \A d \in 1 .. n : d # n => Shown(t, d) = Shown(s, d)
        /\ Seen(t, n) = Seen(s, n) \cup Needs(s[n].fn, o, PairsOf(o.callee))
    BY <1>1 DEF MovedOn, Meant
  <1>3. PICK i, j : i = Meant(s[n], image) /\ j = Meant(s[n], own)
    OBVIOUS
  <1>4. Shown(t, n) = Shown(s, n) \cup {<<i, j>>}
    <2>1. Seen(t, n) = Seen(s, n) \cup {<<image, own>>}
      BY <1>2
    <2>2. \A id : Meant(t[n], id) = Meant(s[n], id)
      BY <1>1, <1>2
    <2>3. Shown(t, n) = {<<Meant(s[n], p[1]), Meant(s[n], p[2])>> : p \in Seen(t, n)}
      BY <2>2 DEF Shown
    <2>4. {<<Meant(s[n], p[1]), Meant(s[n], p[2])>> : p \in {<<image, own>>}} = {<<i, j>>}
      BY <1>3
    <2> QED
      BY <2>1, <2>3, <2>4 DEF Shown
  <1>5. UNION {Shown(t, d) : d \in 1 .. n} = (UNION {Shown(s, d) : d \in 1 .. n}) \cup {<<i, j>>}
    <2>1. PICK seen : seen = {<<i, j>>}
      OBVIOUS
    <2>2. Shown(t, n) = Shown(s, n) \cup seen
      BY <1>4, <2>1
    <2>3. UNION {Shown(t, d) : d \in 1 .. n} = (UNION {Shown(s, d) : d \in 1 .. n}) \cup seen
      BY <1>1, <1>2, <2>2, ShownGrows
    <2> QED
      BY <2>1, <2>3
  <1>6. PairsListed(list) = UNION {Shown(s, d) : d \in 1 .. n} /\ IsInjective(list)
    BY <1>1 DEF ImagesShown
  <1>7. PairsListed(more) = PairsListed(list) \cup {<<i, j>>} /\ IsInjective(more)
    <2>1. c.image = i /\ c.sampler = j
      BY <1>3
    <2>2. CASE c \in Range(list)
      <3>1. <<i, j>> \in PairsListed(list)
        BY <2>1, <2>2 DEF PairsListed
      <3> QED
        BY <1>6, <2>2, <3>1
    <2>3. CASE c \notin Range(list)
      <3>1. Range(more) = Range(list) \cup {c} /\ IsInjective(more)
        BY <1>6, <2>3, AppendRange
      <3> QED
        BY <2>1, <3>1 DEF PairsListed
    <2> QED
      BY <2>2, <2>3
  <1> QED
    BY <1>1, <1>5, <1>6, <1>7 DEF ImagesShown

Samples(f, o, image, own) ==
  /\ image \in Operands(f) /\ own \in Operands(f)
  /\ o.op # "call" /\ Needs(f, o, PairsOf(o.callee)) = {<<image, own>>}

\* The lists of parameters after a sampling in the innermost call, of n.
Listed(params, open, f, n, image, own) ==
  IF n > 1 /\ open[f] THEN Registered(params, f, image, own) ELSE params

LEMMA CombineListed ==
  ASSUME shader \in Shaders, NEW s, NEW n, NEW o, IsAt(s, n, o), NEW t, t = Advanced(s),
         NEW image, NEW own, Samples(s[n].fn, o, image, own),
         NEW params, NEW open, ListsTyped(params, open), ListsSeen(s, params, open),
         NEW more, more = Listed(params, open, s[n].fn, n, image, own)
  PROVE  ListsTyped(more, open) /\ ListsSeen(t, more, open)
  <1>0. /\ image \in Operands(s[n].fn) /\ own \in Operands(s[n].fn)
        /\ o.op # "call" /\ Needs(s[n].fn, o, PairsOf(o.callee)) = {<<image, own>>}
    BY DEF Samples
  <1>1. MovedOn(s, t, n, o) /\ n \in Nat \ {0} /\ n \in 1 .. n /\ n = Len(s) /\ Len(t) = n
        /\ Stack(s) /\ Linked(s) /\ o = Body(s[n].fn)[s[n].at]
    BY AdvancedSees DEF MovedOn, IsAt
  <1>2. PICK f \in Fn : f = s[n].fn
    BY <1>1, Frames
  <1>3. /\ \A d \in 1 .. n : t[d].fn = s[d].fn
        /\ \A d \in 1 .. n : d # n => Done(t, d) = Done(s, d) /\ Seen(t, d) = Seen(s, d)
        /\ Done(s, n) + 1 = s[n].at /\ Done(t, n) = s[n].at /\ Done(s, n) \in Nat
        /\ Seen(t, n) = Seen(s, n) \cup {<<image, own>>}
    BY <1>0, <1>1 DEF MovedOn
  <1>4. params \in ParameterLists /\ open \in [Fn -> BOOLEAN] /\ \A g \in Fn : IsInjective(params[g])
    BY DEF ListsTyped
  <1>5. IF n > 1 /\ open[f] THEN Grown(more, params, f, {<<image, own>>}) ELSE more = params
    BY <1>0, <1>2, <1>4, RegisteredOne DEF Listed
  <1>6. /\ more \in ParameterLists /\ \A g \in Fn : IsInjective(more[g])
        /\ \A g \in Fn : g # f \/ ~open[f] \/ n = 1 => more[g] = params[g]
    BY <1>1, <1>4, <1>5 DEF Grown
  <1>7. \A g \in Fn : Runs(t, g) <=> Runs(s, g)
    BY <1>1, <1>3 DEF Runs
  <1>8. \A d \in 1 .. n : s[d].fn \in Fn /\ (d # n => s[d].fn # f)
    BY <1>1, <1>2, Frames, FramesApart
  <1>9. ASSUME NEW g \in Fn, ~open[g] PROVE Complete(more, open, g)
    <2>1. Complete(params, open, g)
      BY <1>9 DEF ListsSeen
    <2>2. more[g] = params[g]
      BY <1>6, <1>9
    <2> QED
      BY <2>1, <2>2 DEF Complete
  <1>10. ASSUME NEW d \in 1 .. n, d # 1, open[t[d].fn]
         PROVE  Range(more[t[d].fn]) = Local(t[d].fn, Seen(t, d))
    <2>1. Range(params[s[d].fn]) = Local(s[d].fn, Seen(s, d))
      BY <1>1, <1>3, <1>10 DEF ListsSeen
    <2>2. CASE d = n
      <3>1. Range(more[f]) = Range(params[f]) \cup Local(f, {<<image, own>>})
        <4>1. n > 1 /\ open[f]
          BY <1>1, <1>2, <1>3, <1>10, <2>2
        <4> QED
          BY <1>5, <4>1 DEF Grown
      <3>2. Local(f, Seen(t, n)) = Local(f, Seen(s, n)) \cup Local(f, {<<image, own>>})
        BY <1>3, LocalJoins
      <3> QED
        BY <1>2, <1>3, <2>1, <2>2, <3>1, <3>2
    <2>3. CASE d # n
      BY <1>3, <1>6, <1>8, <2>1, <2>3
    <2> QED
      BY <2>2, <2>3
  <1>11. ASSUME NEW d \in 1 .. n, NEW i \in 1 .. Done(t, d), Body(t[d].fn)[i].op = "call"
         PROVE  ~open[Body(t[d].fn)[i].callee]
    <2>1. i \in 1 .. Done(s, d)
      <3>1. CASE d # n
        BY <1>3, <3>1
      <3>2. CASE d = n
        <4>1. i # Done(s, n) + 1
          BY <1>0, <1>1, <1>3, <1>11, <3>2
        <4> QED
          BY <1>3, <3>2, <4>1
      <3> QED
        BY <3>1, <3>2
    <2> QED
      BY <1>1, <1>3, <1>11, <2>1 DEF ListsSeen
  <1>12. ASSUME NEW g \in Fn, open[g], ~Runs(t, g) PROVE more[g] = << >>
    <2>1. params[g] = << >>
      BY <1>7, <1>12 DEF ListsSeen
    <2>2. g # f \/ n = 1
      BY <1>1, <1>2, <1>7, <1>12 DEF Runs
    <2> QED
      BY <1>6, <2>1, <2>2
  <1> QED
    BY <1>1, <1>4, <1>6, <1>9, <1>10, <1>11, <1>12 DEF ListsTyped, ListsSeen

\* An instruction that needs nothing.
LEMMA SkipSees ==
  ASSUME shader \in Shaders, NEW s, NEW n, NEW o, IsAt(s, n, o), o.op # "call", NEW t, t = Advanced(s),
         Needs(s[n].fn, o, PairsOf(o.callee)) = {},
         NEW list, ImagesShown(s, list), NEW params, NEW open, ListsSeen(s, params, open)
  PROVE  ImagesShown(t, list) /\ ListsSeen(t, params, open)
  <1>1. MovedOn(s, t, n, o) /\ n \in Nat \ {0} /\ n \in 1 .. n /\ n = Len(s) /\ Len(t) = n
        /\ o = Body(s[n].fn)[s[n].at]
    BY AdvancedSees, ZenonT(40) DEF MovedOn, IsAt
  <1>2. /\ \A d \in 1 .. n : t[d].fn = s[d].fn /\ t[d].remapping = s[d].remapping
        /\ \A d \in 1 .. n : d # n => Done(t, d) = Done(s, d) /\ Seen(t, d) = Seen(s, d) /\ Shown(t, d) = Shown(s, d)
        /\ Done(s, n) + 1 = s[n].at /\ Done(t, n) = s[n].at /\ Done(s, n) \in Nat
        /\ Seen(t, n) = Seen(s, n)
    BY <1>1 DEF MovedOn
  <1>3. Shown(t, n) = Shown(s, n)
    BY <1>1, <1>2 DEF Shown, Meant
  <1>4. \A d \in 1 .. n : Seen(t, d) = Seen(s, d) /\ Shown(t, d) = Shown(s, d)
    BY <1>2, <1>3
  <1>5. ImagesShown(t, list)
    BY <1>1, <1>4 DEF ImagesShown
  <1>6. \A g : Runs(t, g) <=> Runs(s, g)
    BY <1>1, <1>2 DEF Runs
  <1>7. ASSUME NEW d \in 1 .. n, NEW i \in 1 .. Done(t, d), Body(t[d].fn)[i].op = "call"
        PROVE  ~open[Body(t[d].fn)[i].callee]
    <2>1. i \in 1 .. Done(s, d)
      <3>1. CASE d # n
        BY <1>2, <3>1
      <3>2. CASE d = n
        <4>1. i # Done(s, n) + 1
          BY <1>1, <1>2, <1>7, <3>2
        <4> QED
          BY <1>2, <3>2, <4>1
      <3> QED
        BY <3>1, <3>2
    <2> QED
      BY <1>1, <1>2, <1>7, <2>1 DEF ListsSeen
  <1> QED
    <2>1. ASSUME NEW d \in 1 .. n, d # 1, open[t[d].fn]
          PROVE  Range(params[t[d].fn]) = Local(t[d].fn, Seen(t, d))
      <3>1. t[d].fn = s[d].fn /\ Seen(t, d) = Seen(s, d)
        BY <1>2, <1>4, Zenon
      <3>2. Range(params[s[d].fn]) = Local(s[d].fn, Seen(s, d))
        BY <1>1, <2>1, <3>1, Zenon DEF ListsSeen
      <3> QED
        BY <3>1, <3>2, Zenon
    <2>2. \A f \in Fn : ~open[f] => Complete(params, open, f)
      BY Zenon DEF ListsSeen
    <2>3. \A f \in Fn : open[f] /\ ~Runs(t, f) => params[f] = << >>
      BY <1>6, Zenon DEF ListsSeen
    <2>4. ListsSeen(t, params, open)
      BY <1>1, <1>7, <2>1, <2>2, <2>3, Zenon DEF ListsSeen
    <2> QED
      BY <1>5, <2>4

\* A call: the frames below keep what they have seen, the callee has seen nothing.
Entered(s, t, n, g) ==
  /\ n \in Nat \ {0} /\ n \in 1 .. n /\ n = Len(s) /\ Len(t) = n + 1 /\ t[n + 1] = g
  /\ \A d \in 1 .. n :
       /\ t[d].fn = s[d].fn /\ t[d].remapping = s[d].remapping /\ t[d].args = s[d].args
       /\ t[d].at = IF d = n THEN s[d].at + 1 ELSE s[d].at
  /\ \A d \in 1 .. n : Done(t, d) = Done(s, d) /\ Seen(t, d) = Seen(s, d) /\ Shown(t, d) = Shown(s, d)
  /\ Done(t, n + 1) = 0 /\ Seen(t, n + 1) = {} /\ Shown(t, n + 1) = {}

LEMMA CallFrames ==
  ASSUME shader \in Shaders, NEW s, NEW n, NEW o, IsAt(s, n, o), o.op = "call",
         NEW g \in Frame, g.fn = o.callee, g.at = 1, NEW t, t = Append(Advanced(s), g)
  PROVE  Entered(s, t, n, g)
  <1>0. Stack(s) /\ Linked(s) /\ n = Len(s)
    BY DEF IsAt
  <1>1. n \in Nat \ {0} /\ n \in 1 .. n
    BY <1>0, Frames
  <1>2. PICK a : a = Advanced(s)
    OBVIOUS
  <1>3. /\ a \in Seq(Frame) /\ Len(a) = n
        /\ \A d \in 1 .. n :
              /\ a[d].fn = s[d].fn /\ a[d].remapping = s[d].remapping /\ a[d].args = s[d].args
              /\ a[d].at = IF d = n THEN s[d].at + 1 ELSE s[d].at
    BY <1>0, <1>2, AdvancedFrames
  <1>4. Len(t) = n + 1 /\ t[n + 1] = g /\ \A d \in 1 .. n : t[d] = a[d]
    BY <1>1, <1>2, <1>3, AppendProperties
  <1>5. /\ \A d \in 1 .. n :
              /\ t[d].fn = s[d].fn /\ t[d].remapping = s[d].remapping /\ t[d].args = s[d].args
              /\ t[d].at = IF d = n THEN s[d].at + 1 ELSE s[d].at
    BY <1>3, <1>4
  <1>6. \A d \in 1 .. n : s[d].at \in Nat
    BY <1>0, Frames
  <1>7. ASSUME NEW d \in 1 .. n
        PROVE  Done(t, d) = Done(s, d) /\ Seen(t, d) = Seen(s, d) /\ Shown(t, d) = Shown(s, d)
    <2>1. Done(t, d) = Done(s, d)
      BY <1>0, <1>1, <1>4, <1>5, <1>6 DEF Done
    <2>2. Seen(t, d) = Seen(s, d)
      BY <1>5, <2>1 DEF Seen
    <2> QED
      BY <1>5, <2>1, <2>2 DEF Shown, Meant
  <1>8. Done(t, n + 1) = 0
    BY <1>4 DEF Done
  <1>9. Seen(t, n + 1) = {}
    BY <1>8 DEF Seen, Needed
  <1>10. Shown(t, n + 1) = {}
    BY <1>9 DEF Shown
  <1> QED
    BY <1>0, <1>1, <1>4, <1>5, <1>7, <1>8, <1>9, <1>10 DEF Entered

LEMMA CallLinked ==
  ASSUME shader \in Shaders, NEW s, NEW n, NEW o, IsAt(s, n, o), o.op = "call",
         NEW g \in Frame, g.fn = o.callee, g.at = 1, g.args = o.args,
         \A id \in Ids(o.callee) : g.remapping[id] = Meant(s[n], Own(o, id)),
         NEW t, t = Append(Advanced(s), g)
  PROVE  Linked(t) /\ \A d \in 1 .. n : s[d].fn # o.callee
  <1>1. /\ Entered(s, t, n, g) /\ n \in Nat \ {0} /\ n \in 1 .. n /\ n = Len(s) /\ Len(t) = n + 1 /\ t[n + 1] = g
        /\ \A d \in 1 .. n :
              /\ t[d].fn = s[d].fn /\ t[d].remapping = s[d].remapping /\ t[d].args = s[d].args
              /\ t[d].at = IF d = n THEN s[d].at + 1 ELSE s[d].at
        /\ Stack(s) /\ Linked(s) /\ s[n].at <= Len(Body(s[n].fn)) /\ o = Body(s[n].fn)[s[n].at]
    <2>1. Entered(s, t, n, g)
      BY CallFrames
    <2> QED
      BY <2>1 DEF Entered, IsAt
  <1>2. ASSUME NEW d \in 1 .. n
        PROVE  /\ s[d].fn \in Fn /\ s[d].fn \in Deep /\ Level[s[d].fn] \in Nat
               /\ s[d].at \in Nat \ {0} /\ s[d].at <= Len(Body(s[d].fn)) + 1 /\ Len(Body(s[d].fn)) \in Nat
    BY <1>1, Frames
  <1>3. o \in Range(Body(s[n].fn))
    BY AdvancedSees DEF MovedOn
  <1>4. o.callee \in Deep /\ Level[o.callee] < Level[s[n].fn] /\ Level[o.callee] \in Nat
        /\ o.callee \in Fn /\ Len(Body(o.callee)) \in Nat
    <2>1. o.callee \in Deep /\ Level[o.callee] < Level[s[n].fn]
      BY <1>1, <1>2, <1>3, Leveled
    <2>2. o.callee \in Fn
      BY <2>1 DEF Deep
    <2> QED
      BY <2>1, <2>2, Leveled, BodyType
  <1>5. \A d \in 1 .. n : Level[o.callee] < Level[s[d].fn]
    <2> SUFFICES ASSUME NEW d \in 1 .. n PROVE Level[o.callee] < Level[s[d].fn]
      OBVIOUS
    <2>1. d < n => Level[s[n].fn] < Level[s[d].fn]
      BY <1>1 DEF Linked
    <2>2. d < n \/ d = n
      BY <1>1, SMTT(30)
    <2>3. Level[s[d].fn] \in Nat /\ Level[s[n].fn] \in Nat
      BY <1>1, <1>2
    <2> QED
      BY <1>4, <2>1, <2>2, <2>3
  <1>6. t[1].fn = shader.entry
    <2>1. 1 \in 1 .. n
      BY <1>1
    <2>2. t[1].fn = s[1].fn /\ Linked(s)
      BY <1>1, <2>1, Zenon
    <2> QED
      BY <2>2, Zenon DEF Linked
  <1>7. ASSUME NEW d \in 1 .. n + 1 PROVE t[d].fn \in Deep /\ t[d].at \in 1 .. Len(Body(t[d].fn)) + 1
    <2>1. CASE d = n + 1
      <3>1. t[d].fn = o.callee /\ t[d].at = 1
        BY <1>1, <2>1, Zenon
      <3>2. 1 \in 1 .. Len(Body(o.callee)) + 1
        BY <1>4
      <3> QED
        BY <1>4, <3>1, <3>2, Zenon
    <2>2. CASE d \in 1 .. n
      <3>1. t[d].fn = s[d].fn /\ t[d].at = IF d = n THEN s[d].at + 1 ELSE s[d].at
        BY <1>1, <2>2
      <3>2. s[d].at \in Nat \ {0} /\ s[d].at <= Len(Body(s[d].fn)) + 1 /\ Len(Body(s[d].fn)) \in Nat /\ s[d].fn \in Deep
        BY <1>2, <2>2
      <3>3. d = n => s[d].at <= Len(Body(s[d].fn))
        BY <1>1
      <3> QED
        BY <3>1, <3>2, <3>3
    <2> QED
      BY <1>1, <2>1, <2>2
  <1>8. ASSUME NEW d \in 1 .. n
        PROVE  /\ t[d].at # 1 /\ Waiting(t, d).op = "call" /\ Waiting(t, d).callee = t[d + 1].fn
               /\ t[d + 1].args = Waiting(t, d).args
               /\ \A id \in Ids(t[d + 1].fn) : t[d + 1].remapping[id] = Meant(t[d], Own(Waiting(t, d), id))
    <2>1. \A id : Meant(t[d], id) = Meant(s[d], id)
      BY <1>1 DEF Meant
    <2>2. CASE d = n
      <3>1. Waiting(t, n) = o /\ t[n].at # 1
        <4>1. t[n].at = s[n].at + 1 /\ t[n].fn = s[n].fn /\ s[n].at \in Nat \ {0}
          BY <1>1, <1>2
        <4>2. t[n].at - 1 = s[n].at /\ t[n].at # 1
          BY <4>1
        <4> QED
          BY <1>1, <4>1, <4>2 DEF Waiting
      <3> QED
        <4>1. t[d + 1].fn = o.callee /\ t[d + 1].args = o.args /\ t[d + 1].remapping = g.remapping
          BY <1>1, <2>2, Zenon
        <4>2. Waiting(t, d) = o /\ t[d].at # 1
          BY <2>2, <3>1, Zenon
        <4>3. ASSUME NEW id \in Ids(t[d + 1].fn) PROVE t[d + 1].remapping[id] = Meant(t[d], Own(Waiting(t, d), id))
          <5>1. g.remapping[id] = Meant(s[d], Own(o, id))
            BY <2>2, <4>1, Zenon
          <5> QED
            BY <2>1, <4>1, <4>2, <5>1, Zenon
        <4> QED
          BY <4>1, <4>2, <4>3, Zenon
    <2>3. CASE d # n
      <3>1. d \in 1 .. n - 1 /\ d + 1 \in 1 .. n
        BY <1>1, <2>3
      <3>2. /\ s[d].at # 1 /\ Waiting(s, d).op = "call" /\ Waiting(s, d).callee = s[d + 1].fn
            /\ s[d + 1].args = Waiting(s, d).args
            /\ \A id \in Ids(s[d + 1].fn) : s[d + 1].remapping[id] = Meant(s[d], Own(Waiting(s, d), id))
        BY <1>1, <3>1 DEF Linked
      <3>3. /\ t[d].fn = s[d].fn /\ t[d].at = s[d].at
            /\ t[d + 1].fn = s[d + 1].fn /\ t[d + 1].args = s[d + 1].args /\ t[d + 1].remapping = s[d + 1].remapping
        BY <1>1, <2>3, <3>1
      <3>4. Waiting(t, d) = Waiting(s, d)
        BY <3>3 DEF Waiting
      <3> QED
        <4>1. \A id \in Ids(t[d + 1].fn) : t[d + 1].remapping[id] = Meant(t[d], Own(Waiting(t, d), id))
          BY <2>1, <3>2, <3>3, <3>4, ZenonT(40)
        <4> QED
          BY <3>2, <3>3, <3>4, <4>1
    <2> QED
      BY <2>2, <2>3
  <1>9. ASSUME NEW d \in 1 .. n + 1, NEW e \in 1 .. n + 1, d < e PROVE Level[t[e].fn] < Level[t[d].fn]
    <2>1. d \in 1 .. n /\ (e = n + 1 \/ e \in 1 .. n)
      <3>1. d \in Nat /\ e \in Nat /\ d <= n + 1 /\ e <= n + 1 /\ 1 <= d /\ 1 <= e
        BY <1>1
      <3> QED
        BY <1>1, <1>9, <3>1
    <2>2. CASE e = n + 1
      BY <1>1, <1>5, <2>1, <2>2
    <2>3. CASE e \in 1 .. n
      <3>1. Level[s[e].fn] < Level[s[d].fn]
        BY <1>1, <1>9, <2>1, <2>3 DEF Linked
      <3> QED
        BY <1>1, <2>1, <2>3, <3>1
    <2> QED
      BY <2>1, <2>2, <2>3
  <1>10. \A d \in 1 .. n : s[d].fn # o.callee
    BY <1>2, <1>4, <1>5
  <1>11. (n + 1) - 1 = n
    BY <1>1
  <1> QED
    <2>1. 1 .. Len(t) = 1 .. n + 1 /\ 1 .. Len(t) - 1 = 1 .. n
      BY <1>1, <1>11
    <2>2. \A d \in 1 .. n :
            /\ t[d].at # 1 /\ Waiting(t, d).op = "call" /\ Waiting(t, d).callee = t[d + 1].fn
            /\ t[d + 1].args = Waiting(t, d).args
            /\ \A id \in Ids(t[d + 1].fn) : t[d + 1].remapping[id] = Meant(t[d], Own(Waiting(t, d), id))
      BY <1>8
    <2>3. Linked(t)
      BY <1>6, <1>7, <1>9, <2>1, <2>2, ZenonT(40) DEF Linked
    <2> QED
      BY <1>10, <2>3

LEMMA CallSees ==
  ASSUME shader \in Shaders, NEW s, NEW n, NEW o, IsAt(s, n, o), o.op = "call",
         NEW t, NEW g, Entered(s, t, n, g), g.fn = o.callee, ~Runs(s, o.callee),
         NEW list, ImagesShown(s, list), NEW params, NEW open, ListsSeen(s, params, open)
  PROVE  ImagesShown(t, list) /\ ListsSeen(t, params, open)
  <1>1. /\ n \in Nat \ {0} /\ Len(t) = n + 1 /\ t[n + 1] = g /\ n = Len(s)
        /\ \A d \in 1 .. n : t[d].fn = s[d].fn
        /\ \A d \in 1 .. n : Done(t, d) = Done(s, d) /\ Seen(t, d) = Seen(s, d) /\ Shown(t, d) = Shown(s, d)
        /\ Done(t, n + 1) = 0 /\ Seen(t, n + 1) = {} /\ Shown(t, n + 1) = {}
    BY DEF Entered
  <1>2. 1 .. n + 1 = (1 .. n) \cup {n + 1}
    BY <1>1
  <1>3. UNION {Shown(t, d) : d \in 1 .. n + 1} = UNION {Shown(s, d) : d \in 1 .. n}
    <2>1. \A x : (\E d \in 1 .. n + 1 : x \in Shown(t, d)) <=> (\E d \in 1 .. n : x \in Shown(s, d))
      BY <1>1, <1>2
    <2> QED
      BY <2>1
  <1>4. ImagesShown(t, list)
    BY <1>1, <1>3 DEF ImagesShown
  <1>5. \A f : Runs(s, f) => Runs(t, f)
    BY <1>1, <1>2 DEF Runs
  <1>6. ASSUME NEW d \in 1 .. n + 1, d # 1, open[t[d].fn]
        PROVE  Range(params[t[d].fn]) = Local(t[d].fn, Seen(t, d))
    <2>1. CASE d = n + 1
      <3>2. o.callee \in Fn
        <4>1. o \in Range(Body(s[n].fn)) /\ s[n].fn \in Deep
          BY AdvancedSees DEF MovedOn
        <4> QED
          BY <4>1, Leveled DEF Deep
      <3>3. params[o.callee] = << >>
        BY <1>1, <1>6, <2>1, <3>2 DEF ListsSeen
      <3>4. Range(<< >>) = {}
        BY DEF Range
      <3> QED
        BY <1>1, <2>1, <3>3, <3>4, LocalJoins
    <2>2. CASE d \in 1 .. n
      BY <1>1, <1>6, <2>2 DEF ListsSeen
    <2> QED
      BY <1>2, <2>1, <2>2
  <1>7. ASSUME NEW d \in 1 .. n + 1, NEW i \in 1 .. Done(t, d), Body(t[d].fn)[i].op = "call"
        PROVE  ~open[Body(t[d].fn)[i].callee]
    <2>1. d \in 1 .. n
      BY <1>1, <1>2
    <2> QED
      BY <1>1, <1>7, <2>1 DEF ListsSeen
  <1> QED
    BY <1>1, <1>4, <1>5, <1>6, <1>7 DEF ListsSeen

\* A parameter of the callee is, for its caller, what the call has for it.
LEMMA OperandOwn ==
  ASSUME NEW o, NEW image, NEW sampler
  PROVE  /\ Operand(o.args, Parameter(o.callee, image, sampler).image) = Own(o, image)
         /\ Operand(o.args, Parameter(o.callee, image, sampler).sampler) = Own(o, sampler)
  BY DEF Operand, Parameter, Own

LEMMA CallNeeds ==
  ASSUME NEW f, NEW o, o.op = "call", NEW called
  PROVE  Needs(f, o, called) = {<<Own(o, p[1]), Own(o, p[2])>> : p \in called}
  BY DEF Needs, FetchesImage

Owned(o, pairs) == {<<Own(o, p[1]), Own(o, p[2])>> : p \in pairs}
IsLocal(q) == ~(q.image.global /\ q.sampler.global)

LEMMA LocalMember ==
  ASSUME NEW f, NEW pairs, NEW q
  PROVE  q \in Local(f, pairs) <=> \E p \in pairs : q = Parameter(f, p[1], p[2]) /\ IsLocal(q)
  BY DEF Local, IsLocal

LEMMA LocalOwned ==
  ASSUME NEW f, NEW o, NEW pairs, NEW q
  PROVE  q \in Local(f, Owned(o, pairs)) <=>
           \E p \in pairs : q = Parameter(f, Own(o, p[1]), Own(o, p[2])) /\ IsLocal(q)
  <1>1. ASSUME NEW p \in pairs, q = Parameter(f, Own(o, p[1]), Own(o, p[2])), IsLocal(q)
        PROVE  q \in Local(f, Owned(o, pairs))
    <2>1. PICK a, b : a = Own(o, p[1]) /\ b = Own(o, p[2])
      OBVIOUS
    <2>2. <<a, b>> \in Owned(o, pairs) /\ <<a, b>>[1] = a /\ <<a, b>>[2] = b
      BY <2>1 DEF Owned
    <2> QED
      BY <1>1, <2>1, <2>2, LocalMember
  <1>2. ASSUME q \in Local(f, Owned(o, pairs))
        PROVE  \E p \in pairs : q = Parameter(f, Own(o, p[1]), Own(o, p[2])) /\ IsLocal(q)
    <2>1. PICK r \in Owned(o, pairs) : q = Parameter(f, r[1], r[2]) /\ IsLocal(q)
      BY <1>2, LocalMember
    <2>2. PICK p \in pairs : r = <<Own(o, p[1]), Own(o, p[2])>>
      BY DEF Owned
    <2>3. r[1] = Own(o, p[1]) /\ r[2] = Own(o, p[2])
      BY <2>2
    <2> QED
      BY <2>1, <2>3
  <1> QED
    BY <1>1, <1>2

\* So handing up the list of the callee adds the pairs that the call needs; what
\* is not on that list is of globals for the caller, too.
LEMMA HandedNeeds ==
  ASSUME shader \in Shaders, NEW f \in Fn, NEW o \in Range(Body(f)), o.op = "call",
         NEW called \in SUBSET PairsIn(o.callee)
  PROVE  /\ Local(f, Handed(o.args, Local(o.callee, called))) = Local(f, Needs(f, o, called))
         /\ \A p \in Local(o.callee, called) :
              Operand(o.args, p.image) \in Operands(f) /\ Operand(o.args, p.sampler) \in Operands(f)
  <1>1. PICK g \in Fn : g = o.callee
    <2>1. PICK n \in 1 .. Len(Body(f)) : o = Body(f)[n]
      BY BodyType
    <2> QED
      BY <2>1, OperandsAssumption DEF Body, Function
  <1>2. ASSUME NEW p \in called
        PROVE  /\ p[1] \in Operands(g) /\ p[2] \in Operands(g)
               /\ Own(o, p[1]) \in Operands(f) /\ Own(o, p[2]) \in Operands(f)
               /\ p[1] \notin Ids(g) => Own(o, p[1]) = p[1]
               /\ p[2] \notin Ids(g) => Own(o, p[2]) = p[2]
    <2>1. p[1] \in Operands(g) /\ p[2] \in Operands(g)
      BY <1>1 DEF PairsIn
    <2> QED
      BY <1>1, <2>1, OwnTyped
  <1>3. \A id \in Operands(g) : id \notin Ids(g) => id \notin Ids(f)
    BY IdsApart DEF Operands
  <1> DEFINE Par(p) == Parameter(g, p[1], p[2])
             Up(p) == Parameter(f, Own(o, p[1]), Own(o, p[2]))
             local == {p \in called : IsLocal(Par(p))}
  <1>4. ASSUME NEW p \in called
        PROVE  /\ Operand(o.args, Par(p).image) = Own(o, p[1]) /\ Operand(o.args, Par(p).sampler) = Own(o, p[2])
               /\ IsLocal(Up(p)) => IsLocal(Par(p))
    <2>1. Operand(o.args, Par(p).image) = Own(o, p[1]) /\ Operand(o.args, Par(p).sampler) = Own(o, p[2])
      BY <1>1, OperandOwn
    <2>2. ASSUME ~IsLocal(Par(p)) PROVE ~IsLocal(Up(p))
      <3>1. p[1] \notin Ids(g) /\ p[2] \notin Ids(g)
        BY <2>2, ParameterSides DEF IsLocal
      <3>2. Own(o, p[1]) \notin Ids(f) /\ Own(o, p[2]) \notin Ids(f)
        BY <1>2, <1>3, <3>1
      <3> QED
        BY <3>2, ParameterSides DEF IsLocal
    <2> QED
      BY <2>1, <2>2
  <1>5. ASSUME NEW q PROVE q \in Local(g, called) <=> \E p \in called : q = Par(p) /\ IsLocal(q)
    BY LocalMember
  <1>6. Needs(f, o, called) = Owned(o, called)
    BY CallNeeds DEF Owned
  <1> HIDE DEF Par
  <1>7. Handed(o.args, Local(g, called)) = Owned(o, local)
    <2>1. ASSUME NEW q \in Handed(o.args, Local(g, called)) PROVE q \in Owned(o, local)
      <3>1. PICK r \in Local(g, called) : q = <<Operand(o.args, r.image), Operand(o.args, r.sampler)>>
        BY DEF Handed
      <3>2. PICK p \in called : r = Par(p) /\ IsLocal(r)
        BY <1>5
      <3> QED
        BY <1>4, <3>1, <3>2 DEF Owned
    <2>2. ASSUME NEW q \in Owned(o, local) PROVE q \in Handed(o.args, Local(g, called))
      <3>1. PICK p \in called : IsLocal(Par(p)) /\ q = <<Own(o, p[1]), Own(o, p[2])>>
        BY DEF Owned
      <3>2. Par(p) \in Local(g, called)
        BY <1>5, <3>1
      <3> QED
        BY <1>4, <3>1, <3>2 DEF Handed
    <2> QED
      BY <2>1, <2>2
  <1> HIDE DEF local
  <1>8. ASSUME NEW q PROVE q \in Local(f, Owned(o, local)) <=> q \in Local(f, Owned(o, called))
    <2>1. q \in Local(f, Owned(o, local)) <=> \E p \in local : q = Up(p) /\ IsLocal(q)
      BY LocalOwned
    <2>2. q \in Local(f, Owned(o, called)) <=> \E p \in called : q = Up(p) /\ IsLocal(q)
      BY LocalOwned
    <2> HIDE DEF Up
    <2> QED
      BY <1>4, <2>1, <2>2 DEF local
  <1>9. Local(f, Owned(o, local)) = Local(f, Owned(o, called))
    <2>1. \A q : q \in Local(f, Owned(o, local)) <=> q \in Local(f, Owned(o, called))
      BY <1>8
    <2>2. PICK a, b : a = Local(f, Owned(o, local)) /\ b = Local(f, Owned(o, called))
      OBVIOUS
    <2> QED
      BY <2>1, <2>2
  <1>10. ASSUME NEW q \in Local(g, called)
         PROVE  Operand(o.args, q.image) \in Operands(f) /\ Operand(o.args, q.sampler) \in Operands(f)
    <2>1. PICK p \in called : q = Par(p)
      BY <1>5
    <2> QED
      BY <1>2, <1>4, <2>1
  <1> QED
    BY <1>1, <1>6, <1>7, <1>9, <1>10

\* A return: the caller has seen the call, which needed what the callee has seen.
Returned(s, t, n, o) ==
  /\ n \in Nat /\ n > 1 /\ n \in 1 .. n /\ n - 1 \in 1 .. n /\ n = Len(s) /\ Len(t) = n - 1
  /\ Stack(s) /\ Linked(s) /\ Stack(t) /\ Linked(t)
  /\ \A d \in 1 .. n - 1 : t[d] = s[d]
  /\ \A d \in 1 .. n - 1 : d # n - 1 =>
       Done(t, d) = Done(s, d) /\ Seen(t, d) = Seen(s, d) /\ Shown(t, d) = Shown(s, d)
  /\ o.op = "call" /\ o.callee = s[n].fn /\ s[n].args = o.args
  /\ s[n - 1].fn \in Deep /\ s[n].fn \in Deep /\ o \in Range(Body(s[n - 1].fn))
  /\ Done(s, n) = Len(Body(s[n].fn)) /\ Seen(s, n) = PairsOf(s[n].fn)
  /\ Done(s, n - 1) \in Nat /\ Done(t, n - 1) = Done(s, n - 1) + 1
  /\ o = Body(s[n - 1].fn)[Done(t, n - 1)]
  /\ Seen(t, n - 1) = Seen(s, n - 1) \cup Needs(s[n - 1].fn, o, PairsOf(s[n].fn))
  /\ Shown(t, n - 1) = Shown(s, n - 1) \cup Shown(s, n)

LEMMA ReturnFrames ==
  ASSUME shader \in Shaders, NEW s, Stack(s), Linked(s), NEW n, n = Len(s), n > 1,
         s[n].at > Len(Body(s[n].fn)), NEW t, t = SubSeq(s, 1, n - 1)
  PROVE  Returned(s, t, n, Waiting(s, n - 1))
  <1>1. n \in Nat /\ n \in 1 .. n /\ n - 1 \in 1 .. n /\ n - 1 \in 1 .. n - 1
    BY Frames, SMTT(30)
  <1>2. /\ t \in Seq(Frame) /\ Len(t) = n - 1 /\ \A d \in 1 .. n - 1 : t[d] = s[d] /\ d \in 1 .. n
    <2>1. s \in Seq(Frame)
      BY DEF Stack
    <2> QED
      BY <1>1, <2>1
  <1>3. Stack(t)
    <2>1. t # << >>
      <3>1. Len(t) # 0
        BY <1>1, <1>2
      <3> QED
        BY <3>1
    <2> QED
      BY <1>1, <1>2, <2>1 DEF Stack
  <1>4. Linked(t)
    <2>1. t[1].fn = shader.entry
      BY <1>1, <1>2 DEF Linked
    <2>2. \A d \in 1 .. n - 1 : t[d].fn \in Deep /\ t[d].at \in 1 .. Len(Body(t[d].fn)) + 1
      BY <1>1, <1>2 DEF Linked
    <2>3. ASSUME NEW d \in 1 .. (n - 1) - 1
          PROVE  /\ t[d].at # 1 /\ Waiting(t, d).op = "call" /\ Waiting(t, d).callee = t[d + 1].fn
                 /\ t[d + 1].args = Waiting(t, d).args
                 /\ \A id \in Ids(t[d + 1].fn) : t[d + 1].remapping[id] = Meant(t[d], Own(Waiting(t, d), id))
      <3>1. d \in 1 .. n - 1 /\ d + 1 \in 1 .. n - 1
        BY <1>1
      <3>2. t[d] = s[d] /\ t[d + 1] = s[d + 1] /\ Waiting(t, d) = Waiting(s, d)
        BY <1>2, <3>1 DEF Waiting
      <3>3. /\ s[d].at # 1 /\ Waiting(s, d).op = "call" /\ Waiting(s, d).callee = s[d + 1].fn
            /\ s[d + 1].args = Waiting(s, d).args
            /\ \A id \in Ids(s[d + 1].fn) : s[d + 1].remapping[id] = Meant(s[d], Own(Waiting(s, d), id))
        BY <3>1 DEF Linked
      <3> QED
        BY <3>2, <3>3
    <2>4. \A d, e \in 1 .. n - 1 : d < e => Level[t[e].fn] < Level[t[d].fn]
      BY <1>2 DEF Linked
    <2>5. Len(t) = n - 1
      BY <1>2
    <2>6. \A d \in 1 .. (n - 1) - 1 :
            /\ t[d].at # 1 /\ Waiting(t, d).op = "call" /\ Waiting(t, d).callee = t[d + 1].fn
            /\ t[d + 1].args = Waiting(t, d).args
            /\ \A id \in Ids(t[d + 1].fn) : t[d + 1].remapping[id] = Meant(t[d], Own(Waiting(t, d), id))
      BY <2>3
    <2>7. PICK m : m = n - 1
      OBVIOUS
    <2>8. /\ Len(t) = m
          /\ \A d \in 1 .. m : t[d].fn \in Deep /\ t[d].at \in 1 .. Len(Body(t[d].fn)) + 1
          /\ \A d \in 1 .. m - 1 :
            /\ t[d].at # 1 /\ Waiting(t, d).op = "call" /\ Waiting(t, d).callee = t[d + 1].fn
            /\ t[d + 1].args = Waiting(t, d).args
            /\ \A id \in Ids(t[d + 1].fn) : t[d + 1].remapping[id] = Meant(t[d], Own(Waiting(t, d), id))
          /\ \A d, e \in 1 .. m : d < e => Level[t[e].fn] < Level[t[d].fn]
      BY <2>2, <2>4, <2>5, <2>6, <2>7
    <2> QED
      BY <2>1, <2>8, Zenon DEF Linked
  <1>5. ASSUME NEW d \in 1 .. n - 1, d # n - 1
        PROVE  Done(t, d) = Done(s, d) /\ Seen(t, d) = Seen(s, d) /\ Shown(t, d) = Shown(s, d)
    <2>1. Done(t, d) = Done(s, d)
      BY <1>1, <1>2, <1>5 DEF Done
    <2> QED
      BY <1>2, <2>1 DEF Seen, Shown
  <1>6. PICK o : o = Waiting(s, n - 1)
    OBVIOUS
  <1>7. /\ s[n - 1].at # 1 /\ o.op = "call" /\ o.callee = s[n].fn /\ s[n].args = o.args
        /\ \A id \in Ids(s[n].fn) : s[n].remapping[id] = Meant(s[n - 1], Own(o, id))
    <2>1. (n - 1) + 1 = n
      BY <1>1
    <2> QED
      BY <1>1, <1>6, <2>1 DEF Linked
  <1>8. /\ s[n].fn \in Fn /\ s[n].fn \in Deep /\ s[n - 1].fn \in Fn /\ s[n - 1].fn \in Deep
        /\ s[n].at \in Nat /\ s[n].at <= Len(Body(s[n].fn)) + 1 /\ Len(Body(s[n].fn)) \in Nat
        /\ s[n - 1].at \in Nat \ {0} /\ s[n - 1].at <= Len(Body(s[n - 1].fn)) + 1 /\ Len(Body(s[n - 1].fn)) \in Nat
        /\ DOMAIN s[n].remapping = Ids(s[n].fn) /\ DOMAIN s[n - 1].remapping = Ids(s[n - 1].fn)
    BY <1>1, Frames
  <1>9. s[n - 1].at - 1 \in 1 .. Len(Body(s[n - 1].fn))
    BY <1>7, <1>8
  <1>10. o \in Range(Body(s[n - 1].fn))
    BY <1>6, <1>8, <1>9, BodyType, SMTT(30) DEF Waiting
  <1>11. Done(s, n) = Len(Body(s[n].fn)) /\ Seen(s, n) = PairsOf(s[n].fn)
    <2>1. Done(s, n) = Len(Body(s[n].fn))
      BY <1>8 DEF Done
    <2> QED
      BY <1>8, <2>1, NeededAll DEF Seen
  <1>12. /\ Done(s, n - 1) \in Nat /\ Done(t, n - 1) = Done(s, n - 1) + 1
         /\ Done(t, n - 1) = s[n - 1].at - 1
    <2>1. Done(s, n - 1) = s[n - 1].at - 2
      BY <1>1 DEF Done
    <2>2. Done(t, n - 1) = s[n - 1].at - 1
      BY <1>1, <1>2 DEF Done
    <2> QED
      BY <1>7, <1>8, <2>1, <2>2, SMTT(30)
  <1>13. o = Body(s[n - 1].fn)[Done(t, n - 1)]
    BY <1>6, <1>12 DEF Waiting
  <1>14. Seen(t, n - 1) = Seen(s, n - 1) \cup Needs(s[n - 1].fn, o, PairsOf(s[n].fn))
    <2>1. Needed(s[n - 1].fn, Done(s, n - 1) + 1) = Needed(s[n - 1].fn, Done(s, n - 1)) \cup
            Needs(s[n - 1].fn, Body(s[n - 1].fn)[Done(s, n - 1) + 1], PairsOf(Body(s[n - 1].fn)[Done(s, n - 1) + 1].callee))
      BY <1>12, NeededOne
    <2>2. t[n - 1] = s[n - 1]
      BY <1>1, <1>2
    <2> QED
      BY <1>7, <1>12, <1>13, <2>1, <2>2 DEF Seen
  <1>15. ASSUME NEW id \in Operands(s[n].fn) PROVE Meant(s[n], id) = Meant(s[n - 1], Own(o, id))
    <2>1. CASE id \in Ids(s[n].fn)
      BY <1>7, <1>8, <2>1 DEF Meant
    <2>2. CASE id \notin Ids(s[n].fn)
      <3>1. Own(o, id) = id
        BY <1>7, <1>8, <1>10, <2>2, OwnTyped
      <3>2. id \notin Ids(s[n - 1].fn)
        BY <1>8, <2>2, IdsApart DEF Operands
      <3> QED
        BY <1>8, <2>2, <3>1, <3>2 DEF Meant
    <2> QED
      BY <2>1, <2>2
  <1>16. Shown(t, n - 1) = Shown(s, n - 1) \cup Shown(s, n)
    <2> DEFINE m(p) == <<Meant(s[n - 1], p[1]), Meant(s[n - 1], p[2])>>
               called == PairsOf(s[n].fn)
    <2>1. Shown(t, n - 1) = {m(p) : p \in Seen(t, n - 1)} /\ Shown(s, n - 1) = {m(p) : p \in Seen(s, n - 1)}
      <3>1. t[n - 1] = s[n - 1]
        BY <1>1, <1>2
      <3> QED
        BY <3>1 DEF Shown
    <2>2. Shown(t, n - 1) = Shown(s, n - 1) \cup {m(p) : p \in Needs(s[n - 1].fn, o, called)}
      <3> HIDE DEF m, called
      <3> QED
        BY <1>14, <2>1 DEF called
    <2>3. Needs(s[n - 1].fn, o, called) = Owned(o, called)
      BY <1>7, CallNeeds DEF Owned
    <2>4. called \subseteq PairsIn(s[n].fn)
      BY <1>8, NeededAll, PairsClosed
    <2>5. ASSUME NEW p \in called PROVE m(<<Own(o, p[1]), Own(o, p[2])>>) = <<Meant(s[n], p[1]), Meant(s[n], p[2])>>
      <3>1. p[1] \in Operands(s[n].fn) /\ p[2] \in Operands(s[n].fn)
        BY <2>4 DEF PairsIn
      <3>2. PICK a, b : a = Own(o, p[1]) /\ b = Own(o, p[2])
        OBVIOUS
      <3>3. m(<<a, b>>) = <<Meant(s[n - 1], a), Meant(s[n - 1], b)>>
        OBVIOUS
      <3> HIDE DEF m
      <3> QED
        BY <1>15, <3>1, <3>2, <3>3
    <2> HIDE DEF m
    <2>6. {m(p) : p \in Owned(o, called)} = Shown(s, n)
      <3>1. ASSUME NEW x \in {m(p) : p \in Owned(o, called)} PROVE x \in Shown(s, n)
        <4>1. PICK q \in Owned(o, called) : x = m(q)
          OBVIOUS
        <4>2. PICK p \in called : q = <<Own(o, p[1]), Own(o, p[2])>>
          BY DEF Owned
        <4> QED
          BY <1>11, <2>5, <4>1, <4>2 DEF Shown
      <3>2. ASSUME NEW x \in Shown(s, n) PROVE x \in {m(p) : p \in Owned(o, called)}
        <4>1. PICK p \in called : x = <<Meant(s[n], p[1]), Meant(s[n], p[2])>>
          BY <1>11 DEF Shown
        <4>2. PICK q : q = <<Own(o, p[1]), Own(o, p[2])>>
          OBVIOUS
        <4>3. q \in Owned(o, called)
          BY <4>2 DEF Owned
        <4> QED
          BY <2>5, <4>1, <4>2, <4>3
      <3> QED
        BY <3>1, <3>2
    <2> QED
      BY <2>2, <2>3, <2>6
  <1>17. \A d \in 1 .. n - 1 : t[d] = s[d]
    BY <1>2
  <1>18. Returned(s, t, n, o)
    BY <1>1, <1>2, <1>3, <1>4, <1>5, <1>7, <1>8, <1>10, <1>11, <1>12, <1>13, <1>14, <1>16, <1>17 DEF Returned
  <1> QED
    BY <1>6, <1>18

LEMMA ReturnShows ==
  ASSUME NEW s, NEW t, NEW n, NEW o, Returned(s, t, n, o), NEW list, ImagesShown(s, list)
  PROVE  ImagesShown(t, list)
  <1>1. /\ n \in Nat /\ n > 1 /\ n = Len(s) /\ Len(t) = n - 1
        /\ \A d \in 1 .. n - 1 : d # n - 1 => Shown(t, d) = Shown(s, d)
        /\ Shown(t, n - 1) = Shown(s, n - 1) \cup Shown(s, n)
    BY DEF Returned
  <1>2. 1 .. n = (1 .. n - 1) \cup {n} /\ n - 1 \in 1 .. n - 1
    BY <1>1
  <1>3. UNION {Shown(t, d) : d \in 1 .. n - 1} = UNION {Shown(s, d) : d \in 1 .. n}
    <2>1. ASSUME NEW x, NEW d \in 1 .. n - 1, x \in Shown(t, d) PROVE \E e \in 1 .. n : x \in Shown(s, e)
      <3>1. x \in Shown(s, d) \/ x \in Shown(s, n)
        BY <1>1, <2>1
      <3> QED
        BY <1>2, <3>1
    <2>2. ASSUME NEW x, NEW d \in 1 .. n, x \in Shown(s, d) PROVE \E e \in 1 .. n - 1 : x \in Shown(t, e)
      <3>1. CASE d = n
        BY <1>1, <1>2, <2>2, <3>1
      <3>2. CASE d # n
        BY <1>1, <1>2, <2>2, <3>2
      <3> QED
        BY <3>1, <3>2
    <2>3. \A x : (\E d \in 1 .. n - 1 : x \in Shown(t, d)) <=> (\E d \in 1 .. n : x \in Shown(s, d))
      BY <2>1, <2>2
    <2> QED
      BY <2>3
  <1> QED
    BY <1>1, <1>3 DEF ImagesShown

\* The lists of parameters after a return from the innermost call, of n.
Collected(params, open, s, n) ==
  IF n > 2 /\ open[s[n - 1].fn] THEN HandedUp(params, s[n].fn, s[n].args, s[n - 1].fn) ELSE params

LEMMA ReturnSees ==
  ASSUME shader \in Shaders, NEW s, NEW t, NEW n, NEW o, Returned(s, t, n, o),
         NEW params, NEW open, ListsTyped(params, open), ListsSeen(s, params, open),
         NEW handed, handed = Collected(params, open, s, n),
         NEW left, left = [open EXCEPT ![s[n].fn] = FALSE]
  PROVE  ListsTyped(handed, left) /\ ListsSeen(t, handed, left)
  <1>1. /\ n \in Nat /\ n > 1 /\ n \in 1 .. n /\ n - 1 \in 1 .. n /\ n - 1 \in 1 .. n - 1 /\ n = Len(s) /\ Len(t) = n - 1
        /\ Stack(s) /\ Linked(s)
        /\ \A d \in 1 .. n - 1 : t[d] = s[d] /\ d \in 1 .. n
        /\ \A d \in 1 .. n - 1 : d # n - 1 => Done(t, d) = Done(s, d) /\ Seen(t, d) = Seen(s, d)
    BY DEF Returned
  <1>2. PICK callee, caller : callee = s[n].fn /\ caller = s[n - 1].fn
    OBVIOUS
  <1>3. /\ o.op = "call" /\ o.callee = callee /\ s[n].args = o.args
        /\ caller \in Deep /\ callee \in Deep /\ o \in Range(Body(caller))
        /\ caller \in Fn /\ callee \in Fn
        /\ Done(s, n) = Len(Body(callee)) /\ Seen(s, n) = PairsOf(callee)
        /\ Done(s, n - 1) \in Nat /\ Done(t, n - 1) = Done(s, n - 1) + 1
        /\ o = Body(caller)[Done(t, n - 1)]
        /\ Seen(t, n - 1) = Seen(s, n - 1) \cup Needs(caller, o, PairsOf(callee))
    BY <1>2 DEF Returned, Deep
  <1>4. caller # callee /\ \A d \in 1 .. n - 1 : s[d].fn \in Fn /\ s[d].fn # callee /\ (d # n - 1 => s[d].fn # caller)
    <2>1. ASSUME NEW d \in 1 .. n - 1 PROVE s[d].fn \in Fn /\ s[d].fn # callee /\ (d # n - 1 => s[d].fn # caller)
      <3>1. d \in 1 .. n /\ d # n
        BY <1>1
      <3>2. s[d].fn \in Fn
        BY <1>1, <3>1, Frames
      <3>3. s[d].fn # callee
        BY <1>1, <1>2, <3>1, FramesApart
      <3>4. d # n - 1 => s[d].fn # caller
        BY <1>1, <1>2, <3>1, FramesApart
      <3> QED
        BY <3>2, <3>3, <3>4
    <2> QED
      BY <1>1, <1>2, <2>1
  <1>5. /\ params \in ParameterLists /\ open \in [Fn -> BOOLEAN] /\ \A f \in Fn : IsInjective(params[f])
        /\ left \in [Fn -> BOOLEAN] /\ ~left[callee] /\ \A f \in Fn : f # callee => left[f] = open[f]
    BY <1>2, <1>3 DEF ListsTyped
  <1>6. \A f \in Fn : ~open[f] => ~left[f]
    BY <1>5
  \* The callee's list is complete, if this was its first call or another.
  <1>7. Complete(params, left, callee)
    <2>1. CASE ~open[callee]
      <3>1. Complete(params, open, callee)
        BY <1>3, <2>1 DEF ListsSeen
      <3>2. \A q \in Range(Body(callee)) : q.op = "call" => q.callee \in Fn
        BY <1>3, Leveled DEF Deep
      <3> QED
        BY <1>6, <3>1, <3>2 DEF Complete
    <2>2. CASE open[callee]
      <3>1. Range(params[callee]) = Local(callee, PairsOf(callee))
        BY <1>1, <1>2, <1>3, <2>2 DEF ListsSeen
      <3>2. \A q \in Range(Body(callee)) : q.op = "call" => ~open[q.callee] /\ q.callee \in Fn
        <4>1. \A i \in 1 .. Len(Body(callee)) : Body(callee)[i].op = "call" => ~open[Body(callee)[i].callee]
          BY <1>1, <1>2, <1>3 DEF ListsSeen
        <4>2. Range(Body(callee)) = {Body(callee)[i] : i \in 1 .. Len(Body(callee))}
          BY <1>3, BodyType
        <4>3. \A q \in Range(Body(callee)) : q.op = "call" => q.callee \in Fn
          BY <1>3, Leveled DEF Deep
        <4> QED
          BY <4>1, <4>2, <4>3
      <3> QED
        BY <1>3, <1>6, <3>1, <3>2 DEF Complete
    <2> QED
      BY <2>1, <2>2
  <1>8. Range(params[callee]) = Local(callee, PairsOf(callee))
    BY <1>7 DEF Complete
  \* The caller's is handed what the call needs.
  <1>9. IF n > 2 /\ open[caller] THEN Grown(handed, params, caller, Handed(o.args, Local(callee, PairsOf(callee))))
        ELSE handed = params
    <2> SUFFICES ASSUME n > 2, open[caller]
                 PROVE  Grown(handed, params, caller, Handed(o.args, Local(callee, PairsOf(callee))))
      BY <1>2 DEF Collected
    <2>1. handed = HandedUp(params, callee, o.args, caller)
      BY <1>2, <1>3 DEF Collected
    <2>2. PairsOf(callee) \in SUBSET PairsIn(callee)
      BY <1>3, PairsClosed
    <2>3. \A p \in Range(params[callee]) :
            Operand(o.args, p.image) \in Operands(caller) /\ Operand(o.args, p.sampler) \in Operands(caller)
      <3>1. PairsOf(callee) \in SUBSET PairsIn(o.callee)
        BY <1>3, <2>2
      <3>2. \A p \in Local(o.callee, PairsOf(callee)) :
              Operand(o.args, p.image) \in Operands(caller) /\ Operand(o.args, p.sampler) \in Operands(caller)
        BY <1>3, <3>1, HandedNeeds
      <3> QED
        BY <1>3, <1>8, <3>2
    <2>4. Grown(handed, params, caller, Handed(o.args, Range(params[callee])))
      BY <1>3, <1>5, <2>1, <2>3, HandedUpAll
    <2> QED
      BY <1>8, <2>4
  <1>10. /\ handed \in ParameterLists /\ \A f \in Fn : IsInjective(handed[f])
         /\ \A f \in Fn : f # caller \/ ~open[f] \/ ~(n > 2) => handed[f] = params[f]
    BY <1>3, <1>5, <1>9 DEF Grown
  <1>11. ASSUME NEW f \in Fn, ~left[f] PROVE Complete(handed, left, f)
    <2>1. Complete(params, left, f) /\ handed[f] = params[f]
      <3>1. CASE f = callee
        BY <1>4, <1>7, <1>10, <3>1
      <3>2. CASE f # callee
        <4>1. ~open[f] /\ Complete(params, open, f)
          BY <1>5, <1>11, <3>2 DEF ListsSeen
        <4>2. \A q \in Range(Body(f)) : q.op = "call" => q.callee \in Fn
          BY <4>1, Leveled DEF Complete, Deep
        <4> QED
          BY <1>6, <1>10, <4>1, <4>2 DEF Complete
      <3> QED
        BY <3>1, <3>2
    <2> QED
      BY <2>1 DEF Complete
  <1>12. ASSUME NEW d \in 1 .. n - 1, d # 1, left[t[d].fn]
         PROVE  Range(handed[t[d].fn]) = Local(t[d].fn, Seen(t, d))
    <2>1. t[d].fn = s[d].fn /\ s[d].fn \in Fn /\ open[s[d].fn] /\ d \in 1 .. n
      BY <1>1, <1>4, <1>5, <1>12
    <2>2. Range(params[s[d].fn]) = Local(s[d].fn, Seen(s, d))
      BY <1>1, <1>12, <2>1 DEF ListsSeen
    <2>3. CASE d = n - 1
      <3>1. n > 2 /\ open[caller]
        BY <1>1, <1>2, <1>12, <2>1, <2>3
      <3>2. Range(handed[caller]) = Range(params[caller]) \cup Local(caller, Handed(o.args, Local(callee, PairsOf(callee))))
        BY <1>9, <3>1 DEF Grown
      <3>3. Local(caller, Handed(o.args, Local(callee, PairsOf(callee)))) = Local(caller, Needs(caller, o, PairsOf(callee)))
        <4>1. PairsOf(callee) \in SUBSET PairsIn(callee)
          BY <1>3, PairsClosed
        <4> QED
          BY <1>3, <4>1, HandedNeeds
      <3>4. Local(caller, Seen(t, d)) = Local(caller, Seen(s, d)) \cup Local(caller, Needs(caller, o, PairsOf(callee)))
        BY <1>3, <2>3, LocalJoins
      <3> QED
        BY <1>2, <2>1, <2>2, <2>3, <3>2, <3>3, <3>4
    <2>4. CASE d # n - 1
      BY <1>1, <1>4, <1>10, <2>1, <2>2, <2>4
    <2> QED
      BY <2>3, <2>4
  <1>13. ASSUME NEW d \in 1 .. n - 1, NEW i \in 1 .. Done(t, d), Body(t[d].fn)[i].op = "call"
         PROVE  ~left[Body(t[d].fn)[i].callee]
    <2>1. CASE d = n - 1 /\ i = Done(t, d)
      BY <1>1, <1>2, <1>3, <1>5, <2>1
    <2>2. CASE ~(d = n - 1 /\ i = Done(t, d))
      <3>1. i \in 1 .. Done(s, d) /\ t[d] = s[d] /\ d \in 1 .. n
        <4>1. CASE d = n - 1
          <5>1. Done(t, d) = Done(s, d) + 1 /\ Done(s, d) \in Nat
            BY <1>3, <4>1
          <5> QED
            BY <1>1, <2>2, <4>1, <5>1
        <4>2. CASE d # n - 1
          BY <1>1, <4>2
        <4> QED
          BY <4>1, <4>2
      <3>2. ~open[Body(s[d].fn)[i].callee]
        BY <1>1, <1>13, <3>1 DEF ListsSeen
      <3> QED
        BY <1>5, <3>1, <3>2
    <2> QED
      BY <2>1, <2>2
  <1>14. ASSUME NEW f \in Fn, left[f], ~Runs(t, f) PROVE handed[f] = << >>
    <2>1. f # callee /\ open[f]
      BY <1>5, <1>14
    <2>2. ~Runs(s, f)
      <3> SUFFICES ASSUME NEW d \in 1 .. n, d # 1, s[d].fn = f PROVE FALSE
        BY <1>1 DEF Runs
      <3>1. d \in 1 .. n - 1
        BY <1>1, <1>2, <2>1
      <3> QED
        BY <1>1, <1>14, <3>1 DEF Runs
    <2>3. params[f] = << >>
      BY <2>1, <2>2 DEF ListsSeen
    <2>4. f # caller \/ ~(n > 2)
      BY <1>1, <1>2, <1>14 DEF Runs
    <2> QED
      BY <1>10, <2>3, <2>4
  <1> QED
    BY <1>1, <1>5, <1>10, <1>11, <1>12, <1>13, <1>14 DEF ListsTyped, ListsSeen

-------------------------------------------------------------------------------
(* The steps *)

\* What is true of the running traversal.
LEMMA Running ==
  ASSUME shader \in Shaders, StackTyped, CombineInv, phase = "combine"
  PROVE  /\ Stack(stack) /\ Linked(stack) /\ ImagesShown(stack, combined_image_samplers)
         /\ ListsTyped(combined_parameters, do_combined_parameters)
         /\ ListsSeen(stack, combined_parameters, do_combined_parameters)
         /\ \A id : RemapParameter(id) = Meant(stack[Len(stack)], id)
         /\ AtOp => IsAt(stack, Len(stack), Op)
  BY DEF StackTyped, CombineInv, Stack, RemapParameter, Meant, Top, AtOp, IsAt, Op

\* The invariant after a step, by what the step makes of its parts.
LEMMA Keeps ==
  ASSUME UNCHANGED shader, NEW s, NEW list, NEW params, NEW open,
         s = stack', list = combined_image_samplers', params = combined_parameters', open = do_combined_parameters',
         Linked(s), ImagesShown(s, list), ListsTyped(params, open), ListsSeen(s, params, open)
  PROVE  CombineInv'
  <1>1. Linked(s)' /\ ImagesShown(s, list)' /\ ListsTyped(params, open)' /\ ListsSeen(s, params, open)'
    BY SameReading
  <1> QED
    BY <1>1 DEF CombineInv

LEMMA BeginKeeps ==
  ASSUME shader \in Shaders, BuildDummySampler
  PROVE  CombineInv'
  <1>1. PICK g : g = [fn |-> shader.entry, at |-> 1, args |-> << >>, remapping |-> << >>]
    OBVIOUS
  <1> DEFINE s == <<g>>
             params == [f \in Fn |-> << >>]
             open == [f \in Fn |-> TRUE]
  <1>2. /\ UNCHANGED shader /\ stack' = s /\ combined_image_samplers' = << >>
        /\ combined_parameters' = params /\ do_combined_parameters' = open
    BY <1>1 DEF BuildDummySampler
  <1>3. Len(s) = 1 /\ s[1] = g /\ \A d \in 1 .. Len(s) : d = 1
    OBVIOUS
  <1>4. shader.entry \in Deep /\ shader.entry \in Fn /\ Len(Body(shader.entry)) \in Nat
    BY Leveled, BodyType DEF Deep
  <1> HIDE DEF s
  <1>5. Linked(s)
    <2>1. \A d \in 1 .. Len(s) - 1 : FALSE
      BY <1>3
    <2> QED
      BY <1>1, <1>3, <1>4, <2>1 DEF Linked
  <1>6. Done(s, 1) = 0 /\ Seen(s, 1) = {} /\ Shown(s, 1) = {}
    <2>1. Done(s, 1) = 0
      BY <1>1, <1>3 DEF Done
    <2>2. Seen(s, 1) = {}
      BY <2>1 DEF Seen, Needed
    <2> QED
      BY <2>1, <2>2 DEF Shown
  <1>7. ImagesShown(s, << >>)
    <2>1. PairsListed(<< >>) = {} /\ IsInjective(<< >>)
      BY DEF PairsListed, Range, IsInjective
    <2>2. UNION {Shown(s, d) : d \in 1 .. Len(s)} = {}
      BY <1>3, <1>6
    <2> QED
      BY <2>1, <2>2 DEF ImagesShown
  <1>8. ListsTyped(params, open)
    <2>1. << >> \in Seq(UNION {Sides(f) : f \in Fn}) /\ IsInjective(<< >>)
      BY DEF IsInjective
    <2> QED
      BY <2>1 DEF ListsTyped, ParameterLists
  <1>9. ListsSeen(s, params, open)
    <2>1. \A d \in 1 .. Len(s) : \A i \in 1 .. Done(s, d) : FALSE
      BY <1>3, <1>6
    <2> QED
      BY <1>3, <2>1 DEF ListsSeen
  <1> HIDE DEF params, open
  <1> QED
    BY <1>2, <1>5, <1>7, <1>8, <1>9, Keeps

\* A sampling, or a fetch with the dummy sampler.
LEMMA CombineKeepsInv ==
  ASSUME shader \in Shaders, StackTyped, PairsTyped, CombineInv, AtOp,
         NEW image, NEW own, NEW sampler, Combine(image, own, sampler),
         IsOfKind(shader, Top.fn, image, "image"), own \in Operands(Top.fn), sampler = RemapParameter(own),
         sampler \in Globals \cup {Dummy}, Op.op # "call",
         Needs(Top.fn, Op, PairsOf(Op.callee)) = {<<image, own>>}
  PROVE  CombineInv'
  <1>1. phase = "combine"
    BY DEF AtOp
  <1>2. PICK s, n, o, list, params, open :
          /\ s = stack /\ n = Len(stack) /\ o = Op /\ list = combined_image_samplers
          /\ params = combined_parameters /\ open = do_combined_parameters
    OBVIOUS
  <1>3. /\ Stack(s) /\ Linked(s) /\ ImagesShown(s, list) /\ ListsTyped(params, open) /\ ListsSeen(s, params, open)
        /\ IsAt(s, n, o) /\ Top = s[n] /\ \A id : RemapParameter(id) = Meant(s[n], id)
    BY <1>1, <1>2, Running DEF Top
  <1>4. Top.fn \in Fn /\ IsBoundTo(Top.remapping, Top.fn) /\ n \in Nat \ {0}
    BY <1>2, TopTyped
  <1>5. PICK t : t = Advanced(s)
    OBVIOUS
  <1>6. PICK c : c = [image |-> Meant(s[n], image), sampler |-> Meant(s[n], own)]
    OBVIOUS
  <1>7. c = [image |-> RemapParameter(image), sampler |-> sampler] /\ c \in Pair
    <2>1. "image" \in Kinds
      BY DEF Kinds
    <2>2. RemapParameter(image) \in Globals /\ shader.globals[RemapParameter(image)].kind = "image"
      BY <1>4, <2>1, RemapTyped
    <2> QED
      BY <1>3, <1>6, <2>2 DEF Pair
  <1>8. /\ UNCHANGED shader /\ stack' = t /\ do_combined_parameters' = open
        /\ combined_image_samplers' = IF c \in Range(list) THEN list ELSE Append(list, c)
        /\ combined_parameters' = Listed(params, open, s[n].fn, n, image, own)
    BY <1>2, <1>3, <1>5, <1>7 DEF Listed, Combine, KnownPair, InFunction
  <1>9. PICK more, moreParams :
          /\ more = IF c \in Range(list) THEN list ELSE Append(list, c)
          /\ moreParams = Listed(params, open, s[n].fn, n, image, own)
    OBVIOUS
  <1>10. image \in Operands(s[n].fn) /\ own \in Operands(s[n].fn)
    BY <1>3, <1>4, OperandsTyped DEF Operands
  <1>11. Needs(s[n].fn, o, PairsOf(o.callee)) = {<<image, own>>} /\ o.op # "call" /\ list \in Seq(Pair)
    BY <1>2, <1>3 DEF PairsTyped
  <1>12. ImagesShown(t, more)
    BY <1>3, <1>5, <1>6, <1>7, <1>9, <1>11, CombineShows
  <1>13. ListsTyped(moreParams, open) /\ ListsSeen(t, moreParams, open)
    <2>1. Samples(s[n].fn, o, image, own)
      BY <1>10, <1>11 DEF Samples
    <2> QED
      BY <1>3, <1>5, <1>9, <2>1, CombineListed
  <1>14. Linked(t)
    BY <1>3, <1>5, AdvancedLinked DEF IsAt
  <1> QED
    BY <1>8, <1>9, <1>12, <1>13, <1>14, Keeps

LEMMA SkipKeeps ==
  ASSUME shader \in Shaders, StackTyped, CombineInv, FetchBuffer
  PROVE  CombineInv'
  <1>1. AtOp /\ phase = "combine" /\ Op.op = "fetch" /\ ~FetchesImage(Top.fn, Op)
    BY DEF FetchBuffer, AtOp, FetchesImage
  <1>2. PICK s, n, o, list, params, open :
          /\ s = stack /\ n = Len(stack) /\ o = Op /\ list = combined_image_samplers
          /\ params = combined_parameters /\ open = do_combined_parameters
    OBVIOUS
  <1>3. /\ Stack(s) /\ Linked(s) /\ ImagesShown(s, list) /\ ListsTyped(params, open) /\ ListsSeen(s, params, open)
        /\ IsAt(s, n, o) /\ Top = s[n]
    BY <1>1, <1>2, Running DEF Top
  <1>4. PICK t : t = Advanced(s)
    OBVIOUS
  <1>5. /\ UNCHANGED shader /\ stack' = t /\ combined_image_samplers' = list
        /\ combined_parameters' = params /\ do_combined_parameters' = open
    BY <1>2, <1>4 DEF FetchBuffer
  <1>6. Needs(s[n].fn, o, PairsOf(o.callee)) = {} /\ o.op # "call"
    BY <1>1, <1>2, <1>3 DEF Needs
  <1>7. ImagesShown(t, list) /\ ListsSeen(t, params, open)
    BY <1>3, <1>4, <1>6, SkipSees
  <1>8. Linked(t)
    BY <1>3, <1>4, AdvancedLinked DEF IsAt
  <1> QED
    BY <1>3, <1>5, <1>7, <1>8, Keeps

\* The parameters of a call mean what the caller's operands mean.
LEMMA CallMeans ==
  ASSUME shader \in Shaders, StackTyped, CombineInv, Call, NEW n \in Nat, n = Len(stack)
  PROVE  \E g \in Frame :
           /\ stack' = Append(Advanced(stack), g)
           /\ g.fn = Op.callee /\ g.at = 1 /\ g.args = Op.args
           /\ \A id \in Ids(Op.callee) : g.remapping[id] = Meant(stack[n], Own(Op, id))
  <1>1. AtOp /\ phase = "combine" /\ Op.op = "call"
    BY DEF Call, AtOp
  <1>2. PICK r, g : r = stack'[n + 1].remapping /\ g = [fn |-> Op.callee, at |-> 1, args |-> Op.args, remapping |-> r]
    OBVIOUS
  <1>3. stack' = Append(Advanced(stack), g) /\ r \in [Ids(Op.callee) -> Globals]
    BY <1>2, CallBinds
  <1>4. Op.callee \in Fn /\ Top.fn \in Fn /\ Top.at \in Calls(Top.fn)
    BY <1>1, TopTyped DEF Calls, Op
  <1>5. g \in Frame
    <2>1. Op.args \in UNION {{Body(f)[k].args : k \in Calls(f)} : f \in Fn}
      BY <1>4 DEF Op
    <2>2. r \in UNION {[Ids(f) -> Globals] : f \in Fn}
      BY <1>3, <1>4
    <2> QED
      BY <1>2, <1>4, <2>1, <2>2 DEF Frame
  <1>6. g.fn = Op.callee /\ g.at = 1 /\ g.args = Op.args /\ g.remapping = r
    BY <1>2
  <1>7. PICK c, args : c = Op.callee /\ args = Op.args
    OBVIOUS
  <1> DEFINE value(id) == RemapParameter(args[CHOOSE k \in ArgumentsNamed(c, id) : TRUE])
             m == [id \in Ids(c) |-> value(id)]
             top == [fn |-> c, at |-> 1, args |-> args, remapping |-> m]
  <1>8. stack' = Append(Advanced(stack), top)
    BY <1>7 DEF Call, Ids
  <1>9. Advanced(stack) \in Seq(Frame) /\ Len(Advanced(stack)) = n
    BY <1>1, AdvancedTyped DEF StackTyped
  <1>10. r = m
    <2>1. top.remapping = m
      OBVIOUS
    <2> HIDE DEF top
    <2>2. \A S, q, x : q \in Seq(S) => Append(q, x)[Len(q) + 1] = x
      OBVIOUS
    <2>3. stack'[n + 1] = top
      BY <1>8, <1>9, <2>2
    <2> QED
      BY <1>2, <2>1, <2>3
  <1>11. ASSUME NEW id \in Ids(c) PROVE r[id] = Meant(stack[n], Own(Op, id))
    <2>1. ArgumentsNamed(c, id) # {}
      BY <1>11 DEF Ids, ArgumentsNamed
    <2>2. Own(Op, id) = args[CHOOSE k \in ArgumentsNamed(c, id) : TRUE]
      BY <1>7, <2>1 DEF Own
    <2>3. \A x : RemapParameter(x) = Meant(stack[n], x)
      BY <1>1, Running
    <2> HIDE DEF value
    <2>4. r[id] = value(id)
      BY <1>10
    <2> QED
      BY <2>2, <2>3, <2>4 DEF value
  <1> QED
    BY <1>3, <1>5, <1>6, <1>7, <1>11

LEMMA CallKeeps ==
  ASSUME shader \in Shaders, StackTyped, CombineInv, Call
  PROVE  CombineInv'
  <1>1. AtOp /\ phase = "combine" /\ Op.op = "call"
    BY DEF Call, AtOp
  <1>2. PICK s, n, o, list, params, open :
          /\ s = stack /\ n = Len(stack) /\ o = Op /\ list = combined_image_samplers
          /\ params = combined_parameters /\ open = do_combined_parameters
    OBVIOUS
  <1>3. /\ Stack(s) /\ Linked(s) /\ ImagesShown(s, list) /\ ListsTyped(params, open) /\ ListsSeen(s, params, open)
        /\ IsAt(s, n, o) /\ o.op = "call" /\ n \in Nat
    BY <1>1, <1>2, Running, TopTyped
  <1>4. PICK g \in Frame :
          /\ stack' = Append(Advanced(s), g)
          /\ g.fn = o.callee /\ g.at = 1 /\ g.args = o.args
          /\ \A id \in Ids(o.callee) : g.remapping[id] = Meant(s[n], Own(o, id))
    BY <1>2, <1>3, CallMeans
  <1>5. PICK t : t = Append(Advanced(s), g)
    OBVIOUS
  <1>6. /\ UNCHANGED shader /\ stack' = t /\ combined_image_samplers' = list
        /\ combined_parameters' = params /\ do_combined_parameters' = open
    BY <1>2, <1>4, <1>5 DEF Call
  <1>7. Linked(t) /\ \A d \in 1 .. n : s[d].fn # o.callee
    BY <1>3, <1>4, <1>5, CallLinked
  <1>8. Entered(s, t, n, g) /\ ~Runs(s, o.callee)
    <2>1. ~Runs(s, o.callee)
      BY <1>3, <1>7 DEF Runs, IsAt
    <2> QED
      BY <1>3, <1>4, <1>5, <2>1, CallFrames
  <1>9. ImagesShown(t, list) /\ ListsSeen(t, params, open)
    BY <1>3, <1>4, <1>8, CallSees
  <1> QED
    BY <1>3, <1>6, <1>7, <1>9, Keeps

LEMMA ReturnKeeps ==
  ASSUME shader \in Shaders, StackTyped, CombineInv, Return
  PROVE  CombineInv'
  <1>1. phase = "combine" /\ Top.at > Len(Body(Top.fn)) /\ InFunction
    BY DEF Return
  <1>2. PICK s, n, list, params, open :
          /\ s = stack /\ n = Len(stack) /\ list = combined_image_samplers
          /\ params = combined_parameters /\ open = do_combined_parameters
    OBVIOUS
  <1>3. /\ Stack(s) /\ Linked(s) /\ ImagesShown(s, list) /\ ListsTyped(params, open) /\ ListsSeen(s, params, open)
        /\ n = Len(s) /\ n > 1 /\ Top = s[n] /\ Caller = s[n - 1]
    BY <1>1, <1>2, Running DEF Top, Caller, InFunction
  <1>4. PICK o : o = Waiting(s, n - 1)
    OBVIOUS
  <1>5. PICK t, handed, left :
          /\ t = SubSeq(s, 1, n - 1)
          /\ handed = Collected(params, open, s, n)
          /\ left = [open EXCEPT ![s[n].fn] = FALSE]
    OBVIOUS
  <1>6. /\ UNCHANGED shader /\ stack' = t /\ combined_image_samplers' = list
        /\ combined_parameters' = handed /\ do_combined_parameters' = left
    BY <1>2, <1>3, <1>5 DEF Return, Collects, Collected
  <1>7. Returned(s, t, n, o)
    BY <1>1, <1>3, <1>4, <1>5, ReturnFrames
  <1>8. Linked(t)
    BY <1>7 DEF Returned
  <1>9. ImagesShown(t, list)
    BY <1>3, <1>7, ReturnShows
  <1>10. ListsTyped(handed, left) /\ ListsSeen(t, handed, left)
    BY <1>3, <1>5, <1>7, ReturnSees
  <1> QED
    BY <1>6, <1>8, <1>9, <1>10, Keeps

\* Every step of the traversal keeps the invariant.
LEMMA TraversalKeeps ==
  ASSUME shader \in Shaders, StackTyped, PairsTyped, CombineInv, CombineImages
  PROVE  CombineInv'
  <1>1. CASE BuildDummySampler
    BY <1>1, BeginKeeps
  <1>2. CASE Sample
    <2>1. AtOp /\ Op.op = "sample" /\ Combine(Op.image, Op.sampler, RemapParameter(Op.sampler))
      BY <1>2 DEF Sample
    <2>2. /\ IsOfKind(shader, Top.fn, Op.image, "image") /\ IsOfKind(shader, Top.fn, Op.sampler, "sampler")
          /\ Top.fn \in Fn /\ IsBoundTo(Top.remapping, Top.fn)
      BY <2>1, TopTyped
    <2>3. RemapParameter(Op.sampler) \in Globals \cup {Dummy}
      <3>1. "sampler" \in Kinds
        BY DEF Kinds
      <3> QED
        BY <2>2, <3>1, RemapTyped
    <2>4. Op.sampler \in Operands(Top.fn)
      BY <2>2, OperandsTyped DEF Operands
    <2>5. Needs(Top.fn, Op, PairsOf(Op.callee)) = {<<Op.image, Op.sampler>>} /\ Op.op # "call"
      BY <2>1 DEF Needs, FetchesImage
    <2> QED
      BY <2>1, <2>2, <2>3, <2>4, <2>5, CombineKeepsInv
  <1>3. CASE Fetch
    <2>1. AtOp /\ FetchesImage(Top.fn, Op) /\ Combine(Op.image, Dummy, Dummy)
      BY <1>3 DEF Fetch
    <2>2. /\ IsOfKind(shader, Top.fn, Op.image, "image")
          /\ Top.fn \in Fn /\ IsBoundTo(Top.remapping, Top.fn)
      BY <2>1, TopTyped
    <2>3. Dummy = RemapParameter(Dummy)
      BY <2>2, IdsApart DEF IsBoundTo, RemapParameter
    <2>4. Dummy \in Operands(Top.fn) /\ Dummy \in Globals \cup {Dummy}
      BY DEF Operands
    <2>5. Needs(Top.fn, Op, PairsOf(Op.callee)) = {<<Op.image, Dummy>>} /\ Op.op # "call"
      BY <2>1 DEF Needs, FetchesImage
    <2> QED
      BY <2>1, <2>2, <2>3, <2>4, <2>5, CombineKeepsInv
  <1>4. CASE FetchBuffer
    BY <1>4, SkipKeeps
  <1>5. CASE Throw \/ EndTraversal
    BY <1>5 DEF Throw, EndTraversal, CombineInv
  <1>6. CASE Call
    BY <1>6, CallKeeps
  <1>7. CASE Return
    BY <1>7, ReturnKeeps
  <1> QED
    BY <1>1, <1>2, <1>3, <1>4, <1>5, <1>6, <1>7 DEF CombineImages, BuildCombinedImageSamplers

-------------------------------------------------------------------------------
(* The end of the traversal *)

\* What CombinedExact says of a traversal that was made.
Exactly ==
  /\ PairsListed(combined_image_samplers) = PairsOf(shader.entry)
  /\ IsInjective(combined_image_samplers)
  /\ \A f \in Reachable \ {shader.entry} :
       Range(combined_parameters[f]) = ParametersOf(f) /\ IsInjective(combined_parameters[f])

LEMMA ExactlyStays ==
  ASSUME UNCHANGED <<shader, traversal>>
  PROVE  Exactly' = Exactly
  <1>1. UNCHANGED shader /\ UNCHANGED combined_image_samplers /\ UNCHANGED combined_parameters
    BY DEF traversal
  <1>2. Pairs' = Pairs /\ Reached' = Reached
    BY <1>1, RecursionsStay
  <1>3. \A f : PairsOf(f)' = PairsOf(f)
    BY <1>1, <1>2 DEF PairsOf
  <1>4. Reachable' = Reachable
    BY <1>1, <1>2 DEF Reachable
  <1>5. \A f : ParametersOf(f)' = ParametersOf(f)
    BY <1>1, <1>3 DEF ParametersOf, Parameter, ArgumentsNamed, Function
  <1> QED
    BY <1>1, <1>3, <1>4, <1>5 DEF Exactly, PairsListed

\* The entry point has seen all it needs, and what it reaches has returned.
LEMMA EndExact ==
  ASSUME shader \in Shaders, StackTyped, CombineInv, EndTraversal
  PROVE  Exactly
  <1>1. phase = "combine" /\ Top.at > Len(Body(Top.fn)) /\ ~InFunction
    BY DEF EndTraversal
  <1>2. PICK s, list, params, open, entry :
          /\ s = stack /\ list = combined_image_samplers
          /\ params = combined_parameters /\ open = do_combined_parameters /\ entry = shader.entry
    OBVIOUS
  <1>3. /\ Stack(s) /\ Linked(s) /\ ImagesShown(s, list) /\ ListsTyped(params, open) /\ ListsSeen(s, params, open)
    BY <1>1, <1>2, Running
  <1>4. Len(s) = 1 /\ 1 \in 1 .. Len(s) /\ s[1].fn = entry /\ s[1].at > Len(Body(entry))
    <2>1. Len(s) \in Nat \ {0}
      BY <1>3, Frames
    <2>2. Len(s) = 1
      BY <1>1, <1>2, <2>1, SMTT(30) DEF InFunction
    <2>3. s[1].fn = entry
      BY <1>2, <1>3 DEF Linked
    <2> QED
      BY <1>1, <1>2, <2>2, <2>3 DEF Top
  <1>5. /\ entry \in Deep /\ entry \in Fn /\ Len(Body(entry)) \in Nat
        /\ s[1].at = Len(Body(entry)) + 1 /\ DOMAIN s[1].remapping = Ids(entry)
    <2>1. s[1].fn \in Deep /\ s[1].fn \in Fn /\ s[1].at \in Nat /\ s[1].at <= Len(Body(s[1].fn)) + 1
          /\ Len(Body(s[1].fn)) \in Nat /\ DOMAIN s[1].remapping = Ids(s[1].fn)
      BY <1>3, <1>4, Frames
    <2> QED
      BY <1>4, <2>1
  <1>6. Done(s, 1) = Len(Body(entry)) /\ Seen(s, 1) = PairsOf(entry)
    <2>1. Done(s, 1) = Len(Body(entry))
      BY <1>4, <1>5 DEF Done
    <2> QED
      BY <1>4, <1>5, <2>1, NeededAll DEF Seen
  <1>7. PairsListed(list) = PairsOf(entry) /\ IsInjective(list)
    <2>1. Ids(entry) = {}
      <3>1. Function(entry).arguments = << >>
        BY <1>2, OperandsAssumption, Zenon DEF Function
      <3>2. DOMAIN << >> = {}
        OBVIOUS
      <3> QED
        BY <3>1, <3>2, Zenon DEF Ids
    <2>2. \A id : Meant(s[1], id) = id
      BY <1>5, <2>1 DEF Meant
    <2>3. PairsOf(entry) \subseteq PairsIn(entry)
      BY <1>5, PairsClosed
    <2>4. \A p \in PairsOf(entry) : <<p[1], p[2]>> = p
      BY <2>3 DEF PairsIn
    <2>5. Shown(s, 1) = {<<p[1], p[2]>> : p \in PairsOf(entry)}
      BY <1>6, <2>2 DEF Shown
    <2>6. Shown(s, 1) = PairsOf(entry)
      BY <2>4, <2>5
    <2>7. \A d \in 1 .. Len(s) : d = 1
      BY <1>4
    <2>8. UNION {Shown(s, d) : d \in 1 .. Len(s)} = Shown(s, 1)
      BY <1>4, <2>7
    <2> QED
      BY <1>3, <2>6, <2>8 DEF ImagesShown
  <1>8. ASSUME NEW f \in Reachable \ {entry} PROVE f \in Fn /\ ~open[f]
    <2> DEFINE C == {entry} \cup {g \in Fn : ~open[g]}
    <2>1. ASSUME NEW g \in C \cap Fn, NEW o \in Range(Body(g)), o.op = "call" PROVE o.callee \in C
      <3>1. CASE g = entry
        <4>1. PICK i \in 1 .. Len(Body(entry)) : o = Body(entry)[i]
          BY <1>2, <1>5, <3>1, BodyType
        <4>2. ~open[o.callee]
          BY <1>3, <1>4, <1>6, <2>1, <4>1 DEF ListsSeen
        <4>3. o.callee \in Fn
          BY <1>5, <2>1, <3>1, Leveled DEF Deep
        <4> QED
          BY <4>2, <4>3
      <3>2. CASE g # entry
        <4>1. Complete(params, open, g)
          BY <1>3, <3>2 DEF ListsSeen
        <4>2. ~open[o.callee] /\ o.callee \in Fn
          BY <2>1, <4>1, Leveled DEF Complete, Deep
        <4> QED
          BY <4>2
      <3> QED
        BY <3>1, <3>2
    <2>2. shader.entry \in C
      BY <1>2
    <2> HIDE DEF C
    <2>3. Reachable \subseteq C
      BY <2>1, <2>2, ReachedIn
    <2> QED
      BY <2>3 DEF C
  <1>9. ASSUME NEW f \in Reachable \ {entry}
        PROVE  Range(params[f]) = ParametersOf(f) /\ IsInjective(params[f])
    <2>1. Complete(params, open, f)
      BY <1>3, <1>8 DEF ListsSeen
    <2>2. Local(f, PairsOf(f)) = ParametersOf(f)
      BY DEF Local, ParametersOf
    <2> QED
      BY <1>3, <1>8, <2>1, <2>2 DEF Complete, ListsTyped
  <1> QED
    BY <1>2, <1>7, <1>9 DEF Exactly

\* Before the traversal there is no stack.
ExactInv ==
  /\ CombineInv /\ (Traversed => Exactly)
  /\ phase \in {"reflect", "dummy"} => stack = << >>

LEMMA InitExact == Init => ExactInv
  BY DEF Init, ExactInv, CombineInv, Traversed

LEMMA NextExact == BufferInv /\ ImageInv /\ ExactInv /\ [Next]_vars => ExactInv'
  <1> SUFFICES ASSUME BufferInv, ImageInv, ExactInv, [Next]_vars PROVE ExactInv'
    OBVIOUS
  <1>1. shader \in Shaders /\ CombineInv /\ (Traversed => Exactly)
        /\ (phase \in {"reflect", "dummy"} => stack = << >>)
    BY DEF BufferInv, ExactInv
  <1>2. CASE CompileSPIRV \/ Reflect \/ AssignInputsHLSL
    <2>1. phase = "reflect" /\ phase' # "combine" /\ stack' = stack
      BY <1>2 DEF CompileSPIRV, Reflect, AssignInputsHLSL, traversal
    <2> QED
      BY <1>1, <2>1 DEF ExactInv, CombineInv, Traversed
  <1>3. CASE CombineImages
    <2>1. phase \in {"dummy", "combine"}
      BY <1>3 DEF CombineImages, BuildDummySampler, BuildCombinedImageSamplers,
                  Sample, Fetch, FetchBuffer, Throw, Call, Return, EndTraversal, AtOp
    <2>2. StackTyped /\ PairsTyped
      BY <2>1 DEF BufferInv, SlotsSay, ImageInv, Targets, CombinesImages
    <2>3. CombineInv'
      BY <1>1, <1>3, <2>2, TraversalKeeps
    <2>4. phase' \notin {"reflect", "dummy"}
      BY <1>3, <2>1 DEF CombineImages, BuildDummySampler, BuildCombinedImageSamplers, Combine,
                  Sample, Fetch, FetchBuffer, Throw, Call, Return, EndTraversal, AtOp
    <2>5. CASE EndTraversal
      <3>1. Exactly /\ Exactly' = Exactly
        BY <1>1, <2>2, <2>5, EndExact, ExactlyStays DEF EndTraversal
      <3> QED
        BY <2>3, <2>4, <3>1 DEF ExactInv
    <2>6. CASE ~EndTraversal
      <3>1. phase' \in {"combine", "failed"}
        BY <1>3, <2>6 DEF CombineImages, BuildDummySampler, BuildCombinedImageSamplers, Combine,
                    Sample, Fetch, FetchBuffer, Throw, Call, Return, AtOp
      <3> QED
        BY <2>3, <2>4, <3>1 DEF ExactInv, Traversed
    <2> QED
      BY <2>5, <2>6
  <1>4. CASE NameImage \/ ImagesNamed \/ AssignBuffer \/ BuffersAssigned \/ AssignInputs \/ Compile
    <2>1. /\ UNCHANGED <<shader, traversal>> /\ stack' = stack
          /\ phase \notin {"combine", "failed", "reflect", "dummy"}
          /\ phase' \notin {"combine", "reflect", "dummy"}
      BY <1>4 DEF NameImage, ImagesNamed, AssignBuffer, BuffersAssigned, AssignInputs, Compile, traversal
    <2>2. Exactly' = Exactly
      BY <2>1, ExactlyStays
    <2> QED
      BY <1>1, <2>1, <2>2 DEF ExactInv, CombineInv, Traversed
  <1>5. CASE UNCHANGED vars
    <2>1. /\ UNCHANGED <<shader, traversal>> /\ UNCHANGED phase /\ UNCHANGED stack /\ UNCHANGED shader
          /\ UNCHANGED combined_image_samplers /\ UNCHANGED combined_parameters
          /\ UNCHANGED do_combined_parameters
      BY <1>5 DEF vars, traversal
    <2>2. Exactly' = Exactly
      BY <2>1, ExactlyStays
    <2>3. CombineInv'
      <3>1. CASE phase = "combine"
        BY <1>1, <2>1, <3>1, Keeps DEF CombineInv
      <3>2. CASE phase # "combine"
        BY <2>1, <3>2 DEF CombineInv
      <3> QED
        BY <3>1, <3>2
    <2> QED
      BY <1>1, <2>1, <2>2, <2>3 DEF ExactInv, Traversed
  <1> QED
    BY <1>2, <1>3, <1>4, <1>5 DEF Next, Stopped

LEMMA ExactlyCombined == ExactInv => CombinedExact
  BY DEF ExactInv, CombinedExact, Exactly, PairsListed

\* Hazard spirv_cross.cpp:2843.  For every shader whose calls do not recur, the
\* combined images that build_combined_image_samplers leaves are exactly the
\* pairs that inlining every call would show at the samplings, each once; and a
\* function that is called has exactly the pairs to be handed in that it or its
\* callees sample through a parameter of its own, each once, although its list
\* takes nothing more after its first return.
THEOREM PairsAreExact == Spec => []CombinedExact
  <1>1. Spec => [](BufferInv /\ ImageInv /\ ExactInv)
    BY InitBuffers, InitImages, InitExact, NextBuffers, NextImages, NextExact, PTL DEF Spec
  <1> QED
    BY <1>1, ExactlyCombined, PTL
===============================================================================
