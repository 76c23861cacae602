-------------------------------- MODULE BackEnd --------------------------------
(***************************************************************************)
(* The slots that a shader's resources get: the four back ends between     *)
(* their input and the compiler's output.  HLSL has a set and a binding    *)
(* for each resource; GLSL has one number for each class, GLSL ES a name,  *)
(* and SPIR-V the table of transpileSPIRV.  Inputs have locations.         *)
(***************************************************************************)
EXTENDS CombinedSamplers

Targets == {"HLSL", "GLSL", "GLSLES", "SPIRV"}

\* The set is the register's space.  Buffers have a type, which others may have.
IsSeparate(v) == shader.globals[v].kind \in {"image", "texelBuffer"}
IsStorage(v)  == shader.globals[v].kind = "storage"
IsUniform(v)  == shader.globals[v].kind = "uniform"
Set(v)     == shader.globals[v].set
Binding(v) == shader.globals[v].binding

\* get_shader_resources: the variables of a kind are listed in the order of their
\* ids, each once.
Lists(s, list, kind) ==
  /\ list \in Seq(DOMAIN s.globals) /\ IsInjective(list)
  /\ Range(list) = {v \in DOMAIN s.globals : s.globals[v].kind = kind}
ASSUME ResourcesAssumption ==
  \A s \in Shaders :
    /\ \A v \in DOMAIN s.globals :
         s.globals[v].kind \in Kinds /\ s.globals[v].set \in Nat /\ s.globals[v].binding \in Nat
    /\ Lists(s, s.sampled_images, "sampledImage")
    /\ Lists(s, s.storage_buffers, "storage") /\ Lists(s, s.uniform_buffers, "uniform")

\* An entry point has its inputs at locations of their own, and no semantic twice.
Input == [prefix : {"in", "out"}, semantic : STRING, location : Nat]
ASSUME InputsAssumption ==
  \A s \in Shaders :
    /\ s.inputs \in Seq(Input)
    /\ \A k, l \in DOMAIN s.inputs : k # l =>
         /\ s.inputs[k].location # s.inputs[l].location
         /\ s.inputs[k].semantic # s.inputs[l].semantic

VARIABLES
  target,     \* the back end that runs
  imageData,  \* by separate image, before they are combined: a name and a binding
  next,       \* the cursor of the loop that is running
  images,     \* the sampled images that have their name and binding, in order
  bindings,   \* by buffer
  typeNames,  \* by type of buffer: the N of its name bufferN
  inputs,     \* the stage's inputs
  slots       \* of transpileSPIRV: by variable, the set and binding asked for

assigned == <<imageData, next, images, bindings, typeNames, inputs, slots>>
vars == <<shader, phase, dummy, traversal, target, assigned>>

\* HLSL keeps its registers, and transpileSPIRV asks DXC for them.
CombinesImages == target \in {"GLSL", "GLSLES"}

\* 4 * set + binding.  Mutant: half of that.
PackedBy2(set, binding) == 2 * set + binding
Packed(set, binding) == 4 * set + binding

Init ==
  /\ shader \in Shaders /\ target \in Targets
  /\ phase = "reflect"
  /\ dummy = FALSE /\ stack = << >>
  /\ combined_parameters = << >> /\ do_combined_parameters = << >>
  /\ combined_image_samplers = << >>
  /\ imageData = << >> /\ next = 1 /\ images = << >>
  /\ bindings = [v \in {w \in DOMAIN shader.globals : IsStorage(w) \/ IsUniform(w)} |-> Binding(v)]
  /\ typeNames = << >>
  /\ inputs = shader.inputs
  /\ slots = << >>

-------------------------------------------------------------------------------
(* transpileSPIRV *)

RegisterClass == [image |-> "t", texelBuffer |-> "t", sampledImage |-> "t", storage |-> "t",
                  sampler |-> "s", uniform |-> "b"]

\* The arguments -fvk-bind-register: by class, space and register the set and the
\* binding.
BoundRegister(class, space, register) ==
  CASE class = "b" /\ space = 0 /\ register \in 0 .. 3 -> {<<0, register>>}
    [] class = "t" /\ space = 0 /\ register = 0 -> {<<1, 0>>}
    [] class = "t" /\ space = 1 /\ register = 0 -> {<<2, 0>>}
    [] class = "s" /\ space = 0 /\ register \in 0 .. 1 -> {<<3, register>>}
    [] class \in {"t", "b"} /\ space \in 2 .. 4 /\ register \in 0 .. 3 -> {<<2 + space, register>>}
    [] OTHER -> {}

Bound(v) == BoundRegister(RegisterClass[shader.globals[v].kind], Set(v), Binding(v))

\* DXC wants every resource in the table, and fails otherwise.
CompileSPIRV ==
  /\ phase = "reflect" /\ target = "SPIRV"
  /\ IF \E v \in DOMAIN shader.globals : Bound(v) = {} THEN phase' = "failed" /\ UNCHANGED slots
     ELSE /\ phase' = "compiled"
          /\ slots' = [v \in DOMAIN shader.globals |-> CHOOSE s \in Bound(v) : TRUE]
  /\ UNCHANGED <<shader, dummy, traversal, target, imageData, next, images, bindings, typeNames, inputs>>

-------------------------------------------------------------------------------
(* transpileGLSL and transpileGLSLES *)

\* Reflection is read before the images are combined ...
Reflect ==
  /\ phase = "reflect" /\ CombinesImages
  /\ imageData' = [v \in {w \in DOMAIN shader.globals : IsSeparate(w)} |->
                     [name |-> v, binding |-> Packed(Set(v), Binding(v))]]
  /\ phase' = "dummy"
  /\ UNCHANGED <<shader, dummy, traversal, target, next, images, bindings, typeNames, inputs, slots>>

CombineImages ==
  /\ BuildDummySampler \/ BuildCombinedImageSamplers
  /\ UNCHANGED <<target, assigned>>

\* ... and again after: sampled images are those of the source, and the new ones.
Native(v) == [image |-> v, sampler |-> None]
SampledImages ==
  [k \in 1 .. Len(shader.sampled_images) |-> Native(shader.sampled_images[k])]
    \o combined_image_samplers

\* imageData[map[id]]: the maps make an empty entry where there is none.
Data(r) ==
  IF r.sampler # None /\ r.image \in DOMAIN imageData THEN imageData[r.image]
  ELSE [name |-> None, binding |-> 0]

\* The name is the image's in GLSL and textureN in GLSL ES.
NameImage ==
  /\ phase = "names" /\ next <= Len(SampledImages)
  /\ LET r == SampledImages[next]
     IN  images' = Append(images, [image |-> r.image, sampler |-> r.sampler,
                                   name |-> IF target = "GLSL" THEN Data(r).name ELSE None,
                                   binding |-> Data(r).binding])
  /\ next' = next + 1
  /\ UNCHANGED <<shader, phase, dummy, traversal, target, imageData, bindings, typeNames, inputs, slots>>

ImagesNamed ==
  /\ phase = "names" /\ next > Len(SampledImages)
  /\ phase' = "buffers" /\ next' = 1
  /\ UNCHANGED <<shader, dummy, traversal, target, imageData, images, bindings, typeNames, inputs, slots>>

\* The loop over storage buffers, then the one over uniform buffers.
Buffers == shader.storage_buffers \o shader.uniform_buffers

\* GLSL moves the buffers outside set 0 to a binding of their own; GLSL ES names
\* the type that a buffer has, which may be that of another.
\* Mutant: the buffers of set 0 are moved, too, and those of others by 2.
BindBufferBy2(v) == [bindings EXCEPT ![v] = 2 * Set(v) + @]
BindBuffer(v) == IF Set(v) > 0 THEN [bindings EXCEPT ![v] = Packed(Set(v), @)] ELSE bindings

NameType(v) ==
  [t \in DOMAIN typeNames \cup {shader.globals[v].type} |->
     IF t = shader.globals[v].type THEN Packed(Set(v), Binding(v)) ELSE typeNames[t]]

AssignBuffer ==
  /\ phase = "buffers" /\ next <= Len(Buffers)
  /\ IF target = "GLSL" THEN bindings' = BindBuffer(Buffers[next]) /\ UNCHANGED typeNames
     ELSE typeNames' = NameType(Buffers[next]) /\ UNCHANGED bindings
  /\ next' = next + 1
  /\ UNCHANGED <<shader, phase, dummy, traversal, target, imageData, images, inputs, slots>>

BuffersAssigned ==
  /\ phase = "buffers" /\ next > Len(Buffers)
  /\ phase' = "inputs"
  /\ UNCHANGED <<shader, dummy, traversal, target, assigned>>

\* sSemanticLocationMappings, without the entries of INSTANCEDATA1 to 6, which
\* say to keep the location, as an unlisted semantic does.
\* Mutant: the second entry has the first one's location.
Duplicated == [POSITION0 |-> 0, POSITION1 |-> 0, POSITION2 |-> 2, NORMAL |-> 3, COLOR |-> 4,
               TEXCOORD |-> 5, BONEINDICES |-> 6, WEIGHTS |-> 7, INSTANCEDATA |-> 8]
SemanticLocationMappings ==
  [POSITION0 |-> 0, POSITION1 |-> 1, POSITION2 |-> 2, NORMAL |-> 3, COLOR |-> 4,
   TEXCOORD |-> 5, BONEINDICES |-> 6, WEIGHTS |-> 7, INSTANCEDATA |-> 8]
IsListed(semantic) == semantic \in DOMAIN SemanticLocationMappings

\* A vertex shader's inputs are moved.
Relocated(input) ==
  IF shader.stage = "vertex" /\ IsListed(input.semantic)
  THEN [input EXCEPT !.location = SemanticLocationMappings[input.semantic]]
  ELSE input

\* A fragment shader's are renamed in GLSL ES.
AssignInputs ==
  /\ phase = "inputs"
  /\ inputs' = [k \in DOMAIN inputs |->
       IF shader.stage = "fragment" /\ target = "GLSLES" THEN [inputs[k] EXCEPT !.prefix = "out"]
       ELSE Relocated(inputs[k])]
  /\ phase' = "compile"
  /\ UNCHANGED <<shader, dummy, traversal, target, imageData, next, images, bindings, typeNames, slots>>

-------------------------------------------------------------------------------
(* transpileHLSL, without -g, assigns nothing but the locations of inputs *)

AssignInputsHLSL ==
  /\ phase = "reflect" /\ target = "HLSL"
  /\ inputs' = [k \in DOMAIN inputs |-> Relocated(inputs[k])]
  /\ phase' = "compile"
  /\ UNCHANGED <<shader, dummy, traversal, target, imageData, next, images, bindings, typeNames, slots>>

-------------------------------------------------------------------------------

\* CompilerGLSL::compile or CompilerHLSL::compile ends, or throws.
Compile ==
  /\ phase = "compile"
  /\ phase' \in {"compiled", "failed"}
  /\ UNCHANGED <<shader, dummy, traversal, target, assigned>>

Stopped == phase \in {"compiled", "failed"} /\ UNCHANGED vars

Next ==
  \/ CompileSPIRV \/ Reflect \/ CombineImages \/ NameImage \/ ImagesNamed
  \/ AssignBuffer \/ BuffersAssigned \/ AssignInputs \/ AssignInputsHLSL \/ Compile \/ Stopped

Spec == Init /\ [][Next]_vars

-------------------------------------------------------------------------------
(* Properties *)

Small(v) == Binding(v) < 4
SameRegister(v, w) == Set(v) = Set(w) /\ Binding(v) = Binding(w)
SameClass(v, w) == RegisterClass[shader.globals[v].kind] = RegisterClass[shader.globals[w].kind]

\* A combined image has the texture unit of the image it samples, through
\* however many parameters it was found: two of them share a unit exactly when
\* their images share a register, as long as registers are below 4.  An image
\* that HLSL itself combines has no name and unit 0.
UnitsDistinct ==
  phase \in {"compile", "compiled"} /\ CombinesImages =>
    /\ Len(images) = Len(SampledImages)
    /\ \A a, b \in Range(images) :
         /\ a.sampler = None => a.binding = 0 /\ a.name = None
         /\ a.sampler # None /\ b.sampler # None /\ Small(a.image) /\ Small(b.image) =>
              /\ a.binding = b.binding <=> SameRegister(a.image, b.image)
              /\ target = "GLSL" => a.name = a.image

Type(v) == shader.globals[v].type
IsLastOfType(v) ==
  \A k, l \in DOMAIN Buffers : Buffers[k] = v /\ k < l => Type(Buffers[l]) # Type(v)

\* GLSL gives two buffers one binding only if they have one register, or one of 4
\* or more.  GLSL ES names types: the last buffer of a type, in the order of the
\* two loops, has its name from the others, and two types share one only if a t
\* and a b register are the same.  In transpileSPIRV's table the same holds in
\* spaces 2 and up; below them a slot is for one register of one class.
BuffersDistinct ==
  phase = "compiled" =>
    /\ target = "GLSL" => \A v, w \in DOMAIN bindings :
         Small(v) /\ Small(w) /\ bindings[v] = bindings[w] => SameRegister(v, w)
    /\ target = "GLSLES" => \A v, w \in DOMAIN bindings :
         Small(v) /\ Small(w) /\ IsLastOfType(v) /\ IsLastOfType(w) =>
           (typeNames[Type(v)] = typeNames[Type(w)] <=> SameRegister(v, w))
    /\ target = "SPIRV" => \A v, w \in DOMAIN slots :
         slots[v] = slots[w] => SameRegister(v, w) /\ (SameClass(v, w) \/ Set(v) >= 2)

\* In HLSL as in GLSL two inputs of a vertex shader get one location only if one of them keeps the
\* location that DXC gave it, as INSTANCEDATA1 and unlisted semantics do, and that
\* is one of the table's.
LocationsDistinct ==
  phase = "compiled" /\ target # "SPIRV" /\ shader.stage = "vertex" =>
    \A k, l \in DOMAIN inputs :
      k # l /\ inputs[k].location = inputs[l].location =>
        \E m \in {k, l} : ~IsListed(inputs[m].semantic) /\ shader.inputs[m].location <= 8
================================================================================
