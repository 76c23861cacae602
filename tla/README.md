# Specifications of ShaderGen

ShaderGen (this repository) reads one HLSL file and builds from it, in one run,
a C++ header and source file (`-CPP`) and translations to HLSL, GLSL, GLSL ES
and SPIR-V (`-HLSL`, `-GLSL`, `-GLSLES`, `-SPIRV`). It is a single-threaded
batch program. Its own code is `main.cpp`, `generateCPP.cpp`, the four
`shadergen*.cpp` back ends and `releaseptr.h`, about 1600 lines without tests.
SPIRV-Cross, which writes the GLSL, is vendored under `ext/`; the DirectX Shader
Compiler (DXC) is fetched by CMake and is not in the repository.

This directory holds TLA+ modules for that code, the TLC configurations that
check them and the TLAPS proofs about them. `PROJECT.json` lists the parts of
the system, the runs, the mutants that each property finds, the source lines
behind every definition, the findings, the hazards and the theorems.

## Inventory

| Component | State | Operations | Talks to |
|---|---|---|---|
| Driver: `main`, `transpile` (`main.cpp`) | the flags, `profile`, `entrypoint`, `profileEntrypoints`, `result`; for each job `pCompileResult`, `spirvArguments` and its own `result` | parse argv, set up DXC, run `generateCPP`, compile each entry point, run the targets, fold exit codes | calls everything else; owns the global `library`, `compiler`, `includeHandler` |
| Include handler (`main.cpp:16-133`) | a reference count; the macros `export` and `__keep` in the text it hands out | `LoadSource`, `QueryInterface`, `AddRef`, `Release` | called back by DXC's preprocessor in every compilation |
| Struct generator: `generateStruct`, `writeType`, `dummy` (`generateCPP.cpp`) | `generatedStructs`, the header and source streams, the active calls | write a struct after its members, pad it, cache its size | called by `generateCPP` once per constant buffer; reads DXC's reflection |
| Function generator: `generateCPP` | per function `constantBufferBindings`, `resourceBlocks`, `signature`; `profileEntrypoints` | compile, read reflection, bind buffers, collect blocks, declare functions | called by `main`, which then transpiles `profileEntrypoints` |
| Demangler: `demangle` and its parts (`generateCPP.cpp`) | the cursor, the names and the types seen so far | recursive descent over a mangled name | called by `generateCPP` |
| Back ends: `transpileHLSL`, `-GLSL`, `-GLSLES`, `-SPIRV` | `imageData`, the names, bindings and locations set on SPIRV-Cross's compiler object; the arguments of `-fvk-bind-register` | reflect, combine images, assign slots, compile, write a file | called by `transpile`; read its SPIR-V |
| SPIRV-Cross: parser (`spirv_parser.cpp`) | blocks, functions, `block_meta`, the open function and block | one instruction after the other | first step of every GLSL back end |
| SPIRV-Cross: CFG and scopes (`spirv_cfg.cpp`, `analyze_variable_scope`) | visit order, edges, immediate dominators; for each variable the block that declares it, loop variables, preserved parameters | build, analyse | reads the parser's tables |
| SPIRV-Cross: block emission (`spirv_glsl.cpp`) | marks on the blocks that outlive a pass; the loop and switch around; whether to compile again | write a chain of blocks, pass after pass | reads all of the above |
| SPIRV-Cross: combined image samplers (`spirv_cross.cpp`) | the stack of calls with their remapped parameters, the pairs found | walk the call graph | called by the GLSL back ends |
| COM lifetime: `ReleasePtr`, `IncludeHandler` | reference counts | copy, move, assign, release | every holder of a DXC object |
| DXC | not in the repository | preprocess, compile, reflect | external |

What makes the code hard to test:

* Two passes over the same `argv` in two functions, with different ideas of a
  flag; results folded over targets and over jobs; a moved-from vector that
  lives on in the loop; results read before the error that goes with them is.
* Text whose meaning depends on where and how often the preprocessor meets it.
* A recursion with a cache whose entries are made before they are complete, and
  unsigned arithmetic on layout.
* Vectors indexed by numbers that come from the shader's registers, in an order
  that comes from the compiler.
* Back references that are written by one counter and read by another.
* Slots computed from spaces and registers by arithmetic that is injective only
  for small registers, in loops where a later entry replaces an earlier one.
* Unstructured control flow that is written as structured text: what a branch
  becomes depends on what is being written around it and on what earlier passes
  found out.
* No concurrency, nothing persistent: these hazards do not exist here, and none
  is listed.

What would make each part correct:

* Driver: exit code 0 exactly when all was built; one failure costs nothing
  that does not depend on it; both passes agree; the process ends.
* Include handler: nothing but the source file's own functions is exported, and
  those are, wherever the command line does not say otherwise.
* Struct generator: a header that C++ accepts, with members where HLSL has them.
* Function generator: a function's declaration is its own, complete, and uses
  only what is declared; what is declared is what is transpiled.
* Demangler: it never reads past its tables, and undoes the mangling.
* Back ends: no two resources of a shader get one binding, name or location.
* SPIRV-Cross: blocks, dominators and scopes are what the SPIR-V says; the GLSL
  runs the blocks that the SPIR-V runs, in every way through the function; every
  pair of image and sampler that is used gets one combined image.
* COM lifetime: every object is released once, after its last use.

## The modules

`Driver` (abstract: `Batch`), `IncludeExport`, `StructGen` (abstract:
`DeclOrder`), `GenerateCPP` and `Demangle` model one component each. Two chains
compose components that work on each other's state: `BackEnd` extends
`CombinedSamplers`; `GlslExecution` extends `BlockEmission`, `VariableScope`,
`ControlFlow` and `SpirvParser`, one after the other. `MC*` modules give the
constants small values; `*Proofs` modules hold the theorems.

Each has one action per step of the code that can be told apart by what it does
to the state. The state is the code's own, under its own names, plus
**history** variables that only record, and are marked as such.

### Driver and Batch

`argv` is the command line after the program's name, and is chosen at the start.
`Start`, `ParseFlag`, `ParseValued`, `ParseMissingOperand` and `ParseDone` are
`main`'s loop and the checks around it, `Setup` the calls that create DXC's
objects and load the file, `Codegen` and `SingleJob` the two ways to get jobs,
`CompileJob`, `CompileJobFails` and `CompileJobCrashes` the compilation in
`transpile`, one action for each target its loop, `EndJob` the return to `main`.
A back end ends in one of the ways its code can: it reports success, an output
stream that never opened (which none of them looks at), a failure, or a crash on
a null pointer, the last two depending on `pCompileResult` and, for `-SPIRV`, on
whether the argument vector has been moved from. `generateCPP` is one action
here, with any of the results in the constant `Exports`.

`operands` and `attempts` are history: what `main` took for operands, and what
each target of each job reported.

`Batch` says what a run promises without any of that: tasks are planned once,
each is taken once or dropped with a failure on record, and the exit code is 0
exactly when there was none. `ImplementsBatch` maps a task to a pair of a job
and a position in `argv`.

### IncludeExport

`IncludeHandler::LoadSource` wraps every included file in preprocessor text. The
module carries that text out: a stack of open files, the set of files that have
run `#pragma once`, the macros `export` and `__keep`, and, as history, the functions
that were exported. `IncludeNew` is
`LoadSource` with the prefix, `EndInclude` is the suffix. The files (any graph
of includes, cycles too) and whether the command line defines `export` are
chosen at the start. The preprocessor itself is DXC's: what `#pragma once`,
`__INCLUDE_LEVEL__` and `#ifdef` do is taken from the language, and those
definitions are marked external.

### StructGen and DeclOrder

The recursion `generateStruct` -> `writeType` -> `generateStruct` is an explicit
stack of frames; `CallNew`/`CallCached` are `generateConstantBufferStruct`,
`MemberNew` the recursive call, `WriteMember` the rest of the loop body,
`EndStruct` everything after the loop. A type's text is represented by what C++
makes of it: a frame keeps, beside the `size` the code computes, the offset that
the C++ struct has reached. `sizeofs` and `comments` record `sizeof` of each
struct and, for each member, the offset the comment names and the one C++
gives. Scalars, vectors and matrices are "plain" members of so many bytes.
`UINT` wraps at `UINT_MOD`.

`DeclOrder` is the promise to the C++ compiler: each struct once, after the
structs it holds, all those that were asked for. `ImplementsDeclOrder` maps the
header to it.

### GenerateCPP

The loop over the reflected functions. `BeginFunction` makes the locals,
`ReadBuffer` and `BindBuffer` are the loop over constant buffers, `SkipResource`
and `BindResource` the loop over bound resources, `DeclareBlock` the loop over
the blocks, `Declare`, `DeclareShort` and `DeclareUnknown` the rest, by what the
name turns out to be. The header is a sequence of declarations with the types
they name. What `generateConstantBufferStruct` writes is left to `StructGen`:
here a call makes the type known. Each declaration keeps the function and the
space it was written for, as history.

A name that did not demangle is an empty `std::optional` that is read: undefined
behaviour, modelled as dying or going on with any suffix.

### Demangle

The demangler is a pure function, and so are its definitions: one operator per
function of the code, over a sequence of tokens (a character, a whole identifier,
or a digit), with the cursor, the table of names and the list read last in a
record. Text is a sequence of words; an index beyond a vector is recorded in
`outOfRange`. The other half of the module is external: a mangler of declarations
as DXC has it (Microsoft's scheme, with its numbering of names and of argument
types), against which the demangler is checked.

### BackEnd and CombinedSamplers

One shader, with its globals, functions and inputs, goes through one of the four
back ends. `phase` is the call that is running. `Reflect` is
`get_shader_resources` and the loop over `imageData`, `CombineImages` the walk
of `build_dummy_sampler_for_combined_images` and
`build_combined_image_samplers`, `NameImage`, `AssignBuffer` and `AssignInputs`
the loops that set names, bindings and locations. `transpileHLSL` runs only the last of
these (`AssignInputsHLSL`; with `-g` not even that), and `CompileSPIRV` is
`transpileSPIRV`, whose slots come from its table of arguments.

`CombinedSamplers` is SPIRV-Cross's traversal: an action for each opcode it looks
at (`Sample`, `Fetch`, `FetchBuffer`, `Throw`), for a call (`Call`, with the
parameters remapped) and a return (`Return`, which hands the callee's pairs to
the caller and closes the callee's list). An operand stands for the variable
behind it. `dummy`, the sampler for images that are fetched without one, is one
variable as in the code.

### SpirvParser, ControlFlow, VariableScope, BlockEmission, GlslExecution

SPIR-V for GLSL, as far as control goes. A module is a sequence of instructions;
blocks, functions and variables are numbers. What is left out is what a block's
instructions compute: an instruction reads or writes a variable, is a call, or
is a line number.

* `SpirvParser`: `Parser::parse`, an action per instruction. It keeps the code's
  rewriting of a conditional with equal targets (`ParseBogusSelection`,
  `ParseBogusBranch`), which is a branch or a switch afterwards.
* `ControlFlow`: `CFG`. The recursive post-order walk is an explicit stack
  (`VisitBranches`, `Resolve`), back edges are left out and edges from headers to
  merge blocks added as in the code; `BuildImmediateDominators` is the loop after
  it.
* `VariableScope`: `analyze_variable_scope`, in the order of its parts:
  `AnalyzeParameterPreservation`, `FindLoopDominators`, `AnalyzeVariables` (where
  a declaration goes), `FindLoopVariables` (which become a for loop's own).
* `BlockEmission`: `emit_block_chain` and what it calls, as operators on what has
  been written and on the marks; an action `EmitGlsl` is a pass of `compile`. What
  is written is a sequence of statements (block, phi, if, loop, switch, ladder,
  break, continue, return), not text.
* `GlslExecution`: external in the main, both languages being defined elsewhere.
  It runs the SPIR-V and the statements that were written side by side. In each
  block one choice is made for both.

## What the runs check

| Run | Instance | Shows |
|---|---|---|
| `driver` | every command line of up to three words after the folder, over nine words, and up to two more after `-T ps_6_2`; three results of code generation; every outcome of every call: 58 000 states | `ExitZeroMeansBuilt`, `FailureHasCause`, `NoTargetSkipped`: no failure is masked, invented, or costs other tasks. `OperandsStayOperands`: both passes agree. `JobsHaveProfile`, `SpirvArgumentsIntact`: what the back ends rely on. `Terminates`, `ImplementsBatch` |
| `includes` | three files, every content of a small set, both command lines: 38 000 states | `IncludesStripped`, `RootUndisturbed`, `LoadedOnce`; `OwnExportsExact`: each function that the source file exports is exported by `generateCPP`'s compilation, and none by `transpile`'s |
| `structs` | 910 families of three structs laid out by HLSL's packing rules, three sequences of buffers: 57 000 states | `DeclaredBeforeUse`, `NoRedefinition`, `MetaLostToEarlierCall`; `CacheHoldsSizeof` and `LayoutAgrees` for layouts that C++ can follow; `Terminates`, `ImplementsDeclOrder` |
| `functions` | 1369 libraries of up to three functions, up to three resources in any class, space and register: 40 000 states; and, in the empty library, 3862 declarations, of which the demangler knows 3010 and reads 1582 as they were declared | `BlocksHoldRegisters`, `BlocksNamed`, `BindingsAreOwn`, `TypesBeforeUse`, `NamesUnique`, `EntrypointsAreDeclared`, `CrashHasCause`, `SignaturesAsDeclared`, `Terminates` |
| `backends` | call graphs of three functions over two textures, two samplers and a buffer, flat shaders over eight registers, lists of inputs; four targets: 553 000 states | `CombinedExact`: the pairs found are those that inlining every call would show. `UnitsDistinct`, `BuffersDistinct`, `LocationsDistinct`: slots collide exactly where the code's arithmetic or its tables make them |
| `spirv` | 1870 modules: 109 000 states | `ModuleClosed`, `DominatorsExact`, `ScopesSound`, `ControlFlowPreserved` |

Why the bounds are enough. *Driver*: a property is broken by at most two targets
of a job, two jobs, or a target next to an operand that looks like one; three
free words, two further words after a profile, and two jobs hold all of these.
*Includes*: the text asks only for level 0, 1 or more and for the first include
or a later one; three files give levels 0 to 3, repeats and cycles. *Structs*:
three structs give a struct reached from two others, one reached before and
during the visit of another, an empty one, and arrays of structs; members are
limited to two, which is enough for one that lies behind a nested struct or an
array. `UINT_MOD` is 65536, far above every size that does not wrap.
*Functions*: a block is disturbed by an earlier resource of the same space, of a
higher space, or of the same register; three resources and three spaces give
each. `UINT_MOD` is 4, so that 3 stands for the last bind point. *Names*: up to
three parameters (four of those that refer back) over plain, structured, templated
and scoped types give a reference to a first, second and third name, to types
that the mangler counts and that it does not, and into and out of a template;
numbers at 9, 10, 16 and 28 cross from a digit to one and two letters. *Slots*:
calls of depth two carry a parameter through a parameter; `main` and `f` have two
instructions each, so that a function is called twice with other arguments and
after its list is closed; registers hold every pair of equal and unequal spaces
and numbers and one number of 4, where `4 * set + binding` stops being injective.
*Control flow*: every style of loop that the writer tells apart (tested in the
header, inverted, tested in the next block, do-while, endless, a loop of one
block, a body that is the continue block) around every kind of selection, switch
and jump, a loop in every loop, variables read and written at every place around
and in a loop, phis of every kind of block, and a whole module with any one
instruction missing or repeated. None of these needs more than 16 blocks
(`MaxBlock`). `MaxPasses` is the code's own 3: a pass that follows three without
progress fails.

Some properties say exactly when something goes wrong, where the code does go
wrong: `BlocksNamed` (a block stays without a name exactly when one of a higher
space came first), `BindingsAreOwn` (a buffer loses its place only to one named
like its type), `MetaLostToEarlierCall`, `CrashHasCause`, `SpirvArgumentsIntact`,
`UnitsDistinct`, `BuffersDistinct`, `LocationsDistinct`.

`SignaturesAsDeclared` is of this kind too. No back reference leaves its vector,
and every declaration with types that the demangler knows gets a signature; but
the types in it are not those declared when the grammar has no word for them (a
type in a namespace, the number ten as a template's argument) or when a back
reference is counted otherwise than it was written: `void f(float, Foo, Foo)`
refers to the first *long* type as 0, which the demangler reads as `float`. Nothing
in the repository claims otherwise, so that it is not listed as a finding.

`ScopesSound` and `DominatorsExact` are defined without the code's algorithms: by
reachability once a block is taken out, and by looking for a way from a write
over the declaration to a read.

`spirv` does not check for deadlock: a run of the function ends, and so does a
module that the parser refuses.

### Findings

Six runs check something the program says of itself and find it false. Each is
described in `PROJECT.json` with the lines.

* `driver_unknown`: a command line whose only target is unknown has no job, so
  that nobody says "Unknown target language", and exits with 0.
* `driver_compile_failure`: a failed `Compile` may leave no result, which is
  dereferenced before "Failed to compile HLSL to SPIR-V" can be printed.
* `driver_written`: "Success!" and exit code 0 with no file written.
* `structs_offsets`: `// offset:` comments that C++ does not keep, after arrays
  of scalars and behind nested structs.
* `functions_demangle`: the empty signature is read before "Error demangling".
* `spirv_once`: SPIRV-Cross writes a switch without labels as what it calls the
  logical equivalent, `do { } while(false)`; a `continue` of the loop around,
  written inside, only leaves the do-while. (`ControlFlowPreserved` holds for
  every run that does not come to such a `continue`, which `misled` records.)

### Fairness

`Driver` assumes `WF_vars(Next)`, `StructGen` and `GenerateCPP`
`WF_vars(Progress)`, where `Progress` leaves out the failures of reflection:
the program is sequential and never waits, so that it takes its next step
whenever it has one, and a call of DXC, SPIRV-Cross or the file system returns.
No fairness makes a call fail or succeed, so that nothing terminates because an
external call must at last fail. `IncludeExport`, `BackEnd` and `GlslExecution`
assume none and claim no liveness.

## What is proved

`DriverProofs`, `IncludeExportProofs`, `StructGenProofs`,
`GenerateCPPProofs`, `BackEndProofs`, `SpirvParserProofs` and `ControlFlowProofs`,
with the lemmas of `Recursion`, are checked by TLAPS for every value of the constants, under the assumptions that the component's module states: the
strings are any set that has the literals `main` starts from (`WordAssumption`), the command lines and the entry points are
any sequences of them (`ArgvsAssumption`, `ExportsAssumption`), the included
files may be any (`NamesAssumption`, `SourcesAssumption` of `IncludeExport`), a
struct holds only structs defined before it (`ProgramsAssumption`, as HLSL
demands), `UINT_MOD` is a positive
multiple of 16 in `StructGen` and positive in `GenerateCPP` (`UintAssumption`),
reflection lists every constant buffer among the resources and every view of
a struct among the constant buffers (`LibrariesAssumption`), the inputs of an
entry point have locations and semantics of their own (`InputsAssumption`),
`get_shader_resources` lists every resource once under its kind
(`ResourcesAssumption`), SPIR-V is typed, so that an image or sampler operand is
an argument or a global of that kind, a call's arguments have the kinds of the
callee's, and an argument's id is no global's (`OperandsAssumption`), a shader's
calls do not recur (`CallsAssumption`: HLSL forbids it, and so does SPIR-V for
shaders), labels are blocks' ids, the cases of a switch are a sequence and no two functions of a
module have one id (`ModulesAssumption`, `BlockAssumption`, `NoneAssumption`).
TLC evaluates each of these assumptions on the instance of the component's run.

*Driver.* Of the properties only `TypeOK` is inductive. The invariant adds four
parts to it.
`CursorInv`: operands are exactly what follows a valued flag that is no operand
itself, as far as `main` has come (`OperandsFollow`, `FlagsHaveOperands`), so
that `transpile`'s cursor, which counts from the same place by its own rules,
never stands on one (`OnNoOperand`). `PlanInv`: nothing is reported before there
are jobs, and the check for a profile was made. `ResultInv`: a failure on record
is known to `main`'s result or still to `transpile`'s, and the other way round.
`TargetInv`: how far the current job has got (`CurrentAttempted`), and that a
moved-from vector goes back to an earlier `-SPIRV` of the same job
(`ArgumentsGone`). Theorems: `TypeCorrect`, `ZeroMeansBuilt`,
`FailuresHaveCauses`, `NoTargetIsSkipped`, `PassesAgree`, `ProfilesAreGiven`,
`ArgumentsStayWithJob`, and `DriverIsABatch`, the refinement of `Batch`: a report
on a target's word is `Build`, a report on any other word and a failed
compilation are `Abandon`, and the ends of `transpile` and `main` stutter and
`Finish`.

*Includes.* The inductive invariant `IInv` says what the macros are at every
level: in an included file `export` is defined, and `__keep` is known and equals
what the command line said; in the root `export` is what the command line said.
`IncludesStripped` and `RootUndisturbed` are not inductive by themselves: the
suffix of an include at level 1 restores the root's macro from `__keep`, and so
needs what `__keep` says. `LoadedOnce` needs that exactly the delivered files
have run `#pragma once`. `OwnExportsExact` follows the source file's own functions one
by one: reading on in an include reads none of them (`OwnFunctionsGrow`), and in
the root the macro is what `RootUndisturbed` says. Theorems: `TypeCorrect`,
`IncludesAreStripped`, `RootIsUndisturbed`, `FilesLoadedOnce`, `OwnExportsAreExact`.

*Structs.* `DeclaredBeforeUse` speaks of the finished header; to keep it, the
invariant must say that the frames on the stack are for ever smaller structs
(`Sorted`, so that no struct is entered twice), that a cached struct is either
written or on the stack (`CacheSplit`), that the members a frame has passed are
written (`MembersDone`), and that the bottom frame belongs to the current call
and the earlier calls' structs are written (`CallsSay`). Theorems:
`TypeCorrect`, `HeaderIsOrdered`, `HeaderDefinesOnce`, and `GeneratesInOrder`,
the refinement of `DeclOrder`: `EndStruct` defines the struct of the frame it
returns from, and `Complete` finds every call's struct in the header.
`MetatablesLost` needs `MetaInv`: while a struct of the header has no metatable, a
call that asked for none has been met or is being generated.

*Layout.* `LayoutAgrees` and `CacheHoldsSizeof` are about the layouts that C++ can
follow (`Representable`). What that means was first left to the instance, whose
offsets were computed by HLSL's rules; for every program it has to be said, and
`Packed` says it: members follow one another, four-byte aligned and structs at
the beginning of a register, array elements take whole registers, and offsets end
well before `UINT` does. (`spans` is the number of bytes HLSL gives a struct.) The
invariant `LayoutInv` is an account of both counters of a frame: `size`, which the
code computes, and the offset that C++ has reached are both the end of the last
member as C++ writes it (`FramesSay`), and of a struct in the header the cached
size and `sizeof` are both its span rounded up to a register (`SizesSay`). The step
is then arithmetic: no subtraction of `generateStruct` wraps, and its quotients
by 16 round up. Theorems: `MembersAreInPlace`, `CachedSizesHold`.

*Functions.* `TypesBeforeUse` speaks of the header, but a block or a function is
declared long after its types were named, by another loop; in between they are
only in the local vectors. So the invariant says that the header has every
generated struct (`StructsDeclared`, `UsesDeclared`), that what the vectors name
is generated or empty (`BindingsKnown`, `MembersKnown`), and that the first loop
has generated the struct of every buffer it has passed, which the second loop
relies on when it names them (`BuffersRead`). `BindingsAreOwn` needs a second
invariant, `OInv`: the vector holds at every bind point what the buffers read so
far have put there (`BoundSoFar`), and so do the declarations made of it
(`DeclaredOwn`). Theorems: `TypeCorrect` (which is where the wrap of
`BindPoint + 1` has to be met), `StructsComeFirst`, `CrashesAreExplained`,
`BindingsStayOwn`.

*Blocks, names and entry points.* `BlockInv` is a loop invariant of the loop over
the resources: the vector ends with the highest space so far, each block holds at
every register the last resource bound to it, and is named unless a block of a
higher space came before it; and the declared blocks are those at the end of the
loop. (An earlier `BlocksNamed` looked for the resource of a higher space only among as
many resources as there are spaces; it held in every library of the run, and the
proof refuted it.) `NameInv` gives
every declaration the struct, function or space it was written for and says that
no two are for the same one; `EntryInv` counts the functions that were declared.
Theorems: `BlocksAreComplete`, `BlocksGetTheirNames`, `NamesAreUnique`,
`EntrypointsMatch`.

*Locations, buffers and units.* `LocationsAreDistinct` rests on `InputsMoved`: the
inputs are the shader's until `AssignInputs` and its image under the table afterwards, whatever
the image and buffer loops did in between. That the table maps no two
semantics to one location is then a matter of its entries. `BuffersApart` rests on
`BufferInv`: each loop has done the buffers before its cursor, so that a GLSL
binding is `4 * set + binding` of its buffer, a GLSL ES type has the name of the
last of its buffers so far, and a SPIR-V slot comes from the table. The rest is
that `4 * set + binding` determines both where `binding` is below 4. `UnitsApart`
has to follow the traversal: every call on the stack has its parameters bound to
globals of the parameters' kinds (`StackTyped`), so that a pair names a separate
image, never a sampler or a buffer (`PairsTyped`); and `imageData` then has the
entry that `Reflect` made for it, not the empty one that its `operator[]` makes.

*Combined images.* `PairsAreExact` proves `CombinedExact`: the traversal, a call
at a time, finds exactly the pairs of a recursive function over the call graph.
Two inductions are needed, over the depth of the calls (`PairsUnfold`: the
recursion is what it says at every depth; `PairsSettle`: more depth than the calls
have adds nothing) and over a callee's list (`HandedUpAll`: what it hands up adds
the pairs it lists and nothing else). The library states induction for an
operator, but only a set can be given here; `Least`, that a set of numbers has a
least element, is therefore derived from the well-foundedness of the strict
subsets of an interval, and `Induct` and `Iterates` (what is defined from each
number to the next exists) from it. These are in `Recursion`, for the control flow, too.
The inductive invariant is `CombineInv`. A frame of the stack was made by the
call that the frame below waits for, so that its remapping is that frame's
meaning of its operands (`Linked`); the combined images are the pairs that the
running calls have seen so far, in terms of globals (`ImagesShown`); and a
function's list is empty before its first call, holds what that call has seen
while it runs, and is complete from its return on, as are those of all it calls
(`ListsSeen`). That last part is what the early closing of a list
(`do_combined_parameters`) hangs on: a second call of a function meets a complete
list, and no call of it is running, as levels fall along the stack. At the end
only the entry point is left, which has seen all its body.
The proof made `CombinedExact` say when it holds: of a run with `-SPIRV`, which
fills no lists, it is not true for every shader, as an earlier form would have had
it and the run's instance did not show. `Traversed` says that a traversal was made.

*Parser.* `ParsedModulesAreClosed` proves `BlocksClosed`, the first part of
`ModuleClosed`, for any sequence of instructions: an accepted module has no
block without a terminator, and the blocks are those the functions list. It needs
that only the current block can be open (`BlocksEnded`), that this is the last one
of the open function (`BlockInFunction`), and that a function's list is not made
anew, its id not being used again (`FunctionsRead`); together they are `Closed`.
`ParsedModulesAreTold` proves the rest: the tables of headers and merge blocks say
what the finished blocks say, but for headers that a bogus conditional has
collapsed. Its invariant `HeadersSay` follows the tables instruction by
instruction (`BlocksRead`, `HeadersRead`, `MetaSaid`), the difficulty being the
instruction between a merge and its branch, when the table knows of a header that
its block does not show yet. The parser itself checks nothing of this: two headers
that share a merge block, or a merge instruction without a branch behind it, make
the tables disagree with the blocks. So the statement has SPIR-V's own rules as
a precondition (`Structured`); every module of the run that the parser accepts
keeps them. The theorems are about the parser on its own (`ParserSpec`), as the
later stages do not touch its tables.

*Control flow.* `DominatorsAreExact` proves `DominatorsExact` for every module that
the parser accepts. It is about `CfgSpec`, the part of `Spec` that parses and
walks; the later stages leave what it speaks of alone, but for `phase`. The proof has three
layers.
The walk is a depth-first search with a stack of its own, on which a block lies
several times and is resolved once. Its invariant, `WalkedSoFar`, says of the
stack what recursion would make obvious. A visited block without a number lies on the
stack above the block that leads to it (`Grey`, `AllOnStack`, `AllCalled`), with
all that it still waits for above it (`AllAwaited`); all that is on the stack was
pushed by such a block (`AllEntered`); and the entry block is at the bottom, so
that it is the last to get a number (`EntryLast`). It follows that edges go to
smaller numbers, that every numbered block but the entry is entered by an edge
from a bigger one, and that what can be reached is numbered (`WalkedWhole`).
Then the meeting: `CommonDominator` follows two branches of a tree until they meet
and `Dominating` does so for a list, both by recursion, which ends as a step always
goes to a bigger number (`CommonDominatorMeets`, `DominatingMeets`). What they
find has as its dominators those that all have in common, if the tree has
the dominators of each.
At last the tree: block by block in reverse post order the ancestors become the
dominators along forward edges (the folds `Dominators` and `Reaches` are
recursive functions, unfolded by lemmas of `Recursion`), and a back edge adds
nothing where its target dominates its source (`Reducible`). No bound on blocks,
edges or depth is used; where the open edges are not reducible the statement about
dominators claims nothing, as in the run.

*Scopes.* `ScopesAreSound` proves `ScopesSound`, the statement about
`analyze_variable_scope`, for every module whose flow of control keeps the rules
that SPIR-V has for loops and that neither the parser nor the analysis looks after
(`LoopsStructured`): branches stay in the function; a loop is entered only by its
header and left only for its merge block, which no other header shares; what goes
backwards goes from inside of a loop to its header; a block that returns is no
header; a continue block lies in its loop and branches back. The analysis takes them
for granted, and the run's modules keep them: `MCSpirvRules.cfg` has TLC check
`RulesFollowed`, that every module of the run that gets as far keeps
`LoopsStructured`, but those in which a bogus conditional has collapsed a loop's
header (for these there is only TLC's word). This configuration is not one of the runs
above: it asks about the instance, whether the theorem's precondition holds of
it, and not about the code. The theorem is about `ScopeSpec`, the
parser, the walk and the analysis. Its invariant is `ScopeSound`: the walk's, that
the tables of edges say what the blocks say (`EdgesTold`), and for each stage of the
analysis what it has found (`Analyzed`, `PreservedFound`, `LoopsGiven`,
`VariablesFound`, `PotentialsFound`, `LoopVariablesFound`). What remains are
statements about the control-flow graph:

* The block that declares a variable is above all that use it: the meeting of the
  dominators is a common dominator (`DominatorOfMeets`), and so is what the moves
  out of loops and out of continue blocks make of it (`LiftedAbove`).
* The loop that `find_loop_dominators` gives a block is around it, and a block
  without one has no loop around (`FoundIsAround`, `OutermostAround`). So once control
  is below a block with no loop around it, it does not come back over that block but
  in a loop that this block heads (`NotBack`), and a write is not lost by a new
  declaration. Where the declaration does stay in a loop, every iteration writes
  first (`WrittenFirst`).
* A variable becomes a for loop's own only if the code finds a line of blocks from its
  declaration to the header, with no other way in or out. The line's beginning
  dominates the header (`LineDominates`), and what it dominates and the code's search
  behind the merge block does not meet is reached from there only by coming back
  over the declaration (`ThroughTheLine`).
* A parameter that some way to a return leaves unwritten is found by the search for
  such a way (`NeededIsPreserved`).

The recursions of the code's searches end because they follow a descent in the
post order (`Descends` of `Recursion`).

Only model-checked: all liveness (`Terminates` of three components; fairness is
out of the prover's reach), and two invariants. The demangler
(`SignaturesAsDeclared`), the writer and the two interpreters
(`ControlFlowPreserved`) are RECURSIVE operators, with which the prover has no
arithmetic. `ScopesSound` and `DominatorsExact` are checked without the
preconditions of their theorems where they have them.

## What is not modelled

* COM reference counts. Each `ReleasePtr` is a local with one holder in
  straight-line code, and `main` holds the include handler throughout: no order
  of steps but the written one exists, and a model would restate it. (The handler's
  count starts at 0, main.cpp:50, so that a first holder other than `main` that
  lets go would delete it; nothing in the program is one.)
* A blob that was released before `CreateBlob` failed to replace it
  (main.cpp:101): the failure is in `IncludeFails`, what the caller does with the
  pointer is DXC's.
* `transpileSPIRV` ends with -1 when DXC has warnings (shadergenSPIRV.cpp:99),
  where the other back ends print them: it is one of the failures that `Driver`
  lets the back end have.
* The text inside a block's `toResourceBlock`, the formatting of declarations,
  `patchType`, and the includes listed in the header: no property is about them.
* Constant buffers with more than one variable: the code asserts that there are
  none.
* Two failures of one function (a `GetDesc` in the middle of an action) are taken
  where the action begins, as the run ends with -1 and the header is not used.
* Of SPIRV-Cross: expressions and their forwarding, temporaries, types, names and
  decorations (all of them text or arithmetic on text), and the HLSL emitter
  beyond how it can end. The Metal, C and C++ back ends, reflection to JSON and the
  C API are never called by this program; they, the headers of SPIR-V's
  enumerations and the emission of expressions are most of the repository's lines,
  so that the lines the map covers are a small share of it.
* In `BlockEmission`: a loop whose header a bogus conditional has overwritten is
  parsed and analysed but not written, as `LeadsThrough` follows it without an
  end; a continue block of several blocks flushes the phis of its edges as from
  its first one; legacy GLSL, in which cases may not fall through.
* DXC (external) and the build files.

## Plan

Done, in this order: `Batch`, `Driver`, `DriverProofs`, `DeclOrder`,
`StructGen`, `StructGenProofs`, `IncludeExport`, `IncludeExportProofs`,
`GenerateCPP`, `GenerateCPPProofs`; then `CombinedSamplers`, `BackEnd`,
`SpirvParser`, `ControlFlow`, `VariableScope`, `BlockEmission`,
`GlslExecution`, `Demangle`, `BackEndProofs`, `SpirvParserProofs`, `Recursion`,
`ControlFlowProofs`.

What is left: `GenerateCPP` composed with `StructGen` instead of the atomic call.
