# HotVM: a TLA+ verification project

HotVM replaces C++ functions of a running program by bytecode. A compiler makes the
bytecode from C++, a differ makes a patch from two versions of it, and a running program
applies the patch. A call reaches a function through a wrapper; a patch registers new
bytecode and flips the wrapper from native forwarding to the interpreter; a rollback is
meant to put everything back. This directory holds a TLA+ model of the system, the TLC
configurations that check it on small instances, and proofs of its main invariants for
every value of the constants, checked by TLAPS.

Source paths below are relative to the repository.

## 1. Inventory of the system

| Component | State | Operations | Depends on |
|---|---|---|---|
| Wrapper table (`src/runtime/wrapper_table.cpp`) | 1024 slots (`in_use`, `BindInfo`), `next_free_`, `alloc_count_` | `Alloc`, `Free`, `Rebind`, `Get` | — |
| Runtime (`src/runtime/runtime.cpp`) | the wrapper table, `dispatch_table_` (function → wrapper), the interpreter, a mutex | `RegisterNativeFunction`, `RegisterVmFunction`, `RebindWrapper`, `AdapterDispatch`, `NativeForward`, `UnpackArgsToVm` | wrapper table, interpreter |
| Interpreter (`src/vm/interpreter.cpp`) | `functions_` (function → bytecode), a register frame per call, the memory it reads and writes | `RegisterFunction`, `UnregisterFunction`, `Execute`, an action per group of instructions | runtime (calls to native functions) |
| Patch manager (`src/patch/patch_manager.cpp`) | `history_` of undo records, `current_version_` | `ApplyPatch`, `Rollback` | runtime, interpreter, manifest reader |
| Function patch table (`src/patch/function_patch.cpp`) | a saved binding per function | `Patch`, `Unpatch`, `IsPatched` | runtime |
| VTable patcher (`src/patch/vtable_patch.cpp`) | overwritten vtable slots | `PatchSlot`, `UnpatchSlot`, `UnpatchAll` | `mprotect` |
| Adapter and stubs (`src/abi/*/*.S`) | the adapter frame on the stack | stub → `AdapterEntry` → `AdapterDispatch` → return registers | runtime |
| Exception bridge (`src/eh/`) | none | VM exception ↔ C++ exception | — |
| Module and manifest files (`src/runtime/module.cpp`, `src/patch/patch_manifest.cpp`) | none (files) | `WriteModule`, `ReadModule`, `WritePatchManifest`, `ReadPatchManifest` | — |
| Type registry (`src/runtime/type_registry.cpp`) | types by id, ids by name, `next_id_` | `RegisterType`, `RegisterFromModule`, `IsDerivedFrom`, `GetFieldOffset`, `GetVMethodSlot` | — |
| Module differ (`tools/hotdiff/`) | none | `Diff`, `DiffFiles` | module files |
| Code generator (`compiler/codegen/`) | `reg_map_`, `next_vm_reg_`, `label_pcs_`, `forward_refs_` | IR → bytecode | — |
| Frontend (`compiler/frontend/`) | variables, next register, function, type and label | C++ AST → IR | libclang |
| Drivers, examples, tests | — | command lines, demonstrations | everything |

How they interact. The stub of a wrapper loads its number and jumps to the adapter, which
saves the argument registers in a frame and calls `AdapterDispatch`. That reads the slot's
`BindInfo` **without the runtime's mutex** and either calls the native function or runs the
bytecode in place, through a pointer into `functions_`; the result goes back through the
frame, by the `ret_kind` of the binding. `ApplyPatch` and `Rollback` run on whatever thread
calls them, hold no lock across their steps and change `functions_`, the slots and the
dispatch table under the callers. `FunctionPatchTable` rebinds the same slots. Bytecode
calls other functions by id (`DispatchCall`): bytecode first, otherwise the wrapper's native
function, for which it takes the runtime's mutex. The ids come from the compiler, which numbers functions and types in the order
of the source, so they mean something only together with the version they were made for;
the differ goes by names and takes the ids as they are.

What is hard here, and what makes each part correct:

- **Wrapper table.** A slot must never be handed out twice, the count must be exact, a
  full table must be recognised, stale and invalid ids must do no harm.
- **Patch manager.** The undo record is two vectors filled under different conditions;
  patches stack, overlap, treat a function twice, add and remove functions. Rollback
  must be an undo. No function may be lost, no wrapper may point nowhere, no call may
  be dropped, the version must stay the number of applied patches.
- **Function patch table.** What it saved is out of date as soon as a patch or rollback
  rebinds the wrapper.
- **Concurrent dispatch.** Every read of a binding, the search of the function map and
  every fetched instruction may fall between two writes of a patch.
- **VTable patcher.** Patches of the same slot nest; `mprotect` may refuse.
- **Compiler, interpreter, adapter.** Bytecode must do what its source means, called from
  C++ or from bytecode: registers, labels, calling conventions of two architectures.
- **Delivery** (files, differ, patch manager together). The program must run the version
  its developer takes it to run, whatever file is applied when.
- **Type registry.** Ids brought by modules and ids given out live in one space; lookups
  follow bases without remembering where they have been.

The exact list, with source lines, is `hazards` in `PROJECT.json`.

## 2. Modules

| Module | Models | Extends / instantiates |
|---|---|---|
| `HotVMTypes` | `types.h`: ids, `DispatchMode`, `BindInfo`, `VmFunction` | |
| `Maps` | the operations of `std::unordered_map` in use | |
| `WrapperTable` | the slots and their operations, as actions | `HotVMTypes` |
| `WrapperPool` | *abstract*: a pool of ids holding values | `Maps` |
| `WrapperClient` | the table driven by arbitrary callers; refines `WrapperPool` | `WrapperTable`, `WrapperPool` |
| `Runtime` | dispatch table, function map, outcome of a call | `WrapperTable`, `Maps` |
| `PatchManager` | `ApplyPatch` and `Rollback` over the runtime | `Runtime` |
| `UndoStack` | *abstract*: changes push previous values, undo pops them | |
| `PatchUndo` | the patches for which `PatchManager` implements `UndoStack` | `PatchManager`, `UndoStack` |
| `FunctionPatch` | the function patch table beside the patch manager | `PatchUndo` |
| `ConcurrentDispatch` | callers inside `AdapterDispatch` against the patching thread | `PatchManager` |
| `VTablePatch` | the vtable patcher | |
| `Words` | registers of `WordBits` bits: integers and doubles | |
| `Interpreter` | every instruction, frames, memory, exceptions | `Words`, `Maps` |
| `Adapter` | stub, saved registers, dispatch, unpacking, the way back | `Interpreter` |
| `Codegen` | IR → bytecode: registers, labels, jumps, calls | `Maps` |
| `Frontend` | libclang's cursors → IR and type information | `Codegen` |
| `SourceMeaning` | *reference*: what a source means, by evaluating it | `Words`, `Maps` |
| `HostCalls` | any module of bytecode functions behind wrappers, and a host program's call of one | `Adapter` |
| `Toolchain` | the module comes from the compiler; what the call must then return | `HostCalls`, `Frontend`, `SourceMeaning` |
| `ModuleFiles` | writers and readers of both file formats | `Maps` |
| `ModuleDiff` | the differ | |
| `Delivery` | files, differ and patch manager under a developer's hands | `PatchManager`, `ModuleFiles`, `ModuleDiff` |
| `TypeRegistry` | the registry and its lookups | `Maps` |
| `PatchManagerProofs`, `ConcurrentDispatchProofs`, `DeliveryProofs`, `VTablePatchProofs`, `TypeRegistryProofs`, `HostCallsProofs` | theorems and proofs | the module they are named after |
| `WrapperTableProofs` | theorems and proofs | `WrapperClient` and with it `WrapperTable` |
| `PatchUndoProofs` | theorems and proofs | `FunctionPatch` and with it `PatchUndo` |
| `MC*` | small instances for TLC | |

### State and actions against the code

*Data.* In the patching modules a body (`Bodies`) stands for all of a `VmFunction` but its
id; a signature (`Sigs`, `SigOf`) for `ret_kind`, `param_count` and `param_kinds`.
`Delivery` gives bodies their content; `Toolchain` has the bytecode itself. `call_conv`
and `this_adjust` are left out: nothing reads them. Slots start zeroed by `memset`
(`ZeroBind`: id 0, VM mode), a freed slot holds `BindInfo{}` (`DefaultBind`: invalid id,
native mode).

*Wrapper table.* `Alloc`, `Free` and `Rebind` are one action each, with the code's
tests (`id < kMaxWrappers && in_use`). The scan is `AllocResult`: the first free slot
from `next_free`, wrapping round.

*Patch manager.* One action per manifest entry (`ApplyModified`, `ApplyAdded`,
`ApplyRemoved`), per restored bytecode (`RestoreBytecode`) and per restored binding
(`RestoreBind`), with `ApplyBegin`, `ApplyEnd`, `RollbackBegin`, `RollbackEnd` around
them; `pc`, `todo`, `record` and `cursor` are the local state of the two functions.
What is saved, and when nothing is, follows the code to the letter: a modified
function's bytecode only if it has any, its binding only if it has a wrapper, nothing
for an added one, no binding for a removed one. `MoreBinds` is the loop condition that
pairs `modified_funcs[i]` with `old_binds[i]`. The program registers functions of its
own (`ProgramRegistersNative`, `ProgramRegistersVm`) whenever no patch is in progress.
A `Rollback` with empty history returns false and is a stuttering step.

*Function patch table.* `Patch` saves and does nothing else (its comment in
`function_patch.h:14` says "redirect"; the redirection is the caller's `RebindWrapper`,
`ProgramRedirects`). `made_at`, the version at which an entry was made, is not in the
code: it is what a careful program has to remember.

*Concurrent dispatch.* A caller reads `mode`, tests `native_fn`, uses it (the compiler
may load it again), reads `func_id`, searches the map, runs instructions in place and
stores the result: one step each. An instruction may be a `CALL` of any function
(`BeginCall`): `DispatchCall` searches the map again and runs bytecode in a frame of its
own, whose instructions count as the call's; for a target without bytecode it asks the runtime
for the wrapper (`GetTargetWrapper`) and its binding (`GetTargetMeta`), each under
`Runtime::mu_`, and reads `mode` and `native_fn` after the lock is released
(`ReadTargetMode`, `TestTargetFn`, `CallTargetNative`). `RebindWrapper` holds that lock while
its assignment is half done, so there a caller waits (`LockFree`); every other critical
section is a single step. The unpacking of arguments and the kind of the result
are left to `Adapter`. The assignment in `Rebind` reaches memory one field at a time in any
order (`WriteField`; `stored` is the memory, `bind_info` the intended value). An insertion
into or erasure from the function map during a search may make it miss (`torn`). The
data races of the code are thus choices among outcomes; a crash of the process inside
a torn search is not represented beyond "missed".

*VTable patcher.* `UnpatchAll(written)` is the whole loop; `written` are the entries
whose page `mprotect` made writable.

*Interpreter.* One step is one instruction of the innermost `ExecFunction`; instructions
that only differ in an operation share an action (`Compute`, `Load`, `Store`, `Jump`,
`Skip`). `frame.pc++` is part of the step; a `CALL` is passed by the pc only when its
callee returns. A VM exception is a C++ exception that no frame catches, so `Throw` ends
the call. `image` is `functions_`, `heap` the process's memory as far as bytecode sees it.
Undefined behaviour of the C++ (an unmapped address, `INT64_MIN / -1`, registers outside
the frame) ends a call with outcome `Undefined`.

*Words.* Registers have `WordBits` bits. A double is a sign and a whole magnitude: enough
to tell signed from floating operations (two zeros, the order of bit patterns) without a
floating-point library. Signed overflow in the interpreter is taken to wrap.

*Adapter.* The stub and `AdapterEntry` are one step, then `AdapterDispatch` (whose three
branches are the unused slot, `NativeForward` and `Execute`), `StoreResult`,
`AdapterReturn`. `FrameAddress` computes the stack pointer's alignment from the pushes and
subtractions of the assembly. `Stale` is the content of a register nobody has set.

*Compiler.* Cursors have a kind, a spelling, a type, a value and children. A name in the
intermediate representation is a sequence of parts, so that a function's mangled name
(`Mangled`: the spelling for C linkage, else the spelling and the parameters' types under
`_Z`) and a callee's spelling are the same only where the strings are. The lowering
functions, the register allocator with its `uint8_t`, the label table and the patching of
jumps are translated one by one. `Toolchain.Compile` is `main` of the driver.

*Host calls.* `Install` gives function number n wrapper n, as patches that add them one by one
do; `CallStub` is a C++ caller that uses the signature of what is behind the stub, `CallDirectly`
a program that calls `Execute`. `Obtain` stands for whatever the module comes from, and
`Compile` implements it (`HostSpec` is checked as a property of `Toolchain`).

*Files.* A file is the sequence of values written, each with its width; a reader that
meets another width, or the end, gets `Garbage`. Both formats are written and read by the
order alone, as in the code. `ReadModule` refuses another magic; the checksum is written as
zero and never looked at.

*Delivery.* `Compiled` are the versions as files, `Asked` the pairs that hotdiff is run
on. `expected`, which the code does not have, is the version the developer takes to be
running, one per applied patch; a patch that does not fit (made for another version, or
between versions whose numbers have moved) makes it `Unknown`, from which nothing is
claimed.

*Type registry.* A bulk registration is one step per type; a lookup is one step per type
it looks at. `first` and `orderly` remember whether different modules have been loaded
over each other. One thread uses the registry.

Definitions commented `Mutant of X` are deliberately wrong variants of `X`. They take
no part in any specification; each is paired in `PROJECT.json` with the property that
TLC finds violated when it replaces `X`, as evidence that the property watches that
code.

## 3. Runs

`tlc -config C.cfg M.tla`, with `C` and `M` as in `PROJECT.json`.

| Run | Instance | Shows | States |
|---|---|---|---|
| `wrapper_table` | 3 slots, every `BindInfo` over one function | types, exact count, late reuse, and the refinement of `WrapperPool` | 730 |
| `patch_manager` | 2 functions, 2 slots, 2 stacked patches of 1 or 2 entries, all actions mixed, one function twice, the table full | `VersionIsDepth`, `DispatchSound`, `VmBindRecoverable`, `NoCallDropped`, `RecoverableGrows`, and the inductive invariant `IInv` | 2.3 M |
| `patch_undo` | 2 functions, 2 slots, 2 stacked patches, 3 bodies of 2 signatures, redirections of both functions | under the restrictions below: refinement of `UndoStack`, `BoundToItsFunction`, `UnpatchedIsOriginal`, and the inductive `CarefulInv` | 0.8 M |
| `callers` | 1 caller, 2 functions, one modified and one added by 2 stacked patches in any order, and their rollbacks | `NeverNotFound`, `RunsItsFunction`, the inductive `ConcurrentInv`, and `CallsReturn` under fairness | 0.62 M |
| `vtable` | 3 slots, 3 entries | `OwnFunction` under any use, `CarefulUseKeeps` | 0.7 M |
| `compile` | some 150 small translation units and 19 modules built by hand, every call of them with arguments 1, 3 and -1, directly and through stubs, 8-bit words, arm64 | `ResultIsMeaning`, `ArgumentsArrive`, `ResultArrives`, `JumpsLand`, `CallsEnd`, the inductive `HostInv`, and that the toolchain implements `HostSpec` | 47 k |
| `delivery` | 6 versions, 7 pairs for hotdiff, 3 ids, 2 slots, 2 stacked patches | `RunsExpectedVersion`, `SignatureInStep`, and the inductive `DeliveryInv` and `VersionInv` | 163 k |
| `types` | 3 modules made by the frontend, 3 own types, 4 ids | `OwnTakesNoPlace`, `NamesResolve`, `AnswerIsRight`, `LookupsClimb`, `LookupsEnd`, and the inductive `RegistryInv` | 88 k |

Why the bounds are enough. *Patching:* two functions and two slots are what it takes to
confuse one function's wrapper with another's and to fill the table; two patches to stack,
with a third level adding nothing the undo record distinguishes; two entries to make the two
vectors of a record differ in length and in order. *Callers:* one is enough because callers
do not affect each other: a call reads shared state and writes only its own (two that take
the lock let each other in after one step). A call runs `CodeLen` instructions, those of nested
calls included: two give one `CALL` after another; one that recurses for ever is beyond
it. *Compile:* every
binary operator alone and beside every other, on either side; loops, branches, recursion,
nested calls and calls of functions before and behind, of an overloaded name and of C++
linkage; integers and doubles mixed, up to nine parameters. Eight-bit words overflow and change sign within the three arguments. 40 registers
hold every unit's functions, 8 frames the deepest recursion, and `Fuel`, the number of
iterations and calls the reference allows, ends all but the arguments that really are many
rounds. *Delivery:* the versions differ in a body, in a result's kind, by a removal, by an
addition, in numbering and in types only. *Types:* the modules disagree on which of two
classes is the base, have a chain of three, and a base that is unknown.

The compile run is on arm64, since on x86_64 every call through a stub ends at the adapter's
first store (`stub_faults`). `CHECK_DEADLOCK FALSE` stands in the configurations of
`Toolchain` only: a run ends with the answer of its one call.

Of the properties of `compile`, `ResultIsMeaning` and `CallsEnd` are claimed for the programs
`PlainProgram` describes and the arguments for which the source has a meaning (no overflow, no
division by zero). The other units are
run too, for the interpreter, the jumps and the adapter; what the compiler makes of them is
listed in section 5.

### When is a rollback an undo?

`PatchUndo` answers with the condition `Undoable`: every entry is for a function with
bytecode; a modified function also has a wrapper; no function has two entries; modified
functions come before removed ones; nothing is added. Under it the run `patch_undo`
shows that `PatchManager` implements `UndoStack` step by step, so rolling back restores
the values that the patch overwrote, for stacked patches and for functions that the
program registers in between.

`FunctionPatch` adds the other half. Redirections and patches must be nested: a binding is
saved once, put back at the version at which it was saved, and no rollback goes below that
version (`OnlyNested`); and a redirected function is not registered anew (`SameWrappers`),
for a patch applied in between has saved the redirected binding, which its rollback would
put into the new wrapper. Then `UnpatchedIsOriginal` holds. The differ, which lists the
entries in the order of an unordered map, does not keep to `Undoable`; `Delivery` therefore
claims the bytecode for every order (`RunsExpectedVersion`), and the wrappers' signatures
only until the first rollback (`SignatureInStep`).

### Disagreements between code and documentation

Each of these runs ends with a counterexample.

| Run | Property | What happens |
|---|---|---|
| `native_first` | `RollbackFlipsBack` | A native function is registered, a patch modifies it and is rolled back (the example of `README.md`). Having no bytecode, its id is not put on `modified_funcs`, so rollback does not get to its binding in `old_binds`: at version 0 the wrapper is still in VM mode and runs the patch's bytecode. |
| `call_lost` | `NoCallLostToPatch` | A call reads mode native, the patch nulls `native_fn`, the call returns without effect. |
| `for_increment` | `ForLoopsEnd` | The increment of a `for` loop is announced "for after body" and never emitted: the compiled loop does not end. |
| `stub_faults` | `StubsEnter` | The x86_64 adapter's frame is 8 bytes off the alignment its comment claims; the first `movaps` faults. |

Known from the models or the reading, without a run:

- rollback leaves bytecode, wrapper and dispatch entry of an added function;
- when one entry's function has a wrapper and no bytecode and the next has both, rollback
  gives the second the first's binding; likewise when a removal precedes a modification;
- a removal erases the map node that a frame is running; an assignment over a function's
  bytecode leaves a frame in the new code at its old pc; a search of the function map can be
  torn by an insertion (`missed` in `FindFunction`);
- a `CALL` that has found no bytecode for a native function looks at the wrapper next; if a
  patch installs the bytecode and switches the wrapper in between, it throws "Cannot dispatch
  call", though the function could be called at every moment (`cannot_dispatch`);
- a compiled C++ function that calls another throws: the callee's spelling is looked up among
  mangled names, and the id is `UINT32_MAX`, unless the callee has C linkage (units of
  `compile`);
- `UnpatchAll` undoes two patches of a slot oldest first, and forgets entries it could not
  undo;
- after a native call through a stub nobody has set `ret_kind`; x86_64 then returns the kind
  itself, zero, in `eax`;
- an added function may take the id of another function, and equal code may call another
  function once ids have moved, for which hotdiff reports "No changes detected"
  (`Delivery.Compatible`);
- `base_version_hash` is written and compared nowhere;
- an exception that leaves `Execute` under a stub meets assembly frames without unwind
  information, and the process terminates (`Adapter.Unwind`).

The roadmap of the repository's README lists multi-threaded patch coordination as open,
while its section on hot-patching calls a patch thread-safe: the concurrency runs say
what that leaves to callers today. A program that patches only while no call is in
progress is covered by `patch_manager` and `patch_undo`.

### Fairness

- `CallsReturn`: weak fairness of each caller that is inside `AdapterDispatch`, which any
  scheduler that keeps running the thread provides. Nothing is assumed of the patching thread,
  nor that a caller ever makes a call. Outside `DispatchCall` the code waits for nothing, so
  wherever the patching thread stops, a call returns or gets to the lock
  (`interpreter.cpp:379` and `381`); from there it returns if the lock is from some time on not
  held by `RebindWrapper`, though the patch may never be completed. A patching thread stopped in
  the middle of `Rebind` does block such a call. Strong fairness, that a caller gets a lock
  which is taken and released again and again, is not assumed, since `std::mutex` does not
  promise it: hence the premise `<>[]LockFree`. Among callers, whose critical sections are
  single steps, the model takes a waiting one to be let in.
- `CallsEnd`, `ForLoopsEnd`: `WF_vars(Proceed)`: a thread that is in a call runs on. Whether a
  call is made, or the compiler run, is not assumed.
- `LookupsEnd`: `WF_vars(Climb)`: a lookup is a loop that nothing outside it stops.

## 4. Proofs

`tlapm M.tla` for the eight `*Proofs` modules. Everything holds for every value of the
constants, under the assumptions declared with them: `TypesAssumption` (id 0 exists, the
invalid id and the null pointer are not ordinary ones, every body has a signature),
`WrapperTableAssumption` (at least one slot, the invalid id is no slot),
`PatchManagerAssumption` (manifests are finite sequences of entries; the bounds are
numbers), `DeliveryAssumption` (hotdiff is run on versions that exist, and the ids and bodies
are those the files hold), `VTableAssumption`, `RegistryAssumption` (the modules are numbered, and a base
comes before what is derived from it, as the frontend numbers them), `ArgumentsAssumption` (a
caller passes lists of words), `WordsAssumption` and `InterpreterAssumption` (sizes are
numbers). TLC evaluates each of them.

Four assumptions say what `hotvm-compile` and the files give the patch manager; TLC evaluates
them for the versions of `MCDelivery`, through the writers and readers of `ModuleFiles`:
`ManglingAssumption` (a name determines the kinds of the parameters, as a mangled name does),
`NumberingAssumption` (the functions of a module have different numbers, `codegen.cpp` takes
them as the frontend counted them), `GenerationAssumption` (two functions of one name with
equal code, kinds of parameters and result are equal: `codegen.cpp` numbers the registers as
the code mentions them and makes no unwind entries, so that what `FunctionsEqual` leaves out
does not differ either) and `FilesAssumption` (a module's functions and a manifest's entries
are read as they were written). The last is where an induction over the length of a file would
be needed; it is checked on the instance and taken from there.

**Wrapper table.** The scan is the part that needs arithmetic: `ProbeCovers` (every slot
is looked at), `FirstFreeExists` (by well-foundedness of `<`) and from them
`AllocResultFree`: `Alloc` takes a free slot and fails only when there is none. With the
lemmas of each operation this gives `ClientImplementsPool`, the refinement of the
abstract pool for any number of slots, and `ReuseIsLast`: the slot handed out last is
handed out again only when all others are taken, since the scan starts just behind it
(`ClientInv`).

**Patch manager.** `IInv` is inductive (`Invariance`). The properties by themselves are
not: that popping a record loses no bytecode needs to know that all the bytecode it
holds has been restored by then (`RestoredSoFar`) and that a rollback starts at the
record's first element (`NothingOpen`); that a wrapper is usable after a rollback needs
the same of every **saved** binding (`BindsUsable`), because `Rollback` may put a saved
binding in any wrapper; that in turn rests on `Recoverable` never shrinking. Two
functions never share a wrapper (`DispatchSound`) because `Alloc` never returns a used
slot. From `IInv` follow the theorems on types, count, version, dispatch, usable
bindings, calls not dropped, and (as an action property) `RecoverableGrows`.

**Rollback as an undo.** `RollbackIsUndo` proves the refinement of `UndoStack` for
`CarefulSpec`: patches within `Undoable`, redirections nested with them. The abstraction
reads the previous values off the undo records, so the invariant (`UndoInv`) has to say what
a record is at every moment: its vectors are in step and name no function twice
(`RecordsComplete`), the entries still to be applied are of functions it does not have yet
(`RestIsUndoable`), and what `Rollback` has passed is what it was (`RestoredExactly`). With
them, `EntryApplied` says of one manifest entry that it saves what it changes and changes
nothing else, and each of the patch manager's actions is a step of the stack or a stutter
(`StepRefines`). `WrappersKeepTheirFunction` comes on the way.

`UnpatchedProgramIsOriginal` looks further back than one record: why is what is left, when
all is rolled back and put back, what the program registered? `OriginalsFounded` answers by
induction on the version: whatever is in place, or saved in the record of the n-th patch, or
saved in an entry of the function patch table, is the program's own, or some record or entry
from below has saved what was there before. An entry counts from the version at which it was
made (`made_at`), which is where the nesting of redirections and patches enters; a record
that `Rollback` pops is one whose values are all back in place, and those it had saved were
founded one version below. At version 0 there is nothing below (`BottomIsOriginal`).

**Concurrent dispatch.** For any number of callers. `CallsFindTheirFunction`: if no manifest
removes a function (`NothingRemoved`), a call that reads mode VM finds bytecode, although
`mode` and `func_id` are read at different times and written in any order. The invariant
`LookupsFind` says so of every binding that memory may hold, which includes the mixtures of
an old and a new one. `FramesRunTheirFunction`: as long as the records are in step
(`RecordsInStep`, a condition on the behaviour and not on the callers), no frame runs the
bytecode of another function than the one it was entered for. The records stay in step for
manifests of one entry (`OneEntryFramesRunTheirFunction`), the instance that the run
`callers` checks; without that condition the second item of the list in section 3 is the
counterexample.

**Delivery.** Every step of a program under its developer's hands, but the start, is a step
of the patch manager (`StepIsStep`), so its invariant holds for whatever files are applied.
`WrappersFit` follows the pair of a wrapper's signature and the bytecode it runs through
modifications, additions (which take a new wrapper) and removals (which leave the old
one bound); `EntrySlot` is why a rebinding disturbs no other function. `SignaturesStayInStep`
follows, for any versions, compatible or not. `OneVersionPerPatch` ties what the developer
takes to be running to the patch manager's history.

`ExpectedVersionRuns` is the theorem about versions: between patches and rollbacks, every
function of the version that the developer takes to be running is in `functions` under that
version's number and with its code. It needs three things beyond `DeliveryInv`.

1. *What the differ lists* (`DifferenceTurns`). Each listing that the unordered maps allow has
   every element once (`ListingOf`), so between compatible versions no two entries have one
   number, every entry is a function that goes, changes or is new, and none is missing.
   `PatchTurns` says the same of the entries that `ApplyPatch` reads from the file.
2. *What one entry does* (`EntryApplied`, `EntryKeepsPatch`). While a patch is applied, what
   the new version needs is there or in the rest of the patch (`NewVersionArrives`), and every
   number it does not use is in the record or about to be (`OldVersionIsSaved`). A function
   that the patch adds is not saved; that is no loss because it is new, or is the very function
   again when the patch is applied a second time (`AddedIsNew`). That no entry's function is
   in the record before (`EntriesOnce`) is why the record holds the code from before the patch.
3. *What lies below* (`VersionsComeBack`). A rollback must find the version below, and the one
   below that. For every version in `expected` and every function of it, the lowest record from
   there on that has the function holds its code; if none has it, it is in place
   (`ComesBack`). Three lemmas carry this through a step: `BackKept` for a record that grows
   by the present code, `BackPushed` for a patch that ends, `BackPopped` for a record that is
   popped when all it held is in place (`BodiesRestored`, which needs `SavedOnce`). That
   `ApplyAdded` may overwrite without saving is safe for the versions further below by
   `NumbersStay`: between a version and a later one a number is kept or saved.

`AllOrNoneKnown` is the part about patches that do not fit: from then on nothing is claimed,
since their rollback may leave functions behind. `VersionInv` is the conjunction
(`VersionsCanBeHadBack`).

**VTable patcher.** `SlotsKeepTheirOwn` for any use. `CarefulStepsKeep`: whatever the
patcher was used for before, once the entries tell all and no slot has two of them, a
careful step keeps it so; "no slot has two" is what `UnpatchSlot` needs. `CarefulUseUndoes`
is the invariant this gives a program that is careful from the start.

**Type registry.** `RegistryInv` is inductive (`RegistryInvariance`). That a type without a
number takes nobody's place (`OwnIdsAreFree`) needs `next_id` above every id
(`NextIsFree`), which a module that brings its own numbers must not undo; that lookups only
climb (`LookupsOnlyClimb`) needs every base below what is derived from it
(`BasesDescend`), also for the base that a program looks up by name, hence `NamesKnown`;
and both need that the types of a module still to be registered are in order
(`PendingDescends`) and that no lookup runs meanwhile (`OneAtATime`). `NamesAreResolved` and
`AnswersAreRight` are further conjuncts: that an answer is right needs to know that no base
already passed had the member asked for (`NothingMissed`), that a name resolves needs a module's
numbers to be still its own (`ModuleKeepsItsNumbers`). That lookups end follows on paper, for
ids are natural numbers; TLC checks it (`LookupsEnd`).

**Host calls.** For any module of functions with any code and any signatures that `ArgKind` and
`RetKind` can express, any arguments and any number of stubs. (On x86_64 as it stands no call
gets past the adapter's first store, `stub_faults`, so there the theorems say nothing; no step of
the proofs uses the fault, so they stand for an adapter whose frame is aligned.)
`CallersArgumentsArrive`: a function called through its stub starts with the arguments its C++
caller passed, integers and floats mixed, as long as they fit the registers the adapter looks
at. The caller numbers the arguments of each class to place them and `UnpackArgsToVm` counts
them again to find them. That the two agree is `AdapterLooksThere`: no two arguments of a
class have one rank (`RegistersDiffer`, since an argument is in its own count and not in that
of an earlier one), so the register of a rank holds one argument. `CallersResultArrives`: the
caller finds the value with which `Execute` returned in the register of the result's kind. By themselves neither is
inductive: the registers must be the caller's until `AdapterEntry` has saved them and the frame
must be what it saved until the interpreter is done (`RegistersKept`), the binding that
`AdapterDispatch` reads must be that of the stub's own function (`BoundInStep`,
`StubsFunction`), and instructions, calls of functions and natives included, only add to the
record of what was entered (`VmStepEnters`, `FirstEntered`). `HostInv` is the conjunction
(`HostInvariance`). The theorems are about `HostSpec`; that the whole toolchain implements it is
checked by TLC, because the frontend is recursive.

**Only model-checked.** Liveness (outside the prover's reach, as are `ENABLED` and induction
over data); what only `Toolchain` says (`ResultIsMeaning`, `JumpsLand` and its types), which rests
on recursive evaluators, on folds whose result for every input only an induction would give, and
on powers of two; and, behind `ExpectedVersionRuns`, that
files of any length are read as they were written (`FilesAssumption`), again an induction.

## 5. Not modelled

Assumed throughout: one thread patches at a time, and the program registers functions
only while no patch is in progress; memory does not run out; a manifest entry's
`new_func.func_id` is its `func_id`, as the differ writes it; a patch file is not replaced
while it is read.

*Left out.* The exception bridge (a conversion between exception types; nothing in the
repository calls it); argument parsing and printing of the drivers; `CRC32` and the `Find`
helpers of modules; the bytes of files (widths and order are kept; a torn file is garbage
from some value on); `mprotect` itself; hardware memory models beyond the reordering of the
fields of one assignment; floating point beyond order, sign and overflow.

*libclang* is external: `Frontend` starts at cursors. The real library puts an
`UnexposedExpr` around the reading of a variable, for which `LowerExpression` has no case
and allocates a register that nothing writes (`ast_visitor.cpp`, the last branch); the
units with such a cursor are run, and `PlainProgram` excludes them from the claim on
results. So do these, each a thing the compiler does that its source does not mean:

- the first operator in an expression's text decides (`a * b - 1` becomes a product);
  `&&` and `||` become additions; parentheses, unary operators and `delete` lose their
  operands; a member's offset is zero; a `for` loop's parts are taken by position;
- comparisons of doubles compare bit patterns as integers; integers are 64 bits wide
  whatever their type; a `float` is read as eight bytes;
- a variable mentioned first after a call in a loop may get one of the registers the call
  moves its arguments to; a shadowed name overwrites the outer one; a fourth argument is
  dropped; beyond 256 registers the numbers wrap;
- callees are found by spelling although functions are named by mangled names (`PlainCursor`
  asks for callees of C linkage); namespaces are not entered; a class's slots start at 0 whatever its base has; a field's kind is an
  `IRType` taken for an `ArgKind`, one off.

*Adapter.* An argument is a full word whatever its kind: the run passes `long`, `double` and
pointers, and a narrow argument, whose upper bits the calling convention leaves open and the
adapter does not clear, is not distinguished. Arguments beyond the registers (six integers, though arm64 saves eight) are
zero; `RegistersSuffice` excludes them. The stubs end at 32 of 1024 wrappers (`kStubs`); a
program that needs more does not link. As it stands the code does not build: the
`static_assert`s on the size of `AdapterFrame` (`types.h:97` and `types.h:116`) ask for 248
and 264 bytes of a struct whose alignment makes it 256 and 272, and the x86_64 assembly is in Intel syntax without the
directive; the models follow what the lines say.

*Type registry.* Modules that each number their types from 0 overwrite each other's; the
run loads them so, and `NamesResolve` is claimed only for one module (`orderly`).

*What a next extension could take up:* signatures that change under a running call
(`Adapter` with two threads); torn patch files.
