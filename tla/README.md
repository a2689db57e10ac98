# Verification of RTorch_api

TLA+ models of RTorch_api, the Rust shell that puts a C ABI over the RTorch
compute library and is used from C++, Python and C#; TLC configurations that
check them on small instances; and TLAPS proofs, for every value of the
constants, of all the safety properties the passing runs check. `PROJECT.json` lists components, runs, the source
lines behind every definition, hazards, findings and theorems.

    tlc -workers 2 -config RuleRegistry.cfg MCRuleRegistry.tla
    tlapm RuleRegistryProofs.tla

## 1. Inventory of the system

| part | state | operations | interacts with |
|---|---|---|---|
| Rule registry (`src/rule.rs`, `src/ffi.rs:734-797`) | one process-wide `Mutex<HashMap<String, Arc<RuleFn>>>`, its poison flag | `register`, `register_c`, `exists`, `run`, `clear` | runs host callbacks, which may call it again; last-error; panic guard |
| Error reporting (`src/err.rs`, `rtorch_api_last_error`) | thread-local `LAST_ERROR` and `LAST_ERR_C` | `set_last_error`, `err`, `last_error` | every entry point |
| Panic guard (`src/lib.rs`) | none | `ffi_guard`, `ffi_guard_ptr` | wraps entry points; sets last-error |
| Formula sessions (`src/ffi.rs:136-322`) | counter `CTR`, temp DLL files, `PATH`, boxed sessions | `session_compile`, `session_execute`, `session_free` | g++ processes, file system, `rtorch::formula::run` |
| Tensors (`src/ffi.rs:34-134`) | boxed dimensions and data | `tensor_new`, `tensor_free`, accessors | last-error |
| RTW containers, models, memories (`src/ffi.rs:324-732`) | boxed decoded objects; thread-local `CSTR_BUF` | `*_decode`, `*_free`, accessors | the decoders of the rtorch crate; last-error |
| C++ wrapper (`cpp/`) | one handle per RAII object | probe-and-fill of `Session::run`, `Rtw::bytes`; moves; exceptions | the C ABI |
| Python wrapper (`python/`) | handles, dictionary `_rule_refs` of ctypes thunks | the same, `register_rule`, `run_rule` | the C ABI, the GIL |
| C# wrapper (`csharp/`) | handles, dictionary `_ruleKeeps` of GC handles, unmanaged blobs | the same | the C ABI, the garbage collector |
| C header (`include/rtorch_api.h`) | none | documented contracts | quoted by the properties |
| rtorch crate, g++, the OS | external | decode, dispatch, compile, spawn | chosen nondeterministically |

What is hard in it, and what makes each part correct:

- **Rule registry.** Callbacks re-enter on the same thread under a non-re-entrant
  mutex; rules are replaced while they run; native (Rust) rules may unwind and may
  capture values whose destructor is host code, and `insert` drops the replaced rule
  while the guard is still alive. Correct means: the lock is never held across host
  code, a rule outlives its execution, every operation is atomic, a failure
  leaves its own message, and control always comes back.
- **Sessions.** Compilations race in one working directory, processes crash and ids
  are reused, compilers outlive their hosts, failed compilations leave partial
  files, PATH is updated without a lock. Correct means: names are distinct, a session
  executes what it was compiled from, nothing is littered, dependencies are found.
- **Outputs.** The size is learnt in one dispatch and used in the next, and a handle may
  be closed between the two. Correct means: no byte beyond the capacity, the caller
  gets the output or an error, and unmanaged buffers live as long as the library may touch
  them and not beyond the call.
- **Handles.** Wrappers are moved, closed, dropped and finalized, in C# and Python by any
  thread that has a reference; addresses are handed out again. Correct means: every
  object has one owner, none is lost, and none is used or freed after it was freed.
- **Borrowed texts.** One buffer per thread is reused by every call. Correct means: a
  text outlives other threads' calls and the freeing of its object.
- **Bindings' rules.** The library holds raw pointers to thunks the host's memory
  management may reclaim. Correct means: what is called is alive.
- **Arithmetic.** Element counts and claimed entry counts are multiplied in a `usize`.
  Correct means: nothing wraps, and only shapes that are too large are refused. Python
  cuts a tensor's elements into nested lists by such products too.

## 2. The modules

| module | models | proofs |
|---|---|---|
| `RuleRegistry` | `rule.rs` and its entry points, step by step | `RuleRegistryProofs`, `RuleRegistryOwnersProofs`, `RuleRegistryStoreProofs` |
| `RuleStore` | what the registry promises: an atomic map with nested calls | implemented by both: `RuleRegistryStoreProofs`, `RuleBindingsProofs` |
| `PoisonableStore` | the same when destructors of the host may panic: a call may fail half way, and may break the store | implemented by `RuleRegistry`: `RuleRegistryStoreProofs` |
| `RuleBindings` | the rule helpers of Python and C#, composed with `RuleStore` | `RuleBindingsProofs` |
| `SessionFiles` | `session_compile`, `compile_once`, `session_free`, processes | `SessionFilesProofs` |
| `OutputProtocol` | `Session::run`, `Rtw::bytes`, `run_rule` over `session_execute`, `rtw_bytes` and rules | `WrappersProofs` |
| `Wrappers` | the RAII and disposable objects that own handles, composed with `OutputProtocol` | `WrappersProofs` |
| `TensorNew` | `rtorch_api_tensor_new`, the accessors, Python's `numpy` | `TensorNewProofs` |
| `BorrowedData` | decode, free and text accessors, last-error buffers | `BorrowedDataProofs` |

`MC*` modules add the symmetry sets and the structured constants of an instance.
Definitions called "Wrong form" are plausible mistakes (a dropped guard, a late
unlock, a wrapped product); no specification uses them. Each property is checked to
fail when one of them replaces the definition it imitates.

### RuleRegistry

`frame[t]` is thread t's stack of activation records; `sp[t]` its height. A call
enters with `CallRegisterC`, `CallRegister`, `CallExists`, `CallRun`, `CallClear`,
or, when argument checks turn it down, `CallBadArgument`. Then `Acquire` (the
`lock()`), one action inside the lock (`Insert`, `ContainsKey`, `CloneRule`,
`RuleNotFound`, `ClearAll`, or `RefusePoisoned`), `DropOld` for what an insertion or a
clear took out of the map, `Unlock` (the guard goes out of scope), for a run the
user code, `Release` (the call's own `Arc` is dropped) and `Return`, through
`CatchPanic` for the guarded entry points. A destructor that panics under the lock
(`DestructorPanicsUnderLock`) leaves the map changed and releases the Mutex; it poisons it,
as `MutexGuard` does, unless the thread was panicking already when it locked: never when a
rule further up its stack is being dropped by an unwinding call (`Unwinding`), and possibly
not otherwise, since the host code that made the call may be unwinding too. While user code is the newest record of a
thread's stack, the thread may make any call: that is re-entrance. An `Arc` is its
count in `refs`; a `Mutex` is an owner and a poison flag.

`RuleStore` is the abstract specification: a map and calls that take effect in a
single step. `RuleRegistry` instantiates it `WITH` the registry as the map and each
record as a call, pending until its critical section has read or written the map;
`ImplementsStore` is checked in run `rule_registry` and proved. It assumes rules without a host
destructor (`UserDrop = {}`): a destructor that panics under the lock fails a registration
that is in the map, and once it has poisoned the Mutex `exists` denies what is registered.

`PoisonableStore` extends it to rules with such destructors, and `ImplementsPoisonableStore`
maps the poison flag to `broken`: calls may also nest inside a destructor (`MayNest`), and
a call may fail after it has had its effect (`FailHalfway`, the panic under the lock). Either
the store goes on from there, the effect in it, or it is broken: the map is frozen and every
call is refused (`Refuse`). It is checked in run
`rule_destructors` and proved without an assumption on destructors.

### RuleBindings

EXTENDS `RuleStore`: since the registry implements that store, the helpers are
composed with it and not with the detailed registry. Each thread has a stack of
helpers in progress; a helper keeps its thunk (`Keep`, which differs between the two
languages), calls (`CallNative`), the store takes effect (`NativeEffect`), the
function pointer is called (`Enter`), and rules that run may use helpers in turn.
Reachability is `Alive`: kept, or in a helper's local variable. Whether the thunk was
alive when it was called is recorded in `live`, and in `raced` the names that were
registered while a run or a registration of the same name was in progress.

C# is safe without conditions. Python is not (finding 5), so the passing run states the
discipline under which it is: no name is registered while it is being run or registered,
by another thread or by a rule further up the stack.

### SessionFiles

Processes with threads, ids from a small set that are reused, a counter per process,
PATH, and one file per possible DLL name, whose content is the formula it was compiled
from. g++ is a process of its own; when its host crashes it goes on and may still
write. `Compile` is the part of `session_compile` before the compiler, then
`ReadPath`, `SetPath`, `RemoveStale`, `Spawn`, `CompilerEnds`, `CleanUp`, `Finish`.
`CompilePrebuilt` makes a session over a DLL of the user's (`UserDll`), which no session
owns; `CompileNothing` is the call that finds no compiler.
`Crash` also stands for a process that exits without freeing its sessions.

### OutputProtocol, TensorNew, BorrowedData

`OutputProtocol` has one caller; buffers are a capacity and the number of output
bytes at their start, and the two entry points are functions from the output's length
and the capacity to the code, the reported length and the bytes written; a null handle
(`closed`) is refused by both. `run_rule` asks for no size and starts at `Allocate`.
`unmanaged` holds the buffers of `AllocHGlobal` that a call of `Rtw.Bytes` or `RunRule` in C#
has made: one for each of the `args` inputs that are not empty (`AllocateInput`, in turn),
and number 0 for the output (`Allocate`). `Finally` is what the finally block leaves of them.
An allocation may throw (`OutOfMemory`): that of a buffer, which in `RunRule` comes before
the try and so ends the call with the inputs still allocated (`"nobuffer"`), or that of the
result (`"nocopy"`). `TensorNew` runs the loop over the dimensions round by
round in a word of `MaxWord`; `Numpy` is what Python makes of the finished tensor.
`BorrowedData` abstracts texts to a few values, one with an interior NUL, and payloads
to a length and a claimed count; what the external decoder answers is a choice. That a call
failed, and why (`Failed`), is recorded apart from the message it leaves (`SetLastError`), so
that a failing path without a message, such as a guard that only catches the panic, shows.

### Wrappers

EXTENDS `OutputProtocol`: one thread runs methods, whose two calls (`EnterCall`,
`ExitCall`) and own steps (`OwnStep`) are the protocol's, each call with the handle the
wrapper has at that moment. Other threads construct (`New`), move, close in three steps
(`CloseBegin` tests the handle, `CloseFree` frees it, `CloseClear` resets it) and drop the
wrappers. Arrays are fetched (`BorrowArray`) and read (`ReadArray`) in two steps, during a
method or, where the binding hands the pointer out, after it (`view`). `live` is the set
of objects; an address may be used again after a free.

The library does not protect an object that is freed while in use, nor a handle two
threads close at once, and no document promises that. Such a step sets `misused`, and
nothing is explored after it; the properties are about every other order, in particular
a close between the probe and the second call. What each language allows is in
`MayTouch` (C++ leaves a wrapper to one thread at a time), `Movable` and `Drop` (C# has
no finalizer: an object whose wrapper was never disposed of is in `lost`).

## 3. Runs

| run | shows | result |
|---|---|---|
| `rule_registry` | mutual exclusion, no host code under the lock, Arc ownership, no leak, own messages, refinement of `RuleStore`, progress | passes |
| `rule_destructors` | with a host destructor: only it can make a thread wait for itself, ownership stays right, a poisoned registry runs nothing new, and a panic that does not poison leaves a store that goes on: refinement of `PoisonableStore` | passes |
| `rule_error` | "Errored rules set last-error via the caller" (`rule.rs:14`) | violated |
| `bindings` | thunks and delegates are alive when called, and what is registered is kept; in Python for names that are not registered while in use | passes |
| `bindings_python` | ctypes thunks are alive without that condition (`python:421`) | violated |
| `session_files` | names, contents and ownership of temp DLLs through races, crashes and reused ids; a DLL of the user's is kept | passes |
| `session_path` | the compiler's directory is on PATH (`ffi.rs:280`) | violated |
| `wrappers` | payloads exact, capacity respected, run exact or throws, closed handles throw, unmanaged buffers live as long as they are needed; handles have one owner, no use after free, nothing lost | passes |
| `output_size` | the probe of `session_execute` reports the size (`hpp:101`) | violated |
| `output_csharp` | `Session.Run` returns output (`rtorch_api.h:77`) | violated |
| `tensor_new` | element counts exact, capped, refusals justified, `numpy` row-major | passes |
| `borrowed_data` | loans hold, messages are the thread's own and its last failure's, counts fit payloads | passes |

**What the violated runs found.** (1) `run` returns a rule's own code without touching
last-error. (2) The too-small path of `session_execute` leaves `out.len` alone, so
the probe learns nothing: `Session::run` in C++ works only for empty outputs, in Python
and C# for at most one byte. (3) C# `Session.Run` lets the library write into a native
copy and returns the managed array. (4) `compile_once` updates PATH by an unlocked read
and write; two compilers in different directories lose one. (5) Python drops the
previous thunk of a name before the registry lets go of it.

Other disagreements, without a run: `rtorch_api.h:140` mentions a duplicate name as an
error while `register` replaces; a prebuilt `.dll` that does not exist yields a
session although `rtorch_api.h:71-72` promises NULL; `PROJECT.md:68` calls the
registry thread-local; `PROJECT.md:316-317` says every export is guarded. The head
comment of the C# binding (`RTorchForModelsApi.cs:4-6`) has errors carry the thread-local
message, but no wrapper passes it on (`Check` is unused), and the constructors of C# and
Python report a fixed code, also for a tensor refused with `E_NOMEM`. `numpy` of a tensor
with a zero dimension is `[]`, without the outer lists. `Session.Run` of C# frees none of
the buffers `Blob.From` makes, and `RunRule` loses those of its inputs when an allocation
throws before its try (`RTorchForModelsApi.cs:306-310`).

### Bounds

- `rule_registry`: two threads, one name and the empty one, two C rules and a native
  one, nesting 2, four calls (`MaxCalls`). Every property relates at most two threads
  and a rule with its replacement, and four calls hold a registration, a run, a
  replacement during it and a nested call. `rule_destructors` has one
  C rule, two native ones with a destructor, nesting 3 and five calls: a destructor needs
  registration, replacement and a nested call before it poisons, and at nesting 3 the
  call that hangs may be two below the destructor, with a rule in between. They also
  hold a panic under the lock in a thread that is unwinding: a registration, a run, in its
  callback a registration over it and a panic, and a registration over that one by the
  destructor which the unwinding runs.
  Deadlock is not checked there: the thread that hangs in a destructor is the point,
  and `OnlyDestructorsDeadlock` says that it is the only way.
- `bindings`: two threads, three thunks (one registered, one replacing it, one for the
  refused name), one usable name, nesting 2. A nested helper and a helper of another
  thread are the same to liveness of a thunk. `bindings_python` needs two thunks.
- `session_files`: a process with two threads beside one with a single thread, two
  process ids, two formulas, two session ids for the first process and one for the
  second (`MaxSessions`), the compiler's directory on the first one's PATH already, one crash
  (`MaxCrashes`): a crash, a successor with the same id and the id's files all occur.
  `session_path` has one process with two threads and two compiler directories.
- `wrappers`: outputs of up to 3 bytes, changing freely between dispatches, a rule buffer
  of 2, a rule with up to two inputs that are not empty (the first, a later one, and none); three variables that hold wrappers, two addresses, and two threads beside the one
  that runs methods. A move needs two variables, a reused address a third; a close races
  a method and another close. One of the two addresses is never lost in C#.
- `tensor_new`: a word of 31, cap 8, dimensions on both sides of 0, 1, the cap and
  the word, rank up to 4.
- `borrowed_data`: two threads, one object at a time, a plain text and one with a NUL,
  payload lengths around the 4 bytes of the count and the 8 of an entry, and a word of
  31, in which 4 entries of 8 bytes wrap to 0.

### Fairness

Only `RuleRegistry` states liveness. `FairSpec` has weak fairness of each thread's
library steps, which is that the operating system keeps scheduling a thread that can
run. There is none for host code: a callback may run for ever, a host may never call.
Weak fairness is enough for acquiring the Mutex because calls are bounded, so that a
thread cannot be overtaken for ever; an unbounded host would need a fair mutex, which
`std::sync::Mutex` does not promise. The other modules have no liveness property: what
they wait for is a compiler, a formula or the host, none of which the code bounds. A rule
of Python waits for the GIL, which other threads give up whenever they call the library;
since rules run without the Mutex (`NoUserCodeUnderLock`) the two locks are never held
against each other, and the GIL is not modelled.

## 4. Proofs

Every theorem is for all values of the constants: any threads, processes, names, rules,
objects, lengths, word widths and bounds. Assumptions are the named `ASSUME`s of the
modules: values that mean "none" differ from the others, bounds are numbers, the cap is
within the word. The inductive invariants `OwnersInv`, `BindingsInv`, `FilesInv`,
`PathInv` and `WrapperInv` were checked with TLC on their component's instance first (`PathInv` also
on one of two single-threaded processes with two compiler directories). A module's
`...Step`, `...Keeps` or `...Fact` lemmas are one per action or kind of step, and the
theorems combine them.

**`RuleRegistryProofs`.** `RegistryTypeOK` with destructors included; `RegistryExclusion`
(`CriticalSection`) and `RegistryReleasedForCallbacks` (`NoUserCodeUnderLock`) assuming
`UserDrop = {}`. Neither is inductive alone: the lock's owner must be the thread whose
newest record is in the critical section, no older record may be, and no record may be in
a destructor. A nested call is pushed only on a record in user code, which under
`OnlyCallbacks` is a callback and so not under the lock; that is why re-entrance preserves
exclusion.

**`RuleRegistryOwnersProofs`**, with destructors of the host. `OwnersInv` adds to TypeOK
the shape of the stacks (`StackInv`: below the newest record all run user code, and what a
record holds follows from its place), `HolderInv` (the Mutex is owned by the thread that
has one record under the lock, not necessarily the newest, since a destructor may have
made more calls), `PoisonInv`, `BoxedOnce` (a closure is in one registration until it
takes effect), `RemovedInv` (a closure taken out of the map never comes back, and one that a
panic leaked is dropped by nobody) and `CountInv` (the count is the number of owners, and is positive exactly
as long as the closure exists). Each step moves one owner from one set to another
(map, held by a call, about to be dropped), and lemmas on cardinalities follow the count.
It gives `CountsAreRight` (`RefsCountOwners`), `RulesOutliveTheirCalls`
(`NoUseAfterDrop`), `IdleRegistryLeaksNothing` (`NothingLeaks`),
`DeadlockComesFromDestructors` (`OnlyDestructorsDeadlock`), `DestructorsKeepExclusion` (one
call of all threads and depths is under the lock) and, as an action property,
`PoisonIsFinal` (`PoisonStopsRules`).

**`RuleRegistryStoreProofs`**, for `UserDrop = {}`. `StoreInv` adds `LockInv`, that the
Mutex is never poisoned, and `ReportInv`: a call has no code as long as host code can
still run above it, so that only the newest call can have failed and last-error is still
its own. It gives `FailuresAreExplained` and the refinement `RegistryImplementsStore`:
under the mapping of `RuleRegistry` a call's begin is `Invoke`, the step inside the lock
is `Effect`, its end is `Respond`, and every other step changes nothing in the store.
`RegistryFailsCleanly` is the refinement of `PoisonableStore`, for any `UserDrop`. It needs
`OwnersInv` and `Settled`: a call's code is settled when it leaves the critical section, but
for a panic under the lock (`FailHalfway`), and a call that runs a destructor outside the lock has
failed already or is a run that found its rule, so that a later panic changes nothing in the
store.

**`RuleBindingsProofs`.** `BindingsInv`: the stack of helpers matches the stack of native
calls (`StacksMatch`); in C# whatever is registered, about to be, or found by a run is
kept; the registrations of a name that is not raced are alone (`Alone`), hence the
registry holds the last one's thunk (`LastRegistered`) and the dictionary the pair that
is registered or was found (`PythonKeeps`). It gives `BindingsTypeOK`,
`CallbacksStayAlive` (`CallbackAlive`) and `RegistryIsKept` (`RegistryKept`);
`PinnedCallbacksStayAlive` is the other side of finding 5: with C# alone `NoDeadCallback`
holds. `BindingsUseTheStore` shows that the bindings take only steps `RuleStore` offers, which
with the refinement above connects them to the detailed registry.

**`SessionFilesProofs`.** `FilesInv`: running processes have different ids, names carry the
id and a number below the counter, a g++ belongs to a waiting thread or to a crashed
process, and a name given to g++ is free unless an orphan has written there. All five
properties of the run: `FilesTypeOK`, `SessionsDontClash` (`NamesDiffer`),
`SessionsKeepTheirDll` (`SessionFileIntact`), `NoLitter` (`TempFilesOwned`),
`PrebuiltDllKept` (`PrebuiltKept`). `PathKeptWithoutRace` is the other side of finding 4:
`PathHasCompiler` holds if each process compiles on one thread, or all compilers are in one
directory (`NoPathRace`). `PathInv` says that what a thread is about to write to PATH has
all that PATH has, so that PATH only grows.

**`WrappersProofs`.** `ProtocolKeepsPromises` for the protocol alone; `WrapperInv` for the
composition: what the method is doing agrees with where the protocol stands
(`MethodInv`), the probe told the size or the handle that will be read again is null
(`RereadInv`), and every live object has an owner that no close is about to clear
(`OwnerInv`). It gives `WrapperTypesHold`, `HandlesStayOwned`, `NoUseAfterFreeHolds`,
`NothingIsLost` and `MethodsKeepPromises`, the protocol's five promises with other threads
closing, moving and dropping the wrapper between the two calls. Four of them rest on what the
probe told and the second call wrote; the fifth, `BufferLifetimes`, on `BufferInv`: nothing is
held before the first allocation, and what is held is complete when the second call begins. `ResultIsOutputWithoutCopy`
is the other side of finding 3: without C# `ResultIsOutput` holds.

**`TensorNewProofs`.** `TensorTypeOK` and `TensorWithinCap`: a product is stored only if it
fits the word, and the loop goes on only if it fits the cap. `TensorNumelIsProduct` and
`TensorRefusalsJustified` are about the recursive function `Product`. That it satisfies its
equations and grows with factors that are not zero (`ProductFact`, `ProductsGrow`) is an
induction over the rank, done on sets: `LeastNat`, from the library's `WFMin`, says that a
set of naturals has a least element, and `NatSetInduction` follows. `ProductInv` then
says that the accumulator is the product so far, and at most the one with every zero
counted as one, which can only grow to the end of the shape. `TensorNumpyRowMajor`
(`NumpyRowMajor`) is about `Reshape`, the recursive function that cuts nested lists: a list
of one dimension less holds a block of consecutive offsets whose length is the product of the
dimensions left, division and remainder take an offset apart into the index at this level
and the one below, and a walk down the lists adds them up to the row-major offset again; by
induction over the rank, with lemmas on quotients, suffix products and the existence of the
lists.

**`BorrowedDataProofs`.** A loan is always out of the borrower's own slot (`OwnSlots`), so
no other thread's call ends it, and the message there is of the thread's own last failure
(`OwnMessages`: every path that fails, the caught panic included, replaces the message):
`BorrowedTypeOK`, `BorrowedLoansHold`, `BorrowedMessageIsOwn`; `DecoderCountFits` is the
arithmetic of the claimed count in a `usize` of any width.

What the proofs changed in the models: `OnlyDestructorsDeadlock` named only the record
directly below the waiting call and was false from nesting 3 on; `EnterCall` of `Wrappers`
could begin a call while one was in progress; two `CASE` expressions (`Call`, `StoreCall`)
had overlapping arms, whose value TLA+ leaves open; `TypeOK` of `RuleBindings` said too
little of the native calls; `NonZero` was a filter and is now a shape of ones.

Only model-checked: `ControlReturns`, since liveness and `ENABLED` are beyond the prover, and
the violated runs, which are counterexamples. For three of these a theorem says under which
condition the property does hold; `RuleErrorsReported` and `ProbeReportsSize` fail on the
plain path, for every rule that fails and every output that does not fit.

## 5. Not modelled

Loading the DLL (a file look-up at import); argument checks of `session_execute` that
no binding can fail, and its copies of the inputs, which are read-only; `session_execute`
on several threads, which share only the session's path; numeric accessors, which read
one field of a decoded object; the contents of blobs given to rules; the header
(declarations); the rtorch crate and g++ beyond their possible answers; the mapping of a
DLL by the operating system, which on Windows keeps `remove_file` from removing it.
In the models `remove_file` of an owned DLL succeeds, and memory runs out only where a binding
allocates a buffer or a result: in Rust it aborts the process. What `Session.Run` of C# allocates
and never frees, and the memory it may run out of while it copies its inputs, are left out.

## 6. Plan

Order of work, the most important behaviour first. All of it is done.

1. `RuleRegistry`, its runs and `RuleStore`.
2. `RuleRegistryProofs`: types, exclusion, release before callbacks.
3. `SessionFiles`. 4. `OutputProtocol`. 5. `TensorNew` and its proofs, `BorrowedData`.
6. `RuleBindings` over `RuleStore`.
7. `Wrappers` over `OutputProtocol`, with `run_rule` and unmanaged buffers.
8. Sessions over prebuilt DLLs, the safe use of Python's rules, accessors and `numpy`,
   panics of the decoders.
9. Proofs of the other modules: owners and counts of the registry, its refinement of
   `RuleStore`, the files of sessions, the protocol and the wrappers, borrowed data, the
   bindings, the product of a shape.
10. Proofs of the row-major order of `numpy`, of the registry with destructors against
   `PoisonableStore`, and of the conditions under which the violated properties hold.
