# Win86emu in TLA+

Win86emu (the code calls itself *yact*) runs 32-bit x86 Windows programs on
Windows RT. A PE loader maps the x86 program and its DLLs, x86 emulation engines
execute their code, and stub DLLs forward every Windows call to the native
system. This directory holds TLA+ models of the parts of that program that keep
shared state, the TLC runs that check them, and theorems about them proved with
TLAPS. Paths below are relative to `src/yact/`.

## 1. The system

| Component | Code | State | Operations | Interacts with |
|---|---|---|---|---|
| Engine pool | `x86_emu/x86_emu.cpp` | `DBInUse[16]`, `DosboxLock` | `EmuExecute`, `FreeDB`, `LoadEmulatorDll` | every emulated call; exit notifications |
| Exit notifications | `cbacks/callbacks.cpp` 54-133 | `Notifications`: thread id -> list of (function, data) | `CbCallAtThreadExit`, `CbRemoveCallAtThreadExit`, `CbNotifyThreadExit` | engine pool, engine stacks, TEBs |
| Callback thunks | `cbacks/callbacks.cpp` 135-308 | `NativeCallbacks`, `X86Callbacks`, `CSCb` | create or find a thunk | user32, winmm and COM wrappers |
| Locks and containers | `inc/classes.h` | `CLock` (owner, count), `CSet` (trie), `CList` | lock, unlock, add, remove, for-each | everything above and below |
| Thread lifecycle | `system_dlls/kernel32_yact/kernel32_impl.cpp` | none of its own | `ThreadProc`, `ExitThread`, `TerminateThread`, suspend/resume, exception filter | pool, loader, notifications |
| Engine glue | `dosbox_emu/dosbox_emu.cpp`, `bochs_emu/bochs_test.cpp` | per-dll stack lists, the Bochs CPU list | `EmuInitialize`, `EmuExecute`, native-call port | pool, notifications |
| PE loader | `peldr/peldr.cpp` | `Modules[256]`, `ModulesCount`, `CSPeLdr`, per-module TLS | load, find, notify, close | pool (entry points), thread lifecycle |
| TEB and static TLS | `peldr/peldr.cpp` 825-1000 | one emulated TEB per thread, static TLS slots | `PeLdrGetCurrentTeb`, attach, detach | notifications |
| Program start | `peldr/program.cpp` | none | load the EXE, run it, close all modules | loader, pool |
| API wrappers | `system_dlls/*_yact/*_impl.cpp` | original window procedures, registry redirections, COM reference counts | one per wrapped function | callback thunks |
| x86-side code | `stub_dlls/*_stub/*_impl86.cpp` | SEH chain of the emulated thread | `RaiseException`, `RtlUnwind` | wrappers |
| Process hooks | `cpihook`, `AutoHook`, `imphook`, `thunk86` | hook flags | `CreateProcess` interception, retries | loader |
| Tools, UI, generated tables, third-party CPU cores | the rest | - | - | - |

How they interact. A native thread enters emulated code only through
`EmuExecute`. The emulated code leaves it again through an I/O port instruction
that calls a native wrapper; the wrapper may call `EmuExecute` again (a window
procedure, a DLL entry point, a comparison function), so activations nest. A
thread can leave several nested activations at once by a fault, by
`ExitThread`, or by being terminated, and then none of their epilogues runs.
What those epilogues would have undone is on the thread's exit list.

What is hard, and what makes each component correct:

- *Engine pool.* Engines keep the x86 registers in global variables of their DLL,
  so at most one activation may use an engine. Scan, release, exit list and
  faults must agree about who uses what; nothing may leak, and no exit may free
  an engine that someone else has taken since.
- *Exit notifications.* A list per thread id, delivered by the thread itself, with
  entries cancelled in place. Ids are reused, threads are killed.
- *PE loader.* `LoadLibrary` runs under one recursive lock and is re-entered from
  `DllMain`; imports may be cyclic, may fail half way, and threads start and
  exit while modules load.
- *Engine stacks, TEBs, TLS.* Stacks, CPUs and TEBs are cached and registered on the
  same exit list as the engines; what is given back, when, and in which order decides
  whether something is shared, lost or allocated again and again.
- *Locks over pointers.* A `CLock` over a null pointer makes the section, and deletes it
  again when it goes out of scope; what runs under it nests and is meant to be atomic.
- *Wrappers.* They keep a second copy of something Windows keeps (a window procedure, a
  reference count), with another key.

## 2. Modules

| Module | What it is |
|---|---|
| `CriticalSection` | `CLock` of `inc/classes.h`: a recursive lock owned by a thread id |
| `Lists` | what the specifications say about `CList` sequences beyond SequencesExt |
| `EngineLease` | abstract: engines leased to threads, one activation per engine |
| `EnginePool` | the pool, its exit notifications and the ways a thread ends |
| `MCEnginePool` | constants of the TLC instances |
| `PeLoader` | the PE loader, program start and shutdown, thread notifications |
| `ModuleLife` | abstract: what a module name goes through from load to close |
| `MCPeLoader` | constants of its TLC instances |
| `ListTheorems` | lemmas about removing from and adding to lists |
| `EnginePoolProofs` | `IInv` is an invariant of `EnginePool`, and what follows |
| `PeLoaderProofs` | the same for `PeLoader` |
| `PeLoaderOrderProofs` | on top of it, the order of attach and detach calls (`LoadOrder`), the depth of the recursion, and that `PeLoader` implements `ModuleLife` |
| `EnginePoolRefines` | `EnginePool` implements `EngineLease` |
| `EngineStacks` | stacks, Bochs CPUs and TEBs on the exit list they share with the engines |
| `MCEngineStacks`, `EngineStacksProofs` | constants of its instance; `IInv` is an invariant of it |
| `WindowProcedures` | abstract: what Windows promises about window procedures |
| `WndProcs` | the user32 wrapper's window procedures, which implement it |
| `WndProcsProofs` | that they do, for every set of classes, windows and procedures |
| `LocalLocks` | local `CLock` objects over a shared pointer, and find-or-make under them |
| `MCLocalLocks`, `LocalLocksProofs` | constants of its instances; `IInv` is an invariant of it |

### EnginePool

State: `DBInUse` is the array of the code, with `NoThread` for 0. `DosboxLock` is
its lock. `NotificationsLock` is the critical section inside the `CSet` `Notifications`. `frames[t]` is the stack of live `EmuExecute` activations of thread
`t`, each by its local `UsedDosBox` (`Bochs` for -1). `chosen[t]` is the loop
variable between the test at `x86_emu.cpp:148` and the assignment at line 150.
`notifications[t]` is the list under `Notifications` for the id of `t`, restricted
to its `FreeDB` entries (the other users of the list do not touch the pool).
`pending[t]` is the list `CbNotifyThreadExit` has detached and is delivering.
`lost` is a history variable, see below.

Actions, in the order of the code: `CallEmuExecute`, `EnterLock`, `ScanFree` or
`ScanFull`, `Claim`, `RegisterExitCall`, `LeaveLock`; then emulated code runs and
may call `EmuExecute` again; `ReturnBochs` or `Unregister` and `Release` for a
normal return. The engine pool's steps are split wherever another thread can
observe the difference or a `TerminateThread` can separate the halves.
`Release` and the body of `FreeDB` are one step each: they take the lock, store
one word and give the lock back; stopping a thread between the store and the
unlock differs from stopping it in a scan that follows only in who holds the
lock, which `TerminateOther` covers. In the same way `Notifications.Get` and `Set`
enter their section and leave it within the step that calls them (`RegisterExitCall`,
under `DosboxLock`; `Unregister`; `TakeList`): another thread can only see it owned if
the thread is terminated inside. `LeavesLocks` names what a terminated thread may leave
owned at each location: `DosboxLock`, or the section of `Notifications`, before or after
`Set` has removed the list.

- `SwallowException`: engines call native code inside `__try` and swallow faults
  (`dosbox_emu.cpp:182-189`, `bochs_test.cpp:222-229`), `ThreadProc` does so for the
  outermost activation. The fault ends the innermost activation without its epilogue.
- `UnhandledException`: `YactUnhandledExceptionFilter` ends the thread without
  `CbNotifyThreadExit`. It can only be reached where no `__try` is outside: on
  threads not made by `ThreadProc`, and in the DLL entry points `ThreadProc` calls
  before and after its `__try` block.
- `BeginExit`, `TakeList`, `DeliverFreeDB`, `FinishExit`: `ThreadProc`'s end, `ExitThread` and
  `TerminateThread` of the own thread.
- `TerminateOther(c, v)`: `v` stops wherever it is. Then the code calls
  `CbNotifyThreadExit(id of v)`, which ignores its argument and delivers the list of
  the caller `c`. `lost` collects the engines this breaks: those on `c`'s list and
  those of `v` that nothing will free. All promises are about the other engines,
  `Intact`.

Abstractions. `CSet` is a function of the thread id and `CList` a sequence. An entry
`CbRemoveCallAtThreadExit` cancelled is not removed by the code but has its function
cleared and is skipped at delivery (it is freed only when the thread exits, so
the list of a long-lived thread grows without bound): the model drops it. Failing
`malloc` is not modelled.

Bounds: `MaxDepth` (activations nested on a thread), `MaxListed` (entries a thread
may have when it calls `EmuExecute`; faults leave entries behind, so the list can
outgrow the stack), `MaxHolds` (how often killed threads may leave a lock
held before the model stops killing). Depth 2 is the first depth at which
a fault, a cancellation and an exit list can disagree; two threads on two
engines the least for an engine to be taken by someone else while its former holder
still runs.

Fairness (`FairSpec`): steps inside `EmuExecute`'s prologue and inside
`CbNotifyThreadExit` are taken by a thread that only needs the processor, hence
weak fairness. The steps that take `DosboxLock` or enter the section of `Notifications`
have strong fairness: a lock is held for a few instructions only, it is free again and
again, and the assumption is that Windows does not let one waiter starve for ever. There is no
fairness on emulated code: it need not return, fault or exit; nor on `TerminateOther`,
which may happen or not. A thread terminated with `DosboxLock` held, or inside the section
of `Notifications`, leaves it owned for ever, and then `EmuExecute` of every other thread
waits, for the second one with `DosboxLock` held: `CallRuns` and `ExitReclaims` name these
two outcomes (`LockLeftOwned`) and exclude every other reason to wait.

### PeLoader

State: `Modules` is the part of the module table below `ModulesCount`. `files[h]`
is the file name of handle `h` (a `PeFile` record), `mapped`, `indexed` and
`freed` say whether its `Base` and `PeLdrTlsIndex` are set and whether it was freed,
`told[t]` has the handles whose `PeLdrTlsIndex` has a value in thread `t` (what the
code takes for "this thread has been notified"). `stack[t]` has the frames of the
loader on `t`, each with one hold of `CSPeLdr` (the code holds the section several
times per frame; the holds of a frame begin and end together). `pc[t]` says what the
thread does below its frames. `noted[t]` is the handle `PeLdrNotifyNewThread(NULL, ...)` has
read without the lock. `fate` is history: what became of a module.

One load is `LoadLibrary` (lock and search), `Open` (allocate and list), `Map`,
`ImportFound` or `ImportLoads` once per import, `Attach` (TLS data, then the entry
points run) and `AttachReturns`; `OpenFails`, `MapFails` and `FailLoad` are the error exits.
Emulated code runs in the entry frames and at the bottom of a thread; it may call
`LoadLibrary` there. A search that succeeds returns at once and changes nothing, so it is no
action.

- `StartThread`, `EndThread`, `NotifyThread`, `NotifySkips`,
  `ThreadEntryReturns` are `PeLdrNotifyNewThread(NULL, ...)` as the thread procedures
  call it. It is about `Modules[0]` alone, and it reads the table without the lock. If the
  handle is freed before the lock is taken, the thread works on freed memory: what is there
  may still look like the handle (`NotifyThread` pushes a frame for the freed handle, and its
  entry point may fault), may be a new handle that `malloc` put there (`Reuses`), or may be
  neither, which ends the call or the process (`NotifyFreed`).
  A thread ends in one of three places, and a fault is caught differently in each:
  after the thread function (`"return"`), in `yact_ExitThread` (`"exit"`: the engine's
  `__try` around the native call goes on with the thread) and in the
  unhandled-exception filter (`"filter"`).
- `FaultCaught`, `FaultEndsThread`, `FaultEndsProgram`, `FaultEndsProcess`: a fault in an entry point unwinds
  to the innermost `__try`: around the native call in which emulated code called the
  loader, in `PeLdrGetProcAddressA`, in `PeLdrStartProgram`, or the unhandled-exception
  filter. Whether the `CLock` destructors of the frames in between run is not
  defined for the build's exception model, so both outcomes are in the model.
- `ProgramReturns` (a fault of the program, or a debug build) or `CloseAllModules`,
  `CloseModule`, `DetachReturns`, `FreeModule`, `CloseDone`; then `PeLdrStartProgram` has
  returned (`"done"`) and other threads run on until `ProcessEnds`.

Abstractions. File names stand for what `PeLdrAreNamesEqual` compares: the last path
component without `.dll` and `.86.dll`. `Resolved` is what `PeLdrSearchPath` does to a name:
it replaces any extension by `.86.dll` and looks for that file first, so that
`WINSPOOL.DRV` is found as `winspool.86.dll`, which is listed as `winspool`. The table is
constant: the search path and the directories do not change. `Faithful` are the names under
which nothing but a load of that name is listed. `OneCopy` is about them; for the
others it is false, and `loader_names` shows it (`FileListedOnce`). `HandleKept`,
`FramesLive` and the order of entry points hold for all names. Imports are a constant table; `must` is FALSE for a dll that is
only reached through a forwarded export, whose failure the code logs and ignores.
Reading, relocating and export lookup are the `Map` step and the fact that imports are
looked up in order. `Flaky` files may fail to open or map, `Faulty` ones may fault.
Native handles do not occur: the import callback of `imphook` returns 0 for whole
modules. `ExitProcess` ends everything at once, closing nothing. Left out:
a failing `TlsAlloc` or TLS index table, a `TerminateThread`
of a thread inside the loader (the section stays owned, so no other thread enters the
loader again; a thread with the same id finds what a fault with kept locks leaves),
entry points that end their own thread or wait for others, and `PeLdrIsValidX86`.

Bounds: `MaxOpens` handles (when they are used up there is no memory for another one,
which `PeLdrOpenModuleNoAdd` handles), `MaxModules` for
`MAX_MODULES` (5 in `loader_safe`, so that the table fills; 7 in `loader_live`, so that only the
search for a name keeps cyclic imports from recursing),
`MaxHolds` (holds of `CSPeLdr` when an entry point faults: faults may leave holds
behind). The instances have a program with two dlls that import each other, and a dll that
reaches one of them through a forwarded function and imports the other; `loader_safe` has
that one as the stub that another name is found as, `loader_live` one more dll that imports
it. Every way an import can be found, loaded, cyclic or failing occurs.

Fairness (`FairSpec`): the loader's own steps are weakly fair; a thread that waits in
`PeLdrNotifyNewThread` gets `CSPeLdr` if it is free again and again; entry points
return, also those that call the loader again and again (strong fairness). Nothing obliges emulated code to load, start or exit. That closing
ends is not claimed: `DllMain` may load modules that were closed already, and two
dlls that load each other at `DLL_PROCESS_DETACH` keep the loop in
`PeLdrCloseAllModules` busy for ever.

`ModuleLife` says what of all this the rest of the program may rely on, without handles,
frames and the lock. `life[f]` is what has become of the module of name `f`: `"absent"`,
`"new"` (its load has begun), `"attached"` (its entry point runs), `"loaded"` or `"failed"`;
`busy[t]` are the names `t` is loading, one load inside the other. `Lives` and `Busy` of
`PeLoader` are the refinement mapping: the fate of the listed copy of the name, and the names of
the modules the loading frames of a thread work on. Only `Faithful` names have one copy, so
these are the files of `ModuleLife`. It is coarser where the code keeps
something of its own: opening, mapping and each import are one state `"new"`, a fault that
unwinds several loads is one `Fail` of a set, with kept locks or without, and what happens
to a handle that has left the list, or to the frames of a notification, is no step at all.

Observations no property states, because nothing in the repository promises
otherwise: modules are closed in reverse order of opening, and an importer is opened
before its imports, so a dll is detached and freed before the dlls that use it;
`PeLdrNotifyNewThread(NULL, ...)` uses a handle that was freed after it was read, also under
the lock (`FramesLive` promises for loads and closes that they do not, and excepts the frame
of a notification); a module whose load failed is detached without ever having been attached.
Two more disagreements with a comment show in the models without a run of their own: a module
whose file could not be read keeps its `Base` (`MapFails`), and later loads find it as if it
were loaded, though `peldr/i_peldr.h:27` says of `Base` "0 if not loaded yet"; and in `WndProcs`
`GetWindowLong` after `SetClassLong` tells a procedure that the window does not run
(`user32_impl.cpp:98-101`), one of the reasons to call the class `blurred`.

### EngineStacks

An activation needs more than an engine: a stack, for Bochs a CPU object, and the TEB of
its thread. `used[t]` is the sequence of what the live activations of `t` took (an engine
and a stack each, or `Bochs`, a CPU and a stack), `listed[t]` the whole exit list of `t`
(the resource names the function: `FreeDB`, `ReuseStack`, `ReuseBX_CPU`, `FreeTEB`),
`pending[t]` the part being delivered, `idle` what is in `StackList`, `CpuList` or has
`DBInUse` 0, `dll[s]` the engine dll that allocated stack `s` and keeps it. `void` is
history: what a `TerminateThread` broke. The promises are about the rest.

`LeaseBox`, `UseBochs`, `TakeCpu`, `TakeStack`, `Register`, `CreateTeb`, `RegisterTeb` and `EnterCode`
are the way into the code, `Unlist` and `Put` (once per resource) the way back;
`SwallowException`, `UnhandledException`, `LeaveForeign`, `BeginExit`, `Deliver`,
`FinishExit` and `TerminateOther` are as in `EnginePool`. The order matters: entries are
added at the head, so an exit gives a stack back before the engine whose dll keeps it, and
the next lease finds it there. `OneStackPerEngine` says that it always does.

Abstractions: taking a DOSBox engine and registering `FreeDB` is one step (`EnginePool`
has the steps and `EnginePoolRefines` shows that a lease is what they amount to; a thread
terminated in between is in `EnginePool`). `StackList` and `CpuList` are sets: all their
members are alike. A TEB and the static TLS array in it are one resource with one entry,
though the code registers `FreeTEB` for the pair. `TebTlsIndex` is chosen before the first
thread starts. Not modelled: `EmuInitialize`, which runs one `ret` instruction on an engine
when it is first loaded, and a program that calls `TlsFree` on an index it does not own.

A TEB is allocated (`CreateTeb`) before it is put on the list (`RegisterTeb`): a thread
terminated in between loses it, and `void` has it from then on. `TebUnlisted` of `IInv` says
of a TEB at this point that nobody else has it and no list names it.

Bounds: `MaxDepth` and `MaxListed` per thread (`MCEngineStacks`: one thread nests two
activations, on the engine and on Bochs, the other, which kills, runs one),
`MaxVoid` = 0: one `TerminateThread`, after which the resources it broke are void.

### WndProcs and WindowProcedures

Windows keeps a procedure per window. The wrapper keeps the x86 procedure in
`OrigWndProcs`, by the name of the class. `WindowProcedures` says what programs may rely
on; `WndProcs` has one action per group of wrappers: `RegisterClass`, `GetClassInfo`,
`GetWindowLong`, `SetWindowLong`, `SetClassLong`, and for Windows `CreateWindow`,
`DestroyWindow` and `Message` (which runs the wrapper's `WindowProc`). `seen` is what the
program last observed. Two history variables say what goes wrong and for which classes.
`superclassed` are the classes the program registered with a native procedure, which
`GetClassInfo` tells it with the high bit set: `RegisterClass` stores it like any other, and
`WindowProc` then emulates a native address. `wnd_superclass` shows that the debug check
of `WindowProc` can fail this way, and `NativeOnlySuperclassed` that no other sequence of
operations gets there. `blurred` are the classes whose windows and entry have come apart,
for that reason, by an operation on one of several windows, by a second registration, by
`SetClassLong`, or because an entry outlives the window it was changed through. For every
other class the wrapper implements `WindowProcedures` (`ImplementsProcedures`), and what
happens to one class leaves the others alone. That each cause of blurring is a real one is
in the code: the entry is per class (line 159), `RegisterClass` stores before Windows
answers (line 49), `SetClassLong` changes the entry that windows created before share.

Abstractions: the high bit of an address is membership in `NativeClass` instead of `X86`.
Operations are atomic; the `std::map` has no lock, and what two threads do to its tree is
not modelled. Not modelled: `DWL_DLGPROC`, the conversion of message parameters,
`CallWindowProc` (which keeps no state), class atoms and the case of names, and a program
class that shadows a native one.

### LocalLocks

`CLock L(&CSPeLdr); L.Lock();` makes a local object over a pointer. `locals[t]` is the
sequence of these objects of `t`, with the pointer (`of`), `OwnCS`, and the `key` the
function looks up. `CS[p]` is the section the pointer has; `raw` are sections that are
allocated, `ready` those that are initialized. `Construct`, `Create` and `Initialize` are
the constructor, `Lock` and `Enter` the two halves of `CLock::Lock` (the pointer is read,
then the thread waits), `Find` and `Make` the function's own work, `Unlock` and `FreeCS`
the destructor. A step that uses a section which is not there, or leaves one it does not
own, or deletes one that another thread needs, sets `misused` to the pointer: what Windows
does then is undefined, and the model stops. `CSPeLdr` has its section before `main`
(`PeInitLdrCs`), so no object deletes it. `CSCb` is 0 at the start, and every thread may make
callbacks: a thread that gets a `CLock` for it while another has one sets the history
variable `raced`. From then on two sections may exist for the pointer, one thread may
delete what another waits for, and a callback may be made twice.

The properties hold with all of that in the model. `NoMisuse`: the section of `CSPeLdr` is never
misused, nor is `CSCb`'s as long as no two threads raced for it. `MadeOnce`: the same for what is
made twice. `NoCircularWait` has no exception: threads that wait for `CSPeLdr` and for
sections of `CSCb`, current or replaced, never wait for each other. `locks_callbacks` shows
the race itself (`FreedWhenNotNeeded`).

Bounds: in `locks_safe` three threads, three nested objects per thread (a load inside
`DllMain`, a callback made under it), one key and four sections, so that each thread can have
made one of its own; in `locks_callbacks` two threads, depth two, two keys.

## 3. Runs

| Run | Instance | Shows |
|---|---|---|
| `pool_kills` | 2 threads (one may kill), 2 engines, depth 2 | type correctness, `Exclusive`, `RegisteredByHolder`, `BusyBoxRecoverable`, `IInv`, refinement of `EngineLease` |
| `pool_live` | 2 threads (one may kill), 1 engine, depth 2 | `CallRuns`: `EmuExecute` never waits for an engine; `ExitReclaims`: an exit gives every engine back; both unless a killed thread left `DosboxLock` or the section of `Notifications` owned |
| `pool_notify` | as `pool_kills` | violated: exit functions run only when their thread exits |
| `loader_safe` | 2 threads, 5 names, one of them found as another, failing files and entry points, table of 4 usable slots | `OneCopy`, `HandleKept`, `FramesLive`, `AttachAfterImports`, `DetachPaired`, refinement of `ModuleLife`, and the invariants the proofs use, `IInv` and `LoadOrder` |
| `loader_live` | 2 threads, 5 files, 6 handles, nothing fails | `LoadsEnd`, `NotificationsEnd`, and `RecursionBounded`: loads nest no deeper than there are files |
| `loader_notify` | 2 threads | violated: new and ending threads are announced to all modules |
| `loader_names` | 2 threads, a name that is found as another | violated: a file that is loaded is not opened and listed again |
| `stacks_safe` | 2 threads (one may kill), 1 engine, 3 stacks, 2 CPUs, 2 TEBs | `Exclusive`, `ListedByHolder`, `Recoverable`, `OneStackPerEngine`, `TebAlive`, `IInv` |
| `wnd_procs` | 2 windows, a native and a program class, 2 procedures, registrations with any procedure | `NativeOnlySuperclassed`, `Together`, refinement of `WindowProcedures` |
| `wnd_superclass` | the same | violated: `WindowProc` emulates no procedure marked native |
| `locks_safe` | 3 threads, all use both pointers | `NoMisuse`, `NoCircularWait`, `MadeOnce`, `IInv`, no deadlock |
| `locks_callbacks` | 2 threads, both use both pointers | violated: a section is deleted when it is no longer needed |

Each violated property quotes a comment of the code; PROJECT.json has the findings.

Why the instances are large enough. Depth 2 is the first at which a fault, a
cancellation and an exit list can disagree, and two threads on two engines the least for
an engine to be taken by someone else while its former holder still runs; that the
promises hold for more is what section 4 proves. The loader's five files have every way an
import can be found, loaded, cyclic or failing. `stacks_safe` is the smallest instance in
which one thread has the engine and Bochs, a fault can separate them from their stacks, and
the other thread takes over what an exit or a kill leaves.

Deadlock checking is on in `locks_safe`: threads that lock pointers and nest them in one
order never all wait, unless a section was misused (`Undefined`). It is off in the other runs because the system may really stop:
every thread may have ended at its bounds, a thread killed inside `EmuExecute` leaves
`DosboxLock` owned, the loader's process ends or waits for a section a fault left owned,
and stacks and TEBs are finite in the model.

## 4. Proofs

`EnginePoolProofs` proves, for every set of threads, number of engines and bounds,
that `IInv` is inductive. `Exclusive` alone is not: two activations stay apart
because (`FramesOwned`) an activation's engine is marked with its thread and occurs
once on its stack, (`LockHeld`, `ChosenIdle`) the engine a scan chose is still
idle when it is assigned, and (`RegisteredByHolder`, `ListedOnce`, `Window`,
`DeliveryPhase`) the exit list frees each engine at most once and only while
its owner still holds it. `BusyBoxRecoverable` closes the circle: an idle thread's
engines are on its list. The theorems are `TypeCorrect`, `EngineExclusive`,
`ExitFreesOwn`, `NoEngineLeaks`. `EnginePoolRefines` uses the invariant to show that
every step maps to a step of `EngineLease` or to a stutter (`Implements`).

`PeLoaderProofs` proves, for every set of threads and files, every import table and
every bound, that the loader's `IInv` is inductive. `OneCopy`, about `Faithful` names, is not
inductive alone: a module is listed some steps after the search that did not find it. It holds because
(`LocksHeld`) a thread with frames owns `CSPeLdr` often enough to give back each of
its holds, so that no other thread opens in between, and because (`FramesSound`) the
frame that is to open a file is the innermost, so that its own thread runs no emulated
code before the file is listed. `LocksHeld` has to count: a fault may leave
`CSPeLdr` held more often than there are frames, never less. `FramesLive` needs the
place of `PeLdrCloseModule` (`WholeProcess`, `FramesSound`): it is at the bottom of the main
thread, and the handle it frees is off the list (`ListSound`), so a load that one of its
entry points starts opens a new handle. `FreeModule` frees at the bottom, when no frame is
left that could name the handle, except one of a notification: `FramesSound` keeps these at the
bottom of threads that start or end, and excepts them, because they may work on a handle that
was freed (or given away again) after they read it. The theorems are `LoaderTypeCorrect`, `NoModuleTwice`,
`NoHandleLost`, `NoFreedFrame`. `ListTheorems` has the facts on sequences both proofs use.

`PeLoaderOrderProofs` proves, again for every import table, that `LoadOrder` is inductive on
top of `IInv`, and from it both properties about the order of entry-point calls. That a
`DllMain` finds its imports ready (`AttachAfterImports`) is not inductive: at the moment an
import is passed the loader only knows that its name is on the list, and a name stays
there whatever became of the load. `LoadOrder` says what a listed name means.
`NoLoadLost`: a listed module whose load has not ended has a frame that loads it, so a fault
that unwinds any number of frames forgets none. `LoadsSound` looks at each frame from the frames
below: its module is listed, `"new"` or `"attached"`, and loaded by no frame below
(`ModuleSound`); if the frame below waits for an import, this one loads that import
(`WantedSound`), which is why the import is there when the frame returns; and the imports
behind it are loaded, failed, or further down the stack (`PassedSound`). `FatesSound` relates
`Base` and `PeLdrTlsIndex` to what became of a module. A found name is then loaded, failed, or in a
frame; the frame is on the same stack because whoever has frames owns `CSPeLdr`, and below
because the innermost is the one that asks. An unwinding drops the frames above the catcher
and marks what they loaded as failed, so frames that stay lose nothing they rely on.
`CloseModule` takes a module off the list only when no stack has a frame, so no passed import
disappears under a load. The order holds for names that are found as other files too: what an
import is ready as is the listed module of the name or of the file that was found for it
(`Available`). The theorems are `LoadsInOrder`, `ImportsAttachFirst` and, as an action
property, `DetachesPaired`: only two steps call an entry point for a detach (`Growing`), both
with every stack empty; a module there that has a `Base` and no `PeLdrTlsIndex` was never attached,
and as no load is lost (`NoLoadLost`) it has failed.

`RecursionEnds` bounds the recursion of `PeLdrLoadModule` for every import table, twice. Above the
outermost frame (which may be a thread notification or a close) all frames load, or are about
to open, different modules, because a module is loaded by one frame only (`ModuleSound`).
Each is listed, and the table never has more than `MaxModules - 1` (`SlotLeft`), so there are
no more frames than slots (`SlotsDiffer`), whatever names are found as. If every file is
found under its own name (`Faithful = File`), they load files of different names, because a
name has one copy (`OneCopy`) and what is about to be opened is not on the list
(`FramesSound`): so they are no more than there are files (`NamesDiffer`). A load that could not
open its file is on top where the frame that was about to open it was, so the second bound is
shown for the steps, not for the states. That the recursion comes back is `LoadsEnd`, which stays
with TLC.

`LoaderImplementsLife` shows that every step of the loader is, for `Faithful` names, a step of
`ModuleLife` or a stutter. Whoever has frames owns `CSPeLdr`, so the thread inside the loader before a step and
the one inside after it are the same (`OneLoader`), and by `LoadOrder` that thread is busy with
exactly the names whose load has begun (`BusyAre`): `NoLoadLost` gives a frame to each of them,
`ModuleSound` a name to each frame. With that, `busy` follows from `life`, and each action is
looked at for what it does to the fates of listed modules alone: seven of them do anything
(`Quiet`). `Attach` needs `PassedSound` for the imports, `CloseModule` that no load is pending
when no stack has a frame.

`EngineStacksProofs` proves its `IInv` for every set of threads and resources. Every action
is first shown to have one of a few effects (`Taken`, `PutBack`, `Enters`, `Exits`, ...:
what it does to `used`, `listed`, `pending` and `idle`), and then each conjunct is shown to
survive each effect. `Exclusive` needs the windows in which a resource is taken and not
registered, or cancelled and not put back (`UsedListed`), and what the list says of its
holder (`ListedByHolder`, `ListedOnce`). `OneStackPerEngine` is about the far end of a long
story: it follows from `StackFirst` (an idle engine has its stack, and a list gives the
stack back before the engine), with `Shape` (each stack in `used` lies on its engine),
`PairListed` (a list that has the stack has the engine) and `PairVoid` (what a kill
broke stays lost). `TebLives` needs that a TEB
which is allocated and not yet registered is on no list and in one hand (`TebUnlisted`).
The theorems are `StacksInvariant`, `StacksTypeCorrect`,
`StackExclusive`, `ExitReturnsOwn`, `NothingLeaks`, `OneStack`, `TebLives`.

`WndProcsProofs` proves `Together` inductive with the type invariant, and from it that every
step maps to a step of `WindowProcedures` or a stutter (`ProceduresImplemented`).
`OnlyX86Emulated` proves that WindowProc emulates native addresses for classes in
`superclassed` alone. Nothing is assumed of what programs register or assign.

`LocalLocksProofs` proves `IInv` of `LocalLocks`, whichever threads lock whichever pointers.
For pointers that are not `raced` holds are counted: a section that is ready has as many
holds as there are objects that hold it, all of one thread (`HoldsCounted`). The
destructor may delete because (`ObjectsSound`) the object that made the section is the
outermost of its thread for the pointer, so that it is the last that needs it, and no other
thread has one; that is what a race takes away. What a race leaves is in `OwnersSound`: a
section that a `CLock` made is owned once, by a thread whose innermost function is under the
lock and about to leave it, whether or not a pointer still points to it; and nobody waits for
the section of another pointer (`StepsSound`). The theorems are `LocksInvariant`,
`LocksTypeCorrect`, `SectionsUsedRight` and `FoundOrMadeOnce`.
`NobodyWaitsInACircle` is the part of deadlock freedom that needs no ENABLED: if one pointer
only is held while others are locked (`OneNesting`, in the code `CSPeLdr`), a thread that
waits waits for one that goes on, or for one that waits for such a one. The owner of a section a
`CLock` made goes on by `OwnersSound`. The owner of `CSPeLdr` has an object that holds it, by
`HoldsCounted`; if it waits itself, then for another section, and the owner of that goes on.

Assumptions: the named ones of the modules (`NoThreadAssumption`, `PoolAssumption`,
`LoaderAssumption`, `StacksAssumption`, `WndAssumption`, `LocalLocksAssumption`), and the
one a theorem states (`OneNesting`). That there are
finitely many file names (`LoaderAssumption`) is so because paths have a bounded length; only
`RecursionEnds` needs it. Every safety
property that a passing run checks is a theorem, and so is each of the three refinements.
Only model-checked are liveness (`CallRuns`, `ExitReclaims`, `LoadsEnd`, `NotificationsEnd`) and
the absence of deadlock in `locks_safe`, which speaks of ENABLED: both are out of reach of
this prover. What of the latter can be said of a state alone is `NobodyWaitsInACircle`.

## 5. Not modelled

Most of the repository is not this program's own: the Bochs devices and both
instruction interpreters (`bochs_emu`, `dosbox_emu`) make up nine tenths of it, and the
stub tables are generated. What is its own and left out:

- instruction emulation, argument marshalling, relocations, export tables and resources:
  sequential work on data, whose result no other component's state depends on;
- SEH dispatch on the x86 side, COM wrappers, registry redirection, the priority
  trick behind `SuspendThread`, dialog procedures;
- `PeLdrIsValidX86` and the `CreateProcess` hook, the import hook, launcher and setup;
- failing `malloc`, `TlsAlloc` and thread creation; `CSet` as a trie.

Hazards that no property covers are in PROJECT.json with the reason. Observations no
property states, because nothing in the repository promises otherwise: a thread that the
exception filter ends leaves its exit functions uncalled until a thread with the same id
exits (`kernel32_impl.cpp:23`); a dll loaded by another thread is freed without
`DLL_PROCESS_DETACH` (`peldr.cpp:936`); the test at
`callbacks.cpp:305` lets an argument count through that is one past the callback table, and
the callbacks for six to eight arguments pass five.

## 6. Plan

Done: engine pool, exit notifications and thread lifecycle; the loader; engine stacks and
TEBs; window procedures; locks over pointers. What could follow: static TLS indexes, dialog procedures as a second table of `WndProcs`, COM reference counts, the
suspend trick, and `CSet` as a trie.
