------------------------------ MODULE PeLoader ------------------------------
(***************************************************************************)
(* The loader of x86 modules: yact/peldr/peldr.cpp, with the program that  *)
(* starts and closes everything (program.cpp) and the threads that are     *)
(* announced to the modules (ThreadProc and its kin in kernel32_impl.cpp). *)
(*                                                                         *)
(* Everything runs under CSPeLdr, which is recursive: an entry point of a  *)
(* module is emulated code, and it may call LoadLibrary again while the    *)
(* load that called it is still in progress.  The frames of one thread     *)
(* form a stack, and each frame holds CSPeLdr once.                        *)
(***************************************************************************)
EXTENDS CriticalSection, Lists, FiniteSets

CONSTANTS Main,        \* the thread of PeLdrStartProgram
          File,        \* module names: no path, case, ".dll" or ".86.dll"
          ExeFile,     \* the program, the only file that is not a DLL
          Resolved,    \* File -> the name of the file that PeLdrSearchPath finds for it:
                       \* another one for NAME.DRV if there is a NAME.86.dll
          Imports,     \* File -> its imports [dll, must], in order; must is FALSE
                       \* for a dll that only forwarded functions lead to
          Flaky,       \* files whose opening or mapping may fail
          Faulty,      \* files whose entry points may fault
          MaxModules,  \* MAX_MODULES
          MaxOpens,    \* bound: PE_HANDLEs there is memory for
          MaxHolds     \* bound: holds of CSPeLdr when an entry point faults

Import == [dll : File, must : BOOLEAN]

ASSUME LoaderAssumption == /\ Main \in Thread
                           /\ IsFiniteSet(File) /\ ExeFile \in File
                           /\ Resolved \in [File -> File]
                           /\ Imports \in [File -> Seq(Import)]
                           /\ Flaky \subseteq File
                           /\ Faulty \subseteq File
                           /\ MaxModules \in Nat \ {0}
                           /\ MaxOpens \in Nat
                           /\ MaxHolds \in Nat

Handle == 1 .. MaxOpens
NoHandle == 0

VARIABLES
    CSPeLdr,   \* the loader's critical section
    Modules,   \* Modules[0 .. ModulesCount - 1]
    files,     \* the file of every handle ever allocated
    mapped,    \* handles with a Base
    indexed,   \* handles with a PeLdrTlsIndex
    told,      \* thread -> handles whose PeLdrTlsIndex has a value in the thread
    freed,     \* handles PeLdrCloseModule has freed
    stack,     \* thread -> frames of the loader, innermost last
    pc,        \* thread -> where it is, below the frames
    noted,     \* thread -> the handle PeLdrNotifyNewThread read without the lock
    fate       \* history: handle -> what became of it

vars == <<CSPeLdr, Modules, files, mapped, indexed, told, freed, stack, pc, noted, fate>>

\* start: PeLdrStartProgram loads the program.  close: in PeLdrCloseAllModules.
\* done: PeLdrStartProgram has returned, other threads run until the process is over.
\* attach, return, exit, filter: in PeLdrNotifyNewThread(NULL, ..), called by
\* ThreadProc before and after the thread function, by yact_ExitThread, and by
\* YactUnhandledExceptionFilter.
Ending == {"return", "exit", "filter"}
Location == {"off", "start", "run", "attach", "close", "done", "over"} \cup Ending

AttachReason == {"process_attach", "thread_attach"}
DetachReason == {"process_detach", "thread_detach"}

\* open: PeLdrOpenModule.  map: PeLdrInternalLoadModule before it has read the file.
\* import: PeLdrProcessModuleImports.  entry: an entry point runs.  fail: the load
\* returns 0.  free: PeLdrCloseModule after the entry points.
Frame == [at : {"open"}, file : File]
         \cup [at : {"map", "free"}, mod : Handle]
         \cup [at : {"fail"}, mod : Handle \cup {NoHandle}]
         \cup [at : {"import"}, mod : Handle, next : Nat]
         \cup [at : {"entry"}, mod : Handle, reason : AttachReason \cup DetachReason]

Fate == {"new", "attached", "loaded", "failed", "detached"}

TypeOK ==
    /\ CSPeLdr \in CriticalSectionType
    /\ Modules \in Seq(Handle)
    /\ files \in Seq(File)
    /\ mapped \in SUBSET Handle
    /\ indexed \in SUBSET Handle
    /\ told \in [Thread -> SUBSET Handle]
    /\ freed \in SUBSET Handle
    /\ stack \in [Thread -> Seq(Frame)]
    /\ pc \in [Thread -> Location]
    /\ noted \in [Thread -> Handle \cup {NoHandle}]
    /\ fate \in [Handle -> Fate]

Init ==
    /\ CSPeLdr = Unowned
    /\ Modules = <<>>
    /\ files = <<>>
    /\ mapped = {}
    /\ indexed = {}
    /\ told = [t \in Thread |-> {}]
    /\ freed = {}
    /\ stack = [t \in Thread |-> <<>>]
    /\ pc = [t \in Thread |-> IF t = Main THEN "start" ELSE "off"]
    /\ noted = [t \in Thread |-> NoHandle]
    /\ fate = [h \in Handle |-> "new"]

-----------------------------------------------------------------------------
(* Frames and the module list                                              *)

Top(t) == Last(stack[t])
At(t, where) == stack[t] # <<>> /\ Top(t).at = where

\* Emulated code runs on t: the program itself, or an entry point the loader calls.
Emulated(t) == (pc[t] = "run" /\ stack[t] = <<>>) \/ At(t, "entry")

\* Calls of the loader, each with its own hold of CSPeLdr.
Push(t, frame) ==
    /\ CanEnter(CSPeLdr, t)
    /\ CSPeLdr' = Entered(CSPeLdr, t)
    /\ stack' = [stack EXCEPT ![t] = Append(@, frame)]

Become(t, frame) ==
    /\ stack' = [stack EXCEPT ![t] = Append(Front(@), frame)]
    /\ UNCHANGED CSPeLdr

\* Mutant: a module is loaded although an import of it cannot be.
Resumed_Ignores(s, ok) ==
    IF s = <<>> \/ Last(s).at # "import" THEN s
    ELSE Append(Front(s), [Last(s) EXCEPT !.next = @ + 1])

\* Mutant: an import that cannot be loaded is tried again.
Resumed_Retries(s, ok) ==
    IF s = <<>> \/ Last(s).at # "import" THEN s
    ELSE Append(Front(s), IF ok THEN [Last(s) EXCEPT !.next = @ + 1] ELSE Last(s))

\* PeLdrLoadModule returns to the frame below: a module whose import failed fails
\* too, unless the import was only needed for a forwarded function.
Resumed(s, ok) ==
    IF s = <<>> \/ Last(s).at # "import" THEN s
    ELSE LET f == Last(s)
             goesOn == ok \/ ~Imports[files[f.mod]][f.next].must
         IN  Append(Front(s), IF goesOn THEN [f EXCEPT !.next = @ + 1]
                              ELSE [at |-> "fail", mod |-> f.mod])

Return(t, ok) ==
    /\ CSPeLdr' = Left(CSPeLdr)
    /\ stack' = [stack EXCEPT ![t] = Resumed(Front(@), ok)]

\* Holds of CSPeLdr that t gives back if nothing faults.
Holds(t) == Len(stack[t]) + (IF pc[t] = "close" THEN 1 ELSE 0)

\* The destructors of n holders run.
LeftTimes(cs, n) == IF cs.count <= n THEN Unowned ELSE [cs EXCEPT !.count = @ - n]

\* The process ends, for all threads at once.
ProcessOver ==
    /\ pc' = [t \in Thread |-> "over"]
    /\ stack' = [t \in Thread |-> <<>>]

Opened == DOMAIN files
Listed == ToSet(Modules)

\* PeLdrFindModule finds the name on the list, whatever became of the module.  The list
\* has the names of the files that were found, which need not be the ones asked for.
Found(f) == \E h \in Listed : files[h] = f

\* Names under which nothing but a load of the same name is listed.
Faithful == {f \in File : \A r \in File : Resolved[r] = f => r = f}

-----------------------------------------------------------------------------
(* PeLdrLoadModule                                                         *)

\* Mutant: PeLdrLoadModule does not lock CSPeLdr.
LoadLibrary_NoLock(t, f) ==
    /\ Emulated(t) \/ (pc[t] = "start" /\ stack[t] = <<>> /\ f = ExeFile)
    /\ ~Found(f)
    /\ stack' = [stack EXCEPT ![t] = Append(@, [at |-> "open", file |-> f])]
    /\ UNCHANGED <<CSPeLdr, Modules, files, mapped, indexed, told, freed, pc, noted, fate>>

\* The program is loaded by PeLdrStartProgram, modules by emulated code.  A name
\* that is found returns its handle at once: no step.
LoadLibrary(t, f) ==
    /\ Emulated(t) \/ (pc[t] = "start" /\ stack[t] = <<>> /\ f = ExeFile)
    /\ ~Found(f)
    /\ Push(t, [at |-> "open", file |-> f])
    /\ UNCHANGED <<Modules, files, mapped, indexed, told, freed, pc, noted, fate>>

\* malloc may give a new handle the memory of a freed one: a thread that noted that one
\* has now noted the new one.
Reuses(h) ==
    \/ UNCHANGED noted
    \/ \E r \in freed : noted' = [u \in Thread |-> IF noted[u] = r THEN h ELSE noted[u]]

\* Mutant: PeLdrOpenModuleNoAdd lets one module too many through.
Open_OneMore(t) ==
    /\ At(t, "open")
    /\ Len(Modules) < MaxModules
    /\ LET h == Len(files) + 1
       IN  /\ h \in Handle
           /\ files' = Append(files, Resolved[Top(t).file])
           /\ Modules' = IF Len(Modules) < MaxModules - 1 THEN Append(Modules, h) ELSE Modules
           /\ Become(t, [at |-> "map", mod |-> h])
           /\ Reuses(h)
    /\ UNCHANGED <<mapped, indexed, told, freed, pc, fate>>

\* Mutant: the slot before the new one is filled.
Open_WrongSlot(t) ==
    /\ At(t, "open")
    /\ Len(Modules) < MaxModules - 1
    /\ LET h == Len(files) + 1
       IN  /\ h \in Handle
           /\ files' = Append(files, Resolved[Top(t).file])
           /\ Modules' = Append(Modules, h - 1)
           /\ Become(t, [at |-> "map", mod |-> h])
           /\ Reuses(h)
    /\ UNCHANGED <<mapped, indexed, told, freed, pc, fate>>

\* PeLdrOpenModule: the handle is allocated and listed, under the name of the file that
\* was found, before anything is loaded.
Open(t) ==
    /\ At(t, "open")
    /\ Len(Modules) < MaxModules - 1
    /\ LET h == Len(files) + 1
       IN  /\ h \in Handle
           /\ files' = Append(files, Resolved[Top(t).file])
           /\ Modules' = Append(Modules, h)
           /\ Become(t, [at |-> "map", mod |-> h])
           /\ Reuses(h)
    /\ UNCHANGED <<mapped, indexed, told, freed, pc, fate>>

\* The table is full, the file cannot be opened, or there is no memory for a handle.
OpenFails(t) ==
    /\ At(t, "open")
    /\ \/ Len(Modules) >= MaxModules - 1
       \/ Resolved[Top(t).file] \in Flaky
       \/ Len(files) = MaxOpens
    /\ Become(t, [at |-> "fail", mod |-> NoHandle])
    /\ UNCHANGED <<Modules, files, mapped, indexed, told, freed, pc, noted, fate>>

\* PeLdrInternalLoadModule: memory, headers, sections, fixups.
Map(t) ==
    /\ At(t, "map")
    /\ mapped' = mapped \cup {Top(t).mod}
    /\ Become(t, [at |-> "import", mod |-> Top(t).mod, next |-> 1])
    /\ UNCHANGED <<Modules, files, indexed, told, freed, pc, noted, fate>>

\* No memory (the Base is not set), or the file cannot be read (it is, and stays).
MapFails(t) ==
    /\ At(t, "map")
    /\ files[Top(t).mod] \in Flaky
    /\ mapped' \in {mapped, mapped \cup {Top(t).mod}}
    /\ Become(t, [at |-> "fail", mod |-> Top(t).mod])
    /\ UNCHANGED <<Modules, files, indexed, told, freed, pc, noted, fate>>

\* The import the innermost frame is at.
Wanted(t) == Imports[files[Top(t).mod]][Top(t).next].dll
HasImport(t) == At(t, "import") /\ Top(t).next \in DOMAIN Imports[files[Top(t).mod]]

\* PeLdrProcessModuleImports: the next dll is on the list, loaded or not ...
ImportFound(t) ==
    /\ HasImport(t)
    /\ Found(Wanted(t))
    /\ stack' = [stack EXCEPT ![t] = Resumed(@, TRUE)]
    /\ UNCHANGED <<CSPeLdr, Modules, files, mapped, indexed, told, freed, pc, noted, fate>>

\* Mutant: PeLdrFindModule is not asked.
ImportLoads_NoFind(t) ==
    /\ HasImport(t)
    /\ Push(t, [at |-> "open", file |-> Wanted(t)])
    /\ UNCHANGED <<Modules, files, mapped, indexed, told, freed, pc, noted, fate>>

\* ... or has to be loaded first.
ImportLoads(t) ==
    /\ HasImport(t)
    /\ ~Found(Wanted(t))
    /\ Push(t, [at |-> "open", file |-> Wanted(t)])
    /\ UNCHANGED <<Modules, files, mapped, indexed, told, freed, pc, noted, fate>>

\* The load that PeLdrStartProgram waits for, with nothing else on the stack.
IsProgram(t) == pc[t] = "start" /\ Len(stack[t]) = 1

\* The error exit: the module stays listed, and keeps its Base.  If it is the program
\* itself, PeLdrStartProgram returns.
FailLoad(t) ==
    /\ At(t, "fail")
    /\ Return(t, FALSE)
    /\ fate' = [h \in Handle |-> IF h = Top(t).mod THEN "failed" ELSE fate[h]]
    /\ pc' = [pc EXCEPT ![t] = IF IsProgram(t) THEN "done" ELSE @]
    /\ UNCHANGED <<Modules, files, mapped, indexed, told, freed, noted>>

-----------------------------------------------------------------------------
(* PeLdrNotifyNewThread                                                    *)

\* Mutant: nobody looks whether the thread has been notified.
Notifies_Unchecked(t, h, reason) == h \in mapped

\* The entry points are called: the module has a Base, and the value under its
\* PeLdrTlsIndex does not say that this thread has been through here.
Notifies(t, h, reason) ==
    /\ h \in mapped
    /\ h \in indexed => (h \in told[t] <=> reason \in DetachReason)

\* The TLS data of the thread is set up or freed, then the entry points run.
Notified(t, h, reason) ==
    /\ indexed' = indexed \cup {h}
    /\ told' = [told EXCEPT ![t] = IF reason \in AttachReason THEN @ \cup {h} ELSE @ \ {h}]

EntryFrame(h, reason) == [at |-> "entry", mod |-> h, reason |-> reason]

\* Every import is done: DLL_PROCESS_ATTACH.
Attach(t) ==
    /\ At(t, "import")
    /\ ~HasImport(t)
    /\ Notified(t, Top(t).mod, "process_attach")
    /\ Become(t, EntryFrame(Top(t).mod, "process_attach"))
    /\ fate' = [fate EXCEPT ![Top(t).mod] = "attached"]
    /\ UNCHANGED <<Modules, files, mapped, freed, pc, noted>>

\* The load is complete.  After the program itself, the program runs.
AttachReturns(t) ==
    /\ At(t, "entry")
    /\ Top(t).reason = "process_attach"
    /\ Return(t, TRUE)
    /\ fate' = [fate EXCEPT ![Top(t).mod] = "loaded"]
    /\ pc' = [pc EXCEPT ![t] = IF IsProgram(t) THEN "run" ELSE @]
    /\ UNCHANGED <<Modules, files, mapped, indexed, told, freed, noted>>

\* PeLdrNotifyNewThread(NULL, ..) returns in its first iteration, so that it is about
\* Modules[0] alone.  It reads ModulesCount and Modules[0] without CSPeLdr.
BeginNotify(t, where) ==
    /\ pc' = [pc EXCEPT ![t] = where]
    /\ noted' = [noted EXCEPT ![t] = IF Modules = <<>> THEN NoHandle ELSE Head(Modules)]

\* ThreadProc of a thread that emulated code creates; its TLS slots are empty.
StartThread(t) ==
    /\ pc[t] = "off"
    /\ t # Main
    /\ \E u \in Thread : Emulated(u)
    /\ BeginNotify(t, "attach")
    /\ told' = [told EXCEPT ![t] = {}]
    /\ UNCHANGED <<CSPeLdr, Modules, files, mapped, indexed, freed, stack, fate>>

\* The thread function returns or faults, or emulated code calls ExitThread.
EndThread(t) ==
    /\ pc[t] = "run"
    /\ stack[t] = <<>>
    /\ BeginNotify(t, "exit") \/ (t # Main /\ BeginNotify(t, "return"))
    /\ UNCHANGED <<CSPeLdr, Modules, files, mapped, indexed, told, freed, stack, fate>>

Reason(t) == IF pc[t] = "attach" THEN "thread_attach" ELSE "thread_detach"
InNotify(t) == pc[t] \in Ending \cup {"attach"} /\ stack[t] = <<>>
NotifyDone(t) == pc' = [pc EXCEPT ![t] = IF @ = "attach" THEN "run" ELSE "off"]

\* The handle may have been freed since it was read: memory that still has its content
\* passes for a handle, before and under the lock.
NotifyThread(t) ==
    /\ InNotify(t)
    /\ noted[t] # NoHandle
    /\ Notifies(t, noted[t], Reason(t))
    /\ Push(t, EntryFrame(noted[t], Reason(t)))
    /\ Notified(t, noted[t], Reason(t))
    /\ UNCHANGED <<Modules, files, mapped, freed, pc, noted, fate>>

\* No module, or one that has no Base or knows already (seen under the lock).
NotifySkips(t) ==
    /\ InNotify(t)
    /\ noted[t] # NoHandle => /\ CanEnter(CSPeLdr, t)
                              /\ ~Notifies(t, noted[t], Reason(t))
    /\ NotifyDone(t)
    /\ UNCHANGED <<CSPeLdr, Modules, files, mapped, indexed, told, freed, stack, noted, fate>>

\* The freed memory does not look like a handle any more, or reading it ends the process.
NotifyFreed(t) ==
    /\ InNotify(t)
    /\ noted[t] \in freed
    /\ \/ NotifyDone(t) /\ UNCHANGED stack
       \/ ProcessOver
    /\ UNCHANGED <<CSPeLdr, Modules, files, mapped, indexed, told, freed, noted, fate>>

\* Mutant: CSPeLdr stays locked.
ThreadEntryReturns_Locked(t) ==
    /\ At(t, "entry")
    /\ Top(t).reason \in {"thread_attach", "thread_detach"}
    /\ stack' = [stack EXCEPT ![t] = Front(@)]
    /\ NotifyDone(t)
    /\ UNCHANGED <<CSPeLdr, Modules, files, mapped, indexed, told, freed, noted, fate>>

ThreadEntryReturns(t) ==
    /\ At(t, "entry")
    /\ Top(t).reason \in {"thread_attach", "thread_detach"}
    /\ Return(t, TRUE)
    /\ NotifyDone(t)
    /\ UNCHANGED <<Modules, files, mapped, indexed, told, freed, noted, fate>>

-----------------------------------------------------------------------------
(* Faults of an entry point                                                *)

\* A frame of t inside a __try: the emulated code that called LoadLibrary, or a
\* forwarded function being looked up (PeLdrGetProcAddressA).
Catches(frame) ==
    \/ frame.at = "entry"
    \/ frame.at = "import" /\ ~Imports[files[frame.mod]][frame.next].must

Catchers(t) == {k \in 1 .. Len(stack[t]) - 1 : Catches(stack[t][k])}

\* The frames above the catcher are unwound.  Whether their CLock destructors run
\* depends on how the compiler treats structured exceptions.
Unwind(t, k) ==
    LET cut == SubSeq(stack[t], k + 1, Len(stack[t]))
    IN  /\ stack' = [stack EXCEPT ![t] = Resumed(SubSeq(@, 1, k), FALSE)]
        /\ CSPeLdr' \in {CSPeLdr, LeftTimes(CSPeLdr, IF k = 0 THEN Holds(t) ELSE Len(cut))}
        /\ fate' = [h \in Handle |->
                      IF fate[h] \in {"new", "attached"} /\ \E f \in ToSet(cut) : f.mod = h
                      THEN "failed" ELSE fate[h]]

\* The entry point of a module that was freed is not there any more.
Faults(t) ==
    /\ At(t, "entry")
    /\ files[Top(t).mod] \in Faulty \/ Top(t).mod \in freed
    /\ CSPeLdr.count <= MaxHolds

\* The innermost catcher goes on, or the program below the frames, whose native call
\* (LoadLibrary or ExitThread) is inside a __try of the engine.
FaultCaught(t) ==
    /\ Faults(t)
    /\ \/ /\ \E k \in Catchers(t) : (\A l \in Catchers(t) : l <= k) /\ Unwind(t, k)
          /\ UNCHANGED pc
       \/ /\ Catchers(t) = {}
          /\ pc[t] \in {"run", "exit"}
          /\ Unwind(t, 0)
          /\ pc' = [pc EXCEPT ![t] = "run"]
    /\ UNCHANGED <<Modules, files, mapped, indexed, told, freed, noted>>

\* ThreadProc calls outside its __try: YactUnhandledExceptionFilter notifies again and
\* ends the thread.
FaultEndsThread(t) ==
    /\ Faults(t)
    /\ Catchers(t) = {}
    /\ pc[t] \in {"attach", "return"}
    /\ Unwind(t, 0)
    /\ BeginNotify(t, "filter")
    /\ UNCHANGED <<Modules, files, mapped, indexed, told, freed>>

\* PeLdrStartProgram catches it: the program is not loaded, or not closed.
FaultEndsProgram(t) ==
    /\ Faults(t)
    /\ Catchers(t) = {}
    /\ pc[t] \in {"start", "close"}
    /\ Unwind(t, 0)
    /\ pc' = [pc EXCEPT ![t] = "done"]
    /\ UNCHANGED <<Modules, files, mapped, indexed, told, freed, noted>>

\* Nobody catches it: in the filter, or before the first ThreadProc has installed the
\* filter.
FaultEndsProcess(t) ==
    /\ Faults(t)
    /\ Catchers(t) = {}
    /\ pc[t] \in {"attach", "filter"}
    /\ ProcessOver
    /\ UNCHANGED <<CSPeLdr, Modules, files, mapped, indexed, told, freed, noted, fate>>

\* Emulated code calls ExitProcess.
ExitProcess(t) ==
    /\ Emulated(t)
    /\ ProcessOver
    /\ UNCHANGED <<CSPeLdr, Modules, files, mapped, indexed, told, freed, noted, fate>>

-----------------------------------------------------------------------------
(* PeLdrCloseAllModules                                                    *)

\* The program faults in the main thread, or it returns in a debug build, where modules
\* are not closed.
ProgramReturns ==
    /\ pc[Main] = "run"
    /\ stack[Main] = <<>>
    /\ pc' = [pc EXCEPT ![Main] = "done"]
    /\ UNCHANGED <<CSPeLdr, Modules, files, mapped, indexed, told, freed, stack, noted, fate>>

\* The program has returned to PeLdrStartProgram.
CloseAllModules ==
    /\ pc[Main] = "run"
    /\ stack[Main] = <<>>
    /\ CanEnter(CSPeLdr, Main)
    /\ CSPeLdr' = Entered(CSPeLdr, Main)
    /\ pc' = [pc EXCEPT ![Main] = "close"]
    /\ UNCHANGED <<Modules, files, mapped, indexed, told, freed, stack, noted, fate>>

\* The module listed last leaves the list; PeLdrCloseModule announces its end.
CloseModule ==
    /\ pc[Main] = "close"
    /\ stack[Main] = <<>>
    /\ Modules # <<>>
    /\ Modules' = Front(Modules)
    /\ LET h == Last(Modules)
       IN  IF Notifies(Main, h, "process_detach")
           THEN /\ Push(Main, EntryFrame(h, "process_detach"))
                /\ Notified(Main, h, "process_detach")
                /\ fate' = [fate EXCEPT ![h] = "detached"]
           ELSE /\ Push(Main, [at |-> "free", mod |-> h])
                /\ UNCHANGED <<indexed, told, fate>>
    /\ UNCHANGED <<files, mapped, freed, pc, noted>>

DetachReturns ==
    /\ At(Main, "entry")
    /\ Top(Main).reason = "process_detach"
    /\ Become(Main, [at |-> "free", mod |-> Top(Main).mod])
    /\ UNCHANGED <<Modules, files, mapped, indexed, told, freed, pc, noted, fate>>

FreeModule ==
    /\ At(Main, "free")
    /\ Return(Main, TRUE)
    /\ freed' = freed \cup {Top(Main).mod}
    /\ UNCHANGED <<Modules, files, mapped, indexed, told, pc, noted, fate>>

\* The list is empty: CSPeLdr is left and PeLdrStartProgram returns ...
CloseDone ==
    /\ pc[Main] = "close"
    /\ stack[Main] = <<>>
    /\ Modules = <<>>
    /\ CSPeLdr' = Left(CSPeLdr)
    /\ pc' = [pc EXCEPT ![Main] = "done"]
    /\ UNCHANGED <<Modules, files, mapped, indexed, told, freed, stack, noted, fate>>

\* ... and the process ends.
ProcessEnds ==
    /\ pc[Main] = "done"
    /\ ProcessOver
    /\ UNCHANGED <<CSPeLdr, Modules, files, mapped, indexed, told, freed, noted, fate>>

-----------------------------------------------------------------------------
\* What the loader and ThreadProc do on their own account.
Loads(t) == Open(t) \/ OpenFails(t) \/ Map(t) \/ MapFails(t) \/ ImportFound(t)
            \/ ImportLoads(t) \/ FailLoad(t) \/ Attach(t)
TakesLock(t) == NotifyThread(t) \/ NotifySkips(t) \/ NotifyFreed(t)
Closes == CloseModule \/ FreeModule \/ CloseDone \/ ProcessEnds

\* An entry point comes back.
Returns(t) == AttachReturns(t) \/ ThreadEntryReturns(t) \/ (t = Main /\ DetachReturns)

\* What emulated code may do, or the machine to it.
Calls(t) == (\E f \in File : LoadLibrary(t, f)) \/ StartThread(t) \/ EndThread(t)
            \/ ExitProcess(t)
            \/ FaultCaught(t) \/ FaultEndsThread(t) \/ FaultEndsProgram(t)
            \/ FaultEndsProcess(t)

Next ==
    \/ \E t \in Thread : Loads(t) \/ TakesLock(t) \/ Returns(t) \/ Calls(t)
    \/ Closes
    \/ CloseAllModules
    \/ ProgramReturns

Spec == Init /\ [][Next]_vars

\* The loader needs only the processor, a thread that is notified also the lock; entry
\* points are assumed to return, as they are under Windows, after some calls of their own.
FairSpec == /\ Spec
            /\ WF_vars(Closes)
            /\ \A t \in Thread : /\ WF_vars(Loads(t))
                                 /\ SF_vars(Returns(t))
                                 /\ SF_vars(TakesLock(t))

-----------------------------------------------------------------------------
(* Safety                                                                  *)

\* A module that is loaded under its own name only is not listed twice, whatever
\* LoadLibrary calls, cyclic imports and loads out of entry points meet: search, opening
\* and listing are under one lock.
OneCopy ==
    \A i, j \in DOMAIN Modules :
        files[Modules[i]] = files[Modules[j]] /\ files[Modules[i]] \in Faithful => i = j

\* Modules PeLdrCloseModule is at.
Closing == {h \in Opened : \E f \in ToSet(stack[Main]) :
              f \in {[at |-> "free", mod |-> h], EntryFrame(h, "process_detach")}}

\* The table never overflows, not even with modules that are listed again by every load,
\* and no PE_HANDLE is allocated that nothing will free.  A fault that ends the close of
\* all modules forgets the one it closes: nothing frees anything after it.
HandleKept ==
    /\ Len(Modules) <= MaxModules
    /\ pc[Main] \notin {"done", "over"} => \A h \in Opened : h \in Listed \cup freed \cup Closing

\* A frame of PeLdrNotifyNewThread(NULL, ..).
OfThread(f) == f.at = "entry" /\ f.reason \in {"thread_attach", "thread_detach"}

\* Loads and closes work on no PE_HANDLE that PeLdrCloseModule has freed: closing waits
\* for loads, and a load out of an entry point that runs while modules close, or on a
\* freed module, sees only what is left.  A thread that starts or ends is excepted: it
\* works on the handle it read before it waited for the lock (NotifyThread), whatever
\* has become of it.
FramesLive ==
    \A t \in Thread : \A f \in ToSet(stack[t]) :
        f.at # "open" /\ ~OfThread(f) => f.mod \notin freed

\* What is listed for the name has ended its load, or frame k of t or one below it is at
\* it.
Available(t, k, name) ==
    \E h \in Listed : /\ files[h] \in {name, Resolved[name]}
                      /\ \/ fate[h] \in {"loaded", "failed"}
                         \/ \E l \in 1 .. k : stack[t][l].mod = h

\* A module's DllMain starts after that of each dll it imports has returned, unless
\* the dll imports the module in turn and is still being loaded further down the same
\* thread, or its own load failed before (the name is found all the same).
AttachAfterImports ==
    \A t \in Thread : \A k \in DOMAIN stack[t] :
        LET f == stack[t][k] IN
        f.at = "entry" /\ f.reason = "process_attach" =>
            \A imp \in ToSet(Imports[files[f.mod]]) : imp.must => Available(t, k, imp.dll)

\* PeLdrLoadModule and DllMain call each other no deeper than there are slots in the
\* table, and if every module is found under its name no deeper than there are modules,
\* whatever cycles the imports have and whatever the entry points load.
RecursionBounded ==
    \A t \in Thread : /\ Len(stack[t]) <= MaxModules + 1
                      /\ Faithful = File => Len(stack[t]) <= Cardinality(File) + 1

\* A thread gets a detach call of a module only after an attach call, and one for each:
\* ends of threads, faults in the calls themselves and the close of all modules
\* included.  Modules whose load failed are excepted.
DetachPaired ==
    [][\A t \in Thread, h \in Handle, r \in DetachReason :
         stack'[t] = Append(stack[t], EntryFrame(h, r))
         => h \in told[t] \/ fate[h] = "failed"]_vars

-----------------------------------------------------------------------------
(* The inductive invariant                                                 *)

\* Whoever is inside the loader owns CSPeLdr, often enough to give back every hold.
LocksHeld ==
    \A t \in Thread : Holds(t) > 0 => CSPeLdr.owner = t /\ CSPeLdr.count >= Holds(t)

\* Only the main thread starts and closes the process, which ends for all at once.
WholeProcess ==
    /\ \A t \in Thread : pc[t] \in {"start", "close", "done"} => t = Main
    /\ pc[Main] = "over" => \A t \in Thread : pc[t] = "over" /\ stack[t] = <<>>

\* What is known of the frame k of t: it works on a live handle, unless it notifies a
\* thread; it waits for the frame above it inside an entry point or for an import; it
\* opens what is not listed;
\* PeLdrCloseModule is at the bottom of the main thread, with a handle off the list;
\* and PeLdrNotifyNewThread(NULL, ..) is at the bottom of a thread that starts or ends.
FrameSound(t, k) ==
    LET f == stack[t][k]
    IN  /\ f.at # "open" => f.mod \in Opened \cup {NoHandle}
        /\ f.at # "open" /\ ~OfThread(f) => f.mod \notin freed
        /\ k < Len(stack[t]) =>
               \/ f.at = "entry"
               \/ f.at = "import" /\ f.next \in DOMAIN Imports[files[f.mod]]
        /\ f.at = "open" => ~Found(f.file)
        /\ f.at = "free" \/ (f.at = "entry" /\ f.reason = "process_detach") =>
               t = Main /\ k = 1 /\ pc[Main] = "close" /\ f.mod \notin Listed
        /\ OfThread(f) => k = 1 /\ pc[t] \in Ending \cup {"attach"}

FramesSound == \A t \in Thread : \A k \in DOMAIN stack[t] : FrameSound(t, k)

\* Handles on the list are allocated, listed once and not freed, and no thread notes
\* another.
ListSound ==
    /\ \A i, j \in DOMAIN Modules : Modules[i] = Modules[j] => i = j
    /\ Listed \cup freed \subseteq Opened
    /\ Listed \cap freed = {}
    /\ \A t \in Thread : noted[t] \in Opened \cup {NoHandle}

\* The parts together are inductive, each on its own is not: no name is listed twice
\* because the one thread inside the loader is the one that searched.
IInv == TypeOK /\ LocksHeld /\ WholeProcess /\ FramesSound /\ ListSound /\ OneCopy /\ HandleKept

\* A frame of a load that has its handle.
Loading(f) == \/ f.at \in {"map", "import"}
              \/ f.at = "fail" /\ f.mod # NoHandle
              \/ f.at = "entry" /\ f.reason = "process_attach"

\* The imports that a frame has behind it.
PassedImports(f) ==
    {j \in DOMAIN Imports[files[f.mod]] :
       \/ f.at = "import" /\ j < f.next
       \/ f.at = "entry" /\ f.reason = "process_attach"}

\* What is known of the frame k of t from the frames below it.  Its module is listed and
\* not done with, and no frame below loads it.
ModuleSound(t, k) ==
    LET f == stack[t][k]
    IN  Loading(f) =>
            /\ f.mod \in Listed
            /\ f.at # "entry" => fate[f.mod] = "new"
            /\ f.at = "entry" => fate[f.mod] = "attached" /\ f.mod \in indexed
            /\ f.at = "import" => f.next > 0
            /\ \A l \in 1 .. k - 1 : Loading(stack[t][l]) => stack[t][l].mod # f.mod

\* If the frame below waits for an import, this one loads that dll, or what is found for
\* it.
WantedSound(t, k) ==
    LET f == stack[t][k]
        below == stack[t][k - 1]
    IN  k > 1 /\ below.at = "import" =>
            LET dll == Imports[files[below.mod]][below.next].dll
            IN  /\ f.at = "open" => f.file = dll
                /\ Loading(f) => files[f.mod] = Resolved[dll]

\* The imports it has behind it are there.
PassedSound(t, k) ==
    LET f == stack[t][k]
    IN  Loading(f) =>
            \A j \in PassedImports(f) :
                LET imp == Imports[files[f.mod]][j] IN imp.must => Available(t, k, imp.dll)

LoadSound(t, k) == ModuleSound(t, k) /\ WantedSound(t, k) /\ PassedSound(t, k)

LoadsSound == \A t \in Thread : \A k \in DOMAIN stack[t] : LoadSound(t, k)

\* Handles not allocated are untouched, listed ones not detached, those off the list not
\* half loaded, and a module with a Base whose entry points were never called is not
\* loaded.
FatesSound ==
    /\ \A h \in Handle \ Opened : fate[h] = "new" /\ h \notin mapped
    /\ \A h \in Listed : fate[h] # "detached"
    /\ \A h \in Handle \cap (Opened \ Listed) : fate[h] \notin {"new", "attached"}
    /\ \A h \in mapped \ indexed : fate[h] \in {"new", "failed"}

\* A listed module whose load has not ended has a frame that loads it: none is forgotten
\* half loaded, faults included.
NoLoadLost ==
    pc[Main] # "over" =>
        \A h \in Listed : fate[h] \in {"new", "attached"} =>
            \E t \in Thread : \E k \in DOMAIN stack[t] :
                Loading(stack[t][k]) /\ stack[t][k].mod = h

\* AttachAfterImports is not inductive: an import is passed because its name is found,
\* and what is found is being loaded further down or has been, since no load is lost.
LoadOrder == FatesSound /\ LoadsSound /\ NoLoadLost

-----------------------------------------------------------------------------
(* The loader implements ModuleLife                                        *)

\* ModuleLife is about names that have one module.

\* The imports whose failure makes the load fail.
Needed == [f \in Faithful |->
             {g \in Faithful : \E imp \in ToSet(Imports[f]) : imp.must /\ Resolved[imp.dll] = g}]

\* What has become of the copy on the list.
Copy(f) == CHOOSE h \in Listed : files[h] = f
Lives == [f \in Faithful |-> IF Found(f) THEN fate[Copy(f)] ELSE "absent"]

\* The names of the modules the frames of a thread load.
Busy == [t \in Thread |->
           Faithful \cap
           {files[stack[t][k].mod] : k \in {j \in DOMAIN stack[t] : Loading(stack[t][j])}}]

Life == INSTANCE ModuleLife
            WITH File <- Faithful, Needs <- Needed, life <- Lives, busy <- Busy,
                 over <- pc[Main] = "over"

\* Every step of the loader is a step of ModuleLife or none: of all that threads, imports,
\* entry points and faults do to handles and frames, this is what a name goes through.
ImplementsLife == Life!LifeSpec

-----------------------------------------------------------------------------
(* Liveness                                                                *)

\* Every load ends, with cyclic imports and loads out of entry points too.
LoadsEnd == \A t \in Thread : stack[t] # <<>> ~> stack[t] = <<>>

\* A thread that starts or ends gets past the loader, whoever loads meanwhile.
NotificationsEnd ==
    \A t \in Thread : InNotify(t) ~> pc[t] \in {"run", "off", "over"}

-----------------------------------------------------------------------------
(* What the comments say                                                   *)

\* peldr.h:39 "If PE==0, notify all modules": a thread that gets past its attach
\* notification is known to every module that is loaded.
AllNotified ==
    [][\A t \in Thread : pc[t] = "attach" /\ pc'[t] = "run" =>
         \A h \in Listed : fate[h] = "loaded" => h \in told'[t]]_vars

\* peldr.cpp:147 "return existing handle if file already loaded": a file that is loaded
\* is not opened and listed again, under whatever name it is asked for.
FileListedOnce ==
    \A i, j \in DOMAIN Modules : files[Modules[i]] = files[Modules[j]] => i = j
=============================================================================
