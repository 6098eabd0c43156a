------------------------------ MODULE WndProcs ------------------------------
(***************************************************************************)
(* Window procedures behind the user32 wrapper,                            *)
(* yact/system_dlls/user32_yact/user32_impl.cpp.                           *)
(*                                                                         *)
(* Windows calls native procedures, the program has x86 ones.  A window    *)
(* with an x86 procedure has the wrapper's WindowProc for Windows, which   *)
(* looks up in OrigWndProcs what to emulate, by the NAME OF THE CLASS of   *)
(* the window.  To the program a native procedure is its address with the  *)
(* high bit set, here the procedure itself.                                *)
(*                                                                         *)
(* Windows keeps a procedure per window, the wrapper one per class.  Two   *)
(* history variables name the classes this goes wrong for: superclassed,   *)
(* registered with a native procedure, which WindowProc then emulates, and *)
(* blurred, whose windows and entry have come apart for this or another    *)
(* reason.  For all others the wrapper implements WindowProcedures.        *)
(***************************************************************************)
CONSTANTS NativeClass,   \* classes of Windows; each also names its procedure
          OwnClass,      \* names of classes the program may register
          Window,        \* windows
          X86,           \* window procedures of the program
          WindowProc,    \* the wrapper's native window procedure
          Nil            \* address 0, no window, no class

Class == NativeClass \cup OwnClass
Proc == X86 \cup NativeClass

ASSUME WndAssumption ==
    /\ NativeClass \cap OwnClass = {}
    /\ X86 \cap NativeClass = {}
    /\ WindowProc \notin Proc
    /\ Nil \notin Proc \cup Class \cup Window \cup {WindowProc}

VARIABLES
    OrigWndProcs,   \* class -> the procedure the wrapper has for it, Nil for none
    classProc,      \* class -> its native procedure, Nil if not registered
    wndProc,        \* window -> its native procedure, Nil for no window
    class,          \* window -> its class
    seen,           \* what the program last observed: class, window or Nil, procedure
    given,          \* history: class -> the procedure the program (or Windows) gave it
    superclassed,   \* history: classes the program registered with a native procedure
    blurred         \* history: classes whose windows and entry have come apart

vars == <<OrigWndProcs, classProc, wndProc, class, seen, given, superclassed, blurred>>

\* What a program may register a class with or hand to SetWindowLong: its own procedures
\* and those it was told.
Assignable == Proc \cup {WindowProc}

TypeOK ==
    /\ OrigWndProcs \in [Class -> Assignable \cup {Nil}]
    /\ classProc \in [Class -> NativeClass \cup {WindowProc, Nil}]
    /\ wndProc \in [Window -> NativeClass \cup {WindowProc, Nil}]
    /\ class \in [Window -> Class \cup {Nil}]
    /\ seen \in (Class \X (Window \cup {Nil}) \X (Assignable \cup {Nil})) \cup {Nil}
    /\ given \in [Class -> Assignable \cup {Nil}]
    /\ superclassed \in SUBSET Class
    /\ blurred \in SUBSET Class

BuiltIn == [c \in Class |-> IF c \in NativeClass THEN c ELSE Nil]

Init ==
    /\ OrigWndProcs = [c \in Class |-> Nil]
    /\ classProc = BuiltIn
    /\ wndProc = [w \in Window |-> Nil]
    /\ class = [w \in Window |-> Nil]
    /\ seen = Nil
    /\ given = BuiltIn
    /\ superclassed = {}
    /\ blurred = {}

\* The entry a class has while its windows have the procedure of the class.
Expected(c) == IF given[c] \in X86 THEN given[c] ELSE Nil

BlurredUnless(c, ok) == blurred' = IF ok THEN blurred ELSE blurred \cup {c}

-----------------------------------------------------------------------------
(* Classes and windows                                                     *)

\* yact_RegisterClassA/W/ExA/ExW: the entry is stored first, so also when Windows
\* refuses because the class exists, and with the high bit when v is native.
RegisterClass(c, v) ==
    /\ OrigWndProcs' = [OrigWndProcs EXCEPT ![c] = v]
    /\ superclassed' = IF v \in X86 THEN superclassed ELSE superclassed \cup {c}
    /\ IF classProc[c] = Nil
       THEN /\ classProc' = [classProc EXCEPT ![c] = WindowProc]
            /\ given' = [given EXCEPT ![c] = v]
            /\ BlurredUnless(c, v \in X86)
       ELSE /\ BlurredUnless(c, v = OrigWndProcs[c])
            /\ UNCHANGED <<classProc, given>>
    /\ UNCHANGED <<wndProc, class, seen>>

\* Windows creates a window with the native procedure of its class.
CreateWindow(w, c) ==
    /\ class[w] = Nil
    /\ classProc[c] # Nil
    /\ class' = [class EXCEPT ![w] = c]
    /\ wndProc' = [wndProc EXCEPT ![w] = classProc[c]]
    /\ BlurredUnless(c, OrigWndProcs[c] = Expected(c))
    /\ UNCHANGED <<OrigWndProcs, classProc, seen, given, superclassed>>

\* The entry of the class stays what the last SetWindowLong made it.
DestroyWindow(w) ==
    /\ class[w] # Nil
    /\ class' = [class EXCEPT ![w] = Nil]
    /\ wndProc' = [wndProc EXCEPT ![w] = Nil]
    /\ UNCHANGED <<OrigWndProcs, classProc, seen, given, superclassed, blurred>>

-----------------------------------------------------------------------------
(* Reading and replacing the procedure of a window                         *)

\* The entry of the class, or the native procedure with the high bit set.
Told(w) == IF OrigWndProcs[class[w]] # Nil THEN OrigWndProcs[class[w]] ELSE wndProc[w]

\* yact_GetWindowLongA/W(w, GWL_WNDPROC)
GetWindowLong(w) ==
    /\ class[w] # Nil
    /\ seen' = <<class[w], w, Told(w)>>
    /\ UNCHANGED <<OrigWndProcs, classProc, wndProc, class, given, superclassed, blurred>>

Alone(w) == \A u \in Window \ {w} : class[u] # class[w]

\* Mutant: Windows gets the x86 procedure instead of WindowProc.
SetWindowLong_NotReplaced(w, v) ==
    LET c == class[w] IN
    /\ c # Nil
    /\ seen' = <<c, w, Told(w)>>
    /\ wndProc' = [wndProc EXCEPT ![w] = IF v \in X86 /\ OrigWndProcs[c] # Nil THEN @ ELSE v]
    /\ OrigWndProcs' = [OrigWndProcs EXCEPT ![c] = IF v \in X86 THEN v ELSE Nil]
    /\ BlurredUnless(c, Alone(w) /\ v # WindowProc)
    /\ UNCHANGED <<classProc, class, given, superclassed>>

\* Mutant: newlong = 0 is missing.
SetWindowLong_KeepsNative(w, v) ==
    LET c == class[w] IN
    /\ c # Nil
    /\ seen' = <<c, w, Told(w)>>
    /\ wndProc' = [wndProc EXCEPT ![w] = IF v \notin X86 THEN v
                                         ELSE IF OrigWndProcs[c] = Nil THEN WindowProc ELSE @]
    /\ OrigWndProcs' = [OrigWndProcs EXCEPT ![c] = v]
    /\ BlurredUnless(c, Alone(w) /\ v # WindowProc)
    /\ UNCHANGED <<classProc, class, given, superclassed>>

\* Mutant: a native control is not given WindowProc.
SetWindowLong_NoHook(w, v) ==
    LET c == class[w] IN
    /\ c # Nil
    /\ seen' = <<c, w, Told(w)>>
    /\ wndProc' = [wndProc EXCEPT ![w] = IF v \notin X86 THEN v ELSE @]
    /\ OrigWndProcs' = [OrigWndProcs EXCEPT ![c] = IF v \in X86 THEN v ELSE Nil]
    /\ BlurredUnless(c, Alone(w) /\ v # WindowProc)
    /\ UNCHANGED <<classProc, class, given, superclassed>>

\* yact_SetWindowLongA/W(w, GWL_WNDPROC, v): a class without an entry is native, its
\* window gets WindowProc; a v with the high bit set goes to Windows and clears the entry.
\* (WindowProc itself is only told to programs whose windows have come apart.)
SetWindowLong(w, v) ==
    LET c == class[w] IN
    /\ c # Nil
    /\ seen' = <<c, w, Told(w)>>
    /\ wndProc' = [wndProc EXCEPT ![w] = IF v \notin X86 THEN v
                                         ELSE IF OrigWndProcs[c] = Nil THEN WindowProc ELSE @]
    /\ OrigWndProcs' = [OrigWndProcs EXCEPT ![c] = IF v \in X86 THEN v ELSE Nil]
    /\ BlurredUnless(c, Alone(w) /\ v # WindowProc)
    /\ UNCHANGED <<classProc, class, given, superclassed>>

ToldClass(c) == IF OrigWndProcs[c] # Nil THEN OrigWndProcs[c] ELSE classProc[c]

\* yact_GetClassInfoA/W/ExA/ExW, yact_GetClassLongA/W(GCL_WNDPROC): the answer is wrong
\* while a window of the class has a procedure of its own, or had one when it ended.
GetClassInfo(c) ==
    /\ classProc[c] # Nil
    /\ seen' = <<c, Nil, ToldClass(c)>>
    /\ BlurredUnless(c, OrigWndProcs[c] = Expected(c))
    /\ UNCHANGED <<OrigWndProcs, classProc, wndProc, class, given, superclassed>>

\* yact_SetClassLongA/W(w, GCL_WNDPROC, v) changes the entry all its windows share.
SetClassLong(w, v) ==
    LET c == class[w] IN
    /\ c # Nil
    /\ seen' = <<c, Nil, ToldClass(c)>>
    /\ classProc' = [classProc EXCEPT ![c] = IF v \notin X86 THEN v
                                             ELSE IF OrigWndProcs[c] = Nil THEN WindowProc ELSE @]
    /\ OrigWndProcs' = [OrigWndProcs EXCEPT ![c] = IF v \in X86 THEN v ELSE Nil]
    /\ blurred' = blurred \cup {c}
    /\ UNCHANGED <<wndProc, class, given, superclassed>>

-----------------------------------------------------------------------------
(* Messages                                                                *)

\* What a message for w executes: WindowProc emulates the entry of the class, and
\* there is nothing at address 0 or at a native address it could emulate.
Executed(w) ==
    IF wndProc[w] # WindowProc THEN wndProc[w]
    ELSE IF OrigWndProcs[class[w]] \in X86 THEN OrigWndProcs[class[w]] ELSE Nil

\* Windows sends w a message.
Message(w) ==
    /\ class[w] # Nil
    /\ seen' = <<class[w], w, Executed(w)>>
    /\ UNCHANGED <<OrigWndProcs, classProc, wndProc, class, given, superclassed, blurred>>

Next ==
    \/ \E c \in OwnClass, v \in Assignable : RegisterClass(c, v)
    \/ \E w \in Window, c \in Class : CreateWindow(w, c)
    \/ \E w \in Window : DestroyWindow(w) \/ GetWindowLong(w) \/ Message(w)
    \/ \E w \in Window, v \in Assignable : SetWindowLong(w, v) \/ SetClassLong(w, v)
    \/ \E c \in Class : GetClassInfo(c)

Spec == Init /\ [][Next]_vars

-----------------------------------------------------------------------------
(* Correctness                                                             *)

\* The entry WindowProc emulates for w has the high bit set.
EmulatesNative(w) ==
    /\ class[w] # Nil
    /\ wndProc[w] = WindowProc
    /\ OrigWndProcs[class[w]] \notin X86 \cup {Nil}

\* Neither subclassing nor restoring nor changing a class, in whatever order and with
\* whatever procedures, makes WindowProc emulate a native one: the only way is to
\* register a class with one.
NativeOnlySuperclassed == \A w \in Window : EmulatesNative(w) => class[w] \in superclassed

\* The debug check of WindowProc (user32_impl.cpp:31): it never emulates a procedure
\* that is marked native.
NoNativeEmulated == \A w \in Window : ~EmulatesNative(w)

Clear(c) == c \in Class \ blurred
ClearWindow(w) == class[w] # Nil /\ Clear(class[w])

\* What keeps windows and entry of a class together: a window has WindowProc exactly
\* if the entry is an x86 procedure, and the entry is that of the class unless the
\* class has one window only.
Agrees(c) ==
    /\ OrigWndProcs[c] \in X86 \cup {Nil}
    /\ given[c] # WindowProc
    /\ classProc[c] = IF given[c] \in X86 THEN WindowProc ELSE given[c]
    /\ \A w \in Window : class[w] = c =>
          /\ classProc[c] # Nil
          /\ OrigWndProcs[c] = Nil => wndProc[w] \in NativeClass
          /\ OrigWndProcs[c] # Nil => wndProc[w] = WindowProc
          /\ ~Alone(w) => OrigWndProcs[c] = Expected(c)

\* Window and entry come apart for a class only by registering it with a native procedure,
\* by registering it a second time, by SetClassLong, or by an operation on a class whose
\* one entry has to serve several windows or is not that of the class: whatever else the
\* program does, and to whatever class, the procedure Windows has and the one the wrapper
\* has for a window belong together.
Together == \A c \in Class \ blurred : Agrees(c)

\* What the program observed of a class that is not blurred now.
ClearSeen == IF seen # Nil /\ Clear(seen[1]) THEN seen ELSE Nil

Windows == INSTANCE WindowProcedures WITH
    proc <- [w \in Window |-> IF ClearWindow(w) THEN Told(w) ELSE Nil],
    of <- [w \in Window |-> IF ClearWindow(w) THEN class[w] ELSE Nil],
    default <- [c \in Class |-> IF Clear(c) THEN given[c] ELSE Nil],
    seen <- ClearSeen,
    void <- blurred

\* As long as the windows of a class have not come apart from its entry, programs
\* observe what Windows promises: a procedure per window, the old one returned, and
\* messages that run it; and whatever happens to one class leaves the others alone.
ImplementsProcedures == Windows!ProceduresSpec
=============================================================================
