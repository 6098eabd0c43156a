--------------------------- MODULE WndProcsProofs ---------------------------
(***************************************************************************)
(* Proofs about WndProcs: the wrapper emulates a native procedure only in  *)
(* a class that was registered with one, and for every class whose windows *)
(* have not come apart from its entry it implements WindowProcedures, for  *)
(* any number of classes, windows and procedures.                          *)
(***************************************************************************)
EXTENDS WndProcs, TLAPS

-----------------------------------------------------------------------------
(* Types                                                                   *)

LEMMA WndTypeInit == Init => TypeOK
BY DEF Init, TypeOK, BuiltIn, Class, Assignable, Proc

\* What the program is told or runs has its type.
LEMMA ToldTypes ==
    ASSUME TypeOK, NEW w \in Window, class[w] # Nil
    PROVE  /\ class[w] \in Class
           /\ Told(w) \in Assignable \cup {Nil}
           /\ Executed(w) \in Assignable \cup {Nil}
           /\ \A c \in Class : ToldClass(c) \in Assignable \cup {Nil}
BY DEF TypeOK, Told, Executed, ToldClass, Assignable, Proc

LEMMA WndTypeNext ==
    ASSUME TypeOK, [Next]_vars
    PROVE  TypeOK'
<1> USE DEF TypeOK, BlurredUnless
<1>1. ASSUME NEW c \in OwnClass, NEW v \in Assignable, RegisterClass(c, v)
      PROVE  TypeOK'
  BY <1>1, WndAssumption DEF RegisterClass, Class, Assignable
<1>2. ASSUME NEW w \in Window, NEW c \in Class, CreateWindow(w, c)
      PROVE  TypeOK'
  BY <1>2 DEF CreateWindow
<1>3. ASSUME NEW w \in Window, DestroyWindow(w)
      PROVE  TypeOK'
  BY <1>3 DEF DestroyWindow
<1>4. ASSUME NEW w \in Window, GetWindowLong(w) \/ Message(w)
      PROVE  TypeOK'
  BY <1>4, ToldTypes DEF GetWindowLong, Message
<1>5. ASSUME NEW w \in Window, NEW v \in Assignable, SetWindowLong(w, v)
      PROVE  TypeOK'
  <2>1. class[w] \in Class /\ seen' \in Class \X (Window \cup {Nil}) \X (Assignable \cup {Nil})
    BY <1>5, ToldTypes DEF SetWindowLong
  <2>2. wndProc' \in [Window -> NativeClass \cup {WindowProc, Nil}]
    BY <1>5 DEF SetWindowLong, Assignable, Proc
  <2>3. OrigWndProcs' \in [Class -> Assignable \cup {Nil}]
    BY <1>5 DEF SetWindowLong, Assignable, Proc
  <2> QED
    BY <1>5, <2>1, <2>2, <2>3 DEF SetWindowLong
<1>6. ASSUME NEW w \in Window, NEW v \in Assignable, SetClassLong(w, v)
      PROVE  TypeOK'
  <2>1. class[w] \in Class /\ seen' \in Class \X (Window \cup {Nil}) \X (Assignable \cup {Nil})
    BY <1>6, ToldTypes DEF SetClassLong
  <2>2. classProc' \in [Class -> NativeClass \cup {WindowProc, Nil}]
    BY <1>6 DEF SetClassLong, Assignable, Proc
  <2>3. OrigWndProcs' \in [Class -> Assignable \cup {Nil}]
    BY <1>6 DEF SetClassLong, Assignable, Proc
  <2> QED
    BY <1>6, <2>1, <2>2, <2>3 DEF SetClassLong
<1>7. ASSUME NEW c \in Class, GetClassInfo(c)
      PROVE  TypeOK'
  BY <1>7 DEF GetClassInfo, ToldClass, Assignable, Proc
<1>8. ASSUME UNCHANGED vars
      PROVE  TypeOK'
  BY <1>8 DEF vars
<1> QED
  BY <1>1, <1>2, <1>3, <1>4, <1>5, <1>6, <1>7, <1>8 DEF Next

\* No sequence of registrations, subclassings and restorations stores anything but a
\* procedure the program passed, or nothing, in the map of the wrapper.
THEOREM WndTypeCorrect == Spec => []TypeOK
<1>1. Init => TypeOK
  BY WndTypeInit
<1>2. TypeOK /\ [Next]_vars => TypeOK'
  BY WndTypeNext
<1> QED
  BY <1>1, <1>2, PTL DEF Spec

-----------------------------------------------------------------------------
(* The entries                                                             *)

\* What is restored with the high bit set clears the entry, so WindowProc emulates native
\* code in no class but one that was registered with it.
THEOREM OnlyX86Emulated == Spec => []NativeOnlySuperclassed
<1> DEFINE EntriesX86 == \A c \in Class \ superclassed : OrigWndProcs[c] \in X86 \cup {Nil}
<1>1. Init => TypeOK /\ EntriesX86
  BY WndTypeInit DEF Init
<1>2. TypeOK /\ EntriesX86 /\ [Next]_vars => TypeOK' /\ EntriesX86'
  <2> SUFFICES ASSUME TypeOK, EntriesX86, [Next]_vars PROVE EntriesX86'
    BY WndTypeNext
  <2>1. ASSUME NEW c \in OwnClass, NEW v \in Assignable, RegisterClass(c, v)
        PROVE  EntriesX86'
    BY <2>1 DEF RegisterClass, TypeOK
  <2>2. ASSUME NEW w \in Window, NEW v \in Assignable, SetWindowLong(w, v) \/ SetClassLong(w, v)
        PROVE  EntriesX86'
    BY <2>2 DEF SetWindowLong, SetClassLong, TypeOK
  <2>3. ASSUME UNCHANGED <<OrigWndProcs, superclassed>>
        PROVE  EntriesX86'
    BY <2>3
  <2> QED
    BY <2>1, <2>2, <2>3 DEF Next, CreateWindow, DestroyWindow, GetWindowLong, Message,
       GetClassInfo, vars
<1>3. TypeOK /\ EntriesX86 => NativeOnlySuperclassed
  BY DEF NativeOnlySuperclassed, EmulatesNative, TypeOK
<1> QED
  BY <1>1, <1>2, <1>3, PTL DEF Spec
-----------------------------------------------------------------------------
(* Windows and entries stay together                                       *)

\* A class whose entry, procedures and windows a step leaves alone.
LEMMA Untouched ==
    ASSUME NEW c \in Class, Agrees(c),
           OrigWndProcs'[c] = OrigWndProcs[c],
           classProc'[c] = classProc[c],
           given'[c] = given[c],
           \A w \in Window : class'[w] = c => class[w] = c /\ wndProc'[w] = wndProc[w]
    PROVE  Agrees(c)'
<1>1. \A w \in Window : class'[w] = c => class[w] = c
  OBVIOUS
<1>2. ASSUME NEW w \in Window, class'[w] = c, ~Alone(w)'
      PROVE  ~Alone(w)
  BY <1>1, <1>2 DEF Alone
<1>3. Expected(c)' = Expected(c)
  BY DEF Expected
<1> QED
  BY <1>1, <1>2, <1>3 DEF Agrees

LEMMA TogetherNext ==
    ASSUME TypeOK, Together, [Next]_vars
    PROVE  Together'
<1> USE DEF TypeOK, BlurredUnless
<1> SUFFICES ASSUME NEW d \in Class \ blurred'
             PROVE  Agrees(d)'
  BY DEF Together
<1>1. ASSUME NEW c \in OwnClass, NEW v \in Assignable, RegisterClass(c, v)
      PROVE  Agrees(d)'
  <2>1. c \in Class /\ Agrees(d)
    BY <1>1 DEF RegisterClass, Class, Together
  <2>2. CASE c = d /\ classProc[c] = Nil
    <3>0. v \in X86
      BY <1>1, <2>2 DEF RegisterClass
    <3>1. \A w \in Window : class'[w] # d
      BY <1>1, <2>1, <2>2 DEF RegisterClass, Agrees
    <3>2. OrigWndProcs'[d] = v /\ classProc'[d] = WindowProc /\ given'[d] = v
      BY <1>1, <2>1, <2>2 DEF RegisterClass
    <3> QED
      BY <2>1, <3>0, <3>1, <3>2, WndAssumption DEF Agrees, Proc
  <2>3. CASE c # d \/ classProc[c] # Nil
    <3>1. OrigWndProcs'[d] = OrigWndProcs[d]
      BY <1>1, <2>1, <2>3 DEF RegisterClass
    <3> QED
      BY <1>1, <2>1, <2>3, <3>1, Untouched DEF RegisterClass
  <2> QED
    BY <2>2, <2>3
<1>2. ASSUME NEW w \in Window, NEW c \in Class, CreateWindow(w, c)
      PROVE  Agrees(d)'
  <2>1. Agrees(d)
    BY <1>2 DEF CreateWindow, Together
  <2>2. CASE c # d
    BY <1>2, <2>1, <2>2, Untouched DEF CreateWindow
  <2>3. CASE c = d
    <3>1. OrigWndProcs[d] = Expected(d) /\ Expected(d)' = Expected(d)
      BY <1>2, <2>3 DEF CreateWindow, Expected
    <3>2. /\ wndProc'[w] = classProc[d]
          /\ classProc[d] # Nil
          /\ \A u \in Window \ {w} : class'[u] = class[u] /\ wndProc'[u] = wndProc[u]
      BY <1>2, <2>3 DEF CreateWindow
    <3>3. /\ OrigWndProcs[d] = Nil => classProc[d] \in NativeClass
          /\ OrigWndProcs[d] # Nil => classProc[d] = WindowProc
      BY <2>1, <3>1, <3>2, WndAssumption DEF Agrees, Expected, Proc, Class
    <3> QED
      BY <1>2, <2>1, <2>3, <3>1, <3>2, <3>3 DEF CreateWindow, Agrees
  <2> QED
    BY <2>2, <2>3
<1>3. ASSUME NEW w \in Window, DestroyWindow(w)
      PROVE  Agrees(d)'
  <2>1. Agrees(d)
    BY <1>3 DEF DestroyWindow, Together
  <2>2. d # Nil
    BY WndAssumption
  <2> QED
    BY <1>3, <2>1, <2>2, Untouched DEF DestroyWindow
<1>4. ASSUME NEW w \in Window, GetWindowLong(w) \/ Message(w)
      PROVE  Agrees(d)'
  BY <1>4, Untouched DEF GetWindowLong, Message, Together
<1>5. ASSUME NEW w \in Window, NEW v \in Assignable, SetWindowLong(w, v)
      PROVE  Agrees(d)'
  <2>1. Agrees(d) /\ class[w] \in Class
    BY <1>5 DEF SetWindowLong, Together
  <2>2. CASE class[w] # d
    BY <1>5, <2>1, <2>2, Untouched DEF SetWindowLong
  <2>3. CASE class[w] = d
    <3>1. v \in X86 \cup NativeClass /\ Alone(w)
      BY <1>5, <2>3 DEF SetWindowLong, Assignable, Proc
    <3>2. \A u \in Window : class'[u] = d => u = w
      BY <1>5, <2>3, <3>1 DEF SetWindowLong, Alone
    <3>3. Alone(w)'
      BY <1>5, <3>1 DEF SetWindowLong, Alone
    <3>4. /\ OrigWndProcs'[d] = IF v \in X86 THEN v ELSE Nil
          /\ wndProc'[w] = IF v \notin X86 THEN v
                           ELSE IF OrigWndProcs[d] = Nil THEN WindowProc ELSE wndProc[w]
          /\ classProc'[d] = classProc[d]
          /\ given'[d] = given[d]
      BY <1>5, <2>3 DEF SetWindowLong
    <3>5. v \in X86 => v # Nil /\ wndProc'[w] = WindowProc
      BY <1>5, <2>1, <2>3, <3>4, WndAssumption DEF Agrees, Proc
    <3> QED
      BY <1>5, <2>1, <2>3, <3>1, <3>2, <3>3, <3>4, <3>5 DEF Agrees
  <2> QED
    BY <2>2, <2>3
<1>6. ASSUME NEW w \in Window, NEW v \in Assignable, SetClassLong(w, v)
      PROVE  Agrees(d)'
  <2>1. Agrees(d) /\ class[w] \in Class /\ class[w] # d
    BY <1>6 DEF SetClassLong, Together
  <2> QED
    BY <1>6, <2>1, Untouched DEF SetClassLong
<1>7. ASSUME NEW c \in Class, GetClassInfo(c)
      PROVE  Agrees(d)'
  BY <1>7, Untouched DEF GetClassInfo, Together
<1>8. ASSUME UNCHANGED vars
      PROVE  Agrees(d)'
  BY <1>8, Untouched DEF vars, Together
<1> QED
  BY <1>1, <1>2, <1>3, <1>4, <1>5, <1>6, <1>7, <1>8 DEF Next

LEMMA TogetherInit == Init => Together
<1> SUFFICES ASSUME Init, NEW c \in Class PROVE Agrees(c)
  BY DEF Together
<1>1. given[c] = classProc[c] /\ given[c] \notin X86 \cup {WindowProc}
  BY WndAssumption DEF Init, BuiltIn, Proc
<1>2. \A w \in Window : class[w] # c
  BY WndAssumption DEF Init
<1> QED
  BY <1>1, <1>2 DEF Agrees, Init

\* However windows of other classes are created, subclassed, restored and destroyed, and
\* whatever other classes are registered with, the windows of a class that has not come
\* apart run what its entry says.
THEOREM WindowsAndEntriesAgree ==
    Spec => []Together
<1>1. Init => TypeOK /\ Together
  BY WndTypeInit, TogetherInit
<1>2. TypeOK /\ Together /\ [Next]_vars => TypeOK' /\ Together'
  BY WndTypeNext, TogetherNext
<1> QED
  BY <1>1, <1>2, PTL DEF Spec
-----------------------------------------------------------------------------
(* The wrapper implements WindowProcedures                                 *)

\* The windows of a class that agree are told what they execute; without windows of
\* their own they are told what the class was given.
LEMMA ToldIsExecuted ==
    ASSUME TypeOK, NEW c \in Class, Agrees(c)
    PROVE  /\ \A w \in Window : class[w] = c => Told(w) = Executed(w) /\ Told(w) \in Proc
           /\ OrigWndProcs[c] = Expected(c) => ToldClass(c) = given[c]
<1>1. ASSUME NEW w \in Window, class[w] = c
      PROVE  Told(w) = Executed(w) /\ Told(w) \in Proc
  BY <1>1, WndAssumption DEF Agrees, Told, Executed, Proc
<1>2. OrigWndProcs[c] = Expected(c) => ToldClass(c) = given[c]
  BY WndAssumption DEF Agrees, Expected, ToldClass, TypeOK, Proc
<1> QED
  BY <1>1, <1>2

\* A step after which the class it was about has come apart drops the promise.
LEMMA IsDrop ==
    ASSUME TypeOK, NEW d \in Class, blurred' = blurred \cup {d}, seen' = seen \/ seen'[1] = d,
           \A c \in Class \ {d} :
               OrigWndProcs'[c] = OrigWndProcs[c] /\ given'[c] = given[c],
           \A w \in Window : class'[w] = class[w] \/ (class[w] = Nil /\ class'[w] = d),
           \A w \in Window : class[w] \notin {d, Nil} => wndProc'[w] = wndProc[w]
    PROVE  Windows!Drop(d)
<1>1. \A c \in Class : Clear(c)' <=> Clear(c) /\ c # d
  BY DEF Clear
<1>2. \A w \in Window : ClearWindow(w)' <=> ClearWindow(w) /\ class[w] # d
  BY <1>1, WndAssumption DEF ClearWindow, TypeOK
<1>3. \A w \in Window : ClearWindow(w)' => Told(w)' = Told(w) /\ class'[w] = class[w]
  BY <1>2, WndAssumption DEF ClearWindow, Told, Clear
<1>4. ClearSeen' \in {ClearSeen, Nil}
  BY DEF ClearSeen, Clear
<1>5. \A w \in Window : ClearWindow(w) /\ class[w] = d => ~ClearWindow(w)'
  BY <1>2
<1>6. [w \in Window |-> IF ClearWindow(w) THEN class[w] ELSE Nil]' =
      [w \in Window |-> IF (IF ClearWindow(w) THEN class[w] ELSE Nil) = d THEN Nil
                        ELSE IF ClearWindow(w) THEN class[w] ELSE Nil]
  BY <1>2, <1>3
<1>7. [w \in Window |-> IF ClearWindow(w) THEN Told(w) ELSE Nil]' =
      [w \in Window |-> IF (IF ClearWindow(w) THEN class[w] ELSE Nil) = d THEN Nil
                        ELSE IF ClearWindow(w) THEN Told(w) ELSE Nil]
  BY <1>2, <1>3, WndAssumption
<1>8. [c \in Class |-> IF Clear(c) THEN given[c] ELSE Nil]' =
      [[c \in Class |-> IF Clear(c) THEN given[c] ELSE Nil] EXCEPT ![d] = Nil]
  BY <1>1
<1> QED
  BY <1>4, <1>6, <1>7, <1>8 DEF Windows!Drop
\* A step after which nothing promised has changed.
LEMMA IsNoChange ==
    ASSUME blurred' = blurred, seen' = seen,
           \A c \in Class : Clear(c) => given'[c] = given[c],
           \A w \in Window : ClearWindow(w)' <=> ClearWindow(w),
           \A w \in Window : ClearWindow(w) => Told(w)' = Told(w) /\ class'[w] = class[w]
    PROVE  UNCHANGED Windows!procedureVars
<1>1. \A c \in Class : Clear(c)' <=> Clear(c)
  BY DEF Clear
<1>2. ClearSeen' = ClearSeen
  BY DEF ClearSeen, Clear
<1> QED
  BY <1>1, <1>2 DEF Windows!procedureVars

LEMMA RegisterImplements ==
    ASSUME TypeOK, Together,
           NEW c \in OwnClass, NEW v \in Assignable, RegisterClass(c, v)
    PROVE  [Windows!ProceduresNext]_Windows!procedureVars
<1> USE DEF TypeOK
<1>0. c \in Class /\ c # Nil
  BY WndAssumption DEF Class
<1>1. CASE classProc[c] = Nil /\ Clear(c) /\ v \in X86
  <2>1. Agrees(c)
    BY <1>1 DEF Together, Clear
  <2>2. given[c] = Nil /\ \A w \in Window : class[w] # c
    BY <1>0, <1>1, <2>1, WndAssumption DEF Agrees
  <2>3. UNCHANGED <<wndProc, class, seen, blurred>>
        /\ given' = [given EXCEPT ![c] = v]
        /\ OrigWndProcs' = [OrigWndProcs EXCEPT ![c] = v]
    BY <1>1 DEF RegisterClass, BlurredUnless
  <2>4. \A w \in Window : /\ ClearWindow(w)' <=> ClearWindow(w)
                          /\ ClearWindow(w) => Told(w)' = Told(w)
    BY <2>2, <2>3 DEF ClearWindow, Clear, Told
  <2>5. \A d \in Class : Clear(d)' <=> Clear(d)
    BY <2>3 DEF Clear
  <2>6. ClearSeen' = ClearSeen
    BY <2>3 DEF ClearSeen, Clear
  <2>7. c \notin blurred
    BY <1>1 DEF Clear
  <2>8. [d \in Class |-> IF Clear(d) THEN given[d] ELSE Nil]' =
            [[d \in Class |-> IF Clear(d) THEN given[d] ELSE Nil] EXCEPT ![c] = v]
    BY <1>0, <1>1, <2>3, <2>5
  <2>9. Windows!RegisterClass(c, v)
    BY <1>0, <1>1, <2>2, <2>3, <2>4, <2>6, <2>7, <2>8 DEF Windows!RegisterClass
  <2> QED
    BY <1>0, <1>1, <2>9 DEF Windows!ProceduresNext, Proc
<1>2. CASE classProc[c] # Nil /\ v = OrigWndProcs[c]
  <2>1. UNCHANGED <<OrigWndProcs, wndProc, class, seen, given, blurred>>
    BY <1>2 DEF RegisterClass, BlurredUnless
  <2>2. \A w \in Window : /\ ClearWindow(w)' <=> ClearWindow(w)
                          /\ Told(w)' = Told(w) /\ class'[w] = class[w]
    BY <2>1 DEF ClearWindow, Clear, Told
  <2> QED
    BY <2>1, <2>2, IsNoChange
<1>3. CASE \/ classProc[c] = Nil /\ (v \notin X86 \/ ~Clear(c))
           \/ classProc[c] # Nil /\ v # OrigWndProcs[c]
  <2>1. Windows!Drop(c)
    BY <1>0, <1>3, IsDrop DEF RegisterClass, BlurredUnless, Clear
  <2> QED
    BY <1>0, <2>1 DEF Windows!ProceduresNext
<1> QED
  BY <1>1, <1>2, <1>3

LEMMA CreateImplements ==
    ASSUME TypeOK, Together, NEW w \in Window, NEW c \in Class, CreateWindow(w, c)
    PROVE  [Windows!ProceduresNext]_Windows!procedureVars
<1> USE DEF TypeOK
<1>0. c # Nil /\ c \in Class
  BY WndAssumption
<1>1. CASE c \in blurred'
  <2>1. blurred' = blurred \cup {c}
    BY <1>1 DEF CreateWindow, BlurredUnless
  <2>2. Windows!Drop(c)
    BY <1>0, <2>1, IsDrop DEF CreateWindow
  <2> QED
    BY <1>0, <2>2 DEF Windows!ProceduresNext
<1>2. CASE c \notin blurred'
  <2>1. blurred' = blurred /\ OrigWndProcs[c] = Expected(c) /\ Agrees(c)
    BY <1>2 DEF CreateWindow, BlurredUnless, Together
  <2>2. ToldClass(c) = given[c] /\ given[c] # Nil
    BY <2>1, ToldIsExecuted, WndAssumption DEF CreateWindow, Agrees, Proc
  <2>3. /\ ClearWindow(w)' /\ ~ClearWindow(w)
        /\ Told(w)' = given[c] /\ class'[w] = c
    BY <1>0, <1>2, <2>1, <2>2 DEF CreateWindow, ClearWindow, Clear, Told, ToldClass
  <2>4. \A u \in Window \ {w} : /\ ClearWindow(u)' <=> ClearWindow(u)
                                /\ Told(u)' = Told(u) /\ class'[u] = class[u]
    BY <2>1 DEF CreateWindow, ClearWindow, Clear, Told
  <2>5. \A d \in Class : Clear(d)' <=> Clear(d)
    BY <2>1 DEF Clear
  <2>6. ClearSeen' = ClearSeen /\ given' = given /\ Clear(c) /\ c \notin blurred
    BY <1>2, <2>1 DEF CreateWindow, ClearSeen, Clear
  <2>7. Windows!CreateWindow(w, c)
    BY <2>1, <2>2, <2>3, <2>4, <2>5, <2>6 DEF Windows!CreateWindow
  <2> QED
    BY <2>7 DEF Windows!ProceduresNext
<1> QED
  BY <1>1, <1>2

LEMMA DestroyImplements ==
    ASSUME TypeOK, NEW w \in Window, DestroyWindow(w)
    PROVE  [Windows!ProceduresNext]_Windows!procedureVars
<1> USE DEF TypeOK
<1>1. UNCHANGED <<OrigWndProcs, seen, given, blurred>>
  BY DEF DestroyWindow
<1>2. /\ ~ClearWindow(w)' /\ class[w] # Nil
      /\ \A u \in Window : u # w => /\ ClearWindow(u)' <=> ClearWindow(u)
                                    /\ Told(u)' = Told(u) /\ class'[u] = class[u]
  BY <1>1 DEF DestroyWindow, ClearWindow, Clear, Told
<1>3. CASE ClearWindow(w)
  <2>1. ClearSeen' = ClearSeen /\ \A d \in Class : Clear(d)' <=> Clear(d)
    BY <1>1 DEF ClearSeen, Clear
  <2>2. [u \in Window |-> IF ClearWindow(u) THEN class[u] ELSE Nil]' =
            [[u \in Window |-> IF ClearWindow(u) THEN class[u] ELSE Nil] EXCEPT ![w] = Nil]
    BY <1>2
  <2>3. [u \in Window |-> IF ClearWindow(u) THEN Told(u) ELSE Nil]' =
            [[u \in Window |-> IF ClearWindow(u) THEN Told(u) ELSE Nil] EXCEPT ![w] = Nil]
    BY <1>2
  <2>4. [d \in Class |-> IF Clear(d) THEN given[d] ELSE Nil]' =
            [d \in Class |-> IF Clear(d) THEN given[d] ELSE Nil]
    BY <1>1, <2>1
  <2>5. Windows!DestroyWindow(w)
    BY <1>1, <1>2, <1>3, <2>1, <2>2, <2>3, <2>4 DEF Windows!DestroyWindow
  <2> QED
    BY <2>5 DEF Windows!ProceduresNext
<1>4. CASE ~ClearWindow(w)
  <2>1. /\ \A u \in Window : ClearWindow(u)' <=> ClearWindow(u)
        /\ \A u \in Window : ClearWindow(u) => Told(u)' = Told(u) /\ class'[u] = class[u]
    BY <1>2, <1>4
  <2> QED
    BY <1>1, <2>1, IsNoChange
<1> QED
  BY <1>3, <1>4

\* Reading a procedure, and messages.
LEMMA ObserveImplements ==
    ASSUME TypeOK, Together, NEW w \in Window, GetWindowLong(w) \/ Message(w)
    PROVE  [Windows!ProceduresNext]_Windows!procedureVars
<1> USE DEF TypeOK
<1>1. UNCHANGED <<OrigWndProcs, wndProc, class, given, blurred>> /\ class[w] # Nil
  BY DEF GetWindowLong, Message
<1>2. /\ [u \in Window |-> IF ClearWindow(u) THEN class[u] ELSE Nil]' =
            [u \in Window |-> IF ClearWindow(u) THEN class[u] ELSE Nil]
      /\ [u \in Window |-> IF ClearWindow(u) THEN Told(u) ELSE Nil]' =
            [u \in Window |-> IF ClearWindow(u) THEN Told(u) ELSE Nil]
      /\ [d \in Class |-> IF Clear(d) THEN given[d] ELSE Nil]' =
            [d \in Class |-> IF Clear(d) THEN given[d] ELSE Nil]
  BY <1>1 DEF ClearWindow, Clear, Told
<1>3. CASE ClearWindow(w)
  <2>1. Told(w) = Executed(w)
    BY <1>3, ToldIsExecuted DEF ClearWindow, Clear, Together
  <2>2. seen' = <<class[w], w, Told(w)>>
    BY <2>1 DEF GetWindowLong, Message
  <2>3. ClearSeen' = <<class[w], w, Told(w)>>
    BY <1>1, <1>3, <2>2, ToldTypes, WndAssumption DEF ClearSeen, ClearWindow, Clear
  <2>4. Windows!Observe(w)
    BY <1>1, <1>2, <1>3, <2>3 DEF Windows!Observe
  <2> QED
    BY <2>4 DEF Windows!ProceduresNext
<1>4. CASE ~ClearWindow(w)
  <2>1. seen' # Nil => seen'[1] = class[w]
    BY DEF GetWindowLong, Message
  <2>2. ClearSeen' = Nil
    BY <1>1, <1>4, <2>1 DEF ClearSeen, ClearWindow, Clear
  <2>3. Windows!Elsewhere
    BY <1>1, <1>2, <2>2 DEF Windows!Elsewhere
  <2> QED
    BY <2>3 DEF Windows!ProceduresNext
<1> QED
  BY <1>3, <1>4
LEMMA ReplaceImplements ==
    ASSUME TypeOK, Together, NEW w \in Window, NEW v \in Assignable, SetWindowLong(w, v)
    PROVE  [Windows!ProceduresNext]_Windows!procedureVars
<1> USE DEF TypeOK
<1> PICK c \in Class : c = class[w]
  BY DEF SetWindowLong
<1>0. /\ c = class[w] /\ c # Nil
      /\ UNCHANGED <<classProc, class, given>>
      /\ seen' = <<c, w, Told(w)>>
  BY WndAssumption DEF SetWindowLong
<1>1. CASE c \in blurred'
  <2>1. blurred' = blurred \cup {c}
    BY <1>1 DEF SetWindowLong, BlurredUnless
  <2>2. \A d \in Class \ {c} : OrigWndProcs'[d] = OrigWndProcs[d]
    BY DEF SetWindowLong
  <2>3. \A u \in Window : class[u] \notin {c, Nil} => wndProc'[u] = wndProc[u]
    BY DEF SetWindowLong
  <2>4. seen'[1] = c
    BY <1>0
  <2>5. Windows!Drop(c)
    BY <1>0, <2>1, <2>2, <2>3, <2>4, IsDrop
  <2> QED
    BY <1>0, <2>5 DEF Windows!ProceduresNext
<1>2. CASE c \notin blurred'
  <2>1. blurred' = blurred /\ Alone(w) /\ v \in Proc /\ c \notin blurred
    BY <1>2 DEF SetWindowLong, BlurredUnless, Assignable
  <2>2. ClearWindow(w) /\ Agrees(c)
    BY <1>0, <2>1 DEF ClearWindow, Clear, Together
  <2>3. OrigWndProcs'[c] = (IF v \in X86 THEN v ELSE Nil)
        /\ (v \notin X86 => wndProc'[w] = v)
    BY <1>0 DEF SetWindowLong
  <2>4. ClearWindow(w)' /\ Told(w)' = v
    BY <1>0, <2>1, <2>2, <2>3, WndAssumption DEF ClearWindow, Clear, Told, Proc
  <2>5. \A u \in Window : u # w /\ class[u] # Nil => class[u] # c
    BY <2>1 DEF Alone
  <2>6. \A u \in Window : u # w => /\ ClearWindow(u)' <=> ClearWindow(u)
                                   /\ ClearWindow(u) => Told(u)' = Told(u)
    BY <1>0, <2>1, <2>5 DEF SetWindowLong, ClearWindow, Clear, Told
  <2> HIDE DEF TypeOK
  <2>7. \A d \in Class : Clear(d)' <=> Clear(d)
    BY <2>1 DEF Clear
  <2>8. ClearSeen' = <<c, w, Told(w)>>
    BY <1>0, <2>1, ToldTypes, WndAssumption DEF ClearSeen, Clear, TypeOK
  <2>9. [u \in Window |-> IF ClearWindow(u) THEN class[u] ELSE Nil]' =
            [u \in Window |-> IF ClearWindow(u) THEN class[u] ELSE Nil]
    <3>1. \A u \in Window : class'[u] = class[u] /\ (ClearWindow(u)' <=> ClearWindow(u))
      BY <1>0, <2>2, <2>4, <2>6
    <3> QED
      BY <3>1
  <2>10. [u \in Window |-> IF ClearWindow(u) THEN Told(u) ELSE Nil]' =
            [[u \in Window |-> IF ClearWindow(u) THEN Told(u) ELSE Nil] EXCEPT ![w] = v]
    <3>1. \A u \in Window : (IF ClearWindow(u) THEN Told(u) ELSE Nil)' =
              IF u = w THEN v ELSE IF ClearWindow(u) THEN Told(u) ELSE Nil
      BY <2>4, <2>6
    <3> QED
      BY <3>1
  <2>11. [d \in Class |-> IF Clear(d) THEN given[d] ELSE Nil]' =
            [d \in Class |-> IF Clear(d) THEN given[d] ELSE Nil]
    BY <1>0, <2>7
  <2>12. Windows!Replace(w, v)
    BY <1>0, <2>1, <2>2, <2>8, <2>9, <2>10, <2>11 DEF Windows!Replace
  <2> QED
    BY <2>1, <2>12 DEF Windows!ProceduresNext
<1> QED
  BY <1>1, <1>2

LEMMA ReplaceClassImplements ==
    ASSUME TypeOK, NEW w \in Window, NEW v \in Assignable, SetClassLong(w, v)
    PROVE  [Windows!ProceduresNext]_Windows!procedureVars
<1> USE DEF TypeOK
<1> PICK c \in Class : c = class[w]
  BY DEF SetClassLong
<1>1. /\ c = class[w]
      /\ UNCHANGED <<wndProc, class, given>>
      /\ seen'[1] = c
      /\ blurred' = blurred \cup {c}
      /\ \A d \in Class \ {c} : OrigWndProcs'[d] = OrigWndProcs[d]
  BY DEF SetClassLong
<1>2. Windows!Drop(c)
  BY <1>1, IsDrop
<1> QED
  BY <1>1, <1>2 DEF Windows!ProceduresNext

LEMMA ObserveClassImplements ==
    ASSUME TypeOK, Together, NEW c \in Class, GetClassInfo(c)
    PROVE  [Windows!ProceduresNext]_Windows!procedureVars
<1> USE DEF TypeOK
<1>1. UNCHANGED <<OrigWndProcs, wndProc, class, given>> /\ seen' = <<c, Nil, ToldClass(c)>>
  BY DEF GetClassInfo
<1>2. CASE c \in blurred'
  <2>1. blurred' = blurred \cup {c}
    BY <1>2 DEF GetClassInfo, BlurredUnless
  <2>2. Windows!Drop(c)
    BY <1>1, <2>1, IsDrop
  <2> QED
    BY <2>2 DEF Windows!ProceduresNext
<1>3. CASE c \notin blurred'
  <2>1. blurred' = blurred /\ OrigWndProcs[c] = Expected(c) /\ Agrees(c) /\ Clear(c)
    BY <1>3 DEF GetClassInfo, BlurredUnless, Together, Clear
  <2>2. ToldClass(c) = given[c]
    BY <2>1, ToldIsExecuted
  <2>3. ClearSeen' = <<c, Nil, given[c]>>
    BY <1>1, <2>1, <2>2, WndAssumption DEF ClearSeen, Clear
  <2>4. /\ [u \in Window |-> IF ClearWindow(u) THEN class[u] ELSE Nil]' =
              [u \in Window |-> IF ClearWindow(u) THEN class[u] ELSE Nil]
        /\ [u \in Window |-> IF ClearWindow(u) THEN Told(u) ELSE Nil]' =
              [u \in Window |-> IF ClearWindow(u) THEN Told(u) ELSE Nil]
        /\ [d \in Class |-> IF Clear(d) THEN given[d] ELSE Nil]' =
              [d \in Class |-> IF Clear(d) THEN given[d] ELSE Nil]
    BY <1>1, <2>1 DEF ClearWindow, Clear, Told
  <2>5. Windows!ObserveClass(c)
    BY <2>1, <2>3, <2>4 DEF Windows!ObserveClass, Clear
  <2> QED
    BY <2>5 DEF Windows!ProceduresNext
<1> QED
  BY <1>2, <1>3

LEMMA ProceduresInitially == Init => Windows!ProceduresInit
<1> SUFFICES ASSUME Init PROVE Windows!ProceduresInit
  OBVIOUS
<1>1. \A w \in Window : ~ClearWindow(w)
  BY DEF Init, ClearWindow
<1>2. \A c \in Class : Clear(c) /\ given[c] = BuiltIn[c]
  BY DEF Init, Clear
<1>3. [c \in Class |-> IF Clear(c) THEN given[c] ELSE Nil] = BuiltIn
  BY <1>2 DEF BuiltIn
<1>4. ClearSeen = Nil /\ blurred = {}
  BY DEF Init, ClearSeen
<1> QED
  BY <1>1, <1>3, <1>4 DEF Windows!ProceduresInit

\* For any number of classes, windows and procedures the wrapper implements what
\* Windows promises about them, for every class as long as nothing went through the
\* one entry of a class whose windows or defaults differ; no class loses the promise
\* because of what happened to another.
THEOREM ProceduresImplemented ==
    Spec => ImplementsProcedures
<1>1. Init => TypeOK /\ Together /\ Windows!ProceduresInit
  BY WndTypeInit, TogetherInit, ProceduresInitially
<1>2. TypeOK /\ Together /\ [Next]_vars => TypeOK' /\ Together'
  BY WndTypeNext, TogetherNext
<1>3. TypeOK /\ Together /\ [Next]_vars => [Windows!ProceduresNext]_Windows!procedureVars
  <2> SUFFICES ASSUME TypeOK, Together, [Next]_vars
               PROVE  [Windows!ProceduresNext]_Windows!procedureVars
    OBVIOUS
  <2>1. ASSUME UNCHANGED vars
        PROVE  UNCHANGED Windows!procedureVars
    <3>1. \A w \in Window : /\ ClearWindow(w)' <=> ClearWindow(w)
                            /\ Told(w)' = Told(w) /\ class'[w] = class[w]
      BY <2>1 DEF vars, ClearWindow, Clear, Told
    <3> QED
      BY <2>1, <3>1, IsNoChange DEF vars
  <2> QED
    BY <2>1, RegisterImplements, CreateImplements, DestroyImplements, ObserveImplements,
       ReplaceImplements, ReplaceClassImplements, ObserveClassImplements DEF Next
<1> QED
  BY <1>1, <1>2, <1>3, PTL DEF Spec, ImplementsProcedures, Windows!ProceduresSpec
=============================================================================
