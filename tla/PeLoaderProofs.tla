--------------------------- MODULE PeLoaderProofs ---------------------------
(***************************************************************************)
(* Proofs about PeLoader: the invariant IInv is inductive, and with it the *)
(* module list has one copy of every module that is loaded under its own   *)
(* name, no handle is lost, and loads and closes work on no freed handle,  *)
(* for every set of threads and files, every import table, every name the  *)
(* search gives a file and every size of the module table.                 *)
(***************************************************************************)
EXTENDS PeLoader, ListTheorems

-----------------------------------------------------------------------------
(* Frames and the lock                                                     *)

\* The fields a frame has.
LEMMA FrameFields ==
    ASSUME NEW f \in Frame
    PROVE  /\ f.at \in {"open", "map", "free", "fail", "import", "entry"}
           /\ f.at = "open" => f.file \in File
           /\ f.at # "open" => f.mod \in Handle \cup {NoHandle}
           /\ f.at \notin {"open", "fail"} => f.mod \in Handle
           /\ f.at = "import" => f.next \in Nat
           /\ f.at = "entry" => f.reason \in AttachReason \cup DetachReason
BY DEF Frame

\* The frames the loader makes.
LEMMA FrameMade ==
    /\ \A f \in File : [at |-> "open", file |-> f] \in Frame
    /\ \A h \in Handle : /\ [at |-> "map", mod |-> h] \in Frame
                         /\ [at |-> "free", mod |-> h] \in Frame
                         /\ \A n \in Nat : [at |-> "import", mod |-> h, next |-> n] \in Frame
                         /\ \A r \in AttachReason \cup DetachReason : EntryFrame(h, r) \in Frame
    /\ \A h \in Handle \cup {NoHandle} : [at |-> "fail", mod |-> h] \in Frame
BY DEF Frame, EntryFrame

LEMMA LockTypes ==
    ASSUME NEW cs \in CriticalSectionType, NEW t \in Thread
    PROVE  /\ Entered(cs, t) \in CriticalSectionType
           /\ Left(cs) \in CriticalSectionType
           /\ \A n \in Nat : LeftTimes(cs, n) \in CriticalSectionType
<1>1. cs.owner \in Thread \cup {NoThread} /\ cs.count \in Nat
      /\ cs = [owner |-> cs.owner, count |-> cs.count]
  BY DEF CriticalSectionType
<1>2. Entered(cs, t) \in CriticalSectionType
  BY <1>1 DEF Entered, CriticalSectionType
<1>3. ASSUME NEW n \in Nat, cs.count > n
      PROVE  [cs EXCEPT !.count = @ - n] \in CriticalSectionType
  <2>1. cs.count - n \in Nat
    BY <1>1, <1>3
  <2> QED
    BY <1>1, <2>1 DEF CriticalSectionType
<1>4. Left(cs) \in CriticalSectionType
  BY <1>1, <1>3 DEF Left, Unowned, CriticalSectionType
<1>5. \A n \in Nat : LeftTimes(cs, n) \in CriticalSectionType
  BY <1>1, <1>3 DEF LeftTimes, Unowned, CriticalSectionType
<1> QED
  BY <1>2, <1>4, <1>5

\* The length of a stack and the holds that belong to it.
LEMMA StackLength ==
    ASSUME TypeOK, NEW t \in Thread
    PROVE  /\ stack[t] \in Seq(Frame)
           /\ Len(stack[t]) \in Nat
           /\ DOMAIN stack[t] = 1 .. Len(stack[t])
           /\ stack[t] = <<>> <=> Len(stack[t]) = 0
           /\ \A k \in 1 .. Len(stack[t]) : stack[t][k] \in Frame
           /\ stack[t] # <<>> => Top(t) = stack[t][Len(stack[t])]
<1>1. stack[t] \in Seq(Frame)
  BY DEF TypeOK
<1> QED
  BY <1>1, EmptySeq, LenProperties, ElementOfSeq DEF Top, Last

LEMMA HoldsCount ==
    ASSUME TypeOK, NEW t \in Thread
    PROVE  /\ pc[t] = "close" => Holds(t) = Len(stack[t]) + 1
           /\ pc[t] # "close" => Holds(t) = Len(stack[t])
           /\ Holds(t) > 0 <=> stack[t] # <<>> \/ pc[t] = "close"
<1>1. Len(stack[t]) \in Nat /\ (stack[t] = <<>> <=> Len(stack[t]) = 0)
  BY StackLength
<1>2. CASE pc[t] = "close"
  <2>1. Holds(t) = Len(stack[t]) + 1
    BY <1>2 DEF Holds
  <2> QED
    BY <1>1, <1>2, <2>1
<1>3. CASE pc[t] # "close"
  <2>1. Holds(t) = Len(stack[t]) + 0
    BY <1>3 DEF Holds
  <2> QED
    BY <1>1, <1>3, <2>1
<1> QED
  BY <1>2, <1>3

\* One thread at a time is inside the loader.
LEMMA OneInside ==
    ASSUME TypeOK, LocksHeld, NEW t \in Thread, NEW u \in Thread, t # u,
           CanEnter(CSPeLdr, t)
    PROVE  stack[u] = <<>> /\ pc[u] # "close"
<1>1. ~(Holds(u) > 0)
  BY NoThreadAssumption DEF CanEnter, LocksHeld
<1> QED
  BY <1>1, HoldsCount

\* So a thread that has a frame may enter, and nobody else has one.
LEMMA InsideAlone ==
    ASSUME TypeOK, LocksHeld, NEW t \in Thread, stack[t] # <<>> \/ pc[t] = "close"
    PROVE  /\ CanEnter(CSPeLdr, t)
           /\ \A u \in Thread : u # t => stack[u] = <<>> /\ pc[u] # "close"
<1>1. Holds(t) > 0
  BY HoldsCount
<1>2. CanEnter(CSPeLdr, t)
  BY <1>1 DEF LocksHeld, CanEnter
<1> QED
  BY <1>2, OneInside

-----------------------------------------------------------------------------
(* What the calls of the loader do to the stack of their thread            *)

\* The top of a stack replaced.
LEMMA ReplaceTop ==
    ASSUME NEW S, NEW s \in Seq(S), s # <<>>, NEW e \in S
    PROVE  /\ Append(Front(s), e) \in Seq(S)
           /\ Len(Append(Front(s), e)) = Len(s)
           /\ Append(Front(s), e)[Len(s)] = e
           /\ \A k \in 1 .. Len(s) - 1 : Append(Front(s), e)[k] = s[k]
<1>1. /\ Front(s) \in Seq(S)
      /\ Len(Front(s)) = Len(s) - 1
      /\ \A k \in 1 .. Len(s) - 1 : Front(s)[k] = s[k]
      /\ Len(s) \in Nat \ {0}
  BY FrontIndex, EmptySeq
<1>2. /\ Append(Front(s), e) \in Seq(S)
      /\ Len(Append(Front(s), e)) = Len(Front(s)) + 1
      /\ \A k \in 1 .. Len(Front(s)) : Append(Front(s), e)[k] = Front(s)[k]
      /\ Append(Front(s), e)[Len(Front(s)) + 1] = e
  BY <1>1, AppendProperties
<1> QED
  BY <1>1, <1>2

LEMMA PushStep ==
    ASSUME TypeOK, NEW t \in Thread, NEW frame \in Frame, Push(t, frame)
    PROVE  /\ stack' \in [Thread -> Seq(Frame)]
           /\ CSPeLdr' \in CriticalSectionType
           /\ \A u \in Thread : u # t => stack'[u] = stack[u]
           /\ Len(stack'[t]) = Len(stack[t]) + 1
           /\ stack'[t][Len(stack[t]) + 1] = frame
           /\ \A k \in 1 .. Len(stack[t]) : stack'[t][k] = stack[t][k]
           /\ CSPeLdr'.owner = t /\ CSPeLdr'.count = CSPeLdr.count + 1
<1>1. stack \in [Thread -> Seq(Frame)] /\ CSPeLdr \in CriticalSectionType
  BY DEF TypeOK
<1>2. stack'[t] = Append(stack[t], frame) /\ \A u \in Thread : u # t => stack'[u] = stack[u]
  BY <1>1 DEF Push
<1>3. /\ Append(stack[t], frame) \in Seq(Frame)
      /\ Len(Append(stack[t], frame)) = Len(stack[t]) + 1
      /\ Append(stack[t], frame)[Len(stack[t]) + 1] = frame
      /\ \A k \in 1 .. Len(stack[t]) : Append(stack[t], frame)[k] = stack[t][k]
  BY <1>1, AppendProperties
<1>4. stack' \in [Thread -> Seq(Frame)]
  BY <1>1, <1>3 DEF Push
<1>5. CSPeLdr' \in CriticalSectionType /\ CSPeLdr'.owner = t /\ CSPeLdr'.count = CSPeLdr.count + 1
  BY <1>1, LockTypes DEF Push, Entered
<1> QED
  BY <1>2, <1>3, <1>4, <1>5

LEMMA BecomeStep ==
    ASSUME TypeOK, NEW t \in Thread, NEW frame \in Frame, Become(t, frame), stack[t] # <<>>
    PROVE  /\ stack' \in [Thread -> Seq(Frame)]
           /\ \A u \in Thread : u # t => stack'[u] = stack[u]
           /\ Len(stack'[t]) = Len(stack[t])
           /\ stack'[t][Len(stack[t])] = frame
           /\ \A k \in 1 .. Len(stack[t]) - 1 : stack'[t][k] = stack[t][k]
<1>1. stack \in [Thread -> Seq(Frame)]
  BY DEF TypeOK
<1>2. /\ stack'[t] = Append(Front(stack[t]), frame)
      /\ \A u \in Thread : u # t => stack'[u] = stack[u]
  BY <1>1 DEF Become
<1>3. /\ Append(Front(stack[t]), frame) \in Seq(Frame)
      /\ Len(Append(Front(stack[t]), frame)) = Len(stack[t])
      /\ Append(Front(stack[t]), frame)[Len(stack[t])] = frame
      /\ \A k \in 1 .. Len(stack[t]) - 1 : Append(Front(stack[t]), frame)[k] = stack[t][k]
  BY <1>1, ReplaceTop
<1>4. stack' \in [Thread -> Seq(Frame)]
  BY <1>1, <1>3 DEF Become
<1> QED
  BY <1>2, <1>3, <1>4

\* The frame g that a frame f becomes when the load it waits for returns.
After(f, g) ==
    /\ g \in Frame
    /\ f.at # "import" => g = f
    /\ f.at = "import" => /\ g.mod = f.mod
                          /\ g.at = "fail" \/ (g.at = "import" /\ g.next = f.next + 1)

LEMMA ResumedStack ==
    ASSUME NEW s \in Seq(Frame), NEW ok
    PROVE  /\ Resumed(s, ok) \in Seq(Frame)
           /\ Len(Resumed(s, ok)) = Len(s)
           /\ \A k \in 1 .. Len(s) - 1 : Resumed(s, ok)[k] = s[k]
           /\ s # <<>> => After(s[Len(s)], Resumed(s, ok)[Len(s)])
<1>1. CASE s = <<>>
  <2>1. Resumed(s, ok) = <<>>
    BY <1>1 DEF Resumed
  <2> QED
    BY <1>1, <2>1, EmptySeq
<1>2. CASE s # <<>>
  <2> DEFINE f == Last(s)
             fail == [at |-> "fail", mod |-> f.mod]
             on == [f EXCEPT !.next = @ + 1]
  <2>1. Len(s) \in Nat \ {0} /\ f = s[Len(s)] /\ f \in Frame
    BY <1>2, EmptySeq, ElementOfSeq DEF Last
  <2>2. CASE f.at # "import"
    <3>1. Resumed(s, ok) = s
      BY <2>2 DEF Resumed
    <3> QED
      BY <2>1, <2>2, <3>1 DEF After
  <2>3. CASE f.at = "import"
    <3>1. f \in [at : {"import"}, mod : Handle, next : Nat]
      BY <2>1, <2>3 DEF Frame
    <3>2. /\ on \in [at : {"import"}, mod : Handle, next : Nat]
          /\ on.mod = f.mod /\ on.at = "import" /\ on.next = f.next + 1
      BY <3>1
    <3>3. on \in Frame /\ fail \in Frame
      BY <3>1, <3>2, FrameMade DEF Frame
    <3>4. Resumed(s, ok) = Append(Front(s), on) \/ Resumed(s, ok) = Append(Front(s), fail)
      BY <1>2, <2>3 DEF Resumed
    <3>5. After(f, on) /\ After(f, fail)
      BY <2>3, <3>2, <3>3 DEF After
    <3>6. ASSUME NEW e \in Frame, Resumed(s, ok) = Append(Front(s), e), After(f, e)
          PROVE  /\ Resumed(s, ok) \in Seq(Frame)
                 /\ Len(Resumed(s, ok)) = Len(s)
                 /\ \A k \in 1 .. Len(s) - 1 : Resumed(s, ok)[k] = s[k]
                 /\ After(s[Len(s)], Resumed(s, ok)[Len(s)])
      <4> HIDE DEF f
      <4> QED
        BY <1>2, <2>1, <3>6, ReplaceTop
    <3> HIDE DEF f, on, fail
    <3> QED
      BY <3>3, <3>4, <3>5, <3>6
  <2> QED
    BY <2>2, <2>3
<1> QED
  BY <1>1, <1>2

LEMMA ReturnStep ==
    ASSUME TypeOK, NEW t \in Thread, NEW ok, Return(t, ok), stack[t] # <<>>
    PROVE  /\ stack' \in [Thread -> Seq(Frame)]
           /\ CSPeLdr' \in CriticalSectionType
           /\ \A u \in Thread : u # t => stack'[u] = stack[u]
           /\ Len(stack'[t]) = Len(stack[t]) - 1
           /\ \A k \in 1 .. Len(stack[t]) - 2 : stack'[t][k] = stack[t][k]
           /\ Len(stack[t]) > 1 =>
                 After(stack[t][Len(stack[t]) - 1], stack'[t][Len(stack[t]) - 1])
           /\ CSPeLdr.count > 1 => CSPeLdr'.owner = CSPeLdr.owner
                                   /\ CSPeLdr'.count = CSPeLdr.count - 1
<1>1. stack \in [Thread -> Seq(Frame)] /\ CSPeLdr \in CriticalSectionType
  BY DEF TypeOK
<1> DEFINE s == Front(stack[t])
<1>2. /\ s \in Seq(Frame)
      /\ Len(s) = Len(stack[t]) - 1
      /\ \A k \in 1 .. Len(stack[t]) - 1 : s[k] = stack[t][k]
      /\ Len(stack[t]) \in Nat \ {0}
  BY <1>1, FrontIndex, EmptySeq
<1>3. stack'[t] = Resumed(s, ok) /\ \A u \in Thread : u # t => stack'[u] = stack[u]
  BY <1>1 DEF Return
<1> HIDE DEF s
<1>4. /\ Resumed(s, ok) \in Seq(Frame)
      /\ Len(Resumed(s, ok)) = Len(s)
      /\ \A k \in 1 .. Len(s) - 1 : Resumed(s, ok)[k] = s[k]
      /\ s # <<>> => After(s[Len(s)], Resumed(s, ok)[Len(s)])
  BY <1>2, ResumedStack
<1>5. stack' \in [Thread -> Seq(Frame)]
  BY <1>1, <1>4 DEF Return, s
<1>6. Len(stack[t]) > 1 => s # <<>>
  BY <1>2, EmptySeq
<1>7. CSPeLdr' \in CriticalSectionType
  BY <1>1, LockTypes DEF Return
<1>8. CSPeLdr.count > 1 => CSPeLdr'.owner = CSPeLdr.owner /\ CSPeLdr'.count = CSPeLdr.count - 1
  BY <1>1 DEF Return, Left, CriticalSectionType
<1>9. \A k \in 1 .. Len(stack[t]) - 2 : stack'[t][k] = stack[t][k]
  BY <1>2, <1>3, <1>4
<1> QED
  BY <1>2, <1>3, <1>4, <1>5, <1>6, <1>7, <1>8, <1>9

\* A fault leaves k frames.
LEMMA UnwindStep ==
    ASSUME TypeOK, NEW t \in Thread, NEW k \in 0 .. Len(stack[t]) - 1, Unwind(t, k)
    PROVE  /\ stack' \in [Thread -> Seq(Frame)]
           /\ CSPeLdr' \in CriticalSectionType
           /\ fate' \in [Handle -> Fate]
           /\ \A u \in Thread : u # t => stack'[u] = stack[u]
           /\ Len(stack'[t]) = k
           /\ \A j \in 1 .. k - 1 : stack'[t][j] = stack[t][j]
           /\ k > 0 => After(stack[t][k], stack'[t][k])
           /\ k > 0 /\ CSPeLdr.count > Len(stack[t]) - k =>
                 /\ CSPeLdr'.owner = CSPeLdr.owner
                 /\ CSPeLdr'.count >= CSPeLdr.count - (Len(stack[t]) - k)
<1>1. /\ stack \in [Thread -> Seq(Frame)]
      /\ CSPeLdr \in CriticalSectionType
      /\ fate \in [Handle -> Fate]
      /\ Len(stack[t]) \in Nat
  BY StackLength DEF TypeOK
<1> DEFINE n == Len(stack[t])
           s == SubSeq(stack[t], 1, k)
           cut == SubSeq(stack[t], k + 1, n)
<1>2. n \in Nat /\ k \in Nat /\ k < n /\ \A j \in 1 .. n : stack[t][j] \in Frame
  BY <1>1, ElementOfSeq
<1>3. s \in Seq(Frame) /\ Len(s) = k /\ \A j \in 1 .. k : s[j] = stack[t][j]
  <2>1. \A j \in 1 .. k : stack[t][j] \in Frame
    BY <1>2
  <2>2. /\ s \in Seq(Frame)
        /\ Len(s) = IF 1 <= k THEN k - 1 + 1 ELSE 0
        /\ \A j \in 1 .. k - 1 + 1 : s[j] = stack[t][1 + j - 1]
    BY <1>2, <2>1, SubSeqProperties
  <2>3. \A j \in 1 .. k : j \in 1 .. k - 1 + 1 /\ 1 + j - 1 = j
    BY <1>2
  <2> HIDE DEF s
  <2> QED
    BY <1>2, <2>2, <2>3
<1>4. Len(cut) = n - k
  <2>1. \A j \in k + 1 .. n : stack[t][j] \in Frame
    BY <1>2
  <2>2. Len(cut) = IF k + 1 <= n THEN n - (k + 1) + 1 ELSE 0
    BY <1>2, <2>1, SubSeqProperties
  <2> QED
    BY <1>2, <2>2
<1>5. /\ stack' = [stack EXCEPT ![t] = Resumed(s, FALSE)]
      /\ CSPeLdr' \in {CSPeLdr, LeftTimes(CSPeLdr, IF k = 0 THEN Holds(t) ELSE Len(cut))}
  BY <1>1 DEF Unwind
<1>6. fate' \in [Handle -> Fate]
  BY <1>1 DEF Unwind, Fate
<1> HIDE DEF s, cut, n
<1>7. /\ Resumed(s, FALSE) \in Seq(Frame)
      /\ Len(Resumed(s, FALSE)) = Len(s)
      /\ \A j \in 1 .. Len(s) - 1 : Resumed(s, FALSE)[j] = s[j]
      /\ s # <<>> => After(s[Len(s)], Resumed(s, FALSE)[Len(s)])
  BY <1>3, ResumedStack
<1>8. k > 0 => s # <<>>
  BY <1>2, <1>3, EmptySeq
<1>9. /\ stack' \in [Thread -> Seq(Frame)]
      /\ stack'[t] = Resumed(s, FALSE)
      /\ \A u \in Thread : u # t => stack'[u] = stack[u]
  BY <1>1, <1>5, <1>7
<1>10. n - k \in Nat /\ Holds(t) \in Nat
  <2>1. Holds(t) = Len(stack[t]) \/ Holds(t) = Len(stack[t]) + 1
    BY HoldsCount
  <2> QED
    BY <1>1, <1>2, <2>1
<1>11. CSPeLdr' \in CriticalSectionType
  BY <1>1, <1>4, <1>5, <1>10, LockTypes
<1>12. k > 0 /\ CSPeLdr.count > n - k => /\ CSPeLdr'.owner = CSPeLdr.owner
                                         /\ CSPeLdr'.count >= CSPeLdr.count - (n - k)
  <2>1. CSPeLdr.count \in Nat
    BY <1>1 DEF CriticalSectionType
  <2>2. CASE CSPeLdr' = CSPeLdr
    BY <1>10, <2>1, <2>2
  <2>3. ASSUME CSPeLdr' = LeftTimes(CSPeLdr, n - k), CSPeLdr.count > n - k
        PROVE  CSPeLdr'.owner = CSPeLdr.owner /\ CSPeLdr'.count = CSPeLdr.count - (n - k)
    BY <1>1, <1>10, <2>1, <2>3 DEF LeftTimes, CriticalSectionType
  <2>4. k > 0 => CSPeLdr' \in {CSPeLdr, LeftTimes(CSPeLdr, n - k)}
    BY <1>2, <1>4, <1>5
  <2> QED
    BY <1>10, <2>1, <2>2, <2>3, <2>4
<1>13. ASSUME k > 0 PROVE After(stack[t][k], stack'[t][k])
  <2>1. s[Len(s)] = stack[t][k] /\ Resumed(s, FALSE)[Len(s)] = stack'[t][k]
    BY <1>2, <1>3, <1>9, <1>13
  <2> QED
    BY <1>7, <1>8, <1>13, <2>1
<1>14. Len(stack'[t]) = k /\ \A j \in 1 .. k - 1 : stack'[t][j] = stack[t][j]
  <2>1. Len(stack'[t]) = Len(s) /\ \A j \in 1 .. Len(s) - 1 : stack'[t][j] = s[j]
    BY <1>7, <1>9, Zenon
  <2> QED
    BY <1>2, <1>3, <2>1
<1>15. n = Len(stack[t])
  BY DEF n
<1> QED
  BY <1>6, <1>9, <1>11, <1>12, <1>13, <1>14, <1>15

-----------------------------------------------------------------------------
(* Type correctness of every step                                          *)

\* The frame on top.
LEMMA TopFrame ==
    ASSUME TypeOK, FramesSound, NEW t \in Thread, stack[t] # <<>>
    PROVE  /\ Top(t) \in Frame
           /\ Top(t) = stack[t][Len(stack[t])]
           /\ Len(stack[t]) \in Nat \ {0}
           /\ FrameSound(t, Len(stack[t]))
           /\ Top(t).at \notin {"open", "fail"} => Top(t).mod \in Opened
           /\ Top(t).at # "open" => Top(t).mod \in Opened \cup {NoHandle}
           /\ Top(t).at # "open" /\ ~OfThread(Top(t)) => Top(t).mod \notin freed
<1>1. /\ Len(stack[t]) \in Nat \ {0}
      /\ Top(t) = stack[t][Len(stack[t])]
      /\ Top(t) \in Frame
  BY StackLength
<1>2. FrameSound(t, Len(stack[t]))
  BY <1>1, StackLength DEF FramesSound
<1>3. /\ Top(t).at # "open" => Top(t).mod \in Opened \cup {NoHandle}
      /\ Top(t).at # "open" /\ ~OfThread(Top(t)) => Top(t).mod \notin freed
  BY <1>1, <1>2 DEF FrameSound
<1>4. Top(t).at \notin {"open", "fail"} => Top(t).mod \in Handle
  BY <1>1, FrameFields
<1>5. NoHandle \notin Handle
  BY LoaderAssumption DEF NoHandle, Handle
<1> QED
  BY <1>1, <1>2, <1>3, <1>4, <1>5

\* Handles are numbered, and every one allocated has a file.
LEMMA Handles ==
    ASSUME TypeOK
    PROVE  /\ Len(files) \in Nat
           /\ Opened = 1 .. Len(files)
           /\ \A h \in Opened : files[h] \in File
           /\ Opened \subseteq Nat \ {0}
           /\ NoHandle \notin Opened
           /\ NoHandle \notin Handle
<1>1. files \in Seq(File)
  BY DEF TypeOK
<1>2. Len(files) \in Nat /\ DOMAIN files = 1 .. Len(files)
  BY <1>1, LenProperties
<1> QED
  BY <1>1, <1>2, ElementOfSeq, LoaderAssumption DEF Opened, NoHandle, Handle

\* The imports of a module.
LEMMA ImportFields ==
    ASSUME TypeOK, NEW h \in Opened, NEW n \in DOMAIN Imports[files[h]]
    PROVE  /\ Imports[files[h]] \in Seq(Import)
           /\ n \in Nat
           /\ Imports[files[h]][n] \in Import
           /\ Imports[files[h]][n].dll \in File
           /\ Imports[files[h]][n].must \in BOOLEAN
<1>1. Imports[files[h]] \in Seq(Import)
  BY Handles, LoaderAssumption
<1>2. n \in 1 .. Len(Imports[files[h]]) /\ Len(Imports[files[h]]) \in Nat
  BY <1>1, LenProperties
<1>3. Imports[files[h]][n] \in Import
  BY <1>1, <1>2, ElementOfSeq
<1> QED
  BY <1>1, <1>2, <1>3 DEF Import

LEMMA WantedFile ==
    ASSUME TypeOK, FramesSound, NEW t \in Thread, HasImport(t)
    PROVE  Wanted(t) \in File /\ Top(t).mod \in Opened
<1>1. stack[t] # <<>> /\ Top(t).at = "import"
  BY DEF HasImport, At
<1>2. Top(t).mod \in Opened
  BY <1>1, TopFrame
<1> QED
  BY <1>2, ImportFields DEF HasImport, Wanted

\* The lists the steps change.
LEMMA ListTypes ==
    ASSUME TypeOK
    PROVE  /\ \A h \in Handle : Append(Modules, h) \in Seq(Handle)
           /\ \A f \in File : Append(files, f) \in Seq(File)
           /\ Modules # <<>> => /\ Front(Modules) \in Seq(Handle)
                                /\ Last(Modules) \in Handle
                                /\ Head(Modules) \in Handle
<1>1. Modules \in Seq(Handle) /\ files \in Seq(File)
  BY DEF TypeOK
<1> QED
  BY <1>1, AppendProperties, FrontElements, HeadTailProperties

LEMMA NotifiedTypes ==
    ASSUME TypeOK, NEW t \in Thread, NEW h \in Handle, NEW reason, Notified(t, h, reason)
    PROVE  indexed' \in SUBSET Handle /\ told' \in [Thread -> SUBSET Handle]
<1>1. indexed' \in SUBSET Handle
  BY DEF Notified, TypeOK
<1>2. told' = [told EXCEPT ![t] = IF reason \in AttachReason THEN @ \cup {h} ELSE @ \ {h}]
  BY DEF Notified
<1>3. told \in [Thread -> SUBSET Handle]
  BY DEF TypeOK
<1>4. told[t] \cup {h} \in SUBSET Handle /\ told[t] \ {h} \in SUBSET Handle
  BY <1>3
<1>5. told' \in [Thread -> SUBSET Handle]
  BY <1>2, <1>3, <1>4
<1> QED
  BY <1>1, <1>5

LEMMA BeginNotifyTypes ==
    ASSUME TypeOK, NEW t \in Thread, NEW where \in Location, BeginNotify(t, where)
    PROVE  pc' \in [Thread -> Location] /\ noted' \in [Thread -> Handle \cup {NoHandle}]
BY ListTypes DEF BeginNotify, TypeOK

LEMMA ProcessOverTypes ==
    ASSUME ProcessOver
    PROVE  pc' \in [Thread -> Location] /\ stack' \in [Thread -> Seq(Frame)]
<1>1. <<>> \in Seq(Frame)
  BY EmptySeq
<1> QED
  BY <1>1 DEF ProcessOver, Location

LEMMA TypeInit == Init => TypeOK
<1>1. <<>> \in Seq(Handle) /\ <<>> \in Seq(File) /\ <<>> \in Seq(Frame)
  BY EmptySeq
<1> QED
  BY <1>1 DEF Init, TypeOK, Unowned, CriticalSectionType, Location, Fate

\* Loading a module.
LEMMA TypeLoads ==
    ASSUME TypeOK, FramesSound, NEW t \in Thread, Loads(t) \/ \E f \in File : LoadLibrary(t, f)
    PROVE  TypeOK'
<1>0. /\ TypeOK
      /\ stack[t] # <<>> => /\ Top(t) \in Frame
                            /\ Top(t).at = "open" => Top(t).file \in File
                            /\ Top(t).at \in {"map", "import", "entry", "free"} =>
                                  Top(t).mod \in Handle
  BY TopFrame, FrameFields
<1>1. ASSUME NEW f \in File, LoadLibrary(t, f) PROVE TypeOK'
  <2>1. Push(t, [at |-> "open", file |-> f]) /\ [at |-> "open", file |-> f] \in Frame
    BY <1>1, FrameMade DEF LoadLibrary
  <2> QED
    BY <1>1, <2>1, PushStep DEF LoadLibrary, TypeOK
<1>2. ASSUME Open(t) PROVE TypeOK'
  <2>1. stack[t] # <<>> /\ Top(t).at = "open"
    BY <1>2 DEF Open, At
  <2>2. Top(t).file \in File
    BY <1>0, <2>1
  <2>3. PICK h \in Handle : /\ files' = Append(files, Resolved[Top(t).file])
                            /\ Modules' = Append(Modules, h)
                            /\ Become(t, [at |-> "map", mod |-> h])
                            /\ Reuses(h)
    BY <1>2 DEF Open
  <2>4. stack' \in [Thread -> Seq(Frame)]
    BY <2>1, <2>3, FrameMade, BecomeStep
  <2>5. CSPeLdr' = CSPeLdr
    BY <2>3 DEF Become
  <2>6. files' \in Seq(File) /\ Modules' \in Seq(Handle)
    BY <2>2, <2>3, ListTypes, LoaderAssumption
  <2>7. noted' \in [Thread -> Handle \cup {NoHandle}]
    BY <2>3 DEF Reuses, TypeOK
  <2> QED
    BY <1>2, <2>4, <2>5, <2>6, <2>7 DEF Open, TypeOK
<1>3. ASSUME OpenFails(t) PROVE TypeOK'
  <2>1. stack[t] # <<>> /\ Become(t, [at |-> "fail", mod |-> NoHandle])
    BY <1>3 DEF OpenFails, At
  <2>2. stack' \in [Thread -> Seq(Frame)] /\ CSPeLdr' = CSPeLdr
    BY <2>1, FrameMade, BecomeStep DEF Become
  <2> QED
    BY <1>3, <2>2 DEF OpenFails, TypeOK
<1>4. ASSUME Map(t) PROVE TypeOK'
  <2>1. /\ stack[t] # <<>> /\ Top(t).at = "map"
        /\ Become(t, [at |-> "import", mod |-> Top(t).mod, next |-> 1])
    BY <1>4 DEF Map, At
  <2>2. Top(t).mod \in Handle
    BY <1>0, <2>1
  <2>3. stack' \in [Thread -> Seq(Frame)] /\ CSPeLdr' = CSPeLdr
    BY <2>1, <2>2, FrameMade, BecomeStep DEF Become
  <2> QED
    BY <1>4, <2>2, <2>3 DEF Map, TypeOK
<1>5. ASSUME MapFails(t) PROVE TypeOK'
  <2>1. /\ stack[t] # <<>> /\ Top(t).at = "map"
        /\ Become(t, [at |-> "fail", mod |-> Top(t).mod])
    BY <1>5 DEF MapFails, At
  <2>2. Top(t).mod \in Handle
    BY <1>0, <2>1
  <2>3. stack' \in [Thread -> Seq(Frame)] /\ CSPeLdr' = CSPeLdr
    BY <2>1, <2>2, FrameMade, BecomeStep DEF Become
  <2> QED
    BY <1>5, <2>2, <2>3 DEF MapFails, TypeOK
<1>6. ASSUME ImportFound(t) PROVE TypeOK'
  <2>1. stack' = [stack EXCEPT ![t] = Resumed(@, TRUE)] /\ stack \in [Thread -> Seq(Frame)]
    BY <1>6 DEF ImportFound, TypeOK
  <2>2. Resumed(stack[t], TRUE) \in Seq(Frame)
    BY <2>1, ResumedStack
  <2>3. stack' \in [Thread -> Seq(Frame)]
    BY <2>1, <2>2
  <2> QED
    BY <1>6, <2>3 DEF ImportFound, TypeOK
<1>7. ASSUME ImportLoads(t) PROVE TypeOK'
  <2>1. Wanted(t) \in File /\ Push(t, [at |-> "open", file |-> Wanted(t)])
    BY <1>7, WantedFile DEF ImportLoads
  <2>2. stack' \in [Thread -> Seq(Frame)] /\ CSPeLdr' \in CriticalSectionType
    BY <2>1, FrameMade, PushStep
  <2> QED
    BY <1>7, <2>2 DEF ImportLoads, TypeOK
<1>8. ASSUME FailLoad(t) PROVE TypeOK'
  <2>1. stack[t] # <<>> /\ Return(t, FALSE)
    BY <1>8 DEF FailLoad, At
  <2>2. stack' \in [Thread -> Seq(Frame)] /\ CSPeLdr' \in CriticalSectionType
    BY <2>1, ReturnStep
  <2>3. pc' \in [Thread -> Location]
    BY <1>8 DEF FailLoad, TypeOK, Location
  <2> QED
    BY <1>8, <2>2, <2>3 DEF FailLoad, TypeOK, Fate
<1>10. ASSUME Attach(t) PROVE TypeOK'
  <2>1. /\ stack[t] # <<>> /\ Top(t).at = "import"
        /\ Notified(t, Top(t).mod, "process_attach")
        /\ Become(t, EntryFrame(Top(t).mod, "process_attach"))
    BY <1>10 DEF Attach, At
  <2>2. Top(t).mod \in Handle
    BY <1>0, <2>1
  <2>3. stack' \in [Thread -> Seq(Frame)] /\ CSPeLdr' = CSPeLdr
    BY <2>1, <2>2, FrameMade, BecomeStep DEF Become, AttachReason
  <2>4. indexed' \in SUBSET Handle /\ told' \in [Thread -> SUBSET Handle]
    BY <2>1, <2>2, NotifiedTypes
  <2> QED
    BY <1>10, <2>2, <2>3, <2>4 DEF Attach, TypeOK, Fate
<1> QED
  BY <1>1, <1>2, <1>3, <1>4, <1>5, <1>6, <1>7, <1>8, <1>10 DEF Loads

\* Starting, ending and notifying a thread.
LEMMA TypeNotifies ==
    ASSUME TypeOK, FramesSound, NEW t \in Thread,
           TakesLock(t) \/ Returns(t) \/ StartThread(t) \/ EndThread(t)
    PROVE  TypeOK'
<1>0. /\ TypeOK
      /\ stack[t] # <<>> => /\ Top(t) \in Frame
                            /\ Top(t).at = "entry" => Top(t).mod \in Handle
  BY TopFrame, FrameFields
<1>1. ASSUME NotifyDone(t) PROVE pc' \in [Thread -> Location]
  BY <1>1 DEF NotifyDone, TypeOK, Location
<1>2. ASSUME NotifyThread(t) PROVE TypeOK'
  <2>1. /\ noted[t] \in Handle
        /\ Reason(t) \in AttachReason \cup DetachReason
        /\ Push(t, EntryFrame(noted[t], Reason(t)))
        /\ Notified(t, noted[t], Reason(t))
    BY <1>2 DEF NotifyThread, TypeOK, Reason, AttachReason, DetachReason
  <2>2. stack' \in [Thread -> Seq(Frame)] /\ CSPeLdr' \in CriticalSectionType
    BY <2>1, FrameMade, PushStep
  <2>3. indexed' \in SUBSET Handle /\ told' \in [Thread -> SUBSET Handle]
    BY <2>1, NotifiedTypes
  <2> QED
    BY <1>2, <2>2, <2>3 DEF NotifyThread, TypeOK
<1>3. ASSUME NotifySkips(t) PROVE TypeOK'
  BY <1>1, <1>3 DEF NotifySkips, TypeOK
<1>4. ASSUME NotifyFreed(t) PROVE TypeOK'
  BY <1>1, <1>4, ProcessOverTypes DEF NotifyFreed, TypeOK
<1>5. ASSUME AttachReturns(t) PROVE TypeOK'
  <2>1. stack[t] # <<>> /\ Top(t).at = "entry" /\ Return(t, TRUE)
    BY <1>5 DEF AttachReturns, At
  <2>2. stack' \in [Thread -> Seq(Frame)] /\ CSPeLdr' \in CriticalSectionType
    BY <2>1, ReturnStep
  <2>3. Top(t).mod \in Handle
    BY <1>0, <2>1
  <2> QED
    BY <1>5, <2>2, <2>3 DEF AttachReturns, TypeOK, Fate, Location
<1>6. ASSUME ThreadEntryReturns(t) PROVE TypeOK'
  <2>1. stack[t] # <<>> /\ Return(t, TRUE)
    BY <1>6 DEF ThreadEntryReturns, At
  <2>2. stack' \in [Thread -> Seq(Frame)] /\ CSPeLdr' \in CriticalSectionType
    BY <2>1, ReturnStep
  <2> QED
    BY <1>1, <1>6, <2>2 DEF ThreadEntryReturns, TypeOK
<1>7. ASSUME t = Main, DetachReturns PROVE TypeOK'
  <2>1. /\ stack[t] # <<>> /\ Top(t).at = "entry"
        /\ Become(t, [at |-> "free", mod |-> Top(t).mod])
    BY <1>7 DEF DetachReturns, At
  <2>2. stack' \in [Thread -> Seq(Frame)] /\ CSPeLdr' = CSPeLdr
    BY <1>0, <2>1, FrameMade, BecomeStep DEF Become
  <2> QED
    BY <1>7, <2>2 DEF DetachReturns, TypeOK
<1>8. ASSUME StartThread(t) PROVE TypeOK'
  <2>1. pc' \in [Thread -> Location] /\ noted' \in [Thread -> Handle \cup {NoHandle}]
    BY <1>8, BeginNotifyTypes DEF StartThread, Location
  <2> QED
    BY <1>8, <2>1 DEF StartThread, TypeOK
<1>9. ASSUME EndThread(t) PROVE TypeOK'
  <2>1. pc' \in [Thread -> Location] /\ noted' \in [Thread -> Handle \cup {NoHandle}]
    BY <1>9, BeginNotifyTypes DEF EndThread, Location, Ending
  <2> QED
    BY <1>9, <2>1 DEF EndThread, TypeOK
<1> QED
  BY <1>2, <1>3, <1>4, <1>5, <1>6, <1>7, <1>8, <1>9 DEF TakesLock, Returns

\* Faults unwind to a catcher below the top, or past the bottom.
LEMMA CatcherIndex ==
    ASSUME TypeOK, NEW t \in Thread, stack[t] # <<>>
    PROVE  0 \in 0 .. Len(stack[t]) - 1 /\ Catchers(t) \subseteq 1 .. Len(stack[t]) - 1
           /\ Catchers(t) \subseteq 0 .. Len(stack[t]) - 1
BY StackLength DEF Catchers

LEMMA TypeFaults ==
    ASSUME TypeOK, NEW t \in Thread,
           \/ FaultCaught(t) \/ FaultEndsThread(t) \/ FaultEndsProgram(t)
           \/ FaultEndsProcess(t) \/ ExitProcess(t)
    PROVE  TypeOK'
<1>1. ASSUME FaultCaught(t) PROVE TypeOK'
  <2>1. stack[t] # <<>>
    BY <1>1 DEF FaultCaught, Faults, At
  <2>2. \E k \in 0 .. Len(stack[t]) - 1 : Unwind(t, k)
    BY <1>1, <2>1, CatcherIndex DEF FaultCaught
  <2>3. /\ stack' \in [Thread -> Seq(Frame)]
        /\ CSPeLdr' \in CriticalSectionType
        /\ fate' \in [Handle -> Fate]
    BY <2>2, UnwindStep
  <2> QED
    BY <1>1, <2>3 DEF FaultCaught, TypeOK, Location
<1>2. ASSUME FaultEndsThread(t) PROVE TypeOK'
  <2>1. stack[t] # <<>> /\ Unwind(t, 0) /\ BeginNotify(t, "filter")
    BY <1>2 DEF FaultEndsThread, Faults, At
  <2>2. /\ stack' \in [Thread -> Seq(Frame)]
        /\ CSPeLdr' \in CriticalSectionType
        /\ fate' \in [Handle -> Fate]
    BY <2>1, CatcherIndex, UnwindStep
  <2>3. pc' \in [Thread -> Location] /\ noted' \in [Thread -> Handle \cup {NoHandle}]
    BY <2>1, BeginNotifyTypes DEF Location, Ending
  <2> QED
    BY <1>2, <2>2, <2>3 DEF FaultEndsThread, TypeOK
<1>3. ASSUME FaultEndsProcess(t) PROVE TypeOK'
  BY <1>3, ProcessOverTypes DEF FaultEndsProcess, TypeOK
<1>4. ASSUME ExitProcess(t) PROVE TypeOK'
  BY <1>4, ProcessOverTypes DEF ExitProcess, TypeOK
<1>5. ASSUME FaultEndsProgram(t) PROVE TypeOK'
  <2>1. stack[t] # <<>> /\ Unwind(t, 0)
    BY <1>5 DEF FaultEndsProgram, Faults, At
  <2>2. /\ stack' \in [Thread -> Seq(Frame)]
        /\ CSPeLdr' \in CriticalSectionType
        /\ fate' \in [Handle -> Fate]
    BY <2>1, CatcherIndex, UnwindStep
  <2> QED
    BY <1>5, <2>2 DEF FaultEndsProgram, TypeOK, Location
<1> QED
  BY <1>1, <1>2, <1>3, <1>4, <1>5

\* Closing the modules.
LEMMA TypeCloses ==
    ASSUME TypeOK, Closes \/ CloseAllModules \/ ProgramReturns
    PROVE  TypeOK'
<1>1. Main \in Thread
  BY LoaderAssumption
<1>2. ASSUME CloseAllModules PROVE TypeOK'
  BY <1>1, <1>2, LockTypes DEF CloseAllModules, TypeOK, Location
<1>3. ASSUME CloseModule PROVE TypeOK'
  <2>1. Modules' \in Seq(Handle) /\ Last(Modules) \in Handle
    BY <1>3, ListTypes DEF CloseModule
  <2>2. CASE /\ Push(Main, EntryFrame(Last(Modules), "process_detach"))
             /\ Notified(Main, Last(Modules), "process_detach")
             /\ fate' = [fate EXCEPT ![Last(Modules)] = "detached"]
    <3>1. stack' \in [Thread -> Seq(Frame)] /\ CSPeLdr' \in CriticalSectionType
      BY <1>1, <2>1, <2>2, FrameMade, PushStep DEF DetachReason
    <3>2. indexed' \in SUBSET Handle /\ told' \in [Thread -> SUBSET Handle]
      BY <1>1, <2>1, <2>2, NotifiedTypes
    <3> QED
      BY <1>3, <2>1, <2>2, <3>1, <3>2 DEF CloseModule, TypeOK, Fate
  <2>3. CASE /\ Push(Main, [at |-> "free", mod |-> Last(Modules)])
             /\ UNCHANGED <<indexed, told, fate>>
    <3>1. stack' \in [Thread -> Seq(Frame)] /\ CSPeLdr' \in CriticalSectionType
      BY <1>1, <2>1, <2>3, FrameMade, PushStep
    <3> QED
      BY <1>3, <2>1, <2>3, <3>1 DEF CloseModule, TypeOK
  <2> QED
    BY <1>3, <2>2, <2>3 DEF CloseModule
<1>4. ASSUME FreeModule PROVE TypeOK'
  <2>1. stack[Main] # <<>> /\ Top(Main).at = "free" /\ Return(Main, TRUE)
    BY <1>4 DEF FreeModule, At
  <2>2. stack' \in [Thread -> Seq(Frame)] /\ CSPeLdr' \in CriticalSectionType
    BY <1>1, <2>1, ReturnStep
  <2>3. Top(Main).mod \in Handle
    BY <1>1, <2>1, StackLength, FrameFields
  <2> QED
    BY <1>4, <2>2, <2>3 DEF FreeModule, TypeOK
<1>5. ASSUME CloseDone PROVE TypeOK'
  BY <1>1, <1>5, LockTypes DEF CloseDone, TypeOK, Location
<1>6. ASSUME ProcessEnds PROVE TypeOK'
  BY <1>6, ProcessOverTypes DEF ProcessEnds, TypeOK
<1>7. ASSUME ProgramReturns PROVE TypeOK'
  BY <1>7 DEF ProgramReturns, TypeOK, Location
<1> QED
  BY <1>2, <1>3, <1>4, <1>5, <1>6, <1>7 DEF Closes

LEMMA TypeNext ==
    ASSUME TypeOK, FramesSound, [Next]_vars
    PROVE  TypeOK'
<1>1. ASSUME NEW t \in Thread, Calls(t) PROVE TypeOK'
  BY <1>1, TypeLoads, TypeNotifies, TypeFaults DEF Calls
<1>2. ASSUME UNCHANGED vars PROVE TypeOK'
  BY <1>2 DEF vars, TypeOK
<1> QED
  BY <1>1, <1>2, TypeLoads, TypeNotifies, TypeCloses DEF Next

-----------------------------------------------------------------------------
(* The lock                                                                *)

LEMMA HoldsCountNext ==
    ASSUME TypeOK', NEW t \in Thread
    PROVE  /\ pc'[t] = "close" => Holds(t)' = Len(stack'[t]) + 1
           /\ pc'[t] # "close" => Holds(t)' = Len(stack'[t])
           /\ Len(stack'[t]) \in Nat
           /\ Holds(t)' \in Nat
<1>1. Len(stack'[t]) \in Nat
  BY LenProperties DEF TypeOK
<1>2. pc'[t] = "close" => Holds(t)' = Len(stack'[t]) + 1
  BY DEF Holds
<1>3. pc'[t] # "close" => Holds(t)' = Len(stack'[t])
  <2>1. pc'[t] # "close" => Holds(t)' = Len(stack'[t]) + 0
    BY DEF Holds
  <2> QED
    BY <1>1, <2>1
<1> QED
  BY <1>1, <1>2, <1>3

\* A step that neither locks nor adds frames.
LEMMA LocksKept ==
    ASSUME TypeOK, TypeOK', LocksHeld, CSPeLdr' = CSPeLdr,
           \A u \in Thread : /\ Len(stack'[u]) = Len(stack[u])
                             /\ pc'[u] = "close" => pc[u] = "close"
    PROVE  LocksHeld'
<1> SUFFICES ASSUME NEW u \in Thread, Holds(u)' > 0
             PROVE  CSPeLdr'.owner = u /\ CSPeLdr'.count >= Holds(u)'
  BY DEF LocksHeld
<1>1. Holds(u)' \in Nat /\ CSPeLdr.count \in Nat
  BY HoldsCountNext DEF TypeOK, CriticalSectionType
<1>2. Holds(u) \in Nat /\ Holds(u) >= Holds(u)'
  <2>1. Len(stack[u]) \in Nat
    BY StackLength
  <2> QED
    BY <2>1, HoldsCount, HoldsCountNext
<1>3. CSPeLdr.owner = u /\ CSPeLdr.count >= Holds(u)
  BY <1>1, <1>2 DEF LocksHeld
<1> QED
  BY <1>1, <1>2, <1>3

\* A step inside the lock.
LEMMA LocksInside ==
    ASSUME TypeOK, TypeOK', LocksHeld, NEW t \in Thread, CanEnter(CSPeLdr, t),
           \A u \in Thread : u # t => /\ stack'[u] = stack[u]
                                      /\ pc'[u] = "close" => pc[u] = "close",
           Holds(t)' > 0 => CSPeLdr'.owner = t /\ CSPeLdr'.count >= Holds(t)'
    PROVE  LocksHeld'
<1>1. ASSUME NEW u \in Thread, u # t PROVE ~(Holds(u)' > 0)
  <2>1. stack[u] = <<>> /\ pc[u] # "close"
    BY <1>1, OneInside
  <2>2. stack'[u] = <<>> /\ pc'[u] # "close"
    BY <1>1, <2>1
  <2> QED
    BY <2>2, HoldsCountNext, EmptySeq
<1> QED
  BY <1>1 DEF LocksHeld

LEMMA LocksPush ==
    ASSUME TypeOK, TypeOK', LocksHeld, NEW t \in Thread, NEW frame \in Frame,
           Push(t, frame), pc' = pc
    PROVE  LocksHeld'
<1>1. /\ \A u \in Thread : u # t => stack'[u] = stack[u]
      /\ Len(stack'[t]) = Len(stack[t]) + 1
      /\ CSPeLdr'.owner = t /\ CSPeLdr'.count = CSPeLdr.count + 1
  BY PushStep
<1>2. Len(stack[t]) \in Nat /\ CSPeLdr.count \in Nat
  BY StackLength DEF TypeOK, CriticalSectionType
<1>3. Holds(t) \in Nat /\ Holds(t)' = Holds(t) + 1
  BY <1>1, <1>2, HoldsCount, HoldsCountNext
<1>4. CSPeLdr.count >= Holds(t)
  BY <1>2, <1>3 DEF LocksHeld
<1> QED
  BY <1>1, <1>2, <1>3, <1>4, LocksInside DEF Push

LEMMA LocksBecome ==
    ASSUME TypeOK, TypeOK', LocksHeld, NEW t \in Thread, NEW frame \in Frame,
           stack[t] # <<>>, Become(t, frame), pc' = pc
    PROVE  LocksHeld'
<1>1. \A u \in Thread : Len(stack'[u]) = Len(stack[u])
  BY BecomeStep
<1> QED
  BY <1>1, LocksKept DEF Become

LEMMA LocksReturn ==
    ASSUME TypeOK, TypeOK', LocksHeld, NEW t \in Thread, NEW ok,
           stack[t] # <<>>, Return(t, ok),
           \A u \in Thread : pc'[u] = "close" => pc[u] = "close"
    PROVE  LocksHeld'
<1>1. /\ \A u \in Thread : u # t => stack'[u] = stack[u]
      /\ Len(stack'[t]) = Len(stack[t]) - 1
      /\ CSPeLdr.count > 1 => CSPeLdr'.owner = CSPeLdr.owner
                              /\ CSPeLdr'.count = CSPeLdr.count - 1
  BY ReturnStep
<1>2. Len(stack[t]) \in Nat \ {0} /\ CSPeLdr.count \in Nat
  BY StackLength DEF TypeOK, CriticalSectionType
<1>3. Holds(t) \in Nat /\ Holds(t)' \in Nat /\ Holds(t)' <= Holds(t) - 1
  BY <1>1, <1>2, HoldsCount, HoldsCountNext
<1>4. CSPeLdr.owner = t /\ CSPeLdr.count >= Holds(t)
  BY <1>2, <1>3, HoldsCount DEF LocksHeld
<1>5. CanEnter(CSPeLdr, t)
  BY <1>4 DEF CanEnter
<1> QED
  BY <1>1, <1>2, <1>3, <1>4, <1>5, LocksInside

LEMMA LocksUnwind ==
    ASSUME TypeOK, TypeOK', LocksHeld, NEW t \in Thread, NEW k \in 0 .. Len(stack[t]) - 1,
           Unwind(t, k), k = 0 => pc'[t] # "close",
           \A u \in Thread : pc'[u] = "close" => pc[u] = "close"
    PROVE  LocksHeld'
<1>1. /\ \A u \in Thread : u # t => stack'[u] = stack[u]
      /\ Len(stack'[t]) = k
      /\ k > 0 /\ CSPeLdr.count > Len(stack[t]) - k =>
            /\ CSPeLdr'.owner = CSPeLdr.owner
            /\ CSPeLdr'.count >= CSPeLdr.count - (Len(stack[t]) - k)
      /\ CSPeLdr' \in CriticalSectionType
  BY UnwindStep
<1>2. /\ Len(stack[t]) \in Nat \ {0} /\ k \in Nat /\ k < Len(stack[t])
      /\ CSPeLdr.count \in Nat /\ CSPeLdr'.count \in Nat
  BY <1>1, StackLength DEF TypeOK, CriticalSectionType
<1>3. /\ Holds(t) \in Nat /\ Holds(t)' \in Nat
      /\ Holds(t)' <= Holds(t) - (Len(stack[t]) - k)
      /\ Holds(t) > 0
  BY <1>1, <1>2, HoldsCount, HoldsCountNext
<1>4. CSPeLdr.owner = t /\ CSPeLdr.count >= Holds(t)
  BY <1>2, <1>3 DEF LocksHeld
<1>5. CanEnter(CSPeLdr, t)
  BY <1>4 DEF CanEnter
<1>6. Holds(t)' > 0 => CSPeLdr'.owner = t /\ CSPeLdr'.count >= Holds(t)'
  <2> SUFFICES ASSUME Holds(t)' > 0
               PROVE  CSPeLdr'.owner = t /\ CSPeLdr'.count >= Holds(t)'
    OBVIOUS
  <2>1. CSPeLdr.count > Len(stack[t]) - k
    BY <1>2, <1>3, <1>4
  <2>2. k > 0
    <3>1. k = 0 => Holds(t)' = 0
      BY <1>1, HoldsCountNext
    <3> QED
      BY <1>2, <3>1
  <2> QED
    BY <1>1, <1>2, <1>3, <1>4, <2>1, <2>2
<1> QED
  BY <1>1, <1>5, <1>6, LocksInside

LEMMA LocksOver ==
    ASSUME TypeOK', ProcessOver
    PROVE  LocksHeld'
<1>1. ASSUME NEW u \in Thread PROVE ~(Holds(u)' > 0)
  <2>1. stack'[u] = <<>> /\ pc'[u] # "close"
    BY DEF ProcessOver
  <2> QED
    BY <2>1, HoldsCountNext, EmptySeq
<1> QED
  BY <1>1 DEF LocksHeld

LEMMA LocksNext ==
    ASSUME TypeOK, FramesSound, LocksHeld, TypeOK', [Next]_vars
    PROVE  LocksHeld'
<1>0. Main \in Thread
  BY LoaderAssumption
<1>1. ASSUME NEW t \in Thread, NEW f \in File, LoadLibrary(t, f) PROVE LocksHeld'
  BY <1>1, FrameMade, LocksPush DEF LoadLibrary
<1>2. ASSUME NEW t \in Thread, Open(t) PROVE LocksHeld'
  BY <1>2, FrameMade, LocksBecome DEF Open, At
<1>3. ASSUME NEW t \in Thread, OpenFails(t) PROVE LocksHeld'
  BY <1>3, FrameMade, LocksBecome DEF OpenFails, At
<1>4. ASSUME NEW t \in Thread, stack[t] # <<>>, Top(t).at \in {"map", "import", "entry"}
      PROVE  Top(t).mod \in Handle
  BY <1>4, TopFrame, FrameFields
<1>5. ASSUME NEW t \in Thread, Map(t) PROVE LocksHeld'
  BY <1>4, <1>5, FrameMade, LocksBecome DEF Map, At
<1>6. ASSUME NEW t \in Thread, MapFails(t) PROVE LocksHeld'
  BY <1>4, <1>6, FrameMade, LocksBecome DEF MapFails, At
<1>7. ASSUME NEW t \in Thread, ImportFound(t) PROVE LocksHeld'
  <2>1. stack' = [stack EXCEPT ![t] = Resumed(@, TRUE)] /\ stack \in [Thread -> Seq(Frame)]
    BY <1>7 DEF ImportFound, TypeOK
  <2>2. Len(Resumed(stack[t], TRUE)) = Len(stack[t])
    BY <2>1, ResumedStack
  <2>3. \A u \in Thread : Len(stack'[u]) = Len(stack[u])
    BY <2>1, <2>2
  <2> QED
    BY <1>7, <2>3, LocksKept DEF ImportFound
<1>8. ASSUME NEW t \in Thread, ImportLoads(t) PROVE LocksHeld'
  BY <1>8, WantedFile, FrameMade, LocksPush DEF ImportLoads
<1>9. ASSUME NEW t \in Thread, FailLoad(t) PROVE LocksHeld'
  <2>1. \A u \in Thread : pc'[u] = "close" => pc[u] = "close"
    BY <1>9 DEF FailLoad, TypeOK
  <2> QED
    BY <1>9, <2>1, LocksReturn DEF FailLoad, At
<1>10. ASSUME NEW t \in Thread, Attach(t) PROVE LocksHeld'
  <2>1. /\ stack[t] # <<>>
        /\ Become(t, EntryFrame(Top(t).mod, "process_attach"))
        /\ pc' = pc
    BY <1>10 DEF Attach, At
  <2>2. EntryFrame(Top(t).mod, "process_attach") \in Frame
    BY <1>4, <1>10, FrameMade DEF Attach, At, AttachReason
  <2> QED
    BY <2>1, <2>2, LocksBecome
<1>11. ASSUME NEW t \in Thread, NotifyThread(t) PROVE LocksHeld'
  <2>1. EntryFrame(noted[t], Reason(t)) \in Frame
    BY <1>11, FrameMade DEF NotifyThread, TypeOK, Reason, AttachReason, DetachReason
  <2> QED
    BY <1>11, <2>1, LocksPush DEF NotifyThread
<1>12. ASSUME NEW t \in Thread, NotifyDone(t), UNCHANGED <<CSPeLdr, stack>> PROVE LocksHeld'
  BY <1>12, LocksKept DEF NotifyDone, TypeOK
<1>13. ASSUME NEW t \in Thread, NotifySkips(t) \/ NotifyFreed(t) PROVE LocksHeld'
  BY <1>12, <1>13, LocksOver DEF NotifySkips, NotifyFreed
<1>14. ASSUME NEW t \in Thread, AttachReturns(t) PROVE LocksHeld'
  <2>1. \A u \in Thread : pc'[u] = "close" => pc[u] = "close"
    BY <1>14 DEF AttachReturns, TypeOK
  <2> QED
    BY <1>14, <2>1, LocksReturn DEF AttachReturns, At
<1>15. ASSUME NEW t \in Thread, ThreadEntryReturns(t) PROVE LocksHeld'
  <2>1. \A u \in Thread : pc'[u] = "close" => pc[u] = "close"
    BY <1>15 DEF ThreadEntryReturns, NotifyDone, TypeOK
  <2> QED
    BY <1>15, <2>1, LocksReturn DEF ThreadEntryReturns, At
<1>16. ASSUME DetachReturns PROVE LocksHeld'
  BY <1>0, <1>4, <1>16, FrameMade, LocksBecome DEF DetachReturns, At
<1>17. ASSUME NEW t \in Thread, StartThread(t) \/ EndThread(t) PROVE LocksHeld'
  <2>1. \A u \in Thread : pc'[u] = "close" => pc[u] = "close"
    BY <1>17 DEF StartThread, EndThread, BeginNotify, TypeOK
  <2> QED
    BY <1>17, <2>1, LocksKept DEF StartThread, EndThread
<1>18. ASSUME NEW t \in Thread, FaultCaught(t) PROVE LocksHeld'
  <2>1. stack[t] # <<>>
    BY <1>18 DEF FaultCaught, Faults, At
  <2>2. \E k \in 0 .. Len(stack[t]) - 1 : Unwind(t, k) /\ (k = 0 => pc'[t] # "close")
    <3>1. ASSUME NEW k \in Catchers(t), Unwind(t, k)
          PROVE  \E j \in 0 .. Len(stack[t]) - 1 : Unwind(t, j) /\ (j = 0 => pc'[t] # "close")
      BY <2>1, <3>1, CatcherIndex
    <3>2. ASSUME Unwind(t, 0), pc' = [pc EXCEPT ![t] = "run"]
          PROVE  \E j \in 0 .. Len(stack[t]) - 1 : Unwind(t, j) /\ (j = 0 => pc'[t] # "close")
      BY <2>1, <3>2, CatcherIndex DEF TypeOK
    <3> QED
      BY <1>18, <3>1, <3>2 DEF FaultCaught
  <2>3. \A u \in Thread : pc'[u] = "close" => pc[u] = "close"
    BY <1>18 DEF FaultCaught, TypeOK
  <2> QED
    BY <2>2, <2>3, LocksUnwind
<1>19. ASSUME NEW t \in Thread, FaultEndsThread(t) PROVE LocksHeld'
  <2>1. stack[t] # <<>> /\ Unwind(t, 0)
    BY <1>19 DEF FaultEndsThread, Faults, At
  <2>2. pc'[t] # "close" /\ \A u \in Thread : pc'[u] = "close" => pc[u] = "close"
    BY <1>19 DEF FaultEndsThread, BeginNotify, TypeOK
  <2> QED
    BY <2>1, <2>2, CatcherIndex, LocksUnwind
<1>20. ASSUME ProcessOver PROVE LocksHeld'
  BY <1>20, LocksOver
<1>21. ASSUME CloseAllModules PROVE LocksHeld'
  <2>1. /\ CSPeLdr'.owner = Main /\ CSPeLdr'.count = CSPeLdr.count + 1
        /\ CSPeLdr.count \in Nat
    BY <1>21 DEF CloseAllModules, Entered, TypeOK, CriticalSectionType
  <2>2. /\ stack' = stack /\ stack[Main] = <<>>
        /\ \A u \in Thread : u # Main => pc'[u] = pc[u]
        /\ CanEnter(CSPeLdr, Main)
    BY <1>21 DEF CloseAllModules, TypeOK
  <2>3. Holds(Main)' <= 1 /\ Holds(Main)' \in Nat
    BY <1>0, <2>2, HoldsCountNext, EmptySeq
  <2> QED
    BY <1>0, <2>1, <2>2, <2>3, LocksInside
<1>22. ASSUME CloseModule PROVE LocksHeld'
  <2>1. Last(Modules) \in Handle
    BY <1>22, ListTypes DEF CloseModule
  <2>2. \E frame \in Frame : Push(Main, frame)
    BY <1>22, <2>1, FrameMade DEF CloseModule, DetachReason
  <2> QED
    BY <1>0, <1>22, <2>2, LocksPush DEF CloseModule
<1>23. ASSUME FreeModule PROVE LocksHeld'
  BY <1>0, <1>23, LocksReturn DEF FreeModule, At
<1>24. ASSUME UNCHANGED vars PROVE LocksHeld'
  BY <1>24, LocksKept DEF vars
<1>25. ASSUME NEW t \in Thread, FaultEndsProgram(t) PROVE LocksHeld'
  <2>1. stack[t] # <<>> /\ Unwind(t, 0)
    BY <1>25 DEF FaultEndsProgram, Faults, At
  <2>2. pc'[t] # "close" /\ \A u \in Thread : pc'[u] = "close" => pc[u] = "close"
    BY <1>25 DEF FaultEndsProgram, TypeOK
  <2> QED
    BY <2>1, <2>2, CatcherIndex, LocksUnwind
<1>26. ASSUME CloseDone PROVE LocksHeld'
  <2>1. /\ stack' = stack /\ stack[Main] = <<>> /\ pc[Main] = "close"
        /\ pc'[Main] = "done" /\ \A u \in Thread : u # Main => pc'[u] = pc[u]
    BY <1>0, <1>26 DEF CloseDone, TypeOK
  <2>2. CanEnter(CSPeLdr, Main)
    BY <1>0, <2>1, InsideAlone
  <2>3. ~(Holds(Main)' > 0)
    BY <1>0, <2>1, HoldsCountNext, EmptySeq
  <2> QED
    BY <1>0, <2>1, <2>2, <2>3, LocksInside
<1>27. ASSUME ProgramReturns PROVE LocksHeld'
  <2>1. \A u \in Thread : pc'[u] = "close" => pc[u] = "close"
    BY <1>27 DEF ProgramReturns, TypeOK
  <2> QED
    BY <1>27, <2>1, LocksKept DEF ProgramReturns
<1> QED
  BY <1>1, <1>2, <1>3, <1>5, <1>6, <1>7, <1>8, <1>9, <1>10, <1>11, <1>13, <1>14, <1>15,
     <1>16, <1>17, <1>18, <1>19, <1>20, <1>21, <1>22, <1>23, <1>24, <1>25, <1>26, <1>27
  DEF Next, Loads, TakesLock, Returns, Calls, Closes, FaultEndsProcess, ExitProcess,
      ProcessEnds

-----------------------------------------------------------------------------
(* The frames                                                              *)

\* What a step must leave alone for the frames that stay to remain sound.
Kept ==
    /\ Opened \subseteq Opened'
    /\ \A h \in Opened : files'[h] = files[h]
    /\ freed' = freed
    /\ Listed' \cap Opened \subseteq Listed

\* Frame k of t waits for the frame above it.
Waits(t, k) ==
    \/ stack[t][k].at = "entry"
    \/ /\ stack[t][k].at = "import"
       /\ stack[t][k].next \in DOMAIN Imports[files[stack[t][k].mod]]

LEMMA KeptSound ==
    ASSUME TypeOK, NEW t \in Thread, NEW k \in 1 .. Len(stack[t]), FrameSound(t, k), Kept,
           stack'[t][k] = stack[t][k],
           k < Len(stack'[t]) => k < Len(stack[t]) \/ Waits(t, k),
           stack[t][k].at # "open", pc' = pc
    PROVE  FrameSound(t, k)'
<1> DEFINE f == stack[t][k]
<1>1. f.mod \in Opened \cup {NoHandle} /\ (~OfThread(f) => f.mod \notin freed)
  BY DEF FrameSound
<1>2. f.mod \in Opened' \cup {NoHandle} /\ (~OfThread(f) => f.mod \notin freed')
  BY <1>1 DEF Kept
<1>3. f.at = "import" => f.mod \in Opened
  BY <1>1, StackLength, FrameFields, Handles
<1>4. k < Len(stack'[t]) =>
         \/ f.at = "entry"
         \/ f.at = "import" /\ f.next \in DOMAIN Imports[files'[f.mod]]
  BY <1>3 DEF FrameSound, Waits, Kept
<1>5. f.at \in {"free", "entry"} => f.mod \in Opened
  BY <1>1, StackLength, FrameFields, Handles
<1>6. f.at = "free" \/ (f.at = "entry" /\ f.reason = "process_detach") =>
         t = Main /\ k = 1 /\ pc'[Main] = "close" /\ f.mod \notin Listed'
  BY <1>5 DEF FrameSound, Kept
<1>7. OfThread(f) => k = 1 /\ pc'[t] \in Ending \cup {"attach"}
  BY DEF FrameSound
<1> QED
  BY <1>2, <1>4, <1>6, <1>7 DEF FrameSound, OfThread

LEMMA AfterSound ==
    ASSUME TypeOK, NEW t \in Thread, NEW k \in 1 .. Len(stack[t]), FrameSound(t, k), Kept,
           After(stack[t][k], stack'[t][k]), Len(stack'[t]) = k,
           stack[t][k].at # "open", pc' = pc
    PROVE  FrameSound(t, k)'
<1>1. CASE stack[t][k].at # "import"
  <2>1. stack'[t][k] = stack[t][k]
    BY <1>1 DEF After
  <2> QED
    BY <2>1, KeptSound
<1>2. CASE stack[t][k].at = "import"
  <2>1. /\ stack'[t][k].mod = stack[t][k].mod
        /\ stack'[t][k].at \in {"fail", "import"}
    BY <1>2 DEF After
  <2>2. stack'[t][k].mod \in Opened' \cup {NoHandle} /\ stack'[t][k].mod \notin freed'
    BY <1>2, <2>1 DEF FrameSound, OfThread, Kept
  <2>3. ~(k < Len(stack'[t]))
    BY StackLength
  <2> QED
    BY <2>1, <2>2, <2>3 DEF FrameSound, OfThread
<1> QED
  BY <1>1, <1>2

\* Frames below the top wait.
LEMMA BelowTop ==
    ASSUME TypeOK, FramesSound, NEW t \in Thread, NEW k \in 1 .. Len(stack[t])
    PROVE  /\ FrameSound(t, k)
           /\ k < Len(stack[t]) => stack[t][k].at \in {"entry", "import"}
           /\ stack[t][k] \in Frame
BY StackLength DEF FramesSound, FrameSound

\* Only t has frames after the step.
LEMMA AloneSound ==
    ASSUME TypeOK', NEW t \in Thread, \A u \in Thread : u # t => stack'[u] = <<>>,
           \A k \in 1 .. Len(stack'[t]) : FrameSound(t, k)'
    PROVE  FramesSound'
<1>1. DOMAIN stack'[t] = 1 .. Len(stack'[t])
  BY LenProperties DEF TypeOK
<1>2. DOMAIN <<>> = {}
  OBVIOUS
<1> QED
  BY <1>1, <1>2 DEF FramesSound

LEMMA FramesPush ==
    ASSUME TypeOK, TypeOK', LocksHeld, FramesSound, NEW t \in Thread, NEW frame \in Frame,
           Push(t, frame), Kept, pc' = pc,
           stack[t] # <<>> => Waits(t, Len(stack[t])),
           NEW n \in Nat, n = Len(stack[t]) + 1, FrameSound(t, n)'
    PROVE  FramesSound'
<1>1. /\ \A u \in Thread : u # t => stack'[u] = stack[u]
      /\ Len(stack'[t]) = Len(stack[t]) + 1
      /\ \A k \in 1 .. Len(stack[t]) : stack'[t][k] = stack[t][k]
  BY PushStep
<1>2. \A u \in Thread : u # t => stack'[u] = <<>>
  BY <1>1, OneInside DEF Push
<1>3. Len(stack[t]) \in Nat /\ (stack[t] = <<>> <=> Len(stack[t]) = 0)
  BY StackLength
<1>4. ASSUME NEW k \in 1 .. Len(stack'[t]) PROVE FrameSound(t, k)'
  <2>1. CASE k = n
    BY <2>1
  <2>2. CASE k \in 1 .. Len(stack[t])
    <3>1. FrameSound(t, k) /\ (k < Len(stack[t]) => stack[t][k].at \in {"entry", "import"})
      BY <2>2, BelowTop
    <3>2. k < Len(stack[t]) \/ Waits(t, k)
      BY <1>3, <2>2
    <3>3. stack[t][k].at # "open"
      BY <3>1, <3>2 DEF Waits
    <3> QED
      BY <1>1, <2>2, <3>1, <3>2, <3>3, KeptSound
  <2> QED
    BY <1>1, <1>3, <2>1, <2>2
<1> QED
  BY <1>2, <1>4, AloneSound

LEMMA FramesBecome ==
    ASSUME TypeOK, TypeOK', LocksHeld, FramesSound, NEW t \in Thread, NEW frame \in Frame,
           stack[t] # <<>>, Become(t, frame), Kept, pc' = pc,
           NEW n \in Nat, n = Len(stack[t]), FrameSound(t, n)'
    PROVE  FramesSound'
<1>1. /\ \A u \in Thread : u # t => stack'[u] = stack[u]
      /\ Len(stack'[t]) = Len(stack[t])
      /\ \A k \in 1 .. Len(stack[t]) - 1 : stack'[t][k] = stack[t][k]
  BY BecomeStep
<1>2. \A u \in Thread : u # t => stack'[u] = <<>>
  BY <1>1, InsideAlone
<1>3. Len(stack[t]) \in Nat \ {0}
  BY StackLength
<1>4. ASSUME NEW k \in 1 .. Len(stack'[t]) PROVE FrameSound(t, k)'
  <2>1. CASE k = n
    BY <2>1
  <2>2. CASE k \in 1 .. Len(stack[t]) - 1
    <3>1. k \in 1 .. Len(stack[t]) /\ k < Len(stack[t])
      BY <1>3, <2>2
    <3>2. FrameSound(t, k) /\ stack[t][k].at \in {"entry", "import"}
      BY <3>1, BelowTop
    <3> QED
      BY <1>1, <2>2, <3>1, <3>2, KeptSound
  <2> QED
    BY <1>1, <1>3, <2>1, <2>2
<1> QED
  BY <1>2, <1>4, AloneSound

\* k frames stay: a load returns, or a fault is caught.
LEMMA FramesShrink ==
    ASSUME TypeOK, TypeOK', LocksHeld, FramesSound, NEW t \in Thread,
           NEW n \in 0 .. Len(stack[t]) - 1, stack[t] # <<>>, Kept,
           Len(stack'[t]) = n,
           \A u \in Thread : u # t => stack'[u] = stack[u],
           \A k \in 1 .. n - 1 : stack'[t][k] = stack[t][k],
           n > 0 => After(stack[t][n], stack'[t][n]) /\ pc' = pc
    PROVE  FramesSound'
<1>1. \A u \in Thread : u # t => stack'[u] = <<>>
  BY InsideAlone
<1>2. Len(stack[t]) \in Nat \ {0} /\ n \in Nat
  BY StackLength
<1>3. ASSUME NEW k \in 1 .. n PROVE FrameSound(t, k)'
  <2>1. k \in 1 .. Len(stack[t]) /\ k < Len(stack[t]) /\ n > 0
    BY <1>2
  <2>2. FrameSound(t, k) /\ stack[t][k].at \in {"entry", "import"}
    BY <2>1, BelowTop
  <2>3. CASE k = n
    BY <2>1, <2>2, <2>3, AfterSound
  <2>4. CASE k < n
    <3>1. k \in 1 .. n - 1
      BY <1>2, <2>4
    <3> QED
      BY <2>1, <2>2, <3>1, KeptSound
  <2> QED
    BY <1>2, <2>3, <2>4
<1> QED
  BY <1>1, <1>3, AloneSound

-----------------------------------------------------------------------------
(* The process and the module list                                         *)

\* Nothing happens after the end of the process.
LEMMA NothingAfter ==
    ASSUME TypeOK, WholeProcess, pc[Main] = "over", [Next]_vars
    PROVE  UNCHANGED vars
<1>0. Main \in Thread
  BY LoaderAssumption
<1>1. \A t \in Thread : pc[t] = "over" /\ stack[t] = <<>>
  BY DEF WholeProcess
<1>2. \A t \in Thread : ~Emulated(t) /\ ~InNotify(t)
  BY <1>1 DEF Emulated, At, InNotify, Ending
<1>3. \A t \in Thread : \A where : ~At(t, where)
  BY <1>1 DEF At
<1>4. ASSUME NEW t \in Thread PROVE ~Loads(t) /\ ~TakesLock(t) /\ ~Returns(t)
  BY <1>0, <1>2, <1>3, <1>4
  DEF Loads, Open, OpenFails, Map, MapFails, ImportFound, ImportLoads, HasImport, FailLoad,
      Attach, TakesLock, NotifyThread, NotifySkips, NotifyFreed, Returns,
      AttachReturns, ThreadEntryReturns, DetachReturns
<1>5. ASSUME NEW t \in Thread PROVE ~Calls(t)
  BY <1>1, <1>2, <1>3, <1>5
  DEF Calls, LoadLibrary, StartThread, EndThread, ExitProcess, FaultCaught,
      FaultEndsThread, FaultEndsProgram, FaultEndsProcess, Faults
<1>6. ~Closes /\ ~CloseAllModules /\ ~ProgramReturns
  BY <1>0, <1>1, <1>3
  DEF Closes, CloseModule, FreeModule, CloseDone, ProcessEnds, CloseAllModules, ProgramReturns
<1> QED
  BY <1>4, <1>5, <1>6 DEF Next

\* Where the threads are after a step that does not end the process.
LEMMA Whereabouts ==
    ASSUME TypeOK, WholeProcess, [Next]_vars, ~ProcessOver
    PROVE  \/ pc' = pc
           \/ CloseAllModules
           \/ \E t \in Thread :
                 /\ \A u \in Thread : u # t => pc'[u] = pc[u]
                 /\ \/ pc'[t] \in {"run", "off", "attach"} \cup Ending
                    \/ pc'[t] = pc[t]
                    \/ t = Main /\ pc'[t] = "done"
<1>0. Main \in Thread
  BY LoaderAssumption
<1>1. \A t \in Thread : Loads(t) =>
         /\ \A u \in Thread : u # t => pc'[u] = pc[u]
         /\ pc'[t] = pc[t] \/ (t = Main /\ pc'[t] = "done")
  <2>1. \A t \in Thread : Loads(t) /\ ~FailLoad(t) => pc' = pc
    BY DEF Loads, Open, OpenFails, Map, MapFails, ImportFound, ImportLoads, Attach
  <2>2. \A t \in Thread : FailLoad(t) =>
           /\ \A u \in Thread : u # t => pc'[u] = pc[u]
           /\ pc'[t] = pc[t] \/ (t = Main /\ pc'[t] = "done")
    BY DEF FailLoad, IsProgram, TypeOK, WholeProcess
  <2> QED
    BY <2>1, <2>2
<1>2. \A t \in Thread : NotifyDone(t) => /\ \A u \in Thread : u # t => pc'[u] = pc[u]
                                         /\ pc'[t] \in {"run", "off"}
  BY DEF NotifyDone, TypeOK
<1>3. \A t \in Thread : TakesLock(t) \/ ThreadEntryReturns(t) => pc' = pc \/ NotifyDone(t)
  BY DEF TakesLock, NotifyThread, NotifySkips, NotifyFreed, ThreadEntryReturns
<1>4. \A t \in Thread : AttachReturns(t) =>
         /\ \A u \in Thread : u # t => pc'[u] = pc[u]
         /\ pc'[t] \in {"run", pc[t]}
  BY DEF AttachReturns, TypeOK
<1>5. \A t \in Thread : StartThread(t) \/ EndThread(t) \/ FaultEndsThread(t) =>
         /\ \A u \in Thread : u # t => pc'[u] = pc[u]
         /\ pc'[t] \in {"attach"} \cup Ending
  BY DEF StartThread, EndThread, FaultEndsThread, BeginNotify, TypeOK, Ending
<1>6. \A t \in Thread : FaultCaught(t) =>
         \/ pc' = pc
         \/ (\A u \in Thread : u # t => pc'[u] = pc[u]) /\ pc'[t] = "run"
  BY DEF FaultCaught, TypeOK
<1>7. \A t \in Thread, f \in File : LoadLibrary(t, f) => pc' = pc
  BY DEF LoadLibrary
<1>8. \A t \in Thread : ~FaultEndsProcess(t) /\ ~ExitProcess(t)
  BY DEF FaultEndsProcess, ExitProcess
<1>9. (DetachReturns => pc' = pc) /\ (UNCHANGED vars => pc' = pc)
  BY DEF DetachReturns, vars
<1>12. Closes \/ ProgramReturns =>
          \/ pc' = pc
          \/ (\A u \in Thread : u # Main => pc'[u] = pc[u]) /\ pc'[Main] = "done"
  BY <1>0 DEF Closes, CloseModule, FreeModule, CloseDone, ProcessEnds, ProgramReturns, TypeOK
<1>13. \A t \in Thread : FaultEndsProgram(t) =>
          /\ \A u \in Thread : u # t => pc'[u] = pc[u]
          /\ t = Main /\ pc'[t] = "done"
  BY DEF FaultEndsProgram, TypeOK, WholeProcess
<1>10. ASSUME NEW t \in Thread, Calls(t)
       PROVE  \/ pc' = pc
              \/ \E u \in Thread :
                    /\ \A v \in Thread : v # u => pc'[v] = pc[v]
                    /\ \/ pc'[u] \in {"run", "off", "attach"} \cup Ending
                       \/ u = Main /\ pc'[u] = "done"
  BY <1>5, <1>6, <1>7, <1>8, <1>10, <1>13 DEF Calls
<1>11. ASSUME NEW t \in Thread, TakesLock(t) \/ Returns(t)
       PROVE  \/ pc' = pc
              \/ \E u \in Thread :
                    /\ \A v \in Thread : v # u => pc'[v] = pc[v]
                    /\ pc'[u] \in {"run", "off", pc[u]}
  BY <1>2, <1>3, <1>4, <1>9, <1>11 DEF Returns
<1> QED
  BY <1>0, <1>1, <1>9, <1>10, <1>11, <1>12 DEF Next

LEMMA ProcessNext ==
    ASSUME TypeOK, WholeProcess, [Next]_vars
    PROVE  WholeProcess'
<1>0. Main \in Thread
  BY LoaderAssumption
<1>1. CASE ProcessOver
  BY <1>1 DEF ProcessOver, WholeProcess
<1>2. CASE pc[Main] = "over"
  BY <1>2, NothingAfter DEF WholeProcess, vars
<1>3. CASE ~ProcessOver /\ pc[Main] # "over"
  <2>1. CASE CloseAllModules
    BY <1>0, <2>1 DEF CloseAllModules, WholeProcess, TypeOK
  <2>2. ASSUME NEW t \in Thread,
               \A u \in Thread : u # t => pc'[u] = pc[u],
               \/ pc'[t] \in {"run", "off", "attach"} \cup Ending
               \/ pc'[t] = pc[t]
               \/ t = Main /\ pc'[t] = "done"
        PROVE  WholeProcess'
    BY <1>0, <1>3, <2>2 DEF WholeProcess, Ending
  <2>3. CASE pc' = pc
    BY <1>3, <2>3 DEF WholeProcess
  <2> QED
    BY <1>3, <2>1, <2>2, <2>3, Whereabouts
<1> QED
  BY <1>1, <1>2, <1>3

\* A new handle: the next number, with the file found.
LEMMA OpenStep ==
    ASSUME TypeOK, FramesSound, NEW t \in Thread, Open(t)
    PROVE  \E h \in Handle :
              /\ h = Len(files) + 1
              /\ h \notin Opened
              /\ Opened' = Opened \cup {h}
              /\ Top(t).file \in File
              /\ files'[h] = Resolved[Top(t).file]
              /\ \A g \in Opened : files'[g] = files[g]
              /\ Modules' = Append(Modules, h)
              /\ Listed' = Listed \cup {h}
              /\ Become(t, [at |-> "map", mod |-> h])
              /\ Reuses(h)
              /\ \A g \in Listed : files[g] # Top(t).file
<1>1. stack[t] # <<>> /\ Top(t).at = "open"
  BY DEF Open, At
<1>2. Top(t).file \in File /\ ~Found(Top(t).file)
  BY <1>1, TopFrame, FrameFields DEF FrameSound
<1>3. PICK h \in Handle : /\ h = Len(files) + 1
                          /\ files' = Append(files, Resolved[Top(t).file])
                          /\ Modules' = Append(Modules, h)
                          /\ Become(t, [at |-> "map", mod |-> h])
                          /\ Reuses(h)
  BY DEF Open
<1>4. files \in Seq(File) /\ Modules \in Seq(Handle)
  BY DEF TypeOK
<1>5. /\ files' \in Seq(File)
      /\ Len(files') = h
      /\ files'[h] = Resolved[Top(t).file]
      /\ \A g \in 1 .. Len(files) : files'[g] = files[g]
  <2>1. Resolved[Top(t).file] \in File
    BY <1>2, LoaderAssumption
  <2> QED
    BY <1>3, <1>4, <2>1, AppendProperties
<1>6. Opened' = 1 .. h /\ Opened = 1 .. Len(files) /\ Len(files) \in Nat
  BY <1>5, LenProperties, Handles DEF Opened
<1>7. h \notin Opened /\ Opened' = Opened \cup {h}
  BY <1>3, <1>6
<1>8. ToSet(Append(Modules, h)) = {h} \cup ToSet(Modules)
  BY <1>4, AppendElements
<1>9. Listed' = Listed \cup {h}
  BY <1>3, <1>8 DEF Listed
<1>10. \A g \in Listed : files[g] # Top(t).file
  BY <1>2 DEF Found
<1> QED
  BY <1>2, <1>3, <1>5, <1>6, <1>7, <1>9, <1>10

\* The list loses its last handle for good.
LEMMA CloseStep ==
    ASSUME TypeOK, ListSound, CloseModule
    PROVE  /\ Last(Modules) \in Listed
           /\ Listed = Listed' \cup {Last(Modules)}
           /\ Last(Modules) \notin Listed'
<1>1. Modules \in Seq(Handle) /\ Modules # <<>> /\ Modules' = Front(Modules)
  BY DEF TypeOK, CloseModule
<1>2. Once(Modules, Last(Modules))
  BY DEF ListSound, Once
<1> QED
  BY <1>1, <1>2, FrontElements DEF Listed

\* Every other step keeps the list.
LEMMA ListKept ==
    ASSUME [Next]_vars, ~CloseModule, \A t \in Thread : ~Open(t)
    PROVE  Modules' = Modules /\ files' = files
<1>1. \A t \in Thread : Loads(t) => Modules' = Modules /\ files' = files
  BY DEF Loads, OpenFails, Map, MapFails, ImportFound, ImportLoads, FailLoad, Attach
<1>2. \A t \in Thread : TakesLock(t) \/ Returns(t) => Modules' = Modules /\ files' = files
  BY DEF TakesLock, NotifyThread, NotifySkips, NotifyFreed, Returns, AttachReturns,
         ThreadEntryReturns, DetachReturns
<1>3. \A t \in Thread : Calls(t) => Modules' = Modules /\ files' = files
  BY DEF Calls, LoadLibrary, StartThread, EndThread, ExitProcess, FaultCaught,
         FaultEndsThread, FaultEndsProgram, FaultEndsProcess
<1>4. Closes \/ CloseAllModules \/ ProgramReturns => Modules' = Modules /\ files' = files
  BY DEF Closes, FreeModule, CloseDone, ProcessEnds, CloseAllModules, ProgramReturns
<1> QED
  BY <1>1, <1>2, <1>3, <1>4 DEF Next, vars

\* No handle is listed twice.
LEMMA DistinctNext ==
    ASSUME TypeOK, FramesSound, ListSound, [Next]_vars
    PROVE  \A i, j \in DOMAIN Modules' : Modules'[i] = Modules'[j] => i = j
<1>1. Modules \in Seq(Handle) /\ Len(Modules) \in Nat /\ DOMAIN Modules = 1 .. Len(Modules)
      /\ \A i \in 1 .. Len(Modules) : Modules[i] \in Listed
  BY LenProperties DEF TypeOK, Listed, ToSet
<1>2. ASSUME NEW t \in Thread, Open(t), NEW i \in DOMAIN Modules', NEW j \in DOMAIN Modules',
             Modules'[i] = Modules'[j]
      PROVE  i = j
  <2>1. PICK h \in Handle : h \notin Opened /\ Modules' = Append(Modules, h)
    BY <1>2, OpenStep
  <2>2. /\ Modules' \in Seq(Handle)
        /\ Len(Modules') = Len(Modules) + 1
        /\ Modules'[Len(Modules) + 1] = h
        /\ \A k \in 1 .. Len(Modules) : Modules'[k] = Modules[k]
    BY <1>1, <2>1, AppendProperties
  <2>3. DOMAIN Modules' = 1 .. Len(Modules) + 1
    BY <2>2, LenProperties
  <2>4. \A k \in 1 .. Len(Modules) : Modules'[k] # h
    BY <1>1, <2>1, <2>2 DEF ListSound
  <2>5. CASE i \in 1 .. Len(Modules) /\ j \in 1 .. Len(Modules)
    BY <1>1, <1>2, <2>2, <2>5 DEF ListSound
  <2>6. CASE i = Len(Modules) + 1
    BY <1>1, <1>2, <2>2, <2>3, <2>4, <2>6
  <2>7. CASE j = Len(Modules) + 1
    BY <1>1, <1>2, <2>2, <2>3, <2>4, <2>7
  <2> QED
    BY <1>1, <1>2, <2>3, <2>5, <2>6, <2>7
<1>3. ASSUME CloseModule
      PROVE  \A i, j \in DOMAIN Modules' : Modules'[i] = Modules'[j] => i = j
  <2>1. /\ DOMAIN Modules' = 1 .. Len(Modules) - 1
        /\ \A i \in 1 .. Len(Modules) - 1 : Modules'[i] = Modules[i]
    BY <1>1, <1>3, FrontIndex DEF CloseModule
  <2>2. \A i \in 1 .. Len(Modules) - 1 : i \in DOMAIN Modules
    BY <1>1
  <2> QED
    BY <2>1, <2>2 DEF ListSound
<1>4. CASE ~CloseModule /\ \A t \in Thread : ~Open(t)
  BY <1>4, ListKept DEF ListSound
<1> QED
  BY <1>2, <1>3, <1>4

LEMMA OneCopyNext ==
    ASSUME TypeOK, FramesSound, ListSound, OneCopy, [Next]_vars
    PROVE  OneCopy'
<1>1. Modules \in Seq(Handle) /\ Len(Modules) \in Nat /\ DOMAIN Modules = 1 .. Len(Modules)
      /\ \A i \in 1 .. Len(Modules) : Modules[i] \in Listed
  BY LenProperties DEF TypeOK, Listed, ToSet
<1>2. ASSUME NEW t \in Thread, Open(t) PROVE OneCopy'
  <2>1. PICK h \in Handle :
              /\ Top(t).file \in File
              /\ files'[h] = Resolved[Top(t).file]
              /\ \A g \in Opened : files'[g] = files[g]
              /\ Modules' = Append(Modules, h)
              /\ \A g \in Listed : files[g] # Top(t).file
    BY <1>2, OpenStep
  <2>2. /\ Modules' \in Seq(Handle)
        /\ Len(Modules') = Len(Modules) + 1
        /\ Modules'[Len(Modules) + 1] = h
        /\ \A i \in 1 .. Len(Modules) : Modules'[i] = Modules[i]
    BY <1>1, <2>1, AppendProperties
  <2>3. DOMAIN Modules' = 1 .. Len(Modules) + 1
    BY <2>2, LenProperties
  <2>a4. files'[h] \in Faithful => files'[h] = Top(t).file
    BY <2>1 DEF Faithful
  <2>4. \A i \in 1 .. Len(Modules) :
           /\ files'[Modules'[i]] = files[Modules[i]]
           /\ files'[h] \in Faithful => files'[Modules'[i]] # files'[h]
    BY <1>1, <2>1, <2>2, <2>a4 DEF ListSound
  <2>5. ASSUME NEW i \in DOMAIN Modules', NEW j \in DOMAIN Modules',
               files'[Modules'[i]] = files'[Modules'[j]], files'[Modules'[i]] \in Faithful
        PROVE  i = j
    <3>1. CASE i \in 1 .. Len(Modules) /\ j \in 1 .. Len(Modules)
      BY <1>1, <2>4, <2>5, <3>1 DEF OneCopy
    <3>2. CASE i = Len(Modules) + 1
      BY <1>1, <2>2, <2>3, <2>4, <2>5, <3>2
    <3>3. CASE j = Len(Modules) + 1
      BY <1>1, <2>2, <2>3, <2>4, <2>5, <3>3
    <3> QED
      BY <1>1, <2>3, <3>1, <3>2, <3>3
  <2> QED
    BY <2>5 DEF OneCopy
<1>3. ASSUME CloseModule PROVE OneCopy'
  <2>1. /\ DOMAIN Modules' = 1 .. Len(Modules) - 1
        /\ \A i \in 1 .. Len(Modules) - 1 : Modules'[i] = Modules[i]
        /\ files' = files
    BY <1>1, <1>3, FrontIndex DEF CloseModule
  <2> QED
    BY <1>1, <2>1 DEF OneCopy
<1>4. CASE ~CloseModule /\ \A t \in Thread : ~Open(t)
  BY <1>4, ListKept DEF OneCopy
<1> QED
  BY <1>2, <1>3, <1>4

\* Only FreeModule frees; a thread notes what it reads, or what takes the place of it.
LEMMA FreedKept ==
    ASSUME [Next]_vars
    PROVE  /\ freed' = freed \/ FreeModule
           /\ \/ noted' = noted
              \/ \E t \in Thread : Open(t)
              \/ \E t \in Thread, where \in Location : BeginNotify(t, where)
<1>1. \A t \in Thread : Loads(t) => freed' = freed /\ (noted' = noted \/ Open(t))
  BY DEF Loads, Open, OpenFails, Map, MapFails, ImportFound, ImportLoads, FailLoad, Attach
<1>2. \A t \in Thread : TakesLock(t) \/ Returns(t) => freed' = freed /\ noted' = noted
  BY DEF TakesLock, NotifyThread, NotifySkips, NotifyFreed, Returns, AttachReturns,
         ThreadEntryReturns, DetachReturns
<1>3. \A t \in Thread : Calls(t) =>
         /\ freed' = freed
         /\ noted' = noted \/ \E where \in Location : BeginNotify(t, where)
  BY DEF Calls, LoadLibrary, StartThread, EndThread, ExitProcess, FaultCaught,
         FaultEndsThread, FaultEndsProgram, FaultEndsProcess, Location, Ending
<1>4. Closes \/ CloseAllModules \/ ProgramReturns =>
         (freed' = freed \/ FreeModule) /\ noted' = noted
  BY DEF Closes, CloseModule, FreeModule, CloseDone, ProcessEnds, CloseAllModules,
         ProgramReturns
<1> QED
  BY <1>1, <1>2, <1>3, <1>4 DEF Next, vars

\* The handle FreeModule frees.
LEMMA FreeStep ==
    ASSUME TypeOK, FramesSound, FreeModule
    PROVE  /\ Top(Main).mod \in Opened \ freed
           /\ Top(Main).mod \notin Listed
           /\ freed' = freed \cup {Top(Main).mod}
           /\ Len(stack[Main]) = 1
           /\ stack[Main] # <<>>
           /\ Return(Main, TRUE)
<1>1. Main \in Thread /\ stack[Main] # <<>> /\ Top(Main).at = "free"
  BY LoaderAssumption DEF FreeModule, At
<1>2. /\ FrameSound(Main, Len(stack[Main]))
      /\ Top(Main) = stack[Main][Len(stack[Main])]
      /\ Top(Main).mod \in Opened \ freed
  BY <1>1, TopFrame DEF OfThread
<1>3. Len(stack[Main]) = 1 /\ Top(Main).mod \notin Listed
  BY <1>1, <1>2 DEF FrameSound
<1> QED
  BY <1>1, <1>2, <1>3 DEF FreeModule

LEMMA ListNext ==
    ASSUME TypeOK, FramesSound, ListSound, [Next]_vars
    PROVE  ListSound'
<1>1. /\ Opened \subseteq Opened'
      /\ Listed' \cap Opened \subseteq Listed
      /\ Listed' \subseteq Opened'
      /\ \A h \in freed : h \notin Listed'
  <2>1. ASSUME NEW t \in Thread, Open(t)
        PROVE  \E h : h \notin Opened /\ Opened' = Opened \cup {h} /\ Listed' = Listed \cup {h}
    BY <2>1, OpenStep
  <2>2. CASE \E t \in Thread : Open(t)
    BY <2>1, <2>2 DEF ListSound
  <2>3. CASE CloseModule
    <3>1. Listed' \subseteq Listed
      BY <2>3, CloseStep
    <3>2. Opened' = Opened
      BY <2>3 DEF CloseModule, Opened
    <3> QED
      BY <3>1, <3>2 DEF ListSound
  <2>4. CASE ~CloseModule /\ \A t \in Thread : ~Open(t)
    <3>1. Listed' = Listed /\ Opened' = Opened
      BY <2>4, ListKept DEF Listed, Opened
    <3> QED
      BY <3>1 DEF ListSound
  <2> QED
    BY <2>2, <2>3, <2>4
<1>2. freed' \subseteq Opened' /\ Listed' \cap freed' = {}
  <2>1. CASE freed' = freed
    BY <1>1, <2>1 DEF ListSound
  <2>2. CASE FreeModule
    <3>1. Listed' = Listed
      BY <2>2 DEF FreeModule, Listed
    <3> QED
      BY <1>1, <2>2, <3>1, FreeStep DEF ListSound
  <2> QED
    BY <2>1, <2>2, FreedKept
<1>3. \A u \in Thread : noted'[u] \in Opened' \cup {NoHandle}
  <2>1. CASE noted' = noted
    BY <1>1, <2>1 DEF ListSound
  <2>2. ASSUME NEW t \in Thread, NEW where, BeginNotify(t, where)
        PROVE  \A u \in Thread : noted'[u] \in Opened \cup {NoHandle}
    <3>1. Modules \in Seq(Handle) /\ noted \in [Thread -> Handle \cup {NoHandle}]
      BY DEF TypeOK
    <3>2. Modules # <<>> => Head(Modules) \in Listed
      BY <3>1, TailProperties DEF Listed
    <3> QED
      BY <2>2, <3>1, <3>2 DEF BeginNotify, ListSound
  <2>3. ASSUME NEW t \in Thread, Open(t)
        PROVE  \A u \in Thread : noted'[u] \in Opened' \cup {NoHandle}
    <3>1. PICK h \in Handle : h \in Opened' /\ Reuses(h)
      BY <2>3, OpenStep
    <3>2. \A u \in Thread : noted'[u] = noted[u] \/ noted'[u] = h
      BY <3>1 DEF Reuses
    <3> QED
      BY <1>1, <3>1, <3>2 DEF ListSound
  <2> QED
    BY <1>1, <2>1, <2>2, <2>3, FreedKept
<1> QED
  BY <1>1, <1>2, <1>3, DistinctNext DEF ListSound

-----------------------------------------------------------------------------
(* The frames after every step                                             *)

\* A step of t that keeps the list, the handles and pc.
LEMMA SameKept ==
    ASSUME UNCHANGED <<Modules, files, freed>>
    PROVE  Kept
BY DEF Kept, Opened, Listed

LEMMA OpenKept ==
    ASSUME TypeOK, FramesSound, NEW t \in Thread, Open(t)
    PROVE  Kept
<1>1. /\ \E h \in Handle : /\ Opened' = Opened \cup {h}
                           /\ h \notin Opened
                           /\ Listed' = Listed \cup {h}
      /\ \A g \in Opened : files'[g] = files[g]
  BY OpenStep
<1>2. freed' = freed
  BY DEF Open
<1> QED
  BY <1>1, <1>2 DEF Kept

LEMMA CloseKept ==
    ASSUME TypeOK, ListSound, CloseModule
    PROVE  Kept
<1>1. Listed' \subseteq Listed
  BY CloseStep
<1> QED
  BY <1>1 DEF Kept, CloseModule, Opened

LEMMA EntryFields ==
    ASSUME NEW h, NEW r
    PROVE  /\ EntryFrame(h, r).at = "entry"
           /\ EntryFrame(h, r).mod = h
           /\ EntryFrame(h, r).reason = r
BY DEF EntryFrame

\* A return of the frame on top.
LEMMA FramesReturn ==
    ASSUME TypeOK, TypeOK', LocksHeld, FramesSound, NEW t \in Thread, NEW ok,
           stack[t] # <<>>, Return(t, ok), Kept, Len(stack[t]) > 1 => pc' = pc
    PROVE  FramesSound'
<1>1. /\ \A u \in Thread : u # t => stack'[u] = stack[u]
      /\ Len(stack'[t]) = Len(stack[t]) - 1
      /\ \A k \in 1 .. Len(stack[t]) - 2 : stack'[t][k] = stack[t][k]
      /\ Len(stack[t]) > 1 => After(stack[t][Len(stack[t]) - 1], stack'[t][Len(stack[t]) - 1])
  BY ReturnStep
<1>2. Len(stack[t]) \in Nat \ {0}
  BY StackLength
<1>3. PICK n \in Nat : n = Len(stack[t]) - 1
  BY <1>2
<1>4. n \in 0 .. Len(stack[t]) - 1 /\ n - 1 = Len(stack[t]) - 2 /\ (n > 0 <=> Len(stack[t]) > 1)
  BY <1>2, <1>3
<1>5. n > 0 => After(stack[t][n], stack'[t][n])
  BY <1>1, <1>3, <1>4
<1>6. \A k \in 1 .. n - 1 : stack'[t][k] = stack[t][k]
  BY <1>1, <1>4
<1> QED
  BY <1>1, <1>3, <1>4, <1>5, <1>6, FramesShrink

LEMMA FramesUnwind ==
    ASSUME TypeOK, TypeOK', LocksHeld, FramesSound, NEW t \in Thread,
           NEW k \in 0 .. Len(stack[t]) - 1, stack[t] # <<>>, Unwind(t, k), Kept,
           k > 0 => pc' = pc
    PROVE  FramesSound'
BY UnwindStep, FramesShrink

LEMMA FramesOver ==
    ASSUME ProcessOver
    PROVE  FramesSound'
<1>1. \A u \in Thread : stack'[u] = <<>>
  BY DEF ProcessOver
<1>2. DOMAIN <<>> = {}
  OBVIOUS
<1> QED
  BY <1>1, <1>2 DEF FramesSound

\* Stacks, handles and lists stay, and pc changes where it is not looked at.
LEMMA FramesSame ==
    ASSUME TypeOK, FramesSound, UNCHANGED <<stack, Modules, files, freed>>,
           pc[Main] = "close" /\ stack[Main] # <<>> => pc'[Main] = "close",
           \A u \in Thread : stack[u] # <<>> /\ pc[u] \in Ending \cup {"attach"}
                             => pc'[u] = pc[u]
    PROVE  FramesSound'
<1> SUFFICES ASSUME NEW u \in Thread, NEW k \in DOMAIN stack[u]
             PROVE  FrameSound(u, k)'
  BY DEF FramesSound
<1>1. FrameSound(u, k) /\ stack[u] # <<>>
  BY StackLength DEF FramesSound
<1> QED
  BY <1>1 DEF FrameSound, OfThread, Found, Listed, Opened

\* Emulated code inside a frame: an entry point.
LEMMA EmulatedWaits ==
    ASSUME TypeOK, NEW t \in Thread, stack[t] # <<>>, Emulated(t)
    PROVE  Waits(t, Len(stack[t]))
BY StackLength DEF Emulated, At, Waits

LEMMA FramesLoads ==
    ASSUME TypeOK, TypeOK', LocksHeld, FramesSound, ListSound, NEW t \in Thread,
           Loads(t) \/ \E f \in File : LoadLibrary(t, f)
    PROVE  FramesSound'
<1>0. Len(stack[t]) \in Nat /\ Len(stack[t]) + 1 \in Nat
  BY StackLength
<1>1. stack[t] # <<>> =>
         /\ Top(t).at \in {"map", "import"} => Top(t).mod \in Opened \ freed
         /\ Top(t).at \in {"map", "import", "entry"} => Top(t).mod \in Handle
         /\ Top(t) = stack[t][Len(stack[t])]
  BY TopFrame, FrameFields DEF OfThread
<1>2. ASSUME NEW f \in File, Push(t, [at |-> "open", file |-> f]), ~Found(f),
             UNCHANGED <<Modules, files, freed, pc>>,
             stack[t] # <<>> => Waits(t, Len(stack[t]))
      PROVE  FramesSound'
  <2>0. PICK n \in Nat : n = Len(stack[t]) + 1
    BY <1>0
  <2>1. /\ [at |-> "open", file |-> f] \in Frame
        /\ Kept
    BY <1>2, FrameMade, SameKept
  <2>2. stack'[t][n] = [at |-> "open", file |-> f] /\ Len(stack'[t]) = n
    BY <1>2, <2>0, <2>1, PushStep
  <2>3. ~Found(f)'
    BY <1>2 DEF Found, Listed
  <2>4. FrameSound(t, n)'
    <3>1. /\ stack'[t][n].at = "open" /\ stack'[t][n].file = f
          /\ ~(n < Len(stack'[t]))
      BY <2>2
    <3> QED
      BY <2>3, <3>1 DEF FrameSound, OfThread
  <2> QED
    BY <1>2, <2>0, <2>1, <2>4, FramesPush
<1>3. ASSUME NEW f \in File, LoadLibrary(t, f) PROVE FramesSound'
  <2>1. stack[t] # <<>> => Waits(t, Len(stack[t]))
    BY <1>3, EmulatedWaits DEF LoadLibrary
  <2> QED
    BY <1>2, <1>3, <2>1 DEF LoadLibrary
<1>4. ASSUME ImportLoads(t) PROVE FramesSound'
  <2>1. Wanted(t) \in File /\ stack[t] # <<>>
    BY <1>4, WantedFile DEF ImportLoads, HasImport, At
  <2>2. Waits(t, Len(stack[t]))
    BY <1>1, <1>4, <2>1 DEF ImportLoads, HasImport, At, Waits
  <2> QED
    BY <1>2, <1>4, <2>1, <2>2 DEF ImportLoads
<1>5. ASSUME NEW h \in Opened' \ freed', NEW frame \in Frame, stack[t] # <<>>,
             Become(t, frame), Kept, pc' = pc,
             frame.at \in {"map", "import", "fail"}
                \/ (frame.at = "entry" /\ frame.reason = "process_attach"),
             frame.mod \in {h, NoHandle}
      PROVE  FramesSound'
  <2>0. PICK n \in Nat : n = Len(stack[t])
    BY <1>0
  <2>1. stack'[t][n] = frame /\ ~(n < Len(stack'[t]))
    <3>1. Len(stack'[t]) = Len(stack[t]) /\ stack'[t][Len(stack[t])] = frame
      BY <1>5, BecomeStep
    <3> QED
      BY <2>0, <3>1
  <2>2. FrameSound(t, n)'
    <3>0. NoHandle \notin freed'
      BY <1>5, Handles DEF ListSound, Kept
    <3>1. frame.mod \in Opened' \cup {NoHandle} /\ frame.mod \notin freed'
      BY <1>5, <3>0
    <3>2. /\ frame.at # "open" /\ frame.at # "free"
          /\ frame.at = "entry" =>
                frame.reason \notin {"process_detach", "thread_attach", "thread_detach"}
      BY <1>5
    <3> QED
      BY <2>1, <3>1, <3>2 DEF FrameSound, OfThread
  <2> QED
    BY <1>5, <2>0, <2>2, FramesBecome
<1>6. ASSUME Open(t) PROVE FramesSound'
  <2>1. PICK h \in Handle : /\ Opened' = Opened \cup {h} /\ h \notin Opened
                            /\ Become(t, [at |-> "map", mod |-> h])
    BY <1>6, OpenStep
  <2>2. h \in Handle /\ stack[t] # <<>> /\ freed' = freed /\ pc' = pc
    BY <1>6 DEF Open, At
  <2>3. h \in Opened' \ freed'
    BY <2>1, <2>2 DEF ListSound
  <2> QED
    BY <1>5, <1>6, <2>1, <2>2, <2>3, FrameMade, OpenKept
<1>8. ASSUME OpenFails(t) PROVE FramesSound'
  <2>1. Become(t, [at |-> "fail", mod |-> NoHandle]) /\ stack[t] # <<>>
    BY <1>8 DEF OpenFails, At
  <2>2. Kept /\ pc' = pc
    BY <1>8, SameKept DEF OpenFails
  <2>0. PICK n \in Nat : n = Len(stack[t])
    BY <1>0
  <2>3. stack'[t][n] = [at |-> "fail", mod |-> NoHandle] /\ ~(n < Len(stack'[t]))
    BY <2>0, <2>1, FrameMade, BecomeStep
  <2>4. FrameSound(t, n)'
    <3>1. NoHandle \notin freed'
      BY <2>2, Handles DEF ListSound, Kept
    <3> QED
      BY <2>3, <3>1 DEF FrameSound, OfThread
  <2> QED
    BY <2>0, <2>1, <2>2, <2>4, FrameMade, FramesBecome
<1>9. ASSUME Map(t) PROVE FramesSound'
  <2>1. /\ stack[t] # <<>> /\ Top(t).at = "map"
        /\ Become(t, [at |-> "import", mod |-> Top(t).mod, next |-> 1])
        /\ UNCHANGED <<Modules, files, freed, pc>>
    BY <1>9 DEF Map, At
  <2>2. Top(t).mod \in Opened' \ freed' /\ Top(t).mod \in Handle
    BY <1>1, <2>1 DEF Opened
  <2> QED
    BY <1>5, <2>1, <2>2, FrameMade, SameKept
<1>10. ASSUME MapFails(t) PROVE FramesSound'
  <2>1. /\ stack[t] # <<>> /\ Top(t).at = "map"
        /\ Become(t, [at |-> "fail", mod |-> Top(t).mod])
        /\ UNCHANGED <<Modules, files, freed, pc>>
    BY <1>10 DEF MapFails, At
  <2>2. Top(t).mod \in Opened' \ freed' /\ Top(t).mod \in Handle
    BY <1>1, <2>1 DEF Opened
  <2> QED
    BY <1>5, <2>1, <2>2, FrameMade, SameKept
<1>11. ASSUME Attach(t) PROVE FramesSound'
  <2>1. /\ stack[t] # <<>> /\ Top(t).at = "import"
        /\ Become(t, EntryFrame(Top(t).mod, "process_attach"))
        /\ UNCHANGED <<Modules, files, freed, pc>>
    BY <1>11 DEF Attach, At
  <2>2. Top(t).mod \in Opened' \ freed' /\ Top(t).mod \in Handle
    BY <1>1, <2>1 DEF Opened
  <2>3. EntryFrame(Top(t).mod, "process_attach") \in Frame
    BY <2>2, FrameMade DEF AttachReason
  <2>4. PICK frame \in Frame : /\ frame = EntryFrame(Top(t).mod, "process_attach")
                               /\ frame.at = "entry" /\ frame.reason = "process_attach"
                               /\ frame.mod = Top(t).mod
    BY <2>3, EntryFields
  <2>5. Kept /\ pc' = pc /\ Become(t, frame)
    BY <2>1, <2>4, SameKept
  <2> QED
    BY <1>5, <2>1, <2>2, <2>4, <2>5
<1>12. ASSUME ImportFound(t) PROVE FramesSound'
  <2>1. /\ stack' = [stack EXCEPT ![t] = Resumed(@, TRUE)]
        /\ stack[t] # <<>> /\ Top(t).at = "import"
        /\ UNCHANGED <<Modules, files, freed, pc>>
        /\ stack \in [Thread -> Seq(Frame)]
    BY <1>12 DEF ImportFound, HasImport, At, TypeOK
  <2>2. /\ \A u \in Thread : u # t => stack'[u] = stack[u]
        /\ Len(stack'[t]) = Len(stack[t])
        /\ \A k \in 1 .. Len(stack[t]) - 1 : stack'[t][k] = stack[t][k]
        /\ After(stack[t][Len(stack[t])], stack'[t][Len(stack[t])])
    <3>1. stack'[t] = Resumed(stack[t], TRUE) /\ stack[t] \in Seq(Frame)
      BY <2>1
    <3>2. /\ Len(Resumed(stack[t], TRUE)) = Len(stack[t])
          /\ \A k \in 1 .. Len(stack[t]) - 1 : Resumed(stack[t], TRUE)[k] = stack[t][k]
          /\ After(stack[t][Len(stack[t])], Resumed(stack[t], TRUE)[Len(stack[t])])
      BY <2>1, <3>1, ResumedStack
    <3> QED
      BY <2>1, <3>1, <3>2, Zenon
  <2>3. Kept
    BY <2>1, SameKept
  <2>4. ASSUME NEW k \in 1 .. Len(stack'[t]) PROVE FrameSound(t, k)'
    <3>1. k \in 1 .. Len(stack[t])
      BY <2>2
    <3>2. CASE k = Len(stack[t])
      <4>1. stack[t][k].at # "open"
        BY <1>1, <2>1, <3>2
      <4>2. FrameSound(t, k)
        BY <3>1, BelowTop
      <4> QED
        BY <2>1, <2>2, <2>3, <3>1, <3>2, <4>1, <4>2, AfterSound
    <3>3. CASE k < Len(stack[t])
      <4>1. FrameSound(t, k) /\ stack[t][k].at # "open"
        BY <3>1, <3>3, BelowTop
      <4>2. stack'[t][k] = stack[t][k]
        BY <1>0, <2>2, <3>1, <3>3
      <4> QED
        BY <2>1, <2>2, <2>3, <3>1, <3>3, <4>1, <4>2, KeptSound
    <3> QED
      BY <1>0, <3>1, <3>2, <3>3
  <2>5. \A u \in Thread : u # t => stack'[u] = <<>>
    BY <2>1, <2>2, InsideAlone
  <2> QED
    BY <2>4, <2>5, AloneSound
<1>13. ASSUME FailLoad(t) PROVE FramesSound'
  <2>1. /\ stack[t] # <<>> /\ Return(t, FALSE)
        /\ UNCHANGED <<Modules, files, freed>>
        /\ pc' = [pc EXCEPT ![t] = IF IsProgram(t) THEN "done" ELSE @]
    BY <1>13 DEF FailLoad, At
  <2>2. ASSUME Len(stack[t]) > 1 PROVE pc' = pc
    <3>1. ~IsProgram(t)
      BY <2>2, StackLength DEF IsProgram
    <3>2. pc' = [pc EXCEPT ![t] = pc[t]]
      BY <2>1, <3>1
    <3> QED
      BY <3>2 DEF TypeOK
  <2> QED
    BY <2>1, <2>2, SameKept, FramesReturn
<1> QED
  BY <1>3, <1>4, <1>6, <1>8, <1>9, <1>10, <1>11, <1>12, <1>13 DEF Loads

LEMMA FramesNotifies ==
    ASSUME TypeOK, TypeOK', LocksHeld, WholeProcess, FramesSound, ListSound, NEW t \in Thread,
           TakesLock(t) \/ Returns(t) \/ StartThread(t) \/ EndThread(t)
    PROVE  FramesSound'
<1>0. Main \in Thread
  BY LoaderAssumption
<1>1. ASSUME NotifyThread(t) PROVE FramesSound'
  <2>1. /\ stack[t] = <<>> /\ pc[t] \in Ending \cup {"attach"}
        /\ noted[t] \in Opened /\ noted[t] \in Handle
        /\ Reason(t) \in {"thread_attach", "thread_detach"}
        /\ Push(t, EntryFrame(noted[t], Reason(t)))
        /\ UNCHANGED <<Modules, files, freed, pc>>
    BY <1>1 DEF NotifyThread, InNotify, ListSound, TypeOK, Reason
  <2>2. EntryFrame(noted[t], Reason(t)) \in Frame
    BY <2>1, FrameMade DEF AttachReason, DetachReason
  <2>3. Len(stack[t]) = 0 /\ Kept
    BY <2>1, EmptySeq, SameKept
  <2>4. stack'[t][1] = EntryFrame(noted[t], Reason(t)) /\ ~(1 < Len(stack'[t]))
    <3>1. /\ Len(stack'[t]) = Len(stack[t]) + 1
          /\ stack'[t][Len(stack[t]) + 1] = EntryFrame(noted[t], Reason(t))
      BY <2>1, <2>2, PushStep
    <3> QED
      BY <2>3, <3>1
  <2>5. FrameSound(t, 1)'
    <3>1. /\ stack'[t][1].at = "entry"
          /\ stack'[t][1].mod \in Opened'
          /\ stack'[t][1].reason \in {"thread_attach", "thread_detach"}
      BY <2>1, <2>4 DEF Opened, EntryFrame
    <3>2. pc'[t] \in Ending \cup {"attach"}
      BY <2>1
    <3> QED
      BY <2>4, <3>1, <3>2 DEF FrameSound, OfThread
  <2>6. 1 = Len(stack[t]) + 1 /\ 1 \in Nat
    BY <2>3
  <2> QED
    BY <2>1, <2>2, <2>3, <2>5, <2>6, FramesPush
<1>2. ASSUME NotifyDone(t), InNotify(t), UNCHANGED <<stack, Modules, files, freed>>
      PROVE  FramesSound'
  <2>1. /\ pc[t] \in Ending \cup {"attach"} /\ stack[t] = <<>>
        /\ \A u \in Thread : u # t => pc'[u] = pc[u]
    BY <1>2 DEF NotifyDone, InNotify, TypeOK
  <2> QED
    BY <1>0, <1>2, <2>1, FramesSame DEF Ending
<1>3. ASSUME NotifySkips(t) \/ NotifyFreed(t) PROVE FramesSound'
  BY <1>2, <1>3, FramesOver DEF NotifySkips, NotifyFreed
<1>4. ASSUME AttachReturns(t) PROVE FramesSound'
  <2>1. /\ stack[t] # <<>> /\ Return(t, TRUE)
        /\ UNCHANGED <<Modules, files, freed>>
        /\ pc' = [pc EXCEPT ![t] = IF IsProgram(t) THEN "run" ELSE @]
    BY <1>4 DEF AttachReturns, At
  <2>2. ASSUME Len(stack[t]) > 1 PROVE pc' = pc
    <3>1. ~IsProgram(t)
      BY <2>2, StackLength DEF IsProgram
    <3>2. pc' = [pc EXCEPT ![t] = pc[t]]
      BY <2>1, <3>1
    <3> QED
      BY <3>2 DEF TypeOK
  <2>3. Kept
    BY <2>1, SameKept
  <2> QED
    BY <2>1, <2>2, <2>3, FramesReturn
<1>5. ASSUME ThreadEntryReturns(t) PROVE FramesSound'
  <2>1. /\ stack[t] # <<>> /\ Return(t, TRUE) /\ Top(t).at = "entry"
        /\ Top(t).reason \in {"thread_attach", "thread_detach"}
        /\ UNCHANGED <<Modules, files, freed>>
    BY <1>5 DEF ThreadEntryReturns, At
  <2>2. Len(stack[t]) = 1
    BY <2>1, TopFrame DEF FrameSound, OfThread
  <2>3. Kept /\ ~(Len(stack[t]) > 1)
    BY <2>1, <2>2, SameKept
  <2> QED
    BY <2>1, <2>3, FramesReturn
<1>6. ASSUME t = Main, DetachReturns PROVE FramesSound'
  <2>1. /\ stack[t] # <<>> /\ Top(t).at = "entry" /\ Top(t).reason = "process_detach"
        /\ Become(t, [at |-> "free", mod |-> Top(t).mod])
        /\ UNCHANGED <<Modules, files, freed, pc>>
    BY <1>6 DEF DetachReturns, At
  <2>2. /\ Len(stack[t]) = 1 /\ pc[Main] = "close" /\ Top(t).mod \notin Listed
        /\ Top(t).mod \in Opened \ freed /\ Top(t).mod \in Handle
    <3>1. /\ Top(t) = stack[t][Len(stack[t])] /\ FrameSound(t, Len(stack[t]))
          /\ Top(t).mod \in Opened \ freed /\ Top(t) \in Frame
      BY <2>1, TopFrame DEF OfThread
    <3> QED
      BY <2>1, <3>1, FrameFields DEF FrameSound
  <2>3. stack'[t][1] = [at |-> "free", mod |-> Top(t).mod] /\ ~(1 < Len(stack'[t]))
    <3>1. /\ Len(stack'[t]) = Len(stack[t])
          /\ stack'[t][Len(stack[t])] = [at |-> "free", mod |-> Top(t).mod]
      BY <2>1, <2>2, FrameMade, BecomeStep
    <3> QED
      BY <2>2, <3>1
  <2>4. FrameSound(t, 1)'
    <3>1. /\ stack'[t][1].at = "free"
          /\ stack'[t][1].mod \in Opened' \ freed'
          /\ stack'[t][1].mod \notin Listed'
          /\ pc'[Main] = "close"
      BY <2>1, <2>2, <2>3 DEF Opened, Listed
    <3> QED
      BY <1>6, <2>3, <3>1 DEF FrameSound, OfThread
  <2>5. 1 \in Nat /\ 1 = Len(stack[t])
    BY <2>2
  <2>6. [at |-> "free", mod |-> Top(t).mod] \in Frame /\ Kept
    BY <2>1, <2>2, FrameMade, SameKept
  <2> QED
    BY <2>1, <2>4, <2>5, <2>6, FramesBecome
<1>7. ASSUME StartThread(t) \/ EndThread(t) PROVE FramesSound'
  <2>1. /\ UNCHANGED <<stack, Modules, files, freed>>
        /\ \A u \in Thread : u # t => pc'[u] = pc[u]
        /\ pc[t] \in {"off", "run"}
    BY <1>7 DEF StartThread, EndThread, BeginNotify, TypeOK
  <2> QED
    BY <1>0, <2>1, FramesSame DEF Ending
<1> QED
  BY <1>1, <1>3, <1>4, <1>5, <1>6, <1>7 DEF TakesLock, Returns

LEMMA FramesFaults ==
    ASSUME TypeOK, TypeOK', LocksHeld, FramesSound, NEW t \in Thread,
           \/ FaultCaught(t) \/ FaultEndsThread(t) \/ FaultEndsProgram(t)
           \/ FaultEndsProcess(t) \/ ExitProcess(t)
    PROVE  FramesSound'
<1>1. ASSUME FaultCaught(t) PROVE FramesSound'
  <2>1. stack[t] # <<>> /\ UNCHANGED <<Modules, files, freed>>
    BY <1>1 DEF FaultCaught, Faults, At
  <2>2. \E k \in 0 .. Len(stack[t]) - 1 : Unwind(t, k) /\ (k > 0 => pc' = pc)
    <3>1. ASSUME NEW k \in Catchers(t), Unwind(t, k), pc' = pc
          PROVE  \E j \in 0 .. Len(stack[t]) - 1 : Unwind(t, j) /\ (j > 0 => pc' = pc)
      BY <2>1, <3>1, CatcherIndex
    <3>2. ASSUME Unwind(t, 0)
          PROVE  \E j \in 0 .. Len(stack[t]) - 1 : Unwind(t, j) /\ (j > 0 => pc' = pc)
      BY <2>1, <3>2, CatcherIndex
    <3> QED
      BY <1>1, <3>1, <3>2 DEF FaultCaught
  <2> QED
    BY <2>1, <2>2, SameKept, FramesUnwind
<1>2. ASSUME FaultEndsThread(t) \/ FaultEndsProgram(t) PROVE FramesSound'
  <2>1. stack[t] # <<>> /\ Unwind(t, 0) /\ UNCHANGED <<Modules, files, freed>>
    BY <1>2 DEF FaultEndsThread, FaultEndsProgram, Faults, At
  <2> QED
    BY <2>1, CatcherIndex, SameKept, FramesUnwind
<1> QED
  BY <1>1, <1>2, FramesOver DEF FaultEndsProcess, ExitProcess

LEMMA FramesCloses ==
    ASSUME TypeOK, TypeOK', LocksHeld, WholeProcess, FramesSound, ListSound,
           Closes \/ CloseAllModules \/ ProgramReturns
    PROVE  FramesSound'
<1>0. Main \in Thread
  BY LoaderAssumption
<1>1. ASSUME CloseAllModules PROVE FramesSound'
  <2>1. /\ UNCHANGED <<stack, Modules, files, freed>>
        /\ \A u \in Thread : u # Main => pc'[u] = pc[u]
        /\ pc[Main] = "run"
    BY <1>1 DEF CloseAllModules, TypeOK
  <2> QED
    BY <1>0, <2>1, FramesSame DEF Ending
<1>2. ASSUME CloseModule PROVE FramesSound'
  <2> DEFINE h == Last(Modules)
  <2>1. /\ h \in Opened \ freed /\ h \in Handle /\ h \notin Listed'
        /\ pc[Main] = "close" /\ stack[Main] = <<>>
        /\ UNCHANGED <<files, freed, pc>>
    BY <1>2, CloseStep, ListTypes DEF CloseModule, ListSound
  <2>2. PICK frame \in Frame :
           /\ Push(Main, frame)
           /\ frame.mod = h
           /\ frame.at = "free" \/ (frame.at = "entry" /\ frame.reason = "process_detach")
    <3>1. EntryFrame(h, "process_detach") \in Frame /\ [at |-> "free", mod |-> h] \in Frame
      BY <2>1, FrameMade DEF DetachReason
    <3>2. \/ Push(Main, EntryFrame(h, "process_detach"))
          \/ Push(Main, [at |-> "free", mod |-> h])
      BY <1>2 DEF CloseModule
    <3> QED
      BY <3>1, <3>2 DEF EntryFrame
  <2> HIDE DEF h
  <2>3. Len(stack[Main]) = 0
    BY <2>1, EmptySeq
  <2>4. stack'[Main][1] = frame /\ ~(1 < Len(stack'[Main]))
    <3>1. Len(stack'[Main]) = Len(stack[Main]) + 1 /\ stack'[Main][Len(stack[Main]) + 1] = frame
      BY <1>0, <2>2, PushStep
    <3> QED
      BY <2>3, <3>1
  <2>5. FrameSound(Main, 1)'
    <3>1. frame.mod \in Opened' \ freed' /\ frame.mod \notin Listed' /\ pc'[Main] = "close"
      BY <2>1, <2>2 DEF Opened
    <3>2. /\ frame.at # "open" /\ frame.at \in {"free", "entry"}
          /\ frame.at = "entry" => frame.reason \notin {"thread_attach", "thread_detach"}
      BY <2>2
    <3> QED
      BY <2>4, <3>1, <3>2 DEF FrameSound, OfThread
  <2>6. Kept /\ 1 \in Nat /\ 1 = Len(stack[Main]) + 1
    BY <1>2, <2>3, CloseKept
  <2> QED
    BY <1>0, <2>1, <2>2, <2>5, <2>6, FramesPush
<1>3. ASSUME FreeModule PROVE FramesSound'
  <2>1. Len(stack[Main]) = 1 /\ stack[Main] # <<>> /\ Return(Main, TRUE)
    BY <1>3, FreeStep
  <2>2. /\ \A u \in Thread : u # Main => stack'[u] = stack[u]
        /\ Len(stack'[Main]) = Len(stack[Main]) - 1
    BY <1>0, <2>1, ReturnStep
  <2>3. \A u \in Thread : u # Main => stack'[u] = <<>>
    BY <1>0, <2>1, <2>2, InsideAlone
  <2>4. Len(stack'[Main]) = 0
    BY <2>1, <2>2
  <2> QED
    BY <1>0, <2>3, <2>4, AloneSound
<1>4. ASSUME CloseDone \/ ProgramReturns PROVE FramesSound'
  <2>1. /\ UNCHANGED <<stack, Modules, files, freed>>
        /\ \A u \in Thread : u # Main => pc'[u] = pc[u]
        /\ stack[Main] = <<>>
    BY <1>4 DEF CloseDone, ProgramReturns, TypeOK
  <2> QED
    BY <1>0, <2>1, FramesSame
<1>5. ASSUME ProcessEnds PROVE FramesSound'
  BY <1>5, FramesOver DEF ProcessEnds
<1> QED
  BY <1>1, <1>2, <1>3, <1>4, <1>5 DEF Closes

LEMMA FramesNext ==
    ASSUME TypeOK, TypeOK', LocksHeld, WholeProcess, FramesSound, ListSound, [Next]_vars
    PROVE  FramesSound'
<1>1. ASSUME NEW t \in Thread, Calls(t) PROVE FramesSound'
  BY <1>1, FramesLoads, FramesNotifies, FramesFaults DEF Calls
<1>2. ASSUME UNCHANGED vars PROVE FramesSound'
  BY <1>2, FramesSame DEF vars
<1> QED
  BY <1>1, <1>2, FramesLoads, FramesNotifies, FramesCloses DEF Next

-----------------------------------------------------------------------------
(* No handle is lost                                                       *)

\* What PeLdrCloseModule is at is at the bottom of the main thread.
LEMMA ClosingBottom ==
    ASSUME TypeOK, FramesSound, NEW h \in Closing
    PROVE  /\ h \in Opened
           /\ stack[Main] # <<>>
           /\ pc[Main] = "close"
           /\ stack[Main][1] \in {[at |-> "free", mod |-> h], EntryFrame(h, "process_detach")}
<1>0. Main \in Thread
  BY LoaderAssumption
<1>1. PICK f \in ToSet(stack[Main]) :
         f \in {[at |-> "free", mod |-> h], EntryFrame(h, "process_detach")}
  BY DEF Closing
<1>2. PICK k \in DOMAIN stack[Main] : stack[Main][k] = f
  BY DEF ToSet
<1>3. FrameSound(Main, k) /\ stack[Main] # <<>>
  BY <1>0, <1>2, StackLength DEF FramesSound
<1>4. f.at = "free" \/ (f.at = "entry" /\ f.reason = "process_detach")
  BY <1>1 DEF EntryFrame
<1>5. k = 1 /\ pc[Main] = "close"
  BY <1>2, <1>3, <1>4 DEF FrameSound
<1> QED
  BY <1>1, <1>2, <1>3, <1>5 DEF Closing

LEMMA BottomClosing ==
    ASSUME TypeOK', NEW h \in Opened', stack'[Main] # <<>>,
           stack'[Main][1] \in {[at |-> "free", mod |-> h], EntryFrame(h, "process_detach")}
    PROVE  h \in Closing'
<1>1. stack'[Main] \in Seq(Frame)
  BY LoaderAssumption DEF TypeOK
<1>2. 1 \in DOMAIN stack'[Main]
  <2>1. Len(stack'[Main]) \in Nat \ {0} /\ DOMAIN stack'[Main] = 1 .. Len(stack'[Main])
    BY <1>1, EmptySeq, LenProperties
  <2> QED
    BY <2>1
<1>3. stack'[Main][1] \in ToSet(stack'[Main])
  BY <1>2 DEF ToSet
<1> QED
  BY <1>3 DEF Closing

\* The bottom frame stays while it is in PeLdrCloseModule, but for the steps of
\* PeLdrCloseModule itself.
LEMMA BottomKept ==
    ASSUME TypeOK, TypeOK', FramesSound, LocksHeld, NEW h \in Closing, [Next]_vars, ~ProcessOver,
           ~DetachReturns, ~FreeModule, pc'[Main] # "done"
    PROVE  stack'[Main] # <<>> /\ stack'[Main][1] = stack[Main][1]
<1> DEFINE Goal == stack'[Main] # <<>> /\ stack'[Main][1] = stack[Main][1]
<1>0. Main \in Thread
  BY LoaderAssumption
<1>a1. PICK n \in Nat : n = Len(stack[Main])
  BY <1>0, StackLength
<1>1. /\ stack[Main] # <<>> /\ pc[Main] = "close" /\ n # 0
      /\ stack[Main][1].at \in {"free", "entry"}
      /\ stack[Main][1].at = "entry" => stack[Main][1].reason = "process_detach"
      /\ Top(Main) = stack[Main][n]
  BY <1>0, <1>a1, ClosingBottom, StackLength DEF EntryFrame
<1>2. \A u \in Thread : u # Main => stack[u] = <<>>
  BY <1>0, <1>1, InsideAlone
<1>b1. ASSUME Len(stack'[Main]) > 0, stack'[Main][1] = stack[Main][1] PROVE Goal
  <2>1. stack'[Main] # <<>>
    BY <1>b1, EmptySeq
  <2> QED
    BY <1>b1, <2>1
<1>3. ASSUME stack'[Main] = stack[Main] PROVE Goal
  BY <1>1, <1>3
<1>4. ASSUME NEW frame \in Frame, Push(Main, frame) PROVE Goal
  <2>1. Len(stack'[Main]) = n + 1 /\ \A k \in 1 .. n : stack'[Main][k] = stack[Main][k]
    BY <1>0, <1>a1, <1>4, PushStep
  <2>2. Len(stack'[Main]) > 0 /\ 1 \in 1 .. n
    BY <1>1, <2>1
  <2> QED
    BY <1>b1, <2>1, <2>2
<1>5. ASSUME NEW frame \in Frame, Become(Main, frame), n > 1 PROVE Goal
  <2>1. Len(stack'[Main]) = n /\ \A k \in 1 .. n - 1 : stack'[Main][k] = stack[Main][k]
    BY <1>0, <1>1, <1>a1, <1>5, BecomeStep
  <2>2. Len(stack'[Main]) > 0 /\ 1 \in 1 .. n - 1
    BY <1>5, <2>1
  <2> QED
    BY <1>b1, <2>1, <2>2
<1>6. ASSUME NEW k \in Nat, k > 0, Len(stack'[Main]) = k,
             \A j \in 1 .. k - 1 : stack'[Main][j] = stack[Main][j],
             After(stack[Main][k], stack'[Main][k])
      PROVE  Goal
  <2>1. CASE k = 1
    <3>1. After(stack[Main][1], stack'[Main][1])
      BY <1>6, <2>1
    <3>2. stack'[Main][1] = stack[Main][1]
      BY <1>1, <3>1 DEF After
    <3> QED
      BY <1>b1, <1>6, <3>2
  <2>2. CASE k > 1
    <3>1. 1 \in 1 .. k - 1
      BY <2>2
    <3> QED
      BY <1>b1, <1>6, <3>1
  <2> QED
    BY <1>6, <2>1, <2>2
<1> HIDE DEF Goal
<1>7. ASSUME NEW ok, Return(Main, ok), n > 1 PROVE Goal
  <2>1. PICK k \in Nat : k = n - 1
    BY <1>7
  <2>2. /\ Len(stack'[Main]) = n - 1
        /\ \A j \in 1 .. n - 2 : stack'[Main][j] = stack[Main][j]
        /\ After(stack[Main][n - 1], stack'[Main][n - 1])
    BY <1>0, <1>1, <1>7, <1>a1, ReturnStep
  <2>3. k > 0 /\ k - 1 = n - 2
    BY <1>7, <2>1
  <2>4. /\ Len(stack'[Main]) = k
        /\ \A j \in 1 .. k - 1 : stack'[Main][j] = stack[Main][j]
        /\ After(stack[Main][k], stack'[Main][k])
    BY <2>1, <2>2, <2>3
  <2> QED
    BY <1>6, <2>3, <2>4
<1>8. ASSUME Top(Main).at \in {"open", "map", "import", "fail"} \/
             (Top(Main).at = "entry" /\ Top(Main).reason # "process_detach")
      PROVE  n > 1
  <2>1. n # 1
    BY <1>1, <1>8
  <2> QED
    BY <1>1, <2>1
<1>9. Top(Main).at \in {"map", "import", "entry"} => Top(Main).mod \in Handle
  BY <1>0, <1>1, TopFrame, FrameFields
<1>10. ASSUME Loads(Main) PROVE Goal
  <2>1. CASE Open(Main) \/ OpenFails(Main) \/ Map(Main) \/ MapFails(Main) \/ Attach(Main)
    <3>1. Top(Main).at \in {"open", "map", "import"}
      BY <2>1 DEF Open, OpenFails, Map, MapFails, Attach, At
    <3>2. \E frame \in Frame : Become(Main, frame)
      <4>1. \A h1 \in Handle : EntryFrame(h1, "process_attach") \in Frame
        BY FrameMade DEF AttachReason
      <4> QED
        BY <1>9, <2>1, <4>1, FrameMade DEF Open, OpenFails, Map, MapFails, Attach, At
    <3> QED
      BY <1>5, <1>8, <3>1, <3>2
  <2>2. CASE ImportLoads(Main)
    BY <1>0, <1>4, <2>2, WantedFile, FrameMade DEF ImportLoads
  <2>3. CASE FailLoad(Main)
    BY <1>7, <1>8, <2>3 DEF FailLoad, At
  <2>4. CASE ImportFound(Main)
    <3>1. /\ stack' = [stack EXCEPT ![Main] = Resumed(@, TRUE)]
          /\ Top(Main).at = "import"
          /\ stack \in [Thread -> Seq(Frame)]
      BY <2>4 DEF ImportFound, HasImport, At, TypeOK
    <3>2. n > 1
      BY <1>8, <3>1
    <3>3. stack'[Main] = Resumed(stack[Main], TRUE) /\ stack[Main] \in Seq(Frame)
      BY <1>0, <3>1
    <3>4. /\ Len(Resumed(stack[Main], TRUE)) = Len(stack[Main])
          /\ \A k \in 1 .. Len(stack[Main]) - 1 :
                Resumed(stack[Main], TRUE)[k] = stack[Main][k]
      BY <3>3, ResumedStack
    <3>5. /\ Len(stack'[Main]) = Len(stack[Main])
          /\ \A k \in 1 .. Len(stack[Main]) - 1 : stack'[Main][k] = stack[Main][k]
      BY <3>3, <3>4, Zenon
    <3>6. Len(stack'[Main]) > 0 /\ 1 \in 1 .. Len(stack[Main]) - 1
      BY <1>a1, <3>2, <3>5
    <3> QED
      BY <1>b1, <3>5, <3>6
  <2> QED
    BY <1>10, <2>1, <2>2, <2>3, <2>4 DEF Loads
<1>11. ASSUME NEW t \in Thread, TakesLock(t) PROVE Goal
  <2>1. t # Main
    BY <1>1, <1>11 DEF TakesLock, NotifyThread, NotifySkips, NotifyFreed, InNotify, Ending
  <2>2. CASE NotifyThread(t)
    <3>1. CanEnter(CSPeLdr, t)
      BY <2>2 DEF NotifyThread, Push
    <3> QED
      BY <1>0, <1>1, <2>1, <3>1, OneInside
  <2>3. CASE stack' = stack
    BY <1>3, <2>3
  <2> QED
    BY <1>11, <2>2, <2>3 DEF TakesLock, NotifySkips, NotifyFreed
<1>12. ASSUME Returns(Main) PROVE Goal
  <2>1. Top(Main).at = "entry" /\ Top(Main).reason # "process_detach" /\ Return(Main, TRUE)
    BY <1>12 DEF Returns, AttachReturns, ThreadEntryReturns, At
  <2> QED
    BY <1>7, <1>8, <2>1
<1>13. ASSUME NEW f \in File, LoadLibrary(Main, f)
       PROVE  Goal
  BY <1>4, <1>13, FrameMade DEF LoadLibrary
<1>14. ASSUME FaultCaught(Main) PROVE Goal
  <2>1. PICK k \in Catchers(Main) : Unwind(Main, k)
    BY <1>1, <1>14 DEF FaultCaught
  <2>2. k \in Nat /\ k \in 0 .. Len(stack[Main]) - 1 /\ k > 0
    BY <1>0, <1>1, <1>a1, <2>1, CatcherIndex
  <2> QED
    BY <1>0, <1>6, <2>1, <2>2, UnwindStep
<1>15. /\ ~FaultEndsThread(Main) /\ ~FaultEndsProgram(Main) /\ ~EndThread(Main)
       /\ ~CloseAllModules /\ ~CloseModule /\ ~ProgramReturns
  BY <1>0, <1>1
  DEF FaultEndsThread, FaultEndsProgram, EndThread, CloseAllModules, CloseModule,
      ProgramReturns, TypeOK
<1>16. \A t \in Thread : StartThread(t) \/ EndThread(t) => stack' = stack
  BY DEF StartThread, EndThread
<1>17. \A t \in Thread : ~FaultEndsProcess(t) /\ ~ExitProcess(t)
  BY DEF FaultEndsProcess, ExitProcess
<1>18. ASSUME NEW t \in Thread, t # Main,
              \/ Loads(t) \/ Returns(t) \/ FaultCaught(t)
              \/ FaultEndsThread(t) \/ FaultEndsProgram(t)
       PROVE  FALSE
  BY <1>2, <1>17, <1>18
  DEF Loads, Open, OpenFails, Map, MapFails, ImportFound, ImportLoads, HasImport, FailLoad,
      Attach, Returns, AttachReturns, ThreadEntryReturns, FaultCaught, FaultEndsThread,
      FaultEndsProgram, Faults, At
<1>19. ASSUME NEW t \in Thread, t # Main, NEW f \in File, LoadLibrary(t, f) PROVE FALSE
  <2>1. CanEnter(CSPeLdr, t)
    BY <1>19 DEF LoadLibrary, Push
  <2> QED
    BY <1>0, <1>1, <1>19, <2>1, OneInside
<1>20. ASSUME NEW t \in Thread, Calls(t) PROVE Goal
  BY <1>0, <1>3, <1>13, <1>14, <1>15, <1>16, <1>17, <1>18, <1>19, <1>20 DEF Calls
<1>21. ~Closes
  BY <1>1, <1>15 DEF Closes, CloseDone, ProcessEnds
<1>22. ASSUME UNCHANGED vars PROVE Goal
  BY <1>3, <1>22 DEF vars
<1> QED
  BY <1>0, <1>10, <1>11, <1>12, <1>15, <1>18, <1>20, <1>21, <1>22 DEF Next, Goal

\* After PeLdrStartProgram nothing but the end of the process is left for the main thread.
LEMMA DoneStays ==
    ASSUME TypeOK, FramesSound, pc[Main] = "done", [Next]_vars
    PROVE  pc'[Main] \in {"done", "over"}
<1>0. Main \in Thread
  BY LoaderAssumption
<1>1. CASE ProcessOver
  BY <1>0, <1>1 DEF ProcessOver
<1>2. ASSUME NEW t \in Thread, Loads(t) PROVE pc'[Main] = pc[Main]
  BY <1>0, <1>2 DEF Loads, Open, OpenFails, Map, MapFails, ImportFound, ImportLoads,
     FailLoad, IsProgram, Attach, TypeOK
<1>3. ASSUME NEW t \in Thread, InNotify(t), NotifyDone(t) PROVE pc'[Main] = pc[Main]
  BY <1>0, <1>3 DEF InNotify, NotifyDone, Ending, TypeOK
<1>4. ASSUME NEW t \in Thread, TakesLock(t), ~ProcessOver PROVE pc'[Main] = pc[Main]
  BY <1>3, <1>4 DEF TakesLock, NotifyThread, NotifySkips, NotifyFreed
<1>5. ASSUME NEW t \in Thread, ThreadEntryReturns(t) PROVE pc'[Main] = pc[Main]
  <2>1. stack[t] # <<>> /\ OfThread(Top(t)) /\ NotifyDone(t)
    BY <1>5 DEF ThreadEntryReturns, At, OfThread
  <2>2. pc[t] \in Ending \cup {"attach"}
    BY <2>1, TopFrame DEF FrameSound
  <2> QED
    BY <1>0, <2>1, <2>2 DEF NotifyDone, Ending, TypeOK
<1>6. ASSUME NEW t \in Thread, Returns(t) PROVE pc'[Main] = pc[Main]
  <2>1. AttachReturns(t) => pc'[Main] = pc[Main]
    BY <1>0 DEF AttachReturns, IsProgram, TypeOK
  <2>2. DetachReturns => pc'[Main] = pc[Main]
    BY DEF DetachReturns
  <2> QED
    BY <1>5, <1>6, <2>1, <2>2 DEF Returns
<1>7. ASSUME NEW t \in Thread, Calls(t), ~ProcessOver PROVE pc'[Main] \in {"done", pc[Main]}
  <2>1. StartThread(t) \/ EndThread(t) \/ FaultEndsThread(t) => pc'[Main] = pc[Main]
    BY <1>0 DEF StartThread, EndThread, FaultEndsThread, BeginNotify, TypeOK
  <2>2. FaultCaught(t) => pc'[Main] = pc[Main]
    BY <1>0 DEF FaultCaught, TypeOK
  <2>3. FaultEndsProgram(t) => pc'[Main] \in {"done", pc[Main]}
    BY <1>0 DEF FaultEndsProgram, TypeOK
  <2>4. \A f \in File : LoadLibrary(t, f) => pc'[Main] = pc[Main]
    BY DEF LoadLibrary
  <2> QED
    BY <1>7, <2>1, <2>2, <2>3, <2>4 DEF Calls, ExitProcess, FaultEndsProcess
<1>8. ASSUME Closes \/ CloseAllModules \/ ProgramReturns \/ UNCHANGED vars, ~ProcessOver
      PROVE  pc'[Main] = pc[Main]
  BY <1>8 DEF Closes, CloseModule, FreeModule, CloseDone, ProcessEnds, CloseAllModules,
     ProgramReturns, vars
<1> QED
  BY <1>1, <1>2, <1>4, <1>6, <1>7, <1>8 DEF Next

LEMMA KeptNext ==
    ASSUME TypeOK, TypeOK', LocksHeld, WholeProcess, FramesSound, ListSound, HandleKept,
           [Next]_vars
    PROVE  HandleKept'
<1>0. Main \in Thread
  BY LoaderAssumption
<1>1. Len(Modules') <= MaxModules
  <2>1. Modules \in Seq(Handle) /\ Len(Modules) \in Nat /\ MaxModules \in Nat
    BY LenProperties, LoaderAssumption DEF TypeOK
  <2>2. ASSUME NEW t \in Thread, Open(t) PROVE Len(Modules') <= MaxModules
    <3>1. PICK h \in Handle : Modules' = Append(Modules, h)
      BY <2>2 DEF Open
    <3>2. Len(Modules') = Len(Modules) + 1
      BY <2>1, <3>1, AppendProperties
    <3> QED
      BY <2>1, <2>2, <3>2 DEF Open
  <2>3. ASSUME CloseModule PROVE Len(Modules') <= MaxModules
    <3>1. Len(Modules') = Len(Modules) - 1
      BY <2>1, <2>3, FrontIndex DEF CloseModule
    <3> QED
      BY <2>1, <3>1 DEF HandleKept
  <2> QED
    BY <2>2, <2>3, ListKept DEF HandleKept
<1>2. ASSUME pc'[Main] \notin {"done", "over"}, NEW h \in Opened'
      PROVE  h \in Listed' \cup freed' \cup Closing'
  <2>1. ~ProcessOver /\ pc[Main] \notin {"done", "over"}
    BY <1>0, <1>2, NothingAfter, DoneStays DEF ProcessOver, vars
  <2>2. freed \subseteq freed'
    <3>1. CASE FreeModule
      BY <3>1 DEF FreeModule
    <3> QED
      BY <3>1, FreedKept
  <2>3. CASE h \notin Opened
    <3>1. PICK t \in Thread : Open(t)
      BY <1>2, <2>3, ListKept DEF Opened, CloseModule
    <3>2. Opened' \ Opened \subseteq Listed'
      BY <3>1, OpenStep
    <3> QED
      BY <1>2, <2>3, <3>2
  <2>4. CASE h \in Listed
    <3>1. CASE CloseModule
      <4>1. h \in Listed' \/ h = Last(Modules)
        BY <2>4, <3>1, CloseStep
      <4>2. ASSUME h = Last(Modules) PROVE h \in Closing'
        <5>1. /\ Len(stack[Main]) = 0 /\ stack[Main] = <<>>
              /\ h \in Handle
          BY <3>1, <4>2, EmptySeq, ListTypes DEF CloseModule
        <5>2. PICK frame \in Frame :
                 /\ Push(Main, frame)
                 /\ frame \in {[at |-> "free", mod |-> h], EntryFrame(h, "process_detach")}
          <6>1. EntryFrame(h, "process_detach") \in Frame /\ [at |-> "free", mod |-> h] \in Frame
            BY <5>1, FrameMade DEF DetachReason
          <6>2. \/ Push(Main, EntryFrame(h, "process_detach"))
                \/ Push(Main, [at |-> "free", mod |-> h])
            BY <3>1, <4>2 DEF CloseModule
          <6> QED
            BY <6>1, <6>2
        <5>3. Len(stack'[Main]) = Len(stack[Main]) + 1 /\ stack'[Main][Len(stack[Main]) + 1] = frame
          BY <1>0, <5>2, PushStep
        <5>4. stack'[Main] # <<>> /\ stack'[Main][1] = frame
          BY <5>1, <5>3, EmptySeq
        <5> QED
          BY <1>2, <5>2, <5>4, BottomClosing
      <4> QED
        BY <4>1, <4>2
    <3>2. CASE ~CloseModule
      <4>1. Listed \subseteq Listed'
        <5>1. CASE \E t \in Thread : Open(t)
          BY <5>1, OpenStep
        <5>2. CASE \A t \in Thread : ~Open(t)
          BY <3>2, <5>2, ListKept DEF Listed
        <5> QED
          BY <5>1, <5>2
      <4> QED
        BY <2>4, <4>1
    <3> QED
      BY <3>1, <3>2
  <2>5. CASE h \in freed
    BY <2>2, <2>5
  <2>6. CASE h \in Closing
    <3>0. /\ stack[Main] # <<>>
          /\ stack[Main][1] \in {[at |-> "free", mod |-> h], EntryFrame(h, "process_detach")}
      BY <2>6, ClosingBottom
    <3>1. CASE FreeModule
      <4>1. /\ Len(stack[Main]) = 1 /\ freed' = freed \cup {Top(Main).mod}
            /\ Top(Main) = stack[Main][Len(stack[Main])]
        BY <1>0, <3>0, <3>1, FreeStep, StackLength
      <4>2. Top(Main).mod = h
        BY <3>0, <4>1 DEF EntryFrame
      <4> QED
        BY <4>1, <4>2
    <3>2. CASE DetachReturns
      <4>1. /\ Top(Main).at = "entry" /\ Top(Main).reason = "process_detach"
            /\ Become(Main, [at |-> "free", mod |-> Top(Main).mod])
        BY <3>2 DEF DetachReturns, At
      <4>2. /\ Top(Main) = stack[Main][Len(stack[Main])]
            /\ FrameSound(Main, Len(stack[Main]))
            /\ Top(Main).mod \in Handle
        BY <1>0, <3>0, <4>1, TopFrame, FrameFields
      <4>3. Len(stack[Main]) = 1
        BY <4>1, <4>2 DEF FrameSound
      <4>4. Top(Main).mod = h
        BY <3>0, <4>2, <4>3 DEF EntryFrame
      <4>5. /\ Len(stack'[Main]) = Len(stack[Main])
            /\ stack'[Main][Len(stack[Main])] = [at |-> "free", mod |-> Top(Main).mod]
        BY <1>0, <3>0, <4>1, <4>2, FrameMade, BecomeStep
      <4>6. stack'[Main] # <<>> /\ stack'[Main][1] = [at |-> "free", mod |-> h]
        BY <4>3, <4>4, <4>5, EmptySeq
      <4> QED
        BY <1>2, <4>6, BottomClosing
    <3>3. CASE ~FreeModule /\ ~DetachReturns
      BY <1>2, <2>1, <2>6, <3>0, <3>3, BottomKept, BottomClosing
    <3> QED
      BY <3>1, <3>2, <3>3
  <2> QED
    BY <2>1, <2>3, <2>4, <2>5, <2>6 DEF HandleKept
<1> QED
  BY <1>1, <1>2 DEF HandleKept

-----------------------------------------------------------------------------
(* The theorems                                                            *)

LEMMA InvariantInit == Init => IInv
<1> SUFFICES ASSUME Init PROVE IInv
  OBVIOUS
<1>0. TypeOK /\ Main \in Thread
  BY TypeInit, LoaderAssumption
<1>1. /\ \A t \in Thread : stack[t] = <<>> /\ pc[t] \in {"start", "off"}
      /\ \A t \in Thread : t # Main => pc[t] = "off"
      /\ pc[Main] = "start"
      /\ Modules = <<>> /\ files = <<>> /\ freed = {}
      /\ \A t \in Thread : noted[t] = NoHandle
  BY <1>0 DEF Init
<1>2. Listed = {} /\ Opened = {} /\ DOMAIN Modules = {} /\ Len(Modules) = 0
  BY <1>1, ToSetEmpty, EmptySeq DEF Listed, Opened
<1>3. LocksHeld
  BY <1>0, <1>1, HoldsCount DEF LocksHeld
<1>4. WholeProcess
  BY <1>1 DEF WholeProcess
<1>5. FramesSound
  BY <1>1, <1>2 DEF FramesSound
<1>6. ListSound /\ OneCopy
  BY <1>1, <1>2 DEF ListSound, OneCopy
<1>7. HandleKept
  BY <1>2, LoaderAssumption DEF HandleKept
<1> QED
  BY <1>0, <1>3, <1>4, <1>5, <1>6, <1>7 DEF IInv

LEMMA InvariantNext == IInv /\ [Next]_vars => IInv'
<1> SUFFICES ASSUME IInv, [Next]_vars PROVE IInv'
  OBVIOUS
<1> USE DEF IInv
<1>1. TypeOK'
  BY TypeNext
<1>2. LocksHeld'
  BY <1>1, LocksNext
<1>3. WholeProcess' /\ ListSound' /\ OneCopy'
  BY ProcessNext, ListNext, OneCopyNext
<1>4. FramesSound' /\ HandleKept'
  BY <1>1, FramesNext, KeptNext
<1> QED
  BY <1>1, <1>2, <1>3, <1>4

\* The parts of IInv hold in every state of every behaviour.
THEOREM LoaderInvariant == Spec => []IInv
BY InvariantInit, InvariantNext, PTL DEF Spec

\* Every variable of the loader keeps its type.
THEOREM LoaderTypeCorrect == Spec => []TypeOK
<1>1. IInv => TypeOK
  BY DEF IInv
<1> QED
  BY <1>1, LoaderInvariant, PTL

\* A module that only loads of its own name find is never listed twice: threads that load
\* the same dll at once, cyclic imports, loads out of DllMain and faults included
\* (PeLdrLoadModule).
THEOREM NoModuleTwice == Spec => []OneCopy
<1>1. IInv => OneCopy
  BY DEF IInv
<1> QED
  BY <1>1, LoaderInvariant, PTL

\* Until PeLdrStartProgram returns, a PE_HANDLE is listed, being closed or freed, and the
\* table does not overflow (PeLdrOpenModuleNoAdd, PeLdrCloseModule).
THEOREM NoHandleLost == Spec => []HandleKept
<1>1. IInv => HandleKept
  BY DEF IInv
<1> QED
  BY <1>1, LoaderInvariant, PTL

\* Loads and closes work on no freed handle, however they meet each other and the threads
\* that are notified (PeLdrLoadModule, PeLdrCloseAllModules).
THEOREM NoFreedFrame == Spec => []FramesLive
<1>1. IInv => FramesLive
  <2> SUFFICES ASSUME IInv, NEW t \in Thread, NEW f \in ToSet(stack[t]),
                      f.at # "open", ~OfThread(f)
               PROVE  f.mod \notin freed
    BY DEF FramesLive
  <2>1. FramesSound
    BY DEF IInv
  <2>2. PICK k \in DOMAIN stack[t] : stack[t][k] = f
    BY DEF ToSet
  <2> QED
    BY <2>1, <2>2 DEF FramesSound, FrameSound
<1> QED
  BY <1>1, LoaderInvariant, PTL
=============================================================================
