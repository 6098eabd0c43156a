------------------------- MODULE PeLoaderOrderProofs -------------------------
(***************************************************************************)
(* Proofs about the order in which PeLoader calls entry points.  On top of *)
(* IInv, LoadOrder is inductive: no load is forgotten half way, so that    *)
(* whatever an import finds by name has been loaded, has failed, or is     *)
(* being loaded further down the same stack.  From it follow that DllMain  *)
(* runs after the DllMain of the imports, that detach calls are paired     *)
(* with attach calls, that loads nest no deeper than the table has slots,  *)
(* and that the loader implements ModuleLife.                              *)
(***************************************************************************)
EXTENDS PeLoaderProofs, FiniteSetTheorems

-----------------------------------------------------------------------------
(* The shape of a step                                                     *)

\* What a step must leave alone for the frames that stay to remain sound.
Stays ==
    /\ Listed \subseteq Listed'
    /\ \A h \in Opened : files'[h] = files[h]
    /\ indexed \subseteq indexed'
    /\ \A h \in Listed : fate[h] \in {"loaded", "failed"} => fate'[h] \in {"loaded", "failed"}

\* Only t has frames, n of them in the end, and only the last of these is new.
TopOnly(t, n) ==
    /\ \A u \in Thread : u # t => stack[u] = <<>> /\ stack'[u] = <<>>
    /\ Len(stack'[t]) = n
    /\ \A k \in 1 .. n - 1 : k \in 1 .. Len(stack[t]) /\ stack'[t][k] = stack[t][k]

\* The loads of the n - 1 frames that stay are at the same point.
FatesBelow(t, n) ==
    \A k \in 1 .. n - 1 : Loading(stack[t][k]) => fate'[stack[t][k].mod] = fate[stack[t][k].mod]

\* Frames of loads work on listed modules, so on allocated ones.
LEMMA LoadingMod ==
    ASSUME IInv, LoadsSound, NEW t \in Thread, NEW k \in 1 .. Len(stack[t]),
           Loading(stack[t][k])
    PROVE  /\ LoadSound(t, k)
           /\ stack[t][k].mod \in Listed
           /\ stack[t][k].mod \in Opened
           /\ stack[t][k].mod \in Handle
<1>1. TypeOK /\ Listed \subseteq Opened
  BY DEF IInv, ListSound
<1>2. LoadSound(t, k)
  BY <1>1, StackLength DEF LoadsSound
<1>3. stack[t][k].mod \in Listed
  BY <1>2 DEF LoadSound, ModuleSound
<1>4. Listed \subseteq Handle
  BY <1>1, ToSetDef DEF TypeOK, Listed
<1> QED
  BY <1>1, <1>2, <1>3, <1>4

\* What is available stays so while the frames up to k keep their modules.
LEMMA AvailableKept ==
    ASSUME IInv, Stays, NEW t \in Thread, NEW k \in Nat, NEW name, Available(t, k, name),
           \A l \in 1 .. k : stack'[t][l].mod = stack[t][l].mod
    PROVE  Available(t, k, name)'
<1>1. PICK h \in Listed : /\ files[h] \in {name, Resolved[name]}
                          /\ \/ fate[h] \in {"loaded", "failed"}
                             \/ \E l \in 1 .. k : stack[t][l].mod = h
  BY DEF Available
<1>2. h \in Listed' /\ files'[h] \in {name, Resolved[name]}
  BY <1>1 DEF Stays, IInv, ListSound
<1>3. \/ fate'[h] \in {"loaded", "failed"}
      \/ \E l \in 1 .. k : stack'[t][l].mod = h
  BY <1>1 DEF Stays
<1> QED
  BY <1>2, <1>3 DEF Available

\* The imports behind a frame stay available when its module and those below are kept.
LEMMA PassedKept ==
    ASSUME IInv, LoadsSound, Stays, NEW t \in Thread, NEW k \in 1 .. Len(stack[t]),
           Loading(stack[t][k]), NEW j \in PassedImports(stack[t][k]),
           NEW imp, imp = Imports[files[stack[t][k].mod]][j], imp.must,
           \A l \in 1 .. k : stack'[t][l].mod = stack[t][l].mod
    PROVE  Available(t, k, imp.dll)'
<1>1. Available(t, k, imp.dll)
  BY LoadingMod DEF LoadSound, PassedSound
<1>2. k \in Nat
  BY StackLength DEF IInv
<1> QED
  BY <1>1, <1>2, AvailableKept

\* A frame that stays, with those below it, remains sound.
LEMMA BelowKept ==
    ASSUME IInv, LoadsSound, Stays, NEW t \in Thread, NEW k \in 1 .. Len(stack[t]),
           \A l \in 1 .. k : stack'[t][l] = stack[t][l],
           Loading(stack[t][k]) => fate'[stack[t][k].mod] = fate[stack[t][k].mod]
    PROVE  LoadSound(t, k)'
<1>0. TypeOK /\ FramesSound
  BY DEF IInv
<1>1. PICK f \in Frame : f = stack[t][k] /\ f = stack'[t][k]
  BY <1>0, StackLength
<1>2. LoadSound(t, k) /\ k \in Nat
  BY <1>0, StackLength DEF LoadsSound
<1>3. ASSUME Loading(f) PROVE files'[f.mod] = files[f.mod]
  BY <1>1, <1>3, LoadingMod DEF Stays
<1>4. ModuleSound(t, k)'
  <2>1. \A l \in 1 .. k - 1 : stack'[t][l] = stack[t][l]
    OBVIOUS
  <2> QED
    BY <1>1, <1>2, <2>1 DEF LoadSound, ModuleSound, Stays
<1>5. PassedSound(t, k)'
  <2>1. ASSUME Loading(f), NEW j \in PassedImports(f)', NEW imp,
               imp = Imports[files'[f.mod]][j], imp.must
        PROVE  Available(t, k, imp.dll)'
    <3>1. j \in PassedImports(f) /\ imp = Imports[files[f.mod]][j]
      BY <1>3, <2>1 DEF PassedImports
    <3> QED
      BY <1>1, <2>1, <3>1, PassedKept
  <2> QED
    BY <1>1, <2>1 DEF PassedSound
<1>6. WantedSound(t, k)'
  <2> SUFFICES ASSUME k > 1, stack'[t][k - 1].at = "import"
               PROVE  WantedSound(t, k)'
    BY DEF WantedSound
  <2>1. k - 1 \in 1 .. Len(stack[t]) /\ k - 1 \in 1 .. k
    BY <1>0, <1>2, StackLength
  <2>2. PICK below : below = stack[t][k - 1] /\ below = stack'[t][k - 1]
    BY <2>1
  <2>3. below.mod \in Opened
    BY <2>1, <2>2, LoadingMod DEF Loading
  <2>4. files'[below.mod] = files[below.mod]
    BY <2>3 DEF Stays
  <2> QED
    BY <1>1, <1>2, <1>3, <2>2, <2>4 DEF LoadSound, WantedSound
<1> QED
  BY <1>4, <1>5, <1>6 DEF LoadSound

\* So a step has to be looked at where it ends: at the new top of its thread.
LEMMA LoadsNext ==
    ASSUME IInv, TypeOK', LoadsSound, Stays, NEW t \in Thread, NEW n \in Nat,
           TopOnly(t, n), FatesBelow(t, n), n > 0 => LoadSound(t, n)'
    PROVE  LoadsSound'
<1> SUFFICES ASSUME NEW u \in Thread, NEW k \in (DOMAIN stack[u])'
             PROVE  LoadSound(u, k)'
  BY DEF LoadsSound
<1>1. k \in 1 .. Len(stack'[u]) /\ Len(stack'[u]) \in Nat
  BY LenProperties DEF TypeOK
<1>2. u = t
  BY <1>1, EmptySeq DEF TopOnly
<1>3. k \in 1 .. n
  BY <1>1, <1>2 DEF TopOnly
<1>4. CASE k = n
  BY <1>2, <1>3, <1>4
<1>5. CASE k < n
  <2>1. k \in 1 .. n - 1 /\ \A l \in 1 .. k : l \in 1 .. n - 1
    BY <1>3, <1>5
  <2>2. k \in 1 .. Len(stack[t]) /\ \A l \in 1 .. k : stack'[t][l] = stack[t][l]
    BY <2>1 DEF TopOnly
  <2>3. Loading(stack[t][k]) => fate'[stack[t][k].mod] = fate[stack[t][k].mod]
    BY <2>1 DEF FatesBelow
  <2> QED
    BY <1>2, <2>2, <2>3, BelowKept
<1> QED
  BY <1>3, <1>4, <1>5

\* A load in progress is on the stack of t after the step: it is the new top, or it was
\* below, or it was at the place of the new top, which goes on with it.
LEMMA LostNext ==
    ASSUME IInv, TypeOK', LoadsSound, NoLoadLost, pc[Main] # "over",
           NEW t \in Thread, NEW n \in Nat, TopOnly(t, n),
           \A h \in Listed' : fate'[h] \in {"new", "attached"} =>
              \/ n > 0 /\ Loading(stack'[t][n]) /\ stack'[t][n].mod = h
              \/ /\ h \in Listed /\ fate[h] \in {"new", "attached"}
                 /\ \A k \in 1 .. Len(stack[t]) :
                       k >= n /\ Loading(stack[t][k]) => stack[t][k].mod # h
    PROVE  NoLoadLost'
<1> SUFFICES ASSUME NEW h \in Listed', fate'[h] \in {"new", "attached"}
             PROVE  \E u \in Thread : \E k \in DOMAIN stack'[u] :
                       Loading(stack'[u][k]) /\ stack'[u][k].mod = h
  BY DEF NoLoadLost
<1>0. /\ stack'[t] \in Seq(Frame) /\ DOMAIN stack'[t] = 1 .. n
      /\ TypeOK
  BY LenProperties DEF TypeOK, TopOnly, IInv
<1>1. CASE n > 0 /\ Loading(stack'[t][n]) /\ stack'[t][n].mod = h
  <2>1. n \in DOMAIN stack'[t]
    BY <1>0, <1>1
  <2> QED
    BY <1>1, <2>1
<1>2. CASE /\ h \in Listed /\ fate[h] \in {"new", "attached"}
           /\ \A k \in 1 .. Len(stack[t]) :
                 k >= n /\ Loading(stack[t][k]) => stack[t][k].mod # h
  <2>0. PICK u \in Thread : \E k \in DOMAIN stack[u] :
                                Loading(stack[u][k]) /\ stack[u][k].mod = h
    BY <1>2 DEF NoLoadLost
  <2>1. PICK k \in DOMAIN stack[u] : Loading(stack[u][k]) /\ stack[u][k].mod = h
    BY <2>0
  <2>2. k \in 1 .. Len(stack[u]) /\ Len(stack[u]) \in Nat
    BY <1>0, <2>1, StackLength
  <2>3. u = t
    BY <2>2, EmptySeq DEF TopOnly
  <2>4. ~(k >= n)
    BY <1>2, <2>1, <2>2, <2>3
  <2>5. k \in 1 .. n - 1 /\ k \in DOMAIN stack'[t]
    BY <1>0, <2>2, <2>4
  <2>6. stack'[t][k] = stack[t][k]
    BY <2>5 DEF TopOnly
  <2> QED
    BY <2>1, <2>3, <2>5, <2>6
<1> QED
  BY <1>1, <1>2

\* Steps that touch neither the stacks nor what the frames work on.
LEMMA OrderSame ==
    ASSUME LoadOrder, UNCHANGED <<stack, Modules, files, mapped, indexed, fate>>,
           pc[Main] # "over"
    PROVE  LoadOrder'
<1>1. FatesSound'
  BY DEF LoadOrder, FatesSound, Opened, Listed
<1>2. ASSUME NEW t \in Thread, NEW k PROVE LoadSound(t, k)' <=> LoadSound(t, k)
  BY DEF LoadOrder, LoadSound, ModuleSound, WantedSound, PassedSound, PassedImports,
         Available, Listed
<1>3. LoadsSound'
  BY <1>2 DEF LoadOrder, LoadsSound
<1>4. NoLoadLost'
  BY DEF LoadOrder, NoLoadLost, Listed
<1> QED
  BY <1>1, <1>3, <1>4 DEF LoadOrder

\* The end of the process leaves no frames.
LEMMA OrderOver ==
    ASSUME LoadOrder, ProcessOver, UNCHANGED <<Modules, files, mapped, indexed, fate>>
    PROVE  LoadOrder'
<1>1. FatesSound'
  BY DEF LoadOrder, FatesSound, Opened, Listed
<1>2. \A t \in Thread : stack'[t] = <<>> /\ pc'[t] = "over"
  BY DEF ProcessOver
<1>3. LoadsSound'
  <2>1. \A t \in Thread : (DOMAIN stack[t])' = {}
    BY <1>2
  <2> QED
    BY <2>1 DEF LoadsSound
<1>4. NoLoadLost'
  BY <1>2, LoaderAssumption DEF NoLoadLost
<1> QED
  BY <1>1, <1>3, <1>4 DEF LoadOrder

-----------------------------------------------------------------------------
(* How the calls of the loader change the top                              *)

LEMMA PushTop ==
    ASSUME IInv, NEW t \in Thread, NEW frame \in Frame, Push(t, frame),
           NEW n, n = Len(stack[t]) + 1
    PROVE  n \in Nat \ {0} /\ TopOnly(t, n) /\ stack'[t][n] = frame
<1>1. TypeOK /\ LocksHeld /\ CanEnter(CSPeLdr, t)
  BY DEF IInv, Push
<1>2. /\ \A u \in Thread : u # t => stack'[u] = stack[u]
      /\ Len(stack'[t]) = Len(stack[t]) + 1
      /\ stack'[t][Len(stack[t]) + 1] = frame
      /\ \A k \in 1 .. Len(stack[t]) : stack'[t][k] = stack[t][k]
  BY <1>1, PushStep
<1>3. \A u \in Thread : u # t => stack[u] = <<>>
  BY <1>1, OneInside
<1>4. Len(stack[t]) \in Nat
  BY <1>1, StackLength
<1>5. n \in Nat \ {0} /\ n - 1 = Len(stack[t])
  BY <1>4
<1> QED
  BY <1>2, <1>3, <1>5 DEF TopOnly

LEMMA BecomeTop ==
    ASSUME IInv, NEW t \in Thread, NEW frame \in Frame, Become(t, frame), stack[t] # <<>>,
           NEW n, n = Len(stack[t])
    PROVE  n \in Nat \ {0} /\ TopOnly(t, n) /\ stack'[t][n] = frame
<1>1. TypeOK /\ LocksHeld
  BY DEF IInv
<1>2. /\ \A u \in Thread : u # t => stack'[u] = stack[u]
      /\ Len(stack'[t]) = Len(stack[t])
      /\ stack'[t][Len(stack[t])] = frame
      /\ \A k \in 1 .. Len(stack[t]) - 1 : stack'[t][k] = stack[t][k]
  BY <1>1, BecomeStep
<1>3. \A u \in Thread : u # t => stack[u] = <<>>
  BY <1>1, InsideAlone
<1>4. Len(stack[t]) \in Nat \ {0}
  BY <1>1, StackLength
<1> QED
  BY <1>2, <1>3, <1>4 DEF TopOnly

\* The frame g that a frame f becomes when the load it waits for returns.
Resumes(f, g, ok) ==
    \/ g = f
    \/ f.at = "import" /\ g.at = "fail" /\ g.mod = f.mod
    \/ /\ f.at = "import" /\ g.at = "import" /\ g.mod = f.mod /\ g.next = f.next + 1
       /\ ok \/ ~Imports[files[f.mod]][f.next].must

LEMMA ResumedTop ==
    ASSUME NEW s \in Seq(Frame), s # <<>>, NEW ok
    PROVE  Resumes(s[Len(s)], Resumed(s, ok)[Len(s)], ok)
<1>1. PICK f \in Frame : f = s[Len(s)] /\ f = Last(s)
  BY EmptySeq, ElementOfSeq DEF Last
<1>2. CASE f.at # "import"
  <2>1. Resumed(s, ok) = s
    BY <1>1, <1>2 DEF Resumed
  <2> QED
    BY <1>1, <2>1 DEF Resumes
<1>3. CASE f.at = "import"
  <2>1. f \in [at : {"import"}, mod : Handle, next : Nat]
    BY <1>3 DEF Frame
  <2>2. PICK on : on = [f EXCEPT !.next = @ + 1]
    OBVIOUS
  <2>3. PICK fail : fail = [at |-> "fail", mod |-> f.mod]
    OBVIOUS
  <2>4. /\ on \in Frame /\ on.at = "import" /\ on.mod = f.mod /\ on.next = f.next + 1
        /\ fail \in Frame /\ fail.at = "fail" /\ fail.mod = f.mod
    BY <2>1, <2>2, <2>3, FrameMade DEF Frame
  <2>5. \/ Resumed(s, ok) = Append(Front(s), fail)
        \/ /\ Resumed(s, ok) = Append(Front(s), on)
           /\ ok \/ ~Imports[files[f.mod]][f.next].must
    BY <1>1, <1>3, <2>2, <2>3 DEF Resumed
  <2>6. Append(Front(s), fail)[Len(s)] = fail /\ Append(Front(s), on)[Len(s)] = on
    BY <2>4, ReplaceTop
  <2>7. CASE Resumed(s, ok) = Append(Front(s), fail)
    BY <1>1, <1>3, <2>4, <2>6, <2>7 DEF Resumes
  <2>8. CASE /\ Resumed(s, ok) = Append(Front(s), on)
             /\ ok \/ ~Imports[files[f.mod]][f.next].must
    BY <1>1, <1>3, <2>4, <2>6, <2>8 DEF Resumes
  <2> QED
    BY <2>5, <2>7, <2>8
<1> QED
  BY <1>2, <1>3

LEMMA ReturnTop ==
    ASSUME IInv, NEW t \in Thread, NEW ok, Return(t, ok), stack[t] # <<>>,
           NEW n, n = Len(stack[t]) - 1
    PROVE  /\ n \in 0 .. Len(stack[t]) /\ TopOnly(t, n)
           /\ n > 0 => Resumes(stack[t][n], stack'[t][n], ok)
<1>1. TypeOK /\ LocksHeld /\ stack \in [Thread -> Seq(Frame)]
  BY DEF IInv, TypeOK
<1>2. /\ \A u \in Thread : u # t => stack'[u] = stack[u]
      /\ Len(stack'[t]) = Len(stack[t]) - 1
      /\ \A k \in 1 .. Len(stack[t]) - 2 : stack'[t][k] = stack[t][k]
  BY <1>1, ReturnStep
<1>3. \A u \in Thread : u # t => stack[u] = <<>>
  BY <1>1, InsideAlone
<1>4. Len(stack[t]) \in Nat \ {0} /\ n \in 0 .. Len(stack[t]) /\ n - 1 = Len(stack[t]) - 2
  BY <1>1, StackLength
<1>5. ASSUME n > 0 PROVE Resumes(stack[t][n], stack'[t][n], ok)
  <2>1. PICK s : s = Front(stack[t])
    OBVIOUS
  <2>2. s \in Seq(Frame) /\ Len(s) = n /\ s[n] = stack[t][n] /\ s # <<>>
    BY <1>1, <1>4, <1>5, <2>1, FrontIndex, EmptySeq
  <2>3. stack'[t] = Resumed(s, ok)
    BY <1>1, <2>1 DEF Return
  <2> QED
    BY <2>2, <2>3, ResumedTop
<1> QED
  BY <1>2, <1>3, <1>4, <1>5 DEF TopOnly

\* One of the frames above n works on h.
AboveAt(t, n, h) == \E k \in n + 1 .. Len(stack[t]) : stack[t][k].mod = h

LEMMA UnwindTop ==
    ASSUME IInv, NEW t \in Thread, NEW n \in 0 .. Len(stack[t]) - 1, Unwind(t, n),
           stack[t] # <<>>
    PROVE  /\ n \in 0 .. Len(stack[t]) /\ TopOnly(t, n)
           /\ n > 0 => Resumes(stack[t][n], stack'[t][n], FALSE)
           /\ \A h \in Handle :
                 /\ fate[h] \in {"new", "attached"} /\ AboveAt(t, n, h) => fate'[h] = "failed"
                 /\ fate'[h] = fate[h] \/ (fate[h] \in {"new", "attached"} /\ AboveAt(t, n, h))
<1>1. TypeOK /\ LocksHeld /\ stack \in [Thread -> Seq(Frame)]
  BY DEF IInv, TypeOK
<1>2. /\ \A u \in Thread : u # t => stack'[u] = stack[u]
      /\ Len(stack'[t]) = n
      /\ \A k \in 1 .. n - 1 : stack'[t][k] = stack[t][k]
  BY <1>1, UnwindStep
<1>3. \A u \in Thread : u # t => stack[u] = <<>>
  BY <1>1, InsideAlone
<1>4. PICK len \in Nat : len = Len(stack[t]) /\ \A k \in 1 .. len : stack[t][k] \in Frame
  BY <1>1, StackLength
<1>5. n \in Nat /\ n < len
  BY <1>4
<1>6. ASSUME n > 0 PROVE Resumes(stack[t][n], stack'[t][n], FALSE)
  <2>1. PICK s : s = SubSeq(stack[t], 1, n)
    OBVIOUS
  <2>2. /\ s \in Seq(Frame)
        /\ Len(s) = IF 1 <= n THEN n - 1 + 1 ELSE 0
        /\ \A j \in 1 .. n - 1 + 1 : s[j] = stack[t][1 + j - 1]
    BY <1>4, <1>5, <2>1, SubSeqProperties
  <2>3. Len(s) = n /\ n \in 1 .. n - 1 + 1 /\ 1 + n - 1 = n
    BY <1>5, <1>6, <2>2
  <2>4. s[n] = stack[t][n] /\ s # <<>>
    BY <1>6, <2>2, <2>3, EmptySeq
  <2>5. stack'[t] = Resumed(s, FALSE)
    BY <1>1, <2>1 DEF Unwind
  <2> QED
    BY <2>2, <2>3, <2>4, <2>5, ResumedTop
<1>7. ASSUME NEW h \in Handle
      PROVE  fate'[h] = IF /\ fate[h] \in {"new", "attached"}
                           /\ \E k \in n + 1 .. len : stack[t][k].mod = h
                        THEN "failed" ELSE fate[h]
  <2>1. PICK cut : cut = SubSeq(stack[t], n + 1, len)
    OBVIOUS
  <2>2. /\ cut \in Seq(Frame)
        /\ Len(cut) = IF n + 1 <= len THEN len - (n + 1) + 1 ELSE 0
        /\ \A j \in 1 .. len - (n + 1) + 1 : cut[j] = stack[t][n + 1 + j - 1]
    BY <1>4, <1>5, <2>1, SubSeqProperties
  <2>0. /\ n + 1 <= len /\ len - (n + 1) + 1 = len - n
        /\ \A j \in 1 .. len - n : n + 1 + j - 1 = n + j
    BY <1>5
  <2>3. Len(cut) = len - n /\ \A j \in 1 .. len - n : cut[j] = stack[t][n + j]
    BY <2>0, <2>2
  <2>4. \A f : f \in ToSet(cut) <=> \E j \in 1 .. len - n : stack[t][n + j] = f
    <3>1. \A f : f \in ToSet(cut) <=> \E j \in 1 .. Len(cut) : cut[j] = f
      BY <2>2, ToSetDef
    <3> QED
      BY <2>3, <3>1, Zenon
  <2>5. (\E f \in ToSet(cut) : f.mod = h) <=> \E k \in n + 1 .. len : stack[t][k].mod = h
    <3>1. ASSUME NEW k \in n + 1 .. len PROVE k - n \in 1 .. len - n /\ n + (k - n) = k
      BY <1>5
    <3>2. ASSUME NEW j \in 1 .. len - n PROVE n + j \in n + 1 .. len
      BY <1>5
    <3>3. ASSUME NEW k \in n + 1 .. len PROVE stack[t][k] \in ToSet(cut)
      BY <2>4, <3>1
    <3> QED
      BY <2>4, <3>2, <3>3
  <2>6. fate'[h] = IF fate[h] \in {"new", "attached"} /\ \E f \in ToSet(cut) : f.mod = h
                   THEN "failed" ELSE fate[h]
    BY <1>4, <2>1 DEF Unwind
  <2> QED
    BY <2>5, <2>6, Zenon
<1>8. ASSUME NEW h \in Handle
      PROVE  /\ fate[h] \in {"new", "attached"} /\ AboveAt(t, n, h) => fate'[h] = "failed"
             /\ fate'[h] = fate[h] \/ (fate[h] \in {"new", "attached"} /\ AboveAt(t, n, h))
  BY <1>4, <1>7 DEF AboveAt
<1>9. TopOnly(t, n) /\ n \in 0 .. Len(stack[t])
  BY <1>2, <1>3, <1>4, <1>5 DEF TopOnly
<1> QED
  BY <1>6, <1>8, <1>9, Zenon

\* A frame that goes on after the load it waited for, or gives up, is sound.
LEMMA ResumeSound ==
    ASSUME IInv, LoadsSound, Stays, NEW t \in Thread, NEW n \in 1 .. Len(stack[t]),
           TopOnly(t, n), FatesBelow(t, n + 1),
           NEW ok, Resumes(stack[t][n], stack'[t][n], ok),
           NEW dll, dll = Imports[files[stack[t][n].mod]][stack[t][n].next].dll,
           stack[t][n].at = "import" /\ ok => Available(t, n, dll)'
    PROVE  LoadSound(t, n)'
<1>0. TypeOK /\ n \in Nat /\ Listed \subseteq Opened
  BY StackLength DEF IInv, ListSound
<1>1. PICK f \in Frame : f = stack[t][n]
  BY <1>0, StackLength
<1>2. PICK g : g = stack'[t][n]
  OBVIOUS
<1>3. \A l \in 1 .. n - 1 : stack'[t][l] = stack[t][l]
  BY DEF TopOnly
<1>4. Loading(f) => fate'[f.mod] = fate[f.mod]
  <2>1. n \in 1 .. n + 1 - 1
    BY <1>0
  <2> QED
    BY <1>1, <2>1 DEF FatesBelow
<1>5. CASE g = f
  <2>1. ASSUME NEW l \in 1 .. n PROVE stack'[t][l] = stack[t][l]
    <3>1. l = n \/ l \in 1 .. n - 1
      BY <1>0
    <3> QED
      BY <1>1, <1>2, <1>3, <1>5, <3>1
  <2> QED
    BY <1>1, <1>4, <2>1, BelowKept
<1>6. CASE f.at = "import" /\ g.mod = f.mod /\ g.at \in {"fail", "import"} /\ g # f
  <2>1. /\ Loading(f) /\ LoadSound(t, n) /\ f.mod \in Listed /\ f.mod \in Handle
        /\ files'[f.mod] = files[f.mod] /\ fate'[f.mod] = "new" /\ f.next > 0
        /\ \A l \in 1 .. n - 1 : Loading(stack[t][l]) => stack[t][l].mod # f.mod
    <3>1. Loading(f)
      BY <1>6 DEF Loading
    <3>2. LoadSound(t, n) /\ f.mod \in Opened /\ f.mod \in Handle
      BY <1>1, <3>1, LoadingMod
    <3> QED
      BY <1>1, <1>4, <1>6, <3>1, <3>2 DEF LoadSound, ModuleSound, Stays
  <2>2. Loading(g) /\ g.at # "entry" /\ (g.at = "import" => g.next = f.next + 1)
    BY <1>1, <1>2, <1>6, <2>1, LoaderAssumption DEF Loading, Resumes, NoHandle, Handle
  <2>3. ModuleSound(t, n)'
    <3>1. g.mod \in Listed' /\ (g.at = "import" => g.next > 0)
      <4>1. f.at = "import" => f.next \in Nat
        BY FrameFields
      <4> QED
        BY <1>6, <2>1, <2>2, <4>1 DEF Stays
    <3>2. \A l \in 1 .. n - 1 : Loading(stack'[t][l]) => stack'[t][l].mod # g.mod
      BY <1>3, <1>6, <2>1
    <3> QED
      BY <1>2, <1>6, <2>1, <2>2, <3>1, <3>2 DEF ModuleSound
  <2>4. WantedSound(t, n)'
    <3> SUFFICES ASSUME n > 1, stack'[t][n - 1].at = "import"
                 PROVE  WantedSound(t, n)'
      BY DEF WantedSound
    <3>1. n - 1 \in 1 .. Len(stack[t]) /\ n - 1 \in 1 .. n - 1
      BY <1>0
    <3>2. PICK below : below = stack[t][n - 1] /\ below = stack'[t][n - 1]
      BY <1>3, <3>1
    <3>3. below.mod \in Opened
      BY <3>1, <3>2, LoadingMod DEF Loading
    <3>4. files'[below.mod] = files[below.mod]
      BY <3>3 DEF Stays
    <3> QED
      BY <1>1, <1>2, <1>6, <2>1, <3>2, <3>4 DEF LoadSound, WantedSound
  <2>5. PassedSound(t, n)'
    <3> SUFFICES ASSUME NEW j \in PassedImports(g)', NEW imp,
                        imp = Imports[files'[g.mod]][j], imp.must
                 PROVE  Available(t, n, imp.dll)'
      BY <1>2 DEF PassedSound
    <3>1. /\ g.at = "import" /\ imp = Imports[files[f.mod]][j]
          /\ j \in DOMAIN Imports[files[f.mod]] /\ j < f.next + 1
      BY <1>6, <2>1, <2>2 DEF PassedImports
    <3>2. j \in Nat /\ f.next \in Nat
      <4>1. f.mod \in Opened
        BY <1>0, <2>1
      <4> QED
        BY <1>0, <1>6, <3>1, <4>1, ImportFields, FrameFields
    <3>3. CASE j = f.next
      <4>1. ok
        BY <1>1, <1>2, <1>6, <3>1, <3>3 DEF Resumes
      <4>2. imp.dll = dll
        BY <1>1, <1>6, <3>1, <3>3, <4>1
      <4> QED
        BY <1>1, <1>6, <4>1, <4>2, <3>1, <3>3
    <3>4. CASE j < f.next
      <4>1. j \in PassedImports(f)
        BY <1>6, <3>1, <3>4 DEF PassedImports
      <4>2. ASSUME NEW l \in 1 .. n PROVE stack'[t][l].mod = stack[t][l].mod
        <5>1. l = n \/ l \in 1 .. n - 1
          BY <1>0
        <5> QED
          BY <1>1, <1>2, <1>3, <1>6, <5>1
      <4> QED
        BY <1>1, <2>1, <3>1, <4>1, <4>2, PassedKept
    <3> QED
      BY <3>1, <3>2, <3>3, <3>4
  <2> QED
    BY <2>3, <2>4, <2>5 DEF LoadSound
<1> QED
  BY <1>1, <1>2, <1>5, <1>6 DEF Resumes

\* A step that drops the frames above n, each of them with its load done or given up.
LEMMA OrderResume ==
    ASSUME IInv, TypeOK', LoadOrder, pc[Main] # "over", UNCHANGED <<Modules, files>>,
           indexed \subseteq indexed',
           NEW t \in Thread, NEW n \in 0 .. Len(stack[t]), TopOnly(t, n),
           NEW ok, n > 0 => Resumes(stack[t][n], stack'[t][n], ok),
           \A h \in Handle :
              \/ fate'[h] = fate[h] /\ (fate[h] \in {"new", "attached"} =>
                    \A k \in n + 1 .. Len(stack[t]) : Loading(stack[t][k]) => stack[t][k].mod # h)
              \/ /\ fate'[h] \in {"loaded", "failed"}
                 /\ \A k \in 1 .. n : Loading(stack[t][k]) => stack[t][k].mod # h,
           NEW dll, dll = Imports[files[stack[t][n].mod]][stack[t][n].next].dll,
           n > 0 /\ stack[t][n].at = "import" /\ ok => Available(t, n, dll)'
    PROVE  LoadsSound' /\ NoLoadLost'
<1>0. /\ TypeOK /\ n \in Nat /\ n + 1 - 1 = n /\ Len(stack[t]) \in Nat
      /\ Listed' = Listed /\ Listed \subseteq Opened
      /\ LoadsSound /\ NoLoadLost
  BY StackLength DEF IInv, ListSound, LoadOrder, Listed
<1>1. Listed \subseteq Handle
  BY <1>0, ToSetDef DEF TypeOK, Listed
<1>2. Stays
  BY <1>0, <1>1 DEF Stays
<1>3. ASSUME NEW k \in 1 .. n, Loading(stack[t][k])
      PROVE  fate'[stack[t][k].mod] = fate[stack[t][k].mod]
  <2>1. k \in 1 .. Len(stack[t])
    BY <1>0
  <2>2. stack[t][k].mod \in Handle
    BY <1>0, <1>3, <2>1, LoadingMod
  <2> QED
    BY <1>3, <2>2
<1>4. FatesBelow(t, n + 1) /\ FatesBelow(t, n)
  BY <1>0, <1>3 DEF FatesBelow
<1>5. n > 0 => LoadSound(t, n)'
  <2> SUFFICES ASSUME n > 0 PROVE LoadSound(t, n)'
    OBVIOUS
  <2>1. n \in 1 .. Len(stack[t])
    BY <1>0
  <2> QED
    BY <1>0, <1>2, <1>4, <2>1, ResumeSound
<1>6. LoadsSound'
  BY <1>0, <1>2, <1>4, <1>5, LoadsNext
<1>7. ASSUME NEW h \in Listed', fate'[h] \in {"new", "attached"}
      PROVE  \/ n > 0 /\ Loading(stack'[t][n]) /\ stack'[t][n].mod = h
             \/ /\ h \in Listed /\ fate[h] \in {"new", "attached"}
                /\ \A k \in 1 .. Len(stack[t]) :
                      k >= n /\ Loading(stack[t][k]) => stack[t][k].mod # h
  <2>1. /\ h \in Listed /\ fate[h] \in {"new", "attached"}
        /\ \A k \in n + 1 .. Len(stack[t]) : Loading(stack[t][k]) => stack[t][k].mod # h
    BY <1>0, <1>1, <1>7
  <2>2. ASSUME NEW k \in 1 .. Len(stack[t]), k >= n, Loading(stack[t][k]), stack[t][k].mod = h
        PROVE  n > 0 /\ Loading(stack'[t][n]) /\ stack'[t][n].mod = h
    <3>1. k = n
      <4>1. k \notin n + 1 .. Len(stack[t])
        BY <2>1, <2>2
      <4> QED
        BY <1>0, <2>2, <4>1
    <3>2. stack[t][n].mod \in Handle
      BY <1>0, <2>2, <3>1, LoadingMod
    <3> QED
      BY <2>2, <3>1, <3>2, LoaderAssumption DEF Resumes, Loading, NoHandle, Handle
  <2> QED
    BY <2>1, <2>2
<1>8. NoLoadLost'
  BY <1>0, <1>7, LostNext
<1> QED
  BY <1>6, <1>8

-----------------------------------------------------------------------------
(* Loading a module                                                        *)

\* A frame that is to open a dll: the one that the frame below wants, if it imports.
LEMMA OrderPushOpen ==
    ASSUME IInv, TypeOK', LoadOrder, pc[Main] # "over", NEW t \in Thread, NEW f \in File,
           Push(t, [at |-> "open", file |-> f]),
           UNCHANGED <<Modules, files, mapped, indexed, fate>>,
           NEW m, m = Len(stack[t]),
           m > 0 /\ stack[t][m].at = "import" =>
              f = Imports[files[stack[t][m].mod]][stack[t][m].next].dll
    PROVE  LoadOrder'
<1> DEFINE g == [at |-> "open", file |-> f]
<1>0. TypeOK /\ LoadsSound /\ NoLoadLost /\ FatesSound /\ m \in Nat
  BY StackLength DEF IInv, LoadOrder
<1>1. g \in Frame /\ g.at = "open" /\ g.file = f
  BY FrameMade
<1>2. PICK n : n = m + 1
  OBVIOUS
<1>3. n \in Nat \ {0} /\ n - 1 = m /\ TopOnly(t, n) /\ stack'[t][n] = g
  BY <1>0, <1>1, <1>2, PushTop
<1>4. Stays /\ FatesBelow(t, n) /\ Listed' = Listed
  BY DEF Stays, FatesBelow, Listed
<1> HIDE DEF g
<1>5. LoadSound(t, n)'
  <2>1. ~Loading(stack'[t][n])
    BY <1>1, <1>3 DEF Loading
  <2>2. ASSUME n > 1, stack'[t][n - 1].at = "import"
        PROVE  f = Imports[files'[stack'[t][n - 1].mod]][stack'[t][n - 1].next].dll
    <3>1. m \in 1 .. n - 1
      BY <1>0, <1>3, <2>2
    <3>2. stack'[t][m] = stack[t][m]
      BY <1>3, <3>1 DEF TopOnly
    <3>3. m > 0 /\ n - 1 = m
      BY <1>3, <2>2
    <3> QED
      BY <2>2, <3>2, <3>3
  <2> QED
    BY <1>1, <1>3, <2>1, <2>2 DEF LoadSound, ModuleSound, WantedSound, PassedSound
<1>6. LoadsSound'
  BY <1>0, <1>3, <1>4, <1>5, LoadsNext
<1>7. \A k \in 1 .. Len(stack[t]) : ~(k >= n)
  BY <1>0, <1>3
<1>8. NoLoadLost'
  BY <1>0, <1>3, <1>4, <1>7, LostNext
<1>9. FatesSound'
  BY <1>0 DEF FatesSound, Opened, Listed
<1> QED
  BY <1>6, <1>8, <1>9 DEF LoadOrder

\* The frame above an import wants the same dll when it goes on with the same module.
LEMMA WantedKept ==
    ASSUME IInv, LoadsSound, Stays, NEW t \in Thread, NEW n \in 1 .. Len(stack[t]),
           TopOnly(t, n), Loading(stack[t][n]), Loading(stack'[t][n]),
           stack'[t][n].mod = stack[t][n].mod
    PROVE  WantedSound(t, n)'
<1>0. TypeOK /\ Len(stack[t]) \in Nat /\ n \in Nat
  BY StackLength DEF IInv
<1>1. PICK f : f = stack[t][n]
  OBVIOUS
<1>2. PICK g : g = stack'[t][n]
  OBVIOUS
<1>3. LoadSound(t, n) /\ f.mod \in Opened /\ files'[f.mod] = files[f.mod]
  BY <1>1, LoadingMod DEF Stays
<1>4. g.at # "open"
  BY <1>2 DEF Loading
<1> SUFFICES ASSUME n > 1, stack'[t][n - 1].at = "import"
             PROVE  WantedSound(t, n)'
  BY DEF WantedSound
<1>5. n - 1 \in 1 .. Len(stack[t]) /\ n - 1 \in 1 .. n - 1
  BY <1>0
<1>6. PICK below : below = stack[t][n - 1] /\ below = stack'[t][n - 1]
  BY <1>5 DEF TopOnly
<1>7. below.mod \in Opened
  BY <1>5, <1>6, LoadingMod DEF Loading
<1>8. files'[below.mod] = files[below.mod]
  BY <1>7 DEF Stays
<1> QED
  BY <1>1, <1>2, <1>3, <1>4, <1>6, <1>8 DEF LoadSound, WantedSound

\* The frame of a load goes on to the next stage g.
LEMMA OrderStage ==
    ASSUME IInv, TypeOK', LoadOrder, pc[Main] # "over", NEW t \in Thread, NEW g \in Frame,
           stack[t] # <<>>, Loading(Top(t)), Become(t, g), Loading(g), g.mod = Top(t).mod,
           UNCHANGED <<Modules, files>>, indexed \subseteq indexed',
           \A h \in Handle : h # g.mod => fate'[h] = fate[h],
           g.at # "entry" => fate'[g.mod] = "new",
           g.at = "entry" => /\ Top(t).at = "import" /\ ~HasImport(t)
                             /\ fate'[g.mod] = "attached" /\ g.mod \in indexed',
           g.at = "import" => g.next = 1
    PROVE  LoadsSound' /\ NoLoadLost'
<1>0. /\ TypeOK /\ LoadsSound /\ NoLoadLost /\ FatesSound
      /\ Listed' = Listed /\ Listed \subseteq Opened
  BY DEF IInv, LoadOrder, Listed, ListSound
<1>1. PICK n : n = Len(stack[t])
  OBVIOUS
<1>2. n \in Nat \ {0} /\ TopOnly(t, n) /\ stack'[t][n] = g
  BY <1>1, BecomeTop
<1>3. n \in 1 .. Len(stack[t]) /\ \A k \in 1 .. n - 1 : k \in 1 .. Len(stack[t])
  BY <1>1, <1>2
<1>4. PICK f \in Frame : f = stack[t][n] /\ f = Top(t)
  BY <1>0, <1>1, StackLength
<1>5. LoadSound(t, n) /\ f.mod \in Listed /\ f.mod \in Opened /\ f.mod \in Handle
  BY <1>0, <1>3, <1>4, LoadingMod
<1>6. /\ f.at # "entry" => fate[f.mod] = "new"
      /\ f.at = "entry" => fate[f.mod] = "attached"
      /\ f.at = "import" => f.next > 0
      /\ \A l \in 1 .. n - 1 : Loading(stack[t][l]) => stack[t][l].mod # f.mod
  BY <1>4, <1>5 DEF LoadSound, ModuleSound
<1>7. Listed \subseteq Handle
  BY <1>0, ToSetDef DEF TypeOK, Listed
<1>8. Stays
  <2>1. fate[f.mod] \notin {"loaded", "failed"}
    BY <1>6
  <2> QED
    BY <1>0, <1>4, <1>7, <2>1 DEF Stays
<1>9. FatesBelow(t, n)
  <2> SUFFICES ASSUME NEW k \in 1 .. n - 1, Loading(stack[t][k])
               PROVE  fate'[stack[t][k].mod] = fate[stack[t][k].mod]
    BY DEF FatesBelow
  <2>1. stack[t][k].mod \in Handle /\ stack[t][k].mod # g.mod
    BY <1>0, <1>3, <1>4, <1>6, LoadingMod
  <2> QED
    BY <2>1
<1>10. ModuleSound(t, n)'
  <2>1. \A l \in 1 .. n - 1 : Loading(stack'[t][l]) => stack'[t][l].mod # g.mod
    BY <1>2, <1>4, <1>6 DEF TopOnly
  <2>2. g.mod \in Listed'
    BY <1>0, <1>4, <1>5
  <2> QED
    BY <1>2, <2>1, <2>2 DEF ModuleSound
<1>11. WantedSound(t, n)'
  BY <1>0, <1>2, <1>3, <1>4, <1>8, WantedKept
<1>12. PassedSound(t, n)'
  <2> SUFFICES ASSUME NEW j \in PassedImports(g)', NEW imp,
                      imp = Imports[files'[g.mod]][j], imp.must
               PROVE  Available(t, n, imp.dll)'
    BY <1>2 DEF PassedSound
  <2>1. imp = Imports[files[f.mod]][j] /\ j \in DOMAIN Imports[files[f.mod]]
    BY <1>4 DEF PassedImports
  <2>2. /\ Imports[files[f.mod]] \in Seq(Import)
        /\ DOMAIN Imports[files[f.mod]] = 1 .. Len(Imports[files[f.mod]])
        /\ Len(Imports[files[f.mod]]) \in Nat
    BY <1>0, <1>5, Handles, LoaderAssumption, LenProperties
  <2>3. g.at = "entry"
    BY <2>1, <2>2 DEF PassedImports
  <2>4. j \in PassedImports(f)
    <3>1. /\ f.at = "import" /\ f.next \notin DOMAIN Imports[files[f.mod]]
          /\ f.next \in Nat
      BY <1>4, <2>3, FrameFields DEF HasImport, At
    <3>2. j < f.next
      BY <1>6, <2>1, <2>2, <3>1
    <3> QED
      BY <2>1, <3>1, <3>2 DEF PassedImports
  <2>5. ASSUME NEW l \in 1 .. n PROVE stack'[t][l].mod = stack[t][l].mod
    <3>1. l = n \/ l \in 1 .. n - 1
      BY <1>2
    <3> QED
      BY <1>2, <1>4, <3>1 DEF TopOnly
  <2>6. /\ Loading(stack[t][n]) /\ j \in PassedImports(stack[t][n])
        /\ imp = Imports[files[stack[t][n].mod]][j]
    BY <1>4, <2>1, <2>4
  <2>7. Available(t, n, imp.dll)'
    BY <1>0, <1>3, <1>8, <2>5, <2>6, PassedKept
  <2> QED
    BY <2>7
<1>13. LoadsSound'
  <2>1. LoadSound(t, n)'
    BY <1>10, <1>11, <1>12 DEF LoadSound
  <2> QED
    BY <1>0, <1>2, <1>8, <1>9, <2>1, LoadsNext
<1>14. ASSUME NEW h \in Listed', fate'[h] \in {"new", "attached"}, h # g.mod
       PROVE  /\ h \in Listed /\ fate[h] \in {"new", "attached"}
              /\ \A k \in 1 .. Len(stack[t]) :
                    k >= n /\ Loading(stack[t][k]) => stack[t][k].mod # h
  <2>1. \A k \in 1 .. Len(stack[t]) : k >= n => k = n
    BY <1>1, <1>2
  <2> QED
    BY <1>0, <1>4, <1>7, <1>14, <2>1
<1>15. NoLoadLost'
  BY <1>0, <1>2, <1>14, LostNext
<1> QED
  BY <1>13, <1>15

\* The module that the top frame works on.
LEMMA TopModule ==
    ASSUME IInv, LoadsSound, NEW t \in Thread, stack[t] # <<>>
    PROVE  /\ Len(stack[t]) \in 1 .. Len(stack[t])
           /\ Top(t) = stack[t][Len(stack[t])]
           /\ Top(t) \in Frame
           /\ Top(t).at \notin {"open", "fail"} => Top(t).mod \in Opened /\ Top(t).mod \in Handle
           /\ Loading(Top(t)) => /\ LoadSound(t, Len(stack[t]))
                                 /\ Top(t).mod \in Listed
                                 /\ Top(t).mod \in Opened
                                 /\ Top(t).mod \in Handle
                                 /\ Top(t).at # "entry" => fate[Top(t).mod] = "new"
                                 /\ Top(t).at = "entry" => Top(t).mod \in indexed
<1>1. TypeOK /\ FramesSound
  BY DEF IInv
<1>2. /\ Len(stack[t]) \in Nat \ {0} /\ Top(t) = stack[t][Len(stack[t])] /\ Top(t) \in Frame
      /\ Top(t).at \notin {"open", "fail"} => Top(t).mod \in Opened
  BY <1>1, TopFrame
<1>3. Len(stack[t]) \in 1 .. Len(stack[t])
  BY <1>2
<1>4. Loading(Top(t)) => /\ LoadSound(t, Len(stack[t]))
                         /\ Top(t).mod \in Listed
                         /\ Top(t).mod \in Opened
                         /\ Top(t).mod \in Handle
  BY <1>2, <1>3, LoadingMod
<1>5. Loading(Top(t)) => /\ Top(t).at # "entry" => fate[Top(t).mod] = "new"
                         /\ Top(t).at = "entry" => Top(t).mod \in indexed
  BY <1>2, <1>4 DEF LoadSound, ModuleSound
<1>6. Top(t).at \notin {"open", "fail"} => Top(t).mod \in Opened /\ Top(t).mod \in Handle
  BY <1>2, FrameFields
<1> QED
  BY <1>2, <1>3, <1>4, <1>5, <1>6

\* An emulated caller does not wait for an import.
LEMMA OrderLoadLibrary ==
    ASSUME IInv, TypeOK', LoadOrder, pc[Main] # "over", NEW t \in Thread, NEW f \in File,
           LoadLibrary(t, f)
    PROVE  LoadOrder'
<1>1. PICK m : m = Len(stack[t])
  OBVIOUS
<1>2. ~(m > 0 /\ stack[t][m].at = "import")
  <2>1. TypeOK
    BY DEF IInv
  <2>2. CASE stack[t] = <<>>
    BY <1>1, <2>2, EmptySeq
  <2>3. CASE stack[t] # <<>>
    <3>1. Top(t).at = "entry" /\ Top(t) = stack[t][m]
      BY <1>1, <2>1, <2>3, StackLength DEF LoadLibrary, Emulated, At
    <3> QED
      BY <3>1
  <2> QED
    BY <2>2, <2>3
<1> QED
  BY <1>1, <1>2, OrderPushOpen DEF LoadLibrary

LEMMA OrderImportLoads ==
    ASSUME IInv, TypeOK', LoadOrder, pc[Main] # "over", NEW t \in Thread, ImportLoads(t)
    PROVE  LoadOrder'
<1>0. TypeOK /\ FramesSound
  BY DEF IInv
<1>1. PICK m : m = Len(stack[t])
  OBVIOUS
<1>2. PICK f \in File : f = Wanted(t) /\ Push(t, [at |-> "open", file |-> f])
  BY <1>0, WantedFile DEF ImportLoads
<1>3. Top(t) = stack[t][m]
  BY <1>0, <1>1, StackLength DEF ImportLoads, HasImport, At
<1>4. f = Imports[files[stack[t][m].mod]][stack[t][m].next].dll
  BY <1>2, <1>3 DEF Wanted
<1> QED
  BY <1>1, <1>2, <1>4, OrderPushOpen DEF ImportLoads

\* A new handle: nothing has become of it yet, and no frame below knows it.
LEMMA OrderOpen ==
    ASSUME IInv, TypeOK', LoadOrder, pc[Main] # "over", NEW t \in Thread, Open(t)
    PROVE  LoadOrder'
<1>0. /\ TypeOK /\ FramesSound /\ LoadsSound /\ NoLoadLost /\ FatesSound
      /\ Listed \subseteq Opened /\ stack[t] # <<>> /\ Top(t).at = "open"
  BY DEF IInv, LoadOrder, ListSound, Open, At
<1>1. PICK h \in Handle : /\ h \notin Opened /\ Opened' = Opened \cup {h}
                          /\ files'[h] = Resolved[Top(t).file]
                          /\ \A x \in Opened : files'[x] = files[x]
                          /\ Listed' = Listed \cup {h}
                          /\ Become(t, [at |-> "map", mod |-> h])
  BY <1>0, OpenStep
<1>2. UNCHANGED <<mapped, indexed, fate>>
  BY DEF Open
<1>3. PICK n : n = Len(stack[t])
  OBVIOUS
<1>4. PICK g \in Frame : g = [at |-> "map", mod |-> h]
  BY FrameMade
<1>5. g.at = "map" /\ g.mod = h /\ Loading(g)
  BY <1>4 DEF Loading
<1>6. n \in Nat \ {0} /\ TopOnly(t, n) /\ stack'[t][n] = g
  BY <1>0, <1>1, <1>3, <1>4, BecomeTop
<1>7. n \in 1 .. Len(stack[t]) /\ \A k \in 1 .. n - 1 : k \in 1 .. Len(stack[t])
  BY <1>3, <1>6
<1>8. Stays /\ FatesBelow(t, n)
  BY <1>1, <1>2 DEF Stays, FatesBelow
<1>9. fate'[h] = "new" /\ h \in Listed' /\ h \notin mapped
  BY <1>0, <1>1, <1>2 DEF FatesSound
<1>10. ModuleSound(t, n)'
  <2>1. ASSUME NEW l \in 1 .. n - 1, Loading(stack'[t][l]) PROVE stack'[t][l].mod # h
    <3>1. stack'[t][l] = stack[t][l]
      BY <1>6 DEF TopOnly
    <3>2. stack[t][l].mod \in Opened
      BY <1>0, <1>7, <2>1, <3>1, LoadingMod
    <3> QED
      BY <1>1, <3>1, <3>2
  <2> QED
    BY <1>5, <1>6, <1>9, <2>1 DEF ModuleSound
<1>11. WantedSound(t, n)'
  <2> SUFFICES ASSUME n > 1, stack'[t][n - 1].at = "import"
               PROVE  WantedSound(t, n)'
    BY DEF WantedSound
  <2>1. n - 1 \in 1 .. Len(stack[t]) /\ n - 1 \in 1 .. n - 1
    BY <1>6, <1>7
  <2>2. PICK below : below = stack[t][n - 1] /\ below = stack'[t][n - 1]
    BY <1>6, <2>1 DEF TopOnly
  <2>3. below.mod \in Opened
    BY <1>0, <2>1, <2>2, LoadingMod DEF Loading
  <2>4. files'[below.mod] = files[below.mod]
    BY <1>1, <2>3
  <2>5. LoadSound(t, n) /\ Top(t) = stack[t][n]
    BY <1>0, <1>3, <1>7, StackLength DEF LoadsSound
  <2>6. files'[h] = Resolved[Imports[files'[below.mod]][below.next].dll]
    BY <1>0, <1>1, <2>2, <2>4, <2>5 DEF LoadSound, WantedSound
  <2> QED
    BY <1>5, <1>6, <2>2, <2>6 DEF WantedSound
<1>12. PassedSound(t, n)'
  BY <1>5, <1>6 DEF PassedSound, PassedImports
<1>13. LoadsSound'
  <2>1. LoadSound(t, n)'
    BY <1>10, <1>11, <1>12 DEF LoadSound
  <2> QED
    BY <1>0, <1>6, <1>8, <2>1, LoadsNext
<1>14. ASSUME NEW x \in Listed', fate'[x] \in {"new", "attached"}, x # h
       PROVE  /\ x \in Listed /\ fate[x] \in {"new", "attached"}
              /\ \A k \in 1 .. Len(stack[t]) :
                    k >= n /\ Loading(stack[t][k]) => stack[t][k].mod # x
  <2>1. \A k \in 1 .. Len(stack[t]) : k >= n => k = n
    BY <1>3, <1>6
  <2>2. ~Loading(stack[t][n])
    BY <1>0, <1>3, StackLength DEF Loading
  <2> QED
    BY <1>1, <1>2, <1>14, <2>1, <2>2
<1>15. NoLoadLost'
  BY <1>0, <1>5, <1>6, <1>14, LostNext
<1>16. FatesSound'
  BY <1>0, <1>1, <1>2 DEF FatesSound
<1> QED
  BY <1>13, <1>15, <1>16 DEF LoadOrder

\* A new top that is not of a load, where none was.
LEMMA OrderIdle ==
    ASSUME IInv, TypeOK', LoadOrder, pc[Main] # "over", NEW t \in Thread,
           NEW n \in Nat \ {0}, TopOnly(t, n),
           stack'[t][n].at # "open", ~Loading(stack'[t][n]),
           UNCHANGED <<Modules, files, fate>>, indexed \subseteq indexed',
           \A k \in 1 .. Len(stack[t]) : k >= n => ~Loading(stack[t][k])
    PROVE  LoadsSound' /\ NoLoadLost'
<1>0. LoadsSound /\ NoLoadLost /\ Listed' = Listed
  BY DEF LoadOrder, Listed
<1>1. Stays /\ FatesBelow(t, n)
  BY <1>0 DEF Stays, FatesBelow
<1>2. LoadSound(t, n)'
  BY DEF LoadSound, ModuleSound, WantedSound, PassedSound
<1> QED
  BY <1>0, <1>1, <1>2, LoadsNext, LostNext

LEMMA OrderOpenFails ==
    ASSUME IInv, TypeOK', LoadOrder, pc[Main] # "over", NEW t \in Thread, OpenFails(t)
    PROVE  LoadOrder'
<1>0. /\ TypeOK /\ stack[t] # <<>> /\ Top(t).at = "open"
      /\ UNCHANGED <<Modules, files, mapped, indexed, fate>>
  BY DEF IInv, OpenFails, At
<1>1. PICK n : n = Len(stack[t])
  OBVIOUS
<1>2. PICK g \in Frame : g = [at |-> "fail", mod |-> NoHandle]
  BY FrameMade
<1>3. n \in Nat \ {0} /\ TopOnly(t, n) /\ stack'[t][n] = g
  BY <1>0, <1>1, <1>2, BecomeTop DEF OpenFails
<1>4. g.at # "open" /\ ~Loading(g)
  BY <1>2 DEF Loading
<1>5. Top(t) = stack[t][n] /\ \A k \in 1 .. Len(stack[t]) : k >= n => k = n
  BY <1>0, <1>1, <1>3, StackLength
<1>6. ~Loading(stack[t][n])
  BY <1>0, <1>5 DEF Loading
<1>7. LoadsSound' /\ NoLoadLost'
  BY <1>0, <1>3, <1>4, <1>5, <1>6, OrderIdle
<1>8. FatesSound'
  BY <1>0 DEF LoadOrder, FatesSound, Opened, Listed
<1> QED
  BY <1>7, <1>8 DEF LoadOrder

LEMMA OrderMap ==
    ASSUME IInv, TypeOK', LoadOrder, pc[Main] # "over", NEW t \in Thread,
           Map(t) \/ MapFails(t)
    PROVE  LoadOrder'
<1>0. /\ LoadsSound /\ FatesSound /\ stack[t] # <<>> /\ Top(t).at = "map" /\ Loading(Top(t))
      /\ UNCHANGED <<Modules, files, indexed, fate>>
      /\ mapped' \in {mapped, mapped \cup {Top(t).mod}}
  BY DEF LoadOrder, Map, MapFails, At, Loading
<1>1. PICK h \in Handle : h = Top(t).mod
  BY <1>0, TopModule
<1>2. fate[h] = "new" /\ h \in Opened
  BY <1>0, <1>1, TopModule
<1>3. PICK g \in Frame : /\ g = [at |-> "import", mod |-> h, next |-> 1]
                            \/ g = [at |-> "fail", mod |-> h]
                         /\ Become(t, g)
  BY <1>1, FrameMade DEF Map, MapFails
<1>4. /\ g.mod = h /\ Loading(g) /\ g.at # "entry"
      /\ g.at = "import" => g.next = 1
  BY <1>3, LoaderAssumption DEF Loading, NoHandle, Handle
<1>5. LoadsSound' /\ NoLoadLost'
  BY <1>0, <1>1, <1>2, <1>3, <1>4, OrderStage
<1>6. FatesSound'
  BY <1>0, <1>1, <1>2 DEF FatesSound, Opened, Listed
<1> QED
  BY <1>5, <1>6 DEF LoadOrder

\* DllMain is called: every import is behind.
LEMMA OrderAttach ==
    ASSUME IInv, TypeOK', LoadOrder, pc[Main] # "over", NEW t \in Thread, Attach(t)
    PROVE  LoadOrder'
<1>0. /\ TypeOK /\ LoadsSound /\ FatesSound /\ stack[t] # <<>> /\ Top(t).at = "import"
      /\ Loading(Top(t)) /\ UNCHANGED <<Modules, files, mapped>>
  BY DEF IInv, LoadOrder, Attach, At, Loading
<1>1. PICK h \in Handle : h = Top(t).mod
  BY <1>0, TopModule
<1>2. fate[h] = "new" /\ h \in Opened /\ h \in Listed
  BY <1>0, <1>1, TopModule
<1>3. /\ indexed' = indexed \cup {h}
      /\ Become(t, EntryFrame(h, "process_attach"))
      /\ fate' = [fate EXCEPT ![h] = "attached"]
      /\ ~HasImport(t)
  BY <1>1 DEF Attach, Notified
<1>4. PICK g \in Frame : g = EntryFrame(h, "process_attach")
  BY FrameMade DEF AttachReason
<1>5. g.at = "entry" /\ g.mod = h /\ Loading(g)
  BY <1>4 DEF EntryFrame, Loading
<1>6. fate'[h] = "attached" /\ \A x \in Handle : x # h => fate'[x] = fate[x]
  BY <1>0, <1>3 DEF TypeOK
<1>7. LoadsSound' /\ NoLoadLost'
  BY <1>0, <1>1, <1>3, <1>4, <1>5, <1>6, OrderStage
<1>8. FatesSound'
  <2>1. Opened' = Opened /\ Listed' = Listed /\ Listed \subseteq Handle /\ mapped \subseteq Handle
    BY <1>0, ToSetDef DEF Opened, Listed, TypeOK
  <2> QED
    BY <1>0, <1>2, <1>3, <1>6, <2>1 DEF FatesSound
<1> QED
  BY <1>7, <1>8 DEF LoadOrder

\* What an import finds by name has been loaded, has failed, or has a frame further down.
LEMMA OrderImportFound ==
    ASSUME IInv, TypeOK', LoadOrder, pc[Main] # "over", NEW t \in Thread, ImportFound(t)
    PROVE  LoadOrder'
<1>0. /\ TypeOK /\ LoadsSound /\ FatesSound /\ NoLoadLost /\ LocksHeld
      /\ stack[t] # <<>> /\ Top(t).at = "import"
      /\ UNCHANGED <<Modules, files, mapped, indexed, fate>> /\ Listed' = Listed
  BY DEF IInv, LoadOrder, ImportFound, HasImport, At, Listed
<1>1. PICK n : n = Len(stack[t])
  OBVIOUS
<1>2. n \in Nat \ {0} /\ Top(t) = stack[t][n]
  BY <1>0, <1>1, StackLength
<1>3. stack[t] \in Seq(Frame) /\ stack'[t] = Resumed(stack[t], TRUE)
      /\ \A u \in Thread : u # t => stack'[u] = stack[u]
  BY <1>0 DEF ImportFound, TypeOK
<1>4. Resumes(stack[t][n], stack'[t][n], TRUE)
  BY <1>0, <1>1, <1>3, ResumedTop
<1>5. TopOnly(t, n)
  <2>1. /\ Len(stack'[t]) = n
        /\ \A k \in 1 .. n - 1 : stack'[t][k] = stack[t][k] /\ k \in 1 .. Len(stack[t])
    <3>1. /\ Len(Resumed(stack[t], TRUE)) = n
          /\ \A k \in 1 .. n - 1 : Resumed(stack[t], TRUE)[k] = stack[t][k]
      BY <1>1, <1>3, ResumedStack
    <3>2. \A k \in 1 .. n - 1 : k \in 1 .. Len(stack[t])
      BY <1>1, <1>2
    <3> QED
      BY <1>3, <3>1, <3>2, Zenon
  <2>2. \A u \in Thread : u # t => stack[u] = <<>>
    BY <1>0, InsideAlone
  <2> QED
    BY <1>3, <2>1, <2>2 DEF TopOnly
<1>6. PICK dll : dll = Imports[files[stack[t][n].mod]][stack[t][n].next].dll
  OBVIOUS
<1>7. Available(t, n, dll)
  <2>1. PICK h \in Listed : files[h] = dll
    BY <1>2, <1>6 DEF ImportFound, Wanted, Found
  <2>2. h \in Handle
    BY <1>0, ToSetDef DEF TypeOK, Listed
  <2>3. CASE fate[h] \in {"loaded", "failed"}
    BY <2>1, <2>3 DEF Available
  <2>4. CASE fate[h] \in {"new", "attached"}
    <3>1. PICK u \in Thread : \E k \in DOMAIN stack[u] :
                                  Loading(stack[u][k]) /\ stack[u][k].mod = h
      BY <1>0, <2>4 DEF NoLoadLost
    <3>2. PICK k \in DOMAIN stack[u] : stack[u][k].mod = h
      BY <3>1
    <3>3. k \in 1 .. Len(stack[u]) /\ Len(stack[u]) \in Nat
      BY <1>0, <3>2, StackLength
    <3>4. u = t
      BY <1>5, <3>3, EmptySeq DEF TopOnly
    <3> QED
      BY <1>1, <2>1, <3>2, <3>3, <3>4 DEF Available
  <2> QED
    BY <1>0, <2>1, <2>2, <2>3, <2>4 DEF FatesSound, TypeOK, Fate
<1>8. Available(t, n, dll)'
  <2>1. Stays
    BY <1>0 DEF Stays
  <2>2. ASSUME NEW l \in 1 .. n PROVE stack'[t][l].mod = stack[t][l].mod
    <3>1. l = n \/ l \in 1 .. n - 1
      BY <1>2
    <3> QED
      BY <1>4, <1>5, <3>1 DEF TopOnly, Resumes
  <2> QED
    BY <1>2, <1>7, <2>1, <2>2, AvailableKept
<1>9. n \in 0 .. Len(stack[t]) /\ \A k : k \notin n + 1 .. Len(stack[t])
  BY <1>1, <1>2
<1>10. LoadsSound' /\ NoLoadLost'
  BY <1>0, <1>4, <1>5, <1>6, <1>8, <1>9, OrderResume
<1>11. FatesSound'
  BY <1>0 DEF FatesSound, Opened
<1> QED
  BY <1>10, <1>11 DEF LoadOrder

\* The load fails, and the one that waits for it may fail too.
LEMMA OrderFailLoad ==
    ASSUME IInv, TypeOK', LoadOrder, pc[Main] # "over", NEW t \in Thread, FailLoad(t)
    PROVE  LoadOrder'
<1>0. /\ TypeOK /\ LoadsSound /\ FatesSound /\ stack[t] # <<>> /\ Top(t).at = "fail"
      /\ Return(t, FALSE)
      /\ UNCHANGED <<Modules, files, mapped, indexed>>
      /\ Listed' = Listed /\ Opened' = Opened /\ Listed \subseteq Handle
  BY ToSetDef DEF IInv, TypeOK, LoadOrder, FailLoad, At, Listed, Opened
<1>1. PICK n : n = Len(stack[t]) - 1
  OBVIOUS
<1>2. /\ n \in 0 .. Len(stack[t]) /\ TopOnly(t, n)
      /\ n > 0 => Resumes(stack[t][n], stack'[t][n], FALSE)
  BY <1>0, <1>1, ReturnTop
<1>3. \A h \in Handle : fate'[h] = IF h = Top(t).mod THEN "failed" ELSE fate[h]
  BY DEF FailLoad
<1>4. /\ Len(stack[t]) \in Nat \ {0} /\ Top(t) = stack[t][Len(stack[t])]
      /\ n \in Nat /\ n + 1 = Len(stack[t])
  BY <1>0, <1>1, StackLength
<1>5. Top(t).mod \in Handle =>
         /\ Loading(Top(t)) /\ Top(t).mod \in Opened
         /\ \A k \in 1 .. n : Loading(stack[t][k]) => stack[t][k].mod # Top(t).mod
  <2> SUFFICES ASSUME Top(t).mod \in Handle
               PROVE  /\ Loading(Top(t)) /\ Top(t).mod \in Opened
                      /\ \A k \in 1 .. n : Loading(stack[t][k]) => stack[t][k].mod # Top(t).mod
    OBVIOUS
  <2>1. Loading(Top(t))
    BY <1>0, LoaderAssumption DEF Loading, NoHandle, Handle
  <2>2. LoadSound(t, Len(stack[t])) /\ Top(t).mod \in Opened
    BY <1>0, <2>1, TopModule
  <2> QED
    BY <1>1, <1>4, <2>1, <2>2 DEF LoadSound, ModuleSound
<1>6. ASSUME NEW h \in Handle
      PROVE  \/ fate'[h] = fate[h] /\ (fate[h] \in {"new", "attached"} =>
                   \A k \in n + 1 .. Len(stack[t]) : Loading(stack[t][k]) => stack[t][k].mod # h)
             \/ /\ fate'[h] \in {"loaded", "failed"}
                /\ \A k \in 1 .. n : Loading(stack[t][k]) => stack[t][k].mod # h
  <2>1. \A k \in n + 1 .. Len(stack[t]) : stack[t][k] = Top(t)
    BY <1>4
  <2> QED
    BY <1>3, <1>5, <2>1
<1>7. LoadsSound' /\ NoLoadLost'
  <2>1. PICK dll : dll = Imports[files[stack[t][n].mod]][stack[t][n].next].dll
    OBVIOUS
  <2>2. PICK ok : ok = FALSE
    OBVIOUS
  <2>3. n > 0 => Resumes(stack[t][n], stack'[t][n], ok)
    BY <1>2, <2>2
  <2> QED
    BY <1>0, <1>2, <1>6, <2>1, <2>2, <2>3, OrderResume
<1>8. FatesSound'
  <2>1. mapped \subseteq Handle
    BY <1>0 DEF TypeOK
  <2> QED
    BY <1>0, <1>3, <1>5, <2>1 DEF FatesSound
<1> QED
  BY <1>7, <1>8 DEF LoadOrder

\* DllMain has returned: the import that the frame below waits for is there.
LEMMA OrderAttachReturns ==
    ASSUME IInv, TypeOK', LoadOrder, pc[Main] # "over", NEW t \in Thread, AttachReturns(t)
    PROVE  LoadOrder'
<1>0. /\ TypeOK /\ LoadsSound /\ FatesSound /\ stack[t] # <<>> /\ Loading(Top(t))
      /\ Top(t).at = "entry" /\ Return(t, TRUE)
      /\ UNCHANGED <<Modules, files, mapped, indexed>>
      /\ Listed' = Listed /\ Opened' = Opened /\ Listed \subseteq Handle
  BY ToSetDef DEF IInv, TypeOK, LoadOrder, AttachReturns, At, Listed, Opened, Loading
<1>1. PICK n : n = Len(stack[t]) - 1
  OBVIOUS
<1>2. /\ n \in 0 .. Len(stack[t]) /\ TopOnly(t, n)
      /\ n > 0 => Resumes(stack[t][n], stack'[t][n], TRUE)
  BY <1>0, <1>1, ReturnTop
<1>3. PICK h \in Handle : h = Top(t).mod
  BY <1>0, TopModule
<1>4. /\ LoadSound(t, Len(stack[t])) /\ h \in Listed /\ h \in Opened /\ h \in indexed
  BY <1>0, <1>3, TopModule
<1>5. fate'[h] = "loaded" /\ \A x \in Handle : x # h => fate'[x] = fate[x]
  BY <1>0, <1>3 DEF AttachReturns, TypeOK
<1>6. /\ Len(stack[t]) \in Nat \ {0} /\ Top(t) = stack[t][Len(stack[t])]
      /\ n \in Nat /\ n + 1 = Len(stack[t])
  BY <1>0, <1>1, StackLength
<1>7. ASSUME NEW x \in Handle
      PROVE  \/ fate'[x] = fate[x] /\ (fate[x] \in {"new", "attached"} =>
                   \A k \in n + 1 .. Len(stack[t]) : Loading(stack[t][k]) => stack[t][k].mod # x)
             \/ /\ fate'[x] \in {"loaded", "failed"}
                /\ \A k \in 1 .. n : Loading(stack[t][k]) => stack[t][k].mod # x
  <2>1. \A k \in n + 1 .. Len(stack[t]) : stack[t][k] = Top(t)
    BY <1>6
  <2>2. \A k \in 1 .. n : Loading(stack[t][k]) => stack[t][k].mod # h
    BY <1>0, <1>1, <1>3, <1>4, <1>6 DEF LoadSound, ModuleSound
  <2> QED
    BY <1>3, <1>5, <2>1, <2>2
<1>8. PICK dll : dll = Imports[files[stack[t][n].mod]][stack[t][n].next].dll
  OBVIOUS
<1>9. ASSUME n > 0, stack[t][n].at = "import" PROVE Available(t, n, dll)'
  <2>1. files[h] = Resolved[dll]
    <3>1. Len(stack[t]) > 1 /\ Len(stack[t]) - 1 = n
      BY <1>6, <1>9
    <3> QED
      BY <1>0, <1>3, <1>4, <1>6, <1>8, <1>9, <3>1 DEF LoadSound, WantedSound
  <2>2. h \in Listed' /\ files'[h] = Resolved[dll] /\ fate'[h] = "loaded"
    BY <1>0, <1>4, <1>5, <2>1
  <2> QED
    BY <2>2 DEF Available
<1>10. LoadsSound' /\ NoLoadLost'
  <2>1. PICK ok : ok = TRUE
    OBVIOUS
  <2>2. n > 0 => Resumes(stack[t][n], stack'[t][n], ok)
    BY <1>2, <2>1
  <2> QED
    BY <1>0, <1>2, <1>7, <1>8, <1>9, <2>1, <2>2, OrderResume
<1>11. FatesSound'
  <2>1. mapped \subseteq Handle
    BY <1>0 DEF TypeOK
  <2> QED
    BY <1>0, <1>4, <1>5, <2>1 DEF FatesSound
<1> QED
  BY <1>10, <1>11 DEF LoadOrder

-----------------------------------------------------------------------------
(* Notifications, faults and the close of all modules                      *)

\* The last frame returns, and it was not of a load.
LEMMA OrderEmptied ==
    ASSUME IInv, TypeOK', LoadOrder, pc[Main] # "over", NEW t \in Thread,
           stack[t] # <<>>, Len(stack[t]) = 1, ~Loading(Top(t)), Return(t, TRUE),
           UNCHANGED <<Modules, files, mapped, indexed, fate>>
    PROVE  LoadOrder'
<1>0. TypeOK /\ LoadsSound /\ NoLoadLost
  BY DEF IInv, LoadOrder
<1>1. PICK n \in Nat : n = 0 /\ n = Len(stack[t]) - 1
  OBVIOUS
<1>2. TopOnly(t, n)
  BY <1>1, ReturnTop
<1>3. Stays /\ FatesBelow(t, n) /\ Listed' = Listed
  BY DEF Stays, FatesBelow, Listed
<1>4. \A k \in 1 .. Len(stack[t]) : ~Loading(stack[t][k])
  BY <1>0, StackLength
<1>5. LoadsSound' /\ NoLoadLost'
  BY <1>0, <1>1, <1>2, <1>3, <1>4, LoadsNext, LostNext
<1>6. FatesSound'
  BY DEF LoadOrder, FatesSound, Opened, Listed
<1> QED
  BY <1>5, <1>6 DEF LoadOrder

LEMMA OrderNotifyThread ==
    ASSUME IInv, TypeOK', LoadOrder, pc[Main] # "over", NEW t \in Thread, NotifyThread(t)
    PROVE  LoadOrder'
<1>0. /\ TypeOK /\ stack[t] = <<>> /\ Len(stack[t]) = 0
      /\ UNCHANGED <<Modules, files, mapped, fate>> /\ indexed \subseteq indexed'
  BY EmptySeq DEF IInv, NotifyThread, InNotify, Notified
<1>1. PICK g \in Frame : g = EntryFrame(noted[t], Reason(t)) /\ Push(t, g)
  BY <1>0, FrameMade DEF NotifyThread, TypeOK, Reason, AttachReason, DetachReason
<1>2. g.at = "entry" /\ ~Loading(g)
  BY <1>1 DEF EntryFrame, Loading, Reason
<1>3. PICK n : n = Len(stack[t]) + 1
  OBVIOUS
<1>4. n \in Nat \ {0} /\ TopOnly(t, n) /\ stack'[t][n] = g
  BY <1>1, <1>3, PushTop
<1>5. LoadsSound' /\ NoLoadLost'
  BY <1>0, <1>2, <1>4, OrderIdle
<1>6. FatesSound'
  BY <1>0 DEF LoadOrder, FatesSound, Opened, Listed
<1> QED
  BY <1>5, <1>6 DEF LoadOrder

LEMMA OrderThreadEntryReturns ==
    ASSUME IInv, TypeOK', LoadOrder, pc[Main] # "over", NEW t \in Thread,
           ThreadEntryReturns(t)
    PROVE  LoadOrder'
<1>0. /\ TypeOK /\ FramesSound /\ stack[t] # <<>> /\ Return(t, TRUE)
      /\ Top(t).at = "entry" /\ Top(t).reason \in {"thread_attach", "thread_detach"}
      /\ UNCHANGED <<Modules, files, mapped, indexed, fate>>
  BY DEF IInv, ThreadEntryReturns, At
<1>1. Len(stack[t]) = 1 /\ ~Loading(Top(t))
  BY <1>0, TopFrame DEF FrameSound, Loading, OfThread
<1> QED
  BY <1>0, <1>1, OrderEmptied

\* The frames that a fault drops above a catcher are of loads, except at the bottom.
LEMMA CutLoading ==
    ASSUME IInv, NEW t \in Thread, At(t, "entry"),
           NEW k \in 1 .. Len(stack[t])
    PROVE  /\ stack[t][k].mod \in Opened \cup {NoHandle}
           /\ k > 1 => Loading(stack[t][k])
<1>0. TypeOK /\ FramesSound /\ stack[t] # <<>> /\ Top(t).at = "entry"
  BY DEF IInv, At
<1>1. /\ FrameSound(t, k) /\ stack[t][k] \in Frame
      /\ k < Len(stack[t]) => stack[t][k].at \in {"entry", "import"}
  BY <1>0, BelowTop
<1>2. stack[t][k].at \in {"entry", "import"}
  <2>1. CASE k < Len(stack[t])
    BY <1>1, <2>1
  <2>2. CASE ~(k < Len(stack[t]))
    <3>1. k = Len(stack[t])
      BY <1>0, <2>2, StackLength
    <3> QED
      BY <1>0, <3>1, StackLength
  <2> QED
    BY <2>1, <2>2
<1>3. stack[t][k].at = "entry" => stack[t][k].reason \in AttachReason \cup DetachReason
  BY <1>1, FrameFields
<1> QED
  BY <1>1, <1>2, <1>3 DEF FrameSound, Loading, OfThread, AttachReason, DetachReason

LEMMA OrderUnwind ==
    ASSUME IInv, TypeOK', LoadOrder, pc[Main] # "over", NEW t \in Thread, At(t, "entry"),
           NEW n \in 0 .. Len(stack[t]) - 1, Unwind(t, n),
           UNCHANGED <<Modules, files, mapped, indexed>>
    PROVE  LoadOrder'
<1>0. /\ TypeOK /\ LoadsSound /\ FatesSound /\ stack[t] # <<>>
      /\ Listed' = Listed /\ Opened' = Opened /\ Listed \subseteq Handle
      /\ mapped \subseteq Handle
  BY ToSetDef DEF IInv, TypeOK, LoadOrder, At, Listed, Opened
<1>1. PICK len \in Nat : len = Len(stack[t])
  BY <1>0, StackLength
<1>2. /\ n \in 0 .. Len(stack[t]) /\ TopOnly(t, n)
      /\ n > 0 => Resumes(stack[t][n], stack'[t][n], FALSE)
  BY <1>0, UnwindTop
<1>3. \A h \in Handle :
         /\ fate[h] \in {"new", "attached"} /\ AboveAt(t, n, h) => fate'[h] = "failed"
         /\ fate'[h] = fate[h] \/ (fate[h] \in {"new", "attached"} /\ AboveAt(t, n, h))
  BY <1>0, UnwindTop
<1>4. n \in Nat /\ n < len /\ \A k \in n + 1 .. len : k \in 1 .. len /\ (n > 0 => k > 1)
  BY <1>1
<1>5. ASSUME NEW h \in Handle
      PROVE  \/ fate'[h] = fate[h] /\ (fate[h] \in {"new", "attached"} =>
                   \A k \in n + 1 .. Len(stack[t]) : Loading(stack[t][k]) => stack[t][k].mod # h)
             \/ /\ fate'[h] \in {"loaded", "failed"}
                /\ \A k \in 1 .. n : Loading(stack[t][k]) => stack[t][k].mod # h
  <2>1. CASE ~(\E k \in n + 1 .. Len(stack[t]) : stack[t][k].mod = h)
    BY <1>3, <2>1 DEF AboveAt
  <2>2. CASE fate[h] \notin {"new", "attached"}
    BY <1>3, <2>2
  <2>3. ASSUME fate[h] \in {"new", "attached"},
               NEW k \in n + 1 .. Len(stack[t]), stack[t][k].mod = h
        PROVE  /\ fate'[h] = "failed"
               /\ \A l \in 1 .. n : Loading(stack[t][l]) => stack[t][l].mod # h
    <3>1. fate'[h] = "failed"
      BY <1>3, <2>3 DEF AboveAt
    <3>2. ASSUME NEW l \in 1 .. n, Loading(stack[t][l]) PROVE stack[t][l].mod # h
      <4>1. k \in 1 .. Len(stack[t]) /\ k > 1 /\ l \in 1 .. k - 1
        BY <1>1, <1>4, <2>3, <3>2
      <4>2. Loading(stack[t][k])
        BY <4>1, CutLoading
      <4>3. LoadSound(t, k)
        BY <1>0, <4>1, <4>2, LoadingMod
      <4> QED
        BY <2>3, <3>2, <4>1, <4>2, <4>3 DEF LoadSound, ModuleSound
    <3> QED
      BY <3>1, <3>2
  <2> QED
    BY <2>1, <2>2, <2>3
<1>6. LoadsSound' /\ NoLoadLost'
  <2>1. PICK dll : dll = Imports[files[stack[t][n].mod]][stack[t][n].next].dll
    OBVIOUS
  <2>2. PICK ok : ok = FALSE
    OBVIOUS
  <2>3. n > 0 => Resumes(stack[t][n], stack'[t][n], ok)
    BY <1>2, <2>2
  <2> QED
    BY <1>0, <1>2, <1>5, <2>1, <2>2, <2>3, OrderResume
<1>7. ASSUME NEW h \in Handle \ Opened PROVE fate'[h] = fate[h]
  <2>1. ASSUME NEW k \in n + 1 .. Len(stack[t]) PROVE stack[t][k].mod # h
    <3>1. k \in 1 .. Len(stack[t])
      BY <1>1, <1>4
    <3>2. stack[t][k].mod \in Opened \cup {NoHandle}
      BY <3>1, CutLoading
    <3> QED
      BY <3>2, LoaderAssumption DEF NoHandle, Handle
  <2> QED
    BY <1>3, <2>1 DEF AboveAt
<1>8. FatesSound'
  BY <1>0, <1>3, <1>7 DEF FatesSound
<1> QED
  BY <1>6, <1>8 DEF LoadOrder

LEMMA OrderFaults ==
    ASSUME IInv, TypeOK', LoadOrder, pc[Main] # "over", NEW t \in Thread,
           \/ FaultCaught(t) \/ FaultEndsThread(t)
           \/ FaultEndsProgram(t) \/ FaultEndsProcess(t)
    PROVE  LoadOrder'
<1>1. TypeOK /\ At(t, "entry") /\ stack[t] # <<>> /\ UNCHANGED <<Modules, files, mapped, indexed>>
  BY DEF IInv, FaultCaught, FaultEndsThread, FaultEndsProgram, FaultEndsProcess, Faults, At
<1>2. CASE FaultEndsProcess(t)
  BY <1>2, OrderOver DEF FaultEndsProcess
<1>3. CASE FaultCaught(t) \/ FaultEndsThread(t) \/ FaultEndsProgram(t)
  <2>1. \E n \in 0 .. Len(stack[t]) - 1 : Unwind(t, n)
    BY <1>1, <1>3, CatcherIndex DEF FaultCaught, FaultEndsThread, FaultEndsProgram
  <2> QED
    BY <1>1, <2>1, OrderUnwind
<1> QED
  BY <1>2, <1>3

\* The module that is closed leaves the list when no load is in progress.
LEMMA OrderCloseModule ==
    ASSUME IInv, TypeOK', LoadOrder, pc[Main] # "over", CloseModule
    PROVE  LoadOrder'
<1>0. /\ TypeOK /\ ListSound /\ LoadsSound /\ NoLoadLost /\ FatesSound
      /\ Main \in Thread /\ Listed \subseteq Opened /\ Listed \subseteq Handle
      /\ stack[Main] = <<>> /\ Len(stack[Main]) = 0
      /\ UNCHANGED <<files, mapped, pc>> /\ Opened' = Opened
  BY LoaderAssumption, EmptySeq, ToSetDef
     DEF IInv, TypeOK, LoadOrder, ListSound, CloseModule, Listed, Opened
<1>1. PICK h \in Handle : h = Last(Modules)
  BY ListTypes DEF IInv, CloseModule
<1>2. h \in Listed /\ Listed = Listed' \cup {h} /\ h \notin Listed'
  BY <1>0, <1>1, CloseStep
<1>3. PICK g \in Frame :
         /\ Push(Main, g) /\ g.at # "open" /\ ~Loading(g)
         /\ \/ /\ g.at = "entry" /\ indexed' = indexed \cup {h}
               /\ fate' = [fate EXCEPT ![h] = "detached"]
            \/ UNCHANGED <<indexed, fate>>
  <2>1. CASE /\ Push(Main, EntryFrame(h, "process_detach"))
             /\ Notified(Main, h, "process_detach")
             /\ fate' = [fate EXCEPT ![h] = "detached"]
    <3>1. PICK g : g = EntryFrame(h, "process_detach")
      OBVIOUS
    <3>2. g \in Frame /\ g.at = "entry" /\ ~Loading(g)
      BY <3>1, FrameMade DEF DetachReason, EntryFrame, Loading
    <3> QED
      BY <2>1, <3>1, <3>2 DEF Notified
  <2>2. CASE Push(Main, [at |-> "free", mod |-> h]) /\ UNCHANGED <<indexed, told, fate>>
    <3>1. PICK g : g = [at |-> "free", mod |-> h]
      OBVIOUS
    <3>2. g \in Frame /\ g.at = "free" /\ ~Loading(g)
      BY <3>1, FrameMade DEF Loading
    <3> QED
      BY <2>2, <3>1, <3>2
  <2> QED
    BY <1>1, <2>1, <2>2 DEF CloseModule
<1>4. /\ indexed \subseteq indexed'
      /\ \A x \in Handle : x # h => fate'[x] = fate[x]
      /\ fate'[h] = fate[h] \/ (fate'[h] = "detached" /\ h \in indexed')
  BY <1>0, <1>3 DEF TypeOK
<1>5. PICK n : n = Len(stack[Main]) + 1
  OBVIOUS
<1>6. n = 1 /\ TopOnly(Main, n) /\ stack'[Main][n] = g
  BY <1>0, <1>3, <1>5, PushTop
<1>7. LoadsSound'
  <2> SUFFICES ASSUME NEW u \in Thread, NEW k \in (DOMAIN stack[u])'
               PROVE  LoadSound(u, k)'
    BY DEF LoadsSound
  <2>1. k \in 1 .. Len(stack'[u])
    BY LenProperties DEF TypeOK
  <2>2. u = Main
    BY <1>6, <2>1, EmptySeq DEF TopOnly
  <2>3. k = 1
    BY <1>6, <2>1, <2>2 DEF TopOnly
  <2> QED
    BY <1>3, <1>6, <2>2, <2>3 DEF LoadSound, ModuleSound, WantedSound, PassedSound
<1>8. \A x \in Listed : fate[x] \notin {"new", "attached"}
  <2> SUFFICES ASSUME NEW x \in Listed, fate[x] \in {"new", "attached"} PROVE FALSE
    OBVIOUS
  <2>1. PICK u \in Thread : \E k \in DOMAIN stack[u] : Loading(stack[u][k])
    BY <1>0 DEF NoLoadLost
  <2>2. stack[u] = <<>>
    BY <1>0, <1>6 DEF TopOnly
  <2> QED
    BY <2>1, <2>2, EmptySeq
<1>10. NoLoadLost'
  BY <1>0, <1>2, <1>4, <1>8 DEF NoLoadLost
<1>9. FatesSound'
  <2>1. mapped \subseteq Handle
    BY <1>0 DEF TypeOK
  <2> QED
    BY <1>0, <1>2, <1>4, <1>8, <2>1 DEF FatesSound
<1> QED
  BY <1>7, <1>9, <1>10 DEF LoadOrder

LEMMA OrderCloses ==
    ASSUME IInv, TypeOK', LoadOrder, pc[Main] # "over", Closes \/ DetachReturns
    PROVE  LoadOrder'
<1>0. TypeOK /\ FramesSound /\ Main \in Thread
  BY LoaderAssumption DEF IInv
<1>1. CASE CloseModule
  BY <1>1, OrderCloseModule
<1>2. CASE FreeModule
  <2>1. Len(stack[Main]) = 1 /\ stack[Main] # <<>> /\ Return(Main, TRUE)
    BY <1>0, <1>2, FreeStep
  <2>2. ~Loading(Top(Main)) /\ UNCHANGED <<Modules, files, mapped, indexed, fate>>
    BY <1>2 DEF FreeModule, At, Loading
  <2> QED
    BY <1>0, <2>1, <2>2, OrderEmptied
<1>3. CASE CloseDone \/ ProcessEnds
  BY <1>3, OrderSame, OrderOver DEF CloseDone, ProcessEnds
<1>4. CASE DetachReturns
  <2>1. /\ stack[Main] # <<>> /\ Top(Main).at = "entry" /\ Top(Main).reason = "process_detach"
        /\ Become(Main, [at |-> "free", mod |-> Top(Main).mod])
        /\ UNCHANGED <<Modules, files, mapped, indexed, fate>>
    BY <1>4 DEF DetachReturns, At
  <2>2. PICK g \in Frame : g = [at |-> "free", mod |-> Top(Main).mod]
    BY <1>0, <2>1, TopFrame, FrameFields, FrameMade
  <2>3. g.at # "open" /\ ~Loading(g)
    BY <2>2 DEF Loading
  <2>4. PICK n : n = Len(stack[Main])
    OBVIOUS
  <2>5. n \in Nat \ {0} /\ TopOnly(Main, n) /\ stack'[Main][n] = g
    BY <1>0, <2>1, <2>2, <2>4, BecomeTop
  <2>6. ASSUME NEW k \in 1 .. Len(stack[Main]), k >= n PROVE ~Loading(stack[Main][k])
    <3>1. k = n
      BY <2>4, <2>5, <2>6
    <3>2. stack[Main][k] = Top(Main)
      BY <1>0, <2>1, <2>4, <3>1, StackLength
    <3> QED
      BY <2>1, <3>2 DEF Loading
  <2>7. LoadsSound' /\ NoLoadLost'
    BY <1>0, <2>1, <2>3, <2>5, <2>6, OrderIdle
  <2>8. FatesSound'
    BY <2>1 DEF LoadOrder, FatesSound, Opened, Listed
  <2> QED
    BY <2>7, <2>8 DEF LoadOrder
<1> QED
  BY <1>1, <1>2, <1>3, <1>4 DEF Closes

-----------------------------------------------------------------------------
(* The order of loads is an invariant                                      *)

LEMMA OrderInit == Init => LoadOrder
<1> SUFFICES ASSUME Init PROVE LoadOrder
  OBVIOUS
<1>1. Listed = {} /\ mapped = {} /\ \A h \in Handle : fate[h] = "new"
  BY ToSetEmpty DEF Init, Listed
<1>2. \A t \in Thread : stack[t] = <<>>
  BY DEF Init
<1>3. ASSUME NEW t \in Thread PROVE DOMAIN stack[t] = {}
  <2>1. stack[t] = <<>>
    BY <1>2
  <2> QED
    BY <2>1
<1>4. Opened = {}
  BY DEF Init, Opened
<1> QED
  BY <1>1, <1>3, <1>4 DEF LoadOrder, FatesSound, LoadsSound, NoLoadLost

LEMMA OrderNext == IInv /\ LoadOrder /\ [Next]_vars => LoadOrder'
<1> SUFFICES ASSUME IInv, LoadOrder, [Next]_vars PROVE LoadOrder'
  OBVIOUS
<1>0. TypeOK /\ WholeProcess /\ TypeOK'
  BY InvariantNext DEF IInv
<1>1. CASE pc[Main] = "over"
  <2>1. UNCHANGED vars
    BY <1>0, <1>1, NothingAfter
  <2>2. FatesSound'
    BY <2>1 DEF vars, LoadOrder, FatesSound, Listed, Opened
  <2>3. ASSUME NEW t \in Thread, NEW k PROVE LoadSound(t, k)' <=> LoadSound(t, k)
    BY <2>1 DEF vars, LoadSound, ModuleSound, WantedSound, PassedSound, PassedImports,
                Available, Listed
  <2>4. LoadsSound'
    BY <2>1, <2>3 DEF vars, LoadOrder, LoadsSound
  <2>5. NoLoadLost'
    BY <2>1 DEF vars, LoadOrder, NoLoadLost, Listed
  <2> QED
    BY <2>2, <2>4, <2>5 DEF LoadOrder
<1>2. CASE pc[Main] # "over"
  <2> USE <1>0, <1>2
  <2>1. CASE UNCHANGED vars
    BY <2>1, OrderSame DEF vars
  <2>2. ASSUME NEW t \in Thread, Loads(t) PROVE LoadOrder'
    BY <2>2, OrderOpen, OrderOpenFails, OrderMap, OrderImportFound, OrderImportLoads,
       OrderFailLoad, OrderAttach
    DEF Loads
  <2>3. ASSUME NEW t \in Thread, TakesLock(t) PROVE LoadOrder'
    BY <2>3, OrderNotifyThread, OrderSame, OrderOver DEF TakesLock, NotifySkips, NotifyFreed
  <2>4. ASSUME NEW t \in Thread, Returns(t) PROVE LoadOrder'
    BY <2>4, OrderAttachReturns, OrderThreadEntryReturns, OrderCloses DEF Returns
  <2>5. ASSUME NEW t \in Thread, Calls(t) PROVE LoadOrder'
    BY <2>5, OrderLoadLibrary, OrderSame, OrderOver, OrderFaults
    DEF Calls, StartThread, EndThread, ExitProcess
  <2>6. CASE CloseAllModules \/ ProgramReturns
    BY <2>6, OrderSame DEF CloseAllModules, ProgramReturns
  <2> QED
    BY <2>1, <2>2, <2>3, <2>4, <2>5, <2>6, OrderCloses DEF Next
<1> QED
  BY <1>1, <1>2

\* The parts of LoadOrder hold in every state of every behaviour.
THEOREM LoadsInOrder == Spec => []LoadOrder
<1>1. Init => LoadOrder
  BY OrderInit
<1>2. IInv /\ LoadOrder /\ [Next]_vars => LoadOrder'
  BY OrderNext
<1> QED
  BY <1>1, <1>2, LoaderInvariant, PTL DEF Spec

\* A module's DllMain runs after that of every dll it needs has returned, except for what
\* is being loaded further down the same stack (cyclic imports) or failed before
\* (PeLdrProcessModuleImports, PeLdrNotifyNewThread).
THEOREM ImportsAttachFirst == Spec => []AttachAfterImports
<1>1. IInv /\ LoadOrder => AttachAfterImports
  <2> SUFFICES ASSUME IInv, LoadOrder, NEW t \in Thread, NEW k \in DOMAIN stack[t],
                      stack[t][k].at = "entry", stack[t][k].reason = "process_attach",
                      NEW imp \in ToSet(Imports[files[stack[t][k].mod]]), imp.must
               PROVE  Available(t, k, imp.dll)
    BY DEF AttachAfterImports
  <2>1. Loading(stack[t][k]) /\ LoadSound(t, k)
    BY DEF LoadOrder, LoadsSound, Loading
  <2>2. PICK j \in DOMAIN Imports[files[stack[t][k].mod]] :
           imp = Imports[files[stack[t][k].mod]][j]
    BY DEF ToSet
  <2>3. j \in PassedImports(stack[t][k])
    BY <2>2 DEF PassedImports
  <2> QED
    BY <2>1, <2>2, <2>3 DEF LoadSound, PassedSound
<1> QED
  BY <1>1, LoadsInOrder, LoaderInvariant, PTL

-----------------------------------------------------------------------------
(* Detach calls are paired with attach calls                               *)

\* The steps that call the loader, or an entry point.
Pushes == \/ \E t \in Thread : ImportLoads(t) \/ NotifyThread(t) \/ \E f \in File : LoadLibrary(t, f)
          \/ CloseModule

\* The others leave no stack longer.
LEMMA NotLonger ==
    ASSUME IInv, Next, ~Pushes, NEW t \in Thread
    PROVE  Len(stack'[t]) <= Len(stack[t])
<1>0. TypeOK /\ FramesSound /\ Main \in Thread /\ Len(stack[t]) \in Nat
  BY StackLength, LoaderAssumption DEF IInv
<1>1. ASSUME stack'[t] = stack[t] PROVE Len(stack'[t]) <= Len(stack[t])
  <2>1. Len(stack'[t]) = Len(stack[t])
    BY <1>1
  <2> QED
    BY <2>1, <1>0
<1>2. ASSUME NEW u \in Thread, NEW frame \in Frame, Become(u, frame), stack[u] # <<>>
      PROVE  Len(stack'[t]) <= Len(stack[t])
  <2>1. Len(stack'[u]) = Len(stack[u]) /\ \A v \in Thread : v # u => stack'[v] = stack[v]
    BY <1>0, <1>2, BecomeStep
  <2>2. CASE t = u
    BY <2>1, <2>2, <1>0
  <2>3. CASE t # u
    BY <2>1, <2>3, <1>1
  <2> QED
    BY <2>2, <2>3
<1>3. ASSUME NEW u \in Thread, NEW ok, Return(u, ok), stack[u] # <<>>
      PROVE  Len(stack'[t]) <= Len(stack[t])
  <2>1. Len(stack'[u]) = Len(stack[u]) - 1 /\ \A v \in Thread : v # u => stack'[v] = stack[v]
    BY <1>0, <1>3, ReturnStep
  <2>2. CASE t = u
    BY <2>1, <2>2, <1>0
  <2>3. CASE t # u
    BY <2>1, <2>3, <1>1
  <2> QED
    BY <2>2, <2>3
<1>4. ASSUME ProcessOver PROVE Len(stack'[t]) <= Len(stack[t])
  <2>1. stack'[t] = <<>>
    BY <1>4 DEF ProcessOver
  <2>2. Len(stack'[t]) = 0
    BY <2>1, EmptySeq
  <2> QED
    BY <2>2, <1>0
<1>5. ASSUME NEW u \in Thread, NEW k \in 0 .. Len(stack[u]) - 1, Unwind(u, k)
      PROVE  Len(stack'[t]) <= Len(stack[t])
  <2>1. Len(stack'[u]) = k /\ \A v \in Thread : v # u => stack'[v] = stack[v]
    BY <1>0, <1>5, UnwindStep
  <2>2. CASE t = u
    BY <2>1, <2>2, <1>0
  <2>3. CASE t # u
    BY <2>1, <2>3, <1>1
  <2> QED
    BY <2>2, <2>3
<1>6. ASSUME NEW u \in Thread, stack[u] # <<>>
      PROVE  /\ Top(u) \in Frame
             /\ Top(u).at \notin {"open", "fail"} => Top(u).mod \in Handle
  <2>1. Top(u) \in Frame
    BY <1>0, <1>6, TopFrame
  <2> QED
    BY <2>1, FrameFields
<1>7. ASSUME NEW u \in Thread, Loads(u) PROVE Len(stack'[t]) <= Len(stack[t])
  <2>1. CASE Open(u)
    <3>1. stack[u] # <<>>
      BY <2>1 DEF Open, At
    <3>2. PICK h \in Handle : Become(u, [at |-> "map", mod |-> h])
      BY <2>1 DEF Open
    <3> QED
      BY <3>1, <3>2, <1>2, FrameMade
  <2>2. CASE OpenFails(u)
    BY <2>2, <1>2, FrameMade DEF OpenFails, At
  <2>3. CASE Map(u)
    <3>1. stack[u] # <<>> /\ Top(u).mod \in Handle
      BY <2>3, <1>6 DEF Map, At
    <3>2. Become(u, [at |-> "import", mod |-> Top(u).mod, next |-> 1])
      BY <2>3 DEF Map
    <3> QED
      BY <3>1, <3>2, <1>2, FrameMade
  <2>4. CASE MapFails(u)
    <3>1. stack[u] # <<>> /\ Top(u).mod \in Handle
      BY <2>4, <1>6 DEF MapFails, At
    <3>2. Become(u, [at |-> "fail", mod |-> Top(u).mod])
      BY <2>4 DEF MapFails
    <3> QED
      BY <3>1, <3>2, <1>2, FrameMade
  <2>5. CASE ImportFound(u)
    <3>1. stack' = [stack EXCEPT ![u] = Resumed(@, TRUE)]
      BY <2>5 DEF ImportFound
    <3>2. CASE t = u
      <4>1. stack[t] \in Seq(Frame) /\ stack'[t] = Resumed(stack[t], TRUE)
        BY <3>1, <3>2, <1>0, StackLength DEF TypeOK
      <4>2. Len(Resumed(stack[t], TRUE)) = Len(stack[t])
        BY <4>1, ResumedStack
      <4>3. Len(stack'[t]) = Len(stack[t])
        BY <4>1, <4>2, Zenon
      <4> QED
        BY <4>3, <1>0
    <3>3. CASE t # u
      BY <3>1, <3>3, <1>0, <1>1 DEF TypeOK
    <3> QED
      BY <3>2, <3>3
  <2>6. CASE FailLoad(u)
    BY <2>6, <1>3 DEF FailLoad, At
  <2>7. CASE Attach(u)
    <3>1. stack[u] # <<>> /\ Top(u).mod \in Handle
      BY <2>7, <1>6 DEF Attach, At
    <3>2. Become(u, EntryFrame(Top(u).mod, "process_attach"))
      BY <2>7 DEF Attach
    <3> QED
      BY <3>1, <3>2, <1>2, FrameMade DEF AttachReason
  <2>8. ~ImportLoads(u)
    BY DEF Pushes
  <2> QED
    BY <1>7, <2>1, <2>2, <2>3, <2>4, <2>5, <2>6, <2>7, <2>8 DEF Loads
<1>8. ASSUME NEW u \in Thread, TakesLock(u) \/ Returns(u)
      PROVE  Len(stack'[t]) <= Len(stack[t])
  <2>1. CASE NotifySkips(u)
    BY <2>1, <1>1 DEF NotifySkips
  <2>2. CASE NotifyFreed(u)
    BY <2>2, <1>1, <1>4 DEF NotifyFreed
  <2>3. CASE AttachReturns(u)
    BY <2>3, <1>3 DEF AttachReturns, At
  <2>4. CASE ThreadEntryReturns(u)
    BY <2>4, <1>3 DEF ThreadEntryReturns, At
  <2>5. CASE DetachReturns
    <3>1. stack[Main] # <<>> /\ Top(Main).mod \in Handle
      BY <2>5, <1>0, <1>6 DEF DetachReturns, At
    <3>2. Become(Main, [at |-> "free", mod |-> Top(Main).mod])
      BY <2>5 DEF DetachReturns
    <3> QED
      BY <3>1, <3>2, <1>0, <1>2, FrameMade
  <2>6. ~NotifyThread(u)
    BY DEF Pushes
  <2> QED
    BY <1>8, <2>1, <2>2, <2>3, <2>4, <2>5, <2>6 DEF TakesLock, Returns
<1>9. ASSUME NEW u \in Thread, Calls(u) PROVE Len(stack'[t]) <= Len(stack[t])
  <2>1. CASE StartThread(u) \/ EndThread(u)
    BY <2>1, <1>1 DEF StartThread, EndThread
  <2>2. CASE ExitProcess(u) \/ FaultEndsProcess(u)
    BY <2>2, <1>4 DEF ExitProcess, FaultEndsProcess
  <2>3. CASE FaultCaught(u)
    <3>1. stack[u] # <<>>
      BY <2>3 DEF FaultCaught, Faults, At
    <3>2. \E k \in 0 .. Len(stack[u]) - 1 : Unwind(u, k)
      BY <2>3, <3>1, <1>0, CatcherIndex DEF FaultCaught
    <3> QED
      BY <3>2, <1>5
  <2>4. CASE FaultEndsThread(u) \/ FaultEndsProgram(u)
    <3>1. stack[u] # <<>> /\ Unwind(u, 0)
      BY <2>4 DEF FaultEndsThread, FaultEndsProgram, Faults, At
    <3> QED
      BY <3>1, <1>0, <1>5, CatcherIndex
  <2>5. ~\E f \in File : LoadLibrary(u, f)
    BY DEF Pushes
  <2> QED
    BY <1>9, <2>1, <2>2, <2>3, <2>4, <2>5 DEF Calls
<1>10. ASSUME Closes \/ CloseAllModules \/ ProgramReturns
       PROVE  Len(stack'[t]) <= Len(stack[t])
  <2>1. CASE FreeModule
    BY <2>1, <1>0, <1>3 DEF FreeModule, At
  <2>2. CASE ProcessEnds
    BY <2>2, <1>4 DEF ProcessEnds
  <2>3. CASE CloseDone \/ CloseAllModules \/ ProgramReturns
    BY <2>3, <1>1 DEF CloseDone, CloseAllModules, ProgramReturns
  <2>4. ~CloseModule
    BY DEF Pushes
  <2> QED
    BY <1>10, <2>1, <2>2, <2>3, <2>4 DEF Closes
<1> QED
  BY <1>7, <1>8, <1>9, <1>10 DEF Next

\* What a call that grows the stack of t puts there.
LEMMA Pushed ==
    ASSUME TypeOK, NEW t \in Thread, NEW u \in Thread, NEW frame \in Frame, NEW new \in Frame,
           Push(u, new), stack'[t] = Append(stack[t], frame)
    PROVE  t = u /\ frame = new
<1>1. /\ \A v \in Thread : v # u => stack'[v] = stack[v]
      /\ stack'[u][Len(stack[u]) + 1] = new
  BY PushStep
<1>2. /\ Len(stack[t]) \in Nat
      /\ Len(Append(stack[t], frame)) = Len(stack[t]) + 1
      /\ Append(stack[t], frame)[Len(stack[t]) + 1] = frame
  BY StackLength, AppendProperties
<1>3. t = u
  <2> SUFFICES ASSUME t # u PROVE FALSE
    OBVIOUS
  <2>1. Len(stack'[t]) = Len(stack[t])
    BY <1>1
  <2> QED
    BY <2>1, <1>2
<1> QED
  BY <1>1, <1>2, <1>3

\* The steps that put an entry point on top of what was there: no other changes it so.
LEMMA Growing ==
    ASSUME IInv, Next, NEW t \in Thread, NEW h \in Handle, NEW r \in DetachReason,
           stack'[t] = Append(stack[t], EntryFrame(h, r))
    PROVE  \/ NotifyThread(t) /\ h = noted[t] /\ r = Reason(t)
           \/ /\ t = Main /\ CloseModule /\ h = Last(Modules) /\ r = "process_detach"
              /\ Notifies(Main, h, r)
<1> DEFINE frame == EntryFrame(h, r)
<1>0. /\ TypeOK /\ Main \in Thread
      /\ frame \in Frame /\ frame.at = "entry" /\ frame.mod = h /\ frame.reason = r
  BY FrameMade, LoaderAssumption DEF IInv, EntryFrame
<1>1. Pushes
  <2> SUFFICES ASSUME ~Pushes PROVE FALSE
    OBVIOUS
  <2>1. Len(stack'[t]) <= Len(stack[t]) /\ Len(stack[t]) \in Nat
    BY <1>0, NotLonger, StackLength
  <2>2. Len(Append(stack[t], frame)) = Len(stack[t]) + 1
    BY <1>0, StackLength, AppendProperties
  <2> QED
    BY <2>1, <2>2
<1>2. ASSUME NEW u \in Thread, NEW f \in File, Push(u, [at |-> "open", file |-> f])
      PROVE  FALSE
  <2>1. frame = [at |-> "open", file |-> f]
    BY <1>0, <1>2, Pushed, FrameMade
  <2> QED
    BY <2>1, <1>0
<1>3. CASE \E u \in Thread, f \in File : LoadLibrary(u, f)
  BY <1>2, <1>3 DEF LoadLibrary
<1>4. CASE \E u \in Thread : ImportLoads(u)
  <2>1. PICK u \in Thread : ImportLoads(u)
    BY <1>4
  <2>2. Wanted(u) \in File
    BY <2>1, WantedFile DEF IInv, ImportLoads
  <2>3. Push(u, [at |-> "open", file |-> Wanted(u)])
    BY <2>1 DEF ImportLoads
  <2> QED
    BY <2>2, <2>3, <1>2
<1>5. CASE \E u \in Thread : NotifyThread(u)
  <2>1. PICK u \in Thread : NotifyThread(u)
    BY <1>5
  <2>2. noted[u] \in Handle /\ Reason(u) \in AttachReason \cup DetachReason
    BY <2>1, <1>0 DEF NotifyThread, TypeOK, Reason, AttachReason, DetachReason
  <2>3. EntryFrame(noted[u], Reason(u)) \in Frame
    BY <2>2, FrameMade
  <2>4. t = u /\ frame = EntryFrame(noted[u], Reason(u))
    BY <2>1, <2>3, <1>0, Pushed DEF NotifyThread
  <2>5. h = noted[t] /\ r = Reason(t)
    BY <2>4 DEF EntryFrame
  <2> QED
    BY <2>1, <2>4, <2>5
<1>6. CASE CloseModule
  <2>1. PICK m \in Handle : m = Last(Modules)
    BY <1>0, <1>6, ListTypes DEF CloseModule
  <2>2. CASE Notifies(Main, m, "process_detach")
    <3>1. Push(Main, EntryFrame(m, "process_detach"))
      BY <1>6, <2>1, <2>2 DEF CloseModule
    <3>2. t = Main /\ frame = EntryFrame(m, "process_detach")
      BY <3>1, <1>0, Pushed, FrameMade DEF DetachReason
    <3>3. h = m /\ r = "process_detach"
      BY <3>2 DEF EntryFrame
    <3> QED
      BY <3>2, <3>3, <2>1, <2>2, <1>6
  <2>3. CASE ~Notifies(Main, m, "process_detach")
    <3>1. Push(Main, [at |-> "free", mod |-> m])
      BY <1>6, <2>1, <2>3 DEF CloseModule
    <3>2. frame = [at |-> "free", mod |-> m]
      BY <3>1, <1>0, Pushed, FrameMade
    <3> QED
      BY <3>2, <1>0
  <2> QED
    BY <2>2, <2>3
<1> QED
  BY <1>1, <1>3, <1>4, <1>5, <1>6 DEF Pushes

\* A listed module that is not being loaded, has a Base, and whose index the loader has not
\* allocated, is one whose load failed.
LEMMA NeverAttached ==
    ASSUME LoadOrder, pc[Main] # "over", \A t \in Thread : stack[t] = <<>>,
           NEW h \in Listed, h \in mapped, h \notin indexed
    PROVE  fate[h] = "failed"
<1>1. fate[h] \in {"new", "failed"}
  BY DEF LoadOrder, FatesSound
<1>2. ASSUME NEW t \in Thread PROVE DOMAIN stack[t] = {}
  <2>1. stack[t] = <<>>
    OBVIOUS
  <2> QED
    BY <2>1, EmptySeq
<1>3. fate[h] # "new"
  BY <1>2 DEF LoadOrder, NoLoadLost
<1> QED
  BY <1>1, <1>3

\* No thread gets a detach call of a module that it had no attach call of, or a second one,
\* unless the load of the module failed (PeLdrNotifyNewThread, PeLdrCloseModule).
THEOREM DetachesPaired == Spec => DetachPaired
<1> DEFINE Paired == \A t \in Thread, h \in Handle, r \in DetachReason :
                        stack'[t] = Append(stack[t], EntryFrame(h, r))
                        => h \in told[t] \/ fate[h] = "failed"
<1>1. ASSUME IInv, LoadOrder, Next PROVE Paired
  <2> SUFFICES ASSUME NEW t \in Thread, NEW h \in Handle, NEW r \in DetachReason,
                      stack'[t] = Append(stack[t], EntryFrame(h, r)),
                      h \notin told[t]
               PROVE  fate[h] = "failed"
    OBVIOUS
  <2>0. /\ TypeOK /\ LocksHeld /\ WholeProcess /\ ListSound /\ Main \in Thread
    BY <1>1, LoaderAssumption DEF IInv
  <2>1. ASSUME CanEnter(CSPeLdr, t), stack[t] = <<>> PROVE \A u \in Thread : stack[u] = <<>>
    BY <2>0, <2>1, OneInside
  <2>2. ASSUME Notifies(t, h, r) PROVE h \in mapped /\ h \notin indexed
    BY <2>2 DEF Notifies
  <2>3. CASE NotifyThread(t) /\ h = noted[t] /\ r = Reason(t)
    <3>1. /\ CanEnter(CSPeLdr, t) /\ stack[t] = <<>>
          /\ pc[t] \in Ending \cup {"attach"}
          /\ h \in Opened
          /\ Notifies(t, h, r)
      BY <2>3, <2>0, LoaderAssumption
         DEF NotifyThread, InNotify, Push, ListSound, NoHandle, Handle
    <3>2. \A u \in Thread : stack[u] = <<>>
      BY <3>1, <2>1
    <3>3. pc[Main] # "over"
      BY <3>1, <2>0 DEF WholeProcess, Ending
    <3>4. CASE h \in Listed
      BY <3>1, <3>2, <3>3, <3>4, <2>2, <1>1, NeverAttached
    <3>5. CASE h \notin Listed
      BY <3>1, <3>5, <2>2, <1>1 DEF LoadOrder, FatesSound
    <3> QED
      BY <3>4, <3>5
  <2>4. CASE /\ t = Main /\ CloseModule /\ h = Last(Modules) /\ r = "process_detach"
             /\ Notifies(Main, h, r)
    <3>1. pc[Main] = "close" /\ stack[Main] = <<>>
      BY <2>4 DEF CloseModule
    <3>2. \A u \in Thread : stack[u] = <<>>
      BY <3>1, <2>0, InsideAlone
    <3>3. h \in Listed
      BY <2>0, <2>4, CloseStep
    <3> QED
      BY <3>1, <3>2, <3>3, <2>2, <2>4, <1>1, NeverAttached
  <2> QED
    BY <1>1, <2>3, <2>4, Growing
<1>2. IInv /\ LoadOrder /\ [Next]_vars => [Paired]_vars
  BY <1>1
<1> QED
  BY <1>2, LoadsInOrder, LoaderInvariant, PTL DEF Spec, DetachPaired

-----------------------------------------------------------------------------
(* The recursion of loads                                                  *)

\* Steps that touch no module, the end of the process among them, and those that do.
LEMMA Quiet ==
    ASSUME Next
    PROVE  \/ UNCHANGED <<Modules, files, fate>>
           \/ CloseModule
           \/ \E u \in Thread : \/ Open(u) \/ FailLoad(u) \/ Attach(u) \/ AttachReturns(u)
                                \/ FaultCaught(u) \/ FaultEndsThread(u) \/ FaultEndsProgram(u)
<1>1. ASSUME NEW u \in Thread, Loads(u) \/ TakesLock(u)
      PROVE  Open(u) \/ FailLoad(u) \/ Attach(u) \/ UNCHANGED <<Modules, files, fate>>
  BY <1>1 DEF Loads, TakesLock, OpenFails, Map, MapFails, ImportFound, ImportLoads,
              NotifyThread, NotifySkips, NotifyFreed
<1>2. ASSUME NEW u \in Thread, Returns(u) \/ Calls(u)
      PROVE  \/ AttachReturns(u)
             \/ FaultCaught(u) \/ FaultEndsThread(u) \/ FaultEndsProgram(u)
             \/ UNCHANGED <<Modules, files, fate>>
  BY <1>2 DEF Returns, Calls, ThreadEntryReturns, DetachReturns, LoadLibrary, StartThread,
              EndThread, ExitProcess, FaultEndsProcess
<1>3. ASSUME Closes \/ CloseAllModules \/ ProgramReturns
      PROVE  CloseModule \/ UNCHANGED <<Modules, files, fate>>
  BY <1>3 DEF Closes, FreeModule, CloseDone, ProcessEnds, CloseAllModules, ProgramReturns
<1> QED
  BY <1>1, <1>2, <1>3 DEF Next

\* PeLdrOpenModuleNoAdd never fills the last slot of the table.
SlotLeft == Len(Modules) <= MaxModules - 1

LEMMA SlotNext == IInv /\ SlotLeft /\ [Next]_vars => SlotLeft'
<1> SUFFICES ASSUME IInv, SlotLeft, [Next]_vars PROVE SlotLeft'
  OBVIOUS
<1>0. Modules \in Seq(Handle) /\ Len(Modules) \in Nat /\ MaxModules \in Nat
  BY LenProperties, LoaderAssumption DEF IInv, TypeOK
<1>1. CASE Modules' = Modules
  BY <1>1 DEF SlotLeft
<1>2. ASSUME NEW u \in Thread, Open(u) PROVE SlotLeft'
  <2>1. PICK h \in Handle : Modules' = Append(Modules, h)
    BY <1>2 DEF Open
  <2>2. Len(Modules') = Len(Modules) + 1
    BY <1>0, <2>1, AppendProperties
  <2>3. Len(Modules) < MaxModules - 1
    BY <1>2 DEF Open
  <2> QED
    BY <1>0, <2>2, <2>3 DEF SlotLeft
<1>3. CASE CloseModule
  <2>1. Len(Modules') = Len(Modules) - 1
    BY <1>0, <1>3, FrontIndex DEF CloseModule
  <2> QED
    BY <1>0, <2>1 DEF SlotLeft
<1>4. ASSUME NEW u \in Thread,
             \/ FailLoad(u) \/ Attach(u) \/ AttachReturns(u)
             \/ FaultCaught(u) \/ FaultEndsThread(u) \/ FaultEndsProgram(u)
      PROVE  Modules' = Modules
  BY <1>4 DEF FailLoad, Attach, AttachReturns, FaultCaught, FaultEndsThread, FaultEndsProgram
<1>5. CASE Next
  BY <1>1, <1>2, <1>3, <1>4, <1>5, Quiet
<1> QED
  BY <1>1, <1>5 DEF vars

LEMMA SlotStaysFree == Spec => []SlotLeft
<1>1. Init => SlotLeft
  <2> SUFFICES ASSUME Init PROVE SlotLeft
    OBVIOUS
  <2>1. Len(Modules) = 0
    BY DEF Init
  <2> QED
    BY <2>1, LoaderAssumption DEF SlotLeft
<1> QED
  BY <1>1, SlotNext, LoaderInvariant, PTL DEF Spec

\* Above the outermost frame there are loads, one for each listed module at most, and on
\* top perhaps one that has opened nothing.
LEMMA LoadsAbove ==
    ASSUME IInv, LoadOrder, NEW t \in Thread, NEW k \in 2 .. Len(stack[t])
    PROVE  /\ stack[t][k] \in Frame
           /\ \/ Loading(stack[t][k])
              \/ /\ k = Len(stack[t])
                 /\ \/ stack[t][k].at = "open" /\ ~Found(stack[t][k].file)
                    \/ stack[t][k].at = "fail" /\ stack[t][k].mod = NoHandle
           /\ Loading(stack[t][k]) =>
                 /\ stack[t][k].mod \in Listed
                 /\ stack[t][k].mod \in Opened
                 /\ stack[t][k].at # "open"
                 /\ \A l \in 1 .. k - 1 :
                       Loading(stack[t][l]) => stack[t][l].mod # stack[t][k].mod
<1>0. TypeOK /\ FramesSound /\ LoadsSound
  BY DEF IInv, LoadOrder
<1>1. PICK n \in Nat : n = Len(stack[t])
  BY <1>0, StackLength
<1>2. k \in 1 .. Len(stack[t]) /\ k # 1
  BY <1>1
<1>3. /\ FrameSound(t, k) /\ stack[t][k] \in Frame
      /\ k < n => stack[t][k].at \in {"entry", "import"}
  BY <1>0, <1>1, <1>2, BelowTop
<1>4. /\ stack[t][k].at \in {"open", "map", "free", "fail", "import", "entry"}
      /\ stack[t][k].at = "entry" => stack[t][k].reason \in AttachReason \cup DetachReason
  BY <1>3, FrameFields
<1>5. stack[t][k].at # "free"
  BY <1>2, <1>3 DEF FrameSound
<1>6. stack[t][k].at = "entry" => stack[t][k].reason = "process_attach"
  BY <1>2, <1>3, <1>4 DEF FrameSound, OfThread, AttachReason, DetachReason
<1>7. stack[t][k].at = "open" => ~Found(stack[t][k].file)
  BY <1>3 DEF FrameSound
<1>8. stack[t][k].at \notin {"entry", "import"} => k = n
  BY <1>1, <1>3
<1>9. \/ Loading(stack[t][k])
      \/ /\ k = Len(stack[t])
         /\ \/ stack[t][k].at = "open" /\ ~Found(stack[t][k].file)
            \/ stack[t][k].at = "fail" /\ stack[t][k].mod = NoHandle
  BY <1>1, <1>4, <1>5, <1>6, <1>7, <1>8 DEF Loading
<1>10. ASSUME Loading(stack[t][k])
       PROVE  /\ stack[t][k].mod \in Listed
              /\ stack[t][k].mod \in Opened
              /\ stack[t][k].at # "open"
              /\ \A l \in 1 .. k - 1 :
                    Loading(stack[t][l]) => stack[t][l].mod # stack[t][k].mod
  <2>1. LoadSound(t, k) /\ stack[t][k].mod \in Listed /\ stack[t][k].mod \in Opened
    BY <1>0, <1>2, <1>10, LoadingMod
  <2> QED
    BY <1>10, <2>1 DEF LoadSound, ModuleSound, Loading
<1> QED
  BY <1>3, <1>9, <1>10

\* A stack has a frame at the bottom, loads of different handles, and one on top.
TableDeep == \A t \in Thread : Len(stack[t]) <= MaxModules + 1

LEMMA SlotsDiffer == IInv /\ LoadOrder /\ SlotLeft => TableDeep
<1> SUFFICES ASSUME IInv, LoadOrder, SlotLeft, NEW t \in Thread
             PROVE  Len(stack[t]) <= MaxModules + 1
  BY DEF TableDeep
<1>0. /\ TypeOK /\ Modules \in Seq(Handle) /\ MaxModules \in Nat
      /\ DOMAIN Modules = 1 .. Len(Modules) /\ Len(Modules) \in Nat
  BY LoaderAssumption, LenProperties DEF IInv, TypeOK
<1>1. PICK n \in Nat : n = Len(stack[t])
  BY <1>0, StackLength
<1>2. ASSUME NEW k \in 2 .. n - 1
      PROVE  /\ Loading(stack[t][k]) /\ stack[t][k].mod \in Listed
             /\ \A l \in 1 .. k - 1 :
                   Loading(stack[t][l]) => stack[t][l].mod # stack[t][k].mod
  <2>1. k \in 2 .. Len(stack[t]) /\ k # Len(stack[t])
    BY <1>1
  <2> QED
    BY <2>1, LoadsAbove
<1> DEFINE Slot(k) == CHOOSE i \in 1 .. Len(Modules) : Modules[i] = stack[t][k].mod
           slot == [k \in 2 .. n - 1 |-> Slot(k)]
<1>3. ASSUME NEW k \in 2 .. n - 1
      PROVE  Slot(k) \in 1 .. Len(Modules) /\ Modules[Slot(k)] = stack[t][k].mod
  <2>1. \E i \in 1 .. Len(Modules) : Modules[i] = stack[t][k].mod
    BY <1>0, <1>2 DEF Listed, ToSet
  <2> QED
    BY <2>1
<1> HIDE DEF Slot
<1>4. ASSUME NEW j \in 2 .. n - 1, NEW k \in 2 .. n - 1, j < k PROVE Slot(j) # Slot(k)
  <2>1. j \in 1 .. k - 1
    BY <1>4
  <2>2. stack[t][j].mod # stack[t][k].mod
    BY <2>1, <1>2
  <2> QED
    BY <2>2, <1>3
<1>5. slot \in Injection(2 .. n - 1, 1 .. Len(Modules))
  <2>1. slot \in [2 .. n - 1 -> 1 .. Len(Modules)]
    BY <1>3
  <2>2. ASSUME NEW j \in 2 .. n - 1, NEW k \in 2 .. n - 1, slot[j] = slot[k] PROVE j = k
    <3>1. Slot(j) = Slot(k)
      BY <2>2
    <3>2. ~(j < k) /\ ~(k < j)
      BY <3>1, <1>4
    <3> QED
      BY <3>2, <1>1
  <2> QED
    BY <2>1, <2>2 DEF Injection, IsInjective
<1>6. IsFiniteSet(1 .. Len(Modules)) /\ Cardinality(1 .. Len(Modules)) = Len(Modules)
  BY <1>0, FS_Interval
<1>7. Cardinality(2 .. n - 1) <= Len(Modules)
  BY <1>5, <1>6, FS_Injection
<1>8. Cardinality(2 .. n - 1) = IF 2 > n - 1 THEN 0 ELSE n - 1 - 2 + 1
  <2>1. PICK m \in Int : m = n - 1
    BY <1>1
  <2>2. Cardinality(2 .. m) = IF 2 > m THEN 0 ELSE m - 2 + 1
    BY FS_Interval
  <2> QED
    BY <2>1, <2>2
<1>9. MaxModules > 0
  BY LoaderAssumption
<1> QED
  BY <1>0, <1>1, <1>7, <1>8, <1>9 DEF SlotLeft

\* The innermost frame of t is not that of a load that has opened nothing.
OpensSomething(t) == stack[t] # <<>> => Top(t).at # "fail" \/ Top(t).mod # NoHandle

DepthSound ==
    Faithful = File =>
        \A t \in Thread : OpensSomething(t) => Len(stack[t]) <= Cardinality(File) + 1

\* Frames above the outermost load or open files with different names, if every name is
\* that of its file.
LEMMA NamesDiffer == IInv /\ LoadOrder => DepthSound
<1> SUFFICES ASSUME IInv, LoadOrder, Faithful = File, NEW t \in Thread, OpensSomething(t)
             PROVE  Len(stack[t]) <= Cardinality(File) + 1
  BY DEF DepthSound
<1>0. TypeOK /\ OneCopy /\ IsFiniteSet(File)
  BY LoaderAssumption DEF IInv
<1>1. PICK n \in Nat : n = Len(stack[t])
  BY <1>0, StackLength
<1>2. ASSUME NEW k \in 2 .. n
      PROVE  /\ stack[t][k] \in Frame
             /\ \/ Loading(stack[t][k])
                \/ k = n /\ stack[t][k].at = "open" /\ ~Found(stack[t][k].file)
  <2>1. k \in 2 .. Len(stack[t])
    BY <1>1
  <2>2. ASSUME k = n PROVE ~(stack[t][k].at = "fail" /\ stack[t][k].mod = NoHandle)
    <3>1. stack[t] # <<>> /\ Top(t) = stack[t][k]
      BY <1>0, <1>1, <2>2, StackLength
    <3> QED
      BY <3>1 DEF OpensSomething
  <2> QED
    BY <1>1, <2>1, <2>2, LoadsAbove
<1>3. ASSUME NEW k \in 2 .. n, Loading(stack[t][k])
      PROVE  /\ stack[t][k].mod \in Listed
             /\ stack[t][k].mod \in Opened
             /\ stack[t][k].at # "open"
             /\ \A l \in 1 .. k - 1 : Loading(stack[t][l]) => stack[t][l].mod # stack[t][k].mod
  <2>1. k \in 2 .. Len(stack[t])
    BY <1>1
  <2> QED
    BY <1>3, <2>1, LoadsAbove
<1> DEFINE Name(k) == IF stack[t][k].at = "open" THEN stack[t][k].file
                      ELSE files[stack[t][k].mod]
           name == [k \in 2 .. n |-> Name(k)]
<1>4. ASSUME NEW k \in 2 .. n PROVE Name(k) \in File
  <2>1. CASE stack[t][k].at = "open"
    BY <1>2, <2>1, FrameFields
  <2>2. CASE stack[t][k].at # "open"
    BY <1>0, <1>2, <1>3, <2>2, Handles
  <2> QED
    BY <2>1, <2>2
<1>5. ASSUME NEW j \in 2 .. n, NEW k \in 2 .. n, j < k PROVE Name(j) # Name(k)
  <2>1. j < n /\ j \in 1 .. k - 1
    BY <1>1, <1>5
  <2>2. Loading(stack[t][j])
    BY <1>2, <2>1
  <2>3. /\ stack[t][j].mod \in Listed /\ stack[t][j].at # "open"
        /\ Name(j) = files[stack[t][j].mod] /\ Name(j) \in Faithful
    BY <1>3, <1>4, <2>2
  <2>4. CASE stack[t][k].at = "open"
    <3>1. ~Found(stack[t][k].file)
      BY <1>2, <1>3, <2>4
    <3> QED
      BY <2>3, <2>4, <3>1 DEF Found
  <2>5. CASE stack[t][k].at # "open"
    <3>1. /\ stack[t][k].mod \in Listed
          /\ stack[t][j].mod # stack[t][k].mod
      BY <1>2, <1>3, <2>1, <2>2, <2>5
    <3>2. PICK a \in DOMAIN Modules : Modules[a] = stack[t][j].mod
      BY <2>3 DEF Listed, ToSet
    <3>3. PICK b \in DOMAIN Modules : Modules[b] = stack[t][k].mod
      BY <3>1 DEF Listed, ToSet
    <3>4. files[Modules[a]] # files[Modules[b]]
      BY <1>0, <2>3, <3>1, <3>2, <3>3 DEF OneCopy
    <3> QED
      BY <2>3, <2>5, <3>2, <3>3, <3>4
  <2> QED
    BY <2>4, <2>5
<1>6. name \in Injection(2 .. n, File)
  <2>1. name \in [2 .. n -> File]
    BY <1>4
  <2>2. ASSUME NEW j \in 2 .. n, NEW k \in 2 .. n, name[j] = name[k] PROVE j = k
    <3>1. Name(j) = Name(k)
      BY <2>2
    <3>2. ~(j < k) /\ ~(k < j)
      BY <3>1, <1>5
    <3> QED
      BY <3>2, <1>1
  <2> QED
    BY <2>1, <2>2 DEF Injection, IsInjective
<1>7. Cardinality(2 .. n) <= Cardinality(File)
  BY <1>0, <1>6, FS_Injection
<1>8. Cardinality(2 .. n) = IF 2 > n THEN 0 ELSE n - 2 + 1
  BY FS_Interval
<1>9. Cardinality(File) \in Nat
  BY <1>0, FS_CardinalityType
<1> QED
  BY <1>1, <1>7, <1>8, <1>9

LEMMA NamesDifferNext == IInv' /\ LoadOrder' => DepthSound'
BY NamesDiffer, PTL

\* A load that has opened nothing is no deeper than its search was.
NamesDeep == Faithful = File => \A t \in Thread : Len(stack[t]) <= Cardinality(File) + 1

LEMMA NamesDeepNext ==
    ASSUME IInv, TypeOK', DepthSound', NamesDeep, Next
    PROVE  NamesDeep'
<1> SUFFICES ASSUME Faithful = File, NEW t \in Thread
             PROVE  Len(stack'[t]) <= Cardinality(File) + 1
  BY DEF NamesDeep
<1>0. /\ TypeOK /\ FramesSound /\ Main \in Thread
      /\ Len(stack[t]) <= Cardinality(File) + 1
      /\ Len(stack[t]) \in Nat /\ Len(stack'[t]) \in Nat
      /\ Cardinality(File) \in Nat
  BY StackLength, LenProperties, LoaderAssumption, FS_CardinalityType
     DEF IInv, NamesDeep, TypeOK
<1>1. CASE ~Pushes
  BY <1>0, <1>1, NotLonger
<1>2. ASSUME NEW u \in Thread, NEW new \in Frame, Push(u, new), new.at # "fail"
      PROVE  Len(stack'[t]) <= Cardinality(File) + 1
  <2>1. /\ \A v \in Thread : v # u => stack'[v] = stack[v]
        /\ Len(stack'[u]) = Len(stack[u]) + 1
        /\ stack'[u][Len(stack[u]) + 1] = new
    BY <1>0, <1>2, PushStep
  <2>2. CASE t = u
    <3>1. Top(t)' = new
      BY <2>1, <2>2 DEF Top, Last
    <3>2. OpensSomething(t)'
      BY <3>1, <1>2 DEF OpensSomething
    <3> QED
      BY <3>2 DEF DepthSound
  <2>3. CASE t # u
    BY <2>1, <2>3, <1>0
  <2> QED
    BY <2>2, <2>3
<1>3. CASE \E u \in Thread, f \in File : LoadLibrary(u, f)
  BY <1>2, <1>3, FrameMade DEF LoadLibrary
<1>4. CASE \E u \in Thread : ImportLoads(u)
  <2>1. PICK u \in Thread : ImportLoads(u)
    BY <1>4
  <2>2. Wanted(u) \in File
    BY <2>1, <1>0, WantedFile DEF ImportLoads
  <2>3. Push(u, [at |-> "open", file |-> Wanted(u)])
    BY <2>1 DEF ImportLoads
  <2> QED
    BY <2>2, <2>3, <1>2, FrameMade
<1>5. CASE \E u \in Thread : NotifyThread(u)
  <2>1. PICK u \in Thread : NotifyThread(u)
    BY <1>5
  <2>2. noted[u] \in Handle /\ Reason(u) \in AttachReason \cup DetachReason
    BY <2>1, <1>0 DEF NotifyThread, TypeOK, Reason, AttachReason, DetachReason
  <2>3. EntryFrame(noted[u], Reason(u)) \in Frame
    BY <2>2, FrameMade
  <2>4. EntryFrame(noted[u], Reason(u)).at = "entry"
    BY DEF EntryFrame
  <2>5. Push(u, EntryFrame(noted[u], Reason(u)))
    BY <2>1 DEF NotifyThread
  <2> QED
    BY <2>3, <2>4, <2>5, <1>2
<1>6. CASE CloseModule
  <2>1. PICK m \in Handle : m = Last(Modules)
    BY <1>0, <1>6, ListTypes DEF CloseModule
  <2>2. \/ Push(Main, EntryFrame(m, "process_detach"))
        \/ Push(Main, [at |-> "free", mod |-> m])
    BY <1>6, <2>1 DEF CloseModule
  <2>3. /\ EntryFrame(m, "process_detach") \in Frame
        /\ EntryFrame(m, "process_detach").at = "entry"
        /\ [at |-> "free", mod |-> m] \in Frame
    BY FrameMade DEF EntryFrame, DetachReason
  <2> QED
    BY <1>0, <2>2, <2>3, <1>2
<1> QED
  BY <1>1, <1>3, <1>4, <1>5, <1>6 DEF Pushes

\* Loads nest no deeper than the table has slots, and if every module is found under its
\* name no deeper than there are files, cyclic imports and loads out of DllMain included
\* (PeLdrLoadModule, PeLdrProcessModuleImports, PeLdrProcessEntryPoints).
THEOREM RecursionEnds == Spec => []RecursionBounded
<1>1. Init => NamesDeep
  <2> SUFFICES ASSUME Init, NEW t \in Thread PROVE Len(stack[t]) <= Cardinality(File) + 1
    BY DEF NamesDeep
  <2>1. Len(stack[t]) = 0
    BY DEF Init
  <2>2. Cardinality(File) \in Nat
    BY LoaderAssumption, FS_CardinalityType
  <2> QED
    BY <2>1, <2>2
<1>2. NamesDeep /\ UNCHANGED vars => NamesDeep'
  BY DEF NamesDeep, vars
<1>3. IInv /\ TypeOK' /\ DepthSound' /\ NamesDeep /\ [Next]_vars => NamesDeep'
  BY <1>2, NamesDeepNext
<1>4. IInv => TypeOK
  BY DEF IInv
<1>5. TableDeep /\ NamesDeep => RecursionBounded
  BY DEF TableDeep, NamesDeep, RecursionBounded
<1> QED
  BY <1>1, <1>3, <1>4, <1>5, NamesDifferNext, SlotsDiffer, SlotStaysFree, LoadsInOrder,
     LoaderInvariant, PTL DEF Spec

-----------------------------------------------------------------------------
(* The loader implements ModuleLife                                        *)

\* Names whose load has begun and not ended.
Pending == {f \in Faithful : Lives[f] \in {"new", "attached"}}

\* Lives is the fate of the listed copy of each name, of which there is one.
LivesSound ==
    /\ Lives \in [Faithful -> Fate \cup {"absent"}]
    /\ \A h \in Listed : files[h] \in Faithful => Lives[files[h]] = fate[h]
    /\ \A f \in Faithful : Lives[f] = "absent" <=> ~Found(f)

\* Whoever is inside the loader is at all the loads that have begun.
BusySound ==
    pc[Main] # "over" =>
        \A t \in Thread : (\A u \in Thread : u # t => stack[u] = <<>>) =>
            Busy = [u \in Thread |-> IF u = t THEN Pending ELSE {}]

LEMMA LivesAre == IInv => LivesSound
<1> SUFFICES ASSUME IInv PROVE LivesSound
  OBVIOUS
<1>0. TypeOK /\ OneCopy /\ Listed \subseteq Opened /\ Listed \subseteq Handle
  BY ToSetDef DEF IInv, ListSound, TypeOK, Listed
<1>1. Faithful \subseteq File
  BY DEF Faithful
<1>2. ASSUME NEW h \in Listed, files[h] \in Faithful PROVE Copy(files[h]) = h
  <2>1. PICK g \in Listed : g = Copy(files[h]) /\ files[g] = files[h]
    BY DEF Copy
  <2>2. PICK i \in DOMAIN Modules : Modules[i] = g
    BY <2>1 DEF Listed, ToSet
  <2>3. PICK j \in DOMAIN Modules : Modules[j] = h
    BY DEF Listed, ToSet
  <2> QED
    BY <1>0, <1>2, <2>1, <2>2, <2>3 DEF OneCopy
<1>3. ASSUME NEW h \in Listed, files[h] \in Faithful PROVE Lives[files[h]] = fate[h]
  BY <1>2, <1>3 DEF Lives, Found
<1>4. ASSUME NEW h \in Listed PROVE fate[h] \in Fate
  BY <1>0 DEF TypeOK
<1>5. ASSUME NEW f \in Faithful
      PROVE  /\ Lives[f] \in Fate \cup {"absent"}
             /\ Lives[f] = "absent" <=> ~Found(f)
  <2>1. CASE Found(f)
    <3>1. PICK h \in Listed : files[h] = f
      BY <2>1 DEF Found
    <3> QED
      BY <2>1, <3>1, <1>3, <1>4 DEF Fate
  <2>2. CASE ~Found(f)
    BY <2>2 DEF Lives
  <2> QED
    BY <2>1, <2>2
<1>6. Lives \in [Faithful -> Fate \cup {"absent"}]
  <2>1. Lives = [f \in Faithful |-> Lives[f]]
    BY DEF Lives
  <2> QED
    BY <2>1, <1>5
<1> QED
  BY <1>3, <1>5, <1>6 DEF LivesSound

\* By NoLoadLost a load that has begun has a frame, by LoadsSound a frame has a load.
LEMMA BusyAre == IInv /\ LoadOrder => BusySound
<1> SUFFICES ASSUME IInv, LoadOrder, pc[Main] # "over", NEW t \in Thread,
                    \A u \in Thread : u # t => stack[u] = <<>>
             PROVE  Busy = [u \in Thread |-> IF u = t THEN Pending ELSE {}]
  BY DEF BusySound
<1>0. TypeOK /\ LivesSound /\ LoadsSound /\ NoLoadLost
  BY LivesAre DEF IInv, LoadOrder
<1>1. Busy = [u \in Thread |-> Busy[u]]
  BY DEF Busy
<1>2. ASSUME NEW u \in Thread, u # t PROVE Busy[u] = {}
  <2>1. DOMAIN stack[u] = {}
    BY <1>2, EmptySeq
  <2> QED
    BY <2>1 DEF Busy
<1>3. ASSUME NEW f \in Pending PROVE f \in Busy[t]
  <2>1. f \in Faithful /\ Lives[f] \in {"new", "attached"}
    BY DEF Pending
  <2>2. Found(f)
    BY <1>0, <2>1 DEF LivesSound
  <2>3. PICK h \in Listed : files[h] = f
    BY <2>2 DEF Found
  <2>4. fate[h] \in {"new", "attached"}
    BY <1>0, <2>1, <2>3 DEF LivesSound
  <2>5. PICK u \in Thread : \E k \in DOMAIN stack[u] :
                               Loading(stack[u][k]) /\ stack[u][k].mod = h
    BY <1>0, <2>4 DEF NoLoadLost
  <2>6. u = t
    BY <2>5, EmptySeq
  <2> QED
    BY <2>1, <2>3, <2>5, <2>6 DEF Busy
<1>4. ASSUME NEW f \in Busy[t] PROVE f \in Pending
  <2>1. f \in Faithful
    BY DEF Busy
  <2>5. PICK k \in DOMAIN stack[t] : Loading(stack[t][k]) /\ f = files[stack[t][k].mod]
    BY DEF Busy
  <2>2. PICK h : h = stack[t][k].mod
    OBVIOUS
  <2>3. k \in 1 .. Len(stack[t])
    BY <1>0, StackLength
  <2>4. h \in Listed /\ fate[h] \in {"new", "attached"}
    BY <1>0, <2>2, <2>3, <2>5, LoadingMod DEF LoadSound, ModuleSound
  <2> QED
    BY <1>0, <2>1, <2>2, <2>4, <2>5 DEF LivesSound, Pending
<1>5. Busy[t] = Pending
  BY <1>3, <1>4
<1> QED
  BY <1>1, <1>2, <1>5

LEMMA LifeSoundNext == IInv' /\ LoadOrder' => LivesSound' /\ BusySound'
BY LivesAre, BusyAre, PTL

\* A thread inside the loader is there alone.
AloneInside == \A t \in Thread, u \in Thread : stack[t] # <<>> /\ u # t => stack[u] = <<>>

LEMMA Alone == IInv => AloneInside
<1> SUFFICES ASSUME IInv, NEW t \in Thread, NEW u \in Thread, stack[t] # <<>>, u # t
             PROVE  stack[u] = <<>>
  BY DEF AloneInside
<1>1. TypeOK /\ LocksHeld
  BY DEF IInv
<1> QED
  BY <1>1, InsideAlone

LEMMA AloneNext == IInv' => AloneInside'
BY Alone, PTL

\* The thread inside the loader before a step is the one inside after it, if both exist:
\* a thread that enters finds nobody.
LEMMA OneLoader ==
    ASSUME IInv, IInv', Next, NEW t \in Thread, NEW u \in Thread,
           stack[t] # <<>>, stack'[u] # <<>>
    PROVE  t = u
<1> SUFFICES ASSUME t # u PROVE FALSE
  OBVIOUS
<1>0. /\ TypeOK /\ LocksHeld /\ FramesSound /\ Main \in Thread
      /\ stack[u] = <<>> /\ Len(stack[u]) = 0
      /\ Len(stack'[u]) \in Nat \ {0}
  <2>1. TypeOK /\ TypeOK' /\ LocksHeld /\ FramesSound /\ Main \in Thread
    BY LoaderAssumption DEF IInv
  <2>2. stack'[u] \in Seq(Frame)
    BY <2>1 DEF TypeOK
  <2>3. Len(stack'[u]) \in Nat \ {0}
    BY <2>2, EmptySeq, LenProperties
  <2> QED
    BY <2>1, <2>3, Alone, StackLength DEF AloneInside
<1>1. ASSUME NEW v \in Thread, NEW frame \in Frame, Push(v, frame) PROVE FALSE
  <2>1. v = t
    BY <1>0, <1>1, OneInside DEF Push
  <2> QED
    BY <1>0, <1>1, <2>1, PushStep
<1>2. Pushes
  BY <1>0, NotLonger
<1>3. CASE \E v \in Thread, f \in File : LoadLibrary(v, f)
  BY <1>1, <1>3, FrameMade DEF LoadLibrary
<1>4. CASE \E v \in Thread : ImportLoads(v)
  <2>1. PICK v \in Thread : ImportLoads(v)
    BY <1>4
  <2>2. Wanted(v) \in File
    BY <2>1, <1>0, WantedFile DEF ImportLoads
  <2>3. Push(v, [at |-> "open", file |-> Wanted(v)])
    BY <2>1 DEF ImportLoads
  <2> QED
    BY <2>2, <2>3, <1>1, FrameMade
<1>5. CASE \E v \in Thread : NotifyThread(v)
  <2>1. PICK v \in Thread : NotifyThread(v)
    BY <1>5
  <2>2. noted[v] \in Handle /\ Reason(v) \in AttachReason \cup DetachReason
    BY <2>1, <1>0 DEF NotifyThread, TypeOK, Reason, AttachReason, DetachReason
  <2>3. Push(v, EntryFrame(noted[v], Reason(v)))
    BY <2>1 DEF NotifyThread
  <2> QED
    BY <2>2, <2>3, <1>1, FrameMade
<1>6. CASE CloseModule
  <2>1. PICK m \in Handle : m = Last(Modules)
    BY <1>0, <1>6, ListTypes DEF CloseModule
  <2>2. \/ Push(Main, EntryFrame(m, "process_detach"))
        \/ Push(Main, [at |-> "free", mod |-> m])
    BY <1>6, <2>1 DEF CloseModule
  <2> QED
    BY <1>0, <2>2, <1>1, FrameMade DEF DetachReason
<1> QED
  BY <1>2, <1>3, <1>4, <1>5, <1>6 DEF Pushes

\* Before and after a step that does not end the process, the loads that have begun are
\* those of one and the same thread.
Steady(t) ==
    /\ pc[Main] # "over" /\ pc'[Main] # "over"
    /\ Busy = [u \in Thread |-> IF u = t THEN Pending ELSE {}]
    /\ Busy' = [u \in Thread |-> IF u = t THEN Pending' ELSE {}]

LEMMA SteadyStep ==
    ASSUME IInv, IInv', LoadOrder, LoadOrder', Next, pc[Main] # "over", pc'[Main] # "over"
    PROVE  \E t \in Thread : Steady(t)
<1>1. BusySound /\ BusySound'
  BY BusyAre, LifeSoundNext
<1>2. ASSUME NEW t \in Thread, \A u \in Thread : u # t => stack[u] = <<>> /\ stack'[u] = <<>>
      PROVE  Steady(t)
  BY <1>1, <1>2 DEF BusySound, Steady
<1>3. CASE \E t \in Thread : stack[t] # <<>>
  <2>1. PICK t \in Thread : stack[t] # <<>>
    BY <1>3
  <2>2. ASSUME NEW u \in Thread, u # t PROVE stack[u] = <<>> /\ stack'[u] = <<>>
    BY <2>1, <2>2, Alone, OneLoader DEF AloneInside
  <2> QED
    BY <2>2, <1>2
<1>4. CASE \E t \in Thread : stack'[t] # <<>>
  <2>1. PICK t \in Thread : stack'[t] # <<>>
    BY <1>4
  <2>2. ASSUME NEW u \in Thread, u # t PROVE stack[u] = <<>> /\ stack'[u] = <<>>
    BY <2>1, <2>2, AloneNext, OneLoader DEF AloneInside
  <2> QED
    BY <2>2, <1>2
<1>5. CASE \A t \in Thread : stack[t] = <<>> /\ stack'[t] = <<>>
  BY <1>2, <1>5, LoaderAssumption
<1> QED
  BY <1>3, <1>4, <1>5

-----------------------------------------------------------------------------
(* The steps of ModuleLife, in terms of Lives alone                        *)

LEMMA LifeSame ==
    ASSUME NEW t \in Thread, Steady(t), Lives' = Lives
    PROVE  UNCHANGED Life!lifeVars
<1>1. Pending' = Pending
  BY DEF Pending
<1>2. Busy' = Busy
  BY <1>1 DEF Steady
<1>3. (pc[Main] = "over")' = (pc[Main] = "over")
  BY DEF Steady
<1> QED
  BY <1>2, <1>3 DEF Life!lifeVars

LEMMA LifeBegins ==
    ASSUME NEW t \in Thread, Steady(t), LivesSound, NEW f \in Faithful,
           Lives[f] = "absent", Lives' = [Lives EXCEPT ![f] = "new"]
    PROVE  Life!LifeNext
<1>1. Pending' = Pending \cup {f}
  BY DEF Pending, LivesSound
<1>2. \A u \in Thread : u # t => Busy[u] = {}
  BY DEF Steady
<1>3. Busy' = [Busy EXCEPT ![t] = @ \cup {f}]
  BY <1>1 DEF Steady
<1>4. Life!Begin(t, f)
  BY <1>2, <1>3 DEF Life!Begin
<1>5. ~(pc[Main] = "over") /\ (pc[Main] = "over")' = (pc[Main] = "over")
  BY DEF Steady
<1> QED
  BY <1>4, <1>5 DEF Life!LifeNext

LEMMA LifeAttaches ==
    ASSUME NEW t \in Thread, Steady(t), LivesSound, NEW f \in Faithful,
           Lives[f] = "new", Lives' = [Lives EXCEPT ![f] = "attached"],
           \A g \in Needed[f] : g \in Faithful /\ Lives[g] \notin {"absent", "detached"}
    PROVE  Life!LifeNext
<1>1. Pending' = Pending /\ f \in Pending
  BY DEF Pending, LivesSound
<1>2. Busy' = Busy /\ Busy[t] = Pending
  BY <1>1 DEF Steady
<1>3. ASSUME NEW g \in Needed[f] PROVE Lives[g] \in {"loaded", "failed"} \/ g \in Busy[t]
  BY <1>2, <1>3 DEF LivesSound, Fate, Pending
<1>4. Life!Attach(t, f)
  BY <1>2, <1>3 DEF Life!Attach
<1>5. ~(pc[Main] = "over") /\ (pc[Main] = "over")' = (pc[Main] = "over")
  BY DEF Steady
<1> QED
  BY <1>1, <1>2, <1>4, <1>5 DEF Life!LifeNext

LEMMA LifeSucceeds ==
    ASSUME NEW t \in Thread, Steady(t), LivesSound, NEW f \in Faithful,
           Lives[f] = "attached", Lives' = [Lives EXCEPT ![f] = "loaded"]
    PROVE  Life!LifeNext
<1>1. Pending' = Pending \ {f} /\ f \in Pending
  BY DEF Pending, LivesSound
<1>2. Busy[t] = Pending
  BY DEF Steady
<1>3. Busy' = [Busy EXCEPT ![t] = @ \ {f}]
  BY <1>1 DEF Steady
<1>4. Life!Succeed(t, f)
  BY <1>3 DEF Life!Succeed
<1>5. ~(pc[Main] = "over") /\ (pc[Main] = "over")' = (pc[Main] = "over")
  BY DEF Steady
<1> QED
  BY <1>1, <1>2, <1>4, <1>5 DEF Life!LifeNext

\* Every name keeps its life, or a load of it fails.
LEMMA LifeFails ==
    ASSUME NEW t \in Thread, Steady(t), LivesSound, LivesSound',
           \A f \in Faithful : Lives'[f] = Lives[f] \/ (f \in Pending /\ Lives'[f] = "failed")
    PROVE  [Life!LifeNext]_Life!lifeVars
<1> DEFINE F == {f \in Pending : Lives'[f] = "failed"}
<1>1. Lives' = [f \in Faithful |-> IF f \in F THEN "failed" ELSE Lives[f]]
  BY DEF LivesSound
<1>2. Pending' = Pending \ F /\ F \subseteq Pending
  BY <1>1 DEF Pending, LivesSound
<1>3. CASE F = {}
  <2>1. Lives' = Lives
    BY <1>1, <1>3 DEF LivesSound
  <2> QED
    BY <2>1, LifeSame
<1>4. CASE F # {}
  <2>1. Busy[t] = Pending
    BY DEF Steady
  <2>2. Busy' = [Busy EXCEPT ![t] = @ \ F]
    BY <1>2 DEF Steady
  <2>3. Life!Fail(t, F)
    BY <1>1, <1>4, <2>2 DEF Life!Fail
  <2>4. ~(pc[Main] = "over") /\ (pc[Main] = "over")' = (pc[Main] = "over")
    BY DEF Steady
  <2> QED
    BY <1>2, <2>1, <2>3, <2>4 DEF Life!LifeNext
<1> QED
  BY <1>3, <1>4

LEMMA LifeCloses ==
    ASSUME NEW t \in Thread, Steady(t), LivesSound, Pending = {}, NEW f \in Faithful,
           Lives[f] \in {"loaded", "failed"}, Lives' = [Lives EXCEPT ![f] = "absent"]
    PROVE  Life!LifeNext
<1>1. Pending' = {}
  BY DEF Pending, LivesSound
<1>2. Busy' = Busy /\ \A u \in Thread : Busy[u] = {}
  BY <1>1 DEF Steady
<1>3. Life!Close(f)
  BY <1>2 DEF Life!Close
<1>4. ~(pc[Main] = "over") /\ (pc[Main] = "over")' = (pc[Main] = "over")
  BY DEF Steady
<1> QED
  BY <1>3, <1>4 DEF Life!LifeNext

-----------------------------------------------------------------------------
(* The steps of the loader                                                 *)

LEMMA LifeEnds ==
    ASSUME IInv, IInv', Next, pc[Main] # "over", pc'[Main] = "over"
    PROVE  Life!LifeNext
<1>0. TypeOK /\ WholeProcess' /\ Main \in Thread
  BY LoaderAssumption DEF IInv
<1>1. \A u \in Thread : stack'[u] = <<>>
  BY <1>0 DEF WholeProcess
<1>2. Busy' = [u \in Thread |-> {}]
  <2>1. ASSUME NEW u \in Thread PROVE DOMAIN stack'[u] = {}
    BY <1>1, EmptySeq
  <2>2. Busy' = [u \in Thread |->
                   Faithful \cap
                   {files'[stack'[u][k].mod] :
                      k \in {j \in DOMAIN stack'[u] : Loading(stack'[u][j])}}]
    BY DEF Busy, Loading
  <2> QED
    BY <2>1, <2>2
<1>3. UNCHANGED <<Modules, files, fate>>
  <2>1. ASSUME NEW u \in Thread,
               Open(u) \/ FailLoad(u) \/ Attach(u) \/ AttachReturns(u)
               \/ FaultCaught(u) \/ FaultEndsThread(u) \/ FaultEndsProgram(u)
        PROVE  FALSE
    BY <1>0, <2>1
       DEF TypeOK, Open, FailLoad, Attach, AttachReturns, FaultCaught, FaultEndsThread,
           FaultEndsProgram, BeginNotify
  <2>2. ~CloseModule
    BY DEF CloseModule
  <2> QED
    BY <2>1, <2>2, Quiet
<1>4. Lives' = Lives
  BY <1>3 DEF Lives, Found, Copy, Listed
<1>5. Life!End
  BY <1>2, <1>4 DEF Life!End
<1> QED
  BY <1>5 DEF Life!LifeNext

\* A file is listed by the load of another name, or its own load begins.
LEMMA LifeOpen ==
    ASSUME IInv, LoadOrder, LivesSound, LivesSound', NEW t \in Thread, Steady(t),
           NEW u \in Thread, Open(u)
    PROVE  [Life!LifeNext]_Life!lifeVars
<1>0. /\ TypeOK /\ FramesSound /\ FatesSound /\ stack[u] # <<>> /\ Top(u).at = "open"
      /\ fate' = fate /\ Listed \subseteq Opened
  BY DEF IInv, ListSound, LoadOrder, Open, At
<1>1. PICK h \in Handle : /\ h \notin Opened
                          /\ Top(u).file \in File
                          /\ files'[h] = Resolved[Top(u).file]
                          /\ \A g \in Opened : files'[g] = files[g]
                          /\ Listed' = Listed \cup {h}
                          /\ \A g \in Listed : files[g] # Top(u).file
  BY <1>0, OpenStep
<1>2. PICK f \in File : f = Resolved[Top(u).file]
  BY <1>1, LoaderAssumption
<1>3. fate[h] = "new"
  BY <1>0, <1>1 DEF FatesSound
<1>4. ASSUME NEW g \in Faithful, g # f PROVE Lives'[g] = Lives[g]
  <2>1. CASE Found(g)
    <3>1. PICK x \in Listed : files[x] = g
      BY <2>1 DEF Found
    <3>2. x \in Listed' /\ files'[x] = g
      BY <1>0, <1>1, <3>1
    <3> QED
      BY <1>0, <3>1, <3>2 DEF LivesSound
  <2>2. CASE ~Found(g)
    <3>1. ~Found(g)'
      BY <1>0, <1>1, <1>2, <1>4, <2>2 DEF Found
    <3> QED
      BY <2>2, <3>1 DEF LivesSound
  <2> QED
    BY <2>1, <2>2
<1>5. CASE f \in Faithful
  <2>1. f = Top(u).file
    BY <1>1, <1>2, <1>5 DEF Faithful
  <2>2. Lives[f] = "absent"
    BY <1>1, <1>5, <2>1 DEF LivesSound, Found
  <2>3. Lives'[f] = "new"
    <3>1. h \in Listed' /\ files'[h] = f /\ fate'[h] = "new"
      BY <1>0, <1>1, <1>2, <1>3
    <3> QED
      BY <1>5, <3>1 DEF LivesSound
  <2>4. Lives' = [Lives EXCEPT ![f] = "new"]
    BY <1>4, <2>3 DEF LivesSound
  <2> QED
    BY <1>5, <2>2, <2>4, LifeBegins
<1>6. CASE f \notin Faithful
  <2>1. Lives' = Lives
    BY <1>4, <1>6 DEF LivesSound
  <2> QED
    BY <2>1, LifeSame
<1> QED
  BY <1>5, <1>6

\* While the list is as it was, lives change as fates do.
LEMMA LifeOfHandle ==
    ASSUME LivesSound, LivesSound', UNCHANGED <<Modules, files>>, NEW f \in Faithful
    PROVE  \/ Lives[f] = "absent" /\ Lives'[f] = "absent"
           \/ \E h \in Listed : files[h] = f /\ Lives[f] = fate[h] /\ Lives'[f] = fate'[h]
<1>0. Listed' = Listed
  BY DEF Listed
<1>1. CASE Found(f)
  <2>1. PICK h \in Listed : files[h] = f
    BY <1>1 DEF Found
  <2>2. h \in Listed' /\ files'[h] = f
    BY <1>0, <2>1
  <2> QED
    BY <2>1, <2>2 DEF LivesSound
<1>2. CASE ~Found(f)
  <2>1. ~Found(f)'
    BY <1>0, <1>2 DEF Found
  <2> QED
    BY <1>2, <2>1 DEF LivesSound
<1> QED
  BY <1>1, <1>2

LEMMA LifeOfOne ==
    ASSUME LivesSound, LivesSound', UNCHANGED <<Modules, files>>, NEW h \in Listed, NEW v,
           fate'[h] = v, \A x \in Listed : x # h => fate'[x] = fate[x]
    PROVE  /\ files[h] \in Faithful => /\ Lives[files[h]] = fate[h]
                                       /\ Lives' = [Lives EXCEPT ![files[h]] = v]
           /\ files[h] \notin Faithful => Lives' = Lives
<1>1. ASSUME NEW f \in Faithful, f # files[h] PROVE Lives'[f] = Lives[f]
  BY <1>1, LifeOfHandle
<1>2. ASSUME files[h] \in Faithful
      PROVE  Lives[files[h]] = fate[h] /\ Lives' = [Lives EXCEPT ![files[h]] = v]
  <2>1. h \in Listed' /\ files'[h] = files[h]
    BY DEF Listed
  <2>2. Lives'[files[h]] = v /\ Lives[files[h]] = fate[h]
    BY <1>2, <2>1 DEF LivesSound
  <2> QED
    BY <1>1, <2>2 DEF LivesSound
<1>3. ASSUME files[h] \notin Faithful PROVE Lives' = Lives
  BY <1>1, <1>3 DEF LivesSound
<1> QED
  BY <1>2, <1>3

LEMMA LifeAttach ==
    ASSUME IInv, LoadOrder, LivesSound, LivesSound', NEW t \in Thread, Steady(t),
           NEW u \in Thread, Attach(u)
    PROVE  [Life!LifeNext]_Life!lifeVars
<1>0. /\ TypeOK /\ LoadsSound /\ FatesSound /\ stack[u] # <<>> /\ Top(u).at = "import"
      /\ Loading(Top(u)) /\ UNCHANGED <<Modules, files>>
  BY DEF IInv, LoadOrder, Attach, At, Loading
<1>1. PICK h \in Handle : h = Top(u).mod
  BY <1>0, TopModule
<1>2. h \in Listed /\ h \in Opened /\ fate[h] = "new"
  BY <1>0, <1>1, TopModule
<1>3. fate' = [fate EXCEPT ![h] = "attached"] /\ ~HasImport(u)
  BY <1>1 DEF Attach
<1>4. fate'[h] = "attached" /\ \A x \in Listed : x # h => fate'[x] = fate[x]
  BY <1>0, <1>3, ToSetDef DEF TypeOK, Listed
<1>5. PICK f \in File : f = files[h]
  BY <1>0, <1>2, Handles
<1>6. CASE f \notin Faithful
  BY <1>0, <1>2, <1>4, <1>5, <1>6, LifeOfOne, LifeSame
<1>7. ASSUME f \in Faithful, NEW g \in Needed[f]
      PROVE  g \in Faithful /\ Lives[g] \notin {"absent", "detached"}
  <2>1. PICK imp \in ToSet(Imports[f]) : imp.must /\ g = Resolved[imp.dll] /\ g \in Faithful
    BY <1>7 DEF Needed
  <2>2. PICK j \in DOMAIN Imports[f] : imp = Imports[f][j]
    BY DEF ToSet
  <2>3. Imports[f] \in Seq(Import) /\ j \in 1 .. Len(Imports[f]) /\ Len(Imports[f]) \in Nat
    BY LoaderAssumption, LenProperties
  <2>4. imp.dll \in File /\ imp.dll = g
    <3>1. imp.dll \in File
      BY <2>2, <1>0, <1>2, <1>5, ImportFields
    <3> QED
      BY <2>1, <3>1 DEF Faithful
  <2>5. PICK k \in 1 .. Len(stack[u]) : k = Len(stack[u]) /\ stack[u][k] = Top(u)
    BY <1>0, TopModule
  <2>6. LoadSound(u, k) /\ Top(u).next \in Nat
    BY <1>0, <2>5, TopModule, FrameFields
  <2>7. Top(u).next > 0
    BY <1>0, <2>5, <2>6 DEF LoadSound, ModuleSound
  <2>8. Top(u).next \notin DOMAIN Imports[f]
    BY <1>0, <1>1, <1>3, <1>5 DEF HasImport, At
  <2>9. j < Top(u).next
    <3>1. DOMAIN Imports[f] = 1 .. Len(Imports[f])
      BY <2>3, LenProperties
    <3> QED
      BY <2>3, <2>6, <2>7, <2>8, <3>1
  <2>10. j \in PassedImports(stack[u][k])
    BY <1>0, <1>1, <1>5, <2>2, <2>5, <2>9 DEF PassedImports
  <2>11. Available(u, k, imp.dll)
    BY <1>0, <1>1, <1>5, <2>1, <2>2, <2>5, <2>6, <2>10 DEF LoadSound, PassedSound
  <2>12. PICK x \in Listed : files[x] \in {imp.dll, Resolved[imp.dll]}
    BY <2>11 DEF Available
  <2>13. files[x] = g
    BY <2>1, <2>4, <2>12
  <2>14. Found(g) /\ Lives[g] = fate[x] /\ fate[x] # "detached"
    BY <1>0, <2>1, <2>12, <2>13 DEF LivesSound, FatesSound, Found
  <2> QED
    BY <2>1, <2>14 DEF LivesSound
<1>8. CASE f \in Faithful
  <2>1. Lives[f] = "new" /\ Lives' = [Lives EXCEPT ![f] = "attached"]
    BY <1>0, <1>2, <1>4, <1>5, <1>8, LifeOfOne
  <2> QED
    BY <1>7, <1>8, <2>1, LifeAttaches
<1> QED
  BY <1>6, <1>8

LEMMA LifeAttachReturns ==
    ASSUME IInv, LoadOrder, LivesSound, LivesSound', NEW t \in Thread, Steady(t),
           NEW u \in Thread, AttachReturns(u)
    PROVE  [Life!LifeNext]_Life!lifeVars
<1>0. /\ TypeOK /\ LoadsSound /\ stack[u] # <<>> /\ Top(u).at = "entry"
      /\ Loading(Top(u)) /\ UNCHANGED <<Modules, files>>
  BY DEF IInv, LoadOrder, AttachReturns, At, Loading
<1>1. PICK h \in Handle : h = Top(u).mod
  BY <1>0, TopModule
<1>2. h \in Listed /\ fate[h] = "attached"
  BY <1>0, <1>1, TopModule DEF LoadSound, ModuleSound
<1>3. fate' = [fate EXCEPT ![h] = "loaded"]
  BY <1>1 DEF AttachReturns
<1>4. fate'[h] = "loaded" /\ \A x \in Listed : x # h => fate'[x] = fate[x]
  BY <1>0, <1>3, ToSetDef DEF TypeOK, Listed
<1>5. PICK f : f = files[h]
  OBVIOUS
<1>6. CASE f \in Faithful
  <2>1. Lives[f] = "attached" /\ Lives' = [Lives EXCEPT ![f] = "loaded"]
    BY <1>0, <1>2, <1>4, <1>5, <1>6, LifeOfOne
  <2> QED
    BY <1>6, <2>1, LifeSucceeds
<1>7. CASE f \notin Faithful
  BY <1>0, <1>2, <1>4, <1>5, <1>7, LifeOfOne, LifeSame
<1> QED
  BY <1>6, <1>7

\* Fates change only from that of a load in progress, to failure.
LEMMA LifeFailing ==
    ASSUME LivesSound, LivesSound', NEW t \in Thread, Steady(t), UNCHANGED <<Modules, files>>,
           \A h \in Listed : \/ fate'[h] = fate[h]
                             \/ fate[h] \in {"new", "attached"} /\ fate'[h] = "failed"
    PROVE  [Life!LifeNext]_Life!lifeVars
<1>1. ASSUME NEW f \in Faithful
      PROVE  Lives'[f] = Lives[f] \/ (f \in Pending /\ Lives'[f] = "failed")
  BY LifeOfHandle DEF Pending
<1> QED
  BY <1>1, LifeFails

LEMMA LifeFailLoad ==
    ASSUME IInv, LoadOrder, LivesSound, LivesSound', NEW t \in Thread, Steady(t),
           NEW u \in Thread, FailLoad(u)
    PROVE  [Life!LifeNext]_Life!lifeVars
<1>0. /\ TypeOK /\ LoadsSound /\ stack[u] # <<>> /\ Top(u).at = "fail"
      /\ UNCHANGED <<Modules, files>> /\ Listed \subseteq Handle
      /\ fate' = [h \in Handle |-> IF h = Top(u).mod THEN "failed" ELSE fate[h]]
  BY ToSetDef DEF IInv, LoadOrder, FailLoad, At, TypeOK, Listed
<1>1. ASSUME NEW h \in Listed, h = Top(u).mod PROVE fate[h] = "new" /\ fate'[h] = "failed"
  <2>1. h # NoHandle
    BY <1>0, Handles
  <2>2. Loading(Top(u))
    BY <1>0, <1>1, <2>1 DEF Loading
  <2> QED
    BY <1>0, <1>1, <2>2, TopModule
<1>2. ASSUME NEW h \in Listed, h # Top(u).mod PROVE fate'[h] = fate[h]
  BY <1>0, <1>2
<1> QED
  BY <1>0, <1>1, <1>2, LifeFailing

LEMMA LifeFaults ==
    ASSUME IInv, LivesSound, LivesSound', NEW t \in Thread, Steady(t),
           NEW u \in Thread, FaultCaught(u) \/ FaultEndsThread(u) \/ FaultEndsProgram(u)
    PROVE  [Life!LifeNext]_Life!lifeVars
<1>0. /\ TypeOK /\ Listed \subseteq Handle /\ UNCHANGED <<Modules, files>>
  BY ToSetDef DEF IInv, TypeOK, Listed, FaultCaught, FaultEndsThread, FaultEndsProgram
<1>1. PICK k : Unwind(u, k)
  BY DEF FaultCaught, FaultEndsThread, FaultEndsProgram
<1>2. ASSUME NEW h \in Listed
      PROVE  fate'[h] = fate[h] \/ (fate[h] \in {"new", "attached"} /\ fate'[h] = "failed")
  BY <1>0, <1>1 DEF Unwind
<1> QED
  BY <1>0, <1>2, LifeFailing

LEMMA LifeCloseModule ==
    ASSUME IInv, LoadOrder, LivesSound, LivesSound', NEW t \in Thread, Steady(t), CloseModule
    PROVE  [Life!LifeNext]_Life!lifeVars
<1>0. /\ TypeOK /\ LocksHeld /\ OneCopy /\ ListSound /\ FatesSound /\ NoLoadLost /\ Main \in Thread
      /\ stack[Main] = <<>> /\ pc[Main] = "close" /\ files' = files
      /\ Listed \subseteq Handle
  BY LoaderAssumption, ToSetDef DEF IInv, LoadOrder, CloseModule, TypeOK, Listed
<1>1. PICK h \in Listed : /\ h = Last(Modules)
                          /\ Listed = Listed' \cup {h}
                          /\ h \notin Listed'
  BY <1>0, CloseStep
<1>2. \A x \in Listed' : fate'[x] = fate[x]
  BY <1>0, <1>1 DEF CloseModule, TypeOK
<1>3. \A u \in Thread : stack[u] = <<>>
  BY <1>0, InsideAlone
<1>4. \A x \in Listed : fate[x] \notin {"new", "attached", "detached"}
  <2>1. ASSUME NEW u \in Thread PROVE DOMAIN stack[u] = {}
    BY <1>3, EmptySeq
  <2> QED
    BY <1>0, <2>1 DEF NoLoadLost, FatesSound
<1>5. ASSUME NEW f \in Faithful
      PROVE  Lives[f] = "absent" \/ \E x \in Listed : files[x] = f /\ Lives[f] = fate[x]
  BY DEF LivesSound, Found
<1>6. Pending = {}
  BY <1>4, <1>5 DEF Pending
<1>7. PICK f : f = files[h]
  OBVIOUS
<1>8. ASSUME NEW g \in Faithful, g # f PROVE Lives'[g] = Lives[g]
  <2>1. CASE Found(g)
    <3>1. PICK x \in Listed : files[x] = g
      BY <2>1 DEF Found
    <3>2. x \in Listed' /\ files'[x] = g /\ fate'[x] = fate[x]
      BY <1>0, <1>1, <1>2, <1>7, <1>8, <3>1
    <3> QED
      BY <3>1, <3>2 DEF LivesSound
  <2>2. CASE ~Found(g)
    <3>1. ~Found(g)'
      BY <1>0, <1>1, <2>2 DEF Found
    <3> QED
      BY <2>2, <3>1 DEF LivesSound
  <2> QED
    BY <2>1, <2>2
<1>9. CASE f \in Faithful
  <2>1. Lives[f] \in {"loaded", "failed"}
    <3>1. Lives[f] = fate[h] /\ fate[h] \in Fate
      BY <1>0, <1>7, <1>9 DEF LivesSound, TypeOK
    <3> QED
      BY <1>4, <3>1 DEF Fate
  <2>2. ASSUME NEW x \in Listed', files[x] = f PROVE FALSE
    <3>1. x \in Listed /\ x # h
      BY <1>1
    <3>2. PICK i \in DOMAIN Modules : Modules[i] = x
      BY <3>1 DEF Listed, ToSet
    <3>3. PICK j \in DOMAIN Modules : Modules[j] = h
      BY DEF Listed, ToSet
    <3> QED
      BY <1>0, <1>7, <1>9, <2>2, <3>1, <3>2, <3>3 DEF OneCopy
  <2>3. ~Found(f)'
    BY <1>0, <2>2 DEF Found
  <2>4. Lives' = [Lives EXCEPT ![f] = "absent"]
    BY <1>8, <1>9, <2>3 DEF LivesSound
  <2> QED
    BY <1>6, <1>9, <2>1, <2>4, LifeCloses
<1>10. CASE f \notin Faithful
  <2>1. Lives' = Lives
    BY <1>8, <1>10 DEF LivesSound
  <2> QED
    BY <2>1, LifeSame
<1> QED
  BY <1>9, <1>10

-----------------------------------------------------------------------------
(* The refinement                                                          *)

LEMMA LifeInitially == Init => Life!LifeInit
<1> SUFFICES ASSUME Init PROVE Life!LifeInit
  OBVIOUS
<1>1. Listed = {}
  BY EmptySeq DEF Init, Listed, ToSet
<1>2. Lives = [f \in Faithful |-> "absent"]
  BY <1>1 DEF Lives, Found
<1>3. Busy = [t \in Thread |-> {}]
  <2>1. ASSUME NEW t \in Thread PROVE DOMAIN stack[t] = {}
    BY EmptySeq DEF Init
  <2> QED
    BY <2>1 DEF Busy
<1>4. (pc[Main] = "over") = FALSE
  BY LoaderAssumption DEF Init
<1> QED
  BY <1>2, <1>3, <1>4 DEF Life!LifeInit

LEMMA LifeStep ==
    IInv /\ IInv' /\ LoadOrder /\ LoadOrder' /\ [Next]_vars => [Life!LifeNext]_Life!lifeVars
<1> SUFFICES ASSUME IInv, IInv', LoadOrder, LoadOrder', [Next]_vars
             PROVE  [Life!LifeNext]_Life!lifeVars
  OBVIOUS
<1>1. TypeOK /\ WholeProcess /\ LivesSound /\ LivesSound'
  BY LivesAre, LifeSoundNext DEF IInv
<1>2. CASE UNCHANGED vars
  <2>1. Lives' = Lives
    BY <1>2 DEF vars, Lives, Found, Copy, Listed
  <2>2. Busy' = Busy
    BY <1>2 DEF vars, Busy, Loading
  <2>3. (pc[Main] = "over")' = (pc[Main] = "over")
    BY <1>2 DEF vars
  <2> QED
    BY <2>1, <2>2, <2>3 DEF Life!lifeVars
<1>3. CASE Next /\ pc[Main] = "over"
  <2>1. UNCHANGED vars
    BY <1>1, <1>3, NothingAfter
  <2> QED
    BY <2>1, <1>2
<1>4. CASE Next /\ pc[Main] # "over" /\ pc'[Main] = "over"
  BY <1>4, LifeEnds
<1>5. CASE Next /\ pc[Main] # "over" /\ pc'[Main] # "over"
  <2>1. PICK t \in Thread : Steady(t)
    BY <1>5, SteadyStep
  <2>2. CASE UNCHANGED <<Modules, files, fate>>
    <3>1. Lives' = Lives
      BY <2>2 DEF Lives, Found, Copy, Listed
    <3> QED
      BY <2>1, <3>1, LifeSame
  <2>3. CASE CloseModule
    BY <1>1, <2>1, <2>3, LifeCloseModule
  <2>4. ASSUME NEW u \in Thread,
               \/ Open(u) \/ FailLoad(u) \/ Attach(u) \/ AttachReturns(u)
               \/ FaultCaught(u) \/ FaultEndsThread(u) \/ FaultEndsProgram(u)
        PROVE  [Life!LifeNext]_Life!lifeVars
    BY <1>1, <2>1, <2>4, LifeOpen, LifeFailLoad, LifeAttach, LifeAttachReturns, LifeFaults
  <2> QED
    BY <1>5, <2>2, <2>3, <2>4, Quiet
<1> QED
  BY <1>2, <1>3, <1>4, <1>5

\* Every step of the loader is a step of ModuleLife or none: one thread at a time loads,
\* what a module needs is there when its DllMain starts, every load ends in success or
\* failure, and modules are closed when nobody loads (PeLdrLoadModule, PeLdrNotifyNewThread,
\* PeLdrCloseModule).
THEOREM LoaderImplementsLife == Spec => ImplementsLife
<1>1. Init => Life!LifeInit
  BY LifeInitially
<1>2. IInv /\ IInv' /\ LoadOrder /\ LoadOrder' /\ [Next]_vars => [Life!LifeNext]_Life!lifeVars
  BY LifeStep
<1> QED
  BY <1>1, <1>2, LoadsInOrder, LoaderInvariant, PTL DEF Spec, ImplementsLife, Life!LifeSpec
=============================================================================
