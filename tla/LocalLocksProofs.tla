-------------------------- MODULE LocalLocksProofs --------------------------
(***************************************************************************)
(* Proofs about LocalLocks: IInv is inductive, whatever number of threads  *)
(* takes whichever of the locks.  With it no section is used that is not   *)
(* there and what is looked up is made once, for every pointer that no two *)
(* threads got a CLock for at the same time while nobody had made its      *)
(* section beforehand; and no threads wait for each other in a circle.     *)
(* No assumption is made on who calls what.                                *)
(***************************************************************************)
EXTENDS LocalLocks, ListTheorems, FiniteSetTheorems

-----------------------------------------------------------------------------
(* Facts used by several steps                                             *)

Locked == {"find", "make", "in"}

\* The objects of a thread by index, and the innermost one.
LEMMA Objects ==
    ASSUME TypeOK, NEW t \in Thread
    PROVE  /\ Len(locals[t]) \in Nat
           /\ DOMAIN locals[t] = 1 .. Len(locals[t])
           /\ \A i \in 1 .. Len(locals[t]) : locals[t][i] \in CLock
           /\ pc[t] # "out" => /\ Len(locals[t]) \in 1 .. Len(locals[t])
                               /\ Top(t) = locals[t][Len(locals[t])]
                               /\ Top(t) \in CLock
                               /\ Top(t).of \in Pointer
           /\ pc[t] = "out" => Len(locals[t]) = 0
<1>1. locals[t] \in Seq(CLock)
  BY DEF TypeOK
<1>2. /\ Len(locals[t]) \in Nat
      /\ DOMAIN locals[t] = 1 .. Len(locals[t])
      /\ \A i \in 1 .. Len(locals[t]) : locals[t][i] \in CLock
  BY <1>1, LenProperties, ElementOfSeq
<1>3. locals[t] = <<>> <=> Len(locals[t]) = 0
  BY <1>1, ToSetDef
<1>4. Top(t) = locals[t][Len(locals[t])]
  BY DEF Top, Last
<1>5. \A o \in CLock : o.of \in Pointer
  BY DEF CLock
<1> QED
  BY <1>2, <1>3, <1>4, <1>5 DEF TypeOK

\* A thread that took no step holds what it held.
LEMMA HeldOther ==
    ASSUME NEW u, locals'[u] = locals[u], pc'[u] = pc[u], NEW p
    PROVE  HeldBy(u, p)' = HeldBy(u, p)
BY DEF HeldBy

\* Neither does a step inside or outside the locked part change it.
LEMMA HeldMoved ==
    ASSUME TypeOK, NEW t \in Thread, UNCHANGED locals, NEW b,
           pc' = [pc EXCEPT ![t] = b], pc[t] \in Locked <=> b \in Locked,
           NEW u \in Thread, NEW p
    PROVE  HeldBy(u, p)' = HeldBy(u, p)
<1>1. pc'[u] = IF u = t THEN b ELSE pc[u]
  BY DEF TypeOK
<1> QED
  BY <1>1 DEF HeldBy, Locked

\* A thread holds finitely many objects.
LEMMA HeldFinite ==
    ASSUME TypeOK, NEW t \in Thread, NEW p
    PROVE  /\ IsFiniteSet(HeldBy(t, p))
           /\ Cardinality(HeldBy(t, p)) \in Nat
           /\ HeldBy(t, p) # {} <=> Cardinality(HeldBy(t, p)) # 0
<1>1. Len(locals[t]) \in Nat /\ DOMAIN locals[t] = 1 .. Len(locals[t])
  BY Objects
<1>2. /\ HeldBy(t, p) \in SUBSET Nat
      /\ \A i \in HeldBy(t, p) : i <= Len(locals[t])
  BY <1>1 DEF HeldBy
<1>3. IsFiniteSet(HeldBy(t, p))
  BY <1>1, <1>2, FS_BoundedSetOfNaturals
<1> QED
  BY <1>3, FS_CardinalityType, FS_EmptySet

\* The innermost object for a pointer that has no section at the start and that no threads
\* raced for is the only one for it.
LEMMA OnlyObject ==
    ASSUME IInv, NEW t \in Thread, pc[t] # "out", Top(t).of \notin Precreated \cup raced,
           NEW u \in Thread, NEW j \in DOMAIN locals[u], locals[u][j].of = Top(t).of
    PROVE  u = t /\ j = Len(locals[t])
<1>0. TypeOK
  BY DEF IInv
<1>1. /\ Len(locals[t]) \in Nat /\ Len(locals[t]) \in DOMAIN locals[t]
      /\ DOMAIN locals[t] = 1 .. Len(locals[t])
      /\ Top(t) = locals[t][Len(locals[t])]
  BY <1>0, Objects
<1>2. Users(Top(t).of) = {t}
  BY <1>1 DEF IInv, ObjectsSound
<1>3. u = t
  BY <1>2 DEF Users
<1>4. j < Len(locals[t]) => Top(t).of \in Precreated
  BY <1>3, LocalLocksAssumption DEF IInv, ObjectsSound
<1> QED
  BY <1>1, <1>3, <1>4

\* The object whose constructor found no section is for a pointer that had none.
LEMMA OwnObject ==
    ASSUME IInv, NEW t \in Thread, pc[t] # "out", Top(t).OwnCS
    PROVE  Top(t).of \in Pointer \ Precreated
<1>1. /\ Len(locals[t]) \in DOMAIN locals[t]
      /\ Top(t) = locals[t][Len(locals[t])] /\ Top(t).of \in Pointer
  BY Objects DEF IInv
<1> QED
  BY <1>1 DEF IInv, ObjectsSound

\* The section of an object that has been constructed is ready.
LEMMA SectionReady ==
    ASSUME IInv, NEW t \in Thread, NEW i \in DOMAIN locals[t], locals[t][i].of \notin raced,
           i < Len(locals[t]) \/ pc[t] \notin {"create", "init"}
    PROVE  /\ CS[locals[t][i].of] \in ready
           /\ CS[locals[t][i].of] # Nil
           /\ locals[t][i].of \in Pointer
<1> PICK p : p = locals[t][i].of
  OBVIOUS
<1>0. TypeOK
  BY DEF IInv
<1>1. p \in Pointer /\ Len(locals[t]) \in Nat
  BY <1>0, Objects DEF CLock
<1>2. CS[p] # Nil
  BY DEF IInv, ObjectsSound
<1>3. ASSUME NEW u \in Thread, pc[u] = "init", Top(u).of = p
      PROVE  FALSE
  <2>1. Top(u).OwnCS
    BY <1>3 DEF IInv, StepsSound
  <2>2. Top(u).of \notin Precreated \cup raced
    BY <1>3, <2>1, OwnObject
  <2>3. t = u /\ i = Len(locals[u])
    BY <1>3, <2>2, OnlyObject
  <2> QED
    BY <1>1, <1>3, <2>3
<1>4. CS[p] \in ready
  BY <1>1, <1>2, <1>3 DEF IInv, SectionsSound
<1> QED
  BY <1>1, <1>2, <1>4

\* The same of the innermost object.
LEMMA TopReady ==
    ASSUME IInv, NEW t \in Thread, pc[t] \notin {"out", "create", "init"}, Top(t).of \notin raced
    PROVE  Pointed(t) \in ready
<1>1. Len(locals[t]) \in DOMAIN locals[t] /\ Top(t) = locals[t][Len(locals[t])]
  BY Objects DEF IInv
<1> QED
  BY <1>1, SectionReady DEF Pointed

\* Functions that lock one pointer run one at a time, unless threads raced for it.
LEMMA Exclusion ==
    ASSUME IInv, NEW p \in Pointer \ raced, NEW t \in Thread, NEW u \in Thread,
           HeldBy(t, p) # {}, HeldBy(u, p) # {}
    PROVE  t = u
<1>1. PICK i \in HeldBy(t, p) : TRUE
  OBVIOUS
<1>2. i \in DOMAIN locals[t] /\ locals[t][i].of = p
      /\ (i < Len(locals[t]) \/ pc[t] \notin {"create", "init"})
  BY <1>1 DEF HeldBy
<1>3. CS[p] \in ready
  BY <1>2, SectionReady
<1>4. section[CS[p]].owner = t /\ section[CS[p]].owner = u
  BY <1>3 DEF IInv, HoldsCounted
<1> QED
  BY <1>4

\* What holds of one object and of one thread.
ObjectOf(u, i) ==
    /\ i < Len(locals[u]) => locals[u][i].of \in Nesting
    /\ locals[u][i].OwnCS => locals[u][i].of \notin Precreated
    /\ locals[u][i].of \notin raced =>
          /\ locals[u][i].of \in Precreated \/ Users(locals[u][i].of) = {u}
          /\ i < Len(locals[u]) \/ pc[u] # "create" => CS[locals[u][i].of] # Nil

StepOf(u) ==
    /\ pc[u] \in {"create", "init", "free"} => Top(u).OwnCS
    /\ waiting[u] = Nil <=> pc[u] # "wait"
    /\ pc[u] = "wait" => /\ waiting[u] \in ready
                         /\ \A p \in Pointer \ {Top(u).of} : CS[p] # waiting[u]
    /\ pc[u] # "out" /\ Top(u).of \notin raced =>
          /\ pc[u] = "create" => Pointed(u) = Nil
          /\ pc[u] = "init" => Pointed(u) \in raw
          /\ pc[u] = "wait" => waiting[u] = Pointed(u)
          /\ pc[u] = "make" => made[Top(u).of][Top(u).key] = 0

\* A thread that takes no step keeps its part of StepsSound if what it relies on stays.
LEMMA StepOther ==
    ASSUME IInv, NEW u \in Thread, pc'[u] = pc[u], waiting'[u] = waiting[u],
           Top(u)' = Top(u), raced \subseteq raced',
           pc[u] = "wait" => /\ waiting[u] \in ready'
                             /\ \A q \in Pointer \ {Top(u).of} : CS'[q] # waiting[u],
           pc[u] # "out" /\ Top(u).of \notin raced =>
              /\ Pointed(u)' = Pointed(u)
              /\ pc[u] = "init" => Pointed(u) \in raw'
              /\ pc[u] = "make" => made'[Top(u).of][Top(u).key] = made[Top(u).of][Top(u).key]
    PROVE  StepOf(u)'
<1>1. StepOf(u)
  BY DEF IInv, StepsSound, StepOf
<1> QED
  BY <1>1 DEF StepOf

\* Steps that change no section leave the owners of sections made by a CLock alone.
LEMMA OwnersKept ==
    ASSUME IInv, NEW t \in Thread, section' = section,
           \A p \in Precreated : CS'[p] = CS[p],
           \A u \in Thread : u # t => pc'[u] = pc[u] /\ Top(u)' = Top(u),
           \/ pc[t] \notin Locked
           \/ Top(t).of \in Precreated
           \/ pc'[t] \in Locked /\ Top(t)' = Top(t)
    PROVE  OwnersSound'
<1>1. \A s : Local(s)' <=> Local(s)
  BY DEF Local
<1> SUFFICES ASSUME NEW s \in Section
             PROVE  /\ section[s].owner = NoThread => section[s].count = 0
                    /\ \A u \in Thread : section[s].owner = u /\ Local(s) =>
                          /\ pc'[u] \in Locked
                          /\ Top(u)'.of \notin Precreated
                          /\ section[s].count = 1
                          /\ \A r \in Section : section[r].owner = u /\ Local(r) => r = s
  BY <1>1 DEF OwnersSound, Locked
<1>2. section[s].owner = NoThread => section[s].count = 0
  BY DEF IInv, OwnersSound
<1>3. ASSUME NEW u \in Thread, section[s].owner = u, Local(s)
      PROVE  /\ pc'[u] \in Locked
             /\ Top(u)'.of \notin Precreated
             /\ section[s].count = 1
             /\ \A r \in Section : section[r].owner = u /\ Local(r) => r = s
  <2>1. /\ pc[u] \in Locked
        /\ Top(u).of \notin Precreated
        /\ section[s].count = 1
        /\ \A r \in Section : section[r].owner = u /\ Local(r) => r = s
    BY <1>3 DEF IInv, OwnersSound, Locked
  <2> QED
    BY <2>1
<1> QED
  BY <1>2, <1>3

\* A step that changes one section and not those of other pointers leaves these counted.
LEMMA OneSection ==
    ASSUME IInv, NEW p \in Pointer, NEW s \in Section, NEW cs,
           section' = [section EXCEPT ![s] = cs],
           \A q \in Pointer \ {p} : CS[q] # s,
           CS' = CS, raced' = raced, ready' \subseteq ready \cup {s},
           \A u \in Thread, q \in Pointer : q # p => HeldBy(u, q)' = HeldBy(u, q),
           p \notin raced => CS[p] = s,
           p \notin raced => \A u \in Thread :
              /\ HeldBy(u, p)' # {} => cs.owner = u
              /\ cs.owner = u => /\ HeldBy(u, p)' # {}
                                 /\ cs.count = Cardinality(HeldBy(u, p)')
    PROVE  HoldsCounted'
<1>1. section'[s] = cs /\ \A q \in Pointer : CS[q] # s => section'[CS[q]] = section[CS[q]]
  BY DEF IInv, TypeOK
<1> SUFFICES ASSUME NEW q \in Pointer \ raced, CS[q] \in ready', NEW u \in Thread
             PROVE  /\ HeldBy(u, q)' # {} => section'[CS[q]].owner = u
                    /\ section'[CS[q]].owner = u =>
                          /\ HeldBy(u, q)' # {}
                          /\ section'[CS[q]].count = Cardinality(HeldBy(u, q)')
  BY DEF HoldsCounted
<1>2. CASE q = p
  BY <1>1, <1>2
<1>3. CASE q # p
  <2>1. CS[q] \in ready /\ section'[CS[q]] = section[CS[q]]
    BY <1>1, <1>3
  <2>2. HeldBy(u, q)' = HeldBy(u, q)
    BY <1>3
  <2> QED
    BY <2>1, <2>2 DEF IInv, HoldsCounted
<1> QED
  BY <1>2, <1>3

-----------------------------------------------------------------------------
(* Every step preserves the invariant                                      *)

\* A section is misused only behind a pointer that threads raced for.
LEMMA MisuseKeeps ==
    ASSUME IInv, NEW t \in Thread, Misuse(t), Top(t).of \in raced
    PROVE  IInv'
<1>1. /\ misused' = Top(t).of
      /\ UNCHANGED <<CS, ready, raw, section, locals, waiting, pc, made, raced>>
  BY DEF Misuse
<1>2. TypeOK' /\ NoMisuse' /\ MadeOnce'
  BY <1>1 DEF IInv, TypeOK, NoMisuse, MadeOnce
<1>3. ObjectsSound'
  BY <1>1 DEF IInv, ObjectsSound, Users
<1>4. StepsSound'
  BY <1>1 DEF IInv, StepsSound, Top, Pointed
<1>5. SectionsSound'
  BY <1>1 DEF IInv, SectionsSound, Top
<1>6. \A u, p : HeldBy(u, p)' = HeldBy(u, p)
  BY <1>1 DEF HeldBy
<1>7. HoldsCounted'
  BY <1>1, <1>6 DEF IInv, HoldsCounted
<1>8. OwnersSound'
  BY <1>1 DEF IInv, OwnersSound, Local, Top
<1> QED
  BY <1>2, <1>3, <1>4, <1>5, <1>7, <1>8 DEF IInv

\* What steps that change neither pointers, sections nor objects preserve.
LEMMA QuietStep ==
    ASSUME IInv, TypeOK', NEW t \in Thread, NEW b,
           pc' = [pc EXCEPT ![t] = b],
           pc[t] \notin {"out", "create", "init"}, b \notin {"out", "create", "init", "free"},
           pc[t] \in Locked <=> b \in Locked,
           UNCHANGED <<CS, ready, raw, section, locals, misused, raced>>
    PROVE  /\ NoMisuse'
           /\ ObjectsSound'
           /\ SectionsSound'
           /\ HoldsCounted'
           /\ OwnersSound'
<1>0. TypeOK
  BY DEF IInv
<1>1. \A u \in Thread : pc'[u] = IF u = t THEN b ELSE pc[u]
  BY <1>0 DEF TypeOK
<1>2. NoMisuse'
  BY DEF IInv, NoMisuse
<1>3. \A p : Users(p)' = Users(p)
  BY DEF Users
<1>4. ObjectsSound'
  BY <1>1, <1>3 DEF IInv, ObjectsSound
<1>5. \A u : Top(u)' = Top(u)
  BY DEF Top
<1>6. SectionsSound'
  BY <1>1, <1>5 DEF IInv, SectionsSound
<1>7. \A u \in Thread, p \in Pointer : HeldBy(u, p)' = HeldBy(u, p)
  BY <1>0, HeldMoved
<1>8. HoldsCounted'
  BY <1>7 DEF IInv, HoldsCounted
<1>9. OwnersSound'
  BY <1>1, <1>5, OwnersKept
<1> QED
  BY <1>2, <1>4, <1>6, <1>8, <1>9

LEMMA StepLock ==
    ASSUME IInv, NEW t \in Thread, Lock(t)
    PROVE  IInv'
<1>0. TypeOK
  BY DEF IInv
<1>1. pc[t] = "lock"
  BY DEF Lock
<1>2. CASE Pointed(t) \notin ready
  <2>1. Top(t).of \in raced
    BY <1>1, <1>2, TopReady
  <2> QED
    BY <1>2, <2>1, MisuseKeeps DEF Lock
<1>3. CASE Pointed(t) \in ready
  <2>1. /\ pc' = [pc EXCEPT ![t] = "wait"]
        /\ waiting' = [waiting EXCEPT ![t] = Pointed(t)]
        /\ UNCHANGED <<CS, ready, raw, section, locals, made, misused, raced>>
    BY <1>3 DEF Lock, Goto
  <2>2. \A u \in Thread : /\ pc'[u] = IF u = t THEN "wait" ELSE pc[u]
                          /\ waiting'[u] = IF u = t THEN Pointed(t) ELSE waiting[u]
                          /\ Pointed(u)' = Pointed(u)
                          /\ Top(u)' = Top(u)
    BY <1>0, <2>1 DEF TypeOK, Pointed, Top
  <2>3. Pointed(t) \in Section /\ Pointed(t) # Nil
    BY <1>0, <1>3, LocalLocksAssumption DEF TypeOK
  <2>4. TypeOK'
    BY <1>0, <1>1, <2>1, <2>2, <2>3 DEF TypeOK, Location
  <2>5. ASSUME NEW u \in Thread PROVE StepOf(u)'
    <3>1. CASE u = t
      <4>1. Top(t).of \in Pointer
        BY <1>0, <1>1, Objects
      <4>2. \A q \in Pointer \ {Top(t).of} : CS[q] # Pointed(t)
        BY <2>3, <4>1 DEF IInv, SectionsSound, Pointed
      <4> QED
        BY <1>3, <2>1, <2>2, <2>3, <3>1, <4>2 DEF StepOf
    <3>2. CASE u # t
      <4>1. pc[u] = "wait" => waiting[u] \in ready
                              /\ \A q \in Pointer \ {Top(u).of} : CS[q] # waiting[u]
        BY DEF IInv, StepsSound
      <4>2. pc[u] = "init" /\ Top(u).of \notin raced => Pointed(u) \in raw
        BY DEF IInv, StepsSound
      <4> QED
        BY <2>1, <2>2, <3>2, <4>1, <4>2, StepOther
    <3> QED
      BY <3>1, <3>2
  <2>6. StepsSound'
    BY <2>5 DEF StepsSound, StepOf
  <2>7. MadeOnce'
    BY <2>1 DEF IInv, MadeOnce
  <2>8. NoMisuse' /\ ObjectsSound' /\ SectionsSound' /\ HoldsCounted' /\ OwnersSound'
    BY <1>1, <2>1, <2>4, QuietStep DEF Locked
  <2> QED
    BY <2>4, <2>6, <2>7, <2>8 DEF IInv
<1> QED
  BY <1>2, <1>3

LEMMA StepFind ==
    ASSUME IInv, NEW t \in Thread, Find(t)
    PROVE  IInv'
<1>0. TypeOK
  BY DEF IInv
<1>1. pc[t] = "find"
  BY DEF Find
<1>2. PICK b : /\ b = IF made[Top(t).of][Top(t).key] > 0 THEN "in" ELSE "make"
               /\ pc' = [pc EXCEPT ![t] = b]
               /\ UNCHANGED <<CS, ready, raw, section, locals, waiting, made, misused, raced>>
  BY DEF Find
<1>3. made[Top(t).of][Top(t).key] \in Nat
  <2>1. Top(t).of \in Pointer /\ Top(t).key \in Key
    BY <1>0, <1>1, Objects DEF CLock
  <2> QED
    BY <1>0, <2>1 DEF TypeOK
<1>4. b \in {"in", "make"} /\ (b = "make" => made[Top(t).of][Top(t).key] = 0)
  BY <1>2, <1>3
<1>5. \A u \in Thread : /\ pc'[u] = IF u = t THEN b ELSE pc[u]
                        /\ waiting'[u] = waiting[u]
                        /\ Pointed(u)' = Pointed(u)
                        /\ Top(u)' = Top(u)
  BY <1>0, <1>2 DEF TypeOK, Pointed, Top
<1>6. TypeOK'
  BY <1>0, <1>1, <1>2, <1>4, <1>5 DEF TypeOK, Location
<1>7. ASSUME NEW u \in Thread PROVE StepOf(u)'
  <2>1. StepOf(u)
    BY DEF IInv, StepsSound, StepOf
  <2> QED
    BY <1>1, <1>2, <1>4, <1>5, <2>1 DEF StepOf
<1>8. StepsSound'
  BY <1>7 DEF StepsSound, StepOf
<1>9. MadeOnce'
  BY <1>2 DEF IInv, MadeOnce
<1>10. NoMisuse' /\ ObjectsSound' /\ SectionsSound' /\ HoldsCounted' /\ OwnersSound'
  BY <1>1, <1>2, <1>4, <1>6, QuietStep DEF Locked
<1> QED
  BY <1>6, <1>8, <1>9, <1>10 DEF IInv

LEMMA StepMake ==
    ASSUME IInv, NEW t \in Thread, Make(t)
    PROVE  IInv'
<1>0. TypeOK
  BY DEF IInv
<1> PICK p, k : p = Top(t).of /\ k = Top(t).key
  OBVIOUS
<1>1. pc[t] = "make" /\ (p \notin raced => made[p][k] = 0)
  BY DEF Make, Goto, IInv, StepsSound
<1>2. p \in Pointer /\ k \in Key
  BY <1>0, <1>1, Objects DEF CLock
<1>3. /\ pc' = [pc EXCEPT ![t] = "in"]
      /\ UNCHANGED <<CS, ready, raw, section, locals, waiting, misused, raced>>
  BY DEF Make, Goto
<1>4. made' = [made EXCEPT ![p][k] = @ + 1] \/ made' = made
  BY DEF Make
<1>5. \A u \in Thread : /\ pc'[u] = IF u = t THEN "in" ELSE pc[u]
                        /\ waiting'[u] = waiting[u]
                        /\ Pointed(u)' = Pointed(u)
                        /\ Top(u)' = Top(u)
  BY <1>0, <1>3 DEF TypeOK, Pointed, Top
<1>6. \A q \in Pointer, l \in Key :
         \/ made'[q][l] = made[q][l]
         \/ q = p /\ l = k /\ (p \notin raced => made'[q][l] = 1)
  BY <1>0, <1>1, <1>2, <1>4 DEF TypeOK
<1>7. TypeOK'
  <2>1. made' \in [Pointer -> [Key -> Nat]]
    <3>1. made \in [Pointer -> [Key -> Nat]]
      BY <1>0 DEF TypeOK
    <3>2. made[p] \in [Key -> Nat] /\ made[p][k] + 1 \in Nat
      BY <1>2, <3>1
    <3>3. [made[p] EXCEPT ![k] = @ + 1] \in [Key -> Nat]
      BY <1>2, <3>2
    <3> QED
      BY <1>2, <1>4, <3>1, <3>3
  <2> QED
    BY <1>0, <1>1, <1>3, <1>5, <2>1 DEF TypeOK, Location
<1>8. ASSUME NEW u \in Thread, pc[u] = "make", Top(u).of = p, p \notin raced
      PROVE  u = t
  <2>1. Len(locals[t]) \in HeldBy(t, p)
    BY <1>0, <1>1, Objects DEF HeldBy
  <2>2. Len(locals[u]) \in HeldBy(u, p)
    BY <1>0, <1>8, Objects DEF HeldBy
  <2> QED
    BY <1>2, <1>8, <2>1, <2>2, Exclusion
<1>9. ASSUME NEW u \in Thread PROVE StepOf(u)'
  <2>1. StepOf(u)
    BY DEF IInv, StepsSound, StepOf
  <2>2. CASE u = t
    BY <1>1, <1>3, <1>5, <2>1, <2>2 DEF StepOf
  <2>3. CASE u # t
    <3>1. ASSUME pc[u] = "make", Top(u).of \notin raced
          PROVE  made'[Top(u).of][Top(u).key] = made[Top(u).of][Top(u).key]
      <4>1. Top(u).of \in Pointer /\ Top(u).key \in Key /\ Top(u).of # p
        BY <1>0, <1>8, <2>3, <3>1, Objects DEF CLock
      <4> QED
        BY <1>6, <4>1
    <3>2. pc[u] = "wait" => waiting[u] \in ready
                            /\ \A q \in Pointer \ {Top(u).of} : CS[q] # waiting[u]
      BY <2>1 DEF StepOf
    <3>3. pc[u] = "init" /\ Top(u).of \notin raced => Pointed(u) \in raw
      BY <2>1 DEF StepOf
    <3> QED
      BY <1>3, <1>5, <2>3, <3>1, <3>2, <3>3, StepOther
  <2> QED
    BY <2>2, <2>3
<1>10. StepsSound'
  BY <1>9 DEF StepsSound, StepOf
<1>11. MadeOnce'
  BY <1>3, <1>6 DEF IInv, MadeOnce
<1>12. NoMisuse' /\ ObjectsSound' /\ SectionsSound' /\ HoldsCounted' /\ OwnersSound'
  BY <1>1, <1>3, <1>7, QuietStep DEF Locked
<1> QED
  BY <1>7, <1>10, <1>11, <1>12 DEF IInv

\* What a constructor adds is not locked yet.
LEMMA HeldAppended ==
    ASSUME TypeOK, NEW t \in Thread, pc[t] \in {"out", "in"}, pc'[t] \notin Locked,
           Len(locals'[t]) = Len(locals[t]) + 1,
           DOMAIN locals'[t] = 1 .. Len(locals[t]) + 1,
           \A i \in 1 .. Len(locals[t]) : locals'[t][i] = locals[t][i],
           NEW p
    PROVE  HeldBy(t, p)' = HeldBy(t, p)
<1>1. /\ Len(locals[t]) \in Nat /\ DOMAIN locals[t] = 1 .. Len(locals[t])
      /\ pc[t] = "out" => Len(locals[t]) = 0
  BY Objects
<1>2. HeldBy(t, p) = {i \in 1 .. Len(locals[t]) : locals[t][i].of = p}
  BY <1>1 DEF HeldBy
<1>3. HeldBy(t, p)' = {i \in 1 .. Len(locals[t]) : locals[t][i].of = p}
  BY <1>1 DEF HeldBy, Locked
<1> QED
  BY <1>2, <1>3

LEMMA StepConstruct ==
    ASSUME IInv, misused = Nil,
           NEW t \in Thread, NEW p \in Pointer, NEW k \in Key, Construct(t, p, k)
    PROVE  IInv'
<1> DEFINE n == Len(locals[t])
           o == [of |-> p, OwnCS |-> CS[p] = Nil, key |-> k]
           b == IF CS[p] = Nil THEN "create" ELSE "lock"
<1>0. TypeOK
  BY DEF IInv
<1>1. /\ pc[t] \in {"out", "in"}
      /\ pc[t] = "in" => Top(t).of \in Nesting
      /\ locals' = [locals EXCEPT ![t] = Append(@, o)]
      /\ pc' = [pc EXCEPT ![t] = b]
      /\ UNCHANGED <<CS, ready, raw, section, waiting, made, misused>>
  BY DEF Construct
<1>2. /\ raced \subseteq raced' /\ raced' \subseteq raced \cup {p}
      /\ p \in raced' /\ p \notin raced => p \notin Precreated
      /\ p \notin raced' => p \in Precreated \/ Users(p) \subseteq {t}
  BY DEF Construct, Races
<1>3. o \in CLock /\ o.of = p /\ (o.OwnCS <=> CS[p] = Nil)
  BY DEF CLock
<1>4. b \in {"create", "lock"} /\ (b = "create" <=> CS[p] = Nil)
  OBVIOUS
<1>5. n \in Nat /\ DOMAIN locals[t] = 1 .. n /\ (pc[t] = "out" => n = 0)
  BY <1>0, Objects
<1>6. pc[t] = "in" => n \in 1 .. n /\ locals[t][n].of \in Nesting
  BY <1>0, <1>1, Objects
<1> HIDE DEF o, b, n
<1>7. /\ locals'[t] \in Seq(CLock)
      /\ Len(locals'[t]) = n + 1
      /\ DOMAIN locals'[t] = 1 .. n + 1
      /\ \A i \in 1 .. n : locals'[t][i] = locals[t][i]
      /\ locals'[t][n + 1] = o
  BY <1>0, <1>1, <1>3, AppendProperties, LenProperties DEF TypeOK, n
<1>8. Top(t)' = o
  BY <1>7 DEF Top, Last
<1>9. \A u \in Thread : /\ pc'[u] = IF u = t THEN b ELSE pc[u]
                        /\ waiting'[u] = waiting[u]
                        /\ u # t => /\ locals'[u] = locals[u]
                                    /\ Top(u)' = Top(u)
                                    /\ Pointed(u)' = Pointed(u)
  BY <1>0, <1>1 DEF TypeOK, Top, Pointed
<1>10. TypeOK'
  <2>1. locals' \in [Thread -> Seq(CLock)]
    BY <1>0, <1>1, <1>7 DEF TypeOK
  <2>2. pc' \in [Thread -> Location]
    BY <1>0, <1>1, <1>4 DEF TypeOK, Location
  <2>3. \A u \in Thread : pc'[u] = "out" <=> locals'[u] = <<>>
    <3>1. locals'[t] # <<>>
      BY <1>5, <1>7, ToSetDef
    <3> QED
      BY <1>0, <1>4, <1>9, <3>1 DEF TypeOK
  <2>4. raced' \in SUBSET (Pointer \ Precreated)
    BY <1>0, <1>2 DEF TypeOK
  <2> QED
    BY <1>0, <1>1, <2>1, <2>2, <2>3, <2>4 DEF TypeOK
<1>11. /\ \A q : q # p => Users(q)' = Users(q)
       /\ Users(p)' = Users(p) \cup {t}
  <2>1. \A q, u : u \in Users(q) <=> u \in Thread /\ \E i \in DOMAIN locals[u] : locals[u][i].of = q
    BY DEF Users
  <2>2. \A q, u : u \in Users(q)' <=>
                  u \in Thread /\ \E i \in DOMAIN locals'[u] : locals'[u][i].of = q
    BY DEF Users
  <2>3. ASSUME NEW q
        PROVE  (\E i \in DOMAIN locals'[t] : locals'[t][i].of = q) <=>
               (\E i \in DOMAIN locals[t] : locals[t][i].of = q) \/ q = p
    <3>1. DOMAIN locals'[t] = DOMAIN locals[t] \cup {n + 1}
      BY <1>5, <1>7
    <3> QED
      BY <1>3, <1>5, <1>7, <3>1
  <2>4. ASSUME NEW q, NEW u
        PROVE  u \in Users(q)' <=> u \in Users(q) \/ (u = t /\ q = p)
    BY <1>9, <2>1, <2>2, <2>3
  <2>5. ASSUME NEW q, q # p
        PROVE  Users(q)' = Users(q)
    <3>1. \A u : u \in Users(q)' <=> u \in Users(q)
      BY <2>4, <2>5
    <3> QED
      BY <3>1
  <2>6. Users(p)' = Users(p) \cup {t}
    <3>1. \A u : u \in Users(p)' <=> u \in Users(p) \cup {t}
      BY <2>4
    <3> QED
      BY <3>1
  <2> QED
    BY <2>5, <2>6
<1>12. p \in Precreated => CS[p] # Nil
  BY <1>0, LocalLocksAssumption DEF IInv, SectionsSound, TypeOK
<1>13. ASSUME NEW u \in Thread, NEW i \in DOMAIN locals'[u] PROVE ObjectOf(u, i)'
  <2>1. CASE u # t
    <3>1. ObjectOf(u, i) /\ i \in DOMAIN locals[u]
      BY <1>9, <1>13, <2>1 DEF IInv, ObjectsSound, ObjectOf
    <3> PICK q : q = locals[u][i].of
      OBVIOUS
    <3>2. locals'[u] = locals[u] /\ locals'[u][i].of = q
      BY <1>9, <2>1
    <3>3. q = p => u \in Users(p)
      BY <3>1 DEF Users
    <3>4. q \notin raced' => q \in Precreated \/ Users(q)' = {u}
      BY <1>2, <1>11, <2>1, <3>1, <3>3 DEF ObjectOf
    <3>5. /\ i < Len(locals'[u]) => q \in Nesting
          /\ locals'[u][i].OwnCS => q \notin Precreated
          /\ q \notin raced' /\ (i < Len(locals'[u]) \/ pc'[u] # "create") => CS'[q] # Nil
      BY <1>1, <1>2, <1>9, <2>1, <3>1, <3>2 DEF ObjectOf
    <3> QED
      BY <3>2, <3>4, <3>5 DEF ObjectOf
  <2>2. CASE u = t /\ i \in 1 .. n
    <3>1. ObjectOf(t, i) /\ locals'[t][i] = locals[t][i] /\ i < Len(locals'[t])
      <4>1. i \in DOMAIN locals[t] /\ i < n + 1
        BY <1>5, <2>2
      <4>2. ObjectOf(t, i)
        BY <4>1 DEF IInv, ObjectsSound, ObjectOf
      <4> QED
        BY <1>7, <2>2, <4>1, <4>2
    <3>2. locals[t][i].of \in Nesting
      <4>1. CASE i < n
        BY <3>1, <4>1 DEF ObjectOf, n
      <4>2. CASE i = n
        BY <1>1, <1>5, <1>6, <2>2, <4>2
      <4> QED
        BY <1>5, <2>2, <4>1, <4>2
    <3>3. locals[t][i].of \notin raced => CS[locals[t][i].of] # Nil
      BY <1>1, <3>1 DEF ObjectOf
    <3>4. locals[t][i].of \in Precreated
      BY <3>2, LocalLocksAssumption
    <3> QED
      BY <1>1, <1>2, <2>2, <3>1, <3>2, <3>3, <3>4 DEF ObjectOf
  <2>3. CASE u = t /\ i = n + 1
    <3>1. locals'[t][i] = o /\ i = Len(locals'[t])
      BY <1>7, <2>3
    <3>2. p \notin raced' => p \in Precreated \/ Users(p)' = {t}
      BY <1>2, <1>11
    <3>3. ~(i < Len(locals'[t]))
      BY <1>5, <2>3, <3>1
    <3> QED
      BY <1>1, <1>3, <1>4, <1>9, <1>12, <2>3, <3>1, <3>2, <3>3 DEF ObjectOf
  <2> QED
    BY <1>5, <1>7, <2>1, <2>2, <2>3
<1>14. ObjectsSound'
  BY <1>13 DEF ObjectsSound, ObjectOf
<1>15. ASSUME NEW u \in Thread PROVE StepOf(u)'
  <2>1. StepOf(u)
    BY DEF IInv, StepsSound, StepOf
  <2>2. CASE u # t
    <3>1. /\ pc'[u] = pc[u] /\ waiting'[u] = waiting[u]
          /\ Top(u)' = Top(u) /\ Pointed(u)' = Pointed(u)
      BY <1>9, <2>2
    <3>2. pc[u] = "wait" => /\ waiting[u] \in ready'
                            /\ \A q \in Pointer \ {Top(u).of} : CS'[q] # waiting[u]
      BY <1>1, <2>1 DEF StepOf
    <3>3. pc[u] = "init" /\ Top(u).of \notin raced => Pointed(u) \in raw'
      BY <1>1, <2>1 DEF StepOf
    <3> QED
      BY <1>1, <1>2, <3>1, <3>2, <3>3, StepOther
  <2>3. CASE u = t
    <3>1. waiting[t] = Nil
      BY <1>1, <2>1, <2>3 DEF StepOf
    <3>2. pc'[t] = b /\ waiting'[t] = Nil /\ Top(t)'.OwnCS = o.OwnCS /\ Pointed(t)' = CS[p]
      BY <1>1, <1>3, <1>8, <1>9, <3>1 DEF Pointed
    <3> QED
      BY <1>3, <1>4, <1>8, <2>3, <3>2 DEF StepOf
  <2> QED
    BY <2>2, <2>3
<1>16. StepsSound'
  BY <1>15 DEF StepsSound, StepOf
<1>17. SectionsSound'
  <2>1. \A q \in Pointer, u \in Thread : pc[u] = "init" /\ Top(u).of = q =>
                                         pc'[u] = "init" /\ Top(u)'.of = q
    BY <1>1, <1>9
  <2> QED
    BY <1>1, <1>2, <2>1 DEF IInv, SectionsSound
<1>18. HoldsCounted'
  <2>1. ASSUME NEW u \in Thread, NEW q \in Pointer
        PROVE  HeldBy(u, q)' = HeldBy(u, q)
    <3>1. pc'[t] \notin Locked
      BY <1>4, <1>9 DEF Locked
    <3>2. CASE u = t
      BY <1>0, <1>1, <1>7, <3>1, <3>2, HeldAppended DEF n
    <3>3. CASE u # t
      BY <1>9, <3>3, HeldOther
    <3> QED
      BY <3>2, <3>3
  <2> QED
    BY <1>1, <1>2, <2>1 DEF IInv, HoldsCounted
<1>19. OwnersSound'
  <2>1. pc[t] \notin Locked \/ Top(t).of \in Precreated
    BY <1>1, LocalLocksAssumption DEF Locked
  <2>2. \A u \in Thread : u # t => pc'[u] = pc[u] /\ Top(u)' = Top(u)
    BY <1>9
  <2> QED
    BY <1>1, <2>1, <2>2, OwnersKept
<1>20. NoMisuse' /\ MadeOnce'
  BY <1>1, <1>2 DEF IInv, NoMisuse, MadeOnce
<1> QED
  BY <1>10, <1>14, <1>16, <1>17, <1>18, <1>19, <1>20 DEF IInv

LEMMA StepCreate ==
    ASSUME IInv, NEW t \in Thread, Create(t)
    PROVE  IInv'
<1> PICK p : p = Top(t).of
  OBVIOUS
<1>0. TypeOK
  BY DEF IInv
<1>1. /\ pc[t] = "create"
      /\ pc' = [pc EXCEPT ![t] = "init"]
      /\ UNCHANGED <<ready, section, locals, waiting, made, misused, raced>>
  BY DEF Create, Goto
<1>2. PICK s \in Section \ (ready \cup raw) : /\ CS' = [CS EXCEPT ![p] = s]
                                              /\ raw' = raw \cup {s}
  BY DEF Create
<1>3. p \in Pointer \ Precreated /\ s # Nil /\ Top(t).OwnCS
  <2>1. Top(t).OwnCS
    BY <1>1 DEF IInv, StepsSound
  <2> QED
    BY <1>1, <1>2, <2>1, OwnObject, LocalLocksAssumption
<1>4. \A q \in Pointer : CS'[q] = IF q = p THEN s ELSE CS[q]
  BY <1>0, <1>2 DEF TypeOK
<1>5. \A u \in Thread : /\ pc'[u] = IF u = t THEN "init" ELSE pc[u]
                        /\ waiting'[u] = waiting[u]
                        /\ Top(u)' = Top(u)
                        /\ locals'[u] = locals[u]
  BY <1>0, <1>1 DEF TypeOK, Top
<1>6. \A q \in Pointer : CS[q] # Nil => CS[q] \in ready \cup raw /\ CS[q] # s
  BY DEF IInv, SectionsSound
<1>7. TypeOK'
  BY <1>0, <1>1, <1>2, <1>3, <1>5 DEF TypeOK, Location
<1>8. ASSUME NEW u \in Thread, NEW i \in DOMAIN locals[u] PROVE ObjectOf(u, i)'
  <2>1. ObjectOf(u, i)
    BY DEF IInv, ObjectsSound, ObjectOf
  <2>2. locals[u][i].of \in Pointer
    BY <1>0, Objects DEF CLock
  <2>3. Users(locals[u][i].of)' = Users(locals[u][i].of)
    BY <1>1 DEF Users
  <2>4. ASSUME locals[u][i].of \notin raced, i < Len(locals[u]) \/ pc'[u] # "create"
        PROVE  CS'[locals[u][i].of] # Nil
    <3>1. CASE locals[u][i].of = p
      BY <1>3, <1>4, <3>1
    <3>2. CASE locals[u][i].of # p
      <4>1. i < Len(locals[u]) \/ pc[u] # "create"
        <5>1. CASE u # t
          BY <1>5, <2>4, <5>1
        <5>2. CASE u = t
          BY <1>0, <1>1, <3>2, <5>2, Objects
        <5> QED
          BY <5>1, <5>2
      <4> QED
        BY <1>4, <2>1, <2>2, <2>4, <3>2, <4>1 DEF ObjectOf
    <3> QED
      BY <3>1, <3>2
  <2> QED
    BY <1>1, <1>5, <2>1, <2>3, <2>4 DEF ObjectOf
<1>9. ObjectsSound'
  BY <1>1, <1>8 DEF ObjectsSound, ObjectOf
<1>10. ASSUME NEW u \in Thread, pc[u] # "out", u # t, Top(u).of \notin raced
       PROVE  Top(u).of \in Pointer \ {p}
  <2>1. /\ Len(locals[u]) \in DOMAIN locals[u] /\ Top(u) = locals[u][Len(locals[u])]
        /\ Top(u).of \in Pointer
    BY <1>0, <1>10, Objects
  <2> QED
    BY <1>1, <1>3, <1>10, <2>1, OnlyObject
<1>11. ASSUME NEW u \in Thread PROVE StepOf(u)'
  <2>1. StepOf(u)
    BY DEF IInv, StepsSound, StepOf
  <2>2. pc[u] = "wait" => /\ waiting[u] \in ready'
                          /\ \A q \in Pointer \ {Top(u).of} : CS'[q] # waiting[u]
    BY <1>1, <1>2, <1>4, <2>1 DEF StepOf
  <2>3. CASE u = t
    <3>1. Pointed(t)' = s /\ s \in raw'
      BY <1>2, <1>3, <1>4, <1>5 DEF Pointed
    <3>2. waiting[t] = Nil
      BY <1>1, <2>1, <2>3 DEF StepOf
    <3> QED
      BY <1>1, <1>3, <1>5, <2>3, <3>1, <3>2 DEF StepOf
  <2>4. CASE u # t
    <3>1. pc[u] # "out" /\ Top(u).of \notin raced => Pointed(u)' = Pointed(u)
      BY <1>4, <1>5, <1>10, <2>4 DEF Pointed
    <3>2. pc[u] = "init" /\ Top(u).of \notin raced => Pointed(u) \in raw'
      BY <1>2, <2>1 DEF StepOf
    <3> QED
      BY <1>1, <1>5, <2>2, <2>4, <3>1, <3>2, StepOther
  <2> QED
    BY <2>3, <2>4
<1>12. StepsSound'
  BY <1>11 DEF StepsSound, StepOf
<1>13. SectionsSound'
  <2> SUFFICES ASSUME NEW q \in Pointer
               PROVE  /\ q \in Precreated => CS'[q] \in ready
                      /\ CS'[q] # Nil => \/ CS'[q] \in ready
                                         \/ /\ CS'[q] \in raw'
                                            /\ \/ q \in raced
                                               \/ \E u \in Thread : pc'[u] = "init" /\ Top(u)'.of = q
                      /\ \A r \in Pointer : CS'[q] # Nil /\ CS'[q] = CS'[r] => q = r
    BY <1>1 DEF SectionsSound
  <2>1. CASE q = p
    BY <1>1, <1>2, <1>3, <1>4, <1>5, <1>6, <2>1
  <2>2. CASE q # p
    <3>1. CS'[q] = CS[q]
      BY <1>4, <2>2
    <3>2. \A r \in Pointer : CS[q] # Nil /\ CS[q] = CS'[r] => q = r
      BY <1>4, <1>6 DEF IInv, SectionsSound
    <3>3. q \in Precreated => CS[q] \in ready
      BY DEF IInv, SectionsSound
    <3>4. ASSUME CS[q] # Nil, CS[q] \notin ready
          PROVE  /\ CS[q] \in raw
                 /\ q \in raced \/ \E u \in Thread : pc'[u] = "init" /\ Top(u)'.of = q
      <4>1. /\ CS[q] \in raw
            /\ q \in raced \/ \E u \in Thread : pc[u] = "init" /\ Top(u).of = q
        BY <3>4 DEF IInv, SectionsSound
      <4> QED
        BY <1>5, <4>1
    <3> QED
      BY <1>1, <1>2, <3>1, <3>2, <3>3, <3>4
  <2> QED
    BY <2>1, <2>2
<1>14. HoldsCounted'
  <2>1. \A u \in Thread, q \in Pointer : HeldBy(u, q)' = HeldBy(u, q)
    BY <1>0, <1>1, HeldMoved DEF Locked
  <2>2. \A q \in Pointer : CS'[q] \in ready => CS'[q] = CS[q]
    BY <1>4
  <2> QED
    BY <1>1, <2>1, <2>2 DEF IInv, HoldsCounted
<1>15. OwnersSound'
  <2>1. \A q \in Precreated : CS'[q] = CS[q]
    BY <1>3, <1>4, LocalLocksAssumption
  <2>2. pc[t] \notin Locked
    BY <1>1 DEF Locked
  <2> QED
    BY <1>1, <1>5, <2>1, <2>2, OwnersKept
<1>16. NoMisuse' /\ MadeOnce'
  BY <1>1 DEF IInv, NoMisuse, MadeOnce
<1> QED
  BY <1>7, <1>9, <1>12, <1>13, <1>14, <1>15, <1>16 DEF IInv

LEMMA StepInitialize ==
    ASSUME IInv, NEW t \in Thread, Initialize(t)
    PROVE  IInv'
<1>p. PICK p, s : p = Top(t).of /\ s = CS[p]
  OBVIOUS
<1>0. TypeOK
  BY DEF IInv
<1>1. pc[t] = "init" /\ Top(t).OwnCS /\ (p \notin raced => s \in raw)
  BY <1>p DEF Initialize, IInv, StepsSound, Pointed
<1>2. CASE s \notin raw
  BY <1>1, <1>2, <1>p, MisuseKeeps DEF Initialize, Pointed
<1>3. CASE s \in raw
  <2>1. /\ pc' = [pc EXCEPT ![t] = "lock"]
        /\ raw' = raw \ {s}
        /\ ready' = ready \cup {s}
        /\ section' = [section EXCEPT ![s] = Unowned]
        /\ UNCHANGED <<CS, locals, waiting, made, misused, raced>>
    BY <1>3, <1>p DEF Initialize, Goto, Pointed
  <2>2. p \in Pointer \ Precreated /\ s \in Section /\ s # Nil
    BY <1>0, <1>1, <1>3, <1>p, OwnObject, LocalLocksAssumption DEF TypeOK
  <2>3. \A q \in Pointer \ {p} : CS[q] # s
    BY <1>p, <2>2 DEF IInv, SectionsSound
  <2>4. \A u \in Thread : /\ pc'[u] = IF u = t THEN "lock" ELSE pc[u]
                          /\ waiting'[u] = waiting[u]
                          /\ Pointed(u)' = Pointed(u)
                          /\ Top(u)' = Top(u)
    BY <1>0, <2>1 DEF TypeOK, Pointed, Top
  <2>5. ASSUME p \notin raced, NEW u \in Thread, NEW j \in DOMAIN locals[u], locals[u][j].of = p
        PROVE  u = t /\ j = Len(locals[t])
    BY <1>1, <1>p, <2>2, <2>5, OnlyObject
  <2>6. TypeOK'
    BY <1>0, <1>1, <1>3, <2>1, <2>2, <2>4 DEF TypeOK, Location, CriticalSectionType, Unowned
  <2>7. ObjectsSound'
    <3>1. \A q : Users(q)' = Users(q)
      BY <2>1 DEF Users
    <3> QED
      BY <1>1, <2>1, <2>4, <3>1 DEF IInv, ObjectsSound
  <2>8. ASSUME NEW u \in Thread PROVE StepOf(u)'
    <3>1. StepOf(u)
      BY DEF IInv, StepsSound, StepOf
    <3>2. CASE u = t
      BY <1>1, <2>4, <3>1, <3>2 DEF StepOf
    <3>3. CASE u # t
      <4>1. ASSUME pc[u] = "init", Top(u).of \notin raced
            PROVE  Pointed(u) \in raw'
        <5>1. Pointed(u) \in raw
          BY <3>1, <4>1 DEF StepOf
        <5>2. /\ Len(locals[u]) \in DOMAIN locals[u] /\ Top(u) = locals[u][Len(locals[u])]
              /\ Top(u).of \in Pointer
          BY <1>0, <4>1, Objects
        <5>3. Top(u).of # p
          BY <2>5, <3>3, <4>1, <5>2
        <5> QED
          BY <2>1, <2>3, <5>1, <5>2, <5>3 DEF Pointed
      <4>2. pc[u] = "wait" => /\ waiting[u] \in ready'
                              /\ \A q \in Pointer \ {Top(u).of} : CS'[q] # waiting[u]
        BY <2>1, <3>1 DEF StepOf
      <4> QED
        BY <2>1, <2>4, <3>3, <4>1, <4>2, StepOther
    <3> QED
      BY <3>2, <3>3
  <2>9. StepsSound'
    BY <2>8 DEF StepsSound, StepOf
  <2>10. SectionsSound'
    <3> SUFFICES ASSUME NEW q \in Pointer, CS[q] # Nil, CS[q] \notin ready'
                 PROVE  /\ CS[q] \in raw'
                        /\ q \in raced \/ \E u \in Thread : pc'[u] = "init" /\ Top(u)'.of = q
      BY <2>1 DEF IInv, SectionsSound
    <3>1. CS[q] # s /\ CS[q] \notin ready
      BY <2>1
    <3>2. CS[q] \in raw /\ (q \in raced \/ \E u \in Thread : pc[u] = "init" /\ Top(u).of = q)
      BY <3>1 DEF IInv, SectionsSound
    <3>3. ASSUME NEW u \in Thread, pc[u] = "init", Top(u).of = q
          PROVE  pc'[u] = "init" /\ Top(u)'.of = q
      BY <1>p, <2>4, <3>1, <3>3
    <3> QED
      BY <2>1, <3>1, <3>2, <3>3
  <2>11. HoldsCounted'
    <3>1. \A u \in Thread, q \in Pointer : HeldBy(u, q)' = HeldBy(u, q)
      BY <1>0, <1>1, <2>1, HeldMoved DEF Locked
    <3>2. ASSUME p \notin raced, NEW u \in Thread, NEW j \in HeldBy(u, p)
          PROVE  FALSE
      <4>1. u = t /\ j = Len(locals[t])
        BY <2>5, <3>2 DEF HeldBy
      <4>2. j < Len(locals[t]) \/ pc[t] \in {"find", "make", "in"}
        BY <4>1 DEF HeldBy
      <4> QED
        BY <1>0, <1>1, <4>1, <4>2, Objects
    <3>3. Unowned.owner = NoThread /\ \A u \in Thread : Unowned.owner # u
      BY NoThreadAssumption DEF Unowned
    <3>4. p \notin raced => \A u \in Thread : HeldBy(u, p)' = {}
      BY <2>2, <3>1, <3>2
    <3>5. \A u \in Thread, q \in Pointer : q # p => HeldBy(u, q)' = HeldBy(u, q)
      BY <3>1
    <3>6. p \notin raced => \A u \in Thread :
             /\ HeldBy(u, p)' # {} => Unowned.owner = u
             /\ Unowned.owner = u => /\ HeldBy(u, p)' # {}
                                     /\ Unowned.count = Cardinality(HeldBy(u, p)')
      BY <3>3, <3>4
    <3>7. /\ CS' = CS /\ raced' = raced /\ ready' \subseteq ready \cup {s}
          /\ section' = [section EXCEPT ![s] = Unowned]
      BY <2>1
    <3>8. p \in Pointer /\ s \in Section /\ (p \notin raced => CS[p] = s)
      BY <1>p, <2>2
    <3> QED
      BY <2>3, <3>5, <3>6, <3>7, <3>8, OneSection
  <2>12. OwnersSound'
    <3>1. \A r : Local(r)' <=> Local(r)
      BY <2>1 DEF Local
    <3>2. \A r \in Section : section'[r] = IF r = s THEN Unowned ELSE section[r]
      BY <1>0, <2>1 DEF TypeOK
    <3>3. /\ Unowned.owner = NoThread /\ Unowned.count = 0
          /\ \A u \in Thread : Unowned.owner # u
      BY NoThreadAssumption DEF Unowned
    <3>4. \A u \in Thread : pc[u] \in Locked => pc'[u] \in Locked
      BY <1>1, <2>4 DEF Locked
    <3>5. ASSUME NEW r \in Section, section'[r].owner = NoThread
          PROVE  section'[r].count = 0
      BY <3>2, <3>3, <3>5 DEF IInv, OwnersSound
    <3>6. ASSUME NEW r \in Section, NEW u \in Thread, section'[r].owner = u, Local(r)
          PROVE  /\ pc'[u] \in Locked
                 /\ Top(u)'.of \notin Precreated
                 /\ section'[r].count = 1
                 /\ \A r2 \in Section : section'[r2].owner = u /\ Local(r2) => r2 = r
      <4>1. r # s /\ section[r].owner = u /\ section'[r] = section[r]
        BY <3>2, <3>3, <3>6
      <4>2. /\ pc[u] \in Locked /\ Top(u).of \notin Precreated /\ section[r].count = 1
            /\ \A r2 \in Section : section[r2].owner = u /\ Local(r2) => r2 = r
        BY <3>6, <4>1 DEF IInv, OwnersSound, Locked
      <4> QED
        BY <2>4, <3>2, <3>3, <3>4, <4>1, <4>2
    <3> QED
      BY <3>1, <3>5, <3>6 DEF OwnersSound, Locked
  <2>13. NoMisuse' /\ MadeOnce'
    BY <2>1 DEF IInv, NoMisuse, MadeOnce
  <2> QED
    BY <2>6, <2>7, <2>9, <2>10, <2>11, <2>12, <2>13 DEF IInv
<1> QED
  BY <1>2, <1>3

LEMMA StepEnter ==
    ASSUME IInv, NEW t \in Thread, Enter(t)
    PROVE  IInv'
<1>p. PICK p, n, s, cs : /\ p = Top(t).of
                         /\ n = Len(locals[t])
                         /\ s = waiting[t]
                         /\ cs = Entered(section[s], t)
  OBVIOUS
<1>0. TypeOK
  BY DEF IInv
<1>1. /\ pc[t] = "wait" /\ s \in ready
      /\ \A q \in Pointer \ {p} : CS[q] # s
      /\ p \notin raced => CS[p] = s
  BY <1>p DEF Enter, Goto, IInv, StepsSound, Pointed
<1>2. /\ section[s].owner \in {NoThread, t}
      /\ pc' = [pc EXCEPT ![t] = "find"]
      /\ section' = [section EXCEPT ![s] = cs]
      /\ waiting' = [waiting EXCEPT ![t] = Nil]
      /\ UNCHANGED <<CS, ready, raw, locals, made, misused, raced>>
  BY <1>p DEF Enter, Goto, CanEnter
<1>3. /\ n \in Nat /\ n \in DOMAIN locals[t] /\ DOMAIN locals[t] = 1 .. n
      /\ Top(t) = locals[t][n] /\ p \in Pointer /\ locals[t][n].of = p
  BY <1>0, <1>1, <1>p, Objects
<1>4. s \in Section /\ section[s] \in CriticalSectionType
  BY <1>0, <1>1 DEF TypeOK
<1>5. cs \in CriticalSectionType /\ cs.owner = t /\ cs.count = section[s].count + 1
  BY <1>4, <1>p DEF CriticalSectionType, Entered
<1>6. \A u \in Thread : /\ pc'[u] = IF u = t THEN "find" ELSE pc[u]
                        /\ waiting'[u] = IF u = t THEN Nil ELSE waiting[u]
                        /\ locals'[u] = locals[u]
                        /\ Pointed(u)' = Pointed(u)
                        /\ Top(u)' = Top(u)
  BY <1>0, <1>2 DEF TypeOK, Pointed, Top
<1>7. TypeOK'
  BY <1>0, <1>1, <1>2, <1>4, <1>5, <1>6 DEF TypeOK, Location
<1>8. ObjectsSound'
  <2>1. \A q : Users(q)' = Users(q)
    BY <1>2 DEF Users
  <2> QED
    BY <1>1, <1>2, <1>6, <2>1 DEF IInv, ObjectsSound
<1>9. ASSUME NEW u \in Thread PROVE StepOf(u)'
  <2>1. StepOf(u)
    BY DEF IInv, StepsSound, StepOf
  <2>2. CASE u = t
    BY <1>6, <2>2 DEF StepOf
  <2>3. CASE u # t
    <3>1. pc[u] = "wait" => /\ waiting[u] \in ready'
                            /\ \A q \in Pointer \ {Top(u).of} : CS'[q] # waiting[u]
      BY <1>2, <2>1 DEF StepOf
    <3>2. pc[u] = "init" /\ Top(u).of \notin raced => Pointed(u) \in raw'
      BY <1>2, <2>1 DEF StepOf
    <3> QED
      BY <1>2, <1>6, <2>3, <3>1, <3>2, StepOther
  <2> QED
    BY <2>2, <2>3
<1>10. StepsSound'
  BY <1>9 DEF StepsSound, StepOf
<1>11. SectionsSound'
  <2>1. \A u \in Thread : \A q : pc[u] = "init" /\ Top(u).of = q => pc'[u] = "init" /\ Top(u)'.of = q
    BY <1>1, <1>6
  <2> QED
    BY <1>2, <2>1 DEF IInv, SectionsSound
<1>12. \A u \in Thread : u # t => \A q : HeldBy(u, q)' = HeldBy(u, q)
  BY <1>6, HeldOther
<1>13. /\ HeldBy(t, p)' = HeldBy(t, p) \cup {n}
       /\ n \notin HeldBy(t, p)
       /\ \A q \in Pointer : q # p => HeldBy(t, q)' = HeldBy(t, q)
  <2>1. \A q : HeldBy(t, q) = {i \in 1 .. n : locals[t][i].of = q /\ i < n}
    BY <1>1, <1>3 DEF HeldBy
  <2>2. \A q : HeldBy(t, q)' = {i \in 1 .. n : locals[t][i].of = q}
    BY <1>3, <1>6 DEF HeldBy
  <2>3. HeldBy(t, p)' = HeldBy(t, p) \cup {n} /\ n \notin HeldBy(t, p)
    BY <1>3, <2>1, <2>2
  <2>4. ASSUME NEW q, q # p
        PROVE  HeldBy(t, q)' = HeldBy(t, q)
    <3>1. \A i \in 1 .. n : locals[t][i].of = q => i < n
      BY <1>3, <2>4
    <3>2. {i \in 1 .. n : locals[t][i].of = q /\ i < n} = {i \in 1 .. n : locals[t][i].of = q}
      BY <3>1
    <3> QED
      BY <2>1, <2>2, <3>2
  <2> QED
    BY <2>3, <2>4
<1>14. HoldsCounted'
  <2>1. /\ IsFiniteSet(HeldBy(t, p)) /\ Cardinality(HeldBy(t, p)) \in Nat
        /\ HeldBy(t, p) # {} <=> Cardinality(HeldBy(t, p)) # 0
    BY <1>0, HeldFinite
  <2>2. Cardinality(HeldBy(t, p) \cup {n}) = Cardinality(HeldBy(t, p)) + 1
    BY <1>13, <2>1, FS_AddElement
  <2>3. ASSUME p \notin raced
        PROVE  section[s].count = Cardinality(HeldBy(t, p))
    <3>0. CS[p] = s
      BY <1>1, <2>3
    <3>1. CASE section[s].owner = t
      BY <1>1, <1>3, <2>3, <3>0, <3>1 DEF IInv, HoldsCounted
    <3>2. CASE section[s].owner = NoThread
      <4>1. section[s].count = 0
        BY <1>4, <3>2 DEF IInv, OwnersSound
      <4>2. HeldBy(t, p) = {}
        BY <1>1, <1>3, <2>3, <3>0, <3>2, NoThreadAssumption DEF IInv, HoldsCounted
      <4> QED
        BY <2>1, <4>1, <4>2
    <3> QED
      BY <1>2, <3>1, <3>2
  <2>4. p \notin raced => \A u \in Thread : u # t => HeldBy(u, p)' = {}
    BY <1>1, <1>2, <1>3, <1>12, NoThreadAssumption DEF IInv, HoldsCounted
  <2>5. \A u \in Thread, q \in Pointer : q # p => HeldBy(u, q)' = HeldBy(u, q)
    BY <1>12, <1>13
  <2>6. p \notin raced => HeldBy(t, p)' # {} /\ cs.count = Cardinality(HeldBy(t, p)')
    BY <1>5, <1>13, <2>2, <2>3
  <2>7. p \notin raced => \A u \in Thread :
           /\ HeldBy(u, p)' # {} => cs.owner = u
           /\ cs.owner = u => /\ HeldBy(u, p)' # {}
                              /\ cs.count = Cardinality(HeldBy(u, p)')
    BY <1>5, <2>4, <2>6
  <2>8. /\ section' = [section EXCEPT ![s] = cs]
        /\ ready' \subseteq ready \cup {s} /\ CS' = CS /\ raced' = raced
    BY <1>2
  <2> QED
    BY <1>1, <1>3, <1>4, <2>5, <2>7, <2>8, OneSection
<1>15. OwnersSound'
  <2>1. \A r : Local(r)' <=> Local(r)
    BY <1>2 DEF Local
  <2>2. \A r \in Section : section'[r] = IF r = s THEN cs ELSE section[r]
    BY <1>0, <1>2 DEF TypeOK
  <2>3. ASSUME NEW r \in Section, section[r].owner = t, Local(r) PROVE FALSE
    BY <1>1, <2>3 DEF IInv, OwnersSound
  <2>4. Local(s) => section[s].owner = NoThread /\ section[s].count = 0 /\ p \notin Precreated
    <3>1. Local(s) => section[s].owner = NoThread
      BY <1>2, <1>4, <2>3
    <3>2. section[s].owner = NoThread => section[s].count = 0
      BY <1>4 DEF IInv, OwnersSound
    <3>3. p \in Precreated => p \notin raced
      BY <1>0 DEF TypeOK
    <3> QED
      BY <1>1, <3>1, <3>2, <3>3 DEF Local
  <2>5. ASSUME NEW r \in Section, section'[r].owner = NoThread
        PROVE  section'[r].count = 0
    BY <1>5, <2>2, <2>5, NoThreadAssumption DEF IInv, OwnersSound
  <2>6. ASSUME NEW r \in Section, NEW u \in Thread, section'[r].owner = u, Local(r)
        PROVE  /\ pc'[u] \in Locked
               /\ Top(u)'.of \notin Precreated
               /\ section'[r].count = 1
               /\ \A r2 \in Section : section'[r2].owner = u /\ Local(r2) => r2 = r
    <3>1. CASE r = s
      <4>1. u = t /\ pc'[u] \in Locked /\ Top(u)'.of \notin Precreated
        BY <1>5, <1>6, <1>p, <2>2, <2>4, <2>6, <3>1 DEF Locked
      <4>2. section'[r].count = 1
        BY <1>5, <2>2, <2>4, <2>6, <3>1
      <4>3. \A r2 \in Section : section'[r2].owner = u /\ Local(r2) => r2 = r
        BY <2>2, <2>3, <3>1, <4>1
      <4> QED
        BY <4>1, <4>2, <4>3
    <3>2. CASE r # s
      <4>1. section'[r] = section[r] /\ section[r].owner = u /\ u # t
        BY <2>2, <2>3, <2>6, <3>2
      <4>2. /\ pc[u] \in Locked /\ Top(u).of \notin Precreated /\ section[r].count = 1
            /\ \A r2 \in Section : section[r2].owner = u /\ Local(r2) => r2 = r
        BY <2>6, <4>1 DEF IInv, OwnersSound, Locked
      <4>3. \A r2 \in Section : section'[r2].owner = u => section[r2].owner = u
        BY <1>5, <2>2, <4>1
      <4> QED
        BY <1>6, <4>1, <4>2, <4>3
    <3> QED
      BY <3>1, <3>2
  <2> QED
    BY <2>1, <2>5, <2>6 DEF OwnersSound, Locked
<1>16. NoMisuse' /\ MadeOnce'
  BY <1>2 DEF IInv, NoMisuse, MadeOnce
<1> QED
  BY <1>7, <1>8, <1>10, <1>11, <1>14, <1>15, <1>16 DEF IInv

\* The object of a function that returns is gone, the other objects stay.
LEMMA AfterReturn ==
    ASSUME TypeOK, NEW t \in Thread, pc[t] # "out", Returned(t), NEW n, n = Len(locals[t])
    PROVE  /\ n \in Nat \ {0}
           /\ DOMAIN locals[t] = 1 .. n
           /\ DOMAIN locals'[t] = 1 .. n - 1
           /\ Len(locals'[t]) = n - 1
           /\ \A i \in 1 .. n - 1 : locals'[t][i] = locals[t][i]
           /\ pc'[t] = IF n = 1 THEN "out" ELSE "in"
           /\ \A u \in Thread : u # t => /\ locals'[u] = locals[u]
                                         /\ pc'[u] = pc[u]
                                         /\ Top(u)' = Top(u)
           /\ \A q, i : i \in HeldBy(t, q)' <=> i \in 1 .. n - 1 /\ locals[t][i].of = q
           /\ \A q : Users(q)' \subseteq Users(q)
           /\ locals' \in [Thread -> Seq(CLock)]
           /\ pc' \in [Thread -> Location]
           /\ \A u \in Thread : pc'[u] = "out" <=> locals'[u] = <<>>
<1>1. locals[t] \in Seq(CLock) /\ locals[t] # <<>>
  BY DEF TypeOK
<1>2. n \in Nat \ {0} /\ DOMAIN locals[t] = 1 .. n
  BY Objects
<1>3. /\ locals' = [locals EXCEPT ![t] = Front(locals[t])]
      /\ pc' = [pc EXCEPT ![t] = IF n = 1 THEN "out" ELSE "in"]
  BY DEF Returned
<1>4. locals'[t] = Front(locals[t])
  BY <1>3 DEF TypeOK
<1>5. /\ locals'[t] \in Seq(CLock)
      /\ DOMAIN locals'[t] = 1 .. n - 1
      /\ Len(locals'[t]) = n - 1
      /\ \A i \in 1 .. n - 1 : locals'[t][i] = locals[t][i]
  BY <1>1, <1>4, FrontIndex
<1>6. /\ pc'[t] = IF n = 1 THEN "out" ELSE "in"
      /\ \A u \in Thread : u # t => locals'[u] = locals[u] /\ pc'[u] = pc[u]
  BY <1>3 DEF TypeOK
<1>7. \A u \in Thread : u # t => Top(u)' = Top(u)
  BY <1>6 DEF Top
<1>8. ASSUME NEW q, NEW i
      PROVE  i \in HeldBy(t, q)' <=> i \in 1 .. n - 1 /\ locals[t][i].of = q
  <2>1. CASE n = 1
    BY <1>5, <2>1 DEF HeldBy
  <2>2. CASE n # 1
    <3>1. pc'[t] = "in"
      BY <1>6, <2>2
    <3> QED
      BY <1>5, <3>1 DEF HeldBy
  <2> QED
    BY <2>1, <2>2
<1>9. locals' \in [Thread -> Seq(CLock)] /\ pc' \in [Thread -> Location]
  BY <1>3, <1>4, <1>5 DEF TypeOK, Location
<1>10. ASSUME NEW u \in Thread
       PROVE  pc'[u] = "out" <=> locals'[u] = <<>>
  <2>1. CASE u # t
    BY <1>6, <2>1 DEF TypeOK
  <2>2. CASE u = t
    <3>1. locals'[t] = <<>> <=> Len(locals'[t]) = 0
      BY <1>5, EmptySeq
    <3>2. Len(locals'[t]) = 0 <=> n = 1
      BY <1>2, <1>5
    <3> QED
      BY <1>6, <2>2, <3>1, <3>2
  <2> QED
    BY <2>1, <2>2
<1>11. ASSUME NEW q, NEW u \in Users(q)'
       PROVE  u \in Users(q)
  <2>1. u \in Thread /\ \E i \in DOMAIN locals'[u] : locals'[u][i].of = q
    BY <1>11 DEF Users
  <2>2. PICK i \in DOMAIN locals'[u] : locals'[u][i].of = q
    BY <2>1
  <2>3. i \in DOMAIN locals[u] /\ locals'[u][i] = locals[u][i]
    <3>1. CASE u = t
      <4>1. i \in 1 .. n - 1 /\ i \in 1 .. n
        BY <1>2, <1>5, <3>1
      <4> QED
        BY <1>2, <1>5, <3>1, <4>1
    <3>2. CASE u # t
      BY <1>6, <2>1, <3>2
    <3> QED
      BY <3>1, <3>2
  <2> QED
    BY <2>1, <2>2, <2>3 DEF Users
<1> QED
  BY <1>2, <1>5, <1>6, <1>7, <1>8, <1>9, <1>10, <1>11

\* What a return preserves if the objects that stay keep their sections and nobody waits
\* for a section that goes.
LEMMA ReturnKeeps ==
    ASSUME IInv, NEW t \in Thread, pc[t] \in {"in", "free"}, Returned(t),
           UNCHANGED <<waiting, made, raw, raced>>,
           \A u \in Thread : waiting[u] \in ready => waiting[u] \in ready',
           \A q \in Pointer : CS'[q] # CS[q] => CS'[q] = Nil,
           \A u \in Thread : \A i \in DOMAIN locals'[u] : locals'[u][i].of \notin raced =>
              CS'[locals'[u][i].of] = CS[locals'[u][i].of]
    PROVE  ObjectsSound' /\ StepsSound'
<1> PICK n : n = Len(locals[t])
  OBVIOUS
<1>0. TypeOK
  BY DEF IInv
<1>1. /\ n \in Nat \ {0}
      /\ DOMAIN locals[t] = 1 .. n
      /\ DOMAIN locals'[t] = 1 .. n - 1
      /\ Len(locals'[t]) = n - 1
      /\ \A i \in 1 .. n - 1 : locals'[t][i] = locals[t][i]
      /\ pc'[t] = IF n = 1 THEN "out" ELSE "in"
      /\ \A u \in Thread : u # t => /\ locals'[u] = locals[u]
                                    /\ pc'[u] = pc[u]
                                    /\ Top(u)' = Top(u)
      /\ \A q : Users(q)' \subseteq Users(q)
  BY <1>0, AfterReturn
<1>2. ASSUME NEW u \in Thread, NEW i \in DOMAIN locals'[u] PROVE ObjectOf(u, i)'
  <2> PICK q : q = locals'[u][i].of
    OBVIOUS
  <2>1. /\ i \in DOMAIN locals[u] /\ locals'[u][i] = locals[u][i]
        /\ i < Len(locals'[u]) => i < Len(locals[u])
        /\ i < Len(locals[u]) \/ pc[u] # "create"
           \/ ~(i < Len(locals'[u]) \/ pc'[u] # "create")
    <3>1. CASE u = t
      <4>1. i \in 1 .. n - 1 /\ i \in 1 .. n /\ i < n
        BY <1>1, <1>2, <3>1
      <4> QED
        BY <1>1, <3>1, <4>1
    <3>2. CASE u # t
      BY <1>1, <1>2, <3>2
    <3> QED
      BY <3>1, <3>2
  <2>2. ObjectOf(u, i) /\ locals[u][i].of = q
    BY <2>1 DEF IInv, ObjectsSound, ObjectOf
  <2>3. Users(q) = {u} => Users(q)' = {u}
    <3>1. u \in Users(q)'
      BY <1>2 DEF Users
    <3> QED
      BY <1>1, <3>1
  <2>4. q \notin raced => CS'[q] = CS[q]
    BY <1>2
  <2>5. /\ i < Len(locals'[u]) => q \in Nesting
        /\ locals'[u][i].OwnCS => q \notin Precreated
        /\ q \notin raced =>
              /\ q \in Precreated \/ Users(q)' = {u}
              /\ i < Len(locals'[u]) \/ pc'[u] # "create" => CS'[q] # Nil
    BY <2>1, <2>2, <2>3, <2>4 DEF ObjectOf
  <2> QED
    BY <2>5 DEF ObjectOf
<1>3. ObjectsSound'
  BY <1>2 DEF ObjectsSound, ObjectOf
<1>4. ASSUME NEW u \in Thread PROVE StepOf(u)'
  <2>1. StepOf(u)
    BY DEF IInv, StepsSound, StepOf
  <2>2. CASE u = t
    BY <1>1, <2>1, <2>2 DEF StepOf
  <2>3. CASE u # t
    <3>1. ASSUME pc[u] # "out", Top(u).of \notin raced
          PROVE  Pointed(u)' = Pointed(u)
      <4>1. Len(locals[u]) \in DOMAIN locals[u] /\ Top(u) = locals[u][Len(locals[u])]
        BY <1>0, <3>1, Objects
      <4> QED
        BY <1>1, <2>3, <3>1, <4>1 DEF Pointed
    <3>2. ASSUME pc[u] = "wait"
          PROVE  /\ waiting[u] \in ready'
                 /\ \A q \in Pointer \ {Top(u).of} : CS'[q] # waiting[u]
      <4>1. waiting[u] \in ready /\ waiting[u] # Nil
        BY <2>1, <3>2 DEF StepOf
      <4>2. \A q \in Pointer \ {Top(u).of} : CS[q] # waiting[u]
        BY <2>1, <3>2 DEF StepOf
      <4> QED
        BY <4>1, <4>2
    <3>3. pc[u] = "init" /\ Top(u).of \notin raced => Pointed(u) \in raw'
      BY <2>1 DEF StepOf
    <3> QED
      BY <1>1, <2>3, <3>1, <3>2, <3>3, StepOther
  <2> QED
    BY <2>2, <2>3
<1>5. StepsSound'
  BY <1>4 DEF StepsSound, StepOf
<1> QED
  BY <1>3, <1>5

LEMMA StepUnlock ==
    ASSUME IInv, NEW t \in Thread, Unlock(t)
    PROVE  IInv'
<1>p. PICK p, n, s, cs : /\ p = Top(t).of
                         /\ n = Len(locals[t])
                         /\ s = CS[p]
                         /\ cs = Left(section[s])
  OBVIOUS
<1>0. TypeOK
  BY DEF IInv
<1>1. pc[t] = "in"
  BY DEF Unlock
<1>2. /\ n \in Nat /\ n \in DOMAIN locals[t] /\ DOMAIN locals[t] = 1 .. n
      /\ Top(t) = locals[t][n] /\ locals[t][n].of = p /\ p \in Pointer
  BY <1>0, <1>1, <1>p, Objects
<1>3. HeldBy(t, p) = {i \in 1 .. n : locals[t][i].of = p} /\ n \in HeldBy(t, p)
  BY <1>1, <1>2, <1>p DEF HeldBy
<1>4. p \notin raced => /\ s \in ready
                        /\ section[s].owner = t
                        /\ section[s].count = Cardinality(HeldBy(t, p))
  <2>1. p \notin raced => s \in ready
    BY <1>1, <1>p, TopReady DEF Pointed
  <2> QED
    BY <1>2, <1>3, <1>p, <2>1 DEF IInv, HoldsCounted
<1>5. CASE s \notin ready \/ section[s].owner # t
  BY <1>4, <1>5, <1>p, MisuseKeeps DEF Unlock, Pointed
<1>6. CASE s \in ready /\ section[s].owner = t
  <2>1. /\ section' = [section EXCEPT ![s] = cs]
        /\ UNCHANGED <<CS, ready, raw, waiting, made, misused, raced>>
        /\ \/ Top(t).OwnCS /\ pc' = [pc EXCEPT ![t] = "free"] /\ UNCHANGED locals
           \/ Returned(t)
    BY <1>1, <1>6, <1>p DEF Unlock, Goto, Pointed
  <2>2. s \in Section /\ section[s] \in CriticalSectionType
    BY <1>0, <1>6 DEF TypeOK
  <2>3. cs \in CriticalSectionType
    BY <1>p, <2>2 DEF CriticalSectionType, Left, Unowned
  <2>4. \A q \in Pointer \ {p} : CS[q] # s
    <3>1. s # Nil
      BY <2>2, LocalLocksAssumption
    <3> QED
      BY <1>2, <1>p, <3>1 DEF IInv, SectionsSound
  <2>5. /\ HeldBy(t, p)' = HeldBy(t, p) \ {n}
        /\ \A q \in Pointer : q # p => HeldBy(t, q)' = HeldBy(t, q)
        /\ \A u \in Thread : u # t => /\ pc'[u] = pc[u]
                                      /\ locals'[u] = locals[u]
                                      /\ Top(u)' = Top(u)
        /\ locals' \in [Thread -> Seq(CLock)]
        /\ pc' \in [Thread -> Location]
        /\ \A u \in Thread : pc'[u] = "out" <=> locals'[u] = <<>>
        /\ ObjectsSound' /\ StepsSound'
    <3>1. \A q, i : i \in HeldBy(t, q) <=> i \in 1 .. n /\ locals[t][i].of = q
      BY <1>1, <1>2, <1>p DEF HeldBy
    <3>2. ASSUME \A q, i : i \in HeldBy(t, q)' <=> i \in 1 .. n - 1 /\ locals[t][i].of = q
          PROVE  /\ HeldBy(t, p)' = HeldBy(t, p) \ {n}
                 /\ \A q \in Pointer : q # p => HeldBy(t, q)' = HeldBy(t, q)
      <4>1. \A i : i \in 1 .. n - 1 <=> i \in 1 .. n /\ i # n
        BY <1>2
      <4>2. HeldBy(t, p)' = HeldBy(t, p) \ {n}
        BY <3>1, <3>2, <4>1
      <4>3. ASSUME NEW q \in Pointer, q # p
            PROVE  HeldBy(t, q)' = HeldBy(t, q)
        <5>1. \A i : i \in HeldBy(t, q)' <=> i \in HeldBy(t, q)
          BY <1>2, <3>1, <3>2, <4>1, <4>3
        <5> QED
          BY <5>1
      <4> QED
        BY <4>2, <4>3
    <3>3. CASE Top(t).OwnCS /\ pc' = [pc EXCEPT ![t] = "free"] /\ UNCHANGED locals
      <4>1. \A u \in Thread : /\ pc'[u] = IF u = t THEN "free" ELSE pc[u]
                              /\ waiting'[u] = waiting[u]
                              /\ locals'[u] = locals[u]
                              /\ Top(u)' = Top(u)
                              /\ Pointed(u)' = Pointed(u)
        BY <1>0, <2>1, <3>3 DEF TypeOK, Top, Pointed
      <4>2. ASSUME NEW q, NEW i
            PROVE  i \in HeldBy(t, q)' <=> i \in 1 .. n - 1 /\ locals[t][i].of = q
        BY <1>2, <1>p, <4>1 DEF HeldBy
      <4>3. pc' \in [Thread -> Location] /\ \A u \in Thread : pc'[u] = "out" <=> locals'[u] = <<>>
        BY <1>0, <1>1, <3>3, <4>1 DEF TypeOK, Location
      <4>4. ObjectsSound'
        <5>1. \A q : Users(q)' = Users(q)
          BY <3>3 DEF Users
        <5>2. ASSUME NEW u \in Thread, NEW i \in DOMAIN locals[u] PROVE ObjectOf(u, i)'
          <6>1. ObjectOf(u, i)
            BY DEF IInv, ObjectsSound, ObjectOf
          <6> QED
            BY <1>1, <2>1, <4>1, <5>1, <6>1 DEF ObjectOf
        <5> QED
          BY <4>1, <5>2 DEF ObjectsSound, ObjectOf
      <4>5. ASSUME NEW u \in Thread PROVE StepOf(u)'
        <5>1. StepOf(u)
          BY DEF IInv, StepsSound, StepOf
        <5>2. CASE u = t
          BY <1>1, <3>3, <4>1, <5>1, <5>2 DEF StepOf
        <5>3. CASE u # t
          <6>1. pc[u] = "wait" => /\ waiting[u] \in ready'
                                  /\ \A q \in Pointer \ {Top(u).of} : CS'[q] # waiting[u]
            BY <2>1, <5>1 DEF StepOf
          <6>2. pc[u] = "init" /\ Top(u).of \notin raced => Pointed(u) \in raw'
            BY <2>1, <5>1 DEF StepOf
          <6> QED
            BY <2>1, <4>1, <5>3, <6>1, <6>2, StepOther
        <5> QED
          BY <5>2, <5>3
      <4>6. StepsSound'
        BY <4>5 DEF StepsSound, StepOf
      <4>7. locals' \in [Thread -> Seq(CLock)]
        BY <1>0, <3>3 DEF TypeOK
      <4> QED
        BY <3>2, <4>1, <4>2, <4>3, <4>4, <4>6, <4>7
    <3>4. CASE Returned(t)
      <4>1. pc[t] # "out" /\ n = Len(locals[t])
        BY <1>1, <1>p
      <4>2. \A u \in Thread : u # t => /\ locals'[u] = locals[u]
                                        /\ pc'[u] = pc[u]
                                        /\ Top(u)' = Top(u)
        BY <1>0, <3>4, <4>1, AfterReturn
      <4>3. \A q, i : i \in HeldBy(t, q)' <=> i \in 1 .. n - 1 /\ locals[t][i].of = q
        BY <1>0, <3>4, <4>1, AfterReturn
      <4>4. /\ locals' \in [Thread -> Seq(CLock)]
            /\ pc' \in [Thread -> Location]
            /\ \A u \in Thread : pc'[u] = "out" <=> locals'[u] = <<>>
        BY <1>0, <3>4, <4>1, AfterReturn
      <4>5. ObjectsSound' /\ StepsSound'
        BY <1>1, <2>1, <3>4, ReturnKeeps
      <4> QED
        BY <3>2, <4>2, <4>3, <4>4, <4>5
    <3> QED
      BY <2>1, <3>3, <3>4
  <2>6. TypeOK'
    BY <1>0, <2>1, <2>2, <2>3, <2>5 DEF TypeOK
  <2>7. SectionsSound'
    <3>1. \A u \in Thread : \A q : pc[u] = "init" /\ Top(u).of = q => pc'[u] = "init" /\ Top(u)'.of = q
      BY <1>1, <2>5
    <3> QED
      BY <2>1, <3>1 DEF IInv, SectionsSound
  <2>8. HoldsCounted'
    <3>1. /\ IsFiniteSet(HeldBy(t, p)) /\ Cardinality(HeldBy(t, p)) \in Nat
          /\ Cardinality(HeldBy(t, p)) # 0
      BY <1>0, <1>3, HeldFinite
    <3>2. /\ IsFiniteSet(HeldBy(t, p) \ {n})
          /\ Cardinality(HeldBy(t, p) \ {n}) = Cardinality(HeldBy(t, p)) - 1
      BY <1>3, <3>1, FS_RemoveElement
    <3>3. HeldBy(t, p) \ {n} = {} <=> Cardinality(HeldBy(t, p)) = 1
      <4> DEFINE H == HeldBy(t, p) \ {n}
      <4>1. Cardinality(H) = 0 <=> H = {}
        BY <3>2, FS_EmptySet
      <4> HIDE DEF H
      <4>2. Cardinality(H) = Cardinality(HeldBy(t, p)) - 1
        BY <3>2 DEF H
      <4>3. H = {} <=> Cardinality(HeldBy(t, p)) = 1
        BY <3>1, <4>1, <4>2
      <4> QED
        BY <4>3 DEF H
    <3>4. p \notin raced =>
             IF Cardinality(HeldBy(t, p)) = 1
               THEN cs = Unowned /\ HeldBy(t, p)' = {}
               ELSE /\ cs.owner = t /\ HeldBy(t, p)' # {}
                    /\ cs.count = Cardinality(HeldBy(t, p)')
      <4> SUFFICES ASSUME p \notin raced
                   PROVE  IF Cardinality(HeldBy(t, p)) = 1
                            THEN cs = Unowned /\ HeldBy(t, p)' = {}
                            ELSE /\ cs.owner = t /\ HeldBy(t, p)' # {}
                                 /\ cs.count = Cardinality(HeldBy(t, p)')
        OBVIOUS
      <4>1. CASE Cardinality(HeldBy(t, p)) = 1
        BY <1>4, <1>p, <2>5, <3>3, <4>1 DEF Left
      <4>2. CASE Cardinality(HeldBy(t, p)) # 1
        <5>1. cs.owner = t /\ cs.count = Cardinality(HeldBy(t, p)) - 1
          BY <1>4, <1>p, <2>2, <3>1, <4>2 DEF Left, CriticalSectionType
        <5> QED
          BY <2>5, <3>2, <3>3, <4>2, <5>1
      <4> QED
        BY <4>1, <4>2
    <3>5. Unowned.owner = NoThread
      BY DEF Unowned
    <3>6. \A u \in Thread : u # t => \A q : HeldBy(u, q)' = HeldBy(u, q)
      BY <2>5, HeldOther
    <3>7. p \notin raced => \A u \in Thread : u # t => HeldBy(u, p)' = {}
      BY <1>2, <1>4, <1>p, <3>6 DEF IInv, HoldsCounted
    <3>8. \A u \in Thread, q \in Pointer : q # p => HeldBy(u, q)' = HeldBy(u, q)
      BY <2>5, <3>6
    <3>9. p \notin raced => \A u \in Thread :
             /\ HeldBy(u, p)' # {} => cs.owner = u
             /\ cs.owner = u => /\ HeldBy(u, p)' # {}
                                /\ cs.count = Cardinality(HeldBy(u, p)')
      BY <3>4, <3>5, <3>7, NoThreadAssumption
    <3>10. /\ section' = [section EXCEPT ![s] = cs]
           /\ ready' \subseteq ready \cup {s} /\ CS' = CS /\ raced' = raced
      BY <2>1
    <3>11. p \in Pointer /\ s \in Section /\ (p \notin raced => CS[p] = s)
      BY <1>2, <1>p, <2>2
    <3> QED
      BY <2>4, <3>8, <3>9, <3>10, <3>11, OneSection
  <2>9. OwnersSound'
    <3>1. \A r : Local(r)' <=> Local(r)
      BY <2>1 DEF Local
    <3>2. \A r \in Section : section'[r] = IF r = s THEN cs ELSE section[r]
      BY <1>0, <2>1 DEF TypeOK
    <3>3. Local(s) => cs = Unowned
      <4>1. Local(s) => section[s].count = 1
        BY <1>6, <2>2 DEF IInv, OwnersSound
      <4> QED
        BY <1>p, <4>1 DEF Left
    <3>4. /\ cs.owner \in {t, NoThread}
          /\ cs.owner = NoThread => cs.count = 0
      BY <1>6, <1>p, <2>2, NoThreadAssumption DEF Left, Unowned, CriticalSectionType
    <3>5. ASSUME NEW r \in Section, section'[r].owner = NoThread
          PROVE  section'[r].count = 0
      BY <3>2, <3>4, <3>5 DEF IInv, OwnersSound
    <3>6. ASSUME NEW r \in Section, NEW u \in Thread, section'[r].owner = u, Local(r)
          PROVE  /\ pc'[u] \in Locked
                 /\ Top(u)'.of \notin Precreated
                 /\ section'[r].count = 1
                 /\ \A r2 \in Section : section'[r2].owner = u /\ Local(r2) => r2 = r
      <4>1. r # s
        BY <3>2, <3>3, <3>6, NoThreadAssumption DEF Unowned
      <4>2. section'[r] = section[r] /\ section[r].owner = u
        BY <3>2, <3>6, <4>1
      <4>3. /\ pc[u] \in Locked /\ Top(u).of \notin Precreated /\ section[r].count = 1
            /\ \A r2 \in Section : section[r2].owner = u /\ Local(r2) => r2 = r
        BY <3>6, <4>2 DEF IInv, OwnersSound, Locked
      <4>4. u # t
        <5> SUFFICES ASSUME u = t PROVE FALSE
          OBVIOUS
        <5>1. ~Local(s)
          BY <1>6, <2>2, <4>1, <4>3
        <5>2. p \in Precreated
          BY <2>4, <5>1, LocalLocksAssumption DEF Local
        <5> QED
          BY <1>p, <4>3, <5>2
      <4>5. \A r2 \in Section : section'[r2].owner = u => section[r2].owner = u
        BY <3>2, <3>4, <4>4, NoThreadAssumption
      <4> QED
        BY <2>5, <4>2, <4>3, <4>4, <4>5
    <3> QED
      BY <3>1, <3>5, <3>6 DEF OwnersSound, Locked
  <2>10. NoMisuse' /\ MadeOnce'
    BY <2>1 DEF IInv, NoMisuse, MadeOnce
  <2> QED
    BY <2>5, <2>6, <2>7, <2>8, <2>9, <2>10 DEF IInv
<1> QED
  BY <1>5, <1>6

LEMMA StepFreeCS ==
    ASSUME IInv, NEW t \in Thread, FreeCS(t)
    PROVE  IInv'
<1>p. PICK p, n, s : p = Top(t).of /\ n = Len(locals[t]) /\ s = CS[p]
  OBVIOUS
<1>0. TypeOK
  BY DEF IInv
<1>1. pc[t] = "free" /\ Top(t).OwnCS
  BY DEF FreeCS, IInv, StepsSound
<1>2. /\ n \in Nat /\ n \in DOMAIN locals[t] /\ DOMAIN locals[t] = 1 .. n
      /\ Top(t) = locals[t][n] /\ locals[t][n].of = p
  BY <1>0, <1>1, <1>p, Objects
<1>3. p \in Pointer \ Precreated
  BY <1>1, <1>p, OwnObject
<1>4. ASSUME p \notin raced, NEW u \in Thread, NEW j \in DOMAIN locals[u], locals[u][j].of = p
      PROVE  u = t /\ j = n
  BY <1>1, <1>3, <1>4, <1>p, OnlyObject
<1>5. CASE s \notin ready \/ InUse(s) # {}
  <2>1. ASSUME p \notin raced PROVE FALSE
    <3>1. s \in ready
      BY <1>1, <1>p, <2>1, TopReady DEF Pointed
    <3>2. s # Nil
      BY <1>0, <3>1, LocalLocksAssumption DEF TypeOK
    <3>3. ASSUME NEW u \in Thread, section[s].owner = u
          PROVE  FALSE
      <4>1. PICK i \in HeldBy(u, p) : TRUE
        BY <1>3, <1>p, <2>1, <3>1, <3>3 DEF IInv, HoldsCounted
      <4>2. u = t /\ i = n
        BY <1>4, <2>1, <4>1 DEF HeldBy
      <4> QED
        BY <1>1, <1>2, <1>p, <4>1, <4>2 DEF HeldBy
    <3>4. ASSUME NEW u \in Thread, waiting[u] = s
          PROVE  FALSE
      <4>1. pc[u] = "wait" /\ Top(u).of = p
        BY <1>3, <1>p, <3>2, <3>4 DEF IInv, StepsSound
      <4>2. Len(locals[u]) \in DOMAIN locals[u] /\ Top(u) = locals[u][Len(locals[u])]
        BY <1>0, <4>1, Objects
      <4>3. u = t
        BY <1>4, <2>1, <4>1, <4>2
      <4> QED
        BY <1>1, <4>1, <4>3
    <3> QED
      BY <1>5, <3>1, <3>3, <3>4 DEF InUse
  <2> QED
    BY <1>5, <1>p, <2>1, MisuseKeeps DEF FreeCS, Pointed
<1>6. CASE s \in ready /\ InUse(s) = {}
  <2>1. /\ ready' = ready \ {s}
        /\ CS' = [CS EXCEPT ![p] = Nil]
        /\ Returned(t)
        /\ UNCHANGED <<raw, section, waiting, made, misused, raced>>
    BY <1>1, <1>6, <1>p DEF FreeCS, Pointed
  <2>2. \A q \in Pointer : CS'[q] = IF q = p THEN Nil ELSE CS[q]
    BY <1>0, <2>1 DEF TypeOK
  <2>3. s \in Section /\ s # Nil
    BY <1>0, <1>6, LocalLocksAssumption DEF TypeOK
  <2>4. \A q \in Pointer : q # p => CS[q] # s
    BY <1>3, <1>p, <2>3 DEF IInv, SectionsSound
  <2>5. pc[t] # "out"
    BY <1>1
  <2>6. /\ DOMAIN locals'[t] = 1 .. n - 1
        /\ \A i \in 1 .. n - 1 : locals'[t][i] = locals[t][i]
        /\ pc'[t] = IF n = 1 THEN "out" ELSE "in"
    BY <1>0, <1>p, <2>1, <2>5, AfterReturn
  <2>7. \A u \in Thread : u # t => /\ locals'[u] = locals[u]
                                   /\ pc'[u] = pc[u]
                                   /\ Top(u)' = Top(u)
    BY <1>0, <1>p, <2>1, <2>5, AfterReturn
  <2>8. \A q, i : i \in HeldBy(t, q)' <=> i \in 1 .. n - 1 /\ locals[t][i].of = q
    BY <1>0, <1>p, <2>1, <2>5, AfterReturn
  <2>9. /\ locals' \in [Thread -> Seq(CLock)]
        /\ pc' \in [Thread -> Location]
        /\ \A u \in Thread : pc'[u] = "out" <=> locals'[u] = <<>>
    BY <1>0, <1>p, <2>1, <2>5, AfterReturn
  <2>10. TypeOK'
    BY <1>0, <2>1, <2>9 DEF TypeOK
  <2>11. ObjectsSound' /\ StepsSound'
    <3>1. ASSUME NEW u \in Thread, NEW i \in DOMAIN locals'[u], locals'[u][i].of \notin raced
          PROVE  CS'[locals'[u][i].of] = CS[locals'[u][i].of]
      <4>1. i \in DOMAIN locals[u] /\ locals'[u][i] = locals[u][i] /\ ~(u = t /\ i = n)
        <5>1. CASE u = t
          <6>1. i \in 1 .. n - 1 /\ i \in 1 .. n /\ i # n
            BY <1>2, <2>6, <5>1
          <6> QED
            BY <1>2, <2>6, <5>1, <6>1
        <5>2. CASE u # t
          BY <2>7, <5>2
        <5> QED
          BY <5>1, <5>2
      <4>2. locals[u][i].of \in Pointer
        BY <1>0, <4>1, Objects DEF CLock
      <4>3. locals[u][i].of # p
        BY <1>4, <3>1, <4>1
      <4> QED
        BY <2>2, <4>1, <4>2, <4>3
    <3>2. pc[t] \in {"in", "free"} /\ UNCHANGED <<waiting, made, raw, raced>>
      BY <1>1, <2>1
    <3>3. \A u \in Thread : waiting[u] \in ready => waiting[u] \in ready'
      BY <1>6, <2>1 DEF InUse
    <3>4. \A q \in Pointer : CS'[q] # CS[q] => CS'[q] = Nil
      BY <2>2
    <3> QED
      BY <2>1, <3>1, <3>2, <3>3, <3>4, ReturnKeeps
  <2>12. SectionsSound'
    <3> SUFFICES ASSUME NEW q \in Pointer
                 PROVE  /\ q \in Precreated => CS'[q] \in ready'
                        /\ CS'[q] # Nil => \/ CS'[q] \in ready'
                                           \/ /\ CS'[q] \in raw
                                              /\ \/ q \in raced
                                                 \/ \E u \in Thread : pc'[u] = "init" /\ Top(u)'.of = q
                        /\ \A r \in Pointer : CS'[q] # Nil /\ CS'[q] = CS'[r] => q = r
      BY <2>1 DEF SectionsSound
    <3>1. CASE q = p
      BY <1>3, <2>2, <3>1
    <3>2. CASE q # p
      <4>1. CS'[q] = CS[q] /\ CS[q] # s
        BY <2>2, <2>4, <3>2
      <4>2. q \in Precreated => CS[q] \in ready
        BY DEF IInv, SectionsSound
      <4>3. \A r \in Pointer : CS[q] # Nil /\ CS[q] = CS'[r] => q = r
        BY <2>2 DEF IInv, SectionsSound
      <4>4. ASSUME CS[q] # Nil, CS[q] \notin ready
            PROVE  /\ CS[q] \in raw
                   /\ q \in raced \/ \E u \in Thread : pc'[u] = "init" /\ Top(u)'.of = q
        <5>1. CS[q] \in raw /\ (q \in raced \/ \E u \in Thread : pc[u] = "init" /\ Top(u).of = q)
          BY <4>4 DEF IInv, SectionsSound
        <5> QED
          BY <1>1, <2>7, <5>1
      <4> QED
        BY <2>1, <4>1, <4>2, <4>3, <4>4
    <3> QED
      BY <3>1, <3>2
  <2>13. HoldsCounted'
    <3> SUFFICES ASSUME NEW q \in Pointer \ raced, CS'[q] \in ready', NEW u \in Thread
                 PROVE  /\ HeldBy(u, q)' # {} => section'[CS'[q]].owner = u
                        /\ section'[CS'[q]].owner = u =>
                              /\ HeldBy(u, q)' # {}
                              /\ section'[CS'[q]].count = Cardinality(HeldBy(u, q)')
      BY <2>1 DEF HoldsCounted
    <3>1. q # p /\ CS'[q] = CS[q] /\ CS[q] \in ready
      <4>1. Nil \notin ready'
        BY <2>10, LocalLocksAssumption DEF TypeOK
      <4> QED
        BY <2>1, <2>2, <4>1
    <3>2. HeldBy(t, q)' = HeldBy(t, q)
      <4>1. \A i : i \in HeldBy(t, q) <=> i \in 1 .. n /\ locals[t][i].of = q /\ i < n
        BY <1>1, <1>2, <1>p DEF HeldBy
      <4>2. \A i : i \in 1 .. n - 1 <=> i \in 1 .. n /\ i < n
        BY <1>2
      <4>3. \A i : i \in HeldBy(t, q)' <=> i \in HeldBy(t, q)
        BY <2>8, <4>1, <4>2
      <4> QED
        BY <4>3
    <3>3. u # t => HeldBy(u, q)' = HeldBy(u, q)
      BY <2>7, HeldOther
    <3>4. HeldBy(u, q)' = HeldBy(u, q)
      BY <3>2, <3>3
    <3> QED
      BY <2>1, <3>1, <3>4 DEF IInv, HoldsCounted
  <2>14. OwnersSound'
    <3>1. \A q \in Precreated : CS'[q] = CS[q]
      BY <1>3, <2>2, LocalLocksAssumption
    <3>2. pc[t] \notin Locked
      BY <1>1 DEF Locked
    <3> QED
      BY <2>1, <2>7, <3>1, <3>2, OwnersKept
  <2>15. NoMisuse' /\ MadeOnce'
    BY <2>1 DEF IInv, NoMisuse, MadeOnce
  <2> QED
    BY <2>10, <2>11, <2>12, <2>13, <2>14, <2>15 DEF IInv
<1> QED
  BY <1>5, <1>6

-----------------------------------------------------------------------------
(* The theorems                                                            *)

LEMMA InitInv ==
    ASSUME Init
    PROVE  IInv
<1>1. /\ CS \in [Pointer -> Section \cup {Nil}]
      /\ \A p, q \in Precreated : CS[p] # Nil /\ (CS[p] = CS[q] => p = q)
      /\ \A p \in Pointer \ Precreated : CS[p] = Nil
      /\ ready = {CS[p] : p \in Precreated}
      /\ raw = {}
      /\ section = [s \in Section |-> Unowned]
      /\ locals = [t \in Thread |-> <<>>]
      /\ waiting = [t \in Thread |-> Nil]
      /\ pc = [t \in Thread |-> "out"]
      /\ made = [p \in Pointer |-> [k \in Key |-> 0]]
      /\ misused = Nil
      /\ raced = {}
  BY DEF Init
<1>2. ready \subseteq Section
  BY <1>1, LocalLocksAssumption
<1>3. \A t \in Thread : /\ locals[t] = <<>> /\ pc[t] = "out" /\ waiting[t] = Nil
                        /\ DOMAIN locals[t] = {}
  <2>1. DOMAIN <<>> = {}
    OBVIOUS
  <2> QED
    BY <1>1, <2>1
<1>4. TypeOK
  <2>1. locals \in [Thread -> Seq(CLock)]
    <3>1. <<>> \in Seq(CLock)
      OBVIOUS
    <3> QED
      BY <1>1, <3>1
  <2>2. section \in [Section -> CriticalSectionType]
    BY <1>1 DEF CriticalSectionType, Unowned
  <2>3. made \in [Pointer -> [Key -> Nat]]
    BY <1>1
  <2>4. pc \in [Thread -> Location] /\ waiting \in [Thread -> Section \cup {Nil}]
    BY <1>1 DEF Location
  <2> QED
    BY <1>1, <1>2, <1>3, <2>1, <2>2, <2>3, <2>4 DEF TypeOK
<1>5. NoMisuse /\ ObjectsSound /\ StepsSound /\ SectionsSound /\ MadeOnce
  <2>1. NoMisuse
    BY <1>1 DEF NoMisuse
  <2>2. ObjectsSound
    BY <1>3 DEF ObjectsSound
  <2>3. StepsSound
    BY <1>3 DEF StepsSound
  <2>4. SectionsSound
    BY <1>1, LocalLocksAssumption DEF SectionsSound
  <2>5. MadeOnce
    BY <1>1 DEF MadeOnce
  <2> QED
    BY <2>1, <2>2, <2>3, <2>4, <2>5
<1>6. \A s \in Section : section[s].owner = NoThread /\ section[s].count = 0
  BY <1>1 DEF Unowned
<1>7. HoldsCounted
  <2>1. \A t \in Thread, p \in Pointer : HeldBy(t, p) = {}
    BY <1>3 DEF HeldBy
  <2> QED
    BY <1>2, <1>6, <2>1, NoThreadAssumption DEF HoldsCounted
<1>8. OwnersSound
  BY <1>6, NoThreadAssumption DEF OwnersSound
<1> QED
  BY <1>4, <1>5, <1>7, <1>8 DEF IInv

LEMMA StutterInv ==
    ASSUME IInv, UNCHANGED vars
    PROVE  IInv'
<1> USE DEF vars
<1>1. TypeOK' /\ NoMisuse' /\ MadeOnce'
  BY DEF IInv, TypeOK, NoMisuse, MadeOnce
<1>2. ObjectsSound'
  BY DEF IInv, ObjectsSound, Users
<1>3. StepsSound' /\ SectionsSound' /\ OwnersSound'
  BY DEF IInv, StepsSound, SectionsSound, OwnersSound, Local, Top, Pointed
<1>4. \A t, p : HeldBy(t, p)' = HeldBy(t, p)
  BY DEF HeldBy
<1>5. HoldsCounted'
  BY <1>4 DEF IInv, HoldsCounted
<1> QED
  BY <1>1, <1>2, <1>3, <1>5 DEF IInv

LEMMA NextInv ==
    ASSUME IInv, [Next]_vars
    PROVE  IInv'
<1>1. CASE Undefined \/ UNCHANGED vars
  BY <1>1, StutterInv DEF Undefined
<1>2. ASSUME misused = Nil, NEW t \in Thread, Step(t)
      PROVE  IInv'
  <2>1. CASE \E p \in Pointer, k \in Key : Construct(t, p, k)
    BY <1>2, <2>1, StepConstruct
  <2>2. CASE Create(t)
    BY <2>2, StepCreate
  <2>3. CASE Initialize(t)
    BY <2>3, StepInitialize
  <2>4. CASE Lock(t)
    BY <2>4, StepLock
  <2>5. CASE Enter(t)
    BY <2>5, StepEnter
  <2>6. CASE Find(t)
    BY <2>6, StepFind
  <2>7. CASE Make(t)
    BY <2>7, StepMake
  <2>8. CASE Unlock(t)
    BY <2>8, StepUnlock
  <2>9. CASE FreeCS(t)
    BY <2>9, StepFreeCS
  <2> QED
    BY <1>2, <2>1, <2>2, <2>3, <2>4, <2>5, <2>6, <2>7, <2>8, <2>9 DEF Step
<1> QED
  BY <1>1, <1>2 DEF Next

\* The invariant holds whichever threads take whichever locks: a section that is ready
\* counts exactly the CLock objects that hold it, all of one thread, and the object that
\* made it is the last that needs it, as long as threads did not race for its pointer; a
\* section that a CLock made is owned once, by a thread that is about to leave it, even if
\* they did.
THEOREM LocksInvariant == Spec => []IInv
<1>1. Init => IInv
  BY InitInv
<1>2. IInv /\ [Next]_vars => IInv'
  BY NextInv
<1> QED
  BY <1>1, <1>2, PTL DEF Spec

\* The state is of its type.
THEOREM LocksTypeCorrect == Spec => []TypeOK
<1>1. IInv => TypeOK
  BY DEF IInv
<1> QED
  BY <1>1, LocksInvariant, PTL

\* No thread enters, leaves or deletes a section that is not there or that another needs,
\* unless it is behind a pointer that was 0 at the start and that another thread got a
\* CLock for meanwhile (classes.h CLock::Lock, Unlock and FreeCS): never behind CSPeLdr.
THEOREM SectionsUsedRight == Spec => []NoMisuse
<1>1. IInv => NoMisuse
  BY DEF IInv
<1> QED
  BY <1>1, LocksInvariant, PTL

\* A module is loaded once, however many threads ask for it, and a callback is made once as
\* long as one thread at a time makes callbacks.
THEOREM FoundOrMadeOnce == Spec => []MadeOnce
<1>1. IInv => MadeOnce
  BY DEF IInv
<1> QED
  BY <1>1, LocksInvariant, PTL

-----------------------------------------------------------------------------
(* Waiting                                                                 *)

\* A thread that is waited for is in a function that will give the section back; if it
\* waits too, its innermost object is not the one that holds the section.
LEMMA AwaitedHolds ==
    ASSUME IInv, NEW t \in Thread, Blocked(t)
    PROVE  \E u \in Thread :
              /\ u = Awaited(t) /\ u # t
              /\ Inside(u)
              /\ Blocked(u) => Top(t).of \in Nesting /\ waiting[t] = CS[Top(t).of]
<1>p. PICK p, s : p = Top(t).of /\ s = waiting[t]
  OBVIOUS
<1>0. TypeOK
  BY DEF IInv
<1>1. /\ pc[t] = "wait" /\ s \in ready /\ p \in Pointer
      /\ \A q \in Pointer \ {p} : CS[q] # s
      /\ p \notin raced => s = CS[p]
  BY <1>0, <1>p, Objects DEF Blocked, IInv, StepsSound, Pointed
<1>2. s \in Section /\ section[s] \in CriticalSectionType
  BY <1>0, <1>1 DEF TypeOK
<1>3. PICK u \in Thread : u = section[s].owner /\ u # t
  BY <1>2, <1>p DEF Blocked, CanEnter, CriticalSectionType
<1>4. u = Awaited(t)
  BY <1>3, <1>p DEF Awaited
<1>5. CASE Local(s)
  <2>1. pc[u] \in Locked
    BY <1>2, <1>3, <1>5 DEF IInv, OwnersSound, Locked
  <2>2. Inside(u) /\ ~Blocked(u)
    BY <1>0, <2>1 DEF Inside, Blocked, Locked, TypeOK
  <2> QED
    BY <1>3, <1>4, <2>2
<1>6. CASE ~Local(s)
  <2>1. p \in Precreated /\ p \notin raced /\ s = CS[p]
    <3>1. p \in Precreated
      BY <1>1, <1>6, LocalLocksAssumption DEF Local
    <3> QED
      BY <1>0, <1>1, <3>1 DEF TypeOK
  <2>2. PICK i \in HeldBy(u, p) : TRUE
    BY <1>1, <1>3, <2>1 DEF IInv, HoldsCounted
  <2>3. /\ i \in DOMAIN locals[u] /\ locals[u][i].of = p
        /\ i < Len(locals[u]) \/ pc[u] # "wait"
    BY <2>2 DEF HeldBy
  <2>4. DOMAIN <<>> = {}
    OBVIOUS
  <2>5. Inside(u)
    BY <2>3, <2>4 DEF Inside
  <2>6. Blocked(u) => p \in Nesting
    BY <2>3 DEF Blocked, IInv, ObjectsSound
  <2> QED
    BY <1>3, <1>4, <1>p, <2>1, <2>5, <2>6
<1> QED
  BY <1>5, <1>6

\* If only one pointer is held while others are locked, as CSPeLdr is, threads that wait for
\* a section never wait for each other, also when they wait for sections a CLock made while
\* others came and went: the thread they wait for, or the one that thread waits for, goes on
\* (functions that lock with CLock L(&CS), and those they call under the lock).
THEOREM NobodyWaitsInACircle ==
    ASSUME OneNesting
    PROVE  Spec => []NoCircularWait
<1>1. IInv => NoCircularWait
  <2> SUFFICES ASSUME IInv, NEW t \in Thread, Blocked(t)
               PROVE  /\ Inside(Awaited(t))
                      /\ Blocked(Awaited(t)) =>
                             Inside(Awaited(Awaited(t))) /\ ~Blocked(Awaited(Awaited(t)))
    BY DEF NoCircularWait
  <2>1. PICK u \in Thread : /\ u = Awaited(t) /\ Inside(u)
                            /\ Blocked(u) => Top(t).of \in Nesting /\ waiting[t] = CS[Top(t).of]
    BY AwaitedHolds
  <2>2. ASSUME Blocked(u) PROVE Inside(Awaited(u)) /\ ~Blocked(Awaited(u))
    <3>1. PICK v \in Thread :
             /\ v = Awaited(u) /\ v # u /\ Inside(v)
             /\ Blocked(v) => Top(u).of \in Nesting /\ waiting[u] = CS[Top(u).of]
      BY <2>2, AwaitedHolds
    <3>2. ASSUME Blocked(v) PROVE FALSE
      <4>1. Top(t).of = Top(u).of
        BY <2>1, <2>2, <3>1, <3>2 DEF OneNesting
      <4>2. waiting[u] = waiting[t]
        BY <2>1, <2>2, <3>1, <3>2, <4>1
      <4>3. v = u
        BY <2>1, <3>1, <4>2 DEF Awaited
      <4> QED
        BY <3>1, <4>3
    <3> QED
      BY <3>1, <3>2
  <2> QED
    BY <2>1, <2>2
<1> QED
  BY <1>1, LocksInvariant, PTL
=============================================================================
