-------------------------- MODULE EngineStacksProofs --------------------------
(***************************************************************************)
(* Proofs about EngineStacks: the invariant IInv is inductive, and with it *)
(* stacks and CPUs serve one activation, exits give back what is theirs,   *)
(* nothing leaks, no engine needs a second stack and no live thread loses  *)
(* its TEB, for every number of threads, resources and nested activations. *)
(***************************************************************************)
EXTENDS EngineStacks, ListTheorems

-----------------------------------------------------------------------------
(* Facts used by several steps                                             *)

\* What an activation takes.
Held == Box \cup {Bochs} \cup Cpu \cup Stack

\* The kinds of resources are disjoint, and Bochs and None are none of them.
LEMMA Kinds ==
    /\ Resource = Box \cup Stack \cup Cpu \cup Teb
    /\ \A x \in Box : x \notin Stack /\ x \notin Cpu /\ x \notin Teb /\ x # Bochs /\ x # None
    /\ \A x \in Stack : x \notin Box /\ x \notin Cpu /\ x \notin Teb /\ x # Bochs /\ x # None
    /\ \A x \in Cpu : x \notin Box /\ x \notin Stack /\ x \notin Teb /\ x # Bochs /\ x # None
    /\ \A x \in Teb : x \notin Box /\ x \notin Stack /\ x \notin Cpu /\ x # Bochs /\ x # None
    /\ Bochs \notin Resource /\ None \notin Resource /\ None # Bochs
BY StacksAssumption DEF Resource

\* p is s without some of its last elements.
Below(p, s) ==
    /\ p \in Seq(Held)
    /\ Len(p) <= Len(s)
    /\ \A k \in 1 .. Len(p) : p[k] = s[k]

\* The elements of such a p.
LEMMA BelowElements ==
    ASSUME NEW s \in Seq(Held), NEW p, Below(p, s)
    PROVE  /\ Len(p) \in Nat
           /\ DOMAIN p = 1 .. Len(p)
           /\ DOMAIN p \subseteq DOMAIN s
           /\ ToSet(p) \subseteq ToSet(s)
           /\ \A x : Once(s, x) => Once(p, x)
<1>1. /\ Len(p) \in Nat /\ DOMAIN p = 1 .. Len(p)
      /\ Len(s) \in Nat /\ DOMAIN s = 1 .. Len(s)
  BY LenProperties DEF Below
<1>2. DOMAIN p \subseteq DOMAIN s
  BY <1>1 DEF Below
<1>3. \A k \in DOMAIN p : p[k] = s[k]
  BY <1>1 DEF Below
<1> QED
  BY <1>1, <1>2, <1>3 DEF ToSet, Once

\* A prefix of a sequence, as SubSeq gives it.
LEMMA SubSeqBelow ==
    ASSUME NEW s \in Seq(Held), NEW n \in Nat, n <= Len(s)
    PROVE  Below(SubSeq(s, 1, n), s) /\ Len(SubSeq(s, 1, n)) = n
<1>0. Len(s) \in Nat
  BY LenProperties
<1>1. \A k \in 1 .. n : s[k] \in Held
  BY <1>0, ElementOfSeq
<1>3. /\ SubSeq(s, 1, n) \in Seq(Held)
      /\ Len(SubSeq(s, 1, n)) = IF 1 <= n THEN n - 1 + 1 ELSE 0
      /\ \A k \in 1 .. n - 1 + 1 : SubSeq(s, 1, n)[k] = s[1 + k - 1]
  BY <1>1, SubSeqProperties
<1>4. \A k \in 1 .. n : k \in 1 .. n - 1 + 1 /\ 1 + k - 1 = k
  OBVIOUS
<1>5. Len(SubSeq(s, 1, n)) = n /\ \A k \in 1 .. n : SubSeq(s, 1, n)[k] = s[k]
  BY <1>3, <1>4
<1> QED
  BY <1>3, <1>5 DEF Below

\* What a thread holds when it takes e.
LEMMA Pushed ==
    ASSUME NEW s \in Seq(Held), NEW e \in Held
    PROVE  /\ Append(s, e) \in Seq(Held)
           /\ Append(s, e) # <<>>
           /\ Len(Append(s, e)) = Len(s) + 1
           /\ Len(s) \in Nat
           /\ DOMAIN s = 1 .. Len(s)
           /\ DOMAIN Append(s, e) = 1 .. Len(s) + 1
           /\ Last(Append(s, e)) = e
           /\ Append(s, e)[Len(s) + 1] = e
           /\ \A k \in 1 .. Len(s) : Append(s, e)[k] = s[k]
           /\ ToSet(Append(s, e)) = {e} \cup ToSet(s)
BY AppendElements, AppendProperties, LenProperties

\* The last thing a thread took.
LEMMA TopOf ==
    ASSUME TypeOK, NEW t \in Thread, used[t] # <<>>
    PROVE  /\ used[t] \in Seq(Held)
           /\ Len(used[t]) \in Nat \ {0}
           /\ DOMAIN used[t] = 1 .. Len(used[t])
           /\ Top(t) = used[t][Len(used[t])]
           /\ Top(t) \in Held
           /\ Top(t) \in ToSet(used[t])
<1>1. used[t] \in Seq(Held)
  BY DEF TypeOK, Held
<1>2. Len(used[t]) \in Nat \ {0} /\ DOMAIN used[t] = 1 .. Len(used[t])
  BY <1>1, EmptySeq, LenProperties
<1>3. Top(t) \in Held /\ Top(t) \in ToSet(used[t])
  BY <1>1, FrontElements DEF Top
<1> QED
  BY <1>1, <1>2, <1>3 DEF Top, Last

\* Giving back a stack or an engine.
LEMMA PopOne ==
    ASSUME TypeOK, NEW t \in Thread, used[t] # <<>>
    PROVE  Below(Front(used[t]), used[t]) /\ Len(Front(used[t])) = Len(used[t]) - 1
<1>1. used[t] \in Seq(Held) /\ Len(used[t]) \in Nat \ {0}
  BY TopOf
<1>2. Len(used[t]) - 1 \in Nat /\ Len(used[t]) - 1 <= Len(used[t])
  BY <1>1
<1> QED
  BY <1>1, <1>2, SubSeqBelow DEF Front

\* Giving back a CPU, and with it the activation on Bochs.
LEMMA PopTwo ==
    ASSUME TypeOK, Shape, NEW t \in Thread, used[t] # <<>>, Top(t) \in Cpu
    PROVE  /\ Below(Front(Front(used[t])), used[t])
           /\ Len(Front(Front(used[t]))) = Len(used[t]) - 2
           /\ Len(used[t]) > 1
           /\ used[t][Len(used[t]) - 1] = Bochs
<1>1. /\ used[t] \in Seq(Held) /\ Len(used[t]) \in Nat \ {0}
      /\ DOMAIN used[t] = 1 .. Len(used[t]) /\ Top(t) = used[t][Len(used[t])]
  BY TopOf
<1>2. Len(used[t]) \in DOMAIN used[t]
  BY <1>1
<1>3. Len(used[t]) > 1 /\ used[t][Len(used[t]) - 1] = Bochs
  BY <1>1, <1>2 DEF Shape
<1> DEFINE f == Front(used[t])
<1>4. Below(f, used[t]) /\ Len(f) = Len(used[t]) - 1
  BY PopOne
<1> HIDE DEF f
<1>5. f \in Seq(Held) /\ Len(f) - 1 \in Nat /\ Len(f) - 1 <= Len(f)
  BY <1>1, <1>3, <1>4 DEF Below
<1>6. Below(Front(f), f) /\ Len(Front(f)) = Len(f) - 1
  BY <1>5, SubSeqBelow DEF Front
<1>7. Below(Front(f), used[t])
  BY <1>1, <1>4, <1>5, <1>6 DEF Below
<1>8. Len(Front(f)) = Len(used[t]) - 2
  BY <1>1, <1>4, <1>6
<1> QED
  BY <1>3, <1>7, <1>8 DEF f

\* A fault drops an activation.
LEMMA PopActivation ==
    ASSUME TypeOK, Shape, NEW t \in Thread, used[t] # <<>>, Top(t) \in Stack
    PROVE  /\ Below(Outer(used[t]), used[t])
           /\ Len(used[t]) > 1
           /\ used[t][Len(used[t]) - 1] \in Box \cup Cpu
           /\ Outer(used[t]) # <<>> => Last(Outer(used[t])) \in Stack
<1> DEFINE s == used[t]
           n == Len(s)
<1>1. /\ s \in Seq(Held) /\ n \in Nat \ {0} /\ DOMAIN s = 1 .. n /\ Top(t) = s[n]
  BY TopOf
<1>2. n > 1 /\ s[n - 1] \in Box \cup Cpu
  <2>1. n \in DOMAIN s
    BY <1>1
  <2> QED
    BY <1>1, <2>1 DEF Shape
<1>3. \E m \in Nat : /\ m = n - (IF s[n - 1] \in Box THEN 2 ELSE 3)
                    /\ m + 1 \in 1 .. n
                    /\ s[m + 1] \in Engines
  <2>1. CASE s[n - 1] \in Box
    <3>1. n - 2 \in Nat /\ n - 2 + 1 \in 1 .. n /\ n - 2 + 1 = n - 1
      BY <1>1, <1>2
    <3> QED
      BY <2>1, <3>1 DEF Engines
  <2>2. CASE s[n - 1] \notin Box
    <3>1. s[n - 1] \in Cpu /\ n - 1 \in DOMAIN s
      BY <1>1, <1>2, <2>2
    <3>2. n - 1 > 1 /\ s[n - 1 - 1] = Bochs
      BY <3>1 DEF Shape
    <3>3. n - 3 \in Nat /\ n - 3 + 1 \in 1 .. n /\ n - 3 + 1 = n - 1 - 1
      BY <1>1, <3>2
    <3> QED
      BY <2>2, <3>2, <3>3 DEF Engines
  <2> QED
    BY <2>1, <2>2
<1>9. PICK m \in Nat : /\ m = n - (IF s[n - 1] \in Box THEN 2 ELSE 3)
                      /\ m + 1 \in 1 .. n
                      /\ s[m + 1] \in Engines
  BY <1>3
<1>10. m \in Nat /\ m + 1 \in 1 .. n /\ s[m + 1] \in Engines
  BY <1>9
<1>4. m > 0 => s[m] \in Stack
  <2> SUFFICES ASSUME m > 0 PROVE s[m] \in Stack
    OBVIOUS
  <2>1. m + 1 \in DOMAIN s /\ m + 1 > 1 /\ m + 1 - 1 = m
    BY <1>1, <1>10
  <2> QED
    BY <1>10, <2>1 DEF Shape
<1>5. Outer(s) = SubSeq(s, 1, m)
  BY <1>9 DEF Outer
<1>6. m <= n
  BY <1>1, <1>10
<1>7. Below(Outer(s), s) /\ Len(Outer(s)) = m
  BY <1>1, <1>10, <1>5, <1>6, SubSeqBelow
<1>8. Outer(s) # <<>> => Last(Outer(s)) \in Stack
  <2> SUFFICES ASSUME Outer(s) # <<>> PROVE Last(Outer(s)) \in Stack
    OBVIOUS
  <2>1. Outer(s) \in Seq(Held)
    BY <1>7 DEF Below
  <2>2. m > 0
    BY <1>10, <1>7, <2>1, EmptySeq
  <2>3. Last(Outer(s)) = Outer(s)[m] /\ Outer(s)[m] = s[m]
    BY <1>10, <1>7, <2>2 DEF Last, Below
  <2> QED
    BY <1>4, <2>2, <2>3
<1> QED
  BY <1>2, <1>7, <1>8

\* Only threads that deliver a list have one.
LEMMA NothingPending ==
    ASSUME DeliveryPhase, NEW t \in Thread, pc[t] \notin {"drain", "wipe"}
    PROVE  pending[t] = <<>> /\ ToSet(pending[t]) = {}
BY ToSetEmpty DEF DeliveryPhase

\* What a thread took last, by where it is.
LEMMA TopKinds ==
    ASSUME Shape, NEW t \in Thread
    PROVE  /\ pc[t] \in {"cpu", "stack", "list", "unlist", "put"} => used[t] # <<>>
           /\ pc[t] = "cpu" => Top(t) = Bochs
           /\ pc[t] \in {"stack", "unlist"} => Top(t) \in Box \cup Cpu
           /\ pc[t] = "list" => Top(t) \in Cpu \cup Stack
           /\ pc[t] = "put" => Top(t) \in Box \cup Cpu \cup Stack
           /\ pc[t] \in {"run", "code", "wipe"} /\ used[t] # <<>> => Top(t) \in Stack
<1>1. /\ pc[t] \in {"cpu", "stack", "list", "unlist", "put"} => used[t] # <<>>
      /\ used[t] # <<>> =>
            /\ pc[t] = "cpu" => Top(t) = Bochs
            /\ pc[t] \in {"stack", "unlist"} => Top(t) \in Box \cup Cpu
            /\ pc[t] = "list" => Top(t) \in Cpu \cup Stack
            /\ pc[t] = "put" => Top(t) \in Box \cup Cpu \cup Stack
            /\ pc[t] \in {"run", "code", "wipe"} => Top(t) \in Stack
  BY Zenon DEF Shape
<1> QED
  BY <1>1

\* A TEB that is about to be registered.
LEMMA NewTebs ==
    ASSUME TypeOK, TebListed, NEW t \in Thread
    PROVE  /\ pc[t] = "teb" => teb[t] \in Teb /\ teb[t] \in Resource
           /\ NewTeb(t) \subseteq Teb /\ NewTeb(t) \subseteq Resource
BY DEF TypeOK, TebListed, NewTeb, Resource

-----------------------------------------------------------------------------
(* Type correctness of every step                                          *)

\* The sequence operators the steps use keep the types.
LEMMA StepTypes ==
    ASSUME TypeOK, NEW t \in Thread
    PROVE  /\ \A e \in Held : Append(used[t], e) \in Seq(Held)
           /\ used[t] # <<>> => Top(t) \in Held /\ Front(used[t]) \in Seq(Held)
           /\ \A r \in Resource : Cons(r, listed[t]) \in Seq(Resource)
           /\ \A r : RemoveFirst(listed[t], r) \in Seq(Resource)
           /\ pending[t] # <<>> => /\ Head(pending[t]) \in Resource
                                   /\ Tail(pending[t]) \in Seq(Resource)
           /\ ToSet(listed[t]) \subseteq Resource
           /\ ToSet(pending[t]) \subseteq Resource
           /\ ToSet(used[t]) \subseteq Held
<1>1. /\ used[t] \in Seq(Held)
      /\ listed[t] \in Seq(Resource)
      /\ pending[t] \in Seq(Resource)
  BY DEF TypeOK, Held
<1>2. \A e \in Held : Append(used[t], e) \in Seq(Held)
  BY <1>1, AppendElements
<1>3. used[t] # <<>> => Top(t) \in Held /\ Front(used[t]) \in Seq(Held)
  BY <1>1, FrontElements DEF Top
<1>4. /\ \A r \in Resource : Cons(r, listed[t]) \in Seq(Resource)
      /\ \A r : RemoveFirst(listed[t], r) \in Seq(Resource)
  BY <1>1, ConsProperties, RemoveFirstProperties
<1>5. pending[t] # <<>> => /\ Head(pending[t]) \in Resource
                           /\ Tail(pending[t]) \in Seq(Resource)
  BY <1>1, HeadTailProperties
<1>6. /\ ToSet(listed[t]) \subseteq Resource
      /\ ToSet(pending[t]) \subseteq Resource
      /\ ToSet(used[t]) \subseteq Held
  BY <1>1, ToSetDef
<1> QED
  BY <1>2, <1>3, <1>4, <1>5, <1>6

LEMMA TypeInit == Init => TypeOK
BY DEF Init, TypeOK, Location

\* The type invariant with Held and Resource in it.
Types ==
    /\ idle \in SUBSET (Box \cup Stack \cup Cpu)
    /\ fresh \in SUBSET (Stack \cup Cpu \cup Teb)
    /\ dll \in [Stack -> Box \cup {Bochs, None}]
    /\ used \in [Thread -> Seq(Held)]
    /\ teb \in [Thread -> Teb \cup {None}]
    /\ listed \in [Thread -> Seq(Resource)]
    /\ pending \in [Thread -> Seq(Resource)]
    /\ pc \in [Thread -> Location]
    /\ foreign \in SUBSET Thread
    /\ void \in SUBSET Resource

LEMMA TypesAre == TypeOK <=> Types
BY DEF TypeOK, Types, Held

\* Every step keeps the types: an entry that is put back is no TEB, one that is freed
\* is, and what an activation gives up leaves whole activations below.
LEMMA TypeNext ==
    ASSUME IInv, [Next]_vars
    PROVE  TypeOK'
<1> USE DEF Location
<1>0. TypeOK /\ Types /\ Shape
  BY TypesAre DEF IInv
<1> SUFFICES Types'
  BY DEF TypeOK, Types, Held
<1> USE <1>0 DEF Types
<1>1. ASSUME NEW t \in Thread, Start(t) PROVE Types'
  BY <1>1 DEF Start, Goto
<1>2. ASSUME NEW t \in Thread, LeaseBox(t) PROVE Types'
  <2>1. \A i \in Box : i \in Held /\ i \in Resource
    BY DEF Held, Resource
  <2> QED
    BY <1>2, <2>1, StepTypes DEF LeaseBox, Goto, Take, CallAtExit
<1>3. ASSUME NEW t \in Thread, UseBochs(t) PROVE Types'
  <2>1. Bochs \in Held
    BY DEF Held
  <2> QED
    BY <1>3, <2>1, StepTypes DEF UseBochs, Goto, Take
<1>4. ASSUME NEW t \in Thread, TakeCpu(t) PROVE Types'
  <2>1. PICK c \in Cpu : Take(t, c)
    BY <1>4 DEF TakeCpu
  <2>2. used' \in [Thread -> Seq(Held)]
    BY <2>1, StepTypes DEF Take, Held
  <2>3. /\ idle' \in SUBSET (Box \cup Stack \cup Cpu)
        /\ fresh' \in SUBSET (Stack \cup Cpu \cup Teb)
    BY <1>4 DEF TakeCpu
  <2> QED
    BY <1>4, <2>2, <2>3 DEF TakeCpu, Goto
<1>5. ASSUME NEW t \in Thread, TakeStack(t) PROVE Types'
  <2>1. Stack \subseteq Held /\ Engine(t) \in Box \cup {Bochs, None}
    BY DEF Held, Engine
  <2>2. \A e : StackList(e) \subseteq Stack
    BY DEF StackList
  <2>3. PICK s \in Stack : Take(t, s)
    BY <1>5, <2>2 DEF TakeStack
  <2>4. used' \in [Thread -> Seq(Held)]
    BY <2>1, <2>3, StepTypes DEF Take
  <2>5. /\ idle' \in SUBSET (Box \cup Stack \cup Cpu)
        /\ fresh' \in SUBSET (Stack \cup Cpu \cup Teb)
        /\ dll' \in [Stack -> Box \cup {Bochs, None}]
    BY <1>5, <2>1 DEF TakeStack
  <2> QED
    BY <1>5, <2>4, <2>5 DEF TakeStack, Goto
<1>6. ASSUME NEW t \in Thread, Register(t) PROVE Types'
  <2>1. Top(t) \in Resource
    BY <1>6, TopKinds DEF Register, Resource
  <2> QED
    BY <1>6, <2>1, StepTypes DEF Register, CallAtExit
<1>7. ASSUME NEW t \in Thread, CreateTeb(t) PROVE Types'
  BY <1>7 DEF CreateTeb
<1>19. ASSUME NEW t \in Thread, RegisterTeb(t) PROVE Types'
  <2>1. teb[t] \in Resource
    BY <1>19, NewTebs DEF RegisterTeb, IInv
  <2> QED
    BY <1>19, <2>1, StepTypes DEF RegisterTeb, CallAtExit
<1>8. ASSUME NEW t \in Thread, EnterCode(t) PROVE Types'
  BY <1>8 DEF EnterCode, Goto
<1>9. ASSUME NEW t \in Thread, Unlist(t) PROVE Types'
  BY <1>9, StepTypes DEF Unlist, Goto
<1>10. ASSUME NEW t \in Thread, Put(t) PROVE Types'
  <2>1. used[t] # <<>> /\ Top(t) \in Box \cup Cpu \cup Stack
    BY <1>10 DEF Put, Shape
  <2>2. Front(used[t]) \in Seq(Held) /\ (Top(t) \in Cpu => Front(Front(used[t])) \in Seq(Held))
    BY <2>1, PopOne, PopTwo DEF Below
  <2> QED
    BY <1>10, <2>1, <2>2 DEF Put
<1>11. ASSUME NEW t \in Thread, SwallowException(t) PROVE Types'
  <2>1. used[t] # <<>> /\ Top(t) \in Stack
    BY <1>11 DEF SwallowException, Shape
  <2>2. Outer(used[t]) \in Seq(Held)
    BY <2>1, PopActivation DEF Below
  <2> QED
    BY <1>11, <2>2 DEF SwallowException
<1>12. ASSUME NEW t \in Thread, UnhandledException(t) PROVE Types'
  BY <1>12 DEF UnhandledException, Goto, TlsEnds
<1>13. ASSUME NEW t \in Thread, LeaveForeign(t) PROVE Types'
  BY <1>13 DEF LeaveForeign, Goto, TlsEnds
<1>14. ASSUME NEW t \in Thread, BeginExit(t) PROVE Types'
  BY <1>14 DEF BeginExit, Goto
<1>15. ASSUME NEW t \in Thread, Deliver(t) PROVE Types'
  BY <1>15, StepTypes DEF Deliver, Resource
<1>16. ASSUME NEW t \in Thread, FinishExit(t) PROVE Types'
  BY <1>16 DEF FinishExit, Goto, TlsEnds
<1>17. ASSUME NEW c \in Thread, NEW v \in Thread, c # v, TerminateOther(c, v)
       PROVE  Types'
  <2>1. (ToSet(listed[c]) \cup Unlisted(v)) \ {Bochs} \subseteq Resource
    BY StepTypes, NewTebs DEF Unlisted, Held, Resource, IInv
  <2>2. /\ <<>> \in Seq(Resource)
        /\ <<>> \in Seq(Held)
        /\ listed[c] \in Seq(Resource)
    OBVIOUS
  <2>3. /\ used' \in [Thread -> Seq(Held)]
        /\ listed' \in [Thread -> Seq(Resource)]
        /\ pending' \in [Thread -> Seq(Resource)]
    BY <1>17, <2>2 DEF TerminateOther
  <2>4. pc' \in [Thread -> Location] /\ teb' \in [Thread -> Teb \cup {None}]
    BY <1>17 DEF TerminateOther, TlsEnds
  <2> QED
    BY <1>17, <2>1, <2>3, <2>4 DEF TerminateOther
<1>18. ASSUME UNCHANGED vars PROVE Types'
  BY <1>18 DEF vars
<1> QED
  BY <1>1, <1>2, <1>3, <1>4, <1>5, <1>6, <1>7, <1>8, <1>9, <1>10, <1>11, <1>12, <1>13,
     <1>14, <1>15, <1>16, <1>17, <1>18, <1>19 DEF Next, Step, IInv

-----------------------------------------------------------------------------
(* What the steps do, resource by resource                                 *)

\* The steps that take something, and those that leave what was taken alone.
Taking(t) == LeaseBox(t) \/ UseBochs(t) \/ TakeCpu(t) \/ TakeStack(t)

\* t takes e, which nobody had.
Taken(t, e) ==
    /\ e \in Held
    /\ e # Bochs => e \in idle \cup fresh
    /\ idle' = idle \ {e}
    /\ fresh' = fresh \ {e}
    /\ used'[t] = Append(used[t], e)
    /\ \A u \in Thread \ {t} : used'[u] = used[u] /\ listed'[u] = listed[u] /\ pc'[u] = pc[u]
    /\ UNCHANGED <<teb, pending, void>>
    /\ \/ /\ pc[t] = "run" /\ pc'[t] = "stack" /\ e \in Box
          /\ listed'[t] = Cons(e, listed[t]) /\ dll' = dll
       \/ /\ pc[t] = "run" /\ pc'[t] = "cpu" /\ e = Bochs
          /\ listed'[t] = listed[t] /\ dll' = dll
       \/ /\ pc[t] = "cpu" /\ pc'[t] = "list" /\ e \in Cpu
          /\ listed'[t] = listed[t] /\ dll' = dll
       \/ /\ pc[t] = "stack" /\ pc'[t] = "list" /\ e \in Stack
          /\ listed'[t] = listed[t]
          /\ dll'[e] = Engine(t)
          /\ \A s \in Stack \ {e} : dll'[s] = dll[s]
          /\ e \in idle => dll[e] = Engine(t)
          /\ e \notin idle => StackList(Engine(t)) = {}

LEMMA TakingTakes ==
    ASSUME TypeOK, FreshUnused, NEW t \in Thread, Taking(t)
    PROVE  \E e \in Held : Taken(t, e)
<1> USE DEF Goto, Take, CallAtExit
<1>0. Types /\ idle \cap fresh = {}
  BY TypesAre DEF FreshUnused
<1>1. CASE LeaseBox(t)
  <2>1. PICK i \in Box \cap idle : /\ idle' = idle \ {i}
                                  /\ Take(t, i)
                                  /\ CallAtExit(t, i)
    BY <1>1 DEF LeaseBox
  <2>2. i \in Held /\ i \notin fresh
    BY <1>0, Kinds DEF Held, Types
  <2>3. /\ used'[t] = Append(used[t], i)
        /\ listed'[t] = Cons(i, listed[t])
        /\ pc[t] = "run" /\ pc'[t] = "stack"
        /\ \A u \in Thread \ {t} : used'[u] = used[u] /\ listed'[u] = listed[u] /\ pc'[u] = pc[u]
    BY <1>0, <1>1, <2>1 DEF LeaseBox, Types
  <2>4. Taken(t, i)
    BY <1>1, <2>1, <2>2, <2>3 DEF Taken, LeaseBox
  <2> QED
    BY <2>2, <2>4
<1>2. CASE UseBochs(t)
  <2>1. Bochs \in Held /\ Bochs \notin idle /\ Bochs \notin fresh
    BY <1>0, Kinds DEF Held, Types
  <2>2. /\ used'[t] = Append(used[t], Bochs)
        /\ pc[t] = "run" /\ pc'[t] = "cpu"
        /\ \A u \in Thread \ {t} : used'[u] = used[u] /\ listed'[u] = listed[u] /\ pc'[u] = pc[u]
    BY <1>0, <1>2 DEF UseBochs, Types
  <2>3. Taken(t, Bochs)
    BY <1>2, <2>1, <2>2 DEF Taken, UseBochs
  <2> QED
    BY <2>1, <2>3
<1>3. CASE TakeCpu(t)
  <2>1. PICK c \in Cpu : /\ Take(t, c)
                         /\ \/ c \in idle /\ idle' = idle \ {c} /\ UNCHANGED fresh
                            \/ c \in fresh /\ fresh' = fresh \ {c} /\ UNCHANGED idle
    BY <1>3 DEF TakeCpu
  <2>2. c \in Held /\ c \in idle \cup fresh /\ idle' = idle \ {c} /\ fresh' = fresh \ {c}
    BY <1>0, <2>1 DEF Held
  <2>3. /\ used'[t] = Append(used[t], c)
        /\ pc[t] = "cpu" /\ pc'[t] = "list"
        /\ \A u \in Thread \ {t} : used'[u] = used[u] /\ listed'[u] = listed[u] /\ pc'[u] = pc[u]
    BY <1>0, <1>3, <2>1 DEF TakeCpu, Types
  <2>4. Taken(t, c)
    BY <1>3, <2>2, <2>3 DEF Taken, TakeCpu
  <2> QED
    BY <2>2, <2>4
<1>4. CASE TakeStack(t)
  <2>1. PICK s \in Stack :
            /\ Take(t, s)
            /\ \/ s \in StackList(Engine(t)) /\ idle' = idle \ {s} /\ UNCHANGED <<fresh, dll>>
               \/ /\ s \in fresh /\ fresh' = fresh \ {s} /\ UNCHANGED idle
                  /\ StackList(Engine(t)) = {}
                  /\ dll' = [dll EXCEPT ![s] = Engine(t)]
    BY <1>4 DEF TakeStack, StackList
  <2>2. s \in Held /\ s \in idle \cup fresh /\ idle' = idle \ {s} /\ fresh' = fresh \ {s}
    BY <1>0, <2>1 DEF Held, StackList
  <2>3. /\ used'[t] = Append(used[t], s)
        /\ pc[t] = "stack" /\ pc'[t] = "list"
        /\ \A u \in Thread \ {t} : used'[u] = used[u] /\ listed'[u] = listed[u] /\ pc'[u] = pc[u]
    BY <1>0, <1>4, <2>1 DEF TakeStack, Types
  <2>4. /\ dll'[s] = Engine(t)
        /\ \A x \in Stack \ {s} : dll'[x] = dll[x]
        /\ s \in idle => dll[s] = Engine(t)
        /\ s \notin idle => StackList(Engine(t)) = {}
    BY <1>0, <2>1 DEF Types, StackList
  <2>5. Taken(t, s)
    BY <1>4, <2>2, <2>3, <2>4 DEF Taken, TakeStack
  <2> QED
    BY <2>2, <2>5
<1> QED
  BY <1>1, <1>2, <1>3, <1>4 DEF Taking

\* t puts r back.
PutBack(t, r) ==
    /\ pc[t] = "put"
    /\ used[t] # <<>>
    /\ r = Top(t)
    /\ r \in Box \cup Cpu \cup Stack
    /\ idle' = idle \cup {r}
    /\ Below(used'[t], used[t])
    /\ Len(used'[t]) < Len(used[t])
    /\ r \in Stack => /\ pc'[t] = "unlist"
                      /\ Len(used[t]) > 1
                      /\ used'[t] # <<>>
                      /\ Top(t)' = used[t][Len(used[t]) - 1]
    /\ r \notin Stack => pc'[t] = "run" /\ (used'[t] # <<>> => Top(t)' \in Stack)
    /\ \A u \in Thread \ {t} : used'[u] = used[u] /\ pc'[u] = pc[u]
    /\ UNCHANGED <<fresh, dll, teb, listed, pending, void>>

\* The last element of what is left.
LEMMA BelowLast ==
    ASSUME NEW s \in Seq(Held), NEW p, Below(p, s), p # <<>>
    PROVE  /\ Len(p) \in Nat \ {0}
           /\ Last(p) = s[Len(p)]
BY EmptySeq DEF Below, Last

LEMMA PutPutsBack ==
    ASSUME TypeOK, Shape, NEW t \in Thread, Put(t)
    PROVE  PutBack(t, Top(t))
<1>1. used[t] # <<>> /\ Top(t) \in Box \cup Cpu \cup Stack
  BY TopKinds DEF Put
<1>2. /\ used[t] \in Seq(Held) /\ Len(used[t]) \in Nat \ {0}
      /\ DOMAIN used[t] = 1 .. Len(used[t]) /\ Top(t) = used[t][Len(used[t])]
  BY <1>1, TopOf
<1>3. /\ used' = [used EXCEPT ![t] = IF Top(t) \in Cpu THEN Front(Front(@)) ELSE Front(@)]
      /\ pc' = [pc EXCEPT ![t] = IF Top(t) \in Stack THEN "unlist" ELSE "run"]
      /\ pc[t] = "put"
      /\ idle' = idle \cup {Top(t)}
      /\ UNCHANGED <<fresh, dll, teb, listed, pending, void>>
  BY DEF Put
<1>4. \A u \in Thread \ {t} : used'[u] = used[u] /\ pc'[u] = pc[u]
  BY <1>3 DEF TypeOK
<1>5. /\ pc'[t] = IF Top(t) \in Stack THEN "unlist" ELSE "run"
      /\ used'[t] = IF Top(t) \in Cpu THEN Front(Front(used[t])) ELSE Front(used[t])
  BY <1>3 DEF TypeOK
<1>6. Top(t)' = Last(used'[t])
  BY DEF Top
<1>7. CASE Top(t) \in Stack
  <2>1. Top(t) \notin Cpu
    BY <1>7, Kinds
  <2>2. Below(used'[t], used[t]) /\ Len(used'[t]) = Len(used[t]) - 1
    BY <1>1, <1>5, <2>1, PopOne
  <2>3. Len(used[t]) > 1
    BY <1>1, <1>7, PopActivation
  <2>4. used'[t] # <<>>
    BY <1>2, <2>2, <2>3
  <2>5. Last(used'[t]) = used[t][Len(used[t]) - 1]
    BY <1>2, <2>2, <2>4, BelowLast
  <2> QED
    BY <1>1, <1>2, <1>3, <1>4, <1>5, <1>6, <1>7, <2>2, <2>3, <2>4, <2>5 DEF PutBack
<1>8. CASE Top(t) \in Cpu
  <2>1. Top(t) \notin Stack
    BY <1>8, Kinds
  <2>2. /\ Below(used'[t], used[t]) /\ Len(used'[t]) = Len(used[t]) - 2
        /\ Len(used[t]) > 1 /\ used[t][Len(used[t]) - 1] = Bochs
    BY <1>1, <1>5, <1>8, PopTwo
  <2>3. used'[t] # <<>> => Last(used'[t]) \in Stack
    <3> SUFFICES ASSUME used'[t] # <<>> PROVE Last(used'[t]) \in Stack
      OBVIOUS
    <3>1. Len(used'[t]) \in Nat \ {0} /\ Last(used'[t]) = used[t][Len(used'[t])]
      BY <1>2, <2>2, BelowLast
    <3>2. Len(used[t]) - 1 > 1 /\ Len(used[t]) - 1 \in DOMAIN used[t]
      BY <1>2, <2>2, <3>1
    <3>3. used[t][Len(used[t]) - 1] \in Engines
      BY <2>2 DEF Engines
    <3>4. used[t][Len(used[t]) - 1 - 1] \in Stack
      BY <3>2, <3>3 DEF Shape
    <3>5. Len(used[t]) - 1 - 1 = Len(used'[t])
      BY <1>2, <2>2, <3>1
    <3> QED
      BY <3>1, <3>4, <3>5
  <2>4. Len(used'[t]) < Len(used[t])
    BY <1>2, <2>2
  <2> QED
    BY <1>1, <1>2, <1>3, <1>4, <1>5, <1>6, <1>8, <2>1, <2>2, <2>3, <2>4 DEF PutBack
<1>9. CASE Top(t) \in Box
  <2>1. Top(t) \notin Stack /\ Top(t) \notin Cpu
    BY <1>9, Kinds
  <2>2. Below(used'[t], used[t]) /\ Len(used'[t]) = Len(used[t]) - 1
    BY <1>1, <1>5, <2>1, PopOne
  <2>3. used'[t] # <<>> => Last(used'[t]) \in Stack
    <3> SUFFICES ASSUME used'[t] # <<>> PROVE Last(used'[t]) \in Stack
      OBVIOUS
    <3>1. Len(used'[t]) \in Nat \ {0} /\ Last(used'[t]) = used[t][Len(used'[t])]
      BY <1>2, <2>2, BelowLast
    <3>2. Len(used[t]) > 1 /\ Len(used[t]) \in DOMAIN used[t]
      BY <1>2, <2>2, <3>1
    <3>3. used[t][Len(used[t])] \in Engines
      BY <1>2, <1>9 DEF Engines
    <3>4. used[t][Len(used[t]) - 1] \in Stack
      BY <3>2, <3>3 DEF Shape
    <3> QED
      BY <2>2, <3>1, <3>4
  <2>4. Len(used'[t]) < Len(used[t])
    BY <1>2, <2>2
  <2> QED
    BY <1>1, <1>2, <1>3, <1>4, <1>5, <1>6, <1>9, <2>1, <2>2, <2>3, <2>4 DEF PutBack
<1> QED
  BY <1>1, <1>7, <1>8, <1>9

\* A fault, an exit and a TerminateThread make a thread t drop activations.
Dropping(t) ==
    SwallowException(t) \/ UnhandledException(t) \/ BeginExit(t)
    \/ \E c \in Thread : c # t /\ TerminateOther(c, t)

LEMMA DropsBelow ==
    ASSUME TypeOK, Shape, NEW t \in Thread, Dropping(t)
    PROVE  /\ Below(used'[t], used[t])
           /\ used'[t] # <<>> => Top(t)' \in Stack /\ pc'[t] = "run"
           /\ \A u \in Thread \ {t} : used'[u] = used[u]
           /\ dll' = dll
           /\ idle' = idle
           /\ fresh' = fresh
<1>1. used[t] \in Seq(Held) /\ Below(<<>>, used[t])
  <2>1. used[t] \in Seq(Held) /\ Len(used[t]) \in Nat
    BY LenProperties DEF TypeOK, Held
  <2>2. <<>> \in Seq(Held) /\ Len(<<>>) = 0
    OBVIOUS
  <2> QED
    BY <2>1, <2>2 DEF Below
<1>2. CASE SwallowException(t)
  <2>1. used[t] # <<>> /\ Top(t) \in Stack
    BY <1>2, TopKinds DEF SwallowException
  <2>2. used'[t] = Outer(used[t])
    BY <1>2 DEF SwallowException, TypeOK
  <2>3. Below(used'[t], used[t]) /\ (used'[t] # <<>> => Last(used'[t]) \in Stack)
    BY <2>1, <2>2, PopActivation
  <2> QED
    BY <1>2, <2>3 DEF SwallowException, TypeOK, Top
<1>3. CASE ~SwallowException(t)
  <2>1. used' = [used EXCEPT ![t] = <<>>] /\ UNCHANGED <<dll, idle, fresh>>
    BY <1>3 DEF Dropping, UnhandledException, BeginExit, TerminateOther
  <2>2. used'[t] = <<>> /\ \A u \in Thread \ {t} : used'[u] = used[u]
    BY <2>1 DEF TypeOK
  <2> QED
    BY <1>1, <2>1, <2>2
<1> QED
  BY <1>2, <1>3

\* The other steps.
Calm(t) ==
    \/ Start(t) \/ Register(t) \/ CreateTeb(t) \/ RegisterTeb(t) \/ EnterCode(t) \/ Unlist(t)
    \/ LeaveForeign(t) \/ Deliver(t) \/ FinishExit(t)

LEMMA StepKinds ==
    ASSUME [Next]_vars
    PROVE  \/ UNCHANGED vars
           \/ \E t \in Thread : Taking(t) \/ Put(t) \/ Dropping(t) \/ Calm(t)
BY DEF Next, Step, Taking, Dropping, Calm

LEMMA CalmKeeps ==
    ASSUME NEW t \in Thread, Calm(t)
    PROVE  used' = used /\ dll' = dll
BY DEF Calm, Start, Register, CreateTeb, RegisterTeb, EnterCode, Unlist, LeaveForeign,
       Deliver, FinishExit

-----------------------------------------------------------------------------
(* Shape                                                                   *)

\* The two parts of Shape, for what one thread took and where it is.
Chain(s, d) ==
    \A k \in DOMAIN s :
        /\ s[k] \in Engines /\ k > 1 => s[k - 1] \in Stack
        /\ s[k] \in Cpu => k > 1 /\ s[k - 1] = Bochs
        /\ s[k] \in Stack =>
              /\ k > 1
              /\ \/ s[k - 1] \in Box /\ d[s[k]] = s[k - 1]
                 \/ s[k - 1] \in Cpu /\ d[s[k]] = Bochs

Place(s, at) ==
    /\ at \in {"cpu", "stack", "list", "unlist", "put"} => s # <<>>
    /\ s # <<>> =>
          /\ at = "cpu" => Last(s) = Bochs
          /\ at \in {"stack", "unlist"} => Last(s) \in Box \cup Cpu
          /\ at = "list" => Last(s) \in Cpu \cup Stack
          /\ at = "put" => Last(s) \in Box \cup Cpu \cup Stack
          /\ at = "teb" => Last(s) = Bochs \/ Last(s) \in Stack
          /\ at \in {"run", "code", "wipe"} => Last(s) \in Stack

LEMMA ShapeIs == Shape <=> \A t \in Thread : Chain(used[t], dll) /\ Place(used[t], pc[t])
BY Zenon DEF Shape, Chain, Place, Top

LEMMA ShapeIsNext ==
    Shape' <=> \A t \in Thread : Chain(used'[t], dll') /\ Place(used'[t], pc'[t])
BY Zenon DEF Shape, Chain, Place, Top

LEMMA ChainBelow ==
    ASSUME NEW s \in Seq(Held), NEW p, NEW d, Below(p, s), Chain(s, d)
    PROVE  Chain(p, d)
<1>1. DOMAIN p = 1 .. Len(p) /\ DOMAIN p \subseteq DOMAIN s /\ Len(p) \in Nat
  BY BelowElements
<1>2. SUFFICES ASSUME NEW k \in DOMAIN p
               PROVE  /\ p[k] \in Engines /\ k > 1 => p[k - 1] \in Stack
                      /\ p[k] \in Cpu => k > 1 /\ p[k - 1] = Bochs
                      /\ p[k] \in Stack =>
                            /\ k > 1
                            /\ \/ p[k - 1] \in Box /\ d[p[k]] = p[k - 1]
                               \/ p[k - 1] \in Cpu /\ d[p[k]] = Bochs
  BY DEF Chain
<1>3. p[k] = s[k] /\ k \in DOMAIN s /\ (k > 1 => p[k - 1] = s[k - 1])
  BY <1>1 DEF Below
<1> QED
  BY <1>3 DEF Chain

LEMMA ChainPushed ==
    ASSUME NEW s \in Seq(Held), NEW e \in Held, NEW d, Chain(s, d),
           e \in Engines => s = <<>> \/ Last(s) \in Stack,
           e \in Cpu => s # <<>> /\ Last(s) = Bochs,
           e \in Stack => s # <<>> /\ (\/ Last(s) \in Box /\ d[e] = Last(s)
                                       \/ Last(s) \in Cpu /\ d[e] = Bochs)
    PROVE  Chain(Append(s, e), d)
<1> DEFINE a == Append(s, e)
<1>1. /\ Len(s) \in Nat /\ DOMAIN s = 1 .. Len(s) /\ DOMAIN a = 1 .. Len(s) + 1
      /\ a[Len(s) + 1] = e /\ \A k \in 1 .. Len(s) : a[k] = s[k]
  BY Pushed
<1>3. /\ s = <<>> => Len(s) = 0
      /\ s # <<>> => Len(s) # 0
  BY EmptySeq
<1> HIDE DEF a
<1>2. s # <<>> => Len(s) > 0 /\ Last(s) = a[Len(s)]
  <2> SUFFICES ASSUME s # <<>> PROVE Len(s) > 0 /\ Last(s) = a[Len(s)]
    OBVIOUS
  <2>1. Len(s) \in 1 .. Len(s) /\ Len(s) > 0
    BY <1>1, <1>3
  <2>2. s[Len(s)] = a[Len(s)]
    BY <1>1, <2>1
  <2> QED
    BY <2>1, <2>2 DEF Last
<1>4. SUFFICES ASSUME NEW k \in DOMAIN a
               PROVE  /\ a[k] \in Engines /\ k > 1 => a[k - 1] \in Stack
                      /\ a[k] \in Cpu => k > 1 /\ a[k - 1] = Bochs
                      /\ a[k] \in Stack =>
                            /\ k > 1
                            /\ \/ a[k - 1] \in Box /\ d[a[k]] = a[k - 1]
                               \/ a[k - 1] \in Cpu /\ d[a[k]] = Bochs
  BY DEF Chain, a
<1>5. CASE k = Len(s) + 1
  <2>1. a[k] = e /\ k - 1 = Len(s)
    BY <1>1, <1>5
  <2> QED
    BY <1>1, <1>2, <1>3, <1>5, <2>1
<1>6. CASE k # Len(s) + 1
  <2>1. k \in DOMAIN s /\ a[k] = s[k] /\ (k > 1 => a[k - 1] = s[k - 1])
    BY <1>1, <1>6
  <2> QED
    BY <2>1 DEF Chain
<1> QED
  BY <1>5, <1>6

LEMMA ChainDll ==
    ASSUME NEW s \in Seq(Held), NEW d, NEW f, Chain(s, d),
           \A x \in Stack \cap ToSet(s) : f[x] = d[x]
    PROVE  Chain(s, f)
<1>1. \A k \in DOMAIN s : s[k] \in Stack => f[s[k]] = d[s[k]]
  BY DEF ToSet
<1> QED
  BY <1>1 DEF Chain

\* Activations take and give back in the order of EmuExecute.
LEMMA ShapeNext ==
    ASSUME IInv, [Next]_vars
    PROVE  Shape'
<1>0. TypeOK /\ Shape /\ FreshUnused /\ DeliveryPhase
  BY DEF IInv
<1>1. \A u \in Thread : /\ used[u] \in Seq(Held)
                        /\ Chain(used[u], dll)
                        /\ Place(used[u], pc[u])
  BY <1>0, ShapeIs DEF TypeOK, Held
<1>2. SUFFICES \A u \in Thread : Chain(used'[u], dll') /\ Place(used'[u], pc'[u])
  BY ShapeIsNext
<1>3. ASSUME NEW t \in Thread, Taking(t)
      PROVE  \A u \in Thread : Chain(used'[u], dll') /\ Place(used'[u], pc'[u])
  <2>1. PICK e \in Held : Taken(t, e)
    BY <1>0, <1>3, TakingTakes
  <2>2. \A u \in Thread \ {t} : used'[u] = used[u] /\ pc'[u] = pc[u]
    BY <2>1 DEF Taken
  <2>3. used'[t] = Append(used[t], e)
    BY <2>1 DEF Taken
  <2>4. \A x \in Stack : dll'[x] # dll[x] => x \in fresh
    BY <1>0, <2>1, TypesAre, Kinds DEF Taken, Types
  <2>5. \A u \in Thread : Chain(used[u], dll')
    <3> SUFFICES ASSUME NEW u \in Thread PROVE Chain(used[u], dll')
      OBVIOUS
    <3>1. \A x \in Stack \cap ToSet(used[u]) : dll'[x] = dll[x]
      BY <1>0, <2>4 DEF FreshUnused
    <3> QED
      BY <1>1, <3>1, ChainDll
  <2>6. /\ e \in Engines => used[t] = <<>> \/ Last(used[t]) \in Stack
        /\ e \in Cpu => used[t] # <<>> /\ Last(used[t]) = Bochs
        /\ e \in Stack => /\ used[t] # <<>>
                          /\ \/ Last(used[t]) \in Box /\ dll'[e] = Last(used[t])
                             \/ Last(used[t]) \in Cpu /\ dll'[e] = Bochs
    <3>1. CASE pc[t] = "run" /\ e \in Engines
      <4>1. e \notin Cpu /\ e \notin Stack
        BY <3>1, Kinds DEF Engines
      <4> QED
        BY <1>1, <3>1, <4>1 DEF Place
    <3>2. CASE pc[t] = "cpu" /\ e \in Cpu
      <4>1. e \notin Engines /\ e \notin Stack
        BY <3>2, Kinds DEF Engines
      <4> QED
        BY <1>1, <3>2, <4>1 DEF Place
    <3>3. CASE pc[t] = "stack" /\ e \in Stack /\ dll'[e] = Engine(t)
      <4>1. e \notin Engines /\ e \notin Cpu
        BY <3>3, Kinds DEF Engines
      <4>2. used[t] # <<>> /\ Last(used[t]) \in Box \cup Cpu
        BY <1>1, <3>3 DEF Place
      <4>3. Last(used[t]) \in Cpu => Last(used[t]) \notin Box
        BY Kinds
      <4> QED
        BY <3>3, <4>1, <4>2, <4>3 DEF Engine, Top
    <3> QED
      BY <2>1, <3>1, <3>2, <3>3 DEF Taken, Engines
  <2>7. Chain(used'[t], dll')
    BY <1>1, <2>3, <2>5, <2>6, ChainPushed
  <2>8. used'[t] # <<>> /\ Last(used'[t]) = e
    BY <1>1, <2>3, Pushed
  <2>9. Place(used'[t], pc'[t])
    BY <2>1, <2>8 DEF Taken, Place
  <2> QED
    BY <1>1, <2>2, <2>5, <2>7, <2>9
<1>4. ASSUME NEW t \in Thread, Put(t)
      PROVE  \A u \in Thread : Chain(used'[u], dll') /\ Place(used'[u], pc'[u])
  <2>1. PutBack(t, Top(t)) /\ dll' = dll
    BY <1>0, <1>4, PutPutsBack DEF PutBack
  <2>2. Chain(used'[t], dll')
    BY <1>1, <2>1, ChainBelow DEF PutBack
  <2>3. Place(used'[t], pc'[t])
    <3>1. CASE Top(t) \in Stack
      <4>1. used[t] # <<>>
        BY <2>1 DEF PutBack
      <4>2. used[t][Len(used[t]) - 1] \in Box \cup Cpu
        BY <1>0, <3>1, <4>1, PopActivation
      <4>3. used'[t] # <<>> /\ Last(used'[t]) \in Box \cup Cpu /\ pc'[t] = "unlist"
        BY <2>1, <3>1, <4>2 DEF PutBack, Top
      <4> QED
        BY <4>3 DEF Place
    <3>2. CASE Top(t) \notin Stack
      BY <2>1, <3>2 DEF PutBack, Place, Top
    <3> QED
      BY <3>1, <3>2
  <2> QED
    BY <1>1, <2>1, <2>2, <2>3 DEF PutBack
<1>5. ASSUME NEW t \in Thread, Dropping(t)
      PROVE  \A u \in Thread : Chain(used'[u], dll') /\ Place(used'[u], pc'[u])
  <2>1. /\ Below(used'[t], used[t])
        /\ used'[t] # <<>> => Last(used'[t]) \in Stack /\ pc'[t] = "run"
        /\ \A u \in Thread \ {t} : used'[u] = used[u]
        /\ dll' = dll
    BY <1>0, <1>5, DropsBelow DEF Top
  <2>2. \A u \in Thread \ {t} : pc'[u] = pc[u] \/ (pc[u] = "run" /\ pc'[u] = "wipe")
    BY <1>0, <1>5 DEF Dropping, SwallowException, UnhandledException, BeginExit,
       TerminateOther, Goto, TypeOK
  <2>3. pc'[t] \in {"run", "off", "drain"}
    BY <1>0, <1>5 DEF Dropping, SwallowException, UnhandledException, BeginExit,
       TerminateOther, Goto, TypeOK
  <2>4. Chain(used'[t], dll')
    BY <1>1, <2>1, ChainBelow
  <2>5. Place(used'[t], pc'[t])
    BY <2>1, <2>3 DEF Place
  <2>6. \A u \in Thread \ {t} : Place(used'[u], pc'[u])
    BY <1>1, <2>1, <2>2 DEF Place
  <2> QED
    BY <1>1, <2>1, <2>4, <2>5, <2>6
<1>6. ASSUME NEW t \in Thread, Calm(t)
      PROVE  \A u \in Thread : Chain(used'[u], dll') /\ Place(used'[u], pc'[u])
  <2>1. used' = used /\ dll' = dll
    BY <1>6, CalmKeeps
  <2>2. \A u \in Thread \ {t} : pc'[u] = pc[u]
    BY <1>0, <1>6 DEF Calm, Start, Register, CreateTeb, RegisterTeb, EnterCode, Unlist,
       LeaveForeign, Deliver, FinishExit, Goto, TypeOK
  <2>3. Place(used[t], pc'[t])
    <3>1. CASE Start(t) \/ LeaveForeign(t) \/ FinishExit(t)
      <4>1. CASE used[t] = <<>>
        BY <1>0, <3>1, <4>1 DEF Start, LeaveForeign, FinishExit, Goto, TypeOK, Place
      <4>2. CASE used[t] # <<>>
        <5>1. pc[t] = "wipe" /\ pc'[t] = "run"
          BY <1>0, <3>1, <4>2 DEF Start, LeaveForeign, FinishExit, Goto, TypeOK, DeliveryPhase
        <5> QED
          BY <1>1, <4>2, <5>1 DEF Place
      <4> QED
        BY <4>1, <4>2
    <3>2. CASE Register(t)
      <4>1. used[t] # <<>> /\ Last(used[t]) \in Cpu \cup Stack
        BY <1>1, <3>2 DEF Register, Place
      <4>2. pc'[t] = IF Last(used[t]) \in Cpu THEN "stack" ELSE "code"
        BY <1>0, <3>2 DEF Register, TypeOK, Top
      <4> QED
        BY <4>1, <4>2 DEF Place
    <3>3. CASE CreateTeb(t) \/ EnterCode(t) \/ Deliver(t)
      BY <1>0, <1>1, <3>3 DEF CreateTeb, EnterCode, Deliver, Goto, TypeOK, Place
    <3>4. CASE Unlist(t)
      BY <1>0, <1>1, <3>4 DEF Unlist, Goto, TypeOK, Place
    <3>5. CASE RegisterTeb(t)
      <4>1. pc[t] = "teb" /\ pc'[t] = IF NeedsCpu(t) THEN "cpu" ELSE "code"
        BY <1>0, <3>5 DEF RegisterTeb, TypeOK
      <4>2. used[t] # <<>> => Last(used[t]) = Bochs \/ Last(used[t]) \in Stack
        BY <1>1, <4>1 DEF Place
      <4> QED
        BY <4>1, <4>2 DEF NeedsCpu, Top, Place
    <3> QED
      BY <1>6, <3>1, <3>2, <3>3, <3>4, <3>5 DEF Calm
  <2> QED
    BY <1>1, <2>1, <2>2, <2>3
<1>7. ASSUME UNCHANGED vars
      PROVE  \A u \in Thread : Chain(used'[u], dll') /\ Place(used'[u], pc'[u])
  BY <1>1, <1>7 DEF vars
<1> QED
  BY <1>3, <1>4, <1>5, <1>6, <1>7, StepKinds

-----------------------------------------------------------------------------
(* What was never allocated                                                *)

\* What the steps do to the list of a thread.
LEMMA ListSteps ==
    ASSUME TypeOK, NEW t \in Thread
    PROVE  /\ \A r \in Resource :
                  /\ ToSet(Cons(r, listed[t])) = {r} \cup ToSet(listed[t])
                  /\ \A x : /\ Once(listed[t], x)
                            /\ x = r => x \notin ToSet(listed[t])
                            => Once(Cons(r, listed[t]), x)
           /\ \A r : /\ ToSet(RemoveFirst(listed[t], r)) \subseteq ToSet(listed[t])
                     /\ ToSet(listed[t]) \ {r} \subseteq ToSet(RemoveFirst(listed[t], r))
                     /\ \A x : Once(listed[t], x) => Once(RemoveFirst(listed[t], r), x)
                     /\ Once(listed[t], r) => r \notin ToSet(RemoveFirst(listed[t], r))
           /\ pending[t] # <<>> =>
                  /\ Head(pending[t]) \in Resource
                  /\ Head(pending[t]) \in ToSet(pending[t])
                  /\ ToSet(pending[t]) = {Head(pending[t])} \cup ToSet(Tail(pending[t]))
                  /\ \A x : Once(pending[t], x) => Once(Tail(pending[t]), x)
                  /\ Once(pending[t], Head(pending[t]))
                        => Head(pending[t]) \notin ToSet(Tail(pending[t]))
<1>1. listed[t] \in Seq(Resource) /\ pending[t] \in Seq(Resource)
  BY DEF TypeOK
<1>2. \A r \in Resource :
          /\ ToSet(Cons(r, listed[t])) = {r} \cup ToSet(listed[t])
          /\ \A x : /\ Once(listed[t], x)
                    /\ x = r => x \notin ToSet(listed[t])
                    => Once(Cons(r, listed[t]), x)
  BY <1>1, ConsProperties
<1>3. \A r : /\ ToSet(RemoveFirst(listed[t], r)) \subseteq ToSet(listed[t])
             /\ ToSet(listed[t]) \ {r} \subseteq ToSet(RemoveFirst(listed[t], r))
             /\ \A x : Once(listed[t], x) => Once(RemoveFirst(listed[t], r), x)
             /\ Once(listed[t], r) => r \notin ToSet(RemoveFirst(listed[t], r))
  BY <1>1, RemoveFirstProperties
<1>4. pending[t] # <<>> =>
          /\ Head(pending[t]) \in Resource
          /\ Head(pending[t]) \in ToSet(pending[t])
          /\ ToSet(pending[t]) = {Head(pending[t])} \cup ToSet(Tail(pending[t]))
          /\ \A x : Once(pending[t], x) => Once(Tail(pending[t]), x)
          /\ Once(pending[t], Head(pending[t]))
                => Head(pending[t]) \notin ToSet(Tail(pending[t]))
  BY <1>1, TailProperties, StepTypes
<1> QED
  BY <1>2, <1>3, <1>4

\* What a thread that takes e has then.
LEMMA TakenElements ==
    ASSUME TypeOK, NEW t \in Thread, NEW e \in Held, Taken(t, e)
    PROVE  /\ ToSet(used'[t]) = {e} \cup ToSet(used[t])
           /\ used'[t] # <<>>
           /\ Top(t)' = e
           /\ \A x : Once(used[t], x) /\ (x = e => x \notin ToSet(used[t])) => Once(used'[t], x)
<1>1. used[t] \in Seq(Held) /\ used'[t] = Append(used[t], e)
  BY DEF TypeOK, Held, Taken
<1> QED
  BY <1>1, AppendElements DEF Top

\* Of what it takes only an engine is entered in its list at once.
LEMMA TakenEntries ==
    ASSUME TypeOK, NEW t \in Thread, NEW e \in Held, Taken(t, e), NEW u \in Thread
    PROVE  /\ ToSet(listed[u]) \subseteq ToSet(listed'[u])
           /\ \A x \in ToSet(listed'[u]) : x \in ToSet(listed[u]) \/ (x = e /\ e \in Box)
           /\ \A s \in Stack : s \in ToSet(listed'[u]) => s \in ToSet(listed[u])
<1>1. CASE u # t \/ listed'[t] = listed[t]
  BY <1>1 DEF Taken
<1>2. CASE u = t /\ e \in Box /\ listed'[t] = Cons(e, listed[t])
  <2>1. e \in Resource /\ e \notin Stack
    BY <1>2, Kinds
  <2>2. ToSet(listed'[t]) = {e} \cup ToSet(listed[t])
    BY <1>2, <2>1, ListSteps
  <2> QED
    BY <1>2, <2>1, <2>2
<1> QED
  BY <1>1, <1>2 DEF Taken

\* What it has less after Put, a fault or an exit.
LEMMA DroppedElements ==
    ASSUME TypeOK, NEW t \in Thread, Below(used'[t], used[t])
    PROVE  /\ ToSet(used'[t]) \subseteq ToSet(used[t])
           /\ \A x : Once(used[t], x) => Once(used'[t], x)
<1>1. used[t] \in Seq(Held)
  BY DEF TypeOK, Held
<1> QED
  BY <1>1, BelowElements

\* A resource that was broken stays broken, and only TerminateThread breaks one.
LEMMA VoidGrows ==
    ASSUME NEW t \in Thread
    PROVE  /\ Taking(t) \/ Put(t) \/ Calm(t) \/ SwallowException(t)
              \/ UnhandledException(t) \/ BeginExit(t) => void' = void
           /\ Dropping(t) => void \subseteq void'
BY DEF Taking, LeaseBox, UseBochs, TakeCpu, TakeStack, Put, Calm, Start, Register,
       CreateTeb, RegisterTeb, EnterCode, Unlist, LeaveForeign, Deliver, FinishExit, Dropping,
       SwallowException, UnhandledException, BeginExit, TerminateOther

LEMMA FreshUnusedNext ==
    ASSUME IInv, [Next]_vars
    PROVE  FreshUnused'
<1>0. TypeOK /\ Types /\ Shape /\ FreshUnused /\ ListedByHolder /\ DeliveryPhase /\ TebListed
  BY TypesAre DEF IInv
<1>1. ASSUME NEW t \in Thread, Taking(t) PROVE FreshUnused'
  <2>1. PICK e \in Held : Taken(t, e)
    BY <1>0, <1>1, TakingTakes
  <2>2. fresh' = fresh \ {e} /\ idle' = idle \ {e} /\ void' = void
    BY <2>1 DEF Taken
  <2>3. \A u \in Thread : ToSet(used'[u]) \subseteq {e} \cup ToSet(used[u])
    BY <1>0, <2>1, TakenElements DEF Taken
  <2>4. \A s \in Stack \ {e} : dll'[s] = dll[s]
    BY <2>1 DEF Taken
  <2>5. e \in Stack => dll'[e] # None
    BY <2>1, Kinds DEF Taken, Engine
  <2> QED
    BY <1>0, <2>2, <2>3, <2>4, <2>5 DEF FreshUnused
<1>2. ASSUME NEW t \in Thread, Put(t) PROVE FreshUnused'
  <2>1. PutBack(t, Top(t))
    BY <1>0, <1>2, PutPutsBack
  <2>2. Top(t) \in ToSet(used[t]) /\ Top(t) \in Box \cup Cpu \cup Stack
    BY <1>0, <2>1, TopOf DEF PutBack
  <2>3. Top(t) \notin fresh
    BY <1>0, <2>2, Kinds DEF FreshUnused, Types
  <2>4. \A u \in Thread : ToSet(used'[u]) \subseteq ToSet(used[u])
    BY <1>0, <2>1, DroppedElements DEF PutBack
  <2> QED
    BY <1>0, <2>1, <2>3, <2>4 DEF FreshUnused, PutBack
<1>3. ASSUME NEW t \in Thread, Dropping(t) PROVE FreshUnused'
  <2>1. dll' = dll /\ idle' = idle /\ fresh' = fresh
    BY <1>0, <1>3, DropsBelow
  <2>2. \A u \in Thread : ToSet(used'[u]) \subseteq ToSet(used[u])
    BY <1>0, <1>3, DropsBelow, DroppedElements
  <2>3. \A r \in fresh \cap (Stack \cup Cpu) : r \notin void'
    <3>1. CASE \E c \in Thread : c # t /\ TerminateOther(c, t)
      <4>1. PICK c \in Thread : void' = void \cup ((ToSet(listed[c]) \cup Unlisted(t)) \ {Bochs})
        BY <3>1 DEF TerminateOther
      <4>2. ASSUME NEW r \in fresh \cap (Stack \cup Cpu)
            PROVE  r \notin void'
        <5>1. r \in Intact
          BY <1>0, <4>2 DEF FreshUnused, Intact, Resource
        <5>2. r \notin ToSet(listed[c]) /\ r \notin ToSet(pending[t])
          BY <1>0, <4>2, <5>1 DEF ListedByHolder
        <5>3. r \notin NewTeb(t)
          BY <1>0, <4>2, NewTebs, Kinds
        <5> QED
          BY <1>0, <4>1, <4>2, <5>2, <5>3 DEF FreshUnused, Unlisted
      <4> QED
        BY <4>2
    <3>2. CASE SwallowException(t) \/ UnhandledException(t) \/ BeginExit(t)
      BY <1>0, <3>2, VoidGrows DEF FreshUnused
    <3> QED
      BY <1>3, <3>1, <3>2 DEF Dropping
  <2> QED
    BY <1>0, <2>1, <2>2, <2>3 DEF FreshUnused
<1>4. ASSUME NEW t \in Thread, Calm(t) PROVE FreshUnused'
  <2>1. used' = used /\ dll' = dll /\ void' = void
    BY <1>4, CalmKeeps, VoidGrows
  <2>2. CASE Deliver(t)
    <3>1. PICK r \in Resource : /\ r = Head(pending[t])
                               /\ r \in ToSet(pending[t])
                               /\ IF r \in Teb THEN fresh' = fresh \cup {r} /\ idle' = idle
                                              ELSE idle' = idle \cup {r} /\ fresh' = fresh
      BY <1>0, <2>2, ListSteps DEF Deliver
    <3>2. CASE r \in Teb
      <4>1. r \notin idle /\ r \notin Stack /\ r \notin Cpu
        BY <1>0, <3>2, Kinds DEF Types
      <4> QED
        BY <1>0, <2>1, <3>1, <3>2, <4>1 DEF FreshUnused
    <3>3. CASE r \notin Teb
      <4>1. r \notin fresh
        <5>1. CASE r \in void
          BY <1>0, <3>3, <5>1, Kinds DEF FreshUnused, Types
        <5>2. CASE r \notin void
          BY <1>0, <3>1, <5>2 DEF ListedByHolder, Intact
        <5> QED
          BY <5>1, <5>2
      <4> QED
        BY <1>0, <2>1, <3>1, <3>3, <4>1 DEF FreshUnused
    <3> QED
      BY <3>2, <3>3
  <2>3. CASE CreateTeb(t)
    <3>1. PICK b \in Teb : fresh' = fresh \ {b} /\ idle' = idle
      BY <2>3 DEF CreateTeb
    <3>2. b \notin Stack
      BY Kinds
    <3> QED
      BY <1>0, <2>1, <3>1, <3>2 DEF FreshUnused
  <2>4. CASE ~Deliver(t) /\ ~CreateTeb(t)
    <3>1. idle' = idle /\ fresh' = fresh
      BY <1>4, <2>4 DEF Calm, Start, Register, RegisterTeb, EnterCode, Unlist, LeaveForeign,
         FinishExit
    <3> QED
      BY <1>0, <2>1, <3>1 DEF FreshUnused
  <2> QED
    BY <2>2, <2>3, <2>4
<1>5. ASSUME UNCHANGED vars PROVE FreshUnused'
  BY <1>0, <1>5 DEF vars, FreshUnused
<1> QED
  BY <1>1, <1>2, <1>3, <1>4, <1>5, StepKinds

-----------------------------------------------------------------------------
(* Exclusive use                                                           *)

\* Exclusive, by element instead of by index.
ExclusiveSets ==
    \A t \in Thread : \A x \in Intact \cap ToSet(used[t]) :
        /\ x \notin idle /\ x \notin fresh
        /\ Once(used[t], x)
        /\ \A u \in Thread \ {t} : x \notin ToSet(used[u])

LEMMA ExclusiveIs == Exclusive <=> ExclusiveSets
<1>1. Exclusive => ExclusiveSets
  BY DEF Exclusive, ExclusiveSets, ToSet, Once
<1>2. ExclusiveSets => Exclusive
  BY DEF Exclusive, ExclusiveSets, ToSet, Once
<1> QED
  BY <1>1, <1>2

LEMMA ExclusiveIsNext == ExclusiveSets' => Exclusive'
BY DEF Exclusive, ExclusiveSets, ToSet, Once

\* What is put back was taken once.
LEMMA PutBackGone ==
    ASSUME TypeOK, ExclusiveSets, NEW t \in Thread, PutBack(t, Top(t)), Top(t) \in Intact
    PROVE  Top(t) \notin ToSet(used'[t])
<1> SUFFICES ASSUME Top(t) \in ToSet(used'[t]) PROVE FALSE
  OBVIOUS
<1>1. /\ used[t] \in Seq(Held) /\ Len(used[t]) \in Nat \ {0}
      /\ DOMAIN used[t] = 1 .. Len(used[t])
      /\ Top(t) = used[t][Len(used[t])] /\ Top(t) \in ToSet(used[t])
  BY TopOf DEF PutBack
<1>2. Below(used'[t], used[t]) /\ Len(used'[t]) < Len(used[t])
  BY DEF PutBack
<1>3. Len(used'[t]) \in Nat /\ DOMAIN used'[t] = 1 .. Len(used'[t])
  BY <1>1, <1>2, BelowElements
<1>4. PICK k \in 1 .. Len(used'[t]) : used'[t][k] = Top(t)
  BY <1>3 DEF ToSet
<1>5. k \in DOMAIN used[t] /\ used[t][k] = Top(t) /\ k # Len(used[t])
  BY <1>1, <1>2, <1>3, <1>4 DEF Below
<1>6. Once(used[t], Top(t))
  BY <1>1 DEF ExclusiveSets
<1> QED
  BY <1>1, <1>5, <1>6 DEF Once

LEMMA ExclusiveNext ==
    ASSUME IInv, [Next]_vars
    PROVE  Exclusive'
<1>0. /\ TypeOK /\ Types /\ Shape /\ FreshUnused /\ ExclusiveSets /\ ListedByHolder
      /\ DeliveryPhase
  BY TypesAre, ExclusiveIs DEF IInv
<1> SUFFICES ExclusiveSets'
  BY ExclusiveIsNext
<1> USE DEF Intact
<1>1. ASSUME NEW t \in Thread, Taking(t) PROVE ExclusiveSets'
  <2>1. PICK e \in Held : Taken(t, e)
    BY <1>0, <1>1, TakingTakes
  <2>2. /\ fresh' = fresh \ {e} /\ idle' = idle \ {e} /\ void' = void
        /\ \A u \in Thread \ {t} : used'[u] = used[u]
        /\ e # Bochs => e \in idle \cup fresh
    BY <2>1 DEF Taken
  <2>3. /\ ToSet(used'[t]) = {e} \cup ToSet(used[t])
        /\ \A x : Once(used[t], x) /\ (x = e => x \notin ToSet(used[t])) => Once(used'[t], x)
    BY <1>0, <2>1, TakenElements
  <2>4. e \in Intact => \A u \in Thread : e \notin ToSet(used[u])
    BY <1>0, <2>2, Kinds DEF ExclusiveSets
  <2>5. \A x : x \notin ToSet(used[t]) => Once(used[t], x)
    BY DEF Once, ToSet
  <2> QED
    BY <1>0, <2>2, <2>3, <2>4, <2>5 DEF ExclusiveSets
<1>2. ASSUME NEW t \in Thread, Put(t) PROVE ExclusiveSets'
  <2>1. PutBack(t, Top(t))
    BY <1>0, <1>2, PutPutsBack
  <2>2. \A u \in Thread : /\ ToSet(used'[u]) \subseteq ToSet(used[u])
                          /\ \A x : Once(used[u], x) => Once(used'[u], x)
    BY <1>0, <2>1, DroppedElements DEF PutBack
  <2>3. \A u \in Thread : Top(t) \in Intact => Top(t) \notin ToSet(used'[u])
    <3>1. Top(t) \in ToSet(used[t])
      BY <1>0, <2>1, TopOf DEF PutBack
    <3> QED
      BY <1>0, <2>1, <2>2, <3>1, PutBackGone DEF ExclusiveSets
  <2> QED
    BY <1>0, <2>1, <2>2, <2>3 DEF ExclusiveSets, PutBack
<1>3. ASSUME NEW t \in Thread, Dropping(t) PROVE ExclusiveSets'
  <2>1. idle' = idle /\ fresh' = fresh /\ void \subseteq void'
    BY <1>0, <1>3, DropsBelow, VoidGrows
  <2>2. \A u \in Thread : /\ ToSet(used'[u]) \subseteq ToSet(used[u])
                          /\ \A x : Once(used[u], x) => Once(used'[u], x)
    BY <1>0, <1>3, DropsBelow, DroppedElements
  <2> QED
    BY <1>0, <2>1, <2>2 DEF ExclusiveSets
<1>4. ASSUME NEW t \in Thread, Calm(t) PROVE ExclusiveSets'
  <2>1. used' = used /\ dll' = dll /\ void' = void
    BY <1>4, CalmKeeps, VoidGrows
  <2>2. CASE Deliver(t)
    <3>1. PICK r \in Resource : /\ r \in ToSet(pending[t])
                               /\ IF r \in Teb THEN fresh' = fresh \cup {r} /\ idle' = idle
                                              ELSE idle' = idle \cup {r} /\ fresh' = fresh
      BY <1>0, <2>2, ListSteps DEF Deliver
    <3>2. r \in Intact => \A u \in Thread : r \notin ToSet(used[u])
      <4> SUFFICES ASSUME r \in Intact, NEW u \in Thread
                   PROVE  r \notin ToSet(used[u])
        OBVIOUS
      <4>1. CASE u # t
        BY <1>0, <3>1, <4>1 DEF ListedByHolder
      <4>2. CASE u = t
        <5>1. pc[t] = "drain"
          BY <1>0, <2>2, <3>1 DEF Deliver, DeliveryPhase
        <5> QED
          BY <1>0, <4>2, <5>1, ToSetEmpty DEF DeliveryPhase
      <4> QED
        BY <4>1, <4>2
    <3> QED
      BY <1>0, <2>1, <3>1, <3>2 DEF ExclusiveSets
  <2>3. CASE ~Deliver(t)
    <3>1. idle' = idle /\ fresh' \subseteq fresh
      BY <1>4, <2>3 DEF Calm, Start, Register, CreateTeb, RegisterTeb, EnterCode, Unlist,
         LeaveForeign, FinishExit
    <3> QED
      BY <1>0, <2>1, <3>1 DEF ExclusiveSets
  <2> QED
    BY <2>2, <2>3
<1>5. ASSUME UNCHANGED vars PROVE ExclusiveSets'
  BY <1>0, <1>5 DEF vars, ExclusiveSets
<1> QED
  BY <1>1, <1>2, <1>3, <1>4, <1>5, StepKinds

-----------------------------------------------------------------------------
(* What the steps do to the lists                                          *)

\* CbNotifyThreadExit takes the list of t, at its exit.
Exits(t) ==
    /\ pc[t] = "run" /\ pc'[t] = "drain"
    /\ used'[t] = <<>> /\ listed'[t] = <<>> /\ pending'[t] = listed[t]
    /\ \A u \in Thread \ {t} : /\ used'[u] = used[u] /\ listed'[u] = listed[u]
                               /\ pending'[u] = pending[u] /\ pc'[u] = pc[u]
    /\ UNCHANGED <<idle, fresh, dll, teb, void>>

LEMMA BeginExitExits ==
    ASSUME TypeOK, NEW t \in Thread, BeginExit(t)
    PROVE  Exits(t)
BY DEF BeginExit, Goto, TypeOK, Exits

\* c ends v, and its own list is delivered.
Kills(c, v) ==
    /\ c # v
    /\ pc[c] = "run" /\ pc'[c] = "wipe" /\ pc'[v] = "off"
    /\ used'[v] = <<>> /\ pending'[v] = <<>> /\ teb'[v] = None
    /\ listed'[c] = <<>> /\ pending'[c] = listed[c]
    /\ \A u \in Thread \ {v} : used'[u] = used[u] /\ teb'[u] = teb[u]
    /\ \A u \in Thread \ {c} : listed'[u] = listed[u]
    /\ \A u \in Thread \ {c, v} : pending'[u] = pending[u] /\ pc'[u] = pc[u]
    /\ UNCHANGED <<idle, fresh, dll>>
    /\ void \subseteq void'
    /\ ToSet(listed[c]) \subseteq void'
    /\ \A x \in Resource : x \in ToSet(used[v]) \cup ToSet(pending[v]) \cup NewTeb(v) =>
                               x \in ToSet(listed[v]) \/ x \in void'
    /\ \A x \in void' : \/ x \in void
                        \/ x \in ToSet(listed[c])
                        \/ x \in NewTeb(v)
                        \/ /\ x \in ToSet(used[v]) \cup ToSet(pending[v])
                           /\ x \notin ToSet(listed[v])

LEMMA TerminateOtherKills ==
    ASSUME TypeOK, NEW c \in Thread, NEW v \in Thread, c # v, TerminateOther(c, v)
    PROVE  Kills(c, v)
<1>1. ToSet(listed[c]) \subseteq Resource
  BY StepTypes
<1>2. /\ void \subseteq void'
      /\ ToSet(listed[c]) \subseteq void'
      /\ \A x \in Resource : x \in ToSet(used[v]) \cup ToSet(pending[v]) \cup NewTeb(v) =>
                                 x \in ToSet(listed[v]) \/ x \in void'
      /\ \A x \in void' : \/ x \in void
                          \/ x \in ToSet(listed[c])
                          \/ x \in NewTeb(v)
                          \/ /\ x \in ToSet(used[v]) \cup ToSet(pending[v])
                             /\ x \notin ToSet(listed[v])
  BY <1>1, Kinds DEF TerminateOther, Unlisted
<1>3. /\ pc[c] = "run" /\ pc'[c] = "wipe" /\ pc'[v] = "off"
      /\ used'[v] = <<>> /\ pending'[v] = <<>> /\ teb'[v] = None
      /\ listed'[c] = <<>> /\ pending'[c] = listed[c]
  BY DEF TerminateOther, TlsEnds, TypeOK
<1>4. /\ \A u \in Thread \ {v} : used'[u] = used[u] /\ teb'[u] = teb[u]
      /\ \A u \in Thread \ {c} : listed'[u] = listed[u]
      /\ \A u \in Thread \ {c, v} : pending'[u] = pending[u] /\ pc'[u] = pc[u]
      /\ UNCHANGED <<idle, fresh, dll>>
  BY DEF TerminateOther, TlsEnds, TypeOK
<1> QED
  BY <1>2, <1>3, <1>4 DEF Kills

\* r is entered in the list of t.
Enters(t, r) ==
    /\ r \in Resource
    /\ listed'[t] = Cons(r, listed[t])
    /\ ToSet(listed'[t]) = {r} \cup ToSet(listed[t])
    /\ \A x : Once(listed[t], x) /\ (x = r => x \notin ToSet(listed[t]))
                  => Once(listed'[t], x)
    /\ \A u \in Thread \ {t} : listed'[u] = listed[u] /\ pc'[u] = pc[u] /\ teb'[u] = teb[u]
    /\ UNCHANGED <<idle, dll, used, pending, void>>

LEMMA RegisterEnters ==
    ASSUME TypeOK, Shape, NEW t \in Thread, Register(t)
    PROVE  /\ Enters(t, Top(t))
           /\ pc[t] = "list" /\ used[t] # <<>> /\ Top(t) \in Cpu \cup Stack
           /\ Top(t) \in ToSet(used[t])
           /\ pc'[t] = IF Top(t) \in Cpu THEN "stack" ELSE "code"
           /\ fresh' = fresh /\ teb' = teb
<1>1. /\ pc[t] = "list" /\ used[t] # <<>> /\ Top(t) \in Cpu \cup Stack
      /\ Top(t) \in ToSet(used[t])
  BY TopKinds, TopOf DEF Register
<1>2. Top(t) \in Resource
  BY <1>1 DEF Resource
<1>3. listed'[t] = Cons(Top(t), listed[t])
  BY DEF Register, CallAtExit, TypeOK
<1>4. /\ ToSet(listed'[t]) = {Top(t)} \cup ToSet(listed[t])
      /\ \A x : Once(listed[t], x) /\ (x = Top(t) => x \notin ToSet(listed[t]))
                    => Once(listed'[t], x)
  BY <1>2, <1>3, ListSteps
<1>5. /\ \A u \in Thread \ {t} : listed'[u] = listed[u] /\ pc'[u] = pc[u] /\ teb'[u] = teb[u]
      /\ pc'[t] = IF Top(t) \in Cpu THEN "stack" ELSE "code"
      /\ UNCHANGED <<idle, fresh, dll, used, teb, pending, void>>
  BY DEF Register, CallAtExit, TypeOK
<1> QED
  BY <1>1, <1>2, <1>3, <1>4, <1>5 DEF Enters

\* b is allocated as the TEB of t.
Makes(t, b) ==
    /\ b \in fresh
    /\ pc[t] \in {"code", "cpu"} /\ pc'[t] = "teb"
    /\ teb'[t] = b
    /\ fresh' = fresh \ {b}
    /\ \A u \in Thread \ {t} : pc'[u] = pc[u] /\ teb'[u] = teb[u]
    /\ UNCHANGED <<idle, dll, used, listed, pending, void>>

LEMMA CreateTebMakes ==
    ASSUME TypeOK, NEW t \in Thread, CreateTeb(t)
    PROVE  \E b \in Teb : Makes(t, b)
<1>1. PICK b \in Teb : /\ b \in fresh
                       /\ teb' = [teb EXCEPT ![t] = b]
                       /\ fresh' = fresh \ {b}
  BY DEF CreateTeb
<1>2. Makes(t, b)
  BY <1>1 DEF CreateTeb, TypeOK, Makes
<1> QED
  BY <1>2

\* b, the TEB of t, is registered; nobody else has it.
RegistersTeb(t, b) ==
    /\ Enters(t, b)
    /\ pc[t] = "teb" /\ pc'[t] \in {"code", "cpu"}
    /\ teb[t] = b
    /\ fresh' = fresh /\ teb' = teb
    /\ b \in Intact => /\ b \notin fresh
                       /\ \A u \in Thread : b \notin ToSet(listed[u]) /\ b \notin ToSet(pending[u])

LEMMA RegisterTebEnters ==
    ASSUME IInv, NEW t \in Thread, RegisterTeb(t)
    PROVE  \E b \in Teb : RegistersTeb(t, b)
<1>0. TypeOK /\ TebListed /\ TebUnlisted
  BY DEF IInv
<1>1. PICK b : b = teb[t]
  OBVIOUS
<1>2. pc[t] = "teb" /\ b \in Teb /\ b \in Resource
  BY <1>0, <1>1, NewTebs DEF RegisterTeb
<1>3. listed'[t] = Cons(b, listed[t])
  BY <1>0, <1>1 DEF RegisterTeb, CallAtExit, TypeOK
<1>4. /\ ToSet(listed'[t]) = {b} \cup ToSet(listed[t])
      /\ \A x : Once(listed[t], x) /\ (x = b => x \notin ToSet(listed[t]))
                    => Once(listed'[t], x)
  BY <1>0, <1>2, <1>3, ListSteps
<1>5. /\ \A u \in Thread \ {t} : listed'[u] = listed[u] /\ pc'[u] = pc[u] /\ teb'[u] = teb[u]
      /\ pc'[t] \in {"code", "cpu"}
      /\ UNCHANGED <<idle, fresh, dll, used, teb, pending, void>>
  BY <1>0 DEF RegisterTeb, CallAtExit, TypeOK
<1>6. b \in Intact => /\ b \notin fresh
                     /\ \A u \in Thread : b \notin ToSet(listed[u]) /\ b \notin ToSet(pending[u])
  BY <1>0, <1>1, <1>2 DEF TebUnlisted
<1>7. RegistersTeb(t, b)
  BY <1>1, <1>2, <1>3, <1>4, <1>5, <1>6 DEF Enters, RegistersTeb
<1> QED
  BY <1>2, <1>7

\* Top(t) is cancelled.
Cancels(t) ==
    /\ used[t] # <<>>
    /\ \/ pc[t] = "run" /\ Top(t) \in Stack
       \/ pc[t] = "unlist" /\ Top(t) \in Box \cup Cpu
    /\ pc'[t] = "put"
    /\ listed'[t] = RemoveFirst(listed[t], Top(t))
    /\ ToSet(listed'[t]) \subseteq ToSet(listed[t])
    /\ ToSet(listed[t]) \ {Top(t)} \subseteq ToSet(listed'[t])
    /\ \A x : Once(listed[t], x) => Once(listed'[t], x)
    /\ Once(listed[t], Top(t)) => Top(t) \notin ToSet(listed'[t])
    /\ Top(t) \in ToSet(used[t])
    /\ \A u \in Thread \ {t} : listed'[u] = listed[u] /\ pc'[u] = pc[u]
    /\ UNCHANGED <<idle, fresh, dll, used, teb, pending, void>>

LEMMA UnlistCancels ==
    ASSUME TypeOK, Shape, NEW t \in Thread, Unlist(t)
    PROVE  Cancels(t)
<1>1. /\ used[t] # <<>>
      /\ \/ pc[t] = "run" /\ Top(t) \in Stack
         \/ pc[t] = "unlist" /\ Top(t) \in Box \cup Cpu
  BY TopKinds DEF Unlist, Goto
<1>2. listed'[t] = RemoveFirst(listed[t], Top(t))
  BY DEF Unlist, TypeOK
<1>3. /\ pc'[t] = "put"
      /\ \A u \in Thread \ {t} : listed'[u] = listed[u] /\ pc'[u] = pc[u]
      /\ UNCHANGED <<idle, fresh, dll, used, teb, pending, void>>
  BY DEF Unlist, Goto, TypeOK
<1>4. Top(t) \in ToSet(used[t])
  BY <1>1, TopOf
<1>5. /\ ToSet(listed'[t]) \subseteq ToSet(listed[t])
      /\ ToSet(listed[t]) \ {Top(t)} \subseteq ToSet(listed'[t])
      /\ \A x : Once(listed[t], x) => Once(listed'[t], x)
      /\ Once(listed[t], Top(t)) => Top(t) \notin ToSet(listed'[t])
  <2>1. PICK r : r = Top(t)
    OBVIOUS
  <2>2. /\ ToSet(RemoveFirst(listed[t], r)) \subseteq ToSet(listed[t])
        /\ ToSet(listed[t]) \ {r} \subseteq ToSet(RemoveFirst(listed[t], r))
        /\ \A x : Once(listed[t], x) => Once(RemoveFirst(listed[t], r), x)
        /\ Once(listed[t], r) => r \notin ToSet(RemoveFirst(listed[t], r))
    BY ListSteps
  <2> QED
    BY <1>2, <2>1, <2>2
<1> QED
  BY <1>1, <1>2, <1>3, <1>4, <1>5 DEF Cancels

\* r, the head of the list that is delivered, goes back.
Delivers(t, r) ==
    /\ pc[t] \in {"drain", "wipe"} /\ pc' = pc
    /\ pending[t] # <<>> /\ r = Head(pending[t]) /\ r \in Resource
    /\ r \in ToSet(pending[t])
    /\ pending'[t] = Tail(pending[t])
    /\ ToSet(pending[t]) = {r} \cup ToSet(pending'[t])
    /\ \A x : Once(pending[t], x) => Once(pending'[t], x)
    /\ Once(pending[t], r) => r \notin ToSet(pending'[t])
    /\ IF r \in Teb THEN fresh' = fresh \cup {r} /\ idle' = idle
                    ELSE idle' = idle \cup {r} /\ fresh' = fresh
    /\ \A u \in Thread \ {t} : pending'[u] = pending[u]
    /\ UNCHANGED <<dll, used, teb, listed, void>>

LEMMA DeliverDelivers ==
    ASSUME TypeOK, NEW t \in Thread, Deliver(t)
    PROVE  \E r \in Resource : Delivers(t, r)
<1> DEFINE r == Head(pending[t])
<1>1. pending[t] # <<>> /\ pc[t] \in {"drain", "wipe"}
  BY DEF Deliver
<1>2. /\ r \in Resource
      /\ r \in ToSet(pending[t])
      /\ ToSet(pending[t]) = {r} \cup ToSet(Tail(pending[t]))
      /\ \A x : Once(pending[t], x) => Once(Tail(pending[t]), x)
      /\ Once(pending[t], r) => r \notin ToSet(Tail(pending[t]))
  BY <1>1, ListSteps
<1>3. /\ pending'[t] = Tail(pending[t])
      /\ \A u \in Thread \ {t} : pending'[u] = pending[u]
  BY DEF Deliver, TypeOK
<1>4. /\ IF r \in Teb THEN fresh' = fresh \cup {r} /\ idle' = idle
                      ELSE idle' = idle \cup {r} /\ fresh' = fresh
      /\ UNCHANGED <<dll, used, teb, listed, void, pc>>
  BY DEF Deliver
<1> HIDE DEF r
<1>5. Delivers(t, r)
  BY <1>1, <1>2, <1>3, <1>4 DEF Delivers, r
<1> QED
  BY <1>2, <1>5

\* The steps that touch no list and no resource.
Quiet(t) == Start(t) \/ EnterCode(t) \/ LeaveForeign(t) \/ FinishExit(t)

LEMMA QuietKeeps ==
    ASSUME TypeOK, NEW t \in Thread, Quiet(t)
    PROVE  /\ UNCHANGED <<idle, fresh, dll, used, listed, pending, void>>
           /\ \A u \in Thread \ {t} : pc'[u] = pc[u] /\ teb'[u] = teb[u]
           /\ \/ pc[t] = "off" /\ pc'[t] \in {"code", "run"} /\ teb'[t] = teb[t]
              \/ pc[t] = "code" /\ pc'[t] = "run" /\ teb'[t] = teb[t]
              \/ pc[t] = "run" /\ pc'[t] = "off" /\ teb'[t] = None /\ used[t] = <<>>
              \/ pc[t] = "drain" /\ pc'[t] = "off" /\ teb'[t] = None /\ pending[t] = <<>>
              \/ pc[t] = "wipe" /\ pc'[t] = "run" /\ teb'[t] = teb[t] /\ pending[t] = <<>>
BY DEF Quiet, Start, EnterCode, LeaveForeign, FinishExit, Goto, TlsEnds, TypeOK

\* Every step is one of these.
LEMMA StepEffects ==
    ASSUME IInv, [Next]_vars
    PROVE  \/ UNCHANGED vars
           \/ \E t \in Thread : \E e \in Held : Taken(t, e)
           \/ \E t \in Thread : PutBack(t, Top(t))
           \/ \E t \in Thread : SwallowException(t) \/ UnhandledException(t)
           \/ \E t \in Thread : Exits(t)
           \/ \E c, v \in Thread : Kills(c, v)
           \/ \E t \in Thread : Register(t)
           \/ \E t \in Thread : \E b \in Teb : Makes(t, b)
           \/ \E t \in Thread : \E b \in Teb : RegistersTeb(t, b)
           \/ \E t \in Thread : Cancels(t)
           \/ \E t \in Thread : \E r \in Resource : Delivers(t, r)
           \/ \E t \in Thread : Quiet(t)
<1>0. TypeOK /\ Shape /\ FreshUnused
  BY DEF IInv
<1>1. ASSUME NEW t \in Thread, Step(t)
      PROVE  \/ \E e \in Held : Taken(t, e)
             \/ PutBack(t, Top(t))
             \/ SwallowException(t) \/ UnhandledException(t)
             \/ Exits(t) \/ Register(t) \/ Cancels(t)
             \/ \E b \in Teb : Makes(t, b)
             \/ \E b \in Teb : RegistersTeb(t, b)
             \/ \E r \in Resource : Delivers(t, r)
             \/ Quiet(t)
  BY <1>0, <1>1, TakingTakes, PutPutsBack, BeginExitExits, UnlistCancels, DeliverDelivers,
     CreateTebMakes, RegisterTebEnters DEF Step, Taking, Quiet
<1>2. ASSUME NEW c \in Thread, NEW v \in Thread, c # v, TerminateOther(c, v)
      PROVE  Kills(c, v)
  BY <1>0, <1>2, TerminateOtherKills
<1> QED
  BY <1>1, <1>2 DEF Next

-----------------------------------------------------------------------------
(* Delivery, and the entries of the exit lists                             *)

\* The parts of the invariant that the lemmas below use, taken out of it.
LEMMA Parts ==
    ASSUME IInv
    PROVE  /\ TypeOK /\ Types /\ Shape /\ FreshUnused /\ ExclusiveSets /\ ListedByHolder
           /\ ListedOnce /\ UsedListed /\ DeliveryPhase /\ TebListed /\ TebUnlisted
           /\ PairListed /\ PairVoid /\ StackFirst /\ OneStackPerEngine /\ Recoverable
BY TypesAre, ExclusiveIs DEF IInv

LEMMA DeliveryPhaseNext ==
    ASSUME IInv, [Next]_vars
    PROVE  DeliveryPhase'
<1> USE Parts DEF DeliveryPhase
<1>1. ASSUME NEW t \in Thread, NEW e \in Held, Taken(t, e) PROVE DeliveryPhase'
  BY <1>1 DEF Taken
<1>2. ASSUME NEW t \in Thread, PutBack(t, Top(t)) PROVE DeliveryPhase'
  <2>1. pc'[t] \in {"unlist", "run"}
    BY <1>2 DEF PutBack
  <2> QED
    BY <1>2, <2>1 DEF PutBack
<1>3. ASSUME NEW t \in Thread, SwallowException(t) \/ UnhandledException(t)
      PROVE  DeliveryPhase'
  BY <1>3 DEF SwallowException, UnhandledException, Goto, TypeOK
<1>4. ASSUME NEW t \in Thread, Exits(t) PROVE DeliveryPhase'
  BY <1>4 DEF Exits
<1>5. ASSUME NEW c \in Thread, NEW v \in Thread, Kills(c, v) PROVE DeliveryPhase'
  BY <1>5 DEF Kills
<1>6. ASSUME NEW t \in Thread, Register(t) PROVE DeliveryPhase'
  <2>1. pc'[t] \in {"stack", "code"}
    BY <1>6, RegisterEnters
  <2> QED
    BY <1>6, <2>1, RegisterEnters DEF Enters
<1>12. ASSUME NEW t \in Thread, NEW b \in Teb, Makes(t, b) PROVE DeliveryPhase'
  BY <1>12 DEF Makes
<1>7. ASSUME NEW t \in Thread, NEW b \in Teb, RegistersTeb(t, b) PROVE DeliveryPhase'
  BY <1>7 DEF RegistersTeb, Enters
<1>8. ASSUME NEW t \in Thread, Cancels(t) PROVE DeliveryPhase'
  BY <1>8 DEF Cancels
<1>9. ASSUME NEW t \in Thread, NEW r \in Resource, Delivers(t, r) PROVE DeliveryPhase'
  BY <1>9 DEF Delivers
<1>10. ASSUME NEW t \in Thread, Quiet(t) PROVE DeliveryPhase'
  BY <1>10, QuietKeeps, ToSetEmpty
<1>11. ASSUME UNCHANGED vars PROVE DeliveryPhase'
  BY <1>11 DEF vars
<1> QED
  BY <1>1, <1>2, <1>3, <1>4, <1>5, <1>6, <1>7, <1>8, <1>9, <1>10, <1>11, <1>12,
     StepEffects

\* What a thread's exit gives back, by element.
Entries(t) == ToSet(listed[t]) \cup ToSet(pending[t])

ListedByHolderSets ==
    \A t \in Thread : \A r \in Intact \cap Entries(t) :
        /\ r \notin idle /\ r \notin fresh
        /\ \A u \in Thread \ {t} : r \notin ToSet(used[u]) /\ r \notin Entries(u)

LEMMA ListedByHolderIs == ListedByHolder <=> ListedByHolderSets
BY DEF ListedByHolder, ListedByHolderSets, Entries

LEMMA ListedByHolderIsNext == ListedByHolderSets' => ListedByHolder'
BY DEF ListedByHolder, ListedByHolderSets, Entries

\* A step that only shrinks what threads have and what is idle or free.
LEMMA ShrinkKeepsHolder ==
    ASSUME ListedByHolderSets, idle' \subseteq idle, fresh' \subseteq fresh,
           void \subseteq void',
           \A u \in Thread : ToSet(used'[u]) \subseteq ToSet(used[u]),
           \A u \in Thread : \A x \in Intact' : x \in Entries(u)' => x \in Entries(u)
    PROVE  ListedByHolderSets'
BY DEF ListedByHolderSets, Intact

LEMMA ListedByHolderNext ==
    ASSUME IInv, [Next]_vars
    PROVE  ListedByHolder'
<1> USE Parts
<1>0. ListedByHolderSets
  BY ListedByHolderIs
<1> SUFFICES ListedByHolderSets'
  BY ListedByHolderIsNext
<1>1. ASSUME NEW t \in Thread, NEW e \in Held, Taken(t, e) PROVE ListedByHolderSets'
  <2>1. /\ fresh' = fresh \ {e} /\ idle' = idle \ {e} /\ void' = void
        /\ \A u \in Thread \ {t} : used'[u] = used[u] /\ Entries(u)' = Entries(u)
        /\ e # Bochs => e \in idle \cup fresh
    BY <1>1 DEF Taken, Entries
  <2>2. ToSet(used'[t]) = {e} \cup ToSet(used[t])
    BY <1>1, TakenElements
  <2>3. Entries(t)' \subseteq Entries(t) \cup {e}
    <3>1. e \in Box => e \in Resource
      BY DEF Resource
    <3>2. ToSet(listed'[t]) \subseteq ToSet(listed[t]) \cup {e}
      BY <1>1, <3>1, ListSteps DEF Taken
    <3> QED
      BY <1>1, <3>2 DEF Taken, Entries
  <2>4. e \in Intact => \A u \in Thread : e \notin Entries(u) /\ e \notin ToSet(used[u])
    BY <1>0, <2>1, Kinds DEF ListedByHolderSets, ExclusiveSets, Intact
  <2> QED
    BY <1>0, <2>1, <2>2, <2>3, <2>4 DEF ListedByHolderSets, Intact
<1>2. ASSUME NEW t \in Thread, PutBack(t, Top(t)) PROVE ListedByHolderSets'
  <2>1. \A u \in Thread : ToSet(used'[u]) \subseteq ToSet(used[u])
    BY <1>2, DroppedElements DEF PutBack
  <2>2. Top(t) \in ToSet(used[t])
    BY <1>2, TopOf DEF PutBack
  <2>3. Top(t) \in Intact => \A u \in Thread : Top(t) \notin Entries(u)
    <3> SUFFICES ASSUME Top(t) \in Intact, NEW u \in Thread PROVE Top(t) \notin Entries(u)
      OBVIOUS
    <3>1. CASE u # t
      BY <1>0, <2>2, <3>1 DEF ListedByHolderSets
    <3>2. CASE u = t
      BY <1>2, <2>2, <3>2, NothingPending DEF PutBack, UsedListed, Entries
    <3> QED
      BY <3>1, <3>2
  <2> QED
    BY <1>0, <1>2, <2>1, <2>3 DEF PutBack, ListedByHolderSets, Intact, Entries
<1>3. ASSUME NEW t \in Thread, SwallowException(t) \/ UnhandledException(t)
      PROVE  ListedByHolderSets'
  <2>1. \A u \in Thread : ToSet(used'[u]) \subseteq ToSet(used[u])
    BY <1>3, DropsBelow, DroppedElements DEF Dropping
  <2>2. UNCHANGED <<idle, fresh, listed, pending, void>>
    BY <1>3 DEF SwallowException, UnhandledException
  <2> QED
    BY <1>0, <2>1, <2>2, ShrinkKeepsHolder DEF Entries
<1>4. ASSUME NEW t \in Thread, Exits(t) PROVE ListedByHolderSets'
  <2>1. \A u \in Thread : ToSet(used'[u]) \subseteq ToSet(used[u])
    BY <1>4, ToSetEmpty DEF Exits
  <2>2. \A u \in Thread : Entries(u)' \subseteq Entries(u)
    BY <1>4, ToSetEmpty DEF Exits, Entries
  <2> QED
    BY <1>0, <1>4, <2>1, <2>2, ShrinkKeepsHolder DEF Exits
<1>5. ASSUME NEW c \in Thread, NEW v \in Thread, Kills(c, v) PROVE ListedByHolderSets'
  <2>1. \A u \in Thread : ToSet(used'[u]) \subseteq ToSet(used[u])
    BY <1>5, ToSetEmpty DEF Kills
  <2>2. \A u \in Thread : Entries(u)' \subseteq Entries(u)
    <3>1. Entries(c)' = Entries(c)' /\ Entries(c)' \subseteq Entries(c)
      BY <1>5, ToSetEmpty DEF Kills, Entries
    <3>2. Entries(v)' \subseteq Entries(v)
      BY <1>5, ToSetEmpty DEF Kills, Entries
    <3> QED
      BY <1>5, <3>1, <3>2 DEF Kills, Entries
  <2> QED
    BY <1>0, <1>5, <2>1, <2>2, ShrinkKeepsHolder DEF Kills
<1>6. ASSUME NEW t \in Thread, Register(t) PROVE ListedByHolderSets'
  <2>1. /\ Enters(t, Top(t)) /\ fresh' = fresh
        /\ Top(t) \in ToSet(used[t])
    BY <1>6, RegisterEnters
  <2>2. /\ Entries(t)' = Entries(t) \cup {Top(t)}
        /\ \A u \in Thread \ {t} : Entries(u)' = Entries(u)
        /\ UNCHANGED <<idle, used, void>>
    BY <2>1 DEF Enters, Entries
  <2>3. Top(t) \in Intact =>
            /\ Top(t) \notin idle /\ Top(t) \notin fresh
            /\ \A u \in Thread \ {t} : Top(t) \notin ToSet(used[u]) /\ Top(t) \notin Entries(u)
    BY <1>0, <2>1 DEF ExclusiveSets, ListedByHolderSets
  <2> QED
    BY <1>0, <2>1, <2>2, <2>3 DEF ListedByHolderSets, Intact
<1>12. ASSUME NEW t \in Thread, NEW b \in Teb, Makes(t, b) PROVE ListedByHolderSets'
  <2>1. \A u \in Thread : Entries(u)' = Entries(u)
    BY <1>12 DEF Makes, Entries
  <2> QED
    BY <1>0, <1>12, <2>1, ShrinkKeepsHolder DEF Makes
<1>7. ASSUME NEW t \in Thread, NEW b \in Teb, RegistersTeb(t, b) PROVE ListedByHolderSets'
  <2>1. Enters(t, b) /\ fresh' = fresh
    BY <1>7 DEF RegistersTeb
  <2>2. /\ Entries(t)' = Entries(t) \cup {b}
        /\ \A u \in Thread \ {t} : Entries(u)' = Entries(u)
        /\ UNCHANGED <<idle, used, void>>
    BY <2>1 DEF Enters, Entries
  <2>3. b \notin idle /\ \A u \in Thread : b \notin ToSet(used[u])
    BY StepTypes, Kinds DEF Held, Types
  <2>4. b \in Intact => b \notin fresh /\ \A u \in Thread : b \notin Entries(u)
    BY <1>7 DEF RegistersTeb, Entries
  <2> QED
    BY <1>0, <2>1, <2>2, <2>3, <2>4 DEF ListedByHolderSets, Intact
<1>8. ASSUME NEW t \in Thread, Cancels(t) PROVE ListedByHolderSets'
  <2>1. \A u \in Thread : Entries(u)' \subseteq Entries(u)
    BY <1>8 DEF Cancels, Entries
  <2> QED
    BY <1>0, <1>8, <2>1, ShrinkKeepsHolder DEF Cancels
<1>9. ASSUME NEW t \in Thread, NEW r \in Resource, Delivers(t, r) PROVE ListedByHolderSets'
  <2>1. \A u \in Thread : Entries(u)' \subseteq Entries(u)
    BY <1>9 DEF Delivers, Entries
  <2>2. r \in Intact => /\ r \in Entries(t)
                        /\ r \notin Entries(t)'
                        /\ \A u \in Thread \ {t} : r \notin Entries(u)
    BY <1>0, <1>9 DEF Delivers, Entries, ListedOnce, ListedByHolderSets
  <2>3. /\ used' = used /\ void' = void
        /\ idle' \subseteq idle \cup {r}
        /\ fresh' \subseteq fresh \cup {r}
    BY <1>9 DEF Delivers
  <2> QED
    BY <1>0, <2>1, <2>2, <2>3 DEF ListedByHolderSets, Intact
<1>10. ASSUME NEW t \in Thread, Quiet(t) PROVE ListedByHolderSets'
  BY <1>0, <1>10, QuietKeeps DEF ListedByHolderSets, Intact, Entries
<1>11. ASSUME UNCHANGED vars PROVE ListedByHolderSets'
  BY <1>0, <1>11 DEF vars, ListedByHolderSets, Intact, Entries
<1> QED
  BY <1>1, <1>2, <1>3, <1>4, <1>5, <1>6, <1>7, <1>8, <1>9, <1>10, <1>11, <1>12,
     StepEffects

\* A resource is entered when it has no entry, and moves from the list to its delivery.
LEMMA ListedOnceNext ==
    ASSUME IInv, [Next]_vars
    PROVE  ListedOnce'
<1> USE Parts DEF ListedOnce, Intact
<1>0. ListedByHolderSets
  BY ListedByHolderIs
<1>1. ASSUME NEW t \in Thread, NEW e \in Held, Taken(t, e) PROVE ListedOnce'
  <2>1. CASE listed' = listed
    BY <1>1, <2>1 DEF Taken
  <2>2. CASE e \in Box /\ listed'[t] = Cons(e, listed[t])
    <3>1. e \in Resource /\ e # Bochs
      BY <2>2, Kinds
    <3>2. e \in Intact => e \notin ToSet(listed[t]) /\ e \notin ToSet(pending[t])
      BY <1>0, <1>1, <3>1 DEF Taken, ListedByHolderSets, Entries
    <3>3. \A x \in Intact : Once(listed'[t], x) /\ (x \in ToSet(listed'[t]) => x = e \/ x \in ToSet(listed[t]))
      <4>1. /\ ToSet(Cons(e, listed[t])) = {e} \cup ToSet(listed[t])
            /\ \A x : Once(listed[t], x) /\ (x = e => x \notin ToSet(listed[t]))
                          => Once(Cons(e, listed[t]), x)
        BY <3>1, ListSteps
      <4> QED
        BY <2>2, <3>2, <4>1
    <3> QED
      BY <1>1, <3>2, <3>3 DEF Taken
  <2>3. CASE listed'[t] = listed[t]
    BY <1>1, <2>3 DEF Taken
  <2> QED
    BY <1>1, <2>1, <2>2, <2>3 DEF Taken
<1>2. ASSUME UNCHANGED <<listed, pending>>, void \subseteq void' PROVE ListedOnce'
  BY <1>2
<1>4. ASSUME NEW t \in Thread, Exits(t) PROVE ListedOnce'
  BY <1>4, ToSetEmpty DEF Exits
<1>5. ASSUME NEW c \in Thread, NEW v \in Thread, Kills(c, v) PROVE ListedOnce'
  <2>1. \A u \in Thread : \/ listed'[u] = <<>>
                          \/ listed'[u] = listed[u]
    BY <1>5 DEF Kills
  <2>2. \A u \in Thread \ {c} : pending'[u] = <<>> \/ pending'[u] = pending[u]
    BY <1>5 DEF Kills
  <2> QED
    BY <1>5, <2>1, <2>2, ToSetEmpty DEF Kills
<1>6. ASSUME NEW t \in Thread, Register(t) PROVE ListedOnce'
  <2>1. /\ Enters(t, Top(t)) /\ Top(t) \in ToSet(used[t])
        /\ pc[t] = "list"
    BY <1>6, RegisterEnters
  <2>2. Top(t) \in Intact => Top(t) \notin ToSet(listed[t]) /\ Top(t) \notin ToSet(pending[t])
    BY <2>1, NothingPending DEF UsedListed
  <2> QED
    BY <2>1, <2>2 DEF Enters
<1>12. ASSUME NEW t \in Thread, NEW b \in Teb, Makes(t, b) PROVE ListedOnce'
  BY <1>12 DEF Makes
<1>7. ASSUME NEW t \in Thread, NEW b \in Teb, RegistersTeb(t, b) PROVE ListedOnce'
  <2>1. Enters(t, b)
    BY <1>7 DEF RegistersTeb
  <2>2. b \in Intact => b \notin ToSet(listed[t]) /\ b \notin ToSet(pending[t])
    BY <1>7 DEF RegistersTeb
  <2> QED
    BY <2>1, <2>2 DEF Enters
<1>8. ASSUME NEW t \in Thread, Cancels(t) PROVE ListedOnce'
  BY <1>8 DEF Cancels
<1>9. ASSUME NEW t \in Thread, NEW r \in Resource, Delivers(t, r) PROVE ListedOnce'
  BY <1>9 DEF Delivers
<1>10. ASSUME NEW t \in Thread,
              PutBack(t, Top(t)) \/ SwallowException(t) \/ UnhandledException(t) \/ Quiet(t)
       PROVE  UNCHANGED <<listed, pending, void>>
  BY <1>10, QuietKeeps DEF PutBack, SwallowException, UnhandledException
<1>11. ASSUME UNCHANGED vars PROVE ListedOnce'
  BY <1>11 DEF vars
<1> QED
  BY <1>1, <1>2, <1>4, <1>5, <1>6, <1>7, <1>8, <1>9, <1>10, <1>11, <1>12,
     StepEffects

\* Between taking and registering, and between cancelling and putting back, exactly
\* the last thing taken has no entry.
LEMMA UsedListedNext ==
    ASSUME IInv, [Next]_vars
    PROVE  UsedListed'
<1> USE Parts DEF UsedListed, Intact
<1>0. ListedByHolderSets
  BY ListedByHolderIs
<1>1. ASSUME NEW t \in Thread, NEW e \in Held, Taken(t, e) PROVE UsedListed'
  <2>1. /\ ToSet(used'[t]) = {e} \cup ToSet(used[t])
        /\ Top(t)' = e
    BY <1>1, TakenElements
  <2>2. e \in Intact => /\ e \notin ToSet(used[t])
                        /\ e \notin ToSet(listed[t])
    BY <1>0, <1>1, Kinds DEF Taken, ListedByHolderSets, ExclusiveSets, Entries
  <2>3. e \in Box => e \in Resource
    BY DEF Resource
  <2>4. pc[t] \notin {"list", "put"} /\ void' = void
    BY <1>1 DEF Taken
  <2>5. \A r \in Intact \cap ToSet(used'[t]) :
            IF pc'[t] \in {"list", "put"} /\ r = Top(t)' THEN r \notin ToSet(listed'[t])
                                                    ELSE r \in ToSet(listed'[t])
    <3> SUFFICES ASSUME NEW r \in Intact \cap ToSet(used'[t])
                 PROVE  IF pc'[t] \in {"list", "put"} /\ r = e
                        THEN r \notin ToSet(listed'[t]) ELSE r \in ToSet(listed'[t])
      BY <2>1
    <3>1. CASE r = e
      <4>1. r # Bochs
        BY Kinds
      <4>2. CASE e \in Box /\ pc'[t] = "stack" /\ listed'[t] = Cons(e, listed[t])
        BY <2>3, <3>1, <4>2, ListSteps
      <4>3. CASE pc'[t] = "list" /\ listed'[t] = listed[t]
        BY <2>2, <3>1, <4>3
      <4> QED
        BY <1>1, <3>1, <4>1, <4>2, <4>3 DEF Taken
    <3>2. CASE r # e
      <4>1. r \in ToSet(listed[t])
        BY <2>1, <2>4, <3>2
      <4>2. ToSet(listed[t]) \subseteq ToSet(listed'[t])
        BY <1>1, TakenEntries
      <4> QED
        BY <3>2, <4>1, <4>2
    <3> QED
      BY <3>1, <3>2
  <2>6. \A u \in Thread \ {t} : /\ used'[u] = used[u] /\ listed'[u] = listed[u]
                                /\ pc'[u] = pc[u] /\ Top(u)' = Top(u)
    BY <1>1 DEF Taken, Top
  <2> QED
    BY <2>4, <2>5, <2>6
<1>2. ASSUME NEW t \in Thread, PutBack(t, Top(t)) PROVE UsedListed'
  <2>1. ToSet(used'[t]) \subseteq ToSet(used[t])
    BY <1>2, DroppedElements DEF PutBack
  <2>2. Top(t) \in Intact => Top(t) \notin ToSet(used'[t])
    BY <1>2, PutBackGone
  <2>3. pc[t] = "put" /\ pc'[t] \in {"unlist", "run"} /\ UNCHANGED <<listed, void>>
    BY <1>2 DEF PutBack
  <2>4. \A r \in Intact \cap ToSet(used'[t]) : r \in ToSet(listed[t])
    BY <2>1, <2>2, <2>3
  <2>5. \A u \in Thread \ {t} : used'[u] = used[u] /\ pc'[u] = pc[u] /\ Top(u)' = Top(u)
    BY <1>2 DEF PutBack, Top
  <2> QED
    BY <2>3, <2>4, <2>5
<1>3. ASSUME NEW t \in Thread, SwallowException(t) \/ UnhandledException(t)
      PROVE  UsedListed'
  <2>1. \A u \in Thread : ToSet(used'[u]) \subseteq ToSet(used[u])
    BY <1>3, DropsBelow, DroppedElements DEF Dropping
  <2>2. /\ UNCHANGED <<listed, void>>
        /\ pc[t] = "run" /\ pc'[t] \in {"run", "off"}
        /\ \A u \in Thread \ {t} : pc'[u] = pc[u] /\ Top(u)' = Top(u) /\ used'[u] = used[u]
    BY <1>3 DEF SwallowException, UnhandledException, Goto, TypeOK, Top
  <2>3. \A r \in Intact \cap ToSet(used'[t]) : r \in ToSet(listed[t])
    BY <2>1, <2>2
  <2> QED
    BY <2>2, <2>3
<1>4. ASSUME NEW t \in Thread, Exits(t) PROVE UsedListed'
  BY <1>4, ToSetEmpty DEF Exits, Top
<1>5. ASSUME NEW c \in Thread, NEW v \in Thread, Kills(c, v) PROVE UsedListed'
  <2>1. \A r \in ToSet(used'[c]) : r \in Resource \ void' => FALSE
    <3> SUFFICES ASSUME NEW r \in ToSet(used[c]), r \in Resource \ void' PROVE FALSE
      BY <1>5 DEF Kills
    <3>1. pc[c] = "run" /\ r \in Intact
      BY <1>5 DEF Kills
    <3>2. r \in ToSet(listed[c])
      BY <3>1
    <3> QED
      BY <1>5, <3>2 DEF Kills
  <2>2. ToSet(used'[v]) = {}
    BY <1>5, ToSetEmpty DEF Kills
  <2>3. \A u \in Thread \ {c, v} : /\ used'[u] = used[u] /\ listed'[u] = listed[u]
                                   /\ pc'[u] = pc[u] /\ Top(u)' = Top(u)
    BY <1>5 DEF Kills, Top
  <2>4. void \subseteq void'
    BY <1>5 DEF Kills
  <2> QED
    BY <2>1, <2>2, <2>3, <2>4
<1>6. ASSUME NEW t \in Thread, Register(t) PROVE UsedListed'
  <2>1. /\ Enters(t, Top(t))
        /\ pc[t] = "list" /\ pc'[t] \in {"stack", "code"}
    BY <1>6, RegisterEnters
  <2>2. \A r \in Intact \cap ToSet(used[t]) : r \in ToSet(listed'[t])
    BY <2>1 DEF Enters
  <2>3. \A u \in Thread : Top(u)' = Top(u)
    BY <2>1 DEF Enters, Top
  <2> QED
    BY <2>1, <2>2, <2>3 DEF Enters
<1>12. ASSUME NEW t \in Thread, NEW b \in Teb, Makes(t, b) PROVE UsedListed'
  <2>1. \A u \in Thread : Top(u)' = Top(u)
    BY <1>12 DEF Makes, Top
  <2> QED
    BY <1>12, <2>1 DEF Makes
<1>7. ASSUME NEW t \in Thread, NEW b \in Teb, RegistersTeb(t, b) PROVE UsedListed'
  <2>1. Enters(t, b) /\ pc[t] = "teb" /\ pc'[t] \in {"code", "cpu"}
    BY <1>7 DEF RegistersTeb
  <2>2. \A u \in Thread : Top(u)' = Top(u)
    BY <2>1 DEF Enters, Top
  <2> QED
    BY <2>1, <2>2 DEF Enters
<1>8. ASSUME NEW t \in Thread, Cancels(t) PROVE UsedListed'
  <2>1. /\ pc[t] \in {"run", "unlist"} /\ pc'[t] = "put"
        /\ ToSet(listed[t]) \ {Top(t)} \subseteq ToSet(listed'[t])
        /\ UNCHANGED <<used, void>>
    BY <1>8 DEF Cancels
  <2>2. \A u \in Thread : Top(u)' = Top(u)
    BY <2>1 DEF Top
  <2>3. Top(t) \in Intact => Top(t) \notin ToSet(listed'[t])
    BY <1>8 DEF Cancels, ListedOnce
  <2>4. \A r \in Intact \cap ToSet(used[t]) :
            IF r = Top(t) THEN r \notin ToSet(listed'[t]) ELSE r \in ToSet(listed'[t])
    BY <2>1, <2>3
  <2>5. \A u \in Thread \ {t} : listed'[u] = listed[u] /\ pc'[u] = pc[u]
    BY <1>8 DEF Cancels
  <2> QED
    BY <2>1, <2>2, <2>4, <2>5
<1>9. ASSUME NEW t \in Thread, NEW r \in Resource, Delivers(t, r) PROVE UsedListed'
  BY <1>9 DEF Delivers, Top
<1>10. ASSUME NEW t \in Thread, Quiet(t) PROVE UsedListed'
  <2>1. UNCHANGED <<used, listed, void>> /\ \A u \in Thread : Top(u)' = Top(u)
    BY <1>10, QuietKeeps DEF Top
  <2>2. \A u \in Thread : pc'[u] = pc[u] \/ (pc[u] \notin {"list", "put"} /\ pc'[u] \notin {"list", "put"})
    BY <1>10, QuietKeeps
  <2> QED
    BY <2>1, <2>2
<1>11. ASSUME UNCHANGED vars PROVE UsedListed'
  BY <1>11 DEF vars, Top
<1> QED
  BY <1>1, <1>2, <1>3, <1>4, <1>5, <1>6, <1>7, <1>8, <1>9, <1>10, <1>11, <1>12,
     StepEffects

\* A TEB stays on the list of its thread as long as the thread can run emulated code.
LEMMA TebListedNext ==
    ASSUME IInv, [Next]_vars
    PROVE  TebListed'
<1> USE Parts DEF TebListed, Intact, Alive
<1>1. ASSUME NEW t \in Thread, NEW e \in Held, Taken(t, e) PROVE TebListed'
  <2>1. ToSet(listed[t]) \subseteq ToSet(listed'[t])
    <3>1. e \in Box => e \in Resource
      BY DEF Resource
    <3> QED
      BY <1>1, <3>1, ListSteps DEF Taken
  <2> QED
    BY <1>1, <2>1 DEF Taken
<1>2. ASSUME NEW t \in Thread, PutBack(t, Top(t)) PROVE TebListed'
  <2>1. pc[t] = "put" /\ pc'[t] \in {"unlist", "run"}
    BY <1>2 DEF PutBack
  <2> QED
    BY <1>2, <2>1 DEF PutBack
<1>3. ASSUME NEW t \in Thread, SwallowException(t) \/ UnhandledException(t)
      PROVE  TebListed'
  BY <1>3 DEF SwallowException, UnhandledException, Goto, TlsEnds, TypeOK
<1>4. ASSUME NEW t \in Thread, Exits(t) PROVE TebListed'
  BY <1>4 DEF Exits
<1>5. ASSUME NEW c \in Thread, NEW v \in Thread, Kills(c, v) PROVE TebListed'
  <2>1. teb'[c] = teb[c] /\ (teb[c] \in Resource \ void' => FALSE)
    <3> SUFFICES ASSUME teb[c] \in Resource \ void' PROVE FALSE
      BY <1>5 DEF Kills
    <3>1. pc[c] = "run" /\ teb[c] \in Intact
      BY <1>5 DEF Kills
    <3>2. teb[c] \in ToSet(listed[c])
      BY <3>1
    <3> QED
      BY <1>5, <3>2 DEF Kills
  <2> QED
    BY <1>5, <2>1 DEF Kills
<1>6. ASSUME NEW t \in Thread, Register(t) PROVE TebListed'
  <2>1. /\ Enters(t, Top(t)) /\ pc[t] = "list" /\ pc'[t] \in {"stack", "code"}
        /\ teb' = teb
    BY <1>6, RegisterEnters
  <2> QED
    BY <2>1 DEF Enters
<1>12. ASSUME NEW t \in Thread, NEW b \in Teb, Makes(t, b) PROVE TebListed'
  <2>1. b # None
    BY Kinds
  <2> QED
    BY <1>12, <2>1 DEF Makes
<1>7. ASSUME NEW t \in Thread, NEW b \in Teb, RegistersTeb(t, b) PROVE TebListed'
  BY <1>7 DEF RegistersTeb, Enters
<1>8. ASSUME NEW t \in Thread, Cancels(t) PROVE TebListed'
  <2>1. Top(t) \in Box \cup Cpu \cup Stack /\ pc[t] \in {"run", "unlist"}
    BY <1>8 DEF Cancels
  <2>2. teb[t] # Top(t)
    BY <2>1, Kinds DEF Types
  <2> QED
    BY <1>8, <2>1, <2>2 DEF Cancels
<1>9. ASSUME NEW t \in Thread, NEW r \in Resource, Delivers(t, r) PROVE TebListed'
  BY <1>9 DEF Delivers
<1>10. ASSUME NEW t \in Thread, Quiet(t) PROVE TebListed'
  <2>1. None \notin Resource
    BY Kinds
  <2> QED
    BY <1>10, <2>1, QuietKeeps
<1>11. ASSUME UNCHANGED vars PROVE TebListed'
  BY <1>11 DEF vars
<1> QED
  BY <1>1, <1>2, <1>3, <1>4, <1>5, <1>6, <1>7, <1>8, <1>9, <1>10, <1>11, <1>12,
     StepEffects

\* Where one thread registers its TEB, no step of another one enters, frees or takes it.
LEMMA TebUnlistedNext ==
    ASSUME IInv, [Next]_vars
    PROVE  TebUnlisted'
<1> USE Parts
<1>0. \A x, u \in Thread : pc[x] = "teb" /\ teb[x] \in Resource /\ teb[x] \notin void =>
          /\ teb[x] \notin fresh /\ teb[x] \notin Entries(u)
          /\ u # x /\ pc[u] \notin {"off", "drain"} => teb[u] # teb[x]
  BY DEF TebUnlisted, Intact, Alive, Entries
<1> SUFFICES \A x, u \in Thread :
                 pc'[x] = "teb" /\ teb'[x] \in Resource /\ teb'[x] \notin void' =>
                     /\ teb'[x] \notin fresh' /\ teb'[x] \notin Entries(u)'
                     /\ u # x /\ pc'[u] \notin {"off", "drain"} => teb'[u] # teb'[x]
  BY DEF TebUnlisted, Intact, Alive, Entries
<1> DEFINE Good == \A x, u \in Thread :
                 pc'[x] = "teb" /\ teb'[x] \in Resource /\ teb'[x] \notin void' =>
                     /\ teb'[x] \notin fresh' /\ teb'[x] \notin Entries(u)'
                     /\ u # x /\ pc'[u] \notin {"off", "drain"} => teb'[u] # teb'[x]
<1>k. \A x \in Thread : teb[x] \notin Box \cup Cpu \cup Stack
  BY Kinds DEF Types
<1>s. ASSUME \A u \in Thread : Entries(u)' \subseteq Entries(u), fresh' \subseteq fresh,
             void \subseteq void',
             \A u \in Thread : pc'[u] = "teb" => pc[u] = "teb" /\ teb'[u] = teb[u],
             \A u \in Thread : pc'[u] \notin {"off", "drain"} =>
                                  pc[u] \notin {"off", "drain"} /\ teb'[u] = teb[u]
      PROVE  Good
  BY <1>0, <1>s
<1> HIDE DEF Good
<1>1. ASSUME NEW t \in Thread, NEW e \in Held, Taken(t, e) PROVE Good
  <2>1. \A u \in Thread : \A x \in Entries(u)' : x \in Entries(u) \/ x \in Box
    BY <1>1, TakenEntries DEF Entries, Taken
  <2>2. /\ fresh' \subseteq fresh /\ void' = void /\ teb' = teb
        /\ \A u \in Thread \ {t} : pc'[u] = pc[u]
        /\ pc'[t] # "teb" /\ pc[t] \notin {"off", "drain"}
    BY <1>1 DEF Taken
  <2> QED
    BY <1>0, <1>k, <2>1, <2>2 DEF Good
<1>2. ASSUME NEW t \in Thread, PutBack(t, Top(t)) PROVE Good
  <2>1. /\ UNCHANGED <<fresh, teb, listed, pending, void>>
        /\ pc[t] = "put" /\ pc'[t] \in {"unlist", "run"}
        /\ \A u \in Thread \ {t} : pc'[u] = pc[u]
    BY <1>2 DEF PutBack
  <2> QED
    BY <1>s, <2>1 DEF Entries
<1>3. ASSUME NEW t \in Thread, SwallowException(t) \/ UnhandledException(t)
      PROVE  Good
  <2>1. /\ UNCHANGED <<fresh, listed, pending, void>>
        /\ pc[t] = "run" /\ \/ pc'[t] = "run" /\ teb'[t] = teb[t]
                            \/ pc'[t] = "off"
        /\ \A u \in Thread \ {t} : pc'[u] = pc[u] /\ teb'[u] = teb[u]
    BY <1>3 DEF SwallowException, UnhandledException, Goto, TlsEnds, TypeOK
  <2> QED
    BY <1>s, <2>1 DEF Entries
<1>4. ASSUME NEW t \in Thread, Exits(t) PROVE Good
  <2>1. \A u \in Thread : Entries(u)' \subseteq Entries(u)
    BY <1>4, ToSetEmpty DEF Exits, Entries
  <2> QED
    BY <1>4, <1>s, <2>1 DEF Exits
<1>5. ASSUME NEW c \in Thread, NEW v \in Thread, Kills(c, v) PROVE Good
  <2>1. \A u \in Thread : Entries(u)' \subseteq Entries(u)
    <3>1. Entries(c)' \subseteq Entries(c)
      BY <1>5, ToSetEmpty DEF Kills, Entries
    <3>2. Entries(v)' \subseteq Entries(v)
      BY <1>5, ToSetEmpty DEF Kills, Entries
    <3> QED
      BY <1>5, <3>1, <3>2 DEF Kills, Entries
  <2>2. /\ fresh' = fresh /\ void \subseteq void' /\ c # v
        /\ pc[c] = "run" /\ pc'[c] = "wipe" /\ pc'[v] = "off"
        /\ \A u \in Thread \ {v} : teb'[u] = teb[u]
        /\ \A u \in Thread \ {c, v} : pc'[u] = pc[u]
    BY <1>5 DEF Kills
  <2> QED
    BY <1>s, <2>1, <2>2
<1>6. ASSUME NEW t \in Thread, Register(t) PROVE Good
  <2>1. /\ Enters(t, Top(t)) /\ fresh' = fresh /\ teb' = teb
        /\ pc[t] = "list" /\ pc'[t] \in {"stack", "code"} /\ Top(t) \in Cpu \cup Stack
    BY <1>6, RegisterEnters
  <2>2. \A u \in Thread : \A x \in Entries(u)' : x \in Entries(u) \/ x \in Cpu \cup Stack
    BY <2>1 DEF Enters, Entries
  <2>3. void' = void /\ \A u \in Thread \ {t} : pc'[u] = pc[u]
    BY <2>1 DEF Enters
  <2> QED
    BY <1>0, <1>k, <2>1, <2>2, <2>3 DEF Good
<1>7. ASSUME NEW t \in Thread, NEW b \in Teb, Makes(t, b) PROVE Good
  <2>1. /\ b \in fresh /\ fresh' = fresh \ {b} /\ UNCHANGED <<listed, pending, void>>
        /\ pc[t] \in {"code", "cpu"} /\ pc'[t] = "teb" /\ teb'[t] = b
        /\ \A u \in Thread \ {t} : pc'[u] = pc[u] /\ teb'[u] = teb[u]
    BY <1>7 DEF Makes
  <2>2. \A u \in Thread : Entries(u)' = Entries(u)
    BY <2>1 DEF Entries
  <2>3. b \in Resource /\ b \notin void => \A u \in Thread : b \notin Entries(u)
    BY <2>1, ListedByHolderIs DEF ListedByHolderSets, Intact
  <2>4. \A u \in Thread : pc[u] \notin {"off", "drain"} /\ teb[u] \in Resource
                            /\ teb[u] \notin void => teb[u] \notin fresh
    <3>1. \A u \in Thread : pc[u] \notin {"off", "drain", "teb"} /\ teb[u] \in Resource
                              /\ teb[u] \notin void => teb[u] \in Entries(u)
      BY DEF TebListed, Alive, Intact, Entries
    <3> QED
      BY <1>0, <3>1, ListedByHolderIs DEF ListedByHolderSets, Intact
  <2> QED
    BY <1>0, <2>1, <2>2, <2>3, <2>4 DEF Good
<1>8. ASSUME NEW t \in Thread, NEW b \in Teb, RegistersTeb(t, b) PROVE Good
  <2>1. /\ Enters(t, b) /\ fresh' = fresh /\ teb' = teb /\ teb[t] = b
        /\ pc[t] = "teb" /\ pc'[t] \in {"code", "cpu"}
    BY <1>8 DEF RegistersTeb
  <2>2. \A u \in Thread : \A x \in Entries(u)' : x \in Entries(u) \/ x = b
    BY <2>1 DEF Enters, Entries
  <2>3. void' = void /\ \A u \in Thread \ {t} : pc'[u] = pc[u]
    BY <2>1 DEF Enters
  <2> QED
    BY <1>0, <2>1, <2>2, <2>3 DEF Good
<1>9. ASSUME NEW t \in Thread, Cancels(t) PROVE Good
  <2>1. \A u \in Thread : Entries(u)' \subseteq Entries(u)
    BY <1>9 DEF Cancels, Entries
  <2> QED
    BY <1>9, <1>s, <2>1 DEF Cancels
<1>10. ASSUME NEW t \in Thread, NEW r \in Resource, Delivers(t, r) PROVE Good
  <2>1. \A u \in Thread : Entries(u)' \subseteq Entries(u)
    BY <1>10 DEF Delivers, Entries
  <2>2. /\ r \in Entries(t) /\ fresh' \subseteq fresh \cup {r}
        /\ pc' = pc /\ teb' = teb /\ void' = void
    BY <1>10 DEF Delivers, Entries
  <2> QED
    BY <1>0, <2>1, <2>2 DEF Good
<1>11. ASSUME NEW t \in Thread, Quiet(t) PROVE Good
  <2>1. /\ UNCHANGED <<fresh, listed, pending, void>>
        /\ \A u \in Thread \ {t} : pc'[u] = pc[u] /\ teb'[u] = teb[u]
        /\ \/ pc[t] = "off" /\ pc'[t] # "teb" /\ teb'[t] = teb[t]
           \/ pc'[t] = "off"
           \/ pc[t] \in {"code", "wipe"} /\ pc'[t] = "run" /\ teb'[t] = teb[t]
    BY <1>11, QuietKeeps
  <2>2. pc[t] = "off" => teb[t] \notin Resource
    BY Kinds DEF TebListed
  <2>3. \A u \in Thread : Entries(u)' = Entries(u)
    BY <2>1 DEF Entries
  <2> QED
    BY <1>0, <2>1, <2>2, <2>3 DEF Good
<1>12. ASSUME UNCHANGED vars PROVE Good
  BY <1>s, <1>12 DEF vars, Entries
<1>13. Good
  BY <1>1, <1>2, <1>3, <1>4, <1>5, <1>6, <1>7, <1>8, <1>9, <1>10, <1>11, <1>12,
     StepEffects
<1> QED
  BY <1>13 DEF Good

-----------------------------------------------------------------------------
(* Order on a list                                                         *)

\* Entering another element keeps the order; x entered now is before everything else.
LEMMA BeforeCons ==
    ASSUME NEW S, NEW s \in Seq(S), NEW e \in S, NEW i, e # i
    PROVE  /\ Before(Cons(e, s), e, i)
           /\ \A x : Before(s, x, i) => Before(Cons(e, s), x, i)
<1> DEFINE r == Cons(e, s)
<1>1. /\ r \in Seq(S)
      /\ Len(r) = Len(s) + 1
      /\ r[1] = e
      /\ \A k \in 2 .. Len(s) + 1 : r[k] = s[k - 1]
  <2>1. /\ <<e>> \in Seq(S)
        /\ Len(<<e>>) = 1
        /\ <<e>>[1] = e
    OBVIOUS
  <2> QED
    BY <2>1, ConcatProperties, LenProperties DEF Cons
<1>2. Len(s) \in Nat /\ DOMAIN s = 1 .. Len(s) /\ DOMAIN r = 1 .. Len(s) + 1
  BY <1>1, LenProperties
<1> HIDE DEF r
<1>3. \A l \in DOMAIN r : r[l] = i => l - 1 \in DOMAIN s /\ s[l - 1] = i /\ l > 1
  BY <1>1, <1>2
<1>4. Before(r, e, i)
  <2>1. 1 \in DOMAIN r /\ r[1] = e
    BY <1>1, <1>2
  <2> QED
    BY <1>3, <2>1 DEF Before
<1>5. ASSUME NEW x, Before(s, x, i)
      PROVE  Before(r, x, i)
  <2>1. PICK k \in DOMAIN s : s[k] = x /\ \A l \in DOMAIN s : s[l] = i => k < l
    BY <1>5 DEF Before
  <2>2. k + 1 \in DOMAIN r /\ r[k + 1] = x
    BY <1>1, <1>2, <2>1
  <2>3. \A l \in DOMAIN r : r[l] = i => k + 1 < l
    <3> SUFFICES ASSUME NEW l \in DOMAIN r, r[l] = i PROVE k + 1 < l
      OBVIOUS
    <3>1. k < l - 1
      BY <1>3, <2>1
    <3> QED
      BY <1>2, <3>1
  <2> QED
    BY <2>2, <2>3 DEF Before
<1> QED
  BY <1>4, <1>5 DEF r

\* Delivering the head keeps the order; the head is before nothing that is before it.
LEMMA BeforeTail ==
    ASSUME NEW S, NEW s \in Seq(S), s # <<>>, NEW x, NEW i, Before(s, x, i)
    PROVE  /\ Head(s) # i
           /\ Head(s) # x => Before(Tail(s), x, i)
<1> DEFINE r == Tail(s)
<1>1. /\ r \in Seq(S)
      /\ Len(r) = Len(s) - 1
      /\ \A k \in 1 .. Len(s) - 1 : r[k] = s[k + 1]
  BY HeadTailProperties
<1>2. /\ Len(s) \in Nat \ {0}
      /\ DOMAIN s = 1 .. Len(s)
      /\ DOMAIN r = 1 .. Len(s) - 1
      /\ Head(s) = s[1]
  BY <1>1, LenProperties, EmptySeq
<1> HIDE DEF r
<1>3. PICK k \in DOMAIN s : s[k] = x /\ \A l \in DOMAIN s : s[l] = i => k < l
  BY DEF Before
<1>4. s[1] # i
  BY <1>2, <1>3
<1>5. ASSUME s[1] # x
      PROVE  Before(r, x, i)
  <2>1. k - 1 \in DOMAIN r /\ r[k - 1] = x
    BY <1>1, <1>2, <1>3, <1>5
  <2>2. \A l \in DOMAIN r : r[l] = i => k - 1 < l
    <3> SUFFICES ASSUME NEW l \in DOMAIN r, r[l] = i PROVE k - 1 < l
      OBVIOUS
    <3>1. l + 1 \in DOMAIN s /\ s[l + 1] = i
      BY <1>1, <1>2
    <3>2. k < l + 1
      BY <1>3, <3>1
    <3> QED
      BY <1>2, <3>2
  <2> QED
    BY <2>1, <2>2 DEF Before
<1> QED
  BY <1>2, <1>4, <1>5 DEF r

\* Cancelling another entry keeps the order.
LEMMA BeforeRemove ==
    ASSUME NEW S, NEW s \in Seq(S), NEW e, NEW x, NEW i, e # x, e # i, Before(s, x, i)
    PROVE  Before(RemoveFirst(s, e), x, i)
<1> DEFINE r == RemoveFirst(s, e)
<1>1. CASE e \notin ToSet(s)
  <2>1. r = s
    BY <1>1, ToSetDef DEF RemoveFirst
  <2> QED
    BY <2>1
<1>2. CASE e \in ToSet(s)
  <2>1. PICK j \in 1 .. Len(s) : s[j] = e /\ r = RemoveAt(s, j)
    BY <1>2, RemoveFirstIndex
  <2>2. /\ r \in Seq(S)
        /\ Len(r) = Len(s) - 1
        /\ \A k \in 1 .. Len(s) - 1 : r[k] = IF k < j THEN s[k] ELSE s[k + 1]
    BY <2>1, RemoveAtIndex
  <2>3. /\ Len(s) \in Nat
        /\ DOMAIN s = 1 .. Len(s)
        /\ DOMAIN r = 1 .. Len(s) - 1
    BY <2>2, LenProperties
  <2> HIDE DEF r
  <2>4. PICK k \in 1 .. Len(s) : s[k] = x /\ \A l \in 1 .. Len(s) : s[l] = i => k < l
    BY <2>3 DEF Before
  <2>5. k < j \/ k > j
    BY <2>1, <2>3, <2>4
  <2>6. \A l \in 1 .. Len(s) - 1 : r[l] = i =>
            \/ l < j /\ k < l
            \/ l >= j /\ k < l + 1
    BY <2>1, <2>2, <2>3, <2>4
  <2>7. CASE k < j
    <3>1. k \in DOMAIN r /\ r[k] = x
      BY <2>1, <2>2, <2>3, <2>4, <2>7
    <3>2. \A l \in DOMAIN r : r[l] = i => k < l
      BY <2>1, <2>3, <2>6, <2>7
    <3> QED
      BY <3>1, <3>2 DEF Before, r
  <2>8. CASE k > j
    <3>1. k - 1 \in DOMAIN r /\ r[k - 1] = x
      BY <2>1, <2>2, <2>3, <2>4, <2>8
    <3>2. \A l \in DOMAIN r : r[l] = i => k - 1 < l
      BY <2>1, <2>3, <2>6, <2>8
    <3> QED
      BY <3>1, <3>2 DEF Before, r
  <2> QED
    BY <2>5, <2>7, <2>8
<1> QED
  BY <1>1, <1>2

-----------------------------------------------------------------------------
(* Engines and their stacks                                                *)

\* What a stack's dll is.
LEMMA DllBox ==
    ASSUME TypeOK, NEW s \in Stack
    PROVE  /\ dll[s] \in Intact => dll[s] \in Box
           /\ dll[s] \in Resource => dll[s] \in Box
BY Kinds DEF TypeOK, Intact

\* The engine under the stack that was taken last.
LEMMA UnderStack ==
    ASSUME TypeOK, Shape, NEW t \in Thread, used[t] # <<>>, Top(t) \in Stack
    PROVE  /\ dll[Top(t)] \in Box => /\ dll[Top(t)] \in ToSet(used[t])
                                     /\ dll[Top(t)] = used[t][Len(used[t]) - 1]
           /\ used[t][Len(used[t]) - 1] \in Box => dll[Top(t)] = used[t][Len(used[t]) - 1]
<1>1. /\ Len(used[t]) \in Nat \ {0} /\ DOMAIN used[t] = 1 .. Len(used[t])
      /\ Top(t) = used[t][Len(used[t])]
  BY TopOf
<1>2. Len(used[t]) \in DOMAIN used[t]
  BY <1>1
<1>3. /\ Len(used[t]) > 1
      /\ \/ /\ used[t][Len(used[t]) - 1] \in Box
            /\ dll[Top(t)] = used[t][Len(used[t]) - 1]
         \/ used[t][Len(used[t]) - 1] \in Cpu /\ dll[Top(t)] = Bochs
  BY <1>1, <1>2 DEF Shape
<1>4. Len(used[t]) - 1 \in DOMAIN used[t]
  BY <1>1, <1>3
<1> QED
  BY <1>3, <1>4, Kinds DEF ToSet

\* A list that gives back a stack gives back its engine: the engine is registered
\* first, and cancelled or delivered last.
LEMMA PairListedNext ==
    ASSUME IInv, [Next]_vars
    PROVE  PairListed'
<1> USE Parts DEF PairListed, Intact
<1>0. ListedByHolderSets
  BY ListedByHolderIs
<1>1. ASSUME NEW t \in Thread, NEW e \in Held, Taken(t, e) PROVE PairListed'
  <2>1. \A u \in Thread : ToSet(listed[u]) \subseteq ToSet(listed'[u])
    BY <1>1, TakenEntries
  <2>2. \A u \in Thread : \A s \in Stack : s \in ToSet(listed'[u]) => s \in ToSet(listed[u])
    BY <1>1, TakenEntries
  <2>3. \A s \in Stack : \/ dll'[s] = dll[s]
                         \/ s = e /\ s \in idle \cup fresh
    BY <1>1, Kinds DEF Taken
  <2>4. \A s \in Stack \ void : s \in idle \cup fresh => \A u \in Thread : s \notin Entries(u)
    BY <1>0 DEF ListedByHolderSets, Resource
  <2>5. void' = void /\ pending' = pending
    BY <1>1 DEF Taken
  <2> QED
    BY <2>1, <2>2, <2>3, <2>4, <2>5 DEF Entries
<1>2. ASSUME UNCHANGED <<listed, pending, void, dll>> PROVE PairListed'
  BY <1>2
<1>4. ASSUME NEW t \in Thread, Exits(t) PROVE PairListed'
  BY <1>4, ToSetEmpty DEF Exits
<1>5. ASSUME NEW c \in Thread, NEW v \in Thread, Kills(c, v) PROVE PairListed'
  <2>1. \A u \in Thread : listed'[u] = <<>> \/ listed'[u] = listed[u]
    BY <1>5 DEF Kills
  <2>2. \A u \in Thread \ {c} : pending'[u] = <<>> \/ pending'[u] = pending[u]
    BY <1>5 DEF Kills
  <2>3. /\ void \subseteq void' /\ dll' = dll
        /\ \A s \in Stack \ void' : s \notin ToSet(pending'[c])
    BY <1>5 DEF Kills
  <2> QED
    BY <2>1, <2>2, <2>3, ToSetEmpty
<1>6. ASSUME NEW t \in Thread, Register(t) PROVE PairListed'
  <2>1. /\ Enters(t, Top(t)) /\ used[t] # <<>> /\ Top(t) \in Cpu \cup Stack
        /\ pc[t] = "list"
    BY <1>6, RegisterEnters
  <2>2. Top(t) \in Stack /\ dll[Top(t)] \in Intact => dll[Top(t)] \in ToSet(listed[t])
    <3> SUFFICES ASSUME Top(t) \in Stack, dll[Top(t)] \in Intact
                 PROVE  dll[Top(t)] \in ToSet(listed[t])
      OBVIOUS
    <3>1. dll[Top(t)] \in Box
      BY DllBox
    <3>2. dll[Top(t)] \in ToSet(used[t]) /\ dll[Top(t)] # Top(t)
      BY <2>1, <3>1, UnderStack, Kinds
    <3> QED
      BY <3>2 DEF UsedListed
  <2>3. Top(t) \notin Stack => \A s \in Stack : s # Top(t)
    OBVIOUS
  <2> QED
    BY <2>1, <2>2, <2>3 DEF Enters
<1>12. ASSUME NEW t \in Thread, NEW b \in Teb, Makes(t, b) PROVE PairListed'
  BY <1>12 DEF Makes
<1>7. ASSUME NEW t \in Thread, NEW b \in Teb, RegistersTeb(t, b) PROVE PairListed'
  <2>1. Enters(t, b)
    BY <1>7 DEF RegistersTeb
  <2>2. b \notin Stack
    BY Kinds
  <2> QED
    BY <2>1, <2>2 DEF Enters
<1>8. ASSUME NEW t \in Thread, Cancels(t) PROVE PairListed'
  <2>1. /\ ToSet(listed'[t]) \subseteq ToSet(listed[t])
        /\ ToSet(listed[t]) \ {Top(t)} \subseteq ToSet(listed'[t])
        /\ \A u \in Thread \ {t} : listed'[u] = listed[u]
        /\ UNCHANGED <<dll, pending, void>>
        /\ \/ pc[t] = "run" /\ Top(t) \in Stack
           \/ pc[t] = "unlist" /\ Top(t) \in Box \cup Cpu
    BY <1>8 DEF Cancels
  <2>2. ASSUME NEW s \in Stack \ void, dll[s] \in Intact, s \in ToSet(listed[t])
        PROVE  dll[s] # Top(t)
    <3>1. s \notin idle
      BY <1>0, <2>2 DEF ListedByHolderSets, Entries, Resource
    <3>2. CASE pc[t] = "unlist"
      BY <2>2, <3>1, <3>2 DEF StackFirst
    <3>3. CASE Top(t) \in Stack
      BY <2>2, <3>3, DllBox, Kinds
    <3> QED
      BY <2>1, <3>2, <3>3
  <2> QED
    BY <2>1, <2>2
<1>9. ASSUME NEW t \in Thread, NEW r \in Resource, Delivers(t, r) PROVE PairListed'
  <2>1. /\ r = Head(pending[t]) /\ pending[t] # <<>>
        /\ ToSet(pending[t]) = {r} \cup ToSet(pending'[t])
        /\ \A u \in Thread \ {t} : pending'[u] = pending[u]
        /\ UNCHANGED <<dll, listed, void>>
    BY <1>9 DEF Delivers
  <2>2. ASSUME NEW s \in Stack \ void, dll[s] \in Intact, s \in ToSet(pending[t])
        PROVE  dll[s] # r
    <3>1. s \notin idle
      BY <1>0, <2>2 DEF ListedByHolderSets, Entries, Resource
    <3>2. Before(pending[t], s, dll[s])
      BY <2>2, <3>1 DEF StackFirst
    <3>3. pending[t] \in Seq(Resource)
      BY DEF Types
    <3> QED
      BY <2>1, <3>2, <3>3, BeforeTail
  <2> QED
    BY <2>1, <2>2
<1>10. ASSUME NEW t \in Thread,
              PutBack(t, Top(t)) \/ SwallowException(t) \/ UnhandledException(t) \/ Quiet(t)
       PROVE  UNCHANGED <<listed, pending, void, dll>>
  BY <1>10, QuietKeeps DEF PutBack, SwallowException, UnhandledException
<1>11. ASSUME UNCHANGED vars PROVE PairListed'
  BY <1>2, <1>11 DEF vars
<1> QED
  BY <1>1, <1>2, <1>4, <1>5, <1>6, <1>7, <1>8, <1>9, <1>10, <1>11, <1>12,
     StepEffects

\* A TerminateThread that breaks a stack and not its engine breaks it for good.
LEMMA PairVoidNext ==
    ASSUME IInv, [Next]_vars
    PROVE  PairVoid'
<1> USE Parts DEF PairVoid, Intact
<1>0. ListedByHolderSets
  BY ListedByHolderIs
<1>1. ASSUME NEW t \in Thread, NEW e \in Held, Taken(t, e) PROVE PairVoid'
  <2>1. ToSet(used'[t]) = {e} \cup ToSet(used[t])
    BY <1>1, TakenElements
  <2>2. \A u \in Thread : \A s \in Stack : s \in ToSet(listed'[u]) => s \in ToSet(listed[u])
    BY <1>1, TakenEntries
  <2>3. void' = void /\ pending' = pending /\ idle' \subseteq idle
        /\ \A u \in Thread \ {t} : used'[u] = used[u]
    BY <1>1 DEF Taken
  <2>4. \A s \in Stack \ {e} : dll'[s] = dll[s]
    BY <1>1 DEF Taken
  <2>5. e \in Stack \cap void => dll'[e] \notin Intact
    <3> SUFFICES ASSUME e \in Stack, e \in void, dll'[e] \in Intact PROVE FALSE
      OBVIOUS
    <3>1. e \in idle /\ dll'[e] = dll[e]
      BY <1>1, Kinds DEF Taken, FreshUnused
    <3> QED
      BY <3>1
  <2> QED
    BY <2>1, <2>2, <2>3, <2>4, <2>5
<1>2. ASSUME NEW t \in Thread, PutBack(t, Top(t)) PROVE PairVoid'
  <2>1. \A u \in Thread : ToSet(used'[u]) \subseteq ToSet(used[u])
    BY <1>2, DroppedElements DEF PutBack
  <2>2. Top(t) \in ToSet(used[t])
    BY <1>2, TopOf DEF PutBack
  <2> QED
    BY <1>2, <2>1, <2>2 DEF PutBack
<1>3. ASSUME NEW t \in Thread, SwallowException(t) \/ UnhandledException(t)
      PROVE  PairVoid'
  <2>1. \A u \in Thread : ToSet(used'[u]) \subseteq ToSet(used[u])
    BY <1>3, DropsBelow, DroppedElements DEF Dropping
  <2>2. UNCHANGED <<idle, dll, listed, pending, void>>
    BY <1>3 DEF SwallowException, UnhandledException
  <2> QED
    BY <2>1, <2>2
<1>4. ASSUME NEW t \in Thread, Exits(t) PROVE PairVoid'
  <2>1. \A u \in Thread : ToSet(used'[u]) \subseteq ToSet(used[u])
    BY <1>4, ToSetEmpty DEF Exits
  <2>2. \A u \in Thread : Entries(u)' \subseteq Entries(u)
    BY <1>4, ToSetEmpty DEF Exits, Entries
  <2> QED
    BY <1>4, <2>1, <2>2 DEF Exits, Entries
<1>5. ASSUME NEW c \in Thread, NEW v \in Thread, Kills(c, v) PROVE PairVoid'
  <2>1. \A u \in Thread : ToSet(used'[u]) \subseteq ToSet(used[u])
    BY <1>5, ToSetEmpty DEF Kills
  <2>2. \A u \in Thread : Entries(u)' \subseteq Entries(u)
    <3>1. Entries(c)' \subseteq Entries(c)
      BY <1>5, ToSetEmpty DEF Kills, Entries
    <3>2. Entries(v)' \subseteq Entries(v)
      BY <1>5, ToSetEmpty DEF Kills, Entries
    <3> QED
      BY <1>5, <3>1, <3>2 DEF Kills, Entries
  <2>3. dll' = dll /\ idle' = idle /\ void \subseteq void'
    BY <1>5 DEF Kills
  <2>4. ToSet(used'[v]) = {} /\ Entries(v)' \subseteq ToSet(listed[v])
    <3>1. listed'[v] = listed[v] /\ pending'[v] = <<>> /\ used'[v] = <<>>
      BY <1>5 DEF Kills
    <3> QED
      BY <3>1, ToSetEmpty DEF Entries
  <2>5. ASSUME NEW s \in Stack, s \in void', dll[s] \in Resource, dll[s] \notin void'
        PROVE  s \notin idle /\ \A u \in Thread : s \notin ToSet(used'[u]) /\ s \notin Entries(u)'
    <3>1. CASE s \in void
      BY <2>1, <2>2, <2>3, <2>5, <3>1 DEF Entries
    <3>2. CASE s \notin void /\ s \in ToSet(listed[c])
      <4>1. dll[s] \in ToSet(listed[c])
        BY <2>3, <2>5, <3>2 DEF PairListed
      <4> QED
        BY <1>5, <2>5, <4>1 DEF Kills
    <3>3. CASE s \notin void /\ s \in ToSet(pending[v])
      <4>1. dll[s] \in ToSet(pending[v])
        BY <2>3, <2>5, <3>3 DEF PairListed
      <4>2. dll[s] \in ToSet(listed[v])
        BY <1>5, <2>5, <4>1 DEF Kills
      <4>3. pc[v] = "drain"
        BY <3>3, ToSetEmpty DEF DeliveryPhase
      <4> QED
        BY <4>2, <4>3, ToSetEmpty DEF DeliveryPhase
    <3>4. CASE s \notin void /\ s \in ToSet(used[v]) /\ s \notin ToSet(listed[v])
      <4>1. s \in Intact
        BY <3>4 DEF Resource
      <4>2. s \notin idle /\ \A u \in Thread \ {v} : s \notin ToSet(used[u])
        BY <3>4, <4>1 DEF ExclusiveSets
      <4>3. \A u \in Thread \ {v} : s \notin Entries(u)
        BY <1>0, <3>4, <4>1 DEF ListedByHolderSets
      <4> QED
        BY <2>1, <2>2, <2>4, <3>4, <4>2, <4>3
    <3>5. s \notin NewTeb(v)
      BY <2>5, NewTebs, Kinds
    <3>6. \/ s \in void
          \/ s \in ToSet(listed[c])
          \/ s \in NewTeb(v)
          \/ s \in ToSet(used[v]) \cup ToSet(pending[v]) /\ s \notin ToSet(listed[v])
      BY <1>5, <2>5 DEF Kills
    <3> QED
      BY <3>1, <3>2, <3>3, <3>4, <3>5, <3>6
  <2> QED
    BY <2>3, <2>5 DEF Entries
<1>6. ASSUME NEW t \in Thread, Register(t) PROVE PairVoid'
  <2>1. Enters(t, Top(t)) /\ Top(t) \in ToSet(used[t])
    BY <1>6, RegisterEnters
  <2> QED
    BY <2>1 DEF Enters
<1>12. ASSUME NEW t \in Thread, NEW b \in Teb, Makes(t, b) PROVE PairVoid'
  BY <1>12 DEF Makes
<1>7. ASSUME NEW t \in Thread, NEW b \in Teb, RegistersTeb(t, b) PROVE PairVoid'
  <2>1. Enters(t, b)
    BY <1>7 DEF RegistersTeb
  <2>2. b \notin Stack
    BY Kinds
  <2> QED
    BY <2>1, <2>2 DEF Enters
<1>8. ASSUME NEW t \in Thread, Cancels(t) PROVE PairVoid'
  BY <1>8 DEF Cancels
<1>9. ASSUME NEW t \in Thread, NEW r \in Resource, Delivers(t, r) PROVE PairVoid'
  BY <1>9 DEF Delivers
<1>10. ASSUME NEW t \in Thread, Quiet(t) PROVE PairVoid'
  BY <1>10, QuietKeeps
<1>11. ASSUME UNCHANGED vars PROVE PairVoid'
  BY <1>11 DEF vars
<1> QED
  BY <1>1, <1>2, <1>3, <1>4, <1>5, <1>6, <1>7, <1>8, <1>9, <1>10, <1>11, <1>12,
     StepEffects

\* What StackFirst says of a stack s of engine i and one thread: where the thread is,
\* what it took last, and its two lists.
Ordered(s, i, at, top, pend, list) ==
    /\ at \in {"stack", "unlist", "put"} => i # top
    /\ i \in ToSet(pend) => Before(pend, s, i)
    /\ i \in ToSet(list) => \/ Before(list, s, i)
                            \/ at \in {"list", "put"} /\ top = s

LEMMA StackFirstIs ==
    StackFirst <=>
        \A s \in Stack : s \notin void /\ s \notin idle /\ dll[s] \in Intact =>
            /\ dll[s] \notin idle
            /\ \A u \in Thread :
                  Ordered(s, dll[s], pc[u], Last(used[u]), pending[u], listed[u])
BY DEF StackFirst, Ordered, Top

LEMMA StackFirstIsNext ==
    (\A s \in Stack : s \notin void' /\ s \notin idle' /\ dll'[s] \in Resource \ void' =>
        /\ dll'[s] \notin idle'
        /\ \A u \in Thread :
              Ordered(s, dll'[s], pc'[u], Last(used'[u]), pending'[u], listed'[u]))
    => StackFirst'
BY DEF StackFirst, Ordered, Top, Intact

\* A thread that does not reach or leave one of the places Ordered is about.
LEMMA SameOrder ==
    ASSUME NEW s, NEW i, NEW at, NEW to, NEW top, NEW new, NEW pend, NEW list,
           Ordered(s, i, at, top, pend, list),
           at \notin {"list", "put"}, to \notin {"stack", "unlist", "put"}
    PROVE  Ordered(s, i, to, new, pend, list)
BY DEF Ordered

\* A stack is in the StackList before its engine is idle, on every way out.
LEMMA StackFirstNext ==
    ASSUME IInv, [Next]_vars
    PROVE  StackFirst'
<1> USE Parts
<1>0. /\ ListedByHolderSets
      /\ \A s \in Stack : s \notin void /\ s \notin idle /\ dll[s] \in Intact =>
            /\ dll[s] \notin idle
            /\ \A u \in Thread :
                  Ordered(s, dll[s], pc[u], Last(used[u]), pending[u], listed[u])
  BY ListedByHolderIs, StackFirstIs
<1> SUFFICES ASSUME NEW s \in Stack, s \notin void', s \notin idle',
                    dll'[s] \in Resource, dll'[s] \notin void'
             PROVE  /\ dll'[s] \notin idle'
                    /\ \A u \in Thread :
                          Ordered(s, dll'[s], pc'[u], Last(used'[u]), pending'[u], listed'[u])
  BY StackFirstIsNext
<1> DEFINE Good == /\ dll'[s] \notin idle'
                   /\ \A u \in Thread :
                         Ordered(s, dll'[s], pc'[u], Last(used'[u]), pending'[u], listed'[u])
<1>s. s \in Resource /\ s \notin Box /\ s \notin Cpu /\ s \notin Teb
  BY Kinds
<1>p. \A u \in Thread : pending[u] \in Seq(Resource) /\ listed[u] \in Seq(Resource)
  BY DEF Types
<1>1. ASSUME NEW t \in Thread, NEW e \in Held, Taken(t, e) PROVE Good
  <2>1. void' = void /\ idle' = idle \ {e} /\ pending' = pending
    BY <1>1 DEF Taken
  <2>2. Last(used'[t]) = e
    BY <1>1, TakenElements DEF Top
  <2>3. \A u \in Thread \ {t} : used'[u] = used[u] /\ listed'[u] = listed[u] /\ pc'[u] = pc[u]
    BY <1>1 DEF Taken
  <2>4. CASE s # e
    <3>1. dll'[s] = dll[s] /\ s \notin idle
      BY <1>1, <2>1, <2>4 DEF Taken
    <3>2. /\ dll[s] \in Intact /\ dll[s] \notin idle /\ dll[s] \in Box
          /\ \A u \in Thread :
                Ordered(s, dll[s], pc[u], Last(used[u]), pending[u], listed[u])
      BY <1>0, <2>1, <3>1, DllBox DEF Intact
    <3>3. Ordered(s, dll[s], pc'[t], e, pending[t], listed'[t])
      <4>1. CASE pc[t] = "run" /\ pc'[t] = "stack" /\ e \in Box /\ listed'[t] = Cons(e, listed[t])
        <5>1. e \in idle /\ e \in Resource
          BY <1>1, <4>1, Kinds DEF Taken, Types
        <5>2. dll[s] # e
          BY <3>2, <5>1
        <5>3. ToSet(listed'[t]) = {e} \cup ToSet(listed[t])
          BY <4>1, <5>1, ListSteps
        <5>4. Before(listed[t], s, dll[s]) => Before(listed'[t], s, dll[s])
          BY <1>p, <4>1, <5>1, <5>2, BeforeCons
        <5> QED
          BY <3>2, <4>1, <5>2, <5>3, <5>4 DEF Ordered
      <4>2. CASE listed'[t] = listed[t] /\ pc[t] \in {"run", "cpu", "stack"} /\ pc'[t] \in {"cpu", "list"}
        BY <3>2, <4>2, SameOrder
      <4> QED
        BY <1>1, <4>1, <4>2 DEF Taken
    <3> QED
      BY <2>1, <2>2, <2>3, <3>1, <3>2, <3>3
  <2>5. CASE s = e
    <3>1. /\ pc[t] = "stack" /\ pc'[t] = "list" /\ listed'[t] = listed[t]
          /\ dll'[s] = Engine(t) /\ used[t] # <<>>
      BY <1>1, <2>5, <1>s, Kinds, TopKinds DEF Taken
    <3>2. Engine(t) \in Box /\ Engine(t) = Top(t) /\ Top(t) \in ToSet(used[t])
      BY <3>1, TopOf, Kinds DEF Engine
    <3>3. Top(t) \in Intact
      BY <2>1, <3>1, <3>2 DEF Intact
    <3>4. /\ Top(t) \notin idle
          /\ \A u \in Thread \ {t} : Top(t) \notin ToSet(used[u]) /\ Top(t) \notin Entries(u)
      BY <1>0, <3>2, <3>3 DEF ExclusiveSets, ListedByHolderSets
    <3>5. ToSet(pending[t]) = {}
      BY <3>1, NothingPending
    <3>6. Ordered(s, Top(t), pc'[t], Last(used'[t]), pending'[t], listed'[t])
      BY <2>1, <2>2, <2>5, <3>1, <3>5 DEF Ordered
    <3>7. ASSUME NEW u \in Thread \ {t}
          PROVE  Ordered(s, Top(t), pc'[u], Last(used'[u]), pending'[u], listed'[u])
      <4>1. Top(t) \notin ToSet(pending'[u]) /\ Top(t) \notin ToSet(listed'[u])
        BY <2>1, <2>3, <3>4 DEF Entries
      <4>2. pc[u] \in {"stack", "unlist", "put"} => Top(u) \in ToSet(used[u])
        BY TopKinds, TopOf
      <4>3. pc'[u] \in {"stack", "unlist", "put"} => Top(t) # Last(used'[u])
        BY <2>3, <3>4, <4>2 DEF Top
      <4> QED
        BY <4>1, <4>3 DEF Ordered
    <3> QED
      BY <2>1, <3>1, <3>2, <3>4, <3>6, <3>7
  <2> QED
    BY <2>4, <2>5
<1>2. ASSUME NEW t \in Thread, PutBack(t, Top(t)) PROVE Good
  <2>1. /\ idle' = idle \cup {Top(t)} /\ UNCHANGED <<dll, listed, pending, void>>
        /\ pc[t] = "put" /\ used[t] # <<>> /\ Top(t) \in Box \cup Cpu \cup Stack
        /\ \A u \in Thread \ {t} : used'[u] = used[u] /\ pc'[u] = pc[u]
    BY <1>2 DEF PutBack
  <2>2. /\ s # Top(t) /\ s \notin idle
        /\ dll[s] \in Intact /\ dll[s] \notin idle /\ dll[s] \in Box
        /\ \A u \in Thread :
              Ordered(s, dll[s], pc[u], Last(used[u]), pending[u], listed[u])
    BY <1>0, <2>1, DllBox DEF Intact
  <2>3. dll[s] # Top(t) /\ (dll[s] \in ToSet(listed[t]) => Before(listed[t], s, dll[s]))
        /\ (dll[s] \in ToSet(pending[t]) => Before(pending[t], s, dll[s]))
    BY <2>1, <2>2 DEF Ordered, Top
  <2>4. pc'[t] \in {"stack", "unlist", "put"} => dll[s] # Last(used'[t])
    <3> SUFFICES ASSUME pc'[t] \in {"stack", "unlist", "put"}, dll[s] = Last(used'[t])
                 PROVE  FALSE
      OBVIOUS
    <3>1. Top(t) \in Stack /\ Last(used'[t]) = used[t][Len(used[t]) - 1]
      BY <1>2 DEF PutBack, Top
    <3>2. dll[Top(t)] = dll[s]
      BY <2>1, <2>2, <3>1, UnderStack
    <3>3. CASE Top(t) \in void
      <4>1. Top(t) \in ToSet(used[t])
        BY <2>1, TopOf
      <4> QED
        BY <2>2, <3>1, <3>2, <3>3, <4>1 DEF PairVoid
    <3>4. CASE Top(t) \notin void
      BY <2>1, <2>2, <3>1, <3>2, <3>4 DEF OneStackPerEngine, Intact
    <3> QED
      BY <3>3, <3>4
  <2>5. Ordered(s, dll[s], pc'[t], Last(used'[t]), pending[t], listed[t])
    BY <2>3, <2>4 DEF Ordered
  <2> QED
    BY <2>1, <2>2, <2>3, <2>5
<1>3. ASSUME NEW t \in Thread, SwallowException(t) \/ UnhandledException(t) PROVE Good
  <2>1. /\ UNCHANGED <<idle, dll, listed, pending, void>>
        /\ pc[t] = "run" /\ pc'[t] \in {"run", "off"}
        /\ \A u \in Thread \ {t} : pc'[u] = pc[u] /\ used'[u] = used[u]
    BY <1>3 DEF SwallowException, UnhandledException, Goto, TypeOK
  <2>2. /\ dll[s] \notin idle
        /\ \A u \in Thread :
              Ordered(s, dll[s], pc[u], Last(used[u]), pending[u], listed[u])
    BY <1>0, <2>1 DEF Intact
  <2>3. Ordered(s, dll[s], pc'[t], Last(used'[t]), pending[t], listed[t])
    BY <2>1, <2>2, SameOrder
  <2> QED
    BY <2>1, <2>2, <2>3
<1>4. ASSUME NEW t \in Thread, Exits(t) PROVE Good
  <2>1. /\ UNCHANGED <<idle, dll, void>>
        /\ pc[t] = "run" /\ pc'[t] = "drain" /\ listed'[t] = <<>> /\ pending'[t] = listed[t]
        /\ \A u \in Thread \ {t} : /\ pc'[u] = pc[u] /\ used'[u] = used[u]
                                   /\ listed'[u] = listed[u] /\ pending'[u] = pending[u]
    BY <1>4 DEF Exits
  <2>2. /\ dll[s] \notin idle
        /\ \A u \in Thread :
              Ordered(s, dll[s], pc[u], Last(used[u]), pending[u], listed[u])
    BY <1>0, <2>1 DEF Intact
  <2>3. Ordered(s, dll[s], pc'[t], Last(used'[t]), pending'[t], listed'[t])
    BY <2>1, <2>2, ToSetEmpty DEF Ordered
  <2> QED
    BY <2>1, <2>2, <2>3
<1>5. ASSUME NEW c \in Thread, NEW v \in Thread, Kills(c, v) PROVE Good
  <2>1. /\ idle' = idle /\ dll' = dll /\ void \subseteq void'
        /\ c # v
        /\ pc'[c] = "wipe" /\ listed'[c] = <<>> /\ pending'[c] = listed[c]
        /\ ToSet(listed[c]) \subseteq void'
        /\ pc'[v] = "off" /\ pending'[v] = <<>> /\ listed'[v] = listed[v]
        /\ \A u \in Thread \ {c, v} : /\ pc'[u] = pc[u] /\ used'[u] = used[u]
                                      /\ listed'[u] = listed[u] /\ pending'[u] = pending[u]
    BY <1>5 DEF Kills
  <2>2. /\ dll[s] \notin idle /\ s \in Intact
        /\ \A u \in Thread :
              Ordered(s, dll[s], pc[u], Last(used[u]), pending[u], listed[u])
    BY <1>0, <2>1, <1>s DEF Intact
  <2>3. Ordered(s, dll[s], pc'[c], Last(used'[c]), pending'[c], listed'[c])
    <3>1. dll[s] \notin ToSet(listed[c])
      BY <2>1
    <3> QED
      BY <2>1, <3>1, ToSetEmpty DEF Ordered
  <2>4. Ordered(s, dll[s], pc'[v], Last(used'[v]), pending'[v], listed'[v])
    <3>1. ~(pc[v] \in {"list", "put"} /\ Top(v) = s)
      <4> SUFFICES ASSUME pc[v] \in {"list", "put"}, Top(v) = s PROVE FALSE
        OBVIOUS
      <4>1. s \in ToSet(used[v])
        BY TopKinds, TopOf
      <4>2. s \notin ToSet(listed[v])
        BY <2>2, <4>1 DEF UsedListed
      <4> QED
        BY <1>5, <1>s, <4>1, <4>2 DEF Kills
    <3>2. dll[s] \in ToSet(listed[v]) => Before(listed[v], s, dll[s])
      BY <2>2, <3>1 DEF Ordered, Top
    <3> QED
      BY <2>1, <3>2, ToSetEmpty DEF Ordered
  <2> QED
    BY <2>1, <2>2, <2>3, <2>4
<1>6. ASSUME NEW t \in Thread, Register(t) PROVE Good
  <2>1. /\ Enters(t, Top(t))
        /\ pc[t] = "list" /\ used[t] # <<>> /\ Top(t) \in Cpu \cup Stack
        /\ pc'[t] = IF Top(t) \in Cpu THEN "stack" ELSE "code"
    BY <1>6, RegisterEnters
  <2>2. /\ listed'[t] = Cons(Top(t), listed[t])
        /\ ToSet(listed'[t]) = {Top(t)} \cup ToSet(listed[t])
        /\ \A u \in Thread \ {t} : listed'[u] = listed[u] /\ pc'[u] = pc[u]
        /\ UNCHANGED <<idle, dll, used, pending, void>>
    BY <2>1 DEF Enters
  <2>3. /\ dll[s] \notin idle /\ dll[s] \in Box
        /\ \A u \in Thread :
              Ordered(s, dll[s], pc[u], Last(used[u]), pending[u], listed[u])
    BY <1>0, <2>2, DllBox DEF Intact
  <2>4. Top(t) # dll[s]
    BY <2>1, <2>3, Kinds
  <2>5. Ordered(s, dll[s], pc'[t], Last(used[t]), pending[t], listed'[t])
    <3>1. Top(t) \in Resource
      BY <2>1, Kinds
    <3>2. dll[s] \in ToSet(listed[t]) => Before(listed'[t], s, dll[s])
      <4> SUFFICES ASSUME dll[s] \in ToSet(listed[t])
                   PROVE  Before(listed'[t], s, dll[s])
        OBVIOUS
      <4>1. CASE Top(t) = s
        BY <1>p, <2>2, <2>4, <3>1, <4>1, BeforeCons
      <4>2. CASE Top(t) # s
        <5>1. Before(listed[t], s, dll[s])
          BY <2>3, <4>2 DEF Ordered, Top
        <5> QED
          BY <1>p, <2>2, <2>4, <3>1, <5>1, BeforeCons
      <4> QED
        BY <4>1, <4>2
    <3> QED
      BY <2>1, <2>2, <2>3, <2>4, <3>2 DEF Ordered, Top
  <2> QED
    BY <2>2, <2>3, <2>5
<1>12. ASSUME NEW t \in Thread, NEW b \in Teb, Makes(t, b) PROVE Good
  <2>1. /\ UNCHANGED <<idle, dll, used, listed, pending, void>>
        /\ \A u \in Thread \ {t} : pc'[u] = pc[u]
        /\ pc[t] \notin {"list", "put"} /\ pc'[t] \notin {"stack", "unlist", "put"}
    BY <1>12 DEF Makes
  <2>2. /\ dll[s] \notin idle
        /\ \A u \in Thread :
              Ordered(s, dll[s], pc[u], Last(used[u]), pending[u], listed[u])
    BY <1>0, <2>1 DEF Intact
  <2>3. Ordered(s, dll[s], pc'[t], Last(used[t]), pending[t], listed[t])
    BY <2>1, <2>2, SameOrder
  <2> QED
    BY <2>1, <2>2, <2>3
<1>7. ASSUME NEW t \in Thread, NEW b \in Teb, RegistersTeb(t, b) PROVE Good
  <2>1. Enters(t, b) /\ pc[t] = "teb" /\ pc'[t] \in {"code", "cpu"}
    BY <1>7 DEF RegistersTeb
  <2>2. /\ listed'[t] = Cons(b, listed[t])
        /\ ToSet(listed'[t]) = {b} \cup ToSet(listed[t])
        /\ \A u \in Thread \ {t} : listed'[u] = listed[u] /\ pc'[u] = pc[u]
        /\ UNCHANGED <<idle, dll, used, pending, void>>
    BY <2>1 DEF Enters
  <2>3. /\ dll[s] \notin idle /\ dll[s] \in Box
        /\ \A u \in Thread :
              Ordered(s, dll[s], pc[u], Last(used[u]), pending[u], listed[u])
    BY <1>0, <2>2, DllBox DEF Intact
  <2>4. b # dll[s] /\ b \in Resource
    BY <2>3, Kinds
  <2>5. Before(listed[t], s, dll[s]) => Before(listed'[t], s, dll[s])
    BY <1>p, <2>2, <2>4, BeforeCons
  <2>6. Ordered(s, dll[s], pc'[t], Last(used[t]), pending[t], listed'[t])
    BY <2>1, <2>2, <2>3, <2>4, <2>5 DEF Ordered
  <2> QED
    BY <2>1, <2>2, <2>3, <2>6
<1>8. ASSUME NEW t \in Thread, Cancels(t) PROVE Good
  <2>1. /\ \/ pc[t] = "run" /\ Top(t) \in Stack
           \/ pc[t] = "unlist" /\ Top(t) \in Box \cup Cpu
        /\ pc'[t] = "put"
        /\ listed'[t] = RemoveFirst(listed[t], Top(t))
        /\ ToSet(listed'[t]) \subseteq ToSet(listed[t])
        /\ \A u \in Thread \ {t} : listed'[u] = listed[u] /\ pc'[u] = pc[u]
        /\ UNCHANGED <<idle, dll, used, pending, void>>
    BY <1>8 DEF Cancels
  <2>2. /\ dll[s] \notin idle /\ dll[s] \in Box
        /\ \A u \in Thread :
              Ordered(s, dll[s], pc[u], Last(used[u]), pending[u], listed[u])
    BY <1>0, <2>1, DllBox DEF Intact
  <2>3. dll[s] # Top(t)
    BY <2>1, <2>2, Kinds DEF Ordered, Top
  <2>4. dll[s] \in ToSet(listed'[t]) => Before(listed'[t], s, dll[s]) \/ Top(t) = s
    <3> SUFFICES ASSUME dll[s] \in ToSet(listed'[t]), Top(t) # s
                 PROVE  Before(listed'[t], s, dll[s])
      OBVIOUS
    <3>1. Before(listed[t], s, dll[s])
      BY <2>1, <2>2 DEF Ordered, Top
    <3> QED
      BY <1>p, <2>1, <2>3, <3>1, BeforeRemove
  <2>5. Ordered(s, dll[s], pc'[t], Last(used[t]), pending[t], listed'[t])
    BY <2>1, <2>2, <2>3, <2>4 DEF Ordered, Top
  <2> QED
    BY <2>1, <2>2, <2>5
<1>9. ASSUME NEW t \in Thread, NEW r \in Resource, Delivers(t, r) PROVE Good
  <2>1. /\ pc' = pc /\ r = Head(pending[t]) /\ pending[t] # <<>>
        /\ r \in ToSet(pending[t])
        /\ pending'[t] = Tail(pending[t])
        /\ ToSet(pending[t]) = {r} \cup ToSet(pending'[t])
        /\ \A u \in Thread \ {t} : pending'[u] = pending[u]
        /\ UNCHANGED <<dll, used, listed, void>>
        /\ IF r \in Teb THEN idle' = idle ELSE idle' = idle \cup {r}
    BY <1>9 DEF Delivers
  <2>2. s \notin idle /\ s # r
    BY <2>1, <1>s
  <2>3. /\ dll[s] \notin idle /\ dll[s] \in Box
        /\ \A u \in Thread :
              Ordered(s, dll[s], pc[u], Last(used[u]), pending[u], listed[u])
    BY <1>0, <2>1, <2>2, DllBox DEF Intact
  <2>4. dll[s] \in ToSet(pending[t]) => /\ r # dll[s]
                                        /\ Before(pending'[t], s, dll[s])
    <3> SUFFICES ASSUME dll[s] \in ToSet(pending[t])
                 PROVE  r # dll[s] /\ Before(pending'[t], s, dll[s])
      OBVIOUS
    <3>1. Before(pending[t], s, dll[s])
      BY <2>3 DEF Ordered
    <3> QED
      BY <1>p, <2>1, <2>2, <3>1, BeforeTail
  <2>5. Ordered(s, dll[s], pc[t], Last(used[t]), pending'[t], listed[t])
    BY <2>1, <2>3, <2>4 DEF Ordered
  <2>6. dll[s] \notin idle'
    BY <2>1, <2>3, <2>4
  <2> QED
    BY <2>1, <2>3, <2>5, <2>6
<1>10. ASSUME NEW t \in Thread, Quiet(t) PROVE Good
  <2>1. /\ UNCHANGED <<idle, dll, used, listed, pending, void>>
        /\ \A u \in Thread \ {t} : pc'[u] = pc[u]
        /\ pc[t] \notin {"list", "put"} /\ pc'[t] \notin {"stack", "unlist", "put"}
    BY <1>10, QuietKeeps
  <2>2. /\ dll[s] \notin idle
        /\ \A u \in Thread :
              Ordered(s, dll[s], pc[u], Last(used[u]), pending[u], listed[u])
    BY <1>0, <2>1 DEF Intact
  <2>3. Ordered(s, dll[s], pc'[t], Last(used[t]), pending[t], listed[t])
    BY <2>1, <2>2, SameOrder
  <2> QED
    BY <2>1, <2>2, <2>3
<1>11. ASSUME UNCHANGED vars PROVE Good
  BY <1>0, <1>11 DEF vars, Intact
<1> HIDE DEF Good
<1>13. Good
  BY <1>1, <1>2, <1>3, <1>4, <1>5, <1>6, <1>7, <1>8, <1>9, <1>10, <1>11, <1>12,
     StepEffects
<1> QED
  BY <1>13 DEF Good

\* The first stack of an engine is the only one, because it is in the StackList
\* whenever the engine is leased.
LEMMA OneStackPerEngineNext ==
    ASSUME IInv, [Next]_vars
    PROVE  OneStackPerEngine'
<1> USE Parts DEF OneStackPerEngine
<1>1. ASSUME NEW t \in Thread, NEW e \in Held, Taken(t, e) PROVE OneStackPerEngine'
  <2>1. void' = void /\ \A s \in Stack \ {e} : dll'[s] = dll[s]
    BY <1>1 DEF Taken
  <2>2. ASSUME e \in Stack, e \notin void, dll'[e] \in Box, dll'[e] \notin void,
               NEW s \in Stack \ {e}, s \notin void, dll[s] = dll'[e]
        PROVE  FALSE
    <3>1. /\ pc[t] = "stack" /\ dll'[e] = Engine(t) /\ used[t] # <<>>
          /\ e \in idle => dll[e] = Engine(t)
          /\ e \notin idle => StackList(Engine(t)) = {}
      BY <1>1, <2>2, Kinds, TopKinds DEF Taken
    <3>2. Engine(t) = Top(t)
      BY <2>2, <3>1, Kinds DEF Engine
    <3>3. e \notin idle
      BY <2>2, <3>1
    <3>4. s \notin idle
      BY <2>2, <3>1, <3>3 DEF StackList
    <3>5. dll[s] \in Intact
      BY <2>2 DEF Intact, Resource
    <3> QED
      BY <2>2, <3>1, <3>2, <3>4, <3>5 DEF StackFirst
  <2> QED
    BY <2>1, <2>2
<1>2. ASSUME NEW t \in Thread, Put(t) \/ Dropping(t) \/ Calm(t) PROVE OneStackPerEngine'
  <2>1. dll' = dll /\ void \subseteq void'
    BY <1>2, PutPutsBack, DropsBelow, CalmKeeps, VoidGrows DEF PutBack
  <2> QED
    BY <2>1
<1>3. ASSUME UNCHANGED vars PROVE OneStackPerEngine'
  BY <1>3 DEF vars
<1> QED
  BY <1>1, <1>2, <1>3, StepKinds, TakingTakes

\* Only the step of a thread itself moves a resource of that thread between its list,
\* its deliveries and the two windows.
LEMMA RecoverableNext ==
    ASSUME IInv, [Next]_vars
    PROVE  Recoverable'
<1> USE Parts
<1>0. \A r \in Intact : r \notin idle /\ r \notin fresh => \E u \in Thread :
          \/ r \in ToSet(listed[u]) \/ r \in ToSet(pending[u])
          \/ pc[u] \in {"list", "put"} /\ used[u] # <<>> /\ Last(used[u]) = r
          \/ pc[u] = "teb" /\ teb[u] = r
  BY DEF Recoverable, Top, NewTeb
<1> SUFFICES ASSUME NEW r \in Resource, r \notin void', r \notin idle', r \notin fresh'
             PROVE  \E u \in Thread :
                        \/ r \in ToSet(listed'[u]) \/ r \in ToSet(pending'[u])
                        \/ pc'[u] \in {"list", "put"} /\ used'[u] # <<>> /\ Last(used'[u]) = r
                        \/ pc'[u] = "teb" /\ teb'[u] = r
  BY DEF Recoverable, Top, Intact, NewTeb
<1> DEFINE Good == \E u \in Thread :
                       \/ r \in ToSet(listed'[u]) \/ r \in ToSet(pending'[u])
                       \/ pc'[u] \in {"list", "put"} /\ used'[u] # <<>> /\ Last(used'[u]) = r
                       \/ pc'[u] = "teb" /\ teb'[u] = r
           Has(u) == \/ r \in ToSet(listed[u]) \/ r \in ToSet(pending[u])
                     \/ pc[u] \in {"list", "put"} /\ used[u] # <<>> /\ Last(used[u]) = r
                     \/ pc[u] = "teb" /\ teb[u] = r
<1>h. ASSUME r \notin void, r \notin idle, r \notin fresh
      PROVE  \E u \in Thread : Has(u)
  BY <1>0, <1>h DEF Intact
<1>1. ASSUME NEW t \in Thread, NEW e \in Held, Taken(t, e) PROVE Good
  <2>1. /\ idle' = idle \ {e} /\ fresh' = fresh \ {e} /\ void' = void /\ pending' = pending
        /\ teb' = teb
        /\ pc[t] \notin {"list", "put", "teb"}
        /\ \A u \in Thread \ {t} : used'[u] = used[u] /\ pc'[u] = pc[u]
    BY <1>1 DEF Taken
  <2>2. used'[t] # <<>> /\ Last(used'[t]) = e
    BY <1>1, TakenElements DEF Top
  <2>3. CASE r = e
    <3>1. r # Bochs
      BY Kinds
    <3>2. CASE pc'[t] = "list"
      BY <2>2, <2>3, <3>2
    <3>3. CASE e \in Box /\ listed'[t] = Cons(e, listed[t])
      BY <2>3, <3>3, ListSteps
    <3> QED
      BY <1>1, <2>3, <3>1, <3>2, <3>3 DEF Taken
  <2>4. CASE r # e
    <3>1. PICK u \in Thread : Has(u)
      BY <1>h, <2>1, <2>4
    <3>2. ToSet(listed[u]) \subseteq ToSet(listed'[u])
      BY <1>1, TakenEntries
    <3> QED
      BY <2>1, <3>1, <3>2
  <2> QED
    BY <2>3, <2>4
<1>2. ASSUME NEW t \in Thread, PutBack(t, Top(t)) PROVE Good
  <2>1. /\ idle' = idle \cup {Top(t)} /\ UNCHANGED <<fresh, teb, listed, pending, void>>
        /\ pc[t] = "put"
        /\ \A u \in Thread \ {t} : used'[u] = used[u] /\ pc'[u] = pc[u]
    BY <1>2 DEF PutBack
  <2>2. PICK u \in Thread : Has(u)
    BY <1>h, <2>1
  <2> QED
    BY <2>1, <2>2 DEF Top
<1>3. ASSUME NEW t \in Thread, SwallowException(t) \/ UnhandledException(t) PROVE Good
  <2>1. /\ UNCHANGED <<idle, fresh, listed, pending, void>>
        /\ pc[t] = "run"
        /\ \A u \in Thread \ {t} : used'[u] = used[u] /\ pc'[u] = pc[u] /\ teb'[u] = teb[u]
    BY <1>3 DEF SwallowException, UnhandledException, Goto, TlsEnds, TypeOK
  <2>2. PICK u \in Thread : Has(u)
    BY <1>h, <2>1
  <2> QED
    BY <2>1, <2>2
<1>4. ASSUME NEW t \in Thread, Exits(t) PROVE Good
  <2>1. UNCHANGED <<idle, fresh, void>> /\ pc[t] = "run" /\ pending'[t] = listed[t]
    BY <1>4 DEF Exits
  <2>2. PICK u \in Thread : Has(u)
    BY <1>h, <2>1
  <2>3. CASE u = t
    BY <2>1, <2>2, <2>3, NothingPending
  <2>4. CASE u # t
    BY <1>4, <2>2, <2>4 DEF Exits
  <2> QED
    BY <2>3, <2>4
<1>5. ASSUME NEW c \in Thread, NEW v \in Thread, Kills(c, v) PROVE Good
  <2>1. UNCHANGED <<idle, fresh>> /\ void \subseteq void' /\ pc[c] = "run"
        /\ ToSet(listed[c]) \subseteq void' /\ listed'[v] = listed[v]
        /\ \A x \in Resource : x \in ToSet(used[v]) \cup ToSet(pending[v]) \cup NewTeb(v) =>
                                   x \in ToSet(listed[v]) \/ x \in void'
    BY <1>5 DEF Kills
  <2>2. PICK u \in Thread : Has(u)
    BY <1>h, <2>1
  <2>3. CASE u = c
    BY <2>1, <2>2, <2>3, NothingPending
  <2>4. CASE u = v
    <3>1. pc[v] \in {"list", "put"} /\ used[v] # <<>> /\ Last(used[v]) = r => r \in ToSet(used[v])
      BY TopOf DEF Top
    <3>2. pc[v] = "teb" => teb[v] \in NewTeb(v)
      BY DEF NewTeb
    <3> QED
      BY <2>1, <2>2, <2>4, <3>1, <3>2
  <2>5. CASE u # c /\ u # v
    BY <1>5, <2>2, <2>5 DEF Kills
  <2> QED
    BY <2>3, <2>4, <2>5
<1>6. ASSUME NEW t \in Thread, Register(t) PROVE Good
  <2>1. Enters(t, Top(t)) /\ fresh' = fresh /\ teb' = teb /\ pc[t] = "list"
    BY <1>6, RegisterEnters
  <2>2. /\ ToSet(listed'[t]) = {Top(t)} \cup ToSet(listed[t])
        /\ \A u \in Thread \ {t} : listed'[u] = listed[u] /\ pc'[u] = pc[u]
        /\ UNCHANGED <<idle, used, pending, void>>
    BY <2>1 DEF Enters
  <2>3. PICK u \in Thread : Has(u)
    BY <1>h, <2>1, <2>2
  <2> QED
    BY <2>1, <2>2, <2>3 DEF Top
<1>12. ASSUME NEW t \in Thread, NEW b \in Teb, Makes(t, b) PROVE Good
  <2>1. /\ fresh' = fresh \ {b} /\ UNCHANGED <<idle, used, listed, pending, void>>
        /\ pc[t] \in {"code", "cpu"} /\ pc'[t] = "teb" /\ teb'[t] = b
        /\ \A u \in Thread \ {t} : pc'[u] = pc[u] /\ teb'[u] = teb[u]
    BY <1>12 DEF Makes
  <2>2. CASE r = b
    BY <2>1, <2>2
  <2>3. CASE r # b
    <3>1. PICK u \in Thread : Has(u)
      BY <1>h, <2>1, <2>3
    <3> QED
      BY <2>1, <3>1
  <2> QED
    BY <2>2, <2>3
<1>7. ASSUME NEW t \in Thread, NEW b \in Teb, RegistersTeb(t, b) PROVE Good
  <2>1. /\ Enters(t, b) /\ fresh' = fresh /\ teb' = teb
        /\ pc[t] = "teb" /\ teb[t] = b
    BY <1>7 DEF RegistersTeb
  <2>2. /\ ToSet(listed'[t]) = {b} \cup ToSet(listed[t])
        /\ \A u \in Thread \ {t} : listed'[u] = listed[u] /\ pc'[u] = pc[u]
        /\ UNCHANGED <<idle, used, pending, void>>
    BY <2>1 DEF Enters
  <2>3. PICK u \in Thread : Has(u)
    BY <1>h, <2>1, <2>2
  <2> QED
    BY <2>1, <2>2, <2>3
<1>8. ASSUME NEW t \in Thread, Cancels(t) PROVE Good
  <2>1. /\ used[t] # <<>> /\ pc[t] \notin {"list", "put", "teb"} /\ pc'[t] = "put"
        /\ ToSet(listed[t]) \ {Top(t)} \subseteq ToSet(listed'[t])
        /\ \A u \in Thread \ {t} : listed'[u] = listed[u] /\ pc'[u] = pc[u]
        /\ UNCHANGED <<idle, fresh, used, teb, pending, void>>
    BY <1>8 DEF Cancels
  <2>2. PICK u \in Thread : Has(u)
    BY <1>h, <2>1
  <2> QED
    BY <2>1, <2>2 DEF Top
<1>9. ASSUME NEW t \in Thread, NEW d \in Resource, Delivers(t, d) PROVE Good
  <2>1. /\ ToSet(pending[t]) = {d} \cup ToSet(pending'[t]) /\ pc' = pc
        /\ \A u \in Thread \ {t} : pending'[u] = pending[u]
        /\ UNCHANGED <<used, teb, listed, void>>
        /\ r # d /\ r \notin idle /\ r \notin fresh
    BY <1>9 DEF Delivers
  <2>2. PICK u \in Thread : Has(u)
    BY <1>h, <2>1
  <2> QED
    BY <2>1, <2>2
<1>10. ASSUME NEW t \in Thread, Quiet(t) PROVE Good
  <2>1. /\ UNCHANGED <<idle, fresh, used, listed, pending, void>>
        /\ \A u \in Thread \ {t} : pc'[u] = pc[u] /\ teb'[u] = teb[u]
        /\ pc[t] \notin {"list", "put", "teb"}
    BY <1>10, QuietKeeps
  <2>2. PICK u \in Thread : Has(u)
    BY <1>h, <2>1
  <2> QED
    BY <2>1, <2>2
<1>11. ASSUME UNCHANGED vars PROVE Good
  BY <1>h, <1>11 DEF vars
<1> HIDE DEF Good
<1>13. Good
  BY <1>1, <1>2, <1>3, <1>4, <1>5, <1>6, <1>7, <1>8, <1>9, <1>10, <1>11, <1>12,
     StepEffects
<1> QED
  BY <1>13 DEF Good

-----------------------------------------------------------------------------
(* The theorems                                                            *)

LEMMA InitIInv == Init => IInv
<1> SUFFICES ASSUME Init PROVE IInv
  OBVIOUS
<1> USE DEF Init
<1>1. \A t \in Thread : /\ used[t] = <<>> /\ listed[t] = <<>> /\ pending[t] = <<>>
                        /\ pc[t] = "off" /\ teb[t] = None
  OBVIOUS
<1>2. TypeOK
  BY TypeInit
<1>3. Shape
  BY <1>1 DEF Shape
<1>4. FreshUnused
  BY <1>1, ToSetEmpty, Kinds DEF FreshUnused
<1>5. Exclusive
  BY <1>1 DEF Exclusive
<1>6. ListedByHolder /\ ListedOnce /\ UsedListed /\ DeliveryPhase
  BY <1>1, ToSetEmpty DEF ListedByHolder, ListedOnce, UsedListed, DeliveryPhase
<1>7. TebListed /\ TebUnlisted
  BY <1>1, Kinds DEF TebListed, TebUnlisted, Alive
<1>8. \A s \in Stack : dll[s] = None
  OBVIOUS
<1>9. PairListed /\ PairVoid
  BY <1>8, Kinds DEF PairListed, PairVoid, Intact
<1>10. StackFirst
  BY <1>1, <1>8, Kinds DEF StackFirst, Intact
<1>11. OneStackPerEngine
  BY <1>8, Kinds DEF OneStackPerEngine
<1>12. Recoverable
  BY Kinds DEF Recoverable, Intact
<1> QED
  BY <1>2, <1>3, <1>4, <1>5, <1>6, <1>7, <1>9, <1>10, <1>11, <1>12 DEF IInv

\* Engines, stacks, CPUs, TEBs and exit lists agree in every reachable state, whatever
\* threads do and however their activations and they themselves end.
THEOREM StacksInvariant == Spec => []IInv
<1>1. Init => IInv
  BY InitIInv
<1>2. IInv /\ [Next]_vars => IInv'
  BY TypeNext, ShapeNext, FreshUnusedNext, ExclusiveNext, ListedByHolderNext,
     ListedOnceNext, UsedListedNext, DeliveryPhaseNext, TebListedNext, TebUnlistedNext,
     PairListedNext, PairVoidNext, StackFirstNext, OneStackPerEngineNext, RecoverableNext DEF IInv
<1> QED
  BY <1>1, <1>2, PTL DEF Spec

\* No step puts a value outside its type into a variable; in particular no TEB gets
\* into a StackList or the CpuList and no stack is freed as a TEB.
THEOREM StacksTypeCorrect == Spec => []TypeOK
BY StacksInvariant, PTL DEF IInv

\* EmuExecute never runs two activations on one stack or one Bochs CPU.
THEOREM StackExclusive == Spec => []Exclusive
BY StacksInvariant, PTL DEF IInv

\* What CbNotifyThreadExit gives back, nobody else runs on, has registered or can take.
THEOREM ExitReturnsOwn == Spec => []ListedByHolder
BY StacksInvariant, PTL DEF IInv

\* Every stack, CPU, TEB and engine that is in use has an entry in store that will give
\* it back.
THEOREM NothingLeaks == Spec => []Recoverable
BY StacksInvariant, PTL DEF IInv

\* However activations end, a DOSBox engine is content with the first stack its dll
\* allocated: the caches of stacks are bounded by the number of engines.
THEOREM OneStack == Spec => []OneStackPerEngine
BY StacksInvariant, PTL DEF IInv

\* A thread that can run emulated code has its TEB, for itself.
THEOREM TebLives == Spec => []TebAlive
<1>1. IInv => TebAlive
  <2> SUFFICES ASSUME IInv, NEW t \in Alive, NEW u \in Alive, teb[t] \in Intact
               PROVE  /\ teb[t] \notin fresh
                      /\ teb[t] = teb[u] => t = u
    BY DEF TebAlive
  <2>1. t \in Thread /\ u \in Thread /\ TebListed /\ TebUnlisted /\ ListedByHolder
    BY Parts DEF Alive
  <2>2. CASE pc[t] = "teb"
    BY <2>1, <2>2 DEF TebUnlisted
  <2>3. CASE pc[t] # "teb"
    <3>1. teb[t] \in ToSet(listed[t])
      BY <2>1, <2>3 DEF TebListed
    <3>2. CASE pc[u] = "teb"
      BY <2>1, <3>1, <3>2 DEF TebUnlisted, ListedByHolder
    <3>3. CASE pc[u] # "teb"
      <4>1. teb[t] = teb[u] => teb[t] \in ToSet(listed[u])
        BY <2>1, <3>3 DEF TebListed
      <4> QED
        BY <2>1, <3>1, <4>1 DEF ListedByHolder
    <3> QED
      BY <3>2, <3>3
  <2> QED
    BY <2>2, <2>3
<1> QED
  BY <1>1, StacksInvariant, PTL
=============================================================================
