---------------------------- MODULE ListTheorems ----------------------------
(***************************************************************************)
(* Lemmas about the sequences that stand for the lists and stacks of the   *)
(* emulator: what pushing, popping and cancelling does to their elements   *)
(* and to the number of times an element occurs.                           *)
(***************************************************************************)
EXTENDS Lists, SequenceTheorems, WellFoundedInduction, TLAPS

\* The elements of a sequence, by index.
LEMMA ToSetDef ==
    ASSUME NEW S, NEW s \in Seq(S)
    PROVE  /\ ToSet(s) \subseteq S
           /\ \A x : x \in ToSet(s) <=> \E k \in 1 .. Len(s) : s[k] = x
           /\ s = <<>> <=> Len(s) = 0
BY LenProperties, ElementOfSeq, EmptySeq DEF ToSet

\* The empty sequence has no element.
LEMMA ToSetEmpty == ToSet(<<>>) = {} /\ \A x : Once(<<>>, x)
BY DEF ToSet, Once

\* Every non-empty set of naturals has a least element.
LEMMA NatMin ==
    ASSUME NEW I \in SUBSET Nat, I # {}
    PROVE  /\ Min(I) \in I
           /\ \A k \in I : Min(I) <= k
<1> DEFINE R == {ss \in Nat \X Nat : ss[1] < ss[2]}
<1>0. IsWellFoundedOn(R, Nat)
  BY NatLessThanWellFounded DEF OpToRel
<1>1. PICK x \in I : \A y \in I : ~(<<y, x>> \in R)
  <2> HIDE DEF R
  <2> QED BY <1>0, WFMin
<1>2. \A y \in I : x =< y
  <2> TAKE y \in I
  <2>1. ~(y < x)
    BY <1>1
  <2> QED
    BY <2>1
<1> QED
  BY <1>2 DEF Min

\* RemoveAt closes the gap.
LEMMA RemoveAtIndex ==
    ASSUME NEW S, NEW s \in Seq(S), NEW j \in 1 .. Len(s)
    PROVE  /\ RemoveAt(s, j) \in Seq(S)
           /\ Len(RemoveAt(s, j)) = Len(s) - 1
           /\ \A k \in 1 .. Len(s) - 1 :
                 RemoveAt(s, j)[k] = IF k < j THEN s[k] ELSE s[k + 1]
<1> DEFINE a == SubSeq(s, 1, j - 1)
           b == SubSeq(s, j + 1, Len(s))
<1>0. Len(s) \in Nat
  BY LenProperties
<1>1. /\ a \in Seq(S)
      /\ Len(a) = j - 1
      /\ \A k \in 1 .. j - 1 : a[k] = s[k]
  <2>1. \A i \in 1 .. j - 1 : s[i] \in S
    BY <1>0, ElementOfSeq
  <2> QED
    BY <1>0, <2>1, SubSeqProperties
<1>2. /\ b \in Seq(S)
      /\ Len(b) = Len(s) - j
      /\ \A k \in 1 .. Len(s) - j : b[k] = s[j + k]
  <2>1. \A i \in j + 1 .. Len(s) : s[i] \in S
    BY <1>0, ElementOfSeq
  <2> QED
    BY <1>0, <2>1, SubSeqProperties
<1> HIDE DEF a, b
<1>3. /\ a \o b \in Seq(S)
      /\ Len(a \o b) = Len(s) - 1
      /\ \A k \in 1 .. Len(s) - 1 : (a \o b)[k] = IF k < j THEN a[k] ELSE b[k - (j - 1)]
  <2>1. /\ a \o b \in Seq(S)
        /\ Len(a \o b) = Len(a) + Len(b)
        /\ \A k \in 1 .. Len(a) + Len(b) :
              (a \o b)[k] = IF k <= Len(a) THEN a[k] ELSE b[k - Len(a)]
    BY <1>1, <1>2, ConcatProperties
  <2>2. Len(a) + Len(b) = Len(s) - 1
    BY <1>0, <1>1, <1>2
  <2>3. \A k \in 1 .. Len(s) - 1 : k <= Len(a) <=> k < j
    BY <1>0, <1>1
  <2> QED
    BY <1>1, <2>1, <2>2, <2>3
<1>4. \A k \in 1 .. Len(s) - 1 : (a \o b)[k] = IF k < j THEN s[k] ELSE s[k + 1]
  BY <1>0, <1>1, <1>2, <1>3
<1>5. RemoveAt(s, j) = a \o b
  BY DEF RemoveAt, a, b
<1> QED
  BY <1>3, <1>4, <1>5

\* Cancelling an entry removes one occurrence of it and nothing else.
LEMMA RemoveFirstIndex ==
    ASSUME NEW S, NEW s \in Seq(S), NEW e \in ToSet(s)
    PROVE  \E j \in 1 .. Len(s) : s[j] = e /\ RemoveFirst(s, e) = RemoveAt(s, j)
<1> DEFINE I == {i \in 1 .. Len(s) : s[i] = e}
           j == SelectInSeq(s, LAMBDA v : v = e)
<1>1. I \in SUBSET Nat /\ I # {}
  BY ToSetDef
<1>2. j = Min(I)
  BY <1>1 DEF SelectInSeq
<1>3. j \in I
  BY <1>1, <1>2, NatMin
<1>4. RemoveFirst(s, e) = RemoveAt(s, j)
  BY <1>1 DEF RemoveFirst
<1> QED
  BY <1>3, <1>4

\* What RemoveFirst keeps: the type, the other elements, and their multiplicity.
LEMMA RemoveFirstProperties ==
    ASSUME NEW S, NEW s \in Seq(S), NEW e
    PROVE  /\ RemoveFirst(s, e) \in Seq(S)
           /\ ToSet(RemoveFirst(s, e)) \subseteq ToSet(s)
           /\ ToSet(s) \ {e} \subseteq ToSet(RemoveFirst(s, e))
           /\ \A x : Once(s, x) => Once(RemoveFirst(s, e), x)
           /\ Once(s, e) => e \notin ToSet(RemoveFirst(s, e))
<1> DEFINE r == RemoveFirst(s, e)
<1>1. CASE e \notin ToSet(s)
  <2>1. r = s
    BY <1>1, ToSetDef DEF RemoveFirst
  <2> QED
    BY <1>1, <2>1
<1>2. CASE e \in ToSet(s)
  <2>1. PICK j \in 1 .. Len(s) : s[j] = e /\ r = RemoveAt(s, j)
    BY <1>2, RemoveFirstIndex
  <2>2. /\ r \in Seq(S)
        /\ Len(r) = Len(s) - 1
        /\ \A k \in 1 .. Len(s) - 1 : r[k] = IF k < j THEN s[k] ELSE s[k + 1]
    BY <2>1, RemoveAtIndex
  <2>3. /\ Len(s) \in Nat
        /\ DOMAIN s = 1 .. Len(s)
        /\ DOMAIN r = 1 .. Len(s) - 1
    BY <2>2, LenProperties
  <2> HIDE DEF r
  <2>4. ToSet(r) \subseteq ToSet(s)
    BY <2>2, <2>3 DEF ToSet
  <2>5. ToSet(s) \ {e} \subseteq ToSet(r)
    <3> SUFFICES ASSUME NEW k \in 1 .. Len(s), s[k] # e
                 PROVE  \E l \in 1 .. Len(s) - 1 : r[l] = s[k]
      BY <2>3 DEF ToSet
    <3>1. CASE k < j
      BY <2>1, <2>2, <2>3, <3>1
    <3>2. CASE k > j
      <4>1. k - 1 \in 1 .. Len(s) - 1 /\ r[k - 1] = s[k]
        BY <2>1, <2>2, <2>3, <3>2
      <4> QED
        BY <4>1
    <3> QED
      BY <2>1, <3>1, <3>2
  <2>6. ASSUME NEW x, Once(s, x)
        PROVE  Once(r, x)
    <3> SUFFICES ASSUME NEW k \in 1 .. Len(s) - 1, NEW l \in 1 .. Len(s) - 1,
                        r[k] = x, r[l] = x
                 PROVE  k = l
      BY <2>3 DEF Once
    <3> DEFINE Old(m) == IF m < j THEN m ELSE m + 1
    <3>1. /\ Old(k) \in DOMAIN s /\ s[Old(k)] = x
          /\ Old(l) \in DOMAIN s /\ s[Old(l)] = x
      BY <2>2, <2>3
    <3>2. Old(k) = Old(l)
      BY <2>6, <3>1 DEF Once
    <3> QED
      BY <2>3, <3>2
  <2>7. ASSUME Once(s, e)
        PROVE  e \notin ToSet(r)
    BY <2>1, <2>2, <2>3, <2>7 DEF Once, ToSet
  <2> QED
    BY <2>2, <2>4, <2>5, <2>6, <2>7 DEF r
<1> QED
  BY <1>1, <1>2

\* Adding at the head adds one occurrence.
LEMMA ConsProperties ==
    ASSUME NEW S, NEW s \in Seq(S), NEW e \in S
    PROVE  /\ Cons(e, s) \in Seq(S)
           /\ ToSet(Cons(e, s)) = {e} \cup ToSet(s)
           /\ \A x : Once(s, x) /\ (x = e => x \notin ToSet(s)) => Once(Cons(e, s), x)
<1> DEFINE r == Cons(e, s)
<1>1. /\ r \in Seq(S)
      /\ Len(r) = Len(s) + 1
      /\ r[1] = e
      /\ \A k \in 2 .. Len(s) + 1 : r[k] = s[k - 1]
  <2>1. /\ <<e>> \in Seq(S)
        /\ Len(<<e>>) = 1
        /\ <<e>>[1] = e
    OBVIOUS
  <2> QED
    BY <2>1, ConcatProperties, LenProperties DEF Cons
<1>2. /\ Len(s) \in Nat
      /\ DOMAIN s = 1 .. Len(s)
      /\ DOMAIN r = 1 .. Len(s) + 1
  BY <1>1, LenProperties
<1> HIDE DEF r
<1>3. ToSet(r) = {e} \cup ToSet(s)
  <2>1. ToSet(r) \subseteq {e} \cup ToSet(s)
    BY <1>1, <1>2 DEF ToSet
  <2>2. \A k \in 1 .. Len(s) : k + 1 \in 1 .. Len(s) + 1 /\ r[k + 1] = s[k]
    BY <1>1, <1>2
  <2>3. e \in ToSet(r)
    BY <1>1, <1>2 DEF ToSet
  <2>4. ToSet(s) \subseteq ToSet(r)
    BY <2>2, <1>2 DEF ToSet
  <2> QED
    BY <2>1, <2>3, <2>4
<1>4. ASSUME NEW x, Once(s, x), x = e => x \notin ToSet(s)
      PROVE  Once(r, x)
  <2> SUFFICES ASSUME NEW k \in 1 .. Len(s) + 1, NEW l \in 1 .. Len(s) + 1,
                      r[k] = x, r[l] = x
               PROVE  k = l
    BY <1>2 DEF Once
  <2>1. CASE k = 1 \/ l = 1
    <3>1. x = e /\ x \notin ToSet(s)
      BY <1>1, <1>4, <2>1
    <3>2. \A m \in 2 .. Len(s) + 1 : m - 1 \in DOMAIN s /\ r[m] = s[m - 1]
      BY <1>1, <1>2
    <3>3. \A m \in 2 .. Len(s) + 1 : r[m] # x
      BY <3>1, <3>2 DEF ToSet
    <3>4. k \notin 2 .. Len(s) + 1 /\ l \notin 2 .. Len(s) + 1
      BY <3>3
    <3> QED
      BY <1>2, <3>4
  <2>2. CASE k # 1 /\ l # 1
    <3>1. k - 1 \in DOMAIN s /\ l - 1 \in DOMAIN s /\ s[k - 1] = x /\ s[l - 1] = x
      BY <1>1, <1>2, <2>2
    <3>2. k - 1 = l - 1
      BY <1>4, <3>1 DEF Once
    <3> QED
      BY <3>2
  <2> QED
    BY <2>1, <2>2
<1> QED
  BY <1>1, <1>3, <1>4 DEF r

\* Taking the head away removes one occurrence of it.
LEMMA TailProperties ==
    ASSUME NEW S, NEW s \in Seq(S), s # <<>>
    PROVE  /\ Tail(s) \in Seq(S)
           /\ Head(s) \in ToSet(s)
           /\ ToSet(s) = {Head(s)} \cup ToSet(Tail(s))
           /\ \A x : Once(s, x) => Once(Tail(s), x)
           /\ Once(s, Head(s)) => Head(s) \notin ToSet(Tail(s))
<1> DEFINE r == Tail(s)
<1>1. /\ r \in Seq(S)
      /\ Len(r) = Len(s) - 1
      /\ \A k \in 1 .. Len(s) - 1 : r[k] = s[k + 1]
  BY HeadTailProperties
<1>2. /\ Len(s) \in Nat \ {0}
      /\ DOMAIN s = 1 .. Len(s)
      /\ DOMAIN r = 1 .. Len(s) - 1
      /\ Head(s) = s[1]
  BY <1>1, LenProperties, EmptySeq
<1> HIDE DEF r
<1>3. ToSet(s) = {s[1]} \cup ToSet(r)
  <2>1. \A k \in 2 .. Len(s) : k - 1 \in 1 .. Len(s) - 1 /\ r[k - 1] = s[k]
    BY <1>1, <1>2
  <2>2. ToSet(s) \subseteq {s[1]} \cup ToSet(r)
    <3> SUFFICES ASSUME NEW k \in 1 .. Len(s), k # 1
                 PROVE  s[k] \in ToSet(r)
      BY <1>2 DEF ToSet
    <3>1. k - 1 \in DOMAIN r /\ r[k - 1] = s[k]
      BY <1>2, <2>1
    <3> QED
      BY <3>1 DEF ToSet
  <2>3. ToSet(r) \subseteq ToSet(s)
    BY <1>1, <1>2 DEF ToSet
  <2>4. s[1] \in ToSet(s)
    BY <1>2 DEF ToSet
  <2> QED
    BY <2>2, <2>3, <2>4
<1>4. ASSUME NEW x, Once(s, x)
      PROVE  Once(r, x)
  <2> SUFFICES ASSUME NEW k \in 1 .. Len(s) - 1, NEW l \in 1 .. Len(s) - 1,
                      r[k] = x, r[l] = x
               PROVE  k = l
    BY <1>2 DEF Once
  <2>1. k + 1 \in DOMAIN s /\ l + 1 \in DOMAIN s /\ s[k + 1] = x /\ s[l + 1] = x
    BY <1>1, <1>2
  <2>2. k + 1 = l + 1
    BY <1>4, <2>1 DEF Once
  <2> QED
    BY <2>2
<1>5. ASSUME Once(s, s[1])
      PROVE  s[1] \notin ToSet(r)
  <2> SUFFICES ASSUME NEW k \in 1 .. Len(s) - 1, r[k] = s[1]
               PROVE  FALSE
    BY <1>2 DEF ToSet
  <2>1. k + 1 \in DOMAIN s /\ s[k + 1] = s[1] /\ 1 \in DOMAIN s
    BY <1>1, <1>2
  <2>2. k + 1 = 1
    BY <1>5, <2>1 DEF Once
  <2> QED
    BY <2>2
<1> QED
  BY <1>1, <1>2, <1>3, <1>4, <1>5 DEF r, ToSet

\* A stack that grows by e.
LEMMA AppendElements ==
    ASSUME NEW S, NEW s \in Seq(S), NEW e \in S
    PROVE  /\ Append(s, e) \in Seq(S)
           /\ Append(s, e) # <<>>
           /\ Last(Append(s, e)) = e
           /\ ToSet(Append(s, e)) = {e} \cup ToSet(s)
           /\ \A x : Once(s, x) /\ (x = e => x \notin ToSet(s)) => Once(Append(s, e), x)
<1> DEFINE r == Append(s, e)
<1>1. /\ r \in Seq(S)
      /\ r # <<>>
      /\ Len(r) = Len(s) + 1
      /\ r[Len(s) + 1] = e
      /\ \A k \in 1 .. Len(s) : r[k] = s[k]
  BY AppendProperties
<1>2. /\ Len(s) \in Nat
      /\ DOMAIN s = 1 .. Len(s)
      /\ DOMAIN r = 1 .. Len(s) + 1
  BY <1>1, LenProperties
<1> HIDE DEF r
<1>3. Last(r) = e
  BY <1>1 DEF Last
<1>4. ToSet(r) = {e} \cup ToSet(s)
  <2>1. \A k \in 1 .. Len(s) + 1 : k = Len(s) + 1 \/ k \in 1 .. Len(s)
    BY <1>2
  <2>2. ToSet(r) \subseteq {e} \cup ToSet(s)
    BY <1>1, <1>2, <2>1 DEF ToSet
  <2>3. e \in ToSet(r)
    BY <1>1, <1>2 DEF ToSet
  <2>4. ToSet(s) \subseteq ToSet(r)
    BY <1>1, <1>2 DEF ToSet
  <2> QED
    BY <2>2, <2>3, <2>4
<1>5. ASSUME NEW x, Once(s, x), x = e => x \notin ToSet(s)
      PROVE  Once(r, x)
  BY <1>1, <1>2, <1>5 DEF Once, ToSet
<1> QED
  BY <1>1, <1>3, <1>4, <1>5 DEF r

\* Front keeps all but the last element.
LEMMA FrontIndex ==
    ASSUME NEW S, NEW s \in Seq(S), s # <<>>
    PROVE  /\ Front(s) \in Seq(S)
           /\ Len(Front(s)) = Len(s) - 1
           /\ DOMAIN Front(s) = 1 .. Len(s) - 1
           /\ \A k \in 1 .. Len(s) - 1 : Front(s)[k] = s[k]
<1>0. Len(s) \in Nat \ {0}
  BY EmptySeq
<1>1. \A k \in 1 .. Len(s) - 1 : s[k] \in S
  BY <1>0, ElementOfSeq
<1>2. PICK n \in Nat : n = Len(s) - 1
  BY <1>0
<1>3. /\ SubSeq(s, 1, n) \in Seq(S)
      /\ Len(SubSeq(s, 1, n)) = IF 1 <= n THEN n - 1 + 1 ELSE 0
      /\ \A k \in 1 .. n - 1 + 1 : SubSeq(s, 1, n)[k] = s[1 + k - 1]
  BY <1>1, <1>2, SubSeqProperties
<1>4. \A k \in 1 .. n : k \in 1 .. n - 1 + 1 /\ 1 + k - 1 = k
  OBVIOUS
<1>5. Len(SubSeq(s, 1, n)) = n /\ \A k \in 1 .. n : SubSeq(s, 1, n)[k] = s[k]
  BY <1>3, <1>4
<1> QED
  BY <1>2, <1>3, <1>5 DEF Front

\* A stack that loses its top.
LEMMA FrontElements ==
    ASSUME NEW S, NEW s \in Seq(S), s # <<>>
    PROVE  /\ Front(s) \in Seq(S)
           /\ Last(s) \in S
           /\ Last(s) \in ToSet(s)
           /\ ToSet(s) = {Last(s)} \cup ToSet(Front(s))
           /\ \A x : Once(s, x) => Once(Front(s), x)
           /\ Once(s, Last(s)) => Last(s) \notin ToSet(Front(s))
<1> DEFINE r == Front(s)
<1>1. Len(s) \in Nat \ {0}
  BY EmptySeq
<1>2. /\ r \in Seq(S)
      /\ Len(r) = Len(s) - 1
      /\ \A k \in 1 .. Len(s) - 1 : r[k] = s[k]
  BY FrontIndex
<1>3. /\ DOMAIN s = 1 .. Len(s)
      /\ DOMAIN r = 1 .. Len(s) - 1
      /\ Last(s) = s[Len(s)]
  BY <1>2, LenProperties DEF Last
<1>4. Last(s) \in S
  BY <1>1, <1>3, ElementOfSeq
<1> HIDE DEF r
<1>5. ToSet(s) = {s[Len(s)]} \cup ToSet(r)
  <2>1. \A k \in 1 .. Len(s) : k = Len(s) \/ k \in 1 .. Len(s) - 1
    BY <1>1
  <2>2. ToSet(s) \subseteq {s[Len(s)]} \cup ToSet(r)
    BY <1>2, <1>3, <2>1 DEF ToSet
  <2>3. s[Len(s)] \in ToSet(s)
    BY <1>1, <1>3 DEF ToSet
  <2>4. ToSet(r) \subseteq ToSet(s)
    BY <1>1, <1>2, <1>3 DEF ToSet
  <2> QED
    BY <2>2, <2>3, <2>4
<1>6. ASSUME NEW x, Once(s, x)
      PROVE  Once(r, x)
  BY <1>1, <1>2, <1>3, <1>6 DEF Once
<1>7. ASSUME Once(s, s[Len(s)])
      PROVE  s[Len(s)] \notin ToSet(r)
  <2> SUFFICES ASSUME NEW k \in 1 .. Len(s) - 1, r[k] = s[Len(s)]
               PROVE  FALSE
    BY <1>3 DEF ToSet
  <2>1. k \in DOMAIN s /\ Len(s) \in DOMAIN s /\ s[k] = s[Len(s)]
    BY <1>1, <1>2, <1>3
  <2>2. k = Len(s)
    BY <1>7, <2>1 DEF Once
  <2> QED
    BY <1>1, <2>2
<1> QED
  BY <1>2, <1>3, <1>4, <1>5, <1>6, <1>7 DEF r, ToSet

\* Where elements are on a stack that grows, loses its top, or is dropped.
LEMMA PositionsProperties ==
    ASSUME NEW S, NEW s \in Seq(S)
    PROVE  /\ \A x : Positions(s, x) # {} <=> x \in ToSet(s)
           /\ \A x : Positions(<<>>, x) = {}
           /\ \A e \in S : \A x :
                 Positions(Append(s, e), x) =
                     Positions(s, x) \cup (IF x = e THEN {Len(s) + 1} ELSE {})
           /\ s # <<>> =>
                 /\ \A x : x # Last(s) => Positions(Front(s), x) = Positions(s, x)
                 /\ Once(s, Last(s)) => Positions(Front(s), Last(s)) = {}
<1>1. \A x : Positions(s, x) # {} <=> x \in ToSet(s)
  BY DEF Positions, ToSet
<1>2. \A x : Positions(<<>>, x) = {}
  BY DEF Positions
<1>3. ASSUME NEW e \in S, NEW x
      PROVE  Positions(Append(s, e), x) =
                 Positions(s, x) \cup (IF x = e THEN {Len(s) + 1} ELSE {})
  <2> DEFINE r == Append(s, e)
  <2>1. /\ DOMAIN s = 1 .. Len(s)
        /\ DOMAIN r = 1 .. Len(s) + 1
        /\ Len(s) \in Nat
        /\ r[Len(s) + 1] = e
        /\ \A k \in 1 .. Len(s) : r[k] = s[k]
    BY AppendProperties, LenProperties
  <2> HIDE DEF r
  <2>2. \A k \in 1 .. Len(s) + 1 : k = Len(s) + 1 \/ k \in 1 .. Len(s)
    BY <2>1
  <2> QED
    BY <2>1, <2>2 DEF Positions, r
<1>4. ASSUME s # <<>>
      PROVE  /\ \A x : x # Last(s) => Positions(Front(s), x) = Positions(s, x)
             /\ Once(s, Last(s)) => Positions(Front(s), Last(s)) = {}
  <2> DEFINE r == Front(s)
  <2>1. /\ Len(s) \in Nat \ {0}
        /\ Last(s) = s[Len(s)]
        /\ DOMAIN s = 1 .. Len(s)
    BY <1>4, EmptySeq, LenProperties DEF Last
  <2>2. /\ DOMAIN r = 1 .. Len(s) - 1
        /\ \A k \in 1 .. Len(s) - 1 : r[k] = s[k]
    BY <1>4, FrontIndex
  <2>3. Once(s, Last(s)) => Last(s) \notin ToSet(r)
    BY <1>4, FrontElements
  <2> HIDE DEF r
  <2>4. \A k \in 1 .. Len(s) : k = Len(s) \/ k \in 1 .. Len(s) - 1
    <3>1. Len(s) \in Nat \ {0}
      BY <2>1
    <3> QED
      BY <3>1
  <2>5. ASSUME NEW x, x # Last(s)
        PROVE  Positions(r, x) = Positions(s, x)
    <3>1. Positions(r, x) \subseteq Positions(s, x)
      BY <2>1, <2>2 DEF Positions
    <3>2. Positions(s, x) \subseteq Positions(r, x)
      <4> SUFFICES ASSUME NEW k \in 1 .. Len(s), s[k] = x
                   PROVE  k \in 1 .. Len(s) - 1 /\ r[k] = x
        BY <2>1, <2>2 DEF Positions
      <4>1. k # Len(s)
        BY <2>1, <2>5
      <4>2. k \in 1 .. Len(s) - 1
        BY <2>4, <4>1
      <4> QED
        BY <2>2, <4>2
    <3> QED
      BY <3>1, <3>2
  <2>6. Once(s, Last(s)) => Positions(r, Last(s)) = {}
    BY <2>3 DEF Positions, ToSet
  <2> QED
    BY <2>5, <2>6 DEF r
<1> QED
  BY <1>1, <1>2, <1>3, <1>4
=============================================================================
