--------------------------- MODULE SequenceLemmas ---------------------------
(***************************************************************************)
(* Facts about sequences, for the proofs: above all those without          *)
(* repetitions (IsInjective) and the set of their elements, for queues,    *)
(* lists and directory listings.                                           *)
(***************************************************************************)
EXTENDS Integers, Sequences, FiniteSets, SequencesExt, TLAPS, FiniteSetTheorems, SequenceTheorems,
        WellFoundedInduction

LEMMA ToSetAppend ==
  ASSUME NEW S, NEW s \in Seq(S), NEW e \in S
  PROVE  /\ Append(s, e) \in Seq(S)
         /\ ToSet(Append(s, e)) = ToSet(s) \cup {e}
         /\ IsInjective(s) /\ e \notin ToSet(s) => IsInjective(Append(s, e))
<1> DEFINE t == Append(s, e)
<1>1. /\ t \in Seq(S) /\ Len(t) = Len(s) + 1 /\ Len(s) \in Nat
      /\ t[Len(s) + 1] = e /\ \A i \in 1..Len(s) : t[i] = s[i]
      /\ DOMAIN t = 1..(Len(s) + 1) /\ DOMAIN s = 1..Len(s)
  OBVIOUS
<1> HIDE DEF t
<1>2. ToSet(t) = ToSet(s) \cup {e}
  BY <1>1 DEF ToSet
<1>3. IsInjective(s) /\ e \notin ToSet(s) => IsInjective(t)
  BY <1>1 DEF ToSet, IsInjective
<1> QED  BY <1>1, <1>2, <1>3 DEF t

LEMMA ToSetTail ==
  ASSUME NEW S, NEW s \in Seq(S), s # <<>>
  PROVE  /\ Tail(s) \in Seq(S) /\ Head(s) \in S /\ Head(s) \in ToSet(s)
         /\ ToSet(s) = ToSet(Tail(s)) \cup {Head(s)}
         /\ IsInjective(s) => IsInjective(Tail(s)) /\ Head(s) \notin ToSet(Tail(s))
<1> DEFINE t == Tail(s)
           h == Head(s)
<1>1. /\ t \in Seq(S) /\ Len(s) = Len(t) + 1 /\ Len(t) \in Nat
      /\ h = s[1] /\ h \in S /\ \A i \in 1..Len(t) : t[i] = s[i + 1]
      /\ DOMAIN t = 1..Len(t) /\ DOMAIN s = 1..(Len(t) + 1)
  OBVIOUS
<1> HIDE DEF t, h
<1>2. /\ ToSet(s) \subseteq ToSet(t) \cup {h}
      /\ ToSet(t) \cup {h} \subseteq ToSet(s)
  <2>1. ASSUME NEW i \in DOMAIN s  PROVE s[i] \in ToSet(t) \cup {h}
    <3>1. CASE i = 1
      BY <3>1, <1>1
    <3>2. CASE i # 1
      <4>1. i - 1 \in 1..Len(t) /\ t[i - 1] = s[i]
        BY <3>2, <1>1
      <4> QED  BY <4>1, <1>1 DEF ToSet
    <3> QED  BY <3>1, <3>2
  <2>2. ASSUME NEW i \in DOMAIN t  PROVE t[i] \in ToSet(s)
    <3>1. i + 1 \in DOMAIN s /\ t[i] = s[i + 1]
      BY <1>1
    <3> QED  BY <3>1 DEF ToSet
  <2>3. h \in ToSet(s)
    BY <1>1 DEF ToSet
  <2> QED  BY <2>1, <2>2, <2>3 DEF ToSet
<1>3. ASSUME IsInjective(s)  PROVE IsInjective(t) /\ h \notin ToSet(t)
  <2>1. \A i \in 1..Len(t) : i + 1 \in DOMAIN s /\ 1 \in DOMAIN s /\ i + 1 # 1
    BY <1>1
  <2>2. \A i, j \in 1..Len(t) : i + 1 = j + 1 => i = j
    BY <1>1
  <2>3. IsInjective(t)
    BY <1>1, <1>3, <2>1, <2>2 DEF IsInjective
  <2>4. h \notin ToSet(t)
    BY <1>1, <1>3, <2>1 DEF IsInjective, ToSet
  <2> QED  BY <2>3, <2>4
<1> QED  BY <1>1, <1>2, <1>3 DEF t, h

LEMMA ToSetConcat ==
  ASSUME NEW S, NEW s \in Seq(S), NEW t \in Seq(S)
  PROVE  /\ s \o t \in Seq(S)
         /\ ToSet(s \o t) = ToSet(s) \cup ToSet(t)
         /\ IsInjective(s) /\ IsInjective(t) /\ ToSet(s) \cap ToSet(t) = {} => IsInjective(s \o t)
<1> DEFINE c == s \o t
<1>1. /\ c \in Seq(S) /\ Len(s) \in Nat /\ Len(t) \in Nat
      /\ DOMAIN c = 1..(Len(s) + Len(t)) /\ DOMAIN s = 1..Len(s) /\ DOMAIN t = 1..Len(t)
      /\ \A i \in 1..Len(s) : c[i] = s[i]
      /\ \A i \in Len(s) + 1..Len(s) + Len(t) : c[i] = t[i - Len(s)]
  <2>1. /\ c \in Seq(S) /\ Len(c) = Len(s) + Len(t)
        /\ \A i \in 1..Len(s) + Len(t) : c[i] = IF i <= Len(s) THEN s[i] ELSE t[i - Len(s)]
    BY ConcatProperties
  <2>2. Len(s) \in Nat /\ Len(t) \in Nat /\ DOMAIN s = 1..Len(s) /\ DOMAIN t = 1..Len(t)
    OBVIOUS
  <2> HIDE DEF c
  <2>3. DOMAIN c = 1..(Len(s) + Len(t))
    BY <2>1
  <2>4. ASSUME NEW i \in 1..Len(s) PROVE c[i] = s[i]
    BY <2>1, <2>2
  <2>5. ASSUME NEW i \in Len(s) + 1..Len(s) + Len(t) PROVE c[i] = t[i - Len(s)]
    <3>1. i \in 1..Len(s) + Len(t) /\ ~(i <= Len(s))
      BY <2>2
    <3> QED  BY <3>1, <2>1
  <2> QED  BY <2>1, <2>2, <2>3, <2>4, <2>5
<1> HIDE DEF c
<1>2. \A j \in 1..Len(t) : Len(s) + j \in DOMAIN c /\ c[Len(s) + j] = t[j]
  BY <1>1, SMTT(20)
<1>3. ASSUME NEW k \in DOMAIN c
      PROVE  \/ k \in DOMAIN s /\ c[k] = s[k]
             \/ /\ k - Len(s) \in DOMAIN t /\ c[k] = t[k - Len(s)]
                /\ k = Len(s) + (k - Len(s))
  <2>1. CASE k <= Len(s)
    BY <2>1, <1>1
  <2>2. CASE k > Len(s)
    <3>1. /\ k \in Len(s) + 1..Len(s) + Len(t) /\ k - Len(s) \in 1..Len(t)
          /\ k = Len(s) + (k - Len(s))
      BY <2>2, <1>1
    <3> QED  BY <3>1, <1>1
  <2> QED  BY <2>1, <2>2, <1>1
<1>4. /\ ToSet(c) \subseteq ToSet(s) \cup ToSet(t)
      /\ ToSet(s) \cup ToSet(t) \subseteq ToSet(c)
  <2>1. ToSet(c) \subseteq ToSet(s) \cup ToSet(t)
    BY <1>3 DEF ToSet
  <2>2. \A k \in DOMAIN s : k \in DOMAIN c /\ c[k] = s[k]
    BY <1>1
  <2>3. ToSet(s) \cup ToSet(t) \subseteq ToSet(c)
    BY <1>1, <1>2, <2>2, SMTT(20) DEF ToSet
  <2> QED  BY <2>1, <2>3
<1>5. ASSUME IsInjective(s), IsInjective(t), ToSet(s) \cap ToSet(t) = {}
      PROVE  IsInjective(c)
  <2>1. \A i \in DOMAIN s, j \in DOMAIN t : s[i] # t[j]
    BY <1>5 DEF ToSet
  <2> SUFFICES ASSUME NEW i \in DOMAIN c, NEW j \in DOMAIN c, c[i] = c[j]
               PROVE  i = j
    BY DEF IsInjective
  <2>2. CASE i \in DOMAIN s /\ j \in DOMAIN s
    BY <2>2, <1>1, <1>5 DEF IsInjective
  <2>3. CASE i \notin DOMAIN s /\ j \notin DOMAIN s
    <3>1. i - Len(s) = j - Len(s)
      BY <2>3, <1>3, <1>5 DEF IsInjective
    <3> QED  BY <3>1, <1>1
  <2>4. CASE ~(i \in DOMAIN s <=> j \in DOMAIN s)
    BY <2>4, <2>1, <1>1, <1>3
  <2> QED  BY <2>2, <2>3, <2>4
<1> QED  BY <1>1, <1>4, <1>5 DEF c

LEMMA ConcatFacts ==
  ASSUME NEW S, NEW s \in Seq(S), NEW t \in Seq(S)
  PROVE  /\ s \o t \in Seq(S) /\ Len(s \o t) = Len(s) + Len(t)
         /\ \A i \in 1..Len(s) : (s \o t)[i] = s[i]
         /\ \A i \in 1..Len(t) : (s \o t)[Len(s) + i] = t[i]
<1>1. Len(s) \in Nat /\ Len(t) \in Nat
  OBVIOUS
<1>2. /\ s \o t \in Seq(S) /\ Len(s \o t) = Len(s) + Len(t)
      /\ \A i \in 1..Len(s) + Len(t) : (s \o t)[i] = IF i <= Len(s) THEN s[i] ELSE t[i - Len(s)]
  BY ConcatProperties
<1> QED  BY <1>1, <1>2

\* x comes before y.
InOrder(s, x, y) == \E i, j \in DOMAIN s : i < j /\ s[i] = x /\ s[j] = y

LEMMA OrderAppended ==
  ASSUME NEW S, NEW s \in Seq(S), NEW e \in S, NEW x, NEW y
  PROVE  /\ InOrder(s, x, y) => InOrder(Append(s, e), x, y)
         /\ x \in ToSet(s) => InOrder(Append(s, e), x, e)
<1> DEFINE t == Append(s, e)
<1>1. /\ Len(s) \in Nat /\ DOMAIN s = 1..Len(s) /\ DOMAIN t = 1..(Len(s) + 1)
      /\ t[Len(s) + 1] = e /\ \A i \in 1..Len(s) : t[i] = s[i]
  OBVIOUS
<1> HIDE DEF t
<1>2. InOrder(s, x, y) => InOrder(t, x, y)
  BY <1>1 DEF InOrder
<1>3. ASSUME x \in ToSet(s)  PROVE InOrder(t, x, e)
  <2>1. PICK i \in DOMAIN s : s[i] = x
    BY <1>3 DEF ToSet
  <2>2. i \in DOMAIN t /\ Len(s) + 1 \in DOMAIN t /\ i < Len(s) + 1
    BY <1>1
  <2> QED  BY <1>1, <2>1, <2>2 DEF InOrder
<1> QED  BY <1>2, <1>3 DEF t

LEMMA OrderInTail ==
  ASSUME NEW S, NEW s \in Seq(S), s # <<>>, NEW x, NEW y, InOrder(s, x, y)
  PROVE  x = Head(s) \/ InOrder(Tail(s), x, y)
<1> DEFINE t == Tail(s)
<1>1. /\ Len(s) \in Nat /\ DOMAIN s = 1..Len(s) /\ DOMAIN t = 1..(Len(s) - 1)
      /\ Head(s) = s[1] /\ \A i \in 1..(Len(s) - 1) : t[i] = s[i + 1]
  OBVIOUS
<1> HIDE DEF t
<1>2. PICK i \in DOMAIN s, j \in DOMAIN s : i < j /\ s[i] = x /\ s[j] = y
  BY DEF InOrder
<1>3. CASE i # 1
  <2>1. /\ i - 1 \in DOMAIN t /\ j - 1 \in DOMAIN t /\ i - 1 < j - 1
        /\ t[i - 1] = s[i] /\ t[j - 1] = s[j]
    BY <1>1, <1>2, <1>3
  <2> QED  BY <1>2, <2>1 DEF InOrder, t
<1> QED  BY <1>1, <1>2, <1>3

LEMMA OrderInConcat ==
  ASSUME NEW S, NEW s \in Seq(S), NEW t \in Seq(S), NEW x, NEW y
  PROVE  /\ InOrder(t, x, y) => InOrder(s \o t, x, y)
         /\ x \in ToSet(s) /\ y \in ToSet(t) => InOrder(s \o t, x, y)
<1> DEFINE c == s \o t
<1>1. /\ Len(s) \in Nat /\ Len(t) \in Nat /\ DOMAIN c = 1..(Len(s) + Len(t))
      /\ DOMAIN s = 1..Len(s) /\ DOMAIN t = 1..Len(t)
      /\ \A i \in 1..Len(s) : c[i] = s[i]
      /\ \A i \in 1..Len(t) : c[Len(s) + i] = t[i]
  <2>1. /\ c \in Seq(S) /\ Len(c) = Len(s) + Len(t)
        /\ \A i \in 1..Len(s) : c[i] = s[i]
        /\ \A i \in 1..Len(t) : c[Len(s) + i] = t[i]
    BY ConcatFacts
  <2>2. Len(s) \in Nat /\ Len(t) \in Nat /\ DOMAIN s = 1..Len(s) /\ DOMAIN t = 1..Len(t)
    OBVIOUS
  <2> HIDE DEF c
  <2> QED  BY <2>1, <2>2
<1> HIDE DEF c
<1>2. ASSUME InOrder(t, x, y)  PROVE InOrder(c, x, y)
  <2>1. PICK i \in DOMAIN t, j \in DOMAIN t : i < j /\ t[i] = x /\ t[j] = y
    BY <1>2 DEF InOrder
  <2>2. /\ Len(s) + i \in DOMAIN c /\ Len(s) + j \in DOMAIN c /\ Len(s) + i < Len(s) + j
        /\ c[Len(s) + i] = t[i] /\ c[Len(s) + j] = t[j]
    BY <1>1, <2>1
  <2> QED  BY <2>1, <2>2 DEF InOrder
<1>3. ASSUME x \in ToSet(s), y \in ToSet(t)  PROVE InOrder(c, x, y)
  <2>1. PICK i \in DOMAIN s, j \in DOMAIN t : s[i] = x /\ t[j] = y
    BY <1>3 DEF ToSet
  <2>2. /\ i \in DOMAIN c /\ Len(s) + j \in DOMAIN c /\ i < Len(s) + j
        /\ c[i] = s[i] /\ c[Len(s) + j] = t[j]
    BY <1>1, <2>1
  <2> QED  BY <2>1, <2>2 DEF InOrder
<1> QED  BY <1>2, <1>3 DEF c

\* Without repetitions, what is last has nothing after it.
LEMMA LastIsLast ==
  ASSUME NEW S, NEW s \in Seq(S), IsInjective(s), NEW x, NEW y, InOrder(s, x, y)
  PROVE  Last(s) # x
<1>1. PICK i \in DOMAIN s, j \in DOMAIN s : i < j /\ s[i] = x /\ s[j] = y
  BY DEF InOrder
<1>2. Len(s) \in DOMAIN s /\ i # Len(s)
  BY <1>1
<1> QED  BY <1>1, <1>2 DEF Last, IsInjective

LEMMA ToSetRemoveFirst ==
  ASSUME NEW S, NEW s \in Seq(S), NEW e, IsInjective(s)
  PROVE  /\ RemoveFirst(s, e) \in Seq(S)
         /\ ToSet(RemoveFirst(s, e)) = ToSet(s) \ {e}
         /\ IsInjective(RemoveFirst(s, e))
         /\ \A x, y : x # e /\ y # e /\ InOrder(s, x, y) => InOrder(RemoveFirst(s, e), x, y)
<1>1. CASE \E i \in 1..Len(s) : s[i] = e
  <2>1. PICK k \in 1..Len(s) : s[k] = e
    BY <1>1
  <2>2. {i \in 1..Len(s) : s[i] = e} = {k}
    BY <2>1 DEF IsInjective
  <2>3. Min({k}) = k
    BY <2>1 DEF Min
  <2>4. SelectInSeq(s, LAMBDA v : v = e) = k
    BY <2>2, <2>3, Zenon DEF SelectInSeq
  <2>5. RemoveFirst(s, e) = SubSeq(s, 1, k - 1) \o SubSeq(s, k + 1, Len(s))
    BY <1>1, <2>4, Zenon DEF RemoveFirst, RemoveAt
  <2> DEFINE t == SubSeq(s, 1, k - 1) \o SubSeq(s, k + 1, Len(s))
  <2>6. /\ t \in Seq(S) /\ Len(t) = Len(s) - 1 /\ Len(s) \in Nat
        /\ DOMAIN t = 1..(Len(s) - 1) /\ DOMAIN s = 1..Len(s)
        /\ \A i \in 1..(Len(s) - 1) : t[i] = IF i < k THEN s[i] ELSE s[i + 1]
    <3> DEFINE a == SubSeq(s, 1, k - 1)
               b == SubSeq(s, k + 1, Len(s))
    <3>1. /\ a \in Seq(S) /\ Len(a) = k - 1 /\ k \in Int /\ Len(s) \in Nat
          /\ \A i \in 1..(k - 1) : a[i] = s[i]
      BY <2>1
    <3>2. /\ b \in Seq(S) /\ Len(b) = Len(s) - k
          /\ \A i \in 1..(Len(s) - k) : b[i] = s[k + i]
      BY <2>1
    <3> HIDE DEF a, b
    <3>3. /\ a \o b \in Seq(S) /\ Len(a \o b) = Len(s) - 1
          /\ \A i \in 1..(Len(s) - 1) : (a \o b)[i] = IF i < k THEN a[i] ELSE b[i - k + 1]
      <4>1. Len(a) + Len(b) = Len(s) - 1
        BY <3>1, <3>2
      <4>2. /\ a \o b \in Seq(S) /\ Len(a \o b) = Len(a) + Len(b)
            /\ \A i \in 1..(Len(a) + Len(b)) :
                 (a \o b)[i] = IF i <= Len(a) THEN a[i] ELSE b[i - Len(a)]
        BY <3>1, <3>2, ConcatProperties
      <4>3. \A i \in 1..(Len(s) - 1) : (i <= k - 1 <=> i < k) /\ i - (k - 1) = i - k + 1
        BY <3>1
      <4> QED  BY <4>1, <4>2, <4>3, <3>1
    <3>4. \A i \in 1..(Len(s) - 1) : (a \o b)[i] = IF i < k THEN s[i] ELSE s[i + 1]
      <4> SUFFICES ASSUME NEW i \in 1..(Len(s) - 1)
                   PROVE  (a \o b)[i] = IF i < k THEN s[i] ELSE s[i + 1]
        OBVIOUS
      <4>1. CASE i < k
        BY <4>1, <3>1, <3>3, <2>1
      <4>2. CASE ~(i < k)
        <5>1. i - k + 1 \in 1..(Len(s) - k) /\ k + (i - k + 1) = i + 1
          BY <4>2, <3>1, <2>1
        <5>2. b[i - k + 1] = s[i + 1]
          BY <5>1, <3>2
        <5> QED  BY <5>2, <4>2, <3>3
      <4> QED  BY <4>1, <4>2
    <3>5. DOMAIN (a \o b) = 1..(Len(s) - 1) /\ DOMAIN s = 1..Len(s)
      BY <3>3, <3>1
    <3> QED  BY <3>1, <3>3, <3>4, <3>5 DEF a, b
  <2> HIDE DEF t
  <2>7. ToSet(t) = ToSet(s) \ {e}
    <3>1. ASSUME NEW i \in DOMAIN t  PROVE t[i] \in ToSet(s) \ {e}
      <4>1. PICK j \in DOMAIN s : j # k /\ t[i] = s[j]
        <5>1. CASE i < k
          BY <5>1, <2>1, <2>6
        <5>2. CASE ~(i < k)
          <6>1. i + 1 \in DOMAIN s /\ i + 1 # k /\ t[i] = s[i + 1]
            BY <5>2, <2>1, <2>6
          <6> QED  BY <6>1
        <5> QED  BY <5>1, <5>2
      <4>2. k \in DOMAIN s /\ s[k] = e
        BY <2>1
      <4> QED  BY <4>1, <4>2 DEF ToSet, IsInjective
    <3>2. ASSUME NEW i \in DOMAIN s, s[i] # e  PROVE s[i] \in ToSet(t)
      <4>1. CASE i < k
        <5>1. i \in DOMAIN t /\ t[i] = s[i]
          BY <4>1, <2>1, <2>6
        <5> QED  BY <5>1 DEF ToSet
      <4>2. CASE i > k
        <5>1. i - 1 \in DOMAIN t /\ t[i - 1] = s[i]
          BY <4>2, <2>1, <2>6
        <5> QED  BY <5>1 DEF ToSet
      <4> QED  BY <4>1, <4>2, <3>2, <2>1, <2>6
    <3> QED  BY <3>1, <3>2 DEF ToSet
  <2>8. IsInjective(t)
    <3> DEFINE at(i) == IF i < k THEN i ELSE i + 1
    <3>1. \A i \in DOMAIN t : at(i) \in DOMAIN s /\ t[i] = s[at(i)]
      BY <2>1, <2>6
    <3>2. \A i, j \in DOMAIN t : at(i) = at(j) => i = j
      BY <2>1, <2>6
    <3> HIDE DEF at
    <3> QED  BY <3>1, <3>2 DEF IsInjective
  <2>9. ASSUME NEW x, NEW y, x # e, y # e, InOrder(s, x, y)  PROVE InOrder(t, x, y)
    <3> DEFINE to(i) == IF i < k THEN i ELSE i - 1
    <3>1. PICK i \in DOMAIN s, j \in DOMAIN s : i < j /\ s[i] = x /\ s[j] = y
      BY <2>9 DEF InOrder
    <3>2. i # k /\ j # k
      BY <2>1, <2>9, <3>1
    <3>3. \A n \in DOMAIN s : n # k => to(n) \in DOMAIN t /\ t[to(n)] = s[n]
      <4> SUFFICES ASSUME NEW n \in DOMAIN s, n # k
                   PROVE  to(n) \in DOMAIN t /\ t[to(n)] = s[n]
        OBVIOUS
      <4>1. CASE n < k
        BY <4>1, <2>1, <2>6
      <4>2. CASE n > k
        <5>1. to(n) = n - 1 /\ n - 1 \in DOMAIN t /\ ~(n - 1 < k) /\ (n - 1) + 1 = n
          BY <4>2, <2>1, <2>6
        <5> QED  BY <5>1, <2>6
      <4> QED  BY <4>1, <4>2, <2>1, <2>6
    <3>4. to(i) < to(j)
      BY <2>1, <2>6, <3>1, <3>2
    <3> HIDE DEF to
    <3> QED  BY <3>1, <3>2, <3>3, <3>4 DEF InOrder
  <2> QED  BY <2>5, <2>6, <2>7, <2>8, <2>9 DEF t
<1>2. CASE ~ \E i \in 1..Len(s) : s[i] = e
  <2>1. RemoveFirst(s, e) = s
    BY <1>2 DEF RemoveFirst
  <2>2. e \notin ToSet(s)
    BY <1>2 DEF ToSet
  <2> QED  BY <2>1, <2>2
<1> QED  BY <1>1, <1>2

\* Two sequences of one length with the same elements are one.
LEMMA SameSeq ==
  ASSUME NEW S, NEW s \in Seq(S), NEW t \in Seq(S), Len(s) = Len(t),
         \A i \in 1..Len(s) : s[i] = t[i]
  PROVE  s = t
BY SeqEqual

LEMMA SubSeqFacts ==
  ASSUME NEW S, NEW s \in Seq(S), NEW m \in Nat, m <= Len(s)
  PROVE  /\ SubSeq(s, 1, m) \in Seq(S) /\ Len(SubSeq(s, 1, m)) = m
         /\ \A i \in 1..m : SubSeq(s, 1, m)[i] = s[i]
<1>1. Len(s) \in Nat /\ m \in 1 - 1..Len(s) /\ 1 \in Int /\ m \in Int
  OBVIOUS
<1>2. \A i \in 1..m : s[i] \in S
  BY <1>1
<1> QED  BY <1>1, <1>2

\* A part of a sequence.
LEMMA SubSeqType ==
  ASSUME NEW S, NEW s \in Seq(S), NEW m \in Nat \ {0}, NEW n \in Int, n <= Len(s)
  PROVE  /\ SubSeq(s, m, n) \in Seq(S) /\ Len(SubSeq(s, m, n)) \in Nat
         /\ Len(SubSeq(s, m, n)) = IF m <= n THEN n - m + 1 ELSE 0
<1>1. m \in Int /\ Len(s) \in Nat /\ \A i \in m..n : i \in 1..Len(s)
  OBVIOUS
<1>2. \A i \in m..n : s[i] \in S
  BY <1>1
<1>3. /\ SubSeq(s, m, n) \in Seq(S)
      /\ Len(SubSeq(s, m, n)) = IF m <= n THEN n - m + 1 ELSE 0
  BY <1>1, <1>2, SubSeqProperties
<1> QED  BY <1>3

\* The end of a concatenation can be taken off again.
LEMMA DropEnd ==
  ASSUME NEW S, NEW s \in Seq(S), NEW t \in Seq(S), NEW m \in Nat, m = Len(s)
  PROVE  SubSeq(s \o t, 1, m) = s
<1>1. /\ s \o t \in Seq(S) /\ Len(s \o t) = Len(s) + Len(t) /\ Len(t) \in Nat
      /\ \A i \in 1..Len(s) : (s \o t)[i] = s[i]
  BY ConcatFacts
<1>2. m <= Len(s \o t)
  BY <1>1
<1>3. /\ SubSeq(s \o t, 1, m) \in Seq(S) /\ Len(SubSeq(s \o t, 1, m)) = m
      /\ \A i \in 1..m : SubSeq(s \o t, 1, m)[i] = (s \o t)[i]
  BY <1>1, <1>2, SubSeqFacts
<1> QED  BY <1>1, <1>3, SameSeq

\* The naturals are well founded: a set of them has a least element, and a
\* bounded one a greatest.
LEMMA NonemptyHasMin ==
  ASSUME NEW T \in SUBSET Nat, T # {}
  PROVE  \E x \in T : \A y \in T : x <= y
<1>1. PICK x \in T : \A y \in T : ~ (<<y, x>> \in OpToRel(<, Nat))
  BY NatLessThanWellFounded, WFMin
<1>2. \A y \in T : ~(y < x)
  BY <1>1 DEF OpToRel
<1> QED  BY <1>2

\* A sequence without repetitions is as long as the set of its elements.
LEMMA InjectiveCard ==
  ASSUME NEW S, NEW s \in Seq(S), IsInjective(s)
  PROVE  IsFiniteSet(ToSet(s)) /\ Cardinality(ToSet(s)) = Len(s)
<1>1. s \in [1..Len(s) -> S] /\ Len(s) \in Nat /\ DOMAIN s = 1..Len(s)
  OBVIOUS
<1>2. s \in Bijection(1..Len(s), ToSet(s))
  BY <1>1 DEF IsInjective, ToSet, Bijection, Injection, Surjection
<1> QED  BY <1>1, <1>2, FS_CountingElements, FS_NatBijection DEF ExistsBijection

LEMMA MaxInSet ==
  ASSUME NEW n \in Nat, NEW T \in SUBSET (1..n), T # {}
  PROVE  Max(T) \in T /\ \A y \in T : y <= Max(T)
<1> DEFINE D == {n - y : y \in T}
<1>0. \A y \in T : y \in Int /\ n - y \in Nat /\ n - y \in D
  BY SMT
<1>1. D \in SUBSET Nat /\ D # {}
  BY <1>0
<1>2. PICK d \in D : \A e \in D : d <= e
  BY <1>1, NonemptyHasMin
<1>3. PICK x \in T : d = n - x
  BY <1>2
<1>4. \A y \in T : x >= y
  <2> SUFFICES ASSUME NEW y \in T PROVE x >= y
    OBVIOUS
  <2>1. n - x <= n - y
    BY <1>0, <1>2, <1>3
  <2> QED  BY <2>1, <1>0
<1>5. Max(T) \in T /\ \A y \in T : Max(T) >= y
  BY <1>4, Zenon DEF Max
<1>6. \A y \in T : Max(T) >= y => y <= Max(T)
  BY <1>5
<1> QED  BY <1>5, <1>6

\* Every element of a finite set once, in some order.
LEMMA SetToSeqsFacts ==
  ASSUME NEW S, IsFiniteSet(S), NEW s \in SetToSeqs(S)
  PROVE  s \in Seq(S) /\ IsInjective(s) /\ ToSet(s) = S
<1> DEFINE n == Cardinality(S)
<1>1. n \in Nat
  BY FS_CardinalityType
<1>2. s \in [1..n -> S] /\ \A i, j \in 1..n : i # j => s[i] # s[j]
  BY DEF SetToSeqs
<1>3. IsInjective(s) /\ s \in Injection(1..n, S)
  BY <1>2 DEF IsInjective, Injection
<1>4. Cardinality(1..n) = n
  BY <1>1, FS_Interval
<1> HIDE DEF n
<1>5. s \in Surjection(1..n, S)
  BY <1>3, <1>4, FS_Injection DEF n
<1>6. ToSet(s) = S
  BY <1>2, <1>5 DEF Surjection, ToSet
<1> QED  BY <1>1, <1>2, <1>3, <1>6

LEMMA SetToSeqFacts ==
  ASSUME NEW S, IsFiniteSet(S)
  PROVE  SetToSeq(S) \in Seq(S) /\ IsInjective(SetToSeq(S)) /\ ToSet(SetToSeq(S)) = S
<1>1. PICK f : f \in Bijection(1..Cardinality(S), S)
  BY FS_NatBijection, FS_CountingElements DEF ExistsBijection
<1>2. f \in [1..Cardinality(S) -> S] /\ IsInjective(f)
  BY <1>1 DEF Bijection, Injection
<1> DEFINE s == SetToSeq(S)
<1>3. s \in [1..Cardinality(S) -> S] /\ IsInjective(s)
  BY <1>2 DEF SetToSeq
<1> HIDE DEF s
<1>4. s \in SetToSeqs(S)
  BY <1>3 DEF SetToSeqs, IsInjective
<1> QED  BY <1>4, SetToSeqsFacts DEF s

\* A sequence without repetitions is cut in two.
LEMMA CutInTwo ==
  ASSUME NEW S, NEW s \in Seq(S), IsInjective(s), NEW n \in 0..Len(s)
  PROVE  LET a == SubSeq(s, 1, n)
             b == SubSeq(s, n + 1, Len(s))
         IN  /\ a \in Seq(S) /\ b \in Seq(S) /\ Len(b) = Len(s) - n
             /\ IsInjective(b) /\ ToSet(a) \cap ToSet(b) = {}
             /\ ToSet(a) \cup ToSet(b) = ToSet(s)
<1> DEFINE a == SubSeq(s, 1, n)
           b == SubSeq(s, n + 1, Len(s))
<1>0. n \in Nat /\ Len(s) \in Nat /\ n <= Len(s) /\ DOMAIN s = 1..Len(s)
  OBVIOUS
<1>1. a \in Seq(S) /\ DOMAIN a = 1..n /\ \A i \in 1..n : a[i] = s[i] /\ i \in DOMAIN s
  BY <1>0, SubSeqFacts
<1>2. /\ b \in Seq(S) /\ Len(b) = Len(s) - n /\ DOMAIN b = 1..(Len(s) - n)
      /\ \A i \in 1..(Len(s) - n) : b[i] = s[n + i] /\ n + i \in DOMAIN s
  <2>1. \A i \in n + 1..Len(s) : s[i] \in S
    BY <1>0
  <2>2. n + 1 \in Int /\ Len(s) \in Int
    BY <1>0
  <2>3. /\ b \in Seq(S)
        /\ Len(b) = IF n + 1 <= Len(s) THEN Len(s) - (n + 1) + 1 ELSE 0
        /\ \A i \in 1..(Len(s) - (n + 1) + 1) : b[i] = s[n + 1 + i - 1]
    BY <2>1, <2>2, SubSeqProperties
  <2>4. \A i \in 1..(Len(s) - n) :
           i \in 1..(Len(s) - (n + 1) + 1) /\ n + 1 + i - 1 = n + i /\ n + i \in 1..Len(s)
    BY <1>0
  <2> HIDE DEF b
  <2>5. Len(b) = Len(s) - n
    <3>1. CASE n + 1 <= Len(s)
      <4>1. Len(b) = Len(s) - (n + 1) + 1
        BY <2>3, <3>1
      <4>2. Len(s) - (n + 1) + 1 = Len(s) - n
        BY <1>0
      <4> QED  BY <4>1, <4>2
    <3>2. CASE ~(n + 1 <= Len(s))
      <4>1. Len(b) = 0
        BY <2>3, <3>2
      <4>2. Len(s) - n = 0
        <5>1. \A x, y \in Int : x <= y /\ ~(x + 1 <= y) => y - x = 0
          BY SMT
        <5>2. n \in Int /\ Len(s) \in Int /\ n <= Len(s)
          BY <1>0
        <5> QED  BY <3>2, <5>1, <5>2, Zenon
      <4> QED  BY <4>1, <4>2
    <3> QED  BY <3>1, <3>2
  <2>6. DOMAIN b = 1..(Len(s) - n)
    BY <2>3, <2>5
  <2> QED  BY <1>0, <2>3, <2>4, <2>5, <2>6
<1> HIDE DEF a, b
<1>3. \A i \in DOMAIN s : (i \in 1..n) \/ (i - n \in 1..(Len(s) - n) /\ n + (i - n) = i)
  BY <1>0
<1>4. \A i, j \in 1..(Len(s) - n) : n + i = n + j => i = j
  BY <1>0
<1>5. \A i \in 1..n, j \in 1..(Len(s) - n) : i # n + j
  BY <1>0
<1>6. IsInjective(b)
  BY <1>2, <1>4 DEF IsInjective
<1>7. ToSet(a) \cap ToSet(b) = {}
  <2>1. \A i \in 1..n, j \in 1..(Len(s) - n) : s[i] # s[n + j]
    BY <1>1, <1>2, <1>5 DEF IsInjective
  <2>2. ASSUME NEW x \in ToSet(a), x \in ToSet(b)  PROVE FALSE
    <3>1. PICK i \in 1..n : x = s[i]
      BY <1>1, <2>2 DEF ToSet
    <3>2. PICK j \in 1..(Len(s) - n) : x = s[n + j]
      BY <1>2, <2>2 DEF ToSet
    <3> QED  BY <2>1, <3>1, <3>2
  <2> QED  BY <2>2
<1>8. ToSet(a) \cup ToSet(b) = ToSet(s)
  <2>1. ToSet(a) \cup ToSet(b) \subseteq ToSet(s)
    <3>1. ToSet(a) \subseteq ToSet(s)
      BY <1>1 DEF ToSet
    <3>2. ToSet(b) \subseteq ToSet(s)
      BY <1>2 DEF ToSet
    <3> QED  BY <3>1, <3>2
  <2>2. ASSUME NEW i \in DOMAIN s  PROVE s[i] \in ToSet(a) \cup ToSet(b)
    BY <1>1, <1>2, <1>3 DEF ToSet
  <2>3. ToSet(s) \subseteq ToSet(a) \cup ToSet(b)
    BY <2>2 DEF ToSet
  <2> QED  BY <2>1, <2>3
<1> QED  BY <1>1, <1>2, <1>6, <1>7, <1>8 DEF a, b
\* What holds of 0 and climbs holds up to N.
LEMMA Climb ==
  ASSUME NEW N \in Nat, NEW T \in SUBSET (0..N), 0 \in T,
         \A n \in 0..N : n \in T /\ n < N => n + 1 \in T
  PROVE  \A n \in 0..N : n \in T
<1> DEFINE U == (0..N) \ T
<1> SUFFICES ASSUME U # {}  PROVE FALSE
  OBVIOUS
<1>1. U \in SUBSET Nat
  OBVIOUS
<1>2. PICK m \in U : \A y \in U : m <= y
  <2> HIDE DEF U
  <2> QED  BY <1>1, NonemptyHasMin
<1>3. m \in 0..N /\ m \notin T /\ m # 0
  BY <1>2
<1>4. m - 1 \in 0..N /\ ~(m <= m - 1) /\ m - 1 < N /\ (m - 1) + 1 = m
  BY <1>3
<1>5. m - 1 \notin U
  <2> HIDE DEF U
  <2> QED  BY <1>2, <1>4
<1> QED  BY <1>3, <1>4, <1>5

\* f is defined by recursion from 0 up to N.
Recurs(f, N, S, base, step) ==
  f \in [0..N -> S] /\ f[0] = base /\ \A n \in 1..N : f[n] = step[<<n, f[n - 1]>>]

LEMMA Recursion ==
  ASSUME NEW N \in Nat, NEW S, NEW base \in S, NEW step \in [(1..N) \X S -> S]
  PROVE  \E f : Recurs(f, N, S, base, step)
<1> DEFINE Upto(m, f) == /\ f \in [0..m -> S] /\ f[0] = base
                         /\ \A n \in 1..m : f[n] = step[<<n, f[n - 1]>>]
           T == {m \in 0..N : \E f : Upto(m, f)}
<1>1. 0 \in T
  <2>1. [i \in 0..0 |-> base] \in [0..0 -> S] /\ [i \in 0..0 |-> base][0] = base /\ 0 \in 0..N
    OBVIOUS
  <2>2. Upto(0, [i \in 0..0 |-> base])
    BY <2>1
  <2> QED  BY <2>1, <2>2
<1>2. ASSUME NEW m \in 0..N, m \in T, m < N  PROVE m + 1 \in T
  <2>1. PICK f : Upto(m, f)
    BY <1>2
  <2> DEFINE x == step[<<m + 1, f[m]>>]
             g == [n \in 0..(m + 1) |-> IF n <= m THEN f[n] ELSE x]
  <2>2. m + 1 \in 1..N /\ f[m] \in S /\ x \in S
    <3>1. m + 1 \in 1..N /\ m \in 0..m /\ f \in [0..m -> S]
      BY <1>2, <2>1
    <3>2. f[m] \in S
      BY <3>1
    <3>3. <<m + 1, f[m]>> \in (1..N) \X S
      BY <3>1, <3>2
    <3> QED  BY <3>1, <3>2, <3>3
  <2>3. g \in [0..(m + 1) -> S] /\ g[0] = base
    <3>1. \A n \in 0..(m + 1) : n <= m => n \in 0..m
      BY <1>2
    <3>2. 0 \in 0..(m + 1) /\ 0 <= m
      BY <1>2
    <3> HIDE DEF x
    <3> QED  BY <2>1, <2>2, <3>1, <3>2
  <2>4. ASSUME NEW n \in 1..(m + 1)  PROVE g[n] = step[<<n, g[n - 1]>>]
    <3>1. n \in 0..(m + 1) /\ n - 1 \in 0..(m + 1) /\ n - 1 <= m
      BY <1>2
    <3>2. g[n - 1] = f[n - 1]
      BY <3>1
    <3>3. CASE n <= m
      <4>1. n \in 1..m
        BY <3>3
      <4> HIDE DEF x
      <4>2. g[n] = f[n]
        BY <3>1, <3>3
      <4> HIDE DEF g
      <4> QED  BY <2>1, <3>2, <4>1, <4>2
    <3>4. CASE n = m + 1
      <4>1. ~(n <= m) /\ n - 1 = m
        BY <1>2, <3>4
      <4>2. g[n] = x
        BY <3>1, <4>1
      <4> HIDE DEF g
      <4> QED  BY <3>2, <3>4, <4>1, <4>2
    <3> QED  BY <1>2, <3>3, <3>4
  <2> HIDE DEF g
  <2>5. Upto(m + 1, g)
    BY <2>3, <2>4
  <2>6. m + 1 \in 0..N
    BY <1>2
  <2> HIDE DEF Upto
  <2> QED  BY <2>5, <2>6
<1>3. N \in T
  <2>1. T \in SUBSET (0..N) /\ N \in 0..N
    OBVIOUS
  <2> HIDE DEF T
  <2> QED  BY <1>1, <1>2, <2>1, Climb
<1> QED  BY <1>3 DEF Recurs
\* FlattenSeq puts one sequence after the other.
LEMMA FlattenFacts ==
  ASSUME NEW S, NEW ss \in Seq(Seq(S))
  PROVE  \E f \in [0..Len(ss) -> Seq(S)] :
           /\ f[0] = <<>> /\ FlattenSeq(ss) = f[Len(ss)]
           /\ \A n \in 1..Len(ss) : f[n] = f[n - 1] \o ss[n]
<1> DEFINE N == Len(ss)
           step == [p \in (1..N) \X Seq(S) |-> p[2] \o ss[p[1]]]
           Flat(g) == [i \in 1..N |-> IF i = 1 THEN ss[i] ELSE g[i - 1] \o ss[i]]
           flat == CHOOSE g : g = Flat(g)
<1>1. N \in Nat /\ \A n \in 1..N : ss[n] \in Seq(S)
  OBVIOUS
<1>2. /\ step \in [(1..N) \X Seq(S) -> Seq(S)] /\ <<>> \in Seq(S)
      /\ \A n \in 1..N, x \in Seq(S) : step[<<n, x>>] = x \o ss[n]
  <2>1. ASSUME NEW p \in (1..N) \X Seq(S)  PROVE p[2] \o ss[p[1]] \in Seq(S)
    <3>1. p[1] \in 1..N /\ p[2] \in Seq(S)
      OBVIOUS
    <3>2. ss[p[1]] \in Seq(S)
      BY <1>1, <3>1
    <3> QED  BY <3>1, <3>2
  <2>2. step \in [(1..N) \X Seq(S) -> Seq(S)]
    BY <2>1
  <2>3. \A n \in 1..N, x \in Seq(S) : step[<<n, x>>] = x \o ss[n]
    OBVIOUS
  <2>4. <<>> \in Seq(S)
    OBVIOUS
  <2> HIDE DEF step, N
  <2> QED  BY <2>2, <2>3, <2>4
<1> HIDE DEF step
<1>3. PICK f \in [0..N -> Seq(S)] : f[0] = <<>> /\ \A n \in 1..N : f[n] = step[<<n, f[n - 1]>>]
  <2> DEFINE Q == Seq(S)
             none == <<>>
  <2>1. N \in Nat /\ none \in Q /\ step \in [(1..N) \X Q -> Q]
    BY <1>1, <1>2
  <2> HIDE DEF N, Q, none
  <2>2. \E f : Recurs(f, N, Q, none, step)
    BY <2>1, Recursion
  <2> QED  BY <2>2 DEF Q, none, Recurs
<1>4. ASSUME NEW n \in 1..N  PROVE f[n] = f[n - 1] \o ss[n]
  <2>1. n - 1 \in 0..N
    BY <1>1
  <2>2. f[n - 1] \in Seq(S)
    BY <1>3, <2>1
  <2> QED  BY <1>2, <1>3, <2>2
<1>5. CASE N = 0
  BY <1>3, <1>4, <1>5 DEF FlattenSeq
<1>6. CASE N # 0
  <2> DEFINE h == [i \in 1..N |-> f[i]]
  <2>1. h = Flat(h)
    <3>1. ASSUME NEW i \in 1..N  PROVE h[i] = IF i = 1 THEN ss[i] ELSE h[i - 1] \o ss[i]
      <4>1. CASE i = 1
        <5>1. f[1] = f[0] \o ss[1]
          <6>1. f[i] = f[i - 1] \o ss[i]
            BY <1>4
          <6>2. i - 1 = 0
            BY <4>1
          <6> HIDE DEF h, Flat, N
          <6> QED  BY <4>1, <6>1, <6>2, Zenon
        <5>2. <<>> \o ss[1] = ss[1]
          BY <1>1, <4>1
        <5> QED  BY <1>3, <4>1, <5>1, <5>2
      <4>2. CASE i # 1
        <5>1. i - 1 \in 1..N
          BY <1>1, <4>2
        <5>2. h[i - 1] = f[i - 1] /\ h[i] = f[i]
          BY <5>1
        <5> QED  BY <1>4, <4>2, <5>2
      <4> QED  BY <4>1, <4>2
    <3> QED  BY <3>1
  <2>2. flat = Flat(flat)
    <3> HIDE DEF h, Flat
    <3> QED  BY <2>1
  <2>3. \A i \in 1..N : flat[i] = IF i = 1 THEN ss[i] ELSE flat[i - 1] \o ss[i]
    <3> HIDE DEF flat
    <3> QED  BY <2>2
  <2>4. FlattenSeq(ss) = flat[N]
    BY <1>6 DEF FlattenSeq
  <2> HIDE DEF flat
  <2> DEFINE T == {n \in 0..N : n = 0 \/ flat[n] = f[n]}
  <2>5. ASSUME NEW n \in 0..N, n \in T, n < N  PROVE n + 1 \in T
    <3>1. n + 1 \in 1..N /\ (n + 1) - 1 = n /\ n + 1 \in 0..N
      BY <1>1, <2>5
    <3>2. f[n + 1] = f[n] \o ss[n + 1]
      BY <1>4, <3>1
    <3>3. CASE n = 0
      <4>1. 1 \in 1..N /\ n + 1 = 1
        BY <3>1, <3>3
      <4>2. flat[1] = ss[1]
        BY <2>3, <4>1
      <4>3. ss[1] \in Seq(S)
        BY <1>1, <4>1
      <4>4. <<>> \o ss[1] = ss[1]
        BY <4>3
      <4>5. f[1] = <<>> \o ss[1]
        <5> HIDE DEF h, T, N
        <5> QED  BY <1>3, <3>2, <3>3, <4>1
      <4> QED  BY <3>1, <4>1, <4>2, <4>4, <4>5
    <3>4. CASE n # 0
      <4>1. n + 1 # 1 /\ flat[n] = f[n]
        BY <2>5, <3>4
      <4>2. flat[n + 1] = flat[n] \o ss[n + 1]
        BY <2>3, <3>1, <4>1
      <4> QED  BY <3>1, <3>2, <4>1, <4>2
    <3> QED  BY <3>3, <3>4
  <2>6. N \in T
    <3>1. T \in SUBSET (0..N) /\ N \in 0..N /\ 0 \in T
      BY <1>1
    <3> HIDE DEF T, N
    <3> QED  BY <1>1, <2>5, <3>1, Climb
  <2> QED  BY <1>3, <1>4, <1>6, <2>4, <2>6
<1> QED  BY <1>5, <1>6

\* ... and what they hold, it holds.
LEMMA FlattenType ==
  ASSUME NEW S, NEW ss \in Seq(Seq(S))
  PROVE  FlattenSeq(ss) \in Seq(S)
<1>1. PICK f \in [0..Len(ss) -> Seq(S)] : FlattenSeq(ss) = f[Len(ss)]
  BY FlattenFacts, Zenon
<1>2. Len(ss) \in 0..Len(ss)
  OBVIOUS
<1> QED  BY <1>1, <1>2
=============================================================================
