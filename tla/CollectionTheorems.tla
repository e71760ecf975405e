------------------------- MODULE CollectionTheorems -------------------------
(***************************************************************************)
(* The laws of Collections.  A sum counts units, so each of its laws is a  *)
(* fact about the cardinality of a union of disjoint sets                  *)
(* (FiniteSetTheorems).  A queue and the LRU order are sequences without   *)
(* repetition: what appending, dropping a prefix, concatenating and        *)
(* listing a set do to their elements; none of these needs induction.      *)
(* Last, what a loop needs: induction over the numbers, stated of a set of *)
(* them, and the listing of a finite set in any strict total order.        *)
(***************************************************************************)
EXTENDS Collections, FiniteSetTheorems, SequenceTheorems, TLAPS

\* The units held by finitely many keys are finitely many.
LEMMA UnitsFinite ==
    ASSUME NEW S, IsFiniteSet(S), NEW f, \A x \in S : f[x] \in Nat
    PROVE  IsFiniteSet(Units(f, S))
<1> DEFINE Each == {{x} \X (1..f[x]) : x \in S}
           g == [x \in S |-> {x} \X (1..f[x])]
<1>1. g \in Surjection(S, Each)
  BY DEF Surjection
<1>2. IsFiniteSet(Each)
  BY <1>1, FS_Surjection
<1>3. \A T \in Each : IsFiniteSet(T)
  <2> SUFFICES ASSUME NEW x \in S
               PROVE  IsFiniteSet({x} \X (1..f[x]))
    OBVIOUS
  <2>1. IsFiniteSet({x})
    BY FS_Singleton
  <2>2. IsFiniteSet(1..f[x])
    BY FS_Interval
  <2> QED
    BY <2>1, <2>2, FS_Product
<1> HIDE DEF Each
<1>4. IsFiniteSet(UNION Each)
  BY <1>2, <1>3, FS_UNION
<1> QED
  BY <1>4 DEF Units, Each

\* A sum is a natural number.
LEMMA SumType ==
    ASSUME NEW S, IsFiniteSet(S), NEW f, \A x \in S : f[x] \in Nat
    PROVE  Sum(f, S) \in Nat
BY UnitsFinite, FS_CardinalityType DEF Sum

\* Nothing holds nothing.
LEMMA SumEmpty == \A f : Sum(f, {}) = 0
<1> SUFFICES ASSUME NEW f PROVE Sum(f, {}) = 0
  OBVIOUS
<1>1. Units(f, {}) = {}
  BY DEF Units
<1> QED
  BY <1>1, FS_EmptySet DEF Sum

\* One key holds its own share.
LEMMA SumSingleton ==
    ASSUME NEW x, NEW f, f[x] \in Nat
    PROVE  Sum(f, {x}) = f[x]
<1> DEFINE one == {x}
           share == 1..f[x]
<1>1. Units(f, {x}) = one \X share
  BY DEF Units
<1>2. IsFiniteSet(one) /\ Cardinality(one) = 1
  BY FS_Singleton
<1>3. IsFiniteSet(share) /\ Cardinality(share) = f[x]
  BY FS_Interval
<1> HIDE DEF one, share
<1>4. Cardinality(one \X share) = Cardinality(one) * Cardinality(share)
  BY <1>2, <1>3, FS_Product
<1>5. Cardinality(one \X share) = f[x]
  BY <1>2, <1>3, <1>4
<1> QED
  BY <1>1, <1>5 DEF Sum

\* Disjoint sets of keys add up.
LEMMA SumUnion ==
    ASSUME NEW S, IsFiniteSet(S), NEW T, IsFiniteSet(T), S \cap T = {},
           NEW f, \A x \in S \cup T : f[x] \in Nat
    PROVE  Sum(f, S \cup T) = Sum(f, S) + Sum(f, T)
<1>1. Units(f, S \cup T) = Units(f, S) \cup Units(f, T)
  BY DEF Units
<1>2. Units(f, S) \cap Units(f, T) = {}
  BY DEF Units
<1>3. IsFiniteSet(Units(f, S)) /\ IsFiniteSet(Units(f, T))
  BY UnitsFinite
<1>4. /\ Cardinality(Units(f, S)) \in Nat
      /\ Cardinality(Units(f, T)) \in Nat
  BY <1>3, FS_CardinalityType
<1>5. Cardinality(Units(f, S) \cap Units(f, T)) = 0
  BY <1>2, FS_EmptySet
<1> DEFINE US == Units(f, S)
           UT == Units(f, T)
<1> HIDE DEF US, UT
<1>6. Cardinality(US \cup UT)
        = Cardinality(US) + Cardinality(UT) - Cardinality(US \cap UT)
  BY <1>3, FS_Union DEF US, UT
<1>7. Cardinality(US \cup UT) = Cardinality(US) + Cardinality(UT)
  BY <1>4, <1>5, <1>6 DEF US, UT
<1> QED
  BY <1>1, <1>7 DEF Sum, US, UT

\* Fewer keys hold no more.
LEMMA SumMonotone ==
    ASSUME NEW T, IsFiniteSet(T), NEW S \in SUBSET T,
           NEW f, \A x \in T : f[x] \in Nat
    PROVE  Sum(f, S) <= Sum(f, T)
<1>1. Units(f, S) \subseteq Units(f, T)
  BY DEF Units
<1>2. IsFiniteSet(Units(f, T))
  BY UnitsFinite
<1> QED
  BY <1>1, <1>2, FS_Subset DEF Sum

\* A sum depends on the shares of its own keys only.
LEMMA SumSame ==
    ASSUME NEW S, NEW f, NEW g, \A x \in S : f[x] = g[x]
    PROVE  Sum(f, S) = Sum(g, S)
<1>1. Units(f, S) = Units(g, S)
  BY DEF Units
<1> QED
  BY <1>1 DEF Sum

\* Keys that hold nothing add nothing.
LEMMA SumZero ==
    ASSUME NEW S, NEW Z, NEW f, \A x \in Z : f[x] = 0
    PROVE  Sum(f, S \cup Z) = Sum(f, S)
<1>1. \A x \in Z : 1..f[x] = {}
  OBVIOUS
<1>2. Units(f, S \cup Z) = Units(f, S)
  BY <1>1 DEF Units
<1> QED
  BY <1>2 DEF Sum

-----------------------------------------------------------------------------
\* A request appended to a queue that does not hold it.
LEMMA AppendFacts ==
    ASSUME NEW S, NEW s \in Seq(S), NEW x \in S
    PROVE  /\ Append(s, x) \in Seq(S)
           /\ Elements(Append(s, x)) = Elements(s) \cup {x}
           /\ Distinct(s) /\ x \notin Elements(s) => Distinct(Append(s, x))
<1>1. /\ Append(s, x) \in Seq(S)
      /\ Len(Append(s, x)) = Len(s) + 1
      /\ DOMAIN Append(s, x) = 1..(Len(s) + 1)
      /\ DOMAIN s = 1..Len(s)
      /\ Len(s) \in Nat
      /\ \A i \in 1..Len(s) : Append(s, x)[i] = s[i]
      /\ Append(s, x)[Len(s) + 1] = x
  OBVIOUS
<1>2. Elements(Append(s, x)) = Elements(s) \cup {x}
  BY <1>1 DEF Elements
<1>3. Distinct(s) /\ x \notin Elements(s) => Distinct(Append(s, x))
  BY <1>1 DEF Elements, Distinct
<1> QED
  BY <1>1, <1>2, <1>3

\* What is left of a sequence once its first n elements are taken.
LEMMA SuffixFacts ==
    ASSUME NEW S, NEW s \in Seq(S), NEW n \in 0..Len(s)
    PROVE  /\ SubSeq(s, n + 1, Len(s)) \in Seq(S)
           /\ Elements(SubSeq(s, n + 1, Len(s))) = {s[i] : i \in (n + 1)..Len(s)}
           /\ Elements(s) = Elements(SubSeq(s, n + 1, Len(s)))
                              \cup {s[i] : i \in 1..n}
           /\ Distinct(s) =>
                /\ Distinct(SubSeq(s, n + 1, Len(s)))
                /\ Elements(SubSeq(s, n + 1, Len(s))) \cap {s[i] : i \in 1..n} = {}
<1> DEFINE rest == SubSeq(s, n + 1, Len(s))
<1>1. /\ rest \in Seq(S)
      /\ Len(rest) = Len(s) - n
      /\ DOMAIN rest = 1..(Len(s) - n)
      /\ DOMAIN s = 1..Len(s)
      /\ Len(s) \in Nat
      /\ \A i \in 1..(Len(s) - n) : rest[i] = s[n + i]
  OBVIOUS
<1> HIDE DEF rest
<1>2. \A i \in 1..(Len(s) - n) : /\ n + i \in (n + 1)..Len(s)
                                /\ n + i \in 1..Len(s)
  BY <1>1
<1>3. \A i \in (n + 1)..Len(s) : /\ i - n \in 1..(Len(s) - n)
                                /\ rest[i - n] = s[i]
  BY <1>1
<1>4. Elements(rest) = {s[i] : i \in (n + 1)..Len(s)}
  <2>1. ASSUME NEW x \in Elements(rest)
        PROVE  x \in {s[i] : i \in (n + 1)..Len(s)}
    BY <1>1, <1>2 DEF Elements
  <2>2. ASSUME NEW i \in (n + 1)..Len(s)
        PROVE  s[i] \in Elements(rest)
    BY <1>1, <1>3 DEF Elements
  <2> QED
    BY <2>1, <2>2
<1>5. Elements(s) = Elements(rest) \cup {s[i] : i \in 1..n}
  <2>1. ASSUME NEW x \in Elements(s)
        PROVE  x \in Elements(rest) \cup {s[i] : i \in 1..n}
    <3>1. PICK i \in 1..Len(s) : x = s[i]
      BY <1>1 DEF Elements
    <3>2. i \in 1..n \/ i \in (n + 1)..Len(s)
      BY <1>1
    <3> QED
      BY <1>4, <3>1, <3>2
  <2>2. 1..n \subseteq 1..Len(s) /\ (n + 1)..Len(s) \subseteq 1..Len(s)
    BY <1>1
  <2> QED
    BY <1>1, <1>4, <2>1, <2>2 DEF Elements
<1>6. ASSUME Distinct(s)
      PROVE  /\ Distinct(rest)
             /\ Elements(rest) \cap {s[i] : i \in 1..n} = {}
  <2>1. ASSUME NEW i \in DOMAIN rest, NEW j \in DOMAIN rest, rest[i] = rest[j]
        PROVE  i = j
    <3>1. i \in 1..(Len(s) - n) /\ j \in 1..(Len(s) - n)
      BY <1>1
    <3>2. s[n + i] = s[n + j]
      BY <1>1, <2>1, <3>1
    <3>3. n + i = n + j
      BY <1>1, <1>2, <1>6, <3>1, <3>2 DEF Distinct
    <3> QED
      BY <3>1, <3>3
  <2>2. ASSUME NEW i \in (n + 1)..Len(s), NEW j \in 1..n, s[i] = s[j]
        PROVE  FALSE
    <3>1. i \in DOMAIN s /\ j \in DOMAIN s
      BY <1>1
    <3>2. i = j
      BY <1>6, <2>2, <3>1 DEF Distinct
    <3> QED
      BY <3>2
  <2> QED
    BY <1>4, <2>1, <2>2 DEF Distinct
<1> QED
  BY <1>1, <1>4, <1>5, <1>6 DEF rest

\* One sequence after another that shares no element with it.
LEMMA ConcatFacts ==
    ASSUME NEW S, NEW s \in Seq(S), NEW t \in Seq(S)
    PROVE  /\ s \o t \in Seq(S)
           /\ Elements(s \o t) = Elements(s) \cup Elements(t)
           /\ Distinct(s) /\ Distinct(t) /\ Elements(s) \cap Elements(t) = {}
                => Distinct(s \o t)
<1>1. /\ s \o t \in Seq(S)
      /\ Len(s) \in Nat /\ Len(t) \in Nat
      /\ DOMAIN s = 1..Len(s) /\ DOMAIN t = 1..Len(t)
      /\ DOMAIN (s \o t) = 1..(Len(s) + Len(t))
      /\ \A i \in 1..Len(s) : (s \o t)[i] = s[i]
      /\ \A i \in (Len(s) + 1)..(Len(s) + Len(t)) : (s \o t)[i] = t[i - Len(s)]
  OBVIOUS
<1> DEFINE st == s \o t
<1> HIDE DEF st
<1>2. Elements(st) = Elements(s) \cup Elements(t)
  <2>1. ASSUME NEW x \in Elements(st)
        PROVE  x \in Elements(s) \cup Elements(t)
    BY <1>1 DEF Elements, st
  <2>2. ASSUME NEW x \in Elements(s)
        PROVE  x \in Elements(st)
    BY <1>1 DEF Elements, st
  <2>3. ASSUME NEW x \in Elements(t)
        PROVE  x \in Elements(st)
    <3>1. PICK i \in 1..Len(t) : x = t[i]
      BY <1>1 DEF Elements
    <3>2. /\ Len(s) + i \in (Len(s) + 1)..(Len(s) + Len(t))
          /\ Len(s) + i \in 1..(Len(s) + Len(t))
          /\ (Len(s) + i) - Len(s) = i
      BY <1>1
    <3> QED
      BY <1>1, <3>1, <3>2 DEF Elements, st
  <2> QED
    BY <2>1, <2>2, <2>3
<1>3. ASSUME Distinct(s), Distinct(t), Elements(s) \cap Elements(t) = {}
      PROVE  Distinct(st)
  <2> SUFFICES ASSUME NEW i \in DOMAIN st, NEW j \in DOMAIN st, st[i] = st[j]
               PROVE  i = j
    BY DEF Distinct
  <2>1. i \in 1..(Len(s) + Len(t)) /\ j \in 1..(Len(s) + Len(t))
    BY <1>1 DEF st
  <2>2. \A k \in 1..Len(s) : st[k] = s[k] /\ s[k] \in Elements(s)
    BY <1>1 DEF st, Elements
  <2>3. \A k \in (Len(s) + 1)..(Len(s) + Len(t)) :
           /\ st[k] = t[k - Len(s)]
           /\ k - Len(s) \in DOMAIN t
           /\ t[k - Len(s)] \in Elements(t)
    BY <1>1 DEF st, Elements
  <2>4. CASE i <= Len(s) /\ j <= Len(s)
    BY <1>1, <1>3, <2>1, <2>2, <2>4 DEF Distinct
  <2>5. CASE i > Len(s) /\ j > Len(s)
    <3>1. /\ i - Len(s) \in DOMAIN t /\ j - Len(s) \in DOMAIN t
          /\ t[i - Len(s)] = t[j - Len(s)]
      BY <1>1, <2>1, <2>3, <2>5
    <3>2. i - Len(s) = j - Len(s)
      BY <1>3, <3>1 DEF Distinct
    <3> QED
      BY <1>1, <2>1, <3>2
  <2>6. CASE (i <= Len(s) /\ j > Len(s)) \/ (i > Len(s) /\ j <= Len(s))
    BY <1>1, <1>3, <2>1, <2>2, <2>3, <2>6
  <2> QED
    BY <1>1, <2>1, <2>4, <2>5, <2>6
<1> QED
  BY <1>1, <1>2, <1>3 DEF st

\* A listing of a finite set names each of its elements once.
LEMMA OrderingFacts ==
    ASSUME NEW S, IsFiniteSet(S), NEW s \in Orderings(S)
    PROVE  /\ s \in Seq(S)
           /\ Elements(s) = S
           /\ Distinct(s)
<1> DEFINE n == Cardinality(S)
<1>1. n \in Nat
  BY FS_CardinalityType
<1>2. s \in [1..n -> S] /\ Elements(s) = S
  BY DEF Orderings
<1>3. s \in Seq(S)
  BY <1>1, <1>2
<1>4. IsFiniteSet(1..n) /\ Cardinality(1..n) = n
  BY <1>1, FS_Interval
<1>5. s \in Surjection(1..n, S)
  BY <1>2 DEF Surjection, Elements
<1>6. s \in Injection(1..n, S)
  BY <1>4, <1>5, FS_SurjSameCardinalityImpliesInj
<1>7. Distinct(s)
  BY <1>2, <1>6 DEF Injection, IsInjective, Distinct
<1> QED
  BY <1>2, <1>3, <1>7
\* A queue that a request was withdrawn from.
LEMMA WithoutFacts ==
    ASSUME NEW S, NEW s \in Seq(S), NEW x, Distinct(s)
    PROVE  /\ Without(s, x) \in Seq(S)
           /\ Distinct(Without(s, x))
           /\ Elements(Without(s, x)) = Elements(s) \ {x}
<1>1. CASE x \notin Elements(s)
  BY <1>1 DEF Without
<1>2. CASE x \in Elements(s)
  <2> DEFINE at == CHOOSE i \in DOMAIN s : s[i] = x
             rest == [i \in 1..(Len(s) - 1) |-> IF i < at THEN s[i] ELSE s[i + 1]]
  <2>1. at \in DOMAIN s /\ s[at] = x
    BY <1>2 DEF Elements
  <2>2. DOMAIN s = 1..Len(s) /\ Len(s) \in Nat
    OBVIOUS
  <2>3. Without(s, x) = rest
    BY <1>2 DEF Without
  <2> HIDE DEF at
  <2>4. at \in 1..Len(s) /\ Len(s) - 1 \in Nat
    BY <2>1, <2>2
  <2>5. /\ DOMAIN rest = 1..(Len(s) - 1)
        /\ \A i \in 1..(Len(s) - 1) :
              /\ i < at => i \in DOMAIN s /\ rest[i] = s[i]
              /\ ~(i < at) => i + 1 \in DOMAIN s /\ rest[i] = s[i + 1]
    BY <2>2, <2>4
  <2>6. rest \in Seq(S)
    <3>1. \A i \in 1..(Len(s) - 1) : rest[i] \in S
      BY <2>2, <2>5
    <3>2. rest \in [1..(Len(s) - 1) -> S]
      BY <3>1
    <3> HIDE DEF rest
    <3> QED
      BY <2>4, <3>2
  <2> HIDE DEF rest
  <2>7. ASSUME NEW i \in DOMAIN rest, NEW j \in DOMAIN rest, rest[i] = rest[j]
        PROVE  i = j
    <3>1. i \in 1..(Len(s) - 1) /\ j \in 1..(Len(s) - 1)
      BY <2>5
    <3>2. CASE i < at /\ j < at
      BY <2>5, <2>7, <3>1, <3>2 DEF Distinct
    <3>3. CASE ~(i < at) /\ ~(j < at)
      <4>1. i + 1 = j + 1
        BY <2>5, <2>7, <3>1, <3>3 DEF Distinct
      <4> QED
        BY <3>1, <4>1
    <3>4. CASE i < at /\ ~(j < at)
      <4>1. i = j + 1
        BY <2>5, <2>7, <3>1, <3>4 DEF Distinct
      <4> QED
        BY <2>4, <3>1, <3>4, <4>1
    <3>5. CASE ~(i < at) /\ j < at
      <4>1. i + 1 = j
        BY <2>5, <2>7, <3>1, <3>5 DEF Distinct
      <4> QED
        BY <2>4, <3>1, <3>5, <4>1
    <3> QED
      BY <3>2, <3>3, <3>4, <3>5
  <2>8. ASSUME NEW y \in Elements(rest)
        PROVE  y \in Elements(s) \ {x}
    <3>1. PICK i \in 1..(Len(s) - 1) : y = rest[i]
      BY <2>5 DEF Elements
    <3>2. CASE i < at
      <4>1. i \in DOMAIN s /\ y = s[i] /\ i # at
        BY <2>4, <2>5, <3>1, <3>2
      <4> QED
        BY <2>1, <4>1 DEF Distinct, Elements
    <3>3. CASE ~(i < at)
      <4>1. i + 1 \in DOMAIN s /\ y = s[i + 1] /\ i + 1 # at
        BY <2>4, <2>5, <3>1, <3>3
      <4> QED
        BY <2>1, <4>1 DEF Distinct, Elements
    <3> QED
      BY <3>2, <3>3
  <2>9. ASSUME NEW y \in Elements(s) \ {x}
        PROVE  y \in Elements(rest)
    <3>1. PICK k \in 1..Len(s) : y = s[k] /\ k # at
      BY <2>1, <2>2, <2>9 DEF Elements
    <3>2. CASE k < at
      <4>1. k \in 1..(Len(s) - 1)
        BY <2>4, <3>1, <3>2
      <4> QED
        BY <2>5, <3>1, <3>2, <4>1 DEF Elements
    <3>3. CASE ~(k < at)
      <4>1. k - 1 \in 1..(Len(s) - 1) /\ ~(k - 1 < at) /\ (k - 1) + 1 = k
        BY <2>4, <3>1, <3>3
      <4> QED
        BY <2>5, <3>1, <4>1 DEF Elements
    <3> QED
      BY <3>2, <3>3
  <2> QED
    BY <2>3, <2>6, <2>7, <2>8, <2>9 DEF Distinct
<1> QED
  BY <1>1, <1>2

\* The suffix of a sequence, one element on.
LEMMA SuffixStep ==
    ASSUME NEW S, NEW s \in Seq(S), NEW n \in 0..(Len(s) - 1)
    PROVE  /\ SubSeq(s, n + 1, Len(s)) # <<>>
           /\ Head(SubSeq(s, n + 1, Len(s))) = s[n + 1]
           /\ Tail(SubSeq(s, n + 1, Len(s))) = SubSeq(s, (n + 1) + 1, Len(s))
           /\ {s[i] : i \in 1..(n + 1)} = {s[i] : i \in 1..n} \cup {s[n + 1]}
<1> DEFINE rest == SubSeq(s, n + 1, Len(s))
           next == SubSeq(s, (n + 1) + 1, Len(s))
<1>1. /\ rest \in Seq(S) /\ next \in Seq(S)
      /\ Len(s) \in Nat
      /\ Len(rest) = Len(s) - n /\ Len(next) = Len(s) - n - 1
      /\ \A i \in 1..(Len(s) - n) : rest[i] = s[n + i]
      /\ \A i \in 1..(Len(s) - n - 1) : next[i] = s[(n + 1) + i]
  OBVIOUS
<1> HIDE DEF rest, next
<1>2. rest # <<>> /\ Head(rest) = s[n + 1]
  BY <1>1
<1>3. Tail(rest) = next
  <2>1. n + 1 \in 1..Len(s) /\ Len(s) \in (n + 1)..Len(s)
    BY <1>1
  <2> QED
    BY <2>1, HeadTailOfSubSeq DEF rest, next
<1>4. {s[i] : i \in 1..(n + 1)} = {s[i] : i \in 1..n} \cup {s[n + 1]}
  <2>1. \A i \in 1..(n + 1) : i \in 1..n \/ i = n + 1
    BY <1>1
  <2>2. \A i \in 1..n : i \in 1..(n + 1)
    BY <1>1
  <2>3. n + 1 \in 1..(n + 1)
    BY <1>1
  <2> QED
    BY <2>1, <2>2, <2>3
<1> QED
  BY <1>2, <1>3, <1>4 DEF rest, next

\* The first elements of a sequence, one element on.
LEMMA PrefixStep ==
    ASSUME NEW S, NEW s \in Seq(S), NEW n \in 0..(Len(s) - 1)
    PROVE  Append(SubSeq(s, 1, n), s[n + 1]) = SubSeq(s, 1, n + 1)
<1>1. Len(s) \in Nat /\ 1 \in 1..Len(s) /\ n + 1 \in 1..Len(s) /\ (n + 1) - 1 = n
      /\ n \in 0..Len(s) /\ s[n + 1] \in S
  OBVIOUS
<1>2. SubSeq(s, 1, n + 1) = SubSeq(s, 1, n) \o <<s[n + 1]>>
  BY <1>1, SubSeqRecursiveSecond
<1>3. SubSeq(s, 1, n) \in Seq(S)
  BY <1>1
<1> QED
  BY <1>1, <1>2, <1>3, AppendIsConcat

\* A sequence without repetition lists the set of its elements.
LEMMA DistinctListing ==
    ASSUME NEW S, NEW s \in Seq(S), Distinct(s)
    PROVE  s \in Orderings(Elements(s))
<1>1. /\ Len(s) \in Nat /\ DOMAIN s = 1..Len(s)
      /\ s \in [1..Len(s) -> Elements(s)]
  BY DEF Elements
<1>2. s \in Bijection(1..Len(s), Elements(s))
  BY <1>1 DEF Bijection, Injection, Surjection, IsInjective, Distinct, Elements
<1>3. IsFiniteSet(1..Len(s)) /\ Cardinality(1..Len(s)) = Len(s)
  BY <1>1, FS_Interval
<1>4. Cardinality(Elements(s)) = Len(s)
  BY <1>2, <1>3, FS_Bijection DEF ExistsBijection
<1> QED
  BY <1>1, <1>4 DEF Orderings

\* A finite set can be listed in any strict total order on it.
LEMMA Sorting ==
    ASSUME NEW E, IsFiniteSet(E), NEW B \in SUBSET (E \X E),
           \A x \in E : <<x, x>> \notin B,
           \A x, y, z \in E : <<x, y>> \in B /\ <<y, z>> \in B => <<x, z>> \in B,
           \A x, y \in E : x # y => <<x, y>> \in B \/ <<y, x>> \in B
    PROVE  \E o \in Orderings(E) :
              \A i, j \in DOMAIN o : i < j <=> <<o[i], o[j]>> \in B
<1> DEFINE below(x) == {y \in E : <<y, x>> \in B}
           n == Cardinality(E)
           rank == [x \in E |-> Cardinality(below(x)) + 1]
<1>1. n \in Nat /\ IsFiniteSet(1..n) /\ Cardinality(1..n) = n
  BY FS_CardinalityType, FS_Interval
<1>2. ASSUME NEW x \in E
      PROVE  /\ IsFiniteSet(below(x)) /\ Cardinality(below(x)) \in Nat
             /\ Cardinality(below(x)) < n
  <2>1. x \notin below(x) /\ below(x) \subseteq E
    OBVIOUS
  <2>2. IsFiniteSet(below(x)) /\ Cardinality(below(x)) \in Nat
    BY <2>1, FS_Subset, FS_CardinalityType
  <2>3. Cardinality(below(x) \cup {x}) = Cardinality(below(x)) + 1
    BY <2>1, <2>2, FS_AddElement
  <2>4. below(x) \cup {x} \in SUBSET E
    BY <2>1
  <2>5. Cardinality(below(x) \cup {x}) <= n
    BY <2>4, FS_Subset
  <2> HIDE DEF below, n
  <2> QED
    BY <1>1, <2>2, <2>3, <2>5
<1>3. ASSUME NEW x \in E, NEW y \in E, <<x, y>> \in B
      PROVE  Cardinality(below(x)) < Cardinality(below(y))
  <2>1. below(x) \cup {x} \in SUBSET below(y) /\ x \notin below(x)
    BY <1>3
  <2>2. IsFiniteSet(below(x)) /\ IsFiniteSet(below(y))
        /\ Cardinality(below(x)) \in Nat /\ Cardinality(below(y)) \in Nat
    BY <1>2
  <2>3. Cardinality(below(x) \cup {x}) = Cardinality(below(x)) + 1
    BY <2>1, <2>2, FS_AddElement
  <2>4. Cardinality(below(x) \cup {x}) <= Cardinality(below(y))
    BY <2>1, <2>2, FS_Subset
  <2> HIDE DEF below
  <2> QED
    BY <2>2, <2>3, <2>4
<1> HIDE DEF below, n
<1>4. /\ rank \in [E -> 1..n]
      /\ \A x, y \in E : <<x, y>> \in B => rank[x] < rank[y]
  <2>1. ASSUME NEW x \in E PROVE Cardinality(below(x)) + 1 \in 1..n
    BY <1>1, <1>2
  <2>2. ASSUME NEW x \in E, NEW y \in E, <<x, y>> \in B PROVE rank[x] < rank[y]
    BY <1>2, <1>3, <2>2
  <2> QED
    BY <2>1, <2>2
<1> HIDE DEF rank
<1>5. ASSUME NEW x \in E, NEW y \in E, ~(rank[y] < rank[x]), x # y
      PROVE  <<x, y>> \in B
  BY <1>4, <1>5
<1>6. rank \in Injection(E, 1..n)
  <2>1. ASSUME NEW x \in E, NEW y \in E, rank[x] = rank[y], x # y
        PROVE  FALSE
    <3>1. rank[x] \in 1..n /\ rank[y] \in 1..n
      BY <1>4
    <3>2. ~(rank[x] < rank[y]) /\ ~(rank[y] < rank[x])
      BY <1>1, <2>1, <3>1
    <3> QED
      BY <1>4, <1>5, <2>1, <3>2
  <2> QED
    BY <1>4, <2>1 DEF Injection, IsInjective
<1>7. rank \in Surjection(E, 1..n)
  BY <1>1, <1>6, FS_Injection DEF n
<1>8. \A i \in 1..n : \E x \in E : rank[x] = i
  BY <1>7 DEF Surjection
<1> DEFINE o == [i \in 1..n |-> CHOOSE x \in E : rank[x] = i]
<1>9. o \in [1..n -> E] /\ \A i \in 1..n : rank[o[i]] = i
  BY <1>8
<1> HIDE DEF o
<1>10. Elements(o) = E
  <2>1. ASSUME NEW x \in E PROVE x = o[rank[x]] /\ rank[x] \in 1..n
    BY <1>4, <1>6, <1>9 DEF Injection, IsInjective
  <2> QED
    BY <1>9, <2>1 DEF Elements
<1>11. o \in Orderings(E)
  BY <1>9, <1>10 DEF Orderings, n
<1>12. \A i, j \in DOMAIN o : i < j <=> <<o[i], o[j]>> \in B
  <2> SUFFICES ASSUME NEW i \in 1..n, NEW j \in 1..n
               PROVE  i < j <=> <<o[i], o[j]>> \in B
    BY <1>9
  <2>1. o[i] \in E /\ o[j] \in E /\ rank[o[i]] = i /\ rank[o[j]] = j
    BY <1>9
  <2>2. i < j => ~(rank[o[j]] < rank[o[i]]) /\ o[i] # o[j]
    BY <1>1, <2>1
  <2>3. i < j => <<o[i], o[j]>> \in B
    BY <1>5, <2>1, <2>2
  <2>4. <<o[i], o[j]>> \in B => i < j
    BY <1>4, <2>1
  <2> QED
    BY <2>3, <2>4
<1> QED
  BY <1>11, <1>12

-----------------------------------------------------------------------------
\* What holds at 0 and from one number to the next holds of every number.
LEMMA Induction ==
    ASSUME NEW M, 0 \in M, \A n \in Nat : n \in M => n + 1 \in M
    PROVE  Nat \subseteq M
<1> DEFINE T == {n \in Nat : n \notin M}
           R == OpToRel(<, Nat)
<1>1. ASSUME T # {} PROVE FALSE
  <2>1. IsWellFoundedOn(R, Nat)
    BY NatLessThanWellFounded
  <2>2. T \subseteq Nat
    OBVIOUS
  <2> HIDE DEF R
  <2>3. PICK x \in T : \A y \in T : ~ (<<y, x>> \in R)
    BY <1>1, <2>1, <2>2, WFMin
  <2>4. x \in Nat /\ x # 0 /\ x - 1 \in Nat /\ x - 1 < x
    BY <2>3
  <2>5. x - 1 \in T
    <3>1. x - 1 + 1 = x
      BY <2>4
    <3> QED
      BY <2>3, <2>4, <3>1
  <2>6. <<x - 1, x>> \in R
    BY <2>4 DEF R, OpToRel
  <2> QED
    BY <2>3, <2>5, <2>6
<1> QED
  BY <1>1
=============================================================================
