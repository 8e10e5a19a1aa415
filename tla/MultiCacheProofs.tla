-------------------------- MODULE MultiCacheProofs --------------------------
(***************************************************************************)
(* The containers, the sizes and the references of the multi cache agree,  *)
(* for any number of types, ids and objects and any sizes.                 *)
(***************************************************************************)
EXTENDS MultiCache, FiniteSetTheorems, TLAPS

-----------------------------------------------------------------------------
(* Sequences without some of their elements.                               *)

\* No element is at two places of a sequence.
NoRepeat(s) == \A i, j \in DOMAIN s : s[i] = s[j] => i = j

\* The place of i among the elements of K.
Place(K, i) == Cardinality({k \in K : k <= i})

\* Place numbers the elements of a set of numbers in their order.
LEMMA PlaceFacts ==
  ASSUME NEW n \in Nat, NEW K \in SUBSET (1..n)
  PROVE  /\ IsFiniteSet(K) /\ Cardinality(K) \in Nat
         /\ \A i \in K : Place(K, i) \in 1..Cardinality(K)
         /\ \A i, j \in K : Place(K, i) = Place(K, j) => i = j
         /\ \A m \in 1..Cardinality(K) : \E i \in K : Place(K, i) = m
         /\ n \in K => Place(K, n) = Cardinality(K)
<1>1. IsFiniteSet(1..n)
  BY FS_Interval
<1>2. IsFiniteSet(K) /\ Cardinality(K) \in Nat
  BY <1>1, FS_Subset, FS_CardinalityType
<1>. DEFINE Upto(i) == {k \in K : k <= i}
<1>3. \A i : /\ IsFiniteSet(Upto(i)) /\ Cardinality(Upto(i)) \in Nat
             /\ Cardinality(Upto(i)) <= Cardinality(K)
  <2>. SUFFICES ASSUME NEW i
                PROVE  /\ IsFiniteSet(Upto(i)) /\ Cardinality(Upto(i)) \in Nat
                       /\ Cardinality(Upto(i)) <= Cardinality(K)
    OBVIOUS
  <2>1. Upto(i) \in SUBSET K
    OBVIOUS
  <2>. HIDE DEF Upto
  <2>. QED
    BY <1>2, <2>1, FS_Subset, FS_CardinalityType
<1>4. \A i \in K : Place(K, i) \in 1..Cardinality(K)
  <2>. SUFFICES ASSUME NEW i \in K PROVE Cardinality(Upto(i)) \in 1..Cardinality(K)
    BY DEF Place
  <2>1. i \in Upto(i)
    OBVIOUS
  <2>2. Cardinality(Upto(i)) # 0
    BY <1>3, <2>1, FS_EmptySet
  <2>. QED
    BY <1>2, <1>3, <2>2
<1>5. ASSUME NEW i \in K, NEW j \in K, i < j PROVE Place(K, i) < Place(K, j)
  <2>1. Upto(i) \in SUBSET Upto(j) /\ j \in Upto(j) /\ j \notin Upto(i)
    <3>1. \A k \in K : k \in Int
      OBVIOUS
    <3>2. \A k \in K : k <= i => k <= j
      BY <1>5, <3>1
    <3>3. j <= j /\ ~(j <= i)
      BY <1>5, <3>1
    <3>. QED
      BY <3>2, <3>3
  <2>2. /\ Cardinality(Upto(i)) <= Cardinality(Upto(j))
        /\ Cardinality(Upto(j)) = Cardinality(Upto(i)) => Upto(j) = Upto(i)
    BY <1>3, <2>1, FS_Subset
  <2>. QED
    BY <1>3, <2>1, <2>2 DEF Place
<1>6. \A i, j \in K : Place(K, i) = Place(K, j) => i = j
  <2>. SUFFICES ASSUME NEW i \in K, NEW j \in K, Place(K, i) = Place(K, j), i # j
                PROVE  FALSE
    OBVIOUS
  <2>1. i < j \/ j < i
    OBVIOUS
  <2>2. Place(K, i) \in Nat
    BY <1>4
  <2>. QED
    BY <1>5, <2>1, <2>2
<1>7. ASSUME NEW m \in 1..Cardinality(K) PROVE \E i \in K : Place(K, i) = m
  <2>. SUFFICES ASSUME \A i \in K : Place(K, i) # m PROVE FALSE
    OBVIOUS
  <2>. DEFINE T == (1..Cardinality(K)) \ {m}
              f == [i \in K |-> Place(K, i)]
  <2>1. f \in [K -> T]
    BY <1>4
  <2>2. IsFiniteSet(1..Cardinality(K)) /\ Cardinality(1..Cardinality(K)) = Cardinality(K)
    BY <1>2, FS_Interval
  <2>3. IsFiniteSet(T) /\ Cardinality(T) = Cardinality(K) - 1
    BY <1>7, <2>2, FS_RemoveElement
  <2>4. \A i \in K : f[i] = Place(K, i)
    OBVIOUS
  <2>. HIDE DEF T, f
  <2>5. Cardinality(T) < Cardinality(K)
    BY <1>2, <2>3
  <2>6. \E x, y \in K : x # y /\ f[x] = f[y]
    BY <1>2, <2>1, <2>3, <2>5, FS_PigeonHole, Zenon
  <2>. QED
    BY <1>6, <2>4, <2>6
<1>8. ASSUME n \in K PROVE Place(K, n) = Cardinality(K)
  <2>1. \A k \in K : k <= n
    OBVIOUS
  <2>2. Upto(n) = K
    BY <2>1
  <2>. QED
    BY <2>2 DEF Place
<1>. QED
  BY <1>2, <1>4, <1>6, <1>7, <1>8

\* Without keeps the other elements and their order: in particular the last
\* element stays the last one.
LEMMA WithoutFacts ==
  ASSUME NEW S, NEW s \in Seq(S), NEW es
  PROVE  /\ Without(s, es) \in Seq(S)
         /\ Range(Without(s, es)) = Range(s) \ es
         /\ NoRepeat(s) => NoRepeat(Without(s, es))
         /\ s # <<>> /\ s[Len(s)] \notin es =>
              /\ Without(s, es) # <<>>
              /\ Without(s, es)[Len(Without(s, es))] = s[Len(s)]
<1>. DEFINE K == {i \in DOMAIN s : s[i] \notin es}
            n == Cardinality(K)
            At(j) == CHOOSE i \in K : Place(K, i) = j
            w == [j \in 1..n |-> s[At(j)]]
<1>1. Without(s, es) = w
  BY DEF Without, Place
<1>2. Len(s) \in Nat /\ DOMAIN s = 1..Len(s) /\ \A i \in DOMAIN s : s[i] \in S
  OBVIOUS
<1>3. /\ K \in SUBSET (1..Len(s))
      /\ \A i : i \in K <=> i \in 1..Len(s) /\ s[i] \notin es
  BY <1>2
<1>. HIDE DEF K
<1>4. /\ n \in Nat
      /\ \A i \in K : Place(K, i) \in 1..n
      /\ \A i, j \in K : Place(K, i) = Place(K, j) => i = j
      /\ \A m \in 1..n : \E i \in K : Place(K, i) = m
      /\ Len(s) \in K => Place(K, Len(s)) = n
  BY <1>2, <1>3, PlaceFacts
<1>5. \A j \in 1..n : At(j) \in K /\ Place(K, At(j)) = j
  BY <1>4
<1>6. \A i \in K : At(Place(K, i)) = i
  BY <1>4, <1>5
<1>. HIDE DEF n, At
<1>7. w \in Seq(S) /\ Len(w) = n /\ DOMAIN w = 1..n /\ \A j \in 1..n : w[j] = s[At(j)]
  BY <1>2, <1>3, <1>4, <1>5
<1>. HIDE DEF w
<1>8. Range(w) = Range(s) \ es
  <2>1. ASSUME NEW e \in Range(w) PROVE e \in Range(s) \ es
    <3>1. PICK j \in 1..n : e = s[At(j)]
      BY <1>7, <2>1 DEF Range
    <3>. QED
      BY <1>2, <1>3, <1>5, <3>1 DEF Range
  <2>2. ASSUME NEW e \in Range(s) \ es PROVE e \in Range(w)
    <3>1. PICK i \in K : e = s[i]
      BY <1>2, <1>3, <2>2 DEF Range
    <3>2. Place(K, i) \in 1..n /\ w[Place(K, i)] = e
      BY <1>4, <1>6, <1>7, <3>1
    <3>. QED
      BY <1>7, <3>2 DEF Range
  <2>. QED
    BY <2>1, <2>2
<1>9. ASSUME NoRepeat(s) PROVE NoRepeat(w)
  <2>. SUFFICES ASSUME NEW i \in 1..n, NEW j \in 1..n, w[i] = w[j] PROVE i = j
    BY <1>7 DEF NoRepeat
  <2>1. At(i) = At(j)
    BY <1>2, <1>3, <1>5, <1>7, <1>9 DEF NoRepeat
  <2>. QED
    BY <1>5, <2>1
<1>10. ASSUME s # <<>>, s[Len(s)] \notin es PROVE w # <<>> /\ w[Len(w)] = s[Len(s)]
  <2>1. Len(s) \in K
    BY <1>2, <1>3, <1>10
  <2>2. n \in 1..n /\ At(n) = Len(s)
    BY <1>4, <1>6, <2>1
  <2>. QED
    BY <1>7, <2>2
<1>. QED
  BY <1>1, <1>7, <1>8, <1>9, <1>10

\* What Append does to the elements of a sequence.
LEMMA AppendFacts ==
  ASSUME NEW S, NEW s \in Seq(S), NEW e \in S
  PROVE  /\ Append(s, e) \in Seq(S) /\ Append(s, e) # <<>>
         /\ Range(Append(s, e)) = Range(s) \cup {e}
         /\ Append(s, e)[Len(Append(s, e))] = e
         /\ NoRepeat(s) /\ e \notin Range(s) => NoRepeat(Append(s, e))
<1>. DEFINE a == Append(s, e)
<1>1. /\ a \in Seq(S) /\ Len(s) \in Nat /\ Len(a) = Len(s) + 1
      /\ DOMAIN s = 1..Len(s) /\ DOMAIN a = 1..(Len(s) + 1)
      /\ \A i \in 1..Len(s) : a[i] = s[i]
      /\ a[Len(s) + 1] = e
  OBVIOUS
<1>. HIDE DEF a
<1>2. Range(a) = Range(s) \cup {e}
  <2>1. \A i \in DOMAIN a : i \in 1..Len(s) \/ i = Len(s) + 1
    BY <1>1
  <2>2. \A i \in 1..Len(s) : i \in DOMAIN a
    BY <1>1
  <2>3. Len(s) + 1 \in DOMAIN a
    BY <1>1
  <2>. QED
    BY <1>1, <2>1, <2>2, <2>3 DEF Range
<1>3. a # <<>>
  BY <1>1
<1>4. ASSUME NoRepeat(s), e \notin Range(s) PROVE NoRepeat(a)
  BY <1>1, <1>4 DEF NoRepeat, Range
<1>. QED
  BY <1>1, <1>2, <1>3, <1>4 DEF a

\* A sequence has finitely many elements, as many as it is long when none is
\* in it twice.
LEMMA RangeFacts ==
  ASSUME NEW S, NEW s \in Seq(S)
  PROVE  /\ Range(s) \in SUBSET S
         /\ IsFiniteSet(Range(s)) /\ Cardinality(Range(s)) \in Nat
         /\ NoRepeat(s) => Cardinality(Range(s)) = Len(s)
<1>1. Len(s) \in Nat /\ DOMAIN s = 1..Len(s) /\ s \in [1..Len(s) -> S]
  OBVIOUS
<1>2. IsFiniteSet(1..Len(s)) /\ Cardinality(1..Len(s)) = Len(s)
  BY <1>1, FS_Interval
<1>3. s \in Surjection(1..Len(s), Range(s))
  BY <1>1 DEF Surjection, Range
<1>4. /\ IsFiniteSet(Range(s)) /\ Cardinality(Range(s)) \in Nat
      /\ s \in Injection(1..Len(s), Range(s)) => Cardinality(Range(s)) = Len(s)
  BY <1>2, <1>3, FS_Surjection, FS_CardinalityType
<1>5. NoRepeat(s) => s \in Injection(1..Len(s), Range(s))
  BY <1>1, <1>3 DEF NoRepeat, Injection, Surjection, IsInjective, Range
<1>. QED
  BY <1>1, <1>4, <1>5 DEF Range
-----------------------------------------------------------------------------
(* Sizes and references.                                                   *)

\* What the assumptions on the constants say, taken apart.
LEMMA Constants ==
  /\ MaxSize \in Nat /\ WordMod \in Nat \ {0} /\ MaxHeld \in Nat \ {0}
  /\ None \notin Entry
  /\ \A e \in Entry : /\ e.type \in Type /\ e.id \in Id /\ e.data \in Data
                      /\ e.param \in Param /\ Size(e) \in Nat
  /\ \A d \in Data : /\ SizeOf[d] \in Nat
                     /\ MaxSize + SizeOf[d] < WordMod
                     /\ SizeOf[d] < WordMod \div 2
<1>1. \A d \in Data : /\ SizeOf[d] \in Nat
                      /\ MaxSize + SizeOf[d] < WordMod
                      /\ 2 * SizeOf[d] < WordMod
  BY CacheAssumption
<1>2. WordMod \in Nat \ {0} /\ WordMod % 2 = 0
  BY CacheAssumption
<1>3. \A d \in Data : SizeOf[d] < WordMod \div 2
  BY <1>1, <1>2
<1>4. \A e \in Entry : /\ e.type \in Type /\ e.id \in Id /\ e.data \in Data
                       /\ e.param \in Param
  BY DEF Entry
<1>. QED
  BY <1>1, <1>2, <1>3, <1>4, CacheAssumption DEF Size

\* Numbers in the range of a word are what they are, others are reduced.
LEMMA WordFacts ==
  ASSUME NEW n \in Int
  PROVE  /\ Word(n) \in 0..(WordMod - 1)
         /\ n \in 0..(WordMod - 1) => Word(n) = n
         /\ Signed(n) \in (-WordMod)..WordMod
         /\ 0 <= n /\ n < WordMod \div 2 => Signed(n) = n
<1>1. WordMod \in Nat \ {0}
  BY Constants
<1>2. Word(n) \in 0..(WordMod - 1)
  BY <1>1 DEF Word
<1>3. n \in 0..(WordMod - 1) => Word(n) = n
  BY <1>1 DEF Word
<1>4. WordMod \div 2 \in Nat /\ WordMod \div 2 <= WordMod
  BY <1>1
<1>5. Signed(n) \in (-WordMod)..WordMod
  BY <1>1, <1>2 DEF Signed
<1>6. ASSUME 0 <= n, n < WordMod \div 2 PROVE Signed(n) = n
  <2>1. n \in 0..(WordMod - 1)
    BY <1>1, <1>4, <1>6
  <2>. QED
    BY <1>3, <1>4, <1>6, <2>1 DEF Signed
<1>. QED
  BY <1>2, <1>3, <1>5, <1>6

\* The bytes of an entry.
LEMMA EntryBytes ==
  ASSUME NEW e \in Entry
  PROVE  /\ IsFiniteSet({e} \X (1..Size(e)))
         /\ Cardinality({e} \X (1..Size(e))) = Size(e)
<1>1. Size(e) \in Nat
  BY Constants
<1>2. IsFiniteSet(1..Size(e)) /\ Cardinality(1..Size(e)) = Size(e)
  BY <1>1, FS_Interval
<1>3. IsFiniteSet({e}) /\ Cardinality({e}) = 1
  BY FS_Singleton
<1>4. /\ IsFiniteSet({e} \X (1..Size(e)))
      /\ Cardinality({e} \X (1..Size(e))) = 1 * Size(e)
  BY ZenonT(60), <1>2, <1>3, FS_Product
<1>. QED
  BY <1>1, <1>4

\* What is in Bytes.
LEMMA InBytes ==
  ASSUME NEW es
  PROVE  \A b : b \in Bytes(es) <=> \E e \in es : b \in {e} \X (1..Size(e))
  BY DEF Bytes

\* The bytes of finitely many entries are finitely many.
LEMMA BytesFinite ==
  ASSUME NEW es \in SUBSET Entry, IsFiniteSet(es)
  PROVE  IsFiniteSet(Bytes(es)) /\ SizeSum(es) \in Nat
<1>. DEFINE Of(e) == {e} \X (1..Size(e))
            T == {Of(e) : e \in es}
            f == [e \in es |-> Of(e)]
<1>1. f \in Surjection(es, T)
  BY DEF Surjection
<1>2. IsFiniteSet(T)
  BY <1>1, FS_Surjection
<1>3. \A b \in T : IsFiniteSet(b)
  BY EntryBytes
<1>4. Bytes(es) = UNION T
  BY DEF Bytes
<1>. HIDE DEF T
<1>5. IsFiniteSet(UNION T)
  BY <1>2, <1>3, FS_UNION
<1>. QED
  BY <1>4, <1>5, FS_CardinalityType DEF SizeSum

\* The size of a set of entries is the sum of the sizes of its parts.
LEMMA SizeFacts ==
  ASSUME NEW R \in SUBSET Entry, IsFiniteSet(R)
  PROVE  /\ SizeSum({}) = 0
         /\ \A e \in Entry : SizeSum({e}) = Size(e)
         /\ \A es \in SUBSET R : /\ SizeSum(es) \in Nat
                                /\ SizeSum(R \ es) = SizeSum(R) - SizeSum(es)
         /\ \A e \in Entry \ R : SizeSum(R \cup {e}) = SizeSum(R) + Size(e)
<1>1. SizeSum({}) = 0
  <2>1. Bytes({}) = {}
    BY DEF Bytes
  <2>. QED
    BY <2>1, FS_EmptySet DEF SizeSum
<1>2. ASSUME NEW e \in Entry PROVE SizeSum({e}) = Size(e)
  <2>1. Bytes({e}) = {e} \X (1..Size(e))
    BY DEF Bytes
  <2>. QED
    BY <2>1, EntryBytes DEF SizeSum
<1>3. ASSUME NEW es \in SUBSET R
      PROVE  /\ SizeSum(es) \in Nat
             /\ SizeSum(R \ es) = SizeSum(R) - SizeSum(es)
  <2>1. IsFiniteSet(es) /\ es \in SUBSET Entry
    BY FS_Subset
  <2>2. Bytes(R \ es) = Bytes(R) \ Bytes(es)
    BY InBytes
  <2>3. Bytes(es) = Bytes(R) \cap Bytes(es)
    BY InBytes
  <2>4. IsFiniteSet(Bytes(R)) /\ SizeSum(es) \in Nat
    BY <2>1, BytesFinite
  <2>5. Cardinality(Bytes(R) \ Bytes(es))
          = Cardinality(Bytes(R)) - Cardinality(Bytes(R) \cap Bytes(es))
    BY <2>4, FS_Difference
  <2>. QED
    BY <2>2, <2>3, <2>4, <2>5 DEF SizeSum
<1>4. ASSUME NEW e \in Entry \ R PROVE SizeSum(R \cup {e}) = SizeSum(R) + Size(e)
  <2>. DEFINE Q == R \cup {e}
  <2>1. Q \in SUBSET Entry /\ IsFiniteSet(Q) /\ {e} \in SUBSET Q
    BY FS_AddElement
  <2>2. Q \ {e} = R
    BY <1>4
  <2>. HIDE DEF Q
  <2>3. IsFiniteSet(Bytes(Q)) /\ SizeSum(Q) \in Nat
    BY <2>1, BytesFinite
  <2>4. Bytes(Q \ {e}) = Bytes(Q) \ Bytes({e})
    BY InBytes
  <2>5. Bytes({e}) = Bytes(Q) \cap Bytes({e})
    BY <2>1, InBytes
  <2>6. Cardinality(Bytes(Q) \ Bytes({e}))
          = Cardinality(Bytes(Q)) - Cardinality(Bytes(Q) \cap Bytes({e}))
    BY <2>3, FS_Difference
  <2>7. SizeSum(Q \ {e}) = SizeSum(Q) - SizeSum({e})
    BY <2>4, <2>5, <2>6 DEF SizeSum
  <2>8. Size(e) \in Nat /\ SizeSum({e}) = Size(e)
    BY <1>2, Constants
  <2>9. SizeSum(R) = SizeSum(Q) - Size(e)
    BY <2>2, <2>7, <2>8
  <2>10. SizeSum(Q) = SizeSum(R) + Size(e)
    BY <2>3, <2>8, <2>9
  <2>. QED
    BY <2>10 DEF Q
<1>. QED
  BY <1>1, <1>2, <1>3, <1>4

\* The entries of a set that have a reference to d.
With(R, d) == {e \in R : e.data = d}

\* How many references to d go with entries that are removed, or come.
LEMMA CountFacts ==
  ASSUME NEW R \in SUBSET Entry, IsFiniteSet(R), NEW d
  PROVE  /\ Cardinality(With({}, d)) = 0
         /\ Cardinality(With(R, d)) \in Nat
         /\ \A es \in SUBSET R :
              /\ Cardinality(With(es, d)) \in Nat
              /\ Cardinality(With(R \ es, d))
                    = Cardinality(With(R, d)) - Cardinality(With(es, d))
              /\ Cardinality(With(es, d)) <= Cardinality(With(R, d))
         /\ \A e \in Entry \ R :
              Cardinality(With(R \cup {e}, d))
                = IF e.data = d THEN Cardinality(With(R, d)) + 1
                                ELSE Cardinality(With(R, d))
<1>1. With(R, d) \in SUBSET R
  BY DEF With
<1>2. IsFiniteSet(With(R, d)) /\ Cardinality(With(R, d)) \in Nat
  BY <1>1, FS_Subset, FS_CardinalityType
<1>3. Cardinality(With({}, d)) = 0
  <2>1. With({}, d) = {}
    BY DEF With
  <2>. QED
    BY <2>1, FS_EmptySet
<1>4. ASSUME NEW es \in SUBSET R
      PROVE  /\ Cardinality(With(es, d)) \in Nat
             /\ Cardinality(With(R \ es, d))
                   = Cardinality(With(R, d)) - Cardinality(With(es, d))
             /\ Cardinality(With(es, d)) <= Cardinality(With(R, d))
  <2>1. With(R \ es, d) = With(R, d) \ With(es, d)
    BY DEF With
  <2>2. With(es, d) \in SUBSET With(R, d)
        /\ With(R, d) \cap With(es, d) = With(es, d)
    BY DEF With
  <2>3. /\ IsFiniteSet(With(es, d)) /\ Cardinality(With(es, d)) \in Nat
        /\ Cardinality(With(es, d)) <= Cardinality(With(R, d))
    BY <1>2, <2>2, FS_Subset, FS_CardinalityType
  <2>4. Cardinality(With(R, d) \ With(es, d))
          = Cardinality(With(R, d)) - Cardinality(With(R, d) \cap With(es, d))
    BY <1>2, FS_Difference
  <2>. QED
    BY <2>1, <2>2, <2>3, <2>4
<1>5. ASSUME NEW e \in Entry \ R
      PROVE  Cardinality(With(R \cup {e}, d))
               = IF e.data = d THEN Cardinality(With(R, d)) + 1
                               ELSE Cardinality(With(R, d))
  <2>1. CASE e.data = d
    <3>1. With(R \cup {e}, d) = With(R, d) \cup {e} /\ e \notin With(R, d)
      BY <1>5, <2>1 DEF With
    <3>. QED
      BY ZenonT(60), <1>2, <2>1, <3>1, FS_AddElement
  <2>2. CASE e.data # d
    <3>1. With(R \cup {e}, d) = With(R, d)
      BY <2>2 DEF With
    <3>. QED
      BY <2>2, <3>1
  <2>. QED
    BY <2>1, <2>2
<1>. QED
  BY <1>2, <1>3, <1>4, <1>5
-----------------------------------------------------------------------------
(* The invariant.                                                          *)

\* An entry is in the idmap of its type, under its id.
MapOK == \A t \in Type, i \in Id :
           idMap[t][i] # None => idMap[t][i].type = t /\ idMap[t][i].id = i

\* Between PurgeData and IdMap_Insert nothing takes the place of the entry.
AddOK == adding # None => idMap[adding.type][adding.id] = None

\* The entry used last is the last of the list.
LastUsed == recent # None => /\ entryList # <<>>
                             /\ entryList[Len(entryList)] = recent

\* List and idmaps have the same entries.
Agree == \A e \in Entry : e \in Range(entryList) <=> idMap[e.type][e.id] = e

SizeOK == /\ currentSize = SizeSum(Range(entryList))
          /\ currentSize <= MaxSize

RefsOK == \A d \in Data :
            refs[d] = held[d] + Cardinality(With(Range(entryList), d))

\* nsize, computed once, is what is still missing.
RoomOK == adding # None =>
            \/ nsize = currentSize + Size(adding) - MaxSize
            \/ nsize <= 0 /\ currentSize + Size(adding) <= MaxSize

Whole == Agree /\ NoRepeat(entryList) /\ SizeOK /\ RefsOK

Inv == /\ TypeOK /\ MapOK /\ AddOK /\ LastUsed
       /\ overfull \/ (Whole /\ RoomOK)

\* An empty cache.
LEMMA InitInv == Init => Inv
<1>. SUFFICES ASSUME Init PROVE Inv
  OBVIOUS
<1>1. TypeOK
  <2>1. overfull \in BOOLEAN
    BY Zenon DEF Init
  <2>2. /\ types \subseteq Type
        /\ idMap \in [Type -> [Id -> Entry \cup {None}]]
        /\ entryList \in Seq(Entry)
        /\ adding \in Entry \cup {None}
        /\ recent \in Entry \cup {None}
    BY DEF Init
  <2>3. /\ currentSize \in 0..(WordMod - 1)
        /\ maxSizeUsed \in 0..(WordMod - 1)
        /\ nsize \in (-WordMod)..WordMod
        /\ refs \in [Data -> Nat]
        /\ held \in [Data -> 0..MaxHeld]
    BY Constants DEF Init
  <2>. QED
    BY <2>1, <2>2, <2>3 DEF TypeOK
<1>2. MapOK /\ AddOK /\ LastUsed /\ RoomOK
  BY DEF Init, MapOK, AddOK, LastUsed, RoomOK
<1>3. Range(entryList) = {}
  BY DEF Init, Range
<1>4. {} \in SUBSET Entry /\ IsFiniteSet({})
  BY FS_EmptySet
<1>5. Whole
  <2>1. Agree
    BY <1>3, Constants DEF Init, Agree
  <2>2. NoRepeat(entryList)
    BY DEF Init, NoRepeat
  <2>3. SizeOK
    BY <1>3, <1>4, SizeFacts, Constants DEF Init, SizeOK
  <2>4. RefsOK
    <3>1. \A d : Cardinality(With({}, d)) = 0
      BY <1>4, CountFacts
    <3>2. \A d \in Data : refs[d] = 0 /\ held[d] = 0
      BY DEF Init
    <3>. QED
      BY <1>3, <3>1, <3>2 DEF RefsOK
  <2>. QED
    BY <2>1, <2>2, <2>3, <2>4 DEF Whole
<1>. QED
  BY <1>1, <1>2, <1>5 DEF Inv

\* The entries in the list are finitely many.
LEMMA ListFinite ==
  ASSUME TypeOK
  PROVE  /\ Range(entryList) \in SUBSET Entry
         /\ IsFiniteSet(Range(entryList))
  BY RangeFacts DEF TypeOK

\* Removing entries keeps the types and the order of the list, and puts
\* nothing into the idmaps.
LEMMA UnlinkTypes ==
  ASSUME TypeOK, MapOK, LastUsed, NEW es \in SUBSET Entry, IsFiniteSet(es),
         NEW gone, Unlink(es, gone)
  PROVE  /\ entryList' \in Seq(Entry)
         /\ idMap' \in [Type -> [Id -> Entry \cup {None}]]
         /\ refs' \in [Data -> Nat]
         /\ recent' \in Entry \cup {None}
         /\ MapOK' /\ LastUsed'
         /\ \A t \in Type, i \in Id : idMap[t][i] = None => idMap'[t][i] = None
<1>1. entryList' \in Seq(Entry)
  BY WithoutFacts DEF Unlink, TypeOK
<1>2. \A t \in Type, i \in Id : /\ idMap'[t][i] \in {idMap[t][i], None}
                               /\ idMap[t][i] \in Entry \cup {None}
  BY DEF Unlink, TypeOK
<1>3. idMap' \in [Type -> [Id -> Entry \cup {None}]]
  BY <1>2 DEF Unlink
<1>4. refs' \in [Data -> Nat]
  <2>1. ASSUME NEW d \in Data
        PROVE  Less(refs[d], Cardinality({e \in es : e.data = d})) \in Nat
    <3>1. Cardinality(With(es, d)) \in Nat
      BY CountFacts
    <3>2. Cardinality({e \in es : e.data = d}) \in Nat
      BY <3>1 DEF With
    <3>3. refs[d] \in Nat
      BY DEF TypeOK
    <3>. QED
      BY <3>2, <3>3 DEF Less
  <2>. QED
    BY <2>1 DEF Unlink
<1>5. recent' \in Entry \cup {None}
  BY DEF Unlink, TypeOK
<1>6. MapOK'
  BY <1>2 DEF MapOK
<1>7. LastUsed'
  <2>. SUFFICES ASSUME recent' # None
                PROVE  entryList' # <<>> /\ entryList'[Len(entryList')] = recent'
    BY DEF LastUsed
  <2>1. recent' = recent /\ recent \notin es
    BY DEF Unlink
  <2>2. entryList # <<>> /\ entryList[Len(entryList)] = recent
    BY <2>1 DEF LastUsed
  <2>. QED
    BY <2>1, <2>2, WithoutFacts DEF Unlink, TypeOK
<1>. QED
  BY <1>1, <1>2, <1>3, <1>4, <1>5, <1>6, <1>7

\* Removing entries that are in the list keeps the containers and the
\* references in step, provided the idmaps that go have no other entries.
LEMMA UnlinkWhole ==
  ASSUME TypeOK, MapOK, Agree, NoRepeat(entryList), RefsOK,
         NEW es \in SUBSET Range(entryList), NEW gone,
         \A e \in Range(entryList) : e.type \in gone => e \in es,
         Unlink(es, gone), UNCHANGED held
  PROVE  /\ Range(entryList)' = Range(entryList) \ es
         /\ Agree' /\ NoRepeat(entryList)' /\ RefsOK'
<1>0. Range(entryList) \in SUBSET Entry /\ IsFiniteSet(Range(entryList))
  BY ListFinite
<1>1. Range(entryList') = Range(entryList) \ es /\ NoRepeat(entryList')
  BY WithoutFacts DEF Unlink, TypeOK
<1>2. Agree'
  <2>. SUFFICES ASSUME NEW e \in Entry
                PROVE  e \in Range(entryList') <=> idMap'[e.type][e.id] = e
    BY DEF Agree
  <2>0. e.type \in Type /\ e.id \in Id /\ e # None
    BY Constants
  <2>1. idMap'[e.type][e.id] =
          IF e.type \in gone \/ \E x \in es : x.type = e.type /\ x.id = e.id
          THEN None ELSE idMap[e.type][e.id]
    BY <2>0 DEF Unlink
  <2>2. e \in Range(entryList) <=> idMap[e.type][e.id] = e
    BY DEF Agree
  <2>3. ASSUME e \in Range(entryList), e \notin es
        PROVE  idMap'[e.type][e.id] = e
    <3>1. e.type \notin gone
      BY <2>3
    <3>2. ASSUME NEW x \in es, x.type = e.type, x.id = e.id PROVE FALSE
      <4>1. idMap[x.type][x.id] = x
        BY <1>0, <3>2 DEF Agree
      <4>. QED
        BY <2>2, <2>3, <3>2, <4>1
    <3>. QED
      BY <2>1, <2>2, <2>3, <3>1, <3>2
  <2>4. ASSUME idMap'[e.type][e.id] = e
        PROVE  e \in Range(entryList) /\ e \notin es
    BY <2>0, <2>1, <2>2, <2>4
  <2>. QED
    BY <1>1, <2>3, <2>4
<1>3. RefsOK'
  <2>. SUFFICES ASSUME NEW d \in Data
                PROVE  refs'[d] = held[d] + Cardinality(With(Range(entryList'), d))
    BY DEF RefsOK
  <2>1. refs'[d] = Less(refs[d], Cardinality(With(es, d)))
    BY DEF Unlink, With
  <2>2. /\ Cardinality(With(es, d)) \in Nat
        /\ Cardinality(With(Range(entryList), d)) \in Nat
        /\ Cardinality(With(Range(entryList) \ es, d))
              = Cardinality(With(Range(entryList), d)) - Cardinality(With(es, d))
        /\ Cardinality(With(es, d)) <= Cardinality(With(Range(entryList), d))
    BY <1>0, CountFacts
  <2>3. refs[d] = held[d] + Cardinality(With(Range(entryList), d)) /\ held[d] \in Nat
    BY DEF RefsOK, TypeOK
  <2>4. Cardinality(With(Range(entryList'), d))
          = Cardinality(With(Range(entryList), d)) - Cardinality(With(es, d))
    BY <1>1, <2>2
  <2>. QED
    BY <2>1, <2>2, <2>3, <2>4 DEF Less
<1>. QED
  BY <1>1, <1>2, <1>3

\* The same with the size of the cache.
LEMMA ReleaseWhole ==
  ASSUME TypeOK, MapOK, Whole,
         NEW es \in SUBSET Range(entryList), NEW gone,
         \A e \in Range(entryList) : e.type \in gone => e \in es,
         ReleaseEntries(es, gone), UNCHANGED held
  PROVE  /\ Whole' /\ SizeSum(es) \in Nat
         /\ currentSize' = currentSize - SizeSum(es)
<1>0. Range(entryList) \in SUBSET Entry /\ IsFiniteSet(Range(entryList))
  BY ListFinite
<1>1. Unlink(es, gone) /\ currentSize' = Word(currentSize - SizeSum(es))
  BY DEF ReleaseEntries
<1>2. /\ Range(entryList)' = Range(entryList) \ es
      /\ Agree' /\ NoRepeat(entryList)' /\ RefsOK'
  BY <1>1, UnlinkWhole DEF Whole
<1>3. Range(entryList') = Range(entryList) \ es
  BY <1>2
<1>4. Range(entryList) \ es \in SUBSET Entry /\ IsFiniteSet(Range(entryList) \ es)
  BY <1>0, FS_Difference
<1>5. /\ SizeSum(es) \in Nat
      /\ SizeSum(Range(entryList) \ es) = SizeSum(Range(entryList)) - SizeSum(es)
  BY <1>0, SizeFacts
<1>6. SizeSum(Range(entryList) \ es) \in Nat
  BY <1>4, BytesFinite
<1>7. /\ currentSize = SizeSum(Range(entryList)) /\ currentSize <= MaxSize
      /\ currentSize \in 0..(WordMod - 1)
  BY DEF Whole, SizeOK, TypeOK
<1>8. WordMod \in Nat /\ MaxSize \in Nat
  BY Constants
<1>9. currentSize - SizeSum(es) \in 0..(WordMod - 1)
  BY <1>5, <1>6, <1>7, <1>8
<1>10. currentSize' = currentSize - SizeSum(es)
  BY <1>1, <1>9, WordFacts
<1>11. SizeOK'
  BY <1>3, <1>5, <1>6, <1>7, <1>8, <1>10 DEF SizeOK
<1>. QED
  BY <1>2, <1>5, <1>10, <1>11 DEF Whole
-----------------------------------------------------------------------------
(* One lemma per kind of step.                                             *)

\* What IdMap_Find returns is an entry of that type and id, and in the list.
LEMMA FoundFacts ==
  ASSUME TypeOK, MapOK, NEW t \in Type, NEW i \in Id
  PROVE  /\ Found(t, i) \in SUBSET Entry /\ IsFiniteSet(Found(t, i))
         /\ \A e \in Found(t, i) : e.type = t /\ e.id = i /\ idMap[t][i] = e
         /\ Agree => Found(t, i) \in SUBSET Range(entryList)
<1>1. idMap[t][i] \in Entry \cup {None}
  BY DEF TypeOK
<1>2. IsFiniteSet({idMap[t][i]} \ {None})
  BY FS_Singleton, FS_Difference
<1>3. \A e \in Found(t, i) : e \in Entry /\ e.type = t /\ e.id = i /\ idMap[t][i] = e
  BY <1>1 DEF Found, MapOK
<1>4. Agree => Found(t, i) \in SUBSET Range(entryList)
  BY <1>3 DEF Agree
<1>. QED
  BY <1>2, <1>3, <1>4 DEF Found

\* TypeFree, PurgeData and PurgeAll: entries go, no call is in progress.
LEMMA ReleaseInv ==
  ASSUME Inv, Idle, NEW es \in SUBSET Entry, IsFiniteSet(es), NEW gone,
         overfull \/ /\ es \in SUBSET Range(entryList)
                     /\ \A e \in Range(entryList) : e.type \in gone => e \in es,
         ReleaseEntries(es, gone), types' \subseteq Type,
         UNCHANGED <<maxSizeUsed, adder, held, overfull>>
  PROVE  Inv'
<1>a. TypeOK /\ MapOK /\ LastUsed /\ adding = None
  BY DEF Inv, Idle
<1>b. Unlink(es, gone) /\ currentSize' = Word(currentSize - SizeSum(es))
  BY DEF ReleaseEntries
<1>1. /\ entryList' \in Seq(Entry)
      /\ idMap' \in [Type -> [Id -> Entry \cup {None}]]
      /\ refs' \in [Data -> Nat]
      /\ recent' \in Entry \cup {None}
      /\ MapOK' /\ LastUsed'
  BY <1>a, <1>b, UnlinkTypes
<1>2. currentSize' \in 0..(WordMod - 1)
  <2>1. SizeSum(es) \in Nat /\ currentSize \in Int
    BY <1>a, BytesFinite, Constants DEF TypeOK
  <2>. QED
    BY <1>b, <2>1, WordFacts
<1>3. TypeOK'
  BY <1>a, <1>1, <1>2 DEF TypeOK, adder
<1>4. AddOK' /\ RoomOK'
  BY <1>a DEF AddOK, RoomOK, adder
<1>5. CASE overfull
  BY <1>1, <1>3, <1>4, <1>5 DEF Inv
<1>6. CASE ~overfull
  <2>1. Whole
    BY <1>6 DEF Inv
  <2>2. Whole'
    BY <1>a, <1>6, <2>1, ReleaseWhole
  <2>. QED
    BY <1>1, <1>3, <1>4, <2>2 DEF Inv
<1>. QED
  BY <1>5, <1>6

\* GWEN_MultiCache_Type_free
LEMMA TypeFreeInv == ASSUME Inv, NEW t \in Type, TypeFree(t) PROVE Inv'
<1>1. Range(entryList) \in SUBSET Entry /\ IsFiniteSet(Range(entryList))
  BY ListFinite DEF Inv
<1>2. Listed(t) \in SUBSET Range(entryList)
  BY DEF Listed
<1>3. Listed(t) \in SUBSET Entry /\ IsFiniteSet(Listed(t))
  BY <1>1, <1>2, FS_Subset
<1>4. \A e \in Range(entryList) : e.type \in {t} => e \in Listed(t)
  BY DEF Listed
<1>5. /\ Idle /\ ReleaseEntries(Listed(t), {t}) /\ types' \subseteq Type
      /\ UNCHANGED <<maxSizeUsed, adder, held, overfull>>
  BY DEF TypeFree, Ready, Inv, TypeOK
<1>. HIDE DEF Listed
<1>. QED
  BY <1>2, <1>3, <1>4, <1>5, ReleaseInv

\* GWEN_MultiCache_Type_PurgeAll
LEMMA PurgeAllInv == ASSUME Inv, NEW t \in Type, PurgeAll(t) PROVE Inv'
<1>1. Range(entryList) \in SUBSET Entry /\ IsFiniteSet(Range(entryList))
  BY ListFinite DEF Inv
<1>2. Listed(t) \in SUBSET Range(entryList)
  BY DEF Listed
<1>3. Listed(t) \in SUBSET Entry /\ IsFiniteSet(Listed(t))
  BY <1>1, <1>2, FS_Subset
<1>4. \A e \in Range(entryList) : e.type \in {} => e \in Listed(t)
  OBVIOUS
<1>5. /\ Idle /\ ReleaseEntries(Listed(t), {}) /\ types' \subseteq Type
      /\ UNCHANGED <<maxSizeUsed, adder, held, overfull>>
  BY DEF PurgeAll, Ready, Inv, TypeOK
<1>. QED
  BY <1>2, <1>3, <1>4, <1>5, ReleaseInv

\* GWEN_MultiCache_Type_PurgeData
LEMMA PurgeDataInv ==
  ASSUME Inv, NEW t \in Type, NEW i \in Id, PurgeData(t, i) PROVE Inv'
<1>1. /\ Found(t, i) \in SUBSET Entry /\ IsFiniteSet(Found(t, i))
      /\ Agree => Found(t, i) \in SUBSET Range(entryList)
  BY FoundFacts DEF Inv
<1>2. \A e \in Range(entryList) : e.type \in {} => e \in Found(t, i)
  OBVIOUS
<1>3. /\ Idle /\ ReleaseEntries(Found(t, i), {}) /\ types' \subseteq Type
      /\ UNCHANGED <<maxSizeUsed, adder, held, overfull>>
  BY DEF PurgeData, Ready, Inv, TypeOK
<1>4. overfull \/ Agree
  BY DEF Inv, Whole
<1>. QED
  BY <1>1, <1>2, <1>3, <1>4, ReleaseInv

\* GWEN_MultiCache_Type_GetData: a reference more for the caller; the entry
\* changes its place, not the set of entries.
LEMMA GetDataInv ==
  ASSUME Inv, NEW t \in Type, NEW i \in Id, NEW p \in Param, GetData(t, i, p)
  PROVE  Inv'
<1>a. TypeOK /\ MapOK /\ adding = None
  BY DEF GetData, Ready, Idle, Inv
<1>1. PICK e \in Found(t, i) :
        /\ held[e.data] < MaxHeld
        /\ UsingEntry(e)
        /\ refs' = [refs EXCEPT ![e.data] = @ + 1]
        /\ held' = [held EXCEPT ![e.data] = @ + 1]
        /\ recent' = e
  BY DEF GetData
<1>2. UNCHANGED <<types, idMap, currentSize, maxSizeUsed, adder, overfull>>
  BY DEF GetData
<1>3. e \in Entry /\ e.data \in Data /\ (Agree => e \in Range(entryList))
  BY <1>a, FoundFacts, Constants
<1>. DEFINE w == Without(entryList, {e})
<1>4. /\ w \in Seq(Entry) /\ Range(w) = Range(entryList) \ {e}
      /\ NoRepeat(entryList) => NoRepeat(w)
  BY <1>a, WithoutFacts DEF TypeOK
<1>5. entryList' = Append(w, e)
  BY <1>1 DEF UsingEntry
<1>. HIDE DEF w
<1>6. /\ entryList' \in Seq(Entry) /\ entryList' # <<>>
      /\ entryList'[Len(entryList')] = e
      /\ Range(entryList') = (Range(entryList) \ {e}) \cup {e}
      /\ NoRepeat(entryList) => NoRepeat(entryList')
  <2>1. e \notin Range(w)
    BY <1>4
  <2>. QED
    BY <1>3, <1>4, <1>5, <2>1, AppendFacts
<1>7. refs' \in [Data -> Nat] /\ held' \in [Data -> 0..MaxHeld]
  <2>1. refs \in [Data -> Nat] /\ held \in [Data -> 0..MaxHeld]
    BY <1>a DEF TypeOK
  <2>2. refs[e.data] + 1 \in Nat
    BY <1>3, <2>1
  <2>3. held[e.data] + 1 \in 0..MaxHeld
    <3>1. held[e.data] \in 0..MaxHeld /\ held[e.data] < MaxHeld
      BY <1>1, <1>3, <2>1
    <3>. QED
      BY <3>1, Constants
  <2>4. refs' = [refs EXCEPT ![e.data] = refs[e.data] + 1]
        /\ held' = [held EXCEPT ![e.data] = held[e.data] + 1]
    BY <1>1
  <2>. QED
    BY <1>3, <2>1, <2>2, <2>3, <2>4
<1>8. TypeOK'
  BY <1>a, <1>1, <1>2, <1>3, <1>6, <1>7 DEF TypeOK, adder
<1>9. MapOK' /\ AddOK' /\ LastUsed' /\ RoomOK'
  BY <1>a, <1>1, <1>2, <1>6 DEF MapOK, AddOK, LastUsed, RoomOK, adder
<1>10. ASSUME ~overfull PROVE Whole'
  <2>1. Whole
    BY <1>10 DEF Inv
  <2>2. Range(entryList') = Range(entryList)
    BY <1>3, <1>6, <2>1 DEF Whole
  <2>3. Agree' /\ NoRepeat(entryList)' /\ SizeOK'
    BY <1>2, <1>6, <2>1, <2>2 DEF Whole, Agree, SizeOK
  <2>4. RefsOK'
    <3>. SUFFICES ASSUME NEW d \in Data
                  PROVE  refs'[d] = held'[d] + Cardinality(With(Range(entryList'), d))
      BY DEF RefsOK
    <3>1. refs[d] = held[d] + Cardinality(With(Range(entryList), d))
      BY <2>1 DEF Whole, RefsOK
    <3>2. Cardinality(With(Range(entryList), d)) \in Nat
      BY <1>a, ListFinite, CountFacts
    <3>3. held[d] \in Nat /\ refs[d] \in Nat
      BY <1>a DEF TypeOK
    <3>4. \/ refs'[d] = refs[d] /\ held'[d] = held[d]
          \/ refs'[d] = refs[d] + 1 /\ held'[d] = held[d] + 1
      BY <1>a, <1>1, <1>3 DEF TypeOK
    <3>. QED
      BY <2>2, <3>1, <3>2, <3>3, <3>4
  <2>. QED
    BY <2>3, <2>4 DEF Whole
<1>. QED
  BY <1>2, <1>8, <1>9, <1>10 DEF Inv
\* SetData: the old entry goes, and AddEntry computes what must be freed.
LEMMA SetDataInv ==
  ASSUME Inv, NEW t \in Type, NEW i \in Id, NEW d \in Data, NEW p \in Param,
         SetData(t, i, d, p)
  PROVE  Inv'
<1>a. TypeOK /\ MapOK /\ LastUsed
  BY DEF Inv
<1>b. /\ ReleaseEntries(Found(t, i), {})
      /\ adding' = [type |-> t, id |-> i, data |-> d, param |-> p]
      /\ nsize' = Excess(SizeOf[d])
      /\ UNCHANGED <<types, maxSizeUsed, held, overfull>>
  BY DEF SetData
<1>c. /\ Unlink(Found(t, i), {})
      /\ currentSize' = Word(currentSize - SizeSum(Found(t, i)))
  BY <1>b DEF ReleaseEntries
<1>d. /\ Found(t, i) \in SUBSET Entry /\ IsFiniteSet(Found(t, i))
      /\ \A e \in Found(t, i) : e.type = t /\ e.id = i /\ idMap[t][i] = e
      /\ Agree => Found(t, i) \in SUBSET Range(entryList)
  BY <1>a, FoundFacts
<1>e. /\ adding' \in Entry /\ adding'.type = t /\ adding'.id = i
      /\ adding'.data = d /\ Size(adding)' = SizeOf[d]
  BY <1>b DEF Entry, Size
<1>1. /\ entryList' \in Seq(Entry)
      /\ idMap' \in [Type -> [Id -> Entry \cup {None}]]
      /\ refs' \in [Data -> Nat]
      /\ recent' \in Entry \cup {None}
      /\ MapOK' /\ LastUsed'
      /\ \A u \in Type, j \in Id : idMap[u][j] = None => idMap'[u][j] = None
  BY <1>a, <1>c, <1>d, UnlinkTypes
<1>2. currentSize' \in 0..(WordMod - 1)
  <2>1. SizeSum(Found(t, i)) \in Nat /\ currentSize \in Int
    BY <1>a, <1>d, BytesFinite, Constants DEF TypeOK
  <2>. QED
    BY <1>c, <2>1, WordFacts
<1>3. /\ SizeOf[d] \in Nat /\ MaxSize \in Nat /\ WordMod \in Nat \ {0}
      /\ MaxSize + SizeOf[d] < WordMod /\ SizeOf[d] < WordMod \div 2
  BY Constants
<1>4. /\ currentSize' + SizeOf[d] \in Int
      /\ currentSize' + SizeOf[d] - MaxSize \in Int
  BY <1>2, <1>3
<1>5. nsize' \in (-WordMod)..WordMod
  <2>1. Signed(currentSize' + SizeOf[d] - MaxSize) \in (-WordMod)..WordMod
    BY <1>4, WordFacts
  <2>. QED
    BY <1>b, <1>3, <2>1 DEF Excess
<1>6. TypeOK'
  BY <1>a, <1>b, <1>e, <1>1, <1>2, <1>5 DEF TypeOK
<1>7. AddOK'
  <2>1. CASE idMap[t][i] = None
    BY <1>e, <1>1, <2>1 DEF AddOK
  <2>2. CASE idMap[t][i] # None
    <3>1. idMap[t][i] \in Found(t, i)
      BY <2>2 DEF Found
    <3>2. \E e \in Found(t, i) : e.type = t /\ e.id = i
      BY <1>d, <3>1
    <3>3. idMap'[t][i] = None
      BY <1>c, <3>2 DEF Unlink
    <3>. QED
      BY <1>e, <3>3 DEF AddOK
  <2>. QED
    BY <2>1, <2>2
<1>8. ASSUME ~overfull PROVE Whole' /\ RoomOK'
  <2>1. Whole
    BY <1>8 DEF Inv
  <2>2. Found(t, i) \in SUBSET Range(entryList)
    BY <1>d, <2>1 DEF Whole
  <2>3. \A e \in Range(entryList) : e.type \in {} => e \in Found(t, i)
    OBVIOUS
  <2>4. Whole'
    BY <1>a, <1>b, <2>1, <2>2, <2>3, ReleaseWhole
  <2>5. currentSize' <= MaxSize
    BY <2>4 DEF Whole, SizeOK
  <2>6. Word(currentSize' + SizeOf[d]) = currentSize' + SizeOf[d]
    <3>1. currentSize' + SizeOf[d] \in 0..(WordMod - 1)
      BY <1>2, <1>3, <2>5
    <3>. QED
      BY <1>4, <3>1, WordFacts
  <2>7. CASE currentSize' + SizeOf[d] > MaxSize
    <3>1. /\ 0 <= currentSize' + SizeOf[d] - MaxSize
          /\ currentSize' + SizeOf[d] - MaxSize < WordMod \div 2
      <4>1. WordMod \div 2 \in Int
        BY <1>3
      <4>. QED
        BY <1>2, <1>3, <2>5, <2>7, <4>1
    <3>2. Signed(currentSize' + SizeOf[d] - MaxSize) = currentSize' + SizeOf[d] - MaxSize
      BY <1>4, <3>1, WordFacts
    <3>3. nsize' = currentSize' + SizeOf[d] - MaxSize
      BY <1>b, <2>6, <2>7, <3>2 DEF Excess
    <3>. QED
      BY <1>e, <2>4, <3>3 DEF RoomOK
  <2>8. CASE ~(currentSize' + SizeOf[d] > MaxSize)
    <3>1. nsize' = 0
      BY <1>b, <2>6, <2>8 DEF Excess
    <3>2. currentSize' + SizeOf[d] <= MaxSize
      BY <1>2, <1>3, <2>8
    <3>. QED
      BY <1>e, <2>4, <3>1, <3>2 DEF RoomOK
  <2>. QED
    BY <2>7, <2>8
<1>. QED
  BY <1>b, <1>1, <1>6, <1>7, <1>8 DEF Inv

\* An iteration of AddEntry's loop: the oldest entry goes, and nsize goes down
\* by what currentSize does.
LEMMA MakeRoomInv == ASSUME Inv, MakeRoom PROVE Inv'
<1>a. TypeOK /\ MapOK /\ LastUsed /\ AddOK
  BY DEF Inv
<1>. DEFINE h == Head(entryList)
<1>b. /\ adding # None /\ nsize > 0 /\ entryList # <<>>
      /\ nsize' = nsize - Size(h)
      /\ ReleaseEntries({h}, {})
      /\ UNCHANGED <<types, maxSizeUsed, adding, held, overfull>>
  BY DEF MakeRoom, Idle
<1>c. h \in Entry /\ h \in Range(entryList)
  BY <1>a, <1>b DEF TypeOK, Range
<1>. HIDE DEF h
<1>d. {h} \in SUBSET Entry /\ IsFiniteSet({h}) /\ SizeSum({h}) = Size(h)
  BY <1>c, FS_Singleton, FS_EmptySet, SizeFacts
<1>e. Unlink({h}, {}) /\ currentSize' = Word(currentSize - SizeSum({h}))
  BY <1>b DEF ReleaseEntries
<1>f. h.data \in Data /\ Size(h) \in Nat /\ Size(h) < WordMod /\ WordMod \in Nat
  BY <1>c, Constants DEF Size
<1>1. /\ entryList' \in Seq(Entry)
      /\ idMap' \in [Type -> [Id -> Entry \cup {None}]]
      /\ refs' \in [Data -> Nat]
      /\ recent' \in Entry \cup {None}
      /\ MapOK' /\ LastUsed'
      /\ \A u \in Type, j \in Id : idMap[u][j] = None => idMap'[u][j] = None
  BY <1>a, <1>d, <1>e, UnlinkTypes
<1>2. currentSize' \in 0..(WordMod - 1)
  <2>1. currentSize \in Int
    BY <1>a, Constants DEF TypeOK
  <2>. QED
    BY <1>d, <1>e, <1>f, <2>1, WordFacts
<1>3. nsize' \in (-WordMod)..WordMod
  BY <1>a, <1>b, <1>f DEF TypeOK
<1>4. TypeOK'
  BY <1>a, <1>b, <1>1, <1>2, <1>3 DEF TypeOK
<1>5. AddOK'
  <2>1. adding \in Entry /\ adding.type \in Type /\ adding.id \in Id
    BY <1>a, <1>b, Constants DEF TypeOK
  <2>. QED
    BY <1>a, <1>b, <1>1, <2>1 DEF AddOK
<1>6. ASSUME ~overfull PROVE Whole' /\ RoomOK'
  <2>1. Whole /\ RoomOK
    BY <1>6 DEF Inv
  <2>2. {h} \in SUBSET Range(entryList)
    BY <1>c
  <2>3. \A e \in Range(entryList) : e.type \in {} => e \in {h}
    OBVIOUS
  <2>4. Whole' /\ currentSize' = currentSize - SizeSum({h})
    BY <1>a, <1>b, <2>1, <2>2, <2>3, ReleaseWhole
  <2>5. nsize = currentSize + Size(adding) - MaxSize
    BY <1>a, <1>b, <2>1 DEF RoomOK, TypeOK
  <2>6. currentSize \in Int /\ MaxSize \in Int /\ Size(adding) \in Int
    BY <1>a, <1>b, Constants DEF TypeOK
  <2>7. nsize' = currentSize' + Size(adding) - MaxSize
    BY <1>b, <1>d, <1>f, <2>4, <2>5, <2>6
  <2>8. Size(adding)' = Size(adding)
    BY <1>b DEF Size
  <2>. QED
    BY <2>4, <2>7, <2>8 DEF RoomOK
<1>. QED
  BY <1>b, <1>1, <1>4, <1>5, <1>6 DEF Inv

\* AddEntry gives up; the entry is in the idmap only.
LEMMA MemoryFullInv == ASSUME Inv, MemoryFull PROVE Inv'
<1>a. TypeOK /\ MapOK /\ LastUsed
  BY DEF Inv
<1>b. /\ adding # None
      /\ idMap' = [idMap EXCEPT ![adding.type][adding.id] = adding]
      /\ adding' = None /\ nsize' = 0 /\ overfull' = TRUE
      /\ UNCHANGED <<types, entryList, currentSize, maxSizeUsed, refs, held, recent>>
  BY DEF MemoryFull, IdMapInsert, Idle
<1>c. adding \in Entry /\ adding.type \in Type /\ adding.id \in Id
  BY <1>a, <1>b, Constants DEF TypeOK
<1>1. TypeOK'
  <2>1. idMap' \in [Type -> [Id -> Entry \cup {None}]]
    BY <1>a, <1>b, <1>c DEF TypeOK
  <2>2. nsize' \in (-WordMod)..WordMod
    BY <1>b, Constants
  <2>3. overfull' \in BOOLEAN
    BY <1>b, Zenon
  <2>. QED
    BY <1>a, <1>b, <2>1, <2>2, <2>3 DEF TypeOK
<1>2. MapOK'
  <2>. SUFFICES ASSUME NEW t \in Type, NEW i \in Id, idMap'[t][i] # None
                PROVE  idMap'[t][i].type = t /\ idMap'[t][i].id = i
    BY DEF MapOK
  <2>1. CASE t = adding.type /\ i = adding.id
    BY <1>a, <1>b, <1>c, <2>1 DEF TypeOK
  <2>2. CASE ~(t = adding.type /\ i = adding.id)
    <3>1. idMap'[t][i] = idMap[t][i]
      BY <1>a, <1>b, <1>c, <2>2 DEF TypeOK
    <3>. QED
      BY <1>a, <3>1 DEF MapOK
  <2>. QED
    BY <2>1, <2>2
<1>3. AddOK' /\ LastUsed'
  BY <1>a, <1>b DEF AddOK, LastUsed
<1>. QED
  BY <1>b, <1>1, <1>2, <1>3 DEF Inv
\* AddEntry succeeds: the entry goes into both containers, with a reference.
LEMMA AddEntryInv == ASSUME Inv, AddEntry PROVE Inv'
<1>a. TypeOK /\ MapOK /\ AddOK
  BY DEF Inv
<1>b. /\ adding # None /\ nsize <= 0
      /\ currentSize' = Word(currentSize + Size(adding))
      /\ maxSizeUsed' \in {currentSize', maxSizeUsed}
      /\ refs' = [refs EXCEPT ![adding.data] = @ + 1]
      /\ entryList' = Append(entryList, adding)
      /\ idMap' = [idMap EXCEPT ![adding.type][adding.id] = adding]
      /\ recent' = adding
      /\ adding' = None /\ nsize' = 0
      /\ UNCHANGED <<types, held, overfull>>
  BY DEF AddEntry, IdMapInsert, Idle
<1>c. /\ adding \in Entry /\ adding.type \in Type /\ adding.id \in Id
      /\ adding.data \in Data /\ Size(adding) \in Nat
  BY <1>a, <1>b, Constants DEF TypeOK
<1>d. /\ currentSize \in Nat /\ MaxSize \in Nat /\ WordMod \in Nat \ {0}
  BY <1>a, Constants DEF TypeOK
<1>1. /\ entryList' \in Seq(Entry) /\ entryList' # <<>>
      /\ entryList'[Len(entryList')] = adding
      /\ Range(entryList') = Range(entryList) \cup {adding}
      /\ NoRepeat(entryList) /\ adding \notin Range(entryList)
           => NoRepeat(entryList')
  BY <1>a, <1>b, <1>c, AppendFacts DEF TypeOK
<1>2. TypeOK'
  <2>1. idMap' \in [Type -> [Id -> Entry \cup {None}]]
    BY <1>a, <1>b, <1>c DEF TypeOK
  <2>2. currentSize' \in 0..(WordMod - 1)
    BY <1>b, <1>c, <1>d, WordFacts
  <2>3. maxSizeUsed' \in 0..(WordMod - 1) /\ nsize' \in (-WordMod)..WordMod
    BY <1>a, <1>b, <1>d, <2>2 DEF TypeOK
  <2>4. refs' \in [Data -> Nat]
    BY SMTT(30), <1>a, <1>b, <1>c DEF TypeOK
  <2>. QED
    BY <1>a, <1>b, <1>c, <1>1, <2>1, <2>2, <2>3, <2>4 DEF TypeOK
<1>3. \A t \in Type, i \in Id :
        idMap'[t][i] = IF t = adding.type /\ i = adding.id THEN adding
                                                         ELSE idMap[t][i]
  BY <1>a, <1>b, <1>c DEF TypeOK
<1>4. MapOK'
  BY <1>a, <1>3 DEF MapOK
<1>5. AddOK' /\ LastUsed' /\ RoomOK'
  BY <1>b, <1>1 DEF AddOK, LastUsed, RoomOK
<1>6. ASSUME ~overfull PROVE Whole'
  <2>1. Whole /\ RoomOK
    BY <1>6 DEF Inv
  <2>2. idMap[adding.type][adding.id] = None /\ adding \notin Range(entryList)
    BY <1>a, <1>b, <1>c, <2>1 DEF AddOK, Whole, Agree
  <2>3. Range(entryList) \in SUBSET Entry /\ IsFiniteSet(Range(entryList))
    BY <1>a, ListFinite
  <2>4. NoRepeat(entryList)'
    BY <1>1, <2>1, <2>2 DEF Whole
  <2>5. Agree'
    <3>. SUFFICES ASSUME NEW e \in Entry
                  PROVE  e \in Range(entryList') <=> idMap'[e.type][e.id] = e
      BY DEF Agree
    <3>1. e.type \in Type /\ e.id \in Id /\ e # None
      BY Constants
    <3>2. e \in Range(entryList) <=> idMap[e.type][e.id] = e
      BY <2>1 DEF Whole, Agree
    <3>3. CASE e.type = adding.type /\ e.id = adding.id
      <4>1. e \notin Range(entryList)
        BY <2>2, <3>1, <3>2, <3>3
      <4>. QED
        BY <1>1, <1>3, <3>1, <3>3, <4>1
    <3>4. CASE ~(e.type = adding.type /\ e.id = adding.id)
      BY <1>1, <1>3, <3>1, <3>2, <3>4
    <3>. QED
      BY <3>3, <3>4
  <2>6. SizeOK'
    <3>1. currentSize = SizeSum(Range(entryList)) /\ currentSize <= MaxSize
      BY <2>1 DEF Whole, SizeOK
    <3>2. SizeSum(Range(entryList) \cup {adding})
            = SizeSum(Range(entryList)) + Size(adding)
      BY <1>c, <2>2, <2>3, SizeFacts
    <3>3. currentSize + Size(adding) <= MaxSize
      <4>1. nsize \in Int
        BY <1>a, <1>d DEF TypeOK
      <4>. QED
        BY <1>b, <1>c, <1>d, <2>1, <4>1 DEF RoomOK
    <3>4. MaxSize < WordMod
      <4>1. MaxSize + SizeOf[adding.data] < WordMod /\ SizeOf[adding.data] \in Nat
        BY <1>c, Constants
      <4>. QED
        BY <1>d, <4>1
    <3>5. currentSize' = currentSize + Size(adding)
      <4>1. currentSize + Size(adding) \in 0..(WordMod - 1)
        BY <1>c, <1>d, <3>3, <3>4
      <4>. QED
        BY <1>b, <1>c, <1>d, <4>1, WordFacts
    <3>6. SizeSum(Range(entryList')) = currentSize + Size(adding)
      BY <1>1, <3>1, <3>2
    <3>. QED
      BY <3>3, <3>5, <3>6 DEF SizeOK
  <2>7. RefsOK'
    <3>. SUFFICES ASSUME NEW d \in Data
                  PROVE  refs'[d] = held'[d] + Cardinality(With(Range(entryList'), d))
      BY DEF RefsOK
    <3>1. refs[d] = held[d] + Cardinality(With(Range(entryList), d))
      BY <2>1 DEF Whole, RefsOK
    <3>2. /\ Cardinality(With(Range(entryList), d)) \in Nat
          /\ Cardinality(With(Range(entryList) \cup {adding}, d))
               = IF adding.data = d
                 THEN Cardinality(With(Range(entryList), d)) + 1
                 ELSE Cardinality(With(Range(entryList), d))
      BY <1>c, <2>2, <2>3, CountFacts
    <3>3. held[d] \in Nat /\ held'[d] = held[d]
      BY <1>a, <1>b DEF TypeOK
    <3>4. refs'[d] = IF adding.data = d THEN refs[d] + 1 ELSE refs[d]
      BY <1>a, <1>b, <1>c DEF TypeOK
    <3>. QED
      BY <1>1, <3>1, <3>2, <3>3, <3>4
  <2>. QED
    BY <2>4, <2>5, <2>6, <2>7 DEF Whole
<1>. QED
  BY <1>b, <1>2, <1>4, <1>5, <1>6 DEF Inv

\* GWEN_MultiCache_free releases whatever is in the list.
LEMMA MultiCacheFreeInv == ASSUME Inv, MultiCacheFree PROVE Inv'
<1>a. TypeOK /\ MapOK /\ LastUsed /\ adding = None
  BY DEF Inv, MultiCacheFree, Idle
<1>b. /\ Unlink(Range(entryList), Type)
      /\ types' = {} /\ currentSize' = 0 /\ maxSizeUsed' = 0
      /\ UNCHANGED <<adding, nsize, held, overfull>>
  BY DEF MultiCacheFree, adder
<1>c. Range(entryList) \in SUBSET Entry /\ IsFiniteSet(Range(entryList))
  BY <1>a, ListFinite
<1>1. /\ entryList' \in Seq(Entry)
      /\ idMap' \in [Type -> [Id -> Entry \cup {None}]]
      /\ refs' \in [Data -> Nat]
      /\ recent' \in Entry \cup {None}
      /\ MapOK' /\ LastUsed'
  BY <1>a, <1>b, <1>c, UnlinkTypes
<1>2. TypeOK'
  <2>1. currentSize' \in 0..(WordMod - 1) /\ maxSizeUsed' \in 0..(WordMod - 1)
    BY <1>b, Constants
  <2>. QED
    BY <1>a, <1>b, <1>1, <2>1 DEF TypeOK
<1>3. AddOK' /\ RoomOK'
  BY <1>a, <1>b DEF AddOK, RoomOK
<1>4. ASSUME ~overfull PROVE Whole'
  <2>1. Whole
    BY <1>4 DEF Inv
  <2>2. \A e \in Range(entryList) : e.type \in Type => e \in Range(entryList)
    OBVIOUS
  <2>3. /\ Range(entryList)' = Range(entryList) \ Range(entryList)
        /\ Agree' /\ NoRepeat(entryList)' /\ RefsOK'
    BY <1>a, <1>b, <2>1, <2>2, UnlinkWhole DEF Whole
  <2>4. Range(entryList') = {}
    BY <2>3
  <2>5. SizeSum(Range(entryList')) = 0
    BY <1>c, <2>4, SizeFacts
  <2>6. SizeOK'
    BY <1>b, <2>5, Constants DEF SizeOK
  <2>. QED
    BY <2>3, <2>6 DEF Whole
<1>. QED
  BY <1>b, <1>1, <1>2, <1>3, <1>4 DEF Inv

\* A caller creates an object, or gives up a reference to one.
LEMMA CallerInv ==
  ASSUME Inv, NEW d \in Data, Create(d) \/ Drop(d) PROVE Inv'
<1>a. TypeOK /\ Idle
  BY DEF Inv, Create, Drop
<1>b. /\ UNCHANGED <<types, idMap, entryList, currentSize, maxSizeUsed>>
      /\ UNCHANGED <<adding, nsize, recent, overfull>>
  BY DEF Create, Drop, cache, adder, ghost
<1>1. /\ refs' \in [Data -> Nat] /\ held' \in [Data -> 0..MaxHeld]
      /\ \A x \in Data \ {d} : refs'[x] = refs[x] /\ held'[x] = held[x]
      /\ \/ refs[d] = 0 /\ refs'[d] = 1 /\ held'[d] = 1
         \/ /\ held[d] > 0 /\ refs'[d] = Less(refs[d], 1)
            /\ held'[d] = held[d] - 1
  <2>1. CASE Create(d)
    BY <1>a, <2>1, Constants DEF Create, TypeOK
  <2>2. CASE Drop(d)
    <3>1. Less(refs[d], 1) \in Nat
      BY <1>a DEF TypeOK, Less
    <3>. QED
      BY <1>a, <2>2, <3>1, Constants DEF Drop, TypeOK
  <2>. QED
    BY <2>1, <2>2
<1>2. TypeOK'
  BY <1>a, <1>b, <1>1 DEF TypeOK
<1>3. MapOK' /\ AddOK' /\ LastUsed'
  BY <1>b DEF Inv, MapOK, AddOK, LastUsed
<1>4. ASSUME ~overfull PROVE Whole' /\ RoomOK'
  <2>1. Whole /\ RoomOK
    BY <1>4 DEF Inv
  <2>2. Agree' /\ NoRepeat(entryList)' /\ SizeOK' /\ RoomOK'
    BY <1>b, <2>1 DEF Whole, Agree, SizeOK, RoomOK, Size
  <2>3. RefsOK'
    <3>. SUFFICES ASSUME NEW x \in Data
                  PROVE  refs'[x] = held'[x] + Cardinality(With(Range(entryList), x))
      BY <1>b DEF RefsOK
    <3>1. /\ refs[x] = held[x] + Cardinality(With(Range(entryList), x))
          /\ held[x] \in Nat
      BY <1>a, <2>1 DEF Whole, RefsOK, TypeOK
    <3>2. Cardinality(With(Range(entryList), x)) \in Nat
      BY <1>a, ListFinite, CountFacts
    <3>. QED
      BY <1>1, <3>1, <3>2 DEF Less
  <2>. QED
    BY <2>2, <2>3 DEF Whole
<1>. QED
  BY <1>b, <1>2, <1>3, <1>4 DEF Inv

\* Steps that leave everything but the set of types alone.
LEMMA TypesOnlyInv ==
  ASSUME Inv, types' \subseteq Type,
         UNCHANGED <<idMap, entryList, currentSize, maxSizeUsed, adding, nsize,
                     refs, held, recent, overfull>>
  PROVE  Inv'
<1>1. TypeOK'
  BY DEF Inv, TypeOK
<1>2. MapOK' /\ AddOK' /\ LastUsed'
  BY DEF Inv, MapOK, AddOK, LastUsed
<1>3. overfull \/ (Whole' /\ RoomOK')
  BY DEF Inv, Whole, Agree, SizeOK, RefsOK, RoomOK, Size
<1>. QED
  BY <1>1, <1>2, <1>3 DEF Inv

\* Inv is inductive.
LEMMA StepInv == Inv /\ [Next]_vars => Inv'
<1>. SUFFICES ASSUME Inv, [Next]_vars PROVE Inv'
  OBVIOUS
<1>1. CASE UNCHANGED vars
  BY <1>1, TypesOnlyInv DEF vars, cache, adder, ghost, Inv, TypeOK
<1>2. ASSUME NEW t \in Type, TypeNew(t) PROVE Inv'
  BY <1>2, TypesOnlyInv DEF TypeNew, adder, ghost, Inv, TypeOK
<1>3. ASSUME NEW t \in Type, TypeFree(t) \/ PurgeAll(t) PROVE Inv'
  BY <1>3, TypeFreeInv, PurgeAllInv
<1>4. ASSUME NEW t \in Type, NEW i \in Id, PurgeData(t, i) PROVE Inv'
  BY <1>4, PurgeDataInv
<1>5. ASSUME NEW t \in Type, NEW i \in Id, NEW p \in Param, GetData(t, i, p)
      PROVE  Inv'
  BY <1>5, GetDataInv
<1>6. ASSUME NEW t \in Type, NEW i \in Id, NEW d \in Data, NEW p \in Param,
             SetData(t, i, d, p)
      PROVE  Inv'
  BY <1>6, SetDataInv
<1>7. CASE MakeRoom \/ MemoryFull \/ AddEntry \/ MultiCacheFree
  BY <1>7, MakeRoomInv, MemoryFullInv, AddEntryInv, MultiCacheFreeInv
<1>8. ASSUME NEW d \in Data, Create(d) \/ Drop(d) PROVE Inv'
  BY <1>8, CallerInv
<1>. QED
  BY <1>1, <1>2, <1>3, <1>4, <1>5, <1>6, <1>7, <1>8 DEF Next

\* The inductive invariant holds in every reachable state.
THEOREM Invariance == Spec => []Inv
  BY InitInv, StepInv, PTL DEF Spec

-----------------------------------------------------------------------------
(* The properties.                                                         *)

\* Type correctness, also after AddEntry has failed: the unsigned sizes stay
\* within their word, the signed nsize within its.
THEOREM TypeCorrect == Spec => []TypeOK
<1>1. Inv => TypeOK
  BY DEF Inv
<1>. QED
  BY <1>1, Invariance, PTL

\* Until AddEntry fails, whatever the order of calls, an object is found by
\* its type and id exactly while it is in the list, and it is there once.
THEOREM MapTheorem == Spec => []MapMatchesList
<1>1. Inv => MapMatchesList
  <2>. SUFFICES ASSUME Inv, ~overfull
                PROVE  /\ Retrievable = Range(entryList)
                       /\ Cardinality(Range(entryList)) = Len(entryList)
    BY DEF MapMatchesList
  <2>1. TypeOK /\ MapOK /\ Agree /\ NoRepeat(entryList)
    BY DEF Inv, Whole
  <2>2. Cardinality(Range(entryList)) = Len(entryList)
    BY <2>1, RangeFacts DEF TypeOK
  <2>3. ASSUME NEW e \in Retrievable PROVE e \in Range(entryList)
    <3>1. PICK t \in Type, i \in Id : e = idMap[t][i] /\ e # None
      BY <2>3 DEF Retrievable
    <3>2. e \in Entry /\ e.type = t /\ e.id = i
      BY <2>1, <3>1 DEF TypeOK, MapOK
    <3>. QED
      BY <2>1, <3>1, <3>2 DEF Agree
  <2>4. ASSUME NEW e \in Range(entryList) PROVE e \in Retrievable
    <3>1. e \in Entry /\ e.type \in Type /\ e.id \in Id /\ e # None
      BY <2>1, ListFinite, Constants
    <3>. QED
      BY <2>1, <3>1 DEF Agree, Retrievable
  <2>. QED
    BY <2>2, <2>3, <2>4
<1>. QED
  BY <1>1, Invariance, PTL

\* Until AddEntry fails, the counter of ReleaseEntry and AddEntry is the sum of
\* the sizes of the entries, never wraps and never exceeds the maximum.
THEOREM SizeTheorem == Spec => []SizeAccounting
<1>1. Inv => SizeAccounting
  BY DEF Inv, Whole, SizeOK, SizeAccounting
<1>. QED
  BY <1>1, Invariance, PTL

\* Until AddEntry fails, an object has exactly the references of its users and
\* of its entries.
THEOREM RefsTheorem == Spec => []RefsBalanced
<1>1. Inv => RefsBalanced
  BY DEF Inv, Whole, RefsOK, With, RefsBalanced
<1>. QED
  BY <1>1, Invariance, PTL

\* Until AddEntry fails, it drops entries only while the new one does not fit.
THEOREM RoomTheorem == Spec => DropsOnlyForRoom
<1>1. Inv /\ [Next]_vars
        => [MakeRoom /\ ~overfull => currentSize + Size(adding) > MaxSize]_vars
  <2>. SUFFICES ASSUME Inv, MakeRoom, ~overfull
                PROVE  currentSize + Size(adding) > MaxSize
    OBVIOUS
  <2>1. TypeOK /\ RoomOK /\ adding # None /\ nsize > 0
    BY DEF Inv, MakeRoom, Idle
  <2>2. /\ currentSize \in Int /\ MaxSize \in Int /\ Size(adding) \in Int
        /\ nsize \in Int
    BY <2>1, Constants DEF TypeOK
  <2>. QED
    BY <2>1, <2>2 DEF RoomOK
<1>. QED
  BY <1>1, Invariance, PTL DEF Spec, DropsOnlyForRoom

\* Until AddEntry fails, it drops the entry used last only when no other is
\* left: the list is in the order of use, and MakeRoom takes from its head.
THEOREM RecentTheorem == Spec => RecentDroppedLast
<1>1. Inv /\ [Next]_vars
        => [MakeRoom /\ ~overfull /\ recent # None /\ recent' = None
              => Len(entryList) = 1]_vars
  <2>. SUFFICES ASSUME Inv, MakeRoom, ~overfull, recent # None, recent' = None
                PROVE  Len(entryList) = 1
    OBVIOUS
  <2>1. TypeOK /\ LastUsed /\ NoRepeat(entryList)
    BY DEF Inv, Whole
  <2>2. recent = Head(entryList)
    BY DEF MakeRoom, ReleaseEntries, Unlink
  <2>3. entryList # <<>> /\ entryList[Len(entryList)] = entryList[1]
    BY <2>1, <2>2 DEF LastUsed, TypeOK
  <2>4. 1 \in DOMAIN entryList /\ Len(entryList) \in DOMAIN entryList
    BY <2>1, <2>3 DEF TypeOK
  <2>. QED
    BY <2>1, <2>3, <2>4 DEF NoRepeat
<1>. QED
  BY <1>1, Invariance, PTL DEF Spec, RecentDroppedLast
=============================================================================
