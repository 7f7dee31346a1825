------------------------- MODULE CacheStorageProofs -------------------------
(***************************************************************************)
(* Proofs about CacheStorage: the queue and the map agree, the cache stays *)
(* within its capacity, it shows the backend's bytes unless the backend    *)
(* was changed behind its back, it gives up the least recently used key,   *)
(* and a handle that owns its backend implements KVStore.                  *)
(***************************************************************************)
EXTENDS CacheStorage, SequenceTheorems, FiniteSetTheorems, TLAPS

Distinct(q) == \A i, j \in DOMAIN q : q[i] = q[j] => i = j

InOrder(q, R) == \A i, j \in DOMAIN q : i < j => <<q[j], q[i]>> \in R

-----------------------------------------------------------------------------
(***************************************************************************)
(* Queues without duplicates.                                              *)
(***************************************************************************)

(* A queue without duplicates holds as many elements as it is long.        *)
LEMMA DistinctCardinality ==
  ASSUME NEW q \in Seq(Key), Distinct(q)
  PROVE  Cardinality(ToSet(q)) = Len(q)
<1>1. q \in [1..Len(q) -> ToSet(q)] /\ DOMAIN q = 1..Len(q) /\ Len(q) \in Nat
  BY LenProperties DEF ToSet
<1>2. q \in Bijection(1..Len(q), ToSet(q))
  BY <1>1, Zenon DEF Distinct, Bijection, Injection, IsInjective, Surjection, ToSet
<1>3. QED
  BY <1>1, <1>2, FS_CountingElements DEF ExistsBijection

(* VecDeque::remove at the position of k: the other elements keep their    *)
(* order, and k is gone.                                                   *)
LEMMA RemoveFirstFacts ==
  ASSUME NEW q \in Seq(Key), Distinct(q), NEW k \in Key
  PROVE  LET r == RemoveFirst(q, k)
         IN  /\ r \in Seq(Key)
             /\ Distinct(r)
             /\ ToSet(r) = ToSet(q) \ {k}
             /\ \A i, j \in DOMAIN r : i < j =>
                  \E a, b \in DOMAIN q : a < b /\ r[i] = q[a] /\ r[j] = q[b]
<1> DEFINE r == RemoveFirst(q, k)
<1>0. Len(q) \in Nat /\ DOMAIN q = 1..Len(q) /\ \A i \in 1..Len(q) : q[i] \in Key
  BY LenProperties, ElementOfSeq
<1>1. CASE ~ \E i \in 1..Len(q) : q[i] = k
  <2>1. r = q
    BY <1>1 DEF RemoveFirst
  <2>2. QED
    BY <1>0, <1>1, <2>1 DEF ToSet
<1>2. CASE \E i \in 1..Len(q) : q[i] = k
  <2>1. PICK p \in 1..Len(q) : q[p] = k
    BY <1>2
  <2>2. {i \in 1..Len(q) : q[i] = k} = {p}
    BY <1>0, <2>1 DEF Distinct
  <2>3. SelectInSeq(q, LAMBDA v : v = k) = p
    BY <1>0, <2>2 DEF SelectInSeq, Min
  <2>4. r = SubSeq(q, 1, p - 1) \o SubSeq(q, p + 1, Len(q))
    BY <1>2, <2>3 DEF RemoveFirst, RemoveAt
  <2> DEFINE s == SubSeq(q, 1, p - 1)
             t == SubSeq(q, p + 1, Len(q))
  <2>5. /\ s \in Seq(Key) /\ Len(s) = p - 1
        /\ \A i \in 1..p-1 : s[i] = q[i]
    BY <1>0, SubSeqProperties
  <2>6. /\ t \in Seq(Key) /\ Len(t) = Len(q) - p
        /\ \A i \in 1..Len(q)-p : t[i] = q[p + i]
    <3>1. \A i \in p+1..Len(q) : q[i] \in Key
      BY <1>0
    <3>2. /\ t \in Seq(Key)
          /\ Len(t) = IF p + 1 <= Len(q) THEN Len(q) - (p + 1) + 1 ELSE 0
          /\ \A i \in 1..Len(q)-(p+1)+1 : t[i] = q[(p + 1) + i - 1]
      <4>1. p + 1 \in Int /\ Len(q) \in Int
        BY <1>0
      <4>2. QED
        BY <3>1, <4>1, SubSeqProperties
    <3> HIDE DEF t
    <3>3. ASSUME NEW i \in 1..Len(q)-p PROVE t[i] = q[p + i]
      <4>1. i \in 1..Len(q)-(p+1)+1 /\ (p + 1) + i - 1 = p + i
        BY <1>0
      <4>2. QED
        BY <3>2, <4>1
    <3>4. Len(t) = Len(q) - p
      <4>1. Len(t) = IF p + 1 <= Len(q) THEN Len(q) - (p + 1) + 1 ELSE 0
        BY <3>2
      <4>2. Len(q) \in Nat
        BY <1>0
      <4>3. QED
        BY <4>1, <4>2
    <3>5. QED
      BY <3>2, <3>3, <3>4
  <2> HIDE DEF s, t
  <2>7. /\ r \in Seq(Key) /\ Len(r) = Len(q) - 1
        /\ \A i \in 1..Len(q)-1 : r[i] = IF i < p THEN q[i] ELSE q[i + 1]
    <3>1. r = s \o t
      BY <2>4 DEF s, t
    <3>2. /\ s \o t \in Seq(Key)
          /\ Len(s \o t) = Len(s) + Len(t)
          /\ \A i \in 1..Len(s)+Len(t) :
               (s \o t)[i] = IF i <= Len(s) THEN s[i] ELSE t[i - Len(s)]
      BY <2>5, <2>6, ConcatProperties
    <3> HIDE DEF r
    <3>3. QED
      BY <1>0, <2>5, <2>6, <3>1, <3>2
  <2> HIDE DEF r
  <2>8. DOMAIN r = 1..Len(q)-1
    BY <2>7, LenProperties
  <2> DEFINE at(i) == IF i < p THEN i ELSE i + 1
  <2>21. \A i \in DOMAIN r : at(i) \in DOMAIN q /\ at(i) # p
    BY <1>0, <2>8
  <2>22. \A i, j \in DOMAIN r : at(i) = at(j) => i = j
    BY <1>0, <2>8
  <2>23. \A i \in DOMAIN r : r[i] = q[at(i)]
    BY <2>7, <2>8
  <2> HIDE DEF at
  <2>9. Distinct(r)
    BY <2>21, <2>22, <2>23 DEF Distinct
  <2>10. ToSet(r) = ToSet(q) \ {k}
    <3>1. ASSUME NEW i \in DOMAIN r PROVE r[i] \in ToSet(q) \ {k}
      <4>1. at(i) \in DOMAIN q /\ at(i) # p /\ p \in DOMAIN q
        BY <1>0, <2>21
      <4>2. q[at(i)] # k
        BY <2>1, <4>1 DEF Distinct
      <4>3. QED
        BY <2>23, <4>1, <4>2 DEF ToSet
    <3>2. ASSUME NEW i \in DOMAIN q, q[i] # k PROVE \E j \in DOMAIN r : r[j] = q[i]
      <4>1. CASE i < p
        BY <4>1, <1>0, <2>7, <2>8
      <4>2. CASE i > p
        <5>1. i - 1 \in DOMAIN r /\ r[i - 1] = q[i]
          BY <4>2, <1>0, <2>7, <2>8
        <5>2. QED
          BY <5>1
      <4>3. QED
        BY <1>0, <2>1, <3>2, <4>1, <4>2
    <3>3. QED
      BY <3>1, <3>2 DEF ToSet
  <2>11. ASSUME NEW i \in DOMAIN r, NEW j \in DOMAIN r, i < j
         PROVE  \E a, b \in DOMAIN q : a < b /\ r[i] = q[a] /\ r[j] = q[b]
    <3> DEFINE a == IF i < p THEN i ELSE i + 1
               b == IF j < p THEN j ELSE j + 1
    <3>1. a \in DOMAIN q /\ b \in DOMAIN q /\ a < b /\ r[i] = q[a] /\ r[j] = q[b]
      BY <1>0, <2>7, <2>8, <2>11
    <3>2. QED
      BY <3>1
  <2>12. QED
    BY <2>7, <2>9, <2>10, <2>11 DEF r
<1>3. QED
  BY <1>1, <1>2

(* A use of k keeps the queue free of duplicates, adds k to it, and keeps  *)
(* it in order of last use.                                                *)
LEMMA TouchFacts ==
  ASSUME NEW q \in Seq(Key), Distinct(q), NEW k \in Key
  PROVE  /\ Touch(q, k) \in Seq(Key)
         /\ Distinct(Touch(q, k))
         /\ ToSet(Touch(q, k)) = ToSet(q) \cup {k}
         /\ InOrder(q, older) => InOrder(Touch(q, k), UsedNow(k))
<1> DEFINE r == RemoveFirst(q, k)
           m == Touch(q, k)
<1>1. /\ r \in Seq(Key) /\ Distinct(r) /\ ToSet(r) = ToSet(q) \ {k}
      /\ \A i, j \in DOMAIN r : i < j =>
            \E a, b \in DOMAIN q : a < b /\ r[i] = q[a] /\ r[j] = q[b]
  BY RemoveFirstFacts
<1>2. /\ <<k>> \in Seq(Key) /\ Len(<<k>>) = 1 /\ <<k>>[1] = k
  OBVIOUS
<1>3. m = <<k>> \o r
  BY DEF Touch
<1> HIDE DEF r, m
<1>4. Len(r) \in Nat /\ DOMAIN r = 1..Len(r) /\ \A i \in 1..Len(r) : r[i] \in Key
  BY <1>1, LenProperties, ElementOfSeq
<1>5. /\ m \in Seq(Key) /\ Len(m) = Len(r) + 1
      /\ \A i \in 1..Len(r)+1 : m[i] = IF i = 1 THEN k ELSE r[i - 1]
  <2>1. /\ <<k>> \o r \in Seq(Key)
        /\ Len(<<k>> \o r) = Len(<<k>>) + Len(r)
        /\ \A i \in 1..Len(<<k>>)+Len(r) :
             (<<k>> \o r)[i] = IF i <= Len(<<k>>) THEN <<k>>[i] ELSE r[i - Len(<<k>>)]
    BY <1>1, <1>2, ConcatProperties
  <2>2. QED
    BY <2>1, <1>2, <1>3, <1>4
<1>6. DOMAIN m = 1..Len(r)+1
  BY <1>5, LenProperties
<1>7. \A i \in DOMAIN r : r[i] # k
  BY <1>1 DEF ToSet
<1>8. Distinct(m)
  <2>1. SUFFICES ASSUME NEW i \in DOMAIN m, NEW j \in DOMAIN m, m[i] = m[j]
                 PROVE  i = j
    BY DEF Distinct
  <2>2. CASE i = 1 \/ j = 1
    <3>1. \A h \in DOMAIN m : m[h] = k => h = 1
      <4>1. ASSUME NEW h \in DOMAIN m, h # 1 PROVE m[h] # k
        <5>1. h - 1 \in DOMAIN r /\ m[h] = r[h - 1]
          BY <1>4, <1>5, <1>6, <4>1
        <5>2. QED
          BY <1>7, <5>1
      <4>2. QED
        BY <4>1
    <3>2. m[1] = k
      BY <1>4, <1>5
    <3>3. QED
      BY <2>1, <2>2, <3>1, <3>2
  <2>3. CASE i # 1 /\ j # 1
    <3>1. i - 1 \in DOMAIN r /\ j - 1 \in DOMAIN r /\ r[i - 1] = r[j - 1]
      BY <1>4, <1>5, <1>6, <2>1, <2>3
    <3>2. i - 1 = j - 1
      BY <1>1, <3>1 DEF Distinct
    <3>3. QED
      BY <1>4, <1>6, <3>2
  <2>4. QED
    BY <2>2, <2>3
<1>9. ToSet(m) = ToSet(q) \cup {k}
  <2>1. ASSUME NEW i \in DOMAIN m PROVE m[i] \in ToSet(r) \cup {k}
    BY <1>4, <1>5, <1>6 DEF ToSet
  <2>2. ASSUME NEW i \in DOMAIN r PROVE \E j \in DOMAIN m : m[j] = r[i]
    <3>1. i + 1 \in DOMAIN m /\ m[i + 1] = r[i]
      BY <1>4, <1>5, <1>6
    <3>2. QED
      BY <3>1
  <2>3. 1 \in DOMAIN m /\ m[1] = k
    BY <1>4, <1>5, <1>6
  <2>4. ToSet(m) = ToSet(r) \cup {k}
    BY <2>1, <2>2, <2>3 DEF ToSet
  <2>5. k \in ToSet(q) \/ k \notin ToSet(q)
    OBVIOUS
  <2>6. QED
    BY <2>4, <1>1
<1>10. ASSUME InOrder(q, older), NEW i \in DOMAIN m, NEW j \in DOMAIN m, i < j
       PROVE  <<m[j], m[i]>> \in UsedNow(k)
  <2>1. j - 1 \in DOMAIN r /\ m[j] = r[j - 1] /\ r[j - 1] \in Key \ {k}
    BY <1>4, <1>5, <1>6, <1>7, <1>10
  <2>2. CASE i = 1
    <3>1. m[i] = k
      BY <2>2, <1>4, <1>5
    <3>2. QED
      BY <2>1, <3>1 DEF UsedNow
  <2>3. CASE i # 1
    <3>1. i - 1 \in DOMAIN r /\ m[i] = r[i - 1] /\ r[i - 1] # k /\ i - 1 < j - 1
      BY <1>4, <1>5, <1>6, <1>7, <1>10, <2>3
    <3>2. PICK a \in DOMAIN q, b \in DOMAIN q :
            a < b /\ r[i - 1] = q[a] /\ r[j - 1] = q[b]
      BY <1>1, <2>1, <3>1
    <3>3. <<q[b], q[a]>> \in older
      BY <1>10, <3>2 DEF InOrder
    <3>4. <<m[j], m[i]>> \in older /\ m[i] # k /\ m[j] # k
      BY <2>1, <3>1, <3>2, <3>3
    <3>5. QED
      BY <3>4 DEF UsedNow
  <2>4. QED
    BY <2>2, <2>3
<1>11. QED
  BY <1>5, <1>8, <1>9, <1>10 DEF m, InOrder

(* Popping n keys from the back keeps the first Len(q) - n, in their order. *)
LEMMA PopFacts ==
  ASSUME NEW q \in Seq(Key), Distinct(q), NEW n \in 0..Len(q)
  PROVE  LET kept == SubSeq(q, 1, Len(q) - n)
         IN  /\ kept \in Seq(Key)
             /\ Len(kept) = Len(q) - n
             /\ Distinct(kept)
             /\ ToSet(kept) = ToSet(q) \ Popped(q, n)
             /\ \A R : InOrder(q, R) => InOrder(kept, R)
             /\ \A R : InOrder(q, R) =>
                  \A e \in Popped(q, n), r \in ToSet(kept) : <<e, r>> \in R
<1> DEFINE kept == SubSeq(q, 1, Len(q) - n)
<1>1. Len(q) \in Nat /\ DOMAIN q = 1..Len(q) /\ \A i \in 1..Len(q) : q[i] \in Key
  BY LenProperties, ElementOfSeq
<1>2. /\ kept \in Seq(Key) /\ Len(kept) = Len(q) - n
      /\ \A i \in 1..Len(q)-n : kept[i] = q[i]
  <2>1. /\ kept \in Seq(Key)
        /\ Len(kept) = IF 1 <= Len(q) - n THEN Len(q) - n - 1 + 1 ELSE 0
        /\ \A i \in 1..Len(q)-n-1+1 : kept[i] = q[1 + i - 1]
    <3>1. Len(q) - n \in Int /\ \A i \in 1..Len(q)-n : q[i] \in Key
      BY <1>1
    <3>2. QED
      BY <3>1, SubSeqProperties
  <2> HIDE DEF kept
  <2>2. Len(kept) = Len(q) - n
    <3>1. Len(kept) = IF 1 <= Len(q) - n THEN Len(q) - n - 1 + 1 ELSE 0
      BY <2>1
    <3>2. Len(q) \in Nat
      BY <1>1
    <3>3. QED
      BY <3>1, <3>2
  <2>3. ASSUME NEW i \in 1..Len(q)-n PROVE kept[i] = q[i]
    <3>1. i \in 1..Len(q)-n-1+1 /\ 1 + i - 1 = i
      BY <1>1
    <3>2. QED
      BY <2>1, <3>1
  <2>4. QED
    BY <2>1, <2>2, <2>3
<1> HIDE DEF kept
<1>3. DOMAIN kept = 1..Len(q)-n
  BY <1>2, LenProperties
<1>4. Distinct(kept)
  BY <1>1, <1>2, <1>3 DEF Distinct
<1>5. ToSet(kept) = ToSet(q) \ Popped(q, n)
  <2>1. ASSUME NEW i \in DOMAIN kept
        PROVE  kept[i] \in ToSet(q) \ Popped(q, n)
    <3>1. i \in DOMAIN q /\ kept[i] = q[i] /\ i <= Len(q) - n
      BY <1>1, <1>2, <1>3
    <3>2. q[i] \notin Popped(q, n)
      BY <1>1, <3>1 DEF Popped, Distinct
    <3>3. QED
      BY <3>1, <3>2 DEF ToSet
  <2>2. ASSUME NEW i \in DOMAIN q, q[i] \notin Popped(q, n)
        PROVE  i \in DOMAIN kept /\ kept[i] = q[i]
    <3>1. i <= Len(q) - n
      BY <1>1, <2>2 DEF Popped
    <3>2. QED
      BY <1>1, <1>2, <1>3, <3>1
  <2>3. QED
    BY <2>1, <2>2 DEF ToSet
<1>6. ASSUME NEW R, InOrder(q, R)
      PROVE  /\ InOrder(kept, R)
             /\ \A e \in Popped(q, n), r \in ToSet(kept) : <<e, r>> \in R
  <2>1. InOrder(kept, R)
    BY <1>1, <1>2, <1>3, <1>6 DEF InOrder
  <2>2. ASSUME NEW e \in Popped(q, n), NEW r \in ToSet(kept)
        PROVE  <<e, r>> \in R
    <3>1. PICK j \in DOMAIN q : j > Len(q) - n /\ e = q[j]
      BY DEF Popped
    <3>2. PICK i \in DOMAIN kept : r = kept[i]
      BY DEF ToSet
    <3>3. i \in DOMAIN q /\ r = q[i] /\ i < j
      BY <1>1, <1>2, <1>3, <3>1, <3>2
    <3>4. QED
      BY <1>6, <3>1, <3>3 DEF InOrder
  <2>3. QED
    BY <2>1, <2>2
<1>7. QED
  BY <1>2, <1>4, <1>5, <1>6 DEF kept

-----------------------------------------------------------------------------
(***************************************************************************)
(* What the three ways of changing the cache do.                           *)
(***************************************************************************)

(* What the cached part of the state satisfies between any two calls.      *)
LEMMA CacheFacts ==
  ASSUME IndInv
  PROVE  /\ lru \in Seq(Key) /\ Distinct(lru) /\ ToSet(lru) = Cached
         /\ InOrder(lru, older)
         /\ cache \in [Key -> Value \cup {None}]
         /\ data \in [Key -> Value \cup {None}]
         /\ fresh \subseteq Cached /\ Cached \subseteq Key
         /\ older \subseteq Key \X Key
         /\ dirty \subseteq Key
         /\ IsFiniteSet(Cached) /\ Cardinality(Cached) \in Nat
         /\ Cardinality(Cached) <= MaxEntries
<1>1. Cached \subseteq Key
  BY DEF Cached
<1>2. IsFiniteSet(Cached) /\ Cardinality(Cached) \in Nat
  BY <1>1, KeyFinite, FS_Subset, FS_CardinalityType
<1>3. QED
  BY <1>1, <1>2 DEF IndInv, TypeOK, LruMirrorsCache, CapacityRespected,
     FreshIsCached, RecencyOrder, Distinct, InOrder, Mem!MemTypeOK

(* Insert, move to the front, evict down to capacity.                      *)
LEMMA FillFacts ==
  ASSUME IndInv, NEW k \in Key, NEW v \in Value, Fill(k, v)
  PROVE  /\ lru' \in Seq(Key) /\ Distinct(lru') /\ ToSet(lru') = Cached'
         /\ InOrder(lru', older')
         /\ cache' \in [Key -> Value \cup {None}]
         /\ fresh' \subseteq Cached'
         /\ older' \subseteq Key \X Key
         /\ Cardinality(Cached') <= MaxEntries
         /\ \A j \in Cached' : cache'[j] = IF j = k THEN v ELSE cache[j]
         /\ \A j \in Cached' : j = k \/ j \in Cached
         /\ \A e \in Cached \ Cached', r \in Cached' : <<e, r>> \in older'
<1> DEFINE queue == Touch(lru, k)
           n     == Excess(Cached \cup {k})
           out   == Popped(queue, n)
           kept  == SubSeq(queue, 1, Len(queue) - n)
<1>1. /\ lru \in Seq(Key) /\ Distinct(lru) /\ ToSet(lru) = Cached
      /\ InOrder(lru, older)
      /\ cache \in [Key -> Value \cup {None}]
      /\ fresh \subseteq Cached /\ Cached \subseteq Key
      /\ older \subseteq Key \X Key
  BY CacheFacts
<1>2. /\ queue \in Seq(Key) /\ Distinct(queue)
      /\ ToSet(queue) = Cached \cup {k}
      /\ InOrder(queue, UsedNow(k))
  BY <1>1, TouchFacts
<1>3. /\ lru' = kept
      /\ cache' = [j \in Key |-> IF j \in out THEN None
                                  ELSE [cache EXCEPT ![k] = v][j]]
      /\ fresh' = (fresh \cup {k}) \ out
      /\ older' = UsedNow(k)
  BY DEF Fill
<1>4. Cardinality(Cached \cup {k}) = Len(queue) /\ Len(queue) \in Nat
  <2>1. Cardinality(ToSet(queue)) = Len(queue)
    BY <1>2, DistinctCardinality
  <2>2. Len(queue) \in Nat
    BY <1>2, LenProperties
  <2>3. QED
    BY <1>2, <2>1, <2>2
<1>5. n \in 0..Len(queue) /\ Len(queue) - n <= MaxEntries
  BY <1>4, MaxEntriesIsNat DEF Excess
<1> HIDE DEF queue, n
<1>6. /\ kept \in Seq(Key) /\ Len(kept) = Len(queue) - n
      /\ Distinct(kept)
      /\ ToSet(kept) = ToSet(queue) \ out
      /\ \A R : InOrder(queue, R) => InOrder(kept, R)
      /\ \A R : InOrder(queue, R) =>
           \A e \in Popped(queue, n), r \in ToSet(kept) : <<e, r>> \in R
  BY <1>2, <1>5, PopFacts
<1> HIDE DEF out, kept
<1>7. cache' \in [Key -> Value \cup {None}]
  BY <1>1, <1>3
<1>8. Cached' = (Cached \cup {k}) \ out
  <2>1. ASSUME NEW j \in Key
        PROVE  cache'[j] # None <=> j \in (Cached \cup {k}) \ out
    <3>1. [cache EXCEPT ![k] = v][j] = IF j = k THEN v ELSE cache[j]
      BY <1>1
    <3>2. cache'[j] = IF j \in out THEN None ELSE IF j = k THEN v ELSE cache[j]
      BY <1>3, <3>1
    <3>3. QED
      BY <3>2, NoneIsNothing DEF Cached
  <2>2. Cached' = {j \in Key : cache'[j] # None}
    BY DEF Cached
  <2>3. QED
    BY <1>1, <2>1, <2>2
<1>9. ToSet(lru') = Cached'
  BY <1>2, <1>3, <1>6, <1>8
<1>10. Cardinality(Cached') <= MaxEntries
  <2>1. Cardinality(ToSet(kept)) = Len(kept)
    BY <1>6, DistinctCardinality
  <2>2. QED
    BY <1>3, <1>5, <1>6, <1>9, <2>1
<1>11. InOrder(lru', older')
  BY <1>2, <1>3, <1>6
<1>12. older' \subseteq Key \X Key
  BY <1>1, <1>3 DEF UsedNow
<1>13. \A j \in Cached' : cache'[j] = IF j = k THEN v ELSE cache[j]
  <2>1. ASSUME NEW j \in Cached' PROVE j \in Key /\ j \notin out
    BY <1>1, <1>8
  <2>2. QED
    BY <1>1, <1>3, <2>1
<1>14. \A e \in Cached \ Cached', r \in Cached' : <<e, r>> \in older'
  <2>1. Cached \ Cached' \subseteq out
    BY <1>8
  <2>2. QED
    BY <1>2, <1>3, <1>6, <1>9, <2>1 DEF out
<1>15. QED
  BY <1>1, <1>3, <1>6, <1>7, <1>8, <1>9, <1>10, <1>11, <1>12, <1>13, <1>14

(* delete drops the entry and its place in the queue.                      *)
LEMMA ForgetFacts ==
  ASSUME IndInv, NEW k \in Key, Forget(k)
  PROVE  /\ lru' \in Seq(Key) /\ Distinct(lru') /\ ToSet(lru') = Cached'
         /\ InOrder(lru', older')
         /\ cache' \in [Key -> Value \cup {None}]
         /\ fresh' \subseteq Cached'
         /\ older' = older
         /\ Cardinality(Cached') <= MaxEntries
         /\ Cached' = Cached \ {k}
         /\ \A j \in Cached' : cache'[j] = cache[j]
<1>1. /\ lru \in Seq(Key) /\ Distinct(lru) /\ ToSet(lru) = Cached
      /\ InOrder(lru, older)
      /\ cache \in [Key -> Value \cup {None}]
      /\ fresh \subseteq Cached /\ Cached \subseteq Key
      /\ IsFiniteSet(Cached) /\ Cardinality(Cached) \in Nat
      /\ Cardinality(Cached) <= MaxEntries
  BY CacheFacts
<1>2. /\ cache' = [cache EXCEPT ![k] = None]
      /\ fresh' = fresh \ {k}
      /\ lru' = RemoveFirst(lru, k)
      /\ older' = older
  BY DEF Forget
<1>3. /\ lru' \in Seq(Key) /\ Distinct(lru')
      /\ ToSet(lru') = ToSet(lru) \ {k}
      /\ \A i, j \in DOMAIN lru' : i < j =>
            \E a, b \in DOMAIN lru : a < b /\ lru'[i] = lru[a] /\ lru'[j] = lru[b]
  <2> DEFINE r == RemoveFirst(lru, k)
  <2>1. /\ r \in Seq(Key) /\ Distinct(r)
        /\ ToSet(r) = ToSet(lru) \ {k}
        /\ \A i, j \in DOMAIN r : i < j =>
              \E a, b \in DOMAIN lru : a < b /\ r[i] = lru[a] /\ r[j] = lru[b]
    BY <1>1, RemoveFirstFacts
  <2>2. lru' = r
    BY <1>2
  <2> HIDE DEF r
  <2>3. QED
    BY <2>1, <2>2 DEF Distinct
<1>4. Cached' = Cached \ {k} /\ \A j \in Cached' : cache'[j] = cache[j]
  BY <1>1, <1>2 DEF Cached
<1>5. Cardinality(Cached') <= MaxEntries
  <2>1. Cached' \in SUBSET Cached
    BY <1>4
  <2>2. Cardinality(Cached') <= Cardinality(Cached) /\ IsFiniteSet(Cached')
    BY <1>1, <2>1, FS_Subset
  <2>3. Cardinality(Cached') \in Nat
    BY <2>2, FS_CardinalityType
  <2>4. QED
    BY <1>1, <2>2, <2>3, MaxEntriesIsNat
<1>6. InOrder(lru', older')
  BY <1>1, <1>2, <1>3 DEF InOrder
<1>7. QED
  BY <1>1, <1>2, <1>3, <1>4, <1>5, <1>6

(* A hit moves the key to the front.                                       *)
LEMMA HitFacts ==
  ASSUME IndInv, NEW k \in Key, GetHit(k)
  PROVE  /\ lru' \in Seq(Key) /\ Distinct(lru') /\ ToSet(lru') = Cached'
         /\ InOrder(lru', older')
         /\ older' \subseteq Key \X Key
         /\ Cached' = Cached
<1>1. /\ lru \in Seq(Key) /\ Distinct(lru) /\ ToSet(lru) = Cached
      /\ InOrder(lru, older)
      /\ fresh \subseteq Cached
      /\ older \subseteq Key \X Key
  BY CacheFacts
<1>2. /\ k \in fresh /\ lru' = Touch(lru, k) /\ older' = UsedNow(k)
      /\ cache' = cache
  BY DEF GetHit
<1>3. /\ Touch(lru, k) \in Seq(Key) /\ Distinct(Touch(lru, k))
      /\ ToSet(Touch(lru, k)) = ToSet(lru) \cup {k}
      /\ InOrder(Touch(lru, k), UsedNow(k))
  BY <1>1, TouchFacts
<1>4. Cached' = Cached
  BY <1>2 DEF Cached
<1>5. older' \subseteq Key \X Key
  BY <1>1, <1>2 DEF UsedNow
<1>6. QED
  BY <1>1, <1>2, <1>3, <1>4, <1>5

-----------------------------------------------------------------------------
(***************************************************************************)
(* The inductive invariant.                                                *)
(***************************************************************************)

(* The invariant from its parts, in the form the lemmas above give them.   *)
LEMMA Assemble ==
  ASSUME Mem!MemTypeOK', reply' \in KV!Answers, dirty' \subseteq Key,
         lru' \in Seq(Key), Distinct(lru'), ToSet(lru') = Cached',
         InOrder(lru', older'), older' \subseteq Key \X Key,
         cache' \in [Key -> Value \cup {None}], fresh' \subseteq Cached',
         Cardinality(Cached') <= MaxEntries,
         \A j \in Cached' \ dirty' : cache'[j] = data'[j]
  PROVE  IndInv'
<1>1. fresh' \subseteq Key
  BY DEF Cached
<1>2. TypeOK'
  BY <1>1 DEF TypeOK
<1>3. QED
  BY <1>2 DEF IndInv, LruMirrorsCache, CapacityRespected, FreshIsCached,
     CoherentUnlessInterfered, RecencyOrder, Distinct, InOrder

(* Steps that leave the cache alone, whatever they do to the backend.      *)
LEMMA CacheUntouched ==
  ASSUME IndInv, UNCHANGED cacheVars, Mem!MemTypeOK', reply' \in KV!Answers,
         dirty' \subseteq Key,
         \A j \in Cached \ dirty' : cache[j] = data'[j]
  PROVE  IndInv'
<1>1. /\ cache' = cache /\ fresh' = fresh /\ lru' = lru /\ older' = older
      /\ Cached' = Cached
  BY DEF cacheVars, Cached
<1>2. QED
  BY <1>1, CacheFacts, Assemble, Zenon

(* Every answer the handle gives has the shape of an answer.               *)
LEMMA AnswerType ==
  ASSUME NEW op \in KV!Ops, NEW k \in Key \cup {None}, NEW ok \in BOOLEAN,
         NEW out \in SUBSET (Key \cup Value)
  PROVE  KV!Answer(op, k, ok, out) \in KV!Answers
BY DEF KV!Answer, KV!Answers

LEMMA InitInv == Init => IndInv
<1> SUFFICES ASSUME Init PROVE IndInv
  OBVIOUS
<1>1. Cached = {} /\ lru = <<>> /\ ToSet(lru) = {}
  BY DEF Init, Cached, ToSet
<1>2. Cardinality({}) = 0
  BY FS_EmptySet
<1>3. reply \in KV!Answers
  BY DEF Init, KV!Answer, KV!Answers, KV!Ops
<1>4. TypeOK
  <2>1. Mem!MemTypeOK
    BY DEF Init, Mem!MemTypeOK
  <2>2. lru \in Seq(Key)
    BY <1>1, EmptySeq
  <2>3. QED
    BY <1>3, <2>1, <2>2 DEF Init, TypeOK
<1>5. LruMirrorsCache /\ RecencyOrder
  BY <1>1 DEF LruMirrorsCache, RecencyOrder
<1>6. CapacityRespected
  BY <1>1, <1>2, MaxEntriesIsNat DEF CapacityRespected
<1>7. FreshIsCached /\ CoherentUnlessInterfered
  BY <1>1 DEF Init, FreshIsCached, CoherentUnlessInterfered
<1>8. QED
  BY <1>4, <1>5, <1>6, <1>7 DEF IndInv

(* The calls on the handle.                                                *)
LEMMA SoleStepInv == IndInv /\ SoleNext => IndInv'
<1> SUFFICES ASSUME IndInv, SoleNext PROVE IndInv'
  OBVIOUS
<1> USE DEF KV!Ops
<1>0. /\ Mem!MemTypeOK /\ reply \in KV!Answers /\ dirty \subseteq Key
      /\ data \in [Key -> Value \cup {None}]
      /\ cache \in [Key -> Value \cup {None}]
      /\ fresh \subseteq Cached /\ Cached \subseteq Key
      /\ \A j \in Cached \ dirty : cache[j] = data[j]
  BY CacheFacts DEF IndInv, TypeOK, CoherentUnlessInterfered
<1>same. ASSUME UNCHANGED memVars PROVE Mem!MemTypeOK'
  BY <1>0, <1>same DEF memVars, Mem!MemTypeOK
<1>1. ASSUME NEW k \in Key, NEW v \in Value, Put(k, v) PROVE IndInv'
  <2>1. /\ data' = [data EXCEPT ![k] = v]
        /\ UNCHANGED <<pinned, temporal>>
        /\ Fill(k, v) /\ dirty' = dirty \ {k}
        /\ reply' = KV!Answer("put", k, TRUE, {})
    BY <1>1 DEF Put, Mem!Put
  <2>2. Mem!MemTypeOK'
    BY <1>0, <2>1 DEF Mem!MemTypeOK
  <2>3. reply' \in KV!Answers
    BY <2>1, AnswerType
  <2>4. /\ \A j \in Cached' : cache'[j] = IF j = k THEN v ELSE cache[j]
        /\ \A j \in Cached' : j = k \/ j \in Cached
    BY <2>1, FillFacts
  <2>5. \A j \in Cached' \ dirty' : cache'[j] = data'[j]
    BY <1>0, <2>1, <2>4
  <2>6. QED
    BY <1>0, <2>1, <2>2, <2>3, <2>5, FillFacts, Assemble
<1>2. ASSUME NEW k \in Key, GetHit(k) PROVE IndInv'
  <2>1. /\ k \in fresh /\ UNCHANGED <<memVars, cache, fresh, dirty>>
        /\ reply' = KV!Answer("get", k, TRUE, {cache[k]})
    BY <1>2 DEF GetHit
  <2>2. cache[k] \in Value
    BY <1>0, <2>1 DEF Cached
  <2>3. reply' \in KV!Answers
    BY <2>1, <2>2, AnswerType
  <2>4. Cached' = Cached
    BY <1>2, HitFacts
  <2>5. /\ Mem!MemTypeOK' /\ dirty' \subseteq Key
        /\ cache' \in [Key -> Value \cup {None}] /\ fresh' \subseteq Cached'
        /\ \A j \in Cached' \ dirty' : cache'[j] = data'[j]
    BY <1>0, <1>same, <2>1, <2>4 DEF memVars
  <2>6. Cardinality(Cached') <= MaxEntries
    BY <2>4, CacheFacts
  <2>7. QED
    BY <1>2, <2>3, <2>5, <2>6, HitFacts, Assemble
<1>3. ASSUME NEW k \in Key, GetMiss(k) PROVE IndInv'
  <2>1. /\ UNCHANGED memVars
        /\ reply' = KV!Answer("get", k, TRUE, KV!Opt(data[k]))
    BY <1>3 DEF GetMiss
  <2>2. reply' \in KV!Answers
    <3>1. KV!Opt(data[k]) \subseteq Value
      BY <1>0 DEF KV!Opt
    <3>2. QED
      BY <2>1, <3>1, AnswerType
  <2>3. CASE data[k] = None
    <3>1. UNCHANGED <<cacheVars, dirty>>
      BY <1>3, <2>3 DEF GetMiss
    <3>2. QED
      BY <1>0, <1>same, <2>1, <2>2, <3>1, CacheUntouched DEF memVars
  <2>4. CASE data[k] # None
    <3>1. Fill(k, data[k]) /\ dirty' = dirty \ {k} /\ data[k] \in Value
      BY <1>0, <1>3, <2>4 DEF GetMiss
    <3>2. /\ \A j \in Cached' : cache'[j] = IF j = k THEN data[k] ELSE cache[j]
          /\ \A j \in Cached' : j = k \/ j \in Cached
      BY <3>1, FillFacts
    <3>3. \A j \in Cached' \ dirty' : cache'[j] = data'[j]
      BY <1>0, <2>1, <3>1, <3>2 DEF memVars
    <3>4. QED
      BY <1>0, <1>same, <2>1, <2>2, <3>1, <3>3, FillFacts, Assemble
  <2>5. QED
    BY <2>3, <2>4
<1>4. ASSUME NEW k \in Key, Delete(k) PROVE IndInv'
  <2>1. /\ data' = [data EXCEPT ![k] = None]
        /\ UNCHANGED <<pinned, temporal>>
        /\ Forget(k) /\ dirty' = dirty \ {k}
        /\ reply' = KV!Answer("delete", k, TRUE, KV!Flag(k, data[k] # None))
    BY <1>4 DEF Delete, Mem!Delete
  <2>2. Mem!MemTypeOK'
    BY <1>0, <2>1 DEF Mem!MemTypeOK
  <2>3. reply' \in KV!Answers
    BY <2>1, AnswerType DEF KV!Flag
  <2>4. \A j \in Cached' \ dirty' : cache'[j] = data'[j]
    BY <1>0, <2>1, ForgetFacts
  <2>5. QED
    BY <1>0, <2>1, <2>2, <2>3, <2>4, CacheFacts, ForgetFacts, Assemble
<1>5. ASSUME NEW k \in Key, DeleteFails(k) PROVE IndInv'
  <2>1. /\ UNCHANGED <<memVars, dirty>> /\ Forget(k)
        /\ reply' = KV!Answer("delete", k, FALSE, {})
    BY <1>5 DEF DeleteFails
  <2>2. reply' \in KV!Answers
    BY <2>1, AnswerType
  <2>3. \A j \in Cached' \ dirty' : cache'[j] = data'[j]
    BY <1>0, <2>1, ForgetFacts DEF memVars
  <2>4. QED
    BY <1>0, <1>same, <2>1, <2>2, <2>3, CacheFacts, ForgetFacts, Assemble
<1>6. ASSUME UNCHANGED <<memVars, cacheVars, dirty>>, reply' \in KV!Answers
      PROVE  IndInv'
  BY <1>0, <1>same, <1>6, CacheUntouched DEF memVars
<1>7. ASSUME NEW k \in Key, Has(k) \/ PutFails(k) \/ GetFails(k) \/ HasFails(k)
      PROVE  IndInv'
  <2>1. reply' \in KV!Answers
    <3>1. CASE Has(k)
      BY <3>1, AnswerType DEF Has, KV!Flag
    <3>2. CASE PutFails(k) \/ GetFails(k) \/ HasFails(k)
      BY <3>2, AnswerType DEF PutFails, GetFails, HasFails
    <3>3. QED
      BY <1>7, <3>1, <3>2
  <2>2. QED
    BY <1>6, <1>7, <2>1 DEF Has, PutFails, GetFails, HasFails
<1>8. ASSUME List \/ ListFails PROVE IndInv'
  <2>1. reply' \in KV!Answers
    <3>1. CASE List
      BY <1>0, <3>1, AnswerType DEF List, Mem!Present
    <3>2. CASE ListFails
      BY <3>2, AnswerType DEF ListFails
    <3>3. QED
      BY <1>8, <3>1, <3>2
  <2>2. QED
    BY <1>6, <1>8, <2>1 DEF List, ListFails
<1>9. ASSUME NEW k \in Key, Expire(k) PROVE IndInv'
  <2>1. /\ UNCHANGED <<memVars, cache, lru, reply, older, dirty>>
        /\ fresh' = fresh \ {k} /\ Cached' = Cached
    BY <1>9 DEF Expire, Cached
  <2>2. fresh' \subseteq Cached'
    BY <1>0, <2>1
  <2>3. QED
    BY <1>0, <1>same, <2>1, <2>2, CacheFacts, Assemble DEF memVars
<1>10. QED
  BY <1>1, <1>2, <1>3, <1>4, <1>5, <1>7, <1>8, <1>9 DEF SoleNext, Get

(* The backend's other users, and failing calls that took effect.          *)
LEMMA InterferenceInv == IndInv /\ Interference => IndInv'
<1> SUFFICES ASSUME IndInv, Interference PROVE IndInv'
  OBVIOUS
<1> USE DEF KV!Ops
<1>0. /\ Mem!MemTypeOK /\ reply \in KV!Answers /\ dirty \subseteq Key
      /\ data \in [Key -> Value \cup {None}]
      /\ Cached \subseteq Key
      /\ \A j \in Cached \ dirty : cache[j] = data[j]
  BY CacheFacts DEF IndInv, TypeOK, CoherentUnlessInterfered
<1>1. ASSUME NEW k \in Key, NEW v \in Value, PeerPut(k, v) \/ PutTorn(k, v)
      PROVE  IndInv'
  <2>1. /\ data' = [data EXCEPT ![k] = v] /\ UNCHANGED <<pinned, temporal>>
        /\ dirty' = dirty \cup {k} /\ UNCHANGED cacheVars
        /\ reply' \in {reply, KV!Answer("put", k, FALSE, {})}
    BY <1>1 DEF PeerPut, PutTorn, Mem!Put, Behind
  <2>2. Mem!MemTypeOK'
    BY <1>0, <2>1 DEF Mem!MemTypeOK
  <2>3. reply' \in KV!Answers
    BY <1>0, <2>1, AnswerType
  <2>4. \A j \in Cached \ dirty' : cache[j] = data'[j]
    BY <1>0, <2>1
  <2>5. QED
    BY <1>0, <2>1, <2>2, <2>3, <2>4, CacheUntouched
<1>2. ASSUME NEW k \in Key, PeerDelete(k) PROVE IndInv'
  <2>1. /\ data' = [data EXCEPT ![k] = None] /\ UNCHANGED <<pinned, temporal>>
        /\ dirty' = dirty \cup {k} /\ UNCHANGED cacheVars /\ reply' = reply
    BY <1>2 DEF PeerDelete, Mem!Delete, Behind
  <2>2. Mem!MemTypeOK'
    BY <1>0, <2>1 DEF Mem!MemTypeOK
  <2>3. \A j \in Cached \ dirty' : cache[j] = data'[j]
    BY <1>0, <2>1
  <2>4. QED
    BY <1>0, <2>1, <2>2, <2>3, CacheUntouched
<1>3. ASSUME NEW k \in Key, DeleteTorn(k) PROVE IndInv'
  <2>1. /\ data' = [data EXCEPT ![k] = None]
        /\ UNCHANGED <<pinned, temporal>>
        /\ Forget(k) /\ dirty' = dirty \ {k}
        /\ reply' = KV!Answer("delete", k, FALSE, {})
    BY <1>3 DEF DeleteTorn, Mem!Delete
  <2>2. Mem!MemTypeOK'
    BY <1>0, <2>1 DEF Mem!MemTypeOK
  <2>3. reply' \in KV!Answers
    BY <2>1, AnswerType
  <2>4. \A j \in Cached' \ dirty' : cache'[j] = data'[j]
    BY <1>0, <2>1, ForgetFacts
  <2>5. QED
    BY <1>0, <2>1, <2>2, <2>3, <2>4, CacheFacts, ForgetFacts, Assemble
<1>4. ASSUME NEW k \in Key, PeerPin(k) \/ PeerUnpin(k) PROVE IndInv'
  <2>1. /\ UNCHANGED <<data, temporal, dirty, cacheVars, reply>>
        /\ pinned' \subseteq pinned \cup {k}
    BY <1>4 DEF PeerPin, PeerUnpin, Mem!Pin, Mem!Unpin, Behind
  <2>2. Mem!MemTypeOK'
    BY <1>0, <2>1 DEF Mem!MemTypeOK
  <2>3. QED
    BY <1>0, <2>1, <2>2, CacheUntouched
<1>5. ASSUME PeerGc PROVE IndInv'
  <2>1. /\ data' = [k \in Key |-> IF k \in Mem!Garbage THEN None ELSE data[k]]
        /\ UNCHANGED <<pinned, temporal>>
        /\ dirty' = dirty \cup Mem!Garbage /\ UNCHANGED cacheVars
        /\ reply' = reply
    BY <1>5 DEF PeerGc, Mem!Gc, Behind
  <2>2. Mem!MemTypeOK'
    BY <1>0, <2>1 DEF Mem!MemTypeOK
  <2>3. Mem!Garbage \subseteq Key
    BY DEF Mem!Garbage, Mem!Present
  <2>4. \A j \in Cached \ dirty' : cache[j] = data'[j]
    BY <1>0, <2>1
  <2>5. QED
    BY <1>0, <2>1, <2>2, <2>3, <2>4, CacheUntouched
<1>6. QED
  BY <1>1, <1>2, <1>3, <1>4, <1>5 DEF Interference

(* The invariant holds in every state a cache over a shared, failing       *)
(* backend reaches.                                                        *)
THEOREM InvariantHolds == Spec => []IndInv
<1>1. IndInv /\ [SoleNext \/ Interference]_vars => IndInv'
  <2>1. ASSUME IndInv, UNCHANGED vars PROVE IndInv'
    <3>1. /\ UNCHANGED cacheVars /\ UNCHANGED <<data, pinned, temporal>>
          /\ reply' = reply /\ dirty' = dirty
      BY <2>1 DEF vars, cacheVars
    <3>2. Mem!MemTypeOK'
      BY <2>1, <3>1 DEF IndInv, TypeOK, Mem!MemTypeOK
    <3>3. QED
      BY <2>1, <3>1, <3>2, CacheUntouched
         DEF IndInv, TypeOK, CoherentUnlessInterfered
  <2>2. QED
    BY <2>1, SoleStepInv, InterferenceInv
<1>2. QED
  BY <1>1, InitInv, PTL DEF Spec

(* Every variable keeps its type.                                          *)
THEOREM TypeCorrect == Spec => []TypeOK
BY InvariantHolds, PTL DEF IndInv

(* Queue and map hold the same keys, each once (touch, evict_lru, delete). *)
THEOREM QueueMirrorsCache == Spec => []LruMirrorsCache
BY InvariantHolds, PTL DEF IndInv

(* After every call at most max_entries keys are cached.                   *)
THEOREM WithinCapacity == Spec => []CapacityRespected
BY InvariantHolds, PTL DEF IndInv

(* The cache disagrees with the backend only on keys changed behind it.    *)
THEOREM Coherent == Spec => []CoherentUnlessInterfered
BY InvariantHolds, PTL DEF IndInv

-----------------------------------------------------------------------------
(***************************************************************************)
(* Action properties.                                                      *)
(***************************************************************************)

(* Eviction takes the least recently used keys.                            *)
THEOREM EvictionOrder == Spec => EvictsLeastRecent
<1> DEFINE OldestGoes(e, r) ==
      (/\ e \in Cached /\ cache'[e] = None
       /\ ~(reply'.op = "delete" /\ reply'.key = e)
       /\ cache'[r] # None) => <<e, r>> \in older'
<1>1. ASSUME IndInv, [SoleNext \/ Interference]_vars
      PROVE  \A e, r \in Key : OldestGoes(e, r)
  <2>1. ASSUME NEW k \in Key, NEW v \in Value, Fill(k, v)
        PROVE  \A e, r \in Key : OldestGoes(e, r)
    <3>1. \A e \in Cached \ Cached', r \in Cached' : <<e, r>> \in older'
      BY <1>1, <2>1, FillFacts
    <3>2. QED
      BY <3>1 DEF Cached
  <2>2. ASSUME cache' = cache PROVE \A e, r \in Key : OldestGoes(e, r)
    BY <2>2 DEF Cached
  <2>3. ASSUME NEW k \in Key, Forget(k), NEW ok, NEW out,
               reply' = KV!Answer("delete", k, ok, out)
        PROVE  \A e, r \in Key : OldestGoes(e, r)
    <3>1. reply'.op = "delete" /\ reply'.key = k
      BY <2>3 DEF KV!Answer
    <3>2. \A e \in Cached : e # k => cache'[e] # None
      BY CacheFacts, <1>1, <2>3 DEF Forget, Cached
    <3>3. QED
      BY <3>1, <3>2
  <2> HIDE DEF OldestGoes
  <2>4. ASSUME NEW k \in Key, NEW v \in Value, Put(k, v)
        PROVE  \A e, r \in Key : OldestGoes(e, r)
    BY <2>1, <2>4 DEF Put
  <2>5. ASSUME NEW k \in Key, Get(k) PROVE \A e, r \in Key : OldestGoes(e, r)
    <3>1. CASE GetHit(k)
      BY <2>2, <3>1 DEF GetHit
    <3>2. CASE GetMiss(k) /\ data[k] = None
      BY <2>2, <3>2 DEF GetMiss, cacheVars
    <3>3. CASE GetMiss(k) /\ data[k] # None
      <4>1. data[k] \in Value
        BY <1>1, <3>3, CacheFacts
      <4>2. QED
        BY <2>1, <3>3, <4>1 DEF GetMiss
    <3>4. QED
      BY <2>5, <3>1, <3>2, <3>3 DEF Get
  <2>6. ASSUME NEW k \in Key, Delete(k) \/ DeleteFails(k) \/ DeleteTorn(k)
        PROVE  \A e, r \in Key : OldestGoes(e, r)
    BY <2>3, <2>6 DEF Delete, DeleteFails, DeleteTorn
  <2>7. ASSUME NEW k \in Key,
               \/ Has(k) \/ PutFails(k) \/ GetFails(k) \/ HasFails(k) \/ Expire(k)
               \/ PeerDelete(k) \/ PeerPin(k) \/ PeerUnpin(k)
        PROVE  \A e, r \in Key : OldestGoes(e, r)
    BY <2>2, <2>7 DEF Has, PutFails, GetFails, HasFails, Expire, PeerDelete,
       PeerPin, PeerUnpin, Behind, cacheVars
  <2>8. ASSUME NEW k \in Key, NEW v \in Value, PeerPut(k, v) \/ PutTorn(k, v)
        PROVE  \A e, r \in Key : OldestGoes(e, r)
    BY <2>2, <2>8 DEF PeerPut, PutTorn, Behind, cacheVars
  <2>9. ASSUME List \/ ListFails \/ PeerGc \/ UNCHANGED vars
        PROVE  \A e, r \in Key : OldestGoes(e, r)
    BY <2>2, <2>9 DEF List, ListFails, PeerGc, Behind, cacheVars, vars
  <2>10. QED
    BY <1>1, <2>4, <2>5, <2>6, <2>7, <2>8, <2>9 DEF SoleNext, Interference
<1>2. QED
  BY <1>1, InvariantHolds, PTL DEF Spec, EvictsLeastRecent

(* A stale answer needs a change behind the cache's back and an entry      *)
(* still within its TTL.                                                   *)
THEOREM StalenessBounded == Spec => StaleOnlyWithinTtl
<1>1. ASSUME IndInv, NEW k \in Key, Get(k)
      PROVE  reply'.out = KV!Opt(data[k]) \/ k \in fresh \cap dirty
  <2>1. CASE GetHit(k)
    <3>1. k \in fresh /\ reply'.out = {cache[k]} /\ k \in Cached
      BY <1>1, <2>1, CacheFacts DEF GetHit, KV!Answer
    <3>2. k \notin dirty => cache[k] = data[k]
      BY <1>1, <3>1 DEF IndInv, CoherentUnlessInterfered
    <3>3. QED
      BY <3>1, <3>2 DEF KV!Opt, Cached
  <2>2. CASE GetMiss(k)
    BY <2>2 DEF GetMiss, KV!Answer
  <2>3. QED
    BY <1>1, <2>1, <2>2 DEF Get
<1>2. IndInv => \A k \in Key :
        Get(k) => \/ reply'.out = KV!Opt(data[k])
                  \/ k \in fresh \cap dirty
  BY <1>1
<1>3. QED
  BY <1>2, InvariantHolds, PTL DEF StaleOnlyWithinTtl

(* Filling, evicting, expiring and forgetting are the cache's own affair:  *)
(* the backend's bytes change by a call naming the key, or behind its back. *)
THEOREM CanonicalBytesKept == Spec => CanonicalDataKept
<1>1. ASSUME IndInv, SoleNext \/ Interference, NEW k \in Key, data'[k] # data[k]
      PROVE  \/ reply'.op \in {"put", "delete"} /\ reply'.key = k
             \/ k \in dirty'
  <2>1. data \in [Key -> Value \cup {None}]
    BY <1>1 DEF IndInv, TypeOK, Mem!MemTypeOK
  <2>2. ASSUME NEW j \in Key, NEW v, data' = [data EXCEPT ![j] = v] PROVE j = k
    BY <1>1, <2>1, <2>2
  <2>3. ASSUME NEW j \in Key, NEW v \in Value, Put(j, v)
        PROVE  reply'.op \in {"put", "delete"} /\ reply'.key = k
    <3>1. data' = [data EXCEPT ![j] = v] /\ reply' = KV!Answer("put", j, TRUE, {})
      BY <2>3 DEF Put, Mem!Put
    <3> QED BY <3>1, <2>2 DEF KV!Answer
  <2>4. ASSUME NEW j \in Key, Delete(j) \/ DeleteTorn(j)
        PROVE  reply'.op \in {"put", "delete"} /\ reply'.key = k
    <3>1. data' = [data EXCEPT ![j] = None]
      BY <2>4 DEF Delete, DeleteTorn, Mem!Delete
    <3>2. reply'.op = "delete" /\ reply'.key = j
      BY <2>4 DEF Delete, DeleteTorn, KV!Answer
    <3> QED BY <3>1, <3>2, <2>2
  <2>5. ASSUME NEW j \in Key, NEW v \in Value, PeerPut(j, v) \/ PutTorn(j, v)
        PROVE  k \in dirty'
    <3>1. data' = [data EXCEPT ![j] = v] /\ dirty' = dirty \cup {j}
      BY <2>5 DEF PeerPut, PutTorn, Mem!Put
    <3> QED BY <3>1, <2>2
  <2>6. ASSUME NEW j \in Key, PeerDelete(j) PROVE k \in dirty'
    <3>1. data' = [data EXCEPT ![j] = None] /\ dirty' = dirty \cup {j}
      BY <2>6 DEF PeerDelete, Mem!Delete
    <3> QED BY <3>1, <2>2
  <2>7. ASSUME PeerGc PROVE k \in dirty'
    BY <1>1, <2>7 DEF PeerGc, Mem!Gc
  <2>8. ASSUME NEW j \in Key, \/ Get(j) \/ Has(j) \/ PutFails(j) \/ GetFails(j)
                              \/ HasFails(j) \/ DeleteFails(j) \/ Expire(j)
                              \/ PeerPin(j) \/ PeerUnpin(j)
        PROVE  data' = data
    BY <2>8 DEF Get, GetHit, GetMiss, Has, PutFails, GetFails, HasFails, DeleteFails,
                Expire, PeerPin, PeerUnpin, Mem!Pin, Mem!Unpin, memVars
  <2>9. ASSUME List \/ ListFails PROVE data' = data
    BY <2>9 DEF List, ListFails, memVars
  <2> QED
    BY <1>1, <2>3, <2>4, <2>5, <2>6, <2>7, <2>8, <2>9 DEF SoleNext, Interference
<1>2. IndInv /\ [SoleNext \/ Interference]_vars =>
        [\A k \in Key :
           data'[k] # data[k] => \/ reply'.op \in {"put", "delete"} /\ reply'.key = k
                                 \/ k \in dirty']_vars
  BY <1>1
<1> QED
  BY <1>2, InvariantHolds, PTL DEF Spec, CanonicalDataKept

-----------------------------------------------------------------------------
(***************************************************************************)
(* A cache that owns its backend is the backend.                           *)
(***************************************************************************)

(* With no other user, nothing is ever changed behind the cache.           *)
SoleInv == IndInv /\ dirty = {}

LEMMA SoleInvariant == SoleSpec => []SoleInv
<1>1. Init => SoleInv
  BY InitInv DEF Init, SoleInv
<1>2. SoleInv /\ [SoleNext]_vars => SoleInv'
  <2> SUFFICES ASSUME SoleInv, [SoleNext]_vars PROVE SoleInv'
    OBVIOUS
  <2>1. IndInv'
    <3>1. CASE SoleNext
      BY <3>1, SoleStepInv DEF SoleInv
    <3>2. CASE UNCHANGED vars
      <4>1. /\ UNCHANGED cacheVars /\ UNCHANGED <<data, pinned, temporal>>
            /\ reply' = reply /\ dirty' = dirty
        BY <3>2 DEF vars, cacheVars
      <4>2. Mem!MemTypeOK'
        BY <4>1 DEF SoleInv, IndInv, TypeOK, Mem!MemTypeOK
      <4>3. QED
        BY <4>1, <4>2, CacheUntouched
           DEF SoleInv, IndInv, TypeOK, CoherentUnlessInterfered
    <3>3. QED
      BY <3>1, <3>2
  <2>2. dirty' = {}
    BY DEF SoleInv, SoleNext, Put, Get, GetHit, GetMiss, Has, Delete, PutFails,
       GetFails, HasFails, DeleteFails, Expire, List, ListFails, vars
  <2>3. QED
    BY <2>1, <2>2 DEF SoleInv
<1>3. QED
  BY <1>1, <1>2, PTL DEF SoleSpec

(* Every call on the handle is a step of KVStore on the backend's map with *)
(* the same answer; hits, evictions and expiries cannot be told apart.     *)
THEOREM SoleImplementsKVStore == SoleSpec => ImplementsKVStore
<1>1. Init => KV!Init
  BY DEF Init, KV!Init
<1>2. ASSUME SoleInv, [SoleNext]_vars PROVE [KV!Next]_(KV!vars)
  <2>0. /\ data \in [Key -> Value \cup {None}]
        /\ \A j \in Cached : cache[j] = data[j]
        /\ fresh \subseteq Cached
    BY <1>2, CacheFacts DEF SoleInv, IndInv, CoherentUnlessInterfered
  <2>1. ASSUME NEW k \in Key, NEW v \in Value, Put(k, v) PROVE KV!Put(k, v)
    BY <2>1 DEF Put, Mem!Put, KV!Put
  <2>2. ASSUME NEW k \in Key, Get(k) PROVE KV!Get(k)
    <3>1. CASE GetHit(k)
      <4>1. cache[k] = data[k] /\ data[k] # None
        BY <2>0, <3>1 DEF GetHit, Cached
      <4>2. {cache[k]} = KV!Opt(data[k])
        BY <4>1 DEF KV!Opt
      <4>3. QED
        BY <3>1, <4>2 DEF GetHit, KV!Get, memVars
    <3>2. CASE GetMiss(k)
      BY <3>2 DEF GetMiss, KV!Get, memVars
    <3>3. QED
      BY <2>2, <3>1, <3>2 DEF Get
  <2>3. ASSUME NEW k \in Key, Has(k) PROVE KV!Has(k)
    <3>1. k \in Cached \/ data[k] # None <=> data[k] # None
      BY <2>0 DEF Cached
    <3>2. QED
      BY <2>3, <3>1 DEF Has, KV!Has, KV!Flag, memVars
  <2>4. ASSUME NEW k \in Key, Delete(k) PROVE KV!Delete(k)
    BY <2>4 DEF Delete, Mem!Delete, KV!Delete
  <2>5. ASSUME List PROVE KV!List
    <3>1. Cached \cup Mem!Present = {k \in Key : data[k] # None}
      BY <2>0 DEF Cached, Mem!Present
    <3>2. QED
      BY <2>5, <3>1 DEF List, KV!List, memVars
  <2>6. ASSUME NEW k \in Key,
               PutFails(k) \/ GetFails(k) \/ HasFails(k) \/ DeleteFails(k)
        PROVE  \E op \in KV!Ops : KV!Fail(op, k)
    BY <2>6 DEF PutFails, GetFails, HasFails, DeleteFails, KV!Fail, KV!Ops, memVars
  <2>7. ASSUME ListFails PROVE KV!Fail("list", None)
    BY <2>7 DEF ListFails, KV!Fail, memVars
  <2>8. ASSUME NEW k \in Key, Expire(k) PROVE UNCHANGED KV!vars
    BY <2>8 DEF Expire, memVars, KV!vars
  <2>9. ASSUME UNCHANGED vars PROVE UNCHANGED KV!vars
    BY <2>9 DEF vars, KV!vars
  <2>10. CASE SoleNext
    <3>1. KV!Next \/ UNCHANGED KV!vars
      BY <2>1, <2>2, <2>3, <2>4, <2>5, <2>6, <2>7, <2>8, <2>10
         DEF SoleNext, KV!Next
    <3>2. QED
      BY <3>1
  <2>11. QED
    BY <1>2, <2>9, <2>10
<1>3. QED
  BY <1>1, <1>2, SoleInvariant, PTL DEF SoleSpec, ImplementsKVStore, KV!Spec

=============================================================================
