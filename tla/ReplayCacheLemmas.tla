------------------------- MODULE ReplayCacheLemmas -------------------------
(***************************************************************************)
(* What the replay cache's operations return and preserve, for any keys,   *)
(* any capacity and any history.                                           *)
(***************************************************************************)
EXTENDS ReplayCacheOps, SequenceTheorems, FiniteSetTheorems, TLAPS

CacheOf(S) == [seen : SUBSET S, order : Seq(S), cap : Nat \ {0}]

\* The set and the deque agree, no key is queued twice, and the deque fits.
Consistent(c) ==
    /\ c.seen = ToSet(c.order)
    /\ IsInjective(c.order)
    /\ Len(c.order) <= c.cap

----------------------------------------------------------------------------
\* Removing a key that occurs once leaves the other elements in their order.
LEMMA RemoveFirstShape ==
    ASSUME NEW S, NEW s \in Seq(S), IsInjective(s),
           NEW p \in 1..Len(s)
    PROVE  LET t == RemoveFirst(s, s[p]) IN
           /\ t \in Seq(S)
           /\ Len(t) = Len(s) - 1
           /\ \A i \in 1..Len(t) : t[i] = IF i < p THEN s[i] ELSE s[i + 1]
<1> DEFINE I == {i \in 1..Len(s) : s[i] = s[p]}
           a == SubSeq(s, 1, p - 1)
           b == SubSeq(s, p + 1, Len(s))
<1>0. Len(s) \in Nat /\ DOMAIN s = 1..Len(s)
  BY LenProperties
<1>1. I = {p}
  BY <1>0 DEF IsInjective
<1>2. SelectInSeq(s, LAMBDA v : v = s[p]) = p
  <2>1. Min({p}) = p
    BY DEF Min
  <2> QED BY <1>1, <2>1 DEF SelectInSeq
<1>3. RemoveFirst(s, s[p]) = a \o b
  BY <1>2 DEF RemoveFirst, RemoveAt
<1>4. /\ a \in Seq(S)
      /\ Len(a) = p - 1
      /\ \A i \in 1..(p - 1) : a[i] = s[i]
  BY SubSeqProperties
<1>5. /\ b \in Seq(S)
      /\ Len(b) = Len(s) - p
      /\ \A i \in 1..(Len(s) - p) : b[i] = s[p + i]
  BY SubSeqProperties
<1> HIDE DEF I, a, b
<1>6. /\ a \o b \in Seq(S)
      /\ Len(a \o b) = Len(s) - 1
      /\ \A i \in 1..(Len(s) - 1) : (a \o b)[i] = IF i < p THEN a[i] ELSE b[i - p + 1]
  <2>1. /\ a \o b \in Seq(S)
        /\ Len(a \o b) = Len(a) + Len(b)
        /\ \A i \in 1..(Len(a) + Len(b)) :
              (a \o b)[i] = IF i <= Len(a) THEN a[i] ELSE b[i - Len(a)]
    BY <1>4, <1>5, ConcatProperties
  <2>2. Len(a) + Len(b) = Len(s) - 1
    BY <1>0, <1>4, <1>5
  <2>3. \A i \in 1..(Len(s) - 1) : i <= p - 1 <=> i < p
    BY <1>0
  <2>4. \A i \in 1..(Len(s) - 1) : i - (p - 1) = i - p + 1
    BY <1>0
  <2> QED BY <1>4, <2>1, <2>2, <2>3, <2>4
<1>7. \A i \in 1..(Len(s) - 1) : (a \o b)[i] = IF i < p THEN s[i] ELSE s[i + 1]
  <2> TAKE i \in 1..(Len(s) - 1)
  <2>1. CASE i < p
    <3>1. i \in 1..(p - 1)
      BY <1>0, <2>1
    <3> QED BY <1>4, <1>6, <2>1, <3>1
  <2>2. CASE i >= p
    <3>1. i - p + 1 \in 1..(Len(s) - p) /\ p + (i - p + 1) = i + 1
      BY <1>0, <2>2
    <3>2. (a \o b)[i] = b[i - p + 1] /\ b[i - p + 1] = s[i + 1]
      BY <1>0, <1>5, <1>6, <2>2, <3>1
    <3> QED BY <1>0, <2>2, <3>2
  <2>3. i < p \/ i >= p
    BY <1>0
  <2> QED BY <2>1, <2>2, <2>3
<1> QED BY <1>3, <1>6, <1>7

\* Eviction keeps the cache consistent and makes room for one more key.
LEMMA EvictKeeps ==
    ASSUME NEW S, NEW c \in CacheOf(S), Consistent(c)
    PROVE  /\ EvictOldest(c) \in CacheOf(S)
           /\ Consistent(EvictOldest(c))
           /\ EvictOldest(c).cap = c.cap
           /\ Len(EvictOldest(c).order) < c.cap
           /\ EvictOldest(c).seen \subseteq c.seen
<1>1. CASE Len(c.order) >= c.cap /\ c.order # <<>>
  <2> DEFINE e == [c EXCEPT !.seen = @ \ {Head(c.order)}, !.order = Tail(@)]
  <2>1. EvictOldest(c) = e
    BY <1>1 DEF EvictOldest
  <2>2. /\ c.order \in Seq(S) /\ Len(c.order) >= 1
        /\ Head(c.order) = c.order[1]
        /\ Tail(c.order) \in Seq(S)
        /\ Len(Tail(c.order)) = Len(c.order) - 1
        /\ \A i \in 1..(Len(c.order) - 1) : Tail(c.order)[i] = c.order[i + 1]
    BY <1>1, HeadTailProperties, EmptySeq DEF CacheOf
  <2>3. e \in CacheOf(S) /\ e.cap = c.cap /\ e.order = Tail(c.order)
        /\ e.seen = c.seen \ {c.order[1]}
    BY <2>2 DEF CacheOf
  <2>4. IsInjective(e.order)
    BY <2>2, <2>3 DEF IsInjective, Consistent
  <2>5. e.seen = ToSet(e.order)
    <3>1. ASSUME NEW k \in e.seen PROVE k \in ToSet(e.order)
      <4>1. PICK i \in 1..Len(c.order) : c.order[i] = k
        BY <2>2, <2>3 DEF Consistent, ToSet
      <4>2. i # 1 /\ i - 1 \in 1..(Len(c.order) - 1)
        BY <2>2, <2>3, <4>1
      <4> QED BY <2>2, <2>3, <4>1, <4>2 DEF ToSet
    <3>2. ASSUME NEW k \in ToSet(e.order) PROVE k \in e.seen
      <4>1. PICK i \in 1..(Len(c.order) - 1) : c.order[i + 1] = k
        BY <2>2, <2>3 DEF ToSet
      <4>2. k # c.order[1]
        BY <2>2, <4>1 DEF Consistent, IsInjective
      <4> QED BY <2>2, <2>3, <4>1, <4>2 DEF ToSet, Consistent
    <3> QED BY <3>1, <3>2
  <2>6. Len(e.order) < c.cap
    BY <2>2, <2>3 DEF Consistent, CacheOf
  <2> QED BY <2>1, <2>3, <2>4, <2>5, <2>6 DEF Consistent, CacheOf
<1>2. CASE ~(Len(c.order) >= c.cap /\ c.order # <<>>)
  BY <1>2 DEF EvictOldest, CacheOf, Consistent
<1> QED BY <1>1, <1>2

\* A claim keeps the cache consistent, within its capacity, and holds the key.
LEMMA ClaimKeeps ==
    ASSUME NEW S, NEW c \in CacheOf(S), Consistent(c), NEW k \in S
    PROVE  /\ AfterClaim(c, k) \in CacheOf(S)
           /\ Consistent(AfterClaim(c, k))
           /\ AfterClaim(c, k).cap = c.cap
           /\ Holds(AfterClaim(c, k), k)
<1>1. CASE Holds(c, k)
  BY <1>1 DEF AfterClaim
<1>2. CASE ~Holds(c, k)
  <2> DEFINE e == EvictOldest(c)
             n == [e EXCEPT !.seen = @ \cup {k}, !.order = Append(@, k)]
  <2>1. /\ e \in CacheOf(S) /\ Consistent(e) /\ e.cap = c.cap
        /\ Len(e.order) < c.cap /\ k \notin e.seen
    BY <1>2, EvictKeeps DEF Holds
  <2>2. AfterClaim(c, k) = n
    BY <1>2 DEF AfterClaim
  <2> HIDE DEF e
  <2>3. /\ Append(e.order, k) \in Seq(S)
        /\ Len(Append(e.order, k)) = Len(e.order) + 1
        /\ \A i \in 1..Len(e.order) : Append(e.order, k)[i] = e.order[i]
        /\ Append(e.order, k)[Len(e.order) + 1] = k
    BY <2>1, AppendProperties DEF CacheOf
  <2>4. /\ n \in CacheOf(S) /\ n.cap = c.cap
        /\ n.order = Append(e.order, k) /\ n.seen = e.seen \cup {k}
    BY <2>1, <2>3 DEF CacheOf
  <2> HIDE DEF n
  <2>5. /\ Len(e.order) \in Nat
        /\ \A i \in 1..Len(e.order) : e.order[i] \in e.seen
        /\ \A j \in e.seen : \E i \in 1..Len(e.order) : e.order[i] = j
    BY <2>1 DEF Consistent, ToSet, CacheOf
  <2>6. IsInjective(n.order)
    <3> SUFFICES ASSUME NEW i \in 1..(Len(e.order) + 1), NEW j \in 1..(Len(e.order) + 1),
                        n.order[i] = n.order[j]
                 PROVE  i = j
      BY <2>3, <2>4 DEF IsInjective
    <3>1. CASE i \in 1..Len(e.order) /\ j \in 1..Len(e.order)
      BY <2>1, <2>3, <2>4, <3>1 DEF IsInjective, Consistent, CacheOf
    <3>2. CASE i = Len(e.order) + 1 /\ j \in 1..Len(e.order)
      BY <2>1, <2>3, <2>4, <2>5, <3>2
    <3>3. CASE i \in 1..Len(e.order) /\ j = Len(e.order) + 1
      BY <2>1, <2>3, <2>4, <2>5, <3>3
    <3>4. CASE i = Len(e.order) + 1 /\ j = Len(e.order) + 1
      BY <3>4
    <3>5. /\ i \in 1..Len(e.order) \/ i = Len(e.order) + 1
          /\ j \in 1..Len(e.order) \/ j = Len(e.order) + 1
      <4>1. Len(e.order) \in Nat
        BY <2>5
      <4> QED BY <4>1
    <3> QED BY <3>1, <3>2, <3>3, <3>4, <3>5
  <2>7. n.seen = ToSet(n.order)
    <3>1. ToSet(n.order) = {n.order[i] : i \in 1..(Len(e.order) + 1)}
      BY <2>3, <2>4 DEF ToSet
    <3>2. \A j : j \in n.seen <=> \E i \in 1..(Len(e.order) + 1) : n.order[i] = j
      <4>1. ASSUME NEW j \in n.seen PROVE \E i \in 1..(Len(e.order) + 1) : n.order[i] = j
        <5>1. CASE j = k
          BY <2>3, <2>4, <2>5, <5>1
        <5>2. CASE j \in e.seen
          <6>1. PICK i \in 1..Len(e.order) : e.order[i] = j
            BY <2>5, <5>2
          <6> QED BY <2>3, <2>4, <2>5, <6>1
        <5> QED BY <2>4, <4>1, <5>1, <5>2
      <4>2. ASSUME NEW i \in 1..(Len(e.order) + 1) PROVE n.order[i] \in n.seen
        <5>1. CASE i \in 1..Len(e.order)
          BY <2>3, <2>4, <2>5, <5>1
        <5>2. CASE i = Len(e.order) + 1
          BY <2>3, <2>4, <5>2
        <5> QED BY <2>5, <5>1, <5>2
      <4> QED BY <4>1, <4>2
    <3> QED BY <3>1, <3>2
  <2> QED BY <2>1, <2>2, <2>3, <2>4, <2>5, <2>6, <2>7 DEF Consistent, Holds, CacheOf
<1> QED BY <1>1, <1>2

\* What a cache holds after a claim it held before, but for the key claimed.
LEMMA ClaimHoldsNoOther ==
    ASSUME NEW c, NEW k, NEW p, Holds(AfterClaim(c, k), p), p # k
    PROVE  Holds(c, p)
BY DEF Holds, AfterClaim, EvictOldest

\* A cache with room for every key there is never evicts: a claim adds its key, and
\* forgets none.
LEMMA ClaimWithRoom ==
    ASSUME NEW S, IsFiniteSet(S), NEW c \in CacheOf(S), Consistent(c), NEW k \in S,
           Cardinality(S) <= c.cap
    PROVE  AfterClaim(c, k).seen = c.seen \cup {k}
<1>1. CASE Holds(c, k)
  BY <1>1 DEF AfterClaim, Holds
<1>2. CASE ~Holds(c, k)
  <2> DEFINE n == Len(c.order)
  <2>1. c.order \in Seq(S) /\ n \in Nat /\ DOMAIN c.order = 1..n
    BY LenProperties DEF CacheOf
  <2>2. c.order \in Bijection(1..n, c.seen)
    <3>1. \A i \in 1..n : c.order[i] \in c.seen
      BY <2>1 DEF Consistent, ToSet
    <3>2. c.order \in [1..n -> c.seen]
      <4>1. c.order \in [1..n -> S]
        BY <2>1, LenProperties
      <4> QED BY <3>1, <4>1
    <3>3. \A j \in c.seen : \E i \in 1..n : c.order[i] = j
      BY <2>1 DEF Consistent, ToSet
    <3> QED BY <3>2, <3>3 DEF Consistent, Bijection, Injection, Surjection
  <2>3. Cardinality(c.seen) = n
    BY <2>1, <2>2, FS_CountingElements DEF ExistsBijection
  <2>4. /\ IsFiniteSet(S \ {k}) /\ Cardinality(S \ {k}) = Cardinality(S) - 1
        /\ Cardinality(S) \in Nat
    BY FS_RemoveElement, FS_CardinalityType
  <2>5. Cardinality(c.seen) <= Cardinality(S \ {k})
    <3>1. c.seen \subseteq S \ {k}
      BY <1>2 DEF Holds, CacheOf
    <3> QED BY <2>4, <3>1, FS_Subset
  <2>6. n < c.cap
    BY <2>1, <2>3, <2>4, <2>5 DEF CacheOf
  <2>7. EvictOldest(c) = c
    BY <2>1, <2>6 DEF EvictOldest, CacheOf
  <2> QED BY <1>2, <2>7 DEF AfterClaim, CacheOf
<1> QED BY <1>1, <1>2

\* A release keeps the cache consistent and forgets exactly the key given.
LEMMA ReleaseKeeps ==
    ASSUME NEW S, NEW c \in CacheOf(S), Consistent(c), NEW k \in S
    PROVE  /\ AfterRelease(c, k) \in CacheOf(S)
           /\ Consistent(AfterRelease(c, k))
           /\ AfterRelease(c, k).cap = c.cap
           /\ AfterRelease(c, k).seen = c.seen \ {k}
<1>1. CASE ~Holds(c, k)
  BY <1>1 DEF AfterRelease, Holds, CacheOf
<1>2. CASE Holds(c, k)
  <2> DEFINE s == c.order
             t == RemoveFirst(c.order, k)
             n == [c EXCEPT !.seen = @ \ {k}, !.order = RemoveFirst(@, k)]
  <2>1. AfterRelease(c, k) = n
    BY <1>2 DEF AfterRelease
  <2>2. s \in Seq(S) /\ IsInjective(s) /\ c.seen = ToSet(s) /\ Len(s) <= c.cap
    BY DEF CacheOf, Consistent
  <2>3. PICK p \in 1..Len(s) : s[p] = k
    BY <1>2, <2>2 DEF Holds, ToSet
  <2> HIDE DEF s
  <2>4. /\ t \in Seq(S)
        /\ Len(t) = Len(s) - 1
        /\ \A i \in 1..Len(t) : t[i] = IF i < p THEN s[i] ELSE s[i + 1]
    BY <2>2, <2>3, RemoveFirstShape DEF s
  <2> HIDE DEF t
  <2>5. n \in CacheOf(S) /\ n.cap = c.cap /\ n.order = t /\ n.seen = c.seen \ {k}
    BY <2>4 DEF CacheOf, t
  <2> HIDE DEF n
  <2>6. Len(s) \in Nat /\ Len(t) \in Nat
    BY <2>2, <2>4
  <2>7. IsInjective(t)
    <3> SUFFICES ASSUME NEW i \in 1..Len(t), NEW j \in 1..Len(t), t[i] = t[j]
                 PROVE  i = j
      BY <2>4 DEF IsInjective
    <3> DEFINE pos(l) == IF l < p THEN l ELSE l + 1
    <3>1. pos(i) \in 1..Len(s) /\ pos(j) \in 1..Len(s)
      BY <2>4, <2>6
    <3>2. s[pos(i)] = s[pos(j)]
      BY <2>4
    <3>3. pos(i) = pos(j)
      BY <2>2, <3>1, <3>2 DEF IsInjective
    <3> QED BY <2>6, <3>3
  <2>8. ToSet(t) = ToSet(s) \ {k}
    <3>1. ASSUME NEW j \in ToSet(t) PROVE j \in ToSet(s) \ {k}
      <4>1. PICK i \in 1..Len(t) : t[i] = j
        BY <2>4 DEF ToSet
      <4>2. PICK q \in 1..Len(s) : q # p /\ s[q] = j
        BY <2>4, <2>6, <4>1
      <4> QED BY <2>2, <2>3, <4>2 DEF ToSet, IsInjective
    <3>2. ASSUME NEW j \in ToSet(s) \ {k} PROVE j \in ToSet(t)
      <4>1. PICK q \in 1..Len(s) : s[q] = j /\ q # p
        BY <2>2, <2>3 DEF ToSet
      <4>2. CASE q < p
        <5>1. q \in 1..Len(t) /\ t[q] = j
          BY <2>3, <2>4, <2>6, <4>1, <4>2
        <5> QED BY <2>4, <5>1 DEF ToSet
      <4>3. CASE q > p
        <5>1. q - 1 \in 1..Len(t) /\ t[q - 1] = j
          BY <2>3, <2>4, <2>6, <4>1, <4>3
        <5> QED BY <2>4, <5>1 DEF ToSet
      <4> QED BY <4>1, <4>2, <4>3
    <3> QED BY <3>1, <3>2
  <2> QED BY <2>1, <2>2, <2>4, <2>5, <2>6, <2>7, <2>8 DEF Consistent, CacheOf
<1> QED BY <1>1, <1>2

\* A cache starts consistent, its capacity at least 1.
LEMMA NewCache ==
    ASSUME NEW S, NEW cap \in Nat
    PROVE  WithCapacity(cap) \in CacheOf(S) /\ Consistent(WithCapacity(cap))
<1>1. <<>> \in Seq(S) /\ Len(<<>>) = 0 /\ DOMAIN <<>> = {}
  BY EmptySeq
<1> QED BY <1>1 DEF WithCapacity, CacheOf, Consistent, ToSet, IsInjective

============================================================================
