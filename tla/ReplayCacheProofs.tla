------------------------- MODULE ReplayCacheProofs -------------------------
(***************************************************************************)
(* The replay cache keeps its promise for any set of keys and capacity.    *)
(* The strengthening (Tracked) says that a key's successors in the deque   *)
(* are among the keys claimed after it: at its eviction there are cap - 1  *)
(* of them, distinct, and the key being claimed is one more.               *)
(***************************************************************************)
EXTENDS ReplayCache, ReplayCacheLemmas, FiniteSetTheorems

Tracked ==
    \A i, j \in 1..Len(cache.order) :
        i < j => cache.order[j] \in later[cache.order[i]]

IInv ==
    /\ TypeOK
    /\ Consistent(cache)
    /\ cache.seen \subseteq spent
    /\ \A k \in Key : IsFiniteSet(later[k])
    /\ Tracked
    /\ ForgottenOnlyAfterCapOthers

----------------------------------------------------------------------------
\* A claim appends its key to the deque, after dropping the oldest if need be.
LEMMA ClaimOrder ==
    ASSUME NEW S, NEW c \in CacheOf(S), Consistent(c), NEW k \in S, ~Holds(c, k)
    PROVE  LET e == EvictOldest(c).order
               n == AfterClaim(c, k).order
               d == Len(c.order) - Len(e)
           IN  /\ d \in {0, 1}
               /\ Len(e) \in Nat /\ Len(n) = Len(e) + 1
               /\ \A i \in 1..Len(e) : n[i] = c.order[i + d]
               /\ n[Len(e) + 1] = k
<1> DEFINE e == EvictOldest(c)
<1>1. e \in CacheOf(S) /\ e.order \in Seq(S)
  BY EvictKeeps DEF CacheOf
<1>2. AfterClaim(c, k).order = Append(e.order, k)
  <2>1. AfterClaim(c, k) = [e EXCEPT !.seen = @ \cup {k}, !.order = Append(@, k)]
    BY DEF AfterClaim
  <2> HIDE DEF e
  <2> QED BY <1>1, <2>1 DEF CacheOf
<1>3. /\ Len(Append(e.order, k)) = Len(e.order) + 1
      /\ \A i \in 1..Len(e.order) : Append(e.order, k)[i] = e.order[i]
      /\ Append(e.order, k)[Len(e.order) + 1] = k
      /\ Len(e.order) \in Nat
  <2> HIDE DEF e
  <2> QED BY <1>1, AppendProperties, LenProperties
<1>4. CASE Len(c.order) >= c.cap /\ c.order # <<>>
  <2>1. /\ c.order \in Seq(S) /\ Len(c.order) \in Nat
        /\ Len(Tail(c.order)) = Len(c.order) - 1
        /\ \A i \in 1..(Len(c.order) - 1) : Tail(c.order)[i] = c.order[i + 1]
    BY <1>4, HeadTailProperties, LenProperties DEF CacheOf
  <2>2. e.order = Tail(c.order)
    BY <1>4 DEF EvictOldest, CacheOf
  <2> HIDE DEF e
  <2>3. Len(c.order) - Len(e.order) = 1
    BY <2>1, <2>2
  <2> QED BY <1>2, <1>3, <2>1, <2>2, <2>3 DEF e
<1>5. CASE ~(Len(c.order) >= c.cap /\ c.order # <<>>)
  <2>1. e = c
    BY <1>5 DEF EvictOldest
  <2>2. Len(c.order) \in Nat
    BY LenProperties DEF CacheOf
  <2>3. Len(c.order) - Len(e.order) = 0
    BY <2>1, <2>2
  <2> HIDE DEF e
  <2> QED BY <1>2, <1>3, <2>1, <2>2, <2>3 DEF e
<1> QED BY <1>4, <1>5

\* A key that a claim drops is the front of a full deque.
LEMMA DroppedIsFront ==
    ASSUME NEW S, NEW c \in CacheOf(S), Consistent(c), NEW k \in S, ~Holds(c, k),
           NEW j \in c.seen, j \notin AfterClaim(c, k).seen
    PROVE  Len(c.order) = c.cap /\ j = c.order[1] /\ j # k
<1> DEFINE e == EvictOldest(c)
<1>1. AfterClaim(c, k).seen = e.seen \cup {k}
  <2>1. AfterClaim(c, k) = [e EXCEPT !.seen = @ \cup {k}, !.order = Append(@, k)]
    BY DEF AfterClaim
  <2>2. e \in CacheOf(S)
    BY EvictKeeps
  <2> HIDE DEF e
  <2> QED BY <2>1, <2>2 DEF CacheOf
<1>2. Len(c.order) >= c.cap /\ c.order # <<>> /\ e.seen = c.seen \ {Head(c.order)}
  BY <1>1 DEF EvictOldest, CacheOf
<1>3. Len(c.order) \in Nat /\ c.cap \in Nat /\ Len(c.order) <= c.cap
  BY LenProperties DEF CacheOf, Consistent
<1>4. Head(c.order) = c.order[1]
  BY <1>2, HeadTailProperties DEF CacheOf
<1> HIDE DEF e
<1> QED BY <1>1, <1>2, <1>3, <1>4

\* A full deque's front key, once dropped, has cap distinct successors.
LEMMA FrontHasCapOthers ==
    ASSUME NEW S, NEW s \in Seq(S), IsInjective(s), NEW k \in S,
           \A i \in 1..Len(s) : s[i] # k,
           NEW L, IsFiniteSet(L), k \in L, \A i \in 2..Len(s) : s[i] \in L
    PROVE  Cardinality(L) >= Len(s)
<1> DEFINE n == Len(s)
           f == [i \in 1..n |-> IF i = 1 THEN k ELSE s[i]]
<1>1. n \in Nat /\ DOMAIN s = 1..n
  BY LenProperties
<1>2. f \in [1..n -> L]
  BY <1>1
<1>3. \A i, j \in 1..n : f[i] = f[j] => i = j
  BY <1>1 DEF IsInjective
<1>4. f \in Injection(1..n, L)
  BY <1>2, <1>3 DEF Injection, IsInjective
<1> HIDE DEF f
<1>5. Cardinality(1..n) <= Cardinality(L)
  BY <1>4, FS_Injection
<1>6. Cardinality(1..n) = n
  BY <1>1, FS_Interval
<1>7. Cardinality(L) \in Nat
  BY FS_CardinalityType
<1> QED BY <1>1, <1>5, <1>6, <1>7

----------------------------------------------------------------------------
\* The invariant holds initially.
LEMMA IInvInit == Init => IInv
<1> SUFFICES ASSUME Init PROVE IInv
  OBVIOUS
<1>1. PICK cap \in Nat : cache = WithCapacity(cap)
  BY CapsAssumption DEF Init
<1>2. cache \in CacheOf(Key) /\ Consistent(cache)
  BY <1>1, NewCache
<1>3. cache.order = <<>> /\ cache.seen = {} /\ Len(<<>>) = 0
  BY <1>1, EmptySeq DEF WithCapacity
<1>4. spent = {} /\ later = [k \in Key |-> {}]
  BY DEF Init
<1> QED BY <1>2, <1>3, <1>4, FS_EmptySet
        DEF IInv, TypeOK, CacheOf, Tracked, ForgottenOnlyAfterCapOthers

\* A claim that admits keeps the invariant.
LEMMA ClaimStep ==
    ASSUME IInv, NEW k \in Key, ClaimFirst(k)
    PROVE  IInv'
<1> DEFINE c == cache
           n == AfterClaim(cache, k)
<1>1. /\ cache \in CacheOf(Key) /\ Consistent(cache) /\ ~Holds(cache, k)
      /\ cache' = n /\ spent' = spent \cup {k}
      /\ later' = [j \in Key |-> IF j = k THEN {} ELSE later[j] \cup {k}]
      /\ later \in [Key -> SUBSET Key]
  BY DEF IInv, TypeOK, CacheOf, ClaimFirst
<1>2. n \in CacheOf(Key) /\ Consistent(n) /\ n.cap = cache.cap /\ Holds(n, k)
  BY <1>1, ClaimKeeps
<1>3. TypeOK'
  BY <1>1, <1>2 DEF IInv, TypeOK, CacheOf
<1>4. \A j \in Key : IsFiniteSet(later'[j])
  BY <1>1, FS_EmptySet, FS_AddElement DEF IInv
<1>5. n.seen \subseteq cache.seen \cup {k}
  <2> DEFINE e == EvictOldest(cache)
  <2>1. e \in CacheOf(Key) /\ e.seen \subseteq cache.seen
    BY <1>1, EvictKeeps
  <2>2. n = [e EXCEPT !.seen = @ \cup {k}, !.order = Append(@, k)]
    BY <1>1 DEF AfterClaim
  <2> HIDE DEF e, n
  <2> QED BY <2>1, <2>2 DEF CacheOf
<1>6. cache'.seen \subseteq spent'
  BY <1>1, <1>5 DEF IInv
<1> HIDE DEF n
<1>7. Tracked'
  <2> DEFINE m == Len(EvictOldest(cache).order)
             d == Len(cache.order) - m
  <2>1. /\ d \in {0, 1} /\ m \in Nat /\ Len(n.order) = m + 1
        /\ \A i \in 1..m : n.order[i] = cache.order[i + d]
        /\ n.order[m + 1] = k
    <3>1. cache \in CacheOf(Key) /\ Consistent(cache) /\ ~Holds(cache, k)
      BY <1>1
    <3> QED BY <3>1, ClaimOrder, ZenonT(60) DEF n
  <2>2. Len(cache.order) = m + d /\ Len(cache.order) \in Nat
    BY <1>1, <2>1, LenProperties DEF CacheOf
  <2> HIDE DEF m, d
  <2>3. \A i \in 1..Len(cache.order) : cache.order[i] \in Key /\ cache.order[i] # k
    BY <1>1, ElementOfSeq DEF CacheOf, Consistent, Holds, ToSet
  <2> SUFFICES ASSUME NEW i \in 1..(m + 1), NEW j \in 1..(m + 1), i < j
               PROVE  n.order[j] \in later'[n.order[i]]
    BY <1>1, <2>1 DEF Tracked
  <2>4. /\ i \in 1..m /\ i + d \in 1..Len(cache.order)
        /\ n.order[i] = cache.order[i + d]
    BY <2>1, <2>2
  <2>5. later'[n.order[i]] = later[n.order[i]] \cup {k}
    BY <1>1, <2>3, <2>4
  <2>6. CASE j = m + 1
    BY <2>1, <2>5, <2>6
  <2>7. CASE j \in 1..m
    <3>1. j + d \in 1..Len(cache.order) /\ i + d < j + d
          /\ n.order[j] = cache.order[j + d]
      BY <2>1, <2>2, <2>7
    <3> QED BY <2>4, <2>5, <3>1 DEF IInv, Tracked
  <2>8. j = m + 1 \/ j \in 1..m
    BY <2>1
  <2> QED BY <2>6, <2>7, <2>8
<1>8. ForgottenOnlyAfterCapOthers'
  <2> SUFFICES ASSUME NEW j \in spent', j \notin n.seen
               PROVE  Cardinality(later'[j]) >= n.cap
    BY <1>1 DEF ForgottenOnlyAfterCapOthers
  <2>1. j # k /\ j \in spent /\ j \in Key /\ later'[j] = later[j] \cup {k}
    BY <1>1, <1>2 DEF Holds, IInv, TypeOK
  <2>2. CASE j \in cache.seen
    <3>1. Len(cache.order) = cache.cap /\ j = cache.order[1]
      BY <1>1, <2>2, DroppedIsFront DEF n
    <3>2. /\ cache.order \in Seq(Key) /\ IsInjective(cache.order)
          /\ Len(cache.order) \in Nat
          /\ \A i \in 1..Len(cache.order) : cache.order[i] # k
      BY <1>1, LenProperties DEF CacheOf, Consistent, Holds, ToSet
    <3>3. \A i \in 2..Len(cache.order) : cache.order[i] \in later'[j]
      BY <2>1, <3>1, <3>2 DEF IInv, Tracked
    <3>4. Cardinality(later'[j]) >= Len(cache.order)
      BY <1>4, <2>1, <3>2, <3>3, FrontHasCapOthers
    <3> QED BY <1>2, <3>1, <3>4
  <2>3. CASE j \notin cache.seen
    <3>1. Cardinality(later[j]) >= cache.cap /\ IsFiniteSet(later[j])
      BY <2>1, <2>3 DEF IInv, ForgottenOnlyAfterCapOthers
    <3>2. Cardinality(later[j] \cup {k}) \in {Cardinality(later[j]), Cardinality(later[j]) + 1}
          /\ Cardinality(later[j]) \in Nat
      BY <3>1, FS_AddElement, FS_CardinalityType
    <3>3. cache.cap \in Nat
      BY <1>1 DEF CacheOf
    <3> QED BY <1>2, <2>1, <3>1, <3>2, <3>3
  <2> QED BY <2>2, <2>3
<1> QED BY <1>1, <1>2, <1>3, <1>4, <1>6, <1>7, <1>8 DEF IInv

\* A release keeps the invariant: the other keys keep their order.
LEMMA ReleaseStep ==
    ASSUME IInv, NEW k \in Key, Release(k)
    PROVE  IInv'
<1> DEFINE n == AfterRelease(cache, k)
<1>1. /\ cache \in CacheOf(Key) /\ Consistent(cache)
      /\ cache' = n /\ spent' = spent \ {k} /\ later' = later
  BY DEF IInv, TypeOK, CacheOf, Release
<1>2. n \in CacheOf(Key) /\ Consistent(n) /\ n.cap = cache.cap /\ n.seen = cache.seen \ {k}
  BY <1>1, ReleaseKeeps
<1>3. Tracked'
  <2>1. CASE ~Holds(cache, k)
    BY <1>1, <2>1 DEF AfterRelease, IInv, Tracked
  <2>2. CASE Holds(cache, k)
    <3> DEFINE s == cache.order
               t == RemoveFirst(cache.order, k)
    <3>1. s \in Seq(Key) /\ IsInjective(s) /\ Len(s) \in Nat
      BY <1>1, LenProperties DEF CacheOf, Consistent
    <3>2. PICK p \in 1..Len(s) : s[p] = k
      BY <1>1, <2>2 DEF Holds, Consistent, ToSet
    <3>3. /\ Len(t) = Len(s) - 1
          /\ \A i \in 1..Len(t) : t[i] = IF i < p THEN s[i] ELSE s[i + 1]
      BY <3>1, <3>2, RemoveFirstShape
    <3>4. cache'.order = t
      BY <1>1, <2>2 DEF AfterRelease, CacheOf
    <3> HIDE DEF t
    <3> DEFINE pos(i) == IF i < p THEN i ELSE i + 1
    <3>5. \A i, j \in 1..Len(t) : i < j =>
             pos(i) \in 1..Len(s) /\ pos(j) \in 1..Len(s) /\ pos(i) < pos(j)
      BY <3>1, <3>3
    <3>6. \A i \in 1..Len(t) : t[i] = s[pos(i)]
      BY <3>3
    <3> HIDE DEF pos
    <3> QED BY <1>1, <3>4, <3>5, <3>6 DEF IInv, Tracked
  <2> QED BY <2>1, <2>2
<1> HIDE DEF n
<1>4. ForgottenOnlyAfterCapOthers'
  BY <1>1, <1>2 DEF IInv, ForgottenOnlyAfterCapOthers
<1> QED BY <1>1, <1>2, <1>3, <1>4 DEF IInv, TypeOK, CacheOf

\* The cache's types, its set and deque in agreement, its bound and its
\* retention promise hold in every state, for any keys and capacities.
THEOREM CacheInvariant == Spec => []IInv
<1>1. IInv /\ [Next]_vars => IInv'
  <2> SUFFICES ASSUME IInv, [Next]_vars PROVE IInv'
    OBVIOUS
  <2>1. ASSUME NEW k \in Key, ClaimAgain(k) PROVE IInv'
    <3>1. UNCHANGED <<cache, spent, later>>
      BY <2>1 DEF ClaimAgain, AfterClaim
    <3> QED BY <3>1 DEF IInv, TypeOK, Tracked, ForgottenOnlyAfterCapOthers
  <2>2. CASE UNCHANGED vars
    BY <2>2 DEF vars, IInv, TypeOK, Tracked, ForgottenOnlyAfterCapOthers
  <2> QED BY <2>1, <2>2, ClaimStep, ReleaseStep DEF Next
<1> QED BY <1>1, IInvInit, PTL DEF Spec

\* A spent key is forgotten only after `cap' distinct later claims.
THEOREM RetentionHolds == Spec => []ForgottenOnlyAfterCapOthers
<1>1. IInv => ForgottenOnlyAfterCapOthers
  BY DEF IInv
<1> QED BY <1>1, CacheInvariant, PTL

\* The set and the deque always agree.
THEOREM AgreementHolds == Spec => []SetMatchesDeque
<1>1. IInv => SetMatchesDeque
  BY DEF IInv, Consistent, SetMatchesDeque
<1> QED BY <1>1, CacheInvariant, PTL

============================================================================
