---------------------------- MODULE AccessProofs ----------------------------
(* Proofs about what a request meets before and after the gates: the invoice *)
(* rate limit, and the access phase with its counters and quotes, for any    *)
(* limit and window, any workers, locations and prices.                      *)
EXTENDS AccessPhase, InvoiceRateLimit, FiniteSetTheorems, TLAPS

-----------------------------------------------------------------------------
(* The invoice rate limit. *)

(* The checks a window's record stands for, at the ages of A.  *)
Entries(ages, A) == UNION {{a} \X (1..ages[a]) : a \in A}

\* A check made just now has an age.
LEMMA AgeStartsAtZero == 0 \in Age
BY LimitAssumption DEF Age

\* Entries(ages, A) holds one pair for each check at an age of A, and nothing else.
LEMMA EntriesAre ==
  ASSUME NEW ages, NEW A
  PROVE  /\ \A x \in Entries(ages, A) : \E a \in A, i \in Int :
               i \in 1..ages[a] /\ x = <<a, i>>
         /\ \A a \in A : \A i \in 1..ages[a] : <<a, i>> \in Entries(ages, A)
         /\ \A a, i : <<a, i>> \in Entries(ages, A) => a \in A /\ i \in 1..ages[a]
<1>1. ASSUME NEW x \in Entries(ages, A)
      PROVE  \E a \in A, i \in Int : i \in 1..ages[a] /\ x = <<a, i>>
  <2>1. PICK a \in A : x \in {a} \X (1..ages[a])
    BY DEF Entries
  <2>2. PICK i \in 1..ages[a] : x = <<a, i>>
    BY <2>1
  <2> QED
    BY <2>2
<1>2. ASSUME NEW a \in A, NEW i \in 1..ages[a] PROVE <<a, i>> \in Entries(ages, A)
  <2>1. <<a, i>> \in {a} \X (1..ages[a])
    OBVIOUS
  <2> QED
    BY <2>1 DEF Entries
<1>3. ASSUME NEW a, NEW i, <<a, i>> \in Entries(ages, A)
      PROVE  a \in A /\ i \in 1..ages[a]
  <2>1. PICK b \in A : <<a, i>> \in {b} \X (1..ages[b])
    BY <1>3 DEF Entries
  <2> QED
    BY <2>1
<1> QED
  BY <1>1, <1>2, <1>3

(* A record of finitely many ages has finitely many entries. *)
LEMMA EntriesFinite ==
  ASSUME NEW ages \in [Age -> Nat], NEW A \in SUBSET Age
  PROVE  IsFiniteSet(Entries(ages, A)) /\ Tally(ages, A) \in Nat
<1> DEFINE F == [a \in A |-> {a} \X (1..ages[a])]
           S == {{a} \X (1..ages[a]) : a \in A}
<1>1. IsFiniteSet(A)
  <2>1. IsFiniteSet(Age)
    BY LimitAssumption, FS_Interval DEF Age
  <2> QED
    BY <2>1, FS_Subset
<1>2. IsFiniteSet(S)
  <2>1. F \in Surjection(A, S)
    BY DEF Surjection
  <2> HIDE DEF F, S
  <2> QED
    BY <1>1, <2>1, FS_Surjection
<1>3. \A T \in S : IsFiniteSet(T)
  <2> SUFFICES ASSUME NEW a \in A PROVE IsFiniteSet({a} \X (1..ages[a]))
    OBVIOUS
  <2> DEFINE G == [i \in 1..ages[a] |-> <<a, i>>]
  <2>1. G \in Surjection(1..ages[a], {a} \X (1..ages[a]))
    <3>1. G \in [1..ages[a] -> {a} \X (1..ages[a])]
      OBVIOUS
    <3>2. ASSUME NEW x \in {a} \X (1..ages[a]) PROVE \E i \in 1..ages[a] : G[i] = x
      <4>1. PICK i \in 1..ages[a] : x = <<a, i>>
        OBVIOUS
      <4> QED
        BY <4>1
    <3> QED
      BY <3>1, <3>2 DEF Surjection
  <2>2. IsFiniteSet(1..ages[a])
    <3>1. ages[a] \in Int
      OBVIOUS
    <3> QED
      BY <3>1, FS_Interval
  <2> HIDE DEF G
  <2> QED
    BY <2>1, <2>2, FS_Surjection
<1>4. IsFiniteSet(Entries(ages, A))
  BY <1>2, <1>3, FS_UNION DEF Entries
<1> QED
  BY <1>4, FS_CardinalityType DEF Entries, Tally

(* Disjoint ages add up. *)
LEMMA TallySplits ==
  ASSUME NEW ages \in [Age -> Nat], NEW A \in SUBSET Age, NEW B \in SUBSET Age,
         A \cap B = {}
  PROVE  Tally(ages, A \cup B) = Tally(ages, A) + Tally(ages, B)
<1>1. Entries(ages, A \cup B) = Entries(ages, A) \cup Entries(ages, B)
  BY DEF Entries
<1>2. Entries(ages, A) \cap Entries(ages, B) = {}
  BY EntriesAre
<1>3. Cardinality(Entries(ages, A) \cap Entries(ages, B)) = 0
  BY <1>2, FS_EmptySet
<1>4. IsFiniteSet(Entries(ages, A)) /\ IsFiniteSet(Entries(ages, B))
  BY EntriesFinite
<1>5. Cardinality(Entries(ages, A)) \in Nat /\ Cardinality(Entries(ages, B)) \in Nat
  BY <1>4, FS_CardinalityType
<1>6. Cardinality(Entries(ages, A \cup B))
        = Cardinality(Entries(ages, A)) + Cardinality(Entries(ages, B))
  <2>1. Cardinality(Entries(ages, A) \cup Entries(ages, B))
        = Cardinality(Entries(ages, A)) + Cardinality(Entries(ages, B))
            - Cardinality(Entries(ages, A) \cap Entries(ages, B))
    BY <1>4, FS_Union
  <2> QED
    BY <1>1, <1>3, <1>5, <2>1
<1> QED
  BY <1>6 DEF Tally, Entries

(* Fewer ages have no more. *)
LEMMA TallyMonotone ==
  ASSUME NEW ages \in [Age -> Nat], NEW B \in SUBSET Age, NEW A \in SUBSET B
  PROVE  Tally(ages, A) <= Tally(ages, B)
<1>1. Entries(ages, A) \in SUBSET Entries(ages, B)
  BY DEF Entries
<1>2. IsFiniteSet(Entries(ages, B))
  BY EntriesFinite
<1> QED
  BY <1>1, <1>2, FS_Subset DEF Tally, Entries

(* One check more at age 0 is one entry more. *)
LEMMA OneEntryMore ==
  ASSUME NEW ages, NEW more, NEW A, 0 \in A,
         ages[0] \in Nat, more[0] = ages[0] + 1,
         \A a \in A : a # 0 => more[a] = ages[a]
  PROVE  /\ Entries(more, A) = Entries(ages, A) \cup {<<0, ages[0] + 1>>}
         /\ <<0, ages[0] + 1>> \notin Entries(ages, A)
<1>1. \A i \in Int : i \in 1..more[0] <=> i \in 1..ages[0] \/ i = ages[0] + 1
  OBVIOUS
<1>2. ages[0] + 1 \in 1..more[0] /\ ages[0] + 1 \notin 1..ages[0]
  OBVIOUS
<1>3. ASSUME NEW x \in Entries(more, A)
      PROVE  x \in Entries(ages, A) \cup {<<0, ages[0] + 1>>}
  <2>1. PICK a \in A, i \in Int : i \in 1..more[a] /\ x = <<a, i>>
    BY EntriesAre
  <2>2. CASE a = 0 /\ i = ages[0] + 1
    BY <2>1, <2>2
  <2>3. CASE ~(a = 0 /\ i = ages[0] + 1)
    <3>1. i \in 1..ages[a]
      BY <1>1, <2>1, <2>3
    <3> QED
      BY <2>1, <3>1, EntriesAre
  <2> QED
    BY <2>2, <2>3
<1>4. ASSUME NEW x \in Entries(ages, A) PROVE x \in Entries(more, A)
  <2>1. PICK a \in A, i \in Int : i \in 1..ages[a] /\ x = <<a, i>>
    BY EntriesAre
  <2>2. i \in 1..more[a]
    BY <1>1, <2>1
  <2> QED
    BY <2>1, <2>2, EntriesAre
<1>5. <<0, ages[0] + 1>> \in Entries(more, A)
  BY <1>2, EntriesAre
<1>6. <<0, ages[0] + 1>> \notin Entries(ages, A)
  BY <1>2, EntriesAre
<1> QED
  BY <1>3, <1>4, <1>5, <1>6

(* A check just made is one more among the ages that include now. *)
Noted(ages) == [ages EXCEPT ![0] = @ + 1]

\* Noting one more check at age 0 adds one to every tally that includes that age.
LEMMA TallyOfNoted ==
  ASSUME NEW ages \in [Age -> Nat], NEW A \in SUBSET Age,
         NEW more, more = Noted(ages)
  PROVE  /\ more \in [Age -> Nat]
         /\ Tally(more, A) = IF 0 \in A THEN Tally(ages, A) + 1 ELSE Tally(ages, A)
<1>1. more \in [Age -> Nat]
  BY AgeStartsAtZero DEF Noted
<1>2. CASE 0 \notin A
  <2>1. \A a \in A : more[a] = ages[a]
    BY <1>2, AgeStartsAtZero DEF Noted
  <2>2. Entries(more, A) = Entries(ages, A)
    BY <2>1 DEF Entries
  <2> QED
    BY <1>1, <1>2, <2>2 DEF Entries, Tally
<1>3. CASE 0 \in A
  <2>1. ages[0] \in Nat /\ more[0] = ages[0] + 1 /\ \A a \in A : a # 0 => more[a] = ages[a]
    BY <1>3, AgeStartsAtZero DEF Noted
  <2>2. /\ Entries(more, A) = Entries(ages, A) \cup {<<0, ages[0] + 1>>}
        /\ <<0, ages[0] + 1>> \notin Entries(ages, A)
    BY <1>3, <2>1, OneEntryMore
  <2>3. IsFiniteSet(Entries(ages, A))
    BY EntriesFinite
  <2>4. Cardinality(Entries(more, A)) = Cardinality(Entries(ages, A)) + 1
    <3> DEFINE E == Entries(ages, A)
               new == <<0, ages[0] + 1>>
    <3>1. IsFiniteSet(E) /\ new \notin E /\ Entries(more, A) = E \cup {new}
      BY <2>2, <2>3
    <3> HIDE DEF E, new
    <3>2. Cardinality(E \cup {new}) = Cardinality(E) + 1
      BY <3>1, FS_AddElement
    <3> QED
      BY <3>1, <3>2 DEF E
  <2> QED
    BY <1>1, <1>3, <2>4 DEF Entries, Tally
<1> QED
  BY <1>2, <1>3

(* After a tick the ages of A hold what those a tick younger held. *)
LEMMA TallyOfOlder ==
  ASSUME NEW ages \in [Age -> Nat], NEW A \in SUBSET Age, NEW B \in SUBSET Age,
         \A a \in Age : a \in A /\ a # 0 <=> a > 0 /\ a - 1 \in B,
         \A b \in B : b + 1 \in Age
  PROVE  Older(ages) \in [Age -> Nat] /\ Tally(Older(ages), A) = Tally(ages, B)
<1> DEFINE F == [x \in Entries(ages, B) |-> <<x[1] + 1, x[2]>>]
<1>1. Older(ages) \in [Age -> Nat]
  BY LimitAssumption DEF Age, Older
<1>2. Older(ages)[0] = 0 /\ \A a \in Age : a # 0 => Older(ages)[a] = ages[a - 1]
  BY AgeStartsAtZero DEF Older
<1>3. ASSUME NEW x \in Entries(ages, B)
      PROVE  /\ x[1] \in B /\ x[2] \in 1..ages[x[1]] /\ x = <<x[1], x[2]>>
             /\ F[x] \in Entries(Older(ages), A)
  <2>1. PICK b \in B, i \in Int : i \in 1..ages[b] /\ x = <<b, i>>
    BY EntriesAre
  <2>2. b \in Int /\ b >= 0 /\ b + 1 \in Age /\ b + 1 \in A
    BY LimitAssumption DEF Age
  <2>3. Older(ages)[b + 1] = ages[b]
    BY <1>2, <2>2
  <2>4. F[x] = <<b + 1, i>>
    BY <2>1
  <2> QED
    BY <2>1, <2>2, <2>3, <2>4, EntriesAre
<1>4. ASSUME NEW y \in Entries(Older(ages), A)
      PROVE  \E x \in Entries(ages, B) : F[x] = y
  <2>1. PICK a \in A, i \in Int : i \in 1..Older(ages)[a] /\ y = <<a, i>>
    BY EntriesAre
  <2>2. a # 0
    BY <2>1, <1>2
  <2>3. a \in Age /\ a \in Int /\ a - 1 \in B /\ Older(ages)[a] = ages[a - 1]
    BY <1>2, <2>2 DEF Age
  <2>4. <<a - 1, i>> \in Entries(ages, B)
    BY <2>1, <2>3, EntriesAre
  <2> QED
    BY <2>1, <2>3, <2>4
<1>5. F \in Bijection(Entries(ages, B), Entries(Older(ages), A))
  <2>1. F \in [Entries(ages, B) -> Entries(Older(ages), A)]
    BY <1>3
  <2>2. ASSUME NEW x \in Entries(ages, B), NEW y \in Entries(ages, B), F[x] = F[y]
        PROVE  x = y
    <3>1. /\ x[1] \in B /\ x = <<x[1], x[2]>>
          /\ y[1] \in B /\ y = <<y[1], y[2]>>
      BY <1>3
    <3>2. <<x[1] + 1, x[2]>> = <<y[1] + 1, y[2]>>
      BY <2>2
    <3>3. x[1] + 1 = y[1] + 1 /\ x[2] = y[2]
      BY <3>2
    <3>4. x[1] \in Int /\ y[1] \in Int
      BY <3>1, LimitAssumption DEF Age
    <3>5. x[1] = y[1]
      BY <3>3, <3>4
    <3> QED
      BY <3>1, <3>3, <3>5
  <2> QED
    BY <1>4, <2>1, <2>2 DEF Bijection, Injection, Surjection, IsInjective
<1>6. IsFiniteSet(Entries(ages, B))
  BY EntriesFinite
<1>7. Cardinality(Entries(Older(ages), A)) = Cardinality(Entries(ages, B))
  BY <1>5, <1>6, FS_Bijection DEF ExistsBijection
<1> QED
  BY <1>1, <1>7 DEF Entries, Tally
-----------------------------------------------------------------------------
(* The key of a bucket counts and has a time to live, or does not exist: the *)
(* script creates the two together and Redis deletes them together.          *)
LEMMA IncrKeepsKeys ==
  ASSUME TypeOK, NEW b \in Bucket, Incr(b)
  PROVE  /\ count' \in [Bucket -> 0..Limit + 1]
         /\ ttl' \in [Bucket -> 0..Window]
         /\ \A c \in Bucket : count'[c] = 0 <=> ttl'[c] = 0
BY LimitAssumption DEF TypeOK, Incr, Incremented

\* Time takes a counter away together with its time to live.
LEMMA TickKeepsKeys ==
  ASSUME TypeOK, Tick
  PROVE  /\ count' \in [Bucket -> 0..Limit + 1]
         /\ ttl' \in [Bucket -> 0..Window]
         /\ \A c \in Bucket : count'[c] = 0 <=> ttl'[c] = 0
BY LimitAssumption DEF TypeOK, Tick

\* Checks that grow older remain checks of a known age.
LEMMA OlderIsTyped == ASSUME NEW ages \in [Age -> Nat] PROVE Older(ages) \in [Age -> Nat]
BY LimitAssumption DEF Age, Older

\* Every step keeps the types, and a counter with its time to live.
LEMMA LimitTypeStep == TypeOK /\ [LimitNext]_limitVars => TypeOK'
<1> SUFFICES ASSUME TypeOK, [LimitNext]_limitVars PROVE TypeOK'
  OBVIOUS
<1>1. ASSUME NEW b \in Bucket, Check(b) PROVE TypeOK'
  <2>1. granted' \in [Bucket -> [Age -> Nat]]
    BY <1>1, AgeStartsAtZero DEF TypeOK, Check
  <2> QED
    BY <1>1, <2>1, IncrKeepsKeys DEF TypeOK, Check
<1>2. ASSUME NEW b \in Bucket, CheckReplyLost(b) PROVE TypeOK'
  <2>1. open' \in [Bucket -> [Age -> Nat]]
    BY <1>2, AgeStartsAtZero DEF TypeOK, CheckReplyLost
  <2>2. repliesLost' \in 0..MaxLost
    BY <1>2, LimitAssumption DEF TypeOK, CheckReplyLost
  <2> QED
    BY <1>2, <2>1, <2>2, IncrKeepsKeys DEF TypeOK, CheckReplyLost
<1>3. CASE Tick
  <2>1. granted' \in [Bucket -> [Age -> Nat]] /\ open' \in [Bucket -> [Age -> Nat]]
    BY <1>3, OlderIsTyped DEF TypeOK, Tick
  <2> QED
    BY <1>3, <2>1, TickKeepsKeys DEF TypeOK, Tick
<1>4. CASE RedisFails \/ RedisRecovers
  BY <1>4 DEF TypeOK, RedisFails, RedisRecovers
<1>5. CASE UNCHANGED limitVars
  BY <1>5 DEF TypeOK, limitVars
<1> QED
  BY <1>1, <1>2, <1>3, <1>4, <1>5 DEF LimitNext

(* Types, and that no key is without a time to live, which would refuse its  *)
(* client for ever: however checks, lost replies, outages and time           *)
(* interleave.                                                               *)
THEOREM KeysExpire == LimitSpec => []TypeOK
<1>1. LimitInit => TypeOK
  BY LimitAssumption DEF LimitInit, TypeOK, NoneYet
<1> QED
  BY <1>1, LimitTypeStep, PTL DEF LimitSpec

-----------------------------------------------------------------------------
(* Ages up to that of the bucket's key are its own; the others are those of  *)
(* at most one key before it, since a key lives for Window ticks.            *)
KeyAge(b) == IF ttl[b] = 0 THEN -1 ELSE Window - ttl[b]
Young(b) == {a \in Age : a <= KeyAge(b)}
Old(b) == {a \in Age : a > KeyAge(b)}
Passed(b) == IF count[b] < Limit THEN count[b] ELSE Limit

(* What each key let through, and that nothing passed since a key expired    *)
(* that a new one would not have counted.                                    *)
BucketInv(b) ==
  /\ Tally(granted[b], Young(b)) <= Passed(b)
  /\ Tally(granted[b], Old(b)) <= Limit
  /\ Tally(granted[b], Young(b)) + Tally(open[b], Young(b)) >= Passed(b)
  /\ ttl[b] = 0 => granted[b][0] = 0 /\ open[b][0] = 0

WindowInv == \A b \in Bucket : BucketInv(b)

\* What the types say of one bucket.
LEMMA BucketTypes ==
  ASSUME TypeOK, NEW b \in Bucket
  PROVE  /\ count[b] \in 0..Limit + 1 /\ ttl[b] \in 0..Window
         /\ count[b] = 0 <=> ttl[b] = 0
         /\ granted[b] \in [Age -> Nat] /\ open[b] \in [Age -> Nat]
         /\ Limit \in Nat /\ Limit > 0 /\ Window \in Nat /\ Window > 0
         /\ Age \subseteq Nat /\ \A a \in Age : a < Window
         /\ Young(b) \in SUBSET Age /\ Old(b) \in SUBSET Age
         /\ Young(b) \cap Old(b) = {} /\ Young(b) \cup Old(b) = Age
<1>1. /\ count[b] \in 0..Limit + 1 /\ ttl[b] \in 0..Window
      /\ count[b] = 0 <=> ttl[b] = 0
      /\ granted[b] \in [Age -> Nat] /\ open[b] \in [Age -> Nat]
  BY DEF TypeOK
<1>2. Limit \in Nat /\ Limit > 0 /\ Window \in Nat /\ Window > 0
  BY LimitAssumption
<1>3. Age \subseteq Nat /\ \A a \in Age : a < Window
  BY <1>2 DEF Age
<1>4. KeyAge(b) \in Int
  BY <1>1, <1>2 DEF KeyAge
<1>5. \A a \in Age : a <= KeyAge(b) <=> ~(a > KeyAge(b))
  BY <1>3, <1>4
<1> QED
  BY <1>1, <1>2, <1>3, <1>5 DEF Young, Old

(* Nothing of age 0 is nothing now. *)
LEMMA NothingNow ==
  ASSUME NEW ages \in [Age -> Nat], ages[0] = 0
  PROVE  Tally(ages, {0}) = 0
<1>1. Entries(ages, {0}) = {}
  BY EntriesAre
<1> QED
  BY <1>1, FS_EmptySet DEF Entries, Tally

\* There are no checks at no age.
LEMMA NothingNever ==
  ASSUME NEW ages
  PROVE  Tally(ages, {}) = 0
<1>1. Entries(ages, {}) = {}
  BY DEF Entries
<1> QED
  BY <1>1, FS_EmptySet DEF Entries, Tally

\* A bucket that no step touched stays within its window.
LEMMA BucketKept ==
  ASSUME NEW b \in Bucket, BucketInv(b),
         count'[b] = count[b], ttl'[b] = ttl[b],
         granted'[b] = granted[b], open'[b] = open[b]
  PROVE  BucketInv(b)'
BY DEF BucketInv, Young, Old, KeyAge, Passed

(* One more in g or in o, at a bucket whose check was counted. *)
LEMMA BucketHit ==
  ASSUME TypeOK, NEW b \in Bucket, BucketInv(b), Incr(b),
         \/ /\ Allowed(b)
            /\ granted'[b] = Noted(granted[b]) /\ open'[b] = open[b]
         \/ /\ ~Allowed(b) 
            /\ granted'[b] = granted[b] /\ open'[b] = open[b]
         \/ /\ granted'[b] = granted[b]
            /\ open'[b] = Noted(open[b])
  PROVE  BucketInv(b)'
<1> DEFINE g == granted[b]
           o == open[b]
           Y == Young(b)
           O == Old(b)
<1>1. /\ count[b] \in 0..Limit + 1 /\ ttl[b] \in 0..Window
      /\ count[b] = 0 <=> ttl[b] = 0
      /\ g \in [Age -> Nat] /\ o \in [Age -> Nat]
      /\ Limit \in Nat /\ Limit > 0 /\ Window \in Nat /\ Window > 0
      /\ Age \subseteq Nat /\ \A a \in Age : a < Window
      /\ Y \in SUBSET Age /\ O \in SUBSET Age
  BY BucketTypes
<1>2. 0 \in Age
  BY AgeStartsAtZero
<1>3. count'[b] = Incremented(b) /\ ttl'[b] = IF count[b] = 0 THEN Window ELSE ttl[b]
  BY DEF Incr, TypeOK
<1>4. CASE count[b] = 0
  <2> DEFINE R == {a \in Age : a > 0}
  <2>1. KeyAge(b) = -1 /\ KeyAge(b)' = 0
    BY <1>1, <1>3, <1>4 DEF KeyAge
  <2>2. O = Age /\ Young(b)' = {0} /\ Old(b)' = R
    <3>1. \A a \in Age : a > -1 /\ (a <= 0 <=> a = 0)
      BY <1>1
    <3>2. Young(b)' = {a \in Age : a <= 0} /\ Old(b)' = {a \in Age : a > 0}
      BY <2>1 DEF Young, Old
    <3>3. O = {a \in Age : a > -1}
      BY <2>1 DEF Old
    <3> QED
      BY <1>2, <3>1, <3>2, <3>3
  <2>3. count'[b] = 1 /\ Passed(b)' = 1 /\ Allowed(b)
    BY <1>1, <1>3, <1>4 DEF Passed, Incremented, Allowed
  <2>4. g[0] = 0 /\ o[0] = 0 /\ Tally(g, Age) <= Limit
    BY <1>1, <1>4, <2>2 DEF BucketInv
  <2>5. Tally(g, {0}) = 0 /\ Tally(o, {0}) = 0
    BY <1>1, <2>4, NothingNow
  <2>6. Tally(g, R) <= Limit
    <3>1. Tally(g, R) <= Tally(g, Age)
      BY <1>1, TallyMonotone
    <3>2. Tally(g, R) \in Nat /\ Tally(g, Age) \in Nat
      BY <1>1, EntriesFinite
    <3> QED
      BY <1>1, <2>4, <3>1, <3>2
  <2>7. \A ages \in [Age -> Nat] :
          /\ Tally(Noted(ages), {0}) = Tally(ages, {0}) + 1
          /\ Tally(Noted(ages), R) = Tally(ages, R)
    <3>1. {0} \in SUBSET Age /\ R \in SUBSET Age /\ 0 \in {0} /\ 0 \notin R
      BY <1>2
    <3> HIDE DEF R
    <3> TAKE ages \in [Age -> Nat]
    <3> QED
      BY <3>1, TallyOfNoted
  <2>8. ttl'[b] # 0
    BY <1>1, <1>3, <1>4
  <2>9. CASE granted'[b] = Noted(g) /\ open'[b] = o
    <3>1. Tally(granted'[b], {0}) = 1 /\ Tally(granted'[b], R) = Tally(g, R)
      BY <1>1, <2>5, <2>7, <2>9
    <3>2. Tally(open'[b], {0}) = 0
      BY <2>5, <2>9
    <3>3. /\ Tally(granted'[b], Young(b)') <= Passed(b)'
          /\ Tally(granted'[b], Old(b)') <= Limit
          /\ Tally(granted'[b], Young(b)') + Tally(open'[b], Young(b)') >= Passed(b)'
      BY <1>1, <2>2, <2>3, <2>6, <3>1, <3>2
    <3> QED
      BY <2>8, <3>3 DEF BucketInv
  <2>10. CASE granted'[b] = g /\ open'[b] = Noted(o)
    <3>0. Tally(Noted(o), {0}) = Tally(o, {0}) + 1
      BY <1>1, <2>7
    <3>1. Tally(open'[b], {0}) = 1
      BY <2>5, <2>10, <3>0
    <3>2. Tally(granted'[b], {0}) = 0 /\ Tally(granted'[b], R) = Tally(g, R)
      BY <2>5, <2>10
    <3>3. /\ Tally(granted'[b], Young(b)') <= Passed(b)'
          /\ Tally(granted'[b], Old(b)') <= Limit
          /\ Tally(granted'[b], Young(b)') + Tally(open'[b], Young(b)') >= Passed(b)'
      BY <1>1, <2>2, <2>3, <2>6, <3>1, <3>2
    <3> QED
      BY <2>8, <3>3 DEF BucketInv
  <2> QED
    BY <2>3, <2>9, <2>10
<1>5. CASE count[b] # 0
  <2>1. ttl'[b] = ttl[b] /\ ttl[b] # 0
    BY <1>1, <1>3, <1>5
  <2>2. Young(b)' = Y /\ Old(b)' = O
    BY <2>1 DEF Young, Old, KeyAge
  <2>3. 0 \in Y /\ 0 \notin O
    BY <1>1, <1>2, <2>1 DEF Young, Old, KeyAge
  <2>4. /\ Allowed(b) => Passed(b)' = Passed(b) + 1
        /\ ~Allowed(b) => Passed(b)' = Passed(b)
        /\ Passed(b) \in Nat
    BY <1>1, <1>3, <1>5 DEF Passed, Incremented, Allowed
  <2>5. /\ Tally(g, Y) \in Nat /\ Tally(g, O) \in Nat /\ Tally(o, Y) \in Nat
        /\ Tally(g, Y) <= Passed(b) /\ Tally(g, O) <= Limit
        /\ Tally(g, Y) + Tally(o, Y) >= Passed(b)
    BY <1>1, EntriesFinite DEF BucketInv
  <2>6. CASE Allowed(b) /\ granted'[b] = Noted(g) /\ open'[b] = o
    <3>1. /\ Tally(granted'[b], Y) = Tally(g, Y) + 1
          /\ Tally(granted'[b], O) = Tally(g, O)
      BY <1>1, <2>3, <2>6, TallyOfNoted
    <3>2. Tally(open'[b], Y) = Tally(o, Y)
      BY <2>6
    <3> QED
      BY <1>1, <2>1, <2>2, <2>4, <2>5, <2>6, <3>1, <3>2 DEF BucketInv
  <2>7. CASE ~Allowed(b) /\ granted'[b] = g /\ open'[b] = o
    BY <1>1, <2>1, <2>2, <2>4, <2>5, <2>7 DEF BucketInv
  <2>8. CASE granted'[b] = g /\ open'[b] = Noted(o)
    <3>1. Tally(open'[b], Y) = Tally(o, Y) + 1
      BY <1>1, <2>3, <2>8, TallyOfNoted
    <3> QED
      BY <1>1, <2>1, <2>2, <2>4, <2>5, <2>8, <3>1 DEF BucketInv
  <2> QED
    BY <2>6, <2>7, <2>8
<1> QED
  BY <1>4, <1>5

(* A tick at a bucket. *)
LEMMA BucketTick ==
  ASSUME TypeOK, NEW b \in Bucket, BucketInv(b), Tick
  PROVE  BucketInv(b)'
<1> DEFINE g == granted[b]
           o == open[b]
           Y == Young(b)
           O == Old(b)
           Less == {a \in Age : a + 1 \in Age}
<1>1. /\ count[b] \in 0..Limit + 1 /\ ttl[b] \in 0..Window
      /\ count[b] = 0 <=> ttl[b] = 0
      /\ g \in [Age -> Nat] /\ o \in [Age -> Nat]
      /\ Limit \in Nat /\ Limit > 0 /\ Window \in Nat /\ Window > 0
      /\ Age \subseteq Nat /\ \A a \in Age : a < Window
      /\ Y \in SUBSET Age /\ O \in SUBSET Age
  BY BucketTypes
<1>2. 0 \in Age /\ \A a \in Age : a # 0 => a - 1 \in Age
  BY AgeStartsAtZero, <1>1 DEF Age
<1>3. /\ count'[b] = IF ttl[b] = 1 THEN 0 ELSE count[b]
      /\ ttl'[b] = IF ttl[b] > 0 THEN ttl[b] - 1 ELSE 0
      /\ granted'[b] = Older(g) /\ open'[b] = Older(o)
  BY DEF Tick
<1>4. Older(g)[0] = 0 /\ Older(o)[0] = 0
  BY <1>2 DEF Older
<1>5. /\ Tally(g, Y) \in Nat /\ Tally(g, O) \in Nat /\ Tally(o, Y) \in Nat
      /\ Tally(g, Y) <= Passed(b) /\ Tally(g, O) <= Limit
      /\ Tally(g, Y) + Tally(o, Y) >= Passed(b)
  BY <1>1, EntriesFinite DEF BucketInv
<1>6. CASE ttl[b] <= 1
  <2>1. ttl'[b] = 0 /\ count'[b] = 0
    BY <1>1, <1>3, <1>6
  <2>2. Passed(b)' = 0 /\ KeyAge(b)' = -1
    BY <1>1, <2>1 DEF Passed, KeyAge
  <2>3. Young(b)' = {} /\ Old(b)' = Age
    BY <1>1, <2>2 DEF Young, Old
  <2>4. Tally(granted'[b], {}) = 0 /\ Tally(open'[b], {}) = 0
    BY NothingNever
  <2>5. Tally(g, Age) <= Limit
    <3>1. CASE ttl[b] = 0
      <4>1. \A a \in Age : a > -1
        BY <1>1
      <4>2. O = Age
        BY <3>1, <4>1 DEF Old, KeyAge
      <4> QED
        BY <1>5, <4>2
    <3>2. CASE ttl[b] = 1
      <4>1. KeyAge(b) = Window - 1
        BY <3>2 DEF KeyAge
      <4>2. Y = Age
        BY <1>1, <4>1 DEF Young
      <4>3. Passed(b) <= Limit /\ Passed(b) \in Nat
        BY <1>1 DEF Passed
      <4> QED
        BY <1>1, <1>5, <4>2, <4>3
    <3> QED
      BY <1>1, <1>6, <3>1, <3>2
  <2>6. Tally(granted'[b], Age) <= Limit
    <3>1. Tally(Older(g), Age) = Tally(g, Less)
      <4>1. Less \in SUBSET Age /\ Age \in SUBSET Age
        OBVIOUS
      <4>2. \A a \in Age : a \in Age /\ a # 0 <=> a > 0 /\ a - 1 \in Less
        BY <1>1, <1>2
      <4>3. \A a \in Less : a + 1 \in Age
        OBVIOUS
      <4> HIDE DEF Less
      <4> QED
        BY <1>1, <4>1, <4>2, <4>3, TallyOfOlder
    <3>2. Tally(g, Less) <= Tally(g, Age)
      BY <1>1, TallyMonotone
    <3>3. Tally(g, Less) \in Nat /\ Tally(g, Age) \in Nat
      BY <1>1, EntriesFinite
    <3> QED
      BY <1>1, <1>3, <2>5, <3>1, <3>2, <3>3
  <2> QED
    BY <1>1, <1>3, <1>4, <2>2, <2>3, <2>4, <2>6 DEF BucketInv
<1>7. CASE ttl[b] > 1
  <2> DEFINE Z == {a \in O : a + 1 \in Age}
  <2>1. ttl'[b] = ttl[b] - 1 /\ ttl'[b] # 0 /\ count'[b] = count[b] /\ Passed(b)' = Passed(b)
    BY <1>1, <1>3, <1>7 DEF Passed
  <2>2. /\ KeyAge(b) = Window - ttl[b] /\ KeyAge(b)' = KeyAge(b) + 1
        /\ KeyAge(b) \in Int /\ KeyAge(b) >= 0 /\ KeyAge(b) < Window - 1
    BY <1>1, <1>7, <2>1 DEF KeyAge
  <2>3. /\ Young(b)' = {a \in Age : a <= KeyAge(b) + 1}
        /\ Old(b)' = {a \in Age : a > KeyAge(b) + 1}
    BY <2>2 DEF Young, Old
  <2>4. /\ \A a \in Y : a \in Age /\ a <= KeyAge(b)
        /\ \A a \in Age : a <= KeyAge(b) => a \in Y
        /\ \A a \in O : a \in Age /\ a > KeyAge(b)
        /\ \A a \in Age : a > KeyAge(b) => a \in O
    BY DEF Young, Old
  <2>5. \A a \in Y : a + 1 \in Age
    <3>1. \A a \in Nat : a < Window => a \in Age
      BY <1>1 DEF Age
    <3>2. ASSUME NEW a \in Y PROVE a \in Nat /\ a + 1 \in Nat /\ a + 1 < Window
      <4>1. a \in Nat /\ a <= KeyAge(b)
        BY <1>1, <2>4
      <4>2. Window \in Nat
        BY <1>1
      <4> QED
        BY <2>2, <4>1, <4>2
    <3> QED
      BY <3>1, <3>2
  <2>6. \A ages \in [Age -> Nat] : Tally(Older(ages), Young(b)') = Tally(ages, Y)
    <3>1. Young(b)' \in SUBSET Age
      BY <2>3
    <3>2. \A a \in Age : a \in Young(b)' /\ a # 0 <=> a > 0 /\ a - 1 \in Y
      BY <1>1, <1>2, <2>2, <2>3, <2>4
    <3> QED
      BY <1>1, <2>5, <3>1, <3>2, TallyOfOlder
  <2>7. Tally(Older(g), Old(b)') = Tally(g, Z)
    <3>1. Old(b)' \in SUBSET Age /\ Z \in SUBSET Age
      BY <1>1, <2>3
    <3>2. \A a \in Age : a \in Old(b)' /\ a # 0 <=> a > 0 /\ a - 1 \in Z
      BY <1>1, <1>2, <2>2, <2>3, <2>4
    <3>3. \A a \in Z : a + 1 \in Age
      OBVIOUS
    <3> HIDE DEF Z
    <3> QED
      BY <1>1, <3>1, <3>2, <3>3, TallyOfOlder
  <2>8. Tally(g, Z) <= Tally(g, O)
    BY <1>1, TallyMonotone
  <2>9. Tally(g, Z) \in Nat
    BY <1>1, EntriesFinite
  <2>10. /\ Tally(granted'[b], Young(b)') <= Passed(b)'
         /\ Tally(granted'[b], Old(b)') <= Limit
         /\ Tally(granted'[b], Young(b)') + Tally(open'[b], Young(b)') >= Passed(b)'
    <3>1. Tally(Older(g), Young(b)') = Tally(g, Y) /\ Tally(Older(o), Young(b)') = Tally(o, Y)
      BY <1>1, <2>6
    <3>2. Tally(g, Z) <= Limit
      BY <1>1, <1>5, <2>8, <2>9
    <3> HIDE DEF g, o, Y, Z
    <3> QED
      BY <1>3, <1>5, <2>1, <2>7, <3>1, <3>2
  <2> QED
    BY <2>1, <2>10 DEF BucketInv
<1> QED
  BY <1>1, <1>6, <1>7

\* Every step keeps every bucket within its window.
LEMMA WindowStep == TypeOK /\ WindowInv /\ [LimitNext]_limitVars => WindowInv'
<1> SUFFICES ASSUME TypeOK, WindowInv, [LimitNext]_limitVars, NEW c \in Bucket
             PROVE  BucketInv(c)'
  BY DEF WindowInv
<1>0. BucketInv(c)
  BY DEF WindowInv
<1>1. ASSUME NEW b \in Bucket, Check(b) PROVE BucketInv(c)'
  <2>1. CASE b = c
    <3>1. /\ Allowed(b) => granted'[b] = Noted(granted[b])
          /\ ~Allowed(b) => granted'[b] = granted[b]
          /\ open'[b] = open[b] /\ Incr(b)
      BY <1>1 DEF Check, TypeOK, Noted
    <3> QED
      BY <1>0, <2>1, <3>1, BucketHit
  <2>2. CASE b # c
    <3>1. /\ count'[c] = count[c] /\ ttl'[c] = ttl[c]
          /\ granted'[c] = granted[c] /\ open'[c] = open[c]
      BY <1>1, <2>2 DEF Check, Incr, TypeOK
    <3> QED
      BY <1>0, <3>1, BucketKept
  <2> QED
    BY <2>1, <2>2
<1>2. ASSUME NEW b \in Bucket, CheckReplyLost(b) PROVE BucketInv(c)'
  <2>1. CASE b = c
    <3>1. /\ open'[b] = Noted(open[b])
          /\ granted'[b] = granted[b] /\ Incr(b)
      BY <1>2 DEF CheckReplyLost, TypeOK, Noted
    <3> QED
      BY <1>0, <2>1, <3>1, BucketHit
  <2>2. CASE b # c
    <3>1. /\ count'[c] = count[c] /\ ttl'[c] = ttl[c]
          /\ granted'[c] = granted[c] /\ open'[c] = open[c]
      BY <1>2, <2>2 DEF CheckReplyLost, Incr, TypeOK
    <3> QED
      BY <1>0, <3>1, BucketKept
  <2> QED
    BY <2>1, <2>2
<1>3. CASE Tick
  BY <1>0, <1>3, BucketTick
<1>4. CASE RedisFails \/ RedisRecovers \/ UNCHANGED limitVars
  <2>1. /\ count'[c] = count[c] /\ ttl'[c] = ttl[c]
        /\ granted'[c] = granted[c] /\ open'[c] = open[c]
    BY <1>4 DEF RedisFails, RedisRecovers, limitVars
  <2> QED
    BY <1>0, <2>1, BucketKept
<1> QED
  BY <1>1, <1>2, <1>3, <1>4 DEF LimitNext

(* The inductive invariant of the limit. *)
LEMMA WindowInvariant == LimitSpec => [](TypeOK /\ WindowInv)
<1>1. LimitInit => TypeOK
  BY LimitAssumption DEF LimitInit, TypeOK, NoneYet
<1>2. LimitInit => WindowInv
  <2> SUFFICES ASSUME LimitInit, NEW b \in Bucket PROVE BucketInv(b)
    BY DEF WindowInv
  <2>1. TypeOK
    BY <1>1
  <2>2. count[b] = 0 /\ ttl[b] = 0 /\ granted[b] = NoneYet /\ open[b] = NoneYet
    BY DEF LimitInit
  <2>3. Passed(b) = 0 /\ Limit \in Nat
    BY <2>2, LimitAssumption DEF Passed
  <2>4. Young(b) = {}
    BY <2>2 DEF Young, KeyAge, Age
  <2>5. Entries(NoneYet, Old(b)) = {}
    <3>1. \A a \in Old(b) : NoneYet[a] = 0
      BY DEF Old, NoneYet
    <3>2. \A x : x \notin Entries(NoneYet, Old(b))
      BY <3>1, EntriesAre
    <3> QED
      BY <3>2
  <2>6. Tally(NoneYet, Old(b)) = 0
    BY <2>5, FS_EmptySet DEF Entries, Tally
  <2>7. NoneYet[0] = 0
    BY AgeStartsAtZero DEF NoneYet
  <2>8. Tally(NoneYet, {}) = 0
    BY NothingNever
  <2> QED
    BY <2>2, <2>3, <2>4, <2>6, <2>7, <2>8 DEF BucketInv
<1> QED
  BY <1>1, <1>2, LimitTypeStep, WindowStep, PTL DEF LimitSpec

(* What a fixed window promises: at most twice the limit in any span of a    *)
(* window, because the checks of the last Window ticks belong to the current *)
(* key and to one before it, and neither let more than the limit through.    *)
THEOREM BurstBoundedHolds == LimitSpec => []BurstBounded
<1>1. TypeOK /\ WindowInv => BurstBounded
  <2> SUFFICES ASSUME TypeOK, WindowInv, NEW b \in Bucket
               PROVE  Total(granted[b]) <= 2 * Limit
    BY DEF BurstBounded
  <2> DEFINE g == granted[b]
  <2>1. /\ g \in [Age -> Nat] /\ Limit \in Nat /\ count[b] \in 0..Limit + 1
        /\ Young(b) \in SUBSET Age /\ Old(b) \in SUBSET Age
        /\ Young(b) \cap Old(b) = {} /\ Young(b) \cup Old(b) = Age
    BY BucketTypes
  <2>2. Total(g) = Tally(g, Young(b)) + Tally(g, Old(b))
    BY <2>1, TallySplits DEF Total
  <2>3. Tally(g, Young(b)) \in Nat /\ Tally(g, Old(b)) \in Nat
    BY <2>1, EntriesFinite
  <2>4. Passed(b) <= Limit /\ Passed(b) \in Nat
    BY <2>1 DEF Passed
  <2>5. Tally(g, Young(b)) <= Passed(b) /\ Tally(g, Old(b)) <= Limit
    BY DEF WindowInv, BucketInv
  <2> QED
    BY <2>1, <2>2, <2>3, <2>4, <2>5
<1> QED
  BY <1>1, WindowInvariant, PTL

(* Nobody is refused before the limit is spent on requests of their own      *)
(* within the last Window ticks, whatever other buckets, older windows,      *)
(* outages and lost replies did.                                             *)
THEOREM RefusedOnlyWhenSpentHolds == LimitSpec => []RefusedOnlyWhenSpent
<1>1. TypeOK /\ WindowInv => RefusedOnlyWhenSpent
  <2> SUFFICES ASSUME TypeOK, WindowInv, NEW b \in Bucket, ~Allowed(b)
               PROVE  Total(granted[b]) + Total(open[b]) >= Limit
    BY DEF RefusedOnlyWhenSpent
  <2> DEFINE g == granted[b]
             o == open[b]
             Y == Young(b)
  <2>1. /\ g \in [Age -> Nat] /\ o \in [Age -> Nat]
        /\ Limit \in Nat /\ count[b] \in 0..Limit + 1
        /\ Y \in SUBSET Age
    BY BucketTypes
  <2>2. Passed(b) = Limit
    BY <2>1 DEF Passed, Allowed, Incremented
  <2>3. Tally(g, Y) + Tally(o, Y) >= Limit
    BY <2>2 DEF WindowInv, BucketInv
  <2>4. Tally(g, Y) <= Total(g) /\ Tally(o, Y) <= Total(o)
    BY <2>1, TallyMonotone DEF Total
  <2>5. /\ Tally(g, Y) \in Nat /\ Total(g) \in Nat
        /\ Tally(o, Y) \in Nat /\ Total(o) \in Nat
    BY <2>1, EntriesFinite DEF Total
  <2> QED
    BY <2>1, <2>3, <2>4, <2>5
<1> QED
  BY <1>1, WindowInvariant, PTL

-----------------------------------------------------------------------------
(* The access phase. *)

(* The places a request passes in each mode. *)
EnforcePlaces == {"count", "method", "limit", "invoice", "send"}
ShadowPlaces == {"shadow", "shadowCount", "shadowLimited", "shadowChallenge"}

Request ==
  [at : Places, loc : Locations, kind : Kind, price : Int, read : BOOLEAN,
   version : Nat, sat : Int, asked : {"no", "unpriced", "priced"},
   result : Status, short : BOOLEAN]
Quotes == [loc : Locations, sat : Int, version : Nat, read : BOOLEAN]

PhaseTypes ==
  /\ counter \in [Metric -> Int]
  /\ request \in [Worker -> {Idle} \cup Request]
  /\ lastMethod \in [Worker -> {"None", "Lightning", "Cashu"}]
  /\ answered \in [Mode -> [Status -> Int]]
  /\ lost \in [Places -> Int]
  /\ redis \in [up : BOOLEAN, price : Offers, version : Nat \ {0}]
  /\ quote \in {NoQuote} \cup Quotes

(* A request keeps to the places of its location's mode, and a payment that  *)
(* is about to be counted has its method.                                    *)
Placed ==
  \A w \in Worker : request[w] # Idle =>
     /\ request[w].at \in EnforcePlaces => request[w].loc.mode = "enforce"
     /\ request[w].at \in ShadowPlaces => request[w].loc.mode = "dryRun"
     /\ request[w].at = "method" => request[w].result = "declined"
     /\ request[w].at \in {"count", "method"} /\ request[w].result = "declined" =>
          lastMethod[w] # "None"

(* The price of a location as Redis has it now. *)
PriceNow(loc) == IF DynamicPrice > 0 THEN DynamicPrice ELSE loc.price

(* What a request and a quote know is the price as long as nothing has       *)
(* changed since, and the sats quoted are worth it.                          *)
Quoted ==
  /\ quote # NoQuote =>
       /\ quote.version <= redis.version
       /\ quote.read /\ quote.version = redis.version =>
            quote.sat * MsatPerSat >= PriceNow(quote.loc)
  /\ \A w \in Worker : request[w] # Idle =>
       /\ request[w].version <= redis.version
       /\ request[w].read /\ request[w].version = redis.version =>
            request[w].price = PriceNow(request[w].loc)
       /\ request[w].asked = "priced" =>
            /\ ~request[w].short
            /\ request[w].kind = "quoted" =>
                 request[w].sat * MsatPerSat >= request[w].price

PhaseInv == PhaseTypes /\ Placed /\ Quoted

\* An idle worker is at no place of the handler, and no quote is no amount.
LEMMA IdleIsNoRequest ==
  /\ Idle.at = "idle" /\ "idle" \notin Places
  /\ Idle \notin Request /\ NoQuote \notin Quotes
  /\ EnforcePlaces \subseteq Places /\ ShadowPlaces \subseteq Places
<1>1. Idle.at = "idle" /\ "idle" \notin Places
  BY DEF Idle, Places
<1>2. Idle \notin Request
  BY <1>1 DEF Request
<1>3. NoQuote \notin Quotes
  <2> SUFFICES ASSUME NoQuote \in Quotes PROVE FALSE
    OBVIOUS
  <2>1. "read" \in DOMAIN NoQuote
    BY DEF Quotes
  <2> QED
    BY <2>1 DEF NoQuote
<1> QED
  BY <1>1, <1>2, <1>3 DEF EnforcePlaces, ShadowPlaces, Places

(* What a step changes of the rest, besides the request. *)
LEMMA DieMoves ==
  ASSUME NEW w, Die(w)
  PROVE  /\ lost' = [lost EXCEPT ![request[w].at] = @ + 1]
         /\ request' = [request EXCEPT ![w] = Idle]
         /\ lastMethod' = [lastMethod EXCEPT ![w] = "None"]
         /\ UNCHANGED <<counter, answered, clients, forwarded>>
BY DEF Die

(* A challenge quotes what the price is worth in whole sats, and not less. *)
LEMMA QuoteCoversPrice ==
  ASSUME NEW price \in Int
  PROVE  QuotedSat(price) \in Int /\ QuotedSat(price) * MsatPerSat >= price
<1> DEFINE n == price + MsatPerSat - 1
           q == n \div MsatPerSat
<1>1. MsatPerSat \in Nat /\ MsatPerSat > 0 /\ n \in Int
  BY PhaseAssumption
<1> HIDE DEF n
<1>2. q \in Int /\ n < (q + 1) * MsatPerSat
  BY <1>1
<1> HIDE DEF q
<1>3. (q + 1) * MsatPerSat = q * MsatPerSat + MsatPerSat /\ q * MsatPerSat \in Int
  BY <1>1, <1>2
<1>4. q * MsatPerSat >= price
  BY <1>1, <1>2, <1>3 DEF n
<1> QED
  BY <1>2, <1>4 DEF QuotedSat, q, n

(* A worker within a request has one. *)
LEMMA InRequest ==
  ASSUME PhaseTypes, NEW w \in Worker
  PROVE  /\ request[w] \in Request \/ request[w] = Idle
         /\ request[w].at \in Places => request[w] \in Request
         /\ request[w] # Idle => request[w] \in Request
         /\ request[w] \in Request =>
              /\ request[w].at \in Places /\ request[w] # Idle
              /\ request[w].loc \in Location /\ request[w].loc.mode \in Mode
<1>1. request[w] \in Request \/ request[w] = Idle
  BY DEF PhaseTypes
<1>2. request[w] \in Request => request[w].at \in Places /\ request[w].loc \in Locations
  BY DEF Request
<1>3. \A l \in Location : l.mode \in Mode
  BY DEF Location, Mode
<1> QED
  BY <1>1, <1>2, <1>3, IdleIsNoRequest, PhaseAssumption

\* An increment adds one to its counter and leaves the others alone.
LEMMA IncEffect ==
  ASSUME PhaseTypes, NEW m \in Metric, Inc(m)
  PROVE  /\ counter' \in [Metric -> Int]
         /\ \A n \in Metric : counter'[n] = counter[n] + (IF n = m THEN 1 ELSE 0)
BY DEF PhaseTypes, Inc

\* An answer idles its worker and is counted once, by its mode and status.
LEMMA ReturnEffect ==
  ASSUME PhaseTypes, NEW w \in Worker, request[w] \in Request,
         NEW status \in Status, NEW sent, Return(w, status, sent)
  PROVE  /\ request' = [request EXCEPT ![w] = Idle]
         /\ answered' \in [Mode -> [Status -> Int]]
         /\ \A m \in Mode, s \in Status :
              answered'[m][s] = answered[m][s]
                + (IF m = request[w].loc.mode /\ s = status THEN 1 ELSE 0)
<1>1. request[w].loc.mode \in Mode
  BY InRequest
<1>2. answered' = [answered EXCEPT ![request[w].loc.mode][status] = @ + 1]
  BY DEF Return
<1>3. answered \in [Mode -> [Status -> Int]]
  BY DEF PhaseTypes
<1>4. answered' \in [Mode -> [Status -> Int]]
  BY <1>1, <1>2, <1>3
<1>5. \A m \in Mode, s \in Status :
              answered'[m][s] = answered[m][s]
                + (IF m = request[w].loc.mode /\ s = status THEN 1 ELSE 0)
  BY <1>1, <1>2, <1>3
<1> QED
  BY <1>4, <1>5 DEF Return

(* Moving one worker moves one request from a place to another. *)
LEMMA AtMoves ==
  ASSUME PhaseTypes, NEW w \in Worker, NEW r,
         request' = [request EXCEPT ![w] = r]
  PROVE  \A p : /\ At(p) \in Int /\ At(p)' \in Int
               /\ At(p)' = At(p) - (IF request[w].at = p THEN 1 ELSE 0)
                              + (IF r.at = p THEN 1 ELSE 0)
<1> TAKE p
<1> DEFINE A == {v \in Worker : request[v].at = p}
           B == {v \in Worker : request'[v].at = p}
           C == {v \in Worker \ {w} : request[v].at = p}
<1>1. request'[w] = r /\ \A v \in Worker : v # w => request'[v] = request[v]
  BY DEF PhaseTypes
<1>2. w \notin C
  OBVIOUS
<1>3. A = IF request[w].at = p THEN C \cup {w} ELSE C
  OBVIOUS
<1>4. B = IF r.at = p THEN C \cup {w} ELSE C
  BY <1>1
<1>5. IsFiniteSet(C)
  <2>1. C \in SUBSET Worker
    OBVIOUS
  <2> QED
    BY <2>1, PhaseAssumption, FS_Subset
<1>6. At(p) = Cardinality(A) /\ At(p)' = Cardinality(B)
  BY DEF At
<1> HIDE DEF A, B, C
<1>7. Cardinality(C) \in Nat
  BY <1>5, FS_CardinalityType
<1>8. Cardinality(C \cup {w}) = Cardinality(C) + 1
  BY <1>2, <1>5, FS_AddElement
<1> QED
  BY <1>3, <1>4, <1>6, <1>7, <1>8

(* The effect of a step on the books: it counts m, moves w from where it is  *)
(* to `to', and answers `st' in enforce mode; "-" is nothing.                *)
Does(w, m, to, st) ==
  /\ \A n \in Metric : counter'[n] = counter[n] + (IF n = m THEN 1 ELSE 0)
  /\ \A s \in Status : Answered(s)' = Answered(s) + (IF s = st THEN 1 ELSE 0)
  /\ \A p \in Places :
       Reached(p)' = Reached(p) - (IF request[w].at = p THEN 1 ELSE 0)
                                + (IF to = p THEN 1 ELSE 0)

\* A request that moves leaves one place and reaches another; no other place changes.
LEMMA ReachedMoves ==
  ASSUME PhaseTypes, NEW w \in Worker, NEW r,
         request' = [request EXCEPT ![w] = r], lost' = lost
  PROVE  \A p \in Places :
           Reached(p)' = Reached(p) - (IF request[w].at = p THEN 1 ELSE 0)
                                    + (IF r.at = p THEN 1 ELSE 0)
<1> TAKE p \in Places
<1>1. /\ At(p) \in Int /\ At(p)' \in Int
      /\ At(p)' = At(p) - (IF request[w].at = p THEN 1 ELSE 0)
                         + (IF r.at = p THEN 1 ELSE 0)
  BY AtMoves
<1>2. lost[p] \in Int /\ lost'[p] = lost[p]
  BY DEF PhaseTypes
<1>3. Reached(p) = At(p) + lost[p] /\ Reached(p)' = At(p)' + lost'[p]
  BY DEF Reached
<1> HIDE DEF At
<1> QED
  BY <1>1, <1>2, <1>3

\* An increment followed by a move, as one entry in the books.
LEMMA CountsAndGoes ==
  ASSUME PhaseTypes, NEW w \in Worker, request[w] \in Request,
         NEW m \in Metric, Inc(m), NEW place \in Places, GoTo(w, place),
         UNCHANGED <<answered, lost>>
  PROVE  Does(w, m, place, "-")
<1> DEFINE r == [request[w] EXCEPT !.at = place]
<1>1. request' = [request EXCEPT ![w] = r] /\ r.at = place
  BY DEF GoTo, PhaseTypes, Request
<1> HIDE DEF r
<1>2. \A p \in Places :
           Reached(p)' = Reached(p) - (IF request[w].at = p THEN 1 ELSE 0)
                                    + (IF place = p THEN 1 ELSE 0)
  BY <1>1, ReachedMoves
<1>3. \A s \in Status : Answered(s)' = Answered(s) /\ Answered(s) \in Int /\ s # "-"
  BY DEF Answered, PhaseTypes, Status, Mode
<1> QED
  BY <1>2, <1>3, IncEffect DEF Does

\* An increment followed by the answer, as one entry in the books.
LEMMA CountsAndAnswers ==
  ASSUME PhaseTypes, NEW w \in Worker, request[w] \in Request,
         NEW m \in Metric, Inc(m), NEW status \in Status, NEW sent, Return(w, status, sent),
         UNCHANGED lost
  PROVE  Does(w, m, "idle", IF request[w].loc.mode = "enforce" THEN status ELSE "-")
<1>1. request' = [request EXCEPT ![w] = Idle]
  BY ReturnEffect
<1>2. \A p \in Places :
           Reached(p)' = Reached(p) - (IF request[w].at = p THEN 1 ELSE 0)
                                    + (IF "idle" = p THEN 1 ELSE 0)
  BY <1>1, ReachedMoves, IdleIsNoRequest
<1>3. \A s \in Status :
        /\ Answered(s)' = Answered(s)
            + (IF "enforce" = request[w].loc.mode /\ s = status THEN 1 ELSE 0)
        /\ Answered(s) \in Int /\ s # "-"
  BY ReturnEffect DEF Answered, PhaseTypes, Status, Mode
<1> QED
  BY <1>2, <1>3, IncEffect DEF Does

\* An answer that counts nothing, as one entry in the books.
LEMMA JustAnswers ==
  ASSUME PhaseTypes, NEW w \in Worker, request[w] \in Request,
         NEW status \in Status, NEW sent, Return(w, status, sent),
         UNCHANGED <<counter, lost>>
  PROVE  Does(w, "-", "idle", IF request[w].loc.mode = "enforce" THEN status ELSE "-")
<1>1. request' = [request EXCEPT ![w] = Idle]
  BY ReturnEffect
<1>2. \A p \in Places :
           Reached(p)' = Reached(p) - (IF request[w].at = p THEN 1 ELSE 0)
                                    + (IF "idle" = p THEN 1 ELSE 0)
  BY <1>1, ReachedMoves, IdleIsNoRequest
<1>3. \A s \in Status :
        /\ Answered(s)' = Answered(s)
            + (IF "enforce" = request[w].loc.mode /\ s = status THEN 1 ELSE 0)
        /\ Answered(s) \in Int /\ s # "-"
  BY ReturnEffect DEF Answered, PhaseTypes, Status, Mode
<1>4. \A n \in Metric : counter'[n] = counter[n] /\ counter[n] \in Int /\ n # "-"
  BY DEF PhaseTypes, Metric
<1> QED
  BY <1>2, <1>3, <1>4 DEF Does

(* The books: the two properties of the counters. *)
Books == EveryRequestHasOneOutcome /\ CountersMatchAnswers

Same(x, y) == IF x = y THEN 1 ELSE 0

(* What an effect is for each entry of the books. *)
LEMMA DoesToBooks ==
  ASSUME PhaseTypes, NEW w, NEW m, NEW to, NEW st, Does(w, m, to, st)
  PROVE  /\ counter["Requests"] \in Int
         /\ counter'["Requests"] = counter["Requests"] + Same(m, "Requests")
         /\ counter["PaymentsValid"] \in Int
         /\ counter'["PaymentsValid"] = counter["PaymentsValid"] + Same(m, "PaymentsValid")
         /\ counter["PaymentsInvalid"] \in Int
         /\ counter'["PaymentsInvalid"] = counter["PaymentsInvalid"] + Same(m, "PaymentsInvalid")
         /\ counter["PaymentsMissing"] \in Int
         /\ counter'["PaymentsMissing"] = counter["PaymentsMissing"] + Same(m, "PaymentsMissing")
         /\ counter["PaymentsLightning"] \in Int
         /\ counter'["PaymentsLightning"]
               = counter["PaymentsLightning"] + Same(m, "PaymentsLightning")
         /\ counter["PaymentsCashu"] \in Int
         /\ counter'["PaymentsCashu"] = counter["PaymentsCashu"] + Same(m, "PaymentsCashu")
         /\ counter["DryRunRequests"] \in Int
         /\ counter'["DryRunRequests"] = counter["DryRunRequests"] + Same(m, "DryRunRequests")
         /\ counter["RateLimited"] \in Int
         /\ counter'["RateLimited"] = counter["RateLimited"] + Same(m, "RateLimited")
         /\ counter["ChallengesIssued"] \in Int
         /\ counter'["ChallengesIssued"]
               = counter["ChallengesIssued"] + Same(m, "ChallengesIssued")
         /\ counter["InvoicesGenerated"] \in Int
         /\ counter'["InvoicesGenerated"]
               = counter["InvoicesGenerated"] + Same(m, "InvoicesGenerated")
         /\ counter["InvoicesErrors"] \in Int
         /\ counter'["InvoicesErrors"] = counter["InvoicesErrors"] + Same(m, "InvoicesErrors")
         /\ Answered("declined") \in Int
         /\ Answered("declined")' = Answered("declined") + Same(st, "declined")
         /\ Answered("400") \in Int /\ Answered("400")' = Answered("400") + Same(st, "400")
         /\ Answered("401") \in Int /\ Answered("401")' = Answered("401") + Same(st, "401")
         /\ Answered("402") \in Int /\ Answered("402")' = Answered("402") + Same(st, "402")
         /\ Answered("429") \in Int /\ Answered("429")' = Answered("429") + Same(st, "429")
         /\ Answered("500") \in Int /\ Answered("500")' = Answered("500") + Same(st, "500")
         /\ Answered("503") \in Int /\ Answered("503")' = Answered("503") + Same(st, "503")
         /\ Answered("broken") \in Int
         /\ Answered("broken")' = Answered("broken") + Same(st, "broken")
         /\ \A p \in {"handle", "count", "method", "limit", "invoice", "send", "shadow"} :
              /\ Reached(p) \in Int
              /\ Reached(p)' = Reached(p) - Same(request[w].at, p) + Same(to, p)
<1>1. \A n \in Metric : /\ counter[n] \in Int
                         /\ counter'[n] = counter[n] + Same(m, n)
  BY DEF PhaseTypes, Does, Same
<1>2. \A s \in Status : Answered(s) \in Int /\ Answered(s)' = Answered(s) + Same(st, s)
  BY DEF PhaseTypes, Does, Same, Answered, Mode
<1>3. \A p \in Places : /\ Reached(p) \in Int
                         /\ Reached(p)' = Reached(p) - Same(request[w].at, p) + Same(to, p)
  <2> TAKE p \in Places
  <2>1. At(p) \in Int
    <3> DEFINE A == {v \in Worker : request[v].at = p}
    <3>1. A \in SUBSET Worker
      OBVIOUS
    <3>2. IsFiniteSet(A)
      BY <3>1, PhaseAssumption, FS_Subset
    <3> QED
      BY <3>2, FS_CardinalityType DEF At
  <2>2. lost[p] \in Int
    BY DEF PhaseTypes
  <2>3. Reached(p) \in Int
    BY <2>1, <2>2 DEF Reached
  <2> QED
    BY <2>3 DEF Does, Same
<1>4. {"Requests", "PaymentsValid", "PaymentsInvalid", "PaymentsMissing", "PaymentsLightning",
       "PaymentsCashu", "DryRunRequests", "RateLimited", "ChallengesIssued",
       "InvoicesGenerated", "InvoicesErrors"} \subseteq Metric
  BY DEF Metric
<1>5. {"declined", "400", "401", "402", "429", "500", "503", "broken"} \subseteq Status
  BY DEF Status
<1>6. {"handle", "count", "method", "limit", "invoice", "send", "shadow"} \subseteq Places
  BY DEF Places
<1> HIDE DEF Same
<1> QED
  BY <1>1, <1>2, <1>3, <1>4, <1>5, <1>6

(* Double entry: what an effect adds on one side of each equation of the     *)
(* books, it adds on the other.                                              *)
Moved(from, to, p) == Same(to, p) - Same(from, p)

Balanced(from, m, to, st) ==
  /\ Same(m, "Requests") =
       Same(m, "PaymentsValid") + Same(m, "PaymentsInvalid") + Same(m, "PaymentsMissing")
         + Same(st, "503") + (Same(st, "500") - Same(m, "InvoicesErrors"))
         + Same(m, "DryRunRequests") + Moved(from, to, "handle") + Moved(from, to, "count")
         + Moved(from, to, "shadow")
  /\ Same(m, "PaymentsValid") =
       Same(m, "PaymentsLightning") + Same(m, "PaymentsCashu") + Moved(from, to, "method")
  /\ Same(m, "PaymentsMissing") =
       Same(m, "RateLimited") + Same(m, "ChallengesIssued") + Moved(from, to, "limit")
  /\ Same(m, "ChallengesIssued") =
       Same(m, "InvoicesGenerated") + Same(m, "InvoicesErrors") + Moved(from, to, "invoice")
  /\ Same(m, "PaymentsValid") = Same(st, "declined") + Moved(from, to, "method")
  /\ Same(m, "PaymentsInvalid") = Same(st, "400") + Same(st, "401")
  /\ Same(m, "RateLimited") = Same(st, "429")
  /\ Same(m, "InvoicesGenerated") =
       Same(st, "402") + Same(st, "broken") + Moved(from, to, "send")

\* A balanced entry keeps the books.
LEMMA BooksKept ==
  ASSUME PhaseTypes, Books, NEW w, NEW m, NEW to, NEW st,
         Does(w, m, to, st), Balanced(request[w].at, m, to, st)
  PROVE  Books'
<1>2. \A x, y : Same(x, y) \in Int
  BY DEF Same
<1> DEFINE from == request[w].at
<1>3. /\ Reached("handle") \in Int
      /\ Reached("handle")' = Reached("handle") + Moved(from, to, "handle")
      /\ Reached("count") \in Int
      /\ Reached("count")' = Reached("count") + Moved(from, to, "count")
      /\ Reached("shadow") \in Int
      /\ Reached("shadow")' = Reached("shadow") + Moved(from, to, "shadow")
      /\ Reached("method") \in Int
      /\ Reached("method")' = Reached("method") + Moved(from, to, "method")
      /\ Reached("limit") \in Int
      /\ Reached("limit")' = Reached("limit") + Moved(from, to, "limit")
      /\ Reached("invoice") \in Int
      /\ Reached("invoice")' = Reached("invoice") + Moved(from, to, "invoice")
      /\ Reached("send") \in Int
      /\ Reached("send")' = Reached("send") + Moved(from, to, "send")
  BY <1>2, DoesToBooks DEF Moved
<1>4. \A p : Moved(from, to, p) \in Int
  BY <1>2 DEF Moved
<1> HIDE DEF Same, Reached, Answered, Moved, from
<1>5. EveryRequestHasOneOutcome'
  <2>1. /\ counter'["PaymentsValid"] =
              counter'["PaymentsLightning"] + counter'["PaymentsCashu"] + Reached("method")'
        /\ counter'["PaymentsMissing"] =
              counter'["RateLimited"] + counter'["ChallengesIssued"] + Reached("limit")'
        /\ counter'["ChallengesIssued"] =
              counter'["InvoicesGenerated"] + counter'["InvoicesErrors"] + Reached("invoice")'
    BY <1>2, <1>3, <1>4, DoesToBooks DEF Books, EveryRequestHasOneOutcome, Balanced, from
  <2>2. counter'["Requests"] =
          counter'["PaymentsValid"] + counter'["PaymentsInvalid"] + counter'["PaymentsMissing"]
            + Answered("503")' + (Answered("500")' - counter'["InvoicesErrors"])
            + counter'["DryRunRequests"] + Reached("handle")' + Reached("count")'
            + Reached("shadow")'
    <3>1. /\ Moved(from, to, "handle") \in Int /\ Moved(from, to, "count") \in Int
          /\ Moved(from, to, "shadow") \in Int
      BY <1>4
    <3>2. /\ Same(m, "Requests") \in Int /\ Same(m, "PaymentsValid") \in Int
          /\ Same(m, "PaymentsInvalid") \in Int /\ Same(m, "PaymentsMissing") \in Int
          /\ Same(m, "InvoicesErrors") \in Int /\ Same(m, "DryRunRequests") \in Int
          /\ Same(st, "503") \in Int /\ Same(st, "500") \in Int
      BY <1>2
    <3>3. Same(m, "Requests") =
            Same(m, "PaymentsValid") + Same(m, "PaymentsInvalid") + Same(m, "PaymentsMissing")
              + Same(st, "503") + (Same(st, "500") - Same(m, "InvoicesErrors"))
              + Same(m, "DryRunRequests") + Moved(from, to, "handle")
              + Moved(from, to, "count") + Moved(from, to, "shadow")
      BY DEF Balanced, from
    <3>4. counter["Requests"] =
            counter["PaymentsValid"] + counter["PaymentsInvalid"] + counter["PaymentsMissing"]
              + Answered("503") + (Answered("500") - counter["InvoicesErrors"])
              + counter["DryRunRequests"] + Reached("handle") + Reached("count")
              + Reached("shadow")
      BY DEF Books, EveryRequestHasOneOutcome
    <3>5. /\ counter["Requests"] \in Int
          /\ counter'["Requests"] = counter["Requests"] + Same(m, "Requests")
          /\ counter["PaymentsValid"] \in Int
          /\ counter'["PaymentsValid"] = counter["PaymentsValid"] + Same(m, "PaymentsValid")
          /\ counter["PaymentsInvalid"] \in Int
          /\ counter'["PaymentsInvalid"] = counter["PaymentsInvalid"] + Same(m, "PaymentsInvalid")
          /\ counter["PaymentsMissing"] \in Int
          /\ counter'["PaymentsMissing"] = counter["PaymentsMissing"] + Same(m, "PaymentsMissing")
          /\ counter["InvoicesErrors"] \in Int
          /\ counter'["InvoicesErrors"] = counter["InvoicesErrors"] + Same(m, "InvoicesErrors")
          /\ counter["DryRunRequests"] \in Int
          /\ counter'["DryRunRequests"] = counter["DryRunRequests"] + Same(m, "DryRunRequests")
          /\ Answered("500") \in Int /\ Answered("500")' = Answered("500") + Same(st, "500")
          /\ Answered("503") \in Int /\ Answered("503")' = Answered("503") + Same(st, "503")
      BY DoesToBooks
    <3> QED
      BY <1>3, <3>1, <3>2, <3>3, <3>4, <3>5
  <2> QED
    BY <2>1, <2>2 DEF EveryRequestHasOneOutcome
<1>6. CountersMatchAnswers'
  BY <1>2, <1>3, <1>4, DoesToBooks DEF Books, CountersMatchAnswers, Balanced, from
<1> QED
  BY <1>5, <1>6 DEF Books

-----------------------------------------------------------------------------
(* What of a step matters to the invariant: where a request goes. *)

(* A request at its place, seen with the method of its worker. *)
PlacedAs(r, method) ==
  /\ r.at \in EnforcePlaces => r.loc.mode = "enforce"
  /\ r.at \in ShadowPlaces => r.loc.mode = "dryRun"
  /\ r.at = "method" => r.result = "declined"
  /\ r.at \in {"count", "method"} /\ r.result = "declined" => method # "None"

\* A step of one worker keeps Placed if its new request is placed rightly.
LEMMA PlacedMoves ==
  ASSUME PhaseTypes, Placed, NEW w \in Worker, NEW r,
         request' = [request EXCEPT ![w] = r],
         \A v \in Worker : v # w => lastMethod'[v] = lastMethod[v],
         r = Idle \/ PlacedAs(r, lastMethod'[w])
  PROVE  Placed'
<1>1. request'[w] = r /\ \A v \in Worker : v # w => request'[v] = request[v]
  BY DEF PhaseTypes
<1> QED
  BY <1>1 DEF Placed, PlacedAs

(* Two requests that say the same of the price. *)
SamePrice(q, r) ==
  /\ q.loc = r.loc /\ q.price = r.price /\ q.read = r.read /\ q.version = r.version
  /\ q.asked = r.asked /\ q.short = r.short /\ q.kind = r.kind /\ q.sat = r.sat

(* The price as a request knows it. *)
PricedAs(r) ==
  /\ r.version <= redis.version
  /\ r.read /\ r.version = redis.version => r.price = PriceNow(r.loc)
  /\ r.asked = "priced" =>
       /\ ~r.short
       /\ r.kind = "quoted" => r.sat * MsatPerSat >= r.price

QuotedAs(q) ==
  q # NoQuote =>
    /\ q.version <= redis.version
    /\ q.read /\ q.version = redis.version => q.sat * MsatPerSat >= PriceNow(q.loc)

\* Quoted is a statement about the quote and one about each request.
LEMMA QuotedIs ==
  Quoted <=> QuotedAs(quote) /\ \A w \in Worker : request[w] # Idle => PricedAs(request[w])
BY DEF Quoted, QuotedAs, PricedAs

\* A step of one worker keeps Quoted if its new request is priced rightly.
LEMMA QuotedMoves ==
  ASSUME PhaseTypes, Quoted, NEW w \in Worker, NEW r,
         request' = [request EXCEPT ![w] = r], redis' = redis,
         QuotedAs(quote'), r = Idle \/ PricedAs(r)
  PROVE  Quoted'
<1>1. request'[w] = r /\ \A v \in Worker : v # w => request'[v] = request[v]
  BY DEF PhaseTypes
<1>2. QuotedAs(quote)' /\ \A v \in Worker : request'[v] # Idle => PricedAs(request[v])'
  <2>1. DynamicPrice' = DynamicPrice
    BY DEF DynamicPrice
  <2>2. \A l : PriceNow(l)' = PriceNow(l)
    BY <2>1 DEF PriceNow
  <2>3. QuotedAs(quote)'
    BY <2>2 DEF QuotedAs
  <2>4. ASSUME NEW v \in Worker, request'[v] # Idle PROVE PricedAs(request[v])'
    <3>1. PricedAs(request'[v])
      BY <1>1, <2>4, QuotedIs
    <3> QED
      BY <2>2, <3>1 DEF PricedAs
  <2> QED
    BY <2>3, <2>4
<1> QED
  BY <1>2 DEF Quoted, QuotedAs, PricedAs

\* A worker's new request keeps the type of all requests.
LEMMA RequestTyped ==
  ASSUME PhaseTypes, NEW w \in Worker, NEW r, r \in Request \/ r = Idle,
         request' = [request EXCEPT ![w] = r]
  PROVE  request' \in [Worker -> {Idle} \cup Request]
BY DEF PhaseTypes

\* Moving on changes where a request is and nothing it carries.
LEMMA GoToIs ==
  ASSUME PhaseTypes, NEW w \in Worker, request[w] \in Request,
         NEW place \in Places, GoTo(w, place)
  PROVE  \E r \in Request : /\ request' = [request EXCEPT ![w] = r]
                            /\ r.at = place /\ SamePrice(r, request[w])
                            /\ r.result = request[w].result
<1> DEFINE r == [request[w] EXCEPT !.at = place]
<1>1. request' = [request EXCEPT ![w] = r]
  BY DEF GoTo, PhaseTypes
<1>2. r \in Request /\ r.at = place /\ r.result = request[w].result
  BY DEF Request
<1>3. SamePrice(r, request[w])
  BY DEF SamePrice, Request
<1> QED
  BY <1>1, <1>2, <1>3

AllPhase == PhaseInv /\ Books /\ ForwardedByRight

(* A step that counts one and moves its request on. *)
LEMMA Advances ==
  ASSUME AllPhase, NEW w \in Worker, NEW m \in Metric, NEW place \in Places,
         request[w].at \in Places, Inc(m), GoTo(w, place),
         UNCHANGED <<lastMethod, answered, lost, clients, forwarded>>,
         Balanced(request[w].at, m, place, "-"),
         place \in EnforcePlaces => request[w].loc.mode = "enforce",
         place \in ShadowPlaces => request[w].loc.mode = "dryRun",
         place = "method" => request[w].result = "declined",
         place \in {"count", "method"} /\ request[w].result = "declined" =>
           lastMethod[w] # "None"
  PROVE  AllPhase'
<1>1. PhaseTypes /\ Placed /\ Quoted /\ Books /\ ForwardedByRight
  BY DEF AllPhase, PhaseInv
<1>2. request[w] \in Request /\ request[w] # Idle
  BY <1>1, InRequest
<1>3. PICK r \in Request : /\ request' = [request EXCEPT ![w] = r]
                           /\ r.at = place /\ SamePrice(r, request[w])
                           /\ r.result = request[w].result
  BY <1>1, <1>2, GoToIs
<1>4. Placed'
  <2>1. PlacedAs(r, lastMethod'[w])
    BY <1>3 DEF PlacedAs, SamePrice
  <2> QED
    BY <1>1, <1>3, <2>1, PlacedMoves
<1>5. Quoted'
  <2>1. PricedAs(request[w]) /\ QuotedAs(quote)
    BY <1>1, <1>2, QuotedIs
  <2>2. PricedAs(r)
    BY <1>3, <2>1 DEF PricedAs, SamePrice
  <2>3. quote' = quote /\ redis' = redis
    BY DEF clients
  <2> QED
    BY <1>1, <1>3, <2>1, <2>2, <2>3, QuotedMoves
<1>6. PhaseTypes'
  <2>1. counter' \in [Metric -> Int]
    BY <1>1, IncEffect
  <2>2. request' \in [Worker -> {Idle} \cup Request]
    BY <1>1, <1>3, RequestTyped
  <2> QED
    BY <1>1, <2>1, <2>2 DEF PhaseTypes, clients
<1>7. Books'
  <2>1. Does(w, m, place, "-")
    BY <1>1, <1>2, CountsAndGoes
  <2> QED
    BY <1>1, <2>1, BooksKept
<1>8. ForwardedByRight'
  BY <1>1 DEF ForwardedByRight
<1> QED
  BY <1>4, <1>5, <1>6, <1>7, <1>8 DEF AllPhase, PhaseInv

(* A step that answers its request. *)
LEMMA Answers ==
  ASSUME AllPhase, NEW w \in Worker, NEW m, NEW status \in Status, NEW sent \in BOOLEAN,
         request[w].at \in Places,
         \/ m \in Metric /\ Inc(m)
         \/ m = "-" /\ UNCHANGED counter,
         Return(w, status, sent),
         lastMethod' = lastMethod \/ lastMethod' = [lastMethod EXCEPT ![w] = "None"],
         UNCHANGED <<lost, arrivals, redis>>, quote' = quote \/ Quote(w),
         Balanced(request[w].at, m, "idle",
                  IF request[w].loc.mode = "enforce" THEN status ELSE "-"),
         status = "declined" =>
           ~sent /\ (request[w].loc.mode = "dryRun" \/ request[w].result = "declined"),
         request[w].loc.mode = "dryRun" => status = "declined"
  PROVE  AllPhase'
<1>1. PhaseTypes /\ Placed /\ Quoted /\ Books /\ ForwardedByRight
  BY DEF AllPhase, PhaseInv
<1>2. request[w] \in Request /\ request[w] # Idle /\ request[w].loc.mode \in Mode
  BY <1>1, InRequest
<1>3. /\ request' = [request EXCEPT ![w] = Idle]
      /\ answered' \in [Mode -> [Status -> Int]]
      /\ \A k \in Mode, s \in Status :
            answered'[k][s] = answered[k][s]
              + (IF k = request[w].loc.mode /\ s = status THEN 1 ELSE 0)
  BY <1>1, <1>2, ReturnEffect
<1>4. /\ lastMethod' \in [Worker -> {"None", "Lightning", "Cashu"}]
      /\ \A v \in Worker : v # w => lastMethod'[v] = lastMethod[v]
  BY <1>1 DEF PhaseTypes
<1>5. Placed'
  BY <1>1, <1>3, <1>4, PlacedMoves
<1>6. QuotedAs(quote') /\ quote' \in {NoQuote} \cup Quotes
  <2>1. CASE quote' = quote
    BY <1>1, <2>1, QuotedIs DEF PhaseTypes
  <2>2. CASE Quote(w)
    <3> DEFINE r == request[w]
    <3>1. /\ quote'.loc = r.loc /\ quote'.sat = QuotedSat(r.price)
          /\ quote'.version = r.version /\ quote'.read = r.read
      BY <2>2 DEF Quote
    <3>2. r.price \in Int /\ r.loc \in Locations /\ r.version \in Nat /\ r.read \in BOOLEAN
      BY <1>2 DEF Request
    <3>3. QuotedSat(r.price) \in Int /\ QuotedSat(r.price) * MsatPerSat >= r.price
      BY <3>2, QuoteCoversPrice
    <3>4. PricedAs(r)
      BY <1>1, <1>2, QuotedIs
    <3>5. quote' \in Quotes
      BY <2>2, <3>2, <3>3 DEF Quote, Quotes
    <3> QED
      BY <3>1, <3>3, <3>4, <3>5 DEF QuotedAs, PricedAs
  <2> QED
    BY <2>1, <2>2
<1>7. Quoted'
  BY <1>1, <1>3, <1>6, QuotedMoves
<1>8. PhaseTypes'
  <2>1. counter' \in [Metric -> Int]
    BY <1>1, IncEffect DEF PhaseTypes
  <2>2. request' \in [Worker -> {Idle} \cup Request]
    BY <1>1, <1>3, RequestTyped
  <2> QED
    BY <1>1, <1>3, <1>4, <1>6, <2>1, <2>2 DEF PhaseTypes
<1>9. Books'
  <2>1. Does(w, m, "idle", IF request[w].loc.mode = "enforce" THEN status ELSE "-")
    BY <1>1, <1>2, CountsAndAnswers, JustAnswers
  <2> QED
    BY <1>1, <2>1, BooksKept
<1>10. ForwardedByRight'
  <2>1. forwarded' = IF status = "declined"
                     THEN forwarded \cup {<<Why(w), sent>>} ELSE forwarded
    BY DEF Return
  <2>2. status = "declined" => Why(w) # "unpaid" /\ ~sent
    BY DEF Why
  <2>3. \A why \in {"paid", "shadow", "unpaid"}, z \in BOOLEAN :
          <<why, z>> \in forwarded' => why # "unpaid" /\ ~z
    BY <1>1, <2>1, <2>2 DEF ForwardedByRight
  <2>4. ASSUME NEW s \in Status \ {"declined"} PROVE answered'["dryRun"][s] = 0
    <3>1. answered["dryRun"][s] = 0
      BY <1>1 DEF ForwardedByRight
    <3> QED
      BY <1>2, <1>3, <3>1 DEF Mode
  <2> QED
    BY <2>3, <2>4 DEF ForwardedByRight
<1> QED
  BY <1>5, <1>7, <1>8, <1>9, <1>10 DEF AllPhase, PhaseInv

(* A step that counts nothing and answers nothing keeps the books when it    *)
(* moves its request between places that one equation adds up.               *)
LEMMA MovesOnly ==
  ASSUME PhaseTypes, Books, ForwardedByRight, NEW w \in Worker, NEW r,
         request' = [request EXCEPT ![w] = r],
         UNCHANGED <<counter, answered, lost, forwarded>>,
         Balanced(request[w].at, "-", r.at, "-")
  PROVE  Books' /\ ForwardedByRight'
<1>1. \A p \in Places :
           Reached(p)' = Reached(p) - (IF request[w].at = p THEN 1 ELSE 0)
                                    + (IF r.at = p THEN 1 ELSE 0)
  BY ReachedMoves
<1>2. \A s \in Status : Answered(s)' = Answered(s) /\ Answered(s) \in Int /\ s # "-"
  BY DEF Answered, PhaseTypes, Status, Mode
<1>3. \A n \in Metric : counter'[n] = counter[n] /\ counter[n] \in Int /\ n # "-"
  BY DEF PhaseTypes, Metric
<1>4. Does(w, "-", r.at, "-")
  BY <1>1, <1>2, <1>3 DEF Does
<1>5. ForwardedByRight'
  BY DEF ForwardedByRight
<1> QED
  BY <1>4, <1>5, BooksKept

\* A request that arrives keeps the invariant.
LEMMA ArriveStep == ASSUME AllPhase, NEW w \in Worker, Arrive(w) PROVE AllPhase'
<1>1. PhaseTypes /\ Placed /\ Quoted /\ Books /\ ForwardedByRight
  BY DEF AllPhase, PhaseInv
<1>2. PICK loc \in Locations, http \in Http, kind \in Kind :
        /\ kind = "quoted" => quote # NoQuote /\ quote.loc = loc
        /\ request' = [request EXCEPT ![w] =
             [at |-> "arrived", loc |-> loc, kind |-> kind,
              price |-> Price(loc, kind),
              read |-> NeedsDynamicConfig(kind), version |-> redis.version,
              sat |-> IF kind = "quoted" THEN quote.sat ELSE 0,
              asked |-> Asked(kind),
              result |-> "402", short |-> FALSE]]
  BY DEF Arrive
<1>3. PICK r :
        r = [at |-> "arrived", loc |-> loc, kind |-> kind,
             price |-> Price(loc, kind),
             read |-> NeedsDynamicConfig(kind), version |-> redis.version,
             sat |-> IF kind = "quoted" THEN quote.sat ELSE 0,
             asked |-> Asked(kind),
             result |-> "402", short |-> FALSE]
  OBVIOUS
<1>4. /\ r.at = "arrived" /\ r.loc = loc /\ r.kind = kind /\ r.price = Price(loc, kind)
      /\ r.read = NeedsDynamicConfig(kind) /\ r.version = redis.version
      /\ r.sat = (IF kind = "quoted" THEN quote.sat ELSE 0)
      /\ r.asked = Asked(kind) /\ r.result = "402" /\ r.short = FALSE
  BY <1>3
<1>5. /\ redis.version \in Nat /\ redis.version # 0 /\ redis.price \in Int
      /\ redis.up \in BOOLEAN /\ loc.price \in Int
  <2>1. redis.version \in Nat \ {0} /\ redis.price \in Offers /\ redis.up \in BOOLEAN
    BY <1>1 DEF PhaseTypes
  <2>2. loc \in Location
    BY PhaseAssumption
  <2> QED
    BY <2>1, <2>2, PhaseAssumption DEF Location
<1>6. kind = "quoted" => quote \in Quotes /\ quote.sat \in Int /\ quote.loc = loc
  BY <1>1, <1>2 DEF PhaseTypes, Quotes
<1>7. r \in Request
  <2>1. DynamicPrice \in Int
    BY <1>5 DEF DynamicPrice
  <2>2. Price(loc, kind) \in Int
    BY <1>5, <2>1 DEF Price
  <2>3. Asked(kind) \in {"no", "unpriced", "priced"}
    BY DEF Asked
  <2>4. NeedsDynamicConfig(kind) \in BOOLEAN
    BY DEF NeedsDynamicConfig
  <2>5. (IF kind = "quoted" THEN quote.sat ELSE 0) \in Int
    BY <1>6
  <2>6. "arrived" \in Places /\ "402" \in Status
    BY DEF Places, Status
  <2> HIDE DEF NeedsDynamicConfig, Price, Asked
  <2> QED
    BY <1>3, <1>5, <2>2, <2>3, <2>4, <2>5, <2>6 DEF Request
<1>8. request' = [request EXCEPT ![w] = r]
  BY <1>2, <1>3
<1>9. UNCHANGED <<counter, lastMethod, answered, lost, redis, quote, forwarded>>
  BY DEF Arrive
<1>10. Placed'
  <2>1. PlacedAs(r, lastMethod'[w])
    BY <1>4 DEF PlacedAs, EnforcePlaces, ShadowPlaces
  <2> QED
    BY <1>1, <1>8, <1>9, <2>1, PlacedMoves
<1>11. Quoted'
  <2>1. QuotedAs(quote)
    BY <1>1, QuotedIs
  <2>2. r.read => r.price = PriceNow(loc)
    BY <1>4 DEF Price, PriceNow
  <2>3. r.asked = "priced" =>
          /\ kind = "quoted" /\ quote.version = redis.version /\ quote.read
          /\ r.read
    BY <1>4 DEF Asked, NeedsDynamicConfig
  <2>4. r.asked = "priced" => r.sat * MsatPerSat >= r.price
    BY <1>2, <1>4, <2>1, <2>2, <2>3 DEF QuotedAs
  <2>5. PricedAs(r)
    BY <1>4, <1>5, <2>2, <2>4 DEF PricedAs
  <2> QED
    BY <1>1, <1>8, <1>9, <2>1, <2>5, QuotedMoves
<1>12. PhaseTypes'
  BY <1>1, <1>7, <1>8, <1>9, RequestTyped DEF PhaseTypes
<1>13. Books' /\ ForwardedByRight'
  <2>1. Balanced(request[w].at, "-", r.at, "-")
    <3>1. request[w].at = "idle"
      BY IdleIsNoRequest DEF Arrive
    <3> QED
      BY <1>4, <3>1 DEF Balanced, Same, Moved
  <2> QED
    BY <1>1, <1>8, <1>9, <2>1, MovesOnly
<1> QED
  BY <1>10, <1>11, <1>12, <1>13 DEF AllPhase, PhaseInv

\* The handler's first step, with pricing and the gates, keeps the invariant.
LEMMA HandleStep == ASSUME AllPhase, NEW w \in Worker, Handle(w) PROVE AllPhase'
<1>1. PhaseTypes /\ Placed /\ Quoted /\ Books /\ ForwardedByRight
  BY DEF AllPhase, PhaseInv
<1>2. PICK v \in Verdict(w) : Dispatch(w, v)
  BY DEF Handle
<1>3. request[w].at = "handle"
  BY DEF Handle
<1>4. request[w] \in Request /\ request[w] # Idle /\ request[w].loc.mode \in Mode
  BY <1>1, <1>3, InRequest DEF Places
<1>5. /\ v.result \in Status /\ v.method \in {"None", "Lightning", "Cashu"}
      /\ v.result = "declined" => v.method # "None"
  <2>1. \A statuses : \A u \in Refused(statuses) : u.result \in statuses /\ u.method = "None"
    BY DEF Refused
  <2>2. \A u \in Verified :
          u.result \in {"declined", "401", "503"} /\ u.method = "Lightning"
    BY DEF Verified
  <2>3. Accepted.result = "declined" /\ Accepted.method = "Cashu"
    BY DEF Accepted
  <2>4. \/ v \in Refused({"402"}) \/ v \in Refused({"401"})
        \/ v \in Refused({"401", "402", "500"}) \/ v \in Refused({"400", "401", "500"})
        \/ v \in Verified \/ v = Accepted
    BY <1>2 DEF Verdict
  <2> HIDE DEF Refused, Verified, Accepted
  <2> QED
    BY <2>1, <2>2, <2>3, <2>4 DEF Status
<1>6. PICK r : r = [request[w] EXCEPT
       !.result = v.result,
       !.short = Short(w), !.kind = "none", !.sat = 0,
       !.at = IF request[w].loc.mode = "dryRun" THEN "shadow" ELSE "count"]
  OBVIOUS
<1>7. request' = [request EXCEPT ![w] = r]
  BY <1>1, <1>2, <1>6 DEF Dispatch, PhaseTypes
<1>8. Short(w) \in BOOLEAN
  BY DEF Short
<1>9. /\ r.result = v.result /\ r.short = Short(w) /\ r.kind = "none" /\ r.sat = 0
      /\ r.at = IF request[w].loc.mode = "dryRun" THEN "shadow" ELSE "count"
      /\ r.loc = request[w].loc /\ r.price = request[w].price /\ r.read = request[w].read
      /\ r.version = request[w].version /\ r.asked = request[w].asked
  BY <1>4, <1>6 DEF Request
<1>10. r \in Request
  <2>1. "none" \in Kind /\ "shadow" \in Places /\ "count" \in Places
    BY DEF Kind, Places
  <2>2. (IF request[w].loc.mode = "dryRun" THEN "shadow" ELSE "count") \in Places
    BY <2>1
  <2>3. r = [at |-> r.at, loc |-> r.loc, kind |-> r.kind, price |-> r.price,
             read |-> r.read, version |-> r.version, sat |-> r.sat, asked |-> r.asked,
             result |-> r.result, short |-> r.short]
    BY <1>4, <1>6 DEF Request
  <2>4. /\ request[w].loc \in Locations /\ request[w].price \in Int
        /\ request[w].read \in BOOLEAN /\ request[w].version \in Nat
        /\ request[w].asked \in {"no", "unpriced", "priced"}
    BY <1>4 DEF Request
  <2>5. /\ r.at \in Places /\ r.loc \in Locations /\ r.kind \in Kind /\ r.price \in Int
        /\ r.read \in BOOLEAN /\ r.version \in Nat /\ r.sat \in Int
        /\ r.asked \in {"no", "unpriced", "priced"}
        /\ r.result \in Status /\ r.short \in BOOLEAN
    BY <1>5, <1>8, <1>9, <2>1, <2>2, <2>4
  <2> QED
    BY <2>3, <2>5 DEF Request
<1>11. /\ lastMethod' \in [Worker -> {"None", "Lightning", "Cashu"}]
       /\ lastMethod'[w] = v.method
       /\ \A u \in Worker : u # w => lastMethod'[u] = lastMethod[u]
  BY <1>1, <1>2, <1>5 DEF Dispatch, PhaseTypes
<1>12. UNCHANGED <<counter, answered, lost, clients, forwarded>>
  BY <1>2 DEF Dispatch
<1>13. Placed'
  <2>1. PlacedAs(r, lastMethod'[w])
    BY <1>4, <1>5, <1>9, <1>11 DEF PlacedAs, EnforcePlaces, ShadowPlaces, Mode
  <2> QED
    BY <1>1, <1>7, <1>11, <2>1, PlacedMoves
<1>14. Quoted'
  <2>1. QuotedAs(quote) /\ PricedAs(request[w])
    BY <1>1, <1>4, QuotedIs
  <2>2. request[w].asked = "priced" => ~Short(w)
    <3>1. /\ request[w].sat * MsatPerSat \in Int /\ request[w].price \in Int
      BY <1>4, PhaseAssumption DEF Request
    <3> QED
      BY <2>1, <3>1 DEF PricedAs, Short
  <2>3. PricedAs(r)
    BY <1>9, <2>1, <2>2 DEF PricedAs
  <2> QED
    BY <1>1, <1>7, <1>12, <2>1, <2>3, QuotedMoves DEF clients
<1>15. PhaseTypes'
  BY <1>1, <1>7, <1>10, <1>11, <1>12, RequestTyped DEF PhaseTypes, clients
<1>16. Books' /\ ForwardedByRight'
  <2>1. Balanced(request[w].at, "-", r.at, "-")
    BY <1>3, <1>9 DEF Balanced, Same, Moved
  <2> QED
    BY <1>1, <1>7, <1>12, <2>1, MovesOnly
<1> QED
  BY <1>13, <1>14, <1>15, <1>16 DEF AllPhase, PhaseInv

(* A worker that dies takes its request to the lost ones of its place.       *)
LEMMA DieStep ==
  ASSUME AllPhase, NEW w \in Worker, request[w] # Idle, Die(w) PROVE AllPhase'
<1>1. PhaseTypes /\ Placed /\ Quoted /\ Books /\ ForwardedByRight
  BY DEF AllPhase, PhaseInv
<1>2. /\ lost' = [lost EXCEPT ![request[w].at] = @ + 1]
      /\ request' = [request EXCEPT ![w] = Idle]
      /\ lastMethod' = [lastMethod EXCEPT ![w] = "None"]
      /\ UNCHANGED <<counter, answered, clients, forwarded>>
  BY DieMoves
<1>3. request[w].at \in Places
  BY <1>1, InRequest
<1>4. Placed'
  BY <1>1, <1>2, PlacedMoves DEF PhaseTypes
<1>5. Quoted'
  <2>1. QuotedAs(quote')
    BY <1>1, <1>2, QuotedIs DEF clients
  <2> QED
    BY <1>1, <1>2, <2>1, QuotedMoves DEF clients
<1>6. PhaseTypes'
  <2>1. lost' \in [Places -> Int]
    BY <1>1, <1>2, <1>3 DEF PhaseTypes
  <2> QED
    BY <1>1, <1>2, <2>1, RequestTyped DEF PhaseTypes, clients
<1>7. \A p \in Places : Reached(p)' = Reached(p)
  <2> TAKE p \in Places
  <2>1. /\ At(p) \in Int /\ At(p)' \in Int
        /\ At(p)' = At(p) - (IF request[w].at = p THEN 1 ELSE 0)
                           + (IF Idle.at = p THEN 1 ELSE 0)
    BY <1>1, <1>2, AtMoves
  <2>2. /\ lost[p] \in Int
        /\ lost'[p] = lost[p] + (IF request[w].at = p THEN 1 ELSE 0)
    BY <1>1, <1>2, <1>3 DEF PhaseTypes
  <2>3. Idle.at # p
    BY IdleIsNoRequest
  <2>4. Reached(p) = At(p) + lost[p] /\ Reached(p)' = At(p)' + lost'[p]
    BY DEF Reached
  <2> HIDE DEF At
  <2> QED
    BY <2>1, <2>2, <2>3, <2>4
<1>8. Books'
  <2>1. /\ Reached("handle")' = Reached("handle") /\ Reached("count")' = Reached("count")
        /\ Reached("shadow")' = Reached("shadow") /\ Reached("method")' = Reached("method")
        /\ Reached("limit")' = Reached("limit") /\ Reached("invoice")' = Reached("invoice")
        /\ Reached("send")' = Reached("send")
    BY <1>7 DEF Places
  <2>2. \A s : Answered(s)' = Answered(s)
    BY <1>2 DEF Answered
  <2> HIDE DEF Reached, Answered
  <2> QED
    BY <1>1, <1>2, <2>1, <2>2
    DEF Books, EveryRequestHasOneOutcome, CountersMatchAnswers
<1>9. ForwardedByRight'
  BY <1>1, <1>2 DEF ForwardedByRight
<1> QED
  BY <1>4, <1>5, <1>6, <1>8, <1>9 DEF AllPhase, PhaseInv

\* A price that changes, or an outage of Redis, keeps the invariant.
LEMMA ChangeStep == ASSUME AllPhase, ChangeRedis PROVE AllPhase'
<1>1. PhaseTypes /\ Placed /\ Quoted /\ Books /\ ForwardedByRight
  BY DEF AllPhase, PhaseInv
<1>2. UNCHANGED <<counter, request, lastMethod, answered, lost, arrivals, quote, forwarded>>
  BY DEF ChangeRedis
<1>3. /\ redis' \in [up : BOOLEAN, price : Offers, version : Nat \ {0}]
      /\ redis'.version = redis.version + 1 /\ redis.version \in Nat
  <2>1. PICK up \in BOOLEAN, price \in Offers :
          redis' = [up |-> up, price |-> price, version |-> redis.version + 1]
    BY DEF ChangeRedis
  <2>2. redis.version \in Nat \ {0}
    BY <1>1 DEF PhaseTypes
  <2>3. redis.version + 1 \in Nat \ {0} /\ redis.version \in Nat
    BY <2>2
  <2> QED
    BY <2>1, <2>3
<1>4. Placed'
  BY <1>1, <1>2 DEF Placed
<1>5. Quoted'
  <2>1. quote # NoQuote => quote.version \in Nat
    BY <1>1 DEF PhaseTypes, Quotes
  <2>2. \A w \in Worker : request[w] # Idle => request[w].version \in Nat
    BY <1>1, InRequest DEF Request
  <2> QED
    BY <1>1, <1>2, <1>3, <2>1, <2>2 DEF Quoted
<1>6. PhaseTypes'
  BY <1>1, <1>2, <1>3 DEF PhaseTypes
<1>7. Books' /\ ForwardedByRight'
  BY <1>1, <1>2 DEF Books, EveryRequestHasOneOutcome, CountersMatchAnswers,
                    ForwardedByRight, Reached, At, Answered
<1> QED
  BY <1>4, <1>5, <1>6, <1>7 DEF AllPhase, PhaseInv

\* So does a stutter.
LEMMA NothingChanges == ASSUME AllPhase, UNCHANGED vars PROVE AllPhase'
<1>1. UNCHANGED <<counter, request, lastMethod, answered, lost, arrivals, redis, quote, forwarded>>
  BY DEF vars, clients
<1>2. PhaseTypes'
  BY <1>1 DEF AllPhase, PhaseInv, PhaseTypes
<1>3. Placed'
  BY <1>1 DEF AllPhase, PhaseInv, Placed
<1>4. Quoted'
  <2>1. \A l : PriceNow(l)' = PriceNow(l)
    BY <1>1 DEF PriceNow, DynamicPrice
  <2> HIDE DEF PriceNow
  <2> QED
    BY <1>1, <2>1 DEF AllPhase, PhaseInv, Quoted
<1>5. Books'
  <2>1. /\ \A p : Reached(p)' = Reached(p)
        /\ \A s : Answered(s)' = Answered(s)
    BY <1>1 DEF Reached, At, Answered
  <2> HIDE DEF Reached, Answered
  <2> QED
    BY <1>1, <2>1 DEF AllPhase, Books, EveryRequestHasOneOutcome, CountersMatchAnswers
<1>6. ForwardedByRight'
  BY <1>1 DEF AllPhase, ForwardedByRight
<1> QED
  BY <1>2, <1>3, <1>4, <1>5, <1>6 DEF AllPhase, PhaseInv

(* The actions, one by one. *)
LEMMA FrontStep == ASSUME AllPhase, NEW w \in Worker, Front(w) PROVE AllPhase'
<1>1. CASE Arrive(w)
  BY <1>1, ArriveStep
<1>2. CASE Handle(w)
  BY <1>2, HandleStep
<1>3. CASE CountRequest(w)
  <2>1. Balanced("arrived", "Requests", "handle", "-")
    BY DEF Balanced, Same, Moved
  <2>2. "arrived" \in Places /\ "handle" \in Places /\ "Requests" \in Metric
    BY DEF Places, Metric
  <2>3. "handle" \notin EnforcePlaces \cup ShadowPlaces
    BY DEF EnforcePlaces, ShadowPlaces
  <2> QED
    BY <1>3, <2>1, <2>2, <2>3, Advances DEF CountRequest
<1>4. CASE PassFree(w) \/ RefuseMisconfigured(w)
  BY <1>4, NothingChanges DEF PassFree, RefuseMisconfigured
<1> QED
  BY <1>1, <1>2, <1>3, <1>4 DEF Front

(* What the invariant says of a request at a place. *)
LEMMA AtPlace ==
  ASSUME AllPhase, NEW w \in Worker, request[w].at \in Places
  PROVE  /\ request[w].at \in EnforcePlaces => request[w].loc.mode = "enforce"
         /\ request[w].at \in ShadowPlaces => request[w].loc.mode = "dryRun"
         /\ request[w].at = "method" => request[w].result = "declined"
         /\ request[w].at \in {"count", "method"} /\ request[w].result = "declined" =>
              lastMethod[w] \in {"Lightning", "Cashu"}
         /\ request[w] \in Request /\ request[w].result \in Status
<1>1. PhaseTypes /\ Placed
  BY DEF AllPhase, PhaseInv
<1>2. request[w] \in Request /\ request[w] # Idle
  BY <1>1, InRequest
<1> QED
  BY <1>1, <1>2 DEF Placed, PhaseTypes, Request

\* The steps of an enforced request keep the invariant.
LEMMA EnforceSteps == ASSUME AllPhase, NEW w \in Worker, EnforceStep(w) PROVE AllPhase'
<1>0. /\ "count" \in Places /\ "method" \in Places /\ "limit" \in Places
      /\ "invoice" \in Places /\ "send" \in Places
      /\ {"PaymentsValid", "PaymentsInvalid", "PaymentsMissing", "PaymentsLightning",
          "PaymentsCashu", "RateLimited", "ChallengesIssued", "InvoicesGenerated",
          "InvoicesErrors"} \subseteq Metric
      /\ {"declined", "400", "401", "402", "429", "500", "503", "broken"} \subseteq Status
      /\ EnforcePlaces \cap ShadowPlaces = {}
      /\ TRUE \in BOOLEAN /\ FALSE \in BOOLEAN
  BY DEF Places, Metric, Status, EnforcePlaces, ShadowPlaces
<1>1. CASE CountValid(w)
  <2>1. Balanced("count", "PaymentsValid", "method", "-")
    BY DEF Balanced, Same, Moved
  <2>2. request[w].loc.mode = "enforce" /\ lastMethod[w] # "None"
    BY <1>0, <1>1, AtPlace DEF CountValid, EnforcePlaces
  <2> QED
    BY <1>0, <1>1, <2>1, <2>2, Advances DEF CountValid, ShadowPlaces
<1>2. CASE CountMethod(w)
  <2>1. /\ request[w].at = "method" /\ request[w].loc.mode = "enforce"
        /\ request[w].result = "declined" /\ lastMethod[w] \in {"Lightning", "Cashu"}
    BY <1>0, <1>2, AtPlace DEF CountMethod, EnforcePlaces
  <2>2. /\ Return(w, "declined", FALSE) /\ lastMethod' = [lastMethod EXCEPT ![w] = "None"]
        /\ UNCHANGED <<lost, arrivals, redis>> /\ quote' = quote
    BY <1>2 DEF CountMethod, Answer, clients
  <2>3. CASE lastMethod[w] = "Lightning"
    <3>1. Inc("PaymentsLightning")
      BY <1>2, <2>3 DEF CountMethod
    <3>2. Balanced("method", "PaymentsLightning", "idle", "declined")
      BY DEF Balanced, Same, Moved
    <3> QED
      BY <1>0, <2>1, <2>2, <3>1, <3>2, Answers
  <2>4. CASE lastMethod[w] = "Cashu"
    <3>1. Inc("PaymentsCashu")
      BY <1>2, <2>4 DEF CountMethod
    <3>2. Balanced("method", "PaymentsCashu", "idle", "declined")
      BY DEF Balanced, Same, Moved
    <3> QED
      BY <1>0, <2>1, <2>2, <3>1, <3>2, Answers
  <2> QED
    BY <2>1, <2>3, <2>4
<1>3. CASE CountInvalid(w)
  <2>1. /\ request[w].at = "count" /\ request[w].loc.mode = "enforce"
        /\ request[w].result \in {"400", "401"}
    BY <1>0, <1>3, AtPlace DEF CountInvalid, EnforcePlaces
  <2>2. Balanced("count", "PaymentsInvalid", "idle", request[w].result)
    BY <2>1 DEF Balanced, Same, Moved
  <2>3. /\ Return(w, request[w].result, FALSE) /\ Inc("PaymentsInvalid")
        /\ UNCHANGED <<lastMethod, lost, arrivals, redis>> /\ quote' = quote
    BY <1>3 DEF CountInvalid, Answer, clients
  <2> QED
    BY <1>0, <2>1, <2>2, <2>3, Answers
<1>4. CASE CountMissing(w)
  <2>1. Balanced("count", "PaymentsMissing", "limit", "-")
    BY DEF Balanced, Same, Moved
  <2>2. request[w].loc.mode = "enforce"
    BY <1>0, <1>4, AtPlace DEF CountMissing, EnforcePlaces
  <2> QED
    BY <1>0, <1>4, <2>1, <2>2, Advances DEF CountMissing, ShadowPlaces
<1>5. CASE PassError(w)
  <2>1. /\ request[w].at = "count" /\ request[w].loc.mode = "enforce"
        /\ request[w].result \in {"500", "503"}
    BY <1>0, <1>5, AtPlace DEF PassError, EnforcePlaces
  <2>2. Balanced("count", "-", "idle", request[w].result)
    BY <2>1 DEF Balanced, Same, Moved
  <2>3. /\ Return(w, request[w].result, FALSE) /\ UNCHANGED counter
        /\ UNCHANGED <<lastMethod, lost, arrivals, redis>> /\ quote' = quote
    BY <1>5 DEF PassError, Answer, clients
  <2> QED
    BY <1>0, <2>1, <2>2, <2>3, Answers
<1>6. CASE RateLimited(w)
  <2>1. request[w].at = "limit" /\ request[w].loc.mode = "enforce"
    BY <1>0, <1>6, AtPlace DEF RateLimited, EnforcePlaces
  <2>2. Balanced("limit", "RateLimited", "idle", "429")
    BY DEF Balanced, Same, Moved
  <2>3. /\ Return(w, "429", FALSE) /\ Inc("RateLimited")
        /\ UNCHANGED <<lastMethod, lost, arrivals, redis>> /\ quote' = quote
    BY <1>6 DEF RateLimited, Answer, clients
  <2> QED
    BY <1>0, <2>1, <2>2, <2>3, Answers
<1>7. CASE Issue(w)
  <2>1. Balanced("limit", "ChallengesIssued", "invoice", "-")
    BY DEF Balanced, Same, Moved
  <2>2. request[w].loc.mode = "enforce"
    BY <1>0, <1>7, AtPlace DEF Issue, EnforcePlaces
  <2> QED
    BY <1>0, <1>7, <2>1, <2>2, Advances DEF Issue, ShadowPlaces
<1>8. CASE InvoiceMade(w)
  <2>1. Balanced("invoice", "InvoicesGenerated", "send", "-")
    BY DEF Balanced, Same, Moved
  <2>2. request[w].loc.mode = "enforce"
    BY <1>0, <1>8, AtPlace DEF InvoiceMade, EnforcePlaces
  <2> QED
    BY <1>0, <1>8, <2>1, <2>2, Advances DEF InvoiceMade, ShadowPlaces
<1>9. CASE InvoiceFails(w)
  <2>1. request[w].at = "invoice" /\ request[w].loc.mode = "enforce"
    BY <1>0, <1>9, AtPlace DEF InvoiceFails, EnforcePlaces
  <2>2. Balanced("invoice", "InvoicesErrors", "idle", "500")
    BY DEF Balanced, Same, Moved
  <2>3. /\ Return(w, "500", FALSE) /\ Inc("InvoicesErrors")
        /\ UNCHANGED <<lastMethod, lost, arrivals, redis>> /\ quote' = quote
    BY <1>9 DEF InvoiceFails, Answer, clients
  <2> QED
    BY <1>0, <2>1, <2>2, <2>3, Answers
<1>10. CASE SendPage(w) \/ SendEmpty(w)
  <2>1. request[w].at = "send" /\ request[w].loc.mode = "enforce"
    BY <1>0, <1>10, AtPlace DEF SendPage, SendEmpty, EnforcePlaces
  <2>2. Balanced("send", "-", "idle", "402")
    BY DEF Balanced, Same, Moved
  <2>3. /\ Return(w, "402", TRUE) /\ UNCHANGED counter /\ Quote(w)
        /\ UNCHANGED <<lastMethod, lost, arrivals, redis>>
    BY <1>10 DEF SendPage, SendEmpty
  <2> QED
    BY <1>0, <2>1, <2>2, <2>3, Answers
<1>11. CASE SendFails(w)
  <2>1. request[w].at = "send" /\ request[w].loc.mode = "enforce"
    BY <1>0, <1>11, AtPlace DEF SendFails, EnforcePlaces
  <2>2. Balanced("send", "-", "idle", "broken")
    BY DEF Balanced, Same, Moved
  <2>3. /\ Return(w, "broken", FALSE) /\ UNCHANGED counter
        /\ UNCHANGED <<lastMethod, lost, arrivals, redis>> /\ quote' = quote
    BY <1>11 DEF SendFails, Answer, clients
  <2> QED
    BY <1>0, <2>1, <2>2, <2>3, Answers
<1> QED
  BY <1>1, <1>2, <1>3, <1>4, <1>5, <1>6, <1>7, <1>8, <1>9, <1>10, <1>11 DEF EnforceStep

\* The steps of a dry run keep the invariant.
LEMMA ShadowSteps == ASSUME AllPhase, NEW w \in Worker, ShadowStep(w) PROVE AllPhase'
<1>0. /\ "shadow" \in Places /\ "shadowCount" \in Places
      /\ "shadowLimited" \in Places /\ "shadowChallenge" \in Places
      /\ {"DryRunRequests", "DryRunWouldAllow", "DryRunWouldBlock", "DryRunRateLimited",
          "DryRunErrors"} \subseteq Metric
      /\ "declined" \in Status
      /\ EnforcePlaces \cap ShadowPlaces = {}
      /\ TRUE \in BOOLEAN /\ FALSE \in BOOLEAN
  BY DEF Places, Metric, Status, EnforcePlaces, ShadowPlaces
<1>1. CASE Shadow(w)
  <2>1. Balanced("shadow", "DryRunRequests", "shadowCount", "-")
    BY DEF Balanced, Same, Moved
  <2>2. request[w].loc.mode = "dryRun"
    BY <1>0, <1>1, AtPlace DEF Shadow, ShadowPlaces
  <2> QED
    BY <1>0, <1>1, <2>1, <2>2, Advances DEF Shadow, EnforcePlaces
<1>2. CASE ShadowCount(w)
  <2>1. /\ request[w].at = "shadowCount" /\ request[w].loc.mode = "dryRun"
        /\ request[w] \in Request
    BY <1>0, <1>2, AtPlace DEF ShadowCount, ShadowPlaces
  <2>2. PICK m \in {"DryRunWouldAllow", "DryRunWouldBlock", "-"} :
          \/ m \in Metric /\ Inc(m)
          \/ m = "-" /\ UNCHANGED counter
    BY <1>0, <1>2 DEF ShadowCount
  <2>3. UNCHANGED <<lastMethod, lost, clients>>
    BY <1>2 DEF ShadowCount
  <2>4. CASE request[w].result = "402"
    <3>1. Inc("DryRunWouldBlock")
      BY <1>2, <2>4 DEF ShadowCount
    <3>2. PICK place \in {"shadowLimited", "shadowChallenge"} : GoTo(w, place)
      BY <1>2, <2>4 DEF ShadowCount
    <3>3. UNCHANGED <<answered, forwarded>>
      BY <1>2, <2>4 DEF ShadowCount
    <3>4. Balanced("shadowCount", "DryRunWouldBlock", place, "-")
      BY DEF Balanced, Same, Moved
    <3>5. place \in Places /\ place \notin EnforcePlaces /\ place \notin {"count", "method"}
      BY <1>0 DEF EnforcePlaces
    <3> QED
      BY <1>0, <2>1, <2>3, <3>1, <3>2, <3>3, <3>4, <3>5, Advances
  <2>5. CASE request[w].result # "402"
    <3>1. Return(w, "declined", FALSE)
      BY <1>2, <2>5 DEF ShadowCount, Answer
    <3>2. Balanced("shadowCount", m, "idle", "-")
      BY DEF Balanced, Same, Moved
    <3> QED
      BY <1>0, <2>1, <2>2, <2>3, <3>1, <3>2, Answers DEF clients
  <2> QED
    BY <2>4, <2>5
<1>3. CASE ShadowLimited(w)
  <2>1. request[w].at = "shadowLimited" /\ request[w].loc.mode = "dryRun"
    BY <1>0, <1>3, AtPlace DEF ShadowLimited, ShadowPlaces
  <2>2. Balanced("shadowLimited", "DryRunRateLimited", "idle", "-")
    BY DEF Balanced, Same, Moved
  <2>3. /\ Return(w, "declined", FALSE) /\ Inc("DryRunRateLimited")
        /\ UNCHANGED <<lastMethod, lost, arrivals, redis>> /\ quote' = quote
    BY <1>3 DEF ShadowLimited, Answer, clients
  <2> QED
    BY <1>0, <2>1, <2>2, <2>3, Answers
<1>4. CASE ShadowChallenge(w)
  <2>1. request[w].at = "shadowChallenge" /\ request[w].loc.mode = "dryRun"
    BY <1>0, <1>4, AtPlace DEF ShadowChallenge, ShadowPlaces
  <2>2. PICK m \in {"DryRunErrors", "-"} :
          \/ m \in Metric /\ Inc(m)
          \/ m = "-" /\ UNCHANGED counter
    BY <1>0, <1>4 DEF ShadowChallenge
  <2>3. Balanced("shadowChallenge", m, "idle", "-")
    BY DEF Balanced, Same, Moved
  <2>4. /\ Return(w, "declined", FALSE)
        /\ UNCHANGED <<lastMethod, lost, arrivals, redis>> /\ quote' = quote
    BY <1>4 DEF ShadowChallenge, Answer, clients
  <2> QED
    BY <1>0, <2>1, <2>2, <2>3, <2>4, Answers
<1>5. CASE ShadowChallengePanics(w)
  <2>1. request[w] # Idle
    BY <1>0, <1>5, IdleIsNoRequest DEF ShadowChallengePanics
  <2> QED
    BY <1>5, <2>1, DieStep DEF ShadowChallengePanics
<1> QED
  BY <1>1, <1>2, <1>3, <1>4, <1>5 DEF ShadowStep

-----------------------------------------------------------------------------
(* The invariant of the access phase: types, places, quotes and books. *)
LEMMA PhaseInvariant == Spec => []AllPhase
<1>1. Init => AllPhase
  <2> SUFFICES ASSUME Init PROVE AllPhase
    OBVIOUS
  <2>1. \A w \in Worker : request[w] = Idle
    BY DEF Init
  <2>2. PhaseTypes
    BY DEF Init, PhaseTypes
  <2>3. Placed /\ Quoted
    BY <2>1 DEF Init, Placed, Quoted
  <2>4. \A p \in Places : Reached(p) = 0
    <3> TAKE p \in Places
    <3>1. {w \in Worker : request[w].at = p} = {}
      BY <2>1, IdleIsNoRequest
    <3>2. At(p) = 0
      BY <3>1, FS_EmptySet DEF At
    <3>3. lost[p] = 0
      BY DEF Init
    <3> QED
      BY <3>2, <3>3 DEF Reached
  <2>5. Books
    <3>1. \A n \in Metric : counter[n] = 0
      BY DEF Init
    <3>2. \A s \in Status : Answered(s) = 0
      BY DEF Init, Answered, Mode
    <3>3. /\ Reached("handle") = 0 /\ Reached("count") = 0 /\ Reached("shadow") = 0
          /\ Reached("method") = 0 /\ Reached("limit") = 0 /\ Reached("invoice") = 0
          /\ Reached("send") = 0
      BY <2>4 DEF Places
    <3> HIDE DEF Reached, Answered
    <3> QED
      BY <3>1, <3>2, <3>3
      DEF Books, EveryRequestHasOneOutcome, CountersMatchAnswers, Metric, Status
  <2>6. ForwardedByRight
    BY DEF Init, ForwardedByRight, Mode
  <2> QED
    BY <2>2, <2>3, <2>5, <2>6 DEF AllPhase, PhaseInv
<1>2. AllPhase /\ [Next]_vars => AllPhase'
  <2> SUFFICES ASSUME AllPhase, [Next]_vars PROVE AllPhase'
    OBVIOUS
  <2>1. ASSUME NEW w \in Worker, Front(w) PROVE AllPhase'
    BY <2>1, FrontStep
  <2>2. ASSUME NEW w \in Worker, EnforceStep(w) PROVE AllPhase'
    BY <2>2, EnforceSteps
  <2>3. ASSUME NEW w \in Worker, ShadowStep(w) PROVE AllPhase'
    BY <2>3, ShadowSteps
  <2>4. ASSUME NEW w \in Worker, Crash(w) PROVE AllPhase'
    BY <2>4, DieStep DEF Crash
  <2>5. CASE ChangeRedis
    BY <2>5, ChangeStep
  <2>6. CASE UNCHANGED vars
    BY <2>6, NothingChanges
  <2> QED
    BY <2>1, <2>2, <2>3, <2>4, <2>5, <2>6 DEF Next
<1> QED
  BY <1>1, <1>2, PTL DEF Spec

(* Every request is counted under one outcome and every outcome under one of *)
(* its parts, at every scrape: between any two increments of any number of   *)
(* workers, and across crashes.                                              *)
THEOREM EveryRequestHasOneOutcomeHolds == Spec => []EveryRequestHasOneOutcome
<1>1. AllPhase => EveryRequestHasOneOutcome
  BY DEF AllPhase, Books
<1> QED
  BY <1>1, PhaseInvariant, PTL

(* The enforce-mode counters say what enforce-mode clients were answered.    *)
THEOREM CountersMatchAnswersHolds == Spec => []CountersMatchAnswers
<1>1. AllPhase => CountersMatchAnswers
  BY DEF AllPhase, Books
<1> QED
  BY <1>1, PhaseInvariant, PTL

(* The upstream gets no request that is unpaid or already answered, and no   *)
(* shadow location answers anything but NGX_DECLINED.                        *)
THEOREM ForwardedByRightHolds == Spec => []ForwardedByRight
<1>1. AllPhase => ForwardedByRight
  BY DEF AllPhase
<1> QED
  BY <1>1, PhaseInvariant, PTL

(* A Cashu token worth what the last 402 quoted is not refused for its       *)
(* amount, for any prices and any number of millisats to the sat, as long as *)
(* price and Redis stay as they were.                                        *)
THEOREM QuoteHonouredHolds == Spec => []QuoteHonoured
<1>1. AllPhase => QuoteHonoured
  BY DEF AllPhase, PhaseInv, Quoted, QuoteHonoured
<1> QED
  BY <1>1, PhaseInvariant, PTL
=============================================================================
