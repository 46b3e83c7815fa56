-------------------------- MODULE CashuGateProofs --------------------------
(***************************************************************************)
(* Single use of Cashu proofs, in both modes, for any number of workers,   *)
(* tokens and proofs, any deployment, any outages, restarts, lost replies  *)
(* and lapses.  Standard mode rests on the mint: a request that swapped    *)
(* proofs is the only one that ever will (SwapIsSole).  P2PK mode rests on *)
(* the marker of a proof set: the admissions and the requests that hold    *)
(* the claim never outnumber the marker and its lapses (Counted).          *)
(***************************************************************************)
EXTENDS CashuGate, ReplayCacheLemmas, FiniteSetTheorems

Claiming(w)  == At(w, "claim") \/ At(w, "store")
Storing(k)   == {w \in Worker : At(w, "store") /\ Key(w) = k}
Swapped(k)   == \A x \in k : mint[x] = "spent"

RequestsOK ==
    /\ request \in [Worker -> [step : Steps, token : Token \cup {NoToken}]]
    /\ \A w \in Worker :
          /\ ~At(w, "idle") => request[w].token \in DOMAIN Contents
          /\ At(w, "receive") => ~P2pk
          /\ At(w, "key") \/ At(w, "state") \/ At(w, "store") => P2pk

CachesOK ==
    /\ cache \in [Worker -> CacheOf(Names)]
    /\ \A w \in Worker : Consistent(cache[w])

SharedOK ==
    /\ deployment \in Deployments
    /\ redisUp \in BOOLEAN
    /\ used \subseteq IF P2pk THEN Keys ELSE DOMAIN Contents
    /\ used # {} => HasRedis

FundsOK ==
    /\ mint \in [Proof -> {"unspent", "pending", "spent"}]
    /\ wallet \in [Proof -> {"absent", "unspent", "pending", "spent"}]

TallyOK ==
    /\ restarts \in Nat
    /\ admissions \in [Keys -> Nat]
    /\ refused \subseteq Keys /\ lost \subseteq Keys
    /\ lapses \in [Keys -> Nat]

TypeOK == RequestsOK /\ CachesOK /\ SharedOK /\ FundsOK /\ TallyOK

----------------------------------------------------------------------------
(* Standard mode *)

\* A swap is never undone, and no other request's set, claimed token or
\* admitted set shares a proof with the set of the request that swapped it.
SwapIsSole ==
    \A w \in Worker : At(w, "claim") =>
        /\ Swapped(Key(w))
        /\ \A v \in Worker \ {w} : At(v, "claim") => Key(v) \cap Key(w) = {}
        /\ \A t \in used : Contents[t] \cap Key(w) = {}
        /\ \A k \in Keys : admissions[k] > 0 => k \cap Key(w) = {}

AdmittedIsSwapped ==
    \A k \in Keys : admissions[k] > 0 =>
        /\ Swapped(k)
        /\ admissions[k] = 1
        /\ \A l \in Keys \ {k} : admissions[l] > 0 => k \cap l = {}

StandardInv ==
    /\ \A x \in Proof : wallet[x] = "absent"
    /\ \A t \in used : Swapped(Contents[t])
    /\ SwapIsSole
    /\ AdmittedIsSwapped
    /\ refused = {}

----------------------------------------------------------------------------
(* P2PK mode *)

ClaimIsVerified == \A w \in Worker : Claiming(w) => Verified(Key(w))

AdmittedIsStored ==
    \A k \in Keys : admissions[k] > 0 =>
        k \in Range(Contents) /\ Verified(k) /\ \A x \in k : wallet[x] # "absent"

StoredIsAdmitted ==
    \A x \in Proof : wallet[x] # "absent" =>
        \E k \in Range(Contents) : x \in k /\ admissions[k] > 0

SpentIsSpent == \A x \in Proof : wallet[x] = "spent" => mint[x] = "spent"

\* What a claim was checked to be is still so, until it is stored.
ClaimIsUnspent ==
    \A w \in Worker : Claiming(w) =>
        \A x \in Key(w) : wallet[x] = "absent" => mint[x] = "unspent"

\* A cache knows a proof key that was admitted or whose claim was lost, and,
\* without Redis, the one its own worker is storing.
KnownIsExplained ==
    \A k \in Keys :
        /\ k \in used => admissions[k] > 0 \/ k \in lost \/ Storing(k) # {}
        /\ \A w \in Worker : Holds(cache[w], k) =>
              admissions[k] > 0 \/ k \in lost \/ (~HasRedis /\ w \in Storing(k))

P2pkInv ==
    /\ refused = {}
    /\ ClaimIsVerified /\ AdmittedIsStored /\ StoredIsAdmitted
    /\ SpentIsSpent /\ ClaimIsUnspent /\ KnownIsExplained

\* A set that was admitted and redeemed: no request can claim it any more.
Retired(k) ==
    /\ \A x \in k : mint[x] = "spent" /\ wallet[x] = "spent"
    /\ \A w \in Worker : Claiming(w) => Key(w) # k

Marker(k) == IF k \in used THEN 1 ELSE 0

\* The marker and each lapse of it stand for one admission, made or still to be
\* made by a request that holds the claim.
Covered(k) == admissions[k] + Cardinality(Storing(k)) <= lapses[k] + Marker(k)

Counted ==
    \A k \in Range(Contents) :
        admissions[k] <= 1 + lapses[k] /\ (Retired(k) \/ Covered(k))

\* With markers that last, what the wallet holds as unspent the mint does too.
Sound ==
    /\ \A k \in Keys : lapses[k] = 0
    /\ \A x \in Proof : wallet[x] = "unspent" => mint[x] = "unspent"

IInv ==
    /\ ~P2pk => StandardInv
    /\ P2pk => P2pkInv
    /\ P2pk /\ Shared => Counted
    /\ P2pk /\ Guarded => Sound

----------------------------------------------------------------------------
\* Every step stays in the deployment nginx was started with.
LEMMA DeploymentIsFixed == [Next]_vars => UNCHANGED deployment
BY DEF Next, HandlerStep, StandardStep, P2pkStep, vars, Present, CheckToken, GiveUp,
   Receive, ReceiveReplyLost, ClaimReceived, ClaimFailsOpen, CheckKey, CheckState,
   ClaimProofs, ClaimReplyLost, ClaimUnavailable, ClaimInWorker, Store, StoreFails,
   Restart, SpendElsewhere, MeltReserve, MeltAtMint, MeltRecord, Expire, RedisFails,
   RedisRecovers

\* A request works on a set of proofs that some token encodes.
LEMMA KeyIsKey ==
    ASSUME TypeOK, NEW w \in Worker, ~At(w, "idle")
    PROVE  /\ request[w].token \in Token /\ request[w].token \in Names
           /\ request[w].token \in DOMAIN Contents
           /\ Key(w) \in Keys /\ Key(w) \in Names
           /\ Key(w) \in Range(Contents)
           /\ Key(w) = Contents[request[w].token]
<1>1. request[w].token \in DOMAIN Contents
  BY DEF TypeOK, RequestsOK
<1>2. DOMAIN Contents \subseteq Token /\ Range(Contents) \subseteq Keys
  BY CashuAssumption DEF TypeOK, SharedOK, Contents
<1> QED BY <1>1, <1>2 DEF Key, Names, Range

\* An answer idles the worker and no other; a step on moves no other either.
LEMMA AnswerIdles ==
    ASSUME TypeOK, NEW w \in Worker, Answer(w)
    PROVE  /\ request' \in [Worker -> [step : Steps, token : Token \cup {NoToken}]]
           /\ request'[w] = Idle
           /\ \A v \in Worker \ {w} : request'[v] = request[v]
BY DEF Answer, TypeOK, RequestsOK, Idle, Steps

\* A step on moves its request and no other.
LEMMA GotoMoves ==
    ASSUME TypeOK, NEW w \in Worker, NEW s \in Steps, Goto(w, s)
    PROVE  /\ request' \in [Worker -> [step : Steps, token : Token \cup {NoToken}]]
           /\ request'[w].step = s /\ request'[w].token = request[w].token
           /\ \A v \in Worker \ {w} : request'[v] = request[v]
BY DEF Goto, TypeOK, RequestsOK

\* The settings, the requests, the caches, Redis, the mint and the wallet
\* keep their types.
THEOREM TypeCorrect == Spec => []TypeOK
<1> USE CashuAssumption
<1>1. Init => TypeOK
  <2> SUFFICES ASSUME Init PROVE TypeOK
    OBVIOUS
  <2>1. WithCapacity(CacheCap) \in CacheOf(Names) /\ Consistent(WithCapacity(CacheCap))
    BY NewCache
  <2>2. CachesOK
    BY <2>1 DEF Init, CachesOK
  <2>3. RequestsOK
    BY DEF Init, RequestsOK, Idle, Steps, At
  <2>4. SharedOK
    BY DEF Init, SharedOK
  <2>5. FundsOK /\ TallyOK
    BY DEF Init, FundsOK, TallyOK
  <2> QED BY <2>2, <2>3, <2>4, <2>5 DEF TypeOK
<1>2. TypeOK /\ [Next]_vars => TypeOK'
  <2> SUFFICES ASSUME TypeOK, [Next]_vars PROVE TypeOK'
    OBVIOUS
  <2>0. UNCHANGED <<deployment, P2pk, HasRedis, Contents>>
    BY DeploymentIsFixed DEF P2pk, HasRedis, Contents
  <2>a. UNCHANGED request => RequestsOK'
    BY <2>0 DEF TypeOK, RequestsOK, At
  <2>b. UNCHANGED cache => CachesOK'
    BY DEF TypeOK, CachesOK
  <2>c. UNCHANGED <<used, redisUp>> => SharedOK'
    BY <2>0 DEF TypeOK, SharedOK
  <2>d. UNCHANGED funds => FundsOK'
    BY DEF TypeOK, FundsOK, funds
  <2>e. UNCHANGED <<restarts, tally>> => TallyOK'
    BY DEF TypeOK, TallyOK, tally
  <2>f. ASSUME NEW w \in Worker, Answer(w) PROVE RequestsOK'
    <3>1. /\ request' \in [Worker -> [step : Steps, token : Token \cup {NoToken}]]
          /\ request'[w] = Idle
          /\ \A v \in Worker \ {w} : request'[v] = request[v]
      BY <2>f, AnswerIdles
    <3> QED BY <2>0, <3>1 DEF TypeOK, RequestsOK, At, Idle
  <2>g. ASSUME NEW w \in Worker, ~At(w, "idle"), NEW s \in Steps, Goto(w, s),
               s = "receive" => ~P2pk, s \in {"key", "state", "store"} => P2pk
        PROVE  RequestsOK'
    <3>1. /\ request' \in [Worker -> [step : Steps, token : Token \cup {NoToken}]]
          /\ request'[w].step = s /\ request'[w].token = request[w].token
          /\ \A v \in Worker \ {w} : request'[v] = request[v]
      BY <2>g, GotoMoves
    <3> QED BY <2>0, <2>g, <3>1 DEF TypeOK, RequestsOK, At
  <2>h. ASSUME NEW w \in Worker, NEW n \in Names,
               cache' = [cache EXCEPT ![w] = AfterClaim(@, n)]
        PROVE  CachesOK'
    <3>1. AfterClaim(cache[w], n) \in CacheOf(Names) /\ Consistent(AfterClaim(cache[w], n))
      BY ClaimKeeps DEF TypeOK, CachesOK
    <3> QED BY <2>h, <3>1 DEF TypeOK, CachesOK
  <2>i. ASSUME NEW w \in Worker, ~At(w, "idle"), HasRedis, UNCHANGED redisUp,
               used' = used \cup {IF P2pk THEN Key(w) ELSE request[w].token}
        PROVE  SharedOK'
    BY <2>0, <2>i, KeyIsKey DEF TypeOK, SharedOK
  <2>j. ASSUME NEW w \in Worker, ~At(w, "idle"), Admit(w), UNCHANGED <<restarts, refused, lost, lapses>>
        PROVE  TallyOK'
    BY <2>j, KeyIsKey DEF Admit, TypeOK, TallyOK
  <2>k. ASSUME NEW k \in Keys, Lose(k), UNCHANGED <<restarts, admissions, refused, lapses>>
        PROVE  TallyOK'
    BY <2>k DEF Lose, TypeOK, TallyOK
  <2>1. ASSUME NEW w \in Worker, NEW t \in Token, Present(w, t) PROVE TypeOK'
    <3>1. RequestsOK'
      BY <2>0, <2>1 DEF Present, TypeOK, RequestsOK, At, Steps
    <3> QED BY <2>1, <2>b, <2>c, <2>d, <2>e, <3>1 DEF Present, TypeOK
  <2>2. ASSUME NEW w \in Worker, CheckToken(w) \/ GiveUp(w) \/ CheckKey(w) \/ CheckState(w)
                                    \/ ClaimUnavailable(w)
        PROVE TypeOK'
    <3>1. ~At(w, "idle") /\ UNCHANGED <<deployment, cache, used, redisUp, funds, restarts, tally>>
      BY <2>2 DEF CheckToken, GiveUp, CheckKey, CheckState, ClaimUnavailable, At
    <3>2. CASE Answer(w)
      BY <2>b, <2>c, <2>d, <2>e, <2>f, <3>1, <3>2 DEF TypeOK
    <3>3. CASE ~Answer(w)
      <4>1. PICK s \in Steps : /\ Goto(w, s)
                               /\ s = "receive" => ~P2pk
                               /\ s \in {"key", "state", "store"} => P2pk
        BY <2>2, <3>3 DEF CheckToken, GiveUp, CheckKey, CheckState, ClaimUnavailable, Steps,
           TypeOK, RequestsOK
      <4> QED BY <2>b, <2>c, <2>d, <2>e, <2>g, <3>1, <4>1 DEF TypeOK
    <3> QED BY <3>2, <3>3
  <2>3. ASSUME NEW w \in Worker, Receive(w) \/ ReceiveReplyLost(w) PROVE TypeOK'
    <3>1. ~At(w, "idle") /\ UNCHANGED <<cache, used, redisUp, wallet, restarts>>
      BY <2>3 DEF Receive, ReceiveReplyLost, At
    <3>2. FundsOK'
      BY <2>3 DEF Receive, ReceiveReplyLost, Moved, TypeOK, FundsOK
    <3>3. RequestsOK'
      BY <2>3, <2>f, <2>g, <3>1 DEF Receive, ReceiveReplyLost, Steps
    <3>4. TallyOK'
      BY <2>3, <2>e, <2>k, <3>1, KeyIsKey DEF Receive, ReceiveReplyLost
    <3> QED BY <2>b, <2>c, <3>1, <3>2, <3>3, <3>4 DEF TypeOK
  <2>4. ASSUME NEW w \in Worker, ClaimReceived(w) \/ ClaimFailsOpen(w) PROVE TypeOK'
    <3>1. ~At(w, "idle") /\ ~P2pk /\ Answer(w) /\ UNCHANGED <<redisUp, funds, restarts, lapses, lost>>
      BY <2>4 DEF ClaimReceived, ClaimFailsOpen, At
    <3>2. CachesOK'
      BY <2>4, <2>b, <2>h, <3>1, KeyIsKey DEF ClaimReceived, ClaimFailsOpen, CacheToken
    <3>3. SharedOK'
      BY <2>4, <2>c, <2>i, <3>1 DEF ClaimReceived, ClaimFailsOpen
    <3>4. TallyOK'
      <4>1. CASE Admit(w) /\ UNCHANGED refused
        BY <2>j, <3>1, <4>1
      <4>2. CASE refused' = refused \cup {Key(w)} /\ UNCHANGED admissions
        BY <3>1, <4>2, KeyIsKey DEF TypeOK, TallyOK
      <4> QED BY <2>4, <4>1, <4>2 DEF ClaimReceived, ClaimFailsOpen
    <3> QED BY <2>d, <2>f, <3>1, <3>2, <3>3, <3>4 DEF TypeOK
  <2>5. ASSUME NEW w \in Worker, ClaimProofs(w) \/ ClaimReplyLost(w) PROVE TypeOK'
    <3>1. ~At(w, "idle") /\ P2pk /\ HasRedis /\ UNCHANGED <<cache, redisUp, funds, restarts>>
          /\ used' = used \cup {Key(w)}
      BY <2>5 DEF ClaimProofs, ClaimReplyLost, At
    <3>2. RequestsOK'
      BY <2>5, <2>f, <2>g, <3>1 DEF ClaimProofs, ClaimReplyLost, Steps
    <3>3. TallyOK'
      BY <2>5, <2>e, <2>k, <3>1, KeyIsKey DEF ClaimProofs, ClaimReplyLost
    <3> QED BY <2>b, <2>d, <2>i, <3>1, <3>2, <3>3 DEF TypeOK
  <2>6. ASSUME NEW w \in Worker, ClaimInWorker(w) PROVE TypeOK'
    <3>1. ~At(w, "idle") /\ P2pk /\ UNCHANGED <<used, redisUp, funds, restarts, tally>>
      BY <2>6 DEF ClaimInWorker, At
    <3>2. RequestsOK'
      BY <2>6, <2>f, <2>g, <3>1 DEF ClaimInWorker, Steps
    <3>3. CachesOK'
      BY <2>6, <2>h, <3>1, KeyIsKey DEF ClaimInWorker
    <3> QED BY <2>c, <2>d, <2>e, <3>1, <3>2, <3>3 DEF TypeOK
  <2>7. ASSUME NEW w \in Worker, Store(w) PROVE TypeOK'
    <3>1. ~At(w, "idle") /\ UNCHANGED <<used, redisUp, mint, restarts, refused, lost, lapses>>
      BY <2>7 DEF Store, At
    <3>2. CachesOK'
      <4> DEFINE c == AfterClaim(cache[w], Key(w))
                 d == AfterClaim(c, request[w].token)
      <4>1. c \in CacheOf(Names) /\ Consistent(c)
        BY <3>1, ClaimKeeps, KeyIsKey DEF TypeOK, CachesOK
      <4> HIDE DEF c
      <4>2. d \in CacheOf(Names) /\ Consistent(d)
        BY <3>1, <4>1, ClaimKeeps, KeyIsKey
      <4>3. cache' = [cache EXCEPT ![w] = d]
        BY <2>7 DEF Store, c
      <4> HIDE DEF d
      <4> QED BY <4>2, <4>3 DEF TypeOK, CachesOK
    <3>3. FundsOK'
      BY <2>7 DEF Store, Moved, TypeOK, FundsOK
    <3> QED BY <2>7, <2>c, <2>f, <2>j, <3>1, <3>2, <3>3 DEF Store, TypeOK
  <2>8. ASSUME NEW w \in Worker, StoreFails(w) PROVE TypeOK'
    <3>1. ~At(w, "idle") /\ Answer(w) /\ UNCHANGED <<redisUp, funds, restarts, admissions, refused, lapses>>
      BY <2>8 DEF StoreFails, At
    <3>2. CachesOK'
      <4>1. AfterRelease(cache[w], Key(w)) \in CacheOf(Names)
            /\ Consistent(AfterRelease(cache[w], Key(w)))
        BY <3>1, ReleaseKeeps, KeyIsKey DEF TypeOK, CachesOK
      <4> QED BY <2>8, <2>b, <4>1 DEF StoreFails, TypeOK, CachesOK
    <3>3. SharedOK'
      BY <2>0, <2>8 DEF StoreFails, TypeOK, SharedOK
    <3>4. TallyOK'
      BY <2>8, <2>e, <2>k, <3>1, KeyIsKey DEF StoreFails, tally
    <3> QED BY <2>d, <2>f, <3>1, <3>2, <3>3, <3>4 DEF TypeOK
  <2>9. ASSUME NEW w \in Worker, Restart(w) PROVE TypeOK'
    <3>1. Answer(w) /\ UNCHANGED <<used, redisUp, funds, admissions, refused, lapses>>
      BY <2>9 DEF Restart
    <3>2. CachesOK'
      <4>1. WithCapacity(CacheCap) \in CacheOf(Names) /\ Consistent(WithCapacity(CacheCap))
        BY NewCache
      <4> QED BY <2>9, <4>1 DEF Restart, TypeOK, CachesOK
    <3>3. TallyOK'
      <4>1. restarts' \in Nat
        BY <2>9 DEF Restart, TypeOK, TallyOK
      <4>2. lost' \subseteq Keys
        BY <2>9, KeyIsKey DEF Restart, Lose, At, TypeOK, TallyOK
      <4> QED BY <3>1, <4>1, <4>2 DEF TypeOK, TallyOK
    <3> QED BY <2>c, <2>d, <2>f, <3>1, <3>2, <3>3 DEF TypeOK
  <2>10. ASSUME NEW x \in Proof,
                SpendElsewhere(x) \/ MeltReserve(x) \/ MeltAtMint(x) \/ MeltRecord(x)
         PROVE  TypeOK'
    <3>1. UNCHANGED <<cache, request, used, redisUp, restarts, tally>>
      BY <2>10 DEF SpendElsewhere, MeltReserve, MeltAtMint, MeltRecord
    <3>2. FundsOK'
      BY <2>10 DEF SpendElsewhere, MeltReserve, MeltAtMint, MeltRecord, TypeOK, FundsOK
    <3> QED BY <2>a, <2>b, <2>c, <2>e, <3>1, <3>2 DEF TypeOK
  <2>11. ASSUME NEW n \in Names, Expire(n) PROVE TypeOK'
    <3>1. UNCHANGED <<cache, request, redisUp, funds, restarts, admissions, refused, lost>>
      BY <2>11 DEF Expire
    <3>2. SharedOK'
      BY <2>0, <2>11 DEF Expire, TypeOK, SharedOK
    <3>3. TallyOK'
      <4>1. lapses' \in [Keys -> Nat]
        BY <2>11 DEF Expire, Names, TypeOK, TallyOK
      <4> QED BY <3>1, <4>1 DEF TypeOK, TallyOK
    <3> QED BY <2>a, <2>b, <2>d, <3>1, <3>2, <3>3 DEF TypeOK
  <2>12. CASE RedisFails \/ RedisRecovers
    <3>1. UNCHANGED <<cache, request, used, funds, restarts, tally>> /\ redisUp' \in BOOLEAN
      BY <2>12 DEF RedisFails, RedisRecovers
    <3>2. SharedOK'
      BY <2>0, <3>1 DEF TypeOK, SharedOK
    <3> QED BY <2>a, <2>b, <2>d, <2>e, <3>1, <3>2 DEF TypeOK
  <2>13. CASE UNCHANGED vars
    BY <2>13, <2>a, <2>b, <2>c, <2>d, <2>e DEF vars, TypeOK, funds, tally
  <2> QED
    BY <2>1, <2>2, <2>3, <2>4, <2>5, <2>6, <2>7, <2>8, <2>9, <2>10, <2>11, <2>12, <2>13
    DEF Next, HandlerStep, StandardStep, P2pkStep
<1> QED BY <1>1, <1>2, PTL DEF Spec

----------------------------------------------------------------------------
\* In standard mode no step disturbs the mint's single swap.
LEMMA StandardKept ==
    ASSUME TypeOK, ~P2pk, StandardInv, [Next]_vars
    PROVE  StandardInv'
<1>0. UNCHANGED <<deployment, P2pk, HasRedis, Contents>>
  BY DeploymentIsFixed DEF P2pk, HasRedis, Contents
<1>a. ASSUME NEW w \in Worker, ~At(w, "idle")
      PROVE  /\ Key(w) \in Keys /\ Key(w) # {} /\ Key(w) \subseteq Proof
             /\ request[w].token \in DOMAIN Contents /\ Key(w) = Contents[request[w].token]
  BY <1>a, KeyIsKey DEF Keys
<1>b. \A t \in DOMAIN Contents : Contents[t] \subseteq Proof
  BY CashuAssumption DEF TypeOK, SharedOK, Contents, Range, Keys
<1>c. used \subseteq DOMAIN Contents
  BY DEF TypeOK, SharedOK
\* A step that swaps nothing, claims nothing and admits nothing.
<1>q. ASSUME \A x \in Proof : mint[x] = "spent" => mint'[x] = "spent",
             UNCHANGED <<wallet, admissions, refused>>, used' \subseteq used,
             \A v \in Worker : At(v, "claim")' => At(v, "claim") /\ Key(v)' = Key(v)
      PROVE  StandardInv'
  <2>1. \A k \in SUBSET Proof : Swapped(k) => Swapped(k)'
    BY <1>q DEF Swapped
  <2>2. \A t \in used' : Swapped(Contents[t])'
    BY <1>0, <1>b, <1>c, <1>q, <2>1 DEF StandardInv
  <2>3. SwapIsSole'
    <3>1. ASSUME NEW w \in Worker, At(w, "claim") PROVE Key(w) \subseteq Proof
      BY <1>a, <3>1 DEF At
    <3> QED BY <1>0, <1>q, <2>1, <3>1 DEF StandardInv, SwapIsSole
  <2>4. AdmittedIsSwapped'
    BY <1>q, <2>1 DEF StandardInv, AdmittedIsSwapped, Keys
  <2> QED BY <1>0, <1>q, <2>2, <2>3, <2>4 DEF StandardInv
<1>d. ASSUME NEW w \in Worker, Answer(w) \/ (\E s \in Steps \ {"claim"} : Goto(w, s))
      PROVE  \A v \in Worker : At(v, "claim")' => v # w /\ At(v, "claim") /\ Key(v)' = Key(v)
  BY <1>0, <1>d, AnswerIdles, GotoMoves DEF At, Key, Idle
<1>1. ASSUME NEW w \in Worker, NEW t \in Token, Present(w, t) PROVE StandardInv'
  <2>1. \A v \in Worker : At(v, "claim")' => At(v, "claim") /\ Key(v)' = Key(v)
    BY <1>0, <1>1 DEF Present, At, Key, TypeOK, RequestsOK
  <2> QED BY <1>1, <1>q, <2>1 DEF Present, funds, tally
<1>2. ASSUME NEW w \in Worker, CheckToken(w) \/ GiveUp(w) \/ Restart(w) PROVE StandardInv'
  <2>1. UNCHANGED <<mint, wallet, used, admissions, refused>>
    BY <1>2 DEF CheckToken, GiveUp, Restart, funds, tally
  <2>2. Answer(w) \/ (\E s \in Steps \ {"claim"} : Goto(w, s))
    BY <1>2 DEF CheckToken, GiveUp, Restart, Steps
  <2> QED BY <1>d, <1>q, <2>1, <2>2
<1>3. ASSUME NEW w \in Worker, P2pkStep(w) PROVE FALSE
  BY <1>3 DEF P2pkStep, CheckKey, CheckState, ClaimProofs, ClaimReplyLost, ClaimUnavailable,
     ClaimInWorker, Store, StoreFails, TypeOK, RequestsOK
<1>4. ASSUME NEW w \in Worker, Receive(w) \/ ReceiveReplyLost(w) PROVE StandardInv'
  <2> DEFINE K == Key(w)
  <2>1. /\ ~At(w, "idle") /\ UNCHANGED <<wallet, used, admissions, refused>>
        /\ mint' = Moved(mint, K, "spent")
        /\ \A x \in K : mint[x] = "unspent"
    BY <1>4 DEF Receive, ReceiveReplyLost, Takes, At, tally
  <2>2. K \in Keys /\ K # {} /\ K \subseteq Proof
    BY <1>a, <2>1
  <2>3. \A k \in SUBSET Proof : Swapped(k) => Swapped(k)' /\ k \cap K = {}
    BY <2>1 DEF Swapped, Moved
  <2>4. \A x \in K : mint'[x] = "spent"
    BY <2>1, <2>2 DEF Moved
  <2>5. \A v \in Worker : At(v, "claim")' =>
            \/ v = w /\ Key(v)' = K
            \/ v # w /\ At(v, "claim") /\ Key(v)' = Key(v)
    <3>1. CASE Answer(w)
      BY <1>d, <3>1
    <3>2. CASE Goto(w, "claim")
      BY <1>0, <3>2, GotoMoves DEF At, Key, Steps
    <3> QED BY <1>4, <3>1, <3>2 DEF Receive, ReceiveReplyLost
  <2>6. \A t \in used : Swapped(Contents[t]) /\ Contents[t] \subseteq Proof
    BY <1>b, <1>c DEF StandardInv
  <2>7. \A k \in Keys : admissions[k] > 0 => Swapped(k) /\ k \subseteq Proof
    BY DEF StandardInv, AdmittedIsSwapped, Keys
  <2>8. \A v \in Worker : At(v, "claim") => Swapped(Key(v)) /\ Key(v) \subseteq Proof
    BY <1>a DEF StandardInv, SwapIsSole, At
  <2>9. SwapIsSole'
    <3> SUFFICES ASSUME NEW v \in Worker, At(v, "claim")'
                 PROVE  /\ Swapped(Key(v))'
                        /\ \A u \in Worker \ {v} :
                              At(u, "claim")' => Key(u)' \cap Key(v)' = {}
                        /\ \A t \in used : Contents[t] \cap Key(v)' = {}
                        /\ \A k \in Keys : admissions[k] > 0 => k \cap Key(v)' = {}
      BY <1>0, <2>1 DEF SwapIsSole
    <3>1. CASE v = w /\ Key(v)' = K
      <4>1. \A u \in Worker \ {v} : At(u, "claim")' => Key(u)' \cap K = {}
        BY <2>3, <2>5, <2>8, <3>1
      <4>2. Swapped(Key(v))'
        BY <2>4, <3>1 DEF Swapped
      <4> QED BY <2>3, <2>6, <2>7, <3>1, <4>1, <4>2
    <3>2. CASE v # w /\ At(v, "claim") /\ Key(v)' = Key(v)
      <4>1. \A u \in Worker \ {v} : At(u, "claim")' => Key(u)' \cap Key(v) = {}
        BY <2>3, <2>5, <2>8, <3>2 DEF StandardInv, SwapIsSole
      <4>2. Swapped(Key(v))'
        BY <2>3, <2>8, <3>2
      <4> QED BY <3>2, <4>1, <4>2 DEF StandardInv, SwapIsSole
    <3> QED BY <2>5, <3>1, <3>2
  <2>10. AdmittedIsSwapped'
    BY <2>1, <2>3, <2>7 DEF StandardInv, AdmittedIsSwapped
  <2> QED BY <1>0, <2>1, <2>3, <2>6, <2>9, <2>10 DEF StandardInv
<1>5. ASSUME NEW w \in Worker, ClaimReceived(w) \/ ClaimFailsOpen(w) PROVE StandardInv'
  <2> DEFINE K == Key(w)
             t == request[w].token
  <2>1. /\ ~At(w, "idle") /\ At(w, "claim") /\ Answer(w)
        /\ UNCHANGED <<mint, wallet>>
        /\ used' \in {used, used \cup {t}}
    BY <1>5 DEF ClaimReceived, ClaimFailsOpen, At, funds
  <2>2. K \in Keys /\ K # {} /\ K = Contents[t]
    BY <1>a, <2>1
  <2>3. /\ Swapped(K)
        /\ \A v \in Worker \ {w} : At(v, "claim") => Key(v) \cap K = {}
        /\ \A k \in Keys : admissions[k] > 0 => k \cap K = {}
        /\ t \notin used
    BY <2>1, <2>2 DEF StandardInv, SwapIsSole
  <2>4. Admit(w) /\ UNCHANGED refused
    BY <1>5, <2>3 DEF ClaimReceived, ClaimFailsOpen
  <2>5. /\ admissions[K] = 0 /\ admissions'[K] = 1
        /\ \A k \in Keys \ {K} : admissions'[k] = admissions[k]
    <3>1. admissions \in [Keys -> Nat] /\ ~(admissions[K] > 0)
      BY <2>2, <2>3 DEF TypeOK, TallyOK
    <3> QED BY <2>2, <2>4, <3>1 DEF Admit
  <2>6. \A v \in Worker : At(v, "claim")' => v # w /\ At(v, "claim") /\ Key(v)' = Key(v)
    BY <1>d, <2>1
  <2>7. \A k : Swapped(k) <=> Swapped(k)'
    BY <2>1 DEF Swapped
  <2>8. \A u \in used' : Swapped(Contents[u])
    BY <2>1, <2>2, <2>3 DEF StandardInv
  <2>9. SwapIsSole'
    <3> SUFFICES ASSUME NEW v \in Worker, v # w, At(v, "claim"), Key(v)' = Key(v)
                 PROVE  /\ Swapped(Key(v))
                        /\ \A u \in Worker \ {v} : At(u, "claim")' => Key(u)' \cap Key(v) = {}
                        /\ \A u \in used' : Contents[u] \cap Key(v) = {}
                        /\ \A k \in Keys : admissions'[k] > 0 => k \cap Key(v) = {}
      BY <1>0, <2>6, <2>7 DEF SwapIsSole
    <3>1. \A u \in Worker \ {v} : At(u, "claim")' => Key(u)' \cap Key(v) = {}
      BY <2>6 DEF StandardInv, SwapIsSole
    <3>2. \A u \in used' : Contents[u] \cap Key(v) = {}
      BY <2>1, <2>2, <2>3 DEF StandardInv, SwapIsSole
    <3>3. \A k \in Keys : admissions'[k] > 0 => k \cap Key(v) = {}
      BY <2>3, <2>5 DEF StandardInv, SwapIsSole
    <3> QED BY <3>1, <3>2, <3>3 DEF StandardInv, SwapIsSole
  <2>10. AdmittedIsSwapped'
    BY <2>2, <2>3, <2>5, <2>7 DEF StandardInv, AdmittedIsSwapped
  <2> QED BY <1>0, <2>1, <2>4, <2>7, <2>8, <2>9, <2>10 DEF StandardInv
<1>6. ASSUME NEW x \in Proof, SpendElsewhere(x) \/ MeltReserve(x) \/ MeltAtMint(x) \/ MeltRecord(x)
      PROVE  StandardInv'
  <2>1. SpendElsewhere(x)
    BY <1>6 DEF MeltReserve, MeltAtMint, MeltRecord, StandardInv
  <2>2. \A y \in Proof : mint[y] = "spent" => mint'[y] = "spent"
    BY <2>1 DEF SpendElsewhere, TypeOK, FundsOK
  <2>3. \A v \in Worker : At(v, "claim")' => At(v, "claim") /\ Key(v)' = Key(v)
    BY <1>0, <2>1 DEF SpendElsewhere, At, Key
  <2> QED BY <1>q, <2>1, <2>2, <2>3 DEF SpendElsewhere, tally
<1>7. CASE (\E n \in Names : Expire(n)) \/ RedisFails \/ RedisRecovers \/ UNCHANGED vars
  <2>1. UNCHANGED <<mint, wallet, admissions, refused, request>> /\ used' \subseteq used
    BY <1>7 DEF Expire, RedisFails, RedisRecovers, vars, funds, tally
  <2>2. \A v \in Worker : At(v, "claim")' => At(v, "claim") /\ Key(v)' = Key(v)
    BY <1>0, <2>1 DEF At, Key
  <2> QED BY <1>q, <2>1, <2>2
<1> QED BY <1>1, <1>2, <1>3, <1>4, <1>5, <1>6, <1>7 DEF Next, HandlerStep, StandardStep

----------------------------------------------------------------------------
\* A request that holds a claim, or is about to take it, did so before the step,
\* or the step checked its proofs.
LEMMA ClaimOrigin ==
    ASSUME TypeOK, P2pk, [Next]_vars, NEW v \in Worker, Claiming(v)'
    PROVE  /\ ~At(v, "idle") /\ Key(v)' = Key(v)
           /\ \/ Claiming(v)
              \/ /\ Verified(Key(v)) /\ UnspentAtMint(Key(v))
                 /\ UNCHANGED <<mint, wallet>>
<1>0. UNCHANGED Contents
  BY DeploymentIsFixed DEF Contents
<1>a. ASSUME request'[v] = request[v]
      PROVE  Claiming(v) /\ ~At(v, "idle") /\ Key(v)' = Key(v)
  BY <1>0, <1>a DEF Claiming, At, Key
<1>b. ASSUME NEW w \in Worker, Answer(w) PROVE request'[v] = request[v]
  BY <1>b, AnswerIdles DEF Claiming, At, Idle
<1>c. ASSUME NEW w \in Worker, NEW s \in Steps, Goto(w, s)
      PROVE  \/ request'[v] = request[v]
             \/ v = w /\ s \in {"claim", "store"} /\ Key(v)' = Key(v)
  BY <1>0, <1>c, GotoMoves DEF Claiming, At, Key
<1>1. CASE \E w \in Worker, t \in Token : Present(w, t)
  BY <1>a, <1>1 DEF Present, Claiming, At, TypeOK, RequestsOK
<1>2. ASSUME NEW w \in Worker,
             \/ CheckToken(w) \/ GiveUp(w) \/ CheckKey(w) \/ ClaimReplyLost(w)
             \/ ClaimUnavailable(w) \/ Store(w) \/ StoreFails(w) \/ Restart(w)
      PROVE  request'[v] = request[v]
  BY <1>2, <1>b, <1>c DEF CheckToken, GiveUp, CheckKey, ClaimReplyLost,
     ClaimUnavailable, Store, StoreFails, Restart, Steps
<1>3. ASSUME NEW w \in Worker, StandardStep(w) PROVE FALSE
  BY <1>3 DEF StandardStep, Receive, ReceiveReplyLost, ClaimReceived, ClaimFailsOpen,
     TypeOK, RequestsOK
<1>4. ASSUME NEW w \in Worker, CheckState(w), request'[v] # request[v]
      PROVE  /\ ~At(v, "idle") /\ Key(v)' = Key(v)
             /\ Verified(Key(v)) /\ UnspentAtMint(Key(v)) /\ UNCHANGED <<mint, wallet>>
  BY <1>4, <1>b, <1>c DEF CheckState, At, Steps, funds
<1>5. ASSUME NEW w \in Worker, ClaimProofs(w) \/ ClaimInWorker(w), request'[v] # request[v]
      PROVE  ~At(v, "idle") /\ Key(v)' = Key(v) /\ Claiming(v)
  BY <1>5, <1>b, <1>c DEF ClaimProofs, ClaimInWorker, At, Steps, Claiming
<1>6. CASE \/ \E x \in Proof :
                 SpendElsewhere(x) \/ MeltReserve(x) \/ MeltAtMint(x) \/ MeltRecord(x)
           \/ \E n \in Names : Expire(n)
           \/ RedisFails \/ RedisRecovers \/ UNCHANGED vars
  BY <1>a, <1>6 DEF SpendElsewhere, MeltReserve, MeltAtMint, MeltRecord, Expire, RedisFails,
     RedisRecovers, vars
<1> QED BY <1>a, <1>1, <1>2, <1>3, <1>4, <1>5, <1>6 DEF Next, HandlerStep, P2pkStep

\* What P2PK mode does with funds: Store alone brings proofs into the wallet,
\* and with them an admission; the rest is what a holder of the lock or the
\* redemption does with one proof.
LEMMA FundsMove ==
    ASSUME TypeOK, P2pk, [Next]_vars
    PROVE  \/ UNCHANGED <<mint, wallet, admissions>>
           \/ UNCHANGED mint /\ \E w \in Worker : Store(w)
           \/ /\ UNCHANGED admissions
              /\ \E x \in Proof : \/ SpendElsewhere(x) \/ MeltReserve(x)
                                  \/ MeltAtMint(x) \/ MeltRecord(x)
<1>1. ASSUME NEW w \in Worker, StandardStep(w) PROVE FALSE
  BY <1>1 DEF StandardStep, Receive, ReceiveReplyLost, ClaimReceived, ClaimFailsOpen,
     TypeOK, RequestsOK
<1>2. ASSUME NEW w \in Worker, CheckToken(w) \/ GiveUp(w) \/ P2pkStep(w) \/ Restart(w), ~Store(w)
      PROVE  UNCHANGED <<mint, wallet, admissions>>
  BY <1>2 DEF CheckToken, GiveUp, P2pkStep, CheckKey, CheckState, ClaimProofs, ClaimReplyLost,
     ClaimUnavailable, ClaimInWorker, StoreFails, Restart, funds, tally
<1>3. \A w \in Worker : Store(w) => UNCHANGED mint
  BY DEF Store
<1>4. \A x \in Proof : SpendElsewhere(x) \/ MeltReserve(x) \/ MeltAtMint(x) \/ MeltRecord(x)
                           => UNCHANGED admissions
  BY DEF SpendElsewhere, MeltReserve, MeltAtMint, MeltRecord, tally
<1>5. CASE \/ \E w \in Worker, t \in Token : Present(w, t)
           \/ \E n \in Names : Expire(n)
           \/ RedisFails \/ RedisRecovers \/ UNCHANGED vars
  BY <1>5 DEF Present, Expire, RedisFails, RedisRecovers, vars, funds, tally
<1> QED BY <1>1, <1>2, <1>3, <1>4, <1>5 DEF Next, HandlerStep

\* A proof a step spends or freezes at the mint is being redeemed, or others may
\* spend it; what is spent stays so.
LEMMA MintMoves ==
    ASSUME TypeOK, P2pk, [Next]_vars, NEW x \in Proof
    PROVE  /\ mint[x] = "spent" => mint'[x] = "spent"
           /\ \/ mint'[x] = mint[x]
              \/ wallet[x] = "pending" /\ wallet' = wallet
              \/ Kind[x].lock \in TheirsToSpend /\ wallet' = wallet
<1>1. ASSUME NEW y \in Proof,
             SpendElsewhere(y) \/ MeltReserve(y) \/ MeltAtMint(y) \/ MeltRecord(y)
      PROVE  /\ mint[x] = "spent" => mint'[x] = "spent"
             /\ \/ mint'[x] = mint[x]
                \/ wallet[x] = "pending" /\ wallet' = wallet
                \/ Kind[x].lock \in TheirsToSpend /\ wallet' = wallet
  BY <1>1 DEF SpendElsewhere, MeltReserve, MeltAtMint, MeltRecord, Takes, TypeOK, FundsOK
<1> QED BY <1>1, FundsMove

\* Only Store takes a proof that was absent into the wallet, and nothing takes
\* one out; a proof enters as unspent, and is spent when the mint says so.
LEMMA WalletMoves ==
    ASSUME TypeOK, P2pk, [Next]_vars, NEW x \in Proof
    PROVE  \/ wallet'[x] = wallet[x]
           \/ \E w \in Worker : Store(w) /\ x \in Key(w) /\ wallet'[x] = "unspent"
           \/ wallet[x] = "unspent" /\ wallet'[x] = "pending"
           \/ /\ wallet[x] = "pending" /\ mint' = mint
              /\ wallet'[x] = mint[x] /\ mint[x] # "pending"
<1>1. ASSUME NEW y \in Proof,
             SpendElsewhere(y) \/ MeltReserve(y) \/ MeltAtMint(y) \/ MeltRecord(y)
      PROVE  \/ wallet'[x] = wallet[x]
             \/ wallet[x] = "unspent" /\ wallet'[x] = "pending"
             \/ /\ wallet[x] = "pending" /\ mint' = mint
                /\ wallet'[x] = mint[x] /\ mint[x] # "pending"
  BY <1>1 DEF SpendElsewhere, MeltReserve, MeltAtMint, MeltRecord, TypeOK, FundsOK
<1>2. ASSUME NEW w \in Worker, Store(w)
      PROVE  wallet'[x] = wallet[x] \/ (x \in Key(w) /\ wallet'[x] = "unspent")
  BY <1>2 DEF Store, Moved
<1> QED BY <1>1, <1>2, FundsMove

\* What a claim was checked for does not change with the step.
LEMMA VerifiedIsFixed ==
    ASSUME [Next]_vars, NEW k PROVE Verified(k)' <=> Verified(k)
BY DeploymentIsFixed DEF Verified, VerifyTokenP2pk, VerifyPermanentLock, VerifyDleq, Kind, DleqRule

\* A verified proof is locked to this proxy alone.
LEMMA VerifiedIsOurs ==
    ASSUME NEW k, Verified(k), NEW x \in k
    PROVE  Kind[x].lock = "ours"
BY DEF Verified, VerifyTokenP2pk, VerifyPermanentLock

\* What P2PK mode admits stays stored, and what it stored stays admitted.
LEMMA FundsKept ==
    ASSUME TypeOK, P2pk, P2pkInv, [Next]_vars
    PROVE  (ClaimIsVerified /\ AdmittedIsStored /\ StoredIsAdmitted /\ SpentIsSpent /\ ClaimIsUnspent)'
<1>0. UNCHANGED <<deployment, Contents>>
  BY DeploymentIsFixed DEF Contents
<1>a. \A w \in Worker : Store(w) => /\ Claiming(w) /\ Verified(Key(w)) /\ Key(w) \in Keys
                                   /\ Key(w) \in Range(Contents) /\ Key(w) \subseteq Proof
  BY KeyIsKey DEF Store, Claiming, P2pkInv, ClaimIsVerified, At, Keys
<1>b. \A k \in Keys : k \subseteq Proof
  BY DEF Keys
<1>1. ClaimIsVerified'
  BY ClaimOrigin, VerifiedIsFixed DEF ClaimIsVerified, P2pkInv
<1>2. AdmittedIsStored'
  <2> SUFFICES ASSUME NEW k \in Keys, admissions'[k] > 0
               PROVE  k \in Range(Contents) /\ Verified(k) /\ \A x \in k : wallet'[x] # "absent"
    BY <1>0, VerifiedIsFixed DEF AdmittedIsStored
  <2>1. CASE admissions[k] > 0
    <3>1. k \in Range(Contents) /\ Verified(k) /\ \A x \in k : wallet[x] # "absent"
      BY <2>1 DEF P2pkInv, AdmittedIsStored
    <3>2. \A x \in k : wallet'[x] # "absent"
      BY <1>b, <3>1, WalletMoves DEF TypeOK, FundsOK
    <3> QED BY <3>1, <3>2
  <2>2. CASE ~(admissions[k] > 0)
    <3>1. PICK w \in Worker : Store(w)
      BY <2>2, FundsMove
    <3>2. k = Key(w)
      BY <2>2, <3>1 DEF Store, Admit, TypeOK, TallyOK
    <3> QED BY <1>a, <3>1, <3>2 DEF Store, Moved
  <2> QED BY <2>1, <2>2
<1>3. StoredIsAdmitted'
  <2> SUFFICES ASSUME NEW x \in Proof, wallet'[x] # "absent"
               PROVE  \E k \in Range(Contents) : x \in k /\ admissions'[k] > 0
    BY <1>0 DEF StoredIsAdmitted
  <2>0. Range(Contents) \subseteq Keys
    BY CashuAssumption DEF TypeOK, SharedOK, Contents
  <2>1. CASE wallet[x] # "absent"
    <3>1. PICK k \in Range(Contents) : x \in k /\ admissions[k] > 0
      BY <2>1 DEF P2pkInv, StoredIsAdmitted
    <3>2. admissions'[k] > 0
      <4>1. admissions \in [Keys -> Nat] /\ k \in Keys
        BY <2>0 DEF TypeOK, TallyOK
      <4>2. CASE UNCHANGED admissions
        BY <3>1, <4>2
      <4>3. ASSUME NEW w \in Worker, Store(w) PROVE admissions'[k] > 0
        BY <3>1, <4>1, <4>3 DEF Store, Admit
      <4> QED BY <4>2, <4>3, FundsMove
    <3> QED BY <3>1, <3>2
  <2>2. CASE wallet[x] = "absent"
    <3>1. PICK w \in Worker : Store(w) /\ x \in Key(w)
      BY <2>2, WalletMoves
    <3>2. admissions'[Key(w)] > 0
      <4>1. admissions \in [Keys -> Nat] /\ Key(w) \in Keys /\ Admit(w)
        BY <1>a, <3>1 DEF Store, TypeOK, TallyOK
      <4> QED BY <4>1 DEF Admit
    <3> QED BY <1>a, <3>1, <3>2
  <2> QED BY <2>1, <2>2
<1>4. SpentIsSpent'
  <2> SUFFICES ASSUME NEW x \in Proof, wallet'[x] = "spent" PROVE mint'[x] = "spent"
    BY DEF SpentIsSpent
  <2> QED BY WalletMoves, MintMoves DEF P2pkInv, SpentIsSpent
<1>5. ClaimIsUnspent'
  <2> SUFFICES ASSUME NEW v \in Worker, Claiming(v)', NEW x \in Key(v)', wallet'[x] = "absent"
               PROVE  mint'[x] = "unspent"
    BY DEF ClaimIsUnspent
  <2>1. /\ Key(v)' = Key(v) /\ Key(v) \subseteq Proof
        /\ \/ Claiming(v)
           \/ UnspentAtMint(Key(v)) /\ UNCHANGED <<mint, wallet>>
    BY <1>b, ClaimOrigin, KeyIsKey
  <2>2. CASE Claiming(v)
    <3>1. wallet[x] = "absent"
      BY <2>1, WalletMoves DEF TypeOK, FundsOK
    <3>2. mint[x] = "unspent" /\ Kind[x].lock = "ours"
      BY <2>1, <2>2, <3>1, VerifiedIsOurs DEF P2pkInv, ClaimIsUnspent, ClaimIsVerified
    <3> QED BY <2>1, <3>1, <3>2, MintMoves DEF TheirsToSpend
  <2>3. CASE UnspentAtMint(Key(v)) /\ UNCHANGED <<mint, wallet>>
    BY <2>1, <2>3 DEF UnspentAtMint
  <2> QED BY <2>1, <2>2, <2>3
<1> QED BY <1>1, <1>2, <1>3, <1>4, <1>5

\* A step leaves every known proof set explained: a claim by the request that
\* took it, a release by what it forgets, a crash by what is then lost.
LEMMA KnownKept ==
    ASSUME TypeOK, P2pk, P2pkInv, [Next]_vars
    PROVE  KnownIsExplained'
<1>0. UNCHANGED <<deployment, P2pk, HasRedis, Contents>>
  BY DeploymentIsFixed DEF P2pk, HasRedis, Contents
<1>a. KnownIsExplained
  BY DEF P2pkInv
<1>b. \A k \in Keys : admissions[k] > 0 => admissions'[k] > 0
  <2>1. admissions \in [Keys -> Nat]
    BY DEF TypeOK, TallyOK
  <2>2. ASSUME NEW w \in Worker, Store(w)
        PROVE  \A k \in Keys : admissions[k] > 0 => admissions'[k] > 0
    BY <2>1, <2>2 DEF Store, Admit
  <2> QED BY <2>2, FundsMove
<1>s. ASSUME NEW v \in Worker, NEW k, v \in Storing(k), request'[v] = request[v]
      PROVE  v \in Storing(k)'
  BY <1>0, <1>s DEF Storing, At, Key
\* A step that claims nothing and ends no request that holds a claim.
<1>q. ASSUME used' \subseteq used, UNCHANGED cache, lost \subseteq lost',
             \A v \in Worker : At(v, "store") => request'[v] = request[v]
      PROVE  KnownIsExplained'
  <2>1. \A v \in Worker, k \in Keys : v \in Storing(k) => v \in Storing(k)'
    BY <1>q, <1>s DEF Storing
  <2>2. \A k \in Keys : Storing(k) # {} => Storing(k)' # {}
    BY <2>1 DEF Storing
  <2> QED BY <1>0, <1>a, <1>b, <1>q, <2>1, <2>2 DEF KnownIsExplained
<1>c. ASSUME NEW w \in Worker, Answer(w) \/ \E s \in Steps : Goto(w, s)
      PROVE  \A v \in Worker \ {w} : request'[v] = request[v]
  BY <1>c, AnswerIdles, GotoMoves
<1>1. ASSUME NEW w \in Worker, NEW t \in Token, Present(w, t) PROVE KnownIsExplained'
  <2>1. \A v \in Worker : At(v, "store") => request'[v] = request[v]
    BY <1>1 DEF Present, At, TypeOK, RequestsOK
  <2> QED BY <1>1, <1>q, <2>1 DEF Present, tally
<1>2. ASSUME NEW w \in Worker, \/ CheckToken(w) \/ GiveUp(w) \/ CheckKey(w) \/ CheckState(w)
                               \/ ClaimUnavailable(w)
      PROVE  KnownIsExplained'
  <2>1. UNCHANGED <<used, cache, lost>> /\ ~At(w, "store")
    BY <1>2 DEF CheckToken, GiveUp, CheckKey, CheckState, ClaimUnavailable, At, tally
  <2>2. Answer(w) \/ \E s \in Steps : Goto(w, s)
    BY <1>2 DEF CheckToken, GiveUp, CheckKey, CheckState, ClaimUnavailable, Steps
  <2> QED BY <1>c, <1>q, <2>1, <2>2
<1>3. ASSUME NEW w \in Worker, StandardStep(w) PROVE FALSE
  BY <1>3 DEF StandardStep, Receive, ReceiveReplyLost, ClaimReceived, ClaimFailsOpen,
     TypeOK, RequestsOK
<1>4. ASSUME NEW w \in Worker, ClaimProofs(w) \/ ClaimReplyLost(w) PROVE KnownIsExplained'
  <2>0. PICK K \in Keys : K = Key(w)
    <3>1. ~At(w, "idle")
      BY <1>4 DEF ClaimProofs, ClaimReplyLost, At
    <3> QED BY <3>1, KeyIsKey
  <2>1. /\ At(w, "claim") /\ ~At(w, "store") /\ ~At(w, "idle")
        /\ UNCHANGED cache /\ used' = used \cup {K} /\ lost \subseteq lost'
        /\ Answer(w) \/ Goto(w, "store")
    BY <1>4, <2>0 DEF ClaimProofs, ClaimReplyLost, At, Lose, tally
  <2>2. \A v \in Worker, k \in Keys : v \in Storing(k) => v \in Storing(k)'
    BY <1>c, <1>s, <2>1 DEF Storing, Steps
  <2>3. K \in used \/ K \in lost' \/ w \in Storing(K)'
    <3>1. CASE Goto(w, "store")
      <4>1. At(w, "store")' /\ Key(w)' = K
        BY <1>0, <2>0, <3>1, GotoMoves DEF At, Key, Steps
      <4> QED BY <4>1 DEF Storing
    <3>2. CASE ~Goto(w, "store")
      BY <1>4, <2>0, <3>2 DEF ClaimProofs, ClaimReplyLost, Lose
    <3> QED BY <3>1, <3>2
  <2>4. \A k \in Keys : Storing(k) # {} => Storing(k)' # {}
    BY <2>2 DEF Storing
  <2>5. ASSUME NEW k \in Keys, k \in used'
        PROVE  admissions'[k] > 0 \/ k \in lost' \/ Storing(k)' # {}
    <3>1. CASE k \in used
      BY <1>a, <1>b, <2>1, <2>4, <3>1 DEF KnownIsExplained
    <3>2. CASE k \notin used
      <4>1. k = K
        BY <2>1, <2>5, <3>2
      <4> QED BY <2>3, <3>2, <4>1
    <3> QED BY <3>1, <3>2
  <2> QED BY <1>0, <1>a, <1>b, <2>1, <2>2, <2>5 DEF KnownIsExplained
<1>5. ASSUME NEW w \in Worker, ClaimInWorker(w) PROVE KnownIsExplained'
  <2>0. PICK K \in Keys : K = Key(w)
    <3>1. ~At(w, "idle")
      BY <1>5 DEF ClaimInWorker, At
    <3> QED BY <3>1, KeyIsKey
  <2>1. /\ At(w, "claim") /\ ~At(w, "store") /\ ~At(w, "idle") /\ ~HasRedis
        /\ UNCHANGED <<used, lost>>
        /\ cache' = [cache EXCEPT ![w] = AfterClaim(@, K)]
        /\ IF Holds(cache[w], K) THEN Answer(w) ELSE Goto(w, "store")
    BY <1>5, <2>0 DEF ClaimInWorker, At, tally
  <2>2. \A v \in Worker, k \in Keys : v \in Storing(k) => v \in Storing(k)'
    BY <1>c, <1>s, <2>1 DEF Storing, Steps
  <2>3. Holds(cache[w], K) \/ w \in Storing(K)'
    <3>1. CASE Goto(w, "store")
      <4>1. At(w, "store")' /\ Key(w)' = K
        BY <1>0, <2>0, <3>1, GotoMoves DEF At, Key, Steps
      <4> QED BY <4>1 DEF Storing
    <3> QED BY <2>1, <3>1
  <2>4. \A k \in Keys : Storing(k) # {} => Storing(k)' # {}
    BY <2>2 DEF Storing
  <2>5. ASSUME NEW k \in Keys, NEW v \in Worker, Holds(cache'[v], k)
        PROVE  Holds(cache[v], k) \/ v \in Storing(k)'
    <3>1. CASE v = w
      <4>1. cache'[w] = AfterClaim(cache[w], K)
        BY <2>1 DEF TypeOK, CachesOK
      <4>2. k = K \/ Holds(cache[w], k)
        BY <2>5, <3>1, <4>1, ClaimHoldsNoOther
      <4> QED BY <2>3, <3>1, <4>2
    <3>2. CASE v # w
      BY <2>1, <2>5, <3>2 DEF TypeOK, CachesOK
    <3> QED BY <3>1, <3>2
  <2> QED BY <1>0, <1>a, <1>b, <2>1, <2>2, <2>4, <2>5 DEF KnownIsExplained
<1>6. ASSUME NEW w \in Worker, Store(w) PROVE KnownIsExplained'
  <2> DEFINE K == Key(w)
             t == request[w].token
  <2>1. /\ At(w, "store") /\ ~At(w, "idle") /\ Answer(w)
        /\ UNCHANGED <<used, lost>>
        /\ cache' = [cache EXCEPT ![w] = AfterClaim(AfterClaim(@, K), t)]
    BY <1>6 DEF Store, At
  <2>2. /\ K \in Keys /\ \A k \in Keys : k # t
    BY <2>1, KeyIsKey, CashuAssumption
  <2>3. admissions'[K] > 0
    <3>1. admissions \in [Keys -> Nat] /\ Admit(w)
      BY <1>6 DEF Store, TypeOK, TallyOK
    <3> QED BY <2>2, <3>1 DEF Admit
  <2>4. \A v \in Worker, k \in Keys : v \in Storing(k) => k = K \/ v \in Storing(k)'
    BY <1>c, <1>s, <2>1 DEF Storing
  <2>5. \A k \in Keys : Storing(k) # {} => k = K \/ Storing(k)' # {}
    BY <2>4 DEF Storing
  <2>6. ASSUME NEW k \in Keys, NEW v \in Worker, Holds(cache'[v], k)
        PROVE  Holds(cache[v], k) \/ k = K
    <3>1. CASE v = w
      <4>1. cache'[w] = AfterClaim(AfterClaim(cache[w], K), t)
        BY <2>1 DEF TypeOK, CachesOK
      <4>2. Holds(AfterClaim(cache[w], K), k)
        BY <2>2, <2>6, <3>1, <4>1, ClaimHoldsNoOther
      <4> QED BY <3>1, <4>2, ClaimHoldsNoOther
    <3>2. CASE v # w
      BY <2>1, <2>6, <3>2 DEF TypeOK, CachesOK
    <3> QED BY <3>1, <3>2
  <2> QED BY <1>0, <1>a, <1>b, <2>1, <2>3, <2>4, <2>5, <2>6 DEF KnownIsExplained
<1>7. ASSUME NEW w \in Worker, StoreFails(w) PROVE KnownIsExplained'
  <2> DEFINE K == Key(w)
  <2>1. /\ At(w, "store") /\ ~At(w, "idle") /\ Answer(w) /\ lost \subseteq lost'
        /\ used' \subseteq used
    BY <1>7 DEF StoreFails, At, Lose
  <2>2. K \in Keys /\ w \in Storing(K) /\ \A k \in Keys : w \in Storing(k) => k = K
    BY <2>1, KeyIsKey DEF Storing
  <2>3. \A v \in Worker, k \in Keys : v \in Storing(k) => v = w \/ v \in Storing(k)'
    BY <1>c, <1>s, <2>1
  <2>4. \A k \in Keys : Storing(k) # {} => k = K \/ Storing(k)' # {}
    BY <2>2, <2>3 DEF Storing
  <2>5. CASE HasRedis
    <3>1. UNCHANGED cache /\ (K \notin used' \/ K \in lost')
      BY <1>7, <2>5 DEF StoreFails, Lose
    <3> QED BY <1>0, <1>a, <1>b, <2>1, <2>4, <2>5, <3>1 DEF KnownIsExplained
  <2>6. CASE ~HasRedis
    <3>1. used' = {} /\ cache' = [cache EXCEPT ![w] = AfterRelease(@, K)]
      BY <1>7, <2>6 DEF StoreFails, TypeOK, SharedOK
    <3>2. cache[w] \in CacheOf(Names) /\ Consistent(cache[w]) /\ K \in Names
      BY <2>1, KeyIsKey DEF TypeOK, CachesOK
    <3>3. cache'[w].seen = cache[w].seen \ {K}
      BY <3>1, <3>2, ReleaseKeeps DEF TypeOK, CachesOK
    <3>4. \A v \in Worker : v # w => cache'[v] = cache[v]
      BY <3>1 DEF TypeOK, CachesOK
    <3>5. \A v \in Worker, k \in Keys :
             Holds(cache'[v], k) => Holds(cache[v], k) /\ (v = w => k # K)
      BY <3>3, <3>4 DEF Holds
    <3> QED BY <1>0, <1>a, <1>b, <2>1, <2>2, <2>3, <2>6, <3>1, <3>5 DEF KnownIsExplained
  <2> QED BY <2>5, <2>6
<1>8. ASSUME NEW w \in Worker, Restart(w) PROVE KnownIsExplained'
  <2>1. UNCHANGED used /\ Answer(w) /\ lost \subseteq lost'
    BY <1>8 DEF Restart, Lose
  <2>2. \A k \in Keys : w \in Storing(k) => k \in lost'
    BY <1>8 DEF Restart, Lose, Storing
  <2>3. \A v \in Worker, k \in Keys : v \in Storing(k) => k \in lost' \/ v \in Storing(k)'
    BY <1>c, <1>s, <2>1, <2>2
  <2>4. \A k \in Keys : Storing(k) # {} => k \in lost' \/ Storing(k)' # {}
    BY <2>3 DEF Storing
  <2>5. \A v \in Worker, k \in Keys : Holds(cache'[v], k) => Holds(cache[v], k)
    BY <1>8 DEF Restart, Holds, WithCapacity, TypeOK, CachesOK
  <2> QED BY <1>0, <1>a, <1>b, <2>1, <2>3, <2>4, <2>5 DEF KnownIsExplained
<1>9. CASE \/ \E x \in Proof :
                 SpendElsewhere(x) \/ MeltReserve(x) \/ MeltAtMint(x) \/ MeltRecord(x)
           \/ \E n \in Names : Expire(n)
           \/ RedisFails \/ RedisRecovers \/ UNCHANGED vars
  <2>1. UNCHANGED <<request, cache, lost>> /\ used' \subseteq used
    BY <1>9 DEF SpendElsewhere, MeltReserve, MeltAtMint, MeltRecord, Expire, RedisFails,
       RedisRecovers, vars, tally
  <2> QED BY <1>q, <2>1
<1> QED BY <1>1, <1>2, <1>3, <1>4, <1>5, <1>6, <1>7, <1>8, <1>9
        DEF Next, HandlerStep, P2pkStep

----------------------------------------------------------------------------
\* Numbers behind Covered, and what they leave room for.
LEMMA CountsAreNumbers ==
    ASSUME TypeOK, NEW k \in Keys
    PROVE  /\ IsFiniteSet(Storing(k)) /\ Cardinality(Storing(k)) \in Nat
           /\ admissions[k] \in Nat /\ lapses[k] \in Nat /\ Marker(k) \in {0, 1}
<1>1. Storing(k) \in SUBSET Worker
  BY DEF Storing
<1>2. IsFiniteSet(Storing(k))
  BY <1>1, FS_Subset, CashuAssumption
<1> QED BY <1>2, FS_CardinalityType DEF TypeOK, TallyOK, Marker

\* What Covered bounds: one admission more than lapses, and none while a claim that never lapsed is held.
LEMMA CoveredBounds ==
    ASSUME TypeOK, NEW k \in Keys, Covered(k)
    PROVE  /\ admissions[k] <= 1 + lapses[k]
           /\ Storing(k) # {} /\ lapses[k] = 0 => admissions[k] = 0
<1>1. Storing(k) # {} => Cardinality(Storing(k)) # 0
  BY CountsAreNumbers, FS_EmptySet
<1> QED BY <1>1, CountsAreNumbers DEF Covered

\* Requests that move no proof set into storing leave no more of them there.
LEMMA StoringShrinks ==
    ASSUME [Next]_vars,
           \A v \in Worker : request'[v] = request[v] \/ request'[v].step # "store"
    PROVE  \A k : Storing(k)' \subseteq Storing(k)
BY DeploymentIsFixed DEF Storing, At, Key, Contents

\* The requests that hold a claim, with the admissions, stay within the marker
\* and its lapses.
LEMMA CoveredKept ==
    ASSUME TypeOK, TypeOK', P2pk, HasRedis, P2pkInv, [Next]_vars,
           NEW k \in Range(Contents), Covered(k), ~Retired(k)'
    PROVE  Covered(k)' /\ admissions'[k] <= 1 + lapses'[k]
<1>0. UNCHANGED <<deployment, P2pk, HasRedis, Contents>> /\ k \in Keys /\ k \notin Token
  BY DeploymentIsFixed, CashuAssumption DEF P2pk, HasRedis, Contents, TypeOK, SharedOK
<1>n. /\ IsFiniteSet(Storing(k)) /\ Cardinality(Storing(k)) \in Nat
      /\ admissions[k] \in Nat /\ lapses[k] \in Nat /\ Marker(k) \in {0, 1}
      /\ IsFiniteSet(Storing(k)') /\ Cardinality(Storing(k)') \in Nat
      /\ admissions'[k] \in Nat /\ lapses'[k] \in Nat /\ Marker(k)' \in {0, 1}
  <2>1. Storing(k)' \in SUBSET Worker
    BY DEF Storing
  <2>2. IsFiniteSet(Storing(k)')
    BY <2>1, FS_Subset, CashuAssumption
  <2>3. admissions'[k] \in Nat /\ lapses'[k] \in Nat /\ Marker(k)' \in {0, 1}
    BY <1>0 DEF TypeOK, TallyOK, Marker
  <2> QED BY <1>0, <2>2, <2>3, CountsAreNumbers, FS_CardinalityType
<1>c. ASSUME NEW w \in Worker, Answer(w) \/ \E s \in Steps : Goto(w, s)
      PROVE  \A v \in Worker \ {w} : request'[v] = request[v]
  BY <1>c, AnswerIdles, GotoMoves
\* A step that keeps the counts of k and its marker, and lets nobody start storing it.
<1>q. ASSUME Storing(k)' \subseteq Storing(k), admissions'[k] = admissions[k],
             lapses'[k] = lapses[k], k \in used => k \in used'
      PROVE  Covered(k)'
  <2>1. Cardinality(Storing(k)') <= Cardinality(Storing(k))
    BY <1>n, <1>q, FS_Subset
  <2>2. Marker(k) <= Marker(k)'
    BY <1>q DEF Marker
  <2>3. admissions[k] + Cardinality(Storing(k)) <= lapses[k] + Marker(k)
    BY DEF Covered
  <2>4. admissions'[k] + Cardinality(Storing(k)') <= lapses'[k] + Marker(k)'
    BY <1>n, <1>q, <2>1, <2>2, <2>3
  <2> QED BY <2>4 DEF Covered
<1>d. ASSUME NEW w \in Worker, Answer(w) PROVE Storing(k)' \subseteq Storing(k) \ {w}
  <2>1. request'[w].step # "store" /\ \A v \in Worker \ {w} : request'[v] = request[v]
    BY <1>d, AnswerIdles DEF Idle
  <2>2. w \notin Storing(k)'
    BY <2>1 DEF Storing, At
  <2> QED BY <2>1, <2>2, StoringShrinks
<1>1. ASSUME NEW w \in Worker, NEW t \in Token, Present(w, t) PROVE Covered(k)'
  <2>1. \A v \in Worker : request'[v] = request[v] \/ request'[v].step # "store"
    BY <1>1 DEF Present, TypeOK, RequestsOK
  <2> QED BY <1>1, <1>q, <2>1, StoringShrinks DEF Present, tally
<1>2. ASSUME NEW w \in Worker, \/ CheckToken(w) \/ GiveUp(w) \/ CheckKey(w) \/ CheckState(w)
                               \/ ClaimUnavailable(w)
      PROVE  Covered(k)'
  <2>1. UNCHANGED <<used, admissions, lapses>>
    BY <1>2 DEF CheckToken, GiveUp, CheckKey, CheckState, ClaimUnavailable, tally
  <2>2. Answer(w) \/ \E s \in Steps \ {"store"} : Goto(w, s)
    BY <1>2 DEF CheckToken, GiveUp, CheckKey, CheckState, ClaimUnavailable, Steps
  <2>3. \A v \in Worker : request'[v] = request[v] \/ request'[v].step # "store"
    BY <2>2, AnswerIdles, GotoMoves DEF Idle
  <2> QED BY <1>q, <2>1, <2>3, StoringShrinks
<1>3. ASSUME NEW w \in Worker, StandardStep(w) \/ ClaimInWorker(w) PROVE FALSE
  BY <1>3 DEF StandardStep, Receive, ReceiveReplyLost, ClaimReceived, ClaimFailsOpen,
     ClaimInWorker, TypeOK, RequestsOK
<1>4. ASSUME NEW w \in Worker, ClaimProofs(w) PROVE Covered(k)'
  <2>1. /\ UNCHANGED <<admissions, lapses>> /\ used' = used \cup {Key(w)}
        /\ At(w, "claim") /\ ~At(w, "idle")
        /\ IF Key(w) \in used THEN Answer(w) ELSE Goto(w, "store")
    BY <1>4 DEF ClaimProofs, At, tally
  <2>2. CASE Answer(w)
    BY <1>d, <1>q, <2>1, <2>2
  <2>3. CASE Goto(w, "store") /\ Key(w) \notin used
    <3>1. /\ \A v \in Worker \ {w} : request'[v] = request[v]
          /\ Key(w)' = Key(w)
      BY <1>0, <2>3, GotoMoves DEF Key, Steps
    <3>2. Storing(k)' \subseteq Storing(k) \cup {w} /\ (w \in Storing(k)' => k = Key(w))
      BY <1>0, <3>1 DEF Storing, At, Key
    <3>3. CASE k = Key(w)
      <4>1. Marker(k) = 0 /\ Marker(k)' = 1
        BY <2>1, <2>3, <3>3 DEF Marker
      <4>2. Cardinality(Storing(k)') <= Cardinality(Storing(k)) + 1
        <5>1. /\ IsFiniteSet(Storing(k) \cup {w})
              /\ Cardinality(Storing(k) \cup {w})
                    = IF w \in Storing(k) THEN Cardinality(Storing(k))
                      ELSE Cardinality(Storing(k)) + 1
          BY <1>n, FS_AddElement
        <5>2. Cardinality(Storing(k)') <= Cardinality(Storing(k) \cup {w})
          BY <3>2, <5>1, FS_Subset
        <5> QED BY <1>n, <5>1, <5>2
      <4>3. admissions[k] + Cardinality(Storing(k)) <= lapses[k] + Marker(k)
        BY DEF Covered
      <4>4. admissions'[k] + Cardinality(Storing(k)') <= lapses'[k] + Marker(k)'
        BY <1>n, <2>1, <4>1, <4>2, <4>3
      <4> QED BY <4>4 DEF Covered
    <3>4. CASE k # Key(w)
      <4>1. Storing(k)' \subseteq Storing(k)
        BY <3>2, <3>4
      <4> QED BY <1>q, <2>1, <4>1
    <3> QED BY <3>3, <3>4
  <2> QED BY <2>1, <2>2, <2>3
<1>5. ASSUME NEW w \in Worker, ClaimReplyLost(w) \/ Restart(w) PROVE Covered(k)'
  <2>1. UNCHANGED <<admissions, lapses>> /\ used \subseteq used' /\ Answer(w)
    BY <1>5 DEF ClaimReplyLost, Restart
  <2> QED BY <1>d, <1>q, <2>1
<1>6. ASSUME NEW w \in Worker, Store(w) \/ StoreFails(w) PROVE Covered(k)'
  <2>1. Answer(w) /\ UNCHANGED lapses /\ At(w, "store") /\ ~At(w, "idle")
    BY <1>6 DEF Store, StoreFails, At
  <2>2. Storing(k)' \subseteq Storing(k) \ {w}
    BY <1>d, <2>1
  <2>3. CASE k # Key(w)
    <3>1. admissions'[k] = admissions[k] /\ (k \in used => k \in used')
      BY <1>0, <1>6, <2>3 DEF Store, StoreFails, Admit, TypeOK, TallyOK
    <3> QED BY <1>q, <2>1, <2>2, <3>1
  <2>4. CASE k = Key(w)
    <3>1. w \in Storing(k)
      BY <2>1, <2>4 DEF Storing
    <3>2. Cardinality(Storing(k)') <= Cardinality(Storing(k)) - 1
      <4>1. /\ IsFiniteSet(Storing(k) \ {w})
            /\ Cardinality(Storing(k) \ {w}) = Cardinality(Storing(k)) - 1
        BY <1>n, <3>1, FS_RemoveElement
      <4>2. Cardinality(Storing(k)') <= Cardinality(Storing(k) \ {w})
        BY <2>2, <4>1, FS_Subset
      <4> QED BY <4>1, <4>2
    <3>3. \/ admissions'[k] = admissions[k] + 1 /\ UNCHANGED used
          \/ admissions'[k] = admissions[k]
      BY <1>0, <1>6, <2>4 DEF Store, StoreFails, Admit, TypeOK, TallyOK
    <3>4. Marker(k)' >= Marker(k) - 1 /\ (UNCHANGED used => Marker(k)' = Marker(k))
      BY DEF Marker
    <3>5. admissions[k] + Cardinality(Storing(k)) <= lapses[k] + Marker(k)
      BY DEF Covered
    <3>6. admissions'[k] + Cardinality(Storing(k)') <= lapses'[k] + Marker(k)'
      BY <1>n, <2>1, <3>2, <3>3, <3>4, <3>5
    <3> QED BY <3>6 DEF Covered
  <2> QED BY <2>3, <2>4
<1>7. ASSUME NEW n \in Names, Expire(n) PROVE Covered(k)'
  <2>1. UNCHANGED <<request, wallet, mint, admissions>> /\ n \in used /\ used' = used \ {n}
    BY <1>7 DEF Expire, funds
  <2>2. Storing(k)' = Storing(k)
    BY <1>0, <2>1 DEF Storing, At, Key
  <2>3. CASE n # k
    <3>1. lapses'[k] = lapses[k]
      BY <1>0, <1>7, <2>3 DEF Expire, TypeOK, TallyOK
    <3> QED BY <1>q, <2>1, <2>2, <2>3, <3>1
  <2>4. CASE n = k /\ Needed(k)
    <3>1. lapses'[k] = lapses[k] + 1
      BY <1>0, <1>7, <2>4 DEF Expire, TypeOK, TallyOK
    <3>2. Marker(k) = 1 /\ Marker(k)' = 0
      BY <2>1, <2>4 DEF Marker
    <3>3. admissions[k] + Cardinality(Storing(k)) <= lapses[k] + Marker(k)
      BY DEF Covered
    <3>4. admissions'[k] + Cardinality(Storing(k)') <= lapses'[k] + Marker(k)'
      BY <1>n, <2>1, <2>2, <3>1, <3>2, <3>3
    <3> QED BY <3>4 DEF Covered
\* Nobody needs the marker: what was admitted is redeemed, and k is retired.
  <2>5. CASE n = k /\ ~Needed(k)
    <3>1. /\ \A x \in k : wallet[x] \in {"absent", "spent"}
          /\ \A w \in Worker : Claiming(w) => Key(w) # k
      BY <2>5 DEF Needed, Claiming
    <3>2. Storing(k) = {}
      BY <3>1 DEF Storing, Claiming
    <3>3. admissions[k] = 0
      <4>1. SUFFICES ASSUME admissions[k] > 0 PROVE FALSE
        BY <1>n
      <4>2. \A x \in k : wallet[x] = "spent" /\ x \in Proof
        BY <1>0, <3>1, <4>1 DEF P2pkInv, AdmittedIsStored, Keys
      <4>3. \A x \in k : mint[x] = "spent" /\ wallet[x] = "spent"
        BY <4>2 DEF P2pkInv, SpentIsSpent
      <4>4. Retired(k)'
        BY <1>0, <2>1, <3>1, <4>3 DEF Retired, Claiming, At, Key
      <4> QED BY <4>4
    <3>4. lapses'[k] = lapses[k]
      BY <1>7, <2>5 DEF Expire
    <3>5. Cardinality(Storing(k)') = 0
      BY <2>2, <3>2, FS_EmptySet
    <3>6. admissions'[k] + Cardinality(Storing(k)') <= lapses'[k] + Marker(k)'
      BY <1>n, <2>1, <3>3, <3>5
    <3> QED BY <3>6 DEF Covered
  <2> QED BY <2>3, <2>4, <2>5
<1>8. ASSUME \/ \E x \in Proof :
                   SpendElsewhere(x) \/ MeltReserve(x) \/ MeltAtMint(x) \/ MeltRecord(x)
             \/ RedisFails \/ RedisRecovers \/ UNCHANGED vars
      PROVE  Covered(k)'
  <2>1. UNCHANGED <<request, used, admissions, lapses>>
    BY <1>8 DEF SpendElsewhere, MeltReserve, MeltAtMint, MeltRecord, RedisFails,
       RedisRecovers, vars, tally
  <2> QED BY <1>q, <2>1, StoringShrinks
<1>9. Covered(k)'
  BY <1>1, <1>2, <1>3, <1>4, <1>5, <1>6, <1>7, <1>8 DEF Next, HandlerStep, P2pkStep
<1> QED BY <1>n, <1>9 DEF Covered

\* A retired set stays retired: the mint has spent its proofs, so no check lets
\* another request claim it.
LEMMA RetiredKept ==
    ASSUME TypeOK, P2pk, DistinctSets, P2pkInv, [Next]_vars,
           NEW k \in Range(Contents), Retired(k)
    PROVE  Retired(k)'
<1>1. k \in Keys /\ k # {} /\ k \subseteq Proof
  BY CashuAssumption DEF TypeOK, SharedOK, Contents, Keys
<1>2. \A w \in Worker : Store(w) => Claiming(w) /\ Key(w) # k /\ Key(w) \in Range(Contents)
  BY KeyIsKey DEF Store, Claiming, Retired, At
<1>3. \A x \in k : mint'[x] = "spent" /\ wallet'[x] = "spent"
  <2> TAKE x \in k
  <2>1. x \in Proof /\ mint[x] = "spent" /\ wallet[x] = "spent"
    BY <1>1 DEF Retired
  <2>2. \A w \in Worker : Store(w) => x \notin Key(w)
    BY <1>2 DEF DistinctSets
  <2> QED BY <2>1, <2>2, WalletMoves, MintMoves
<1>4. ASSUME NEW w \in Worker, Claiming(w)', Key(w)' = k PROVE FALSE
  <2>1. Key(w) = k /\ (Claiming(w) \/ UnspentAtMint(k))
    BY <1>4, ClaimOrigin
  <2> QED BY <1>1, <2>1 DEF Retired, UnspentAtMint
<1> QED BY <1>3, <1>4 DEF Retired

\* The count of admissions against markers and lapses survives every step.
LEMMA CountedKept ==
    ASSUME TypeOK, TypeOK', P2pk, Shared, P2pkInv, Counted, [Next]_vars
    PROVE  Counted'
<1>0. UNCHANGED Contents /\ Range(Contents) \subseteq Keys /\ HasRedis /\ DistinctSets
  BY DeploymentIsFixed, CashuAssumption DEF Contents, TypeOK, SharedOK, Shared
<1> SUFFICES ASSUME NEW k \in Range(Contents)
             PROVE  admissions'[k] <= 1 + lapses'[k] /\ (Retired(k)' \/ Covered(k)')
  BY <1>0 DEF Counted
<1>1. admissions[k] <= 1 + lapses[k] /\ (Retired(k) \/ Covered(k)) /\ k \in Keys
  BY <1>0 DEF Counted
<1>2. CASE ~Retired(k)'
  BY <1>0, <1>1, <1>2, RetiredKept, CoveredKept
<1>3. CASE Retired(k)'
  <2>1. lapses'[k] >= lapses[k] /\ lapses[k] \in Nat /\ lapses'[k] \in Nat
    <3>1. lapses \in [Keys -> Nat] /\ lapses' \in [Keys -> Nat]
      BY DEF TypeOK, TallyOK
    <3>2. UNCHANGED lapses \/ \E n \in Names : lapses' = [lapses EXCEPT ![n] = @ + 1]
      BY DEF Next, HandlerStep, StandardStep, P2pkStep, vars, tally, Present, CheckToken,
         GiveUp, Receive, ReceiveReplyLost, ClaimReceived, ClaimFailsOpen, CheckKey,
         CheckState, ClaimProofs, ClaimReplyLost, ClaimUnavailable, ClaimInWorker, Store,
         StoreFails, Restart, SpendElsewhere, MeltReserve, MeltAtMint, MeltRecord, Expire,
         RedisFails, RedisRecovers
    <3> QED BY <1>1, <3>1, <3>2
  <2>2. admissions'[k] = admissions[k] /\ admissions[k] \in Nat
    <3>1. admissions \in [Keys -> Nat]
      BY DEF TypeOK, TallyOK
    <3>2. ASSUME NEW w \in Worker, Store(w) PROVE Key(w) # k
      <4>1. SUFFICES ASSUME Key(w) = k PROVE FALSE
        OBVIOUS
      <4>2. \A x \in k : x \in Proof => wallet'[x] = "unspent"
        BY <3>2, <4>1 DEF Store, Moved
      <4>3. \E x \in k : x \in Proof
        BY <1>1 DEF Keys
      <4> QED BY <1>3, <4>2, <4>3 DEF Retired
    <3>3. ASSUME NEW w \in Worker, Store(w) PROVE admissions'[k] = admissions[k]
      BY <1>1, <3>1, <3>2, <3>3 DEF Store, Admit
    <3> QED BY <1>1, <3>1, <3>3, FundsMove
  <2> QED BY <1>1, <1>3, <2>1, <2>2
<1> QED BY <1>2, <1>3

\* Where markers last, nobody admits a set twice, so what enters the wallet was
\* never there and is what the mint was asked about.
LEMMA SoundKept ==
    ASSUME TypeOK, P2pk, Guarded, P2pkInv, Counted, Sound, [Next]_vars
    PROVE  Sound'
<1>0. Lasting /\ HasRedis /\ DistinctSets
  BY DEF Guarded, Shared
<1>1. UNCHANGED lapses
  <2>1. \A n \in Names : Expire(n) => UNCHANGED lapses
    BY <1>0 DEF Expire
  <2> QED BY <2>1 DEF Next, HandlerStep, StandardStep, P2pkStep, vars, tally, Present,
     CheckToken, GiveUp, Receive, ReceiveReplyLost, ClaimReceived, ClaimFailsOpen, CheckKey,
     CheckState, ClaimProofs, ClaimReplyLost, ClaimUnavailable, ClaimInWorker, Store,
     StoreFails, Restart, SpendElsewhere, MeltReserve, MeltAtMint, MeltRecord,
     RedisFails, RedisRecovers
<1>2. ASSUME NEW x \in Proof, wallet'[x] = "unspent" PROVE mint'[x] = "unspent"
  <2>1. CASE wallet'[x] = wallet[x]
    <3>1. mint[x] = "unspent" /\ wallet[x] # "absent" /\ wallet[x] # "pending"
      BY <1>2, <2>1 DEF Sound
    <3>2. PICK k \in Range(Contents) : x \in k /\ admissions[k] > 0
      BY <3>1 DEF P2pkInv, StoredIsAdmitted
    <3>3. Verified(k)
      <4>1. k \in Keys
        BY CashuAssumption DEF TypeOK, SharedOK, Contents
      <4> QED BY <3>2, <4>1 DEF P2pkInv, AdmittedIsStored
    <3>4. Kind[x].lock = "ours"
      BY <3>2, <3>3, VerifiedIsOurs
    <3> QED BY <3>1, <3>4, MintMoves DEF TheirsToSpend
  <2>2. ASSUME NEW w \in Worker, Store(w), x \in Key(w) PROVE mint'[x] = "unspent"
    <3>1. /\ At(w, "store") /\ ~At(w, "idle") /\ Claiming(w)
          /\ Key(w) \in Range(Contents) /\ Key(w) \in Keys
      BY <2>2, KeyIsKey DEF Store, At, Claiming
    <3>2. Covered(Key(w)) /\ Storing(Key(w)) # {} /\ lapses[Key(w)] = 0
      BY <3>1 DEF Counted, Retired, Storing, Sound
    <3>3. admissions[Key(w)] = 0
      BY <3>1, <3>2, CoveredBounds
    <3>4. wallet[x] = "absent"
      <4>1. SUFFICES ASSUME wallet[x] # "absent" PROVE FALSE
        OBVIOUS
      <4>2. PICK k \in Range(Contents) : x \in k /\ admissions[k] > 0
        BY <4>1 DEF P2pkInv, StoredIsAdmitted
      <4>3. k = Key(w)
        BY <1>0, <2>2, <3>1, <4>2 DEF DistinctSets
      <4> QED BY <3>3, <4>2, <4>3
    <3>5. mint[x] = "unspent"
      BY <2>2, <3>1, <3>4 DEF P2pkInv, ClaimIsUnspent
    <3> QED BY <2>2, <3>5 DEF Store
  <2> QED BY <1>2, <2>1, <2>2, WalletMoves
<1> QED BY <1>1, <1>2 DEF Sound

----------------------------------------------------------------------------
\* The invariant holds when nginx starts.
LEMMA IInvInit == Init => IInv
<1> SUFFICES ASSUME Init PROVE IInv
  OBVIOUS
<1>1. /\ \A w \in Worker : ~Claiming(w) /\ request[w] = Idle
      /\ \A k : \A w \in Worker : ~Holds(cache[w], k)
      /\ \A k \in Keys : admissions[k] = 0 /\ lapses[k] = 0
      /\ \A x \in Proof : wallet[x] = "absent" /\ mint[x] = "unspent"
      /\ used = {} /\ refused = {} /\ deployment \in Deployments
  BY DEF Init, Claiming, At, Idle, Holds, WithCapacity
<1>2. StandardInv
  BY <1>1 DEF StandardInv, SwapIsSole, AdmittedIsSwapped, Claiming
<1>3. P2pkInv
  BY <1>1 DEF P2pkInv, ClaimIsVerified, AdmittedIsStored, StoredIsAdmitted, SpentIsSpent,
     ClaimIsUnspent, KnownIsExplained
<1>4. Counted
  <2>1. Range(Contents) \subseteq Keys
    BY <1>1, CashuAssumption DEF Contents
  <2>2. \A k \in Keys : Storing(k) = {} /\ k \notin used
    BY <1>1 DEF Storing, Claiming
  <2>3. \A k \in Keys : Covered(k)
    BY <1>1, <2>2, FS_EmptySet DEF Covered, Marker
  <2> QED BY <1>1, <2>1, <2>3 DEF Counted
<1>5. Sound
  BY <1>1 DEF Sound
<1> QED BY <1>2, <1>3, <1>4, <1>5 DEF IInv

\* Every step keeps the invariant.
LEMMA IInvStep ==
    ASSUME TypeOK, TypeOK', IInv, [Next]_vars
    PROVE  IInv'
<1>1. UNCHANGED <<P2pk, Shared, Guarded>>
  BY DeploymentIsFixed DEF P2pk, Shared, Guarded, HasRedis, DistinctSets, Contents, Lasting
<1>2. P2pk => UNCHANGED refused
  <2>1. \A w \in Worker : P2pk => ~StandardStep(w)
    BY DEF StandardStep, Receive, ReceiveReplyLost, ClaimReceived, ClaimFailsOpen,
       TypeOK, RequestsOK
  <2> QED BY <2>1 DEF Next, HandlerStep, P2pkStep, vars, tally, Present,
     CheckToken, GiveUp, CheckKey, CheckState, ClaimProofs, ClaimReplyLost,
     ClaimUnavailable, ClaimInWorker, Store, StoreFails, Restart, SpendElsewhere,
     MeltReserve, MeltAtMint, MeltRecord, Expire, RedisFails, RedisRecovers
<1>3. ~P2pk => StandardInv'
  BY StandardKept DEF IInv
<1>4. P2pk => P2pkInv'
  BY <1>2, FundsKept, KnownKept DEF IInv, P2pkInv
<1>5. P2pk /\ Shared => Counted'
  BY CountedKept DEF IInv
<1>6. P2pk /\ Guarded => Sound'
  BY SoundKept DEF IInv, Guarded
<1> QED BY <1>1, <1>3, <1>4, <1>5, <1>6 DEF IInv

\* Every state: the mint's single swap, or the claims within the markers.
THEOREM CashuInvariant == Spec => [](TypeOK /\ IInv)
BY IInvInit, IInvStep, TypeCorrect, PTL DEF Spec

\* No proof pays for two admissions, but for one more with each lapse of a P2PK
\* marker that is still needed: by the mint's swap (Wallet::receive) or by the
\* claim on the proof key (store_cashu_token_as_used).
THEOREM EachProofPaysOnceHolds == Spec => []EachProofPaysOnce
<1>1. TypeOK /\ IInv => EachProofPaysOnce
  <2> SUFFICES ASSUME TypeOK, IInv, Shared, NEW k \in Keys, NEW l \in Keys, k \cap l # {}
               PROVE  admissions[k] + (IF k = l THEN 0 ELSE admissions[l])
                        <= 1 + (lapses[k] + (IF k = l THEN 0 ELSE lapses[l]))
    BY DEF EachProofPaysOnce
  <2>1. /\ admissions[k] \in Nat /\ admissions[l] \in Nat
        /\ lapses[k] \in Nat /\ lapses[l] \in Nat
    BY DEF TypeOK, TallyOK
  <2>2. k = l \/ admissions[k] = 0 \/ admissions[l] = 0
    <3> SUFFICES ASSUME admissions[k] > 0, admissions[l] > 0 PROVE k = l
      BY <2>1
    <3>1. CASE P2pk
      <4>1. k \in Range(Contents) /\ l \in Range(Contents)
        BY <3>1 DEF IInv, P2pkInv, AdmittedIsStored
      <4> QED BY <3>1, <4>1 DEF Shared, DistinctSets
    <3>2. CASE ~P2pk
      BY <3>2 DEF IInv, StandardInv, AdmittedIsSwapped
    <3> QED BY <3>1, <3>2
  <2>3. ASSUME NEW m \in Keys, admissions[m] > 0 PROVE admissions[m] <= 1 + lapses[m]
    <3>0. lapses[m] \in Nat
      BY DEF TypeOK, TallyOK
    <3>1. CASE P2pk
      BY <2>3, <3>1 DEF IInv, P2pkInv, AdmittedIsStored, Counted
    <3>2. CASE ~P2pk
      BY <2>3, <3>0, <3>2 DEF IInv, StandardInv, AdmittedIsSwapped
    <3> QED BY <3>1, <3>2
  <2> QED BY <2>1, <2>2, <2>3
<1> QED BY <1>1, CashuInvariant, PTL

\* A payer whose proofs this proxy swapped is never told they were used
\* (the claim after the swap in verify_cashu_token).
THEOREM SwappedNotRefusedHolds == Spec => []SwappedNotRefused
<1>1. IInv => SwappedNotRefused
  BY DEF IInv, StandardInv, P2pkInv, SwappedNotRefused
<1> QED BY <1>1, CashuInvariant, PTL

\* A proof set is refused as used only while it is stored, once it was admitted,
\* or after a claim or release whose reply was lost (verify_cashu_token_p2pk).
THEOREM UsedIsExplainedHolds == Spec => []UsedIsExplained
<1>1. IInv => UsedIsExplained
  BY DEF IInv, P2pkInv, KnownIsExplained, UsedIsExplained, Storing
<1> QED BY <1>1, CashuInvariant, PTL

\* Where markers last, the wallet holds as unspent only what the mint does.
THEOREM SpendableIsUnspentHolds == Spec => []SpendableIsUnspent
<1>1. IInv => SpendableIsUnspent
  BY DEF IInv, Sound, SpendableIsUnspent
<1> QED BY <1>1, CashuInvariant, PTL

\* An admission is paid for with proofs the mint has swapped, or that are in
\* the wallet, signed, and locked to this proxy alone.
THEOREM AdmittedIsPaidHolds == Spec => []AdmittedIsPaid
<1>1. TypeOK /\ IInv => AdmittedIsPaid
  <2> SUFFICES ASSUME TypeOK, IInv, NEW k \in Keys, admissions[k] > 0, NEW x \in k
               PROVE  IF P2pk
                      THEN /\ wallet[x] # "absent"
                           /\ Kind[x].lock \in OursToSpend \ TheirsToSpend
                           /\ DleqRule => Kind[x].signed
                      ELSE mint[x] = "spent"
    BY DEF AdmittedIsPaid
  <2>1. CASE P2pk
    <3>1. Verified(k) /\ wallet[x] # "absent"
      BY <2>1 DEF IInv, P2pkInv, AdmittedIsStored
    <3>2. Kind[x].lock \in OursToSpend \ TheirsToSpend
      BY <3>1, VerifiedIsOurs DEF OursToSpend, TheirsToSpend
    <3>3. DleqRule => Kind[x].dleq = "valid"
      BY <3>1 DEF Verified, VerifyDleq
    <3>4. Kind[x] \in ProofKinds
      BY CashuAssumption DEF TypeOK, SharedOK, Kind, Keys
    <3> QED BY <2>1, <3>1, <3>2, <3>3, <3>4 DEF ProofKinds
  <2>2. CASE ~P2pk
    BY <2>2 DEF IInv, StandardInv, AdmittedIsSwapped, Swapped
  <2> QED BY <2>1, <2>2
<1> QED BY <1>1, CashuInvariant, PTL

============================================================================
