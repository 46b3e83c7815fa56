------------------------- MODULE TenantFundsProofs -------------------------
(***************************************************************************)
(* Every proof pays an address that was named for it, for any number of    *)
(* workers, tokens and tenants and in every deployment.  The argument has  *)
(* three layers, each an invariant that rests on those before it: what the *)
(* mint and the wallet agree on (Held), what a request may still name      *)
(* (Named), and where the mappings, the plan and the payments point        *)
(* (Pointed).                                                              *)
(***************************************************************************)
EXTENDS TenantFunds, TLAPS

AfterSwap    == {"mapOut", "unmapIn", "release"}
RequestSteps == {"idle", "map", "store", "swap", "swapping"} \cup AfterSwap
CycleSteps   == {"asleep", "read", "melt", "melting", "unmap", "change", "sweep", "delete"}
Requests     == [step : RequestSteps, token : Token \cup {None}, address : Address \cup {None}]
Cycles       == [step : CycleSteps, unread : SUBSET Proof, plan : SUBSET (Proof \X Address),
                 group : SUBSET Proof, change : SUBSET Proof, address : Address \cup {None}]

RequestsOK ==
    /\ request \in [Worker -> Requests]
    /\ \A w \in Worker : ~At(w, "idle") => Tok(w) \in Token /\ request[w].address \in Address

CycleOK ==
    /\ cycle \in Cycles
    /\ cycle.step = "melting" \/ cycle.change # {} => cycle.address \in Address

StoresOK ==
    /\ mapping \in [Proof -> Address \cup {None}]
    /\ mint \in [Proof -> {"none", "unspent", "spent"}]
    /\ wallet \in [Proof -> {"absent", "unspent", "reserved", "pending", "spent", "none"}]
    /\ owner \in [Proof -> SUBSET Address]
    /\ paid \in [Proof -> Address \cup {None}]

SharedOK ==
    /\ deployment \in Deployments
    /\ redisUp \in BOOLEAN
    /\ claimed \subseteq Token
    /\ restarts \in Nat
    /\ saga \subseteq Proof

TypeOK == RequestsOK /\ CycleOK /\ StoresOK /\ SharedOK

----------------------------------------------------------------------------
\* The proofs of a token are three, and none is another token's.
LEMMA ProofNames ==
    /\ \A t \in Token : /\ In(t) \in Proof /\ In(t)[1] = t /\ In(t)[2] = "in"
                        /\ Out(t) \in Proof /\ Out(t)[1] = t /\ Out(t)[2] = "out"
                        /\ Change(t) \in Proof /\ Change(t)[1] = t /\ Change(t)[2] = "change"
    /\ \A x \in Proof : /\ x[1] \in Token /\ x[2] \in {"in", "out", "change"}
                        /\ x[2] = "in" => x = In(x[1])
                        /\ x[2] = "out" => x = Out(x[1])
                        /\ x[2] = "change" => x = Change(x[1])
BY DEF In, Out, Change, Proof

\* An answer idles its worker and no other; a step on moves no other either.
LEMMA AnswerIdles ==
    ASSUME request \in [Worker -> Requests], NEW w \in Worker, Answer(w)
    PROVE  /\ request' \in [Worker -> Requests]
           /\ request'[w] = Idle
           /\ \A v \in Worker \ {w} : request'[v] = request[v]
BY DEF Answer, Idle, Requests, RequestSteps

\* A step on moves its request and no other.
LEMMA GotoMoves ==
    ASSUME request \in [Worker -> Requests], NEW w \in Worker, NEW s \in RequestSteps, Goto(w, s)
    PROVE  /\ request' \in [Worker -> Requests]
           /\ request'[w].step = s /\ request'[w].token = request[w].token
           /\ request'[w].address = request[w].address
           /\ \A v \in Worker \ {w} : request'[v] = request[v]
BY DEF Goto, Requests

\* Every step stays in the deployment nginx was started with.
LEMMA DeploymentIsFixed == [Next]_vars => UNCHANGED <<deployment, P2pk, HasRedis, Faults>>
BY DEF Next, vars, P2pk, HasRedis, Faults, Present, RequestStep, MapIn, StoreIn, StoreFails,
   SwapReserve, Swap, SwapReplyLost, SwapFails, MapOut, UnmapIn, Release, WorkerDies,
   RedeemStep, CycleStart, ReadMapping, Melt, SkipGroup, MeltPaid, MeltPaidWithChange,
   MeltReplyLost, MeltFails, UnmapMelted, MapChange, Sweep, SweepBut, SweepDelete, RedeemerDies,
   RedisFails, RedisRecovers, Restart

\* A sweep unmaps and hands to its deletion only spent proofs without a saga.
LEMMA SweepEffect ==
    Sweep =>
        /\ UNCHANGED <<request, redisUp, mint, wallet, claimed, owner, paid, restarts, saga>>
        /\ \E S \in SUBSET Proof :
              /\ \A x \in S : wallet[x] = "spent" /\ x \notin saga
              /\ UNCHANGED mapping \/ Mapped(S, None)
              /\ \/ cycle' = Asleep
                 \/ /\ cycle' = [Asleep EXCEPT !.step = "delete", !.group = S]
                    /\ cycle'.group = S
<1> SUFFICES ASSUME NEW left, SweepBut(left)
             PROVE  /\ UNCHANGED <<request, redisUp, mint, wallet, claimed, owner, paid, restarts, saga>>
                    /\ \E S \in SUBSET Proof :
                          /\ \A x \in S : wallet[x] = "spent" /\ x \notin saga
                          /\ UNCHANGED mapping \/ Mapped(S, None)
                          /\ \/ cycle' = Asleep
                             \/ /\ cycle' = [Asleep EXCEPT !.step = "delete", !.group = S]
                                /\ cycle'.group = S
  BY DEF Sweep
<1> DEFINE spent == {x \in Proof : wallet[x] = "spent" /\ x \notin saga} \ left
<1>1. spent \in SUBSET Proof /\ \A x \in spent : wallet[x] = "spent" /\ x \notin saga
  OBVIOUS
<1>2. UNCHANGED mapping \/ Mapped(spent, None)
  BY DEF SweepBut
<1>3. \/ cycle' = [Asleep EXCEPT !.step = "delete", !.group = spent]
      \/ cycle' = Asleep
  BY DEF SweepBut
<1>4. [Asleep EXCEPT !.step = "delete", !.group = spent].group = spent
  BY DEF Asleep
<1>5. UNCHANGED <<request, redisUp, mint, wallet, claimed, owner, paid, restarts, saga>>
  BY DEF SweepBut
<1> HIDE DEF spent
<1> QED BY <1>1, <1>2, <1>3, <1>4, <1>5

\* Settings, requests, the cycle, the stores and the mint keep their types.
THEOREM TypeCorrect == Spec => []TypeOK
<1> USE FundsAssumption DEF Proof
<1>1. Init => TypeOK
  BY DEF Init, TypeOK, RequestsOK, CycleOK, StoresOK, SharedOK, Idle, Asleep, Requests, Cycles,
     RequestSteps, CycleSteps, At, HasRedis
<1>2. TypeOK /\ [Next]_vars => TypeOK'
  <2> SUFFICES ASSUME TypeOK, [Next]_vars PROVE TypeOK'
    OBVIOUS
  <2>0. UNCHANGED <<deployment, P2pk, HasRedis, Faults>>
    BY DeploymentIsFixed
  <2>a. UNCHANGED request => RequestsOK'
    BY DEF TypeOK, RequestsOK, At, Tok
  <2>b. UNCHANGED cycle => CycleOK'
    BY DEF TypeOK, CycleOK
  <2>c. UNCHANGED <<mapping, mint, wallet, owner, paid>> => StoresOK'
    BY DEF TypeOK, StoresOK
  <2>d. UNCHANGED <<redisUp, claimed, restarts, saga>> => SharedOK'
    BY <2>0 DEF TypeOK, SharedOK
  <2>e. ASSUME NEW w \in Worker, Answer(w) PROVE RequestsOK'
    BY <2>e, AnswerIdles DEF TypeOK, RequestsOK, At, Tok, Idle
  <2>f. ASSUME NEW w \in Worker, NEW s \in RequestSteps, ~At(w, "idle"), Goto(w, s)
        PROVE  RequestsOK'
    BY <2>f, GotoMoves DEF TypeOK, RequestsOK, At, Tok
  <2>g. \A S : UNCHANGED mapping \/ (\E a \in Address \cup {None} : Mapped(S, a))
                => mapping' \in [Proof -> Address \cup {None}]
    BY DEF TypeOK, StoresOK, Mapped, Moved
  <2> HIDE DEF Proof
  <2>1. ASSUME NEW w \in Worker, NEW t \in Token, NEW a \in Address, Present(w, t, a)
        PROVE  TypeOK'
    <3>1. RequestsOK'
      BY <2>1 DEF Present, TypeOK, RequestsOK, At, Tok, Requests, RequestSteps
    <3>2. StoresOK'
      BY <2>1 DEF Present, Earmark, TypeOK, StoresOK
    <3>3. SharedOK' /\ CycleOK'
      BY <2>1, <2>0, <2>b DEF Present, TypeOK, SharedOK
    <3> QED BY <3>1, <3>2, <3>3 DEF TypeOK
  <2>2. ASSUME NEW w \in Worker, RequestStep(w) PROVE TypeOK'
    <3>0. CycleOK'
      BY <2>2, <2>b DEF RequestStep, MapIn, StoreIn, StoreFails, SwapReserve, Swap,
         SwapReplyLost, SwapFails, MapOut, UnmapIn, Release
    <3>1. ~At(w, "idle") /\ Tok(w) \in Token /\ request[w].address \in Address
      BY <2>2 DEF RequestStep, MapIn, StoreIn, StoreFails, SwapReserve, Swap, SwapReplyLost,
         SwapFails, MapOut, UnmapIn, Release, At, TypeOK, RequestsOK
    <3>2. RequestsOK'
      <4>1. \/ Answer(w)
            \/ \E s \in RequestSteps : Goto(w, s)
        BY <2>2 DEF RequestStep, MapIn, StoreIn, StoreFails, SwapReserve, Swap, SwapReplyLost,
           SwapFails, MapOut, UnmapIn, Release, RequestSteps, AfterSwap
      <4> QED BY <4>1, <3>1, <2>e, <2>f
    <3>3. SharedOK'
      <4>1. UNCHANGED <<redisUp, restarts>> /\ claimed' \subseteq Token
        BY <2>2, <3>1 DEF RequestStep, MapIn, StoreIn, StoreFails, SwapReserve, Swap,
           SwapReplyLost, SwapFails, MapOut, UnmapIn, Release, TypeOK, SharedOK
      <4>2. saga' \subseteq saga \cup {In(Tok(w))}
        BY <2>2 DEF RequestStep, MapIn, StoreIn, StoreFails, SwapReserve, Swap, SagaEnds,
           SwapReplyLost, SwapFails, MapOut, UnmapIn, Release
      <4> QED BY <4>1, <4>2, <2>0, <3>1, ProofNames DEF TypeOK, SharedOK
    <3>4. mapping' \in [Proof -> Address \cup {None}]
      BY <2>2, <2>g, <3>1 DEF RequestStep, MapIn, StoreIn, StoreFails, SwapReserve, Swap,
         SwapReplyLost, SwapFails, MapOut, UnmapIn, Release, TypeOK, StoresOK
    <3>5. /\ mint' \in [Proof -> {"none", "unspent", "spent"}]
          /\ wallet' \in [Proof -> {"absent", "unspent", "reserved", "pending", "spent", "none"}]
          /\ owner' \in [Proof -> SUBSET Address]
          /\ paid' \in [Proof -> Address \cup {None}]
      BY <2>2, <3>1 DEF RequestStep, MapIn, StoreIn, StoreFails, SwapReserve, Swap,
         SwapReplyLost, SwapFails, MapOut, UnmapIn, Release, TypeOK, StoresOK, Earmark
    <3> QED BY <3>0, <3>2, <3>3, <3>4, <3>5 DEF TypeOK, StoresOK
  <2>3. ASSUME NEW w \in Worker, WorkerDies(w) PROVE TypeOK'
    BY <2>3, <2>0, <2>b, <2>c, <2>d, <2>e DEF WorkerDies, TypeOK
  <2>4. CASE RedeemStep
    <3>0. /\ UNCHANGED <<request, redisUp, claimed, restarts>>
          /\ saga' \subseteq saga \cup cycle.group
      BY <2>4 DEF RedeemStep, CycleStart, ReadMapping, Melt, SkipGroup, MeltPaid,
         MeltPaidWithChange, MeltReplyLost, MeltFails, UnmapMelted, MapChange, Sweep, SweepBut,
         SweepDelete, Pay, SagaEnds
    <3>1. RequestsOK' /\ SharedOK'
      BY <3>0, <2>0, <2>a DEF TypeOK, SharedOK, CycleOK, Cycles
    <3>2. CycleOK'
      <4>1. Asleep \in Cycles /\ (\A s \in CycleSteps : [Asleep EXCEPT !.step = s] \in Cycles)
        BY DEF Asleep, Cycles, CycleSteps
      <4>2. \A p \in SUBSET (Proof \X Address) :
               Rest(p) \in Cycles /\ Rest(p).step # "melting" /\ Rest(p).change = {}
        BY DEF Rest, Asleep, Cycles, CycleSteps
      <4>3. cycle \in Cycles /\ cycle.plan \in SUBSET (Proof \X Address)
        BY DEF TypeOK, CycleOK, Cycles
      <4>4. CASE CycleStart
        BY <4>4 DEF CycleStart, CycleOK, Cycles, Asleep, CycleSteps
      <4>5. ASSUME NEW x \in Proof, ReadMapping(x) PROVE CycleOK'
        <5>1. ASSUME NEW a \in Address, Plan(x, a) PROVE CycleOK'
          <6>1. cycle.unread \ {x} \in SUBSET Proof
            BY <4>3 DEF Cycles
          <6>2. cycle.plan \cup {<<x, a>>} \in SUBSET (Proof \X Address)
            BY <4>3
          <6>3. /\ cycle' \in Cycles
                /\ cycle'.step # "melting" /\ cycle'.change = cycle.change
                /\ cycle'.address = cycle.address
            BY <5>1, <4>3, <6>1, <6>2 DEF Plan, Cycles, CycleSteps
          <6> QED BY <6>3 DEF TypeOK, CycleOK
        <5>2. CASE cycle' = [Asleep EXCEPT !.step = "sweep"]
          BY <5>2 DEF CycleOK, Asleep, Cycles, CycleSteps
        <5>3. \/ \E a \in Address : Plan(x, a)
              \/ cycle' = [Asleep EXCEPT !.step = "sweep"]
          BY <4>5 DEF ReadMapping, TypeOK, StoresOK, SharedOK, HasRedis, Address
        <5> QED BY <5>1, <5>2, <5>3
      <4>6. ASSUME NEW a \in Address, Melt(a) PROVE CycleOK'
        <5>1. Without(a) \in Cycles /\ Without(a).change = {}
          BY <4>2, <4>3 DEF Without
        <5>2. PICK S \in SUBSET GroupOf(a) :
                 cycle' = [Without(a) EXCEPT !.step = "melting", !.group = S, !.address = a]
          BY <4>6 DEF Melt
        <5>3. GroupOf(a) \subseteq Proof
          BY <4>3 DEF GroupOf
        <5> QED BY <5>1, <5>2, <5>3 DEF CycleOK, Cycles, CycleSteps
      <4>7. ASSUME NEW a \in Address, SkipGroup(a) PROVE CycleOK'
        BY <4>7, <4>2, <4>3 DEF SkipGroup, Without, CycleOK
      <4>8. ASSUME NEW t \in Token, MeltPaidWithChange(t) PROVE CycleOK'
        <5>1. Change(t) \in Proof
          BY ProofNames
        <5>2. /\ cycle' = [cycle EXCEPT !.step = "unmap", !.change = {Change(t)}]
              /\ cycle.address \in Address
          BY <4>8 DEF MeltPaidWithChange, Pay, Redeeming, TypeOK, CycleOK
        <5>3. cycle' \in Cycles /\ cycle'.address \in Address
          BY <4>3, <5>1, <5>2 DEF Cycles, CycleSteps
        <5> QED BY <5>3 DEF CycleOK
      <4>9. CASE MeltPaid \/ UnmapMelted
        BY <4>9, <4>3 DEF MeltPaid, Pay, Redeeming, UnmapMelted, TypeOK, CycleOK, Cycles, CycleSteps
      <4>10. CASE MeltReplyLost \/ MeltFails \/ MapChange
        BY <4>10, <4>2, <4>3 DEF MeltReplyLost, MeltFails, MapChange, CycleOK
      <4>11. CASE Sweep \/ SweepDelete
        <5>1. PICK S \in SUBSET Proof :
                 \/ cycle' = [Asleep EXCEPT !.step = "delete", !.group = S]
                 \/ cycle' = Asleep
          BY <4>11, SweepEffect DEF SweepDelete
        <5>2. \/ cycle' = [step |-> "delete", unread |-> {}, plan |-> {}, group |-> S,
                            change |-> {}, address |-> None]
              \/ cycle' = Asleep
          BY <5>1 DEF Asleep
        <5>3. Asleep \in Cycles /\ Asleep.step # "melting" /\ Asleep.change = {}
          BY DEF Asleep, Cycles, CycleSteps
        <5>4. cycle' \in Cycles /\ cycle'.step # "melting" /\ cycle'.change = {}
          BY <5>2, <5>3 DEF Cycles, CycleSteps
        <5> QED BY <5>4 DEF CycleOK
      <4> QED BY <2>4, <4>4, <4>5, <4>6, <4>7, <4>8, <4>9, <4>10, <4>11 DEF RedeemStep
    <3>3. StoresOK'
      <4>1. ASSUME NEW S, NEW v \in {"absent", "unspent", "reserved", "pending", "spent", "none"}
            PROVE  Moved(wallet, S, v)
                     \in [Proof -> {"absent", "unspent", "reserved", "pending", "spent", "none"}]
        BY DEF TypeOK, StoresOK, Moved
      <4>2. ASSUME NEW S PROVE Moved(mint, S, "spent") \in [Proof -> {"none", "unspent", "spent"}]
        BY DEF TypeOK, StoresOK, Moved
      <4>3. CASE CycleStart \/ (\E x \in Proof : ReadMapping(x)) \/ (\E a \in Address : SkipGroup(a))
        BY <4>3, <2>c DEF CycleStart, ReadMapping, SkipGroup
      <4>4. CASE \/ \E a \in Address : Melt(a)
                 \/ SweepDelete
        <5>1. UNCHANGED <<mapping, mint, owner, paid>>
          BY <4>4 DEF Melt, SweepDelete
        <5>2. \/ wallet' = wallet
              \/ \E S : wallet' = Moved(wallet, S, "reserved") \/ wallet' = Moved(wallet, S, "absent")
          BY <4>4 DEF Melt, SweepDelete
        <5> QED BY <5>1, <5>2, <4>1 DEF TypeOK, StoresOK
      <4>5. CASE MeltFails
        BY <4>5 DEF MeltFails, TypeOK, StoresOK
      <4>6. CASE UnmapMelted \/ MapChange \/ Sweep
        <5>1. cycle.change = {} \/ cycle.address \in Address
          BY DEF TypeOK, CycleOK
        <5>2. mapping' \in [Proof -> Address \cup {None}]
          <6>1. CASE Sweep
            BY <6>1, <2>g, SweepEffect
          <6>2. CASE UnmapMelted \/ MapChange
            BY <6>2, <5>1, <2>g DEF UnmapMelted, MapChange, Mapped, Moved, TypeOK, StoresOK
          <6> QED BY <4>6, <6>1, <6>2
        <5>3. UNCHANGED <<mint, wallet, owner, paid>>
          BY <4>6, SweepEffect DEF UnmapMelted, MapChange
        <5> QED BY <5>2, <5>3 DEF TypeOK, StoresOK
      <4>7. Pay => paid' \in [Proof -> Address \cup {None}]
        BY DEF Pay, Redeeming, TypeOK, CycleOK, StoresOK, Moved
      <4>8. CASE MeltPaid
        BY <4>8, <4>1, <4>2, <4>7 DEF MeltPaid, TypeOK, StoresOK
      <4>9. ASSUME NEW t \in Token, MeltPaidWithChange(t) PROVE StoresOK'
        <5>1. Moved(mint, cycle.group, "spent") \in [Proof -> {"none", "unspent", "spent"}]
          BY <4>2
        <5>2. Moved(wallet, cycle.group, "spent")
                \in [Proof -> {"absent", "unspent", "reserved", "pending", "spent", "none"}]
          BY <4>1
        <5>3. UNCHANGED mapping /\ Pay
          BY <4>9 DEF MeltPaidWithChange
        <5>4. owner' \in [Proof -> SUBSET Address]
          BY <4>9, ProofNames DEF MeltPaidWithChange, TypeOK, StoresOK
        <5>5. /\ mint' \in [Proof -> {"none", "unspent", "spent"}]
              /\ wallet' \in [Proof -> {"absent", "unspent", "reserved", "pending", "spent", "none"}]
          BY <4>9, <5>1, <5>2, ProofNames DEF MeltPaidWithChange
        <5> QED BY <5>3, <5>4, <5>5, <4>7 DEF TypeOK, StoresOK
      <4>10. CASE MeltReplyLost
        BY <4>10, <4>1, <4>2, <4>7, ProofNames DEF MeltReplyLost, Moved, TypeOK, StoresOK
      <4> QED BY <2>4, <4>3, <4>4, <4>5, <4>6, <4>8, <4>9, <4>10 DEF RedeemStep
    <3> QED BY <3>1, <3>2, <3>3 DEF TypeOK
  <2>5. CASE RedeemerDies
    BY <2>5, <2>a, <2>c, <2>d DEF RedeemerDies, TypeOK, CycleOK, Asleep, Cycles, CycleSteps
  <2>6. CASE RedisFails \/ RedisRecovers
    BY <2>6, <2>0, <2>a, <2>b, <2>c DEF RedisFails, RedisRecovers, TypeOK, SharedOK
  <2>7. CASE Restart
    <3>1. RequestsOK'
      BY <2>7 DEF Restart, RequestsOK, Idle, Requests, RequestSteps, At
    <3>2. CycleOK'
      BY <2>7 DEF Restart, CycleOK, Asleep, Cycles, CycleSteps
    <3>3. StoresOK'
      BY <2>7, <2>c DEF Restart, Reconciled, TypeOK, StoresOK
    <3>4. SharedOK'
      BY <2>7, <2>0 DEF Restart, TypeOK, SharedOK
    <3> QED BY <3>1, <3>2, <3>3, <3>4 DEF TypeOK
  <2>8. CASE UNCHANGED vars
    BY <2>8, <2>a, <2>b, <2>c, <2>d DEF vars, TypeOK
  <2> QED BY <2>1, <2>2, <2>3, <2>4, <2>5, <2>6, <2>7, <2>8 DEF Next
<1> QED BY <1>1, <1>2, PTL DEF Spec

----------------------------------------------------------------------------
(* What the mint and the wallet hold *)

InCycle == cycle.unread \cup {p[1] : p \in cycle.plan} \cup cycle.group

\* A proof the mint never signed is nowhere else either.
Fresh == \A x \in Proof : mint[x] = "none" =>
            wallet[x] = "absent" /\ mapping[x] = None /\ paid[x] = None /\ owner[x] = {}

\* A token's proof was signed before it came; its swap is signed once.
Received == \A t \in Token : mint[In(t)] # "none"
SwapOnce == \A t \in Token : mint[In(t)] = "unspent" \/ P2pk => mint[Out(t)] = "none"

SpentAtMint == \A x \in Proof : wallet[x] = "spent" => mint[x] = "spent"

\* A request that swapped a token is the only one that did.
SwapsAreMints ==
    \A w \in Worker :
       /\ P2pk => request[w].step \in {"idle", "map", "store"}
       /\ request[w].step \in AfterSwap =>
             /\ mint[In(Tok(w))] = "spent" /\ mint[Out(Tok(w))] # "none"
             /\ \A u \in Worker \ {w} : request[u].step \in AfterSwap => Tok(u) # Tok(w)

\* The cycle works on proofs the wallet has, unmaps and deletes spent ones, and
\* maps change the mint signed.
CycleIsHeld == \A x \in InCycle : wallet[x] # "absent"
ChangeIsMinted ==
    /\ cycle.change # {} => cycle.step \in {"unmap", "change"}
    /\ \A x \in cycle.change : x[2] = "change" /\ mint[x] # "none"
GroupIsSpent ==
    cycle.step \in {"unmap", "delete"} => \A x \in cycle.group : mint[x] = "spent"

\* A saga that is there keeps proofs the mint has spent and the wallet has, and
\* the deletion that ends a sweep takes none of them.
SagaIsHeld ==
    /\ \A x \in saga : mint[x] = "spent" /\ wallet[x] # "absent"
    /\ cycle.step = "delete" => cycle.group \cap saga = {}

Stored == Fresh /\ Received /\ SwapOnce /\ SpentAtMint
Held   == Stored /\ SwapsAreMints /\ CycleIsHeld /\ ChangeIsMinted /\ GroupIsSpent /\ SagaIsHeld

\* A start makes spendable what the mint holds as unspent, deletes or keeps as
\* spent what it has taken, and touches nothing else.
LEMMA RestartEffect ==
    ASSUME TypeOK, Held, Restart, NEW x \in Proof
    PROVE  \/ wallet'[x] = wallet[x]
           \/ /\ mint[x] = "unspent" /\ wallet'[x] = "unspent"
              /\ wallet[x] # "absent" \/ x[2] # "in"
           \/ /\ mint[x] = "spent" /\ wallet'[x] \in {"spent", "absent"}
              /\ wallet[x] # "absent"
<1>1. PICK reached \in SUBSET Findable, kept \in SUBSET {y \in Findable : mint[y] = "spent"} :
         wallet' = Reconciled(reached, kept)
  BY DEF Restart
<1>2. CASE x \notin reached
  BY <1>1, <1>2 DEF Reconciled
<1>3. CASE x \in reached
  <2>1. x \in Findable
    BY <1>1, <1>3
  <2>2. /\ mint[x] \in {"unspent", "spent"}
        /\ mint[x] = "spent" => wallet[x] # "absent"
        /\ mint[x] = "unspent" => wallet[x] # "absent" \/ x[2] # "in"
    BY <2>1 DEF Findable, InFlight, Unknown, Held, Stored, Fresh, SagaIsHeld, TypeOK, StoresOK
  <2> QED BY <1>1, <1>3, <2>2 DEF Reconciled
<1> QED BY <1>2, <1>3

\* The mint signs and spends in a swap or when it pays, and in no other step.
SwapAtMint(w) ==
    /\ At(w, "swapping") /\ mint[In(Tok(w))] = "unspent"
    /\ mint' = [mint EXCEPT ![In(Tok(w))] = "spent", ![Out(Tok(w))] = "unspent"]

PayAtMint(C) ==
    /\ Pay
    /\ \A x \in C : mint[x] = "none" /\ x[2] = "change"
    /\ mint' = [x \in Proof |-> IF x \in C THEN "unspent"
                                ELSE IF x \in cycle.group THEN "spent" ELSE mint[x]]

\* The mint changes in two ways only: a swap, or a payment with its change.
LEMMA MintEffect ==
    ASSUME TypeOK, [Next]_vars
    PROVE  \/ UNCHANGED mint
           \/ \E w \in Worker : SwapAtMint(w)
           \/ \E C \in SUBSET Proof : PayAtMint(C)
<1>1. CASE \/ \E w \in Worker, t \in Token, a \in Address : Present(w, t, a)
           \/ \E w \in Worker : WorkerDies(w)
           \/ RedeemerDies \/ RedisFails \/ RedisRecovers \/ Restart \/ UNCHANGED vars
  BY <1>1 DEF Present, WorkerDies, RedeemerDies, RedisFails, RedisRecovers, Restart, vars
<1>2. ASSUME NEW w \in Worker, RequestStep(w) PROVE UNCHANGED mint \/ SwapAtMint(w)
  BY <1>2 DEF RequestStep, MapIn, StoreIn, StoreFails, SwapReserve, Swap, SwapReplyLost,
     SwapFails, MapOut, UnmapIn, Release, SwapAtMint
<1>3. CASE RedeemStep
  <2>1. CASE MeltPaid
    <3>1. PayAtMint({})
      BY <2>1 DEF MeltPaid, PayAtMint, Moved
    <3> QED BY <3>1
  <2>2. ASSUME NEW t \in Token, MeltPaidWithChange(t) PROVE PayAtMint({Change(t)})
    <3>1. Change(t) \in Proof /\ Change(t)[2] = "change"
      BY ProofNames
    <3>2. Pay /\ mint[Change(t)] = "none"
      BY <2>2 DEF MeltPaidWithChange, MayChange
    <3>3. mint' = [[x \in Proof |-> IF x \in cycle.group THEN "spent" ELSE mint[x]]
                      EXCEPT ![Change(t)] = "unspent"]
      BY <2>2 DEF MeltPaidWithChange, Moved
    <3>4. mint' = [x \in Proof |-> IF x \in {Change(t)} THEN "unspent"
                                   ELSE IF x \in cycle.group THEN "spent" ELSE mint[x]]
      BY <3>1, <3>3
    <3> QED BY <3>1, <3>2, <3>4 DEF PayAtMint
  <2>3. CASE MeltReplyLost
    <3>1. PICK C \in {{}} \cup {{Change(t)} : t \in MayChange} :
             mint' = Moved(Moved(mint, cycle.group, "spent"), C, "unspent")
      BY <2>3 DEF MeltReplyLost
    <3>2. C \in SUBSET Proof /\ \A x \in C : mint[x] = "none" /\ x[2] = "change"
      BY <3>1, ProofNames DEF MayChange
    <3>3. PayAtMint(C)
      BY <2>3, <3>1, <3>2 DEF MeltReplyLost, PayAtMint, Moved
    <3> QED BY <3>2, <3>3
  <2>4. CASE ~MeltPaid /\ ~MeltReplyLost /\ ~\E t \in Token : MeltPaidWithChange(t)
    BY <1>3, <2>4 DEF RedeemStep, CycleStart, ReadMapping, Melt, SkipGroup, MeltFails,
       UnmapMelted, MapChange, Sweep, SweepBut, SweepDelete
  <2>5. \A t \in Token : {Change(t)} \in SUBSET Proof
    BY ProofNames
  <2> QED BY <2>1, <2>2, <2>3, <2>4, <2>5
<1> QED BY <1>1, <1>2, <1>3 DEF Next

\* What was signed stays signed, and what was spent stays spent.
LEMMA MintMoves ==
    ASSUME TypeOK, Held, [Next]_vars
    PROVE  /\ \A x \in Proof : /\ mint[x] = "spent" => mint'[x] = "spent"
                               /\ mint[x] # "none" => mint'[x] # "none"
           /\ Received' /\ SwapOnce'
<1>0. UNCHANGED P2pk
  BY DeploymentIsFixed
<1>1. CASE UNCHANGED mint
  BY <1>0, <1>1 DEF Held, Stored, Received, SwapOnce
<1>2. ASSUME NEW w \in Worker, SwapAtMint(w)
      PROVE  /\ \A x \in Proof : /\ mint[x] = "spent" => mint'[x] = "spent"
                                 /\ mint[x] # "none" => mint'[x] # "none"
             /\ Received' /\ SwapOnce'
  <2>1. Tok(w) \in Token /\ mint[Out(Tok(w))] = "none" /\ ~P2pk
    BY <1>2 DEF SwapAtMint, TypeOK, RequestsOK, At, Held, Stored, SwapOnce, SwapsAreMints
  <2>2. \A x \in Proof : mint'[x] = IF x = Out(Tok(w)) THEN "unspent"
                                    ELSE IF x = In(Tok(w)) THEN "spent" ELSE mint[x]
    BY <1>2, <2>1, ProofNames DEF SwapAtMint, TypeOK, StoresOK
  <2>3. mint[In(Tok(w))] = "unspent" /\ UNCHANGED P2pk
    BY <1>0, <1>2 DEF SwapAtMint
  <2>4. \A x \in Proof : /\ mint[x] = "spent" => mint'[x] = "spent"
                         /\ mint[x] # "none" => mint'[x] # "none"
    BY <2>1, <2>2, <2>3
  <2>5. Received' /\ SwapOnce'
    BY <2>1, <2>2, <2>3, ProofNames DEF Held, Stored, Received, SwapOnce
  <2> QED BY <2>4, <2>5
<1>3. ASSUME NEW C \in SUBSET Proof, PayAtMint(C)
      PROVE  /\ \A x \in Proof : /\ mint[x] = "spent" => mint'[x] = "spent"
                                 /\ mint[x] # "none" => mint'[x] # "none"
             /\ Received' /\ SwapOnce'
  BY <1>0, <1>3, ProofNames DEF PayAtMint, Pay, Held, Stored, Received, SwapOnce
<1> QED BY <1>1, <1>2, <1>3, MintEffect

\* Every step keeps what the wallet's states say of the mint's.
LEMMA StoredStep == TypeOK /\ Held /\ [Next]_vars => Stored'
<1> SUFFICES ASSUME TypeOK, Held, [Next]_vars PROVE Fresh' /\ SpentAtMint'
  BY MintMoves DEF Stored
<1>0. \A x \in Proof : /\ mint[x] = "spent" => mint'[x] = "spent"
                       /\ mint[x] # "none" => mint'[x] # "none"
  BY MintMoves
<1>a. UNCHANGED <<mapping, wallet, owner, paid>> => Fresh' /\ SpentAtMint'
  BY <1>0 DEF Held, Stored, Fresh, SpentAtMint, TypeOK, StoresOK
<1>1. ASSUME NEW w \in Worker, NEW t \in Token, NEW a \in Address, Present(w, t, a)
      PROVE  Fresh' /\ SpentAtMint'
  BY <1>1, <1>0, ProofNames
     DEF Present, Earmark, Held, Stored, Fresh, Received, SpentAtMint, TypeOK, StoresOK
<1>2. ASSUME NEW w \in Worker, RequestStep(w) PROVE Fresh' /\ SpentAtMint'
  <2>1. Tok(w) \in Token /\ mint[In(Tok(w))] # "none"
        /\ (request[w].step \in AfterSwap => mint[Out(Tok(w))] # "none")
    BY <1>2 DEF RequestStep, MapIn, StoreIn, StoreFails, SwapReserve, Swap, SwapReplyLost,
       SwapFails, MapOut, UnmapIn, Release, At, TypeOK, RequestsOK, Held, Stored, Received,
       SwapsAreMints
  <2>2. CASE MapIn(w) \/ UnmapIn(w)
    BY <2>1, <2>2, <1>0, ProofNames DEF MapIn, UnmapIn, Mapped, Moved, Held, Stored, Fresh,
       SpentAtMint, TypeOK, StoresOK
  <2>3. CASE MapOut(w)
    BY <2>1, <2>3, <1>0, ProofNames DEF MapOut, Mapped, Moved, At, AfterSwap, Held, Stored,
       Fresh, SpentAtMint, TypeOK, StoresOK
  <2>4. CASE StoreIn(w) \/ SwapReserve(w) \/ SwapFails(w)
    BY <2>1, <2>4, <1>0, ProofNames DEF StoreIn, SwapReserve, SwapFails, Held, Stored, Fresh,
       SpentAtMint, TypeOK, StoresOK
  <2>5. CASE StoreFails(w)
    BY <2>1, <2>5, <1>0, ProofNames DEF StoreFails, Held, Stored, Fresh,
       SpentAtMint, TypeOK, StoresOK
  <2>6. CASE Swap(w) \/ SwapReplyLost(w)
    <3>1. /\ mint'[In(Tok(w))] = "spent" /\ mint'[Out(Tok(w))] # "none"
      BY <2>1, <2>6, ProofNames DEF Swap, SwapReplyLost, TypeOK, StoresOK
    <3>2. UNCHANGED <<mapping, paid>>
      BY <2>6 DEF Swap, SwapReplyLost
    <3>3. \A x \in Proof : x # In(Tok(w)) /\ x # Out(Tok(w)) =>
             wallet'[x] = wallet[x] /\ owner'[x] = owner[x]
      BY <2>1, <2>6, ProofNames DEF Swap, SwapReplyLost, Earmark, TypeOK, StoresOK
    <3>4. wallet'[Out(Tok(w))] = "spent" => wallet[Out(Tok(w))] = "spent"
      BY <2>1, <2>6, ProofNames DEF Swap, SwapReplyLost, TypeOK, StoresOK
    <3> QED BY <3>1, <3>2, <3>3, <3>4, <2>1, <1>0, ProofNames
            DEF Held, Stored, Fresh, SpentAtMint
  <2>7. CASE Release(w)
    BY <2>1, <2>7, <1>0, ProofNames DEF Release, At, AfterSwap, Held, Stored, Fresh,
       SpentAtMint, TypeOK, StoresOK
  <2> QED BY <1>2, <2>2, <2>3, <2>4, <2>5, <2>6, <2>7 DEF RequestStep
<1>3. CASE RedeemStep
  <2>0. cycle.group \subseteq Proof /\ cycle.change \subseteq Proof
    BY DEF TypeOK, CycleOK, Cycles
  <2>1. CASE CycleStart \/ (\E x \in Proof : ReadMapping(x)) \/ (\E a \in Address : SkipGroup(a))
    BY <2>1, <1>a DEF CycleStart, ReadMapping, SkipGroup
  <2>2. ASSUME NEW a \in Address, Melt(a) PROVE Fresh' /\ SpentAtMint'
    <3>1. PICK S : (\A x \in S : wallet[x] = "unspent") /\ wallet' = Moved(wallet, S, "reserved")
      BY <2>2 DEF Melt
    <3> QED BY <2>2, <3>1, <1>0 DEF Melt, Moved, Held, Stored, Fresh, SpentAtMint
  <2>3. CASE \/ MeltPaid \/ \E t \in Token : MeltPaidWithChange(t)
             \/ MeltReplyLost
    <3>1. PICK C \in SUBSET Proof : PayAtMint(C)
             /\ (\A x \in Proof \ (C \cup cycle.group) :
                    wallet'[x] = wallet[x] /\ owner'[x] = owner[x])
             /\ (\A x \in C : wallet'[x] # "spent")
      <4>1. CASE MeltPaid
        <5>1. PayAtMint({})
          BY <4>1 DEF MeltPaid, PayAtMint, Moved
        <5> QED BY <4>1, <5>1 DEF MeltPaid, Moved
      <4>2. ASSUME NEW t \in Token, MeltPaidWithChange(t)
            PROVE \E C \in SUBSET Proof : PayAtMint(C)
                     /\ (\A x \in Proof \ (C \cup cycle.group) :
                            wallet'[x] = wallet[x] /\ owner'[x] = owner[x])
                     /\ (\A x \in C : wallet'[x] # "spent")
        <5>1. Change(t) \in Proof /\ Change(t)[2] = "change"
          BY ProofNames
        <5>2. Pay /\ mint[Change(t)] = "none"
          BY <4>2 DEF MeltPaidWithChange, MayChange
        <5>3. mint' = [[x \in Proof |-> IF x \in cycle.group THEN "spent" ELSE mint[x]]
                          EXCEPT ![Change(t)] = "unspent"]
          BY <4>2 DEF MeltPaidWithChange, Moved
        <5>4. PayAtMint({Change(t)})
          BY <5>1, <5>2, <5>3 DEF PayAtMint
        <5>5. \A x \in Proof : wallet'[x] = IF x = Change(t) THEN "unspent"
                                  ELSE IF x \in cycle.group THEN "spent" ELSE wallet[x]
          BY <4>2, <5>1 DEF MeltPaidWithChange, Moved
        <5>6. \A x \in Proof : x # Change(t) => owner'[x] = owner[x]
          BY <4>2, <5>1 DEF MeltPaidWithChange, TypeOK, StoresOK
        <5> QED BY <5>1, <5>4, <5>5, <5>6
      <4>3. CASE MeltReplyLost
        <5>1. PICK C \in {{}} \cup {{Change(t)} : t \in MayChange} :
                 /\ mint' = Moved(Moved(mint, cycle.group, "spent"), C, "unspent")
                 /\ owner' = [x \in Proof |-> IF x \in C THEN owner[In(x[1])] ELSE owner[x]]
          BY <4>3 DEF MeltReplyLost
        <5>2. C \in SUBSET Proof /\ \A x \in C : mint[x] = "none" /\ x[2] = "change"
          BY <5>1, ProofNames DEF MayChange
        <5>3. PayAtMint(C)
          BY <4>3, <5>1, <5>2 DEF MeltReplyLost, PayAtMint, Moved
        <5>4. \A x \in Proof : wallet'[x] = IF x \in cycle.group THEN "pending" ELSE wallet[x]
          BY <4>3 DEF MeltReplyLost, Moved
        <5>5. \A x \in C : wallet[x] # "spent"
          BY <5>2 DEF Held, Stored, Fresh
        <5> QED BY <5>1, <5>2, <5>3, <5>4, <5>5
      <4> QED BY <2>3, <4>1, <4>2, <4>3
    <3>2. UNCHANGED mapping /\ \A x \in Proof \ cycle.group : paid'[x] = paid[x]
      BY <2>3 DEF MeltPaid, MeltPaidWithChange, MeltReplyLost, Pay, Moved
    <3>3. /\ \A x \in C : mint'[x] = "unspent"
          /\ \A x \in cycle.group : mint[x] = "unspent"
          /\ \A x \in Proof \ C : x \in cycle.group => mint'[x] = "spent"
          /\ \A x \in Proof \ (C \cup cycle.group) : mint'[x] = mint[x]
      BY <3>1, <2>0 DEF PayAtMint, Pay
    <3> QED BY <3>1, <3>2, <3>3, <2>0 DEF Held, Stored, Fresh, SpentAtMint
  <2>4. CASE MeltFails
    BY <2>4, <1>0 DEF MeltFails, Held, Stored, Fresh, SpentAtMint
  <2>5. CASE UnmapMelted \/ Sweep
    <3>1. \A x \in Proof : mapping'[x] = mapping[x] \/ mapping'[x] = None
      BY <2>5 DEF UnmapMelted, Sweep, SweepBut, Mapped, Moved
    <3> QED BY <2>5, <3>1, <1>0 DEF UnmapMelted, Sweep, SweepBut, Held, Stored, Fresh, SpentAtMint
  <2>6. CASE MapChange
    BY <2>6, <1>0 DEF MapChange, Mapped, Moved, Held, Stored, Fresh, SpentAtMint, ChangeIsMinted
  <2>7. CASE SweepDelete
    BY <2>7, <1>0 DEF SweepDelete, Moved, Held, Stored, Fresh, SpentAtMint
  <2> QED BY <1>3, <2>1, <2>2, <2>3, <2>4, <2>5, <2>6, <2>7 DEF RedeemStep
<1>4. CASE \/ \E w \in Worker : WorkerDies(w)
           \/ RedeemerDies \/ RedisFails \/ RedisRecovers \/ UNCHANGED vars
  BY <1>4, <1>a DEF WorkerDies, RedeemerDies, RedisFails, RedisRecovers, vars
<1>5. CASE Restart
  <2>1. UNCHANGED <<mint, mapping, owner, paid>>
    BY <1>5 DEF Restart
  <2> QED BY <1>5, <2>1, RestartEffect DEF Held, Stored, Fresh, SpentAtMint
<1> QED BY <1>1, <1>2, <1>3, <1>4, <1>5 DEF Next

\* Every step keeps the swaps the mint made in agreement with its states.
LEMMA SwapsStep == TypeOK /\ Held /\ [Next]_vars => SwapsAreMints'
<1> SUFFICES ASSUME TypeOK, Held, [Next]_vars PROVE SwapsAreMints'
  OBVIOUS
<1>0. UNCHANGED P2pk
  BY DeploymentIsFixed
<1>m. \A t \in Token : /\ mint[In(t)] = "spent" => mint'[In(t)] = "spent"
                       /\ mint[Out(t)] # "none" => mint'[Out(t)] # "none"
  BY MintMoves, ProofNames
<1>t. \A v \in Worker : request[v].step \in AfterSwap => Tok(v) \in Token
  BY DEF TypeOK, RequestsOK, At, AfterSwap
<1>a. UNCHANGED request => SwapsAreMints'
  BY <1>0, <1>m, <1>t DEF Held, SwapsAreMints, Tok
<1>b. ASSUME NEW w \in Worker, NEW s \in RequestSteps,
             request'[w].step = s, \A v \in Worker \ {w} : request'[v] = request[v],
             P2pk => s \in {"idle", "map", "store"},
             s \in AfterSwap => /\ request'[w].token = request[w].token
                                /\ request[w].step \in AfterSwap
      PROVE  SwapsAreMints'
  BY <1>b, <1>0, <1>m, <1>t DEF Held, SwapsAreMints, Tok
<1>c. ASSUME NEW w \in Worker, Answer(w) PROVE SwapsAreMints'
  <2>1. request'[w].step = "idle" /\ \A v \in Worker \ {w} : request'[v] = request[v]
    BY <1>c, AnswerIdles DEF TypeOK, RequestsOK, Idle
  <2> QED BY <2>1, <1>b DEF RequestSteps, AfterSwap
<1>d. ASSUME NEW w \in Worker, NEW s \in RequestSteps, Goto(w, s),
             P2pk => s \in {"idle", "map", "store"},
             s \in AfterSwap => request[w].step \in AfterSwap
      PROVE  SwapsAreMints'
  BY <1>b, <1>d, GotoMoves DEF TypeOK, RequestsOK
<1>1. ASSUME NEW w \in Worker, NEW t \in Token, NEW a \in Address, Present(w, t, a)
      PROVE  SwapsAreMints'
  <2>1. request'[w].step = "map" /\ \A v \in Worker \ {w} : request'[v] = request[v]
    BY <1>1 DEF Present, TypeOK, RequestsOK
  <2> QED BY <2>1, <1>b DEF RequestSteps, AfterSwap
<1>2. ASSUME NEW w \in Worker, RequestStep(w) PROVE SwapsAreMints'
  <2>1. CASE Answer(w)
    BY <2>1, <1>c
  <2>2. CASE Swap(w)
    <3>1. /\ Tok(w) \in Token /\ At(w, "swapping") /\ mint[In(Tok(w))] = "unspent"
          /\ ~P2pk
      BY <2>2 DEF Swap, At, TypeOK, RequestsOK, Held, SwapsAreMints
    <3>2. mint'[In(Tok(w))] = "spent" /\ mint'[Out(Tok(w))] # "none"
      BY <2>2, <3>1, ProofNames DEF Swap, TypeOK, StoresOK
    <3>3. /\ request'[w].token = request[w].token
          /\ \A v \in Worker \ {w} : request'[v] = request[v]
      BY <2>2, GotoMoves DEF Swap, TypeOK, RequestsOK, RequestSteps, AfterSwap
    <3>4. \A v \in Worker \ {w} : request[v].step \in AfterSwap => Tok(v) # Tok(w)
      BY <3>1 DEF Held, SwapsAreMints
    <3> QED BY <1>0, <1>m, <1>t, <3>1, <3>2, <3>3, <3>4 DEF Held, SwapsAreMints, Tok
  <2>3. CASE (MapIn(w) /\ Goto(w, "store")) \/ (StoreIn(w) /\ ~Answer(w)) \/ SwapReserve(w)
    <3>1. /\ \E s \in {"store", "swap", "swapping"} : Goto(w, s) /\ (P2pk => s = "store")
      BY <2>3 DEF StoreIn, SwapReserve, At, Held, SwapsAreMints
    <3> QED BY <3>1, <1>d DEF RequestSteps, AfterSwap
  <2>4. CASE MapOut(w) \/ UnmapIn(w)
    <3>1. /\ \E s \in {"unmapIn", "release"} : Goto(w, s)
          /\ request[w].step \in AfterSwap /\ ~P2pk
      BY <2>4 DEF MapOut, UnmapIn, At, AfterSwap, Held, SwapsAreMints
    <3> QED BY <3>1, <1>d DEF RequestSteps, AfterSwap
  <2>5. \/ Answer(w) \/ Swap(w) \/ MapOut(w) \/ UnmapIn(w)
        \/ (MapIn(w) /\ Goto(w, "store")) \/ (StoreIn(w) /\ ~Answer(w)) \/ SwapReserve(w)
    BY <1>2 DEF RequestStep, MapIn, StoreFails, SwapReplyLost, SwapFails, Release
  <2> QED BY <2>1, <2>2, <2>3, <2>4, <2>5
<1>3. CASE RedeemStep
  BY <1>3, <1>a DEF RedeemStep, CycleStart, ReadMapping, Melt, SkipGroup, MeltPaid,
     MeltPaidWithChange, MeltReplyLost, MeltFails, UnmapMelted, MapChange, Sweep, SweepBut, SweepDelete, Pay
<1>4. ASSUME NEW w \in Worker, WorkerDies(w) PROVE SwapsAreMints'
  BY <1>4, <1>c DEF WorkerDies
<1>5. CASE RedeemerDies \/ RedisFails \/ RedisRecovers \/ UNCHANGED vars
  BY <1>5, <1>a DEF RedeemerDies, RedisFails, RedisRecovers, vars
<1>6. CASE Restart
  BY <1>6 DEF Restart, SwapsAreMints, Idle, AfterSwap
<1> QED BY <1>1, <1>2, <1>3, <1>4, <1>5, <1>6 DEF Next

\* Every step keeps the cycle's groups held, and its change minted.
LEMMA CycleStep == TypeOK /\ Held /\ [Next]_vars => CycleIsHeld' /\ ChangeIsMinted'
<1> SUFFICES ASSUME TypeOK, Held, [Next]_vars PROVE CycleIsHeld' /\ ChangeIsMinted'
  OBVIOUS
<1>0. \A x \in Proof : mint[x] # "none" => mint'[x] # "none"
  BY MintMoves
<1>t. /\ cycle.unread \subseteq Proof /\ cycle.group \subseteq Proof /\ cycle.change \subseteq Proof
      /\ cycle.plan \subseteq Proof \X Address
      /\ \A p \in cycle.plan : p[1] \in Proof
      /\ InCycle \subseteq Proof
  BY DEF TypeOK, CycleOK, Cycles, InCycle
<1>a. ASSUME UNCHANGED cycle, \A x \in Proof : wallet[x] # "absent" => wallet'[x] # "absent"
      PROVE  CycleIsHeld' /\ ChangeIsMinted'
  BY <1>a, <1>0, <1>t DEF Held, CycleIsHeld, ChangeIsMinted, InCycle
<1>b. ASSUME cycle'.unread = {}, cycle'.plan \in {{}, cycle.plan}, cycle'.group = {},
             cycle'.change = {},
             \A p \in cycle.plan : wallet'[p[1]] # "absent" \/ cycle'.plan = {}
      PROVE  CycleIsHeld' /\ ChangeIsMinted'
  BY <1>b DEF CycleIsHeld, ChangeIsMinted, InCycle
<1>c. \A p : /\ Rest(p).unread = {} /\ Rest(p).plan = p /\ Rest(p).group = {}
             /\ Rest(p).change = {} /\ Rest(p).step \in {"sweep", "melt"}
  BY DEF Rest, Asleep
<1>d. Asleep.unread = {} /\ Asleep.plan = {} /\ Asleep.group = {} /\ Asleep.change = {}
  BY DEF Asleep
<1>e. ASSUME cycle' = Asleep PROVE CycleIsHeld' /\ ChangeIsMinted'
  BY <1>b, <1>d, <1>e
<1>p. \A p \in cycle.plan : wallet[p[1]] # "absent"
  BY DEF Held, CycleIsHeld, InCycle
<1>1. ASSUME NEW w \in Worker, NEW t \in Token, NEW a \in Address, Present(w, t, a)
      PROVE  CycleIsHeld' /\ ChangeIsMinted'
  BY <1>1, <1>a DEF Present
<1>2. ASSUME NEW w \in Worker, RequestStep(w) PROVE CycleIsHeld' /\ ChangeIsMinted'
  BY <1>2, <1>a DEF RequestStep, MapIn, StoreIn, StoreFails, SwapReserve, Swap, SwapReplyLost,
     SwapFails, MapOut, UnmapIn, Release, TypeOK, StoresOK
<1>3. CASE RedeemStep
  <2>1. CASE CycleStart
    <3>1. /\ cycle'.unread \subseteq {x \in Proof : wallet[x] = "unspent"}
          /\ cycle'.plan = {} /\ cycle'.group = {} /\ cycle'.change = {}
      BY <2>1 DEF CycleStart, Asleep
    <3> QED BY <2>1, <3>1 DEF CycleStart, CycleIsHeld, ChangeIsMinted, InCycle
  <2>2. ASSUME NEW x \in Proof, ReadMapping(x) PROVE CycleIsHeld' /\ ChangeIsMinted'
    <3>1. CASE cycle' = [Asleep EXCEPT !.step = "sweep"]
      BY <3>1, <1>b DEF Asleep
    <3>2. ASSUME NEW a \in Address, Plan(x, a) PROVE CycleIsHeld' /\ ChangeIsMinted'
      <4>1. /\ cycle'.unread = cycle.unread \ {x} /\ cycle'.plan = cycle.plan \cup {<<x, a>>}
            /\ cycle'.group = cycle.group /\ cycle'.change = cycle.change
        BY <3>2 DEF Plan, TypeOK, CycleOK, Cycles
      <4>2. x \in cycle.unread /\ cycle.change = {} /\ UNCHANGED wallet
        BY <2>2 DEF ReadMapping, Redeeming, Held, ChangeIsMinted
      <4>3. InCycle' \subseteq InCycle
        BY <4>1, <4>2 DEF InCycle
      <4> QED BY <4>1, <4>2, <4>3 DEF Held, CycleIsHeld, ChangeIsMinted
    <3>3. \/ \E a \in Address : Plan(x, a)
          \/ cycle' = [Asleep EXCEPT !.step = "sweep"]
      BY <2>2 DEF ReadMapping, TypeOK, StoresOK, SharedOK, HasRedis, Address
    <3> QED BY <3>1, <3>2, <3>3
  <2>3. ASSUME NEW a \in Address, Melt(a) PROVE CycleIsHeld' /\ ChangeIsMinted'
    <3>1. PICK S \in SUBSET GroupOf(a) :
             /\ wallet' = Moved(wallet, S, "reserved")
             /\ cycle' = [Without(a) EXCEPT !.step = "melting", !.group = S, !.address = a]
      BY <2>3 DEF Melt
    <3>2. /\ cycle'.unread = {} /\ cycle'.plan \subseteq cycle.plan /\ cycle'.group = S
          /\ cycle'.change = {} /\ S \subseteq {p[1] : p \in cycle.plan}
      BY <3>1, <1>c DEF Without, Rest, Asleep, GroupOf
    <3>3. InCycle' \subseteq InCycle
      BY <3>2 DEF InCycle
    <3> QED BY <3>1, <3>2, <3>3, <1>t DEF Moved, Held, CycleIsHeld, ChangeIsMinted
  <2>4. ASSUME NEW a \in Address, SkipGroup(a) PROVE CycleIsHeld' /\ ChangeIsMinted'
    <3>1. /\ cycle'.unread = {} /\ cycle'.plan \subseteq cycle.plan /\ cycle'.group = {}
          /\ cycle'.change = {}
      BY <2>4, <1>c DEF SkipGroup, Without
    <3>2. InCycle' \subseteq InCycle
      BY <3>1 DEF InCycle
    <3> QED BY <2>4, <3>1, <3>2 DEF SkipGroup, Held, CycleIsHeld, ChangeIsMinted
  <2>5. ASSUME NEW t \in Token, MeltPaidWithChange(t) PROVE CycleIsHeld' /\ ChangeIsMinted'
    <3>1. Change(t) \in Proof /\ Change(t)[2] = "change"
      BY ProofNames
    <3>2. /\ cycle'.step = "unmap" /\ InCycle' = InCycle /\ cycle'.change = {Change(t)}
      BY <2>5 DEF MeltPaidWithChange, TypeOK, CycleOK, Cycles, InCycle
    <3>3. mint'[Change(t)] # "none"
      BY <2>5, <3>1 DEF MeltPaidWithChange, Moved
    <3>4. \A x \in Proof : wallet[x] # "absent" => wallet'[x] # "absent"
      BY <2>5, <3>1 DEF MeltPaidWithChange, Moved
    <3> QED BY <3>1, <3>2, <3>3, <3>4, <1>t DEF Held, CycleIsHeld, ChangeIsMinted
  <2>6. CASE MeltPaid
    <3>1. cycle'.step = "unmap" /\ InCycle' = InCycle /\ cycle'.change = cycle.change
      BY <2>6 DEF MeltPaid, TypeOK, CycleOK, Cycles, InCycle
    <3>2. \A x \in Proof : wallet[x] # "absent" => wallet'[x] # "absent"
      BY <2>6 DEF MeltPaid, Moved
    <3> QED BY <3>1, <3>2, <1>0, <1>t DEF Held, CycleIsHeld, ChangeIsMinted
  <2>7. CASE MeltReplyLost \/ MeltFails \/ MapChange
    <3>1. cycle' = Rest(cycle.plan)
      BY <2>7 DEF MeltReplyLost, MeltFails, MapChange
    <3>2. \A x \in Proof : wallet[x] # "absent" => wallet'[x] # "absent"
      BY <2>7 DEF MeltReplyLost, MeltFails, MapChange, Moved
    <3> QED BY <3>1, <3>2, <1>b, <1>c, <1>p, <1>t
  <2>8. CASE UnmapMelted
    <3>1. /\ cycle'.step = "change" /\ InCycle' = InCycle /\ cycle'.change = cycle.change
      BY <2>8 DEF UnmapMelted, TypeOK, CycleOK, Cycles, InCycle
    <3> QED BY <2>8, <3>1, <1>0, <1>t DEF UnmapMelted, Held, CycleIsHeld, ChangeIsMinted
  <2>9. CASE Sweep
    <3>1. CASE cycle' = Asleep
      BY <3>1, <1>e
    <3>2. CASE cycle' # Asleep
      <4>1. PICK S \in SUBSET Proof :
               /\ \A x \in S : wallet[x] = "spent" /\ x \notin saga
               /\ cycle' = [Asleep EXCEPT !.step = "delete", !.group = S]
        BY <2>9, <3>2, SweepEffect
      <4>2. /\ cycle'.unread = {} /\ cycle'.plan = {} /\ cycle'.change = {}
            /\ cycle'.group = S
        BY <4>1 DEF Asleep
      <4>3. UNCHANGED wallet
        BY <2>9, SweepEffect
      <4> QED BY <4>1, <4>2, <4>3 DEF CycleIsHeld, ChangeIsMinted, InCycle
    <3> QED BY <3>1, <3>2
  <2>10. CASE SweepDelete
    BY <2>10, <1>e DEF SweepDelete
  <2> QED BY <1>3, <2>1, <2>2, <2>3, <2>4, <2>5, <2>6, <2>7, <2>8, <2>9, <2>10 DEF RedeemStep
<1>4. CASE \/ \E w \in Worker : WorkerDies(w)
           \/ RedisFails \/ RedisRecovers \/ UNCHANGED vars
  BY <1>4, <1>a DEF WorkerDies, RedisFails, RedisRecovers, vars
<1>5. CASE RedeemerDies \/ Restart
  BY <1>5, <1>e DEF RedeemerDies, Restart
<1> QED BY <1>1, <1>2, <1>3, <1>4, <1>5 DEF Next

\* Every step unmaps and deletes only groups the mint has spent.
LEMMA GroupStep == TypeOK /\ Held /\ [Next]_vars => GroupIsSpent'
<1> SUFFICES ASSUME TypeOK, Held, [Next]_vars, cycle'.step \in {"unmap", "delete"}
             PROVE  \A x \in cycle'.group : mint'[x] = "spent"
  BY DEF GroupIsSpent
<1>0. \A x \in Proof : mint[x] = "spent" => mint'[x] = "spent"
  BY MintMoves
<1>t. cycle \in Cycles /\ cycle.group \subseteq Proof
  BY DEF TypeOK, CycleOK, Cycles
<1>1. CASE cycle' = cycle
  BY <1>0, <1>1, <1>t DEF Held, GroupIsSpent
<1>2. CASE MeltPaid
  BY <1>2, <1>t DEF MeltPaid, Moved, Cycles
<1>3. ASSUME NEW t \in Token, MeltPaidWithChange(t) PROVE \A x \in cycle'.group : mint'[x] = "spent"
  <2>1. cycle'.group = cycle.group
    BY <1>3, <1>t DEF MeltPaidWithChange, Cycles
  <2>2. Change(t) \notin cycle.group
    BY <1>3 DEF MeltPaidWithChange, MayChange, Pay
  <2>3. \A x \in Proof \ {Change(t)} : mint'[x] = IF x \in cycle.group THEN "spent" ELSE mint[x]
    BY <1>3 DEF MeltPaidWithChange, Moved
  <2> QED BY <2>1, <2>2, <2>3, <1>t
<1>4. CASE Sweep
  <2>1. cycle' # Asleep
    BY DEF Asleep
  <2>2. cycle'.group \subseteq {x \in Proof : wallet[x] = "spent"} /\ UNCHANGED mint
    BY <1>4, <2>1, SweepEffect
  <2> QED BY <2>2 DEF Held, Stored, SpentAtMint
<1>5. \A p : Rest(p).step \in {"sweep", "melt"}
  BY DEF Rest, Asleep
<1>6. ASSUME NEW x \in Proof, ReadMapping(x) PROVE FALSE
  BY <1>6, <1>t DEF ReadMapping, Plan, Asleep, Cycles
<1>7. ASSUME NEW a \in Address, Melt(a) \/ SkipGroup(a) PROVE FALSE
  <2>1. Without(a).step \in {"sweep", "melt"}
    BY <1>5 DEF Without
  <2>2. \A S : [Without(a) EXCEPT !.step = "melting", !.group = S, !.address = a].step = "melting"
    BY DEF Without, Rest, Asleep
  <2> QED BY <1>7, <2>1, <2>2 DEF Melt, SkipGroup
<1>8. CASE \/ CycleStart \/ MeltReplyLost \/ MeltFails \/ UnmapMelted \/ MapChange \/ SweepDelete
           \/ RedeemerDies \/ Restart
  <2>1. CASE CycleStart
    <3>1. PICK s \in {"sweep", "read"}, S \in SUBSET Proof :
             cycle' = [Asleep EXCEPT !.step = s, !.unread = S]
      BY <2>1 DEF CycleStart
    <3>2. cycle'.step = s
      BY <3>1 DEF Asleep
    <3> QED BY <3>2
  <2>2. CASE UnmapMelted
    BY <2>2, <1>t DEF UnmapMelted, Cycles
  <2>3. CASE SweepDelete \/ RedeemerDies \/ Restart
    BY <2>3 DEF SweepDelete, RedeemerDies, Restart, Asleep
  <2>4. CASE MeltReplyLost \/ MeltFails \/ MapChange
    BY <2>4, <1>5 DEF MeltReplyLost, MeltFails, MapChange
  <2> QED BY <1>8, <2>1, <2>2, <2>3, <2>4
<1>9. CASE \/ \E w \in Worker, t \in Token, a \in Address : Present(w, t, a)
           \/ \E w \in Worker : RequestStep(w) \/ WorkerDies(w)
           \/ RedisFails \/ RedisRecovers \/ UNCHANGED vars
  BY <1>1, <1>9 DEF Present, RequestStep, MapIn, StoreIn, StoreFails, SwapReserve, Swap,
     SwapReplyLost, SwapFails, MapOut, UnmapIn, Release, WorkerDies, RedisFails, RedisRecovers, vars
<1> QED BY <1>2, <1>3, <1>4, <1>6, <1>7, <1>8, <1>9 DEF Next, RedeemStep

\* Every step leaves the proofs of a saga that is there alone.
LEMMA SagaStep == TypeOK /\ Held /\ [Next]_vars => SagaIsHeld'
<1> SUFFICES ASSUME TypeOK, Held, [Next]_vars PROVE SagaIsHeld'
  OBVIOUS
<1>0. \A x \in Proof : mint[x] = "spent" => mint'[x] = "spent"
  BY MintMoves
<1>t. saga \subseteq Proof /\ cycle \in Cycles /\ cycle.group \subseteq Proof
  BY DEF TypeOK, SharedOK, CycleOK, Cycles
<1>h. /\ \A x \in saga : x \in Proof /\ mint[x] = "spent" /\ wallet[x] # "absent"
      /\ cycle.step = "delete" => cycle.group \cap saga = {} /\ \A x \in cycle.group : mint[x] = "spent"
  BY <1>t DEF Held, SagaIsHeld, GroupIsSpent
\* Steps that add no saga and delete no proof.
<1>a. ASSUME saga' \subseteq saga, \A x \in saga' : wallet'[x] # "absent",
             cycle'.step = "delete" => cycle' = cycle
      PROVE  SagaIsHeld'
  BY <1>a, <1>0, <1>h DEF SagaIsHeld
<1>r. \A p : Rest(p).step # "delete"
  BY DEF Rest, Asleep
<1>s. Asleep.step # "delete" /\ Asleep.group = {}
  BY DEF Asleep
<1>1. ASSUME NEW w \in Worker, NEW t \in Token, NEW a \in Address, Present(w, t, a) PROVE SagaIsHeld'
  BY <1>1, <1>a, <1>h DEF Present
<1>2. ASSUME NEW w \in Worker, RequestStep(w) PROVE SagaIsHeld'
  <2>1. UNCHANGED cycle
    BY <1>2 DEF RequestStep, MapIn, StoreIn, StoreFails, SwapReserve, Swap, SwapReplyLost,
       SwapFails, MapOut, UnmapIn, Release
  <2>2. \A x \in Proof : wallet[x] # "absent" => wallet'[x] # "absent"
    BY <1>2 DEF RequestStep, MapIn, StoreIn, StoreFails, SwapReserve, Swap, SwapReplyLost,
       SwapFails, MapOut, UnmapIn, Release, TypeOK, StoresOK
  <2>3. CASE saga' \subseteq saga
    BY <2>1, <2>2, <2>3, <1>a, <1>h
  <2>4. CASE ~(saga' \subseteq saga)
    <3>1. Swap(w) /\ saga' = saga \cup {In(Tok(w))}
      BY <1>2, <2>4 DEF RequestStep, MapIn, StoreIn, StoreFails, SwapReserve, Swap, SagaEnds,
         SwapReplyLost, SwapFails, MapOut, UnmapIn, Release
    <3>2. Tok(w) \in Token /\ mint[In(Tok(w))] = "unspent"
      BY <3>1 DEF Swap, At, TypeOK, RequestsOK
    <3>3. mint'[In(Tok(w))] = "spent" /\ wallet'[In(Tok(w))] # "absent"
      BY <3>1, <3>2, ProofNames DEF Swap, TypeOK, StoresOK
    <3> QED BY <2>1, <2>2, <3>1, <3>2, <3>3, <1>0, <1>h DEF SagaIsHeld
  <2> QED BY <2>3, <2>4
<1>3. CASE RedeemStep
  <2>1. CASE CycleStart
    <3>1. PICK s \in {"sweep", "read"}, S \in SUBSET Proof :
             cycle' = [Asleep EXCEPT !.step = s, !.unread = S]
      BY <2>1 DEF CycleStart
    <3>2. cycle'.step = s
      BY <3>1 DEF Asleep
    <3> QED BY <2>1, <3>2, <1>a, <1>h DEF CycleStart
  <2>2. ASSUME NEW x \in Proof, ReadMapping(x) PROVE SagaIsHeld'
    <3>1. cycle'.step # "delete"
      BY <2>2, <1>t DEF ReadMapping, Plan, Asleep, Cycles
    <3> QED BY <2>2, <3>1, <1>a, <1>h DEF ReadMapping
  <2>3. ASSUME NEW a \in Address, Melt(a) PROVE SagaIsHeld'
    <3>1. PICK S \in SUBSET GroupOf(a) :
             /\ wallet' = Moved(wallet, S, "reserved")
             /\ cycle' = [Without(a) EXCEPT !.step = "melting", !.group = S, !.address = a]
      BY <2>3 DEF Melt
    <3>2. cycle'.step = "melting"
      BY <3>1 DEF Without, Rest, Asleep
    <3>3. \A x \in Proof : wallet[x] # "absent" => wallet'[x] # "absent"
      BY <3>1 DEF Moved
    <3> QED BY <2>3, <3>2, <3>3, <1>a, <1>h DEF Melt
  <2>4. ASSUME NEW a \in Address, SkipGroup(a) PROVE SagaIsHeld'
    BY <2>4, <1>a, <1>h, <1>r DEF SkipGroup, Without
  <2>5. CASE MeltPaid \/ \E t \in Token : MeltPaidWithChange(t)
    <3>1. saga' \subseteq saga \cup cycle.group /\ cycle'.step = "unmap"
      BY <2>5, <1>t DEF MeltPaid, MeltPaidWithChange, SagaEnds, Cycles
    <3>2. \A x \in cycle.group : mint'[x] = "spent" /\ wallet'[x] # "absent"
      <4>1. CASE MeltPaid
        BY <4>1, <1>t DEF MeltPaid, Moved
      <4>2. ASSUME NEW t \in Token, MeltPaidWithChange(t)
            PROVE  \A x \in cycle.group : mint'[x] = "spent" /\ wallet'[x] # "absent"
        <5>1. Change(t) \notin cycle.group
          BY <4>2 DEF MeltPaidWithChange, MayChange, Pay
        <5> QED BY <4>2, <5>1, <1>t DEF MeltPaidWithChange, Moved
      <4> QED BY <2>5, <4>1, <4>2
    <3>3. \A x \in Proof : wallet[x] # "absent" => wallet'[x] # "absent"
      <4>1. MeltPaid => \A x \in Proof : wallet[x] # "absent" => wallet'[x] # "absent"
        BY DEF MeltPaid, Moved
      <4>2. \A t \in Token : MeltPaidWithChange(t) =>
               \A x \in Proof : wallet[x] # "absent" => wallet'[x] # "absent"
        BY ProofNames DEF MeltPaidWithChange, Moved
      <4> QED BY <2>5, <4>1, <4>2
    <3> QED BY <3>1, <3>2, <3>3, <1>0, <1>h DEF SagaIsHeld
  <2>6. CASE MeltReplyLost \/ MeltFails \/ MapChange
    <3>1. cycle' = Rest(cycle.plan) /\ UNCHANGED saga
      BY <2>6 DEF MeltReplyLost, MeltFails, MapChange
    <3>2. \A x \in Proof : wallet[x] # "absent" => wallet'[x] # "absent"
      BY <2>6 DEF MeltReplyLost, MeltFails, MapChange, Moved
    <3> QED BY <3>1, <3>2, <1>a, <1>h, <1>r
  <2>7. CASE UnmapMelted
    <3>1. cycle'.step = "change"
      BY <2>7, <1>t DEF UnmapMelted, Cycles
    <3> QED BY <2>7, <3>1, <1>a, <1>h DEF UnmapMelted
  <2>8. CASE Sweep
    <3>1. cycle'.group \cap saga = {} /\ UNCHANGED <<saga, wallet, mint>>
      <4>1. PICK S \in SUBSET Proof :
               /\ S \cap saga = {}
               /\ cycle' = Asleep \/ cycle'.group = S
        BY <2>8, SweepEffect
      <4>2. Asleep.group = {}
        BY DEF Asleep
      <4> QED BY <2>8, <4>1, <4>2, SweepEffect
    <3> QED BY <3>1, <1>h DEF SagaIsHeld
  <2>9. CASE SweepDelete
    <3>1. \A x \in saga : wallet'[x] # "absent"
      BY <2>9, <1>h DEF SweepDelete, Redeeming, Moved
    <3> QED BY <2>9, <3>1, <1>a, <1>s DEF SweepDelete
  <2> QED BY <1>3, <2>1, <2>2, <2>3, <2>4, <2>5, <2>6, <2>7, <2>8, <2>9 DEF RedeemStep
<1>4. CASE \/ \E w \in Worker : WorkerDies(w)
           \/ RedisFails \/ RedisRecovers \/ UNCHANGED vars
  BY <1>4, <1>a, <1>h DEF WorkerDies, RedisFails, RedisRecovers, vars
<1>5. CASE RedeemerDies
  BY <1>5, <1>a, <1>h, <1>s DEF RedeemerDies
<1>6. CASE Restart
  <2>1. PICK reached \in SUBSET Findable :
           /\ \E kept \in SUBSET Findable : wallet' = Reconciled(reached, kept)
           /\ saga' = saga \ reached
    BY <1>6 DEF Restart
  <2>2. \A x \in saga' : wallet'[x] = wallet[x]
    BY <2>1, <1>t DEF Reconciled
  <2> QED BY <1>6, <2>1, <2>2, <1>a, <1>h, <1>s DEF Restart
<1> QED BY <1>1, <1>2, <1>3, <1>4, <1>5, <1>6 DEF Next

\* The first layer: mint and wallet.
LEMMA HeldInvariant == Spec => [](TypeOK /\ Held)
<1>1. Init => Held
  <2> SUFFICES ASSUME Init PROVE Held
    OBVIOUS
  <2>1. Stored
    BY ProofNames DEF Init, Stored, Fresh, Received, SwapOnce, SpentAtMint
  <2>2. SwapsAreMints
    BY DEF Init, SwapsAreMints, Idle, AfterSwap
  <2>3. CycleIsHeld /\ ChangeIsMinted /\ GroupIsSpent /\ SagaIsHeld
    BY DEF Init, CycleIsHeld, ChangeIsMinted, GroupIsSpent, SagaIsHeld, InCycle, Asleep
  <2> QED BY <2>1, <2>2, <2>3 DEF Held
<1>2. TypeOK /\ Held /\ [Next]_vars => Held'
  BY StoredStep, SwapsStep, CycleStep, GroupStep, SagaStep DEF Held
<1> QED BY <1>1, <1>2, TypeCorrect, PTL DEF Spec

----------------------------------------------------------------------------
(* Which address a request may still name *)

\* With P2PK and Redis a request holds the marker of its token.
Claiming     == P2pk /\ HasRedis
Untouched(t) == wallet[In(t)] = "absent" /\ paid[In(t)] = None

\* Whoever named an address for a swapped proof named it for the token.
OutIsIn == \A t \in Token : owner[Out(t)] \subseteq owner[In(t)]

\* A request's own naming still stands while it works.
RequestsOwn ==
    \A w \in Worker :
       /\ ~At(w, "idle") /\ (P2pk => HasRedis) => request[w].address \in owner[In(Tok(w))]
       /\ request[w].step \in AfterSwap => request[w].address \in owner[Out(Tok(w))]

\* One request at a time works on a token, and before any money moved.
Claims ==
    Claiming =>
       /\ \A t \in Token \ claimed : Untouched(t)
       /\ \A w \in Worker : ~At(w, "idle") => Tok(w) \in claimed /\ Untouched(Tok(w))
       /\ \A u, w \in Worker :
             u # w /\ ~At(u, "idle") /\ ~At(w, "idle") => Tok(u) # Tok(w)

Named == OutIsIn /\ RequestsOwn /\ Claims

\* Every step keeps what requests may name.
LEMMA NamedStep == TypeOK /\ Held /\ Named /\ [Next]_vars => Named'
<1> SUFFICES ASSUME TypeOK, Held, Named, [Next]_vars PROVE Named'
  OBVIOUS
<1>0. UNCHANGED <<P2pk, HasRedis, Claiming>>
  BY DeploymentIsFixed DEF Claiming
<1>t. \A v \in Worker : ~At(v, "idle") => Tok(v) \in Token /\ request[v].address \in Address
  BY DEF TypeOK, RequestsOK
<1>s. \A v \in Worker : /\ request[v].step \in AfterSwap => ~At(v, "idle")
                        /\ P2pk => request[v].step \in {"idle", "map", "store"}
                        /\ P2pk => request[v].step \notin AfterSwap
  BY DEF AfterSwap, At, Held, SwapsAreMints
\* Steps that take no naming back and touch no token without a request's mapping.
<1>a. ASSUME \A t \in Token : owner[In(t)] \subseteq owner'[In(t)] /\ owner'[Out(t)] = owner[Out(t)],
             UNCHANGED claimed,
             \A t \in Token : Untouched(t) => Untouched(t)',
             \A v \in Worker : \/ request'[v].step = "idle"
                               \/ /\ request'[v].token = request[v].token
                                  /\ request'[v].address = request[v].address
                                  /\ request[v].step # "idle"
                                  /\ request'[v].step \in AfterSwap => request[v].step \in AfterSwap
      PROVE  Named'
  <2>1. OutIsIn'
    BY <1>a DEF Named, OutIsIn
  <2>2. RequestsOwn'
    <3> SUFFICES ASSUME NEW v \in Worker, request'[v].step # "idle"
                 PROVE  /\ (P2pk => HasRedis) => request'[v].address \in owner'[In(request'[v].token)]
                        /\ request'[v].step \in AfterSwap
                              => request'[v].address \in owner'[Out(request'[v].token)]
      BY <1>0 DEF RequestsOwn, At, Tok, AfterSwap
    <3>1. /\ request'[v].token = Tok(v) /\ request'[v].address = request[v].address
          /\ ~At(v, "idle") /\ Tok(v) \in Token
          /\ request'[v].step \in AfterSwap => request[v].step \in AfterSwap
      BY <1>a, <1>t DEF At, Tok
    <3> QED BY <1>a, <3>1 DEF Named, RequestsOwn
  <2>3. Claims'
    BY <1>0, <1>a, <1>t DEF Named, Claims, At, Tok
  <2> QED BY <2>1, <2>2, <2>3 DEF Named
<1>b. ASSUME UNCHANGED <<owner, claimed, request>>,
             \A t \in Token : Untouched(t) => Untouched(t)'
      PROVE  Named'
  <2>1. OutIsIn' /\ RequestsOwn'
    BY <1>0, <1>b DEF Named, OutIsIn, RequestsOwn, At, Tok
  <2>2. Claims'
    BY <1>0, <1>b, <1>t DEF Named, Claims, At, Tok
  <2> QED BY <2>1, <2>2 DEF Named
<1>c. ASSUME UNCHANGED <<wallet, paid>> PROVE \A t \in Token : Untouched(t) => Untouched(t)'
  BY <1>c DEF Untouched
<1>1. ASSUME NEW w \in Worker, NEW t \in Token, NEW a \in Address, Present(w, t, a)
      PROVE  Named'
  <2>1. /\ request'[w] = [step |-> "map", token |-> t, address |-> a]
        /\ \A v \in Worker \ {w} : request'[v] = request[v]
        /\ UNCHANGED <<wallet, paid>> /\ At(w, "idle")
    BY <1>1 DEF Present, TypeOK, RequestsOK
  <2>2. /\ owner'[In(t)] = owner[In(t)] \cup {a}
        /\ \A x \in Proof : x # In(t) => owner'[x] = owner[x]
    BY <1>1, ProofNames DEF Present, Earmark, TypeOK, StoresOK
  <2>3. OutIsIn'
    BY <2>2, ProofNames DEF Named, OutIsIn
  <2>4. RequestsOwn'
    <3> SUFFICES ASSUME NEW v \in Worker
                 PROVE  /\ ~At(v, "idle")' /\ (P2pk => HasRedis)
                              => request'[v].address \in owner'[In(request'[v].token)]
                        /\ request'[v].step \in AfterSwap
                              => request'[v].address \in owner'[Out(request'[v].token)]
      BY <1>0 DEF RequestsOwn, Tok
    <3>1. CASE v = w
      BY <3>1, <2>1, <2>2 DEF AfterSwap
    <3>2. CASE v # w
      BY <3>2, <2>1, <2>2, <1>t, <1>s, ProofNames DEF Named, RequestsOwn, At, Tok
    <3> QED BY <3>1, <3>2
  <2>5. Claims'
    <3> SUFFICES ASSUME Claiming PROVE Claims'
      BY <1>0 DEF Claims
    <3>1. t \notin claimed /\ claimed' = claimed \cup {t}
      BY <1>1 DEF Present, Claiming, Reachable
    <3>2. /\ \A v \in Token \ claimed : Untouched(v)
          /\ \A v \in Worker : ~At(v, "idle") => Tok(v) \in claimed /\ Untouched(Tok(v))
          /\ \A u, v \in Worker : u # v /\ ~At(u, "idle") /\ ~At(v, "idle") => Tok(u) # Tok(v)
      BY DEF Named, Claims
    <3>3. \A v \in Token : Untouched(v)' = Untouched(v)
      BY <2>1 DEF Untouched
    <3>4. \A v \in Worker : /\ v # w => At(v, "idle")' = At(v, "idle") /\ Tok(v)' = Tok(v)
                            /\ v = w => Tok(v)' = t
      BY <2>1 DEF At, Tok
    <3> QED BY <2>1, <3>1, <3>2, <3>3, <3>4, <1>t DEF Claims
  <2> QED BY <2>3, <2>4, <2>5 DEF Named
<1>2. ASSUME NEW w \in Worker, RequestStep(w) PROVE Named'
  <2>0. ~At(w, "idle") /\ Tok(w) \in Token
    BY <1>2, <1>t DEF RequestStep, MapIn, StoreIn, StoreFails, SwapReserve, Swap, SwapReplyLost,
       SwapFails, MapOut, UnmapIn, Release, At
  <2>a. Answer(w) => \A v \in Worker : \/ request'[v].step = "idle"
                                       \/ request'[v] = request[v] /\ request[v].step # "idle"
    BY AnswerIdles DEF TypeOK, RequestsOK, Idle
  <2>b. ASSUME NEW s \in RequestSteps, Goto(w, s), s \in AfterSwap => request[w].step \in AfterSwap
        PROVE  \A v \in Worker : \/ request'[v].step = "idle"
                                 \/ /\ request'[v].token = request[v].token
                                    /\ request'[v].address = request[v].address
                                    /\ request[v].step # "idle"
                                    /\ request'[v].step \in AfterSwap => request[v].step \in AfterSwap
    BY <2>b, <2>0, GotoMoves DEF TypeOK, RequestsOK, At
  <2>1. CASE MapIn(w)
    <3>1. Answer(w) \/ Goto(w, "store")
      BY <2>1 DEF MapIn
    <3>2. UNCHANGED <<wallet, paid, owner, claimed>>
      BY <2>1 DEF MapIn
    <3> QED BY <3>1, <3>2, <2>a, <2>b, <1>a, <1>c DEF RequestSteps, AfterSwap
  <2>2. CASE MapOut(w) \/ UnmapIn(w)
    <3>1. (Goto(w, "unmapIn") \/ Goto(w, "release")) /\ request[w].step \in AfterSwap
      BY <2>2 DEF MapOut, UnmapIn, At, AfterSwap
    <3>2. UNCHANGED <<wallet, paid, owner, claimed>>
      BY <2>2 DEF MapOut, UnmapIn
    <3> QED BY <3>1, <3>2, <2>b, <1>a, <1>c DEF RequestSteps, AfterSwap
  <2>3. CASE StoreIn(w)
    <3>1. UNCHANGED <<paid, owner, claimed>> /\ wallet' = [wallet EXCEPT ![In(Tok(w))] = "unspent"]
      BY <2>3 DEF StoreIn
    <3>2. CASE P2pk
      <4>1. request'[w].step = "idle" /\ \A v \in Worker \ {w} : request'[v] = request[v]
        BY <2>3, <3>2, AnswerIdles DEF StoreIn, TypeOK, RequestsOK, Idle
      <4>2. OutIsIn'
        BY <3>1 DEF Named, OutIsIn
      <4>3. RequestsOwn'
        BY <1>0, <3>1, <4>1 DEF Named, RequestsOwn, At, Tok, AfterSwap
      <4>4. \A t \in Token : t # Tok(w) /\ Untouched(t) => Untouched(t)'
        BY <3>1, <2>0, ProofNames DEF Untouched, TypeOK, StoresOK
      <4>5. Claims'
        BY <1>0, <3>1, <4>1, <4>4, <2>0, <1>t DEF Named, Claims, At, Tok
      <4> QED BY <4>2, <4>3, <4>5 DEF Named
    <3>3. CASE ~P2pk
      <4>1. Goto(w, "swap")
        BY <2>3, <3>3 DEF StoreIn
      <4>2. OutIsIn'
        BY <3>1 DEF Named, OutIsIn
      <4>3. RequestsOwn'
        BY <1>0, <1>t, <1>s, <2>b, <3>1, <4>1
           DEF Named, RequestsOwn, At, Tok, RequestSteps, AfterSwap
      <4> QED BY <1>0, <3>3, <4>2, <4>3 DEF Named, Claims, Claiming
    <3> QED BY <3>2, <3>3
  <2>4. CASE StoreFails(w)
    <3>1. UNCHANGED <<paid, wallet>>
      BY <2>4 DEF StoreFails
    <3>2. CASE P2pk
      <4>1. request'[w].step = "idle" /\ \A v \in Worker \ {w} : request'[v] = request[v]
        BY <2>4, AnswerIdles DEF StoreFails, TypeOK, RequestsOK, Idle
      <4>2. /\ \A x \in Proof : x # In(Tok(w)) => owner'[x] = owner[x]
            /\ claimed' \subseteq claimed /\ claimed \subseteq claimed' \cup {Tok(w)}
        BY <2>4, <3>2, <2>0, ProofNames DEF StoreFails, TypeOK, StoresOK
      <4>3. \A t \in Token : owner[Out(t)] = {} /\ owner'[Out(t)] = {}
        <5>1. \A t \in Token : mint[Out(t)] = "none" /\ Out(t) \in Proof /\ Out(t) # In(Tok(w))
          BY <3>2, <2>0, ProofNames DEF Held, Stored, SwapOnce
        <5> QED BY <5>1, <4>2 DEF Held, Stored, Fresh
      <4>4. OutIsIn'
        BY <4>3 DEF OutIsIn
      <4>5. RequestsOwn'
        <5>1. \A v \in Worker : request'[v].step \notin AfterSwap
          BY <4>1, <3>2, <1>s DEF AfterSwap
        <5>2. ASSUME NEW v \in Worker, request'[v].step # "idle", HasRedis
              PROVE  request'[v].address \in owner'[In(request'[v].token)]
          <6>1. v # w /\ request'[v] = request[v] /\ ~At(v, "idle")
            BY <5>2, <4>1 DEF At
          <6>2. Tok(v) # Tok(w) /\ Tok(v) \in Token
            BY <5>2, <6>1, <2>0, <3>2, <1>t DEF Named, Claims, Claiming
          <6> QED BY <5>2, <6>1, <6>2, <4>2, <2>0, ProofNames DEF Named, RequestsOwn, Tok
        <5> QED BY <1>0, <3>2, <5>1, <5>2 DEF RequestsOwn, At, Tok
      <4>6. Claims'
        <5> SUFFICES ASSUME Claiming PROVE Claims'
          BY <1>0 DEF Claims
        <5>1. /\ \A t \in Token \ claimed : Untouched(t)
              /\ \A v \in Worker : ~At(v, "idle") => Tok(v) \in claimed /\ Untouched(Tok(v))
              /\ \A u, v \in Worker : u # v /\ ~At(u, "idle") /\ ~At(v, "idle") => Tok(u) # Tok(v)
          BY DEF Named, Claims
        <5>2. \A t \in Token : Untouched(t)' = Untouched(t)
          BY <3>1 DEF Untouched
        <5>3. \A v \in Worker : ~At(v, "idle")' => v # w /\ ~At(v, "idle") /\ Tok(v)' = Tok(v)
          BY <4>1 DEF At, Tok
        <5> QED BY <5>1, <5>2, <5>3, <4>2, <2>0, <1>t DEF Claims
      <4> QED BY <4>4, <4>5, <4>6 DEF Named
    <3>3. CASE ~P2pk
      BY <2>4, <3>1, <3>3, <2>a, <1>a, <1>c DEF StoreFails
    <3> QED BY <3>2, <3>3
  <2>5. CASE Swap(w) \/ SwapReplyLost(w)
    <3>1. ~P2pk /\ request[w].address \in owner[In(Tok(w))]
      BY <2>5, <1>s, <2>0 DEF Swap, SwapReplyLost, At, Named, RequestsOwn
    <3>2. /\ owner'[Out(Tok(w))] = owner[Out(Tok(w))] \cup {request[w].address}
          /\ \A x \in Proof : x # Out(Tok(w)) => owner'[x] = owner[x]
      BY <2>5, <2>0, ProofNames DEF Swap, SwapReplyLost, Earmark, TypeOK, StoresOK
    <3>3. OutIsIn'
      BY <3>1, <3>2, <2>0, ProofNames DEF Named, OutIsIn
    <3>4. /\ \A v \in Worker \ {w} : request'[v] = request[v]
          /\ \/ request'[w].step = "idle"
             \/ request'[w].token = request[w].token /\ request'[w].address = request[w].address
      BY <2>5, AnswerIdles, GotoMoves
         DEF Swap, SwapReplyLost, TypeOK, RequestsOK, Idle, RequestSteps, AfterSwap
    <3>5. RequestsOwn'
      <4> SUFFICES ASSUME NEW v \in Worker, request'[v].step # "idle"
                   PROVE  /\ request'[v].address \in owner'[In(request'[v].token)]
                          /\ request'[v].step \in AfterSwap
                                => request'[v].address \in owner'[Out(request'[v].token)]
        BY <1>0 DEF RequestsOwn, At, Tok, AfterSwap
      <4>1. CASE v = w
        BY <4>1, <3>1, <3>2, <3>4, <2>0, ProofNames DEF Tok
      <4>2. CASE v # w
        BY <4>2, <3>1, <3>2, <3>4, <1>t, ProofNames DEF Named, RequestsOwn, At, Tok
      <4> QED BY <4>1, <4>2
    <3> QED BY <1>0, <3>1, <3>3, <3>5 DEF Named, Claims, Claiming
  <2>6. CASE SwapReserve(w) \/ SwapFails(w)
    <3>1. ~P2pk /\ UNCHANGED <<owner, claimed>>
      BY <2>6, <1>s DEF SwapReserve, SwapFails, At
    <3>2. OutIsIn'
      BY <3>1 DEF Named, OutIsIn
    <3>3. RequestsOwn'
      BY <1>0, <1>t, <1>s, <2>a, <2>b, <2>6, <3>1
         DEF SwapReserve, SwapFails, Named, RequestsOwn, At, Tok, RequestSteps, AfterSwap
    <3> QED BY <1>0, <3>1, <3>2, <3>3 DEF Named, Claims, Claiming
  <2>7. CASE Release(w)
    <3>1. ~P2pk /\ UNCHANGED owner /\ Answer(w)
      BY <2>7, <1>s DEF Release, At
    <3>2. OutIsIn'
      BY <3>1 DEF Named, OutIsIn
    <3>3. RequestsOwn'
      BY <1>0, <1>t, <1>s, <2>a, <3>1 DEF Named, RequestsOwn, At, Tok, AfterSwap
    <3> QED BY <1>0, <3>1, <3>2, <3>3 DEF Named, Claims, Claiming
  <2> QED BY <1>2, <2>1, <2>2, <2>3, <2>4, <2>5, <2>6, <2>7 DEF RequestStep
<1>3. CASE RedeemStep
  <2>0. UNCHANGED <<request, claimed>>
    BY <1>3 DEF RedeemStep, CycleStart, ReadMapping, Melt, SkipGroup, MeltPaid,
       MeltPaidWithChange, MeltReplyLost, MeltFails, UnmapMelted, MapChange, Sweep, SweepBut, SweepDelete,
       Pay
  <2>g. \A x \in cycle.group : wallet[x] # "absent"
    BY DEF Held, CycleIsHeld, InCycle
  <2>1. \A t \in Token : owner'[In(t)] = owner[In(t)] /\ owner'[Out(t)] = owner[Out(t)]
    <3>1. \A t \in Token : MeltPaidWithChange(t) =>
             \A x \in Proof : x[2] # "change" => owner'[x] = owner[x]
      BY ProofNames DEF MeltPaidWithChange, TypeOK, StoresOK
    <3>2. MeltReplyLost => \A x \in Proof : x[2] # "change" => owner'[x] = owner[x]
      <4> SUFFICES ASSUME MeltReplyLost
                   PROVE  \A x \in Proof : x[2] # "change" => owner'[x] = owner[x]
        OBVIOUS
      <4>1. PICK C \in {{}} \cup {{Change(t)} : t \in MayChange} :
               owner' = [x \in Proof |-> IF x \in C THEN owner[In(x[1])] ELSE owner[x]]
        BY DEF MeltReplyLost
      <4>2. \A x \in C : x[2] = "change"
        BY <4>1, ProofNames DEF MayChange
      <4> QED BY <4>1, <4>2
    <3>3. \/ UNCHANGED owner
          \/ MeltReplyLost \/ \E t \in Token : MeltPaidWithChange(t)
      BY <1>3 DEF RedeemStep, CycleStart, ReadMapping, Melt, SkipGroup, MeltPaid, MeltFails,
         UnmapMelted, MapChange, Sweep, SweepBut, SweepDelete, Pay
    <3> QED BY <3>1, <3>2, <3>3, ProofNames
  <2>2. \A x \in Proof : wallet[x] = "absent" =>
           /\ paid'[x] = paid[x]
           /\ x[2] = "in" => wallet'[x] = "absent"
    <3>1. ASSUME NEW x \in Proof, wallet[x] = "absent"
          PROVE  /\ paid'[x] = paid[x]
                 /\ x[2] = "in" => wallet'[x] = "absent"
      <4>0. x \notin cycle.group
        BY <3>1, <2>g
      <4>1. CASE MeltPaid \/ MeltReplyLost
        BY <3>1, <4>0, <4>1 DEF MeltPaid, MeltReplyLost, Pay, Moved
      <4>2. ASSUME NEW t \in Token, MeltPaidWithChange(t)
            PROVE  /\ paid'[x] = paid[x]
                   /\ x[2] = "in" => wallet'[x] = "absent"
        BY <3>1, <4>0, <4>2, ProofNames DEF MeltPaidWithChange, Pay, Moved
      <4>3. CASE MeltFails \/ SweepDelete \/ \E a \in Address : Melt(a)
        BY <3>1, <4>0, <4>3 DEF MeltFails, SweepDelete, Melt, Moved
      <4>4. CASE \/ CycleStart \/ (\E y \in Proof : ReadMapping(y))
                 \/ (\E a \in Address : SkipGroup(a)) \/ UnmapMelted \/ MapChange \/ Sweep
        BY <3>1, <4>4 DEF CycleStart, ReadMapping, SkipGroup, UnmapMelted, MapChange, Sweep, SweepBut
      <4> QED BY <1>3, <4>1, <4>2, <4>3, <4>4 DEF RedeemStep
    <3> QED BY <3>1
  <2>3. \A t \in Token : Untouched(t) => Untouched(t)'
    BY <2>2, ProofNames DEF Untouched
  <2> QED BY <1>0, <2>0, <2>1, <2>3 DEF Named, OutIsIn, RequestsOwn, Claims, At, Tok, AfterSwap, TypeOK, RequestsOK
<1>4. ASSUME NEW w \in Worker, WorkerDies(w) PROVE Named'
  <2>1. request'[w].step = "idle" /\ \A v \in Worker \ {w} : request'[v] = request[v]
    BY <1>4, AnswerIdles DEF WorkerDies, TypeOK, RequestsOK, Idle
  <2>2. \A v \in Worker : request'[v].step = "idle" \/ (request'[v] = request[v] /\ request[v].step # "idle")
    BY <2>1
  <2> QED BY <1>4, <2>2, <1>a, <1>c DEF WorkerDies
<1>5. CASE RedeemerDies \/ RedisFails \/ RedisRecovers \/ UNCHANGED vars
  BY <1>5, <1>b, <1>c DEF RedeemerDies, RedisFails, RedisRecovers, vars
<1>6. CASE Restart
  <2>1. \A t \in Token : Untouched(t) => Untouched(t)'
    <3>1. UNCHANGED paid
      BY <1>6 DEF Restart
    <3> QED BY <1>6, <3>1, RestartEffect, ProofNames DEF Untouched
  <2> QED BY <1>6, <2>1, <1>a DEF Restart, Idle
<1> QED BY <1>1, <1>2, <1>3, <1>4, <1>5, <1>6 DEF Next

\* The second layer: requests.
LEMMA NamedInvariant == Spec => [](TypeOK /\ Held /\ Named)
<1>1. Init => Named
  BY ProofNames, FundsAssumption
     DEF Init, Named, OutIsIn, RequestsOwn, Claims, Untouched, Idle, At, AfterSwap
<1>2. TypeOK /\ Held /\ Named /\ [Next]_vars => Named'
  BY NamedStep
<1> QED BY <1>1, <1>2, HeldInvariant, PTL DEF Spec

----------------------------------------------------------------------------
(* Where mappings, the plan and payments point *)

\* The settings NeverAnotherTenant and PaidAsNamed speak of.
Clean  == ~(P2pk /\ "map" \in Faults)
Calmly == HasRedis /\ Faults = {}
Extra  == IF Calmly THEN {} ELSE {Default}

\* Without Redis everything pays the default address.
NoRedis ==
    ~HasRedis =>
       /\ \A p \in cycle.plan : p[2] = Default
       /\ cycle.step = "melting" \/ cycle.change # {} => cycle.address = Default
       /\ \A x \in Proof : mapping[x] = None /\ paid[x] \in {None, Default}

\* Redis still answers a request or a cycle that has a mapping to write.
RedisStays ==
    HasRedis /\ "map" \notin Faults =>
       /\ \A w \in Worker :
             request[w].step \in (IF P2pk THEN {"map"} ELSE {"store", "swap", "swapping", "mapOut"})
                => redisUp
       /\ cycle.step \in {"melt", "melting"} \/ cycle.plan # {} \/ cycle.change # {} => redisUp

\* A mapping names an owner, or what is left of a P2PK request that could not
\* store its proof, which the next request with it maps again.
Leftover(x) ==
    /\ Claiming /\ x[2] = "in" /\ wallet[x] = "absent"
    /\ \A w \in Worker : At(w, "store") => In(Tok(w)) # x
MappingsPoint ==
    \A x \in Proof : mapping[x] \in owner[x] \cup {None} \cup Extra \/ Leftover(x)

\* The default address is planned, in calm, only for a proof already spent.
Good(x, a) == a \in owner[x] \cup (IF Calmly /\ mint[x] = "unspent" THEN {} ELSE {Default})

PlanPoints   == \A p \in cycle.plan : Good(p[1], p[2])
GroupPoints  == cycle.step = "melting" => \A x \in cycle.group : Good(x, cycle.address)
ChangePoints == \A x \in cycle.change : cycle.address \in owner[x] \cup Extra
PaidPoints   == \A x \in Proof : paid[x] # None => paid[x] \in owner[x] \cup Extra

\* In calm, what the mint holds as unspent the wallet has, mapped to an owner
\* once the one step between them is over.
Passing(x) ==
    \/ \E w \in Worker : At(w, "mapOut") /\ x = Out(Tok(w))
    \/ x \in cycle.change
UnspentIsMapped ==
    \A x \in Proof : mint[x] = "unspent" /\ wallet[x] # "absent"
                        => mapping[x] \in owner[x] \/ Passing(x)
SignedIsHeld == \A x \in Proof : mint[x] = "unspent" /\ x[2] # "in" => wallet[x] # "absent"
RequestIsMapped ==
    \A w \in Worker :
       request[w].step \in {"store", "swap", "swapping"} /\ mint[In(Tok(w))] = "unspent"
          => mapping[In(Tok(w))] \in owner[In(Tok(w))]
OutIsReserved ==
    \A w \in Worker :
       At(w, "mapOut") => wallet[Out(Tok(w))] = "reserved" /\ Out(Tok(w)) \notin InCycle
UnreadIsMapped == \A x \in cycle.unread : mint[x] = "unspent" => mapping[x] \in owner[x]
InCalm == UnspentIsMapped /\ SignedIsHeld /\ RequestIsMapped /\ OutIsReserved /\ UnreadIsMapped
MintedIsMapped == Calmly => InCalm

Payments == PlanPoints /\ GroupPoints /\ ChangePoints /\ PaidPoints
Pointed  == NoRedis /\ RedisStays /\ (Clean => MappingsPoint /\ Payments /\ MintedIsMapped)

\* Only a P2PK request that cannot store its proof takes a naming back; with
\* Redis, no money has moved then.
LEMMA OwnersStay ==
    ASSUME TypeOK, Held, Named, [Next]_vars, NEW x \in Proof
    PROVE  \/ owner[x] \subseteq owner'[x]
           \/ /\ P2pk /\ x[2] = "in"
              /\ Claiming => wallet[x] = "absent" /\ paid[x] = None
              /\ \E w \in Worker : StoreFails(w) /\ x = In(Tok(w))
<1>1. ASSUME NEW w \in Worker, NEW t \in Token, NEW a \in Address, Present(w, t, a)
      PROVE  owner[x] \subseteq owner'[x]
  BY <1>1 DEF Present, Earmark, TypeOK, StoresOK
<1>2. ASSUME NEW w \in Worker, RequestStep(w), ~StoreFails(w) PROVE owner[x] \subseteq owner'[x]
  BY <1>2 DEF RequestStep, MapIn, StoreIn, SwapReserve, Swap, SwapReplyLost, SwapFails, MapOut,
     UnmapIn, Release, Earmark, TypeOK, StoresOK
<1>3. ASSUME NEW w \in Worker, StoreFails(w)
      PROVE  \/ owner[x] \subseteq owner'[x]
             \/ /\ P2pk /\ x[2] = "in"
                /\ Claiming => wallet[x] = "absent" /\ paid[x] = None
                /\ x = In(Tok(w))
  <2>1. Tok(w) \in Token /\ ~At(w, "idle")
    BY <1>3 DEF StoreFails, At, TypeOK, RequestsOK
  <2>2. Claiming => Untouched(Tok(w))
    BY <2>1 DEF Named, Claims
  <2> QED BY <1>3, <2>1, <2>2, ProofNames DEF StoreFails, Untouched, TypeOK, StoresOK
<1>4. CASE RedeemStep
  <2>1. ASSUME NEW t \in Token, MeltPaidWithChange(t) PROVE owner[x] \subseteq owner'[x]
    <3>1. owner[Change(t)] = {}
      BY <2>1, ProofNames DEF MeltPaidWithChange, MayChange, Held, Stored, Fresh
    <3> QED BY <2>1, <3>1 DEF MeltPaidWithChange, TypeOK, StoresOK
  <2>2. CASE MeltReplyLost
    <3>1. PICK C \in {{}} \cup {{Change(t)} : t \in MayChange} :
             owner' = [y \in Proof |-> IF y \in C THEN owner[In(y[1])] ELSE owner[y]]
      BY <2>2 DEF MeltReplyLost
    <3>2. x \in C => owner[x] = {}
      BY <3>1 DEF MayChange, Held, Stored, Fresh
    <3> QED BY <3>1, <3>2
  <2>3. CASE UNCHANGED owner
    BY <2>3
  <2> QED BY <1>4, <2>1, <2>2, <2>3 DEF RedeemStep, CycleStart, ReadMapping, Melt, SkipGroup,
          MeltPaid, MeltFails, UnmapMelted, MapChange, Sweep, SweepBut, SweepDelete, Pay
<1>5. CASE \/ \E w \in Worker : WorkerDies(w)
           \/ RedeemerDies \/ RedisFails \/ RedisRecovers \/ Restart \/ UNCHANGED vars
  BY <1>5 DEF WorkerDies, RedeemerDies, RedisFails, RedisRecovers, Restart, vars
<1> QED BY <1>1, <1>2, <1>3, <1>4, <1>5 DEF Next, RequestStep

\* What the mint signs in a step the wallet did not have.
LEMMA SignedIsNew ==
    ASSUME TypeOK, Held, [Next]_vars, NEW x \in Proof, wallet[x] # "absent", mint'[x] = "unspent"
    PROVE  mint[x] = "unspent"
<1>1. mint[x] # "none"
  BY DEF Held, Stored, Fresh
<1>2. mint[x] # "spent"
  BY MintMoves
<1> QED BY <1>1, <1>2 DEF TypeOK, StoresOK

\* A new cycle, a sweep and its end have nothing planned and no change in hand.
LEMMA NothingPlanned ==
    ASSUME CycleStart \/ Sweep \/ SweepDelete \/ RedeemerDies \/ Restart
    PROVE  /\ cycle'.plan = {} /\ cycle'.change = {}
           /\ cycle'.step \in {"asleep", "read", "sweep", "delete"}
<1>1. \/ cycle' = Asleep
      \/ \E s \in {"read", "sweep"}, S \in SUBSET Proof :
            cycle' = [Asleep EXCEPT !.step = s, !.unread = S]
      \/ \E S \in SUBSET Proof : cycle' = [Asleep EXCEPT !.step = "delete", !.group = S]
  BY DEF CycleStart, Sweep, SweepBut, SweepDelete, RedeemerDies, Restart
<1>2. /\ Asleep.plan = {} /\ Asleep.change = {} /\ Asleep.step = "asleep"
      /\ DOMAIN Asleep = {"step", "unread", "plan", "group", "change", "address"}
  BY DEF Asleep
<1>3. ASSUME NEW s, NEW S, cycle' = [Asleep EXCEPT !.step = s, !.unread = S]
      PROVE  cycle'.plan = {} /\ cycle'.change = {} /\ cycle'.step = s
  BY <1>3 DEF Asleep
<1>4. ASSUME NEW s, NEW S, cycle' = [Asleep EXCEPT !.step = s, !.group = S]
      PROVE  cycle'.plan = {} /\ cycle'.change = {} /\ cycle'.step = s
  BY <1>4 DEF Asleep
<1> QED BY <1>1, <1>2, <1>3, <1>4

\* Without Redis nothing is ever mapped.
LEMMA NoRedisStep == TypeOK /\ Held /\ NoRedis /\ [Next]_vars => NoRedis'
<1> SUFFICES ASSUME TypeOK, Held, NoRedis, [Next]_vars, ~HasRedis PROVE NoRedis'
  BY DeploymentIsFixed DEF NoRedis
<1> DEFINE PlansDefault == \A p \in cycle.plan : p[2] = Default
           PaysDefault  == cycle.step = "melting" \/ cycle.change # {} => cycle.address = Default
<1>0. /\ PlansDefault /\ PaysDefault
      /\ \A x \in Proof : mapping[x] = None /\ paid[x] \in {None, Default}
  BY DEF NoRedis
<1>t. cycle \in Cycles
  BY DEF TypeOK, CycleOK
<1>d. Default \in Address
  BY DEF Address
<1>r. \A p \in SUBSET cycle.plan : /\ \A q \in Rest(p).plan : q[2] = Default
                                   /\ Rest(p).step # "melting" /\ Rest(p).change = {}
  BY <1>0 DEF Rest, Asleep
<1>s. \A q \in Asleep.plan : q[2] = Default
  BY DEF Asleep
<1>1. UNCHANGED mapping
  BY DEF Next, vars, Reachable, Present, RequestStep, MapIn, StoreIn, StoreFails,
     SwapReserve, Swap, SwapReplyLost, SwapFails, MapOut, UnmapIn, Release, WorkerDies,
     RedeemStep, CycleStart, ReadMapping, Melt, SkipGroup, MeltPaid, MeltPaidWithChange,
     MeltReplyLost, MeltFails, UnmapMelted, MapChange, Sweep, SweepBut, SweepDelete, RedeemerDies,
     RedisFails, RedisRecovers, Restart
<1>2. \A x \in Proof : paid'[x] \in {None, Default}
  <2>1. CASE Pay
    BY <2>1, <1>0 DEF Pay, Redeeming, Moved
  <2>2. CASE UNCHANGED paid
    BY <2>2, <1>0
  <2>3. Pay \/ UNCHANGED paid
    BY DEF Next, vars, Present, RequestStep, MapIn, StoreIn, StoreFails,
     SwapReserve, Swap, SwapReplyLost, SwapFails, MapOut, UnmapIn, Release, WorkerDies,
     RedeemStep, CycleStart, ReadMapping, Melt, SkipGroup, MeltPaid, MeltPaidWithChange,
     MeltReplyLost, MeltFails, UnmapMelted, MapChange, Sweep, SweepBut, SweepDelete, RedeemerDies,
     RedisFails, RedisRecovers, Restart
  <2> QED BY <2>1, <2>2, <2>3
<1>3. PlansDefault' /\ PaysDefault'
  <2>1. CASE UNCHANGED cycle
    BY <2>1, <1>0
  <2>2. CASE cycle' = Asleep
    BY <2>2 DEF Asleep
  <2>3. ASSUME NEW p \in SUBSET cycle.plan, cycle' = Rest(p) PROVE PlansDefault' /\ PaysDefault'
    BY <2>3, <1>r
  <2>4. ASSUME NEW x \in Proof, ReadMapping(x) PROVE PlansDefault' /\ PaysDefault'
    <3>1. /\ cycle'.plan = cycle.plan \cup {<<x, Default>>}
          /\ cycle'.step # "melting" /\ cycle'.change = cycle.change
          /\ cycle'.address = cycle.address
      BY <2>4, <1>t DEF ReadMapping, Plan, Cycles
    <3> QED BY <3>1, <1>0
  <2>5. ASSUME NEW a \in Address, Melt(a) PROVE PlansDefault' /\ PaysDefault'
    <3>1. PICK q \in cycle.plan : q[2] = a
      BY <2>5 DEF Melt, Groups
    <3>2. PICK S \in SUBSET GroupOf(a) :
             cycle' = [Without(a) EXCEPT !.step = "melting", !.group = S, !.address = a]
      BY <2>5 DEF Melt
    <3>3. cycle'.plan \subseteq cycle.plan /\ cycle'.address = a /\ a = Default
      BY <3>1, <3>2, <1>0 DEF Without, Rest, Asleep
    <3> QED BY <3>3, <1>0
  <2>6. CASE MeltPaid \/ (\E t \in Token : MeltPaidWithChange(t)) \/ UnmapMelted
    <3>1. cycle'.plan = cycle.plan /\ cycle'.address = cycle.address
      BY <2>6, <1>t DEF MeltPaid, MeltPaidWithChange, UnmapMelted, Cycles
    <3>2. CASE MeltPaid \/ \E t \in Token : MeltPaidWithChange(t)
      BY <3>1, <3>2, <1>0 DEF MeltPaid, MeltPaidWithChange, Pay, Redeeming
    <3>3. CASE UnmapMelted
      BY <3>1, <3>3, <1>0, <1>t DEF UnmapMelted, Cycles
    <3> QED BY <2>6, <3>2, <3>3
  <2>7. CASE CycleStart \/ Sweep
    <3>1. cycle'.plan = {} /\ cycle'.change = {} /\ cycle'.step # "melting"
      BY <2>7, NothingPlanned
    <3> QED BY <3>1
  <2>8. ASSUME NEW a \in Address, SkipGroup(a) PROVE \E p \in SUBSET cycle.plan : cycle' = Rest(p)
    BY <2>8 DEF SkipGroup, Without
  <2>9. MeltReplyLost \/ MeltFails \/ MapChange => cycle' = Rest(cycle.plan)
    BY DEF MeltReplyLost, MeltFails, MapChange
  <2>10. SweepDelete \/ RedeemerDies \/ Restart => cycle' = Asleep
    BY DEF SweepDelete, RedeemerDies, Restart
  <2>11. CASE \/ \E w \in Worker, t \in Token, a \in Address : Present(w, t, a)
              \/ \E w \in Worker : RequestStep(w) \/ WorkerDies(w)
              \/ RedisFails \/ RedisRecovers \/ UNCHANGED vars
    BY <2>1, <2>11 DEF Present, RequestStep, MapIn, StoreIn, StoreFails, SwapReserve, Swap,
       SwapReplyLost, SwapFails, MapOut, UnmapIn, Release, WorkerDies, RedisFails,
       RedisRecovers, vars
  <2> HIDE DEF PlansDefault, PaysDefault
  <2> QED BY <2>2, <2>3, <2>4, <2>5, <2>6, <2>7, <2>8, <2>9, <2>10, <2>11 DEF Next, RedeemStep
<1> QED BY <1>0, <1>1, <1>2, <1>3 DEF NoRedis

\* Unless writing a mapping may fail, Redis stays up while one is due.
LEMMA RedisStaysStep == TypeOK /\ Held /\ RedisStays /\ [Next]_vars => RedisStays'
<1> SUFFICES ASSUME TypeOK, Held, RedisStays, [Next]_vars, HasRedis, "map" \notin Faults
             PROVE  RedisStays'
  BY DeploymentIsFixed DEF RedisStays
<1>0. UNCHANGED <<P2pk, HasRedis, Faults>>
  BY DeploymentIsFixed
<1> DEFINE Writing(s) == s \in (IF P2pk THEN {"map"} ELSE {"store", "swap", "swapping", "mapOut"})
           CycleAhead == cycle.step \in {"melt", "melting"} \/ cycle.plan # {} \/ cycle.change # {}
<1>1. /\ \A w \in Worker : Writing(request[w].step) => redisUp
      /\ CycleAhead => redisUp
  BY DEF RedisStays
<1>2. SUFFICES /\ \A w \in Worker : Writing(request'[w].step) => redisUp'
               /\ CycleAhead' => redisUp'
  BY <1>0 DEF RedisStays
<1>t. cycle \in Cycles
  BY DEF TypeOK, CycleOK
<1>3. ASSUME UNCHANGED <<redisUp, cycle>>, NEW w \in Worker,
             \A v \in Worker \ {w} : request'[v] = request[v],
             Writing(request'[w].step) => redisUp
      PROVE  /\ \A v \in Worker : Writing(request'[v].step) => redisUp'
             /\ CycleAhead' => redisUp'
  BY <1>1, <1>3
<1>4. ASSUME UNCHANGED <<redisUp, request>>, CycleAhead' => CycleAhead \/ redisUp
      PROVE  /\ \A w \in Worker : Writing(request'[w].step) => redisUp'
             /\ CycleAhead' => redisUp'
  BY <1>1, <1>4
<1>5. ASSUME NEW w \in Worker, NEW t \in Token, NEW a \in Address, Present(w, t, a)
      PROVE  /\ \A v \in Worker : Writing(request'[v].step) => redisUp'
             /\ CycleAhead' => redisUp'
  BY <1>3, <1>5 DEF Present, TypeOK, RequestsOK
<1>6. ASSUME NEW w \in Worker, RequestStep(w) \/ WorkerDies(w)
      PROVE  /\ \A v \in Worker : Writing(request'[v].step) => redisUp'
             /\ CycleAhead' => redisUp'
  <2>0. UNCHANGED <<redisUp, cycle>>
    BY <1>6 DEF RequestStep, MapIn, StoreIn, StoreFails, SwapReserve, Swap, SwapReplyLost,
       SwapFails, MapOut, UnmapIn, Release, WorkerDies
  <2>1. CASE Answer(w)
    BY <2>0, <2>1, <1>3, AnswerIdles DEF TypeOK, RequestsOK, Idle
  <2>2. ASSUME NEW s \in RequestSteps, Goto(w, s), Writing(s) => redisUp
        PROVE  /\ \A v \in Worker : Writing(request'[v].step) => redisUp'
               /\ CycleAhead' => redisUp'
    BY <2>0, <2>2, <1>3, GotoMoves DEF TypeOK, RequestsOK
  <2>3. \/ Answer(w)
        \/ \E s \in {"store", "swap", "swapping", "mapOut", "unmapIn", "release"} :
              Goto(w, s) /\ (Writing(s) => redisUp)
    BY <1>6, <1>1 DEF RequestStep, MapIn, StoreIn, StoreFails, SwapReserve, Swap, SwapReplyLost,
       SwapFails, MapOut, UnmapIn, Release, WorkerDies, At, Reachable
  <2> HIDE DEF Writing, CycleAhead
  <2> QED BY <2>1, <2>2, <2>3 DEF RequestSteps, AfterSwap
<1>7. CASE RedeemStep
  <2>0. UNCHANGED <<redisUp, request>>
    BY <1>7 DEF RedeemStep, CycleStart, ReadMapping, Melt, SkipGroup, MeltPaid,
       MeltPaidWithChange, MeltReplyLost, MeltFails, UnmapMelted, MapChange, Sweep, SweepBut, SweepDelete,
       Pay
  <2>r. \A p \in SUBSET cycle.plan :
           /\ Rest(p).step \in {"melt", "melting"} \/ Rest(p).plan # {} => cycle.plan # {}
           /\ Rest(p).change = {}
    BY DEF Rest, Asleep
  <2>1. CASE CycleStart \/ Sweep \/ SweepDelete
    <3>1. ~CycleAhead'
      BY <2>1, NothingPlanned
    <3> QED BY <2>0, <3>1, <1>4
  <2>2. ASSUME NEW x \in Proof, ReadMapping(x) PROVE CycleAhead' => CycleAhead \/ redisUp
    <3>1. CASE redisUp
      BY <3>1
    <3>2. CASE ~redisUp
      <4>1. cycle' = [Asleep EXCEPT !.step = "sweep"]
        BY <2>2, <3>2 DEF ReadMapping
      <4> QED BY <4>1 DEF Asleep
    <3> QED BY <3>1, <3>2
  <2>3. ASSUME NEW a \in Address, Melt(a) PROVE CycleAhead
    BY <2>3 DEF Melt, Redeeming
  <2>4. ASSUME NEW a \in Address, SkipGroup(a) PROVE CycleAhead
    BY <2>4 DEF SkipGroup, Redeeming
  <2>5. CASE \/ MeltPaid \/ (\E t \in Token : MeltPaidWithChange(t))
             \/ MeltReplyLost \/ MeltFails
    <3>1. CycleAhead
      BY <2>5 DEF MeltPaid, MeltPaidWithChange, MeltReplyLost, MeltFails, Pay, Redeeming
    <3> QED BY <2>0, <3>1, <1>4
  <2>6. CASE UnmapMelted
    <3>1. cycle'.step = "change" /\ cycle'.plan = cycle.plan /\ cycle'.change = cycle.change
      BY <2>6, <1>t DEF UnmapMelted, Cycles
    <3> QED BY <2>0, <3>1, <1>4
  <2>7. CASE MapChange
    <3>1. cycle' = Rest(cycle.plan)
      BY <2>7 DEF MapChange
    <3>2. CycleAhead' => CycleAhead
      BY <3>1, <2>r
    <3> QED BY <2>0, <3>2, <1>4
  <2> HIDE DEF CycleAhead, Writing
  <2> QED BY <1>7, <2>0, <2>1, <2>2, <2>3, <2>4, <2>5, <2>6, <2>7, <1>4 DEF RedeemStep
<1>8. CASE RedisFails
  <2>1. ~MappingAhead /\ UNCHANGED <<request, cycle>>
    BY <1>8 DEF RedisFails
  <2> QED BY <2>1 DEF MappingAhead
<1>9. CASE RedisRecovers
  BY <1>9 DEF RedisRecovers
<1>10. CASE RedeemerDies \/ Restart
  <2>1. ~CycleAhead' /\ UNCHANGED redisUp
    BY <1>10 DEF RedeemerDies, Restart, Asleep
  <2>2. \A w \in Worker : Writing(request'[w].step) => Writing(request[w].step)
    BY <1>10 DEF RedeemerDies, Restart, Idle
  <2> QED BY <2>1, <2>2, <1>1
<1>11. CASE UNCHANGED vars
  BY <1>11, <1>1 DEF vars
<1> HIDE DEF CycleAhead, Writing
<1> QED BY <1>5, <1>6, <1>7, <1>8, <1>9, <1>10, <1>11 DEF Next

\* An address named for money the wallet has, or the default, stays so.
LEMMA NamingStays ==
    ASSUME TypeOK, Held, Named, [Next]_vars, NEW x \in Proof, NEW a,
           wallet[x] # "absent" \/ x[2] # "in" \/ paid[x] # None, ~HasRedis => a = Default,
           a \in owner[x] \cup Extra
    PROVE  a \in owner'[x] \cup Extra
<1>1. CASE owner[x] \subseteq owner'[x]
  BY <1>1
<1>2. CASE ~(owner[x] \subseteq owner'[x])
  <2>1. P2pk /\ x[2] = "in" /\ (Claiming => wallet[x] = "absent" /\ paid[x] = None)
    BY <1>2, OwnersStay
  <2>2. ~HasRedis
    BY <2>1 DEF Claiming
  <2> QED BY <2>2 DEF Extra, Calmly
<1> QED BY <1>1, <1>2

\* So does an address that is good to plan.
LEMMA GoodStays ==
    ASSUME TypeOK, Held, Named, [Next]_vars, NEW x \in Proof, NEW a,
           wallet[x] # "absent", ~HasRedis => a = Default, Good(x, a)
    PROVE  a \in owner'[x] \cup (IF Calmly /\ mint'[x] = "unspent" THEN {} ELSE {Default})
<1>1. mint'[x] = "unspent" => mint[x] = "unspent"
  BY SignedIsNew
<1>2. CASE a \in owner[x] \cup Extra
  BY <1>1, <1>2, NamingStays DEF Extra
<1>3. CASE a \notin owner[x] \cup Extra
  BY <1>1, <1>3 DEF Good, Extra
<1> QED BY <1>2, <1>3

\* How a step moves the plan, the group in hand and its change.
LEMMA CycleEffect ==
    ASSUME TypeOK, Held, [Next]_vars
    PROVE  /\ cycle'.plan \subseteq cycle.plan \/ \E x \in Proof : ReadMapping(x)
           /\ cycle'.step = "melting" => UNCHANGED cycle \/ \E a \in Address : Melt(a)
           /\ \/ cycle'.change = {}
              \/ cycle'.change = cycle.change /\ cycle'.address = cycle.address
              \/ \E t \in Token : MeltPaidWithChange(t)
<1> DEFINE Goal == /\ cycle'.plan \subseteq cycle.plan
                   /\ cycle'.step # "melting"
                   /\ \/ cycle'.change = {}
                      \/ cycle'.change = cycle.change /\ cycle'.address = cycle.address
<1>t. cycle \in Cycles
  BY DEF TypeOK, CycleOK
<1>r. \A p : Rest(p).plan = p /\ Rest(p).step # "melting" /\ Rest(p).change = {}
  BY DEF Rest, Asleep
<1>1. CASE CycleStart \/ Sweep \/ SweepDelete \/ RedeemerDies \/ Restart
  <2>1. Goal
    BY <1>1, NothingPlanned
  <2> QED BY <2>1
<1>2. CASE MeltReplyLost \/ MeltFails \/ MapChange
  <2>1. Goal
    BY <1>2, <1>r DEF MeltReplyLost, MeltFails, MapChange
  <2> QED BY <2>1
<1>3. CASE MeltPaid \/ UnmapMelted
  <2>1. Goal
    BY <1>3, <1>t DEF MeltPaid, UnmapMelted, Cycles
  <2> QED BY <2>1
<1>4. ASSUME NEW t \in Token, MeltPaidWithChange(t)
      PROVE  cycle'.plan \subseteq cycle.plan /\ cycle'.step # "melting"
  BY <1>4, <1>t DEF MeltPaidWithChange, Cycles
<1>5. ASSUME NEW a \in Address, SkipGroup(a) PROVE Goal
  BY <1>5, <1>r DEF SkipGroup, Without
<1>6. ASSUME NEW a \in Address, Melt(a)
      PROVE  cycle'.plan \subseteq cycle.plan /\ cycle'.change = {}
  BY <1>6, <1>r DEF Melt, Without, Rest, Asleep
<1>7. ASSUME NEW x \in Proof, ReadMapping(x)
      PROVE  /\ cycle'.step # "melting"
             /\ \/ cycle'.change = {}
                \/ cycle'.change = cycle.change /\ cycle'.address = cycle.address
  BY <1>7, <1>t DEF ReadMapping, Plan, Cycles, Asleep
<1>8. CASE UNCHANGED cycle
  BY <1>8
<1>9. CASE \/ \E w \in Worker, t \in Token, a \in Address : Present(w, t, a)
           \/ \E w \in Worker : RequestStep(w) \/ WorkerDies(w)
           \/ RedisFails \/ RedisRecovers \/ UNCHANGED vars
  BY <1>8, <1>9 DEF Present, RequestStep, MapIn, StoreIn, StoreFails, SwapReserve, Swap,
     SwapReplyLost, SwapFails, MapOut, UnmapIn, Release, WorkerDies, RedisFails, RedisRecovers, vars
<1> QED BY <1>1, <1>2, <1>3, <1>4, <1>5, <1>6, <1>7, <1>9 DEF Next, RedeemStep

\* Every step pays and plans as the mappings say.
LEMMA PaymentsStep ==
    TypeOK /\ Held /\ Named /\ NoRedis /\ MappingsPoint /\ Payments /\ MintedIsMapped
      /\ [Next]_vars => Payments'
<1> SUFFICES ASSUME TypeOK, Held, Named, NoRedis, MappingsPoint, Payments, MintedIsMapped,
                    [Next]_vars
             PROVE  Payments'
  OBVIOUS
<1>0. UNCHANGED <<P2pk, HasRedis, Faults, Calmly, Extra>>
  BY DeploymentIsFixed DEF Calmly, Extra
<1>t. /\ cycle \in Cycles /\ cycle.plan \subseteq Proof \X Address
      /\ cycle.group \subseteq Proof /\ cycle.change \subseteq Proof
  BY DEF TypeOK, CycleOK, Cycles
<1> DEFINE GoodNext(x, a) ==
              a \in owner'[x] \cup (IF Calmly /\ mint'[x] = "unspent" THEN {} ELSE {Default})
<1>p. ASSUME NEW p \in cycle.plan PROVE GoodNext(p[1], p[2]) /\ p[1] \in Proof
  <2>1. /\ p[1] \in Proof /\ wallet[p[1]] # "absent" /\ Good(p[1], p[2])
        /\ ~HasRedis => p[2] = Default
    BY <1>t DEF Held, CycleIsHeld, InCycle, Payments, PlanPoints, NoRedis
  <2> QED BY <2>1, GoodStays
<1>1. PlanPoints'
  <2>1. CASE cycle'.plan \subseteq cycle.plan
    BY <2>1, <1>0, <1>p DEF PlanPoints, Good
  <2>2. ASSUME NEW x \in Proof, ReadMapping(x) PROVE PlanPoints'
    <3>0. UNCHANGED <<owner, mint>> /\ x \in cycle.unread
      BY <2>2 DEF ReadMapping
    <3>1. CASE cycle' = [Asleep EXCEPT !.step = "sweep"]
      BY <3>1 DEF PlanPoints, Asleep
    <3>2. ASSUME NEW a \in Address, Plan(x, a), Good(x, a) PROVE PlanPoints'
      <4>1. cycle'.plan = cycle.plan \cup {<<x, a>>}
        BY <3>2, <1>t DEF Plan, Cycles
      <4>2. GoodNext(x, a)
        BY <3>0, <3>2 DEF Good
      <4> QED BY <4>1, <4>2, <1>0, <1>p DEF PlanPoints, Good
    <3>3. CASE ~HasRedis
      <4>1. Plan(x, Default) /\ Good(x, Default) /\ Default \in Address
        BY <2>2, <3>3 DEF ReadMapping, Good, Calmly, Address
      <4> QED BY <4>1, <3>2
    <3>4. CASE HasRedis /\ redisUp /\ mapping[x] = None
      <4>1. Plan(x, Default) /\ Default \in Address
        BY <2>2, <3>4 DEF ReadMapping, Address
      <4>2. ~(Calmly /\ mint[x] = "unspent")
        BY <3>0, <3>4, FundsAssumption DEF MintedIsMapped, InCalm, UnreadIsMapped, TypeOK, StoresOK
      <4>3. Good(x, Default)
        BY <4>2 DEF Good
      <4> QED BY <4>1, <4>3, <3>2
    <3>5. CASE HasRedis /\ redisUp /\ mapping[x] # None
      <4>1. Plan(x, mapping[x]) /\ mapping[x] \in Address
        BY <2>2, <3>5 DEF ReadMapping, TypeOK, StoresOK
      <4>2. wallet[x] # "absent"
        BY <3>0 DEF Held, CycleIsHeld, InCycle
      <4>3. mapping[x] \in owner[x] \cup Extra
        BY <4>2, <3>5 DEF MappingsPoint, Leftover
      <4>4. Good(x, mapping[x])
        BY <4>3 DEF Good, Extra
      <4>5. PICK a \in Address : a = mapping[x]
        BY <4>1
      <4> QED BY <4>1, <4>4, <4>5, <3>2
    <3>6. HasRedis \in BOOLEAN /\ redisUp \in BOOLEAN
      BY FundsAssumption DEF TypeOK, SharedOK, HasRedis
    <3> QED BY <2>2, <3>1, <3>3, <3>4, <3>5, <3>6 DEF ReadMapping
  <2> QED BY <2>1, <2>2, CycleEffect
<1>2. GroupPoints'
  <2>1. CASE UNCHANGED cycle
    <3> SUFFICES ASSUME cycle.step = "melting", NEW x \in cycle.group
                 PROVE  GoodNext(x, cycle.address)
      BY <1>0, <2>1 DEF GroupPoints, Good
    <3>1. PICK a : a = cycle.address
      OBVIOUS
    <3>2. /\ x \in Proof /\ wallet[x] # "absent" /\ Good(x, a)
          /\ ~HasRedis => a = Default
      BY <3>1, <1>t DEF Held, CycleIsHeld, InCycle, Payments, GroupPoints, NoRedis
    <3>3. GoodNext(x, a)
      BY <3>2, GoodStays
    <3> QED BY <3>1, <3>3
  <2>2. ASSUME NEW a \in Address, Melt(a) PROVE GroupPoints'
    <3>1. PICK S \in SUBSET GroupOf(a) :
             cycle' = [Without(a) EXCEPT !.step = "melting", !.group = S, !.address = a]
      BY <2>2 DEF Melt
    <3>2. cycle'.group = S /\ cycle'.address = a
      BY <3>1 DEF Without, Rest, Asleep
    <3>3. \A x \in S : GoodNext(x, a)
      BY <1>p DEF GroupOf
    <3> QED BY <3>2, <3>3, <1>0 DEF GroupPoints, Good
  <2>3. CASE cycle'.step # "melting"
    BY <2>3 DEF GroupPoints
  <2> QED BY <2>1, <2>2, <2>3, CycleEffect
<1>3. ChangePoints'
  <2>1. CASE cycle'.change = {}
    BY <2>1 DEF ChangePoints
  <2>2. CASE cycle'.change = cycle.change /\ cycle'.address = cycle.address
    <3> SUFFICES ASSUME NEW x \in cycle.change PROVE cycle.address \in owner'[x] \cup Extra
      BY <1>0, <2>2 DEF ChangePoints
    <3>1. PICK a : a = cycle.address
      OBVIOUS
    <3>2. /\ x \in Proof /\ x[2] # "in" /\ a \in owner[x] \cup Extra
          /\ ~HasRedis => a = Default
      BY <3>1, <1>t DEF Held, ChangeIsMinted, Payments, ChangePoints, NoRedis
    <3>3. a \in owner'[x] \cup Extra
      BY <3>2, NamingStays
    <3> QED BY <3>1, <3>3
  <2>3. ASSUME NEW t \in Token, MeltPaidWithChange(t) PROVE ChangePoints'
    <3>1. /\ cycle'.change = {Change(t)} /\ cycle'.address = cycle.address
      BY <2>3, <1>t DEF MeltPaidWithChange, Cycles
    <3>2. PICK x \in {In(t), Out(t)} \cap cycle.group : mint[x] = "unspent"
      BY <2>3 DEF MeltPaidWithChange, MayChange, Pay
    <3>3. cycle.address \in owner[x] \cup Extra
      BY <2>3, <3>2 DEF MeltPaidWithChange, Pay, Redeeming, Payments, GroupPoints, Good, Extra
    <3>4. cycle.address \in owner[In(t)] \cup Extra
      BY <3>2, <3>3 DEF Named, OutIsIn
    <3>5. owner'[Change(t)] = owner[In(t)]
      BY <2>3, ProofNames DEF MeltPaidWithChange, TypeOK, StoresOK
    <3> QED BY <3>1, <3>4, <3>5, <1>0 DEF ChangePoints
  <2> QED BY <2>1, <2>2, <2>3, CycleEffect
<1>4. PaidPoints'
  <2> SUFFICES ASSUME NEW x \in Proof, paid'[x] # None PROVE paid'[x] \in owner'[x] \cup Extra
    BY <1>0 DEF PaidPoints
  <2>1. PICK a : a = paid'[x]
    OBVIOUS
  <2>2. CASE a = paid[x]
    <3>1. a \in owner[x] \cup Extra /\ (~HasRedis => a = Default) /\ paid[x] # None
      BY <2>1, <2>2 DEF Payments, PaidPoints, NoRedis
    <3> QED BY <2>1, <3>1, NamingStays
  <2>3. CASE a # paid[x]
    <3>1. Pay
      BY <2>1, <2>3 DEF Next, vars, Present, RequestStep, MapIn, StoreIn, StoreFails,
         SwapReserve, Swap, SwapReplyLost, SwapFails, MapOut, UnmapIn, Release, WorkerDies,
         RedeemStep, CycleStart, ReadMapping, Melt, SkipGroup, MeltPaid, MeltPaidWithChange,
         MeltReplyLost, MeltFails, UnmapMelted, MapChange, Sweep, SweepBut, SweepDelete, RedeemerDies,
         RedisFails, RedisRecovers, Restart
    <3>2. x \in cycle.group /\ a = cycle.address /\ mint[x] = "unspent"
      BY <2>1, <2>3, <3>1 DEF Pay, Moved
    <3>3. /\ wallet[x] # "absent" /\ a \in owner[x] \cup Extra
          /\ ~HasRedis => a = Default
      BY <3>1, <3>2 DEF Pay, Redeeming, Held, CycleIsHeld, InCycle, Payments, GroupPoints, Good,
         Extra, NoRedis
    <3> QED BY <2>1, <3>3, NamingStays
  <2> QED BY <2>2, <2>3
<1> QED BY <1>1, <1>2, <1>3, <1>4 DEF Payments

\* A P2PK proof enters the wallet when a request stores it.
LEMMA AbsentStays ==
    ASSUME TypeOK, Held, [Next]_vars, P2pk, NEW x \in Proof, x[2] = "in", wallet[x] = "absent"
    PROVE  wallet'[x] = "absent" \/ \E w \in Worker : StoreIn(w) /\ x = In(Tok(w))
<1>1. CASE \/ \E w \in Worker, t \in Token, a \in Address : Present(w, t, a)
           \/ \E w \in Worker : WorkerDies(w)
           \/ RedeemerDies \/ RedisFails \/ RedisRecovers \/ UNCHANGED vars
  BY <1>1 DEF Present, WorkerDies, RedeemerDies, RedisFails, RedisRecovers, vars
<1>2. ASSUME NEW w \in Worker, RequestStep(w)
      PROVE  wallet'[x] = "absent" \/ (StoreIn(w) /\ x = In(Tok(w)))
  <2>1. request[w].step \in {"idle", "map", "store"}
    BY DEF Held, SwapsAreMints
  <2>2. MapIn(w) \/ StoreIn(w) \/ StoreFails(w)
    BY <1>2, <2>1 DEF RequestStep, SwapReserve, Swap, SwapReplyLost, SwapFails, MapOut, UnmapIn,
       Release, At
  <2> QED BY <2>2 DEF MapIn, StoreIn, StoreFails, TypeOK, StoresOK
<1>3. CASE RedeemStep
  <2>0. x \notin cycle.group
    BY DEF Held, CycleIsHeld, InCycle
  <2>1. CASE MeltPaid \/ MeltReplyLost \/ MeltFails \/ SweepDelete
    BY <2>0, <2>1 DEF MeltPaid, MeltReplyLost, MeltFails, SweepDelete, Moved
  <2>2. ASSUME NEW t \in Token, MeltPaidWithChange(t) PROVE wallet'[x] = "absent"
    BY <2>0, <2>2, ProofNames DEF MeltPaidWithChange, Moved
  <2>3. ASSUME NEW a \in Address, Melt(a) PROVE wallet'[x] = "absent"
    BY <2>3 DEF Melt, Moved
  <2>4. CASE UNCHANGED wallet
    BY <2>4
  <2> QED BY <1>3, <2>1, <2>2, <2>3, <2>4 DEF RedeemStep, CycleStart, ReadMapping, SkipGroup,
          UnmapMelted, MapChange, Sweep, SweepBut
<1>4. CASE Restart
  BY <1>4, RestartEffect
<1> QED BY <1>1, <1>2, <1>3, <1>4 DEF Next

\* A request comes to its store from its mapping.
LEMMA StoreIsMapped ==
    ASSUME TypeOK, [Next]_vars, NEW v \in Worker, request'[v].step = "store"
    PROVE  request'[v].token = request[v].token /\ (At(v, "store") \/ MapIn(v))
<1>a. CASE UNCHANGED request
  BY <1>a DEF At
<1>b. ASSUME NEW w \in Worker, Answer(w)
      PROVE  request'[v].token = request[v].token /\ At(v, "store")
  BY <1>b, AnswerIdles DEF TypeOK, RequestsOK, Idle, At
<1>1. ASSUME NEW w \in Worker, NEW t \in Token, NEW a \in Address, Present(w, t, a)
      PROVE  request'[v].token = request[v].token /\ At(v, "store")
  BY <1>1 DEF Present, TypeOK, RequestsOK, At
<1>2. ASSUME NEW w \in Worker, RequestStep(w)
      PROVE  request'[v].token = request[v].token /\ (At(v, "store") \/ MapIn(v))
  <2>1. \/ Answer(w)
        \/ \E s \in {"swap", "swapping", "mapOut", "unmapIn", "release"} : Goto(w, s)
        \/ MapIn(w) /\ Goto(w, "store")
    BY <1>2 DEF RequestStep, MapIn, StoreIn, StoreFails, SwapReserve, Swap, SwapReplyLost,
       SwapFails, MapOut, UnmapIn, Release
  <2>2. ASSUME NEW s \in {"swap", "swapping", "mapOut", "unmapIn", "release"}, Goto(w, s)
        PROVE  request'[v].token = request[v].token /\ At(v, "store")
    BY <2>2, GotoMoves DEF TypeOK, RequestsOK, RequestSteps, AfterSwap, At
  <2>3. CASE MapIn(w) /\ Goto(w, "store")
    <3>1. /\ request'[w].token = request[w].token
          /\ \A u \in Worker \ {w} : request'[u] = request[u]
      BY <2>3, GotoMoves DEF TypeOK, RequestsOK, RequestSteps
    <3> QED BY <2>3, <3>1 DEF At
  <2> QED BY <2>1, <2>2, <2>3, <1>b
<1>3. CASE RedeemStep
  BY <1>3, <1>a DEF RedeemStep, CycleStart, ReadMapping, Melt, SkipGroup, MeltPaid,
     MeltPaidWithChange, MeltReplyLost, MeltFails, UnmapMelted, MapChange, Sweep, SweepBut, SweepDelete, Pay
<1>4. ASSUME NEW w \in Worker, WorkerDies(w)
      PROVE  request'[v].token = request[v].token /\ At(v, "store")
  BY <1>4, <1>b DEF WorkerDies
<1>5. CASE RedeemerDies \/ RedisFails \/ RedisRecovers \/ UNCHANGED vars
  BY <1>5, <1>a DEF RedeemerDies, RedisFails, RedisRecovers, vars
<1>6. CASE Restart
  BY <1>6 DEF Restart, Idle
<1> QED BY <1>1, <1>2, <1>3, <1>4, <1>5, <1>6 DEF Next

\* A mapping is written for an owner, or goes.
LEMMA MappingEffect ==
    ASSUME TypeOK, Held, Named, Clean, NoRedis, RedisStays, Payments, [Next]_vars,
           NEW x \in Proof, mapping'[x] # mapping[x]
    PROVE  UNCHANGED owner /\ mapping'[x] \in owner[x] \cup {None} \cup Extra
<1>1. ASSUME NEW w \in Worker, MapIn(w)
      PROVE  UNCHANGED owner /\ mapping'[x] \in owner[x] \cup {None} \cup Extra
  <2>1. Reachable /\ x = In(Tok(w)) /\ mapping'[x] = request[w].address /\ UNCHANGED owner
    BY <1>1 DEF MapIn, Mapped, Moved
  <2> QED BY <1>1, <2>1 DEF MapIn, At, Reachable, Named, RequestsOwn
<1>2. ASSUME NEW w \in Worker, MapOut(w)
      PROVE  UNCHANGED owner /\ mapping'[x] \in owner[x] \cup {None} \cup Extra
  <2>1. Reachable /\ x = Out(Tok(w)) /\ mapping'[x] = request[w].address /\ UNCHANGED owner
    BY <1>2 DEF MapOut, Mapped, Moved
  <2> QED BY <1>2, <2>1 DEF MapOut, At, AfterSwap, Named, RequestsOwn
<1>3. CASE MapChange
  BY <1>3 DEF MapChange, Mapped, Moved, Payments, ChangePoints
<1>4. CASE UnmapMelted \/ Sweep \/ \E w \in Worker : UnmapIn(w)
  BY <1>4 DEF UnmapMelted, Sweep, SweepBut, UnmapIn, Mapped, Moved
<1> QED BY <1>1, <1>2, <1>3, <1>4 DEF Next, vars, Present, RequestStep, StoreIn, StoreFails,
        SwapReserve, Swap, SwapReplyLost, SwapFails, Release, WorkerDies, RedeemStep, CycleStart,
        ReadMapping, Melt, SkipGroup, MeltPaid, MeltPaidWithChange, MeltReplyLost, MeltFails,
        SweepDelete, RedeemerDies, RedisFails, RedisRecovers, Restart

\* Every step leaves the mappings pointing at owners.
LEMMA MappingsStep ==
    TypeOK /\ Held /\ Named /\ Clean /\ NoRedis /\ RedisStays /\ MappingsPoint /\ Payments
      /\ [Next]_vars => MappingsPoint'
<1> SUFFICES ASSUME TypeOK, Held, Named, Clean, NoRedis, RedisStays, MappingsPoint, Payments,
                    [Next]_vars, NEW x \in Proof
             PROVE  \/ mapping'[x] \in owner'[x] \cup {None} \cup Extra
                    \/ Leftover(x)'
  BY DeploymentIsFixed DEF MappingsPoint, Extra, Calmly
<1>0. UNCHANGED <<P2pk, HasRedis, Claiming>>
  BY DeploymentIsFixed DEF Claiming
<1>1. CASE mapping'[x] # mapping[x]
  BY <1>1, MappingEffect
<1>2. CASE mapping'[x] = mapping[x] /\ mapping[x] \in owner[x] \cup {None} \cup Extra
  <2>1. CASE owner[x] \subseteq owner'[x]
    BY <1>2, <2>1
  <2>2. CASE ~(owner[x] \subseteq owner'[x])
    <3>1. PICK w \in Worker : StoreFails(w) /\ x = In(Tok(w))
      BY <2>2, OwnersStay
    <3>2. P2pk /\ x[2] = "in" /\ (Claiming => wallet[x] = "absent")
      BY <2>2, OwnersStay
    <3>3. CASE ~HasRedis
      BY <1>2, <3>3 DEF NoRedis
    <3>4. CASE HasRedis
      <4>1. Claiming /\ wallet'[x] = "absent"
        BY <3>1, <3>2, <3>4 DEF Claiming, StoreFails
      <4>2. request'[w].step = "idle" /\ \A v \in Worker \ {w} : request'[v] = request[v]
        BY <3>1, AnswerIdles DEF StoreFails, TypeOK, RequestsOK, Idle
      <4>3. ~At(w, "idle") /\ Tok(w) \in Token
        BY <3>1 DEF StoreFails, At, TypeOK, RequestsOK
      <4>4. ASSUME NEW v \in Worker, request'[v].step = "store" PROVE In(request'[v].token) # x
        <5>1. v # w /\ request'[v] = request[v] /\ ~At(v, "idle")
          BY <4>2, <4>4 DEF At
        <5>2. Tok(v) # Tok(w) /\ Tok(v) \in Token
          BY <4>1, <4>3, <5>1 DEF Named, Claims, TypeOK, RequestsOK
        <5> QED BY <3>1, <4>3, <5>1, <5>2, ProofNames DEF Tok
      <4> QED BY <1>0, <3>2, <4>1, <4>4 DEF Leftover, At, Tok
    <3> QED BY <3>3, <3>4
  <2> QED BY <2>1, <2>2
<1>3. CASE mapping'[x] = mapping[x] /\ Leftover(x)
  <2>1. P2pk /\ HasRedis /\ "map" \notin Faults /\ x[2] = "in" /\ wallet[x] = "absent"
    BY <1>3 DEF Leftover, Claiming, Clean
  <2>2. wallet'[x] = "absent"
    BY <1>3, <2>1, AbsentStays DEF Leftover, StoreIn
  <2>3. CASE \E w \in Worker : request'[w].step = "store" /\ In(request'[w].token) = x
    <3>1. PICK w \in Worker : request'[w].step = "store" /\ In(request'[w].token) = x
      BY <2>3
    <3>2. MapIn(w) /\ x = In(Tok(w))
      BY <1>3, <3>1, StoreIsMapped DEF Leftover, Tok
    <3>3. Reachable
      BY <2>1, <3>2 DEF RedisStays, MapIn, At, Reachable
    <3>4. mapping'[x] = request[w].address /\ request[w].address \in owner[x] /\ UNCHANGED owner
      BY <3>2, <3>3, <2>1 DEF MapIn, Mapped, Moved, At, Named, RequestsOwn
    <3> QED BY <3>4
  <2>4. CASE ~\E w \in Worker : request'[w].step = "store" /\ In(request'[w].token) = x
    BY <1>0, <1>3, <2>1, <2>2, <2>4 DEF Leftover, At, Tok
  <2> QED BY <2>3, <2>4
<1> QED BY <1>1, <1>2, <1>3 DEF MappingsPoint

----------------------------------------------------------------------------
(* In calm *)

\* Naming is taken back only where no money is.
LEMMA OwnersGrow ==
    ASSUME TypeOK, Held, Named, Calmly, [Next]_vars, NEW x \in Proof,
           wallet[x] # "absent" \/ x[2] # "in"
    PROVE  owner[x] \subseteq owner'[x]
<1>1. HasRedis
  BY DEF Calmly
<1> QED BY <1>1, OwnersStay DEF Claiming

\* Without faults no step of a request leaves a minted proof without its mapping.
LEMMA CalmRequest ==
    ASSUME TypeOK, Held, Held', Named, Calmly, RedisStays, InCalm, [Next]_vars,
           NEW w \in Worker, RequestStep(w)
    PROVE  InCalm'
<1>0. HasRedis /\ Faults = {} /\ "map" \notin Faults
  BY DEF Calmly
<1>c. UNCHANGED <<cycle, InCycle>> /\ InCycle \subseteq Proof /\ cycle.unread \subseteq InCycle
  BY DEF RequestStep, MapIn, StoreIn, StoreFails, SwapReserve, Swap, SwapReplyLost, SwapFails,
     MapOut, UnmapIn, Release, InCycle, TypeOK, CycleOK, Cycles
<1>h. \A x \in InCycle : wallet[x] # "absent"
  BY DEF Held, CycleIsHeld
<1>w. ~At(w, "idle") /\ Tok(w) \in Token /\ request[w].address \in Address
  BY DEF RequestStep, MapIn, StoreIn, StoreFails, SwapReserve, Swap, SwapReplyLost, SwapFails,
     MapOut, UnmapIn, Release, At, TypeOK, RequestsOK
<1>t. \A v \in Worker : ~At(v, "idle") => Tok(v) \in Token
  BY DEF TypeOK, RequestsOK
<1>o. \A x \in Proof : wallet[x] # "absent" \/ x[2] # "in" => owner[x] \subseteq owner'[x]
  BY OwnersGrow
<1>i. InCalm
  OBVIOUS
\* Steps that leave the mint as it is, answer or stay short of the swap.
<1>a. ASSUME Answer(w), UNCHANGED <<mint, wallet, mapping>>, ~At(w, "mapOut"),
             \A v \in Worker \ {w} : ~At(v, "idle") => owner[In(Tok(v))] \subseteq owner'[In(Tok(v))]
      PROVE  InCalm'
  <2>1. request'[w].step = "idle" /\ \A v \in Worker \ {w} : request'[v] = request[v]
    BY <1>a, AnswerIdles DEF TypeOK, RequestsOK, Idle
  <2>2. \A x \in Proof : Passing(x) => Passing(x)'
    BY <1>a, <1>c, <2>1 DEF Passing, At, Tok
  <2>3. UnspentIsMapped'
    BY <1>a, <1>o, <2>2 DEF InCalm, UnspentIsMapped
  <2>4. RequestIsMapped'
    BY <1>a, <1>t, <2>1, ProofNames DEF InCalm, RequestIsMapped, At, Tok
  <2>5. OutIsReserved' /\ SignedIsHeld'
    BY <1>a, <1>c, <2>1 DEF InCalm, OutIsReserved, SignedIsHeld, At, Tok
  <2>6. UnreadIsMapped'
    BY <1>a, <1>c, <1>h, <1>o DEF InCalm, UnreadIsMapped
  <2> QED BY <2>3, <2>4, <2>5, <2>6 DEF InCalm
<1>1. CASE MapIn(w)
  <2>1. CASE ~Reachable
    <3>1. ~P2pk
      BY <1>0, <1>1, <2>1 DEF RedisStays, MapIn, At, Reachable
    <3> QED BY <1>1, <2>1, <3>1, <1>a DEF MapIn, At
  <2>2. CASE Reachable
    <3>1. /\ request'[w].step = "store" /\ request'[w].token = request[w].token
          /\ \A v \in Worker \ {w} : request'[v] = request[v]
      BY <1>1, <2>2, GotoMoves DEF MapIn, TypeOK, RequestsOK, RequestSteps
    <3>2. /\ mapping'[In(Tok(w))] \in owner[In(Tok(w))]
          /\ \A x \in Proof : x # In(Tok(w)) => mapping'[x] = mapping[x]
          /\ UNCHANGED <<mint, wallet, owner>>
      BY <1>0, <1>1, <2>2, <1>w, ProofNames DEF MapIn, Mapped, Moved, Named, RequestsOwn
    <3>3. \A x \in Proof : Passing(x) => Passing(x)'
      BY <1>1, <1>c, <3>1 DEF MapIn, Passing, At, Tok
    <3>4. UnspentIsMapped'
      BY <3>2, <3>3 DEF InCalm, UnspentIsMapped
    <3>5. RequestIsMapped'
      <4> SUFFICES ASSUME NEW v \in Worker, request'[v].step \in {"store", "swap", "swapping"},
                          mint[In(request'[v].token)] = "unspent"
                   PROVE  mapping'[In(request'[v].token)] \in owner[In(request'[v].token)]
        BY <3>2 DEF RequestIsMapped, Tok
      <4>1. CASE v = w
        BY <4>1, <3>1, <3>2 DEF Tok
      <4>2. CASE v # w
        BY <4>2, <3>1, <3>2, <1>t, ProofNames DEF InCalm, RequestIsMapped, At, Tok
      <4> QED BY <4>1, <4>2
    <3>6. OutIsReserved' /\ SignedIsHeld'
      BY <1>1, <1>c, <3>1, <3>2 DEF InCalm, OutIsReserved, SignedIsHeld, MapIn, At, Tok
    <3>7. UnreadIsMapped'
      BY <1>c, <3>2 DEF InCalm, UnreadIsMapped
    <3> QED BY <3>4, <3>5, <3>6, <3>7 DEF InCalm
  <2> QED BY <2>1, <2>2
<1>2. CASE StoreIn(w) \/ SwapReserve(w) \/ SwapFails(w)
  <2>1. /\ request[w].step \in {"store", "swap", "swapping"}
        /\ UNCHANGED <<mint, mapping, owner>>
        /\ wallet'[In(Tok(w))] # "absent"
        /\ \A x \in Proof : x # In(Tok(w)) => wallet'[x] = wallet[x]
    BY <1>2, <1>w, ProofNames DEF StoreIn, SwapReserve, SwapFails, At, TypeOK, StoresOK
  <2>2. /\ \A v \in Worker \ {w} : request'[v] = request[v]
        /\ \/ request'[w].step = "idle"
           \/ request'[w].step \in {"swap", "swapping"} /\ request'[w].token = request[w].token
    <3>1. Answer(w) \/ \E s \in {"swap", "swapping"} : Goto(w, s)
      BY <1>2 DEF StoreIn, SwapReserve, SwapFails
    <3> QED BY <3>1, AnswerIdles, GotoMoves DEF TypeOK, RequestsOK, Idle, RequestSteps
  <2>3. \A x \in Proof : Passing(x) => Passing(x)'
    BY <1>c, <2>1, <2>2 DEF Passing, At, Tok
  <2>4. UnspentIsMapped'
    BY <2>1, <2>3 DEF InCalm, UnspentIsMapped, RequestIsMapped
  <2>5. RequestIsMapped'
    BY <2>1, <2>2 DEF InCalm, RequestIsMapped, Tok
  <2>6. OutIsReserved' /\ SignedIsHeld'
    BY <1>c, <1>t, <2>1, <2>2, <1>w, ProofNames DEF InCalm, OutIsReserved, SignedIsHeld, At, Tok
  <2>7. UnreadIsMapped'
    BY <1>c, <2>1 DEF InCalm, UnreadIsMapped
  <2> QED BY <2>4, <2>5, <2>6, <2>7 DEF InCalm
<1>3. CASE StoreFails(w)
  <2>1. \A v \in Worker \ {w} : ~At(v, "idle") => owner[In(Tok(v))] \subseteq owner'[In(Tok(v))]
    <3>1. CASE P2pk
      <4>1. \A v \in Worker \ {w} : ~At(v, "idle") => Tok(v) # Tok(w)
        BY <1>0, <1>w, <3>1 DEF Named, Claims, Claiming
      <4>2. \A x \in Proof : x # In(Tok(w)) => owner'[x] = owner[x]
        BY <1>3, <3>1 DEF StoreFails, TypeOK, StoresOK
      <4> QED BY <4>1, <4>2, <1>t, <1>w, ProofNames
    <3>2. CASE ~P2pk
      BY <1>3, <3>2 DEF StoreFails
    <3> QED BY <3>1, <3>2
  <2> QED BY <1>3, <2>1, <1>a DEF StoreFails, At
<1>4. CASE Swap(w)
  <2>1. /\ request'[w].step = "mapOut" /\ request'[w].token = request[w].token
        /\ \A v \in Worker \ {w} : request'[v] = request[v]
        /\ At(w, "swapping")
    BY <1>4, GotoMoves DEF Swap, TypeOK, RequestsOK, RequestSteps, AfterSwap
  <2>2. /\ \A x \in Proof : /\ mint'[x] = IF x = Out(Tok(w)) THEN "unspent"
                                          ELSE IF x = In(Tok(w)) THEN "spent" ELSE mint[x]
                            /\ wallet'[x] = IF x = Out(Tok(w)) THEN "reserved"
                                            ELSE IF x = In(Tok(w)) THEN "spent" ELSE wallet[x]
        /\ UNCHANGED mapping
    BY <1>4, <1>w, ProofNames DEF Swap, TypeOK, StoresOK
  <2>3. mint[Out(Tok(w))] = "none" /\ wallet[Out(Tok(w))] = "absent"
    BY <1>4, <1>w, ProofNames DEF Swap, Held, Stored, SwapOnce, Fresh
  <2>4. \A x \in Proof : Passing(x) => Passing(x)'
    BY <1>c, <2>1 DEF Passing, At, Tok
  <2>5. UnspentIsMapped'
    <3> SUFFICES ASSUME NEW x \in Proof, mint'[x] = "unspent", wallet'[x] # "absent"
                 PROVE  mapping[x] \in owner'[x] \/ Passing(x)'
      BY <2>2 DEF UnspentIsMapped
    <3>1. CASE x = Out(Tok(w))
      BY <3>1, <2>1 DEF Passing, At, Tok
    <3>2. CASE x # Out(Tok(w))
      <4>1. mint[x] = "unspent" /\ wallet[x] # "absent"
        BY <3>2, <2>2
      <4> QED BY <4>1, <1>o, <2>4 DEF InCalm, UnspentIsMapped
    <3> QED BY <3>1, <3>2
  <2>6. SignedIsHeld'
    BY <2>2 DEF InCalm, SignedIsHeld
  <2>7. RequestIsMapped'
    <3> SUFFICES ASSUME NEW v \in Worker, request'[v].step \in {"store", "swap", "swapping"},
                        mint'[In(request'[v].token)] = "unspent"
                 PROVE  mapping'[In(request'[v].token)] \in owner'[In(request'[v].token)]
      BY DEF RequestIsMapped, Tok
    <3>1. v # w /\ request'[v] = request[v] /\ Tok(v) \in Token /\ request'[v].token = Tok(v)
      BY <2>1, <1>t DEF At, Tok
    <3>2. In(Tok(v)) \in Proof /\ In(Tok(v)) # Out(Tok(w)) /\ In(Tok(v)) # In(Tok(w))
      BY <3>1, <1>w, <2>2, ProofNames
    <3>3. mint[In(Tok(v))] = "unspent"
      BY <3>1, <3>2, <2>2
    <3>4. \A x \in Proof : x # Out(Tok(w)) => owner'[x] = owner[x]
      BY <1>4 DEF Swap, Earmark, TypeOK, StoresOK
    <3> QED BY <3>1, <3>2, <3>3, <3>4, <2>2 DEF InCalm, RequestIsMapped
  <2>8. OutIsReserved'
    <3> SUFFICES ASSUME NEW v \in Worker, request'[v].step = "mapOut"
                 PROVE  /\ wallet'[Out(request'[v].token)] = "reserved"
                        /\ Out(request'[v].token) \notin InCycle
      BY <1>c DEF OutIsReserved, At, Tok
    <3>1. CASE v = w
      BY <3>1, <1>c, <1>h, <1>w, <2>1, <2>2, <2>3, ProofNames DEF Tok
    <3>2. CASE v # w
      BY <3>2, <1>t, <1>w, <2>1, <2>2, ProofNames DEF InCalm, OutIsReserved, At, Tok
    <3> QED BY <3>1, <3>2
  <2>9. UnreadIsMapped'
    <3> SUFFICES ASSUME NEW x \in cycle.unread, mint'[x] = "unspent" PROVE mapping[x] \in owner'[x]
      BY <1>c, <2>2 DEF UnreadIsMapped
    <3>1. x \in Proof /\ wallet[x] # "absent" /\ mint[x] = "unspent"
      BY <1>c, <1>h, <2>2, <2>3
    <3> QED BY <3>1, <1>o DEF InCalm, UnreadIsMapped
  <2> QED BY <2>5, <2>6, <2>7, <2>8, <2>9 DEF InCalm
<1>5. CASE SwapReplyLost(w)
  BY <1>0, <1>5 DEF SwapReplyLost
<1>6. CASE MapOut(w)
  <2>1. ~P2pk /\ At(w, "mapOut") /\ Reachable
    BY <1>0, <1>6 DEF MapOut, At, Held, SwapsAreMints, RedisStays, Reachable
  <2>2. /\ mapping'[Out(Tok(w))] \in owner[Out(Tok(w))]
        /\ \A x \in Proof : x # Out(Tok(w)) => mapping'[x] = mapping[x]
        /\ UNCHANGED <<mint, wallet, owner>>
    BY <1>6, <1>w, <2>1, ProofNames
       DEF MapOut, Mapped, Moved, Named, RequestsOwn, At, AfterSwap
  <2>3. /\ request'[w].step = "unmapIn"
        /\ \A v \in Worker \ {w} : request'[v] = request[v]
    BY <1>6, GotoMoves DEF MapOut, TypeOK, RequestsOK, RequestSteps, AfterSwap
  <2>4. \A x \in Proof : x # Out(Tok(w)) /\ Passing(x) => Passing(x)'
    BY <1>c, <2>3 DEF Passing, At, Tok
  <2>5. UnspentIsMapped'
    BY <2>2, <2>4 DEF InCalm, UnspentIsMapped
  <2>6. RequestIsMapped'
    BY <1>t, <1>w, <2>2, <2>3, ProofNames DEF InCalm, RequestIsMapped, At, Tok
  <2>7. OutIsReserved' /\ SignedIsHeld'
    BY <1>c, <2>2, <2>3 DEF InCalm, OutIsReserved, SignedIsHeld, At, Tok
  <2>8. UnreadIsMapped'
    BY <1>c, <2>2 DEF InCalm, UnreadIsMapped
  <2> QED BY <2>5, <2>6, <2>7, <2>8 DEF InCalm
<1>7. CASE UnmapIn(w)
  <2>1. mint[In(Tok(w))] = "spent" /\ At(w, "unmapIn")
    BY <1>7 DEF UnmapIn, At, AfterSwap, Held, SwapsAreMints
  <2>2. /\ \A x \in Proof : x # In(Tok(w)) => mapping'[x] = mapping[x]
        /\ UNCHANGED <<mint, wallet, owner>>
    BY <1>7 DEF UnmapIn, Mapped, Moved
  <2>3. /\ request'[w].step = "release"
        /\ \A v \in Worker \ {w} : request'[v] = request[v]
    BY <1>7, GotoMoves DEF UnmapIn, TypeOK, RequestsOK, RequestSteps, AfterSwap
  <2>4. \A x \in Proof : Passing(x) => Passing(x)'
    BY <1>c, <2>1, <2>3 DEF Passing, At, Tok
  <2>5. UnspentIsMapped'
    BY <2>1, <2>2, <2>4 DEF InCalm, UnspentIsMapped
  <2>6. RequestIsMapped'
    BY <1>t, <1>w, <2>1, <2>2, <2>3, ProofNames DEF InCalm, RequestIsMapped, At, Tok
  <2>7. OutIsReserved' /\ SignedIsHeld'
    BY <1>c, <2>2, <2>3 DEF InCalm, OutIsReserved, SignedIsHeld, At, Tok
  <2>8. UnreadIsMapped'
    BY <1>c, <2>1, <2>2 DEF InCalm, UnreadIsMapped
  <2> QED BY <2>5, <2>6, <2>7, <2>8 DEF InCalm
<1>8. CASE Release(w)
  <2>1. /\ request'[w].step = "idle" /\ \A v \in Worker \ {w} : request'[v] = request[v]
        /\ UNCHANGED <<mint, mapping, owner>> /\ At(w, "release")
    BY <1>8, AnswerIdles DEF Release, TypeOK, RequestsOK, Idle
  <2>2. CASE UNCHANGED wallet
    BY <1>8, <2>1, <2>2, <1>a DEF Release, At
  <2>3. CASE wallet' = [wallet EXCEPT ![Out(Tok(w))] = "unspent"]
    <3>1. /\ wallet'[Out(Tok(w))] = "unspent"
          /\ \A x \in Proof : x # Out(Tok(w)) => wallet'[x] = wallet[x]
      BY <2>3, <1>w, ProofNames DEF TypeOK, StoresOK
    <3>2. \A x \in Proof : Passing(x) => Passing(x)'
      BY <1>c, <2>1 DEF Passing, At, Tok
    <3>3. UnspentIsMapped'
      BY <2>1, <3>1, <3>2, <1>w, ProofNames DEF InCalm, UnspentIsMapped, SignedIsHeld
    <3>4. RequestIsMapped' /\ SignedIsHeld'
      BY <2>1, <3>1 DEF InCalm, RequestIsMapped, SignedIsHeld, Tok
    <3>5. OutIsReserved'
      <4> SUFFICES ASSUME NEW v \in Worker, request'[v].step = "mapOut"
                   PROVE  /\ wallet'[Out(request'[v].token)] = "reserved"
                          /\ Out(request'[v].token) \notin InCycle
        BY <1>c DEF OutIsReserved, At, Tok
      <4>1. v # w /\ request'[v] = request[v] /\ At(v, "mapOut") /\ Tok(v) \in Token
        BY <2>1, <1>t DEF At
      <4>2. Tok(v) # Tok(w)
        BY <2>1, <4>1 DEF Held, SwapsAreMints, At, AfterSwap
      <4>3. Out(Tok(v)) \in Proof /\ Out(Tok(v)) # Out(Tok(w))
        BY <4>1, <4>2, <1>w, ProofNames
      <4> QED BY <4>1, <4>3, <3>1 DEF InCalm, OutIsReserved, Tok
    <3>6. UnreadIsMapped'
      BY <1>c, <2>1 DEF InCalm, UnreadIsMapped
    <3> QED BY <3>3, <3>4, <3>5, <3>6 DEF InCalm
  <2> QED BY <1>8, <2>2, <2>3 DEF Release
<1> QED BY <1>1, <1>2, <1>3, <1>4, <1>5, <1>6, <1>7, <1>8 DEF RequestStep

\* Nor does a step of the redemption.
LEMMA CalmRedeem ==
    ASSUME TypeOK, Held, Named, Calmly, NoRedis, RedisStays, Payments, InCalm, [Next]_vars, RedeemStep
    PROVE  InCalm'
<1>0. HasRedis /\ Faults = {} /\ "map" \notin Faults
  BY DEF Calmly
<1>t. /\ cycle \in Cycles /\ cycle.plan \subseteq Proof \X Address
      /\ cycle.group \subseteq Proof /\ cycle.change \subseteq Proof /\ cycle.unread \subseteq Proof
      /\ InCycle \subseteq Proof
  BY DEF TypeOK, CycleOK, Cycles, InCycle
<1>h. \A x \in InCycle : wallet[x] # "absent"
  BY DEF Held, CycleIsHeld
<1>o. \A x \in Proof : wallet[x] # "absent" \/ x[2] # "in" => owner[x] \subseteq owner'[x]
  BY OwnersGrow
<1>r. UNCHANGED request
  BY DEF RedeemStep, CycleStart, ReadMapping, Melt, SkipGroup, MeltPaid, MeltPaidWithChange,
     MeltReplyLost, MeltFails, UnmapMelted, MapChange, Sweep, SweepBut, SweepDelete, Pay
<1>w. \A v \in Worker : ~At(v, "idle") => Tok(v) \in Token
  BY DEF TypeOK, RequestsOK
<1>p. \A x \in Proof : Passing(x) /\ (x \in cycle.change => x \in cycle'.change) => Passing(x)'
  BY <1>r DEF Passing, At, Tok
\* Steps that only plan, or set proofs already there aside.
<1>a. ASSUME UNCHANGED <<mint, mapping, owner>>, InCycle' \subseteq InCycle,
             cycle'.unread \subseteq cycle.unread, cycle.change = {},
             \A x \in Proof : wallet'[x] = "absent" <=> wallet[x] = "absent",
             \A x \in Proof : wallet'[x] = wallet[x] \/ x \in InCycle
      PROVE  InCalm'
  <2>1. UnspentIsMapped'
    BY <1>a, <1>p DEF InCalm, UnspentIsMapped
  <2>2. RequestIsMapped' /\ SignedIsHeld'
    BY <1>a, <1>r DEF InCalm, RequestIsMapped, SignedIsHeld, Tok
  <2>3. OutIsReserved'
    BY <1>a, <1>r, <1>w, ProofNames DEF InCalm, OutIsReserved, At, Tok
  <2>4. UnreadIsMapped'
    BY <1>a DEF InCalm, UnreadIsMapped
  <2> QED BY <2>1, <2>2, <2>3, <2>4 DEF InCalm
<1>c. cycle.step \notin {"unmap", "change"} => cycle.change = {}
  BY DEF Held, ChangeIsMinted
<1>s. \A p : /\ Rest(p).unread = {} /\ Rest(p).plan = p /\ Rest(p).group = {}
             /\ Rest(p).change = {}
  BY DEF Rest, Asleep
<1>1. CASE CycleStart
  <2>1. /\ cycle'.unread \subseteq {x \in Proof : wallet[x] = "unspent"}
        /\ cycle'.plan = {} /\ cycle'.group = {} /\ cycle.change = {}
        /\ UNCHANGED <<mint, mapping, owner, wallet>>
    BY <1>1, <1>c DEF CycleStart, Asleep, Redeeming
  <2>2. UnspentIsMapped'
    BY <2>1, <1>p DEF InCalm, UnspentIsMapped
  <2>3. RequestIsMapped' /\ SignedIsHeld'
    BY <2>1, <1>r DEF InCalm, RequestIsMapped, SignedIsHeld, Tok
  <2>4. OutIsReserved'
    BY <2>1, <1>r DEF InCalm, OutIsReserved, At, Tok, InCycle
  <2>5. UnreadIsMapped'
    BY <2>1 DEF InCalm, UnreadIsMapped, UnspentIsMapped, OutIsReserved, Passing
  <2> QED BY <2>2, <2>3, <2>4, <2>5 DEF InCalm
<1>2. ASSUME NEW x \in Proof, ReadMapping(x) PROVE InCalm'
  <2>1. /\ UNCHANGED <<mint, mapping, owner, wallet>> /\ x \in cycle.unread /\ cycle.change = {}
    BY <1>2, <1>c DEF ReadMapping, Redeeming
  <2>2. CASE cycle' = [Asleep EXCEPT !.step = "sweep"]
    <3>1. cycle'.unread = {} /\ InCycle' = {}
      BY <2>2 DEF Asleep, InCycle
    <3> QED BY <2>1, <3>1, <1>a
  <2>3. ASSUME NEW a \in Address, Plan(x, a) PROVE InCalm'
    <3>1. /\ cycle'.unread = cycle.unread \ {x} /\ cycle'.plan = cycle.plan \cup {<<x, a>>}
          /\ cycle'.group = cycle.group
      BY <2>3, <1>t DEF Plan, Cycles
    <3>2. InCycle' \subseteq InCycle
      BY <2>1, <3>1 DEF InCycle
    <3> QED BY <2>1, <3>1, <3>2, <1>a
  <2>4. \/ \E a \in Address : Plan(x, a)
        \/ cycle' = [Asleep EXCEPT !.step = "sweep"]
    BY <1>2 DEF ReadMapping, TypeOK, StoresOK, SharedOK, HasRedis, Address
  <2> QED BY <2>2, <2>3, <2>4
<1>3. ASSUME NEW a \in Address, Melt(a) PROVE InCalm'
  <2>1. PICK S \in SUBSET GroupOf(a) :
           /\ \A x \in S : wallet[x] = "unspent"
           /\ wallet' = Moved(wallet, S, "reserved")
           /\ cycle' = [Without(a) EXCEPT !.step = "melting", !.group = S, !.address = a]
    BY <1>3 DEF Melt
  <2>2. /\ cycle'.unread = {} /\ cycle'.plan \subseteq cycle.plan /\ cycle'.group = S
        /\ S \subseteq {p[1] : p \in cycle.plan}
    BY <2>1 DEF Without, Rest, Asleep, GroupOf
  <2>3. InCycle' \subseteq InCycle /\ S \subseteq InCycle
    BY <2>2 DEF InCycle
  <2>4. UNCHANGED <<mint, mapping, owner>> /\ cycle.change = {}
    BY <1>3, <1>c DEF Melt, Redeeming
  <2>5. \A x \in Proof : /\ wallet'[x] = "absent" <=> wallet[x] = "absent"
                         /\ wallet'[x] = wallet[x] \/ x \in InCycle
    BY <2>1, <2>3 DEF Moved
  <2> QED BY <2>2, <2>3, <2>4, <2>5, <1>a
<1>4. ASSUME NEW a \in Address, SkipGroup(a) PROVE InCalm'
  <2>1. cycle'.unread = {} /\ cycle'.plan \subseteq cycle.plan /\ cycle'.group = {}
    BY <1>4, <1>s DEF SkipGroup, Without
  <2>2. InCycle' \subseteq InCycle
    BY <2>1 DEF InCycle
  <2>3. UNCHANGED <<mint, mapping, owner, wallet>> /\ cycle.change = {}
    BY <1>4, <1>c DEF SkipGroup, Redeeming
  <2> QED BY <2>1, <2>2, <2>3, <1>a
<1>5. CASE MeltFails
  <2>1. cycle'.unread = {} /\ cycle'.plan = cycle.plan /\ cycle'.group = {}
    BY <1>5, <1>s DEF MeltFails
  <2>2. InCycle' \subseteq InCycle
    BY <2>1 DEF InCycle
  <2>3. UNCHANGED <<mint, mapping, owner>> /\ cycle.change = {}
    BY <1>5, <1>c DEF MeltFails, Redeeming
  <2>4. \A x \in Proof : /\ wallet'[x] = "absent" <=> wallet[x] = "absent"
                         /\ wallet'[x] = wallet[x] \/ x \in InCycle
    BY <1>5 DEF MeltFails, InCycle
  <2> QED BY <2>1, <2>2, <2>3, <2>4, <1>a
<1>6. CASE MeltPaid
  <2>1. /\ UNCHANGED <<mapping, owner>> /\ cycle.change = {}
        /\ \A x \in Proof : /\ mint'[x] = IF x \in cycle.group THEN "spent" ELSE mint[x]
                            /\ wallet'[x] = IF x \in cycle.group THEN "spent" ELSE wallet[x]
    BY <1>6, <1>c DEF MeltPaid, Pay, Redeeming, Moved
  <2>2. InCycle' = InCycle /\ cycle'.unread = cycle.unread
    BY <1>6, <1>t DEF MeltPaid, Cycles, InCycle
  <2>3. UnspentIsMapped'
    BY <2>1, <1>p DEF InCalm, UnspentIsMapped
  <2>4. RequestIsMapped' /\ SignedIsHeld'
    BY <2>1, <1>r, <1>w, ProofNames DEF InCalm, RequestIsMapped, SignedIsHeld, At, Tok
  <2>5. OutIsReserved'
    BY <2>1, <2>2, <1>r, <1>w, ProofNames DEF InCalm, OutIsReserved, At, Tok, InCycle
  <2>6. UnreadIsMapped'
    BY <2>1, <2>2, <1>t DEF InCalm, UnreadIsMapped
  <2> QED BY <2>3, <2>4, <2>5, <2>6 DEF InCalm
<1>7. ASSUME NEW t \in Token, MeltPaidWithChange(t) PROVE InCalm'
  <2>0. Change(t) \in Proof /\ Change(t)[2] = "change" /\ mint[Change(t)] = "none"
    BY <1>7, ProofNames DEF MeltPaidWithChange, MayChange
  <2>1. /\ UNCHANGED mapping /\ cycle.change = {}
        /\ \A x \in Proof : x # Change(t) =>
              /\ mint'[x] = IF x \in cycle.group THEN "spent" ELSE mint[x]
              /\ wallet'[x] = IF x \in cycle.group THEN "spent" ELSE wallet[x]
              /\ owner'[x] = owner[x]
        /\ wallet'[Change(t)] = "unspent"
    BY <1>7, <1>c, <2>0
       DEF MeltPaidWithChange, Pay, Redeeming, Moved, TypeOK, StoresOK
  <2>2. InCycle' = InCycle /\ cycle'.unread = cycle.unread /\ cycle'.change = {Change(t)}
    BY <1>7, <1>t DEF MeltPaidWithChange, Cycles, InCycle
  <2>3. wallet[Change(t)] = "absent"
    BY <2>0 DEF Held, Stored, Fresh
  <2>4. UnspentIsMapped'
    <3>1. Passing(Change(t))'
      BY <2>2 DEF Passing
    <3> QED BY <3>1, <2>1, <1>p DEF InCalm, UnspentIsMapped
  <2>5. RequestIsMapped' /\ SignedIsHeld'
    BY <2>0, <2>1, <1>r, <1>w, ProofNames DEF InCalm, RequestIsMapped, SignedIsHeld, At, Tok
  <2>6. OutIsReserved'
    BY <2>0, <2>1, <2>2, <1>r, <1>w, ProofNames DEF InCalm, OutIsReserved, At, Tok, InCycle
  <2>7. UnreadIsMapped'
    <3>1. Change(t) \notin cycle.unread
      BY <2>3, <1>h DEF InCycle
    <3> QED BY <3>1, <2>1, <2>2, <1>t DEF InCalm, UnreadIsMapped
  <2> QED BY <2>4, <2>5, <2>6, <2>7 DEF InCalm
<1>8. CASE MeltReplyLost
  BY <1>0, <1>8 DEF MeltReplyLost
<1>9. CASE UnmapMelted \/ Sweep
  <2>1. /\ UNCHANGED <<mint, wallet, owner>>
        /\ \A x \in Proof : mint[x] # "spent" => mapping'[x] = mapping[x]
    BY <1>9, <1>t DEF UnmapMelted, Sweep, SweepBut, Redeeming, Mapped, Moved, Held, GroupIsSpent, Stored,
       SpentAtMint
  <2>2. /\ \A x \in InCycle' : x \in InCycle \/ wallet[x] = "spent"
        /\ cycle'.unread \subseteq cycle.unread
        /\ cycle.change \subseteq cycle'.change
    <3>1. CASE UnmapMelted
      BY <3>1, <1>t DEF UnmapMelted, Cycles, InCycle
    <3>2. CASE Sweep
      <4>2. PICK S \in SUBSET Proof :
               /\ \A x \in S : wallet[x] = "spent"
               /\ cycle' = Asleep \/ cycle' = [Asleep EXCEPT !.step = "delete", !.group = S]
        BY <3>2 DEF Sweep, SweepBut
      <4>3. cycle'.unread = {} /\ cycle'.plan = {} /\ cycle'.group \subseteq S
        <5>1. CASE cycle' = Asleep
          BY <5>1 DEF Asleep
        <5>2. CASE cycle' = [Asleep EXCEPT !.step = "delete", !.group = S]
          BY <5>2 DEF Asleep
        <5> QED BY <4>2, <5>1, <5>2
      <4>4. cycle.change = {}
        BY <3>2, <1>c DEF Sweep, SweepBut, Redeeming
      <4> QED BY <4>2, <4>3, <4>4 DEF InCycle
    <3> QED BY <1>9, <3>1, <3>2
  <2>3. UnspentIsMapped'
    BY <2>1, <2>2, <1>p DEF InCalm, UnspentIsMapped
  <2>4. RequestIsMapped' /\ SignedIsHeld'
    BY <2>1, <1>r, <1>w, ProofNames DEF InCalm, RequestIsMapped, SignedIsHeld, At, Tok
  <2>5. OutIsReserved'
    BY <2>1, <2>2, <1>r DEF InCalm, OutIsReserved, At, Tok
  <2>6. UnreadIsMapped'
    BY <2>1, <2>2, <1>t DEF InCalm, UnreadIsMapped
  <2> QED BY <2>3, <2>4, <2>5, <2>6 DEF InCalm
<1>10. CASE MapChange
  <2>1. cycle'.unread = {} /\ InCycle' \subseteq InCycle /\ cycle'.change = {}
    BY <1>10, <1>s DEF MapChange, InCycle
  <2>2. cycle.change # {} => Reachable
    BY <1>0, <1>10 DEF MapChange, Redeeming, RedisStays, Reachable
  <2>3. /\ UNCHANGED <<mint, wallet, owner>>
        /\ \A x \in Proof : x \notin cycle.change => mapping'[x] = mapping[x]
        /\ \A x \in cycle.change : mapping'[x] \in owner[x]
    BY <1>10, <2>2, <1>t DEF MapChange, Mapped, Moved, Payments, ChangePoints, Extra
  <2>4. UnspentIsMapped'
    BY <2>3, <1>p DEF InCalm, UnspentIsMapped
  <2>5. RequestIsMapped' /\ SignedIsHeld'
    BY <2>3, <1>r, <1>w, ProofNames DEF InCalm, RequestIsMapped, SignedIsHeld, At, Tok
  <2>6. OutIsReserved'
    BY <2>1, <2>3, <1>r DEF InCalm, OutIsReserved, At, Tok
  <2>7. UnreadIsMapped'
    BY <2>1 DEF UnreadIsMapped
  <2> QED BY <2>4, <2>5, <2>6, <2>7 DEF InCalm
<1>11. CASE SweepDelete
  <2>1. /\ UNCHANGED <<mint, mapping, owner>> /\ cycle.change = {} /\ cycle' = Asleep
        /\ \A x \in Proof : wallet'[x] = wallet[x] \/ (x \in cycle.group /\ mint[x] = "spent")
    BY <1>11, <1>c, <1>t DEF SweepDelete, Redeeming, Moved, Held, GroupIsSpent
  <2>2. cycle'.unread = {} /\ InCycle' = {}
    BY <2>1 DEF Asleep, InCycle
  <2>3. UnspentIsMapped'
    BY <2>1, <1>p DEF InCalm, UnspentIsMapped
  <2>4. RequestIsMapped' /\ SignedIsHeld'
    BY <2>1, <1>r DEF InCalm, RequestIsMapped, SignedIsHeld, Tok
  <2>5. OutIsReserved'
    BY <2>1, <2>2, <1>r, <1>w, ProofNames DEF InCalm, OutIsReserved, At, Tok, InCycle
  <2>6. UnreadIsMapped'
    BY <2>2 DEF UnreadIsMapped
  <2> QED BY <2>3, <2>4, <2>5, <2>6 DEF InCalm
<1> QED BY <1>1, <1>2, <1>3, <1>4, <1>5, <1>6, <1>7, <1>8, <1>9, <1>10, <1>11 DEF RedeemStep

\* Nor any other.
LEMMA CalmStep ==
    TypeOK /\ Held /\ Held' /\ Named /\ NoRedis /\ RedisStays /\ Payments /\ MintedIsMapped
      /\ [Next]_vars => MintedIsMapped'
<1> SUFFICES ASSUME TypeOK, Held, Held', Named, NoRedis, RedisStays, Payments, MintedIsMapped,
                    [Next]_vars, Calmly
             PROVE  InCalm'
  BY DeploymentIsFixed DEF MintedIsMapped, Calmly
<1>0. HasRedis /\ Faults = {} /\ InCalm
  BY DEF Calmly, MintedIsMapped
<1>o. \A x \in Proof : wallet[x] # "absent" \/ x[2] # "in" => owner[x] \subseteq owner'[x]
  BY OwnersGrow
<1>h. cycle.unread \subseteq Proof /\ \A x \in InCycle : wallet[x] # "absent"
  BY DEF Held, CycleIsHeld, TypeOK, CycleOK, Cycles
<1>1. ASSUME NEW w \in Worker, NEW t \in Token, NEW a \in Address, Present(w, t, a) PROVE InCalm'
  <2>1. /\ request'[w].step = "map" /\ \A v \in Worker \ {w} : request'[v] = request[v]
        /\ UNCHANGED <<mint, wallet, mapping, cycle>> /\ At(w, "idle")
        /\ \A x \in Proof : owner[x] \subseteq owner'[x]
    BY <1>1 DEF Present, Earmark, TypeOK, RequestsOK, StoresOK
  <2>2. \A x \in Proof : Passing(x) => Passing(x)'
    BY <2>1 DEF Passing, At, Tok
  <2>3. UnspentIsMapped'
    BY <1>0, <2>1, <2>2 DEF InCalm, UnspentIsMapped
  <2>4. RequestIsMapped'
    <3>1. \A v \in Worker : ~At(v, "idle") => In(Tok(v)) \in Proof
      BY ProofNames DEF TypeOK, RequestsOK
    <3> QED BY <1>0, <2>1, <3>1 DEF InCalm, RequestIsMapped, At, Tok
  <2>5. OutIsReserved' /\ SignedIsHeld' /\ UnreadIsMapped'
    BY <1>0, <1>h, <2>1
       DEF InCalm, OutIsReserved, SignedIsHeld, UnreadIsMapped, At, Tok, InCycle
  <2> QED BY <2>3, <2>4, <2>5 DEF InCalm
<1>2. ASSUME NEW w \in Worker, RequestStep(w) PROVE InCalm'
  BY <1>0, <1>2, CalmRequest
<1>3. CASE RedeemStep
  BY <1>0, <1>3, CalmRedeem
<1>4. CASE RedeemerDies \/ \E w \in Worker : WorkerDies(w)
  BY <1>0, <1>4 DEF RedeemerDies, WorkerDies
<1>5. CASE RedisFails \/ RedisRecovers \/ UNCHANGED vars
  <2>1. UNCHANGED <<request, cycle, mint, wallet, mapping, owner>>
    BY <1>5 DEF RedisFails, RedisRecovers, vars
  <2> QED BY <1>0, <2>1 DEF InCalm, UnspentIsMapped, SignedIsHeld, RequestIsMapped,
          OutIsReserved, UnreadIsMapped, Passing, InCycle, At, Tok
<1>6. CASE Restart
  <2>1. /\ \A w \in Worker : At(w, "idle") /\ request'[w].step = "idle"
        /\ Redeeming("asleep") /\ cycle.change = {}
        /\ UNCHANGED <<mint, mapping, owner>> /\ cycle' = Asleep
    BY <1>0, <1>6 DEF Restart, Idle, Held, ChangeIsMinted, Redeeming
  <2>3. \A x \in Proof : mint[x] = "unspent" => (wallet'[x] = "absent" <=> wallet[x] = "absent")
    BY <1>0, <1>6, RestartEffect DEF InCalm, SignedIsHeld
  <2>4. UnspentIsMapped'
    BY <1>0, <2>1, <2>3 DEF InCalm, UnspentIsMapped, Passing, At
  <2>5. RequestIsMapped' /\ SignedIsHeld' /\ OutIsReserved'
    BY <1>0, <2>1, <2>3 DEF InCalm, RequestIsMapped, SignedIsHeld, OutIsReserved, At
  <2>6. UnreadIsMapped'
    BY <2>1 DEF UnreadIsMapped, Asleep
  <2> QED BY <2>4, <2>5, <2>6 DEF InCalm
<1> QED BY <1>1, <1>2, <1>3, <1>4, <1>5, <1>6 DEF Next

----------------------------------------------------------------------------
\* The third layer: mappings, plan and payments.
LEMMA PointedInvariant == Spec => [](TypeOK /\ Held /\ Named /\ Pointed)
<1>1. Init => Pointed
  <2> SUFFICES ASSUME Init PROVE Pointed
    OBVIOUS
  <2>1. /\ cycle.plan = {} /\ cycle.change = {} /\ cycle.unread = {} /\ cycle.group = {}
        /\ cycle.step = "asleep"
        /\ \A w \in Worker : request[w].step = "idle"
        /\ \A x \in Proof : mapping[x] = None /\ paid[x] = None /\ wallet[x] = "absent"
                            /\ (mint[x] = "unspent" => x[2] = "in")
    BY DEF Init, Asleep, Idle
  <2>2. NoRedis /\ RedisStays
    BY <2>1 DEF NoRedis, RedisStays
  <2>3. MappingsPoint /\ Payments
    BY <2>1 DEF MappingsPoint, Payments, PlanPoints, GroupPoints, ChangePoints, PaidPoints
  <2>4. InCalm
    BY <2>1 DEF InCalm, UnspentIsMapped, SignedIsHeld, RequestIsMapped, OutIsReserved,
       UnreadIsMapped, At
  <2> QED BY <2>2, <2>3, <2>4 DEF Pointed, MintedIsMapped
<1>2. TypeOK /\ Held /\ Held' /\ Named /\ Pointed /\ [Next]_vars => Pointed'
  <2> SUFFICES ASSUME TypeOK, Held, Held', Named, Pointed, [Next]_vars PROVE Pointed'
    OBVIOUS
  <2>1. NoRedis' /\ RedisStays'
    BY NoRedisStep, RedisStaysStep DEF Pointed
  <2>2. Clean' => Clean
    BY DeploymentIsFixed DEF Clean
  <2>3. ASSUME Clean PROVE MappingsPoint' /\ Payments' /\ MintedIsMapped'
    BY <2>3, MappingsStep, PaymentsStep, CalmStep DEF Pointed
  <2> QED BY <2>1, <2>2, <2>3 DEF Pointed
<1> QED BY <1>1, <1>2, NamedInvariant, PTL DEF Spec

\* Whatever fails, a proof pays an address that was named for it, or the
\* default one: redeem_unspent_proofs never sends it to another tenant.
THEOREM NeverAnotherTenantHolds == Spec => []NeverAnotherTenant
<1>1. Pointed => NeverAnotherTenant
  BY DEF Pointed, Payments, PaidPoints, NeverAnotherTenant, Clean, Extra
<1> QED BY <1>1, PointedInvariant, PTL

\* With Redis and no fault that parts a proof from its mapping, it pays an
\* address that was named for it.
THEOREM PaidAsNamedHolds == Spec => []PaidAsNamed
<1>1. Pointed => PaidAsNamed
  BY DEF Pointed, Payments, PaidPoints, PaidAsNamed, Clean, Calmly, Extra
<1> QED BY <1>1, PointedInvariant, PTL

\* No step forgets a proof the mint would still honour, or one whose saga is
\* there: sweep_spent_proof_mappings asks for sagas before it deletes, and what a
\* saga takes later the sweep did not hold. And no start, however much of
\* restore_wallets_state and reconcile_pending_proofs it reached, makes one
\* spendable that the mint has taken.
THEOREM NothingLostNothingRevivedHolds == Spec => NothingLostNothingRevived
<1> DEFINE Lost(x)    == wallet[x] # "absent" /\ wallet'[x] = "absent"
           Revived(x) == restarts' # restarts /\ wallet[x] # "unspent" /\ wallet'[x] = "unspent"
           Kept(x)    == (Lost(x) => mint[x] = "spent") /\ (Revived(x) => mint[x] = "unspent")
<1>1. TypeOK /\ Held /\ [Next]_vars =>
         [\A x \in Proof :
             /\ wallet[x] # "absent" /\ wallet'[x] = "absent"
                   => mint[x] = "spent" /\ x \notin saga'
             /\ restarts' # restarts /\ wallet[x] # "unspent" /\ wallet'[x] = "unspent"
                   => mint[x] = "unspent"]_vars
  <2>0. TypeOK /\ Held /\ [Next]_vars => \A x \in Proof : Lost(x) => x \notin saga'
    BY SagaStep DEF SagaIsHeld
  <2> SUFFICES ASSUME TypeOK, Held, [Next]_vars, NEW x \in Proof PROVE Kept(x)
    BY <2>0
  <2>1. CASE Restart
    BY <2>1, RestartEffect
  <2>2. CASE ~Restart
    <3>1. UNCHANGED restarts
      BY <2>2 DEF Next, vars, Present, RequestStep, MapIn, StoreIn, StoreFails, SwapReserve,
         Swap, SwapReplyLost, SwapFails, MapOut, UnmapIn, Release, WorkerDies, RedeemStep,
         CycleStart, ReadMapping, Melt, SkipGroup, MeltPaid, MeltPaidWithChange, MeltReplyLost,
         MeltFails, UnmapMelted, MapChange, Sweep, SweepBut, SweepDelete, RedeemerDies,
         RedisFails, RedisRecovers
    <3>2. CASE SweepDelete
      <4>1. x \in cycle.group \/ wallet'[x] = wallet[x]
        BY <3>2 DEF SweepDelete, Moved
      <4> QED BY <3>1, <3>2, <4>1 DEF SweepDelete, Redeeming, Held, GroupIsSpent
    <3>3. CASE ~SweepDelete
      <4>1. \A w \in Worker : RequestStep(w) => ~Lost(x)
        BY DEF RequestStep, MapIn, StoreIn, StoreFails, SwapReserve, Swap, SwapReplyLost,
           SwapFails, MapOut, UnmapIn, Release, TypeOK, StoresOK
      <4>2. RedeemStep => ~Lost(x)
        <5>1. \A t \in Token : MeltPaidWithChange(t) => ~Lost(x)
          BY ProofNames DEF MeltPaidWithChange, Moved
        <5>2. MeltPaid \/ MeltReplyLost \/ MeltFails \/ (\E a \in Address : Melt(a)) => ~Lost(x)
          BY DEF MeltPaid, MeltReplyLost, MeltFails, Melt, Moved
        <5> QED BY <3>3, <5>1, <5>2 DEF RedeemStep, CycleStart, ReadMapping, SkipGroup,
                UnmapMelted, MapChange, Sweep, SweepBut
      <4>3. \/ \E w \in Worker, t \in Token, a \in Address : Present(w, t, a)
            \/ \E w \in Worker : WorkerDies(w)
            \/ RedeemerDies \/ RedisFails \/ RedisRecovers \/ UNCHANGED vars
            => ~Lost(x)
        BY DEF Present, WorkerDies, RedeemerDies, RedisFails, RedisRecovers, vars
      <4> QED BY <2>2, <3>1, <4>1, <4>2, <4>3 DEF Next
    <3> QED BY <3>2, <3>3
  <2> QED BY <2>1, <2>2
<1> QED BY <1>1, HeldInvariant, PTL DEF Spec, NothingLostNothingRevived

============================================================================
