------------------------- MODULE PreimageGateProofs -------------------------
(***************************************************************************)
(* Single use of preimages, where REDIS_URL is set, for any number of      *)
(* workers and payments, any outages, crashes, lost replies and reloads,   *)
(* and any timeouts and TTLs within Covered.  The inductive invariant adds *)
(* to AtMostOnce what makes it true: the marker of an admitted payment     *)
(* outlasts every claim its macaroon can still reach (MarkerCovers),       *)
(* because a claim follows a macaroon check by at most MaxStall            *)
(* (ClaimIsFresh), and because a marker never expires where macaroons      *)
(* never do (OneKind).                                                     *)
(***************************************************************************)
EXTENDS PreimageGate, ReplayCacheLemmas

\* TypeOK with the replay caches known to be consistent, which typing them
\* across a claim needs.
CachesConsistent == \A w \in Worker : Consistent(worker[w].cache)

ClaimIsFresh ==
    \A w \in Worker : At(w, "claim") =>
        LET p == request[w].payment IN
        /\ now <= request[w].since + MaxStall
        /\ macaroon[p].life > 0 =>
              request[w].since <= macaroon[p].at + macaroon[p].life

MacaroonsAreDated ==
    \A p \in Payment : macaroon[p].minted =>
        macaroon[p].at <= now /\ macaroon[p].life \in Timeout

RequestsAreMinted ==
    \A w \in Worker : ~At(w, "idle") => macaroon[request[w].payment].minted

MarkerCovers(p) ==
    /\ marker[p].set
    /\ \/ marker[p].ttl = 0
       \/ /\ macaroon[p].life > 0
          /\ macaroon[p].at + macaroon[p].life + MaxStall < marker[p].at + marker[p].ttl

\* Reloads keep a location's macaroons, and the workers that check them, either
\* all with a lifetime or all without.
SameKind(t) == t = 0 <=> timeout = 0

OneKind ==
    /\ \A w \in Worker : SameKind(worker[w].timeout)
    /\ \A p \in Payment : macaroon[p].minted => SameKind(macaroon[p].life)

AdmittedIsMarked ==
    \A p \in Payment : admissions[p] > 0 => macaroon[p].minted /\ MarkerCovers(p)

SettledIsMinted == \A p \in settled : macaroon[p].minted

IInv ==
    /\ \A p \in Payment : admissions[p] <= 1
    /\ OneKind
    /\ ClaimIsFresh
    /\ MacaroonsAreDated
    /\ RequestsAreMinted
    /\ SettledIsMinted
    /\ AdmittedIsMarked

----------------------------------------------------------------------------
\* No step leaves the types, or leaves a cache whose set and deque disagree.
LEMMA TypeInvariant == Spec => [](TypeOK /\ CachesConsistent)
<1> USE GateAssumption
<1> DEFINE T == TypeOK /\ CachesConsistent
<1>1. Init => T
  <2> SUFFICES ASSUME Init PROVE T
    OBVIOUS
  <2>1. /\ WithCapacity(CacheCap) \in CacheOf(Payment)
        /\ Consistent(WithCapacity(CacheCap))
    BY NewCache
  <2>2. WorkersOK /\ CachesConsistent
    BY <2>1 DEF Init, WorkersOK, CachesConsistent, CacheOf
  <2>3. RequestsOK
    BY DEF Init, RequestsOK, Idle, Steps
  <2>4. OutsideOK
    BY DEF Init, OutsideOK
  <2>5. LedgerOK
    BY DEF Init, LedgerOK
  <2> QED BY <2>2, <2>3, <2>4, <2>5 DEF TypeOK
<1>2. T /\ [Next]_vars => T'
  <2> SUFFICES ASSUME T, [Next]_vars PROVE T'
    OBVIOUS
  <2>a. UNCHANGED worker => WorkersOK' /\ CachesConsistent'
    BY DEF TypeOK, WorkersOK, CachesConsistent
  <2>b. UNCHANGED outside => OutsideOK'
    BY DEF TypeOK, OutsideOK, outside
  <2>c. UNCHANGED ledger => LedgerOK'
    BY DEF TypeOK, LedgerOK, ledger
  <2>d. UNCHANGED request => RequestsOK'
    BY DEF TypeOK, RequestsOK
  <2>e. ASSUME NEW w \in Worker, Answer(w) PROVE RequestsOK'
    BY <2>e DEF Answer, TypeOK, RequestsOK, Idle, Steps
  <2>f. ASSUME NEW w \in Worker, NEW s \in Steps, ~At(w, "idle"), Goto(w, s)
        PROVE  RequestsOK'
    BY <2>f DEF Goto, At, TypeOK, RequestsOK, Steps
  <2>g. ASSUME NEW w \in Worker, NEW p \in Payment, NEW s \in Steps,
               request' = [request EXCEPT ![w] = Busy(s, p)]
        PROVE  RequestsOK'
    BY <2>g DEF Busy, TypeOK, RequestsOK, Steps
  <2>h. ASSUME NEW w \in Worker, NEW p \in Payment, SetMarker(w, p)
        PROVE  marker' \in [Payment -> [set : BOOLEAN, at : 0..Horizon, ttl : Nat]]
    <3>1. worker[w].timeout \in Nat /\ MarkerTtl(worker[w].timeout) \in Nat
      BY DEF TypeOK, WorkersOK, MarkerTtl, Larger
    <3> QED BY <2>h, <3>1 DEF SetMarker, TypeOK, LedgerOK, OutsideOK
  <2>i. ASSUME NEW w \in Worker, ~At(w, "idle") PROVE request[w].payment \in Payment
    BY <2>i DEF At, TypeOK, RequestsOK
  <2>1. ASSUME NEW w \in Worker, NEW p \in Payment, Mint(w, p) PROVE T'
    <3>1. OutsideOK'
      <4>1. worker[w].timeout \in Timeout
        BY DEF TypeOK, WorkersOK
      <4> QED BY <2>1, <4>1 DEF Mint, TypeOK, OutsideOK
    <3> QED BY <2>1, <2>a, <2>c, <2>d, <3>1 DEF Mint, TypeOK
  <2>2. ASSUME NEW w \in Worker, NEW p \in Payment,
               PresentClassic(w, p) \/ PresentAutoDetect(w, p)
        PROVE  T'
    BY <2>2, <2>a, <2>b, <2>c, <2>g DEF PresentClassic, PresentAutoDetect, TypeOK, Steps
  <2>3. ASSUME NEW w \in Worker, ResolveCached(w) \/ ResolveFails(w) PROVE T'
    BY <2>3, <2>a, <2>b, <2>c, <2>e, <2>f DEF ResolveCached, ResolveFails, At, TypeOK, Steps
  <2>4. ASSUME NEW w \in Worker, ResolveAtNode(w) PROVE T'
    <3>1. LedgerOK'
      BY <2>4, <2>i DEF ResolveAtNode, At, TypeOK, LedgerOK
    <3> QED BY <2>4, <2>a, <2>b, <2>f, <3>1 DEF ResolveAtNode, At, TypeOK, Steps
  <2>5. ASSUME NEW w \in Worker, PreCheck(w) PROVE T'
    BY <2>5, <2>a, <2>b, <2>c, <2>e, <2>f DEF PreCheck, At, TypeOK, Steps
  <2>6. ASSUME NEW w \in Worker, Verify(w) PROVE T'
    <3>1. RequestsOK'
      BY <2>6, <2>e DEF Verify, At, TypeOK, RequestsOK, OutsideOK, Steps
    <3> QED BY <2>6, <2>a, <2>b, <2>c, <3>1 DEF Verify, TypeOK
  <2>7. ASSUME NEW w \in Worker, ClaimInRedis(w) PROVE T'
    <3>1. LedgerOK'
      BY <2>7, <2>h, <2>i DEF ClaimInRedis, At, Admit, TypeOK, LedgerOK
    <3> QED BY <2>7, <2>a, <2>b, <2>e, <3>1 DEF ClaimInRedis, TypeOK
  <2>8. ASSUME NEW w \in Worker, ClaimReplyLost(w) PROVE T'
    <3>1. LedgerOK'
      BY <2>8, <2>h, <2>i DEF ClaimReplyLost, At, TypeOK, LedgerOK
    <3> QED BY <2>8, <2>a, <2>b, <2>e, <3>1 DEF ClaimReplyLost, TypeOK
  <2>9. ASSUME NEW w \in Worker, ClaimUnavailable(w) PROVE T'
    BY <2>9, <2>a, <2>b, <2>c, <2>e DEF ClaimUnavailable, TypeOK
  <2>10. ASSUME NEW w \in Worker, ClaimInWorker(w) PROVE T'
    <3> DEFINE p == request[w].payment
               c == worker[w].cache
    <3>1. p \in Payment
      BY <2>10, <2>i DEF ClaimInWorker, At
    <3>2. c \in CacheOf(Payment) /\ Consistent(c)
      BY DEF TypeOK, WorkersOK, CachesConsistent, CacheOf
    <3>3. AfterClaim(c, p) \in CacheOf(Payment) /\ Consistent(AfterClaim(c, p))
      BY <3>1, <3>2, ClaimKeeps
    <3>4. WorkersOK' /\ CachesConsistent'
      <4>1. worker' = [worker EXCEPT ![w].cache = AfterClaim(c, p)]
        BY <2>10 DEF ClaimInWorker
      <4>2. WorkersOK'
        BY <3>3, <4>1 DEF TypeOK, WorkersOK, CacheOf
      <4>3. /\ worker'[w].cache = AfterClaim(c, p)
            /\ \A v \in Worker : v # w => worker'[v] = worker[v]
        BY <4>1 DEF TypeOK, WorkersOK
      <4>4. ASSUME NEW v \in Worker PROVE Consistent(worker'[v].cache)
        <5>1. CASE v = w
          BY <3>3, <4>3, <5>1
        <5>2. CASE v # w
          BY <4>3, <5>2 DEF CachesConsistent
        <5> QED BY <5>1, <5>2
      <4> QED BY <4>2, <4>4 DEF CachesConsistent
    <3>5. LedgerOK'
      BY <2>10, <3>1 DEF ClaimInWorker, Admit, TypeOK, LedgerOK
    <3> QED BY <2>10, <2>b, <2>e, <3>4, <3>5 DEF ClaimInWorker, TypeOK
  <2>11. ASSUME Tick \/ RedisFails \/ RedisRecovers \/ \E t \in Timeout : Reload(t)
         PROVE  T'
    <3>1. OutsideOK'
      <4>1. CASE Tick
        <5>1. now \in 0..Horizon /\ now < Horizon /\ now' = now + 1
          BY <4>1 DEF Tick, TypeOK, OutsideOK
        <5>2. now' \in 0..Horizon
          BY <5>1
        <5> QED BY <4>1, <5>2 DEF Tick, TypeOK, OutsideOK
      <4>2. CASE RedisFails \/ RedisRecovers
        BY <4>2 DEF RedisFails, RedisRecovers, TypeOK, OutsideOK
      <4>3. CASE \E t \in Timeout : Reload(t)
        BY <4>3 DEF Reload, TypeOK, OutsideOK
      <4> QED BY <2>11, <4>1, <4>2, <4>3
    <3> QED BY <2>11, <2>a, <2>c, <2>d, <3>1 DEF Tick, RedisFails, RedisRecovers, Reload, TypeOK
  <2>12. ASSUME NEW p \in Payment, Settle(p) PROVE T'
    <3>1. OutsideOK'
      BY <2>12 DEF Settle, TypeOK, OutsideOK
    <3> QED BY <2>12, <2>a, <2>c, <2>d, <3>1 DEF Settle, TypeOK
  <2>13. ASSUME NEW p \in Payment, KnownExpires(p) PROVE T'
    <3>1. LedgerOK'
      BY <2>13 DEF KnownExpires, TypeOK, LedgerOK
    <3> QED BY <2>13, <2>a, <2>b, <2>d, <3>1 DEF KnownExpires, TypeOK
  <2>14. ASSUME NEW w \in Worker, Restart(w) PROVE T'
    <3>1. /\ WithCapacity(CacheCap) \in CacheOf(Payment)
          /\ Consistent(WithCapacity(CacheCap))
      BY NewCache
    <3>2. WorkersOK' /\ CachesConsistent'
      BY <2>14, <3>1 DEF Restart, TypeOK, WorkersOK, OutsideOK, CachesConsistent, CacheOf
    <3>3. OutsideOK'
      BY <2>14 DEF Restart, TypeOK, OutsideOK
    <3> QED BY <2>14, <2>c, <2>e, <3>2, <3>3 DEF Restart, TypeOK
  <2>15. CASE UNCHANGED vars
    BY <2>15, <2>a, <2>b, <2>c, <2>d DEF vars, outside, ledger, TypeOK
  <2> QED BY <2>1, <2>2, <2>3, <2>4, <2>5, <2>6, <2>7, <2>8, <2>9, <2>10, <2>11, <2>12,
             <2>13, <2>14, <2>15 DEF Next, HandlerStep
<1> QED BY <1>1, <1>2, PTL DEF Spec

\* A live configuration types every variable.
THEOREM TypeCorrect == Spec => []TypeOK
<1>1. TypeOK /\ CachesConsistent => TypeOK
  OBVIOUS
<1> QED BY <1>1, TypeInvariant, PTL

----------------------------------------------------------------------------
\* A claim that finds no live marker is the first: had its payment been
\* admitted, the marker would outlast the claim.
LEMMA FirstClaim ==
    ASSUME TypeOK, IInv, NEW w \in Worker, At(w, "claim"), ~Live(request[w].payment)
    PROVE  admissions[request[w].payment] = 0
<1> DEFINE p == request[w].payment
<1>1. p \in Payment /\ admissions[p] \in Nat /\ now \in Nat /\ MaxStall \in Nat
  BY GateAssumption DEF At, TypeOK, RequestsOK, LedgerOK, OutsideOK
<1>2. request[w].since \in Nat
  BY GateAssumption DEF TypeOK, RequestsOK
<1>3. /\ macaroon[p].at \in Nat /\ macaroon[p].life \in Nat
      /\ marker[p].at \in Nat /\ marker[p].ttl \in Nat
  <2>1. /\ macaroon[p] \in [minted : BOOLEAN, at : 0..Horizon, life : Timeout \cup {0}]
        /\ marker[p] \in [set : BOOLEAN, at : 0..Horizon, ttl : Nat]
    BY <1>1 DEF TypeOK, OutsideOK, LedgerOK
  <2>2. Timeout \subseteq Nat /\ Horizon \in Nat
    BY GateAssumption
  <2>3. macaroon[p].at \in 0..Horizon /\ macaroon[p].life \in Timeout \cup {0}
        /\ marker[p].at \in 0..Horizon /\ marker[p].ttl \in Nat
    BY <2>1
  <2>4. (\A n \in Timeout \cup {0} : n \in Nat) /\ (\A n \in 0..Horizon : n \in Nat)
    BY <2>2
  <2> QED BY <2>3, <2>4
<1>4. /\ now <= request[w].since + MaxStall
      /\ macaroon[p].life > 0 => request[w].since <= macaroon[p].at + macaroon[p].life
  BY DEF IInv, ClaimIsFresh
<1>5. ASSUME admissions[p] > 0 PROVE FALSE
  <2>1. MarkerCovers(p)
    BY <1>1, <1>5 DEF IInv, AdmittedIsMarked
  <2> HIDE DEF p
  <2>2. Live(p)
    BY <1>1, <1>2, <1>3, <1>4, <2>1 DEF MarkerCovers, Live
  <2> QED BY <2>2 DEF p
<1> QED BY <1>1, <1>5

\* A marker set by a claim covers the claim's macaroon.
LEMMA NewMarkerCovers ==
    ASSUME Covered, TypeOK, IInv, NEW w \in Worker, At(w, "claim"),
           NEW p \in Payment, p = request[w].payment,
           SetMarker(w, p), UNCHANGED macaroon
    PROVE  macaroon[p].minted /\ MarkerCovers(p)'
<1> DEFINE t == worker[w].timeout
<1>1. /\ now \in Nat /\ MaxStall \in Nat /\ PreimageTtl \in Nat
      /\ t \in Timeout /\ Timeout \subseteq Nat
  BY GateAssumption DEF TypeOK, WorkersOK, OutsideOK
<1>2. macaroon[p].minted
  BY DEF At, IInv, RequestsAreMinted
<1>3. macaroon[p].at \in Nat /\ macaroon[p].at <= now /\ macaroon[p].life \in Timeout
  BY <1>1, <1>2, GateAssumption DEF IInv, MacaroonsAreDated, TypeOK, OutsideOK
<1>4. marker'[p] = [set |-> TRUE, at |-> now, ttl |-> MarkerTtl(t)]
  BY DEF SetMarker, TypeOK, LedgerOK
<1> HIDE DEF t
<1>5. t = 0 <=> macaroon[p].life = 0
  BY <1>2 DEF t, IInv, OneKind, SameKind
<1>6. MarkerCovers(p)'
  <2>1. CASE t = 0
    <3>1. MarkerTtl(t) = 0
      BY <2>1 DEF MarkerTtl
    <3> QED BY <1>4, <3>1 DEF MarkerCovers
  <2>2. CASE t # 0
    <3>1. /\ macaroon[p].life \in Nat /\ macaroon[p].life > 0
          /\ macaroon[p].life + MaxStall < PreimageTtl
      <4>1. \A u \in Timeout : u > 0 => u + MaxStall < PreimageTtl
        BY DEF Covered
      <4>2. macaroon[p].life \in Nat /\ macaroon[p].life # 0
        BY <1>1, <1>3, <1>5, <2>2
      <4>3. macaroon[p].life > 0
        BY <4>2
      <4> QED BY <1>3, <4>1, <4>2, <4>3
    <3>2. MarkerTtl(t) \in Nat /\ MarkerTtl(t) >= PreimageTtl
      BY <1>1, <2>2 DEF MarkerTtl, Larger
    <3>3. macaroon[p].at + macaroon[p].life + MaxStall < now + MarkerTtl(t)
      BY <1>1, <1>3, <3>1, <3>2
    <3> QED BY <1>4, <3>1, <3>3 DEF MarkerCovers
  <2> QED BY <2>1, <2>2
<1> QED BY <1>2, <1>6

\* REDIS_URL is read when nginx starts.
LEMMA RedisIsFixed == [Next]_vars => UNCHANGED hasRedis
BY DEF Next, HandlerStep, vars, outside, Mint, Settle, PresentClassic,
   PresentAutoDetect, ResolveCached, ResolveAtNode, ResolveFails, PreCheck, Verify,
   ClaimInRedis, ClaimReplyLost, ClaimUnavailable, ClaimInWorker, Tick, RedisFails,
   RedisRecovers, KnownExpires, Reload, Restart

\* One step keeps the strengthened invariant.
LEMMA IInvStep ==
    ASSUME hasRedis, Covered, TypeOK, IInv, [Next]_vars
    PROVE  IInv'
<1> USE GateAssumption
<1> DEFINE Dates   == MacaroonsAreDated /\ SettledIsMinted /\ OneKind
           Asks    == ClaimIsFresh /\ RequestsAreMinted
           Admits  == (\A p \in Payment : admissions[p] <= 1) /\ AdmittedIsMarked
\* What keeps each part when the step does not concern it.
<1>a. UNCHANGED <<now, macaroon, settled, timeout, worker>> => Dates'
  BY DEF IInv, MacaroonsAreDated, SettledIsMinted, OneKind, SameKind
<1>b. UNCHANGED <<now, macaroon, request>> => Asks'
  BY DEF IInv, ClaimIsFresh, RequestsAreMinted, At
<1>c. UNCHANGED <<macaroon, marker, admissions>> => Admits'
  BY DEF IInv, AdmittedIsMarked, MarkerCovers
<1>d. ASSUME NEW w \in Worker, Answer(w), UNCHANGED <<now, macaroon>> PROVE Asks'
  BY <1>d DEF Answer, Idle, At, IInv, ClaimIsFresh, RequestsAreMinted, TypeOK, RequestsOK
<1>e. ASSUME NEW w \in Worker, ~At(w, "idle"), NEW s \in {"check", "verify"}, Goto(w, s),
             UNCHANGED <<now, macaroon>>
      PROVE  Asks'
  BY <1>e DEF Goto, At, IInv, ClaimIsFresh, RequestsAreMinted, TypeOK, RequestsOK
<1>f. ASSUME NEW w \in Worker, NEW p \in Payment, NEW s \in {"resolve", "check"},
             request' = [request EXCEPT ![w] = Busy(s, p)], macaroon[p].minted,
             UNCHANGED <<now, macaroon>>
      PROVE  Asks'
  BY <1>f DEF Busy, At, IInv, ClaimIsFresh, RequestsAreMinted, TypeOK, RequestsOK
<1> HIDE DEF Dates, Asks, Admits
<1>1. ASSUME NEW w \in Worker, NEW p \in Payment, Mint(w, p) PROVE IInv'
  <2>1. /\ \A q \in Payment : macaroon[q].minted => macaroon'[q] = macaroon[q]
        /\ macaroon'[p] = [minted |-> TRUE, at |-> now, life |-> worker[w].timeout]
        /\ \A q \in Payment : q # p => macaroon'[q] = macaroon[q]
        /\ UNCHANGED <<now, marker, admissions, request, settled, timeout, worker>>
    BY <1>1 DEF Mint, TypeOK, OutsideOK, ledger
  <2>2. Dates'
    <3>1. worker[w].timeout \in Timeout /\ now \in Nat /\ SameKind(worker[w].timeout)
      BY DEF IInv, OneKind, TypeOK, OutsideOK, WorkersOK
    <3>2. MacaroonsAreDated'
      BY <2>1, <3>1 DEF MacaroonsAreDated, IInv
    <3>3. SettledIsMinted'
      BY <2>1 DEF SettledIsMinted, IInv, TypeOK, OutsideOK
    <3>4. OneKind'
      BY <2>1, <3>1 DEF OneKind, SameKind, IInv
    <3> QED BY <3>2, <3>3, <3>4 DEF Dates
  <2>3. Asks'
    BY <2>1 DEF Asks, At, IInv, ClaimIsFresh, RequestsAreMinted, TypeOK, RequestsOK
  <2>4. Admits'
    BY <2>1 DEF Admits, IInv, AdmittedIsMarked, MarkerCovers
  <2> QED BY <2>2, <2>3, <2>4 DEF IInv, Dates, Asks, Admits
<1>2. ASSUME NEW w \in Worker, NEW p \in Payment,
             PresentClassic(w, p) \/ PresentAutoDetect(w, p)
      PROVE  IInv'
  <2>1. macaroon[p].minted
    BY <1>2 DEF PresentClassic, PresentAutoDetect, IInv, SettledIsMinted
  <2>2. UNCHANGED <<now, macaroon, settled, timeout, worker, marker, admissions>>
    BY <1>2 DEF PresentClassic, PresentAutoDetect, outside, ledger
  <2> QED BY <1>2, <1>a, <1>c, <1>f, <2>1, <2>2
          DEF PresentClassic, PresentAutoDetect, IInv, Dates, Asks, Admits
<1>3. ASSUME NEW w \in Worker,
             ResolveCached(w) \/ ResolveAtNode(w) \/ ResolveFails(w) \/ PreCheck(w)
      PROVE  IInv'
  <2>1. UNCHANGED <<now, macaroon, settled, timeout, worker, marker, admissions>>
    BY <1>3 DEF ResolveCached, ResolveAtNode, ResolveFails, PreCheck, outside, ledger
  <2>2. Asks'
    BY <1>3, <1>d, <1>e, <2>1 DEF ResolveCached, ResolveAtNode, ResolveFails, PreCheck, At
  <2> QED BY <1>a, <1>c, <2>1, <2>2 DEF IInv, Dates, Asks, Admits
<1>4. ASSUME NEW w \in Worker, Verify(w) PROVE IInv'
  <2>1. UNCHANGED <<now, macaroon, settled, timeout, worker, marker, admissions>>
    BY <1>4 DEF Verify, outside, ledger
  <2>2. Asks'
    <3>1. CASE Expired(request[w].payment)
      BY <1>4, <1>d, <2>1, <3>1 DEF Verify
    <3>2. CASE ~Expired(request[w].payment)
      <4> DEFINE p == request[w].payment
      <4>1. /\ request' = [request EXCEPT ![w].step = "claim", ![w].since = now]
            /\ p \in Payment /\ now \in Nat
        BY <1>4, <3>2 DEF Verify, At, TypeOK, RequestsOK, OutsideOK
      <4>2. /\ request'[w].step = "claim" /\ request'[w].since = now
            /\ request'[w].payment = p
            /\ \A v \in Worker : v # w => request'[v] = request[v]
        BY <4>1 DEF TypeOK, RequestsOK
      <4>3. now <= now + MaxStall
            /\ (macaroon[p].life > 0 => now <= macaroon[p].at + macaroon[p].life)
        BY <3>2, <4>1 DEF Expired, TypeOK, OutsideOK
      <4>4. ClaimIsFresh'
        BY <2>1, <4>2, <4>3 DEF ClaimIsFresh, At, IInv
      <4>5. RequestsAreMinted'
        BY <1>4, <2>1, <4>2 DEF RequestsAreMinted, At, IInv, Verify
      <4> QED BY <4>4, <4>5 DEF Asks
    <3> QED BY <3>1, <3>2
  <2> QED BY <1>a, <1>c, <2>1, <2>2 DEF IInv, Dates, Asks, Admits
<1>5. ASSUME NEW w \in Worker, ClaimInRedis(w) PROVE IInv'
  <2>0. PICK p \in Payment : p = request[w].payment
    BY <1>5 DEF ClaimInRedis, At, TypeOK, RequestsOK
  <2>1. UNCHANGED <<now, macaroon, settled, timeout, worker>> /\ Dates' /\ Asks'
    BY <1>5, <1>a, <1>d DEF ClaimInRedis, outside
  <2>2. Admits'
    <3>1. CASE Live(p)
      BY <1>5, <1>c, <2>0, <2>1, <3>1 DEF ClaimInRedis
    <3>2. CASE ~Live(p)
      <4>1. admissions[p] = 0
        BY <1>5, <2>0, <3>2, FirstClaim DEF ClaimInRedis
      <4>2. macaroon[p].minted /\ MarkerCovers(p)'
        BY <1>5, <2>0, <2>1, <3>2, NewMarkerCovers DEF ClaimInRedis
      <4>3. /\ admissions'[p] = 1
            /\ \A q \in Payment : q # p => /\ admissions'[q] = admissions[q]
                                          /\ marker'[q] = marker[q]
        BY <1>5, <2>0, <2>1, <3>2, <4>1 DEF ClaimInRedis, Admit, SetMarker, TypeOK, LedgerOK
      <4>4. (\A q \in Payment : admissions[q] <= 1)'
        BY <4>3 DEF IInv
      <4>5. AdmittedIsMarked'
        <5> SUFFICES ASSUME NEW q \in Payment, admissions'[q] > 0
                     PROVE  macaroon'[q].minted /\ MarkerCovers(q)'
          BY DEF AdmittedIsMarked
        <5>1. CASE q = p
          BY <2>1, <4>2, <5>1
        <5>2. CASE q # p
          BY <2>1, <4>3, <5>2 DEF AdmittedIsMarked, MarkerCovers, IInv
        <5> QED BY <5>1, <5>2
      <4> QED BY <4>4, <4>5 DEF Admits
    <3> QED BY <3>1, <3>2
  <2> QED BY <2>1, <2>2 DEF IInv, Dates, Asks, Admits
<1>6. ASSUME NEW w \in Worker, ClaimReplyLost(w) PROVE IInv'
  <2> DEFINE p == request[w].payment
  <2>1. p \in Payment /\ UNCHANGED <<now, macaroon, settled, timeout, worker, admissions>> /\ Dates' /\ Asks'
    BY <1>6, <1>a, <1>d DEF ClaimReplyLost, outside, At, TypeOK, RequestsOK
  <2>2. admissions[p] = 0
    BY <1>6, FirstClaim DEF ClaimReplyLost
  <2>3. \A q \in Payment : q # p => marker'[q] = marker[q]
    BY <1>6, <2>1 DEF ClaimReplyLost, SetMarker, TypeOK, LedgerOK
  <2>4. Admits'
    BY <2>1, <2>2, <2>3 DEF Admits, AdmittedIsMarked, MarkerCovers, IInv
  <2> QED BY <2>1, <2>4 DEF IInv, Dates, Asks, Admits
<1>7. ASSUME NEW w \in Worker, ClaimUnavailable(w) PROVE IInv'
  <2>1. UNCHANGED <<now, macaroon, settled, timeout, worker, marker, admissions>>
    BY <1>7 DEF ClaimUnavailable, outside, ledger
  <2> QED BY <1>7, <1>a, <1>c, <1>d, <2>1 DEF ClaimUnavailable, IInv, Dates, Asks, Admits
<1>8. ASSUME NEW w \in Worker, ClaimInWorker(w) PROVE IInv'
  BY <1>8 DEF ClaimInWorker
<1>9. CASE Tick
  <2>1. UNCHANGED <<macaroon, settled, timeout, worker, marker, admissions, request>>
        /\ now \in Nat /\ now' = now + 1
    BY <1>9 DEF Tick, ledger, TypeOK, OutsideOK
  <2>2. Dates'
    BY <2>1 DEF Dates, IInv, MacaroonsAreDated, SettledIsMinted, OneKind, SameKind,
       TypeOK, OutsideOK
  <2>3. Asks'
    <3>1. \A v \in Worker : At(v, "claim") => now < request[v].since + MaxStall
                                             /\ request[v].since \in Nat
      BY <1>9 DEF Tick, TypeOK, RequestsOK
    <3>2. \A v \in Worker : At(v, "claim") => now' <= request[v].since + MaxStall
      BY <2>1, <3>1
    <3> QED BY <2>1, <3>2 DEF Asks, At, IInv, ClaimIsFresh, RequestsAreMinted
  <2> QED BY <1>c, <2>1, <2>2, <2>3 DEF IInv, Dates, Asks, Admits
<1>10. CASE RedisFails \/ RedisRecovers \/ (\E p \in Payment : KnownExpires(p))
  <2>1. UNCHANGED <<now, macaroon, settled, timeout, worker, marker, admissions, request>>
    BY <1>10 DEF RedisFails, RedisRecovers, KnownExpires, outside, ledger
  <2> QED BY <1>a, <1>b, <1>c, <2>1 DEF IInv, Dates, Asks, Admits
<1>11. ASSUME NEW p \in Payment, Settle(p) PROVE IInv'
  <2>1. UNCHANGED <<now, macaroon, timeout, worker, marker, admissions, request>>
    BY <1>11 DEF Settle, ledger
  <2>2. Dates'
    BY <1>11, <2>1 DEF Settle, Dates, IInv, MacaroonsAreDated, SettledIsMinted,
       OneKind, SameKind
  <2> QED BY <1>b, <1>c, <2>1, <2>2 DEF IInv, Dates, Asks, Admits
<1>12. ASSUME NEW w \in Worker, Restart(w) PROVE IInv'
  <2>1. UNCHANGED <<now, timeout, macaroon, settled, marker, admissions>> /\ Answer(w)
    BY <1>12 DEF Restart, ledger
  <2>2. \A v \in Worker : worker'[v].timeout \in {worker[v].timeout, timeout}
    BY <1>12 DEF Restart, TypeOK, WorkersOK
  <2>3. Dates'
    BY <2>1, <2>2 DEF Dates, IInv, MacaroonsAreDated, SettledIsMinted, OneKind, SameKind
  <2> QED BY <1>c, <1>d, <2>1, <2>3 DEF IInv, Dates, Asks, Admits
\* A reload keeps the kind of every timeout.
<1>14. ASSUME NEW t \in Timeout, Reload(t) PROVE IInv'
  <2>1. UNCHANGED <<now, macaroon, settled, worker, marker, admissions, request>>
    BY <1>14 DEF Reload, ledger
  <2>2. timeout = 0 <=> timeout' = 0
    BY <1>14 DEF Reload, Covered
  <2>3. Dates'
    BY <2>1, <2>2 DEF Dates, IInv, MacaroonsAreDated, SettledIsMinted, OneKind, SameKind
  <2> QED BY <1>b, <1>c, <2>1, <2>3 DEF IInv, Dates, Asks, Admits
<1>13. CASE UNCHANGED vars
  BY <1>13, <1>a, <1>b, <1>c DEF vars, IInv, Dates, Asks, Admits
<1> QED BY <1>1, <1>2, <1>3, <1>4, <1>5, <1>6, <1>7, <1>8, <1>9, <1>10, <1>11, <1>12, <1>13,
          <1>14
        DEF Next, HandlerStep

\* The invariant holds initially.
LEMMA IInvInit == Init => IInv
BY GateAssumption DEF Init, IInv, ClaimIsFresh, MacaroonsAreDated, RequestsAreMinted,
   SettledIsMinted, OneKind, SameKind, AdmittedIsMarked, At, Idle

\* With covered timeouts, the strengthened invariant holds wherever there is Redis.
THEOREM GateInvariant ==
    ASSUME Covered
    PROVE  Spec => [](TypeOK /\ (hasRedis => IInv))
<1>1. TypeOK /\ (hasRedis => IInv) /\ [Next]_vars => (hasRedis => IInv)'
  BY IInvStep, RedisIsFixed
<1> QED BY <1>1, IInvInit, TypeCorrect, PTL DEF Spec

\* No payment is admitted twice (the gate's SET NX claim and its marker TTL).
THEOREM AtMostOnceHolds ==
    ASSUME Covered
    PROVE  Spec => []AtMostOnce
<1>1. (hasRedis => IInv) => AtMostOnce
  BY DEF IInv, AtMostOnce
<1> QED BY <1>1, GateInvariant, PTL

\* The marker of an admitted payment is live until the payment's macaroon has
\* expired (the TTL computed by store_preimage_as_used).
THEOREM MarkerOutlivesMacaroonHolds ==
    ASSUME Covered
    PROVE  Spec => []MarkerOutlivesMacaroon
<1>1. TypeOK /\ (hasRedis => IInv) => MarkerOutlivesMacaroon
  <2> SUFFICES ASSUME TypeOK, IInv, NEW p \in Payment, admissions[p] > 0, ~Expired(p)
               PROVE  Live(p)
    BY DEF MarkerOutlivesMacaroon
  <2>1. MarkerCovers(p)
    BY DEF IInv, AdmittedIsMarked
  <2>2. /\ macaroon[p] \in [minted : BOOLEAN, at : 0..Horizon, life : Timeout \cup {0}]
        /\ marker[p] \in [set : BOOLEAN, at : 0..Horizon, ttl : Nat]
        /\ now \in 0..Horizon
    BY DEF TypeOK, OutsideOK, LedgerOK
  <2>3. /\ now \in Nat /\ macaroon[p].at \in Nat /\ macaroon[p].life \in Nat
        /\ marker[p].at \in Nat /\ marker[p].ttl \in Nat /\ MaxStall \in Nat
    <3>1. 0..Horizon \subseteq Nat /\ Timeout \cup {0} \subseteq Nat /\ MaxStall \in Nat
      BY GateAssumption
    <3> QED BY <2>2, <3>1
  <2> QED BY <2>1, <2>3 DEF MarkerCovers, Expired, Live
<1> QED BY <1>1, GateInvariant, PTL

\* The gate implements single use: from its first state on, every step admits
\* one payment never admitted before, or none.
THEOREM GateImplementsAdmitOnce ==
    ASSUME Covered
    PROVE  Spec => ImplementsAdmitOnce
<1>1. Init => Abstract!Init
  BY DEF Init, Abstract!Init, Guarded
<1>2. TypeOK /\ (hasRedis => IInv) /\ [Next]_vars => [Abstract!Next]_Guarded
  <2> SUFFICES ASSUME TypeOK, hasRedis => IInv, [Next]_vars, Guarded' # Guarded
               PROVE  Abstract!Next
    OBVIOUS
  <2>0. hasRedis /\ IInv /\ UNCHANGED hasRedis /\ admissions' # admissions
    BY RedisIsFixed DEF Guarded
  <2>1. PICK w \in Worker : ClaimInRedis(w)
    <3>1. ASSUME NEW v \in Worker, ClaimInWorker(v) PROVE FALSE
      BY <2>0, <3>1 DEF ClaimInWorker
    <3> QED
      BY <2>0, <3>1 DEF Next, HandlerStep, vars, outside, ledger, Mint, Settle,
         PresentClassic, PresentAutoDetect, ResolveCached, ResolveAtNode, ResolveFails,
         PreCheck, Verify, ClaimReplyLost, ClaimUnavailable, Tick, RedisFails,
         RedisRecovers, KnownExpires, Reload, Restart
  <2>2. PICK p \in Payment : p = request[w].payment
    BY <2>1 DEF ClaimInRedis, At, TypeOK, RequestsOK
  <2>3. ~Live(p) /\ Admit(p)
    BY <2>0, <2>1, <2>2 DEF ClaimInRedis
  <2>4. admissions[p] = 0
    BY <2>0, <2>1, <2>2, <2>3, FirstClaim DEF ClaimInRedis
  <2>5. admissions' = [admissions EXCEPT ![p] = 1]
    BY <2>3, <2>4 DEF Admit
  <2> QED BY <2>0, <2>4, <2>5 DEF Abstract!Next, Abstract!Admit, Guarded
<1> QED BY <1>1, <1>2, GateInvariant, PTL DEF Spec, ImplementsAdmitOnce, Abstract!Spec

----------------------------------------------------------------------------
\* What marks a payment used, in Redis or in a worker's cache, is an admission or
\* a claim whose reply was lost.
UsedIsExplained ==
    \A p \in Payment :
        marker[p].set \/ (\E w \in Worker : Holds(worker[w].cache, p))
            => admissions[p] > 0 \/ p \in lost

\* Every step leaves what is marked used explained.
LEMMA UsedIsExplainedStep ==
    TypeOK /\ UsedIsExplained /\ [Next]_vars => UsedIsExplained'
<1> SUFFICES ASSUME TypeOK, UsedIsExplained, [Next]_vars PROVE UsedIsExplained'
  OBVIOUS
<1>a. ASSUME UNCHANGED <<marker, worker, admissions, lost>> PROVE UsedIsExplained'
  BY <1>a DEF UsedIsExplained
<1>b. \A p \in Payment : admissions[p] \in Nat
  BY DEF TypeOK, LedgerOK
<1>1. ASSUME NEW w \in Worker, ClaimInRedis(w) \/ ClaimReplyLost(w) PROVE UsedIsExplained'
  <2> DEFINE q == request[w].payment
  <2>1. q \in Payment
    BY <1>1 DEF ClaimInRedis, ClaimReplyLost, At, TypeOK, RequestsOK
  <2>2. /\ UNCHANGED worker
        /\ \A p \in Payment : p # q => UNCHANGED <<marker[p], admissions[p]>>
        /\ lost \subseteq lost'
    BY <1>1 DEF ClaimInRedis, ClaimReplyLost, SetMarker, Admit, outside, TypeOK, LedgerOK
  <2>3. \/ UNCHANGED <<marker, admissions, lost>>
        \/ admissions'[q] = admissions[q] + 1
        \/ q \in lost'
    BY <1>1, <2>1 DEF ClaimInRedis, ClaimReplyLost, Admit, TypeOK, LedgerOK
  <2> QED BY <1>b, <2>1, <2>2, <2>3 DEF UsedIsExplained
<1>2. ASSUME NEW w \in Worker, ClaimInWorker(w) PROVE UsedIsExplained'
  <2> DEFINE q == request[w].payment
  <2>1. q \in Payment
    BY <1>2 DEF ClaimInWorker, At, TypeOK, RequestsOK
  <2>2. /\ UNCHANGED <<marker, lost>>
        /\ worker' = [worker EXCEPT ![w].cache = AfterClaim(@, q)]
        /\ IF Holds(worker[w].cache, q) THEN UNCHANGED admissions ELSE Admit(q)
    BY <1>2 DEF ClaimInWorker, outside
  <2>3. \A p \in Payment : admissions[p] > 0 => admissions'[p] > 0
    BY <1>b, <2>1, <2>2 DEF Admit, TypeOK, LedgerOK
  <2>4. admissions'[q] > 0 \/ q \in lost
    BY <1>b, <2>1, <2>2 DEF UsedIsExplained, Admit, TypeOK, LedgerOK
  <2>5. ASSUME NEW p \in Payment, p # q, NEW v \in Worker, Holds(worker'[v].cache, p)
        PROVE  Holds(worker[v].cache, p)
    <3>1. CASE v = w
      <4>1. worker'[w].cache = AfterClaim(worker[w].cache, q)
        BY <2>2 DEF TypeOK, WorkersOK
      <4> QED BY <2>5, <3>1, <4>1, ClaimHoldsNoOther
    <3>2. CASE v # w
      BY <2>2, <2>5, <3>2 DEF TypeOK, WorkersOK
    <3> QED BY <3>1, <3>2
  <2>6. ASSUME NEW p \in Payment,
               marker'[p].set \/ (\E v \in Worker : Holds(worker'[v].cache, p))
        PROVE  admissions'[p] > 0 \/ p \in lost'
    <3>1. CASE p = q
      BY <2>2, <2>4, <3>1
    <3>2. CASE p # q
      BY <2>2, <2>3, <2>5, <2>6, <3>2 DEF UsedIsExplained
    <3> QED BY <3>1, <3>2
  <2> QED BY <2>6 DEF UsedIsExplained, Holds
<1>3. ASSUME NEW w \in Worker, Restart(w) PROVE UsedIsExplained'
  <2>1. /\ UNCHANGED <<marker, admissions, lost>>
        /\ \A v \in Worker : worker'[v].cache.seen \subseteq worker[v].cache.seen
    BY <1>3 DEF Restart, ledger, WithCapacity, TypeOK, WorkersOK
  <2> QED BY <2>1 DEF UsedIsExplained, Holds
<1>4. CASE \/ \E w \in Worker, p \in Payment :
                 Mint(w, p) \/ PresentClassic(w, p) \/ PresentAutoDetect(w, p)
           \/ \E p \in Payment : Settle(p) \/ KnownExpires(p)
           \/ \E t \in Timeout : Reload(t)
           \/ Tick \/ RedisFails \/ RedisRecovers \/ UNCHANGED vars
  BY <1>a, <1>4 DEF Mint, PresentClassic, PresentAutoDetect, Settle, KnownExpires, Reload,
     Tick, RedisFails, RedisRecovers, vars, outside, ledger
<1>5. ASSUME NEW w \in Worker,
             \/ ResolveCached(w) \/ ResolveAtNode(w) \/ ResolveFails(w)
             \/ PreCheck(w) \/ Verify(w) \/ ClaimUnavailable(w)
      PROVE  UsedIsExplained'
  BY <1>a, <1>5 DEF ResolveCached, ResolveAtNode, ResolveFails, PreCheck, Verify,
     ClaimUnavailable, outside, ledger
<1> QED BY <1>1, <1>2, <1>3, <1>4, <1>5 DEF Next, HandlerStep

\* Nobody is refused for a payment that was never admitted, unless its claim's
\* reply was lost: under any settings, with Redis or without.
THEOREM RefusedOnlyIfUsedHolds == Spec => []RefusedOnlyIfUsed
<1>1. Init => UsedIsExplained
  BY DEF Init, UsedIsExplained, Holds, WithCapacity
<1>2. UsedIsExplained => RefusedOnlyIfUsed
  BY DEF UsedIsExplained, RefusedOnlyIfUsed, Live
<1> QED BY <1>1, <1>2, UsedIsExplainedStep, TypeCorrect, PTL DEF Spec

----------------------------------------------------------------------------
(* Without Redis, where each worker decides for itself. *)

Roomy == WithCapacity(CacheCap).cap >= Cardinality(Payment)

\* The workers that would refuse a payment.
Holders(p) == {w \in Worker : Holds(worker[w].cache, p)}

\* Each admission has a worker that remembers it, or one that was replaced since.
AdmissionsAreHeld ==
    ~hasRedis /\ Roomy =>
        \A p \in Payment : admissions[p] <= Cardinality(Holders(p)) + restarts

PerLifeInv ==
    /\ \A w \in Worker : worker[w].cache.cap = WithCapacity(CacheCap).cap
    /\ AdmissionsAreHeld

\* However many workers hold a payment, they are workers.
LEMMA HoldersAreCounted ==
    \A p : /\ IsFiniteSet(Holders(p)) /\ Cardinality(Holders(p)) \in Nat
           /\ Cardinality(Holders(p)) <= Cardinality(Worker)
           /\ Cardinality(Worker) \in Nat
BY GateAssumption, FS_Subset, FS_CardinalityType DEF Holders

\* The claim of a worker that does not hold the payment makes it a holder.
LEMMA PerLifeClaim ==
    ASSUME TypeOK, CachesConsistent, PerLifeInv, NEW w \in Worker, ClaimInWorker(w)
    PROVE  PerLifeInv'
<1>1. PICK q \in Payment : q = request[w].payment
  BY DEF ClaimInWorker, At, TypeOK, RequestsOK
<1>2. /\ worker' = [worker EXCEPT ![w].cache = AfterClaim(worker[w].cache, q)]
      /\ IF Holds(worker[w].cache, q) THEN UNCHANGED admissions ELSE Admit(q)
      /\ UNCHANGED <<hasRedis, restarts>>
  BY <1>1 DEF ClaimInWorker, outside
<1>3. worker[w].cache \in CacheOf(Payment) /\ Consistent(worker[w].cache)
  BY DEF TypeOK, WorkersOK, CachesConsistent, CacheOf
<1>4. AfterClaim(worker[w].cache, q).cap = worker[w].cache.cap
  BY <1>3, ClaimKeeps
<1>5. /\ worker'[w].cache = AfterClaim(worker[w].cache, q)
      /\ \A v \in Worker : v # w => worker'[v] = worker[v]
  BY <1>2 DEF TypeOK, WorkersOK
<1>6. \A v \in Worker : worker'[v].cache.cap = WithCapacity(CacheCap).cap
  BY <1>4, <1>5 DEF PerLifeInv
<1>7. ASSUME ~hasRedis, Roomy, NEW p \in Payment
      PROVE  admissions'[p] <= Cardinality(Holders(p)') + restarts'
  <2>1. AfterClaim(worker[w].cache, q).seen = worker[w].cache.seen \cup {q}
    <3>1. Cardinality(Payment) <= worker[w].cache.cap
      BY <1>7, GateAssumption, FS_CardinalityType DEF PerLifeInv, Roomy, WithCapacity
    <3> QED BY <1>3, <3>1, ClaimWithRoom, GateAssumption
  <2>2. Holders(p)' = IF p = q THEN Holders(p) \cup {w} ELSE Holders(p)
    BY <1>5, <2>1 DEF Holders, Holds
  <2>3. admissions[p] \in Nat /\ restarts \in Nat /\ admissions[p] <= Cardinality(Holders(p)) + restarts
    BY <1>7, GateAssumption DEF PerLifeInv, AdmissionsAreHeld, TypeOK, LedgerOK, OutsideOK
  <2>4. CASE p # q
    <3>1. admissions'[p] = admissions[p]
      BY <1>2, <2>4 DEF Admit, TypeOK, LedgerOK
    <3> QED BY <1>2, <2>2, <2>3, <2>4, <3>1
  <2>5. CASE p = q /\ Holds(worker[w].cache, q)
    <3>1. Holders(p) \cup {w} = Holders(p)
      BY <2>5 DEF Holders
    <3> QED BY <1>2, <2>2, <2>3, <2>5, <3>1
  <2>6. CASE p = q /\ ~Holds(worker[w].cache, q)
    <3>1. w \notin Holders(p)
      BY <2>6 DEF Holders
    <3>2. Cardinality(Holders(p) \cup {w}) = Cardinality(Holders(p)) + 1
      BY <3>1, HoldersAreCounted, FS_AddElement
    <3>3. admissions'[p] = admissions[p] + 1
      BY <1>2, <2>6 DEF Admit, TypeOK, LedgerOK
    <3> QED BY <1>2, <2>2, <2>3, <2>6, <3>2, <3>3, HoldersAreCounted
  <2> QED BY <2>4, <2>5, <2>6
<1> QED BY <1>2, <1>6, <1>7 DEF PerLifeInv, AdmissionsAreHeld

\* A worker that is replaced forgets what it held, and is counted.
LEMMA PerLifeRestart ==
    ASSUME TypeOK, PerLifeInv, NEW w \in Worker, Restart(w)
    PROVE  PerLifeInv'
<1>1. /\ worker'[w].cache = WithCapacity(CacheCap)
      /\ \A v \in Worker : v # w => worker'[v] = worker[v]
      /\ restarts' = restarts + 1
      /\ UNCHANGED <<hasRedis, admissions>>
  BY DEF Restart, ledger, TypeOK, WorkersOK
<1>2. \A v \in Worker : worker'[v].cache.cap = WithCapacity(CacheCap).cap
  BY <1>1 DEF PerLifeInv
<1>3. ASSUME ~hasRedis, Roomy, NEW p \in Payment
      PROVE  admissions'[p] <= Cardinality(Holders(p)') + restarts'
  <2>1. Holders(p)' = Holders(p) \ {w}
    BY <1>1 DEF Holders, Holds, WithCapacity
  <2>2. Cardinality(Holders(p)') >= Cardinality(Holders(p)) - 1
    BY <2>1, HoldersAreCounted, FS_RemoveElement
  <2>3. admissions[p] \in Nat /\ restarts \in Nat /\ admissions[p] <= Cardinality(Holders(p)) + restarts
    BY <1>3, GateAssumption DEF PerLifeInv, AdmissionsAreHeld, TypeOK, LedgerOK, OutsideOK
  <2>4. Cardinality(Holders(p)') \in Nat /\ Cardinality(Holders(p)) \in Nat
    BY <2>1, HoldersAreCounted, FS_RemoveElement, FS_CardinalityType
  <2> QED BY <1>1, <2>2, <2>3, <2>4
<1> QED BY <1>1, <1>2, <1>3 DEF PerLifeInv, AdmissionsAreHeld

\* No other step touches a cache, or admits a payment where there is no Redis.
LEMMA PerLifeStep ==
    TypeOK /\ CachesConsistent /\ PerLifeInv /\ [Next]_vars => PerLifeInv'
<1> SUFFICES ASSUME TypeOK, CachesConsistent, PerLifeInv, [Next]_vars PROVE PerLifeInv'
  OBVIOUS
<1>a. ASSUME UNCHANGED <<hasRedis, worker, restarts, admissions>> PROVE PerLifeInv'
  BY <1>a DEF PerLifeInv, AdmissionsAreHeld, Holders
<1>1. ASSUME NEW w \in Worker, ClaimInRedis(w) PROVE PerLifeInv'
  BY <1>1 DEF ClaimInRedis, outside, PerLifeInv, AdmissionsAreHeld
<1>2. ASSUME NEW w \in Worker,
             \/ ResolveCached(w) \/ ResolveAtNode(w) \/ ResolveFails(w) \/ PreCheck(w)
             \/ Verify(w) \/ ClaimReplyLost(w) \/ ClaimUnavailable(w)
      PROVE  PerLifeInv'
  BY <1>a, <1>2 DEF ResolveCached, ResolveAtNode, ResolveFails, PreCheck, Verify,
     ClaimReplyLost, ClaimUnavailable, outside, ledger
<1>3. CASE \/ \E w \in Worker, p \in Payment :
                 Mint(w, p) \/ PresentClassic(w, p) \/ PresentAutoDetect(w, p)
           \/ \E p \in Payment : Settle(p) \/ KnownExpires(p)
           \/ \E t \in Timeout : Reload(t)
           \/ Tick \/ RedisFails \/ RedisRecovers \/ UNCHANGED vars
  BY <1>a, <1>3 DEF Mint, PresentClassic, PresentAutoDetect, Settle, KnownExpires, Reload,
     Tick, RedisFails, RedisRecovers, vars, outside, ledger
<1> QED BY <1>1, <1>2, <1>3, PerLifeClaim, PerLifeRestart DEF Next, HandlerStep

\* OncePerWorkerLife: where no Redis is configured, a payment is admitted no more often
\* than workers have lived, if their replay caches have room for every payment.
THEOREM OncePerWorkerLifeHolds == Spec => []OncePerWorkerLife
<1>1. Init => PerLifeInv
  <2> SUFFICES ASSUME Init PROVE PerLifeInv
    OBVIOUS
  <2>1. \A p \in Payment : admissions[p] = 0 /\ restarts = 0
    BY DEF Init
  <2>2. \A w \in Worker : worker[w].cache = WithCapacity(CacheCap)
    BY DEF Init
  <2> QED BY <2>1, <2>2, HoldersAreCounted DEF PerLifeInv, AdmissionsAreHeld
<1>2. TypeOK /\ PerLifeInv => OncePerWorkerLife
  <2> SUFFICES ASSUME TypeOK, PerLifeInv, ~hasRedis, Roomy, NEW p \in Payment
               PROVE  admissions[p] <= Cardinality(Worker) + restarts
    BY DEF OncePerWorkerLife, Roomy
  <2>1. admissions[p] \in Nat /\ restarts \in Nat
    BY GateAssumption DEF TypeOK, LedgerOK, OutsideOK
  <2> QED BY <2>1, HoldersAreCounted DEF PerLifeInv, AdmissionsAreHeld
<1> QED BY <1>1, <1>2, PerLifeStep, TypeInvariant, PTL DEF Spec

============================================================================
