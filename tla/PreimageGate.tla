---------------------------- MODULE PreimageGate ----------------------------
(***************************************************************************)
(* The single-use gate on Lightning preimages: nginx workers verify        *)
(* `L402 macaroon:preimage' (classic) or `L402 macaroon' (auto-detect)     *)
(* credentials and admit each payment once, through a marker in Redis that *)
(* SET NX creates, or, where REDIS_URL is unset, through each worker's own *)
(* replay cache.                                                           *)
(*                                                                         *)
(* A worker serves one request at a time (the handler blocks nginx's only  *)
(* thread), so interleaving is between workers.  A step of a worker is one *)
(* access to shared state; the clock counts seconds.                       *)
(*                                                                         *)
(* The locations are those without `l402_indefinite_access on', where a    *)
(* preimage is meant to buy more than one request: the handler skips       *)
(* pre-check and claim there, and no property of this module is about it.  *)
(***************************************************************************)
EXTENDS ReplayCacheOps, FiniteSets

CONSTANTS Worker,        \* worker slots of the nginx master
          Payment,       \* invoices; each has one macaroon and one preimage
          NoPayment,     \* what an idle worker works on
          Timeout,       \* values l402_macaroon_timeout may take (0: never expires)
          PreimageTtl,   \* L402_PREIMAGE_TTL_SECONDS
          Reloads,       \* changes of that setting: <<from, to>>
          CacheCap,      \* capacity of a worker's replay cache
          MaxRestarts,   \* bound on worker restarts
          MaxStall,      \* longest time from a macaroon check to its claim
          Horizon        \* bound on the clock

ASSUME GateAssumption ==
    /\ Timeout \subseteq Nat /\ Timeout # {}
    /\ PreimageTtl \in Nat /\ MaxStall \in Nat /\ Horizon \in Nat
    /\ CacheCap \in Nat /\ MaxRestarts \in Nat
    /\ Reloads \subseteq Timeout \X Timeout
    /\ NoPayment \notin Payment
    /\ IsFiniteSet(Worker) /\ IsFiniteSet(Payment)

VARIABLES
    hasRedis,    \* REDIS_URL is set, for as long as nginx runs
    now,         \* the clock
    timeout,     \* l402_macaroon_timeout in the configuration on disk
    worker,      \* worker[w]: the timeout it was forked with, its replay cache
    request,     \* request[w]: what the worker is doing
    macaroon,    \* macaroon[p]: whether, when and with what lifetime it was minted
    settled,     \* payments the node has settled: their preimages are known
    redisUp,     \* whether Redis answers
    marker,      \* l402:preimage:* keys of Redis
    known,       \* l402:settled:* keys of Redis (auto-detect's cache)
    restarts,    \* worker processes replaced so far
    admissions,  \* how often each payment was admitted
    lost         \* payments whose marker was set by a request not admitted

vars == <<hasRedis, now, timeout, worker, request, macaroon, settled, redisUp, marker,
          known, restarts, admissions, lost>>

\* What the access handler does not touch, and what it keeps outside the worker.
outside == <<hasRedis, now, timeout, macaroon, settled, redisUp, restarts>>
ledger  == <<marker, known, admissions, lost>>

Idle  == [step |-> "idle", payment |-> NoPayment, since |-> 0]
Steps == {"idle", "resolve", "check", "verify", "claim"}
Busy(s, p) == [step |-> s, payment |-> p, since |-> 0]

WorkersOK ==
    worker \in [Worker -> [timeout : Timeout,
                           cache : [seen : SUBSET Payment, order : Seq(Payment),
                                    cap : Nat \ {0}]]]

RequestsOK ==
    /\ request \in [Worker -> [step : Steps, payment : Payment \cup {NoPayment},
                               since : 0..Horizon]]
    /\ \A w \in Worker : request[w].step # "idle" => request[w].payment \in Payment

OutsideOK ==
    /\ now \in 0..Horizon
    /\ timeout \in Timeout
    /\ macaroon \in [Payment -> [minted : BOOLEAN, at : 0..Horizon,
                                 life : Timeout \cup {0}]]
    /\ settled \in SUBSET Payment
    /\ hasRedis \in BOOLEAN /\ redisUp \in BOOLEAN
    /\ restarts \in 0..MaxRestarts

LedgerOK ==
    /\ marker \in [Payment -> [set : BOOLEAN, at : 0..Horizon, ttl : Nat]]
    /\ known \in SUBSET Payment
    /\ admissions \in [Payment -> Nat]
    /\ lost \in SUBSET Payment

TypeOK == WorkersOK /\ RequestsOK /\ OutsideOK /\ LedgerOK

Init ==
    /\ now = 0
    /\ timeout \in Timeout
    /\ worker = [w \in Worker |-> [timeout |-> timeout, cache |-> WithCapacity(CacheCap)]]
    /\ request = [w \in Worker |-> Idle]
    /\ macaroon = [p \in Payment |-> [minted |-> FALSE, at |-> 0, life |-> 0]]
    /\ settled = {}
    /\ hasRedis \in BOOLEAN /\ redisUp = hasRedis
    /\ marker = [p \in Payment |-> [set |-> FALSE, at |-> 0, ttl |-> 0]]
    /\ known = {}
    /\ restarts = 0
    /\ admissions = [p \in Payment |-> 0]
    /\ lost = {}

----------------------------------------------------------------------------
\* Slip: a lifetime of 0 read as already run out.
ExpiredWithoutLifetime(p) == now > macaroon[p].at + macaroon[p].life

\* A macaroon with no lifetime carries no ExpiresAt caveat.  The check itself
\* is l402_middleware's; the last second counts as valid.
Expired(p) ==
    /\ macaroon[p].life > 0
    /\ now > macaroon[p].at + macaroon[p].life

\* A marker set without EX lives on; one with a TTL is gone when it has run.
Live(p) ==
    /\ marker[p].set
    /\ marker[p].ttl = 0 \/ now < marker[p].at + marker[p].ttl

Larger(a, b) == IF a > b THEN a ELSE b

\* Slip: every marker gets the configured TTL.
PlainTtl(t) == PreimageTtl
\* The EX argument of SET NX; 0 stands for no EX.
MarkerTtl(t) == IF t > 0 THEN Larger(PreimageTtl, t) ELSE 0

\* is_preimage_used: no pool means this worker's cache; a Redis that does not
\* answer counts as unused.
IsPreimageUsed(w, p) ==
    IF hasRedis THEN redisUp /\ Live(p) ELSE Holds(worker[w].cache, p)

At(w, s) == request[w].step = s
Goto(w, s) == request' = [request EXCEPT ![w].step = s]
Answer(w) == request' = [request EXCEPT ![w] = Idle]

SetMarker(w, p) ==
    marker' = [marker EXCEPT ![p] = [set |-> TRUE, at |-> now,
                                     ttl |-> MarkerTtl(worker[w].timeout)]]

Admit(p) == admissions' = [admissions EXCEPT ![p] = @ + 1]

----------------------------------------------------------------------------
(* Clients and the node *)

\* A 402 challenge: invoice and macaroon, the lifetime that of the worker's
\* configuration.
Mint(w, p) ==
    /\ At(w, "idle")
    /\ ~macaroon[p].minted
    /\ macaroon' = [macaroon EXCEPT ![p] =
                       [minted |-> TRUE, at |-> now, life |-> worker[w].timeout]]
    /\ UNCHANGED <<ledger, hasRedis, now, timeout, worker, request, settled, redisUp, restarts>>

Settle(p) ==
    /\ macaroon[p].minted
    /\ p \notin settled
    /\ settled' = settled \cup {p}
    /\ UNCHANGED <<ledger, hasRedis, now, timeout, worker, request, macaroon, redisUp, restarts>>

\* A request with a preimage in its header: the client has paid.
PresentClassic(w, p) ==
    /\ At(w, "idle")
    /\ p \in settled
    /\ request' = [request EXCEPT ![w] = Busy("check", p)]
    /\ UNCHANGED <<outside, ledger, worker>>

\* A request with the macaroon alone, paid or not.
PresentAutoDetect(w, p) ==
    /\ At(w, "idle")
    /\ macaroon[p].minted
    /\ request' = [request EXCEPT ![w] = Busy("resolve", p)]
    /\ UNCHANGED <<outside, ledger, worker>>

----------------------------------------------------------------------------
(* The access handler *)

\* The preimage comes from the settled cache of Redis.
ResolveCached(w) ==
    /\ At(w, "resolve")
    /\ redisUp /\ request[w].payment \in known
    /\ Goto(w, "check")
    /\ UNCHANGED <<outside, ledger, worker>>

\* The node has settled the invoice; storing its preimage is best effort.
ResolveAtNode(w) ==
    /\ At(w, "resolve")
    /\ request[w].payment \in settled
    /\ Goto(w, "check")
    /\ known' = IF hasRedis /\ redisUp THEN known \cup {request[w].payment} ELSE known
    /\ UNCHANGED <<outside, worker, marker, admissions, lost>>

\* 402 for an invoice not settled, 500 for a lookup that failed or ran out of
\* its five seconds: no state is left behind.
ResolveFails(w) ==
    /\ At(w, "resolve")
    /\ Answer(w)
    /\ UNCHANGED <<outside, ledger, worker>>

\* Slip: the pre-check claims, before the macaroon has been verified.
PreCheckClaims(w) ==
    /\ At(w, "check")
    /\ hasRedis /\ redisUp
    /\ IF IsPreimageUsed(w, request[w].payment) THEN Answer(w) ELSE Goto(w, "verify")
    /\ SetMarker(w, request[w].payment)
    /\ UNCHANGED <<outside, worker, known, admissions, lost>>

\* The fast-fail check, not the gate: 401 if the preimage is known used.
PreCheck(w) ==
    /\ At(w, "check")
    /\ IF IsPreimageUsed(w, request[w].payment) THEN Answer(w) ELSE Goto(w, "verify")
    /\ UNCHANGED <<outside, ledger, worker>>

\* verify_l402_binding: 401 for an expired macaroon.
Verify(w) ==
    /\ At(w, "verify")
    /\ IF Expired(request[w].payment)
       THEN Answer(w)
       ELSE request' = [request EXCEPT ![w].step = "claim", ![w].since = now]
    /\ UNCHANGED <<outside, ledger, worker>>

\* Slip: the pre-check is trusted and the marker written without NX.
ClaimWithoutNx(w) ==
    LET p == request[w].payment IN
    /\ At(w, "claim")
    /\ hasRedis /\ redisUp
    /\ Answer(w)
    /\ SetMarker(w, p) /\ Admit(p)
    /\ UNCHANGED <<outside, worker, known, lost>>

\* SET NX answered: the first claim is admitted, a later one refused (401).
ClaimInRedis(w) ==
    LET p == request[w].payment IN
    /\ At(w, "claim")
    /\ hasRedis /\ redisUp
    /\ Answer(w)
    /\ IF Live(p)
       THEN UNCHANGED <<marker, admissions>>
       ELSE SetMarker(w, p) /\ Admit(p)
    /\ UNCHANGED <<outside, worker, known, lost>>

\* SET NX ran but its reply, or the worker waiting for it, was lost: 503 or
\* nothing, and the payment is spent.
ClaimReplyLost(w) ==
    LET p == request[w].payment IN
    /\ At(w, "claim")
    /\ hasRedis /\ redisUp
    /\ ~Live(p)
    /\ Answer(w)
    /\ SetMarker(w, p)
    /\ lost' = lost \cup {p}
    /\ UNCHANGED <<outside, worker, known, admissions>>

\* Slip: a Redis that is down is treated like a Redis never configured.
ClaimFailsOpen(w) ==
    LET p == request[w].payment IN
    /\ At(w, "claim")
    /\ hasRedis /\ ~redisUp
    /\ Answer(w)
    /\ Admit(p)
    /\ UNCHANGED <<outside, worker, marker, known, lost>>

\* A configured Redis that cannot be reached: 503.
ClaimUnavailable(w) ==
    /\ At(w, "claim")
    /\ hasRedis /\ ~redisUp
    /\ Answer(w)
    /\ UNCHANGED <<outside, ledger, worker>>

\* Slip: without Redis the claim is not recorded.
ClaimUnrecorded(w) ==
    /\ At(w, "claim")
    /\ ~hasRedis
    /\ Answer(w)
    /\ Admit(request[w].payment)
    /\ UNCHANGED <<outside, worker, marker, known, lost>>

\* No Redis: this worker's replay cache decides.
ClaimInWorker(w) ==
    LET p == request[w].payment IN
    /\ At(w, "claim")
    /\ ~hasRedis
    /\ Answer(w)
    /\ IF Holds(worker[w].cache, p) THEN UNCHANGED admissions ELSE Admit(p)
    /\ worker' = [worker EXCEPT ![w].cache = AfterClaim(@, p)]
    /\ UNCHANGED <<outside, marker, known, lost>>

----------------------------------------------------------------------------
(* The environment *)

\* Time passes, but no request spends more than MaxStall between its
\* macaroon check and its claim.
Tick ==
    /\ now < Horizon
    /\ \A w \in Worker : At(w, "claim") => now < request[w].since + MaxStall
    /\ now' = now + 1
    /\ UNCHANGED <<ledger, hasRedis, timeout, worker, request, macaroon, settled, redisUp, restarts>>

RedisFails ==
    /\ redisUp
    /\ redisUp' = FALSE
    /\ UNCHANGED <<ledger, hasRedis, now, timeout, worker, request, macaroon, settled, restarts>>

RedisRecovers ==
    /\ hasRedis /\ ~redisUp
    /\ redisUp' = TRUE
    /\ UNCHANGED <<ledger, hasRedis, now, timeout, worker, request, macaroon, settled, restarts>>

\* A settled-cache key reaches its TTL.
KnownExpires(p) ==
    /\ p \in known
    /\ known' = known \ {p}
    /\ UNCHANGED <<outside, worker, request, marker, admissions, lost>>

\* A reload re-reads the location's timeout; running workers keep theirs.
Reload(t) ==
    /\ <<timeout, t>> \in Reloads
    /\ timeout' = t
    /\ UNCHANGED <<ledger, hasRedis, now, worker, request, macaroon, settled, redisUp, restarts>>

\* The master replaces a worker that crashed or that a reload retired: the
\* request in hand is dropped and the replay cache starts empty.
Restart(w) ==
    /\ restarts < MaxRestarts
    /\ restarts' = restarts + 1
    /\ worker' = [worker EXCEPT ![w] =
                     [timeout |-> timeout, cache |-> WithCapacity(CacheCap)]]
    /\ Answer(w)
    /\ UNCHANGED <<hasRedis, now, timeout, macaroon, settled, redisUp, ledger>>

HandlerStep(w) ==
    \/ ResolveCached(w) \/ ResolveAtNode(w) \/ ResolveFails(w)
    \/ PreCheck(w) \/ Verify(w)
    \/ ClaimInRedis(w) \/ ClaimReplyLost(w) \/ ClaimUnavailable(w) \/ ClaimInWorker(w)

Next ==
    \/ \E w \in Worker, p \in Payment :
          Mint(w, p) \/ PresentClassic(w, p) \/ PresentAutoDetect(w, p)
    \/ \E w \in Worker : HandlerStep(w) \/ Restart(w)
    \/ \E p \in Payment : Settle(p) \/ KnownExpires(p)
    \/ \E t \in Timeout : Reload(t)
    \/ Tick \/ RedisFails \/ RedisRecovers

Spec == Init /\ [][Next]_vars

\* nginx runs every worker's event loop, and a client that has paid retries.
FairSpec ==
    /\ Spec
    /\ \A w \in Worker : WF_vars(HandlerStep(w))
    /\ \A p \in Payment : SF_vars(\E w \in Worker : PresentClassic(w, p))

----------------------------------------------------------------------------
(* Properties *)

\* The settings under which every marker outlives its macaroon: the preimage
\* TTL exceeds every finite lifetime by more than a request may stall, and no
\* reload turns a finite lifetime into none or none into a finite one.
Covered ==
    /\ \A t \in Timeout : t > 0 => t + MaxStall < PreimageTtl
    /\ \A r \in Reloads : r[1] = 0 <=> r[2] = 0

\* With Redis no payment is admitted twice, by any workers, across outages of
\* Redis, crashes and reloads.
AtMostOnce == hasRedis => \A p \in Payment : admissions[p] <= 1

\* The comment on store_preimage_as_used: "The marker MUST outlive the
\* macaroon".  An admitted payment has a live marker until its macaroon has
\* expired.
MarkerOutlivesMacaroon ==
    hasRedis => \A p \in Payment : admissions[p] > 0 => Expired(p) \/ Live(p)

\* A payment is refused as a replay only if it was admitted, or its claim's
\* reply was lost: neither an unpaid lookup, nor an expired macaroon, nor an
\* outage marks it used.
RefusedOnlyIfUsed ==
    \A p \in Payment :
        Live(p) \/ (\E w \in Worker : Holds(worker[w].cache, p))
            => admissions[p] > 0 \/ p \in lost

\* Without Redis a payment is admitted at most once in the life of each
\* worker process, as long as the replay cache has room for every payment.
OncePerWorkerLife ==
    ~hasRedis /\ WithCapacity(CacheCap).cap >= Cardinality(Payment) =>
        \A p \in Payment : admissions[p] <= Cardinality(Worker) + restarts

\* Once Redis stays up, or without it, a paid credential whose macaroon never
\* expires is admitted, or its claim's reply was lost, if the client keeps
\* trying.
PaidEventuallyAdmitted ==
    <>[](hasRedis => redisUp) =>
        \A p \in Payment :
            p \in settled /\ macaroon[p].life = 0 ~> admissions[p] > 0 \/ p \in lost

\* The gate implements single use: its admissions, where Redis guards them.
Guarded  == IF hasRedis THEN admissions ELSE [p \in Payment |-> 0]
Abstract == INSTANCE AdmitOnce WITH Credential <- Payment, admissions <- Guarded
ImplementsAdmitOnce == Abstract!Spec

============================================================================
