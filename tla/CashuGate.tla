----------------------------- MODULE CashuGate -----------------------------
(***************************************************************************)
(* The single-use gate on Cashu tokens: verify_cashu_token (standard mode, *)
(* the mint swaps the proofs) and verify_cashu_token_p2pk (P2PK mode, the  *)
(* proofs are stored as they are), run by nginx workers that share Redis,  *)
(* the wallet database and the mint.                                       *)
(*                                                                         *)
(* A token is an encoding of a set of proofs, and several tokens may       *)
(* encode the same set.  Redis and the worker caches hold two kinds of     *)
(* names: tokens as they were sent, and proof keys.  A proof key is a hash *)
(* over the sorted proofs, so here it is the set itself.  What a payer can *)
(* choose about a proof is its lock (NUT-11) and its DLEQ (NUT-12).        *)
(***************************************************************************)
EXTENDS ReplayCacheOps, FiniteSets

CONSTANTS Worker,       \* worker slots of the nginx master
          Token,        \* tokens that decode, pay enough and come from an accepted mint
          NoToken,      \* what an idle worker works on
          Proof,        \* the proofs they encode
          Deployments,  \* the settings nginx may run with, and the tokens it may see
          CacheCap,     \* capacity of a worker's replay cache
          MaxRestarts,  \* bound on worker restarts
          MaxLapses     \* bound on the lapses of a proof set's marker

Keys == (SUBSET Proof) \ {{}}

\* Who a proof is locked to: nobody; this proxy for good; this proxy, and from
\* some time on others; a hash and this proxy's key; another key.  A DLEQ that
\* verifies shows the mint's signature, a proof without one may lack that too.
Locks      == {"none", "ours", "timed", "htlc", "other"}
ProofKinds == {p \in [lock : Locks, dleq : {"valid", "bad", "absent"}, signed : BOOLEAN] :
                  p.dleq = "valid" => p.signed}

\* A token begins with `cashu', a proof key is a digest in hexadecimal.
ASSUME CashuAssumption ==
    /\ IsFiniteSet(Worker)
    /\ NoToken \notin Token /\ \A t \in Token, k \in Keys : t # k
    /\ \A d \in Deployments :
          /\ d.p2pk \in BOOLEAN /\ d.redis \in BOOLEAN /\ d.lasting \in BOOLEAN
          /\ d.dleq \in BOOLEAN
          /\ DOMAIN d.contents \subseteq Token /\ Range(d.contents) \subseteq Keys
          /\ d.proof \in [Proof -> ProofKinds]
    /\ CacheCap \in Nat /\ MaxRestarts \in Nat /\ MaxLapses \in Nat

VARIABLES
    deployment,  \* one of Deployments, for as long as nginx runs
    cache,       \* cache[w]: PROCESSED_TOKENS of the worker
    request,     \* request[w]: what the worker is doing
    used,        \* l402:cashu_token:* keys of Redis
    redisUp,     \* whether Redis answers
    mint,        \* mint[x]: the state of proof x at the mint
    wallet,      \* wallet[x]: its state in the wallet database
    restarts,    \* worker processes replaced so far
    admissions,  \* how often each proof set was admitted
    refused,     \* proof sets swapped by a request then refused as a replay
    lost,        \* proof sets taken or claimed by a request that got no admission
    lapses       \* how often the marker of each proof set has lapsed

vars == <<deployment, cache, request, used, redisUp, mint, wallet, restarts, admissions,
          refused, lost, lapses>>
P2pk     == deployment.p2pk      \* CASHU_P2PK_MODE
HasRedis == deployment.redis     \* REDIS_URL is set
Lasting  == deployment.lasting   \* L402_CASHU_TOKEN_TTL_SECONDS outlasts every redemption
DleqRule == deployment.dleq      \* CASHU_REQUIRE_DLEQ
Contents == deployment.contents  \* Contents[t]: the proofs t encodes
Kind     == deployment.proof     \* Kind[x]: what the payer made of proof x

funds == <<mint, wallet>>
tally == <<admissions, refused, lost, lapses>>

Names == Token \cup Keys
Idle  == [step |-> "idle", token |-> NoToken]
Steps == {"idle", "token", "receive", "key", "state", "claim", "store"}

Init ==
    /\ deployment \in Deployments
    /\ cache = [w \in Worker |-> WithCapacity(CacheCap)]
    /\ request = [w \in Worker |-> Idle]
    /\ used = {}
    /\ redisUp = deployment.redis
    /\ mint = [x \in Proof |-> "unspent"]
    /\ wallet = [x \in Proof |-> "absent"]
    /\ restarts = 0
    /\ admissions = [k \in Keys |-> 0]
    /\ refused = {}
    /\ lost = {}
    /\ lapses = [k \in Keys |-> 0]

----------------------------------------------------------------------------
At(w, s)   == request[w].step = s
Goto(w, s) == request' = [request EXCEPT ![w].step = s]
Answer(w)  == request' = [request EXCEPT ![w] = Idle]
Key(w)     == Contents[request[w].token]

Admit(w)   == admissions' = [admissions EXCEPT ![Key(w)] = @ + 1]
Lose(k)    == lost' = lost \cup {k}

\* is_cashu_token_used: a Redis that is not configured or does not answer
\* counts as unused.
IsCashuTokenUsed(n) == HasRedis /\ redisUp /\ n \in used

\* cache_processed_token for the token as it was sent.
CacheToken(w) == cache' = [cache EXCEPT ![w] = AfterClaim(@, request[w].token)]

\* NUT-07 also reports a proof unspent that the mint never signed.
UnspentAtMint(k) == \A x \in k : mint[x] = "unspent"

\* The mint takes a proof it has signed and not yet spent, from who holds its
\* lock: a swap or a melt by this proxy, and a swap by anyone else.  The
\* standard mode's swap signs nothing.
Takes(x, locks) == Kind[x].signed /\ Kind[x].lock \in locks /\ mint[x] = "unspent"
Unlocked        == {"none", "timed"}
OursToSpend     == {"none", "timed", "ours"}
TheirsToSpend   == {"none", "timed", "other"}

Moved(f, k, s) == [x \in Proof |-> IF x \in k THEN s ELSE f[x]]

----------------------------------------------------------------------------
(* Both modes *)

Present(w, t) ==
    /\ At(w, "idle") /\ t \in DOMAIN Contents
    /\ request' = [request EXCEPT ![w] = [step |-> "token", token |-> t]]
    /\ UNCHANGED <<deployment, cache, used, redisUp, funds, restarts, tally>>

\* The replay checks on the token as it was sent: this worker's cache, then
\* Redis.  401 if either knows it.
CheckToken(w) ==
    /\ At(w, "token")
    /\ IF Holds(cache[w], request[w].token) \/ IsCashuTokenUsed(request[w].token)
       THEN Answer(w)
       ELSE Goto(w, IF P2pk THEN "key" ELSE "receive")
    /\ UNCHANGED <<deployment, cache, used, redisUp, funds, restarts, tally>>

\* Anything that goes wrong before the mint or Redis is changed: keysets or
\* proof states that cannot be fetched, a swap the mint refuses.
GiveUp(w) ==
    /\ \E s \in {"receive", "key", "state"} : At(w, s)
    /\ Answer(w)
    /\ UNCHANGED <<deployment, cache, used, redisUp, funds, restarts, tally>>

----------------------------------------------------------------------------
(* Standard mode *)

\* Slip: the token is claimed before the swap that may yet fail.
ReceiveAfterClaim(w) ==
    /\ At(w, "receive")
    /\ HasRedis /\ redisUp
    /\ used' = used \cup {request[w].token}
    /\ mint' = IF \A x \in Key(w) : Takes(x, Unlocked)
               THEN Moved(mint, Key(w), "spent") ELSE mint
    /\ Goto(w, "claim")
    /\ UNCHANGED <<deployment, cache, redisUp, wallet, restarts, tally>>

\* The mint swaps the proofs, all or none.
Receive(w) ==
    /\ At(w, "receive")
    /\ \A x \in Key(w) : Takes(x, Unlocked)
    /\ mint' = Moved(mint, Key(w), "spent")
    /\ Goto(w, "claim")
    /\ UNCHANGED <<deployment, cache, used, redisUp, wallet, restarts, tally>>

\* The swap happened and its answer was lost: 500, never 401.
ReceiveReplyLost(w) ==
    /\ At(w, "receive")
    /\ \A x \in Key(w) : Takes(x, Unlocked)
    /\ mint' = Moved(mint, Key(w), "spent")
    /\ Lose(Key(w))
    /\ Answer(w)
    /\ UNCHANGED <<deployment, cache, used, redisUp, wallet, restarts, admissions, refused, lapses>>

\* SET NX after the swap: the first claim is admitted, a lost race is 401.
ClaimReceived(w) ==
    /\ At(w, "claim") /\ ~P2pk
    /\ HasRedis /\ redisUp
    /\ Answer(w)
    /\ used' = used \cup {request[w].token}
    /\ IF request[w].token \in used
       THEN refused' = refused \cup {Key(w)} /\ UNCHANGED <<cache, admissions>>
       ELSE Admit(w) /\ CacheToken(w) /\ UNCHANGED refused
    /\ UNCHANGED <<deployment, redisUp, funds, restarts, lost, lapses>>

\* No Redis, a Redis that is down, or a reply lost after SET NX ran: the token
\* is admitted, for the mint has taken its proofs.
ClaimFailsOpen(w) ==
    /\ At(w, "claim") /\ ~P2pk
    /\ Answer(w)
    /\ Admit(w) /\ CacheToken(w)
    /\ \/ UNCHANGED used
       \/ HasRedis /\ redisUp /\ used' = used \cup {request[w].token}
    /\ UNCHANGED <<deployment, redisUp, funds, restarts, refused, lost, lapses>>

----------------------------------------------------------------------------
(* P2PK mode *)

\* The replay check on the proof set.
CheckKey(w) ==
    /\ At(w, "key")
    /\ IF IsCashuTokenUsed(Key(w)) THEN Answer(w) ELSE Goto(w, "state")
    /\ UNCHANGED <<deployment, cache, used, redisUp, funds, restarts, tally>>

\* cdk's verify_token_p2pk looks at the key a proof is locked to, and not at
\* the locktime of a proof without refund keys.
VerifyTokenP2pk(x) == Kind[x].lock \in {"ours", "timed", "htlc"}

\* Slip: the locktime is not looked at.
LockIsP2pk(x) == Kind[x].lock \in {"ours", "timed", "other"}

\* verify_permanent_p2pk_lock: P2PK, whatever the key, without a locktime.
VerifyPermanentLock(x) == Kind[x].lock \in {"ours", "other"}

\* verify_proof_dleq_offline: a DLEQ must verify, one that is absent is let
\* through if CASHU_REQUIRE_DLEQ is false.
VerifyDleq(x) ==
    \/ Kind[x].dleq = "valid"
    \/ Kind[x].dleq = "absent" /\ ~DleqRule

Verified(k) == \A x \in k : VerifyTokenP2pk(x) /\ VerifyPermanentLock(x) /\ VerifyDleq(x)

\* Slip: the mint is not asked.
CheckStateSkipped(w) ==
    /\ At(w, "state")
    /\ IF Verified(Key(w)) THEN Goto(w, "claim") ELSE Answer(w)
    /\ UNCHANGED <<deployment, cache, used, redisUp, funds, restarts, tally>>

\* Every proof's lock and DLEQ, then NUT-07: 400 or 401 unless all hold and the
\* mint reports every proof unspent.
CheckState(w) ==
    /\ At(w, "state")
    /\ IF Verified(Key(w)) /\ UnspentAtMint(Key(w)) THEN Goto(w, "claim") ELSE Answer(w)
    /\ UNCHANGED <<deployment, cache, used, redisUp, funds, restarts, tally>>

\* Slip: P2PK claims by the token as it was sent.
ClaimTokenAsSent(w) ==
    /\ At(w, "claim") /\ P2pk
    /\ HasRedis /\ redisUp
    /\ IF request[w].token \in used THEN Answer(w) ELSE Goto(w, "store")
    /\ used' = used \cup {request[w].token}
    /\ UNCHANGED <<deployment, cache, redisUp, funds, restarts, tally>>

\* SET NX on the proof key: the winner goes on to store, a loser gets 401.
ClaimProofs(w) ==
    /\ At(w, "claim") /\ P2pk
    /\ HasRedis /\ redisUp
    /\ IF Key(w) \in used THEN Answer(w) ELSE Goto(w, "store")
    /\ used' = used \cup {Key(w)}
    /\ UNCHANGED <<deployment, cache, redisUp, funds, restarts, tally>>

\* SET NX ran and its reply was lost: 500, and the proof key stays claimed.
ClaimReplyLost(w) ==
    /\ At(w, "claim") /\ P2pk
    /\ HasRedis /\ redisUp
    /\ Key(w) \notin used
    /\ used' = used \cup {Key(w)}
    /\ Lose(Key(w))
    /\ Answer(w)
    /\ UNCHANGED <<deployment, cache, redisUp, funds, restarts, admissions, refused, lapses>>

\* A configured Redis that does not answer: 500.
ClaimUnavailable(w) ==
    /\ At(w, "claim") /\ P2pk
    /\ HasRedis /\ ~redisUp
    /\ Answer(w)
    /\ UNCHANGED <<deployment, cache, used, redisUp, funds, restarts, tally>>

\* No Redis: this worker's cache decides on the proof key.
ClaimInWorker(w) ==
    /\ At(w, "claim") /\ P2pk
    /\ ~HasRedis
    /\ IF Holds(cache[w], Key(w)) THEN Answer(w) ELSE Goto(w, "store")
    /\ cache' = [cache EXCEPT ![w] = AfterClaim(@, Key(w))]
    /\ UNCHANGED <<deployment, used, redisUp, funds, restarts, tally>>

\* The proofs enter the wallet as unspent, over whatever it held of them; the
\* worker remembers proof key and token, and the request is admitted.
Store(w) ==
    /\ At(w, "store")
    /\ wallet' = Moved(wallet, Key(w), "unspent")
    /\ cache' = [cache EXCEPT ![w] = AfterClaim(AfterClaim(@, Key(w)), request[w].token)]
    /\ Admit(w)
    /\ Answer(w)
    /\ UNCHANGED <<deployment, used, redisUp, mint, restarts, refused, lost, lapses>>

\* Slip: a write that failed keeps its claim.
StoreFailsKeepingClaim(w) ==
    /\ At(w, "store")
    /\ Answer(w)
    /\ UNCHANGED <<deployment, cache, used, redisUp, funds, restarts, tally>>

\* The write failed: the claim is released where it was taken.  The DEL in
\* Redis is best effort, and the answer is 500 either way.
StoreFails(w) ==
    /\ At(w, "store")
    /\ Answer(w)
    /\ IF HasRedis
       THEN /\ \/ redisUp /\ used' = used \ {Key(w)} /\ UNCHANGED lost
               \/ UNCHANGED used /\ Lose(Key(w))
            /\ UNCHANGED cache
       ELSE /\ cache' = [cache EXCEPT ![w] = AfterRelease(@, Key(w))]
            /\ UNCHANGED <<used, lost>>
    /\ UNCHANGED <<deployment, redisUp, funds, restarts, admissions, refused, lapses>>

----------------------------------------------------------------------------
(* The environment *)

\* Who holds a proof's lock may spend it elsewhere: its payer, or anyone once
\* its locktime has passed.
SpendElsewhere(x) ==
    /\ Takes(x, TheirsToSpend)
    /\ mint' = [mint EXCEPT ![x] = "spent"]
    /\ UNCHANGED <<deployment, cache, request, used, redisUp, wallet, restarts, tally>>

\* Redemption, a proof at a time: reserve it, send it to the mint, which
\* settles or refuses, and record the outcome.
MeltReserve(x) ==
    /\ wallet[x] = "unspent"
    /\ wallet' = [wallet EXCEPT ![x] = "pending"]
    /\ UNCHANGED <<deployment, cache, request, used, redisUp, mint, restarts, tally>>

MeltAtMint(x) ==
    /\ wallet[x] = "pending"
    /\ \/ Takes(x, OursToSpend) /\ mint' = [mint EXCEPT ![x] = "pending"]
       \/ mint[x] = "pending" /\ \E s \in {"unspent", "spent"} :
                                    mint' = [mint EXCEPT ![x] = s]
    /\ UNCHANGED <<deployment, cache, request, used, redisUp, wallet, restarts, tally>>

MeltRecord(x) ==
    /\ wallet[x] = "pending"
    /\ mint[x] # "pending"
    /\ wallet' = [wallet EXCEPT ![x] = mint[x]]
    /\ UNCHANGED <<deployment, cache, request, used, redisUp, mint, restarts, tally>>

RedisFails ==
    /\ redisUp
    /\ redisUp' = FALSE
    /\ UNCHANGED <<deployment, cache, request, used, funds, restarts, tally>>

RedisRecovers ==
    /\ HasRedis /\ ~redisUp
    /\ redisUp' = TRUE
    /\ UNCHANGED <<deployment, cache, request, used, funds, restarts, tally>>

\* The marker of a proof set is still needed: the set can be stored, or is in
\* the wallet and not yet redeemed.
Needed(k) ==
    \/ \E x \in k : wallet[x] \notin {"absent", "spent"}
    \/ \E w \in Worker : (At(w, "claim") \/ At(w, "store")) /\ Key(w) = k

\* A marker reaches L402_CASHU_TOKEN_TTL_SECONDS.  The mint remembers the
\* proofs of a standard-mode token for good.  The marker of a P2PK proof set
\* lapses if it is still needed, with a TTL too short for that.
Expire(n) ==
    /\ n \in used
    /\ used' = used \ {n}
    /\ IF P2pk /\ n \notin Token /\ Needed(n)
       THEN /\ ~Lasting /\ lapses[n] < MaxLapses
            /\ lapses' = [lapses EXCEPT ![n] = @ + 1]
       ELSE UNCHANGED lapses
    /\ UNCHANGED <<deployment, cache, request, redisUp, funds, restarts, admissions, refused, lost>>

\* The master replaces a worker that crashed or that a reload retired: its
\* cache starts empty, the request in hand is dropped, with what it took.
Restart(w) ==
    /\ restarts < MaxRestarts
    /\ restarts' = restarts + 1
    /\ cache' = [cache EXCEPT ![w] = WithCapacity(CacheCap)]
    /\ IF At(w, "store") \/ (At(w, "claim") /\ ~P2pk)
       THEN Lose(Key(w))
       ELSE UNCHANGED lost
    /\ Answer(w)
    /\ UNCHANGED <<deployment, used, redisUp, funds, admissions, refused, lapses>>

StandardStep(w) ==
    Receive(w) \/ ReceiveReplyLost(w) \/ ClaimReceived(w) \/ ClaimFailsOpen(w)

P2pkStep(w) ==
    \/ CheckKey(w) \/ CheckState(w)
    \/ ClaimProofs(w) \/ ClaimReplyLost(w) \/ ClaimUnavailable(w) \/ ClaimInWorker(w)
    \/ Store(w) \/ StoreFails(w)

HandlerStep(w) == CheckToken(w) \/ GiveUp(w) \/ StandardStep(w) \/ P2pkStep(w)

Next ==
    \/ \E w \in Worker, t \in Token : Present(w, t)
    \/ \E w \in Worker : HandlerStep(w) \/ Restart(w)
    \/ \E x \in Proof : SpendElsewhere(x) \/ MeltReserve(x) \/ MeltAtMint(x) \/ MeltRecord(x)
    \/ \E n \in Names : Expire(n)
    \/ RedisFails \/ RedisRecovers

Spec == Init /\ [][Next]_vars

\* nginx runs every worker's event loop, a payer retries, and neither the mint
\* nor the database fails every time it is asked.
FairSpec ==
    /\ Spec
    /\ \A w \in Worker : WF_vars(HandlerStep(w)) /\ SF_vars(CheckKey(w))
                          /\ SF_vars(CheckState(w)) /\ SF_vars(Store(w))
    /\ \A t \in Token : SF_vars(\E w \in Worker : Present(w, t))

----------------------------------------------------------------------------
(* Properties *)

\* What single use rests on in P2PK mode: a shared Redis, and proof sets that
\* are equal or have no proof in common, for the proof key names a whole set.
DistinctSets == \A k, l \in Range(Contents) : k = l \/ k \cap l = {}
Shared       == ~P2pk \/ (HasRedis /\ DistinctSets)
\* And markers that do not lapse.
Guarded      == Shared /\ (P2pk => Lasting)

\* No proof pays for two admissions, whatever tokens encode it and whichever
\* workers see them: by the mint's swap in standard mode, even with Redis down,
\* and by the claim on the proof key in P2PK mode, where each lapse of a marker
\* costs one admission more.
EachProofPaysOnce ==
    LET Both(f, k, l) == f[k] + IF k = l THEN 0 ELSE f[l]
    IN  Shared => \A k, l \in Keys :
                     k \cap l # {} => Both(admissions, k, l) <= 1 + Both(lapses, k, l)

\* "losing the claim race": a payer whose proofs this proxy has swapped is
\* never answered that the token was already used.
SwappedNotRefused == refused = {}

\* A P2PK proof set is marked used only while it is being stored, once it was
\* admitted, or after a claim or release whose reply was lost: a failed check
\* or a failed write leaves it usable.
UsedIsExplained ==
    P2pk => \A k \in Keys :
        (k \in used \/ \E w \in Worker : Holds(cache[w], k)) =>
            \/ admissions[k] > 0 \/ k \in lost
            \/ \E w \in Worker : At(w, "store") /\ Key(w) = k

\* The wallet never holds as spendable a proof the mint has spent or is
\* spending, which a later redemption would submit in vain.
SpendableIsUnspent ==
    P2pk /\ Guarded => \A x \in Proof : wallet[x] = "unspent" => mint[x] = "unspent"

\* Admission is paid: every proof of an admitted set is spent at the mint
\* (standard mode), or is in the wallet, signed by the mint unless the operator
\* waived its DLEQ, and locked to nobody but this proxy (P2PK mode).
AdmittedIsPaid ==
    \A k \in Keys : admissions[k] > 0 =>
        \A x \in k :
            IF P2pk
            THEN /\ wallet[x] # "absent"
                 /\ Kind[x].lock \in OursToSpend \ TheirsToSpend
                 /\ DleqRule => Kind[x].signed
            ELSE mint[x] = "spent"

\* P2PK: once Redis stays up, a token whose payer keeps trying is admitted, by
\* this or another encoding, or its claim was lost, if its proofs are locked to
\* this proxy as its payment requests ask and carry their DLEQ.
AsRequested(k) == \A x \in k : Kind[x].lock = "ours" /\ Kind[x].dleq = "valid"
PresentedEventuallyAdmitted ==
    <>[](P2pk /\ redisUp) =>
        \A t \in Token : <>(t \in DOMAIN Contents /\ AsRequested(Contents[t]) =>
                              admissions[Contents[t]] > 0 \/ Contents[t] \in lost)

==========================================================================
