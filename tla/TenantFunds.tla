---------------------------- MODULE TenantFunds ----------------------------
(***************************************************************************)
(* Whose money a Cashu proof is, in multi-tenant mode: the token path maps *)
(* each proof it adds to the wallet to the tenant's address in Redis, and  *)
(* the redemption thread melts the wallet's proofs address by address.     *)
(* The two share the wallet database, the mint and Redis, and never wait   *)
(* for one another.                                                        *)
(*                                                                         *)
(* A token is one proof, In(t).  In standard mode the mint swaps it for    *)
(* Out(t); a melt may return one proof of change, Change(t).               *)
(***************************************************************************)
EXTENDS Integers, FiniteSets, TLC

CONSTANTS Worker,       \* workers that serve requests
          Token,        \* tokens that decode, pay enough and come from an accepted mint
          Tenant,       \* addresses of l402_lnurl_addr and l402_tenant_ref
          Default,      \* LNURL_ADDRESS
          None,         \* no address, no token
          Deployments   \* the settings nginx may run with, and what it may meet

Address   == Tenant \cup {Default}
In(t)     == <<t, "in">>
Out(t)    == <<t, "out">>
Change(t) == <<t, "change">>
Proof     == Token \X {"in", "out", "change"}

ASSUME FundsAssumption ==
    /\ Default \notin Tenant /\ None \notin Address /\ None \notin Token
    /\ \A d \in Deployments :
          /\ d.p2pk \in BOOLEAN /\ d.redis \in BOOLEAN
          /\ d.workers \subseteq Worker /\ d.tokens \subseteq Token
          /\ d.addresses \subseteq Address
          /\ d.faults \subseteq {"map", "reply", "crash", "saga"} /\ d.restarts \in Nat
          /\ d.minimum \in Nat /\ d.reserve \in Nat /\ d.limit \in Nat /\ d.msat \subseteq Token

VARIABLES
    deployment,  \* one of Deployments, for as long as nginx runs
    request,     \* request[w]: what the worker is doing, for which route's address
    cycle,       \* the redemption thread: its step, the groups left, the group in hand
    mapping,     \* cashu:proof_lnurl:* keys of Redis
    redisUp,     \* whether Redis answers
    mint,        \* mint[x]: the state of proof x at the mint
    wallet,      \* wallet[x]: its state in the wallet database
    claimed,     \* tokens marked used in Redis
    owner,       \* owner[x]: addresses a request with that money named
    paid,        \* paid[x]: the address whose invoice x paid
    restarts,    \* restarts so far
    saga         \* proofs of the wallet spent by an operation whose saga is still there

vars == <<deployment, request, cycle, mapping, redisUp, mint, wallet, claimed, owner,
          paid, restarts, saga>>

P2pk     == deployment.p2pk     \* CASHU_P2PK_MODE
HasRedis == deployment.redis    \* REDIS_URL is set
Faults   == deployment.faults   \* failures that separate a proof from its mapping: "map"
                                \* (Redis), "reply" (the mint's answer), "crash" (a process);
                                \* "saga": an operation's saga is there after it

\* CASHU_MELT_MIN_BALANCE_SATS, what a melt holds back for fees and
\* CASHU_MAX_PROOFS_PER_MELT, where every proof is worth one (the amounts are in
\* MeltPlan); and the tokens in msat, which no redemption and no reconciliation
\* looks at: both open the wallet of the unit sat.
Minimum == deployment.minimum
Reserve == deployment.reserve
Limit   == deployment.limit
Msat    == deployment.msat

Idle  == [step |-> "idle", token |-> None, address |-> None]
Asleep == [step |-> "asleep", unread |-> {}, plan |-> {}, group |-> {}, change |-> {},
           address |-> None]

Init ==
    /\ deployment \in Deployments
    /\ request = [w \in Worker |-> Idle]
    /\ cycle = Asleep
    /\ mapping = [x \in Proof |-> None]
    /\ redisUp = HasRedis
    /\ mint = [x \in Proof |-> IF x[2] = "in" THEN "unspent" ELSE "none"]
    /\ wallet = [x \in Proof |-> "absent"]
    /\ claimed = {}
    /\ owner = [x \in Proof |-> {}]
    /\ paid = [x \in Proof |-> None]
    /\ restarts = 0
    /\ saga = {}

----------------------------------------------------------------------------
At(w, s)   == request[w].step = s
Goto(w, s) == request' = [request EXCEPT ![w].step = s]
Answer(w)  == request' = [request EXCEPT ![w] = Idle]
Tok(w)     == request[w].token

Reachable == HasRedis /\ redisUp

Moved(f, S, s)  == [x \in Proof |-> IF x \in S THEN s ELSE f[x]]
Mapped(S, a)    == mapping' = Moved(mapping, S, a)
Earmark(x, a)   == owner' = [owner EXCEPT ![x] = @ \cup {a}]

\* A swap or a melt has spent S and deletes its saga. That may fail, the process
\* die first, or the sweep look before it.
SagaEnds(S) == saga' = saga \/ ("saga" \in Faults /\ saga' = saga \cup S)

----------------------------------------------------------------------------
(* The token path *)

\* A token reaches a route, and the checks before its mapping have passed; the
\* look for its marker fails open.  In P2PK mode they include the claim on its
\* proof set, which without Redis only this worker sees (CashuGate).
Present(w, t, a) ==
    /\ At(w, "idle")
    /\ w \in deployment.workers /\ t \in deployment.tokens /\ a \in deployment.addresses
    /\ Reachable => t \notin claimed
    /\ IF P2pk
       THEN /\ mint[In(t)] = "unspent"
            /\ HasRedis => redisUp
            /\ claimed' = IF HasRedis THEN claimed \cup {t} ELSE claimed
       ELSE UNCHANGED claimed
    /\ request' = [request EXCEPT ![w] = [step |-> "map", token |-> t, address |-> a]]
    /\ Earmark(In(t), a)
    /\ UNCHANGED <<deployment, cycle, mapping, redisUp, mint, wallet, paid, restarts, saga>>

\* The mapping of the proof as received.  Without it standard mode answers 500,
\* and P2PK mode only warns.
MapIn(w) ==
    /\ At(w, "map")
    /\ IF Reachable
       THEN Mapped({In(Tok(w))}, request[w].address) /\ Goto(w, "store")
       ELSE UNCHANGED mapping /\ IF P2pk THEN Goto(w, "store") ELSE Answer(w)
    /\ UNCHANGED <<deployment, cycle, redisUp, mint, wallet, claimed, owner, paid, restarts, saga>>

\* The proof enters the wallet as unspent, over whatever it held of it.  P2PK
\* mode is done; standard mode goes on to swap.
StoreIn(w) ==
    /\ At(w, "store")
    /\ wallet' = [wallet EXCEPT ![In(Tok(w))] = "unspent"]
    /\ saga' = saga \ {In(Tok(w))}
    /\ IF P2pk THEN Answer(w) ELSE Goto(w, "swap")
    /\ UNCHANGED <<deployment, cycle, mapping, redisUp, mint, claimed, owner, paid, restarts>>

\* The database refuses: 500.  P2PK mode releases its claim, if Redis answers.
StoreFails(w) ==
    /\ At(w, "store")
    /\ Answer(w)
    /\ IF P2pk
       THEN /\ claimed' = IF Reachable THEN claimed \ {Tok(w)} ELSE claimed
            /\ owner' = [owner EXCEPT ![In(Tok(w))] = {}]
       ELSE UNCHANGED <<claimed, owner>>
    /\ UNCHANGED <<deployment, cycle, mapping, redisUp, mint, wallet, paid, restarts, saga>>

\* swap reserves its input, which must still be unspent in the wallet.
SwapReserve(w) ==
    /\ At(w, "swap")
    /\ wallet[In(Tok(w))] = "unspent"
    /\ wallet' = [wallet EXCEPT ![In(Tok(w))] = "reserved"]
    /\ Goto(w, "swapping")
    /\ UNCHANGED <<deployment, cycle, mapping, redisUp, mint, claimed, owner, paid, restarts, saga>>

\* The mint swaps; the wallet marks the input spent and the output reserved.
Swap(w) ==
    /\ At(w, "swapping")
    /\ mint[In(Tok(w))] = "unspent"
    /\ mint' = [mint EXCEPT ![In(Tok(w))] = "spent", ![Out(Tok(w))] = "unspent"]
    /\ wallet' = [wallet EXCEPT ![In(Tok(w))] = "spent", ![Out(Tok(w))] = "reserved"]
    /\ SagaEnds({In(Tok(w))})
    /\ Earmark(Out(Tok(w)), request[w].address)
    /\ Goto(w, "mapOut")
    /\ UNCHANGED <<deployment, cycle, mapping, redisUp, claimed, paid, restarts>>

\* The mint swapped and its answer was lost: 500.  The outputs exist at the
\* mint, and the wallet will find them when it recovers the swap.
SwapReplyLost(w) ==
    /\ At(w, "swapping") /\ "reply" \in Faults
    /\ mint[In(Tok(w))] = "unspent"
    /\ mint' = [mint EXCEPT ![In(Tok(w))] = "spent", ![Out(Tok(w))] = "unspent"]
    /\ wallet' = [wallet EXCEPT ![In(Tok(w))] = "pending"]
    /\ Earmark(Out(Tok(w)), request[w].address)
    /\ Answer(w)
    /\ UNCHANGED <<deployment, cycle, mapping, redisUp, claimed, paid, restarts, saga>>

\* The swap fails, at the reservation or at the mint: the input is set pending,
\* out of redemption's reach, and the answer is 500.
SwapFails(w) ==
    /\ \/ At(w, "swap") /\ wallet[In(Tok(w))] # "unspent"
       \/ At(w, "swapping")
    /\ wallet' = [wallet EXCEPT ![In(Tok(w))] = "pending"]
    /\ Answer(w)
    /\ UNCHANGED <<deployment, cycle, mapping, redisUp, mint, claimed, owner, paid, restarts, saga>>

\* Slip: the output's mapping keyed on the input.
MapOutAsIn(w) ==
    /\ At(w, "mapOut")
    /\ IF Reachable THEN Mapped({In(Tok(w))}, request[w].address) ELSE UNCHANGED mapping
    /\ Goto(w, "unmapIn")
    /\ UNCHANGED <<deployment, cycle, redisUp, mint, wallet, claimed, owner, paid, restarts, saga>>

\* The mapping of the swapped proof; a failure is only logged.
MapOut(w) ==
    /\ At(w, "mapOut")
    /\ IF Reachable THEN Mapped({Out(Tok(w))}, request[w].address) ELSE UNCHANGED mapping
    /\ Goto(w, "unmapIn")
    /\ UNCHANGED <<deployment, cycle, redisUp, mint, wallet, claimed, owner, paid, restarts, saga>>

UnmapIn(w) ==
    /\ At(w, "unmapIn")
    /\ IF Reachable THEN Mapped({In(Tok(w))}, None) ELSE UNCHANGED mapping
    /\ Goto(w, "release")
    /\ UNCHANGED <<deployment, cycle, redisUp, mint, wallet, claimed, owner, paid, restarts, saga>>

\* The swapped proof becomes spendable and the token is claimed, unless the
\* database refuses: 500.
Release(w) ==
    /\ At(w, "release")
    /\ \/ /\ wallet' = [wallet EXCEPT ![Out(Tok(w))] = "unspent"]
          /\ claimed' = IF Reachable THEN claimed \cup {Tok(w)} ELSE claimed
       \/ UNCHANGED <<wallet, claimed>>
    /\ Answer(w)
    /\ UNCHANGED <<deployment, cycle, mapping, redisUp, mint, owner, paid, restarts, saga>>

----------------------------------------------------------------------------
(* Redemption: one thread, in the worker that holds the lease *)

Redeeming(s) == cycle.step = s

\* The unspent proofs of the wallet in sats are listed.
CycleStart ==
    /\ Redeeming("asleep")
    /\ LET proofs == {x \in Proof : wallet[x] = "unspent" /\ x[1] \notin Msat}
       IN  cycle' = [Asleep EXCEPT !.step = IF proofs = {} THEN "sweep" ELSE "read",
                                   !.unread = proofs]
    /\ UNCHANGED <<deployment, request, mapping, redisUp, mint, wallet, claimed, owner, paid, restarts, saga>>

Plan(x, a) ==
    cycle' = [cycle EXCEPT !.unread = @ \ {x}, !.plan = @ \cup {<<x, a>>},
                           !.step = IF cycle.unread = {x} THEN "melt" ELSE "read"]

\* group_proofs_by_lnurl reads one proof's mapping: none means the default
\* address, a configured Redis that does not answer ends this mint's cycle.
ReadMapping(x) ==
    /\ Redeeming("read") /\ x \in cycle.unread
    /\ CASE ~HasRedis           -> Plan(x, Default)
         [] HasRedis /\ ~redisUp -> cycle' = [Asleep EXCEPT !.step = "sweep"]
         [] OTHER -> Plan(x, IF mapping[x] = None THEN Default ELSE mapping[x])
    /\ UNCHANGED <<deployment, request, mapping, redisUp, mint, wallet, claimed, owner, paid, restarts, saga>>

Groups      == {p[2] : p \in cycle.plan}
GroupOf(a)  == {p[1] : p \in {q \in cycle.plan : q[2] = a}}
Rest(plan)  == [Asleep EXCEPT !.step = IF plan = {} THEN "sweep" ELSE "melt", !.plan = plan]
Without(a)  == Rest({p \in cycle.plan : p[2] # a})

\* Slip: the wallet picks the inputs of a tenant's melt.
MeltWalletPicks(a) ==
    /\ Redeeming("melt") /\ a \in Groups
    /\ \E S \in SUBSET {x \in Proof : wallet[x] = "unspent"} :
          /\ S # {}
          /\ wallet' = Moved(wallet, S, "reserved")
          /\ cycle' = [Without(a) EXCEPT !.step = "melting", !.group = S, !.address = a]
    /\ UNCHANGED <<deployment, request, mapping, redisUp, mint, claimed, owner, paid, restarts, saga>>

\* How many of a group's proofs one melt takes, and whether it melts at all.
Batch(S)    == IF Limit > 0 /\ Cardinality(S) > Limit THEN Limit ELSE Cardinality(S)
Meltable(S) == Cardinality(S) >= Minimum /\ Batch(S) > Reserve

\* A group that reaches the minimum and exceeds the reserve, an invoice of its
\* address and a quote: its proofs are reserved, or as many as the limit allows.
Melt(a) ==
    /\ Redeeming("melt") /\ a \in Groups
    /\ Meltable(GroupOf(a))
    /\ \E S \in SUBSET GroupOf(a) :
          /\ Cardinality(S) = Batch(GroupOf(a))
          /\ \A x \in S : wallet[x] = "unspent"
          /\ wallet' = Moved(wallet, S, "reserved")
          /\ cycle' = [Without(a) EXCEPT !.step = "melting", !.group = S, !.address = a]
    /\ UNCHANGED <<deployment, request, mapping, redisUp, mint, claimed, owner, paid, restarts, saga>>

\* Below a minimum, no invoice, no quote, or proofs no longer there: the group
\* waits for the next cycle.
SkipGroup(a) ==
    /\ Redeeming("melt") /\ a \in Groups
    /\ cycle' = Without(a)
    /\ UNCHANGED <<deployment, request, mapping, redisUp, mint, wallet, claimed, owner, paid, restarts, saga>>

\* Tokens whose money, in the group in hand, may leave change.
MayChange == {t \in Token : {In(t), Out(t)} \cap cycle.group # {} /\ mint[Change(t)] = "none"}

\* The mint pays the invoice of the group in hand.
Pay ==
    /\ Redeeming("melting")
    /\ \A x \in cycle.group : mint[x] = "unspent"
    /\ paid' = Moved(paid, cycle.group, cycle.address)

MeltPaid ==
    /\ Pay
    /\ mint' = Moved(mint, cycle.group, "spent")
    /\ wallet' = Moved(wallet, cycle.group, "spent")
    /\ SagaEnds(cycle.group)
    /\ cycle' = [cycle EXCEPT !.step = "unmap"]
    /\ UNCHANGED <<deployment, request, mapping, redisUp, claimed, owner, restarts>>

\* It returns change, which the wallet holds as unspent at once.
MeltPaidWithChange(t) ==
    /\ Pay
    /\ t \in MayChange
    /\ mint' = [Moved(mint, cycle.group, "spent") EXCEPT ![Change(t)] = "unspent"]
    /\ wallet' = [Moved(wallet, cycle.group, "spent") EXCEPT ![Change(t)] = "unspent"]
    /\ owner' = [owner EXCEPT ![Change(t)] = owner[In(t)]]
    /\ SagaEnds(cycle.group)
    /\ cycle' = [cycle EXCEPT !.step = "unmap", !.change = {Change(t)}]
    /\ UNCHANGED <<deployment, request, mapping, redisUp, claimed, restarts>>

\* It pays, but the answer is lost: the proofs stay pending in the wallet, and
\* the change, if any, exists only at the mint.
MeltReplyLost ==
    /\ Pay /\ "reply" \in Faults
    /\ \E change \in {{}} \cup {{Change(t)} : t \in MayChange} :
          /\ mint' = Moved(Moved(mint, cycle.group, "spent"), change, "unspent")
          /\ owner' = [x \in Proof |-> IF x \in change THEN owner[In(x[1])] ELSE owner[x]]
    /\ wallet' = Moved(wallet, cycle.group, "pending")
    /\ cycle' = Rest(cycle.plan)
    /\ UNCHANGED <<deployment, request, mapping, redisUp, claimed, restarts, saga>>

\* Slip: a failed melt leaves its proofs reserved.
MeltFailsReserved ==
    /\ Redeeming("melting")
    /\ cycle' = Rest(cycle.plan)
    /\ UNCHANGED <<deployment, request, mapping, redisUp, mint, wallet, claimed, owner, paid, restarts, saga>>

\* It refuses: the wallet takes back the proofs it still has reserved.
MeltFails ==
    /\ Redeeming("melting")
    /\ wallet' = [x \in Proof |-> IF x \in cycle.group /\ wallet[x] = "reserved"
                                  THEN "unspent" ELSE wallet[x]]
    /\ cycle' = Rest(cycle.plan)
    /\ UNCHANGED <<deployment, request, mapping, redisUp, mint, claimed, owner, paid, restarts, saga>>

\* The mappings of the melted proofs go; a failure is only logged.
UnmapMelted ==
    /\ Redeeming("unmap")
    /\ IF Reachable THEN Mapped(cycle.group, None) ELSE UNCHANGED mapping
    /\ cycle' = [cycle EXCEPT !.step = "change"]
    /\ UNCHANGED <<deployment, request, redisUp, mint, wallet, claimed, owner, paid, restarts, saga>>

\* The change is mapped to the group's address; a failure is only logged.
MapChange ==
    /\ Redeeming("change")
    /\ IF Reachable THEN Mapped(cycle.change, cycle.address) ELSE UNCHANGED mapping
    /\ cycle' = Rest(cycle.plan)
    /\ UNCHANGED <<deployment, request, redisUp, mint, wallet, claimed, owner, paid, restarts, saga>>

\* Slip: spent proofs are deleted whether or not their mappings were.
SweepRegardless(left) ==
    /\ Redeeming("sweep")
    /\ LET spent == {x \in Proof : wallet[x] = "spent" /\ x \notin saga} \ left
       IN  /\ IF Reachable THEN Mapped(spent, None) ELSE UNCHANGED mapping
           /\ cycle' = [Asleep EXCEPT !.step = "delete", !.group = spent]
    /\ UNCHANGED <<deployment, request, redisUp, mint, wallet, claimed, owner, paid, restarts, saga>>

\* Slip: the sweep does not ask for sagas.
SweepRunning(left) ==
    /\ Redeeming("sweep")
    /\ LET spent == {x \in Proof : wallet[x] = "spent"} \ left
       IN  IF Reachable
           THEN /\ Mapped(spent, None)
                /\ cycle' = [Asleep EXCEPT !.step = "delete", !.group = spent]
           ELSE UNCHANGED mapping /\ cycle' = Asleep
    /\ UNCHANGED <<deployment, request, redisUp, mint, wallet, claimed, owner, paid, restarts, saga>>

\* After each cycle the mappings of the wallet's spent proofs are deleted, but
\* for those whose saga is there; if that fails the proofs stay for the next
\* pass.  The pass leaves some for the next: those whose saga it could not read,
\* and those of the batches after one that failed.
SweepBut(left) ==
    /\ Redeeming("sweep")
    /\ LET spent == {x \in Proof : wallet[x] = "spent" /\ x \notin saga} \ left
       IN  IF Reachable
           THEN /\ Mapped(spent, None)
                /\ cycle' = [Asleep EXCEPT !.step = "delete", !.group = spent]
           ELSE UNCHANGED mapping /\ cycle' = Asleep
    /\ UNCHANGED <<deployment, request, redisUp, mint, wallet, claimed, owner, paid, restarts, saga>>

Sweep == \E left \in SUBSET {x \in Proof \ saga : wallet[x] = "spent"} : SweepBut(left)

\* Then the proofs, unless the database refuses.
SweepDelete ==
    /\ Redeeming("delete")
    /\ wallet' \in {wallet, Moved(wallet, cycle.group, "absent")}
    /\ cycle' = Asleep
    /\ UNCHANGED <<deployment, request, mapping, redisUp, mint, claimed, owner, paid, restarts, saga>>

----------------------------------------------------------------------------
(* Failures and restarts *)

\* A request or a cycle that has found Redis up and has a mapping to write.
MappingAhead ==
    \/ \E w \in Worker : request[w].step \in IF P2pk THEN {"map"}
                                             ELSE {"store", "swap", "swapping", "mapOut"}
    \/ cycle.step \in {"read", "melt", "melting"}
    \/ cycle.plan # {} \/ cycle.change # {}

\* Without the "map" fault no outage of Redis begins there.
RedisFails ==
    /\ redisUp
    /\ MappingAhead => "map" \in Faults
    /\ redisUp' = FALSE
    /\ UNCHANGED <<deployment, request, cycle, mapping, mint, wallet, claimed, owner, paid, restarts, saga>>

RedisRecovers ==
    /\ HasRedis /\ ~redisUp
    /\ redisUp' = TRUE
    /\ UNCHANGED <<deployment, request, cycle, mapping, mint, wallet, claimed, owner, paid, restarts, saga>>

WorkerDies(w) ==
    /\ "crash" \in Faults
    /\ ~At(w, "idle")
    /\ Answer(w)
    /\ UNCHANGED <<deployment, cycle, mapping, redisUp, mint, wallet, claimed, owner, paid, restarts, saga>>

\* The lease passes to another worker, whose thread starts a cycle of its own.
RedeemerDies ==
    /\ "crash" \in Faults
    /\ ~Redeeming("asleep")
    /\ cycle' = Asleep
    /\ UNCHANGED <<deployment, request, mapping, redisUp, mint, wallet, claimed, owner, paid, restarts, saga>>

\* What a start may find: proofs a swap or a melt left in flight, those it spent
\* without deleting its saga, and the outputs of a swap or the change of a melt
\* that the wallet never learned of, whose secrets derive from its seed as those
\* of a token's proofs do not.
InFlight == {x \in Proof : wallet[x] \in {"reserved", "pending"}}
Unknown  == {x \in Proof : wallet[x] = "absent" /\ x[2] # "in" /\ mint[x] = "unspent"}
Findable == {x \in InFlight \cup Unknown \cup saga : x[1] \notin Msat}

\* Slip: proofs in flight become spendable without the mint being asked.
ReconciledUnasked(reached, kept) ==
    [x \in Proof |-> IF x \notin reached THEN wallet[x] ELSE "unspent"]

\* What becomes of the proofs that restore_wallets_state and
\* reconcile_pending_proofs reach, of which each mint's five seconds may cut off
\* any: an unspent one becomes spendable, a spent one is deleted, and put back as
\* spent for the sweep if the second step gets there.
Reconciled(reached, kept) ==
    [x \in Proof |-> IF x \notin reached THEN wallet[x]
                     ELSE IF mint[x] = "unspent" THEN "unspent"
                     ELSE IF x \in kept THEN "spent" ELSE "absent"]

\* nginx starts anew, and reconciles what it can.
Restart ==
    /\ restarts < deployment.restarts
    /\ "crash" \notin Faults => Redeeming("asleep") /\ \A w \in Worker : At(w, "idle")
    /\ restarts' = restarts + 1
    /\ request' = [w \in Worker |-> Idle]
    /\ cycle' = Asleep
    /\ \E reached \in SUBSET Findable :
          /\ \E kept \in SUBSET {x \in reached : mint[x] = "spent"} :
                wallet' = Reconciled(reached, kept)
          /\ saga' = saga \ reached
    /\ UNCHANGED <<deployment, mapping, redisUp, mint, claimed, owner, paid>>

----------------------------------------------------------------------------
RequestStep(w) ==
    \/ MapIn(w) \/ StoreIn(w) \/ StoreFails(w)
    \/ SwapReserve(w) \/ Swap(w) \/ SwapReplyLost(w) \/ SwapFails(w)
    \/ MapOut(w) \/ UnmapIn(w) \/ Release(w)

RedeemStep ==
    \/ CycleStart
    \/ \E x \in Proof : ReadMapping(x)
    \/ \E a \in Address : Melt(a) \/ SkipGroup(a)
    \/ \E t \in Token : MeltPaidWithChange(t)
    \/ MeltPaid \/ MeltReplyLost \/ MeltFails
    \/ UnmapMelted \/ MapChange \/ Sweep \/ SweepDelete

Next ==
    \/ \E w \in Worker, t \in Token, a \in Address : Present(w, t, a)
    \/ \E w \in Worker : RequestStep(w) \/ WorkerDies(w)
    \/ RedeemStep \/ RedeemerDies
    \/ RedisFails \/ RedisRecovers \/ Restart

Spec == Init /\ [][Next]_vars

\* The redemption thread runs. An address that is due a melt again and again now
\* and then gives an invoice that the mint quotes within the plan; the mint does
\* not lose every answer; and now and then a sweep can read every saga. Nothing
\* is asked of the requests.
FairSpec ==
    /\ Spec
    /\ WF_vars(RedeemStep)
    /\ \A a \in Address : SF_vars(Melt(a))
    /\ SF_vars(MeltPaid \/ \E t \in Token : MeltPaidWithChange(t))
    /\ SF_vars(SweepBut({}))

----------------------------------------------------------------------------
(* Properties *)

\* "swap returns those proofs reserved, so each is mapped before it becomes
\* spendable", and "each group to the correct LNURL address": as long as no
\* fault parts a proof from its mapping, what it pays goes to an address that a
\* request with that money named.
PaidAsNamed ==
    HasRedis /\ Faults = {} => \A x \in Proof : paid[x] # None => paid[x] \in owner[x]

\* Whatever fails, a proof pays its own address or the default one, never
\* another tenant's, unless a P2PK store fails after its mapping was written
\* and Redis then fails for the next.
NeverAnotherTenant ==
    ~(P2pk /\ "map" \in Faults) =>
        \A x \in Proof : paid[x] # None => paid[x] \in owner[x] \cup {Default}

\* No step forgets a proof that the mint would still honour, nor one whose saga
\* is there, which "may yet read its proofs": the sweep asks in one step and
\* deletes in another. And no start makes a proof spendable that the mint has
\* taken, however its reconciliation was cut short.
NothingLostNothingRevived ==
    [][\A x \in Proof :
          /\ wallet[x] # "absent" /\ wallet'[x] = "absent" => mint[x] = "spent" /\ x \notin saga'
          /\ restarts' # restarts /\ wallet[x] # "unspent" /\ wallet'[x] = "unspent"
                => mint[x] = "unspent"]_vars

\* The proofs in sats that the wallet holds and the redemption owes an address.
HeldFor(a) ==
    {x \in Proof : /\ x[1] \notin Msat /\ wallet[x] \in {"unspent", "reserved"}
                   /\ a = IF mapping[x] = None THEN Default ELSE mapping[x]}

\* "the proofs stay unspent until Redis is back": once it is, no address is owed,
\* for good, P2PK proofs that reach the minimum and exceed the reserve. What
\* falls short of either stays, and so do tokens in msat.
HeldIsRedeemed ==
    <>[](P2pk /\ redisUp) => \A a \in Address : []<>~Meltable(HeldFor(a))

\* A P2PK proof the wallet holds as spent loses its mapping, at the melt or in
\* a later sweep, unless its saga is still there.
SpentMappingsSwept ==
    <>[](P2pk /\ redisUp) =>
        \A x \in Proof : wallet[x] = "spent" ~> mapping[x] = None \/ x \in saga

==========================================================================
