# Formal models of ngx_l402

TLA+ models of the nginx module in this repository, with the TLC configurations
that check them on small instances and the TLAPS proofs of what matters most.
Every definition is written from the Rust source; `PROJECT.json` maps each one to
its lines (`map`), lists the runs, the mutated definitions that show each property
can fail, the hazards the properties are aimed at, and the disagreements between
code and documentation that the models exhibit (`findings`).

## The system

ngx_l402 puts a paywall into nginx's access phase. A request without a credential
is answered 402 with a macaroon and a Lightning invoice; one with
`L402 macaroon:preimage`, with the macaroon of an invoice that the node says is
settled (auto-detect), or with a Cashu token, is let through once. Ecash received is
melted to Lightning, in multi-tenant mode to the address of the tenant whose
location was paid.

Several processes run it. The nginx **master** parses configurations and initialises
the module once. Each **worker** serves one request at a time, because the handler
blocks nginx's only thread, so requests interleave between workers and not within one.
One worker also runs the **redemption thread**. They share Redis (markers, mappings,
rate counters, dynamic prices), a SQLite wallet, one block of counters in shared
memory, and two outside parties: the Lightning node and the Cashu mints.

| Part | State it keeps | Operations | Talks to | Hard because | Correct when |
|---|---|---|---|---|---|
| replay cache (`replay_cache.rs`) | set and queue of keys, capacity | claim, contains, release | embedded in both gates | capacity, mixed claims and releases | agreement, bound, FIFO forgetting |
| preimage gate (`lib.rs` 434-613, 1071-1159, 2589-2752) | Redis markers with TTL, worker caches, settled preimages | mint, pre-check, verify, claim | node, Redis | workers race, Redis fails or loses a reply, reload changes lifetimes | one payment, one admission |
| Cashu gate (`cashu.rs` 1352-2014, `p2pk.rs`, `dleq.rs`) | Redis markers with TTL, worker cache, wallet | verify, check lock and signature, swap, claim, store, release | mint, Redis, wallet | several encodings of one proof set, locks that others can open, failed stores, lost claims, markers that lapse | a proof pays once; who has paid is let in |
| mapping and redemption (`cashu.rs` 825-1242, 1554-1647, 2016-2725) | proof to address in Redis, proof states and sagas in the wallet, proof states at the mint | map, swap, plan, melt, change, sweep, restore, reconcile | Redis, mint, LNURL | thread and requests never wait for one another; crashes; a reconciliation cut short | what is paid goes to the tenant; no proof is lost or revived |
| redemption lease (`lib.rs` 3066-3243) | `flock`, lease and redemption threads | open, lock, start, cycle | kernel, nginx reloads | two generations of workers, threads that fail | one redeemer, always somebody |
| melt planning (`fee.rs`, `cashu.rs` 2177-2597) | thresholds of this mint, plan, quote | fetch info, plan, compare | mint | mint-supplied numbers saturate or wrap | a melt is covered by its proofs |
| start-up and wallet (`lib.rs` 2760-3064; `cashu.rs` 224-778, 1249-1292) | statics, phrase, phrase file, fingerprint, LNURL clients | read, resolve, save, check, open, enable, fork | disk, operator, nginx master | torn and failed writes, features that fail one by one, what a fork keeps and loses | one wallet per database; workers have the settings and no stale handle |
| metrics zone (`lib.rs` 1293-1392, `metrics.rs` 185-248) | counters in shared memory, a pointer to them in each process | add the zone, initialise or take over its block, count | nginx cycles and forks | reloads that fail or lack the zone, builds of another layout, workers forked in between | counters survive; all count in one place |
| access phase (`lib.rs` 1811-2519, 3281-3426) | shared counters, last payment method, price in Redis | price, quote, answer, count, challenge, dry run | both gates, metrics, Redis | counters in separate steps, prices that change, answers half sent, panics | counters balance; forwarded only by right; what is quoted is accepted |
| rate limit (`lib.rs` 4426-4468) | counter with TTL in Redis | check | Redis | fails open, window edge, lost reply | bounded burst, refusal ends |
| configuration cycle (`lib.rs` 81-99, 1235-1291, 3802-3990) | manifest and tenant registries, sites to warn about | preconfiguration, `l402 on`, `l402_tenant`, postconfiguration | nginx cycles and forks | failed reloads, workers forked later | registries belong to the configuration that is read, then run |
| location merge (`lib.rs` 1406-1808, 3467-4557) | one `ModuleConfig` per location | directives, merge | tenant registry | inheritance of settings that depend on one another | the nearest directive wins; bad configurations are refused |

The rest (the text of pages, headers and errors, exit hooks, logging, the demo gRPC server and the
stress test) is either pure text, without state, or outside the module. Of the LNURL client cache
the models have that the master fills it and its workers inherit it (`ServiceStart`), and not what is in it.
`PROJECT.json` says so part by part.

## The modules

| Module | What it is |
|---|---|
| `ReplayCacheOps` | the cache's four operations as operators on a record, used by the gates |
| `ReplayCache` | the cache as a machine of its own, with what was claimed since |
| `AdmitOnce` | the abstract promise: a credential is admitted once |
| `PreimageGate` | the Lightning gate; implements `AdmitOnce` over payments |
| `CashuGate` | both Cashu paths, with the locks and signatures of proofs |
| `TenantFunds` | mapping, redemption, sweep and reconciliation |
| `RedemptionLease` | who redeems |
| `MeltPlan` | what a cycle decides to melt |
| `WalletIdentity` | which wallet a start opens |
| `ServiceStart` | a master from `init_module` to its workers; extends and implements `WalletIdentity` |
| `MetricsZone` | where the workers of a master count |
| `AccessPhase` | prices, quotes, outcomes and counters; the gates' verdicts are its inputs |
| `InvoiceRateLimit` | the counter in Redis |
| `LocationMerge` | what each directive does to a location and how one inherits from another, as operators |
| `ConfigCycle` | reading, merging, accepting or refusing a configuration; extends `LocationMerge` |
| `ReplayCacheLemmas`, `*Proofs` | lemmas and theorems |
| `MC*` | constants and symmetry for TLC, one per model |

Composition: both gates embed `ReplayCacheOps` in every worker. `PreimageGate` implements
`AdmitOnce`. `CashuGate` states more than that of its proofs, `EachProofPaysOnce`, because tokens may
share some of their proofs and because a marker may lapse. `AccessPhase` takes from the gates
the set of verdicts they can return, with the payment method each leaves behind, and decides
for itself what depends on the price. `TenantFunds` begins where `CashuGate` has decided to
receive a token, and leaves to `MeltPlan` which groups are worth a melt and to `RedemptionLease`
which worker runs the thread; it keeps one such thread that may die and be replaced at any point.
`ServiceStart` extends `WalletIdentity` and takes its steps as one stage of `init_module`; that
the whole start still implements it is a theorem. `ConfigCycle` merges with the operators
of `LocationMerge`, which resolve references in the registry that the cycle has just filled.

A step of a worker is one access to shared state: a Redis command, a call to a mint or
to the node, a statement on the wallet. What a handler does between two of them is part
of one action. A definition marked "Mutant" or "slip" in a comment is a plausible mistake
in the definition that follows it; it is part of no specification and is substituted for
its neighbour to see the properties fail.

Two kinds of variable have no counterpart in the process. A setting that is fixed while
nginx runs is chosen in `Init` and never changes (`hasRedis`, `deployment`, `failing`,
`splits`), so that one run covers deployments with and without Redis, both Cashu modes, and
runs with and without faults. A history variable records what a property has to
except or to count: `admissions`, `lost`, `repliesLost`, `refused`, `owner`, `paid`, `unmarked`, `tainted`,
`granted`, `forwarded`, `tally`, `lapses`, `promised`.

### PreimageGate

`request[w]` is the one request of a worker and where it is; `marker[p]` the Redis key
with the time it was set and its TTL; `macaroon[p]` the lifetime it was minted with;
`timeout` the setting of the location, which a reload changes. `PresentClassic`,
`PresentAutoDetect`, `ResolveAtNode`, `PreCheck`, `Verify` and the `Claim...` actions
follow `l402_access_handler`. The pre-check fails open, the claim fails closed, a claim
whose reply is lost sets the marker and answers 503, and without `REDIS_URL` the
worker's own cache decides. The clock counts seconds, and `MaxStall` bounds the time a
request spends between the check of `ExpiresAt` and its claim: nothing in the code
bounds it, and without a bound no TTL is long enough.

`Covered` names the settings under which the gate is safe: `L402_PREIMAGE_TTL_SECONDS`
exceeds every finite timeout by more than `MaxStall`, and no reload turns a finite timeout
into none or none into a finite one. Changing one finite timeout into another is within it.
Outside it, `MCGateReload` shows a macaroon without a lifetime whose
marker got one.

Locations with `l402_indefinite_access on` are not modelled. There a paid preimage is meant to
serve again, and `l402_access_handler` skips the pre-check and the claim (`lib.rs` 2663, 2683, 2707, 2724): the
properties of this module are about locations without it.

### CashuGate

`Contents[t]` is the set of proofs a token encodes. Standard mode asks the mint to swap
first and claims afterwards, so that the mint is what makes a token single-use and a
lost claim must not refuse the payer. P2PK mode has no swap: it checks that each proof is locked
to the module's key alone (`VerifyTokenP2pk`, `VerifyPermanentLock`), that the mint signed it
where DLEQ is required (`VerifyDleq`), and that the mint has it unspent (`CheckState`);
then it claims a key over the sorted proofs, stores them, and releases the claim if the store fails.

A proof has a lock (`none`, `ours`, `timed`: ours with a locktime, `htlc`, `other`), a DLEQ proof that is
valid, bad or absent, and may not be signed at all; `SpendElsewhere` lets somebody else spend what
the lock allows them to spend (NUT-11). `AdmittedIsPaid` says of what is admitted that nobody else
could have spent it and, unless DLEQ is waived, that the mint had signed it.

The marker of a P2PK set lives for `L402_CASHU_TOKEN_TTL_SECONDS` and its proofs until they are
melted, so a deployment is `lasting` or lets markers lapse. `EachProofPaysOnce` then allows one more
admission for each lapse and no more. `PresentedEventuallyAdmitted` is promised to payers whose
token is as the request for payment asked.

### TenantFunds

A token is one proof `In(t)`; its swap yields `Out(t)`, a melt may yield `Change(t)`.
A lost answer of the mint leaves the swap's output or the
melt's change unknown to the wallet, until the restore at a restart finds it, unmapped.
`wallet[x]` and `mint[x]` are the proof's states, `mapping[x]` the Redis key, `owner[x]`
the addresses the money was presented for, `paid[x]` where it went. `Faults` selects
what may separate a proof from its mapping: a failed Redis write, a lost
answer of the mint, a crash. With none of them `PaidAsNamed` holds: money goes to an
address its token was presented for. With all of them what remains is
`NeverAnotherTenant`: it may fall to the default address, but no other tenant gets it,
with one exception that the property names (see below).

`Meltable` is what `redeem_to_lightning` asks of a group before it melts: the minimum balance, and
after the limit on its size more than the reserve. Every proof counts one here, and what a mint's own numbers
do to the thresholds is `MeltPlan`'s. `HeldIsRedeemed` promises no more than that: no address is owed
for good what would be melted. A group that falls short of the minimum or of the reserve waits until
more is paid to it, and tokens in msat (`Msat`) wait for ever, since no redemption opens their wallet.

`saga` has the proofs whose operation's record is still in the wallet database, as cdk deletes it
last: a failure, a crash, or a sweep that comes first finds it there (the fault `"saga"`). The sweep
leaves those proofs alone (`SweepBut`), and those whose saga it cannot read or whose batch comes after one that
failed (`left`). `SpentMappingsSwept` is what the sweep owes to all others.

A start reaches any part of what it may find: `restore_wallets_state` and `reconcile_pending_proofs` give each
mint five seconds a step, so that `Restart` chooses which proofs are `reached`, and which of those that
the mint has spent are `kept`, put back for the sweep after cdk deleted them. A proof that is reached and not kept
leaves its mapping key behind, which no sweep finds again; the model has it, and no property excludes it.
`NothingLostNothingRevived` is what has to hold all the same: no step forgets a proof that the mint would honour, or whose saga
is there when the sweep, which asked a step earlier, deletes it; and no start makes spendable what the mint has taken.

### RedemptionLease

`lease[w]` and `thread[w]` are the two threads of a worker, `lock` the flock's holder.
Reloads fork new workers before draining old ones; crashed workers are forked again.
`MaxChurn` bounds reloads and crashes.

### MeltPlan

Amounts are `0..MAX`, with `MAX = 255` and ten millisats to the sat in the run, so that
saturation and wrap-around happen with small numbers; the proof is for any `MAX` and
factor. A cycle opens each mint's wallet, takes defaults, overrides them with what
the mint publishes, and compares plan and quote as `redeem_to_lightning` does. The
percentage is in parts per thousand; rounding of `f64` above 2^53 is not modelled.

### WalletIdentity, ServiceStart

One master at a time resolves a phrase, saves it, checks the fingerprint, opens the
database and receives. `Stop` may come at any point, so files are found absent,
`Invalid` (created or truncated, not written) or whole. While nginx is down the operator
may change the variable, lose the phrase file or delete the fingerprint, the documented
way to switch wallets. Written data is taken to be on disk: the code does not fsync and
the page cache is not modelled. A database without a file system path, which has neither
file, is left out. `unmarked` remembers that a fingerprint could not be written, which the
code only warns about and after which `OneWallet` promises nothing.

`ServiceStart` is `init_module` around it, stage by stage (`boot`): the settings it reads, the
features it turns on and the handles it opens are the `statics` that every worker inherits. An
error in any stage of Cashu or P2PK is logged and the start goes on, which is why the
environments in the run include those where each setting is missing or invalid. A worker sees
nothing else of the environment, because nginx clears it there (`lib.rs:2829`). `Asks`, `AsksALock`,
`ChecksTheLock` and `Redeems` are what a worker makes of the statics, `Reads` which settings it needs
for that. `Handles` are the statics that name a connection, a thread or a runtime. The master opens one
kind on purpose for its workers, the LNURL clients (`lib.rs` 2928-2963), any or none of which may answer at that moment
(`Recover`); the workers' requests and redemption take them from the cache (`lib.rs` 385-396).
`InheritsSettingsNotHandles` says that they are the only ones. Whether a connection kept in such a
client is of use after a fork is the HTTP library's business and not modelled. A reload finds `INIT_DONE` and leaves
all of this as it is, so that it shows only in the workers it forks (`Fork`, `ExitWorker`).

### MetricsZone

The master has one pointer, `active`, to the block in force, and a worker has the copy it was forked with, and the
segment that the master had mapped then (`counting`). `register_metrics_shm` either adds the zone to the
configuration being read or logs that it cannot (`NotAdded`); `metrics_shm_init` then takes over the block
it is handed or finds, initialises it if another layout wrote it (`TakeOver`), or initialises a fresh one (`InitInPlace`). Which of these a
cycle meets, and what becomes of the memory, is nginx's doing (`ngx_init_cycle`, external): the previous cycle's
segment is handed over if both have the zone, a fresh one is released again if the cycle is refused, and the old one is
unmapped in the master if the new cycle has none. `LaunchZone` has the branch for a segment that is found
existing, as the code does; nginx reports one only where segments have names, and not on Unix, where a new process image starts with
a fresh one. An error of `metrics_shm_init`, which is a missing slab pool, block or memory, changes nothing and refuses the cycle, which
is a stutter here. A block's counters are one number: `AccessPhase` has them one by one.

`ServiceStart` and `MetricsZone` share no variable, so that `MCMaster` explores each with the other at rest, and not their product.

`CountersSurvive` compares each block with `tally`, the requests counted by workers whose cycle has that
segment, and does so for every worker at every moment of a reload. It is about cycles that have the zone; what happens to
those that do not is under Disagreements.

### AccessPhase, InvoiceRateLimit

Each counter increment is a step, because workers interleave between them. The
properties relate the counters to each other and to the answers with the
requests in flight counted in, so that they hold at every scrape and not only at rest.

A request first meets its location (free, misconfigured, or priced), then the price, which is
the one in Redis where the kind of credential has it read and Redis answers. A 402 that reaches
the client is a quote; a later request may carry the token that the quote asked for (`quoted`),
and `QuoteHonoured` says that it is not refused for its amount as long as neither the price
nor Redis has changed. Whether the token is otherwise valid is the gates' business. `SendPage`, `SendEmpty` and
`SendFails` are the ways a 402 leaves, and `ForwardedByRight` relates what is sent to what nginx
forwards. Left out are the counter `DryRunPriceMsatSum` (`lib.rs:3296`), which adds up prices and meets no other counter, and
the 500 where `MODULE` is not set (`lib.rs:2110`), which no worker meets: `init_module` refuses the start before.

The rate limit is a fixed window: `BurstBounded` allows twice `Limit` in any span of a
window, which is what a counter that lapses in the middle of it permits, and nothing
stronger holds. Checks that pass because Redis does not answer are not counted. A limit
of 0, which refuses everything, is excluded by the assumption `Limit >= 1`.

### ConfigCycle, LocationMerge

A pool is the number of its cycle, and a pointer a pair of a location and the cycle that
parsed it. A configuration is a chain of nested locations, each a sequence of lines `[set, to]`,
read outermost first into `conf`, one line a step (`Directive`), and then merged; `Tenant` may fill the
registry wherever no location is open in the middle of its lines. `CycleAssumption` says what a line
is: a directive of the module with a word, a number where it takes one. `LocationMerge` has the handler of every directive: those that refuse a word they do not know
(`Garbled`), and the four that only log it (`LogsGarbled`). The properties define inheritance again,
straight from the lines (`Nearest`), and what makes a configuration wrong from what is written
(`Bad`, `Unreadable`), and compare; the sites that the startup warning names are compared in the
same way. `tainted` is the one exception of `ManifestMatches`: a refused reload leaves its registry in
the master, and a worker forked again before the next accepted one inherits it.

## The runs

Eleven runs are complete explorations without error. Their instances were chosen so that
every action is taken and every mutated definition is caught under the run's own configuration.

| Run | Instance | Distinct states | Shows |
|---|---|---|---|
| `MCReplayCache` | 4 keys, capacities 0 to 3 | 1,611 | one more key than the largest capacity: eviction, re-claim, release |
| `MCGate` | 2 workers, 1 payment, with and without Redis, timeouts 0, 1, 2 and reloads between 1 and 2, TTL 4, stall 1, clock to 5, 1 restart | 281,779 | single use until after the last marker has lapsed, refinement; once per worker's life without Redis; who has paid gets in |
| `MCCashu` | 2 workers; 3 tokens that share proofs in standard mode; in P2PK mode 2 encodings of a set with and without Redis, with a marker that lapses, and every kind of lock and signature; 1 restart | 216,264 | the swap guards, or the claim does; release and store; nothing admitted that others can spend; who has paid gets in |
| `MCFunds` | 2 workers and 1 token, or 2 tokens and a restart in P2PK mode, without faults; 1 worker with lost mappings, lost answers, crashes, 1 restart; both modes with sagas that are left, a token in msat and up to 2 restarts that reconcile any part | 3,502,399 | paid as named; never another tenant; no proof is forgotten too early or revived |
| `MCFundsLive` | P2PK mode, 1 worker, 2 tokens, outages of Redis: 2 addresses; sagas that are left and a restart; a minimum of 2 proofs; a reserve and a token in msat | 40,112 | what is due a melt gets one, mappings are swept |
| `MCLease` | 3 slots, 3 reloads and crashes, without faults and with all of them | 11,888 | one redeemer; always somebody |
| `MCPhase` | 2 workers, 3 requests at 3 locations (enforced, dry run with an exempt method, unpriced), prices 3 and 5 at 2 millisats to the sat, 1 change of price or outage, 1 crash or panic | 2,098,640 | counters balance; forwarded only if free, paid or watched; what was quoted is accepted |
| `MCLimit` | 2 buckets, limit 2, window 3, 1 lost reply | 12,528 | burst, fairness and end of refusal |
| `MCMaster` | 3 phrases, 2 workers, every environment whose settings are read; 2 workers, 3 segments, 2 layouts, 2 requests counted in a segment | 238,281 | one wallet, through the whole start; what is saved is found; locks asked are checked; workers inherit settings and no handle but LNURL clients; counters survive and workers count in one place |
| `MCPlan` | 2 mints, groups of up to 3 proofs of 1 and 8 sats and one that saturates | 294,627 | covered, not refused for ever, parameters of this mint |
| `MCConfig` | 2 configurations of 3 nested locations, over every directive, 1 tenant, 1 worker | 2,188,132 | the nearest wins; exactly the bad are refused and exactly the sites in question warned about; registries and documents of the configuration read and run |

Why the bounds are enough: no guard compares more than two workers, so that a third adds
no new order of two claims; the lease has three slots because a reload overlaps
two generations and a crash needs one more. Payments do not meet one another in the
Redis gate, so one is enough there; tokens do, through the proofs they share, so there are
three. A clock that outlasts macaroon, marker and stall sees everything a longer one
would. Three nested locations are the least that inherit through one that says nothing,
and two configurations the least where the second finds what the first left. The directives are
put together in groups that interact (access and realm, payee, the switches and numbers, the wrong
ones), not all at once, because a merge looks at no field of another group. A price of
5 at 2 millisats to the sat is the least that rounding can get wrong, and three requests are one to be quoted,
one to pay and one to race them. One lapse of a marker is enough for the second admission. Three segments are
the zones of two draining cycles and of a new one, and two requests are enough to tell a block that was kept from one that was
zeroed and counted in again. Restarts
beyond the first meet the same states, but for a token in msat, whose proof two starts must leave alone.

Deadlock is checked except where the bounded system stops: `MCLease` when the bound on
churn is used up and every lease thread has given up, `MCPhase` when all requests have been
answered, `MCConfig` when the last configuration has been read and refused with nothing running.

### Disagreements

`MCGateReload` is expected to end in a violation (`findings`). The comment at `src/src/lib.rs:555` says
"The marker MUST outlive the macaroon"; the marker's lifetime is computed from the
setting in force when a credential is verified, the macaroon's from the one in force
when it was minted, and a reload may come between.

Three more properties are stated in the modules and run by no configuration, because the code does
not have them; adding them to `MCPhase.cfg` and `MCMaster.cfg` shows how: `EveryQuoteHonoured`,
`AskedCanBeReceived` and `FallsBackToOwnBlock`, the first three entries below.

The models show these places where the code does something else than a comment or a document says.
They are modelled as the code has them, the properties above except them by
name, and no run is kept for them:

* "Every path that ends in a 402 challenge needs them to quote the price" (`lib.rs:2118`). The 402 of
  an auto-detect request whose invoice is not paid yet quotes the static price and payee, since no L402 credential has
  Redis read, and a Cashu token for that amount is then held against the dynamic price.
* `docs/cashu.md:59`, `docs/config-env-vars.md:189` and `cashu.rs:480` say that the module refuses to start
  with a mnemonic that does not match. The error is logged (`lib.rs:2857`), nginx runs, and the 402
  still offers Cashu that nothing can receive (`cashu.rs:737`).
* "If the shared zone is unavailable — registration or slab allocation failed — the active block falls back to a process-local static,
  degrading to the old per-worker counts rather than crashing" (`metrics.rs:13-15`). `FallsBackToOwnBlock` says so of each worker whose
  cycle lacks the zone. It is true until a master has had the zone once: the pointer is only ever set (`metrics.rs:216`), so that a reload that
  cannot add the zone (`lib.rs:1323`), or one that added it and was refused by a later step, leaves the pointer naming memory that the
  workers forked next have not mapped (`CountUnmapped`). Nor may a failing `register_metrics_shm` just clear the pointer, since its
  cycle may be refused yet and the workers of the old one forked again: that is the mutant `NotAddedTakenBack` of `CountersSurvive`.
* The mint's input fee is deducted in standard mode after the quote: a token worth exactly what was quoted
  is refused where the mint charges one. `QuoteHonoured` is net of the fee.
* A malformed `REDIS_URL` is logged, against "a typo is a startup error" (`lib.rs:834`).
* `metrics_shm_init` answers a missing slab pool, block or memory with `NGX_ERROR` (`lib.rs:1352`, `1361`, `1378`), which makes nginx
  refuse the cycle, against "metrics will be per-worker" in the lines it logs and "failure is non-fatal" where the zone is
  added (`lib.rs:1268`).
* `CASHU_WHITELISTED_MINTS` set to commas alone is an error that is logged, after which every mint is accepted. An
  error in the set-up of P2PK mode, too, is logged and leaves standard mode.
* `l402`, `l402_amount_msat_default`, `l402_macaroon_timeout` and `l402_auto_detect_payment` log a word they do not know
  and leave the setting as it was; every other directive refuses it.
* A mapping that cannot be written for swapped proofs is only warned about, and the proofs
  become spendable all the same (`cashu.rs:1634`), against "each is mapped before it becomes
  spendable" (`cashu.rs:1552`): they are melted to `LNURL_ADDRESS`. `PaidAsNamed` assumes no such fault.
* "A mapping for proofs that then fail to store is harmless" (`cashu.rs:1978`). In P2PK mode
  it stays; presented again at another tenant's location while Redis fails, the token is stored
  under the mapping left behind. `NeverAnotherTenant` excepts this.
* `docs/config-multi-tenant.md:17` says that without `REDIS_URL` everything is redeemed to
  `LNURL_ADDRESS`. In standard mode `receive_for_tenant` returns the error of the mapping
  (`cashu.rs:1585`) and no token is received; `MapIn` has both outcomes.
* `docs/config-multi-tenant.md:20` says that the mapping of a swapped proof is removed by a later pass.
  A spent token presented again is mapped again, and its failed swap leaves the input Pending
  (`cashu.rs:1617`), which no sweep visits. `SpentMappingsSwept` speaks of P2PK mode.
* A worker whose redemption thread or runtime cannot be started keeps the leaked lease
  (`lib.rs:3143`), so nobody redeems while it lives (`StartFails`); `SomeoneRedeems`
  assumes that starts succeed.
* `docs/dry-run.md:164` describes `l402_challenges_issued_total` as requests that received a 402;
  it is incremented before the invoice is made (`lib.rs:2299`), which may fail with 500.
  `docs/dry-run.md:170` describes `l402_payments_missing_total` as requests without a
  credential; it counts every 402 (`lib.rs:2243`). `EveryRequestHasOneOutcome` and
  `CountersMatchAnswers` state what the counters do count.
* A dry-run challenge is built without the `catch_unwind` of the enforce path
  (`lib.rs:3374`), so a panic takes the request with its worker (`ShadowChallengePanics`),
  against "always passes the request through" (`docs/dry-run.md:6`).
* A fingerprint that cannot be written is only warned about (`cashu.rs:507`), and the next
  start takes its absence for a first run; one that is torn by a crash makes every later start
  refuse the right phrase (`cashu.rs:600`).
* A saturated quote is accepted for a saturated balance (`cashu.rs:2588`), against "`u64::MAX`
  fails that comparison" (`fee.rs:19-21`); `MeltIsCovered` leaves that value out.
* Tokens in msat are verified and stored (`cashu.rs:1407`) under a wallet that neither
  redemption (`cashu.rs:2074`) nor the restore at start-up opens, so they are never melted.
* After a refused reload a worker that is forked again inherits registry entries that point
  into the destroyed pool (`lib.rs:1241`), against "remains valid until the next reload"
  (`lib.rs:84-90`); `tainted` excepts it.
* `l402_macaroon_timeout 0` inside a location with a timeout inherits that one (`lib.rs:1676`),
  against "0 = no expiry" (`docs/config-env-vars.md:291`); `NearestWins` says so.

### Fairness

Weak fairness is assumed only of what the code runs by itself: the steps of a handler once a
request is in it (nginx's event loop), the redemption and lease threads, and, in the rate
limit, time. Strong fairness says that an outside party does not fail every time it is
asked (a mint, the database), and, where a property speaks of a client, that the client tries
again: `PresentClassic`, `Present`, `CheckKey`, `CheckState`, `Store`, `Melt`, the payment of a melt
and `SweepBut({})`. In `TenantFunds` nothing is asked of requests: only the redemption thread
runs. `Melt(a)` is enabled only for a group that reaches the minimum and exceeds the reserve, so that its strong
fairness is about others than this module: an address that is due a melt again and again now and then gives an invoice, and the
mint a quote within the plan; the groups that the code skips by its own rule are skipped for ever. The mint does not lose
every answer, and now and then one pass of the sweep can read every saga and delete every batch. That Redis stays up from some point on is a
hypothesis of the properties (`<>[]`) and not an assumption of the specification. Nothing is
assumed of crashes, reloads and faults; worker restarts and the lease's churn are bounded, so
that there are finitely many of them in a behaviour. `Acquire` is fair as a whole, not for every worker: `flock` promises
the lock to somebody.

## The proofs

TLAPS checks these for every value of the constants that the named assumptions allow. Each
inductive invariant holds, by TLC, on the instance of its component's run.

* `ReplayCacheProofs`: `AgreementHolds`, `RetentionHolds`. Forgetting is safe only because
  the keys behind one in the queue are among those claimed after it (`Tracked`); at an
  eviction there are capacity minus one of them, distinct, and the key being claimed
  is one more. `ReplayCacheLemmas` has what the operations do to set and queue, and is
  used by this module and by the proofs of both gates.
* `PreimageGateProofs`: `TypeCorrect`, `RefusedOnlyIfUsedHolds` and `OncePerWorkerLifeHolds` under
  any settings; `AtMostOnceHolds`, `MarkerOutlivesMacaroonHolds` and `GateImplementsAdmitOnce` under
  `Covered`. `AtMostOnce` is not inductive: it needs that an admitted payment has a marker
  that stays until its macaroon has expired and the longest stall is over
  (`AdmittedIsMarked`), that a request about to claim saw its macaroon alive no longer ago
  than that (`ClaimIsFresh`), and that where macaroons have no lifetime no worker sets a
  marker that has one (`OneKind`). From these a request whose claim finds no live marker belongs to
  a payment never admitted, which is the guard of `AdmitOnce!Admit`; every other step
  stutters. Without Redis an admission is still in the cache of the worker that made it or is
  paid for by a restart: admissions never exceed the workers that hold the payment plus the
  restarts (`AdmissionsAreHeld`), since a cache with room for every payment evicts none.
* `CashuGateProofs`: all five safety properties of the gate, in both modes, for any tokens that share any
  proofs and any locks. Standard mode rests on the mint: the request that swapped
  a set is the only one that ever will, and no token that was claimed and no set that was admitted shares a proof
  with it (`SwapIsSole`, `AdmittedIsSwapped`). P2PK mode rests on the marker, and the marker lapses, so the
  invariant counts (`Covered`): the admissions of a set and the requests that are storing it never
  outnumber its lapses and its marker. That alone is lost when a marker lapses after the
  proofs were redeemed; then the mint has spent them and no check lets another request claim
  them (`Retired`). `StoredIsAdmitted` and `ClaimIsUnspent` say that what enters the wallet was not there before,
  and is what the mint was asked about.
* `TenantFundsProofs`: `NeverAnotherTenantHolds`, `PaidAsNamedHolds` and
  `NothingLostNothingRevivedHolds`. The first two are in three layers, each
  an invariant that rests on those before it. `Held`: what the wallet's states say of the mint's, and
  that a swap has one request. `Named`: what a request, or a claim without a request, may still name.
  `Pointed`: every mapping names an owner of its proof, or is the leftover of a P2PK request
  that could not store it; every planned group and every payment follows a mapping; and in calm, what
  the mint holds as unspent and the wallet has is mapped to an owner but for the one step between a
  swap or a melt and its mapping (`Passing`). The two properties differ only in `Extra`, whether the
  default address is among those a mapping may name, so that one proof carries both. `NothingLostNothingRevivedHolds` rests on `Held`:
  the batch of a sweep is spent and meets no saga from the look at them to the deletion, although other operations end in between
  (`SweepEffect`, `SagaStep`), and a start changes each proof as the mint says, whatever part of them it reaches (`RestartEffect`).
* `AccessProofs`, the rate limit: `KeysExpire`, `BurstBoundedHolds`, `RefusedOnlyWhenSpentHolds`. A key's
  age splits the checks of the last window into those that are `Young`, which this key counted, and those that are
  `Old`, which are at most one key's before it; `BucketInv` bounds each part by what a key lets through. That the
  second part needs no more than one `Limit` is the step that creates a key: until then nothing
  passed uncounted. The sums are cardinalities (`Tally`), for which splitting a window and adding a check
  are lemmas about finite sets.
* `AccessProofs`, the access phase: `EveryRequestHasOneOutcomeHolds`, `CountersMatchAnswersHolds`,
  `ForwardedByRightHolds`, `QuoteHonouredHolds`. The counters are kept as in double entry: a step of a worker ticks at
  most one counter, moves one request and sends at most one answer (`Does`), and is `Balanced` if every equation
  gains the same on both sides; the eight equations then follow from one lemma (`BooksKept`) and from a request keeping to
  the places of its mode (`Placed`). `Quoted` says of the last quote and of every request that, as long as the version
  of the price in Redis is the one they read, they know that price, and that the sats quoted are worth it
  (`QuoteCoversPrice`, the rounding up).
* `RedemptionProofs`, the plan: `MeltIsCoveredHolds`, `ParamsAreThisMintsHolds`, `FairQuoteAcceptedHolds`. The comparison is
  exact below saturation: `RequiredIsExact` shows that no saturated term can hide in a sum below `MAX`. The
  last one has a hypothesis, `WholeSats`: the balance of a group is a number of whole sats or saturated, as it is unless the
  sum of a group wraps around `u64`. It holds of the run's groups, and rounding up does not fit the reserve without it.
* `RedemptionProofs`, the lease: `OneRedeemerHolds`, `RedeemerHoldsLockHolds`. A redeeming worker
  holds the lock, and a slot without a process has no lease thread, so that a free lock
  means nobody redeems.
* `MasterProofs`, the start: `OneWalletHolds`, `SavedIsFoundHolds`, `StartImplementsWallet`, `OneWalletAcrossStarts`,
  `SavedIsFoundAcrossStarts`, `InheritanceHolds`, `LockAskedIsLockCheckedHolds`. Unless a fingerprint
  could not be written, the recorded
  fingerprint stands between a start and the proofs: every owner is the recorded
  wallet, a process past the check is the recorded wallet, and while the fingerprint is being
  written there are no proofs. A phrase is not called saved before it is written, and what a running process resolved
  from does not change under it (`SavedInv`). Each step of a start is a step of `WalletIdentity` or a stutter, which
  carries both theorems over to masters that reload, fork and fail. `InheritanceHolds` and
  `LockAskedIsLockCheckedHolds` rest on `StaticsInv`: which
  statics are set at each stage, and that a start past the P2PK stage has set all or none of its four.
* `MasterProofs`, the counters: `CountersSurviveHolds`, of `ZoneSpec`. `ZoneInv` adds to the property that the master's pointer names
  the zone of its cycle if that has one, though it may name any segment otherwise; that a segment in use has the layout of the build
  that runs; and that a block that is there agrees with its `tally`, whoever uses it. A launch, an accepted or refused reload and a fork each
  keep these only because a block of this layout is taken over as it is, and a zone that cannot be added leaves the pointer alone.
* `MasterProofs`, the configuration: `NearestWinsHolds`, `PaysWhereNamedHolds`, `RefusedIffBadHolds`,
  `ManifestMatchesHolds`, for any depth, files and number of configurations. No property speaks of a location that is
  only half read; `ReadAsSaid` does: at every line a `ModuleConfig` is what the lines so far say, the last
  accepted word of each field, and none of them was one that its directive refuses. So the induction over a text is that of the
  invariant, a line at a time, and the one over the depth is that of merging (`LocationMerged`): a merge fails exactly
  if the location is `Bad` and otherwise leaves what the nearest location around it says. That every outer location was accepted is what
  makes an inherited reference resolve. `Registered` ties the registry to the lines that list a location, whatever the location
  says later, and what is listed but off is left out of the documents by the merged value.

`RedemptionProofs` and `AccessProofs` each extend two components, `MasterProofs` three, which is why the specifications of
`MeltPlan`, `RedemptionLease`, `InvoiceRateLimit`, `ServiceStart`, `MetricsZone` and `ConfigCycle` have names of their own (`PlanSpec`, `LeaseSpec`,
`LimitSpec`, `StartSpec`, `ZoneSpec`, `ConfigSpec`).

The assumptions on constants (`CapsAssumption`, `GateAssumption`, `CashuAssumption`, `FundsAssumption`, `PhaseAssumption`,
`LimitAssumption`, `PlanAssumption`, `LeaseAssumption`, `PhrasesAreNotMarks`, `StartAssumption`, `ZoneAssumption`, `CycleAssumption`) are evaluated by
TLC in the runs of their modules. They say what kind of thing a constant is; that workers, payments,
buckets and proofs are finitely many is among them where something is counted.

Only model-checked: liveness, which is out of reach of the prover, as is `ENABLED`, with the fairness that goes
with it (`PresentedEventuallyAdmitted`, `PaidEventuallyAdmitted`, `HeldIsRedeemed`, `SpentMappingsSwept`, `SomeoneRedeems`,
`RefusalEnds` as stated); and what `MeltPlan`'s `Total` computes, a
fold over the proofs of a group. What a fold yields for every sequence needs induction over data.
Every safety property of every passing run is a theorem.

## Plan

In order of importance:

1. For `TenantFunds` an abstract ledger (what is received
   for an address is paid to it) that it implements; `RedemptionLease` composed with it, so
   that the lease and not an assumption keeps the thread alone.
2. `CashuGate` as an implementation of a promise for proofs like `AdmitOnce` for payments, with lapses.
