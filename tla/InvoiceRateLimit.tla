-------------------------- MODULE InvoiceRateLimit --------------------------
(* l402_invoice_rate_limit: check_invoice_rate_limit (src/src/lib.rs), a     *)
(* fixed-window counter in Redis, one key per (client, path) bucket.  Every  *)
(* worker asks it before a challenge is built, in shadow mode too.  The      *)
(* INCR and the EXPIRE are one Lua script, so a check is one step; a script  *)
(* whose reply is lost has counted all the same, and without an answer the   *)
(* check fails open.                                                         *)
EXTENDS Integers, FiniteSets

CONSTANTS
  Bucket,       \* the (client, path) pairs
  Limit,        \* max_requests of the directive
  Window,       \* window_secs, in ticks
  MaxLost       \* bound: script replies lost in a run

ASSUME LimitAssumption ==
  /\ IsFiniteSet(Bucket)
  /\ Limit \in Nat \ {0}
  /\ Window \in Nat \ {0}
  /\ MaxLost \in Nat

VARIABLES
  count,        \* count[b]: the key's value, 0 without a key; saturates (below)
  ttl,          \* ttl[b]: ticks left to the key; 0 for a key that stays for ever
  granted,      \* granted[b][a]: checks answered yes, a ticks ago
  open,         \* open[b][a]: checks whose reply was lost, a ticks ago
  redisUp,
  repliesLost   \* replies lost so far

limitVars == <<count, ttl, granted, open, redisUp, repliesLost>>

Age == 0..Window - 1
NoneYet == [a \in Age |-> 0]
Older(ages) == [a \in Age |-> IF a = 0 THEN 0 ELSE ages[a - 1]]

(* How many checks a window's record has at the ages of A. *)
Tally(ages, A) == Cardinality(UNION {{a} \X (1..ages[a]) : a \in A})
Total(ages) == Tally(ages, Age)

LimitInit ==
  /\ count = [b \in Bucket |-> 0]
  /\ ttl = [b \in Bucket |-> 0]
  /\ granted = [b \in Bucket |-> NoneYet]
  /\ open = [b \in Bucket |-> NoneYet]
  /\ redisUp = TRUE
  /\ repliesLost = 0

-----------------------------------------------------------------------------
(* Only whether the count exceeds Limit matters: Limit + 1 stands for every  *)
(* larger value.                                                             *)
Incremented(b) == IF count[b] > Limit THEN count[b] ELSE count[b] + 1

(* The slip of INCR and EXPIRE as two calls, the worker lost in between. *)
IncrThenExpire(b) ==
  /\ redisUp
  /\ count' = [count EXCEPT ![b] = Incremented(b)]
  /\ \E expires \in BOOLEAN :
       ttl' = IF count[b] = 0 /\ expires THEN [ttl EXCEPT ![b] = Window] ELSE ttl

(* The slip of EXPIRE on every hit. *)
IncrRefreshing(b) ==
  /\ redisUp
  /\ count' = [count EXCEPT ![b] = Incremented(b)]
  /\ ttl' = [ttl EXCEPT ![b] = Window]

(* The Lua script: INCR, and EXPIRE when it created the key. *)
Incr(b) ==
  /\ redisUp
  /\ count' = [count EXCEPT ![b] = Incremented(b)]
  /\ ttl' = IF count[b] = 0 THEN [ttl EXCEPT ![b] = Window] ELSE ttl

(* The slip of comparing the count before this request. *)
AllowedBefore(b) == count[b] <= Limit

(* count <= max_requests, with the count the script returned. *)
Allowed(b) == Incremented(b) <= Limit

Check(b) ==
  /\ Incr(b)
  /\ granted' = IF Allowed(b) THEN [granted EXCEPT ![b][0] = @ + 1] ELSE granted
  /\ UNCHANGED <<open, redisUp, repliesLost>>

CheckReplyLost(b) ==
  /\ repliesLost < MaxLost
  /\ Incr(b)
  /\ repliesLost' = repliesLost + 1
  /\ open' = [open EXCEPT ![b][0] = @ + 1]
  /\ UNCHANGED <<granted, redisUp>>

(* Seconds pass: Redis deletes the keys whose time is up. *)
Tick ==
  /\ count' = [b \in Bucket |-> IF ttl[b] = 1 THEN 0 ELSE count[b]]
  /\ ttl' = [b \in Bucket |-> IF ttl[b] > 0 THEN ttl[b] - 1 ELSE 0]
  /\ granted' = [b \in Bucket |-> Older(granted[b])]
  /\ open' = [b \in Bucket |-> Older(open[b])]
  /\ UNCHANGED <<redisUp, repliesLost>>

(* While Redis does not answer, every check passes and counts nothing.       *)
RedisFails ==
  /\ redisUp
  /\ redisUp' = FALSE
  /\ UNCHANGED <<count, ttl, granted, open, repliesLost>>

RedisRecovers ==
  /\ ~redisUp
  /\ redisUp' = TRUE
  /\ UNCHANGED <<count, ttl, granted, open, repliesLost>>

LimitNext ==
  \/ \E b \in Bucket : Check(b) \/ CheckReplyLost(b)
  \/ Tick \/ RedisFails \/ RedisRecovers

LimitSpec == LimitInit /\ [][LimitNext]_limitVars

(* Time passes; nobody is obliged to send requests, or to stop. *)
FairLimitSpec == LimitSpec /\ WF_limitVars(Tick)

-----------------------------------------------------------------------------
(* The types, and that a key always has a time to live: one without would    *)
(* refuse its client for ever.                                               *)
TypeOK ==
  /\ count \in [Bucket -> 0..Limit + 1]
  /\ ttl \in [Bucket -> 0..Window]
  /\ granted \in [Bucket -> [Age -> Nat]] /\ open \in [Bucket -> [Age -> Nat]]
  /\ redisUp \in BOOLEAN
  /\ repliesLost \in 0..MaxLost
  /\ \A b \in Bucket : count[b] = 0 <=> ttl[b] = 0

(* What a fixed window promises: over any Window ticks, wherever they start, *)
(* at most twice the limit is granted to a bucket.                           *)
BurstBounded == \A b \in Bucket : Total(granted[b]) <= 2 * Limit

(* A bucket is refused only after Limit requests of its own passed within    *)
(* the last Window ticks: no other bucket, no older window and no refused    *)
(* request counts against it.                                                *)
RefusedOnlyWhenSpent ==
  \A b \in Bucket :
     redisUp /\ ~Allowed(b) => Total(granted[b]) + Total(open[b]) >= Limit

(* A refused client is served again, even if it never stops asking.          *)
RefusalEnds == \A b \in Bucket : []<>Allowed(b)
=============================================================================
