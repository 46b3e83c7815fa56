---------------------------- MODULE ReplayCache ----------------------------
(***************************************************************************)
(* One worker's replay cache over its life: claims and releases in any     *)
(* order.  `spent' and `later' are history variables.  They state the      *)
(* bound an operator accepts by running without Redis: a credential can be *)
(* replayed only after `cap' distinct others have been seen.               *)
(***************************************************************************)
EXTENDS ReplayCacheOps

CONSTANTS Key,    \* hashed credentials
          Caps    \* the capacities a cache may be created with

ASSUME CapsAssumption == Caps \subseteq Nat

VARIABLES cache,    \* [seen, order, cap]
          spent,    \* keys claimed and not released since (history)
          later     \* later[k]: distinct keys claimed since k was (history)

vars == <<cache, spent, later>>

TypeOK ==
    /\ cache \in [seen : SUBSET Key, order : Seq(Key), cap : Nat \ {0}]
    /\ spent \in SUBSET Key
    /\ later \in [Key -> SUBSET Key]

Init ==
    /\ \E cap \in Caps : cache = WithCapacity(cap)
    /\ spent = {}
    /\ later = [k \in Key |-> {}]

\* A claim that answers TRUE: the caller admits the request.
ClaimFirst(k) ==
    /\ ~Holds(cache, k)
    /\ cache' = AfterClaim(cache, k)
    /\ spent' = spent \cup {k}
    /\ later' = [j \in Key |-> IF j = k THEN {} ELSE later[j] \cup {k}]

\* A claim that answers FALSE: the caller rejects a replay.
ClaimAgain(k) ==
    /\ Holds(cache, k)
    /\ cache' = AfterClaim(cache, k)
    /\ UNCHANGED <<spent, later>>

\* The guarded work failed after the claim: the credential may be retried.
Release(k) ==
    /\ cache' = AfterRelease(cache, k)
    /\ spent' = spent \ {k}
    /\ UNCHANGED later

Next == \E k \in Key : ClaimFirst(k) \/ ClaimAgain(k) \/ Release(k)

Spec == Init /\ [][Next]_vars

----------------------------------------------------------------------------
\* The set and the deque hold the same keys, the deque no key twice and no more
\* than the capacity.  A release that forgot the deque would leave a stale
\* entry whose eviction later removes a live claim.
SetMatchesDeque ==
    /\ cache.seen = ToSet(cache.order)
    /\ IsInjective(cache.order)
    /\ Len(cache.order) <= cache.cap

\* A spent key that the cache has forgotten was followed by at least `cap'
\* distinct later claims: eviction is first-in first-out and never a flush,
\* and a release costs no other key its place.
ForgottenOnlyAfterCapOthers ==
    \A k \in spent \ cache.seen : Cardinality(later[k]) >= cache.cap

============================================================================
