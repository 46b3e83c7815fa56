-------------------------- MODULE ReplayCacheOps --------------------------
(***************************************************************************)
(* The bounded in-process replay cache of ngx_l402_core::ReplayCache.      *)
(*                                                                         *)
(* A cache is a record of the hash set `seen', the deque `order' and the   *)
(* capacity `cap'.  The set and the deque are kept apart because the code  *)
(* updates them separately: that they agree is a property (module          *)
(* ReplayCache), not a fact of the representation.                         *)
(***************************************************************************)
EXTENDS Integers, Sequences, SequencesExt

\* Slip: a zero capacity kept as it is.
WithCapacityAsGiven(cap) == [seen |-> {}, order |-> <<>>, cap |-> cap]

\* with_capacity: a capacity of 0 is raised to 1.
WithCapacity(cap) ==
    [seen |-> {}, order |-> <<>>, cap |-> IF cap = 0 THEN 1 ELSE cap]

\* contains: read-only.
Holds(c, k) == k \in c.seen

\* Slip: at capacity the whole cache is flushed.
FlushAtCapacity(c) ==
    IF Len(c.order) >= c.cap THEN [c EXCEPT !.seen = {}, !.order = <<>>] ELSE c

\* The eviction inside claim: at capacity the front of the deque leaves both.
EvictOldest(c) ==
    IF Len(c.order) >= c.cap /\ c.order # <<>>
    THEN [c EXCEPT !.seen = @ \ {Head(c.order)}, !.order = Tail(@)]
    ELSE c

\* What claim leaves behind.  It answers TRUE exactly when ~Holds(c, k).
AfterClaim(c, k) ==
    IF Holds(c, k)
    THEN c
    ELSE LET e == EvictOldest(c)
         IN  [e EXCEPT !.seen = @ \cup {k}, !.order = Append(@, k)]

\* Slip: release clears the set and forgets the deque.
ReleaseSetOnly(c, k) == [c EXCEPT !.seen = @ \ {k}]

\* release: the key leaves the set and, if the set held it, its first
\* position in the deque.
AfterRelease(c, k) ==
    IF Holds(c, k)
    THEN [c EXCEPT !.seen = @ \ {k}, !.order = RemoveFirst(@, k)]
    ELSE c

==========================================================================
