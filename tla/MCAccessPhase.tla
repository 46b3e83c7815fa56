---------------------------- MODULE MCAccessPhase ----------------------------
(* Small instances of AccessPhase.                                           *)
EXTENDS AccessPhase, TLC

Priced   == [on |-> TRUE, exempt |-> {}, price |-> 3, timeout |-> 0,
             mode |-> "enforce", auto |-> TRUE, limited |-> TRUE]
Shadowed == [Priced EXCEPT !.mode = "dryRun", !.exempt = {"HEAD"}]
Unpriced == [Priced EXCEPT !.price = 0]

AllLocations == {Priced, Shadowed, Unpriced}
Prices       == {0, 5}
AnyFault     == {"crash", "panic"}

Symmetry == Permutations(Worker)
=============================================================================
