----------------------------- MODULE MCMeltPlan -----------------------------
(* MeltPlan for TLC: u64 is 0..255 and a sat is 10 msat, so that a value of  *)
(* 26 sats saturates.  A group's total reaches 240 in small amounts, and is  *)
(* MAX for the proof of 26 sats.                                             *)
EXTENDS MeltPlan

CONSTANTS m1, m2

TwoMints == {m1, m2}

MCDefaults == [min |-> 20, ppk |-> 10, minFee |-> 10]

MCGroups == (BoundedSeq({1, 8}, 3) \ {<<>>}) \cup {<<26>>}

MCPublished == {0, 1, 3, 6, 13, 26}
=============================================================================
