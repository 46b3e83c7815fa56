------------------------------ MODULE MCMaster ------------------------------
(* A master for TLC: its start (ServiceStart) and the zone its workers count *)
(* in (MetricsZone).  The two share no variable and no property, so that     *)
(* each is explored with the other at rest, and not in every combination.    *)
EXTENDS ServiceStart, MetricsZone, TLC

CONSTANTS w1, w2, w3, p1, p2, s1, s2, s3, m1, m2

(* Three phrases are a first wallet, a second one, and one more to generate  *)
(* when both are known.                                                      *)
MCPhrases == {w1, w2, w3}
Slots     == {p1, p2}

(* Without Cashu nothing else of it is read; the backend is bad on its own.  *)
MCEnvironments ==
  {e \in SUBSET Options :
     /\ {"cashu", "backend"} \subseteq e \/ e \cap {"mints", "p2pk", "key"} = {}
     /\ "key" \in e => "p2pk" \in e}

(* As many segments as two draining cycles and a new one may hold, and two   *)
(* builds of different layouts.                                              *)
Segments == {s1, s2, s3}
Layouts  == {m1, m2}

MasterInit == StartInit /\ ZoneInit

MasterNext ==
  \/ StartNext /\ ZoneInit /\ UNCHANGED zoneVars
  \/ ZoneNext /\ StartInit /\ UNCHANGED startVars

MasterSpec == MasterInit /\ [][MasterNext]_<<startVars, zoneVars>>

Symmetric ==
  Permutations(MCPhrases) \cup Permutations(Slots)
    \cup Permutations(Segments) \cup Permutations(Layouts)
=============================================================================
