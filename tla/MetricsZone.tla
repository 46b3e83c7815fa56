---------------------------- MODULE MetricsZone ----------------------------
(***************************************************************************)
(* Where the workers of one nginx master count (src/src/metrics.rs, and    *)
(* register_metrics_shm and metrics_shm_init of src/src/lib.rs).  ACTIVE,  *)
(* one pointer of the master, names the block in force; a worker inherits  *)
(* it as it is when the worker is forked, and with it the memory mapped in *)
(* the master at that moment.                                              *)
(*                                                                         *)
(* The rest is nginx's (external): each cycle asks for the zone anew; a    *)
(* cycle that has it is given the segment of the cycle before, if that had *)
(* one, or a fresh one, or on a system that names its segments that of an  *)
(* earlier process image.  Any step of the new cycle after the zone's may  *)
(* fail, which refuses the cycle and releases only what was fresh.  A new  *)
(* cycle without the zone unmaps it in the master; the workers of the old  *)
(* one keep their own mapping until they have drained.                     *)
(***************************************************************************)
EXTENDS Naturals

CONSTANTS
  Process,     \* worker slots
  Segment,     \* shared memory segments
  Layout,      \* MAGIC of the builds nginx may run
  NoSegment, NoLayout,
  MaxTally     \* bound: requests counted in a segment

ASSUME ZoneAssumption ==
  /\ NoSegment \notin Segment /\ NoLayout \notin Layout
  /\ MaxTally \in Nat

VARIABLES
  image,    \* MAGIC of the build that runs, NoLayout if the master is down
  zone,     \* the segment of the cycle that runs, if it has the zone
  active,   \* ACTIVE of the master
  block,    \* block[s]: the MetricsBlock of a segment; its counters are one
  counting, \* counting[w]: a worker, the segment of its cycle and its ACTIVE
  tally     \* history: tally[s]: requests counted by workers whose cycle had s

zoneVars == <<image, zone, active, block, counting, tally>>

NoBlock    == [magic |-> NoLayout, count |-> 0]
Gone       == [up |-> FALSE, zone |-> NoSegment, active |-> NoSegment]
Counting   == {w \in Process : counting[w].up}

\* No process maps the segment, so that its memory may be given out anew.
Free(s) == s # zone /\ \A w \in Counting : counting[w].zone # s

ZoneInit ==
  /\ image = NoLayout /\ zone = NoSegment /\ active = NoSegment
  /\ block = [s \in Segment |-> NoBlock]
  /\ counting = [w \in Process |-> Gone]
  /\ tally = [s \in Segment |-> 0]

-----------------------------------------------------------------------------
(* What a cycle of a build m does about the zone *)

(* init_in_place, and install_shared.                                        *)
InitInPlace(s, m) ==
  /\ block' = [block EXCEPT ![s] = [magic |-> m, count |-> 0]]
  /\ active' = s

(* Slip: a block that is handed over is initialised as a fresh one is.       *)
TakeOverAnew(s, m) == InitInPlace(s, m)

(* A block that is there already is initialised only if another layout wrote *)
(* it.                                                                       *)
TakeOver(s, m) ==
  IF block[s].magic = m
  THEN active' = s /\ UNCHANGED block
  ELSE InitInPlace(s, m)

(* Slip: a zone that cannot be added takes ACTIVE back at once, whatever     *)
(* becomes of the cycle.                                                     *)
NotAddedTakenBack == active' = NoSegment /\ UNCHANGED block

(* ngx_shared_memory_add refuses, because another module declares the name   *)
(* or memory is short: logged, and ACTIVE stays what it was.                 *)
NotAdded == UNCHANGED <<active, block>>

(* The history of a segment begins with its memory, or with its layout.      *)
TallyFrom(s, n) == tally' = [tally EXCEPT ![s] = n]

(* A new master.  A segment found without a block, no memory in the slab, or *)
(* any other failure, and it does not start.                                 *)
LaunchZone ==
  /\ image = NoLayout /\ image' \in Layout
  /\ \/ NotAdded /\ zone' = NoSegment /\ UNCHANGED tally
     \/ \E s \in Segment :
           /\ block[s] # NoBlock
           /\ TakeOver(s, image') /\ zone' = s
           /\ TallyFrom(s, IF block[s].magic = image' THEN tally[s] ELSE 0)
     \/ \E s \in Segment : InitInPlace(s, image') /\ TallyFrom(s, 0) /\ zone' = s
  /\ UNCHANGED counting

(* A reload whose cycle before had the zone: nginx hands its data over, and  *)
(* the segment stays, whether the cycle is then accepted or refused.         *)
ReloadKeepsZone ==
  /\ image # NoLayout /\ zone # NoSegment
  /\ TakeOver(zone, image)
  /\ UNCHANGED <<image, zone, counting, tally>>

(* A reload that adds the zone to a master without it; if the cycle is       *)
(* refused, the segment is released, and ACTIVE names it still.              *)
ReloadAddsZone ==
  /\ image # NoLayout /\ zone = NoSegment
  /\ \E s \in Segment :
        /\ Free(s)
        /\ InitInPlace(s, image) /\ TallyFrom(s, 0)
        /\ zone' \in {s, NoSegment}
  /\ UNCHANGED <<image, counting>>

(* A reload that cannot add the zone: accepted, the cycle has none.          *)
ReloadDropsZone ==
  /\ image # NoLayout
  /\ NotAdded
  /\ zone' \in {zone, NoSegment}
  /\ UNCHANGED <<image, counting, tally>>

-----------------------------------------------------------------------------
(* The workers: forked for a new cycle or in the place of one that died, by  *)
(* a master whose init_module did not refuse the start.                      *)
ForkCounting(w) ==
  /\ image # NoLayout /\ w \notin Counting
  /\ counting' = [counting EXCEPT ![w] = [up |-> TRUE, zone |-> zone, active |-> active]]
  /\ UNCHANGED <<image, zone, active, block, tally>>

EndCounting(w) ==
  /\ w \in Counting
  /\ counting' = [counting EXCEPT ![w] = Gone]
  /\ UNCHANGED <<image, zone, active, block, tally>>

(* inc and add, of a worker whose cycle has the zone: where its ACTIVE       *)
(* points, or in LOCAL_BLOCK, which is its own, if it points nowhere.        *)
CountRequest(w) ==
  /\ w \in Counting
  /\ LET s == counting[w].zone
     IN  /\ s # NoSegment /\ counting[w].active \in {s, NoSegment}
         /\ tally[s] < MaxTally
         /\ tally' = [tally EXCEPT ![s] = @ + 1]
         /\ block' = IF counting[w].active = s THEN [block EXCEPT ![s].count = @ + 1] ELSE block
  /\ UNCHANGED <<image, zone, active, counting>>

(* The same where ACTIVE names memory the worker has not mapped, which is    *)
(* undefined: the worker dies, or writes into what is mapped there since     *)
(* and no scrape shows it.                                                   *)
CountUnmapped(w) ==
  /\ w \in Counting
  /\ counting[w].active \notin {counting[w].zone, NoSegment}
  /\ counting' \in {counting, [counting EXCEPT ![w] = Gone]}
  /\ UNCHANGED <<image, zone, active, block, tally>>

(* The master stops, and leaves its successor the segment of its last cycle. *)
EndImage ==
  /\ image # NoLayout
  /\ image' = NoLayout /\ zone' = NoSegment /\ active' = NoSegment
  /\ block' = [s \in Segment |-> IF s = zone THEN block[s] ELSE NoBlock]
  /\ counting' = [w \in Process |-> Gone]
  /\ UNCHANGED tally

ZoneNext ==
  \/ LaunchZone \/ ReloadKeepsZone \/ ReloadAddsZone \/ ReloadDropsZone \/ EndImage
  \/ \E w \in Process : ForkCounting(w) \/ EndCounting(w) \/ CountRequest(w) \/ CountUnmapped(w)

ZoneSpec == ZoneInit /\ [][ZoneNext]_zoneVars

-----------------------------------------------------------------------------
(* "So counters survive nginx -s reload", and "every worker increments the   *)
(* same physical atomics": each worker whose cycle has the zone counts in    *)
(* its block, and the block has every request that such workers counted,     *)
(* across reloads taken and refused, crashes, and builds of one layout.      *)
CountersSurvive ==
  \A w \in Counting :
    counting[w].zone # NoSegment =>
      LET s == counting[w].zone
      IN  counting[w].active = s /\ block[s] = [magic |-> image, count |-> tally[s]]

(* Not what the code does (see README, Disagreements).  "If the shared zone  *)
(* is unavailable the active block falls back to a process-local static,     *)
(* degrading to the old per-worker counts rather than crashing": a worker    *)
(* whose cycle lacks the zone counts in a block of its own.                  *)
FallsBackToOwnBlock ==
  \A w \in Counting : counting[w].zone = NoSegment => counting[w].active = NoSegment
=============================================================================
