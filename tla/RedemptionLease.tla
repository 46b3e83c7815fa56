--------------------------- MODULE RedemptionLease ---------------------------
(* Which worker melts the ecash to Lightning: the lease of                   *)
(* start_cashu_redemption_in_worker and the thread it starts                 *)
(* (src/src/lib.rs).  Every nginx worker, once forked, spawns a thread that  *)
(* opens "<db>.redeem.lock" and blocks in flock(LOCK_EX); the one that gets  *)
(* it leaks the file, so that the kernel keeps the lock until the process    *)
(* ends, and starts the redemption loop.  nginx reloads overlap two          *)
(* generations of workers, and a worker that crashes is forked again.        *)
(*                                                                           *)
(* The master is external: a reload forks the new workers first and drains   *)
(* the old ones, which keep their threads, the loop included, until they     *)
(* exit; a crashed worker is respawned, a drained one is not.                *)
EXTENDS Integers, FiniteSets

CONSTANTS
  Worker,     \* process slots: at most this many workers are alive at once
  Nobody,     \* the holder of a free lock
  Faults,     \* the fault sets to consider: what may fail of "open", "flock", "start"
  MaxChurn    \* bound: the reloads and crashes of a run

ASSUME LeaseAssumption ==
  /\ IsFiniteSet(Worker)
  /\ Nobody \notin Worker
  /\ Faults \subseteq SUBSET {"open", "flock", "start"}
  /\ MaxChurn \in Nat

VARIABLES
  process,    \* process[w]: "none", "serving" or "draining"
  lease,      \* lease[w]: where the lease thread of w is
  thread,     \* thread[w]: where the redemption thread of w is
  lock,       \* the worker whose open file holds the flock, or Nobody
  churn,      \* reloads and crashes so far
  failing     \* what may fail in this run, chosen once

leaseVars == <<process, lease, thread, lock, churn, failing>>

LeaseStates == {"none", "open", "flock", "blocked", "held", "gaveUp"}
ThreadStates == {"none", "start", "cycle", "sleep", "dead"}

Alive(w)     == process[w] # "none"
Redeeming(w) == thread[w] \in {"cycle", "sleep"}

(* init_process of the first generation. *)
LeaseInit ==
  /\ \E first \in (SUBSET Worker) \ {{}} :
        /\ process = [w \in Worker |-> IF w \in first THEN "serving" ELSE "none"]
        /\ lease   = [w \in Worker |-> IF w \in first THEN "open" ELSE "none"]
  /\ thread = [w \in Worker |-> "none"]
  /\ lock = Nobody
  /\ churn = 0
  /\ failing \in Faults

-----------------------------------------------------------------------------
(* The lease thread. *)

(* The file is opened with O_NOFOLLOW; a worker that cannot open it never    *)
(* redeems.                                                                  *)
OpenLease(w) ==
  /\ lease[w] = "open"
  /\ lease' = [lease EXCEPT ![w] = "flock"]
  /\ UNCHANGED <<process, thread, lock, churn, failing>>

OpenFails(w) ==
  /\ "open" \in failing
  /\ lease[w] = "open"
  /\ lease' = [lease EXCEPT ![w] = "gaveUp"]
  /\ UNCHANGED <<process, thread, lock, churn, failing>>

(* flock(LOCK_EX) on a lock somebody else holds parks the thread. *)
Block(w) ==
  /\ lease[w] = "flock"
  /\ lock # Nobody
  /\ lease' = [lease EXCEPT ![w] = "blocked"]
  /\ UNCHANGED <<process, thread, lock, churn, failing>>

(* The slip of taking LOCK_EX for a lock that many may hold. *)
AcquireShared(w) ==
  /\ lease[w] \in {"flock", "blocked"}
  /\ lease' = [lease EXCEPT ![w] = "held"]
  /\ lock' = w
  /\ UNCHANGED <<process, thread, churn, failing>>

(* flock returns 0: at once, or when the kernel wakes this waiter. *)
Acquire(w) ==
  /\ lease[w] \in {"flock", "blocked"}
  /\ lock = Nobody
  /\ lease' = [lease EXCEPT ![w] = "held"]
  /\ lock' = w
  /\ UNCHANGED <<process, thread, churn, failing>>

(* The slip of treating every error of flock as final. *)
InterruptedGivesUp(w) ==
  /\ lease[w] = "blocked"
  /\ lease' = [lease EXCEPT ![w] = "gaveUp"]
  /\ UNCHANGED <<process, thread, lock, churn, failing>>

(* A signal ends the wait with EINTR; the loop calls flock again. *)
Interrupted(w) ==
  /\ lease[w] = "blocked"
  /\ lease' = [lease EXCEPT ![w] = "flock"]
  /\ UNCHANGED <<process, thread, lock, churn, failing>>

FlockFails(w) ==
  /\ "flock" \in failing
  /\ lease[w] \in {"flock", "blocked"}
  /\ lease' = [lease EXCEPT ![w] = "gaveUp"]
  /\ UNCHANGED <<process, thread, lock, churn, failing>>

(* The slip of letting the file drop when the lease thread ends. *)
SpawnDroppingFile(w) ==
  /\ lease[w] = "held"
  /\ thread[w] = "none"
  /\ thread' = [thread EXCEPT ![w] = "start"]
  /\ lock' = Nobody
  /\ UNCHANGED <<process, lease, churn, failing>>

(* The file is leaked, so the lock outlives the lease thread, and the        *)
(* redemption thread is spawned.                                             *)
Spawn(w) ==
  /\ lease[w] = "held"
  /\ thread[w] = "none"
  /\ thread' = [thread EXCEPT ![w] = "start"]
  /\ UNCHANGED <<process, lease, lock, churn, failing>>

-----------------------------------------------------------------------------
(* The redemption thread. *)

StartRuntime(w) ==
  /\ thread[w] = "start"
  /\ thread' = [thread EXCEPT ![w] = "cycle"]
  /\ UNCHANGED <<process, lease, lock, churn, failing>>

(* The error of the spawn is dropped, and Runtime::new().expect panics       *)
(* outside every guard: the lock stays with a process that does not redeem.  *)
StartFails(w) ==
  /\ "start" \in failing
  /\ thread[w] = "start"
  /\ thread' = [thread EXCEPT ![w] = "dead"]
  /\ UNCHANGED <<process, lease, lock, churn, failing>>

(* redeem_to_lightning and the sweep; success, error and panic all lead to   *)
(* the sleep.                                                                *)
Cycle(w) ==
  /\ thread[w] = "cycle"
  /\ thread' = [thread EXCEPT ![w] = "sleep"]
  /\ UNCHANGED <<process, lease, lock, churn, failing>>

Wake(w) ==
  /\ thread[w] = "sleep"
  /\ thread' = [thread EXCEPT ![w] = "cycle"]
  /\ UNCHANGED <<process, lease, lock, churn, failing>>

-----------------------------------------------------------------------------
(* The processes, external to the module. *)

(* The end of a process: every thread goes, and the kernel closes the file. *)
Ends(w) ==
  /\ thread' = [thread EXCEPT ![w] = "none"]
  /\ lock' = IF lock = w THEN Nobody ELSE lock

Reload ==
  /\ churn < MaxChurn
  /\ churn' = churn + 1
  /\ \E new \in (SUBSET {w \in Worker : ~Alive(w)}) \ {{}} :
        /\ process' = [w \in Worker |->
                         IF w \in new THEN "serving"
                         ELSE IF Alive(w) THEN "draining" ELSE "none"]
        /\ lease' = [w \in Worker |-> IF w \in new THEN "open" ELSE lease[w]]
  /\ UNCHANGED <<thread, lock, failing>>

Exit(w) ==
  /\ process[w] = "draining"
  /\ process' = [process EXCEPT ![w] = "none"]
  /\ lease' = [lease EXCEPT ![w] = "none"]
  /\ Ends(w)
  /\ UNCHANGED <<churn, failing>>

Crash(w) ==
  /\ process[w] = "serving"
  /\ churn < MaxChurn
  /\ churn' = churn + 1
  /\ lease' = [lease EXCEPT ![w] = "open"]
  /\ Ends(w)
  /\ UNCHANGED <<process, failing>>

-----------------------------------------------------------------------------
LeaseStep(w) ==
  \/ OpenLease(w) \/ OpenFails(w) \/ Block(w) \/ Acquire(w)
  \/ Interrupted(w) \/ FlockFails(w) \/ Spawn(w)

ThreadStep(w) == StartRuntime(w) \/ StartFails(w) \/ Cycle(w) \/ Wake(w)

LeaseNext ==
  \/ Reload
  \/ \E w \in Worker : LeaseStep(w) \/ ThreadStep(w) \/ Exit(w) \/ Crash(w)

LeaseSpec == LeaseInit /\ [][LeaseNext]_leaseVars

(* Threads that can run do run, and the kernel gives a free lock to one of   *)
(* its waiters.  Nothing is assumed of the processes: a draining worker may  *)
(* take for ever to exit.                                                    *)
Fairness ==
  /\ \A w \in Worker : WF_leaseVars(OpenLease(w)) /\ WF_leaseVars(Spawn(w))
  /\ \A w \in Worker : WF_leaseVars(StartRuntime(w)) /\ WF_leaseVars(Cycle(w)) /\ WF_leaseVars(Wake(w))
  /\ WF_leaseVars(\E w \in Worker : Acquire(w))

FairLeaseSpec == LeaseSpec /\ Fairness

-----------------------------------------------------------------------------
(* The types, and that the lease thread and the kernel agree on who holds    *)
(* the lock.                                                                 *)
TypeOK ==
  /\ process \in [Worker -> {"none", "serving", "draining"}]
  /\ lease \in [Worker -> LeaseStates]
  /\ thread \in [Worker -> ThreadStates]
  /\ lock \in Worker \cup {Nobody}
  /\ churn \in 0..MaxChurn
  /\ failing \in Faults
  /\ \A w \in Worker : lease[w] = "held" <=> lock = w

(* "Exactly one worker should redeem": across reloads, crashes and signals,  *)
(* two workers never run the loop at once, so no two of them melt the same   *)
(* proofs.                                                                   *)
OneRedeemer == \A u, w \in Worker : Redeeming(u) /\ Redeeming(w) => u = w

(* The lock belongs to the process that redeems, until that process ends.    *)
RedeemerHoldsLock ==
  \A w \in Worker : thread[w] # "none" => Alive(w) /\ lock = w

(* As long as opening, locking and starting work, redemption never stops for *)
(* good: reloads, crashes, signals and panics leave a worker that redeems.   *)
SomeoneRedeems == failing = {} => []<>(\E w \in Worker : thread[w] = "cycle")
=============================================================================
