---------------------------- MODULE MasterProofs ----------------------------
(***************************************************************************)
(* What an nginx master makes of what the operator gave it: its wallet,    *)
(* its environment and its configuration.                                  *)
(*                                                                         *)
(* As long as persist_fingerprint does not fail, the database never holds  *)
(* two wallets' proofs between two deliberate switches, for any set of     *)
(* phrases.  OneWallet is not inductive: nothing in it says why the wallet *)
(* that is about to receive is the one that already has.  The              *)
(* strengthening is that the recorded fingerprint stands between them:     *)
(* every owner is the recorded wallet, and so is a process that is past    *)
(* check_wallet_fingerprint.                                               *)
(*                                                                         *)
(* The second part is about ServiceStart: a master that starts, reloads    *)
(* and fails implements WalletIdentity, so that OneWallet holds of it; and *)
(* what its workers inherit, of its statics and, by MetricsZone, of its    *)
(* counters.                                                               *)
(*                                                                         *)
(* The third is about ConfigCycle, for any depth, files and workers.  None *)
(* of its properties speaks of a file that is being read; the              *)
(* strengthening does: a location is at every moment what the lines read   *)
(* of it say (ReadAsSaid), and listed if one of them says so (Registered). *)
(***************************************************************************)
EXTENDS ServiceStart, MetricsZone, ConfigCycle, SequenceTheorems, TLAPS

\* Whoever is past the check is the recorded wallet.
CheckedIsRecorded == pc \in {"open", "serving"} => fingerprint = phrase

\* The proofs in the database are the recorded wallet's.
OwnersAreRecorded == owners \subseteq {fingerprint}

\* Between the two steps of persist_fingerprint there is nothing to own.
MarkedIsUnowned == pc = "mark" => owners = {}

IdentityInv ==
  /\ TypeOK
  /\ ~unmarked => CheckedIsRecorded /\ OwnersAreRecorded /\ MarkedIsUnowned

\* Type correctness, whether or not the fingerprint can fail to be written.
LEMMA TypeStep == TypeOK /\ [Next]_vars => TypeOK'
<1> SUFFICES ASSUME TypeOK, [Next]_vars PROVE TypeOK'
  OBVIOUS
<1> USE DEF TypeOK, Steps, Resolved, process, disk
<1>1. CASE Start
  BY <1>1 DEF Start
<1>2. CASE Resolve
  BY <1>2 DEF Resolve, RefuseEnv, UseEnv, RefuseFile, LoadPhrase, Generate, Refuse
<1>3. CASE SavePhrase
  BY <1>3 DEF SavePhrase, TruncatePhrase, WritePhrase, SavePhraseFails
<1>4. CASE CheckFingerprint
  BY <1>4 DEF CheckFingerprint, Match, Mismatch, FirstRun, WriteFingerprint, FingerprintFails, Refuse
<1>5. CASE OpenDatabase
  BY <1>5 DEF OpenDatabase
<1>6. CASE Receive
  BY <1>6 DEF Receive
<1>7. CASE Stop
  BY <1>7 DEF Stop
<1>8. CASE Operator
  BY <1>8 DEF Operator, SetEnv, LosePhrase, SwitchWallet
<1>9. CASE UNCHANGED vars
  BY <1>9 DEF vars
<1> QED
  BY <1>1, <1>2, <1>3, <1>4, <1>5, <1>6, <1>7, <1>8, <1>9 DEF Next

\* The initial states satisfy the invariant.
LEMMA IdentityInit == Init => IdentityInv
  BY DEF Init, IdentityInv, TypeOK, Steps, Resolved, CheckedIsRecorded, OwnersAreRecorded,
     MarkedIsUnowned

\* Every step preserves it.  Only two actions touch the fingerprint while a phrase is
\* resolved, and both start from an absent one, when OwnersAreRecorded leaves no owner.
LEMMA IdentityStep ==
  ASSUME IdentityInv, [Next]_vars
  PROVE  IdentityInv'
<1>1. TypeOK'
  BY TypeStep DEF IdentityInv
<1> USE DEF IdentityInv, TypeOK, CheckedIsRecorded, OwnersAreRecorded, MarkedIsUnowned, Resolved, process, disk
<1>2. (~unmarked => CheckedIsRecorded /\ OwnersAreRecorded /\ MarkedIsUnowned)'
  <2>1. CASE Start
    BY <2>1 DEF Start
  <2>2. CASE Resolve
    BY <2>2 DEF Resolve, RefuseEnv, UseEnv, RefuseFile, LoadPhrase, Generate, Refuse
  <2>3. CASE SavePhrase
    BY <2>3 DEF SavePhrase, TruncatePhrase, WritePhrase, SavePhraseFails
  <2>4. CASE Match \/ Mismatch
    BY <2>4 DEF Match, Mismatch, Refuse
  <2>5. CASE FirstRun
    <3>1. ~unmarked => owners = {}
      BY <2>5, PhrasesAreNotMarks DEF FirstRun
    <3> QED
      BY <2>5, <3>1 DEF FirstRun
  <2>6. CASE WriteFingerprint
    BY <2>6 DEF WriteFingerprint
  <2>7. CASE OpenDatabase
    BY <2>7 DEF OpenDatabase
  <2>8. CASE Receive
    BY <2>8 DEF Receive
  <2>9. CASE Stop
    BY <2>9 DEF Stop
  <2>10. CASE Operator
    BY <2>10 DEF Operator, SetEnv, LosePhrase, SwitchWallet
  <2>11. CASE UNCHANGED vars
    BY <2>11 DEF vars
  <2> QED
    BY <2>1, <2>2, <2>3, <2>4, <2>5, <2>6, <2>7, <2>8, <2>9, <2>10, <2>11
    DEF Next, CheckFingerprint, FingerprintFails
<1> QED
  BY <1>1, <1>2

\* The invariant holds of every behaviour: of the fingerprint it says something as long
\* as none failed to be written.
THEOREM IdentityInvariant == Spec => []IdentityInv
<1>1. Init => IdentityInv
  BY IdentityInit
<1>2. IdentityInv /\ [Next]_vars => IdentityInv'
  BY IdentityStep
<1> QED
  BY <1>1, <1>2, PTL DEF Spec

\* OneWallet: no start ever receives into a second wallet over the first one's funds,
\* whatever crashes, lost phrases and changed variables come between.
THEOREM OneWalletHolds == Spec => []OneWallet
<1>1. IdentityInv => OneWallet
  BY DEF IdentityInv, OwnersAreRecorded, OneWallet
<1> QED
  BY <1>1, IdentityInvariant, PTL

-----------------------------------------------------------------------------
\* Where the phrase of this process stands.  A phrase being written down was generated,
\* because there was none to find, and is not called saved before it is written.
UnsavedWhileWritten == pc \in {"save", "write"} => ~saved /\ env = Absent

\* From then on what is stored resolves to it, if it is called saved.
SavedIsStored == pc \in {"check", "mark", "open", "serving"} /\ saved => NextPhrase = phrase

SavedInv == UnsavedWhileWritten /\ SavedIsStored

\* Nothing that a running process resolves from changes under it: the file is written
\* only while the phrase is not called saved, and the operator acts while nginx is down.
LEMMA SavedStep ==
  ASSUME SavedInv, [Next]_vars
  PROVE  SavedInv'
<1> USE DEF SavedInv, UnsavedWhileWritten, SavedIsStored, NextPhrase, process, disk
<1>1. CASE Start \/ Stop
  BY <1>1 DEF Start, Stop
<1>2. CASE UseEnv \/ LoadPhrase
  BY <1>2, PhrasesAreNotMarks DEF UseEnv, LoadPhrase
<1>3. CASE RefuseEnv \/ RefuseFile \/ Mismatch
  BY <1>3 DEF RefuseEnv, RefuseFile, Mismatch, Refuse
<1>4. CASE Generate
  BY <1>4 DEF Generate
<1>5. CASE SavePhrase
  BY <1>5 DEF SavePhrase, TruncatePhrase, WritePhrase, SavePhraseFails
<1>6. CASE Match \/ FirstRun \/ WriteFingerprint \/ FingerprintFails
  BY <1>6 DEF Match, FirstRun, WriteFingerprint, FingerprintFails
<1>7. CASE OpenDatabase \/ Receive
  BY <1>7 DEF OpenDatabase, Receive
<1>8. CASE Operator
  BY <1>8 DEF Operator, SetEnv, LosePhrase, SwitchWallet
<1>9. CASE UNCHANGED vars
  BY <1>9 DEF vars
<1> QED
  BY <1>1, <1>2, <1>3, <1>4, <1>5, <1>6, <1>7, <1>8, <1>9 DEF Next, Resolve, CheckFingerprint

\* SavedIsFound: a process that serves and did not warn that its phrase is lost is one
\* the next start reproduces.
THEOREM SavedIsFoundHolds == Spec => []SavedIsFound
<1>1. Init => SavedInv
  BY DEF Init, SavedInv, UnsavedWhileWritten, SavedIsStored
<1>2. SavedInv => SavedIsFound
  BY DEF SavedInv, SavedIsStored, SavedIsFound
<1> QED
  BY <1>1, <1>2, SavedStep, PTL DEF Spec

-----------------------------------------------------------------------------
(* A master implements the wallet: its steps are steps of the wallet, or     *)
(* leave it alone.                                                           *)
THEOREM StartImplementsWallet == StartSpec => ImplementsWallet
<1>1. StartInit => Init
  BY DEF StartInit
<1>2. ASSUME [StartNext]_startVars PROVE [Next]_vars
  <2>1. CASE Launch
    BY <2>1 DEF Launch, wallet
  <2>2. CASE InitModule
    <3>1. CASE OpenWallet
      BY <3>1 DEF OpenWallet, Next
    <3>2. CASE InitModule /\ ~OpenWallet
      BY <3>2 DEF InitModule, ReadEnvironment, SkipCashu, LeaveCashu, ListMints, EnableP2pk,
                 NewModule, Recover, EnableRedemption, Stage, wallet
    <3> QED
      BY <2>2, <3>1, <3>2
  <2>4. CASE ReceiveToken
    BY <2>4 DEF ReceiveToken, Next
  <2>5. CASE Down
    BY <2>5 DEF Down, Next, wallet
  <2>6. CASE OperatorActs
    BY <2>6 DEF OperatorActs, Next
  <2>7. ASSUME NEW w \in Worker, Fork(w) \/ ExitWorker(w)
        PROVE [Next]_vars
    BY <2>7 DEF Fork, ExitWorker, wallet
  <2>8. CASE UNCHANGED startVars
    BY <2>8 DEF startVars
  <2> QED
    BY <1>2, <2>1, <2>2, <2>4, <2>5, <2>6, <2>7, <2>8 DEF StartNext
<1> QED
  BY <1>1, <1>2, PTL DEF StartSpec, ImplementsWallet, Spec

(* So no start of the service ever receives into a second wallet.            *)
THEOREM OneWalletAcrossStarts == StartSpec => []OneWallet
  BY StartImplementsWallet, OneWalletHolds, PTL DEF ImplementsWallet

(* And what it serves with is found by the start after it.                   *)
THEOREM SavedIsFoundAcrossStarts == StartSpec => []SavedIsFound
  BY StartImplementsWallet, SavedIsFoundHolds, PTL DEF ImplementsWallet

(* What is set by each stage of init_module, and what is never set.          *)
StaticsInv ==
  /\ statics \subseteq Captured \cup Enabled \cup {"database", "lnurl clients"}
  /\ boot \in Stages
  /\ boot \notin {"down", "begin"} => {"ttl", "snapshot"} \subseteq statics
  /\ boot \in {"recover", "redeem", "ready"} => "backend" \in statics
  /\ boot \in {"redeem", "ready"} => "payout" \in statics
  /\ pc = "serving" => "melt" \in statics
  /\ "public key" \in statics <=> "p2pk" \in statics
  /\ "p2pk" \in statics => {"whitelist", "private key", "dleq"} \subseteq statics
  /\ boot # "ready" => up = {}

(* The wallet serves in a step of init_module that opens it, and no other.   *)
LEMMA ServingIsOpened ==
  (Start \/ Resolve \/ SavePhrase \/ CheckFingerprint \/ Operator \/ Receive) /\ pc' = "serving"
    => pc = "serving"
  BY DEF Start, Resolve, RefuseEnv, UseEnv, RefuseFile, LoadPhrase, Generate, SavePhrase,
         TruncatePhrase, WritePhrase, SavePhraseFails, CheckFingerprint, Match, Mismatch,
         FirstRun, WriteFingerprint, FingerprintFails, Operator, SetEnv, LosePhrase,
         SwitchWallet, Receive, Refuse

\* Every step of master and workers keeps the statics in order.
LEMMA StaticsStep == StaticsInv /\ [StartNext]_startVars => StaticsInv'
<1> SUFFICES ASSUME StaticsInv, [StartNext]_startVars PROVE StaticsInv'
  OBVIOUS
<1> USE DEF StaticsInv
<1>1. CASE Launch
  BY <1>1 DEF Launch, wallet, vars, Stages
<1>2. CASE OpenWallet
  <2>1. PICK opened \in SUBSET {"database"} :
           \/ pc' = "serving" /\ statics' = statics \cup {"melt"} \cup opened
           \/ pc' # "serving" /\ UNCHANGED statics
    BY <1>2 DEF OpenWallet
  <2>2. /\ boot = "cashu" /\ boot' = boot /\ up' = up
    BY <1>2 DEF OpenWallet
  <2>3. statics' \subseteq Captured \cup Enabled \cup {"database", "lnurl clients"}
    BY <2>1 DEF Captured
  <2>4. /\ statics \subseteq statics' /\ (pc' = "serving" => "melt" \in statics')
        /\ \A x \in Enabled \cup {"dleq"} : x \in statics' => x \in statics
    BY <2>1 DEF Enabled
  <2> QED
    BY <2>2, <2>3, <2>4 DEF Enabled, Stages
<1>3. CASE ReadEnvironment \/ SkipCashu \/ LeaveCashu \/ ListMints
  BY <1>3 DEF ReadEnvironment, SkipCashu, LeaveCashu, ListMints, Stage, wallet, vars,
             Captured, Enabled, Stages
<1>4. CASE EnableP2pk
  BY <1>4 DEF EnableP2pk, CanLock, Stage, wallet, vars, Captured, Enabled, Stages
<1>5. CASE NewModule \/ Recover \/ EnableRedemption
  BY <1>5 DEF NewModule, Recover, EnableRedemption, Stage, wallet, vars, Captured,
             Enabled, Stages
<1>6. CASE UNCHANGED startVars
  BY <1>6 DEF startVars, vars
<1>7. CASE ReceiveToken \/ OperatorActs
  BY <1>7, ServingIsOpened DEF ReceiveToken, OperatorActs
<1>8. CASE Down
  BY <1>8 DEF Down, Stop, wallet, vars, Stages
<1>9. ASSUME NEW w \in Worker, Fork(w) \/ ExitWorker(w) PROVE StaticsInv'
  BY <1>9 DEF Fork, ExitWorker, wallet, vars
<1> QED
  BY <1>1, <1>2, <1>3, <1>4, <1>5, <1>6, <1>7, <1>8, <1>9 DEF StartNext, InitModule

(* So it holds in every state of every master.                               *)
LEMMA StaticsInvariant == StartSpec => []StaticsInv
<1>1. StartInit => StaticsInv
  BY DEF StartInit, Init, StaticsInv, Stages
<1> QED
  BY <1>1, StaticsStep, PTL DEF StartSpec

(* InheritsSettingsNotHandles: whatever the operator may set, a worker reads *)
(* nothing that was not read before it was forked, and of the handles that   *)
(* the master opened it uses the LNURL clients at most.                      *)
THEOREM InheritanceHolds == StartSpec => []InheritsSettingsNotHandles
<1>1. ASSUME StaticsInv PROVE InheritsSettingsNotHandles
  <2>1. up # {} => boot = "ready"
    BY <1>1 DEF StaticsInv
  <2>2. Inherited \subseteq {"lnurl clients"}
    BY <1>1 DEF StaticsInv, Inherited, Captured, Enabled, Handles
  <2> QED
    BY <1>1, <2>1, <2>2 DEF StaticsInv, InheritsSettingsNotHandles, Reads, ChecksTheLock,
                            Redeems
<1> QED
  BY <1>1, StaticsInvariant, PTL

(* LockAskedIsLockChecked: whichever of the settings is missing or invalid,  *)
(* the lock that payers are told of is the lock their tokens are checked     *)
(* against, and no token is accepted unswapped without a key and a whitelist.*)
THEOREM LockAskedIsLockCheckedHolds == StartSpec => []LockAskedIsLockChecked
<1>1. StaticsInv => LockAskedIsLockChecked
  BY DEF StaticsInv, LockAskedIsLockChecked, Asks, AsksALock, ChecksTheLock
<1> QED
  BY <1>1, StaticsInvariant, PTL

-----------------------------------------------------------------------------
(* Where the workers count *)

\* The block of a segment has the layout of the build that runs.
OwnLayout(s) == s \in Segment /\ block[s].magic = image

\* What no step disturbs: ACTIVE names the zone of a cycle that has one, though it may name
\* any segment under one that has none; a worker's names that of its own cycle; and a block
\* that is there has counted what was to be counted in it.
ZoneInv ==
  /\ block \in [Segment -> [magic : Layout \cup {NoLayout}, count : Nat]]
  /\ counting \in [Process -> [up : BOOLEAN, zone : Segment \cup {NoSegment},
                                active : Segment \cup {NoSegment}]]
  /\ tally \in [Segment -> Nat]
  /\ active \in Segment \cup {NoSegment}
  /\ image \in Layout \cup {NoLayout}
  /\ image = NoLayout => zone = NoSegment /\ Counting = {}
  /\ zone # NoSegment => active = zone /\ OwnLayout(zone)
  /\ \A w \in Counting : counting[w].zone # NoSegment =>
        counting[w].active = counting[w].zone /\ OwnLayout(counting[w].zone)
  /\ \A s \in Segment : block[s].magic # NoLayout => block[s].count = tally[s]

\* Launches, reloads, forks and requests keep it.
LEMMA ZoneStep == ZoneInv /\ [ZoneNext]_zoneVars => ZoneInv'
<1> SUFFICES ASSUME ZoneInv, [ZoneNext]_zoneVars PROVE ZoneInv'
  OBVIOUS
<1> USE ZoneAssumption DEF ZoneInv, OwnLayout, Counting
<1>1. CASE LaunchZone
  BY <1>1 DEF LaunchZone, NotAdded, TakeOver, InitInPlace, TallyFrom, NoBlock
<1>2. CASE ReloadKeepsZone
  BY <1>2 DEF ReloadKeepsZone, TakeOver
<1>3. CASE ReloadAddsZone
  BY <1>3 DEF ReloadAddsZone, InitInPlace, TallyFrom, Free
<1>4. CASE ReloadDropsZone
  BY <1>4 DEF ReloadDropsZone, NotAdded
<1>5. CASE EndImage
  BY <1>5 DEF EndImage, NoBlock, Gone
<1>6. ASSUME NEW w \in Process, ForkCounting(w) PROVE ZoneInv'
  BY <1>6 DEF ForkCounting
<1>7. ASSUME NEW w \in Process, EndCounting(w) \/ CountUnmapped(w) PROVE ZoneInv'
  <2>1. counting' \in {counting, [counting EXCEPT ![w] = Gone]}
    BY <1>7 DEF EndCounting, CountUnmapped
  <2>2. UNCHANGED <<image, zone, active, block, tally>>
    BY <1>7 DEF EndCounting, CountUnmapped
  <2>3. Gone.up = FALSE /\ Gone \in [up : BOOLEAN, zone : Segment \cup {NoSegment},
                                    active : Segment \cup {NoSegment}]
    BY DEF Gone
  <2>4. \A v \in Counting' : v \in Counting /\ counting'[v] = counting[v]
    BY <2>1, <2>3
  <2>5. counting' \in [Process -> [up : BOOLEAN, zone : Segment \cup {NoSegment},
                                  active : Segment \cup {NoSegment}]]
    BY <2>1, <2>3
  <2> QED
    BY <2>2, <2>4, <2>5
<1>8. ASSUME NEW w \in Process, CountRequest(w) PROVE ZoneInv'
  BY <1>8 DEF CountRequest
<1>9. CASE UNCHANGED zoneVars
  BY <1>9 DEF zoneVars
<1> QED
  BY <1>1, <1>2, <1>3, <1>4, <1>5, <1>6, <1>7, <1>8, <1>9 DEF ZoneNext

(* CountersSurvive: whatever metrics_shm_init is given at the launches and   *)
(* the reloads of a master, and whichever of these nginx refuses, the        *)
(* workers of cycles with the zone count in one block and lose no request.   *)
THEOREM CountersSurviveHolds == ZoneSpec => []CountersSurvive
<1>1. ZoneInit => ZoneInv
  BY ZoneAssumption DEF ZoneInit, ZoneInv, OwnLayout, Counting, NoBlock, Gone
<1>2. ZoneInv => CountersSurvive
  <2> SUFFICES ASSUME ZoneInv, NEW w \in Counting, counting[w].zone # NoSegment
               PROVE  /\ counting[w].active = counting[w].zone
                      /\ block[counting[w].zone] =
                           [magic |-> image, count |-> tally[counting[w].zone]]
    BY DEF CountersSurvive
  <2> DEFINE s == counting[w].zone
  <2>1. counting[w].active = s /\ s \in Segment /\ block[s].magic = image
    BY DEF ZoneInv, OwnLayout
  <2>2. image # NoLayout
    BY DEF ZoneInv
  <2>3. block[s].count = tally[s] /\ block[s] \in [magic : Layout \cup {NoLayout}, count : Nat]
    BY <2>1, <2>2 DEF ZoneInv
  <2> QED
    BY <2>1, <2>3
<1> QED
  BY <1>1, <1>2, ZoneStep, PTL DEF ZoneSpec

-----------------------------------------------------------------------------
(* From a configuration file to the workers *)

\* What Default holds, field by field.
LEMMA DefaultFields ==
  /\ DOMAIN Default = Fields
  /\ \A f \in Worded : Default[f] = Unset
  /\ \A f \in Numbers : Default[f] = 0
  /\ Default.hidden = FALSE
  /\ Default.destination = Nowhere
  BY DEF Default, Fields, Worded, Numbers

\* The only handler that looks at what is already there is l402_tenant_ref's.
LEMMA AcceptsDefault ==
  ASSUME NEW c, NEW line
  PROVE  Accepts(c, line) <=>
           Accepts(Default, line) /\ (line.set = "ref" => c.destination.ref = Unset)
  BY DefaultFields DEF Accepts, AcceptsRef, Nowhere, Numbers

\* A directive sets its field and no other.
LEMMA SetWord ==
  ASSUME NEW c, DOMAIN c = Fields, NEW line, NEW l, line.set \in Worded \cup Numbers \cup {"hidden"}
  PROVE  /\ DOMAIN SetField(c, line, l) = Fields
         /\ \A f \in Fields : SetField(c, line, l)[f] = IF f = line.set THEN line.to ELSE c[f]
  BY DEF SetField, Fields, Worded, Numbers

\* Either spelling of a destination also says which location names it.
LEMMA SetDestination ==
  ASSUME NEW c, DOMAIN c = Fields, NEW line, NEW l, line.set \in {"ref", "addr"},
         DOMAIN c.destination = {"ref", "addr", "at"}
  PROVE  /\ DOMAIN SetField(c, line, l) = Fields
         /\ \A f \in Fields \ {"destination"} : SetField(c, line, l)[f] = c[f]
         /\ SetField(c, line, l).destination = 
              [ref |-> IF line.set = "ref" THEN line.to ELSE c.destination.ref,
               addr |-> IF line.set = "addr" THEN line.to ELSE c.destination.addr, at |-> l]
  BY DEF SetField, Fields
-----------------------------------------------------------------------------
\* The greatest of some numbers up to n, and n + 1.
LEMMA MaxIsNext ==
  ASSUME NEW n \in Nat, NEW S, S \subseteq 1 .. n
  PROVE  Max(S \cup {n + 1}) = n + 1
<1>1. \A y \in S \cup {n + 1} : n + 1 >= y
  OBVIOUS
<1>2. ASSUME NEW x \in S \cup {n + 1}, \A y \in S \cup {n + 1} : x >= y
      PROVE  x = n + 1
  BY <1>2
<1> QED BY <1>1, <1>2 DEF Max

\* The lines, of the first n of a text, that a field's directive accepts, and the last of
\* their words.
Accepted(text, f, n) == {k \in 1 .. n : text[k].set = f /\ Accepts(Default, text[k])}
Said(text, f, n) == IF Accepted(text, f, n) = {} THEN Unset ELSE text[Max(Accepted(text, f, n))].to

\* One more line: if the directive of a field accepts it, that is now what is said.
LEMMA SaidNext ==
  ASSUME NEW text, NEW f, NEW n \in Nat
  PROVE  Said(text, f, n + 1) =
           IF text[n + 1].set = f /\ Accepts(Default, text[n + 1])
           THEN text[n + 1].to ELSE Said(text, f, n)
<1>0. 1 .. (n + 1) = (1 .. n) \cup {n + 1}
  OBVIOUS
<1> DEFINE A == Accepted(text, f, n)
           B == Accepted(text, f, n + 1)
<1>1. CASE text[n + 1].set = f /\ Accepts(Default, text[n + 1])
  <2>1. B = A \cup {n + 1}
    BY <1>0, <1>1 DEF Accepted
  <2>2. A \subseteq 1 .. n
    BY DEF Accepted
  <2> HIDE DEF A, B
  <2>3. Max(B) = n + 1
    BY <2>1, <2>2, MaxIsNext
  <2> QED BY <1>1, <2>1, <2>3 DEF Said, A, B
<1>2. CASE ~(text[n + 1].set = f /\ Accepts(Default, text[n + 1]))
  <2>1. B = A
    BY <1>0, <1>2 DEF Accepted
  <2> QED BY <1>2, <2>1 DEF Said
<1> QED BY <1>1, <1>2

\* No line, nothing said.
LEMMA SaidNothing == ASSUME NEW text, NEW f PROVE Said(text, f, 0) = Unset
  BY DEF Said, Accepted

\* One more location inwards: what it says, or what was nearest before it.
LEMMA NearestNext ==
  ASSUME NEW n \in Nat, NEW says
  PROVE  Nearest(n + 1, says) = IF says[n + 1] # Unset THEN says[n + 1] ELSE Nearest(n, says)
<1>0. 1 .. (n + 1) = (1 .. n) \cup {n + 1}
  OBVIOUS
<1> DEFINE A == {k \in 1 .. n : says[k] # Unset}
           B == {k \in 1 .. (n + 1) : says[k] # Unset}
<1>1. CASE says[n + 1] # Unset
  <2>1. B = A \cup {n + 1} /\ A \subseteq 1 .. n
    BY <1>0, <1>1
  <2> HIDE DEF A, B
  <2>3. Max(B) = n + 1
    BY <2>1, MaxIsNext
  <2> QED BY <1>1, <2>1, <2>3 DEF Nearest, B
<1>2. CASE says[n + 1] = Unset
  <2>1. B = A
    BY <1>0, <1>2
  <2> QED BY <1>2, <2>1 DEF Nearest
<1> QED BY <1>1, <1>2

\* Outside every location nothing is said.
LEMMA NearestNone == ASSUME NEW says PROVE Nearest(0, says) = Unset
  BY DEF Nearest

\* The same of destinations.
LEMMA DestinationNext ==
  ASSUME NEW n \in Nat
  PROVE  Destination(n + 1) =
           IF Names(n + 1)
           THEN [ref |-> Word(n + 1, "ref"), addr |-> Word(n + 1, "addr"), at |-> n + 1]
           ELSE Destination(n)
<1>0. 1 .. (n + 1) = (1 .. n) \cup {n + 1}
  OBVIOUS
<1> DEFINE A == {k \in 1 .. n : Names(k)}
           B == {k \in 1 .. (n + 1) : Names(k)}
<1>1. CASE Names(n + 1)
  <2>1. B = A \cup {n + 1} /\ A \subseteq 1 .. n
    BY <1>0, <1>1
  <2> HIDE DEF A, B
  <2>3. Max(B) = n + 1
    BY <2>1, MaxIsNext
  <2> QED BY <1>1, <2>1, <2>3 DEF Destination, B
<1>2. CASE ~Names(n + 1)
  <2>1. B = A
    BY <1>0, <1>2
  <2> QED BY <1>2, <2>1 DEF Destination
<1> QED BY <1>1, <1>2

\* Outside every location nobody is named.
LEMMA DestinationNone == Destination(0) = Nowhere
  BY DEF Destination
-----------------------------------------------------------------------------
\* A ModuleConfig is what the first n lines of the text of location l say.
OwnAsSaid(c, l, text, n) ==
  /\ DOMAIN c = Fields
  /\ \A f \in Worded : c[f] = Said(text, f, n)
  /\ \A f \in Numbers :
       c[f] \in Nat /\ c[f] = IF Said(text, f, n) = Unset THEN 0 ELSE Said(text, f, n)
  /\ c.hidden \in BOOLEAN /\ (c.hidden <=> Said(text, "hidden", n) # Unset)
  /\ c.destination =
       [ref |-> Said(text, "ref", n), addr |-> Said(text, "addr", n),
        at |-> IF Said(text, "ref", n) # Unset \/ Said(text, "addr", n) # Unset THEN l ELSE Unset]

\* None of the first n lines was refused.
Readable(text, n) ==
  /\ \A k \in 1 .. n : text[k].set \in LogsGarbled \/ Accepts(Default, text[k])
  /\ \A j, k \in 1 .. n : j < k => text[j].set # "ref" \/ text[k].set # "ref"
  /\ (\E k \in 1 .. n : text[k].set = "ref") <=> Said(text, "ref", n) # Unset

\* One of them has listed its location; it says so, and is on only if it did.
Listing(text, n) == \E k \in 1 .. n : Lists(text[k])

ListsIfOn(text, n) ==
  /\ Listing(text, n) => Said(text, "enable", n) # Unset
  /\ On(Said(text, "enable", n)) => Listing(text, n)

\* A location begins as Default, with no line read.
LEMMA NothingRead ==
  ASSUME NEW l, NEW text
  PROVE  OwnAsSaid(Default, l, text, 0) /\ Readable(text, 0) /\ ListsIfOn(text, 0)
<1>1. Unset # "on"
  BY CycleAssumption
<1>2. OwnAsSaid(Default, l, text, 0)
  <2>1. \A f : Said(text, f, 0) = Unset
    BY SaidNothing
  <2>2. /\ \A f \in Worded : Default[f] = Said(text, f, 0)
        /\ \A f \in Numbers : Default[f] \in Nat /\ Said(text, f, 0) = Unset /\ Default[f] = 0
    BY <2>1, DefaultFields
  <2>3. Default.hidden \in BOOLEAN /\ (Default.hidden <=> Said(text, "hidden", 0) # Unset)
    BY <2>1, DefaultFields
  <2>4. Default.destination =
          [ref |-> Said(text, "ref", 0), addr |-> Said(text, "addr", 0), at |-> Unset]
    BY <2>1, DefaultFields DEF Nowhere
  <2> QED BY <2>1, <2>2, <2>3, <2>4, DefaultFields DEF OwnAsSaid
<1>3. Readable(text, 0) /\ ListsIfOn(text, 0)
  BY <1>1, SaidNothing DEF Readable, ListsIfOn, Listing, On
<1> QED BY <1>2, <1>3

\* The numbers that are accepted are natural.
LEMMA NumberAccepted ==
  ASSUME NEW line, IsLine(line), line.set \in Numbers, Accepts(Default, line)
  PROVE  line.to \in Nat
<1>1. line.to # Garbled /\ line.to >= IF line.set = "amount" THEN 1 ELSE 0
  BY DEF Accepts, AcceptsNumber, Numbers
<1>2. line.to \in Int
  BY <1>1 DEF IsLine
<1> QED BY <1>1, <1>2

\* A line that is accepted leaves its location as its lines say.
LEMMA LineAccepted ==
  ASSUME NEW l, NEW text, NEW n \in Nat, NEW c,
         OwnAsSaid(c, l, text, n), Readable(text, n), ListsIfOn(text, n),
         IsLine(text[n + 1]), Accepts(c, text[n + 1])
  PROVE  /\ OwnAsSaid(SetField(c, text[n + 1], l), l, text, n + 1)
         /\ Readable(text, n + 1) /\ ListsIfOn(text, n + 1)
<1> DEFINE line == text[n + 1]
           d == SetField(c, line, l)
<1>0. 1 .. (n + 1) = (1 .. n) \cup {n + 1}
  OBVIOUS
<1>1. /\ Accepts(Default, line)
      /\ line.set = "ref" => Said(text, "ref", n) = Unset
  BY AcceptsDefault DEF OwnAsSaid
<1>2. \A f : Said(text, f, n + 1) = IF line.set = f THEN line.to ELSE Said(text, f, n)
  BY <1>1, SaidNext
<1>3. line.to # Unset
  BY DEF IsLine
<1>4. OwnAsSaid(d, l, text, n + 1)
  <2>1. CASE line.set \in Worded \cup Numbers \cup {"hidden"}
    <3>1. DOMAIN d = Fields /\ \A f \in Fields : d[f] = IF f = line.set THEN line.to ELSE c[f]
      BY <2>1, SetWord DEF OwnAsSaid
    <3> HIDE DEF d, line
    <3>2. \A f \in Worded : d[f] = Said(text, f, n + 1)
      BY <1>2, <3>1 DEF OwnAsSaid, Fields
    <3>3. \A f \in Numbers :
            d[f] \in Nat /\ d[f] = IF Said(text, f, n + 1) = Unset THEN 0 ELSE Said(text, f, n + 1)
      BY <1>1, <1>2, <1>3, <3>1, NumberAccepted DEF OwnAsSaid, Fields, line
    <3>4. d.hidden \in BOOLEAN /\ (d.hidden <=> Said(text, "hidden", n + 1) # Unset)
      <4>1. d.hidden = IF line.set = "hidden" THEN TRUE ELSE c.hidden
        BY <3>1 DEF Fields, IsLine, line
      <4> QED BY <1>2, <1>3, <4>1 DEF OwnAsSaid
    <3>5. d.destination = c.destination
      BY <2>1, <3>1 DEF Fields, Worded, Numbers
    <3>6. /\ Said(text, "ref", n + 1) = Said(text, "ref", n)
          /\ Said(text, "addr", n + 1) = Said(text, "addr", n)
      BY <1>2, <2>1 DEF Worded, Numbers
    <3> QED BY <3>1, <3>2, <3>3, <3>4, <3>5, <3>6 DEF OwnAsSaid
  <2>2. CASE line.set \in {"ref", "addr"}
    <3>1. /\ DOMAIN d = Fields
          /\ \A f \in Fields \ {"destination"} : d[f] = c[f]
          /\ d.destination =
               [ref  |-> IF line.set = "ref" THEN line.to ELSE c.destination.ref,
                addr |-> IF line.set = "addr" THEN line.to ELSE c.destination.addr, at |-> l]
      <4>1. DOMAIN c.destination = {"ref", "addr", "at"}
        BY DEF OwnAsSaid
      <4> QED BY <2>2, <4>1, SetDestination DEF OwnAsSaid
    <3> HIDE DEF d, line
    <3>2. \A f \in Worded \cup Numbers \cup {"hidden"} :
             f # line.set /\ d[f] = c[f] /\ Said(text, f, n + 1) = Said(text, f, n)
      BY <1>2, <2>2, <3>1 DEF Fields, Worded, Numbers
    <3>3. d.hidden = c.hidden
      BY <3>2
    <3>4. d.destination =
            [ref |-> Said(text, "ref", n + 1), addr |-> Said(text, "addr", n + 1),
             at |-> IF Said(text, "ref", n + 1) # Unset \/ Said(text, "addr", n + 1) # Unset
                    THEN l ELSE Unset]
      <4>1. c.destination.ref = Said(text, "ref", n) /\ c.destination.addr = Said(text, "addr", n)
        BY DEF OwnAsSaid
      <4> QED BY <1>2, <1>3, <2>2, <3>1, <4>1
    <3> QED BY <3>1, <3>2, <3>3, <3>4 DEF OwnAsSaid
  <2> QED BY <2>1, <2>2 DEF IsLine
<1> HIDE DEF line, d
<1>5. Readable(text, n + 1)
  BY <1>0, <1>1, <1>2, <1>3 DEF Readable, line
<1>6. ListsIfOn(text, n + 1)
  <2>1. Listing(text, n + 1) <=> Listing(text, n) \/ Lists(line)
    BY <1>0 DEF Listing, line
  <2>2. Lists(line) => line.set = "enable"
    BY DEF Lists
  <2>3. line.set = "enable" /\ On(line.to) => Lists(line)
    BY DEF Lists, On, IsLine, line
  <2> QED BY <1>2, <1>3, <2>1, <2>2, <2>3 DEF ListsIfOn
<1> QED BY <1>4, <1>5, <1>6 DEF d, line

\* So does one that is logged and left alone.
LEMMA LineIgnored ==
  ASSUME NEW l, NEW text, NEW n \in Nat, NEW c,
         OwnAsSaid(c, l, text, n), Readable(text, n), ListsIfOn(text, n),
         IsLine(text[n + 1]), ~Accepts(c, text[n + 1]), text[n + 1].set \in LogsGarbled
  PROVE  /\ OwnAsSaid(c, l, text, n + 1)
         /\ Readable(text, n + 1) /\ ListsIfOn(text, n + 1)
<1> DEFINE line == text[n + 1]
<1>0. 1 .. (n + 1) = (1 .. n) \cup {n + 1}
  OBVIOUS
<1>1. line.set # "ref" /\ ~Accepts(Default, line)
  BY AcceptsDefault DEF LogsGarbled, Numbers
<1>2. \A f : Said(text, f, n + 1) = Said(text, f, n)
  BY <1>1, SaidNext
<1>3. OwnAsSaid(c, l, text, n + 1)
  BY <1>2 DEF OwnAsSaid
<1> HIDE DEF line
<1>4. Readable(text, n + 1)
  BY <1>0, <1>1, <1>2 DEF Readable, line
<1>5. ListsIfOn(text, n + 1)
  <2>1. Lists(line) => Accepts(Default, line)
    <3>1. SUFFICES ASSUME Lists(line) PROVE Accepts(Default, line)
      OBVIOUS
    <3>2. line.set = "enable" /\ line.to = "on"
      BY <3>1 DEF Lists
    <3> QED BY <3>2 DEF Accepts, AcceptsSwitch, Numbers
  <2>2. Listing(text, n + 1) <=> Listing(text, n)
    BY <1>0, <1>1, <2>1 DEF Listing, line
  <2> QED BY <1>2, <2>2 DEF ListsIfOn
<1> QED BY <1>3, <1>4, <1>5

\* A line that is refused is one that Unreadable finds: it is unreadable by itself, or it
\* is the second reference.
LEMMA LineRefused ==
  ASSUME NEW l, NEW n \in Nat, NEW c, OwnAsSaid(c, l, file[l], n), Readable(file[l], n),
         n + 1 \in DOMAIN file[l], DOMAIN file[l] = 1 .. Len(file[l]), Len(file[l]) \in Nat,
         ~Accepts(c, file[l][n + 1]), file[l][n + 1].set \notin LogsGarbled
  PROVE  Unreadable(l)
<1> DEFINE text == file[l]
           line == text[n + 1]
<1>1. CASE ~Accepts(Default, line)
  BY <1>1 DEF Unreadable
<1>2. CASE line.set = "ref" /\ Said(text, "ref", n) # Unset
  <2>1. PICK j \in 1 .. n : text[j].set = "ref"
    BY <1>2 DEF Readable
  <2> QED BY <1>2, <2>1 DEF Unreadable
<1> QED BY <1>1, <1>2, AcceptsDefault DEF OwnAsSaid

\* A location of which every line was read is not Unreadable.
LEMMA AllLinesRead ==
  ASSUME NEW l, DOMAIN file[l] = 1 .. Len(file[l]), Len(file[l]) \in Nat,
         Readable(file[l], Len(file[l]))
  PROVE  ~Unreadable(l)
  BY DEF Readable, Unreadable

-----------------------------------------------------------------------------
\* A ModuleConfig is what NearestWins and PaysWhereNamed say of location l, whose reference
\* resolves.
MergedAsNamed(c, l) ==
  /\ DOMAIN c = Fields
  /\ \A f \in Worded : c[f] = Effective(l, f)
  /\ \A f \in Numbers :
       LET n == Nearest(l, [k \in Locations |-> IF Word(k, f) = 0 THEN Unset ELSE Word(k, f)])
       IN  c[f] \in Nat /\ c[f] = IF n = Unset THEN 0 ELSE n
  /\ c.hidden \in BOOLEAN
  /\ c.hidden <=> \E k \in 1 .. l : Word(k, "hidden") # Unset
  /\ c.hidden <=> Effective(l, "hidden") # Unset
  /\ c.destination =
       IF Destination(l).ref # Unset
       THEN [Destination(l) EXCEPT !.addr = AddressOf(Destination(l).ref)]
       ELSE Destination(l)
  /\ Destination(l).ref # Unset => Destination(l).ref \in defined
  /\ Destination(l) # Nowhere => Destination(l).ref # Unset \/ Destination(l).addr # Unset

\* What the outermost location inherits is as named, by nobody.
LEMMA OutermostIsDefault == MergedAsNamed(Default, 0)
<1>1. \A f : Effective(0, f) = Unset
  BY NearestNone DEF Effective
<1>2. Destination(0) = Nowhere /\ Nowhere.ref = Unset
  BY DestinationNone DEF Nowhere
<1>3. \A f \in Numbers :
        Nearest(0, [k \in Locations |-> IF Word(k, f) = 0 THEN Unset ELSE Word(k, f)]) = Unset
  BY NearestNone
<1>4. \A f \in Worded : Default[f] = Effective(0, f)
  BY <1>1, DefaultFields
<1>5. \A f \in Numbers :
       LET n == Nearest(0, [k \in Locations |-> IF Word(k, f) = 0 THEN Unset ELSE Word(k, f)])
       IN  Default[f] \in Nat /\ Default[f] = IF n = Unset THEN 0 ELSE n
  BY <1>3, DefaultFields
<1>6. Default.hidden = FALSE /\ ~\E k \in 1 .. 0 : Word(k, "hidden") # Unset
  BY DefaultFields
<1> QED BY <1>1, <1>2, <1>4, <1>5, <1>6, DefaultFields DEF MergedAsNamed

\* The word of a location is what all of its lines say.
LEMMA WordIsSaid ==
  ASSUME NEW l, DOMAIN file[l] = 1 .. Len(file[l])
  PROVE  \A f : Word(l, f) = Said(file[l], f, Len(file[l]))
  BY DEF Word, Said, Accepted

\* Merge, field by field.
LEMMA MergedFields ==
  ASSUME NEW own, NEW c
  PROVE  LET m == Merge(own, c)
         IN  /\ DOMAIN m = Fields
             /\ \A f \in Worded : m[f] = ChildWins(own[f], c[f])
             /\ \A f \in Numbers : m[f] = PositiveWins(own[f], c[f])
             /\ m.hidden = (own.hidden \/ c.hidden)
             /\ m.destination = Payout(own.destination, c.destination)
  BY DEF Merge, Fields, Worded, Numbers

\* One merge: it fails exactly if the location is Bad, and otherwise leaves the location as
\* the nearest location around it says.  That the outer locations were not bad is what makes
\* an inherited reference resolve.
LEMMA LocationMerged ==
  ASSUME NEW l \in Nat, l + 1 \in Locations, NEW own, NEW p,
         DOMAIN file[l + 1] = 1 .. Len(file[l + 1]),
         MergedAsNamed(p, l), OwnAsSaid(own, l + 1, file[l + 1], Len(file[l + 1])),
         defined \subseteq Tenants
  PROVE  /\ MergeFails(own, Merge(own, p), defined, splits) <=> Bad(l + 1)
         /\ ~Bad(l + 1) => MergedAsNamed(Merge(own, p), l + 1)
<1> DEFINE m == Merge(own, p)
           k == l + 1
           d == Destination(l)
           e == Destination(l + 1)
<1>0. 1 .. (l + 1) = (1 .. l) \cup {l + 1}
  OBVIOUS
<1>1. \A f : Word(k, f) = Said(file[k], f, Len(file[k]))
  BY WordIsSaid
<1>2. /\ DOMAIN m = Fields
      /\ \A f \in Worded : m[f] = ChildWins(own[f], p[f])
      /\ \A f \in Numbers : m[f] = PositiveWins(own[f], p[f])
      /\ m.hidden = (own.hidden \/ p.hidden)
      /\ m.destination = Payout(own.destination, p.destination)
  BY MergedFields
<1> HIDE DEF m
<1>3. \A f : Effective(k, f) = IF Word(k, f) # Unset THEN Word(k, f) ELSE Effective(l, f)
  BY NearestNext DEF Effective
<1>4. \A f \in Worded : m[f] = Effective(k, f)
  BY <1>1, <1>2, <1>3 DEF OwnAsSaid, MergedAsNamed, ChildWins
<1>5. ASSUME NEW f \in Numbers
      PROVE  LET n == Nearest(k, [j \in Locations |-> IF Word(j, f) = 0 THEN Unset ELSE Word(j, f)])
             IN  m[f] \in Nat /\ m[f] = IF n = Unset THEN 0 ELSE n
  <2> DEFINE says == [j \in Locations |-> IF Word(j, f) = 0 THEN Unset ELSE Word(j, f)]
  <2>1. says[k] = IF Word(k, f) = 0 THEN Unset ELSE Word(k, f)
    OBVIOUS
  <2>2. p[f] \in Nat /\ p[f] = IF Nearest(l, says) = Unset THEN 0 ELSE Nearest(l, says)
    BY DEF MergedAsNamed
  <2>3. own[f] \in Nat /\ own[f] = IF Word(k, f) = Unset THEN 0 ELSE Word(k, f)
    BY <1>1 DEF OwnAsSaid
  <2> HIDE DEF says
  <2>4. Nearest(k, says) = IF says[k] # Unset THEN says[k] ELSE Nearest(l, says)
    BY NearestNext
  <2>5. m[f] = IF own[f] = 0 /\ p[f] > 0 THEN p[f] ELSE own[f]
    BY <1>2 DEF PositiveWins
  <2>6. Unset \notin Int
    BY CycleAssumption
  <2>7. m[f] \in Nat /\ m[f] = IF Nearest(k, says) = Unset THEN 0 ELSE Nearest(k, says)
    BY <2>1, <2>2, <2>3, <2>4, <2>5, <2>6
  <2> QED BY <2>7 DEF says
<1>6. /\ m.hidden \in BOOLEAN
      /\ m.hidden <=> \E j \in 1 .. k : Word(j, "hidden") # Unset
      /\ m.hidden <=> Effective(k, "hidden") # Unset
  <2>1. own.hidden \in BOOLEAN /\ (own.hidden <=> Word(k, "hidden") # Unset)
    BY <1>1 DEF OwnAsSaid
  <2>2. /\ p.hidden \in BOOLEAN
        /\ p.hidden <=> \E j \in 1 .. l : Word(j, "hidden") # Unset
        /\ p.hidden <=> Effective(l, "hidden") # Unset
    BY DEF MergedAsNamed
  <2> QED BY <1>0, <1>2, <1>3, <2>1, <2>2
<1>7. e = IF Names(k) THEN [ref |-> Word(k, "ref"), addr |-> Word(k, "addr"), at |-> k] ELSE d
  BY DestinationNext
<1>8. own.destination = [ref |-> Word(k, "ref"), addr |-> Word(k, "addr"),
                         at |-> IF Names(k) THEN k ELSE Unset]
  BY <1>1 DEF OwnAsSaid, Names
<1>9. m.destination = IF e.ref # Unset THEN [e EXCEPT !.addr = AddressOf(e.ref)] ELSE e
  <2>1. p.destination = IF d.ref # Unset THEN [d EXCEPT !.addr = AddressOf(d.ref)] ELSE d
    BY DEF MergedAsNamed
  <2> HIDE DEF d, e, k
  <2>2. CASE Names(k)
    BY <1>2, <1>7, <1>8, <2>2 DEF Payout, Names
  <2>3. CASE ~Names(k)
    BY <1>2, <1>7, <1>8, <2>1, <2>3 DEF Payout, Names
  <2> QED BY <2>2, <2>3
<1>10. e # Nowhere => e.ref # Unset \/ e.addr # Unset
  BY <1>7 DEF Names, MergedAsNamed
<1>11. d.ref # Unset => d.ref \in defined
  BY DEF MergedAsNamed
<1>12. \A t \in defined : AddressOf(t) # Unset
  BY CycleAssumption
<1> HIDE DEF d, e, k
<1>13. UnresolvedRef(own, defined) <=>
         \/ Word(k, "ref") # Unset /\ Word(k, "addr") # Unset
         \/ e.ref # Unset /\ e.ref \notin defined
  BY <1>7, <1>8, <1>11 DEF UnresolvedRef, Names
<1>14. RealmSoldOnce(own, m) <=>
         /\ On(Effective(k, "enable")) /\ Effective(k, "realm") # Unset
         /\ ~On(Effective(k, "indefinite"))
  <2>1. m.enable = Effective(k, "enable") /\ m.realm = Effective(k, "realm")
        /\ m.indefinite = Effective(k, "indefinite")
    BY <1>4 DEF Worded
  <2> QED BY <2>1 DEF RealmSoldOnce
<1>15. e.ref \in defined =>
         (CashuToOperator(m, splits) /\ m.destination.ref # Unset <=>
            On(Effective(k, "enable")) /\ e.ref # Unset /\ splits)
  <2>1. m.enable = Effective(k, "enable")
    BY <1>4 DEF Worded
  <2>2. m.destination.ref = e.ref /\ (e.ref # Unset => m.destination.addr = AddressOf(e.ref))
    BY <1>9
  <2> QED BY <1>12, <2>1, <2>2 DEF CashuToOperator
<1>16. MergeFails(own, m, defined, splits) <=> Bad(k)
  <2>1. Bad(k) <=>
          \/ Word(k, "ref") # Unset /\ Word(k, "addr") # Unset
          \/ e.ref # Unset /\ e.ref \notin defined
          \/ /\ On(Effective(k, "enable")) /\ Effective(k, "realm") # Unset
             /\ ~On(Effective(k, "indefinite"))
          \/ On(Effective(k, "enable")) /\ e.ref # Unset /\ splits
    BY DEF Bad, e, k
  <2>2. MergeFails(own, m, defined, splits) <=>
          \/ UnresolvedRef(own, defined) \/ RealmSoldOnce(own, m)
          \/ CashuToOperator(m, splits) /\ m.destination.ref # Unset
    BY DEF MergeFails
  <2>3. m.destination.ref = e.ref
    BY <1>9
  <2> QED BY <1>13, <1>14, <1>15, <2>1, <2>2, <2>3
<1>17. ASSUME ~Bad(k)
       PROVE  MergedAsNamed(m, k)
  <2>1. e.ref # Unset => e.ref \in defined
    BY <1>17 DEF Bad, e, k
  <2>2. m.destination = IF Destination(k).ref # Unset
                        THEN [Destination(k) EXCEPT !.addr = AddressOf(Destination(k).ref)]
                        ELSE Destination(k)
    BY <1>9 DEF e, k
  <2>3. /\ Destination(k).ref # Unset => Destination(k).ref \in defined
        /\ Destination(k) # Nowhere => Destination(k).ref # Unset \/ Destination(k).addr # Unset
    BY <1>10, <2>1 DEF e, k
  <2> QED BY <1>2, <1>4, <1>5, <1>6, <2>2, <2>3 DEF MergedAsNamed
<1> QED BY <1>16, <1>17 DEF m, k

-----------------------------------------------------------------------------
\* The lines of location l read so far.
LinesRead(l) == IF l < Len(conf) THEN Len(file[l]) ELSE lines

\* Types, and how far the master has come in each state.
Progress ==
  /\ state \in {"idle", "reading", "merging", "refused"}
  /\ conf \in Seq(Range(conf)) /\ Len(conf) <= Depth
  /\ merged \in 0 .. Len(conf) /\ lines \in Nat
  /\ state = "idle" => conf = << >>
  /\ state # "idle" => file \in Files /\ tenants = defined /\ defined \subseteq Tenants
  /\ IF conf = << >> THEN lines = 0 ELSE lines <= Len(file[Len(conf)])
  /\ state = "reading" => merged = 0 /\ sites = {}
  /\ state = "merging" => Len(conf) = Depth /\ AllRead
  /\ state = "refused" =>
       IF AllRead THEN Len(conf) = Depth /\ merged < Depth /\ Bad(merged + 1)
       ELSE merged = 0 /\ Unreadable(Len(conf))

\* What is not merged yet is as its lines say, none of which was refused.
ReadAsSaid ==
  \A l \in 1 .. Len(conf) :
    /\ l > merged => OwnAsSaid(conf[l], l, file[l], LinesRead(l))
    /\ Readable(file[l], LinesRead(l))
    /\ ListsIfOn(file[l], LinesRead(l))

\* What is merged is as named, and not bad.
MergedSoFar == \A l \in 1 .. merged : MergedAsNamed(conf[l], l) /\ ~Bad(l)

\* The sites collected so far.
Warned ==
  state = "merging" =>
    sites = {Destination(l).at : l \in
               {l \in 1 .. merged :
                  splits /\ On(Effective(l, "enable")) /\ Destination(l) # Nowhere}}

\* The locations registered so far are those with a line that lists them.
Registered ==
  state # "idle" =>
    /\ \A e \in registry :
         \E l \in 1 .. Len(conf) : e = <<l, cycles>> /\ Listing(file[l], LinesRead(l))
    /\ \A l \in 1 .. Len(conf) : Listing(file[l], LinesRead(l)) => <<l, cycles>> \in registry

\* The documents made from a copy of the master list what its configuration says.
Matches(c) ==
  LET info == {e[1] : e \in {e \in c.registry : c.serving[e[1]].on}}
  IN  /\ \A e \in c.registry : e[2] = c.cycle
      /\ info = c.promised.list
      /\ {l \in info : ~c.serving[l].hidden} = c.promised.list \ c.promised.hide

\* The master's copy matches unless it is tainted, and so do the workers'.
Copied ==
  /\ state = "idle" /\ ~tainted => Matches(Copy)
  /\ DOMAIN forked = Workers
  /\ \A w \in Workers : ~forked[w].tainted => Matches(forked[w])

ConfigInv == Progress /\ ReadAsSaid /\ MergedSoFar /\ Warned /\ Registered /\ Copied

\* A sequence is one over what it holds.
LEMMA SeqOfItsRange ==
  ASSUME NEW S, NEW s \in Seq(S)
  PROVE  s \in Seq(Range(s))
<1>1. Len(s) \in Nat /\ s \in [1 .. Len(s) -> S] /\ DOMAIN s = 1 .. Len(s)
  BY LenProperties
<1>2. s \in [1 .. Len(s) -> Range(s)]
  BY <1>1 DEF Range
<1> QED BY <1>1, <1>2, SeqDef

\* Append, of a sequence of unknown values.
LEMMA Appended ==
  ASSUME NEW s, s \in Seq(Range(s)), NEW x
  PROVE  /\ Append(s, x) \in Seq(Range(Append(s, x)))
         /\ Append(s, x) # << >>
         /\ Len(Append(s, x)) = Len(s) + 1
         /\ Append(s, x)[Len(s) + 1] = x
         /\ \A i \in 1 .. Len(s) : Append(s, x)[i] = s[i]
<1> DEFINE S == Range(s) \cup {x}
<1>1. s \in Seq(S)
  BY SeqMonotonic
<1> HIDE DEF S
<1>2. /\ Append(s, x) \in Seq(S) /\ Len(Append(s, x)) = Len(s) + 1 /\ Append(s, x)[Len(s) + 1] = x
      /\ \A i \in 1 .. Len(s) : Append(s, x)[i] = s[i]
  BY <1>1, AppendProperties DEF S
<1>3. Append(s, x) # << >>
  BY <1>1, <1>2, EmptySeq, LenProperties
<1>4. Append(s, x) \in Seq(Range(Append(s, x)))
  BY <1>2, SeqOfItsRange
<1> QED BY <1>2, <1>3, <1>4

\* One element replaced.
LEMMA Replaced ==
  ASSUME NEW s, s \in Seq(Range(s)), NEW l \in 1 .. Len(s), NEW x
  PROVE  /\ [s EXCEPT ![l] = x] \in Seq(Range([s EXCEPT ![l] = x]))
         /\ [s EXCEPT ![l] = x] # << >>
         /\ Len([s EXCEPT ![l] = x]) = Len(s)
         /\ \A i \in 1 .. Len(s) : [s EXCEPT ![l] = x][i] = IF i = l THEN x ELSE s[i]
<1> DEFINE S == Range(s) \cup {x}
           t == [s EXCEPT ![l] = x]
<1>1. s \in Seq(S)
  BY SeqMonotonic
<1>2. /\ t \in Seq(S) /\ Len(t) = Len(s)
      /\ \A i \in 1 .. Len(s) : t[i] = IF i = l THEN x ELSE s[i]
  BY <1>1, ExceptSeq
<1> HIDE DEF t
<1>3. t # << >>
  <2>1. Len(s) \in Nat
    BY LenProperties
  <2> QED BY <1>2, <2>1, EmptySeq
<1> QED BY <1>2, <1>3, SeqOfItsRange DEF t

\* The texts of a file are sequences of lines.
LEMMA FileLines ==
  ASSUME file \in Files, NEW l \in Locations
  PROVE  /\ Len(file[l]) \in Nat /\ DOMAIN file[l] = 1 .. Len(file[l])
         /\ \A k \in 1 .. Len(file[l]) : IsLine(file[l][k])
<1>1. IsText(file[l])
  BY CycleAssumption
<1> QED BY <1>1, LenProperties DEF IsText

\* What is said of a file does not change while the file does not.
LEMMA SameFile ==
  ASSUME file' = file, defined' = defined, splits' = splits
  PROVE  /\ \A l : Destination(l)' = Destination(l)
         /\ \A l, f : Effective(l, f)' = Effective(l, f)
         /\ \A l : Bad(l)' <=> Bad(l)
         /\ \A l : Unreadable(l)' <=> Unreadable(l)
         /\ \A c, l : MergedAsNamed(c, l)' <=> MergedAsNamed(c, l)
<1>1. \A l, f : Word(l, f)' = Word(l, f)
  BY DEF Word
<1>2. \A l : Destination(l)' = Destination(l)
  BY <1>1 DEF Destination, Names
<1>3. \A l, f : Effective(l, f)' = Effective(l, f)
  BY <1>1 DEF Effective
<1>4. \A l : Bad(l)' <=> Bad(l)
  BY <1>1, <1>2, <1>3 DEF Bad
<1>5. \A l : Unreadable(l)' <=> Unreadable(l)
  BY DEF Unreadable
<1>6. \A c, l : MergedAsNamed(c, l)' <=> MergedAsNamed(c, l)
  BY <1>1, <1>2, <1>3 DEF MergedAsNamed
<1> QED BY <1>2, <1>3, <1>4, <1>5, <1>6

-----------------------------------------------------------------------------
\* No location begun.
LEMMA EmptyConf == << >> \in Seq(Range(<< >>)) /\ Len(<< >>) = 0
  BY EmptySeq

\* A line that lists its location is accepted.
LEMMA ListsIsAccepted ==
  ASSUME NEW c, NEW line, Lists(line)
  PROVE  Accepts(c, line)
<1>1. line.set = "enable" /\ line.to = "on"
  BY DEF Lists
<1> QED BY <1>1 DEF Accepts, AcceptsSwitch, Numbers

\* The invariant holds initially.
LEMMA ConfigInvInit == ConfigInit => ConfigInv
<1> SUFFICES ASSUME ConfigInit PROVE ConfigInv
  OBVIOUS
<1> USE DEF ConfigInit
<1>1. Progress
  BY EmptyConf, CycleAssumption DEF Progress
<1>2. ReadAsSaid /\ MergedSoFar /\ Warned /\ Registered
  BY EmptyConf DEF ReadAsSaid, MergedSoFar, Warned, Registered
<1>3. Matches(Copy)
  BY DEF Matches, Copy
<1>4. Copied
  BY <1>3 DEF Copied
<1> QED BY <1>1, <1>2, <1>4 DEF ConfigInv

\* Outside the idle state, nothing that the copies depend on changes.
LEMMA CopiesKept ==
  ASSUME Copied, forked' = forked, state' # "idle" \/ tainted'
  PROVE  Copied'
  BY DEF Copied

\* A configuration begins with nothing read and nothing registered.
LEMMA PreconfigurationStep == ConfigInv /\ Preconfiguration => ConfigInv'
<1> SUFFICES ASSUME ConfigInv, Preconfiguration PROVE ConfigInv'
  OBVIOUS
<1>1. /\ state' = "reading" /\ conf' = << >> /\ merged' = 0 /\ lines' = 0 /\ forked' = forked
      /\ file' \in Files /\ tenants' = {} /\ sites' = {} /\ defined' = {} /\ registry' = {}
  BY EmptyConf DEF ConfigInv, Progress, Preconfiguration, Begin
<1>2. Progress'
  BY <1>1, EmptyConf, CycleAssumption DEF Progress
<1>3. (ReadAsSaid /\ MergedSoFar /\ Warned /\ Registered)'
  BY <1>1, EmptyConf DEF ReadAsSaid, MergedSoFar, Warned, Registered
<1>4. Copied'
  BY <1>1, CopiesKept DEF ConfigInv
<1> QED BY <1>2, <1>3, <1>4 DEF ConfigInv

\* A refused configuration leaves the registries tainted, and nothing else.
LEMMA AbandonStep == ConfigInv /\ Abandon => ConfigInv'
<1> SUFFICES ASSUME ConfigInv, Abandon PROVE ConfigInv'
  OBVIOUS
<1>1. /\ state' = "idle" /\ conf' = << >> /\ merged' = 0 /\ lines' = 0
      /\ forked' = forked /\ tainted' = TRUE
  BY DEF Abandon, Forget
<1>2. Progress'
  BY <1>1, EmptyConf, CycleAssumption DEF Progress
<1>3. (ReadAsSaid /\ MergedSoFar /\ Warned /\ Registered)'
  BY <1>1, EmptyConf DEF ReadAsSaid, MergedSoFar, Warned, Registered
<1>4. Copied'
  BY <1>1, CopiesKept DEF ConfigInv
<1> QED BY <1>2, <1>3, <1>4 DEF ConfigInv

\* A worker that is forked again copies the master, whose copy matches or is tainted.
LEMMA RespawnStep == ASSUME ConfigInv, NEW w \in Workers, Respawn(w) PROVE ConfigInv'
<1>1. /\ UNCHANGED <<state, cycles, running, serving, promised, tainted, splits, registry, tenants,
                     sites, defined, file, conf, lines, merged>>
      /\ state = "idle" /\ forked' = [forked EXCEPT ![w] = Copy] /\ DOMAIN forked = Workers
  BY DEF Respawn, ConfigInv, Copied, master, registries, parse
<1>2. Progress'
  BY <1>1, SameFile DEF ConfigInv, Progress, AllRead
<1>3. conf = << >> /\ merged = 0
  BY <1>1, EmptyConf DEF ConfigInv, Progress
<1>4. (ReadAsSaid /\ MergedSoFar /\ Warned /\ Registered)'
  BY <1>1, <1>3, EmptyConf DEF ReadAsSaid, MergedSoFar, Warned, Registered
<1>5. Copied'
  <2>1. tainted = FALSE => Matches(Copy)
    BY <1>1 DEF ConfigInv, Copied
  <2>2. Copy' = Copy /\ Copy.tainted = tainted
    BY <1>1 DEF Copy
  <2> HIDE DEF Copy
  <2>3. \A v \in Workers : forked'[v] = IF v = w THEN Copy ELSE forked[v]
    BY <1>1
  <2>4. DOMAIN forked' = Workers
    BY <1>1
  <2> QED BY <1>1, <2>1, <2>2, <2>3, <2>4 DEF ConfigInv, Copied
<1> QED BY <1>2, <1>4, <1>5 DEF ConfigInv

\* A tenant is defined before anything is merged.
LEMMA TenantStep == ASSUME ConfigInv, NEW t \in Tenants, Tenant(t) PROVE ConfigInv'
<1>1. /\ UNCHANGED <<state, cycles, running, serving, promised, tainted, splits, registry,
                     sites, file, conf, lines, merged, forked>>
      /\ state = "reading" /\ merged = 0
      /\ tenants' = tenants \cup {t} /\ defined' = defined \cup {t}
  BY DEF Tenant, master, parse, ConfigInv, Progress
<1>2. Progress'
  BY <1>1 DEF ConfigInv, Progress, AllRead
<1>3. ReadAsSaid' /\ Registered'
  BY <1>1 DEF ConfigInv, ReadAsSaid, Registered, LinesRead
<1>4. MergedSoFar' /\ Warned'
  BY <1>1 DEF MergedSoFar, Warned
<1>5. Copied'
  BY <1>1, CopiesKept DEF ConfigInv
<1> QED BY <1>2, <1>3, <1>4, <1>5 DEF ConfigInv

\* Once every line is read, what the lines say is what the locations say.
LEMMA EndOfDirectivesStep == ConfigInv /\ EndOfDirectives => ConfigInv'
<1> SUFFICES ASSUME ConfigInv, EndOfDirectives PROVE ConfigInv'
  OBVIOUS
<1>1. /\ UNCHANGED <<cycles, running, serving, promised, tainted, splits, registry, tenants,
                     defined, sites, file, conf, lines, merged, forked>>
      /\ state = "reading" /\ state' = "merging" /\ merged = 0 /\ sites = {}
      /\ AllRead /\ Len(conf) = Depth
  BY DEF EndOfDirectives, master, registries, parse, ConfigInv, Progress
<1>2. Progress'
  BY <1>1 DEF ConfigInv, Progress, AllRead
<1>3. ReadAsSaid' /\ Registered'
  BY <1>1 DEF ConfigInv, ReadAsSaid, Registered, LinesRead
<1>4. MergedSoFar' /\ Warned'
  BY <1>1 DEF MergedSoFar, Warned
<1>5. Copied'
  BY <1>1, CopiesKept DEF ConfigInv
<1> QED BY <1>2, <1>3, <1>4, <1>5 DEF ConfigInv

\* The next location begins.
LEMMA BeginLocationStep == ConfigInv /\ BeginLocation => ConfigInv'
<1> SUFFICES ASSUME ConfigInv, BeginLocation PROVE ConfigInv'
  OBVIOUS
<1>0. PICK n \in Nat : n = Len(conf)
  BY LenProperties DEF ConfigInv, Progress
<1>1. /\ UNCHANGED <<state, cycles, running, serving, promised, tainted, splits, registry, tenants,
                     defined, sites, file, merged, forked>>
      /\ state = "reading" /\ merged = 0 /\ AllRead /\ n < Depth /\ file \in Files
      /\ conf \in Seq(Range(conf)) /\ n = Len(conf)
      /\ conf' = Append(conf, Default) /\ lines' = 0
  BY <1>0 DEF BeginLocation, master, registries, ConfigInv, Progress
<1>2. /\ conf' \in Seq(Range(conf')) /\ conf' # << >> /\ Len(conf') = n + 1
      /\ conf'[n + 1] = Default /\ \A i \in 1 .. n : conf'[i] = conf[i]
  BY <1>1, Appended
<1>3. n + 1 \in Locations
  BY <1>1, CycleAssumption DEF Locations
<1>4. /\ \A l \in 1 .. n : LinesRead(l)' = Len(file[l]) /\ LinesRead(l) = Len(file[l])
      /\ LinesRead(n + 1)' = 0
  <2>1. \A l \in 1 .. n : LinesRead(l)' = Len(file[l])
    BY <1>1, <1>2 DEF LinesRead
  <2>2. LinesRead(n + 1)' = 0
    BY <1>1, <1>2 DEF LinesRead
  <2>3. \A l \in 1 .. n : LinesRead(l) = Len(file[l])
    <3>1. n >= 1 => lines = Len(file[n])
      <4>1. n >= 1 => conf # << >>
        BY <1>1, EmptyConf
      <4> QED BY <1>1, <4>1 DEF AllRead
    <3>2. \A l \in 1 .. n : LinesRead(l) = IF l < n THEN Len(file[l]) ELSE lines
      BY <1>1 DEF LinesRead
    <3>3. \A l \in 1 .. n : l < n \/ l = n
      OBVIOUS
    <3> QED BY <3>1, <3>2, <3>3
  <2> QED BY <2>1, <2>2, <2>3
<1>5. 1 .. Len(conf') = (1 .. n) \cup {n + 1}
  BY <1>1, <1>2
<1>6. Progress'
  BY <1>1, <1>2, <1>3, FileLines DEF ConfigInv, Progress, Locations
<1>7. ReadAsSaid'
  <2> SUFFICES ASSUME NEW l \in 1 .. Len(conf')
               PROVE  /\ OwnAsSaid(conf'[l], l, file[l], LinesRead(l)')
                      /\ Readable(file[l], LinesRead(l)') /\ ListsIfOn(file[l], LinesRead(l)')
    BY <1>1 DEF ReadAsSaid
  <2>1. CASE l \in 1 .. n
    BY <1>1, <1>2, <1>4, <2>1 DEF ConfigInv, ReadAsSaid
  <2>2. CASE l = n + 1
    BY <1>2, <1>4, <2>2, NothingRead
  <2> QED BY <1>5, <2>1, <2>2
<1>8. MergedSoFar' /\ Warned'
  BY <1>1 DEF MergedSoFar, Warned
<1>9. Registered'
  <2>1. ~Listing(file[n + 1], 0)
    BY DEF Listing
  <2> QED BY <1>1, <1>4, <1>5, <2>1 DEF ConfigInv, Registered
<1>10. Copied'
  BY <1>1, CopiesKept DEF ConfigInv
<1> QED BY <1>6, <1>7, <1>8, <1>9, <1>10 DEF ConfigInv

\* One directive of the last location, accepted, ignored or refused.
LEMMA DirectiveStep == ConfigInv /\ Directive => ConfigInv'
<1> SUFFICES ASSUME ConfigInv, Directive PROVE ConfigInv'
  OBVIOUS
<1>0. PICK n \in Nat : n = Len(conf)
  BY LenProperties DEF ConfigInv, Progress
<1> DEFINE line == file[n][lines + 1]
<1>1. /\ UNCHANGED <<cycles, running, serving, promised, tainted, splits, tenants, defined,
                     sites, file, merged, forked>>
      /\ state = "reading" /\ merged = 0 /\ ~AllRead /\ n <= Depth /\ file \in Files
      /\ conf \in Seq(Range(conf)) /\ n = Len(conf) /\ lines \in Nat
      /\ conf # << >> /\ lines < Len(file[n]) /\ Depth \in Nat
  <2>1. conf # << >> /\ lines # Len(file[Len(conf)])
    BY DEF Directive, AllRead
  <2>2. Len(conf) \in Locations /\ Depth \in Nat
    BY <1>0, <2>1, EmptySeq, CycleAssumption DEF ConfigInv, Progress, Locations
  <2>3. Len(file[Len(conf)]) \in Nat
    BY <2>2, FileLines DEF ConfigInv, Progress, Directive
  <2> QED BY <1>0, <2>1, <2>2, <2>3 DEF Directive, master, ConfigInv, Progress
<1>2. n \in 1 .. n /\ n \in Locations
  BY <1>1, EmptySeq DEF Locations
<1>3. /\ DOMAIN file[n] = 1 .. Len(file[n]) /\ Len(file[n]) \in Nat
      /\ lines + 1 \in DOMAIN file[n] /\ IsLine(line)
  BY <1>1, <1>2, FileLines
<1>4. /\ OwnAsSaid(conf[n], n, file[n], lines)
      /\ Readable(file[n], lines) /\ ListsIfOn(file[n], lines)
  <2>1. LinesRead(n) = lines
    BY <1>1 DEF LinesRead
  <2> QED BY <1>1, <1>2, <2>1 DEF ConfigInv, ReadAsSaid
<1>5. Copied' /\ MergedSoFar' /\ Warned'
  BY <1>1, CopiesKept DEF ConfigInv, Directive, MergedSoFar, Warned
<1>6. CASE state' = "refused"
  <2>1. /\ conf' = conf /\ registry' = registry /\ lines' = lines
        /\ ~Accepts(conf[n], line) /\ line.set \notin LogsGarbled
    BY <1>1, <1>6 DEF Directive
  <2>2. Unreadable(n)
    BY <1>1, <1>3, <1>4, <2>1, LineRefused
  <2>3. Unreadable(n)' /\ ~AllRead'
    BY <1>1, <2>1, <2>2, SameFile DEF AllRead
  <2> HIDE DEF line
  <2>4. Progress'
    BY <1>1, <1>6, <2>1, <2>3 DEF ConfigInv, Progress
  <2>5. ReadAsSaid' /\ Registered'
    BY <1>1, <2>1 DEF ConfigInv, ReadAsSaid, Registered, LinesRead
  <2> QED BY <1>5, <2>4, <2>5 DEF ConfigInv
<1>7. CASE state' = "reading"
  <2>1. /\ conf' = IF Accepts(conf[n], line)
                   THEN [conf EXCEPT ![n] = SetField(@, line, n)] ELSE conf
        /\ registry' = IF Accepts(conf[n], line) /\ Lists(line)
                       THEN registry \cup {<<n, cycles>>} ELSE registry
        /\ lines' = lines + 1
        /\ ~Accepts(conf[n], line) => line.set \in LogsGarbled
    BY <1>1, <1>7 DEF Directive
  <2>2. /\ conf' \in Seq(Range(conf')) /\ conf' # << >> /\ Len(conf') = n
        /\ \A i \in 1 .. n : i # n => conf'[i] = conf[i]
        /\ conf'[n] = IF Accepts(conf[n], line) THEN SetField(conf[n], line, n) ELSE conf[n]
    <3>1. CASE Accepts(conf[n], line)
      <4> DEFINE c == SetField(conf[n], line, n)
      <4>1. conf' = [conf EXCEPT ![n] = c]
        BY <2>1, <3>1
      <4> HIDE DEF c, line
      <4>2. /\ [conf EXCEPT ![n] = c] \in Seq(Range([conf EXCEPT ![n] = c]))
            /\ [conf EXCEPT ![n] = c] # << >>
            /\ Len([conf EXCEPT ![n] = c]) = Len(conf)
            /\ \A i \in 1 .. Len(conf) : [conf EXCEPT ![n] = c][i] = IF i = n THEN c ELSE conf[i]
        <5>1. n \in 1 .. Len(conf) /\ conf \in Seq(Range(conf))
          BY <1>1, <1>2
        <5> QED BY <5>1, Replaced
      <4> QED BY <1>1, <1>2, <3>1, <4>1, <4>2 DEF c
    <3>2. CASE ~Accepts(conf[n], line)
      BY <1>1, <2>1, <3>2
    <3> QED BY <3>1, <3>2
  <2>3. /\ OwnAsSaid(conf'[n], n, file[n], lines + 1)
        /\ Readable(file[n], lines + 1) /\ ListsIfOn(file[n], lines + 1)
    <3>1. CASE Accepts(conf[n], line)
      BY <1>1, <1>3, <1>4, <2>2, <3>1, LineAccepted
    <3>2. CASE ~Accepts(conf[n], line)
      BY <1>1, <1>3, <1>4, <2>1, <2>2, <3>2, LineIgnored
    <3> QED BY <3>1, <3>2
  <2>4. Listing(file[n], lines + 1) <=> Listing(file[n], lines) \/ Lists(line)
    BY <1>1 DEF Listing
  <2>5. Lists(line) => Accepts(conf[n], line)
    BY ListsIsAccepted
  <2> HIDE DEF line
  <2>6. /\ LinesRead(n) = lines /\ LinesRead(n)' = lines + 1
        /\ \A l \in 1 .. n : l # n => LinesRead(l)' = LinesRead(l)
    BY <1>1, <2>1, <2>2 DEF LinesRead
  <2>7. Progress'
    BY <1>1, <1>7, <2>1, <2>2 DEF ConfigInv, Progress
  <2>8. ReadAsSaid'
    <3> SUFFICES ASSUME NEW l \in 1 .. n
                 PROVE  /\ OwnAsSaid(conf'[l], l, file[l], LinesRead(l)')
                        /\ Readable(file[l], LinesRead(l)') /\ ListsIfOn(file[l], LinesRead(l)')
      BY <1>1, <2>2 DEF ReadAsSaid
    <3>1. CASE l = n
      BY <2>3, <2>6, <3>1
    <3>2. CASE l # n
      BY <1>1, <2>2, <2>6, <3>2 DEF ConfigInv, ReadAsSaid
    <3> QED BY <3>1, <3>2
  <2>9. Registered'
    <3>1. \A e : e \in registry' <=> e \in registry \/ (e = <<n, cycles>> /\ Lists(line))
      BY <2>1, <2>5
    <3>2. \A l \in 1 .. n : Listing(file[l], LinesRead(l)') <=>
             Listing(file[l], LinesRead(l)) \/ (l = n /\ Lists(line))
      BY <2>4, <2>6
    <3>3. /\ \A e \in registry :
               \E l \in 1 .. n : e = <<l, cycles>> /\ Listing(file[l], LinesRead(l))
          /\ \A l \in 1 .. n : Listing(file[l], LinesRead(l)) => <<l, cycles>> \in registry
      BY <1>1 DEF ConfigInv, Registered
    <3>4. /\ \A e \in registry' :
               \E l \in 1 .. n : e = <<l, cycles>> /\ Listing(file[l], LinesRead(l)')
          /\ \A l \in 1 .. n : Listing(file[l], LinesRead(l)') => <<l, cycles>> \in registry'
      BY <1>2, <3>1, <3>2, <3>3
    <3> QED BY <1>1, <2>2, <3>4 DEF Registered
  <2> QED BY <1>5, <2>7, <2>8, <2>9 DEF ConfigInv
<1> QED BY <1>6, <1>7, <1>1 DEF Directive

\* A location that is warned of names the one that gives its address.
LEMMA WarnedAsNamed ==
  ASSUME NEW c, NEW l, MergedAsNamed(c, l), defined \subseteq Tenants
  PROVE  /\ c.enable = Effective(l, "enable")
         /\ c.destination.addr # Unset <=> Destination(l) # Nowhere
         /\ c.destination.at = Destination(l).at
<1> DEFINE d == Destination(l)
<1>1. /\ c.enable = Effective(l, "enable")
      /\ c.destination = IF d.ref # Unset THEN [d EXCEPT !.addr = AddressOf(d.ref)] ELSE d
      /\ d.ref # Unset => d.ref \in defined
      /\ d # Nowhere => d.ref # Unset \/ d.addr # Unset
  BY DEF MergedAsNamed, Worded
<1>2. d.ref # Unset => AddressOf(d.ref) # Unset
  BY <1>1, CycleAssumption
<1>3. DOMAIN d = {"ref", "addr", "at"}
  BY DEF Destination, Nowhere
<1> HIDE DEF d
<1>4. d = Nowhere => d.ref = Unset /\ d.addr = Unset
  BY DEF Nowhere
<1> QED BY <1>1, <1>2, <1>3, <1>4 DEF d

\* One location merged or refused.
LEMMA MergeLocationStep == ConfigInv /\ MergeLocation => ConfigInv'
<1> SUFFICES ASSUME ConfigInv, MergeLocation PROVE ConfigInv'
  OBVIOUS
<1>0. PICK n \in Nat : n = merged
  BY DEF ConfigInv, Progress
<1> DEFINE l == n + 1
           p == IF l = 1 THEN Default ELSE conf[n]
           c == Merge(conf[l], p)
<1>1. /\ UNCHANGED <<cycles, running, serving, promised, tainted, splits, registry, tenants, defined,
                     file, lines, forked>>
      /\ state = "merging" /\ merged = n /\ l <= Depth /\ Len(conf) = Depth /\ Depth \in Nat
      /\ AllRead /\ file \in Files /\ tenants = defined /\ defined \subseteq Tenants
      /\ conf \in Seq(Range(conf))
  BY <1>0, CycleAssumption DEF MergeLocation, master, ConfigInv, Progress
<1>2. l \in Locations /\ l \in 1 .. Len(conf) /\ Locations = 1 .. Len(conf)
  BY <1>1 DEF Locations
<1>3. conf # << >> /\ lines = Len(file[Len(conf)])
  BY <1>1, EmptyConf DEF AllRead
<1>4. \A i \in 1 .. Len(conf) : LinesRead(i) = Len(file[i])
  BY <1>3 DEF LinesRead
<1>5. OwnAsSaid(conf[l], l, file[l], Len(file[l]))
  BY <1>1, <1>2, <1>4 DEF ConfigInv, ReadAsSaid
<1>6. MergedAsNamed(p, n)
  <2>1. CASE n = 0
    BY <2>1, OutermostIsDefault
  <2>2. CASE n # 0
    BY <1>1, <2>2 DEF ConfigInv, MergedSoFar
  <2> QED BY <2>1, <2>2
<1>7. /\ MergeFails(conf[l], c, defined, splits) <=> Bad(l)
      /\ ~Bad(l) => MergedAsNamed(c, l)
  <2>1. DOMAIN file[l] = 1 .. Len(file[l])
    BY <1>1, <1>2, FileLines
  <2> HIDE DEF p
  <2> QED BY <1>1, <1>2, <1>5, <1>6, <2>1, LocationMerged
<1>8. Copied'
  BY <1>1, CopiesKept DEF ConfigInv, MergeLocation
<1>9. IF Bad(l) THEN state' = "refused" /\ UNCHANGED <<conf, merged, sites>>
      ELSE /\ conf' = [conf EXCEPT ![l] = c] /\ merged' = l /\ state' = "merging"
           /\ sites' = IF CashuToOperator(c, splits) THEN sites \cup {c.destination.at} ELSE sites
  BY <1>1, <1>7 DEF MergeLocation
<1> HIDE DEF c, p
<1>10. CASE Bad(l)
  <2>1. Bad(merged + 1)' /\ AllRead'
    BY <1>1, <1>9, <1>10, SameFile DEF AllRead
  <2>2. Progress'
    BY <1>1, <1>3, <1>9, <1>10, <2>1 DEF ConfigInv, Progress
  <2>3. ReadAsSaid' /\ Registered' /\ Warned'
    BY <1>1, <1>9, <1>10 DEF ConfigInv, ReadAsSaid, Registered, Warned, LinesRead
  <2>4. MergedSoFar'
    BY <1>1, <1>9, <1>10, SameFile DEF ConfigInv, MergedSoFar
  <2> QED BY <1>8, <2>2, <2>3, <2>4 DEF ConfigInv
<1>11. CASE ~Bad(l)
  <2>1. /\ conf' \in Seq(Range(conf')) /\ conf' # << >> /\ Len(conf') = Len(conf)
        /\ \A i \in 1 .. Len(conf) : conf'[i] = IF i = l THEN c ELSE conf[i]
    <3>1. /\ [conf EXCEPT ![l] = c] \in Seq(Range([conf EXCEPT ![l] = c]))
          /\ [conf EXCEPT ![l] = c] # << >>
          /\ Len([conf EXCEPT ![l] = c]) = Len(conf)
          /\ \A i \in 1 .. Len(conf) : [conf EXCEPT ![l] = c][i] = IF i = l THEN c ELSE conf[i]
      <4>1. l \in 1 .. Len(conf) /\ conf \in Seq(Range(conf))
        BY <1>1, <1>2
      <4> HIDE DEF l
      <4> QED BY <4>1, Replaced
    <3> QED BY <1>9, <1>11, <3>1
  <2>2. AllRead'
    BY <1>1, <1>3, <2>1 DEF AllRead
  <2>3. Progress'
    BY <1>1, <1>2, <1>3, <1>9, <1>11, <2>1, <2>2 DEF ConfigInv, Progress
  <2>4. \A i \in 1 .. Len(conf) : LinesRead(i)' = LinesRead(i)
    BY <1>1, <2>1 DEF LinesRead
  <2>5. ReadAsSaid' /\ Registered'
    BY <1>1, <1>9, <1>11, <2>1, <2>4 DEF ConfigInv, ReadAsSaid, Registered
  <2>6. 1 .. l = (1 .. n) \cup {l}
    OBVIOUS
  <2>7. MergedSoFar'
    <3> SUFFICES ASSUME NEW i \in 1 .. l
                 PROVE  MergedAsNamed(conf[i], i)' /\ ~Bad(i)'
      BY <1>9, <1>11 DEF MergedSoFar
    <3>1. PICK d : d = conf'[i]
      OBVIOUS
    <3>2. MergedAsNamed(d, i) /\ ~Bad(i)
      <4>1. CASE i = l
        BY <1>2, <1>7, <1>11, <2>1, <3>1, <4>1
      <4>2. CASE i \in 1 .. n
        <5>1. conf'[i] = conf[i]
          BY <1>1, <1>2, <2>1, <4>2
        <5> QED BY <1>1, <3>1, <4>2, <5>1 DEF ConfigInv, MergedSoFar
      <4> QED BY <2>6, <4>1, <4>2
    <3>3. MergedAsNamed(d, i)' /\ ~Bad(i)'
      BY <1>1, <3>2, SameFile
    <3> QED BY <3>1, <3>3
  <2>8. Warned'
    <3> DEFINE W(k) == splits /\ On(Effective(k, "enable")) /\ Destination(k) # Nowhere
    <3>1. sites = {Destination(k).at : k \in {k \in 1 .. n : W(k)}}
      BY <1>1 DEF ConfigInv, Warned
    <3>2. CashuToOperator(c, splits) <=> W(l)
      BY <1>1, <1>7, <1>11, WarnedAsNamed DEF CashuToOperator
    <3>3. c.destination.at = Destination(l).at
      BY <1>1, <1>7, <1>11, WarnedAsNamed
    <3>4. \A k : W(k)' <=> W(k)
      BY <1>1, SameFile
    <3>5. \A k : Destination(k)' = Destination(k)
      BY <1>1, SameFile
    <3> HIDE DEF W
    <3>6. sites' = {Destination(k).at : k \in {k \in 1 .. l : W(k)}}
      BY <1>9, <1>11, <2>6, <3>1, <3>2, <3>3
    <3> QED BY <1>9, <1>11, <3>4, <3>5, <3>6 DEF Warned, W
  <2> QED BY <1>8, <2>3, <2>5, <2>7, <2>8 DEF ConfigInv
<1> QED BY <1>10, <1>11

\* The configuration is loaded: what was registered while reading is what is on in the
\* merged locations.  A location is listed if one line says `l402 on`, and then its last
\* word, whichever it is, wins over what it inherits.
LEMMA PostconfigurationStep == ConfigInv /\ Postconfiguration => ConfigInv'
<1> SUFFICES ASSUME ConfigInv, Postconfiguration PROVE ConfigInv'
  OBVIOUS
<1>1. /\ state' = "idle" /\ conf' = << >> /\ merged' = 0 /\ lines' = 0
      /\ tainted' = FALSE /\ running' = cycles /\ registry' = registry
      /\ serving' = [l \in Locations |-> [on |-> On(conf[l].enable), hidden |-> conf[l].hidden]]
      /\ promised' = [list |-> {l \in Locations : On(Word(l, "enable"))},
                      hide |-> {l \in Locations : Effective(l, "hidden") # Unset}]
      /\ forked' = [w \in Workers |-> Copy']
  BY DEF Postconfiguration, Forget
<1>2. /\ state = "merging" /\ merged = Depth /\ Len(conf) = Depth /\ Depth \in Nat
      /\ AllRead /\ file \in Files
  BY CycleAssumption DEF Postconfiguration, ConfigInv, Progress
<1>3. Locations = 1 .. Len(conf) /\ Locations = 1 .. merged
  BY <1>2 DEF Locations
<1>4. \A l \in Locations : LinesRead(l) = Len(file[l])
  <2>1. Locations # {} => conf # << >>
    BY <1>2, <1>3, EmptyConf
  <2> QED BY <1>2, <1>3, <2>1 DEF LinesRead, AllRead
<1>5. ASSUME NEW l \in Locations
      PROVE  /\ (<<l, cycles>> \in registry /\ serving'[l].on) <=> On(Word(l, "enable"))
             /\ serving'[l].hidden <=> Effective(l, "hidden") # Unset
  <2>1. serving'[l].on = On(conf[l].enable) /\ serving'[l].hidden = conf[l].hidden
    BY <1>1
  <2>2. /\ conf[l].enable = Effective(l, "enable")
        /\ conf[l].hidden <=> Effective(l, "hidden") # Unset
    BY <1>3 DEF ConfigInv, MergedSoFar, MergedAsNamed, Worded
  <2>3. Effective(l, "enable") =
          IF Word(l, "enable") # Unset THEN Word(l, "enable") ELSE Effective(l - 1, "enable")
    <3>1. PICK k \in Nat : l = k + 1
      <4>1. l - 1 \in Nat /\ l = (l - 1) + 1
        BY DEF Locations
      <4> QED BY <4>1
    <3>2. l - 1 = k
      BY <3>1
    <3> QED BY <3>1, <3>2, NearestNext DEF Effective
  <2>4. Word(l, "enable") = Said(file[l], "enable", Len(file[l]))
    BY <1>2, FileLines, WordIsSaid
  <2>5. ListsIfOn(file[l], Len(file[l]))
    BY <1>3, <1>4 DEF ConfigInv, ReadAsSaid
  <2>6. <<l, cycles>> \in registry <=> Listing(file[l], Len(file[l]))
    <3>1. Listing(file[l], Len(file[l])) => <<l, cycles>> \in registry
      BY <1>2, <1>3, <1>4 DEF ConfigInv, Registered
    <3>2. ASSUME <<l, cycles>> \in registry PROVE Listing(file[l], Len(file[l]))
      <4>1. PICK k \in Locations : <<l, cycles>> = <<k, cycles>> /\ Listing(file[k], LinesRead(k))
        BY <1>2, <1>3, <3>2 DEF ConfigInv, Registered
      <4> QED BY <1>4, <4>1
    <3> QED BY <3>1, <3>2
  <2> QED BY <2>1, <2>2, <2>3, <2>4, <2>5, <2>6 DEF ListsIfOn
<1>6. \A e \in registry : \E l \in Locations : e = <<l, cycles>>
  BY <1>2, <1>3 DEF ConfigInv, Registered
<1>7. Matches(Copy')
  <2> DEFINE info == {e[1] : e \in {e \in registry : serving'[e[1]].on}}
             list == {l \in Locations : On(Word(l, "enable"))}
             hide == {l \in Locations : Effective(l, "hidden") # Unset}
  <2>1. info = list
    <3>1. ASSUME NEW x \in info PROVE x \in list
      <4>1. PICK e \in registry : x = e[1] /\ serving'[e[1]].on
        OBVIOUS
      <4>2. PICK l \in Locations : e = <<l, cycles>>
        BY <1>6
      <4> QED BY <1>5, <4>1, <4>2
    <3>2. ASSUME NEW x \in list PROVE x \in info
      <4>1. <<x, cycles>> \in registry /\ serving'[x].on /\ <<x, cycles>>[1] = x
        BY <1>5
      <4> QED BY <4>1
    <3> QED BY <3>1, <3>2
  <2>2. {l \in info : ~serving'[l].hidden} = list \ hide
    BY <1>5, <2>1
  <2>3. \A e \in registry : e[2] = cycles
    BY <1>6
  <2>4. Copy' = [cycle |-> cycles, serving |-> serving',
                 promised |-> [list |-> list, hide |-> hide],
                 registry |-> registry, tainted |-> FALSE]
    BY <1>1 DEF Copy
  <2> QED BY <2>1, <2>2, <2>3, <2>4 DEF Matches
<1>8. Progress'
  BY <1>1, EmptyConf, CycleAssumption DEF Progress
<1>9. (ReadAsSaid /\ MergedSoFar /\ Warned /\ Registered)'
  BY <1>1, EmptyConf DEF ReadAsSaid, MergedSoFar, Warned, Registered
<1>10. Copied'
  BY <1>1, <1>7 DEF Copied
<1> QED BY <1>8, <1>9, <1>10 DEF ConfigInv

\* Every step preserves the invariant.
LEMMA ConfigStep == ConfigInv /\ [ConfigNext]_configVars => ConfigInv'
<1> SUFFICES ASSUME ConfigInv, [ConfigNext]_configVars PROVE ConfigInv'
  OBVIOUS
<1>1. CASE Refused \/ OtherRefused \/ \E t \in Tenants : TenantTwice(t)
  BY <1>1, AbandonStep DEF Refused, OtherRefused, TenantTwice
<1>2. CASE UNCHANGED configVars
  <2>1. UNCHANGED <<state, cycles, running, serving, promised, tainted, splits, registry, tenants,
                    sites, defined, file, conf, lines, merged, forked>>
    BY <1>2 DEF configVars
  <2>2. Progress'
    BY <2>1, SameFile DEF ConfigInv, Progress, AllRead
  <2>3. ReadAsSaid' /\ Registered'
    BY <2>1 DEF ConfigInv, ReadAsSaid, Registered, LinesRead
  <2>4. MergedSoFar'
    <3> SUFFICES ASSUME NEW i \in 1 .. merged
                 PROVE  MergedAsNamed(conf[i], i)' /\ ~Bad(i)'
      BY <2>1 DEF MergedSoFar
    <3>1. PICK d : d = conf'[i]
      OBVIOUS
    <3>2. MergedAsNamed(d, i) /\ ~Bad(i)
      BY <2>1, <3>1 DEF ConfigInv, MergedSoFar
    <3>3. MergedAsNamed(d, i)' /\ ~Bad(i)'
      BY <2>1, <3>2, SameFile
    <3> QED BY <3>1, <3>3
  <2>5. Warned'
    <3>1. /\ \A l : Destination(l)' = Destination(l)
          /\ \A l, f : Effective(l, f)' = Effective(l, f)
      BY <2>1, SameFile
    <3> QED BY <2>1, <3>1 DEF ConfigInv, Warned
  <2>6. Copied'
    <3>1. Copy' = Copy
      BY <2>1 DEF Copy
    <3> QED BY <2>1, <3>1 DEF ConfigInv, Copied
  <2> QED BY <2>2, <2>3, <2>4, <2>5, <2>6 DEF ConfigInv
<1> QED BY <1>1, <1>2, PreconfigurationStep, TenantStep, BeginLocationStep, DirectiveStep,
           EndOfDirectivesStep, MergeLocationStep, PostconfigurationStep, RespawnStep DEF ConfigNext

\* So it holds in every state.
THEOREM ConfigInvariant == ConfigSpec => []ConfigInv
<1> QED BY ConfigInvInit, ConfigStep, PTL DEF ConfigSpec

\* NearestWins: inheritance one level at a time is inheritance from the nearest location
\* that speaks, for any depth and any file.
THEOREM NearestWinsHolds == ConfigSpec => []NearestWins
<1>1. ConfigInv => NearestWins
  BY DEF ConfigInv, MergedSoFar, MergedAsNamed, NearestWins
<1> QED BY <1>1, ConfigInvariant, PTL

\* PaysWhereNamed: every merged location pays where the nearest location that names a
\* destination says.
THEOREM PaysWhereNamedHolds == ConfigSpec => []PaysWhereNamed
<1>1. ConfigInv => PaysWhereNamed
  BY DEF ConfigInv, MergedSoFar, MergedAsNamed, PaysWhereNamed
<1> QED BY <1>1, ConfigInvariant, PTL

\* RefusedIffBad: exactly the configurations that are wrong as written are refused, at their
\* first wrong line or location, and the warning names exactly the sites it should.
THEOREM RefusedIffBadHolds == ConfigSpec => []RefusedIffBad
<1>1. ConfigInv => RefusedIffBad
  <2> SUFFICES ASSUME ConfigInv PROVE RefusedIffBad
    OBVIOUS
  <2>1. \A l \in 1 .. Len(conf) : l < Len(conf) \/ AllRead => ~Unreadable(l)
    <3> SUFFICES ASSUME NEW l \in 1 .. Len(conf), l < Len(conf) \/ AllRead
                 PROVE  ~Unreadable(l)
      OBVIOUS
    <3>1. /\ conf \in Seq(Range(conf)) /\ Len(conf) \in Nat /\ Len(conf) <= Depth
          /\ conf # << >>
      BY EmptyConf, LenProperties DEF ConfigInv, Progress
    <3>2. file \in Files /\ l \in Locations
      BY <3>1, CycleAssumption DEF ConfigInv, Progress, Locations
    <3>3. LinesRead(l) = Len(file[l])
      BY <3>1 DEF LinesRead, AllRead
    <3>4. Readable(file[l], Len(file[l]))
      BY <3>3 DEF ConfigInv, ReadAsSaid
    <3> QED BY <3>2, <3>4, FileLines, AllLinesRead
  <2>2. \A l \in 1 .. merged : ~Bad(l)
    BY DEF ConfigInv, MergedSoFar
  <2> QED BY <2>1, <2>2 DEF ConfigInv, Progress, Warned, RefusedIffBad
<1> QED BY <1>1, ConfigInvariant, PTL

\* ManifestMatches: the documents of a worker list what its configuration says, unless it
\* was forked after a refused reload.
THEOREM ManifestMatchesHolds == ConfigSpec => []ManifestMatches
<1>1. ConfigInv => ManifestMatches
  BY DEF ConfigInv, Copied, Matches, ManifestMatches, ManifestRoutes, InfoLocations
<1> QED BY <1>1, ConfigInvariant, PTL
=============================================================================
