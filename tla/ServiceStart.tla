---------------------------- MODULE ServiceStart ----------------------------
(***************************************************************************)
(* The life of one nginx master: init_module resolves the operator's       *)
(* environment once, before the fork, into statics that every worker       *)
(* inherits (src/src/lib.rs, src/src/cashu.rs); the wallet it opens is     *)
(* that of WalletIdentity.  nginx clears the environment in its workers,   *)
(* so that a setting not read by then is the default in every worker.      *)
(* Nothing that concerns Cashu stops the start: a failure is logged, and   *)
(* what was initialised before it stays.  The master and its forks are     *)
(* external.                                                               *)
(***************************************************************************)
EXTENDS WalletIdentity

CONSTANTS
  Environments,   \* what the operator may have set: sets of Options
  Worker          \* process slots

(* cashu: CASHU_ECASH_SUPPORT; mints: CASHU_WHITELISTED_MINTS names one at   *)
(* least; p2pk: CASHU_P2PK_MODE; key: CASHU_P2PK_PRIVATE_KEY is a valid key; *)
(* redeem: CASHU_REDEEM_ON_LIGHTNING; backend: ROOT_KEY and LN_CLIENT_TYPE   *)
(* are valid.                                                                *)
Options == {"cashu", "mints", "p2pk", "key", "redeem", "backend"}

ASSUME StartAssumption == Environments \subseteq SUBSET Options

VARIABLES
  settings,   \* the environment of the running master
  boot,       \* where it is in init_module
  statics,    \* the statics it has set: what its workers inherit
  up          \* the workers that run

startVars == <<vars, settings, boot, statics, up>>
wallet    == vars

Stages == {"down", "begin", "cashu", "mints", "p2pk", "module", "recover", "redeem", "ready"}

(* The statics: settings read, features turned on, and handles opened, which *)
(* name connections, threads or a runtime of the process that opened them;   *)
(* of the LNURL clients this holds if they keep a connection.                *)
Captured == {"ttl", "snapshot", "melt", "dleq", "backend", "payout"}
Enabled  == {"whitelist", "private key", "public key", "p2pk", "interval"}
Handles  == {"database", "wallets", "redis pool", "ln client", "runtime", "lnurl clients"}

StartInit ==
  /\ Init
  /\ settings = {} /\ boot = "down" /\ statics = {}
  /\ up = {}

(* A step of init_module from one stage to the next that sets some statics.  *)
Stage(from, to, set) ==
  /\ boot = from /\ boot' = to
  /\ statics' = statics \cup set
  /\ UNCHANGED <<wallet, settings, up>>

-----------------------------------------------------------------------------
(* A new master, with the environment it finds.                              *)
Launch ==
  /\ boot = "down"
  /\ settings' \in Environments
  /\ boot' = "begin"
  /\ UNCHANGED <<wallet, statics, up>>

(* get_preimage_ttl, get_cashu_token_ttl and init_env_snapshot.              *)
ReadEnvironment == Stage("begin", "cashu", {"ttl", "snapshot"})

SkipCashu == "cashu" \notin settings /\ Stage("cashu", "module", {})

(* The steps of initialize_cashu; its last sets CASHU_DB_URL and the melt    *)
(* settings, and opens the database for the master if it can.                *)
OpenWallet ==
  /\ boot = "cashu" /\ "cashu" \in settings
  /\ Start \/ Resolve \/ SavePhrase \/ CheckFingerprint \/ OpenDatabase
  /\ IF pc' = "serving"
     THEN \E opened \in SUBSET {"database"} : statics' = statics \cup {"melt"} \cup opened
     ELSE UNCHANGED statics
  /\ UNCHANGED <<settings, boot, up>>

(* Whatever came of it: an error of initialize_cashu is logged.              *)
LeaveCashu == pc \in {"serving", "off"} /\ Stage("cashu", "mints", {})

(* Blank or unset leaves every mint accepted, and so does a list that names  *)
(* none, which is an error, logged.                                          *)
ListMints ==
  Stage("mints", "p2pk", IF "mints" \in settings THEN {"whitelist"} ELSE {})

(* A key is used only with mints to accept its tokens from.                  *)
CanLock == "p2pk" \in settings /\ "whitelist" \in statics /\ "key" \in settings

(* Slip: CASHU_REQUIRE_DLEQ is left to the first token.                      *)
EnableP2pkDleqLater ==
  Stage("p2pk", "module",
        IF CanLock THEN {"private key", "public key", "p2pk"} ELSE {})

(* Slip: the mode is enabled first, and checked for its key and mints next.  *)
EnableP2pkFirst ==
  Stage("p2pk", "module",
        IF CanLock THEN {"private key", "public key", "p2pk", "dleq"}
        ELSE IF "p2pk" \in settings THEN {"p2pk"} ELSE {})

(* initialize_p2pk_mode.  An error leaves P2PK_MODE_ENABLED unset, which is  *)
(* standard mode.                                                            *)
EnableP2pk ==
  Stage("p2pk", "module",
        IF CanLock THEN {"private key", "public key", "p2pk", "dleq"} ELSE {})

(* L402Module::new: the key of the macaroons and the backend are read, and   *)
(* REDIS_URL, whose pool each worker builds for itself.                      *)
NewModule == "backend" \in settings /\ Stage("module", "recover", {"backend"})

(* Slip: the recovery takes its wallets from the cache the workers use.      *)
RecoverThroughCache ==
  \E warmed \in SUBSET {"lnurl clients"} :
    Stage("recover", "redeem",
          {"payout"} \cup warmed
            \cup (IF {"whitelist", "database"} \subseteq statics THEN {"wallets"} ELSE {}))

(* restore_wallets_state and reconcile_pending_proofs, with wallets that are *)
(* dropped again; the clients of the LNURL addresses, of which those that    *)
(* answer are kept for the workers; and initialize_ln_client.                *)
Recover ==
  \E warmed \in SUBSET {"lnurl clients"} : Stage("recover", "redeem", {"payout"} \cup warmed)

(* The interval is set even if there is no wallet to redeem from.            *)
EnableRedemption ==
  Stage("redeem", "ready",
        IF "redeem" \in settings /\ "cashu" \in settings THEN {"interval"} ELSE {})

-----------------------------------------------------------------------------
(* A worker is forked: on start, on a reload, or in the place of one that    *)
(* crashed.  It inherits the statics.  A reload does nothing else here: the  *)
(* zone of the counters is MetricsZone's, the locations are ConfigCycle's,   *)
(* and init_module finds INIT_DONE.                                          *)
Fork(w) ==
  /\ boot = "ready" /\ w \notin up
  /\ up' = up \cup {w}
  /\ UNCHANGED <<wallet, settings, boot, statics>>

ExitWorker(w) ==
  /\ w \in up
  /\ up' = up \ {w}
  /\ UNCHANGED <<wallet, settings, boot, statics>>

(* Slip: CASHU_DB_URL is set before the fingerprint is checked.              *)
ReceiveUnchecked ==
  /\ up # {}
  /\ pc \in {"serving", "off"} /\ phrase # Absent
  /\ owners' = owners \cup {phrase}
  /\ UNCHANGED <<pc, process, env, phraseFile, fingerprint, used, unmarked>>
  /\ UNCHANGED <<settings, boot, statics, up>>

(* A token is received by a worker, in its own handle on the database.       *)
ReceiveToken ==
  /\ up # {}
  /\ Receive
  /\ UNCHANGED <<settings, boot, statics, up>>

(* The master stops, dies, or is refused by init_module returning -1, and    *)
(* its workers go with it.                                                   *)
Down ==
  /\ boot # "down"
  /\ Stop \/ (pc = "down" /\ UNCHANGED wallet)
  /\ settings' = {} /\ boot' = "down" /\ statics' = {}
  /\ up' = {}

OperatorActs ==
  /\ boot = "down"
  /\ Operator
  /\ UNCHANGED <<settings, boot, statics, up>>

InitModule ==
  \/ ReadEnvironment \/ SkipCashu \/ OpenWallet \/ LeaveCashu
  \/ ListMints \/ EnableP2pk \/ NewModule \/ Recover \/ EnableRedemption

StartNext ==
  \/ Launch \/ InitModule \/ ReceiveToken \/ Down \/ OperatorActs
  \/ \E w \in Worker : Fork(w) \/ ExitWorker(w)

StartSpec == StartInit /\ [][StartNext]_startVars

-----------------------------------------------------------------------------
(* What a worker does with the statics. *)

(* get_cashu_payment_request answers a request for payment only if Cashu is  *)
(* enabled and there are mints to name; it carries a lock if there is a      *)
(* public key.                                                               *)
Asks      == ecash /\ "whitelist" \in statics
AsksALock == Asks /\ "public key" \in statics

(* verify_cashu_token of the module: tokens are verified here, against the   *)
(* lock, or swapped at the mint.                                             *)
ChecksTheLock == "p2pk" \in statics

(* init_process starts the lease thread, which redeems if there is a wallet. *)
Redeems == "interval" \in statics /\ pc = "serving"

(* The settings a worker reads on the paths open to it.                      *)
Reads ==
  {"ttl", "snapshot", "backend"}
    \cup (IF ChecksTheLock THEN {"dleq"} ELSE {})
    \cup (IF Redeems THEN {"melt", "payout"} ELSE {})

(* get_db: the connection of the process that asks, the master's only for    *)
(* the master, which CASHU_DB_PID tells apart.  The other handles are opened *)
(* on first use by whichever process finds them unset.                       *)
Inherited == (statics \cap Handles) \ {"database"}

-----------------------------------------------------------------------------
(* A payer told to lock a token to the gateway's key is one whose token is   *)
(* verified against that lock, and one told nothing is not refused for the   *)
(* lack of it; and tokens are accepted without the mint only from the mints  *)
(* listed, by a process that has the key to spend them.  So it is whichever  *)
(* of the settings is missing or invalid, and whatever became of the wallet. *)
LockAskedIsLockChecked ==
  up # {} =>
    /\ Asks => (AsksALock <=> ChecksTheLock)
    /\ ChecksTheLock => {"whitelist", "private key"} \subseteq statics

(* "Anything an operator can set is read in the master": no worker reads a   *)
(* setting that was not read before it was forked, whichever features the    *)
(* environment turned on and whichever of them failed to start.  And of the  *)
(* handles that the master opened a worker uses none but the LNURL clients,  *)
(* which are opened there so that the workers inherit them: for any other,   *)
(* connections, threads and locks do not survive the fork.                   *)
InheritsSettingsNotHandles ==
  up # {} => Reads \subseteq statics /\ Inherited \subseteq {"lnurl clients"}

(* The wallet of a master that reloads, forks and fails is the wallet of     *)
(* WalletIdentity: what is proved of that specification holds of this one.   *)
ImplementsWallet == Spec

(* Not what the code does (see README, Disagreements): who asks for a token  *)
(* has a wallet to receive it in.                                            *)
AskedCanBeReceived == up # {} /\ Asks => pc = "serving"
=============================================================================
