--------------------------- MODULE WalletIdentity ---------------------------
(***************************************************************************)
(* Which Cashu wallet an nginx start opens over the token database         *)
(* (src/src/cashu.rs, initialize_cashu and what it calls).  A BIP39 phrase *)
(* is the wallet: it is taken from the environment, read from the phrase   *)
(* file, or generated and written there; a fingerprint beside the database *)
(* then tells a later start whether it is about to open the same wallet.   *)
(*                                                                         *)
(* Both files are created, truncated and only then written, so a crash, or *)
(* a write that fails, leaves a file that exists and holds no phrase or    *)
(* fingerprint: Invalid.  A fingerprint identifies its phrase, so it is    *)
(* modelled by the phrase it was computed from.  What is written is taken  *)
(* to be on disk: the loss of the page cache is not modelled.              *)
(***************************************************************************)
EXTENDS Integers, FiniteSets

CONSTANTS
  Phrases,        \* BIP39 phrases: what is not in it is not a valid mnemonic
  Absent,         \* no such file, or the variable is not set
  Invalid         \* present, and not a valid phrase or fingerprint

ASSUME PhrasesAreNotMarks == Absent \notin Phrases /\ Invalid \notin Phrases /\ Absent # Invalid

VARIABLES
  pc,             \* where the master is in initialize_cashu
  phrase,         \* WALLET_MNEMONIC of this process
  saved,          \* the phrase is one that a restart can find
  ecash,          \* CASHU_ECASH_ENABLED: the 402 offers Cashu
  env,            \* CASHU_WALLET_MNEMONIC
  phraseFile,     \* wallet.mnemonic
  fingerprint,    \* wallet.fingerprint
  used,           \* every phrase that has been written down anywhere
  owners,         \* the wallets whose proofs the database holds
  unmarked        \* history: persist_fingerprint failed since the last switch

vars == <<pc, phrase, saved, ecash, env, phraseFile, fingerprint, used, owners, unmarked>>
process == <<phrase, saved, ecash>>
disk == <<phraseFile, fingerprint, owners, unmarked>>

Steps == {"down", "resolve", "save", "write", "check", "mark", "open", "serving", "off"}
Resolved == {"save", "write", "check", "mark", "open", "serving"}

Init ==
  /\ pc = "down" /\ phrase = Absent /\ saved = FALSE /\ ecash = FALSE
  /\ env \in Phrases \cup {Absent, Invalid}
  /\ phraseFile = Absent /\ fingerprint = Absent
  /\ used = {env} \cap Phrases
  /\ owners = {} /\ unmarked = FALSE

-----------------------------------------------------------------------------
\* Only a new master runs this: a reload finds INIT_DONE set and keeps everything.
\* The flag that offers Cashu is set before anything that can fail.
Start ==
  /\ pc = "down"
  /\ pc' = "resolve" /\ ecash' = TRUE
  /\ UNCHANGED <<phrase, saved, env, used, disk>>

\* initialize_cashu returns an error, init_module logs it, and nginx runs on.
Refuse ==
  /\ pc' = "off"
  /\ UNCHANGED <<process, env, used, disk>>

RefuseEnv == pc = "resolve" /\ env = Invalid /\ Refuse

UseEnv ==
  /\ pc = "resolve" /\ env \in Phrases
  /\ pc' = "check" /\ phrase' = env /\ saved' = TRUE
  /\ UNCHANGED <<ecash, env, used, disk>>

\* A file that exists and is a symlink, someone else's, or unreadable.
RefuseFile ==
  /\ \/ pc = "resolve" /\ env = Absent /\ phraseFile # Absent
     \/ pc = "check" /\ fingerprint # Absent
  /\ Refuse

LoadPhrase ==
  /\ pc = "resolve" /\ env = Absent /\ phraseFile \in Phrases
  /\ pc' = "check" /\ phrase' = phraseFile /\ saved' = TRUE
  /\ UNCHANGED <<ecash, env, used, disk>>

\* No phrase anywhere, or one that is not BIP39: a new one, never seen before.
Generate ==
  /\ pc = "resolve" /\ env = Absent /\ phraseFile \notin Phrases
  /\ \E p \in Phrases \ used : phrase' = p /\ used' = used \cup {p}
  /\ pc' = "save" /\ saved' = FALSE
  /\ UNCHANGED <<ecash, env, disk>>

-----------------------------------------------------------------------------
\* persist_mnemonic: open and own the file, set_len(0), then write.
TruncatePhrase ==
  /\ pc = "save"
  /\ pc' = "write" /\ phraseFile' = Invalid
  /\ UNCHANGED <<process, env, fingerprint, used, owners, unmarked>>

\* Mutant: the file is truncated after it is written.
WriteThenTruncate ==
  /\ pc = "write"
  /\ pc' = "check" /\ phraseFile' = Invalid /\ saved' = TRUE
  /\ UNCHANGED <<phrase, ecash, env, fingerprint, used, owners, unmarked>>

WritePhrase ==
  /\ pc = "write"
  /\ pc' = "check" /\ phraseFile' = phrase /\ saved' = TRUE
  /\ UNCHANGED <<phrase, ecash, env, fingerprint, used, owners, unmarked>>

\* Only warned about: the phrase is good for this process and no other.
SavePhraseFails ==
  /\ pc \in {"save", "write"}
  /\ pc' = "check"
  /\ UNCHANGED <<process, env, used, disk>>

-----------------------------------------------------------------------------
\* check_wallet_fingerprint.
Match ==
  /\ pc = "check" /\ fingerprint = phrase
  /\ pc' = "open"
  /\ UNCHANGED <<process, env, used, disk>>

\* Mutant: a different fingerprint is only warned about.
MismatchWarns ==
  /\ pc = "check" /\ fingerprint \notin {Absent, phrase}
  /\ pc' = "open"
  /\ UNCHANGED <<process, env, used, disk>>

Mismatch == pc = "check" /\ fingerprint \notin {Absent, phrase} /\ Refuse

\* No fingerprint is taken for a first run: persist_fingerprint, in the same two steps.
FirstRun ==
  /\ pc = "check" /\ fingerprint = Absent
  /\ pc' = "mark" /\ fingerprint' = Invalid
  /\ UNCHANGED <<process, env, phraseFile, used, owners, unmarked>>

WriteFingerprint ==
  /\ pc = "mark"
  /\ pc' = "open" /\ fingerprint' = phrase
  /\ UNCHANGED <<process, env, phraseFile, used, owners, unmarked>>

\* Only warned about: the wallet opens, and nothing recorded names it.
FingerprintFails ==
  /\ pc = "mark" \/ (pc = "check" /\ fingerprint = Absent)
  /\ pc' = "open" /\ unmarked' = TRUE
  /\ UNCHANGED <<process, env, phraseFile, fingerprint, used, owners>>

\* CASHU_DB_URL is set.  A master that cannot open the database is no different to
\* the workers: get_db opens their own handle from the URL.
OpenDatabase ==
  /\ pc = "open"
  /\ pc' = "serving"
  /\ UNCHANGED <<process, env, used, disk>>

\* A worker stores a client's proofs under this process's seed.
Receive ==
  /\ pc = "serving"
  /\ owners' = owners \cup {phrase}
  /\ UNCHANGED <<pc, process, env, phraseFile, fingerprint, used, unmarked>>

-----------------------------------------------------------------------------
\* The master stops or dies, at any point of the above.
Stop ==
  /\ pc # "down"
  /\ pc' = "down" /\ phrase' = Absent /\ saved' = FALSE /\ ecash' = FALSE
  /\ UNCHANGED <<env, used, disk>>

\* While nginx is down the operator sets the variable, or a typo makes it invalid,
SetEnv ==
  /\ pc = "down"
  /\ env' \in Phrases \cup {Absent, Invalid}
  /\ used' = used \cup ({env'} \cap Phrases)
  /\ UNCHANGED <<pc, process, disk>>

\* the phrase file is lost or damaged,
LosePhrase ==
  /\ pc = "down"
  /\ phraseFile' \in {Absent, Invalid}
  /\ UNCHANGED <<pc, process, env, fingerprint, used, owners, unmarked>>

\* or the fingerprint is deleted, which is how to switch wallets on purpose: what the
\* database holds from then on is not what it held.
SwitchWallet ==
  /\ pc = "down"
  /\ fingerprint' = Absent /\ owners' = {} /\ unmarked' = FALSE
  /\ UNCHANGED <<pc, process, env, phraseFile, used>>

Resolve == RefuseEnv \/ UseEnv \/ RefuseFile \/ LoadPhrase \/ Generate
SavePhrase == TruncatePhrase \/ WritePhrase \/ SavePhraseFails
CheckFingerprint == Match \/ Mismatch \/ FirstRun \/ WriteFingerprint \/ FingerprintFails
Operator == SetEnv \/ LosePhrase \/ SwitchWallet

Next == Start \/ Resolve \/ SavePhrase \/ CheckFingerprint \/ OpenDatabase \/ Receive \/ Stop \/ Operator

Spec == Init /\ [][Next]_vars

-----------------------------------------------------------------------------
\* Every variable has its type, and a process past resolution has a phrase.
TypeOK ==
  /\ pc \in Steps
  /\ phrase \in Phrases \cup {Absent}
  /\ saved \in BOOLEAN /\ ecash \in BOOLEAN
  /\ env \in Phrases \cup {Absent, Invalid}
  /\ phraseFile \in Phrases \cup {Absent, Invalid}
  /\ fingerprint \in Phrases \cup {Absent, Invalid}
  /\ used \subseteq Phrases /\ owners \subseteq Phrases /\ unmarked \in BOOLEAN
  /\ pc \in Resolved => phrase \in Phrases

\* Between two deliberate switches every proof in the database belongs to one wallet:
\* no crash, lost phrase file, typo or changed variable makes a start receive into a
\* second wallet over the first one's funds, if every first run recorded its fingerprint.
OneWallet == ~unmarked => \A p, q \in owners : p = q

\* What the next start would resolve from what is stored now.
NextPhrase == IF env # Absent THEN env ELSE phraseFile

\* A restart reproduces the serving process: unless this one warned that its phrase could
\* not be saved, the next start resolves the same phrase, whichever of the variable, the
\* file or a generation it came from.
SavedIsFound == pc = "serving" /\ saved => NextPhrase = phrase
=============================================================================
