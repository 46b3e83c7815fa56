---------------------------- MODULE LocationMerge ----------------------------
(***************************************************************************)
(* What the l402 directives of a location do to its ModuleConfig, and how  *)
(* a location inherits from the one around it: the directive handlers of   *)
(* src/src/lib.rs and ModuleConfig's merge, as operators.                  *)
(*                                                                         *)
(* A line is a record [set, to]: the field its directive sets and its      *)
(* word.  l402_log_format's words json and text are on and off here, and   *)
(* an empty l402_lnurl_addr is LNURL_ADDRESS, or Garbled if that is unset. *)
(***************************************************************************)
EXTENDS Integers, SequencesExt

CONSTANTS Unset,    \* no such directive
          Garbled   \* a word that its directive does not know

\* A destination is a record [ref, addr, at]: what l402_tenant_ref names, what
\* l402_lnurl_addr gives, each possibly Unset, and the location that says so.
Nowhere == [ref |-> Unset, addr |-> Unset, at |-> Unset]
AddressOf(tenant) == <<"address of", tenant>>

\* Fields that are Unset or hold a word.  No exempted method is Unset.
Worded  == {"enable", "realm", "indefinite", "dry_run", "auto_detect", "payment_html",
            "log_format", "limit", "methods"}
Numbers == {"amount", "timeout"}
Fields  == Worded \cup Numbers \cup {"hidden", "destination"}

\* ModuleConfig::default: what a location without directives has, and what the outermost
\* location inherits.
Default ==
  [f \in Fields |-> CASE f \in Worded -> Unset [] f \in Numbers -> 0
                      [] f = "hidden" -> FALSE [] f = "destination" -> Nowhere]

On(v) == v = "on"

-----------------------------------------------------------------------------
(* The directives of one location *)

\* Directives whose handler logs a word it does not know, and leaves the field alone.
LogsGarbled == {"enable", "auto_detect"} \cup Numbers

\* The switches that refuse it.
AcceptsSwitch(line) == line.to \in {"on", "off"}

\* A price is positive, a timeout not negative.
AcceptsNumber(line) == line.to # Garbled /\ line.to >= IF line.set = "amount" THEN 1 ELSE 0

\* A realm has a name, and a second reference in one location is a duplicate.
AcceptsRealm(line)  == line.to # Garbled
AcceptsRef(c, line) == line.to # Garbled /\ c.destination.ref = Unset
AcceptsAddr(line)   == line.to # Garbled
AcceptsLimit(line)  == line.to # Garbled

Accepts(c, line) ==
  CASE line.set \in {"enable", "auto_detect", "indefinite", "dry_run", "payment_html",
                     "log_format"} -> AcceptsSwitch(line)
    [] line.set \in Numbers   -> AcceptsNumber(line)
    [] line.set = "realm"     -> AcceptsRealm(line)
    [] line.set = "ref"       -> AcceptsRef(c, line)
    [] line.set = "addr"      -> AcceptsAddr(line)
    [] line.set = "limit"     -> AcceptsLimit(line)
    [] OTHER -> TRUE   \* hidden, methods

SetField(c, line, l) ==
  IF line.set \in {"ref", "addr"}
  THEN [c EXCEPT !.destination[line.set] = line.to, !.destination.at = l]
  ELSE [c EXCEPT ![line.set] = line.to]

\* `l402 on;` lists its location at once.
Lists(line) == line = [set |-> "enable", to |-> "on"]

-----------------------------------------------------------------------------
(* Inheritance *)

\* Mutant: a child's `off` counts as unset.
OnWins(own, parent) == IF On(own) THEN own ELSE parent

ChildWins(own, parent) == IF own # Unset THEN own ELSE parent

PositiveWins(own, parent) == IF own = 0 /\ parent > 0 THEN parent ELSE own

\* Mutant: an inherited address is taken before the location's own reference.
InheritAddressFirst(own, parent) ==
  LET addr == ChildWins(own.addr, parent.addr)
  IN  [ref  |-> ChildWins(own.ref, parent.ref), at |-> ChildWins(own.at, parent.at),
       addr |-> IF addr = Unset /\ own.ref # Unset THEN AddressOf(own.ref) ELSE addr]

\* The destination is one setting with two spellings: a location that names neither
\* inherits both, and a reference resolves to its tenant's address.
Payout(own, parent) ==
  IF own.ref # Unset THEN [own EXCEPT !.addr = AddressOf(own.ref)]
  ELSE IF own.addr # Unset THEN own ELSE parent

Merge(own, parent) ==
  [f \in Fields |-> CASE f \in Worded  -> ChildWins(own[f], parent[f])
                      [] f \in Numbers -> PositiveWins(own[f], parent[f])
                      [] f = "hidden"  -> own.hidden \/ parent.hidden
                      [] f = "destination" -> Payout(own.destination, parent.destination)]

-----------------------------------------------------------------------------
\* Both spellings, or a tenant that is not registered.
UnresolvedRef(own, registered) ==
  own.destination.ref # Unset /\ (own.destination.addr # Unset \/ own.destination.ref \notin registered)

\* Mutant: the location's own realm is looked at, not the inherited one.
RealmOfOwnSoldOnce(own, c) == On(c.enable) /\ own.realm # Unset /\ ~On(c.indefinite)

\* A realm whose token would be accepted once.
RealmSoldOnce(own, c) == On(c.enable) /\ c.realm # Unset /\ ~On(c.indefinite)

\* An address that would be paid for Lightning while the operator keeps the Cashu: splits
\* says that Cashu is on and the backend is not LNURL.
CashuToOperator(c, splits) == On(c.enable) /\ c.destination.addr # Unset /\ splits

\* What merge answers with an error to.  Without a tenant, CashuToOperator is only a
\* warning.
MergeFails(own, c, registered, splits) ==
  \/ UnresolvedRef(own, registered)
  \/ RealmSoldOnce(own, c)
  \/ CashuToOperator(c, splits) /\ c.destination.ref # Unset
=============================================================================
