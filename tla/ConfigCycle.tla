----------------------------- MODULE ConfigCycle -----------------------------
(***************************************************************************)
(* From a configuration file to what the workers serve (src/src/lib.rs).   *)
(* The module keeps two registries in the master, outside any cycle's      *)
(* pool: the l402 locations, each a path and a pointer into the pool of    *)
(* the cycle that parsed it, for the manifest and info endpoints; and the  *)
(* tenants that l402_tenant_ref names.  A third list collects, for one     *)
(* warning, where addresses are given that Cashu will not be paid to.  All *)
(* are cleared when a parse begins and filled while it runs.               *)
(*                                                                         *)
(* nginx's part is modelled from how the module uses it: a start or a      *)
(* reload reads one directive after the other, each location's into a      *)
(* ModuleConfig of its own, and then merges each location with the one     *)
(* around it, parents first.  Any error along the way refuses the          *)
(* configuration, and the running cycle goes on; otherwise new workers are *)
(* forked.  A worker that dies is forked again from the master.  A fork    *)
(* copies the registry, and nothing changes it in the worker afterwards.   *)
(*                                                                         *)
(* Locations are the members of one chain, outermost first: siblings never *)
(* meet.                                                                   *)
(***************************************************************************)
EXTENDS LocationMerge

CONSTANTS
  Workers,
  Depth,        \* nested locations
  Files,        \* the lines each location may have: sequences of Depth texts
  Tenants,      \* names that l402_tenant may define
  MaxCycle      \* bound: the configurations read

Locations == 1 .. Depth

\* A directive's number is one or Garbled, and l402_manifest_hide has no word.
IsLine(line) ==
  /\ line \in [set : Worded \cup Numbers \cup {"hidden", "ref", "addr"}, to : {line.to}]
  /\ line.to # Unset
  /\ line.set \in Numbers => line.to \in Int \cup {Garbled}
  /\ line.set = "hidden" => line.to = TRUE

IsText(text) == text \in Seq(Range(text)) /\ \A k \in DOMAIN text : IsLine(text[k])

ASSUME CycleAssumption ==
  /\ Depth \in Nat \ {0} /\ MaxCycle \in Nat \ {0}
  /\ Unset \notin Int /\ Unset # "on" /\ Garbled \notin Int
  /\ \A t \in Tenants : AddressOf(t) # Unset
  /\ \A f \in Files : DOMAIN f = Locations /\ \A l \in Locations : IsText(f[l])

VARIABLES
  state,        \* what the master does: "idle", "reading", "merging", "refused"
  cycles,       \* the configurations read so far; a cycle is the number of one
  running,      \* the cycle the master runs, 0 before the first
  serving,      \* what its ModuleConfigs say of each location: [on, hidden]
  promised,     \* history: the locations it says to list, and of these to hide
  splits,       \* the environment: CASHU_ECASH_SUPPORT and LN_CLIENT_TYPE not LNURL
  registry,     \* MANIFEST_REGISTRY: <<location, cycle of the ModuleConfig>>
  tenants,      \* TENANT_REGISTRY: names that resolve
  sites,        \* CASHU_TO_OPERATOR: locations that give an address to warn of
  defined,      \* tenants that the configuration being read defines
  file,         \* that configuration
  conf,         \* the ModuleConfigs of its locations, as far as it has been read
  lines,        \* the lines read of the last of them
  merged,       \* locations merged so far: 1 .. merged
  tainted,      \* history: a configuration was refused since the running one loaded
  forked        \* [worker -> [cycle, serving, promised, registry, tainted] at its fork]

configVars == <<state, cycles, running, serving, promised, splits, registry, tenants, sites,
                defined, file, conf, lines, merged, tainted, forked>>
registries == <<registry, tenants, sites, defined>>
parse == <<file, conf, lines, merged>>
master == <<cycles, running, serving, promised, tainted, splits>>

Copy == [cycle |-> running, serving |-> serving, promised |-> promised,
         registry |-> registry, tainted |-> tainted]

ConfigInit ==
  /\ state = "idle" /\ cycles = 0 /\ running = 0 /\ tainted = FALSE
  /\ serving = [l \in Locations |-> [on |-> FALSE, hidden |-> FALSE]]
  /\ promised = [list |-> {}, hide |-> {}]
  /\ splits \in BOOLEAN
  /\ registry = {} /\ tenants = {} /\ sites = {} /\ defined = {}
  /\ file = << >> /\ conf = << >> /\ lines = 0 /\ merged = 0
  /\ forked = [w \in Workers |-> Copy]

-----------------------------------------------------------------------------
\* The word that location l has for a field, the last it can read, and what a location
\* says or inherits: the word of the nearest location around it, itself included, that has
\* one.
Word(l, f) ==
  LET ks == {k \in DOMAIN file[l] : file[l][k].set = f /\ Accepts(Default, file[l][k])}
  IN  IF ks = {} THEN Unset ELSE file[l][Max(ks)].to

Nearest(l, says) ==
  LET saying == {k \in 1 .. l : says[k] # Unset}
  IN  IF saying = {} THEN Unset ELSE says[Max(saying)]

Effective(l, f) == Nearest(l, [k \in Locations |-> Word(k, f)])

-----------------------------------------------------------------------------
Begin ==
  /\ state = "idle" /\ cycles < MaxCycle
  /\ state' = "reading" /\ cycles' = cycles + 1
  /\ file' \in Files
  /\ UNCHANGED <<running, serving, promised, tainted, splits, conf, lines, merged, forked>>

\* Mutant: the routes of the previous configuration are kept.
PreconfigurationKeepingRoutes ==
  Begin /\ tenants' = {} /\ sites' = {} /\ defined' = {} /\ UNCHANGED registry

\* Mutant: the tenants of the previous configuration are kept.
PreconfigurationKeepingTenants ==
  Begin /\ registry' = {} /\ sites' = {} /\ defined' = {} /\ UNCHANGED tenants

\* Mutant: the sites of a configuration that was refused are kept.
PreconfigurationKeepingSites ==
  Begin /\ registry' = {} /\ tenants' = {} /\ defined' = {} /\ UNCHANGED sites

\* A start or a reload begins to read, with empty registries.
Preconfiguration ==
  Begin /\ registry' = {} /\ tenants' = {} /\ sites' = {} /\ defined' = {}

\* Every line of the locations begun so far has been read.
AllRead == conf # << >> => lines = Len(file[Len(conf)])

\* `l402_tenant`, in the http block but in no location, of a name that is not registered yet.
Tenant(t) ==
  /\ state = "reading" /\ AllRead /\ t \notin tenants
  /\ tenants' = tenants \cup {t} /\ defined' = defined \cup {t}
  /\ UNCHANGED <<state, master, registry, sites, parse, forked>>

\* The next location begins, inwards.
BeginLocation ==
  /\ state = "reading" /\ AllRead /\ Len(conf) < Depth
  /\ conf' = Append(conf, Default) /\ lines' = 0
  /\ UNCHANGED <<state, master, registries, file, merged, forked>>

\* The handler of its next directive; some log a word that they do not know, the others
\* refuse the configuration.
Directive ==
  /\ state = "reading" /\ ~AllRead
  /\ LET l    == Len(conf)
         line == file[l][lines + 1]
     IN  IF Accepts(conf[l], line)
         THEN /\ conf' = [conf EXCEPT ![l] = SetField(@, line, l)]
              /\ registry' = IF Lists(line) THEN registry \cup {<<l, cycles>>} ELSE registry
              /\ lines' = lines + 1 /\ UNCHANGED state
         ELSE /\ UNCHANGED <<conf, registry>>
              /\ IF line.set \in LogsGarbled
                 THEN lines' = lines + 1 /\ UNCHANGED state
                 ELSE state' = "refused" /\ UNCHANGED lines
  /\ UNCHANGED <<master, tenants, sites, defined, file, merged, forked>>

EndOfDirectives ==
  /\ state = "reading" /\ AllRead /\ Len(conf) = Depth
  /\ state' = "merging"
  /\ UNCHANGED <<master, registries, parse, forked>>

\* The next location is merged with the one around it, whose merge is done.
MergeLocation ==
  /\ state = "merging" /\ merged < Depth
  /\ LET l      == merged + 1
         parent == IF l = 1 THEN Default ELSE conf[l - 1]
         c      == Merge(conf[l], parent)
     IN  IF MergeFails(conf[l], c, tenants, splits)
         THEN state' = "refused" /\ UNCHANGED <<conf, merged, sites>>
         ELSE /\ conf' = [conf EXCEPT ![l] = c] /\ merged' = l /\ UNCHANGED state
              /\ sites' = IF CashuToOperator(c, splits)
                          THEN sites \cup {c.destination.at} ELSE sites
  /\ UNCHANGED <<master, registry, tenants, defined, file, lines, forked>>

-----------------------------------------------------------------------------
Forget == state' = "idle" /\ file' = << >> /\ conf' = << >> /\ lines' = 0 /\ merged' = 0

\* Everything is merged and the configuration is accepted, with one warning that names
\* the sites: workers are forked.
Postconfiguration ==
  /\ state = "merging" /\ merged = Depth
  /\ Forget
  /\ running' = cycles /\ tainted' = FALSE
  /\ serving' = [l \in Locations |-> [on |-> On(conf[l].enable), hidden |-> conf[l].hidden]]
  /\ promised' = [list |-> {l \in Locations : On(Word(l, "enable"))},
                  hide |-> {l \in Locations : Effective(l, "hidden") # Unset}]
  /\ sites' = {}
  /\ UNCHANGED <<cycles, splits, registry, tenants, defined>>
  /\ forked' = [w \in Workers |-> Copy']

\* The configuration is dropped, the registries with what it left in them.
Abandon ==
  /\ Forget /\ tainted' = TRUE
  /\ UNCHANGED <<cycles, running, serving, promised, splits, registries, forked>>

Refused == state = "refused" /\ Abandon

TenantTwice(t) == state = "reading" /\ AllRead /\ t \in tenants /\ Abandon

\* nginx refuses something that is not the module's.
OtherRefused == state \in {"reading", "merging"} /\ Abandon

\* A worker dies and the master, which is not in the middle of a reload, replaces it.
Respawn(w) ==
  /\ state = "idle" /\ running # 0
  /\ forked' = [forked EXCEPT ![w] = Copy]
  /\ UNCHANGED <<state, master, registries, parse>>

ConfigNext ==
  \/ Preconfiguration \/ BeginLocation \/ Directive \/ EndOfDirectives \/ MergeLocation
  \/ Postconfiguration \/ Refused \/ OtherRefused
  \/ \E t \in Tenants : Tenant(t) \/ TenantTwice(t)
  \/ \E w \in Workers : Respawn(w)

ConfigSpec == ConfigInit /\ [][ConfigNext]_configVars

-----------------------------------------------------------------------------
\* The documents of a worker read, at each request, the ModuleConfigs its registry points
\* to: the info endpoint lists the locations that are on, the manifest leaves out the
\* hidden ones.
InfoLocations(w)  == {e[1] : e \in {e \in forked[w].registry : forked[w].serving[e[1]].on}}
ManifestRoutes(w) == {l \in InfoLocations(w) : ~forked[w].serving[l].hidden}

-----------------------------------------------------------------------------
(* Properties *)

\* Location l names a destination, in either spelling; and the destination of the nearest
\* location that does.
Names(l) == Word(l, "ref") # Unset \/ Word(l, "addr") # Unset

Destination(l) ==
  LET naming == {k \in 1 .. l : Names(k)}
      at     == Max(naming)
  IN  IF naming = {} THEN Nowhere
      ELSE [ref |-> Word(at, "ref"), addr |-> Word(at, "addr"), at |-> at]

\* A line that its directive refuses, a second reference included.
Unreadable(l) ==
  \E k \in DOMAIN file[l] :
    \/ file[l][k].set \notin LogsGarbled /\ ~Accepts(Default, file[l][k])
    \/ \E j \in 1 .. k - 1 : file[l][k].set = "ref" /\ file[l][j].set = "ref"

\* What is wrong with location l as it is written, once every line of it is read.
Bad(l) ==
  \/ Word(l, "ref") # Unset /\ Word(l, "addr") # Unset
  \/ Destination(l).ref # Unset /\ Destination(l).ref \notin defined
  \/ On(Effective(l, "enable")) /\ Effective(l, "realm") # Unset /\ ~On(Effective(l, "indefinite"))
  \/ On(Effective(l, "enable")) /\ Destination(l).ref # Unset /\ splits

\* Inheritance one level at a time is inheritance from the nearest location that speaks:
\* an `off` in between stops an outer `on` from reaching the locations inside it, and a
\* word that cannot be read is silence.  Numbers take a 0 for silence too, and a hidden
\* location hides the ones inside it.
NearestWins ==
  \A l \in 1 .. merged :
    /\ \A f \in Worded : conf[l][f] = Effective(l, f)
    /\ \A f \in Numbers :
         LET n == Nearest(l, [k \in Locations |-> IF Word(k, f) = 0 THEN Unset ELSE Word(k, f)])
         IN  conf[l][f] = IF n = Unset THEN 0 ELSE n
    /\ conf[l].hidden <=> \E k \in 1 .. l : Word(k, "hidden") # Unset

\* A location pays where the nearest location that names a destination says, whichever
\* spelling it or the ones around it use: never a mixture of two.
PaysWhereNamed ==
  \A l \in 1 .. merged :
    conf[l].destination =
      IF Destination(l).ref # Unset
      THEN [Destination(l) EXCEPT !.addr = AddressOf(Destination(l).ref)]
      ELSE Destination(l)

\* A configuration is refused exactly when it is wrong as written.  The names that resolve
\* while it is read are the ones it defines, whatever was loaded or refused before: a
\* reload of the same file is not refused as a duplicate, and a removed tenant does not
\* resolve.  Reading refuses exactly the first location with a line that its directive
\* refuses, and merge exactly the first that is wrong, inherited directives included:
\* neither a realm that sells one request nor a tenant whose Cashu goes to the operator
\* loads, and nothing else is refused.  An address whose Cashu goes there is only warned
\* of: the warning names the location that gives it, of every location that charges for it.
RefusedIffBad ==
  /\ state # "idle" => tenants = defined
  /\ \A l \in 1 .. Len(conf) : l < Len(conf) \/ AllRead => ~Unreadable(l)
  /\ \A l \in 1 .. merged : ~Bad(l)
  /\ state = "refused" => IF AllRead THEN Bad(merged + 1) ELSE Unreadable(Len(conf))
  /\ state = "merging" =>
       sites = {Destination(l).at : l \in
                  {l \in 1 .. merged :
                     splits /\ On(Effective(l, "enable")) /\ Destination(l) # Nowhere}}

\* A worker's documents list the locations that say `l402 on` in the configuration it
\* runs, all of them and no other, and read them from that configuration; the manifest
\* leaves out what is hidden.  Of every worker that was not forked again after a refused
\* reload.
ManifestMatches ==
  \A w \in Workers : ~forked[w].tainted =>
    /\ \A e \in forked[w].registry : e[2] = forked[w].cycle
    /\ InfoLocations(w) = forked[w].promised.list
    /\ ManifestRoutes(w) = forked[w].promised.list \ forked[w].promised.hide
=============================================================================
