------------------------------ MODULE MeltPlan ------------------------------
(***************************************************************************)
(* The arithmetic of a redemption cycle: what redeem_to_lightning          *)
(* (src/src/cashu.rs) decides to melt, and whether the selected proofs pay *)
(* for what the mint then asks.  A cycle walks the whitelisted mints; at   *)
(* each it starts from the configured thresholds, overrides them with what *)
(* the mint publishes, and plans each group of proofs by itself.           *)
(*                                                                         *)
(* Amounts are u64: 0..MAX.  Whatever a mint supplies goes through         *)
(* saturating operations, and a group's total through a sum that wraps in  *)
(* a release build.  The percentage is parts per thousand, as NUT-08       *)
(* publishes it; the rounding of f64 above 2^53 is not modelled.  Which    *)
(* proofs make up the groups, and their payment, is TenantFunds's subject: *)
(* here groups are any that the inputs allow.                              *)
(***************************************************************************)
EXTENDS Integers, SequencesExt

CONSTANTS
  Mints,           \* CASHU_WHITELISTED_MINTS
  MAX,             \* u64::MAX
  MSAT_PER_SAT,
  Defaults,        \* MeltConfig: [min, ppk, minFee], in msat and parts per thousand
  MaxProofs,       \* CASHU_MAX_PROOFS_PER_MELT, 0 for no limit
  NamesProofs,     \* multi-tenant or P2PK: the selected proofs are melted as they are
  Groups,          \* groups of proofs: sequences of amounts in sats
  Published,       \* values a mint may publish, charge or quote, in sats
  Rates,           \* values of ppk it may publish
  None

Money == 0 .. MAX

ASSUME PlanAssumption ==
  /\ MAX \in Nat /\ MSAT_PER_SAT \in Nat \ {0}
  /\ Defaults \in [min : Money, ppk : Nat, minFee : Money]
  /\ MaxProofs \in Nat /\ NamesProofs \in BOOLEAN
  /\ Groups \subseteq Seq(Nat)
  /\ Published \subseteq Nat /\ Rates \subseteq Nat
  /\ None \notin Nat

VARIABLES
  pc,          \* where the redemption thread is
  todo,        \* mints this cycle has not come to
  info,        \* what the mint at hand published
  params,      \* current_minimum_for_redemption_msat, current_fee_reserve_percent, ...
  plan,        \* the group being redeemed
  quote        \* the mint's melt quote for it, in sats

planVars == <<pc, todo, info, params, plan, quote>>

NoInfo == [min |-> None, ppk |-> None, minFee |-> None]
NoPlan == [selected |-> 0, fee |-> 0, redeemable |-> 0]
NoQuote == [amount |-> 0, fee |-> 0]

-----------------------------------------------------------------------------
\* ngx_l402_core::fee.
Saturated(n) == IF n > MAX THEN MAX ELSE n
SatToMsat(sats) == Saturated(sats * MSAT_PER_SAT)

FeeReserve(amount, p) ==
  LET share == Saturated((amount * p.ppk) \div 1000)
  IN  IF share > p.minFee THEN share ELSE p.minFee

\* Mutant: the mint's input fee is not held back.
ReserveWithoutInputFee(amount, p, inputFee) == FeeReserve(amount, p)

MeltReserve(amount, p, inputFee) == Saturated(FeeReserve(amount, p) + inputFee)

\* Iterator::sum, without overflow checks.
Total(group) == FoldSeq(LAMBDA sats, sum : SatToMsat(sats) + sum, 0, group) % (MAX + 1)

Selected(group) == IF MaxProofs > 0 /\ Len(group) > MaxProofs THEN SubSeq(group, 1, MaxProofs) ELSE group

\* Mutant: the input fee is forgotten.
RequiredWithoutInputFee(q, inputFee) == Saturated(SatToMsat(q.amount) + SatToMsat(q.fee))

\* What the mint will take for a quote: its amount, its fee reserve, its input fee.
Required(q, inputFee) == Saturated(Saturated(SatToMsat(q.amount) + SatToMsat(q.fee)) + inputFee)

TooDear == plan.selected < Required(quote, SatToMsat(plan.fee))

-----------------------------------------------------------------------------
PlanInit ==
  /\ pc = "idle" /\ todo = {}
  /\ info = NoInfo /\ params = Defaults /\ plan = NoPlan /\ quote = NoQuote

BeginCycle ==
  /\ pc = "idle"
  /\ pc' = "mint" /\ todo' = Mints
  /\ UNCHANGED <<info, params, plan, quote>>

\* Mutant: the thresholds carry over from the mint before.
OpenWalletKeepingParams(m) ==
  /\ pc = "mint" /\ m \in todo
  /\ pc' = "info" /\ todo' = todo \ {m}
  /\ info' = NoInfo
  /\ UNCHANGED <<params, plan, quote>>

\* The wallet of this mint, in sats, holds a balance.  The thresholds start again from
\* the defaults.
OpenWallet(m) ==
  /\ pc = "mint" /\ m \in todo
  /\ pc' = "info" /\ todo' = todo \ {m}
  /\ info' = NoInfo /\ params' = Defaults
  /\ UNCHANGED <<plan, quote>>

\* No balance, or the balance, the proofs or their mappings could not be read.
SkipMint(m) ==
  /\ pc = "mint" /\ m \in todo
  /\ todo' = todo \ {m}
  /\ UNCHANGED <<pc, info, params, plan, quote>>

EndCycle ==
  /\ pc = "mint" /\ todo = {}
  /\ pc' = "idle"
  /\ UNCHANGED <<todo, info, params, plan, quote>>

-----------------------------------------------------------------------------
\* What the mint publishes for bolt11 in sats overrides the defaults, one by one.
Override(i) ==
  [min    |-> IF i.min    = None THEN Defaults.min    ELSE SatToMsat(i.min),
   ppk    |-> IF i.ppk    = None THEN Defaults.ppk    ELSE i.ppk,
   minFee |-> IF i.minFee = None THEN Defaults.minFee ELSE SatToMsat(i.minFee)]

FetchInfo ==
  /\ pc = "info"
  /\ info' \in [min : Published \cup {None}, ppk : Rates \cup {None}, minFee : Published \cup {None}]
  /\ params' = [min    |-> IF info'.min    = None THEN params.min    ELSE SatToMsat(info'.min),
                ppk    |-> IF info'.ppk    = None THEN params.ppk    ELSE info'.ppk,
                minFee |-> IF info'.minFee = None THEN params.minFee ELSE SatToMsat(info'.minFee)]
  /\ pc' = "group"
  /\ UNCHANGED <<todo, plan, quote>>

InfoFails ==
  /\ pc = "info"
  /\ pc' = "group"
  /\ UNCHANGED <<todo, info, params, plan, quote>>

\* A group that reaches the minimum, and whose selected proofs exceed the reserve, is
\* planned; any other, or one whose input fee cannot be had, waits for another cycle.
\* (selected \in Money says nothing more: a sum modulo MAX + 1 is in it, which a prover
\* that cannot evaluate the fold is not told.)
PlanGroup(group, fee) ==
  LET selected == Total(Selected(group))
      reserve  == MeltReserve(selected, params, SatToMsat(fee))
  IN  /\ pc = "group"
      /\ NamesProofs \/ fee = 0
      /\ selected \in Money
      /\ Total(group) >= params.min
      /\ selected > reserve
      /\ plan' = [selected |-> selected, fee |-> fee, redeemable |-> selected - reserve]
      /\ pc' = "plan"
      /\ UNCHANGED <<todo, info, params, quote>>

\* An invoice for the redeemable amount, and the mint's quote for it.
GetQuote ==
  /\ pc = "plan"
  /\ quote' \in [amount : Published, fee : Published]
  /\ pc' = "quoted"
  /\ UNCHANGED <<todo, info, params, plan>>

Done == pc' = "group" /\ plan' = NoPlan /\ quote' = NoQuote

\* No invoice, or no quote.
QuoteFails ==
  /\ pc = "plan"
  /\ Done
  /\ UNCHANGED <<todo, info, params>>

RefuseQuote ==
  /\ pc = "quoted" /\ TooDear
  /\ Done
  /\ UNCHANGED <<todo, info, params>>

AcceptQuote ==
  /\ pc = "quoted" /\ ~TooDear
  /\ pc' = "melting"
  /\ UNCHANGED <<todo, info, params, plan, quote>>

\* The melt, whatever comes of it.
Melt ==
  /\ pc = "melting"
  /\ Done
  /\ UNCHANGED <<todo, info, params>>

EndGroups ==
  /\ pc = "group"
  /\ pc' = "mint" /\ info' = NoInfo
  /\ UNCHANGED <<todo, params, plan, quote>>

Group ==
  \/ \E g \in Groups, fee \in Published \cup {0} : PlanGroup(g, fee)
  \/ GetQuote \/ QuoteFails \/ RefuseQuote \/ AcceptQuote \/ Melt \/ EndGroups

PlanNext ==
  \/ BeginCycle \/ EndCycle \/ FetchInfo \/ InfoFails \/ Group
  \/ \E m \in Mints : OpenWallet(m) \/ SkipMint(m)

PlanSpec == PlanInit /\ [][PlanNext]_planVars

-----------------------------------------------------------------------------
\* What is submitted to the mint pays for itself: the selected proofs hold, in exact
\* arithmetic, the quoted amount, its fee reserve and the input fee, although every one
\* of those was converted by a saturating operation.  MAX itself is what a balance beyond
\* u64 saturates to, and says nothing.
MeltIsCovered ==
  pc = "melting" /\ plan.selected < MAX =>
    (quote.amount + quote.fee + plan.fee) * MSAT_PER_SAT <= plan.selected

\* The reserve is enough: a quote for the invoiced amount, rounded up to whole sats, whose
\* fee reserve is within the one held back is never refused.  Otherwise the same melt
\* would be planned and refused in every cycle.
FairQuoteAccepted ==
  pc = "quoted"
    /\ quote.amount = (plan.redeemable + MSAT_PER_SAT - 1) \div MSAT_PER_SAT
    /\ SatToMsat(quote.fee) <= FeeReserve(plan.selected, params)
  => ~TooDear

\* A group is planned with the thresholds of its own mint, never of one the cycle passed.
ParamsAreThisMints == pc \in {"group", "plan", "quoted", "melting"} => params = Override(info)
=============================================================================
