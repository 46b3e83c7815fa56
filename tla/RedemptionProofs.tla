-------------------------- MODULE RedemptionProofs --------------------------
(***************************************************************************)
(* Two parts of redemption.                                                *)
(*                                                                         *)
(* The plan: the check of redeem_to_lightning is exact, for although every *)
(* term of it is saturated, a balance below MAX that passes it covers the  *)
(* exact sum.  A group is planned with the thresholds of its own mint; and *)
(* the reserve that is held back is enough, rounding included, for a mint  *)
(* that quotes within it.                                                  *)
(*                                                                         *)
(* The lease: one worker redeems, for any number of workers, reloads and   *)
(* crashes.                                                                *)
(***************************************************************************)
EXTENDS MeltPlan, RedemptionLease, TLAPS

-----------------------------------------------------------------------------
(* The plan *)


\* Saturation stays within u64, and is the identity on whatever it leaves below MAX.
LEMMA SaturatedIsMoney == \A n \in Nat : Saturated(n) \in Money /\ (Saturated(n) < MAX => Saturated(n) = n)
  BY PlanAssumption DEF Saturated, Money

\* The same of the conversion to millisats.
LEMMA SatToMsatIsMoney ==
  ASSUME NEW sats \in Nat
  PROVE  /\ SatToMsat(sats) \in Money
         /\ SatToMsat(sats) < MAX => SatToMsat(sats) = sats * MSAT_PER_SAT
<1>1. sats * MSAT_PER_SAT \in Nat
  BY PlanAssumption
<1> QED
  BY <1>1, SaturatedIsMoney DEF SatToMsat

\* A balance below MAX that reaches the saturated requirement reaches the exact one.
LEMMA RequiredIsExact ==
  ASSUME NEW q \in [amount : Nat, fee : Nat], NEW inputFee \in Nat, NEW balance \in Money,
         balance < MAX, Required(q, SatToMsat(inputFee)) <= balance
  PROVE  (q.amount + q.fee + inputFee) * MSAT_PER_SAT <= balance
<1> DEFINE a == SatToMsat(q.amount)
           f == SatToMsat(q.fee)
           i == SatToMsat(inputFee)
<1>1. a \in Money /\ f \in Money /\ i \in Money
  BY SatToMsatIsMoney
<1>2. Saturated(a + f) \in Money /\ Saturated(Saturated(a + f) + i) <= balance
  <2>1. a + f \in Nat
    BY <1>1 DEF Money
  <2> QED
    BY <2>1, SaturatedIsMoney DEF Required
<1>3. Saturated(a + f) + i <= balance
  <2> DEFINE n == Saturated(a + f) + i
  <2> HIDE DEF a, f, i
  <2>1. n \in Nat
    BY <1>1, <1>2, PlanAssumption DEF Money
  <2>2. Saturated(n) \in Money /\ (Saturated(n) < MAX => Saturated(n) = n)
    BY <2>1, SaturatedIsMoney
  <2>3. Saturated(n) <= balance
    BY <1>2
  <2> QED
    BY <2>2, <2>3, PlanAssumption DEF Money
<1>4. a + f + i <= balance
  <2> HIDE DEF a, f, i
  <2>1. a + f \in Nat /\ Saturated(a + f) < MAX
    BY <1>1, <1>2, <1>3, PlanAssumption DEF Money
  <2> QED
    BY <2>1, <1>1, <1>3, SaturatedIsMoney, PlanAssumption DEF Money
<1>5. a = q.amount * MSAT_PER_SAT /\ f = q.fee * MSAT_PER_SAT /\ i = inputFee * MSAT_PER_SAT
  <2>1. a < MAX /\ f < MAX /\ i < MAX
    <3> HIDE DEF a, f, i
    <3> QED
      BY <1>1, <1>4, PlanAssumption DEF Money
  <2> QED
    BY <2>1, SatToMsatIsMoney
<1>6. (q.amount + q.fee + inputFee) * MSAT_PER_SAT
        = q.amount * MSAT_PER_SAT + q.fee * MSAT_PER_SAT + inputFee * MSAT_PER_SAT
  BY PlanAssumption
<1> QED
  BY <1>4, <1>5, <1>6

-----------------------------------------------------------------------------
\* Of the state only the balance, what the mint asks of it, and the verdict are needed.
PlanTyped == plan.selected \in Money /\ plan.fee \in Nat /\ quote \in [amount : Nat, fee : Nat]

MeltingIsChecked == pc = "melting" => ~TooDear

PlanInv == PlanTyped /\ MeltingIsChecked

\* A redemption thread that has not planned anything.
LEMMA PlanStarts == PlanInit => PlanInv
  BY PlanAssumption DEF PlanInit, PlanInv, PlanTyped, MeltingIsChecked, NoPlan, NoQuote, Money

\* Every step of a cycle keeps the plan's types, and a melt checked.
LEMMA PlanStep ==
  ASSUME PlanInv, [PlanNext]_planVars
  PROVE  PlanInv'
<1> USE DEF PlanInv, PlanTyped, MeltingIsChecked
<1>1. CASE \E g \in Groups, fee \in Published \cup {0} : PlanGroup(g, fee)
  BY <1>1, PlanAssumption DEF PlanGroup
<1>2. CASE GetQuote
  BY <1>2, PlanAssumption DEF GetQuote
<1>3. CASE QuoteFails \/ RefuseQuote \/ Melt
  BY <1>3, PlanAssumption DEF QuoteFails, RefuseQuote, Melt, Done, NoPlan, NoQuote, Money
<1>4. CASE AcceptQuote
  BY <1>4 DEF AcceptQuote, TooDear
<1>5. CASE EndGroups
  BY <1>5 DEF EndGroups
<1>6. CASE BeginCycle \/ EndCycle \/ FetchInfo \/ InfoFails
  BY <1>6 DEF BeginCycle, EndCycle, FetchInfo, InfoFails
<1>7. CASE \E m \in Mints : OpenWallet(m) \/ SkipMint(m)
  BY <1>7 DEF OpenWallet, SkipMint
<1>8. CASE UNCHANGED planVars
  BY <1>8 DEF planVars, TooDear
<1> QED
  BY <1>1, <1>2, <1>3, <1>4, <1>5, <1>6, <1>7, <1>8 DEF PlanNext, Group

\* MeltIsCovered: whatever a mint publishes, charges and quotes, and whatever saturates on
\* the way, the proofs submitted to it cover exactly what it asked.
THEOREM MeltIsCoveredHolds == PlanSpec => []MeltIsCovered
<1>1. PlanInv => MeltIsCovered
  <2> SUFFICES ASSUME PlanInv, pc = "melting", plan.selected < MAX
               PROVE  (quote.amount + quote.fee + plan.fee) * MSAT_PER_SAT <= plan.selected
    BY DEF MeltIsCovered
  <2>1. SatToMsat(quote.amount) \in Money /\ SatToMsat(quote.fee) \in Money /\ SatToMsat(plan.fee) \in Money
    BY SatToMsatIsMoney DEF PlanInv, PlanTyped
  <2>2. Required(quote, SatToMsat(plan.fee)) \in Money
    <3>1. ASSUME NEW x \in Money, NEW y \in Money PROVE Saturated(x + y) \in Money
      <4>1. x + y \in Nat
        BY PlanAssumption DEF Money
      <4> QED
        BY <4>1, SaturatedIsMoney
    <3> QED
      BY <2>1, <3>1 DEF Required
  <2>3. Required(quote, SatToMsat(plan.fee)) <= plan.selected
    BY <2>2, PlanAssumption DEF PlanInv, PlanTyped, MeltingIsChecked, TooDear, Money
  <2> QED
    BY <2>3, RequiredIsExact DEF PlanInv, PlanTyped
<1>2. PlanInv /\ [PlanNext]_planVars => PlanInv'
  BY PlanStep
<1> QED
  BY <1>1, <1>2, PlanStarts, PTL DEF PlanSpec

-----------------------------------------------------------------------------
\* The thresholds are a configuration whatever a mint publishes: what it leaves out is the
\* default, and the defaults are in place when it is asked.
ThresholdsTyped == params \in [min : Money, ppk : Nat, minFee : Money]

AskedWithDefaults == pc = "info" => info = NoInfo /\ params = Defaults

ThresholdsInv == ThresholdsTyped /\ AskedWithDefaults /\ ParamsAreThisMints

\* A mint that publishes nothing changes nothing.
LEMMA NothingOverridesNothing == Override(NoInfo) = Defaults
  BY PlanAssumption DEF Override, NoInfo

\* What it publishes is a configuration.
LEMMA OverrideIsTyped ==
  ASSUME NEW i \in [min : Published \cup {None}, ppk : Rates \cup {None}, minFee : Published \cup {None}]
  PROVE  Override(i) \in [min : Money, ppk : Nat, minFee : Money]
<1>1. \A n \in Published : SatToMsat(n) \in Money
  BY SatToMsatIsMoney, PlanAssumption
<1> QED
  BY <1>1, PlanAssumption DEF Override

\* Every step keeps the thresholds those of the mint at hand.
LEMMA ThresholdsStep ==
  ASSUME ThresholdsInv, [PlanNext]_planVars
  PROVE  ThresholdsInv'
<1> USE DEF ThresholdsInv, ThresholdsTyped, AskedWithDefaults, ParamsAreThisMints
<1>1. CASE \E m \in Mints : OpenWallet(m) \/ SkipMint(m)
  BY <1>1, PlanAssumption DEF OpenWallet, SkipMint
<1>2. CASE FetchInfo
  <2>1. params' = Override(info')
    BY <1>2 DEF FetchInfo, Override
  <2>2. params' \in [min : Money, ppk : Nat, minFee : Money]
    BY <1>2, <2>1, OverrideIsTyped DEF FetchInfo
  <2> QED
    BY <1>2, <2>1, <2>2 DEF FetchInfo, Override
<1>3. CASE InfoFails
  BY <1>3, NothingOverridesNothing DEF InfoFails, Override
<1>4. CASE \E g \in Groups, fee \in Published \cup {0} : PlanGroup(g, fee)
  BY <1>4 DEF PlanGroup, Override
<1>5. CASE GetQuote \/ QuoteFails \/ RefuseQuote \/ AcceptQuote \/ Melt \/ EndGroups
  BY <1>5 DEF GetQuote, QuoteFails, RefuseQuote, AcceptQuote, Melt, EndGroups, Done, Override
<1>6. CASE BeginCycle \/ EndCycle
  BY <1>6 DEF BeginCycle, EndCycle
<1>7. CASE UNCHANGED planVars
  BY <1>7 DEF planVars, Override
<1> QED
  BY <1>1, <1>2, <1>3, <1>4, <1>5, <1>6, <1>7 DEF PlanNext, Group

\* The thresholds' invariant holds of every behaviour.
LEMMA ThresholdsInvariant == PlanSpec => []ThresholdsInv
<1>1. PlanInit => ThresholdsInv
  BY PlanAssumption DEF PlanInit, ThresholdsInv, ThresholdsTyped, AskedWithDefaults, ParamsAreThisMints
<1> QED
  BY <1>1, ThresholdsStep, PTL DEF PlanSpec

\* ParamsAreThisMints: no group is planned with the thresholds of a mint the cycle passed.
THEOREM ParamsAreThisMintsHolds == PlanSpec => []ParamsAreThisMints
<1>1. ThresholdsInv => ParamsAreThisMints
  BY DEF ThresholdsInv
<1> QED
  BY <1>1, ThresholdsInvariant, PTL

-----------------------------------------------------------------------------
\* Every balance a group is planned on is in whole sats, or is what a balance beyond u64
\* saturates to.  It is so as long as no sum of balances wraps: MAX millisats are more
\* than there will ever be.
WholeSats == \A g \in Groups : Total(Selected(g)) = MAX \/ \E s \in Nat : Total(Selected(g)) = s * MSAT_PER_SAT

WholeBalance == plan.selected = MAX \/ \E s \in Nat : plan.selected = s * MSAT_PER_SAT

\* What PlanGroup computed still holds while the group is quoted and melted.
Planned ==
  LET reserve == MeltReserve(plan.selected, params, SatToMsat(plan.fee))
  IN  /\ plan.selected > reserve
      /\ plan.redeemable = plan.selected - reserve
      /\ WholeBalance

PlannedInv == pc \in {"plan", "quoted", "melting"} => Planned

\* The reserve is what it is for any saturated balance and any configuration.
LEMMA FeeReserveIsMoney ==
  ASSUME NEW balance \in Money, NEW p \in [min : Money, ppk : Nat, minFee : Money]
  PROVE  FeeReserve(balance, p) \in Money
<1>1. (balance * p.ppk) \div 1000 \in Nat
  <2>1. balance * p.ppk \in Nat
    BY PlanAssumption DEF Money
  <2> QED
    BY <2>1
<1>2. Saturated((balance * p.ppk) \div 1000) \in Money
  BY <1>1, SaturatedIsMoney
<1> QED
  BY <1>2 DEF FeeReserve

\* Saturation only ever takes away.
LEMMA SaturatedIsAtMost == \A n \in Nat : Saturated(n) <= n /\ Saturated(n) <= MAX
  BY PlanAssumption DEF Saturated

\* Rounding the invoice up to whole sats costs nothing: what it adds is less than a sat,
\* and the fee reserve, which is in whole sats as well, is rounded down.
LEMMA RoundingIsPaidFor ==
  ASSUME NEW M \in Nat \ {0}, NEW s \in Nat, NEW reserve \in Nat, NEW i \in Nat, NEW f \in Nat,
         s * M > reserve + i * M, f * M <= reserve
  PROVE  (((s * M - (reserve + i * M)) + M - 1) \div M + f + i) * M <= s * M
<1> DEFINE r == s * M - (reserve + i * M)
           a == (r + M - 1) \div M
           x == a + f + i
<1>1. r \in Nat /\ s * M \in Nat /\ i * M \in Nat /\ f * M \in Nat
  BY DEF r
<1>2. a \in Nat /\ a * M <= r + M - 1
  <2> HIDE DEF r
  <2>1. r + M - 1 \in Nat
    BY <1>1
  <2> QED
    BY <2>1
<1>3. x * M = a * M + f * M + i * M
  <2> HIDE DEF a
  <2> QED
    BY <1>2
<1>4. x * M <= s * M + M - 1
  <2> HIDE DEF a, x
  <2> QED
    BY <1>1, <1>2, <1>3
<1>5. x <= s
  <2> HIDE DEF a
  <2>1. x \in Nat
    BY <1>2
  <2> HIDE DEF x
  <2> SUFFICES ASSUME x >= s + 1 PROVE FALSE
    BY <2>1
  <2>2. x * M >= (s + 1) * M
    BY <2>1
  <2>3. (s + 1) * M = s * M + M
    OBVIOUS
  <2> QED
    BY <1>1, <1>4, <2>1, <2>2, <2>3
<1>6. x \in Nat
  <2> HIDE DEF a
  <2> QED
    BY <1>2
<1> HIDE DEF x
<1>7. x * M <= s * M
  BY <1>5, <1>6
<1> QED
  BY <1>7 DEF x

\* Every step keeps what a group was planned on.
LEMMA PlannedStep ==
  ASSUME WholeSats, PlannedInv, [PlanNext]_planVars
  PROVE  PlannedInv'
<1> USE DEF PlannedInv, Planned, WholeBalance
<1>1. ASSUME NEW g \in Groups, NEW fee \in Published \cup {0}, PlanGroup(g, fee)
      PROVE  PlannedInv'
  BY <1>1 DEF PlanGroup, WholeSats, MeltReserve, FeeReserve
<1>2. CASE GetQuote \/ AcceptQuote
  BY <1>2 DEF GetQuote, AcceptQuote, MeltReserve, FeeReserve
<1>3. CASE QuoteFails \/ RefuseQuote \/ Melt \/ EndGroups
  BY <1>3 DEF QuoteFails, RefuseQuote, Melt, EndGroups, Done
<1>4. CASE BeginCycle \/ EndCycle \/ FetchInfo \/ InfoFails
  BY <1>4 DEF BeginCycle, EndCycle, FetchInfo, InfoFails
<1>5. CASE \E m \in Mints : OpenWallet(m) \/ SkipMint(m)
  BY <1>5 DEF OpenWallet, SkipMint
<1>6. CASE UNCHANGED planVars
  BY <1>6 DEF planVars, MeltReserve, FeeReserve
<1> QED
  BY <1>1, <1>2, <1>3, <1>4, <1>5, <1>6 DEF PlanNext, Group

\* What was planned and what is quoted are enough to tell that the quote is affordable.
LEMMA PlannedIsFair ==
  ASSUME PlanTyped, ThresholdsTyped, PlannedInv
  PROVE  FairQuoteAccepted
<1> SUFFICES ASSUME pc = "quoted",
                    quote.amount = (plan.redeemable + MSAT_PER_SAT - 1) \div MSAT_PER_SAT,
                    SatToMsat(quote.fee) <= FeeReserve(plan.selected, params)
             PROVE  Required(quote, SatToMsat(plan.fee)) <= plan.selected
  <2>1. plan.selected \in Nat
    BY PlanAssumption DEF PlanTyped, Money
  <2>2. Required(quote, SatToMsat(plan.fee)) \in Nat
    <3>1. SatToMsat(quote.amount) \in Money /\ SatToMsat(quote.fee) \in Money /\ SatToMsat(plan.fee) \in Money
      BY SatToMsatIsMoney DEF PlanTyped
    <3>2. ASSUME NEW y \in Money, NEW z \in Money PROVE Saturated(y + z) \in Money
      <4>1. y + z \in Nat
        BY PlanAssumption DEF Money
      <4> QED
        BY <4>1, SaturatedIsMoney
    <3> QED
      BY <3>1, <3>2, PlanAssumption DEF Required, Money
  <2> QED
    BY <2>1, <2>2 DEF FairQuoteAccepted, TooDear
<1> DEFINE a == SatToMsat(quote.amount)
           f == SatToMsat(quote.fee)
           i == SatToMsat(plan.fee)
           reserve == FeeReserve(plan.selected, params)
<1>1. a \in Money /\ f \in Money /\ i \in Money /\ reserve \in Money /\ plan.selected \in Money
  BY SatToMsatIsMoney, FeeReserveIsMoney DEF PlanTyped, ThresholdsTyped
<1>2. /\ plan.selected > Saturated(reserve + i)
      /\ plan.redeemable = plan.selected - Saturated(reserve + i)
      /\ WholeBalance
  BY DEF PlannedInv, Planned, MeltReserve
<1>3. Required(quote, i) = Saturated(Saturated(a + f) + i)
  BY DEF Required
<1>4. a <= quote.amount * MSAT_PER_SAT
  <2>1. quote.amount * MSAT_PER_SAT \in Nat
    BY PlanAssumption DEF PlanTyped
  <2> QED
    BY <2>1, SaturatedIsAtMost DEF SatToMsat
<1>5. /\ f < MAX => f = quote.fee * MSAT_PER_SAT
      /\ i < MAX => i = plan.fee * MSAT_PER_SAT
  BY SatToMsatIsMoney DEF PlanTyped
<1>6. f <= reserve
  OBVIOUS
<1> HIDE DEF a, f, i, reserve
<1>7. Required(quote, i) <= MAX /\ Required(quote, i) <= a + f + i
  <2>1. a + f \in Nat /\ Saturated(a + f) \in Money /\ Saturated(a + f) <= a + f
    <3>1. a + f \in Nat
      BY <1>1 DEF Money
    <3> QED
      BY <3>1, SaturatedIsMoney, SaturatedIsAtMost
  <2>2. Saturated(a + f) + i \in Nat
    BY <1>1, <2>1, PlanAssumption DEF Money
  <2>3. /\ Saturated(Saturated(a + f) + i) <= MAX
        /\ Saturated(Saturated(a + f) + i) <= Saturated(a + f) + i
    BY <2>2, SaturatedIsAtMost
  <2>4. Required(quote, i) \in Money
    BY <2>2, <1>3, SaturatedIsMoney
  <2> QED
    BY <1>1, <1>3, <2>1, <2>3, <2>4, PlanAssumption DEF Money
<1>8. CASE plan.selected = MAX
  BY <1>7, <1>8 DEF i
<1>9. CASE plan.selected # MAX
  <2>1. PICK s \in Nat : plan.selected = s * MSAT_PER_SAT
    BY <1>2, <1>9 DEF WholeBalance
  <2>2. plan.selected < MAX
    BY <1>1, <1>9, PlanAssumption DEF Money
  <2>3. reserve + i \in Nat /\ Saturated(reserve + i) = reserve + i
    <3>1. reserve + i \in Nat
      BY <1>1 DEF Money
    <3>2. Saturated(reserve + i) < MAX
      <4>1. Saturated(reserve + i) \in Money
        BY <3>1, SaturatedIsMoney
      <4> QED
        BY <1>1, <1>2, <4>1, PlanAssumption DEF Money
    <3> QED
      BY <3>1, <3>2, SaturatedIsMoney
  <2>4. f < MAX /\ i < MAX /\ reserve + i < plan.selected
    BY <1>1, <1>2, <1>6, <2>2, <2>3, PlanAssumption DEF Money
  <2>5. f = quote.fee * MSAT_PER_SAT /\ i = plan.fee * MSAT_PER_SAT
    BY <1>5, <2>4
  <2>6. quote.amount = ((s * MSAT_PER_SAT - (reserve + plan.fee * MSAT_PER_SAT)) + MSAT_PER_SAT - 1) \div MSAT_PER_SAT
    BY <1>2, <2>1, <2>3, <2>5
  <2>7. (quote.amount + quote.fee + plan.fee) * MSAT_PER_SAT <= s * MSAT_PER_SAT
    <3>1. reserve \in Nat /\ quote.fee \in Nat /\ plan.fee \in Nat
      BY <1>1 DEF Money, PlanTyped
    <3>2. s * MSAT_PER_SAT > reserve + plan.fee * MSAT_PER_SAT /\ quote.fee * MSAT_PER_SAT <= reserve
      BY <2>1, <2>4, <2>5, <1>6, <1>1, <2>3, PlanAssumption DEF Money
    <3> QED
      BY <3>1, <3>2, <2>6, RoundingIsPaidFor, PlanAssumption
  <2>8. quote.amount * MSAT_PER_SAT + f + i <= plan.selected
    <3>1. (quote.amount + quote.fee + plan.fee) * MSAT_PER_SAT
            = quote.amount * MSAT_PER_SAT + quote.fee * MSAT_PER_SAT + plan.fee * MSAT_PER_SAT
      BY PlanAssumption DEF PlanTyped
    <3> QED
      BY <3>1, <2>1, <2>5, <2>7
  <2>9. a + f + i <= quote.amount * MSAT_PER_SAT + f + i
    <3>1. quote.amount * MSAT_PER_SAT \in Nat
      BY PlanAssumption DEF PlanTyped
    <3> QED
      BY <3>1, <1>1, <1>4 DEF Money
  <2>10. Required(quote, i) <= plan.selected
    <3>1. quote.amount * MSAT_PER_SAT \in Nat /\ Required(quote, i) \in Int
      <4>1. Saturated(a + f) + i \in Nat
        <5>1. a + f \in Nat
          BY <1>1 DEF Money
        <5> QED
          BY <5>1, <1>1, SaturatedIsMoney DEF Money
      <4>2. Required(quote, i) \in Money
        BY <4>1, <1>3, SaturatedIsMoney
      <4> QED
        BY <4>2, PlanAssumption DEF PlanTyped, Money
    <3> QED
      BY <3>1, <1>1, <1>7, <2>8, <2>9, PlanAssumption DEF Money
  <2> QED
    BY <2>10 DEF i
<1> QED
  BY <1>8, <1>9

\* FairQuoteAccepted: a mint that quotes what it was told to expect is never refused, so
\* that no group is planned and refused in every cycle, as long as no balance wraps.
THEOREM FairQuoteAcceptedHolds ==
  ASSUME WholeSats
  PROVE  PlanSpec => []FairQuoteAccepted
<1>1. PlanInit => PlanInv /\ PlannedInv
  BY PlanStarts DEF PlanInit, PlannedInv
<1>2. PlanInv /\ PlannedInv /\ [PlanNext]_planVars => (PlanInv /\ PlannedInv)'
  BY PlanStep, PlannedStep
<1>3. PlanInv /\ PlannedInv /\ ThresholdsInv => FairQuoteAccepted
  BY PlannedIsFair DEF PlanInv, ThresholdsInv
<1> QED
  BY <1>1, <1>2, <1>3, ThresholdsInvariant, PTL DEF PlanSpec

-----------------------------------------------------------------------------
(* The lease *)


(* A process that does not exist has no lease thread: with it, and with the  *)
(* agreement of lock and lease in TypeOK, a lock that is free means that     *)
(* nobody redeems.                                                           *)
DeadHasNoLease == \A w \in Worker : ~Alive(w) => lease[w] = "none"

LeaseInv == TypeOK /\ RedeemerHoldsLock /\ DeadHasNoLease

\* Nobody redeems when nginx starts.
LEMMA LeaseStarts == LeaseInit => LeaseInv
BY LeaseAssumption DEF LeaseInit, LeaseInv, TypeOK, RedeemerHoldsLock, DeadHasNoLease, Alive,
  LeaseStates, ThreadStates

\* The lease thread starts a redemption thread only with the lock in hand.
LEMMA LeaseThreadStep ==
  ASSUME LeaseInv, NEW w \in Worker, LeaseStep(w)
  PROVE  LeaseInv'
<1> USE LeaseAssumption DEF LeaseInv, TypeOK, RedeemerHoldsLock, DeadHasNoLease, Alive,
        LeaseStates, ThreadStates
<1>1. CASE OpenLease(w)    BY <1>1 DEF OpenLease
<1>2. CASE OpenFails(w)    BY <1>2 DEF OpenFails
<1>3. CASE Block(w)        BY <1>3 DEF Block
<1>4. CASE Acquire(w)
  <2>1. \A u \in Worker : thread[u] = "none" /\ lease[u] # "held"
    BY <1>4 DEF Acquire
  <2> QED BY <1>4, <2>1 DEF Acquire
<1>5. CASE Interrupted(w)  BY <1>5 DEF Interrupted
<1>6. CASE FlockFails(w)   BY <1>6 DEF FlockFails
<1>7. CASE Spawn(w)        BY <1>7 DEF Spawn
<1> QED BY <1>1, <1>2, <1>3, <1>4, <1>5, <1>6, <1>7 DEF LeaseStep

\* The redemption thread does not touch the lock.
LEMMA RedemptionThreadStep ==
  ASSUME LeaseInv, NEW w \in Worker, ThreadStep(w)
  PROVE  LeaseInv'
<1> USE LeaseAssumption DEF LeaseInv, TypeOK, RedeemerHoldsLock, DeadHasNoLease, Alive,
        LeaseStates, ThreadStates
<1>1. CASE StartRuntime(w) BY <1>1 DEF StartRuntime
<1>2. CASE StartFails(w)   BY <1>2 DEF StartFails
<1>3. CASE Cycle(w)        BY <1>3 DEF Cycle
<1>4. CASE Wake(w)         BY <1>4 DEF Wake
<1> QED BY <1>1, <1>2, <1>3, <1>4 DEF ThreadStep

\* A process that ends takes its threads and its lock with it; one that starts has none.
LEMMA ProcessStep ==
  ASSUME LeaseInv, Reload \/ \E w \in Worker : Exit(w) \/ Crash(w)
  PROVE  LeaseInv'
<1> USE LeaseAssumption DEF LeaseInv, TypeOK, RedeemerHoldsLock, DeadHasNoLease, Alive,
        LeaseStates, ThreadStates
<1>1. CASE Reload
  <2>1. PICK new \in (SUBSET {w \in Worker : ~Alive(w)}) \ {{}} :
          /\ process' = [w \in Worker |->
                           IF w \in new THEN "serving"
                           ELSE IF Alive(w) THEN "draining" ELSE "none"]
          /\ lease' = [w \in Worker |-> IF w \in new THEN "open" ELSE lease[w]]
    BY <1>1 DEF Reload
  <2>2. /\ thread' = thread /\ lock' = lock /\ failing' = failing
        /\ churn' = churn + 1 /\ churn < MaxChurn
    BY <1>1 DEF Reload
  <2>3. \A w \in new : thread[w] = "none" /\ lock # w
    OBVIOUS
  <2> QED BY <2>1, <2>2, <2>3
<1>2. ASSUME NEW w \in Worker, Exit(w) PROVE LeaseInv'
  BY <1>2 DEF Exit, Ends
<1>3. ASSUME NEW w \in Worker, Crash(w) PROVE LeaseInv'
  BY <1>3 DEF Crash, Ends
<1> QED BY <1>1, <1>2, <1>3

(* The lease invariant: types, agreement of lock and lease, and that a       *)
(* redemption thread exists only in the live process that holds the lock.    *)
THEOREM LeaseInvariant == LeaseSpec => []LeaseInv
<1>1. LeaseInv /\ [LeaseNext]_leaseVars => LeaseInv'
  <2> SUFFICES ASSUME LeaseInv, [LeaseNext]_leaseVars PROVE LeaseInv'
    OBVIOUS
  <2>1. ASSUME NEW w \in Worker, LeaseStep(w) PROVE LeaseInv'
    BY <2>1, LeaseThreadStep
  <2>2. ASSUME NEW w \in Worker, ThreadStep(w) PROVE LeaseInv'
    BY <2>2, RedemptionThreadStep
  <2>3. CASE Reload \/ \E w \in Worker : Exit(w) \/ Crash(w)
    BY <2>3, ProcessStep
  <2>4. CASE UNCHANGED leaseVars
    BY <2>4 DEF leaseVars, LeaseInv, TypeOK, RedeemerHoldsLock, DeadHasNoLease, Alive
  <2> QED BY <2>1, <2>2, <2>3, <2>4 DEF LeaseNext
<1> QED BY <1>1, LeaseStarts, PTL DEF LeaseSpec

(* At most one worker runs the redemption loop, whatever the reloads,        *)
(* crashes, signals and failures.                                            *)
THEOREM OneRedeemerHolds == LeaseSpec => []OneRedeemer
<1>1. LeaseInv => OneRedeemer
  BY DEF LeaseInv, RedeemerHoldsLock, OneRedeemer, Redeeming
<1> QED BY <1>1, LeaseInvariant, PTL

(* The lock stays with the process that redeems until that process ends: the *)
(* file that owns it is neither dropped early nor held by another worker.    *)
THEOREM RedeemerHoldsLockHolds == LeaseSpec => []RedeemerHoldsLock
<1>1. LeaseInv => RedeemerHoldsLock
  BY DEF LeaseInv
<1> QED BY <1>1, LeaseInvariant, PTL

=============================================================================
