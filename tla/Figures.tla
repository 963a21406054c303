------------------------------- MODULE Figures -------------------------------
(***************************************************************************)
(* What the app tells a user an account is worth: the totals and the health  *)
(* of the two lanes (mapSolanaPosition.ts, portal/stats.ts, positionStats.ts,  *)
(* healthDisplay.ts), the outlook of the action panel (laneActions.ts          *)
(* actionConsequences) and the figures of the liquidate list                  *)
(* (enrichLiquidatable.ts), next to what Comet makes of the same account.      *)
(*                                                                         *)
(* An account in a market whose prices move and whose feeds stop answering.    *)
(* The base is worth 1, factors are in percent, and USD are in hundredths; a    *)
(* health factor is an exact fraction.                                       *)
(***************************************************************************)
EXTENDS Integers, FiniteSets, Functions

CONSTANTS
  Colls,
  BorrowFactor,     \* borrowCollateralFactor of each
  LiquidateFactor,  \* liquidateCollateralFactor
  AbsorbFactor,     \* liquidationFactor, what absorb pays for the collateral
  Prices,
  MaxColl, MaxDebt, \* bounds of the account
  NoDebtHealth      \* HEALTH_FACTOR_NO_DEBT

VARIABLES
  coll,   \* collateral supplied
  base,   \* base supplied, or below 0 the debt
  price,  \* of each collateral
  live    \* feeds that answer, "base" for the base's own

vars == <<coll, base, price, live>>

Debt == IF base < 0 THEN -base ELSE 0
Supplied == IF base > 0 THEN base ELSE 0

FiguresTypeOK ==
  /\ coll \in [Colls -> 0 .. MaxColl] /\ base \in -MaxDebt .. 1
  /\ price \in [Colls -> Prices] /\ live \in SUBSET (Colls \cup {"base"})

(* Collateral at its price times a factor; without a feed it counts nothing.     *)
Weighed(factor, feeds) == SumFunction([c \in Colls \cap feeds |-> coll[c] * price[c] * factor[c]])

-----------------------------------------------------------------------------
(* Comet (external): a debt is covered as far as the feeds that answer tell,    *)
(* and an account whose held collateral has all its feeds is liquidatable once  *)
(* it is worth less than the debt.                                          *)
Covered(factor, debt) == Weighed(factor, live) >= 100 * debt
HeldFeedsLive == \A c \in Colls : coll[c] > 0 => c \in live
Liquidatable == Debt > 0 /\ HeldFeedsLive /\ "base" \in live /\ ~Covered(LiquidateFactor, Debt)

Init ==
  /\ coll \in [Colls -> 0 .. MaxColl] /\ base \in {0, 1}
  /\ price \in [Colls -> Prices] /\ live = Colls \cup {"base"}

SupplyCollateral(c) ==
  /\ coll[c] < MaxColl /\ coll' = [coll EXCEPT ![c] = @ + 1] /\ UNCHANGED <<base, price, live>>

WithdrawCollateral(c) ==
  /\ coll[c] > 0 /\ coll' = [coll EXCEPT ![c] = @ - 1] /\ UNCHANGED <<base, price, live>>
  /\ Debt > 0 => SumFunction([k \in Colls \cap live |-> coll'[k] * price[k] * BorrowFactor[k]]) >= 100 * Debt

Borrow(n) ==
  /\ base - n >= -MaxDebt /\ (base < n => Covered(BorrowFactor, n - base))
  /\ base' = base - n /\ UNCHANGED <<coll, price, live>>

Repay(n) == base + n <= 1 /\ base' = base + n /\ UNCHANGED <<coll, price, live>>

MarketMoves ==
  /\ \/ \E c \in Colls, p \in Prices : price' = [price EXCEPT ![c] = p] /\ UNCHANGED live
     \/ \E f \in Colls \cup {"base"} : live' = (live \ {f}) \cup ({f} \ live) /\ UNCHANGED price
  /\ UNCHANGED <<coll, base>>

Next ==
  \/ \E c \in Colls : SupplyCollateral(c) \/ WithdrawCollateral(c)
  \/ \E n \in 1 .. MaxDebt : Borrow(n) \/ Repay(n)
  \/ MarketMoves

Spec == Init /\ [][Next]_vars

-----------------------------------------------------------------------------
(* What is shown.                                                          *)

Ratio(n, d) == [n |-> n, d |-> d]
NoDebt == Ratio(NoDebtHealth, 1)
AtMost(x, y) == x.n * y.d <= y.n * x.d
Same(x, y) == x.n * y.d = y.n * x.d

(* clampHealthFactor.                                                        *)
Clamped(x) == IF AtMost(x, NoDebt) THEN x ELSE NoDebt

(* buildSolanaReadsAndStats: borrow factors, and the base at its constant price.   *)
SolanaHealth == IF Debt > 0 THEN Ratio(Weighed(BorrowFactor, live), 100 * Debt) ELSE NoDebt

(* computeUserAccountStats: liquidation factors, and the base at its feed's price,  *)
(* so that a debt whose feed is silent is worth nothing.                        *)
EvmHealth ==
  IF Debt > 0 /\ "base" \in live THEN Ratio(Weighed(LiquidateFactor, live), 100 * Debt) ELSE NoDebt

(* mapSolanaPosition and mapEvmPosition: a row's balance at its price.            *)
Rows == [a \in Colls \cup {"base"} |->
           IF a = "base" THEN 100 * Supplied ELSE IF a \in live THEN 100 * coll[a] * price[a] ELSE 0]

(* computePositionStats.                                                      *)
PositionStats(health) ==
  [supplied |-> SumFunction(Rows), borrowed |-> 100 * Debt,
   capacity |-> Weighed(BorrowFactor, live), health |-> Clamped(health),
   pricesStale |-> \E c \in Colls \ live : coll[c] > 0]

Shown(lane) == PositionStats(IF lane = "solana" THEN SolanaHealth ELSE EvmHealth)
Lanes == {"solana", "evm"}

(* hasHoldings, which tells an empty account apart by its tokens.                *)
HasHoldings == base # 0 \/ \E c \in Colls : coll[c] > 0

(* resolveHealthDisplay: no health for a debt against a held asset without price.   *)
ShowHealth(s) == HasHoldings /\ ~(s.pricesStale /\ s.borrowed > 0)

(* Mutant: the new debt is not added to the old.                                *)
HealthAfter_NewOnly(s, change) ==
  IF s.borrowed > 0 /\ s.borrowed + change > 0
  THEN Ratio(s.health.n * s.borrowed, s.health.d * (IF change > 0 THEN change ELSE s.borrowed + change))
  ELSE NoDebt

(* healthAfterBorrow and healthAfterRepay: the threshold behind the health shown,   *)
(* over the debt that will be.                                              *)
HealthAfter(s, change) ==
  IF s.borrowed > 0 /\ s.borrowed + change > 0
  THEN Ratio(s.health.n * s.borrowed, s.health.d * (s.borrowed + change))
  ELSE NoDebt

(* validateAction's caution.                                                  *)
Warned(s, change) == s.borrowed > 0 /\ ~AtMost(Ratio(11, 10), HealthAfter(s, change))

(* buildLiquidatableInfo's health, weighed with what absorb pays, and what the         *)
(* standard filter of LiquidateView (1.0) lets by.                              *)
EnrichedHealth == Ratio(Weighed(AbsorbFactor, live), 100 * Debt)
Filtered == AtMost(EnrichedHealth, Ratio(1, 1))

-----------------------------------------------------------------------------
(* Properties.                                                             *)

(* The lanes tell one story: the totals, the capacity and the warning of stale      *)
(* prices agree, and the Solana lane never shows the better health (the promise of  *)
(* positionStats.ts).  The base's feed is taken to answer.                         *)
LanesAgree ==
  "base" \in live =>
    LET s == Shown("solana")
        e == Shown("evm")
    IN [s EXCEPT !.health = NoDebt] = [e EXCEPT !.health = NoDebt] /\ AtMost(s.health, e.health)

(* An account shown with a health of 1 or more is not liquidatable                  *)
(* (computeUserAccountStats, buildSolanaReadsAndStats, resolveHealthDisplay).          *)
HealthyIsSafe ==
  \A l \in Lanes : ShowHealth(Shown(l)) /\ AtMost(Ratio(1, 1), Shown(l).health) => ~Liquidatable

(* What is shown as free to borrow Comet lends, whatever feeds answer                *)
(* (healthDisplay's "conservative floor").                                         *)
CapacityIsLent ==
  \A l \in Lanes, n \in 1 .. MaxDebt :
    base <= 0 /\ Shown(l).borrowed + 100 * n <= Shown(l).capacity => Covered(BorrowFactor, Debt + n)

(* The outlook comes true: after a borrow or a repayment the lane shows the health    *)
(* the panel promised, or a better one where the health before was cut off at its     *)
(* ceiling; and a borrow from a debt that was not cautioned leaves 1.1               *)
(* (actionConsequences, validateAction).                                         *)
OutlookHolds(lane) ==
  LET was == Shown(lane)
      change == 100 * (base - base')
      promised == Clamped(HealthAfter(was, change))
      is == Shown(lane).health'
  IN base < 0 /\ base' <= 0 /\ base' # base /\ "base" \in live
     => /\ AtMost(promised, is)
        /\ ~Same(was.health, NoDebt) => Same(promised, is)
        /\ change > 0 /\ ~Warned(was, change) => AtMost(Ratio(11, 10), is)

FiguresAreRight == LanesAgree /\ HealthyIsSafe /\ CapacityIsLent

(* What the source says and the code does not keep: an account that may be absorbed   *)
(* passes the list's own filter (enrichLiquidatable.ts: "expect < 1").              *)
ListedIsShown == Liquidatable => Filtered
=============================================================================
