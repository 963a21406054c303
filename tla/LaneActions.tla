----------------------------- MODULE LaneActions -----------------------------
(***************************************************************************)
(* What the action panel lets the user ask for: lib/lane/laneActions.ts on *)
(* the position that mapEvmPosition / mapSolanaPosition build from a read. *)
(*                                                                         *)
(* The chain holds an account and a market; the lane sees what its last    *)
(* read returned, some parts of which may be missing.  Comet is external:  *)
(* Accepts says which transactions it executes.                            *)
(*                                                                         *)
(* Amounts are whole units; the base is worth 1.  A USD figure is an exact *)
(* fraction [n, d], where the code has a float and a relative tolerance of *)
(* 1e-9.                                                                   *)
(***************************************************************************)
EXTENDS Integers, Sequences, FiniteSets, Functions

CONSTANTS
  Colls,       \* collateral assets
  Feeds,       \* collateral whose feed may stop answering (a bound)
  Factor,      \* borrow collateral factor of each, in tenths
  Lanes,       \* lanes looked at
  StartAccts,  \* accounts a behaviour may start from
  StartMarkets,\* markets a behaviour may start from
  Prices,      \* prices of collateral
  MaxAmount    \* largest amount the user types (a bound)

Assets == {"base"} \cup Colls

ASSUME LaneActionsAssumption ==
  /\ IsFiniteSet(Colls) /\ "base" \notin Colls
  /\ Factor \in [Colls -> 1 .. 10]
  /\ Feeds \subseteq Colls
  /\ Lanes \subseteq {"evm", "solana"}
  /\ StartAccts \subseteq [base: Int, coll: [Colls -> Nat], wallet: [Assets -> Nat]]
  /\ StartMarkets \subseteq [net: Int, held: Nat, min: Nat, room: [Colls -> Nat]]
  /\ Prices \subseteq Nat \ {0}
  /\ MaxAmount \in Nat

VARIABLES
  lane,   \* the page the user is on
  chain,  \* account and market as they are
  seen    \* account and market as the last read returned them

vars == <<lane, chain, seen>>

ActionType == {"supply", "withdraw", "borrow", "repay"}
Unknown == -1  \* a figure the lane could not read
Amounts == 1 .. MaxAmount

\* base < 0 is debt; room[c] is what c's supply cap still admits; net is
\* totalSupply - totalBorrow (below 0 when reserves were lent out) and held
\* the base the Comet holds.
State == [base: Int, coll: [Colls -> Nat], wallet: [Assets -> Nat],
          price: [Colls -> Prices], stale: SUBSET Colls,
          net: Int, held: Nat, min: Nat, room: [Colls -> Nat]]
View == [base: Int, coll: [Colls -> Nat], wallet: [Assets -> Nat],
         price: [Colls -> Prices], stale: SUBSET Colls,
         net: Nat \cup {Unknown}, held: Nat \cup {Unknown}, min: Nat \cup {Unknown},
         room: [Colls -> Nat \cup {Unknown}]]

TypeOK ==
  /\ lane \in Lanes
  /\ chain \in State
  /\ seen \in View

Floor0(n) == IF n > 0 THEN n ELSE 0
Supplied(p) == Floor0(p.base)
Debt(p) == Floor0(-p.base)

(* Sum of collateral USD x borrowCollateralFactor, in tenths of a dollar; a *)
(* stale feed reads as price 0 and counts for nothing.                      *)
Capacity(p) ==
  SumFunction([c \in Colls |-> IF c \in p.stale THEN 0 ELSE p.coll[c] * p.price[c] * Factor[c]])

PricesStale(p) == \E c \in p.stale : p.coll[c] > 0

-----------------------------------------------------------------------------
(* The constraints.                                                        *)

Usd(n) == [n |-> n, d |-> 1]
Limit(binding, usd) == <<[binding |-> binding, usd |-> usd]>>
Leq(x, y) == x.n * y.d <= y.n * x.d

(* minConstraint: the smallest, the first of equals.  Never empty here.     *)
MinConstraint(limits) ==
  limits[CHOOSE i \in DOMAIN limits :
           /\ \A j \in DOMAIN limits : Leq(limits[i].usd, limits[j].usd)
           /\ \A j \in 1 .. i - 1 : ~Leq(limits[j].usd, limits[i].usd)]

(* toResult: 0.1% below a ceiling of the protocol, none below one's own.    *)
Haircut(limit) ==
  IF limit.binding \in {"capacity", "liquidity", "health", "supplyCap"}
  THEN [limit EXCEPT !.usd = [n |-> @.n * 999, d |-> @.d * 1000]]
  ELSE limit

(* priceOf: an asset without a live feed counts 1.                          *)
PriceOf(p, a) == IF a = "base" \/ a \in p.stale THEN 1 ELSE p.price[a]

(* cappedBaseLiquidityRaw, and limits: none when neither figure is known, 0 *)
(* when only the minimum is.                                               *)
LiquidityLimit(p) ==
  IF p.net = Unknown /\ p.min = Unknown THEN <<>>
  ELSE Limit("liquidity",
             Usd(IF p.net = Unknown THEN 0
                 ELSE IF p.held = Unknown \/ p.net < p.held THEN p.net ELSE p.held))

Headroom(p) == Floor0(Capacity(p) - 10 * Debt(p))  \* tenths of a dollar

Borrowable(p) ==
  LET free == MinConstraint(Limit("capacity", [n |-> Headroom(p), d |-> 10])
                            \o LiquidityLimit(p))
  IN IF PricesStale(p) /\ Headroom(p) = 0 THEN Limit("priceStale", Usd(0))[1]
     ELSE IF Debt(p) < p.min /\ ~Leq(Usd(p.min - Debt(p)), free.usd)
     THEN Limit("baseBorrowMin", Usd(0))[1]
     ELSE free

Suppliable(p, a) ==
  MinConstraint(Limit("wallet", Usd(p.wallet[a] * PriceOf(p, a)))
                \o IF a = "base" \/ p.room[a] = Unknown THEN <<>>
                   ELSE Limit("supplyCap", Usd(p.room[a] * PriceOf(p, a))))

(* Mutant: a stale feed stops every withdrawal of collateral.               *)
HealthLimit_StaleAlwaysBlocks(p, c) ==
  IF c \in p.stale \/ PricesStale(p) THEN Limit("priceStale", Usd(0))
  ELSE IF Debt(p) = 0 THEN <<>>
  ELSE Limit("health", [n |-> Headroom(p), d |-> Factor[c]])

(* Collateral may leave as long as what is left covers the debt; without    *)
(* debt there is nothing to cover.                                         *)
HealthLimit(p, c) ==
  IF Debt(p) = 0 THEN <<>>
  ELSE IF c \in p.stale \/ PricesStale(p) THEN Limit("priceStale", Usd(0))
  ELSE Limit("health", [n |-> Headroom(p), d |-> Factor[c]])

Withdrawable(p, a) ==
  MinConstraint(IF a = "base"
                THEN Limit("supplied", Usd(Supplied(p))) \o LiquidityLimit(p)
                ELSE Limit("supplied", Usd(p.coll[a] * PriceOf(p, a))) \o HealthLimit(p, a))

Repayable(p) ==
  MinConstraint(Limit("debt", Usd(Debt(p))) \o Limit("wallet", Usd(p.wallet["base"])))

(* availableFor.                                                            *)
AvailableFor(p, t, a) ==
  Haircut(CASE t = "borrow" -> Borrowable(p)
            [] t = "supply" -> Suppliable(p, a)
            [] t = "withdraw" -> Withdrawable(p, a)
            [] t = "repay" -> Repayable(p))

(* The tabs: borrow and repay for the base only.  A borrow that was on when    *)
(* the row came up is in LaneForm.                                          *)
Offered(t, a) == a = "base" \/ t \in {"supply", "withdraw"}

(* validateAction, on an amount the user typed.                             *)
Validates(p, t, a, amt) ==
  Offered(t, a) /\ Leq(Usd(amt * PriceOf(p, a)), AvailableFor(p, t, a).usd)

(* reasonForBinding and bindingHint: a refusal names the limit that binds.    *)
Reason(p, t, a) == AvailableFor(p, t, a).binding

Balance(p, a) == IF a = "base" THEN Supplied(p) ELSE p.coll[a]

(* actionConsequences: the debt that will be (of the capacity), or what stays   *)
(* supplied.  A supply's rows are about interest.                           *)
Told(p, t, a, amt) ==
  CASE t = "borrow" -> Debt(p) + amt
    [] t = "repay" -> Floor0(Debt(p) - amt)
    [] t = "withdraw" -> Floor0(Balance(p, a) - amt)

-----------------------------------------------------------------------------
(* Comet (external).                                                       *)

(* The base a borrow takes out: the Solana lane drains the supply first     *)
(* (doBorrow), the EVM lane withdraws the amount typed.                     *)
Drawn(t, amt) ==
  IF t = "borrow" /\ lane = "solana" THEN Supplied(chain) + amt ELSE amt

After(t, a, amt) ==
  LET out == Drawn(t, amt)
  IN IF a = "base" /\ t \in {"withdraw", "borrow"}
     THEN [chain EXCEPT !.base = @ - out, !.wallet["base"] = @ + amt,
                        !.net = @ - out, !.held = @ - out]
     ELSE IF a = "base"
     THEN [chain EXCEPT !.base = @ + amt, !.wallet["base"] = @ - amt,
                        !.net = @ + amt, !.held = @ + amt]
     ELSE LET in == IF t = "supply" THEN amt ELSE -amt
          IN [chain EXCEPT !.coll[a] = @ + in, !.wallet[a] = @ - in, !.room[a] = @ - in]

(* Nothing goes below zero but the base position; a debt that was drawn on  *)
(* is at least the minimum; and who draws or takes collateral out must be    *)
(* covered afterwards, by feeds that answer when it is collateral that goes.*)
Accepts(t, a, amt) ==
  LET after == After(t, a, amt)
  IN /\ after.wallet[a] >= 0 /\ after.held >= 0
     /\ a # "base" => after.coll[a] >= 0 /\ (t = "supply" => after.room[a] >= 0)
     /\ a = "base" /\ t \in {"withdraw", "borrow"} /\ after.base < 0 =>
          Debt(after) >= chain.min
     /\ t \in {"withdraw", "borrow"} => 10 * Debt(after) <= Capacity(after)
     /\ a # "base" /\ t = "withdraw" /\ Debt(chain) > 0 => ~PricesStale(chain) /\ a \notin chain.stale

-----------------------------------------------------------------------------
(* cappedBaseLiquidityRaw floors the accounting net.  Mutant: it does not.   *)
Seen_NetNotFloored(c) == c

Seen(c) == [c EXCEPT !.net = Floor0(@)]

(* A read on the EVM lane: the account returns as a whole; the reserves     *)
(* (with the base balance, which may be missing in them) come from the      *)
(* market cache and baseBorrowMin from a read of its own.                   *)
EvmReads(c) ==
  LET reserves == {Seen(c), [Seen(c) EXCEPT !.held = Unknown],
                   [Seen(c) EXCEPT !.net = Unknown, !.held = Unknown,
                             !.room = [x \in Colls |-> Unknown]]}
  IN reserves \cup {[r EXCEPT !.min = Unknown] : r \in reserves}

(* A multicall on the Solana lane; one call of it may fail (a bound: at most *)
(* one), and what it would have read is left at its default: a balance of 0, *)
(* no price, no minimum, no totals at all.  The supply caps are not read.    *)
SolanaReads(c) ==
  LET s == [Seen(c) EXCEPT !.room = [x \in Colls |-> Unknown]]
  IN {s, [s EXCEPT !.held = Unknown], [s EXCEPT !.net = Unknown, !.min = Unknown],
      [s EXCEPT !.min = 0], [s EXCEPT !.base = 0], [s EXCEPT !.wallet = [x \in Assets |-> 0]]}
     \cup {[s EXCEPT !.coll[x] = 0] : x \in Colls}
     \cup {[s EXCEPT !.stale = @ \cup {x}] : x \in Colls}

Reads(c) == IF lane = "evm" THEN EvmReads(c) ELSE SolanaReads(c)

(* A later read: the market cache may still answer with its earlier entry.  *)
Rereads(c) ==
  Reads(c) \cup
    IF lane = "evm"
    THEN {[Seen(c) EXCEPT !.net = seen.net, !.held = seen.held, !.room = seen.room]}
    ELSE {}

Init ==
  /\ lane \in Lanes
  /\ \E acct \in StartAccts, market \in StartMarkets, price \in [Colls -> Prices],
        stale \in SUBSET Feeds :
       chain = [base |-> acct.base, coll |-> acct.coll, wallet |-> acct.wallet,
                price |-> price, stale |-> stale, net |-> market.net,
                held |-> market.held, min |-> market.min, room |-> market.room]
  /\ seen \in Reads(chain)

Refresh ==
  /\ seen' \in Rereads(chain)
  /\ UNCHANGED <<lane, chain>>

(* The user submits what the panel allows, Comet executes it, and the lane  *)
(* reads again (runAction's refresh).                                       *)
Act(t, a, amt) ==
  /\ Validates(seen, t, a, amt)
  /\ Accepts(t, a, amt)
  /\ chain' = After(t, a, amt)
  /\ seen' \in Rereads(After(t, a, amt))
  /\ UNCHANGED lane

(* A feed stops answering or answers again.                                 *)
Feed(c) ==
  /\ chain' = [chain EXCEPT !.stale = IF c \in @ THEN @ \ {c} ELSE @ \cup {c}]
  /\ UNCHANGED <<lane, seen>>

Next ==
  \/ Refresh
  \/ \E t \in ActionType, a \in Assets, amt \in Amounts : Act(t, a, amt)
  \/ \E c \in Feeds : Feed(c)

Spec == Init /\ [][Next]_vars

-----------------------------------------------------------------------------
(* Properties.                                                             *)

(* The account, the prices and every figure that was read are current.      *)
Fresh ==
  /\ \A k \in {"base", "coll", "wallet", "price", "stale"} : seen[k] = chain[k]
  /\ \A k \in {"net", "held", "min"} : seen[k] \in {Seen(chain)[k], Unknown}
  /\ \A c \in Colls : seen.room[c] \in {chain.room[c], Unknown}

(* What the panel does not look at: a debt below the minimum (it compares   *)
(* the ceiling with baseBorrowMin, not the amount), a supply cap it has not *)
(* read, a Comet balance it has not read, and, on the Solana lane, the      *)
(* supply that a borrow takes out as well.                                  *)
Unchecked(t, a, amt) ==
  \/ t = "borrow" /\ Debt(After(t, a, amt)) \in 1 .. chain.min - 1
  \/ t = "supply" /\ a # "base" /\ seen.room[a] = Unknown
  \/ t \in {"borrow", "withdraw"} /\ a = "base" /\
       (seen.held = Unknown \/ (seen.net = Unknown /\ seen.min = Unknown))
  \/ t = "borrow" /\ Drawn(t, amt) > chain.held

(* From a fresh position, whatever the panel allows lands, but for the four *)
(* exceptions (laneActions: "can this action happen").                      *)
AllowedLands ==
  \A t \in ActionType, a \in Assets, amt \in Amounts :
    Fresh /\ Validates(seen, t, a, amt) /\ ~Unchecked(t, a, amt) => Accepts(t, a, amt)

(* And it refuses nothing without need: what would land with a little more (the    *)
(* haircut, and a unit) is allowed, unless a stale feed or a missing figure stands   *)
(* in the way or the typed action is really another (a repayment above the debt,     *)
(* a withdrawal that borrows, a base the accounting net does not cover).           *)
More(amt) == amt + 1 + amt \div 999
RefusedForCause ==
  \A t \in ActionType, a \in Assets, amt \in Amounts :
    /\ Fresh /\ chain.stale = {} /\ Unknown \notin {seen.net, seen.min}
    /\ Offered(t, a) /\ Accepts(t, a, More(amt))
    /\ t = "repay" => amt <= Debt(chain)
    /\ t = "withdraw" /\ a = "base" => amt <= Supplied(chain)
    /\ t \in {"borrow", "withdraw"} /\ a = "base" => More(amt) <= chain.net
    /\ t = "borrow" => Supplied(chain) = 0
    => Validates(seen, t, a, amt)

(* What makes the reason of a refusal true: the balance or the limit it names is    *)
(* exceeded, up to the haircut; "Below the protocol minimum" means that no borrow   *)
(* that the net covers lands, whatever its amount, and "Price feed temporarily      *)
(* unavailable" that one is stale.                                                *)
Beyond(amt, ceiling) == amt * 1000 > ceiling * 999
Explained(t, a, amt) ==
  CASE Reason(seen, t, a) = "wallet" -> amt > chain.wallet[a]
    [] Reason(seen, t, a) = "supplied" -> amt > Balance(chain, a)
    [] Reason(seen, t, a) = "debt" -> amt > Debt(chain)
    [] Reason(seen, t, a) = "supplyCap" -> Beyond(amt, chain.room[a])
    [] Reason(seen, t, a) = "liquidity" -> Beyond(amt, chain.net) \/ Beyond(amt, chain.held)
    [] Reason(seen, t, a) = "capacity" -> Beyond(10 * amt, Capacity(chain) - 10 * Debt(chain))
    [] Reason(seen, t, a) = "health" ->
         Beyond(Capacity(chain) - Capacity(After(t, a, amt)), Capacity(chain) - 10 * Debt(chain))
    [] Reason(seen, t, a) = "baseBorrowMin" ->
         \A n \in Amounts : n <= chain.net /\ Supplied(chain) = 0 => ~Accepts(t, a, n)
    [] Reason(seen, t, a) = "priceStale" -> chain.stale # {}

(* What is refused is refused for the reason given (reasonForBinding).  A net       *)
(* that could not be read is taken for 0 when the minimum is known.               *)
ReasonIsTrue ==
  \A t \in ActionType, a \in Assets, amt \in Amounts :
    /\ Fresh /\ Offered(t, a) /\ ~Validates(seen, t, a, amt)
    /\ a = "base" /\ t \in {"borrow", "withdraw"} => seen.net # Unknown
    => Explained(t, a, amt)

(* What the panel says an action leaves comes true when it lands from a fresh   *)
(* position (actionConsequences), and a withdrawal opens no debt; but the EVM    *)
(* lane's borrow takes the user's own supply first, and leaves less debt.       *)
ConsequencesComeTrue ==
  \A t \in ActionType \ {"supply"}, a \in Assets, amt \in Amounts :
    Fresh /\ Validates(seen, t, a, amt) /\ Accepts(t, a, amt) =>
      LET after == After(t, a, amt)
      IN IF t = "withdraw"
         THEN Balance(after, a) = Told(seen, t, a, amt) /\ Debt(after) = Debt(chain)
         ELSE \/ Debt(after) = Told(seen, t, a, amt)
              \/ /\ t = "borrow" /\ lane = "evm" /\ Supplied(chain) > 0
                 /\ Debt(after) < Told(seen, t, a, amt)

(* A stale feed never keeps a user from supplying, repaying or, without      *)
(* debt, from taking everything out (availableFor on priceStale).           *)
StaleFeedKeepsExits ==
  \A t \in ActionType, a \in Assets, amt \in Amounts :
    t \in {"supply", "repay"} \/ (t = "withdraw" /\ Debt(seen) = 0) =>
      (Validates(seen, t, a, amt) <=> Validates([seen EXCEPT !.stale = {}], t, a, amt))
=============================================================================
