------------------------------ MODULE ModalForm ------------------------------
(***************************************************************************)
(* The form of the portal's modal, with all the collaterals of a market:      *)
(* components/ActionModal.tsx, AmountInput and RiskGauge, computeActionPreview's  *)
(* sums (lib/portal/stats.ts) and the part of CompoundPortal.tsx that feeds them.   *)
(* A unit of the base token is a dollar.  What a press of the button sets going is   *)
(* Portal's.                                                                *)
(*                                                                         *)
(* Collaterals go by their symbol in the registry here: one the registry does   *)
(* not list is called "asset", has no row of its own in the modal, and shares     *)
(* the preview's entry with the others of that name.                          *)
(***************************************************************************)
EXTENDS Integers, Sequences, FiniteSets, SequencesExt

CONSTANTS
  Markets,    \* names a market's collaterals may have, in its order
  CollatChoices, \* symbols of the registry, for a leveraged position
  Preset,     \* the symbol preset for one
  Screens,    \* what the polls may put on the screen
  Factor,     \* Factor[i]: liquidation factor of collateral i, in percent
  MaxAmount,  \* amounts typed
  MaxPolls,   \* bounds: polls that change the screen,
  MaxTurns    \* and openings of the modal

VARIABLES
  symbol,     \* symbol[i]: the name of the market's i-th collateral
  screen,     \* the account as last polled
  modal,      \* what the modal is open for, or closed
  amount, extra, \* the two inputs: 0 for none or no number, Dust below the last decimal
  pick,       \* collatSymbol
  phase,      \* the portal's status
  turn,       \* history: openings so far
  set,        \* history: the opening each input was last set in
  polls

vars == <<symbol, screen, modal, amount, extra, pick, phase, turn, set, polls>>

Collaterals == DOMAIN symbol
Dust == -1
Texts == Dust .. MaxAmount
Listed == {i \in Collaterals : symbol[i] # "asset"}
Targets == {"base"} \cup {symbol[i] : i \in Listed}
Modes == {"supply", "withdraw", "borrow", "repay", "leverage"}
Closed == [mode |-> "closed", target |-> "base"]

ModalTypeOK ==
  /\ symbol \in Markets /\ screen \in Screens /\ modal.mode \in Modes \cup {"closed"} /\ modal.target \in Targets
  /\ amount \in Texts /\ extra \in Texts /\ phase \in {"idle", "busy", "done", "error"}
  /\ pick \in {Preset} \cup CollatChoices /\ turn \in Nat /\ set.amount <= turn /\ set.extra <= turn

Plus(n) == IF n > 0 THEN n ELSE 0
Minus(n) == IF n < 0 THEN -n ELSE 0
Lesser(a, b) == IF a < b THEN a ELSE b
SumOver(f) == FoldFunction(+, 0, f)

-----------------------------------------------------------------------------
(* What the modal makes of the screen and of what is typed.                      *)

(* previewState.collateralByAsset: the market's collaterals by name, the later of two   *)
(* of one name in the place of the earlier; 0 where there is none.                     *)
Entry(s) ==
  IF \E i \in Collaterals : symbol[i] = s
  THEN CHOOSE i \in Collaterals : symbol[i] = s /\ \A j \in Collaterals : symbol[j] = s => j <= i
  ELSE 0
Entries == {Entry(symbol[i]) : i \in Collaterals}

IsCollatRow == modal.target # "base"

(* parsed: what the text is in the token's smallest unit.                              *)
Parsed(text) == IF text = Dust THEN 0 ELSE text

NoRequest == [kind |-> "none", asset |-> "base", amt |-> 0, coll |-> 0]

(* Mutant: only supplying looks at the row that was clicked.                         *)
PreviewReq_SupplyOnly ==
  LET amt == Parsed(amount)
  IN IF amt = 0 THEN NoRequest
     ELSE IF modal.mode = "supply" /\ IsCollatRow
       THEN [kind |-> "supplyCollateral", asset |-> modal.target, amt |-> amt, coll |-> 0]
     ELSE IF modal.mode \in {"supply", "repay"} THEN [NoRequest EXCEPT !.kind = "supply", !.amt = amt]
     ELSE [NoRequest EXCEPT !.kind = "withdraw", !.amt = amt]

PreviewReq ==
  LET amt == Parsed(amount)
      more == Parsed(extra)
  IN IF modal.mode = "closed" \/ amt = 0 THEN NoRequest
     ELSE IF modal.mode \in {"supply", "withdraw"} /\ IsCollatRow
       THEN [kind |-> IF modal.mode = "supply" THEN "supplyCollateral" ELSE "withdrawCollateral",
             asset |-> modal.target, amt |-> amt, coll |-> 0]
     ELSE CASE modal.mode \in {"supply", "repay"} -> [NoRequest EXCEPT !.kind = "supply", !.amt = amt]
            [] modal.mode \in {"withdraw", "borrow"} -> [NoRequest EXCEPT !.kind = "withdraw", !.amt = amt]
            [] OTHER -> IF more = 0 THEN NoRequest
                        ELSE [kind |-> "leverageOpen", asset |-> pick, amt |-> amt, coll |-> more]

(* title and primaryLabel: verb, token and the amounts as they were typed, or 0 for what  *)
(* is no positive number.                                                       *)
Label ==
  [verb |-> modal.mode, amt |-> amount, coll |-> IF modal.mode = "leverage" THEN <<extra, pick>> ELSE <<>>,
   token |-> IF modal.mode \in {"supply", "withdraw"} THEN modal.target ELSE "base"]

(* collatChanges: what the request does to each entry.                             *)
Change(req, i) ==
  IF symbol[i] # req.asset THEN 0
  ELSE CASE req.kind = "supplyCollateral" -> req.amt
         [] req.kind = "withdrawCollateral" -> -req.amt
         [] req.kind = "leverageOpen" -> req.coll
         [] OTHER -> 0

(* previewCollateralAfter: what the entries are worth as a liquidation threshold.       *)
ThresholdAfter(req) ==
  SumOver([i \in Entries |-> (screen.bal[i] + Change(req, i)) * screen.price[i] * Factor[i]])

(* Mutant: a repayment is taken for a withdrawal.                                    *)
DebtAfter_Opened(req) == Minus(screen.base) + (IF req.kind \in {"withdraw", "supply"} THEN req.amt ELSE 0)

(* The preview's debt, in percents of a dollar as the thresholds are: a withdrawal beyond  *)
(* the supply and a leverage add to it, and nothing takes away from it.                *)
DebtAfter(req) ==
  Minus(screen.base) +
    (CASE req.kind = "withdraw" -> req.amt - Lesser(req.amt, Plus(screen.base))
       [] req.kind = "leverageOpen" -> req.amt
       [] OTHER -> 0)

(* PreviewBlock: the rows and their "after"; a collateral's are its own.               *)
Rows(req) ==
  LET i == Entry(modal.target)
      out == IF modal.mode = "supply" THEN -req.amt ELSE req.amt
      from == Lesser(req.amt, Plus(screen.base))
  IN IF IsCollatRow THEN [wallet |-> screen.own[i] + out, held |-> screen.bal[i] - out]
     ELSE [wallet |-> screen.wallet + (CASE req.kind = "supply" -> -req.amt
                                         [] OTHER -> req.amt),
           held |-> Plus(screen.base) + (CASE req.kind = "supply" -> req.amt
                                           [] req.kind = "withdraw" -> -from
                                           [] OTHER -> 0)]

(* borrowIsActuallyWithdraw, exceedsLiquidity; -1 is a liquidity not read yet.            *)
Blocked ==
  modal.mode = "borrow" /\
    (Parsed(amount) <= Plus(screen.base) \/ (screen.cash >= 0 /\ Parsed(amount) > screen.cash))

(* Mutant: a repayment fills in all that is owed.                                      *)
MaxOf_AllOwed(m) ==
  LET i == Entry(m.target)
  IN IF m.target # "base" THEN IF m.mode = "supply" THEN screen.own[i] ELSE screen.bal[i]
     ELSE CASE m.mode = "supply" -> screen.wallet
            [] m.mode = "repay" -> Minus(screen.base)
            [] m.mode = "borrow" -> screen.cash
            [] OTHER -> Plus(screen.base)

(* What Max fills in: -1 where there is no button.                                     *)
MaxOf(m) ==
  LET i == Entry(m.target)
  IN IF m.target # "base" THEN IF m.mode = "supply" THEN screen.own[i] ELSE screen.bal[i]
     ELSE CASE m.mode = "supply" -> screen.wallet
            [] m.mode = "repay" -> Lesser(Minus(screen.base), screen.wallet)
            [] m.mode = "borrow" -> screen.cash
            [] m.mode = "leverage" -> -1
            [] OTHER -> Plus(screen.base)
MaxExtra == LET i == Entry(pick) IN IF i = 0 THEN -1 ELSE screen.own[i]

(* severityFromRisk, of the debt over the threshold: no risk without either.              *)
Severity(debt, threshold) ==
  LET below(n) == debt * 100 * 100 < threshold * n
  IN IF debt = 0 \/ threshold = 0 \/ below(60) THEN "safe"
     ELSE IF below(85) THEN "at risk"
     ELSE IF below(100) THEN "near liquidation"
     ELSE "liquidatable"

(* RiskGauge, from computeUserAccountStats, which goes through the positions by address.   *)
Threshold == SumOver([i \in Collaterals |-> screen.bal[i] * screen.price[i] * Factor[i]])
Gauge == Severity(Minus(screen.base), Threshold)

-----------------------------------------------------------------------------
Init ==
  /\ symbol \in Markets /\ screen \in Screens /\ modal = Closed /\ amount = 0 /\ extra = 0 /\ pick = Preset
  /\ phase = "idle" /\ turn = 0 /\ set = [amount |-> 0, extra |-> 0] /\ polls = 0

(* The polls bring another account, position, price or liquidity.                      *)
Poll ==
  /\ polls < MaxPolls /\ polls' = polls + 1 /\ \E s \in Screens : screen' = s
  /\ UNCHANGED <<symbol, modal, amount, extra, pick, phase, turn, set>>

(* targetForAddress: the base token, and a collateral the registry does not list, have no  *)
(* target, and the modal is for the base token.                                       *)
Target(i) == IF i \in Listed THEN symbol[i] ELSE "base"

(* Mutant: the effect depends on the mode alone.                                      *)
Open_SameMode(m, t) ==
  /\ modal = Closed /\ turn < MaxTurns
  /\ modal' = [mode |-> m, target |-> t] /\ phase' = "idle" /\ turn' = turn + 1
  /\ UNCHANGED <<symbol, screen, amount, extra, pick, set, polls>>

(* openModal, and the effect that empties the form; the collateral picked last stays.      *)
Open(m, t) ==
  /\ modal = Closed /\ turn < MaxTurns
  /\ modal' = [mode |-> m, target |-> t] /\ phase' = "idle" /\ turn' = turn + 1
  /\ amount' = 0 /\ extra' = 0
  /\ UNCHANGED <<symbol, screen, pick, set, polls>>

OpenFor(m, i) ==
  /\ m \in {"borrow", "repay", "leverage"} => i = 0
  /\ Open(m, Target(i))

(* The backdrop, the cross and the success view's button: not while a flow runs.           *)
Close ==
  /\ modal # Closed /\ phase # "busy"
  /\ modal' = Closed /\ phase' = "idle"
  /\ UNCHANGED <<symbol, screen, amount, extra, pick, turn, set, polls>>

Editable == modal # Closed /\ phase # "done"

(* AmountInput: a text of digits and dots, or the amount beside Max; also while a flow     *)
(* runs, the inputs are not disabled.                                                *)
Type(n) ==
  /\ Editable /\ n # amount /\ n \in Texts
  /\ amount' = n /\ set' = [set EXCEPT !.amount = turn]
  /\ UNCHANGED <<symbol, screen, modal, extra, pick, phase, turn, polls>>
TypeExtra(n) ==
  /\ Editable /\ modal.mode = "leverage" /\ n # extra /\ n \in Texts
  /\ extra' = n /\ set' = [set EXCEPT !.extra = turn]
  /\ UNCHANGED <<symbol, screen, modal, amount, pick, phase, turn, polls>>

(* The collateral buttons: none where there is one choice.                            *)
PickCollat(s) ==
  /\ Editable /\ phase # "busy" /\ modal.mode = "leverage" /\ Cardinality(CollatChoices) > 1 /\ s # pick
  /\ pick' = s
  /\ UNCHANGED <<symbol, screen, modal, amount, extra, phase, turn, set, polls>>

Enabled == Editable /\ phase # "busy" /\ PreviewReq # NoRequest /\ ~Blocked

(* The primary button: the portal's flow, or its refusal of a symbol it does not know.      *)
Submit ==
  /\ Enabled
  /\ phase' = IF PreviewReq.asset \in {"base"} \cup CollatChoices THEN "busy" ELSE "error"
  /\ UNCHANGED <<symbol, screen, modal, amount, extra, pick, turn, set, polls>>
Settle ==
  /\ phase = "busy" /\ phase' \in {"done", "error"}
  /\ UNCHANGED <<symbol, screen, modal, amount, extra, pick, turn, set, polls>>

Next ==
  \/ Poll \/ Close \/ Submit \/ Settle
  \/ \E m \in Modes, i \in {0} \cup Collaterals : OpenFor(m, i)
  \/ \E n \in Texts \cup {MaxOf(modal)} : Type(n)
  \/ \E n \in Texts \cup {MaxExtra} : TypeExtra(n)
  \/ \E s \in CollatChoices : PickCollat(s)

-----------------------------------------------------------------------------
(* Properties.                                                             *)

(* No amount of an earlier opening is in the form of a later one, so that none typed for   *)
(* another asset is pressed through (the effect on open and mode).                       *)
FreshAmounts ==
  modal # Closed => /\ amount # 0 => set.amount = turn
                    /\ extra # 0 => set.extra = turn

(* A button that can be pressed says what the request will do: the verb, the token and the   *)
(* amount, and of a leveraged position both (primaryLabel, previewReq).                  *)
LabelTells ==
  Enabled =>
    /\ PreviewReq.amt = Label.amt /\ PreviewReq.amt > 0
    /\ PreviewReq.asset = IF modal.mode = "leverage" THEN Label.coll[2] ELSE Label.token
    /\ modal.mode = "leverage" => PreviewReq.coll = Label.coll[1]
    /\ PreviewReq.kind \in {"supply", "supplyCollateral"} <=> modal.mode \in {"supply", "repay"}

(* Comet (external): what the account is after the request, and whether it can be absorbed.  *)
BaseAfter(req) ==
  screen.base + (CASE req.kind = "supply" -> req.amt
                   [] req.kind \in {"withdraw", "leverageOpen"} -> -req.amt
                   [] OTHER -> 0)
BalAfter(req, i) == screen.bal[i] + (IF i \in Listed THEN Change(req, i) ELSE 0)
Liquidatable(base, bal) == Minus(base) * 100 > SumOver([i \in Collaterals |-> bal[i] * screen.price[i] * Factor[i]])

(* The health a preview ends on is that of the account Comet will have: no debt is no      *)
(* debt, and at least 1.00 is not liquidatable - for a market with at most one collateral     *)
(* the registry does not list, and but for a supply by one who owes and a leverage by one      *)
(* who has base supplied, where it errs to the safe side (computeActionPreview).            *)
HealthTells ==
  PreviewReq # NoRequest =>
    LET req == PreviewReq
        fine == DebtAfter(req) * 100 <= ThresholdAfter(req)
        worse == Liquidatable(BaseAfter(req), [i \in Collaterals |-> BalAfter(req, i)])
        odd == (req.kind = "supply" /\ screen.base < 0) \/ (req.kind = "leverageOpen" /\ screen.base > 0)
    IN /\ fine => ~worse
       /\ ~odd /\ Cardinality(Collaterals \ Listed) <= 1 => (worse => ~fine) /\ (~worse => fine)

(* What Max fills in overdraws nothing: neither the wallet nor what Comet holds for the user  *)
(* goes below nothing in the rows beside it (AmountInput's max, PreviewBlock).              *)
MaxFits ==
  modal # Closed /\ PreviewReq # NoRequest /\ amount = MaxOf(modal) =>
    Rows(PreviewReq).wallet >= 0 /\ Rows(PreviewReq).held >= 0

(* An account Comet would absorb is never called safe by the gauge, unless nothing it holds   *)
(* is worth anything, and one called liquidatable has nothing left (RiskGauge).             *)
GaugeTells ==
  /\ Liquidatable(screen.base, screen.bal) /\ Threshold > 0 => Gauge = "liquidatable"
  /\ Gauge = "liquidatable" => Minus(screen.base) * 100 >= Threshold

ModalIsRight == FreshAmounts /\ LabelTells /\ HealthTells /\ MaxFits /\ GaugeTells
=============================================================================
