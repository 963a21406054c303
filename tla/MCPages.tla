------------------------------- MODULE MCPages -------------------------------
(***************************************************************************)
(* Model-checking instance of the views beside the lanes: the action panel, *)
(* the lane's form, the liquidate page and its table, the faucets, the portal and the form    *)
(* of its modal.  A tab                                                     *)
(* shows one of them at a time, and none keeps anything for another, so that    *)
(* a behaviour is that of one page: `page` says which, and the variables of the others    *)
(* are off.                                                                *)
(***************************************************************************)
EXTENDS LaneActions, TLC

CONSTANTS
  Pages,                                              \* pages looked at
  Accounts, NoAddress, Visible, Runs, Scans, Movers,
  MaxMoves,                                           \* LiquidateView
  Users, NoUser, Claims, NoClaim, Mints,               \* both faucets
  Flows, PortalAmounts, PortalFactor, PortalCash,      \* Portal
  ModalMarkets, ModalScreens, ModalFactor, ModalChoices, ModalPreset, ModalMax, \* ModalForm
  FormList, Sums, MaxReads,                              \* LaneForm
  Debtors, Starts, Resolved, Worlds, PriceSets, LiquidateFactor, AbsorbFactor,
  Thresholds, MinSizes, MaxEnrich, Calls, MaxFalls    \* LiquidateList

ASSUME LiquidateAssumption == Visible \subseteq Accounts /\ Movers \subseteq Accounts /\ Scans # {}

ASSUME PortalAssumption == PortalAmounts \subseteq Nat \ {0} /\ PortalFactor \in Nat \ {0} /\ PortalCash \in Nat

(* A symbol of the registry is of one collateral, and the figures are not negative. *)
ASSUME ModalAssumption ==
  /\ ModalMarkets \subseteq Seq(STRING) /\ "asset" \notin ModalChoices \cup {ModalPreset} /\ ModalMax \in Nat
  /\ \A m \in ModalMarkets :
       /\ \A i \in DOMAIN m : m[i] # "base"
       /\ \A i, j \in DOMAIN m : m[i] = m[j] => i = j \/ m[i] = "asset"
       /\ \A s \in ModalScreens, i \in DOMAIN m :
            s.bal[i] \in Nat /\ s.own[i] \in Nat /\ s.price[i] \in Nat /\ ModalFactor[i] \in Nat
  /\ \A s \in ModalScreens : s.base \in Int /\ s.wallet \in Nat /\ s.cash \in Int

ASSUME FormAssumption == FormList \in Seq(Colls) /\ Sums \subseteq Nat \ {0} /\ MaxReads \in Nat

(* Balances, prices, factors and what the filter offers are not negative; it offers where it starts. *)
ASSUME ListingAssumption ==
  /\ IsFiniteSet(Colls) /\ IsFiniteSet(Debtors) /\ "none" \notin Resolved
  /\ LiquidateFactor \in [Colls -> Nat] /\ AbsorbFactor \in [Colls -> Nat]
  /\ \A p \in PriceSets : p \in [Colls -> Nat]
  /\ \A w \in Worlds : w \in [(Starts \cup Resolved) \ {"none"} -> [Debtors -> [debt : Nat, bal : [Colls -> Nat]]]]
  /\ Thresholds \subseteq Nat /\ 100 \in Thresholds /\ MinSizes \subseteq Nat /\ 0 \in MinSizes
  /\ MaxEnrich \in Nat

VARIABLES
  page,
  under, moves, list, loading, scan, mixed, victim, manual, crossed, row, run,
  marker, reserve, got, active, phase, of, already, read, claim,
  claimed, account, onChain, cached, evmPhase, hash, clicked, evmClaim,
  acct, who, shown, late, modal, status, flow, sent, slipped, budget,
  rows, label, selSym, action, amount, signing, connected, typedFor, relisted,
  carried, reads,
  symbol, screen, opened, typed, extra, pick, progress, turn, set, polls,
  comet, pos, price, falls, table, busyList, scans, filter, gate, marks, absorb, blurred, told

panelVars == <<chain, seen>>
liquidateVars == <<under, moves, list, loading, scan, mixed, victim, manual,
                   crossed, row, run>>
solanaFaucetVars == <<marker, reserve, got, active, phase, of, already, read, claim>>
evmFaucetVars == <<claimed, account, onChain, cached, evmPhase, hash, clicked, evmClaim>>
formVars == <<rows, label, selSym, action, amount, signing, connected, typedFor,
              relisted, carried, reads>>
modalVars == <<symbol, screen, opened, typed, extra, pick, progress, turn, set, polls>>
listingVars == <<comet, pos, price, falls, table, busyList, scans, filter, gate, marks, absorb, blurred, told>>
portalVars == <<acct, who, shown, late, modal, status, flow, sent, slipped, budget>>

(* Reserves that pay one wallet, or two.                                    *)
SomeStocks == [Mints -> 1 .. 2]

Liquidate == INSTANCE LiquidateView
Form == INSTANCE LaneForm WITH Base <- "base", Listed <- FormList
SolFaucet == INSTANCE SolanaFaucet WITH Stocks <- SomeStocks
EthFaucet == INSTANCE EvmFaucet WITH active <- account, phase <- evmPhase, claim <- evmClaim

(* A supplier with collateral and a borrower, beside a wallet with base only.  *)
Owner == "owner"
Other == "other"
OwnerStarts == {[base |-> 2, coll |-> 1, wallet |-> 2, wcoll |-> 1], [base |-> -1, coll |-> 1, wallet |-> 2, wcoll |-> 0]}
OtherStart == [base |-> 0, coll |-> 0, wallet |-> 2, wcoll |-> 0]

Steady == INSTANCE Portal WITH
  Users <- {Owner, Other}, Amounts <- PortalAmounts, Factor <- PortalFactor, Cash <- PortalCash,
  Starts <- OwnerStarts \cup {OtherStart}, MaxClicks <- 2, MaxMoves <- 0
Moving == INSTANCE Portal WITH
  Users <- {Owner, Other}, Amounts <- PortalAmounts, Factor <- PortalFactor, Cash <- PortalCash,
  Starts <- OwnerStarts \cup {OtherStart}, MaxClicks <- 1, MaxMoves <- 1

PortalInit ==
  /\ Steady!Init \/ (Moving!Init /\ acct[Owner].base > 0)
  /\ who = Owner /\ acct[Other] = Steady!Account(OtherStart) /\ acct[Owner].coll = 1

(* The screen and the connection matter when something is clicked: they stand   *)
(* still while a flow runs, and a history in which one slipped past the status   *)
(* is followed only to the end of its flows.  The other wallet only comes and   *)
(* goes.  Flows are interchangeable: the next one is any that is not under way.  *)
PortalNext ==
  /\ Moving!Next
  /\ Moving!Active # {} => UNCHANGED <<who, shown>>
  /\ slipped => UNCHANGED <<who, shown, modal, budget>>
  /\ acct'[Other] = acct[Other]
  /\ who' = Other => budget.moves > 0
  /\ \A f \in Flows : flow[f].pc = "idle" /\ flow'[f].pc # "idle" => f = CHOOSE g \in Flows : flow[g].pc = "idle"

-----------------------------------------------------------------------------
(* The modal's form: two collaterals, of which the registry lists both, the     *)
(* first or none; at rest, borrowed against and supplied, before and after the    *)
(* feeds fall or fall silent; and with Comet's balance unread or low.          *)
Screen(base, bal, rate, cash) ==
  [base |-> base, wallet |-> 1, bal |-> bal, own |-> <<1, 2>>, cash |-> cash, price |-> rate]
SomeNames == {<<"A", "B">>, <<"A", "asset">>, <<"asset", "asset">>}
TwoLines == <<85, 70>>
SomeScreens ==
  {Screen(0, <<0, 0>>, <<2, 3>>, 2)} \cup
  {Screen(b, <<1, 1>>, p, 2) : b \in {-2, 2}, p \in {<<2, 3>>, <<1, 1>>, <<0, 0>>}} \cup
  {Screen(1, <<1, 0>>, <<2, 3>>, -1), Screen(-1, <<1, 1>>, <<2, 0>>, 1)}

Modal == INSTANCE ModalForm WITH
  modal <- opened, amount <- typed, phase <- progress,
  Markets <- ModalMarkets, CollatChoices <- ModalChoices, Preset <- ModalPreset, Screens <- ModalScreens,
  Factor <- ModalFactor, MaxAmount <- ModalMax, MaxPolls <- 1, MaxTurns <- 2

-----------------------------------------------------------------------------
(* The table of accounts: two Comets, each with an account on, above or below     *)
(* each line - what makes it liquidatable, what the filter lets by, its dust       *)
(* floor - before and after the prices halve.  The filter is set, and a wallet      *)
(* connected, while nothing is under way: neither touches what is.               *)
At(debt, one, two) == [debt |-> debt, bal |-> ("c1" :> one @@ "c2" :> two)]
World(first, second, third, fourth) ==
  ("default" :> ("a" :> first @@ "b" :> second) @@ "resolved" :> ("a" :> third @@ "b" :> fourth))
SomeWorlds ==
  {World(At(2, 1, 0), At(1, 1, 0), At(1, 1, 0), At(2, 1, 0)),
   World(At(0, 0, 0), At(0, 1, 1), At(1, 0, 0), At(2, 0, 1)),
   World(At(2, 0, 1), At(2, 0, 1), At(2, 0, 1), At(1, 0, 1)),
   World(At(4, 2, 0), At(4, 1, 1), At(2, 1, 0), At(1, 1, 0))}

HighOrLow == {[c \in Colls |-> 2], [c \in Colls |-> 1]}
LineFactors == ("c1" :> 85 @@ "c2" :> 70)
SeizeFactors == ("c1" :> 100 @@ "c2" :> 95)

Listing == INSTANCE LiquidateList WITH
  Accounts <- Debtors, Scans <- Calls, MaxMoves <- MaxFalls,
  moves <- falls, loading <- busyList, scan <- scans, connected <- gate, row <- marks, run <- absorb,
  mixed <- blurred
ListingNext ==
  /\ Listing!Next
  /\ Listing!Overlaps \/ absorb.pc \in {"check", "sent"} => UNCHANGED <<filter, gate>>

-----------------------------------------------------------------------------
TwoFactors == ("c1" :> 8 @@ "c2" :> 3)

InOrder == <<"c1", "c2">>

(* In debt, and with base supplied.                                        *)
SomeAccts ==
  {[base |-> b, coll |-> [c \in Colls |-> IF c = "c1" THEN 1 ELSE 2],
    wallet |-> [a \in Assets |-> IF a = "c2" THEN 0 ELSE 1]] : b \in {-1, 2}}

(* Liquid; one that holds less than its accounting net; and one whose net is *)
(* used up although it holds base.                                          *)
SomeMarkets ==
  {[net |-> l[1], held |-> l[2], min |-> l[3],
    room |-> [c \in Colls |-> IF c = "c1" THEN 1 ELSE 0]] :
     l \in {<<3, 3, 0>>, <<3, 1, 2>>, <<0, 2, 2>>}}

-----------------------------------------------------------------------------
Off == "off"

PanelOff == chain = Off /\ seen = Off
LiquidateOff ==
  /\ under = Off /\ moves = Off /\ list = Off /\ loading = Off /\ scan = Off
  /\ mixed = Off /\ victim = Off /\ manual = Off /\ crossed = Off /\ row = Off /\ run = Off
SolFaucetOff ==
  /\ marker = Off /\ reserve = Off /\ got = Off /\ active = Off /\ phase = Off /\ of = Off
  /\ already = Off /\ read = Off /\ claim = Off
EthFaucetOff ==
  /\ claimed = Off /\ account = Off /\ onChain = Off /\ cached = Off /\ evmPhase = Off
  /\ hash = Off /\ clicked = Off /\ evmClaim = Off
FormOff ==
  /\ rows = Off /\ label = Off /\ selSym = Off /\ action = Off /\ amount = Off
  /\ signing = Off /\ connected = Off /\ typedFor = Off /\ relisted = Off
  /\ carried = Off /\ reads = Off
PortalOff ==
  /\ acct = Off /\ who = Off /\ shown = Off /\ late = Off /\ modal = Off /\ status = Off
  /\ flow = Off /\ sent = Off /\ slipped = Off /\ budget = Off
ModalOff ==
  /\ symbol = Off /\ screen = Off /\ opened = Off /\ typed = Off /\ extra = Off /\ pick = Off
  /\ progress = Off /\ turn = Off /\ set = Off /\ polls = Off
ListingOff ==
  /\ comet = Off /\ pos = Off /\ price = Off /\ falls = Off /\ table = Off /\ busyList = Off
  /\ scans = Off /\ filter = Off /\ gate = Off /\ marks = Off /\ absorb = Off /\ blurred = Off /\ told = Off

PagesInit ==
  \/ /\ page = "panel" /\ Init
     /\ LiquidateOff /\ SolFaucetOff /\ EthFaucetOff /\ PortalOff /\ FormOff /\ ModalOff /\ ListingOff
  \/ /\ page = "form" /\ Form!Init
     /\ lane = "evm" /\ PanelOff /\ LiquidateOff /\ SolFaucetOff /\ EthFaucetOff /\ PortalOff /\ ModalOff /\ ListingOff
  \/ /\ page = "liquidate" /\ Liquidate!Init
     /\ PanelOff /\ SolFaucetOff /\ EthFaucetOff /\ PortalOff /\ FormOff /\ ModalOff /\ ListingOff
  \/ /\ page = "solana faucet" /\ SolFaucet!Init
     /\ lane = "solana" /\ PanelOff /\ LiquidateOff /\ EthFaucetOff /\ PortalOff /\ FormOff /\ ModalOff /\ ListingOff
  \/ /\ page = "evm faucet" /\ EthFaucet!Init
     /\ lane = "evm" /\ PanelOff /\ LiquidateOff /\ SolFaucetOff /\ PortalOff /\ FormOff /\ ModalOff /\ ListingOff
  \/ /\ page = "portal" /\ PortalInit
     /\ lane = "evm" /\ PanelOff /\ LiquidateOff /\ SolFaucetOff /\ EthFaucetOff /\ FormOff /\ ModalOff /\ ListingOff
  \/ /\ page = "modal" /\ Modal!Init
     /\ lane = "evm" /\ PanelOff /\ LiquidateOff /\ SolFaucetOff /\ EthFaucetOff /\ PortalOff /\ FormOff
     /\ ListingOff
  \/ /\ page = "listing" /\ Listing!Init
     /\ lane = "evm" /\ PanelOff /\ LiquidateOff /\ SolFaucetOff /\ EthFaucetOff /\ PortalOff /\ FormOff
     /\ ModalOff

InitOfPages == page \in Pages /\ PagesInit

PagesNext ==
  /\ UNCHANGED page
  /\ \/ page = "panel" /\ Next /\ UNCHANGED <<liquidateVars, solanaFaucetVars, evmFaucetVars, portalVars, formVars, modalVars, listingVars>>
     \/ /\ page = "form" /\ Form!Next
        /\ UNCHANGED <<lane, panelVars, liquidateVars, solanaFaucetVars, evmFaucetVars, portalVars, modalVars, listingVars>>
     \/ /\ page = "liquidate" /\ Liquidate!Next
        /\ UNCHANGED <<panelVars, solanaFaucetVars, evmFaucetVars, portalVars, formVars, modalVars, listingVars>>
     \/ /\ page = "solana faucet" /\ SolFaucet!Next
        /\ UNCHANGED <<lane, panelVars, liquidateVars, evmFaucetVars, portalVars, formVars, modalVars, listingVars>>
     \/ /\ page = "evm faucet" /\ EthFaucet!Next
        /\ UNCHANGED <<lane, panelVars, liquidateVars, solanaFaucetVars, portalVars, formVars, modalVars, listingVars>>
     \/ /\ page = "portal" /\ PortalNext
        /\ UNCHANGED <<lane, panelVars, liquidateVars, solanaFaucetVars, evmFaucetVars, formVars, modalVars, listingVars>>
     \/ /\ page = "modal" /\ Modal!Next
        /\ UNCHANGED <<lane, panelVars, liquidateVars, solanaFaucetVars, evmFaucetVars, portalVars, formVars, listingVars>>
     \/ /\ page = "listing" /\ ListingNext
        /\ UNCHANGED <<lane, panelVars, liquidateVars, solanaFaucetVars, evmFaucetVars, portalVars, formVars,
                       modalVars>>

pagesVars ==
  <<page, lane, panelVars, liquidateVars, solanaFaucetVars, evmFaucetVars, portalVars, formVars,
    modalVars, listingVars>>
PagesSpec == InitOfPages /\ [][PagesNext]_pagesVars

-----------------------------------------------------------------------------
(* The properties, each of the page it is about.                           *)

(* Type correctness of whichever page is shown.                             *)
PagesTypeOK ==
  CASE page = "panel" -> TypeOK
    [] page = "form" -> Form!FormTypeOK
    [] page = "liquidate" -> Liquidate!TypeOK
    [] page = "solana faucet" -> SolFaucet!TypeOK
    [] page = "evm faucet" -> EthFaucet!TypeOK
    [] page = "portal" -> Moving!PortalTypeOK
    [] page = "modal" -> Modal!ModalTypeOK
    [] page = "listing" -> Listing!ListTypeOK

(* Action panel: what it allows from a fresh position Comet executes, what    *)
(* it refuses it refuses for cause and for the reason it gives, a stale feed   *)
(* closes no exit, and what it says an action leaves comes true               *)
(* (validateAction, availableFor, actionConsequences); and what it submits is the amount typed     *)
(* for the asset it shows (LaneApp, AssetTable's onSelect).                  *)
PanelIsRight ==
  /\ page = "panel" => /\ AllowedLands /\ RefusedForCause /\ StaleFeedKeepsExits
                       /\ ReasonIsTrue /\ ConsequencesComeTrue
  /\ page = "form" => Form!SubmitsWhatIsShown

(* The form: a borrow is submitted for the base (types.ts on `borrowable`).    *)
BorrowIsOfBase == page = "form" => Form!BorrowIsOfBase

(* Liquidate page: "Absorbing", "Checking" and "refreshing" mean a running    *)
(* call, "Absorbed" a settled transaction; what stands below the field is      *)
(* about the address in it, unless the field was edited under a run; the      *)
(* wallet is asked to absorb a healthy account only if it recovered after      *)
(* the run's own check; and at rest an absorbed account is off the list        *)
(* (runAbsorb, runCheck, refreshList, onAbsorb).  The table lists the accounts     *)
(* of the Comet the page shows, its rows are those that pass the filter, and the      *)
(* chain is called healthy only if there are none (refreshList's effect, filtered).  *)
LiquidateIsRight ==
  /\ page = "liquidate" =>
       /\ Liquidate!BusyMeansRunning /\ Liquidate!AbsorbedIsSettled
       /\ Liquidate!AnswerIsAboutAddress
       /\ Liquidate!HealthySinceCheck
       /\ Liquidate!AbsorbedDropsOff
  /\ page = "listing" => Listing!ListingIsRight

(* Faucets: on Solana marker and drops never come apart                       *)
(* (process_instruction) and the page runs one claim at a time; on both pages  *)
(* "already claimed" agrees with what the page knows of the connected account,  *)
(* and "Funds dropped" is never shown before a claim dropped them (the         *)
(* effects of both pages, claim).                                          *)
FaucetsAreRight ==
  /\ page = "solana faucet" =>
       /\ SolFaucet!OnceAndComplete /\ SolFaucet!OneClaimAtATime
       /\ SolFaucet!AlreadyIsMine /\ SolFaucet!SuccessIsDropped
  /\ page = "evm faucet" => EthFaucet!SuccessIsPaid /\ EthFaucet!PhaseIsAboutAccount

(* Portal: a spinner has a flow behind it, the success view is about what was   *)
(* done unless a second flow began behind the status, and what the preview      *)
(* says of an account that is what the screen shows is what Comet does           *)
(* (inFlight, SuccessView, computeActionPreview).  In its modal, what is typed   *)
(* for one opening is not submitted in another, the button says what it submits,  *)
(* the health after agrees with Comet on whether the account can be absorbed, Max    *)
(* overdraws nothing and the gauge calls nothing safe that can be absorbed         *)
(* (ActionModal, AmountInput, RiskGauge).                                   *)
PortalIsRight ==
  /\ page = "portal" => Moving!StatusIsHonest /\ Moving!PreviewTells
  /\ page = "modal" => Modal!ModalIsRight

(* Portal: a borrow that takes effect opens debt, unless the position moved      *)
(* since the click (borrowIsActuallyWithdraw).                              *)
PortalBorrowsOpenDebt ==
  [][page = "portal" => \A tx \in sent : Moving!BorrowOpensDebt(tx)]_pagesVars
=============================================================================
