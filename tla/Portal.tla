-------------------------------- MODULE Portal --------------------------------
(***************************************************************************)
(* The market view of the EVM side: components/CompoundPortal.tsx with its    *)
(* modal (ActionModal.tsx), the preview it shows (lib/portal/stats.ts) and    *)
(* the account it shows it for (useAccountStats).                           *)
(*                                                                         *)
(* One status serves one modal.  A flow reads the allowance before it touches *)
(* the status, so that until the answer comes nothing tells that it runs: the *)
(* button can be pressed again, and the modal closed and opened for something *)
(* else.  The screen is as old as the last answer of the 12 s poll, and an    *)
(* answer about the previous account is not held back.                       *)
(*                                                                         *)
(* One collateral asset; its amount in an action is one unit.                *)
(***************************************************************************)
EXTENDS Integers, FiniteSets, Sequences

CONSTANTS
  Users, NoUser,
  Flows,          \* calls of handleSubmit that can be open at a time
  Amounts,        \* base amounts typed
  Factor,         \* base that one unit of collateral lets one owe
  Cash,           \* base the Comet can pay out
  Starts,         \* positions and wallets users start with
  MaxClicks,      \* bound: submissions
  MaxMoves        \* bound: moves of a position from elsewhere

VARIABLES
  acct,    \* acct[u]: Comet position, wallet and allowances
  who,     \* the connected account
  shown,   \* what the screen knows, and of whom
  late,    \* accounts whose reads were under way when they left
  modal,   \* what the modal is open for, or "closed"
  status,  \* the one status: phase, and the request its message names
  flow,    \* flow[f]: a call of handleSubmit
  sent,    \* transactions sent and not executed
  slipped, \* history: a flow began, or its modal went, while another ran unseen
  budget   \* what is left of the two bounds

vars == <<acct, who, shown, late, modal, status, flow, sent, slipped, budget>>

-----------------------------------------------------------------------------
(* Requests, and what the modal makes of them.                              *)

Kinds == {"supply", "withdraw", "supplyCollateral", "withdrawCollateral", "leverageOpen"}
Request == [kind: Kinds, amt: Amounts]
NoRequest == [kind |-> "none", amt |-> 0]

(* ActionMode, with the asset of the row that was clicked.                   *)
Modals ==
  {[mode |-> m, target |-> t] : m \in {"supply", "withdraw"}, t \in {"base", "coll"}}
    \cup {[mode |-> m, target |-> "base"] : m \in {"borrow", "repay", "leverage"}}
Closed == [mode |-> "closed", target |-> "base"]

(* previewReq: borrow is withdraw and repay is supply.                      *)
PreviewReq(m, amt) ==
  [amt |-> amt,
   kind |-> CASE m.mode = "leverage" -> "leverageOpen"
              [] m.mode = "supply" -> (IF m.target = "coll" THEN "supplyCollateral" ELSE "supply")
              [] m.mode = "withdraw" -> (IF m.target = "coll" THEN "withdrawCollateral" ELSE "withdraw")
              [] m.mode = "repay" -> "supply"
              [] OTHER -> "withdraw"]

(* The transactions of each request, in order.  What an approval or an         *)
(* authorisation is for is read first, and it may not be needed.             *)
DoSupply == <<"approve", "action">>
DoSupplyCollat == <<"approve", "action">>
DoWithdraw == <<"action">>
DoWithdrawCollat == <<"action">>
DoLeverage == <<"approve", "allow", "action">>

Plan(kind) ==
  CASE kind = "supply" -> DoSupply
    [] kind = "supplyCollateral" -> DoSupplyCollat
    [] kind = "withdraw" -> DoWithdraw
    [] kind = "withdrawCollateral" -> DoWithdrawCollat
    [] OTHER -> DoLeverage

Plus(n) == IF n > 0 THEN n ELSE 0      \* base supplied
Minus(n) == IF n < 0 THEN -n ELSE 0    \* base owed

(* Mutant: the modal does not look at what is supplied.                      *)
Blocked_OnlyLiquidity(m, amt) == m.mode = "borrow" /\ amt > Cash

(* borrowIsActuallyWithdraw, exceedsLiquidity                               *)
Blocked(m, amt) == m.mode = "borrow" /\ (amt <= Plus(shown.base) \/ amt > Cash)

(* Mutant: a withdrawal leaves the supply alone and opens debt.              *)
Preview_OnlyBorrow(s, req) ==
  CASE req.kind = "supply" ->
         [wallet |-> s.wallet - req.amt, supply |-> Plus(s.base) + req.amt, borrow |-> Minus(s.base), coll |-> s.coll]
    [] OTHER ->
         [wallet |-> s.wallet + req.amt, supply |-> Plus(s.base), borrow |-> Minus(s.base) + req.amt, coll |-> s.coll]

(* computeActionPreview: the rows of the preview block.  The collateral of a  *)
(* wallet is not among them.                                               *)
Preview(s, req) ==
  LET fromSupply == IF Plus(s.base) >= req.amt THEN req.amt ELSE Plus(s.base)
      now == [wallet |-> s.wallet, supply |-> Plus(s.base), borrow |-> Minus(s.base), coll |-> s.coll]
  IN CASE req.kind = "supply" -> [now EXCEPT !.wallet = @ - req.amt, !.supply = @ + req.amt]
       [] req.kind = "withdraw" ->
            [now EXCEPT !.wallet = @ + req.amt, !.supply = @ - fromSupply, !.borrow = @ + req.amt - fromSupply]
       [] req.kind = "supplyCollateral" -> [now EXCEPT !.coll = @ + 1]
       [] req.kind = "withdrawCollateral" -> [now EXCEPT !.coll = @ - 1]
       [] OTHER -> [now EXCEPT !.wallet = @ + req.amt, !.borrow = @ + req.amt, !.coll = @ + 1]

(* Its hint about health.                                                  *)
Hint(s, req) ==
  LET after == Preview(s, req)
  IN IF req.kind = "withdraw" /\ after.borrow > Minus(s.base) THEN "opens"
     ELSE IF req.kind \in {"supply", "withdraw"} THEN "same"
     ELSE IF after.borrow = 0 THEN "no debt"
     ELSE IF req.kind \in {"leverageOpen", "withdrawCollateral"} THEN "reduces"
     ELSE "improves"

-----------------------------------------------------------------------------
(* Comet, the tokens and the bulker.                                        *)

Solvent(a) == Minus(a.base) <= a.coll * Factor

(* The bulker's two actions, in the order buildLeverageOpenCalldata puts them.  *)
LeverageOpen(a, amt) ==
  LET supplied == [a EXCEPT !.coll = @ + 1, !.wcoll = @ - 1]
  IN [supplied EXCEPT !.base = @ - amt, !.wallet = @ + amt]

(* What a transaction does to its sender's account, and whether it can.       *)
Approved(a, req) ==
  CASE req.kind = "supply" -> [a EXCEPT !.comet.base = req.amt]
    [] req.kind = "supplyCollateral" -> [a EXCEPT !.comet.coll = 1]
    [] OTHER -> [a EXCEPT !.bulker = TRUE]

Acted(a, req) ==
  LET amt == req.amt
  IN CASE req.kind = "supply" -> [a EXCEPT !.base = @ + amt, !.wallet = @ - amt, !.comet.base = @ - amt]
       [] req.kind = "withdraw" -> [a EXCEPT !.base = @ - amt, !.wallet = @ + amt]
       [] req.kind = "supplyCollateral" -> [a EXCEPT !.coll = @ + 1, !.wcoll = @ - 1, !.comet.coll = @ - 1]
       [] req.kind = "withdrawCollateral" -> [a EXCEPT !.coll = @ - 1, !.wcoll = @ + 1]
       [] OTHER -> LeverageOpen(a, amt)

Does(a, tx) ==
  CASE tx.leg = "allow" -> [a EXCEPT !.manager = TRUE]
    [] tx.leg = "approve" -> Approved(a, tx.req)
    [] OTHER -> Acted(a, tx.req)

Can(a, tx) ==
  tx.leg = "action" =>
    LET b == Does(a, tx)
    IN /\ b.wallet >= 0 /\ b.wcoll >= 0 /\ b.coll >= 0 /\ b.comet.base >= 0 /\ b.comet.coll >= 0
       /\ b.base < a.base => Solvent(b) /\ b.wallet - a.wallet <= Cash
       /\ tx.req.kind = "withdrawCollateral" => Solvent(b)
       /\ tx.req.kind = "leverageOpen" => a.bulker /\ a.manager

-----------------------------------------------------------------------------
(* State.  Phase "busy" stands for the six phases of inFlight.               *)

Account(s) == [base |-> s.base, coll |-> s.coll, wallet |-> s.wallet, wcoll |-> s.wcoll,
               comet |-> [base |-> 0, coll |-> 0], bulker |-> FALSE, manager |-> FALSE]
Screen(u) == [of |-> u, base |-> acct[u].base, coll |-> acct[u].coll,
              wallet |-> acct[u].wallet, wcoll |-> acct[u].wcoll]
Blank == [of |-> NoUser, base |-> 0, coll |-> 0, wallet |-> 0, wcoll |-> 0]

Idle == [pc |-> "idle", user |-> NoUser, req |-> NoRequest, mode |-> Closed, todo |-> DoWithdraw,
         no |-> 0, saw |-> 0, landed |-> FALSE]
Leg(f) == Head(flow[f].todo)
Active == {f \in Flows : flow[f].pc # "idle"}

PortalTypeOK ==
  /\ \A u \in Users : /\ acct[u].base \in Int /\ Solvent(acct[u])
                      /\ acct[u].coll >= 0 /\ acct[u].wallet >= 0 /\ acct[u].wcoll >= 0
  /\ who \in Users \cup {NoUser} /\ shown.of \in Users \cup {NoUser} /\ late \subseteq Users
  /\ modal \in Modals \cup {Closed}
  /\ status.phase \in {"idle", "busy", "done", "error"} /\ status.req \in Request \cup {NoRequest}
  /\ \A f \in Flows : /\ flow[f].pc \in {"idle", "read", "ask", "sent"}
                      /\ flow[f].todo \in {DoWithdraw, <<"allow", "action">>, DoSupply, DoLeverage}
                      /\ flow[f].pc # "idle" => flow[f].user \in Users /\ flow[f].req \in Request
  /\ slipped \in BOOLEAN

Quiet == [phase |-> "idle", req |-> NoRequest]

Init ==
  /\ acct \in {[u \in Users |-> Account(s[u])] : s \in [Users -> Starts]}
  /\ who \in Users /\ shown = Blank /\ late = {}
  /\ modal = Closed /\ status = Quiet
  /\ flow = [f \in Flows |-> Idle] /\ sent = {}
  /\ slipped = FALSE /\ budget = [clicks |-> MaxClicks, moves |-> MaxMoves]

-----------------------------------------------------------------------------
(* The screen.                                                             *)

(* useAccountStats and refreshWalletBalances: on a connection, every 12 s,     *)
(* and when a flow is done.  A failed read changes nothing.                  *)
Load ==
  /\ who # NoUser
  /\ shown' = Screen(who)
  /\ shown' # shown
  /\ UNCHANGED <<acct, who, late, modal, status, flow, sent, slipped, budget>>

(* An answer about the account that has left.                               *)
LoadLate(u) ==
  /\ u \in late
  /\ shown' = Screen(u) /\ late' = late \ {u}
  /\ UNCHANGED <<acct, who, modal, status, flow, sent, slipped, budget>>

(* The account is switched or disconnected; without one the position is       *)
(* blanked, the wallet's balances are not.                                  *)
Switch(u) ==
  /\ u # who
  /\ who' = u
  /\ late' \in {late, (late \cup {who}) \ {u, NoUser}}
  /\ shown' = IF u = NoUser THEN [Blank EXCEPT !.wallet = shown.wallet, !.wcoll = shown.wcoll] ELSE shown
  /\ UNCHANGED <<acct, modal, status, flow, sent, slipped, budget>>

(* What can be clicked, from what is shown: the account card's buttons and the  *)
(* rows of the four tables.                                                *)
Row(mode, target) == [mode |-> mode, target |-> target]

QuickActions ==
  {Row(m, "base") : m \in {"supply", "borrow", "leverage"}}
    \cup (IF shown.base > 0 THEN {Row("withdraw", "base")} ELSE {})
    \cup (IF shown.base < 0 THEN {Row("repay", "base")} ELSE {})

YourSupplies ==
  LET rows == (IF shown.base > 0 THEN {"base"} ELSE {}) \cup (IF shown.coll > 0 THEN {"coll"} ELSE {})
  IN {Row(m, t) : m \in {"supply", "withdraw"}, t \in rows}

YourBorrows == IF shown.base < 0 THEN {Row("repay", "base"), Row("borrow", "base")} ELSE {}

AssetsToSupply ==
  {Row("supply", t) : t \in (IF shown.wallet > 0 THEN {"base"} ELSE {}) \cup (IF shown.wcoll > 0 THEN {"coll"} ELSE {})}

AssetsToBorrow == {Row("borrow", "base")}

Offers == QuickActions \cup YourSupplies \cup YourBorrows \cup AssetsToSupply \cup AssetsToBorrow

(* openModal; the backdrop of an open modal covers the buttons.               *)
OpenModal(m) ==
  /\ who # NoUser /\ modal = Closed /\ m \in Offers
  /\ modal' = m /\ status' = Quiet
  /\ UNCHANGED <<acct, who, shown, late, flow, sent, slipped, budget>>

(* closeModal                                                              *)
CloseModal ==
  /\ modal # Closed /\ status.phase # "busy"
  /\ modal' = Closed /\ status' = Quiet
  /\ slipped' = (slipped \/ Active # {})
  /\ UNCHANGED <<acct, who, shown, late, flow, sent, budget>>

(* Below the positions: the last transaction, or a failure whose modal is gone.  *)
Banner ==
  IF who = NoUser THEN "none"
  ELSE IF status.phase = "done" THEN "tx"
  ELSE IF modal = Closed /\ status.phase = "error" THEN "retry" ELSE "none"

(* Its Retry button.                                                        *)
Dismiss ==
  /\ Banner = "retry"
  /\ status' = Quiet
  /\ UNCHANGED <<acct, who, shown, late, modal, flow, sent, slipped, budget>>

-----------------------------------------------------------------------------
(* The flows.  `Become` is a step of flow f.                                *)
Become(f, r) == flow' = [flow EXCEPT ![f] = r]
Busy(f) == status' = [phase |-> "busy", req |-> flow[f].req]
World == <<acct, who, shown, late, modal, slipped>>

(* The next leg begins.  An action sets the status at once, the others read    *)
(* first, and until the answer comes the status stays what it was.            *)
Begin(f, r) ==
  IF Head(r.todo) = "action"
  THEN Become(f, [r EXCEPT !.pc = "ask"]) /\ status' = [phase |-> "busy", req |-> r.req]
  ELSE Become(f, [r EXCEPT !.pc = "read"]) /\ UNCHANGED status

(* The primary button and handleSubmit.                                    *)
Click(f, amt) ==
  /\ flow[f].pc = "idle" /\ modal # Closed /\ who # NoUser
  /\ status.phase \in {"idle", "error"}
  /\ ~Blocked(modal, amt) /\ budget.clicks > 0
  /\ Begin(f, [Idle EXCEPT !.user = who, !.req = PreviewReq(modal, amt), !.mode = modal,
                          !.todo = Plan(PreviewReq(modal, amt).kind),
                          !.no = budget.clicks, !.saw = shown.base])
  /\ slipped' = (slipped \/ Active # {})
  /\ budget' = [budget EXCEPT !.clicks = @ - 1]
  /\ UNCHANGED <<acct, who, shown, late, modal, sent>>

(* allowance < amount, or the bulker is not allowed yet.                     *)
Needs(f) ==
  LET a == acct[flow[f].user]
      req == flow[f].req
  IN IF Leg(f) = "allow" THEN ~a.manager
     ELSE CASE req.kind = "supply" -> a.comet.base < req.amt
            [] req.kind = "supplyCollateral" -> a.comet.coll < 1
            [] OTHER -> ~a.bulker

Rest(f) == [flow[f] EXCEPT !.todo = Tail(@), !.landed = FALSE]

(* The read returns: a prompt, or what comes after it.                       *)
Read(f) ==
  /\ flow[f].pc = "read"
  /\ IF Needs(f) THEN Become(f, [flow[f] EXCEPT !.pc = "ask"]) /\ Busy(f) ELSE Begin(f, Rest(f))
  /\ UNCHANGED <<World, sent, budget>>

(* A transaction of flow f; `no` tells those of two submissions apart.        *)
TxOf(f) == [by |-> f, user |-> flow[f].user, req |-> flow[f].req, mode |-> flow[f].mode.mode,
            leg |-> Leg(f), no |-> flow[f].no, saw |-> flow[f].saw]

(* estimateGas passes, the wallet signs and sends.                           *)
Sign(f) ==
  /\ flow[f].pc = "ask" /\ Can(acct[flow[f].user], TxOf(f))
  /\ Become(f, [flow[f] EXCEPT !.pc = "sent"])
  /\ sent' = sent \cup {TxOf(f)}
  /\ UNCHANGED <<World, status, budget>>

(* The transaction executes or reverts; a receipt is a receipt.              *)
Land(tx) ==
  /\ tx \in sent
  /\ sent' = sent \ {tx}
  /\ acct' = IF Can(acct[tx.user], tx) THEN [acct EXCEPT ![tx.user] = Does(@, tx)] ELSE acct
  /\ flow' = [f \in Flows |-> IF flow[f].pc = "sent" /\ TxOf(f) = tx
                              THEN [flow[f] EXCEPT !.landed = TRUE] ELSE flow[f]]
  /\ UNCHANGED <<who, shown, late, modal, status, slipped, budget>>

(* The receipt of an approval.                                              *)
Advance(f) ==
  /\ flow[f].pc = "sent" /\ flow[f].landed /\ Leg(f) # "action"
  /\ Begin(f, Rest(f))
  /\ UNCHANGED <<World, sent, budget>>

(* The receipt of the action.                                               *)
Finish(f) ==
  /\ flow[f].pc = "sent" /\ flow[f].landed /\ Leg(f) = "action"
  /\ Become(f, Idle)
  /\ status' = [phase |-> "done", req |-> flow[f].req]
  /\ UNCHANGED <<World, sent, budget>>

(* handleSubmit's catch: a read, an estimate or a receipt failed, or the       *)
(* wallet refused.  What was sent may still land.                           *)
Fail(f) ==
  /\ flow[f].pc # "idle"
  /\ Become(f, Idle)
  /\ status' = [phase |-> "error", req |-> NoRequest]
  /\ UNCHANGED <<World, sent, budget>>

(* The position moves elsewhere: another tab, a liquidation.                 *)
Elsewhere(u, n) ==
  /\ budget.moves > 0
  /\ acct' = [acct EXCEPT ![u].base = @ + n]
  /\ Solvent(acct'[u])
  /\ budget' = [budget EXCEPT !.moves = @ - 1]
  /\ UNCHANGED <<who, shown, late, modal, status, flow, sent, slipped>>

Next ==
  \/ Load \/ CloseModal \/ Dismiss
  \/ \E u \in Users : LoadLate(u) \/ \E n \in {-1, 1} : Elsewhere(u, n)
  \/ \E u \in Users \cup {NoUser} : Switch(u)
  \/ \E m \in Modals : OpenModal(m)
  \/ \E tx \in sent : Land(tx)
  \/ \E f \in Flows :
       \/ \E amt \in Amounts : Click(f, amt)
       \/ Read(f) \/ Sign(f) \/ Advance(f) \/ Finish(f) \/ Fail(f)

Spec == Init /\ [][Next]_vars

-----------------------------------------------------------------------------
(* Properties.                                                             *)

(* A spinner has a flow behind it, and unless one slipped behind the status    *)
(* while its allowance was read, there is one flow at a time and the success    *)
(* view's verb is about what was done (inFlight, PAST_VERB).  As an open modal   *)
(* shows its failure and closing it forgets it, only such a flow leaves one     *)
(* to be retried.                                                          *)
StatusIsHonest ==
  /\ Banner = "retry" => slipped
  /\ status.phase = "busy" => Active # {}
  /\ ~slipped =>
       /\ Cardinality(Active) <= 1
       /\ status.phase = "done" =>
            Active = {} /\ \E amt \in Amounts : status.req = PreviewReq(modal, amt)

Executed(req) == [leg |-> "action", req |-> req, user |-> who]

(* The preview of an account that is what the screen says is what Comet will    *)
(* do to it, and its hint says what becomes of its health, with the exceptions   *)
(* the code makes: a supply by one who owes, and a leverage by one who has base   *)
(* supplied (computeActionPreview).                                         *)
PreviewTells ==
  who # NoUser /\ shown = Screen(who) =>
    \A m \in Modals, amt \in Amounts :
      LET req == PreviewReq(m, amt)
          a == [acct[who] EXCEPT !.comet = [base |-> amt, coll |-> 1], !.bulker = TRUE, !.manager = TRUE]
          b == Does(a, Executed(req))
          says == Preview(shown, req)
      IN \/ ~Can(a, Executed(req))
         \/ req.kind = "supply" /\ a.base < 0
         \/ req.kind = "leverageOpen" /\ a.base > 0
         \/ /\ says = [wallet |-> b.wallet, supply |-> Plus(b.base), borrow |-> Minus(b.base), coll |-> b.coll]
            /\ Hint(shown, req) = "opens" <=> req.kind = "withdraw" /\ b.base < 0
            /\ Hint(shown, req) \in {"same", "no debt"} => b.base >= 0 \/ <<b.base, b.coll>> = <<a.base, a.coll>>

(* "so the /borrow page never silently performs a withdraw" (ActionModal): a    *)
(* borrow that takes effect opens debt, unless the position is no longer the    *)
(* one that was shown at the click.                                         *)
BorrowOpensDebt(tx) ==
  tx \in sent /\ tx \notin sent' /\ tx.leg = "action" /\ tx.mode = "borrow" =>
    acct'[tx.user] = acct[tx.user] \/ acct[tx.user].base # tx.saw \/ acct'[tx.user].base < 0
=============================================================================
