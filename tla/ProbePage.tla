------------------------------ MODULE ProbePage ------------------------------
(***************************************************************************)
(* The probe page, app/discovery: every operation of the Solana lane as a    *)
(* button of its own.  One handler runs at a time (busy).  Each begins with  *)
(* reads, declines what cannot work, and sends its transactions in order.   *)
(***************************************************************************)
EXTENDS DevFlow

CONSTANTS
  Amount,     \* Amount[a]: what a fund moves (discoveryAssets)
  BorrowMin,  \* the debt that a borrow opens
  BuyMax      \* what a purchase spends at most

ASSUME AmountsAssumption == Amount \in [Assets -> Nat] /\ BorrowMin \in Nat /\ BuyMax \in Nat

Free(h) == ~Running(h)

Approve(a, n) == <<Leg("topUp", a, n)>>
Alt == <<Leg("alt", Base, 0)>>
Ata(a) == <<Leg("ata", a, 0)>>
Supply(a, n) == <<Leg("supply", a, n)>>

(* Mutant: a debt is taken for a position.                                  *)
Position_Signed(a) == IF a = Base THEN acct.base ELSE acct.coll[a]

Position(a) == IF a = Base THEN IF acct.base > 0 THEN acct.base ELSE 0 ELSE acct.coll[a]
Debt == IF acct.base < 0 THEN -acct.base ELSE 0

-----------------------------------------------------------------------------
(* The buttons: what each handler reads, when it declines, and what it       *)
(* sends.                                                                  *)

(* Activate: the authority, an account for every asset, the table.           *)
RunActivate(h) ==
  Free(h) /\ Begin(h, "activate",
    <<<<Leg("pda", Base, 0)>>>> \o [i \in DOMAIN Listed |-> Ata(Listed[i])] \o <<Alt>>, acct)

(* Fund: from the wallet into the synthetic, natively.                       *)
RunFund(h, a) ==
  Free(h) /\ Begin(h, "fund", <<<<Leg("fund", a, Amount[a])>>>>,
                   Does(Leg("fund", a, Amount[a]), acct))

(* Mutant: what is allowed is the amount of the next fund.                   *)
RunSupply_DefaultApprove(h, a) ==
  /\ Free(h)
  /\ IF acct.held[a] = 0 THEN Decline(h)
     ELSE Begin(h, "supply", <<Approve(a, Amount[a] + acct.held[a]), Alt, Supply(a, acct.held[a])>>,
                Supplied(Leg("supply", a, acct.held[a]), acct))

(* Supply: all that the synthetic holds, after an approve of its own unless   *)
(* what is allowed will do.                                                 *)
RunSupply(h, a) ==
  /\ Free(h)
  /\ IF acct.held[a] = 0 THEN Decline(h)
     ELSE Begin(h, "supply", <<Approve(a, acct.held[a]), Alt, Supply(a, acct.held[a])>>,
                Supplied(Leg("supply", a, acct.held[a]), acct))

(* Withdraw: the whole position.                                           *)
RunWithdraw(h, a) ==
  /\ Free(h)
  /\ IF Position(a) = 0 THEN Decline(h)
     ELSE Begin(h, "withdraw", <<<<Leg("withdraw", a, Position(a))>>>>,
                Withdrawn(Leg("withdraw", a, Position(a)), acct))

(* Return to wallet: all that the synthetic holds.                          *)
RunReturnToWallet(h, a) ==
  LET l == Leg("return", a, acct.held[a])
  IN /\ Free(h)
     /\ IF acct.held[a] = 0 THEN Decline(h)
        ELSE Begin(h, "return", <<<<l>>>>, Does(l, acct))

(* Withdraw -> wallet: both legs in one transaction when it fits, which a     *)
(* collateral's does not; the nonces of the two are built beforehand.        *)
RunWithdrawToWallet(h, a) ==
  LET n == Position(a)
      out == Leg("withdraw", a, n)
      home == Leg("return", a, n)
  IN /\ Free(h)
     /\ IF n = 0 THEN Decline(h)
        ELSE Begin(h, "exit", IF a = Base THEN <<<<out, home>>>> ELSE <<<<out>>, <<home>>>>,
                   Does(home, Withdrawn(out, acct)))

(* Mutant: the supply that the withdrawal draws down first is not counted.   *)
RunBorrow_NoSupply(h) ==
  LET l == Leg("withdraw", Base, BorrowMin)
  IN Free(h) /\ Begin(h, "borrow", <<Alt, <<l>>>>,
                      Withdrawn(Leg("withdraw", Base, Position(Base) + BorrowMin), acct))

(* Borrow: the supply and BorrowMin beyond it.                              *)
RunBorrow(h) ==
  LET l == Leg("withdraw", Base, Position(Base) + BorrowMin)
  IN Free(h) /\ Begin(h, "borrow", <<Alt, <<l>>>>, Withdrawn(l, acct))

(* Repay: what is owed or what is held, whichever is less (repayAmount).     *)
RunRepay(h) ==
  LET n == IF Debt < acct.held[Base] THEN Debt ELSE acct.held[Base]
  IN /\ Free(h)
     /\ IF n = 0 THEN Decline(h)
        ELSE Begin(h, "repay", <<Approve(Base, n), Alt, Supply(Base, n)>>,
                   Supplied(Leg("supply", Base, n), acct))

(* Liquidate: an account that Comet calls liquidatable.                     *)
RunLiquidate(h, a) ==
  /\ Free(h)
  /\ IF acct.victim # "under" THEN Decline(h)
     ELSE Begin(h, "liquidate", <<Alt, <<Leg("absorb", a, 0)>>>>, acct)

(* Buy collateral: the account to receive it first, then a look at what is    *)
(* for sale.                                                               *)
RunBuyCollateral(h, a) == Free(h) /\ Begin(h, "buy", <<Ata(a), <<Leg("look", a, 0)>>>>, acct)

LookBuy(h) ==
  LET a == run[h].todo[1][1].asset
      n == IF acct.held[Base] < BuyMax THEN acct.held[Base] ELSE BuyMax
  IN /\ run[h].pc = "next" /\ run[h].todo[1][1].do = "look"
     /\ IF n = 0 \/ acct.seized[a] < n THEN Decline(h)
        ELSE Begin(h, "buy", <<Approve(Base, n), Alt, <<Leg("buy", a, n)>>>>,
                   Does(Leg("buy", a, n), acct))

(* Fund + Approve + Supply: one prompt for the first two, one for the third.  *)
RunCombined(h, a) ==
  LET n == Amount[a]
      fund == Leg("fund", a, n)
  IN Free(h) /\ Begin(h, "combined", <<Ata(a), Alt, <<fund, Leg("approve", a, n)>>, Supply(a, n)>>,
                      Supplied(Leg("supply", a, n), Does(fund, acct)))

(* Claim: the faucet pays into the synthetic, once.                         *)
RunFaucetClaim(h, a) ==
  LET l == Leg("claim", a, 1)
  IN Free(h) /\ Begin(h, "claim", <<Alt, <<l>>>>, Does(l, acct))

Click(h) ==
  \/ RunActivate(h) \/ RunBorrow(h) \/ RunRepay(h)
  \/ \E a \in Assets : \/ RunFund(h, a) \/ RunSupply(h, a) \/ RunWithdraw(h, a)
                       \/ RunReturnToWallet(h, a) \/ RunWithdrawToWallet(h, a) \/ RunCombined(h, a)
  \/ \E c \in Colls : RunLiquidate(h, c) \/ RunBuyCollateral(h, c) \/ RunFaucetClaim(h, c)

Init == FlowInit
Next == ChainStep \/ \E h \in Handlers : Click(h) \/ LookBuy(h) \/ HandlerStep(h, "exit")
Spec == Init /\ [][Next]_flowVars

-----------------------------------------------------------------------------
(* Properties.                                                             *)

(* At rest nothing may be pulled from the synthetic, as long as every         *)
(* handler ran to its end and nothing landed behind one's back: each         *)
(* approve is used up by the transaction it was for (the note above runFund). *)
CleanLeavesNoAllowance ==
  ~torn /\ (\A h \in Handlers : ~Running(h)) => \A a \in Assets : acct.allow[a] = 0

(* Activate, which may be run again after any step of it failed, ends well      *)
(* only when everything is there.                                          *)
ActivatesAll(h) ==
  Ends(h) /\ run[h].op = "activate" => acct'.pda /\ acct'.ata = Assets /\ acct'.alt
=============================================================================
