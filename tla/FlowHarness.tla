----------------------------- MODULE FlowHarness -----------------------------
(***************************************************************************)
(* The flow harness, app/flows: flows that start and end in the Solana        *)
(* wallet and pass through the synthetic, which is to hold nothing at rest;   *)
(* a check that lists what a torn flow left there, and sweeps that bring it   *)
(* home or into the Comet.                                                 *)
(*                                                                         *)
(* One `busy` flag guards every button.  Loading the position, which also    *)
(* happens by itself whenever the wallet changes, sets and clears the same   *)
(* flag, so that a wallet that is switched away and back in the middle of a  *)
(* flow opens the buttons for another one.                                  *)
(***************************************************************************)
EXTENDS DevFlow

CONSTANTS
  Amount,        \* Amount[a]: what a flow moves (discoveryAssets, borrowAmount)
  MaxReconnects  \* bound: wallet switches in the middle of things

VARIABLES
  busy,
  loading,    \* loadPosition is running
  stranded,   \* what the last check found
  reconnects

harnessVars == <<flowVars, busy, loading, stranded, reconnects>>
pageVars == <<loading, stranded, reconnects>>

Unchecked == [a \in Assets |-> -1]

HarnessTypeOK ==
  /\ FlowTypeOK
  /\ busy \in BOOLEAN /\ loading \in BOOLEAN /\ reconnects \in 0 .. MaxReconnects
  /\ stranded = Unchecked \/ stranded \in AmountPer(Assets)

Init ==
  /\ FlowInit
  /\ busy = TRUE /\ loading = TRUE /\ stranded = Unchecked /\ reconnects = 0

-----------------------------------------------------------------------------
(* A button is pressed: the flow begins, or ends at once.                   *)
Free(h) == ~busy /\ ~Running(h)

Start(h, op, todo, goal) == busy' = TRUE /\ Begin(h, op, todo, goal) /\ UNCHANGED pageVars
Abort(h) == Decline(h) /\ UNCHANGED <<busy, pageVars>>

FundTx(a, n) == <<Leg("nativeAta", a, 0), Leg("fund", a, n)>>
ApproveIfShort(a, n) == IF acct.allow[a] < n THEN <<<<Leg("approve", a, n)>>>> ELSE <<>>
Home(a, n) == <<<<Leg("walletAta", a, 0)>>, <<Leg("return", a, n)>>>>
Alt == <<Leg("alt", Base, 0)>>

(* A table is needed for what touches many accounts (more than 18), which a   *)
(* call that reverts in emulation does not.                                *)
Heavy(l) == IF Can(l, acct) THEN <<Alt>> ELSE <<>>

Position(a) == IF a = Base THEN IF acct.base > 0 THEN acct.base ELSE 0 ELSE acct.coll[a]

(* Activate user: nothing to do when there are an authority and a pointer to  *)
(* a table.                                                                *)
DoActivate(h) ==
  /\ Free(h)
  /\ Start(h, "activate", <<<<Leg("pda", Base, 0)>>>>
              \o (IF acct.alt /\ acct.pda THEN <<>>
                  ELSE [i \in DOMAIN Listed |-> <<Leg("ata", Listed[i], 0)>>] \o <<Alt>>), acct)

(* Airdrop: the native faucet pays into the wallet.                         *)
DoAirdrop(h, a) ==
  LET l == Leg("airdrop", a, 1)
  IN Free(h) /\ Start(h, "airdrop", <<<<l>>>>, Does(l, acct))

(* Supply, and on the base asset Repay: fund, approve if what is allowed now  *)
(* is short, supply.                                                       *)
DoSupply(h, a) ==
  LET n == Amount[a]
  IN /\ Free(h)
     /\ Start(h, "supply", <<FundTx(a, n)>> \o ApproveIfShort(a, n) \o <<<<Leg("supply", a, n)>>>>,
              Supplied(Leg("supply", a, n), Does(Leg("fund", a, n), acct)))

(* Withdraw: no more than the position, and home.                           *)
DoWithdraw(h, a) ==
  LET n == IF Amount[a] < Position(a) THEN Amount[a] ELSE Position(a)
      l == Leg("withdraw", a, n)
  IN /\ Free(h)
     /\ IF n = 0 THEN Abort(h)
        ELSE Start(h, "withdraw", <<<<l>>>> \o Home(a, n),
                   Does(Leg("return", a, n), Withdrawn(l, acct)))

(* Borrow: the whole base supply and the amount beyond it, and home.         *)
DoBorrow(h) ==
  LET n == Position(Base) + Amount[Base]
      l == Leg("withdraw", Base, n)
  IN Free(h) /\ Start(h, "borrow", Heavy(l) \o <<<<l>>>> \o Home(Base, n),
                      Does(Leg("return", Base, n), Withdrawn(l, acct)))

(* Absorb: an account that Comet calls liquidatable.                        *)
DoAbsorb(h, a) ==
  /\ Free(h)
  /\ IF acct.victim # "under" THEN Abort(h)
     ELSE Start(h, "absorb", Heavy(Leg("absorb", a, 0)) \o <<<<Leg("absorb", a, 0)>>>>, acct)

(* Buy collateral: fund, approve if short, buy, and then whatever the         *)
(* synthetic holds of it home.                                              *)
Bought(a, n) == Does(Leg("buy", a, n), Does(Leg("fund", Base, n), acct))

DoBuyCollateral(h, a) ==
  LET n == Amount[Base]
  IN /\ Free(h)
     /\ Start(h, "buy", <<FundTx(Base, n)>> \o ApproveIfShort(Base, n)
                          \o <<<<Leg("buy", a, n)>>, <<Leg("look", a, 0)>>>>,
              Does(Leg("return", a, Bought(a, n).held[a]), Bought(a, n)))

LookBought(h) ==
  LET a == run[h].todo[1][1].asset
  IN /\ run[h].pc = "next" /\ run[h].todo[1][1].do = "look"
     /\ Become(h, [run[h] EXCEPT !.todo = Home(a, acct.held[a])])
     /\ UNCHANGED <<acct, net, torn, busy, pageVars>>

(* The rows of the last check: return to wallet, supply to Comet.            *)
SweepToWallet(h, a) ==
  LET n == stranded[a]
  IN /\ Free(h) /\ n > 0
     /\ Start(h, "sweep", Home(a, n), Does(Leg("return", a, n), acct))

SweepToComet(h, a) ==
  LET n == stranded[a]
  IN /\ Free(h) /\ n > 0
     /\ Start(h, "finish", ApproveIfShort(a, n) \o <<<<Leg("supply", a, n)>>>>,
              Supplied(Leg("supply", a, n), acct))

Click(h) ==
  \/ DoActivate(h) \/ DoBorrow(h)
  \/ \E a \in Assets : DoSupply(h, a) \/ DoWithdraw(h, a) \/ SweepToWallet(h, a) \/ SweepToComet(h, a)
  \/ \E c \in Colls : DoAirdrop(h, c) \/ DoAbsorb(h, c) \/ DoBuyCollateral(h, c)

-----------------------------------------------------------------------------
(* checkSynthetic after a flow that moved tokens and ended well.             *)
Check(h) ==
  stranded' = IF Ends(h) /\ run[h].op \notin {"activate", "absorb"} THEN acct.held ELSE stranded

(* `finally` when the flow ends, well or not.                               *)
Settle(h) ==
  /\ busy' = IF run'[h].pc \in Resting THEN FALSE ELSE busy
  /\ UNCHANGED <<loading, reconnects>>

Step(h) == HandlerStep(h, "none") /\ Check(h) /\ Settle(h)

(* Check synthetic, the button.                                            *)
CheckSynthetic ==
  /\ ~busy
  /\ stranded' = acct.held
  /\ UNCHANGED <<flowVars, busy, loading, reconnects>>

(* The wallet goes and comes back; the effect loads the position anew.       *)
Reconnect ==
  /\ reconnects < MaxReconnects
  /\ reconnects' = reconnects + 1
  /\ busy' = TRUE /\ loading' = TRUE
  /\ UNCHANGED <<flowVars, stranded>>

(* loadPosition returns or fails.                                          *)
Loaded ==
  /\ loading
  /\ busy' = FALSE /\ loading' = FALSE
  /\ UNCHANGED <<flowVars, stranded, reconnects>>

Chain == ChainStep /\ UNCHANGED <<busy, pageVars>>

Next ==
  \/ Chain \/ CheckSynthetic \/ Reconnect \/ Loaded
  \/ \E h \in Handlers : Click(h) \/ LookBought(h) \/ Step(h)

Spec == Init /\ [][Next]_harnessVars

-----------------------------------------------------------------------------
(* Properties.                                                             *)

(* "synthetic holds nothing at rest": as long as every flow ran to its end     *)
(* and nothing landed behind one's back, no token stays in the synthetic and  *)
(* no allowance with it, also when a reconnect lets two flows run at a time.  *)
CleanLeavesNothing ==
  ~torn /\ (\A h \in Handlers : ~Running(h)) =>
    \A a \in Assets : acct.held[a] = 0 /\ acct.allow[a] = 0

(* The list that the sweeps work from is what the synthetic holds, until a    *)
(* flow fails or is running.                                               *)
ListIsCurrent ==
  ~torn /\ stranded # Unchecked /\ (\A h \in Handlers : ~Running(h)) => stranded = acct.held

(* One flow at a time, unless the wallet was switched away and back (busy).   *)
OneFlowAtATime ==
  (\E g, h \in Handlers : g # h /\ Running(g) /\ Running(h)) => reconnects > 0
=============================================================================
