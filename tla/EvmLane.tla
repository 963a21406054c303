------------------------------- MODULE EvmLane -------------------------------
(***************************************************************************)
(* The action flows of the EVM lane (lib/lane/useEvmLane.ts).              *)
(*                                                                         *)
(* supply and repay are [approve,] supply; withdraw and borrow are one     *)
(* withdraw.  Unlike the Solana lane, a flow takes its wallet client and   *)
(* its user when it starts and never looks again.  Each transaction is     *)
(* estimated (which fails if it would revert now), signed, and awaited by  *)
(* its receipt; a transaction keeps its own life in the mempool after the  *)
(* flow that sent it gave up.                                              *)
(*                                                                         *)
(* Comet, the token and the wallet are external: they are the guard        *)
(* (Executable) and the effect of a mined transaction.  Prices are folded  *)
(* into CollateralFactor; interest is left out.                            *)
(***************************************************************************)
EXTENDS Integers, Sequences

CONSTANTS
  Users,             \* wallet accounts
  NoUser,            \* "not connected"
  Flows,             \* invocations of runAction; each runs once (bounds a behaviour)
  NoFlow,            \* "no success banner"
  Amounts,           \* amounts the user may type, in base units
  CollateralFactor,  \* units of base debt one unit of collateral backs
  InitWallet,        \* initial wallet balances
  InitBase,          \* initial base positions (negative: debt)
  InitColl,          \* initial collateral positions
  WalletReplaces,    \* may the user replace a sent transaction from the wallet?
  OtherTabBudget     \* how often another tab moves the user's account (a bound)

ASSUME EvmIdentityAssumption == NoUser \notin Users /\ NoFlow \notin Flows
ASSUME EvmAmountAssumption ==
  /\ Amounts \subseteq Nat \ {0}
  /\ CollateralFactor \in Nat
  /\ InitWallet \subseteq Nat
  /\ InitBase \subseteq Int
  /\ InitColl \subseteq Nat
  /\ WalletReplaces \in BOOLEAN
  /\ OtherTabBudget \in Nat

VARIABLES
  wal,     \* wal[u][a]  : wallet balance
  pos,     \* pos[u][a]  : Comet position; for "base", negative is debt
  allow,   \* allow[u][a]: allowance u gave Comet
  mem,     \* sent transactions not mined yet, as <<flow, leg>>
  active,  \* the connected account
  fl,      \* fl[f]: the state of flow f
  ui,      \* the lane's React state that outlives a flow
  other    \* moves made by another tab so far

chainVars == <<wal, pos, allow>>
vars == <<wal, pos, allow, mem, active, fl, ui, other>>

Asset == {"base", "coll"}
ActionType == {"supply", "repay", "withdraw", "borrow"}
Inflow == {"supply", "repay"}
Leg == {"approve", "act"}
Label == Leg \cup {"confirm"}
Phase == {"idle", "read", "ready", "popup", "sent", "done", "failed"}
InFlight(f) == fl[f].pc \notin {"idle", "done", "failed"}
Idle == \A f \in Flows : ~InFlight(f)

FlowState == [pc: Phase, act: ActionType, asset: Asset, amt: Nat,
              who: Users \cup {NoUser},    \* user and wallet client at the start
              by: Users \cup {NoUser},     \* the account that signs the current leg
              extra: BOOLEAN,              \* needsApprove
              leg: Leg,
              mined: SUBSET Leg,           \* history: legs with a receipt
              landed: SUBSET Leg]          \* history: legs that took effect

SignSteps(extra) == IF extra THEN <<"approve", "act", "confirm">> ELSE <<"act", "confirm">>

TypeOK ==
  /\ wal \in [Users -> [Asset -> Nat]]
  /\ pos \in [Users -> [Asset -> Int]]
  /\ allow \in [Users -> [Asset -> Nat]]
  /\ mem \subseteq Flows \X Leg
  /\ active \in Users \cup {NoUser}
  /\ fl \in [Flows -> FlowState]
  /\ ui \in [signing: BOOLEAN, step: Nat, plan: Seq(Label),
             error: BOOLEAN, result: Flows \cup {NoFlow}]
  /\ other \in Nat

Debt(u) == IF pos[u]["base"] < 0 THEN -pos[u]["base"] ELSE 0

FreshFlow == [pc |-> "idle", act |-> "supply", asset |-> "base", amt |-> 0,
              who |-> NoUser, by |-> NoUser, extra |-> FALSE, leg |-> "act",
              mined |-> {}, landed |-> {}]

Init ==
  /\ wal \in [Users -> [Asset -> InitWallet]]
  /\ \E b \in [Users -> InitBase], c \in [Users -> InitColl] :
       /\ \A u \in Users : -b[u] <= CollateralFactor * c[u]
       /\ pos = [u \in Users |-> [a \in Asset |-> IF a = "base" THEN b[u] ELSE c[u]]]
  /\ allow = [u \in Users |-> [a \in Asset |-> 0]]
  /\ mem = {}
  /\ active = NoUser
  /\ fl = [f \in Flows |-> FreshFlow]
  /\ ui = [signing |-> FALSE, step |-> 0, plan |-> <<>>, error |-> FALSE, result |-> NoFlow]
  /\ other = 0

Become(f, r) == fl' = [fl EXCEPT ![f] = r]

(* Signing is over: setSigning(false), setSignStep(0), setSignPlan([]).     *)
Released(u) == [u EXCEPT !.signing = FALSE, !.step = 0, !.plan = <<>>]

-----------------------------------------------------------------------------
PanelShown == active # NoUser /\ (ui.error \/ ~ui.signing)

Offered(u, act, a, amt) ==
  CASE act = "supply"   -> amt <= wal[u][a]
    [] act = "repay"    -> a = "base" /\ amt <= wal[u][a] /\ amt <= Debt(u)
    [] act = "withdraw" -> amt <= pos[u][a]
    [] act = "borrow"   -> a = "base" /\ amt + Debt(u) <= CollateralFactor * pos[u]["coll"]

Submit(f, act, a, amt) ==
  /\ PanelShown
  /\ fl[f].pc = "idle"
  /\ Offered(active, act, a, amt)
  /\ Become(f, [FreshFlow EXCEPT !.pc = "read", !.act = act, !.asset = a,
                                 !.amt = amt, !.who = active])
  /\ ui' = [signing |-> TRUE, step |-> 0, plan |-> <<>>, error |-> FALSE, result |-> NoFlow]
  /\ UNCHANGED <<chainVars, mem, active, other>>

(* runAction refuses the input before it starts: no signer or wallet client  *)
(* yet, or an amount that does not parse or is not positive.               *)
Refuse ==
  /\ PanelShown
  /\ ui' = [ui EXCEPT !.error = TRUE, !.result = NoFlow]
  /\ UNCHANGED <<chainVars, mem, active, fl, other>>

(* Mutant: the plan is guessed from the action, not from the allowance.     *)
ReadAllowance_Guesses(f) ==
  /\ fl[f].pc = "read"
  /\ LET r == fl[f]
         needs == r.act \in Inflow /\ allow[r.who][r.asset] < r.amt
     IN /\ Become(f, [r EXCEPT !.pc = "ready", !.extra = needs,
                               !.leg = IF needs THEN "approve" ELSE "act"])
        /\ ui' = [ui EXCEPT !.plan = SignSteps(r.act \in Inflow)]
  /\ UNCHANGED <<chainVars, mem, active, other>>

(* The up-front allowance read fixes the popup plan.                        *)
ReadAllowance(f) ==
  /\ fl[f].pc = "read"
  /\ LET r == fl[f]
         needs == r.act \in Inflow /\ allow[r.who][r.asset] < r.amt
     IN /\ Become(f, [r EXCEPT !.pc = "ready", !.extra = needs,
                               !.leg = IF needs THEN "approve" ELSE "act"])
        /\ ui' = [ui EXCEPT !.plan = SignSteps(needs)]
  /\ UNCHANGED <<chainVars, mem, active, other>>

-----------------------------------------------------------------------------
(* A transaction: estimate, popup, send, mine, receipt.                     *)

After(r) == [pos[r.by] EXCEPT ![r.asset] = IF r.act \in Inflow THEN @ + r.amt ELSE @ - r.amt]

(* Comet and the token accept the current leg of r, signed by r.by.         *)
Executable(r) ==
  \/ r.leg = "approve"
  \/ r.leg = "act" /\ r.act \in Inflow
     /\ wal[r.by][r.asset] >= r.amt /\ allow[r.by][r.asset] >= r.amt
  \/ r.leg = "act" /\ r.act \notin Inflow
     /\ After(r)["coll"] >= 0
     /\ -After(r)["base"] <= CollateralFactor * After(r)["coll"]

(* Mutant: the current account's client is used, as the Solana lane does.   *)
Prompt_Current(f) ==
  LET r == [fl[f] EXCEPT !.pc = "popup", !.by = active] IN
  /\ fl[f].pc = "ready" /\ active # NoUser
  /\ Executable(r)
  /\ Become(f, r)
  /\ ui' = [ui EXCEPT !.step = IF r.extra /\ r.leg = "act" THEN 1 ELSE 0]
  /\ UNCHANGED <<chainVars, mem, active, other>>

(* Mutant: the counter behind next() starts one too low.                    *)
Prompt_OneBehind(f) ==
  LET r == [fl[f] EXCEPT !.pc = "popup", !.by = fl[f].who] IN
  /\ fl[f].pc = "ready"
  /\ Executable(r)
  /\ Become(f, r)
  /\ ui' = [ui EXCEPT !.step = (IF r.extra /\ r.leg = "act" THEN 1 ELSE 0) - 1]
  /\ UNCHANGED <<chainVars, mem, active, other>>

(* next(), then the buffered gas estimate, then the wallet's popup.         *)
Prompt(f) ==
  LET r == [fl[f] EXCEPT !.pc = "popup", !.by = fl[f].who] IN
  /\ fl[f].pc = "ready"
  /\ Executable(r)
  /\ Become(f, r)
  /\ ui' = [ui EXCEPT !.step = IF r.extra /\ r.leg = "act" THEN 1 ELSE 0]
  /\ UNCHANGED <<chainVars, mem, active, other>>

(* writeContract returned a hash; after the last popup the row of the       *)
(* confirmation is highlighted.                                             *)
Sign(f) ==
  /\ fl[f].pc = "popup"
  /\ Become(f, [fl[f] EXCEPT !.pc = "sent"])
  /\ mem' = mem \cup {<<f, fl[f].leg>>}
  /\ ui' = IF fl[f].leg = "act" THEN [ui EXCEPT !.step = IF fl[f].extra THEN 2 ELSE 1] ELSE ui
  /\ UNCHANGED <<chainVars, active, other>>

(* Mutant: the approve asks for more than the action needs.                 *)
Effect_ApproveMore(r) ==
  \/ /\ r.leg = "approve"
     /\ allow' = [allow EXCEPT ![r.by][r.asset] = r.amt + 1]
     /\ UNCHANGED <<wal, pos>>
  \/ /\ r.leg = "act" /\ r.act \in Inflow
     /\ wal' = [wal EXCEPT ![r.by][r.asset] = @ - r.amt]
     /\ pos' = [pos EXCEPT ![r.by] = After(r)]
     /\ allow' = [allow EXCEPT ![r.by][r.asset] = @ - r.amt]
  \/ /\ r.leg = "act" /\ r.act \notin Inflow
     /\ wal' = [wal EXCEPT ![r.by][r.asset] = @ + r.amt]
     /\ pos' = [pos EXCEPT ![r.by] = After(r)]
     /\ UNCHANGED allow

(* What a mined leg does on chain: an exact approve, Comet.supply, or       *)
(* Comet.withdraw.                                                          *)
Effect(r) ==
  \/ /\ r.leg = "approve"
     /\ allow' = [allow EXCEPT ![r.by][r.asset] = r.amt]
     /\ UNCHANGED <<wal, pos>>
  \/ /\ r.leg = "act" /\ r.act \in Inflow
     /\ wal' = [wal EXCEPT ![r.by][r.asset] = @ - r.amt]
     /\ pos' = [pos EXCEPT ![r.by] = After(r)]
     /\ allow' = [allow EXCEPT ![r.by][r.asset] = @ - r.amt]
  \/ /\ r.leg = "act" /\ r.act \notin Inflow
     /\ wal' = [wal EXCEPT ![r.by][r.asset] = @ + r.amt]
     /\ pos' = [pos EXCEPT ![r.by] = After(r)]
     /\ UNCHANGED allow

(* A flow's pending transaction is always that of its current leg.          *)
Mine(f) ==
  /\ <<f, fl[f].leg>> \in mem
  /\ Executable(fl[f])
  /\ Effect(fl[f])
  /\ mem' = mem \ {<<f, fl[f].leg>>}
  /\ Become(f, [fl[f] EXCEPT !.mined = @ \cup {fl[f].leg}, !.landed = @ \cup {fl[f].leg}])
  /\ UNCHANGED <<active, ui, other>>

(* The chain moved since the estimate and the transaction reverts, or the   *)
(* user cancelled it from the wallet: there is a receipt and no effect.     *)
MineNothing(f) ==
  /\ <<f, fl[f].leg>> \in mem
  /\ ~Executable(fl[f]) \/ WalletReplaces
  /\ mem' = mem \ {<<f, fl[f].leg>>}
  /\ Become(f, [fl[f] EXCEPT !.mined = @ \cup {fl[f].leg}])
  /\ UNCHANGED <<chainVars, active, ui, other>>

(* waitForTransactionReceipt returned; its status is not looked at.         *)
Receipt(f, leg) == fl[f].pc = "sent" /\ fl[f].leg = leg /\ leg \in fl[f].mined

Advance(f) ==
  /\ Receipt(f, "approve")
  /\ Become(f, [fl[f] EXCEPT !.pc = "ready", !.leg = "act"])
  /\ UNCHANGED <<chainVars, mem, active, ui, other>>

(* Mutant: success at the hash.                                             *)
Succeed_AtHash(f) ==
  /\ fl[f].pc = "sent" /\ fl[f].leg = "act"
  /\ Become(f, [fl[f] EXCEPT !.pc = "done"])
  /\ ui' = [Released(ui) EXCEPT !.result = f]
  /\ UNCHANGED <<chainVars, mem, active, other>>

Succeed(f) ==
  /\ Receipt(f, "act")
  /\ Become(f, [fl[f] EXCEPT !.pc = "done"])
  /\ ui' = [Released(ui) EXCEPT !.result = f]
  /\ UNCHANGED <<chainVars, mem, active, other>>

(* Mutant: only a rejected popup is caught.                                 *)
Fail_OnlyPopup(f) ==
  /\ fl[f].pc = "popup"
  /\ Become(f, [fl[f] EXCEPT !.pc = "failed"])
  /\ ui' = [Released(ui) EXCEPT !.error = TRUE]
  /\ UNCHANGED <<chainVars, mem, active, other>>

(* A read, an estimate, a popup or a receipt wait throws.  A transaction    *)
(* already sent stays in the mempool.                                       *)
Fail(f) ==
  /\ InFlight(f)
  /\ Become(f, [fl[f] EXCEPT !.pc = "failed"])
  /\ ui' = [Released(ui) EXCEPT !.error = TRUE]
  /\ UNCHANGED <<chainVars, mem, active, other>>

-----------------------------------------------------------------------------
ClearError ==
  /\ ui.error \/ ui.result # NoFlow
  /\ ui' = [ui EXCEPT !.error = FALSE, !.result = NoFlow]
  /\ UNCHANGED <<chainVars, mem, active, fl, other>>

Connect(u) ==
  /\ active # u
  /\ active' = u
  /\ UNCHANGED <<chainVars, mem, fl, ui, other>>

Disconnect ==
  /\ active # NoUser
  /\ active' = NoUser
  /\ ui' = [Released(ui) EXCEPT !.error = FALSE, !.result = NoFlow]
  /\ UNCHANGED <<chainVars, mem, fl, other>>

OtherTabSupplies(u, d) ==
  /\ other < OtherTabBudget
  /\ wal[u]["base"] >= d
  /\ wal' = [wal EXCEPT ![u]["base"] = @ - d]
  /\ pos' = [pos EXCEPT ![u]["base"] = @ + d]
  /\ allow' = [allow EXCEPT ![u]["base"] = IF @ < d THEN 0 ELSE @ - d]
  /\ other' = other + 1
  /\ UNCHANGED <<mem, active, fl, ui>>

OtherTabWithdraws(u, d) ==
  /\ other < OtherTabBudget
  /\ pos[u]["base"] >= d
  /\ wal' = [wal EXCEPT ![u]["base"] = @ + d]
  /\ pos' = [pos EXCEPT ![u]["base"] = @ - d]
  /\ other' = other + 1
  /\ UNCHANGED <<allow, mem, active, fl, ui>>

-----------------------------------------------------------------------------
FlowStep(f) ==
  \/ ReadAllowance(f) \/ Prompt(f) \/ Sign(f) \/ Advance(f) \/ Succeed(f) \/ Fail(f)

LaneStep ==
  \/ \E f \in Flows, act \in ActionType, a \in Asset, amt \in Amounts : Submit(f, act, a, amt)
  \/ \E f \in Flows : FlowStep(f) \/ Mine(f) \/ MineNothing(f)
  \/ ClearError \/ Refuse
  \/ \E u \in Users, d \in Amounts : OtherTabSupplies(u, d) \/ OtherTabWithdraws(u, d)

IdentityStep == (\E u \in Users : Connect(u)) \/ Disconnect

Next == LaneStep \/ IdentityStep
SteadyNext == LaneStep \/ (Idle /\ IdentityStep)

Spec == Init /\ [][Next]_vars
SteadySpec == Init /\ [][SteadyNext]_vars

(* Every await but the popup settles, in success or in an exception.        *)
SystemStep(f) == fl[f].pc # "popup" /\ FlowStep(f)
FairSpec == Spec /\ \A f \in Flows : WF_vars(SystemStep(f))

-----------------------------------------------------------------------------
(* Properties.                                                             *)

(* A user's money and approvals move only by a transaction of a flow that   *)
(* this user started, or in another tab: the flow destructures ref.current  *)
(* once, so switching accounts mid-flow cannot make another account pay.    *)
MovesOf(u) == <<wal[u], pos[u], allow[u]>>
OnlyStarterMoves ==
  [][\A u \in Users : MovesOf(u)' # MovesOf(u) =>
       \/ other' # other
       \/ \E f \in Flows : fl[f].who = u /\ fl[f].landed # fl'[f].landed]_vars

(* Approvals are exact and spent: when nothing is in flight or pending and  *)
(* every flow took effect, Comet may pull nothing (approve(comet, amount)). *)
NoIdleAllowance ==
  /\ Idle /\ mem = {}
  /\ \A f \in Flows : fl[f].pc # "failed" /\ (fl[f].pc = "done" => "act" \in fl[f].landed)
  => \A u \in Users, a \in Asset : allow[u][a] = 0

(* Success is reported only after every popup's transaction has a receipt.  *)
SuccessIsMinedPlan ==
  \A f \in Flows : fl[f].pc = "done" =>
    /\ fl[f].mined = {SignSteps(fl[f].extra)[i] : i \in DOMAIN SignSteps(fl[f].extra)} \ {"confirm"}
    /\ \A leg \in Leg : <<f, leg>> \notin mem

(* The popup is the highlighted row of the plan, and the plan is gone when   *)
(* nothing is signed (types.ts on signPlan: "Empty when not signing"; the    *)
(* EVM lane clears it on both ends of runAction).                           *)
PlanMatchesPopup ==
  /\ \A f \in Flows : fl[f].pc = "popup" =>
       /\ ui.step + 1 \in DOMAIN ui.plan
       /\ ui.plan[ui.step + 1] = fl[f].leg
  /\ ~ui.signing => ui.plan = <<>>

(* A flow in flight reaches a popup or its end.                             *)
WaitsOnlyForUser ==
  \A f \in Flows : InFlight(f) ~> (fl[f].pc \in {"popup", "done", "failed"})

(* types.ts on lastResult: "the most-recent SUCCESSFUL action": a flow that *)
(* reports success had its action take effect.                              *)
SuccessTookEffect == \A f \in Flows : fl[f].pc = "done" => "act" \in fl[f].landed

(* The lane as the abstract contract sees it: an action took effect when    *)
(* its last transaction was mined, in whatever way.                        *)
ContractPhase(pc) == CASE pc = "done" -> "succeeded" [] pc \in {"idle", "failed"} -> pc
                       [] OTHER -> "working"
Contract == INSTANCE ActionContract WITH
  Actions <- Flows,
  phase <- [f \in Flows |-> ContractPhase(fl[f].pc)],
  effect <- [f \in Flows |-> "act" \in fl[f].mined]

(* An action is reported once and only after its transaction was mined, and *)
(* one that failed may still be mined later (LaneAdapter, runAction).       *)
ContractSpec == Contract!Spec
=============================================================================
