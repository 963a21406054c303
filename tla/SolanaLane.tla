------------------------------ MODULE SolanaLane ------------------------------
(***************************************************************************)
(* The action flows of the Solana lane (lib/lane/useSolanaLane.ts).        *)
(*                                                                         *)
(* A Solana user owns a wallet (SPL token accounts), a synthetic EVM       *)
(* address derived from the wallet key, and a position in Comet held by    *)
(* the synthetic.  Each user action is a flow of several transactions      *)
(* ("legs"), each of which opens one wallet popup:                         *)
(*                                                                         *)
(*   supply, repay    :  fund, [approve], supply                           *)
(*   withdraw, borrow :  withdraw, [ata], sweep                            *)
(*                                                                         *)
(* Flows are asynchronous closures: between any two awaits the user may    *)
(* switch or disconnect the wallet, another tab may move the same account, *)
(* and every leg reads the identity that is connected when it starts.  A   *)
(* flow that gives up on a transaction it sent leaves that transaction     *)
(* adrift: it may still land, during the next flow, or never.              *)
(*                                                                         *)
(* Comet, the token programs and the wallets are external; they appear as  *)
(* the guards and effects of a landing leg.  Amounts are token base units; *)
(* prices and the collateral factor are folded into CollateralFactor       *)
(* (debt allowed per unit of collateral), and interest is left out.        *)
(***************************************************************************)
EXTENDS Integers, Sequences

CONSTANTS
  Users,             \* wallet accounts the user may connect
  NoUser,            \* "no wallet connected"
  Flows,             \* invocations of runAction; each runs once (bounds a behaviour)
  NoFlow,            \* "no success banner"
  Amounts,           \* amounts the user may type, in base units
  CollateralFactor,  \* units of base debt one unit of collateral backs
  InitWallet,        \* initial wallet balances
  InitBase,          \* initial base positions (negative: debt)
  InitColl,          \* initial collateral positions
  OtherTabBudget     \* how often another tab moves the user's account (a bound)

ASSUME IdentityAssumption == NoUser \notin Users /\ NoFlow \notin Flows
ASSUME AmountAssumption ==
  /\ Amounts \subseteq Nat \ {0}
  /\ CollateralFactor \in Nat
  /\ InitWallet \subseteq Nat
  /\ InitBase \subseteq Int
  /\ InitColl \subseteq Nat
  /\ OtherTabBudget \in Nat

VARIABLES
  wal,     \* wal[u][a]  : balance of u's wallet token account
  ata,     \* ata[u][a]  : does u's wallet token account exist?
  syn,     \* syn[u][a]  : balance of u's synthetic address
  pos,     \* pos[u][a]  : u's Comet position; for "base", negative is debt
  allow,   \* allow[u][a]: allowance u's synthetic gave Comet
  nonce,   \* nonce[u]   : transactions u's synthetic has executed
  active,  \* the connected wallet account (ref.current.publicKey)
  fl,      \* fl[f]      : the state of flow f
  ui,      \* the lane's React state that outlives a flow
  other    \* moves made by another tab so far

chainVars == <<wal, ata, syn, pos, allow, nonce>>
vars == <<wal, ata, syn, pos, allow, nonce, active, fl, ui, other>>

Asset == {"base", "coll"}
ActionType == {"supply", "repay", "withdraw", "borrow"}
Inflow == {"supply", "repay"}           \* actions that bring tokens to Comet
Leg == {"fund", "approve", "supply", "withdraw", "ata", "sweep"}

(* Where a flow is: reading its preconditions, between legs, at a popup,   *)
(* sent and not landed, landed and not confirmed, or ended - "adrift" when *)
(* it failed over a transaction that is still pending.                     *)
Phase == {"idle", "read", "readBase", "build", "ready", "popup", "sent",
          "landed", "done", "failed", "adrift"}
InFlight(f) == fl[f].pc \notin {"idle", "done", "failed", "adrift"}
Idle == \A f \in Flows : ~InFlight(f)

FlowState == [pc: Phase, act: ActionType, asset: Asset, amt: Nat,
              who: Users \cup {NoUser},    \* identity when the flow started
              extra: BOOLEAN,              \* needsApprove or needsWalletAta
              drained: Nat,                \* baseSupply read by doBorrow
              since: Nat,                  \* history: who's nonce at that read
              leg: Leg,                    \* the current leg
              by: Users \cup {NoUser},     \* identity that signs the leg
              nonce: Nat,                  \* the nonce it signs, of by's synthetic
              dest: Users \cup {NoUser},   \* owner of the sweep's target account
              landed: SUBSET Leg]          \* history: legs that took effect

Label == Leg \cup {"confirm"}

(* Mutant: the row for creating the wallet token account is forgotten.      *)
SignSteps_NoAtaRow(act, extra) ==
  CASE act \in Inflow /\ extra      -> <<"fund", "approve", "supply", "confirm">>
    [] act \in Inflow /\ ~extra     -> <<"fund", "supply", "confirm">>
    [] OTHER                        -> <<"withdraw", "sweep", "confirm">>

(* signSteps: the popup rows shown for an action, then the waiting row.    *)
SignSteps(act, extra) ==
  CASE act \in Inflow /\ extra      -> <<"fund", "approve", "supply", "confirm">>
    [] act \in Inflow /\ ~extra     -> <<"fund", "supply", "confirm">>
    [] act \notin Inflow /\ extra   -> <<"withdraw", "ata", "sweep", "confirm">>
    [] OTHER                        -> <<"withdraw", "sweep", "confirm">>

ChainType ==
  /\ wal \in [Users -> [Asset -> Int]]
  /\ ata \in [Users -> [Asset -> BOOLEAN]]
  /\ syn \in [Users -> [Asset -> Int]]
  /\ pos \in [Users -> [Asset -> Int]]
  /\ allow \in [Users -> [Asset -> Int]]
  /\ nonce \in [Users -> Nat]
FlowType == fl \in [Flows -> FlowState]
UiType == ui \in [signing: BOOLEAN, step: Nat, plan: Seq(Label),
                  error: BOOLEAN, result: Flows \cup {NoFlow}]
TypeOK == ChainType /\ FlowType /\ UiType /\ active \in Users \cup {NoUser} /\ other \in Nat

Debt(u) == IF pos[u]["base"] < 0 THEN -pos[u]["base"] ELSE 0
BaseSupply(u) == IF pos[u]["base"] > 0 THEN pos[u]["base"] ELSE 0

FreshFlow == [pc |-> "idle", act |-> "supply", asset |-> "base", amt |-> 0,
              who |-> NoUser, extra |-> FALSE, drained |-> 0, since |-> 0, leg |-> "fund",
              by |-> NoUser, nonce |-> 0, dest |-> NoUser, landed |-> {}]

Init ==
  /\ ata \in [Users -> [Asset -> BOOLEAN]]
  /\ wal \in [Users -> [Asset -> InitWallet \cup {0}]]
  /\ \A u \in Users, a \in Asset : ~ata[u][a] => wal[u][a] = 0
  /\ syn = [u \in Users |-> [a \in Asset |-> 0]]
  /\ \E b \in [Users -> InitBase], c \in [Users -> InitColl] :
       /\ \A u \in Users : -b[u] <= CollateralFactor * c[u]
       /\ pos = [u \in Users |-> [a \in Asset |-> IF a = "base" THEN b[u] ELSE c[u]]]
  /\ allow = [u \in Users |-> [a \in Asset |-> 0]]
  /\ nonce = [u \in Users |-> 0]
  /\ active = NoUser
  /\ fl = [f \in Flows |-> FreshFlow]
  /\ ui = [signing |-> FALSE, step |-> 0, plan |-> <<>>, error |-> FALSE, result |-> NoFlow]
  /\ other = 0

(* Flow f's record becomes r.                                              *)
Become(f, r) == fl' = [fl EXCEPT ![f] = r]

-----------------------------------------------------------------------------
(* Starting a flow.                                                        *)

(* Mutant: the panel stays on screen while signing.                        *)
PanelShown_Always == active # NoUser

(* The action panel is on screen unless LaneApp shows the signing screen;  *)
(* an error takes precedence over signing.                                 *)
PanelShown == active # NoUser /\ (ui.error \/ ~ui.signing)

(* What the panel lets the user ask for, from a fresh snapshot: laneActions *)
(* bounds every amount by the balances it would move.                      *)
Offered(u, act, a, amt) ==
  CASE act = "supply"   -> amt <= wal[u][a]
    [] act = "repay"    -> a = "base" /\ amt <= wal[u][a] /\ amt <= Debt(u)
    [] act = "withdraw" -> amt <= pos[u][a]
    [] act = "borrow"   -> a = "base" /\ amt + Debt(u) <= CollateralFactor * pos[u]["coll"]

(* submitAction + the synchronous part of runAction.                       *)
Submit(f, act, a, amt) ==
  /\ PanelShown
  /\ fl[f].pc = "idle"
  /\ Offered(active, act, a, amt)
  /\ Become(f, [FreshFlow EXCEPT !.pc = "read", !.act = act, !.asset = a,
                                 !.amt = amt, !.who = active])
  /\ ui' = [signing |-> TRUE, step |-> 0, plan |-> <<>>, error |-> FALSE, result |-> NoFlow]
  /\ UNCHANGED <<chainVars, active, other>>

(* runAction refuses the input before it starts: no signer or wallet client  *)
(* yet, or an amount that does not parse or is not positive.               *)
Refuse ==
  /\ PanelShown
  /\ ui' = [ui EXCEPT !.error = TRUE, !.result = NoFlow]
  /\ UNCHANGED <<chainVars, active, fl, other>>

(* The up-front read of doSupply/doRepay (allowance) and of doWithdraw/    *)
(* doBorrow (walletAtaMissing), for the identity the flow started with;    *)
(* it fixes the popup plan.                                                *)
ReadPreconditions(f) ==
  /\ fl[f].pc = "read"
  /\ LET r == fl[f]
         needs == \/ r.act \in Inflow /\ allow[r.who][r.asset] < r.amt
                  \/ r.act \notin Inflow /\ ~ata[r.who][r.asset]
     IN /\ Become(f, [r EXCEPT !.pc = IF r.act = "borrow" THEN "readBase" ELSE "ready",
                               !.extra = needs,
                               !.leg = IF r.act \in Inflow THEN "fund" ELSE "withdraw"])
        /\ ui' = [ui EXCEPT !.plan = SignSteps(r.act, needs)]
  /\ UNCHANGED <<chainVars, active, other>>

(* Mutant: doBorrow does not drain base supply first (the EVM lane's form).  *)
ReadBaseSupply_None(f) ==
  /\ fl[f].pc = "readBase"
  /\ Become(f, [fl[f] EXCEPT !.pc = "ready", !.since = nonce[fl[f].who]])
  /\ UNCHANGED <<chainVars, active, ui, other>>

(* Mutant: the signed principal is read instead of balanceOf.               *)
ReadBaseSupply_Signed(f) ==
  /\ fl[f].pc = "readBase"
  /\ Become(f, [fl[f] EXCEPT !.pc = "ready", !.drained = pos[fl[f].who]["base"],
                             !.since = nonce[fl[f].who]])
  /\ UNCHANGED <<chainVars, active, ui, other>>

(* doBorrow reads how much base supply its withdraw has to drain first.    *)
ReadBaseSupply(f) ==
  /\ fl[f].pc = "readBase"
  /\ Become(f, [fl[f] EXCEPT !.pc = "ready", !.drained = BaseSupply(fl[f].who),
                             !.since = nonce[fl[f].who]])
  /\ UNCHANGED <<chainVars, active, ui, other>>

-----------------------------------------------------------------------------
(* One leg: popup, signature, landing, confirmation.                       *)

(* sweepSyntheticToWallet captures the connected wallet as the destination, *)
(* then awaits before it submits.                                          *)
BuildSweep(f) ==
  /\ fl[f].pc = "build"
  /\ active # NoUser
  /\ Become(f, [fl[f] EXCEPT !.pc = "ready", !.dest = active])
  /\ UNCHANGED <<chainVars, active, ui, other>>

FirstLeg(r) == r.leg \in {"fund", "withdraw"}

(* The legs that are DoTxUnsigned transactions carry the nonce of the signer's *)
(* synthetic; fund and ata are native transactions of the wallet.          *)
Nonced(r) == r.leg \notin {"fund", "ata"}

(* A leg re-reads the connected identity, except the wallet-ATA transaction, *)
(* which uses the one the sweep captured; onSign/next() moves the progress  *)
(* row to the popup's place in the plan.  The nonce is read from the chain  *)
(* after that and before the popup opens (getTransactionCount).            *)
Prompt(f) ==
  /\ fl[f].pc = "ready"
  /\ active # NoUser
  /\ Become(f, [fl[f] EXCEPT !.pc = "popup",
                             !.by = IF fl[f].leg = "ata" THEN fl[f].dest ELSE active,
                             !.nonce = IF Nonced(fl[f]) THEN nonce[active] ELSE 0])
  /\ ui' = [ui EXCEPT !.step = CASE FirstLeg(fl[f]) -> 0
                                 [] fl[f].leg \in {"approve", "ata"} -> 1
                                 [] OTHER -> IF fl[f].extra THEN 2 ELSE 1]
  /\ UNCHANGED <<chainVars, active, other>>

Sign(f) ==
  /\ fl[f].pc = "popup"
  /\ Become(f, [fl[f] EXCEPT !.pc = "sent"])
  /\ UNCHANGED <<chainVars, active, ui, other>>

(* The transaction executes, once: at its nonce, if it carries one.  A flow *)
(* that has already given up on it learns nothing.                         *)
Landed(f) ==
  LET r == fl[f] IN
  /\ Nonced(r) => r.nonce = nonce[r.by]
  /\ nonce' = IF Nonced(r) THEN [nonce EXCEPT ![r.by] = @ + 1] ELSE nonce
  /\ Become(f, [r EXCEPT !.pc = IF r.pc = "sent" THEN "landed" ELSE "failed",
                         !.landed = r.landed \cup {r.leg}])

(* The on-chain effect of each leg, for the identity that signed it.       *)

(* Mutant: the fund leg mixes the flow's first wallet with the current      *)
(* synthetic.                                                              *)
LandFund_FirstWallet(f) ==
  LET r == fl[f] IN
  /\ r.leg = "fund" /\ wal[r.who][r.asset] >= r.amt
  /\ wal' = [wal EXCEPT ![r.who][r.asset] = @ - r.amt]
  /\ syn' = [syn EXCEPT ![r.by][r.asset] = @ + r.amt]
  /\ UNCHANGED <<ata, pos, allow>>

LandFund(f) ==
  LET r == fl[f] IN
  /\ r.leg = "fund" /\ wal[r.by][r.asset] >= r.amt
  /\ wal' = [wal EXCEPT ![r.by][r.asset] = @ - r.amt]
  /\ syn' = [syn EXCEPT ![r.by][r.asset] = @ + r.amt]
  /\ UNCHANGED <<ata, pos, allow>>

(* Mutant: the approve leaves head-room over the action's amount.           *)
ApproveAmount_Padded(r) == r.amt + 1

(* encodeApprove(comet, amount): the action's own amount, no more.         *)
ApproveAmount(r) == r.amt

LandApprove(f) ==
  LET r == fl[f] IN
  /\ r.leg = "approve"
  /\ allow' = [allow EXCEPT ![r.by][r.asset] = ApproveAmount(r)]
  /\ UNCHANGED <<wal, ata, syn, pos>>

LandSupply(f) ==
  LET r == fl[f] IN
  /\ r.leg = "supply"
  /\ syn[r.by][r.asset] >= r.amt /\ allow[r.by][r.asset] >= r.amt
  /\ syn' = [syn EXCEPT ![r.by][r.asset] = @ - r.amt]
  /\ pos' = [pos EXCEPT ![r.by][r.asset] = @ + r.amt]
  /\ allow' = [allow EXCEPT ![r.by][r.asset] = @ - r.amt]
  /\ UNCHANGED <<wal, ata>>

WithdrawAmount(r) == r.drained + r.amt

LandWithdraw(f) ==
  LET r == fl[f]
      after == [pos[r.by] EXCEPT ![r.asset] = @ - WithdrawAmount(r)]
  IN
  /\ r.leg = "withdraw"
  /\ after["coll"] >= 0 /\ -after["base"] <= CollateralFactor * after["coll"]
  /\ pos' = [pos EXCEPT ![r.by] = after]
  /\ syn' = [syn EXCEPT ![r.by][r.asset] = @ + WithdrawAmount(r)]
  /\ UNCHANGED <<wal, ata, allow>>

LandAta(f) ==
  LET r == fl[f] IN
  /\ r.leg = "ata"
  /\ ata' = [ata EXCEPT ![r.by][r.asset] = TRUE]
  /\ UNCHANGED <<wal, syn, pos, allow>>

LandSweep(f) ==
  LET r == fl[f] IN
  /\ r.leg = "sweep"
  /\ syn[r.by][r.asset] >= r.amt /\ ata[r.dest][r.asset]
  /\ syn' = [syn EXCEPT ![r.by][r.asset] = @ - r.amt]
  /\ wal' = [wal EXCEPT ![r.dest][r.asset] = @ + r.amt]
  /\ UNCHANGED <<ata, pos, allow>>

Land(f) ==
  /\ fl[f].pc \in {"sent", "adrift"}
  /\ \/ LandFund(f) \/ LandApprove(f) \/ LandSupply(f)
     \/ LandWithdraw(f) \/ LandAta(f) \/ LandSweep(f)
  /\ Landed(f)
  /\ UNCHANGED <<active, ui, other>>

LastLeg(r) == r.leg \in {"supply", "sweep"}

(* Mutant: the fund leg runs again after the approve.                       *)
Advance_FundsAgain(f) ==
  /\ fl[f].pc = "landed" /\ ~LastLeg(fl[f])
  /\ LET r == fl[f] IN
     Become(f, [r EXCEPT
       !.pc = IF r.leg = "withdraw" THEN "build" ELSE "ready",
       !.leg = CASE r.leg = "fund"     -> IF r.extra THEN "approve" ELSE "supply"
                 [] r.leg = "approve"  -> "fund"
                 [] r.leg = "withdraw" -> IF r.extra THEN "ata" ELSE "sweep"
                 [] OTHER              -> "sweep"])
  /\ UNCHANGED <<chainVars, active, ui, other>>

(* A confirmed leg that is not the last one.  The sweep is built only after *)
(* the withdraw is confirmed.                                              *)
Advance(f) ==
  /\ fl[f].pc = "landed" /\ ~LastLeg(fl[f])
  /\ LET r == fl[f] IN
     Become(f, [r EXCEPT
       !.pc = IF r.leg = "withdraw" THEN "build" ELSE "ready",
       !.leg = CASE r.leg = "fund"     -> IF r.extra THEN "approve" ELSE "supply"
                 [] r.leg = "approve"  -> "supply"
                 [] r.leg = "withdraw" -> IF r.extra THEN "ata" ELSE "sweep"
                 [] OTHER              -> "sweep"])
  /\ UNCHANGED <<chainVars, active, ui, other>>

(* Mutant: a transaction that was only sent counts as confirmed.            *)
Succeed_Unconfirmed(f) ==
  /\ fl[f].pc \in {"sent", "landed"} /\ LastLeg(fl[f])
  /\ Become(f, [fl[f] EXCEPT !.pc = "done"])
  /\ ui' = [ui EXCEPT !.signing = FALSE, !.step = 0, !.result = f]
  /\ UNCHANGED <<chainVars, active, other>>

(* The last leg is confirmed: setSignStep(step), recordSuccess, and         *)
(* runAction's success path (the plan is left as it is).                   *)
Succeed(f) ==
  /\ fl[f].pc = "landed" /\ LastLeg(fl[f])
  /\ Become(f, [fl[f] EXCEPT !.pc = "done"])
  /\ ui' = [ui EXCEPT !.signing = FALSE, !.step = 0, !.result = f]
  /\ UNCHANGED <<chainVars, active, other>>

(* Mutant: a missing wallet is waited for instead of thrown.                *)
Fail_WaitsForWallet(f) ==
  /\ InFlight(f) /\ active # NoUser
  /\ Become(f, [fl[f] EXCEPT !.pc = IF fl[f].pc = "sent" THEN "adrift" ELSE "failed"])
  /\ ui' = [ui EXCEPT !.signing = FALSE, !.step = 0, !.error = TRUE]
  /\ UNCHANGED <<chainVars, active, other>>

(* Anything that throws ends the flow in runAction's catch: a rejected      *)
(* popup, a missing wallet, a failed read, a revert, a lost nonce race, an  *)
(* expired blockhash - and a landed leg whose confirmation was not seen.    *)
(* A send whose answer was lost, or a poll that threw, leaves the sent      *)
(* transaction pending.                                                    *)
Fail(f) ==
  /\ InFlight(f)
  /\ Become(f, [fl[f] EXCEPT !.pc = IF fl[f].pc = "sent" THEN "adrift" ELSE "failed"])
  /\ ui' = [ui EXCEPT !.signing = FALSE, !.step = 0, !.error = TRUE]
  /\ UNCHANGED <<chainVars, active, other>>

(* A transaction nobody waits for is dropped: its nonce was used, it would  *)
(* revert, or its blockhash expired.                                       *)
Expire(f) ==
  /\ fl[f].pc = "adrift"
  /\ Become(f, [fl[f] EXCEPT !.pc = "failed"])
  /\ UNCHANGED <<chainVars, active, ui, other>>

-----------------------------------------------------------------------------
(* The user and the other tab.                                             *)

ClearError ==
  /\ ui.error \/ ui.result # NoFlow
  /\ ui' = [ui EXCEPT !.error = FALSE, !.result = NoFlow]
  /\ UNCHANGED <<chainVars, active, fl, other>>

(* Connecting, or picking another account in the wallet: the adapter's new  *)
(* publicKey reaches the lane by a render, and no lane state is reset.      *)
Connect(u) ==
  /\ active # u
  /\ active' = u
  /\ UNCHANGED <<chainVars, fl, ui, other>>

Disconnect ==
  /\ active # NoUser
  /\ active' = NoUser
  /\ ui' = [ui EXCEPT !.signing = FALSE, !.step = 0, !.error = FALSE, !.result = NoFlow]
  /\ UNCHANGED <<chainVars, fl, other>>

(* The same account used from another tab: a whole supply of base (with its *)
(* exact approve when needed), or a whole withdrawal of base supply.  The   *)
(* nonce moves on; by how much is of no matter.                            *)
OtherTabSupplies(u, d) ==
  /\ other < OtherTabBudget
  /\ wal[u]["base"] >= d
  /\ wal' = [wal EXCEPT ![u]["base"] = @ - d]
  /\ pos' = [pos EXCEPT ![u]["base"] = @ + d]
  /\ allow' = [allow EXCEPT ![u]["base"] = IF @ < d THEN 0 ELSE @ - d]
  /\ nonce' = [nonce EXCEPT ![u] = @ + 1]
  /\ other' = other + 1
  /\ UNCHANGED <<ata, syn, active, fl, ui>>

OtherTabWithdraws(u, d) ==
  /\ other < OtherTabBudget
  /\ pos[u]["base"] >= d
  /\ wal' = [wal EXCEPT ![u]["base"] = @ + d]
  /\ ata' = [ata EXCEPT ![u]["base"] = TRUE]
  /\ pos' = [pos EXCEPT ![u]["base"] = @ - d]
  /\ nonce' = [nonce EXCEPT ![u] = @ + 1]
  /\ other' = other + 1
  /\ UNCHANGED <<syn, allow, active, fl, ui>>

-----------------------------------------------------------------------------
FlowStep(f) ==
  \/ ReadPreconditions(f) \/ ReadBaseSupply(f) \/ BuildSweep(f) \/ Prompt(f)
  \/ Sign(f) \/ Land(f) \/ Advance(f) \/ Succeed(f) \/ Fail(f)
  \/ Expire(f)

LaneStep ==
  \/ \E f \in Flows, act \in ActionType, a \in Asset, amt \in Amounts : Submit(f, act, a, amt)
  \/ \E f \in Flows : FlowStep(f)
  \/ ClearError \/ Refuse
  \/ \E u \in Users, d \in Amounts : OtherTabSupplies(u, d) \/ OtherTabWithdraws(u, d)

IdentityStep == (\E u \in Users : Connect(u)) \/ Disconnect

Next == LaneStep \/ IdentityStep

(* The wallet changes only between flows: the user the comments of the lane *)
(* have in mind.                                                           *)
SteadyNext == LaneStep \/ (Idle /\ IdentityStep)

Spec == Init /\ [][Next]_vars
SteadySpec == Init /\ [][SteadyNext]_vars

(* Every await but a wallet popup settles: a read returns or throws, a sent  *)
(* transaction lands or its blockhash expires, pollConfirmation returns or   *)
(* throws.  Fail is always among the enabled outcomes, so this promises an   *)
(* end to each wait, never a success.  Popups wait for the user: no fairness.*)
SystemStep(f) == fl[f].pc # "popup" /\ FlowStep(f)
FairSpec == Spec /\ \A f \in Flows : WF_vars(SystemStep(f))

-----------------------------------------------------------------------------
(* Properties.                                                             *)

(* What u owns of token a, wherever it is.                                 *)
Worth(u, a) == wal[u][a] + syn[u][a] + pos[u][a]

(* With arbitrary wallet switches, the only step that moves value between   *)
(* users is a sweep whose destination was captured for one identity and     *)
(* which was signed by another (sweepSyntheticToWallet vs submitOverAlt).   *)
Lands(f) == fl[f].pc \in {"sent", "adrift"} /\ fl[f].leg \in fl'[f].landed
CrossedSweep(f) == fl[f].leg = "sweep" /\ fl[f].by # fl[f].dest /\ Lands(f)
WorthMovesOnlyByCrossedSweep ==
  [][(\A f \in Flows : ~CrossedSweep(f)) =>
       \A u \in Users, a \in Asset : Worth(u, a)' = Worth(u, a)]_vars

(* The popup the user is looking at is the highlighted row of the plan      *)
(* computed before the first popup (ProgressCard: "the steps below show     *)
(* exactly how many").                                                      *)
PlanMatchesPopup ==
  \A f \in Flows : fl[f].pc \in {"popup", "sent", "landed"} =>
    /\ ui.step + 1 \in DOMAIN ui.plan
    /\ ui.plan[ui.step + 1] = fl[f].leg

(* A flow that reports success had every leg of its plan land: runAction    *)
(* records success only after each submit helper saw its confirmation.      *)
PlanLegs(r) == {SignSteps(r.act, r.extra)[i] : i \in DOMAIN SignSteps(r.act, r.extra)} \ {"confirm"}
SuccessIsWholePlan ==
  \A f \in Flows : fl[f].pc = "done" => fl[f].landed = PlanLegs(fl[f])

(* The signing screen hides the action panel, so one tab never runs two     *)
(* flows at once (submitAction itself has no re-entrancy guard).            *)
OneFlowAtATime == \A f, g \in Flows : InFlight(f) /\ InFlight(g) => f = g

(* An allowance is outstanding only for an action whose approve landed and  *)
(* whose supply or repay has not (it failed between the two, or is about to *)
(* use it), and it is never more than that action's amount, whatever landed *)
(* late and whatever was retried over an old allowance (doSupply, doRepay:  *)
(* approve only if allowance < amount).                                    *)
AllowanceExplained ==
  \A u \in Users, a \in Asset : allow[u][a] > 0 =>
    \E f \in Flows :
      /\ fl[f].who = u /\ fl[f].asset = a
      /\ "approve" \in fl[f].landed /\ "supply" \notin fl[f].landed
      /\ allow[u][a] <= fl[f].amt

(* A borrow that lands opens exactly the debt the user asked for, from any  *)
(* position, after any failed or stranded action, and even when it lands    *)
(* after its flow gave up - unless another transaction of the account has   *)
(* executed since doBorrow read the base supply it drains ("drain supply    *)
(* first, then open debt"): another tab's, or an earlier action's that was  *)
(* adrift.                                                                 *)
BorrowLands(f) == fl[f].act = "borrow" /\ fl[f].leg = "withdraw" /\ Lands(f)
BorrowOpensAmount ==
  [][\A f \in Flows : BorrowLands(f) /\ nonce[fl[f].by] = fl[f].since =>
       Debt(fl[f].by)' = Debt(fl[f].by) + fl[f].amt]_vars

(* The lane waits only for its user: a flow in flight reaches a popup or    *)
(* its end (awaits of runAction, pollConfirmation's expiry).                *)
WaitsOnlyForUser ==
  \A f \in Flows : InFlight(f) ~> (fl[f].pc \in {"popup", "done", "failed", "adrift"})

(* sweepSyntheticToWallet: tokens go "back to the user's own wallet ATA".   *)
SweepReturnsToOwner ==
  [][\A f \in Flows : ~CrossedSweep(f)]_vars

(* The lane as the abstract contract sees it: an action took effect when    *)
(* the last leg of its plan landed, whoever is connected by then and        *)
(* whatever the flow had reported.                                         *)
ContractPhase(pc) == CASE pc \in {"failed", "adrift"} -> "failed"
                       [] pc = "idle" -> "idle"
                       [] pc = "done" -> "succeeded"
                       [] OTHER       -> "working"
Contract == INSTANCE ActionContract WITH
  Actions <- Flows,
  phase <- [f \in Flows |-> ContractPhase(fl[f].pc)],
  effect <- [f \in Flows |->
               (IF fl[f].act \in Inflow THEN "supply" ELSE "sweep") \in fl[f].landed]

(* The lane keeps the contract of types.ts under any interleaving of two    *)
(* flows, wallet switches, disconnects and failures (LaneAdapter).          *)
ContractSpec == Contract!Spec
=============================================================================
