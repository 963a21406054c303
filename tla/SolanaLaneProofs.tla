--------------------------- MODULE SolanaLaneProofs ---------------------------
(***************************************************************************)
(* Proofs about SolanaLane, for any set of users, flows and amounts.  The   *)
(* sum over the flows that MCSolanaLane states needs finitely many flows.  *)
(***************************************************************************)
EXTENDS MCSolanaLane, SumLemmas

(* The identities a flow has captured by the time it uses them.            *)
IdentityOK ==
  \A f \in Flows :
    /\ fl[f].pc # "idle" => fl[f].who \in Users
    /\ fl[f].pc = "readBase" => fl[f].leg = "withdraw"
    /\ fl[f].pc \in {"popup", "sent", "landed", "adrift"} => fl[f].by \in Users
    /\ /\ fl[f].pc \in {"ready", "popup", "sent", "landed", "adrift"}
       /\ fl[f].leg \in {"ata", "sweep"}
       => fl[f].dest \in Users

IInv == TypeOK /\ IdentityOK

-----------------------------------------------------------------------------
(* What one step does to the parts of the type invariant.                  *)

LEMMA BecomeType ==
  ASSUME FlowType, NEW f \in Flows, NEW r \in FlowState, Become(f, r)
  PROVE  FlowType'
BY DEF FlowType, Become

(* A flow's record stays a flow record whichever step it takes.            *)
LEMMA FlowTypeStep ==
  ASSUME IInv, NEW f \in Flows, FlowStep(f)
  PROVE  FlowType'
<1> DEFINE r == fl[f]
<1>0. r \in FlowState /\ FlowType /\ active \in Users \cup {NoUser}
  BY DEF IInv, TypeOK, FlowType
<1>f. r.dest \in Users \cup {NoUser} /\ r.landed \cup {r.leg} \in SUBSET Leg
  BY <1>0 DEF FlowState
<1>s. \A p \in Phase : [r EXCEPT !.pc = p] \in FlowState
  BY <1>0 DEF FlowState
<1> HIDE DEF r
<1>1. CASE ReadPreconditions(f)
  <2> DEFINE p == IF r.act = "borrow" THEN "readBase" ELSE "ready"
             l == IF r.act \in Inflow THEN "fund" ELSE "withdraw"
             e == \/ r.act \in Inflow /\ allow[r.who][r.asset] < r.amt
                  \/ r.act \notin Inflow /\ ~ata[r.who][r.asset]
  <2>1. p \in Phase /\ l \in Leg
    BY DEF Phase, Leg
  <2>2. e \in BOOLEAN
    BY Zenon
  <2>3. Become(f, [r EXCEPT !.pc = p, !.extra = e, !.leg = l])
    BY <1>1 DEF ReadPreconditions, r
  <2> HIDE DEF p, l, e
  <2>4. [r EXCEPT !.pc = p, !.extra = e, !.leg = l] \in FlowState
    BY <1>0, <2>1, <2>2 DEF FlowState
  <2>5. QED BY <2>3, <2>4, <1>0, BecomeType
<1>2. CASE ReadBaseSupply(f)
  <2> DEFINE d == BaseSupply(r.who)
  <2>1. d \in Nat /\ nonce[r.who] \in Nat
    <3>1. r.who \in Users
      BY <1>2 DEF ReadBaseSupply, IInv, IdentityOK, r
    <3>2. QED BY <3>1 DEF BaseSupply, IInv, TypeOK, ChainType, Asset
  <2>2. Become(f, [r EXCEPT !.pc = "ready", !.drained = d, !.since = nonce[r.who]])
    BY <1>2 DEF ReadBaseSupply, r
  <2> HIDE DEF d
  <2>3. [r EXCEPT !.pc = "ready", !.drained = d, !.since = nonce[r.who]] \in FlowState
    BY <1>0, <2>1 DEF FlowState, Phase
  <2>4. QED BY <2>2, <2>3, <1>0, BecomeType
<1>3. CASE BuildSweep(f)
  <2>1. [r EXCEPT !.pc = "ready", !.dest = active] \in FlowState
    BY <1>0 DEF FlowState, Phase
  <2>2. QED BY <1>3, <2>1, <1>0, BecomeType DEF BuildSweep, r
<1>4. CASE Prompt(f)
  <2> DEFINE b == IF r.leg = "ata" THEN r.dest ELSE active
             n == IF Nonced(r) THEN nonce[active] ELSE 0
  <2>1. b \in Users \cup {NoUser}
    BY <1>0, <1>f
  <2>n. n \in Nat
    <3>1. active \in Users
      BY <1>0, <1>4 DEF Prompt
    <3>2. QED BY <3>1 DEF IInv, TypeOK, ChainType
  <2>2. Become(f, [r EXCEPT !.pc = "popup", !.by = b, !.nonce = n])
    BY <1>4 DEF Prompt, r
  <2> HIDE DEF b, n
  <2>3. [r EXCEPT !.pc = "popup", !.by = b, !.nonce = n] \in FlowState
    BY <1>0, <2>1, <2>n DEF FlowState, Phase
  <2>4. QED BY <2>2, <2>3, <1>0, BecomeType
<1>5. CASE Sign(f)
  BY <1>5, <1>s, <1>0, BecomeType DEF Sign, Phase, r
<1>6. CASE Land(f)
  <2> DEFINE p == IF r.pc = "sent" THEN "landed" ELSE "failed"
  <2>1. p \in Phase
    BY DEF Phase
  <2>2. Become(f, [r EXCEPT !.pc = p, !.landed = r.landed \cup {r.leg}])
    BY <1>6 DEF Land, Landed, r
  <2> HIDE DEF p
  <2>3. [r EXCEPT !.pc = p, !.landed = r.landed \cup {r.leg}] \in FlowState
    BY <1>0, <1>f, <2>1 DEF FlowState
  <2>4. QED BY <2>2, <2>3, <1>0, BecomeType
<1>7. CASE Advance(f)
  <2> DEFINE p == IF r.leg = "withdraw" THEN "build" ELSE "ready"
             l == CASE r.leg = "fund"     -> IF r.extra THEN "approve" ELSE "supply"
                    [] r.leg = "approve"  -> "supply"
                    [] r.leg = "withdraw" -> IF r.extra THEN "ata" ELSE "sweep"
                    [] OTHER              -> "sweep"
  <2>1. p \in Phase /\ l \in Leg
    BY DEF Phase, Leg
  <2>2. Become(f, [r EXCEPT !.pc = p, !.leg = l])
    BY <1>7 DEF Advance, r
  <2> HIDE DEF p, l
  <2>3. [r EXCEPT !.pc = p, !.leg = l] \in FlowState
    BY <1>0, <2>1 DEF FlowState
  <2>4. QED BY <2>2, <2>3, <1>0, BecomeType
<1>8. CASE Succeed(f)
  BY <1>8, <1>s, <1>0, BecomeType DEF Succeed, Phase, r
<1>9. CASE Fail(f)
  <2> DEFINE p == IF r.pc = "sent" THEN "adrift" ELSE "failed"
  <2>1. p \in Phase
    BY DEF Phase
  <2>2. Become(f, [r EXCEPT !.pc = p])
    BY <1>9 DEF Fail, r
  <2> HIDE DEF p
  <2>3. QED BY <2>1, <2>2, <1>s, <1>0, BecomeType
<1>11. CASE Expire(f)
  BY <1>11, <1>s, <1>0, BecomeType DEF Expire, Phase, r
<1>10. QED
  BY <1>1, <1>2, <1>3, <1>4, <1>5, <1>6, <1>7, <1>8, <1>9, <1>11 DEF FlowStep

LEMMA FlowTypeSubmit ==
  ASSUME TypeOK, NEW f \in Flows, NEW act \in ActionType, NEW a \in Asset, NEW amt \in Amounts,
         Submit(f, act, a, amt)
  PROVE  FlowType'
<1>1. [FreshFlow EXCEPT !.pc = "read", !.act = act, !.asset = a, !.amt = amt, !.who = active] \in FlowState
  BY AmountAssumption DEF TypeOK, FreshFlow, FlowState, Phase, Leg, ActionType, Asset
<1>2. QED
  BY <1>1, BecomeType DEF Submit, TypeOK

(* Balances stay functions of users and assets.                            *)
LEMMA ChainTypeLand ==
  ASSUME IInv, NEW f \in Flows, Land(f)
  PROVE  ChainType'
<1>1. /\ fl[f].asset \in Asset /\ fl[f].amt \in Int /\ WithdrawAmount(fl[f]) \in Int
      /\ fl[f].by \in Users
      /\ fl[f].leg = "sweep" => fl[f].dest \in Users
  BY DEF IInv, TypeOK, FlowType, FlowState, IdentityOK, WithdrawAmount, Land
<1>n. nonce' \in [Users -> Nat]
  BY <1>1 DEF Land, Landed, IInv, TypeOK, ChainType
<1> USE <1>n DEF IInv, TypeOK, ChainType
<1>2. CASE LandFund(f)
  BY <1>1, <1>2 DEF LandFund
<1>3. CASE LandApprove(f)
  BY <1>1, <1>3 DEF LandApprove, ApproveAmount
<1>4. CASE LandSupply(f)
  BY <1>1, <1>4 DEF LandSupply
<1>5. CASE LandWithdraw(f)
  <2>1. [pos[fl[f].by] EXCEPT ![fl[f].asset] = @ - WithdrawAmount(fl[f])] \in [Asset -> Int]
    BY <1>1
  <2>2. pos' \in [Users -> [Asset -> Int]]
    BY <1>1, <1>5, <2>1 DEF LandWithdraw
  <2>3. syn' \in [Users -> [Asset -> Int]]
    BY <1>1, <1>5 DEF LandWithdraw
  <2>4. QED BY <2>2, <2>3, <1>5 DEF LandWithdraw
<1>6. CASE LandAta(f)
  BY <1>1, <1>6 DEF LandAta
<1>7. CASE LandSweep(f)
  BY <1>1, <1>7 DEF LandSweep
<1>8. QED
  BY <1>2, <1>3, <1>4, <1>5, <1>6, <1>7 DEF Land

LEMMA ChainTypeOtherTab ==
  ASSUME TypeOK, NEW u \in Users, NEW d \in Amounts, OtherTabSupplies(u, d) \/ OtherTabWithdraws(u, d)
  PROVE  ChainType' /\ other' \in Nat
<1> USE AmountAssumption DEF TypeOK, ChainType, Asset
<1>1. CASE OtherTabSupplies(u, d)
  <2>1. allow' \in [Users -> [Asset -> Int]] /\ nonce' \in [Users -> Nat]
    BY <1>1 DEF OtherTabSupplies
  <2>2. QED BY <1>1, <2>1 DEF OtherTabSupplies
<1>2. CASE OtherTabWithdraws(u, d)
  BY <1>2 DEF OtherTabWithdraws
<1>3. QED BY <1>1, <1>2

LEMMA SignStepsType == \A act, extra : SignSteps(act, extra) \in Seq(Label)
<1>1. /\ "fund" \in Label /\ "approve" \in Label /\ "supply" \in Label /\ "confirm" \in Label
      /\ "withdraw" \in Label /\ "ata" \in Label /\ "sweep" \in Label
  BY DEF Label, Leg
<1>2. QED
  BY <1>1 DEF SignSteps

LEMMA UiTypeStep ==
  ASSUME UiType, NEW f \in Flows, FlowStep(f)
  PROVE  UiType'
<1> USE DEF UiType
<1>1. CASE ReadPreconditions(f)
  <2>1. PICK p \in Seq(Label) : ui' = [ui EXCEPT !.plan = p]
    BY <1>1, SignStepsType DEF ReadPreconditions
  <2>2. QED BY <2>1
<1>2. CASE Prompt(f)
  <2> DEFINE n == CASE FirstLeg(fl[f]) -> 0
                    [] fl[f].leg \in {"approve", "ata"} -> 1
                    [] OTHER -> IF fl[f].extra THEN 2 ELSE 1
  <2>1. n \in Nat
    OBVIOUS
  <2>2. ui' = [ui EXCEPT !.step = n]
    BY <1>2 DEF Prompt
  <2> HIDE DEF n
  <2>3. PICK m \in Nat : ui' = [ui EXCEPT !.step = m]
    BY <2>1, <2>2
  <2>4. QED BY <2>3
<1>3. CASE Succeed(f)
  <2>1. ui' = [ui EXCEPT !.signing = FALSE, !.step = 0, !.result = f]
    BY <1>3 DEF Succeed
  <2>2. f \in Flows \cup {NoFlow}
    OBVIOUS
  <2>3. QED BY <2>1, <2>2
<1>6. CASE Fail(f)
  BY <1>6 DEF Fail
<1>4. CASE ReadBaseSupply(f) \/ BuildSweep(f) \/ Sign(f) \/ Land(f) \/ Advance(f) \/ Expire(f)
  BY <1>4 DEF ReadBaseSupply, BuildSweep, Sign, Land, Advance, Expire
<1>5. QED
  BY <1>1, <1>2, <1>3, <1>4, <1>6 DEF FlowStep

-----------------------------------------------------------------------------
(* Captured identities.                                                    *)

LEMMA IdentityStepOK ==
  ASSUME IInv, NEW f \in Flows, FlowStep(f)
  PROVE  IdentityOK'
<1> DEFINE r == fl[f]
<1>0. r \in FlowState /\ FlowType /\ active \in Users \cup {NoUser}
  BY DEF IInv, TypeOK, FlowType
<1> HIDE DEF r
<1>1. CASE ReadPreconditions(f)
  BY <1>1, <1>0 DEF ReadPreconditions, Inflow, IInv, IdentityOK, Become, FlowState, r
<1>2. CASE ReadBaseSupply(f)
  BY <1>2, <1>0 DEF ReadBaseSupply, IInv, IdentityOK, Become, FlowState, r
<1>3. CASE BuildSweep(f)
  BY <1>3, <1>0 DEF BuildSweep, IInv, IdentityOK, Become, FlowState, r, FlowType
<1>4. CASE Prompt(f)
  BY <1>4, <1>0 DEF Prompt, IInv, IdentityOK, Become, FlowState, r, FlowType
<1>5. CASE Sign(f)
  BY <1>5, <1>0 DEF Sign, IInv, IdentityOK, Become, FlowState, r, FlowType
<1>6. CASE Land(f)
  BY <1>6, <1>0 DEF Land, Landed, IInv, IdentityOK, Become, FlowState, r, FlowType
<1>7. CASE Advance(f)
  BY <1>7, <1>0 DEF Advance, LastLeg, Leg, IInv, IdentityOK, Become, FlowState, r, FlowType
<1>8. CASE Succeed(f)
  BY <1>8, <1>0 DEF Succeed, IInv, IdentityOK, Become, FlowState, r, FlowType
<1>9. CASE Fail(f)
  BY <1>9, <1>0 DEF Fail, IInv, IdentityOK, Become, FlowState, r, FlowType, InFlight
<1>11. CASE Expire(f)
  BY <1>11, <1>0 DEF Expire, IInv, IdentityOK, Become, FlowState, r, FlowType
<1>10. QED
  BY <1>1, <1>2, <1>3, <1>4, <1>5, <1>6, <1>7, <1>8, <1>9, <1>11 DEF FlowStep

LEMMA IInit == Init => IInv
<1> SUFFICES ASSUME Init PROVE IInv
  OBVIOUS
<1> USE DEF Init
<1>1. ChainType
  <2>0. InitBase \subseteq Int /\ InitColl \subseteq Int /\ InitWallet \cup {0} \subseteq Int
    BY AmountAssumption
  <2>1. pos \in [Users -> [Asset -> Int]]
    <3>1. PICK b \in [Users -> InitBase], c \in [Users -> InitColl] :
            pos = [u \in Users |-> [a \in Asset |-> IF a = "base" THEN b[u] ELSE c[u]]]
      BY Zenon
    <3>2. \A u \in Users : b[u] \in Int /\ c[u] \in Int
      BY <2>0
    <3>3. QED BY <3>1, <3>2
  <2>2. wal \in [Users -> [Asset -> Int]]
    <3>1. wal \in [Users -> [Asset -> InitWallet \cup {0}]]
      BY Zenon
    <3>2. QED BY <3>1, <2>0
  <2>3. nonce \in [Users -> Nat]
    OBVIOUS
  <2>4. QED BY <2>1, <2>2, <2>3 DEF ChainType
<1>2. FlowType
  BY DEF FlowType, FlowState, FreshFlow, Phase, ActionType, Asset, Leg
<1>3. UiType
  BY DEF UiType
<1>4. IdentityOK
  BY DEF IdentityOK, FreshFlow
<1>5. QED
  BY <1>1, <1>2, <1>3, <1>4 DEF IInv, TypeOK

LEMMA INext == IInv /\ [Next]_vars => IInv'
<1> SUFFICES ASSUME IInv, [Next]_vars PROVE IInv'
  OBVIOUS
<1> USE DEF chainVars
<1>1. ASSUME NEW f \in Flows, NEW act \in ActionType, NEW a \in Asset, NEW amt \in Amounts,
             Submit(f, act, a, amt)
      PROVE  IInv'
  <2>1. FlowType'
    BY <1>1, FlowTypeSubmit DEF IInv
  <2>2. IdentityOK'
    BY <1>1 DEF Submit, PanelShown, Become, FreshFlow, IInv, TypeOK, FlowType, IdentityOK
  <2>3. QED
    BY <1>1, <2>1, <2>2 DEF Submit, IInv, TypeOK, ChainType, UiType
<1>2. ASSUME NEW f \in Flows, FlowStep(f) PROVE IInv'
  <2>1. FlowType' /\ IdentityOK' /\ UiType'
    BY <1>2, FlowTypeStep, IdentityStepOK, UiTypeStep DEF IInv, TypeOK
  <2>2. ChainType'
    <3>1. CASE Land(f)
      BY <3>1, ChainTypeLand
    <3>2. CASE ~Land(f)
      BY <3>2, <1>2 DEF FlowStep, ReadPreconditions, ReadBaseSupply, BuildSweep, Prompt, Sign,
                        Advance, Succeed, Fail, Expire, IInv, TypeOK, ChainType
    <3>3. QED BY <3>1, <3>2
  <2>3. UNCHANGED <<active, other>>
    BY <1>2 DEF FlowStep, ReadPreconditions, ReadBaseSupply, BuildSweep, Prompt, Sign, Land,
                Advance, Succeed, Fail, Expire
  <2>4. QED
    BY <2>1, <2>2, <2>3 DEF IInv, TypeOK
<1>3. CASE ClearError
  BY <1>3 DEF ClearError, IInv, TypeOK, ChainType, FlowType, UiType, IdentityOK
<1>r. CASE Refuse
  BY <1>r DEF Refuse, IInv, TypeOK, ChainType, FlowType, UiType, IdentityOK
<1>4. ASSUME NEW u \in Users, NEW d \in Amounts, OtherTabSupplies(u, d) \/ OtherTabWithdraws(u, d)
      PROVE  IInv'
  <2>1. ChainType' /\ other' \in Nat
    BY <1>4, ChainTypeOtherTab DEF IInv
  <2>2. QED
    BY <1>4, <2>1 DEF OtherTabSupplies, OtherTabWithdraws, IInv, TypeOK, FlowType, UiType, IdentityOK
<1>5. ASSUME NEW u \in Users, Connect(u) PROVE IInv'
  BY <1>5 DEF Connect, IInv, TypeOK, ChainType, FlowType, UiType, IdentityOK
<1>6. CASE Disconnect
  BY <1>6 DEF Disconnect, IInv, TypeOK, ChainType, FlowType, UiType, IdentityOK
<1>7. CASE UNCHANGED vars
  BY <1>7 DEF vars, IInv, TypeOK, ChainType, FlowType, UiType, IdentityOK
<1>8. QED
  BY <1>1, <1>2, <1>3, <1>r, <1>4, <1>5, <1>6, <1>7 DEF Next, LaneStep, IdentityStep

(* The lane's variables keep their types, and a leg that is signed or lands *)
(* always has a connected user's identity, under any wallet changes.        *)
THEOREM TypeCorrect == Spec => []TypeOK
<1>1. IInv => TypeOK
  BY DEF IInv
<1>2. QED
  BY <1>1, IInit, INext, PTL DEF Spec

-----------------------------------------------------------------------------
(* Worth.                                                                  *)

LEMMA WorthLand ==
  ASSUME IInv, NEW f \in Flows, Land(f), ~CrossedSweep(f),
         NEW u \in Users, NEW a \in Asset
  PROVE  Worth(u, a)' = Worth(u, a)
<1>1. /\ fl[f].asset \in Asset /\ fl[f].amt \in Int /\ WithdrawAmount(fl[f]) \in Int
      /\ fl[f].by \in Users
      /\ fl[f].leg = "sweep" => fl[f].dest = fl[f].by
  <2>1. Lands(f)
    BY DEF Land, Landed, Lands, Become, IInv, TypeOK, FlowType, FlowState
  <2>2. QED
    BY <2>1 DEF IInv, TypeOK, FlowType, FlowState, IdentityOK, WithdrawAmount, Land, CrossedSweep
<1>2. wal[u][a] \in Int /\ syn[u][a] \in Int /\ pos[u][a] \in Int
  BY DEF IInv, TypeOK, ChainType
<1> USE DEF IInv, TypeOK, ChainType, Worth
<1>3. CASE LandFund(f)
  BY <1>1, <1>2, <1>3 DEF LandFund
<1>4. CASE LandApprove(f) \/ LandAta(f)
  BY <1>4 DEF LandApprove, LandAta
<1>5. CASE LandSupply(f)
  BY <1>1, <1>2, <1>5 DEF LandSupply
<1>6. CASE LandWithdraw(f)
  BY <1>1, <1>2, <1>6 DEF LandWithdraw
<1>7. CASE LandSweep(f)
  BY <1>1, <1>2, <1>7 DEF LandSweep
<1>8. QED
  BY <1>3, <1>4, <1>5, <1>6, <1>7 DEF Land

LEMMA WorthOtherTab ==
  ASSUME IInv, NEW v \in Users, NEW d \in Amounts, OtherTabSupplies(v, d) \/ OtherTabWithdraws(v, d),
         NEW u \in Users, NEW a \in Asset
  PROVE  Worth(u, a)' = Worth(u, a)
<1>1. wal[u][a] \in Int /\ syn[u][a] \in Int /\ pos[u][a] \in Int /\ d \in Int
  BY AmountAssumption DEF IInv, TypeOK, ChainType
<1> USE DEF IInv, TypeOK, ChainType, Worth, Asset
<1>2. CASE OtherTabSupplies(v, d)
  BY <1>1, <1>2 DEF OtherTabSupplies
<1>3. CASE OtherTabWithdraws(v, d)
  BY <1>1, <1>3 DEF OtherTabWithdraws
<1>4. QED BY <1>2, <1>3

(* Every step keeps every user's worth, unless it lands a sweep whose       *)
(* destination and signer differ.                                          *)
LEMMA WorthStep ==
  ASSUME IInv, [Next]_vars, \A f \in Flows : ~CrossedSweep(f),
         NEW u \in Users, NEW a \in Asset
  PROVE  Worth(u, a)' = Worth(u, a)
<1>1. CASE \E f \in Flows : Land(f)
  BY <1>1, WorthLand
<1>2. CASE \E v \in Users, d \in Amounts : OtherTabSupplies(v, d) \/ OtherTabWithdraws(v, d)
  BY <1>2, WorthOtherTab
<1>3. CASE UNCHANGED chainVars
  BY <1>3 DEF chainVars, Worth
<1>4. QED
  BY <1>1, <1>2, <1>3
     DEF Next, LaneStep, IdentityStep, FlowStep, Submit, ReadPreconditions, ReadBaseSupply, BuildSweep,
         Prompt, Sign, Advance, Succeed, Fail, Expire, ClearError, Refuse, Connect, Disconnect, vars, chainVars

(* Under any interleaving of flows, wallet changes and other tabs, value    *)
(* moves between users only by a crossed sweep.                            *)
THEOREM WorthIsolation == Spec => WorthMovesOnlyByCrossedSweep
<1>1. IInv /\ [Next]_vars =>
        [(\A f \in Flows : ~CrossedSweep(f)) =>
            \A u \in Users, a \in Asset : Worth(u, a)' = Worth(u, a)]_vars
  BY WorthStep
<1>2. QED
  BY <1>1, IInit, INext, PTL DEF Spec, WorthMovesOnlyByCrossedSweep

-----------------------------------------------------------------------------
(* Success means the whole plan landed.                                    *)

Started == {"readBase", "ready", "build", "popup", "sent", "adrift", "landed", "done"}

(* The legs of the plan that come before r's current leg.                  *)
Before(r) ==
  CASE r.leg \in {"fund", "withdraw"} -> {}
    [] r.leg = "approve" -> {"fund"}
    [] r.leg = "ata"     -> {"withdraw"}
    [] r.leg = "supply"  -> IF r.extra THEN {"fund", "approve"} ELSE {"fund"}
    [] OTHER             -> IF r.extra THEN {"withdraw", "ata"} ELSE {"withdraw"}

(* The current leg belongs to the plan of the flow's action.               *)
LegInPlan(r) ==
  /\ r.act \in Inflow => r.leg \in {"fund", "approve", "supply"}
  /\ r.act \notin Inflow => r.leg \in {"withdraw", "ata", "sweep"}
  /\ r.leg \in {"approve", "ata"} => r.extra

FlowPlanOK(r) ==
  /\ r.pc \in {"idle", "read"} => r.landed = {}
  /\ r.pc = "readBase" => r.act = "borrow" /\ r.leg = "withdraw"
  /\ r.pc = "build" => r.leg \in {"ata", "sweep"}
  /\ r.pc = "build" => r.landed = {"withdraw"} /\ (r.extra => r.leg = "ata")
  /\ r.pc \in Started => LegInPlan(r)
  /\ r.pc \in {"readBase", "ready", "build", "popup", "sent", "adrift"} => r.landed = Before(r)
  /\ r.pc \in {"landed", "done"} => r.landed = Before(r) \cup {r.leg}
  /\ r.pc = "done" => LastLeg(r)

PlanInv == \A f \in Flows : FlowPlanOK(fl[f])

LEMMA PlanStep ==
  ASSUME IInv, PlanInv, NEW f \in Flows, FlowStep(f)
  PROVE  PlanInv'
<1> DEFINE r == fl[f]
<1>0. r \in FlowState /\ FlowPlanOK(r)
  BY DEF IInv, TypeOK, FlowType, PlanInv
<1>u. \A g \in Flows : g # f => fl'[g] = fl[g]
  BY DEF FlowStep, ReadPreconditions, ReadBaseSupply, BuildSweep, Prompt, Sign, Land, Landed,
         Advance, Succeed, Fail, Expire, Become, IInv, TypeOK, FlowType
<1>d. f \in DOMAIN fl
  BY DEF IInv, TypeOK, FlowType
<1> SUFFICES FlowPlanOK(fl'[f])
  BY <1>u DEF PlanInv
<1> HIDE DEF r
<1> USE DEF FlowPlanOK, Started, LegInPlan, Before, LastLeg, FlowState
<1>1. CASE ReadPreconditions(f)
  <2> DEFINE s == fl'[f]
             e == \/ r.act \in Inflow /\ allow[r.who][r.asset] < r.amt
                  \/ r.act \notin Inflow /\ ~ata[r.who][r.asset]
  <2>1. Become(f, [r EXCEPT !.pc = IF r.act = "borrow" THEN "readBase" ELSE "ready",
                            !.extra = e,
                            !.leg = IF r.act \in Inflow THEN "fund" ELSE "withdraw"])
    BY <1>1 DEF ReadPreconditions, r
  <2> HIDE DEF e
  <2>2. r.pc = "read" /\ r.landed = {}
    BY <1>0, <1>1 DEF ReadPreconditions, r
  <2>3. /\ s.pc = IF r.act = "borrow" THEN "readBase" ELSE "ready"
        /\ s.leg = IF r.act \in Inflow THEN "fund" ELSE "withdraw"
        /\ s.act = r.act /\ s.landed = r.landed
    BY <1>0, <1>d, <2>1 DEF Become
  <2> HIDE DEF s
  <2>4. s.act = "borrow" => s.act \notin Inflow
    BY DEF Inflow
  <2>5. FlowPlanOK(s)
    BY <2>2, <2>3, <2>4
  <2>6. QED BY <2>5 DEF s
<1>2. CASE ReadBaseSupply(f)
  BY <1>0, <1>2, <1>d DEF ReadBaseSupply, Become, Inflow, r
<1>3. CASE BuildSweep(f)
  BY <1>0, <1>3, <1>d DEF BuildSweep, Become, r
<1>4. CASE Prompt(f)
  <2> DEFINE s == fl'[f]
  <2>1. r.pc = "ready"
    BY <1>0, <1>4 DEF Prompt, r
  <2>2. /\ s.act = r.act /\ s.extra = r.extra /\ s.leg = r.leg
        /\ s.pc = "popup" /\ s.landed = r.landed
    BY <1>0, <1>4, <1>d DEF Prompt, Become, r
  <2> HIDE DEF s
  <2>3. FlowPlanOK(s)
    BY <1>0, <2>1, <2>2
  <2>4. QED BY <2>3 DEF s
<1>5. CASE Sign(f)
  <2> DEFINE s == fl'[f]
  <2>1. r.pc = "popup"
    BY <1>0, <1>5 DEF Sign, r
  <2>2. /\ s.act = r.act /\ s.extra = r.extra /\ s.leg = r.leg
        /\ s.pc = "sent" /\ s.landed = r.landed
    BY <1>0, <1>5, <1>d DEF Sign, Become, r
  <2> HIDE DEF s
  <2>3. FlowPlanOK(s)
    BY <1>0, <2>1, <2>2
  <2>4. QED BY <2>3 DEF s
<1>6. CASE Land(f)
  <2> DEFINE s == fl'[f]
  <2>1. r.pc \in {"sent", "adrift"}
    BY <1>0, <1>6 DEF Land, r
  <2>2. /\ s.act = r.act /\ s.extra = r.extra /\ s.leg = r.leg
        /\ s.pc = (IF r.pc = "sent" THEN "landed" ELSE "failed")
        /\ s.landed = r.landed \cup {r.leg}
    BY <1>0, <1>6, <1>d DEF Land, Landed, Become, r
  <2> HIDE DEF s
  <2>3. FlowPlanOK(s)
    BY <1>0, <2>1, <2>2
  <2>4. QED BY <2>3 DEF s
<1>7. CASE Advance(f)
  <2> DEFINE s == fl'[f]
  <2>1. r.pc = "landed" /\ r.landed = Before(r) \cup {r.leg} /\ LegInPlan(r)
    BY <1>0, <1>7 DEF Advance, r
  <2>2. /\ s.act = r.act /\ s.extra = r.extra /\ s.landed = r.landed
        /\ s.pc = IF r.leg = "withdraw" THEN "build" ELSE "ready"
        /\ s.leg = CASE r.leg = "fund"     -> IF r.extra THEN "approve" ELSE "supply"
                     [] r.leg = "approve"  -> "supply"
                     [] r.leg = "withdraw" -> IF r.extra THEN "ata" ELSE "sweep"
                     [] OTHER              -> "sweep"
    BY <1>0, <1>7, <1>d DEF Advance, Become, r
  <2> HIDE DEF s
  <2>3. CASE r.leg = "fund"
    BY <2>1, <2>2, <2>3 DEF s
  <2>4. CASE r.leg = "approve"
    BY <2>1, <2>2, <2>4 DEF s
  <2>5. CASE r.leg = "withdraw"
    BY <2>1, <2>2, <2>5 DEF s
  <2>6. CASE r.leg = "ata"
    BY <2>1, <2>2, <2>6 DEF s
  <2>7. QED
    BY <1>0, <1>7, <2>3, <2>4, <2>5, <2>6 DEF Advance, Leg, r
<1>8. CASE Succeed(f)
  BY <1>0, <1>8, <1>d DEF Succeed, Become, r
<1>9. CASE Fail(f)
  <2> DEFINE s == fl'[f]
  <2>1. /\ s.act = r.act /\ s.extra = r.extra /\ s.leg = r.leg /\ s.landed = r.landed
        /\ s.pc = (IF r.pc = "sent" THEN "adrift" ELSE "failed")
    BY <1>0, <1>9, <1>d DEF Fail, Become, r
  <2> HIDE DEF s
  <2>2. FlowPlanOK(s)
    BY <1>0, <2>1
  <2>3. QED BY <2>2 DEF s
<1>11. CASE Expire(f)
  BY <1>0, <1>11, <1>d DEF Expire, Become, r
<1>10. QED
  BY <1>1, <1>2, <1>3, <1>4, <1>5, <1>6, <1>7, <1>8, <1>9, <1>11 DEF FlowStep

LEMMA PlanNext == IInv /\ PlanInv /\ [Next]_vars => PlanInv'
<1> SUFFICES ASSUME IInv, PlanInv, [Next]_vars PROVE PlanInv'
  OBVIOUS
<1>1. ASSUME NEW f \in Flows, NEW act \in ActionType, NEW a \in Asset, NEW amt \in Amounts,
             Submit(f, act, a, amt)
      PROVE  PlanInv'
  <2>1. \A g \in Flows : g # f => fl'[g] = fl[g]
    BY <1>1 DEF Submit, Become, IInv, TypeOK, FlowType
  <2>2. fl'[f].pc = "read" /\ fl'[f].landed = {}
    BY <1>1 DEF Submit, Become, FreshFlow, IInv, TypeOK, FlowType
  <2>3. FlowPlanOK(fl'[f])
    BY <2>2 DEF FlowPlanOK, Started
  <2>4. QED
    BY <2>1, <2>3 DEF PlanInv
<1>2. ASSUME NEW f \in Flows, FlowStep(f) PROVE PlanInv'
  BY <1>2, PlanStep
<1>3. CASE UNCHANGED fl
  BY <1>3 DEF PlanInv
<1>4. QED
  BY <1>1, <1>2, <1>3 DEF Next, LaneStep, IdentityStep, ClearError, Refuse, Connect, Disconnect,
                          OtherTabSupplies, OtherTabWithdraws, vars

LEMMA PlanImpliesSuccess == PlanInv => SuccessIsWholePlan
<1> SUFFICES ASSUME PlanInv, NEW f \in Flows, fl[f].pc = "done"
             PROVE  fl[f].landed = PlanLegs(fl[f])
  BY DEF SuccessIsWholePlan
<1> DEFINE r == fl[f]
<1>1. /\ r.landed = Before(r) \cup {r.leg}
      /\ LegInPlan(r) /\ LastLeg(r)
  BY DEF PlanInv, FlowPlanOK, Started
<1> HIDE DEF r
<1>2. CASE r.leg = "supply" /\ r.extra
  <2>1. SignSteps(r.act, r.extra) = <<"fund", "approve", "supply", "confirm">>
    BY <1>1, <1>2 DEF SignSteps, LegInPlan
  <2>2. PlanLegs(r) = {"fund", "approve", "supply"}
    BY <2>1 DEF PlanLegs
  <2>3. QED BY <1>1, <1>2, <2>2 DEF Before, r
<1>3. CASE r.leg = "supply" /\ ~r.extra
  <2>1. SignSteps(r.act, r.extra) = <<"fund", "supply", "confirm">>
    BY <1>1, <1>3 DEF SignSteps, LegInPlan
  <2>2. PlanLegs(r) = {"fund", "supply"}
    BY <2>1 DEF PlanLegs
  <2>3. QED BY <1>1, <1>3, <2>2 DEF Before, r
<1>4. CASE r.leg = "sweep" /\ r.extra
  <2>1. SignSteps(r.act, r.extra) = <<"withdraw", "ata", "sweep", "confirm">>
    BY <1>1, <1>4 DEF SignSteps, LegInPlan
  <2>2. PlanLegs(r) = {"withdraw", "ata", "sweep"}
    BY <2>1 DEF PlanLegs
  <2>3. QED BY <1>1, <1>4, <2>2 DEF Before, r
<1>5. CASE r.leg = "sweep" /\ ~r.extra
  <2>1. SignSteps(r.act, r.extra) = <<"withdraw", "sweep", "confirm">>
    BY <1>1, <1>5 DEF SignSteps, LegInPlan
  <2>2. PlanLegs(r) = {"withdraw", "sweep"}
    BY <2>1 DEF PlanLegs
  <2>3. QED BY <1>1, <1>5, <2>2 DEF Before, r
<1>6. QED
  BY <1>1, <1>2, <1>3, <1>4, <1>5 DEF LastLeg

(* A flow that reports success had every leg of its plan land, under any    *)
(* wallet changes and any other tab.                                       *)
THEOREM SuccessSound == Spec => []SuccessIsWholePlan
<1>1. Init => PlanInv
  BY DEF Init, PlanInv, FlowPlanOK, FreshFlow, Started
<1>2. QED
  BY <1>1, IInit, INext, PlanNext, PlanImpliesSuccess, PTL DEF Spec

-----------------------------------------------------------------------------
(* The steady user: the wallet changes only between flows.                 *)

CapturedSender == {"popup", "sent", "landed"}

(* The row of the plan that a leg is.                                      *)
Row(r) == CASE FirstLeg(r) -> 0
            [] r.leg \in {"approve", "ata"} -> 1
            [] OTHER -> IF r.extra THEN 2 ELSE 1

(* The leg belongs to the user who started the action, and a sweep goes back *)
(* to that user's wallet.                                                  *)
OwnLeg(r) == r.by = r.who /\ (r.leg \in {"ata", "sweep"} => r.dest = r.who)

FlowSteady(f) ==
  /\ fl[f].pc = "adrift" => OwnLeg(fl[f])
  /\ InFlight(f) =>
       /\ ui.signing /\ ~ui.error
       /\ fl[f].who = active
       /\ fl[f].pc \in CapturedSender => fl[f].by = active
       /\ fl[f].pc \in CapturedSender \cup {"ready"} /\ fl[f].leg \in {"ata", "sweep"}
            => fl[f].dest = active
       /\ fl[f].pc # "read" => ui.plan = SignSteps(fl[f].act, fl[f].extra)
       /\ fl[f].pc \in CapturedSender => ui.step = Row(fl[f])

SteadyInv == OneFlowAtATime /\ \A f \in Flows : FlowSteady(f)

LEMMA SteadyOwn ==
  ASSUME SteadyInv, NEW f \in Flows, fl[f].pc \in CapturedSender \cup {"adrift"}
  PROVE  OwnLeg(fl[f])
BY DEF SteadyInv, FlowSteady, CapturedSender, OwnLeg, InFlight

(* A step of f touches no other flow and keeps the wallet, and f was in flight *)
(* or adrift.                                                              *)
LEMMA FlowFrame ==
  ASSUME IInv, NEW f \in Flows, FlowStep(f)
  PROVE  /\ f \in DOMAIN fl
         /\ InFlight(f) \/ fl[f].pc = "adrift"
         /\ \A g \in Flows : g # f => fl'[g] = fl[g]
         /\ active' = active
<1>1. f \in DOMAIN fl
  BY DEF IInv, TypeOK, FlowType
<1>2. QED
  BY <1>1 DEF FlowStep, ReadPreconditions, ReadBaseSupply, BuildSweep, Prompt, Sign, Land, Landed,
         Advance, Succeed, Fail, Expire, Become, IInv, TypeOK, FlowType, InFlight

(* What becomes of a pending transaction that its flow gave up on is nothing *)
(* to the page: no flow in flight, no row and no banner depends on it.      *)
LEMMA AdriftStep ==
  ASSUME IInv, SteadyInv, NEW f \in Flows, FlowStep(f), fl[f].pc = "adrift"
  PROVE  SteadyInv'
<1>1. f \in DOMAIN fl /\ \A g \in Flows : g # f => fl'[g] = fl[g]
  BY FlowFrame
<1>2. Land(f) \/ Expire(f)
  BY DEF FlowStep, ReadPreconditions, ReadBaseSupply, BuildSweep, Prompt, Sign, Advance, Succeed,
         Fail, InFlight
<1>3. fl'[f].pc = "failed" /\ active' = active /\ ui' = ui
  <2>0. fl[f] \in FlowState
    BY DEF IInv, TypeOK, FlowType
  <2>1. CASE Land(f)
    BY <1>1, <2>0, <2>1 DEF Land, Landed, Become, FlowState
  <2>2. CASE Expire(f)
    BY <1>1, <2>0, <2>2 DEF Expire, Become, FlowState
  <2>3. QED BY <1>2, <2>1, <2>2
<1>4. ASSUME NEW g \in Flows PROVE FlowSteady(g)'
  <2>1. FlowSteady(g)
    BY DEF SteadyInv
  <2>2. QED
    BY <1>1, <1>3, <2>1 DEF FlowSteady, InFlight, OwnLeg, Row, FirstLeg
<1>5. OneFlowAtATime'
  BY <1>1, <1>3 DEF SteadyInv, OneFlowAtATime, InFlight
<1>6. QED
  BY <1>4, <1>5 DEF SteadyInv

LEMMA SteadyStep ==
  ASSUME IInv, PlanInv, SteadyInv, NEW f \in Flows, FlowStep(f)
  PROVE  SteadyInv'
<1>a. CASE fl[f].pc = "adrift"
  BY <1>a, AdriftStep
<1>b. SUFFICES ASSUME fl[f].pc # "adrift" PROVE SteadyInv'
  BY <1>a
<1>1. /\ f \in DOMAIN fl /\ InFlight(f)
      /\ \A g \in Flows : g # f => fl'[g] = fl[g]
      /\ active' = active
  BY <1>b, FlowFrame
<1>2. \A g \in Flows : g # f => ~InFlight(g) /\ ~InFlight(g)'
  BY <1>1 DEF SteadyInv, OneFlowAtATime, InFlight
<1>3. OneFlowAtATime'
  BY <1>2 DEF OneFlowAtATime
<1>4. /\ FlowSteady(f) /\ FlowPlanOK(fl[f]) /\ fl[f] \in FlowState
      /\ DOMAIN ui = {"signing", "step", "plan", "error", "result"}
  BY DEF SteadyInv, PlanInv, IInv, TypeOK, FlowType, UiType
<1> USE DEF FlowSteady, InFlight, CapturedSender, Become, OwnLeg
<1>5. FlowSteady(f)'
  <2> DEFINE r == fl[f]
             s == fl'[f]
  <2>a. \A p, q : p.leg = q.leg /\ p.extra = q.extra => Row(p) = Row(q)
    BY DEF Row, FirstLeg
  <2>1. CASE ReadPreconditions(f)
    <3>1. /\ s.pc \in {"readBase", "ready"} /\ s.leg \in {"fund", "withdraw"} /\ s.who = r.who
          /\ r.act = s.act /\ ui'.plan = SignSteps(s.act, s.extra)
          /\ ui'.signing = ui.signing /\ ui'.error = ui.error
      BY <1>1, <1>4, <2>1 DEF ReadPreconditions, FlowState
    <3>2. QED BY <1>1, <1>4, <3>1
  <2>2. CASE ReadBaseSupply(f)
    <3>1. /\ s.pc = "ready" /\ s.leg = r.leg /\ s.who = r.who /\ s.act = r.act /\ s.extra = r.extra
          /\ r.leg = "withdraw" /\ r.pc = "readBase" /\ ui' = ui
      BY <1>1, <1>4, <2>2 DEF ReadBaseSupply, FlowState, FlowPlanOK
    <3>2. QED BY <1>1, <1>4, <3>1
  <2>3. CASE BuildSweep(f)
    <3>1. /\ s.pc = "ready" /\ s.dest = active /\ s.who = r.who /\ s.act = r.act /\ s.extra = r.extra
          /\ r.pc = "build" /\ ui' = ui
      BY <1>1, <1>4, <2>3 DEF BuildSweep, FlowState
    <3>2. QED BY <1>1, <1>4, <3>1
  <2>4. CASE Prompt(f)
    <3>1. /\ s.pc = "popup" /\ s.leg = r.leg /\ s.act = r.act /\ s.extra = r.extra
          /\ s.who = r.who /\ s.dest = r.dest /\ r.pc = "ready"
          /\ s.by = IF r.leg = "ata" THEN r.dest ELSE active
      BY <1>1, <1>4, <2>4 DEF Prompt, FlowState
    <3>2. ui'.step = Row(r) /\ ui'.plan = ui.plan /\ ui'.signing = ui.signing /\ ui'.error = ui.error
      BY <1>4, <2>4 DEF Prompt, Row
    <3>3. Row(s) = Row(r)
      BY <3>1, <2>a
    <3>4. QED
      BY <1>1, <1>4, <3>1, <3>2, <3>3
  <2>5. CASE Sign(f) \/ Land(f)
    <3>1. /\ s.pc \in {"sent", "landed"} /\ s.leg = r.leg /\ s.act = r.act /\ s.extra = r.extra
          /\ s.who = r.who /\ s.dest = r.dest /\ s.by = r.by
          /\ r.pc \in {"popup", "sent"} /\ ui' = ui
      <4>1. CASE Sign(f)
        BY <1>1, <1>4, <4>1 DEF Sign, FlowState
      <4>2. CASE Land(f)
        BY <1>b, <1>1, <1>4, <4>2 DEF Land, Landed, FlowState
      <4>3. QED BY <2>5, <4>1, <4>2
    <3>2. Row(s) = Row(r)
      BY <3>1, <2>a
    <3>3. QED
      BY <1>1, <1>4, <3>1, <3>2
  <2>7. CASE Advance(f)
    <3>1. /\ s.pc \in {"build", "ready"} /\ s.act = r.act /\ s.extra = r.extra
          /\ s.who = r.who /\ s.dest = r.dest
          /\ r.pc = "landed" /\ ui' = ui
      BY <1>1, <1>4, <2>7 DEF Advance, FlowState
    <3>2. s.pc = "ready" /\ s.leg \in {"ata", "sweep"} => r.leg = "ata"
      BY <1>1, <1>4, <2>7 DEF Advance, FlowState, LastLeg, Leg
    <3>3. QED
      BY <1>1, <1>4, <3>1, <3>2
  <2>8. CASE Succeed(f) \/ Fail(f)
    <3>1. /\ s.pc \in {"done", "failed", "adrift"} /\ (s.pc = "adrift" => r.pc = "sent")
          /\ s.by = r.by /\ s.who = r.who /\ s.dest = r.dest /\ s.leg = r.leg
      <4>1. CASE Succeed(f)
        BY <1>1, <1>4, <4>1 DEF Succeed, FlowState
      <4>2. CASE Fail(f)
        BY <1>1, <1>4, <4>2 DEF Fail, FlowState
      <4>3. QED BY <2>8, <4>1, <4>2
    <3>2. s.pc = "adrift" => s.by = s.who /\ (s.leg \in {"ata", "sweep"} => s.dest = s.who)
      <4>1. r.pc = "sent" => r.by = r.who /\ (r.leg \in {"ata", "sweep"} => r.dest = r.who)
        BY <1>4
      <4>2. QED BY <3>1, <4>1
    <3>3. ~InFlight(f)'
      BY <3>1 DEF InFlight
    <3>4. QED BY <3>2, <3>3
  <2>9. QED
    BY <1>b, <2>1, <2>2, <2>3, <2>4, <2>5, <2>7, <2>8 DEF FlowStep, Expire
<1>6. \A g \in Flows : FlowSteady(g)'
  <2>1. \A g \in Flows : FlowSteady(g)
    BY DEF SteadyInv
  <2>2. \A g \in Flows : g # f => FlowSteady(g)'
    BY <1>1, <1>2, <2>1
  <2>3. QED BY <1>5, <2>2
<1>7. QED
  BY <1>3, <1>6 DEF SteadyInv

LEMMA SteadyNextOK == IInv /\ PlanInv /\ SteadyInv /\ [SteadyNext]_vars => SteadyInv'
<1> SUFFICES ASSUME IInv, PlanInv, SteadyInv, [SteadyNext]_vars PROVE SteadyInv'
  OBVIOUS
<1>0. OneFlowAtATime /\ \A f \in Flows : FlowSteady(f)
  BY DEF SteadyInv
<1>1. ASSUME NEW f \in Flows, NEW act \in ActionType, NEW a \in Asset, NEW amt \in Amounts,
             Submit(f, act, a, amt)
      PROVE  SteadyInv'
  <2>1. f \in DOMAIN fl
    BY DEF IInv, TypeOK, FlowType
  <2>2. Idle
    BY <1>0, <1>1 DEF Submit, PanelShown, Idle, FlowSteady
  <2>3. /\ \A g \in Flows : g # f => fl'[g] = fl[g]
        /\ fl'[f].pc = "read" /\ fl'[f].who = active
        /\ active' = active
        /\ ui'.signing /\ ~ui'.error
    <3>1. Become(f, [FreshFlow EXCEPT !.pc = "read", !.act = act, !.asset = a, !.amt = amt, !.who = active])
      BY <1>1 DEF Submit
    <3>2. fl'[f].pc = "read" /\ fl'[f].who = active
      BY <3>1, <2>1 DEF Become, FreshFlow
    <3>3. active' = active /\ ui'.signing /\ ~ui'.error
      BY <1>1 DEF Submit
    <3>4. QED BY <3>1, <3>2, <3>3 DEF Become, IInv, TypeOK, FlowType
  <2>4. \A g \in Flows : g # f => ~InFlight(g)'
    BY <2>2, <2>3 DEF Idle, InFlight
  <2>5. OneFlowAtATime'
    BY <2>4 DEF OneFlowAtATime
  <2>6. FlowSteady(f)'
    BY <2>3 DEF FlowSteady, CapturedSender
  <2>7. \A g \in Flows : g # f => FlowSteady(g)'
    BY <1>0, <2>3, <2>4 DEF FlowSteady, OwnLeg
  <2>8. QED
    BY <2>5, <2>6, <2>7 DEF SteadyInv
<1>2. ASSUME NEW f \in Flows, FlowStep(f) PROVE SteadyInv'
  BY <1>2, SteadyStep
<1>3. CASE ClearError
  <2>1. fl' = fl /\ active' = active
    BY <1>3 DEF ClearError
  <2>2. /\ ~ui'.error /\ ui'.signing = ui.signing /\ ui'.plan = ui.plan /\ ui'.step = ui.step
    BY <1>3 DEF ClearError, IInv, TypeOK, UiType
  <2>3. QED
    BY <1>0, <2>1, <2>2 DEF SteadyInv, FlowSteady, OneFlowAtATime, InFlight, OwnLeg, Row, FirstLeg
<1>r. CASE Refuse
  <2>1. fl' = fl
    BY <1>r DEF Refuse
  <2>2. \A g \in Flows : ~InFlight(g)
    <3>1. \A g \in Flows : InFlight(g) => ui.signing /\ ~ui.error
      BY <1>0 DEF FlowSteady
    <3>2. ui.error \/ ~ui.signing
      BY <1>r DEF Refuse, PanelShown
    <3>3. QED BY <3>1, <3>2
  <2>3. QED
    BY <1>0, <2>1, <2>2 DEF SteadyInv, FlowSteady, OneFlowAtATime, InFlight, OwnLeg
<1>4. CASE Idle /\ IdentityStep
  <2>1. fl' = fl
    BY <1>4 DEF IdentityStep, Connect, Disconnect
  <2>2. \A g \in Flows : ~InFlight(g)'
    BY <1>4, <2>1 DEF Idle, InFlight
  <2>3. QED
    BY <1>0, <2>1, <2>2 DEF SteadyInv, FlowSteady, OneFlowAtATime, OwnLeg
<1>5. CASE UNCHANGED <<fl, active, ui>>
  BY <1>5 DEF SteadyInv, FlowSteady, OneFlowAtATime, InFlight, OwnLeg, Row, FirstLeg
<1>6. QED
  BY <1>1, <1>2, <1>3, <1>r, <1>4, <1>5 DEF SteadyNext, LaneStep, OtherTabSupplies, OtherTabWithdraws, vars

SteadyIInv == IInv /\ PlanInv /\ SteadyInv

LEMMA SteadyInductive ==
  /\ Init => SteadyIInv
  /\ SteadyIInv /\ [SteadyNext]_vars => SteadyIInv'
<1>1. Init => PlanInv /\ SteadyInv
  BY DEF Init, PlanInv, FlowPlanOK, FreshFlow, Started, SteadyInv, FlowSteady, OneFlowAtATime,
         InFlight
<1>2. [SteadyNext]_vars => [Next]_vars
  BY DEF SteadyNext, Next
<1>3. QED
  BY <1>1, <1>2, IInit, INext, PlanNext, SteadyNextOK DEF SteadyIInv

(* A user who changes wallets only between flows runs one flow at a time:   *)
(* the signing screen is the lane's only re-entrancy guard and it suffices. *)
THEOREM NoReentry == SteadySpec => []OneFlowAtATime
<1>1. SteadyIInv => OneFlowAtATime
  BY DEF SteadyIInv, SteadyInv
<1>2. QED
  BY <1>1, SteadyInductive, PTL DEF SteadySpec

LEMMA SteadyPlan == SteadyIInv => PlanMatchesPopup
<1> SUFFICES ASSUME SteadyIInv, NEW f \in Flows, fl[f].pc \in {"popup", "sent", "landed"}
             PROVE  ui.step + 1 \in DOMAIN ui.plan /\ ui.plan[ui.step + 1] = fl[f].leg
  BY DEF PlanMatchesPopup
<1> DEFINE r == fl[f]
<1>1. /\ ui.plan = SignSteps(r.act, r.extra) /\ ui.step = Row(r) /\ LegInPlan(r)
      /\ r.extra \in BOOLEAN /\ r.leg \in Leg
  BY DEF SteadyIInv, SteadyInv, FlowSteady, PlanInv, FlowPlanOK, Started, InFlight, CapturedSender,
         IInv, TypeOK, FlowType, FlowState
<1> HIDE DEF r
<1>2. SignSteps(r.act, r.extra) =
        CASE r.act \in Inflow /\ r.extra    -> <<"fund", "approve", "supply", "confirm">>
          [] r.act \in Inflow /\ ~r.extra   -> <<"fund", "supply", "confirm">>
          [] r.act \notin Inflow /\ r.extra -> <<"withdraw", "ata", "sweep", "confirm">>
          [] OTHER                          -> <<"withdraw", "sweep", "confirm">>
  BY DEF SignSteps
<1>3. CASE r.act \in Inflow /\ r.extra
  BY <1>1, <1>2, <1>3 DEF Row, FirstLeg, LegInPlan, r
<1>4. CASE r.act \in Inflow /\ ~r.extra
  BY <1>1, <1>2, <1>4 DEF Row, FirstLeg, LegInPlan, r
<1>5. CASE r.act \notin Inflow /\ r.extra
  BY <1>1, <1>2, <1>5 DEF Row, FirstLeg, LegInPlan, r
<1>6. CASE r.act \notin Inflow /\ ~r.extra
  BY <1>1, <1>2, <1>6 DEF Row, FirstLeg, LegInPlan, r
<1>7. QED
  BY <1>1, <1>3, <1>4, <1>5, <1>6

(* The open popup is always the highlighted row of the plan fixed before     *)
(* the first popup.                                                        *)
THEOREM PlanExact == SteadySpec => []PlanMatchesPopup
BY SteadyInductive, SteadyPlan, PTL DEF SteadySpec

-----------------------------------------------------------------------------
(* Allowances.                                                             *)

(* Only a leg that lands changes what a flow asked for or what it has done.  *)
LEMMA KeepsRequest ==
  ASSUME IInv, NEW f \in Flows, FlowStep(f), ~Land(f)
  PROVE  /\ fl'[f].who = fl[f].who /\ fl'[f].asset = fl[f].asset /\ fl'[f].amt = fl[f].amt
         /\ fl'[f].landed = fl[f].landed
         /\ allow' = allow
<1>1. f \in DOMAIN fl /\ fl[f] \in FlowState
  BY DEF IInv, TypeOK, FlowType
<1> USE <1>1 DEF Become, FlowState, chainVars
<1>2. CASE ReadPreconditions(f)
  BY <1>2 DEF ReadPreconditions
<1>3. CASE ReadBaseSupply(f) \/ BuildSweep(f)
  BY <1>3 DEF ReadBaseSupply, BuildSweep
<1>4. CASE Prompt(f)
  BY <1>4 DEF Prompt
<1>5. CASE Sign(f)
  BY <1>5 DEF Sign
<1>8. CASE Advance(f)
  BY <1>8 DEF Advance
<1>6. CASE Succeed(f) \/ Fail(f) \/ Expire(f)
  BY <1>6 DEF Succeed, Fail, Expire
<1>7. QED
  BY <1>2, <1>3, <1>4, <1>5, <1>6, <1>8 DEF FlowStep

(* Flow f accounts for an allowance of n that u's synthetic gives for a.    *)
Explains(r, u, a, n) ==
  /\ r.who = u /\ r.asset = a
  /\ "approve" \in r.landed /\ "supply" \notin r.landed
  /\ n <= r.amt

LEMMA AllowanceLand ==
  ASSUME SteadyIInv, AllowanceExplained, NEW f \in Flows, Land(f)
  PROVE  AllowanceExplained'
<1> DEFINE r == fl[f]
           s == fl'[f]
<1>1. r \in FlowState /\ f \in DOMAIN fl /\ FlowPlanOK(r) /\ r.pc \in {"sent", "adrift"}
  BY DEF SteadyIInv, IInv, TypeOK, FlowType, PlanInv, Land
<1>2. /\ s.who = r.who /\ s.asset = r.asset /\ s.amt = r.amt
      /\ s.landed = r.landed \cup {r.leg}
  BY <1>1 DEF Land, Landed, Become, FlowState
<1>o. \A g \in Flows : g # f => fl'[g] = fl[g]
  BY FlowFrame DEF SteadyIInv, FlowStep
<1>3. r.landed = Before(r) /\ LegInPlan(r)
  BY <1>1 DEF FlowPlanOK, Started
<1>4. r.by = r.who /\ r.who \in Users /\ r.asset \in Asset /\ r.amt \in Nat
  BY <1>1, SteadyOwn DEF SteadyIInv, IInv, IdentityOK, CapturedSender, OwnLeg, FlowState
<1>5. allow \in [Users -> [Asset -> Int]]
  BY DEF SteadyIInv, IInv, TypeOK, ChainType
<1> SUFFICES ASSUME NEW u \in Users, NEW a \in Asset, allow'[u][a] > 0
             PROVE  \E g \in Flows : Explains(fl'[g], u, a, allow'[u][a])
  BY DEF AllowanceExplained, Explains
<1>6. ASSUME allow[u][a] > 0
      PROVE  \E g \in Flows : Explains(fl[g], u, a, allow[u][a])
  BY <1>6 DEF AllowanceExplained, Explains
<1>7. allow[u][a] \in Int
  BY <1>5
<1>8. CASE r.leg = "approve"
  <2>1. allow' = [allow EXCEPT ![r.who][r.asset] = r.amt]
    BY <1>4, <1>8 DEF Land, LandFund, LandApprove, LandSupply, LandWithdraw, LandAta, LandSweep,
                      ApproveAmount
  <2>2. CASE u = r.who /\ a = r.asset
    <3>1. allow'[u][a] = r.amt
      BY <1>4, <1>5, <2>1, <2>2
    <3>2. "approve" \in s.landed /\ "supply" \notin s.landed
      BY <1>2, <1>3, <1>8 DEF Before
    <3>3. Explains(s, u, a, allow'[u][a])
      BY <1>2, <1>4, <2>2, <3>1, <3>2 DEF Explains
    <3>4. QED BY <3>3
  <2>3. CASE ~(u = r.who /\ a = r.asset)
    <3>1. allow'[u][a] = allow[u][a]
      BY <1>4, <1>5, <2>1, <2>3
    <3>2. PICK g \in Flows : Explains(fl[g], u, a, allow[u][a])
      BY <1>6, <3>1
    <3>3. g # f
      BY <2>3, <3>2 DEF Explains
    <3>4. QED BY <1>o, <3>1, <3>2, <3>3
  <2>4. QED BY <2>2, <2>3
<1>9. CASE r.leg = "supply"
  <2>1. /\ allow' = [allow EXCEPT ![r.who][r.asset] = @ - r.amt]
        /\ allow[r.who][r.asset] >= r.amt
    BY <1>4, <1>9 DEF Land, LandFund, LandApprove, LandSupply, LandWithdraw, LandAta, LandSweep
  <2>2. allow'[u][a] = IF u = r.who /\ a = r.asset THEN allow[u][a] - r.amt ELSE allow[u][a]
    BY <1>4, <1>5, <2>1
  <2>3. allow'[u][a] <= allow[u][a]
    BY <1>4, <1>7, <2>2
  <2>4. PICK g \in Flows : Explains(fl[g], u, a, allow[u][a])
    BY <1>4, <1>6, <1>7, <2>2
  <2>5. g # f
    <3>1. SUFFICES ASSUME g = f PROVE FALSE
      OBVIOUS
    <3>2. u = r.who /\ a = r.asset /\ allow[u][a] <= r.amt
      BY <2>4, <3>1 DEF Explains
    <3>3. QED BY <1>4, <1>7, <2>2, <3>2
  <2>6. fl[g] \in FlowState
    BY DEF SteadyIInv, IInv, TypeOK, FlowType
  <2>7. QED BY <1>o, <1>4, <1>7, <2>2, <2>3, <2>4, <2>5, <2>6 DEF Explains, FlowState
<1>10. CASE r.leg \notin {"approve", "supply"}
  <2>1. allow' = allow
    BY <1>10 DEF Land, LandFund, LandApprove, LandSupply, LandWithdraw, LandAta, LandSweep
  <2>2. PICK g \in Flows : Explains(fl[g], u, a, allow[u][a])
    BY <1>6, <2>1
  <2>3. Explains(fl'[g], u, a, allow'[u][a])
    BY <1>2, <1>o, <1>10, <2>1, <2>2 DEF Explains
  <2>4. QED BY <2>3
<1>11. QED
  BY <1>8, <1>9, <1>10

LEMMA AllowanceNext == SteadyIInv /\ AllowanceExplained /\ [SteadyNext]_vars => AllowanceExplained'
<1> SUFFICES ASSUME SteadyIInv, AllowanceExplained, [SteadyNext]_vars PROVE AllowanceExplained'
  OBVIOUS
<1>1. ASSUME NEW f \in Flows, NEW act \in ActionType, NEW b \in Asset, NEW amt \in Amounts,
             Submit(f, act, b, amt)
      PROVE  AllowanceExplained'
  <2>1. /\ \A g \in Flows : g # f => fl'[g] = fl[g]
        /\ fl[f].landed = {} /\ allow' = allow
    BY <1>1 DEF Submit, Become, SteadyIInv, IInv, TypeOK, FlowType, PlanInv, FlowPlanOK, chainVars
  <2>2. QED BY <2>1 DEF AllowanceExplained
<1>2. ASSUME NEW f \in Flows, FlowStep(f), ~Land(f) PROVE AllowanceExplained'
  <2>1. \A g \in Flows : g # f => fl'[g] = fl[g]
    BY <1>2, FlowFrame DEF SteadyIInv
  <2>2. /\ fl'[f].who = fl[f].who /\ fl'[f].asset = fl[f].asset /\ fl'[f].amt = fl[f].amt
        /\ fl'[f].landed = fl[f].landed /\ allow' = allow
    BY <1>2, KeepsRequest DEF SteadyIInv
  <2>3. \A g \in Flows : /\ fl'[g].who = fl[g].who /\ fl'[g].asset = fl[g].asset
                         /\ fl'[g].amt = fl[g].amt /\ fl'[g].landed = fl[g].landed
    BY <2>1, <2>2
  <2>4. QED BY <2>2, <2>3 DEF AllowanceExplained
<1>3. ASSUME NEW v \in Users, NEW d \in Amounts, OtherTabSupplies(v, d) \/ OtherTabWithdraws(v, d)
      PROVE  AllowanceExplained'
  <2>1. fl' = fl
    BY <1>3 DEF OtherTabSupplies, OtherTabWithdraws
  <2>2. d \in Nat /\ allow \in [Users -> [Asset -> Int]]
    BY AmountAssumption DEF SteadyIInv, IInv, TypeOK, ChainType
  <2>3. \A u \in Users, a \in Asset : allow'[u][a] > 0 => allow'[u][a] <= allow[u][a]
    <3>1. CASE OtherTabSupplies(v, d)
      BY <2>2, <3>1 DEF OtherTabSupplies, Asset
    <3>2. CASE OtherTabWithdraws(v, d)
      BY <2>2, <3>2 DEF OtherTabWithdraws
    <3>3. QED BY <1>3, <3>1, <3>2
  <2>4. SUFFICES ASSUME NEW u \in Users, NEW a \in Asset, allow'[u][a] > 0
                 PROVE  \E g \in Flows : Explains(fl'[g], u, a, allow'[u][a])
    BY DEF AllowanceExplained, Explains
  <2>5. allow'[u][a] <= allow[u][a] /\ allow[u][a] \in Int
    BY <2>2, <2>3, <2>4
  <2>6. allow'[u][a] \in Int
    BY <1>3, ChainTypeOtherTab DEF SteadyIInv, IInv, ChainType
  <2>7. PICK g \in Flows : Explains(fl[g], u, a, allow[u][a])
    <3>1. allow[u][a] > 0
      BY <2>4, <2>5, <2>6
    <3>2. QED BY <3>1 DEF AllowanceExplained, Explains
  <2>8. fl[g] \in FlowState
    BY DEF SteadyIInv, IInv, TypeOK, FlowType
  <2>9. Explains(fl'[g], u, a, allow'[u][a])
    BY <2>1, <2>5, <2>6, <2>7, <2>8 DEF Explains, FlowState
  <2>10. QED BY <2>9
<1>4. CASE UNCHANGED <<fl, allow>>
  BY <1>4 DEF AllowanceExplained
<1>5. QED
  BY <1>1, <1>2, <1>3, <1>4, AllowanceLand
     DEF SteadyNext, LaneStep, IdentityStep, ClearError, Refuse, Connect, Disconnect, vars, chainVars

(* Whatever failed, landed late or was retried, an outstanding allowance of   *)
(* the steady user is that of an action whose approve landed and whose       *)
(* supply or repay did not, and is no more than that action asked for.       *)
THEOREM AllowanceExact == SteadySpec => []AllowanceExplained
<1>1. Init => AllowanceExplained
  BY DEF Init, AllowanceExplained
<1>2. QED
  BY <1>1, AllowanceNext, SteadyInductive, PTL DEF SteadySpec

-----------------------------------------------------------------------------
(* The lane implements ActionContract.                                     *)

Took(r) == (IF r.act \in Inflow THEN "supply" ELSE "sweep") \in r.landed
LEMMA TookBool == \A r : Took(r) \in BOOLEAN
BY DEF Took

Working(r) == ContractPhase(r.pc) = "working"
MappedPhase == [f \in Flows |-> ContractPhase(fl[f].pc)]
MappedEffect == [f \in Flows |-> Took(fl[f])]

(* What a step of flow f may do to f's report and to its effect.            *)
ReportStep(r, s) ==
  \/ ContractPhase(s.pc) = ContractPhase(r.pc) /\ Took(s) = Took(r)
  \/ /\ ContractPhase(r.pc) \in {"working", "failed"}
     /\ ContractPhase(s.pc) = ContractPhase(r.pc)
     /\ ~Took(r) /\ Took(s)
  \/ Working(r) /\ ContractPhase(s.pc) = "succeeded" /\ Took(r) /\ Took(s)
  \/ Working(r) /\ ContractPhase(s.pc) = "failed" /\ Took(s) = Took(r)

LEMMA OtherFlows ==
  ASSUME IInv, NEW f \in Flows, FlowStep(f)
  PROVE  \A g \in Flows : g # f => fl'[g] = fl[g]
BY DEF FlowStep, ReadPreconditions, ReadBaseSupply, BuildSweep, Prompt, Sign, Land, Landed,
       Advance, Succeed, Fail, Expire, Become, IInv, TypeOK, FlowType

LEMMA FlowReport ==
  ASSUME IInv, PlanInv, NEW f \in Flows, FlowStep(f)
  PROVE  ReportStep(fl[f], fl'[f])
<1> DEFINE r == fl[f]
           s == fl'[f]
<1>0. r \in FlowState /\ FlowPlanOK(r) /\ f \in DOMAIN fl
  BY DEF IInv, TypeOK, FlowType, PlanInv
<1>1. CASE ReadPreconditions(f) \/ ReadBaseSupply(f) \/ BuildSweep(f) \/ Prompt(f) \/ Sign(f)
           \/ Advance(f)
  <2> DEFINE on == {"read", "readBase", "build", "ready", "popup", "landed", "sent"}
             moved == r.pc \in on /\ s.pc \in on /\ s.act = r.act /\ s.landed = r.landed
  <2>1. moved
    <3>1. CASE ReadPreconditions(f)
      BY <1>0, <3>1 DEF ReadPreconditions, Become, FlowState
    <3>2. CASE ReadBaseSupply(f)
      BY <1>0, <3>2 DEF ReadBaseSupply, Become, FlowState
    <3>3. CASE BuildSweep(f)
      BY <1>0, <3>3 DEF BuildSweep, Become, FlowState
    <3>4. CASE Prompt(f)
      BY <1>0, <3>4 DEF Prompt, Become, FlowState
    <3>5. CASE Sign(f)
      BY <1>0, <3>5 DEF Sign, Become, FlowState
    <3>6. CASE Advance(f)
      BY <1>0, <3>6 DEF Advance, Become, FlowState
    <3>7. QED
      BY <1>1, <3>1, <3>2, <3>3, <3>4, <3>5, <3>6
  <2> HIDE DEF r, s
  <2>2. QED BY <2>1 DEF ReportStep, ContractPhase, Took, r, s
<1>2. CASE Land(f)
  <2>1. /\ \/ r.pc = "sent" /\ s.pc = "landed"
           \/ r.pc = "adrift" /\ s.pc = "failed"
        /\ s.act = r.act /\ s.landed = r.landed \cup {r.leg}
    BY <1>0, <1>2 DEF Land, Landed, Become, FlowState
  <2>2. r.landed = Before(r) /\ LegInPlan(r)
    BY <1>0, <2>1 DEF FlowPlanOK, Started
  <2> HIDE DEF r, s
  <2>3. ~Took(r)
    BY <2>2 DEF Took, Before, LegInPlan
  <2>4. r.leg = (IF r.act \in Inflow THEN "supply" ELSE "sweep") => Took(s)
    BY <2>1 DEF Took
  <2>5. r.leg # (IF r.act \in Inflow THEN "supply" ELSE "sweep") => Took(s) = Took(r)
    BY <2>1 DEF Took
  <2>6. ContractPhase(r.pc) \in {"working", "failed"} /\ ContractPhase(s.pc) = ContractPhase(r.pc)
    BY <2>1 DEF ContractPhase
  <2>7. ReportStep(r, s)
    BY <2>3, <2>4, <2>5, <2>6, Zenon DEF ReportStep, Working
  <2>8. QED BY <2>7 DEF r, s
<1>3. CASE Succeed(f)
  <2>1. /\ r.pc = "landed" /\ s.pc = "done" /\ s.act = r.act /\ s.landed = r.landed
        /\ LastLeg(r)
    BY <1>0, <1>3 DEF Succeed, Become, FlowState
  <2>2. r.landed = Before(r) \cup {r.leg} /\ LegInPlan(r)
    BY <1>0, <2>1 DEF FlowPlanOK, Started
  <2> HIDE DEF r, s
  <2>3. Took(r) /\ Took(s)
    BY <2>1, <2>2 DEF Took, LegInPlan, LastLeg
  <2>4. QED BY <2>1, <2>3 DEF ReportStep, ContractPhase, Working, r, s
<1>4. CASE Fail(f)
  <2>1. /\ r.pc \notin {"idle", "done", "failed", "adrift"} /\ s.pc \in {"failed", "adrift"}
        /\ s.act = r.act /\ s.landed = r.landed
    BY <1>0, <1>4 DEF Fail, Become, FlowState, InFlight
  <2> HIDE DEF r, s
  <2>2. Took(s) = Took(r)
    BY <2>1 DEF Took
  <2>3. ContractPhase(r.pc) = "working" /\ ContractPhase(s.pc) = "failed"
    BY <2>1 DEF ContractPhase
  <2>4. ReportStep(r, s)
    BY <2>2, <2>3, Zenon DEF ReportStep, Working
  <2>5. QED BY <2>4 DEF r, s
<1>6. CASE Expire(f)
  <2>1. r.pc = "adrift" /\ s.pc = "failed" /\ s.act = r.act /\ s.landed = r.landed
    BY <1>0, <1>6 DEF Expire, Become, FlowState
  <2> HIDE DEF r, s
  <2>2. QED BY <2>1 DEF ReportStep, ContractPhase, Took, r, s
<1>5. QED
  BY <1>1, <1>2, <1>3, <1>4, <1>6 DEF FlowStep

(* Nothing but a flow's own step changes a flow, except that Submit starts  *)
(* one.                                                                    *)
LEMMA Quiet ==
  ASSUME [Next]_vars, \A f \in Flows : ~FlowStep(f),
         \A f \in Flows, act \in ActionType, a \in Asset, amt \in Amounts : ~Submit(f, act, a, amt)
  PROVE  fl' = fl
BY DEF Next, LaneStep, IdentityStep, ClearError, Refuse, OtherTabSupplies, OtherTabWithdraws,
       Connect, Disconnect, vars

LEMMA SubmitReport ==
  ASSUME IInv, PlanInv, NEW f \in Flows, NEW act \in ActionType, NEW a \in Asset,
         NEW amt \in Amounts, Submit(f, act, a, amt)
  PROVE  Contract!Start(f)
<1> DEFINE r == fl[f]
           s == [FreshFlow EXCEPT !.pc = "read", !.act = act, !.asset = a, !.amt = amt, !.who = active]
<1>1. r.pc = "idle" /\ r.landed = {}
  BY DEF Submit, PlanInv, FlowPlanOK
<1>2. fl' = [fl EXCEPT ![f] = s] /\ fl \in [Flows -> FlowState]
  BY DEF Submit, Become, IInv, TypeOK, FlowType
<1>3. s.pc = "read" /\ s.landed = {}
  BY DEF FreshFlow
<1> HIDE DEF r, s
<1>4. fl'[f] = s /\ \A g \in Flows \ {f} : fl'[g] = fl[g]
  BY <1>2
<1>5. \A g \in Flows : ContractPhase(fl'[g].pc) =
                       IF g = f THEN "working" ELSE ContractPhase(fl[g].pc)
  BY <1>3, <1>4 DEF ContractPhase
<1>6. \A g \in Flows : Took(fl'[g]) = Took(fl[g])
  BY <1>1, <1>3, <1>4 DEF Took, r
<1>7. MappedPhase' = [MappedPhase EXCEPT ![f] = "working"]
  BY <1>5, Zenon DEF MappedPhase
<1>8. MappedEffect' = MappedEffect
  BY <1>6, Zenon DEF MappedEffect
<1>9. MappedPhase[f] = "idle"
  BY <1>1 DEF MappedPhase, ContractPhase, r
<1>10. QED
  BY <1>7, <1>8, <1>9 DEF Contract!Start, MappedPhase, MappedEffect, Took

LEMMA StepReport ==
  ASSUME IInv, PlanInv, NEW f \in Flows, FlowStep(f)
  PROVE  [Contract!Next]_Contract!vars
<1> DEFINE p == ContractPhase(fl'[f].pc)
           e == Took(fl'[f])
<1>1. \A g \in Flows : g # f => fl'[g] = fl[g]
  BY OtherFlows
<1>2. \A g \in Flows : ContractPhase(fl'[g].pc) = IF g = f THEN p ELSE ContractPhase(fl[g].pc)
  BY <1>1, Zenon
<1>3. \A g \in Flows : Took(fl'[g]) = IF g = f THEN e ELSE Took(fl[g])
  BY <1>1, Zenon
<1>4. ReportStep(fl[f], fl'[f])
  BY FlowReport
<1>5. \/ p = MappedPhase[f] /\ e = MappedEffect[f]
      \/ MappedPhase[f] \in {"working", "failed"} /\ p = MappedPhase[f] /\ ~MappedEffect[f] /\ e
      \/ MappedPhase[f] = "working" /\ p = "succeeded" /\ MappedEffect[f] /\ e = MappedEffect[f]
      \/ MappedPhase[f] = "working" /\ p = "failed" /\ e = MappedEffect[f]
  <2>1. MappedPhase[f] = ContractPhase(fl[f].pc) /\ MappedEffect[f] = Took(fl[f])
    BY DEF MappedPhase, MappedEffect
  <2>2. Took(fl[f]) \in BOOLEAN /\ e \in BOOLEAN
    BY TookBool, Zenon
  <2> HIDE DEF p, e
  <2>3. QED BY <1>4, <2>1, <2>2, Zenon DEF ReportStep, Working, p, e
<1>6. e \in BOOLEAN
  BY TookBool, Zenon
<1>7. MappedPhase' = [MappedPhase EXCEPT ![f] = p] /\ MappedEffect' = [MappedEffect EXCEPT ![f] = e]
  <2> HIDE DEF p, e
  <2>1. \A g \in Flows : MappedPhase'[g] = IF g = f THEN p ELSE MappedPhase[g]
    BY <1>2, Zenon DEF MappedPhase
  <2>2. \A g \in Flows : MappedEffect'[g] = IF g = f THEN e ELSE MappedEffect[g]
    BY <1>3, Zenon DEF MappedEffect
  <2>3. /\ MappedPhase = [g \in Flows |-> MappedPhase[g]] /\ MappedPhase' = [g \in Flows |-> MappedPhase'[g]]
        /\ MappedEffect = [g \in Flows |-> MappedEffect[g]] /\ MappedEffect' = [g \in Flows |-> MappedEffect'[g]]
    BY DEF MappedPhase, MappedEffect
  <2> HIDE DEF MappedPhase, MappedEffect
  <2>4. MappedPhase' = [MappedPhase EXCEPT ![f] = p]
    BY <2>1, <2>3
  <2>5. MappedEffect' = [MappedEffect EXCEPT ![f] = e]
    BY <2>2, <2>3
  <2>6. QED BY <2>4, <2>5
<1>8. DOMAIN MappedPhase = Flows /\ DOMAIN MappedEffect = Flows
  BY DEF MappedPhase, MappedEffect
<1> HIDE DEF p, e
<1>9. CASE p = MappedPhase[f] /\ e = MappedEffect[f]
  <2>1. MappedPhase' = MappedPhase /\ MappedEffect' = MappedEffect
    BY <1>7, <1>8, <1>9 DEF MappedPhase, MappedEffect
  <2>2. QED BY <2>1 DEF Contract!vars, MappedPhase, MappedEffect, Took
<1>10. CASE MappedPhase[f] \in {"working", "failed"} /\ p = MappedPhase[f] /\ ~MappedEffect[f] /\ e
  <2>1. MappedPhase' = MappedPhase
    BY <1>7, <1>8, <1>10 DEF MappedPhase
  <2>2. MappedEffect' = [MappedEffect EXCEPT ![f] = TRUE]
    BY <1>6, <1>7, <1>10, Zenon
  <2>3. Contract!TakeEffect(f)
    BY <1>10, <2>1, <2>2 DEF Contract!TakeEffect, MappedPhase, MappedEffect, Took
  <2>4. QED BY <2>3 DEF Contract!Next
<1>11. CASE MappedPhase[f] = "working" /\ p = "succeeded" /\ MappedEffect[f] /\ e = MappedEffect[f]
  <2>1. MappedEffect' = MappedEffect
    BY <1>7, <1>8, <1>11 DEF MappedEffect
  <2>2. Contract!ReportSuccess(f)
    BY <1>7, <1>11, <2>1 DEF Contract!ReportSuccess, MappedPhase, MappedEffect, Took
  <2>3. QED BY <2>2 DEF Contract!Next
<1>12. CASE MappedPhase[f] = "working" /\ p = "failed" /\ e = MappedEffect[f]
  <2>1. MappedEffect' = MappedEffect
    BY <1>7, <1>8, <1>12 DEF MappedEffect
  <2>2. Contract!ReportFailure(f)
    BY <1>7, <1>12, <2>1 DEF Contract!ReportFailure, MappedPhase, MappedEffect, Took
  <2>3. QED BY <2>2 DEF Contract!Next
<1>13. QED
  BY <1>5, <1>9, <1>10, <1>11, <1>12

(* The lane keeps the abstract contract of an action for any users, flows   *)
(* and amounts and under any interleaving of switches and failures.        *)
THEOREM LaneKeepsContract == Spec => ContractSpec
<1>1. Init => Contract!Init
  <2> SUFFICES ASSUME Init PROVE Contract!Init
    OBVIOUS
  <2>1. \A f \in Flows : ContractPhase(fl[f].pc) = "idle"
    BY DEF Init, FreshFlow, ContractPhase
  <2>2. \A f \in Flows : fl[f].landed = {}
    BY DEF Init, FreshFlow
  <2>3. \A f \in Flows : Took(fl[f]) = FALSE
    BY <2>2 DEF Took
  <2>4. QED BY <2>1, <2>3, Zenon DEF Contract!Init, Took
<1>2. Init => PlanInv
  BY DEF Init, PlanInv, FlowPlanOK, FreshFlow, Started
<1>3. IInv /\ PlanInv /\ [Next]_vars => [Contract!Next]_Contract!vars
  <2> SUFFICES ASSUME IInv, PlanInv, [Next]_vars
               PROVE  [Contract!Next]_Contract!vars
    OBVIOUS
  <2>1. CASE \E f \in Flows : FlowStep(f)
    BY <2>1, StepReport
  <2>2. CASE \E f \in Flows, act \in ActionType, a \in Asset, amt \in Amounts : Submit(f, act, a, amt)
    BY <2>2, SubmitReport DEF Contract!Next
  <2>3. CASE fl' = fl
    BY <2>3 DEF Contract!vars
  <2>4. QED
    BY <2>1, <2>2, <2>3, Quiet
<1>4. QED
  BY <1>1, <1>2, <1>3, IInit, INext, PlanNext, PTL DEF Spec, ContractSpec, Contract!Spec

-----------------------------------------------------------------------------
(* Tokens left in the synthetic.                                           *)

LEMMA ResidueInt ==
  ASSUME NEW r \in FlowState, NEW u \in Users, NEW a \in Asset
  PROVE  Residue(r, u, a) \in Int
<1>1. r.amt \in Int /\ WithdrawAmount(r) \in Int
  BY DEF FlowState, WithdrawAmount
<1>2. QED
  BY <1>1 DEF Residue

(* A flow none of whose legs landed has left nothing.                        *)
LEMMA NothingLanded ==
  ASSUME NEW r, r.landed = {}, NEW u, NEW a
  PROVE  Residue(r, u, a) = 0
BY DEF Residue

(* The step that lands a leg changes the synthetic by what the leg adds to    *)
(* its flow's residue.                                                     *)
LEMMA LandResidue ==
  ASSUME SteadyIInv, NEW f \in Flows, Land(f), NEW u \in Users, NEW a \in Asset
  PROVE  syn'[u][a] - syn[u][a] = Residue(fl'[f], u, a) - Residue(fl[f], u, a)
<1> DEFINE r == fl[f]
           s == fl'[f]
<1>1. r \in FlowState /\ f \in DOMAIN fl /\ r.pc \in {"sent", "adrift"}
  BY DEF SteadyIInv, IInv, TypeOK, FlowType, Land
<1>2. /\ s.who = r.who /\ s.asset = r.asset /\ s.amt = r.amt /\ s.drained = r.drained
      /\ s.landed = r.landed \cup {r.leg}
  BY <1>1 DEF Land, Landed, Become, FlowState
<1>3. r.landed = Before(r) /\ LegInPlan(r)
  BY <1>1 DEF SteadyIInv, PlanInv, FlowPlanOK, Started
<1>4. r.by = r.who
  BY <1>1, SteadyOwn DEF SteadyIInv, CapturedSender, OwnLeg
<1>5. r.who \in Users /\ r.asset \in Asset /\ r.amt \in Int /\ WithdrawAmount(r) \in Int
  BY <1>1 DEF SteadyIInv, IInv, IdentityOK, FlowState, WithdrawAmount
<1>6. WithdrawAmount(s) = WithdrawAmount(r)
  BY <1>2 DEF WithdrawAmount
<1>7. syn \in [Users -> [Asset -> Int]]
  BY DEF SteadyIInv, IInv, TypeOK, ChainType
<1>9. syn[u][a] \in Int
  BY <1>7
<1>l. LandFund(f) \/ LandApprove(f) \/ LandSupply(f) \/ LandWithdraw(f) \/ LandAta(f) \/ LandSweep(f)
  BY DEF Land
<1> DEFINE here == r.who = u /\ r.asset = a
           d == CASE r.leg = "fund" -> r.amt
                  [] r.leg = "supply" -> -r.amt
                  [] r.leg = "withdraw" -> WithdrawAmount(r)
                  [] r.leg = "sweep" -> -r.amt
                  [] OTHER -> 0
<1>10. syn'[u][a] = syn[u][a] + (IF here THEN d ELSE 0)
  <2>1. CASE LandFund(f)
    BY <1>4, <1>5, <1>7, <1>9, <2>1 DEF LandFund
  <2>2. CASE LandApprove(f)
    BY <1>9, <2>2 DEF LandApprove
  <2>3. CASE LandSupply(f)
    BY <1>4, <1>5, <1>7, <1>9, <2>3 DEF LandSupply
  <2>4. CASE LandWithdraw(f)
    BY <1>4, <1>5, <1>7, <1>9, <2>4 DEF LandWithdraw
  <2>5. CASE LandAta(f)
    BY <1>9, <2>5 DEF LandAta
  <2>6. CASE LandSweep(f)
    BY <1>4, <1>5, <1>7, <1>9, <2>6 DEF LandSweep
  <2>7. QED
    BY <1>l, <2>1, <2>2, <2>3, <2>4, <2>5, <2>6
<1>11. r.leg \notin r.landed /\ r.leg \in Leg
  BY <1>1, <1>3 DEF Before, LegInPlan, FlowState
<1> DEFINE x == WithdrawAmount(r)
           w == r.amt
<1>x. x \in Int /\ w \in Int /\ s.amt = w /\ WithdrawAmount(s) = x
  BY <1>2, <1>5, <1>6
<1>12. d = CASE r.leg = "fund" -> w
             [] r.leg = "supply" -> -w
             [] r.leg = "withdraw" -> x
             [] r.leg = "sweep" -> -w
             [] OTHER -> 0
  OBVIOUS
<1>13. Residue(s, u, a) - Residue(r, u, a) = IF here THEN d ELSE 0
  <2>1. Residue(r, u, a) =
          IF here THEN (IF "fund" \in r.landed THEN w ELSE 0) - (IF "supply" \in r.landed THEN w ELSE 0)
                       + (IF "withdraw" \in r.landed THEN x ELSE 0) - (IF "sweep" \in r.landed THEN w ELSE 0)
          ELSE 0
    BY DEF Residue
  <2>2. Residue(s, u, a) =
          IF here THEN (IF "fund" \in s.landed THEN w ELSE 0) - (IF "supply" \in s.landed THEN w ELSE 0)
                       + (IF "withdraw" \in s.landed THEN x ELSE 0) - (IF "sweep" \in s.landed THEN w ELSE 0)
          ELSE 0
    BY <1>2, <1>x DEF Residue
  <2> HIDE DEF r, s, x, w, d, here
  <2>3. QED
    BY <1>2, <1>11, <1>12, <1>x, <2>1, <2>2 DEF Leg
<1>14. d \in Int
  BY <1>x, <1>12
<1> HIDE DEF r, s, d, here
<1>15. Residue(r, u, a) \in Int
  BY <1>1, ResidueInt
<1>17. Residue(s, u, a) \in Int
  <2>1. FlowType'
    BY FlowTypeStep DEF SteadyIInv, FlowStep
  <2>2. QED BY <2>1, ResidueInt DEF FlowType, s
<1>16. QED
  BY <1>9, <1>10, <1>13, <1>14, <1>15, <1>17 DEF r, s

(* Every step of the flow accounts for what it leaves in the synthetic.       *)
LEMMA FlowResidue ==
  ASSUME SteadyIInv, NEW f \in Flows, FlowStep(f), NEW u \in Users, NEW a \in Asset
  PROVE  syn'[u][a] - syn[u][a] = Residue(fl'[f], u, a) - Residue(fl[f], u, a)
<1> DEFINE r == fl[f]
           s == fl'[f]
<1>1. r \in FlowState /\ f \in DOMAIN fl /\ FlowPlanOK(r)
  BY DEF SteadyIInv, IInv, TypeOK, FlowType, PlanInv
<1>2. CASE Land(f)
  BY <1>2, LandResidue
<1>3. ASSUME ~Land(f) PROVE syn' = syn
  BY <1>3 DEF FlowStep, ReadPreconditions, ReadBaseSupply, BuildSweep, Prompt, Sign, Advance,
              Succeed, Fail, Expire, chainVars
<1>4. ASSUME ~Land(f) PROVE Residue(s, u, a) = Residue(r, u, a)
  <2>1. CASE ReadBaseSupply(f)
    <3>1. r.pc = "readBase" /\ s.landed = r.landed
      BY <1>1, <2>1 DEF ReadBaseSupply, Become, FlowState
    <3>2. r.landed = {}
      BY <1>1, <3>1 DEF FlowPlanOK, Before
    <3>3. QED BY <3>1, <3>2, NothingLanded
  <2>2. CASE ~ReadBaseSupply(f)
    <3>1. /\ s.who = r.who /\ s.asset = r.asset /\ s.amt = r.amt /\ s.drained = r.drained
          /\ s.landed = r.landed
      <4> USE <1>1 DEF Become, FlowState
      <4>1. CASE ReadPreconditions(f)
        BY <4>1 DEF ReadPreconditions
      <4>2. CASE BuildSweep(f)
        BY <4>2 DEF BuildSweep
      <4>3. CASE Prompt(f)
        BY <4>3 DEF Prompt
      <4>4. CASE Sign(f)
        BY <4>4 DEF Sign
      <4>5. CASE Advance(f)
        BY <4>5 DEF Advance
      <4>6. CASE Succeed(f)
        BY <4>6 DEF Succeed
      <4>7. CASE Fail(f) \/ Expire(f)
        BY <4>7 DEF Fail, Expire
      <4>8. QED
        BY <1>4, <2>2, <4>1, <4>2, <4>3, <4>4, <4>5, <4>6, <4>7 DEF FlowStep
    <3> HIDE DEF r, s
    <3>2. QED BY <3>1 DEF Residue, WithdrawAmount
  <2>3. QED BY <2>1, <2>2
<1>5. syn[u][a] \in Int /\ Residue(r, u, a) \in Int
  BY <1>1, ResidueInt DEF SteadyIInv, IInv, TypeOK, ChainType
<1>6. CASE ~Land(f)
  BY <1>3, <1>4, <1>5, <1>6
<1>7. QED
  BY <1>2, <1>6

(* Starting a flow neither moves tokens nor adds a residue.                   *)
LEMMA SubmitResidue ==
  ASSUME SteadyIInv, NEW f \in Flows, NEW act \in ActionType, NEW b \in Asset, NEW amt \in Amounts,
         Submit(f, act, b, amt), NEW u \in Users, NEW a \in Asset
  PROVE  syn'[u][a] - syn[u][a] = Residue(fl'[f], u, a) - Residue(fl[f], u, a)
<1>1. fl[f].landed = {}
  BY DEF SteadyIInv, PlanInv, FlowPlanOK, Submit
<1>2. fl'[f].landed = {}
  <2>1. f \in DOMAIN fl
    BY DEF SteadyIInv, IInv, TypeOK, FlowType
  <2>2. QED BY <2>1 DEF Submit, Become, FreshFlow
<1>3. Residue(fl'[f], u, a) = 0 /\ Residue(fl[f], u, a) = 0
  BY <1>1, <1>2, NothingLanded
<1>4. syn' = syn /\ syn[u][a] \in Int
  BY DEF Submit, chainVars, SteadyIInv, IInv, TypeOK, ChainType
<1>5. QED
  BY <1>3, <1>4

(* One flow moves, so the sum moves by that flow's residue alone.             *)
LEMMA ExplainedByOne ==
  ASSUME SteadyIInv, SteadyIInv', SyntheticExplained, NEW f \in Flows,
         \A g \in Flows : g # f => fl'[g] = fl[g],
         \A u \in Users, a \in Asset :
           syn'[u][a] - syn[u][a] = Residue(fl'[f], u, a) - Residue(fl[f], u, a)
  PROVE  SyntheticExplained'
<1> SUFFICES ASSUME NEW u \in Users, NEW a \in Asset
             PROVE  syn'[u][a] = SumFunction([g \in Flows |-> Residue(fl'[g], u, a)])
  BY DEF SyntheticExplained, Residues
<1> DEFINE m == [g \in Flows |-> Residue(fl[g], u, a)]
           n == [g \in Flows |-> Residue(fl'[g], u, a)]
<1>1. \A g \in Flows : fl[g] \in FlowState /\ fl'[g] \in FlowState
  BY DEF SteadyIInv, IInv, TypeOK, FlowType
<1>2. Summable(m, Flows) /\ Summable(n, Flows)
  BY <1>1, FlowsAssumption, ResidueInt DEF Summable
<1>3. SameOn(n, m, Flows \ {f})
  BY DEF SameOn
<1>4. n[f] - m[f] = syn'[u][a] - syn[u][a]
  OBVIOUS
<1>5. syn[u][a] = SumFunctionOnSet(m, Flows)
  BY DEF SyntheticExplained, Residues, SumFunction
<1>6. SumFunction(n) = SumFunctionOnSet(n, Flows)
  BY DEF SumFunction
<1>7. syn[u][a] \in Int /\ syn'[u][a] \in Int
  BY DEF SteadyIInv, IInv, TypeOK, ChainType
<1> HIDE DEF m, n
<1>8. SumFunctionOnSet(n, Flows) = SumFunctionOnSet(m, Flows) + (n[f] - m[f])
  BY <1>2, <1>3, SumChanges
<1>9. QED
  BY <1>4, <1>5, <1>6, <1>7, <1>8 DEF n

LEMMA ExplainedNext ==
  ASSUME SteadyIInv, SteadyIInv', SyntheticExplained, [SteadyNext]_vars
  PROVE  SyntheticExplained'
<1>1. ASSUME NEW f \in Flows, NEW act \in ActionType, NEW b \in Asset, NEW amt \in Amounts,
             Submit(f, act, b, amt)
      PROVE  SyntheticExplained'
  <2>1. \A g \in Flows : g # f => fl'[g] = fl[g]
    BY <1>1 DEF Submit, Become, SteadyIInv, IInv, TypeOK, FlowType
  <2>2. QED
    BY <1>1, <2>1, SubmitResidue, ExplainedByOne
<1>2. ASSUME NEW f \in Flows, FlowStep(f) PROVE SyntheticExplained'
  <2>1. \A g \in Flows : g # f => fl'[g] = fl[g]
    BY <1>2, FlowFrame DEF SteadyIInv
  <2>2. QED
    BY <1>2, <2>1, FlowResidue, ExplainedByOne
<1>3. CASE UNCHANGED <<syn, fl>>
  BY <1>3 DEF SyntheticExplained, Residues
<1>4. QED
  BY <1>1, <1>2, <1>3 DEF SteadyNext, LaneStep, IdentityStep, ClearError, Refuse, OtherTabSupplies,
                          OtherTabWithdraws, Connect, Disconnect, vars, chainVars

LEMMA ExplainedInit == Init => SyntheticExplained
<1> SUFFICES ASSUME Init, NEW u \in Users, NEW a \in Asset
             PROVE  syn[u][a] = SumFunction(Residues(u, a))
  BY DEF SyntheticExplained
<1>1. syn[u][a] = 0
  BY DEF Init
<1>2. \A f \in Flows : Residues(u, a)[f] = 0
  <2>1. \A f \in Flows : fl[f].landed = {}
    BY DEF Init, FreshFlow
  <2>2. \A f \in Flows : Residue(fl[f], u, a) = 0
    BY <2>1, NothingLanded
  <2>3. QED BY <2>2 DEF Residues
<1>3. SumFunctionOnSet(Residues(u, a), Flows) = 0
  BY <1>2, SumZero, FlowsAssumption
<1>4. QED
  BY <1>1, <1>3 DEF SumFunction, Residues

(* However many actions failed half-way, what is left in a user's synthetic   *)
(* is exactly what the legs that landed left there, while the wallet changes *)
(* only between flows: no leg strands anything that is not accounted for.    *)
THEOREM SyntheticExact == SteadySpec => []SyntheticExplained
BY ExplainedInit, ExplainedNext, SteadyInductive, PTL DEF SteadySpec

-----------------------------------------------------------------------------
(* The debt that a borrow opens.                                           *)

(* A borrow whose withdraw has not landed holds the base supply that its user *)
(* still has, unless the account has executed something since the read.     *)
DrainHeld(r) ==
  /\ r.act = "borrow" => r.asset = "base"
  /\ r.act = "borrow" /\ r.leg = "withdraw" /\ r.pc \in {"ready", "popup", "sent", "adrift"} =>
       /\ r.since <= nonce[r.who]
       /\ r.since = nonce[r.who] => r.drained = BaseSupply(r.who)
DrainInv == \A f \in Flows : DrainHeld(fl[f])

(* Nonces only grow, and a position moves only with its account's nonce:     *)
(* every transaction that touches it carries one.                          *)
LEMMA PositionFrame ==
  ASSUME IInv, [Next]_vars, NEW u \in Users
  PROVE  /\ nonce[u] \in Nat /\ nonce'[u] \in Nat /\ nonce[u] <= nonce'[u]
         /\ nonce'[u] = nonce[u] => pos'[u] = pos[u]
<1>1. nonce \in [Users -> Nat] /\ pos \in [Users -> [Asset -> Int]]
  BY DEF IInv, TypeOK, ChainType
<1>2. ASSUME NEW f \in Flows, Land(f)
      PROVE  /\ nonce'[u] \in Nat /\ nonce[u] <= nonce'[u]
             /\ nonce'[u] = nonce[u] => pos'[u] = pos[u]
  <2>1. fl[f].by \in Users
    BY <1>2 DEF Land, IInv, IdentityOK
  <2>2. nonce'[u] = IF Nonced(fl[f]) /\ u = fl[f].by THEN nonce[u] + 1 ELSE nonce[u]
    BY <1>1, <1>2, <2>1 DEF Land, Landed
  <2>3. CASE fl[f].leg \in {"supply", "withdraw"}
    <3>1. Nonced(fl[f])
      BY <2>3 DEF Nonced
    <3>2. u # fl[f].by => pos'[u] = pos[u]
      BY <1>1, <1>2, <2>1, <2>3 DEF Land, LandFund, LandApprove, LandSupply, LandWithdraw, LandAta,
                                    LandSweep
    <3>3. QED BY <1>1, <2>2, <3>1, <3>2
  <2>4. CASE fl[f].leg \notin {"supply", "withdraw"}
    <3>1. pos' = pos
      BY <1>2, <2>4 DEF Land, LandFund, LandApprove, LandSupply, LandWithdraw, LandAta, LandSweep
    <3>2. QED BY <1>1, <2>2, <3>1
  <2>5. QED BY <2>3, <2>4
<1>3. ASSUME NEW v \in Users, NEW d \in Amounts, OtherTabSupplies(v, d) \/ OtherTabWithdraws(v, d)
      PROVE  /\ nonce'[u] \in Nat /\ nonce[u] <= nonce'[u]
             /\ nonce'[u] = nonce[u] => pos'[u] = pos[u]
  <2>1. nonce' = [nonce EXCEPT ![v] = @ + 1] /\ (u # v => pos'[u] = pos[u])
    BY <1>1, <1>3 DEF OtherTabSupplies, OtherTabWithdraws
  <2>2. QED BY <1>1, <2>1
<1>4. ASSUME UNCHANGED chainVars
      PROVE  /\ nonce'[u] \in Nat /\ nonce[u] <= nonce'[u]
             /\ nonce'[u] = nonce[u] => pos'[u] = pos[u]
  BY <1>1, <1>4 DEF chainVars
<1>5. /\ nonce'[u] \in Nat /\ nonce[u] <= nonce'[u]
      /\ nonce'[u] = nonce[u] => pos'[u] = pos[u]
  BY <1>2, <1>3, <1>4
     DEF Next, LaneStep, IdentityStep, FlowStep, Submit, ReadPreconditions, ReadBaseSupply, BuildSweep,
         Prompt, Sign, Advance, Succeed, Fail, Expire, ClearError, Refuse, Connect, Disconnect, vars,
         chainVars
<1>6. QED
  BY <1>1, <1>5

(* A borrow whose record did not change still holds what it read.           *)
LEMMA HeldKept ==
  ASSUME SteadyIInv, DrainInv, [Next]_vars, NEW g \in Flows, fl'[g] = fl[g]
  PROVE  DrainHeld(fl[g])'
<1> DEFINE r == fl[g]
<1>1. r \in FlowState /\ DrainHeld(r)
  BY DEF SteadyIInv, IInv, TypeOK, FlowType, DrainInv
<1>2. CASE r.pc \in {"ready", "popup", "sent", "adrift"}
  <2>1. r.who \in Users /\ r.since \in Nat
    BY <1>1, <1>2 DEF SteadyIInv, IInv, IdentityOK, FlowState
  <2>2. PICK u \in Users : u = r.who
    BY <2>1
  <2>3. /\ nonce[u] \in Nat /\ nonce'[u] \in Nat /\ nonce[u] <= nonce'[u]
        /\ nonce'[u] = nonce[u] => pos'[u] = pos[u]
    BY PositionFrame DEF SteadyIInv
  <2>4. QED BY <1>1, <1>2, <2>1, <2>2, <2>3 DEF DrainHeld, BaseSupply
<1>3. CASE r.pc \notin {"ready", "popup", "sent", "adrift"}
  BY <1>1, <1>3 DEF DrainHeld
<1>4. QED BY <1>2, <1>3

LEMMA DrainStep ==
  ASSUME SteadyIInv, DrainInv, NEW f \in Flows, FlowStep(f)
  PROVE  DrainInv'
<1> DEFINE r == fl[f]
           s == fl'[f]
<1>1. r \in FlowState /\ f \in DOMAIN fl /\ DrainHeld(r) /\ FlowPlanOK(r)
  BY DEF SteadyIInv, IInv, TypeOK, FlowType, DrainInv, PlanInv
<1>2. \A g \in Flows : g # f => fl'[g] = fl[g]
  BY FlowFrame DEF SteadyIInv
<1>3. \A g \in Flows : g # f => DrainHeld(fl[g])'
  BY <1>2, HeldKept DEF Next, LaneStep
<1>4. DrainHeld(fl[f])'
  <2> USE <1>1 DEF Become, FlowState
  <2>1. CASE ReadPreconditions(f)
    <3>1. /\ s.act = r.act /\ s.asset = r.asset
          /\ s.pc = IF r.act = "borrow" THEN "readBase" ELSE "ready"
      BY <2>1 DEF ReadPreconditions
    <3>2. QED BY <3>1 DEF DrainHeld
  <2>2. CASE ReadBaseSupply(f)
    <3>1. /\ s.act = r.act /\ s.asset = r.asset /\ s.who = r.who
          /\ s.drained = BaseSupply(r.who) /\ s.since = nonce[r.who]
          /\ pos' = pos /\ nonce' = nonce
      BY <2>2 DEF ReadBaseSupply, chainVars
    <3>2. nonce[r.who] \in Nat
      BY <2>2 DEF ReadBaseSupply, SteadyIInv, IInv, IdentityOK, TypeOK, ChainType
    <3>3. QED BY <3>1, <3>2 DEF DrainHeld, BaseSupply
  <2>3. CASE BuildSweep(f)
    <3>1. s.act = r.act /\ s.asset = r.asset /\ s.leg = r.leg /\ r.leg # "withdraw"
      BY <2>3 DEF BuildSweep, FlowPlanOK
    <3>2. QED BY <3>1 DEF DrainHeld
  <2>4. CASE Prompt(f) \/ Sign(f) \/ Fail(f)
    <3>1. /\ s.act = r.act /\ s.asset = r.asset /\ s.leg = r.leg /\ s.who = r.who
          /\ s.drained = r.drained /\ s.since = r.since
          /\ s.pc \in {"popup", "sent", "adrift"} => r.pc \in {"ready", "popup", "sent"}
          /\ s.pc \in {"popup", "sent", "adrift", "failed"}
          /\ pos' = pos /\ nonce' = nonce
      <4>1. CASE Prompt(f)
        BY <4>1 DEF Prompt, chainVars
      <4>2. CASE Sign(f)
        BY <4>2 DEF Sign, chainVars
      <4>3. CASE Fail(f)
        BY <4>3 DEF Fail, chainVars
      <4>4. QED BY <2>4, <4>1, <4>2, <4>3
    <3>2. QED BY <3>1 DEF DrainHeld, BaseSupply
  <2>5. CASE Land(f) \/ Succeed(f) \/ Expire(f)
    <3>1. s.act = r.act /\ s.asset = r.asset /\ s.pc \in {"landed", "done", "failed"}
      <4>1. CASE Land(f)
        BY <4>1 DEF Land, Landed
      <4>2. CASE Succeed(f)
        BY <4>2 DEF Succeed
      <4>3. CASE Expire(f)
        BY <4>3 DEF Expire
      <4>4. QED BY <2>5, <4>1, <4>2, <4>3
    <3>2. QED BY <3>1 DEF DrainHeld
  <2>6. CASE Advance(f)
    <3>1. s.act = r.act /\ s.asset = r.asset /\ s.leg # "withdraw"
      BY <2>6 DEF Advance
    <3>2. QED BY <3>1 DEF DrainHeld
  <2>7. QED
    BY <2>1, <2>2, <2>3, <2>4, <2>5, <2>6 DEF FlowStep
<1>5. QED
  BY <1>3, <1>4 DEF DrainInv

LEMMA DrainNext == SteadyIInv /\ DrainInv /\ [SteadyNext]_vars => DrainInv'
<1> SUFFICES ASSUME SteadyIInv, DrainInv, [SteadyNext]_vars PROVE DrainInv'
  OBVIOUS
<1>1. ASSUME NEW f \in Flows, NEW act \in ActionType, NEW b \in Asset, NEW amt \in Amounts,
             Submit(f, act, b, amt)
      PROVE  DrainInv'
  <2>1. \A g \in Flows : g # f => fl'[g] = fl[g]
    BY <1>1 DEF Submit, Become, SteadyIInv, IInv, TypeOK, FlowType
  <2>2. fl'[f].pc = "read" /\ fl'[f].act = act /\ fl'[f].asset = b
    BY <1>1 DEF Submit, Become, FreshFlow, SteadyIInv, IInv, TypeOK, FlowType
  <2>3. act = "borrow" => b = "base"
    BY <1>1 DEF Submit, Offered
  <2>4. pos' = pos /\ nonce' = nonce
    BY <1>1 DEF Submit, chainVars
  <2>5. QED
    BY <2>1, <2>2, <2>3, <2>4 DEF DrainInv, DrainHeld, BaseSupply
<1>2. ASSUME NEW f \in Flows, FlowStep(f) PROVE DrainInv'
  BY <1>2, DrainStep
<1>3. CASE fl' = fl
  BY <1>3, HeldKept DEF DrainInv, SteadyNext, Next
<1>5. QED
  BY <1>1, <1>2, <1>3 DEF SteadyNext, LaneStep, IdentityStep, ClearError, Refuse, OtherTabSupplies,
                          OtherTabWithdraws, Connect, Disconnect, vars

LEMMA BorrowStep ==
  ASSUME SteadyIInv, DrainInv, [SteadyNext]_vars, NEW f \in Flows, BorrowLands(f),
         nonce[fl[f].by] = fl[f].since
  PROVE  Debt(fl[f].by)' = Debt(fl[f].by) + fl[f].amt
<1> DEFINE r == fl[f]
           s == fl'[f]
<1>1. r \in FlowState /\ f \in DOMAIN fl /\ DrainHeld(r) /\ FlowPlanOK(r)
  BY DEF SteadyIInv, IInv, TypeOK, FlowType, DrainInv, PlanInv
<1>2. /\ r.pc \in {"sent", "adrift"} /\ r.leg = "withdraw" /\ r.act = "borrow" /\ r.asset = "base"
      /\ r.leg \in s.landed
  BY <1>1 DEF BorrowLands, Lands, DrainHeld
<1>3. r.by = r.who /\ r.who \in Users
  BY <1>2, SteadyOwn DEF SteadyIInv, CapturedSender, OwnLeg, IInv, IdentityOK
<1>4. r.drained = BaseSupply(r.who)
  BY <1>1, <1>2, <1>3 DEF DrainHeld
<1>5. Land(f)
  <2>1. r.leg \notin r.landed
    BY <1>1, <1>2 DEF FlowPlanOK, Before
  <2>2. fl'[f] # fl[f]
    BY <1>2, <2>1
  <2>3. ASSUME NEW g \in Flows, g # f, FlowStep(g) PROVE FALSE
    BY <2>2, <2>3, FlowFrame DEF SteadyIInv
  <2>4. ASSUME NEW g \in Flows, NEW act \in ActionType, NEW b \in Asset, NEW amt \in Amounts,
               Submit(g, act, b, amt)
        PROVE  FALSE
    <3>1. g # f /\ fl[g].pc = "idle"
      BY <1>2, <2>4 DEF Submit
    <3>2. QED BY <2>2, <2>4, <3>1 DEF Submit, Become
  <2>5. FlowStep(f)
    BY <2>2, <2>3, <2>4 DEF SteadyNext, LaneStep, IdentityStep, ClearError, Refuse, OtherTabSupplies,
                            OtherTabWithdraws, Connect, Disconnect, vars
  <2>6. QED
    BY <1>2, <2>1, <2>5, KeepsRequest DEF SteadyIInv
<1>6. LandWithdraw(f)
  BY <1>2, <1>5 DEF Land, LandFund, LandApprove, LandSupply, LandAta, LandSweep
<1> DEFINE n == pos[r.who]["base"]
           w == r.amt
<1>7. n \in Int /\ w \in Nat
  BY <1>1, <1>3 DEF SteadyIInv, IInv, TypeOK, ChainType, Asset, FlowState
<1>8. pos'[r.who]["base"] = n - (r.drained + w)
  BY <1>2, <1>3, <1>6 DEF LandWithdraw, WithdrawAmount, SteadyIInv, IInv, TypeOK, ChainType, Asset
<1>9. s.by = r.by
  BY <1>1, <1>5 DEF Land, Landed, Become, FlowState
<1>10. r.drained = IF n > 0 THEN n ELSE 0
  BY <1>4 DEF BaseSupply
<1>11. Debt(r.by) = IF n < 0 THEN -n ELSE 0
  BY <1>3 DEF Debt
<1>12. Debt(fl[f].by)' = IF pos'[r.who]["base"] < 0 THEN -pos'[r.who]["base"] ELSE 0
  BY <1>3, <1>9 DEF Debt
<1> HIDE DEF n, w
<1>13. Debt(fl[f].by)' = Debt(r.by) + w
  BY <1>7, <1>8, <1>10, <1>11, <1>12
<1>14. QED
  BY <1>13 DEF w, r

(* A borrow that lands, even after its flow was reported failed, opens        *)
(* exactly the debt that was asked for, whatever base supply it had to drain *)
(* and whatever earlier actions left behind, unless another transaction of   *)
(* the account executed since doBorrow read that supply.                    *)
THEOREM BorrowExact == SteadySpec => BorrowOpensAmount
<1>1. Init => DrainInv
  BY DEF Init, DrainInv, DrainHeld, FreshFlow
<1>2. SteadyIInv /\ DrainInv /\ [SteadyNext]_vars =>
        [\A f \in Flows : BorrowLands(f) /\ nonce[fl[f].by] = fl[f].since =>
           Debt(fl[f].by)' = Debt(fl[f].by) + fl[f].amt]_vars
  BY BorrowStep
<1>3. QED
  BY <1>1, <1>2, DrainNext, SteadyInductive, PTL DEF SteadySpec, BorrowOpensAmount
=============================================================================
