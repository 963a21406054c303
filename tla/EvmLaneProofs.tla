----------------------------- MODULE EvmLaneProofs -----------------------------
(***************************************************************************)
(* Proofs about EvmLane, for any set of users, flows and amounts.  The       *)
(* conjunction FlowIsExact and the two kinds of behaviour that the last        *)
(* theorem speaks of are those of MCEvmLane.                                *)
(***************************************************************************)
EXTENDS MCEvmLane, TLAPS

(* The legs of r's plan that come before its current leg.                   *)
Before(r) == IF r.leg = "act" /\ r.extra THEN {"approve"} ELSE {}

(* What is known of a flow's record: which legs have a receipt tells where    *)
(* the flow is, and who signs is who started.                               *)
FlowOK(r) ==
  /\ r.pc # "idle" => r.who \in Users
  /\ r.pc \in {"popup", "sent", "done"} => r.by = r.who
  /\ r.pc \in {"idle", "read"} => r.mined = {}
  /\ r.pc \in {"ready", "popup"} => r.mined = Before(r)
  /\ r.pc = "sent" => r.mined \in {Before(r), Before(r) \cup {r.leg}}
  /\ r.pc = "done" => r.leg = "act" /\ r.mined = Before(r) \cup {"act"}
  /\ r.leg = "approve" => r.extra /\ "act" \notin r.mined
  /\ r.extra => r.act \in Inflow
  /\ "approve" \in r.mined => r.extra
  /\ r.landed \subseteq r.mined

(* What is pending of flow f is its current leg, signed by its user and       *)
(* without a receipt, and a sent leg is either pending or has one.            *)
PendingOK(f) ==
  LET r == fl[f] IN
  /\ \A leg \in Leg : <<f, leg>> \in mem =>
       leg = r.leg /\ r.pc \in {"sent", "failed"} /\ r.by = r.who /\ leg \notin r.mined
  /\ r.pc = "sent" /\ <<f, r.leg>> \notin mem => r.leg \in r.mined

(* An allowance in place is what is left of the last approval, and the flow    *)
(* that made it has not supplied yet.                                       *)
AllowanceExplained ==
  \A u \in Users, a \in Asset : allow[u][a] # 0 =>
    \E f \in Flows : /\ fl[f].who = u /\ fl[f].asset = a
                     /\ "approve" \in fl[f].landed /\ "act" \notin fl[f].landed
                     /\ allow[u][a] <= fl[f].amt

IInv == TypeOK /\ (\A f \in Flows : FlowOK(fl[f]) /\ PendingOK(f)) /\ AllowanceExplained

(* A flow in flight holds the signing screen, and with it the plan.            *)
FlowSteady(f) ==
  InFlight(f) =>
    /\ ui.signing /\ ~ui.error
    /\ \A g \in Flows : g # f => ~InFlight(g)
    /\ fl[f].pc # "read" => ui.plan = SignSteps(fl[f].extra)
    /\ fl[f].pc = "popup" => ui.step = IF fl[f].extra /\ fl[f].leg = "act" THEN 1 ELSE 0

SteadyInv == (~ui.signing => ui.plan = <<>>) /\ \A f \in Flows : FlowSteady(f)

-----------------------------------------------------------------------------
(* What one step does to a flow's record.                                  *)

LEMMA BecomeType ==
  ASSUME TypeOK, NEW f \in Flows, NEW r \in FlowState, Become(f, r)
  PROVE  fl' \in [Flows -> FlowState] /\ fl'[f] = r /\ \A g \in Flows : g # f => fl'[g] = fl[g]
BY DEF TypeOK, Become

(* The record f has after a step of its own, written out.                    *)
LEMMA FlowShape ==
  ASSUME IInv, NEW f \in Flows, FlowStep(f) \/ Mine(f) \/ MineNothing(f)
  PROVE  /\ fl' \in [Flows -> FlowState]
         /\ \A g \in Flows : g # f => fl'[g] = fl[g]
         /\ fl'[f].act = fl[f].act /\ fl'[f].asset = fl[f].asset /\ fl'[f].amt = fl[f].amt
         /\ fl'[f].who = fl[f].who
<1> DEFINE r == fl[f]
<1>0. r \in FlowState /\ TypeOK
  BY DEF IInv, TypeOK
<1> HIDE DEF r
<1>p. \A p \in Phase : [r EXCEPT !.pc = p] \in FlowState
  BY <1>0 DEF FlowState
<1>1. CASE ReadAllowance(f)
  <2> DEFINE needs == r.act \in Inflow /\ allow[r.who][r.asset] < r.amt
             s == [r EXCEPT !.pc = "ready", !.extra = needs, !.leg = IF needs THEN "approve" ELSE "act"]
  <2>1. Become(f, s)
    BY <1>1 DEF ReadAllowance, r
  <2>2. needs \in BOOLEAN
    BY DEF Inflow
  <2>3. s \in FlowState
    <3> HIDE DEF needs
    <3>1. QED BY <1>0, <2>2 DEF FlowState, Phase, Leg
  <2>4. s.act = r.act /\ s.asset = r.asset /\ s.amt = r.amt /\ s.who = r.who
    BY <1>0 DEF FlowState
  <2> HIDE DEF s
  <2>5. QED BY <1>0, <2>1, <2>3, <2>4, BecomeType DEF r
<1>2. CASE Prompt(f)
  <2> DEFINE s == [r EXCEPT !.pc = "popup", !.by = r.who]
  <2>1. Become(f, s)
    BY <1>2 DEF Prompt, r
  <2>2. s \in FlowState /\ s.act = r.act /\ s.asset = r.asset /\ s.amt = r.amt /\ s.who = r.who
    BY <1>0 DEF FlowState, Phase
  <2> HIDE DEF s
  <2>3. QED BY <1>0, <2>1, <2>2, BecomeType DEF r
<1>3. CASE Advance(f)
  <2> DEFINE s == [r EXCEPT !.pc = "ready", !.leg = "act"]
  <2>1. Become(f, s)
    BY <1>3 DEF Advance, r
  <2>2. s \in FlowState /\ s.act = r.act /\ s.asset = r.asset /\ s.amt = r.amt /\ s.who = r.who
    BY <1>0 DEF FlowState, Phase, Leg
  <2> HIDE DEF s
  <2>3. QED BY <1>0, <2>1, <2>2, BecomeType DEF r
<1>4. ASSUME NEW p \in {"sent", "done", "failed"}, Become(f, [r EXCEPT !.pc = p])
      PROVE  /\ fl' \in [Flows -> FlowState]
             /\ \A g \in Flows : g # f => fl'[g] = fl[g]
             /\ fl'[f].act = fl[f].act /\ fl'[f].asset = fl[f].asset /\ fl'[f].amt = fl[f].amt
             /\ fl'[f].who = fl[f].who
  <2> DEFINE s == [r EXCEPT !.pc = p]
  <2>1. s \in FlowState /\ s.act = r.act /\ s.asset = r.asset /\ s.amt = r.amt /\ s.who = r.who
    BY <1>0 DEF FlowState, Phase
  <2> HIDE DEF s
  <2>2. QED BY <1>0, <1>4, <2>1, BecomeType DEF r, s
<1>5. CASE Sign(f)
  BY <1>5, <1>4 DEF Sign, r
<1>6. CASE Succeed(f)
  BY <1>6, <1>4 DEF Succeed, r
<1>7. CASE Fail(f)
  BY <1>7, <1>4 DEF Fail, r
<1>8. CASE Mine(f)
  <2> DEFINE s == [r EXCEPT !.mined = @ \cup {r.leg}, !.landed = @ \cup {r.leg}]
  <2>1. Become(f, s)
    BY <1>8 DEF Mine, r
  <2>2. s \in FlowState /\ s.act = r.act /\ s.asset = r.asset /\ s.amt = r.amt /\ s.who = r.who
    BY <1>0 DEF FlowState
  <2> HIDE DEF s
  <2>3. QED BY <1>0, <2>1, <2>2, BecomeType DEF r
<1>9. CASE MineNothing(f)
  <2> DEFINE s == [r EXCEPT !.mined = @ \cup {r.leg}]
  <2>1. Become(f, s)
    BY <1>9 DEF MineNothing, r
  <2>2. s \in FlowState /\ s.act = r.act /\ s.asset = r.asset /\ s.amt = r.amt /\ s.who = r.who
    BY <1>0 DEF FlowState
  <2> HIDE DEF s
  <2>3. QED BY <1>0, <2>1, <2>2, BecomeType DEF r
<1>10. QED
  BY <1>1, <1>2, <1>3, <1>5, <1>6, <1>7, <1>8, <1>9 DEF FlowStep
(* The fields a step changes, one line per action.                          *)
LEMMA FlowFields ==
  ASSUME IInv, NEW f \in Flows
  PROVE  LET r == fl[f]  s == fl'[f] IN
    /\ ReadAllowance(f) =>
         /\ r.pc = "read" /\ s.pc = "ready" /\ s.by = r.by /\ s.mined = r.mined /\ s.landed = r.landed
         /\ s.leg = (IF s.extra THEN "approve" ELSE "act") /\ (s.extra => r.act \in Inflow)
    /\ Prompt(f) => r.pc = "ready" /\ s = [r EXCEPT !.pc = "popup", !.by = r.who]
    /\ Sign(f) => r.pc = "popup" /\ s = [r EXCEPT !.pc = "sent"]
    /\ Advance(f) =>
         /\ r.pc = "sent" /\ r.leg = "approve" /\ "approve" \in r.mined
         /\ s = [r EXCEPT !.pc = "ready", !.leg = "act"]
    /\ Succeed(f) => r.pc = "sent" /\ r.leg = "act" /\ "act" \in r.mined /\ s = [r EXCEPT !.pc = "done"]
    /\ Fail(f) => r.pc \notin {"idle", "done", "failed"} /\ s = [r EXCEPT !.pc = "failed"]
    /\ Mine(f) => <<f, r.leg>> \in mem /\ s = [r EXCEPT !.mined = @ \cup {r.leg}, !.landed = @ \cup {r.leg}]
    /\ MineNothing(f) => <<f, r.leg>> \in mem /\ s = [r EXCEPT !.mined = @ \cup {r.leg}]
<1>0. f \in DOMAIN fl /\ fl[f] \in FlowState
  BY DEF IInv, TypeOK
<1>1. ASSUME ReadAllowance(f)
      PROVE  LET r == fl[f]  s == fl'[f] IN
         /\ r.pc = "read" /\ s.pc = "ready" /\ s.by = r.by /\ s.mined = r.mined /\ s.landed = r.landed
         /\ s.leg = (IF s.extra THEN "approve" ELSE "act") /\ (s.extra => r.act \in Inflow)
  <2> DEFINE r == fl[f]
             needs == r.act \in Inflow /\ allow[r.who][r.asset] < r.amt
             s == [r EXCEPT !.pc = "ready", !.extra = needs, !.leg = IF needs THEN "approve" ELSE "act"]
  <2>1. r.pc = "read" /\ Become(f, s)
    BY <1>1 DEF ReadAllowance
  <2>2. fl'[f] = s
    BY <2>1, <1>0 DEF Become
  <2>3. /\ s.pc = "ready" /\ s.by = r.by /\ s.mined = r.mined /\ s.landed = r.landed
        /\ s.extra = needs /\ s.leg = (IF needs THEN "approve" ELSE "act")
    BY <1>0 DEF FlowState
  <2>4. needs => r.act \in Inflow
    OBVIOUS
  <2> HIDE DEF needs, s
  <2>5. QED BY <2>1, <2>2, <2>3, <2>4
<1>2. QED
  BY <1>0, <1>1 DEF Prompt, Sign, Advance, Succeed, Fail, Mine, MineNothing, Become, Receipt, InFlight

LEMMA FlowOKStep ==
  ASSUME IInv, NEW f \in Flows, FlowStep(f) \/ Mine(f) \/ MineNothing(f)
  PROVE  FlowOK(fl'[f])
<1> DEFINE r == fl[f]
           s == fl'[f]
<1>0. /\ r \in FlowState /\ s \in FlowState /\ FlowOK(r) /\ PendingOK(f)
      /\ s.act = r.act /\ s.who = r.who
  BY FlowShape DEF IInv, TypeOK
<1> HIDE DEF r, s
<1> USE DEF FlowState, FlowOK, Before
<1>1. CASE ReadAllowance(f)
  <2>1. /\ r.pc = "read" /\ s.pc = "ready" /\ s.by = r.by /\ s.mined = r.mined /\ s.landed = r.landed
        /\ s.leg = (IF s.extra THEN "approve" ELSE "act") /\ (s.extra => r.act \in Inflow)
    BY <1>1, FlowFields DEF r, s
  <2>2. QED BY <1>0, <2>1 DEF s
<1>2. CASE Prompt(f)
  <2>1. r.pc = "ready" /\ s = [r EXCEPT !.pc = "popup", !.by = r.who]
    BY <1>2, FlowFields DEF r, s
  <2>2. QED BY <1>0, <2>1 DEF s
<1>3. CASE Sign(f)
  <2>1. r.pc = "popup" /\ s = [r EXCEPT !.pc = "sent"]
    BY <1>3, FlowFields DEF r, s
  <2>2. QED BY <1>0, <2>1 DEF s
<1>4. CASE Advance(f)
  <2>1. /\ r.pc = "sent" /\ r.leg = "approve" /\ "approve" \in r.mined
        /\ s = [r EXCEPT !.pc = "ready", !.leg = "act"]
    BY <1>4, FlowFields DEF r, s
  <2>2. QED BY <1>0, <2>1 DEF s
<1>5. CASE Succeed(f)
  <2>1. r.pc = "sent" /\ r.leg = "act" /\ "act" \in r.mined /\ s = [r EXCEPT !.pc = "done"]
    BY <1>5, FlowFields DEF r, s
  <2>2. QED BY <1>0, <2>1 DEF s
<1>6. CASE Fail(f)
  <2>1. r.pc \notin {"idle", "done", "failed"} /\ s = [r EXCEPT !.pc = "failed"]
    BY <1>6, FlowFields DEF r, s
  <2>2. QED BY <1>0, <2>1 DEF s, Phase
<1>7. ASSUME <<f, r.leg>> \in mem, s.mined = r.mined \cup {r.leg},
             s.landed \in {r.landed, r.landed \cup {r.leg}},
             s.pc = r.pc, s.leg = r.leg, s.by = r.by, s.extra = r.extra
      PROVE  FlowOK(s)
  <2>1. r.pc \in {"sent", "failed"} /\ r.leg \notin r.mined
    BY <1>0, <1>7 DEF PendingOK, r
  <2>2. r.leg = "approve" => r.extra
    BY <1>0, <2>1, <1>7
  <2>3. s.landed \subseteq s.mined /\ ("approve" \in s.mined => s.extra)
    BY <1>0, <1>7, <2>2
  <2>4. s.pc = "sent" => s.mined \in {Before(s), Before(s) \cup {s.leg}}
    BY <1>0, <1>7, <2>1
  <2>5. QED BY <1>0, <1>7, <2>1, <2>3, <2>4
<1>8. CASE Mine(f)
  <2>1. <<f, r.leg>> \in mem /\ s = [r EXCEPT !.mined = @ \cup {r.leg}, !.landed = @ \cup {r.leg}]
    BY <1>8, FlowFields DEF r, s
  <2>2. QED BY <1>0, <2>1, <1>7 DEF s
<1>9. CASE MineNothing(f)
  <2>1. <<f, r.leg>> \in mem /\ s = [r EXCEPT !.mined = @ \cup {r.leg}]
    BY <1>9, FlowFields DEF r, s
  <2>2. QED BY <1>0, <2>1, <1>7 DEF s
<1>10. QED
  BY <1>1, <1>2, <1>3, <1>4, <1>5, <1>6, <1>8, <1>9 DEF FlowStep
(* Which transactions a step adds to those pending or takes from them.         *)
LEMMA MemStep ==
  ASSUME IInv, NEW f \in Flows, FlowStep(f) \/ Mine(f) \/ MineNothing(f)
  PROVE  /\ Sign(f) => mem' = mem \cup {<<f, fl[f].leg>>}
         /\ Mine(f) \/ MineNothing(f) => mem' = mem \ {<<f, fl[f].leg>>}
         /\ ~Sign(f) /\ ~Mine(f) /\ ~MineNothing(f) => mem' = mem
         /\ fl[f].leg \in Leg
         /\ \A g \in Flows, leg \in Leg : g # f => (<<g, leg>> \in mem' <=> <<g, leg>> \in mem)
<1>1. fl[f].leg \in Leg
  BY DEF IInv, TypeOK, FlowState
<1>2. /\ Sign(f) => mem' = mem \cup {<<f, fl[f].leg>>}
      /\ Mine(f) \/ MineNothing(f) => mem' = mem \ {<<f, fl[f].leg>>}
      /\ ~Sign(f) /\ ~Mine(f) /\ ~MineNothing(f) => mem' = mem
  BY DEF FlowStep, ReadAllowance, Prompt, Sign, Advance, Succeed, Fail, Mine, MineNothing
<1>3. QED
  BY <1>1, <1>2

LEMMA PendingStep ==
  ASSUME IInv, NEW f \in Flows, FlowStep(f) \/ Mine(f) \/ MineNothing(f)
  PROVE  PendingOK(f)'
<1> DEFINE r == fl[f]
           s == fl'[f]
           Pending(leg) == <<f, leg>> \in mem
           Stays(leg) == <<f, leg>> \in mem'
<1>0. /\ r \in FlowState /\ s \in FlowState /\ FlowOK(r)
      /\ \A leg \in Leg : Pending(leg) =>
           leg = r.leg /\ r.pc \in {"sent", "failed"} /\ r.by = r.who /\ leg \notin r.mined
      /\ r.pc = "sent" /\ ~Pending(r.leg) => r.leg \in r.mined
  BY FlowShape DEF IInv, TypeOK, PendingOK
<1>m. /\ Sign(f) => \A leg \in Leg : Stays(leg) <=> Pending(leg) \/ leg = r.leg
      /\ Mine(f) \/ MineNothing(f) => \A leg \in Leg : Stays(leg) <=> Pending(leg) /\ leg # r.leg
      /\ ~Sign(f) /\ ~Mine(f) /\ ~MineNothing(f) => \A leg \in Leg : Stays(leg) <=> Pending(leg)
  BY MemStep
<1>g. SUFFICES /\ \A leg \in Leg : Stays(leg) =>
                  leg = s.leg /\ s.pc \in {"sent", "failed"} /\ s.by = s.who /\ leg \notin s.mined
               /\ s.pc = "sent" /\ ~Stays(s.leg) => s.leg \in s.mined
  BY DEF PendingOK
<1>f. /\ Sign(f) => r.pc = "popup" /\ s = [r EXCEPT !.pc = "sent"]
      /\ Mine(f) => Pending(r.leg) /\ s = [r EXCEPT !.mined = @ \cup {r.leg}, !.landed = @ \cup {r.leg}]
      /\ MineNothing(f) => Pending(r.leg) /\ s = [r EXCEPT !.mined = @ \cup {r.leg}]
  BY FlowFields
<1> HIDE DEF r, s, Pending, Stays
<1> USE DEF FlowState, Leg
<1>1. CASE Sign(f)
  <2>1. r.leg \notin r.mined /\ r.by = r.who
    BY <1>0, <1>1, <1>f DEF FlowOK, Before
  <2>2. QED BY <1>0, <1>m, <1>1, <1>f, <2>1
<1>2. CASE Mine(f)
  <2>1. /\ s.pc = r.pc /\ s.leg = r.leg /\ s.by = r.by /\ s.who = r.who
        /\ s.mined = r.mined \cup {r.leg}
    BY <1>0, <1>2, <1>f
  <2>2. QED BY <1>0, <1>m, <1>2, <2>1
<1>3. CASE MineNothing(f)
  BY <1>0, <1>m, <1>3, <1>f
<1>4. CASE ~Sign(f) /\ ~Mine(f) /\ ~MineNothing(f)
  <2>1. CASE ReadAllowance(f)
    <3>1. r.pc = "read" /\ s.pc = "ready"
      BY <2>1, FlowFields DEF r, s
    <3>2. QED BY <1>0, <1>m, <1>4, <3>1
  <2>2. CASE Prompt(f)
    <3>1. r.pc = "ready" /\ s = [r EXCEPT !.pc = "popup", !.by = r.who]
      BY <2>2, FlowFields DEF r, s
    <3>2. QED BY <1>0, <1>m, <1>4, <3>1
  <2>3. CASE Advance(f)
    <3>1. /\ r.pc = "sent" /\ r.leg = "approve" /\ "approve" \in r.mined
          /\ s = [r EXCEPT !.pc = "ready", !.leg = "act"]
      BY <2>3, FlowFields DEF r, s
    <3>2. QED BY <1>0, <1>m, <1>4, <3>1
  <2>4. CASE Succeed(f)
    <3>1. r.pc = "sent" /\ r.leg = "act" /\ "act" \in r.mined /\ s = [r EXCEPT !.pc = "done"]
      BY <2>4, FlowFields DEF r, s
    <3>2. QED BY <1>0, <1>m, <1>4, <3>1
  <2>5. CASE Fail(f)
    <3>1. s = [r EXCEPT !.pc = "failed"]
      BY <2>5, FlowFields DEF r, s
    <3>2. QED BY <1>0, <1>m, <1>4, <3>1
  <2>6. QED
    BY <1>4, <2>1, <2>2, <2>3, <2>4, <2>5 DEF FlowStep
<1>5. QED
  BY <1>1, <1>2, <1>3, <1>4

-----------------------------------------------------------------------------
(* What a mined transaction does to the chain.                              *)

(* The leg that is mined is one that was not: its effect comes once.          *)
LEMMA MinedLeg ==
  ASSUME IInv, NEW f \in Flows, <<f, fl[f].leg>> \in mem
  PROVE  /\ fl[f].by \in Users /\ fl[f].who = fl[f].by
         /\ fl[f].asset \in Asset /\ fl[f].amt \in Nat
         /\ fl[f].leg \in Leg /\ fl[f].leg \notin fl[f].mined /\ fl[f].leg \notin fl[f].landed
         /\ fl[f].pc \in {"sent", "failed"}
BY DEF IInv, TypeOK, FlowState, FlowOK, PendingOK

LEMMA MineChain ==
  ASSUME IInv, NEW f \in Flows, Mine(f)
  PROVE  /\ wal' \in [Users -> [Asset -> Nat]] /\ pos' \in [Users -> [Asset -> Int]]
         /\ allow' \in [Users -> [Asset -> Nat]]
         /\ \A u \in Users : u # fl[f].who => MovesOf(u)' = MovesOf(u)
         /\ \A u \in Users, a \in Asset : <<u, a>> # <<fl[f].who, fl[f].asset>> => allow'[u][a] = allow[u][a]
         /\ allow'[fl[f].who][fl[f].asset] =
              CASE fl[f].leg = "approve" -> fl[f].amt
                [] fl[f].leg = "act" /\ fl[f].act \in Inflow -> allow[fl[f].who][fl[f].asset] - fl[f].amt
                [] OTHER -> allow[fl[f].who][fl[f].asset]
<1> DEFINE r == fl[f]
<1>0. /\ r.by \in Users /\ r.who = r.by /\ r.asset \in Asset /\ r.amt \in Nat /\ r.leg \in Leg
      /\ wal \in [Users -> [Asset -> Nat]] /\ pos \in [Users -> [Asset -> Int]]
      /\ allow \in [Users -> [Asset -> Nat]] /\ Executable(r) /\ Effect(r)
  BY MinedLeg DEF Mine, IInv, TypeOK
<1> HIDE DEF r
<1>a. After(r) \in [Asset -> Int]
  BY <1>0 DEF After
<1> USE DEF MovesOf, Leg
<1>1. CASE r.leg = "approve"
  <2>1. allow' = [allow EXCEPT ![r.by][r.asset] = r.amt] /\ UNCHANGED <<wal, pos>>
    BY <1>0, <1>1 DEF Effect
  <2>2. QED BY <1>0, <1>1, <2>1 DEF r
<1>2. CASE r.leg = "act" /\ r.act \in Inflow
  <2>1. /\ wal' = [wal EXCEPT ![r.by][r.asset] = @ - r.amt]
        /\ pos' = [pos EXCEPT ![r.by] = After(r)]
        /\ allow' = [allow EXCEPT ![r.by][r.asset] = @ - r.amt]
    BY <1>0, <1>2 DEF Effect
  <2>2. wal[r.by][r.asset] >= r.amt /\ allow[r.by][r.asset] >= r.amt
    BY <1>0, <1>2 DEF Executable
  <2>3. wal[r.by][r.asset] - r.amt \in Nat /\ allow[r.by][r.asset] - r.amt \in Nat
    BY <1>0, <2>2
  <2>4. /\ wal' \in [Users -> [Asset -> Nat]] /\ pos' \in [Users -> [Asset -> Int]]
        /\ allow' \in [Users -> [Asset -> Nat]]
    BY <1>0, <1>a, <2>1, <2>3
  <2>5. \A u \in Users : u # r.by => wal'[u] = wal[u] /\ pos'[u] = pos[u] /\ allow'[u] = allow[u]
    BY <1>0, <2>1
  <2>6. QED BY <1>0, <1>2, <2>1, <2>4, <2>5 DEF r
<1>3. CASE r.leg = "act" /\ r.act \notin Inflow
  <2>1. /\ wal' = [wal EXCEPT ![r.by][r.asset] = @ + r.amt]
        /\ pos' = [pos EXCEPT ![r.by] = After(r)]
        /\ allow' = allow
    BY <1>0, <1>3 DEF Effect
  <2>2. QED BY <1>0, <1>a, <1>3, <2>1 DEF r
<1>4. QED
  BY <1>0, <1>1, <1>2, <1>3
LEMMA OtherTabChain ==
  ASSUME TypeOK, NEW v \in Users, NEW d \in Amounts, OtherTabSupplies(v, d) \/ OtherTabWithdraws(v, d)
  PROVE  /\ wal' \in [Users -> [Asset -> Nat]] /\ pos' \in [Users -> [Asset -> Int]]
         /\ allow' \in [Users -> [Asset -> Nat]] /\ other' \in Nat /\ other' # other
         /\ UNCHANGED <<mem, active, fl, ui>>
         /\ \A u \in Users, a \in Asset : allow'[u][a] <= allow[u][a]
<1>0. d \in Nat /\ "base" \in Asset
  BY EvmAmountAssumption DEF Asset
<1> USE DEF TypeOK
<1>1. CASE OtherTabSupplies(v, d)
  <2>1. wal[v]["base"] - d \in Nat
    BY <1>0, <1>1 DEF OtherTabSupplies
  <2>2. wal' \in [Users -> [Asset -> Nat]] /\ pos' \in [Users -> [Asset -> Int]]
    BY <1>0, <1>1, <2>1 DEF OtherTabSupplies
  <2>3. allow' \in [Users -> [Asset -> Nat]] /\ \A u \in Users, a \in Asset : allow'[u][a] <= allow[u][a]
    <3> DEFINE n == IF allow[v]["base"] < d THEN 0 ELSE allow[v]["base"] - d
    <3>1. n \in Nat /\ n <= allow[v]["base"]
      BY <1>0
    <3>2. allow' = [allow EXCEPT ![v]["base"] = n]
      BY <1>1 DEF OtherTabSupplies
    <3> HIDE DEF n
    <3>3. allow' \in [Users -> [Asset -> Nat]]
      BY <1>0, <3>1, <3>2
    <3>4. \A u \in Users, a \in Asset : allow[u][a] \in Nat
      OBVIOUS
    <3>5. \A u \in Users, a \in Asset : allow'[u][a] = IF u = v /\ a = "base" THEN n ELSE allow[u][a]
      BY <1>0, <3>2
    <3>6. ASSUME NEW u \in Users, NEW a \in Asset PROVE allow'[u][a] <= allow[u][a]
      <4>1. CASE u = v /\ a = "base"
        BY <3>1, <3>5, <4>1
      <4>2. CASE ~(u = v /\ a = "base")
        BY <3>4, <3>5, <4>2
      <4>3. QED BY <4>1, <4>2
    <3>7. QED BY <3>3, <3>6
  <2>4. other' \in Nat /\ other' # other /\ UNCHANGED <<mem, active, fl, ui>>
    BY <1>1 DEF OtherTabSupplies
  <2>5. QED BY <2>2, <2>3, <2>4
<1>2. CASE OtherTabWithdraws(v, d)
  <2>1. wal' \in [Users -> [Asset -> Nat]] /\ pos' \in [Users -> [Asset -> Int]]
    BY <1>0, <1>2 DEF OtherTabWithdraws
  <2>2. other' \in Nat /\ other' # other /\ UNCHANGED <<allow, mem, active, fl, ui>>
    BY <1>2 DEF OtherTabWithdraws
  <2>3. \A u \in Users, a \in Asset : allow[u][a] \in Nat
    OBVIOUS
  <2>4. QED BY <2>1, <2>2, <2>3
<1>3. QED BY <1>1, <1>2

-----------------------------------------------------------------------------
(* The inductive invariant.                                                *)

LEMMA SignStepsType == \A extra : SignSteps(extra) \in Seq(Label)
<1>1. "approve" \in Label /\ "act" \in Label /\ "confirm" \in Label
  BY DEF Label, Leg
<1>2. QED BY <1>1 DEF SignSteps

UiType(u) == u \in [signing: BOOLEAN, step: Nat, plan: Seq(Label), error: BOOLEAN, result: Flows \cup {NoFlow}]

LEMMA UiStep ==
  ASSUME UiType(ui), NEW f \in Flows, FlowStep(f) \/ Mine(f) \/ MineNothing(f)
  PROVE  UiType(ui')
<1> USE DEF UiType
<1>1. CASE ReadAllowance(f)
  <2>1. PICK p \in Seq(Label) : ui' = [ui EXCEPT !.plan = p]
    BY <1>1, SignStepsType DEF ReadAllowance
  <2>2. QED BY <2>1
<1>2. CASE Prompt(f)
  BY <1>2 DEF Prompt
<1>3. CASE Sign(f)
  BY <1>3 DEF Sign
<1>r. UiType(Released(ui))
  <2>1. <<>> \in Seq(Label) /\ 0 \in Nat /\ FALSE \in BOOLEAN
    OBVIOUS
  <2>2. \A p \in Seq(Label) : [ui EXCEPT !.signing = FALSE, !.step = 0, !.plan = p]
          \in [signing: BOOLEAN, step: Nat, plan: Seq(Label), error: BOOLEAN, result: Flows \cup {NoFlow}]
    OBVIOUS
  <2>3. QED BY <2>1, <2>2 DEF Released
<1>4. CASE Succeed(f)
  <2>1. ui' = [Released(ui) EXCEPT !.result = f]
    BY <1>4 DEF Succeed
  <2>2. QED BY <1>r, <2>1
<1>5. CASE Fail(f)
  <2>1. ui' = [Released(ui) EXCEPT !.error = TRUE]
    BY <1>5 DEF Fail
  <2>2. QED BY <1>r, <2>1
<1>6. CASE Advance(f) \/ Mine(f) \/ MineNothing(f)
  BY <1>6 DEF Advance, Mine, MineNothing
<1>7. QED
  BY <1>1, <1>2, <1>3, <1>4, <1>5, <1>6 DEF FlowStep

LEMMA TypeStep ==
  ASSUME IInv, NEW f \in Flows, FlowStep(f) \/ Mine(f) \/ MineNothing(f)
  PROVE  TypeOK'
<1>1. fl' \in [Flows -> FlowState]
  BY FlowShape
<1>2. UiType(ui')
  BY UiStep DEF IInv, TypeOK, UiType
<1>3. mem' \subseteq Flows \X Leg
  <2>1. fl[f].leg \in Leg /\ mem \subseteq Flows \X Leg
    BY MemStep DEF IInv, TypeOK
  <2>2. mem' \subseteq mem \cup {<<f, fl[f].leg>>}
    BY MemStep
  <2>3. QED BY <2>1, <2>2
<1>4. /\ wal' \in [Users -> [Asset -> Nat]] /\ pos' \in [Users -> [Asset -> Int]]
      /\ allow' \in [Users -> [Asset -> Nat]]
  <2>1. CASE Mine(f)
    BY <2>1, MineChain
  <2>2. CASE ~Mine(f)
    BY <2>2 DEF FlowStep, ReadAllowance, Prompt, Sign, Advance, Succeed, Fail, MineNothing, chainVars, IInv, TypeOK
  <2>3. QED BY <2>1, <2>2
<1>5. UNCHANGED <<active, other>>
  BY DEF FlowStep, ReadAllowance, Prompt, Sign, Advance, Succeed, Fail, Mine, MineNothing
<1>6. QED
  BY <1>1, <1>2, <1>3, <1>4, <1>5 DEF IInv, TypeOK, UiType

(* A step either keeps the chain or mines; only mining changes what landed.    *)
LEMMA LandedStep ==
  ASSUME IInv, NEW f \in Flows, FlowStep(f) \/ Mine(f) \/ MineNothing(f)
  PROVE  /\ Mine(f) => fl'[f].landed = fl[f].landed \cup {fl[f].leg}
         /\ ~Mine(f) => fl'[f].landed = fl[f].landed /\ UNCHANGED chainVars
<1>0. fl[f] \in FlowState
  BY DEF IInv, TypeOK
<1>1. CASE Mine(f)
  <2>1. fl'[f] = [fl[f] EXCEPT !.mined = @ \cup {fl[f].leg}, !.landed = @ \cup {fl[f].leg}]
    BY <1>1, FlowFields
  <2>2. fl'[f].landed = fl[f].landed \cup {fl[f].leg}
    BY <1>0, <2>1 DEF FlowState
  <2>3. QED BY <1>1, <2>2
<1>2. CASE ~Mine(f)
  <2>1. UNCHANGED chainVars
    BY <1>2 DEF FlowStep, ReadAllowance, Prompt, Sign, Advance, Succeed, Fail, MineNothing, chainVars
  <2>2. fl'[f].landed = fl[f].landed
    <3> DEFINE r == fl[f]
               s == fl'[f]
    <3>1. /\ ReadAllowance(f) => s.landed = r.landed
          /\ Prompt(f) => s = [r EXCEPT !.pc = "popup", !.by = r.who]
          /\ Sign(f) => s = [r EXCEPT !.pc = "sent"]
          /\ Advance(f) => s = [r EXCEPT !.pc = "ready", !.leg = "act"]
          /\ Succeed(f) => s = [r EXCEPT !.pc = "done"]
          /\ Fail(f) => s = [r EXCEPT !.pc = "failed"]
          /\ MineNothing(f) => s = [r EXCEPT !.mined = @ \cup {r.leg}]
      BY FlowFields
    <3> HIDE DEF r, s
    <3>2. r \in FlowState
      BY <1>0 DEF r
    <3>3. s.landed = r.landed
      BY <1>2, <3>1, <3>2 DEF FlowStep, FlowState
    <3>4. QED BY <3>3 DEF r, s
  <2>3. QED BY <1>2, <2>1, <2>2
<1>3. QED BY <1>1, <1>2

LEMMA AllowanceStep ==
  ASSUME IInv, NEW f \in Flows, FlowStep(f) \/ Mine(f) \/ MineNothing(f)
  PROVE  AllowanceExplained'
<1> DEFINE Explains(g, u, a, n) ==
      /\ fl[g].who = u /\ fl[g].asset = a
      /\ "approve" \in fl[g].landed /\ "act" \notin fl[g].landed
      /\ n <= fl[g].amt
<1>0. /\ \A g \in Flows : g # f => fl'[g] = fl[g]
      /\ fl'[f].act = fl[f].act /\ fl'[f].asset = fl[f].asset /\ fl'[f].amt = fl[f].amt
      /\ fl'[f].who = fl[f].who
  BY FlowShape
<1>s. SUFFICES ASSUME NEW u \in Users, NEW a \in Asset, allow'[u][a] # 0
               PROVE  \E g \in Flows : Explains(g, u, a, allow[u][a])'
  BY DEF AllowanceExplained
<1>1. CASE ~Mine(f)
  <2>1. allow' = allow /\ fl'[f].landed = fl[f].landed
    BY <1>1, LandedStep DEF chainVars
  <2>2. PICK g \in Flows : Explains(g, u, a, allow[u][a])
    BY <1>s, <2>1 DEF IInv, AllowanceExplained
  <2>3. Explains(g, u, a, allow[u][a])'
    BY <1>0, <2>1, <2>2
  <2>4. QED BY <2>3
<1>2. CASE Mine(f)
  <2> DEFINE r == fl[f]
             old == allow[r.who][r.asset]
             new == allow'[r.who][r.asset]
  <2>1. /\ r.who \in Users /\ r.asset \in Asset /\ r.amt \in Nat
        /\ r.leg \in Leg /\ r.leg \notin r.mined /\ r.leg \notin r.landed
    BY <1>2, MinedLeg DEF Mine
  <2>2. /\ allow' \in [Users -> [Asset -> Nat]] /\ allow \in [Users -> [Asset -> Nat]]
        /\ <<u, a>> # <<r.who, r.asset>> => allow'[u][a] = allow[u][a]
        /\ new = CASE r.leg = "approve" -> r.amt
                   [] r.leg = "act" /\ r.act \in Inflow -> old - r.amt
                   [] OTHER -> old
    <3>1. /\ allow' \in [Users -> [Asset -> Nat]]
          /\ \A w \in Users, b \in Asset : <<w, b>> # <<r.who, r.asset>> => allow'[w][b] = allow[w][b]
          /\ new = CASE r.leg = "approve" -> r.amt
                     [] r.leg = "act" /\ r.act \in Inflow -> old - r.amt
                     [] OTHER -> old
      BY <1>2, MineChain
    <3> HIDE DEF r, old, new
    <3>2. QED BY <3>1 DEF IInv, TypeOK
  <2>3. fl'[f].landed = r.landed \cup {r.leg}
    BY <1>2, LandedStep
  <2>4. CASE u = r.who /\ a = r.asset /\ r.leg = "approve"
    <3>1. "act" \notin r.landed
      <4>1. FlowOK(r) /\ r.pc \in {"sent", "failed"}
        BY <1>2, MinedLeg DEF Mine, IInv
      <4>2. QED BY <2>4, <4>1 DEF FlowOK
    <3>2. Explains(f, u, a, allow[u][a])'
      BY <1>0, <2>1, <2>2, <2>3, <2>4, <3>1
    <3>3. QED BY <3>2
  <2>5. CASE ~(u = r.who /\ a = r.asset /\ r.leg = "approve")
    <3>1. allow'[u][a] <= allow[u][a]
      BY <2>1, <2>2, <2>5
    <3>2. PICK g \in Flows : Explains(g, u, a, allow[u][a])
      BY <1>s, <2>2, <3>1 DEF IInv, AllowanceExplained
    <3>3. fl[g].amt \in Nat
      BY DEF IInv, TypeOK, FlowState
    <3>4. CASE g # f
      BY <1>0, <2>2, <3>1, <3>2, <3>3, <3>4
    <3>5. CASE g = f /\ r.leg = "approve"
      BY <2>5, <3>2, <3>5
    <3>6. CASE g = f /\ r.leg = "act"
      <4>1. r.act \in Inflow
        BY <3>2, <3>6 DEF IInv, FlowOK
      <4>2. allow'[u][a] = allow[u][a] - r.amt
        BY <2>2, <3>2, <3>6, <4>1
      <4>3. allow'[u][a] = 0
        BY <2>1, <2>2, <3>2, <3>6, <4>2
      <4>4. QED BY <1>s, <4>3
    <3>7. QED
      BY <2>1, <3>4, <3>5, <3>6 DEF Leg
  <2>6. QED BY <2>4, <2>5
<1>3. QED BY <1>1, <1>2
LEMMA IInit == Init => IInv
<1> SUFFICES ASSUME Init PROVE IInv
  OBVIOUS
<1> USE DEF Init
<1>0. InitWallet \subseteq Nat /\ InitBase \subseteq Int /\ InitColl \subseteq Nat
  BY EvmAmountAssumption
<1>1. wal \in [Users -> [Asset -> Nat]]
  <2>1. wal \in [Users -> [Asset -> InitWallet]]
    BY Zenon
  <2>2. QED BY <1>0, <2>1
<1>2. pos \in [Users -> [Asset -> Int]]
  <2>1. PICK b \in [Users -> InitBase], c \in [Users -> InitColl] :
          pos = [u \in Users |-> [a \in Asset |-> IF a = "base" THEN b[u] ELSE c[u]]]
    BY Zenon
  <2>2. \A u \in Users : b[u] \in Int /\ c[u] \in Int
    <3>1. \A u \in Users : b[u] \in InitBase /\ c[u] \in InitColl
      OBVIOUS
    <3>2. InitBase \subseteq Int /\ InitColl \subseteq Int
      BY <1>0
    <3>3. QED BY <3>1, <3>2
  <2>3. QED BY <2>1, <2>2
<1>3. fl \in [Flows -> FlowState]
  BY DEF FlowState, FreshFlow, Phase, ActionType, Asset, Leg
<1>4. TypeOK
  <2>1. allow \in [Users -> [Asset -> Nat]]
    OBVIOUS
  <2>2. /\ ui \in [signing: BOOLEAN, step: Nat, plan: Seq(Label), error: BOOLEAN, result: Flows \cup {NoFlow}]
        /\ mem \subseteq Flows \X Leg /\ active \in Users \cup {NoUser} /\ other \in Nat
    OBVIOUS
  <2>3. QED BY <1>1, <1>2, <1>3, <2>1, <2>2 DEF TypeOK
<1>5. \A f \in Flows : FlowOK(fl[f]) /\ PendingOK(f)
  BY DEF FlowOK, PendingOK, FreshFlow
<1>6. AllowanceExplained
  BY DEF AllowanceExplained
<1>7. QED
  BY <1>4, <1>5, <1>6 DEF IInv

LEMMA SubmitKeeps ==
  ASSUME IInv, NEW f \in Flows, NEW act \in ActionType, NEW a \in Asset, NEW amt \in Amounts,
         Submit(f, act, a, amt)
  PROVE  IInv'
<1> DEFINE s == [FreshFlow EXCEPT !.pc = "read", !.act = act, !.asset = a, !.amt = amt, !.who = active]
<1>1. /\ fl[f].pc = "idle" /\ Become(f, s) /\ active \in Users /\ UNCHANGED <<wal, pos, allow, mem, active, other>>
      /\ ui' = [signing |-> TRUE, step |-> 0, plan |-> <<>>, error |-> FALSE, result |-> NoFlow]
  BY DEF Submit, PanelShown, chainVars, IInv, TypeOK
<1>2. /\ s \in FlowState /\ s.pc = "read" /\ s.who = active /\ s.mined = {} /\ s.landed = {}
      /\ ~s.extra /\ s.leg = "act"
  BY <1>1, EvmAmountAssumption DEF FreshFlow, FlowState, Phase, Leg, ActionType, Asset
<1> HIDE DEF s
<1>3. fl' \in [Flows -> FlowState] /\ fl'[f] = s /\ \A g \in Flows : g # f => fl'[g] = fl[g]
  BY <1>1, <1>2, BecomeType DEF IInv
<1>4. fl[f].landed = {} /\ \A leg \in Leg : <<f, leg>> \notin mem
  <2>1. FlowOK(fl[f]) /\ PendingOK(f)
    BY DEF IInv
  <2>2. QED BY <1>1, <2>1 DEF FlowOK, PendingOK
<1>5. TypeOK'
  <2>1. ui' \in [signing: BOOLEAN, step: Nat, plan: Seq(Label), error: BOOLEAN, result: Flows \cup {NoFlow}]
    BY <1>1
  <2>2. QED BY <1>1, <1>3, <2>1 DEF IInv, TypeOK
<1>6. FlowOK(s) /\ PendingOK(f)'
  BY <1>1, <1>2, <1>3, <1>4 DEF FlowOK, PendingOK
<1>7. \A g \in Flows : FlowOK(fl'[g]) /\ PendingOK(g)'
  BY <1>1, <1>3, <1>6 DEF IInv, PendingOK
<1>8. AllowanceExplained'
  BY <1>1, <1>3, <1>4 DEF IInv, AllowanceExplained
<1>9. QED
  BY <1>5, <1>7, <1>8 DEF IInv

LEMMA INext == IInv /\ [Next]_vars => IInv'
<1> SUFFICES ASSUME IInv, [Next]_vars PROVE IInv'
  OBVIOUS
<1>1. ASSUME NEW f \in Flows, FlowStep(f) \/ Mine(f) \/ MineNothing(f) PROVE IInv'
  <2>1. TypeOK' /\ AllowanceExplained'
    BY <1>1, TypeStep, AllowanceStep
  <2>2. FlowOK(fl'[f]) /\ PendingOK(f)'
    BY <1>1, FlowOKStep, PendingStep
  <2>3. ASSUME NEW g \in Flows, g # f PROVE FlowOK(fl'[g]) /\ PendingOK(g)'
    <3>1. fl'[g] = fl[g]
      BY <1>1, <2>3, FlowShape
    <3>2. \A leg \in Leg : <<g, leg>> \in mem' <=> <<g, leg>> \in mem
      BY <1>1, <2>3, MemStep
    <3>3. FlowOK(fl[g]) /\ PendingOK(g) /\ fl[g].leg \in Leg
      BY DEF IInv, TypeOK, FlowState
    <3>4. QED BY <3>1, <3>2, <3>3 DEF PendingOK
  <2>4. QED BY <2>1, <2>2, <2>3 DEF IInv
<1>2. ASSUME NEW u \in Users, NEW d \in Amounts, OtherTabSupplies(u, d) \/ OtherTabWithdraws(u, d)
      PROVE  IInv'
  <2>1. TypeOK'
    BY <1>2, OtherTabChain DEF IInv, TypeOK
  <2>2. \A f \in Flows : FlowOK(fl'[f]) /\ PendingOK(f)'
    BY <1>2, OtherTabChain DEF IInv, PendingOK
  <2>3. AllowanceExplained'
    <3> SUFFICES ASSUME NEW v \in Users, NEW a \in Asset, allow'[v][a] # 0
                 PROVE  \E f \in Flows :
                          /\ fl'[f].who = v /\ fl'[f].asset = a
                          /\ "approve" \in fl'[f].landed /\ "act" \notin fl'[f].landed
                          /\ allow'[v][a] <= fl'[f].amt
      BY DEF AllowanceExplained
    <3>1. fl' = fl /\ allow'[v][a] <= allow[v][a] /\ allow'[v][a] \in Nat /\ allow[v][a] \in Nat
      BY <1>2, OtherTabChain DEF IInv, TypeOK
    <3>2. PICK f \in Flows :
            /\ fl[f].who = v /\ fl[f].asset = a
            /\ "approve" \in fl[f].landed /\ "act" \notin fl[f].landed
            /\ allow[v][a] <= fl[f].amt
      BY <3>1 DEF IInv, AllowanceExplained
    <3>3. fl[f].amt \in Nat
      BY DEF IInv, TypeOK, FlowState
    <3>4. QED BY <3>1, <3>2, <3>3
  <2>4. QED BY <2>1, <2>2, <2>3 DEF IInv
<1>3. ASSUME UNCHANGED <<wal, pos, allow, mem, fl, other>>, UiType(ui'), active' \in Users \cup {NoUser}
      PROVE  IInv'
  <2>1. TypeOK'
    BY <1>3 DEF IInv, TypeOK, UiType
  <2>2. AllowanceExplained' /\ \A f \in Flows : FlowOK(fl'[f]) /\ PendingOK(f)'
    BY <1>3 DEF IInv, AllowanceExplained, PendingOK
  <2>3. QED BY <2>1, <2>2 DEF IInv
<1>u. UiType(ui) /\ active \in Users \cup {NoUser}
  BY DEF IInv, TypeOK, UiType
<1>4. CASE ClearError \/ Refuse
  <2>1. UiType(ui')
    BY <1>4, <1>u DEF ClearError, Refuse, UiType
  <2>2. QED BY <1>4, <2>1, <1>3, <1>u DEF ClearError, Refuse, chainVars
<1>5. CASE IdentityStep
  <2>1. UiType(ui')
    <3>1. CASE Disconnect
      <4>1. ui' = [ui EXCEPT !.signing = FALSE, !.step = 0, !.plan = <<>>, !.error = FALSE, !.result = NoFlow]
        BY <3>1 DEF Disconnect, Released
      <4>2. \A p \in Seq(Label), r \in Flows \cup {NoFlow} :
              UiType([ui EXCEPT !.signing = FALSE, !.step = 0, !.plan = p, !.error = FALSE, !.result = r])
        BY <1>u DEF UiType
      <4>3. <<>> \in Seq(Label) /\ NoFlow \in Flows \cup {NoFlow}
        OBVIOUS
      <4>4. QED BY <4>1, <4>2, <4>3
    <3>2. CASE \E u \in Users : Connect(u)
      BY <3>2, <1>u DEF Connect
    <3>3. QED BY <1>5, <3>1, <3>2 DEF IdentityStep
  <2>2. QED BY <1>5, <2>1, <1>3, <1>u DEF IdentityStep, Connect, Disconnect, chainVars
<1>6. CASE UNCHANGED vars
  BY <1>6, <1>3, <1>u DEF vars
<1>7. QED
  BY <1>1, <1>2, <1>4, <1>5, <1>6, SubmitKeeps DEF Next, LaneStep

LEMMA Inductive == Spec => []IInv
BY IInit, INext, PTL DEF Spec

(* Wallets, positions, allowances, pending transactions and flows keep their   *)
(* types: no balance goes below zero, and no leg is signed or mined without a   *)
(* connected user behind it, under any wallet changes (runAction's ref.current). *)
THEOREM EvmTypeCorrect == Spec => []TypeOK
<1>1. IInv => TypeOK
  BY DEF IInv
<1>2. QED BY <1>1, Inductive, PTL

-----------------------------------------------------------------------------
(* Whose money moves.                                                      *)

LEMMA StarterStep ==
  ASSUME IInv, [Next]_vars, NEW u \in Users, MovesOf(u)' # MovesOf(u)
  PROVE  other' # other \/ \E f \in Flows : fl[f].who = u /\ fl[f].landed # fl'[f].landed
<1>1. CASE \E f \in Flows : Mine(f)
  <2>1. PICK f \in Flows : Mine(f)
    BY <1>1
  <2>2. fl[f].who = u
    BY <2>1, MineChain
  <2>3. fl[f].leg \notin fl[f].landed /\ fl'[f].landed = fl[f].landed \cup {fl[f].leg}
    BY <2>1, MinedLeg, LandedStep DEF Mine
  <2>4. QED BY <2>2, <2>3
<1>2. CASE \E v \in Users, d \in Amounts : OtherTabSupplies(v, d) \/ OtherTabWithdraws(v, d)
  BY <1>2, OtherTabChain DEF IInv
<1>3. CASE UNCHANGED chainVars
  BY <1>3 DEF chainVars, MovesOf
<1>4. QED
  BY <1>1, <1>2, <1>3
     DEF Next, LaneStep, IdentityStep, FlowStep, Submit, ReadAllowance, Prompt, Sign, Advance, Succeed,
         Fail, MineNothing, ClearError, Refuse, Connect, Disconnect, vars, chainVars

(* Whatever wallets are switched to and from while flows run, a user's money    *)
(* and approvals move only by a transaction of a flow that user started, or in  *)
(* another tab (useEvmLane's ref.current is read once per flow).               *)
THEOREM StarterPays == Spec => OnlyStarterMoves
<1>1. IInv /\ [Next]_vars =>
        [\A u \in Users : MovesOf(u)' # MovesOf(u) =>
           \/ other' # other
           \/ \E f \in Flows : fl[f].who = u /\ fl[f].landed # fl'[f].landed]_vars
  BY StarterStep
<1>2. QED
  BY <1>1, Inductive, PTL DEF Spec, OnlyStarterMoves

-----------------------------------------------------------------------------
(* Exact approvals, whole plans.                                            *)

LEMMA AllowancesSpent == IInv => NoIdleAllowance
<1> SUFFICES ASSUME IInv, Idle, mem = {},
                    \A f \in Flows : fl[f].pc # "failed" /\ (fl[f].pc = "done" => "act" \in fl[f].landed),
                    NEW u \in Users, NEW a \in Asset, allow[u][a] # 0
             PROVE  FALSE
  BY DEF NoIdleAllowance
<1>1. PICK f \in Flows : "approve" \in fl[f].landed /\ "act" \notin fl[f].landed
  BY DEF IInv, AllowanceExplained
<1>2. fl[f].pc = "idle"
  BY <1>1 DEF Idle, InFlight
<1>3. FlowOK(fl[f])
  BY DEF IInv
<1>4. QED
  BY <1>1, <1>2, <1>3 DEF FlowOK

LEMMA PlanMined == IInv => SuccessIsMinedPlan
<1> SUFFICES ASSUME IInv, NEW f \in Flows, fl[f].pc = "done"
             PROVE  /\ fl[f].mined = {SignSteps(fl[f].extra)[i] : i \in DOMAIN SignSteps(fl[f].extra)} \ {"confirm"}
                    /\ \A leg \in Leg : <<f, leg>> \notin mem
  BY DEF SuccessIsMinedPlan
<1>1. fl[f].leg = "act" /\ fl[f].mined = Before(fl[f]) \cup {"act"} /\ PendingOK(f)
  BY DEF IInv, FlowOK
<1>2. CASE fl[f].extra
  <2>1. SignSteps(fl[f].extra) = <<"approve", "act", "confirm">>
    BY <1>2 DEF SignSteps
  <2>2. {SignSteps(fl[f].extra)[i] : i \in DOMAIN SignSteps(fl[f].extra)} = {"approve", "act", "confirm"}
    BY <2>1
  <2>3. QED BY <1>1, <1>2, <2>2 DEF Before, PendingOK
<1>3. CASE ~fl[f].extra
  <2>1. SignSteps(fl[f].extra) = <<"act", "confirm">>
    BY <1>3 DEF SignSteps
  <2>2. {SignSteps(fl[f].extra)[i] : i \in DOMAIN SignSteps(fl[f].extra)} = {"act", "confirm"}
    BY <2>1
  <2>3. QED BY <1>1, <1>3, <2>2 DEF Before, PendingOK
<1>4. QED BY <1>2, <1>3

(* No flow leaves Comet an allowance once it and its transactions are over       *)
(* and every action took effect, and none reports success before each popup's   *)
(* transaction has its receipt (runAction's exact approve and its awaits).       *)
THEOREM FlowsExact == Spec => []FlowIsExact
<1>1. IInv => FlowIsExact
  BY AllowancesSpent, PlanMined DEF FlowIsExact
<1>2. QED BY <1>1, Inductive, PTL
-----------------------------------------------------------------------------
(* Wallets that change only between flows.                                  *)

LEMMA SteadyFlow ==
  ASSUME IInv, SteadyInv, NEW f \in Flows, FlowStep(f)
  PROVE  SteadyInv'
<1> DEFINE r == fl[f]
           s == fl'[f]
<1>0. /\ r \in FlowState /\ s \in FlowState /\ \A g \in Flows : g # f => fl'[g] = fl[g]
      /\ UiType(ui)
  BY FlowShape DEF IInv, TypeOK, UiType
<1>1. InFlight(f)
  BY DEF FlowStep, ReadAllowance, Prompt, Sign, Advance, Succeed, Fail, Receipt, InFlight
<1>2. /\ ui.signing /\ ~ui.error /\ \A g \in Flows : g # f => ~InFlight(g)
      /\ r.pc # "read" => ui.plan = SignSteps(r.extra)
      /\ r.pc = "popup" => ui.step = IF r.extra /\ r.leg = "act" THEN 1 ELSE 0
  BY <1>1 DEF SteadyInv, FlowSteady
<1>3. \A g \in Flows : g # f => ~InFlight(g)'
  BY <1>0, <1>2 DEF InFlight
<1>4. SUFFICES /\ ~ui'.signing => ui'.plan = <<>>
               /\ InFlight(f)' =>
                    /\ ui'.signing /\ ~ui'.error
                    /\ s.pc # "read" => ui'.plan = SignSteps(s.extra)
                    /\ s.pc = "popup" => ui'.step = IF s.extra /\ s.leg = "act" THEN 1 ELSE 0
  BY <1>3 DEF SteadyInv, FlowSteady
<1>5. CASE ReadAllowance(f)
  <2>1. s.pc = "ready" /\ ui' = [ui EXCEPT !.plan = SignSteps(s.extra)]
    <3> DEFINE needs == r.act \in Inflow /\ allow[r.who][r.asset] < r.amt
               t == [r EXCEPT !.pc = "ready", !.extra = needs, !.leg = IF needs THEN "approve" ELSE "act"]
    <3>1. Become(f, t) /\ ui' = [ui EXCEPT !.plan = SignSteps(needs)]
      BY <1>5 DEF ReadAllowance
    <3>2. s = t
      BY <3>1 DEF Become, IInv, TypeOK
    <3>3. t.pc = "ready" /\ t.extra = needs
      BY <1>0 DEF FlowState
    <3> HIDE DEF needs, t, s
    <3>4. QED BY <3>1, <3>2, <3>3
  <2> HIDE DEF s
  <2>2. ui'.plan = SignSteps(s.extra) /\ ui'.signing = ui.signing /\ ui'.error = ui.error
    BY <1>0, <2>1 DEF UiType
  <2>3. QED BY <1>2, <2>1, <2>2
<1>6. CASE Prompt(f)
  <2>1. /\ r.pc = "ready" /\ s = [r EXCEPT !.pc = "popup", !.by = r.who]
        /\ ui' = [ui EXCEPT !.step = IF r.extra /\ r.leg = "act" THEN 1 ELSE 0]
    <3>1. r.pc = "ready" /\ s = [r EXCEPT !.pc = "popup", !.by = r.who]
      BY <1>6, FlowFields
    <3>2. ui' = [ui EXCEPT !.step = IF r.extra /\ r.leg = "act" THEN 1 ELSE 0]
      <4>1. /\ [r EXCEPT !.pc = "popup", !.by = r.who].extra = r.extra
            /\ [r EXCEPT !.pc = "popup", !.by = r.who].leg = r.leg
        <5> HIDE DEF r
        <5>1. QED BY <1>0 DEF FlowState
      <4>2. QED BY <1>6, <4>1 DEF Prompt
    <3>3. QED BY <3>1, <3>2
  <2> HIDE DEF r, s
  <2>2. s.pc = "popup" /\ s.extra = r.extra /\ s.leg = r.leg
    BY <1>0, <2>1 DEF FlowState
  <2>3. /\ ui'.plan = ui.plan /\ ui'.signing = ui.signing /\ ui'.error = ui.error
        /\ ui'.step = IF r.extra /\ r.leg = "act" THEN 1 ELSE 0
    BY <1>0, <2>1 DEF UiType
  <2>4. QED BY <1>2, <2>1, <2>2, <2>3
<1>7. CASE Sign(f) \/ Advance(f)
  <2>1. /\ r.pc # "read" /\ s.pc \in {"sent", "ready"} /\ s.extra = r.extra
    <3>1. \/ r.pc = "popup" /\ s = [r EXCEPT !.pc = "sent"]
          \/ r.pc = "sent" /\ s = [r EXCEPT !.pc = "ready", !.leg = "act"]
      BY <1>7, FlowFields
    <3> HIDE DEF r, s
    <3>2. QED BY <1>0, <3>1 DEF FlowState
  <2>2. ui'.plan = ui.plan /\ ui'.signing = ui.signing /\ ui'.error = ui.error
    BY <1>0, <1>7 DEF Sign, Advance, UiType
  <2> HIDE DEF r, s
  <2>3. QED BY <1>2, <2>1, <2>2
<1>8. CASE Succeed(f) \/ Fail(f)
  <2>1. s.pc \in {"done", "failed"}
    <3>1. s = [r EXCEPT !.pc = "done"] \/ s = [r EXCEPT !.pc = "failed"]
      BY <1>8, FlowFields
    <3> HIDE DEF r, s
    <3>2. QED BY <1>0, <3>1 DEF FlowState
  <2>2. ui'.plan = <<>>
    BY <1>0, <1>8 DEF Succeed, Fail, Released, UiType
  <2>3. QED BY <2>1, <2>2 DEF InFlight
<1>9. QED
  BY <1>5, <1>6, <1>7, <1>8 DEF FlowStep

LEMMA SteadyStep == IInv /\ SteadyInv /\ [SteadyNext]_vars => SteadyInv'
<1> SUFFICES ASSUME IInv, SteadyInv, [SteadyNext]_vars PROVE SteadyInv'
  OBVIOUS
<1>u. UiType(ui)
  BY DEF IInv, TypeOK, UiType
<1>1. ASSUME NEW f \in Flows, NEW act \in ActionType, NEW a \in Asset, NEW amt \in Amounts,
             Submit(f, act, a, amt)
      PROVE  SteadyInv'
  <2>1. \A g \in Flows : ~InFlight(g)
    BY <1>1 DEF Submit, PanelShown, SteadyInv, FlowSteady
  <2>2. /\ \A g \in Flows : g # f => fl'[g] = fl[g]
        /\ fl'[f].pc = "read"
    BY <1>1 DEF Submit, Become, FreshFlow, IInv, TypeOK
  <2>3. ui'.signing /\ ~ui'.error
    BY <1>1 DEF Submit
  <2>4. \A g \in Flows : g # f => ~InFlight(g)'
    BY <2>1, <2>2 DEF InFlight
  <2>5. QED
    BY <2>2, <2>3, <2>4 DEF SteadyInv, FlowSteady
<1>2. ASSUME NEW f \in Flows, FlowStep(f) PROVE SteadyInv'
  BY <1>2, SteadyFlow
<1>3. ASSUME NEW f \in Flows, Mine(f) \/ MineNothing(f) PROVE SteadyInv'
  <2>1. /\ fl[f] \in FlowState /\ \A g \in Flows : g # f => fl'[g] = fl[g]
        /\ ui' = ui
    BY <1>3, FlowShape DEF IInv, TypeOK, Mine, MineNothing
  <2>2. \/ fl'[f] = [fl[f] EXCEPT !.mined = @ \cup {fl[f].leg}, !.landed = @ \cup {fl[f].leg}]
        \/ fl'[f] = [fl[f] EXCEPT !.mined = @ \cup {fl[f].leg}]
    BY <1>3, FlowFields
  <2>3. fl'[f].pc = fl[f].pc /\ fl'[f].extra = fl[f].extra /\ fl'[f].leg = fl[f].leg
    BY <2>1, <2>2 DEF FlowState
  <2>4. \A g \in Flows : fl'[g].pc = fl[g].pc /\ fl'[g].extra = fl[g].extra /\ fl'[g].leg = fl[g].leg
    BY <2>1, <2>3
  <2>5. QED BY <2>1, <2>4 DEF SteadyInv, FlowSteady, InFlight
<1>4. CASE ClearError
  <2>1. /\ fl' = fl /\ ~ui'.error /\ ui'.signing = ui.signing /\ ui'.plan = ui.plan
        /\ ui'.step = ui.step
    BY <1>4, <1>u DEF ClearError, UiType
  <2>2. QED BY <2>1 DEF SteadyInv, FlowSteady, InFlight
<1>5. CASE Refuse
  <2>1. \A g \in Flows : ~InFlight(g)
    BY <1>5 DEF Refuse, PanelShown, SteadyInv, FlowSteady
  <2>2. fl' = fl /\ ui'.signing = ui.signing /\ ui'.plan = ui.plan
    BY <1>5, <1>u DEF Refuse, UiType
  <2>3. QED BY <2>1, <2>2 DEF SteadyInv, FlowSteady, InFlight
<1>6. CASE Idle /\ IdentityStep
  <2>1. fl' = fl /\ \A g \in Flows : ~InFlight(g)'
    BY <1>6 DEF IdentityStep, Connect, Disconnect, Idle, InFlight
  <2>2. ~ui'.signing => ui'.plan = <<>>
    <3>1. CASE ui' = ui
      BY <3>1 DEF SteadyInv
    <3>2. CASE Disconnect
      BY <3>2, <1>u DEF Disconnect, Released, UiType
    <3>3. QED BY <1>6, <3>1, <3>2 DEF IdentityStep, Connect
  <2>3. QED BY <2>1, <2>2 DEF SteadyInv, FlowSteady
<1>7. CASE UNCHANGED <<fl, ui>>
  BY <1>7 DEF SteadyInv, FlowSteady, InFlight
<1>8. QED
  BY <1>1, <1>2, <1>3, <1>4, <1>5, <1>6, <1>7
     DEF SteadyNext, LaneStep, OtherTabSupplies, OtherTabWithdraws, vars

LEMMA SteadyPopup == IInv /\ SteadyInv => PlanMatchesPopup
<1> SUFFICES ASSUME IInv, SteadyInv, NEW f \in Flows, fl[f].pc = "popup"
             PROVE  ui.step + 1 \in DOMAIN ui.plan /\ ui.plan[ui.step + 1] = fl[f].leg
  BY DEF SteadyInv, PlanMatchesPopup
<1>1. /\ ui.plan = SignSteps(fl[f].extra)
      /\ ui.step = IF fl[f].extra /\ fl[f].leg = "act" THEN 1 ELSE 0
  BY DEF SteadyInv, FlowSteady, InFlight
<1>2. fl[f].leg \in {"approve", "act"} /\ (fl[f].leg = "approve" => fl[f].extra)
  BY DEF IInv, TypeOK, FlowState, Leg, FlowOK
<1>3. CASE fl[f].extra /\ fl[f].leg = "approve"
  BY <1>1, <1>3 DEF SignSteps
<1>4. CASE fl[f].extra /\ fl[f].leg = "act"
  BY <1>1, <1>4 DEF SignSteps
<1>5. CASE ~fl[f].extra /\ fl[f].leg = "act"
  BY <1>1, <1>5 DEF SignSteps
<1>6. QED BY <1>2, <1>3, <1>4, <1>5

LEMMA SteadyInit == Init => SteadyInv
BY DEF Init, SteadyInv, FlowSteady, FreshFlow, InFlight

(* For a user who changes wallets only between flows, the open popup is the      *)
(* highlighted row of the plan, and no plan is left when nothing is signed.      *)
THEOREM EvmPlanExact == SteadySpec => []PlanMatchesPopup
<1>1. [SteadyNext]_vars => [Next]_vars
  BY DEF SteadyNext, Next
<1>2. QED
  BY <1>1, IInit, INext, SteadyInit, SteadyStep, SteadyPopup, PTL DEF SteadySpec

(* The same of the steady behaviours among those checked together.               *)
THEOREM SteadyKindExact == KindSpec => []SteadyPlan
<1> DEFINE KInv == IInv /\ (kind = "steady" => SteadyInv)
<1>1. KindInit => KInv
  BY IInit, SteadyInit DEF KindInit
<1>2. KInv /\ [KindNext]_<<vars, kind>> => KInv'
  <2> SUFFICES ASSUME KInv, [KindNext]_<<vars, kind>> PROVE KInv'
    OBVIOUS
  <2>1. kind' = kind /\ [Next]_vars
    BY DEF KindNext, SteadyNext, Next
  <2>2. kind = "steady" => [SteadyNext]_vars
    BY DEF KindNext
  <2>3. QED BY <2>1, <2>2, INext, SteadyStep
<1>3. KInv => SteadyPlan
  BY SteadyPopup DEF SteadyPlan
<1>4. QED BY <1>1, <1>2, <1>3, PTL DEF KindSpec

-----------------------------------------------------------------------------
(* The lane implements ActionContract.                                      *)

Took(r) == "act" \in r.mined
MappedPhase == [f \in Flows |-> ContractPhase(fl[f].pc)]
MappedEffect == [f \in Flows |-> Took(fl[f])]

(* What a step of flow f may do to its report and to its effect.               *)
ReportStep(r, s) ==
  LET p == ContractPhase(r.pc)  q == ContractPhase(s.pc) IN
  \/ q = p /\ Took(s) = Took(r)
  \/ q = p /\ p \in {"working", "failed"} /\ ~Took(r) /\ Took(s)
  \/ p = "working" /\ q = "succeeded" /\ Took(r) /\ Took(s)
  \/ p = "working" /\ q = "failed" /\ Took(s) = Took(r)

LEMMA FlowReport ==
  ASSUME IInv, NEW f \in Flows, FlowStep(f) \/ Mine(f) \/ MineNothing(f)
  PROVE  ReportStep(fl[f], fl'[f])
<1> DEFINE r == fl[f]
           s == fl'[f]
<1>0. r \in FlowState /\ f \in DOMAIN fl
  BY DEF IInv, TypeOK
<1>1. CASE ReadAllowance(f) \/ Prompt(f) \/ Sign(f) \/ Advance(f)
  <2>1. r.pc \in {"read", "ready", "popup", "sent"} /\ s.pc \in {"ready", "popup", "sent"} /\ s.mined = r.mined
    <3>1. \/ r.pc = "read" /\ s.pc = "ready" /\ s.mined = r.mined
          \/ r.pc = "ready" /\ s = [r EXCEPT !.pc = "popup", !.by = r.who]
          \/ r.pc = "popup" /\ s = [r EXCEPT !.pc = "sent"]
          \/ r.pc = "sent" /\ s = [r EXCEPT !.pc = "ready", !.leg = "act"]
      BY <1>1, FlowFields
    <3> HIDE DEF r, s
    <3>2. QED BY <1>0, <3>1 DEF FlowState
  <2> HIDE DEF r, s
  <2>2. ReportStep(r, s)
    BY <2>1 DEF ReportStep, ContractPhase, Took
  <2>3. QED BY <2>2 DEF r, s
<1>2. CASE Succeed(f) \/ Fail(f)
  <2>1. /\ s.mined = r.mined
        /\ \/ r.pc = "sent" /\ s.pc = "done" /\ "act" \in r.mined
           \/ r.pc \notin {"idle", "done", "failed"} /\ s.pc = "failed"
    <3>1. \/ r.pc = "sent" /\ "act" \in r.mined /\ s = [r EXCEPT !.pc = "done"]
          \/ r.pc \notin {"idle", "done", "failed"} /\ s = [r EXCEPT !.pc = "failed"]
      BY <1>2, FlowFields
    <3> HIDE DEF r, s
    <3>2. QED BY <1>0, <3>1 DEF FlowState
  <2> HIDE DEF r, s
  <2>2. ReportStep(r, s)
    BY <2>1 DEF ReportStep, ContractPhase, Took
  <2>3. QED BY <2>2 DEF r, s
<1>3. CASE Mine(f) \/ MineNothing(f)
  <2>1. r.pc \in {"sent", "failed"} /\ r.leg \in Leg /\ r.leg \notin r.mined
    BY <1>3, MinedLeg DEF Mine, MineNothing
  <2>2. s.pc = r.pc /\ s.mined = r.mined \cup {r.leg}
    <3>1. \/ s = [r EXCEPT !.mined = @ \cup {r.leg}, !.landed = @ \cup {r.leg}]
          \/ s = [r EXCEPT !.mined = @ \cup {r.leg}]
      BY <1>3, FlowFields
    <3> HIDE DEF r, s
    <3>2. QED BY <1>0, <3>1 DEF FlowState
  <2> HIDE DEF r, s
  <2>3. ContractPhase(r.pc) \in {"working", "failed"}
    BY <2>1 DEF ContractPhase
  <2>4. CASE r.leg = "act"
    BY <2>1, <2>2, <2>3, <2>4 DEF ReportStep, Took, r, s
  <2>5. CASE r.leg = "approve"
    <3>1. Took(s) <=> Took(r)
      BY <2>2, <2>5 DEF Took
    <3>2. QED BY <2>2, <3>1 DEF ReportStep, Took, r, s
  <2>6. QED BY <2>1, <2>4, <2>5 DEF Leg
<1>4. QED
  BY <1>1, <1>2, <1>3 DEF FlowStep

(* Two functions on Flows that agree but at f.                               *)
LEMMA MapAt ==
  ASSUME NEW f \in Flows, \A g \in Flows : g # f => fl'[g] = fl[g]
  PROVE  /\ MappedPhase' = [MappedPhase EXCEPT ![f] = ContractPhase(fl'[f].pc)]
         /\ MappedEffect' = [MappedEffect EXCEPT ![f] = Took(fl'[f])]
<1> DEFINE p == ContractPhase(fl'[f].pc)
           e == Took(fl'[f])
<1>1. \A g \in Flows : MappedPhase'[g] = IF g = f THEN p ELSE MappedPhase[g]
  BY Zenon DEF MappedPhase
<1>2. \A g \in Flows : MappedEffect'[g] = IF g = f THEN e ELSE MappedEffect[g]
  BY Zenon DEF MappedEffect
<1>3. /\ MappedPhase = [g \in Flows |-> MappedPhase[g]] /\ MappedPhase' = [g \in Flows |-> MappedPhase'[g]]
      /\ MappedEffect = [g \in Flows |-> MappedEffect[g]] /\ MappedEffect' = [g \in Flows |-> MappedEffect'[g]]
  BY DEF MappedPhase, MappedEffect
<1> HIDE DEF MappedPhase, MappedEffect, p, e
<1>4. MappedPhase' = [MappedPhase EXCEPT ![f] = p]
  BY <1>1, <1>3
<1>5. MappedEffect' = [MappedEffect EXCEPT ![f] = e]
  BY <1>2, <1>3
<1>6. QED BY <1>4, <1>5 DEF p, e

LEMMA StepReport ==
  ASSUME IInv, NEW f \in Flows, FlowStep(f) \/ Mine(f) \/ MineNothing(f)
  PROVE  [Contract!Next]_Contract!vars
<1> DEFINE p == ContractPhase(fl'[f].pc)
           e == Took(fl'[f])
<1>1. MappedPhase' = [MappedPhase EXCEPT ![f] = p] /\ MappedEffect' = [MappedEffect EXCEPT ![f] = e]
  BY FlowShape, MapAt
<1>2. MappedPhase[f] = ContractPhase(fl[f].pc) /\ MappedEffect[f] = Took(fl[f])
  BY DEF MappedPhase, MappedEffect
<1>3. DOMAIN MappedPhase = Flows /\ DOMAIN MappedEffect = Flows
  BY DEF MappedPhase, MappedEffect
<1>4. ReportStep(fl[f], fl'[f])
  BY FlowReport
<1>5. e \in BOOLEAN /\ MappedEffect[f] \in BOOLEAN
  BY <1>2 DEF Took
<1>6. /\ MappedPhase = [g \in Flows |-> MappedPhase[g]] /\ MappedEffect = [g \in Flows |-> MappedEffect[g]]
  BY DEF MappedPhase, MappedEffect
<1>c. Contract!vars = <<MappedPhase, MappedEffect>>
  BY DEF Contract!vars, MappedPhase, MappedEffect, Took
<1> HIDE DEF p, e
<1>7. \/ p = MappedPhase[f] /\ e = MappedEffect[f]
      \/ p = MappedPhase[f] /\ p \in {"working", "failed"} /\ ~MappedEffect[f] /\ e
      \/ MappedPhase[f] = "working" /\ p = "succeeded" /\ MappedEffect[f] /\ e = MappedEffect[f]
      \/ MappedPhase[f] = "working" /\ p = "failed" /\ e = MappedEffect[f]
  BY <1>2, <1>4, Zenon DEF ReportStep, p, e
<1>8. CASE p = MappedPhase[f] /\ e = MappedEffect[f]
  <2>1. MappedPhase' = MappedPhase /\ MappedEffect' = MappedEffect
    <3> HIDE DEF MappedPhase, MappedEffect
    <3>1. QED BY <1>1, <1>3, <1>6, <1>8
  <2>2. QED BY <2>1 DEF Contract!vars, MappedPhase, MappedEffect, Took
<1>9. CASE p = MappedPhase[f] /\ p \in {"working", "failed"} /\ ~MappedEffect[f] /\ e
  <2>1. MappedPhase' = MappedPhase /\ MappedEffect' = [MappedEffect EXCEPT ![f] = TRUE]
    <3>1. e = TRUE
      BY <1>5, <1>9
    <3> HIDE DEF MappedPhase, MappedEffect
    <3>2. QED BY <1>1, <1>3, <1>6, <1>9, <3>1
  <2>2. Contract!TakeEffect(f)
    BY <1>9, <2>1 DEF Contract!TakeEffect, MappedPhase, MappedEffect, Took
  <2>3. QED BY <2>2 DEF Contract!Next
<1>10. CASE MappedPhase[f] = "working" /\ p = "succeeded" /\ MappedEffect[f] /\ e = MappedEffect[f]
  <2>1. MappedPhase' = [MappedPhase EXCEPT ![f] = "succeeded"] /\ MappedEffect' = MappedEffect
    <3> HIDE DEF MappedPhase, MappedEffect
    <3>1. QED BY <1>1, <1>3, <1>6, <1>10
  <2>2. Contract!ReportSuccess(f)
    BY <1>10, <2>1 DEF Contract!ReportSuccess, MappedPhase, MappedEffect, Took
  <2>3. QED BY <2>2 DEF Contract!Next
<1>11. CASE MappedPhase[f] = "working" /\ p = "failed" /\ e = MappedEffect[f]
  <2>1. MappedPhase' = [MappedPhase EXCEPT ![f] = "failed"] /\ MappedEffect' = MappedEffect
    <3> HIDE DEF MappedPhase, MappedEffect
    <3>1. QED BY <1>1, <1>3, <1>6, <1>11
  <2>2. Contract!ReportFailure(f)
    BY <1>11, <2>1 DEF Contract!ReportFailure, MappedPhase, MappedEffect, Took
  <2>3. QED BY <2>2 DEF Contract!Next
<1>12. QED
  BY <1>7, <1>8, <1>9, <1>10, <1>11

LEMMA SubmitReport ==
  ASSUME IInv, NEW f \in Flows, NEW act \in ActionType, NEW a \in Asset, NEW amt \in Amounts,
         Submit(f, act, a, amt)
  PROVE  Contract!Start(f)
<1>1. /\ fl[f].pc = "idle" /\ fl[f].mined = {} /\ \A g \in Flows : g # f => fl'[g] = fl[g]
      /\ fl'[f].pc = "read" /\ fl'[f].mined = {}
  BY DEF Submit, Become, FreshFlow, IInv, TypeOK, FlowOK
<1>2. MappedPhase' = [MappedPhase EXCEPT ![f] = "working"]
  BY <1>1, MapAt DEF ContractPhase
<1>3. MappedEffect' = MappedEffect
  <2>1. Took(fl'[f]) = FALSE /\ Took(fl[f]) = FALSE
    BY <1>1 DEF Took
  <2>2. MappedEffect' = [MappedEffect EXCEPT ![f] = FALSE]
    BY <1>1, <2>1, MapAt
  <2>3. MappedEffect[f] = FALSE
    BY <2>1 DEF MappedEffect
  <2>4. MappedEffect = [g \in Flows |-> MappedEffect[g]]
    BY DEF MappedEffect
  <2> HIDE DEF MappedEffect
  <2>5. QED BY <2>2, <2>3, <2>4
<1>4. MappedPhase[f] = "idle"
  BY <1>1 DEF MappedPhase, ContractPhase
<1>5. QED
  BY <1>2, <1>3, <1>4 DEF Contract!Start, MappedPhase, MappedEffect, Took

(* The EVM lane keeps the abstract contract of an action for any users, flows and  *)
(* amounts: what is reported once was mined, and a transaction whose flow gave up   *)
(* may still take effect, whatever the wallets and the mempool do.              *)
THEOREM EvmLaneKeepsContract == Spec => ContractSpec
<1>1. Init => Contract!Init
  <2> SUFFICES ASSUME Init PROVE Contract!Init
    OBVIOUS
  <2>1. \A f \in Flows : ContractPhase(fl[f].pc) = "idle" /\ ("act" \in fl[f].mined) = FALSE
    BY DEF Init, FreshFlow, ContractPhase
  <2>2. QED BY <2>1, Zenon DEF Contract!Init
<1>2. IInv /\ [Next]_vars => [Contract!Next]_Contract!vars
  <2> SUFFICES ASSUME IInv, [Next]_vars
               PROVE  [Contract!Next]_Contract!vars
    OBVIOUS
  <2>1. CASE \E f \in Flows : FlowStep(f) \/ Mine(f) \/ MineNothing(f)
    BY <2>1, StepReport
  <2>2. CASE \E f \in Flows, act \in ActionType, a \in Asset, amt \in Amounts : Submit(f, act, a, amt)
    BY <2>2, SubmitReport DEF Contract!Next
  <2>3. CASE fl' = fl
    BY <2>3 DEF Contract!vars
  <2>4. QED
    BY <2>1, <2>2, <2>3
       DEF Next, LaneStep, IdentityStep, ClearError, Refuse, OtherTabSupplies, OtherTabWithdraws,
           Connect, Disconnect, vars
<1>3. QED
  BY <1>1, <1>2, IInit, INext, PTL DEF Spec, ContractSpec, Contract!Spec
=============================================================================
