----------------------------- MODULE MCSolanaLane -----------------------------
(* Model-checking instances of SolanaLane, and the one property that needs  *)
(* a sum over flows.                                                        *)
EXTENDS SolanaLane, FiniteSets, Functions, TLC

(* A behaviour has finitely many flows, each a click of the user.           *)
ASSUME FlowsAssumption == IsFiniteSet(Flows)

(* Wallets and flows are interchangeable in the safety runs.                *)
Symmetry == Permutations(Users) \cup Permutations(Flows)

InitBaseOne == {1}
InitBaseSome == {-1, 1}

(* What a flow, of record r, has left in u's synthetic, told from the legs    *)
(* that landed.                                                            *)
Residue(r, u, a) ==
  LET if(leg, n) == IF leg \in r.landed THEN n ELSE 0
  IN IF r.who = u /\ r.asset = a
     THEN if("fund", r.amt) - if("supply", r.amt)
          + if("withdraw", WithdrawAmount(r)) - if("sweep", r.amt)
     ELSE 0
Residues(u, a) == [f \in Flows |-> Residue(fl[f], u, a)]

(* The synthetic's balance is explained, at every moment, by the legs of    *)
(* unfinished and failed flows plus the base supply each borrow drained and  *)
(* did not sweep: nothing else strands tokens there, and no other path of    *)
(* the lane ever takes them out again.                                      *)
SyntheticExplained ==
  \A u \in Users, a \in Asset : syn[u][a] = SumFunction(Residues(u, a))

(* The lane under fairness.  Its users start without token accounts, so     *)
(* that the legs that create them and those that find them both occur.     *)
SwitchInit == Init /\ \A u \in Users, a \in Asset : ~ata[u][a]
SwitchSpec == SwitchInit /\ [][Next]_vars /\ \A f \in Flows : WF_vars(SystemStep(f))
=============================================================================
