------------------------------ MODULE MCEvmLane ------------------------------
(***************************************************************************)
(* Model-checking instances of EvmLane.  Two kinds of behaviour are looked    *)
(* at: in the steady ones a user changes wallets only between flows, types    *)
(* any amount, and moves the account from another tab; in the switched ones   *)
(* wallets change between any two steps, with one amount and no other tab.    *)
(***************************************************************************)
EXTENDS EvmLane, TLC

CONSTANT SteadyUsers  \* the wallets of the steady behaviours

VARIABLE kind

InitBaseSome == {-1, 1}

Owns(u, n, b, c) == wal[u] = [a \in Asset |-> n] /\ pos[u] = [base |-> b, coll |-> c]

KindInit ==
  /\ Init
  /\ \/ kind = "steady" /\ \A u \in Users : \E b \in {-1, 1} :
          IF u \in SteadyUsers THEN Owns(u, 2, b, 1) ELSE Owns(u, 1, 1, 0)
     \/ kind = "switched" /\ \A u \in Users : Owns(u, 1, 1, 0)

KindNext ==
  /\ UNCHANGED kind
  /\ \/ /\ kind = "steady" /\ SteadyNext
        /\ active' \in SteadyUsers \cup {NoUser}
        /\ \A u \in Users \ SteadyUsers : <<wal[u], pos[u]>>' = <<wal[u], pos[u]>>
     \/ kind = "switched" /\ Next /\ UNCHANGED other /\ \A f \in Flows : fl'[f].amt \in {0, 1}

KindSpec == KindInit /\ [][KindNext]_<<vars, kind>> /\ \A f \in Flows : WF_vars(SystemStep(f))

(* No transaction of a flow does more than its plan: an approval is spent or left     *)
(* for a retry, never idle after a success, and a success comes after the receipts   *)
(* of the whole plan (runAction).                                            *)
FlowIsExact == NoIdleAllowance /\ SuccessIsMinedPlan

(* The popup is the plan's highlighted row while wallets change only between   *)
(* flows (runAction's ref.current).                                        *)
SteadyPlan == kind = "steady" => PlanMatchesPopup
=============================================================================
