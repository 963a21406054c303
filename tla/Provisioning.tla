----------------------------- MODULE Provisioning -----------------------------
(***************************************************************************)
(* The Activate gate of the Solana lane: useProvisionedCheck.ts decides    *)
(* whether the connected user's synthetic account exists, and              *)
(* useSolanaLane.ts runActivate creates it.                                *)
(*                                                                         *)
(* The check is an asynchronous read that is started again whenever one of *)
(* its inputs changes and is never cancelled: every started check delivers *)
(* its verdict, in any order.  Activation is an asynchronous flow that     *)
(* captures its user, but signs each transaction with whatever wallet is   *)
(* connected when the transaction is built.                                *)
(***************************************************************************)
EXTENDS Integers, FiniteSets

CONSTANTS
  Users,        \* wallet accounts
  NoUser,       \* "not connected"
  NumAssets,    \* assets of the Comet: 1 is the base, the others its collaterals
  Checks,       \* provisioning checks that may be started (a bound)
  Activations,  \* activations that may be started (a bound)
  RpcFails      \* may the RPC read of a check fail?

ASSUME ProvisioningAssumption ==
  /\ NoUser \notin Users
  /\ NumAssets \in Nat \ {0}
  /\ RpcFails \in BOOLEAN

VARIABLES
  pda,       \* pda[u]: u's external_auth account exists on chain
  ata,       \* ata[u]: assets whose token account u's synthetic has
  active,    \* the connected user
  resolved,  \* /api/env told the lane which chain it is on
  gate,      \* useProvisionedCheck's state; history: blind, the verdict came from a
             \* failed read; about, whose account it was about
  check,     \* check[c]: an in-flight read
  act        \* act[n]: a run of runActivate

vars == <<pda, ata, active, resolved, gate, check, act>>

Assets == 1 .. NumAssets

Verdict == {"none", "present", "absent", "failed"}
CheckState == [pc: {"unused", "asked", "answered", "delivered"},
               who: Users \cup {NoUser}, val: Verdict]
ActState == [pc: {"unused", "readPda", "createPda", "readAta", "createAta",
                  "refresh", "done", "failed"},
             who: Users \cup {NoUser},
             next: 1 .. NumAssets + 1,   \* the asset whose token account is looked at
             popups: 0 .. NumAssets + 1] \* wallet popups so far

TypeOK ==
  /\ pda \in [Users -> BOOLEAN]
  /\ ata \in [Users -> SUBSET Assets]
  /\ active \in Users \cup {NoUser}
  /\ resolved \in BOOLEAN
  /\ gate \in [provisioned: BOOLEAN, checked: BOOLEAN, activating: BOOLEAN,
              blind: BOOLEAN, about: Users \cup {NoUser}]
  /\ check \in [Checks -> CheckState]
  /\ act \in [Activations -> ActState]

Init ==
  /\ pda \in [Users -> BOOLEAN]
  /\ ata \in [Users -> {{}, Assets}]
  /\ \A u \in Users : ~pda[u] => ata[u] = {}
  /\ active = NoUser
  /\ resolved \in BOOLEAN
  /\ gate = [provisioned |-> TRUE, checked |-> FALSE, activating |-> FALSE,
              blind |-> FALSE, about |-> NoUser]
  /\ check = [c \in Checks |-> [pc |-> "unused", who |-> NoUser, val |-> "none"]]
  /\ act = [n \in Activations |-> [pc |-> "unused", who |-> NoUser, next |-> 1, popups |-> 0]]

(* A check whose verdict is in; the next one started is any that was not.     *)
Spent == [pc |-> "delivered", who |-> NoUser, val |-> "none"]
IsNext(c) == check[c].pc = "unused" /\ c = CHOOSE d \in Checks : check[d].pc = "unused"

Checking(c) == check[c].pc \in {"asked", "answered"}
Activating(n) == act[n].pc \notin {"unused", "done", "failed"}

(* The screens of LaneApp that depend on the gate.                          *)
ShownProvisioned == gate.checked => gate.provisioned
ActivateShown == active # NoUser /\ ~ShownProvisioned /\ ~gate.activating
PanelShown == active # NoUser /\ ShownProvisioned

-----------------------------------------------------------------------------
(* The check.                                                              *)

(* The effect of useProvisionedCheck after its inputs became u and r.       *)
GateReset == [gate EXCEPT !.checked = FALSE, !.provisioned = TRUE,
                             !.blind = FALSE, !.about = NoUser]

RunEffect(u, r) ==
  IF u = NoUser \/ ~r
  THEN gate' = GateReset /\ UNCHANGED check
  ELSE /\ UNCHANGED gate
       /\ \E c \in Checks :
            /\ IsNext(c)
            /\ check' = [check EXCEPT ![c] = [pc |-> "asked", who |-> u, val |-> "none"]]

(* The RPC node looks the account up; its answer travels on its own.        *)
Answer(c) ==
  /\ check[c].pc = "asked"
  /\ \/ check' = [check EXCEPT ![c].pc = "answered",
                               ![c].val = IF pda[check[c].who] THEN "present" ELSE "absent"]
     \/ RpcFails /\ check' = [check EXCEPT ![c].pc = "answered", ![c].val = "failed"]
  /\ UNCHANGED <<pda, ata, active, resolved, gate, act>>

(* The awaited read returns into the closure, whoever is connected by now:  *)
(* an existing account opens the gate, and so does a failed read.           *)
Deliver(c) ==
  /\ check[c].pc = "answered"
  /\ check' = [check EXCEPT ![c] = Spent]
  /\ gate' = [gate EXCEPT !.provisioned = check[c].val # "absent", !.checked = TRUE,
                          !.blind = check[c].val = "failed", !.about = check[c].who]
  /\ UNCHANGED <<pda, ata, active, resolved, act>>

-----------------------------------------------------------------------------
(* Activation.                                                             *)

Activate(n) ==
  /\ ActivateShown
  /\ act[n].pc = "unused"
  /\ act' = [act EXCEPT ![n].pc = "readPda", ![n].who = active]
  /\ gate' = [gate EXCEPT !.activating = TRUE]
  /\ UNCHANGED <<pda, ata, active, resolved, check>>

ReadPda(n) ==
  /\ act[n].pc = "readPda"
  /\ act' = [act EXCEPT ![n].pc = IF pda[act[n].who] THEN "readAta" ELSE "createPda"]
  /\ UNCHANGED <<pda, ata, active, resolved, gate, check>>

(* create_pda(synthetic of the captured user), signed by the wallet         *)
(* connected now; it lands and is confirmed.                                *)
CreatePda(n) ==
  /\ act[n].pc = "createPda"
  /\ active # NoUser
  /\ pda' = [pda EXCEPT ![act[n].who] = TRUE]
  /\ act' = [act EXCEPT ![n].pc = "readAta", ![n].popups = @ + 1]
  /\ UNCHANGED <<ata, active, resolved, gate, check>>

(* Mutant: the loop runs one turn too many.                                 *)
ReadAta_OnePast(n) ==
  /\ act[n].pc = "readAta"
  /\ act[n].next \in 1 .. NumAssets + 1
  /\ act' = IF act[n].next \in ata[act[n].who]
            THEN [act EXCEPT ![n].next = @ + 1]
            ELSE [act EXCEPT ![n].pc = "createAta"]
  /\ UNCHANGED <<pda, ata, active, resolved, gate, check>>

(* One turn of the loop over the assets, the base first: a token account    *)
(* that exists is passed over.                                              *)
ReadAta(n) ==
  /\ act[n].pc = "readAta"
  /\ act[n].next \in Assets
  /\ act' = IF act[n].next \in ata[act[n].who]
            THEN [act EXCEPT ![n].next = @ + 1]
            ELSE [act EXCEPT ![n].pc = "createAta"]
  /\ UNCHANGED <<pda, ata, active, resolved, gate, check>>

CreateAta(n) ==
  /\ act[n].pc = "createAta"
  /\ active # NoUser
  /\ ata' = [ata EXCEPT ![act[n].who] = @ \cup {act[n].next}]
  /\ act' = [act EXCEPT ![n].pc = "readAta", ![n].next = @ + 1, ![n].popups = @ + 1]
  /\ UNCHANGED <<pda, active, resolved, gate, check>>

(* Mutant: the loop stops one asset early.                                  *)
Finish_OneEarly(n) ==
  /\ act[n].pc = "readAta" /\ act[n].next >= NumAssets
  /\ act' = [act EXCEPT ![n].pc = "refresh"]
  /\ gate' = [gate EXCEPT !.provisioned = TRUE, !.checked = TRUE, !.about = act[n].who]
  /\ UNCHANGED <<pda, ata, active, resolved, check>>

(* markProvisioned and the success banner.                                  *)
Finish(n) ==
  /\ act[n].pc = "readAta" /\ act[n].next > NumAssets
  /\ act' = [act EXCEPT ![n].pc = "refresh"]
  /\ gate' = [gate EXCEPT !.provisioned = TRUE, !.checked = TRUE, !.about = act[n].who]
  /\ UNCHANGED <<pda, ata, active, resolved, check>>

(* The refreshes return or throw; either way the activating screen ends.    *)
Refreshed(n) ==
  /\ act[n].pc = "refresh"
  /\ act' = [act EXCEPT ![n].pc = "done"]
  /\ gate' = [gate EXCEPT !.activating = FALSE]
  /\ UNCHANGED <<pda, ata, active, resolved, check>>

(* A rejected popup, a missing wallet, a failed read or transaction.        *)
GiveUp(n) ==
  /\ Activating(n) /\ act[n].pc # "refresh"
  /\ act' = [act EXCEPT ![n].pc = "failed"]
  /\ gate' = [gate EXCEPT !.activating = FALSE]
  /\ UNCHANGED <<pda, ata, active, resolved, check>>

-----------------------------------------------------------------------------
(* The inputs of the check.                                                *)

Connect(u) ==
  /\ active # u
  /\ RunEffect(u, resolved)
  /\ active' = u
  /\ UNCHANGED <<pda, ata, resolved, act>>

(* disconnectFn also leaves the activating screen.                          *)
Disconnect ==
  /\ active # NoUser
  /\ active' = NoUser
  /\ gate' = [GateReset EXCEPT !.activating = FALSE]
  /\ UNCHANGED <<pda, ata, resolved, check, act>>

Resolve ==
  /\ ~resolved
  /\ resolved' = TRUE
  /\ RunEffect(active, TRUE)
  /\ UNCHANGED <<pda, ata, active, act>>

(* The page is loaded again: every closure is gone, the chain stays.        *)
Reload ==
  /\ active' = NoUser /\ resolved' \in BOOLEAN
  /\ gate' = [provisioned |-> TRUE, checked |-> FALSE, activating |-> FALSE,
              blind |-> FALSE, about |-> NoUser]
  /\ check' = [c \in Checks |->
       IF Checking(c) THEN Spent ELSE check[c]]
  /\ act' = [n \in Activations |->
       IF Activating(n) THEN [act[n] EXCEPT !.pc = "failed"] ELSE act[n]]
  /\ UNCHANGED <<pda, ata>>

-----------------------------------------------------------------------------
CheckStep(c) == Answer(c) \/ Deliver(c)
ActStep(n) ==
  ReadPda(n) \/ CreatePda(n) \/ ReadAta(n) \/ CreateAta(n) \/ Finish(n)
  \/ Refreshed(n) \/ GiveUp(n)

GateStep ==
  \/ \E c \in Checks : CheckStep(c)
  \/ \E n \in Activations : Activate(n) \/ ActStep(n)
  \/ Resolve \/ Reload
IdentityStep == (\E u \in Users : Connect(u)) \/ Disconnect

Next == GateStep \/ IdentityStep
Spec == Init /\ [][Next]_vars

(* An RPC read returns or throws; the page is not reloaded for ever because *)
(* checks are bounded.                                                      *)
FairSpec == Spec /\ \A c \in Checks : WF_vars(CheckStep(c))

-----------------------------------------------------------------------------
(* Properties.                                                             *)

(* Whatever accounts come and go, an owner of an account is sent to         *)
(* Activate only on another account's verdict, or once an own activation    *)
(* began: one that failed half-way, or one the lane lost sight of when its  *)
(* user disconnected and came back.                                        *)
OwnVerdictIsRight ==
  ActivateShown /\ gate.about = active /\ pda[active] =>
    \E n \in Activations : act[n].who = active

(* A concluded check offers the action panel to its account only if it      *)
(* exists, unless the read failed (which opens the gate).                   *)
PanelMeansAccount ==
  gate.checked /\ PanelShown /\ gate.about = active /\ ~gate.blind => pda[active]

Finished(n) == act[n].pc \in {"refresh", "done"}

(* An activation that reports success left a complete account: the PDA and  *)
(* one token account for the base asset and every collateral.               *)
ActivatedIsComplete ==
  \A n \in Activations : Finished(n) => pda[act[n].who] /\ ata[act[n].who] = Assets

(* A connected user on a known chain gets a verdict, whatever else happens. *)
HasVerdict == active # NoUser /\ resolved => gate.checked
VerdictComes == []<>HasVerdict
=============================================================================
