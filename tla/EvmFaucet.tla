------------------------------ MODULE EvmFaucet ------------------------------
(***************************************************************************)
(* The page app/evm/faucet.  The faucet contract and wagmi are external:    *)
(* the contract pays each account once; wagmi caches `claimed` per account,  *)
(* follows the transaction of the page's last hash, and sends from the       *)
(* account that is connected when it sends.                                *)
(*                                                                         *)
(* Two effects move the page's phase, one on the account, the chain and the *)
(* cached answer, one on the receipt; both are part of every action that    *)
(* changes what they depend on.                                            *)
(***************************************************************************)
EXTENDS Naturals

CONSTANTS Users, NoUser, Claims, NoClaim

VARIABLES
  claimed,  \* accounts the contract has paid
  active,   \* the connected account
  onChain,  \* is the wallet on the market's chain?
  cached,   \* cached[u]: the query's data for u
  phase,    \* what the page shows
  hash,     \* txHash: the claim whose transaction was sent last
  clicked,  \* history: the claim that was clicked last
  claim     \* claim[c]: one call of claim()

vars == <<claimed, active, onChain, cached, phase, hash, clicked, claim>>

Phases == {"idle", "ready", "claiming", "success", "error", "already-claimed"}
Data == {"unknown", "no", "yes"}
ClaimState == [pc: {"idle", "estimate", "popup", "ended"},
               who: Users \cup {NoUser},  \* the account that was estimated for
               by: Users \cup {NoUser},   \* the account that is asked to sign
               fate: {"none", "pending", "paid", "reverted"},
               receipt: BOOLEAN]          \* the page's receipt query has it

TypeOK ==
  /\ claimed \subseteq Users /\ active \in Users \cup {NoUser} /\ onChain \in BOOLEAN
  /\ cached \in [Users -> Data] /\ phase \in Phases
  /\ {hash, clicked} \subseteq Claims \cup {NoClaim}
  /\ claim \in [Claims -> ClaimState]

(* alreadyClaimed: no account, no data.                                     *)
AlreadyClaimed(u, known) == IF u = NoUser THEN "unknown" ELSE known[u]

(* The first effect.                                                       *)
Follow(p, u, on, data) ==
  IF u = NoUser THEN "idle"
  ELSE IF ~on THEN p
  ELSE IF data = "yes" THEN "already-claimed"
  ELSE IF data = "no" /\ p \notin {"claiming", "success", "error"} THEN "ready"
  ELSE p

Mined(h) == h # NoClaim /\ claim[h].receipt

(* The account, the chain and the data become u, on and known: the effect     *)
(* runs if that changes one of its dependencies.                           *)
Render(u, on, known) ==
  LET before == <<active = NoUser, onChain, AlreadyClaimed(active, cached)>>
      after == <<u = NoUser, on, AlreadyClaimed(u, known)>>
  IN /\ active' = u /\ onChain' = on /\ cached' = known
     /\ phase' = IF before = after THEN phase
                 ELSE Follow(phase, u, on, AlreadyClaimed(u, known))

Init ==
  /\ claimed \in SUBSET Users
  /\ active = NoUser /\ onChain \in BOOLEAN
  /\ cached = [u \in Users |-> "unknown"]
  /\ phase = "idle" /\ hash = NoClaim /\ clicked = NoClaim
  /\ claim = [c \in Claims |-> [pc |-> "idle", who |-> NoUser, by |-> NoUser,
                                fate |-> "none", receipt |-> FALSE]]

(* Mutant: the phase is shown on whatever chain the wallet is.                *)
Shown_AnyChain == IF active = NoUser THEN "connect" ELSE phase

(* What the panel shows: a wallet to connect and a chain to switch to come before  *)
(* the phase, which stays what it was behind them.                          *)
Shown ==
  IF active = NoUser THEN "connect" ELSE IF ~onChain THEN "switch" ELSE phase

-----------------------------------------------------------------------------
Switch(u) ==
  /\ u # active
  /\ Render(u, onChain, cached)
  /\ UNCHANGED <<claimed, hash, clicked, claim>>

SwitchChain ==
  /\ Render(active, ~onChain, cached)
  /\ UNCHANGED <<claimed, hash, clicked, claim>>

(* The query answers, first or again (every 8 s, and after a success).       *)
Refetch ==
  /\ active # NoUser /\ onChain
  /\ Render(active, onChain, [cached EXCEPT ![active] = IF active \in claimed THEN "yes" ELSE "no"])
  /\ UNCHANGED <<claimed, hash, clicked, claim>>

(* The second effect sees "claiming" together with the receipt of whatever   *)
(* hash the page still has.                                                *)
Click(c) ==
  /\ Shown = "ready"
  /\ claim[c].pc = "idle" /\ c = CHOOSE d \in Claims : claim[d].pc = "idle"
  /\ claim' = [claim EXCEPT ![c].pc = "estimate", ![c].who = active]
  /\ phase' = IF Mined(hash) THEN "success" ELSE "claiming"
  /\ clicked' = c
  /\ UNCHANGED <<claimed, active, onChain, cached, hash>>

(* The estimate reverts for an account that was paid.                       *)
Estimate(c) ==
  /\ claim[c].pc = "estimate" /\ claim[c].who \notin claimed
  /\ active # NoUser /\ onChain
  /\ claim' = [claim EXCEPT ![c].pc = "popup", ![c].by = active]
  /\ UNCHANGED <<claimed, active, onChain, cached, phase, hash, clicked>>

Sign(c) ==
  /\ claim[c].pc = "popup"
  /\ claim' = [claim EXCEPT ![c].pc = "ended", ![c].fate = "pending"]
  /\ hash' = c
  /\ UNCHANGED <<claimed, active, onChain, cached, phase, clicked>>

Fail(c) ==
  /\ claim[c].pc \in {"estimate", "popup"}
  /\ claim' = [claim EXCEPT ![c].pc = "ended"]
  /\ phase' = "error"
  /\ UNCHANGED <<claimed, active, onChain, cached, hash, clicked>>

Execute(c) ==
  /\ claim[c].fate = "pending"
  /\ claimed' = claimed \cup {claim[c].by}
  /\ claim' = [claim EXCEPT ![c].fate = IF claim[c].by \in claimed THEN "reverted" ELSE "paid"]
  /\ UNCHANGED <<active, onChain, cached, phase, hash, clicked>>

(* The receipt query follows the page's hash; it throws for a transaction    *)
(* that reverted.                                                          *)
Receipt(c) ==
  /\ c = hash /\ claim[c].fate = "paid" /\ ~claim[c].receipt
  /\ claim' = [claim EXCEPT ![c].receipt = TRUE]
  /\ phase' = IF phase = "claiming" THEN "success" ELSE phase
  /\ UNCHANGED <<claimed, active, onChain, cached, hash, clicked>>

-----------------------------------------------------------------------------
Next ==
  \/ \E u \in Users \cup {NoUser} : Switch(u)
  \/ SwitchChain \/ Refetch
  \/ \E c \in Claims :
       Click(c) \/ Estimate(c) \/ Sign(c) \/ Fail(c) \/ Execute(c) \/ Receipt(c)

Spec == Init /\ [][Next]_vars

-----------------------------------------------------------------------------
(* Properties.                                                             *)

(* "Funds dropped" is never shown before one of the page's claims was paid    *)
(* and its receipt was seen, whoever is connected by then (the effect on     *)
(* txMined).  Whose claim it was, the page does not keep.                    *)
SuccessIsPaid ==
  phase = "success" => \E c \in Claims : claim[c].receipt /\ claim[c].by \in claimed

(* The page never says "already claimed" to an account it knows to be unpaid,   *)
(* nor offers a claim to one it knows to be paid or off the market's chain, in   *)
(* whatever order accounts, chains and answers change (the two effects and the   *)
(* order of the panel's alternatives).                                     *)
PhaseIsAboutAccount ==
  /\ Shown = "already-claimed" => cached[active] # "no"
  /\ Shown = "ready" => cached[active] # "yes" /\ onChain /\ active # NoUser
=============================================================================
