----------------------------- MODULE SolanaFaucet -----------------------------
(***************************************************************************)
(* Test funds on the Solana lane: the native-faucet program and the page    *)
(* app/solana/faucet.                                                      *)
(*                                                                         *)
(* The page keeps one phase for whatever wallet is connected and asks the   *)
(* chain for the wallet's claim marker whenever wallet or phase change.  A  *)
(* claim is one transaction; it can land after the page gave up on it, and  *)
(* the same wallet can claim from elsewhere.                               *)
(***************************************************************************)
EXTENDS Naturals

CONSTANTS
  Users,   \* wallets
  NoUser,  \* no wallet connected
  Mints,   \* tokens the faucet drops
  Stocks,  \* drops that the reserves can pay, to start with
  Claims,  \* clicks on the claim button (bounds a behaviour)
  NoClaim  \* no claim yet

VARIABLES
  marker,   \* wallets with a claim marker on chain
  reserve,  \* reserve[m]: drops left
  got,      \* got[u][m]: drops u received
  active,   \* the connected wallet
  phase,    \* what the page shows
  of,       \* history: the claim that set the phase
  already,  \* alreadyClaimed: null, false or true
  read,     \* the marker read that is not cancelled
  claim     \* claim[c]: one call of claim()

chainVars == <<marker, reserve, got>>
pageVars == <<phase, of, already, read>>
vars == <<marker, reserve, got, active, phase, of, already, read, claim>>

Pending == {"mints", "popup", "sent"}
NoRead == [pc |-> "none", who |-> NoUser, ans |-> FALSE]
ReadState == [pc: {"none", "asked", "answered"}, who: Users \cup {NoUser}, ans: BOOLEAN]
ClaimState == [pc: {"idle", "ok", "failed"} \cup Pending,
               who: Users \cup {NoUser},  \* the wallet the instruction names
               by: Users \cup {NoUser},   \* the wallet that is asked to sign
               fate: {"none", "pending", "landed", "refused"}]

TypeOK ==
  /\ marker \subseteq Users /\ reserve \in [Mints -> Nat]
  /\ got \in [Users -> [Mints -> Nat]]
  /\ active \in Users \cup {NoUser}
  /\ phase \in {"idle", "claiming", "success", "error"} /\ of \in Claims \cup {NoClaim}
  /\ already \in {"unknown", "no", "yes"} /\ read \in ReadState
  /\ claim \in [Claims -> ClaimState]

InFlight(c) == claim[c].pc \in Pending

Init ==
  /\ marker = {} /\ reserve \in Stocks /\ got = [u \in Users |-> [m \in Mints |-> 0]]
  /\ active = NoUser /\ phase = "idle" /\ of = NoClaim
  /\ already = "unknown" /\ read = NoRead
  /\ claim = [c \in Claims |-> [pc |-> "idle", who |-> NoUser, by |-> NoUser, fate |-> "none"]]

-----------------------------------------------------------------------------
(* The program.                                                            *)

(* process_instruction succeeds: no marker yet, and every transfer is paid.  *)
Accepts(u) == u \notin marker /\ \A m \in Mints : reserve[m] > 0

(* The marker and every drop, all in one transaction.                       *)
Drop(u) ==
  /\ marker' = marker \cup {u}
  /\ reserve' = [m \in Mints |-> reserve[m] - 1]
  /\ got' = [got EXCEPT ![u] = [m \in Mints |-> @[m] + 1]]

(* The same wallet claims in another tab.                                   *)
ClaimElsewhere(u) ==
  /\ Accepts(u) /\ Drop(u)
  /\ UNCHANGED <<active, pageVars, claim>>

-----------------------------------------------------------------------------
(* The page.                                                               *)

(* Mutant: a read in flight is not cancelled, and the new one is not made.  *)
Effect_NoCancel(u) ==
  IF u = NoUser THEN already' = "unknown" /\ UNCHANGED read
  ELSE /\ read' = IF read.pc = "none" THEN [NoRead EXCEPT !.pc = "asked", !.who = u] ELSE read
       /\ UNCHANGED already

(* The effect on [publicKey, connection, phase]: the read in flight is       *)
(* cancelled and a new one asked for; only a disconnect clears the answer.  *)
Effect(u) ==
  IF u = NoUser THEN already' = "unknown" /\ read' = NoRead
  ELSE read' = [NoRead EXCEPT !.pc = "asked", !.who = u] /\ UNCHANGED already

ReadMarker ==
  /\ read.pc = "asked"
  /\ read' = [read EXCEPT !.pc = "answered", !.ans = read.who \in marker]
  /\ UNCHANGED <<chainVars, active, phase, of, already, claim>>

Answer ==
  /\ read.pc = "answered"
  /\ already' = IF read.ans THEN "yes" ELSE "no"
  /\ read' = NoRead
  /\ UNCHANGED <<chainVars, active, phase, of, claim>>

ReadFails ==
  /\ read.pc # "none"
  /\ already' = "unknown"
  /\ read' = NoRead
  /\ UNCHANGED <<chainVars, active, phase, of, claim>>

(* "Claim test funds" and, after an error, "Try again".                     *)
ButtonShown ==
  active # NoUser /\ (phase = "error" \/ (phase = "idle" /\ already # "yes"))

SetPhase(c, p) ==
  /\ phase' = p /\ of' = c
  /\ IF p # phase THEN Effect(active) ELSE UNCHANGED <<already, read>>

Click(c) ==
  /\ ButtonShown
  /\ claim[c].pc = "idle" /\ c = CHOOSE d \in Claims : claim[d].pc = "idle"
  /\ claim' = [claim EXCEPT ![c].pc = "mints", ![c].who = active]
  /\ SetPhase(c, "claiming")
  /\ UNCHANGED <<chainVars, active>>

(* The mints are known; submitRaw takes the wallet connected by now.         *)
Prompt(c) ==
  /\ claim[c].pc = "mints" /\ active # NoUser
  /\ claim' = [claim EXCEPT ![c].pc = "popup", ![c].by = active]
  /\ UNCHANGED <<chainVars, active, pageVars>>

(* A transaction that another wallet signed lacks the claimer's signature    *)
(* and is not sent.                                                        *)
Sign(c) ==
  /\ claim[c].pc = "popup" /\ claim[c].by = claim[c].who
  /\ claim' = [claim EXCEPT ![c].pc = "sent", ![c].fate = "pending"]
  /\ UNCHANGED <<chainVars, active, pageVars>>

(* The transaction executes, also after the page gave up on it.             *)
Land(c) ==
  /\ claim[c].fate = "pending"
  /\ IF Accepts(claim[c].who)
     THEN Drop(claim[c].who) /\ claim' = [claim EXCEPT ![c].fate = "landed"]
     ELSE UNCHANGED chainVars /\ claim' = [claim EXCEPT ![c].fate = "refused"]
  /\ UNCHANGED <<active, pageVars>>

Succeed(c) ==
  /\ claim[c].pc = "sent" /\ claim[c].fate = "landed"
  /\ claim' = [claim EXCEPT ![c].pc = "ok"]
  /\ SetPhase(c, "success")
  /\ UNCHANGED <<chainVars, active>>

Fail(c) ==
  /\ InFlight(c)
  /\ claim' = [claim EXCEPT ![c].pc = "failed"]
  /\ SetPhase(c, "error")
  /\ UNCHANGED <<chainVars, active>>

Switch(u) ==
  /\ active # u
  /\ active' = u
  /\ Effect(u)
  /\ UNCHANGED <<chainVars, phase, of, claim>>

-----------------------------------------------------------------------------
Next ==
  \/ ReadMarker \/ Answer \/ ReadFails
  \/ \E u \in Users : ClaimElsewhere(u)
  \/ \E u \in Users \cup {NoUser} : Switch(u)
  \/ \E c \in Claims : Click(c) \/ Prompt(c) \/ Sign(c) \/ Land(c) \/ Succeed(c) \/ Fail(c)

Spec == Init /\ [][Next]_vars

-----------------------------------------------------------------------------
(* Properties.                                                             *)

(* A wallet has claimed everything once, or nothing: the marker and the      *)
(* drops never come apart, however often it retries and however little the  *)
(* reserves hold (lib.rs: "each wallet can claim exactly once").            *)
OnceAndComplete ==
  \A u \in Users, m \in Mints : got[u][m] = IF u \in marker THEN 1 ELSE 0

(* Once the marker read has settled, "already claimed" is about the wallet   *)
(* that is connected (the effect's cancellation).                          *)
AlreadyIsMine == already = "yes" /\ read.pc = "none" => active \in marker

(* "Funds dropped" means that the claim that says so dropped them.           *)
SuccessIsDropped ==
  phase = "success" => claim[of].who \in marker /\ claim[of].fate = "landed"

(* The page, which has no other guard, never runs two claims at a time.      *)
OneClaimAtATime == \A c, d \in Claims : InFlight(c) /\ InFlight(d) => c = d
=============================================================================
