---------------------------- MODULE MCPagesProofs ----------------------------
(***************************************************************************)
(* Proofs about the views of MCPages: the two faucets, the liquidate page and its *)
(* table, the lane's form and its action panel, the portal and its modal.  A       *)
(* behaviour of MCPages is that of one page, so that an inductive invariant of a    *)
(* page is one of MCPages while the page is shown.                              *)
(***************************************************************************)
EXTENDS MCPages, SumLemmas, TLAPS

-----------------------------------------------------------------------------
(* SolanaFaucet, for any wallets, tokens and claims.                          *)

(* A claim in flight is the one behind "claiming"; one that was sent names a     *)
(* wallet, and one that landed marked it.                                     *)
SolClaimOK(c) ==
  /\ SolFaucet!InFlight(c) => phase = "claiming" /\ of = c
  /\ claim[c].pc \in {"idle", "mints", "popup"} => claim[c].fate = "none"
  /\ claim[c].pc # "idle" => claim[c].who \in Users
  /\ claim[c].pc = "ok" => claim[c].fate = "landed"
  /\ claim[c].fate = "landed" => claim[c].who \in marker

(* A marker read under way is of the wallet that is connected.                  *)
SolReadOK ==
  /\ read.pc # "none" => read.who = active
  /\ read.pc = "answered" /\ read.ans => read.who \in marker
  /\ already = "yes" /\ read.pc = "none" => active \in marker

SolFaucetIInv ==
  /\ SolFaucet!TypeOK /\ SolFaucet!OnceAndComplete
  /\ \A c \in Claims : SolClaimOK(c)
  /\ SolReadOK
  /\ phase = "success" => of \in Claims /\ claim[of].pc = "ok"

LEMMA SolFaucetInit == SolFaucet!Init => SolFaucetIInv
<1> SUFFICES ASSUME SolFaucet!Init PROVE SolFaucetIInv
  OBVIOUS
<1>1. /\ marker = {} /\ reserve \in [Mints -> 1 .. 2] /\ got = [u \in Users |-> [m \in Mints |-> 0]]
      /\ active = NoUser /\ phase = "idle" /\ of = NoClaim
      /\ already = "unknown" /\ read = [pc |-> "none", who |-> NoUser, ans |-> FALSE]
      /\ claim = [c \in Claims |-> [pc |-> "idle", who |-> NoUser, by |-> NoUser, fate |-> "none"]]
  BY DEF SolFaucet!Init, SolFaucet!NoRead, SomeStocks
<1>2. \A c \in Claims : claim[c] = [pc |-> "idle", who |-> NoUser, by |-> NoUser, fate |-> "none"]
  BY <1>1
<1>3. SolFaucet!TypeOK
  <2>1. reserve \in [Mints -> Nat] /\ got \in [Users -> [Mints -> Nat]]
    BY <1>1
  <2>2. claim \in [Claims -> SolFaucet!ClaimState]
    BY <1>1 DEF SolFaucet!ClaimState
  <2>3. read \in SolFaucet!ReadState
    BY <1>1 DEF SolFaucet!ReadState
  <2> QED
    BY <1>1, <2>1, <2>2, <2>3 DEF SolFaucet!TypeOK
<1>4. SolFaucet!OnceAndComplete
  BY <1>1 DEF SolFaucet!OnceAndComplete
<1>5. \A c \in Claims : SolClaimOK(c)
  BY <1>2 DEF SolClaimOK, SolFaucet!InFlight, SolFaucet!Pending
<1>6. SolReadOK
  BY <1>1 DEF SolReadOK
<1> QED
  BY <1>1, <1>3, <1>4, <1>5, <1>6 DEF SolFaucetIInv

(* Claim c becomes r, and the page and the chain move as they may.              *)
LEMMA SolClaimBecomes ==
  ASSUME SolFaucetIInv, NEW c \in Claims, NEW r \in SolFaucet!ClaimState,
         claim' = [claim EXCEPT ![c] = r]
  PROVE  /\ claim' \in [Claims -> SolFaucet!ClaimState]
         /\ claim'[c] = r /\ \A d \in Claims \ {c} : claim'[d] = claim[d]
BY DEF SolFaucetIInv, SolFaucet!TypeOK

(* The effect on the connected wallet u.                                       *)
LEMMA SolEffect ==
  ASSUME SolFaucetIInv, NEW u \in Users \cup {NoUser}, SolFaucet!Effect(u), active' = u, UNCHANGED marker
  PROVE  /\ already' \in {"unknown", "no", "yes"} /\ read' \in SolFaucet!ReadState
         /\ SolReadOK'
<1>1. CASE u = NoUser
  <2>1. already' = "unknown" /\ read' = [pc |-> "none", who |-> NoUser, ans |-> FALSE]
    BY <1>1 DEF SolFaucet!Effect, SolFaucet!NoRead
  <2> QED
    BY <2>1 DEF SolReadOK, SolFaucet!ReadState
<1>2. CASE u # NoUser
  <2>1. read' = [pc |-> "asked", who |-> u, ans |-> FALSE] /\ already' = already
    BY <1>2 DEF SolFaucet!Effect, SolFaucet!NoRead
  <2>2. read'.pc = "asked" /\ read'.who = u /\ read' \in SolFaucet!ReadState
    BY <2>1 DEF SolFaucet!ReadState
  <2> QED
    BY <2>1, <2>2 DEF SolReadOK, SolFaucetIInv, SolFaucet!TypeOK
<1> QED
  BY <1>1, <1>2

(* A call of claim() sets the phase.                                          *)
LEMMA SolSetPhase ==
  ASSUME SolFaucetIInv, NEW c \in Claims, NEW p \in {"claiming", "success", "error"}, SolFaucet!SetPhase(c, p),
         UNCHANGED <<marker, active>>
  PROVE  /\ phase' = p /\ of' = c
         /\ already' \in {"unknown", "no", "yes"} /\ read' \in SolFaucet!ReadState /\ SolReadOK'
<1>1. phase' = p /\ of' = c
  BY DEF SolFaucet!SetPhase
<1>2. CASE p # phase
  <2>1. SolFaucet!Effect(active) /\ active \in Users \cup {NoUser}
    BY <1>2 DEF SolFaucet!SetPhase, SolFaucetIInv, SolFaucet!TypeOK
  <2> QED
    BY <1>1, <2>1, SolEffect
<1>3. CASE p = phase
  BY <1>1, <1>3 DEF SolFaucet!SetPhase, SolFaucetIInv, SolFaucet!TypeOK, SolReadOK
<1> QED
  BY <1>2, <1>3

(* The program drops once: whoever has a marker has everything.                 *)
LEMMA SolDrop ==
  ASSUME SolFaucetIInv, NEW u \in Users, SolFaucet!Accepts(u), SolFaucet!Drop(u)
  PROVE  /\ marker' = marker \cup {u} /\ marker' \subseteq Users
         /\ reserve' \in [Mints -> Nat] /\ got' \in [Users -> [Mints -> Nat]]
         /\ SolFaucet!OnceAndComplete'
<1> DEFINE more == [m \in Mints |-> got[u][m] + 1]
<1>1. u \notin marker /\ \A m \in Mints : reserve[m] > 0
  BY DEF SolFaucet!Accepts
<1>2. /\ marker' = marker \cup {u} /\ reserve' = [m \in Mints |-> reserve[m] - 1]
      /\ got' = [got EXCEPT ![u] = more]
  BY DEF SolFaucet!Drop
<1>3. reserve \in [Mints -> Nat] /\ got \in [Users -> [Mints -> Nat]] /\ marker \subseteq Users
  BY DEF SolFaucetIInv, SolFaucet!TypeOK
<1>4. reserve' \in [Mints -> Nat]
  BY <1>1, <1>2, <1>3
<1>5. more \in [Mints -> Nat] /\ \A m \in Mints : more[m] = got[u][m] + 1
  BY <1>3
<1> HIDE DEF more
<1>6. got' \in [Users -> [Mints -> Nat]] /\ got'[u] = more /\ \A v \in Users \ {u} : got'[v] = got[v]
  BY <1>2, <1>3, <1>5
<1>7. \A v \in Users, m \in Mints : got'[v][m] = IF v \in marker' THEN 1 ELSE 0
  <2>1. \A v \in Users, m \in Mints : got[v][m] = IF v \in marker THEN 1 ELSE 0
    BY DEF SolFaucetIInv, SolFaucet!OnceAndComplete
  <2>2. ASSUME NEW m \in Mints PROVE got'[u][m] = 1
    BY <1>1, <1>5, <1>6, <2>1
  <2> QED
    BY <1>2, <1>6, <2>1, <2>2
<1> QED
  BY <1>2, <1>3, <1>4, <1>6, <1>7 DEF SolFaucet!OnceAndComplete

LEMMA SolFaucetNext == SolFaucetIInv /\ (SolFaucet!Next \/ UNCHANGED solanaFaucetVars) => SolFaucetIInv'
<1> SUFFICES ASSUME SolFaucetIInv, SolFaucet!Next \/ UNCHANGED solanaFaucetVars PROVE SolFaucetIInv'
  OBVIOUS
<1> USE DEF SolFaucet!chainVars, SolFaucet!pageVars
<1>0. \A c \in Claims : claim[c] \in SolFaucet!ClaimState
  BY DEF SolFaucetIInv, SolFaucet!TypeOK
<1>1. ASSUME SolFaucet!ReadMarker \/ SolFaucet!Answer \/ SolFaucet!ReadFails PROVE SolFaucetIInv'
  <2>1. UNCHANGED <<marker, reserve, got, active, phase, of, claim>>
    BY <1>1 DEF SolFaucet!ReadMarker, SolFaucet!Answer, SolFaucet!ReadFails
  <2>2. already' \in {"unknown", "no", "yes"} /\ read' \in SolFaucet!ReadState /\ SolReadOK'
    <3>1. CASE SolFaucet!ReadMarker
      <4> DEFINE b == read.who \in marker
      <4>1. read.pc = "asked" /\ read' = [read EXCEPT !.pc = "answered", !.ans = b] /\ already' = already
        BY <3>1, Zenon DEF SolFaucet!ReadMarker
      <4>2. read \in SolFaucet!ReadState
        BY DEF SolFaucetIInv, SolFaucet!TypeOK
      <4>3. b \in BOOLEAN /\ (b => read.who \in marker)
        OBVIOUS
      <4> HIDE DEF b
      <4>4. read'.pc = "answered" /\ read'.who = read.who /\ read'.ans = b
        BY <4>1, <4>2 DEF SolFaucet!ReadState
      <4>5. read' \in SolFaucet!ReadState
        BY <4>1, <4>2, <4>3 DEF SolFaucet!ReadState
      <4> QED
        BY <2>1, <4>1, <4>3, <4>4, <4>5 DEF SolFaucetIInv, SolFaucet!TypeOK, SolReadOK
    <3>2. CASE SolFaucet!Answer
      <4>1. read.pc = "answered" /\ already' = (IF read.ans THEN "yes" ELSE "no")
            /\ read' = [pc |-> "none", who |-> NoUser, ans |-> FALSE]
        BY <3>2 DEF SolFaucet!Answer, SolFaucet!NoRead
      <4> QED
        BY <2>1, <4>1 DEF SolFaucetIInv, SolReadOK, SolFaucet!ReadState
    <3>3. CASE SolFaucet!ReadFails
      <4>1. already' = "unknown" /\ read' = [pc |-> "none", who |-> NoUser, ans |-> FALSE]
        BY <3>3 DEF SolFaucet!ReadFails, SolFaucet!NoRead
      <4> QED
        BY <4>1 DEF SolReadOK, SolFaucet!ReadState
    <3> QED
      BY <1>1, <3>1, <3>2, <3>3
  <2> QED
    BY <2>1, <2>2 DEF SolFaucetIInv, SolFaucet!TypeOK, SolFaucet!OnceAndComplete, SolClaimOK, SolFaucet!InFlight
<1>2. ASSUME NEW u \in Users, SolFaucet!ClaimElsewhere(u) PROVE SolFaucetIInv'
  <2>1. SolFaucet!Accepts(u) /\ SolFaucet!Drop(u) /\ UNCHANGED <<active, phase, of, already, read, claim>>
    BY <1>2 DEF SolFaucet!ClaimElsewhere
  <2> QED
    BY <2>1, SolDrop DEF SolFaucetIInv, SolFaucet!TypeOK, SolClaimOK, SolReadOK, SolFaucet!InFlight
<1>3. ASSUME NEW u \in Users \cup {NoUser}, SolFaucet!Switch(u) PROVE SolFaucetIInv'
  <2>1. active' = u /\ SolFaucet!Effect(u) /\ UNCHANGED <<marker, reserve, got, phase, of, claim>>
    BY <1>3 DEF SolFaucet!Switch
  <2> QED
    BY <2>1, SolEffect
       DEF SolFaucetIInv, SolFaucet!TypeOK, SolFaucet!OnceAndComplete, SolClaimOK, SolFaucet!InFlight
<1>4. ASSUME NEW c \in Claims, SolFaucet!Click(c) PROVE SolFaucetIInv'
  <2> DEFINE r == [claim[c] EXCEPT !.pc = "mints", !.who = active]
  <2>1. /\ active # NoUser /\ phase \in {"error", "idle"} /\ claim[c].pc = "idle"
        /\ claim' = [claim EXCEPT ![c] = r] /\ SolFaucet!SetPhase(c, "claiming")
        /\ UNCHANGED <<marker, reserve, got, active>>
    BY <1>4 DEF SolFaucet!Click, SolFaucet!ButtonShown
  <2>2. active \in Users
    BY <2>1 DEF SolFaucetIInv, SolFaucet!TypeOK
  <2>3. r \in SolFaucet!ClaimState /\ r.pc = "mints" /\ r.who = active /\ r.fate = claim[c].fate
    BY <1>0, <2>2 DEF SolFaucet!ClaimState, SolFaucet!Pending
  <2> HIDE DEF r
  <2>4. /\ claim' \in [Claims -> SolFaucet!ClaimState]
        /\ claim'[c] = r /\ \A d \in Claims \ {c} : claim'[d] = claim[d]
    BY <2>1, <2>3, SolClaimBecomes
  <2>5. /\ phase' = "claiming" /\ of' = c
        /\ already' \in {"unknown", "no", "yes"} /\ read' \in SolFaucet!ReadState /\ SolReadOK'
    BY <2>1, SolSetPhase
  <2>6. \A d \in Claims : SolClaimOK(d)'
    BY <2>1, <2>2, <2>3, <2>4, <2>5 DEF SolFaucetIInv, SolClaimOK, SolFaucet!InFlight
  <2> QED
    BY <2>1, <2>4, <2>5, <2>6 DEF SolFaucetIInv, SolFaucet!TypeOK, SolFaucet!OnceAndComplete
<1>5. ASSUME NEW c \in Claims, SolFaucet!Prompt(c) PROVE SolFaucetIInv'
  <2> DEFINE r == [claim[c] EXCEPT !.pc = "popup", !.by = active]
  <2>1. /\ claim[c].pc = "mints" /\ claim' = [claim EXCEPT ![c] = r]
        /\ UNCHANGED <<marker, reserve, got, active, phase, of, already, read>>
    BY <1>5 DEF SolFaucet!Prompt
  <2>2. active \in Users \cup {NoUser}
    BY DEF SolFaucetIInv, SolFaucet!TypeOK
  <2>3. r \in SolFaucet!ClaimState /\ r.pc = "popup" /\ r.who = claim[c].who /\ r.fate = claim[c].fate
    BY <1>0, <2>2 DEF SolFaucet!ClaimState, SolFaucet!Pending
  <2> HIDE DEF r
  <2>4. /\ claim' \in [Claims -> SolFaucet!ClaimState]
        /\ claim'[c] = r /\ \A d \in Claims \ {c} : claim'[d] = claim[d]
    BY <2>1, <2>3, SolClaimBecomes
  <2>5. \A d \in Claims : SolClaimOK(d)'
    BY <2>1, <2>3, <2>4 DEF SolFaucetIInv, SolClaimOK, SolFaucet!InFlight, SolFaucet!Pending
  <2>6. phase' # "success"
    BY <2>1 DEF SolFaucetIInv, SolClaimOK, SolFaucet!InFlight, SolFaucet!Pending
  <2> QED
    BY <2>1, <2>4, <2>5, <2>6 DEF SolFaucetIInv, SolFaucet!TypeOK, SolFaucet!OnceAndComplete, SolReadOK
<1>6. ASSUME NEW c \in Claims, SolFaucet!Sign(c) PROVE SolFaucetIInv'
  <2> DEFINE r == [claim[c] EXCEPT !.pc = "sent", !.fate = "pending"]
  <2>1. /\ claim[c].pc = "popup" /\ claim' = [claim EXCEPT ![c] = r]
        /\ UNCHANGED <<marker, reserve, got, active, phase, of, already, read>>
    BY <1>6 DEF SolFaucet!Sign
  <2>3. r \in SolFaucet!ClaimState /\ r.pc = "sent" /\ r.who = claim[c].who /\ r.fate = "pending"
    BY <1>0 DEF SolFaucet!ClaimState, SolFaucet!Pending
  <2> HIDE DEF r
  <2>4. /\ claim' \in [Claims -> SolFaucet!ClaimState]
        /\ claim'[c] = r /\ \A d \in Claims \ {c} : claim'[d] = claim[d]
    BY <2>1, <2>3, SolClaimBecomes
  <2>5. \A d \in Claims : SolClaimOK(d)'
    BY <2>1, <2>3, <2>4 DEF SolFaucetIInv, SolClaimOK, SolFaucet!InFlight, SolFaucet!Pending
  <2>6. phase' # "success"
    BY <2>1 DEF SolFaucetIInv, SolClaimOK, SolFaucet!InFlight, SolFaucet!Pending
  <2> QED
    BY <2>1, <2>4, <2>5, <2>6 DEF SolFaucetIInv, SolFaucet!TypeOK, SolFaucet!OnceAndComplete, SolReadOK
<1>7. ASSUME NEW c \in Claims, SolFaucet!Land(c) PROVE SolFaucetIInv'
  <2>1. claim[c].fate = "pending" /\ UNCHANGED <<active, phase, of, already, read>>
    BY <1>7 DEF SolFaucet!Land
  <2>2. claim[c].who \in Users
    BY <2>1 DEF SolFaucetIInv, SolClaimOK
  <2>3. PICK f \in {"landed", "refused"} :
          /\ claim' = [claim EXCEPT ![c] = [claim[c] EXCEPT !.fate = f]]
          /\ \/ f = "landed" /\ SolFaucet!Accepts(claim[c].who) /\ SolFaucet!Drop(claim[c].who)
             \/ f = "refused" /\ UNCHANGED <<marker, reserve, got>>
    BY <1>7 DEF SolFaucet!Land
  <2> DEFINE r == [claim[c] EXCEPT !.fate = f]
  <2>4. r \in SolFaucet!ClaimState /\ r.pc = claim[c].pc /\ r.who = claim[c].who /\ r.fate = f
    BY <1>0 DEF SolFaucet!ClaimState
  <2>5. claim' = [claim EXCEPT ![c] = r]
    BY <2>3
  <2> HIDE DEF r
  <2>6. /\ claim' \in [Claims -> SolFaucet!ClaimState]
        /\ claim'[c] = r /\ \A d \in Claims \ {c} : claim'[d] = claim[d]
    BY <2>4, <2>5, SolClaimBecomes
  <2>7. /\ marker \subseteq marker' /\ marker' \subseteq Users
        /\ reserve' \in [Mints -> Nat] /\ got' \in [Users -> [Mints -> Nat]]
        /\ SolFaucet!OnceAndComplete' /\ (f = "landed" => claim[c].who \in marker')
    <3>1. CASE f = "landed"
      BY <2>2, <2>3, <3>1, SolDrop
    <3>2. CASE f = "refused"
      BY <2>3, <3>2 DEF SolFaucetIInv, SolFaucet!TypeOK, SolFaucet!OnceAndComplete
    <3> QED
      BY <3>1, <3>2
  <2>8. \A d \in Claims : SolClaimOK(d)'
    <3>1. claim[c].pc \notin {"idle", "mints", "popup", "ok"}
      BY <2>1 DEF SolFaucetIInv, SolClaimOK
    <3> QED
      BY <2>1, <2>3, <2>4, <2>6, <2>7, <3>1 DEF SolFaucetIInv, SolClaimOK, SolFaucet!InFlight
  <2>9. phase' = "success" => of' \in Claims /\ claim'[of'].pc = "ok"
    BY <2>1, <2>4, <2>6 DEF SolFaucetIInv
  <2> QED
    BY <2>1, <2>6, <2>7, <2>8, <2>9 DEF SolFaucetIInv, SolFaucet!TypeOK, SolReadOK
<1>8. ASSUME NEW c \in Claims, SolFaucet!Succeed(c) PROVE SolFaucetIInv'
  <2> DEFINE r == [claim[c] EXCEPT !.pc = "ok"]
  <2>1. /\ claim[c].pc = "sent" /\ claim[c].fate = "landed" /\ claim' = [claim EXCEPT ![c] = r]
        /\ SolFaucet!SetPhase(c, "success") /\ UNCHANGED <<marker, reserve, got, active>>
    BY <1>8 DEF SolFaucet!Succeed
  <2>3. r \in SolFaucet!ClaimState /\ r.pc = "ok" /\ r.who = claim[c].who /\ r.fate = "landed"
    BY <1>0, <2>1 DEF SolFaucet!ClaimState
  <2> HIDE DEF r
  <2>4. /\ claim' \in [Claims -> SolFaucet!ClaimState]
        /\ claim'[c] = r /\ \A d \in Claims \ {c} : claim'[d] = claim[d]
    BY <2>1, <2>3, SolClaimBecomes
  <2>5. /\ phase' = "success" /\ of' = c
        /\ already' \in {"unknown", "no", "yes"} /\ read' \in SolFaucet!ReadState /\ SolReadOK'
    BY <2>1, SolSetPhase
  <2>6. \A d \in Claims : SolClaimOK(d)'
    BY <2>1, <2>3, <2>4, <2>5 DEF SolFaucetIInv, SolClaimOK, SolFaucet!InFlight, SolFaucet!Pending
  <2> QED
    BY <2>1, <2>3, <2>4, <2>5, <2>6 DEF SolFaucetIInv, SolFaucet!TypeOK, SolFaucet!OnceAndComplete
<1>9. ASSUME NEW c \in Claims, SolFaucet!Fail(c) PROVE SolFaucetIInv'
  <2> DEFINE r == [claim[c] EXCEPT !.pc = "failed"]
  <2>1. /\ SolFaucet!InFlight(c) /\ claim' = [claim EXCEPT ![c] = r]
        /\ SolFaucet!SetPhase(c, "error") /\ UNCHANGED <<marker, reserve, got, active>>
    BY <1>9 DEF SolFaucet!Fail
  <2>3. r \in SolFaucet!ClaimState /\ r.pc = "failed" /\ r.who = claim[c].who /\ r.fate = claim[c].fate
    BY <1>0, <2>1 DEF SolFaucet!ClaimState
  <2> HIDE DEF r
  <2>4. /\ claim' \in [Claims -> SolFaucet!ClaimState]
        /\ claim'[c] = r /\ \A d \in Claims \ {c} : claim'[d] = claim[d]
    BY <2>1, <2>3, SolClaimBecomes
  <2>5. /\ phase' = "error" /\ of' = c
        /\ already' \in {"unknown", "no", "yes"} /\ read' \in SolFaucet!ReadState /\ SolReadOK'
    BY <2>1, SolSetPhase
  <2>6. \A d \in Claims : SolClaimOK(d)'
    BY <2>1, <2>3, <2>4, <2>5 DEF SolFaucetIInv, SolClaimOK, SolFaucet!InFlight, SolFaucet!Pending
  <2> QED
    BY <2>1, <2>3, <2>4, <2>5, <2>6 DEF SolFaucetIInv, SolFaucet!TypeOK, SolFaucet!OnceAndComplete
<1>10. ASSUME UNCHANGED solanaFaucetVars PROVE SolFaucetIInv'
  BY <1>10 DEF solanaFaucetVars, SolFaucetIInv, SolFaucet!TypeOK, SolFaucet!OnceAndComplete, SolClaimOK,
     SolReadOK, SolFaucet!InFlight
<1> QED
  BY <1>1, <1>2, <1>3, <1>4, <1>5, <1>6, <1>7, <1>8, <1>9, <1>10 DEF SolFaucet!Next

LEMMA SolFaucetFollows ==
  SolFaucetIInv => /\ SolFaucet!TypeOK /\ SolFaucet!OnceAndComplete /\ SolFaucet!OneClaimAtATime
                   /\ SolFaucet!AlreadyIsMine /\ SolFaucet!SuccessIsDropped
BY DEF SolFaucetIInv, SolClaimOK, SolReadOK, SolFaucet!OneClaimAtATime, SolFaucet!AlreadyIsMine,
   SolFaucet!SuccessIsDropped

-----------------------------------------------------------------------------
(* EvmFaucet, for any accounts and claims.                                    *)

(* A claim that asked for a signature, or is pending, names the account that signs;   *)
(* one that was paid marked it, and only such a one has a receipt.              *)
EvmClaimOK(c) ==
  /\ evmClaim[c].pc = "popup" \/ evmClaim[c].fate = "pending" => evmClaim[c].by \in Users
  /\ evmClaim[c].pc # "ended" => evmClaim[c].fate = "none"
  /\ evmClaim[c].receipt => evmClaim[c].fate = "paid"
  /\ evmClaim[c].fate = "paid" => evmClaim[c].by \in claimed

(* The phase behind the panel agrees with the answer for the connected account       *)
(* whenever the panel would show it.                                         *)
EvmPhaseOK(u, on, known, p) ==
  u # NoUser /\ on => /\ p = "already-claimed" => known[u] # "no"
                      /\ p = "ready" => known[u] # "yes"

EvmFaucetIInv ==
  /\ EthFaucet!TypeOK
  /\ \A c \in Claims : EvmClaimOK(c)
  /\ EvmPhaseOK(account, onChain, cached, evmPhase)
  /\ EthFaucet!SuccessIsPaid

(* The effect on the account, the chain and the answer keeps the phase so, and   *)
(* never begins to say "Funds dropped".                                       *)
LEMMA EvmRender ==
  ASSUME EvmFaucetIInv, NEW u \in Users \cup {NoUser}, NEW on \in BOOLEAN,
         NEW known \in [Users -> EthFaucet!Data], EthFaucet!Render(u, on, known)
  PROVE  /\ account' = u /\ onChain' = on /\ cached' = known
         /\ evmPhase' \in EthFaucet!Phases /\ EvmPhaseOK(u, on, known, evmPhase')
         /\ evmPhase' = "success" => evmPhase = "success"
<1> DEFINE before == <<account = NoUser, onChain, EthFaucet!AlreadyClaimed(account, cached)>>
<1> DEFINE after == <<u = NoUser, on, EthFaucet!AlreadyClaimed(u, known)>>
<1>1. /\ account' = u /\ onChain' = on /\ cached' = known
      /\ evmPhase' = IF before = after THEN evmPhase
                     ELSE EthFaucet!Follow(evmPhase, u, on, EthFaucet!AlreadyClaimed(u, known))
  BY Zenon DEF EthFaucet!Render
<1>2. evmPhase \in EthFaucet!Phases /\ cached \in [Users -> EthFaucet!Data]
  BY DEF EvmFaucetIInv, EthFaucet!TypeOK
<1>3. before = after => /\ account = NoUser <=> u = NoUser
                        /\ onChain = on
                        /\ EthFaucet!AlreadyClaimed(account, cached) = EthFaucet!AlreadyClaimed(u, known)
  <2>1. before = after => /\ before[1] = after[1] /\ before[2] = after[2] /\ before[3] = after[3]
    BY Zenon
  <2> QED
    BY <2>1, Zenon
<1> HIDE DEF before, after
<1>4. CASE before = after
  <2>1. evmPhase' = evmPhase
    BY <1>1, <1>4
  <2>2. u # NoUser /\ on => account # NoUser /\ onChain /\ cached[account] = known[u]
    BY <1>3, <1>4 DEF EthFaucet!AlreadyClaimed
  <2> QED
    BY <1>1, <1>2, <2>1, <2>2 DEF EvmFaucetIInv, EvmPhaseOK
<1>5. CASE before # after
  <2>1. evmPhase' = EthFaucet!Follow(evmPhase, u, on, EthFaucet!AlreadyClaimed(u, known))
    BY <1>1, <1>5
  <2> QED
    BY <1>1, <1>2, <2>1 DEF EthFaucet!Follow, EthFaucet!AlreadyClaimed, EvmPhaseOK, EthFaucet!Phases
<1> QED
  BY <1>4, <1>5

LEMMA EvmFaucetInit == EthFaucet!Init => EvmFaucetIInv
<1> SUFFICES ASSUME EthFaucet!Init PROVE EvmFaucetIInv
  OBVIOUS
<1> DEFINE idle == [pc |-> "idle", who |-> NoUser, by |-> NoUser, fate |-> "none", receipt |-> FALSE]
<1>1. /\ claimed \subseteq Users /\ account = NoUser /\ onChain \in BOOLEAN
      /\ cached = [u \in Users |-> "unknown"] /\ evmPhase = "idle" /\ hash = NoClaim /\ clicked = NoClaim
      /\ evmClaim = [c \in Claims |-> idle]
  BY DEF EthFaucet!Init
<1>2. idle \in EthFaucet!ClaimState /\ idle.pc = "idle" /\ idle.fate = "none" /\ ~idle.receipt
  BY DEF EthFaucet!ClaimState
<1> HIDE DEF idle
<1>3. EthFaucet!TypeOK
  BY <1>1, <1>2 DEF EthFaucet!TypeOK, EthFaucet!Data, EthFaucet!Phases
<1>4. \A c \in Claims : evmClaim[c] = idle
  BY <1>1
<1>5. \A c \in Claims : EvmClaimOK(c)
  BY <1>2, <1>4 DEF EvmClaimOK
<1> QED
  BY <1>1, <1>3, <1>5 DEF EvmFaucetIInv, EvmPhaseOK, EthFaucet!SuccessIsPaid

(* Claim c becomes r: the state of the other claims, and what was paid, stay.       *)
LEMMA EvmClaimBecomes ==
  ASSUME EvmFaucetIInv, NEW c \in Claims, NEW r \in EthFaucet!ClaimState,
         evmClaim' = [evmClaim EXCEPT ![c] = r], claimed \subseteq claimed',
         r.pc = "popup" \/ r.fate = "pending" => r.by \in Users,
         r.pc # "ended" => r.fate = "none",
         r.receipt => r.fate = "paid", evmClaim[c].receipt => r.receipt,
         r.fate = "paid" => r.by \in claimed'
  PROVE  /\ evmClaim' \in [Claims -> EthFaucet!ClaimState] /\ evmClaim'[c] = r
         /\ \A d \in Claims : EvmClaimOK(d)'
         /\ \A d \in Claims : evmClaim[d].receipt => evmClaim'[d].receipt
<1>1. evmClaim \in [Claims -> EthFaucet!ClaimState]
  BY DEF EvmFaucetIInv, EthFaucet!TypeOK
<1>2. /\ evmClaim' \in [Claims -> EthFaucet!ClaimState]
      /\ evmClaim'[c] = r /\ \A d \in Claims \ {c} : evmClaim'[d] = evmClaim[d]
  BY <1>1
<1>3. \A d \in Claims : EvmClaimOK(d)'
  BY <1>2 DEF EvmFaucetIInv, EvmClaimOK
<1> QED
  BY <1>2, <1>3

(* "Funds dropped" stays true: no receipt is lost, and no account is unpaid.        *)
LEMMA EvmSuccessStays ==
  ASSUME EvmFaucetIInv, evmPhase' = "success" => evmPhase = "success",
         claimed \subseteq claimed', \A d \in Claims : EvmClaimOK(d)',
         \A d \in Claims : evmClaim[d].receipt => evmClaim'[d].receipt
  PROVE  EthFaucet!SuccessIsPaid'
<1> SUFFICES ASSUME evmPhase' = "success"
             PROVE  \E d \in Claims : evmClaim'[d].receipt /\ evmClaim'[d].by \in claimed'
  BY DEF EthFaucet!SuccessIsPaid
<1>1. PICK d \in Claims : evmClaim[d].receipt /\ evmClaim[d].by \in claimed
  BY DEF EvmFaucetIInv, EthFaucet!SuccessIsPaid
<1>2. evmClaim'[d].receipt /\ evmClaim'[d].by \in claimed'
  BY <1>1 DEF EvmClaimOK
<1> QED
  BY <1>2

LEMMA EvmFaucetNext == EvmFaucetIInv /\ (EthFaucet!Next \/ UNCHANGED evmFaucetVars) => EvmFaucetIInv'
<1> SUFFICES ASSUME EvmFaucetIInv, EthFaucet!Next \/ UNCHANGED evmFaucetVars PROVE EvmFaucetIInv'
  OBVIOUS
<1>a. /\ claimed \subseteq Users /\ account \in Users \cup {NoUser} /\ onChain \in BOOLEAN
      /\ cached \in [Users -> EthFaucet!Data] /\ evmPhase \in EthFaucet!Phases
      /\ hash \in Claims \cup {NoClaim} /\ clicked \in Claims \cup {NoClaim}
      /\ evmClaim \in [Claims -> EthFaucet!ClaimState]
  BY DEF EvmFaucetIInv, EthFaucet!TypeOK
<1>b. \A c \in Claims : evmClaim[c] \in EthFaucet!ClaimState /\ EvmClaimOK(c)
  BY <1>a DEF EvmFaucetIInv
(* A step of the effect alone.                                               *)
<1>0. ASSUME NEW u \in Users \cup {NoUser}, NEW on \in BOOLEAN, NEW known \in [Users -> EthFaucet!Data],
             EthFaucet!Render(u, on, known), UNCHANGED <<claimed, hash, clicked, evmClaim>>
      PROVE  EvmFaucetIInv'
  <2>1. /\ account' = u /\ onChain' = on /\ cached' = known
        /\ evmPhase' \in EthFaucet!Phases /\ EvmPhaseOK(u, on, known, evmPhase')
        /\ evmPhase' = "success" => evmPhase = "success"
    BY <1>0, EvmRender
  <2>2. \A d \in Claims : EvmClaimOK(d)'
    BY <1>0, <1>b DEF EvmClaimOK
  <2>3. EthFaucet!SuccessIsPaid'
    BY <1>0, <2>1, <2>2, EvmSuccessStays
  <2>4. EthFaucet!TypeOK'
    BY <1>0, <1>a, <2>1 DEF EthFaucet!TypeOK
  <2>5. EvmPhaseOK(account, onChain, cached, evmPhase)'
    BY <2>1 DEF EvmPhaseOK
  <2> QED
    BY <2>2, <2>3, <2>4, <2>5 DEF EvmFaucetIInv
(* A step of a claim: the phase and the claims change, account and answers stay.   *)
<1>c. ASSUME UNCHANGED <<account, onChain, cached>>, evmPhase' \in EthFaucet!Phases,
             evmPhase' = evmPhase \/ evmPhase' \notin {"already-claimed", "ready"},
             hash' \in Claims \cup {NoClaim}, clicked' \in Claims \cup {NoClaim}, claimed' \subseteq Users,
             evmClaim' \in [Claims -> EthFaucet!ClaimState], \A d \in Claims : EvmClaimOK(d)',
             EthFaucet!SuccessIsPaid'
      PROVE  EvmFaucetIInv'
  <2>1. EthFaucet!TypeOK'
    BY <1>a, <1>c DEF EthFaucet!TypeOK
  <2>2. EvmPhaseOK(account, onChain, cached, evmPhase)'
    BY <1>c DEF EvmFaucetIInv, EvmPhaseOK
  <2> QED
    BY <1>c, <2>1, <2>2 DEF EvmFaucetIInv
<1>1. ASSUME NEW u \in Users \cup {NoUser}, EthFaucet!Switch(u) PROVE EvmFaucetIInv'
  BY <1>0, <1>1, <1>a DEF EthFaucet!Switch
<1>2. ASSUME EthFaucet!SwitchChain PROVE EvmFaucetIInv'
  <2>1. (~onChain) \in BOOLEAN /\ EthFaucet!Render(account, ~onChain, cached)
        /\ UNCHANGED <<claimed, hash, clicked, evmClaim>>
    BY <1>2 DEF EthFaucet!SwitchChain
  <2> QED
    BY <1>0, <1>a, <2>1, Zenon
<1>3. ASSUME EthFaucet!Refetch PROVE EvmFaucetIInv'
  <2> DEFINE known == [cached EXCEPT ![account] = IF account \in claimed THEN "yes" ELSE "no"]
  <2>1. account # NoUser /\ EthFaucet!Render(account, onChain, known) /\ UNCHANGED <<claimed, hash, clicked, evmClaim>>
    BY <1>3 DEF EthFaucet!Refetch
  <2>2. known \in [Users -> EthFaucet!Data]
    BY <1>a DEF EthFaucet!Data
  <2> QED
    BY <1>0, <1>a, <2>1, <2>2
<1>4. ASSUME NEW c \in Claims, EthFaucet!Click(c) PROVE EvmFaucetIInv'
  <2> DEFINE r == [evmClaim[c] EXCEPT !.pc = "estimate", !.who = account]
  <2>1. /\ EthFaucet!Shown = "ready" /\ evmClaim[c].pc = "idle" /\ evmClaim' = [evmClaim EXCEPT ![c] = r]
        /\ evmPhase' = (IF EthFaucet!Mined(hash) THEN "success" ELSE "claiming") /\ clicked' = c
        /\ UNCHANGED <<claimed, account, onChain, cached, hash>>
    BY <1>4 DEF EthFaucet!Click
  <2>2. /\ r \in EthFaucet!ClaimState /\ r.pc = "estimate" /\ r.fate = evmClaim[c].fate
        /\ r.by = evmClaim[c].by /\ r.receipt = evmClaim[c].receipt
    BY <1>a, <1>b DEF EthFaucet!ClaimState
  <2> HIDE DEF r
  <2>3. /\ evmClaim' \in [Claims -> EthFaucet!ClaimState] /\ \A d \in Claims : EvmClaimOK(d)'
        /\ \A d \in Claims : evmClaim[d].receipt => evmClaim'[d].receipt
    <3>1. /\ r.pc = "popup" \/ r.fate = "pending" => r.by \in Users
          /\ r.pc # "ended" => r.fate = "none"
          /\ r.receipt => r.fate = "paid"
          /\ evmClaim[c].receipt => r.receipt
          /\ r.fate = "paid" => r.by \in claimed'
      BY <1>b, <2>1, <2>2 DEF EvmClaimOK
    <3> QED
      BY <2>1, <2>2, <3>1, EvmClaimBecomes
  <2>4. EthFaucet!SuccessIsPaid'
    <3> SUFFICES ASSUME EthFaucet!Mined(hash)
                 PROVE  \E d \in Claims : evmClaim'[d].receipt /\ evmClaim'[d].by \in claimed'
      BY <2>1 DEF EthFaucet!SuccessIsPaid
    <3>1. hash \in Claims /\ evmClaim[hash].receipt
      BY <1>a DEF EthFaucet!Mined
    <3> QED
      BY <2>3, <3>1 DEF EvmClaimOK
  <2> QED
    BY <1>a, <1>c, <2>1, <2>3, <2>4 DEF EthFaucet!Phases
(* A claim that asks, signs or fails keeps what was paid.                       *)
<1>d. ASSUME NEW c \in Claims, NEW r \in EthFaucet!ClaimState,
             evmClaim' = [evmClaim EXCEPT ![c] = r], r.receipt = evmClaim[c].receipt,
             r.fate = evmClaim[c].fate \/ (r.fate = "pending" /\ ~evmClaim[c].receipt),
             r.by = evmClaim[c].by \/ (r.by \in Users /\ evmClaim[c].fate # "paid"),
             r.pc = "popup" \/ r.fate = "pending" => r.by \in Users,
             r.pc # "ended" => r.fate = "none",
             evmPhase' = evmPhase \/ evmPhase' = "error",
             hash' \in Claims \cup {NoClaim}, UNCHANGED <<claimed, account, onChain, cached, clicked>>
      PROVE  EvmFaucetIInv'
  <2>1. /\ r.receipt => r.fate = "paid"
        /\ r.fate = "paid" => r.by \in claimed'
    BY <1>b, <1>d DEF EvmClaimOK
  <2>2. /\ evmClaim' \in [Claims -> EthFaucet!ClaimState] /\ \A d \in Claims : EvmClaimOK(d)'
        /\ \A d \in Claims : evmClaim[d].receipt => evmClaim'[d].receipt
    BY <1>d, <2>1, EvmClaimBecomes
  <2>3. EthFaucet!SuccessIsPaid'
    BY <1>d, <2>2, EvmSuccessStays
  <2>4. evmPhase' \in EthFaucet!Phases
    BY <1>a, <1>d DEF EthFaucet!Phases
  <2> QED
    BY <1>a, <1>c, <1>d, <2>2, <2>3, <2>4
<1>5. ASSUME NEW c \in Claims, EthFaucet!Estimate(c) PROVE EvmFaucetIInv'
  <2> DEFINE r == [evmClaim[c] EXCEPT !.pc = "popup", !.by = account]
  <2>1. /\ evmClaim[c].pc = "estimate" /\ account # NoUser /\ evmClaim' = [evmClaim EXCEPT ![c] = r]
        /\ UNCHANGED <<claimed, account, onChain, cached, evmPhase, hash, clicked>>
    BY <1>5 DEF EthFaucet!Estimate
  <2>2. r \in EthFaucet!ClaimState /\ r.pc = "popup" /\ r.fate = evmClaim[c].fate /\ r.by = account /\ r.receipt = evmClaim[c].receipt
    BY <1>a, <1>b DEF EthFaucet!ClaimState
  <2>3. evmClaim[c].fate = "none"
    BY <1>b, <2>1 DEF EvmClaimOK
  <2> HIDE DEF r
  <2> QED
    BY <1>a, <1>d, <2>1, <2>2, <2>3
<1>6. ASSUME NEW c \in Claims, EthFaucet!Sign(c) PROVE EvmFaucetIInv'
  <2> DEFINE r == [evmClaim[c] EXCEPT !.pc = "ended", !.fate = "pending"]
  <2>1. /\ evmClaim[c].pc = "popup" /\ evmClaim' = [evmClaim EXCEPT ![c] = r] /\ hash' = c
        /\ UNCHANGED <<claimed, account, onChain, cached, evmPhase, clicked>>
    BY <1>6 DEF EthFaucet!Sign
  <2>2. /\ r \in EthFaucet!ClaimState /\ r.pc = "ended" /\ r.fate = "pending" /\ r.by = evmClaim[c].by
        /\ r.receipt = evmClaim[c].receipt
    BY <1>b DEF EthFaucet!ClaimState
  <2>3. evmClaim[c].by \in Users /\ ~evmClaim[c].receipt
    BY <1>b, <2>1 DEF EvmClaimOK
  <2> HIDE DEF r
  <2> QED
    BY <1>d, <2>1, <2>2, <2>3
<1>7. ASSUME NEW c \in Claims, EthFaucet!Fail(c) PROVE EvmFaucetIInv'
  <2> DEFINE r == [evmClaim[c] EXCEPT !.pc = "ended"]
  <2>1. /\ evmClaim' = [evmClaim EXCEPT ![c] = r] /\ evmPhase' = "error"
        /\ UNCHANGED <<claimed, account, onChain, cached, hash, clicked>>
    BY <1>7 DEF EthFaucet!Fail
  <2>2. /\ r \in EthFaucet!ClaimState /\ r.pc = "ended" /\ r.fate = evmClaim[c].fate /\ r.by = evmClaim[c].by
        /\ r.receipt = evmClaim[c].receipt
    BY <1>b DEF EthFaucet!ClaimState
  <2>3. r.fate = "pending" => r.by \in Users
    BY <1>b, <2>2 DEF EvmClaimOK
  <2> HIDE DEF r
  <2> QED
    BY <1>a, <1>d, <2>1, <2>2, <2>3
<1>8. ASSUME NEW c \in Claims, EthFaucet!Execute(c) PROVE EvmFaucetIInv'
  <2> DEFINE f == IF evmClaim[c].by \in claimed THEN "reverted" ELSE "paid"
  <2> DEFINE r == [evmClaim[c] EXCEPT !.fate = f]
  <2>1. /\ evmClaim[c].fate = "pending" /\ evmClaim' = [evmClaim EXCEPT ![c] = r]
        /\ claimed' = claimed \cup {evmClaim[c].by}
        /\ UNCHANGED <<account, onChain, cached, evmPhase, hash, clicked>>
    BY <1>8 DEF EthFaucet!Execute
  <2>2. evmClaim[c].by \in Users /\ ~evmClaim[c].receipt /\ evmClaim[c].pc = "ended"
    BY <1>b, <2>1 DEF EvmClaimOK
  <2>3. f \in {"reverted", "paid"}
    OBVIOUS
  <2> HIDE DEF f
  <2>4. /\ r \in EthFaucet!ClaimState /\ r.pc = evmClaim[c].pc /\ r.fate = f /\ r.by = evmClaim[c].by
        /\ r.receipt = evmClaim[c].receipt
    BY <1>b, <2>3 DEF EthFaucet!ClaimState
  <2> HIDE DEF r
  <2>5. /\ evmClaim' \in [Claims -> EthFaucet!ClaimState] /\ \A d \in Claims : EvmClaimOK(d)'
        /\ \A d \in Claims : evmClaim[d].receipt => evmClaim'[d].receipt
    <3>1. /\ r.pc = "popup" \/ r.fate = "pending" => r.by \in Users
          /\ r.pc # "ended" => r.fate = "none"
          /\ r.receipt => r.fate = "paid"
          /\ evmClaim[c].receipt => r.receipt
          /\ r.fate = "paid" => r.by \in claimed'
      BY <2>1, <2>2, <2>3, <2>4
    <3> QED
      BY <2>1, <2>4, <3>1, EvmClaimBecomes
  <2>6. EthFaucet!SuccessIsPaid'
    BY <2>1, <2>5, EvmSuccessStays
  <2>7. claimed' \subseteq Users
    BY <1>a, <2>1, <2>2
  <2> QED
    BY <1>a, <1>c, <2>1, <2>5, <2>6, <2>7
<1>9. ASSUME NEW c \in Claims, EthFaucet!Receipt(c) PROVE EvmFaucetIInv'
  <2> DEFINE r == [evmClaim[c] EXCEPT !.receipt = TRUE]
  <2>1. /\ evmClaim[c].fate = "paid" /\ evmClaim' = [evmClaim EXCEPT ![c] = r]
        /\ evmPhase' = (IF evmPhase = "claiming" THEN "success" ELSE evmPhase)
        /\ UNCHANGED <<claimed, account, onChain, cached, hash, clicked>>
    BY <1>9 DEF EthFaucet!Receipt
  <2>2. /\ r \in EthFaucet!ClaimState /\ r.pc = evmClaim[c].pc /\ r.fate = evmClaim[c].fate
        /\ r.by = evmClaim[c].by /\ r.receipt
    BY <1>b DEF EthFaucet!ClaimState
  <2> HIDE DEF r
  <2>3. /\ evmClaim' \in [Claims -> EthFaucet!ClaimState] /\ evmClaim'[c] = r
        /\ \A d \in Claims : EvmClaimOK(d)'
    <3>1. /\ r.pc = "popup" \/ r.fate = "pending" => r.by \in Users
          /\ r.pc # "ended" => r.fate = "none"
          /\ r.receipt => r.fate = "paid"
          /\ evmClaim[c].receipt => r.receipt
          /\ r.fate = "paid" => r.by \in claimed'
      BY <1>b, <2>1, <2>2 DEF EvmClaimOK
    <3> QED
      BY <2>1, <2>2, <3>1, EvmClaimBecomes
  <2>4. evmClaim'[c].receipt /\ evmClaim'[c].by \in claimed'
    BY <1>b, <2>1, <2>2, <2>3 DEF EvmClaimOK
  <2>5. EthFaucet!SuccessIsPaid'
    BY <2>4 DEF EthFaucet!SuccessIsPaid
  <2> QED
    BY <1>a, <1>c, <2>1, <2>3, <2>5 DEF EthFaucet!Phases
<1>10. ASSUME UNCHANGED evmFaucetVars PROVE EvmFaucetIInv'
  BY <1>10 DEF evmFaucetVars, EvmFaucetIInv, EvmClaimOK, EvmPhaseOK, EthFaucet!TypeOK, EthFaucet!SuccessIsPaid
<1> QED
  BY <1>1, <1>2, <1>3, <1>4, <1>5, <1>6, <1>7, <1>8, <1>9, <1>10 DEF EthFaucet!Next

LEMMA EvmFaucetFollows ==
  EvmFaucetIInv => EthFaucet!TypeOK /\ EthFaucet!SuccessIsPaid /\ EthFaucet!PhaseIsAboutAccount
BY DEF EvmFaucetIInv, EvmPhaseOK, EthFaucet!PhaseIsAboutAccount, EthFaucet!Shown

-----------------------------------------------------------------------------
(* The liquidate page, for any accounts, runs, scans and market moves.         *)

(* What a run's stage says of its transaction and, with dry the accounts under   *)
(* water, of the account it is about.                                        *)
LiqRunFits(q, dry) ==
  /\ q.pc \in {"idle", "check", "enrich", "prepare", "popup"} => q.fate = "none"
  /\ q.pc = "sent" => q.fate # "none"
  /\ q.pc = "ended" => q.fate # "pending"
  /\ q.pc \in Liquidate!InFlightPc => q.acct \in Accounts
  /\ q.pc \in {"enrich", "prepare", "popup"} /\ q.acct \notin dry => q.left

(* What stands below the field, and what runs for it, is about the field.        *)
LiqAbout ==
  ~crossed =>
    /\ manual.phase # "idle" => manual.about = victim
    /\ \A r \in Runs : Liquidate!Running(r) /\ run[r].place = "manual" => run[r].acct = victim

(* While the market rests an account leaves the water by an absorb alone, so that   *)
(* what was once true of it is true, or it was absorbed here.                    *)
LiqDue(a) == a \in under \/ \E q \in Runs : run[q].acct = a /\ run[q].fate = "absorbed"
LiqResting ==
  moves = 0 =>
    /\ manual.phase = "healthy" => manual.about \notin under
    /\ manual.phase = "liquidatable" => LiqDue(manual.about)
    /\ manual.phase = "success" /\ lane = "solana" => manual.about \notin under
    /\ \A r \in Runs : run[r].pc = "enrich" => LiqDue(run[r].acct)
    /\ \A r \in Runs : run[r].fate = "absorbed" => run[r].acct \notin under

(* Scans do not overlap, and what was absorbed before a scan is not in it.        *)
LiqScans ==
  ~mixed => \A s, t \in Scans : Liquidate!Scanning(s) /\ Liquidate!Scanning(t) => s = t
LiqDropped ==
  ~mixed /\ moves = 0 =>
    \A r \in Runs : run[r].fate = "absorbed" /\ run[r].pc = "ended" =>
      /\ \A s \in Scans : Liquidate!Scanning(s) => run[r].acct \notin scan[s].found
      /\ (\A s \in Scans : ~Liquidate!Scanning(s)) => run[r].acct \notin list

LiqIInv ==
  /\ Liquidate!TypeOK
  /\ Liquidate!BusyMeansRunning /\ Liquidate!AbsorbedIsSettled
  /\ \A r \in Runs : LiqRunFits(run[r], under)
  /\ LiqAbout /\ LiqResting /\ LiqScans /\ LiqDropped

LEMMA LiqInit == Liquidate!Init => LiqIInv
<1> SUFFICES ASSUME Liquidate!Init PROVE LiqIInv
  OBVIOUS
<1> DEFINE t == CHOOSE x \in Scans : TRUE
           none == [pc |-> "idle", kind |-> "check", place |-> "manual", acct |-> NoAddress,
                    left |-> FALSE, fate |-> "none"]
<1>1. /\ lane \in Lanes /\ under \in SUBSET Accounts /\ moves = 0
      /\ list = {} /\ loading = TRUE /\ mixed = FALSE
      /\ victim = NoAddress /\ crossed = FALSE
      /\ manual = [phase |-> "idle", about |-> NoAddress]
      /\ row = [a \in Accounts |-> "idle"]
      /\ run = [r \in Runs |-> none]
  BY DEF Liquidate!Init, Liquidate!Blank, Liquidate!NoRun
<1>2. PICK cand \in SUBSET Visible :
        scan = [s \in Scans |-> IF s = t THEN Liquidate!NewScan(cand) ELSE Liquidate!IdleScan]
  BY DEF Liquidate!Init
<1>3. t \in Scans
  BY LiquidateAssumption
<1> HIDE DEF t
<1> DEFINE fresh == Liquidate!NewScan(cand)
           idle == Liquidate!IdleScan
<1>13. /\ fresh \in Liquidate!ScanState /\ fresh.pc = "probe"
       /\ idle \in Liquidate!ScanState /\ idle.pc = "idle"
  BY LiquidateAssumption DEF Liquidate!NewScan, Liquidate!IdleScan, Liquidate!ScanState
<1>14. scan = [s \in Scans |-> IF s = t THEN fresh ELSE idle]
  BY <1>2
<1> HIDE DEF fresh, idle
<1>4. scan \in [Scans -> Liquidate!ScanState]
  BY <1>13, <1>14
<1>5. run \in [Runs -> Liquidate!RunState]
  BY <1>1 DEF Liquidate!RunState, Liquidate!InFlightPc
<1>6. Liquidate!TypeOK
  BY <1>1, <1>4, <1>5 DEF Liquidate!TypeOK, Liquidate!Shown
<1>7. \A s \in Scans : Liquidate!Scanning(s) <=> s = t
  BY <1>13, <1>14 DEF Liquidate!Scanning
<1>8. \A r \in Runs : run[r].pc = "idle" /\ run[r].fate = "none"
  BY <1>1
<1>9. Liquidate!BusyMeansRunning
  BY <1>1, <1>3, <1>7 DEF Liquidate!BusyMeansRunning
<1>10. Liquidate!AbsorbedIsSettled
  BY <1>1 DEF Liquidate!AbsorbedIsSettled
<1>11. \A r \in Runs : LiqRunFits(run[r], under)
  BY <1>8 DEF LiqRunFits, Liquidate!InFlightPc
<1>12. LiqAbout /\ LiqResting /\ LiqScans /\ LiqDropped
  BY <1>1, <1>7, <1>8 DEF LiqAbout, LiqResting, LiqScans, LiqDropped, Liquidate!Running, Liquidate!InFlightPc
<1> QED
  BY <1>6, <1>9, <1>10, <1>11, <1>12 DEF LiqIInv

LEMMA LiqRunBecomes ==
  ASSUME Liquidate!TypeOK, NEW r \in Runs, NEW q, run' = [run EXCEPT ![r] = q]
  PROVE  /\ run'[r] = q /\ \A x \in Runs \ {r} : run'[x] = run[x]
         /\ q \in Liquidate!RunState => run' \in [Runs -> Liquidate!RunState]
BY DEF Liquidate!TypeOK

LEMMA LiqScanBecomes ==
  ASSUME Liquidate!TypeOK, NEW s \in Scans, NEW q, scan' = [scan EXCEPT ![s] = q]
  PROVE  /\ scan'[s] = q /\ \A x \in Scans \ {s} : scan'[x] = scan[x]
         /\ q \in Liquidate!ScanState => scan' \in [Scans -> Liquidate!ScanState]
BY DEF Liquidate!TypeOK

-----------------------------------------------------------------------------
(* A run that goes on: it stays the run it was, and a settled fate stays.         *)
LiqGoesOn(p, q) ==
  /\ q.acct = p.acct /\ q.place = p.place
  /\ q.pc = p.pc \/ (p.pc \in Liquidate!InFlightPc /\ q.pc \in Liquidate!InFlightPc)
  /\ p.fate \notin {"none", "pending"} => q.fate = p.fate

(* While runs go on, what is shown stays true.                                 *)
LEMMA LiqShownStays ==
  ASSUME LiqIInv, \A x \in Runs : LiqGoesOn(run[x], run'[x]),
         UNCHANGED <<manual, row, loading, scan, victim, crossed, lane>>
  PROVE  Liquidate!BusyMeansRunning' /\ Liquidate!AbsorbedIsSettled' /\ LiqAbout'
<1>1. \A x \in Runs : Liquidate!Running(x)' <=> Liquidate!Running(x)
  BY DEF LiqGoesOn, Liquidate!Running, Liquidate!InFlightPc
<1>2. \A x \in Runs : Liquidate!Settled(x) => Liquidate!Settled(x)'
  BY DEF LiqGoesOn, Liquidate!Settled
<1>3. \A x \in Runs : run'[x].acct = run[x].acct /\ run'[x].place = run[x].place
  BY DEF LiqGoesOn
<1>4. \A a, p : Liquidate!RunFor(a, p)' = Liquidate!RunFor(a, p)
  BY <1>3 DEF Liquidate!RunFor
<1>5. \A a, p : Liquidate!RunFor(a, p) \subseteq Runs
  BY DEF Liquidate!RunFor
<1>6. Liquidate!BusyMeansRunning'
  <2>1. \A a \in Accounts : row'[a] = "absorbing" => \E r \in Liquidate!RunFor(a, "row")' : Liquidate!Running(r)'
    BY <1>1, <1>4, <1>5 DEF LiqIInv, Liquidate!BusyMeansRunning
  <2>2. manual'.phase \in {"checking", "absorbing"} =>
          \E r \in Liquidate!RunFor(manual.about, "manual")' : Liquidate!Running(r)'
    BY <1>1, <1>4, <1>5 DEF LiqIInv, Liquidate!BusyMeansRunning
  <2>3. loading' => \E s \in Scans : Liquidate!Scanning(s)'
    BY DEF LiqIInv, Liquidate!BusyMeansRunning, Liquidate!Scanning
  <2> QED
    BY <2>1, <2>2, <2>3 DEF Liquidate!BusyMeansRunning
<1>7. Liquidate!AbsorbedIsSettled'
  <2>1. \A a \in Accounts : row'[a] = "success" => \E r \in Liquidate!RunFor(a, "row")' : Liquidate!Settled(r)'
    BY <1>2, <1>4, <1>5 DEF LiqIInv, Liquidate!AbsorbedIsSettled
  <2>2. manual'.phase = "success" => \E r \in Liquidate!RunFor(manual.about, "manual")' : Liquidate!Settled(r)'
    BY <1>2, <1>4, <1>5 DEF LiqIInv, Liquidate!AbsorbedIsSettled
  <2> QED
    BY <2>1, <2>2 DEF Liquidate!AbsorbedIsSettled
<1>8. LiqAbout'
  BY <1>1, <1>3 DEF LiqIInv, LiqAbout
<1> QED
  BY <1>6, <1>7, <1>8

-----------------------------------------------------------------------------
(* A run that ends: it shows something that does not call it busy.               *)
LiqEnds(r, q, ph) ==
  /\ Liquidate!Running(r) /\ run' = [run EXCEPT ![r] = q]
  /\ q.pc \notin Liquidate!InFlightPc
  /\ run[r].fate # "none" => q.acct = run[r].acct /\ q.place = run[r].place /\ q.fate = run[r].fate
  /\ Liquidate!Show(r, ph)
  /\ ph \in Liquidate!Shown \ {"idle", "checking", "absorbing"}
  /\ ph = "success" => Liquidate!Settled(r)
  /\ UNCHANGED <<victim, crossed, lane>>

LEMMA LiqShownAtEnd ==
  ASSUME LiqIInv, NEW r \in Runs, NEW q, NEW ph, LiqEnds(r, q, ph), loading' => \E s \in Scans : Liquidate!Scanning(s)'
  PROVE  /\ Liquidate!BusyMeansRunning' /\ Liquidate!AbsorbedIsSettled' /\ LiqAbout'
         /\ manual' \in [phase : Liquidate!Shown, about : Accounts \cup {NoAddress}]
         /\ row' \in [Accounts -> Liquidate!Shown]
<1> DEFINE p == run[r]
<1>1. /\ run'[r] = q /\ \A x \in Runs \ {r} : run'[x] = run[x]
      /\ p \in Liquidate!RunState /\ p.pc \in Liquidate!InFlightPc /\ p.acct \in Accounts
  BY LiqRunBecomes DEF LiqIInv, LiqEnds, Liquidate!TypeOK, LiqRunFits, Liquidate!Running
<1>2. /\ manual \in [phase : Liquidate!Shown, about : Accounts \cup {NoAddress}]
      /\ row \in [Accounts -> Liquidate!Shown]
  BY DEF LiqIInv, Liquidate!TypeOK
<1>3. ph \in Liquidate!Shown /\ ph \notin {"idle", "checking", "absorbing"}
  BY DEF LiqEnds
<1>4. CASE p.place = "row"
  <2>1. row' = [row EXCEPT ![p.acct] = ph] /\ manual' = manual
    BY <1>4 DEF LiqEnds, Liquidate!Show
  <2>2. row'[p.acct] = ph /\ \A a \in Accounts \ {p.acct} : row'[a] = row[a]
    BY <1>1, <1>2, <2>1
  <2> QED
    <3>1. \A a \in Accounts : row'[a] = "absorbing" => \E x \in Liquidate!RunFor(a, "row")' : Liquidate!Running(x)'
      <4> SUFFICES ASSUME NEW a \in Accounts, row'[a] = "absorbing"
                   PROVE  \E x \in Liquidate!RunFor(a, "row")' : Liquidate!Running(x)'
        OBVIOUS
      <4>1. a # p.acct /\ row[a] = "absorbing"
        BY <1>3, <2>2
      <4>2. PICK x \in Runs : run[x].acct = a /\ run[x].place = "row" /\ Liquidate!Running(x)
        BY <4>1 DEF LiqIInv, Liquidate!BusyMeansRunning, Liquidate!RunFor
      <4> QED
        BY <1>1, <4>1, <4>2 DEF Liquidate!RunFor, Liquidate!Running
    <3>2. manual'.phase \in {"checking", "absorbing"} =>
            \E x \in Liquidate!RunFor(manual.about, "manual")' : Liquidate!Running(x)'
      <4> SUFFICES ASSUME manual.phase \in {"checking", "absorbing"}
                   PROVE  \E x \in Liquidate!RunFor(manual.about, "manual")' : Liquidate!Running(x)'
        BY <2>1
      <4>1. PICK x \in Runs : run[x].acct = manual.about /\ run[x].place = "manual" /\ Liquidate!Running(x)
        BY DEF LiqIInv, Liquidate!BusyMeansRunning, Liquidate!RunFor
      <4> QED
        BY <1>1, <1>4, <2>1, <4>1 DEF Liquidate!RunFor, Liquidate!Running
    <3>3. \A a \in Accounts : row'[a] = "success" => \E x \in Liquidate!RunFor(a, "row")' : Liquidate!Settled(x)'
      <4> SUFFICES ASSUME NEW a \in Accounts, row'[a] = "success"
                   PROVE  \E x \in Liquidate!RunFor(a, "row")' : Liquidate!Settled(x)'
        OBVIOUS
      <4>1. PICK x \in Runs : run[x].acct = a /\ run[x].place = "row" /\ Liquidate!Settled(x)
        <5>1. CASE a = p.acct
          BY <1>4, <2>2, <5>1 DEF LiqEnds
        <5>2. CASE a # p.acct
          BY <2>2, <5>2 DEF LiqIInv, Liquidate!AbsorbedIsSettled, Liquidate!RunFor
        <5> QED BY <5>1, <5>2
      <4> QED
        BY <1>1, <4>1 DEF Liquidate!RunFor, Liquidate!Settled, LiqEnds
    <3>4. manual'.phase = "success" => \E x \in Liquidate!RunFor(manual.about, "manual")' : Liquidate!Settled(x)'
      <4> SUFFICES ASSUME manual.phase = "success"
                   PROVE  \E x \in Liquidate!RunFor(manual.about, "manual")' : Liquidate!Settled(x)'
        BY <2>1
      <4>1. PICK x \in Runs : run[x].acct = manual.about /\ run[x].place = "manual" /\ Liquidate!Settled(x)
        BY DEF LiqIInv, Liquidate!AbsorbedIsSettled, Liquidate!RunFor
      <4> QED
        BY <1>1, <2>1, <4>1 DEF Liquidate!RunFor, Liquidate!Settled, LiqEnds
    <3>5. LiqAbout'
      BY <1>1, <2>1 DEF LiqIInv, LiqAbout, Liquidate!Running, LiqEnds
    <3>6. row' \in [Accounts -> Liquidate!Shown]
      BY <1>1, <1>2, <1>3, <2>1
    <3> QED
      BY <1>2, <2>1, <3>1, <3>2, <3>3, <3>4, <3>5, <3>6 DEF Liquidate!BusyMeansRunning, Liquidate!AbsorbedIsSettled
<1>5. CASE p.place # "row"
  <2>1. manual' = [phase |-> ph, about |-> p.acct] /\ row' = row /\ p.place = "manual"
    BY <1>1, <1>5 DEF LiqEnds, Liquidate!Show, Liquidate!RunState
  <2>2. \A a \in Accounts : row'[a] = "absorbing" => \E x \in Liquidate!RunFor(a, "row")' : Liquidate!Running(x)'
    <3> SUFFICES ASSUME NEW a \in Accounts, row[a] = "absorbing"
                 PROVE  \E x \in Liquidate!RunFor(a, "row")' : Liquidate!Running(x)'
      BY <2>1
    <3>1. PICK x \in Runs : run[x].acct = a /\ run[x].place = "row" /\ Liquidate!Running(x)
      BY DEF LiqIInv, Liquidate!BusyMeansRunning, Liquidate!RunFor
    <3> QED
      BY <1>1, <2>1, <3>1 DEF Liquidate!RunFor, Liquidate!Running
  <2>3. manual'.phase \notin {"idle", "checking", "absorbing"}
    BY <1>3, <2>1
  <2>4. \A a \in Accounts : row'[a] = "success" => \E x \in Liquidate!RunFor(a, "row")' : Liquidate!Settled(x)'
    <3> SUFFICES ASSUME NEW a \in Accounts, row[a] = "success"
                 PROVE  \E x \in Liquidate!RunFor(a, "row")' : Liquidate!Settled(x)'
      BY <2>1
    <3>1. PICK x \in Runs : run[x].acct = a /\ run[x].place = "row" /\ Liquidate!Settled(x)
      BY DEF LiqIInv, Liquidate!AbsorbedIsSettled, Liquidate!RunFor
    <3> QED
      BY <1>1, <3>1 DEF Liquidate!RunFor, Liquidate!Settled, LiqEnds
  <2>5. manual'.phase = "success" => \E x \in Liquidate!RunFor(manual.about, "manual")' : Liquidate!Settled(x)'
    <3> SUFFICES ASSUME manual'.phase = "success"
                 PROVE  r \in Liquidate!RunFor(manual.about, "manual")' /\ Liquidate!Settled(r)'
      OBVIOUS
    <3>1. Liquidate!Settled(r)
      BY <2>1 DEF LiqEnds
    <3> QED
      BY <1>1, <2>1, <3>1 DEF Liquidate!RunFor, Liquidate!Settled, LiqEnds
  <2>6. LiqAbout'
    BY <1>1, <2>1 DEF LiqIInv, LiqAbout, Liquidate!Running, LiqEnds
  <2>7. manual' \in [phase : Liquidate!Shown, about : Accounts \cup {NoAddress}]
    BY <1>1, <1>3, <2>1
  <2> QED
    BY <1>2, <2>1, <2>2, <2>3, <2>4, <2>5, <2>6, <2>7 DEF Liquidate!BusyMeansRunning, Liquidate!AbsorbedIsSettled
<1> QED
  BY <1>4, <1>5

-----------------------------------------------------------------------------
(* A run that begins.                                                       *)
LEMMA LiqBegins ==
  ASSUME LiqIInv, NEW r \in Runs, NEW kind \in {"check", "absorb"}, NEW place \in {"row", "manual"},
         NEW a \in Accounts, Liquidate!Begin(r, kind, place, a)
  PROVE  /\ run' \in [Runs -> Liquidate!RunState]
         /\ Liquidate!Running(r)' /\ run'[r].acct = a /\ run'[r].place = place /\ run'[r].fate = "none"
         /\ \A x \in Runs \ {r} : run'[x] = run[x]
         /\ run[r].pc = "idle" /\ run[r].fate = "none"
         /\ \A x \in Runs : LiqRunFits(run[x], under)'
         /\ run'[r].pc = "check"
<1> DEFINE p == run[r]
           q == [p EXCEPT !.pc = "check", !.kind = kind, !.place = place, !.acct = a]
<1>1. p \in Liquidate!RunState /\ LiqRunFits(p, under)
  BY DEF LiqIInv, Liquidate!TypeOK
<1>2. run' = [run EXCEPT ![r] = q] /\ under' = under /\ p.pc = "idle"
  BY DEF Liquidate!Begin, Liquidate!IsNextRun, Liquidate!chainVars
<1>3. /\ q \in Liquidate!RunState /\ q.pc = "check" /\ q.acct = a /\ q.place = place /\ q.fate = p.fate
  BY <1>1 DEF Liquidate!RunState, Liquidate!InFlightPc
<1> HIDE DEF q
<1>4. /\ run' \in [Runs -> Liquidate!RunState] /\ run'[r] = q
      /\ \A x \in Runs \ {r} : run'[x] = run[x]
  BY <1>2, <1>3, LiqRunBecomes DEF LiqIInv
<1> HIDE DEF p
<1>5. p.fate = "none"
  BY <1>1, <1>2 DEF LiqRunFits, p
<1>6. LiqRunFits(q, under)
  BY <1>3, <1>5 DEF LiqRunFits
<1>7. \A x \in Runs : LiqRunFits(run[x], under)'
  BY <1>2, <1>4, <1>6 DEF LiqIInv
<1> QED
  BY <1>2, <1>3, <1>4, <1>5, <1>7 DEF Liquidate!Running, Liquidate!InFlightPc, p

(* What a beginning run leaves as it was.                                     *)
LEMMA LiqBeginKeeps ==
  ASSUME LiqIInv, NEW r \in Runs, run[r].pc = "idle", run[r].fate = "none",
         Liquidate!Running(r)', run'[r].fate = "none", run'[r].pc = "check",
         \A x \in Runs \ {r} : run'[x] = run[x],
         UNCHANGED <<lane, under, moves, list, loading, scan, mixed, victim, crossed>>
  PROVE  /\ \A x \in Runs : Liquidate!Running(x) => x # r /\ Liquidate!Running(x)'
         /\ \A x \in Runs : Liquidate!Settled(x) => x # r /\ Liquidate!Settled(x)'
         /\ \A a : LiqDue(a) => LiqDue(a)'
         /\ \A x \in Runs : run'[x].fate = "absorbed" => run[x].fate = "absorbed" /\ x # r
         /\ LiqScans' /\ LiqDropped'
<1>1. \A x \in Runs : Liquidate!Running(x) => x # r /\ Liquidate!Running(x)'
  BY DEF Liquidate!Running, Liquidate!InFlightPc
<1>2. \A x \in Runs : Liquidate!Settled(x) => x # r /\ Liquidate!Settled(x)'
  BY DEF Liquidate!Settled
<1>3. \A x \in Runs : run[x].fate = "absorbed" => run'[x] = run[x]
  OBVIOUS
<1>4. \A a : LiqDue(a) => LiqDue(a)'
  BY <1>3 DEF LiqDue
<1>5. \A x \in Runs : run'[x].fate = "absorbed" => run[x].fate = "absorbed" /\ x # r
  OBVIOUS
<1>6. LiqScans'
  BY DEF LiqIInv, LiqScans, Liquidate!Scanning
<1>7. LiqDropped'
  BY DEF LiqIInv, LiqDropped, Liquidate!Scanning
<1> QED
  BY <1>1, <1>2, <1>4, <1>5, <1>6, <1>7

LEMMA LiqAbsorbRow ==
  ASSUME LiqIInv, NEW r \in Runs, NEW a \in Accounts, Liquidate!AbsorbRow(r, a)
  PROVE  LiqIInv'
<1>1. /\ Liquidate!Begin(r, "absorb", "row", a) /\ row' = [row EXCEPT ![a] = "absorbing"] /\ manual' = manual
      /\ UNCHANGED <<lane, under, moves, list, loading, scan, mixed, victim, crossed>>
  BY DEF Liquidate!AbsorbRow, Liquidate!Begin, Liquidate!chainVars, Liquidate!tableVars
<1>2. /\ run' \in [Runs -> Liquidate!RunState]
      /\ Liquidate!Running(r)' /\ run'[r].acct = a /\ run'[r].place = "row" /\ run'[r].fate = "none"
      /\ \A x \in Runs \ {r} : run'[x] = run[x]
      /\ run[r].pc = "idle" /\ run[r].fate = "none" /\ run'[r].pc = "check"
      /\ \A x \in Runs : LiqRunFits(run[x], under)'
  BY <1>1, LiqBegins
<1>3. /\ \A x \in Runs : Liquidate!Running(x) => x # r /\ Liquidate!Running(x)'
      /\ \A x \in Runs : Liquidate!Settled(x) => x # r /\ Liquidate!Settled(x)'
      /\ \A b : LiqDue(b) => LiqDue(b)'
      /\ \A x \in Runs : run'[x].fate = "absorbed" => run[x].fate = "absorbed" /\ x # r
      /\ LiqScans' /\ LiqDropped'
  BY <1>1, <1>2, LiqBeginKeeps
<1>4. row \in [Accounts -> Liquidate!Shown]
  BY DEF LiqIInv, Liquidate!TypeOK
<1>5. row' \in [Accounts -> Liquidate!Shown] /\ \A b \in Accounts : row'[b] = IF b = a THEN "absorbing" ELSE row[b]
  BY <1>1, <1>4 DEF Liquidate!Shown
<1>6. Liquidate!TypeOK'
  BY <1>1, <1>2, <1>5 DEF LiqIInv, Liquidate!TypeOK
<1>7. Liquidate!BusyMeansRunning'
  <2>1. \A b \in Accounts : row'[b] = "absorbing" => \E x \in Liquidate!RunFor(b, "row")' : Liquidate!Running(x)'
    <3> SUFFICES ASSUME NEW b \in Accounts, row'[b] = "absorbing"
                 PROVE  \E x \in Runs : run'[x].acct = b /\ run'[x].place = "row" /\ Liquidate!Running(x)'
      BY DEF Liquidate!RunFor
    <3>1. CASE b = a
      BY <1>2, <3>1
    <3>2. CASE b # a
      <4>1. PICK x \in Runs : run[x].acct = b /\ run[x].place = "row" /\ Liquidate!Running(x)
        BY <1>5, <3>2 DEF LiqIInv, Liquidate!BusyMeansRunning, Liquidate!RunFor
      <4> QED BY <1>2, <1>3, <4>1
    <3> QED BY <3>1, <3>2
  <2>2. manual'.phase \in {"checking", "absorbing"} =>
          \E x \in Liquidate!RunFor(manual.about, "manual")' : Liquidate!Running(x)'
    <3> SUFFICES ASSUME manual.phase \in {"checking", "absorbing"}
                 PROVE  \E x \in Runs : run'[x].acct = manual.about /\ run'[x].place = "manual" /\ Liquidate!Running(x)'
      BY <1>1 DEF Liquidate!RunFor
    <3>1. PICK x \in Runs : run[x].acct = manual.about /\ run[x].place = "manual" /\ Liquidate!Running(x)
      BY DEF LiqIInv, Liquidate!BusyMeansRunning, Liquidate!RunFor
    <3> QED BY <1>2, <1>3, <3>1
  <2>3. loading' => \E s \in Scans : Liquidate!Scanning(s)'
    BY <1>1 DEF LiqIInv, Liquidate!BusyMeansRunning, Liquidate!Scanning
  <2> QED
    BY <2>1, <2>2, <2>3 DEF Liquidate!BusyMeansRunning
<1>8. Liquidate!AbsorbedIsSettled'
  <2>1. \A b \in Accounts : row'[b] = "success" => \E x \in Liquidate!RunFor(b, "row")' : Liquidate!Settled(x)'
    <3> SUFFICES ASSUME NEW b \in Accounts, row'[b] = "success"
                 PROVE  \E x \in Runs : run'[x].acct = b /\ run'[x].place = "row" /\ Liquidate!Settled(x)'
      BY DEF Liquidate!RunFor
    <3>1. PICK x \in Runs : run[x].acct = b /\ run[x].place = "row" /\ Liquidate!Settled(x)
      BY <1>5 DEF LiqIInv, Liquidate!AbsorbedIsSettled, Liquidate!RunFor
    <3> QED BY <1>2, <1>3, <3>1
  <2>2. manual'.phase = "success" => \E x \in Liquidate!RunFor(manual.about, "manual")' : Liquidate!Settled(x)'
    <3> SUFFICES ASSUME manual.phase = "success"
                 PROVE  \E x \in Runs : run'[x].acct = manual.about /\ run'[x].place = "manual" /\ Liquidate!Settled(x)'
      BY <1>1 DEF Liquidate!RunFor
    <3>1. PICK x \in Runs : run[x].acct = manual.about /\ run[x].place = "manual" /\ Liquidate!Settled(x)
      BY DEF LiqIInv, Liquidate!AbsorbedIsSettled, Liquidate!RunFor
    <3> QED BY <1>2, <1>3, <3>1
  <2> QED
    BY <2>1, <2>2 DEF Liquidate!AbsorbedIsSettled
<1>9. LiqAbout'
  BY <1>1, <1>2 DEF LiqIInv, LiqAbout, Liquidate!Running
<1>10. LiqResting'
  BY <1>1, <1>2, <1>3 DEF LiqIInv, LiqResting
<1> QED
  BY <1>2, <1>3, <1>6, <1>7, <1>8, <1>9, <1>10 DEF LiqIInv

(* Absorb and Check below the field.                                          *)
LEMMA LiqManual ==
  ASSUME LiqIInv, NEW r \in Runs, NEW kind \in {"check", "absorb"}, NEW ph \in {"checking", "absorbing"},
         victim # NoAddress, Liquidate!Begin(r, kind, "manual", victim),
         manual' = [phase |-> ph, about |-> victim], row' = row
  PROVE  LiqIInv'
<1>1. /\ victim \in Accounts
      /\ UNCHANGED <<lane, under, moves, list, loading, scan, mixed, victim, crossed>>
  BY DEF Liquidate!Begin, Liquidate!chainVars, Liquidate!tableVars, LiqIInv, Liquidate!TypeOK
<1>2. /\ run' \in [Runs -> Liquidate!RunState]
      /\ Liquidate!Running(r)' /\ run'[r].acct = victim /\ run'[r].place = "manual" /\ run'[r].fate = "none"
      /\ \A x \in Runs \ {r} : run'[x] = run[x]
      /\ run[r].pc = "idle" /\ run[r].fate = "none" /\ run'[r].pc = "check"
      /\ \A x \in Runs : LiqRunFits(run[x], under)'
  BY <1>1, LiqBegins
<1>3. /\ \A x \in Runs : Liquidate!Running(x) => x # r /\ Liquidate!Running(x)'
      /\ \A x \in Runs : Liquidate!Settled(x) => x # r /\ Liquidate!Settled(x)'
      /\ \A b : LiqDue(b) => LiqDue(b)'
      /\ \A x \in Runs : run'[x].fate = "absorbed" => run[x].fate = "absorbed" /\ x # r
      /\ LiqScans' /\ LiqDropped'
  BY <1>1, <1>2, LiqBeginKeeps
<1>4. manual'.phase = ph /\ manual'.about = victim
  OBVIOUS
<1>5. manual' \in [phase : Liquidate!Shown, about : Accounts \cup {NoAddress}]
  BY <1>1 DEF Liquidate!Shown
<1>6. Liquidate!TypeOK'
  BY <1>1, <1>2, <1>5 DEF LiqIInv, Liquidate!TypeOK
<1>7. Liquidate!BusyMeansRunning'
  <2>1. \A b \in Accounts : row'[b] = "absorbing" => \E x \in Liquidate!RunFor(b, "row")' : Liquidate!Running(x)'
    <3> SUFFICES ASSUME NEW b \in Accounts, row[b] = "absorbing"
                 PROVE  \E x \in Runs : run'[x].acct = b /\ run'[x].place = "row" /\ Liquidate!Running(x)'
      BY DEF Liquidate!RunFor
    <3>1. PICK x \in Runs : run[x].acct = b /\ run[x].place = "row" /\ Liquidate!Running(x)
      BY DEF LiqIInv, Liquidate!BusyMeansRunning, Liquidate!RunFor
    <3> QED BY <1>2, <1>3, <3>1
  <2>2. r \in Liquidate!RunFor(manual.about, "manual")'
    BY <1>2, <1>4 DEF Liquidate!RunFor
  <2>3. loading' => \E s \in Scans : Liquidate!Scanning(s)'
    BY <1>1 DEF LiqIInv, Liquidate!BusyMeansRunning, Liquidate!Scanning
  <2> QED
    BY <1>2, <2>1, <2>2, <2>3 DEF Liquidate!BusyMeansRunning
<1>8. Liquidate!AbsorbedIsSettled'
  <2>1. \A b \in Accounts : row'[b] = "success" => \E x \in Liquidate!RunFor(b, "row")' : Liquidate!Settled(x)'
    <3> SUFFICES ASSUME NEW b \in Accounts, row[b] = "success"
                 PROVE  \E x \in Runs : run'[x].acct = b /\ run'[x].place = "row" /\ Liquidate!Settled(x)'
      BY DEF Liquidate!RunFor
    <3>1. PICK x \in Runs : run[x].acct = b /\ run[x].place = "row" /\ Liquidate!Settled(x)
      BY DEF LiqIInv, Liquidate!AbsorbedIsSettled, Liquidate!RunFor
    <3> QED BY <1>2, <1>3, <3>1
  <2> QED
    BY <1>4, <2>1 DEF Liquidate!AbsorbedIsSettled
<1>9. LiqAbout'
  BY <1>1, <1>2, <1>4 DEF LiqIInv, LiqAbout, Liquidate!Running
<1>10. LiqResting'
  BY <1>1, <1>2, <1>3, <1>4 DEF LiqIInv, LiqResting
<1> QED
  BY <1>2, <1>3, <1>6, <1>7, <1>8, <1>9, <1>10 DEF LiqIInv

LEMMA LiqEdit ==
  ASSUME LiqIInv, NEW a \in Accounts \cup {NoAddress}, Liquidate!Edit(a)
  PROVE  LiqIInv'
<1>1. /\ victim' = a /\ manual' = [phase |-> "idle", about |-> NoAddress]
      /\ crossed' = (crossed \/ \E r \in Runs : Liquidate!Running(r) /\ run[r].place = "manual")
      /\ UNCHANGED <<lane, under, moves, list, loading, scan, mixed, row, run>>
  BY DEF Liquidate!Edit, Liquidate!Blank, Liquidate!chainVars, Liquidate!tableVars
<1>2. crossed' \in BOOLEAN
  BY <1>1, Zenon DEF LiqIInv, Liquidate!TypeOK
<1>3. Liquidate!TypeOK'
  BY <1>1, <1>2 DEF LiqIInv, Liquidate!TypeOK, Liquidate!Shown
<1>4. Liquidate!BusyMeansRunning'
  BY <1>1 DEF LiqIInv, Liquidate!BusyMeansRunning, Liquidate!RunFor, Liquidate!Running, Liquidate!Scanning
<1>5. Liquidate!AbsorbedIsSettled'
  BY <1>1 DEF LiqIInv, Liquidate!AbsorbedIsSettled, Liquidate!RunFor, Liquidate!Settled
<1>6. LiqAbout'
  <2>1. manual'.phase = "idle"
    BY <1>1
  <2>2. ~crossed' => \A r \in Runs : ~(Liquidate!Running(r) /\ run[r].place = "manual")
    BY <1>1
  <2> QED
    BY <1>1, <2>1, <2>2 DEF LiqAbout, Liquidate!Running
<1>7. LiqResting'
  <2>1. manual'.phase = "idle"
    BY <1>1
  <2> QED
    BY <1>1, <2>1 DEF LiqIInv, LiqResting, LiqDue
<1>8. LiqScans' /\ LiqDropped'
  BY <1>1 DEF LiqIInv, LiqScans, LiqDropped, Liquidate!Scanning
<1>9. \A r \in Runs : LiqRunFits(run[r], under)'
  BY <1>1 DEF LiqIInv
<1> QED
  BY <1>3, <1>4, <1>5, <1>6, <1>7, <1>8, <1>9 DEF LiqIInv

-----------------------------------------------------------------------------
(* The scans.                                                              *)

(* A step of the table alone: what the runs and the market mean stays.            *)
LEMMA LiqTableOnly ==
  ASSUME LiqIInv, UNCHANGED <<lane, under, moves, victim, manual, crossed, row, run>>,
         list' \subseteq Accounts, loading' \in BOOLEAN, mixed' \in BOOLEAN,
         scan' \in [Scans -> Liquidate!ScanState],
         loading' => \E s \in Scans : Liquidate!Scanning(s)', LiqScans', LiqDropped'
  PROVE  LiqIInv'
<1>1. Liquidate!TypeOK'
  BY DEF LiqIInv, Liquidate!TypeOK
<1>2. Liquidate!BusyMeansRunning'
  BY DEF LiqIInv, Liquidate!BusyMeansRunning, Liquidate!RunFor, Liquidate!Running
<1>3. Liquidate!AbsorbedIsSettled'
  BY DEF LiqIInv, Liquidate!AbsorbedIsSettled, Liquidate!RunFor, Liquidate!Settled
<1>4. LiqAbout' /\ LiqResting'
  BY DEF LiqIInv, LiqAbout, LiqResting, LiqDue, Liquidate!Running
<1> QED
  BY <1>1, <1>2, <1>3, <1>4 DEF LiqIInv

LEMMA LiqProbe ==
  ASSUME LiqIInv, NEW s \in Scans, NEW a \in Accounts, Liquidate!ScanProbe(s, a)
  PROVE  LiqIInv'
<1> DEFINE p == scan[s]
           q == [p EXCEPT !.left = p.left \ {a}, !.found = p.found \cup ({a} \cap under)]
<1>1. /\ p \in Liquidate!ScanState /\ p.pc = "probe" /\ Liquidate!TypeOK
      /\ under \subseteq Accounts
  BY DEF LiqIInv, Liquidate!TypeOK, Liquidate!ScanProbe
<1>2. /\ UNCHANGED <<lane, under, moves, victim, manual, crossed, row, run, list, loading, mixed>>
      /\ scan' = [scan EXCEPT ![s] = q]
  BY DEF Liquidate!ScanProbe, Liquidate!chainVars, Liquidate!shownVars, LiqIInv, Liquidate!TypeOK, Liquidate!ScanState
<1>3. q \in Liquidate!ScanState /\ q.pc = "probe" /\ q.found = p.found \cup ({a} \cap under)
  BY <1>1 DEF Liquidate!ScanState
<1> HIDE DEF q
<1>4. /\ scan' \in [Scans -> Liquidate!ScanState] /\ scan'[s] = q
      /\ \A x \in Scans \ {s} : scan'[x] = scan[x]
  BY <1>1, <1>2, <1>3, LiqScanBecomes
<1>5. \A x \in Scans : Liquidate!Scanning(x)' <=> Liquidate!Scanning(x)
  BY <1>1, <1>3, <1>4 DEF Liquidate!Scanning
<1>6. LiqScans'
  BY <1>2, <1>5 DEF LiqIInv, LiqScans
<1>7. LiqDropped'
  <2> SUFFICES ASSUME ~mixed, moves = 0, NEW r \in Runs, run[r].fate = "absorbed", run[r].pc = "ended"
               PROVE  /\ \A x \in Scans : Liquidate!Scanning(x)' => run[r].acct \notin scan'[x].found
                      /\ (\A x \in Scans : ~Liquidate!Scanning(x)') => run[r].acct \notin list
    BY <1>2 DEF LiqDropped
  <2>1. /\ \A x \in Scans : Liquidate!Scanning(x) => run[r].acct \notin scan[x].found
        /\ (\A x \in Scans : ~Liquidate!Scanning(x)) => run[r].acct \notin list
    BY DEF LiqIInv, LiqDropped
  <2>2. run[r].acct \notin under
    BY DEF LiqIInv, LiqResting
  <2> QED
    BY <1>3, <1>4, <1>5, <2>1, <2>2
<1>8. loading => \E x \in Scans : Liquidate!Scanning(x)'
  BY <1>5 DEF LiqIInv, Liquidate!BusyMeansRunning
<1> QED
  BY <1>1, <1>2, <1>4, <1>6, <1>7, <1>8, LiqTableOnly DEF Liquidate!TypeOK

LEMMA LiqDelivers ==
  ASSUME LiqIInv, NEW s \in Scans, Liquidate!ScanDelivers(s)
  PROVE  LiqIInv'
<1> DEFINE q == [pc |-> "idle", left |-> {}, found |-> {}]
<1>1. /\ scan[s] \in Liquidate!ScanState /\ scan[s].pc = "probe" /\ Liquidate!TypeOK
  BY DEF LiqIInv, Liquidate!TypeOK, Liquidate!ScanDelivers
<1>2. /\ UNCHANGED <<lane, under, moves, victim, manual, crossed, row, run, mixed>>
      /\ list' = scan[s].found /\ loading' = FALSE /\ scan' = [scan EXCEPT ![s] = q]
  BY DEF Liquidate!ScanDelivers, Liquidate!chainVars, Liquidate!shownVars, Liquidate!IdleScan
<1>3. q \in Liquidate!ScanState /\ q.pc = "idle"
  BY DEF Liquidate!ScanState
<1> HIDE DEF q
<1>4. /\ scan' \in [Scans -> Liquidate!ScanState] /\ scan'[s] = q
      /\ \A x \in Scans \ {s} : scan'[x] = scan[x]
  BY <1>1, <1>2, <1>3, LiqScanBecomes
<1>5. /\ Liquidate!Scanning(s) /\ ~Liquidate!Scanning(s)'
      /\ \A x \in Scans \ {s} : Liquidate!Scanning(x)' <=> Liquidate!Scanning(x)
  BY <1>1, <1>3, <1>4 DEF Liquidate!Scanning
<1>6. LiqScans'
  BY <1>2, <1>5 DEF LiqIInv, LiqScans
<1>7. LiqDropped'
  <2> SUFFICES ASSUME ~mixed, moves = 0, NEW r \in Runs, run[r].fate = "absorbed", run[r].pc = "ended"
               PROVE  /\ \A x \in Scans : Liquidate!Scanning(x)' => run[r].acct \notin scan'[x].found
                      /\ run[r].acct \notin list'
    BY <1>2 DEF LiqDropped
  <2>1. \A x \in Scans : Liquidate!Scanning(x) => run[r].acct \notin scan[x].found
    BY DEF LiqIInv, LiqDropped
  <2> QED
    BY <1>2, <1>4, <1>5, <2>1
<1>8. list' \subseteq Accounts
  BY <1>1, <1>2 DEF Liquidate!ScanState
<1> QED
  BY <1>1, <1>2, <1>4, <1>6, <1>7, <1>8, LiqTableOnly DEF Liquidate!TypeOK

LEMMA LiqScanFails ==
  ASSUME LiqIInv, NEW s \in Scans, Liquidate!ScanFails(s)
  PROVE  LiqIInv'
<1> DEFINE q == [pc |-> "idle", left |-> {}, found |-> {}]
<1>1. Liquidate!TypeOK
  BY DEF LiqIInv
<1>2. /\ UNCHANGED <<lane, under, moves, victim, manual, crossed, row, run, list>>
      /\ mixed' = TRUE /\ loading' = FALSE /\ scan' = [scan EXCEPT ![s] = q]
  BY DEF Liquidate!ScanFails, Liquidate!chainVars, Liquidate!shownVars, Liquidate!IdleScan
<1>3. q \in Liquidate!ScanState
  BY DEF Liquidate!ScanState
<1> HIDE DEF q
<1>4. scan' \in [Scans -> Liquidate!ScanState]
  BY <1>1, <1>2, <1>3, LiqScanBecomes
<1>5. LiqScans' /\ LiqDropped'
  BY <1>2 DEF LiqScans, LiqDropped
<1> QED
  BY <1>1, <1>2, <1>4, <1>5, LiqTableOnly DEF Liquidate!TypeOK

-----------------------------------------------------------------------------
(* The runs.                                                               *)

(* A step of one run that goes on, with nothing shown and the market at rest.       *)
LEMMA LiqRunOnly ==
  ASSUME LiqIInv, NEW r \in Runs, NEW q \in Liquidate!RunState, run' = [run EXCEPT ![r] = q],
         UNCHANGED <<lane, under, moves, list, loading, scan, mixed, victim, manual, crossed, row>>,
         LiqGoesOn(run[r], q), LiqRunFits(q, under),
         q.pc = "enrich" => LiqDue(q.acct), q.fate = "absorbed" => run[r].fate = "absorbed"
  PROVE  LiqIInv'
<1>1. /\ run'[r] = q /\ \A x \in Runs \ {r} : run'[x] = run[x]
      /\ run' \in [Runs -> Liquidate!RunState]
  BY LiqRunBecomes DEF LiqIInv
<1>2. \A x \in Runs : LiqGoesOn(run[x], run'[x])
  BY <1>1 DEF LiqGoesOn
<1>3. Liquidate!BusyMeansRunning' /\ Liquidate!AbsorbedIsSettled' /\ LiqAbout'
  BY <1>2, LiqShownStays
<1>4. Liquidate!TypeOK'
  BY <1>1 DEF LiqIInv, Liquidate!TypeOK
<1>5. \A x \in Runs : LiqRunFits(run[x], under)'
  BY <1>1 DEF LiqIInv
<1>6. \A x \in Runs : /\ run'[x].acct = run[x].acct
                      /\ run'[x].fate = "absorbed" <=> run[x].fate = "absorbed"
                      /\ run'[x].pc = "ended" => run[x].pc = "ended"
                      /\ run'[x].pc = "enrich" => run[x].pc = "enrich" \/ LiqDue(run[x].acct)
  BY <1>1 DEF LiqGoesOn, Liquidate!InFlightPc
<1>7. \A a : LiqDue(a)' <=> LiqDue(a)
  BY <1>6 DEF LiqDue
<1>8. LiqResting'
  BY <1>6, <1>7 DEF LiqIInv, LiqResting
<1>9. LiqScans' /\ LiqDropped'
  BY <1>6 DEF LiqIInv, LiqScans, LiqDropped, Liquidate!Scanning
<1> QED
  BY <1>3, <1>4, <1>5, <1>8, <1>9 DEF LiqIInv

(* A run that ends says something that is true.                               *)
LEMMA LiqRunEnds ==
  ASSUME LiqIInv, NEW r \in Runs, NEW q \in Liquidate!RunState, NEW ph, LiqEnds(r, q, ph),
         UNCHANGED <<under, moves>>, q.pc = "ended" => q.fate # "pending",
         run[r].fate = "none" => q.fate = "none", q.pc \in {"ended", "failed"},
         moves = 0 /\ ph = "healthy" => run[r].acct \notin under,
         moves = 0 /\ ph = "liquidatable" => LiqDue(run[r].acct),
         moves = 0 /\ ph = "success" /\ lane = "solana" => run[r].acct \notin under,
         list' \subseteq Accounts, loading' \in BOOLEAN, mixed' \in BOOLEAN,
         scan' \in [Scans -> Liquidate!ScanState],
         loading' => \E s \in Scans : Liquidate!Scanning(s)', LiqScans', LiqDropped'
  PROVE  LiqIInv'
<1>1. /\ run'[r] = q /\ \A x \in Runs \ {r} : run'[x] = run[x]
      /\ run' \in [Runs -> Liquidate!RunState]
  BY LiqRunBecomes DEF LiqIInv, LiqEnds
<1>2. /\ Liquidate!BusyMeansRunning' /\ Liquidate!AbsorbedIsSettled' /\ LiqAbout'
      /\ manual' \in [phase : Liquidate!Shown, about : Accounts \cup {NoAddress}]
      /\ row' \in [Accounts -> Liquidate!Shown]
  BY LiqShownAtEnd
<1>3. Liquidate!TypeOK'
  BY <1>1, <1>2 DEF LiqIInv, Liquidate!TypeOK, LiqEnds
<1>4. \A x \in Runs : LiqRunFits(run[x], under)'
  <2>1. LiqRunFits(q, under)
    BY DEF LiqRunFits, Liquidate!InFlightPc
  <2> QED
    BY <1>1, <2>1 DEF LiqIInv
<1>5. \A x \in Runs : run[x].fate = "absorbed" => run'[x].acct = run[x].acct /\ run'[x].fate = "absorbed"
  BY <1>1 DEF LiqEnds
<1>6. \A x \in Runs : run'[x].fate = "absorbed" => run'[x].acct = run[x].acct /\ run[x].fate = "absorbed"
  BY <1>1 DEF LiqEnds
<1>7. \A a : LiqDue(a) => LiqDue(a)'
  BY <1>5 DEF LiqDue
<1>8. LiqResting'
  <2> SUFFICES ASSUME moves = 0 PROVE LiqResting'
    BY DEF LiqResting
  <2>1. \A x \in Runs : run'[x].pc = "enrich" => run[x].pc = "enrich" /\ run'[x].acct = run[x].acct
    BY <1>1
  <2>2. \/ manual' = manual
        \/ manual'.phase = ph /\ manual'.about = run[r].acct
    BY DEF LiqEnds, Liquidate!Show
  <2>3. lane' = lane
    BY DEF LiqEnds
  <2> QED
    BY <1>6, <1>7, <2>1, <2>2, <2>3 DEF LiqIInv, LiqResting
<1> QED
  BY <1>2, <1>3, <1>4, <1>8 DEF LiqIInv

(* The same with the table left alone, of a run that absorbed nothing or failed.    *)
LEMMA LiqRunEndsQuietly ==
  ASSUME LiqIInv, NEW r \in Runs, NEW q \in Liquidate!RunState, NEW ph, LiqEnds(r, q, ph),
         UNCHANGED <<under, moves, list, loading, scan, mixed>>,
         run[r].fate = "none" => q.fate = "none", q.pc \in {"ended", "failed"},
         q.pc = "ended" => q.fate = "none",
         moves = 0 /\ ph = "healthy" => run[r].acct \notin under,
         moves = 0 /\ ph = "liquidatable" => LiqDue(run[r].acct),
         ph # "success"
  PROVE  LiqIInv'
<1>1. /\ run'[r] = q /\ \A x \in Runs \ {r} : run'[x] = run[x]
  BY LiqRunBecomes DEF LiqIInv, LiqEnds
<1>2. LiqScans'
  BY DEF LiqIInv, LiqScans, Liquidate!Scanning
<1>3. LiqDropped'
  BY <1>1 DEF LiqIInv, LiqDropped, Liquidate!Scanning
<1>4. loading' => \E s \in Scans : Liquidate!Scanning(s)'
  BY DEF LiqIInv, Liquidate!BusyMeansRunning, Liquidate!Scanning
<1>5. /\ list' \subseteq Accounts /\ loading' \in BOOLEAN /\ mixed' \in BOOLEAN
      /\ scan' \in [Scans -> Liquidate!ScanState]
  BY DEF LiqIInv, Liquidate!TypeOK
<1> QED
  BY <1>2, <1>3, <1>4, <1>5, LiqRunEnds

(* What Step and End make of a run.                                          *)
LEMMA LiqStep ==
  ASSUME LiqIInv, NEW r \in Runs, NEW pc \in {"enrich", "prepare", "popup"}, Liquidate!Step(r, pc),
         run[r].pc \in Liquidate!InFlightPc
  PROVE  \E q \in Liquidate!RunState :
           /\ run' = [run EXCEPT ![r] = q] /\ LiqGoesOn(run[r], q)
           /\ q.pc = pc /\ q.acct = run[r].acct /\ q.fate = run[r].fate
           /\ pc # "enrich" => q.left = run[r].left
<1> DEFINE p == run[r]
           b == p.left /\ pc \in {"prepare", "popup"}
           q == [p EXCEPT !.pc = pc, !.left = b]
<1>1. p \in Liquidate!RunState /\ b \in BOOLEAN
  BY DEF LiqIInv, Liquidate!TypeOK, Liquidate!RunState
<1>2. pc # "enrich" => b = p.left
  <2>1. p.left \in BOOLEAN
    BY <1>1 DEF Liquidate!RunState
  <2> QED BY <2>1, Zenon
<1>3. run' = [run EXCEPT ![r] = q]
  BY DEF Liquidate!Step, LiqIInv, Liquidate!TypeOK, Liquidate!RunState
<1> HIDE DEF b
<1>4. /\ q \in Liquidate!RunState /\ q.pc = pc /\ q.left = b
      /\ q.acct = p.acct /\ q.place = p.place /\ q.fate = p.fate
  BY <1>1 DEF Liquidate!RunState, Liquidate!InFlightPc
<1> HIDE DEF q
<1>5. LiqGoesOn(p, q)
  BY <1>4 DEF LiqGoesOn, Liquidate!InFlightPc
<1> QED
  BY <1>2, <1>3, <1>4, <1>5

LEMMA LiqEnd ==
  ASSUME LiqIInv, NEW r \in Runs, NEW pc \in {"ended", "failed"}, Liquidate!End(r, pc),
         NEW ph \in Liquidate!Shown \ {"idle", "checking", "absorbing"}, Liquidate!Running(r),
         Liquidate!Show(r, ph), ph = "success" => Liquidate!Settled(r), UNCHANGED <<victim, crossed, lane>>
  PROVE  \E q \in Liquidate!RunState :
           /\ LiqEnds(r, q, ph) /\ q.fate = run[r].fate
           /\ q.pc = IF q.fate = "none" THEN "ended" ELSE pc
<1> DEFINE p == run[r]
           gone == [Liquidate!NoRun EXCEPT !.pc = "ended"]
           q == IF p.fate = "none" THEN gone ELSE [p EXCEPT !.pc = pc]
<1>1. p \in Liquidate!RunState
  BY DEF LiqIInv, Liquidate!TypeOK
<1>2. run' = [run EXCEPT ![r] = q]
  BY DEF Liquidate!End
<1>3. CASE p.fate = "none"
  <2>1. Liquidate!NoRun = [pc |-> "idle", kind |-> "check", place |-> "manual", acct |-> NoAddress,
                           left |-> FALSE, fate |-> "none"]
    BY DEF Liquidate!NoRun
  <2>2. Liquidate!NoRun \in Liquidate!RunState /\ Liquidate!NoRun.fate = "none"
    BY <2>1 DEF Liquidate!RunState
  <2>3. gone \in Liquidate!RunState /\ gone.pc = "ended" /\ gone.fate = "none"
    BY <2>2 DEF Liquidate!RunState
  <2>4. q = gone
    BY <1>3
  <2> HIDE DEF q, gone
  <2>5. LiqEnds(r, q, ph)
    BY <1>2, <1>3, <2>3, <2>4 DEF LiqEnds, Liquidate!InFlightPc
  <2> QED
    BY <1>3, <2>3, <2>4, <2>5
<1>4. CASE p.fate # "none"
  <2>1. /\ q \in Liquidate!RunState /\ q.pc = pc
        /\ q.acct = p.acct /\ q.place = p.place /\ q.fate = p.fate
    BY <1>1, <1>4 DEF Liquidate!RunState
  <2> HIDE DEF q
  <2>2. LiqEnds(r, q, ph)
    BY <1>2, <1>4, <2>1 DEF LiqEnds, Liquidate!InFlightPc
  <2> QED
    BY <1>4, <2>1, <2>2
<1> QED
  BY <1>3, <1>4

(* onCheck: an account that is not under water ends the run, any other goes on.      *)
LEMMA LiqAskComet ==
  ASSUME LiqIInv, NEW r \in Runs, Liquidate!AskComet(r)
  PROVE  LiqIInv'
<1> DEFINE p == run[r]
<1>1. /\ p.pc = "check" /\ p \in Liquidate!RunState /\ LiqRunFits(p, under)
      /\ UNCHANGED <<lane, under, moves, list, loading, scan, mixed, victim, crossed>>
  BY DEF Liquidate!AskComet, Liquidate!Elsewhere, Liquidate!chainVars, Liquidate!tableVars, LiqIInv, Liquidate!TypeOK
<1>2. p.fate = "none" /\ p.acct \in Accounts /\ Liquidate!Running(r)
  BY <1>1 DEF LiqRunFits, Liquidate!Running, Liquidate!InFlightPc
<1>3. CASE p.acct \in under
  <2>1. Liquidate!Step(r, "enrich") /\ UNCHANGED <<manual, row>>
    BY <1>3 DEF Liquidate!AskComet, Liquidate!shownVars
  <2>2. p.pc \in Liquidate!InFlightPc
    BY <1>1 DEF Liquidate!InFlightPc
  <2>3. PICK q \in Liquidate!RunState :
           /\ run' = [run EXCEPT ![r] = q] /\ LiqGoesOn(p, q)
           /\ q.pc = "enrich" /\ q.acct = p.acct /\ q.fate = p.fate
    BY <2>1, <2>2, LiqStep
  <2>4. LiqRunFits(q, under)
    BY <1>2, <1>3, <2>3 DEF LiqRunFits
  <2>5. LiqDue(q.acct)
    BY <1>3, <2>3 DEF LiqDue
  <2> QED
    BY <1>1, <2>1, <2>3, <2>4, <2>5, LiqRunOnly
<1>4. CASE p.acct \notin under
  <2>1. Liquidate!End(r, "ended") /\ Liquidate!Show(r, "healthy")
    BY <1>4 DEF Liquidate!AskComet
  <2>2. "healthy" \in Liquidate!Shown \ {"idle", "checking", "absorbing"}
    BY DEF Liquidate!Shown
  <2>3. PICK q \in Liquidate!RunState :
           /\ LiqEnds(r, q, "healthy") /\ q.fate = p.fate
           /\ q.pc = IF q.fate = "none" THEN "ended" ELSE "ended"
    BY <1>1, <1>2, <2>1, <2>2, LiqEnd
  <2> QED
    BY <1>1, <1>2, <1>4, <2>3, LiqRunEndsQuietly
<1> QED
  BY <1>3, <1>4

LEMMA LiqEnrich ==
  ASSUME LiqIInv, NEW r \in Runs, Liquidate!Enrich(r)
  PROVE  LiqIInv'
<1> DEFINE p == run[r]
<1>1. /\ p.pc = "enrich" /\ p \in Liquidate!RunState /\ LiqRunFits(p, under)
      /\ UNCHANGED <<lane, under, moves, list, loading, scan, mixed, victim, crossed>>
  BY DEF Liquidate!Enrich, Liquidate!Elsewhere, Liquidate!chainVars, Liquidate!tableVars, LiqIInv, Liquidate!TypeOK
<1>2. p.fate = "none" /\ p.acct \in Accounts /\ Liquidate!Running(r)
  BY <1>1 DEF LiqRunFits, Liquidate!Running, Liquidate!InFlightPc
<1>3. CASE p.kind = "check"
  <2>1. Liquidate!End(r, "ended") /\ Liquidate!Show(r, "liquidatable")
    BY <1>3 DEF Liquidate!Enrich
  <2>2. "liquidatable" \in Liquidate!Shown \ {"idle", "checking", "absorbing"}
    BY DEF Liquidate!Shown
  <2>3. PICK q \in Liquidate!RunState :
           /\ LiqEnds(r, q, "liquidatable") /\ q.fate = p.fate
           /\ q.pc = IF q.fate = "none" THEN "ended" ELSE "ended"
    BY <1>1, <1>2, <2>1, <2>2, LiqEnd
  <2>4. moves = 0 => LiqDue(p.acct)
    BY <1>1 DEF LiqIInv, LiqResting
  <2> QED
    BY <1>1, <1>2, <2>3, <2>4, LiqRunEndsQuietly
<1>4. CASE p.kind # "check"
  <2>1. Liquidate!Step(r, "prepare") /\ UNCHANGED <<manual, row>>
    BY <1>4 DEF Liquidate!Enrich, Liquidate!shownVars
  <2>2. p.pc \in Liquidate!InFlightPc
    BY <1>1 DEF Liquidate!InFlightPc
  <2>3. PICK q \in Liquidate!RunState :
           /\ run' = [run EXCEPT ![r] = q] /\ LiqGoesOn(p, q)
           /\ q.pc = "prepare" /\ q.acct = p.acct /\ q.fate = p.fate /\ q.left = p.left
    BY <2>1, <2>2, LiqStep
  <2>4. LiqRunFits(q, under)
    BY <1>1, <1>2, <2>3 DEF LiqRunFits
  <2> QED
    BY <1>1, <2>1, <2>3, <2>4, LiqRunOnly
<1> QED
  BY <1>3, <1>4

LEMMA LiqPrepare ==
  ASSUME LiqIInv, NEW r \in Runs, Liquidate!Prepare(r)
  PROVE  LiqIInv'
<1> DEFINE p == run[r]
<1>1. /\ p.pc = "prepare" /\ p \in Liquidate!RunState /\ LiqRunFits(p, under)
      /\ UNCHANGED <<lane, under, moves, list, loading, scan, mixed, victim, crossed, manual, row>>
      /\ Liquidate!Step(r, "popup")
  BY DEF Liquidate!Prepare, Liquidate!Elsewhere, Liquidate!chainVars, Liquidate!tableVars, Liquidate!shownVars,
         LiqIInv, Liquidate!TypeOK
<1>2. p.fate = "none" /\ p.acct \in Accounts /\ p.pc \in Liquidate!InFlightPc
  BY <1>1 DEF LiqRunFits, Liquidate!InFlightPc
<1>3. PICK q \in Liquidate!RunState :
         /\ run' = [run EXCEPT ![r] = q] /\ LiqGoesOn(p, q)
         /\ q.pc = "popup" /\ q.acct = p.acct /\ q.fate = p.fate /\ q.left = p.left
  BY <1>1, <1>2, LiqStep
<1>4. LiqRunFits(q, under)
  BY <1>1, <1>2, <1>3 DEF LiqRunFits
<1> QED
  BY <1>1, <1>3, <1>4, LiqRunOnly

LEMMA LiqSign ==
  ASSUME LiqIInv, NEW r \in Runs, Liquidate!Sign(r)
  PROVE  LiqIInv'
<1> DEFINE p == run[r]
           q == [p EXCEPT !.pc = "sent", !.left = FALSE, !.fate = "pending"]
<1>1. /\ p.pc = "popup" /\ p \in Liquidate!RunState /\ LiqRunFits(p, under)
      /\ UNCHANGED <<lane, under, moves, list, loading, scan, mixed, victim, crossed, manual, row>>
      /\ run' = [run EXCEPT ![r] = q]
  BY DEF Liquidate!Sign, Liquidate!Elsewhere, Liquidate!chainVars, Liquidate!tableVars, Liquidate!shownVars,
         LiqIInv, Liquidate!TypeOK
<1>2. p.fate = "none" /\ p.acct \in Accounts /\ p.pc \in Liquidate!InFlightPc
  BY <1>1 DEF LiqRunFits, Liquidate!InFlightPc
<1>3. /\ q \in Liquidate!RunState /\ q.pc = "sent" /\ q.fate = "pending"
      /\ q.acct = p.acct /\ q.place = p.place
  BY <1>1 DEF Liquidate!RunState, Liquidate!InFlightPc
<1> HIDE DEF q
<1>4. LiqRunFits(q, under) /\ LiqGoesOn(p, q)
  BY <1>2, <1>3 DEF LiqRunFits, LiqGoesOn, Liquidate!InFlightPc
<1> QED
  BY <1>1, <1>3, <1>4, LiqRunOnly

(* A wallet replaces a transaction, of a run that waits for it or gave up on it.     *)
LEMMA LiqReplace ==
  ASSUME LiqIInv, NEW r \in Runs, Liquidate!Replace(r)
  PROVE  LiqIInv'
<1> DEFINE p == run[r]
           q == [p EXCEPT !.fate = "void"]
<1>1. /\ p.fate = "pending" /\ p \in Liquidate!RunState /\ LiqRunFits(p, under)
      /\ UNCHANGED <<lane, under, moves, list, loading, scan, mixed, victim, crossed, manual, row>>
      /\ run' = [run EXCEPT ![r] = q]
  BY DEF Liquidate!Replace, Liquidate!Elsewhere, Liquidate!chainVars, Liquidate!tableVars, Liquidate!shownVars,
         LiqIInv, Liquidate!TypeOK
<1>2. p.pc \in {"sent", "failed"}
  BY <1>1 DEF LiqRunFits, Liquidate!RunState, Liquidate!InFlightPc
<1>3. /\ q \in Liquidate!RunState /\ q.pc = p.pc /\ q.fate = "void"
      /\ q.acct = p.acct /\ q.place = p.place
  BY <1>1 DEF Liquidate!RunState
<1> HIDE DEF q
<1>4. LiqRunFits(q, under) /\ LiqGoesOn(p, q)
  BY <1>1, <1>2, <1>3 DEF LiqRunFits, LiqGoesOn, Liquidate!InFlightPc
<1> QED
  BY <1>1, <1>2, <1>3, <1>4, LiqRunOnly

LEMMA LiqFail ==
  ASSUME LiqIInv, NEW r \in Runs, Liquidate!Fail(r)
  PROVE  LiqIInv'
<1> DEFINE p == run[r]
<1>1. /\ Liquidate!Running(r) /\ Liquidate!End(r, "failed") /\ Liquidate!Show(r, "error")
      /\ UNCHANGED <<lane, under, moves, list, loading, scan, mixed, victim, crossed>>
  BY DEF Liquidate!Fail, Liquidate!Elsewhere, Liquidate!chainVars, Liquidate!tableVars
<1>2. "error" \in Liquidate!Shown \ {"idle", "checking", "absorbing"}
  BY DEF Liquidate!Shown
<1>3. PICK q \in Liquidate!RunState :
         /\ LiqEnds(r, q, "error") /\ q.fate = p.fate
         /\ q.pc = IF q.fate = "none" THEN "ended" ELSE "failed"
  BY <1>1, <1>2, LiqEnd
<1> QED
  BY <1>1, <1>3, LiqRunEndsQuietly

(* A success begins the one scan that runs, or the scans overlap.                *)
LEMMA LiqSucceed ==
  ASSUME LiqIInv, NEW r \in Runs, Liquidate!Succeed(r)
  PROVE  LiqIInv'
<1> DEFINE p == run[r]
<1>1. /\ p.pc = "sent" /\ p.fate # "pending" /\ p \in Liquidate!RunState /\ LiqRunFits(p, under)
      /\ lane = "solana" => p.fate = "absorbed"
      /\ Liquidate!End(r, "ended") /\ Liquidate!Show(r, "success")
      /\ UNCHANGED <<lane, under, moves, victim, crossed>>
  BY DEF Liquidate!Succeed, Liquidate!Elsewhere, Liquidate!chainVars, LiqIInv, Liquidate!TypeOK
<1>2. /\ p.fate \notin {"none", "pending"} /\ Liquidate!Settled(r) /\ Liquidate!Running(r)
      /\ "success" \in Liquidate!Shown \ {"idle", "checking", "absorbing"}
  BY <1>1 DEF LiqRunFits, Liquidate!Settled, Liquidate!Running, Liquidate!InFlightPc, Liquidate!Shown
<1>3. PICK q \in Liquidate!RunState :
         /\ LiqEnds(r, q, "success") /\ q.fate = p.fate
         /\ q.pc = IF q.fate = "none" THEN "ended" ELSE "ended"
  BY <1>1, <1>2, LiqEnd
<1>4. PICK s \in Scans, cand \in SUBSET Visible : scan' = [scan EXCEPT ![s] = Liquidate!NewScan(cand)]
  BY DEF Liquidate!Succeed, Liquidate!StartScan
<1>5. /\ mixed' = (mixed \/ \E t \in Scans : Liquidate!Scanning(t))
      /\ loading' = TRUE /\ list' = list
  BY DEF Liquidate!Succeed, Liquidate!StartScan
<1> DEFINE n == Liquidate!NewScan(cand)
<1>6. n \in Liquidate!ScanState /\ n.pc = "probe" /\ n.found = {}
  BY LiquidateAssumption DEF Liquidate!NewScan, Liquidate!IdleScan, Liquidate!ScanState
<1>7. n = Liquidate!NewScan(cand)
  OBVIOUS
<1> HIDE DEF n
<1>8. /\ scan' \in [Scans -> Liquidate!ScanState] /\ scan'[s] = n
      /\ \A x \in Scans \ {s} : scan'[x] = scan[x]
  BY <1>4, <1>6, <1>7, LiqScanBecomes DEF LiqIInv
<1>9. mixed' \in BOOLEAN /\ list' \subseteq Accounts /\ loading' \in BOOLEAN
  BY <1>5, Zenon DEF LiqIInv, Liquidate!TypeOK
<1>10. /\ Liquidate!Scanning(s)'
       /\ ~mixed' => \A x \in Scans : Liquidate!Scanning(x)' => x = s
  BY <1>5, <1>6, <1>8 DEF Liquidate!Scanning
<1>11. LiqScans'
  BY <1>10 DEF LiqScans
<1>12. LiqDropped'
  BY <1>6, <1>8, <1>10 DEF LiqDropped
<1>13. moves = 0 /\ lane = "solana" => p.acct \notin under
  BY <1>1 DEF LiqIInv, LiqResting
<1>14. q.pc = "ended" /\ q.fate # "pending" /\ p.fate # "none"
  BY <1>2, <1>3
<1> QED
  BY <1>1, <1>3, <1>8, <1>9, <1>10, <1>11, <1>12, <1>13, <1>14, LiqRunEnds

-----------------------------------------------------------------------------
(* The chain.                                                              *)

(* Some accounts leave the water: the runs that asked about one, and have not         *)
(* sent their transaction, remember it.                                       *)
LEMMA LiqLeave ==
  ASSUME LiqIInv, NEW S, NEW runs \in [Runs -> Liquidate!RunState], Liquidate!Leave(S, runs)
  PROVE  /\ run' \in [Runs -> Liquidate!RunState] /\ under' = under \ S
         /\ \A x \in Runs : /\ run'[x].pc = runs[x].pc /\ run'[x].acct = runs[x].acct
                            /\ run'[x].place = runs[x].place /\ run'[x].fate = runs[x].fate
                            /\ LiqRunFits(runs[x], under) => LiqRunFits(run'[x], under')
<1>1. under' = under \ S
  BY DEF Liquidate!Leave
<1>2. run' = [x \in Runs |->
               IF runs[x].acct \in S /\ runs[x].pc \in {"enrich", "prepare", "popup"}
               THEN [runs[x] EXCEPT !.left = TRUE] ELSE runs[x]]
  BY DEF Liquidate!Leave
<1>3. ASSUME NEW x \in Runs
      PROVE  /\ run'[x] \in Liquidate!RunState
             /\ run'[x].pc = runs[x].pc /\ run'[x].acct = runs[x].acct
             /\ run'[x].place = runs[x].place /\ run'[x].fate = runs[x].fate
             /\ LiqRunFits(runs[x], under) => LiqRunFits(run'[x], under')
  <2>1. runs[x] \in Liquidate!RunState
    OBVIOUS
  <2>2. CASE runs[x].acct \in S /\ runs[x].pc \in {"enrich", "prepare", "popup"}
    <3> DEFINE q == [runs[x] EXCEPT !.left = TRUE]
    <3>1. run'[x] = q
      BY <1>2, <2>2
    <3>2. /\ q \in Liquidate!RunState /\ q.pc = runs[x].pc /\ q.acct = runs[x].acct
          /\ q.place = runs[x].place /\ q.fate = runs[x].fate /\ q.left = TRUE
      BY <2>1 DEF Liquidate!RunState
    <3> HIDE DEF q
    <3>3. LiqRunFits(runs[x], under) => LiqRunFits(q, under')
      BY <3>2 DEF LiqRunFits
    <3> QED
      BY <3>1, <3>2, <3>3
  <2>3. CASE ~(runs[x].acct \in S /\ runs[x].pc \in {"enrich", "prepare", "popup"})
    <3>1. run'[x] = runs[x]
      BY <1>2, <2>3
    <3>2. LiqRunFits(runs[x], under) => LiqRunFits(runs[x], under')
      BY <1>1, <2>3 DEF LiqRunFits
    <3> QED
      BY <2>1, <3>1, <3>2
  <2> QED
    BY <2>2, <2>3
<1> QED
  <2>1. run' \in [Runs -> Liquidate!RunState]
    BY <1>2, <1>3
  <2> QED
    BY <1>1, <1>3, <2>1

LEMMA LiqExecute ==
  ASSUME LiqIInv, NEW r \in Runs, Liquidate!Execute(r)
  PROVE  LiqIInv'
<1> DEFINE p == run[r]
           v == IF p.acct \in under THEN "absorbed" ELSE "void"
           q == [p EXCEPT !.fate = v]
           runs == [run EXCEPT ![r] = q]
<1>1. /\ p.fate = "pending" /\ p \in Liquidate!RunState /\ LiqRunFits(p, under)
      /\ UNCHANGED <<lane, moves, list, loading, scan, mixed, victim, crossed, manual, row>>
      /\ Liquidate!TypeOK
  BY DEF Liquidate!Execute, Liquidate!tableVars, Liquidate!shownVars, LiqIInv, Liquidate!TypeOK
<1>2. Liquidate!Leave(under \cap {p.acct}, runs)
  BY DEF Liquidate!Execute
<1>3. p.pc \in {"sent", "failed"}
  BY <1>1 DEF LiqRunFits, Liquidate!RunState, Liquidate!InFlightPc
<1>4. /\ v \in {"absorbed", "void"}
      /\ v = "absorbed" <=> p.acct \in under
  OBVIOUS
<1> HIDE DEF v
<1>5. /\ q \in Liquidate!RunState /\ q.pc = p.pc /\ q.fate = v
      /\ q.acct = p.acct /\ q.place = p.place
  BY <1>1, <1>4 DEF Liquidate!RunState
<1> HIDE DEF q
<1>6. /\ runs \in [Runs -> Liquidate!RunState] /\ runs[r] = q
      /\ \A x \in Runs \ {r} : runs[x] = run[x]
  BY <1>1, <1>5 DEF Liquidate!TypeOK
<1> HIDE DEF runs
<1>7. /\ run' \in [Runs -> Liquidate!RunState] /\ under' = under \ (under \cap {p.acct})
      /\ \A x \in Runs : /\ run'[x].pc = runs[x].pc /\ run'[x].acct = runs[x].acct
                         /\ run'[x].place = runs[x].place /\ run'[x].fate = runs[x].fate
                         /\ LiqRunFits(runs[x], under) => LiqRunFits(run'[x], under')
  BY <1>2, <1>6, LiqLeave
<1>8. \A x \in Runs : /\ run'[x].pc = run[x].pc /\ run'[x].acct = run[x].acct
                      /\ run'[x].place = run[x].place
                      /\ x # r => run'[x].fate = run[x].fate
  BY <1>5, <1>6, <1>7
<1>9. run'[r].fate = v
  BY <1>5, <1>6, <1>7
<1>10. \A x \in Runs : LiqGoesOn(run[x], run'[x])
  BY <1>1, <1>8 DEF LiqGoesOn
<1>11. Liquidate!BusyMeansRunning' /\ Liquidate!AbsorbedIsSettled' /\ LiqAbout'
  BY <1>1, <1>10, LiqShownStays
<1>12. Liquidate!TypeOK'
  BY <1>1, <1>7 DEF Liquidate!TypeOK
<1>13. \A x \in Runs : LiqRunFits(run[x], under)'
  <2>1. LiqRunFits(q, under)
    BY <1>1, <1>3, <1>4, <1>5 DEF LiqRunFits, Liquidate!InFlightPc
  <2>2. \A x \in Runs : LiqRunFits(runs[x], under)
    BY <1>6, <2>1 DEF LiqIInv
  <2> QED
    BY <1>7, <2>2
<1>14. \A a : LiqDue(a) => LiqDue(a)'
  <2> SUFFICES ASSUME NEW a, LiqDue(a) PROVE a \in under' \/ \E x \in Runs : run'[x].acct = a /\ run'[x].fate = "absorbed"
    BY DEF LiqDue
  <2>1. CASE a \in under /\ a # p.acct
    BY <1>7, <2>1
  <2>2. CASE a \in under /\ a = p.acct
    BY <1>4, <1>8, <1>9, <2>2
  <2>3. CASE \E x \in Runs : run[x].acct = a /\ run[x].fate = "absorbed"
    BY <1>1, <1>8, <2>3
  <2> QED
    BY <2>1, <2>2, <2>3 DEF LiqDue
<1>15. under' \subseteq under /\ p.acct \notin under'
  BY <1>7
<1>16. LiqResting'
  <2> SUFFICES ASSUME moves = 0 PROVE LiqResting'
    BY <1>1 DEF LiqResting
  <2>1. \A x \in Runs : run'[x].fate = "absorbed" => run'[x].acct \notin under'
    BY <1>8, <1>15 DEF LiqIInv, LiqResting
  <2>2. (\A x \in Runs : run[x].pc = "enrich" => LiqDue(run[x].acct))'
    BY <1>8, <1>14 DEF LiqIInv, LiqResting
  <2>3. /\ manual.phase = "healthy" => manual.about \notin under'
        /\ manual.phase = "success" /\ lane = "solana" => manual.about \notin under'
        /\ manual.phase = "liquidatable" => LiqDue(manual.about)'
    BY <1>1, <1>14, <1>15 DEF LiqIInv, LiqResting
  <2> QED
    BY <1>1, <2>1, <2>2, <2>3 DEF LiqResting
<1>17. LiqScans' /\ LiqDropped'
  BY <1>1, <1>3, <1>8 DEF LiqIInv, LiqScans, LiqDropped, Liquidate!Scanning
<1> QED
  BY <1>11, <1>12, <1>13, <1>16, <1>17 DEF LiqIInv

(* The market moves an account: from then on nothing is claimed of its being at rest.  *)
LEMMA LiqMove ==
  ASSUME LiqIInv, NEW a \in Movers, Liquidate!Move(a)
  PROVE  LiqIInv'
<1>1. /\ moves' = moves + 1 /\ moves \in Nat /\ a \in Accounts /\ Liquidate!TypeOK
      /\ UNCHANGED <<lane, list, loading, scan, mixed, victim, crossed, manual, row>>
  BY LiquidateAssumption DEF Liquidate!Move, Liquidate!tableVars, Liquidate!shownVars, LiqIInv, Liquidate!TypeOK
<1>2. moves' \in Nat /\ moves' # 0
  BY <1>1
<1>3. LiqResting' /\ LiqDropped'
  BY <1>2 DEF LiqResting, LiqDropped
<1>4. LiqScans'
  BY <1>1 DEF LiqIInv, LiqScans, Liquidate!Scanning
<1>5. CASE a \in under
  <2>1. Liquidate!Leave({a}, run) /\ run \in [Runs -> Liquidate!RunState]
    BY <1>1, <1>5 DEF Liquidate!Move, Liquidate!TypeOK
  <2>2. /\ run' \in [Runs -> Liquidate!RunState] /\ under' = under \ {a}
        /\ \A x \in Runs : /\ run'[x].pc = run[x].pc /\ run'[x].acct = run[x].acct
                           /\ run'[x].place = run[x].place /\ run'[x].fate = run[x].fate
                           /\ LiqRunFits(run[x], under) => LiqRunFits(run'[x], under')
    BY <2>1, LiqLeave
  <2>3. \A x \in Runs : LiqGoesOn(run[x], run'[x])
    BY <2>2 DEF LiqGoesOn
  <2>4. Liquidate!BusyMeansRunning' /\ Liquidate!AbsorbedIsSettled' /\ LiqAbout'
    BY <1>1, <2>3, LiqShownStays
  <2>5. Liquidate!TypeOK'
    BY <1>1, <1>2, <2>2 DEF Liquidate!TypeOK
  <2>6. \A x \in Runs : LiqRunFits(run[x], under)'
    BY <2>2 DEF LiqIInv
  <2> QED
    BY <1>3, <1>4, <2>4, <2>5, <2>6 DEF LiqIInv
<1>6. CASE a \notin under
  <2>1. under' = under \cup {a} /\ run' = run
    BY <1>6 DEF Liquidate!Move
  <2>2. \A x \in Runs : LiqGoesOn(run[x], run'[x])
    BY <2>1 DEF LiqGoesOn
  <2>3. Liquidate!BusyMeansRunning' /\ Liquidate!AbsorbedIsSettled' /\ LiqAbout'
    BY <1>1, <2>2, LiqShownStays
  <2>4. Liquidate!TypeOK'
    BY <1>1, <1>2, <2>1 DEF Liquidate!TypeOK
  <2>5. \A x \in Runs : LiqRunFits(run[x], under)'
    BY <2>1 DEF LiqIInv, LiqRunFits
  <2> QED
    BY <1>3, <1>4, <2>3, <2>4, <2>5 DEF LiqIInv
<1> QED
  BY <1>5, <1>6

LEMMA LiqNext == LiqIInv /\ (Liquidate!Next \/ UNCHANGED <<lane, liquidateVars>>) => LiqIInv'
<1> SUFFICES ASSUME LiqIInv, Liquidate!Next \/ UNCHANGED <<lane, liquidateVars>> PROVE LiqIInv'
  OBVIOUS
<1>1. ASSUME Liquidate!UserStep PROVE LiqIInv'
  <2>1. ASSUME NEW r \in Runs, NEW a \in Accounts, Liquidate!AbsorbRow(r, a) PROVE LiqIInv'
    BY <2>1, LiqAbsorbRow
  <2>2. ASSUME NEW r \in Runs, Liquidate!AbsorbManual(r) PROVE LiqIInv'
    BY <2>2, LiqManual DEF Liquidate!AbsorbManual
  <2>3. ASSUME NEW r \in Runs, Liquidate!CheckManual(r) PROVE LiqIInv'
    BY <2>3, LiqManual DEF Liquidate!CheckManual
  <2>4. ASSUME NEW a \in Accounts \cup {NoAddress}, Liquidate!Edit(a) PROVE LiqIInv'
    BY <2>4, LiqEdit
  <2> QED
    BY <1>1, <2>1, <2>2, <2>3, <2>4 DEF Liquidate!UserStep
<1>2. ASSUME NEW s \in Scans, Liquidate!ScanStep(s) PROVE LiqIInv'
  <2>1. ASSUME NEW a \in Accounts, Liquidate!ScanProbe(s, a) PROVE LiqIInv'
    BY <2>1, LiqProbe
  <2> QED
    BY <1>2, <2>1, LiqDelivers, LiqScanFails DEF Liquidate!ScanStep
<1>3. ASSUME NEW r \in Runs, Liquidate!RunStep(r) PROVE LiqIInv'
  BY <1>3, LiqAskComet, LiqEnrich, LiqPrepare, LiqSign, LiqSucceed, LiqFail DEF Liquidate!RunStep
<1>4. ASSUME NEW r \in Runs, Liquidate!Execute(r) \/ Liquidate!Replace(r) PROVE LiqIInv'
  BY <1>4, LiqExecute, LiqReplace
<1>5. ASSUME NEW a \in Movers, Liquidate!Move(a) PROVE LiqIInv'
  BY <1>5, LiqMove
<1>6. ASSUME UNCHANGED <<lane, liquidateVars>> PROVE LiqIInv'
  <2>1. UNCHANGED <<lane, under, moves, list, loading, scan, mixed, victim, manual, crossed, row, run>>
    BY <1>6 DEF liquidateVars
  <2>2. LiqScans' /\ loading' = loading
    BY <2>1 DEF LiqIInv, LiqScans, Liquidate!Scanning
  <2>3. LiqDropped'
    BY <2>1 DEF LiqIInv, LiqDropped, Liquidate!Scanning
  <2>4. loading' => \E s \in Scans : Liquidate!Scanning(s)'
    BY <2>1 DEF LiqIInv, Liquidate!BusyMeansRunning, Liquidate!Scanning
  <2> QED
    BY <2>1, <2>2, <2>3, <2>4, LiqTableOnly DEF LiqIInv, Liquidate!TypeOK
<1> QED
  BY <1>1, <1>2, <1>3, <1>4, <1>5, <1>6 DEF Liquidate!Next

LEMMA LiqFollows ==
  LiqIInv => /\ Liquidate!BusyMeansRunning /\ Liquidate!AbsorbedIsSettled
             /\ Liquidate!HealthySinceCheck /\ Liquidate!AnswerIsAboutAddress /\ Liquidate!AbsorbedDropsOff
<1> SUFFICES ASSUME LiqIInv
             PROVE  Liquidate!HealthySinceCheck /\ Liquidate!AnswerIsAboutAddress /\ Liquidate!AbsorbedDropsOff
  BY DEF LiqIInv
<1>1. Liquidate!HealthySinceCheck
  BY DEF LiqIInv, LiqRunFits, Liquidate!HealthySinceCheck
<1>2. Liquidate!AbsorbedDropsOff
  BY DEF LiqIInv, LiqDropped, Liquidate!AbsorbedDropsOff
<1>3. Liquidate!AnswerIsAboutAddress
  <2>1. /\ Liquidate!Banner = "absorb would revert" => manual.phase = "healthy"
        /\ Liquidate!Banner = "absorb will seize collateral" => manual.phase = "liquidatable"
        /\ Liquidate!Banner = "debt cleared" => manual.phase = "success"
        /\ manual.phase = "idle" => Liquidate!Banner = "none"
    BY DEF Liquidate!Banner
  <2> DEFINE b == Liquidate!Banner
  <2>2. b # "none" /\ ~crossed => manual.about = victim
    BY <2>1 DEF LiqIInv, LiqAbout
  <2>3. moves = 0 =>
          /\ b = "absorb would revert" => manual.about \notin under
          /\ b = "absorb will seize collateral" =>
               manual.about \in under \/ \E r \in Runs : run[r].acct = manual.about /\ run[r].fate = "absorbed"
          /\ b = "debt cleared" => (lane = "solana" => manual.about \notin under)
    BY <2>1 DEF LiqIInv, LiqResting, LiqDue
  <2>4. b = Liquidate!Banner
    OBVIOUS
  <2> HIDE DEF b
  <2> QED
    BY <2>2, <2>3, <2>4 DEF Liquidate!AnswerIsAboutAddress
<1> QED
  BY <1>1, <1>2, <1>3

-----------------------------------------------------------------------------
(* The table of accounts, for any Comets, positions, prices, factors and scans.    *)

ListScanState ==
  [pc : {"idle", "probe", "enrich", "over", "failed"}, of : Starts \cup Resolved \cup {"none"},
   found : SUBSET Debtors, stale : BOOLEAN]
ListWorld == [Listing!Comets -> [Debtors -> [debt : Nat, bal : [Colls -> Nat]]]]

ListTyped ==
  /\ comet \in Starts \cup Resolved /\ pos \in ListWorld /\ price \in [Colls -> Nat]
  /\ scans \in [Calls -> ListScanState]
  /\ filter \in [threshold : Nat, minSize : Nat]
  /\ absorb \in [pc : {"idle", "check", "sent", "over"}, acct : Debtors \cup {"none"},
                 of : Starts \cup Resolved \cup {"none"}]
  /\ blurred \in BOOLEAN /\ told \in BOOLEAN
  /\ \A x \in table : x.acct \in Debtors

(* What is under way is of the Comet that is shown, and what a scan found is all      *)
(* there was, unless the history says otherwise.                               *)
ListAgrees ==
  ~blurred =>
    /\ \A s \in Calls : Listing!InFlight(s) => scans[s].of = comet
    /\ absorb.pc \in {"check", "sent"} => absorb.of = comet
    /\ \A s \in Calls : scans[s].pc = "enrich" /\ ~scans[s].stale => scans[s].found = Listing!Under(scans[s].of)

(* The table after a whole scan.                                              *)
ListEntry(k, a) == [acct |-> a, of |-> k, info |-> Listing!Info(k, a)]
ListWhole == told => table = {ListEntry(comet, a) : a \in Listing!Under(comet)}

ListIInv == ListTyped /\ ListAgrees /\ Listing!ListIsOfComet /\ ListWhole

(* The sum is the library's, whichever module names it.                          *)
LEMMA ListSum == ASSUME NEW f, NEW S PROVE Listing!SumFunctionOnSet(f, S) = SumFunctionOnSet(f, S)
BY DEF Listing!SumFunctionOnSet, Listing!FoldFunctionOnSet, Listing!MapThenFoldSet,
       SumFunctionOnSet, FoldFunctionOnSet, MapThenFoldSet

(* A position at fixed prices: it is worth what it is, until a step changes it.     *)
LEMMA ListWorthType ==
  ASSUME ListTyped, NEW k \in Listing!Comets, NEW a \in Debtors, NEW factor \in [Colls -> Nat]
  PROVE  Listing!Worth(k, a, factor) \in Nat
<1> DEFINE f == [c \in Colls |-> pos[k][a].bal[c] * price[c] * factor[c]]
<1>1. /\ pos[k][a].bal \in [Colls -> Nat] /\ price \in [Colls -> Nat]
  BY DEF ListTyped, ListWorld
<1>2. \A c \in Colls : f[c] \in Nat
  <2>1. ASSUME NEW i \in Nat, NEW j \in Nat, NEW l \in Nat PROVE i * j * l \in Nat
    OBVIOUS
  <2> QED
    BY <1>1, <2>1
<1>3. DOMAIN f = Colls /\ Listing!Worth(k, a, factor) = Listing!SumFunction(f)
  BY DEF Listing!Worth
<1> HIDE DEF f
<1>4. Summable(f, Colls)
  BY <1>2, ListingAssumption DEF Summable
<1>5. Listing!SumFunction(f) = SumFunctionOnSet(f, Colls)
  BY <1>3, ListSum DEF Listing!SumFunction
<1> QED
  BY <1>2, <1>3, <1>4, <1>5, SumNat

(* Who is under water, and the figures of an account, are of positions and prices.   *)
LEMMA ListSameWorld ==
  ASSUME UNCHANGED <<pos, price>>
  PROVE  /\ \A k : Listing!Under(k)' = Listing!Under(k)
         /\ \A k, a : ListEntry(k, a)' = ListEntry(k, a)
<1>1. \A k, a, factor : Listing!Worth(k, a, factor)' = Listing!Worth(k, a, factor)
  BY DEF Listing!Worth
<1>2. \A k, a : Listing!Liquidatable(k, a)' = Listing!Liquidatable(k, a)
  BY <1>1 DEF Listing!Liquidatable
<1>3. \A k : Listing!Under(k)' = Listing!Under(k)
  BY <1>2 DEF Listing!Under
<1>4. \A k, a : ListEntry(k, a)' = ListEntry(k, a)
  BY <1>1 DEF ListEntry, Listing!Info
<1> QED
  BY <1>3, <1>4

LEMMA ListInit == Listing!Init => ListIInv
<1> SUFFICES ASSUME Listing!Init PROVE ListIInv
  OBVIOUS
<1> DEFINE t == CHOOSE s \in Calls : TRUE
           fresh == [Listing!NoScan EXCEPT !.pc = "probe", !.of = comet]
           none == Listing!NoScan
<1>1. /\ comet \in Starts /\ pos \in Worlds /\ price \in PriceSets /\ table = {}
      /\ blurred = FALSE /\ told = FALSE
      /\ absorb = [pc |-> "idle", acct |-> "none", of |-> "none"]
      /\ filter = [threshold |-> 100, minSize |-> 0]
      /\ scans = [s \in Calls |-> IF comet # "none" /\ s = t THEN fresh ELSE none]
  BY DEF Listing!Init, Listing!NoRun, Listing!Default
<1>2. /\ fresh \in ListScanState /\ fresh.pc = "probe" /\ fresh.of = comet
      /\ none \in ListScanState /\ none.pc = "idle"
  BY <1>1 DEF Listing!NoScan, ListScanState
<1> HIDE DEF t, fresh, none
<1>3. scans \in [Calls -> ListScanState]
  BY <1>1, <1>2
<1>4. ListTyped
  BY <1>1, <1>3, ListingAssumption DEF ListTyped, ListWorld, Listing!Comets
<1>5. \A s \in Calls : Listing!InFlight(s) => scans[s].pc = "probe" /\ scans[s].of = comet
  BY <1>1, <1>2 DEF Listing!InFlight
<1>6. ListAgrees
  BY <1>1, <1>5 DEF ListAgrees, Listing!InFlight
<1> QED
  BY <1>1, <1>4, <1>6 DEF ListIInv, ListWhole, Listing!ListIsOfComet

LEMMA ListScanBecomes ==
  ASSUME ListTyped, NEW s \in Calls, NEW q, scans' = [scans EXCEPT ![s] = q]
  PROVE  /\ scans'[s] = q /\ \A x \in Calls \ {s} : scans'[x] = scans[x]
         /\ q \in ListScanState => scans' \in [Calls -> ListScanState]
BY DEF ListTyped

LEMMA ListRefresh ==
  ASSUME ListTyped, NEW k \in Starts \cup Resolved \cup {"none"}, Listing!Refresh(k)
  PROVE  /\ scans' \in [Calls -> ListScanState]
         /\ \E s \in Calls : /\ scans'[s].pc = "probe" /\ scans'[s].of = k
                             /\ \A x \in Calls \ {s} : scans'[x] = scans[x]
<1>1. PICK s \in Calls : scans' = [scans EXCEPT ![s] = [Listing!NoScan EXCEPT !.pc = "probe", !.of = k]]
  BY DEF Listing!Refresh
<1> DEFINE q == [Listing!NoScan EXCEPT !.pc = "probe", !.of = k]
<1>2. q \in ListScanState /\ q.pc = "probe" /\ q.of = k
  BY DEF Listing!NoScan, ListScanState
<1>3. scans' = [scans EXCEPT ![s] = q]
  BY <1>1
<1> HIDE DEF q
<1> QED
  BY <1>2, <1>3, ListScanBecomes

(* The effect on another Comet: what was under way before it counts no more.        *)
LEMMA ListChainResolves ==
  ASSUME ListIInv, NEW k \in Resolved, Listing!ChainResolves(k)
  PROVE  ListIInv'
<1>1. /\ comet' = k /\ told' = FALSE /\ Listing!Refresh(k)
      /\ blurred' = (blurred \/ Listing!Overlaps \/ absorb.pc \in {"check", "sent"})
      /\ UNCHANGED <<pos, price, filter, absorb, table>>
  BY DEF Listing!ChainResolves, Listing!worldVars, Listing!viewVars
<1>2. ListTyped
  BY DEF ListIInv
<1>3. PICK s \in Calls : /\ scans'[s].pc = "probe" /\ scans'[s].of = k
                         /\ \A x \in Calls \ {s} : scans'[x] = scans[x]
  BY <1>1, <1>2, ListRefresh
<1>4. scans' \in [Calls -> ListScanState]
  BY <1>1, <1>2, ListRefresh
<1>5. blurred' \in BOOLEAN
  BY <1>1, <1>2, Zenon DEF ListTyped
<1>6. ListTyped'
  BY <1>1, <1>2, <1>4, <1>5 DEF ListTyped, ListWorld
<1>7. ~blurred' => /\ \A x \in Calls : ~Listing!InFlight(x)
                   /\ absorb.pc \notin {"check", "sent"}
  BY <1>1 DEF Listing!Overlaps
<1>8. ListAgrees'
  BY <1>1, <1>3, <1>7 DEF ListAgrees, Listing!InFlight
<1>9. Listing!ListIsOfComet'
  BY <1>3 DEF Listing!ListIsOfComet
<1>10. ListWhole'
  BY <1>1 DEF ListWhole
<1> QED
  BY <1>6, <1>8, <1>9, <1>10 DEF ListIInv

LEMMA ListProbe ==
  ASSUME ListIInv, NEW s \in Calls, Listing!Probe(s)
  PROVE  ListIInv'
<1> DEFINE p == scans[s]
           under0 == Listing!Under(p.of)
<1>1. /\ p.pc = "probe" /\ UNCHANGED <<comet, pos, price, filter, absorb, table, blurred, told>>
  BY DEF Listing!Probe, Listing!worldVars, Listing!viewVars
<1> DEFINE Probed(found) == [p EXCEPT !.pc = "enrich", !.found = found, !.stale = p.stale \/ found # under0]
<1>2. PICK found \in SUBSET under0 : scans' = [scans EXCEPT ![s] = Probed(found)]
  <2> DEFINE card == Listing!Cardinality(under0)
             some == Listing!kSubset(IF card < MaxEnrich THEN card ELSE MaxEnrich, under0)
  <2>1. PICK found \in some : scans' = [scans EXCEPT ![s] = Probed(found)]
    BY Zenon DEF Listing!Probe
  <2>2. some \subseteq SUBSET under0
    BY DEF Listing!kSubset
  <2> HIDE DEF some, Probed
  <2> QED
    BY <2>1, <2>2
<1>3. ListTyped /\ p \in ListScanState /\ under0 \subseteq Debtors
  BY DEF ListIInv, ListTyped, Listing!Under
<1>4. under0 = Listing!Under(p.of)
  OBVIOUS
<1> DEFINE b == p.stale \/ found # under0
           q == [p EXCEPT !.pc = "enrich", !.found = found, !.stale = b]
<1>5. scans' = [scans EXCEPT ![s] = q]
  BY <1>2, <1>3 DEF ListTyped, ListScanState
<1>6. b \in BOOLEAN /\ (~b => found = under0)
  BY <1>3, Zenon DEF ListScanState
<1> HIDE DEF b, under0
<1>7. q \in ListScanState /\ q.pc = "enrich" /\ q.found = found /\ q.stale = b /\ q.of = p.of
  BY <1>3, <1>6 DEF ListScanState
<1> HIDE DEF q
<1>8. /\ scans' \in [Calls -> ListScanState] /\ scans'[s] = q
      /\ \A x \in Calls \ {s} : scans'[x] = scans[x]
  BY <1>3, <1>5, <1>7, ListScanBecomes
<1>9. /\ \A k : Listing!Under(k)' = Listing!Under(k)
      /\ \A k, a : ListEntry(k, a)' = ListEntry(k, a)
  BY <1>1, ListSameWorld
<1>10. ListTyped'
  BY <1>1, <1>3, <1>8 DEF ListTyped, ListWorld
<1>11. ListAgrees'
  <2> SUFFICES ASSUME ~blurred PROVE ListAgrees'
    BY <1>1 DEF ListAgrees
  <2>1. \A x \in Calls : Listing!InFlight(x)' => scans'[x].of = comet
    BY <1>1, <1>7, <1>8 DEF ListIInv, ListAgrees, Listing!InFlight
  <2>2. ASSUME NEW x \in Calls, scans'[x].pc = "enrich", ~scans'[x].stale
        PROVE  scans'[x].found = Listing!Under(scans'[x].of)
    BY <1>4, <1>6, <1>7, <1>8, <2>2 DEF ListIInv, ListAgrees
  <2>3. absorb.pc \in {"check", "sent"} => absorb.of = comet
    BY DEF ListIInv, ListAgrees
  <2> QED
    BY <1>1, <1>9, <2>1, <2>2, <2>3 DEF ListAgrees
<1>12. Listing!ListIsOfComet'
  BY <1>7, <1>8 DEF Listing!ListIsOfComet
<1>13. ListWhole'
  BY <1>1, <1>9 DEF ListIInv, ListWhole
<1> QED
  BY <1>10, <1>11, <1>12, <1>13 DEF ListIInv

LEMMA ListDelivers ==
  ASSUME ListIInv, NEW s \in Calls, Listing!Delivers(s)
  PROVE  ListIInv'
<1> DEFINE p == scans[s]
           q == [Listing!NoScan EXCEPT !.pc = "over"]
<1>1. /\ p.pc = "enrich" /\ told' = (~blurred /\ ~p.stale)
      /\ table' = {ListEntry(p.of, a) : a \in p.found}
      /\ scans' = [scans EXCEPT ![s] = q]
      /\ UNCHANGED <<comet, pos, price, filter, absorb, blurred>>
  BY DEF Listing!Delivers, Listing!worldVars, Listing!viewVars, ListEntry
<1>2. ListTyped
  BY DEF ListIInv
<1>3. q \in ListScanState /\ q.pc = "over"
  BY DEF Listing!NoScan, ListScanState
<1> HIDE DEF q
<1>4. /\ scans' \in [Calls -> ListScanState] /\ scans'[s] = q
      /\ \A x \in Calls \ {s} : scans'[x] = scans[x]
  BY <1>1, <1>2, <1>3, ListScanBecomes
<1>5. /\ \A k : Listing!Under(k)' = Listing!Under(k)
      /\ \A k, a : ListEntry(k, a)' = ListEntry(k, a)
  BY <1>1, ListSameWorld
<1>6. told' \in BOOLEAN
  BY <1>1, Zenon
<1>7. ListTyped'
  <2>1. p.found \subseteq Debtors
    BY <1>2 DEF ListTyped, ListScanState
  <2>2. \A x \in table' : x.acct \in Debtors
    BY <1>1, <2>1 DEF ListEntry
  <2> QED
    BY <1>1, <1>2, <1>4, <1>6, <2>2 DEF ListTyped, ListWorld
<1>8. ListAgrees'
  <2> SUFFICES ASSUME ~blurred PROVE ListAgrees'
    BY <1>1 DEF ListAgrees
  <2>1. \A x \in Calls : Listing!InFlight(x)' => scans'[x].of = comet
    BY <1>3, <1>4 DEF ListIInv, ListAgrees, Listing!InFlight
  <2>2. \A x \in Calls : scans'[x].pc = "enrich" /\ ~scans'[x].stale => scans'[x].found = Listing!Under(scans'[x].of)
    BY <1>3, <1>4 DEF ListIInv, ListAgrees
  <2>3. absorb.pc \in {"check", "sent"} => absorb.of = comet
    BY DEF ListIInv, ListAgrees
  <2> QED
    BY <1>1, <1>5, <2>1, <2>2, <2>3 DEF ListAgrees
<1>9. ~blurred => p.of = comet /\ (~p.stale => p.found = Listing!Under(comet))
  BY <1>1 DEF ListIInv, ListAgrees, Listing!InFlight
<1>10. Listing!ListIsOfComet'
  <2>1. \A x \in table' : x.of = p.of
    BY <1>1 DEF ListEntry
  <2> QED
    BY <1>1, <1>9, <2>1 DEF Listing!ListIsOfComet
<1>11. ListWhole'
  <2>1. told' => table' = {ListEntry(comet, a) : a \in Listing!Under(comet)}
    BY <1>1, <1>9
  <2> QED
    BY <1>1, <1>5, <2>1 DEF ListWhole
<1> QED
  BY <1>7, <1>8, <1>10, <1>11 DEF ListIInv

LEMMA ListScanFails ==
  ASSUME ListIInv, NEW s \in Calls, Listing!ScanFails(s)
  PROVE  ListIInv'
<1> DEFINE q == [Listing!NoScan EXCEPT !.pc = "failed"]
<1>1. /\ scans' = [scans EXCEPT ![s] = q]
      /\ UNCHANGED <<comet, pos, price, filter, absorb, blurred, table, told>>
  BY DEF Listing!ScanFails, Listing!worldVars, Listing!viewVars
<1>2. ListTyped
  BY DEF ListIInv
<1>3. q \in ListScanState /\ q.pc = "failed"
  BY DEF Listing!NoScan, ListScanState
<1> HIDE DEF q
<1>4. /\ scans' \in [Calls -> ListScanState] /\ scans'[s] = q
      /\ \A x \in Calls \ {s} : scans'[x] = scans[x]
  BY <1>1, <1>2, <1>3, ListScanBecomes
<1>5. /\ \A k : Listing!Under(k)' = Listing!Under(k)
      /\ \A k, a : ListEntry(k, a)' = ListEntry(k, a)
  BY <1>1, ListSameWorld
<1>6. ListTyped'
  BY <1>1, <1>2, <1>4 DEF ListTyped, ListWorld
<1>7. ListAgrees'
  BY <1>1, <1>3, <1>4, <1>5 DEF ListIInv, ListAgrees, Listing!InFlight
<1>8. Listing!ListIsOfComet'
  BY <1>3, <1>4 DEF Listing!ListIsOfComet
<1>9. ListWhole'
  BY <1>1, <1>5 DEF ListIInv, ListWhole
<1> QED
  BY <1>6, <1>7, <1>8, <1>9 DEF ListIInv

(* A step of the controls and of an absorb before it lands: the table, the scans and  *)
(* the market stay.                                                        *)
LEMMA ListControls ==
  ASSUME ListIInv, UNCHANGED <<comet, pos, price, table, scans, blurred, told>>,
         filter' \in [threshold : Nat, minSize : Nat],
         absorb' \in [pc : {"idle", "check", "sent", "over"}, acct : Debtors \cup {"none"},
                      of : Starts \cup Resolved \cup {"none"}],
         absorb'.pc \in {"check", "sent"} /\ ~blurred => absorb'.of = comet
  PROVE  ListIInv'
<1>1. /\ \A k : Listing!Under(k)' = Listing!Under(k)
      /\ \A k, a : ListEntry(k, a)' = ListEntry(k, a)
  BY ListSameWorld
<1>2. ListTyped'
  BY DEF ListIInv, ListTyped, ListWorld
<1>3. ListAgrees'
  BY <1>1 DEF ListIInv, ListAgrees, Listing!InFlight
<1>4. Listing!ListIsOfComet'
  BY DEF ListIInv, Listing!ListIsOfComet
<1>5. ListWhole'
  BY <1>1 DEF ListIInv, ListWhole
<1> QED
  BY <1>2, <1>3, <1>4, <1>5 DEF ListIInv

LEMMA ListView ==
  ASSUME ListIInv, Listing!SetFilter \/ Listing!Connect
  PROVE  ListIInv'
<1>1. UNCHANGED <<comet, pos, price, table, scans, absorb, blurred, told>>
  BY DEF Listing!SetFilter, Listing!Connect, Listing!worldVars
<1>2. ListTyped
  BY DEF ListIInv
<1>3. filter' \in [threshold : Nat, minSize : Nat]
  <2>1. ASSUME NEW v \in Thresholds, filter' = [filter EXCEPT !.threshold = v]
        PROVE  filter' \in [threshold : Nat, minSize : Nat]
    BY <1>2, <2>1, ListingAssumption DEF ListTyped
  <2>2. ASSUME NEW v \in MinSizes, filter' = [filter EXCEPT !.minSize = v]
        PROVE  filter' \in [threshold : Nat, minSize : Nat]
    BY <1>2, <2>2, ListingAssumption DEF ListTyped
  <2> QED
    BY <1>2, <2>1, <2>2 DEF Listing!SetFilter, Listing!Connect, ListTyped
<1>4. absorb.pc \in {"check", "sent"} /\ ~blurred => absorb.of = comet
  BY DEF ListIInv, ListAgrees
<1> QED
  BY <1>1, <1>2, <1>3, <1>4, ListControls DEF ListTyped

LEMMA ListAbsorb ==
  ASSUME ListIInv, NEW x \in Listing!Rows, Listing!Absorb(x)
  PROVE  ListIInv'
<1>1. /\ UNCHANGED <<comet, pos, price, table, scans, filter, blurred, told>>
      /\ absorb' = [pc |-> "check", acct |-> x.acct, of |-> comet]
  BY DEF Listing!Absorb, Listing!worldVars, Listing!viewVars
<1>2. ListTyped /\ x.acct \in Debtors
  BY DEF ListIInv, ListTyped, Listing!Rows
<1>3. /\ absorb' \in [pc : {"idle", "check", "sent", "over"}, acct : Debtors \cup {"none"},
                      of : Starts \cup Resolved \cup {"none"}]
      /\ absorb'.of = comet
  BY <1>1, <1>2 DEF ListTyped
<1> QED
  BY <1>1, <1>2, <1>3, ListControls DEF ListTyped

LEMMA ListCheckOrFail ==
  ASSUME ListIInv, Listing!Check \/ Listing!Fail
  PROVE  ListIInv'
<1>1. ListTyped
  BY DEF ListIInv
<1>2. PICK pc \in {"sent", "over"} : absorb' = [absorb EXCEPT !.pc = pc]
  BY DEF Listing!Check, Listing!Fail
<1>3. /\ absorb.pc \in {"check", "sent"}
      /\ UNCHANGED <<comet, pos, price, table, scans, filter, blurred, told>>
  BY DEF Listing!Check, Listing!Fail, Listing!worldVars, Listing!viewVars
<1>4. /\ absorb' \in [pc : {"idle", "check", "sent", "over"}, acct : Debtors \cup {"none"},
                      of : Starts \cup Resolved \cup {"none"}]
      /\ absorb'.of = absorb.of
  BY <1>1, <1>2 DEF ListTyped
<1>5. ~blurred => absorb.of = comet
  BY <1>3 DEF ListIInv, ListAgrees
<1> QED
  BY <1>1, <1>3, <1>4, <1>5, ListControls DEF ListTyped

(* An absorb lands: the table tells nothing of it until the scan it begins is back.    *)
LEMMA ListSucceed ==
  ASSUME ListIInv, Listing!Succeed
  PROVE  ListIInv'
<1> DEFINE k == absorb.of
           a == absorb.acct
           clean == [debt |-> 0, bal |-> [c \in Colls |-> 0]]
<1>1. /\ absorb.pc = "sent" /\ a \in Listing!Under(k)
      /\ pos' = [pos EXCEPT ![k][a] = clean]
      /\ absorb' = [absorb EXCEPT !.pc = "over"]
      /\ Listing!Refresh(k) /\ told' = FALSE
      /\ blurred' = (blurred \/ Listing!Overlaps)
      /\ UNCHANGED <<comet, price, filter, table>>
  BY DEF Listing!Succeed, Listing!viewVars
<1>2. ListTyped
  BY DEF ListIInv
<1>3. k \in Listing!Comets /\ a \in Debtors
  BY <1>1, <1>2 DEF ListTyped, Listing!Under, Listing!Comets
<1>4. pos' \in ListWorld
  <2>1. clean \in [debt : Nat, bal : [Colls -> Nat]]
    OBVIOUS
  <2> HIDE DEF clean
  <2> QED
    BY <1>1, <1>2, <1>3, <2>1 DEF ListTyped, ListWorld
<1>5. PICK s \in Calls : /\ scans'[s].pc = "probe" /\ scans'[s].of = k
                         /\ \A x \in Calls \ {s} : scans'[x] = scans[x]
  BY <1>1, <1>2, <1>3, ListRefresh DEF Listing!Comets
<1>6. scans' \in [Calls -> ListScanState]
  BY <1>1, <1>2, <1>3, ListRefresh DEF Listing!Comets
<1>7. blurred' \in BOOLEAN
  BY <1>1, <1>2, Zenon DEF ListTyped
<1>8. /\ absorb' \in [pc : {"idle", "check", "sent", "over"}, acct : Debtors \cup {"none"},
                      of : Starts \cup Resolved \cup {"none"}]
      /\ absorb'.pc = "over"
  BY <1>1, <1>2 DEF ListTyped
<1>9. ListTyped'
  BY <1>1, <1>2, <1>4, <1>6, <1>7, <1>8 DEF ListTyped
<1>10. ~blurred' => k = comet /\ \A x \in Calls : ~Listing!InFlight(x)
  BY <1>1 DEF ListIInv, ListAgrees, Listing!Overlaps
<1>11. ListAgrees'
  BY <1>1, <1>5, <1>8, <1>10 DEF ListAgrees, Listing!InFlight
<1>12. Listing!ListIsOfComet'
  BY <1>5 DEF Listing!ListIsOfComet
<1>13. ListWhole'
  BY <1>1 DEF ListWhole
<1> QED
  BY <1>9, <1>11, <1>12, <1>13 DEF ListIInv

(* Prices move: a scan that has already asked is stale.                          *)
LEMMA ListMove ==
  ASSUME ListIInv, Listing!Move
  PROVE  ListIInv'
<1>1. /\ UNCHANGED <<comet, pos, table, filter, absorb, blurred>> /\ told' = FALSE
      /\ price' \in PriceSets
      /\ scans' = [s \in Calls |-> [scans[s] EXCEPT !.stale = Listing!InFlight(s)]]
  BY DEF Listing!Move, Listing!viewVars
<1>2. ListTyped
  BY DEF ListIInv
<1>3. ASSUME NEW s \in Calls
      PROVE  /\ scans'[s] \in ListScanState
             /\ scans'[s].pc = scans[s].pc /\ scans'[s].of = scans[s].of
             /\ scans'[s].stale = Listing!InFlight(s)
  <2> DEFINE b == Listing!InFlight(s)
  <2>1. b \in BOOLEAN /\ b = Listing!InFlight(s)
    BY DEF Listing!InFlight
  <2> HIDE DEF b
  <2>2. scans'[s] = [scans[s] EXCEPT !.stale = b] /\ scans[s] \in ListScanState
    BY <1>1, <1>2, <2>1 DEF ListTyped
  <2>3. /\ scans'[s] \in ListScanState /\ scans'[s].pc = scans[s].pc
        /\ scans'[s].of = scans[s].of /\ scans'[s].stale = b
    BY <2>1, <2>2 DEF ListScanState
  <2> QED
    BY <2>1, <2>3
<1>4. ListTyped'
  <2>1. scans' \in [Calls -> ListScanState]
    BY <1>1, <1>3
  <2> QED
    BY <1>1, <1>2, <2>1, ListingAssumption DEF ListTyped, ListWorld
<1>5. ListAgrees'
  <2>1. \A s \in Calls : ~(scans'[s].pc = "enrich" /\ ~scans'[s].stale)
    BY <1>3 DEF Listing!InFlight
  <2> QED
    BY <1>1, <1>3, <2>1 DEF ListIInv, ListAgrees, Listing!InFlight
<1>6. Listing!ListIsOfComet'
  BY <1>1, <1>3 DEF ListIInv, Listing!ListIsOfComet
<1>7. ListWhole'
  BY <1>1 DEF ListWhole
<1> QED
  BY <1>4, <1>5, <1>6, <1>7 DEF ListIInv

LEMMA ListNext == ListIInv /\ (ListingNext \/ UNCHANGED listingVars) => ListIInv'
<1> SUFFICES ASSUME ListIInv, ListingNext \/ UNCHANGED listingVars PROVE ListIInv'
  OBVIOUS
<1>1. ASSUME UNCHANGED listingVars PROVE ListIInv'
  <2>1. ListTyped /\ UNCHANGED <<comet, pos, price, table, scans, filter, absorb, blurred, told>>
    BY <1>1 DEF listingVars, ListIInv
  <2>2. absorb.pc \in {"check", "sent"} /\ ~blurred => absorb.of = comet
    BY DEF ListIInv, ListAgrees
  <2> QED
    BY <2>1, <2>2, ListControls DEF ListTyped
<1>2. ASSUME NEW k \in Resolved, Listing!ChainResolves(k) PROVE ListIInv'
  BY <1>2, ListChainResolves
<1>3. ASSUME NEW s \in Calls, Listing!Probe(s) \/ Listing!Delivers(s) \/ Listing!ScanFails(s) PROVE ListIInv'
  BY <1>3, ListProbe, ListDelivers, ListScanFails
<1>4. ASSUME NEW x \in Listing!Rows, Listing!Absorb(x) PROVE ListIInv'
  BY <1>4, ListAbsorb
<1> QED
  BY <1>1, <1>2, <1>3, <1>4, ListView, ListCheckOrFail, ListSucceed, ListMove DEF ListingNext, Listing!Next

(* After a whole scan, an account passes the filter just if its health and its debt do:  *)
(* one that is under water has a debt, so that it has a health.                     *)
LEMMA ListFollows == ListIInv => Listing!ListingIsRight
<1> SUFFICES ASSUME ListIInv PROVE told => Listing!TableTells
  BY Zenon DEF ListIInv, Listing!ListingIsRight, Listing!TableTells
<1> SUFFICES ASSUME told PROVE Listing!TableTells
  OBVIOUS
<1> DEFINE dry == Listing!Under(comet)
           W(a) == Listing!Worth(comet, a, AbsorbFactor)
           debt(a) == pos[comet][a].debt
           passing == {a \in dry : W(a) <= filter.threshold * debt(a)}
<1>1. ListTyped /\ table = {ListEntry(comet, a) : a \in dry}
  BY DEF ListIInv, ListWhole
<1>2. ASSUME NEW a \in dry
      PROVE  /\ comet \in Listing!Comets /\ a \in Debtors
             /\ W(a) \in Nat /\ debt(a) \in Nat /\ debt(a) > 0
  <2>1. /\ comet \in Listing!Comets /\ a \in Debtors
        /\ debt(a) * 100 > Listing!Worth(comet, a, LiquidateFactor)
    BY <1>1 DEF ListTyped, Listing!Under, Listing!Comets, Listing!Liquidatable
  <2>2. debt(a) \in Nat
    BY <1>1, <2>1 DEF ListTyped, ListWorld
  <2>3. W(a) \in Nat /\ Listing!Worth(comet, a, LiquidateFactor) \in Nat
    BY <1>1, <2>1, ListWorthType, ListingAssumption
  <2> HIDE DEF debt, W
  <2> QED
    BY <2>1, <2>2, <2>3
<1>3. ASSUME NEW a \in dry
      PROVE  /\ Listing!Kept(ListEntry(comet, a).info)
                  <=> W(a) <= filter.threshold * debt(a) /\ 100 * debt(a) >= filter.minSize
             /\ ListEntry(comet, a).acct = a
  <2>1. /\ ListEntry(comet, a).acct = a
        /\ ListEntry(comet, a).info.debt = 100 * debt(a)
        /\ ListEntry(comet, a).info.health.n = W(a)
        /\ ListEntry(comet, a).info.health.d = 100 * debt(a)
    BY DEF ListEntry, Listing!Info
  <2>2. filter.threshold \in Nat /\ filter.minSize \in Nat
    BY <1>1 DEF ListTyped
  <2>3. W(a) \in Nat /\ debt(a) \in Nat /\ debt(a) > 0
    BY <1>2
  <2> HIDE DEF debt, W
  <2>4. ASSUME NEW w \in Nat, NEW d \in Nat, NEW v \in Nat
        PROVE  100 * w <= v * (100 * d) <=> w <= v * d
    <3>1. v * d \in Nat /\ v * (100 * d) = 100 * (v * d)
      OBVIOUS
    <3> QED
      BY <3>1
  <2>5. 100 * debt(a) # 0
    BY <2>3
  <2>6. 100 * W(a) <= filter.threshold * (100 * debt(a)) <=> W(a) <= filter.threshold * debt(a)
    BY <2>2, <2>3, <2>4
  <2> QED
    BY <2>1, <2>5, <2>6 DEF Listing!Kept
<1> HIDE DEF W, debt, dry
<1>4. Listing!Rows = {x \in table : Listing!Kept(x.info)}
  BY DEF Listing!Rows
<1>5. {x.acct : x \in Listing!Rows} = {a \in passing : 100 * debt(a) >= filter.minSize}
  BY <1>1, <1>3, <1>4
<1>6. \A a \in passing : a \in dry
  OBVIOUS
<1>7. passing = {a \in dry : W(a) <= filter.threshold * debt(a)}
  OBVIOUS
<1> HIDE DEF passing
<1>8. ASSUME NEW b \in dry, filter.minSize = 0 PROVE 100 * debt(b) >= filter.minSize
  <2>1. debt(b) \in Nat
    BY <1>2
  <2> HIDE DEF debt
  <2> QED
    BY <1>8, <2>1
<1>9. filter.minSize = 0 => {x.acct : x \in Listing!Rows} = passing
  BY <1>5, <1>6, <1>8
<1>10. Listing!EmptyRow = "chain is healthy" => {x.acct : x \in Listing!Rows} = {}
  BY DEF Listing!EmptyRow
<1>11. Listing!EmptyRow = "chain is healthy" /\ filter.minSize = 0 => passing = {}
  BY <1>9, <1>10, Zenon
<1> QED
  BY <1>5, <1>7, <1>11, Zenon DEF Listing!TableTells, W, debt, dry

(* What else the table's page keeps: rows of known accounts and Comets, no more than      *)
(* MAX_ENRICH of them.                                                          *)
ListScanFits(s) ==
  scans[s].pc = "enrich" => /\ IsFiniteSet(scans[s].found) /\ Cardinality(scans[s].found) <= MaxEnrich
                            /\ scans[s].found # {} => scans[s].of \in Listing!Comets
ListRow(x) == x.acct \in Debtors /\ x.of \in Listing!Comets /\ x.info.debt >= 0
ListFits ==
  /\ price \in PriceSets /\ busyList \in BOOLEAN /\ gate \in BOOLEAN
  /\ filter \in [threshold : Thresholds, minSize : MinSizes]
  /\ marks \in [Debtors -> {"idle", "absorbing", "healthy", "success", "error"}]
  /\ \A s \in Calls : ListScanFits(s)
  /\ \A x \in table : ListRow(x)
  /\ IsFiniteSet(table) /\ Cardinality(table) <= MaxEnrich

LEMMA ListFitsInit == Listing!Init => ListFits
<1> SUFFICES ASSUME Listing!Init PROVE ListFits
  OBVIOUS
<1> DEFINE fresh == [Listing!NoScan EXCEPT !.pc = "probe", !.of = comet]
           t == CHOOSE s \in Calls : TRUE
<1>1. /\ price \in PriceSets /\ table = {} /\ gate \in BOOLEAN /\ marks = [a \in Debtors |-> "idle"]
      /\ filter = [threshold |-> 100, minSize |-> 0]
      /\ scans = [s \in Calls |-> IF comet # "none" /\ s = t THEN fresh ELSE Listing!NoScan]
  BY DEF Listing!Init, Listing!Default
<1>2. busyList \in BOOLEAN
  BY Zenon DEF Listing!Init
<1>3. fresh.pc = "probe" /\ Listing!NoScan.pc = "idle"
  BY DEF Listing!NoScan
<1> HIDE DEF fresh, t
<1>4. \A s \in Calls : ListScanFits(s)
  BY <1>1, <1>3 DEF ListScanFits
<1>5. IsFiniteSet(table) /\ Cardinality(table) <= MaxEnrich
  BY <1>1, FS_EmptySet, ListingAssumption
<1>6. filter \in [threshold : Thresholds, minSize : MinSizes]
  BY <1>1, ListingAssumption
<1>7. marks \in [Debtors -> {"idle", "absorbing", "healthy", "success", "error"}]
  BY <1>1
<1> QED
  BY <1>1, <1>2, <1>4, <1>5, <1>6, <1>7 DEF ListFits

(* Nothing of what the scans found, or of the rows, changes.                      *)
LEMMA ListRowsStay ==
  ASSUME ListFits, table' = table,
         \A s \in Calls : scans'[s].pc = "enrich" => scans[s].pc = "enrich" /\ scans'[s].found = scans[s].found
                                                     /\ scans'[s].of = scans[s].of
  PROVE  /\ \A s \in Calls : ListScanFits(s)'
         /\ (\A x \in table : ListRow(x))'
         /\ IsFiniteSet(table') /\ Cardinality(table') <= MaxEnrich
BY DEF ListFits, ListScanFits, ListRow, Listing!Comets

LEMMA ListRefreshFits ==
  ASSUME ListTyped, NEW k \in Starts \cup Resolved \cup {"none"}, Listing!Refresh(k)
  PROVE  /\ busyList' = TRUE
         /\ \A s \in Calls : scans'[s].pc = "enrich" => scans[s].pc = "enrich" /\ scans'[s].found = scans[s].found
                                                        /\ scans'[s].of = scans[s].of
<1>1. PICK s \in Calls : /\ scans'[s].pc = "probe" /\ scans'[s].of = k
                         /\ \A x \in Calls \ {s} : scans'[x] = scans[x]
  BY ListRefresh
<1> QED
  BY <1>1 DEF Listing!Refresh

LEMMA ListProbeFits ==
  ASSUME ListIInv, ListFits, NEW s \in Calls, Listing!Probe(s)
  PROVE  ListFits'
<1> DEFINE p == scans[s]
           under0 == Listing!Under(p.of)
           card == Listing!Cardinality(under0)
           many == IF card < MaxEnrich THEN card ELSE MaxEnrich
           Probed(found) == [p EXCEPT !.pc = "enrich", !.found = found, !.stale = p.stale \/ found # under0]
<1>1. UNCHANGED <<comet, price, table, busyList, filter, gate, marks>>
  BY DEF Listing!Probe, Listing!worldVars, Listing!viewVars
<1>2. PICK found \in SUBSET under0 : Listing!Cardinality(found) = many /\ scans' = [scans EXCEPT ![s] = Probed(found)]
  <2> DEFINE some == Listing!kSubset(many, under0)
  <2>1. PICK found \in some : scans' = [scans EXCEPT ![s] = Probed(found)]
    BY Zenon DEF Listing!Probe
  <2>2. some \subseteq SUBSET under0 /\ \A f \in some : Listing!Cardinality(f) = many
    BY DEF Listing!kSubset
  <2> HIDE DEF some, Probed, many
  <2> QED
    BY <2>1, <2>2
<1>3. /\ ListTyped /\ p \in ListScanState /\ under0 \subseteq Debtors
      /\ under0 # {} => p.of \in Listing!Comets
  BY DEF ListIInv, ListTyped, Listing!Under, ListScanState, Listing!Comets
<1>4. \A S : Listing!Cardinality(S) = Cardinality(S)
  BY DEF Listing!Cardinality, Cardinality
<1>5. IsFiniteSet(found) /\ Cardinality(found) <= MaxEnrich
  <2>1. IsFiniteSet(under0) /\ IsFiniteSet(found)
    BY <1>3, ListingAssumption, FS_Subset
  <2>2. card \in Nat
    BY <1>4, <2>1, FS_CardinalityType
  <2>3. many <= MaxEnrich
    BY <2>2, ListingAssumption
  <2> QED
    BY <1>2, <1>4, <2>1, <2>3
<1>6. /\ scans'[s].found = found /\ scans'[s].of = p.of
      /\ \A x \in Calls \ {s} : scans'[x] = scans[x]
  <2>1. Probed(found).found = found /\ Probed(found).of = p.of
    BY <1>3 DEF ListScanState
  <2> HIDE DEF Probed
  <2> QED
    BY <1>2, <1>3, <2>1 DEF ListTyped
<1>7. \A x \in Calls : ListScanFits(x)'
  BY <1>2, <1>3, <1>5, <1>6 DEF ListFits, ListScanFits, Listing!Comets
<1>8. (\A x \in table : ListRow(x))'
  BY <1>1 DEF ListFits, ListRow, Listing!Comets
<1> QED
  BY <1>1, <1>7, <1>8 DEF ListFits

LEMMA ListDeliversFits ==
  ASSUME ListIInv, ListFits, NEW s \in Calls, Listing!Delivers(s)
  PROVE  ListFits'
<1> DEFINE p == scans[s]
           q == [Listing!NoScan EXCEPT !.pc = "over"]
           g == [a \in p.found |-> ListEntry(p.of, a)]
<1>1. /\ p.pc = "enrich" /\ table' = {ListEntry(p.of, a) : a \in p.found}
      /\ scans' = [scans EXCEPT ![s] = q]
      /\ UNCHANGED <<price, filter, gate, marks>> /\ busyList' = FALSE
  BY DEF Listing!Delivers, Listing!worldVars, Listing!viewVars, ListEntry
<1>2. /\ ListTyped /\ p.found \subseteq Debtors /\ IsFiniteSet(p.found) /\ Cardinality(p.found) <= MaxEnrich
      /\ p.found # {} => p.of \in Listing!Comets
  BY <1>1 DEF ListIInv, ListTyped, ListScanState, ListFits, ListScanFits
<1>3. q.pc = "over"
  BY DEF Listing!NoScan
<1> HIDE DEF q
<1>4. \A x \in Calls : ListScanFits(x)'
  <2>1. scans'[s] = q /\ \A x \in Calls \ {s} : scans'[x] = scans[x]
    BY <1>1, <1>2, ListScanBecomes
  <2> QED
    BY <1>3, <2>1 DEF ListFits, ListScanFits, Listing!Comets
<1>5. (\A x \in table : ListRow(x))'
  <2>1. ASSUME NEW a \in p.found PROVE pos[p.of][a].debt \in Nat
    BY <1>2, <2>1 DEF ListTyped, ListWorld
  <2>2. \A x \in table' : x.acct \in Debtors /\ x.of \in Listing!Comets /\ x.info.debt >= 0
    BY <1>1, <1>2, <2>1 DEF ListEntry, Listing!Info
  <2> QED
    BY <2>2 DEF ListRow, Listing!Comets
<1>6. IsFiniteSet(table') /\ Cardinality(table') <= MaxEnrich
  <2>1. g \in Surjection(p.found, table')
    <3>1. table' = {g[a] : a \in p.found}
      BY <1>1
    <3> QED
      BY <3>1 DEF Surjection
  <2>2. IsFiniteSet(table') /\ Cardinality(table') <= Cardinality(p.found)
    BY <1>2, <2>1, FS_Surjection
  <2>3. Cardinality(table') \in Nat /\ Cardinality(p.found) \in Nat
    BY <1>2, <2>2, FS_CardinalityType
  <2> QED
    BY <1>2, <2>2, <2>3, ListingAssumption
<1> QED
  BY <1>1, <1>4, <1>5, <1>6 DEF ListFits

(* The steps that leave the scans' finds and the rows alone.                       *)
LEMMA ListRestFits ==
  ASSUME ListIInv, ListFits, Listing!Next,
         ~\E s \in Calls : Listing!Probe(s) \/ Listing!Delivers(s)
  PROVE  ListFits'
<1> DEFINE Stay == \A s \in Calls : scans'[s].pc = "enrich" => scans[s].pc = "enrich" /\ scans'[s].found = scans[s].found
                                                            /\ scans'[s].of = scans[s].of
           Marks == [Debtors -> {"idle", "absorbing", "healthy", "success", "error"}]
           Views == [threshold : Thresholds, minSize : MinSizes]
<1>1. ListTyped /\ marks \in Marks /\ filter \in Views /\ price \in PriceSets /\ busyList \in BOOLEAN /\ gate \in BOOLEAN
  BY DEF ListIInv, ListFits
<1>2. ASSUME table' = table, Stay, marks' \in Marks, filter' \in Views, price' \in PriceSets,
             busyList' \in BOOLEAN, gate' \in BOOLEAN
      PROVE  ListFits'
  BY <1>2, ListRowsStay DEF ListFits
<1>3. ASSUME NEW k \in Resolved, Listing!ChainResolves(k) PROVE ListFits'
  <2>1. Listing!Refresh(k) /\ UNCHANGED <<table, marks, filter, price, gate>>
    BY <1>3 DEF Listing!ChainResolves, Listing!worldVars, Listing!viewVars
  <2> QED
    BY <1>1, <1>2, <2>1, ListRefreshFits
<1>4. ASSUME NEW s \in Calls, Listing!ScanFails(s) PROVE ListFits'
  <2> DEFINE q == [Listing!NoScan EXCEPT !.pc = "failed"]
  <2>1. scans' = [scans EXCEPT ![s] = q] /\ busyList' = FALSE /\ UNCHANGED <<table, marks, filter, price, gate>>
    BY <1>4 DEF Listing!ScanFails, Listing!worldVars, Listing!viewVars
  <2>2. q.pc = "failed"
    BY DEF Listing!NoScan
  <2> HIDE DEF q
  <2>3. Stay
    BY <1>1, <2>1, <2>2, ListScanBecomes
  <2> HIDE DEF Stay
  <2> QED
    BY <1>1, <1>2, <2>1, <2>3
<1>5. ASSUME Listing!SetFilter \/ Listing!Connect PROVE ListFits'
  <2>1. UNCHANGED <<scans, table, marks, price, busyList>>
    BY <1>5 DEF Listing!SetFilter, Listing!Connect, Listing!worldVars
  <2>2. filter' \in Views
    BY <1>1, <1>5 DEF Listing!SetFilter, Listing!Connect
  <2>3. gate' \in BOOLEAN
    BY <1>1, <1>5 DEF Listing!SetFilter, Listing!Connect
  <2> QED
    BY <1>1, <1>2, <2>1, <2>2, <2>3
<1>6. ASSUME (\E x \in Listing!Rows : Listing!Absorb(x)) \/ Listing!Check \/ Listing!Fail PROVE ListFits'
  <2>1. UNCHANGED <<scans, table, filter, price, busyList, gate>>
    BY <1>6 DEF Listing!Absorb, Listing!Check, Listing!Fail, Listing!worldVars, Listing!viewVars
  <2>2. \/ marks' = marks
        \/ \E a, m : m \in {"absorbing", "healthy", "error"} /\ marks' = [marks EXCEPT ![a] = m]
    BY <1>6 DEF Listing!Absorb, Listing!Check, Listing!Fail
  <2>3. marks' \in Marks
    BY <1>1, <2>2
  <2> QED
    BY <1>1, <1>2, <2>1, <2>3
<1>7. ASSUME Listing!Succeed PROVE ListFits'
  <2>1. /\ Listing!Refresh(absorb.of) /\ UNCHANGED <<table, filter, price, gate>>
        /\ marks' = [marks EXCEPT ![absorb.acct] = "success"]
    BY <1>7 DEF Listing!Succeed, Listing!viewVars
  <2>2. absorb.of \in Starts \cup Resolved \cup {"none"}
    BY <1>1 DEF ListTyped
  <2>3. busyList' = TRUE /\ Stay
    BY <1>1, <2>1, <2>2, ListRefreshFits
  <2>4. marks' \in Marks
    BY <1>1, <2>1
  <2> HIDE DEF Stay
  <2> QED
    BY <1>1, <1>2, <2>1, <2>3, <2>4
<1>8. ASSUME Listing!Move PROVE ListFits'
  <2>1. /\ UNCHANGED <<table, marks, filter, busyList, gate>> /\ price' \in PriceSets
        /\ scans' = [s \in Calls |-> [scans[s] EXCEPT !.stale = Listing!InFlight(s)]]
    BY <1>8 DEF Listing!Move, Listing!viewVars
  <2>2. Stay
    BY <1>1, <2>1 DEF ListTyped, ListScanState
  <2> HIDE DEF Stay
  <2> QED
    BY <1>1, <1>2, <2>1, <2>2
<1> QED
  BY <1>3, <1>4, <1>5, <1>6, <1>7, <1>8 DEF Listing!Next

LEMMA ListFitsNext == ListIInv /\ ListFits /\ (ListingNext \/ UNCHANGED listingVars) => ListFits'
<1> SUFFICES ASSUME ListIInv, ListFits, ListingNext \/ UNCHANGED listingVars PROVE ListFits'
  OBVIOUS
<1>1. CASE UNCHANGED listingVars
  BY <1>1 DEF listingVars, ListFits, ListScanFits, ListRow, Listing!Comets
<1>2. CASE ListingNext
  BY <1>2, ListProbeFits, ListDeliversFits, ListRestFits DEF ListingNext
<1> QED
  BY <1>1, <1>2

LEMMA ListTypes == ListIInv /\ ListFits => Listing!ListTypeOK
<1> SUFFICES ASSUME ListIInv, ListFits PROVE Listing!ListTypeOK
  OBVIOUS
<1>1. Listing!Cardinality(table) = Cardinality(table)
  BY DEF Listing!Cardinality, Cardinality
<1>2. ListTyped
  BY DEF ListIInv
<1>3. DOMAIN pos = Listing!Comets /\ \A k \in Listing!Comets, a \in Debtors : pos[k][a].debt \in Nat
  BY <1>2 DEF ListTyped, ListWorld
<1>4. \A x \in table : x.acct \in Debtors /\ x.of \in Listing!Comets /\ x.info.debt >= 0
  BY DEF ListFits, ListRow
<1>5. /\ comet \in Starts \cup Resolved /\ absorb.pc \in {"idle", "check", "sent", "over"}
      /\ blurred \in BOOLEAN /\ told \in BOOLEAN
  BY <1>2 DEF ListTyped
<1> QED
  BY <1>1, <1>3, <1>4, <1>5 DEF ListFits, Listing!ListTypeOK

-----------------------------------------------------------------------------
(* LaneForm, for any list of collaterals and any amounts.                      *)

(* An amount in the field was typed for the selected asset, or the list        *)
(* changed under it; the action that is on is one of the selected asset's        *)
(* tabs, or it was on when the row came up.  Before there are rows, only a link     *)
(* to the base can ask for a borrow.                                           *)
FormInv ==
  /\ rows # {} => "base" \in rows
  /\ label["base"] = "name"
  /\ amount # 0 => rows # {} /\ (typedFor = Form!Sel \/ relisted)
  /\ rows # {} => carried \/ action \in Form!Tabs(Form!Sel)
  /\ rows = {} => \/ action \in {"supply", "withdraw"}
                  \/ action = "borrow" /\ selSym = <<"name", "base">>

FormIInv == Form!FormTypeOK /\ FormInv /\ Form!SubmitsWhatIsShown

(* The least of some positions is one of them.                                *)
LEMMA LeastPosition ==
  ASSUME NEW S \in SUBSET Nat, S # {}
  PROVE  Form!Min(S) \in S /\ \A y \in S : Form!Min(S) <= y
<1>1. PICK n \in S : \A y \in S : n <= y
  BY LeastOf
<1>2. QED BY <1>1 DEF Form!Min

LEMMA FormOrder ==
  /\ DOMAIN Form!Order \subseteq Nat
  /\ 1 \in DOMAIN Form!Order /\ Form!Order[1] = "base"
  /\ \A i \in DOMAIN Form!Order : i = 1 \/ Form!Order[i] \in Colls
  /\ "base" \in Form!Assets
<1>1. /\ DOMAIN Form!Order = 1 .. Len(FormList) + 1 /\ Len(FormList) \in Nat
      /\ Form!Order[1] = "base"
      /\ \A i \in 1 .. Len(FormList) + 1 : i # 1 => Form!Order[i] = FormList[i - 1] /\ i - 1 \in 1 .. Len(FormList)
  BY FormAssumption DEF Form!Order
<1>2. \A j \in 1 .. Len(FormList) : FormList[j] \in Colls
  BY FormAssumption
<1>3. QED BY <1>1, <1>2 DEF Form!Assets

(* The selection is a row; the base's own symbol selects the base.              *)
LEMMA FormSelects ==
  ASSUME NEW shownRows, NEW names, NEW sym, "base" \in shownRows, shownRows \subseteq Form!Assets
  PROVE  /\ Form!Selected(shownRows, names, sym) \in shownRows
         /\ names["base"] = "name" /\ sym = <<"name", "base">> => Form!Selected(shownRows, names, sym) = "base"
<1> DEFINE inList == {i \in DOMAIN Form!Order : Form!Order[i] \in shownRows}
           hitting == {i \in inList : Form!Sym(names, Form!Order[i]) = sym}
           pool == IF hitting # {} THEN hitting ELSE inList
<1>1. 1 \in inList /\ inList \subseteq Nat /\ pool \subseteq inList /\ pool # {}
  BY FormOrder
<1>2. Form!Min(pool) \in pool /\ \A y \in pool : Form!Min(pool) <= y
  BY <1>1, LeastPosition
<1>3. Form!Selected(shownRows, names, sym) = Form!Order[Form!Min(pool)]
  BY DEF Form!Selected
<1>4. Form!Selected(shownRows, names, sym) \in shownRows
  BY <1>1, <1>2, <1>3
<1>5. ASSUME names["base"] = "name", sym = <<"name", "base">>
      PROVE  Form!Selected(shownRows, names, sym) = "base"
  <2>1. 1 \in hitting
    BY <1>1, <1>5, FormOrder DEF Form!Sym
  <2>2. Form!Order[Form!Min(pool)] = "base"
    <3>1. Form!Min(pool) \in hitting
      BY <1>2, <2>1
    <3>2. Form!Sym(names, Form!Order[Form!Min(pool)]) = <<"name", "base">>
      BY <1>5, <3>1
    <3>3. QED BY <3>2 DEF Form!Sym
  <2>3. QED BY <1>3, <2>2
<1>6. QED BY <1>4, <1>5
LEMMA FormSym ==
  ASSUME NEW names \in [Form!Assets -> Form!Labels], NEW a \in Form!Assets
  PROVE  Form!Sym(names, a) \in Form!Symbols
BY FormOrder DEF Form!Sym, Form!Symbols

LEMMA FormNotSigning == Form!NotSigning \in Form!Submission
BY FormOrder DEF Form!NotSigning, Form!Submission

LEMMA FormInit == Form!Init => FormIInv
<1> SUFFICES ASSUME Form!Init PROVE FormIInv
  OBVIOUS
<1>1. /\ rows = {} /\ label \in [Form!Assets -> Form!Labels] /\ label["base"] = "name"
      /\ amount = 0 /\ signing = Form!NotSigning /\ connected = FALSE
      /\ typedFor = "base" /\ relisted = FALSE /\ carried = FALSE /\ reads = 0
  BY DEF Form!Init
<1>2. /\ selSym \in Form!Symbols
      /\ \/ action \in {"supply", "withdraw"}
         \/ action = "borrow" /\ selSym = <<"name", "base">>
  <2>1. CASE selSym = Form!NoSym /\ action = "supply"
    BY <2>1 DEF Form!Symbols
  <2>2. ASSUME NEW a \in Form!Assets, selSym \in {Form!Sym(label, a), <<"name", a>>}, action \in Form!Link(a)
        PROVE  <1>2
    <3>1. <<"name", a>> \in Form!Symbols
      BY DEF Form!Symbols, Form!Labels
    <3>2. a = "base" => Form!Sym(label, a) = <<"name", "base">>
      BY <1>1 DEF Form!Sym
    <3>3. QED BY <1>1, <2>2, <3>1, <3>2, FormSym DEF Form!Link
  <2>3. QED BY <2>1, <2>2 DEF Form!Init
<1>3. Form!FormTypeOK
  <2>1. signing \in Form!Submission
    BY <1>1, FormNotSigning
  <2>2. action \in Form!ActionType /\ amount \in Sums \cup {0} /\ reads \in 0 .. MaxReads
    BY <1>1, <1>2, FormAssumption DEF Form!ActionType
  <2>3. QED BY <1>1, <1>2, <2>1, <2>2, FormOrder DEF Form!FormTypeOK
<1>4. FormInv
  BY <1>1, <1>2 DEF FormInv
<1>5. Form!SubmitsWhatIsShown
  BY <1>1 DEF Form!SubmitsWhatIsShown
<1>6. QED BY <1>3, <1>4, <1>5 DEF FormIInv

(* Once there are rows, the selection is one of them, and an asset.            *)
LEMMA FormSelIsRow ==
  ASSUME FormIInv, rows # {}
  PROVE  Form!Sel \in rows /\ Form!Sel \in Form!Assets
BY FormSelects DEF FormIInv, FormInv, Form!FormTypeOK, Form!Sel

(* A read may move the selection, which the two histories note.                *)
LEMMA FormReads == ASSUME FormIInv, Form!Read PROVE FormIInv'
<1>1. /\ rows' \subseteq Form!Assets /\ label' \in [Form!Assets -> Form!Labels] /\ label'["base"] = "name"
      /\ rows' # {} => "base" \in rows'
      /\ rows # {} => rows' # {}
  BY DEF Form!Read, FormIInv, FormInv, Form!FormTypeOK
<1>2. UNCHANGED <<selSym, action, amount, signing, connected, typedFor>> /\ reads' \in 0 .. MaxReads
  BY FormAssumption DEF Form!Read, FormIInv, Form!FormTypeOK
<1> DEFINE was == Form!Sel
           is == Form!Selected(rows', label', selSym)
           moved == rows # {} /\ is # was
<1>3. relisted' = (relisted \/ (moved /\ amount > 0)) /\ carried' = (carried \/ moved)
  BY DEF Form!Read
<1>4. is = Form!Sel'
  BY <1>2 DEF Form!Sel
<1>5. rows' # {} /\ rows = {} /\ selSym = <<"name", "base">> => is = "base"
  BY <1>1, FormSelects
<1>6. relisted' \in BOOLEAN /\ carried' \in BOOLEAN
  BY <1>3
<1>7. Form!FormTypeOK'
  BY <1>1, <1>2, <1>6 DEF FormIInv, Form!FormTypeOK
<1>8. amount \in Nat /\ (amount # 0 => amount > 0)
  BY FormAssumption DEF FormIInv, Form!FormTypeOK
<1> HIDE DEF is, was
<1>9. amount' # 0 => rows' # {} /\ (typedFor' = Form!Sel' \/ relisted')
  BY <1>1, <1>2, <1>3, <1>4, <1>8 DEF FormIInv, FormInv, was
<1>10. rows' # {} => carried' \/ action' \in Form!Tabs(is)
  <2>1. CASE rows = {}
    <3>1. Form!Tabs("base") = Form!ActionType /\ {"supply", "withdraw"} \subseteq Form!Tabs(is)
      BY DEF Form!Tabs, Form!ActionType
    <3>2. QED BY <1>2, <1>5, <2>1, <3>1 DEF FormIInv, FormInv, Form!ActionType
  <2>2. CASE rows # {}
    BY <1>1, <1>2, <1>3, <2>2 DEF FormIInv, FormInv, was
  <2>3. QED BY <2>1, <2>2
<1>11. FormInv'
  <2>1. (rows # {} => carried \/ action \in Form!Tabs(Form!Sel))'
    BY <1>4, <1>10 DEF Form!Tabs
  <2>2. QED BY <1>1, <1>2, <1>9, <2>1 DEF FormIInv, FormInv
<1>12. Form!SubmitsWhatIsShown'
  BY <1>2 DEF FormIInv, Form!SubmitsWhatIsShown, Form!Tabs, Form!Moved
<1>13. QED BY <1>7, <1>11, <1>12 DEF FormIInv

(* A click on a row clears the amount and keeps the action.                     *)
LEMMA FormClicksRow == ASSUME FormIInv, NEW a \in Form!Assets, Form!ClickRow(a) PROVE FormIInv'
<1>1. /\ rows # {} /\ selSym' = Form!Sym(label, a) /\ amount' = 0 /\ relisted' = FALSE
      /\ carried' = (carried \/ Form!Selected(rows, label, selSym') # Form!Sel)
      /\ UNCHANGED <<rows, label, action, signing, connected, typedFor, reads>>
  BY DEF Form!ClickRow, Form!Shown
<1>2. Form!Selected(rows, label, selSym') = Form!Sel'
  BY <1>1 DEF Form!Sel
<1>3. selSym' \in Form!Symbols
  BY <1>1, FormSym DEF FormIInv, Form!FormTypeOK
<1>4. Form!FormTypeOK'
  BY <1>1, <1>3 DEF FormIInv, Form!FormTypeOK
<1>5. FormInv'
  <2>1. (rows # {} => carried \/ action \in Form!Tabs(Form!Sel))'
    BY <1>1, <1>2 DEF FormIInv, FormInv, Form!Tabs
  <2>2. QED BY <1>1, <2>1 DEF FormIInv, FormInv
<1>6. Form!SubmitsWhatIsShown'
  BY <1>1 DEF FormIInv, Form!SubmitsWhatIsShown, Form!Tabs, Form!Moved
<1>7. QED BY <1>4, <1>5, <1>6 DEF FormIInv

(* The tabs, the field and the button.                                         *)
LEMMA FormEdits ==
  ASSUME FormIInv,
         \/ \E t \in Form!ActionType : Form!ClickTab(t)
         \/ \E n \in Sums : Form!Type(n)
  PROVE  FormIInv'
<1>1. rows # {} /\ UNCHANGED <<rows, label, selSym, signing, connected, reads>>
  BY DEF Form!ClickTab, Form!Type, Form!PanelShown, Form!Shown
<1>2. Form!Sel' = Form!Sel
  BY <1>1 DEF Form!Sel
<1>3. Form!Sel \in Form!Assets
  BY <1>1, FormSelIsRow
<1>4. Form!SubmitsWhatIsShown'
  BY <1>1 DEF FormIInv, Form!SubmitsWhatIsShown, Form!Tabs, Form!Moved
<1>5. ASSUME NEW t \in Form!ActionType, Form!ClickTab(t)
      PROVE  FormIInv'
  <2>1. action' = t /\ t \in Form!Tabs(Form!Sel) /\ carried' = FALSE /\ UNCHANGED <<amount, typedFor, relisted>>
    BY <1>5 DEF Form!ClickTab
  <2>2. Form!FormTypeOK'
    BY <1>1, <2>1 DEF FormIInv, Form!FormTypeOK
  <2>3. (rows # {} => carried \/ action \in Form!Tabs(Form!Sel))'
    BY <1>2, <2>1 DEF Form!Tabs
  <2>4. FormInv'
    BY <1>1, <1>2, <2>1, <2>3 DEF FormIInv, FormInv
  <2>5. QED BY <1>4, <2>2, <2>4 DEF FormIInv
<1>6. ASSUME NEW n \in Sums, Form!Type(n)
      PROVE  FormIInv'
  <2>1. amount' = n /\ typedFor' = Form!Sel /\ relisted' = FALSE /\ UNCHANGED <<action, carried>>
    BY <1>6 DEF Form!Type
  <2>2. Form!FormTypeOK'
    BY <1>1, <1>3, <2>1 DEF FormIInv, Form!FormTypeOK
  <2>3. (rows # {} => carried \/ action \in Form!Tabs(Form!Sel))'
    BY <1>1, <1>2, <2>1 DEF FormIInv, FormInv, Form!Tabs
  <2>4. FormInv'
    BY <1>1, <1>2, <2>1, <2>3 DEF FormIInv, FormInv
  <2>5. QED BY <1>4, <2>2, <2>4 DEF FormIInv
<1>7. QED BY <1>5, <1>6

(* What is handed over is what the invariant says of the form.                 *)
LEMMA FormSubmits == ASSUME FormIInv, Form!Submit PROVE FormIInv'
<1>1. /\ rows # {} /\ amount > 0 /\ (action = "repay" => Form!Sel = "base")
      /\ UNCHANGED <<rows, label, selSym, action, amount, connected, typedFor, relisted, carried, reads>>
  BY DEF Form!Submit, Form!PanelShown, Form!Shown
<1>2. signing' = [what |-> action, asset |-> Form!Sel, amt |-> amount, for |-> typedFor,
                  relisted |-> relisted, carried |-> carried]
  BY DEF Form!Submit
<1>3. Form!Sel' = Form!Sel /\ Form!Sel \in Form!Assets
  BY <1>1, FormSelIsRow DEF Form!Sel
<1>4. Form!FormTypeOK'
  <2>1. signing' \in Form!Submission
    BY <1>1, <1>2, <1>3 DEF FormIInv, Form!FormTypeOK, Form!Submission
  <2>2. QED BY <1>1, <2>1 DEF FormIInv, Form!FormTypeOK
<1>5. FormInv'
  <2>1. (rows # {} => carried \/ action \in Form!Tabs(Form!Sel))'
    BY <1>1, <1>3 DEF FormIInv, FormInv, Form!Tabs
  <2>2. QED BY <1>1, <1>3, <2>1 DEF FormIInv, FormInv
<1>6. /\ typedFor = Form!Sel \/ relisted
      /\ carried \/ action \in Form!Tabs(Form!Sel)
      /\ action \in Form!ActionType
  BY <1>1, FormAssumption DEF FormIInv, FormInv, Form!FormTypeOK
<1>7. /\ signing'.for = signing'.asset \/ signing'.relisted
      /\ \/ signing'.what \in Form!Tabs(signing'.asset) /\ Form!Moved' = signing'.asset
         \/ signing'.carried /\ signing'.what = "borrow"
  BY <1>1, <1>2, <1>6 DEF Form!Tabs, Form!ActionType, Form!Moved
<1>8. Form!SubmitsWhatIsShown'
  BY <1>7 DEF Form!SubmitsWhatIsShown, Form!Tabs
<1>9. QED BY <1>4, <1>5, <1>8 DEF FormIInv

(* The flow ends, wallets come and go, the form is cleared.                     *)
LEMMA FormLeaves ==
  ASSUME FormIInv, Form!End \/ Form!ConnectionChange \/ Form!Disconnect
  PROVE  FormIInv'
<1>1. /\ UNCHANGED <<rows, label, typedFor, reads>>
      /\ signing' \in {signing, Form!NotSigning} /\ connected' \in BOOLEAN
      /\ \/ UNCHANGED <<selSym, action, amount, relisted, carried>>
         \/ selSym' = Form!NoSym /\ action' = "supply" /\ amount' = 0 /\ relisted' = FALSE /\ carried' = FALSE
  BY DEF Form!End, Form!ConnectionChange, Form!Disconnect, FormIInv, Form!FormTypeOK
<1>2. Form!FormTypeOK'
  <2>1. signing' \in Form!Submission
    BY <1>1, FormNotSigning DEF FormIInv, Form!FormTypeOK
  <2>2. selSym' \in Form!Symbols
    BY <1>1 DEF FormIInv, Form!FormTypeOK, Form!Symbols
  <2>3. action' \in Form!ActionType /\ amount' \in Sums \cup {0}
    BY <1>1 DEF FormIInv, Form!FormTypeOK, Form!ActionType
  <2>4. relisted' \in BOOLEAN /\ carried' \in BOOLEAN
    BY <1>1 DEF FormIInv, Form!FormTypeOK
  <2>5. QED BY <1>1, <2>1, <2>2, <2>3, <2>4 DEF FormIInv, Form!FormTypeOK
<1>3. Form!SubmitsWhatIsShown'
  BY <1>1 DEF FormIInv, Form!SubmitsWhatIsShown, Form!Tabs, Form!Moved
<1>4. FormInv'
  <2>1. CASE UNCHANGED <<selSym, action, amount, relisted, carried>>
    <3>1. Form!Sel' = Form!Sel
      BY <1>1, <2>1 DEF Form!Sel
    <3>2. (rows # {} => carried \/ action \in Form!Tabs(Form!Sel))'
      BY <1>1, <2>1, <3>1 DEF FormIInv, FormInv, Form!Tabs
    <3>3. QED BY <1>1, <2>1, <3>1, <3>2 DEF FormIInv, FormInv
  <2>2. CASE selSym' = Form!NoSym /\ action' = "supply" /\ amount' = 0 /\ relisted' = FALSE /\ carried' = FALSE
    BY <1>1, <2>2 DEF FormIInv, FormInv, Form!Tabs, Form!ActionType
  <2>3. QED BY <1>1, <2>1, <2>2
<1>5. QED BY <1>2, <1>3, <1>4 DEF FormIInv

LEMMA FormNext == FormIInv /\ (Form!Next \/ UNCHANGED formVars) => FormIInv'
<1> SUFFICES ASSUME FormIInv, Form!Next \/ UNCHANGED formVars PROVE FormIInv'
  OBVIOUS
<1>1. CASE UNCHANGED formVars
  BY <1>1 DEF formVars, FormIInv, Form!FormTypeOK, FormInv, Form!SubmitsWhatIsShown, Form!Sel, Form!Moved, Form!Tabs
<1>2. CASE Form!Next
  BY <1>2, FormReads, FormClicksRow, FormEdits, FormSubmits, FormLeaves DEF Form!Next
<1>3. QED BY <1>1, <1>2

-----------------------------------------------------------------------------
(* LaneActions, for any assets, prices, accounts, markets and amounts.  First what    *)
(* availableFor amounts to: which limit binds, and which amounts it lets by.        *)
Fraction == [n : Int, d : Nat \ {0}]
Bindings == {"wallet", "supplied", "debt", "supplyCap", "liquidity", "capacity", "health", "baseBorrowMin", "priceStale"}
Ceiling == [binding : Bindings, usd : Fraction]
Protocol == {"capacity", "liquidity", "health", "supplyCap"}

LEMMA LimitIs ==
  ASSUME NEW name \in Bindings, NEW f \in Fraction
  PROVE  /\ Limit(name, f) = <<[binding |-> name, usd |-> f]>>
         /\ [binding |-> name, usd |-> f] \in Ceiling
BY DEF Limit, Ceiling

LEMMA UsdIs == ASSUME NEW n \in Int PROVE Usd(n) \in Fraction /\ Usd(n).n = n /\ Usd(n).d = 1
BY DEF Usd, Fraction

(* Cross-multiplication is a total order of positive denominators.               *)
LEMMA LeqTotal ==
  ASSUME NEW x \in Fraction, NEW y \in Fraction
  PROVE  /\ Leq(x, x)
         /\ Leq(x, y) \in BOOLEAN
         /\ ~Leq(x, y) => Leq(y, x)
<1>1. x.n \in Int /\ x.d \in Int /\ y.n \in Int /\ y.d \in Int
  BY DEF Fraction
<1>2. x.n * y.d \in Int /\ y.n * x.d \in Int
  BY <1>1
<1>3. QED BY <1>1, <1>2 DEF Leq

LEMMA MinOne == ASSUME NEW x \in Ceiling PROVE MinConstraint(<<x>>) = x
<1> DEFINE limits == <<x>>
<1>1. DOMAIN limits = {1} /\ limits[1] = x /\ x.usd \in Fraction
  BY DEF Ceiling
<1>2. Leq(limits[1].usd, limits[1].usd)
  BY <1>1, LeqTotal
<1>3. MinConstraint(limits) = limits[CHOOSE i \in DOMAIN limits :
           /\ \A j \in DOMAIN limits : Leq(limits[i].usd, limits[j].usd)
           /\ \A j \in 1 .. i - 1 : ~Leq(limits[j].usd, limits[i].usd)]
  BY DEF MinConstraint
<1> HIDE DEF limits
<1>4. \A j \in 1 .. 1 - 1 : ~Leq(limits[j].usd, limits[1].usd)
  OBVIOUS
<1>5. (CHOOSE i \in DOMAIN limits :
           /\ \A j \in DOMAIN limits : Leq(limits[i].usd, limits[j].usd)
           /\ \A j \in 1 .. i - 1 : ~Leq(limits[j].usd, limits[i].usd)) = 1
  BY <1>1, <1>2, <1>4
<1>6. QED BY <1>1, <1>3, <1>5 DEF limits

LEMMA MinTwo ==
  ASSUME NEW x \in Ceiling, NEW y \in Ceiling
  PROVE  MinConstraint(<<x, y>>) = IF Leq(x.usd, y.usd) THEN x ELSE y
<1> DEFINE limits == <<x, y>>
           least(i) == /\ \A j \in DOMAIN limits : Leq(limits[i].usd, limits[j].usd)
                       /\ \A j \in 1 .. i - 1 : ~Leq(limits[j].usd, limits[i].usd)
<1>1. DOMAIN limits = {1, 2} /\ limits[1] = x /\ limits[2] = y /\ x.usd \in Fraction /\ y.usd \in Fraction
  BY DEF Ceiling
<1>2. Leq(x.usd, x.usd) /\ Leq(y.usd, y.usd) /\ (~Leq(x.usd, y.usd) => Leq(y.usd, x.usd))
  BY <1>1, LeqTotal
<1>3. MinConstraint(limits) = limits[CHOOSE i \in DOMAIN limits : least(i)]
  BY DEF MinConstraint
<1> HIDE DEF limits
<1>4. 1 .. 1 - 1 = {} /\ 1 .. 2 - 1 = {1}
  OBVIOUS
<1>5. least(1) <=> Leq(x.usd, y.usd)
  BY <1>1, <1>2, <1>4
<1>6. least(2) <=> ~Leq(x.usd, y.usd)
  BY <1>1, <1>2, <1>4
<1> HIDE DEF least
<1>7. CASE Leq(x.usd, y.usd)
  <2>1. (CHOOSE i \in DOMAIN limits : least(i)) = 1
    BY <1>1, <1>5, <1>6, <1>7
  <2>2. QED BY <1>1, <1>3, <1>7, <2>1 DEF limits
<1>8. CASE ~Leq(x.usd, y.usd)
  <2>1. (CHOOSE i \in DOMAIN limits : least(i)) = 2
    BY <1>1, <1>5, <1>6, <1>8
  <2>2. QED BY <1>1, <1>3, <1>8, <2>1 DEF limits
<1>9. QED BY <1>7, <1>8

(* An amount of so many dollars against a ceiling, after the haircut.             *)
LEMMA HaircutIs ==
  ASSUME NEW l \in Ceiling, NEW k \in Int
  PROVE  /\ Haircut(l).binding = l.binding
         /\ Leq(Usd(k), Haircut(l).usd) <=>
              IF l.binding \in Protocol THEN k * (l.usd.d * 1000) <= l.usd.n * 999 ELSE k * l.usd.d <= l.usd.n
<1>1. l.usd.n \in Int /\ l.usd.d \in Int /\ l.usd \in Fraction
  BY DEF Ceiling, Fraction
<1>2. CASE l.binding \in Protocol
  <2> DEFINE u == [n |-> l.usd.n * 999, d |-> l.usd.d * 1000]
  <2>1. Haircut(l) = [l EXCEPT !.usd = u]
    BY <1>2 DEF Haircut, Protocol
  <2>2. u.n = l.usd.n * 999 /\ u.d = l.usd.d * 1000
    OBVIOUS
  <2> HIDE DEF u
  <2>3. Haircut(l).usd = u /\ Haircut(l).binding = l.binding
    BY <2>1 DEF Ceiling
  <2>4. QED BY <1>1, <1>2, <2>2, <2>3, UsdIs DEF Leq
<1>3. CASE l.binding \notin Protocol
  <2>1. Haircut(l) = l
    BY <1>3 DEF Haircut, Protocol
  <2>2. QED BY <1>1, <1>3, <2>1, UsdIs DEF Leq
<1>4. QED BY <1>2, <1>3

(* Two limits, or one where there is no second.                                   *)
LEMMA TwoLimits ==
  ASSUME NEW x \in Ceiling, NEW y \in Ceiling
  PROVE  /\ MinConstraint(<<x>> \o <<y>>) = IF Leq(x.usd, y.usd) THEN x ELSE y
         /\ MinConstraint(<<x>> \o <<>>) = x
<1>1. <<x>> \in Seq(Ceiling) /\ <<y>> \in Seq(Ceiling) /\ Len(<<x>>) = 1 /\ Len(<<y>>) = 1
  OBVIOUS
<1>2. <<x>> \o <<y>> = <<x, y>>
  <2> DEFINE both == <<x>> \o <<y>>
  <2>1. both \in Seq(Ceiling) /\ Len(both) = 2 /\ both[1] = x /\ both[2] = y
    BY <1>1
  <2> HIDE DEF both
  <2>2. both = <<x, y>>
    BY <2>1
  <2>3. QED BY <2>2 DEF both
<1>3. <<x>> \o <<>> = <<x>>
  <2> DEFINE both == <<x>> \o <<>>
  <2>1. both \in Seq(Ceiling) /\ Len(both) = 1 /\ both[1] = x
    BY <1>1
  <2> HIDE DEF both
  <2>2. both = <<x>>
    BY <2>1
  <2>3. QED BY <2>2 DEF both
<1>4. QED BY <1>2, <1>3, MinOne, MinTwo

LEMMA Cancels ==
  ASSUME NEW x \in Int, NEW y \in Int, NEW k \in Nat \ {0}
  PROVE  x * k <= y * k <=> x <= y
<1>1. CASE x <= y
  <2>1. PICK d \in Nat : y = x + d
    <3>1. y - x \in Nat /\ y = x + (y - x)
      BY <1>1
    <3>2. QED BY <3>1
  <2>2. y * k = x * k + d * k /\ d * k >= 0 /\ x * k \in Int
    BY <2>1
  <2>3. QED BY <1>1, <2>2
<1>2. CASE x > y
  <2>1. PICK d \in Nat : x = y + 1 + d
    <3>1. x - y - 1 \in Nat /\ x = y + 1 + (x - y - 1)
      BY <1>2
    <3>2. QED BY <3>1
  <2>2. x * k = y * k + k + d * k /\ d * k >= 0 /\ y * k \in Int
    BY <2>1
  <2>3. QED BY <1>2, <2>2
<1>3. QED BY <1>1, <1>2

(* What the figures are made of: an account with its prices, seen or as it is.        *)
Position(p) ==
  /\ p.base \in Int /\ p.coll \in [Colls -> Int] /\ p.price \in [Colls -> Prices]
  /\ p.stale \in SUBSET Colls

Weight(p) == [c \in Colls |-> IF c \in p.stale THEN 0 ELSE p.coll[c] * p.price[c] * Factor[c]]

LEMMA Positive == Prices \subseteq Nat \ {0} /\ Factor \in [Colls -> 1 .. 10] /\ IsFiniteSet(Colls)
BY LaneActionsAssumption

LEMMA Numbers ==
  ASSUME NEW p, Position(p), NEW c \in Colls
  PROVE  /\ p.coll[c] \in Int /\ p.price[c] \in Int /\ p.price[c] > 0
         /\ Factor[c] \in Int /\ Factor[c] > 0
<1>1. p.price[c] \in Prices /\ p.coll[c] \in Int
  BY DEF Position
<1>2. p.price[c] \in Nat \ {0}
  BY <1>1, Positive
<1>3. Factor[c] \in 1 .. 10
  BY Positive
<1>4. QED BY <1>1, <1>2, <1>3

LEMMA PriceIs ==
  ASSUME NEW p, Position(p), NEW a \in Assets
  PROVE  /\ PriceOf(p, a) \in Nat \ {0}
         /\ a # "base" => a \in Colls
         /\ a # "base" /\ a \notin p.stale => PriceOf(p, a) = p.price[a]
<1>1. a # "base" => a \in Colls
  BY DEF Assets
<1>2. a # "base" => p.price[a] \in Nat \ {0}
  BY <1>1, Numbers
<1>3. QED BY <1>1, <1>2 DEF PriceOf

LEMMA CapacityIs ==
  ASSUME NEW p, Position(p)
  PROVE  /\ Summable(Weight(p), Colls) /\ DOMAIN Weight(p) = Colls
         /\ Capacity(p) = SumFunctionOnSet(Weight(p), Colls) /\ Capacity(p) \in Int
<1>1. ASSUME NEW c \in Colls PROVE p.coll[c] * p.price[c] * Factor[c] \in Int
  <2>1. p.coll[c] \in Int /\ p.price[c] \in Int /\ Factor[c] \in Int
    BY Numbers
  <2>2. QED BY <2>1
<1>2. Weight(p) \in [Colls -> Int]
  BY <1>1 DEF Weight
<1>3. Summable(Weight(p), Colls)
  BY <1>2, Positive DEF Summable
<1>4. Capacity(p) = SumFunction(Weight(p))
  BY DEF Capacity, Weight
<1>5. DOMAIN Weight(p) = Colls
  BY DEF Weight
<1>6. SumFunction(Weight(p)) = SumFunctionOnSet(Weight(p), Colls)
  BY <1>5 DEF SumFunction, SumFunctionOnSet
<1>7. QED BY <1>3, <1>4, <1>5, <1>6, SumType

LEMMA FiguresAre ==
  ASSUME NEW p, Position(p)
  PROVE  /\ Supplied(p) \in Nat /\ Debt(p) \in Nat /\ Headroom(p) \in Nat
         /\ Supplied(p) = 0 \/ Debt(p) = 0
         /\ p.base = Supplied(p) - Debt(p)
         /\ Headroom(p) = IF Capacity(p) > 10 * Debt(p) THEN Capacity(p) - 10 * Debt(p) ELSE 0
<1>1. p.base \in Int
  BY DEF Position
<1>2. Supplied(p) \in Nat /\ Debt(p) \in Nat /\ (Supplied(p) = 0 \/ Debt(p) = 0) /\ p.base = Supplied(p) - Debt(p)
  BY <1>1 DEF Supplied, Debt, Floor0
<1>3. Capacity(p) \in Int
  BY CapacityIs
<1>4. QED BY <1>2, <1>3 DEF Headroom, Floor0

(* Collateral that comes or goes changes the capacity by its own weight.             *)
LEMMA CapacityMoves ==
  ASSUME NEW p, Position(p), NEW q, Position(q), NEW x \in Colls, NEW n \in Int,
         q.coll = [p.coll EXCEPT ![x] = @ + n], q.price = p.price, q.stale = p.stale
  PROVE  Capacity(q) = Capacity(p) + (IF x \in p.stale THEN 0 ELSE n * p.price[x] * Factor[x])
<1>1. /\ Summable(Weight(p), Colls) /\ Summable(Weight(q), Colls)
      /\ Capacity(p) = SumFunctionOnSet(Weight(p), Colls)
      /\ Capacity(q) = SumFunctionOnSet(Weight(q), Colls)
  BY CapacityIs
<1>2. SameOn(Weight(q), Weight(p), Colls \ {x})
  BY DEF SameOn, Weight, Position
<1>3. p.coll[x] \in Int /\ p.price[x] \in Int /\ Factor[x] \in Int
  BY Numbers
<1>4. q.coll[x] = p.coll[x] + n
  BY DEF Position
<1>5. Weight(q)[x] - Weight(p)[x] = IF x \in p.stale THEN 0 ELSE n * p.price[x] * Factor[x]
  <2>1. CASE x \in p.stale
    BY <2>1 DEF Weight
  <2>2. CASE x \notin p.stale
    <3>1. Weight(q)[x] = (p.coll[x] + n) * p.price[x] * Factor[x] /\ Weight(p)[x] = p.coll[x] * p.price[x] * Factor[x]
      BY <1>4, <2>2 DEF Weight
    <3>2. (p.coll[x] + n) * p.price[x] * Factor[x] - p.coll[x] * p.price[x] * Factor[x] = n * p.price[x] * Factor[x]
      BY <1>3
    <3>3. QED BY <2>2, <3>1, <3>2
  <2>3. QED BY <2>1, <2>2
<1>6. Capacity(q) = Capacity(p) + (Weight(q)[x] - Weight(p)[x])
  BY <1>1, <1>2, SumChanges
<1>7. QED BY <1>5, <1>6

LEMMA CapacityStays ==
  ASSUME NEW p, NEW q, q.coll = p.coll, q.price = p.price, q.stale = p.stale
  PROVE  Capacity(q) = Capacity(p)
BY DEF Capacity

LEMMA UsdLimit ==
  ASSUME NEW name \in Bindings, NEW n \in Int, NEW x, x = [binding |-> name, usd |-> Usd(n)]
  PROVE  /\ Limit(name, Usd(n)) = <<x>> /\ x \in Ceiling
         /\ x.binding = name /\ x.usd.n = n /\ x.usd.d = 1
<1>1. Usd(n) \in Fraction /\ Usd(n).n = n /\ Usd(n).d = 1
  BY UsdIs
<1>2. Limit(name, Usd(n)) = <<x>> /\ x \in Ceiling
  BY <1>1, LimitIs
<1>3. x.usd = Usd(n) /\ x.binding = name
  OBVIOUS
<1>4. QED BY <1>1, <1>2, <1>3

(* The reason and the verdict, from the limit that binds.                            *)
LEMMA Binds ==
  ASSUME NEW p, NEW t, NEW a, NEW k \in Int, NEW l \in Ceiling,
         AvailableFor(p, t, a) = Haircut(l), Offered(t, a), PriceOf(p, a) \in Nat \ {0}
  PROVE  /\ Reason(p, t, a) = l.binding
         /\ Validates(p, t, a, k) <=>
              IF l.binding \in Protocol
              THEN (k * PriceOf(p, a)) * (l.usd.d * 1000) <= l.usd.n * 999
              ELSE (k * PriceOf(p, a)) * l.usd.d <= l.usd.n
<1>1. k * PriceOf(p, a) \in Int
  OBVIOUS
<1>2. QED BY <1>1, HaircutIs DEF Reason, Validates

LEMMA ViewIs ==
  ASSUME NEW p \in View
  PROVE  /\ Position(p) /\ Balance(p, "base") \in Nat
         /\ \A c \in Colls : p.coll[c] \in Nat /\ Balance(p, c) = p.coll[c]
         /\ \A a \in Assets : p.wallet[a] \in Nat
         /\ p.net \in Nat \cup {Unknown} /\ p.held \in Nat \cup {Unknown} /\ p.min \in Nat \cup {Unknown}
         /\ \A c \in Colls : p.room[c] \in Nat \cup {Unknown}
<1>1. /\ p.base \in Int /\ p.coll \in [Colls -> Nat] /\ p.wallet \in [Assets -> Nat]
      /\ p.price \in [Colls -> Prices] /\ p.stale \in SUBSET Colls
      /\ p.net \in Nat \cup {Unknown} /\ p.held \in Nat \cup {Unknown} /\ p.min \in Nat \cup {Unknown}
      /\ p.room \in [Colls -> Nat \cup {Unknown}]
  BY DEF View
<1>2. Nat \subseteq Int
  OBVIOUS
<1>3. p.coll \in [Colls -> Int]
  BY <1>1, <1>2
<1>4. Position(p)
  BY <1>1, <1>3 DEF Position
<1>5. \A c \in Colls : c # "base"
  BY LaneActionsAssumption
<1>6. QED BY <1>1, <1>4, <1>5, FiguresAre DEF Balance

(* Supply: the wallet, or the supply cap when it is known and below.                 *)
Capped(p, a) == a # "base" /\ p.room[a] # Unknown /\ p.room[a] < p.wallet[a]

LEMMA SupplyLets ==
  ASSUME NEW p \in View, NEW a \in Assets, NEW k \in Int
  PROVE  /\ Reason(p, "supply", a) = IF Capped(p, a) THEN "supplyCap" ELSE "wallet"
         /\ Validates(p, "supply", a, k) <=>
              IF Capped(p, a) THEN k * 1000 <= p.room[a] * 999 ELSE k <= p.wallet[a]
<1> DEFINE P == PriceOf(p, a)
           W == p.wallet[a]
           R == p.room[a]
           wallet == [binding |-> "wallet", usd |-> Usd(W * P)]
           cap == [binding |-> "supplyCap", usd |-> Usd(R * P)]
<1>1. P \in Nat \ {0} /\ W \in Nat /\ (a # "base" => a \in Colls /\ R \in Nat \cup {Unknown})
  BY ViewIs, PriceIs
<1>2. W * P \in Int
  BY <1>1
<1>3. wallet \in Ceiling /\ Limit("wallet", Usd(W * P)) = <<wallet>>
  <2>1. "wallet" \in Bindings
    BY DEF Bindings
  <2> HIDE DEF P, W
  <2>2. QED BY <1>2, <2>1, UsdLimit
<1>4. wallet.binding = "wallet" /\ wallet.usd.n = W * P /\ wallet.usd.d = 1
  BY <1>2, UsdIs
<1>5. Offered("supply", a)
  BY DEF Offered
<1>6. AvailableFor(p, "supply", a) = Haircut(Suppliable(p, a))
  BY DEF AvailableFor
<1>7. Suppliable(p, a) = MinConstraint(<<wallet>> \o (IF a = "base" \/ R = Unknown THEN <<>> ELSE Limit("supplyCap", Usd(R * P))))
  BY <1>3 DEF Suppliable
<1>8. CASE a = "base" \/ R = Unknown
  <2> HIDE DEF P, W, R, wallet, cap
  <2>1. Suppliable(p, a) = wallet
    BY <1>3, <1>7, <1>8, TwoLimits
  <2>2. ~Capped(p, a)
    BY <1>8 DEF Capped, R
  <2>3. /\ Reason(p, "supply", a) = "wallet"
        /\ Validates(p, "supply", a, k) <=> (k * P) * 1 <= W * P
    BY <1>1, <1>3, <1>4, <1>5, <1>6, <2>1, Binds DEF Protocol, P
  <2>4. (k * P) * 1 <= W * P <=> k <= W
    BY <1>1, Cancels
  <2>5. QED BY <2>2, <2>3, <2>4 DEF W
<1>9. CASE ~(a = "base" \/ R = Unknown)
  <2>0. R \in Nat /\ R * P \in Int
    BY <1>1, <1>9
  <2>1. cap \in Ceiling /\ Limit("supplyCap", Usd(R * P)) = <<cap>>
    <3>1. "supplyCap" \in Bindings
      BY DEF Bindings
    <3> HIDE DEF P, R
    <3>2. QED BY <2>0, <3>1, UsdLimit
  <2>2. cap.binding = "supplyCap" /\ cap.usd.n = R * P /\ cap.usd.d = 1
    BY <2>0, UsdIs
  <2>3. Capped(p, a) <=> R < W
    BY <1>9 DEF Capped
  <2> HIDE DEF P, W, R, wallet, cap
  <2>4. Suppliable(p, a) = IF Leq(wallet.usd, cap.usd) THEN wallet ELSE cap
    BY <1>3, <1>7, <1>9, <2>1, TwoLimits
  <2>5. Leq(wallet.usd, cap.usd) <=> W * P <= R * P
    BY <1>2, <1>4, <2>0, <2>2 DEF Leq
  <2>6. W * P <= R * P <=> W <= R
    BY <1>1, <2>0, Cancels
  <2>7. CASE Capped(p, a)
    <3>1. Suppliable(p, a) = cap
      BY <1>1, <2>0, <2>3, <2>4, <2>5, <2>6, <2>7
    <3>2. /\ Reason(p, "supply", a) = "supplyCap"
          /\ Validates(p, "supply", a, k) <=> (k * P) * (1 * 1000) <= (R * P) * 999
      BY <1>1, <1>5, <1>6, <2>1, <2>2, <3>1, Binds DEF Protocol, P
    <3>3. (k * P) * (1 * 1000) = (k * 1000) * P /\ (R * P) * 999 = (R * 999) * P
      BY <1>1, <2>0
    <3>4. k * 1000 \in Int /\ R * 999 \in Int
      BY <2>0
    <3>5. (k * 1000) * P <= (R * 999) * P <=> k * 1000 <= R * 999
      BY <1>1, <3>4, Cancels
    <3>6. QED BY <2>7, <3>2, <3>3, <3>5 DEF R
  <2>8. CASE ~Capped(p, a)
    <3>1. Suppliable(p, a) = wallet
      BY <1>1, <2>0, <2>3, <2>4, <2>5, <2>6, <2>8
    <3>2. /\ Reason(p, "supply", a) = "wallet"
          /\ Validates(p, "supply", a, k) <=> (k * P) * 1 <= W * P
      BY <1>1, <1>3, <1>4, <1>5, <1>6, <3>1, Binds DEF Protocol, P
    <3>3. (k * P) * 1 <= W * P <=> k <= W
      BY <1>1, Cancels
    <3>4. QED BY <2>8, <3>2, <3>3 DEF W
  <2>9. QED BY <2>7, <2>8
<1>10. QED BY <1>8, <1>9

(* Repay: the debt, or the wallet when it holds less.                                *)
LEMMA RepayLets ==
  ASSUME NEW p \in View, NEW k \in Int
  PROVE  /\ Reason(p, "repay", "base") = IF Debt(p) <= p.wallet["base"] THEN "debt" ELSE "wallet"
         /\ Validates(p, "repay", "base", k) <=>
              IF Debt(p) <= p.wallet["base"] THEN k <= Debt(p) ELSE k <= p.wallet["base"]
<1> DEFINE D == Debt(p)
           W == p.wallet["base"]
           debt == [binding |-> "debt", usd |-> Usd(D)]
           wallet == [binding |-> "wallet", usd |-> Usd(W)]
<1>1. D \in Nat /\ W \in Nat /\ PriceOf(p, "base") = 1 /\ Offered("repay", "base")
  BY ViewIs, FiguresAre DEF PriceOf, Offered, Assets
<1>2. /\ debt \in Ceiling /\ Limit("debt", Usd(D)) = <<debt>>
      /\ wallet \in Ceiling /\ Limit("wallet", Usd(W)) = <<wallet>>
  <2>1. "debt" \in Bindings /\ "wallet" \in Bindings
    BY DEF Bindings
  <2> HIDE DEF D, W
  <2>2. QED BY <1>1, <2>1, UsdLimit
<1>3. /\ debt.binding = "debt" /\ debt.usd.n = D /\ debt.usd.d = 1
      /\ wallet.binding = "wallet" /\ wallet.usd.n = W /\ wallet.usd.d = 1
  BY <1>1, UsdIs
<1>4. AvailableFor(p, "repay", "base") = Haircut(Repayable(p))
  BY DEF AvailableFor
<1>5. Repayable(p) = MinConstraint(<<debt>> \o <<wallet>>)
  BY <1>2 DEF Repayable
<1> HIDE DEF D, W, debt, wallet
<1>6. Repayable(p) = IF D <= W THEN debt ELSE wallet
  BY <1>1, <1>2, <1>3, <1>5, TwoLimits DEF Leq
<1>7. /\ D <= W => /\ Reason(p, "repay", "base") = "debt"
                   /\ Validates(p, "repay", "base", k) <=> (k * 1) * 1 <= D
      /\ ~(D <= W) => /\ Reason(p, "repay", "base") = "wallet"
                      /\ Validates(p, "repay", "base", k) <=> (k * 1) * 1 <= W
  BY <1>1, <1>2, <1>3, <1>4, <1>6, Binds DEF Protocol
<1>8. QED BY <1>1, <1>7 DEF D, W

(* The base that may leave the Comet, when either figure is known.                    *)
NoLiquidity(p) == p.net = Unknown /\ p.min = Unknown
Liquid(p) == IF p.net = Unknown THEN 0
             ELSE IF p.held = Unknown \/ p.net < p.held THEN p.net ELSE p.held
LiquidIs(p) == [binding |-> "liquidity", usd |-> Usd(Liquid(p))]

LEMMA LiquidityIs ==
  ASSUME NEW p \in View
  PROVE  /\ Liquid(p) \in Nat /\ LiquidIs(p) \in Ceiling
         /\ LiquidIs(p).binding = "liquidity" /\ LiquidIs(p).usd.n = Liquid(p) /\ LiquidIs(p).usd.d = 1
         /\ LiquidityLimit(p) = IF NoLiquidity(p) THEN <<>> ELSE <<LiquidIs(p)>>
<1>1. Liquid(p) \in Nat
  BY ViewIs DEF Liquid
<1>2. "liquidity" \in Bindings
  BY DEF Bindings
<1>3. LiquidityLimit(p) = IF NoLiquidity(p) THEN <<>> ELSE Limit("liquidity", Usd(Liquid(p)))
  BY DEF LiquidityLimit, NoLiquidity, Liquid
<1>4. QED BY <1>1, <1>2, <1>3, UsdLimit DEF LiquidIs

(* Withdrawing the base: the supply, or the liquidity when it is known and below.     *)
Illiquid(p) == ~NoLiquidity(p) /\ Liquid(p) < Supplied(p)

LEMMA WithdrawLets ==
  ASSUME NEW p \in View, NEW k \in Int
  PROVE  /\ Reason(p, "withdraw", "base") = IF Illiquid(p) THEN "liquidity" ELSE "supplied"
         /\ Validates(p, "withdraw", "base", k) <=>
              IF Illiquid(p) THEN k * 1000 <= Liquid(p) * 999 ELSE k <= Supplied(p)
<1> DEFINE S == Supplied(p)
           L == Liquid(p)
           own == [binding |-> "supplied", usd |-> Usd(S)]
           free == LiquidIs(p)
<1>1. S \in Nat /\ L \in Nat /\ PriceOf(p, "base") = 1 /\ Offered("withdraw", "base")
  BY ViewIs, FiguresAre, LiquidityIs DEF PriceOf, Offered
<1>2. /\ own \in Ceiling /\ Limit("supplied", Usd(S)) = <<own>>
      /\ own.binding = "supplied" /\ own.usd.n = S /\ own.usd.d = 1
  <2>1. "supplied" \in Bindings
    BY DEF Bindings
  <2> HIDE DEF S
  <2>2. QED BY <1>1, <2>1, UsdLimit
<1>3. AvailableFor(p, "withdraw", "base") = Haircut(Withdrawable(p, "base"))
  BY DEF AvailableFor
<1>4. Withdrawable(p, "base") = MinConstraint(<<own>> \o (IF NoLiquidity(p) THEN <<>> ELSE <<free>>))
  BY <1>2, LiquidityIs DEF Withdrawable
<1>5. /\ free \in Ceiling /\ free.binding = "liquidity" /\ free.usd.n = L /\ free.usd.d = 1
  BY LiquidityIs
<1>6. Illiquid(p) <=> ~NoLiquidity(p) /\ L < S
  BY DEF Illiquid
<1> HIDE DEF S, L, own, free
<1>7. Withdrawable(p, "base") = IF Illiquid(p) THEN free ELSE own
  <2>1. CASE NoLiquidity(p)
    BY <1>2, <1>4, <1>6, <2>1, TwoLimits
  <2>2. CASE ~NoLiquidity(p)
    <3>1. Withdrawable(p, "base") = IF Leq(own.usd, free.usd) THEN own ELSE free
      BY <1>2, <1>4, <1>5, <2>2, TwoLimits
    <3>2. Leq(own.usd, free.usd) <=> S <= L
      BY <1>1, <1>2, <1>5 DEF Leq
    <3>3. QED BY <1>1, <1>6, <2>2, <3>1, <3>2
  <2>3. QED BY <2>1, <2>2
<1>8. CASE Illiquid(p)
  <2>1. /\ Reason(p, "withdraw", "base") = "liquidity"
        /\ Validates(p, "withdraw", "base", k) <=> (k * 1) * (1 * 1000) <= L * 999
    <3>1. AvailableFor(p, "withdraw", "base") = Haircut(free)
      BY <1>3, <1>7, <1>8
    <3>2. PriceOf(p, "base") \in Nat \ {0} /\ free.binding \in Protocol
      BY <1>1, <1>5 DEF Protocol
    <3>3. QED BY <1>1, <1>5, <3>1, <3>2, Binds
  <2>2. QED BY <1>1, <1>8, <2>1 DEF L
<1>9. CASE ~Illiquid(p)
  <2>1. /\ Reason(p, "withdraw", "base") = "supplied"
        /\ Validates(p, "withdraw", "base", k) <=> (k * 1) * 1 <= S
    <3>1. AvailableFor(p, "withdraw", "base") = Haircut(own)
      BY <1>3, <1>7, <1>9
    <3>2. PriceOf(p, "base") \in Nat \ {0} /\ own.binding \notin Protocol
      BY <1>1, <1>2 DEF Protocol
    <3>3. QED BY <1>1, <1>2, <3>1, <3>2, Binds
  <2>2. QED BY <1>1, <1>9, <2>1 DEF S
<1>10. QED BY <1>8, <1>9

(* Withdrawing collateral: what is supplied; nothing while a feed is stale and there   *)
(* is debt; otherwise what the debt can do without.                                  *)
Blocked(p, c) == Debt(p) > 0 /\ (c \in p.stale \/ PricesStale(p)) /\ p.coll[c] > 0
Strained(p, c) ==
  /\ Debt(p) > 0 /\ ~(c \in p.stale \/ PricesStale(p))
  /\ (p.coll[c] * PriceOf(p, c)) * Factor[c] > Headroom(p)

LEMMA CollateralLets ==
  ASSUME NEW p \in View, NEW c \in Colls, NEW k \in Nat \ {0}
  PROVE  /\ Reason(p, "withdraw", c) = IF Blocked(p, c) THEN "priceStale" ELSE IF Strained(p, c) THEN "health" ELSE "supplied"
         /\ Validates(p, "withdraw", c, k) <=>
              /\ ~Blocked(p, c)
              /\ IF Strained(p, c) THEN (k * PriceOf(p, c)) * (Factor[c] * 1000) <= Headroom(p) * 999
                 ELSE k <= p.coll[c]
<1> DEFINE P == PriceOf(p, c)
           B == p.coll[c]
           H == Headroom(p)
           F == Factor[c]
           D == Debt(p)
           own == [binding |-> "supplied", usd |-> Usd(B * P)]
           stale == [binding |-> "priceStale", usd |-> Usd(0)]
           health == [binding |-> "health", usd |-> [n |-> H, d |-> F]]
           Frozen == c \in p.stale \/ PricesStale(p)
<1>1. P \in Nat \ {0} /\ B \in Nat /\ H \in Nat /\ D \in Nat /\ F \in Nat \ {0} /\ c # "base" /\ c \in Assets
  <2>1. c # "base" /\ c \in Assets
    BY LaneActionsAssumption DEF Assets
  <2>2. Position(p) /\ B \in Nat
    BY ViewIs
  <2>3. F \in Nat \ {0}
    BY <2>2, Numbers
  <2>4. QED BY <2>1, <2>2, <2>3, PriceIs, FiguresAre
<1>2. B * P \in Int
  BY <1>1
<1>3. "supplied" \in Bindings /\ "priceStale" \in Bindings /\ "health" \in Bindings
  BY DEF Bindings
<1>4. /\ own \in Ceiling /\ Limit("supplied", Usd(B * P)) = <<own>>
      /\ own.binding = "supplied" /\ own.usd.n = B * P /\ own.usd.d = 1
  <2> HIDE DEF B, P
  <2>1. QED BY <1>2, <1>3, UsdLimit
<1>5. /\ stale \in Ceiling /\ Limit("priceStale", Usd(0)) = <<stale>>
      /\ stale.binding = "priceStale" /\ stale.usd.n = 0 /\ stale.usd.d = 1
  BY <1>3, UsdLimit
<1>6. /\ health \in Ceiling /\ Limit("health", [n |-> H, d |-> F]) = <<health>>
      /\ health.binding = "health" /\ health.usd.n = H /\ health.usd.d = F
  <2> HIDE DEF H, F
  <2>1. [n |-> H, d |-> F] \in Fraction
    BY <1>1 DEF Fraction
  <2>2. QED BY <1>3, <2>1, LimitIs
<1>7. Offered("withdraw", c) /\ AvailableFor(p, "withdraw", c) = Haircut(Withdrawable(p, c))
  BY DEF Offered, AvailableFor
<1>8. Withdrawable(p, c) = MinConstraint(<<own>> \o (IF D = 0 THEN <<>> ELSE IF Frozen THEN <<stale>> ELSE <<health>>))
  BY <1>1, <1>4, <1>5, <1>6 DEF Withdrawable, HealthLimit
<1>9. /\ Blocked(p, c) <=> D > 0 /\ Frozen /\ B > 0
      /\ Strained(p, c) <=> D > 0 /\ ~Frozen /\ (B * P) * F > H
  BY DEF Blocked, Strained
<1> HIDE DEF P, B, H, F, D, own, stale, health, Frozen
<1>10. Withdrawable(p, c) = IF Blocked(p, c) THEN stale ELSE IF Strained(p, c) THEN health ELSE own
  <2>1. CASE D = 0
    <3>1. Withdrawable(p, c) = own
      BY <1>4, <1>8, <2>1, TwoLimits
    <3>2. QED BY <1>9, <2>1, <3>1
  <2>2. CASE D > 0 /\ Frozen
    <3>1. Withdrawable(p, c) = IF Leq(own.usd, stale.usd) THEN own ELSE stale
      BY <1>1, <1>4, <1>5, <1>8, <2>2, TwoLimits
    <3>2. Leq(own.usd, stale.usd) <=> B * P <= 0
      BY <1>2, <1>4, <1>5 DEF Leq
    <3>3. B * P <= 0 * P <=> B <= 0
      BY <1>1, Cancels
    <3>4. 0 * P = 0
      BY <1>1
    <3>5. QED BY <1>1, <1>9, <2>2, <3>1, <3>2, <3>3, <3>4
  <2>3. CASE D > 0 /\ ~Frozen
    <3>1. Withdrawable(p, c) = IF Leq(own.usd, health.usd) THEN own ELSE health
      BY <1>1, <1>4, <1>6, <1>8, <2>3, TwoLimits
    <3>2. Leq(own.usd, health.usd) <=> (B * P) * F <= H * 1
      BY <1>4, <1>6 DEF Leq
    <3>3. (B * P) * F \in Int /\ H * 1 = H
      BY <1>1, <1>2
    <3>4. Leq(own.usd, health.usd) <=> ~Strained(p, c)
      BY <1>1, <1>9, <2>3, <3>2, <3>3
    <3>5. ~Blocked(p, c)
      BY <1>9, <2>3
    <3>6. QED BY <3>1, <3>4, <3>5
  <2>4. QED BY <1>1, <2>1, <2>2, <2>3
<1>11. (k * P) * 1 <= B * P <=> k <= B
  BY <1>1, Cancels
<1>12. ~((k * P) * 1 <= 0)
  <2>1. (k * P) <= 0 * P <=> k <= 0
    BY <1>1, Cancels
  <2>2. 0 * P = 0 /\ (k * P) * 1 = k * P
    BY <1>1
  <2>3. QED BY <2>1, <2>2
<1>13. CASE Blocked(p, c)
  <2>1. /\ Reason(p, "withdraw", c) = "priceStale"
        /\ Validates(p, "withdraw", c, k) <=> (k * P) * 1 <= 0
    BY <1>1, <1>5, <1>7, <1>10, <1>13, Binds DEF Protocol, P
  <2>2. QED BY <1>12, <1>13, <2>1
<1>14. CASE ~Blocked(p, c) /\ Strained(p, c)
  <2>1. /\ Reason(p, "withdraw", c) = "health"
        /\ Validates(p, "withdraw", c, k) <=> (k * P) * (F * 1000) <= H * 999
    BY <1>1, <1>6, <1>7, <1>10, <1>14, Binds DEF Protocol, P
  <2>2. QED BY <1>14, <2>1 DEF P, F, H
<1>15. CASE ~Blocked(p, c) /\ ~Strained(p, c)
  <2>1. /\ Reason(p, "withdraw", c) = "supplied"
        /\ Validates(p, "withdraw", c, k) <=> (k * P) * 1 <= B * P
    BY <1>1, <1>4, <1>7, <1>10, <1>15, Binds DEF Protocol, P
  <2>2. QED BY <1>11, <1>15, <2>1 DEF B
<1>16. QED BY <1>13, <1>14, <1>15

(* Borrowing: nothing under a stale feed that leaves no headroom, or when the rest of   *)
(* the minimum debt is not to be had; otherwise the capacity or the liquidity.         *)
Shut(p) == PricesStale(p) /\ Headroom(p) = 0
Dry(p) == ~NoLiquidity(p) /\ Liquid(p) * 10 < Headroom(p)
Below(p) ==
  /\ Debt(p) < p.min
  /\ IF Dry(p) THEN p.min - Debt(p) > Liquid(p) ELSE (p.min - Debt(p)) * 10 > Headroom(p)

LEMMA BorrowLets ==
  ASSUME NEW p \in View, NEW k \in Nat \ {0}
  PROVE  /\ Reason(p, "borrow", "base") =
              IF Shut(p) THEN "priceStale" ELSE IF Below(p) THEN "baseBorrowMin"
              ELSE IF Dry(p) THEN "liquidity" ELSE "capacity"
         /\ Validates(p, "borrow", "base", k) <=>
              /\ ~Shut(p) /\ ~Below(p)
              /\ IF Dry(p) THEN k * 1000 <= Liquid(p) * 999 ELSE k * 10000 <= Headroom(p) * 999
<1> DEFINE H == Headroom(p)
           D == Debt(p)
           L == Liquid(p)
           cap == [binding |-> "capacity", usd |-> [n |-> H, d |-> 10]]
           liq == LiquidIs(p)
           free == IF Dry(p) THEN liq ELSE cap
           stale == [binding |-> "priceStale", usd |-> Usd(0)]
           minimum == [binding |-> "baseBorrowMin", usd |-> Usd(0)]
<1>1. /\ H \in Nat /\ D \in Nat /\ L \in Nat /\ p.min \in Int
      /\ PriceOf(p, "base") = 1 /\ Offered("borrow", "base")
  <2>1. p.min \in Int
    BY ViewIs DEF Unknown
  <2>2. QED BY <2>1, ViewIs, FiguresAre, LiquidityIs DEF PriceOf, Offered
<1>2. "capacity" \in Bindings /\ "priceStale" \in Bindings /\ "baseBorrowMin" \in Bindings
  BY DEF Bindings
<1>3. /\ cap \in Ceiling /\ Limit("capacity", [n |-> H, d |-> 10]) = <<cap>>
      /\ cap.binding = "capacity" /\ cap.usd.n = H /\ cap.usd.d = 10
  <2> HIDE DEF H
  <2>1. [n |-> H, d |-> 10] \in Fraction
    BY <1>1 DEF Fraction
  <2>2. QED BY <1>2, <2>1, LimitIs
<1>4. /\ stale \in Ceiling /\ Limit("priceStale", Usd(0)) = <<stale>>
      /\ stale.binding = "priceStale" /\ stale.usd.n = 0 /\ stale.usd.d = 1
      /\ minimum \in Ceiling /\ Limit("baseBorrowMin", Usd(0)) = <<minimum>>
      /\ minimum.binding = "baseBorrowMin" /\ minimum.usd.n = 0 /\ minimum.usd.d = 1
  BY <1>2, UsdLimit
<1>5. liq \in Ceiling /\ liq.binding = "liquidity" /\ liq.usd.n = L /\ liq.usd.d = 1
  BY LiquidityIs
<1>6. LiquidityLimit(p) = IF NoLiquidity(p) THEN <<>> ELSE <<liq>>
  BY LiquidityIs
<1>7. AvailableFor(p, "borrow", "base") = Haircut(Borrowable(p))
  BY DEF AvailableFor
<1>8. MinConstraint(Limit("capacity", [n |-> H, d |-> 10]) \o LiquidityLimit(p)) = free
  <2>0. Dry(p) <=> ~NoLiquidity(p) /\ L * 10 < H
    BY DEF Dry
  <2> HIDE DEF H, D, L, cap, liq
  <2>1. CASE NoLiquidity(p)
    BY <1>3, <1>6, <2>0, <2>1, TwoLimits
  <2>2. CASE ~NoLiquidity(p)
    <3>1. MinConstraint(<<cap>> \o <<liq>>) = IF Leq(cap.usd, liq.usd) THEN cap ELSE liq
      BY <1>3, <1>5, TwoLimits
    <3>2. Leq(cap.usd, liq.usd) <=> H <= L * 10
      BY <1>1, <1>3, <1>5 DEF Leq
    <3>3. QED BY <1>1, <1>3, <1>6, <2>0, <2>2, <3>1, <3>2
  <2>3. QED BY <2>1, <2>2
<1>9. Below(p) <=> D < p.min /\ ~Leq(Usd(p.min - D), free.usd)
  <2>1. p.min - D \in Int
    BY <1>1
  <2>2. Usd(p.min - D).n = p.min - D /\ Usd(p.min - D).d = 1
    BY <2>1, UsdIs
  <2>3. Below(p) <=> D < p.min /\ IF Dry(p) THEN p.min - D > L ELSE (p.min - D) * 10 > H
    BY DEF Below
  <2>4. free.usd = IF Dry(p) THEN liq.usd ELSE cap.usd
    OBVIOUS
  <2> HIDE DEF H, D, L, cap, liq, free
  <2>5. QED BY <1>1, <1>3, <1>5, <2>1, <2>2, <2>3, <2>4 DEF Leq
<1>10. Borrowable(p) = IF Shut(p) THEN stale ELSE IF Below(p) THEN minimum ELSE free
  <2>1. Borrowable(p) = IF PricesStale(p) /\ H = 0 THEN <<stale>>[1]
                        ELSE IF D < p.min /\ ~Leq(Usd(p.min - D), free.usd) THEN <<minimum>>[1]
                        ELSE free
    BY <1>4, <1>8 DEF Borrowable
  <2>2. Shut(p) <=> PricesStale(p) /\ H = 0
    BY DEF Shut
  <2> HIDE DEF H, D, L, cap, liq, free, stale, minimum
  <2>3. QED BY <1>9, <2>1, <2>2
<1>11. free = IF Dry(p) THEN liq ELSE cap
  OBVIOUS
<1> HIDE DEF H, D, L, cap, liq, free, stale, minimum
<1>12. CASE Shut(p)
  <2>1. /\ Reason(p, "borrow", "base") = "priceStale"
        /\ Validates(p, "borrow", "base", k) <=> (k * 1) * 1 <= 0
    BY <1>1, <1>4, <1>7, <1>10, <1>12, Binds DEF Protocol
  <2>2. QED BY <1>12, <2>1
<1>13. CASE ~Shut(p) /\ Below(p)
  <2>1. /\ Reason(p, "borrow", "base") = "baseBorrowMin"
        /\ Validates(p, "borrow", "base", k) <=> (k * 1) * 1 <= 0
    BY <1>1, <1>4, <1>7, <1>10, <1>13, Binds DEF Protocol
  <2>2. QED BY <1>13, <2>1
<1>14. CASE ~Shut(p) /\ ~Below(p) /\ Dry(p)
  <2>1. /\ Reason(p, "borrow", "base") = "liquidity"
        /\ Validates(p, "borrow", "base", k) <=> (k * 1) * (1 * 1000) <= L * 999
    BY <1>1, <1>5, <1>7, <1>10, <1>11, <1>14, Binds DEF Protocol
  <2>2. QED BY <1>1, <1>14, <2>1 DEF L
<1>15. CASE ~Shut(p) /\ ~Below(p) /\ ~Dry(p)
  <2>1. /\ Reason(p, "borrow", "base") = "capacity"
        /\ Validates(p, "borrow", "base", k) <=> (k * 1) * (10 * 1000) <= H * 999
    BY <1>1, <1>3, <1>7, <1>10, <1>11, <1>15, Binds DEF Protocol
  <2>2. QED BY <1>1, <1>15, <2>1 DEF H
<1>16. QED BY <1>12, <1>13, <1>14, <1>15

(* The account and the market as they are, and what a read says of them.               *)
LEMMA StateIs ==
  ASSUME chain \in State
  PROVE  /\ Position(chain) /\ chain.base \in Int
         /\ \A c \in Colls : chain.coll[c] \in Nat /\ Balance(chain, c) = chain.coll[c] /\ chain.room[c] \in Nat
         /\ \A a \in Assets : chain.wallet[a] \in Nat
         /\ chain.net \in Int /\ chain.held \in Nat /\ chain.min \in Nat
<1>1. /\ chain.base \in Int /\ chain.coll \in [Colls -> Nat] /\ chain.wallet \in [Assets -> Nat]
      /\ chain.price \in [Colls -> Prices] /\ chain.stale \in SUBSET Colls
      /\ chain.net \in Int /\ chain.held \in Nat /\ chain.min \in Nat /\ chain.room \in [Colls -> Nat]
  BY DEF State
<1>2. Nat \subseteq Int
  OBVIOUS
<1>3. chain.coll \in [Colls -> Int]
  BY <1>1, <1>2
<1>4. \A c \in Colls : c # "base"
  BY LaneActionsAssumption
<1>5. Position(chain)
  BY <1>1, <1>3 DEF Position
<1>6. QED BY <1>1, <1>4, <1>5 DEF Balance

LEMMA CapacityNat ==
  ASSUME NEW p, Position(p), \A c \in Colls : p.coll[c] >= 0
  PROVE  Capacity(p) \in Nat
<1>1. Summable(Weight(p), Colls) /\ Capacity(p) = SumFunctionOnSet(Weight(p), Colls)
  BY CapacityIs
<1>2. ASSUME NEW c \in Colls PROVE Weight(p)[c] \in Nat
  <2>1. p.coll[c] \in Nat /\ p.price[c] \in Nat /\ Factor[c] \in Nat
    BY Numbers
  <2>2. p.coll[c] * p.price[c] * Factor[c] \in Nat
    BY <2>1
  <2>3. QED BY <2>2 DEF Weight
<1>3. QED BY <1>1, <1>2, SumNat

LEMMA FreshIs ==
  ASSUME TypeOK, Fresh
  PROVE  /\ Debt(seen) = Debt(chain) /\ Supplied(seen) = Supplied(chain)
         /\ Capacity(seen) = Capacity(chain) /\ Headroom(seen) = Headroom(chain)
         /\ PricesStale(seen) <=> PricesStale(chain)
         /\ seen.coll = chain.coll /\ seen.wallet = chain.wallet /\ seen.stale = chain.stale /\ seen.price = chain.price
         /\ seen.net \in {Floor0(chain.net), Unknown} /\ seen.held \in {chain.held, Unknown}
         /\ seen.min \in {chain.min, Unknown}
         /\ \A c \in Colls : seen.room[c] \in {chain.room[c], Unknown}
         /\ \A a \in Assets : PriceOf(seen, a) = PriceOf(chain, a)
<1>1. /\ seen["base"] = chain["base"] /\ seen["coll"] = chain["coll"] /\ seen["wallet"] = chain["wallet"]
      /\ seen["price"] = chain["price"] /\ seen["stale"] = chain["stale"]
  BY DEF Fresh
<1>2. /\ seen.base = chain.base /\ seen.coll = chain.coll /\ seen.wallet = chain.wallet
      /\ seen.price = chain.price /\ seen.stale = chain.stale
  BY <1>1
<1>3. Seen(chain)["net"] = Floor0(chain.net) /\ Seen(chain)["held"] = chain.held /\ Seen(chain)["min"] = chain.min
  BY DEF Seen, TypeOK, State
<1>4. /\ seen["net"] \in {Seen(chain)["net"], Unknown} /\ seen["held"] \in {Seen(chain)["held"], Unknown}
      /\ seen["min"] \in {Seen(chain)["min"], Unknown}
  BY DEF Fresh
<1>5. /\ seen.net \in {Floor0(chain.net), Unknown} /\ seen.held \in {chain.held, Unknown}
      /\ seen.min \in {chain.min, Unknown}
  BY <1>3, <1>4
<1>6. \A c \in Colls : seen.room[c] \in {chain.room[c], Unknown}
  BY DEF Fresh
<1>7. Debt(seen) = Debt(chain) /\ Supplied(seen) = Supplied(chain)
  BY <1>2 DEF Debt, Supplied
<1>8. Capacity(seen) = Capacity(chain)
  BY <1>2, CapacityStays
<1>9. Headroom(seen) = Headroom(chain) /\ (PricesStale(seen) <=> PricesStale(chain))
  BY <1>2, <1>7, <1>8 DEF Headroom, PricesStale
<1>10. \A a \in Assets : PriceOf(seen, a) = PriceOf(chain, a)
  BY <1>2 DEF PriceOf
<1>11. QED BY <1>2, <1>5, <1>6, <1>7, <1>8, <1>9, <1>10

(* What a transaction leaves, and what Comet asks of it.                             *)
LEMMA DrawnIs ==
  ASSUME TypeOK, NEW k \in Nat, NEW t \in {"withdraw", "borrow"}
  PROVE  /\ Drawn(t, k) \in Nat /\ Drawn(t, k) >= k
         /\ Drawn(t, k) = IF t = "borrow" /\ lane = "solana" THEN Supplied(chain) + k ELSE k
<1>1. Supplied(chain) \in Nat
  BY StateIs, FiguresAre DEF TypeOK
<1>2. QED BY <1>1 DEF Drawn

LEMMA AfterOut ==
  ASSUME TypeOK, NEW k \in Nat, NEW t \in {"withdraw", "borrow"}, NEW q, q = After(t, "base", k)
  PROVE  /\ q.base = chain.base - Drawn(t, k) /\ q.held = chain.held - Drawn(t, k)
         /\ q.net = chain.net - Drawn(t, k) /\ q.min = chain.min /\ q.room = chain.room
         /\ q.wallet["base"] = chain.wallet["base"] + k
         /\ q.coll = chain.coll /\ q.price = chain.price /\ q.stale = chain.stale
         /\ DOMAIN q = DOMAIN chain
<1>1. q = [chain EXCEPT !.base = chain.base - Drawn(t, k), !.wallet["base"] = @ + k,
                        !.net = chain.net - Drawn(t, k), !.held = chain.held - Drawn(t, k)]
  BY DEF After
<1>2. chain.wallet \in [Assets -> Nat] /\ "base" \in Assets
  BY DEF TypeOK, State, Assets
<1>3. QED BY <1>1, <1>2 DEF TypeOK, State

LEMMA AfterIn ==
  ASSUME TypeOK, NEW k \in Nat, NEW t \in {"supply", "repay"}, NEW q, q = After(t, "base", k)
  PROVE  /\ q.base = chain.base + k /\ q.held = chain.held + k
         /\ q.net = chain.net + k /\ q.min = chain.min /\ q.room = chain.room
         /\ q.wallet["base"] = chain.wallet["base"] - k
         /\ q.coll = chain.coll /\ q.price = chain.price /\ q.stale = chain.stale
         /\ DOMAIN q = DOMAIN chain
<1>1. q = [chain EXCEPT !.base = chain.base + k, !.wallet["base"] = @ - k,
                        !.net = chain.net + k, !.held = chain.held + k]
  BY DEF After
<1>2. chain.wallet \in [Assets -> Nat] /\ "base" \in Assets
  BY DEF TypeOK, State, Assets
<1>3. QED BY <1>1, <1>2 DEF TypeOK, State

LEMMA AfterSupply ==
  ASSUME TypeOK, NEW k \in Nat, NEW c \in Colls, NEW q, q = After("supply", c, k),
         NEW n \in Int, n = k
  PROVE  /\ q.coll[c] = chain.coll[c] + n /\ q.wallet[c] = chain.wallet[c] - n /\ q.room[c] = chain.room[c] - n
         /\ \A x \in Colls \ {c} : q.coll[x] = chain.coll[x] /\ q.room[x] = chain.room[x]
         /\ \A x \in Assets \ {c} : q.wallet[x] = chain.wallet[x]
         /\ q.coll \in [Colls -> Int] /\ q.room \in [Colls -> Int] /\ q.wallet \in [Assets -> Int]
         /\ q.base = chain.base /\ q.price = chain.price /\ q.stale = chain.stale
         /\ q.net = chain.net /\ q.held = chain.held /\ q.min = chain.min
         /\ DOMAIN q = DOMAIN chain
<1>1. c # "base" /\ c \in Assets
  BY LaneActionsAssumption DEF Assets
<1>2. q = [chain EXCEPT !.coll[c] = @ + n, !.wallet[c] = @ - n, !.room[c] = @ - n]
  BY <1>1 DEF After
<1>3. /\ q.coll = [chain.coll EXCEPT ![c] = @ + n] /\ q.wallet = [chain.wallet EXCEPT ![c] = @ - n]
      /\ q.room = [chain.room EXCEPT ![c] = @ - n]
      /\ q.base = chain.base /\ q.price = chain.price /\ q.stale = chain.stale
      /\ q.net = chain.net /\ q.held = chain.held /\ q.min = chain.min
      /\ DOMAIN q = DOMAIN chain
  BY <1>2 DEF TypeOK, State
<1>4. chain.coll \in [Colls -> Nat] /\ chain.wallet \in [Assets -> Nat] /\ chain.room \in [Colls -> Nat]
  BY DEF TypeOK, State
<1>5. QED BY <1>1, <1>3, <1>4

LEMMA AfterWithdraw ==
  ASSUME TypeOK, NEW k \in Nat, NEW c \in Colls, NEW q, q = After("withdraw", c, k),
         NEW n \in Int, n = -k
  PROVE  /\ q.coll[c] = chain.coll[c] + n /\ q.wallet[c] = chain.wallet[c] - n /\ q.room[c] = chain.room[c] - n
         /\ \A x \in Colls \ {c} : q.coll[x] = chain.coll[x] /\ q.room[x] = chain.room[x]
         /\ \A x \in Assets \ {c} : q.wallet[x] = chain.wallet[x]
         /\ q.coll \in [Colls -> Int] /\ q.room \in [Colls -> Int] /\ q.wallet \in [Assets -> Int]
         /\ q.base = chain.base /\ q.price = chain.price /\ q.stale = chain.stale
         /\ q.net = chain.net /\ q.held = chain.held /\ q.min = chain.min
         /\ DOMAIN q = DOMAIN chain
<1>1. c # "base" /\ c \in Assets
  BY LaneActionsAssumption DEF Assets
<1>2. q = [chain EXCEPT !.coll[c] = @ + n, !.wallet[c] = @ - n, !.room[c] = @ - n]
  BY <1>1 DEF After
<1>3. /\ q.coll = [chain.coll EXCEPT ![c] = @ + n] /\ q.wallet = [chain.wallet EXCEPT ![c] = @ - n]
      /\ q.room = [chain.room EXCEPT ![c] = @ - n]
      /\ q.base = chain.base /\ q.price = chain.price /\ q.stale = chain.stale
      /\ q.net = chain.net /\ q.held = chain.held /\ q.min = chain.min
      /\ DOMAIN q = DOMAIN chain
  BY <1>2 DEF TypeOK, State
<1>4. chain.coll \in [Colls -> Nat] /\ chain.wallet \in [Assets -> Nat] /\ chain.room \in [Colls -> Nat]
  BY DEF TypeOK, State
<1>5. QED BY <1>1, <1>3, <1>4

LEMMA BaseNoCollateral == "base" \in Assets /\ \A c \in Colls : c # "base" /\ c \in Assets
BY LaneActionsAssumption DEF Assets

LEMMA AcceptsIn ==
  ASSUME TypeOK, NEW k \in Nat, NEW t \in {"supply", "repay"}
  PROVE  Accepts(t, "base", k) <=> k <= chain.wallet["base"]
<1> DEFINE q == After(t, "base", k)
<1>1. q.held = chain.held + k /\ q.wallet["base"] = chain.wallet["base"] - k
  BY AfterIn
<1>2. chain.held \in Nat /\ chain.wallet["base"] \in Nat /\ chain.wallet \in [Assets -> Nat]
  BY BaseNoCollateral DEF TypeOK, State
<1>3. Accepts(t, "base", k) <=> q.wallet["base"] >= 0 /\ q.held >= 0
  BY DEF Accepts
<1>4. QED BY <1>1, <1>2, <1>3

LEMMA AcceptsSupply ==
  ASSUME TypeOK, NEW k \in Nat, NEW c \in Colls
  PROVE  Accepts("supply", c, k) <=> k <= chain.wallet[c] /\ k <= chain.room[c]
<1> DEFINE q == After("supply", c, k)
<1>1. /\ q.coll[c] = chain.coll[c] + k /\ q.wallet[c] = chain.wallet[c] - k
      /\ q.room[c] = chain.room[c] - k /\ q.held = chain.held
  BY AfterSupply
<1>2. /\ chain.coll \in [Colls -> Nat] /\ chain.wallet \in [Assets -> Nat] /\ chain.room \in [Colls -> Nat]
      /\ chain.held \in Nat /\ c \in Assets /\ c # "base"
  BY BaseNoCollateral DEF TypeOK, State
<1>4. Accepts("supply", c, k) <=> q.wallet[c] >= 0 /\ q.held >= 0 /\ q.coll[c] >= 0 /\ q.room[c] >= 0
  BY <1>2 DEF Accepts
<1>5. chain.coll[c] \in Nat /\ chain.wallet[c] \in Nat /\ chain.room[c] \in Nat
  BY <1>2
<1>6. QED BY <1>1, <1>2, <1>4, <1>5

LEMMA DebtAfter ==
  ASSUME TypeOK, NEW k \in Nat, NEW t \in {"withdraw", "borrow"}
  PROVE  /\ Debt(After(t, "base", k)) =
              IF Drawn(t, k) > chain.base THEN Drawn(t, k) - chain.base ELSE 0
         /\ Capacity(After(t, "base", k)) = Capacity(chain)
         /\ After(t, "base", k).base = chain.base - Drawn(t, k)
<1> DEFINE q == After(t, "base", k)
<1>1. q.base = chain.base - Drawn(t, k) /\ q.coll = chain.coll /\ q.price = chain.price /\ q.stale = chain.stale
  BY AfterOut
<1>2. chain.base \in Int /\ Drawn(t, k) \in Int
  BY DrawnIs, StateIs DEF TypeOK
<1>3. Debt(q) = Floor0(-(chain.base - Drawn(t, k)))
  BY <1>1 DEF Debt
<1>4. QED BY <1>1, <1>2, <1>3, CapacityStays DEF Floor0

LEMMA AcceptsOut ==
  ASSUME TypeOK, NEW k \in Nat, NEW t \in {"withdraw", "borrow"}
  PROVE  Accepts(t, "base", k) <=>
           /\ Drawn(t, k) <= chain.held
           /\ Drawn(t, k) > chain.base => Drawn(t, k) - chain.base >= chain.min
           /\ 10 * (IF Drawn(t, k) > chain.base THEN Drawn(t, k) - chain.base ELSE 0) <= Capacity(chain)
<1> DEFINE q == After(t, "base", k)
<1>1. /\ q.base = chain.base - Drawn(t, k) /\ q.held = chain.held - Drawn(t, k)
      /\ q.wallet["base"] = chain.wallet["base"] + k
  <2>1. q = After(t, "base", k)
    OBVIOUS
  <2> HIDE DEF q
  <2>2. QED BY <2>1, AfterOut
<1>2. /\ chain.base \in Int /\ Drawn(t, k) \in Int /\ chain.held \in Nat /\ chain.min \in Nat
      /\ chain.wallet \in [Assets -> Nat] /\ chain.wallet["base"] \in Nat
  BY DrawnIs, StateIs, BaseNoCollateral DEF TypeOK, State
<1>4. /\ Debt(q) = IF Drawn(t, k) > chain.base THEN Drawn(t, k) - chain.base ELSE 0
      /\ Capacity(q) = Capacity(chain)
  BY DebtAfter
<1>5. Accepts(t, "base", k) <=> /\ q.wallet["base"] >= 0 /\ q.held >= 0
                                /\ q.base < 0 => Debt(q) >= chain.min
                                /\ 10 * Debt(q) <= Capacity(q)
  BY DEF Accepts
<1>6. q.base < 0 <=> Drawn(t, k) > chain.base
  BY <1>1, <1>2
<1>7. q.held >= 0 <=> Drawn(t, k) <= chain.held
  BY <1>1, <1>2
<1>8. q.wallet["base"] >= 0
  BY <1>1, <1>2
<1>9. QED BY <1>4, <1>5, <1>6, <1>7, <1>8

LEMMA CollateralAfter ==
  ASSUME TypeOK, NEW k \in Nat, NEW c \in Colls
  PROVE  /\ Debt(After("withdraw", c, k)) = Debt(chain)
         /\ After("withdraw", c, k).coll[c] = chain.coll[c] - k
         /\ k <= chain.coll[c] => \A x \in Colls : After("withdraw", c, k).coll[x] >= 0
         /\ Position(After("withdraw", c, k))
         /\ Capacity(After("withdraw", c, k)) =
              Capacity(chain) - (IF c \in chain.stale THEN 0 ELSE k * chain.price[c] * Factor[c])
<1> DEFINE q == After("withdraw", c, k)
<1> DEFINE n == -k
<1>0. n \in Int /\ n = -k
  OBVIOUS
<1>1. /\ q.coll[c] = chain.coll[c] + n /\ q.coll \in [Colls -> Int]
      /\ \A x \in Colls \ {c} : q.coll[x] = chain.coll[x]
      /\ q.base = chain.base /\ q.price = chain.price /\ q.stale = chain.stale
  <2> HIDE DEF n, q
  <2>1. q = After("withdraw", c, k)
    BY DEF q
  <2>2. QED BY <1>0, <2>1, AfterWithdraw
<1>2. chain.coll \in [Colls -> Nat] /\ Position(chain)
  BY StateIs DEF TypeOK, State
<1>3. chain.coll[c] \in Nat
  BY <1>2
<1>4. q.coll[c] = chain.coll[c] - k
  BY <1>1, <1>3
<1>5. Debt(q) = Debt(chain)
  BY <1>1 DEF Debt
<1>6. \A x \in Colls : x # c => q.coll[x] = chain.coll[x]
  BY <1>1
<1>7. k <= chain.coll[c] => \A x \in Colls : q.coll[x] >= 0
  BY <1>2, <1>3, <1>4, <1>6
<1>8. q.coll \in [Colls -> Int]
  BY <1>1
<1>9. Position(q)
  BY <1>1, <1>2, <1>8 DEF Position
<1>10. q.coll = [chain.coll EXCEPT ![c] = @ + n]
  <2> HIDE DEF n, q
  <2>1. QED BY <1>1, <1>2
<1>11. Capacity(q) = Capacity(chain) + (IF c \in chain.stale THEN 0 ELSE n * chain.price[c] * Factor[c])
  <2> HIDE DEF n, q
  <2>1. QED BY <1>0, <1>1, <1>2, <1>9, <1>10, CapacityMoves
<1>12. chain.price[c] \in Int /\ Factor[c] \in Int
  BY <1>2, Numbers
<1>13. (-k) * chain.price[c] * Factor[c] = -(k * chain.price[c] * Factor[c]) /\ k * chain.price[c] * Factor[c] \in Int
  BY <1>12
<1>14. Capacity(chain) \in Int
  BY <1>2, CapacityIs
<1>15. QED BY <1>4, <1>5, <1>7, <1>9, <1>11, <1>13, <1>14

LEMMA AcceptsWithdraw ==
  ASSUME TypeOK, NEW k \in Nat, NEW c \in Colls
  PROVE  Accepts("withdraw", c, k) <=>
           /\ k <= chain.coll[c]
           /\ 10 * Debt(chain) <= Capacity(After("withdraw", c, k))
           /\ Debt(chain) > 0 => ~PricesStale(chain) /\ c \notin chain.stale
<1> DEFINE q == After("withdraw", c, k)
<1> DEFINE n == -k
<1>0. n \in Int /\ n = -k
  OBVIOUS
<1>1. q.wallet[c] = chain.wallet[c] - n /\ q.held = chain.held
  <2> HIDE DEF n, q
  <2>1. q = After("withdraw", c, k)
    BY DEF q
  <2>2. QED BY <1>0, <2>1, AfterWithdraw
<1>2. /\ chain.wallet \in [Assets -> Nat] /\ chain.held \in Nat /\ c \in Assets /\ c # "base"
      /\ chain.coll[c] \in Nat
  BY BaseNoCollateral DEF TypeOK, State
<1>3. chain.wallet[c] \in Nat
  BY <1>2
<1>5. q.wallet[c] >= 0 /\ q.held >= 0
  BY <1>1, <1>2, <1>3
<1>6. q.coll[c] = chain.coll[c] - k /\ Debt(q) = Debt(chain)
  BY CollateralAfter
<1>7. Accepts("withdraw", c, k) <=> /\ q.wallet[c] >= 0 /\ q.held >= 0 /\ q.coll[c] >= 0
                                    /\ 10 * Debt(q) <= Capacity(q)
                                    /\ Debt(chain) > 0 => ~PricesStale(chain) /\ c \notin chain.stale
  BY <1>2 DEF Accepts
<1>8. q.coll[c] >= 0 <=> k <= chain.coll[c]
  BY <1>2, <1>6
<1>9. QED BY <1>5, <1>6, <1>7, <1>8

(* The actions there are: any of the four on the base, and two on collateral.          *)
LEMMA ActionsAre ==
  ASSUME NEW t \in ActionType, NEW a \in Assets, Offered(t, a)
  PROVE  \/ a = "base" /\ t = "supply"
         \/ a = "base" /\ t = "repay"
         \/ a = "base" /\ t = "withdraw"
         \/ a = "base" /\ t = "borrow"
         \/ a \in Colls /\ a # "base" /\ t = "supply"
         \/ a \in Colls /\ a # "base" /\ t = "withdraw"
BY DEF ActionType, Offered, Assets

LEMMA AmountIs == ASSUME NEW k \in Amounts PROVE k \in Nat \ {0}
<1>1. MaxAmount \in Nat
  BY LaneActionsAssumption
<1>2. QED BY <1>1 DEF Amounts

(* A unit and a thousandth more is more than the haircut takes.                       *)
LEMMA MoreIs ==
  ASSUME NEW k \in Nat
  PROVE  More(k) \in Nat /\ More(k) > k /\ k * 1000 <= More(k) * 999
<1>1. k \div 999 \in Nat /\ k % 999 \in 0 .. 998 /\ k = 999 * (k \div 999) + (k % 999)
  OBVIOUS
<1>2. PICK d \in Nat : d = k \div 999
  BY <1>1
<1>3. PICK r \in 0 .. 998 : r = k % 999
  BY <1>1
<1>4. k = 999 * d + r /\ More(k) = k + 1 + d
  BY <1>1, <1>2, <1>3 DEF More
<1>5. QED BY <1>2, <1>3, <1>4

(* The dollar value, by factor, of some collateral.                                  *)
Worth(c, w) ==
  /\ \A k \in Nat : /\ k * chain.price[c] * Factor[c] = k * w
                    /\ (k * PriceOf(chain, c)) * Factor[c] = k * w
                    /\ (k * PriceOf(chain, c)) * (Factor[c] * 1000) = (k * w) * 1000
  /\ \A x, y \in Nat : x <= y <=> x * w <= y * w

LEMMA WorthIs ==
  ASSUME TypeOK, NEW c \in Colls, c \notin chain.stale
  PROVE  \E w \in Nat \ {0} : Worth(c, w)
<1>1. PICK p \in Nat \ {0} : p = chain.price[c]
  BY StateIs, Numbers DEF TypeOK
<1>2. PICK f \in Nat \ {0} : f = Factor[c]
  BY StateIs, Numbers DEF TypeOK
<1>3. PriceOf(chain, c) = p
  BY <1>1, BaseNoCollateral DEF PriceOf
<1>4. PICK w \in Nat : w = p * f
  BY <1>1, <1>2
<1>5. w # 0
  BY <1>1, <1>2, <1>4
<1>6. ASSUME NEW k \in Nat
      PROVE  /\ k * p * f = k * w /\ (k * p) * f = k * w
             /\ (k * p) * (f * 1000) = (k * w) * 1000
  <2>1. k * p * f = k * w /\ (k * p) * f = k * w
    BY <1>1, <1>2, <1>4
  <2>2. (k * p) * (f * 1000) = ((k * p) * f) * 1000
    BY <1>1, <1>2
  <2>3. QED BY <2>1, <2>2
<1>7. \A x, y \in Nat : x <= y <=> x * w <= y * w
  BY <1>4, <1>5, Cancels
<1>8. Worth(c, w)
  BY <1>1, <1>2, <1>3, <1>6, <1>7 DEF Worth
<1>9. QED BY <1>4, <1>5, <1>8

(* Allowed, by action.                                                             *)
LEMMA FloorIs == ASSUME NEW n \in Int PROVE Floor0(n) \in Nat /\ n <= Floor0(n) /\ (n >= 0 => Floor0(n) = n)
BY DEF Floor0

LEMMA LandsIn ==
  ASSUME TypeOK, Fresh, NEW k \in Nat \ {0}, NEW t \in {"supply", "repay"}, Validates(seen, t, "base", k)
  PROVE  Accepts(t, "base", k)
<1>1. seen \in View /\ seen.wallet = chain.wallet
  BY FreshIs DEF TypeOK
<1>2. Debt(seen) \in Nat /\ seen.wallet["base"] \in Nat
  BY <1>1, ViewIs, FiguresAre, BaseNoCollateral
<1>3. k <= seen.wallet["base"]
  <2>1. CASE t = "supply"
    <3>1. ~Capped(seen, "base")
      BY DEF Capped
    <3>2. QED BY <1>1, <2>1, <3>1, SupplyLets, BaseNoCollateral
  <2>2. CASE t = "repay"
    BY <1>1, <1>2, <2>2, RepayLets
  <2>3. QED BY <2>1, <2>2
<1>4. QED BY <1>1, <1>3, AcceptsIn

LEMMA LandsSupply ==
  ASSUME TypeOK, Fresh, NEW k \in Nat \ {0}, NEW c \in Colls, Validates(seen, "supply", c, k),
         seen.room[c] # Unknown
  PROVE  Accepts("supply", c, k)
<1>1. seen \in View /\ seen.wallet = chain.wallet /\ seen.room[c] = chain.room[c]
  BY FreshIs DEF TypeOK
<1>2. chain.wallet[c] \in Nat /\ chain.room[c] \in Nat /\ c # "base" /\ c \in Assets
  BY StateIs, BaseNoCollateral DEF TypeOK
<1>3. Capped(seen, c) <=> chain.room[c] < chain.wallet[c]
  BY <1>1, <1>2 DEF Capped
<1>4. IF Capped(seen, c) THEN k * 1000 <= chain.room[c] * 999 ELSE k <= chain.wallet[c]
  BY <1>1, <1>2, SupplyLets
<1>5. QED BY <1>2, <1>3, <1>4, AcceptsSupply

LEMMA LandsWithdrawBase ==
  ASSUME TypeOK, Fresh, NEW k \in Nat \ {0}, Validates(seen, "withdraw", "base", k),
         seen.held # Unknown, ~NoLiquidity(seen)
  PROVE  Accepts("withdraw", "base", k)
<1>1. /\ seen \in View /\ seen.held = chain.held /\ Supplied(seen) = Supplied(chain)
      /\ seen.net \in {Floor0(chain.net), Unknown}
  BY FreshIs DEF TypeOK
<1>2. chain.held \in Nat /\ chain.net \in Int /\ Floor0(chain.net) \in Nat /\ chain.base \in Int
  BY StateIs, FloorIs DEF TypeOK
<1>3. /\ Supplied(chain) \in Nat /\ Debt(chain) \in Nat /\ chain.base = Supplied(chain) - Debt(chain)
      /\ Supplied(chain) = 0 \/ Debt(chain) = 0
  BY StateIs, FiguresAre DEF TypeOK
<1>4. Liquid(seen) \in Nat /\ Liquid(seen) <= chain.held
  BY <1>1, <1>2 DEF Liquid, Unknown
<1>5. k <= Supplied(chain) /\ k <= Liquid(seen)
  <2>1. IF Illiquid(seen) THEN k * 1000 <= Liquid(seen) * 999 ELSE k <= Supplied(seen)
    BY <1>1, WithdrawLets
  <2>2. Illiquid(seen) <=> Liquid(seen) < Supplied(chain)
    BY <1>1 DEF Illiquid
  <2>3. QED BY <1>1, <1>3, <1>4, <2>1, <2>2
<1>6. Drawn("withdraw", k) = k /\ k <= chain.base
  BY <1>3, <1>5 DEF Drawn
<1>7. Capacity(chain) \in Nat
  BY StateIs, CapacityNat DEF TypeOK
<1>8. QED BY <1>2, <1>4, <1>5, <1>6, <1>7, AcceptsOut

LEMMA LandsBorrow ==
  ASSUME TypeOK, Fresh, NEW k \in Nat \ {0}, Validates(seen, "borrow", "base", k),
         Debt(After("borrow", "base", k)) \notin 1 .. chain.min - 1, Drawn("borrow", k) <= chain.held
  PROVE  Accepts("borrow", "base", k)
<1>1. seen \in View /\ Headroom(seen) = Headroom(chain)
  BY FreshIs DEF TypeOK
<1>2. /\ Supplied(chain) \in Nat /\ Debt(chain) \in Nat /\ chain.base = Supplied(chain) - Debt(chain)
      /\ Supplied(chain) = 0 \/ Debt(chain) = 0
      /\ Headroom(chain) = IF Capacity(chain) > 10 * Debt(chain) THEN Capacity(chain) - 10 * Debt(chain) ELSE 0
      /\ Capacity(chain) \in Nat
  BY StateIs, FiguresAre, CapacityNat DEF TypeOK
<1>3. 10 * k <= Headroom(chain)
  <2>1. IF Dry(seen) THEN k * 1000 <= Liquid(seen) * 999 ELSE k * 10000 <= Headroom(seen) * 999
    BY <1>1, BorrowLets
  <2>2. Dry(seen) => Liquid(seen) * 10 < Headroom(seen)
    BY DEF Dry
  <2>3. Liquid(seen) \in Nat
    BY <1>1, LiquidityIs
  <2>4. QED BY <1>1, <1>2, <2>1, <2>2, <2>3
<1>4. 10 * (Debt(chain) + k) <= Capacity(chain)
  BY <1>2, <1>3
<1>5. Drawn("borrow", k) = IF lane = "solana" THEN Supplied(chain) + k ELSE k
  BY DEF Drawn
<1>6. Drawn("borrow", k) - chain.base <= Debt(chain) + k /\ Drawn("borrow", k) \in Int
  BY <1>2, <1>5
<1>7. Debt(After("borrow", "base", k)) = IF Drawn("borrow", k) > chain.base THEN Drawn("borrow", k) - chain.base ELSE 0
  BY DebtAfter
<1>8. chain.min \in Nat /\ chain.base \in Int
  BY StateIs DEF TypeOK
<1>9. Drawn("borrow", k) > chain.base => Drawn("borrow", k) - chain.base >= chain.min
  BY <1>6, <1>7, <1>8
<1>10. 10 * (IF Drawn("borrow", k) > chain.base THEN Drawn("borrow", k) - chain.base ELSE 0) <= Capacity(chain)
  BY <1>2, <1>4, <1>6, <1>8
<1>11. QED BY <1>9, <1>10, AcceptsOut

LEMMA LandsWithdraw ==
  ASSUME TypeOK, Fresh, NEW k \in Nat \ {0}, NEW c \in Colls, Validates(seen, "withdraw", c, k)
  PROVE  Accepts("withdraw", c, k)
<1>1. /\ seen \in View /\ Headroom(seen) = Headroom(chain) /\ Debt(seen) = Debt(chain)
      /\ PricesStale(seen) <=> PricesStale(chain)
      /\ seen.coll = chain.coll /\ seen.stale = chain.stale /\ PriceOf(seen, c) = PriceOf(chain, c)
  BY FreshIs, BaseNoCollateral DEF TypeOK
<1>2. /\ Debt(chain) \in Nat /\ Headroom(chain) \in Nat /\ Capacity(chain) \in Nat /\ chain.coll[c] \in Nat
      /\ Headroom(chain) = IF Capacity(chain) > 10 * Debt(chain) THEN Capacity(chain) - 10 * Debt(chain) ELSE 0
  BY StateIs, FiguresAre, CapacityNat DEF TypeOK
<1>3. ~Blocked(seen, c) /\ (IF Strained(seen, c) THEN (k * PriceOf(seen, c)) * (Factor[c] * 1000) <= Headroom(seen) * 999
                            ELSE k <= seen.coll[c])
  BY <1>1, CollateralLets
<1>4. CASE Debt(chain) = 0
  <2>1. ~Strained(seen, c)
    BY <1>1, <1>4 DEF Strained
  <2>2. k <= chain.coll[c]
    BY <1>1, <1>3, <2>1
  <2>3. Capacity(After("withdraw", c, k)) >= 0
    BY <2>2, CollateralAfter, CapacityNat
  <2>4. QED BY <1>4, <2>2, <2>3, AcceptsWithdraw
<1>5. CASE Debt(chain) > 0
  <2>1. c \notin chain.stale /\ ~PricesStale(chain)
    <3> SUFFICES ASSUME c \in chain.stale \/ PricesStale(chain) PROVE FALSE
      OBVIOUS
    <3>1. ~Strained(seen, c)
      BY <1>1 DEF Strained
    <3>2. k <= chain.coll[c]
      BY <1>1, <1>3, <3>1
    <3>3. chain.coll[c] > 0
      BY <1>2, <3>2
    <3>4. Blocked(seen, c)
      BY <1>1, <1>5, <3>3 DEF Blocked
    <3>5. QED BY <1>3, <3>4
  <2>2. PICK w \in Nat \ {0} : Worth(c, w)
    BY <2>1, WorthIs
  <2>3. k * w \in Nat \ {0} /\ chain.coll[c] * w \in Nat
    BY <1>2
  <2>4. Strained(seen, c) <=> chain.coll[c] * w > Headroom(chain)
    <3>1. (chain.coll[c] * PriceOf(chain, c)) * Factor[c] = chain.coll[c] * w
      BY <1>2, <2>2 DEF Worth
    <3>2. QED BY <1>1, <1>5, <2>1, <3>1 DEF Strained
  <2>5. k * w <= Headroom(chain) /\ k <= chain.coll[c]
    <3>1. CASE Strained(seen, c)
      <4>1. (k * w) * 1000 <= Headroom(chain) * 999
        BY <1>1, <1>3, <2>2, <3>1 DEF Worth
      <4>2. k * w <= Headroom(chain)
        BY <1>2, <2>3, <4>1
      <4>3. k * w <= chain.coll[c] * w
        BY <1>2, <2>3, <2>4, <3>1, <4>2
      <4>4. QED BY <1>2, <2>2, <4>2, <4>3 DEF Worth
    <3>2. CASE ~Strained(seen, c)
      <4>1. k <= chain.coll[c]
        BY <1>1, <1>3, <3>2
      <4>2. k * w <= chain.coll[c] * w
        BY <1>2, <2>2, <4>1 DEF Worth
      <4>3. QED BY <1>2, <2>3, <2>4, <3>2, <4>1, <4>2
    <3>3. QED BY <3>1, <3>2
  <2>6. Capacity(After("withdraw", c, k)) = Capacity(chain) - k * w
    <3>1. k * chain.price[c] * Factor[c] = k * w
      BY <2>2 DEF Worth
    <3>2. QED BY <2>1, <3>1, CollateralAfter
  <2>7. 10 * Debt(chain) <= Capacity(After("withdraw", c, k))
    BY <1>2, <2>3, <2>5, <2>6
  <2>8. QED BY <2>1, <2>5, <2>7, AcceptsWithdraw
<1>6. QED BY <1>2, <1>4, <1>5

LEMMA AllowedIsRight == TypeOK => AllowedLands
<1> SUFFICES ASSUME TypeOK, NEW t \in ActionType, NEW a \in Assets, NEW k \in Amounts,
                    Fresh, Validates(seen, t, a, k), ~Unchecked(t, a, k)
             PROVE  Accepts(t, a, k)
  BY DEF AllowedLands
<1>1. k \in Nat \ {0} /\ Offered(t, a)
  BY AmountIs DEF Validates
<1>2. CASE a = "base" /\ t \in {"supply", "repay"}
  BY <1>1, <1>2, LandsIn
<1>3. CASE a = "base" /\ t = "withdraw"
  <2>1. seen.held # Unknown /\ ~NoLiquidity(seen)
    BY <1>3 DEF Unchecked, NoLiquidity
  <2>2. QED BY <1>1, <1>3, <2>1, LandsWithdrawBase
<1>4. CASE a = "base" /\ t = "borrow"
  <2>1. Debt(After("borrow", "base", k)) \notin 1 .. chain.min - 1 /\ ~(Drawn("borrow", k) > chain.held)
    BY <1>4 DEF Unchecked
  <2>2. Drawn("borrow", k) \in Nat /\ chain.held \in Nat
    BY <1>1, DrawnIs, StateIs DEF TypeOK
  <2>3. QED BY <1>1, <1>4, <2>1, <2>2, LandsBorrow
<1>5. CASE a \in Colls /\ a # "base" /\ t = "supply"
  <2>1. seen.room[a] # Unknown
    BY <1>5 DEF Unchecked
  <2>2. QED BY <1>1, <1>5, <2>1, LandsSupply
<1>6. CASE a \in Colls /\ a # "base" /\ t = "withdraw"
  BY <1>1, <1>6, LandsWithdraw
<1>7. QED BY <1>1, <1>2, <1>3, <1>4, <1>5, <1>6, ActionsAre

(* Refused for cause: what Comet takes a little more of is not refused.                *)
LEMMA CauseIn ==
  ASSUME TypeOK, Fresh, NEW k \in Nat \ {0}, NEW t \in {"supply", "repay"}, Accepts(t, "base", More(k)),
         t = "repay" => k <= Debt(chain)
  PROVE  Validates(seen, t, "base", k)
<1>1. seen \in View /\ seen.wallet = chain.wallet /\ Debt(seen) = Debt(chain)
  BY FreshIs DEF TypeOK
<1>2. chain.wallet["base"] \in Nat /\ Debt(chain) \in Nat
  BY StateIs, FiguresAre, BaseNoCollateral DEF TypeOK
<1>3. More(k) \in Nat /\ More(k) > k
  BY MoreIs
<1>4. k <= chain.wallet["base"]
  BY <1>2, <1>3, AcceptsIn
<1>5. CASE t = "supply"
  <2>1. ~Capped(seen, "base")
    BY DEF Capped
  <2>2. QED BY <1>1, <1>4, <1>5, <2>1, SupplyLets, BaseNoCollateral
<1>6. CASE t = "repay"
  BY <1>1, <1>4, <1>6, RepayLets
<1>7. QED BY <1>5, <1>6

LEMMA CauseSupply ==
  ASSUME TypeOK, Fresh, NEW k \in Nat \ {0}, NEW c \in Colls, Accepts("supply", c, More(k))
  PROVE  Validates(seen, "supply", c, k)
<1>1. seen \in View /\ seen.wallet = chain.wallet /\ seen.room[c] \in {chain.room[c], Unknown}
  BY FreshIs DEF TypeOK
<1>2. chain.wallet[c] \in Nat /\ chain.room[c] \in Nat /\ c # "base" /\ c \in Assets
  BY StateIs, BaseNoCollateral DEF TypeOK
<1>3. More(k) \in Nat /\ More(k) > k /\ k * 1000 <= More(k) * 999
  BY MoreIs
<1>4. More(k) <= chain.wallet[c] /\ More(k) <= chain.room[c]
  BY <1>3, AcceptsSupply
<1>5. Capped(seen, c) => seen.room[c] = chain.room[c]
  BY <1>1 DEF Capped
<1>6. k * 1000 <= chain.room[c] * 999 /\ k <= chain.wallet[c]
  BY <1>2, <1>3, <1>4
<1>7. QED BY <1>1, <1>2, <1>5, <1>6, SupplyLets

LEMMA CauseWithdrawBase ==
  ASSUME TypeOK, Fresh, NEW k \in Nat \ {0}, Accepts("withdraw", "base", More(k)),
         seen.net # Unknown, k <= Supplied(chain), More(k) <= chain.net
  PROVE  Validates(seen, "withdraw", "base", k)
<1>1. /\ seen \in View /\ seen.held \in {chain.held, Unknown} /\ Supplied(seen) = Supplied(chain)
      /\ seen.net = Floor0(chain.net)
  BY FreshIs DEF TypeOK
<1>2. chain.held \in Nat /\ chain.net \in Int /\ Floor0(chain.net) >= chain.net /\ Floor0(chain.net) \in Nat
  BY StateIs, FloorIs DEF TypeOK
<1>3. More(k) \in Nat /\ More(k) > k /\ k * 1000 <= More(k) * 999
  BY MoreIs
<1>4. Drawn("withdraw", More(k)) = More(k)
  BY DEF Drawn
<1>5. More(k) <= chain.held
  BY <1>3, <1>4, AcceptsOut
<1>6. Liquid(seen) \in Nat /\ More(k) <= Liquid(seen)
  BY <1>1, <1>2, <1>3, <1>5 DEF Liquid, Unknown
<1>7. k * 1000 <= Liquid(seen) * 999
  BY <1>3, <1>6
<1>8. QED BY <1>1, <1>7, WithdrawLets

LEMMA CauseBorrow ==
  ASSUME TypeOK, Fresh, NEW k \in Nat \ {0}, Accepts("borrow", "base", More(k)),
         seen.net # Unknown, More(k) <= chain.net, Supplied(chain) = 0, chain.stale = {}
  PROVE  Validates(seen, "borrow", "base", k)
<1>1. /\ seen \in View /\ seen.held \in {chain.held, Unknown} /\ seen.min \in {chain.min, Unknown}
      /\ seen.net = Floor0(chain.net) /\ Debt(seen) = Debt(chain) /\ Headroom(seen) = Headroom(chain)
      /\ PricesStale(seen) <=> PricesStale(chain)
  BY FreshIs DEF TypeOK
<1>2. /\ chain.held \in Nat /\ chain.net \in Int /\ Floor0(chain.net) >= chain.net /\ Floor0(chain.net) \in Nat
      /\ chain.min \in Nat
  BY StateIs, FloorIs DEF TypeOK
<1>3. More(k) \in Nat /\ More(k) > k /\ k * 1000 <= More(k) * 999
  BY MoreIs
<1>4. Drawn("borrow", More(k)) = More(k)
  BY <1>3 DEF Drawn
<1>5. /\ Debt(chain) \in Nat /\ chain.base = -Debt(chain) /\ Capacity(chain) \in Int
      /\ Headroom(chain) = IF Capacity(chain) > 10 * Debt(chain) THEN Capacity(chain) - 10 * Debt(chain) ELSE 0
  BY StateIs, FiguresAre, CapacityIs DEF TypeOK
<1>6. /\ More(k) <= chain.held /\ More(k) + Debt(chain) >= chain.min
      /\ 10 * (More(k) + Debt(chain)) <= Capacity(chain)
  BY <1>3, <1>4, <1>5, AcceptsOut
<1>7. 10 * More(k) <= Headroom(chain)
  BY <1>3, <1>5, <1>6
<1>8. Liquid(seen) \in Nat /\ More(k) <= Liquid(seen)
  BY <1>1, <1>2, <1>3, <1>6 DEF Liquid, Unknown
<1>9. ~Shut(seen)
  BY <1>1 DEF Shut, PricesStale
<1>10. ~Below(seen)
  <2>1. CASE seen.min = Unknown
    BY <1>1, <1>5, <2>1 DEF Below, Unknown
  <2>2. CASE seen.min = chain.min
    <3>1. ~(chain.min - Debt(chain) > Liquid(seen)) /\ ~((chain.min - Debt(chain)) * 10 > Headroom(chain))
      BY <1>2, <1>3, <1>5, <1>6, <1>7, <1>8
    <3>2. QED BY <1>1, <2>2, <3>1 DEF Below
  <2>3. QED BY <1>1, <2>1, <2>2
<1>11. k * 1000 <= Liquid(seen) * 999 /\ k * 10000 <= Headroom(chain) * 999
  BY <1>3, <1>5, <1>7, <1>8
<1>12. QED BY <1>1, <1>9, <1>10, <1>11, BorrowLets

LEMMA CauseWithdraw ==
  ASSUME TypeOK, Fresh, NEW k \in Nat \ {0}, NEW c \in Colls, Accepts("withdraw", c, More(k)), chain.stale = {}
  PROVE  Validates(seen, "withdraw", c, k)
<1>1. /\ seen \in View /\ Headroom(seen) = Headroom(chain) /\ Debt(seen) = Debt(chain)
      /\ seen.coll = chain.coll /\ seen.stale = {} /\ PriceOf(seen, c) = PriceOf(chain, c)
  BY FreshIs, BaseNoCollateral DEF TypeOK
<1>2. /\ Debt(chain) \in Nat /\ Headroom(chain) \in Nat /\ Capacity(chain) \in Nat /\ chain.coll[c] \in Nat
      /\ Headroom(chain) = IF Capacity(chain) > 10 * Debt(chain) THEN Capacity(chain) - 10 * Debt(chain) ELSE 0
  BY StateIs, FiguresAre, CapacityNat DEF TypeOK
<1>3. More(k) \in Nat /\ More(k) > k /\ k * 1000 <= More(k) * 999
  BY MoreIs
<1>4. More(k) <= chain.coll[c] /\ 10 * Debt(chain) <= Capacity(After("withdraw", c, More(k)))
  BY <1>3, AcceptsWithdraw
<1>5. ~Blocked(seen, c)
  BY <1>1 DEF Blocked, PricesStale
<1>6. k <= seen.coll[c]
  BY <1>1, <1>2, <1>3, <1>4
<1>7. Strained(seen, c) => (k * PriceOf(chain, c)) * (Factor[c] * 1000) <= Headroom(chain) * 999
  <2>1. PICK w \in Nat \ {0} : Worth(c, w)
    BY WorthIs
  <2>2. (k * PriceOf(chain, c)) * (Factor[c] * 1000) = (k * w) * 1000
    BY <2>1 DEF Worth
  <2>3. Capacity(After("withdraw", c, More(k))) = Capacity(chain) - More(k) * w
    <3>1. More(k) * chain.price[c] * Factor[c] = More(k) * w
      BY <1>3, <2>1 DEF Worth
    <3>2. QED BY <1>3, <3>1, CollateralAfter
  <2>4. More(k) * w \in Nat /\ k * w \in Nat
    BY <1>3
  <2>5. More(k) * w <= Headroom(chain)
    BY <1>2, <1>4, <2>3, <2>4
  <2>6. (k * 1000) * w <= (More(k) * 999) * w
    <3>1. k * 1000 \in Nat /\ More(k) * 999 \in Nat
      BY <1>3
    <3>2. QED BY <1>3, <3>1, Cancels
  <2>7. (k * 1000) * w = (k * w) * 1000 /\ (More(k) * 999) * w = (More(k) * w) * 999
    BY <1>3
  <2>8. QED BY <1>2, <2>2, <2>4, <2>5, <2>6, <2>7
<1>8. QED BY <1>1, <1>5, <1>6, <1>7, CollateralLets

LEMMA CauseIsRight == TypeOK => RefusedForCause
<1> SUFFICES ASSUME TypeOK, NEW t \in ActionType, NEW a \in Assets, NEW k \in Amounts,
                    Fresh, chain.stale = {}, Unknown \notin {seen.net, seen.min},
                    Offered(t, a), Accepts(t, a, More(k)),
                    t = "repay" => k <= Debt(chain),
                    t = "withdraw" /\ a = "base" => k <= Supplied(chain),
                    t \in {"borrow", "withdraw"} /\ a = "base" => More(k) <= chain.net,
                    t = "borrow" => Supplied(chain) = 0
             PROVE  Validates(seen, t, a, k)
  BY DEF RefusedForCause
<1>1. k \in Nat \ {0} /\ seen.net # Unknown
  BY AmountIs
<1>2. CASE a = "base" /\ t \in {"supply", "repay"}
  BY <1>1, <1>2, CauseIn
<1>3. CASE a = "base" /\ t = "withdraw"
  BY <1>1, <1>3, CauseWithdrawBase
<1>4. CASE a = "base" /\ t = "borrow"
  BY <1>1, <1>4, CauseBorrow
<1>5. CASE a \in Colls /\ a # "base" /\ t = "supply"
  BY <1>1, <1>5, CauseSupply
<1>6. CASE a \in Colls /\ a # "base" /\ t = "withdraw"
  BY <1>1, <1>6, CauseWithdraw
<1>7. QED BY <1>2, <1>3, <1>4, <1>5, <1>6, ActionsAre

(* A stale feed closes neither a supply nor a repayment, nor any way out of an account    *)
(* without debt: none of these verdicts looks at what is stale.                       *)
LEMMA ExitsStayOpen == TypeOK => StaleFeedKeepsExits
<1> SUFFICES ASSUME TypeOK, NEW t \in ActionType, NEW a \in Assets, NEW k \in Amounts,
                    t \in {"supply", "repay"} \/ (t = "withdraw" /\ Debt(seen) = 0)
             PROVE  Validates(seen, t, a, k) <=> Validates([seen EXCEPT !.stale = {}], t, a, k)
  BY DEF StaleFeedKeepsExits
<1> DEFINE live == [seen EXCEPT !.stale = {}]
<1>1. k \in Nat \ {0} /\ seen \in View
  BY AmountIs DEF TypeOK
<1>2. /\ live \in View /\ live.base = seen.base /\ live.coll = seen.coll /\ live.wallet = seen.wallet
      /\ live.net = seen.net /\ live.held = seen.held /\ live.min = seen.min /\ live.room = seen.room
  BY <1>1 DEF View
<1>0. [seen EXCEPT !.stale = {}] = live
  OBVIOUS
<1> HIDE DEF live
<1> SUFFICES Validates(seen, t, a, k) <=> Validates(live, t, a, k)
  BY <1>0
<1>3. Debt(live) = Debt(seen) /\ Supplied(live) = Supplied(seen)
  BY <1>2 DEF Debt, Supplied
<1>4. CASE ~Offered(t, a)
  BY <1>4 DEF Validates
<1>5. CASE a = "base" /\ t = "supply"
  BY <1>1, <1>2, <1>5, SupplyLets DEF Capped
<1>6. CASE a = "base" /\ t = "repay"
  BY <1>1, <1>2, <1>3, <1>6, RepayLets
<1>7. CASE a = "base" /\ t = "withdraw"
  <2>1. Illiquid(live) = Illiquid(seen) /\ Liquid(live) = Liquid(seen)
    BY <1>2, <1>3 DEF Illiquid, Liquid, NoLiquidity
  <2>2. QED BY <1>1, <1>2, <1>3, <1>7, <2>1, WithdrawLets
<1>8. CASE a \in Colls /\ a # "base" /\ t = "supply"
  BY <1>1, <1>2, <1>8, SupplyLets DEF Capped
<1>9. CASE a \in Colls /\ a # "base" /\ t = "withdraw"
  <2>1. ~Blocked(seen, a) /\ ~Strained(seen, a) /\ ~Blocked(live, a) /\ ~Strained(live, a)
    BY <1>3, <1>9 DEF Blocked, Strained
  <2>2. QED BY <1>1, <1>2, <1>9, <2>1, CollateralLets
<1>10. QED BY <1>4, <1>5, <1>6, <1>7, <1>8, <1>9, ActionsAre

(* The reason of a refusal, and what makes it true.                                  *)
ReasonHolds(t, a, k) ==
  LET why == Reason(seen, t, a)
  IN \/ why = "wallet" /\ k > chain.wallet[a]
     \/ why = "supplied" /\ k > Balance(chain, a)
     \/ why = "debt" /\ k > Debt(chain)
     \/ why = "supplyCap" /\ Beyond(k, chain.room[a])
     \/ why = "liquidity" /\ (Beyond(k, chain.net) \/ Beyond(k, chain.held))
     \/ why = "capacity" /\ Beyond(10 * k, Capacity(chain) - 10 * Debt(chain))
     \/ why = "health" /\ Beyond(Capacity(chain) - Capacity(After(t, a, k)), Capacity(chain) - 10 * Debt(chain))
     \/ why = "baseBorrowMin" /\ \A n \in Amounts : n <= chain.net /\ Supplied(chain) = 0 => ~Accepts(t, a, n)
     \/ why = "priceStale" /\ chain.stale # {}

LEMMA ReasonIn ==
  ASSUME TypeOK, Fresh, NEW k \in Nat \ {0}, NEW t \in {"supply", "repay"}, ~Validates(seen, t, "base", k)
  PROVE  ReasonHolds(t, "base", k)
<1>1. seen \in View /\ seen.wallet = chain.wallet /\ Debt(seen) = Debt(chain)
  BY FreshIs DEF TypeOK
<1>2. chain.wallet["base"] \in Nat /\ Debt(chain) \in Nat
  BY StateIs, FiguresAre, BaseNoCollateral DEF TypeOK
<1>3. CASE t = "supply"
  <2>1. ~Capped(seen, "base")
    BY DEF Capped
  <2>2. Reason(seen, t, "base") = "wallet" /\ ~(k <= chain.wallet["base"])
    BY <1>1, <1>3, <2>1, SupplyLets, BaseNoCollateral
  <2>3. QED BY <1>2, <2>2 DEF ReasonHolds
<1>4. CASE t = "repay"
  <2>1. \/ Reason(seen, t, "base") = "debt" /\ ~(k <= Debt(chain))
        \/ Reason(seen, t, "base") = "wallet" /\ ~(k <= chain.wallet["base"])
    BY <1>1, <1>4, RepayLets
  <2>2. QED BY <1>2, <2>1 DEF ReasonHolds
<1>5. QED BY <1>3, <1>4

LEMMA ReasonSupply ==
  ASSUME TypeOK, Fresh, NEW k \in Nat \ {0}, NEW c \in Colls, ~Validates(seen, "supply", c, k)
  PROVE  ReasonHolds("supply", c, k)
<1>1. seen \in View /\ seen.wallet = chain.wallet /\ seen.room[c] \in {chain.room[c], Unknown}
  BY FreshIs DEF TypeOK
<1>2. chain.wallet[c] \in Nat /\ chain.room[c] \in Nat /\ c # "base" /\ c \in Assets
  BY StateIs, BaseNoCollateral DEF TypeOK
<1>3. Capped(seen, c) => seen.room[c] = chain.room[c]
  BY <1>1 DEF Capped
<1>4. \/ Reason(seen, "supply", c) = "supplyCap" /\ ~(k * 1000 <= chain.room[c] * 999)
      \/ Reason(seen, "supply", c) = "wallet" /\ ~(k <= chain.wallet[c])
  BY <1>1, <1>2, <1>3, SupplyLets
<1>5. QED BY <1>2, <1>4 DEF ReasonHolds, Beyond

LEMMA ReasonWithdrawBase ==
  ASSUME TypeOK, Fresh, NEW k \in Nat \ {0}, ~Validates(seen, "withdraw", "base", k), seen.net # Unknown
  PROVE  ReasonHolds("withdraw", "base", k)
<1>1. /\ seen \in View /\ seen.held \in {chain.held, Unknown} /\ Supplied(seen) = Supplied(chain)
      /\ seen.net = Floor0(chain.net)
  BY FreshIs DEF TypeOK
<1>2. chain.held \in Nat /\ chain.net \in Int /\ Floor0(chain.net) >= chain.net /\ Floor0(chain.net) \in Nat
  BY StateIs, FloorIs DEF TypeOK
<1>3. Supplied(chain) \in Nat /\ Balance(chain, "base") = Supplied(chain)
  BY StateIs, FiguresAre DEF TypeOK, Balance
<1>4. Liquid(seen) \in {Floor0(chain.net), chain.held}
  BY <1>1 DEF Liquid
<1>5. CASE Illiquid(seen)
  <2>1. Reason(seen, "withdraw", "base") = "liquidity" /\ ~(k * 1000 <= Liquid(seen) * 999)
    BY <1>1, <1>5, WithdrawLets
  <2>2. k * 1000 > chain.net * 999 \/ k * 1000 > chain.held * 999
    BY <1>2, <1>4, <2>1
  <2>3. QED BY <2>1, <2>2 DEF ReasonHolds, Beyond
<1>6. CASE ~Illiquid(seen)
  <2>1. Reason(seen, "withdraw", "base") = "supplied" /\ ~(k <= Supplied(seen))
    BY <1>1, <1>6, WithdrawLets
  <2>2. QED BY <1>1, <1>3, <2>1 DEF ReasonHolds
<1>7. QED BY <1>5, <1>6

LEMMA ReasonBorrow ==
  ASSUME TypeOK, Fresh, NEW k \in Nat \ {0}, ~Validates(seen, "borrow", "base", k), seen.net # Unknown
  PROVE  ReasonHolds("borrow", "base", k)
<1>1. /\ seen \in View /\ seen.held \in {chain.held, Unknown} /\ seen.min \in {chain.min, Unknown}
      /\ seen.net = Floor0(chain.net) /\ Debt(seen) = Debt(chain) /\ Headroom(seen) = Headroom(chain)
      /\ seen.stale = chain.stale
  BY FreshIs DEF TypeOK
<1>2. /\ chain.held \in Nat /\ chain.net \in Int /\ Floor0(chain.net) >= chain.net /\ Floor0(chain.net) \in Nat
      /\ chain.min \in Nat
  BY StateIs, FloorIs DEF TypeOK
<1>3. /\ Supplied(chain) \in Nat /\ Debt(chain) \in Nat /\ chain.base = Supplied(chain) - Debt(chain) /\ Capacity(chain) \in Int
      /\ Headroom(chain) = IF Capacity(chain) > 10 * Debt(chain) THEN Capacity(chain) - 10 * Debt(chain) ELSE 0
  BY StateIs, FiguresAre, CapacityIs DEF TypeOK
<1>4. Liquid(seen) \in {Floor0(chain.net), chain.held}
  BY <1>1 DEF Liquid
<1>5. CASE Shut(seen)
  <2>1. Reason(seen, "borrow", "base") = "priceStale"
    BY <1>1, <1>5, BorrowLets
  <2>2. chain.stale # {}
    BY <1>1, <1>5 DEF Shut, PricesStale
  <2>3. QED BY <2>1, <2>2 DEF ReasonHolds
<1>6. CASE ~Shut(seen) /\ Below(seen)
  <2>1. Reason(seen, "borrow", "base") = "baseBorrowMin"
    BY <1>1, <1>6, BorrowLets
  <2>2. ASSUME NEW n \in Amounts, n <= chain.net, Supplied(chain) = 0, Accepts("borrow", "base", n) PROVE FALSE
    <3>1. n \in Nat \ {0}
      BY AmountIs
    <3>2. Drawn("borrow", n) = n
      BY <2>2, <3>1 DEF Drawn
    <3>3. n <= chain.held /\ n + Debt(chain) >= chain.min /\ 10 * (n + Debt(chain)) <= Capacity(chain)
      BY <1>3, <2>2, <3>1, <3>2, AcceptsOut
    <3>4. 10 * n <= Headroom(chain) /\ n <= Liquid(seen) /\ Liquid(seen) \in Nat
      BY <1>2, <1>3, <1>4, <2>2, <3>1, <3>3
    <3>5. seen.min = chain.min
      BY <1>1, <1>3, <1>6 DEF Below, Unknown
    <3>6. ~(chain.min - Debt(chain) > Liquid(seen)) /\ ~((chain.min - Debt(chain)) * 10 > Headroom(chain))
      BY <1>2, <1>3, <3>1, <3>3, <3>4
    <3>7. QED BY <1>1, <1>6, <3>5, <3>6 DEF Below
  <2>3. QED BY <2>1, <2>2 DEF ReasonHolds
<1>7. CASE ~Shut(seen) /\ ~Below(seen) /\ Dry(seen)
  <2>1. Reason(seen, "borrow", "base") = "liquidity" /\ ~(k * 1000 <= Liquid(seen) * 999)
    BY <1>1, <1>7, BorrowLets
  <2>2. k * 1000 > chain.net * 999 \/ k * 1000 > chain.held * 999
    BY <1>2, <1>4, <2>1
  <2>3. QED BY <2>1, <2>2 DEF ReasonHolds, Beyond
<1>8. CASE ~Shut(seen) /\ ~Below(seen) /\ ~Dry(seen)
  <2>1. Reason(seen, "borrow", "base") = "capacity" /\ ~(k * 10000 <= Headroom(chain) * 999)
    BY <1>1, <1>8, BorrowLets
  <2>2. (10 * k) * 1000 > (Capacity(chain) - 10 * Debt(chain)) * 999
    BY <1>3, <2>1
  <2>3. QED BY <2>1, <2>2 DEF ReasonHolds, Beyond
<1>9. QED BY <1>5, <1>6, <1>7, <1>8

LEMMA ReasonWithdraw ==
  ASSUME TypeOK, Fresh, NEW k \in Nat \ {0}, NEW c \in Colls, ~Validates(seen, "withdraw", c, k)
  PROVE  ReasonHolds("withdraw", c, k)
<1>1. /\ seen \in View /\ Headroom(seen) = Headroom(chain) /\ Debt(seen) = Debt(chain)
      /\ PricesStale(seen) <=> PricesStale(chain)
      /\ seen.coll = chain.coll /\ seen.stale = chain.stale /\ PriceOf(seen, c) = PriceOf(chain, c)
  BY FreshIs, BaseNoCollateral DEF TypeOK
<1>2. /\ Debt(chain) \in Nat /\ Headroom(chain) \in Nat /\ Capacity(chain) \in Nat /\ chain.coll[c] \in Nat
      /\ Headroom(chain) = IF Capacity(chain) > 10 * Debt(chain) THEN Capacity(chain) - 10 * Debt(chain) ELSE 0
      /\ Balance(chain, c) = chain.coll[c]
  BY StateIs, FiguresAre, CapacityNat DEF TypeOK
<1>3. CASE Blocked(seen, c)
  <2>1. Reason(seen, "withdraw", c) = "priceStale"
    BY <1>1, <1>3, CollateralLets
  <2>2. chain.stale # {}
    BY <1>1, <1>3 DEF Blocked, PricesStale
  <2>3. QED BY <2>1, <2>2 DEF ReasonHolds
<1>4. CASE ~Blocked(seen, c) /\ Strained(seen, c)
  <2>1. Reason(seen, "withdraw", c) = "health" /\ ~((k * PriceOf(chain, c)) * (Factor[c] * 1000) <= Headroom(chain) * 999)
    BY <1>1, <1>4, CollateralLets
  <2>2. c \notin chain.stale
    BY <1>1, <1>4 DEF Strained
  <2>3. PICK w \in Nat \ {0} : Worth(c, w)
    BY <2>2, WorthIs
  <2>4. k * chain.price[c] * Factor[c] = k * w /\ (k * PriceOf(chain, c)) * (Factor[c] * 1000) = (k * w) * 1000
    BY <2>3 DEF Worth
  <2>5. Capacity(After("withdraw", c, k)) = Capacity(chain) - k * w /\ k * w \in Nat
    BY <2>2, <2>4, CollateralAfter
  <2>6. (Capacity(chain) - Capacity(After("withdraw", c, k))) * 1000 > (Capacity(chain) - 10 * Debt(chain)) * 999
    BY <1>2, <2>1, <2>4, <2>5
  <2>7. QED BY <2>1, <2>6 DEF ReasonHolds, Beyond
<1>5. CASE ~Blocked(seen, c) /\ ~Strained(seen, c)
  <2>1. Reason(seen, "withdraw", c) = "supplied" /\ ~(k <= seen.coll[c])
    BY <1>1, <1>5, CollateralLets
  <2>2. QED BY <1>1, <1>2, <2>1 DEF ReasonHolds
<1>6. QED BY <1>3, <1>4, <1>5

LEMMA ReasonIsRight == TypeOK => ReasonIsTrue
<1>1. ASSUME TypeOK, NEW t \in ActionType, NEW a \in Assets, NEW k \in Amounts,
             Fresh, Offered(t, a), ~Validates(seen, t, a, k),
             a = "base" /\ t \in {"borrow", "withdraw"} => seen.net # Unknown
      PROVE  ReasonHolds(t, a, k)
  <2>1. k \in Nat \ {0}
    BY AmountIs
  <2>2. CASE a = "base" /\ t \in {"supply", "repay"}
    BY <1>1, <2>1, <2>2, ReasonIn
  <2>3. CASE a = "base" /\ t = "withdraw"
    BY <1>1, <2>1, <2>3, ReasonWithdrawBase
  <2>4. CASE a = "base" /\ t = "borrow"
    BY <1>1, <2>1, <2>4, ReasonBorrow
  <2>5. CASE a \in Colls /\ a # "base" /\ t = "supply"
    BY <1>1, <2>1, <2>5, ReasonSupply
  <2>6. CASE a \in Colls /\ a # "base" /\ t = "withdraw"
    BY <1>1, <2>1, <2>6, ReasonWithdraw
  <2>7. QED BY <1>1, <2>2, <2>3, <2>4, <2>5, <2>6, ActionsAre
<1>2. ASSUME NEW t, NEW a, NEW k, ReasonHolds(t, a, k) PROVE Explained(t, a, k)
  BY <1>2 DEF Explained, ReasonHolds
<1>3. QED BY <1>1, <1>2 DEF ReasonIsTrue

(* What the panel said the action leaves.                                           *)
LEMMA ComesTrueBorrow ==
  ASSUME TypeOK, Fresh, NEW k \in Nat \ {0}
  PROVE  \/ Debt(After("borrow", "base", k)) = Debt(seen) + k
         \/ /\ lane = "evm" /\ Supplied(chain) > 0
            /\ Debt(After("borrow", "base", k)) < Debt(seen) + k
<1>1. Debt(seen) = Debt(chain) /\ lane \in {"evm", "solana"}
  BY FreshIs, LaneActionsAssumption DEF TypeOK
<1>2. /\ Supplied(chain) \in Nat /\ Debt(chain) \in Nat /\ chain.base = Supplied(chain) - Debt(chain)
      /\ Supplied(chain) = 0 \/ Debt(chain) = 0
  BY StateIs, FiguresAre DEF TypeOK
<1>3. Debt(After("borrow", "base", k)) = IF Drawn("borrow", k) > chain.base THEN Drawn("borrow", k) - chain.base ELSE 0
  BY DebtAfter
<1>4. Drawn("borrow", k) = IF lane = "solana" THEN Supplied(chain) + k ELSE k
  BY DEF Drawn
<1>5. QED BY <1>1, <1>2, <1>3, <1>4

LEMMA ComesTrueRepay ==
  ASSUME TypeOK, Fresh, NEW k \in Nat \ {0}, Validates(seen, "repay", "base", k)
  PROVE  Debt(After("repay", "base", k)) = Floor0(Debt(seen) - k)
<1>1. seen \in View /\ Debt(seen) = Debt(chain) /\ seen.wallet = chain.wallet
  BY FreshIs DEF TypeOK
<1>2. /\ Supplied(chain) \in Nat /\ Debt(chain) \in Nat /\ chain.base = Supplied(chain) - Debt(chain)
      /\ Supplied(chain) = 0 \/ Debt(chain) = 0
      /\ chain.wallet["base"] \in Nat
  BY StateIs, FiguresAre, BaseNoCollateral DEF TypeOK
<1>3. k <= Debt(chain)
  BY <1>1, <1>2, RepayLets
<1>4. After("repay", "base", k).base = chain.base + k
  BY AfterIn
<1>5. QED BY <1>1, <1>2, <1>3, <1>4 DEF Debt, Floor0

LEMMA ComesTrueWithdrawBase ==
  ASSUME TypeOK, Fresh, NEW k \in Nat \ {0}, Validates(seen, "withdraw", "base", k)
  PROVE  /\ Supplied(After("withdraw", "base", k)) = Floor0(Supplied(seen) - k)
         /\ Debt(After("withdraw", "base", k)) = Debt(chain)
<1>1. seen \in View /\ Supplied(seen) = Supplied(chain)
  BY FreshIs DEF TypeOK
<1>2. /\ Supplied(chain) \in Nat /\ Debt(chain) \in Nat /\ chain.base = Supplied(chain) - Debt(chain)
      /\ Supplied(chain) = 0 \/ Debt(chain) = 0
  BY StateIs, FiguresAre DEF TypeOK
<1>3. k <= Supplied(chain)
  <2>1. IF Illiquid(seen) THEN k * 1000 <= Liquid(seen) * 999 ELSE k <= Supplied(seen)
    BY <1>1, WithdrawLets
  <2>2. Illiquid(seen) => Liquid(seen) < Supplied(chain)
    BY <1>1 DEF Illiquid
  <2>3. Liquid(seen) \in Nat
    BY <1>1, LiquidityIs
  <2>4. QED BY <1>1, <1>2, <2>1, <2>2, <2>3
<1>4. After("withdraw", "base", k).base = chain.base - k
  <2>1. Drawn("withdraw", k) = k
    BY DEF Drawn
  <2>2. QED BY <2>1, DebtAfter
<1>5. Debt(chain) = 0 /\ chain.base = Supplied(chain)
  BY <1>2, <1>3
<1>6. Supplied(After("withdraw", "base", k)) = Floor0(Supplied(seen) - k)
  BY <1>1, <1>4, <1>5 DEF Supplied
<1>7. Debt(After("withdraw", "base", k)) = 0
  BY <1>2, <1>3, <1>4, <1>5 DEF Debt, Floor0
<1>8. QED BY <1>5, <1>6, <1>7

LEMMA ComesTrueWithdraw ==
  ASSUME TypeOK, Fresh, NEW k \in Nat \ {0}, NEW c \in Colls, Accepts("withdraw", c, k)
  PROVE  /\ Balance(After("withdraw", c, k), c) = Floor0(Balance(seen, c) - k)
         /\ Debt(After("withdraw", c, k)) = Debt(chain)
<1>1. seen.coll = chain.coll /\ chain.coll[c] \in Nat /\ c # "base"
  BY FreshIs, StateIs, BaseNoCollateral DEF TypeOK
<1>2. k <= chain.coll[c]
  BY AcceptsWithdraw
<1>3. After("withdraw", c, k).coll[c] = chain.coll[c] - k /\ Debt(After("withdraw", c, k)) = Debt(chain)
  BY CollateralAfter
<1>4. Floor0(chain.coll[c] - k) = chain.coll[c] - k
  BY <1>1, <1>2 DEF Floor0
<1>5. QED BY <1>1, <1>3, <1>4 DEF Balance

LEMMA ConsequencesAreRight == TypeOK => ConsequencesComeTrue
<1> SUFFICES ASSUME TypeOK, NEW t \in ActionType \ {"supply"}, NEW a \in Assets, NEW k \in Amounts,
                    Fresh, Validates(seen, t, a, k), Accepts(t, a, k)
             PROVE  IF t = "withdraw"
                    THEN Balance(After(t, a, k), a) = Told(seen, t, a, k) /\ Debt(After(t, a, k)) = Debt(chain)
                    ELSE \/ Debt(After(t, a, k)) = Told(seen, t, a, k)
                         \/ /\ t = "borrow" /\ lane = "evm" /\ Supplied(chain) > 0
                            /\ Debt(After(t, a, k)) < Told(seen, t, a, k)
  BY DEF ConsequencesComeTrue
<1>1. k \in Nat \ {0} /\ Offered(t, a)
  BY AmountIs DEF Validates
<1>2. CASE a = "base" /\ t = "repay"
  BY <1>1, <1>2, ComesTrueRepay DEF Told
<1>3. CASE a = "base" /\ t = "withdraw"
  BY <1>1, <1>3, ComesTrueWithdrawBase DEF Told, Balance
<1>4. CASE a = "base" /\ t = "borrow"
  BY <1>1, <1>4, ComesTrueBorrow DEF Told
<1>5. CASE a \in Colls /\ a # "base" /\ t = "withdraw"
  BY <1>1, <1>5, ComesTrueWithdraw DEF Told
<1>6. QED BY <1>1, <1>2, <1>3, <1>4, <1>5, ActionsAre

(* Type correctness.  What a read returns of a state is a view.                       *)
LEMMA FeedsAre ==
  /\ Feeds \subseteq Colls /\ Lanes \subseteq {"evm", "solana"}
  /\ StartAccts \subseteq [base: Int, coll: [Colls -> Nat], wallet: [Assets -> Nat]]
  /\ StartMarkets \subseteq [net: Int, held: Nat, min: Nat, room: [Colls -> Nat]]
BY LaneActionsAssumption

LEMMA SeenIs == ASSUME NEW c \in State PROVE Seen(c) \in View
<1>1. c.net \in Int /\ Floor0(c.net) \in Nat
  BY FloorIs DEF State
<1>2. Seen(c) = [c EXCEPT !.net = Floor0(c.net)]
  BY DEF Seen
<1>3. QED BY <1>1, <1>2 DEF State, View

(* A view is one whatever figures of it are missing.                                 *)
LEMMA StillView ==
  ASSUME NEW v \in View
  PROVE  /\ [v EXCEPT !.held = Unknown] \in View /\ [v EXCEPT !.min = Unknown] \in View /\ [v EXCEPT !.min = 0] \in View
         /\ [v EXCEPT !.net = Unknown, !.min = Unknown] \in View /\ [v EXCEPT !.base = 0] \in View
         /\ [v EXCEPT !.net = Unknown, !.held = Unknown, !.room = [x \in Colls |-> Unknown]] \in View
         /\ [v EXCEPT !.room = [x \in Colls |-> Unknown]] \in View
         /\ [v EXCEPT !.wallet = [x \in Assets |-> 0]] \in View
<1>1. [x \in Colls |-> Unknown] \in [Colls -> Nat \cup {Unknown}] /\ [x \in Assets |-> 0] \in [Assets -> Nat]
  OBVIOUS
<1>2. Unknown \in Nat \cup {Unknown} /\ 0 \in Nat \cup {Unknown} /\ 0 \in Int
  OBVIOUS
<1>3. ASSUME NEW r \in [Colls -> Nat \cup {Unknown}]
      PROVE  /\ [v EXCEPT !.room = r] \in View
             /\ [v EXCEPT !.net = Unknown, !.held = Unknown, !.room = r] \in View
  BY <1>2 DEF View
<1>4. ASSUME NEW w \in [Assets -> Nat] PROVE [v EXCEPT !.wallet = w] \in View
  BY DEF View
<1>5. /\ [v EXCEPT !.held = Unknown] \in View /\ [v EXCEPT !.min = Unknown] \in View /\ [v EXCEPT !.min = 0] \in View
      /\ [v EXCEPT !.net = Unknown, !.min = Unknown] \in View /\ [v EXCEPT !.base = 0] \in View
  BY <1>2 DEF View
<1>6. QED BY <1>1, <1>3, <1>4, <1>5

LEMMA StillViewOf ==
  ASSUME NEW v \in View, NEW x \in Colls
  PROVE  [v EXCEPT !.coll[x] = 0] \in View /\ [v EXCEPT !.stale = @ \cup {x}] \in View
<1>1. [v.coll EXCEPT ![x] = 0] \in [Colls -> Nat] /\ v.stale \cup {x} \in SUBSET Colls
  BY DEF View
<1>2. ASSUME NEW b \in [Colls -> Nat] PROVE [v EXCEPT !.coll = b] \in View
  BY DEF View
<1>3. ASSUME NEW b \in SUBSET Colls PROVE [v EXCEPT !.stale = b] \in View
  BY DEF View
<1>4. [v EXCEPT !.coll[x] = 0] = [v EXCEPT !.coll = [v.coll EXCEPT ![x] = 0]]
  BY DEF View
<1>5. QED BY <1>1, <1>2, <1>3, <1>4

LEMMA ReadsAre == ASSUME NEW c \in State PROVE Reads(c) \subseteq View
<1>1. Seen(c) \in View
  BY SeenIs
<1>2. EvmReads(c) \subseteq View
  <2> DEFINE s == Seen(c)
             reserves == {s, [s EXCEPT !.held = Unknown],
                          [s EXCEPT !.net = Unknown, !.held = Unknown, !.room = [x \in Colls |-> Unknown]]}
  <2>1. \A r \in reserves : r \in View
    <3>1. s \in View
      BY <1>1
    <3> HIDE DEF s
    <3>2. QED BY <3>1, StillView
  <2>2. EvmReads(c) = reserves \cup {[r EXCEPT !.min = Unknown] : r \in reserves}
    BY DEF EvmReads
  <2> HIDE DEF reserves
  <2>3. QED BY <2>1, <2>2, StillView
<1>3. SolanaReads(c) \subseteq View
  <2> DEFINE s == [Seen(c) EXCEPT !.room = [x \in Colls |-> Unknown]]
  <2>1. s \in View
    BY <1>1, StillView
  <2>2. SolanaReads(c) =
          {s, [s EXCEPT !.held = Unknown], [s EXCEPT !.net = Unknown, !.min = Unknown],
           [s EXCEPT !.min = 0], [s EXCEPT !.base = 0], [s EXCEPT !.wallet = [x \in Assets |-> 0]]}
          \cup {[s EXCEPT !.coll[x] = 0] : x \in Colls}
          \cup {[s EXCEPT !.stale = @ \cup {x}] : x \in Colls}
    BY DEF SolanaReads
  <2> HIDE DEF s
  <2>3. QED BY <2>1, <2>2, StillView, StillViewOf
<1>4. QED BY <1>2, <1>3 DEF Reads

LEMMA RereadsAre == ASSUME TypeOK, NEW c \in State PROVE Rereads(c) \subseteq View
<1>1. Reads(c) \subseteq View /\ Seen(c) \in View
  BY ReadsAre, SeenIs
<1>2. seen \in View
  BY DEF TypeOK
<1>3. [Seen(c) EXCEPT !.net = seen.net, !.held = seen.held, !.room = seen.room] \in View
  BY <1>1, <1>2 DEF View
<1>4. QED BY <1>1, <1>3 DEF Rereads

LEMMA PanelInit == Init => TypeOK
<1> SUFFICES ASSUME Init PROVE TypeOK
  OBVIOUS
<1>1. PICK acct0 \in StartAccts, market \in StartMarkets, rate \in [Colls -> Prices], stale \in SUBSET Feeds :
        chain = [base |-> acct0.base, coll |-> acct0.coll, wallet |-> acct0.wallet,
                 price |-> rate, stale |-> stale, net |-> market.net,
                 held |-> market.held, min |-> market.min, room |-> market.room]
  BY DEF Init
<1>2. /\ acct0.base \in Int /\ acct0.coll \in [Colls -> Nat] /\ acct0.wallet \in [Assets -> Nat]
      /\ market.net \in Int /\ market.held \in Nat /\ market.min \in Nat /\ market.room \in [Colls -> Nat]
      /\ stale \in SUBSET Colls
  BY FeedsAre
<1>3. chain \in State
  BY <1>1, <1>2 DEF State
<1>4. seen \in Reads(chain) /\ lane \in Lanes
  BY DEF Init
<1>5. QED BY <1>3, <1>4, ReadsAre DEF TypeOK

(* What Comet executes leaves a state.                                             *)
LEMMA AfterIsState ==
  ASSUME TypeOK, NEW t \in ActionType, NEW a \in Assets, NEW k \in Nat \ {0}, Offered(t, a), Accepts(t, a, k)
  PROVE  After(t, a, k) \in State
<1> DEFINE q == After(t, a, k)
<1>1. /\ chain.base \in Int /\ chain.coll \in [Colls -> Nat] /\ chain.wallet \in [Assets -> Nat]
      /\ chain.price \in [Colls -> Prices] /\ chain.stale \in SUBSET Colls
      /\ chain.net \in Int /\ chain.held \in Nat /\ chain.min \in Nat /\ chain.room \in [Colls -> Nat]
  BY DEF TypeOK, State
<1>2. CASE a = "base" /\ t \in {"withdraw", "borrow"}
  <2>1. Drawn(t, k) \in Nat
    BY <1>2, DrawnIs
  <2>2. Drawn(t, k) <= chain.held
    BY <1>2, AcceptsOut
  <2>3. q = [chain EXCEPT !.base = chain.base - Drawn(t, k), !.wallet["base"] = @ + k,
                          !.net = chain.net - Drawn(t, k), !.held = chain.held - Drawn(t, k)]
    BY <1>2 DEF After
  <2>4. [chain.wallet EXCEPT !["base"] = @ + k] \in [Assets -> Nat]
    BY <1>1, BaseNoCollateral
  <2>5. /\ chain.base - Drawn(t, k) \in Int /\ chain.net - Drawn(t, k) \in Int /\ chain.held - Drawn(t, k) \in Nat
    BY <1>1, <2>1, <2>2
  <2>6. QED BY <1>1, <2>3, <2>4, <2>5 DEF TypeOK, State
<1>3. CASE a = "base" /\ t \in {"supply", "repay"}
  <2>1. k <= chain.wallet["base"]
    BY <1>3, AcceptsIn
  <2>2. q = [chain EXCEPT !.base = chain.base + k, !.wallet["base"] = @ - k,
                          !.net = chain.net + k, !.held = chain.held + k]
    BY <1>3 DEF After
  <2>3. [chain.wallet EXCEPT !["base"] = @ - k] \in [Assets -> Nat]
    BY <1>1, <2>1, BaseNoCollateral
  <2>4. chain.base + k \in Int /\ chain.net + k \in Int /\ chain.held + k \in Nat
    BY <1>1
  <2>5. QED BY <1>1, <2>2, <2>3, <2>4 DEF TypeOK, State
<1>4. CASE a \in Colls /\ a # "base" /\ t = "supply"
  <2>1. k <= chain.wallet[a] /\ k <= chain.room[a]
    BY <1>4, AcceptsSupply
  <2>2. q = [chain EXCEPT !.coll[a] = @ + k, !.wallet[a] = @ - k, !.room[a] = @ - k]
    BY <1>4 DEF After
  <2>3. /\ [chain.coll EXCEPT ![a] = @ + k] \in [Colls -> Nat]
        /\ [chain.wallet EXCEPT ![a] = @ - k] \in [Assets -> Nat]
        /\ [chain.room EXCEPT ![a] = @ - k] \in [Colls -> Nat]
    BY <1>1, <1>4, <2>1
  <2>4. QED BY <1>1, <2>2, <2>3 DEF TypeOK, State
<1>5. CASE a \in Colls /\ a # "base" /\ t = "withdraw"
  <2>1. k <= chain.coll[a]
    BY <1>5, AcceptsWithdraw
  <2>2. q = [chain EXCEPT !.coll[a] = @ + -k, !.wallet[a] = @ - (-k), !.room[a] = @ - (-k)]
    BY <1>5 DEF After
  <2>3. /\ [chain.coll EXCEPT ![a] = @ + -k] \in [Colls -> Nat]
        /\ [chain.wallet EXCEPT ![a] = @ - (-k)] \in [Assets -> Nat]
        /\ [chain.room EXCEPT ![a] = @ - (-k)] \in [Colls -> Nat]
    BY <1>1, <1>5, <2>1
  <2>4. QED BY <1>1, <2>2, <2>3 DEF TypeOK, State
<1>6. QED BY <1>2, <1>3, <1>4, <1>5, ActionsAre

LEMMA PanelNext == TypeOK /\ (Next \/ UNCHANGED vars) => TypeOK'
<1> SUFFICES ASSUME TypeOK, Next \/ UNCHANGED vars PROVE TypeOK'
  OBVIOUS
<1>1. CASE Refresh
  <2>1. seen' \in View
    BY <1>1, RereadsAre DEF Refresh, TypeOK
  <2>2. QED BY <1>1, <2>1 DEF Refresh, TypeOK
<1>2. ASSUME NEW t \in ActionType, NEW a \in Assets, NEW k \in Amounts, Act(t, a, k) PROVE TypeOK'
  <2>1. k \in Nat \ {0} /\ Offered(t, a) /\ Accepts(t, a, k)
    BY <1>2, AmountIs DEF Act, Validates
  <2>2. After(t, a, k) \in State
    BY <2>1, AfterIsState
  <2>3. chain' = After(t, a, k) /\ seen' \in Rereads(After(t, a, k)) /\ UNCHANGED lane
    BY <1>2 DEF Act
  <2>4. Rereads(After(t, a, k)) \subseteq View
    BY <2>2, RereadsAre
  <2>5. chain' \in State /\ seen' \in View
    BY <2>2, <2>3, <2>4
  <2>6. QED BY <2>3, <2>5 DEF TypeOK
<1>3. ASSUME NEW c \in Feeds, Feed(c) PROVE TypeOK'
  <2>1. c \in Colls /\ chain.stale \in SUBSET Colls
    BY FeedsAre DEF TypeOK, State
  <2>2. PICK s \in SUBSET Colls : s = IF c \in chain.stale THEN chain.stale \ {c} ELSE chain.stale \cup {c}
    BY <2>1
  <2>3. chain' = [chain EXCEPT !.stale = s]
    BY <1>3, <2>2 DEF Feed
  <2>4. chain' \in State
    BY <2>3 DEF TypeOK, State
  <2>5. QED BY <1>3, <2>4 DEF Feed, TypeOK
<1>4. CASE UNCHANGED vars
  BY <1>4 DEF vars, TypeOK
<1>5. QED BY <1>1, <1>2, <1>3, <1>4 DEF Next

LEMMA PanelHolds ==
  TypeOK => AllowedLands /\ RefusedForCause /\ StaleFeedKeepsExits /\ ReasonIsTrue /\ ConsequencesComeTrue
BY AllowedIsRight, CauseIsRight, ExitsStayOpen, ReasonIsRight, ConsequencesAreRight

-----------------------------------------------------------------------------
(* Portal, for any amounts, factor, liquidity and flows.                         *)
Wallets == {Owner, Other}
PortalAccount ==
  [base : Int, coll : Nat, wallet : Nat, wcoll : Nat, comet : [base : Nat, coll : Nat],
   bulker : BOOLEAN, manager : BOOLEAN]
PortalScreen == [of : Wallets \cup {NoUser}, base : Int, coll : Nat, wallet : Nat, wcoll : Nat]
PortalModes == {"supply", "withdraw", "borrow", "repay", "leverage"}
PortalLegs == {"approve", "allow", "action"}
PortalTodos == {Moving!DoWithdraw, <<"allow", "action">>, Moving!DoSupply, Moving!DoLeverage}
PortalFlow ==
  [pc : {"idle", "read", "ask", "sent"}, user : Wallets \cup {NoUser}, req : Moving!Request \cup {Moving!NoRequest},
   mode : Moving!Modals \cup {Moving!Closed}, todo : PortalTodos, no : Int, saw : Int, landed : BOOLEAN]
PortalTx ==
  [by : Flows, user : Wallets, req : Moving!Request, mode : PortalModes, leg : PortalLegs, no : Int, saw : Int]

(* A borrow is of more than the supply that was seen.                              *)
OpensDebt(req, saw) == req.kind = "withdraw" /\ req.amt > Moving!Plus(saw)

(* What is known of a flow and of a transaction beyond their types.                    *)
FlowIsOpen(r) ==
  r.pc # "idle" =>
    /\ r.user \in Wallets /\ r.req \in Moving!Request /\ r.mode \in Moving!Modals
    /\ r.pc = "read" => Head(r.todo) # "action"
    /\ r.mode.mode = "borrow" => OpensDebt(r.req, r.saw)
TxBorrows(tx) == tx.mode = "borrow" => OpensDebt(tx.req, tx.saw)

PortalAccounts == acct \in [Wallets -> PortalAccount] /\ \A u \in Wallets : Moving!Solvent(acct[u])
PortalScreens ==
  /\ who \in Wallets \cup {NoUser} /\ shown \in PortalScreen /\ late \in SUBSET Wallets
  /\ modal \in Moving!Modals \cup {Moving!Closed}
  /\ status \in [phase : {"idle", "busy", "done", "error"}, req : Moving!Request \cup {Moving!NoRequest}]
  /\ slipped \in BOOLEAN /\ budget \in [clicks : Int, moves : Int]
PortalFlows ==
  /\ flow \in [Flows -> PortalFlow] /\ \A f \in Flows : FlowIsOpen(flow[f])
  /\ sent \in SUBSET PortalTx /\ \A tx \in sent : TxBorrows(tx)

(* Unless one slipped by, one flow runs, for what its modal is still open for.         *)
AsksFor(req) == \E amt \in PortalAmounts : req = Moving!PreviewReq(modal, amt)
PortalAlone ==
  /\ status.phase = "busy" => Moving!Active # {}
  /\ ~slipped =>
       /\ \A f, g \in Moving!Active : f = g
       /\ \A f \in Moving!Active : modal # Moving!Closed /\ AsksFor(flow[f].req)
       /\ status.phase = "done" => Moving!Active = {} /\ AsksFor(status.req)
       /\ modal = Moving!Closed => status.phase # "error"

PortalIInv == PortalAccounts /\ PortalScreens /\ PortalFlows /\ PortalAlone

LEMMA PortalNumbers ==
  /\ PortalAmounts \subseteq Nat \ {0} /\ PortalFactor \in Nat \ {0} /\ PortalCash \in Nat
BY PortalAssumption

LEMMA TodosAre ==
  ASSUME NEW t \in PortalTodos
  PROVE  /\ Head(t) \in PortalLegs
         /\ Head(t) # "action" => Tail(t) \in PortalTodos
<1>1. /\ Moving!DoWithdraw = <<"action">> /\ Moving!DoSupply = <<"approve", "action">>
      /\ Moving!DoLeverage = <<"approve", "allow", "action">>
  BY DEF Moving!DoWithdraw, Moving!DoSupply, Moving!DoLeverage
<1>2. CASE t = <<"action">>
  BY <1>2 DEF PortalLegs
<1>3. CASE t = <<"allow", "action">>
  <2>1. Head(t) = "allow" /\ Tail(t) = <<"action">>
    BY <1>3
  <2>2. QED BY <1>1, <2>1 DEF PortalLegs, PortalTodos
<1>4. CASE t = <<"approve", "action">>
  <2>1. Head(t) = "approve" /\ Tail(t) = <<"action">>
    BY <1>4
  <2>2. QED BY <1>1, <2>1 DEF PortalLegs, PortalTodos
<1>5. CASE t = <<"approve", "allow", "action">>
  <2>1. Head(t) = "approve" /\ Tail(t) = <<"allow", "action">>
    BY <1>5
  <2>2. QED BY <2>1 DEF PortalLegs, PortalTodos
<1>6. QED BY <1>1, <1>2, <1>3, <1>4, <1>5 DEF PortalTodos

LEMMA PlansAre == ASSUME NEW k PROVE Moving!Plan(k) \in PortalTodos
<1>1. Moving!DoSupplyCollat = Moving!DoSupply /\ Moving!DoWithdrawCollat = Moving!DoWithdraw
  BY DEF Moving!DoSupplyCollat, Moving!DoSupply, Moving!DoWithdrawCollat, Moving!DoWithdraw
<1>2. Moving!Plan(k) \in {Moving!DoSupply, Moving!DoWithdraw, Moving!DoLeverage}
  BY <1>1 DEF Moving!Plan
<1>3. QED BY <1>2 DEF PortalTodos

LEMMA ModalsAre ==
  /\ \A m \in Moving!Modals : m.mode \in PortalModes /\ m # Moving!Closed
  /\ Moving!Closed.mode = "closed"
BY DEF Moving!Modals, Moving!Closed, PortalModes

LEMMA RequestIs ==
  ASSUME NEW m, NEW amt \in PortalAmounts
  PROVE  /\ Moving!PreviewReq(m, amt) \in Moving!Request /\ Moving!PreviewReq(m, amt).amt = amt
         /\ m.mode = "borrow" => Moving!PreviewReq(m, amt).kind = "withdraw"
<1> DEFINE kind == Moving!PreviewReq(m, amt).kind
<1>1. kind \in Moving!Kinds /\ (m.mode = "borrow" => kind = "withdraw") /\ Moving!PreviewReq(m, amt).amt = amt
  BY DEF Moving!PreviewReq, Moving!Kinds
<1>2. Moving!PreviewReq(m, amt) = [amt |-> amt, kind |-> kind]
  BY DEF Moving!PreviewReq
<1> HIDE DEF kind
<1>3. [amt |-> amt, kind |-> kind] \in Moving!Request
  BY <1>1 DEF Moving!Request
<1>4. QED BY <1>1, <1>2, <1>3 DEF kind

(* An account with one of its figures changed is one.                                 *)
LEMMA AccountWith ==
  ASSUME NEW a \in PortalAccount
  PROVE  /\ a.base \in Int /\ a.coll \in Nat /\ a.wallet \in Nat /\ a.wcoll \in Nat
         /\ a.comet \in [base : Nat, coll : Nat] /\ a.comet.base \in Nat /\ a.comet.coll \in Nat
         /\ a.bulker \in BOOLEAN /\ a.manager \in BOOLEAN
         /\ \A n \in Int : [a EXCEPT !.base = n] \in PortalAccount
         /\ \A n \in Nat : [a EXCEPT !.coll = n] \in PortalAccount
         /\ \A n \in Nat : [a EXCEPT !.wallet = n] \in PortalAccount
         /\ \A n \in Nat : [a EXCEPT !.wcoll = n] \in PortalAccount
         /\ \A c \in [base : Nat, coll : Nat] : [a EXCEPT !.comet = c] \in PortalAccount
         /\ [a EXCEPT !.bulker = TRUE] \in PortalAccount
         /\ [a EXCEPT !.manager = TRUE] \in PortalAccount
BY DEF PortalAccount

(* What an approval leaves of an account.                                             *)
LEMMA ApprovedIs ==
  ASSUME NEW a \in PortalAccount, NEW req \in Moving!Request
  PROVE  /\ Moving!Approved(a, req) \in PortalAccount
         /\ Moving!Approved(a, req).base = a.base /\ Moving!Approved(a, req).coll = a.coll
<1>1. a.comet \in [base : Nat, coll : Nat] /\ req.amt \in Nat
  BY AccountWith, PortalNumbers DEF Moving!Request
<1>2. [a.comet EXCEPT !.base = req.amt] \in [base : Nat, coll : Nat] /\ [a.comet EXCEPT !.coll = 1] \in [base : Nat, coll : Nat]
  BY <1>1
<1>3. CASE req.kind = "supply"
  <2>1. Moving!Approved(a, req) = [a EXCEPT !.comet = [a.comet EXCEPT !.base = req.amt]]
    BY <1>3 DEF Moving!Approved
  <2>2. QED BY <1>2, <2>1 DEF PortalAccount
<1>4. CASE req.kind = "supplyCollateral"
  <2>1. Moving!Approved(a, req) = [a EXCEPT !.comet = [a.comet EXCEPT !.coll = 1]]
    BY <1>4 DEF Moving!Approved
  <2>2. QED BY <1>2, <2>1 DEF PortalAccount
<1>5. CASE req.kind \notin {"supply", "supplyCollateral"}
  <2>1. Moving!Approved(a, req) = [a EXCEPT !.bulker = TRUE]
    BY <1>5 DEF Moving!Approved
  <2>2. QED BY <2>1 DEF PortalAccount
<1>6. QED BY <1>3, <1>4, <1>5

(* What an action makes of each figure of an account.                                   *)
BaseThen(a, req) ==
  IF req.kind = "supply" THEN a.base + req.amt
  ELSE IF req.kind \in {"withdraw", "leverageOpen"} THEN a.base - req.amt ELSE a.base
WalletThen(a, req) ==
  IF req.kind = "supply" THEN a.wallet - req.amt
  ELSE IF req.kind \in {"withdraw", "leverageOpen"} THEN a.wallet + req.amt ELSE a.wallet
CollThen(a, req) ==
  IF req.kind \in {"supplyCollateral", "leverageOpen"} THEN a.coll + 1
  ELSE IF req.kind = "withdrawCollateral" THEN a.coll - 1 ELSE a.coll
WcollThen(a, req) ==
  IF req.kind \in {"supplyCollateral", "leverageOpen"} THEN a.wcoll - 1
  ELSE IF req.kind = "withdrawCollateral" THEN a.wcoll + 1 ELSE a.wcoll

LEMMA ActedIs ==
  ASSUME NEW a \in PortalAccount, NEW req \in Moving!Request
  PROVE  LET b == Moving!Acted(a, req)
         IN /\ b.base = BaseThen(a, req) /\ b.wallet = WalletThen(a, req)
            /\ b.coll = CollThen(a, req) /\ b.wcoll = WcollThen(a, req)
            /\ b.comet.base \in Int /\ b.comet.coll \in Int
            /\ b.wallet >= 0 /\ b.wcoll >= 0 /\ b.coll >= 0 /\ b.comet.base >= 0 /\ b.comet.coll >= 0
                 => b \in PortalAccount
<1> DEFINE b == Moving!Acted(a, req)
           amt == req.amt
<1> USE DEF BaseThen, WalletThen, CollThen, WcollThen
<1>1. /\ a.base \in Int /\ a.coll \in Nat /\ a.wallet \in Nat /\ a.wcoll \in Nat
      /\ a.comet \in [base : Nat, coll : Nat] /\ a.comet.base \in Nat /\ a.comet.coll \in Nat
  BY AccountWith
<1>2. amt \in Nat \ {0} /\ req.kind \in Moving!Kinds
  BY PortalNumbers DEF Moving!Request
<1>3. CASE req.kind = "supply"
  <2>1. b = [[[a EXCEPT !.base = a.base + amt] EXCEPT !.wallet = a.wallet - amt] EXCEPT !.comet = [a.comet EXCEPT !.base = a.comet.base - amt]]
    BY <1>3 DEF Moving!Acted, PortalAccount
  <2>2. /\ b.base = a.base + amt /\ b.wallet = a.wallet - amt /\ b.coll = a.coll /\ b.wcoll = a.wcoll
        /\ b.comet = [a.comet EXCEPT !.base = a.comet.base - amt]
    BY <2>1 DEF PortalAccount
  <2>3. b.comet.base = a.comet.base - amt /\ b.comet.coll = a.comet.coll
    BY <1>1, <2>2
  <2>4. ASSUME b.wallet >= 0, b.comet.base >= 0 PROVE b \in PortalAccount
    <3>1. a.wallet - amt \in Nat /\ a.comet.base - amt \in Nat /\ a.base + amt \in Int
      BY <1>1, <1>2, <2>2, <2>3, <2>4
    <3>2. [a.comet EXCEPT !.base = a.comet.base - amt] \in [base : Nat, coll : Nat]
      BY <1>1, <3>1
    <3> DEFINE a1 == [a EXCEPT !.base = a.base + amt]
               a2 == [a1 EXCEPT !.wallet = a.wallet - amt]
    <3>3. a1 \in PortalAccount
      BY <3>1, AccountWith
    <3> HIDE DEF a1
    <3>4. a2 \in PortalAccount
      BY <3>1, <3>3, AccountWith
    <3>5. b = [a2 EXCEPT !.comet = [a.comet EXCEPT !.base = a.comet.base - amt]]
      BY <2>1 DEF a1
    <3> HIDE DEF a2, b
    <3>6. QED BY <3>2, <3>4, <3>5, AccountWith
  <2> HIDE DEF b, amt
  <2>5. QED BY <1>1, <1>2, <1>3, <2>2, <2>3, <2>4 DEF amt, b
<1>4. CASE req.kind = "withdraw"
  <2>1. b = [[a EXCEPT !.base = a.base - amt] EXCEPT !.wallet = a.wallet + amt]
    BY <1>4 DEF Moving!Acted, PortalAccount
  <2>2. /\ b.base = a.base - amt /\ b.wallet = a.wallet + amt /\ b.coll = a.coll /\ b.wcoll = a.wcoll
        /\ b.comet = a.comet
    BY <2>1 DEF PortalAccount
  <2>3. a.base - amt \in Int /\ a.wallet + amt \in Nat
    BY <1>1, <1>2
  <2> DEFINE a1 == [a EXCEPT !.base = a.base - amt]
  <2>4. a1 \in PortalAccount
    BY <2>3, AccountWith
  <2>5. b = [a1 EXCEPT !.wallet = a.wallet + amt]
    BY <2>1
  <2> HIDE DEF a1, b
  <2>6. b \in PortalAccount
    BY <2>3, <2>4, <2>5, AccountWith
  <2> HIDE DEF b, amt
  <2>7. QED BY <1>1, <1>2, <1>4, <2>2, <2>6 DEF amt, b
<1>5. CASE req.kind = "supplyCollateral"
  <2>1. b = [[[a EXCEPT !.coll = a.coll + 1] EXCEPT !.wcoll = a.wcoll - 1] EXCEPT !.comet = [a.comet EXCEPT !.coll = a.comet.coll - 1]]
    BY <1>5 DEF Moving!Acted, PortalAccount
  <2>2. /\ b.base = a.base /\ b.wallet = a.wallet /\ b.coll = a.coll + 1 /\ b.wcoll = a.wcoll - 1
        /\ b.comet = [a.comet EXCEPT !.coll = a.comet.coll - 1]
    BY <2>1 DEF PortalAccount
  <2>3. b.comet.coll = a.comet.coll - 1 /\ b.comet.base = a.comet.base
    BY <1>1, <2>2
  <2>4. ASSUME b.wcoll >= 0, b.comet.coll >= 0 PROVE b \in PortalAccount
    <3>1. a.wcoll - 1 \in Nat /\ a.comet.coll - 1 \in Nat /\ a.coll + 1 \in Nat
      BY <1>1, <2>2, <2>3, <2>4
    <3>2. [a.comet EXCEPT !.coll = a.comet.coll - 1] \in [base : Nat, coll : Nat]
      BY <1>1, <3>1
    <3> DEFINE a1 == [a EXCEPT !.coll = a.coll + 1]
               a2 == [a1 EXCEPT !.wcoll = a.wcoll - 1]
    <3>3. a1 \in PortalAccount
      BY <3>1, AccountWith
    <3> HIDE DEF a1
    <3>4. a2 \in PortalAccount
      BY <3>1, <3>3, AccountWith
    <3>5. b = [a2 EXCEPT !.comet = [a.comet EXCEPT !.coll = a.comet.coll - 1]]
      BY <2>1 DEF a1
    <3> HIDE DEF a2, b
    <3>6. QED BY <3>2, <3>4, <3>5, AccountWith
  <2> HIDE DEF b, amt
  <2>5. QED BY <1>1, <1>2, <1>5, <2>2, <2>3, <2>4 DEF amt, b
<1>6. CASE req.kind = "withdrawCollateral"
  <2>1. b = [[a EXCEPT !.coll = a.coll - 1] EXCEPT !.wcoll = a.wcoll + 1]
    BY <1>6 DEF Moving!Acted, PortalAccount
  <2>2. /\ b.base = a.base /\ b.wallet = a.wallet /\ b.coll = a.coll - 1 /\ b.wcoll = a.wcoll + 1
        /\ b.comet = a.comet
    BY <2>1 DEF PortalAccount
  <2>3. ASSUME b.coll >= 0 PROVE b \in PortalAccount
    <3>1. a.coll - 1 \in Nat /\ a.wcoll + 1 \in Nat
      BY <1>1, <2>2, <2>3
    <3> DEFINE a1 == [a EXCEPT !.coll = a.coll - 1]
    <3>2. a1 \in PortalAccount
      BY <3>1, AccountWith
    <3>3. b = [a1 EXCEPT !.wcoll = a.wcoll + 1]
      BY <2>1
    <3> HIDE DEF a1, b
    <3>4. QED BY <3>1, <3>2, <3>3, AccountWith
  <2>4. QED BY <1>1, <1>2, <1>6, <2>2, <2>3
<1>7. CASE req.kind = "leverageOpen"
  <2>1. b = [[[[a EXCEPT !.coll = a.coll + 1] EXCEPT !.wcoll = a.wcoll - 1] EXCEPT !.base = a.base - amt] EXCEPT !.wallet = a.wallet + amt]
    BY <1>7 DEF Moving!Acted, Moving!LeverageOpen, PortalAccount
  <2>2. /\ b.base = a.base - amt /\ b.wallet = a.wallet + amt /\ b.coll = a.coll + 1 /\ b.wcoll = a.wcoll - 1
        /\ b.comet = a.comet
    BY <2>1 DEF PortalAccount
  <2>3. ASSUME b.wcoll >= 0 PROVE b \in PortalAccount
    <3>1. a.wcoll - 1 \in Nat /\ a.coll + 1 \in Nat /\ a.base - amt \in Int /\ a.wallet + amt \in Nat
      BY <1>1, <1>2, <2>2, <2>3
    <3> DEFINE a1 == [a EXCEPT !.coll = a.coll + 1]
               a2 == [a1 EXCEPT !.wcoll = a.wcoll - 1]
               a3 == [a2 EXCEPT !.base = a.base - amt]
    <3>2. b = [a3 EXCEPT !.wallet = a.wallet + amt]
      BY <2>1
    <3>3. a1 \in PortalAccount
      BY <3>1, AccountWith
    <3> HIDE DEF a1, b
    <3>4. a2 \in PortalAccount
      BY <3>1, <3>3, AccountWith
    <3> HIDE DEF a2
    <3>5. a3 \in PortalAccount
      BY <3>1, <3>4, AccountWith
    <3> HIDE DEF a3
    <3>6. QED BY <3>1, <3>2, <3>5, AccountWith
  <2>4. QED BY <1>1, <1>2, <1>7, <2>2, <2>3
<1>8. QED BY <1>2, <1>3, <1>4, <1>5, <1>6, <1>7 DEF Moving!Kinds

(* What Comet, the tokens and the bulker do keeps an account one, and solvent.         *)
LEMMA DoesIs ==
  ASSUME NEW a \in PortalAccount, NEW tx \in PortalTx, Moving!Solvent(a), Moving!Can(a, tx)
  PROVE  Moving!Does(a, tx) \in PortalAccount /\ Moving!Solvent(Moving!Does(a, tx))
<1> DEFINE b == Moving!Does(a, tx)
<1>1. /\ a.base \in Int /\ a.coll \in Nat
  BY AccountWith
<1>2. tx.req \in Moving!Request /\ tx.leg \in PortalLegs
  BY DEF PortalTx
<1>3. ASSUME NEW c, c \in PortalAccount, c.base = a.base, c.coll = a.coll PROVE Moving!Solvent(c)
  BY <1>3 DEF Moving!Solvent
<1>4. CASE tx.leg = "allow"
  <2>1. b = [a EXCEPT !.manager = TRUE]
    BY <1>4 DEF Moving!Does
  <2>2. b \in PortalAccount /\ b.base = a.base /\ b.coll = a.coll
    BY <2>1 DEF PortalAccount
  <2>3. QED BY <1>3, <2>2
<1>5. CASE tx.leg = "approve"
  <2>1. b = Moving!Approved(a, tx.req)
    BY <1>5 DEF Moving!Does
  <2>2. QED BY <1>2, <1>3, <2>1, ApprovedIs
<1>6. CASE tx.leg = "action"
  <2>1. b = Moving!Acted(a, tx.req)
    BY <1>6 DEF Moving!Does
  <2>2. /\ b.wallet >= 0 /\ b.wcoll >= 0 /\ b.coll >= 0 /\ b.comet.base >= 0 /\ b.comet.coll >= 0
        /\ b.base < a.base => Moving!Solvent(b)
        /\ tx.req.kind = "withdrawCollateral" => Moving!Solvent(b)
    BY <1>6 DEF Moving!Can
  <2>3. b.base = BaseThen(a, tx.req) /\ b.coll = CollThen(a, tx.req) /\ b \in PortalAccount
    BY <1>2, <2>1, <2>2, ActedIs
  <2>4. tx.req.amt \in Nat \ {0} /\ tx.req.kind \in Moving!Kinds
    BY <1>2, PortalNumbers DEF Moving!Request
  <2> HIDE DEF b
  <2>5. CASE tx.req.kind \in {"withdraw", "leverageOpen", "withdrawCollateral"}
    BY <1>1, <2>2, <2>3, <2>4, <2>5 DEF BaseThen, b
  <2>6. CASE tx.req.kind \in {"supply", "supplyCollateral"}
    <3>1. a.base <= b.base /\ a.coll <= b.coll /\ b.base \in Int /\ b.coll \in Nat
      BY <1>1, <2>3, <2>4, <2>6 DEF BaseThen, CollThen
    <3>2. Moving!Minus(b.base) <= Moving!Minus(a.base) /\ Moving!Minus(b.base) \in Int /\ Moving!Minus(a.base) \in Int
      BY <1>1, <3>1 DEF Moving!Minus
    <3>3. a.coll * PortalFactor <= b.coll * PortalFactor
      <4>1. b.coll = a.coll \/ b.coll = a.coll + 1
        BY <1>1, <2>3, <2>6 DEF CollThen
      <4>2. (a.coll + 1) * PortalFactor = a.coll * PortalFactor + PortalFactor /\ a.coll * PortalFactor \in Int
        BY <1>1, PortalNumbers
      <4>3. QED BY <4>1, <4>2, PortalNumbers
    <3>4. a.coll * PortalFactor \in Int /\ b.coll * PortalFactor \in Int
      BY <1>1, <3>1, PortalNumbers
    <3>5. Moving!Minus(a.base) <= a.coll * PortalFactor
      BY DEF Moving!Solvent
    <3>6. Moving!Minus(b.base) <= b.coll * PortalFactor
      BY <3>2, <3>3, <3>4, <3>5
    <3>7. QED BY <2>3, <3>6 DEF Moving!Solvent, b
  <2>7. QED BY <2>3, <2>4, <2>5, <2>6 DEF Moving!Kinds
<1>7. QED BY <1>2, <1>4, <1>5, <1>6 DEF PortalLegs

(* A flow with another of its fields is one.                                          *)
LEMMA FlowWith ==
  ASSUME NEW r \in PortalFlow
  PROVE  /\ \A p \in {"idle", "read", "ask", "sent"} :
              LET q == [r EXCEPT !.pc = p]
              IN /\ q \in PortalFlow /\ q.pc = p /\ q.user = r.user /\ q.req = r.req
                 /\ q.mode = r.mode /\ q.todo = r.todo /\ q.saw = r.saw
         /\ LET q == [r EXCEPT !.landed = TRUE]
            IN /\ q \in PortalFlow /\ q.pc = r.pc /\ q.user = r.user /\ q.req = r.req
               /\ q.mode = r.mode /\ q.todo = r.todo /\ q.saw = r.saw
         /\ Head(r.todo) # "action" =>
              LET q == [r EXCEPT !.todo = Tail(r.todo), !.landed = FALSE]
              IN /\ q \in PortalFlow /\ q.pc = r.pc /\ q.user = r.user /\ q.req = r.req
                 /\ q.mode = r.mode /\ q.saw = r.saw
<1>1. \A p \in {"idle", "read", "ask", "sent"} : [r EXCEPT !.pc = p] \in PortalFlow
  BY DEF PortalFlow
<1>2. [r EXCEPT !.landed = TRUE] \in PortalFlow
  BY DEF PortalFlow
<1>3. ASSUME Head(r.todo) # "action" PROVE [r EXCEPT !.todo = Tail(r.todo), !.landed = FALSE] \in PortalFlow
  <2>1. r.todo \in PortalTodos
    BY DEF PortalFlow
  <2>2. Tail(r.todo) \in PortalTodos
    BY <1>3, <2>1, TodosAre
  <2> DEFINE t == Tail(r.todo)
  <2> HIDE DEF t
  <2>3. [r EXCEPT !.todo = t, !.landed = FALSE] \in PortalFlow
    BY <2>2 DEF PortalFlow, t
  <2>4. QED BY <2>3 DEF t
<1>4. QED BY <1>1, <1>2, <1>3 DEF PortalFlow

LEMMA IdleIs == Moving!Idle \in PortalFlow /\ Moving!Idle.pc = "idle"
BY DEF Moving!Idle, PortalFlow, PortalTodos

(* The next leg of a flow that has begun.                                             *)
LEMMA LegBegins ==
  ASSUME PortalFlows, PortalScreens, NEW f \in Flows, NEW r \in PortalFlow, Moving!Begin(f, r),
         r.user \in Wallets, r.req \in Moving!Request, r.mode \in Moving!Modals,
         r.mode.mode = "borrow" => OpensDebt(r.req, r.saw)
  PROVE  /\ flow' \in [Flows -> PortalFlow] /\ \A g \in Flows : FlowIsOpen(flow'[g])
         /\ flow'[f].pc # "idle" /\ flow'[f].req = r.req
         /\ \A g \in Flows \ {f} : flow'[g] = flow[g]
         /\ status' = status \/ status' = [phase |-> "busy", req |-> r.req]
<1>1. PICK p \in {"ask", "read"} : flow' = [flow EXCEPT ![f] = [r EXCEPT !.pc = p]] /\ (p = "read" => Head(r.todo) # "action")
  BY DEF Moving!Begin, Moving!Become
<1> DEFINE q == [r EXCEPT !.pc = p]
<1>2. /\ q \in PortalFlow /\ q.pc = p /\ q.user = r.user /\ q.req = r.req
      /\ q.mode = r.mode /\ q.todo = r.todo /\ q.saw = r.saw
  BY <1>1 DEF PortalFlow
<1> HIDE DEF q
<1>3. flow' \in [Flows -> PortalFlow] /\ flow'[f] = q /\ \A g \in Flows \ {f} : flow'[g] = flow[g]
  BY <1>1, <1>2 DEF PortalFlows, q
<1>4. FlowIsOpen(q)
  BY <1>1, <1>2 DEF FlowIsOpen
<1>5. \A g \in Flows : FlowIsOpen(flow'[g])
  BY <1>3, <1>4 DEF PortalFlows
<1>6. status' = status \/ status' = [phase |-> "busy", req |-> r.req]
  BY DEF Moving!Begin
<1>7. QED BY <1>1, <1>2, <1>3, <1>5, <1>6

(* Where the same flows stay open for the same, and at most the spinner comes on.       *)
LEMMA AloneKept ==
  ASSUME PortalAlone,
         \A g \in Flows : (flow'[g].pc # "idle") = (flow[g].pc # "idle"),
         \A g \in Flows : flow[g].pc # "idle" => flow'[g].req = flow[g].req,
         modal' = modal, slipped' = slipped,
         status' = status \/ (status'.phase = "busy" /\ Moving!Active # {})
  PROVE  PortalAlone'
<1>1. Moving!Active' = Moving!Active
  BY DEF Moving!Active
<1>2. \A g \in Moving!Active : flow'[g].req = flow[g].req
  BY DEF Moving!Active
<1>3. \A req : AsksFor(req)' = AsksFor(req)
  BY DEF AsksFor, Moving!PreviewReq
<1>4. QED BY <1>1, <1>2, <1>3 DEF PortalAlone

LEMMA LoadKeeps ==
  ASSUME PortalIInv, Moving!Load \/ \E u \in Wallets : Moving!LoadLate(u) PROVE PortalIInv'
<1>1. PICK u \in Wallets : shown' = Moving!Screen(u) /\ late' \in SUBSET Wallets
  BY DEF PortalIInv, PortalScreens, Moving!Load, Moving!LoadLate, Wallets
<1>2. UNCHANGED <<acct, who, modal, status, flow, sent, slipped, budget>>
  BY DEF Moving!Load, Moving!LoadLate
<1>3. Moving!Screen(u) \in PortalScreen
  <2>1. acct[u] \in PortalAccount
    BY DEF PortalIInv, PortalAccounts
  <2>2. QED BY <2>1 DEF Moving!Screen, PortalScreen, PortalAccount
<1>4. PortalScreens'
  BY <1>1, <1>2, <1>3 DEF PortalIInv, PortalScreens
<1>5. PortalAlone'
  BY <1>2, AloneKept DEF PortalIInv
<1>6. PortalAccounts' /\ PortalFlows'
  BY <1>2 DEF PortalIInv, PortalAccounts, PortalFlows
<1>7. QED BY <1>4, <1>5, <1>6 DEF PortalIInv

LEMMA SwitchKeeps ==
  ASSUME PortalIInv, NEW u \in Wallets \cup {NoUser}, Moving!Switch(u) PROVE PortalIInv'
<1>1. UNCHANGED <<acct, modal, status, flow, sent, slipped, budget>> /\ who' = u
  BY DEF Moving!Switch
<1>2. late' \in SUBSET Wallets
  BY DEF Moving!Switch, PortalIInv, PortalScreens
<1>3. shown' \in PortalScreen
  <2>1. [Moving!Blank EXCEPT !.wallet = shown.wallet, !.wcoll = shown.wcoll] \in PortalScreen
    <3>1. shown.wallet \in Nat /\ shown.wcoll \in Nat
      BY DEF PortalIInv, PortalScreens, PortalScreen
    <3>2. Moving!Blank \in PortalScreen
      BY DEF Moving!Blank, PortalScreen
    <3>3. QED BY <3>1, <3>2 DEF PortalScreen
  <2>2. QED BY <2>1 DEF Moving!Switch, PortalIInv, PortalScreens
<1>4. PortalScreens'
  BY <1>1, <1>2, <1>3 DEF PortalIInv, PortalScreens
<1>5. PortalAlone'
  BY <1>1, AloneKept DEF PortalIInv
<1>6. PortalAccounts' /\ PortalFlows'
  BY <1>1 DEF PortalIInv, PortalAccounts, PortalFlows
<1>7. QED BY <1>4, <1>5, <1>6 DEF PortalIInv

LEMMA QuietIs ==
  /\ Moving!Quiet \in [phase : {"idle", "busy", "done", "error"}, req : Moving!Request \cup {Moving!NoRequest}]
  /\ Moving!Quiet.phase = "idle"
BY DEF Moving!Quiet

(* The modal opens, closes, or its failure is put away.                                  *)
LEMMA ModalKeeps ==
  ASSUME PortalIInv, (\E m \in Moving!Modals : Moving!OpenModal(m)) \/ Moving!CloseModal \/ Moving!Dismiss
  PROVE  PortalIInv'
<1>1. UNCHANGED <<acct, who, shown, late, flow, sent, budget>> /\ status' = Moving!Quiet
  BY DEF Moving!OpenModal, Moving!CloseModal, Moving!Dismiss
<1>2. modal' \in Moving!Modals \cup {Moving!Closed} /\ slipped' \in BOOLEAN
  BY DEF Moving!OpenModal, Moving!CloseModal, Moving!Dismiss, PortalIInv, PortalScreens
<1>3. PortalScreens'
  BY <1>1, <1>2, QuietIs DEF PortalIInv, PortalScreens
<1>4. PortalAccounts' /\ PortalFlows'
  BY <1>1 DEF PortalIInv, PortalAccounts, PortalFlows
<1>5. PortalAlone'
  <2>1. Moving!Active' = Moving!Active
    BY <1>1 DEF Moving!Active
  <2>2. CASE Moving!Dismiss
    <3>1. modal = Moving!Closed /\ modal' = modal /\ slipped' = slipped
      BY <2>2 DEF Moving!Dismiss, Moving!Banner
    <3>2. ~slipped => Moving!Active = {}
      BY <3>1 DEF PortalIInv, PortalAlone
    <3>3. QED BY <1>1, <2>1, <3>1, <3>2, QuietIs DEF PortalAlone
  <2>3. CASE Moving!CloseModal
    <3>1. slipped' = (slipped \/ Moving!Active # {})
      BY <2>3 DEF Moving!CloseModal
    <3>2. QED BY <1>1, <2>1, <3>1, QuietIs DEF PortalAlone
  <2>4. CASE \E m \in Moving!Modals : Moving!OpenModal(m)
    <3>1. modal = Moving!Closed /\ slipped' = slipped
      BY <2>4 DEF Moving!OpenModal
    <3>2. ~slipped => Moving!Active = {}
      BY <3>1 DEF PortalIInv, PortalAlone
    <3>3. QED BY <1>1, <2>1, <3>1, <3>2, QuietIs DEF PortalAlone
  <2>5. QED BY <2>2, <2>3, <2>4
<1>6. QED BY <1>3, <1>4, <1>5 DEF PortalIInv

LEMMA ClickKeeps ==
  ASSUME PortalIInv, NEW f \in Flows, NEW amt \in PortalAmounts, Moving!Click(f, amt) PROVE PortalIInv'
<1> DEFINE req == Moving!PreviewReq(modal, amt)
           r == [Moving!Idle EXCEPT !.user = who, !.req = req, !.mode = modal,
                                    !.todo = Moving!Plan(req.kind), !.no = budget.clicks, !.saw = shown.base]
<1>1. /\ UNCHANGED <<acct, who, shown, late, modal, sent>> /\ Moving!Begin(f, r)
      /\ flow[f].pc = "idle" /\ modal # Moving!Closed /\ who # NoUser
      /\ status.phase \in {"idle", "error"} /\ ~Moving!Blocked(modal, amt)
      /\ slipped' = (slipped \/ Moving!Active # {}) /\ budget' = [budget EXCEPT !.clicks = @ - 1]
  BY DEF Moving!Click
<1>2. req \in Moving!Request /\ req.amt = amt /\ (modal.mode = "borrow" => req.kind = "withdraw")
  BY RequestIs
<1>3. who \in Wallets /\ modal \in Moving!Modals /\ shown.base \in Int /\ budget.clicks \in Int
  BY <1>1 DEF PortalIInv, PortalScreens, PortalScreen
<1>4. Moving!Plan(req.kind) \in PortalTodos
  BY PlansAre
<1>5. /\ r \in PortalFlow
      /\ r.user = who /\ r.req = req /\ r.mode = modal /\ r.saw = shown.base
  <2> DEFINE k == req
             p == Moving!Plan(req.kind)
  <2> HIDE DEF k, p
  <2>1. [Moving!Idle EXCEPT !.user = who, !.req = k, !.mode = modal, !.todo = p,
                            !.no = budget.clicks, !.saw = shown.base] \in PortalFlow
    BY <1>2, <1>3, <1>4, IdleIs DEF PortalFlow, k, p
  <2>2. QED BY <2>1 DEF k, p, Moving!Idle
<1>6. modal.mode = "borrow" => OpensDebt(req, shown.base)
  <2>1. modal.mode = "borrow" => ~(amt <= Moving!Plus(shown.base))
    BY <1>1 DEF Moving!Blocked
  <2>2. Moving!Plus(shown.base) \in Int /\ amt \in Int
    BY <1>3, PortalNumbers DEF Moving!Plus
  <2> HIDE DEF req
  <2>3. QED BY <1>2, <2>1, <2>2 DEF OpensDebt
<1> HIDE DEF req, r
<1>7. /\ flow' \in [Flows -> PortalFlow] /\ \A g \in Flows : FlowIsOpen(flow'[g])
      /\ flow'[f].pc # "idle" /\ flow'[f].req = req
      /\ \A g \in Flows \ {f} : flow'[g] = flow[g]
      /\ status' = status \/ status' = [phase |-> "busy", req |-> req]
  BY <1>1, <1>2, <1>3, <1>5, <1>6, LegBegins DEF PortalIInv
<1>8. PortalFlows' /\ PortalAccounts'
  BY <1>1, <1>7 DEF PortalIInv, PortalFlows, PortalAccounts
<1>9. PortalScreens'
  <2>1. [budget EXCEPT !.clicks = @ - 1] \in [clicks : Int, moves : Int]
    BY DEF PortalIInv, PortalScreens
  <2>2. slipped' \in BOOLEAN
    BY <1>1
  <2>3. status' \in [phase : {"idle", "busy", "done", "error"}, req : Moving!Request \cup {Moving!NoRequest}]
    BY <1>2, <1>7 DEF PortalIInv, PortalScreens
  <2>4. QED BY <1>1, <2>1, <2>2, <2>3 DEF PortalIInv, PortalScreens
<1>10. PortalAlone'
  <2>1. req = Moving!PreviewReq(modal', amt)
    BY <1>1 DEF req
  <2>2. f \in Moving!Active'
    BY <1>7 DEF Moving!Active
  <2>3. status'.phase \in {"idle", "error", "busy"}
    BY <1>1, <1>7
  <2>4. ASSUME ~slipped' PROVE Moving!Active' = {f}
    <3>1. Moving!Active = {}
      BY <1>1, <2>4
    <3>2. QED BY <1>7, <3>1 DEF Moving!Active
  <2>5. modal' # Moving!Closed'
    BY <1>1 DEF Moving!Closed
  <2>6. \A g \in Moving!Active' : ~slipped' => AsksFor(flow[g].req)'
    BY <1>7, <2>1, <2>4 DEF AsksFor
  <2>7. QED BY <2>2, <2>3, <2>4, <2>5, <2>6 DEF PortalAlone
<1>11. QED BY <1>8, <1>9, <1>10 DEF PortalIInv

(* A flow that is open goes on: its next leg begins, or its prompt comes up.            *)
LEMMA OpenIs ==
  ASSUME PortalIInv, NEW f \in Flows, flow[f].pc # "idle"
  PROVE  /\ flow[f] \in PortalFlow /\ flow[f].user \in Wallets /\ flow[f].req \in Moving!Request
         /\ flow[f].mode \in Moving!Modals /\ f \in Moving!Active
         /\ flow[f].mode.mode = "borrow" => OpensDebt(flow[f].req, flow[f].saw)
BY DEF PortalIInv, PortalFlows, FlowIsOpen, Moving!Active

LEMMA GoesOnKeeps ==
  ASSUME PortalIInv, NEW f \in Flows, flow[f].pc # "idle",
         UNCHANGED <<acct, who, shown, late, modal, slipped, sent, budget>>,
         flow' \in [Flows -> PortalFlow], \A g \in Flows : FlowIsOpen(flow'[g]),
         flow'[f].pc # "idle", flow'[f].req = flow[f].req,
         \A g \in Flows \ {f} : flow'[g] = flow[g],
         status' = status \/ status' = [phase |-> "busy", req |-> flow[f].req]
  PROVE  PortalIInv'
<1>1. flow[f].req \in Moving!Request /\ f \in Moving!Active
  BY OpenIs
<1>2. PortalAccounts' /\ PortalFlows'
  BY DEF PortalIInv, PortalAccounts, PortalFlows
<1>3. PortalScreens'
  <2>1. status' \in [phase : {"idle", "busy", "done", "error"}, req : Moving!Request \cup {Moving!NoRequest}]
    BY <1>1 DEF PortalIInv, PortalScreens
  <2>2. QED BY <2>1 DEF PortalIInv, PortalScreens
<1>4. PortalAlone'
  <2>1. \A g \in Flows : (flow'[g].pc # "idle") = (flow[g].pc # "idle")
    OBVIOUS
  <2>2. \A g \in Flows : flow[g].pc # "idle" => flow'[g].req = flow[g].req
    OBVIOUS
  <2>3. status' = status \/ (status'.phase = "busy" /\ Moving!Active # {})
    BY <1>1
  <2>4. QED BY <2>1, <2>2, <2>3, AloneKept DEF PortalIInv
<1>5. QED BY <1>2, <1>3, <1>4 DEF PortalIInv

LEMMA RestBegins ==
  ASSUME PortalIInv, NEW f \in Flows, flow[f].pc # "idle", Moving!Leg(f) # "action",
         Moving!Begin(f, Moving!Rest(f)), UNCHANGED <<acct, who, shown, late, modal, slipped, sent, budget>>
  PROVE  PortalIInv'
<1> DEFINE r == Moving!Rest(f)
<1>1. /\ flow[f] \in PortalFlow /\ flow[f].user \in Wallets /\ flow[f].req \in Moving!Request
      /\ flow[f].mode \in Moving!Modals
      /\ flow[f].mode.mode = "borrow" => OpensDebt(flow[f].req, flow[f].saw)
  BY OpenIs
<1>2. /\ r \in PortalFlow /\ r.user = flow[f].user /\ r.req = flow[f].req /\ r.mode = flow[f].mode
      /\ r.saw = flow[f].saw
  BY <1>1, FlowWith DEF Moving!Rest, Moving!Leg
<1> HIDE DEF r
<1>3. PortalFlows /\ PortalScreens /\ Moving!Begin(f, r)
  BY DEF PortalIInv, r
<1>4. /\ flow' \in [Flows -> PortalFlow] /\ \A g \in Flows : FlowIsOpen(flow'[g])
      /\ flow'[f].pc # "idle" /\ flow'[f].req = r.req
      /\ \A g \in Flows \ {f} : flow'[g] = flow[g]
      /\ status' = status \/ status' = [phase |-> "busy", req |-> r.req]
  BY <1>1, <1>2, <1>3, LegBegins
<1>5. QED BY <1>2, <1>4, GoesOnKeeps

LEMMA AsksKeeps ==
  ASSUME PortalIInv, NEW f \in Flows, NEW p \in {"ask", "sent"}, flow[f].pc # "idle",
         flow' = [flow EXCEPT ![f] = [flow[f] EXCEPT !.pc = p]],
         status' = status \/ status' = [phase |-> "busy", req |-> flow[f].req],
         UNCHANGED <<acct, who, shown, late, modal, slipped, sent, budget>>
  PROVE  PortalIInv'
<1> DEFINE q == [flow[f] EXCEPT !.pc = p]
<1>1. /\ flow[f] \in PortalFlow /\ flow[f].user \in Wallets /\ flow[f].req \in Moving!Request
      /\ flow[f].mode \in Moving!Modals
      /\ flow[f].mode.mode = "borrow" => OpensDebt(flow[f].req, flow[f].saw)
  BY OpenIs
<1>2. /\ q \in PortalFlow /\ q.pc = p /\ q.user = flow[f].user /\ q.req = flow[f].req
      /\ q.mode = flow[f].mode /\ q.saw = flow[f].saw
  BY <1>1 DEF PortalFlow
<1> HIDE DEF q
<1>3. flow \in [Flows -> PortalFlow] /\ \A g \in Flows : FlowIsOpen(flow[g])
  BY DEF PortalIInv, PortalFlows
<1>4. flow' \in [Flows -> PortalFlow] /\ flow'[f] = q /\ \A g \in Flows \ {f} : flow'[g] = flow[g]
  BY <1>2, <1>3 DEF q
<1>5. FlowIsOpen(q)
  BY <1>1, <1>2 DEF FlowIsOpen
<1>6. \A g \in Flows : FlowIsOpen(flow'[g])
  BY <1>3, <1>4, <1>5
<1>7. flow'[f].pc # "idle" /\ flow'[f].req = flow[f].req
  BY <1>2, <1>4
<1>8. QED BY <1>4, <1>6, <1>7, GoesOnKeeps

LEMMA ReadKeeps ==
  ASSUME PortalIInv, NEW f \in Flows, Moving!Read(f) PROVE PortalIInv'
<1>1. flow[f].pc = "read" /\ UNCHANGED <<acct, who, shown, late, modal, slipped, sent, budget>>
  BY DEF Moving!Read, Moving!World
<1>2. Moving!Leg(f) # "action"
  BY <1>1 DEF PortalIInv, PortalFlows, FlowIsOpen, Moving!Leg
<1>3. CASE Moving!Needs(f)
  <2>1. flow' = [flow EXCEPT ![f] = [flow[f] EXCEPT !.pc = "ask"]] /\ status' = [phase |-> "busy", req |-> flow[f].req]
    BY <1>3 DEF Moving!Read, Moving!Become, Moving!Busy
  <2>2. QED BY <1>1, <2>1, AsksKeeps
<1>4. CASE ~Moving!Needs(f)
  <2>1. Moving!Begin(f, Moving!Rest(f))
    BY <1>4 DEF Moving!Read
  <2>2. QED BY <1>1, <1>2, <2>1, RestBegins
<1>5. QED BY <1>3, <1>4

LEMMA AdvanceKeeps ==
  ASSUME PortalIInv, NEW f \in Flows, Moving!Advance(f) PROVE PortalIInv'
<1>1. /\ flow[f].pc = "sent" /\ Moving!Leg(f) # "action" /\ Moving!Begin(f, Moving!Rest(f))
      /\ UNCHANGED <<acct, who, shown, late, modal, slipped, sent, budget>>
  BY DEF Moving!Advance, Moving!World
<1>2. QED BY <1>1, RestBegins

(* A flow ends, and says so.                                                        *)
LEMMA EndKeeps ==
  ASSUME PortalIInv, NEW f \in Flows, Moving!Finish(f) \/ Moving!Fail(f) PROVE PortalIInv'
<1>1. /\ flow[f].pc # "idle" /\ flow' = [flow EXCEPT ![f] = Moving!Idle]
      /\ UNCHANGED <<acct, who, shown, late, modal, slipped, sent, budget>>
      /\ \/ status' = [phase |-> "done", req |-> flow[f].req]
         \/ status' = [phase |-> "error", req |-> Moving!NoRequest]
  BY DEF Moving!Finish, Moving!Fail, Moving!World, Moving!Become
<1>2. flow[f].req \in Moving!Request /\ f \in Moving!Active
  BY <1>1, OpenIs
<1>3. /\ flow' \in [Flows -> PortalFlow] /\ flow'[f].pc = "idle" /\ \A g \in Flows \ {f} : flow'[g] = flow[g]
  BY <1>1, IdleIs DEF PortalIInv, PortalFlows
<1>4. \A g \in Flows : FlowIsOpen(flow'[g])
  BY <1>3 DEF PortalIInv, PortalFlows, FlowIsOpen
<1>5. PortalAccounts' /\ PortalFlows'
  BY <1>1, <1>3, <1>4 DEF PortalIInv, PortalAccounts, PortalFlows
<1>6. PortalScreens'
  <2>1. status' \in [phase : {"idle", "busy", "done", "error"}, req : Moving!Request \cup {Moving!NoRequest}]
    BY <1>1, <1>2 DEF PortalIInv, PortalScreens
  <2>2. QED BY <1>1, <2>1 DEF PortalIInv, PortalScreens
<1>7. PortalAlone'
  <2>1. status'.phase \in {"done", "error"}
    BY <1>1
  <2>2. CASE slipped
    BY <1>1, <2>1, <2>2 DEF PortalAlone
  <2>3. CASE ~slipped
    <3>1. Moving!Active = {f} /\ modal # Moving!Closed /\ AsksFor(flow[f].req)
      BY <1>2, <2>3 DEF PortalIInv, PortalAlone
    <3>2. Moving!Active' = {}
      BY <1>3, <3>1 DEF Moving!Active
    <3>3. modal' # Moving!Closed
      BY <1>1, <3>1
    <3>4. status'.phase = "done" => \E amt \in PortalAmounts : status'.req = Moving!PreviewReq(modal', amt)
      BY <1>1, <3>1 DEF AsksFor
    <3>5. QED BY <2>1, <3>2, <3>3, <3>4 DEF PortalAlone, AsksFor, Moving!Closed
  <2>4. QED BY <2>2, <2>3
<1>8. QED BY <1>5, <1>6, <1>7 DEF PortalIInv

LEMMA TxIs ==
  ASSUME PortalIInv, NEW f \in Flows, flow[f].pc # "idle"
  PROVE  Moving!TxOf(f) \in PortalTx /\ TxBorrows(Moving!TxOf(f))
<1>1. /\ flow[f] \in PortalFlow /\ flow[f].user \in Wallets /\ flow[f].req \in Moving!Request
      /\ flow[f].mode \in Moving!Modals
      /\ flow[f].mode.mode = "borrow" => OpensDebt(flow[f].req, flow[f].saw)
  BY OpenIs
<1>2. flow[f].mode.mode \in PortalModes
  BY <1>1, ModalsAre
<1>3. flow[f].todo \in PortalTodos /\ flow[f].no \in Int /\ flow[f].saw \in Int
  BY <1>1 DEF PortalFlow
<1>4. Moving!Leg(f) \in PortalLegs
  BY <1>3, TodosAre DEF Moving!Leg
<1>5. QED BY <1>1, <1>2, <1>3, <1>4 DEF Moving!TxOf, PortalTx, TxBorrows

LEMMA SignKeeps ==
  ASSUME PortalIInv, NEW f \in Flows, Moving!Sign(f) PROVE PortalIInv'
<1>1. /\ flow[f].pc = "ask" /\ flow' = [flow EXCEPT ![f] = [flow[f] EXCEPT !.pc = "sent"]]
      /\ sent' = sent \cup {Moving!TxOf(f)}
      /\ UNCHANGED <<acct, who, shown, late, modal, slipped, status, budget>>
  BY DEF Moving!Sign, Moving!World, Moving!Become
<1> DEFINE q == [flow[f] EXCEPT !.pc = "sent"]
<1>2. Moving!TxOf(f) \in PortalTx /\ TxBorrows(Moving!TxOf(f))
  BY <1>1, TxIs
<1>3. sent' \in SUBSET PortalTx /\ \A tx \in sent' : TxBorrows(tx)
  BY <1>1, <1>2 DEF PortalIInv, PortalFlows
<1>4. /\ flow[f] \in PortalFlow /\ flow[f].user \in Wallets /\ flow[f].req \in Moving!Request
      /\ flow[f].mode \in Moving!Modals
      /\ flow[f].mode.mode = "borrow" => OpensDebt(flow[f].req, flow[f].saw)
  BY <1>1, OpenIs
<1>5. /\ q \in PortalFlow /\ q.pc = "sent" /\ q.user = flow[f].user /\ q.req = flow[f].req
      /\ q.mode = flow[f].mode /\ q.saw = flow[f].saw
  BY <1>4 DEF PortalFlow
<1> HIDE DEF q
<1>6. flow \in [Flows -> PortalFlow] /\ \A g \in Flows : FlowIsOpen(flow[g])
  BY DEF PortalIInv, PortalFlows
<1>7. flow' \in [Flows -> PortalFlow] /\ flow'[f] = q /\ \A g \in Flows \ {f} : flow'[g] = flow[g]
  BY <1>1, <1>5, <1>6 DEF q
<1>8. FlowIsOpen(q)
  BY <1>4, <1>5 DEF FlowIsOpen
<1>9. \A g \in Flows : FlowIsOpen(flow'[g])
  BY <1>6, <1>7, <1>8
<1>10. PortalFlows'
  BY <1>3, <1>7, <1>9 DEF PortalFlows
<1>11. PortalAccounts' /\ PortalScreens'
  BY <1>1 DEF PortalIInv, PortalAccounts, PortalScreens
<1>12. PortalAlone'
  <2>1. \A g \in Flows : (flow'[g].pc # "idle") = (flow[g].pc # "idle")
    BY <1>1, <1>5, <1>7
  <2>2. \A g \in Flows : flow[g].pc # "idle" => flow'[g].req = flow[g].req
    BY <1>5, <1>7
  <2>3. QED BY <1>1, <2>1, <2>2, AloneKept DEF PortalIInv
<1>13. QED BY <1>10, <1>11, <1>12 DEF PortalIInv

LEMMA LandKeeps ==
  ASSUME PortalIInv, NEW tx \in sent, Moving!Land(tx) PROVE PortalIInv'
<1>1. /\ sent' = sent \ {tx}
      /\ acct' = IF Moving!Can(acct[tx.user], tx) THEN [acct EXCEPT ![tx.user] = Moving!Does(acct[tx.user], tx)] ELSE acct
      /\ flow' = [f \in Flows |-> IF flow[f].pc = "sent" /\ Moving!TxOf(f) = tx
                                  THEN [flow[f] EXCEPT !.landed = TRUE] ELSE flow[f]]
      /\ UNCHANGED <<who, shown, late, modal, status, slipped, budget>>
  BY DEF Moving!Land
<1>2. tx \in PortalTx /\ tx.user \in Wallets
  BY DEF PortalIInv, PortalFlows, PortalTx
<1>3. PortalAccounts'
  <2>1. acct \in [Wallets -> PortalAccount] /\ \A u \in Wallets : Moving!Solvent(acct[u])
    BY DEF PortalIInv, PortalAccounts
  <2>2. CASE ~Moving!Can(acct[tx.user], tx)
    BY <1>1, <2>1, <2>2 DEF PortalAccounts
  <2>3. CASE Moving!Can(acct[tx.user], tx)
    <3> DEFINE b == Moving!Does(acct[tx.user], tx)
    <3>1. b \in PortalAccount /\ Moving!Solvent(b)
      BY <1>2, <2>1, <2>3, DoesIs
    <3>2. acct' = [acct EXCEPT ![tx.user] = b]
      BY <1>1, <2>3
    <3> HIDE DEF b
    <3>3. QED BY <1>2, <2>1, <3>1, <3>2 DEF PortalAccounts
  <2>4. QED BY <2>2, <2>3
<1>4. \A f \in Flows : /\ flow'[f] \in PortalFlow /\ flow'[f].pc = flow[f].pc /\ flow'[f].user = flow[f].user
                       /\ flow'[f].req = flow[f].req /\ flow'[f].mode = flow[f].mode
                       /\ flow'[f].todo = flow[f].todo /\ flow'[f].saw = flow[f].saw
  <2> SUFFICES ASSUME NEW f \in Flows
               PROVE  /\ flow'[f] \in PortalFlow /\ flow'[f].pc = flow[f].pc /\ flow'[f].user = flow[f].user
                      /\ flow'[f].req = flow[f].req /\ flow'[f].mode = flow[f].mode
                      /\ flow'[f].todo = flow[f].todo /\ flow'[f].saw = flow[f].saw
    OBVIOUS
  <2>1. flow[f] \in PortalFlow
    BY DEF PortalIInv, PortalFlows
  <2>2. flow'[f] = flow[f] \/ flow'[f] = [flow[f] EXCEPT !.landed = TRUE]
    BY <1>1
  <2>3. QED BY <2>1, <2>2 DEF PortalFlow
<1>5. flow' \in [Flows -> PortalFlow]
  BY <1>1, <1>4
<1>6. \A f \in Flows : FlowIsOpen(flow'[f])
  BY <1>4 DEF FlowIsOpen, PortalIInv, PortalFlows
<1>7. PortalFlows'
  BY <1>1, <1>5, <1>6 DEF PortalIInv, PortalFlows
<1>8. PortalScreens'
  BY <1>1 DEF PortalIInv, PortalScreens
<1>9. PortalAlone'
  BY <1>1, <1>4, AloneKept DEF PortalIInv
<1>10. QED BY <1>3, <1>7, <1>8, <1>9 DEF PortalIInv

LEMMA ElsewhereKeeps ==
  ASSUME PortalIInv, NEW u \in Wallets, NEW n \in {-1, 1}, Moving!Elsewhere(u, n) PROVE PortalIInv'
<1>1. /\ acct' = [acct EXCEPT ![u] = [acct[u] EXCEPT !.base = acct[u].base + n]] /\ Moving!Solvent(acct'[u])
      /\ budget' = [budget EXCEPT !.moves = budget.moves - 1]
      /\ UNCHANGED <<who, shown, late, modal, status, flow, sent, slipped>>
  BY DEF Moving!Elsewhere
<1>2. acct \in [Wallets -> PortalAccount] /\ \A v \in Wallets : Moving!Solvent(acct[v])
  BY DEF PortalIInv, PortalAccounts
<1>3. [acct[u] EXCEPT !.base = acct[u].base + n] \in PortalAccount
  <2>1. acct[u] \in PortalAccount
    BY <1>2
  <2>2. acct[u].base + n \in Int
    <3>1. acct[u].base \in Int /\ n \in Int
      BY <2>1 DEF PortalAccount
    <3>2. QED BY <3>1
  <2>3. QED BY <2>1, <2>2, AccountWith
<1>4. PortalAccounts'
  BY <1>1, <1>2, <1>3 DEF PortalAccounts
<1>5. PortalScreens' /\ PortalFlows'
  BY <1>1 DEF PortalIInv, PortalScreens, PortalFlows
<1>6. PortalAlone'
  BY <1>1, AloneKept DEF PortalIInv
<1>7. QED BY <1>4, <1>5, <1>6 DEF PortalIInv

LEMMA PortalNextKeeps ==
  ASSUME PortalIInv, PortalNext PROVE PortalIInv'
<1>1. Moving!Next
  BY DEF PortalNext
<1>2. QED
  BY <1>1, LoadKeeps, SwitchKeeps, ModalKeeps, ClickKeeps, ReadKeeps, AdvanceKeeps, EndKeeps, SignKeeps,
     LandKeeps, ElsewhereKeeps
     DEF Moving!Next, Wallets

LEMMA PortalInitHolds ==
  ASSUME PortalInit PROVE PortalIInv
<1> DEFINE Began == OwnerStarts \cup {OtherStart}
<1>1. /\ acct \in {[u \in Wallets |-> Moving!Account(s[u])] : s \in [Wallets -> Began]}
      /\ who \in Wallets /\ shown = Moving!Blank /\ late = {}
      /\ modal = Moving!Closed /\ status = Moving!Quiet
      /\ flow = [f \in Flows |-> Moving!Idle] /\ sent = {} /\ slipped = FALSE
      /\ budget \in [clicks : Int, moves : Int]
  <2>1. CASE Moving!Init
    BY <2>1 DEF Moving!Init, Wallets
  <2>2. CASE Steady!Init
    <3>1. /\ acct \in {[u \in Wallets |-> Steady!Account(s[u])] : s \in [Wallets -> Began]}
          /\ who \in Wallets /\ shown = Steady!Blank /\ late = {}
          /\ modal = Steady!Closed /\ status = Steady!Quiet
          /\ flow = [f \in Flows |-> Steady!Idle] /\ sent = {} /\ slipped = FALSE
          /\ budget = [clicks |-> 2, moves |-> 0]
      BY <2>2 DEF Steady!Init, Wallets
    <3>2. \A x : Steady!Account(x) = Moving!Account(x)
      BY DEF Steady!Account, Moving!Account
    <3>3. Steady!Blank = Moving!Blank /\ Steady!Closed = Moving!Closed /\ Steady!NoRequest = Moving!NoRequest
      BY DEF Steady!Blank, Moving!Blank, Steady!Closed, Moving!Closed, Steady!NoRequest, Moving!NoRequest
    <3>4. Steady!DoWithdraw = Moving!DoWithdraw
      BY DEF Steady!DoWithdraw, Moving!DoWithdraw
    <3>5. Steady!Quiet = Moving!Quiet /\ Steady!Idle = Moving!Idle
      BY <3>3, <3>4 DEF Steady!Quiet, Moving!Quiet, Steady!Idle, Moving!Idle
    <3>6. QED BY <3>1, <3>2, <3>3, <3>5
  <2>3. QED BY <2>1, <2>2 DEF PortalInit
<1>2. PortalAccounts
  <2>1. PICK s \in [Wallets -> Began] : acct = [u \in Wallets |-> Moving!Account(s[u])]
    BY <1>1
  <2>2. ASSUME NEW x \in Began PROVE Moving!Account(x) \in PortalAccount /\ Moving!Solvent(Moving!Account(x))
    <3>1. x.base \in Int /\ x.coll \in Nat /\ x.wallet \in Nat /\ x.wcoll \in Nat
      BY DEF OwnerStarts, OtherStart
    <3>2. Moving!Account(x) \in PortalAccount
      BY <3>1 DEF Moving!Account, PortalAccount
    <3>3. Moving!Account(x).base = x.base /\ Moving!Account(x).coll = x.coll
      BY DEF Moving!Account
    <3>4. (x.base >= 0 \/ (x.base = -1 /\ x.coll = 1)) /\ x.coll \in {0, 1}
      BY DEF OwnerStarts, OtherStart
    <3>5. x.coll * PortalFactor \in Nat /\ (x.coll = 1 => x.coll * PortalFactor >= 1)
      BY <3>4, PortalNumbers
    <3>6. Moving!Solvent(Moving!Account(x))
      BY <3>1, <3>3, <3>4, <3>5 DEF Moving!Solvent, Moving!Minus
    <3>7. QED BY <3>2, <3>6
  <2>3. QED BY <2>1, <2>2 DEF PortalAccounts
<1>3. PortalScreens
  <2>1. Moving!Blank \in PortalScreen
    BY DEF Moving!Blank, PortalScreen
  <2>2. QED BY <1>1, <2>1, QuietIs DEF PortalScreens
<1>4. PortalFlows
  BY <1>1, IdleIs DEF PortalFlows, FlowIsOpen
<1>5. PortalAlone
  <2>1. Moving!Active = {}
    BY <1>1, IdleIs DEF Moving!Active
  <2>2. QED BY <1>1, <2>1, QuietIs DEF PortalAlone
<1>6. QED BY <1>2, <1>3, <1>4, <1>5 DEF PortalIInv

LEMMA HonestHolds == ASSUME PortalIInv PROVE Moving!StatusIsHonest
<1>1. Moving!Banner = "retry" => slipped
  <2>1. Moving!Banner = "retry" => modal = Moving!Closed /\ status.phase = "error"
    BY DEF Moving!Banner
  <2>2. QED BY <2>1 DEF PortalIInv, PortalAlone
<1>2. status.phase = "busy" => Moving!Active # {}
  BY DEF PortalIInv, PortalAlone
<1>3. ASSUME ~slipped PROVE Cardinality(Moving!Active) <= 1
  <2>1. \A f, g \in Moving!Active : f = g
    BY <1>3 DEF PortalIInv, PortalAlone
  <2>2. CASE Moving!Active = {}
    BY <2>2, FS_EmptySet
  <2>3. CASE Moving!Active # {}
    <3>1. PICK f \in Moving!Active : TRUE
      BY <2>3
    <3>2. Moving!Active = {f}
      BY <2>1, <3>1
    <3>3. Cardinality({f}) = 1
      BY FS_Singleton
    <3>4. QED BY <3>2, <3>3
  <2>4. QED BY <2>2, <2>3
<1>4. ASSUME ~slipped, status.phase = "done"
      PROVE  Moving!Active = {} /\ \E amt \in PortalAmounts : status.req = Moving!PreviewReq(modal, amt)
  BY <1>4 DEF PortalIInv, PortalAlone, AsksFor
<1>5. /\ ~slipped => Cardinality(Moving!Active) <= 1
      /\ ~slipped /\ status.phase = "done" =>
           Moving!Active = {} /\ \E amt \in PortalAmounts : status.req = Moving!PreviewReq(modal, amt)
  BY <1>3, <1>4
<1>6. Moving!Cardinality(Moving!Active) = Cardinality(Moving!Active)
  BY DEF Moving!Cardinality, Cardinality
<1>7. QED BY <1>1, <1>2, <1>5, <1>6 DEF Moving!StatusIsHonest

(* The preview of an account, figure by figure.                                         *)
LEMMA PreviewIs ==
  ASSUME NEW s, s.base \in Int, s.wallet \in Nat, s.coll \in Nat, NEW req \in Moving!Request,
         ~(req.kind = "supply" /\ s.base < 0), ~(req.kind = "leverageOpen" /\ s.base > 0)
  PROVE  LET t == Moving!Preview(s, req)
         IN t = [wallet |-> WalletThen(s, req), supply |-> Moving!Plus(BaseThen(s, req)),
                 borrow |-> Moving!Minus(BaseThen(s, req)), coll |-> CollThen(s, req)]
<1> DEFINE amt == req.amt
<1>1. amt \in Nat \ {0} /\ req.kind \in Moving!Kinds
  BY PortalNumbers DEF Moving!Request
<1> USE DEF WalletThen, BaseThen, CollThen, Moving!Plus, Moving!Minus
<1>2. CASE req.kind = "supply"
  <2>1. Moving!Preview(s, req) = [wallet |-> s.wallet - amt, supply |-> Moving!Plus(s.base) + amt, borrow |-> Moving!Minus(s.base), coll |-> s.coll]
    BY <1>2 DEF Moving!Preview
  <2>2. QED BY <1>1, <1>2, <2>1
<1>3. CASE req.kind = "withdraw"
  <2> DEFINE k == IF Moving!Plus(s.base) >= amt THEN amt ELSE Moving!Plus(s.base)
  <2>1. Moving!Preview(s, req) = [wallet |-> s.wallet + amt, supply |-> Moving!Plus(s.base) - k, borrow |-> Moving!Minus(s.base) + amt - k, coll |-> s.coll]
    BY <1>3 DEF Moving!Preview
  <2>2. /\ Moving!Plus(s.base) - k = Moving!Plus(s.base - amt)
        /\ Moving!Minus(s.base) + amt - k = Moving!Minus(s.base - amt)
    BY <1>1
  <2>3. QED BY <1>1, <1>3, <2>1, <2>2
<1>4. CASE req.kind = "supplyCollateral"
  <2>1. Moving!Preview(s, req) = [wallet |-> s.wallet, supply |-> Moving!Plus(s.base), borrow |-> Moving!Minus(s.base), coll |-> s.coll + 1]
    BY <1>4 DEF Moving!Preview
  <2>2. QED BY <1>1, <1>4, <2>1
<1>5. CASE req.kind = "withdrawCollateral"
  <2>1. Moving!Preview(s, req) = [wallet |-> s.wallet, supply |-> Moving!Plus(s.base), borrow |-> Moving!Minus(s.base), coll |-> s.coll - 1]
    BY <1>5 DEF Moving!Preview
  <2>2. QED BY <1>1, <1>5, <2>1
<1>6. CASE req.kind = "leverageOpen"
  <2>1. Moving!Preview(s, req) = [wallet |-> s.wallet + amt, supply |-> Moving!Plus(s.base), borrow |-> Moving!Minus(s.base) + amt, coll |-> s.coll + 1]
    BY <1>6 DEF Moving!Preview
  <2>2. QED BY <1>1, <1>6, <2>1
<1>7. QED BY <1>1, <1>2, <1>3, <1>4, <1>5, <1>6 DEF Moving!Kinds

LEMMA PreviewHolds == ASSUME PortalIInv PROVE Moving!PreviewTells
<1> SUFFICES ASSUME who # NoUser, shown = Moving!Screen(who), NEW m \in Moving!Modals, NEW amt \in PortalAmounts
             PROVE  LET req == Moving!PreviewReq(m, amt)
                        a == [acct[who] EXCEPT !.comet = [base |-> amt, coll |-> 1], !.bulker = TRUE, !.manager = TRUE]
                        b == Moving!Does(a, Moving!Executed(req))
                        says == Moving!Preview(shown, req)
                    IN \/ ~Moving!Can(a, Moving!Executed(req))
                       \/ req.kind = "supply" /\ a.base < 0
                       \/ req.kind = "leverageOpen" /\ a.base > 0
                       \/ /\ says = [wallet |-> b.wallet, supply |-> Moving!Plus(b.base), borrow |-> Moving!Minus(b.base), coll |-> b.coll]
                          /\ Moving!Hint(shown, req) = "opens" <=> req.kind = "withdraw" /\ b.base < 0
                          /\ Moving!Hint(shown, req) \in {"same", "no debt"} => b.base >= 0 \/ <<b.base, b.coll>> = <<a.base, a.coll>>
  BY DEF Moving!PreviewTells
<1> DEFINE req == Moving!PreviewReq(m, amt)
           a == [acct[who] EXCEPT !.comet = [base |-> amt, coll |-> 1], !.bulker = TRUE, !.manager = TRUE]
           b == Moving!Does(a, Moving!Executed(req))
           says == Moving!Preview(shown, req)
<1>1. req \in Moving!Request /\ amt \in Nat
  BY RequestIs, PortalNumbers
<1>2. acct[who] \in PortalAccount
  BY DEF PortalIInv, PortalAccounts, PortalScreens
<1>3. a \in PortalAccount /\ a.base = acct[who].base /\ a.wallet = acct[who].wallet /\ a.coll = acct[who].coll
  <2>1. [base |-> amt, coll |-> 1] \in [base : Nat, coll : Nat]
    BY <1>1
  <2>2. QED BY <1>2, <2>1 DEF PortalAccount
<1>4. shown.base = a.base /\ shown.wallet = a.wallet /\ shown.coll = a.coll
  BY <1>3 DEF Moving!Screen
<1>5. b = Moving!Acted(a, req)
  BY DEF Moving!Does, Moving!Executed
<1> HIDE DEF a, b, req
<1>6. b.base = BaseThen(a, req) /\ b.wallet = WalletThen(a, req) /\ b.coll = CollThen(a, req)
  BY <1>1, <1>3, <1>5, ActedIs
<1>7. /\ a.base \in Int /\ a.wallet \in Nat /\ a.coll \in Nat
      /\ shown.base \in Int /\ shown.wallet \in Nat /\ shown.coll \in Nat
  BY <1>3, <1>4, AccountWith
<1>8. BaseThen(shown, req) = BaseThen(a, req) /\ WalletThen(shown, req) = WalletThen(a, req) /\ CollThen(shown, req) = CollThen(a, req)
  BY <1>4 DEF BaseThen, WalletThen, CollThen
<1>9. req.amt \in Nat \ {0} /\ req.kind \in Moving!Kinds
  BY <1>1, PortalNumbers DEF Moving!Request
<1>10. ASSUME ~(req.kind = "supply" /\ a.base < 0), ~(req.kind = "leverageOpen" /\ a.base > 0)
       PROVE  /\ says = [wallet |-> b.wallet, supply |-> Moving!Plus(b.base), borrow |-> Moving!Minus(b.base), coll |-> b.coll]
              /\ Moving!Hint(shown, req) = "opens" <=> req.kind = "withdraw" /\ b.base < 0
              /\ Moving!Hint(shown, req) \in {"same", "no debt"} => b.base >= 0 \/ <<b.base, b.coll>> = <<a.base, a.coll>>
  <2>1. says = [wallet |-> b.wallet, supply |-> Moving!Plus(b.base), borrow |-> Moving!Minus(b.base), coll |-> b.coll]
    BY <1>1, <1>4, <1>6, <1>7, <1>8, <1>10, PreviewIs
  <2>2. says.borrow = Moving!Minus(b.base)
    BY <2>1
  <2> HIDE DEF says
  <2>3. /\ b.base \in Int /\ Moving!Minus(b.base) = (IF b.base < 0 THEN -b.base ELSE 0)
        /\ Moving!Minus(shown.base) = (IF a.base < 0 THEN -a.base ELSE 0)
    BY <1>4, <1>6, <1>7, <1>9 DEF BaseThen, Moving!Minus
  <2>4. Moving!Hint(shown, req) =
          IF req.kind = "withdraw" /\ says.borrow > Moving!Minus(shown.base) THEN "opens"
          ELSE IF req.kind \in {"supply", "withdraw"} THEN "same"
          ELSE IF says.borrow = 0 THEN "no debt"
          ELSE IF req.kind \in {"leverageOpen", "withdrawCollateral"} THEN "reduces"
          ELSE "improves"
    BY DEF Moving!Hint, says
  <2> DEFINE hint == Moving!Hint(shown, req)
  <2> HIDE DEF hint
  <2>5. CASE req.kind = "withdraw"
    <3>1. b.base = a.base - req.amt
      BY <1>6, <2>5 DEF BaseThen
    <3>2. (says.borrow > Moving!Minus(shown.base)) <=> b.base < 0
      BY <1>7, <1>9, <2>2, <2>3, <3>1
    <3>3. hint = IF b.base < 0 THEN "opens" ELSE "same"
      BY <2>4, <2>5, <3>2 DEF hint
    <3>4. (hint = "opens" <=> b.base < 0) /\ (hint \in {"same", "no debt"} => b.base >= 0)
      BY <2>3, <3>3
    <3>5. QED BY <2>1, <2>5, <3>4 DEF hint
  <2>6. CASE req.kind = "supply"
    <3>1. hint = "same" /\ b.base >= 0
      BY <1>6, <1>7, <1>9, <1>10, <2>4, <2>6 DEF BaseThen, hint
    <3>2. QED BY <2>1, <2>6, <3>1 DEF hint
  <2>7. CASE req.kind \notin {"withdraw", "supply"}
    <3>1. hint # "opens" /\ (hint \in {"same", "no debt"} => says.borrow = 0)
      BY <2>4, <2>7 DEF hint
    <3>2. ASSUME hint \in {"same", "no debt"} PROVE b.base >= 0
      <4>1. Moving!Minus(b.base) = 0
        BY <2>2, <3>1, <3>2
      <4>2. QED BY <2>3, <4>1
    <3>3. QED BY <2>1, <2>7, <3>1, <3>2 DEF hint
  <2>8. QED BY <2>5, <2>6, <2>7
<1>11. QED BY <1>10 DEF a, b, req

(* A transaction that is gone has landed.                                              *)
LEMMA BorrowHolds ==
  ASSUME PortalIInv, PortalNext, NEW tx \in sent PROVE Moving!BorrowOpensDebt(tx)
<1> SUFFICES ASSUME tx \notin sent', tx.leg = "action", tx.mode = "borrow",
                    acct'[tx.user] # acct[tx.user], acct[tx.user].base = tx.saw
             PROVE  acct'[tx.user].base < 0
  BY DEF Moving!BorrowOpensDebt
<1>1. Moving!Land(tx)
  <2>1. Moving!Next
    BY DEF PortalNext
  <2>2. QED
    BY <2>1 DEF Moving!Next, Moving!Load, Moving!LoadLate, Moving!Switch, Moving!OpenModal, Moving!CloseModal,
                Moving!Dismiss, Moving!Click, Moving!Read, Moving!Sign, Moving!Advance, Moving!Finish, Moving!Fail,
                Moving!Elsewhere, Moving!Land, Moving!World
<1>2. tx \in PortalTx /\ OpensDebt(tx.req, tx.saw) /\ acct \in [Wallets -> PortalAccount]
  BY DEF PortalIInv, PortalFlows, PortalAccounts, TxBorrows
<1>3. tx.user \in Wallets /\ tx.req \in Moving!Request /\ acct[tx.user] \in PortalAccount
  BY <1>2 DEF PortalTx
<1>4. acct' = [acct EXCEPT ![tx.user] = Moving!Does(acct[tx.user], tx)]
  BY <1>1 DEF Moving!Land
<1>5. Moving!Does(acct[tx.user], tx) = Moving!Acted(acct[tx.user], tx.req)
  BY DEF Moving!Does
<1>6. acct'[tx.user] = Moving!Acted(acct[tx.user], tx.req)
  BY <1>2, <1>3, <1>4, <1>5
<1>7. acct'[tx.user].base = BaseThen(acct[tx.user], tx.req)
  BY <1>3, <1>6, ActedIs
<1>8. tx.saw \in Int /\ tx.req.amt \in Nat
  BY <1>2, <1>3, PortalNumbers DEF PortalTx, Moving!Request
<1>9. QED BY <1>2, <1>7, <1>8 DEF BaseThen, OpensDebt, Moving!Plus

LEMMA PortalStays == PortalIInv /\ (PortalNext \/ UNCHANGED portalVars) => PortalIInv'
<1>1. ASSUME PortalIInv, UNCHANGED portalVars PROVE PortalIInv'
  <2>1. UNCHANGED <<acct, who, shown, late, modal, status, flow, sent, slipped, budget>>
    BY <1>1 DEF portalVars
  <2>2. PortalAccounts' /\ PortalScreens'
    BY <1>1, <2>1 DEF PortalIInv, PortalAccounts, PortalScreens, Moving!Solvent
  <2>3. PortalFlows'
    BY <1>1, <2>1 DEF PortalIInv, PortalFlows, FlowIsOpen, TxBorrows
  <2>4. PortalAlone'
    BY <1>1, <2>1, AloneKept DEF PortalIInv
  <2> QED
    BY <2>2, <2>3, <2>4 DEF PortalIInv
<1> QED
  BY <1>1, PortalNextKeeps

LEMMA PortalTypes == PortalIInv => Moving!PortalTypeOK
<1> SUFFICES ASSUME PortalIInv PROVE Moving!PortalTypeOK
  OBVIOUS
<1>1. ASSUME NEW u \in Wallets
      PROVE  /\ acct[u].base \in Int /\ Moving!Solvent(acct[u])
             /\ acct[u].coll >= 0 /\ acct[u].wallet >= 0 /\ acct[u].wcoll >= 0
  BY DEF PortalIInv, PortalAccounts, PortalAccount
<1>2. ASSUME NEW f \in Flows
      PROVE  /\ flow[f].pc \in {"idle", "read", "ask", "sent"} /\ flow[f].todo \in PortalTodos
             /\ flow[f].pc # "idle" => flow[f].user \in Wallets /\ flow[f].req \in Moving!Request
  BY DEF PortalIInv, PortalFlows, PortalFlow, FlowIsOpen
<1>3. /\ who \in Wallets \cup {NoUser} /\ shown.of \in Wallets \cup {NoUser} /\ late \subseteq Wallets
      /\ modal \in Moving!Modals \cup {Moving!Closed} /\ slipped \in BOOLEAN
      /\ status.phase \in {"idle", "busy", "done", "error"} /\ status.req \in Moving!Request \cup {Moving!NoRequest}
  BY DEF PortalIInv, PortalScreens, PortalScreen
<1> QED
  BY <1>1, <1>2, <1>3 DEF Moving!PortalTypeOK, Wallets, PortalTodos

-----------------------------------------------------------------------------
(* The form of the modal, for any markets, screens and choices.                    *)
ModalFormTyped ==
  /\ symbol \in ModalMarkets /\ screen \in ModalScreens
  /\ opened.mode \in Modal!Modes \cup {"closed"} /\ opened.target \in Modal!Targets
  /\ opened.target # "base" => opened.mode \in {"supply", "withdraw"}
  /\ typed \in Modal!Texts /\ extra \in Modal!Texts
  /\ progress \in {"idle", "busy", "done", "error"} /\ pick \in {ModalPreset} \cup ModalChoices
  /\ turn \in Nat /\ set \in [amount : Nat, extra : Nat] /\ set.amount <= turn /\ set.extra <= turn

ModalIInv == ModalFormTyped /\ Modal!FreshAmounts

LEMMA ModalNumbers ==
  /\ \A m \in ModalMarkets : m \in Seq(STRING)
  /\ "asset" \notin ModalChoices \cup {ModalPreset} /\ ModalMax \in Nat
  /\ \A m \in ModalMarkets :
       /\ \A i \in DOMAIN m : m[i] # "base"
       /\ \A i, j \in DOMAIN m : m[i] = m[j] => i = j \/ m[i] = "asset"
       /\ \A s \in ModalScreens, i \in DOMAIN m :
            s.bal[i] \in Nat /\ s.own[i] \in Nat /\ s.price[i] \in Nat /\ ModalFactor[i] \in Nat
  /\ \A s \in ModalScreens : s.base \in Int /\ s.wallet \in Nat /\ s.cash \in Int
BY ModalAssumption

LEMMA ModalTexts ==
  ASSUME ModalFormTyped
  PROVE  /\ typed \in Int /\ typed >= -1 /\ extra \in Int /\ extra >= -1
         /\ Modal!Parsed(typed) \in Nat /\ (typed # -1 => Modal!Parsed(typed) = typed)
         /\ Modal!Parsed(extra) \in Nat /\ (extra # -1 => Modal!Parsed(extra) = extra)
         /\ (typed = -1 => Modal!Parsed(typed) = 0) /\ (extra = -1 => Modal!Parsed(extra) = 0)
BY ModalNumbers DEF ModalFormTyped, Modal!Texts, Modal!Dust, Modal!Parsed

LEMMA ModalInit == Modal!Init => ModalIInv
<1> SUFFICES ASSUME Modal!Init PROVE ModalIInv
  OBVIOUS
<1>1. /\ symbol \in ModalMarkets /\ screen \in ModalScreens /\ opened = Modal!Closed /\ typed = 0 /\ extra = 0
      /\ pick = ModalPreset /\ progress = "idle" /\ turn = 0 /\ set = [amount |-> 0, extra |-> 0]
  BY DEF Modal!Init
<1>2. opened.mode = "closed" /\ opened.target = "base"
  BY <1>1 DEF Modal!Closed
<1>3. 0 \in Modal!Texts
  BY ModalNumbers DEF Modal!Texts, Modal!Dust
<1>4. QED BY <1>1, <1>2, <1>3 DEF ModalIInv, ModalFormTyped, Modal!FreshAmounts, Modal!Targets

LEMMA ModalOpens ==
  ASSUME ModalIInv, NEW m \in Modal!Modes, NEW i \in {0} \cup Modal!Collaterals, Modal!OpenFor(m, i) PROVE ModalIInv'
<1> DEFINE t == Modal!Target(i)
<1>1. /\ opened' = [mode |-> m, target |-> t] /\ progress' = "idle" /\ turn' = turn + 1 /\ typed' = 0 /\ extra' = 0
      /\ UNCHANGED <<symbol, screen, pick, set, polls>>
      /\ m \in {"borrow", "repay", "leverage"} => i = 0
  BY DEF Modal!OpenFor, Modal!Open
<1>2. t \in Modal!Targets
  BY DEF Modal!Target, Modal!Targets
<1>3. i = 0 => t = "base"
  <2>1. symbol \in Seq(STRING)
    BY ModalNumbers DEF ModalIInv, ModalFormTyped
  <2>2. 0 \notin DOMAIN symbol
    BY <2>1
  <2>3. QED BY <2>2 DEF Modal!Target, Modal!Listed, Modal!Collaterals
<1>4. t # "base" => m \in {"supply", "withdraw"}
  BY <1>1, <1>3 DEF Modal!Modes
<1>5. Modal!Targets' = Modal!Targets
  BY <1>1 DEF Modal!Targets, Modal!Listed, Modal!Collaterals
<1>6. 0 \in Modal!Texts /\ Modal!Texts' = Modal!Texts
  BY ModalNumbers DEF Modal!Texts, Modal!Dust
<1> HIDE DEF t
<1>7. opened'.mode = m /\ opened'.target = t
  BY <1>1
<1>8. turn' \in Nat /\ set'.amount <= turn' /\ set'.extra <= turn' /\ set' \in [amount : Nat, extra : Nat]
  BY <1>1 DEF ModalIInv, ModalFormTyped
<1>9. QED BY <1>1, <1>2, <1>4, <1>5, <1>6, <1>7, <1>8 DEF ModalIInv, ModalFormTyped, Modal!FreshAmounts

LEMMA ModalTypes ==
  ASSUME ModalIInv,
         \/ \E n \in Modal!Texts \cup {Modal!MaxOf(opened)} : Modal!Type(n)
         \/ \E n \in Modal!Texts \cup {Modal!MaxExtra} : Modal!TypeExtra(n)
  PROVE  ModalIInv'
<1>1. UNCHANGED <<symbol, screen, opened, pick, progress, turn, polls>>
  BY DEF Modal!Type, Modal!TypeExtra
<1>2. Modal!Targets' = Modal!Targets /\ Modal!Texts' = Modal!Texts
  BY <1>1 DEF Modal!Targets, Modal!Listed, Modal!Collaterals, Modal!Texts, Modal!Dust
<1>3. \/ typed' \in Modal!Texts /\ extra' = extra /\ set' = [set EXCEPT !.amount = turn]
      \/ extra' \in Modal!Texts /\ typed' = typed /\ set' = [set EXCEPT !.extra = turn]
  BY DEF Modal!Type, Modal!TypeExtra
<1>4. set \in [amount : Nat, extra : Nat] /\ turn \in Nat /\ set.amount <= turn /\ set.extra <= turn
  BY DEF ModalIInv, ModalFormTyped
<1>5. set' \in [amount : Nat, extra : Nat] /\ set'.amount <= turn /\ set'.extra <= turn
  BY <1>3, <1>4
<1>6. ModalFormTyped'
  BY <1>1, <1>2, <1>3, <1>5 DEF ModalIInv, ModalFormTyped
<1>7. Modal!FreshAmounts'
  BY <1>1, <1>3, <1>4 DEF ModalIInv, Modal!FreshAmounts, Modal!Closed
<1>8. QED BY <1>6, <1>7 DEF ModalIInv

LEMMA ModalNext == ModalIInv /\ (Modal!Next \/ UNCHANGED modalVars) => ModalIInv'
<1> SUFFICES ASSUME ModalIInv, Modal!Next \/ UNCHANGED modalVars PROVE ModalIInv'
  OBVIOUS
<1>1. ASSUME symbol' = symbol, screen' \in ModalScreens, UNCHANGED <<typed, extra, turn, set>>,
             opened' = opened \/ opened' = Modal!Closed,
             progress' \in {"idle", "busy", "done", "error"}, pick' \in {ModalPreset} \cup ModalChoices
      PROVE  ModalIInv'
  <2>1. Modal!Targets' = Modal!Targets /\ Modal!Texts' = Modal!Texts
    BY <1>1 DEF Modal!Targets, Modal!Listed, Modal!Collaterals, Modal!Texts, Modal!Dust
  <2>2. Modal!Closed.mode = "closed" /\ Modal!Closed.target = "base" /\ "base" \in Modal!Targets
    BY DEF Modal!Closed, Modal!Targets
  <2>3. ModalFormTyped'
    BY <1>1, <2>1, <2>2 DEF ModalIInv, ModalFormTyped
  <2>4. Modal!FreshAmounts'
    BY <1>1 DEF ModalIInv, Modal!FreshAmounts, Modal!Closed
  <2>5. QED BY <2>3, <2>4 DEF ModalIInv
<1>2. screen \in ModalScreens /\ progress \in {"idle", "busy", "done", "error"} /\ pick \in {ModalPreset} \cup ModalChoices
  BY DEF ModalIInv, ModalFormTyped
<1>3. CASE UNCHANGED modalVars
  BY <1>1, <1>2, <1>3 DEF modalVars
<1>4. CASE Modal!Poll
  BY <1>1, <1>2, <1>4 DEF Modal!Poll
<1>5. CASE Modal!Close
  BY <1>1, <1>2, <1>5 DEF Modal!Close
<1>6. CASE Modal!Submit
  BY <1>1, <1>2, <1>6 DEF Modal!Submit
<1>7. CASE Modal!Settle
  BY <1>1, <1>2, <1>7 DEF Modal!Settle
<1>8. CASE \E s \in ModalChoices : Modal!PickCollat(s)
  BY <1>1, <1>2, <1>8 DEF Modal!PickCollat
<1>9. QED
  BY <1>3, <1>4, <1>5, <1>6, <1>7, <1>8, ModalOpens, ModalTypes DEF Modal!Next

(* What a press of the button asks for, by what the modal is open for.                 *)
ModalAsks(req) ==
  /\ req.amt = typed /\ typed \in Nat /\ typed > 0
  /\ \/ /\ opened.mode = "supply" /\ opened.target # "base"
        /\ req.kind = "supplyCollateral" /\ req.asset = opened.target
     \/ /\ opened.mode = "withdraw" /\ opened.target # "base"
        /\ req.kind = "withdrawCollateral" /\ req.asset = opened.target
     \/ /\ opened.mode \in {"supply", "repay"} /\ opened.target = "base" /\ req.kind = "supply" /\ req.asset = "base"
     \/ /\ opened.mode \in {"withdraw", "borrow"} /\ opened.target = "base" /\ req.kind = "withdraw" /\ req.asset = "base"
     \/ /\ opened.mode = "leverage" /\ opened.target = "base" /\ req.kind = "leverageOpen" /\ req.asset = pick
        /\ req.coll = extra /\ extra \in Nat

LEMMA ModalRequest ==
  ASSUME ModalFormTyped, Modal!PreviewReq # Modal!NoRequest PROVE ModalAsks(Modal!PreviewReq)
<1> DEFINE amt == Modal!Parsed(typed)
           more == Modal!Parsed(extra)
<1>1. /\ amt \in Nat /\ (typed # -1 => amt = typed) /\ (typed = -1 => amt = 0) /\ typed \in Int /\ typed >= -1
      /\ more \in Nat /\ (extra # -1 => more = extra) /\ (extra = -1 => more = 0) /\ extra \in Int /\ extra >= -1
  BY ModalTexts
<1>2. opened.mode # "closed" /\ amt # 0
  BY DEF Modal!PreviewReq
<1>3. typed \in Nat /\ typed > 0 /\ amt = typed
  BY <1>1, <1>2
<1>4. opened.mode \in Modal!Modes /\ (opened.target # "base" => opened.mode \in {"supply", "withdraw"})
  BY <1>2 DEF ModalFormTyped
<1>5. CASE opened.target # "base"
  <2>1. Modal!PreviewReq = [kind |-> IF opened.mode = "supply" THEN "supplyCollateral" ELSE "withdrawCollateral",
                            asset |-> opened.target, amt |-> amt, coll |-> 0]
    BY <1>2, <1>4, <1>5 DEF Modal!PreviewReq, Modal!IsCollatRow
  <2>2. QED BY <1>3, <1>4, <1>5, <2>1 DEF ModalAsks
<1>6. CASE opened.target = "base" /\ opened.mode \in {"supply", "repay"}
  <2>1. Modal!PreviewReq = [Modal!NoRequest EXCEPT !.kind = "supply", !.amt = amt]
    BY <1>2, <1>6 DEF Modal!PreviewReq, Modal!IsCollatRow
  <2>2. Modal!PreviewReq.kind = "supply" /\ Modal!PreviewReq.amt = amt /\ Modal!PreviewReq.asset = "base"
    BY <2>1 DEF Modal!NoRequest
  <2>3. QED BY <1>3, <1>6, <2>2 DEF ModalAsks
<1>7. CASE opened.target = "base" /\ opened.mode \in {"withdraw", "borrow"}
  <2>1. Modal!PreviewReq = [Modal!NoRequest EXCEPT !.kind = "withdraw", !.amt = amt]
    BY <1>2, <1>7 DEF Modal!PreviewReq, Modal!IsCollatRow
  <2>2. Modal!PreviewReq.kind = "withdraw" /\ Modal!PreviewReq.amt = amt /\ Modal!PreviewReq.asset = "base"
    BY <2>1 DEF Modal!NoRequest
  <2>3. QED BY <1>3, <1>7, <2>2 DEF ModalAsks
<1>8. CASE opened.target = "base" /\ opened.mode = "leverage"
  <2>1. Modal!PreviewReq = IF more = 0 THEN Modal!NoRequest
                           ELSE [kind |-> "leverageOpen", asset |-> pick, amt |-> amt, coll |-> more]
    BY <1>2, <1>8 DEF Modal!PreviewReq, Modal!IsCollatRow
  <2>2. more # 0
    BY <2>1
  <2>3. extra \in Nat /\ more = extra
    BY <1>1, <2>2
  <2>4. QED BY <1>3, <1>8, <2>1, <2>2, <2>3 DEF ModalAsks
<1>9. QED BY <1>4, <1>5, <1>6, <1>7, <1>8 DEF Modal!Modes

LEMMA LabelHolds == ASSUME ModalIInv PROVE Modal!LabelTells
<1> SUFFICES ASSUME Modal!Enabled
             PROVE  /\ Modal!PreviewReq.amt = Modal!Label.amt /\ Modal!PreviewReq.amt > 0
                    /\ Modal!PreviewReq.asset = IF opened.mode = "leverage" THEN Modal!Label.coll[2] ELSE Modal!Label.token
                    /\ opened.mode = "leverage" => Modal!PreviewReq.coll = Modal!Label.coll[1]
                    /\ Modal!PreviewReq.kind \in {"supply", "supplyCollateral"} <=> opened.mode \in {"supply", "repay"}
  BY DEF Modal!LabelTells
<1> DEFINE req == Modal!PreviewReq
<1>1. ModalAsks(req)
  BY ModalRequest DEF Modal!Enabled, ModalIInv
<1> HIDE DEF req
<1>2. /\ Modal!Label.amt = typed
      /\ Modal!Label.token = IF opened.mode \in {"supply", "withdraw"} THEN opened.target ELSE "base"
      /\ opened.mode = "leverage" => Modal!Label.coll[2] = pick /\ Modal!Label.coll[1] = extra
  BY DEF Modal!Label
<1>3. QED BY <1>1, <1>2 DEF ModalAsks, req

(* A market's names, and the entry of each.                                           *)
LEMMA NamesAre ==
  ASSUME ModalFormTyped
  PROVE  /\ symbol \in Seq(STRING) /\ Modal!Collaterals = 1 .. Len(symbol) /\ Len(symbol) \in Nat
         /\ IsFiniteSet(Modal!Collaterals) /\ Modal!Collaterals \subseteq Nat \ {0}
         /\ \A i \in Modal!Collaterals : /\ symbol[i] # "base"
                                        /\ screen.bal[i] \in Nat /\ screen.own[i] \in Nat
                                        /\ screen.price[i] \in Nat /\ ModalFactor[i] \in Nat
         /\ \A i, j \in Modal!Collaterals : symbol[i] = symbol[j] => i = j \/ symbol[i] = "asset"
         /\ screen.base \in Int /\ screen.wallet \in Nat /\ screen.cash \in Int
<1>1. symbol \in ModalMarkets /\ screen \in ModalScreens
  BY DEF ModalFormTyped
<1>2. symbol \in Seq(STRING) /\ Modal!Collaterals = 1 .. Len(symbol) /\ Len(symbol) \in Nat
  BY <1>1, ModalNumbers DEF Modal!Collaterals
<1>3. IsFiniteSet(Modal!Collaterals)
  BY <1>2, FS_Interval
<1>4. QED BY <1>1, <1>2, <1>3, ModalNumbers DEF Modal!Collaterals

LEMMA EntryIs ==
  ASSUME ModalFormTyped, NEW i \in Modal!Collaterals
  PROVE  /\ Modal!Entry(symbol[i]) \in Modal!Collaterals /\ symbol[Modal!Entry(symbol[i])] = symbol[i]
         /\ symbol[i] # "asset" => Modal!Entry(symbol[i]) = i
<1> DEFINE n == Len(symbol)
           S == {j \in Modal!Collaterals : symbol[j] = symbol[i]}
           D == {n - j : j \in S}
<1>1. Modal!Collaterals = 1 .. n /\ n \in Nat /\ i \in S
  BY NamesAre
<1>2. D \in SUBSET Nat /\ D # {}
  BY <1>1
<1>3. PICK d \in D : \A k \in D : d <= k
  BY <1>2, LeastOf
<1>4. PICK m \in S : d = n - m
  BY <1>3
<1>5. \A j \in S : j <= m
  <2> SUFFICES ASSUME NEW j \in S PROVE j <= m
    OBVIOUS
  <2>1. n - j \in D
    OBVIOUS
  <2>2. n - m <= n - j
    BY <1>3, <1>4, <2>1
  <2>3. QED BY <1>1, <1>4, <2>2
<1> DEFINE e == CHOOSE e \in Modal!Collaterals : symbol[e] = symbol[i] /\ \A j \in Modal!Collaterals : symbol[j] = symbol[i] => j <= e
<1>6. e \in Modal!Collaterals /\ symbol[e] = symbol[i]
  BY <1>4, <1>5
<1>7. Modal!Entry(symbol[i]) = e
  BY DEF Modal!Entry
<1>8. symbol[i] # "asset" => e = i
  BY <1>6, NamesAre
<1>9. QED BY <1>6, <1>7, <1>8

(* The row of a target.                                                             *)
LEMMA TargetIs ==
  ASSUME ModalFormTyped, opened.target # "base"
  PROVE  Modal!Entry(opened.target) \in Modal!Collaterals
<1>1. PICK i \in Modal!Collaterals : opened.target = symbol[i]
  BY DEF ModalFormTyped, Modal!Targets, Modal!Listed
<1>2. QED BY <1>1, EntryIs

LEMMA MaxHolds == ASSUME ModalIInv PROVE Modal!MaxFits
<1> DEFINE req == Modal!PreviewReq
<1> SUFFICES ASSUME Modal!PreviewReq # Modal!NoRequest, typed = Modal!MaxOf(opened)
             PROVE  Modal!Rows(req).wallet >= 0 /\ Modal!Rows(req).held >= 0
  BY DEF Modal!MaxFits
<1>1. ModalFormTyped
  BY DEF ModalIInv
<1>2. ModalAsks(req)
  BY <1>1, ModalRequest
<1> HIDE DEF req
<1>3. typed \in Nat /\ typed > 0 /\ req.amt = typed
  BY <1>2 DEF ModalAsks
<1>4. CASE opened.target # "base"
  <2> DEFINE i == Modal!Entry(opened.target)
  <2>1. i \in Modal!Collaterals
    BY <1>1, <1>4, TargetIs
  <2>2. screen.own[i] \in Nat /\ screen.bal[i] \in Nat
    BY <1>1, <2>1, NamesAre
  <2>3. typed = IF opened.mode = "supply" THEN screen.own[i] ELSE screen.bal[i]
    BY <1>4 DEF Modal!MaxOf
  <2>4. /\ Modal!Rows(req).wallet = screen.own[i] + (IF opened.mode = "supply" THEN -req.amt ELSE req.amt)
        /\ Modal!Rows(req).held = screen.bal[i] - (IF opened.mode = "supply" THEN -req.amt ELSE req.amt)
    BY <1>4 DEF Modal!Rows, Modal!IsCollatRow
  <2> DEFINE own == screen.own[i]
             bal == screen.bal[i]
  <2>5. own \in Nat /\ bal \in Nat
    BY <2>2
  <2> HIDE DEF own, bal
  <2>6. CASE opened.mode = "supply"
    <3>1. typed = own /\ Modal!Rows(req).wallet = own + -req.amt /\ Modal!Rows(req).held = bal - -req.amt
      BY <2>3, <2>4, <2>6 DEF own, bal
    <3>2. req.amt \in Nat /\ own \in Nat /\ bal \in Nat /\ own = req.amt
      BY <1>3, <2>5, <3>1
    <3>3. own + -req.amt >= 0 /\ bal - -req.amt >= 0
      BY <3>2
    <3>4. QED BY <3>1, <3>3
  <2>7. CASE opened.mode # "supply"
    <3>1. typed = bal /\ Modal!Rows(req).wallet = own + req.amt /\ Modal!Rows(req).held = bal - req.amt
      BY <2>3, <2>4, <2>7 DEF own, bal
    <3>2. req.amt \in Nat /\ own \in Nat /\ bal \in Nat /\ bal = req.amt
      BY <1>3, <2>5, <3>1
    <3>3. own + req.amt >= 0 /\ bal - req.amt >= 0
      BY <3>2
    <3>4. QED BY <3>1, <3>3
  <2>8. QED BY <2>6, <2>7
<1>5. CASE opened.target = "base"
  <2>1. screen.base \in Int /\ screen.wallet \in Nat /\ screen.cash \in Int
    BY <1>1, NamesAre
  <2>2. /\ Modal!Rows(req).wallet = screen.wallet + (CASE req.kind = "supply" -> -req.amt [] OTHER -> req.amt)
        /\ Modal!Rows(req).held = Modal!Plus(screen.base) + (CASE req.kind = "supply" -> req.amt
                                           [] req.kind = "withdraw" -> -Modal!Lesser(req.amt, Modal!Plus(screen.base))
                                           [] OTHER -> 0)
    BY <1>5 DEF Modal!Rows, Modal!IsCollatRow
  <2>3. Modal!Plus(screen.base) \in Nat /\ Modal!Minus(screen.base) \in Nat
    BY <2>1 DEF Modal!Plus, Modal!Minus
  <2>4. CASE req.kind = "supply"
    <3>1. typed <= screen.wallet
      <4>1. opened.mode \in {"supply", "repay"}
        BY <1>2, <1>5, <2>4 DEF ModalAsks
      <4>2. typed = screen.wallet \/ typed = Modal!Lesser(Modal!Minus(screen.base), screen.wallet)
        BY <1>5, <4>1 DEF Modal!MaxOf
      <4>3. QED BY <1>3, <2>1, <2>3, <4>2 DEF Modal!Lesser
    <3>2. Modal!Rows(req).wallet = screen.wallet - typed /\ Modal!Rows(req).held = Modal!Plus(screen.base) + typed
      BY <1>3, <2>1, <2>2, <2>4
    <3>3. QED BY <1>3, <2>1, <2>3, <3>1, <3>2
  <2>5. CASE req.kind = "withdraw"
    <3>1. Modal!Rows(req).wallet = screen.wallet + typed /\ Modal!Rows(req).held = Modal!Plus(screen.base) - Modal!Lesser(typed, Modal!Plus(screen.base))
      BY <1>3, <2>1, <2>2, <2>3, <2>5 DEF Modal!Lesser
    <3>2. QED BY <1>3, <2>1, <2>3, <3>1 DEF Modal!Lesser
  <2>6. CASE req.kind \notin {"supply", "withdraw"}
    <3>1. Modal!Rows(req).wallet = screen.wallet + typed /\ Modal!Rows(req).held = Modal!Plus(screen.base)
      BY <1>3, <2>1, <2>2, <2>3, <2>6
    <3>2. QED BY <1>3, <2>1, <2>3, <3>1
  <2>7. QED BY <2>4, <2>5, <2>6
<1>6. QED BY <1>4, <1>5

LEMMA ModalSum == ASSUME NEW f PROVE Modal!SumOver(f) = SumFunctionOnSet(f, DOMAIN f)
BY DEF Modal!SumOver, Modal!FoldFunction, Modal!FoldFunctionOnSet, Modal!MapThenFoldSet,
       SumFunctionOnSet, FoldFunctionOnSet, MapThenFoldSet

(* What a collateral's balance counts for.                                            *)
Counts(i, b) == b * screen.price[i] * ModalFactor[i]

LEMMA CountsIs ==
  ASSUME ModalFormTyped, NEW i \in Modal!Collaterals, NEW b \in Int
  PROVE  Counts(i, b) \in Int /\ (b >= 0 => Counts(i, b) >= 0)
<1>1. ASSUME NEW x \in Int, NEW p \in Nat, NEW q \in Nat PROVE x * p * q \in Int /\ (x >= 0 => x * p * q >= 0)
  OBVIOUS
<1>2. screen.price[i] \in Nat /\ ModalFactor[i] \in Nat
  BY NamesAre
<1>3. QED BY <1>1, <1>2 DEF Counts

LEMMA GaugeHolds == ASSUME ModalIInv PROVE Modal!GaugeTells
<1>1. ModalFormTyped
  BY DEF ModalIInv
<1> DEFINE f == [i \in Modal!Collaterals |-> screen.bal[i] * screen.price[i] * ModalFactor[i]]
           t == Modal!Threshold
           d == Modal!Minus(screen.base)
<1>2. t = Modal!SumOver(f)
  BY DEF Modal!Threshold
<1>3. Summable(f, Modal!Collaterals) /\ DOMAIN f = Modal!Collaterals
  <2>1. \A i \in Modal!Collaterals : f[i] = Counts(i, screen.bal[i])
    BY DEF Counts
  <2>2. \A i \in Modal!Collaterals : screen.bal[i] \in Int
    BY <1>1, NamesAre
  <2>3. \A i \in Modal!Collaterals : f[i] \in Int
    BY <1>1, <2>1, <2>2, CountsIs
  <2>4. QED BY <1>1, <2>3, NamesAre DEF Summable
<1>4. t \in Int
  <2> HIDE DEF f
  <2>1. QED BY <1>2, <1>3, ModalSum, SumType
<1>5. d \in Nat
  BY <1>1, NamesAre DEF Modal!Minus
<1>6. Modal!Liquidatable(screen.base, screen.bal) <=> d * 100 > t
  BY DEF Modal!Liquidatable, Modal!Threshold
<1>7. Modal!Gauge = Modal!Severity(d, t)
  BY DEF Modal!Gauge
<1> HIDE DEF t, d
<1>8. d * 100 > t /\ t > 0 => Modal!Severity(d, t) = "liquidatable"
  BY <1>4, <1>5 DEF Modal!Severity
<1>9. Modal!Severity(d, t) = "liquidatable" => d * 100 >= t
  BY <1>4, <1>5 DEF Modal!Severity
<1>10. QED BY <1>6, <1>7, <1>8, <1>9 DEF Modal!GaugeTells, t, d

(* The preview's debt is at least that of the account Comet will have.                  *)
LEMMA DebtTells ==
  ASSUME ModalFormTyped, NEW req, ModalAsks(req)
  PROVE  /\ Modal!DebtAfter(req) \in Nat /\ Modal!Minus(Modal!BaseAfter(req)) \in Nat
         /\ Modal!Minus(Modal!BaseAfter(req)) <= Modal!DebtAfter(req)
         /\ ~((req.kind = "supply" /\ screen.base < 0) \/ (req.kind = "leverageOpen" /\ screen.base > 0))
              => Modal!DebtAfter(req) = Modal!Minus(Modal!BaseAfter(req))
<1>1. screen.base \in Int /\ req.amt \in Nat
  BY NamesAre DEF ModalAsks
<1>2. req.kind \in {"supplyCollateral", "withdrawCollateral", "supply", "withdraw", "leverageOpen"}
  BY DEF ModalAsks
<1> DEFINE b == screen.base
           k == req.amt
<1> USE DEF Modal!Minus, Modal!Plus, Modal!Lesser
<1>3. CASE req.kind \in {"supplyCollateral", "withdrawCollateral"}
  <2>1. Modal!DebtAfter(req) = Modal!Minus(b) + 0 /\ Modal!BaseAfter(req) = b + 0
    BY <1>3 DEF Modal!DebtAfter, Modal!BaseAfter
  <2> HIDE DEF b
  <2>2. QED BY <1>1, <1>3, <2>1 DEF b
<1>4. CASE req.kind = "supply"
  <2>1. Modal!DebtAfter(req) = Modal!Minus(b) + 0 /\ Modal!BaseAfter(req) = b + k
    BY <1>4 DEF Modal!DebtAfter, Modal!BaseAfter
  <2>2. QED BY <1>1, <1>4, <2>1
<1>5. CASE req.kind = "withdraw"
  <2>1. Modal!DebtAfter(req) = Modal!Minus(b) + (k - Modal!Lesser(k, Modal!Plus(b))) /\ Modal!BaseAfter(req) = b + -k
    BY <1>5 DEF Modal!DebtAfter, Modal!BaseAfter
  <2> DEFINE x == b + -k
             y == Modal!Minus(b) + (k - Modal!Lesser(k, Modal!Plus(b)))
  <2>2. x = b - k /\ x \in Int
    BY <1>1
  <2>3. y = Modal!Minus(x) /\ y \in Nat
    <3>1. CASE b >= k
      BY <1>1, <2>2, <3>1
    <3>2. CASE b < k /\ b > 0
      BY <1>1, <2>2, <3>2
    <3>3. CASE b <= 0
      BY <1>1, <2>2, <3>3
    <3>4. QED BY <1>1, <3>1, <3>2, <3>3
  <2>4. Modal!DebtAfter(req) = y /\ Modal!BaseAfter(req) = x
    BY <2>1
  <2> HIDE DEF x, y, Modal!Minus, Modal!Plus, Modal!Lesser
  <2>5. QED BY <1>5, <2>3, <2>4
<1>6. CASE req.kind = "leverageOpen"
  <2>1. Modal!DebtAfter(req) = Modal!Minus(b) + k /\ Modal!BaseAfter(req) = b + -k
    BY <1>6 DEF Modal!DebtAfter, Modal!BaseAfter
  <2>2. QED BY <1>1, <1>6, <2>1
<1>7. QED BY <1>2, <1>3, <1>4, <1>5, <1>6

(* What the request does to a collateral is to one that the registry lists.              *)
LEMMA ChangeIs ==
  ASSUME ModalFormTyped, NEW req, ModalAsks(req), NEW i \in Modal!Collaterals
  PROVE  Modal!Change(req, i) \in Int /\ (i \notin Modal!Listed => Modal!Change(req, i) = 0)
<1>1. req.amt \in Nat /\ (req.kind = "leverageOpen" => req.coll \in Nat)
  BY DEF ModalAsks
<1>2. Modal!Change(req, i) \in Int
  BY <1>1 DEF Modal!Change
<1>3. req.asset # "asset"
  <2>1. \A t \in Modal!Targets : t # "asset"
    BY DEF Modal!Targets, Modal!Listed
  <2>2. pick # "asset"
    BY ModalNumbers DEF ModalFormTyped
  <2>3. QED BY <2>1, <2>2 DEF ModalAsks, ModalFormTyped
<1>4. i \notin Modal!Listed => symbol[i] = "asset"
  BY DEF Modal!Listed
<1>5. QED BY <1>2, <1>3, <1>4 DEF Modal!Change

LEMMA EntriesAre ==
  ASSUME ModalFormTyped
  PROVE  /\ Modal!Entries \subseteq Modal!Collaterals /\ Modal!Listed \subseteq Modal!Entries
         /\ Cardinality(Modal!Collaterals \ Modal!Listed) <= 1 => Modal!Entries = Modal!Collaterals
<1>1. Modal!Entries \subseteq Modal!Collaterals
  BY EntryIs DEF Modal!Entries
<1>2. \A i \in Modal!Listed : i \in Modal!Collaterals /\ Modal!Entry(symbol[i]) = i
  BY EntryIs DEF Modal!Listed
<1>3. Modal!Listed \subseteq Modal!Entries
  BY <1>2 DEF Modal!Entries
<1>4. ASSUME Cardinality(Modal!Collaterals \ Modal!Listed) <= 1 PROVE Modal!Entries = Modal!Collaterals
  <2> SUFFICES ASSUME NEW i \in Modal!Collaterals, i \notin Modal!Listed PROVE i \in Modal!Entries
    BY <1>1, <1>3
  <2> DEFINE e == Modal!Entry(symbol[i])
             U == Modal!Collaterals \ Modal!Listed
  <2>1. e \in Modal!Collaterals /\ symbol[e] = symbol[i]
    BY EntryIs
  <2>2. symbol[i] = "asset" /\ e \in U /\ i \in U
    BY <2>1 DEF Modal!Listed
  <2>3. e = i
    <3> SUFFICES ASSUME e # i PROVE FALSE
      OBVIOUS
    <3>1. IsFiniteSet(U)
      BY NamesAre, FS_Subset
    <3> HIDE DEF e, U
    <3>2. {e, i} \subseteq U
      BY <2>2
    <3>3. Cardinality({e, i}) = 2
      <4>1. {e, i} = {i} \cup {e} /\ e \notin {i}
        OBVIOUS
      <4>2. IsFiniteSet({i}) /\ Cardinality({i}) = 1
        BY FS_Singleton
      <4>3. QED BY <4>1, <4>2, FS_AddElement
    <3>4. Cardinality({e, i}) <= Cardinality(U) /\ Cardinality(U) \in Nat
      BY <3>1, <3>2, FS_Subset, FS_CardinalityType
    <3>5. QED BY <1>4, <3>3, <3>4 DEF U
  <2>4. QED BY <2>3 DEF Modal!Entries
<1>5. QED BY <1>1, <1>3, <1>4

LEMMA HealthHolds == ASSUME ModalIInv PROVE Modal!HealthTells
<1> DEFINE req == Modal!PreviewReq
<1> SUFFICES ASSUME Modal!PreviewReq # Modal!NoRequest
             PROVE  LET fine == Modal!DebtAfter(req) * 100 <= Modal!ThresholdAfter(req)
                        worse == Modal!Liquidatable(Modal!BaseAfter(req), [i \in Modal!Collaterals |-> Modal!BalAfter(req, i)])
                        odd == (req.kind = "supply" /\ screen.base < 0) \/ (req.kind = "leverageOpen" /\ screen.base > 0)
                    IN /\ fine => ~worse
                       /\ ~odd /\ Cardinality(Modal!Collaterals \ Modal!Listed) <= 1 => (worse => ~fine) /\ (~worse => fine)
  <2>1. \A S : Modal!Cardinality(S) = Cardinality(S)
    BY DEF Modal!Cardinality, Cardinality
  <2>2. QED BY <2>1 DEF Modal!HealthTells
<1>1. ModalFormTyped
  BY DEF ModalIInv
<1>2. ModalAsks(req)
  BY <1>1, ModalRequest
<1> HIDE DEF req
<1> DEFINE E == Modal!Entries
           C == Modal!Collaterals
           f == [i \in E |-> (screen.bal[i] + Modal!Change(req, i)) * screen.price[i] * ModalFactor[i]]
           bal == [i \in C |-> Modal!BalAfter(req, i)]
           g == [i \in C |-> bal[i] * screen.price[i] * ModalFactor[i]]
<1>3. \A i \in C : /\ Modal!Change(req, i) \in Int /\ (i \notin Modal!Listed => Modal!Change(req, i) = 0)
                   /\ screen.bal[i] \in Nat
  BY <1>1, <1>2, ChangeIs, NamesAre
<1>4. \A i \in C : bal[i] = screen.bal[i] + Modal!Change(req, i)
  BY <1>3 DEF Modal!BalAfter
<1>5. \A i \in C : bal[i] \in Int /\ (i \notin Modal!Listed => bal[i] >= 0)
  BY <1>3, <1>4
<1> HIDE DEF bal
<1>6. \A i \in C : g[i] = Counts(i, bal[i])
  BY DEF Counts
<1>7. E \subseteq C /\ Modal!Listed \subseteq E /\ (Cardinality(C \ Modal!Listed) <= 1 => E = C)
  BY <1>1, EntriesAre
<1>8. \A i \in E : f[i] = g[i]
  BY <1>4, <1>7
<1>9. DOMAIN f = E /\ DOMAIN g = C
  OBVIOUS
<1>10. Modal!ThresholdAfter(req) = Modal!SumOver(f)
  BY DEF Modal!ThresholdAfter
<1>11. Modal!Liquidatable(Modal!BaseAfter(req), bal) <=> Modal!Minus(Modal!BaseAfter(req)) * 100 > Modal!SumOver(g)
  BY DEF Modal!Liquidatable
<1> HIDE DEF f, g
<1>12. Summable(g, C) /\ Summable(g, E) /\ \A i \in C \ E : g[i] >= 0
  <2>1. \A i \in C : g[i] \in Int /\ (i \notin Modal!Listed => g[i] >= 0)
    BY <1>1, <1>5, <1>6, CountsIs
  <2>2. IsFiniteSet(C) /\ IsFiniteSet(E)
    BY <1>1, <1>7, NamesAre, FS_Subset
  <2>3. QED BY <1>7, <2>1, <2>2 DEF Summable
<1>13. SumFunctionOnSet(f, E) = SumFunctionOnSet(g, E)
  BY <1>8, <1>12, SumSame DEF SameOn
<1>14. /\ SumFunctionOnSet(g, E) <= SumFunctionOnSet(g, C)
       /\ SumFunctionOnSet(g, E) \in Int /\ SumFunctionOnSet(g, C) \in Int
  <2>1. E \in SUBSET C
    BY <1>7
  <2> HIDE DEF E, C
  <2>2. QED BY <1>12, <2>1, SumPart, SumType
<1>15. Modal!SumOver(f) = SumFunctionOnSet(f, E) /\ Modal!SumOver(g) = SumFunctionOnSet(g, C)
  BY <1>9, ModalSum
<1> DEFINE d == Modal!DebtAfter(req)
           e == Modal!Minus(Modal!BaseAfter(req))
           t == Modal!SumOver(f)
           u == Modal!SumOver(g)
           odd == (req.kind = "supply" /\ screen.base < 0) \/ (req.kind = "leverageOpen" /\ screen.base > 0)
<1>16. d \in Nat /\ e \in Nat /\ e <= d /\ (~odd => d = e)
  BY <1>1, <1>2, DebtTells
<1>17. t \in Int /\ u \in Int /\ t <= u /\ (Cardinality(C \ Modal!Listed) <= 1 => t = u)
  BY <1>7, <1>13, <1>14, <1>15
<1> HIDE DEF d, e, t, u, odd
<1>18. /\ d * 100 <= t => ~(e * 100 > u)
       /\ ~odd /\ Cardinality(C \ Modal!Listed) <= 1 => ((e * 100 > u) => ~(d * 100 <= t)) /\ (~(e * 100 > u) => d * 100 <= t)
  <2>1. CASE odd
    BY <1>16, <1>17, <2>1
  <2>2. CASE ~odd
    BY <1>16, <1>17, <2>2
  <2>3. QED BY <2>1, <2>2
<1>19. (Modal!DebtAfter(req) * 100 <= Modal!ThresholdAfter(req)) <=> (d * 100 <= t)
  BY <1>10 DEF d, t
<1>20. Modal!Liquidatable(Modal!BaseAfter(req), bal) <=> (e * 100 > u)
  BY <1>11 DEF e, u
<1>21. QED BY <1>18, <1>19, <1>20 DEF bal, odd

LEMMA ModalHolds == ModalIInv => Modal!ModalIsRight
BY LabelHolds, MaxHolds, GaugeHolds, HealthHolds DEF ModalIInv, Modal!ModalIsRight

LEMMA ModalTyped == ModalIInv => Modal!ModalTypeOK
BY DEF ModalIInv, ModalFormTyped, Modal!ModalTypeOK

-----------------------------------------------------------------------------
(* The pages together: each invariant is kept while its page is shown.            *)

SolFaucetKept == page = "solana faucet" => SolFaucetIInv
EvmFaucetKept == page = "evm faucet" => EvmFaucetIInv
LiquidateKept == page = "liquidate" => LiqIInv
ListingKept == page = "listing" => ListIInv
FormKept == page = "form" => FormIInv
PanelKept == page = "panel" => TypeOK
PortalKept == page = "portal" => PortalIInv
ModalKept == page = "modal" => ModalIInv
ListFit == page = "listing" => ListFits

LEMMA FaucetsInit == InitOfPages => SolFaucetKept /\ EvmFaucetKept
BY SolFaucetInit, EvmFaucetInit DEF InitOfPages, PagesInit, SolFaucetKept, EvmFaucetKept

LEMMA SolFaucetPageNext == SolFaucetKept /\ [PagesNext]_pagesVars => SolFaucetKept'
<1> SUFFICES ASSUME page = "solana faucet", SolFaucetIInv, [PagesNext]_pagesVars, page' = "solana faucet"
             PROVE  SolFaucetIInv'
  BY DEF SolFaucetKept, PagesNext, pagesVars
<1>1. SolFaucet!Next \/ UNCHANGED solanaFaucetVars
  BY DEF PagesNext, pagesVars
<1> QED
  BY <1>1, SolFaucetNext

LEMMA EvmFaucetPageNext == EvmFaucetKept /\ [PagesNext]_pagesVars => EvmFaucetKept'
<1> SUFFICES ASSUME page = "evm faucet", EvmFaucetIInv, [PagesNext]_pagesVars, page' = "evm faucet"
             PROVE  EvmFaucetIInv'
  BY DEF EvmFaucetKept, PagesNext, pagesVars
<1>1. EthFaucet!Next \/ UNCHANGED evmFaucetVars
  BY DEF PagesNext, pagesVars
<1> QED
  BY <1>1, EvmFaucetNext

LEMMA LiquidateInit == InitOfPages => LiquidateKept /\ ListingKept
BY LiqInit, ListInit DEF InitOfPages, PagesInit, LiquidateKept, ListingKept

LEMMA LiquidatePageNext == LiquidateKept /\ [PagesNext]_pagesVars => LiquidateKept'
<1> SUFFICES ASSUME page = "liquidate", LiqIInv, [PagesNext]_pagesVars, page' = "liquidate"
             PROVE  LiqIInv'
  BY DEF LiquidateKept, PagesNext, pagesVars
<1>1. Liquidate!Next \/ UNCHANGED <<lane, liquidateVars>>
  BY DEF PagesNext, pagesVars
<1> QED
  BY <1>1, LiqNext

LEMMA ListingPageNext == ListingKept /\ [PagesNext]_pagesVars => ListingKept'
<1> SUFFICES ASSUME page = "listing", ListIInv, [PagesNext]_pagesVars, page' = "listing"
             PROVE  ListIInv'
  BY DEF ListingKept, PagesNext, pagesVars
<1>1. ListingNext \/ UNCHANGED listingVars
  BY DEF PagesNext, pagesVars
<1> QED
  BY <1>1, ListNext

LEMMA PanelKeptInit == InitOfPages => PanelKept /\ FormKept
BY PanelInit, FormInit DEF InitOfPages, PagesInit, PanelKept, FormKept

LEMMA FormPageNext == FormKept /\ [PagesNext]_pagesVars => FormKept'
<1> SUFFICES ASSUME page = "form", FormIInv, [PagesNext]_pagesVars, page' = "form"
             PROVE  FormIInv'
  BY DEF FormKept, PagesNext, pagesVars
<1>1. Form!Next \/ UNCHANGED formVars
  BY DEF PagesNext, pagesVars
<1> QED
  BY <1>1, FormNext

LEMMA PanelPageNext == PanelKept /\ [PagesNext]_pagesVars => PanelKept'
<1> SUFFICES ASSUME page = "panel", TypeOK, [PagesNext]_pagesVars, page' = "panel"
             PROVE  TypeOK'
  BY DEF PanelKept, PagesNext, pagesVars
<1>1. Next \/ UNCHANGED vars
  BY DEF PagesNext, pagesVars, panelVars, vars
<1> QED
  BY <1>1, PanelNext

LEMMA PortalPageNext == PortalKept /\ [PagesNext]_pagesVars => PortalKept'
<1> SUFFICES ASSUME page = "portal", PortalIInv, [PagesNext]_pagesVars, page' = "portal"
             PROVE  PortalIInv'
  BY DEF PortalKept, PagesNext, pagesVars
<1>1. PortalNext \/ UNCHANGED portalVars
  BY DEF PagesNext, pagesVars
<1> QED
  BY <1>1, PortalStays

LEMMA BorrowStep ==
  PortalKept /\ [PagesNext]_pagesVars
    => [page = "portal" => \A tx \in sent : Moving!BorrowOpensDebt(tx)]_pagesVars
<1> SUFFICES ASSUME PortalIInv, page = "portal", PagesNext, NEW tx \in sent
             PROVE  Moving!BorrowOpensDebt(tx)
  BY DEF PortalKept
<1>1. PortalNext
  BY DEF PagesNext
<1> QED
  BY <1>1, BorrowHolds

LEMMA PortalKeptInit == InitOfPages => PortalKept
BY PortalInitHolds DEF InitOfPages, PagesInit, PortalKept

LEMMA ModalKeptInit == InitOfPages => ModalKept
BY ModalInit DEF InitOfPages, PagesInit, ModalKept

LEMMA ModalPageNext == ModalKept /\ [PagesNext]_pagesVars => ModalKept'
<1> SUFFICES ASSUME page = "modal", ModalIInv, [PagesNext]_pagesVars, page' = "modal"
             PROVE  ModalIInv'
  BY DEF ModalKept, PagesNext, pagesVars
<1>1. Modal!Next \/ UNCHANGED modalVars
  BY DEF PagesNext, pagesVars
<1> QED
  BY <1>1, ModalNext

LEMMA ListFitInit == InitOfPages => ListFit
BY ListFitsInit DEF InitOfPages, PagesInit, ListFit

LEMMA ListFitPageNext == ListingKept /\ ListFit /\ [PagesNext]_pagesVars => ListFit'
<1> SUFFICES ASSUME page = "listing", ListIInv, ListFits, [PagesNext]_pagesVars, page' = "listing"
             PROVE  ListFits'
  BY DEF ListingKept, ListFit, PagesNext, pagesVars
<1>1. ListingNext \/ UNCHANGED listingVars
  BY DEF PagesNext, pagesVars
<1> QED
  BY <1>1, ListFitsNext

(* A page is one of the eight, for good.                                           *)
PageNames ==
  {"panel", "form", "liquidate", "solana faucet", "evm faucet", "portal", "modal", "listing"}
PageNamed == page \in PageNames

LEMMA NameInit == InitOfPages => PageNamed
BY DEF InitOfPages, PagesInit, PageNamed, PageNames

LEMMA NameNext == PageNamed /\ [PagesNext]_pagesVars => PageNamed'
BY DEF PageNamed, PagesNext, pagesVars

(* Whatever the wallets, the tokens and the number of claims: the Solana faucet's    *)
(* marker and drops never come apart, its page runs one claim at a time, and on     *)
(* both pages "already claimed" and "Funds dropped" are only said when they are      *)
(* true (process_instruction, claim and the effects of both pages).              *)
THEOREM FaucetsStayRight == PagesSpec => []FaucetsAreRight
<1>1. SolFaucetKept /\ EvmFaucetKept => FaucetsAreRight
  BY SolFaucetFollows, EvmFaucetFollows DEF SolFaucetKept, EvmFaucetKept, FaucetsAreRight
<1> QED
  BY <1>1, FaucetsInit, SolFaucetPageNext, EvmFaucetPageNext, PTL DEF PagesSpec

(* Whatever the accounts, the clicks, the scans and the market: the liquidate page       *)
(* says of an account only what is true of it, asks the wallet to absorb only one that     *)
(* was under water when it looked, and drops what it absorbed off the list; and its table    *)
(* is of the Comet it shows, and complete after a whole scan (runAbsorb, runCheck,         *)
(* refreshList, filtered, for any positions, prices and factors).                   *)
THEOREM LiquidateStaysRight == PagesSpec => []LiquidateIsRight
<1>1. LiquidateKept /\ ListingKept => LiquidateIsRight
  BY LiqFollows, ListFollows DEF LiquidateKept, ListingKept, LiquidateIsRight
<1> QED
  BY <1>1, LiquidateInit, LiquidatePageNext, ListingPageNext, PTL DEF PagesSpec

(* Whatever the collateral, its factors and prices, the position, the market, what was     *)
(* read of it and the amount: what the panel allows from a fresh position Comet executes,    *)
(* what it refuses would not land with a little more, or is refused for the reason it gives,  *)
(* a stale feed closes no exit, and what it says an action leaves comes true (validateAction,  *)
(* availableFor, reasonForBinding, actionConsequences); and the form submits the amount      *)
(* typed for the asset it shows (LaneApp, AssetTable's onSelect).                       *)
THEOREM PanelStaysRight == PagesSpec => []PanelIsRight
<1>1. PanelKept /\ FormKept => PanelIsRight
  BY PanelHolds DEF PanelKept, FormKept, FormIInv, PanelIsRight
<1> QED
  BY <1>1, PanelKeptInit, PanelPageNext, FormPageNext, PTL DEF PagesSpec

(* Whatever the amounts, the factor, the liquidity and the flows: the portal's spinner has    *)
(* a flow behind it and its success view is about what was done, unless a second flow       *)
(* slipped past the status, and its preview of the account on the screen is what Comet does;  *)
(* and whatever the market, the screen and the choices, the modal's form submits what was    *)
(* typed for it, its button and its gauge say what is so, and Max overdraws nothing        *)
(* (inFlight, SuccessView, computeActionPreview, ActionModal, AmountInput, RiskGauge).       *)
THEOREM PortalStaysRight == PagesSpec => []PortalIsRight
<1>1. PortalKept /\ ModalKept => PortalIsRight
  BY HonestHolds, PreviewHolds, ModalHolds DEF PortalKept, ModalKept, PortalIsRight
<1> QED
  BY <1>1, PortalKeptInit, PortalPageNext, ModalKeptInit, ModalPageNext, PTL DEF PagesSpec

(* Whatever the amounts, the flows and their order: the transaction of a borrow that takes    *)
(* effect on the position its click saw leaves the account in debt, with no bound on the       *)
(* clicks (borrowIsActuallyWithdraw, Comet's withdraw).                                 *)
THEOREM PortalBorrowsStayDebt == PagesSpec => PortalBorrowsOpenDebt
BY PortalKeptInit, PortalPageNext, BorrowStep, PTL DEF PagesSpec, PortalBorrowsOpenDebt

(* Whichever page is shown, and for any values of its constants, its state has its types: a    *)
(* portal account is never insolvent, the table is never longer than MAX_ENRICH, and a row of    *)
(* it is of a Comet there is (handlers of the eight views).                             *)
THEOREM PagesTypeCorrect == PagesSpec => []PagesTypeOK
<1> DEFINE Kept == /\ SolFaucetKept /\ EvmFaucetKept /\ LiquidateKept /\ ListingKept /\ ListFit
                   /\ FormKept /\ PanelKept /\ PortalKept /\ ModalKept /\ PageNamed
<1>1. Kept => PagesTypeOK
  <2>1. Kept => /\ page = "panel" => TypeOK
                /\ page = "form" => Form!FormTypeOK
                /\ page = "liquidate" => Liquidate!TypeOK
                /\ page = "solana faucet" => SolFaucet!TypeOK
                /\ page = "evm faucet" => EthFaucet!TypeOK
                /\ page = "portal" => Moving!PortalTypeOK
                /\ page = "modal" => Modal!ModalTypeOK
                /\ page = "listing" => Listing!ListTypeOK
    BY ListTypes, PortalTypes, ModalTyped
       DEF SolFaucetKept, EvmFaucetKept, LiquidateKept, ListingKept, ListFit, FormKept, PanelKept, PortalKept,
           ModalKept, SolFaucetIInv, EvmFaucetIInv, LiqIInv, FormIInv
  <2> QED
    BY <2>1 DEF PagesTypeOK, PageNamed, PageNames
<1>2. InitOfPages => Kept
  BY FaucetsInit, LiquidateInit, ListFitInit, PanelKeptInit, PortalKeptInit, ModalKeptInit, NameInit
<1>3. Kept /\ [PagesNext]_pagesVars => Kept'
  BY SolFaucetPageNext, EvmFaucetPageNext, LiquidatePageNext, ListingPageNext, ListFitPageNext, FormPageNext,
     PanelPageNext, PortalPageNext, ModalPageNext, NameNext
<1> QED
  BY <1>1, <1>2, <1>3, PTL DEF PagesSpec
=============================================================================
