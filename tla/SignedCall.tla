----------------------------- MODULE SignedCall -----------------------------
(***************************************************************************)
(* What goes into one transaction of the Solana lane and who is asked to      *)
(* sign it: lib/lane/useSolanaActions.ts (and useSolanaLane.ts, which has the  *)
(* same bodies), lib/solana/signWithChain.ts, discovery.ts, persistentAlts.ts   *)
(* and the assembly in submit.ts.  What becomes of it afterwards is            *)
(* SolanaSubmit's.                                                         *)
(*                                                                         *)
(* The wallet and its adapter are external: an adapter may speak the wallet     *)
(* standard or not, it has one current account and a list of authorised ones,   *)
(* the user may change the account without disconnecting, and a request for an  *)
(* account that is not authorised is refused.                                 *)
(***************************************************************************)
EXTENDS Naturals, Sequences, FiniteSets, SequencesExt

CONSTANTS
  Owners,     \* accounts of the wallets
  NoOwner,
  Chains,     \* chain configurations: the one built in and the deployment's
  Built,
  Cluster,    \* Cluster[ch]: the Solana cluster of a chain's registry entry
  Calls,
  Tables,     \* Tables[t]: the keys in the registry's lookup table t
  Inline,     \* keys a transaction can carry outside tables
  MaxEvents   \* bound on what happens in the wallet and to the configuration

VARIABLES
  chain,      \* cfg: the chain the lane is on
  wallet,     \* the selected adapter: its kind, account and authorised accounts
  signTx,     \* the memoised signer
  calls,      \* calls[c]: a submitCall, submitOverAlt or submitRaw
  moves,      \* history: how often the account changed
  events

vars == <<chain, wallet, signTx, calls, moves, events>>

Kinds == {"none", "bare", "plain", "standard"}
Lists == {<<>>} \cup {<<o>> : o \in Owners} \cup {s \in [1 .. 2 -> Owners] : s[1] # s[2]}
NoSigner == [how |-> "none", who |-> NoOwner, cluster |-> "none", at |-> 0]
Unused == [pc |-> "idle", kind |-> "raw", by |-> NoOwner, chain |-> Built, signer |-> NoSigner,
           keys |-> {}, found |-> {}, packed |-> {}, asked |-> NoOwner, shown |-> "none", at |-> 0]

SignTypeOK ==
  /\ chain \in Chains /\ moves \in Nat /\ events \in 0 .. MaxEvents
  /\ wallet.kind \in Kinds /\ wallet.account \in Owners \cup {NoOwner} /\ wallet.list \in Lists
  /\ signTx.how \in {"none", "bare", "chain"} /\ signTx.who \in Owners \cup {NoOwner}
  /\ \A c \in Calls :
       /\ calls[c].pc \in {"idle", "read", "sign", "popup", "sent", "failed"}
       /\ calls[c].kind \in {"raw", "legacy", "v0"}
       /\ calls[c].by \in Owners \cup {NoOwner} /\ calls[c].asked \in Owners \cup {NoOwner}

-----------------------------------------------------------------------------
(* Mutant: the first authorised account is taken for the connected one.          *)
AccountOf_First(w) == IF w.list # <<>> THEN w.list[1] ELSE NoOwner

(* makeChainAwareSign: the connected account among the authorised ones, or the      *)
(* first of them.                                                            *)
AccountOf(w) ==
  IF w.account \in ToSet(w.list) THEN w.account
  ELSE IF w.list # <<>> THEN w.list[1] ELSE NoOwner

(* signTx as a render computes it, with or without a wallet that can sign; one that  *)
(* has no SolanaSignTransaction feature, or no account, is asked through the adapter. *)
SignerFor(w, ch, m) ==
  IF w.kind = "none" \/ w.account = NoOwner THEN NoSigner
  ELSE IF w.kind = "standard" /\ AccountOf(w) # NoOwner
    THEN [how |-> "chain", who |-> AccountOf(w), cluster |-> Cluster[ch], at |-> m]
  ELSE [how |-> "bare", who |-> NoOwner, cluster |-> "none", at |-> m]

Init ==
  /\ chain = Built /\ wallet = [kind |-> "none", account |-> NoOwner, list |-> <<>>]
  /\ signTx = NoSigner /\ calls = [c \in Calls |-> Unused] /\ moves = 0 /\ events = 0

Event == events < MaxEvents /\ events' = events + 1

(* A wallet connects, with the account it gives among those it authorises.           *)
Connect ==
  /\ wallet.account = NoOwner /\ Event
  /\ \E k \in Kinds \ {"none"}, o \in Owners, s \in Lists :
       /\ s # <<>> => o \in ToSet(s)
       /\ wallet' = [kind |-> k, account |-> o, list |-> s]
  /\ moves' = moves + 1
  /\ signTx' = SignerFor(wallet', chain, moves')
  /\ UNCHANGED <<chain, calls>>

Disconnect ==
  /\ wallet.account # NoOwner /\ Event
  /\ wallet' = [wallet EXCEPT !.account = NoOwner, !.list = <<>>]
  /\ signTx' = NoSigner
  /\ UNCHANGED <<chain, calls, moves>>

(* The account changes in the wallet: the adapter stays connected, and neither the    *)
(* wallet nor signTransaction, which the memo depends on, is a new one.              *)
SwitchAccount ==
  /\ wallet.account # NoOwner /\ Event
  /\ \E o \in Owners \ {wallet.account}, s \in Lists :
       /\ o \in ToSet(s)
       /\ wallet' = [wallet EXCEPT !.account = o, !.list = s]
  /\ moves' = moves + 1
  /\ UNCHANGED <<chain, signTx, calls>>

(* Mutant: the memo does not depend on the cluster.                                 *)
Resolve_KeepsSigner ==
  /\ chain = Built /\ Event
  /\ \E ch \in Chains \ {Built} : chain' = ch
  /\ UNCHANGED <<wallet, signTx, calls, moves>>

(* /api/env answers: another chain's configuration, and another signer if its cluster  *)
(* is another one.                                                           *)
Resolve ==
  /\ chain = Built /\ Event
  /\ \E ch \in Chains \ {Built} :
       /\ chain' = ch
       /\ signTx' = IF Cluster[ch] # Cluster[Built] THEN SignerFor(wallet, ch, moves) ELSE signTx
  /\ UNCHANGED <<wallet, calls, moves>>

-----------------------------------------------------------------------------
(* One call.  Everything is taken from the ref at the start.                       *)
Start(c) ==
  /\ calls[c].pc = "idle" /\ signTx.how # "none"
  /\ \E k \in {"raw", "legacy", "v0"} :
       calls' = [calls EXCEPT ![c] =
         [Unused EXCEPT !.pc = IF k = "raw" THEN "sign" ELSE "read", !.kind = k,
            !.by = wallet.account, !.chain = chain, !.signer = signTx, !.at = moves]]
  /\ UNCHANGED <<chain, wallet, signTx, moves, events>>

(* Mutant: what discovery leaves out is left out.                                  *)
Accounts_AsFound(kind, found) == found

(* The account list: as discovered, and for a legacy call the treasury as well.        *)
Accounts(kind, found) == IF kind = "legacy" THEN found \cup {"treasury"} ELSE found

(* The reads before the popup: discovery, which answers with the call's accounts or,     *)
(* with neither a result nor an error, with none; the registry's tables, those that do   *)
(* not resolve passed over; gas price, nonce and blockhash.                           *)
Read(c) ==
  /\ calls[c].pc = "read"
  /\ \E found \in {{}, {"payer", "state"}, {"payer", "state", "treasury", "market"}},
        ts \in SUBSET DOMAIN Tables :
       LET keys == Accounts(calls[c].kind, found)
           packed == IF calls[c].kind = "v0" THEN (keys \ {"payer"}) \cap UNION {Tables[t] : t \in ts} ELSE {}
       IN calls' = [calls EXCEPT ![c] = [@ EXCEPT !.found = found, !.keys = keys, !.packed = packed,
            !.pc = IF Cardinality(keys \ packed) <= Inline THEN "sign" ELSE "failed"]]
  /\ UNCHANGED <<chain, wallet, signTx, moves, events>>

(* The account asked: the signer's own, or for a bare one the adapter's of now.          *)
Asked(s) == IF s.how = "chain" THEN s.who ELSE wallet.account

(* The request for a signature, refused where the account is not authorised.            *)
Request(c) ==
  /\ calls[c].pc = "sign"
  /\ LET s == calls[c].signer
         fine == Asked(s) # NoOwner /\ (s.how = "chain" => s.who \in ToSet(wallet.list))
     IN calls' = [calls EXCEPT ![c] = [@ EXCEPT !.asked = Asked(s), !.shown = s.cluster,
                                                !.pc = IF fine THEN "popup" ELSE "failed"]]
  /\ UNCHANGED <<chain, wallet, signTx, moves, events>>

(* Approved: the transaction is sent, if its fee payer is who signed it.                *)
Approve(c) ==
  /\ calls[c].pc = "popup"
  /\ calls' = [calls EXCEPT ![c].pc = IF calls[c].asked = calls[c].by THEN "sent" ELSE "failed"]
  /\ UNCHANGED <<chain, wallet, signTx, moves, events>>

(* A read throws, or the user rejects.                                             *)
Fail(c) ==
  /\ calls[c].pc \in {"read", "sign", "popup"}
  /\ calls' = [calls EXCEPT ![c].pc = "failed"]
  /\ UNCHANGED <<chain, wallet, signTx, moves, events>>

Next ==
  \/ Connect \/ Disconnect \/ SwitchAccount \/ Resolve
  \/ \E c \in Calls : Start(c) \/ Read(c) \/ Request(c) \/ Approve(c) \/ Fail(c)

-----------------------------------------------------------------------------
(* Properties.                                                             *)

(* The account a popup is about is the fee payer the transaction was made for,          *)
(* whichever account and chain the lane has moved to meanwhile - except, for the            *)
(* chain-aware signer, that the account was changed without a disconnect before the call,   *)
(* which then asks for the account of before; and for a bare one, that it was changed since. *)
PayerIsAsked ==
  \A c \in Calls : calls[c].pc = "popup" /\ calls[c].asked # calls[c].by =>
    IF calls[c].signer.how = "chain" THEN calls[c].signer.at < calls[c].at
    ELSE calls[c].at < moves

(* A wallet previews a transaction on the cluster its program is on (signWithChain.ts).    *)
PreviewIsOfItsChain ==
  \A c \in Calls : calls[c].pc = "popup" /\ calls[c].signer.how = "chain" =>
    calls[c].shown = Cluster[calls[c].chain]

(* What reaches the wallet has all that discovery named, and a legacy call the wallet that   *)
(* is paid, in no more than the transaction holds; the payer is never left to a table.     *)
NothingMissing ==
  \A c \in Calls : calls[c].pc \in {"popup", "sent"} /\ calls[c].kind # "raw" =>
    /\ calls[c].found \subseteq calls[c].keys
    /\ calls[c].kind = "legacy" => "treasury" \in calls[c].keys
    /\ Cardinality(calls[c].keys \ calls[c].packed) <= Inline /\ "payer" \notin calls[c].packed

SignIsRight == PayerIsAsked /\ PreviewIsOfItsChain /\ NothingMissing
=============================================================================
