---------------------------- MODULE WalletConnect ----------------------------
(***************************************************************************)
(* How a wallet the user picked gets connected: lib/lane/useSolanaConnect.ts  *)
(* between the screens and the wallet adapter's provider.                     *)
(*                                                                         *)
(* The adapter is external: select takes effect on the next render and does    *)
(* nothing when the wallet is selected already; connect needs a selected and    *)
(* installed wallet; a failed connection or a disconnect deselects; and a       *)
(* selected wallet that is installed is tried once without being asked.        *)
(***************************************************************************)
EXTENDS Naturals

CONSTANTS
  Wallets,
  NoWallet,
  MaxPicks   \* bound

VARIABLES
  installed, \* wallets whose extension is there
  selected,  \* the adapter's selection, kept in local storage
  status,    \* "idle", "connecting" or "connected"
  rendered,  \* what the last render saw of both
  pending,   \* pendingRef
  tried,     \* the adapter has tried a wallet by itself (autoConnect)
  asked,     \* history: a new selection that no attempt has followed
  threw,     \* history: connect() was called without the wallet being selected
  picks

vars == <<installed, selected, status, rendered, pending, tried, asked, threw, picks>>
Now == <<selected, status>>

ConnectTypeOK ==
  /\ installed \subseteq Wallets /\ selected \in Wallets \cup {NoWallet}
  /\ status \in {"idle", "connecting", "connected"}
  /\ rendered \in (Wallets \cup {NoWallet}) \X {"idle", "connecting", "connected"}
  /\ pending \in Wallets \cup {NoWallet} /\ tried \in BOOLEAN
  /\ asked \in Wallets \cup {NoWallet} /\ threw \in BOOLEAN /\ picks \in 0 .. MaxPicks

(* A visit, with a wallet remembered from an earlier one or none.               *)
Init ==
  /\ installed \in SUBSET Wallets /\ selected \in Wallets \cup {NoWallet}
  /\ status = "idle" /\ rendered = <<NoWallet, "idle">> /\ pending = NoWallet
  /\ tried = FALSE /\ asked = NoWallet /\ threw = FALSE /\ picks = 0

(* connectFn: the pick is put aside for the effect.  What went before is rendered   *)
(* when a click arrives.                                                     *)
Pick(w) ==
  /\ status = "idle" /\ rendered = Now /\ picks < MaxPicks
  /\ picks' = picks + 1 /\ selected' = w /\ pending' = w
  /\ asked' = IF w = selected THEN NoWallet ELSE w
  /\ UNCHANGED <<installed, status, rendered, tried, threw>>

(* adapter.connect(): a wallet that is not installed opens its own page instead.  *)
Attempt ==
  /\ status' = IF selected \in installed THEN "connecting" ELSE "idle"
  /\ asked' = NoWallet

(* A render with something new: the hook's effect, and after it the adapter's.    *)
Render ==
  /\ rendered # Now
  /\ rendered' = Now
  /\ pending' = IF status # "idle" \/ selected = pending THEN NoWallet ELSE pending
  /\ \/ /\ status = "idle" /\ pending # NoWallet /\ selected = pending
        /\ Attempt /\ UNCHANGED tried
     \/ /\ status = "idle" /\ (pending = NoWallet \/ selected # pending)
        /\ IF selected \in installed /\ ~tried THEN Attempt /\ tried' = TRUE
           ELSE UNCHANGED <<status, asked, tried>>
     \/ /\ status # "idle" /\ UNCHANGED <<status, tried>>
        /\ asked' = IF asked = selected THEN NoWallet ELSE asked
  /\ UNCHANGED <<installed, selected, threw, picks>>

Approved ==
  /\ status = "connecting" /\ status' = "connected"
  /\ UNCHANGED <<installed, selected, rendered, pending, tried, asked, threw, picks>>

(* Rejected in the popup, or failed: the adapter deselects.                     *)
Refused ==
  /\ status = "connecting" /\ status' = "idle" /\ selected' = NoWallet
  /\ UNCHANGED <<installed, rendered, pending, tried, asked, threw, picks>>

(* disconnectFn; or the wallet ends the connection, with the pick left in place.   *)
Disconnect ==
  /\ status = "connected" /\ status' = "idle" /\ selected' = NoWallet
  /\ pending' \in {pending, NoWallet} /\ asked' = NoWallet
  /\ UNCHANGED <<installed, rendered, tried, threw, picks>>

(* The extension is installed, and the adapter hears of it.                       *)
Installs(w) ==
  /\ w \notin installed /\ installed' = installed \cup {w}
  /\ rendered' = IF selected = w THEN <<NoWallet, status>> ELSE rendered
  /\ UNCHANGED <<selected, status, pending, tried, asked, threw, picks>>

Next ==
  \/ Render \/ Approved \/ Refused \/ Disconnect
  \/ \E w \in Wallets : Pick(w) \/ Installs(w)

(* React renders what changed; nobody has to answer a popup.                      *)
Fairness == WF_vars(Render)
Spec == Init /\ [][Next]_vars /\ Fairness

-----------------------------------------------------------------------------
(* Properties.                                                             *)

(* connect() is never called for a wallet the adapter has not selected yet         *)
(* (the race the hook was written against).                                      *)
NoBlindConnect == ~threw

(* A pick that selects an installed wallet is tried or taken back: it is not           *)
(* swallowed, not even after a disconnect, when the adapter's own attempt is spent.    *)
(* A pick of the wallet that is selected already is only put aside                   *)
(* (connectFn and its effect).                                                  *)
Untried(w) == asked = w /\ w \in installed
PickIsTried == \A w \in Wallets : []<>~Untried(w)
=============================================================================
