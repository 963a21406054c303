------------------------------ MODULE ReserveRows ------------------------------
(***************************************************************************)
(* The reserves a visitor of the EVM side sees: what /api/market answers         *)
(* (lib/market/useMarket.ts) put next to what the tab itself learned of the Comet   *)
(* (useCometMarket), row by row (lib/portal/hooks/useReserveStats.ts), and the       *)
(* tables made of it (AllReservesTable.tsx, AssetsToSupplyTable.tsx).               *)
(*                                                                         *)
(* Both enumerate the collaterals, and nothing but the order ties the two lists:     *)
(* the server leaves out one whose getAssetInfo failed and reads a failed figure as    *)
(* 0, the tab wants all or nothing.  There is no error boundary: an exception in the    *)
(* derivation takes the page down until it is reloaded.  The base asset is asset 0.    *)
(***************************************************************************)
EXTENDS Naturals, Sequences, FiniteSets

CONSTANTS
  NColl,
  Named,     \* assets the registry has a symbol for
  Factors,   \* Factors[i]: the borrow factor of collateral i, in percent
  MaxVisits  \* bound: loads of the page

VARIABLES
  stored,    \* the session storage has the list of collaterals
  known,     \* the tab's list, or none yet
  raw,       \* the last answer of the server, or none yet
  purse,     \* assets the wallet was seen to hold
  down,      \* the page is down
  visits

vars == <<stored, known, raw, purse, down, visits>>

Base == 0
Colls == 1 .. NColl
Assets == {Base} \cup Colls
None == <<Base>>   \* no list of collaterals
Whole == [i \in Colls |-> i]

(* A server's answer: the collaterals in its order, and the assets whose size or     *)
(* price is 0 because the read failed.                                         *)
InOrder(S) == CHOOSE s \in [1 .. Cardinality(S) -> S] : \A i, j \in DOMAIN s : i < j => s[i] < s[j]
Answers == [colls : {InOrder(S) : S \in SUBSET Colls}, blank : SUBSET Assets]
NoAnswer == [colls |-> None, blank |-> {}]

ReservesTypeOK ==
  /\ stored \in BOOLEAN /\ known \in Seq(Colls) \cup {None} /\ raw \in Answers \cup {NoAnswer}
  /\ purse \subseteq Assets /\ down \in BOOLEAN /\ visits \in 0 .. MaxVisits

Init ==
  /\ stored = FALSE /\ known = None /\ raw = NoAnswer /\ purse = {} /\ down = FALSE /\ visits = 0

-----------------------------------------------------------------------------
(* The derivation.                                                         *)

(* deriveReserveStats: the base row, and one for each collateral the tab knows,       *)
(* with the figures that stand at its index.  `of` is whose figures they are.         *)
Row(asset, of, r) ==
  [asset |-> asset, of |-> of, blank |-> of \in r.blank,
   borrows |-> asset = Base, factor |-> IF asset = Base THEN 0 ELSE Factors[asset]]
DeriveReserveStats(k, r) ==
  <<Row(Base, Base, r)>> \o [i \in DOMAIN k |-> Row(k[i], r.colls[i], r)]

(* An index beyond the server's list is undefined, and taking it apart throws.        *)
Throws(k, r) == k # None /\ r # NoAnswer /\ ~(DOMAIN k \subseteq DOMAIN r.colls)

(* useReserveStats: nothing until both are there.                                *)
Reserves == IF known = None \/ raw = NoAnswer THEN <<>> ELSE DeriveReserveStats(known, raw)
Loading == Reserves = <<>>

(* What changed is rendered at once.                                           *)
Render(k, r) == known' = k /\ raw' = r /\ down' = Throws(k, r)

-----------------------------------------------------------------------------
(* Mutant: the tab makes do with what was answered, as the server does.             *)
LoadMarket_Partial ==
  /\ ~down /\ known = None
  /\ \E ok \in SUBSET Colls : Render(InOrder(ok), raw) /\ stored' = TRUE
  /\ UNCHANGED <<purse, visits>>

(* useCometMarket: from the session storage or the chain, all of it; a read that     *)
(* fails is not repeated.                                                    *)
LoadMarket ==
  /\ ~down /\ known = None
  /\ Render(Whole, raw) /\ stored' = TRUE
  /\ UNCHANGED <<purse, visits>>

(* An answer of /api/market, every 30 s; one that fails leaves the last in place.      *)
Refetch ==
  /\ ~down
  /\ \E r \in Answers : r # raw /\ Render(known, r)
  /\ UNCHANGED <<stored, purse, visits>>

(* refreshWalletBalances: of the base asset and the collaterals known, all or nothing.   *)
RefreshWalletBalances ==
  /\ ~down /\ known # None
  /\ \E held \in SUBSET Assets : purse' = held
  /\ UNCHANGED <<stored, known, raw, down, visits>>

(* A reload starts with what the session storage has.                             *)
Reload ==
  /\ visits < MaxVisits /\ visits' = visits + 1
  /\ known' = (IF stored THEN Whole ELSE None) /\ raw' = NoAnswer /\ purse' = {} /\ down' = FALSE
  /\ UNCHANGED stored

Next == LoadMarket \/ Refetch \/ RefreshWalletBalances \/ Reload

-----------------------------------------------------------------------------
(* The tables.  A name is the registry's symbol or a shortened address.             *)
Name(asset) == [of |-> asset, short |-> asset \notin Named]

(* Sizes, and for the base asset what is borrowed and what it costs; the factor of a    *)
(* collateral.                                                              *)
AllReserves ==
  LET Cells(r) == [name |-> Name(r.asset), size |-> r.of, borrowed |-> r.borrows,
                   cf |-> IF r.borrows THEN {} ELSE {r.factor}]
  IN {Cells(Reserves[i]) : i \in DOMAIN Reserves}

(* Every reserve, whether it can be collateral, and a button for one that is held.      *)
AssetsToSupply ==
  LET Cells(r) == [asset |-> r.asset, name |-> Name(r.asset), collateral |-> r.factor > 0,
                   button |-> r.asset \in purse]
  IN {Cells(Reserves[i]) : i \in DOMAIN Reserves}

-----------------------------------------------------------------------------
(* Properties.                                                             *)

(* As long as the page is up, every row gives its own asset's figures: an answer that     *)
(* lost a collateral is never shown against the wrong names (deriveReserveStats).       *)
RowsAreOwn ==
  ~down /\ ~Loading =>
    /\ \A r \in AllReserves : r.name = Name(r.size)
    /\ {r.size : r \in AllReserves} = Assets

(* The two tables list the same assets, each once; just the base asset can be owed, and    *)
(* what the one lists with a factor the other calls collateral.                        *)
TablesAgree ==
  ~down =>
    /\ {r.name : r \in AllReserves} = {r.name : r \in AssetsToSupply}
    /\ \A r \in AllReserves, s \in AssetsToSupply :
         r.name = s.name => (s.collateral <=> r.cf \ {0} # {}) /\ (r.borrowed <=> s.asset = Base)

(* The page goes down only for an answer that lost a collateral, and comes up again        *)
(* when it is reloaded.                                                      *)
DownForCause == down => raw # NoAnswer /\ Len(raw.colls) < NColl

ReservesAreRight == RowsAreOwn /\ TablesAgree /\ DownForCause
=============================================================================
