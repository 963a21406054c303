----------------------------- MODULE ActivityRow -----------------------------
(***************************************************************************)
(* What a row of the activity list says: the amount a user types, what is sent   *)
(* for it, the row the lane adds itself (recordSuccess), and the row made later     *)
(* of the log (laneActivity.ts toLaneActivity) with the names, the decimals and     *)
(* the prices of the last position read (activityLookup, buildActivityLookup).       *)
(*                                                                         *)
(* One account; whose rows are listed when accounts change is ActivityFeed's.        *)
(* Amounts are in the last digit that may be typed.  Logs of a Solana submission      *)
(* are rarely there, so they may be.  A price of 0 is a feed that does not answer.    *)
(***************************************************************************)
EXTENDS Integers, FiniteSets

CONSTANTS
  Assets,
  Digits,     \* digits that are typed behind the point
  Decimals,   \* decimals of each asset
  StandIn,    \* those the Solana lane takes when it could not read them
  Typed, Prices,
  Reads,      \* fetches that can be under way at a time
  MaxSent     \* bound: submissions

VARIABLES
  laneOf,   \* "sol" or "evm"
  lookup,   \* lookup[a]: what the list calls a, and its price
  logged,   \* the logs of the account
  ownRows,  \* what the lane added itself, with (history) what was typed, and the lookup of then
  rows,     \* made of logs
  fetch,    \* fetch[k]: the lookup a fetch was begun with, and the logs it will find
  slipped   \* history: the last fetch failed, or was begun beside another on the EVM lane

vars == <<laneOf, lookup, logged, ownRows, rows, fetch, slipped>>

Names == {"none", "stand-in", "own"}
Lookup == [Assets -> [name: Names, price: Prices \cup {0}]]
Action == {"supply", "withdraw", "borrow", "repay"}
Log == [no: 1 .. MaxSent, asset: Assets, kind: {"supply", "withdraw"}, raw: Nat]
NoFetch == [with |-> {}, of |-> {}]

RowTypeOK ==
  /\ laneOf \in {"sol", "evm"} /\ lookup \in Lookup /\ slipped \in BOOLEAN
  /\ \A e \in logged : e \in Log
  /\ \A k \in Reads : fetch[k].with \subseteq Lookup /\ fetch[k].of \subseteq logged
  /\ \A r \in rows : r.of \in logged /\ r.figure >= 0
  /\ Cardinality(ownRows) <= MaxSent

(* The value of one in the last of d decimals.                                 *)
Unit(d) == 10 ^ (Digits - d)
KnownDecimals(a, name) == IF name = "stand-in" THEN StandIn ELSE Decimals[a]

(* parseTokenAmount cuts off what is beyond the decimals; parseUnits rounds it.     *)
Parse(typed, d) ==
  IF laneOf = "sol" THEN typed \div Unit(d) ELSE (2 * typed + Unit(d)) \div (2 * Unit(d))

(* assetPriceUsd: an asset without a price counts a dollar, as its balance in USD    *)
(* is nothing.                                                              *)
AssetPrice(price) == IF price > 0 THEN price ELSE 1

(* verbFor and OPTIMISTIC_VERB.                                                 *)
VerbFor(kind) == IF kind = "supply" THEN "Supplied" ELSE "Withdrew"
OptimisticVerb(type) ==
  CASE type = "borrow" -> "Borrowed" [] type = "repay" -> "Repaid" [] OTHER -> VerbFor(type)

(* toLaneActivity: an asset that is not known has a row of nothing.               *)
Row(e, known) ==
  [of |-> e, verb |-> VerbFor(e.kind), sym |-> known.name,
   figure |-> IF known.name = "none" THEN 0
              ELSE e.raw * Unit(KnownDecimals(e.asset, known.name)) * known.price]

(* The EVM lane begins with the registry's names, the Solana lane with none.         *)
Init ==
  /\ laneOf \in {"sol", "evm"}
  /\ lookup \in {[a \in Assets |-> [name |-> n[a], price |-> 0]] : n \in [Assets -> {"none", "own"}]}
  /\ laneOf = "sol" => \A a \in Assets : lookup[a].name = "none"
  /\ logged = {} /\ ownRows = {} /\ rows = {}
  /\ fetch = [k \in Reads |-> NoFetch] /\ slipped = FALSE

-----------------------------------------------------------------------------
Free == {k \in Reads : fetch[k] = NoFetch}

(* A fetch with lookup l; the Solana lane drops the one before.                     *)
Fetch(l, found) ==
  IF laneOf = "sol"
  THEN \E k \in Reads : /\ fetch' = [j \in Reads |-> IF j = k THEN [with |-> {l}, of |-> found] ELSE NoFetch]
                        /\ slipped' = FALSE
  ELSE \E k \in Free : /\ fetch' = [fetch EXCEPT ![k] = [with |-> {l}, of |-> found]]
                       /\ slipped' = (Free # Reads)

(* Mutant: the names come without the list being made anew.                        *)
ReadNames_NoFetch(known) ==
  /\ laneOf = "evm" /\ known # {}
  /\ lookup' = [a \in Assets |-> IF a \in known THEN [lookup[a] EXCEPT !.name = "own"] ELSE lookup[a]]
  /\ lookup' # lookup
  /\ UNCHANGED <<laneOf, logged, ownRows, rows, fetch, slipped>>

(* refreshAssetSymbols, of the EVM lane: what was read goes over what was known, and   *)
(* activityLookup is another.                                                 *)
ReadNames(known) ==
  /\ laneOf = "evm" /\ known # {}
  /\ lookup' = [a \in Assets |-> IF a \in known THEN [lookup[a] EXCEPT !.name = "own"] ELSE lookup[a]]
  /\ lookup' # lookup
  /\ Fetch(lookup', logged)
  /\ UNCHANGED <<laneOf, logged, ownRows, rows>>

(* The position is read again, with the prices whose feeds answer, and on the Solana   *)
(* lane with what refreshAssetMetas could name.                                   *)
ReadPosition(l) ==
  /\ l # lookup /\ (laneOf = "evm" => \A a \in Assets : l[a].name = lookup[a].name)
  /\ lookup' = l /\ Fetch(l, logged)
  /\ UNCHANGED <<laneOf, logged, ownRows, rows>>

Answer(k) ==
  /\ fetch[k] # NoFetch
  /\ \E l \in fetch[k].with : rows' = {Row(e, l[e.asset]) : e \in fetch[k].of}
  /\ fetch' = [fetch EXCEPT ![k] = NoFetch]
  /\ UNCHANGED <<laneOf, lookup, logged, ownRows, slipped>>

(* The catch: the rows stay.                                                   *)
FailFetch(k) ==
  /\ fetch[k] # NoFetch
  /\ fetch' = [fetch EXCEPT ![k] = NoFetch] /\ slipped' = TRUE
  /\ UNCHANGED <<laneOf, lookup, logged, ownRows, rows>>

(* A submission succeeds: what was typed, sent in the asset's decimals, and the row     *)
(* of it.  The Solana lane has what was sent in it, the EVM lane what was typed; the    *)
(* EVM lane lists anew at once.                                                 *)
Submit(type, a, typed) ==
  LET d == IF laneOf = "sol" THEN KnownDecimals(a, lookup[a].name) ELSE Decimals[a]
      raw == Parse(typed, d)
      no == Cardinality(ownRows) + 1
      amount == IF laneOf = "sol" THEN raw * Unit(d) ELSE typed
      log == [no |-> no, asset |-> a, raw |-> raw,
              kind |-> IF type \in {"supply", "repay"} THEN "supply" ELSE "withdraw"]
  IN /\ no <= MaxSent /\ raw > 0 /\ (laneOf = "sol" => lookup[a].name # "none")
     /\ ownRows' = ownRows \cup {[no |-> no, verb |-> OptimisticVerb(type), log |-> log, typed |-> typed, then |-> lookup[a],
                                figure |-> amount * AssetPrice(lookup[a].price)]}
     /\ logged' \in {logged \cup {log}} \cup (IF laneOf = "sol" THEN {logged} ELSE {})
     /\ IF laneOf = "sol" THEN UNCHANGED <<fetch, slipped>> ELSE Fetch(lookup, logged')
     /\ UNCHANGED <<laneOf, lookup, rows>>

Next ==
  \/ \E known \in SUBSET Assets : ReadNames(known)
  \/ \E l \in Lookup : ReadPosition(l)
  \/ \E k \in Reads : Answer(k) \/ FailFetch(k)
  \/ \E type \in Action, a \in Assets, typed \in Typed : Submit(type, a, typed)

-----------------------------------------------------------------------------
(* Properties.                                                             *)

(* When nothing is being fetched, and the last fetch neither failed nor ran beside       *)
(* another, the rows are named and valued as the position on the screen is                *)
(* (refreshActivity's dependency on activityLookup, the Solana lane's effect).              *)
RowsFollowPosition == Free = Reads /\ ~slipped => \A r \in rows : r = Row(r.of, lookup[r.of.asset])

(* The row the lane adds tells what Comet's log will: the same direction, and for an       *)
(* asset with a price and its own decimals the same value, to less than one unit of        *)
(* the asset, which is what the EVM lane rounds; the Solana lane sends no more than         *)
(* was typed (assetPriceUsd, toLaneActivity, parseTokenAmount).                            *)
Near(x, y, by) == x - y < by /\ y - x < by
OwnRowIsTheLogs ==
  \A r \in ownRows :
    LET later == Row(r.log, [r.then EXCEPT !.name = "own"])
    IN /\ laneOf = "sol" => r.figure <= r.typed * AssetPrice(r.then.price)
       /\ VerbFor(r.log.kind) = "Supplied" <=> r.verb \in {"Supplied", "Repaid"}
       /\ r.then.price > 0 /\ r.then.name # "stand-in" =>
            Near(r.figure, later.figure, IF laneOf = "sol" THEN 1 ELSE Unit(Decimals[r.log.asset]) * r.then.price)

RowsAreRight == RowsFollowPosition /\ OwnRowIsTheLogs
=============================================================================
