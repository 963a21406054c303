---------------------------- MODULE LiquidateList ----------------------------
(***************************************************************************)
(* The table of the liquidate pages: what a scan finds and reads of each       *)
(* account (fetchUnhealthyAccounts.ts, enrichLiquidatable.ts), how the filter      *)
(* row narrows it, who may press a row's button, and what becomes of it all when    *)
(* the chain, and with it the Comet, is only known after the page was mounted.       *)
(* Overlapping clicks, the address field and the popup are LiquidateView's.         *)
(*                                                                         *)
(* USD are in percents of a dollar, factors in percent; a health is an exact        *)
(* fraction.  Every borrower has a Supply event in the scanned window.               *)
(***************************************************************************)
EXTENDS Integers, FiniteSets, FiniteSetsExt, Functions

CONSTANTS
  Accounts, Colls,
  Starts, Resolved, \* Comets the page may start with, "none" is one, and those it may be told of
  Worlds,          \* Worlds[k][a]: [debt, bal] of account a at Comet k
  PriceSets,       \* prices the collaterals may have
  LiquidateFactor, \* liquidateCollateralFactor, by collateral
  AbsorbFactor,    \* liquidationFactor
  Thresholds, MinSizes, \* what the filter row offers, in percents
  MaxEnrich,       \* MAX_ENRICH
  Scans, MaxMoves  \* bounds: calls of refreshList, and market moves

VARIABLES
  comet,      \* cfg.comet
  pos, price, \* pos[k][a]: a's position at Comet k
  moves,
  table,      \* accounts
  loading,
  scan,       \* scan[s]: a call of refreshList
  filter, connected,
  row,        \* rowState, by address
  run,        \* one absorb from a row
  mixed,      \* history: scans overlapped, or an absorb outlived its Comet
  told        \* history: the table is of a whole scan since which nothing happened

vars == <<comet, pos, price, moves, table, loading, scan, filter, connected, row, run, mixed, told>>
worldVars == <<pos, price, moves>>
viewVars == <<filter, connected>>

Comets == (Starts \cup Resolved) \ {"none"}

(* isLiquidatable (external).                                                 *)
Worth(k, a, factor) == SumFunction([c \in Colls |-> pos[k][a].bal[c] * price[c] * factor[c]])
Liquidatable(k, a) == pos[k][a].debt * 100 > Worth(k, a, LiquidateFactor)
Under(k) == {a \in Accounts : k # "none" /\ Liquidatable(k, a)}

(* buildLiquidatableInfo over the reads of enrichLiquidatable: there is no health without a     *)
(* debt.  The bonus and the collateral it is of are left out.                             *)
Info(k, a) ==
  [debt |-> 100 * pos[k][a].debt,
   health |-> [n |-> Worth(k, a, AbsorbFactor), d |-> 100 * pos[k][a].debt]]

Default == [threshold |-> 100, minSize |-> 0]
NoScan == [pc |-> "idle", of |-> "none", found |-> {}, stale |-> FALSE]
NoRun == [pc |-> "idle", acct |-> "none", of |-> "none"]
InFlight(s) == scan[s].pc \in {"probe", "enrich"}

ListTypeOK ==
  /\ comet \in Starts \cup Resolved /\ price \in PriceSets
  /\ DOMAIN pos = Comets /\ \A k \in Comets, a \in Accounts : pos[k][a].debt >= 0
  /\ \A x \in table : x.acct \in Accounts /\ x.of \in Comets /\ x.info.debt >= 0
  /\ Cardinality(table) <= MaxEnrich /\ loading \in BOOLEAN /\ connected \in BOOLEAN
  /\ filter \in [threshold : Thresholds, minSize : MinSizes]
  /\ row \in [Accounts -> {"idle", "absorbing", "healthy", "success", "error"}]
  /\ run.pc \in {"idle", "check", "sent", "over"} /\ mixed \in BOOLEAN /\ told \in BOOLEAN

-----------------------------------------------------------------------------
Overlaps == \E s \in Scans : InFlight(s)

(* refreshList begins.                                                           *)
Refresh(k) ==
  \E s \in Scans :
    /\ scan[s].pc = "idle" /\ s = CHOOSE t \in Scans : scan[t].pc = "idle"
    /\ scan' = [scan EXCEPT ![s] = [NoScan EXCEPT !.pc = "probe", !.of = k]]
    /\ loading' = TRUE

(* The page is mounted and its effect has run: without a Comet there is nothing to scan.     *)
Init ==
  /\ comet \in Starts /\ pos \in Worlds
  /\ price \in PriceSets /\ moves = 0 /\ table = {} /\ loading = (comet # "none")
  /\ scan = [s \in Scans |-> IF comet # "none" /\ s = CHOOSE t \in Scans : TRUE
                             THEN [NoScan EXCEPT !.pc = "probe", !.of = comet] ELSE NoScan]
  /\ filter = Default /\ connected \in BOOLEAN /\ row = [a \in Accounts |-> "idle"] /\ run = NoRun
  /\ mixed = FALSE /\ told = FALSE

(* Mutant: the effect runs on mount only.                                           *)
ChainResolves_NoRefresh(k) ==
  /\ comet # k /\ comet' = k /\ told' = FALSE
  /\ mixed' = (mixed \/ Overlaps \/ run.pc \in {"check", "sent"})
  /\ UNCHANGED <<worldVars, viewVars, table, loading, scan, row, run>>

(* /api/env brings the deployed chain and its Comet: refreshList is another, and is called;   *)
(* a scan or an absorb under way goes on with the Comet it began with.                 *)
ChainResolves(k) ==
  /\ comet # k /\ comet' = k /\ told' = FALSE /\ Refresh(k)
  /\ mixed' = (mixed \/ Overlaps \/ run.pc \in {"check", "sent"})
  /\ UNCHANGED <<worldVars, viewVars, table, row, run>>

(* The probes, all asked at once; the first to answer are enriched.                    *)
Probe(s) ==
  /\ scan[s].pc = "probe"
  /\ LET under == Under(scan[s].of)
     IN \E found \in kSubset(IF Cardinality(under) < MaxEnrich THEN Cardinality(under) ELSE MaxEnrich, under) :
          scan' = [scan EXCEPT ![s] = [@ EXCEPT !.pc = "enrich", !.found = found,
                                               !.stale = scan[s].stale \/ found # under]]
  /\ UNCHANGED <<comet, worldVars, viewVars, table, loading, row, run, mixed, told>>

Delivers(s) ==
  /\ scan[s].pc = "enrich"
  /\ table' = {[acct |-> a, of |-> scan[s].of, info |-> Info(scan[s].of, a)] : a \in scan[s].found}
  /\ loading' = FALSE /\ told' = (~mixed /\ ~scan[s].stale)
  /\ scan' = [scan EXCEPT ![s] = [NoScan EXCEPT !.pc = "over"]]
  /\ UNCHANGED <<comet, worldVars, viewVars, row, run, mixed>>

(* Any read may throw: the table stays.                                             *)
ScanFails(s) ==
  /\ InFlight(s) /\ loading' = FALSE
  /\ scan' = [scan EXCEPT ![s] = [NoScan EXCEPT !.pc = "failed"]]
  /\ UNCHANGED <<comet, worldVars, viewVars, table, row, run, mixed, told>>

-----------------------------------------------------------------------------
(* What is shown.                                                              *)

(* Mutant: an account on the threshold is hidden.                                      *)
Kept_Below(info) ==
  /\ info.debt = 0 \/ 100 * info.health.n < filter.threshold * info.health.d
  /\ info.debt >= filter.minSize

(* The filter.  The symbols it may be given are none, so that the other two controls       *)
(* change nothing.                                                              *)
Kept(info) ==
  /\ info.debt = 0 \/ 100 * info.health.n <= filter.threshold * info.health.d
  /\ info.debt >= filter.minSize
Rows == {x \in table : Kept(x.info)}

(* The row in place of the rows: what it says while scanning, and otherwise.              *)
EmptyRow == IF Rows # {} THEN "none" ELSE IF loading /\ table = {} THEN "scanning" ELSE "chain is healthy"

(* The button of a row: none after a success, also of an earlier position of the account.    *)
Button(x) ==
  IF ~connected THEN "connect" ELSE IF row[x.acct] = "success" THEN "none" ELSE "absorb"

SetFilter ==
  /\ \/ \E t \in Thresholds \ {filter.threshold} : filter' = [filter EXCEPT !.threshold = t]
     \/ \E m \in MinSizes \ {filter.minSize} : filter' = [filter EXCEPT !.minSize = m]
  /\ UNCHANGED <<comet, worldVars, table, loading, scan, connected, row, run, mixed, told>>

Connect ==
  /\ connected' = ~connected
  /\ UNCHANGED <<comet, worldVars, table, loading, scan, filter, row, run, mixed, told>>

-----------------------------------------------------------------------------
(* An absorb from a row, with the Comet of the render it was clicked in.                  *)
Absorb(x) ==
  /\ run.pc = "idle" /\ x \in Rows /\ Button(x) = "absorb"
  /\ run' = [pc |-> "check", acct |-> x.acct, of |-> comet] /\ row' = [row EXCEPT ![x.acct] = "absorbing"]
  /\ UNCHANGED <<comet, worldVars, viewVars, table, loading, scan, mixed, told>>

(* onCheck: null also without a Comet.                                              *)
Check ==
  /\ run.pc = "check"
  /\ IF run.acct \in Under(run.of)
     THEN run' = [run EXCEPT !.pc = "sent"] /\ UNCHANGED row
     ELSE run' = [run EXCEPT !.pc = "over"] /\ row' = [row EXCEPT ![run.acct] = "healthy"]
  /\ UNCHANGED <<comet, worldVars, viewVars, table, loading, scan, mixed, told>>

(* Comet pays the debt and keeps the collateral; the list is read again.                  *)
Succeed ==
  /\ run.pc = "sent" /\ run.acct \in Under(run.of)
  /\ pos' = [pos EXCEPT ![run.of][run.acct] = [debt |-> 0, bal |-> [c \in Colls |-> 0]]]
  /\ run' = [run EXCEPT !.pc = "over"] /\ row' = [row EXCEPT ![run.acct] = "success"]
  /\ Refresh(run.of) /\ mixed' = (mixed \/ Overlaps) /\ told' = FALSE
  /\ UNCHANGED <<comet, price, moves, viewVars, table>>

Fail ==
  /\ run.pc \in {"check", "sent"}
  /\ run' = [run EXCEPT !.pc = "over"] /\ row' = [row EXCEPT ![run.acct] = "error"]
  /\ UNCHANGED <<comet, worldVars, viewVars, table, loading, scan, mixed, told>>

Move ==
  /\ moves < MaxMoves /\ moves' = moves + 1
  /\ \E p \in PriceSets \ {price} : price' = p
  /\ told' = FALSE /\ scan' = [s \in Scans |-> [scan[s] EXCEPT !.stale = InFlight(s)]]
  /\ UNCHANGED <<comet, pos, viewVars, table, loading, row, run, mixed>>

Next ==
  \/ \E k \in Resolved : ChainResolves(k)
  \/ \E s \in Scans : Probe(s) \/ Delivers(s) \/ ScanFails(s)
  \/ SetFilter \/ Connect \/ (\E x \in Rows : Absorb(x)) \/ Check \/ Succeed \/ Fail \/ Move

-----------------------------------------------------------------------------
(* Properties.                                                             *)

(* At rest the table lists accounts of the Comet the page shows, and not of the one it was     *)
(* built with, unless a scan failed, two overlapped, or an absorb outlived the change (the     *)
(* effect on refreshList).                                                       *)
ListIsOfComet ==
  comet # "none" /\ ~mixed /\ (\A s \in Scans : scan[s].pc \in {"idle", "over"})
    => \A x \in table : x.of = comet

(* While nothing happens after a whole scan, the rows are just the accounts Comet would absorb  *)
(* whose health and debt pass the filter, and the chain is called healthy only if there is no    *)
(* such account of any size above the filter's (fetchUnhealthyAccounts, enrichLiquidatableList,   *)
(* filtered, emptyMessage).                                                        *)
TableTells ==
  told =>
    LET passing == {a \in Under(comet) : Worth(comet, a, AbsorbFactor) <= filter.threshold * pos[comet][a].debt}
    IN /\ {x.acct : x \in Rows} = {a \in passing : 100 * pos[comet][a].debt >= filter.minSize}
       /\ EmptyRow = "chain is healthy" /\ filter.minSize = 0 => passing = {}

ListingIsRight == ListIsOfComet /\ TableTells
=============================================================================
