---------------------------- MODULE LiquidateView ----------------------------
(***************************************************************************)
(* The liquidate page of either lane: LiquidateView.tsx with the list and  *)
(* the absorb that app/evm/liquidate and app/solana/liquidate give it.     *)
(*                                                                         *)
(* A table of accounts comes from scans (one on mount, one after every     *)
(* absorb); an address field takes any account.  Absorbs and checks are    *)
(* asynchronous runs: nothing cancels one, and nothing keeps a user from    *)
(* starting another.  Comet is external: absorb executes on an account      *)
(* that is under water at that moment and reverts on any other.            *)
(***************************************************************************)
EXTENDS Naturals, FiniteSets

CONSTANTS
  Accounts,   \* borrowers
  NoAddress,  \* no valid address in the field
  Visible,    \* borrowers whose events the EVM log shows
  Lanes,      \* lanes looked at
  Runs,       \* clicks on Check and Absorb (bounds a behaviour)
  Scans,      \* scans of the log that can be in flight at a time
  Movers,     \* borrowers that the market moves (a bound)
  MaxMoves    \* how often it does (a bound)

VARIABLES
  lane,       \* whose page it is
  under,      \* accounts for which Comet says isLiquidatable
  moves,      \* market moves so far
  list,       \* accounts in the table
  loading,    \* "refreshing..."
  scan,       \* scan[s]: one call of refreshList
  mixed,      \* history: a scan failed, or two were in flight together
  victim,     \* the address field
  manual,     \* what is shown below it, and (history) of which account
  crossed,    \* history: the field was edited under a run
  row,        \* row[a]: what a's row shows
  run         \* run[r]: one call of runCheck or runAbsorb

chainVars == <<under, moves>>
tableVars == <<list, loading, scan, mixed>>
shownVars == <<manual, row>>
vars == <<lane, under, moves, list, loading, scan, mixed, victim, manual,
          crossed, row, run>>

Shown == {"idle", "checking", "liquidatable", "healthy", "absorbing", "success", "error"}
InFlightPc == {"check", "enrich", "prepare", "popup", "sent"}
ScanState == [pc: {"idle", "probe"},
              left: SUBSET Accounts, found: SUBSET Accounts]
RunState == [pc: {"idle", "ended", "failed"} \cup InFlightPc,
             kind: {"check", "absorb"}, place: {"row", "manual"},
             acct: Accounts \cup {NoAddress},
             left: BOOLEAN,  \* history: acct recovered after the check, before the popup ended
             fate: {"none", "pending", "absorbed", "void"}]  \* void: reverted or replaced

TypeOK ==
  /\ lane \in Lanes /\ under \subseteq Accounts /\ moves \in Nat
  /\ list \subseteq Accounts /\ loading \in BOOLEAN
  /\ scan \in [Scans -> ScanState] /\ mixed \in BOOLEAN
  /\ victim \in Accounts \cup {NoAddress} /\ crossed \in BOOLEAN
  /\ manual \in [phase: Shown, about: Accounts \cup {NoAddress}]
  /\ row \in [Accounts -> Shown] /\ run \in [Runs -> RunState]

Running(r) == run[r].pc \in InFlightPc
Scanning(s) == scan[s].pc = "probe"
Blank == [phase |-> "idle", about |-> NoAddress]
NoRun == [pc |-> "idle", kind |-> "check", place |-> "manual", acct |-> NoAddress,
          left |-> FALSE, fate |-> "none"]
IdleScan == [pc |-> "idle", left |-> {}, found |-> {}]
NewScan(cand) == [IdleScan EXCEPT !.pc = "probe", !.left = cand]

(* The page is mounted: its first scan has begun.                          *)
Init ==
  /\ lane \in Lanes /\ under \in SUBSET Accounts /\ moves = 0
  /\ list = {} /\ loading = TRUE /\ mixed = FALSE
  /\ \E cand \in SUBSET Visible :
       scan = [s \in Scans |->
                 IF s = CHOOSE t \in Scans : TRUE THEN NewScan(cand) ELSE IdleScan]
  /\ victim = NoAddress /\ manual = Blank /\ crossed = FALSE
  /\ row = [a \in Accounts |-> "idle"]
  /\ run = [r \in Runs |-> NoRun]

-----------------------------------------------------------------------------
(* The list: refreshList over fetchUnhealthyAccounts.                      *)

(* refreshList begins: some of the visible accounts have an event in the     *)
(* last blocks, the candidates.                                            *)
(* Calls are interchangeable: the next one is any that is not under way.    *)
IsNextScan(s) == scan[s].pc = "idle" /\ s = CHOOSE t \in Scans : scan[t].pc = "idle"
IsNextRun(r) == run[r].pc = "idle" /\ r = CHOOSE q \in Runs : run[q].pc = "idle"

StartScan ==
  /\ \E s \in Scans, cand \in SUBSET Visible :
       IsNextScan(s) /\ scan' = [scan EXCEPT ![s] = NewScan(cand)]
  /\ mixed' = (mixed \/ \E t \in Scans : Scanning(t))
  /\ loading' = TRUE
  /\ UNCHANGED list

(* Candidates are asked for at the same time, and each answers when it may. *)
ScanProbe(s, a) ==
  /\ scan[s].pc = "probe" /\ a \in scan[s].left
  /\ scan' = [scan EXCEPT ![s].left = @ \ {a}, ![s].found = @ \cup ({a} \cap under)]
  /\ UNCHANGED <<lane, chainVars, list, loading, mixed, victim, shownVars, crossed, run>>

ScanDelivers(s) ==
  /\ scan[s].pc = "probe" /\ scan[s].left = {}
  /\ list' = scan[s].found
  /\ loading' = FALSE
  /\ scan' = [scan EXCEPT ![s] = IdleScan]
  /\ UNCHANGED <<lane, chainVars, mixed, victim, shownVars, crossed, run>>

(* "Transient - keep prior list."                                          *)
ScanFails(s) ==
  /\ Scanning(s)
  /\ loading' = FALSE
  /\ scan' = [scan EXCEPT ![s] = IdleScan]
  /\ mixed' = TRUE
  /\ UNCHANGED <<lane, chainVars, list, victim, shownVars, crossed, run>>

-----------------------------------------------------------------------------
(* The runs.                                                               *)

(* What run r shows, on its row or below the field.                        *)
Show(r, phase) ==
  IF run[r].place = "row"
  THEN row' = [row EXCEPT ![run[r].acct] = phase] /\ UNCHANGED manual
  ELSE manual' = [phase |-> phase, about |-> run[r].acct] /\ UNCHANGED row

Begin(r, kind, place, a) ==
  /\ IsNextRun(r)
  /\ run' = [run EXCEPT ![r] = [@ EXCEPT !.pc = "check", !.kind = kind,
                                         !.place = place, !.acct = a]]
  /\ UNCHANGED <<lane, chainVars, tableVars, victim, crossed>>

(* A row's button: there for a connected wallet until the row was absorbed, *)
(* also while an absorb is running.                                        *)
AbsorbRow(r, a) ==
  /\ a \in list /\ row[a] # "success"
  /\ Begin(r, "absorb", "row", a)
  /\ row' = [row EXCEPT ![a] = "absorbing"]
  /\ UNCHANGED manual

AbsorbManual(r) ==
  /\ victim # NoAddress
  /\ Begin(r, "absorb", "manual", victim)
  /\ manual' = [phase |-> "absorbing", about |-> victim]
  /\ UNCHANGED row

CheckManual(r) ==
  /\ victim # NoAddress
  /\ Begin(r, "check", "manual", victim)
  /\ manual' = [phase |-> "checking", about |-> victim]
  /\ UNCHANGED row

Edit(a) ==
  /\ victim # a
  /\ victim' = a
  /\ manual' = Blank
  /\ crossed' = (crossed \/ \E r \in Runs : Running(r) /\ run[r].place = "manual")
  /\ UNCHANGED <<lane, chainVars, tableVars, row, run>>

Step(r, pc) ==
  run' = [run EXCEPT ![r].pc = pc, ![r].left = @ /\ pc \in {"prepare", "popup"}]

(* A run is over; one that sent nothing is forgotten.                       *)
End(r, pc) ==
  run' = [run EXCEPT ![r] = IF @.fate = "none" THEN [NoRun EXCEPT !.pc = "ended"]
                            ELSE [@ EXCEPT !.pc = pc]]
Elsewhere == <<lane, chainVars, victim, crossed>>

(* Mutant: what the check answers is not looked at before the absorb.       *)
AskComet_AnyAnswer(r) ==
  /\ run[r].pc = "check"
  /\ Step(r, "enrich")
  /\ UNCHANGED <<Elsewhere, tableVars, shownVars>>

(* onCheck: isLiquidatable first; a healthy account ends the run.           *)
AskComet(r) ==
  /\ run[r].pc = "check"
  /\ IF run[r].acct \in under
     THEN Step(r, "enrich") /\ UNCHANGED shownVars
     ELSE End(r, "ended") /\ Show(r, "healthy")
  /\ UNCHANGED <<Elsewhere, tableVars>>

(* Then the figures of the account; a check ends with them.                 *)
Enrich(r) ==
  /\ run[r].pc = "enrich"
  /\ IF run[r].kind = "check"
     THEN End(r, "ended") /\ Show(r, "liquidatable")
     ELSE Step(r, "prepare") /\ UNCHANGED shownVars
  /\ UNCHANGED <<Elsewhere, tableVars>>

(* onAbsorb up to the popup: on the EVM lane a gas estimate, which reverts   *)
(* on a healthy account; on the Solana lane account discovery and tables.   *)
Prepare(r) ==
  /\ run[r].pc = "prepare"
  /\ lane = "evm" => run[r].acct \in under
  /\ Step(r, "popup")
  /\ UNCHANGED <<Elsewhere, tableVars, shownVars>>

Sign(r) ==
  /\ run[r].pc = "popup"
  /\ run' = [run EXCEPT ![r].pc = "sent", ![r].left = FALSE, ![r].fate = "pending"]
  /\ UNCHANGED <<Elsewhere, tableVars, shownVars>>

(* The accounts in S cease to be under water; runs is what becomes of run.   *)
Leave(S, runs) ==
  /\ under' = under \ S
  /\ run' = [r \in Runs |->
               IF runs[r].acct \in S /\ runs[r].pc \in {"enrich", "prepare", "popup"}
               THEN [runs[r] EXCEPT !.left = TRUE] ELSE runs[r]]

(* The transaction executes, also after its run gave up on it.              *)
Execute(r) ==
  /\ run[r].fate = "pending"
  /\ Leave(under \cap {run[r].acct},
           [run EXCEPT ![r].fate = IF run[r].acct \in under THEN "absorbed" ELSE "void"])
  /\ UNCHANGED <<lane, moves, victim, crossed, tableVars, shownVars>>

(* An EVM wallet may replace a transaction that is not mined yet.           *)
Replace(r) ==
  /\ lane = "evm" /\ run[r].fate = "pending"
  /\ run' = [run EXCEPT ![r].fate = "void"]
  /\ UNCHANGED <<Elsewhere, tableVars, shownVars>>

(* The receipt is there (its status is not read), or the confirmation (which *)
(* throws for a failed transaction); the list is read again, not awaited.   *)
Succeed(r) ==
  /\ run[r].pc = "sent" /\ run[r].fate # "pending"
  /\ lane = "solana" => run[r].fate = "absorbed"
  /\ End(r, "ended") /\ Show(r, "success")
  /\ StartScan
  /\ UNCHANGED Elsewhere

(* Every read, the popup and the wait may throw.                            *)
Fail(r) ==
  /\ Running(r)
  /\ End(r, "failed") /\ Show(r, "error")
  /\ UNCHANGED <<Elsewhere, tableVars>>

(* What stands below the field: the hint for an address that is none, and what the last   *)
(* run made known.                                                        *)
Banner ==
  CASE manual.phase = "liquidatable" -> "absorb will seize collateral"
    [] manual.phase = "healthy" -> "absorb would revert"
    [] manual.phase = "success" -> "debt cleared"
    [] manual.phase = "error" -> "error"
    [] manual.phase \in {"checking", "absorbing"} -> "working"
    [] OTHER -> "none"

-----------------------------------------------------------------------------
(* A price or another liquidator moves an account across the threshold.     *)
Move(a) ==
  /\ moves < MaxMoves
  /\ moves' = moves + 1
  /\ IF a \in under THEN Leave({a}, run) ELSE under' = under \cup {a} /\ UNCHANGED run
  /\ UNCHANGED <<lane, victim, crossed, tableVars, shownVars>>

ScanStep(s) ==
  \/ (\E a \in Accounts : ScanProbe(s, a)) \/ ScanDelivers(s) \/ ScanFails(s)
RunStep(r) ==
  \/ AskComet(r) \/ Enrich(r) \/ Prepare(r) \/ Sign(r) \/ Succeed(r) \/ Fail(r)
UserStep ==
  \/ \E r \in Runs, a \in Accounts : AbsorbRow(r, a)
  \/ \E r \in Runs : AbsorbManual(r) \/ CheckManual(r)
  \/ \E a \in Accounts \cup {NoAddress} : Edit(a)

Next ==
  \/ UserStep
  \/ \E s \in Scans : ScanStep(s)
  \/ \E r \in Runs : RunStep(r) \/ Execute(r) \/ Replace(r)
  \/ \E a \in Movers : Move(a)

Spec == Init /\ [][Next]_vars

-----------------------------------------------------------------------------
(* Properties.                                                             *)

RunFor(a, place) == {r \in Runs : run[r].acct = a /\ run[r].place = place}

(* Whatever is clicked, edited and answered in whatever order, "Absorbing", *)
(* "Checking" and "refreshing" are shown only while such a call is running  *)
(* (runAbsorb, runCheck, refreshList's finally).                           *)
BusyMeansRunning ==
  /\ \A a \in Accounts : row[a] = "absorbing" => \E r \in RunFor(a, "row") : Running(r)
  /\ manual.phase \in {"checking", "absorbing"} =>
       \E r \in RunFor(manual.about, "manual") : Running(r)
  /\ loading => \E s \in Scans : Scanning(s)

(* "Absorbed" is shown only for an account with an absorb that is no longer *)
(* pending, and on the Solana lane (which reads the transaction's error)     *)
(* only if it executed.                                                    *)
Settled(r) == run[r].fate \notin {"none", "pending"} /\ (lane = "solana" => run[r].fate = "absorbed")
AbsorbedIsSettled ==
  /\ \A a \in Accounts : row[a] = "success" => \E r \in RunFor(a, "row") : Settled(r)
  /\ manual.phase = "success" => \E r \in RunFor(manual.about, "manual") : Settled(r)

(* The page's wallet is asked to absorb a healthy account only if the       *)
(* account recovered, or was absorbed, after this run's own check ("never    *)
(* burn a tx on a healthy account").                                       *)
HealthySinceCheck ==
  \A r \in Runs : run[r].pc = "popup" /\ run[r].acct \notin under => run[r].left

(* What is shown below the field is about the address in it, unless the      *)
(* field was edited under a run; and it is so while the market rests: an      *)
(* account of which absorb would revert is not under water, one whose         *)
(* collateral absorb will seize is, unless this page absorbed it since, and    *)
(* one whose debt is said to be cleared owes none, unless the EVM lane took a   *)
(* receipt for a success (runCheck, runAbsorb, ManualStatus).                *)
AnswerIsAboutAddress ==
  /\ Banner # "none" /\ ~crossed => manual.about = victim
  /\ moves = 0 =>
       CASE Banner = "absorb would revert" -> manual.about \notin under
         [] Banner = "absorb will seize collateral" ->
              manual.about \in under \/ \E r \in Runs : run[r].acct = manual.about /\ run[r].fate = "absorbed"
         [] Banner = "debt cleared" -> lane = "solana" => manual.about \notin under
         [] OTHER -> TRUE

(* When everything has come to rest, an absorbed account has dropped off    *)
(* the list, unless the market moved, a scan failed, or two scans overlapped *)
(* and the older one may have come last ("so the absorbed account drops      *)
(* off").                                                                  *)
AbsorbedDropsOff ==
  /\ \A r \in Runs : ~Running(r)
  /\ \A s \in Scans : ~Scanning(s)
  /\ ~mixed /\ moves = 0
  => \A r \in Runs : run[r].fate = "absorbed" /\ run[r].pc = "ended" => run[r].acct \notin list
=============================================================================
