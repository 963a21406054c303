-------------------------------- MODULE MCDev --------------------------------
(***************************************************************************)
(* Model-checking instance of the developer tools: the probe, the flow        *)
(* harness with a steady wallet, the harness with a wallet that is switched   *)
(* away and back, so that a second flow can begin in the middle of the first, *)
(* the command-line driver, and the log and the history of the probe.  `page`  *)
(* says which of them is used.                                              *)
(***************************************************************************)
EXTENDS ProbePage, TLC

CONSTANTS
  Pages,         \* pages looked at
  TwoHandlers,
  TwoSigs,
  Tabs,
  Wallets

VARIABLES
  page, busy, loading, stranded, reconnects, left,
  sender, landed, storage, log, history, asked, who, loads, cleared, ever, alone

ASSUME TwoAssumption == IsFiniteSet(TwoHandlers)
ASSUME NamesAssumption == "idle" \notin TwoSigs /\ "reads" \notin TwoSigs /\ "none" \notin Wallets

BaseFirst == <<Base, CHOOSE c \in Colls : TRUE>>
NoTokens == [a \in Assets |-> 0]
Ones == [a \in Assets |-> 1]

(* A wallet that has done nothing yet, and one that is all set up.  In the    *)
(* first there is a faucet, in the second an account that can be absorbed.   *)
New == [wallet |-> Ones, spl |-> Assets, held |-> NoTokens, ata |-> {}, pda |-> FALSE,
        allow |-> NoTokens, base |-> 0, coll |-> [c \in Colls |-> 0], alt |-> FALSE,
        claimed |-> FALSE, victim |-> "absorbed", seized |-> [c \in Colls |-> 0]]
SetUp == [New EXCEPT !.ata = Assets, !.pda = TRUE, !.alt = TRUE, !.claimed = TRUE]
BaseOnly(s) == [s EXCEPT !.wallet = [NoTokens EXCEPT ![Base] = 1], !.spl = {Base}]

ProbeStarts == {[New EXCEPT !.wallet = [NoTokens EXCEPT ![Base] = 1]], [SetUp EXCEPT !.victim = "under"]}
(* Without a reconnect one handler does for all buttons.                       *)
SteadyStarts == {BaseOnly(New), BaseOnly([New EXCEPT !.claimed = TRUE, !.victim = "under"])}
SwitchedStarts == {BaseOnly(SetUp)}
Harness == INSTANCE FlowHarness WITH
  Handlers <- TwoHandlers, Starts <- SteadyStarts \cup SwitchedStarts, NonceFirst <- TRUE, MaxReconnects <- 1
OneHandler ==
  \E h \in TwoHandlers : /\ \A g \in TwoHandlers \ {h} : run'[g] = Harness!Idle
                        /\ \A x \in net' : x.by = h

(* The driver's wallet has a token of each kind, or its collateral still to    *)
(* be had from a faucet.                                                   *)
DriverStarts == {New, BaseOnly([New EXCEPT !.ata = Assets, !.pda = TRUE])}
DriverCommands == {
  <<"supply", "borrow", "repay", "withdraw">>,  \* all
  <<"supply-collat", "borrow", "repay">>, <<"nativefaucet", "supply-collat">>,
  <<"supply", "withdraw">>, <<"faucetclaim", "freshpair">>}
Driver == INSTANCE DriveFlows WITH
  Starts <- DriverStarts, NonceFirst <- TRUE, Heavy <- {"withdraw", "supply"},
  Commands <- DriverCommands

(* The history of two tabs, one wallet and one reload.                         *)
History == INSTANCE ProbeHistory WITH
  Sigs <- TwoSigs, MaxLoads <- 1

harnessOnly == <<busy, loading, stranded, reconnects>>
historyOnly == <<sender, landed, storage, log, history, asked, who, loads, cleared, ever, alone>>
Off == "off"
FlowOff ==
  acct = Off /\ net = Off /\ run = Off /\ torn = Off
HistoryOff ==
  /\ sender = Off /\ landed = Off /\ storage = Off /\ log = Off /\ history = Off
  /\ asked = Off /\ who = Off /\ loads = Off /\ cleared = Off /\ ever = Off /\ alone = Off

DevInit ==
  \/ /\ page = "probe" /\ Init
     /\ busy = Off /\ loading = Off /\ stranded = Off /\ reconnects = Off /\ left = Off /\ HistoryOff
  \/ page = "harness" /\ Harness!Init /\ acct \in SteadyStarts /\ left = Off /\ HistoryOff
  \/ page = "switched" /\ Harness!Init /\ acct \in SwitchedStarts /\ left = Off /\ HistoryOff
  \/ /\ page = "driver" /\ Driver!Init
     /\ busy = Off /\ loading = Off /\ stranded = Off /\ reconnects = Off /\ HistoryOff
  \/ /\ page = "history" /\ History!Init /\ FlowOff
     /\ loading = Off /\ stranded = Off /\ reconnects = Off /\ left = Off

InitOfDev == page \in Pages /\ DevInit

DevNext ==
  \/ page = "probe" /\ Next /\ UNCHANGED <<page, harnessOnly, left, historyOnly>>
  \/ page = "harness" /\ Harness!Next /\ OneHandler /\ UNCHANGED <<page, reconnects, left, historyOnly>>
  \/ page = "switched" /\ Harness!Next /\ UNCHANGED <<page, left, historyOnly>>
  \/ page = "driver" /\ Driver!Next /\ UNCHANGED <<page, harnessOnly, historyOnly>>
  \/ page = "history" /\ History!Next
     /\ UNCHANGED <<page, flowVars, loading, stranded, reconnects, left>>

devVars == <<page, flowVars, harnessOnly, left, historyOnly>>
DevSpec == InitOfDev /\ [][DevNext]_devVars

Symmetry == Permutations(TwoHandlers) \cup Permutations(TwoSigs) \cup Permutations(Tabs)

-----------------------------------------------------------------------------
(* The properties, each of the page it is about.                           *)

(* Type correctness of whichever page is shown.                             *)
DevTypeOK ==
  /\ page = "probe" => FlowTypeOK
  /\ page = "harness" => Harness!HarnessTypeOK
  /\ page = "switched" => Harness!HarnessTypeOK
  /\ page = "driver" => Driver!DriverTypeOK
  /\ page = "history" => History!HistoryTypeOK

(* At rest, as long as every flow ran to its end and nothing landed behind    *)
(* one's back, the synthetic has allowed nothing, on the harness it holds     *)
(* nothing either, and the harness lists just what it holds (runSupply and    *)
(* the like, doSupply and the like, checkSynthetic).  Two flows of the        *)
(* harness run at a time only after the wallet was switched away and back.     *)
(* The probe's history lists what its log says landed, once, and a reload       *)
(* brings it back (txHistory).                                             *)
RestIsClean ==
  /\ page = "probe" => CleanLeavesNoAllowance
  /\ page = "harness" => Harness!CleanLeavesNothing /\ Harness!ListIsCurrent
  /\ page = "switched" => Harness!CleanLeavesNothing /\ Harness!OneFlowAtATime
  /\ page = "driver" => Driver!DrivenClean
  /\ page = "history" => History!HistoryIsRight

(* A flow that ends well has moved what its button says and nothing else,      *)
(* however it was split into transactions, unless another transaction landed  *)
(* in between; and the probe's Activate, which may be run again after any step  *)
(* of it failed, says so only when everything is there (runActivate).          *)
FlowsEndAsPromised ==
  [][/\ page = "probe" => \A h \in Handlers : AsPromised(h) /\ ActivatesAll(h)
     /\ page = "driver" => \A h \in Handlers : AsPromised(h) /\ Driver!DrawdownOnly(h)
     /\ page \in {"harness", "switched"} => \A h \in TwoHandlers : AsPromised(h)]_devVars
=============================================================================
