----------------------------- MODULE ProbeHistory -----------------------------
(***************************************************************************)
(* The log and the list of transactions of the probe page, app/discovery: the    *)
(* list is scraped from the log, filled up from the chain, kept in the browser's    *)
(* storage and read back by the next load, in every tab.  What the handlers do is    *)
(* ProbePage's; here one is busy until its transaction is confirmed or given up.     *)
(***************************************************************************)
EXTENDS Naturals

CONSTANTS Tabs, Sigs, Wallets, MaxLoads  \* MaxLoads: a bound on loads of the page

VARIABLES
  sender,   \* sender[s]: the wallet that signed s, or "none" yet
  landed,   \* signatures that were executed
  storage,  \* rome-disc-txs: entries [sig, label]
  log,      \* log[t]: signatures in the lines of the log
  history,  \* txHistory
  busy,     \* what a handler waits for: its transaction, its reads, nothing
  asked,    \* the wallet whose history is on its way, or "none"
  who,      \* the connected wallet
  loads,
  cleared,  \* ghost: the list was cleared after the last line of the log
  ever,     \* ghost: and ever since the page was loaded
  alone     \* ghost: one tab wrote, and every write went through

vars == <<sender, landed, storage, log, history, busy, asked, who, loads, cleared, ever, alone>>

Idle == "idle"
Entry(s, label) == [sig |-> s, label |-> label]
SigsOf(entries) == {e.sig : e \in entries}
Labels == {"session", "chain"}

HistoryTypeOK ==
  /\ sender \in [Sigs -> Wallets \cup {"none"}] /\ landed \subseteq Sigs
   /\ storage \subseteq [sig : Sigs, label : Labels]
  /\ log \in [Tabs -> SUBSET Sigs] /\ history \in [Tabs -> SUBSET [sig : Sigs, label : Labels]]
  /\ busy \in [Tabs -> Sigs \cup {Idle, "reads"}] /\ asked \in [Tabs -> Wallets \cup {"none"}]
   /\ who \in [Tabs -> Wallets \cup {"none"}]
  /\ loads \in Nat /\ alone \in BOOLEAN
  /\ cleared \in [Tabs -> BOOLEAN] /\ ever \in [Tabs -> BOOLEAN]

Init ==
  /\ sender = [s \in Sigs |-> "none"] /\ landed = {} /\ storage = {} /\ log = [t \in Tabs |-> {}]
  /\ history = [t \in Tabs |-> {}] /\ busy = [t \in Tabs |-> Idle] /\ who = [t \in Tabs |-> "none"]
  /\ asked = [t \in Tabs |-> "none"]
  /\ loads = 0 /\ alone = TRUE
  /\ cleared = [t \in Tabs |-> FALSE] /\ ever = [t \in Tabs |-> FALSE]

(* A list that got longer is stored as the tab has it; storage may refuse.             *)
Save(t, list) ==
  \/ storage' = list /\ alone' = (alone /\ storage = history[t])
  \/ storage' = storage /\ alone' = FALSE

(* Mutant: what the list has already is not looked for.                             *)
Scrape_All(t, lines, list) ==
  LET add == {Entry(s, "session") : s \in lines}
  IN IF add = {} THEN history' = [history EXCEPT ![t] = list] /\ UNCHANGED <<storage, alone>>
     ELSE history' = [history EXCEPT ![t] = list \cup add] /\ Save(t, list \cup add)

(* The effect on the log: every line of it is looked through again.                   *)
Scrape(t, lines, list) ==
  LET add == {Entry(s, "session") : s \in lines \ SigsOf(list)}
  IN IF add = {} /\ list = history[t] THEN UNCHANGED <<history, storage, alone>>
     ELSE history' = [history EXCEPT ![t] = list \cup add] /\ Save(t, list \cup add)

(* append, of a line with signatures or without.                                  *)
Append(t, sigs, list) ==
  /\ log' = [log EXCEPT ![t] = @ \cup sigs] /\ Scrape(t, log[t] \cup sigs, list)
  /\ cleared' = [cleared EXCEPT ![t] = FALSE]
  /\ UNCHANGED <<who, loads, ever>>
Line(t) == Append(t, {}, history[t])
Free(t) == who[t] # "none" /\ busy[t] = Idle /\ asked[t] = "none"

-----------------------------------------------------------------------------
(* A handler: its prompt, its transaction, which may land after it gave up, and its line.   *)
Submit(t, s) ==
  /\ Free(t) /\ sender[s] = "none"
  /\ busy' = [busy EXCEPT ![t] = s] /\ sender' = [sender EXCEPT ![s] = who[t]]
  /\ Line(t) /\ UNCHANGED <<landed, asked>>

Land(s) ==
  /\ sender[s] # "none" /\ s \notin landed /\ landed' = landed \cup {s}
  /\ UNCHANGED <<sender, storage, log, history, busy, asked, who, loads, cleared, ever, alone>>

Landed(t) ==
  /\ busy[t] \in landed
  /\ Append(t, {busy[t]}, history[t]) /\ busy' = [busy EXCEPT ![t] = Idle] /\ UNCHANGED <<sender, landed, asked>>

Failed(t) ==
  /\ busy[t] \in Sigs /\ Line(t) /\ busy' = [busy EXCEPT ![t] = Idle] /\ UNCHANGED <<sender, landed, asked>>

(* My Open Positions, and Inspect: reads that end in lines.                           *)
RunPositions(t) ==
  /\ Free(t) /\ Line(t)
  /\ busy' = [busy EXCEPT ![t] = "reads"] /\ UNCHANGED <<sender, landed, asked>>
RunInspect(t) == RunPositions(t)
ReadsEnd(t) == busy[t] = "reads" /\ Line(t) /\ busy' = [busy EXCEPT ![t] = Idle] /\ UNCHANGED <<sender, landed, asked>>

(* Read synthetic state, also while a handler runs, and copyResults.                   *)
ReadState(t) == (who[t] # "none" \/ log[t] # {}) /\ Line(t) /\ UNCHANGED <<sender, landed, busy, asked>>

(* Mutant: the button is there while a handler runs.                               *)
LoadOnChainHistory_AnyTime(t) ==
  /\ who[t] # "none" /\ asked' = [asked EXCEPT ![t] = who[t]]
  /\ UNCHANGED <<sender, landed, storage, log, history, busy, who, loads, cleared, ever, alone>>

(* Load all from chain, whose answer is the wallet's, executed until then; or none comes.    *)
LoadOnChainHistory(t) ==
  /\ Free(t) /\ asked' = [asked EXCEPT ![t] = who[t]]
  /\ UNCHANGED <<sender, landed, storage, log, history, busy, who, loads, cleared, ever, alone>>

ChainAnswers(t) ==
  /\ asked[t] \in Wallets /\ asked' = [asked EXCEPT ![t] = "none"] /\ UNCHANGED <<sender, landed, busy>>
  /\ LET mine == {s \in landed : sender[s] = asked[t]}
         add == {Entry(s, "chain") : s \in mine \ SigsOf(history[t])}
     IN Append(t, {}, history[t] \cup add) \/ Line(t)

-----------------------------------------------------------------------------
ClearHistory(t) ==
  /\ history[t] # {}
  /\ history' = [history EXCEPT ![t] = {}]
  /\ storage' = {} /\ alone' = (alone /\ storage = history[t])
  /\ cleared' = [cleared EXCEPT ![t] = TRUE] /\ ever' = [ever EXCEPT ![t] = TRUE]
  /\ UNCHANGED <<sender, landed, log, busy, asked, who, loads>>

ClearLog(t) ==
  /\ log[t] # {} /\ log' = [log EXCEPT ![t] = {}]
  /\ UNCHANGED <<sender, landed, storage, history, busy, asked, who, loads, cleared, ever, alone>>

(* A load of the page: the log is empty, and the list is what is stored.                *)
Load(t) ==
  /\ loads < MaxLoads /\ loads' = loads + 1
  /\ log' = [log EXCEPT ![t] = {}] /\ history' = [history EXCEPT ![t] = storage]
  /\ busy' = [busy EXCEPT ![t] = Idle] /\ asked' = [asked EXCEPT ![t] = "none"]
  /\ cleared' = [cleared EXCEPT ![t] = FALSE]
  /\ ever' = [ever EXCEPT ![t] = FALSE]
  /\ UNCHANGED <<sender, landed, storage, who, alone>>

(* The list is not the wallet's.                                                  *)
Switch(t) ==
  /\ \E w \in Wallets \cup {"none"} : w # who[t] /\ who' = [who EXCEPT ![t] = w]
  /\ UNCHANGED <<sender, landed, storage, log, history, busy, asked, loads, cleared, ever, alone>>

Next ==
  \/ \E s \in Sigs : Land(s)
  \/ \E t \in Tabs :
       \/ (\E s \in Sigs : Submit(t, s)) \/ Landed(t) \/ Failed(t) \/ RunPositions(t) \/ RunInspect(t) \/ ReadsEnd(t)
       \/ ReadState(t) \/ LoadOnChainHistory(t) \/ ChainAnswers(t) \/ ClearHistory(t) \/ ClearLog(t) \/ Load(t) \/ Switch(t)

-----------------------------------------------------------------------------
(* Properties.                                                             *)

(* A transaction is listed once, whether it was scraped, loaded from the chain or read back,  *)
(* and only if it landed ("every landed tx appears here").                            *)
ListedOnce ==
  \A t \in Tabs : \A entries \in {history[t], storage} :
    /\ \A d, e \in entries : d.sig = e.sig => d = e
    /\ SigsOf(entries) \subseteq landed

(* What the log says landed is listed, unless the list was cleared after the last line; and     *)
(* under the label it has in the log, unless the list was cleared since the page was loaded      *)
(* ("session labels win").                                                         *)
LoggedIsListed ==
  \A t \in Tabs : \A s \in log[t] :
    /\ s \in SigsOf(history[t]) \/ cleared[t]
    /\ Entry(s, "chain") \in history[t] => ever[t]

(* A reload brings back what was listed ("survives portal reloads"), as long as the other tabs    *)
(* stored nothing and storage took everything.                                        *)
Survives == alone => \A t \in Tabs : history[t] = storage \/ \E u \in Tabs \ {t} : history[u] = storage

HistoryIsRight == ListedOnce /\ LoggedIsListed /\ Survives
=============================================================================
