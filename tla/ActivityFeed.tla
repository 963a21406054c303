---------------------------- MODULE ActivityFeed ----------------------------
(***************************************************************************)
(* The activity list of both lanes: lib/portal/activity.ts reads the Comet's  *)
(* logs, lib/lane/laneActivity.ts joins them with the rows the lane adds      *)
(* itself when one of its submissions succeeds.                             *)
(*                                                                         *)
(* The Solana lane cancels a read when it starts another or the account       *)
(* changes; the EVM lane does not, and several can be under way.  Neither       *)
(* waits for a running submission when the user disconnects or switches.      *)
(*                                                                         *)
(* One log per block; a log is the set of accounts it touches.               *)
(***************************************************************************)
EXTENDS Naturals, Sequences, FiniteSets

CONSTANTS
  Users, NoUser,
  Asks,         \* reads that can be under way at a time
  Lookback,     \* blocks looked back
  MaxEntries,   \* rows of a read
  Cap,          \* rows listed
  MaxHead       \* bound: blocks

VARIABLES
  side,     \* the lane: "sol" or "evm"
  who,      \* the connected account
  logs,     \* the Comet's logs, one per block
  own,      \* optimistic rows, newest first
  fetched,  \* rows of the last answer, as the blocks they are of
  ask,      \* ask[a]: a read, with what the node answered it
  busy,     \* accounts with a submission under way
  since     \* history: accounts connected, or still submitting, since the last disconnection

vars == <<side, who, logs, own, fetched, ask, busy, since>>

Tip == Len(logs)
NoAsk == [user |-> NoUser, rows |-> {}]
Rows == SUBSET (1 .. MaxHead)

FeedTypeOK ==
  /\ who \in Users \cup {NoUser} /\ logs \in UNION {[1 .. n -> SUBSET Users] : n \in 0 .. MaxHead}
  /\ Len(own) <= Cap /\ \A i \in DOMAIN own : own[i] \in Users
  /\ fetched \in Rows /\ Cardinality(fetched) <= MaxEntries
  /\ ask \in [Asks -> [user: Users \cup {NoUser}, rows: Rows]] /\ busy \subseteq Users /\ since \subseteq Users

Init ==
  /\ side \in {"sol", "evm"} /\ who \in Users /\ logs = <<>>
  /\ own = <<>> /\ fetched = {} /\ ask = [a \in Asks |-> NoAsk]
  /\ busy = {} /\ since = {who}

(* parseActivityLog: a log that touches the account.                        *)
Touches(n, u) == u \in logs[n]

(* fetchRecentActivity: the newest of those in the window.                   *)
Newest(u) ==
  LET from == IF Tip > Lookback THEN Tip - Lookback ELSE 1
      mine == {n \in from .. Tip : Touches(n, u)}
  IN {n \in mine : Cardinality({k \in mine : k > n}) < MaxEntries}

(* mergeActivity: own rows first; their ids never meet those of logs.         *)
Listed == LET n == Len(own) + Cardinality(fetched) IN IF n < Cap THEN n ELSE Cap

-----------------------------------------------------------------------------
(* A block.                                                                *)
Mine(us) ==
  /\ Tip < MaxHead
  /\ logs' = Append(logs, us)
  /\ UNCHANGED <<side, who, own, fetched, ask, busy, since>>

Free == {a \in Asks : ask[a] = NoAsk}
Drop == [a \in Asks |-> NoAsk]

Start(base, a, u) == [base EXCEPT ![a] = [user |-> u, rows |-> Newest(u)]]

(* The position changed, and the effect on positionQuery.data or activityLookup     *)
(* runs again, or an action of the EVM lane succeeded.  Nothing else asks: a         *)
(* position that is read again and is the same as before is the same object.       *)
Refresh ==
  /\ who # NoUser
  /\ IF side = "sol"
     THEN \E a \in Asks : ask' = Start(Drop, a, who)
     ELSE \E a \in Free : ask' = Start(ask, a, who)
  /\ UNCHANGED <<side, who, logs, own, fetched, busy, since>>

Answer(a) ==
  /\ ask[a] # NoAsk
  /\ fetched' = ask[a].rows
  /\ ask' = [ask EXCEPT ![a] = NoAsk]
  /\ UNCHANGED <<side, who, logs, own, busy, since>>

(* The catch: what was listed stays.                                         *)
FailFetch(a) ==
  /\ ask[a] # NoAsk
  /\ ask' = [ask EXCEPT ![a] = NoAsk]
  /\ UNCHANGED <<side, who, logs, own, fetched, busy, since>>

(* The wallet's account changes.  The EVM lane reads at once, or empties the   *)
(* list when nobody is connected; the Solana lane cancels, and waits for the    *)
(* new position.                                                           *)
Switch(u) ==
  /\ u # who /\ Free # {}
  /\ who' = u /\ since' = since \cup ({u} \ {NoUser})
  /\ IF side = "sol" THEN ask' = Drop /\ UNCHANGED fetched
     ELSE IF u = NoUser THEN fetched' = {} /\ UNCHANGED ask
     ELSE (\E a \in Free : ask' = Start(ask, a, u)) /\ UNCHANGED fetched
  /\ UNCHANGED <<side, logs, own, busy>>

(* Mutant: the rows of the account that leaves stay.                          *)
Disconnect_KeepOwn ==
  /\ who # NoUser
  /\ who' = NoUser
  /\ IF side = "sol" THEN ask' = Drop /\ UNCHANGED fetched ELSE fetched' = {} /\ UNCHANGED ask
  /\ since' = busy /\ UNCHANGED <<side, logs, busy, own>>

(* disconnectFn                                                            *)
Disconnect ==
  /\ who # NoUser
  /\ who' = NoUser /\ own' = <<>>
  /\ IF side = "sol" THEN ask' = Drop /\ UNCHANGED fetched ELSE fetched' = {} /\ UNCHANGED ask
  /\ since' = busy /\ UNCHANGED <<side, logs, busy>>

(* A submission begins, one at a time for an account.                        *)
Submit ==
  /\ who # NoUser /\ busy = {}
  /\ busy' = {who}
  /\ UNCHANGED <<side, who, logs, own, fetched, ask, since>>

(* recordSuccess, and the EVM lane's success row: whoever is connected.        *)
Record(u) ==
  /\ u \in busy
  /\ own' = SubSeq(<<u>> \o own, 1, IF Len(own) < Cap THEN Len(own) + 1 ELSE Cap)
  /\ busy' = busy \ {u}
  /\ UNCHANGED <<side, who, logs, fetched, ask, since>>

(* It failed.                                                              *)
Abandon(u) ==
  /\ u \in busy
  /\ busy' = busy \ {u}
  /\ UNCHANGED <<side, who, logs, own, fetched, ask, since>>

Next ==
  \/ Refresh \/ Disconnect \/ Submit
  \/ \E us \in SUBSET Users : us # {} /\ Mine(us)
  \/ \E a \in Asks : Answer(a) \/ FailFetch(a)
  \/ \E u \in Users \cup {NoUser} : Switch(u)
  \/ \E u \in Users : Record(u) \/ Abandon(u)

(* A read ends, and an RPC that is asked again and again answers in the end.  There   *)
(* is no timer: nothing says that Refresh ever happens.                        *)
Fairness ==
  /\ \A a \in Asks : WF_vars(Answer(a) \/ FailFetch(a))
  /\ SF_vars(\E a \in Asks : Answer(a))

Spec == Init /\ [][Next]_vars /\ Fairness

-----------------------------------------------------------------------------
(* Properties.                                                             *)

(* On the Solana lane what is still to be answered is about the connected      *)
(* account, and only one read is (the effect's `cancelled`).                  *)
ReadsAreMine ==
  side = "sol" =>
    /\ \A a \in Asks : ask[a] = NoAsk \/ ask[a].user = who
    /\ Cardinality(Asks \ Free) <= 1

(* After a disconnection no row of before it comes back, but the success of a   *)
(* submission that still ran (disconnectFn, recordSuccess).                   *)
RowsAreOfThisSession == \A i \in DOMAIN own : own[i] \in since

(* Whoever stays connected, and whose position goes on changing, is in the end shown  *)
(* the newest of what touches him and nothing else, whatever answers are late           *)
(* (refreshActivity, the Solana lane's effect).  Where it does not, what another        *)
(* account was listed, or an older answer, may stay.                           *)
IsCurrent(u) == fetched = Newest(u)
FeedSettles ==
  \A u \in Users : <>[](who = u) /\ []<><<Refresh>>_vars => <>[]IsCurrent(u)
=============================================================================
