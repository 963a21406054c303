----------------------------- MODULE AltLifecycle -----------------------------
(***************************************************************************)
(* A user's address lookup tables: lib/solana/alt.ts and the alt-registry   *)
(* program.                                                                *)
(*                                                                         *)
(* A heavy transaction needs a table that holds the accounts it touches.    *)
(* ensureAlt finds the table in the device's local storage or, for the      *)
(* cache keys that name a Comet, through the pointer the registry keeps on   *)
(* chain, and completes it; or it creates one, registers it in the same     *)
(* transaction, and fills it in chunks, each with a wallet prompt of its     *)
(* own.  The tab can be closed between any two steps, another device of the  *)
(* same wallet can do the same at the same time, a transaction can land      *)
(* after its caller gave it up, and the node that answers may lag.          *)
(***************************************************************************)
EXTENDS Naturals, FiniteSets

CONSTANTS
  Tabs,        \* open tabs of one wallet
  On,          \* On[t]: the device of tab t, which has one local storage
  Keys,        \* cache keys
  Registered,  \* those that name a Comet (parseCometFromCacheKey)
  Wants,       \* account sets that a flow may ask for
  Tables,      \* addresses of tables
  NoTable,
  FirstN,      \* accounts in the creating transaction (15 or 18)
  ChunkN,      \* accounts in an extending transaction (20)
  MaxReloads   \* bound: tabs closed in the middle of a call

VARIABLES
  table,    \* table[x]: what table x holds on chain, {} before it exists
  pointer,  \* pointer[k]: what the registry maps k to
  seen,     \* the same two as the node answers them: they may lag
  local,    \* local[d][k]: local storage
  net,      \* transactions sent and not executed
  call,     \* call[t]: the ensureAlt call of tab t
  reloads

vars == <<table, pointer, seen, local, net, call, reloads>>
chainVars == <<table, pointer>>

Devices == {On[t] : t \in Tabs}
Accts == UNION Wants
MaybeTable == Tables \cup {NoTable}

Tx == [table: Tables, adds: SUBSET Accts, key: Keys, creates: BOOLEAN]
NoTx == [table |-> NoTable, adds |-> {}]
Resting == {"idle", "done"}
Call == [pc: {"reuse", "pointer", "create", "popup", "sent", "await"} \cup Resting,
         key: Keys, want: SUBSET Accts,
         from: {"local", "pointer", "create"},  \* where the table comes from
         table: MaybeTable,
         rest: SUBSET Accts,                    \* accounts still to be added
         tx: Tx \cup {NoTx}, landed: BOOLEAN,
         knew: BOOLEAN]                         \* history: it began with a registered table in sight

TypeOK ==
  /\ table \in [Tables -> SUBSET Accts] /\ pointer \in [Registered -> MaybeTable]
  /\ seen.table \in [Tables -> SUBSET Accts] /\ seen.pointer \in [Registered -> MaybeTable]
  /\ local \in [Devices -> [Keys -> MaybeTable]]
  /\ net \subseteq Tx /\ call \in [Tabs -> Call] /\ reloads \in 0 .. MaxReloads

Idle == [pc |-> "idle", key |-> CHOOSE k \in Keys : TRUE, want |-> {}, from |-> "local",
         table |-> NoTable, rest |-> {}, tx |-> NoTx, landed |-> FALSE,
         knew |-> FALSE]

Init ==
  /\ table = [x \in Tables |-> {}] /\ pointer = [k \in Registered |-> NoTable]
  /\ seen = [table |-> table, pointer |-> pointer]
  /\ local = [d \in Devices |-> [k \in Keys |-> NoTable]]
  /\ net = {} /\ call = [t \in Tabs |-> Idle] /\ reloads = 0

-----------------------------------------------------------------------------
(* The chain and the node.                                                 *)

(* process_instruction: the pointer is created, or overwritten.             *)
SetAlt(x) == IF x.key \in Registered THEN [pointer EXCEPT ![x.key] = x.table] ELSE pointer

(* A transaction executes: create, extend and set_alt all or nothing.        *)
Land(x) ==
  /\ x \in net
  /\ net' = net \ {x}
  /\ table' = [table EXCEPT ![x.table] = @ \cup x.adds]
  /\ pointer' = IF x.creates THEN SetAlt(x) ELSE pointer
  /\ call' = [t \in Tabs |->
                IF call[t].pc = "sent" /\ call[t].tx = x
                THEN [call[t] EXCEPT !.landed = TRUE] ELSE call[t]]
  /\ UNCHANGED <<seen, local, reloads>>

(* The node catches up.                                                    *)
Sync ==
  /\ seen' = [table |-> table, pointer |-> pointer]
  /\ seen' # seen
  /\ UNCHANGED <<table, pointer, local, net, call, reloads>>

-----------------------------------------------------------------------------
(* ensureAlt.  `Become` is a step of tab t's call, `Keep` one that leaves    *)
(* the rest of the world alone.                                            *)
Become(t, r) == call' = [call EXCEPT ![t] = r]
Keep == UNCHANGED <<table, pointer, seen, net, reloads>>

(* localStorage.setItem                                                    *)
Remember(t, x) == local' = [local EXCEPT ![On[t]][call[t].key] = x]

(* The call returns its table; one that the pointer led to is remembered.     *)
Return(t) ==
  /\ Become(t, [Idle EXCEPT !.pc = "done", !.key = call[t].key, !.want = call[t].want,
                            !.table = call[t].table])
  /\ IF call[t].from = "pointer" THEN Remember(t, call[t].table) ELSE UNCHANGED local

(* Where ensureAlt looks next.                                             *)
AfterMiss(from, k) == IF from = "local" /\ k \in Registered THEN "pointer" ELSE "create"

(* A table's address depends on the slot, so that every attempt has its own. *)
Fresh(x) == /\ table[x] = {} /\ \A y \in net : y.table # x
            /\ \A t \in Tabs : call[t].pc \in {"popup", "sent"} => call[t].table # x

(* Bound: a call starts only while there is a table left for it to create.   *)
Looking == {"reuse", "pointer", "create"}
TableLeft == Cardinality({t \in Tabs : call[t].pc \in Looking}) < Cardinality({x \in Tables : Fresh(x)})

Start(t, k, want) ==
  LET known == local[On[t]][k]
  IN /\ call[t].pc \in Resting /\ TableLeft
     /\ Become(t, [Idle EXCEPT
          !.pc = IF known # NoTable THEN "reuse" ELSE AfterMiss("local", k),
          !.key = k, !.want = want, !.table = known,
          !.knew = /\ k \in Registered /\ seen.pointer[k] # NoTable
                   /\ seen.table[seen.pointer[k]] # {}])
     /\ UNCHANGED local /\ Keep

(* readAltPointer                                                          *)
ReadPointer(t) ==
  LET x == seen.pointer[call[t].key]
  IN /\ call[t].pc = "pointer"
     /\ Become(t, IF x = NoTable THEN [call[t] EXCEPT !.pc = "create"]
                  ELSE [call[t] EXCEPT !.pc = "reuse", !.from = "pointer", !.table = x])
     /\ UNCHANGED local /\ Keep

(* slice: the next n of `rest`, or what there is.                           *)
Chunk(n, rest) ==
  CHOOSE adds \in SUBSET rest :
    Cardinality(adds) = IF Cardinality(rest) < n THEN Cardinality(rest) ELSE n

Ask(t, rest, adds, creates, x) ==
  [call[t] EXCEPT !.pc = "popup", !.table = x, !.rest = rest \ adds, !.landed = FALSE,
                  !.tx = [table |-> x, adds |-> adds, key |-> call[t].key, creates |-> creates]]

(* reuseOrExtend                                                           *)
ReuseOrExtend(t) ==
  LET c == call[t]
      has == seen.table[c.table]
      missing == c.want \ has
  IN /\ c.pc = "reuse"
     /\ CASE has = {} -> /\ Become(t, [c EXCEPT !.pc = AfterMiss(c.from, c.key)])
                         /\ UNCHANGED local
          [] has # {} /\ missing = {} -> Return(t)
          [] OTHER -> /\ Become(t, Ask(t, missing, Chunk(ChunkN, missing), FALSE, c.table))
                      /\ UNCHANGED local
     /\ Keep

Create(t) ==
  /\ call[t].pc = "create"
  /\ LET x == CHOOSE y \in Tables : Fresh(y)
         first == Chunk(FirstN, call[t].want)
     IN Become(t, [Ask(t, call[t].want, first, TRUE, x) EXCEPT !.from = "create"])
  /\ UNCHANGED local /\ Keep

(* sendLegacy: the wallet signs and the transaction is sent, or the call     *)
(* throws.                                                                 *)
Sign(t) ==
  /\ call[t].pc = "popup"
  /\ Become(t, [call[t] EXCEPT !.pc = "sent"])
  /\ net' = net \cup {call[t].tx}
  /\ UNCHANGED <<table, pointer, seen, local, reloads>>

Reject(t) ==
  /\ call[t].pc = "popup"
  /\ Become(t, Idle)
  /\ UNCHANGED local /\ Keep

(* Mutant: a call that has added one chunk is taken for done.               *)
Confirm_OneChunk(t) ==
  /\ call[t].pc = "sent" /\ call[t].landed
  /\ Become(t, [call[t] EXCEPT !.pc = "await", !.rest = {}])
  /\ IF call[t].tx.creates THEN Remember(t, call[t].table) ELSE UNCHANGED local
  /\ Keep

(* sendLegacy returns: a created table is remembered before it is filled,    *)
(* and the rest of the accounts follows chunk by chunk.                     *)
Confirm(t) ==
  LET c == call[t]
  IN /\ c.pc = "sent" /\ c.landed
     /\ IF c.rest = {} THEN Become(t, [c EXCEPT !.pc = "await"])
        ELSE Become(t, Ask(t, c.rest, Chunk(ChunkN, c.rest), FALSE, c.table))
     /\ IF c.tx.creates THEN Remember(t, c.table) ELSE UNCHANGED local
     /\ Keep

(* Mutant: the block height is not looked at.                               *)
GiveUp_Never(t) == FALSE /\ UNCHANGED vars

(* sendLegacy throws: the blockhash is over.  The transaction has landed     *)
(* since the last look, or it never will; a refused one is no different.     *)
GiveUp(t) ==
  /\ call[t].pc = "sent"
  /\ Become(t, Idle)
  /\ net' = net \ {call[t].tx}
  /\ UNCHANGED <<table, pointer, seen, local, reloads>>

(* awaitActive: any key will do.  The table is returned as the node answers   *)
(* it after one more look, which may be without the last accounts.           *)
AwaitActive(t) ==
  /\ call[t].pc = "await"
  /\ seen.table[call[t].table] # {}
  /\ Return(t)
  /\ Keep

(* "ALT never became active", or for a table that was found, as if it were    *)
(* not there.                                                              *)
NeverActive(t) ==
  /\ call[t].pc = "await" /\ seen.table[call[t].table] = {}
  /\ Become(t, IF call[t].from = "create" THEN Idle
               ELSE [call[t] EXCEPT !.pc = AfterMiss(call[t].from, call[t].key)])
  /\ UNCHANGED local /\ Keep

(* The tab is closed or reloaded, or a poll of sendLegacy fails: the call is   *)
(* gone, its transaction is not.                                           *)
Reload(t) ==
  /\ call[t].pc \notin Resting /\ reloads < MaxReloads
  /\ reloads' = reloads + 1
  /\ Become(t, Idle)
  /\ UNCHANGED <<table, pointer, seen, local, net>>

-----------------------------------------------------------------------------
Progress(t) ==
  ReadPointer(t) \/ ReuseOrExtend(t) \/ Create(t) \/ Confirm(t) \/ GiveUp(t) \/ AwaitActive(t)

Next ==
  \/ Sync
  \/ \E x \in net : Land(x)
  \/ \E t \in Tabs :
       \/ \E k \in Keys, want \in Wants : Start(t, k, want)
       \/ Progress(t) \/ Sign(t) \/ Reject(t) \/ NeverActive(t) \/ Reload(t)

(* Timers and promises go on, and the node catches up; nobody has to sign.   *)
Fairness == WF_vars(Sync) /\ \A t \in Tabs : WF_vars(Progress(t))

Spec == Init /\ [][Next]_vars /\ Fairness

-----------------------------------------------------------------------------
(* Properties.                                                             *)

(* A table that ensureAlt returns holds, on chain, all that was asked for,    *)
(* whatever tab was closed or transaction lost while it was being filled     *)
(* (reuseOrExtend, extend).                                                *)
ReturnedIsComplete == \A t \in Tabs : call[t].pc = "done" => call[t].want \subseteq table[call[t].table]

(* What one device remembers every device finds: a table in local storage    *)
(* exists, and the registry leads to one too (create and set_alt in one      *)
(* transaction, local storage after it).                                    *)
RememberedIsFindable ==
  \A d \in Devices, k \in Keys :
    local[d][k] # NoTable =>
      /\ table[local[d][k]] # {}
      /\ k \in Registered => pointer[k] # NoTable /\ table[pointer[k]] # {}

(* And what every device finds it uses: a call that begins with a registered  *)
(* table in sight never creates another one, also on a device that remembers  *)
(* none (altRegistry.ts: "how a returning user rediscovers their ALT").       *)
RegisteredIsReused ==
  /\ RememberedIsFindable
  /\ \A t \in Tabs : call[t].knew => call[t].from # "create" /\ call[t].pc # "create"

(* A call waits for nobody but the wallet: it ends or asks (the height check  *)
(* of sendLegacy, the bounded retries of awaitActive).                      *)
Asks(t) == call[t].pc \in Resting \cup {"popup"}
EnsureEnds == \A t \in Tabs : []<>Asks(t)
=============================================================================
