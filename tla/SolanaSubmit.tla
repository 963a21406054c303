---------------------------- MODULE SolanaSubmit ----------------------------
(***************************************************************************)
(* One transaction of the Solana lane, from the nonce read to its verdict: *)
(* lib/solana/submit.ts (submitDoTxUnsigned, submitV0Instructions and      *)
(* pollConfirmation), as called leg by leg by lib/lane/useSolanaLane.ts    *)
(* (submitCall, submitOverAlt).                                            *)
(*                                                                         *)
(* An attempt is one such call for one synthetic account: a leg of a flow, *)
(* or the user's retry of one.  The cluster is external and modelled by    *)
(* what an RPC shows of it: a chain of blocks whose tip may fork back to   *)
(* the confirmed height, a transaction that is included at most once while *)
(* its blockhash is valid, and Rome EVM's check that the nonce signed is   *)
(* the account's count.  An HTTP call may throw after it did its work.     *)
(***************************************************************************)
EXTENDS Integers, FiniteSets

CONSTANTS
  Attempts,    \* calls of submitCall / submitOverAlt (bounds a behaviour)
  Window,      \* how many blocks a blockhash stays valid
  MaxBlocks    \* height of the last block (a bound)

ASSUME SubmitAssumption ==
  /\ IsFiniteSet(Attempts)
  /\ Window \in Nat
  /\ MaxBlocks \in Nat

VARIABLES
  tip,    \* height of the last processed block
  conf,   \* height of the last confirmed block
  tx,     \* tx[a]: what the cluster knows of a's transaction
  att     \* att[a]: the state of the call

chainVars == <<tip, conf>>
vars == <<tip, conf, tx, att>>

Height == 0 .. MaxBlocks
InFlightPc == {"nonce", "hash", "popup", "send", "status", "height"}
Pc == {"idle", "ok", "failed"} \cup InFlightPc
Why == {"none",       \* no failure
        "early",      \* before the transaction was sent
        "send",       \* sendRawTransaction threw
        "rpc",        \* a poll threw
        "reverted",   \* the status carried an error
        "expired"}    \* the confirmed height passed the last valid one

TxState == [sent: BOOLEAN,                        \* relayed to the cluster
            slot: Height,                         \* block that includes it, 0 if none
            err: {"none", "nonce", "revert"}]     \* how it executed there
AttState == [pc: Pc, nonce: Nat, expiry: Nat, why: Why]

TypeOK ==
  /\ tip \in Height
  /\ conf \in Height
  /\ tx \in [Attempts -> TxState]
  /\ att \in [Attempts -> AttState]

Init ==
  /\ tip = 0
  /\ conf = 0
  /\ tx = [a \in Attempts |-> [sent |-> FALSE, slot |-> 0, err |-> "none"]]
  /\ att = [a \in Attempts |-> [pc |-> "idle", nonce |-> 0, expiry |-> 0, why |-> "none"]]

InFlight(a) == att[a].pc \in InFlightPc
Polling(a) == att[a].pc \in {"status", "height"}
Included(a, h) == tx[a].slot \in 1 .. h
Effective(a) == Included(a, conf) /\ tx[a].err = "none"

(* eth_getTransactionCount as of block h.                                   *)
Count(h) == Cardinality({a \in Attempts : Included(a, h) /\ tx[a].err = "none"})

Goto(a, pc) == att' = [att EXCEPT ![a].pc = pc]
FailAs(a, why) == att' = [att EXCEPT ![a].pc = "failed", ![a].why = why]

-----------------------------------------------------------------------------
(* The client.                                                             *)

(* Each leg awaits the one before it, and the signing screen keeps the user *)
(* from a second action while one runs.                                    *)
Start(a) ==
  /\ att[a].pc = "idle"
  /\ \A b \in Attempts : ~InFlight(b)
  /\ Goto(a, "nonce")
  /\ UNCHANGED <<chainVars, tx>>

(* Mutant: the nonce of the last transaction, not the next.                 *)
ReadNonce_Last(a) ==
  /\ att[a].pc = "nonce"
  /\ \E h \in {conf, tip} :
       att' = [att EXCEPT ![a].pc = "hash", ![a].nonce = Count(h) - 1]
  /\ UNCHANGED <<chainVars, tx>>

(* getTransactionCount: the count of the confirmed or of the processed      *)
(* chain, as the Rome RPC prefers.                                         *)
ReadNonce(a) ==
  /\ att[a].pc = "nonce"
  /\ \E h \in {conf, tip} :
       att' = [att EXCEPT ![a].pc = "hash", ![a].nonce = Count(h)]
  /\ UNCHANGED <<chainVars, tx>>

(* getLatestBlockhash at the connection's commitment, "confirmed".  The     *)
(* last guard is the bound: the model's chain is long enough to expire it.  *)
ReadBlockhash(a) ==
  /\ att[a].pc = "hash"
  /\ conf + Window < MaxBlocks
  /\ att' = [att EXCEPT ![a].pc = "popup", ![a].expiry = conf + Window]
  /\ UNCHANGED <<chainVars, tx>>

Sign(a) ==
  /\ att[a].pc = "popup"
  /\ Goto(a, "send")
  /\ UNCHANGED <<chainVars, tx>>

(* A read or the discovery throws, or the popup is rejected.                *)
Abandon(a) ==
  /\ att[a].pc \in {"nonce", "hash", "popup"}
  /\ FailAs(a, "early")
  /\ UNCHANGED <<chainVars, tx>>

Send(a) ==
  /\ att[a].pc = "send"
  /\ tx' = [tx EXCEPT ![a].sent = TRUE]
  /\ Goto(a, "status")
  /\ UNCHANGED chainVars

(* sendRawTransaction throws: the preflight refused the transaction, or the *)
(* answer of a relayed one was lost.                                       *)
SendThrows(a) ==
  /\ att[a].pc = "send"
  /\ \E relayed \in BOOLEAN : tx' = [tx EXCEPT ![a].sent = relayed]
  /\ FailAs(a, "send")
  /\ UNCHANGED chainVars

(* Mutant: a processed transaction counts as confirmed.                     *)
PollStatus_AcceptsProcessed(a) ==
  /\ att[a].pc = "status"
  /\ \/ Included(a, tip) /\ tx[a].err # "none" /\ FailAs(a, "reverted")
     \/ Included(a, tip) /\ tx[a].err = "none" /\ Goto(a, "ok")
     \/ ~Included(a, tip) /\ Goto(a, "height")
  /\ UNCHANGED <<chainVars, tx>>

(* getSignatureStatuses: an error counts at any commitment, a success only  *)
(* when confirmed.                                                          *)
PollStatus(a) ==
  /\ att[a].pc = "status"
  /\ \/ Included(a, tip) /\ tx[a].err # "none" /\ FailAs(a, "reverted")
     \/ Effective(a) /\ Goto(a, "ok")
     \/ ~Effective(a) /\ (Included(a, tip) => tx[a].err = "none") /\ Goto(a, "height")
  /\ UNCHANGED <<chainVars, tx>>

(* Mutants: the processed height is compared; the height is not looked at.  *)
PollHeight_Processed(a) ==
  /\ att[a].pc = "height"
  /\ IF tip > att[a].expiry THEN FailAs(a, "expired") ELSE Goto(a, "status")
  /\ UNCHANGED <<chainVars, tx>>

PollHeight_Never(a) ==
  /\ att[a].pc = "height"
  /\ Goto(a, "status")
  /\ UNCHANGED <<chainVars, tx>>

(* getBlockHeight('confirmed'), read after the status.                      *)
PollHeight(a) ==
  /\ att[a].pc = "height"
  /\ IF conf > att[a].expiry THEN FailAs(a, "expired") ELSE Goto(a, "status")
  /\ UNCHANGED <<chainVars, tx>>

PollThrows(a) ==
  /\ Polling(a)
  /\ FailAs(a, "rpc")
  /\ UNCHANGED <<chainVars, tx>>

-----------------------------------------------------------------------------
(* The cluster (external).                                                 *)

CanInclude(a) == tx[a].sent /\ tx[a].slot = 0 /\ tip + 1 <= att[a].expiry

(* A block, with a's transaction or without.  It fails if its nonce is not  *)
(* the count, and Comet or the token program may refuse it.                 *)
Include(a) ==
  /\ tip < MaxBlocks
  /\ CanInclude(a)
  /\ tip' = tip + 1
  /\ \E err \in {"none", "nonce", "revert"} :
       /\ err = "nonce" <=> att[a].nonce # Count(tip)
       /\ tx' = [tx EXCEPT ![a].slot = tip + 1, ![a].err = err]
  /\ UNCHANGED <<conf, att>>

EmptyBlock ==
  /\ tip < MaxBlocks
  /\ tip' = tip + 1
  /\ UNCHANGED <<conf, tx, att>>

Confirm ==
  /\ conf < tip
  /\ conf' = conf + 1
  /\ UNCHANGED <<tip, tx, att>>

(* The blocks after h are abandoned; their transactions are free again.     *)
Fork(h) ==
  /\ h \in conf .. tip - 1
  /\ tip' = h
  /\ tx' = [a \in Attempts |->
              IF tx[a].slot > h THEN [tx[a] EXCEPT !.slot = 0, !.err = "none"] ELSE tx[a]]
  /\ UNCHANGED <<conf, att>>

-----------------------------------------------------------------------------
Poll(a) == PollStatus(a) \/ PollHeight(a) \/ PollThrows(a)
Client(a) ==
  \/ Start(a) \/ ReadNonce(a) \/ ReadBlockhash(a) \/ Sign(a) \/ Abandon(a)
  \/ Send(a) \/ SendThrows(a) \/ Poll(a)
Cluster ==
  \/ \E a \in Attempts : Include(a)
  \/ EmptyBlock \/ Confirm
  \/ \E h \in Height : Fork(h)

Next == (\E a \in Attempts : Client(a)) \/ Cluster

Spec == Init /\ [][Next]_vars

(* The poll loop is a timer that always fires again, and the cluster keeps  *)
(* producing blocks and, however often it forks, confirming them.           *)
FairSpec ==
  /\ Spec
  /\ \A a \in Attempts : WF_vars(Poll(a))
  /\ WF_vars(EmptyBlock)
  /\ SF_vars(Confirm)

-----------------------------------------------------------------------------
(* Properties.                                                             *)

(* A call that returned a signature has its transaction executed in a       *)
(* confirmed block, and no fork takes it back (pollConfirmation).           *)
SuccessIsConfirmed == \A a \in Attempts : att[a].pc = "ok" => Effective(a)

(* When the poll gives up on an expired blockhash, the transaction's fate   *)
(* is settled: it is never included, executed or dropped afterwards, so a   *)
(* retry cannot be overtaken by it.                                        *)
ExpiredIsFinal ==
  [][\A a \in Attempts : att[a].why = "expired" => tx'[a] = tx[a]]_vars

(* What protects a user who retries: once a later call succeeded, a failed  *)
(* call that had read no higher nonce never takes effect any more.          *)
SuccessSettlesRetries ==
  [][\A a, b \in Attempts :
       /\ att[a].pc = "failed" /\ att[b].pc = "ok"
       /\ att[a].nonce <= att[b].nonce
       /\ Effective(a)'
       => Effective(a)]_vars

(* Every poll loop ends: confirmed, failed or expired.                      *)
PollTerminates == \A a \in Attempts : Polling(a) ~> ~InFlight(a)

(* pollConfirmation: "not confirmed before blockhash expired".              *)
ExpiredWasNotConfirmed ==
  \A a \in Attempts : att[a].why = "expired" => ~Effective(a)

(* The call keeps the lane's promise: an attempt is an action that is       *)
(* worked on, takes effect at most once, and is reported.                   *)
Reported(pc) == IF pc = "ok" THEN "succeeded"
                ELSE IF pc \in InFlightPc THEN "working" ELSE pc
Contract == INSTANCE ActionContract WITH
  Actions <- Attempts,
  phase <- [a \in Attempts |-> Reported(att[a].pc)],
  effect <- [a \in Attempts |-> Effective(a)]
ContractSpec == Contract!Spec
=============================================================================
