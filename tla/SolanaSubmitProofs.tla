-------------------------- MODULE SolanaSubmitProofs --------------------------
(***************************************************************************)
(* Proofs about SolanaSubmit, for any number of attempts, any blockhash    *)
(* validity and any chain length.                                          *)
(*                                                                         *)
(* The inductive invariant says where a transaction can be in the chain:   *)
(* only a sent transaction is included, at most at its last valid height,  *)
(* each in a block of its own, no later than the tip; the confirmed height *)
(* is at most the tip; and a poll that gave up saw the confirmed height    *)
(* past the last valid one.                                                *)
(***************************************************************************)
EXTENDS SolanaSubmit, FiniteSetTheorems, TLAPS

ChainOK == conf <= tip
SlotOK ==
  \A a \in Attempts :
    /\ tx[a].slot <= tip
    /\ tx[a].slot # 0 => tx[a].sent /\ tx[a].slot <= att[a].expiry
SentOK ==
  \A a \in Attempts : tx[a].sent => att[a].pc \in {"status", "height", "ok", "failed"}
OwnBlock ==
  \A a, b \in Attempts : a # b /\ tx[a].slot # 0 => tx[a].slot # tx[b].slot
WhyOK ==
  \A a \in Attempts :
    /\ att[a].why # "none" => att[a].pc = "failed"
    /\ att[a].why = "expired" => conf > att[a].expiry

IInv == TypeOK /\ ChainOK /\ SlotOK /\ SentOK /\ OwnBlock /\ WhyOK /\ SuccessIsConfirmed

(* The account's count is a number: there are finitely many attempts.       *)
LEMMA CountType == \A h \in Height : Count(h) \in Nat
<1> TAKE h \in Height
<1> DEFINE S == {a \in Attempts : Included(a, h) /\ tx[a].err = "none"}
<1>1. S \subseteq Attempts
  OBVIOUS
<1>2. IsFiniteSet(S)
  BY <1>1, FS_Subset, SubmitAssumption
<1>3. Cardinality(S) \in Nat
  BY <1>2, FS_CardinalityType
<1> QED
  BY <1>3 DEF Count

LEMMA InitIInv == Init => IInv
BY SubmitAssumption
DEF Init, IInv, TypeOK, Height, TxState, AttState, Pc, InFlightPc, Why, ChainOK, SlotOK,
    SentOK, OwnBlock, WhyOK, SuccessIsConfirmed

(* One step of a call that only moves att[a]: what it must respect.         *)
LEMMA ClientStep ==
  ASSUME IInv, NEW a \in Attempts, NEW s \in AttState,
         UNCHANGED <<chainVars, tx>>,
         att' = [att EXCEPT ![a] = s],
         tx[a].sent => s.pc \in {"status", "height", "ok", "failed"} /\ s.expiry = att[a].expiry,
         s.why # "none" => s.pc = "failed",
         s.why = "expired" => conf > s.expiry,
         s.pc = "ok" => Effective(a)
  PROVE  IInv'
<1> USE DEF IInv
<1>1. att'[a] = s /\ \A b \in Attempts \ {a} : att'[b] = att[b]
  BY DEF TypeOK
<1>2. tx' = tx /\ tip' = tip /\ conf' = conf
  BY DEF chainVars
<1>3. TypeOK'
  BY <1>2 DEF TypeOK
<1>4. ChainOK'
  BY <1>2 DEF ChainOK
<1>5. SlotOK'
  BY <1>1, <1>2 DEF SlotOK
<1>6. SentOK'
  BY <1>1, <1>2 DEF SentOK
<1>7. OwnBlock'
  BY <1>2 DEF OwnBlock
<1>8. WhyOK'
  BY <1>1, <1>2 DEF WhyOK
<1>9. SuccessIsConfirmed'
  BY <1>1, <1>2 DEF SuccessIsConfirmed, Effective, Included
<1> QED
  BY <1>3, <1>4, <1>5, <1>6, <1>7, <1>8, <1>9

(* The two kinds of such steps: on to another stage, or to a failure.       *)
LEMMA GotoStep ==
  ASSUME IInv, NEW a \in Attempts, NEW pc \in Pc, Goto(a, pc), UNCHANGED <<chainVars, tx>>,
         att[a].pc # "failed",
         tx[a].sent => pc \in {"status", "height", "ok", "failed"},
         pc = "ok" => Effective(a)
  PROVE  IInv'
<1> DEFINE r == att[a]
<1>1. r \in AttState /\ r.why = "none"
  BY DEF IInv, TypeOK, WhyOK, AttState
<1>2. att' = [att EXCEPT ![a] = [r EXCEPT !.pc = pc]]
  BY <1>1 DEF Goto, IInv, TypeOK
<1> HIDE DEF r
<1> DEFINE s == [r EXCEPT !.pc = pc]
<1>3. s \in AttState /\ s.pc = pc /\ s.why = "none" /\ s.expiry = r.expiry
  BY <1>1 DEF AttState
<1> HIDE DEF s
<1>4. QED
  BY <1>2, <1>3, ClientStep DEF r, s

LEMMA FailStep ==
  ASSUME IInv, NEW a \in Attempts, NEW why \in Why, FailAs(a, why), UNCHANGED <<chainVars, tx>>,
         why = "expired" => conf > att[a].expiry
  PROVE  IInv'
<1> DEFINE r == att[a]
<1>1. r \in AttState
  BY DEF IInv, TypeOK
<1>2. att' = [att EXCEPT ![a] = [r EXCEPT !.pc = "failed", !.why = why]]
  BY <1>1 DEF FailAs, IInv, TypeOK
<1> HIDE DEF r
<1> DEFINE s == [r EXCEPT !.pc = "failed", !.why = why]
<1>3. s \in AttState /\ s.pc = "failed" /\ s.why = why /\ s.expiry = r.expiry
  BY <1>1 DEF AttState, Pc
<1> HIDE DEF s
<1>4. QED
  BY <1>2, <1>3, ClientStep DEF r, s

(* A send marks the transaction; the call then polls or has failed.         *)
LEMMA SendStep ==
  ASSUME IInv, NEW a \in Attempts, Send(a) \/ SendThrows(a)
  PROVE  IInv'
<1> DEFINE r == att[a]
           t == tx[a]
<1>1. r \in AttState /\ t \in TxState /\ r.pc = "send" /\ t.slot = 0 /\ r.why = "none"
  BY DEF IInv, TypeOK, WhyOK, SlotOK, SentOK, Send, SendThrows
<1>2. PICK s \in {[r EXCEPT !.pc = "status"], [r EXCEPT !.pc = "failed", !.why = "send"]} :
        att' = [att EXCEPT ![a] = s]
  BY DEF Send, SendThrows, Goto, FailAs
<1>3. PICK b \in BOOLEAN : tx' = [tx EXCEPT ![a] = [t EXCEPT !.sent = b]]
  BY DEF Send, SendThrows
<1>4. tip' = tip /\ conf' = conf
  BY DEF Send, SendThrows, chainVars
<1> HIDE DEF r, t
<1>5. /\ s \in AttState /\ s.expiry = r.expiry /\ s.pc \in {"status", "failed"}
      /\ s.why # "none" => s.pc = "failed"
      /\ s.why # "expired"
  BY <1>1 DEF AttState, Pc, InFlightPc, Why
<1> DEFINE u == [t EXCEPT !.sent = b]
<1>6. u \in TxState /\ u.slot = t.slot /\ u.err = t.err
  BY <1>1 DEF TxState
<1>7. att'[a] = s /\ \A c \in Attempts \ {a} : att'[c] = att[c]
  BY <1>2 DEF IInv, TypeOK
<1>8. tx'[a] = u /\ \A c \in Attempts \ {a} : tx'[c] = tx[c]
  BY <1>3 DEF IInv, TypeOK
<1> HIDE DEF u
<1>9. \A c \in Attempts : tx'[c].slot = tx[c].slot /\ tx'[c].err = tx[c].err
  BY <1>6, <1>8 DEF t
<1>10. TypeOK'
  BY <1>2, <1>3, <1>4, <1>5, <1>6 DEF IInv, TypeOK, u
<1>11. ChainOK' /\ OwnBlock'
  BY <1>4, <1>9 DEF IInv, ChainOK, OwnBlock
<1>12. SlotOK' /\ SentOK'
  BY <1>1, <1>4, <1>5, <1>7, <1>8, <1>9 DEF IInv, SlotOK, SentOK, t
<1>13. WhyOK'
  BY <1>4, <1>5, <1>7 DEF IInv, WhyOK
<1>14. SuccessIsConfirmed'
  BY <1>4, <1>5, <1>7, <1>9 DEF IInv, SuccessIsConfirmed, Effective, Included
<1>15. QED
  BY <1>10, <1>11, <1>12, <1>13, <1>14 DEF IInv

(* Every step of a call keeps the invariant.                                *)
LEMMA ClientIInv ==
  ASSUME IInv, NEW a \in Attempts, Client(a)
  PROVE  IInv'
<1>0. tx[a].sent => att[a].pc \in {"status", "height", "ok", "failed"}
  BY DEF IInv, SentOK
<1> USE DEF Pc, InFlightPc, Why
<1>1. CASE Start(a)
  BY <1>0, <1>1, GotoStep DEF Start
<1>2. CASE ReadNonce(a)
  <2> DEFINE r == att[a]
  <2>1. r \in AttState /\ r.pc = "nonce" /\ r.why = "none"
    BY <1>2 DEF ReadNonce, IInv, TypeOK, WhyOK
  <2>2. PICK n \in Nat : att' = [att EXCEPT ![a] = [r EXCEPT !.pc = "hash", !.nonce = n]]
    <3>1. conf \in Height /\ tip \in Height
      BY DEF IInv, TypeOK
    <3>2. QED BY <1>2, <3>1, CountType DEF ReadNonce
  <2> HIDE DEF r
  <2> DEFINE s == [r EXCEPT !.pc = "hash", !.nonce = n]
  <2>3. s \in AttState /\ s.pc = "hash" /\ s.why = "none" /\ s.expiry = r.expiry
    BY <2>1 DEF AttState
  <2> HIDE DEF s
  <2>4. QED
    BY <1>0, <1>2, <2>1, <2>2, <2>3, ClientStep DEF r, s, ReadNonce
<1>3. CASE ReadBlockhash(a)
  <2> DEFINE r == att[a]
             e == conf + Window
  <2>1. r \in AttState /\ r.pc = "hash" /\ r.why = "none" /\ e \in Nat
    BY <1>3, SubmitAssumption DEF ReadBlockhash, IInv, TypeOK, WhyOK, Height
  <2>2. att' = [att EXCEPT ![a] = [r EXCEPT !.pc = "popup", !.expiry = e]]
    BY <1>3 DEF ReadBlockhash
  <2> HIDE DEF r, e
  <2> DEFINE s == [r EXCEPT !.pc = "popup", !.expiry = e]
  <2>3. s \in AttState /\ s.pc = "popup" /\ s.why = "none"
    BY <2>1 DEF AttState
  <2> HIDE DEF s
  <2>4. ~tx[a].sent
    BY <1>0, <2>1 DEF r
  <2>5. QED
    BY <1>3, <2>2, <2>3, <2>4, ClientStep DEF s, ReadBlockhash
<1>4. CASE Sign(a)
  BY <1>0, <1>4, GotoStep DEF Sign
<1>5. CASE Abandon(a)
  BY <1>5, FailStep DEF Abandon
<1>6. CASE Send(a) \/ SendThrows(a)
  BY <1>6, SendStep
<1>7. CASE PollStatus(a)
  BY <1>7, GotoStep, FailStep DEF PollStatus
<1>8. CASE PollHeight(a)
  BY <1>8, GotoStep, FailStep DEF PollHeight
<1>9. CASE PollThrows(a)
  BY <1>9, FailStep DEF PollThrows
<1>10. QED
  BY <1>1, <1>2, <1>3, <1>4, <1>5, <1>6, <1>7, <1>8, <1>9 DEF Client, Poll

(* A transaction is included at the tip, within its blockhash's validity.   *)
LEMMA IncludeIInv ==
  ASSUME IInv, NEW a \in Attempts, Include(a)
  PROVE  IInv'
<1>1. PICK err \in {"none", "nonce", "revert"} :
        tx' = [tx EXCEPT ![a] = [tx[a] EXCEPT !.slot = tip + 1, !.err = err]]
  BY DEF Include
<1>2. /\ tx[a] \in TxState /\ tx[a].sent /\ tx[a].slot = 0 /\ tip + 1 <= att[a].expiry
      /\ att[a] \in AttState /\ tip' = tip + 1 /\ conf' = conf /\ att' = att
      /\ tip \in Nat /\ conf \in Nat /\ tip + 1 \in Height
  BY SubmitAssumption DEF IInv, TypeOK, Include, CanInclude, Height
<1> DEFINE u == [tx[a] EXCEPT !.slot = tip + 1, !.err = err]
<1>3. u \in TxState /\ u.sent /\ u.slot = tip + 1
  BY <1>2 DEF TxState
<1> HIDE DEF u
<1>4. tx'[a] = u /\ \A b \in Attempts \ {a} : tx'[b] = tx[b]
  BY <1>1 DEF IInv, TypeOK, u
<1>5. \A b \in Attempts : tx[b].slot \in Nat /\ tx[b].slot <= tip
  BY SubmitAssumption DEF IInv, TypeOK, TxState, Height, SlotOK
<1>6. TypeOK'
  BY <1>1, <1>2, <1>3 DEF IInv, TypeOK, u
<1>7. ChainOK'
  BY <1>2 DEF IInv, ChainOK
<1>8. SlotOK'
  BY <1>2, <1>3, <1>4, <1>5 DEF IInv, SlotOK
<1>9. SentOK'
  BY <1>2, <1>3, <1>4 DEF IInv, SentOK
<1>10. OwnBlock'
  BY <1>2, <1>3, <1>4, <1>5 DEF IInv, OwnBlock
<1>11. WhyOK'
  BY <1>2 DEF IInv, WhyOK
<1>12. SuccessIsConfirmed'
  BY <1>2, <1>4 DEF IInv, SuccessIsConfirmed, Effective, Included
<1>13. QED
  BY <1>6, <1>7, <1>8, <1>9, <1>10, <1>11, <1>12 DEF IInv

LEMMA ForkHeight ==
  ASSUME TypeOK, NEW h \in Height, Fork(h)
  PROVE  h \in conf .. tip - 1 /\ tip \in Nat /\ conf \in Nat /\ h \in Nat
<1>1. h \in conf .. tip - 1
  BY DEF Fork
<1>2. tip \in Nat /\ conf \in Nat /\ h \in Nat
  BY SubmitAssumption DEF TypeOK, Height
<1>3. QED
  BY <1>1, <1>2

(* A fork frees transactions, never a confirmed one.                        *)
LEMMA ForkIInv ==
  ASSUME IInv, NEW h \in Height, Fork(h)
  PROVE  IInv'
<1> DEFINE free(a) == [tx[a] EXCEPT !.slot = 0, !.err = "none"]
<1>0. /\ tip' = h /\ conf' = conf /\ att' = att
      /\ tx' = [a \in Attempts |-> IF tx[a].slot > h THEN free(a) ELSE tx[a]]
  BY DEF Fork
<1>1. /\ h \in conf .. tip - 1
      /\ tip \in Nat /\ conf \in Nat /\ h \in Nat
  BY ForkHeight DEF IInv
<1>2. \A a \in Attempts : /\ tx[a] \in TxState /\ tx[a].slot \in Nat
                          /\ free(a) \in TxState /\ free(a).slot = 0
                          /\ free(a).sent = tx[a].sent
  <2> TAKE a \in Attempts
  <2> DEFINE t == tx[a]
  <2>1. t \in TxState
    BY DEF IInv, TypeOK
  <2> HIDE DEF t
  <2>0. 0 \in Height /\ Height \subseteq Nat
    BY SubmitAssumption DEF Height
  <2>2. /\ t.slot \in Nat
        /\ [t EXCEPT !.slot = 0, !.err = "none"] \in TxState
        /\ [t EXCEPT !.slot = 0, !.err = "none"].slot = 0
        /\ [t EXCEPT !.slot = 0, !.err = "none"].sent = t.sent
    BY <2>0, <2>1 DEF TxState
  <2>3. QED BY <2>1, <2>2 DEF t
<1> HIDE DEF free
<1>3. \A a \in Attempts : \/ tx[a].slot > h /\ tx'[a] = free(a)
                          \/ tx[a].slot <= h /\ tx'[a] = tx[a]
  BY <1>0, <1>1, <1>2
<1>4. TypeOK'
  BY <1>0, <1>1, <1>2, <1>3 DEF IInv, TypeOK
<1>5. ChainOK'
  BY <1>0, <1>1 DEF ChainOK
<1>6. SlotOK'
  BY <1>0, <1>1, <1>2, <1>3 DEF IInv, SlotOK
<1>7. SentOK'
  BY <1>0, <1>1, <1>2, <1>3 DEF IInv, SentOK
<1>8. OwnBlock'
  BY <1>2, <1>3 DEF IInv, OwnBlock
<1>9. WhyOK'
  BY <1>0 DEF IInv, WhyOK
<1>10. SuccessIsConfirmed'
  BY <1>0, <1>1, <1>2, <1>3 DEF IInv, SuccessIsConfirmed, Effective, Included
<1>11. QED
  BY <1>4, <1>5, <1>6, <1>7, <1>8, <1>9, <1>10 DEF IInv

LEMMA ClusterIInv ==
  ASSUME IInv, Cluster
  PROVE  IInv'
<1>1. CASE EmptyBlock \/ Confirm
  <2>1. /\ tx' = tx /\ att' = att /\ tip' \in Height /\ conf' \in Height
        /\ tip <= tip' /\ conf <= conf' /\ conf' <= tip'
        /\ tip \in Nat /\ conf \in Nat /\ tip' \in Nat /\ conf' \in Nat
    BY <1>1, SubmitAssumption DEF EmptyBlock, Confirm, IInv, TypeOK, ChainOK, Height
  <2>2. \A a \in Attempts : tx[a].slot \in Nat /\ att[a].expiry \in Nat
    BY SubmitAssumption DEF IInv, TypeOK, TxState, AttState, Height
  <2>3. TypeOK' /\ ChainOK' /\ SentOK' /\ OwnBlock'
    BY <2>1 DEF IInv, TypeOK, ChainOK, SentOK, OwnBlock
  <2>4. SlotOK' /\ WhyOK'
    BY <2>1, <2>2 DEF IInv, SlotOK, WhyOK
  <2>5. SuccessIsConfirmed'
    BY <2>1, <2>2 DEF IInv, SuccessIsConfirmed, Effective, Included
  <2>6. QED
    BY <2>3, <2>4, <2>5 DEF IInv
<1>2. QED
  BY <1>1, IncludeIInv, ForkIInv DEF Cluster

LEMMA StutterIInv == IInv /\ UNCHANGED vars => IInv'
BY DEF vars, IInv, TypeOK, ChainOK, SlotOK, SentOK, OwnBlock, WhyOK, SuccessIsConfirmed,
       Effective, Included

THEOREM Inductive == Spec => []IInv
<1>1. IInv /\ [Next]_vars => IInv'
  BY ClientIInv, ClusterIInv, StutterIInv DEF Next
<1>2. QED
  BY InitIInv, <1>1, PTL DEF Spec

(* The model's variables keep their types.                                  *)
THEOREM SubmitTypeCorrect == Spec => []TypeOK
BY Inductive, PTL DEF IInv

(* A call that returned a signature has its transaction executed and        *)
(* confirmed, whatever the cluster forks and whenever the RPC throws.       *)
THEOREM SuccessConfirmed == Spec => []SuccessIsConfirmed
BY Inductive, PTL DEF IInv

(* When the poll declares the blockhash expired the transaction's fate is   *)
(* settled for ever.                                                       *)
LEMMA ExpiredStep ==
  ASSUME IInv, [Next]_vars, NEW a \in Attempts, att[a].why = "expired"
  PROVE  tx'[a] = tx[a]
<1>1. /\ att[a].pc = "failed" /\ conf > att[a].expiry
      /\ tx[a].slot <= att[a].expiry /\ conf <= tip
      /\ conf \in Nat /\ tip \in Nat /\ att[a].expiry \in Nat /\ tx[a].slot \in Nat
  BY SubmitAssumption
  DEF IInv, WhyOK, SlotOK, ChainOK, TypeOK, TxState, AttState, Height
<1>2. CASE UNCHANGED vars
  BY <1>2 DEF vars
<1>3. ASSUME NEW b \in Attempts, Client(b)
      PROVE  tx'[a] = tx[a]
  <2>1. CASE Send(b) \/ SendThrows(b)
    <3>1. a # b
      BY <1>1, <2>1 DEF Send, SendThrows
    <3>2. QED BY <2>1, <3>1 DEF Send, SendThrows, IInv, TypeOK
  <2>2. CASE ~(Send(b) \/ SendThrows(b))
    BY <1>3, <2>2 DEF Client, Start, ReadNonce, ReadBlockhash, Sign, Abandon,
                      Poll, PollStatus, PollHeight, PollThrows
  <2>3. QED BY <2>1, <2>2
<1>4. ASSUME NEW b \in Attempts, Include(b)
      PROVE  tx'[a] = tx[a]
  <2>1. a # b
    BY <1>1, <1>4 DEF Include, CanInclude
  <2>2. QED BY <1>4, <2>1 DEF Include, IInv, TypeOK
<1>5. ASSUME NEW h \in Height, Fork(h)
      PROVE  tx'[a] = tx[a]
  <2>1. ~(tx[a].slot > h)
    BY <1>1, <1>5, ForkHeight DEF IInv
  <2>2. QED BY <1>5, <2>1 DEF Fork
<1>6. CASE EmptyBlock \/ Confirm
  BY <1>6 DEF EmptyBlock, Confirm
<1>7. QED
  BY <1>2, <1>3, <1>4, <1>5, <1>6 DEF Next, Cluster

THEOREM ExpiredSettled == Spec => ExpiredIsFinal
<1>1. IInv /\ [Next]_vars =>
        [\A a \in Attempts : att[a].why = "expired" => tx'[a] = tx[a]]_vars
  BY ExpiredStep
<1>2. QED
  BY Inductive, <1>1, PTL DEF Spec, ExpiredIsFinal

-----------------------------------------------------------------------------
(* SolanaSubmit implements ActionContract.                                 *)

MappedPhase == [a \in Attempts |-> Reported(att[a].pc)]
MappedEffect == [a \in Attempts |-> Effective(a)]

(* A step that moves no report and no effect is a stutter of the contract.  *)
LEMMA SameReport ==
  ASSUME \A a \in Attempts : Reported(att'[a].pc) = Reported(att[a].pc),
         \A a \in Attempts : Effective(a)' = Effective(a)
  PROVE  MappedPhase' = MappedPhase /\ MappedEffect' = MappedEffect
BY Zenon DEF MappedPhase, MappedEffect

(* A client step of call a changes at most what is said of a.               *)
LEMMA ClientReport ==
  ASSUME IInv, NEW a \in Attempts, Client(a)
  PROVE  /\ MappedEffect' = MappedEffect
         /\ \/ MappedPhase' = MappedPhase
            \/ /\ att[a].pc = "idle"
               /\ MappedPhase' = [MappedPhase EXCEPT ![a] = "working"]
            \/ /\ att[a].pc \in InFlightPc /\ Effective(a)
               /\ MappedPhase' = [MappedPhase EXCEPT ![a] = "succeeded"]
            \/ /\ att[a].pc \in InFlightPc
               /\ MappedPhase' = [MappedPhase EXCEPT ![a] = "failed"]
<1>1. att \in [Attempts -> AttState] /\ tx \in [Attempts -> TxState]
  BY DEF IInv, TypeOK
<1>2. conf' = conf /\ \A b \in Attempts : tx'[b].slot = tx[b].slot /\ tx'[b].err = tx[b].err
  <2>1. CASE UNCHANGED <<chainVars, tx>>
    BY <2>1 DEF chainVars
  <2>2. CASE Send(a) \/ SendThrows(a)
    <3>1. PICK r \in BOOLEAN : tx' = [tx EXCEPT ![a].sent = r]
      BY <2>2 DEF Send, SendThrows
    <3>2. conf' = conf
      BY <2>2 DEF Send, SendThrows, chainVars
    <3>3. QED BY <1>1, <3>1, <3>2 DEF TxState
  <2>3. QED
    BY <2>1, <2>2 DEF Client, Start, ReadNonce, ReadBlockhash, Sign, Abandon, Poll,
                      PollStatus, PollHeight, PollThrows
<1>3. \A b \in Attempts : Effective(b)' = Effective(b)
  BY <1>2 DEF Effective, Included
<1>4. MappedEffect' = MappedEffect
  BY <1>3, Zenon DEF MappedEffect
<1>5. \A b \in Attempts \ {a} : att'[b] = att[b]
  <2>1. \A pc : Goto(a, pc) => \A b \in Attempts \ {a} : att'[b] = att[b]
    BY <1>1 DEF Goto
  <2>2. \A why : FailAs(a, why) => \A b \in Attempts \ {a} : att'[b] = att[b]
    BY <1>1 DEF FailAs
  <2>3. CASE ReadNonce(a) \/ ReadBlockhash(a)
    BY <1>1, <2>3 DEF ReadNonce, ReadBlockhash
  <2>4. QED
    BY <2>1, <2>2, <2>3 DEF Client, Start, Sign, Abandon, Send, SendThrows, Poll,
                            PollStatus, PollHeight, PollThrows
<1>6. \/ att[a].pc = "idle" /\ att'[a].pc \in InFlightPc
      \/ att[a].pc \in InFlightPc /\ att'[a].pc \in InFlightPc
      \/ att[a].pc \in InFlightPc /\ att'[a].pc = "ok" /\ Effective(a)
      \/ att[a].pc \in InFlightPc /\ att'[a].pc = "failed"
  <2>1. \A pc : Goto(a, pc) => att'[a].pc = pc
    BY <1>1 DEF Goto, AttState
  <2>2. \A why : FailAs(a, why) => att'[a].pc = "failed"
    BY <1>1 DEF FailAs, AttState
  <2>3. CASE ReadNonce(a) \/ ReadBlockhash(a)
    BY <1>1, <2>3 DEF ReadNonce, ReadBlockhash, AttState, InFlightPc
  <2>4. CASE Start(a) \/ Sign(a) \/ Send(a)
    BY <2>1, <2>4 DEF Start, Sign, Send, InFlightPc
  <2>5. CASE Abandon(a) \/ SendThrows(a) \/ PollThrows(a)
    BY <2>2, <2>5 DEF Abandon, SendThrows, PollThrows, Polling, InFlightPc
  <2>6. CASE PollStatus(a) \/ PollHeight(a)
    BY <2>1, <2>2, <2>6 DEF PollStatus, PollHeight, InFlightPc
  <2>7. QED
    BY <2>3, <2>4, <2>5, <2>6 DEF Client, Poll
<1> DEFINE q == Reported(att'[a].pc)
<1>7. MappedPhase' = [MappedPhase EXCEPT ![a] = q]
  <2>1. \A b \in Attempts : MappedPhase'[b] = IF b = a THEN q ELSE MappedPhase[b]
    BY <1>5, Zenon DEF MappedPhase
  <2> HIDE DEF q
  <2>2. QED BY <2>1 DEF MappedPhase
<1>8. MappedPhase[a] = Reported(att[a].pc)
  BY DEF MappedPhase
<1>9. CASE att[a].pc \in InFlightPc /\ att'[a].pc \in InFlightPc
  <2>1. q = "working" /\ MappedPhase[a] = "working"
    BY <1>8, <1>9 DEF Reported, InFlightPc
  <2>2. MappedPhase' = MappedPhase
    BY <1>7, <2>1 DEF MappedPhase
  <2>3. QED BY <1>4, <2>2
<1>10. CASE att[a].pc = "idle" /\ att'[a].pc \in InFlightPc
  BY <1>4, <1>7, <1>10 DEF Reported, InFlightPc
<1>11. CASE att[a].pc \in InFlightPc /\ att'[a].pc = "ok" /\ Effective(a)
  BY <1>4, <1>7, <1>11 DEF Reported, InFlightPc
<1>12. CASE att[a].pc \in InFlightPc /\ att'[a].pc = "failed"
  BY <1>4, <1>7, <1>12 DEF Reported, InFlightPc
<1>13. QED
  BY <1>6, <1>9, <1>10, <1>11, <1>12

(* A step of the cluster makes at most one transaction effective: the one   *)
(* of the block it confirms, whose call is polling or has failed.           *)
LEMMA ClusterReport ==
  ASSUME IInv, Cluster
  PROVE  /\ MappedPhase' = MappedPhase
         /\ \/ MappedEffect' = MappedEffect
            \/ \E a \in Attempts :
                 /\ att[a].pc \in InFlightPc \cup {"failed"} /\ ~Effective(a)
                 /\ MappedEffect' = [MappedEffect EXCEPT ![a] = TRUE]
<1>1. att' = att
  BY DEF Cluster, Include, EmptyBlock, Confirm, Fork
<1>2. MappedPhase' = MappedPhase
  BY <1>1 DEF MappedPhase
<1>3. /\ \A a \in Attempts : tx[a].slot \in Nat /\ tx[a].slot <= tip
      /\ tip \in Nat /\ conf \in Nat /\ conf <= tip
  BY SubmitAssumption DEF IInv, SlotOK, ChainOK, TypeOK, TxState, Height
<1>4. ASSUME conf' = conf,
             \A a \in Attempts : \/ tx'[a] = tx[a]
                                 \/ ~Included(a, conf) /\ ~Included(a, conf)'
      PROVE  MappedEffect' = MappedEffect
  <2>1. \A a \in Attempts : Effective(a)' = Effective(a)
    BY <1>4 DEF Effective, Included
  <2>2. QED BY <2>1, Zenon DEF MappedEffect
<1>5. ASSUME NEW a \in Attempts, Include(a)
      PROVE  MappedEffect' = MappedEffect
  <2>1. conf' = conf /\ tx[a].slot = 0 /\ \A b \in Attempts \ {a} : tx'[b] = tx[b]
    BY <1>5 DEF Include, CanInclude, IInv, TypeOK
  <2>2. tx'[a].slot = tip + 1
    BY <1>5 DEF Include, IInv, TypeOK, TxState
  <2>3. ~Included(a, conf) /\ ~Included(a, conf)'
    BY <1>3, <2>1, <2>2 DEF Included
  <2>4. QED BY <1>4, <2>1, <2>3
<1>6. ASSUME NEW h \in Height, Fork(h)
      PROVE  MappedEffect' = MappedEffect
  <2>1. h \in conf .. tip - 1 /\ conf' = conf
    BY <1>6, ForkHeight DEF Fork, IInv
  <2>2. \A a \in Attempts : \/ tx'[a] = tx[a]
                            \/ tx[a].slot > h /\ tx'[a].slot = 0
    BY <1>6 DEF Fork, IInv, TypeOK, TxState
  <2>3. \A a \in Attempts : \/ tx'[a] = tx[a]
                            \/ ~Included(a, conf) /\ ~Included(a, conf)'
    BY <1>3, <2>1, <2>2 DEF Included
  <2>4. QED BY <1>4, <2>1, <2>3
<1>7. ASSUME EmptyBlock
      PROVE  MappedEffect' = MappedEffect
  BY <1>4, <1>7 DEF EmptyBlock
<1>8. CASE Confirm
  <2>1. conf' = conf + 1 /\ tx' = tx
    BY <1>8 DEF Confirm
  <2>2. \A a \in Attempts : tx[a].slot # conf + 1 => Effective(a)' = Effective(a)
    BY <1>3, <2>1 DEF Effective, Included
  <2>3. CASE \E a \in Attempts : tx[a].slot = conf + 1 /\ tx[a].err = "none"
    <3>1. PICK a \in Attempts : tx[a].slot = conf + 1 /\ tx[a].err = "none"
      BY <2>3
    <3>2. \A b \in Attempts \ {a} : tx[b].slot # conf + 1
      BY <1>3, <3>1 DEF IInv, OwnBlock
    <3>3. ~Effective(a) /\ Effective(a)' = TRUE
      BY <1>3, <2>1, <3>1 DEF Effective, Included
    <3>4. tx[a].sent /\ att[a].pc # "ok"
      BY <1>3, <3>1, <3>3 DEF IInv, SlotOK, SuccessIsConfirmed
    <3>5. att[a].pc \in InFlightPc \cup {"failed"}
      BY <3>4 DEF IInv, SentOK, InFlightPc
    <3>6. \A b \in Attempts : Effective(b)' = IF b = a THEN TRUE ELSE Effective(b)
      BY <2>2, <3>2, <3>3, Zenon
    <3>7. MappedEffect' = [MappedEffect EXCEPT ![a] = TRUE]
      BY <3>6, Zenon DEF MappedEffect
    <3>8. QED BY <1>2, <3>3, <3>5, <3>7, Zenon
  <2>4. CASE \A a \in Attempts : tx[a].slot = conf + 1 => tx[a].err # "none"
    <3>1. \A a \in Attempts : Effective(a)' = Effective(a)
      BY <1>3, <2>1, <2>4 DEF Effective, Included
    <3>2. QED BY <1>2, <3>1, Zenon DEF MappedEffect
  <2>5. QED BY <2>3, <2>4
<1>9. CASE Cluster /\ ~Confirm
  <2>1. MappedEffect' = MappedEffect
    BY <1>5, <1>6, <1>7, <1>9, Zenon DEF Cluster
  <2>2. QED BY <1>2, <2>1, Zenon
<1>10. QED
  BY <1>8, <1>9, Zenon

(* A call of the submit pipeline keeps the lane's promise about an action:  *)
(* what it reports as done is done, at most once, and what it reports as    *)
(* failed may still land.                                                  *)
THEOREM ContractKept == Spec => ContractSpec
<1>1. Init => Contract!Init
  <2> SUFFICES ASSUME Init PROVE Contract!Init
    OBVIOUS
  <2>1. \A a \in Attempts : Reported(att[a].pc) = "idle"
    BY DEF Init, Reported, InFlightPc
  <2>2. \A a \in Attempts : Effective(a) = FALSE
    BY DEF Init, Effective, Included
  <2>3. QED BY <2>1, <2>2, Zenon DEF Contract!Init
<1>2. IInv /\ [Next]_vars => [Contract!Next]_Contract!vars
  <2>1. ASSUME IInv, NEW a \in Attempts, Client(a)
        PROVE  [Contract!Next]_Contract!vars
    <3>1. CASE MappedPhase' = MappedPhase
      BY <2>1, <3>1, ClientReport DEF Contract!vars, MappedPhase, MappedEffect
    <3>2. CASE att[a].pc = "idle" /\ MappedPhase' = [MappedPhase EXCEPT ![a] = "working"]
      <4>1. MappedPhase[a] = "idle" /\ MappedEffect' = MappedEffect
        BY <2>1, <3>2, ClientReport DEF MappedPhase, Reported, InFlightPc
      <4>2. Contract!Start(a)
        BY <3>2, <4>1 DEF Contract!Start, MappedPhase, MappedEffect
      <4>3. QED BY <4>2 DEF Contract!Next
    <3>3. CASE /\ att[a].pc \in InFlightPc /\ Effective(a)
               /\ MappedPhase' = [MappedPhase EXCEPT ![a] = "succeeded"]
      <4>1. MappedPhase[a] = "working" /\ MappedEffect[a] /\ MappedEffect' = MappedEffect
        BY <2>1, <3>3, ClientReport DEF MappedPhase, MappedEffect, Reported, InFlightPc
      <4>2. Contract!ReportSuccess(a)
        BY <3>3, <4>1 DEF Contract!ReportSuccess, MappedPhase, MappedEffect
      <4>3. QED BY <4>2 DEF Contract!Next
    <3>4. CASE /\ att[a].pc \in InFlightPc
               /\ MappedPhase' = [MappedPhase EXCEPT ![a] = "failed"]
      <4>1. MappedPhase[a] = "working" /\ MappedEffect' = MappedEffect
        BY <2>1, <3>4, ClientReport DEF MappedPhase, Reported, InFlightPc
      <4>2. Contract!ReportFailure(a)
        BY <3>4, <4>1 DEF Contract!ReportFailure, MappedPhase, MappedEffect
      <4>3. QED BY <4>2 DEF Contract!Next
    <3>5. QED
      BY <2>1, <3>1, <3>2, <3>3, <3>4, ClientReport
  <2>2. ASSUME IInv, Cluster
        PROVE  [Contract!Next]_Contract!vars
    <3>1. MappedPhase' = MappedPhase
      BY <2>2, ClusterReport
    <3>2. CASE MappedEffect' = MappedEffect
      BY <3>1, <3>2 DEF Contract!vars, MappedPhase, MappedEffect
    <3>3. CASE \E a \in Attempts :
                 /\ att[a].pc \in InFlightPc \cup {"failed"} /\ ~Effective(a)
                 /\ MappedEffect' = [MappedEffect EXCEPT ![a] = TRUE]
      <4>1. PICK a \in Attempts :
                 /\ att[a].pc \in InFlightPc \cup {"failed"} /\ ~Effective(a)
                 /\ MappedEffect' = [MappedEffect EXCEPT ![a] = TRUE]
        BY <3>3
      <4>2. MappedPhase[a] \in {"working", "failed"} /\ ~MappedEffect[a]
        BY <4>1 DEF MappedPhase, MappedEffect, Reported, InFlightPc
      <4>3. Contract!TakeEffect(a)
        BY <3>1, <4>1, <4>2 DEF Contract!TakeEffect, MappedPhase, MappedEffect
      <4>4. QED BY <4>3 DEF Contract!Next
    <3>4. QED
      BY <2>2, <3>2, <3>3, ClusterReport
  <2>3. CASE UNCHANGED vars
    BY <2>3 DEF vars, Contract!vars, Effective, Included
  <2>4. QED
    BY <2>1, <2>2, <2>3 DEF Next
<1>3. QED
  BY Inductive, <1>1, <1>2, PTL DEF Spec, ContractSpec, Contract!Spec
-----------------------------------------------------------------------------
(* A retry after a failed call: the nonce of a transaction that executed is    *)
(* the count of the blocks below its own, so that of two that executed the      *)
(* later one has the higher nonce.                                            *)
Executed(h) == {a \in Attempts : Included(a, h) /\ tx[a].err = "none"}
NonceOK ==
  \A a \in Attempts :
    tx[a].slot # 0 /\ tx[a].err = "none" => att[a].nonce = Count(tx[a].slot - 1)

NInv == IInv /\ NonceOK

(* The count does not fall with the height, and rises with a transaction         *)
(* between the two heights.                                                   *)
LEMMA CountRises ==
  ASSUME TypeOK, NEW g \in Height, NEW h \in Height,
         NEW a \in Attempts, tx[a].slot \in g + 1 .. h, tx[a].err = "none"
  PROVE  Count(g) + 1 <= Count(h)
<1> DEFINE S == Executed(g)
           T == Executed(h)
<1>1. S \subseteq Attempts /\ T \subseteq Attempts
  BY DEF Executed
<1>2. IsFiniteSet(S) /\ IsFiniteSet(T)
  BY <1>1, FS_Subset, SubmitAssumption
<1>3. \A b \in Attempts : tx[b].slot \in Nat /\ g \in Nat /\ h \in Nat
  BY SubmitAssumption DEF TypeOK, TxState, Height
<1>4. a \notin S /\ S \cup {a} \subseteq T
  BY <1>3 DEF Executed, Included
<1>5. IsFiniteSet(S \cup {a}) /\ Cardinality(S \cup {a}) = Cardinality(S) + 1
  BY <1>2, <1>4, FS_AddElement
<1>6. Cardinality(S \cup {a}) <= Cardinality(T)
  BY <1>2, <1>4, FS_Subset
<1>7. Cardinality(S) \in Nat /\ Cardinality(T) \in Nat
  BY <1>2, FS_CardinalityType
<1>8. Count(g) = Cardinality(S) /\ Count(h) = Cardinality(T)
  BY DEF Count, Executed
<1> HIDE DEF S, T
<1>9. QED BY <1>5, <1>6, <1>7, <1>8

(* The count of a height is that of the transactions up to it.                 *)
LEMMA CountSame ==
  ASSUME NEW h,
         \A a \in Attempts : Included(a, h)' = Included(a, h),
         \A a \in Attempts : Included(a, h) => tx'[a].err = tx[a].err
  PROVE  Count(h)' = Count(h)
<1>1. {a \in Attempts : Included(a, h)' /\ tx'[a].err = "none"}
        = {a \in Attempts : Included(a, h) /\ tx[a].err = "none"}
  OBVIOUS
<1>2. QED BY <1>1 DEF Count

(* What is to be shown of a transaction in a block: its nonce is the next count. *)
LEMMA NonceAt ==
  ASSUME NEW a \in Attempts, NEW h, tx'[a].slot - 1 = h, att'[a].nonce = Count(h)'
  PROVE  (att[a].nonce = Count(tx[a].slot - 1))'
BY DEF Count, Included

LEMMA NonceInit == Init => NonceOK
BY SubmitAssumption DEF Init, NonceOK

(* A call writes its nonce before its transaction is sent.                     *)
LEMMA ClientNonce ==
  ASSUME NInv, NEW c \in Attempts, Client(c)
  PROVE  NonceOK'
<1>1. \A a \in Attempts : tx'[a].slot = tx[a].slot /\ tx'[a].err = tx[a].err
  BY DEF NInv, IInv, TypeOK, TxState, Client, Start, ReadNonce, ReadBlockhash, Sign, Abandon, Send,
         SendThrows, Poll, PollStatus, PollHeight, PollThrows
<1>2. \A a \in Attempts : tx[a].slot # 0 => att'[a].nonce = att[a].nonce
  <2>1. CASE ReadNonce(c)
    <3>1. tx[c].slot = 0
      BY <2>1 DEF NInv, IInv, SlotOK, SentOK, ReadNonce
    <3>2. \A a \in Attempts \ {c} : att'[a] = att[a]
      BY <2>1 DEF NInv, IInv, TypeOK, ReadNonce
    <3>3. QED BY <3>1, <3>2
  <2>2. CASE ~ReadNonce(c)
    BY <2>2 DEF NInv, IInv, TypeOK, AttState, Client, Start, ReadBlockhash, Sign, Abandon, Send,
         SendThrows, Poll, PollStatus, PollHeight, PollThrows, Goto, FailAs
  <2>3. QED BY <2>1, <2>2
<1>3. \A h : Count(h)' = Count(h)
  BY <1>1, CountSame DEF Included
<1>4. QED BY <1>1, <1>2, <1>3 DEF NInv, NonceOK

(* A transaction executes in a block above the tip, with the count up to it;      *)
(* a fork leaves the blocks below a transaction that stays.                     *)
LEMMA ClusterNonce ==
  ASSUME NInv, Cluster
  PROVE  NonceOK'
<1>1. att' = att
  BY DEF Cluster, Include, EmptyBlock, Confirm, Fork
<1>2. /\ \A a \in Attempts : tx[a].slot \in Nat /\ tx[a].slot <= tip
      /\ tip \in Nat /\ conf \in Nat
  BY SubmitAssumption DEF NInv, IInv, SlotOK, TypeOK, TxState, Height
<1>3. ASSUME NEW c \in Attempts, Include(c)
      PROVE  NonceOK'
  <2>1. \A a \in Attempts \ {c} : tx'[a] = tx[a]
    BY <1>3 DEF Include, NInv, IInv, TypeOK
  <2>2. /\ tx[c].slot = 0 /\ tx'[c].slot = tip + 1
        /\ tx'[c].err = "none" => att[c].nonce = Count(tip)
    BY <1>3 DEF Include, CanInclude, NInv, IInv, TypeOK, TxState
  <2>3. ASSUME NEW h \in Int, h <= tip
        PROVE  Count(h)' = Count(h)
    <3>1. \A a \in Attempts : Included(a, h)' = Included(a, h)
      BY <1>2, <2>1, <2>2, <2>3 DEF Included
    <3>2. \A a \in Attempts : Included(a, h) => tx'[a].err = tx[a].err
      BY <2>1, <2>2 DEF Included
    <3>3. QED BY <3>1, <3>2, CountSame
  <2>4. ASSUME NEW a \in Attempts, tx'[a].slot # 0, tx'[a].err = "none"
        PROVE  (att[a].nonce = Count(tx[a].slot - 1))'
    <3>1. CASE a = c
      <4>1. PICK h \in Int : h = tip
        BY <1>2
      <4>2. Count(h)' = Count(h)
        BY <2>3, <1>2, <4>1
      <4>3. tx'[a].slot - 1 = h /\ att'[a].nonce = Count(h)
        BY <1>1, <1>2, <2>2, <2>4, <3>1, <4>1
      <4>4. QED BY <4>2, <4>3, NonceAt
    <3>2. CASE a # c
      <4>1. PICK h \in Int : h = tx[a].slot - 1
        BY <1>2
      <4>2. h <= tip /\ tx'[a] = tx[a]
        BY <1>2, <2>1, <3>2, <4>1
      <4>3. att[a].nonce = Count(h) /\ Count(h)' = Count(h)
        BY <2>3, <2>4, <4>1, <4>2 DEF NInv, NonceOK
      <4>4. tx'[a].slot - 1 = h /\ att'[a].nonce = Count(h)'
        BY <1>1, <4>1, <4>2, <4>3
      <4>5. QED BY <4>4, NonceAt
    <3>3. QED BY <3>1, <3>2
  <2>5. QED BY <2>4, Zenon DEF NonceOK
<1>4. ASSUME NEW g \in Height, Fork(g)
      PROVE  NonceOK'
  <2>1. \A a \in Attempts : \/ tx[a].slot <= g /\ tx'[a] = tx[a]
                            \/ tx[a].slot > g /\ tx'[a].slot = 0
    <3>1. \A a \in Attempts : tx[a] \in TxState
      BY DEF NInv, IInv, TypeOK
    <3>2. ASSUME NEW t \in TxState
          PROVE  [t EXCEPT !.slot = 0, !.err = "none"].slot = 0
      BY DEF TxState
    <3>3. \A a \in Attempts : tx'[a] = IF tx[a].slot > g THEN [tx[a] EXCEPT !.slot = 0, !.err = "none"]
                                                       ELSE tx[a]
      BY <1>4 DEF Fork
    <3>4. g \in Nat
      BY SubmitAssumption DEF Height
    <3>5. ASSUME NEW a \in Attempts, tx[a].slot > g
          PROVE  tx'[a].slot = 0
      BY <3>1, <3>2, <3>3, <3>5
    <3>6. ASSUME NEW a \in Attempts, ~(tx[a].slot > g)
          PROVE  tx[a].slot <= g /\ tx'[a] = tx[a]
      <4>1. tx'[a] = tx[a]
        BY <3>3, <3>6, Zenon
      <4>2. tx[a].slot <= g
        BY <1>2, <3>4, <3>6
      <4>3. QED BY <4>1, <4>2
    <3>7. QED BY <3>5, <3>6
  <2>2. ASSUME NEW h \in Int, h <= g
        PROVE  Count(h)' = Count(h)
    <3>1. \A a \in Attempts : Included(a, h)' = Included(a, h)
      BY <1>2, <2>1, <2>2, SubmitAssumption DEF Included, Height
    <3>2. \A a \in Attempts : Included(a, h) => tx'[a].err = tx[a].err
      BY <1>2, <2>1, <2>2, SubmitAssumption DEF Included, Height
    <3>3. QED BY <3>1, <3>2, CountSame
  <2>3. ASSUME NEW a \in Attempts, tx'[a].slot # 0, tx'[a].err = "none"
        PROVE  (att[a].nonce = Count(tx[a].slot - 1))'
    <3>1. PICK h \in Int : h = tx[a].slot - 1
      BY <1>2
    <3>2. tx'[a] = tx[a] /\ h <= g
      BY <1>2, <2>1, <2>3, <3>1, SubmitAssumption DEF Height
    <3>3. att[a].nonce = Count(h) /\ Count(h)' = Count(h)
      BY <2>2, <2>3, <3>1, <3>2 DEF NInv, NonceOK
    <3>4. tx'[a].slot - 1 = h /\ att'[a].nonce = Count(h)'
      BY <1>1, <3>1, <3>2, <3>3
    <3>5. QED BY <3>4, NonceAt
  <2>4. QED BY <2>3, Zenon DEF NonceOK
<1>5. CASE EmptyBlock \/ Confirm
  <2>1. tx' = tx
    BY <1>5 DEF EmptyBlock, Confirm
  <2>2. \A h : Count(h)' = Count(h)
    BY <2>1, CountSame DEF Included
  <2>3. QED BY <1>1, <2>1, <2>2 DEF NInv, NonceOK
<1>6. QED BY <1>3, <1>4, <1>5 DEF Cluster

(* A transaction becomes effective when its block is confirmed, and in no other    *)
(* way.                                                                      *)
LEMMA EffectByConfirm ==
  ASSUME IInv, Next, NEW a \in Attempts, ~Effective(a), Effective(a)'
  PROVE  tx[a].slot = conf + 1 /\ tx[a].err = "none"
<1>1. /\ \A b \in Attempts : tx[b].slot \in Nat /\ tx[b].slot <= tip
      /\ tip \in Nat /\ conf \in Nat /\ conf <= tip
  BY SubmitAssumption DEF IInv, SlotOK, ChainOK, TypeOK, TxState, Height
<1>2. ASSUME NEW c \in Attempts, Client(c)
      PROVE  FALSE
  BY <1>2 DEF IInv, TypeOK, TxState, Client, Start, ReadNonce, ReadBlockhash, Sign, Abandon, Send,
     SendThrows, Poll, PollStatus, PollHeight, PollThrows, chainVars, Effective, Included
<1>3. ASSUME NEW c \in Attempts, Include(c)
      PROVE  FALSE
  BY <1>1, <1>3 DEF IInv, TypeOK, TxState, Include, CanInclude, Effective, Included
<1>4. ASSUME NEW h \in Height, Fork(h)
      PROVE  FALSE
  <2>1. \A b \in Attempts : \/ tx'[b] = tx[b]
                            \/ tx'[b].slot = 0
    BY <1>4 DEF IInv, TypeOK, TxState, Fork
  <2>2. conf' = conf
    BY <1>4 DEF Fork
  <2>3. QED BY <1>1, <2>1, <2>2 DEF Effective, Included
<1>5. ~EmptyBlock
  BY DEF EmptyBlock, Effective, Included
<1>6. CASE Confirm
  BY <1>1, <1>6 DEF Confirm, Effective, Included
<1>7. QED BY <1>2, <1>3, <1>4, <1>5, <1>6 DEF Next, Cluster

(* One step of what protects a retry: the failed call's transaction would have     *)
(* to execute above the block of the one that succeeded, with a higher nonce.      *)
LEMMA RetryStep ==
  ASSUME NInv, [Next]_vars, NEW a \in Attempts, NEW b \in Attempts,
         att[a].pc = "failed", att[b].pc = "ok", att[a].nonce <= att[b].nonce, Effective(a)'
  PROVE  Effective(a)
<1> SUFFICES ASSUME ~Effective(a) PROVE FALSE
  OBVIOUS
<1>1. CASE UNCHANGED vars
  BY <1>1 DEF vars, Effective, Included
<1>2. CASE Next
  <2>1. /\ \A c \in Attempts : tx[c].slot \in Nat /\ tx[c].slot <= tip /\ att[c].nonce \in Nat
        /\ tip \in Height /\ conf \in Height /\ conf \in Nat /\ tip \in Nat
    BY SubmitAssumption DEF NInv, IInv, SlotOK, TypeOK, TxState, AttState, Height
  <2>2. tx[a].slot = conf + 1 /\ tx[a].err = "none"
    BY <1>2, EffectByConfirm DEF NInv
  <2>3. tx[b].slot \in 1 .. conf /\ tx[b].err = "none"
    BY DEF NInv, IInv, SuccessIsConfirmed, Effective, Included
  <2> DEFINE g == tx[b].slot - 1
  <2>4. g \in Height /\ tx[b].slot \in g + 1 .. conf
    BY <2>1, <2>3, SubmitAssumption DEF Height
  <2>5. att[a].nonce = Count(conf)
    BY <2>1, <2>2 DEF NInv, NonceOK
  <2>6. att[b].nonce = Count(g)
    BY <2>1, <2>3 DEF NInv, NonceOK
  <2> HIDE DEF g
  <2>7. Count(g) + 1 <= Count(conf)
    BY <2>1, <2>3, <2>4, CountRises DEF NInv, IInv
  <2>8. QED BY <2>1, <2>5, <2>6, <2>7
<1>3. QED BY <1>1, <1>2

(* Once a later call succeeded, a failed one that had read no higher nonce never     *)
(* takes effect any more (submitDoTxUnsigned's nonce, pollConfirmation).          *)
THEOREM RetriesSettled == Spec => SuccessSettlesRetries
<1>1. Init => NInv
  BY InitIInv, NonceInit DEF NInv
<1>2. NInv /\ [Next]_vars => NInv'
  <2> SUFFICES ASSUME NInv, [Next]_vars PROVE NInv'
    OBVIOUS
  <2>1. CASE UNCHANGED vars
    <3>1. \A h : Count(h)' = Count(h)
      BY <2>1 DEF vars, Count, Included
    <3>2. NonceOK'
      BY <2>1, <3>1 DEF vars, NInv, NonceOK
    <3>3. QED BY <2>1, <3>2, StutterIInv DEF NInv
  <2>2. ASSUME NEW c \in Attempts, Client(c) PROVE NInv'
    BY <2>2, ClientIInv, ClientNonce DEF NInv
  <2>3. CASE Cluster
    BY <2>3, ClusterIInv, ClusterNonce DEF NInv
  <2>4. QED BY <2>1, <2>2, <2>3 DEF Next
<1>3. NInv /\ [Next]_vars =>
        [\A a, b \in Attempts :
           /\ att[a].pc = "failed" /\ att[b].pc = "ok"
           /\ att[a].nonce <= att[b].nonce
           /\ Effective(a)'
           => Effective(a)]_vars
  BY RetryStep
<1>4. QED BY <1>1, <1>2, <1>3, PTL DEF Spec, SuccessSettlesRetries
=============================================================================
