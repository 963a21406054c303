------------------------------ MODULE DriveFlows ------------------------------
(***************************************************************************)
(* The command-line driver, scripts/drive-flows.mjs: a process that runs the   *)
(* flows of its command line one after the other, signs by itself, and ends   *)
(* with the first failure; the same command can be given again.              *)
(*                                                                         *)
(* acct.alt is the process's own table (ALT), which a new process does not    *)
(* have, and whose creation follows the read of the nonce.                  *)
(***************************************************************************)
EXTENDS DevFlow

CONSTANTS
  Amount,    \* Amount[a]: what a flow moves (ASSETS)
  Heavy,     \* the calls that touch more than 18 accounts
  Commands   \* the command lines tried

VARIABLE left  \* flows of the command line that have not begun

driverVars == <<flowVars, left>>

Flows == {"supply", "supply-collat", "withdraw", "faucetclaim", "borrow", "repay",
          "freshpair", "nativefaucet"}

DriverTypeOK == FlowTypeOK /\ left \in Seq(Flows)

Init == FlowInit /\ left = <<>>

(* A table is made once per process; keys that it lacks are added, which        *)
(* changes nothing else.                                                   *)
EnsureAlt == <<<<Leg("alt", Base, 0)>>>>

(* runDoTx: a call that touches many accounts needs the table.               *)
DoTx(legs) ==
  (IF \E i \in DOMAIN legs : legs[i].do \in Heavy THEN EnsureAlt ELSE <<>>) \o <<legs>>

Fund(a, n) == <<<<Leg("nativeAta", a, 0), Leg("fund", a, n)>>>>
Home(a, n) == DoTx(<<Leg("homeAta", a, 0), Leg("return", a, n)>>)

-----------------------------------------------------------------------------
(* The flows.                                                              *)

(* The allowance is read before anything is sent.                           *)
DoSupply(h, op, a) ==
  LET n == Amount[a]
      supply == Leg("supply", a, n)
  IN Begin(h, op,
           Fund(a, n) \o (IF acct.allow[a] < n THEN DoTx(<<Leg("approve", a, n)>>) ELSE <<>>)
             \o DoTx(<<supply>>),
           Supplied(supply, Does(Leg("fund", a, n), acct)))

(* "Drawdown only": no more than is supplied.                               *)
DoWithdraw(h, a) ==
  LET supplied == IF acct.base > 0 THEN acct.base ELSE 0
      n == IF supplied < Amount[a] THEN supplied ELSE Amount[a]
      l == Leg("withdraw", a, n)
  IN IF n = 0 THEN Decline(h)
     ELSE Begin(h, "withdraw", DoTx(<<l>>) \o Home(a, n), Does(Leg("return", a, n), Withdrawn(l, acct)))

(* All that is supplied and the amount beyond it.                           *)
DoBorrow(h) ==
  LET n == (IF acct.base > 0 THEN acct.base ELSE 0) + Amount[Base]
      l == Leg("withdraw", Base, n)
  IN Begin(h, "borrow", DoTx(<<l>>) \o Home(Base, n), Does(Leg("return", Base, n), Withdrawn(l, acct)))

(* To the token account of somebody new, made in the same transaction.       *)
DoFreshPair(h) ==
  LET give == Leg("give", Base, Amount[Base])
  IN Begin(h, "freshpair", Fund(Base, give.n) \o DoTx(<<give>>),
           Does(give, Does(Leg("fund", Base, give.n), acct)))

(* The EVM faucet pays the synthetic, the native faucet the wallet.          *)
DoFaucetClaim(h, c) ==
  LET l == Leg("claim", c, 1) IN Begin(h, "faucetclaim", DoTx(<<l>>), Does(l, acct))
DoNativeFaucet(h, c) ==
  LET l == Leg("airdrop", c, 1) IN Begin(h, "nativefaucet", <<<<l>>>>, Does(l, acct))

Do(h, f) ==
  \/ f \in {"supply", "repay"} /\ DoSupply(h, f, Base)
  \/ f = "withdraw" /\ DoWithdraw(h, Base)
  \/ f = "borrow" /\ DoBorrow(h)
  \/ f = "freshpair" /\ DoFreshPair(h)
  \/ \E c \in Colls :
       \/ f = "supply-collat" /\ DoSupply(h, f, c)
       \/ f = "faucetclaim" /\ DoFaucetClaim(h, c)
       \/ f = "nativefaucet" /\ DoNativeFaucet(h, c)

-----------------------------------------------------------------------------
(* main.                                                                   *)

(* The command is given: a process without a table.  Whatever another one      *)
(* sent to make its table no longer matters to this one.                    *)
Launch(h, seq) ==
  /\ ~Running(h) /\ left = <<>>
  /\ left' = seq
  /\ acct' = [acct EXCEPT !.alt = FALSE]
  /\ net' = {x \in net : x.legs[1].do # "alt"}
  /\ UNCHANGED <<run, torn>>

NextFlow(h) ==
  /\ ~Running(h) /\ left # <<>>
  /\ left' = Tail(left)
  /\ Do(h, Head(left))

(* FATAL, or the process is killed: what is left is not done.                *)
Die(h) ==
  /\ left' = <<>>
  /\ \/ Fail(h)
     \/ ~Running(h) /\ left # <<>> /\ UNCHANGED flowVars

Step(h) == (Skip(h) \/ Ask(h) \/ Sign(h) \/ Confirm(h, "none")) /\ UNCHANGED left

Chain == (\E x \in net : Land(x) \/ Refuse(x)) /\ UNCHANGED left

Next ==
  \/ Chain
  \/ \E h \in Handlers :
       \/ \E seq \in Commands : Launch(h, seq)
       \/ NextFlow(h) \/ Step(h) \/ Die(h)

Spec == Init /\ [][Next]_driverVars

-----------------------------------------------------------------------------
(* Properties.                                                             *)

(* What ran to its end left no allowance, and no base asset, with the         *)
(* synthetic; the collateral that the EVM faucet pays is what may stay.      *)
DrivenClean ==
  ~torn /\ (\A h \in Handlers : ~Running(h)) =>
    /\ acct.held[Base] = 0 /\ \A a \in Assets : acct.allow[a] = 0
    /\ (\E a \in Assets : acct.held[a] > 0) => acct.claimed

(* "Drawdown only ... so we never accidentally open a borrow": a withdrawal    *)
(* opens no debt, unless an earlier process's transaction lands in between.   *)
DrawdownOnly(h) ==
  run[h].op = "withdraw" /\ run[h].goal # {} /\ run'[h].goal # {} /\ acct.base >= 0 => acct'.base >= 0
=============================================================================
