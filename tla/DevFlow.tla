------------------------------- MODULE DevFlow -------------------------------
(***************************************************************************)
(* What the two developer pages, app/discovery and app/flows, and the         *)
(* command-line driver have in common: handlers that run one transaction      *)
(* after the other for a Solana wallet and its synthetic, each signed by       *)
(* itself, and the accounts those transactions change.                       *)
(*                                                                         *)
(* A handler takes its amounts from reads made when it begins, and its      *)
(* account nonce from a read made shortly before it signs.  A transaction    *)
(* whose handler gave it up may still land, unless its nonce was used by     *)
(* another one first; a native transfer has no nonce.                       *)
(***************************************************************************)
EXTENDS Integers, Sequences, FiniteSets, Functions

CONSTANTS
  Base,        \* the Comet's base asset
  Colls,       \* its collaterals
  Listed,      \* the base asset and the collaterals, in the Comet's order
  Handlers,    \* handlers that may run at a time
  Starts,      \* accounts at the outset
  NonceFirst,  \* the nonce is read before the lookup table is ensured
  MaxNet       \* bound: transactions in flight

VARIABLES
  acct,  \* the wallet, the synthetic and the Comet, on chain
  net,   \* transactions sent and not executed
  run,   \* run[h]: a handler
  torn   \* history: a handler has failed, or its transaction landed late

flowVars == <<acct, net, run, torn>>

Assets == {Base} \cup Colls
AmountPer(S) == [S -> Nat]
Accts == [wallet: AmountPer(Assets),  \* the Solana wallet's tokens
          spl: SUBSET Assets,         \* its token accounts
          held: AmountPer(Assets),    \* the synthetic's tokens
          ata: SUBSET Assets,         \* its token accounts
          pda: BOOLEAN,               \* its authority
          allow: AmountPer(Assets),   \* what the Comet may pull from it
          base: Int,                  \* its base supply, or its debt below 0
          coll: AmountPer(Colls),     \* its collateral
          alt: BOOLEAN,               \* the registry points to its table
          claimed: BOOLEAN,           \* the faucet has paid
          victim: {"healthy", "under", "absorbed"},
          seized: AmountPer(Colls)]   \* collateral that the Comet sells

ASSUME AssetsAssumption ==
  /\ IsFiniteSet(Colls) /\ Base \notin Colls
  /\ Listed \in Seq(Assets) /\ \A a \in Assets : \E i \in DOMAIN Listed : Listed[i] = a
ASSUME HandlersAssumption == IsFiniteSet(Handlers)
ASSUME StartsAssumption ==
  \A s \in Starts : s \in Accts /\ \A a \in Assets : s.allow[a] = 0

(* A transaction is one leg or two; `ahead` is how many nonces it is ahead    *)
(* of the account's, and below 0 it can never execute.  Of a handler it is    *)
(* that of the nonce it has read, `used` the nonces it used since.            *)
Unread == 2
Leg(do, a, n) == [do |-> do, asset |-> a, n |-> n]
Native == {"nativeAta", "walletAta", "homeAta", "fund", "alt", "airdrop"}
Kinds == Native \cup {"pda", "ata", "approve", "topUp", "supply", "withdraw", "return", "give",
                      "absorb", "buy", "claim", "look"}
Legs == [do: Kinds, asset: Assets, n: Nat]
NonceOf(l) == IF l.do \in Native THEN 0 ELSE 1
Nonces(legs) == NonceOf(legs[1]) + (IF Len(legs) = 2 THEN NonceOf(legs[2]) ELSE 0)

Worth(s) == [wallet |-> s.wallet, held |-> s.held, base |-> s.base, coll |-> s.coll]
Resting == {"idle", "ok"}
Running(h) == run[h].pc \notin Resting
Idle == [pc |-> "idle", op |-> "none", todo |-> <<>>, ahead |-> Unread, used |-> 0,
         landed |-> FALSE, goal |-> {}]

FlowTypeOK ==
  /\ acct \in Accts
  /\ \A x \in net : x.by \in Handlers /\ x.ahead \in -2 .. 1 /\ x.legs \in Seq(Legs)
  /\ \A h \in Handlers :
       /\ run[h].pc \in {"next", "popup", "sent"} \cup Resting
       /\ run[h].todo \in Seq(Seq(Legs)) /\ run[h].ahead \in -2 .. Unread
       /\ run[h].used \in 0 .. 1 /\ run[h].landed \in BOOLEAN
       /\ \A v, w \in run[h].goal : v = w
  /\ torn \in BOOLEAN

FlowInit ==
  /\ acct \in Starts /\ net = {} /\ run = [h \in Handlers |-> Idle] /\ torn = FALSE

-----------------------------------------------------------------------------
(* The chain.  What a leg needs, and what it does.                          *)

(* The base asset's debt is covered; the smallest debt is 1.                 *)
Solvent(s) == s.base >= 0 \/ -s.base <= SumFunction(s.coll)

(* Base repays a debt first, and the rest is supplied.                      *)
Supplied(l, s) ==
  [s EXCEPT !.held[l.asset] = @ - l.n, !.allow[l.asset] = @ - l.n,
            !.base = IF l.asset = Base THEN @ + l.n ELSE @,
            !.coll = [c \in Colls |-> IF c = l.asset THEN @[c] + l.n ELSE @[c]]]

(* Base beyond the supply is borrowed.                                      *)
Withdrawn(l, s) ==
  [s EXCEPT !.held[l.asset] = @ + l.n,
            !.base = IF l.asset = Base THEN @ - l.n ELSE @,
            !.coll = [c \in Colls |-> IF c = l.asset THEN @[c] - l.n ELSE @[c]]]

Can(l, s) ==
  CASE l.do = "ata" -> s.pda
    [] l.do = "fund" -> l.asset \in s.ata /\ s.wallet[l.asset] >= l.n
    [] l.do \in {"approve", "topUp"} -> l.asset \in s.ata
    [] l.do = "supply" -> s.held[l.asset] >= l.n /\ s.allow[l.asset] >= l.n
    [] l.do = "withdraw" -> /\ l.asset \in s.ata
                            /\ l.asset \in Colls => s.coll[l.asset] >= l.n
                            /\ Solvent(Withdrawn(l, s))
    [] l.do = "return" -> l.asset \in s.spl /\ s.held[l.asset] >= l.n
    [] l.do = "give" -> s.held[l.asset] >= l.n
    [] l.do = "absorb" -> s.victim = "under"
    [] l.do = "buy" -> /\ s.held[Base] >= l.n /\ s.allow[Base] >= l.n
                       /\ s.seized[l.asset] >= l.n /\ l.asset \in s.ata
    [] l.do \in {"claim", "airdrop"} -> ~s.claimed /\ (l.do = "claim" => l.asset \in s.ata)
    [] OTHER -> TRUE

Does(l, s) ==
  CASE l.do = "pda" -> [s EXCEPT !.pda = TRUE]
    [] l.do \in {"ata", "nativeAta"} -> [s EXCEPT !.ata = @ \cup {l.asset}]
    [] l.do \in {"walletAta", "homeAta"} -> [s EXCEPT !.spl = @ \cup {l.asset}]
    [] l.do = "alt" -> [s EXCEPT !.alt = TRUE]
    [] l.do = "fund" -> [s EXCEPT !.wallet[l.asset] = @ - l.n, !.held[l.asset] = @ + l.n]
    [] l.do \in {"approve", "topUp"} -> [s EXCEPT !.allow[l.asset] = l.n]
    [] l.do = "supply" -> Supplied(l, s)
    [] l.do = "withdraw" -> Withdrawn(l, s)
    [] l.do = "return" -> [s EXCEPT !.held[l.asset] = @ - l.n, !.wallet[l.asset] = @ + l.n]
    [] l.do = "give" -> [s EXCEPT !.held[l.asset] = @ - l.n]
    [] l.do = "absorb" -> [s EXCEPT !.victim = "absorbed", !.seized[l.asset] = @ + 1]
    [] l.do = "buy" -> [s EXCEPT !.held[Base] = @ - l.n, !.held[l.asset] = @ + l.n,
                                 !.allow[Base] = @ - l.n, !.seized[l.asset] = @ - l.n]
    [] l.do = "claim" -> [s EXCEPT !.claimed = TRUE, !.held[l.asset] = @ + l.n]
    [] l.do = "airdrop" -> [s EXCEPT !.claimed = TRUE, !.wallet[l.asset] = @ + l.n,
                                     !.spl = @ \cup {l.asset}]

(* All legs, or none.                                                      *)
AllCan(legs, s) == Can(legs[1], s) /\ (Len(legs) = 2 => Can(legs[2], Does(legs[1], s)))
AllDo(legs, s) == IF Len(legs) = 1 THEN Does(legs[1], s) ELSE Does(legs[2], Does(legs[1], s))

Behind(ahead, k) ==
  IF ahead = Unread THEN Unread ELSE IF ahead - k >= -2 THEN ahead - k ELSE -2

(* A transaction executes: every other one, and every nonce that was read,   *)
(* falls behind by the nonces it used.                                      *)
Land(x) ==
  /\ x \in net
  /\ Nonces(x.legs) > 0 => x.ahead = 0
  /\ AllCan(x.legs, acct)
  /\ acct' = AllDo(x.legs, acct)
  /\ net' = {[y EXCEPT !.ahead = IF Nonces(y.legs) = 0 THEN @ ELSE Behind(@, Nonces(x.legs))] :
               y \in net \ {x}}
  /\ LET mine(h) == /\ h = x.by /\ run[h].pc = "sent" /\ ~run[h].landed
                    /\ run[h].todo[1] = x.legs
     IN /\ run' = [h \in Handlers |->
              [run[h] EXCEPT !.ahead = Behind(@, Nonces(x.legs)),
                             !.landed = @ \/ mine(h),
                             !.goal = IF mine(h) THEN @ ELSE {}]]
        /\ torn' = (torn \/ ~mine(x.by))

(* It reverts, its nonce is used up, or its blockhash is over.               *)
Refuse(x) ==
  /\ x \in net
  /\ net' = net \ {x}
  /\ UNCHANGED <<acct, run, torn>>

(* The market moves under the account that may be absorbed.                 *)
MoveVictim ==
  /\ acct.victim # "absorbed"
  /\ acct' = [acct EXCEPT !.victim = IF @ = "under" THEN "healthy" ELSE "under"]
  /\ UNCHANGED <<net, run, torn>>

-----------------------------------------------------------------------------
(* The handlers' steps.                                                    *)
Become(h, r) == run' = [run EXCEPT ![h] = r]

(* A handler begins with all it is going to send.  `goal` is what it promises, *)
(* as long as nobody else's transaction lands.                              *)
Begin(h, op, todo, goal) ==
  /\ Become(h, [Idle EXCEPT !.pc = "next", !.op = op, !.todo = todo, !.goal = {Worth(goal)}])
  /\ UNCHANGED <<acct, net, torn>>

(* A handler returns before it has sent anything.                           *)
Decline(h) == Become(h, Idle) /\ UNCHANGED <<acct, net, torn>>

(* What is there already is not made again.                                 *)
Present(l) ==
  CASE l.do = "pda" -> acct.pda
    [] l.do = "ata" -> l.asset \in acct.ata
    [] l.do = "walletAta" -> l.asset \in acct.spl
    [] l.do = "topUp" -> acct.allow[l.asset] >= l.n
    [] l.do = "alt" -> acct.alt
    [] OTHER -> FALSE

Ended == [Idle EXCEPT !.pc = "ok"]
Advance(r) == IF Len(r.todo) = 1 THEN Ended ELSE [r EXCEPT !.pc = "next", !.todo = Tail(@), !.landed = FALSE]

Skip(h) ==
  /\ run[h].pc = "next" /\ Present(run[h].todo[1][1])
  /\ Become(h, Advance(run[h]))
  /\ UNCHANGED <<acct, net, torn>>

(* The next transaction is built and shown to the wallet, with a nonce that   *)
(* is read now unless the handler still has one to use.                     *)
Ask(h) ==
  LET r == run[h]
      reads == Nonces(r.todo[1]) > 0 \/ (NonceFirst /\ r.todo[1][1].do = "alt")
  IN /\ r.pc = "next" /\ ~Present(r.todo[1][1]) /\ r.todo[1][1].do # "look"
     /\ Become(h, [r EXCEPT !.pc = "popup",
                            !.ahead = IF @ = Unread /\ reads THEN 0 ELSE @])
     /\ UNCHANGED <<acct, net, torn>>

Sign(h) ==
  LET r == run[h]
  IN /\ r.pc = "popup" /\ Cardinality(net) < MaxNet
     /\ net' = net \cup {[legs |-> r.todo[1], by |-> h,
                          ahead |-> IF Nonces(r.todo[1]) = 0 THEN 0 ELSE r.ahead + r.used]}
     /\ Become(h, [r EXCEPT !.pc = "sent", !.landed = FALSE])
     /\ UNCHANGED <<acct, torn>>

(* The receipt is in.  A nonce is read anew for the next transaction, but     *)
(* for one read before the table was ensured, and for the probe's split      *)
(* withdrawal (`prebuilt`).                                                *)
Confirm(h, prebuilt) ==
  LET r == run[h]
      keeps == Len(r.todo) > 1 /\ (r.op = prebuilt \/ (NonceFirst /\ r.todo[1][1].do = "alt"))
  IN /\ r.pc = "sent" /\ r.landed
     /\ Become(h, [Advance(r) EXCEPT !.ahead = IF keeps THEN @ ELSE Unread,
                                   !.used = IF keeps THEN Nonces(r.todo[1]) ELSE 0])
     /\ UNCHANGED <<acct, net, torn>>

(* catch: the wallet refuses, the transaction reverts, or nothing is heard    *)
(* of it until the deadline, although it may land yet.                      *)
Fail(h) ==
  /\ Running(h)
  /\ Become(h, Idle)
  /\ torn' = TRUE
  /\ UNCHANGED <<acct, net>>

ChainStep == MoveVictim \/ \E x \in net : Land(x) \/ Refuse(x)
HandlerStep(h, prebuilt) ==
  Skip(h) \/ Ask(h) \/ Sign(h) \/ Confirm(h, prebuilt) \/ Fail(h)

(* A step with which the handler ends well.                                 *)
Ends(h) == Running(h) /\ run'[h].pc = "ok"

(* It does all that its button says, if nothing else landed meanwhile.        *)
AsPromised(h) == Ends(h) => \A w \in run[h].goal : Worth(acct') = w
=============================================================================
