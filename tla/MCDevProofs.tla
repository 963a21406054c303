----------------------------- MODULE MCDevProofs -----------------------------
(***************************************************************************)
(* Theorems about the developer tools (MCDev): every page keeps its types,     *)
(* leaves nothing behind at rest, and a flow that ends well has done what its  *)
(* button says, for every asset list, every number of handlers and of           *)
(* transactions in flight.                                                 *)
(*                                                                         *)
(* What a handler still has to send is a plan.  A relation says what a leg     *)
(* does to some amount: the tokens a plan leaves with the synthetic, the        *)
(* allowance it leaves open, all that the wallet, the synthetic and the Comet   *)
(* are worth.  A path along a plan, from the amount now to the amount promised, *)
(* is what every step of the handler keeps: it takes the first transaction     *)
(* off the plan and the first step off the path.                            *)
(***************************************************************************)
EXTENDS MCDev, SumLemmas

-----------------------------------------------------------------------------
(* Plans.                                                                  *)

Acts == {"pda", "ata", "nativeAta", "walletAta", "homeAta", "alt", "fund", "approve", "topUp",
         "supply", "withdraw", "return", "give", "absorb", "buy", "claim", "airdrop"}
Deeds == {l \in [do : Acts \cup {"look"}, asset : Assets, n : Nat] :
            l.do \in {"absorb", "buy", "claim", "look"} => l.asset \in Colls}
Firsts == {l \in Deeds : l.do \in {"nativeAta", "homeAta", "fund", "withdraw"}}
Seconds == {l \in Deeds : l.do \in {"fund", "return", "approve"}}
Txs == {<<l>> : l \in Deeds} \cup {<<p[1], p[2]>> : p \in Firsts \X Seconds}
Plans == Seq(Txs)

(* What can be sent is not a look.                                         *)
IsLook(t) == t[1].do = "look"

LEMMA TxIs ==
  ASSUME NEW t \in Txs
  PROVE  /\ t \in Seq(Deeds) /\ Len(t) \in {1, 2} /\ t[1] \in Deeds
         /\ Len(t) = 2 => t[1] \in Firsts /\ t[2] \in Seconds /\ t[2] \in Deeds /\ t = <<t[1], t[2]>>
         /\ Len(t) = 1 => t = <<t[1]>>
<1>1. CASE \E l \in Deeds : t = <<l>>
  BY <1>1
<1>2. CASE \E p \in Firsts \X Seconds : t = <<p[1], p[2]>>
  BY <1>2 DEF Firsts, Seconds
<1> QED
  BY <1>1, <1>2 DEF Txs

LEMMA TxOne == ASSUME NEW l \in Deeds PROVE <<l>> \in Txs
BY DEF Txs

LEMMA TxTwo == ASSUME NEW k \in Firsts, NEW l \in Seconds PROVE <<k, l>> \in Txs
<1>1. <<k, l>> \in Firsts \X Seconds
  OBVIOUS
<1> QED
  BY <1>1 DEF Txs

-----------------------------------------------------------------------------
(* Paths.                                                                  *)

(* A transaction leads from x to y, where a leg leads as the relation R says. *)
Via(X, R, t, x, y) ==
  \E z \in X : <<t[1], x, z>> \in R /\ IF Len(t) = 1 THEN y = z ELSE <<t[2], z, y>> \in R

(* A plan leads from s to g.                                               *)
Along(X, R, P, s, g) ==
  \E w \in [1 .. Len(P) + 1 -> X] :
    w[1] = s /\ w[Len(P) + 1] = g /\ \A i \in 1 .. Len(P) : Via(X, R, P[i], w[i], w[i + 1])

LEMMA AlongNil ==
  ASSUME NEW X, NEW R, NEW s \in X, NEW g
  PROVE  Along(X, R, <<>>, s, g) <=> s = g
<1>1. ASSUME s = g PROVE Along(X, R, <<>>, s, g)
  <2> DEFINE w == [i \in 1 .. 1 |-> s]
  <2>1. w \in [1 .. Len(<<>>) + 1 -> X] /\ w[1] = s /\ w[Len(<<>>) + 1] = g
    BY <1>1
  <2>2. \A i \in 1 .. Len(<<>>) : FALSE
    OBVIOUS
  <2> QED
    BY <2>1, <2>2 DEF Along
<1> QED
  BY <1>1 DEF Along

LEMMA AlongOne ==
  ASSUME NEW X, NEW R, NEW t, NEW s \in X, NEW g \in X, Via(X, R, t, s, g)
  PROVE  Along(X, R, <<t>>, s, g)
<1> DEFINE w == [i \in 1 .. 2 |-> IF i = 1 THEN s ELSE g]
<1>1. Len(<<t>>) = 1 /\ <<t>>[1] = t
  OBVIOUS
<1>2. w \in [1 .. Len(<<t>>) + 1 -> X] /\ w[1] = s /\ w[2] = g
  BY <1>1
<1> HIDE DEF w
<1>3. \A i \in 1 .. Len(<<t>>) : Via(X, R, <<t>>[i], w[i], w[i + 1])
  BY <1>1, <1>2
<1> QED
  BY <1>1, <1>2, <1>3 DEF Along

LEMMA AlongCat ==
  ASSUME NEW X, NEW R, NEW P \in Plans, NEW Q \in Plans, NEW s, NEW m, NEW g,
         Along(X, R, P, s, m), Along(X, R, Q, m, g)
  PROVE  Along(X, R, P \o Q, s, g)
<1>1. PICK v \in [1 .. Len(P) + 1 -> X] :
        v[1] = s /\ v[Len(P) + 1] = m /\ \A i \in 1 .. Len(P) : Via(X, R, P[i], v[i], v[i + 1])
  BY DEF Along
<1>2. PICK w \in [1 .. Len(Q) + 1 -> X] :
        w[1] = m /\ w[Len(Q) + 1] = g /\ \A i \in 1 .. Len(Q) : Via(X, R, Q[i], w[i], w[i + 1])
  BY DEF Along
<1> DEFINE n == Len(P)
           k == Len(Q)
           u == [i \in 1 .. n + k + 1 |-> IF i <= n THEN v[i] ELSE w[i - n]]
<1>3. n \in Nat /\ k \in Nat /\ Len(P \o Q) = n + k
  BY DEF Plans
<1>4. /\ \A i \in 1 .. n : (P \o Q)[i] = P[i]
      /\ \A i \in n + 1 .. n + k : (P \o Q)[i] = Q[i - n]
  BY DEF Plans
<1>5. u \in [1 .. n + k + 1 -> X]
  BY <1>1, <1>2, <1>3
<1>6. u[1] = s /\ u[n + k + 1] = g
  BY <1>1, <1>2, <1>3
<1>7. ASSUME NEW i \in 1 .. n + k PROVE Via(X, R, (P \o Q)[i], u[i], u[i + 1])
  <2>1. CASE i < n
    <3>1. i \in 1 .. n /\ u[i] = v[i] /\ u[i + 1] = v[i + 1]
      BY <2>1, <1>3
    <3> QED
      BY <3>1, <1>1, <1>4
  <2>2. CASE i = n
    <3>1. i \in 1 .. n /\ u[i] = v[i] /\ u[i + 1] = w[1] /\ w[1] = v[i + 1]
      BY <2>2, <1>1, <1>2, <1>3
    <3> QED
      BY <3>1, <1>1, <1>4
  <2>3. CASE i > n
    <3>1. i - n \in 1 .. k /\ i \in n + 1 .. n + k /\ u[i] = w[i - n] /\ u[i + 1] = w[(i - n) + 1]
      BY <2>3, <1>3
    <3> QED
      BY <3>1, <1>2, <1>4
  <2> QED
    BY <2>1, <2>2, <2>3, <1>3
<1> HIDE DEF u, n, k
<1> QED
  BY <1>3, <1>5, <1>6, <1>7 DEF Along

LEMMA AlongTail ==
  ASSUME NEW X, NEW R, NEW P \in Plans, P # <<>>, NEW s, NEW g, Along(X, R, P, s, g)
  PROVE  \E m \in X : Via(X, R, P[1], s, m) /\ Along(X, R, Tail(P), m, g)
<1>1. PICK v \in [1 .. Len(P) + 1 -> X] :
        v[1] = s /\ v[Len(P) + 1] = g /\ \A i \in 1 .. Len(P) : Via(X, R, P[i], v[i], v[i + 1])
  BY DEF Along
<1> DEFINE n == Len(P)
           u == [i \in 1 .. n |-> v[i + 1]]
<1>2. n \in Nat /\ n >= 1 /\ Len(Tail(P)) = n - 1 /\ \A i \in 1 .. n - 1 : Tail(P)[i] = P[i + 1]
  BY DEF Plans
<1>3. u \in [1 .. (n - 1) + 1 -> X] /\ u[1] = v[2] /\ u[(n - 1) + 1] = g
  BY <1>1, <1>2
<1>4. ASSUME NEW i \in 1 .. n - 1 PROVE Via(X, R, Tail(P)[i], u[i], u[i + 1])
  <2>1. i + 1 \in 1 .. n /\ u[i] = v[i + 1] /\ u[i + 1] = v[(i + 1) + 1]
    BY <1>2
  <2> QED
    BY <2>1, <1>1, <1>2
<1> HIDE DEF u
<1>5. Along(X, R, Tail(P), v[2], g)
  BY <1>2, <1>3, <1>4 DEF Along
<1>6. Via(X, R, P[1], s, v[1 + 1]) /\ v[2] \in X
  BY <1>1, <1>2
<1> QED
  BY <1>5, <1>6

(* A plan whose every transaction leads from s to s.                       *)
LEMMA AlongStill ==
  ASSUME NEW X, NEW R, NEW P \in Plans, NEW s \in X, \A i \in 1 .. Len(P) : Via(X, R, P[i], s, s)
  PROVE  Along(X, R, P, s, s)
<1> DEFINE w == [i \in 1 .. Len(P) + 1 |-> s]
<1>1. Len(P) \in Nat
  BY DEF Plans
<1>2. w \in [1 .. Len(P) + 1 -> X] /\ w[1] = s /\ w[Len(P) + 1] = s
  BY <1>1
<1>3. \A i \in 1 .. Len(P) : w[i] = s /\ w[i + 1] = s
  BY <1>1
<1> HIDE DEF w
<1> QED
  BY <1>2, <1>3 DEF Along

-----------------------------------------------------------------------------
(* What a leg does to some amount.                                         *)

Worths == [wallet : [Assets -> Int], held : [Assets -> Int], base : Int, coll : [Colls -> Int]]

(* All amounts at once.  A look that is in `home` is followed by bringing home *)
(* all that the synthetic holds (LookBought).                              *)
Amounts(wallet, held, base, coll) == [wallet |-> wallet, held |-> held, base |-> base, coll |-> coll]
Moved(home, l, w) ==
  CASE l.do = "fund" ->
         Amounts([w.wallet EXCEPT ![l.asset] = @ - l.n], [w.held EXCEPT ![l.asset] = @ + l.n], w.base, w.coll)
    [] l.do = "supply" ->
         Amounts(w.wallet, [w.held EXCEPT ![l.asset] = @ - l.n],
                 IF l.asset = Base THEN w.base + l.n ELSE w.base,
                 [c \in Colls |-> IF c = l.asset THEN w.coll[c] + l.n ELSE w.coll[c]])
    [] l.do = "withdraw" ->
         Amounts(w.wallet, [w.held EXCEPT ![l.asset] = @ + l.n],
                 IF l.asset = Base THEN w.base - l.n ELSE w.base,
                 [c \in Colls |-> IF c = l.asset THEN w.coll[c] - l.n ELSE w.coll[c]])
    [] l.do = "return" ->
         Amounts([w.wallet EXCEPT ![l.asset] = @ + l.n], [w.held EXCEPT ![l.asset] = @ - l.n], w.base, w.coll)
    [] l.do = "give" -> Amounts(w.wallet, [w.held EXCEPT ![l.asset] = @ - l.n], w.base, w.coll)
    [] l.do = "buy" ->
         Amounts(w.wallet, [w.held EXCEPT ![Base] = w.held[Base] - l.n, ![l.asset] = w.held[l.asset] + l.n], w.base, w.coll)
    [] l.do = "claim" -> Amounts(w.wallet, [w.held EXCEPT ![l.asset] = @ + l.n], w.base, w.coll)
    [] l.do = "airdrop" -> Amounts([w.wallet EXCEPT ![l.asset] = @ + l.n], w.held, w.base, w.coll)
    [] l.do = "look" /\ l.do \in home ->
         Amounts([w.wallet EXCEPT ![l.asset] = @ + w.held[l.asset]], [w.held EXCEPT ![l.asset] = 0], w.base, w.coll)
    [] OTHER -> w
Moves(home) == {e \in Deeds \X Worths \X Worths : e[3] = Moved(home, e[1], e[2])}

(* An upper bound of the allowance left open for asset a: what is granted is *)
(* used up by what is supplied or spent.                                   *)
Grants(l, a) == l.do \in {"approve", "topUp"} /\ l.asset = a
Spends(l, a) == (l.do = "supply" /\ l.asset = a) \/ (l.do = "buy" /\ a = Base)
Owes(a) ==
  {e \in Deeds \X Nat \X Nat :
     /\ Spends(e[1], a) => e[2] <= e[1].n
     /\ Grants(e[1], a) => e[3] >= e[1].n
     /\ ~Spends(e[1], a) /\ ~(Grants(e[1], a) /\ e[1].do = "approve") => e[3] >= e[2]}

(* An upper bound of what the synthetic holds of asset a.  A leg whose kind is *)
(* in `gifts` may leave more of it there.                                  *)
Gain(a, l) ==
  CASE l.do \in {"fund", "withdraw", "claim"} /\ l.asset = a -> l.n
    [] l.do \in {"supply", "return", "give"} /\ l.asset = a -> -l.n
    [] l.do = "buy" /\ l.asset = a -> l.n
    [] l.do = "buy" /\ l.asset # a /\ a = Base -> -l.n
    [] OTHER -> 0
Leaves(gifts, a, l) == (l.do = "look" /\ l.asset = a) \/ l.do \in gifts
Holds(gifts, a) ==
  {e \in Deeds \X Nat \X Nat :
     /\ Leaves(gifts, a, e[1]) \/ e[3] >= e[2] + Gain(a, e[1])
     /\ e[1].do \in gifts => e[3] >= e[2]}

(* A lower bound of the base supply.                                       *)
Draws ==
  {e \in Deeds \X Nat \X Nat :
     e[3] <= e[2] - (IF e[1].do = "withdraw" /\ e[1].asset = Base THEN e[1].n ELSE 0)}

LEMMA InMoves ==
  ASSUME NEW home, NEW l \in Deeds, NEW w \in Worths, NEW v \in Worths
  PROVE  <<l, w, v>> \in Moves(home) <=> v = Moved(home, l, w)
BY DEF Moves

LEMMA InOwes ==
  ASSUME NEW a, NEW l \in Deeds, NEW x \in Nat, NEW y \in Nat
  PROVE  <<l, x, y>> \in Owes(a) <=>
           /\ Spends(l, a) => x <= l.n
           /\ Grants(l, a) => y >= l.n
           /\ ~Spends(l, a) /\ ~(Grants(l, a) /\ l.do = "approve") => y >= x
BY DEF Owes

LEMMA InHolds ==
  ASSUME NEW gifts, NEW a, NEW l \in Deeds, NEW x \in Nat, NEW y \in Nat
  PROVE  <<l, x, y>> \in Holds(gifts, a) <=>
           /\ Leaves(gifts, a, l) \/ y >= x + Gain(a, l)
           /\ l.do \in gifts => y >= x
BY DEF Holds

LEMMA InDraws ==
  ASSUME NEW l \in Deeds, NEW x \in Nat, NEW y \in Nat
  PROVE  <<l, x, y>> \in Draws <=>
           y <= x - (IF l.do = "withdraw" /\ l.asset = Base THEN l.n ELSE 0)
BY DEF Draws

-----------------------------------------------------------------------------
(* What a leg does to the accounts.                                        *)

(* Accounts as they are, with natural amounts, and as a handler reckons with *)
(* when it begins, with amounts that may be below 0.                       *)
Ledger(N) ==
  [wallet : [Assets -> N], spl : SUBSET Assets, held : [Assets -> N], ata : SUBSET Assets,
   pda : BOOLEAN, allow : [Assets -> N], base : Int, coll : [Colls -> N], alt : BOOLEAN,
   claimed : BOOLEAN, victim : {"healthy", "under", "absorbed"}, seized : [Colls -> N]]
Books == Ledger(Int)

LEMMA AcctsIs == Accts = Ledger(Nat)
BY DEF Accts, AmountPer, Ledger

LEMMA BooksHere == ASSUME NEW s \in Accts PROVE s \in Books
BY DEF Accts, AmountPer, Books, Ledger

LEMMA WorthType == ASSUME NEW s \in Books PROVE Worth(s) \in Worths
BY DEF Worth, Worths, Books, Ledger

(* What no amount may fall below, of all that a leg needs.                 *)
Able(l, s) ==
  /\ l.do = "fund" => s.wallet[l.asset] >= l.n
  /\ l.do = "supply" => s.held[l.asset] >= l.n /\ s.allow[l.asset] >= l.n
  /\ l.do = "withdraw" /\ l.asset \in Colls => s.coll[l.asset] >= l.n
  /\ l.do \in {"return", "give"} => s.held[l.asset] >= l.n
  /\ l.do = "buy" => s.held[Base] >= l.n /\ s.allow[Base] >= l.n /\ s.seized[l.asset] >= l.n
AllAble(legs, s) == Able(legs[1], s) /\ (Len(legs) = 2 => Able(legs[2], Does(legs[1], s)))

LEMMA CanAble == ASSUME NEW l, NEW s, Can(l, s) PROVE Able(l, s)
BY DEF Can, Able

(* A leg that is sent keeps the books, and the accounts if it can be executed, *)
(* and moves what its relation says.                                       *)
LEMMA DoesLedger ==
  ASSUME NEW l \in Deeds, l.do # "look", NEW N \in {Nat, Int}, NEW s \in Ledger(N),
         N = Nat => Able(l, s), NEW home
  PROVE  Does(l, s) \in Ledger(N) /\ Worth(Does(l, s)) = Moved(home, l, Worth(s))
<1>0. l.asset \in Assets /\ l.n \in Nat /\ l.n \in Int /\ l.n \in N /\ Base \in Assets
  BY DEF Deeds, Assets
<1>00. s.wallet \in [Assets -> N] /\ s.held \in [Assets -> N] /\ s.allow \in [Assets -> N]
         /\ s.coll \in [Colls -> N] /\ s.seized \in [Colls -> N] /\ s.base \in Int
  BY DEF Ledger
<1>1. CASE l.do = "pda"
  <2>1. Does(l, s) = [s EXCEPT !.pda = TRUE]
    BY <1>0, <1>00, <1>1 DEF Does, Ledger
  <2>4. Moved(home, l, Worth(s)) = Worth(s)
    BY <1>1 DEF Moved, Worth
  <2>5. Does(l, s) \in Ledger(N)
    BY <2>1 DEF Ledger
  <2>6. Worth(Does(l, s)) = Worth(s)
    BY <2>1 DEF Worth, Ledger
  <2> QED
    BY <2>4, <2>5, <2>6
<1>2. CASE l.do \in {"ata", "nativeAta"}
  <2> DEFINE ata == s.ata \cup {l.asset}
  <2>1. Does(l, s) = [s EXCEPT !.ata = ata]
    BY <1>0, <1>00, <1>2 DEF Does, Ledger
  <2>3. ata \in SUBSET Assets
    BY <1>0, <1>00, <1>2 DEF Ledger
  <2>4. Moved(home, l, Worth(s)) = Worth(s)
    BY <1>2 DEF Moved, Worth
  <2> HIDE DEF ata
  <2>5. Does(l, s) \in Ledger(N)
    BY <2>1, <2>3 DEF Ledger
  <2>6. Worth(Does(l, s)) = Worth(s)
    BY <2>1 DEF Worth, Ledger
  <2> QED
    BY <2>4, <2>5, <2>6
<1>3. CASE l.do \in {"walletAta", "homeAta"}
  <2> DEFINE spl == s.spl \cup {l.asset}
  <2>1. Does(l, s) = [s EXCEPT !.spl = spl]
    BY <1>0, <1>00, <1>3 DEF Does, Ledger
  <2>3. spl \in SUBSET Assets
    BY <1>0, <1>00, <1>3 DEF Ledger
  <2>4. Moved(home, l, Worth(s)) = Worth(s)
    BY <1>3 DEF Moved, Worth
  <2> HIDE DEF spl
  <2>5. Does(l, s) \in Ledger(N)
    BY <2>1, <2>3 DEF Ledger
  <2>6. Worth(Does(l, s)) = Worth(s)
    BY <2>1 DEF Worth, Ledger
  <2> QED
    BY <2>4, <2>5, <2>6
<1>4. CASE l.do = "alt"
  <2>1. Does(l, s) = [s EXCEPT !.alt = TRUE]
    BY <1>0, <1>00, <1>4 DEF Does, Ledger
  <2>4. Moved(home, l, Worth(s)) = Worth(s)
    BY <1>4 DEF Moved, Worth
  <2>5. Does(l, s) \in Ledger(N)
    BY <2>1 DEF Ledger
  <2>6. Worth(Does(l, s)) = Worth(s)
    BY <2>1 DEF Worth, Ledger
  <2> QED
    BY <2>4, <2>5, <2>6
<1>5. CASE l.do = "fund"
  <2> DEFINE wallet == [s.wallet EXCEPT ![l.asset] = @ - l.n]
             held == [s.held EXCEPT ![l.asset] = @ + l.n]
  <2>1. Does(l, s) = [s EXCEPT !.wallet = wallet, !.held = held]
    BY <1>0, <1>00, <1>5 DEF Does, Ledger
  <2>2. N = Nat => s.wallet[l.asset] >= l.n
    BY <1>5 DEF Able
  <2>3. wallet \in [Assets -> N] /\ held \in [Assets -> N]
    BY <1>0, <1>00, <1>5, <2>2 DEF Ledger
  <2>4. Moved(home, l, Worth(s)) = Amounts(wallet, held, s.base, s.coll)
    BY <1>5 DEF Moved, Worth, Amounts
  <2> HIDE DEF wallet, held
  <2>5. Does(l, s) \in Ledger(N)
    BY <2>1, <2>3 DEF Ledger
  <2>6. Worth(Does(l, s)) = Amounts(wallet, held, s.base, s.coll)
    BY <2>1 DEF Worth, Ledger, Amounts
  <2> QED
    BY <2>4, <2>5, <2>6
<1>6. CASE l.do \in {"approve", "topUp"}
  <2> DEFINE allow == [s.allow EXCEPT ![l.asset] = l.n]
  <2>1. Does(l, s) = [s EXCEPT !.allow = allow]
    BY <1>0, <1>00, <1>6 DEF Does, Ledger
  <2>3. allow \in [Assets -> N]
    BY <1>0, <1>00, <1>6 DEF Ledger
  <2>4. Moved(home, l, Worth(s)) = Worth(s)
    BY <1>6 DEF Moved, Worth
  <2> HIDE DEF allow
  <2>5. Does(l, s) \in Ledger(N)
    BY <2>1, <2>3 DEF Ledger
  <2>6. Worth(Does(l, s)) = Worth(s)
    BY <2>1 DEF Worth, Ledger
  <2> QED
    BY <2>4, <2>5, <2>6
<1>7. CASE l.do = "supply"
  <2> DEFINE held == [s.held EXCEPT ![l.asset] = @ - l.n]
             allow == [s.allow EXCEPT ![l.asset] = @ - l.n]
             base == IF l.asset = Base THEN s.base + l.n ELSE s.base
             coll == [c \in Colls |-> IF c = l.asset THEN s.coll[c] + l.n ELSE s.coll[c]]
  <2>1. Does(l, s) = [s EXCEPT !.held = held, !.allow = allow, !.base = base, !.coll = coll]
    BY <1>0, <1>00, <1>7 DEF Does, Ledger, Supplied
  <2>2. N = Nat => s.held[l.asset] >= l.n /\ s.allow[l.asset] >= l.n
    BY <1>7 DEF Able
  <2>3. held \in [Assets -> N] /\ allow \in [Assets -> N] /\ base \in Int /\ coll \in [Colls -> N]
    BY <1>0, <1>00, <1>7, <2>2 DEF Ledger
  <2>4. Moved(home, l, Worth(s)) = Amounts(s.wallet, held, base, coll)
    BY <1>7 DEF Moved, Worth, Amounts
  <2> HIDE DEF held, allow, base, coll
  <2>5. Does(l, s) \in Ledger(N)
    BY <2>1, <2>3 DEF Ledger
  <2>6. Worth(Does(l, s)) = Amounts(s.wallet, held, base, coll)
    BY <2>1 DEF Worth, Ledger, Amounts
  <2> QED
    BY <2>4, <2>5, <2>6
<1>8. CASE l.do = "withdraw"
  <2> DEFINE held == [s.held EXCEPT ![l.asset] = @ + l.n]
             base == IF l.asset = Base THEN s.base - l.n ELSE s.base
             coll == [c \in Colls |-> IF c = l.asset THEN s.coll[c] - l.n ELSE s.coll[c]]
  <2>1. Does(l, s) = [s EXCEPT !.held = held, !.base = base, !.coll = coll]
    BY <1>0, <1>00, <1>8 DEF Does, Ledger, Withdrawn
  <2>2. N = Nat => (l.asset \in Colls => s.coll[l.asset] >= l.n)
    BY <1>8 DEF Able
  <2>3. held \in [Assets -> N] /\ base \in Int /\ coll \in [Colls -> N]
    BY <1>0, <1>00, <1>8, <2>2 DEF Ledger
  <2>4. Moved(home, l, Worth(s)) = Amounts(s.wallet, held, base, coll)
    BY <1>8 DEF Moved, Worth, Amounts
  <2> HIDE DEF held, base, coll
  <2>5. Does(l, s) \in Ledger(N)
    BY <2>1, <2>3 DEF Ledger
  <2>6. Worth(Does(l, s)) = Amounts(s.wallet, held, base, coll)
    BY <2>1 DEF Worth, Ledger, Amounts
  <2> QED
    BY <2>4, <2>5, <2>6
<1>9. CASE l.do = "return"
  <2> DEFINE held == [s.held EXCEPT ![l.asset] = @ - l.n]
             wallet == [s.wallet EXCEPT ![l.asset] = @ + l.n]
  <2>1. Does(l, s) = [s EXCEPT !.held = held, !.wallet = wallet]
    BY <1>0, <1>00, <1>9 DEF Does, Ledger
  <2>2. N = Nat => s.held[l.asset] >= l.n
    BY <1>9 DEF Able
  <2>3. held \in [Assets -> N] /\ wallet \in [Assets -> N]
    BY <1>0, <1>00, <1>9, <2>2 DEF Ledger
  <2>4. Moved(home, l, Worth(s)) = Amounts(wallet, held, s.base, s.coll)
    BY <1>9 DEF Moved, Worth, Amounts
  <2> HIDE DEF held, wallet
  <2>5. Does(l, s) \in Ledger(N)
    BY <2>1, <2>3 DEF Ledger
  <2>6. Worth(Does(l, s)) = Amounts(wallet, held, s.base, s.coll)
    BY <2>1 DEF Worth, Ledger, Amounts
  <2> QED
    BY <2>4, <2>5, <2>6
<1>10. CASE l.do = "give"
  <2> DEFINE held == [s.held EXCEPT ![l.asset] = @ - l.n]
  <2>1. Does(l, s) = [s EXCEPT !.held = held]
    BY <1>0, <1>00, <1>10 DEF Does, Ledger
  <2>2. N = Nat => s.held[l.asset] >= l.n
    BY <1>10 DEF Able
  <2>3. held \in [Assets -> N]
    BY <1>0, <1>00, <1>10, <2>2 DEF Ledger
  <2>4. Moved(home, l, Worth(s)) = Amounts(s.wallet, held, s.base, s.coll)
    BY <1>10 DEF Moved, Worth, Amounts
  <2> HIDE DEF held
  <2>5. Does(l, s) \in Ledger(N)
    BY <2>1, <2>3 DEF Ledger
  <2>6. Worth(Does(l, s)) = Amounts(s.wallet, held, s.base, s.coll)
    BY <2>1 DEF Worth, Ledger, Amounts
  <2> QED
    BY <2>4, <2>5, <2>6
<1>11. CASE l.do = "absorb"
  <2> DEFINE seized == [s.seized EXCEPT ![l.asset] = @ + 1]
  <2>1. Does(l, s) = [s EXCEPT !.victim = "absorbed", !.seized = seized]
    BY <1>0, <1>00, <1>11 DEF Does, Ledger
  <2>2. l.asset \in Colls
    BY <1>11 DEF Deeds
  <2>3. seized \in [Colls -> N]
    BY <1>00, <2>2
  <2>4. Moved(home, l, Worth(s)) = Worth(s)
    BY <1>11 DEF Moved, Worth
  <2> HIDE DEF seized
  <2>5. Does(l, s) \in Ledger(N)
    BY <2>1, <2>3 DEF Ledger
  <2>6. Worth(Does(l, s)) = Worth(s)
    BY <2>1 DEF Worth, Ledger
  <2> QED
    BY <2>4, <2>5, <2>6
<1>12. CASE l.do = "buy"
  <2> DEFINE held == [s.held EXCEPT ![Base] = s.held[Base] - l.n, ![l.asset] = s.held[l.asset] + l.n]
             allow == [s.allow EXCEPT ![Base] = @ - l.n]
             seized == [s.seized EXCEPT ![l.asset] = @ - l.n]
  <2>1. Does(l, s) = [s EXCEPT !.held = held, !.allow = allow, !.seized = seized]
    BY <1>0, <1>00, <1>12 DEF Does, Ledger
  <2>2. N = Nat => s.held[Base] >= l.n /\ s.allow[Base] >= l.n /\ s.seized[l.asset] >= l.n
    BY <1>12 DEF Able
  <2>7. l.asset \in Colls /\ l.asset # Base
    BY <1>12, AssetsAssumption DEF Deeds
  <2>3. held \in [Assets -> N] /\ allow \in [Assets -> N] /\ seized \in [Colls -> N]
    BY <1>0, <1>00, <2>2, <2>7
  <2>4. Moved(home, l, Worth(s)) = Amounts(s.wallet, held, s.base, s.coll)
    BY <1>12 DEF Moved, Worth, Amounts
  <2> HIDE DEF held, allow, seized
  <2>5. Does(l, s) \in Ledger(N)
    BY <2>1, <2>3 DEF Ledger
  <2>6. Worth(Does(l, s)) = Amounts(s.wallet, held, s.base, s.coll)
    BY <2>1 DEF Worth, Ledger, Amounts
  <2> QED
    BY <2>4, <2>5, <2>6
<1>13. CASE l.do = "claim"
  <2> DEFINE held == [s.held EXCEPT ![l.asset] = @ + l.n]
  <2>1. Does(l, s) = [s EXCEPT !.claimed = TRUE, !.held = held]
    BY <1>0, <1>00, <1>13 DEF Does, Ledger
  <2>3. held \in [Assets -> N]
    BY <1>0, <1>00, <1>13 DEF Ledger
  <2>4. Moved(home, l, Worth(s)) = Amounts(s.wallet, held, s.base, s.coll)
    BY <1>13 DEF Moved, Worth, Amounts
  <2> HIDE DEF held
  <2>5. Does(l, s) \in Ledger(N)
    BY <2>1, <2>3 DEF Ledger
  <2>6. Worth(Does(l, s)) = Amounts(s.wallet, held, s.base, s.coll)
    BY <2>1 DEF Worth, Ledger, Amounts
  <2> QED
    BY <2>4, <2>5, <2>6
<1>14. CASE l.do = "airdrop"
  <2> DEFINE wallet == [s.wallet EXCEPT ![l.asset] = @ + l.n]
             spl == s.spl \cup {l.asset}
  <2>1. Does(l, s) = [s EXCEPT !.claimed = TRUE, !.wallet = wallet, !.spl = spl]
    BY <1>0, <1>00, <1>14 DEF Does, Ledger
  <2>3. wallet \in [Assets -> N] /\ spl \in SUBSET Assets
    BY <1>0, <1>00, <1>14 DEF Ledger
  <2>4. Moved(home, l, Worth(s)) = Amounts(wallet, s.held, s.base, s.coll)
    BY <1>14 DEF Moved, Worth, Amounts
  <2> HIDE DEF wallet, spl
  <2>5. Does(l, s) \in Ledger(N)
    BY <2>1, <2>3 DEF Ledger
  <2>6. Worth(Does(l, s)) = Amounts(wallet, s.held, s.base, s.coll)
    BY <2>1 DEF Worth, Ledger, Amounts
  <2> QED
    BY <2>4, <2>5, <2>6
<1> QED
  BY <1>1, <1>2, <1>3, <1>4, <1>5, <1>6, <1>7, <1>8, <1>9, <1>10, <1>11, <1>12, <1>13, <1>14 DEF Deeds, Acts

LEMMA DoesBooks ==
  ASSUME NEW l \in Deeds, l.do # "look", NEW s \in Books, NEW home
  PROVE  Does(l, s) \in Books /\ Worth(Does(l, s)) = Moved(home, l, Worth(s))
<1>1. Nat # Int
  <2>1. -1 \in Int /\ -1 \notin Nat
    OBVIOUS
  <2> QED
    BY <2>1
<1> QED
  BY <1>1, DoesLedger DEF Books

LEMMA DoesAccts ==
  ASSUME NEW l \in Deeds, l.do # "look", NEW s \in Accts, Able(l, s)
  PROVE  Does(l, s) \in Accts
BY AcctsIs, DoesLedger

(* The amounts the relations are about, one by one.                        *)
LEMMA DoesAllow ==
  ASSUME NEW l \in Deeds, l.do # "look", NEW s \in Accts, NEW a \in Assets
  PROVE  Does(l, s).allow[a] = IF Grants(l, a) THEN l.n
                               ELSE IF Spends(l, a) THEN s.allow[a] - l.n ELSE s.allow[a]
<1> USE DEF Accts, AmountPer, Deeds
<1>1. CASE l.do \in {"approve", "topUp"}
  BY <1>1 DEF Does, Spends, Grants
<1>2. CASE l.do = "supply"
  BY <1>2 DEF Does, Spends, Grants, Supplied
<1>3. CASE l.do = "buy"
  BY <1>3 DEF Does, Spends, Grants, Assets
<1>4. CASE l.do \notin {"approve", "topUp", "supply", "buy"}
  BY <1>4 DEF Does, Acts, Withdrawn, Spends, Grants
<1> QED
  BY <1>1, <1>2, <1>3, <1>4

LEMMA GainType == ASSUME NEW l \in Deeds, NEW a PROVE Gain(a, l) \in Int
<1>1. l.n \in Int /\ -l.n \in Int
  BY DEF Deeds
<1> QED
  BY <1>1 DEF Gain

LEMMA DoesHeld ==
  ASSUME NEW l \in Deeds, l.do # "look", NEW s \in Accts, NEW a \in Assets
  PROVE  Does(l, s).held[a] = s.held[a] + Gain(a, l)
<1>0. s.held \in [Assets -> Nat] /\ l.asset \in Assets /\ l.n \in Nat /\ Base \in Assets
  BY DEF Accts, AmountPer, Deeds, Assets
<1>1. CASE l.do \in {"fund", "claim", "withdraw"}
  <2>1. Does(l, s).held = [s.held EXCEPT ![l.asset] = @ + l.n]
    BY <1>1 DEF Does, Withdrawn, Accts
  <2>2. Gain(a, l) = IF l.asset = a THEN l.n ELSE 0
    BY <1>1 DEF Gain
  <2> QED
    BY <1>0, <2>1, <2>2
<1>2. CASE l.do \in {"supply", "return", "give"}
  <2>1. Does(l, s).held = [s.held EXCEPT ![l.asset] = @ - l.n]
    BY <1>2 DEF Does, Supplied, Accts
  <2>2. Gain(a, l) = IF l.asset = a THEN -l.n ELSE 0
    BY <1>2 DEF Gain
  <2> QED
    BY <1>0, <2>1, <2>2
<1>3. CASE l.do = "buy"
  <2>1. l.asset # Base
    BY <1>3, AssetsAssumption DEF Deeds
  <2>2. Does(l, s).held = [s.held EXCEPT ![Base] = s.held[Base] - l.n, ![l.asset] = s.held[l.asset] + l.n]
    BY <1>3 DEF Does, Accts
  <2>3. Gain(a, l) = IF l.asset = a THEN l.n ELSE IF a = Base THEN -l.n ELSE 0
    BY <1>3 DEF Gain
  <2> QED
    BY <1>0, <2>1, <2>2, <2>3
<1>4. CASE l.do \notin {"fund", "claim", "withdraw", "supply", "return", "give", "buy"}
  <2>1. Does(l, s).held = s.held
    BY <1>4 DEF Does, Acts, Deeds, Accts
  <2>2. Gain(a, l) = 0
    BY <1>4 DEF Gain
  <2> QED
    BY <1>0, <2>1, <2>2
<1> QED
  BY <1>1, <1>2, <1>3, <1>4

LEMMA DoesBase ==
  ASSUME NEW l \in Deeds, l.do # "look", NEW s \in Accts
  PROVE  Does(l, s).base = IF l.asset # Base THEN s.base
                           ELSE IF l.do = "supply" THEN s.base + l.n
                           ELSE IF l.do = "withdraw" THEN s.base - l.n ELSE s.base
<1> USE DEF Accts, AmountPer, Deeds
<1>1. CASE l.do = "supply"
  BY <1>1 DEF Does, Supplied
<1>2. CASE l.do = "withdraw"
  BY <1>2 DEF Does, Withdrawn
<1>3. CASE l.do \notin {"supply", "withdraw"}
  BY <1>3 DEF Does, Acts
<1> QED
  BY <1>1, <1>2, <1>3

LEMMA DoesClaimed ==
  ASSUME NEW l \in Deeds, l.do # "look", NEW s \in Accts
  PROVE  Does(l, s).claimed = (s.claimed \/ l.do \in {"claim", "airdrop"})
<1> USE DEF Accts, AmountPer, Deeds
<1>1. CASE l.do \in {"claim", "airdrop"}
  BY <1>1 DEF Does
<1>2. CASE l.do \notin {"claim", "airdrop"}
  BY <1>2 DEF Does, Acts, Supplied, Withdrawn
<1> QED
  BY <1>1, <1>2

(* The allowance stays below its bound, and what is left below its own.    *)
LEMMA DoesOwes ==
  ASSUME NEW l \in Deeds, l.do # "look", NEW s \in Accts, NEW a \in Assets,
         NEW x \in Nat, NEW y \in Nat, <<l, x, y>> \in Owes(a), NEW rest \in Nat,
         s.allow[a] <= x + rest
  PROVE  Does(l, s).allow[a] <= y + rest
<1>1. /\ Spends(l, a) => x <= l.n
      /\ Grants(l, a) => y >= l.n
      /\ ~Spends(l, a) /\ ~(Grants(l, a) /\ l.do = "approve") => y >= x
  BY InOwes
<1>2. l.n \in Nat /\ s.allow[a] \in Nat
  BY DEF Deeds, Accts, AmountPer
<1>3. ~(Grants(l, a) /\ Spends(l, a))
  BY DEF Grants, Spends
<1>4. CASE Grants(l, a)
  BY <1>1, <1>2, <1>4, DoesAllow
<1>5. CASE Spends(l, a)
  BY <1>1, <1>2, <1>3, <1>5, DoesAllow
<1>6. CASE ~Grants(l, a) /\ ~Spends(l, a)
  BY <1>1, <1>2, <1>6, DoesAllow
<1> QED
  BY <1>4, <1>5, <1>6

LEMMA DoesHolds ==
  ASSUME NEW l \in Deeds, l.do # "look", NEW s \in Accts, NEW a \in Assets,
         NEW gifts \in SUBSET {"claim"},
         NEW x \in Nat, NEW y \in Nat, <<l, x, y>> \in Holds(gifts, a), NEW rest \in Nat,
         (gifts # {} /\ a # Base /\ s.claimed) \/ s.held[a] <= x + rest
  PROVE  (gifts # {} /\ a # Base /\ Does(l, s).claimed) \/ Does(l, s).held[a] <= y + rest
<1>1. (Leaves(gifts, a, l) \/ y >= x + Gain(a, l)) /\ (l.do \in gifts => y >= x)
  BY InHolds
<1>2. s.held[a] \in Nat /\ Gain(a, l) \in Int
  BY GainType DEF Accts, AmountPer
<1>3. Does(l, s).held[a] = s.held[a] + Gain(a, l)
  BY DoesHeld
<1>4. CASE gifts # {} /\ a # Base /\ s.claimed
  BY <1>4, DoesClaimed
<1>5. CASE s.held[a] <= x + rest /\ l.do \notin gifts
  <2>1. y >= x + Gain(a, l)
    BY <1>1, <1>5 DEF Leaves
  <2> QED
    BY <1>2, <1>3, <1>5, <2>1
<1>6. CASE s.held[a] <= x + rest /\ l.do \in gifts
  <2>1. l.do = "claim" /\ gifts # {}
    BY <1>6
  <2>2. CASE a = Base
    <3>1. Gain(a, l) = 0
      BY <2>1, <2>2, AssetsAssumption DEF Gain, Deeds
    <3> QED
      BY <1>1, <1>2, <1>3, <1>6, <3>1
  <2>3. CASE a # Base
    BY <2>1, <2>3, DoesClaimed
  <2> QED
    BY <2>2, <2>3
<1> QED
  BY <1>4, <1>5, <1>6

LEMMA DoesDraws ==
  ASSUME NEW l \in Deeds, l.do # "look", NEW s \in Accts,
         NEW x \in Nat, NEW y \in Nat, <<l, x, y>> \in Draws, s.base >= x
  PROVE  Does(l, s).base >= y
<1>1. y <= x - (IF l.do = "withdraw" /\ l.asset = Base THEN l.n ELSE 0)
  BY InDraws
<1>2. l.n \in Nat /\ s.base \in Int
  BY DEF Deeds, Accts
<1> QED
  BY <1>1, <1>2, DoesBase

-----------------------------------------------------------------------------
(* The same of a transaction.                                              *)

(* A transaction is one leg, or two of which the first can be executed first. *)
LEMMA TxLegs ==
  ASSUME NEW t \in Txs, ~IsLook(t), NEW s \in Accts, AllAble(t, s)
  PROVE  /\ t[1] \in Deeds /\ t[1].do # "look" /\ Able(t[1], s) /\ Does(t[1], s) \in Accts
         /\ Len(t) # 1 => /\ t[2] \in Deeds /\ t[2].do # "look" /\ Able(t[2], Does(t[1], s))
                          /\ Does(t[2], Does(t[1], s)) \in Accts
         /\ AllDo(t, s) = IF Len(t) = 1 THEN Does(t[1], s) ELSE Does(t[2], Does(t[1], s))
<1>1. t[1] \in Deeds /\ t[1].do # "look" /\ Able(t[1], s)
  BY TxIs DEF AllAble, IsLook
<1>2. Does(t[1], s) \in Accts
  BY <1>1, DoesAccts
<1>3. Len(t) # 1 => t[2] \in Deeds /\ t[2].do # "look" /\ Able(t[2], Does(t[1], s))
  BY TxIs DEF AllAble, Seconds
<1>4. Len(t) # 1 => Does(t[2], Does(t[1], s)) \in Accts
  BY <1>2, <1>3, DoesAccts
<1> QED
  BY <1>1, <1>2, <1>3, <1>4 DEF AllDo

LEMMA TxAccts ==
  ASSUME NEW t \in Txs, ~IsLook(t), NEW s \in Accts, AllAble(t, s)
  PROVE  AllDo(t, s) \in Accts
BY TxLegs

LEMMA LegMoves ==
  ASSUME NEW l \in Deeds, l.do # "look", NEW s \in Accts, NEW home, NEW v \in Worths,
         <<l, Worth(s), v>> \in Moves(home)
  PROVE  v = Worth(Does(l, s))
<1>1. s \in Books /\ Worth(s) \in Worths
  BY BooksHere, WorthType
<1> QED
  BY <1>1, InMoves, DoesBooks

LEMMA TxMoves ==
  ASSUME NEW t \in Txs, ~IsLook(t), NEW s \in Accts, AllAble(t, s), NEW home, NEW v \in Worths,
         Via(Worths, Moves(home), t, Worth(s), v)
  PROVE  v = Worth(AllDo(t, s))
<1>1. PICK z \in Worths : /\ <<t[1], Worth(s), z>> \in Moves(home)
                          /\ IF Len(t) = 1 THEN v = z ELSE <<t[2], z, v>> \in Moves(home)
  BY DEF Via
<1>2. z = Worth(Does(t[1], s))
  BY <1>1, TxLegs, LegMoves
<1>3. CASE Len(t) = 1
  BY <1>1, <1>2, <1>3, TxLegs
<1>4. CASE Len(t) # 1
  BY <1>1, <1>2, <1>4, TxLegs, LegMoves
<1> QED
  BY <1>3, <1>4

LEMMA TxOwes ==
  ASSUME NEW t \in Txs, ~IsLook(t), NEW s \in Accts, AllAble(t, s), NEW a \in Assets,
         NEW x \in Nat, NEW y \in Nat, Via(Nat, Owes(a), t, x, y), NEW rest \in Nat,
         s.allow[a] <= x + rest
  PROVE  AllDo(t, s).allow[a] <= y + rest
<1>1. PICK z \in Nat : /\ <<t[1], x, z>> \in Owes(a)
                       /\ IF Len(t) = 1 THEN y = z ELSE <<t[2], z, y>> \in Owes(a)
  BY DEF Via
<1>2. Does(t[1], s).allow[a] <= z + rest
  BY <1>1, TxLegs, DoesOwes
<1>3. CASE Len(t) = 1
  BY <1>1, <1>2, <1>3, TxLegs
<1>4. CASE Len(t) # 1
  BY <1>1, <1>2, <1>4, TxLegs, DoesOwes
<1> QED
  BY <1>3, <1>4

LEMMA TxHolds ==
  ASSUME NEW t \in Txs, ~IsLook(t), NEW s \in Accts, AllAble(t, s), NEW a \in Assets,
         NEW gifts \in SUBSET {"claim"},
         NEW x \in Nat, NEW y \in Nat, Via(Nat, Holds(gifts, a), t, x, y), NEW rest \in Nat,
         (gifts # {} /\ a # Base /\ s.claimed) \/ s.held[a] <= x + rest
  PROVE  (gifts # {} /\ a # Base /\ AllDo(t, s).claimed) \/ AllDo(t, s).held[a] <= y + rest
<1>1. PICK z \in Nat : /\ <<t[1], x, z>> \in Holds(gifts, a)
                       /\ IF Len(t) = 1 THEN y = z ELSE <<t[2], z, y>> \in Holds(gifts, a)
  BY DEF Via
<1>2. (gifts # {} /\ a # Base /\ Does(t[1], s).claimed) \/ Does(t[1], s).held[a] <= z + rest
  BY <1>1, TxLegs, DoesHolds
<1>3. CASE Len(t) = 1
  BY <1>1, <1>2, <1>3, TxLegs
<1>4. CASE Len(t) # 1
  BY <1>1, <1>2, <1>4, TxLegs, DoesHolds
<1> QED
  BY <1>3, <1>4

LEMMA TxDraws ==
  ASSUME NEW t \in Txs, ~IsLook(t), NEW s \in Accts, AllAble(t, s),
         NEW x \in Nat, NEW y \in Nat, Via(Nat, Draws, t, x, y), s.base >= x
  PROVE  AllDo(t, s).base >= y
<1>1. PICK z \in Nat : <<t[1], x, z>> \in Draws /\ IF Len(t) = 1 THEN y = z ELSE <<t[2], z, y>> \in Draws
  BY DEF Via
<1>2. Does(t[1], s).base >= z
  BY <1>1, TxLegs, DoesDraws
<1>3. CASE Len(t) = 1
  BY <1>1, <1>2, <1>3, TxLegs
<1>4. CASE Len(t) # 1
  BY <1>1, <1>2, <1>4, TxLegs, DoesDraws
<1> QED
  BY <1>3, <1>4

-----------------------------------------------------------------------------
(* What several handlers leave together.                                   *)

(* pend[h] is the plan of handler h: along every plan its own amount goes to 0, *)
(* and together they bound n.                                              *)
Covered(H, R, pend, n) ==
  \E out \in [H -> Nat] :
    n <= SumFunctionOnSet(out, H) /\ \A h \in H : Along(Nat, R, pend[h], out[h], 0)

(* The sum without h, before and after h's amount changes.                 *)
LEMMA SumRest ==
  ASSUME NEW H, IsFiniteSet(H), NEW out \in [H -> Nat], NEW new \in [H -> Nat], NEW h \in H,
         SameOn(new, out, H \ {h})
  PROVE  \E rest \in Nat : /\ SumFunctionOnSet(out, H) = out[h] + rest
                           /\ SumFunctionOnSet(new, H) = new[h] + rest
<1> DEFINE zero == [out EXCEPT ![h] = 0]
<1>1. zero \in [H -> Nat] /\ zero[h] = 0 /\ out[h] \in Nat /\ new[h] \in Nat
  OBVIOUS
<1>2. Summable(zero, H) /\ Summable(new, H) /\ Summable(out, H)
  BY <1>1 DEF Summable
<1>3. SameOn(out, zero, H \ {h}) /\ SameOn(new, zero, H \ {h})
  BY DEF SameOn
<1>4. SumFunctionOnSet(zero, H) \in Nat
  BY <1>1, <1>2, SumNat
<1> HIDE DEF zero
<1>5. SumFunctionOnSet(out, H) = SumFunctionOnSet(zero, H) + (out[h] - 0)
  BY <1>1, <1>2, <1>3, SumChanges
<1>6. SumFunctionOnSet(new, H) = SumFunctionOnSet(zero, H) + (new[h] - 0)
  BY <1>1, <1>2, <1>3, SumChanges
<1>7. /\ SumFunctionOnSet(out, H) = out[h] + SumFunctionOnSet(zero, H)
      /\ SumFunctionOnSet(new, H) = new[h] + SumFunctionOnSet(zero, H)
  BY <1>1, <1>4, <1>5, <1>6
<1> QED
  BY <1>4, <1>7

(* Handler h goes on to plan Q with amount y.                              *)
LEMMA CoveredPut ==
  ASSUME NEW H, IsFiniteSet(H), NEW R, NEW pend \in [H -> Plans], NEW h \in H, NEW Q \in Plans,
         NEW out \in [H -> Nat], \A g \in H : Along(Nat, R, pend[g], out[g], 0),
         NEW y \in Nat, Along(Nat, R, Q, y, 0), NEW n,
         \A rest \in Nat : SumFunctionOnSet(out, H) = out[h] + rest => n <= y + rest
  PROVE  Covered(H, R, [pend EXCEPT ![h] = Q], n)
<1> DEFINE new == [out EXCEPT ![h] = y]
<1>1. new \in [H -> Nat] /\ new[h] = y
  OBVIOUS
<1>2. ASSUME NEW g \in H PROVE Along(Nat, R, [pend EXCEPT ![h] = Q][g], new[g], 0)
  <2>1. CASE g = h
    BY <2>1
  <2>2. CASE g # h
    <3>1. [pend EXCEPT ![h] = Q][g] = pend[g] /\ new[g] = out[g]
      BY <2>2
    <3> QED
      BY <3>1
  <2> QED
    BY <2>1, <2>2
<1>3. SameOn(new, out, H \ {h})
  BY DEF SameOn
<1> HIDE DEF new
<1>4. n <= SumFunctionOnSet(new, H)
  BY <1>1, <1>3, SumRest
<1> QED
  BY <1>1, <1>2, <1>4 DEF Covered

(* Another plan that leaves as much.                                       *)
LEMMA CoveredSwap ==
  ASSUME NEW H, IsFiniteSet(H), NEW R, NEW pend \in [H -> Plans], NEW h \in H, NEW Q \in Plans,
         NEW n \in Int, Covered(H, R, pend, n),
         \A x \in Nat : Along(Nat, R, pend[h], x, 0) => \E y \in Nat : y >= x /\ Along(Nat, R, Q, y, 0)
  PROVE  Covered(H, R, [pend EXCEPT ![h] = Q], n)
<1>1. PICK out \in [H -> Nat] :
        n <= SumFunctionOnSet(out, H) /\ \A g \in H : Along(Nat, R, pend[g], out[g], 0)
  BY DEF Covered
<1>2. PICK y \in Nat : y >= out[h] /\ Along(Nat, R, Q, y, 0)
  BY <1>1
<1>3. out[h] \in Nat
  OBVIOUS
<1>4. \A rest \in Nat : SumFunctionOnSet(out, H) = out[h] + rest => n <= y + rest
  BY <1>1, <1>2, <1>3
<1> QED
  BY <1>1, <1>2, <1>4, CoveredPut

(* A plan that leaves enough for itself.                                   *)
LEMMA CoveredAnew ==
  ASSUME NEW H, IsFiniteSet(H), NEW R, NEW pend \in [H -> Plans], NEW h \in H, NEW Q \in Plans,
         NEW k, Covered(H, R, pend, k), NEW n \in Nat, Along(Nat, R, Q, n, 0)
  PROVE  Covered(H, R, [pend EXCEPT ![h] = Q], n)
<1>1. PICK out \in [H -> Nat] : \A g \in H : Along(Nat, R, pend[g], out[g], 0)
  BY DEF Covered
<1>2. \A rest \in Nat : SumFunctionOnSet(out, H) = out[h] + rest => n <= n + rest
  OBVIOUS
<1> QED
  BY <1>1, <1>2, CoveredPut

(* The first transaction of a plan is executed, and changes n.             *)
LEMMA CoveredLand ==
  ASSUME NEW H, IsFiniteSet(H), NEW R, NEW pend \in [H -> Plans], NEW h \in H, pend[h] # <<>>,
         NEW k, NEW n, Covered(H, R, pend, k),
         \A x, y, rest \in Nat : Via(Nat, R, pend[h][1], x, y) /\ k <= x + rest => n <= y + rest
  PROVE  Covered(H, R, [pend EXCEPT ![h] = Tail(pend[h])], n)
<1>1. PICK out \in [H -> Nat] :
        k <= SumFunctionOnSet(out, H) /\ \A g \in H : Along(Nat, R, pend[g], out[g], 0)
  BY DEF Covered
<1>2. PICK y \in Nat : Via(Nat, R, pend[h][1], out[h], y) /\ Along(Nat, R, Tail(pend[h]), y, 0)
  BY <1>1, AlongTail
<1>3. \A rest \in Nat : SumFunctionOnSet(out, H) = out[h] + rest => n <= y + rest
  BY <1>1, <1>2
<1>4. Tail(pend[h]) \in Plans
  BY DEF Plans
<1> QED
  BY <1>1, <1>2, <1>3, <1>4, CoveredPut

(* When nobody has anything left to send, nothing is left.                 *)
LEMMA CoveredRest ==
  ASSUME NEW H, IsFiniteSet(H), NEW R, NEW pend, \A h \in H : pend[h] = <<>>,
         NEW n \in Nat, Covered(H, R, pend, n)
  PROVE  n = 0
<1>1. PICK out \in [H -> Nat] :
        n <= SumFunctionOnSet(out, H) /\ \A h \in H : Along(Nat, R, pend[h], out[h], 0)
  BY DEF Covered
<1>2. \A h \in H : out[h] = 0
  BY <1>1, AlongNil
<1>3. SumFunctionOnSet(out, H) = 0
  BY <1>2, SumZero
<1> QED
  BY <1>1, <1>3

LEMMA CoveredStart ==
  ASSUME NEW H, IsFiniteSet(H), NEW R, NEW pend, \A h \in H : pend[h] = <<>>
  PROVE  Covered(H, R, pend, 0)
<1> DEFINE out == [h \in H |-> 0]
<1>1. out \in [H -> Nat] /\ \A h \in H : out[h] = 0
  OBVIOUS
<1> HIDE DEF out
<1>2. SumFunctionOnSet(out, H) = 0
  BY <1>1, SumZero
<1>3. \A h \in H : Along(Nat, R, pend[h], out[h], 0)
  BY <1>1, AlongNil
<1> QED
  BY <1>1, <1>2, <1>3 DEF Covered

-----------------------------------------------------------------------------
(* The handlers, whichever page they are of: H is the set of them, `first` *)
(* whether the nonce is read before the table is ensured.                  *)

(* What is still to be executed of a handler's transactions.               *)
PendOf(r) == IF r.pc = "sent" /\ r.landed THEN Tail(r.todo) ELSE r.todo
Pends(H) == [h \in H |-> PendOf(run[h])]

Ops == {"none", "activate", "fund", "supply", "withdraw", "return", "exit", "borrow", "repay",
        "liquidate", "buy", "combined", "claim", "airdrop", "absorb", "sweep", "finish",
        "supply-collat", "freshpair", "faucetclaim", "nativefaucet"}
Runs == [pc : {"next", "popup", "sent", "idle", "ok"}, op : Ops, todo : Plans,
         ahead : {-2, -1, 0, 2}, used : {0, 1}, landed : BOOLEAN, goal : SUBSET Worths]
Sound(r) ==
  /\ r.pc \in Resting => r.todo = <<>> /\ r.goal = {} /\ r.op = "none"
  /\ r.pc \notin Resting => r.todo # <<>> /\ r.op # "none"
  /\ r.pc \in {"popup", "sent"} => ~IsLook(r.todo[1])
  /\ r.pc = "popup" /\ Nonces(r.todo[1]) > 0 => r.ahead # Unread
  /\ \A i \in 1 .. Len(r.todo) - 1 : ~IsLook(r.todo[i])
  /\ r.op = "exit" /\ Len(r.todo) > 1 => \A i \in 1 .. Len(r.todo) : Len(r.todo[i]) = 1
  /\ \A v, w \in r.goal : v = w
Messages(H) == [legs : {t \in Txs : ~IsLook(t)}, by : H, ahead : -2 .. 1]

(* The types, and what the code of a handler relies on.                    *)
Flow(H) ==
  /\ acct \in Accts /\ torn \in BOOLEAN
  /\ net \in SUBSET Messages(H)
  /\ run \in [H -> Runs] /\ \A h \in H : Sound(run[h])

(* The steps of DevFlow that depend on H and on `first`.                   *)
Mine(h, x) == h = x.by /\ run[h].pc = "sent" /\ ~run[h].landed /\ run[h].todo[1] = x.legs
LandOn(H, x) ==
  /\ x \in net /\ AllAble(x.legs, acct)
  /\ acct' = AllDo(x.legs, acct)
  /\ net' = {[y EXCEPT !.ahead = IF Nonces(y.legs) = 0 THEN @ ELSE Behind(@, Nonces(x.legs))] :
               y \in net \ {x}}
  /\ run' = [h \in H |-> [run[h] EXCEPT !.ahead = Behind(@, Nonces(x.legs)),
                                        !.landed = @ \/ Mine(h, x),
                                        !.goal = IF Mine(h, x) THEN @ ELSE {}]]
  /\ torn' = (torn \/ ~Mine(x.by, x))
AskOn(first, h) ==
  LET r == run[h]
      reads == Nonces(r.todo[1]) > 0 \/ (first /\ r.todo[1][1].do = "alt")
  IN /\ r.pc = "next" /\ ~Present(r.todo[1][1]) /\ r.todo[1][1].do # "look"
     /\ Become(h, [r EXCEPT !.pc = "popup",
                            !.ahead = IF @ = Unread /\ reads THEN 0 ELSE @])
     /\ UNCHANGED <<acct, net, torn>>
SignOn(h) ==
  LET r == run[h]
  IN /\ r.pc = "popup"
     /\ net' = net \cup {[legs |-> r.todo[1], by |-> h,
                          ahead |-> IF Nonces(r.todo[1]) = 0 THEN 0 ELSE r.ahead + r.used]}
     /\ Become(h, [r EXCEPT !.pc = "sent", !.landed = FALSE])
     /\ UNCHANGED <<acct, torn>>
ConfirmOn(first, h, prebuilt) ==
  LET r == run[h]
      keeps == Len(r.todo) > 1 /\ (r.op = prebuilt \/ (first /\ r.todo[1][1].do = "alt"))
  IN /\ r.pc = "sent" /\ r.landed
     /\ Become(h, [Advance(r) EXCEPT !.ahead = IF keeps THEN @ ELSE Unread,
                                   !.used = IF keeps THEN Nonces(r.todo[1]) ELSE 0])
     /\ UNCHANGED <<acct, net, torn>>

LEMMA NoncesIs ==
  ASSUME NEW t \in Txs
  PROVE  /\ Nonces(t) \in 0 .. 2 /\ (Len(t) = 1 => Nonces(t) \in {0, 1})
         /\ t[1].do = "alt" => Nonces(t) = 0
BY TxIs DEF Nonces, NonceOf, Native, Firsts

LEMMA BehindIs ==
  ASSUME NEW k \in 0 .. 2
  PROVE  /\ \A b \in {-2, -1, 0, 2} : Behind(b, k) \in {-2, -1, 0, 2} /\ (b # Unread => Behind(b, k) # Unread)
         /\ \A b \in -2 .. 1 : Behind(b, k) \in -2 .. 1
BY DEF Behind, Unread

LEMMA IdleIs == Idle \in Runs /\ Sound(Idle) /\ PendOf(Idle) = <<>> /\ Idle.goal = {} /\ Idle.op = "none"
<1>1. <<>> \in Plans /\ ~(Len(<<>>) > 1) /\ \A i \in 1 .. Len(<<>>) - 1 : FALSE
  BY DEF Plans
<1>2. Idle = [pc |-> "idle", op |-> "none", todo |-> <<>>, ahead |-> 2, used |-> 0, landed |-> FALSE, goal |-> {}]
  BY DEF Idle, Unread
<1>3. Idle \in Runs
  BY <1>1, <1>2 DEF Runs, Ops
<1> QED
  BY <1>1, <1>2, <1>3 DEF Sound, PendOf, Resting

LEMMA EndedIs == Ended \in Runs /\ Sound(Ended) /\ PendOf(Ended) = <<>> /\ Ended.goal = {} /\ Ended.op = "none"
<1>1. ~(Len(<<>>) > 1) /\ \A i \in 1 .. Len(<<>>) - 1 : FALSE
  OBVIOUS
<1>2. Idle \in Runs /\ Idle.todo = <<>> /\ Idle.goal = {} /\ Idle.op = "none"
  BY IdleIs DEF Idle
<1>3. /\ Ended \in Runs /\ Ended.pc = "ok" /\ Ended.todo = <<>> /\ Ended.goal = {} /\ Ended.op = "none"
  BY <1>2 DEF Ended, Runs
<1> QED
  BY <1>1, <1>3 DEF Sound, PendOf, Resting

(* One handler's record changes.                                           *)
LEMMA FlowBecome ==
  ASSUME NEW H, Flow(H), NEW h \in H, NEW r \in Runs, Sound(r), Become(h, r),
         acct' \in Accts, torn' \in BOOLEAN, net' \in SUBSET Messages(H)
  PROVE  Flow(H)'
<1>1. run' \in [H -> Runs]
  BY DEF Flow, Become
<1>2. \A g \in H : run'[g] = IF g = h THEN r ELSE run[g]
  BY DEF Flow, Become
<1>3. \A g \in H : Sound(run'[g])
  BY <1>2 DEF Flow
<1> QED
  BY <1>1, <1>3 DEF Flow, Messages, Sound, Runs

(* A plan and what is left of it.                                          *)
LEMMA PlanTail ==
  ASSUME NEW P \in Plans, P # <<>>
  PROVE  /\ P[1] \in Txs /\ Len(P) \in Nat /\ Len(P) >= 1
         /\ Tail(P) \in Plans /\ Len(Tail(P)) = Len(P) - 1
         /\ \A i \in 1 .. Len(P) - 1 : Tail(P)[i] = P[i + 1]
         /\ Len(P) = 1 => Tail(P) = <<>>
         /\ Len(P) # 1 => Tail(P) # <<>>
<1>1. P[1] \in Txs /\ Len(P) \in Nat /\ Len(P) >= 1
  BY DEF Plans
<1>2. Tail(P) \in Plans /\ Len(Tail(P)) = Len(P) - 1 /\ \A i \in 1 .. Len(P) - 1 : Tail(P)[i] = P[i + 1]
  BY DEF Plans
<1>3. \A Q \in Plans : Q = <<>> <=> Len(Q) = 0
  BY DEF Plans
<1>4. Tail(P) = <<>> <=> Len(Tail(P)) = 0
  BY <1>2, <1>3
<1>5. Tail(P) = <<>> <=> Len(P) = 1
  BY <1>1, <1>2, <1>4
<1> QED
  BY <1>1, <1>2, <1>5

(* A handler goes on to its next transaction.                              *)
LEMMA AdvanceIs ==
  ASSUME NEW r \in Runs, Sound(r), r.pc \notin Resting
  PROVE  /\ Advance(r) \in Runs /\ Sound(Advance(r)) /\ PendOf(Advance(r)) = Tail(r.todo)
         /\ Advance(r).goal \in SUBSET r.goal /\ Advance(r).op \in {r.op, "none"}
         /\ Advance(r).pc \in {"next", "ok"}
<1>1. r.todo \in Plans /\ r.todo # <<>>
  BY DEF Sound, Runs
<1>2. CASE Len(r.todo) = 1
  <2>1. Advance(r) = Ended /\ Tail(r.todo) = <<>>
    BY <1>1, <1>2, PlanTail DEF Advance
  <2> QED
    BY <2>1, EndedIs DEF Ended
<1>3. CASE Len(r.todo) # 1
  <2> DEFINE q == Advance(r)
  <2>1. q = [r EXCEPT !.pc = "next", !.todo = Tail(r.todo), !.landed = FALSE]
    BY <1>3 DEF Advance, Runs
  <2>2. Tail(r.todo) \in Plans /\ Tail(r.todo) # <<>> /\ Len(Tail(r.todo)) = Len(r.todo) - 1
    BY <1>1, <1>3, PlanTail
  <2>3. /\ q \in Runs /\ q.pc = "next" /\ q.todo = Tail(r.todo) /\ q.landed = FALSE
        /\ q.goal = r.goal /\ q.op = r.op /\ q.ahead = r.ahead
    BY <2>1, <2>2 DEF Runs
  <2> HIDE DEF q
  <2>4. \A i \in 1 .. Len(q.todo) - 1 : ~IsLook(q.todo[i])
    <3>1. \A i \in 1 .. Len(r.todo) - 1 : ~IsLook(r.todo[i])
      BY DEF Sound
    <3>2. \A i \in 1 .. Len(q.todo) - 1 : i + 1 \in 1 .. Len(r.todo) - 1 /\ q.todo[i] = r.todo[i + 1]
      BY <1>1, <2>2, <2>3, PlanTail
    <3> QED
      BY <3>1, <3>2
  <2>5. q.op = "exit" /\ Len(q.todo) > 1 => \A i \in 1 .. Len(q.todo) : Len(q.todo[i]) = 1
    <3> SUFFICES ASSUME q.op = "exit", Len(q.todo) > 1, NEW i \in 1 .. Len(q.todo)
                 PROVE  Len(q.todo[i]) = 1
      OBVIOUS
    <3>1. i + 1 \in 1 .. Len(r.todo) /\ q.todo[i] = r.todo[i + 1] /\ Len(r.todo) > 1
      BY <1>1, <2>2, <2>3, PlanTail
    <3> QED
      BY <3>1, <2>3 DEF Sound
  <2>6. Sound(q)
    BY <2>2, <2>3, <2>4, <2>5 DEF Sound, Resting
  <2> QED
    BY <2>3, <2>6 DEF q, PendOf
<1> QED
  BY <1>2, <1>3

(* What a handler's own steps do to its plan and its promise: a transaction *)
(* leaves the plan before it is sent only if what it makes is there.       *)
Goes(r, q) ==
  /\ q.goal \in SUBSET r.goal /\ q.op \in {r.op, "none"}
  /\ \/ PendOf(q) = PendOf(r)
     \/ /\ PendOf(r) # <<>> /\ PendOf(q) = Tail(PendOf(r))
        /\ Present(PendOf(r)[1][1]) /\ PendOf(r)[1][1].do # "look"
Goes1(H, h) ==
  /\ run' = [run EXCEPT ![h] = run'[h]] /\ Goes(run[h], run'[h])
  /\ acct' = acct /\ torn' = torn

LEMMA GoesBecome ==
  ASSUME NEW H, Flow(H), NEW h \in H, NEW r, Become(h, r), Goes(run[h], r), acct' = acct, torn' = torn
  PROVE  Goes1(H, h) /\ run'[h] = r
BY DEF Goes1, Become, Flow

LEMMA SkipGoes ==
  ASSUME NEW H, Flow(H), NEW h \in H, Skip(h)
  PROVE  Flow(H)' /\ Goes1(H, h) /\ run'[h].pc \in {"next", "ok"}
<1> DEFINE r == run[h]
<1>1. r \in Runs /\ Sound(r) /\ r.pc = "next" /\ r.pc \notin Resting /\ PendOf(r) = r.todo /\ r.todo # <<>>
  BY DEF Flow, Skip, PendOf, Resting, Sound
<1>2. Become(h, Advance(r)) /\ Present(r.todo[1][1]) /\ UNCHANGED <<acct, net, torn>>
  BY DEF Skip
<1>3. r.todo[1][1].do # "look"
  BY <1>2 DEF Present
<1> HIDE DEF r
<1>4. Goes(r, Advance(r))
  BY <1>1, <1>2, <1>3, AdvanceIs DEF Goes
<1>5. Flow(H)'
  BY <1>1, <1>2, AdvanceIs, FlowBecome DEF Flow
<1>6. Goes1(H, h) /\ run'[h] = Advance(r)
  BY <1>2, <1>4, GoesBecome DEF r
<1> QED
  BY <1>1, <1>5, <1>6, AdvanceIs

LEMMA AskGoes ==
  ASSUME NEW H, Flow(H), NEW h \in H, NEW first, AskOn(first, h)
  PROVE  Flow(H)' /\ Goes1(H, h) /\ run'[h].pc = "popup"
<1> DEFINE r == run[h]
           ahead == IF r.ahead = Unread /\ (Nonces(r.todo[1]) > 0 \/ (first /\ r.todo[1][1].do = "alt"))
                    THEN 0 ELSE r.ahead
           q == [r EXCEPT !.pc = "popup", !.ahead = ahead]
<1>1. r \in Runs /\ Sound(r) /\ r.pc = "next" /\ r.pc \notin Resting /\ r.todo # <<>>
  BY DEF Flow, AskOn, Resting, Sound
<1>2. Become(h, q) /\ r.todo[1][1].do # "look" /\ UNCHANGED <<acct, net, torn>>
  BY DEF AskOn
<1>3. ahead \in {-2, -1, 0, 2} /\ (Nonces(r.todo[1]) > 0 => ahead # Unread)
  BY <1>1 DEF Runs, Unread
<1> HIDE DEF ahead, r
<1>4. q \in Runs /\ q.pc = "popup" /\ q.todo = r.todo /\ q.goal = r.goal /\ q.op = r.op /\ q.ahead = ahead
  BY <1>1, <1>3 DEF Runs
<1> HIDE DEF q
<1>5. Sound(q)
  BY <1>1, <1>2, <1>3, <1>4 DEF Sound, Resting, IsLook
<1>6. Goes(r, q)
  BY <1>1, <1>4 DEF Goes, PendOf
<1>7. Flow(H)'
  BY <1>2, <1>4, <1>5, FlowBecome DEF Flow
<1>8. Goes1(H, h) /\ run'[h] = q
  BY <1>2, <1>6, GoesBecome DEF r
<1> QED
  BY <1>4, <1>7, <1>8

LEMMA SignGoes ==
  ASSUME NEW H, Flow(H), NEW h \in H, SignOn(h)
  PROVE  Flow(H)' /\ Goes1(H, h) /\ run'[h].pc = "sent"
<1> DEFINE r == run[h]
           ahead == IF Nonces(r.todo[1]) = 0 THEN 0 ELSE r.ahead + r.used
           x == [legs |-> r.todo[1], by |-> h, ahead |-> ahead]
           q == [r EXCEPT !.pc = "sent", !.landed = FALSE]
<1>1. r \in Runs /\ Sound(r) /\ r.pc = "popup" /\ r.pc \notin Resting /\ r.todo # <<>> /\ ~IsLook(r.todo[1])
  BY DEF Flow, SignOn, Resting, Sound
<1>2. Become(h, q) /\ net' = net \cup {x} /\ UNCHANGED <<acct, torn>>
  BY DEF SignOn
<1>3. r.todo[1] \in Txs
  BY <1>1, PlanTail DEF Runs
<1>4. ahead \in -2 .. 1
  <2>1. CASE Nonces(r.todo[1]) = 0
    BY <2>1
  <2>2. CASE Nonces(r.todo[1]) # 0
    <3>1. r.ahead \in {-2, -1, 0} /\ r.used \in {0, 1}
      BY <1>1, <1>3, <2>2, NoncesIs DEF Sound, Runs, Unread
    <3> QED
      BY <2>2, <3>1
  <2> QED
    BY <2>1, <2>2
<1> HIDE DEF ahead, r
<1>5. x \in Messages(H)
  BY <1>1, <1>3, <1>4 DEF Messages
<1>6. q \in Runs /\ q.pc = "sent" /\ ~q.landed /\ q.todo = r.todo /\ q.goal = r.goal /\ q.op = r.op
  BY <1>1 DEF Runs
<1> HIDE DEF q, x
<1>7. Sound(q)
  BY <1>1, <1>6 DEF Sound, Resting
<1>8. Goes(r, q)
  BY <1>1, <1>6 DEF Goes, PendOf
<1>9. Flow(H)'
  BY <1>2, <1>5, <1>6, <1>7, FlowBecome DEF Flow
<1>10. Goes1(H, h) /\ run'[h] = q
  BY <1>2, <1>8, GoesBecome DEF r
<1> QED
  BY <1>6, <1>9, <1>10

LEMMA ConfirmGoes ==
  ASSUME NEW H, Flow(H), NEW h \in H, NEW first, NEW prebuilt \in {"exit", "none"},
         ConfirmOn(first, h, prebuilt)
  PROVE  Flow(H)' /\ Goes1(H, h) /\ run'[h].pc \in {"next", "ok"}
<1> DEFINE r == run[h]
           keeps == Len(r.todo) > 1 /\ (r.op = prebuilt \/ (first /\ r.todo[1][1].do = "alt"))
           b == Advance(r)
           ahead == IF keeps THEN b.ahead ELSE Unread
           used == IF keeps THEN Nonces(r.todo[1]) ELSE 0
           q == [b EXCEPT !.ahead = ahead, !.used = used]
<1>1. r \in Runs /\ Sound(r) /\ r.pc = "sent" /\ r.landed /\ r.pc \notin Resting /\ r.todo # <<>> /\ r.op # "none"
  BY DEF Flow, ConfirmOn, Resting, Sound
<1>2. Become(h, q) /\ UNCHANGED <<acct, net, torn>>
  BY DEF ConfirmOn
<1>3. r.todo \in Plans /\ r.todo[1] \in Txs /\ Len(r.todo) \in Nat
  BY <1>1, PlanTail DEF Runs
<1>4. used \in {0, 1}
  <2>1. CASE keeps /\ r.op = prebuilt
    <3>1. r.op = "exit" /\ Len(r.todo) > 1
      BY <1>1, <2>1
    <3>2. Len(r.todo[1]) = 1
      BY <1>1, <1>3, <3>1 DEF Sound
    <3> QED
      BY <1>3, <3>2, NoncesIs
  <2>2. CASE keeps /\ r.op # prebuilt
    BY <1>3, <2>2, NoncesIs
  <2>3. CASE ~keeps
    BY <2>3
  <2> QED
    BY <2>1, <2>2, <2>3
<1> HIDE DEF used, keeps, r
<1>5. /\ b \in Runs /\ Sound(b) /\ PendOf(b) = Tail(r.todo) /\ b.goal \in SUBSET r.goal
      /\ b.op \in {r.op, "none"} /\ b.pc \in {"next", "ok"}
  BY <1>1, AdvanceIs
<1> HIDE DEF b
<1>6. ahead \in {-2, -1, 0, 2}
  BY <1>5 DEF Runs, Unread
<1> HIDE DEF ahead
<1>7. /\ q \in Runs /\ q.pc = b.pc /\ q.landed = b.landed /\ q.todo = b.todo /\ q.goal = b.goal /\ q.op = b.op
  BY <1>4, <1>5, <1>6 DEF Runs
<1> HIDE DEF q
<1>8. Sound(q)
  BY <1>5, <1>7 DEF Sound
<1>9. PendOf(r) = Tail(r.todo) /\ PendOf(q) = PendOf(b)
  BY <1>1, <1>7 DEF PendOf
<1>10. Goes(r, q)
  BY <1>5, <1>7, <1>9 DEF Goes
<1>11. Flow(H)'
  BY <1>2, <1>7, <1>8, FlowBecome DEF Flow
<1>12. Goes1(H, h) /\ run'[h] = q
  BY <1>2, <1>10, GoesBecome DEF r
<1> QED
  BY <1>5, <1>7, <1>11, <1>12

LEMMA FailFlows ==
  ASSUME NEW H, Flow(H), NEW h \in H, Fail(h)
  PROVE  Flow(H)' /\ torn' = TRUE /\ acct' = acct /\ run' = [run EXCEPT ![h] = Idle]
<1>1. Become(h, Idle) /\ torn' = TRUE /\ UNCHANGED <<acct, net>>
  BY DEF Fail
<1> QED
  BY <1>1, IdleIs, FlowBecome DEF Flow, Become

LEMMA DeclineFlows ==
  ASSUME NEW H, Flow(H), NEW h \in H, Decline(h)
  PROVE  Flow(H)' /\ torn' = torn /\ acct' = acct /\ run' = [run EXCEPT ![h] = Idle]
<1>1. Become(h, Idle) /\ UNCHANGED <<acct, net, torn>>
  BY DEF Decline
<1> QED
  BY <1>1, IdleIs, FlowBecome DEF Flow, Become

(* A plan as a handler begins it.                                          *)
IsPlan(op, P) ==
  /\ op \in Ops \ {"none"} /\ P \in Plans /\ P # <<>>
  /\ \A i \in 1 .. Len(P) - 1 : ~IsLook(P[i])
  /\ op = "exit" /\ Len(P) > 1 => \A i \in 1 .. Len(P) : Len(P[i]) = 1

LEMMA BeginFlows ==
  ASSUME NEW H, Flow(H), NEW h \in H, NEW op, NEW P, IsPlan(op, P), NEW goal \in Books,
         Begin(h, op, P, goal)
  PROVE  /\ Flow(H)' /\ torn' = torn /\ acct' = acct /\ run' = [run EXCEPT ![h] = run'[h]]
         /\ run'[h].pc = "next" /\ run'[h].op = op /\ run'[h].todo = P /\ run'[h].goal = {Worth(goal)}
         /\ PendOf(run'[h]) = P
<1> DEFINE r == [Idle EXCEPT !.pc = "next", !.op = op, !.todo = P, !.goal = {Worth(goal)}]
<1>1. Become(h, r) /\ UNCHANGED <<acct, net, torn>>
  BY DEF Begin
<1>2. Worth(goal) \in Worths
  BY WorthType
<1>3. Idle \in Runs
  BY IdleIs
<1>4. r \in Runs /\ r.pc = "next" /\ r.op = op /\ r.todo = P /\ r.goal = {Worth(goal)}
  BY <1>2, <1>3 DEF Runs, IsPlan
<1> HIDE DEF r
<1>5. Sound(r) /\ PendOf(r) = P
  BY <1>4 DEF Sound, IsPlan, Resting, PendOf
<1>6. Flow(H)'
  BY <1>1, <1>4, <1>5, FlowBecome DEF Flow
<1>7. run' = [run EXCEPT ![h] = r] /\ run'[h] = r
  BY <1>1 DEF Become, Flow
<1> QED
  BY <1>1, <1>4, <1>5, <1>6, <1>7

(* A transaction executes: its handler's, which waits for it, or one that  *)
(* nobody waits for any more.                                              *)
LEMMA LandFlows ==
  ASSUME NEW H, Flow(H), NEW x, LandOn(H, x)
  PROVE  /\ Flow(H)' /\ x.by \in H /\ x.legs \in Txs /\ ~IsLook(x.legs)
         /\ \A h \in H : /\ run'[h].op = run[h].op /\ run'[h].pc = run[h].pc /\ run'[h].todo = run[h].todo
                         /\ run'[h].goal = IF Mine(h, x) THEN run[h].goal ELSE {}
         /\ Mine(x.by, x) =>
              /\ torn' = torn /\ PendOf(run[x.by]) # <<>> /\ PendOf(run[x.by])[1] = x.legs
              /\ Pends(H)' = [Pends(H) EXCEPT ![x.by] = Tail(PendOf(run[x.by]))]
         /\ ~Mine(x.by, x) => torn' = TRUE
<1>0. x \in Messages(H) /\ x.by \in H /\ x.legs \in Txs /\ ~IsLook(x.legs) /\ x \in net
  BY DEF LandOn, Flow, Messages
<1> DEFINE k == Nonces(x.legs)
           R(h) == [run[h] EXCEPT !.ahead = Behind(run[h].ahead, k), !.landed = run[h].landed \/ Mine(h, x),
                                  !.goal = IF Mine(h, x) THEN run[h].goal ELSE {}]
<1>1. k \in 0 .. 2
  BY <1>0, NoncesIs
<1>2. run' = [h \in H |-> R(h)]
  BY DEF LandOn
<1> HIDE DEF k
<1>3. ASSUME NEW h \in H
      PROVE  /\ R(h) \in Runs /\ Sound(R(h))
             /\ R(h).op = run[h].op /\ R(h).pc = run[h].pc /\ R(h).todo = run[h].todo
             /\ R(h).goal = (IF Mine(h, x) THEN run[h].goal ELSE {})
             /\ R(h).landed = (run[h].landed \/ Mine(h, x))
  <2> DEFINE r == run[h]
             b == Behind(r.ahead, k)
             la == r.landed \/ Mine(h, x)
             go == IF Mine(h, x) THEN r.goal ELSE {}
             q == [r EXCEPT !.ahead = b, !.landed = la, !.goal = go]
  <2>1. r \in Runs /\ Sound(r)
    BY DEF Flow
  <2>2. b \in {-2, -1, 0, 2} /\ (r.ahead # Unread => b # Unread)
    BY <1>1, <2>1, BehindIs DEF Runs
  <2>3. la \in BOOLEAN /\ go \in SUBSET r.goal
    BY <2>1 DEF Runs, Mine
  <2> HIDE DEF r, b, la, go
  <2>4. /\ q \in Runs /\ q.pc = r.pc /\ q.op = r.op /\ q.todo = r.todo /\ q.ahead = b
        /\ q.landed = la /\ q.goal = go
    BY <2>1, <2>2, <2>3 DEF Runs
  <2> HIDE DEF q
  <2>5. Sound(q)
    BY <2>1, <2>2, <2>3, <2>4 DEF Sound
  <2> QED
    BY <2>4, <2>5 DEF q, r, b, la, go
<1> HIDE DEF R
<1>4. run' \in [H -> Runs] /\ \A h \in H : run'[h] = R(h) /\ Sound(run'[h])
  BY <1>2, <1>3
<1>5. net' \in SUBSET Messages(H)
  <2> SUFFICES ASSUME NEW z \in net' PROVE z \in Messages(H)
    OBVIOUS
  <2>1. PICK y \in net : z = [y EXCEPT !.ahead = IF Nonces(y.legs) = 0 THEN y.ahead ELSE Behind(y.ahead, k)]
    BY DEF LandOn, k
  <2> DEFINE b == IF Nonces(y.legs) = 0 THEN y.ahead ELSE Behind(y.ahead, k)
  <2>2. y \in Messages(H)
    BY DEF Flow
  <2>3. b \in -2 .. 1
    BY <1>1, <2>2, BehindIs DEF Messages
  <2> HIDE DEF b
  <2>4. z = [y EXCEPT !.ahead = b]
    BY <2>1 DEF b
  <2> QED
    BY <2>2, <2>3, <2>4 DEF Messages
<1>6. acct' \in Accts /\ torn' \in BOOLEAN
  BY <1>0, TxAccts DEF LandOn, Flow, Mine
<1>7. Flow(H)'
  BY <1>4, <1>5, <1>6 DEF Flow, Messages, Sound, Runs
<1>8. ASSUME Mine(x.by, x)
      PROVE  /\ torn' = torn /\ PendOf(run[x.by]) # <<>> /\ PendOf(run[x.by])[1] = x.legs
             /\ Pends(H)' = [Pends(H) EXCEPT ![x.by] = Tail(PendOf(run[x.by]))]
  <2>1. torn' = torn
    BY <1>8 DEF LandOn, Flow
  <2>2. /\ run[x.by].pc = "sent" /\ ~run[x.by].landed /\ run[x.by].todo[1] = x.legs
        /\ run[x.by].todo # <<>> /\ PendOf(run[x.by]) = run[x.by].todo
    BY <1>0, <1>8 DEF Mine, Flow, Sound, Resting, PendOf
  <2>3. PendOf(run'[x.by]) = Tail(run[x.by].todo)
    BY <1>0, <1>3, <1>4, <1>8, <2>2 DEF PendOf
  <2>4. \A h \in H : h # x.by => PendOf(run'[h]) = PendOf(run[h])
    BY <1>3, <1>4 DEF PendOf, Mine, Flow, Runs
  <2>5. Pends(H)' = [h \in H |-> PendOf(run'[h])]
    BY DEF Pends
  <2> QED
    BY <2>1, <2>2, <2>3, <2>4, <2>5 DEF Pends
<1>9. ~Mine(x.by, x) => torn' = TRUE
  BY DEF LandOn
<1> QED
  BY <1>0, <1>3, <1>4, <1>7, <1>8, <1>9

-----------------------------------------------------------------------------
(* What every step keeps.                                                  *)

(* A handler that ends now has done what it promised: its plan leads there from *)
(* what everything is worth now.                                           *)
Promised(H, home) ==
  \A h \in H : \A g \in run[h].goal : Along(Worths, Moves(home), PendOf(run[h]), Worth(acct), g)

(* What is allowed will be used up by what is still to be executed.        *)
Closed(H) == ~torn => \A a \in Assets : Covered(H, Owes(a), Pends(H), acct.allow[a])

(* What the synthetic holds will leave it, but for gifts.                  *)
Emptied(H, gifts) ==
  ~torn => \A a \in Assets : \/ gifts # {} /\ a # Base /\ acct.claimed
                             \/ Covered(H, Holds(gifts, a), Pends(H), acct.held[a])

(* A withdrawal draws the base supply down to no less than nothing.        *)
Drawn(H) ==
  \A h \in H : run[h].op = "withdraw" /\ run[h].goal # {} =>
    \E m \in Nat : acct.base >= m /\ Along(Nat, Draws, PendOf(run[h]), m, 0)

LEMMA PendsAre ==
  ASSUME NEW H, Flow(H)
  PROVE  /\ Pends(H) \in [H -> Plans] /\ \A h \in H : Pends(H)[h] = PendOf(run[h])
         /\ \A h \in H : PendOf(run[h]) \in Plans
<1>1. ASSUME NEW h \in H PROVE PendOf(run[h]) \in Plans
  <2>1. run[h] \in Runs /\ run[h].todo \in Plans /\ (run[h].pc = "sent" => run[h].todo # <<>>)
    BY DEF Flow, Runs, Sound, Resting
  <2> QED
    BY <2>1, PlanTail DEF PendOf
<1> QED
  BY <1>1 DEF Pends

(* What is there already moves nothing.                                    *)
LEMMA PresentIs ==
  ASSUME NEW t \in Txs, Present(t[1])
  PROVE  /\ Len(t) = 1 /\ t[1] \in Deeds
         /\ t[1].do \in {"pda", "ata", "walletAta", "topUp", "alt"}
<1>1. t[1].do \in {"pda", "ata", "walletAta", "topUp", "alt"}
  BY DEF Present
<1> QED
  BY <1>1, TxIs DEF Firsts

LEMMA PresentMoves ==
  ASSUME NEW t \in Txs, Present(t[1])
  PROVE  /\ \A home : \A w, v \in Worths : Via(Worths, Moves(home), t, w, v) => v = w
         /\ \A a : \A x, y \in Nat : Via(Nat, Owes(a), t, x, y) => y >= x
         /\ \A gifts \in SUBSET {"claim"} : \A a : \A x, y \in Nat : Via(Nat, Holds(gifts, a), t, x, y) => y >= x
         /\ \A x, y \in Nat : Via(Nat, Draws, t, x, y) => y <= x
<1>0. Len(t) = 1 /\ t[1] \in Deeds /\ t[1].do \in {"pda", "ata", "walletAta", "topUp", "alt"}
  BY PresentIs
<1>1. ASSUME NEW home, NEW w \in Worths, NEW v \in Worths, Via(Worths, Moves(home), t, w, v)
      PROVE  v = w
  <2>1. <<t[1], w, v>> \in Moves(home)
    BY <1>0, <1>1 DEF Via
  <2>2. v = Moved(home, t[1], w)
    BY <1>0, <2>1, InMoves
  <2> QED
    BY <1>0, <2>2 DEF Moved
<1>2. ASSUME NEW a, NEW x \in Nat, NEW y \in Nat, Via(Nat, Owes(a), t, x, y) PROVE y >= x
  <2>1. <<t[1], x, y>> \in Owes(a)
    BY <1>0, <1>2 DEF Via
  <2> QED
    BY <1>0, <2>1, InOwes DEF Spends, Grants
<1>3. ASSUME NEW gifts \in SUBSET {"claim"}, NEW a, NEW x \in Nat, NEW y \in Nat,
             Via(Nat, Holds(gifts, a), t, x, y)
      PROVE  y >= x
  <2>1. <<t[1], x, y>> \in Holds(gifts, a)
    BY <1>0, <1>3 DEF Via
  <2>2. Gain(a, t[1]) = 0 /\ ~Leaves(gifts, a, t[1])
    BY <1>0 DEF Gain, Leaves
  <2> QED
    BY <1>0, <2>1, <2>2, InHolds
<1>4. ASSUME NEW x \in Nat, NEW y \in Nat, Via(Nat, Draws, t, x, y) PROVE y <= x
  <2>1. <<t[1], x, y>> \in Draws
    BY <1>0, <1>4 DEF Via
  <2> QED
    BY <1>0, <2>1, InDraws
<1> QED
  BY <1>1, <1>2, <1>3, <1>4

LEMMA Repend ==
  ASSUME NEW H, Flow(H), NEW h \in H, run' = [run EXCEPT ![h] = run'[h]]
  PROVE  /\ Pends(H)' = [Pends(H) EXCEPT ![h] = PendOf(run'[h])]
         /\ \A g \in H : g # h => run'[g] = run[g]
<1>1. \A g \in H : g # h => run'[g] = run[g]
  BY DEF Flow
<1>2. Pends(H)' = [g \in H |-> PendOf(run'[g])]
  BY DEF Pends
<1> QED
  BY <1>1, <1>2 DEF Pends

(* A handler goes on: nothing changes on chain, and its plan at most loses what *)
(* is there already.                                                       *)
LEMMA GoesPromised ==
  ASSUME NEW H, Flow(H), NEW h \in H, Goes1(H, h), NEW home, Promised(H, home)
  PROVE  Promised(H, home)'
<1> DEFINE P == PendOf(run[h])
           Q == PendOf(run'[h])
<1>1. /\ run' = [run EXCEPT ![h] = run'[h]] /\ Goes(run[h], run'[h]) /\ acct' = acct
      /\ P \in Plans /\ \A g \in H : g # h => run'[g] = run[g]
  BY PendsAre, Repend DEF Goes1
<1>2. ASSUME NEW v \in run'[h].goal PROVE Along(Worths, Moves(home), Q, Worth(acct), v)
  <2>1. v \in run[h].goal /\ Along(Worths, Moves(home), P, Worth(acct), v)
    BY <1>1, <1>2 DEF Goes, Promised
  <2>2. CASE Q = P
    BY <2>1, <2>2
  <2>3. CASE P # <<>> /\ Q = Tail(P) /\ Present(P[1][1])
    <3>1. PICK m \in Worths : Via(Worths, Moves(home), P[1], Worth(acct), m)
                              /\ Along(Worths, Moves(home), Tail(P), m, v)
      BY <1>1, <2>1, <2>3, AlongTail
    <3>2. P[1] \in Txs /\ Worth(acct) \in Worths
      BY <1>1, <2>3, PlanTail, BooksHere, WorthType DEF Flow
    <3>3. m = Worth(acct)
      BY <2>3, <3>1, <3>2, PresentMoves
    <3> QED
      BY <2>3, <3>1, <3>3
  <2> QED
    BY <1>1, <2>2, <2>3 DEF Goes
<1> HIDE DEF P, Q
<1>3. ASSUME NEW g \in H, NEW v \in run'[g].goal
      PROVE  Along(Worths, Moves(home), PendOf(run'[g]), Worth(acct), v)
  <2>1. CASE g = h
    BY <1>2, <1>3, <2>1 DEF Q
  <2>2. CASE g # h
    BY <1>1, <1>3, <2>2 DEF Promised
  <2> QED
    BY <2>1, <2>2
<1> QED
  BY <1>1, <1>3 DEF Promised, PendOf, Worth

(* Of a bound, when what is there already leads no lower.                  *)
LEMMA GoesCovered ==
  ASSUME NEW H, Flow(H), IsFiniteSet(H), NEW h \in H, Goes1(H, h), NEW R, NEW n \in Int,
         \A t \in Txs : \A x, y \in Nat : Present(t[1]) /\ Via(Nat, R, t, x, y) => y >= x,
         Covered(H, R, Pends(H), n)
  PROVE  Covered(H, R, Pends(H)', n)
<1> DEFINE P == PendOf(run[h])
           Q == PendOf(run'[h])
<1>1. /\ Pends(H)' = [Pends(H) EXCEPT ![h] = Q] /\ Goes(run[h], run'[h])
      /\ P \in Plans /\ Pends(H) \in [H -> Plans] /\ Pends(H)[h] = P
  BY PendsAre, Repend DEF Goes1
<1>2. Q \in Plans
  BY <1>1, PlanTail DEF Goes
<1>3. ASSUME NEW x \in Nat, Along(Nat, R, P, x, 0) PROVE \E y \in Nat : y >= x /\ Along(Nat, R, Q, y, 0)
  <2>1. CASE Q = P
    BY <1>3, <2>1
  <2>2. CASE P # <<>> /\ Q = Tail(P) /\ Present(P[1][1])
    BY <1>1, <1>3, <2>2, AlongTail, PlanTail
  <2> QED
    BY <1>1, <2>1, <2>2 DEF Goes
<1> HIDE DEF P, Q
<1>4. Covered(H, R, [Pends(H) EXCEPT ![h] = Q], n)
  BY <1>1, <1>2, <1>3, CoveredSwap
<1> QED
  BY <1>1, <1>4

LEMMA GoesClosed ==
  ASSUME NEW H, Flow(H), IsFiniteSet(H), NEW h \in H, Goes1(H, h), Closed(H)
  PROVE  Closed(H)'
<1> SUFFICES ASSUME ~torn, NEW a \in Assets PROVE Covered(H, Owes(a), Pends(H)', acct.allow[a])
  BY DEF Closed, Goes1
<1>1. \A t \in Txs : \A x, y \in Nat : Present(t[1]) /\ Via(Nat, Owes(a), t, x, y) => y >= x
  BY PresentMoves
<1>2. acct.allow[a] \in Int
  BY DEF Flow, Accts, AmountPer
<1> QED
  BY <1>1, <1>2, GoesCovered DEF Closed

LEMMA GoesEmptied ==
  ASSUME NEW H, Flow(H), IsFiniteSet(H), NEW h \in H, Goes1(H, h), NEW gifts \in SUBSET {"claim"},
         Emptied(H, gifts)
  PROVE  Emptied(H, gifts)'
<1> SUFFICES ASSUME ~torn, NEW a \in Assets, ~(gifts # {} /\ a # Base /\ acct.claimed)
             PROVE  Covered(H, Holds(gifts, a), Pends(H)', acct.held[a])
  BY DEF Emptied, Goes1
<1>1. \A t \in Txs : \A x, y \in Nat : Present(t[1]) /\ Via(Nat, Holds(gifts, a), t, x, y) => y >= x
  BY PresentMoves
<1>2. acct.held[a] \in Int
  BY DEF Flow, Accts, AmountPer
<1> QED
  BY <1>1, <1>2, GoesCovered DEF Emptied

LEMMA GoesDrawn ==
  ASSUME NEW H, Flow(H), NEW h \in H, Goes1(H, h), Drawn(H)
  PROVE  Drawn(H)'
<1> DEFINE P == PendOf(run[h])
           Q == PendOf(run'[h])
<1>1. /\ Goes(run[h], run'[h]) /\ acct' = acct
      /\ P \in Plans /\ \A g \in H : g # h => run'[g] = run[g]
  BY PendsAre, Repend DEF Goes1
<1>2. ASSUME run'[h].op = "withdraw", run'[h].goal # {}
      PROVE  \E m \in Nat : acct.base >= m /\ Along(Nat, Draws, Q, m, 0)
  <2>1. PICK m \in Nat : acct.base >= m /\ Along(Nat, Draws, P, m, 0)
    BY <1>1, <1>2 DEF Goes, Drawn
  <2>2. CASE Q = P
    BY <2>1, <2>2
  <2>3. CASE P # <<>> /\ Q = Tail(P) /\ Present(P[1][1])
    <3>1. PICK k \in Nat : Via(Nat, Draws, P[1], m, k) /\ Along(Nat, Draws, Tail(P), k, 0)
      BY <1>1, <2>1, <2>3, AlongTail
    <3>2. k <= m /\ acct.base \in Int
      BY <1>1, <2>3, <3>1, PresentMoves, PlanTail DEF Flow, Accts
    <3> QED
      BY <2>1, <2>3, <3>1, <3>2
  <2> QED
    BY <1>1, <2>2, <2>3 DEF Goes
<1> HIDE DEF P, Q
<1>3. ASSUME NEW g \in H, run'[g].op = "withdraw", run'[g].goal # {}
      PROVE  \E m \in Nat : acct.base >= m /\ Along(Nat, Draws, PendOf(run'[g]), m, 0)
  <2>1. CASE g = h
    BY <1>2, <1>3, <2>1 DEF Q
  <2>2. CASE g # h
    BY <1>1, <1>3, <2>2 DEF Drawn
  <2> QED
    BY <2>1, <2>2
<1>4. Drawn(H)' <=> \A g \in H : run'[g].op = "withdraw" /\ run'[g].goal # {} =>
                      \E m \in Nat : acct'.base >= m /\ Along(Nat, Draws, PendOf(run'[g]), m, 0)
  BY DEF Drawn, PendOf, Along, Via, Draws, Deeds, Acts
<1> QED
  BY <1>1, <1>3, <1>4

(* A transaction executes.                                                 *)
LEMMA MineIs == ASSUME NEW x, NEW g, Mine(g, x) PROVE g = x.by
BY DEF Mine

LEMMA LandMine ==
  ASSUME NEW H, Flow(H), NEW x, LandOn(H, x), NEW h \in H, Mine(h, x)
  PROVE  /\ h = x.by /\ torn' = torn /\ x.legs \in Txs /\ ~IsLook(x.legs)
         /\ PendOf(run[h]) \in Plans /\ PendOf(run[h]) # <<>> /\ PendOf(run[h])[1] = x.legs
         /\ Pends(H)' = [Pends(H) EXCEPT ![h] = Tail(PendOf(run[h]))]
         /\ PendOf(run'[h]) = Tail(PendOf(run[h]))
<1>0. h = x.by
  BY MineIs
<1>1. PendOf(run[h]) \in Plans /\ Pends(H) \in [H -> Plans]
  BY PendsAre
<1>2. /\ torn' = torn /\ x.legs \in Txs /\ ~IsLook(x.legs)
      /\ PendOf(run[h]) # <<>> /\ PendOf(run[h])[1] = x.legs
      /\ Pends(H)' = [Pends(H) EXCEPT ![h] = Tail(PendOf(run[h]))]
  <2>1. Mine(x.by, x)
    BY <1>0
  <2> QED
    BY <1>0, <2>1, LandFlows
<1>3. Pends(H)'[h] = PendOf(run'[h])
  BY DEF Pends, PendOf
<1> QED
  BY <1>0, <1>1, <1>2, <1>3

LEMMA LandGoals ==
  ASSUME NEW H, Flow(H), NEW x, LandOn(H, x)
  PROVE  \A g \in H : run'[g].goal # {} => Mine(g, x) /\ run'[g].goal = run[g].goal /\ run'[g].op = run[g].op
<1> SUFFICES ASSUME NEW g \in H, run'[g].goal # {}
             PROVE  Mine(g, x) /\ run'[g].goal = run[g].goal /\ run'[g].op = run[g].op
  OBVIOUS
<1>1. run'[g].op = run[g].op /\ run'[g].goal = IF Mine(g, x) THEN run[g].goal ELSE {}
  BY LandFlows
<1> QED
  BY <1>1

LEMMA LandPromised ==
  ASSUME NEW H, Flow(H), NEW x, LandOn(H, x), NEW home, Promised(H, home)
  PROVE  Promised(H, home)'
<1>1. ASSUME NEW g \in H, NEW v \in run'[g].goal
      PROVE  Along(Worths, Moves(home), PendOf(run'[g]), Worth(acct'), v)
  <2> DEFINE P == PendOf(run[g])
  <2>1. Mine(g, x) /\ v \in run[g].goal
    <3>1. run'[g].goal # {}
      BY <1>1
    <3> QED
      BY <1>1, <3>1, LandGoals
  <2>2. /\ P \in Plans /\ P # <<>> /\ P[1] = x.legs /\ x.legs \in Txs /\ ~IsLook(x.legs)
        /\ PendOf(run'[g]) = Tail(P)
    BY <2>1, LandMine
  <2>3. Along(Worths, Moves(home), P, Worth(acct), v)
    BY <2>1 DEF Promised
  <2> HIDE DEF P
  <2>4. PICK m \in Worths : Via(Worths, Moves(home), x.legs, Worth(acct), m)
                            /\ Along(Worths, Moves(home), Tail(P), m, v)
    BY <2>2, <2>3, AlongTail
  <2>5. acct \in Accts /\ AllAble(x.legs, acct) /\ acct' = AllDo(x.legs, acct)
    BY DEF LandOn, Flow
  <2>6. m = Worth(acct')
    BY <2>2, <2>4, <2>5, TxMoves
  <2> QED
    BY <2>2, <2>4, <2>6
<1> QED
  BY <1>1 DEF Promised, PendOf, Worth

LEMMA LandCovered ==
  ASSUME NEW H, Flow(H), IsFiniteSet(H), NEW x, LandOn(H, x), Mine(x.by, x), NEW R, NEW k, NEW n,
         Covered(H, R, Pends(H), k),
         \A a, b, rest \in Nat : Via(Nat, R, x.legs, a, b) /\ k <= a + rest => n <= b + rest
  PROVE  Covered(H, R, Pends(H)', n)
<1> DEFINE h == x.by
           p == Pends(H)
<1>1. h \in H
  BY LandFlows
<1>2. p \in [H -> Plans] /\ p[h] = PendOf(run[h])
  BY <1>1, PendsAre
<1>3. p[h] # <<>> /\ p[h][1] = x.legs /\ Pends(H)' = [p EXCEPT ![h] = Tail(p[h])]
  BY <1>1, <1>2, LandMine
<1>4. Covered(H, R, p, k)
  OBVIOUS
<1> HIDE DEF p, h
<1>5. Covered(H, R, [p EXCEPT ![h] = Tail(p[h])], n)
  BY <1>1, <1>2, <1>3, <1>4, CoveredLand
<1> QED
  BY <1>3, <1>5

LEMMA LandClosed ==
  ASSUME NEW H, Flow(H), IsFiniteSet(H), NEW x, LandOn(H, x), Closed(H)
  PROVE  Closed(H)'
<1> SUFFICES ASSUME ~torn', NEW a \in Assets PROVE Covered(H, Owes(a), Pends(H)', acct'.allow[a])
  BY DEF Closed
<1>1. Mine(x.by, x) /\ ~torn /\ x.legs \in Txs /\ ~IsLook(x.legs)
  BY LandFlows
<1>2. acct \in Accts /\ AllAble(x.legs, acct) /\ acct' = AllDo(x.legs, acct)
  BY DEF LandOn, Flow
<1>3. \A p, q, rest \in Nat :
        Via(Nat, Owes(a), x.legs, p, q) /\ acct.allow[a] <= p + rest => acct'.allow[a] <= q + rest
  BY <1>1, <1>2, TxOwes
<1>4. Covered(H, Owes(a), Pends(H), acct.allow[a])
  BY <1>1 DEF Closed
<1> QED
  BY <1>1, <1>3, <1>4, LandCovered

LEMMA TxClaimed ==
  ASSUME NEW t \in Txs, ~IsLook(t), NEW s \in Accts, AllAble(t, s), s.claimed
  PROVE  AllDo(t, s).claimed
<1>1. /\ t[1] \in Deeds /\ t[1].do # "look" /\ Does(t[1], s) \in Accts
      /\ Len(t) # 1 => t[2] \in Deeds /\ t[2].do # "look"
      /\ AllDo(t, s) = IF Len(t) = 1 THEN Does(t[1], s) ELSE Does(t[2], Does(t[1], s))
  BY TxLegs
<1>2. Does(t[1], s).claimed
  BY <1>1, DoesClaimed
<1>3. Len(t) # 1 => Does(t[2], Does(t[1], s)).claimed
  BY <1>1, <1>2, DoesClaimed
<1> QED
  BY <1>1, <1>2, <1>3

LEMMA LandEmptied ==
  ASSUME NEW H, Flow(H), IsFiniteSet(H), NEW x, LandOn(H, x), NEW gifts \in SUBSET {"claim"}, Emptied(H, gifts)
  PROVE  Emptied(H, gifts)'
<1> SUFFICES ASSUME ~torn', NEW a \in Assets, ~(gifts # {} /\ a # Base /\ acct'.claimed)
             PROVE  Covered(H, Holds(gifts, a), Pends(H)', acct'.held[a])
  BY DEF Emptied
<1>1. Mine(x.by, x) /\ ~torn /\ x.legs \in Txs /\ ~IsLook(x.legs)
  BY LandFlows
<1>2. acct \in Accts /\ AllAble(x.legs, acct) /\ acct' = AllDo(x.legs, acct)
  BY DEF LandOn, Flow
<1>3. \A p, q, rest \in Nat :
        Via(Nat, Holds(gifts, a), x.legs, p, q) /\ acct.held[a] <= p + rest => acct'.held[a] <= q + rest
  BY <1>1, <1>2, TxHolds
<1>4. Covered(H, Holds(gifts, a), Pends(H), acct.held[a])
  BY <1>1, <1>2, TxClaimed DEF Emptied
<1> QED
  BY <1>1, <1>3, <1>4, LandCovered

LEMMA LandDrawn ==
  ASSUME NEW H, Flow(H), NEW x, LandOn(H, x), Drawn(H)
  PROVE  Drawn(H)'
<1>1. ASSUME NEW g \in H, run'[g].op = "withdraw", run'[g].goal # {}
      PROVE  \E m \in Nat : acct'.base >= m /\ Along(Nat, Draws, PendOf(run'[g]), m, 0)
  <2> DEFINE P == PendOf(run[g])
  <2>1. Mine(g, x) /\ run[g].goal # {} /\ run[g].op = "withdraw"
    BY <1>1, LandGoals
  <2>2. P \in Plans /\ P # <<>> /\ P[1] = x.legs /\ x.legs \in Txs /\ ~IsLook(x.legs)
    BY <2>1, LandMine
  <2>3. PendOf(run'[g]) = Tail(P)
    BY <2>1, LandMine
  <2>4. PICK k \in Nat : acct.base >= k /\ Along(Nat, Draws, P, k, 0)
    BY <2>1 DEF Drawn
  <2> HIDE DEF P
  <2>5. PICK m \in Nat : Via(Nat, Draws, x.legs, k, m) /\ Along(Nat, Draws, Tail(P), m, 0)
    BY <2>2, <2>4, AlongTail
  <2>6. acct \in Accts /\ AllAble(x.legs, acct) /\ acct' = AllDo(x.legs, acct)
    BY DEF LandOn, Flow
  <2>7. acct'.base >= m
    BY <2>2, <2>4, <2>5, <2>6, TxDraws
  <2> QED
    BY <2>3, <2>5, <2>7
<1>2. Drawn(H)' <=> \A g \in H : run'[g].op = "withdraw" /\ run'[g].goal # {} =>
                      \E m \in Nat : acct'.base >= m /\ Along(Nat, Draws, PendOf(run'[g]), m, 0)
  BY DEF Drawn, PendOf, Along, Via, Draws, Deeds, Acts
<1> QED
  BY <1>1, <1>2

(* A handler begins another plan, or none, when nothing is left of its own. *)
Ready(H, h) == run' = [run EXCEPT ![h] = run'[h]] /\ acct' = acct /\ torn' = torn

LEMMA AnewPromised ==
  ASSUME NEW H, Flow(H), NEW h \in H, Ready(H, h), NEW home, Promised(H, home),
         \A v \in run'[h].goal : Along(Worths, Moves(home), PendOf(run'[h]), Worth(acct), v)
  PROVE  Promised(H, home)'
<1>1. acct' = acct /\ \A g \in H : g # h => run'[g] = run[g]
  BY Repend DEF Ready
<1>2. ASSUME NEW g \in H, NEW v \in run'[g].goal
      PROVE  Along(Worths, Moves(home), PendOf(run'[g]), Worth(acct), v)
  <2>1. CASE g = h
    BY <1>2, <2>1
  <2>2. CASE g # h
    BY <1>1, <1>2, <2>2 DEF Promised
  <2> QED
    BY <2>1, <2>2
<1> QED
  BY <1>1, <1>2 DEF Promised, PendOf, Worth

LEMMA AnewCovered ==
  ASSUME NEW H, Flow(H), IsFiniteSet(H), NEW h \in H, Ready(H, h), PendOf(run'[h]) \in Plans,
         NEW R, NEW n \in Nat, Covered(H, R, Pends(H), n),
         \/ \E y \in {n} : Along(Nat, R, PendOf(run'[h]), y, 0)
         \/ /\ \A x \in Nat : Along(Nat, R, PendOf(run[h]), x, 0) => x = 0
            /\ Along(Nat, R, PendOf(run'[h]), 0, 0)
  PROVE  Covered(H, R, Pends(H)', n)
<1> DEFINE p == Pends(H)
           Q == PendOf(run'[h])
<1>1. p \in [H -> Plans] /\ p[h] = PendOf(run[h])
  BY PendsAre
<1>2. Pends(H)' = [p EXCEPT ![h] = Q]
  BY Repend DEF Ready
<1> HIDE DEF p, Q
<1>3. Covered(H, R, p, n) /\ Q \in Plans
  BY DEF p, Q
<1>4. CASE Along(Nat, R, Q, n, 0)
  <2>1. Covered(H, R, [p EXCEPT ![h] = Q], n)
    BY <1>1, <1>3, <1>4, CoveredAnew
  <2> QED
    BY <1>2, <2>1
<1>5. CASE (\A x \in Nat : Along(Nat, R, p[h], x, 0) => x = 0) /\ Along(Nat, R, Q, 0, 0)
  <2>1. \A x \in Nat : Along(Nat, R, p[h], x, 0) => \E y \in Nat : y >= x /\ Along(Nat, R, Q, y, 0)
    BY <1>5
  <2>2. n \in Int
    OBVIOUS
  <2>3. Covered(H, R, [p EXCEPT ![h] = Q], n)
    BY <1>1, <1>3, <2>1, <2>2, CoveredSwap
  <2> QED
    BY <1>2, <2>3
<1> QED
  BY <1>1, <1>4, <1>5 DEF Q

LEMMA AnewClosed ==
  ASSUME NEW H, Flow(H), IsFiniteSet(H), NEW h \in H, Ready(H, h), PendOf(run'[h]) \in Plans, Closed(H),
         \A a \in Assets : /\ \A x \in Nat : Along(Nat, Owes(a), PendOf(run[h]), x, 0) => x = 0
                           /\ Along(Nat, Owes(a), PendOf(run'[h]), 0, 0)
  PROVE  Closed(H)'
<1> SUFFICES ASSUME ~torn, NEW a \in Assets PROVE Covered(H, Owes(a), Pends(H)', acct.allow[a])
  BY DEF Closed, Ready
<1>1. acct.allow[a] \in Nat
  BY DEF Flow, Accts, AmountPer
<1>2. Covered(H, Owes(a), Pends(H), acct.allow[a])
  BY DEF Closed
<1> QED
  BY <1>1, <1>2, AnewCovered

LEMMA AnewEmptied ==
  ASSUME NEW H, Flow(H), IsFiniteSet(H), NEW h \in H, Ready(H, h), PendOf(run'[h]) \in Plans,
         NEW gifts, Emptied(H, gifts),
         \A a \in Assets :
           \/ Along(Nat, Holds(gifts, a), PendOf(run'[h]), acct.held[a], 0)
           \/ /\ \A x \in Nat : Along(Nat, Holds(gifts, a), PendOf(run[h]), x, 0) => x = 0
              /\ Along(Nat, Holds(gifts, a), PendOf(run'[h]), 0, 0)
  PROVE  Emptied(H, gifts)'
<1> SUFFICES ASSUME ~torn, NEW a \in Assets, ~(gifts # {} /\ a # Base /\ acct.claimed)
             PROVE  Covered(H, Holds(gifts, a), Pends(H)', acct.held[a])
  BY DEF Emptied, Ready
<1>1. acct.held[a] \in Nat
  BY DEF Flow, Accts, AmountPer
<1>2. Covered(H, Holds(gifts, a), Pends(H), acct.held[a])
  BY DEF Emptied
<1> QED
  BY <1>1, <1>2, AnewCovered

LEMMA AnewDrawn ==
  ASSUME NEW H, Flow(H), NEW h \in H, Ready(H, h), Drawn(H),
         run'[h].op = "withdraw" /\ run'[h].goal # {} =>
           \E m \in Nat : acct.base >= m /\ Along(Nat, Draws, PendOf(run'[h]), m, 0)
  PROVE  Drawn(H)'
<1>1. acct' = acct /\ \A g \in H : g # h => run'[g] = run[g]
  BY Repend DEF Ready
<1>2. ASSUME NEW g \in H, run'[g].op = "withdraw", run'[g].goal # {}
      PROVE  \E m \in Nat : acct.base >= m /\ Along(Nat, Draws, PendOf(run'[g]), m, 0)
  <2>1. CASE g = h
    BY <1>2, <2>1
  <2>2. CASE g # h
    BY <1>1, <1>2, <2>2 DEF Drawn
  <2> QED
    BY <2>1, <2>2
<1>3. Drawn(H)' <=> \A g \in H : run'[g].op = "withdraw" /\ run'[g].goal # {} =>
                      \E m \in Nat : acct'.base >= m /\ Along(Nat, Draws, PendOf(run'[g]), m, 0)
  BY DEF Drawn, PendOf, Along, Via, Draws, Deeds, Acts
<1> QED
  BY <1>1, <1>2, <1>3

(* A handler at rest has nothing left.                                     *)
LEMMA RestsIs ==
  ASSUME NEW H, Flow(H), NEW h \in H, ~Running(h)
  PROVE  /\ PendOf(run[h]) = <<>> /\ run[h].goal = {} /\ run[h].op = "none"
         /\ \A R : \A x \in Nat : Along(Nat, R, PendOf(run[h]), x, 0) => x = 0
<1>1. PendOf(run[h]) = <<>> /\ run[h].goal = {} /\ run[h].op = "none"
  BY DEF Flow, Running, Resting, Sound, PendOf
<1>2. ASSUME NEW R, NEW x \in Nat, Along(Nat, R, <<>>, x, 0) PROVE x = 0
  BY <1>2, AlongNil
<1> QED
  BY <1>1, <1>2

(* Nor has one that looks, but for bringing home what it finds.            *)
LEMMA LooksIs ==
  ASSUME NEW H, Flow(H), NEW h \in H, run[h].pc = "next", run[h].todo[1][1].do = "look"
  PROVE  /\ Len(run[h].todo) = 1 /\ PendOf(run[h]) = run[h].todo /\ run[h].todo \in Plans /\ run[h].todo # <<>>
         /\ run[h].todo[1][1] \in Deeds /\ Len(run[h].todo[1]) = 1
<1>1. run[h].todo \in Plans /\ run[h].todo # <<>> /\ Sound(run[h]) /\ PendOf(run[h]) = run[h].todo
  BY DEF Flow, Runs, Sound, Resting, PendOf
<1>2. run[h].todo[1] \in Txs /\ Len(run[h].todo) \in Nat /\ Len(run[h].todo) >= 1
  BY <1>1, PlanTail
<1>3. Len(run[h].todo) = 1
  <2>1. \A i \in 1 .. Len(run[h].todo) - 1 : ~IsLook(run[h].todo[i])
    BY <1>1 DEF Sound
  <2>2. IsLook(run[h].todo[1])
    BY DEF IsLook
  <2>3. ~(1 \in 1 .. Len(run[h].todo) - 1)
    BY <2>1, <2>2
  <2> DEFINE n == Len(run[h].todo)
  <2>4. n \in Nat /\ n >= 1 /\ ~(1 \in 1 .. n - 1)
    BY <1>2, <2>3
  <2> HIDE DEF n
  <2>5. n = 1
    BY <2>4
  <2> QED
    BY <2>5 DEF n
<1>4. run[h].todo[1][1] \in Deeds /\ Len(run[h].todo[1]) = 1
  BY <1>2, TxIs DEF Firsts
<1> QED
  BY <1>1, <1>3, <1>4

LEMMA LooksAlong ==
  ASSUME NEW H, Flow(H), NEW h \in H, run[h].pc = "next", run[h].todo[1][1].do = "look",
         NEW X, NEW R, NEW x, NEW y, Along(X, R, PendOf(run[h]), x, y)
  PROVE  <<run[h].todo[1][1], x, y>> \in R
<1> DEFINE P == run[h].todo
<1>1. PICK w \in [1 .. Len(P) + 1 -> X] :
        w[1] = x /\ w[Len(P) + 1] = y /\ \A i \in 1 .. Len(P) : Via(X, R, P[i], w[i], w[i + 1])
  BY LooksIs DEF Along
<1>2. Len(P) = 1 /\ Len(P[1]) = 1
  BY LooksIs
<1>3. Via(X, R, P[1], w[1], w[1 + 1]) /\ w[2] = y
  BY <1>1, <1>2
<1> HIDE DEF P
<1>4. <<P[1][1], x, y>> \in R
  BY <1>1, <1>2, <1>3 DEF Via
<1> QED
  BY <1>4 DEF P

LEMMA LooksOwes ==
  ASSUME NEW H, Flow(H), NEW h \in H, run[h].pc = "next", run[h].todo[1][1].do = "look"
  PROVE  \A a \in Assets : \A x \in Nat : Along(Nat, Owes(a), PendOf(run[h]), x, 0) => x = 0
<1> SUFFICES ASSUME NEW a \in Assets, NEW x \in Nat, Along(Nat, Owes(a), PendOf(run[h]), x, 0) PROVE x = 0
  OBVIOUS
<1>1. <<run[h].todo[1][1], x, 0>> \in Owes(a)
  BY LooksAlong
<1> QED
  BY <1>1, LooksIs, InOwes DEF Spends, Grants

(* Nothing that the invariants are about changes.                          *)
LEMMA StillKeeps ==
  ASSUME NEW H, NEW home, NEW gifts, run' = run, torn' = torn,
         Worth(acct') = Worth(acct), acct'.allow = acct.allow, acct'.held = acct.held,
         acct'.claimed = acct.claimed, acct'.base = acct.base
  PROVE  /\ Promised(H, home) => Promised(H, home)'
         /\ Closed(H) => Closed(H)'
         /\ Emptied(H, gifts) => Emptied(H, gifts)'
         /\ Drawn(H) => Drawn(H)'
<1>1. Pends(H)' = Pends(H)
  BY DEF Pends, PendOf
<1>2. Promised(H, home) => Promised(H, home)'
  BY DEF Promised, PendOf, Worth
<1>3. Closed(H) => Closed(H)'
  BY <1>1 DEF Closed
<1>4. Emptied(H, gifts) => Emptied(H, gifts)'
  BY <1>1 DEF Emptied
<1>5. Drawn(H) => Drawn(H)'
  BY DEF Drawn, PendOf
<1> QED
  BY <1>2, <1>3, <1>4, <1>5

(* A handler fails: nothing is promised any more.                          *)
LEMMA FailKeeps ==
  ASSUME NEW H, Flow(H), NEW h \in H, Fail(h), NEW home, NEW gifts
  PROVE  /\ Promised(H, home) => Promised(H, home)'
         /\ Closed(H)' /\ Emptied(H, gifts)'
         /\ Drawn(H) => Drawn(H)'
<1>1. torn' = TRUE /\ acct' = acct /\ run' = [run EXCEPT ![h] = Idle] /\ Idle.goal = {}
  BY FailFlows, IdleIs
<1>2. run'[h].goal = {} /\ \A g \in H : g # h => run'[g] = run[g]
  BY <1>1 DEF Flow
<1>3. Promised(H, home) => Promised(H, home)'
  BY <1>1, <1>2 DEF Promised, PendOf, Worth
<1>4. Drawn(H) => Drawn(H)'
  BY <1>1, <1>2 DEF Drawn, PendOf
<1> QED
  BY <1>1, <1>3, <1>4 DEF Closed, Emptied

LEMMA HarnessSupplied == ASSUME NEW l, NEW s PROVE Harness!Supplied(l, s) = Supplied(l, s)
BY DEF Harness!Supplied, Supplied

LEMMA HarnessWithdrawn == ASSUME NEW l, NEW s PROVE Harness!Withdrawn(l, s) = Withdrawn(l, s)
BY DEF Harness!Withdrawn, Withdrawn

LEMMA HarnessDoes ==
  ASSUME NEW l, l.do \in Acts, NEW s
  PROVE  Harness!Does(l, s) = Does(l, s)
<1>1. CASE l.do = "pda"
  BY <1>1 DEF Harness!Does, Does
<1>2. CASE l.do \in {"ata", "nativeAta"}
  BY <1>2 DEF Harness!Does, Does
<1>3. CASE l.do \in {"walletAta", "homeAta"}
  BY <1>3 DEF Harness!Does, Does
<1>4. CASE l.do = "alt"
  BY <1>4 DEF Harness!Does, Does
<1>5. CASE l.do = "fund"
  BY <1>5 DEF Harness!Does, Does
<1>6. CASE l.do \in {"approve", "topUp"}
  BY <1>6 DEF Harness!Does, Does
<1>7. CASE l.do = "supply"
  BY <1>7, HarnessSupplied DEF Harness!Does, Does
<1>8. CASE l.do = "withdraw"
  BY <1>8, HarnessWithdrawn DEF Harness!Does, Does
<1>9. CASE l.do = "return"
  BY <1>9 DEF Harness!Does, Does
<1>10. CASE l.do = "give"
  BY <1>10 DEF Harness!Does, Does
<1>11. CASE l.do = "absorb"
  BY <1>11 DEF Harness!Does, Does
<1>12. CASE l.do = "buy"
  BY <1>12 DEF Harness!Does, Does
<1>13. CASE l.do = "claim"
  BY <1>13 DEF Harness!Does, Does
<1>14. CASE l.do = "airdrop"
  BY <1>14 DEF Harness!Does, Does
<1> QED
  BY <1>1, <1>2, <1>3, <1>4, <1>5, <1>6, <1>7, <1>8, <1>9, <1>10, <1>11, <1>12, <1>13, <1>14 DEF Acts

LEMMA HarnessCan == ASSUME NEW l, NEW s, Harness!Can(l, s) PROVE Able(l, s)
BY DEF Harness!Can, Able

(* What a transaction needs and does.                                      *)
LEMMA HarnessTx ==
  ASSUME NEW t \in Txs, ~IsLook(t), NEW s
  PROVE  (Harness!AllCan(t, s) => AllAble(t, s)) /\ Harness!AllDo(t, s) = AllDo(t, s)
<1>1. t[1].do \in Acts /\ (Len(t) # 1 => t[2].do \in Acts /\ Len(t) = 2)
  BY TxIs DEF Deeds, Seconds, IsLook, Acts
<1>2. Harness!Does(t[1], s) = Does(t[1], s)
  BY <1>1, HarnessDoes
<1>3. Len(t) # 1 => Harness!Does(t[2], Does(t[1], s)) = Does(t[2], Does(t[1], s))
  BY <1>1, HarnessDoes
<1>4. ASSUME Harness!AllCan(t, s) PROVE AllAble(t, s)
  BY <1>1, <1>2, <1>4, HarnessCan DEF Harness!AllCan, AllAble
<1> QED
  BY <1>1, <1>2, <1>3, <1>4 DEF Harness!AllDo, AllDo

LEMMA HarnessNonces == ASSUME NEW t PROVE Harness!Nonces(t) = Nonces(t)
BY DEF Harness!Nonces, Nonces, Harness!NonceOf, NonceOf, Harness!Native, Native

LEMMA HarnessBehind == ASSUME NEW b, NEW k PROVE Harness!Behind(b, k) = Behind(b, k)
BY DEF Harness!Behind, Behind, Harness!Unread, Unread

LEMMA HarnessIdle == Harness!Idle = Idle /\ Harness!Ended = Ended /\ Harness!Resting = Resting /\ Harness!Unread = Unread
BY DEF Harness!Idle, Idle, Harness!Ended, Ended, Harness!Resting, Resting, Harness!Unread, Unread

LEMMA HarnessRunning == ASSUME NEW h PROVE Harness!Running(h) = Running(h)
BY DEF Harness!Running, Running, Harness!Resting, Resting

LEMMA HarnessBegin == ASSUME NEW h, NEW op, NEW P, NEW g PROVE Harness!Begin(h, op, P, g) = Begin(h, op, P, g)
BY DEF Harness!Begin, Begin, Harness!Become, Become, Harness!Idle, Idle, Harness!Unread, Unread, Harness!Worth, Worth

LEMMA HarnessDecline == ASSUME NEW h PROVE Harness!Decline(h) = Decline(h)
BY DEF Harness!Decline, Decline, Harness!Become, Become, Harness!Idle, Idle, Harness!Unread, Unread

LEMMA HarnessLeg == ASSUME NEW do, NEW a, NEW n PROVE Harness!Leg(do, a, n) = Leg(do, a, n)
BY DEF Harness!Leg, Leg

LEMMA HarnessPresent == ASSUME NEW l PROVE Harness!Present(l) = Present(l)
BY DEF Harness!Present, Present

LEMMA HarnessAdvance == ASSUME NEW r PROVE Harness!Advance(r) = Advance(r)
BY HarnessIdle DEF Harness!Advance, Advance

LEMMA HarnessSkip == ASSUME NEW h PROVE Harness!Skip(h) = Skip(h)
BY HarnessPresent, HarnessAdvance DEF Harness!Skip, Skip, Harness!Become, Become

LEMMA HarnessFail == ASSUME NEW h PROVE Harness!Fail(h) = Fail(h)
BY HarnessIdle DEF Harness!Fail, Fail, Harness!Running, Running, Harness!Become, Become

LEMMA HarnessSign == ASSUME NEW h, Harness!Sign(h) PROVE SignOn(h)
BY HarnessNonces DEF Harness!Sign, SignOn, Harness!Become, Become

LEMMA HarnessAsk == ASSUME NEW h, Harness!Ask(h) PROVE AskOn(TRUE, h)
BY HarnessNonces, HarnessPresent, HarnessIdle DEF Harness!Ask, AskOn, Harness!Become, Become

LEMMA HarnessConfirm == ASSUME NEW h, NEW p, Harness!Confirm(h, p) PROVE ConfirmOn(TRUE, h, p)
BY HarnessNonces, HarnessAdvance, HarnessIdle DEF Harness!Confirm, ConfirmOn, Harness!Become, Become

LEMMA DriverSupplied == ASSUME NEW l, NEW s PROVE Driver!Supplied(l, s) = Supplied(l, s)
BY DEF Driver!Supplied, Supplied

LEMMA DriverWithdrawn == ASSUME NEW l, NEW s PROVE Driver!Withdrawn(l, s) = Withdrawn(l, s)
BY DEF Driver!Withdrawn, Withdrawn

LEMMA DriverDoes ==
  ASSUME NEW l, l.do \in Acts, NEW s
  PROVE  Driver!Does(l, s) = Does(l, s)
<1>1. CASE l.do = "pda"
  BY <1>1 DEF Driver!Does, Does
<1>2. CASE l.do \in {"ata", "nativeAta"}
  BY <1>2 DEF Driver!Does, Does
<1>3. CASE l.do \in {"walletAta", "homeAta"}
  BY <1>3 DEF Driver!Does, Does
<1>4. CASE l.do = "alt"
  BY <1>4 DEF Driver!Does, Does
<1>5. CASE l.do = "fund"
  BY <1>5 DEF Driver!Does, Does
<1>6. CASE l.do \in {"approve", "topUp"}
  BY <1>6 DEF Driver!Does, Does
<1>7. CASE l.do = "supply"
  BY <1>7, DriverSupplied DEF Driver!Does, Does
<1>8. CASE l.do = "withdraw"
  BY <1>8, DriverWithdrawn DEF Driver!Does, Does
<1>9. CASE l.do = "return"
  BY <1>9 DEF Driver!Does, Does
<1>10. CASE l.do = "give"
  BY <1>10 DEF Driver!Does, Does
<1>11. CASE l.do = "absorb"
  BY <1>11 DEF Driver!Does, Does
<1>12. CASE l.do = "buy"
  BY <1>12 DEF Driver!Does, Does
<1>13. CASE l.do = "claim"
  BY <1>13 DEF Driver!Does, Does
<1>14. CASE l.do = "airdrop"
  BY <1>14 DEF Driver!Does, Does
<1> QED
  BY <1>1, <1>2, <1>3, <1>4, <1>5, <1>6, <1>7, <1>8, <1>9, <1>10, <1>11, <1>12, <1>13, <1>14 DEF Acts

LEMMA DriverCan == ASSUME NEW l, NEW s, Driver!Can(l, s) PROVE Able(l, s)
BY DEF Driver!Can, Able

(* What a transaction needs and does.                                      *)
LEMMA DriverTx ==
  ASSUME NEW t \in Txs, ~IsLook(t), NEW s
  PROVE  (Driver!AllCan(t, s) => AllAble(t, s)) /\ Driver!AllDo(t, s) = AllDo(t, s)
<1>1. t[1].do \in Acts /\ (Len(t) # 1 => t[2].do \in Acts /\ Len(t) = 2)
  BY TxIs DEF Deeds, Seconds, IsLook, Acts
<1>2. Driver!Does(t[1], s) = Does(t[1], s)
  BY <1>1, DriverDoes
<1>3. Len(t) # 1 => Driver!Does(t[2], Does(t[1], s)) = Does(t[2], Does(t[1], s))
  BY <1>1, DriverDoes
<1>4. ASSUME Driver!AllCan(t, s) PROVE AllAble(t, s)
  BY <1>1, <1>2, <1>4, DriverCan DEF Driver!AllCan, AllAble
<1> QED
  BY <1>1, <1>2, <1>3, <1>4 DEF Driver!AllDo, AllDo

LEMMA DriverNonces == ASSUME NEW t PROVE Driver!Nonces(t) = Nonces(t)
BY DEF Driver!Nonces, Nonces, Driver!NonceOf, NonceOf, Driver!Native, Native

LEMMA DriverBehind == ASSUME NEW b, NEW k PROVE Driver!Behind(b, k) = Behind(b, k)
BY DEF Driver!Behind, Behind, Driver!Unread, Unread

LEMMA DriverIdle == Driver!Idle = Idle /\ Driver!Ended = Ended /\ Driver!Resting = Resting /\ Driver!Unread = Unread
BY DEF Driver!Idle, Idle, Driver!Ended, Ended, Driver!Resting, Resting, Driver!Unread, Unread

LEMMA DriverRunning == ASSUME NEW h PROVE Driver!Running(h) = Running(h)
BY DEF Driver!Running, Running, Driver!Resting, Resting

LEMMA DriverBegin == ASSUME NEW h, NEW op, NEW P, NEW g PROVE Driver!Begin(h, op, P, g) = Begin(h, op, P, g)
BY DEF Driver!Begin, Begin, Driver!Become, Become, Driver!Idle, Idle, Driver!Unread, Unread, Driver!Worth, Worth

LEMMA DriverDecline == ASSUME NEW h PROVE Driver!Decline(h) = Decline(h)
BY DEF Driver!Decline, Decline, Driver!Become, Become, Driver!Idle, Idle, Driver!Unread, Unread

LEMMA DriverLeg == ASSUME NEW do, NEW a, NEW n PROVE Driver!Leg(do, a, n) = Leg(do, a, n)
BY DEF Driver!Leg, Leg

LEMMA DriverPresent == ASSUME NEW l PROVE Driver!Present(l) = Present(l)
BY DEF Driver!Present, Present

LEMMA DriverAdvance == ASSUME NEW r PROVE Driver!Advance(r) = Advance(r)
BY DriverIdle DEF Driver!Advance, Advance

LEMMA DriverSkip == ASSUME NEW h PROVE Driver!Skip(h) = Skip(h)
BY DriverPresent, DriverAdvance DEF Driver!Skip, Skip, Driver!Become, Become

LEMMA DriverFail == ASSUME NEW h PROVE Driver!Fail(h) = Fail(h)
BY DriverIdle DEF Driver!Fail, Fail, Driver!Running, Running, Driver!Become, Become

LEMMA DriverSign == ASSUME NEW h, Driver!Sign(h) PROVE SignOn(h)
BY DriverNonces DEF Driver!Sign, SignOn, Driver!Become, Become

LEMMA DriverAsk == ASSUME NEW h, Driver!Ask(h) PROVE AskOn(TRUE, h)
BY DriverNonces, DriverPresent, DriverIdle DEF Driver!Ask, AskOn, Driver!Become, Become

LEMMA DriverConfirm == ASSUME NEW h, NEW p, Driver!Confirm(h, p) PROVE ConfirmOn(TRUE, h, p)
BY DriverNonces, DriverAdvance, DriverIdle DEF Driver!Confirm, ConfirmOn, Driver!Become, Become

LEMMA NetIs ==
  ASSUME NEW H, Flow(H), NEW x \in net
  PROVE  x.legs \in Txs /\ ~IsLook(x.legs) /\ x.by \in H
<1>1. x \in Messages(H)
  BY DEF Flow
<1> QED
  BY <1>1 DEF Messages

LEMMA HarnessLand ==
  ASSUME Flow(TwoHandlers), NEW x, Harness!Land(x)
  PROVE  LandOn(TwoHandlers, x)
<1>0. x \in net
  BY DEF Harness!Land
<1>1. x \in net /\ x.legs \in Txs /\ ~IsLook(x.legs)
  BY <1>0, NetIs
<1>2. /\ AllAble(x.legs, acct) /\ acct' = AllDo(x.legs, acct)
  BY <1>1, HarnessTx DEF Harness!Land
<1>3. net' = {[y EXCEPT !.ahead = IF Nonces(y.legs) = 0 THEN @ ELSE Behind(@, Nonces(x.legs))] :
                y \in net \ {x}}
  BY HarnessNonces, HarnessBehind DEF Harness!Land
<1>4. /\ run' = [h \in TwoHandlers |-> [run[h] EXCEPT !.ahead = Behind(@, Nonces(x.legs)),
                                         !.landed = @ \/ Mine(h, x),
                                         !.goal = IF Mine(h, x) THEN @ ELSE {}]]
      /\ torn' = (torn \/ ~Mine(x.by, x))
  BY HarnessNonces, HarnessBehind DEF Harness!Land, Mine
<1> QED
  BY <1>1, <1>2, <1>3, <1>4 DEF LandOn

LEMMA DriverLand ==
  ASSUME Flow(Handlers), NEW x, Driver!Land(x)
  PROVE  LandOn(Handlers, x)
<1>0. x \in net
  BY DEF Driver!Land
<1>1. x \in net /\ x.legs \in Txs /\ ~IsLook(x.legs)
  BY <1>0, NetIs
<1>2. /\ AllAble(x.legs, acct) /\ acct' = AllDo(x.legs, acct)
  BY <1>1, DriverTx DEF Driver!Land
<1>3. net' = {[y EXCEPT !.ahead = IF Nonces(y.legs) = 0 THEN @ ELSE Behind(@, Nonces(x.legs))] :
                y \in net \ {x}}
  BY DriverNonces, DriverBehind DEF Driver!Land
<1>4. /\ run' = [h \in Handlers |-> [run[h] EXCEPT !.ahead = Behind(@, Nonces(x.legs)),
                                         !.landed = @ \/ Mine(h, x),
                                         !.goal = IF Mine(h, x) THEN @ ELSE {}]]
      /\ torn' = (torn \/ ~Mine(x.by, x))
  BY DriverNonces, DriverBehind DEF Driver!Land, Mine
<1> QED
  BY <1>1, <1>2, <1>3, <1>4 DEF LandOn

LEMMA ProbeLand ==
  ASSUME Flow(Handlers), NEW x, Land(x)
  PROVE  LandOn(Handlers, x)
<1>0. x \in net
  BY DEF Land
<1>1. x \in net /\ x.legs \in Txs /\ ~IsLook(x.legs)
  BY <1>0, NetIs
<1>2. AllAble(x.legs, acct) /\ acct' = AllDo(x.legs, acct)
  <2>1. AllCan(x.legs, acct) /\ acct' = AllDo(x.legs, acct)
    BY DEF Land
  <2> QED
    BY <2>1, CanAble DEF AllCan, AllAble
<1>3. net' = {[y EXCEPT !.ahead = IF Nonces(y.legs) = 0 THEN @ ELSE Behind(@, Nonces(x.legs))] :
                y \in net \ {x}}
  BY DEF Land
<1>4. /\ run' = [h \in Handlers |-> [run[h] EXCEPT !.ahead = Behind(@, Nonces(x.legs)),
                                         !.landed = @ \/ Mine(h, x),
                                         !.goal = IF Mine(h, x) THEN @ ELSE {}]]
      /\ torn' = (torn \/ ~Mine(x.by, x))
  BY DEF Land, Mine
<1> QED
  BY <1>1, <1>2, <1>3, <1>4 DEF LandOn

LEMMA ProbeSign == ASSUME NEW h, Sign(h) PROVE SignOn(h)
BY DEF Sign, SignOn

LEMMA ProbeAsk == ASSUME NEW h, Ask(h) PROVE AskOn(NonceFirst, h)
BY DEF Ask, AskOn

LEMMA ProbeConfirm == ASSUME NEW h, NEW p, Confirm(h, p) PROVE ConfirmOn(NonceFirst, h, p)
BY DEF Confirm, ConfirmOn

-----------------------------------------------------------------------------
(* What a plan does, piece by piece.  b and c are what a handler reckons the *)
(* accounts to be before and after it, o and p bounds of the allowances it uses *)
(* up or leaves open, per asset, k and q bounds of the tokens.             *)
Bounds == [Assets -> Nat]
Nil == [x \in Assets |-> 0]
Only(a, n) == [x \in Assets |-> IF x = a THEN n ELSE 0]

Leads(home, P, b, o, c, p) ==
  /\ P \in Plans /\ b \in Books /\ c \in Books /\ o \in Bounds /\ p \in Bounds
  /\ Along(Worths, Moves(home), P, Worth(b), Worth(c))
  /\ \A a \in Assets : Along(Nat, Owes(a), P, o[a], p[a])
Holding(gifts, P, k, q) ==
  /\ P \in Plans /\ k \in Bounds /\ q \in Bounds
  /\ \A a \in Assets : Along(Nat, Holds(gifts, a), P, k[a], q[a])
Sends(P) == P \in Plans /\ \A i \in 1 .. Len(P) : ~IsLook(P[i])

LEMMA OnlyIs ==
  ASSUME NEW a, NEW n \in Nat
  PROVE  /\ Nil \in Bounds /\ Only(a, n) \in Bounds
         /\ \A x \in Assets : Nil[x] = 0 /\ Only(a, n)[x] = IF x = a THEN n ELSE 0
BY DEF Nil, Only, Bounds

LEMMA TupleCat ==
  ASSUME NEW x, NEW y, NEW z, NEW u
  PROVE  /\ <<x, y>> = <<x>> \o <<y>>
         /\ <<x, y, z>> = <<x>> \o <<y, z>>
         /\ <<x, y, z, u>> = <<x>> \o <<y, z, u>>
<1>1. <<x, y>> = <<x>> \o <<y>>
  <2> DEFINE S == {x, y}
             s == <<x>> \o <<y>>
  <2>1. <<x>> \in Seq(S) /\ <<y>> \in Seq(S) /\ Len(<<x>>) = 1 /\ Len(<<y>>) = 1
    OBVIOUS
  <2>2. s \in Seq(S) /\ Len(s) = 2 /\ s[1] = x /\ s[2] = y
    BY <2>1
  <2> HIDE DEF s
  <2>3. s = <<x, y>>
    BY <2>2
  <2> QED
    BY <2>3 DEF s
<1>2. <<x, y, z>> = <<x>> \o <<y, z>>
  OBVIOUS
<1>3. <<x, y, z, u>> = <<x>> \o <<y, z, u>>
  OBVIOUS
<1> QED
  BY <1>1, <1>2, <1>3

LEMMA PlanCat ==
  ASSUME NEW P \in Plans, NEW Q \in Plans
  PROVE  /\ P \o Q \in Plans /\ Len(P \o Q) = Len(P) + Len(Q) /\ Len(P) \in Nat /\ Len(Q) \in Nat
         /\ \A i \in 1 .. Len(P) : (P \o Q)[i] = P[i]
         /\ \A i \in Len(P) + 1 .. Len(P) + Len(Q) : (P \o Q)[i] = Q[i - Len(P)]
         /\ Q # <<>> => P \o Q # <<>>
         /\ P # <<>> => P \o Q # <<>>
BY DEF Plans

LEMMA SendsCat ==
  ASSUME NEW P, Sends(P), NEW Q, Sends(Q)
  PROVE  Sends(P \o Q)
<1>1. P \in Plans /\ Q \in Plans
  BY DEF Sends
<1> DEFINE R == P \o Q
<1>2. ASSUME NEW i \in 1 .. Len(R) PROVE ~IsLook(R[i])
  <2>1. CASE i \in 1 .. Len(P)
    BY <1>1, <2>1, PlanCat DEF Sends
  <2>2. CASE i \in Len(P) + 1 .. Len(P) + Len(Q)
    <3>1. R[i] = Q[i - Len(P)] /\ i - Len(P) \in 1 .. Len(Q)
      BY <1>1, <2>2, PlanCat
    <3> HIDE DEF R
    <3> QED
      BY <3>1 DEF Sends
  <2>3. Len(R) = Len(P) + Len(Q) /\ Len(P) \in Nat /\ Len(Q) \in Nat
    BY <1>1, PlanCat
  <2> QED
    BY <2>1, <2>2, <2>3
<1>3. R \in Plans
  BY <1>1, PlanCat
<1> HIDE DEF R
<1>4. Sends(R)
  BY <1>2, <1>3 DEF Sends
<1> QED
  BY <1>4 DEF R

LEMMA LeadsCat ==
  ASSUME NEW home, NEW P, NEW Q, NEW b, NEW o, NEW c, NEW p, NEW d, NEW q,
         Leads(home, P, b, o, c, p), Leads(home, Q, c, p, d, q)
  PROVE  Leads(home, P \o Q, b, o, d, q)
<1>1. P \in Plans /\ Q \in Plans /\ P \o Q \in Plans
  BY PlanCat DEF Leads
<1>2. Along(Worths, Moves(home), P \o Q, Worth(b), Worth(d))
  BY <1>1, AlongCat DEF Leads
<1>3. ASSUME NEW a \in Assets PROVE Along(Nat, Owes(a), P \o Q, o[a], q[a])
  BY <1>1, AlongCat DEF Leads
<1> QED
  BY <1>1, <1>2, <1>3 DEF Leads

LEMMA HoldingCat ==
  ASSUME NEW gifts, NEW P, NEW Q, NEW k, NEW p, NEW q,
         Holding(gifts, P, k, p), Holding(gifts, Q, p, q)
  PROVE  Holding(gifts, P \o Q, k, q)
<1>1. P \in Plans /\ Q \in Plans /\ P \o Q \in Plans
  BY PlanCat DEF Holding
<1>3. ASSUME NEW a \in Assets PROVE Along(Nat, Holds(gifts, a), P \o Q, k[a], q[a])
  BY <1>1, AlongCat DEF Holding
<1> QED
  BY <1>1, <1>3 DEF Holding

(* A transaction of one leg, and of two.                                   *)
LEMMA PlanOne == ASSUME NEW t \in Txs PROVE <<t>> \in Plans /\ Len(<<t>>) = 1 /\ <<t>>[1] = t /\ <<t>> # <<>>
BY DEF Plans

LEMMA SendsOne ==
  ASSUME NEW t \in Txs, ~IsLook(t)
  PROVE  Sends(<<t>>)
<1>1. <<t>> \in Plans /\ \A i \in 1 .. Len(<<t>>) : <<t>>[i] = t
  BY DEF Plans
<1> QED
  BY <1>1 DEF Sends

LEMMA AlongLeg ==
  ASSUME NEW X, NEW R, NEW l, NEW x \in X, NEW y \in X, <<l, x, y>> \in R
  PROVE  Along(X, R, <<<<l>>>>, x, y)
<1> DEFINE t == <<l>>
<1>1. t[1] = l /\ Len(t) = 1
  OBVIOUS
<1> HIDE DEF t
<1>2. Via(X, R, t, x, y)
  BY <1>1 DEF Via
<1>3. Along(X, R, <<t>>, x, y)
  BY <1>2, AlongOne
<1> QED
  BY <1>3 DEF t

LEMMA AlongPair ==
  ASSUME NEW X, NEW R, NEW l, NEW m, NEW x \in X, NEW z \in X, NEW y \in X,
         <<l, x, z>> \in R, <<m, z, y>> \in R
  PROVE  Along(X, R, <<<<l, m>>>>, x, y)
<1> DEFINE t == <<l, m>>
<1>1. t[1] = l /\ t[2] = m /\ Len(t) = 2
  OBVIOUS
<1> HIDE DEF t
<1>2. Via(X, R, t, x, y)
  BY <1>1 DEF Via
<1>3. Along(X, R, <<t>>, x, y)
  BY <1>2, AlongOne
<1> QED
  BY <1>3 DEF t

LEMMA LegLeads ==
  ASSUME NEW home, NEW l \in Deeds, NEW b \in Books, NEW c \in Books, NEW o \in Bounds, NEW p \in Bounds,
         Worth(c) = Moved(home, l, Worth(b)), \A a \in Assets : <<l, o[a], p[a]>> \in Owes(a)
  PROVE  Leads(home, <<<<l>>>>, b, o, c, p)
<1>1. <<<<l>>>> \in Plans
  BY TxOne, PlanOne
<1>2. Along(Worths, Moves(home), <<<<l>>>>, Worth(b), Worth(c))
  BY InMoves, WorthType, AlongLeg
<1>3. ASSUME NEW a \in Assets PROVE Along(Nat, Owes(a), <<<<l>>>>, o[a], p[a])
  BY AlongLeg DEF Bounds
<1> QED
  BY <1>1, <1>2, <1>3 DEF Leads

LEMMA PairLeads ==
  ASSUME NEW home, NEW l \in Firsts, NEW m \in Seconds, NEW b \in Books, NEW d \in Books, NEW c \in Books,
         NEW o \in Bounds, NEW r \in Bounds, NEW p \in Bounds,
         Worth(d) = Moved(home, l, Worth(b)), Worth(c) = Moved(home, m, Worth(d)),
         \A a \in Assets : <<l, o[a], r[a]>> \in Owes(a) /\ <<m, r[a], p[a]>> \in Owes(a)
  PROVE  Leads(home, <<<<l, m>>>>, b, o, c, p)
<1>0. l \in Deeds /\ m \in Deeds
  BY DEF Firsts, Seconds
<1>1. <<<<l, m>>>> \in Plans
  BY TxTwo, PlanOne
<1>2. Along(Worths, Moves(home), <<<<l, m>>>>, Worth(b), Worth(c))
  <2>1. Worth(b) \in Worths /\ Worth(d) \in Worths /\ Worth(c) \in Worths
    BY WorthType
  <2>2. <<l, Worth(b), Worth(d)>> \in Moves(home) /\ <<m, Worth(d), Worth(c)>> \in Moves(home)
    BY <1>0, <2>1, InMoves
  <2> QED
    BY <2>1, <2>2, AlongPair
<1>3. ASSUME NEW a \in Assets PROVE Along(Nat, Owes(a), <<<<l, m>>>>, o[a], p[a])
  BY AlongPair DEF Bounds
<1> QED
  BY <1>1, <1>2, <1>3 DEF Leads

LEMMA LegHolding ==
  ASSUME NEW gifts, NEW l \in Deeds, NEW k \in Bounds, NEW q \in Bounds,
         \A a \in Assets : <<l, k[a], q[a]>> \in Holds(gifts, a)
  PROVE  Holding(gifts, <<<<l>>>>, k, q)
<1>1. <<<<l>>>> \in Plans
  BY TxOne, PlanOne
<1>3. ASSUME NEW a \in Assets PROVE Along(Nat, Holds(gifts, a), <<<<l>>>>, k[a], q[a])
  BY AlongLeg DEF Bounds
<1> QED
  BY <1>1, <1>3 DEF Holding

LEMMA PairHolding ==
  ASSUME NEW gifts, NEW l \in Firsts, NEW m \in Seconds, NEW k \in Bounds, NEW r \in Bounds, NEW q \in Bounds,
         \A a \in Assets : <<l, k[a], r[a]>> \in Holds(gifts, a) /\ <<m, r[a], q[a]>> \in Holds(gifts, a)
  PROVE  Holding(gifts, <<<<l, m>>>>, k, q)
<1>1. <<<<l, m>>>> \in Plans
  BY TxTwo, PlanOne
<1>3. ASSUME NEW a \in Assets PROVE Along(Nat, Holds(gifts, a), <<<<l, m>>>>, k[a], q[a])
  BY AlongPair DEF Bounds
<1> QED
  BY <1>1, <1>3 DEF Holding

(* The legs of the plans.                                                  *)
LEMMA LegIs ==
  ASSUME NEW do \in Acts \cup {"look"}, NEW a \in Assets, NEW n \in Nat,
         do \in {"absorb", "buy", "claim", "look"} => a \in Colls
  PROVE  /\ Leg(do, a, n) \in Deeds
         /\ Leg(do, a, n).do = do /\ Leg(do, a, n).asset = a /\ Leg(do, a, n).n = n
         /\ ~IsLook(<<Leg(do, a, n)>>) <=> do # "look"
BY DEF Leg, Deeds, IsLook

Stills == {"pda", "ata", "nativeAta", "walletAta", "homeAta", "alt", "absorb"}

LEMMA StillMoves ==
  ASSUME NEW home \in SUBSET {"look"}, NEW l \in Deeds, NEW w,
         l.do \in Stills \cup {"approve", "topUp"} \/ (l.do = "look" /\ home = {})
  PROVE  Moved(home, l, w) = w
BY DEF Moved, Stills

LEMMA StillOwes ==
  ASSUME NEW l \in Deeds, l.do \notin {"approve", "topUp", "supply", "buy"}, NEW o \in Bounds
  PROVE  \A a \in Assets : <<l, o[a], o[a]>> \in Owes(a)
<1>1. ASSUME NEW a \in Assets PROVE <<l, o[a], o[a]>> \in Owes(a)
  BY InOwes DEF Bounds, Spends, Grants
<1> QED
  BY <1>1

LEMMA HoldsIs ==
  ASSUME NEW gifts, NEW a, NEW l \in Deeds, NEW x \in Nat, NEW y \in Nat,
         Leaves(gifts, a, l) \/ y >= x + Gain(a, l), l.do \notin gifts \/ y >= x
  PROVE  <<l, x, y>> \in Holds(gifts, a)
BY InHolds

LEMMA StillHolds ==
  ASSUME NEW l \in Deeds, l.do \in Stills \cup {"approve", "topUp", "airdrop"},
         NEW gifts \in SUBSET {"claim"}, NEW k \in Bounds
  PROVE  \A a \in Assets : <<l, k[a], k[a]>> \in Holds(gifts, a)
<1>1. ASSUME NEW a \in Assets PROVE <<l, k[a], k[a]>> \in Holds(gifts, a)
  <2>1. Gain(a, l) = 0
    BY DEF Gain, Stills
  <2>2. k[a] \in Nat /\ k[a] >= k[a] + 0 /\ k[a] >= k[a]
    BY DEF Bounds
  <2> QED
    BY <2>1, <2>2, HoldsIs
<1> QED
  BY <1>1

LEMMA StillLeads ==
  ASSUME NEW home \in SUBSET {"look"}, NEW l \in Deeds, l.do \in Stills, NEW b \in Books, NEW o \in Bounds
  PROVE  Leads(home, <<<<l>>>>, b, o, b, o) /\ Sends(<<<<l>>>>)
<1>1. Leads(home, <<<<l>>>>, b, o, b, o)
  BY StillMoves, StillOwes, LegLeads DEF Stills
<1>2. <<l>> \in Txs /\ ~IsLook(<<l>>)
  BY TxOne DEF IsLook, Stills
<1> QED
  BY <1>1, <1>2, SendsOne

LEMMA StillHolding ==
  ASSUME NEW l \in Deeds, l.do \in Stills \cup {"approve", "topUp", "airdrop"},
         NEW gifts \in SUBSET {"claim"}, NEW k \in Bounds
  PROVE  Holding(gifts, <<<<l>>>>, k, k)
BY StillHolds, LegHolding

Movers == {"fund", "withdraw", "return", "give", "claim", "airdrop"}

LEMMA MoveLeads ==
  ASSUME NEW home, NEW l \in Deeds, l.do \in Movers, NEW b \in Books, NEW o \in Bounds
  PROVE  /\ Leads(home, <<<<l>>>>, b, o, Does(l, b), o) /\ Sends(<<<<l>>>>)
         /\ Does(l, b) \in Books
<1>1. l.do # "look" /\ Does(l, b) \in Books /\ Worth(Does(l, b)) = Moved(home, l, Worth(b))
  BY DoesBooks DEF Movers
<1>2. \A a \in Assets : <<l, o[a], o[a]>> \in Owes(a)
  BY StillOwes DEF Movers
<1>3. Leads(home, <<<<l>>>>, b, o, Does(l, b), o)
  BY <1>1, <1>2, LegLeads
<1>4. <<l>> \in Txs /\ ~IsLook(<<l>>)
  BY <1>1, TxOne DEF IsLook
<1> QED
  BY <1>1, <1>3, <1>4, SendsOne

LEMMA GrantOwes ==
  ASSUME NEW l \in Deeds, l.do \in {"approve", "topUp"}
  PROVE  \A a \in Assets : <<l, Nil[a], Only(l.asset, l.n)[a]>> \in Owes(a)
<1>0. l.n \in Nat
  BY DEF Deeds
<1>1. ASSUME NEW a \in Assets PROVE <<l, Nil[a], Only(l.asset, l.n)[a]>> \in Owes(a)
  BY <1>0, OnlyIs, InOwes DEF Spends, Grants
<1> QED
  BY <1>1

LEMMA GrantLeads ==
  ASSUME NEW home \in SUBSET {"look"}, NEW l \in Deeds, l.do \in {"approve", "topUp"}, NEW b \in Books
  PROVE  Leads(home, <<<<l>>>>, b, Nil, b, Only(l.asset, l.n)) /\ Sends(<<<<l>>>>)
<1>0. l.n \in Nat /\ Nil \in Bounds /\ Only(l.asset, l.n) \in Bounds
  BY OnlyIs DEF Deeds
<1>1. Leads(home, <<<<l>>>>, b, Nil, b, Only(l.asset, l.n))
  BY <1>0, StillMoves, GrantOwes, LegLeads
<1>2. <<l>> \in Txs /\ ~IsLook(<<l>>)
  BY TxOne DEF IsLook
<1> QED
  BY <1>1, <1>2, SendsOne

(* What is supplied or spent uses up at least what was granted for it.     *)
LEMMA SpendLeads ==
  ASSUME NEW home, NEW l \in Deeds, NEW b \in Books, NEW o \in {Nil, Only(IF l.do = "buy" THEN Base ELSE l.asset, l.n)},
         l.do \in {"supply", "buy"}
  PROVE  /\ Leads(home, <<<<l>>>>, b, o, Does(l, b), Nil) /\ Sends(<<<<l>>>>)
         /\ Does(l, b) \in Books
<1>0. l.n \in Nat
  BY DEF Deeds
<1>00. o \in Bounds /\ Nil \in Bounds
  BY <1>0, OnlyIs
<1>1. l.do # "look" /\ Does(l, b) \in Books /\ Worth(Does(l, b)) = Moved(home, l, Worth(b))
  BY DoesBooks
<1>2. ASSUME NEW a \in Assets PROVE <<l, o[a], Nil[a]>> \in Owes(a)
  <2>1. Nil[a] = 0 /\ o[a] \in Nat /\ (o[a] = 0 \/ (o[a] = l.n /\ a = IF l.do = "buy" THEN Base ELSE l.asset))
    BY <1>0, OnlyIs
  <2> QED
    BY <1>0, <2>1, InOwes DEF Spends, Grants
<1>3. Leads(home, <<<<l>>>>, b, o, Does(l, b), Nil)
  BY <1>00, <1>1, <1>2, LegLeads
<1>4. <<l>> \in Txs /\ ~IsLook(<<l>>)
  BY <1>1, TxOne DEF IsLook
<1> QED
  BY <1>1, <1>3, <1>4, SendsOne

(* What comes into the synthetic, and what leaves it.                      *)
LEMMA InHolding ==
  ASSUME NEW l \in Deeds, l.do \in {"fund", "withdraw"}, NEW gifts \in SUBSET {"claim"}
  PROVE  /\ \A a \in Assets : <<l, Nil[a], Only(l.asset, l.n)[a]>> \in Holds(gifts, a)
         /\ Holding(gifts, <<<<l>>>>, Nil, Only(l.asset, l.n))
<1>0. l.n \in Nat /\ Nil \in Bounds /\ Only(l.asset, l.n) \in Bounds
  BY OnlyIs DEF Deeds
<1>1. ASSUME NEW a \in Assets PROVE <<l, Nil[a], Only(l.asset, l.n)[a]>> \in Holds(gifts, a)
  <2>1. Gain(a, l) = IF l.asset = a THEN l.n ELSE 0
    BY DEF Gain
  <2>2. Nil[a] = 0 /\ Only(l.asset, l.n)[a] = IF l.asset = a THEN l.n ELSE 0
    BY <1>0, OnlyIs
  <2> DEFINE x == Nil[a]
             y == Only(l.asset, l.n)[a]
  <2>3. x = 0 /\ y \in Nat /\ x \in Nat
    BY <1>0, <2>2
  <2>4. y = Gain(a, l)
    BY <1>0, <2>1, <2>2
  <2> HIDE DEF x, y
  <2>5. y >= x + Gain(a, l) /\ y >= x
    BY <2>3, <2>4
  <2>6. <<l, x, y>> \in Holds(gifts, a)
    BY <2>3, <2>5, HoldsIs
  <2> QED
    BY <2>6 DEF x, y
<1> QED
  BY <1>0, <1>1, LegHolding

LEMMA OutHolding ==
  ASSUME NEW l \in Deeds, l.do \in {"supply", "return", "give"}, NEW gifts \in SUBSET {"claim"},
         NEW k \in {Nil, Only(l.asset, l.n)}
  PROVE  /\ \A a \in Assets : <<l, k[a], Nil[a]>> \in Holds(gifts, a)
         /\ Holding(gifts, <<<<l>>>>, k, Nil)
<1>0. l.n \in Nat /\ Nil \in Bounds /\ Only(l.asset, l.n) \in Bounds /\ k \in Bounds
  BY OnlyIs DEF Deeds
<1>1. ASSUME NEW a \in Assets PROVE <<l, k[a], Nil[a]>> \in Holds(gifts, a)
  <2>1. Gain(a, l) = IF l.asset = a THEN -l.n ELSE 0
    BY DEF Gain
  <2>2. Nil[a] = 0 /\ k[a] \in Nat /\ (k[a] = 0 \/ (a = l.asset /\ k[a] = l.n))
    BY <1>0, OnlyIs
  <2> QED
    BY <1>0, <2>1, <2>2, InHolds
<1> QED
  BY <1>0, <1>1, LegHolding

LEMMA BuyHolding ==
  ASSUME NEW l \in Deeds, l.do = "buy", NEW gifts \in SUBSET {"claim"}
  PROVE  Holding(gifts, <<<<l>>>>, Only(Base, l.n), Only(l.asset, l.n))
<1>0. l.n \in Nat /\ Only(Base, l.n) \in Bounds /\ Only(l.asset, l.n) \in Bounds
  BY OnlyIs DEF Deeds
<1>1. l.asset # Base
  BY AssetsAssumption DEF Deeds
<1>2. ASSUME NEW a \in Assets PROVE <<l, Only(Base, l.n)[a], Only(l.asset, l.n)[a]>> \in Holds(gifts, a)
  <2>1. Gain(a, l) = IF l.asset = a THEN l.n ELSE IF a = Base THEN -l.n ELSE 0
    BY DEF Gain
  <2>2. /\ Only(Base, l.n)[a] = IF a = Base THEN l.n ELSE 0
        /\ Only(l.asset, l.n)[a] = IF l.asset = a THEN l.n ELSE 0
    BY <1>0, OnlyIs
  <2> DEFINE x == Only(Base, l.n)[a]
             y == Only(l.asset, l.n)[a]
  <2>3. x \in Nat /\ y \in Nat
    BY <1>0, <2>2
  <2>4. y = x + Gain(a, l)
    BY <1>0, <1>1, <2>1, <2>2
  <2> HIDE DEF x, y
  <2>5. y >= x + Gain(a, l)
    BY <2>3, <2>4
  <2>6. <<l, x, y>> \in Holds(gifts, a)
    BY <2>3, <2>5, HoldsIs
  <2> QED
    BY <2>6 DEF x, y
<1> QED
  BY <1>0, <1>2, LegHolding

LEMMA GiftHolding ==
  ASSUME NEW l \in Deeds, l.do = "claim"
  PROVE  Holding({"claim"}, <<<<l>>>>, Nil, Nil)
<1>0. Nil \in Bounds /\ l.n \in Nat
  BY OnlyIs DEF Deeds
<1>1. ASSUME NEW a \in Assets PROVE <<l, Nil[a], Nil[a]>> \in Holds({"claim"}, a)
  <2>1. Nil[a] = 0
    BY <1>0, OnlyIs
  <2>2. Leaves({"claim"}, a, l)
    BY DEF Leaves
  <2> QED
    BY <2>1, <2>2, HoldsIs
<1> QED
  BY <1>0, <1>1, LegHolding

(* A look leaves behind nothing of its asset (LookBought).                 *)
LEMMA LookHolding ==
  ASSUME NEW l \in Deeds, l.do = "look", NEW n \in Nat
  PROVE  Holding({}, <<<<l>>>>, Only(l.asset, n), Nil)
<1>0. Nil \in Bounds /\ Only(l.asset, n) \in Bounds
  BY OnlyIs
<1>1. ASSUME NEW a \in Assets PROVE <<l, Only(l.asset, n)[a], Nil[a]>> \in Holds({}, a)
  <2>1. Nil[a] = 0 /\ Only(l.asset, n)[a] = IF a = l.asset THEN n ELSE 0
    BY OnlyIs
  <2>2. Gain(a, l) = 0 /\ (a = l.asset => Leaves({}, a, l))
    BY DEF Gain, Leaves
  <2>3. Leaves({}, a, l) \/ Nil[a] >= Only(l.asset, n)[a] + Gain(a, l)
    BY <2>1, <2>2
  <2> QED
    BY <2>1, <2>3, HoldsIs
<1> QED
  BY <1>0, <1>1, LegHolding

(* Two legs in one transaction.                                            *)
LEMMA PairMoves ==
  ASSUME NEW home \in SUBSET {"look"}, NEW l \in Firsts, NEW m \in Seconds, NEW b \in Books, NEW o \in Bounds,
         l.do \in {"nativeAta", "homeAta"}, m.do \in Movers
  PROVE  /\ Leads(home, <<<<l, m>>>>, b, o, Does(m, b), o) /\ Sends(<<<<l, m>>>>)
         /\ Does(m, b) \in Books
<1>0. l \in Deeds /\ m \in Deeds
  BY DEF Firsts, Seconds
<1>1. m.do # "look" /\ Does(m, b) \in Books /\ Worth(Does(m, b)) = Moved(home, m, Worth(b))
  BY <1>0, DoesBooks DEF Movers
<1>2. Worth(b) = Moved(home, l, Worth(b))
  BY <1>0, StillMoves DEF Stills
<1>3. \A a \in Assets : <<l, o[a], o[a]>> \in Owes(a) /\ <<m, o[a], o[a]>> \in Owes(a)
  BY <1>0, StillOwes DEF Movers
<1>4. Leads(home, <<<<l, m>>>>, b, o, Does(m, b), o)
  BY <1>1, <1>2, <1>3, PairLeads
<1>5. <<l, m>> \in Txs /\ ~IsLook(<<l, m>>)
  BY TxTwo DEF IsLook
<1> QED
  BY <1>1, <1>4, <1>5, SendsOne

LEMMA PairFunds ==
  ASSUME NEW l \in Firsts, NEW m \in Seconds, l.do \in {"nativeAta", "homeAta"}, m.do = "fund",
         NEW gifts \in SUBSET {"claim"}
  PROVE  Holding(gifts, <<<<l, m>>>>, Nil, Only(m.asset, m.n))
<1>0. l \in Deeds /\ m \in Deeds /\ m.n \in Nat
  BY DEF Firsts, Seconds, Deeds
<1>1. Nil \in Bounds /\ Only(m.asset, m.n) \in Bounds
  BY <1>0, OnlyIs
<1>2. \A a \in Assets : <<l, Nil[a], Nil[a]>> \in Holds(gifts, a)
  BY <1>0, <1>1, StillHolds DEF Stills
<1>3. \A a \in Assets : <<m, Nil[a], Only(m.asset, m.n)[a]>> \in Holds(gifts, a)
  BY <1>0, InHolding
<1> QED
  BY <1>1, <1>2, <1>3, PairHolding

LEMMA PairReturns ==
  ASSUME NEW l \in Firsts, NEW m \in Seconds, l.do \in {"nativeAta", "homeAta"}, m.do = "return",
         NEW gifts \in SUBSET {"claim"}, NEW k \in {Nil, Only(m.asset, m.n)}
  PROVE  Holding(gifts, <<<<l, m>>>>, k, Nil)
<1>0. l \in Deeds /\ m \in Deeds /\ m.n \in Nat
  BY DEF Firsts, Seconds, Deeds
<1>1. Nil \in Bounds /\ k \in Bounds
  BY <1>0, OnlyIs
<1>2. \A a \in Assets : <<l, k[a], k[a]>> \in Holds(gifts, a)
  BY <1>0, <1>1, StillHolds DEF Stills
<1>3. \A a \in Assets : <<m, k[a], Nil[a]>> \in Holds(gifts, a)
  BY <1>0, OutHolding
<1> QED
  BY <1>1, <1>2, <1>3, PairHolding

-----------------------------------------------------------------------------
(* A handler's step keeps the invariants.                                  *)
LEMMA GoesKeeps ==
  ASSUME NEW H, Flow(H), IsFiniteSet(H), NEW h \in H, Goes1(H, h), NEW home, NEW gifts \in SUBSET {"claim"}
  PROVE  /\ Promised(H, home) => Promised(H, home)'
         /\ Closed(H) => Closed(H)'
         /\ Emptied(H, gifts) => Emptied(H, gifts)'
         /\ Drawn(H) => Drawn(H)'
<1>1. Promised(H, home) => Promised(H, home)'
  BY GoesPromised
<1>2. Closed(H) => Closed(H)'
  BY GoesClosed
<1>3. Emptied(H, gifts) => Emptied(H, gifts)'
  BY GoesEmptied
<1>4. Drawn(H) => Drawn(H)'
  BY GoesDrawn
<1> QED
  BY <1>1, <1>2, <1>3, <1>4

LEMMA LandKeeps ==
  ASSUME NEW H, Flow(H), IsFiniteSet(H), NEW x, LandOn(H, x), NEW home, NEW gifts \in SUBSET {"claim"}
  PROVE  /\ Flow(H)'
         /\ Promised(H, home) => Promised(H, home)'
         /\ Closed(H) => Closed(H)'
         /\ Emptied(H, gifts) => Emptied(H, gifts)'
         /\ Drawn(H) => Drawn(H)'
<1>0. Flow(H)'
  BY LandFlows
<1>1. Promised(H, home) => Promised(H, home)'
  BY LandPromised
<1>2. Closed(H) => Closed(H)'
  BY LandClosed
<1>3. Emptied(H, gifts) => Emptied(H, gifts)'
  BY LandEmptied
<1>4. Drawn(H) => Drawn(H)'
  BY LandDrawn
<1> QED
  BY <1>0, <1>1, <1>2, <1>3, <1>4

(* Nothing is left to be sent of a handler that rests or looks.            *)
Clear(h) == \A a \in Assets : \A x \in Nat : Along(Nat, Owes(a), PendOf(run[h]), x, 0) => x = 0

LEMMA ClearIs ==
  ASSUME NEW H, Flow(H), NEW h \in H,
         ~Running(h) \/ (run[h].pc = "next" /\ run[h].todo[1][1].do = "look")
  PROVE  Clear(h)
BY RestsIs, LooksOwes DEF Clear

LEMMA DeclineKeeps ==
  ASSUME NEW H, Flow(H), IsFiniteSet(H), NEW h \in H, Decline(h), Clear(h), NEW home, NEW gifts
  PROVE  /\ Flow(H)' /\ run' = [run EXCEPT ![h] = Idle] /\ acct' = acct /\ torn' = torn
         /\ Promised(H, home) => Promised(H, home)'
         /\ Closed(H) => Closed(H)'
         /\ Emptied(H, gifts) /\ ~Running(h) => Emptied(H, gifts)'
         /\ Drawn(H) => Drawn(H)'
<1>0. Flow(H)' /\ torn' = torn /\ acct' = acct /\ run' = [run EXCEPT ![h] = Idle]
  BY DeclineFlows
<1>1. run'[h] = Idle /\ Ready(H, h)
  BY <1>0 DEF Ready, Flow
<1>2. PendOf(run'[h]) = <<>> /\ run'[h].goal = {} /\ PendOf(run'[h]) \in Plans
  BY <1>1, IdleIs DEF Plans
<1>3. \A R : Along(Nat, R, PendOf(run'[h]), 0, 0)
  BY <1>2, AlongNil
<1>4. Promised(H, home) => Promised(H, home)'
  BY <1>1, <1>2, AnewPromised
<1>5. Closed(H) => Closed(H)'
  BY <1>1, <1>2, <1>3, AnewClosed DEF Clear
<1>6. Emptied(H, gifts) /\ ~Running(h) => Emptied(H, gifts)'
  BY <1>1, <1>2, <1>3, RestsIs, AnewEmptied
<1>7. Drawn(H) => Drawn(H)'
  BY <1>1, <1>2, AnewDrawn
<1> QED
  BY <1>0, <1>4, <1>5, <1>6, <1>7

(* A handler begins a plan that leads to what it promises and leaves nothing. *)
Plan(h, home, op, P, goal) ==
  Begin(h, op, P, goal) /\ IsPlan(op, P) /\ goal \in Books /\ Leads(home, P, acct, Nil, goal, Nil)

LEMMA BeginKeeps ==
  ASSUME NEW H, Flow(H), IsFiniteSet(H), NEW h \in H, Clear(h), NEW home, NEW gifts, NEW op, NEW P, NEW goal,
         Plan(h, home, op, P, goal)
  PROVE  /\ Flow(H)' /\ torn' = torn /\ acct' = acct /\ run' = [run EXCEPT ![h] = run'[h]]
         /\ run'[h].pc = "next" /\ run'[h].op = op /\ run'[h].todo = P /\ run'[h].goal = {Worth(goal)}
         /\ PendOf(run'[h]) = P
         /\ Promised(H, home) => Promised(H, home)'
         /\ Closed(H) => Closed(H)'
         /\ Emptied(H, gifts) /\ ~Running(h) /\ Holding(gifts, P, Nil, Nil) => Emptied(H, gifts)'
<1>0. /\ Flow(H)' /\ torn' = torn /\ acct' = acct /\ run' = [run EXCEPT ![h] = run'[h]]
      /\ run'[h].pc = "next" /\ run'[h].op = op /\ run'[h].todo = P /\ run'[h].goal = {Worth(goal)}
      /\ PendOf(run'[h]) = P
  <2>1. Begin(h, op, P, goal) /\ IsPlan(op, P) /\ goal \in Books
    BY DEF Plan
  <2> QED
    BY <2>1, BeginFlows
<1>1. Ready(H, h) /\ P \in Plans /\ \A a \in Assets : Nil[a] = 0
  BY <1>0, OnlyIs DEF Ready, Plan, Leads
<1>2. Along(Worths, Moves(home), P, Worth(acct), Worth(goal))
  BY DEF Plan, Leads
<1>3. \A a \in Assets : Along(Nat, Owes(a), P, 0, 0)
  BY <1>1 DEF Plan, Leads
<1>4. Promised(H, home) => Promised(H, home)'
  BY <1>0, <1>1, <1>2, AnewPromised
<1>5. Closed(H) => Closed(H)'
  BY <1>0, <1>1, <1>3, AnewClosed DEF Clear
<1>6. Emptied(H, gifts) /\ ~Running(h) /\ Holding(gifts, P, Nil, Nil) => Emptied(H, gifts)'
  <2>1. Holding(gifts, P, Nil, Nil) => \A a \in Assets : Along(Nat, Holds(gifts, a), P, 0, 0)
    BY <1>1 DEF Holding
  <2> QED
    BY <1>0, <1>1, <2>1, RestsIs, AnewEmptied
<1> QED
  BY <1>0, <1>4, <1>5, <1>6

(* A plan that leads somewhere is one that can be begun.                   *)
LEMMA SendsPlan ==
  ASSUME NEW op \in Ops \ {"none", "exit"}, NEW P, Sends(P), P # <<>>
  PROVE  IsPlan(op, P)
<1>1. Len(P) \in Nat
  BY DEF Sends, Plans
<1> QED
  BY <1>1 DEF IsPlan, Sends

LEMMA LookPlan ==
  ASSUME NEW op \in Ops \ {"none", "exit"}, NEW P, Sends(P), NEW t \in Txs
  PROVE  IsPlan(op, P \o <<t>>)
<1>1. P \in Plans /\ <<t>> \in Plans /\ Len(<<t>>) = 1 /\ <<t>> # <<>>
  BY PlanOne DEF Sends
<1> DEFINE Q == P \o <<t>>
<1>2. Q \in Plans /\ Q # <<>> /\ Len(Q) = Len(P) + 1 /\ Len(P) \in Nat /\ \A i \in 1 .. Len(P) : Q[i] = P[i]
  BY <1>1, PlanCat
<1> HIDE DEF Q
<1>3. \A i \in 1 .. Len(Q) - 1 : ~IsLook(Q[i])
  BY <1>2 DEF Sends
<1>4. IsPlan(op, Q)
  BY <1>2, <1>3 DEF IsPlan
<1> QED
  BY <1>4 DEF Q

-----------------------------------------------------------------------------
(* The probe's plans.                                                      *)

LEMMA LegOf ==
  ASSUME NEW do \in Acts \ {"absorb", "buy", "claim"}, NEW a \in Assets, NEW n \in Nat
  PROVE  /\ Leg(do, a, n) \in Deeds /\ Leg(do, a, n).do = do
         /\ Leg(do, a, n).asset = a /\ Leg(do, a, n).n = n
<1>1. do \in Acts \cup {"look"} /\ do \notin {"absorb", "buy", "claim", "look"}
  BY DEF Acts
<1> QED BY <1>1 DEF Deeds, Leg

LEMMA SupplyDoes ==
  ASSUME NEW a, NEW n, NEW s
  PROVE  /\ Supplied(Leg("supply", a, n), s) = Does(Leg("supply", a, n), s)
         /\ Withdrawn(Leg("withdraw", a, n), s) = Does(Leg("withdraw", a, n), s)
BY DEF Does, Leg

LEMMA AltLeads ==
  ASSUME NEW home \in SUBSET {"look"}, NEW b \in Books, NEW o \in Bounds
  PROVE  Leads(home, <<Alt>>, b, o, b, o) /\ Sends(<<Alt>>)
<1> DEFINE l == Leg("alt", Base, 0)
<1>1. l \in Deeds /\ l.do = "alt"
  <2>1. Base \in Assets /\ 0 \in Nat /\ "alt" \in Acts \ {"absorb", "buy", "claim"}
    BY DEF Acts, Assets
  <2> QED BY <2>1, LegOf
<1>2. l.do \in Stills
  BY <1>1 DEF Stills
<1> QED BY <1>1, <1>2, StillLeads DEF Alt

LEMMA StartPlan ==
  ASSUME NEW h, NEW home, NEW op \in Ops \ {"none", "exit"}, NEW P, NEW goal,
         Begin(h, op, P, goal), Leads(home, P, acct, Nil, goal, Nil), Sends(P), P # <<>>
  PROVE  Plan(h, home, op, P, goal)
<1>1. IsPlan(op, P)
  BY SendsPlan
<1> QED BY <1>1 DEF Plan, Leads

(* An approve of its own, the table, and what the approve is for.          *)
LEMMA GrantAltSpend ==
  ASSUME NEW home \in SUBSET {"look"}, NEW l \in Deeds, l.do \in {"supply", "buy"}, NEW a \in Assets,
         a = IF l.do = "buy" THEN Base ELSE l.asset, NEW b \in Books
  PROVE  /\ Leads(home, <<Approve(a, l.n), Alt, <<l>>>>, b, Nil, Does(l, b), Nil)
         /\ Sends(<<Approve(a, l.n), Alt, <<l>>>>) /\ <<Approve(a, l.n), Alt, <<l>>>> # <<>>
<1> DEFINE k == Leg("topUp", a, l.n)
<1>0. l.n \in Nat
  BY DEF Deeds
<1>1. k \in Deeds /\ k.do = "topUp" /\ k.asset = a /\ k.n = l.n
  BY <1>0, LegOf DEF Acts
<1>2. Only(a, l.n) \in Bounds /\ Nil \in Bounds
  BY <1>0, OnlyIs
<1>3. Leads(home, <<<<k>>>>, b, Nil, b, Only(a, l.n)) /\ Sends(<<<<k>>>>)
  BY <1>1, GrantLeads
<1>4. Leads(home, <<Alt>>, b, Only(a, l.n), b, Only(a, l.n)) /\ Sends(<<Alt>>)
  BY <1>2, AltLeads
<1>5. Leads(home, <<<<l>>>>, b, Only(a, l.n), Does(l, b), Nil) /\ Sends(<<<<l>>>>)
  BY SpendLeads
<1>6. Leads(home, <<Alt>> \o <<<<l>>>>, b, Only(a, l.n), Does(l, b), Nil) /\ Sends(<<Alt>> \o <<<<l>>>>)
  BY <1>4, <1>5, LeadsCat, SendsCat
<1>7. /\ Leads(home, <<<<k>>>> \o (<<Alt>> \o <<<<l>>>>), b, Nil, Does(l, b), Nil)
      /\ Sends(<<<<k>>>> \o (<<Alt>> \o <<<<l>>>>))
  BY <1>3, <1>6, LeadsCat, SendsCat
<1>8. <<Approve(a, l.n), Alt, <<l>>>> = <<<<k>>>> \o (<<Alt>> \o <<<<l>>>>)
  <2>1. <<Alt, <<l>>>> = <<Alt>> \o <<<<l>>>>
    BY TupleCat
  <2>2. <<Approve(a, l.n), Alt, <<l>>>> = <<Approve(a, l.n)>> \o <<Alt, <<l>>>>
    BY TupleCat
  <2> QED BY <2>1, <2>2 DEF Approve
<1>9. <<Approve(a, l.n), Alt, <<l>>>> # <<>>
  OBVIOUS
<1> QED BY <1>7, <1>8, <1>9

LEMMA HeldIs ==
  ASSUME NEW H, Flow(H), NEW a \in Assets
  PROVE  acct.held[a] \in Nat /\ acct \in Books /\ acct \in Accts
<1>1. acct \in Accts
  BY DEF Flow
<1> QED BY <1>1, BooksHere DEF Accts, AmountPer

LEMMA PositionIs ==
  ASSUME NEW H, Flow(H), NEW a \in Assets
  PROVE  Position(a) \in Nat /\ Debt \in Nat
<1>1. acct \in Accts
  BY DEF Flow
<1>2. acct.base \in Int /\ acct.coll \in [Colls -> Nat]
  BY <1>1 DEF Accts, AmountPer
<1>3. a # Base => a \in Colls
  BY DEF Assets
<1> QED BY <1>2, <1>3 DEF Position, Debt

LEMMA ProbeSupply ==
  ASSUME Flow(Handlers), NEW h, NEW a \in Assets, RunSupply(h, a)
  PROVE  Decline(h) \/ \E P, goal : Plan(h, {}, "supply", P, goal)
<1> DEFINE l == Leg("supply", a, acct.held[a])
<1>1. CASE acct.held[a] = 0
  BY <1>1 DEF RunSupply
<1>2. CASE acct.held[a] # 0
  <2>0. acct.held[a] \in Nat /\ acct \in Books
    BY HeldIs
  <2>1. l \in Deeds /\ l.do = "supply" /\ l.asset = a /\ l.n = acct.held[a]
    BY <2>0, LegOf DEF Acts
  <2> DEFINE P == <<Approve(a, l.n), Alt, <<l>>>>
  <2>2. Leads({}, P, acct, Nil, Does(l, acct), Nil) /\ Sends(P) /\ P # <<>>
    BY <2>0, <2>1, GrantAltSpend
  <2>3. Begin(h, "supply", P, Does(l, acct))
    BY <1>2, <2>1, SupplyDoes DEF RunSupply, Supply
  <2>4. Plan(h, {}, "supply", P, Does(l, acct))
    BY <2>2, <2>3, StartPlan DEF Ops
  <2> QED BY <2>4
<1> QED BY <1>1, <1>2

LEMMA ProbeRepay ==
  ASSUME Flow(Handlers), NEW h, RunRepay(h)
  PROVE  Decline(h) \/ \E P, goal : Plan(h, {}, "repay", P, goal)
<1> DEFINE n == IF Debt < acct.held[Base] THEN Debt ELSE acct.held[Base]
           l == Leg("supply", Base, n)
<1>0. Base \in Assets
  BY DEF Assets
<1>1. n \in Nat /\ acct \in Books
  BY <1>0, HeldIs, PositionIs
<1>2. CASE n = 0
  BY <1>2 DEF RunRepay
<1>3. CASE n # 0
  <2>1. l \in Deeds /\ l.do = "supply" /\ l.asset = Base /\ l.n = n
    BY <1>0, <1>1, LegOf DEF Acts
  <2> DEFINE P == <<Approve(Base, l.n), Alt, <<l>>>>
  <2>2. Leads({}, P, acct, Nil, Does(l, acct), Nil) /\ Sends(P) /\ P # <<>>
    BY <1>0, <1>1, <2>1, GrantAltSpend
  <2>3. Begin(h, "repay", P, Does(l, acct))
    BY <1>3, <2>1, SupplyDoes DEF RunRepay, Supply
  <2>4. Plan(h, {}, "repay", P, Does(l, acct))
    BY <2>2, <2>3, StartPlan DEF Ops
  <2> QED BY <2>4
<1> QED BY <1>2, <1>3

(* One leg that moves tokens.                                              *)
LEMMA OneMovePlan ==
  ASSUME NEW H, Flow(H), NEW h, NEW home \in SUBSET {"look"}, NEW op \in Ops \ {"none", "exit"}, NEW l \in Deeds, l.do \in Movers,
         Begin(h, op, <<<<l>>>>, Does(l, acct))
  PROVE  Plan(h, home, op, <<<<l>>>>, Does(l, acct))
<1>0. acct \in Books
  BY BooksHere DEF Flow
<1>1. Nil \in Bounds
  BY OnlyIs
<1>2. Leads(home, <<<<l>>>>, acct, Nil, Does(l, acct), Nil) /\ Sends(<<<<l>>>>)
  BY <1>0, <1>1, MoveLeads
<1> QED BY <1>2, StartPlan

LEMMA ProbeFund ==
  ASSUME Flow(Handlers), NEW h, NEW a \in Assets, RunFund(h, a)
  PROVE  \E P, goal : Plan(h, {}, "fund", P, goal)
<1> DEFINE l == Leg("fund", a, Amount[a])
<1>1. l \in Deeds /\ l.do = "fund"
  BY AmountsAssumption, LegOf DEF Acts
<1>2. Begin(h, "fund", <<<<l>>>>, Does(l, acct))
  BY DEF RunFund
<1>3. Plan(h, {}, "fund", <<<<l>>>>, Does(l, acct))
  BY <1>1, <1>2, OneMovePlan DEF Ops, Movers
<1> QED BY <1>3

LEMMA ProbeWithdraw ==
  ASSUME Flow(Handlers), NEW h, NEW a \in Assets, RunWithdraw(h, a)
  PROVE  Decline(h) \/ \E P, goal : Plan(h, {}, "withdraw", P, goal)
<1> DEFINE l == Leg("withdraw", a, Position(a))
<1>1. l \in Deeds /\ l.do = "withdraw"
  BY PositionIs, LegOf DEF Acts
<1>2. Decline(h) \/ Begin(h, "withdraw", <<<<l>>>>, Does(l, acct))
  BY SupplyDoes DEF RunWithdraw
<1>3. Begin(h, "withdraw", <<<<l>>>>, Does(l, acct)) => Plan(h, {}, "withdraw", <<<<l>>>>, Does(l, acct))
  BY <1>1, OneMovePlan DEF Ops, Movers
<1> QED BY <1>2, <1>3

LEMMA ProbeReturn ==
  ASSUME Flow(Handlers), NEW h, NEW a \in Assets, RunReturnToWallet(h, a)
  PROVE  Decline(h) \/ \E P, goal : Plan(h, {}, "return", P, goal)
<1> DEFINE l == Leg("return", a, acct.held[a])
<1>1. l \in Deeds /\ l.do = "return"
  BY HeldIs, LegOf DEF Acts
<1>2. Decline(h) \/ Begin(h, "return", <<<<l>>>>, Does(l, acct))
  BY DEF RunReturnToWallet
<1>3. Begin(h, "return", <<<<l>>>>, Does(l, acct)) => Plan(h, {}, "return", <<<<l>>>>, Does(l, acct))
  BY <1>1, OneMovePlan DEF Ops, Movers
<1> QED BY <1>2, <1>3

LEMMA LegColl ==
  ASSUME NEW do \in {"absorb", "buy", "claim", "look"}, NEW a \in Colls, NEW n \in Nat
  PROVE  /\ Leg(do, a, n) \in Deeds /\ Leg(do, a, n).do = do
         /\ Leg(do, a, n).asset = a /\ Leg(do, a, n).n = n /\ a \in Assets
<1>1. do \in Acts \cup {"look"} /\ a \in Assets
  BY DEF Acts, Assets
<1> QED BY <1>1 DEF Deeds, Leg

LEMMA TwoCat == ASSUME NEW x, NEW y PROVE <<x, y>> = <<x>> \o <<y>>
BY TupleCat

LEMMA ThreeCat == ASSUME NEW x, NEW y, NEW z PROVE <<x, y, z>> = <<x>> \o <<y, z>>
OBVIOUS

(* The table, and then a leg.                                              *)
LEMMA AltThen ==
  ASSUME NEW home \in SUBSET {"look"}, NEW t, NEW b \in Books, NEW c, Leads(home, <<t>>, b, Nil, c, Nil), Sends(<<t>>)
  PROVE  Leads(home, <<Alt, t>>, b, Nil, c, Nil) /\ Sends(<<Alt, t>>) /\ <<Alt, t>> # <<>>
<1>1. Nil \in Bounds
  BY OnlyIs
<1>2. Leads(home, <<Alt>>, b, Nil, b, Nil) /\ Sends(<<Alt>>)
  BY <1>1, AltLeads
<1>3. Leads(home, <<Alt>> \o <<t>>, b, Nil, c, Nil) /\ Sends(<<Alt>> \o <<t>>)
  BY <1>2, LeadsCat, SendsCat
<1>4. <<Alt, t>> = <<Alt>> \o <<t>>
  BY TwoCat
<1> QED BY <1>3, <1>4

LEMMA ProbeBorrow ==
  ASSUME Flow(Handlers), NEW h, RunBorrow(h)
  PROVE  \E P, goal : Plan(h, {}, "borrow", P, goal)
<1> DEFINE n == Position(Base) + BorrowMin
           l == Leg("withdraw", Base, n)
           P == <<Alt, <<l>>>>
<1>0. Base \in Assets
  BY DEF Assets
<1>1. n \in Nat /\ acct \in Books
  BY <1>0, HeldIs, PositionIs, AmountsAssumption
<1>2. l \in Deeds /\ l.do = "withdraw"
  BY <1>0, <1>1, LegOf DEF Acts
<1>3. Nil \in Bounds
  BY OnlyIs
<1>4. Leads({}, <<<<l>>>>, acct, Nil, Does(l, acct), Nil) /\ Sends(<<<<l>>>>)
  BY <1>1, <1>2, <1>3, MoveLeads DEF Movers
<1>5. Leads({}, P, acct, Nil, Does(l, acct), Nil) /\ Sends(P)
  BY <1>1, <1>4, AltThen
<1>6. Begin(h, "borrow", P, Does(l, acct))
  BY SupplyDoes DEF RunBorrow
<1>7. Plan(h, {}, "borrow", P, Does(l, acct))
  BY <1>5, <1>6, StartPlan DEF Ops
<1> QED BY <1>7

LEMMA ProbeLiquidate ==
  ASSUME Flow(Handlers), NEW h, NEW c \in Colls, RunLiquidate(h, c)
  PROVE  Decline(h) \/ \E P, goal : Plan(h, {}, "liquidate", P, goal)
<1> DEFINE l == Leg("absorb", c, 0)
           P == <<Alt, <<l>>>>
<1>1. l \in Deeds /\ l.do = "absorb"
  BY LegColl
<1>2. Nil \in Bounds /\ acct \in Books
  BY OnlyIs, BooksHere DEF Flow
<1>3. Leads({}, <<<<l>>>>, acct, Nil, acct, Nil) /\ Sends(<<<<l>>>>)
  BY <1>1, <1>2, StillLeads DEF Stills
<1>4. Leads({}, P, acct, Nil, acct, Nil) /\ Sends(P)
  BY <1>2, <1>3, AltThen
<1>5. Decline(h) \/ Begin(h, "liquidate", P, acct)
  BY DEF RunLiquidate
<1>6. Begin(h, "liquidate", P, acct) => Plan(h, {}, "liquidate", P, acct)
  BY <1>4, StartPlan DEF Ops
<1> QED BY <1>5, <1>6

LEMMA ProbeClaim ==
  ASSUME Flow(Handlers), NEW h, NEW c \in Colls, RunFaucetClaim(h, c)
  PROVE  \E P, goal : Plan(h, {}, "claim", P, goal)
<1> DEFINE l == Leg("claim", c, 1)
           P == <<Alt, <<l>>>>
<1>1. l \in Deeds /\ l.do = "claim"
  BY LegColl
<1>2. Nil \in Bounds /\ acct \in Books
  BY OnlyIs, BooksHere DEF Flow
<1>3. Leads({}, <<<<l>>>>, acct, Nil, Does(l, acct), Nil) /\ Sends(<<<<l>>>>)
  BY <1>1, <1>2, MoveLeads DEF Movers
<1>4. Leads({}, P, acct, Nil, Does(l, acct), Nil) /\ Sends(P)
  BY <1>2, <1>3, AltThen
<1>5. Begin(h, "claim", P, Does(l, acct))
  BY DEF RunFaucetClaim
<1>6. Plan(h, {}, "claim", P, Does(l, acct))
  BY <1>4, <1>5, StartPlan DEF Ops
<1> QED BY <1>6

(* An account of its own for the asset.                                    *)
LEMMA AtaLeads ==
  ASSUME NEW home \in SUBSET {"look"}, NEW a \in Assets, NEW b \in Books, NEW o \in Bounds
  PROVE  Leads(home, <<Ata(a)>>, b, o, b, o) /\ Sends(<<Ata(a)>>)
<1> DEFINE l == Leg("ata", a, 0)
<1>1. l \in Deeds /\ l.do = "ata"
  BY LegOf DEF Acts
<1> QED BY <1>1, StillLeads DEF Ata, Stills

LEMMA ProbeBuy ==
  ASSUME Flow(Handlers), NEW h, NEW c \in Colls, RunBuyCollateral(h, c)
  PROVE  \E P, goal : Plan(h, {}, "buy", P, goal)
<1> DEFINE l == Leg("look", c, 0)
           P == <<Ata(c), <<l>>>>
<1>1. l \in Deeds /\ l.do = "look" /\ c \in Assets
  BY LegColl
<1>2. Nil \in Bounds /\ acct \in Books
  BY OnlyIs, BooksHere DEF Flow
<1>3. Leads({}, <<Ata(c)>>, acct, Nil, acct, Nil) /\ Sends(<<Ata(c)>>)
  BY <1>1, <1>2, AtaLeads
<1>4. Leads({}, <<<<l>>>>, acct, Nil, acct, Nil)
  <2>1. Worth(acct) = Moved({}, l, Worth(acct))
    BY <1>1, StillMoves
  <2>2. \A a \in Assets : <<l, Nil[a], Nil[a]>> \in Owes(a)
    BY <1>1, <1>2, StillOwes
  <2> QED BY <1>1, <1>2, <2>1, <2>2, LegLeads
<1>5. P = <<Ata(c)>> \o <<<<l>>>>
  BY TupleCat
<1>6. Leads({}, P, acct, Nil, acct, Nil)
  BY <1>3, <1>4, <1>5, LeadsCat
<1>7. <<l>> \in Txs
  BY <1>1, TxOne
<1>8. IsPlan("buy", P)
  BY <1>3, <1>5, <1>7, LookPlan DEF Ops
<1>9. Begin(h, "buy", P, acct)
  BY DEF RunBuyCollateral
<1>10. Plan(h, {}, "buy", P, acct)
  BY <1>2, <1>6, <1>8, <1>9 DEF Plan
<1> QED BY <1>10

LEMMA ProbeLookBuy ==
  ASSUME Flow(Handlers), NEW h \in Handlers, LookBuy(h)
  PROVE  Decline(h) \/ \E P, goal : Plan(h, {}, "buy", P, goal)
<1> DEFINE a == run[h].todo[1][1].asset
           n == IF acct.held[Base] < BuyMax THEN acct.held[Base] ELSE BuyMax
           l == Leg("buy", a, n)
           P == <<Approve(Base, l.n), Alt, <<l>>>>
<1>0. Base \in Assets
  BY DEF Assets
<1>1. n \in Nat /\ acct \in Books
  BY <1>0, HeldIs, AmountsAssumption
<1>2. run[h].todo[1][1] \in Deeds /\ run[h].todo[1][1].do = "look"
  BY LooksIs DEF LookBuy
<1>3. a \in Colls
  BY <1>2 DEF Deeds
<1> HIDE DEF a, n
<1>4. l \in Deeds /\ l.do = "buy" /\ l.n = n
  BY <1>1, <1>3, LegColl
<1>5. Leads({}, P, acct, Nil, Does(l, acct), Nil) /\ Sends(P) /\ P # <<>>
  BY <1>0, <1>1, <1>4, GrantAltSpend
<1>6. Decline(h) \/ Begin(h, "buy", P, Does(l, acct))
  BY <1>4 DEF LookBuy, a, n
<1>7. Begin(h, "buy", P, Does(l, acct)) => Plan(h, {}, "buy", P, Does(l, acct))
  BY <1>5, StartPlan DEF Ops
<1> QED BY <1>6, <1>7

LEMMA ProbeCombined ==
  ASSUME Flow(Handlers), NEW h, NEW a \in Assets, RunCombined(h, a)
  PROVE  \E P, goal : Plan(h, {}, "combined", P, goal)
<1> DEFINE n == Amount[a]
           fund == Leg("fund", a, n)
           grant == Leg("approve", a, n)
           l == Leg("supply", a, n)
           d == Does(fund, acct)
           P == <<Ata(a), Alt, <<fund, grant>>, <<l>>>>
<1>1. n \in Nat /\ acct \in Books
  BY HeldIs, AmountsAssumption
<1> HIDE DEF n
<1>2. fund \in Deeds /\ fund.do = "fund" /\ grant \in Deeds /\ grant.do = "approve" /\ grant.asset = a /\ grant.n = n
  BY <1>1, LegOf DEF Acts
<1>3. l \in Deeds /\ l.do = "supply" /\ l.asset = a /\ l.n = n
  BY <1>1, LegOf DEF Acts
<1>4. fund \in Firsts /\ grant \in Seconds
  BY <1>2 DEF Firsts, Seconds
<1> HIDE DEF fund, grant, l
<1>5. Nil \in Bounds /\ Only(a, n) \in Bounds
  BY <1>1, OnlyIs
<1>6. d \in Books /\ Worth(d) = Moved({}, fund, Worth(acct))
  BY <1>1, <1>2, DoesBooks
<1> HIDE DEF d
<1>7. Leads({}, <<<<fund, grant>>>>, acct, Nil, d, Only(a, n)) /\ Sends(<<<<fund, grant>>>>)
  <2>1. \A x \in Assets : <<fund, Nil[x], Nil[x]>> \in Owes(x)
    BY <1>2, <1>5, StillOwes
  <2>2. \A x \in Assets : <<grant, Nil[x], Only(a, n)[x]>> \in Owes(x)
    BY <1>2, GrantOwes
  <2>3. Worth(d) = Moved({}, grant, Worth(d))
    BY <1>2, StillMoves
  <2>4. Leads({}, <<<<fund, grant>>>>, acct, Nil, d, Only(a, n))
    BY <1>1, <1>4, <1>5, <1>6, <2>1, <2>2, <2>3, PairLeads
  <2>5. <<fund, grant>> \in Txs /\ ~IsLook(<<fund, grant>>)
    BY <1>2, <1>4, TxTwo DEF IsLook
  <2> QED BY <2>4, <2>5, SendsOne
<1>8. Leads({}, <<<<l>>>>, d, Only(a, n), Does(l, d), Nil) /\ Sends(<<<<l>>>>)
  BY <1>3, <1>6, SpendLeads
<1>9. Leads({}, <<Alt>>, acct, Nil, acct, Nil) /\ Sends(<<Alt>>) /\ Leads({}, <<Ata(a)>>, acct, Nil, acct, Nil) /\ Sends(<<Ata(a)>>)
  BY <1>1, <1>5, AltLeads, AtaLeads
<1> DEFINE Q == <<<<fund, grant>>>> \o <<<<l>>>>
           R == <<Alt>> \o Q
<1>10. Leads({}, Q, acct, Nil, Does(l, d), Nil) /\ Sends(Q)
  BY <1>7, <1>8, LeadsCat, SendsCat
<1>11. Leads({}, R, acct, Nil, Does(l, d), Nil) /\ Sends(R)
  BY <1>9, <1>10, LeadsCat, SendsCat
<1>12. Leads({}, <<Ata(a)>> \o R, acct, Nil, Does(l, d), Nil) /\ Sends(<<Ata(a)>> \o R)
  BY <1>9, <1>11, LeadsCat, SendsCat
<1>13. P = <<Ata(a)>> \o R
  <2>1. P = <<Ata(a)>> \o <<Alt, <<fund, grant>>, <<l>>>>
    BY TupleCat
  <2> DEFINE pair == <<fund, grant>>
             last == <<l>>
  <2> HIDE DEF pair, last
  <2>2. <<Alt, pair, last>> = <<Alt>> \o <<pair, last>>
    BY ThreeCat
  <2>3. <<<<fund, grant>>, <<l>>>> = Q
    BY TupleCat
  <2> QED BY <2>1, <2>2, <2>3 DEF pair, last
<1>14. P # <<>>
  OBVIOUS
<1>15. Begin(h, "combined", P, Does(l, d))
  BY SupplyDoes DEF RunCombined, Supply, fund, grant, l, d, n
<1>16. Plan(h, {}, "combined", P, Does(l, d))
  BY <1>12, <1>13, <1>14, <1>15, StartPlan DEF Ops
<1> QED BY <1>16

(* Both legs in one transaction, or one after the other.                   *)
LEMMA ProbeExit ==
  ASSUME Flow(Handlers), NEW h, NEW a \in Assets, RunWithdrawToWallet(h, a)
  PROVE  Decline(h) \/ \E P, goal : Plan(h, {}, "exit", P, goal)
<1> DEFINE n == Position(a)
           out == Leg("withdraw", a, n)
           back == Leg("return", a, n)
           d == Does(out, acct)
           c == Does(back, d)
           P == IF a = Base THEN <<<<out, back>>>> ELSE <<<<out>>, <<back>>>>
<1>1. n \in Nat /\ acct \in Books
  BY HeldIs, PositionIs
<1>2. /\ out \in Deeds /\ out.do = "withdraw"
      /\ back \in Deeds /\ back.do = "return"
  BY <1>1, LegOf DEF Acts
<1>0. Decline(h) \/ Begin(h, "exit", P, c)
  BY SupplyDoes DEF RunWithdrawToWallet
<1> HIDE DEF out, back
<1>3. out \in Firsts /\ back \in Seconds
  BY <1>2 DEF Firsts, Seconds
<1>4. Nil \in Bounds
  BY OnlyIs
<1>5. d \in Books /\ Worth(d) = Moved({}, out, Worth(acct))
  BY <1>1, <1>2, DoesBooks
<1> HIDE DEF d
<1>6. c \in Books /\ Worth(c) = Moved({}, back, Worth(d))
  BY <1>2, <1>5, DoesBooks
<1>7. \A x \in Assets : <<out, Nil[x], Nil[x]>> \in Owes(x) /\ <<back, Nil[x], Nil[x]>> \in Owes(x)
  BY <1>2, <1>4, StillOwes
<1> HIDE DEF c
<1>8. Leads({}, <<<<out, back>>>>, acct, Nil, c, Nil)
  BY <1>1, <1>3, <1>4, <1>5, <1>6, <1>7, PairLeads
<1>9. <<out, back>> \in Txs /\ ~IsLook(<<out, back>>)
  BY <1>2, <1>3, TxTwo DEF IsLook
<1>10. Leads({}, <<<<out>>>>, acct, Nil, d, Nil) /\ Leads({}, <<<<back>>>>, d, Nil, c, Nil)
  BY <1>1, <1>2, <1>4, <1>5, <1>6, <1>7, LegLeads
<1>11. <<out>> \in Txs /\ ~IsLook(<<out>>) /\ <<back>> \in Txs /\ ~IsLook(<<back>>)
  BY <1>2, TxOne DEF IsLook
<1>12. CASE a = Base
  <2>1. P = <<<<out, back>>>>
    BY <1>12
  <2>2. <<<<out, back>>>> \in Plans /\ Len(<<<<out, back>>>>) = 1
    BY <1>9, PlanOne
  <2>3. IsPlan("exit", <<<<out, back>>>>)
    BY <2>2 DEF IsPlan, Ops
  <2>4. Begin(h, "exit", P, c) => Plan(h, {}, "exit", P, c)
    BY <1>6, <1>8, <2>1, <2>3 DEF Plan
  <2> QED BY <1>0, <2>4
<1>13. CASE a # Base
  <2>1. P = <<<<out>>, <<back>>>>
    BY <1>13
  <2>2. <<<<out>>, <<back>>>> = <<<<out>>>> \o <<<<back>>>>
    BY TwoCat
  <2>3. Leads({}, P, acct, Nil, c, Nil)
    BY <1>10, <2>1, <2>2, LeadsCat
  <2>4. Len(P) = 2 /\ P[1] = <<out>> /\ P[2] = <<back>> /\ P # <<>>
    BY <2>1
  <2>5. P \in Plans
    BY <2>3 DEF Leads
  <2>6. IsPlan("exit", P)
    <3>1. \A i \in 1 .. Len(P) - 1 : ~IsLook(P[i])
      BY <1>11, <2>4
    <3>2. \A i \in 1 .. Len(P) : Len(P[i]) = 1
      BY <2>4
    <3>3. "exit" \in Ops \ {"none"}
      BY DEF Ops
    <3> QED BY <2>4, <2>5, <3>1, <3>2, <3>3 DEF IsPlan
  <2>7. Begin(h, "exit", P, c) => Plan(h, {}, "exit", P, c)
    BY <1>6, <2>3, <2>6 DEF Plan
  <2> QED BY <1>0, <2>7
<1> QED BY <1>12, <1>13

(* An account for every asset.                                             *)
Atas == [i \in DOMAIN Listed |-> Ata(Listed[i])]

LEMMA AtasIs ==
  /\ Sends(Atas) /\ Len(Atas) = Len(Listed) /\ \A i \in 1 .. Len(Atas) : Atas[i] = <<Leg("ata", Listed[i], 0)>>
  /\ \A a \in Assets : \E i \in 1 .. Len(Atas) : Atas[i] = <<Leg("ata", a, 0)>>
<1>1. Listed \in Seq(Assets)
  BY AssetsAssumption
<1>2. Len(Listed) \in Nat /\ DOMAIN Listed = 1 .. Len(Listed) /\ \A i \in 1 .. Len(Listed) : Listed[i] \in Assets
  BY <1>1
<1>3. \A a \in Assets : Ata(a) = <<Leg("ata", a, 0)>> /\ Ata(a) \in Txs /\ ~IsLook(Ata(a))
  <2> TAKE a \in Assets
  <2>1. Leg("ata", a, 0) \in Deeds /\ Leg("ata", a, 0).do = "ata"
    BY LegOf DEF Acts
  <2> QED BY <2>1, TxOne DEF Ata, IsLook
<1>4. \A i \in 1 .. Len(Listed) : Atas[i] = Ata(Listed[i])
  BY <1>2 DEF Atas
<1>5. Atas \in Seq(Txs) /\ Len(Atas) = Len(Listed)
  <2>1. Atas \in [1 .. Len(Listed) -> Txs]
    BY <1>2, <1>3 DEF Atas
  <2> QED BY <1>2, <2>1
<1>6. \A i \in 1 .. Len(Atas) : Atas[i] = <<Leg("ata", Listed[i], 0)>> /\ ~IsLook(Atas[i])
  BY <1>2, <1>3, <1>4, <1>5
<1>7. \A a \in Assets : \E i \in 1 .. Len(Atas) : Atas[i] = <<Leg("ata", a, 0)>>
  <2> TAKE a \in Assets
  <2>1. PICK i \in DOMAIN Listed : Listed[i] = a
    BY AssetsAssumption
  <2> QED BY <1>2, <1>5, <1>6, <2>1
<1> QED BY <1>5, <1>6, <1>7 DEF Sends, Plans

LEMMA AtasLeads ==
  ASSUME NEW home \in SUBSET {"look"}, NEW b \in Books, NEW o \in Bounds,
         NEW gifts \in SUBSET {"claim"}
  PROVE  Leads(home, Atas, b, o, b, o) /\ Holding(gifts, Atas, o, o)
<1>1. Atas \in Plans /\ Len(Atas) \in Nat
  BY AtasIs DEF Sends, Plans
<1>2. Worth(b) \in Worths
  BY WorthType
<1>3. \A i \in 1 .. Len(Atas) : \E l \in Deeds : Atas[i] = <<l>> /\ l.do = "ata"
  <2> TAKE i \in 1 .. Len(Atas)
  <2>1. Listed[i] \in Assets
    BY AssetsAssumption, AtasIs
  <2>2. Leg("ata", Listed[i], 0) \in Deeds /\ Leg("ata", Listed[i], 0).do = "ata"
    BY <2>1, LegOf DEF Acts
  <2> QED BY <2>2, AtasIs
<1>4. \A i \in 1 .. Len(Atas) : Via(Worths, Moves(home), Atas[i], Worth(b), Worth(b))
  <2> TAKE i \in 1 .. Len(Atas)
  <2>1. PICK l \in Deeds : Atas[i] = <<l>> /\ l.do = "ata"
    BY <1>3
  <2>2. Moved(home, l, Worth(b)) = Worth(b)
    BY <2>1, StillMoves DEF Stills
  <2>3. <<l, Worth(b), Worth(b)>> \in Moves(home)
    BY <1>2, <2>2, InMoves
  <2> QED BY <1>2, <2>1, <2>3 DEF Via
<1>5. \A a \in Assets : \A i \in 1 .. Len(Atas) : Via(Nat, Owes(a), Atas[i], o[a], o[a])
  <2> TAKE a \in Assets
  <2> TAKE i \in 1 .. Len(Atas)
  <2>1. PICK l \in Deeds : Atas[i] = <<l>> /\ l.do = "ata"
    BY <1>3
  <2>2. <<l, o[a], o[a]>> \in Owes(a) /\ o[a] \in Nat
    BY <2>1, StillOwes DEF Bounds
  <2> QED BY <2>1, <2>2 DEF Via
<1>6. \A a \in Assets : \A i \in 1 .. Len(Atas) : Via(Nat, Holds(gifts, a), Atas[i], o[a], o[a])
  <2> TAKE a \in Assets
  <2> TAKE i \in 1 .. Len(Atas)
  <2>1. PICK l \in Deeds : Atas[i] = <<l>> /\ l.do = "ata"
    BY <1>3
  <2>2. <<l, o[a], o[a]>> \in Holds(gifts, a) /\ o[a] \in Nat
    BY <2>1, StillHolds DEF Bounds, Stills
  <2> QED BY <2>1, <2>2 DEF Via
<1>7. Along(Worths, Moves(home), Atas, Worth(b), Worth(b))
  BY <1>1, <1>2, <1>4, AlongStill
<1>8. \A a \in Assets : /\ Along(Nat, Owes(a), Atas, o[a], o[a])
                        /\ Along(Nat, Holds(gifts, a), Atas, o[a], o[a])
  <2> TAKE a \in Assets
  <2>1. o[a] \in Nat
    BY DEF Bounds
  <2>2. Along(Nat, Owes(a), Atas, o[a], o[a])
    BY <1>1, <1>5, <2>1, AlongStill
  <2>3. Along(Nat, Holds(gifts, a), Atas, o[a], o[a])
    BY <1>1, <1>6, <2>1, AlongStill
  <2> QED BY <2>2, <2>3
<1> QED BY <1>1, <1>7, <1>8 DEF Leads, Holding

(* The authority, an account for every asset, the table.                   *)
Pda == <<<<Leg("pda", Base, 0)>>>>
Activation == Pda \o Atas \o <<Alt>>

LEMMA PdaLeads ==
  ASSUME NEW home \in SUBSET {"look"}, NEW b \in Books, NEW o \in Bounds
  PROVE  Leads(home, Pda, b, o, b, o) /\ Sends(Pda) /\ Pda # <<>>
<1> DEFINE l == Leg("pda", Base, 0)
<1>1. l \in Deeds /\ l.do = "pda"
  BY LegOf DEF Acts, Assets
<1>2. Leads(home, <<<<l>>>>, b, o, b, o) /\ Sends(<<<<l>>>>)
  BY <1>1, StillLeads DEF Stills
<1>3. <<<<l>>>> # <<>>
  OBVIOUS
<1> QED BY <1>2, <1>3 DEF Pda

LEMMA ActivationLeads ==
  ASSUME NEW home \in SUBSET {"look"}, NEW b \in Books
  PROVE  Leads(home, Activation, b, Nil, b, Nil) /\ Sends(Activation) /\ Activation # <<>>
<1>1. Nil \in Bounds
  BY OnlyIs
<1>2. Leads(home, Pda, b, Nil, b, Nil) /\ Sends(Pda) /\ Pda # <<>>
  BY <1>1, PdaLeads
<1>3. Leads(home, Atas, b, Nil, b, Nil) /\ Sends(Atas)
  BY <1>1, AtasLeads, AtasIs
<1>4. Leads(home, <<Alt>>, b, Nil, b, Nil) /\ Sends(<<Alt>>)
  BY <1>1, AltLeads
<1>5. Leads(home, Pda \o Atas, b, Nil, b, Nil) /\ Sends(Pda \o Atas)
  BY <1>2, <1>3, LeadsCat, SendsCat
<1>6. Leads(home, Activation, b, Nil, b, Nil) /\ Sends(Activation)
  BY <1>4, <1>5, LeadsCat, SendsCat DEF Activation
<1>7. <<Alt>> # <<>> /\ <<Alt>> \in Plans /\ Pda \o Atas \in Plans
  BY <1>4, <1>5 DEF Leads
<1>8. Activation # <<>>
  BY <1>7, PlanCat DEF Activation
<1> QED BY <1>6, <1>8

(* All that a wallet needs is made by it.                                  *)
Needs == {Leg("pda", Base, 0), Leg("alt", Base, 0)} \cup {Leg("ata", a, 0) : a \in Assets}

LEMMA ActivationNeeds ==
  \A l \in Needs : \E i \in 1 .. Len(Activation) : Activation[i] = <<l>>
<1> DEFINE n == Len(Atas)
           A == Pda \o Atas
<1>1. Atas \in Plans /\ n \in Nat
  BY AtasIs DEF Sends, Plans
<1>2. Leg("pda", Base, 0) \in Deeds /\ Leg("alt", Base, 0) \in Deeds
  BY LegOf DEF Acts, Assets
<1>3. Pda \in Plans /\ Len(Pda) = 1 /\ Pda[1] = <<Leg("pda", Base, 0)>>
  BY <1>2, TxOne, PlanOne DEF Pda
<1>4. <<Alt>> \in Plans /\ Len(<<Alt>>) = 1 /\ <<Alt>>[1] = <<Leg("alt", Base, 0)>>
  BY <1>2, TxOne, PlanOne DEF Alt
<1>5. /\ A \in Plans /\ Len(A) = n + 1 /\ A[1] = Pda[1]
      /\ \A i \in 2 .. n + 1 : A[i] = Atas[i - 1]
  <2>1. A \in Plans /\ Len(A) = Len(Pda) + Len(Atas)
    BY <1>1, <1>3, PlanCat
  <2>2. \A i \in 1 .. Len(Pda) : A[i] = Pda[i]
    BY <1>1, <1>3, PlanCat
  <2>3. \A i \in Len(Pda) + 1 .. Len(Pda) + Len(Atas) : A[i] = Atas[i - Len(Pda)]
    BY <1>1, <1>3, PlanCat
  <2> QED BY <1>1, <1>3, <2>1, <2>2, <2>3
<1> HIDE DEF A
<1>6. /\ Activation \in Plans /\ Len(Activation) = n + 2
      /\ \A i \in 1 .. n + 1 : Activation[i] = A[i]
      /\ Activation[n + 2] = <<Leg("alt", Base, 0)>>
  <2>0. Activation = A \o <<Alt>>
    BY DEF Activation, A
  <2>1. Activation \in Plans /\ Len(Activation) = Len(A) + Len(<<Alt>>)
    BY <1>4, <1>5, <2>0, PlanCat
  <2>2. \A i \in 1 .. Len(A) : Activation[i] = A[i]
    BY <1>4, <1>5, <2>0, PlanCat
  <2>3. \A i \in Len(A) + 1 .. Len(A) + Len(<<Alt>>) : Activation[i] = <<Alt>>[i - Len(A)]
    BY <1>4, <1>5, <2>0, PlanCat
  <2>4. n + 2 \in Len(A) + 1 .. Len(A) + Len(<<Alt>>) /\ n + 2 - Len(A) = 1
    BY <1>1, <1>4, <1>5
  <2>5. Activation[n + 2] = <<Alt>>[1]
    BY <2>3, <2>4
  <2> QED BY <1>1, <1>4, <1>5, <2>1, <2>2, <2>5
<1> TAKE l \in Needs
<1>7. CASE l = Leg("pda", Base, 0)
  <2>1. Activation[1] = <<l>> /\ 1 \in 1 .. Len(Activation)
    BY <1>1, <1>3, <1>5, <1>6, <1>7
  <2> QED BY <2>1
<1>8. CASE l = Leg("alt", Base, 0)
  <2>1. Activation[n + 2] = <<l>> /\ n + 2 \in 1 .. Len(Activation)
    BY <1>1, <1>6, <1>8
  <2> QED BY <2>1
<1>9. ASSUME NEW a \in Assets, l = Leg("ata", a, 0)
      PROVE  \E i \in 1 .. Len(Activation) : Activation[i] = <<l>>
  <2>1. PICK i \in 1 .. n : Atas[i] = <<l>>
    BY <1>9, AtasIs
  <2>2. i + 1 \in 1 .. Len(Activation) /\ i + 1 \in 2 .. n + 1 /\ i + 1 \in 1 .. n + 1 /\ (i + 1) - 1 = i
    BY <1>1, <1>6, <2>1
  <2>3. Activation[i + 1] = <<l>>
    BY <1>5, <1>6, <2>1, <2>2
  <2> QED BY <2>2, <2>3
<1> QED BY <1>7, <1>8, <1>9 DEF Needs

LEMMA ProbeActivate ==
  ASSUME Flow(Handlers), NEW h, RunActivate(h)
  PROVE  \E P, goal : Plan(h, {}, "activate", P, goal) /\ P = Activation
<1>1. acct \in Books
  BY BooksHere DEF Flow
<1>2. Leads({}, Activation, acct, Nil, acct, Nil) /\ Sends(Activation) /\ Activation # <<>>
  BY <1>1, ActivationLeads
<1>3. Begin(h, "activate", Activation, acct)
  BY DEF RunActivate, Activation, Pda, Atas
<1>4. Plan(h, {}, "activate", Activation, acct)
  BY <1>2, <1>3, StartPlan DEF Ops
<1> QED BY <1>4

(* A button of the probe, or the look before a purchase.                   *)
ProbeOps == {"supply", "repay", "fund", "withdraw", "return", "borrow", "liquidate", "claim", "buy",
             "combined", "exit", "activate"}
Anew(h, home, ops) ==
  Decline(h) \/ \E op \in ops : \E P, goal : Plan(h, home, op, P, goal) /\ (op = "activate" => P = Activation)

LEMMA ProbeClicks ==
  ASSUME Flow(Handlers), NEW h \in Handlers, Click(h) \/ LookBuy(h)
  PROVE  Anew(h, {}, ProbeOps) /\ Clear(h)
<1>1. Click(h) => ~Running(h)
  BY DEF Click, RunActivate, RunBorrow, RunRepay, RunFund, RunSupply, RunWithdraw, RunReturnToWallet,
         RunWithdrawToWallet, RunCombined, RunLiquidate, RunBuyCollateral, RunFaucetClaim, Free
<1>2. Clear(h)
  BY <1>1, ClearIs DEF LookBuy
<1>3. LookBuy(h) => Anew(h, {}, ProbeOps)
  BY ProbeLookBuy DEF Anew, ProbeOps
<1>4. RunActivate(h) => Anew(h, {}, ProbeOps)
  BY ProbeActivate DEF Anew, ProbeOps
<1>5. RunBorrow(h) => Anew(h, {}, ProbeOps)
  BY ProbeBorrow DEF Anew, ProbeOps
<1>6. RunRepay(h) => Anew(h, {}, ProbeOps)
  BY ProbeRepay DEF Anew, ProbeOps
<1>7. ASSUME NEW a \in Assets
      PROVE  /\ RunFund(h, a) => Anew(h, {}, ProbeOps)
             /\ RunSupply(h, a) => Anew(h, {}, ProbeOps)
             /\ RunWithdraw(h, a) => Anew(h, {}, ProbeOps)
             /\ RunReturnToWallet(h, a) => Anew(h, {}, ProbeOps)
             /\ RunWithdrawToWallet(h, a) => Anew(h, {}, ProbeOps)
             /\ RunCombined(h, a) => Anew(h, {}, ProbeOps)
  <2>1. RunFund(h, a) => Anew(h, {}, ProbeOps)
    BY ProbeFund DEF Anew, ProbeOps
  <2>2. RunSupply(h, a) => Anew(h, {}, ProbeOps)
    BY ProbeSupply DEF Anew, ProbeOps
  <2>3. RunWithdraw(h, a) => Anew(h, {}, ProbeOps)
    BY ProbeWithdraw DEF Anew, ProbeOps
  <2>4. RunReturnToWallet(h, a) => Anew(h, {}, ProbeOps)
    BY ProbeReturn DEF Anew, ProbeOps
  <2>5. RunWithdrawToWallet(h, a) => Anew(h, {}, ProbeOps)
    BY ProbeExit DEF Anew, ProbeOps
  <2>6. RunCombined(h, a) => Anew(h, {}, ProbeOps)
    BY ProbeCombined DEF Anew, ProbeOps
  <2> QED BY <2>1, <2>2, <2>3, <2>4, <2>5, <2>6
<1>8. ASSUME NEW c \in Colls
      PROVE  /\ RunLiquidate(h, c) => Anew(h, {}, ProbeOps)
             /\ RunBuyCollateral(h, c) => Anew(h, {}, ProbeOps)
             /\ RunFaucetClaim(h, c) => Anew(h, {}, ProbeOps)
  <2>1. RunLiquidate(h, c) => Anew(h, {}, ProbeOps)
    BY ProbeLiquidate DEF Anew, ProbeOps
  <2>2. RunBuyCollateral(h, c) => Anew(h, {}, ProbeOps)
    BY ProbeBuy DEF Anew, ProbeOps
  <2>3. RunFaucetClaim(h, c) => Anew(h, {}, ProbeOps)
    BY ProbeClaim DEF Anew, ProbeOps
  <2> QED BY <2>1, <2>2, <2>3
<1>9. Click(h) => Anew(h, {}, ProbeOps)
  BY <1>4, <1>5, <1>6, <1>7, <1>8 DEF Click
<1> QED BY <1>2, <1>3, <1>9

-----------------------------------------------------------------------------
(* A handler that ends well has done what it promised.                     *)

LEMMA EndsGoes ==
  ASSUME NEW H, Flow(H), Flow(H)', NEW h \in H, Goes1(H, h), NEW home, Promised(H, home)
  PROVE  \A g \in H : AsPromised(g)
<1>1. \A g \in H : g # h => run'[g] = run[g]
  BY Repend DEF Goes1
<1>2. ASSUME Ends(h), NEW w \in run[h].goal
      PROVE  Worth(acct') = w
  <2>1. PendOf(run'[h]) = <<>>
    BY <1>2 DEF Ends, Flow, Sound, PendOf, Resting
  <2>2. acct' = acct
    BY DEF Goes1
  <2>3. Along(Worths, Moves(home), PendOf(run[h]), Worth(acct), w) /\ Worth(acct) \in Worths
    BY WorthType, BooksHere DEF Promised, Flow
  <2>4. CASE PendOf(run[h]) = <<>>
    BY <2>2, <2>3, <2>4, AlongNil
  <2>5. CASE PendOf(run[h]) # <<>>
    <3> DEFINE P == PendOf(run[h])
    <3>1. P \in Plans /\ P # <<>>
      BY <2>5, PendsAre
    <3>2. Tail(P) = <<>> /\ Present(P[1][1])
      BY <2>1, <2>5 DEF Goes1, Goes
    <3>3. PICK m \in Worths : Via(Worths, Moves(home), P[1], Worth(acct), m) /\ Along(Worths, Moves(home), Tail(P), m, w)
      BY <2>3, <3>1, AlongTail
    <3> HIDE DEF P
    <3>7. Along(Worths, Moves(home), <<>>, m, w)
      BY <3>2, <3>3
    <3>4. m = w
      BY <3>7, AlongNil
    <3>5. P[1] \in Txs
      BY <3>1, PlanTail
    <3>6. m = Worth(acct)
      BY <2>3, <3>2, <3>3, <3>5, PresentMoves
    <3> QED BY <2>2, <3>4, <3>6
  <2> QED BY <2>4, <2>5
<1>3. \A g \in H : g # h => ~Ends(g)
  BY <1>1 DEF Ends, Running, Resting
<1> QED BY <1>2, <1>3 DEF AsPromised

LEMMA EndsLand ==
  ASSUME NEW H, Flow(H), NEW x, LandOn(H, x)
  PROVE  \A g \in H : ~Ends(g)
<1>1. \A g \in H : run'[g].pc = run[g].pc
  BY LandFlows
<1> QED BY <1>1 DEF Ends, Running, Resting

LEMMA EndsBecome ==
  ASSUME NEW H, Flow(H), NEW h \in H, run' = [run EXCEPT ![h] = run'[h]], run'[h].pc # "ok"
  PROVE  \A g \in H : ~Ends(g)
<1>1. \A g \in H : g # h => run'[g] = run[g]
  BY Repend
<1> QED BY <1>1 DEF Ends, Running, Resting

LEMMA EndsStill ==
  ASSUME run' = run, NEW h
  PROVE  ~Ends(h)
BY DEF Ends, Running, Resting

LEMMA IdlePc ==
  ASSUME NEW H, Flow(H), NEW h \in H, run' = [run EXCEPT ![h] = Idle]
  PROVE  run'[h] = Idle /\ run'[h].pc = "idle" /\ run' = [run EXCEPT ![h] = run'[h]]
<1>1. run \in [H -> Runs]
  BY DEF Flow
<1>2. run'[h] = Idle
  BY <1>1
<1>3. Idle.pc = "idle"
  BY DEF Idle
<1> QED BY <1>2, <1>3

-----------------------------------------------------------------------------
(* Activate: what is needed is there, or still to be executed.             *)
Activating(h) ==
  run[h].op = "activate" =>
    \A l \in Needs : Present(l) \/ \E i \in 1 .. Len(PendOf(run[h])) : PendOf(run[h])[i] = <<l>>

(* The same of any accounts.                                               *)
Has(l, s) == (l.do = "pda" => s.pda) /\ (l.do = "ata" => l.asset \in s.ata) /\ (l.do = "alt" => s.alt)

LEMMA NeedsIs ==
  ASSUME NEW l \in Needs
  PROVE  /\ l \in Deeds /\ l.do \in {"pda", "ata", "alt"} /\ (Present(l) <=> Has(l, acct))
<1>1. /\ Leg("pda", Base, 0) \in Deeds /\ Leg("pda", Base, 0).do = "pda"
      /\ Leg("alt", Base, 0) \in Deeds /\ Leg("alt", Base, 0).do = "alt"
      /\ \A a \in Assets : Leg("ata", a, 0) \in Deeds /\ Leg("ata", a, 0).do = "ata"
  <2>1. Base \in Assets /\ 0 \in Nat /\ {"pda", "alt", "ata"} \subseteq Acts \ {"absorb", "buy", "claim"}
    BY DEF Assets, Acts
  <2> QED BY <2>1, LegOf
<1>2. l \in Deeds /\ l.do \in {"pda", "ata", "alt"}
  BY <1>1 DEF Needs
<1>3. CASE l.do = "pda"
  BY <1>2, <1>3 DEF Present, Has
<1>4. CASE l.do = "ata"
  BY <1>2, <1>4 DEF Present, Has
<1>5. CASE l.do = "alt"
  BY <1>2, <1>5 DEF Present, Has
<1> QED BY <1>2, <1>3, <1>4, <1>5

LEMMA DoesHas ==
  ASSUME NEW l \in Deeds, l.do # "look", NEW s \in Accts
  PROVE  /\ \A k : Has(k, s) => Has(k, Does(l, s))
         /\ Has(l, Does(l, s))
<1>1. /\ s.pda => Does(l, s).pda
      /\ s.ata \subseteq Does(l, s).ata
      /\ s.alt => Does(l, s).alt
      /\ l.do = "pda" => Does(l, s).pda
      /\ l.do = "ata" => l.asset \in Does(l, s).ata
      /\ l.do = "alt" => Does(l, s).alt
  <2>1. l.do \in Acts
    BY DEF Deeds
  <2>2. CASE l.do \in {"pda", "ata", "alt", "nativeAta", "walletAta", "homeAta", "fund", "approve", "topUp"}
    BY <2>2 DEF Does, Accts
  <2>3. CASE l.do \in {"supply", "withdraw"}
    BY <2>3 DEF Does, Supplied, Withdrawn, Accts
  <2>4. CASE l.do \in {"return", "give", "absorb", "buy", "claim", "airdrop"}
    BY <2>4 DEF Does, Accts
  <2> QED BY <2>1, <2>2, <2>3, <2>4 DEF Acts
<1> QED BY <1>1 DEF Has

LEMMA TxHas ==
  ASSUME NEW t \in Txs, ~IsLook(t), NEW s \in Accts, AllAble(t, s)
  PROVE  /\ \A k : Has(k, s) => Has(k, AllDo(t, s))
         /\ \A k : t = <<k>> => Has(k, AllDo(t, s))
<1>1. /\ t[1] \in Deeds /\ t[1].do # "look" /\ Does(t[1], s) \in Accts
      /\ Len(t) # 1 => t[2] \in Deeds /\ t[2].do # "look"
      /\ AllDo(t, s) = IF Len(t) = 1 THEN Does(t[1], s) ELSE Does(t[2], Does(t[1], s))
  BY TxLegs
<1>2. /\ \A k : Has(k, s) => Has(k, Does(t[1], s))
      /\ Has(t[1], Does(t[1], s))
  BY <1>1, DoesHas
<1>3. CASE Len(t) = 1
  BY <1>1, <1>2, <1>3
<1>4. CASE Len(t) # 1
  <2>1. \A k : Has(k, Does(t[1], s)) => Has(k, Does(t[2], Does(t[1], s)))
    BY <1>1, <1>4, DoesHas
  <2> QED BY <1>1, <1>2, <1>4, <2>1
<1> QED BY <1>3, <1>4

LEMMA LandPend ==
  ASSUME NEW H, Flow(H), NEW x, LandOn(H, x), NEW h \in H
  PROVE  /\ run'[h].op = run[h].op
         /\ Mine(h, x) => /\ PendOf(run'[h]) = Tail(PendOf(run[h])) /\ PendOf(run[h])[1] = x.legs
                          /\ PendOf(run[h]) \in Plans /\ PendOf(run[h]) # <<>>
         /\ ~Mine(h, x) => PendOf(run'[h]) = PendOf(run[h])
<1>1. Mine(h, x) => /\ PendOf(run'[h]) = Tail(PendOf(run[h])) /\ PendOf(run[h])[1] = x.legs
                    /\ PendOf(run[h]) \in Plans /\ PendOf(run[h]) # <<>>
  BY LandMine
<1>2. run'[h].op = run[h].op /\ run'[h].pc = run[h].pc /\ run'[h].todo = run[h].todo
  BY LandFlows
<1>3. ASSUME ~Mine(h, x)
      PROVE  run'[h].landed = run[h].landed
  <2>1. run[h] \in Runs
    BY DEF Flow
  <2>2. run'[h].landed = (run[h].landed \/ Mine(h, x))
    BY <2>1 DEF LandOn, Runs
  <2>3. run[h].landed \in BOOLEAN
    BY <2>1 DEF Runs
  <2> QED BY <1>3, <2>2, <2>3
<1> QED BY <1>1, <1>2, <1>3 DEF PendOf

(* What is there stays there, and what leaves the plan is there.           *)
LEMMA ActivatingNext ==
  ASSUME NEW h, Activating(h), run'[h].op \in {run[h].op, "none"},
         \A l \in Needs : Present(l) => Present(l)',
         \/ PendOf(run'[h]) = PendOf(run[h])
         \/ /\ PendOf(run[h]) \in Plans /\ PendOf(run[h]) # <<>> /\ PendOf(run'[h]) = Tail(PendOf(run[h]))
            /\ \A l \in Needs : PendOf(run[h])[1] = <<l>> => Present(l)'
  PROVE  Activating(h)'
<1> SUFFICES ASSUME run'[h].op = "activate", NEW l \in Needs
             PROVE  Present(l)' \/ \E i \in 1 .. Len(PendOf(run'[h])) : PendOf(run'[h])[i] = <<l>>
  BY DEF Activating
<1>1. Present(l) \/ \E i \in 1 .. Len(PendOf(run[h])) : PendOf(run[h])[i] = <<l>>
  BY DEF Activating
<1>2. CASE Present(l)
  BY <1>2
<1>3. ASSUME NEW i \in 1 .. Len(PendOf(run[h])), PendOf(run[h])[i] = <<l>>
      PROVE  Present(l)' \/ \E j \in 1 .. Len(PendOf(run'[h])) : PendOf(run'[h])[j] = <<l>>
  <2>1. CASE PendOf(run'[h]) = PendOf(run[h])
    BY <1>3, <2>1
  <2>2. CASE PendOf(run'[h]) # PendOf(run[h])
    <3> DEFINE P == PendOf(run[h])
               Q == PendOf(run'[h])
    <3>1. P \in Plans /\ P # <<>> /\ Q = Tail(P) /\ (P[1] = <<l>> => Present(l)')
      BY <2>2
    <3>2. i \in 1 .. Len(P) /\ P[i] = <<l>>
      BY <1>3
    <3> HIDE DEF P, Q
    <3>3. Len(P) \in Nat /\ Len(Q) = Len(P) - 1 /\ \A j \in 1 .. Len(P) - 1 : Q[j] = P[j + 1]
      BY <3>1, PlanTail
    <3>4. CASE i = 1
      BY <3>1, <3>2, <3>4
    <3>5. CASE i # 1
      <4>1. i - 1 \in 1 .. Len(Q) /\ Q[i - 1] = P[(i - 1) + 1] /\ (i - 1) + 1 = i
        BY <3>2, <3>3, <3>5
      <4>2. Q[i - 1] = <<l>>
        BY <3>2, <4>1
      <4> QED BY <4>1, <4>2 DEF Q
    <3> QED BY <3>4, <3>5
  <2> QED BY <2>1, <2>2
<1> QED BY <1>1, <1>2, <1>3

LEMMA PresentKept ==
  ASSUME NEW l, Present(l), acct' = acct
  PROVE  Present(l)'
BY DEF Present

LEMMA GoesActivating ==
  ASSUME NEW H, Flow(H), NEW h \in H, Goes1(H, h), \A g \in H : Activating(g)
  PROVE  \A g \in H : Activating(g)'
<1>0. acct' = acct
  BY DEF Goes1
<1>1. \A l \in Needs : Present(l) => Present(l)'
  BY <1>0, PresentKept
<1>2. \A g \in H : g # h => run'[g] = run[g]
  BY Repend DEF Goes1
<1>3. ASSUME NEW g \in H, g # h PROVE Activating(g)'
  BY <1>1, <1>2, <1>3, ActivatingNext
<1>4. Activating(h)'
  <2>1. Goes(run[h], run'[h]) /\ PendOf(run[h]) \in Plans
    BY PendsAre DEF Goes1
  <2>2. run'[h].op \in {run[h].op, "none"}
    BY <2>1 DEF Goes
  <2>3. ASSUME PendOf(run'[h]) # PendOf(run[h])
        PROVE  /\ PendOf(run[h]) \in Plans /\ PendOf(run[h]) # <<>> /\ PendOf(run'[h]) = Tail(PendOf(run[h]))
               /\ \A l \in Needs : PendOf(run[h])[1] = <<l>> => Present(l)'
    <3>1. PendOf(run[h]) # <<>> /\ PendOf(run'[h]) = Tail(PendOf(run[h])) /\ Present(PendOf(run[h])[1][1])
      BY <2>1, <2>3 DEF Goes
    <3>2. \A l \in Needs : PendOf(run[h])[1] = <<l>> => Present(l)
      BY <3>1
    <3> QED BY <1>1, <2>1, <3>1, <3>2
  <2> QED BY <1>1, <2>2, <2>3, ActivatingNext
<1> QED BY <1>3, <1>4

LEMMA LandActivating ==
  ASSUME NEW H, Flow(H), NEW x, LandOn(H, x), \A g \in H : Activating(g)
  PROVE  \A g \in H : Activating(g)'
<1>1. x.legs \in Txs /\ ~IsLook(x.legs) /\ acct \in Accts /\ AllAble(x.legs, acct) /\ acct' = AllDo(x.legs, acct)
  BY LandFlows DEF LandOn, Flow
<1>2. /\ \A k : Has(k, acct) => Has(k, acct')
      /\ \A k : x.legs = <<k>> => Has(k, acct')
  BY <1>1, TxHas
<1>3. \A l \in Needs : (Present(l) <=> Has(l, acct)) /\ (Present(l)' <=> Has(l, acct'))
  <2> TAKE l \in Needs
  <2>1. Present(l) <=> Has(l, acct)
    BY NeedsIs
  <2>2. l.do \in {"pda", "ata", "alt"}
    BY NeedsIs
  <2>3. Present(l)' <=> Has(l, acct')
    <3>1. CASE l.do = "pda"
      BY <3>1 DEF Present, Has
    <3>2. CASE l.do = "ata"
      BY <3>2 DEF Present, Has
    <3>3. CASE l.do = "alt"
      BY <3>3 DEF Present, Has
    <3> QED BY <2>2, <3>1, <3>2, <3>3
  <2> QED BY <2>1, <2>3
<1>4. \A l \in Needs : (Present(l) => Present(l)') /\ (x.legs = <<l>> => Present(l)')
  BY <1>2, <1>3
<1> TAKE g \in H
<1>5. /\ run'[g].op = run[g].op
      /\ Mine(g, x) => /\ PendOf(run'[g]) = Tail(PendOf(run[g])) /\ PendOf(run[g])[1] = x.legs
                       /\ PendOf(run[g]) \in Plans /\ PendOf(run[g]) # <<>>
      /\ ~Mine(g, x) => PendOf(run'[g]) = PendOf(run[g])
  BY LandPend
<1>6. CASE Mine(g, x)
  BY <1>4, <1>5, <1>6, ActivatingNext
<1>7. CASE ~Mine(g, x)
  BY <1>4, <1>5, <1>7, ActivatingNext
<1> QED BY <1>6, <1>7

LEMMA AnewActivating ==
  ASSUME NEW H, Flow(H), NEW h \in H, Ready(H, h), \A g \in H : Activating(g),
         run'[h].op = "activate" => PendOf(run'[h]) = Activation
  PROVE  \A g \in H : Activating(g)'
<1>0. acct' = acct
  BY DEF Ready
<1>1. \A l \in Needs : Present(l) => Present(l)'
  BY <1>0, PresentKept
<1>2. \A g \in H : g # h => run'[g] = run[g]
  BY Repend DEF Ready
<1>3. ASSUME NEW g \in H, g # h PROVE Activating(g)'
  BY <1>1, <1>2, <1>3, ActivatingNext
<1>4. Activating(h)'
  BY ActivationNeeds DEF Activating
<1> QED BY <1>3, <1>4

(* It ends well only when everything is there.                             *)
LEMMA ActivatedAll ==
  ASSUME \A l \in Needs : Present(l), NEW H, Flow(H)
  PROVE  acct.pda /\ acct.ata = Assets /\ acct.alt
<1>1. \A l \in Needs : Has(l, acct)
  BY NeedsIs
<1>2. /\ Leg("pda", Base, 0) \in Needs /\ Leg("alt", Base, 0) \in Needs
      /\ \A a \in Assets : Leg("ata", a, 0) \in Needs
  BY DEF Needs
<1>3. acct.pda
  <2>1. Has(Leg("pda", Base, 0), acct)
    BY <1>1, <1>2
  <2> QED BY <2>1 DEF Has, Leg
<1>4. acct.alt
  <2>1. Has(Leg("alt", Base, 0), acct)
    BY <1>1, <1>2
  <2> QED BY <2>1 DEF Has, Leg
<1>5. \A a \in Assets : a \in acct.ata
  <2> TAKE a \in Assets
  <2>1. Has(Leg("ata", a, 0), acct)
    BY <1>1, <1>2
  <2> QED BY <2>1 DEF Has, Leg
<1>6. acct.ata \subseteq Assets
  BY DEF Flow, Accts
<1> QED BY <1>3, <1>4, <1>5, <1>6

LEMMA EndsActivated ==
  ASSUME NEW H, Flow(H), Flow(H)', NEW h \in H, Goes1(H, h), Activating(h)
  PROVE  ActivatesAll(h)
<1> SUFFICES ASSUME Ends(h), run[h].op = "activate"
             PROVE  acct'.pda /\ acct'.ata = Assets /\ acct'.alt
  BY DEF ActivatesAll
<1>0. acct' = acct
  BY DEF Goes1
<1>1. PendOf(run'[h]) = <<>>
  BY DEF Ends, Flow, Sound, PendOf, Resting
<1>2. \A l \in Needs : Present(l)
  <2> TAKE l \in Needs
  <2> DEFINE P == PendOf(run[h])
  <2>1. Present(l) \/ \E i \in 1 .. Len(P) : P[i] = <<l>>
    BY DEF Activating
  <2>2. P \in Plans /\ (P = <<>> \/ (Tail(P) = <<>> /\ P # <<>> /\ Present(P[1][1])))
    BY <1>1, PendsAre DEF Goes1, Goes
  <2> HIDE DEF P
  <2>3. CASE P = <<>>
    BY <2>1, <2>3
  <2>4. CASE P # <<>>
    <3>1. Len(P) = 1
      BY <2>2, <2>4, PlanTail
    <3>2. P[1] = <<l>> => Present(l)
      BY <2>2, <2>4
    <3> QED BY <2>1, <3>1, <3>2
  <2> QED BY <2>3, <2>4
<1> QED BY <1>0, <1>2, ActivatedAll

-----------------------------------------------------------------------------
(* What every page starts with, and what the chain does by itself.         *)

LEMMA StartKeeps ==
  ASSUME NEW H, IsFiniteSet(H), acct \in Accts, net = {}, run = [h \in H |-> Idle], torn = FALSE,
         \A a \in Assets : acct.allow[a] = 0, NEW home, NEW gifts
  PROVE  /\ Flow(H) /\ Promised(H, home) /\ Closed(H) /\ Drawn(H)
         /\ (\A a \in Assets : acct.held[a] = 0) => Emptied(H, gifts)
         /\ \A h \in H : ~Running(h) /\ run[h] = Idle
<1>1. \A h \in H : run[h] = Idle
  OBVIOUS
<1>2. Flow(H)
  BY <1>1, IdleIs DEF Flow
<1>3. Idle.goal = {} /\ PendOf(Idle) = <<>> /\ Idle.pc = "idle"
  BY IdleIs DEF Idle
<1>4. Promised(H, home) /\ Drawn(H)
  BY <1>1, <1>3 DEF Promised, Drawn
<1>5. \A h \in H : Pends(H)[h] = <<>>
  BY <1>1, <1>3, <1>2, PendsAre
<1>6. \A R : Covered(H, R, Pends(H), 0)
  BY <1>5, CoveredStart
<1>7. Closed(H)
  BY <1>6 DEF Closed
<1>8. (\A a \in Assets : acct.held[a] = 0) => Emptied(H, gifts)
  BY <1>6 DEF Emptied
<1>9. \A h \in H : ~Running(h)
  BY <1>1, <1>3 DEF Running, Resting
<1> QED BY <1>1, <1>2, <1>4, <1>7, <1>8, <1>9

LEMMA RefuseFlows ==
  ASSUME NEW H, Flow(H), NEW x, net' = net \ {x}, UNCHANGED <<acct, run, torn>>
  PROVE  Flow(H)'
BY DEF Flow, Messages

LEMMA VictimMoves ==
  ASSUME NEW H, Flow(H), MoveVictim
  PROVE  /\ Flow(H)' /\ run' = run /\ torn' = torn /\ Worth(acct') = Worth(acct)
         /\ acct'.allow = acct.allow /\ acct'.held = acct.held /\ acct'.claimed = acct.claimed
         /\ acct'.base = acct.base /\ acct'.pda = acct.pda /\ acct'.ata = acct.ata /\ acct'.alt = acct.alt
<1>1. acct \in Accts
  BY DEF Flow
<1> DEFINE v == IF acct.victim = "under" THEN "healthy" ELSE "under"
<1>2. acct' = [acct EXCEPT !.victim = v] /\ v \in {"healthy", "under", "absorbed"}
  BY DEF MoveVictim
<1> HIDE DEF v
<1>3. /\ acct' \in Accts /\ acct'.wallet = acct.wallet /\ acct'.held = acct.held /\ acct'.base = acct.base
      /\ acct'.coll = acct.coll /\ acct'.allow = acct.allow /\ acct'.claimed = acct.claimed
      /\ acct'.pda = acct.pda /\ acct'.ata = acct.ata /\ acct'.alt = acct.alt
  BY <1>1, <1>2 DEF Accts
<1>4. run' = run /\ torn' = torn /\ net' = net
  BY DEF MoveVictim
<1>5. Worth(acct') = Worth(acct)
  BY <1>3 DEF Worth
<1>6. Flow(H)'
  BY <1>3, <1>4 DEF Flow, Messages
<1> QED BY <1>3, <1>4, <1>5, <1>6

(* At rest nothing is allowed, and nothing held.                           *)
LEMMA RestClosed ==
  ASSUME NEW H, Flow(H), IsFiniteSet(H), Closed(H), ~torn, \A h \in H : ~Running(h)
  PROVE  \A a \in Assets : acct.allow[a] = 0
<1>1. \A h \in H : Pends(H)[h] = <<>>
  BY RestsIs, PendsAre
<1> TAKE a \in Assets
<1>2. Covered(H, Owes(a), Pends(H), acct.allow[a])
  BY DEF Closed
<1>3. acct.allow[a] \in Nat
  BY DEF Flow, Accts, AmountPer
<1> QED BY <1>1, <1>2, <1>3, CoveredRest

LEMMA RestEmptied ==
  ASSUME NEW H, Flow(H), IsFiniteSet(H), NEW gifts, Emptied(H, gifts), ~torn, \A h \in H : ~Running(h)
  PROVE  \A a \in Assets : (gifts # {} /\ a # Base /\ acct.claimed) \/ acct.held[a] = 0
<1>1. \A h \in H : Pends(H)[h] = <<>>
  BY RestsIs, PendsAre
<1> TAKE a \in Assets
<1>2. ASSUME Covered(H, Holds(gifts, a), Pends(H), acct.held[a])
      PROVE  acct.held[a] = 0
  <2>1. acct.held[a] \in Nat
    BY DEF Flow, Accts, AmountPer
  <2> QED BY <1>1, <1>2, <2>1, CoveredRest
<1> QED BY <1>2 DEF Emptied

-----------------------------------------------------------------------------
(* The probe.                                                              *)
ProbeInv ==
  Flow(Handlers) /\ Promised(Handlers, {}) /\ Closed(Handlers) /\ \A h \in Handlers : Activating(h)
ProbeKeeps == \A h \in Handlers : AsPromised(h) /\ ActivatesAll(h)

LEMMA ProbeStart == ASSUME Init PROVE ProbeInv
<1>1. /\ acct \in Accts /\ net = {} /\ run = [h \in Handlers |-> Idle] /\ torn = FALSE
      /\ \A a \in Assets : acct.allow[a] = 0
  BY StartsAssumption DEF Init, FlowInit
<1>2. /\ Flow(Handlers) /\ Promised(Handlers, {}) /\ Closed(Handlers)
      /\ \A h \in Handlers : run[h] = Idle
  BY <1>1, HandlersAssumption, StartKeeps
<1>3. \A h \in Handlers : run[h].op # "activate"
  BY <1>2 DEF Idle
<1> QED BY <1>2, <1>3 DEF ProbeInv, Activating

LEMMA NoEndKeeps ==
  ASSUME \A h \in Handlers : ~Ends(h)
  PROVE  ProbeKeeps
BY DEF ProbeKeeps, AsPromised, ActivatesAll

LEMMA ProbeGoes ==
  ASSUME ProbeInv, NEW h \in Handlers, Goes1(Handlers, h), Flow(Handlers)'
  PROVE  ProbeInv' /\ ProbeKeeps
<1>0. IsFiniteSet(Handlers)
  BY HandlersAssumption
<1>1. Promised(Handlers, {})' /\ Closed(Handlers)'
  BY <1>0, GoesKeeps DEF ProbeInv
<1>2. \A g \in Handlers : Activating(g)'
  BY GoesActivating DEF ProbeInv
<1>3. \A g \in Handlers : AsPromised(g)
  BY EndsGoes DEF ProbeInv
<1>4. ActivatesAll(h)
  BY EndsActivated DEF ProbeInv
<1>5. ASSUME NEW g \in Handlers, g # h PROVE ActivatesAll(g)
  <2>1. run'[g] = run[g]
    BY <1>5, Repend DEF Goes1, ProbeInv
  <2> QED BY <2>1 DEF ActivatesAll, Ends, Running, Resting
<1>6. ProbeInv'
  BY <1>1, <1>2 DEF ProbeInv
<1> QED BY <1>3, <1>4, <1>5, <1>6 DEF ProbeKeeps

LEMMA ProbeStill ==
  ASSUME ProbeInv, Flow(Handlers)', run' = run, torn' = torn,
         Worth(acct') = Worth(acct), acct'.allow = acct.allow, acct'.held = acct.held,
         acct'.claimed = acct.claimed, acct'.base = acct.base,
         acct'.pda = acct.pda, acct'.ata = acct.ata, acct'.alt = acct.alt
  PROVE  ProbeInv' /\ ProbeKeeps
<1>1. Promised(Handlers, {})' /\ Closed(Handlers)'
  BY StillKeeps DEF ProbeInv
<1>2. \A l \in Needs : Present(l) => Present(l)'
  <2> TAKE l \in Needs
  <2>1. l.do \in {"pda", "ata", "alt"}
    BY NeedsIs
  <2>2. CASE l.do = "pda"
    BY <2>2 DEF Present
  <2>3. CASE l.do = "ata"
    BY <2>3 DEF Present
  <2>4. CASE l.do = "alt"
    BY <2>4 DEF Present
  <2> QED BY <2>1, <2>2, <2>3, <2>4
<1>3. \A g \in Handlers : Activating(g)'
  BY <1>2, ActivatingNext DEF ProbeInv
<1>4. \A g \in Handlers : ~Ends(g)
  BY EndsStill
<1> QED BY <1>1, <1>3, <1>4, NoEndKeeps DEF ProbeInv

LEMMA ProbeChain ==
  ASSUME ProbeInv, ChainStep
  PROVE  ProbeInv' /\ ProbeKeeps
<1>0. Flow(Handlers) /\ IsFiniteSet(Handlers)
  BY HandlersAssumption DEF ProbeInv
<1>1. CASE MoveVictim
  BY <1>0, <1>1, VictimMoves, ProbeStill
<1>2. ASSUME NEW x \in net, Land(x) PROVE ProbeInv' /\ ProbeKeeps
  <2>1. LandOn(Handlers, x)
    BY <1>0, <1>2, ProbeLand
  <2>2. Flow(Handlers)' /\ Promised(Handlers, {})' /\ Closed(Handlers)'
    BY <1>0, <2>1, LandKeeps DEF ProbeInv
  <2>3. \A g \in Handlers : Activating(g)'
    BY <1>0, <2>1, LandActivating DEF ProbeInv
  <2>4. \A g \in Handlers : ~Ends(g)
    BY <1>0, <2>1, EndsLand
  <2> QED BY <2>2, <2>3, <2>4, NoEndKeeps DEF ProbeInv
<1>3. ASSUME NEW x \in net, Refuse(x) PROVE ProbeInv' /\ ProbeKeeps
  <2>1. Flow(Handlers)' /\ run' = run /\ torn' = torn /\ acct' = acct
    BY <1>0, <1>3, RefuseFlows DEF Refuse
  <2> QED BY <2>1, ProbeStill
<1> QED BY <1>1, <1>2, <1>3 DEF ChainStep

LEMMA ProbeFail ==
  ASSUME ProbeInv, NEW h \in Handlers, Fail(h)
  PROVE  ProbeInv' /\ ProbeKeeps
<1>0. Flow(Handlers) /\ IsFiniteSet(Handlers)
  BY HandlersAssumption DEF ProbeInv
<1>1. Flow(Handlers)' /\ torn' = TRUE /\ acct' = acct /\ run' = [run EXCEPT ![h] = Idle]
  BY <1>0, FailFlows
<1>2. Promised(Handlers, {})' /\ Closed(Handlers)'
  BY <1>0, FailKeeps DEF ProbeInv
<1>3. run'[h] = Idle /\ run'[h].pc = "idle" /\ run' = [run EXCEPT ![h] = run'[h]]
  BY <1>0, <1>1, IdlePc
<1>4. \A g \in Handlers : ~Ends(g)
  BY <1>0, <1>3, EndsBecome
<1>5. \A l \in Needs : Present(l) => Present(l)'
  BY <1>1, PresentKept
<1>6. \A g \in Handlers : Activating(g)'
  <2>1. Activating(h)'
    BY <1>3 DEF Activating, Idle
  <2>2. ASSUME NEW g \in Handlers, g # h PROVE Activating(g)'
    <3>1. run'[g] = run[g]
      BY <1>0, <1>3, <2>2, Repend
    <3> QED BY <1>5, <3>1, ActivatingNext DEF ProbeInv
  <2> QED BY <2>1, <2>2
<1> QED BY <1>1, <1>2, <1>4, <1>6, NoEndKeeps DEF ProbeInv

LEMMA ProbeAnew ==
  ASSUME ProbeInv, NEW h \in Handlers, Anew(h, {}, ProbeOps), Clear(h)
  PROVE  ProbeInv' /\ ProbeKeeps
<1>0. Flow(Handlers) /\ IsFiniteSet(Handlers)
  BY HandlersAssumption DEF ProbeInv
<1>1. CASE Decline(h)
  <2>1. /\ Flow(Handlers)' /\ run' = [run EXCEPT ![h] = Idle] /\ acct' = acct /\ torn' = torn
        /\ Promised(Handlers, {})' /\ Closed(Handlers)'
    BY <1>0, <1>1, DeclineKeeps DEF ProbeInv
  <2>2. run'[h] = Idle /\ run'[h].pc = "idle" /\ run' = [run EXCEPT ![h] = run'[h]]
    BY <1>0, <2>1, IdlePc
  <2>3. \A g \in Handlers : ~Ends(g)
    BY <1>0, <2>2, EndsBecome
  <2>4. run'[h].op # "activate"
    BY <2>2 DEF Idle
  <2>5. \A g \in Handlers : Activating(g)'
    BY <1>0, <2>1, <2>2, <2>4, AnewActivating DEF ProbeInv, Ready
  <2> QED BY <2>1, <2>3, <2>5, NoEndKeeps DEF ProbeInv
<1>2. ASSUME NEW op \in ProbeOps, NEW P, NEW goal, Plan(h, {}, op, P, goal), op = "activate" => P = Activation
      PROVE  ProbeInv' /\ ProbeKeeps
  <2>1. /\ Flow(Handlers)' /\ torn' = torn /\ acct' = acct /\ run' = [run EXCEPT ![h] = run'[h]]
        /\ run'[h].pc = "next" /\ run'[h].op = op /\ PendOf(run'[h]) = P
        /\ Promised(Handlers, {})' /\ Closed(Handlers)'
    BY <1>0, <1>2, BeginKeeps DEF ProbeInv
  <2>2. \A g \in Handlers : ~Ends(g)
    BY <1>0, <2>1, EndsBecome
  <2>3. \A g \in Handlers : Activating(g)'
    BY <1>0, <1>2, <2>1, AnewActivating DEF ProbeInv, Ready
  <2> QED BY <2>1, <2>2, <2>3, NoEndKeeps DEF ProbeInv
<1> QED BY <1>1, <1>2 DEF Anew

LEMMA ProbeNext ==
  ASSUME ProbeInv, Next
  PROVE  ProbeInv' /\ ProbeKeeps
<1>0. Flow(Handlers)
  BY DEF ProbeInv
<1>1. ASSUME NEW h \in Handlers, Click(h) \/ LookBuy(h) PROVE ProbeInv' /\ ProbeKeeps
  BY <1>0, <1>1, ProbeClicks, ProbeAnew
<1>2. ASSUME NEW h \in Handlers, HandlerStep(h, "exit") PROVE ProbeInv' /\ ProbeKeeps
  <2>1. CASE Skip(h)
    BY <1>0, <2>1, SkipGoes, ProbeGoes
  <2>2. CASE Ask(h)
    BY <1>0, <2>2, ProbeAsk, AskGoes, ProbeGoes
  <2>3. CASE Sign(h)
    BY <1>0, <2>3, ProbeSign, SignGoes, ProbeGoes
  <2>4. CASE Confirm(h, "exit")
    BY <1>0, <2>4, ProbeConfirm, ConfirmGoes, ProbeGoes
  <2>5. CASE Fail(h)
    BY <2>5, ProbeFail
  <2> QED BY <1>2, <2>1, <2>2, <2>3, <2>4, <2>5 DEF HandlerStep
<1> QED BY <1>1, <1>2, ProbeChain DEF Next

(* The types that the pages state.                                         *)
LEMMA TypesHere ==
  ASSUME NEW H, Flow(H)
  PROVE  /\ acct \in Accts
         /\ \A x \in net : x.by \in H /\ x.ahead \in -2 .. 1 /\ x.legs \in Seq(Legs)
         /\ \A h \in H :
              /\ run[h].pc \in {"next", "popup", "sent"} \cup Resting
              /\ run[h].todo \in Seq(Seq(Legs)) /\ run[h].ahead \in -2 .. Unread
              /\ run[h].used \in 0 .. 1 /\ run[h].landed \in BOOLEAN
              /\ \A v, w \in run[h].goal : v = w
         /\ torn \in BOOLEAN
<1>1. Deeds \subseteq Legs
  BY DEF Deeds, Legs, Acts, Kinds, Native
<1>2. Seq(Deeds) \subseteq Seq(Legs)
  BY <1>1
<1>3. \A t \in Txs : t \in Seq(Legs)
  BY <1>2, TxIs
<1>4. Plans \subseteq Seq(Seq(Legs))
  BY <1>3 DEF Plans
<1>5. \A x \in net : x.by \in H /\ x.ahead \in -2 .. 1 /\ x.legs \in Seq(Legs)
  BY <1>3 DEF Flow, Messages
<1> HIDE DEF Plans
<1>6. ASSUME NEW h \in H
      PROVE  /\ run[h].pc \in {"next", "popup", "sent"} \cup Resting
             /\ run[h].todo \in Seq(Seq(Legs)) /\ run[h].ahead \in -2 .. Unread
             /\ run[h].used \in 0 .. 1 /\ run[h].landed \in BOOLEAN
             /\ \A v, w \in run[h].goal : v = w
  <2>1. run[h] \in Runs /\ Sound(run[h])
    BY DEF Flow
  <2>2. run[h].todo \in Plans
    BY <2>1 DEF Runs
  <2>3. run[h].todo \in Seq(Seq(Legs))
    BY <1>4, <2>2
  <2>4. run[h].pc \in {"next", "popup", "sent"} \cup Resting /\ run[h].landed \in BOOLEAN
    BY <2>1 DEF Runs, Resting
  <2>5. run[h].ahead \in -2 .. Unread /\ run[h].used \in 0 .. 1
    BY <2>1 DEF Runs, Unread
  <2>6. \A v, w \in run[h].goal : v = w
    BY <2>1 DEF Sound
  <2> QED BY <2>3, <2>4, <2>5, <2>6
<1> QED BY <1>5, <1>6 DEF Flow

LEMMA ProbeTypes ==
  ASSUME ProbeInv
  PROVE  FlowTypeOK /\ CleanLeavesNoAllowance
<1>1. Flow(Handlers) /\ Closed(Handlers) /\ IsFiniteSet(Handlers)
  BY HandlersAssumption DEF ProbeInv
<1>2. FlowTypeOK
  BY <1>1, TypesHere DEF FlowTypeOK
<1>3. CleanLeavesNoAllowance
  BY <1>1, RestClosed DEF CleanLeavesNoAllowance
<1> QED BY <1>2, <1>3

LEMMA HarnessTypes ==
  ASSUME Flow(TwoHandlers)
  PROVE  Harness!FlowTypeOK
<1>1. Harness!Accts = Accts
  BY DEF Harness!Accts, Accts, Harness!AmountPer, AmountPer, Harness!Assets, Assets
<1>2. Harness!Legs = Legs
  BY DEF Harness!Legs, Legs, Harness!Kinds, Kinds, Harness!Native, Native, Harness!Assets, Assets
<1>3. Harness!Resting = Resting /\ Harness!Unread = Unread
  BY HarnessIdle
<1> QED BY <1>1, <1>2, <1>3, TypesHere DEF Harness!FlowTypeOK

LEMMA DriverTypes ==
  ASSUME Flow(Handlers)
  PROVE  Driver!FlowTypeOK
<1>1. Driver!Accts = Accts
  BY DEF Driver!Accts, Accts, Driver!AmountPer, AmountPer, Driver!Assets, Assets
<1>2. Driver!Legs = Legs
  BY DEF Driver!Legs, Legs, Driver!Kinds, Kinds, Driver!Native, Native, Driver!Assets, Assets
<1>3. Driver!Resting = Resting /\ Driver!Unread = Unread
  BY DriverIdle
<1> QED BY <1>1, <1>2, <1>3, TypesHere DEF Driver!FlowTypeOK

-----------------------------------------------------------------------------
(* The plans of the harness and of the driver: what moves, what is allowed and *)
(* what is held.                                                           *)
Piece(gifts, P, b, o, k, c, p, q) ==
  Leads({"look"}, P, b, o, c, p) /\ Sends(P) /\ Holding(gifts, P, k, q)

LEMMA PieceCat ==
  ASSUME NEW gifts, NEW P, NEW Q, NEW b, NEW o, NEW k, NEW c, NEW p, NEW q, NEW d, NEW r, NEW s,
         Piece(gifts, P, b, o, k, c, p, q), Piece(gifts, Q, c, p, q, d, r, s)
  PROVE  Piece(gifts, P \o Q, b, o, k, d, r, s)
<1>1. Leads({"look"}, P \o Q, b, o, d, r)
  BY LeadsCat DEF Piece
<1>2. Sends(P \o Q)
  BY SendsCat DEF Piece
<1>3. Holding(gifts, P \o Q, k, s)
  BY HoldingCat DEF Piece
<1> QED BY <1>1, <1>2, <1>3 DEF Piece

LEMMA NoPiece ==
  ASSUME NEW gifts, NEW b \in Books, NEW o \in Bounds, NEW k \in Bounds
  PROVE  Piece(gifts, <<>>, b, o, k, b, o, k)
<1>1. Worth(b) \in Worths
  BY WorthType
<1>2. Along(Worths, Moves({"look"}), <<>>, Worth(b), Worth(b))
  BY <1>1, AlongNil
<1>3. \A a \in Assets : Along(Nat, Owes(a), <<>>, o[a], o[a]) /\ Along(Nat, Holds(gifts, a), <<>>, k[a], k[a])
  <2> TAKE a \in Assets
  <2>1. o[a] \in Nat /\ k[a] \in Nat
    BY DEF Bounds
  <2> QED BY <2>1, AlongNil
<1>4. <<>> \in Plans /\ Len(<<>>) = 0
  BY DEF Plans
<1> QED BY <1>2, <1>3, <1>4 DEF Piece, Leads, Holding, Sends

LEMMA StillPiece ==
  ASSUME NEW gifts \in SUBSET {"claim"}, NEW l \in Deeds, l.do \in Stills, NEW b \in Books, NEW o \in Bounds, NEW k \in Bounds
  PROVE  Piece(gifts, <<<<l>>>>, b, o, k, b, o, k)
BY StillLeads, StillHolding DEF Piece

LEMMA AltPiece ==
  ASSUME NEW gifts \in SUBSET {"claim"}, NEW b \in Books, NEW o \in Bounds, NEW k \in Bounds
  PROVE  Piece(gifts, <<Alt>>, b, o, k, b, o, k)
<1> DEFINE l == Leg("alt", Base, 0)
<1>1. l \in Deeds /\ l.do = "alt"
  BY LegOf DEF Acts, Assets
<1> QED BY <1>1, StillPiece DEF Alt, Stills

LEMMA FundPiece ==
  ASSUME NEW gifts \in SUBSET {"claim"}, NEW a \in Assets, NEW n \in Nat, NEW b \in Books
  PROVE  /\ Piece(gifts, <<<<Leg("nativeAta", a, 0), Leg("fund", a, n)>>>>, b, Nil, Nil,
                  Does(Leg("fund", a, n), b), Nil, Only(a, n))
         /\ Does(Leg("fund", a, n), b) \in Books
<1> DEFINE l == Leg("nativeAta", a, 0)
           m == Leg("fund", a, n)
<1>1. l \in Deeds /\ l.do = "nativeAta" /\ m \in Deeds /\ m.do = "fund" /\ m.asset = a /\ m.n = n
  BY LegOf DEF Acts
<1> HIDE DEF l, m
<1>2. l \in Firsts /\ m \in Seconds
  BY <1>1 DEF Firsts, Seconds
<1>3. Nil \in Bounds
  BY OnlyIs
<1>4. /\ Leads({"look"}, <<<<l, m>>>>, b, Nil, Does(m, b), Nil) /\ Sends(<<<<l, m>>>>)
      /\ Does(m, b) \in Books
  BY <1>1, <1>2, <1>3, PairMoves DEF Movers
<1>5. Holding(gifts, <<<<l, m>>>>, Nil, Only(a, n))
  BY <1>1, <1>2, PairFunds
<1>6. Piece(gifts, <<<<l, m>>>>, b, Nil, Nil, Does(m, b), Nil, Only(a, n)) /\ Does(m, b) \in Books
  BY <1>4, <1>5 DEF Piece
<1> QED BY <1>6 DEF l, m

LEMMA ApprovePiece ==
  ASSUME NEW gifts \in SUBSET {"claim"}, NEW a \in Assets, NEW n \in Nat, NEW b \in Books, NEW k \in Bounds
  PROVE  Piece(gifts, <<<<Leg("approve", a, n)>>>>, b, Nil, k, b, Only(a, n), k)
<1> DEFINE l == Leg("approve", a, n)
<1>1. l \in Deeds /\ l.do = "approve" /\ l.asset = a /\ l.n = n
  BY LegOf DEF Acts
<1> HIDE DEF l
<1>2. Leads({"look"}, <<<<l>>>>, b, Nil, b, Only(a, n)) /\ Sends(<<<<l>>>>)
  BY <1>1, GrantLeads
<1>3. Holding(gifts, <<<<l>>>>, k, k)
  BY <1>1, StillHolding
<1>4. Piece(gifts, <<<<l>>>>, b, Nil, k, b, Only(a, n), k)
  BY <1>2, <1>3 DEF Piece
<1> QED BY <1>4 DEF l

LEMMA SupplyPiece ==
  ASSUME NEW gifts \in SUBSET {"claim"}, NEW a \in Assets, NEW n \in Nat, NEW b \in Books,
         NEW o \in {Nil, Only(a, n)}, NEW k \in {Nil, Only(a, n)}
  PROVE  /\ Piece(gifts, <<<<Leg("supply", a, n)>>>>, b, o, k, Supplied(Leg("supply", a, n), b), Nil, Nil)
         /\ Supplied(Leg("supply", a, n), b) \in Books
<1> DEFINE l == Leg("supply", a, n)
<1>1. l \in Deeds /\ l.do = "supply" /\ l.asset = a /\ l.n = n
  BY LegOf DEF Acts
<1>0. Supplied(l, b) = Does(l, b)
  BY SupplyDoes
<1> HIDE DEF l
<1>2. Leads({"look"}, <<<<l>>>>, b, o, Does(l, b), Nil) /\ Sends(<<<<l>>>>) /\ Does(l, b) \in Books
  BY <1>1, SpendLeads
<1>3. Holding(gifts, <<<<l>>>>, k, Nil)
  BY <1>1, OutHolding
<1>4. Piece(gifts, <<<<l>>>>, b, o, k, Does(l, b), Nil, Nil)
  BY <1>2, <1>3 DEF Piece
<1> QED BY <1>0, <1>2, <1>4 DEF l

LEMMA WithdrawPiece ==
  ASSUME NEW gifts \in SUBSET {"claim"}, NEW a \in Assets, NEW n \in Nat, NEW b \in Books
  PROVE  /\ Piece(gifts, <<<<Leg("withdraw", a, n)>>>>, b, Nil, Nil, Withdrawn(Leg("withdraw", a, n), b), Nil, Only(a, n))
         /\ Withdrawn(Leg("withdraw", a, n), b) \in Books
<1> DEFINE l == Leg("withdraw", a, n)
<1>1. l \in Deeds /\ l.do = "withdraw" /\ l.asset = a /\ l.n = n
  BY LegOf DEF Acts
<1>0. Withdrawn(l, b) = Does(l, b)
  BY SupplyDoes
<1> HIDE DEF l
<1>5. Nil \in Bounds
  BY OnlyIs
<1>2. Leads({"look"}, <<<<l>>>>, b, Nil, Does(l, b), Nil) /\ Sends(<<<<l>>>>) /\ Does(l, b) \in Books
  BY <1>1, <1>5, MoveLeads DEF Movers
<1>3. Holding(gifts, <<<<l>>>>, Nil, Only(a, n))
  BY <1>1, InHolding
<1>4. Piece(gifts, <<<<l>>>>, b, Nil, Nil, Does(l, b), Nil, Only(a, n))
  BY <1>2, <1>3 DEF Piece
<1> QED BY <1>0, <1>2, <1>4 DEF l

(* Home, after an account in the wallet was made, in two transactions or one. *)
LEMMA HomePiece ==
  ASSUME NEW gifts \in SUBSET {"claim"}, NEW a \in Assets, NEW n \in Nat, NEW b \in Books, NEW k \in {Nil, Only(a, n)}
  PROVE  /\ Piece(gifts, <<<<Leg("walletAta", a, 0)>>, <<Leg("return", a, n)>>>>, b, Nil, k,
                  Does(Leg("return", a, n), b), Nil, Nil)
         /\ Piece(gifts, <<<<Leg("homeAta", a, 0), Leg("return", a, n)>>>>, b, Nil, k,
                  Does(Leg("return", a, n), b), Nil, Nil)
         /\ Does(Leg("return", a, n), b) \in Books
<1> DEFINE l == Leg("walletAta", a, 0)
           j == Leg("homeAta", a, 0)
           m == Leg("return", a, n)
<1>1. /\ l \in Deeds /\ l.do = "walletAta" /\ j \in Deeds /\ j.do = "homeAta"
      /\ m \in Deeds /\ m.do = "return" /\ m.asset = a /\ m.n = n
  BY LegOf DEF Acts
<1> HIDE DEF l, m, j
<1>2. j \in Firsts /\ m \in Seconds
  BY <1>1 DEF Firsts, Seconds
<1>3. Nil \in Bounds /\ k \in Bounds
  BY OnlyIs
<1>4. /\ Leads({"look"}, <<<<j, m>>>>, b, Nil, Does(m, b), Nil) /\ Sends(<<<<j, m>>>>)
      /\ Does(m, b) \in Books
  BY <1>1, <1>2, <1>3, PairMoves DEF Movers
<1>5. Holding(gifts, <<<<j, m>>>>, k, Nil)
  BY <1>1, <1>2, PairReturns
<1>6. Piece(gifts, <<<<j, m>>>>, b, Nil, k, Does(m, b), Nil, Nil)
  BY <1>4, <1>5 DEF Piece
<1>7. Piece(gifts, <<<<l>>>>, b, Nil, k, b, Nil, k)
  BY <1>1, <1>3, StillPiece DEF Stills
<1>8. Leads({"look"}, <<<<m>>>>, b, Nil, Does(m, b), Nil) /\ Sends(<<<<m>>>>)
  BY <1>1, <1>3, MoveLeads DEF Movers
<1>9. Holding(gifts, <<<<m>>>>, k, Nil)
  BY <1>1, OutHolding
<1>10. Piece(gifts, <<<<m>>>>, b, Nil, k, Does(m, b), Nil, Nil)
  BY <1>8, <1>9 DEF Piece
<1>11. Piece(gifts, <<<<l>>>> \o <<<<m>>>>, b, Nil, k, Does(m, b), Nil, Nil)
  BY <1>7, <1>10, PieceCat
<1>12. <<<<l>>, <<m>>>> = <<<<l>>>> \o <<<<m>>>>
  BY TwoCat
<1> QED BY <1>4, <1>6, <1>11, <1>12 DEF l, m, j

LEMMA AirdropPiece ==
  ASSUME NEW gifts \in SUBSET {"claim"}, NEW a \in Assets, NEW b \in Books
  PROVE  Piece(gifts, <<<<Leg("airdrop", a, 1)>>>>, b, Nil, Nil, Does(Leg("airdrop", a, 1), b), Nil, Nil)
<1> DEFINE l == Leg("airdrop", a, 1)
<1>1. l \in Deeds /\ l.do = "airdrop"
  BY LegOf DEF Acts
<1> HIDE DEF l
<1>5. Nil \in Bounds
  BY OnlyIs
<1>2. Leads({"look"}, <<<<l>>>>, b, Nil, Does(l, b), Nil) /\ Sends(<<<<l>>>>)
  BY <1>1, <1>5, MoveLeads DEF Movers
<1>3. Holding(gifts, <<<<l>>>>, Nil, Nil)
  BY <1>1, <1>5, StillHolding
<1> QED BY <1>2, <1>3 DEF Piece, l

LEMMA BuyPiece ==
  ASSUME NEW gifts \in SUBSET {"claim"}, NEW c \in Colls, NEW n \in Nat, NEW b \in Books, NEW o \in {Nil, Only(Base, n)}
  PROVE  /\ Piece(gifts, <<<<Leg("buy", c, n)>>>>, b, o, Only(Base, n), Does(Leg("buy", c, n), b), Nil, Only(c, n))
         /\ Does(Leg("buy", c, n), b) \in Books
<1> DEFINE l == Leg("buy", c, n)
<1>1. l \in Deeds /\ l.do = "buy" /\ l.asset = c /\ l.n = n
  BY LegColl
<1> HIDE DEF l
<1>2. Leads({"look"}, <<<<l>>>>, b, o, Does(l, b), Nil) /\ Sends(<<<<l>>>>) /\ Does(l, b) \in Books
  BY <1>1, SpendLeads
<1>3. Holding(gifts, <<<<l>>>>, Only(Base, n), Only(c, n))
  BY <1>1, BuyHolding
<1> QED BY <1>2, <1>3 DEF Piece, l

(* All that the synthetic holds goes home (LookBought).                    *)
Homed(a, s) == Does(Leg("return", a, s.held[a]), s)

LEMMA HomedIs ==
  ASSUME NEW a \in Colls, NEW l \in Deeds, l.do = "look", l.asset = a, NEW b \in Books
  PROVE  Homed(a, b) \in Books /\ Worth(Homed(a, b)) = Moved({"look"}, l, Worth(b))
<1> DEFINE w == [b.wallet EXCEPT ![a] = @ + b.held[a]]
           v == [b.held EXCEPT ![a] = 0]
<1>1. b.wallet \in [Assets -> Int] /\ b.held \in [Assets -> Int] /\ a \in Assets
  BY DEF Books, Ledger, Assets
<1>2. [b.held EXCEPT ![a] = @ - b.held[a]] = v
  BY <1>1
<1>3. w \in [Assets -> Int] /\ v \in [Assets -> Int]
  BY <1>1
<1>4. Homed(a, b) = [b EXCEPT !.held = v, !.wallet = w]
  <2>1. Homed(a, b) = [b EXCEPT !.held[a] = @ - b.held[a], !.wallet[a] = @ + b.held[a]]
    BY DEF Homed, Does, Leg
  <2> QED BY <1>2, <2>1
<1> HIDE DEF w, v
<1>5. Homed(a, b) \in Books /\ Homed(a, b).held = v /\ Homed(a, b).wallet = w /\ Homed(a, b).base = b.base /\ Homed(a, b).coll = b.coll
  BY <1>3, <1>4 DEF Books, Ledger
<1>6. Moved({"look"}, l, Worth(b)) = Amounts(w, v, b.base, b.coll)
  <2>1. Worth(b).wallet = b.wallet /\ Worth(b).held = b.held /\ Worth(b).base = b.base /\ Worth(b).coll = b.coll
    BY DEF Worth
  <2>2. Moved({"look"}, l, Worth(b)) =
          Amounts([Worth(b).wallet EXCEPT ![l.asset] = @ + Worth(b).held[l.asset]],
                  [Worth(b).held EXCEPT ![l.asset] = 0], Worth(b).base, Worth(b).coll)
    BY DEF Moved
  <2> QED BY <2>1, <2>2 DEF w, v
<1> QED BY <1>5, <1>6 DEF Worth, Amounts

LEMMA LookLeads ==
  ASSUME NEW a \in Colls, NEW n \in Nat, NEW b \in Books
  PROVE  /\ Leads({"look"}, <<<<Leg("look", a, 0)>>>>, b, Nil, Homed(a, b), Nil)
         /\ Holding({}, <<<<Leg("look", a, 0)>>>>, Only(a, n), Nil)
         /\ Homed(a, b) \in Books /\ <<Leg("look", a, 0)>> \in Txs
<1> DEFINE l == Leg("look", a, 0)
<1>1. l \in Deeds /\ l.do = "look" /\ l.asset = a
  BY LegColl
<1> HIDE DEF l
<1>2. Homed(a, b) \in Books /\ Worth(Homed(a, b)) = Moved({"look"}, l, Worth(b))
  BY <1>1, HomedIs
<1>3. Nil \in Bounds
  BY OnlyIs
<1>4. \A x \in Assets : <<l, Nil[x], Nil[x]>> \in Owes(x)
  BY <1>1, <1>3, StillOwes
<1>5. Leads({"look"}, <<<<l>>>>, b, Nil, Homed(a, b), Nil)
  BY <1>1, <1>2, <1>3, <1>4, LegLeads
<1>6. Holding({}, <<<<l>>>>, Only(a, n), Nil)
  BY <1>1, LookHolding
<1>7. <<l>> \in Txs
  BY <1>1, TxOne
<1> QED BY <1>2, <1>5, <1>6, <1>7 DEF l

-----------------------------------------------------------------------------
(* The harness's plans.                                                    *)
HarnessOps == {"activate", "airdrop", "supply", "withdraw", "borrow", "absorb", "buy", "sweep", "finish"}
HarnessAnew(h) ==
  /\ \/ Decline(h) /\ busy' = busy
     \/ /\ \E op \in HarnessOps : \E P, goal : Plan(h, {"look"}, op, P, goal) /\ Holding({}, P, Nil, Nil)
        /\ busy' = TRUE
  /\ UNCHANGED <<loading, stranded, reconnects>>

LEMMA HarnessParts ==
  ASSUME NEW a, NEW n
  PROVE  /\ Harness!FundTx(a, n) = <<Leg("nativeAta", a, 0), Leg("fund", a, n)>>
         /\ Harness!ApproveIfShort(a, n) \in {<<>>, <<<<Leg("approve", a, n)>>>>}
         /\ Harness!Home(a, n) = <<<<Leg("walletAta", a, 0)>>, <<Leg("return", a, n)>>>>
         /\ Harness!Alt = Alt
         /\ Harness!Assets = Assets
         /\ \A l : Harness!Heavy(l) \in {<<>>, <<Alt>>}
<1>1. Harness!Alt = Alt
  BY HarnessLeg DEF Harness!Alt, Alt
<1>2. Harness!FundTx(a, n) = <<Leg("nativeAta", a, 0), Leg("fund", a, n)>>
  BY HarnessLeg DEF Harness!FundTx
<1>3. Harness!ApproveIfShort(a, n) \in {<<>>, <<<<Leg("approve", a, n)>>>>}
  BY HarnessLeg DEF Harness!ApproveIfShort
<1>4. Harness!Home(a, n) = <<<<Leg("walletAta", a, 0)>>, <<Leg("return", a, n)>>>>
  BY HarnessLeg DEF Harness!Home
<1>5. \A l : Harness!Heavy(l) \in {<<>>, <<Alt>>}
  BY <1>1 DEF Harness!Heavy
<1>6. Harness!Assets = Assets
  BY DEF Harness!Assets, Assets
<1> QED BY <1>1, <1>2, <1>3, <1>4, <1>5, <1>6

LEMMA HarnessPosition ==
  ASSUME Flow(TwoHandlers), NEW a \in Assets
  PROVE  Harness!Position(a) \in Nat
<1>1. Harness!Position(a) = Position(a)
  BY DEF Harness!Position, Position
<1> QED BY <1>1, PositionIs

(* A plan begins or does not.                                              *)
LEMMA StartAnew ==
  ASSUME NEW h, NEW op \in HarnessOps, NEW P, NEW goal, Harness!Start(h, op, P, goal),
         Piece({}, P, acct, Nil, Nil, goal, Nil, Nil), P # <<>>
  PROVE  HarnessAnew(h)
<1>1. busy' = TRUE /\ Begin(h, op, P, goal) /\ UNCHANGED <<loading, stranded, reconnects>>
  BY HarnessBegin DEF Harness!Start, Harness!pageVars
<1>2. op \in Ops \ {"none", "exit"}
  BY DEF HarnessOps, Ops
<1>3. Plan(h, {"look"}, op, P, goal)
  BY <1>1, <1>2, StartPlan DEF Piece
<1> QED BY <1>1, <1>3 DEF Piece, HarnessAnew

LEMMA AbortAnew ==
  ASSUME NEW h, Harness!Abort(h)
  PROVE  HarnessAnew(h)
BY HarnessDecline DEF Harness!Abort, Harness!pageVars, HarnessAnew

LEMMA ShortPiece ==
  ASSUME NEW gifts \in SUBSET {"claim"}, NEW a \in Assets, NEW n \in Nat, NEW b \in Books, NEW k \in Bounds,
         NEW P \in {<<>>, <<<<Leg("approve", a, n)>>>>}
  PROVE  Piece(gifts, P, b, Nil, k, b, Nil, k) \/ Piece(gifts, P, b, Nil, k, b, Only(a, n), k)
<1>1. Nil \in Bounds
  BY OnlyIs
<1>2. CASE P = <<>>
  BY <1>1, <1>2, NoPiece
<1>3. CASE P = <<<<Leg("approve", a, n)>>>>
  BY <1>3, ApprovePiece
<1> QED BY <1>2, <1>3

(* A piece that ends in one transaction has one.                           *)
LEMMA CatNotNil ==
  ASSUME NEW P \in Plans, NEW t \in Txs
  PROVE  P \o <<t>> # <<>> /\ <<t>> \o P # <<>>
<1>1. <<t>> \in Plans /\ <<t>> # <<>>
  BY PlanOne
<1> QED BY <1>1, PlanCat

LEMMA HarnessSupply ==
  ASSUME Flow(TwoHandlers), NEW h, NEW a \in Assets, Harness!DoSupply(h, a)
  PROVE  HarnessAnew(h)
<1> DEFINE n == Amount[a]
           fund == <<<<Leg("nativeAta", a, 0), Leg("fund", a, n)>>>>
           short == Harness!ApproveIfShort(a, n)
           last == <<<<Leg("supply", a, n)>>>>
           d == Does(Leg("fund", a, n), acct)
           goal == Supplied(Leg("supply", a, n), d)
<1>0. n \in Nat /\ acct \in Books
  BY AmountsAssumption, BooksHere DEF Flow
<1>1. Harness!Start(h, "supply", fund \o short \o last, goal)
  <2>1. Harness!Start(h, "supply", <<Harness!FundTx(a, n)>> \o short \o <<<<Harness!Leg("supply", a, n)>>>>,
                      Harness!Supplied(Harness!Leg("supply", a, n), Harness!Does(Harness!Leg("fund", a, n), acct)))
    BY DEF Harness!DoSupply
  <2>2. Harness!Leg("supply", a, n) = Leg("supply", a, n) /\ Harness!Leg("fund", a, n) = Leg("fund", a, n)
    BY HarnessLeg
  <2>3. Harness!Does(Leg("fund", a, n), acct) = d
    <3>1. Leg("fund", a, n).do \in Acts
      BY DEF Leg, Acts
    <3> QED BY <3>1, HarnessDoes
  <2>4. Harness!FundTx(a, n) = <<Leg("nativeAta", a, 0), Leg("fund", a, n)>>
    BY HarnessParts
  <2> QED BY <2>1, <2>2, <2>3, <2>4, HarnessSupplied
<1>2. Piece({}, fund, acct, Nil, Nil, d, Nil, Only(a, n)) /\ d \in Books
  BY <1>0, FundPiece
<1>3. Only(a, n) \in Bounds
  BY <1>0, OnlyIs
<1>4. short \in {<<>>, <<<<Leg("approve", a, n)>>>>}
  BY HarnessParts
<1> HIDE DEF d, fund, short, n
<1>10. \/ Piece({}, short, d, Nil, Only(a, n), d, Nil, Only(a, n))
       \/ Piece({}, short, d, Nil, Only(a, n), d, Only(a, n), Only(a, n))
  BY <1>0, <1>2, <1>3, <1>4, ShortPiece
<1>5. PICK o \in {Nil, Only(a, n)} : Piece({}, short, d, Nil, Only(a, n), d, o, Only(a, n))
  BY <1>10
<1>6. Piece({}, last, d, o, Only(a, n), goal, Nil, Nil)
  BY <1>0, <1>2, SupplyPiece
<1> HIDE DEF goal, last
<1>7. Piece({}, fund \o short, acct, Nil, Nil, d, o, Only(a, n))
  BY <1>2, <1>5, PieceCat
<1>8. Piece({}, fund \o short \o last, acct, Nil, Nil, goal, Nil, Nil)
  BY <1>6, <1>7, PieceCat
<1>9. fund \o short \o last # <<>>
  <2>1. fund \o short \in Plans /\ last \in Plans
    BY <1>6, <1>7 DEF Piece, Leads
  <2>2. last # <<>>
    BY DEF last
  <2> QED BY <2>1, <2>2, PlanCat
<1> QED BY <1>1, <1>8, <1>9, StartAnew DEF HarnessOps

LEMMA HarnessDid ==
  ASSUME NEW do \in Acts, NEW a, NEW n, NEW s
  PROVE  Harness!Does(Leg(do, a, n), s) = Does(Leg(do, a, n), s)
<1>1. Leg(do, a, n).do \in Acts
  BY DEF Leg
<1> QED BY <1>1, HarnessDoes

LEMMA HarnessWithdraw ==
  ASSUME Flow(TwoHandlers), NEW h, NEW a \in Assets, Harness!DoWithdraw(h, a)
  PROVE  HarnessAnew(h)
<1> DEFINE n == IF Amount[a] < Harness!Position(a) THEN Amount[a] ELSE Harness!Position(a)
           out == <<<<Leg("withdraw", a, n)>>>>
           back == <<<<Leg("walletAta", a, 0)>>, <<Leg("return", a, n)>>>>
           d == Withdrawn(Leg("withdraw", a, n), acct)
           goal == Does(Leg("return", a, n), d)
<1>0. n \in Nat /\ acct \in Books
  BY AmountsAssumption, HarnessPosition, BooksHere DEF Flow
<1>1. Harness!Abort(h) \/ Harness!Start(h, "withdraw", out \o back, goal)
  <2>1. \/ Harness!Abort(h)
        \/ Harness!Start(h, "withdraw", <<<<Harness!Leg("withdraw", a, n)>>>> \o Harness!Home(a, n),
                         Harness!Does(Harness!Leg("return", a, n), Harness!Withdrawn(Harness!Leg("withdraw", a, n), acct)))
    BY DEF Harness!DoWithdraw
  <2>2. Harness!Leg("withdraw", a, n) = Leg("withdraw", a, n) /\ Harness!Leg("return", a, n) = Leg("return", a, n)
    BY HarnessLeg
  <2>3. Harness!Does(Leg("return", a, n), d) = goal
    BY HarnessDid DEF Acts
  <2>4. Harness!Home(a, n) = back
    BY HarnessParts
  <2>5. Harness!Withdrawn(Leg("withdraw", a, n), acct) = d
    BY HarnessWithdrawn
  <2> QED BY <2>1, <2>2, <2>3, <2>4, <2>5
<1> HIDE DEF n
<1>2. Piece({}, out, acct, Nil, Nil, d, Nil, Only(a, n)) /\ d \in Books
  BY <1>0, WithdrawPiece
<1> HIDE DEF d
<1>3. Piece({}, back, d, Nil, Only(a, n), goal, Nil, Nil)
  BY <1>0, <1>2, HomePiece
<1>9. <<Leg("withdraw", a, n)>> \in Txs
  BY <1>0, LegOf, TxOne DEF Acts
<1> HIDE DEF goal, back
<1>4. Piece({}, out \o back, acct, Nil, Nil, goal, Nil, Nil)
  BY <1>2, <1>3, PieceCat
<1>5. out \o back # <<>>
  <2>1. back \in Plans
    BY <1>3 DEF Piece, Leads
  <2> QED BY <1>9, <2>1, CatNotNil
<1> HIDE DEF out
<1>6. CASE Harness!Abort(h)
  BY <1>6, AbortAnew
<1>7. CASE Harness!Start(h, "withdraw", out \o back, goal)
  BY <1>4, <1>5, <1>7, StartAnew DEF HarnessOps
<1> QED BY <1>1, <1>6, <1>7

LEMMA HeavyPiece ==
  ASSUME NEW gifts \in SUBSET {"claim"}, NEW b \in Books, NEW P \in {<<>>, <<Alt>>}
  PROVE  Piece(gifts, P, b, Nil, Nil, b, Nil, Nil)
<1>1. Nil \in Bounds
  BY OnlyIs
<1> QED BY <1>1, NoPiece, AltPiece

LEMMA HarnessBorrow ==
  ASSUME Flow(TwoHandlers), NEW h, Harness!DoBorrow(h)
  PROVE  HarnessAnew(h)
<1> DEFINE n == Harness!Position(Base) + Amount[Base]
           heavy == Harness!Heavy(Leg("withdraw", Base, n))
           out == <<<<Leg("withdraw", Base, n)>>>>
           back == <<<<Leg("walletAta", Base, 0)>>, <<Leg("return", Base, n)>>>>
           d == Withdrawn(Leg("withdraw", Base, n), acct)
           goal == Does(Leg("return", Base, n), d)
<1>00. Base \in Assets
  BY DEF Assets
<1>0. n \in Nat /\ acct \in Books
  BY <1>00, AmountsAssumption, HarnessPosition, BooksHere DEF Flow
<1>1. Harness!Start(h, "borrow", heavy \o out \o back, goal)
  <2>1. Harness!Start(h, "borrow", Harness!Heavy(Harness!Leg("withdraw", Base, n)) \o <<<<Harness!Leg("withdraw", Base, n)>>>> \o Harness!Home(Base, n),
                      Harness!Does(Harness!Leg("return", Base, n), Harness!Withdrawn(Harness!Leg("withdraw", Base, n), acct)))
    BY DEF Harness!DoBorrow
  <2>2. Harness!Leg("withdraw", Base, n) = Leg("withdraw", Base, n) /\ Harness!Leg("return", Base, n) = Leg("return", Base, n)
    BY HarnessLeg
  <2>3. Harness!Does(Leg("return", Base, n), d) = goal
    BY HarnessDid DEF Acts
  <2>4. Harness!Home(Base, n) = back
    BY HarnessParts
  <2>5. Harness!Withdrawn(Leg("withdraw", Base, n), acct) = d
    BY HarnessWithdrawn
  <2> QED BY <2>1, <2>2, <2>3, <2>4, <2>5
<1>8. heavy \in {<<>>, <<Alt>>}
  BY HarnessParts
<1> HIDE DEF n, heavy
<1>10. Piece({}, heavy, acct, Nil, Nil, acct, Nil, Nil)
  BY <1>0, <1>8, HeavyPiece
<1>2. Piece({}, out, acct, Nil, Nil, d, Nil, Only(Base, n)) /\ d \in Books
  BY <1>00, <1>0, WithdrawPiece
<1> HIDE DEF d
<1>3. Piece({}, back, d, Nil, Only(Base, n), goal, Nil, Nil)
  BY <1>00, <1>0, <1>2, HomePiece
<1>9. back # <<>>
  OBVIOUS
<1> HIDE DEF goal, back, out
<1>4. Piece({}, heavy \o out, acct, Nil, Nil, d, Nil, Only(Base, n))
  BY <1>2, <1>10, PieceCat
<1>5. Piece({}, heavy \o out \o back, acct, Nil, Nil, goal, Nil, Nil)
  BY <1>3, <1>4, PieceCat
<1>6. heavy \o out \o back # <<>>
  <2>1. back \in Plans /\ heavy \o out \in Plans
    BY <1>3, <1>4 DEF Piece, Leads
  <2> QED BY <1>9, <2>1, PlanCat
<1> QED BY <1>1, <1>5, <1>6, StartAnew DEF HarnessOps

LEMMA HarnessAbsorb ==
  ASSUME Flow(TwoHandlers), NEW h, NEW c \in Colls, Harness!DoAbsorb(h, c)
  PROVE  HarnessAnew(h)
<1> DEFINE l == Leg("absorb", c, 0)
           heavy == Harness!Heavy(l)
           last == <<<<l>>>>
<1>0. acct \in Books /\ Nil \in Bounds
  BY BooksHere, OnlyIs DEF Flow
<1>1. Harness!Abort(h) \/ Harness!Start(h, "absorb", heavy \o last, acct)
  BY HarnessLeg DEF Harness!DoAbsorb
<1>2. heavy \in {<<>>, <<Alt>>}
  BY HarnessParts
<1>3. l \in Deeds /\ l.do = "absorb"
  BY LegColl
<1> HIDE DEF heavy, l
<1>4. Piece({}, heavy, acct, Nil, Nil, acct, Nil, Nil)
  BY <1>0, <1>2, HeavyPiece
<1>5. Piece({}, last, acct, Nil, Nil, acct, Nil, Nil)
  BY <1>0, <1>3, StillPiece DEF Stills
<1>6. last # <<>>
  OBVIOUS
<1> HIDE DEF last
<1>7. Piece({}, heavy \o last, acct, Nil, Nil, acct, Nil, Nil)
  BY <1>4, <1>5, PieceCat
<1>8. heavy \o last # <<>>
  <2>1. heavy \in Plans /\ last \in Plans
    BY <1>4, <1>5 DEF Piece, Leads
  <2> QED BY <1>6, <2>1, PlanCat
<1>9. CASE Harness!Abort(h)
  BY <1>9, AbortAnew
<1>10. CASE Harness!Start(h, "absorb", heavy \o last, acct)
  BY <1>7, <1>8, <1>10, StartAnew DEF HarnessOps
<1> QED BY <1>1, <1>9, <1>10

LEMMA HarnessAirdrop ==
  ASSUME Flow(TwoHandlers), NEW h, NEW c \in Colls, Harness!DoAirdrop(h, c)
  PROVE  HarnessAnew(h)
<1> DEFINE l == Leg("airdrop", c, 1)
<1>0. acct \in Books /\ c \in Assets
  BY BooksHere DEF Flow, Assets
<1>1. Harness!Start(h, "airdrop", <<<<l>>>>, Does(l, acct))
  <2>1. Harness!Start(h, "airdrop", <<<<Harness!Leg("airdrop", c, 1)>>>>, Harness!Does(Harness!Leg("airdrop", c, 1), acct))
    BY DEF Harness!DoAirdrop
  <2>2. Harness!Leg("airdrop", c, 1) = l
    BY HarnessLeg
  <2>3. Harness!Does(l, acct) = Does(l, acct)
    BY HarnessDid DEF Acts
  <2> QED BY <2>1, <2>2, <2>3
<1>2. Piece({}, <<<<l>>>>, acct, Nil, Nil, Does(l, acct), Nil, Nil)
  BY <1>0, AirdropPiece
<1>3. <<<<l>>>> # <<>>
  OBVIOUS
<1> QED BY <1>1, <1>2, <1>3, StartAnew DEF HarnessOps

(* A transaction after another belongs to either side.                     *)
LEMMA CatPair ==
  ASSUME NEW P \in Plans, NEW t \in Txs, NEW u \in Txs
  PROVE  P \o <<t, u>> = (P \o <<t>>) \o <<u>>
<1> DEFINE L == P \o <<t, u>>
           M == P \o <<t>>
           R == M \o <<u>>
           n == Len(P)
<1>1. <<t, u>> \in Plans /\ <<t>> \in Plans /\ <<u>> \in Plans /\ n \in Nat
      /\ Len(<<t, u>>) = 2 /\ Len(<<t>>) = 1 /\ Len(<<u>>) = 1
  BY DEF Plans
<1>2. M \in Plans /\ Len(M) = n + 1 /\ (\A i \in 1 .. n : M[i] = P[i]) /\ M[n + 1] = t
  BY <1>1 DEF Plans
<1>3. L \in Plans /\ Len(L) = n + 2 /\ (\A i \in 1 .. n : L[i] = P[i]) /\ L[n + 1] = t /\ L[n + 2] = u
  BY <1>1 DEF Plans
<1> HIDE DEF M, L
<1>4. R \in Plans /\ Len(R) = n + 2 /\ (\A i \in 1 .. n + 1 : R[i] = M[i]) /\ R[n + 2] = u
  BY <1>1, <1>2 DEF Plans
<1> HIDE DEF R
<1>5. \A i \in 1 .. n + 2 : L[i] = R[i]
  <2> TAKE i \in 1 .. n + 2
  <2>1. i \in 1 .. n \/ i = n + 1 \/ i = n + 2
    BY <1>1
  <2> QED BY <2>1, <1>1, <1>2, <1>3, <1>4
<1>6. L = R
  BY <1>1, <1>3, <1>4, <1>5 DEF Plans
<1> QED BY <1>6 DEF L, M, R

LEMMA HarnessBuy ==
  ASSUME Flow(TwoHandlers), NEW h, NEW c \in Colls, Harness!DoBuyCollateral(h, c)
  PROVE  HarnessAnew(h)
<1> DEFINE n == Amount[Base]
           fund == <<<<Leg("nativeAta", Base, 0), Leg("fund", Base, n)>>>>
           short == Harness!ApproveIfShort(Base, n)
           buy == <<Leg("buy", c, n)>>
           look == <<Leg("look", c, 0)>>
           d == Does(Leg("fund", Base, n), acct)
           b == Does(Leg("buy", c, n), d)
<1>00. Base \in Assets
  BY DEF Assets
<1>0. n \in Nat /\ acct \in Books
  BY <1>00, AmountsAssumption, BooksHere DEF Flow
<1>1. Harness!Start(h, "buy", fund \o short \o <<buy, look>>, Homed(c, b))
  <2> DEFINE hb == Harness!Bought(c, n)
  <2>1. Harness!Start(h, "buy", <<Harness!FundTx(Base, n)>> \o short \o <<<<Harness!Leg("buy", c, n)>>, <<Harness!Leg("look", c, 0)>>>>,
                      Harness!Does(Harness!Leg("return", c, hb.held[c]), hb))
    BY DEF Harness!DoBuyCollateral
  <2>2. /\ Harness!Leg("buy", c, n) = Leg("buy", c, n) /\ Harness!Leg("look", c, 0) = Leg("look", c, 0)
        /\ Harness!Leg("fund", Base, n) = Leg("fund", Base, n)
    BY HarnessLeg
  <2>3. Harness!FundTx(Base, n) = <<Leg("nativeAta", Base, 0), Leg("fund", Base, n)>>
    BY HarnessParts
  <2>4. hb = b
    <3>1. hb = Harness!Does(Harness!Leg("buy", c, n), Harness!Does(Harness!Leg("fund", Base, n), acct))
      BY DEF Harness!Bought
    <3>2. Harness!Does(Leg("fund", Base, n), acct) = d
      BY HarnessDid DEF Acts
    <3>3. Harness!Does(Leg("buy", c, n), d) = b
      BY HarnessDid DEF Acts
    <3> QED BY <2>2, <3>1, <3>2, <3>3
  <2> HIDE DEF hb, b
  <2>5. Harness!Leg("return", c, b.held[c]) = Leg("return", c, b.held[c])
    BY HarnessLeg
  <2>6. Harness!Does(Leg("return", c, b.held[c]), b) = Homed(c, b)
    BY HarnessDid DEF Acts, Homed
  <2> QED BY <2>1, <2>2, <2>3, <2>4, <2>5, <2>6
<1>2. Piece({}, fund, acct, Nil, Nil, d, Nil, Only(Base, n)) /\ d \in Books
  BY <1>00, <1>0, FundPiece
<1>3. Only(Base, n) \in Bounds
  BY <1>0, OnlyIs
<1>4. short \in {<<>>, <<<<Leg("approve", Base, n)>>>>}
  BY HarnessParts
<1> HIDE DEF d, fund, short, n
<1>10. \/ Piece({}, short, d, Nil, Only(Base, n), d, Nil, Only(Base, n))
       \/ Piece({}, short, d, Nil, Only(Base, n), d, Only(Base, n), Only(Base, n))
  BY <1>00, <1>0, <1>2, <1>3, <1>4, ShortPiece
<1>5. PICK o \in {Nil, Only(Base, n)} : Piece({}, short, d, Nil, Only(Base, n), d, o, Only(Base, n))
  BY <1>10
<1>6. Piece({}, <<buy>>, d, o, Only(Base, n), b, Nil, Only(c, n)) /\ b \in Books
  BY <1>0, <1>2, BuyPiece
<1>11. buy \in Txs
  BY <1>0, LegColl, TxOne
<1> HIDE DEF b
<1>7. /\ Leads({"look"}, <<look>>, b, Nil, Homed(c, b), Nil) /\ Holding({}, <<look>>, Only(c, n), Nil)
      /\ Homed(c, b) \in Books /\ look \in Txs
  BY <1>0, <1>6, LookLeads
<1> HIDE DEF buy, look
<1>8. Piece({}, fund \o short, acct, Nil, Nil, d, o, Only(Base, n))
  BY <1>2, <1>5, PieceCat
<1> DEFINE Q == (fund \o short) \o <<buy>>
<1>9. Piece({}, Q, acct, Nil, Nil, b, Nil, Only(c, n))
  BY <1>6, <1>8, PieceCat
<1>12. (fund \o short) \o <<buy, look>> = Q \o <<look>>
  <2>1. fund \o short \in Plans
    BY <1>8 DEF Piece, Leads
  <2> QED BY <1>7, <1>11, <2>1, CatPair
<1> HIDE DEF Q
<1> DEFINE P == Q \o <<look>>
<1>13. Leads({"look"}, P, acct, Nil, Homed(c, b), Nil)
  BY <1>7, <1>9, LeadsCat DEF Piece
<1>14. Holding({}, P, Nil, Nil)
  BY <1>7, <1>9, HoldingCat DEF Piece
<1>15. IsPlan("buy", P)
  BY <1>7, <1>9, LookPlan DEF Piece, Ops
<1>16. Harness!Start(h, "buy", P, Homed(c, b))
  BY <1>1, <1>12
<1> HIDE DEF P
<1>17. busy' = TRUE /\ Begin(h, "buy", P, Homed(c, b)) /\ UNCHANGED <<loading, stranded, reconnects>>
  BY <1>16, HarnessBegin DEF Harness!Start, Harness!pageVars
<1>18. Plan(h, {"look"}, "buy", P, Homed(c, b))
  BY <1>7, <1>13, <1>15, <1>17 DEF Plan
<1> QED BY <1>14, <1>17, <1>18 DEF HarnessAnew, HarnessOps

LEMMA SweepHome ==
  ASSUME Flow(TwoHandlers), NEW h, NEW a \in Assets, stranded[a] > 0 => stranded[a] \in Nat, Harness!SweepToWallet(h, a)
  PROVE  HarnessAnew(h)
<1> DEFINE n == stranded[a]
           back == <<<<Leg("walletAta", a, 0)>>, <<Leg("return", a, n)>>>>
           goal == Does(Leg("return", a, n), acct)
<1>0. n \in Nat /\ acct \in Books
  BY BooksHere DEF Flow, Harness!SweepToWallet
<1>1. Harness!Start(h, "sweep", back, goal)
  <2>1. Harness!Start(h, "sweep", Harness!Home(a, n), Harness!Does(Harness!Leg("return", a, n), acct))
    BY DEF Harness!SweepToWallet
  <2>2. Harness!Leg("return", a, n) = Leg("return", a, n)
    BY HarnessLeg
  <2>3. Harness!Does(Leg("return", a, n), acct) = goal
    BY HarnessDid DEF Acts
  <2>4. Harness!Home(a, n) = back
    BY HarnessParts
  <2> QED BY <2>1, <2>2, <2>3, <2>4
<1> HIDE DEF n
<1>2. Piece({}, back, acct, Nil, Nil, goal, Nil, Nil)
  BY <1>0, HomePiece
<1>3. back # <<>>
  OBVIOUS
<1> HIDE DEF back, goal
<1> QED BY <1>1, <1>2, <1>3, StartAnew DEF HarnessOps

LEMMA SweepIn ==
  ASSUME Flow(TwoHandlers), NEW h, NEW a \in Assets, stranded[a] > 0 => stranded[a] \in Nat, Harness!SweepToComet(h, a)
  PROVE  HarnessAnew(h)
<1> DEFINE n == stranded[a]
           short == Harness!ApproveIfShort(a, n)
           last == <<<<Leg("supply", a, n)>>>>
           goal == Supplied(Leg("supply", a, n), acct)
<1>0. n \in Nat /\ acct \in Books
  BY BooksHere DEF Flow, Harness!SweepToComet
<1>1. Harness!Start(h, "finish", short \o last, goal)
  <2>1. Harness!Start(h, "finish", short \o <<<<Harness!Leg("supply", a, n)>>>>, Harness!Supplied(Harness!Leg("supply", a, n), acct))
    BY DEF Harness!SweepToComet
  <2>2. Harness!Leg("supply", a, n) = Leg("supply", a, n)
    BY HarnessLeg
  <2> QED BY <2>1, <2>2, HarnessSupplied
<1>2. short \in {<<>>, <<<<Leg("approve", a, n)>>>>}
  BY HarnessParts
<1>3. Nil \in Bounds
  BY OnlyIs
<1> HIDE DEF n, short
<1>4. \/ Piece({}, short, acct, Nil, Nil, acct, Nil, Nil)
      \/ Piece({}, short, acct, Nil, Nil, acct, Only(a, n), Nil)
  BY <1>0, <1>2, <1>3, ShortPiece
<1>5. PICK o \in {Nil, Only(a, n)} : Piece({}, short, acct, Nil, Nil, acct, o, Nil)
  BY <1>4
<1>6. Piece({}, last, acct, o, Nil, goal, Nil, Nil)
  BY <1>0, SupplyPiece
<1>7. last # <<>>
  OBVIOUS
<1> HIDE DEF last, goal
<1>8. Piece({}, short \o last, acct, Nil, Nil, goal, Nil, Nil)
  BY <1>5, <1>6, PieceCat
<1>9. short \o last # <<>>
  <2>1. short \in Plans /\ last \in Plans
    BY <1>5, <1>6 DEF Piece, Leads
  <2> QED BY <1>7, <2>1, PlanCat
<1> QED BY <1>1, <1>8, <1>9, StartAnew DEF HarnessOps

LEMMA HarnessActivate ==
  ASSUME Flow(TwoHandlers), NEW h, Harness!DoActivate(h)
  PROVE  HarnessAnew(h)
<1> DEFINE rest == IF acct.alt /\ acct.pda THEN <<>> ELSE Atas \o <<Alt>>
<1>0. acct \in Books /\ Nil \in Bounds
  BY BooksHere, OnlyIs DEF Flow
<1>1. Harness!Start(h, "activate", Pda \o rest, acct)
  <2>1. Harness!Start(h, "activate", <<<<Harness!Leg("pda", Base, 0)>>>> \o
                 (IF acct.alt /\ acct.pda THEN <<>>
                  ELSE [i \in DOMAIN Listed |-> <<Harness!Leg("ata", Listed[i], 0)>>] \o <<Harness!Alt>>), acct)
    BY DEF Harness!DoActivate
  <2>2. Harness!Leg("pda", Base, 0) = Leg("pda", Base, 0) /\ \A a : Harness!Leg("ata", a, 0) = Leg("ata", a, 0)
    BY HarnessLeg
  <2>3. [i \in DOMAIN Listed |-> <<Harness!Leg("ata", Listed[i], 0)>>] = Atas
    BY <2>2 DEF Atas, Ata
  <2>4. Harness!Alt = Alt
    BY HarnessParts
  <2> QED BY <2>1, <2>2, <2>3, <2>4 DEF Pda
<1>2. Piece({}, Pda, acct, Nil, Nil, acct, Nil, Nil) /\ Pda # <<>>
  <2>1. Leg("pda", Base, 0) \in Deeds /\ Leg("pda", Base, 0).do = "pda"
    <3>1. Base \in Assets /\ "pda" \in Acts \ {"absorb", "buy", "claim"} /\ 0 \in Nat
      BY DEF Acts, Assets
    <3> QED BY <3>1, LegOf
  <2>2. Piece({}, <<<<Leg("pda", Base, 0)>>>>, acct, Nil, Nil, acct, Nil, Nil)
    BY <1>0, <2>1, StillPiece DEF Stills
  <2>3. <<<<Leg("pda", Base, 0)>>>> # <<>>
    OBVIOUS
  <2> QED BY <2>2, <2>3 DEF Pda
<1>3. Piece({}, Atas, acct, Nil, Nil, acct, Nil, Nil)
  BY <1>0, AtasLeads, AtasIs DEF Piece
<1>4. Piece({}, <<Alt>>, acct, Nil, Nil, acct, Nil, Nil)
  BY <1>0, AltPiece
<1>5. Piece({}, Atas \o <<Alt>>, acct, Nil, Nil, acct, Nil, Nil)
  BY <1>3, <1>4, PieceCat
<1>6. Piece({}, <<>>, acct, Nil, Nil, acct, Nil, Nil)
  BY <1>0, NoPiece
<1>7. Piece({}, rest, acct, Nil, Nil, acct, Nil, Nil)
  BY <1>5, <1>6
<1> HIDE DEF rest
<1>8. Piece({}, Pda \o rest, acct, Nil, Nil, acct, Nil, Nil)
  BY <1>2, <1>7, PieceCat
<1>9. Pda \o rest # <<>>
  BY <1>2, <1>7, PlanCat DEF Piece, Leads
<1> QED BY <1>1, <1>8, <1>9, StartAnew DEF HarnessOps

(* A button of the harness.                                                *)
LEMMA HarnessClicks ==
  ASSUME Flow(TwoHandlers), NEW h \in TwoHandlers, Harness!Click(h),
         \A a \in Assets : stranded[a] > 0 => stranded[a] \in Nat
  PROVE  HarnessAnew(h) /\ ~busy /\ ~Running(h)
<1>0. Harness!Assets = Assets
  BY HarnessParts
<1>1. ~busy /\ ~Running(h)
  <2>1. Harness!Free(h)
    BY DEF Harness!Click, Harness!DoActivate, Harness!DoBorrow, Harness!DoSupply, Harness!DoWithdraw,
           Harness!SweepToWallet, Harness!SweepToComet, Harness!DoAirdrop, Harness!DoAbsorb, Harness!DoBuyCollateral
  <2> QED BY <2>1, HarnessRunning DEF Harness!Free
<1>2. Harness!DoActivate(h) \/ Harness!DoBorrow(h) => HarnessAnew(h)
  BY HarnessActivate, HarnessBorrow
<1>3. ASSUME NEW a \in Assets
      PROVE  Harness!DoSupply(h, a) \/ Harness!DoWithdraw(h, a) \/ Harness!SweepToWallet(h, a) \/ Harness!SweepToComet(h, a)
               => HarnessAnew(h)
  BY HarnessSupply, HarnessWithdraw, SweepHome, SweepIn
<1>4. ASSUME NEW c \in Colls
      PROVE  Harness!DoAirdrop(h, c) \/ Harness!DoAbsorb(h, c) \/ Harness!DoBuyCollateral(h, c) => HarnessAnew(h)
  BY HarnessAirdrop, HarnessAbsorb, HarnessBuy
<1>5. HarnessAnew(h)
  BY <1>0, <1>2, <1>3, <1>4 DEF Harness!Click
<1> QED BY <1>1, <1>5

(* What was bought goes home.                                              *)
LEMMA HarnessLooks ==
  ASSUME Flow(TwoHandlers), NEW h \in TwoHandlers, Harness!LookBought(h),
         Promised(TwoHandlers, {"look"}), Closed(TwoHandlers), Emptied(TwoHandlers, {})
  PROVE  /\ Flow(TwoHandlers)' /\ Promised(TwoHandlers, {"look"})' /\ Closed(TwoHandlers)' /\ Emptied(TwoHandlers, {})'
         /\ run' = [run EXCEPT ![h] = run'[h]] /\ run'[h].pc = "next" /\ run[h].pc = "next"
         /\ acct' = acct /\ torn' = torn
         /\ UNCHANGED <<busy, loading, stranded, reconnects>>
<1> DEFINE look == run[h].todo[1][1]
           a == look.asset
           n == acct.held[a]
           back == <<<<Leg("walletAta", a, 0)>>, <<Leg("return", a, n)>>>>
           r == [run[h] EXCEPT !.todo = back]
<1>0. IsFiniteSet(TwoHandlers)
  BY TwoAssumption
<1>1. run[h].pc = "next" /\ look.do = "look"
  BY DEF Harness!LookBought
<1>2. /\ Len(run[h].todo) = 1 /\ PendOf(run[h]) = run[h].todo /\ look \in Deeds
  BY <1>1, LooksIs
<1>3. a \in Colls /\ a \in Assets
  BY <1>1, <1>2 DEF Deeds, Assets
<1>4. n \in Nat /\ acct \in Books
  BY <1>3, HeldIs
<1>5. /\ Become(h, r) /\ UNCHANGED <<acct, net, torn, busy, loading, stranded, reconnects>>
  BY HarnessParts DEF Harness!LookBought, Harness!Become, Become, Harness!pageVars
<1> HIDE DEF look, n, a
<1>6. Piece({}, back, acct, Nil, Only(a, n), Homed(a, acct), Nil, Nil)
  BY <1>3, <1>4, HomePiece DEF Homed, n
<1>7. back \in Plans /\ back # <<>> /\ Sends(back)
  BY <1>6 DEF Piece, Leads
<1> HIDE DEF back
<1>8. run[h] \in Runs /\ Sound(run[h])
  BY DEF Flow
<1>9. /\ r \in Runs /\ r.pc = "next" /\ r.todo = back /\ r.goal = run[h].goal /\ r.op = run[h].op
      /\ r.landed = run[h].landed
  BY <1>1, <1>7, <1>8 DEF Runs
<1> HIDE DEF r
<1>10. r.op # "exit" \/ Len(run[h].todo) = 1
  BY <1>2
<1>11. Sound(r)
  <2>1. \A i \in 1 .. Len(back) : ~IsLook(back[i])
    BY <1>7 DEF Sends
  <2>2. \A i \in 1 .. Len(back) - 1 : ~IsLook(back[i])
    <3>1. Len(back) \in Nat
      BY <1>7 DEF Plans
    <3> QED BY <2>1, <3>1
  <2>3. \A i \in 1 .. Len(back) : Len(back[i]) = 1
    BY DEF back
  <2> QED BY <1>7, <1>8, <1>9, <1>1, <2>2, <2>3 DEF Sound, Resting
<1>12. Flow(TwoHandlers)'
  <2>1. acct' \in Accts /\ torn' \in BOOLEAN /\ net' \in SUBSET Messages(TwoHandlers)
    BY <1>5 DEF Flow
  <2> QED BY <1>5, <1>9, <1>11, <2>1, FlowBecome
<1>13. run'[h] = r /\ run' = [run EXCEPT ![h] = run'[h]]
  <2>1. run \in [TwoHandlers -> Runs]
    BY DEF Flow
  <2> QED BY <1>5, <2>1 DEF Become
<1>14. Ready(TwoHandlers, h) /\ PendOf(run'[h]) = back
  BY <1>5, <1>9, <1>13 DEF Ready, PendOf
<1>15. Promised(TwoHandlers, {"look"})'
  <2>1. ASSUME NEW v \in run'[h].goal
        PROVE  Along(Worths, Moves({"look"}), PendOf(run'[h]), Worth(acct), v)
    <3>0. v \in Worths /\ Worth(acct) \in Worths
      BY <1>4, <1>8, <1>9, <1>13, <2>1, WorthType DEF Runs
    <3>1. Along(Worths, Moves({"look"}), PendOf(run[h]), Worth(acct), v)
      BY <1>9, <1>13, <2>1 DEF Promised
    <3>2. <<look, Worth(acct), v>> \in Moves({"look"})
      BY <1>1, <3>1, LooksAlong DEF look
    <3>3. v = Moved({"look"}, look, Worth(acct))
      BY <1>2, <3>0, <3>2, InMoves
    <3>4. v = Worth(Homed(a, acct))
      BY <1>1, <1>2, <1>3, <1>4, <3>3, HomedIs DEF a
    <3> QED BY <1>6, <1>14, <3>4 DEF Piece, Leads
  <2> QED BY <1>14, <2>1, AnewPromised
<1>16. Closed(TwoHandlers)'
  <2>1. \A x \in Assets : /\ \A y \in Nat : Along(Nat, Owes(x), PendOf(run[h]), y, 0) => y = 0
                          /\ Along(Nat, Owes(x), PendOf(run'[h]), 0, 0)
    <3> TAKE x \in Assets
    <3>1. \A y \in Nat : Along(Nat, Owes(x), PendOf(run[h]), y, 0) => y = 0
      BY <1>1, LooksOwes DEF look
    <3>2. Along(Nat, Owes(x), back, Nil[x], Nil[x])
      BY <1>6 DEF Piece, Leads
    <3>3. Nil[x] = 0
      BY DEF Nil
    <3> QED BY <1>14, <3>1, <3>2, <3>3
  <2> QED BY <1>0, <1>7, <1>14, <2>1, AnewClosed
<1>17. Emptied(TwoHandlers, {})'
  <2>1. ASSUME NEW x \in Assets
        PROVE  \/ Along(Nat, Holds({}, x), PendOf(run'[h]), acct.held[x], 0)
               \/ /\ \A y \in Nat : Along(Nat, Holds({}, x), PendOf(run[h]), y, 0) => y = 0
                  /\ Along(Nat, Holds({}, x), PendOf(run'[h]), 0, 0)
    <3>1. Along(Nat, Holds({}, x), back, Only(a, n)[x], Nil[x]) /\ Nil[x] = 0
      BY <1>6 DEF Piece, Holding, Nil
    <3>2. CASE x = a
      <4>1. Only(a, n)[x] = acct.held[x]
        BY <3>2 DEF Only, n
      <4> QED BY <1>14, <3>1, <4>1
    <3>3. CASE x # a
      <4>1. Only(a, n)[x] = 0
        BY <3>3 DEF Only
      <4>2. ASSUME NEW y \in Nat, Along(Nat, Holds({}, x), PendOf(run[h]), y, 0)
            PROVE  y = 0
        <5>1. <<look, y, 0>> \in Holds({}, x)
          BY <1>1, <4>2, LooksAlong DEF look
        <5>2. ~Leaves({}, x, look) /\ Gain(x, look) = 0
          BY <1>1, <3>3 DEF Leaves, Gain, a
        <5>3. 0 >= y + 0
          BY <1>2, <5>1, <5>2, InHolds
        <5> QED BY <5>3
      <4> QED BY <1>14, <3>1, <4>1, <4>2
    <3> QED BY <3>2, <3>3
  <2> QED BY <1>0, <1>7, <1>14, <2>1, AnewEmptied
<1> QED BY <1>1, <1>5, <1>9, <1>12, <1>13, <1>15, <1>16, <1>17

-----------------------------------------------------------------------------
(* The harness.  Until the wallet is switched away one flow runs at a time, and *)
(* what the last check found is nothing.                                   *)
Guarded ==
  reconnects = 0 =>
    /\ loading => busy
    /\ \A h \in TwoHandlers : Running(h) => busy /\ ~loading /\ \A g \in TwoHandlers : Running(g) => g = h
    /\ ~torn /\ stranded # Harness!Unchecked => \A a \in Assets : stranded[a] = 0
Flags ==
  /\ busy \in BOOLEAN /\ loading \in BOOLEAN /\ reconnects \in 0 .. 1
  /\ stranded = Harness!Unchecked \/ stranded \in [Assets -> Nat]
Emptying == Promised(TwoHandlers, {"look"}) /\ Closed(TwoHandlers) /\ Emptied(TwoHandlers, {})
HarnessInv == Flow(TwoHandlers) /\ Emptying /\ Flags /\ Guarded
HarnessKeeps == \A h \in TwoHandlers : AsPromised(h)

LEMMA TwoNoEnd ==
  ASSUME \A h \in TwoHandlers : ~Ends(h)
  PROVE  HarnessKeeps
BY DEF HarnessKeeps, AsPromised

(* Nothing is held when nothing runs.                                      *)
LEMMA HeldNone ==
  ASSUME Flow(TwoHandlers), Emptied(TwoHandlers, {}), ~torn, \A h \in TwoHandlers : ~Running(h)
  PROVE  \A a \in Assets : acct.held[a] = 0
BY TwoAssumption, RestEmptied

LEMMA HeldType ==
  ASSUME NEW H, Flow(H)
  PROVE  acct.held \in [Assets -> Nat]
BY DEF Flow, Accts, AmountPer

(* Nothing changes on the page.                                            *)
LEMMA GuardedStill ==
  ASSUME Guarded, Flags, UNCHANGED <<busy, loading, stranded, reconnects>>, torn => torn',
         \A g \in TwoHandlers : Running(g)' => Running(g)
  PROVE  Guarded' /\ Flags'
BY DEF Guarded, Flags

LEMMA HarnessStill ==
  ASSUME HarnessInv, Flow(TwoHandlers)', run' = run, torn' = torn,
         Worth(acct') = Worth(acct), acct'.allow = acct.allow, acct'.held = acct.held,
         acct'.claimed = acct.claimed, acct'.base = acct.base
  PROVE  Emptying' /\ HarnessKeeps /\ \A g \in TwoHandlers : Running(g)' <=> Running(g)
<1>1. Emptying'
  BY StillKeeps DEF HarnessInv, Emptying
<1>2. \A g \in TwoHandlers : ~Ends(g)
  BY EndsStill
<1>3. \A g \in TwoHandlers : Running(g)' <=> Running(g)
  BY DEF Running
<1> QED BY <1>1, <1>2, <1>3, TwoNoEnd

LEMMA HarnessChain ==
  ASSUME HarnessInv, Harness!Chain
  PROVE  HarnessInv' /\ HarnessKeeps
<1>0. /\ Flow(TwoHandlers) /\ IsFiniteSet(TwoHandlers)
      /\ UNCHANGED <<busy, loading, stranded, reconnects>> /\ Harness!ChainStep
  BY TwoAssumption DEF HarnessInv, Harness!Chain, Harness!pageVars
<1>1. CASE Harness!MoveVictim
  <2>1. MoveVictim
    BY <1>1 DEF Harness!MoveVictim, MoveVictim
  <2>2. /\ Flow(TwoHandlers)' /\ run' = run /\ torn' = torn /\ Worth(acct') = Worth(acct)
        /\ acct'.allow = acct.allow /\ acct'.held = acct.held /\ acct'.claimed = acct.claimed
        /\ acct'.base = acct.base
    BY <1>0, <2>1, VictimMoves
  <2>3. Emptying' /\ HarnessKeeps /\ \A g \in TwoHandlers : Running(g)' <=> Running(g)
    BY <2>2, HarnessStill
  <2> QED BY <1>0, <2>2, <2>3, GuardedStill DEF HarnessInv
<1>2. ASSUME NEW x \in net, Harness!Land(x) PROVE HarnessInv' /\ HarnessKeeps
  <2>1. LandOn(TwoHandlers, x)
    BY <1>0, <1>2, HarnessLand
  <2>2. Flow(TwoHandlers)' /\ Emptying'
    BY <1>0, <2>1, LandKeeps DEF HarnessInv, Emptying
  <2>3. \A g \in TwoHandlers : ~Ends(g)
    BY <1>0, <2>1, EndsLand
  <2>4. \A g \in TwoHandlers : run'[g].pc = run[g].pc
    BY <1>0, <2>1, LandFlows
  <2>5. \A g \in TwoHandlers : Running(g)' <=> Running(g)
    BY <2>4 DEF Running
  <2>6. torn => torn'
    BY <2>1 DEF LandOn
  <2> QED BY <1>0, <2>2, <2>3, <2>5, <2>6, TwoNoEnd, GuardedStill DEF HarnessInv
<1>3. ASSUME NEW x \in net, Harness!Refuse(x) PROVE HarnessInv' /\ HarnessKeeps
  <2>1. Flow(TwoHandlers)' /\ run' = run /\ torn' = torn /\ acct' = acct
    BY <1>0, <1>3, RefuseFlows DEF Harness!Refuse
  <2>2. Emptying' /\ HarnessKeeps /\ \A g \in TwoHandlers : Running(g)' <=> Running(g)
    BY <2>1, HarnessStill
  <2> QED BY <1>0, <2>1, <2>2, GuardedStill DEF HarnessInv
<1> QED BY <1>0, <1>1, <1>2, <1>3 DEF Harness!ChainStep

(* The page by itself.                                                     *)
LEMMA HarnessPage ==
  ASSUME HarnessInv, Harness!CheckSynthetic \/ Harness!Reconnect \/ Harness!Loaded
  PROVE  HarnessInv' /\ HarnessKeeps
<1>0. acct' = acct /\ net' = net /\ run' = run /\ torn' = torn /\ Flow(TwoHandlers)
  BY DEF HarnessInv, Harness!CheckSynthetic, Harness!Reconnect, Harness!Loaded, Harness!flowVars
<1>1. Flow(TwoHandlers)'
  BY <1>0 DEF Flow, Messages
<1>2. Emptying' /\ HarnessKeeps /\ \A g \in TwoHandlers : Running(g)' <=> Running(g)
  BY <1>0, <1>1, HarnessStill
<1>3. CASE Harness!CheckSynthetic
  <2>1. ~busy /\ stranded' = acct.held /\ UNCHANGED <<busy, loading, reconnects>>
    BY <1>3 DEF Harness!CheckSynthetic
  <2>2. Flags'
    BY <1>0, <2>1, HeldType DEF HarnessInv, Flags
  <2>3. reconnects = 0 => \A g \in TwoHandlers : ~Running(g)
    BY <2>1 DEF HarnessInv, Guarded
  <2>4. reconnects = 0 /\ ~torn => \A a \in Assets : acct.held[a] = 0
    BY <1>0, <2>3, HeldNone DEF HarnessInv, Emptying
  <2>5. Guarded'
    BY <1>0, <1>2, <2>1, <2>3, <2>4 DEF HarnessInv, Guarded
  <2> QED BY <1>1, <1>2, <2>2, <2>5 DEF HarnessInv
<1>4. CASE Harness!Reconnect
  <2>1. reconnects < 1 /\ reconnects' = reconnects + 1 /\ busy' = TRUE /\ loading' = TRUE /\ stranded' = stranded
    BY <1>4 DEF Harness!Reconnect
  <2>2. Flags' /\ Guarded'
    BY <2>1 DEF HarnessInv, Flags, Guarded
  <2> QED BY <1>1, <1>2, <2>2 DEF HarnessInv
<1>5. CASE Harness!Loaded
  <2>1. loading /\ busy' = FALSE /\ loading' = FALSE /\ UNCHANGED <<stranded, reconnects>>
    BY <1>5 DEF Harness!Loaded
  <2>2. Flags' /\ Guarded'
    BY <1>0, <1>2, <2>1 DEF HarnessInv, Flags, Guarded
  <2> QED BY <1>1, <1>2, <2>2 DEF HarnessInv
<1> QED BY <1>3, <1>4, <1>5

(* A flow begins, or does not.                                             *)
LEMMA HarnessBegins ==
  ASSUME HarnessInv, NEW h \in TwoHandlers, Harness!Click(h)
  PROVE  HarnessInv' /\ HarnessKeeps
<1>0. Flow(TwoHandlers) /\ IsFiniteSet(TwoHandlers)
  BY TwoAssumption DEF HarnessInv
<1>1. \A a \in Assets : stranded[a] > 0 => stranded[a] \in Nat
  <2>1. Harness!Unchecked = [a \in Assets |-> -1]
    BY DEF Harness!Unchecked, Harness!Assets, Assets
  <2> QED BY <2>1 DEF HarnessInv, Flags
<1>2. HarnessAnew(h) /\ ~busy /\ ~Running(h)
  BY <1>0, <1>1, HarnessClicks
<1>3. Clear(h)
  BY <1>0, <1>2, ClearIs
<1>4. UNCHANGED <<loading, stranded, reconnects>>
  BY <1>2 DEF HarnessAnew
<1>5. CASE Decline(h) /\ busy' = busy
  <2>1. Flow(TwoHandlers)' /\ Emptying' /\ run' = [run EXCEPT ![h] = Idle] /\ acct' = acct /\ torn' = torn
    BY <1>0, <1>2, <1>3, <1>5, DeclineKeeps DEF HarnessInv, Emptying
  <2>2. run'[h] = Idle /\ run'[h].pc = "idle" /\ run' = [run EXCEPT ![h] = run'[h]]
    BY <1>0, <2>1, IdlePc
  <2>3. \A g \in TwoHandlers : ~Ends(g)
    BY <1>0, <2>2, EndsBecome
  <2>4. \A g \in TwoHandlers : g # h => run'[g] = run[g]
    BY <1>0, <2>2, Repend
  <2>5. \A g \in TwoHandlers : Running(g)' => Running(g)
    BY <2>2, <2>4 DEF Running, Resting
  <2>6. Guarded' /\ Flags'
    BY <1>4, <1>5, <2>1, <2>5, GuardedStill DEF HarnessInv
  <2> QED BY <2>1, <2>3, <2>6, TwoNoEnd DEF HarnessInv
<1>6. ASSUME NEW op \in HarnessOps, NEW P, NEW goal, Plan(h, {"look"}, op, P, goal), Holding({}, P, Nil, Nil), busy' = TRUE
      PROVE  HarnessInv' /\ HarnessKeeps
  <2>1. /\ Flow(TwoHandlers)' /\ torn' = torn /\ acct' = acct /\ run' = [run EXCEPT ![h] = run'[h]]
        /\ run'[h].pc = "next" /\ Emptying'
    BY <1>0, <1>2, <1>3, <1>6, BeginKeeps DEF HarnessInv, Emptying
  <2>2. \A g \in TwoHandlers : ~Ends(g)
    BY <1>0, <2>1, EndsBecome
  <2>3. \A g \in TwoHandlers : g # h => run'[g] = run[g]
    BY <1>0, <2>1, Repend
  <2>4. reconnects = 0 => ~loading /\ \A g \in TwoHandlers : ~Running(g)
    BY <1>2 DEF HarnessInv, Guarded
  <2>5. reconnects = 0 => \A g \in TwoHandlers : Running(g)' => g = h
    BY <2>3, <2>4 DEF Running
  <2>6. Guarded'
    BY <1>4, <1>6, <2>1, <2>4, <2>5 DEF HarnessInv, Guarded
  <2>7. Flags'
    BY <1>4, <1>6 DEF HarnessInv, Flags
  <2> QED BY <2>1, <2>2, <2>6, <2>7, TwoNoEnd DEF HarnessInv
<1> QED BY <1>2, <1>5, <1>6 DEF HarnessAnew

LEMMA HarnessLooking ==
  ASSUME HarnessInv, NEW h \in TwoHandlers, Harness!LookBought(h)
  PROVE  HarnessInv' /\ HarnessKeeps
<1>1. /\ Flow(TwoHandlers)' /\ Emptying'
      /\ run' = [run EXCEPT ![h] = run'[h]] /\ run'[h].pc = "next" /\ run[h].pc = "next"
      /\ acct' = acct /\ torn' = torn
      /\ UNCHANGED <<busy, loading, stranded, reconnects>>
  BY HarnessLooks DEF HarnessInv, Emptying
<1>2. \A g \in TwoHandlers : ~Ends(g)
  BY <1>1, EndsBecome DEF HarnessInv
<1>3. \A g \in TwoHandlers : g # h => run'[g] = run[g]
  BY <1>1, Repend DEF HarnessInv
<1>4. \A g \in TwoHandlers : Running(g)' => Running(g)
  BY <1>1, <1>3 DEF Running, Resting
<1>5. Guarded' /\ Flags'
  BY <1>1, <1>4, GuardedStill DEF HarnessInv
<1> QED BY <1>1, <1>2, <1>5, TwoNoEnd DEF HarnessInv

Quiet == Flow(TwoHandlers) /\ Emptied(TwoHandlers, {}) /\ ~torn /\ \A h \in TwoHandlers : ~Running(h)
HoldsNone == \A a \in Assets : acct.held[a] = 0

LEMMA QuietNow == Quiet => HoldsNone
BY HeldNone DEF Quiet, HoldsNone

LEMMA QuietNext == Quiet' => HoldsNone'
BY QuietNow, PTL

LEMMA HeldNoneNext ==
  ASSUME Flow(TwoHandlers)', Emptied(TwoHandlers, {})', ~torn', \A h \in TwoHandlers : ~Running(h)'
  PROVE  \A a \in Assets : acct'.held[a] = 0
BY QuietNext DEF Quiet, HoldsNone

(* A step of the flow that runs.                                           *)
LEMMA HarnessRuns ==
  ASSUME HarnessInv, NEW h \in TwoHandlers, Harness!HandlerStep(h, "none")
  PROVE  /\ Flow(TwoHandlers)' /\ Emptying' /\ HarnessKeeps /\ Running(h)
         /\ \A g \in TwoHandlers : g # h => run'[g] = run[g]
         /\ acct' = acct /\ (torn => torn')
<1>0. Flow(TwoHandlers) /\ IsFiniteSet(TwoHandlers)
  BY TwoAssumption DEF HarnessInv
<1>1. ASSUME Goes1(TwoHandlers, h), Flow(TwoHandlers)', Running(h)
      PROVE  /\ Flow(TwoHandlers)' /\ Emptying' /\ HarnessKeeps /\ Running(h)
             /\ \A g \in TwoHandlers : g # h => run'[g] = run[g]
             /\ acct' = acct /\ (torn => torn')
  <2>1. Emptying'
    BY <1>0, <1>1, GoesKeeps DEF HarnessInv, Emptying
  <2>2. HarnessKeeps
    BY <1>0, <1>1, EndsGoes DEF HarnessInv, Emptying, HarnessKeeps
  <2>3. /\ \A g \in TwoHandlers : g # h => run'[g] = run[g]
        /\ acct' = acct /\ torn' = torn
    BY <1>0, <1>1, Repend DEF Goes1
  <2> QED BY <1>1, <2>1, <2>2, <2>3
<1>2. CASE Harness!Skip(h)
  <2>1. Skip(h) /\ Running(h)
    BY <1>2, HarnessSkip DEF Skip, Running, Resting
  <2>2. Goes1(TwoHandlers, h) /\ Flow(TwoHandlers)'
    BY <1>0, <2>1, SkipGoes
  <2> QED BY <1>1, <2>1, <2>2
<1>3. CASE Harness!Ask(h)
  <2>1. AskOn(TRUE, h) /\ Running(h)
    BY <1>3, HarnessAsk DEF AskOn, Running, Resting
  <2>2. Goes1(TwoHandlers, h) /\ Flow(TwoHandlers)'
    BY <1>0, <2>1, AskGoes
  <2> QED BY <1>1, <2>1, <2>2
<1>4. CASE Harness!Sign(h)
  <2>1. SignOn(h) /\ Running(h)
    BY <1>4, HarnessSign DEF SignOn, Running, Resting
  <2>2. Goes1(TwoHandlers, h) /\ Flow(TwoHandlers)'
    BY <1>0, <2>1, SignGoes
  <2> QED BY <1>1, <2>1, <2>2
<1>5. CASE Harness!Confirm(h, "none")
  <2>1. ConfirmOn(TRUE, h, "none") /\ Running(h)
    BY <1>5, HarnessConfirm DEF ConfirmOn, Running, Resting
  <2>2. Goes1(TwoHandlers, h) /\ Flow(TwoHandlers)'
    BY <1>0, <2>1, ConfirmGoes
  <2> QED BY <1>1, <2>1, <2>2
<1>6. CASE Harness!Fail(h)
  <2>1. Fail(h) /\ Running(h)
    BY <1>6, HarnessFail DEF Fail
  <2>2. Flow(TwoHandlers)' /\ torn' = TRUE /\ acct' = acct /\ run' = [run EXCEPT ![h] = Idle]
    BY <1>0, <2>1, FailFlows
  <2>3. Emptying'
    BY <1>0, <2>1, FailKeeps DEF HarnessInv, Emptying
  <2>4. run'[h] = Idle /\ run'[h].pc = "idle" /\ run' = [run EXCEPT ![h] = run'[h]]
    BY <1>0, <2>2, IdlePc
  <2>5. \A g \in TwoHandlers : ~Ends(g)
    BY <1>0, <2>4, EndsBecome
  <2>6. \A g \in TwoHandlers : g # h => run'[g] = run[g]
    BY <1>0, <2>4, Repend
  <2> QED BY <2>1, <2>2, <2>3, <2>5, <2>6, TwoNoEnd
<1> QED BY <1>2, <1>3, <1>4, <1>5, <1>6 DEF Harness!HandlerStep

LEMMA HarnessSteps ==
  ASSUME HarnessInv, NEW h \in TwoHandlers, Harness!Step(h)
  PROVE  HarnessInv' /\ HarnessKeeps
<1>1. /\ Flow(TwoHandlers)' /\ Emptying' /\ HarnessKeeps /\ Running(h)
      /\ \A g \in TwoHandlers : g # h => run'[g] = run[g]
      /\ acct' = acct /\ (torn => torn')
  BY HarnessRuns DEF Harness!Step
<1>2. loading' = loading /\ reconnects' = reconnects
  BY DEF Harness!Step, Harness!Settle
<1>3. busy' = IF run'[h].pc \in Resting THEN FALSE ELSE busy
  BY HarnessIdle DEF Harness!Step, Harness!Settle
<1>4. stranded' = stranded \/ (Ends(h) /\ stranded' = acct.held)
  <2>1. Harness!Ends(h) <=> Ends(h)
    BY HarnessRunning DEF Harness!Ends, Ends
  <2> QED BY <2>1 DEF Harness!Step, Harness!Check
<1>5. Flags'
  BY <1>2, <1>3, <1>4, HeldType DEF HarnessInv, Flags
<1>6. \A g \in TwoHandlers : g # h => (Running(g)' <=> Running(g))
  BY <1>1 DEF Running
<1>7. reconnects = 0 => busy /\ ~loading /\ \A g \in TwoHandlers : Running(g)' => g = h
  BY <1>1, <1>6 DEF HarnessInv, Guarded
<1>8. Running(h)' => busy' = busy
  BY <1>3 DEF Running
<1>9. ASSUME reconnects = 0, ~torn', stranded' # Harness!Unchecked, NEW a \in Assets
      PROVE  stranded'[a] = 0
  <2>1. CASE stranded' = stranded
    BY <1>1, <1>9, <2>1 DEF HarnessInv, Guarded
  <2>2. CASE Ends(h) /\ stranded' = acct.held
    <3>1. ~Running(h)'
      BY <2>2 DEF Ends, Running, Resting
    <3>2. \A g \in TwoHandlers : ~Running(g)'
      BY <1>7, <1>9, <3>1
    <3>3. \A x \in Assets : acct'.held[x] = 0
      BY <1>1, <1>9, <3>2, HeldNoneNext DEF Emptying
    <3> QED BY <1>1, <2>2, <3>3
  <2> QED BY <1>4, <2>1, <2>2
<1>10. Guarded'
  BY <1>2, <1>7, <1>8, <1>9 DEF Guarded
<1> QED BY <1>1, <1>5, <1>10 DEF HarnessInv

LEMMA HarnessNext ==
  ASSUME HarnessInv, Harness!Next
  PROVE  HarnessInv' /\ HarnessKeeps
BY HarnessChain, HarnessPage, HarnessBegins, HarnessLooking, HarnessSteps DEF Harness!Next

LEMMA HarnessTypesOK ==
  ASSUME HarnessInv
  PROVE  Harness!HarnessTypeOK
<1>1. Harness!FlowTypeOK
  BY HarnessTypes DEF HarnessInv
<1>2. Harness!AmountPer(Harness!Assets) = [Assets -> Nat]
  BY DEF Harness!AmountPer, Harness!Assets, Assets
<1> QED BY <1>1, <1>2 DEF HarnessInv, Flags, Harness!HarnessTypeOK

LEMMA HarnessRests ==
  ASSUME HarnessInv
  PROVE  /\ Harness!CleanLeavesNothing /\ Harness!OneFlowAtATime
         /\ reconnects = 0 => Harness!ListIsCurrent
<1>0. Flow(TwoHandlers) /\ IsFiniteSet(TwoHandlers) /\ Harness!Assets = Assets
  BY TwoAssumption, HarnessParts DEF HarnessInv
<1>1. \A h : Harness!Running(h) <=> Running(h)
  BY HarnessRunning
<1>2. ASSUME ~torn, \A h \in TwoHandlers : ~Running(h)
      PROVE  \A a \in Assets : acct.held[a] = 0 /\ acct.allow[a] = 0
  <2>1. \A a \in Assets : acct.held[a] = 0
    BY <1>0, <1>2, HeldNone DEF HarnessInv, Emptying
  <2>2. \A a \in Assets : acct.allow[a] = 0
    BY <1>0, <1>2, RestClosed DEF HarnessInv, Emptying
  <2> QED BY <2>1, <2>2
<1>3. Harness!CleanLeavesNothing
  BY <1>0, <1>1, <1>2 DEF Harness!CleanLeavesNothing
<1>4. Harness!OneFlowAtATime
  BY <1>1 DEF Harness!OneFlowAtATime, HarnessInv, Guarded, Flags
<1>5. ASSUME reconnects = 0, ~torn, stranded # Harness!Unchecked, \A h \in TwoHandlers : ~Running(h)
      PROVE  stranded = acct.held
  <2>1. stranded \in [Assets -> Nat] /\ acct.held \in [Assets -> Nat]
    BY <1>0, <1>5, HeldType DEF HarnessInv, Flags
  <2>2. \A a \in Assets : stranded[a] = 0 /\ acct.held[a] = 0
    BY <1>2, <1>5 DEF HarnessInv, Guarded
  <2> QED BY <2>1, <2>2
<1>6. reconnects = 0 => Harness!ListIsCurrent
  BY <1>1, <1>5 DEF Harness!ListIsCurrent
<1> QED BY <1>3, <1>4, <1>6

-----------------------------------------------------------------------------
(* The driver's plans.                                                     *)
DriverOps == {"supply", "supply-collat", "withdraw", "faucetclaim", "borrow", "repay",
              "freshpair", "nativefaucet"}
DriverAnew(h) ==
  \/ Decline(h)
  \/ \E op \in DriverOps : \E P, goal :
       /\ Plan(h, {"look"}, op, P, goal) /\ Holding({"claim"}, P, Nil, Nil)
       /\ op = "withdraw" => \E m \in Nat : acct.base >= m /\ Along(Nat, Draws, P, m, 0)

(* With the table first, or without.                                       *)
LEMMA DoTxIs ==
  ASSUME NEW t \in Txs
  PROVE  Driver!DoTx(t) \in {<<Alt>> \o <<t>>, <<t>>}
<1>1. Driver!EnsureAlt = <<Alt>>
  BY DriverLeg DEF Driver!EnsureAlt, Alt
<1>2. <<t>> \in Plans
  BY PlanOne
<1>3. <<>> \o <<t>> = <<t>>
  BY <1>2 DEF Plans
<1> QED BY <1>1, <1>3 DEF Driver!DoTx

LEMMA DoTxPiece ==
  ASSUME NEW gifts \in SUBSET {"claim"}, NEW t \in Txs, NEW b \in Books, NEW o \in Bounds, NEW k \in Bounds,
         NEW c, NEW p, NEW q, Piece(gifts, <<t>>, b, o, k, c, p, q)
  PROVE  Piece(gifts, Driver!DoTx(t), b, o, k, c, p, q) /\ Driver!DoTx(t) # <<>>
<1>1. Piece(gifts, <<Alt>>, b, o, k, b, o, k)
  BY AltPiece
<1>2. Piece(gifts, <<Alt>> \o <<t>>, b, o, k, c, p, q)
  BY <1>1, PieceCat
<1>3. <<t>> # <<>> /\ <<Alt>> \o <<t>> # <<>>
  <2>1. <<Alt>> \in Plans
    BY <1>1 DEF Piece, Leads
  <2> QED BY <2>1, CatNotNil
<1> QED BY <1>2, <1>3, DoTxIs

LEMMA DriverParts ==
  ASSUME NEW a, NEW n
  PROVE  /\ Driver!Fund(a, n) = <<<<Leg("nativeAta", a, 0), Leg("fund", a, n)>>>>
         /\ Driver!Home(a, n) = Driver!DoTx(<<Leg("homeAta", a, 0), Leg("return", a, n)>>)
         /\ \A do, x, m : Driver!Leg(do, x, m) = Leg(do, x, m)
BY DriverLeg DEF Driver!Fund, Driver!Home

LEMMA DriverDid ==
  ASSUME NEW do \in Acts, NEW a, NEW n, NEW s
  PROVE  Driver!Does(Leg(do, a, n), s) = Does(Leg(do, a, n), s)
<1>1. Leg(do, a, n).do \in Acts
  BY DEF Leg
<1> QED BY <1>1, DriverDoes

LEMMA DriveAnew ==
  ASSUME NEW h, NEW op \in DriverOps, NEW P, NEW goal, Driver!Begin(h, op, P, goal),
         Piece({"claim"}, P, acct, Nil, Nil, goal, Nil, Nil), P # <<>>,
         op = "withdraw" => \E m \in Nat : acct.base >= m /\ Along(Nat, Draws, P, m, 0)
  PROVE  DriverAnew(h)
<1>1. Begin(h, op, P, goal)
  BY DriverBegin
<1>2. op \in Ops \ {"none", "exit"}
  BY DEF DriverOps, Ops
<1>3. Plan(h, {"look"}, op, P, goal)
  BY <1>1, <1>2, StartPlan DEF Piece
<1> QED BY <1>3 DEF Piece, DriverAnew

LEMMA DriverSupply ==
  ASSUME Flow(Handlers), NEW h, NEW op \in {"supply", "repay", "supply-collat"}, NEW a \in Assets, Driver!DoSupply(h, op, a)
  PROVE  DriverAnew(h)
<1> DEFINE n == Amount[a]
           fund == <<<<Leg("nativeAta", a, 0), Leg("fund", a, n)>>>>
           short == IF acct.allow[a] < n THEN Driver!DoTx(<<Leg("approve", a, n)>>) ELSE <<>>
           last == Driver!DoTx(<<Leg("supply", a, n)>>)
           d == Does(Leg("fund", a, n), acct)
           goal == Supplied(Leg("supply", a, n), d)
<1>0. n \in Nat /\ acct \in Books /\ Nil \in Bounds
  BY AmountsAssumption, BooksHere, OnlyIs DEF Flow
<1>1. Driver!Begin(h, op, fund \o short \o last, goal)
  <2>1. Driver!Begin(h, op, Driver!Fund(a, n) \o (IF acct.allow[a] < n THEN Driver!DoTx(<<Driver!Leg("approve", a, n)>>) ELSE <<>>)
                              \o Driver!DoTx(<<Driver!Leg("supply", a, n)>>),
                     Driver!Supplied(Driver!Leg("supply", a, n), Driver!Does(Driver!Leg("fund", a, n), acct)))
    BY DEF Driver!DoSupply
  <2>2. /\ Driver!Leg("supply", a, n) = Leg("supply", a, n) /\ Driver!Leg("fund", a, n) = Leg("fund", a, n)
        /\ Driver!Leg("approve", a, n) = Leg("approve", a, n)
    BY DriverLeg
  <2>3. Driver!Does(Leg("fund", a, n), acct) = d
    BY DriverDid DEF Acts
  <2>4. Driver!Fund(a, n) = fund
    BY DriverParts
  <2> QED BY <2>1, <2>2, <2>3, <2>4, DriverSupplied
<1>2. Piece({"claim"}, fund, acct, Nil, Nil, d, Nil, Only(a, n)) /\ d \in Books
  BY <1>0, FundPiece
<1>3. Only(a, n) \in Bounds
  BY <1>0, OnlyIs
<1>4. /\ Leg("approve", a, n) \in Deeds /\ Leg("supply", a, n) \in Deeds
  BY <1>0, LegOf DEF Acts
<1>5. <<Leg("approve", a, n)>> \in Txs /\ <<Leg("supply", a, n)>> \in Txs
  BY <1>4, TxOne
<1> HIDE DEF d, fund, n
<1>6. Piece({"claim"}, <<<<Leg("approve", a, n)>>>>, d, Nil, Only(a, n), d, Only(a, n), Only(a, n))
  BY <1>0, <1>2, <1>3, ApprovePiece
<1>7. Piece({"claim"}, Driver!DoTx(<<Leg("approve", a, n)>>), d, Nil, Only(a, n), d, Only(a, n), Only(a, n))
  BY <1>0, <1>2, <1>3, <1>5, <1>6, DoTxPiece
<1>8. Piece({"claim"}, <<>>, d, Nil, Only(a, n), d, Nil, Only(a, n))
  BY <1>0, <1>2, <1>3, NoPiece
<1>9. PICK o \in {Nil, Only(a, n)} : Piece({"claim"}, short, d, Nil, Only(a, n), d, o, Only(a, n))
  BY <1>7, <1>8
<1> HIDE DEF short
<1>10. Piece({"claim"}, <<<<Leg("supply", a, n)>>>>, d, o, Only(a, n), goal, Nil, Nil)
  BY <1>0, <1>2, SupplyPiece
<1> HIDE DEF goal
<1>11. Piece({"claim"}, last, d, o, Only(a, n), goal, Nil, Nil) /\ last # <<>>
  BY <1>0, <1>2, <1>3, <1>5, <1>10, DoTxPiece
<1> HIDE DEF last
<1>12. Piece({"claim"}, fund \o short, acct, Nil, Nil, d, o, Only(a, n))
  BY <1>2, <1>9, PieceCat
<1>13. Piece({"claim"}, fund \o short \o last, acct, Nil, Nil, goal, Nil, Nil)
  BY <1>11, <1>12, PieceCat
<1>14. fund \o short \o last # <<>>
  <2>1. fund \o short \in Plans /\ last \in Plans
    BY <1>11, <1>12 DEF Piece, Leads
  <2> QED BY <1>11, <2>1, PlanCat
<1>15. op \in DriverOps /\ op # "withdraw"
  BY DEF DriverOps
<1> HIDE DEF DriverOps
<1> QED BY <1>1, <1>13, <1>14, <1>15, DriveAnew

(* The table takes nothing out of the supply.                              *)
LEMMA DoTxDraws ==
  ASSUME NEW t \in Txs, NEW x \in Nat, NEW y \in Nat, Along(Nat, Draws, <<t>>, x, y)
  PROVE  Along(Nat, Draws, Driver!DoTx(t), x, y)
<1>1. Leg("alt", Base, 0) \in Deeds /\ Leg("alt", Base, 0).do = "alt"
  <2>1. Base \in Assets
    BY DEF Assets
  <2> QED BY <2>1, LegOf DEF Acts
<1>2. <<Leg("alt", Base, 0), x, x>> \in Draws
  BY <1>1, InDraws
<1>3. Along(Nat, Draws, <<Alt>>, x, x)
  BY <1>2, AlongLeg DEF Alt
<1>4. <<Alt>> \in Plans /\ <<t>> \in Plans
  BY <1>1, TxOne, PlanOne DEF Alt
<1>5. Along(Nat, Draws, <<Alt>> \o <<t>>, x, y)
  BY <1>3, <1>4, AlongCat
<1> QED BY <1>5, DoTxIs

(* The way home of what was withdrawn.                                     *)
LEMMA DriverHome ==
  ASSUME NEW a \in Assets, NEW n \in Nat, NEW b \in Books
  PROVE  /\ Piece({"claim"}, Driver!Home(a, n), b, Nil, Only(a, n), Does(Leg("return", a, n), b), Nil, Nil)
         /\ Along(Nat, Draws, Driver!Home(a, n), 0, 0)
         /\ Driver!Home(a, n) # <<>>
<1> DEFINE k == Leg("homeAta", a, 0)
           l == Leg("return", a, n)
<1>1. k \in Firsts /\ l \in Seconds /\ k.do = "homeAta" /\ l.do = "return"
  BY LegOf DEF Acts, Firsts, Seconds
<1>2. <<k, l>> \in Txs
  BY <1>1, TxTwo
<1>3. k \in Deeds /\ l \in Deeds
  BY <1>1 DEF Firsts, Seconds
<1>4. <<k, 0, 0>> \in Draws /\ <<l, 0, 0>> \in Draws
  BY <1>1, <1>3, InDraws
<1>5. Along(Nat, Draws, <<<<k, l>>>>, 0, 0)
  <2>1. 0 \in Nat
    OBVIOUS
  <2> QED BY <1>4, <2>1, AlongPair
<1>6. Nil \in Bounds /\ Only(a, n) \in Bounds
  BY OnlyIs
<1>7. Piece({"claim"}, <<<<k, l>>>>, b, Nil, Only(a, n), Does(l, b), Nil, Nil)
  BY HomePiece
<1>8. Driver!Home(a, n) = Driver!DoTx(<<k, l>>)
  BY DriverParts
<1> DEFINE c == Does(l, b)
<1>9. Piece({"claim"}, <<<<k, l>>>>, b, Nil, Only(a, n), c, Nil, Nil)
  BY <1>7
<1> HIDE DEF k, l, c
<1>10. Piece({"claim"}, Driver!DoTx(<<k, l>>), b, Nil, Only(a, n), c, Nil, Nil) /\ Driver!DoTx(<<k, l>>) # <<>>
  BY <1>2, <1>6, <1>9, DoTxPiece
<1>11. Along(Nat, Draws, Driver!DoTx(<<k, l>>), 0, 0)
  BY <1>2, <1>5, DoTxDraws
<1> QED BY <1>8, <1>10, <1>11 DEF c, l

(* A withdrawal and the way home.                                          *)
LEMMA DriverOut ==
  ASSUME NEW a \in Assets, NEW n \in Nat, NEW b \in Books
  PROVE  LET P == Driver!DoTx(<<Leg("withdraw", a, n)>>) \o Driver!Home(a, n)
         IN /\ Piece({"claim"}, P, b, Nil, Nil, Does(Leg("return", a, n), Withdrawn(Leg("withdraw", a, n), b)), Nil, Nil)
            /\ P # <<>> /\ Along(Nat, Draws, P, n, 0)
<1> DEFINE l == Leg("withdraw", a, n)
           d == Withdrawn(l, b)
           c == Does(Leg("return", a, n), d)
           out == Driver!DoTx(<<l>>)
           back == Driver!Home(a, n)
<1>1. l \in Deeds /\ l.do = "withdraw" /\ l.asset = a /\ l.n = n
  BY LegOf DEF Acts
<1>2. <<l>> \in Txs
  BY <1>1, TxOne
<1>3. Nil \in Bounds /\ Only(a, n) \in Bounds
  BY OnlyIs
<1>4. Piece({"claim"}, <<<<l>>>>, b, Nil, Nil, d, Nil, Only(a, n)) /\ d \in Books
  BY WithdrawPiece
<1>5. Piece({"claim"}, back, d, Nil, Only(a, n), c, Nil, Nil) /\ Along(Nat, Draws, back, 0, 0) /\ back # <<>>
  BY <1>4, DriverHome
<1>6. <<l, n, 0>> \in Draws
  BY <1>1, InDraws
<1>7. Along(Nat, Draws, <<<<l>>>>, n, 0)
  BY <1>6, AlongLeg
<1> HIDE DEF l, d, c
<1>8. Piece({"claim"}, out, b, Nil, Nil, d, Nil, Only(a, n)) /\ Along(Nat, Draws, out, n, 0)
  BY <1>2, <1>3, <1>4, <1>7, DoTxPiece, DoTxDraws
<1> HIDE DEF out, back
<1>9. Piece({"claim"}, out \o back, b, Nil, Nil, c, Nil, Nil)
  BY <1>5, <1>8, PieceCat
<1>10. out \in Plans /\ back \in Plans
  BY <1>5, <1>8 DEF Piece, Leads
<1>11. out \o back # <<>>
  BY <1>5, <1>10, PlanCat
<1>12. Along(Nat, Draws, out \o back, n, 0)
  BY <1>5, <1>8, <1>10, AlongCat
<1> QED BY <1>9, <1>11, <1>12 DEF out, back, c, d, l

LEMMA DriverWithdraw ==
  ASSUME Flow(Handlers), NEW h, NEW a \in Assets, a = Base, Driver!DoWithdraw(h, a)
  PROVE  DriverAnew(h)
<1> DEFINE supplied == IF acct.base > 0 THEN acct.base ELSE 0
           n == IF supplied < Amount[a] THEN supplied ELSE Amount[a]
           P == Driver!DoTx(<<Leg("withdraw", a, n)>>) \o Driver!Home(a, n)
           goal == Does(Leg("return", a, n), Withdrawn(Leg("withdraw", a, n), acct))
<1>0. acct \in Books /\ acct.base \in Int /\ Amount[a] \in Nat
  BY AmountsAssumption, BooksHere DEF Flow, Accts
<1>1. n \in Nat /\ (n = 0 \/ acct.base >= n)
  BY <1>0
<1>2. Driver!Decline(h) \/ (n # 0 /\ Driver!Begin(h, "withdraw", P, goal))
  <2>1. \/ n = 0 /\ Driver!Decline(h)
        \/ n # 0 /\ Driver!Begin(h, "withdraw", Driver!DoTx(<<Driver!Leg("withdraw", a, n)>>) \o Driver!Home(a, n),
                     Driver!Does(Driver!Leg("return", a, n), Driver!Withdrawn(Driver!Leg("withdraw", a, n), acct)))
    BY DEF Driver!DoWithdraw
  <2>2. Driver!Leg("withdraw", a, n) = Leg("withdraw", a, n) /\ Driver!Leg("return", a, n) = Leg("return", a, n)
    BY DriverLeg
  <2>3. Driver!Withdrawn(Leg("withdraw", a, n), acct) = Withdrawn(Leg("withdraw", a, n), acct)
    BY DriverWithdrawn
  <2>4. Driver!Does(Leg("return", a, n), Withdrawn(Leg("withdraw", a, n), acct)) = goal
    BY DriverDid DEF Acts
  <2> QED BY <2>1, <2>2, <2>3, <2>4
<1> HIDE DEF n
<1>3. Piece({"claim"}, P, acct, Nil, Nil, goal, Nil, Nil) /\ P # <<>> /\ Along(Nat, Draws, P, n, 0)
  BY <1>0, <1>1, DriverOut
<1> HIDE DEF P, goal
<1>4. CASE Driver!Decline(h)
  BY <1>4, DriverDecline DEF DriverAnew
<1>5. CASE n # 0 /\ Driver!Begin(h, "withdraw", P, goal)
  <2>1. \E m \in Nat : acct.base >= m /\ Along(Nat, Draws, P, m, 0)
    BY <1>1, <1>3, <1>5
  <2>2. "withdraw" \in DriverOps
    BY DEF DriverOps
  <2> HIDE DEF DriverOps
  <2> QED BY <1>3, <1>5, <2>1, <2>2, DriveAnew
<1> QED BY <1>2, <1>4, <1>5

LEMMA DriverBorrow ==
  ASSUME Flow(Handlers), NEW h, Driver!DoBorrow(h)
  PROVE  DriverAnew(h)
<1> DEFINE n == (IF acct.base > 0 THEN acct.base ELSE 0) + Amount[Base]
           P == Driver!DoTx(<<Leg("withdraw", Base, n)>>) \o Driver!Home(Base, n)
           goal == Does(Leg("return", Base, n), Withdrawn(Leg("withdraw", Base, n), acct))
<1>00. Base \in Assets
  BY DEF Assets
<1>0. acct \in Books /\ acct.base \in Int /\ Amount[Base] \in Nat
  BY <1>00, AmountsAssumption, BooksHere DEF Flow, Accts
<1>1. n \in Nat
  BY <1>0
<1>2. Driver!Begin(h, "borrow", P, goal)
  <2>1. Driver!Begin(h, "borrow", Driver!DoTx(<<Driver!Leg("withdraw", Base, n)>>) \o Driver!Home(Base, n),
                     Driver!Does(Driver!Leg("return", Base, n), Driver!Withdrawn(Driver!Leg("withdraw", Base, n), acct)))
    BY DEF Driver!DoBorrow
  <2>2. Driver!Leg("withdraw", Base, n) = Leg("withdraw", Base, n) /\ Driver!Leg("return", Base, n) = Leg("return", Base, n)
    BY DriverLeg
  <2>3. Driver!Withdrawn(Leg("withdraw", Base, n), acct) = Withdrawn(Leg("withdraw", Base, n), acct)
    BY DriverWithdrawn
  <2>4. Driver!Does(Leg("return", Base, n), Withdrawn(Leg("withdraw", Base, n), acct)) = goal
    BY DriverDid DEF Acts
  <2> QED BY <2>1, <2>2, <2>3, <2>4
<1> HIDE DEF n
<1>3. Piece({"claim"}, P, acct, Nil, Nil, goal, Nil, Nil) /\ P # <<>>
  BY <1>00, <1>0, <1>1, DriverOut
<1> HIDE DEF P, goal
<1>4. "borrow" \in DriverOps
  BY DEF DriverOps
<1> HIDE DEF DriverOps
<1> QED BY <1>2, <1>3, <1>4, DriveAnew

LEMMA DriverGives ==
  ASSUME Flow(Handlers), NEW h, Driver!DoFreshPair(h)
  PROVE  DriverAnew(h)
<1> DEFINE n == Amount[Base]
           give == Leg("give", Base, n)
           fund == <<<<Leg("nativeAta", Base, 0), Leg("fund", Base, n)>>>>
           d == Does(Leg("fund", Base, n), acct)
           goal == Does(give, d)
           last == Driver!DoTx(<<give>>)
<1>00. Base \in Assets
  BY DEF Assets
<1>0. acct \in Books /\ n \in Nat
  BY <1>00, AmountsAssumption, BooksHere DEF Flow
<1>1. give \in Deeds /\ give.do = "give" /\ give.asset = Base /\ give.n = n
  BY <1>00, <1>0, LegOf DEF Acts
<1>2. Driver!Begin(h, "freshpair", fund \o last, goal)
  <2>1. LET g == Driver!Leg("give", Base, n)
        IN Driver!Begin(h, "freshpair", Driver!Fund(Base, g.n) \o Driver!DoTx(<<g>>),
                 Driver!Does(g, Driver!Does(Driver!Leg("fund", Base, g.n), acct)))
    BY DEF Driver!DoFreshPair
  <2>2. Driver!Leg("give", Base, n) = give /\ Driver!Leg("fund", Base, n) = Leg("fund", Base, n)
    BY DriverLeg
  <2>3. Driver!Does(Leg("fund", Base, n), acct) = d /\ Driver!Does(give, d) = goal
    BY DriverDid DEF Acts
  <2>4. Driver!Fund(Base, n) = fund
    BY DriverParts
  <2> HIDE DEF give, fund, d, goal, n
  <2> QED BY <1>1, <2>1, <2>2, <2>3, <2>4
<1>3. Piece({"claim"}, fund, acct, Nil, Nil, d, Nil, Only(Base, n)) /\ d \in Books
  BY <1>00, <1>0, FundPiece
<1>4. Nil \in Bounds /\ Only(Base, n) \in Bounds
  BY <1>0, OnlyIs
<1> HIDE DEF give, n, fund, d
<1>5. Piece({"claim"}, <<<<give>>>>, d, Nil, Only(Base, n), goal, Nil, Nil)
  <2>1. Leads({"look"}, <<<<give>>>>, d, Nil, goal, Nil) /\ Sends(<<<<give>>>>)
    BY <1>1, <1>3, <1>4, MoveLeads DEF Movers
  <2>2. Holding({"claim"}, <<<<give>>>>, Only(Base, n), Nil)
    BY <1>1, OutHolding
  <2> QED BY <2>1, <2>2 DEF Piece
<1>6. <<give>> \in Txs
  BY <1>1, TxOne
<1> HIDE DEF goal
<1>7. Piece({"claim"}, last, d, Nil, Only(Base, n), goal, Nil, Nil) /\ last # <<>>
  BY <1>3, <1>4, <1>5, <1>6, DoTxPiece
<1> HIDE DEF last
<1>8. Piece({"claim"}, fund \o last, acct, Nil, Nil, goal, Nil, Nil)
  BY <1>3, <1>7, PieceCat
<1>9. fund \o last # <<>>
  <2>1. fund \in Plans /\ last \in Plans
    BY <1>3, <1>7 DEF Piece, Leads
  <2> QED BY <1>7, <2>1, PlanCat
<1>10. "freshpair" \in DriverOps
  BY DEF DriverOps
<1> HIDE DEF DriverOps
<1> QED BY <1>2, <1>8, <1>9, <1>10, DriveAnew

LEMMA DriverClaims ==
  ASSUME Flow(Handlers), NEW h, NEW c \in Colls, Driver!DoFaucetClaim(h, c)
  PROVE  DriverAnew(h)
<1> DEFINE l == Leg("claim", c, 1)
           goal == Does(l, acct)
           P == Driver!DoTx(<<l>>)
<1>0. acct \in Books
  BY BooksHere DEF Flow
<1>1. l \in Deeds /\ l.do = "claim"
  BY LegColl
<1>2. Driver!Begin(h, "faucetclaim", P, goal)
  <2>1. LET g == Driver!Leg("claim", c, 1)
        IN Driver!Begin(h, "faucetclaim", Driver!DoTx(<<g>>), Driver!Does(g, acct))
    BY DEF Driver!DoFaucetClaim
  <2>2. Driver!Leg("claim", c, 1) = l
    BY DriverLeg
  <2>3. Driver!Does(l, acct) = goal
    BY DriverDid DEF Acts
  <2> HIDE DEF l, goal
  <2> QED BY <2>1, <2>2, <2>3
<1>3. Nil \in Bounds
  BY OnlyIs
<1> HIDE DEF l
<1>4. Piece({"claim"}, <<<<l>>>>, acct, Nil, Nil, goal, Nil, Nil)
  <2>1. Leads({"look"}, <<<<l>>>>, acct, Nil, goal, Nil) /\ Sends(<<<<l>>>>)
    BY <1>0, <1>1, <1>3, MoveLeads DEF Movers
  <2>2. Holding({"claim"}, <<<<l>>>>, Nil, Nil)
    BY <1>1, GiftHolding
  <2> QED BY <2>1, <2>2 DEF Piece
<1>5. <<l>> \in Txs
  BY <1>1, TxOne
<1> HIDE DEF goal
<1>6. Piece({"claim"}, P, acct, Nil, Nil, goal, Nil, Nil) /\ P # <<>>
  BY <1>0, <1>3, <1>4, <1>5, DoTxPiece
<1>7. "faucetclaim" \in DriverOps
  BY DEF DriverOps
<1> HIDE DEF DriverOps, P
<1> QED BY <1>2, <1>6, <1>7, DriveAnew

LEMMA DriverAirdrop ==
  ASSUME Flow(Handlers), NEW h, NEW c \in Colls, Driver!DoNativeFaucet(h, c)
  PROVE  DriverAnew(h)
<1> DEFINE l == Leg("airdrop", c, 1)
           goal == Does(l, acct)
<1>0. acct \in Books /\ c \in Assets
  BY BooksHere DEF Flow, Assets
<1>2. Driver!Begin(h, "nativefaucet", <<<<l>>>>, goal)
  <2>1. LET g == Driver!Leg("airdrop", c, 1)
        IN Driver!Begin(h, "nativefaucet", <<<<g>>>>, Driver!Does(g, acct))
    BY DEF Driver!DoNativeFaucet
  <2>2. Driver!Leg("airdrop", c, 1) = l
    BY DriverLeg
  <2>3. Driver!Does(l, acct) = goal
    BY DriverDid DEF Acts
  <2> HIDE DEF l, goal
  <2> QED BY <2>1, <2>2, <2>3
<1>4. Piece({"claim"}, <<<<l>>>>, acct, Nil, Nil, goal, Nil, Nil)
  BY <1>0, AirdropPiece
<1>5. <<<<l>>>> # <<>>
  OBVIOUS
<1>7. "nativefaucet" \in DriverOps
  BY DEF DriverOps
<1> HIDE DEF DriverOps, l, goal
<1> QED BY <1>2, <1>4, <1>5, <1>7, DriveAnew

LEMMA DriverDo ==
  ASSUME Flow(Handlers), NEW h, NEW f, Driver!Do(h, f)
  PROVE  DriverAnew(h)
<1>0. Base \in Assets /\ Colls \subseteq Assets
  BY DEF Assets
<1>1. \/ f \in {"supply", "repay"} /\ Driver!DoSupply(h, f, Base)
      \/ Driver!DoWithdraw(h, Base) \/ Driver!DoBorrow(h) \/ Driver!DoFreshPair(h)
      \/ \E c \in Colls : \/ f = "supply-collat" /\ Driver!DoSupply(h, f, c)
                          \/ Driver!DoFaucetClaim(h, c) \/ Driver!DoNativeFaucet(h, c)
  BY DEF Driver!Do
<1>2. CASE f \in {"supply", "repay"} /\ Driver!DoSupply(h, f, Base)
  <2>1. f \in {"supply", "repay", "supply-collat"}
    BY <1>2
  <2> QED BY <1>0, <1>2, <2>1, DriverSupply
<1>3. CASE Driver!DoWithdraw(h, Base)
  BY <1>0, <1>3, DriverWithdraw
<1>4. CASE Driver!DoBorrow(h)
  BY <1>4, DriverBorrow
<1>5. CASE Driver!DoFreshPair(h)
  BY <1>5, DriverGives
<1>6. CASE \E c \in Colls : \/ f = "supply-collat" /\ Driver!DoSupply(h, f, c)
                            \/ Driver!DoFaucetClaim(h, c) \/ Driver!DoNativeFaucet(h, c)
  <2>1. PICK c \in Colls : \/ f = "supply-collat" /\ Driver!DoSupply(h, f, c)
                           \/ Driver!DoFaucetClaim(h, c) \/ Driver!DoNativeFaucet(h, c)
    BY <1>6
  <2>2. CASE f = "supply-collat" /\ Driver!DoSupply(h, f, c)
    <3>1. f \in {"supply", "repay", "supply-collat"} /\ c \in Assets
      BY <1>0, <2>2
    <3> QED BY <2>2, <3>1, DriverSupply
  <2>3. CASE Driver!DoFaucetClaim(h, c)
    BY <2>3, DriverClaims
  <2>4. CASE Driver!DoNativeFaucet(h, c)
    BY <2>4, DriverAirdrop
  <2> QED BY <2>1, <2>2, <2>3, <2>4
<1> QED BY <1>1, <1>2, <1>3, <1>4, <1>5, <1>6

(* The driver's invariant, and what its steps keep.                        *)
DriverInv ==
  /\ Flow(Handlers) /\ Promised(Handlers, {"look"}) /\ Closed(Handlers) /\ Emptied(Handlers, {"claim"})
  /\ Drawn(Handlers) /\ left \in Seq(Driver!Flows)
DriverKeeps == \A h \in Handlers : AsPromised(h) /\ Driver!DrawdownOnly(h)

(* A withdrawal that can still end well has left the supply above what is to go. *)
LEMMA DrawnDown ==
  ASSUME Flow(Handlers)', Drawn(Handlers)', NEW h \in Handlers, run'[h].op \in {run[h].op, "none"} \/ run[h].op = "none"
  PROVE  Driver!DrawdownOnly(h)
<1> SUFFICES ASSUME run[h].op = "withdraw", run'[h].goal # {}
             PROVE  acct'.base >= 0
  BY DEF Driver!DrawdownOnly
<1>1. run'[h] \in Runs /\ Sound(run'[h]) /\ acct' \in Accts
  BY DEF Flow
<1>2. run'[h].op # "none"
  BY <1>1 DEF Sound
<1>3. run'[h].op = "withdraw"
  BY <1>2
<1>4. PICK m \in Nat : acct'.base >= m
  BY <1>3 DEF Drawn
<1>5. acct'.base \in Int
  BY <1>1 DEF Accts
<1> QED BY <1>4, <1>5

LEMMA DriverNoEnd ==
  ASSUME \A h \in Handlers : ~Ends(h) /\ Driver!DrawdownOnly(h)
  PROVE  DriverKeeps
BY DEF DriverKeeps, AsPromised

LEMMA DriverGoes ==
  ASSUME DriverInv, NEW h \in Handlers, Goes1(Handlers, h), Flow(Handlers)', left' = left
  PROVE  DriverInv' /\ DriverKeeps
<1>0. Flow(Handlers) /\ IsFiniteSet(Handlers)
  BY HandlersAssumption DEF DriverInv
<1>1. Promised(Handlers, {"look"})' /\ Closed(Handlers)' /\ Emptied(Handlers, {"claim"})' /\ Drawn(Handlers)'
  BY <1>0, GoesKeeps DEF DriverInv
<1>2. \A g \in Handlers : AsPromised(g)
  BY <1>0, EndsGoes DEF DriverInv
<1>3. \A g \in Handlers : run'[g].op \in {run[g].op, "none"}
  BY <1>0, Repend DEF Goes1, Goes
<1>4. \A g \in Handlers : Driver!DrawdownOnly(g)
  BY <1>1, <1>3, DrawnDown
<1>5. DriverInv'
  BY <1>1 DEF DriverInv
<1> QED BY <1>2, <1>4, <1>5 DEF DriverKeeps

LEMMA DriverStill ==
  ASSUME DriverInv, Flow(Handlers)', run' = run, torn' = torn, left' \in Seq(Driver!Flows),
         Worth(acct') = Worth(acct), acct'.allow = acct.allow, acct'.held = acct.held,
         acct'.claimed = acct.claimed, acct'.base = acct.base
  PROVE  DriverInv' /\ DriverKeeps
<1>1. Promised(Handlers, {"look"})' /\ Closed(Handlers)' /\ Emptied(Handlers, {"claim"})' /\ Drawn(Handlers)'
  BY StillKeeps DEF DriverInv
<1>2. \A g \in Handlers : ~Ends(g)
  BY EndsStill
<1>3. \A g \in Handlers : Driver!DrawdownOnly(g)
  BY <1>1, DrawnDown
<1>4. DriverInv'
  BY <1>1 DEF DriverInv
<1> QED BY <1>2, <1>3, <1>4, DriverNoEnd

LEMMA DriverChain ==
  ASSUME DriverInv, Driver!Chain
  PROVE  DriverInv' /\ DriverKeeps
<1>0. Flow(Handlers) /\ IsFiniteSet(Handlers) /\ left' = left /\ left \in Seq(Driver!Flows)
  BY HandlersAssumption DEF DriverInv, Driver!Chain
<1>1. ASSUME NEW x \in net, Driver!Land(x) PROVE DriverInv' /\ DriverKeeps
  <2>1. LandOn(Handlers, x)
    BY <1>0, <1>1, DriverLand
  <2>2. /\ Flow(Handlers)' /\ Promised(Handlers, {"look"})' /\ Closed(Handlers)' /\ Emptied(Handlers, {"claim"})'
        /\ Drawn(Handlers)'
    BY <1>0, <2>1, LandKeeps DEF DriverInv
  <2>3. \A g \in Handlers : ~Ends(g)
    BY <1>0, <2>1, EndsLand
  <2>4. \A g \in Handlers : run'[g].op = run[g].op
    BY <1>0, <2>1, LandFlows
  <2>5. \A g \in Handlers : Driver!DrawdownOnly(g)
    BY <2>2, <2>4, DrawnDown
  <2>6. DriverInv'
    BY <1>0, <2>2 DEF DriverInv
  <2> QED BY <2>3, <2>5, <2>6, DriverNoEnd
<1>2. ASSUME NEW x \in net, Driver!Refuse(x) PROVE DriverInv' /\ DriverKeeps
  <2>1. Flow(Handlers)' /\ run' = run /\ torn' = torn /\ acct' = acct
    BY <1>0, <1>2, RefuseFlows DEF Driver!Refuse
  <2> QED BY <1>0, <2>1, DriverStill
<1> QED BY <1>1, <1>2 DEF Driver!Chain

LEMMA CommandsAre == DriverCommands \subseteq Seq(Driver!Flows)
BY DEF DriverCommands, Driver!Flows

LEMMA DriverLaunch ==
  ASSUME DriverInv, NEW h \in Handlers, NEW seq \in DriverCommands, Driver!Launch(h, seq)
  PROVE  DriverInv' /\ DriverKeeps
<1>1. /\ left' = seq /\ run' = run /\ torn' = torn /\ acct' = [acct EXCEPT !.alt = FALSE]
      /\ net' \in SUBSET net
  BY DEF Driver!Launch
<1>2. left' \in Seq(Driver!Flows)
  BY <1>1, CommandsAre
<1>3. acct \in Accts
  BY DEF DriverInv, Flow
<1>4. /\ acct' \in Accts /\ acct'.wallet = acct.wallet /\ acct'.held = acct.held /\ acct'.base = acct.base
      /\ acct'.coll = acct.coll /\ acct'.allow = acct.allow /\ acct'.claimed = acct.claimed
  BY <1>1, <1>3 DEF Accts
<1>5. Worth(acct') = Worth(acct)
  BY <1>4 DEF Worth
<1>6. Flow(Handlers)'
  BY <1>1, <1>4 DEF Flow, Messages, DriverInv
<1> QED BY <1>1, <1>2, <1>4, <1>5, <1>6, DriverStill

LEMMA DriverFlow ==
  ASSUME DriverInv, NEW h \in Handlers, Driver!NextFlow(h)
  PROVE  DriverInv' /\ DriverKeeps
<1>0. Flow(Handlers) /\ IsFiniteSet(Handlers)
  BY HandlersAssumption DEF DriverInv
<1>1. ~Running(h)
  BY DriverRunning DEF Driver!NextFlow
<1>2. left' \in Seq(Driver!Flows)
  BY DEF Driver!NextFlow, DriverInv
<1>3. DriverAnew(h)
  BY <1>0, DriverDo DEF Driver!NextFlow
<1>4. Clear(h) /\ run[h].op = "none"
  BY <1>0, <1>1, ClearIs, RestsIs
<1>5. CASE Decline(h)
  <2>1. /\ Flow(Handlers)' /\ run' = [run EXCEPT ![h] = Idle]
        /\ Promised(Handlers, {"look"})' /\ Closed(Handlers)' /\ Emptied(Handlers, {"claim"})' /\ Drawn(Handlers)'
    BY <1>0, <1>1, <1>4, <1>5, DeclineKeeps DEF DriverInv
  <2>2. run'[h] = Idle /\ run'[h].pc = "idle" /\ run' = [run EXCEPT ![h] = run'[h]]
    BY <1>0, <2>1, IdlePc
  <2>3. \A g \in Handlers : ~Ends(g)
    BY <1>0, <2>2, EndsBecome
  <2>4. \A g \in Handlers : run[g].op = "none" \/ run'[g].op = run[g].op
    BY <1>0, <1>4, <2>2, Repend
  <2>5. \A g \in Handlers : Driver!DrawdownOnly(g)
    BY <2>1, <2>4, DrawnDown
  <2>6. DriverInv'
    BY <1>2, <2>1 DEF DriverInv
  <2> QED BY <2>3, <2>5, <2>6, DriverNoEnd
<1>6. ASSUME NEW op \in DriverOps, NEW P, NEW goal, Plan(h, {"look"}, op, P, goal), Holding({"claim"}, P, Nil, Nil),
             op = "withdraw" => \E m \in Nat : acct.base >= m /\ Along(Nat, Draws, P, m, 0)
      PROVE  DriverInv' /\ DriverKeeps
  <2>1. /\ Flow(Handlers)' /\ torn' = torn /\ acct' = acct /\ run' = [run EXCEPT ![h] = run'[h]]
        /\ run'[h].pc = "next" /\ run'[h].op = op /\ PendOf(run'[h]) = P
        /\ Promised(Handlers, {"look"})' /\ Closed(Handlers)' /\ Emptied(Handlers, {"claim"})'
    BY <1>0, <1>1, <1>4, <1>6, BeginKeeps DEF DriverInv
  <2>2. \A g \in Handlers : ~Ends(g)
    BY <1>0, <2>1, EndsBecome
  <2>3. Drawn(Handlers)'
    BY <1>0, <1>6, <2>1, AnewDrawn DEF DriverInv, Ready
  <2>4. \A g \in Handlers : run[g].op = "none" \/ run'[g].op = run[g].op
    BY <1>0, <1>4, <2>1, Repend
  <2>5. \A g \in Handlers : Driver!DrawdownOnly(g)
    BY <2>1, <2>3, <2>4, DrawnDown
  <2>6. DriverInv'
    BY <1>2, <2>1, <2>3 DEF DriverInv
  <2> QED BY <2>2, <2>5, <2>6, DriverNoEnd
<1> QED BY <1>3, <1>5, <1>6 DEF DriverAnew

LEMMA DriverDies ==
  ASSUME DriverInv, NEW h \in Handlers, Driver!Die(h)
  PROVE  DriverInv' /\ DriverKeeps
<1>0. Flow(Handlers) /\ IsFiniteSet(Handlers)
  BY HandlersAssumption DEF DriverInv
<1>1. left' \in Seq(Driver!Flows)
  BY DEF Driver!Die
<1>2. CASE Fail(h)
  <2>1. Flow(Handlers)' /\ torn' = TRUE /\ acct' = acct /\ run' = [run EXCEPT ![h] = Idle]
    BY <1>0, <1>2, FailFlows
  <2>2. Promised(Handlers, {"look"})' /\ Closed(Handlers)' /\ Emptied(Handlers, {"claim"})' /\ Drawn(Handlers)'
    BY <1>0, <1>2, FailKeeps DEF DriverInv
  <2>3. run'[h] = Idle /\ run'[h].pc = "idle" /\ run' = [run EXCEPT ![h] = run'[h]]
    BY <1>0, <2>1, IdlePc
  <2>4. \A g \in Handlers : ~Ends(g)
    BY <1>0, <2>3, EndsBecome
  <2>5. \A g \in Handlers : run'[g].op \in {run[g].op, "none"}
    BY <1>0, <2>3, Repend, IdleIs
  <2>6. \A g \in Handlers : Driver!DrawdownOnly(g)
    BY <2>1, <2>2, <2>5, DrawnDown
  <2>7. DriverInv'
    BY <1>1, <2>1, <2>2 DEF DriverInv
  <2> QED BY <2>4, <2>6, <2>7, DriverNoEnd
<1>3. CASE UNCHANGED Driver!flowVars
  <2>1. acct' = acct /\ net' = net /\ run' = run /\ torn' = torn
    BY <1>3 DEF Driver!flowVars
  <2>2. Flow(Handlers)'
    BY <1>0, <2>1 DEF Flow, Messages
  <2> QED BY <1>1, <2>1, <2>2, DriverStill
<1> QED BY <1>2, <1>3, DriverFail DEF Driver!Die

LEMMA DriverNext ==
  ASSUME DriverInv, Driver!Next
  PROVE  DriverInv' /\ DriverKeeps
<1>0. Flow(Handlers)
  BY DEF DriverInv
<1>1. ASSUME NEW h \in Handlers, Driver!Step(h) PROVE DriverInv' /\ DriverKeeps
  <2>0. left' = left
    BY <1>1 DEF Driver!Step
  <2>1. CASE Driver!Skip(h)
    <3>1. Skip(h)
      BY <2>1, DriverSkip
    <3> QED BY <1>0, <2>0, <3>1, SkipGoes, DriverGoes
  <2>2. CASE Driver!Ask(h)
    BY <1>0, <2>0, <2>2, DriverAsk, AskGoes, DriverGoes
  <2>3. CASE Driver!Sign(h)
    BY <1>0, <2>0, <2>3, DriverSign, SignGoes, DriverGoes
  <2>4. CASE Driver!Confirm(h, "none")
    BY <1>0, <2>0, <2>4, DriverConfirm, ConfirmGoes, DriverGoes
  <2> QED BY <1>1, <2>1, <2>2, <2>3, <2>4 DEF Driver!Step
<1>2. \/ Driver!Chain
      \/ \E h \in Handlers : (\E seq \in DriverCommands : Driver!Launch(h, seq)) \/ Driver!NextFlow(h) \/ Driver!Step(h) \/ Driver!Die(h)
  BY DEF Driver!Next
<1> QED BY <1>1, <1>2, DriverChain, DriverLaunch, DriverFlow, DriverDies

LEMMA DriverTypesOK ==
  ASSUME DriverInv
  PROVE  Driver!DriverTypeOK
BY DriverTypes DEF DriverInv, Driver!DriverTypeOK

(* At rest.                                                                *)
LEMMA DriverRests ==
  ASSUME DriverInv
  PROVE  Driver!DrivenClean
<1>0. Flow(Handlers) /\ IsFiniteSet(Handlers) /\ Base \in Assets /\ Driver!Assets = Assets
  BY HandlersAssumption DEF DriverInv, Assets, Driver!Assets
<1>1. \A h : Driver!Running(h) <=> Running(h)
  BY DriverRunning
<1>2. ASSUME ~torn, \A h \in Handlers : ~Running(h)
      PROVE  /\ acct.held[Base] = 0 /\ \A a \in Assets : acct.allow[a] = 0
             /\ (\E a \in Assets : acct.held[a] > 0) => acct.claimed
  <2>1. \A a \in Assets : acct.allow[a] = 0
    BY <1>0, <1>2, RestClosed DEF DriverInv
  <2>2. \A a \in Assets : ({"claim"} # {} /\ a # Base /\ acct.claimed) \/ acct.held[a] = 0
    BY <1>0, <1>2, RestEmptied DEF DriverInv
  <2> QED BY <1>0, <2>1, <2>2
<1> QED BY <1>0, <1>1, <1>2 DEF Driver!DrivenClean

(* At the outset: no wallet has anything with its synthetic.               *)
LEMMA NewIs ==
  /\ New \in Accts /\ SetUp \in Accts
  /\ \A s \in {New, SetUp} : \A a \in Assets : s.allow[a] = 0 /\ s.held[a] = 0
<1> DEFINE zero == [c \in Colls |-> 0]
<1>1. NoTokens \in [Assets -> Nat] /\ Ones \in [Assets -> Nat] /\ zero \in [Colls -> Nat] /\ \A a \in Assets : NoTokens[a] = 0
  BY DEF NoTokens, Ones
<1>2. New = [wallet |-> Ones, spl |-> Assets, held |-> NoTokens, ata |-> {}, pda |-> FALSE,
        allow |-> NoTokens, base |-> 0, coll |-> zero, alt |-> FALSE,
        claimed |-> FALSE, victim |-> "absorbed", seized |-> zero]
  BY DEF New
<1> HIDE DEF zero
<1>3. New \in Accts /\ New.allow = NoTokens /\ New.held = NoTokens
  BY <1>1, <1>2 DEF Accts, AmountPer
<1>4. SetUp \in Accts /\ SetUp.allow = New.allow /\ SetUp.held = New.held
  BY <1>3 DEF SetUp, Accts
<1> QED BY <1>1, <1>3, <1>4

Fresh(s) == s \in Accts /\ \A a \in Assets : s.allow[a] = 0 /\ s.held[a] = 0

LEMMA BaseOnlyIs ==
  ASSUME NEW s, Fresh(s)
  PROVE  Fresh(BaseOnly(s))
<1> DEFINE w == [NoTokens EXCEPT ![Base] = 1]
           one == {Base}
<1>1. w \in [Assets -> Nat] /\ one \in SUBSET Assets
  BY DEF NoTokens, Assets
<1>2. BaseOnly(s) = [s EXCEPT !.wallet = w, !.spl = one]
  BY DEF BaseOnly
<1> HIDE DEF w, one
<1> QED BY <1>1, <1>2 DEF Fresh, Accts, AmountPer

LEMMA FreshWith ==
  ASSUME NEW s, Fresh(s)
  PROVE  /\ Fresh([s EXCEPT !.claimed = TRUE, !.victim = "under"])
         /\ Fresh([s EXCEPT !.ata = Assets, !.pda = TRUE])
BY DEF Fresh, Accts, AmountPer

LEMMA StartsFresh ==
  ASSUME NEW s \in SteadyStarts \cup SwitchedStarts \cup DriverStarts
  PROVE  Fresh(s)
<1>1. Fresh(New) /\ Fresh(SetUp)
  BY NewIs DEF Fresh
<1> DEFINE p == [New EXCEPT !.claimed = TRUE, !.victim = "under"]
           q == [New EXCEPT !.ata = Assets, !.pda = TRUE]
<1>2. Fresh(p) /\ Fresh(q)
  BY <1>1, FreshWith
<1>3. s \in {BaseOnly(New), BaseOnly(p), BaseOnly(SetUp), New, BaseOnly(q)}
  BY DEF SteadyStarts, SwitchedStarts, DriverStarts
<1> HIDE DEF p, q
<1> QED BY <1>1, <1>2, <1>3, BaseOnlyIs

LEMMA HarnessStart ==
  ASSUME Harness!Init
  PROVE  HarnessInv /\ reconnects = 0
<1>1. /\ acct \in SteadyStarts \cup SwitchedStarts
      /\ net = {} /\ run = [h \in TwoHandlers |-> Harness!Idle] /\ torn = FALSE
      /\ busy = TRUE /\ loading = TRUE /\ stranded = Harness!Unchecked /\ reconnects = 0
  BY DEF Harness!Init, Harness!FlowInit
<1>2. Fresh(acct)
  BY <1>1, StartsFresh
<1>3. IsFiniteSet(TwoHandlers) /\ run = [h \in TwoHandlers |-> Idle]
  BY <1>1, TwoAssumption, HarnessIdle
<1>4. /\ Flow(TwoHandlers) /\ Promised(TwoHandlers, {"look"}) /\ Closed(TwoHandlers) /\ Emptied(TwoHandlers, {})
      /\ \A h \in TwoHandlers : ~Running(h)
  BY <1>1, <1>2, <1>3, StartKeeps DEF Fresh
<1>5. Flags /\ Guarded
  BY <1>1, <1>4 DEF Flags, Guarded
<1> QED BY <1>1, <1>4, <1>5 DEF HarnessInv, Emptying

LEMMA DriverStart ==
  ASSUME Driver!Init
  PROVE  DriverInv
<1>1. /\ acct \in DriverStarts
      /\ net = {} /\ run = [h \in Handlers |-> Driver!Idle] /\ torn = FALSE /\ left = <<>>
  BY DEF Driver!Init, Driver!FlowInit
<1>2. Fresh(acct)
  BY <1>1, StartsFresh
<1>3. IsFiniteSet(Handlers) /\ run = [h \in Handlers |-> Idle]
  BY <1>1, HandlersAssumption, DriverIdle
<1>4. /\ Flow(Handlers) /\ Promised(Handlers, {"look"}) /\ Closed(Handlers) /\ Emptied(Handlers, {"claim"})
      /\ Drawn(Handlers)
  BY <1>1, <1>2, <1>3, StartKeeps DEF Fresh
<1> QED BY <1>1, <1>4 DEF DriverInv

-----------------------------------------------------------------------------
(* The history: what is listed landed and is listed once; the log's lines are *)
(* listed unless the list was cleared; a transaction still waited for is not *)
(* listed in its tab, so that its line comes first.                        *)
Entries == [sig : TwoSigs, label : {"session", "chain"}]
Tidy(l, done) ==
  l \subseteq Entries /\ (\A d, e \in l : d.sig = e.sig => d = e) /\ \A e \in l : e.sig \in done
Lines(lines, l, wiped, since) ==
  \A s \in lines : /\ (\E e \in l : e.sig = s) \/ wiped = TRUE
                   /\ History!Entry(s, "chain") \in l => since = TRUE
TabInv(t) ==
  /\ Tidy(history[t], landed) /\ log[t] \subseteq landed
  /\ Lines(log[t], history[t], cleared[t], ever[t])
  /\ cleared[t] => ever[t]
  /\ busy[t] \in TwoSigs => busy[t] \notin log[t] /\ \A e \in history[t] : e.sig # busy[t]
  /\ asked[t] # "none" => busy[t] = "idle"
HistoryInv ==
  /\ History!HistoryTypeOK /\ Tidy(storage, landed) /\ \A t \in Tabs : TabInv(t)
  /\ \A s \in landed : sender[s] # "none"
  /\ alone => \A t \in Tabs : \E u \in Tabs : history[u] = storage

HistoryTypes ==
  /\ sender \in [TwoSigs -> Wallets \cup {"none"}] /\ landed \in SUBSET TwoSigs
  /\ storage \in SUBSET Entries
  /\ log \in [Tabs -> SUBSET TwoSigs] /\ history \in [Tabs -> SUBSET Entries]
  /\ busy \in [Tabs -> TwoSigs \cup {"idle", "reads"}] /\ asked \in [Tabs -> Wallets \cup {"none"}]
  /\ who \in [Tabs -> Wallets \cup {"none"}]
  /\ loads \in Nat /\ alone \in BOOLEAN
  /\ cleared \in [Tabs -> BOOLEAN] /\ ever \in [Tabs -> BOOLEAN]

LEMMA HistoryTypesAre == History!HistoryTypeOK <=> HistoryTypes
BY DEF History!HistoryTypeOK, HistoryTypes, Entries, History!Idle, History!Labels

LEMMA EntryIs ==
  ASSUME NEW s \in TwoSigs, NEW label \in {"session", "chain"}
  PROVE  History!Entry(s, label) \in Entries /\ History!Entry(s, label).sig = s /\ History!Entry(s, label).label = label
BY DEF History!Entry, Entries

LEMMA SigsAre ==
  ASSUME NEW l, NEW s
  PROVE  s \in History!SigsOf(l) <=> \E e \in l : e.sig = s
BY DEF History!SigsOf

(* Entries of signatures that are not listed yet.                          *)
Added(l, lines, label) == {History!Entry(s, label) : s \in lines \ History!SigsOf(l)}

Grown(l, done, lines, label) ==
  LET new == l \cup Added(l, lines, label)
  IN /\ Tidy(new, done) /\ \A s \in lines : \E e \in new : e.sig = s
     /\ \A e \in new : e \in l \/ (e.label = label /\ e.sig \in lines /\ \A d \in l : d.sig # e.sig)

LEMMA TidyAdd ==
  ASSUME NEW l, NEW done \in SUBSET TwoSigs, Tidy(l, done), NEW lines \in SUBSET done, NEW label \in {"session", "chain"}
  PROVE  Grown(l, done, lines, label)
<1> DEFINE add == {History!Entry(s, label) : s \in lines \ History!SigsOf(l)}
           new == l \cup add
<1>1. \A e \in add : e \in Entries /\ e.label = label /\ e.sig \in lines /\ e = History!Entry(e.sig, label) /\ \A d \in l : d.sig # e.sig
  <2> TAKE e \in add
  <2>1. PICK s \in lines \ History!SigsOf(l) : e = History!Entry(s, label)
    OBVIOUS
  <2>2. s \in TwoSigs
    OBVIOUS
  <2>3. e \in Entries /\ e.sig = s /\ e.label = label
    BY <2>1, <2>2, EntryIs
  <2> QED BY <2>1, <2>3, SigsAre
<1>2. \A s \in lines : \E e \in new : e.sig = s
  <2> TAKE s \in lines
  <2>1. CASE s \in History!SigsOf(l)
    BY <2>1, SigsAre
  <2>2. CASE s \notin History!SigsOf(l)
    <3>1. History!Entry(s, label) \in add
      BY <2>2
    <3>2. History!Entry(s, label).sig = s
      BY EntryIs
    <3> QED BY <3>1, <3>2
  <2> QED BY <2>1, <2>2
<1> HIDE DEF add
<1>3. new \subseteq Entries /\ \A e \in new : e.sig \in done
  BY <1>1 DEF Tidy
<1>4. \A d, e \in new : d.sig = e.sig => d = e
  <2> TAKE d, e \in new
  <2>1. CASE d \in l /\ e \in l
    BY <2>1 DEF Tidy
  <2>2. CASE d \in add /\ e \in add
    BY <1>1, <2>2
  <2>3. CASE (d \in l /\ e \in add) \/ (d \in add /\ e \in l)
    BY <1>1, <2>3
  <2> QED BY <2>1, <2>2, <2>3
<1>5. \A e \in new : e \in l \/ (e.label = label /\ e.sig \in lines /\ \A d \in l : d.sig # e.sig)
  BY <1>1
<1>6. Tidy(new, done)
  BY <1>3, <1>4 DEF Tidy
<1> QED BY <1>2, <1>5, <1>6 DEF add, Added, Grown

(* append: what a line does to the list, the storage and the log.          *)
LEMMA Appends ==
  ASSUME HistoryTypes, NEW t \in Tabs, NEW sigs \in SUBSET landed, NEW list, Tidy(list, landed), Tidy(storage, landed),
         log[t] \subseteq landed, History!Append(t, sigs, list),
         alone => \A g \in Tabs : \E u \in Tabs : history[u] = storage
  PROVE  /\ history' = [history EXCEPT ![t] = history'[t]] /\ log' = [log EXCEPT ![t] = log[t] \cup sigs]
         /\ Tidy(history'[t], landed) /\ Tidy(storage', landed)
         /\ \A s \in log[t] \cup sigs : \E e \in history'[t] : e.sig = s
         /\ \A e \in history'[t] : e \in list \/ (e.label = "session" /\ e.sig \in log[t] \cup sigs)
         /\ cleared' = [cleared EXCEPT ![t] = FALSE] /\ who' = who /\ loads' = loads /\ ever' = ever
         /\ alone' \in BOOLEAN
         /\ alone' => \A g \in Tabs : \E u \in Tabs : history'[u] = storage'
<1> DEFINE lines == log[t] \cup sigs
           add == Added(list, lines, "session")
           new == list \cup add
<1>0. history \in [Tabs -> SUBSET Entries] /\ landed \in SUBSET TwoSigs /\ lines \in SUBSET landed /\ alone \in BOOLEAN
  BY DEF HistoryTypes
<1>1. /\ Tidy(new, landed) /\ \A s \in lines : \E e \in new : e.sig = s
      /\ \A e \in new : e \in list \/ (e.label = "session" /\ e.sig \in lines)
  <2> HIDE DEF lines
  <2>1. landed \in SUBSET TwoSigs /\ lines \in SUBSET landed /\ "session" \in {"session", "chain"}
    BY <1>0
  <2>2. Grown(list, landed, lines, "session")
    BY <2>1, TidyAdd
  <2> QED BY <2>2 DEF Grown
<1>2. /\ log' = [log EXCEPT ![t] = log[t] \cup sigs]
      /\ cleared' = [cleared EXCEPT ![t] = FALSE] /\ who' = who /\ loads' = loads /\ ever' = ever
      /\ \/ add = {} /\ list = history[t] /\ history' = history /\ storage' = storage /\ alone' = alone
         \/ history' = [history EXCEPT ![t] = new] /\ History!Save(t, new)
  BY DEF History!Append, History!Scrape, Added
<1> HIDE DEF add
<1>3. CASE add = {} /\ list = history[t] /\ history' = history /\ storage' = storage /\ alone' = alone
  <2>1. history'[t] = new /\ history' = [history EXCEPT ![t] = history'[t]]
    BY <1>0, <1>3
  <2> QED BY <1>0, <1>1, <1>2, <1>3, <2>1
<1>4. CASE history' = [history EXCEPT ![t] = new] /\ History!Save(t, new)
  <2>1. history'[t] = new /\ history' = [history EXCEPT ![t] = history'[t]]
    BY <1>0, <1>4
  <2>2. (storage' = new \/ (storage' = storage /\ alone' = FALSE)) /\ alone' \in BOOLEAN
    BY <1>0, <1>4 DEF History!Save
  <2>3. alone' => \A g \in Tabs : \E u \in Tabs : history'[u] = storage'
    BY <2>1, <2>2
  <2> QED BY <1>0, <1>1, <1>2, <2>1, <2>2, <2>3
<1> QED BY <1>2, <1>3, <1>4

LEMMA OneTab ==
  ASSUME NEW t \in Tabs, \A g \in Tabs : TabInv(g), landed' = landed, TabInv(t)',
         \A g \in Tabs : g # t =>
           /\ history'[g] = history[g] /\ log'[g] = log[g] /\ cleared'[g] = cleared[g] /\ ever'[g] = ever[g]
           /\ busy'[g] = busy[g] /\ asked'[g] = asked[g]
  PROVE  \A g \in Tabs : TabInv(g)'
<1> SUFFICES ASSUME NEW g \in Tabs, g # t PROVE TabInv(g)'
  OBVIOUS
<1>1. TabInv(g)
  OBVIOUS
<1>2. /\ history'[g] = history[g] /\ log'[g] = log[g] /\ cleared'[g] = cleared[g] /\ ever'[g] = ever[g]
      /\ busy'[g] = busy[g] /\ asked'[g] = asked[g]
  OBVIOUS
<1> QED BY <1>1, <1>2 DEF TabInv, Tidy, Lines

(* A step that ends in a line.                                             *)
LEMMA AppendStep ==
  ASSUME HistoryInv, NEW t \in Tabs, NEW sigs \in SUBSET landed, NEW list, History!Append(t, sigs, list),
         landed' = landed, sender' \in [TwoSigs -> Wallets \cup {"none"}], \A s \in landed : sender'[s] # "none",
         busy' = [busy EXCEPT ![t] = busy'[t]], busy'[t] \in TwoSigs \cup {"idle", "reads"},
         asked' = [asked EXCEPT ![t] = asked'[t]], asked'[t] \in Wallets \cup {"none"},
         Tidy(list, landed), \A s \in log[t] \cup sigs : History!Entry(s, "chain") \in list => ever[t] = TRUE,
         busy'[t] \in TwoSigs => busy'[t] \notin log[t] \cup sigs /\ \A e \in list : e.sig # busy'[t],
         asked'[t] # "none" => busy'[t] = "idle"
  PROVE  HistoryInv'
<1>0. HistoryTypes /\ \A g \in Tabs : TabInv(g)
  BY HistoryTypesAre DEF HistoryInv
<1>1. /\ log \in [Tabs -> SUBSET TwoSigs] /\ history \in [Tabs -> SUBSET Entries] /\ landed \in SUBSET TwoSigs
      /\ busy \in [Tabs -> TwoSigs \cup {"idle", "reads"}] /\ asked \in [Tabs -> Wallets \cup {"none"}]
      /\ who \in [Tabs -> Wallets \cup {"none"}] /\ loads \in Nat
      /\ cleared \in [Tabs -> BOOLEAN] /\ ever \in [Tabs -> BOOLEAN]
  BY <1>0 DEF HistoryTypes
<1>2. log[t] \subseteq landed
  BY <1>0 DEF TabInv
<1>3. /\ history' = [history EXCEPT ![t] = history'[t]] /\ log' = [log EXCEPT ![t] = log[t] \cup sigs]
      /\ Tidy(history'[t], landed) /\ Tidy(storage', landed)
      /\ \A s \in log[t] \cup sigs : \E e \in history'[t] : e.sig = s
      /\ \A e \in history'[t] : e \in list \/ (e.label = "session" /\ e.sig \in log[t] \cup sigs)
      /\ cleared' = [cleared EXCEPT ![t] = FALSE] /\ who' = who /\ loads' = loads /\ ever' = ever
      /\ alone' \in BOOLEAN
      /\ alone' => \A g \in Tabs : \E u \in Tabs : history'[u] = storage'
  BY <1>0, <1>2, Appends DEF HistoryInv
<1>4. history'[t] \in SUBSET Entries /\ storage' \in SUBSET Entries
  BY <1>3 DEF Tidy
<1>5. log'[t] = log[t] \cup sigs /\ cleared'[t] = FALSE /\ ever'[t] = ever[t]
  BY <1>1, <1>3
<1>6. HistoryTypes'
  <2>1. history' \in [Tabs -> SUBSET Entries]
    BY <1>1, <1>3, <1>4
  <2>2. log' \in [Tabs -> SUBSET TwoSigs]
    BY <1>1, <1>3
  <2>3. busy' \in [Tabs -> TwoSigs \cup {"idle", "reads"}] /\ asked' \in [Tabs -> Wallets \cup {"none"}]
    BY <1>1
  <2>4. cleared' \in [Tabs -> BOOLEAN]
    BY <1>1, <1>3
  <2> QED BY <1>1, <1>3, <1>4, <2>1, <2>2, <2>3, <2>4 DEF HistoryTypes
<1>7. Lines(log'[t], history'[t], cleared'[t], ever'[t])
  <2> SUFFICES ASSUME NEW s \in log[t] \cup sigs
               PROVE  /\ \E e \in history'[t] : e.sig = s
                      /\ History!Entry(s, "chain") \in history'[t] => ever[t] = TRUE
    BY <1>5 DEF Lines
  <2>1. s \in TwoSigs
    BY <1>1
  <2>2. History!Entry(s, "chain").label # "session"
    BY <2>1, EntryIs
  <2> QED BY <1>3, <2>2
<1>8. ASSUME busy'[t] \in TwoSigs
      PROVE  busy'[t] \notin log'[t] /\ \A e \in history'[t] : e.sig # busy'[t]
  BY <1>3, <1>5, <1>8
<1>9. ever[t] \in BOOLEAN
  BY <1>1
<1>10. TabInv(t)'
  BY <1>2, <1>3, <1>5, <1>7, <1>8 DEF TabInv
<1>11. \A g \in Tabs : g # t =>
           /\ history'[g] = history[g] /\ log'[g] = log[g] /\ cleared'[g] = cleared[g] /\ ever'[g] = ever[g]
           /\ busy'[g] = busy[g] /\ asked'[g] = asked[g]
  BY <1>1, <1>3
<1>12. \A g \in Tabs : TabInv(g)'
  BY <1>0, <1>10, <1>11, OneTab
<1>13. History!HistoryTypeOK'
  BY <1>6, HistoryTypesAre DEF History!HistoryTypeOK, HistoryTypes, Entries, History!Idle, History!Labels
<1> QED BY <1>3, <1>12, <1>13 DEF HistoryInv

(* What the parts of the history's invariant say.                          *)
LEMMA HistoryIs ==
  ASSUME HistoryInv
  PROVE  /\ HistoryTypes /\ Tidy(storage, landed)
         /\ \A t \in Tabs : TabInv(t) /\ Tidy(history[t], landed) /\ log[t] \subseteq landed
         /\ \A t \in Tabs : \A s \in log[t] : History!Entry(s, "chain") \in history[t] => ever[t] = TRUE
         /\ \A t \in Tabs : busy[t] \in TwoSigs => busy[t] \notin log[t] /\ \A e \in history[t] : e.sig # busy[t]
         /\ \A t \in Tabs : asked[t] # "none" => busy[t] = "idle"
         /\ \A s \in landed : sender[s] # "none"
BY HistoryTypesAre DEF HistoryInv, TabInv, Lines

(* A line of a tab that leaves the list to the log.                        *)
LEMMA LineStep ==
  ASSUME HistoryInv, NEW t \in Tabs, History!Line(t), landed' = landed,
         sender' \in [TwoSigs -> Wallets \cup {"none"}], \A s \in landed : sender'[s] # "none",
         busy' = [busy EXCEPT ![t] = busy'[t]], busy'[t] \in TwoSigs \cup {"idle", "reads"},
         asked' = [asked EXCEPT ![t] = asked'[t]], asked'[t] \in Wallets \cup {"none"},
         busy'[t] \in TwoSigs => busy'[t] \notin log[t] /\ \A e \in history[t] : e.sig # busy'[t],
         asked'[t] # "none" => busy'[t] = "idle"
  PROVE  HistoryInv'
<1>1. {} \in SUBSET landed /\ log[t] \cup {} = log[t]
  OBVIOUS
<1>2. History!Append(t, {}, history[t])
  BY DEF History!Line
<1>3. Tidy(history[t], landed) /\ \A s \in log[t] \cup {} : History!Entry(s, "chain") \in history[t] => ever[t] = TRUE
  BY HistoryIs
<1> QED BY <1>1, <1>2, <1>3, AppendStep

LEMMA SubmitStep ==
  ASSUME HistoryInv, NEW t \in Tabs, NEW s \in TwoSigs, History!Submit(t, s)
  PROVE  HistoryInv'
<1>1. HistoryTypes /\ Tidy(history[t], landed) /\ log[t] \subseteq landed /\ \A r \in landed : sender[r] # "none"
  BY HistoryIs
<1>2. /\ busy \in [Tabs -> TwoSigs \cup {"idle", "reads"}] /\ asked \in [Tabs -> Wallets \cup {"none"}]
      /\ who \in [Tabs -> Wallets \cup {"none"}] /\ sender \in [TwoSigs -> Wallets \cup {"none"}]
  BY <1>1 DEF HistoryTypes
<1>3. /\ who[t] # "none" /\ asked[t] = "none" /\ sender[s] = "none"
      /\ busy' = [busy EXCEPT ![t] = s] /\ sender' = [sender EXCEPT ![s] = who[t]]
      /\ History!Line(t) /\ landed' = landed /\ asked' = asked
  BY DEF History!Submit, History!Free
<1>4. s \notin landed
  BY <1>1, <1>3
<1>5. s \notin log[t] /\ \A e \in history[t] : e.sig # s
  BY <1>1, <1>4 DEF Tidy
<1>6. busy'[t] = s /\ busy' = [busy EXCEPT ![t] = busy'[t]] /\ asked'[t] = "none" /\ asked' = [asked EXCEPT ![t] = asked'[t]]
  BY <1>2, <1>3
<1>7. sender' \in [TwoSigs -> Wallets \cup {"none"}] /\ \A r \in landed : sender'[r] # "none"
  BY <1>1, <1>2, <1>3, <1>4
<1> QED BY <1>2, <1>3, <1>5, <1>6, <1>7, LineStep

(* Handlers that end, reads, and lines that change nothing else.           *)
LEMMA QuietStep ==
  ASSUME HistoryInv, NEW t \in Tabs, History!Line(t), UNCHANGED <<sender, landed, asked>>,
         \/ busy' = [busy EXCEPT ![t] = "idle"] \/ busy' = busy
         \/ busy' = [busy EXCEPT ![t] = "reads"] /\ asked[t] = "none"
  PROVE  HistoryInv'
<1>1. /\ HistoryTypes /\ \A r \in landed : sender[r] # "none"
      /\ busy[t] \in TwoSigs => busy[t] \notin log[t] /\ \A e \in history[t] : e.sig # busy[t]
      /\ asked[t] # "none" => busy[t] = "idle"
  BY HistoryIs
<1>2. /\ busy \in [Tabs -> TwoSigs \cup {"idle", "reads"}] /\ asked \in [Tabs -> Wallets \cup {"none"}]
      /\ sender \in [TwoSigs -> Wallets \cup {"none"}]
  BY <1>1 DEF HistoryTypes
<1>3. /\ busy' = [busy EXCEPT ![t] = busy'[t]] /\ asked' = [asked EXCEPT ![t] = asked'[t]]
      /\ busy'[t] \in {"idle", busy[t]} \/ (busy'[t] = "reads" /\ asked[t] = "none")
      /\ asked'[t] = asked[t]
  BY <1>2
<1>4. "idle" \notin TwoSigs /\ "reads" \notin TwoSigs
  BY NamesAssumption
<1>5. busy'[t] \in TwoSigs => busy'[t] \notin log[t] /\ \A e \in history[t] : e.sig # busy'[t]
  BY <1>1, <1>3, <1>4
<1>6. asked'[t] # "none" => busy'[t] = "idle"
  BY <1>1, <1>3
<1>7. busy'[t] \in TwoSigs \cup {"idle", "reads"} /\ asked'[t] \in Wallets \cup {"none"}
  BY <1>2, <1>3
<1>8. sender' \in [TwoSigs -> Wallets \cup {"none"}] /\ \A s \in landed : sender'[s] # "none"
  BY <1>1, <1>2
<1> QED BY <1>3, <1>5, <1>6, <1>7, <1>8, LineStep

LEMMA LandedStep ==
  ASSUME HistoryInv, NEW t \in Tabs, History!Landed(t)
  PROVE  HistoryInv'
<1>1. /\ HistoryTypes /\ \A r \in landed : sender[r] # "none"
      /\ Tidy(history[t], landed)
      /\ \A s \in log[t] : History!Entry(s, "chain") \in history[t] => ever[t] = TRUE
      /\ busy[t] \in TwoSigs => busy[t] \notin log[t] /\ \A e \in history[t] : e.sig # busy[t]
      /\ asked[t] # "none" => busy[t] = "idle"
  BY HistoryIs
<1>2. /\ busy \in [Tabs -> TwoSigs \cup {"idle", "reads"}] /\ asked \in [Tabs -> Wallets \cup {"none"}]
      /\ sender \in [TwoSigs -> Wallets \cup {"none"}] /\ landed \in SUBSET TwoSigs
  BY <1>1 DEF HistoryTypes
<1>3. /\ busy[t] \in landed /\ History!Append(t, {busy[t]}, history[t])
      /\ busy' = [busy EXCEPT ![t] = "idle"] /\ UNCHANGED <<sender, landed, asked>>
  BY DEF History!Landed, History!Idle
<1>4. "idle" \notin TwoSigs
  BY NamesAssumption
<1>5. History!Entry(busy[t], "chain") \notin history[t]
  <2>1. History!Entry(busy[t], "chain").sig = busy[t]
    BY <1>2, <1>3, EntryIs
  <2> QED BY <1>1, <1>2, <1>3, <2>1
<1>6. \A s \in log[t] \cup {busy[t]} : History!Entry(s, "chain") \in history[t] => ever[t] = TRUE
  BY <1>1, <1>5
<1>7. busy'[t] = "idle" /\ busy' = [busy EXCEPT ![t] = busy'[t]] /\ asked'[t] = asked[t] /\ asked' = [asked EXCEPT ![t] = asked'[t]]
  BY <1>2, <1>3
<1>8. /\ sender' \in [TwoSigs -> Wallets \cup {"none"}] /\ \A s \in landed : sender'[s] # "none"
      /\ busy'[t] \in TwoSigs \cup {"idle", "reads"} /\ asked'[t] \in Wallets \cup {"none"}
  BY <1>1, <1>2, <1>3, <1>7
<1>9. {busy[t]} \in SUBSET landed
  BY <1>3
<1> QED BY <1>1, <1>3, <1>4, <1>6, <1>7, <1>8, <1>9, AppendStep

(* The chain's answer: what of it is listed has no line, unless the list was cleared. *)
LEMMA AnswerStep ==
  ASSUME HistoryInv, NEW t \in Tabs, History!ChainAnswers(t)
  PROVE  HistoryInv'
<1> DEFINE mine == {s \in landed : sender[s] = asked[t]}
           list == history[t] \cup Added(history[t], mine, "chain")
<1>1. /\ HistoryTypes /\ \A r \in landed : sender[r] # "none"
      /\ Tidy(history[t], landed) /\ TabInv(t)
      /\ \A s \in log[t] : History!Entry(s, "chain") \in history[t] => ever[t] = TRUE
      /\ asked[t] # "none" => busy[t] = "idle"
  BY HistoryIs
<1>2. /\ busy \in [Tabs -> TwoSigs \cup {"idle", "reads"}] /\ asked \in [Tabs -> Wallets \cup {"none"}]
      /\ sender \in [TwoSigs -> Wallets \cup {"none"}] /\ landed \in SUBSET TwoSigs
      /\ log \in [Tabs -> SUBSET TwoSigs]
  BY <1>1 DEF HistoryTypes
<1>3. /\ asked[t] \in Wallets /\ asked' = [asked EXCEPT ![t] = "none"] /\ UNCHANGED <<sender, landed, busy>>
      /\ History!Append(t, {}, list) \/ History!Line(t)
  BY DEF History!ChainAnswers, Added
<1>4. asked[t] # "none" /\ "idle" \notin TwoSigs
  BY <1>3, NamesAssumption
<1>5. busy[t] = "idle"
  BY <1>1, <1>4
<1>6. mine \in SUBSET landed
  OBVIOUS
<1> HIDE DEF mine
<1>7. /\ Tidy(list, landed)
      /\ \A e \in list : e \in history[t] \/ (e.label = "chain" /\ e.sig \in mine /\ \A d \in history[t] : d.sig # e.sig)
  <2>1. landed \in SUBSET TwoSigs /\ Tidy(history[t], landed) /\ "chain" \in {"session", "chain"}
    BY <1>1, <1>2
  <2>2. Grown(history[t], landed, mine, "chain")
    BY <1>6, <2>1, TidyAdd
  <2> QED BY <2>2 DEF Grown
<1> HIDE DEF list
<1>8. \A s \in log[t] \cup {} : History!Entry(s, "chain") \in list => ever[t] = TRUE
  <2> SUFFICES ASSUME NEW s \in log[t], History!Entry(s, "chain") \in list, History!Entry(s, "chain") \notin history[t]
               PROVE  ever[t] = TRUE
    BY <1>1
  <2>1. s \in TwoSigs
    BY <1>2
  <2>2. History!Entry(s, "chain").sig = s
    BY <2>1, EntryIs
  <2>3. \A d \in history[t] : d.sig # s
    BY <1>7, <2>2
  <2>4. cleared[t] = TRUE
    BY <1>1, <2>3 DEF TabInv, Lines
  <2>5. ever[t] \in BOOLEAN
    BY <1>1 DEF HistoryTypes
  <2> QED BY <1>1, <2>4, <2>5 DEF TabInv
<1>9. busy'[t] = "idle" /\ busy' = [busy EXCEPT ![t] = busy'[t]] /\ asked'[t] = "none" /\ asked' = [asked EXCEPT ![t] = asked'[t]]
  BY <1>2, <1>3, <1>5
<1>10. sender' \in [TwoSigs -> Wallets \cup {"none"}] /\ \A s \in landed : sender'[s] # "none"
  BY <1>1, <1>2, <1>3
<1>11. CASE History!Append(t, {}, list)
  <2>1. {} \in SUBSET landed
    OBVIOUS
  <2> QED BY <1>3, <1>4, <1>7, <1>8, <1>9, <1>10, <1>11, <2>1, AppendStep
<1>12. CASE History!Line(t)
  BY <1>3, <1>4, <1>9, <1>10, <1>12, LineStep
<1> QED BY <1>3, <1>11, <1>12

(* What the steps of one tab keep that write no line.                      *)
LEMMA TabStep ==
  ASSUME HistoryInv, NEW t \in Tabs, UNCHANGED <<sender, landed>>, Tidy(storage', landed), HistoryTypes', TabInv(t)',
         \A g \in Tabs : g # t =>
           /\ history'[g] = history[g] /\ log'[g] = log[g] /\ cleared'[g] = cleared[g] /\ ever'[g] = ever[g]
           /\ busy'[g] = busy[g] /\ asked'[g] = asked[g],
         alone' => \A g \in Tabs : \E u \in Tabs : history'[u] = storage'
  PROVE  HistoryInv'
<1>1. (\A g \in Tabs : TabInv(g)) /\ \A s \in landed : sender[s] # "none"
  BY HistoryIs
<1>2. \A g \in Tabs : TabInv(g)'
  BY <1>1, OneTab
<1>3. History!HistoryTypeOK'
  BY HistoryTypesAre DEF History!HistoryTypeOK, HistoryTypes, Entries, History!Idle, History!Labels
<1> QED BY <1>1, <1>2, <1>3 DEF HistoryInv

LEMMA AskStep ==
  ASSUME HistoryInv, NEW t \in Tabs, History!LoadOnChainHistory(t)
  PROVE  HistoryInv'
<1>1. /\ HistoryTypes /\ TabInv(t) /\ Tidy(storage, landed)
  BY HistoryIs
<1>2. /\ who[t] # "none" /\ busy[t] = "idle" /\ asked' = [asked EXCEPT ![t] = who[t]]
      /\ UNCHANGED <<sender, landed, storage, log, history, busy, who, loads, cleared, ever, alone>>
  BY DEF History!LoadOnChainHistory, History!Free, History!Idle
<1>3. HistoryTypes'
  BY <1>1, <1>2 DEF HistoryTypes
<1>4. asked'[t] = who[t] /\ \A g \in Tabs : g # t => asked'[g] = asked[g]
  BY <1>1, <1>2 DEF HistoryTypes
<1>5. TabInv(t)'
  BY <1>1, <1>2, <1>4 DEF TabInv, Tidy, Lines
<1>6. alone' => \A g \in Tabs : \E u \in Tabs : history'[u] = storage'
  BY <1>2 DEF HistoryInv
<1> QED BY <1>1, <1>2, <1>3, <1>4, <1>5, <1>6, TabStep

LEMMA ClearLogStep ==
  ASSUME HistoryInv, NEW t \in Tabs, History!ClearLog(t)
  PROVE  HistoryInv'
<1>1. /\ HistoryTypes /\ TabInv(t) /\ Tidy(storage, landed)
  BY HistoryIs
<1>2. /\ log' = [log EXCEPT ![t] = {}]
      /\ UNCHANGED <<sender, landed, storage, history, busy, asked, who, loads, cleared, ever, alone>>
  BY DEF History!ClearLog
<1>3. HistoryTypes'
  BY <1>1, <1>2 DEF HistoryTypes
<1>4. log'[t] = {} /\ \A g \in Tabs : g # t => log'[g] = log[g]
  BY <1>1, <1>2 DEF HistoryTypes
<1>5. TabInv(t)'
  BY <1>1, <1>2, <1>4 DEF TabInv, Tidy, Lines
<1>6. alone' => \A g \in Tabs : \E u \in Tabs : history'[u] = storage'
  BY <1>2 DEF HistoryInv
<1> QED BY <1>1, <1>2, <1>3, <1>4, <1>5, <1>6, TabStep

LEMMA ClearStep ==
  ASSUME HistoryInv, NEW t \in Tabs, History!ClearHistory(t)
  PROVE  HistoryInv'
<1>1. /\ HistoryTypes /\ TabInv(t)
  BY HistoryIs
<1>2. /\ history' = [history EXCEPT ![t] = {}] /\ storage' = {}
      /\ alone' = (alone /\ storage = history[t])
      /\ cleared' = [cleared EXCEPT ![t] = TRUE] /\ ever' = [ever EXCEPT ![t] = TRUE]
      /\ UNCHANGED <<sender, landed, log, busy, asked, who, loads>>
  BY DEF History!ClearHistory
<1>3. HistoryTypes'
  BY <1>1, <1>2 DEF HistoryTypes
<1>4. /\ history'[t] = {} /\ cleared'[t] = TRUE /\ ever'[t] = TRUE
      /\ \A g \in Tabs : g # t => history'[g] = history[g] /\ cleared'[g] = cleared[g] /\ ever'[g] = ever[g]
  BY <1>1, <1>2 DEF HistoryTypes
<1>5. TabInv(t)'
  BY <1>1, <1>2, <1>4 DEF TabInv, Tidy, Lines
<1>6. alone' => \A g \in Tabs : \E u \in Tabs : history'[u] = storage'
  BY <1>2, <1>4
<1>7. Tidy(storage', landed)
  BY <1>2 DEF Tidy
<1> QED BY <1>2, <1>3, <1>4, <1>5, <1>6, <1>7, TabStep

LEMMA LoadStep ==
  ASSUME HistoryInv, NEW t \in Tabs, History!Load(t)
  PROVE  HistoryInv'
<1>1. /\ HistoryTypes /\ Tidy(storage, landed)
  BY HistoryIs
<1>2. /\ loads' = loads + 1
      /\ log' = [log EXCEPT ![t] = {}] /\ history' = [history EXCEPT ![t] = storage]
      /\ busy' = [busy EXCEPT ![t] = "idle"] /\ asked' = [asked EXCEPT ![t] = "none"]
      /\ cleared' = [cleared EXCEPT ![t] = FALSE] /\ ever' = [ever EXCEPT ![t] = FALSE]
      /\ UNCHANGED <<sender, landed, storage, who, alone>>
  BY DEF History!Load, History!Idle
<1>3. HistoryTypes'
  BY <1>1, <1>2 DEF HistoryTypes
<1>4. /\ history'[t] = storage /\ cleared'[t] = FALSE /\ ever'[t] = FALSE
      /\ log'[t] = {} /\ busy'[t] = "idle" /\ asked'[t] = "none"
      /\ \A g \in Tabs : g # t =>
           /\ history'[g] = history[g] /\ log'[g] = log[g] /\ cleared'[g] = cleared[g] /\ ever'[g] = ever[g]
           /\ busy'[g] = busy[g] /\ asked'[g] = asked[g]
  BY <1>1, <1>2 DEF HistoryTypes
<1>5. TabInv(t)'
  BY <1>1, <1>2, <1>4, NamesAssumption DEF TabInv, Tidy, Lines
<1>6. alone' => \A g \in Tabs : \E u \in Tabs : history'[u] = storage'
  BY <1>2, <1>4
<1> QED BY <1>1, <1>2, <1>3, <1>4, <1>5, <1>6, TabStep

LEMMA SwitchStep ==
  ASSUME HistoryInv, NEW t \in Tabs, History!Switch(t)
  PROVE  HistoryInv'
<1>1. /\ HistoryTypes /\ TabInv(t) /\ Tidy(storage, landed)
  BY HistoryIs
<1>2. /\ \E w \in Wallets \cup {"none"} : who' = [who EXCEPT ![t] = w]
      /\ UNCHANGED <<sender, landed, storage, log, history, busy, asked, loads, cleared, ever, alone>>
  BY DEF History!Switch
<1>3. HistoryTypes'
  BY <1>1, <1>2 DEF HistoryTypes
<1>5. TabInv(t)'
  BY <1>1, <1>2 DEF TabInv, Tidy, Lines
<1>6. alone' => \A g \in Tabs : \E u \in Tabs : history'[u] = storage'
  BY <1>2 DEF HistoryInv
<1> QED BY <1>1, <1>2, <1>3, <1>5, <1>6, TabStep

LEMMA ExecuteStep ==
  ASSUME HistoryInv, NEW s \in TwoSigs, History!Land(s)
  PROVE  HistoryInv'
<1>1. /\ HistoryTypes /\ Tidy(storage, landed) /\ (\A t \in Tabs : TabInv(t)) /\ \A r \in landed : sender[r] # "none"
  BY HistoryIs
<1>2. /\ sender[s] # "none" /\ landed' = landed \cup {s}
      /\ UNCHANGED <<sender, storage, log, history, busy, asked, who, loads, cleared, ever, alone>>
  BY DEF History!Land
<1>3. HistoryTypes'
  BY <1>1, <1>2 DEF HistoryTypes
<1>4. \A t \in Tabs : TabInv(t)'
  BY <1>1, <1>2 DEF TabInv, Tidy, Lines
<1>5. Tidy(storage', landed')
  BY <1>1, <1>2 DEF Tidy
<1>6. \A r \in landed' : sender'[r] # "none"
  BY <1>1, <1>2
<1>7. alone' => \A g \in Tabs : \E u \in Tabs : history'[u] = storage'
  BY <1>2 DEF HistoryInv
<1>8. History!HistoryTypeOK'
  BY <1>3, HistoryTypesAre DEF History!HistoryTypeOK, HistoryTypes, Entries, History!Idle, History!Labels
<1> QED BY <1>4, <1>5, <1>6, <1>7, <1>8 DEF HistoryInv

LEMMA HistoryNext ==
  ASSUME HistoryInv, History!Next
  PROVE  HistoryInv'
<1>1. ASSUME NEW t \in Tabs, \/ History!Failed(t) \/ History!RunPositions(t) \/ History!RunInspect(t)
                             \/ History!ReadsEnd(t) \/ History!ReadState(t)
      PROVE  HistoryInv'
  <2>1. /\ History!Line(t) /\ UNCHANGED <<sender, landed, asked>>
        /\ \/ busy' = [busy EXCEPT ![t] = "idle"] \/ busy' = busy
           \/ busy' = [busy EXCEPT ![t] = "reads"] /\ asked[t] = "none"
    BY <1>1 DEF History!Failed, History!RunPositions, History!RunInspect, History!ReadsEnd, History!ReadState,
                History!Free, History!Idle
  <2> QED BY <2>1, QuietStep
<1> QED BY <1>1, SubmitStep, LandedStep, AnswerStep, AskStep, ClearStep, ClearLogStep, LoadStep, SwitchStep, ExecuteStep
        DEF History!Next

LEMMA HistoryStart ==
  ASSUME History!Init
  PROVE  HistoryInv
<1>1. HistoryTypes
  BY DEF History!Init, HistoryTypes, History!Idle
<1>2. Tidy(storage, landed) /\ \A t \in Tabs : TabInv(t)
  BY NamesAssumption DEF History!Init, TabInv, Tidy, Lines, History!Idle
<1>3. /\ \A s \in landed : sender[s] # "none"
      /\ \A t \in Tabs : \E u \in Tabs : history[u] = storage
  BY DEF History!Init
<1> QED BY <1>1, <1>2, <1>3, HistoryTypesAre DEF HistoryInv

LEMMA HistoryRests ==
  ASSUME HistoryInv
  PROVE  History!HistoryTypeOK /\ History!HistoryIsRight
<1>1. (\A t \in Tabs : TabInv(t)) /\ Tidy(storage, landed) /\ HistoryTypes
  BY HistoryIs
<1>2. History!ListedOnce
  <2> SUFFICES ASSUME NEW t \in Tabs, NEW entries \in {history[t], storage}
               PROVE  /\ \A d, e \in entries : d.sig = e.sig => d = e
                      /\ History!SigsOf(entries) \subseteq landed
    BY DEF History!ListedOnce
  <2>1. Tidy(entries, landed)
    BY <1>1 DEF TabInv
  <2> QED BY <2>1, SigsAre DEF Tidy
<1>3. History!LoggedIsListed
  <2> SUFFICES ASSUME NEW t \in Tabs, NEW s \in log[t]
               PROVE  /\ s \in History!SigsOf(history[t]) \/ cleared[t]
                      /\ History!Entry(s, "chain") \in history[t] => ever[t]
    BY DEF History!LoggedIsListed
  <2> QED BY <1>1, SigsAre DEF TabInv, Lines
<1>4. History!Survives
  BY DEF History!Survives, HistoryInv
<1> QED BY <1>2, <1>3, <1>4 DEF History!HistoryIsRight, HistoryInv

-----------------------------------------------------------------------------
(* All pages.  The inductive invariant is the one of the page that is shown. *)
DevInv ==
  /\ page \in {"probe", "harness", "switched", "driver", "history"}
  /\ page = "probe" => ProbeInv
  /\ page \in {"harness", "switched"} => HarnessInv
  /\ page = "harness" => reconnects = 0
  /\ page = "driver" => DriverInv
  /\ page = "history" => HistoryInv

DevKeeps ==
  /\ page = "probe" => ProbeKeeps
  /\ page = "driver" => DriverKeeps
  /\ page \in {"harness", "switched"} => HarnessKeeps

LEMMA DevStarts == InitOfDev => DevInv
<1> SUFFICES ASSUME InitOfDev PROVE DevInv
  OBVIOUS
<1>1. \/ page = "probe" /\ Init
      \/ page \in {"harness", "switched"} /\ Harness!Init
      \/ page = "driver" /\ Driver!Init
      \/ page = "history" /\ History!Init
  BY DEF InitOfDev, DevInit
<1> QED BY <1>1, ProbeStart, HarnessStart, DriverStart, HistoryStart DEF DevInv

LEMMA HarnessNoNews ==
  ASSUME HarnessInv, UNCHANGED devVars
  PROVE  HarnessInv' /\ HarnessKeeps
<1>1. acct' = acct /\ net' = net /\ run' = run /\ torn' = torn /\ Flow(TwoHandlers)
      /\ UNCHANGED <<busy, loading, stranded, reconnects>>
  BY DEF HarnessInv, devVars, flowVars, harnessOnly
<1>2. Flow(TwoHandlers)'
  BY <1>1 DEF Flow, Messages
<1>3. Emptying' /\ HarnessKeeps /\ \A g \in TwoHandlers : Running(g)' <=> Running(g)
  BY <1>1, <1>2, HarnessStill
<1> QED BY <1>1, <1>2, <1>3, GuardedStill DEF HarnessInv

LEMMA OthersNoNews ==
  ASSUME UNCHANGED devVars
  PROVE  /\ ProbeInv => ProbeInv' /\ ProbeKeeps
         /\ DriverInv => DriverInv' /\ DriverKeeps
         /\ HistoryInv => HistoryInv'
<1>1. acct' = acct /\ net' = net /\ run' = run /\ torn' = torn /\ left' = left
      /\ UNCHANGED <<sender, landed, storage, log, history, busy, asked, who, loads, cleared, ever, alone>>
  BY DEF devVars, flowVars, historyOnly, harnessOnly
<1>2. Flow(Handlers) => Flow(Handlers)'
  BY <1>1 DEF Flow, Messages
<1>3. ProbeInv => ProbeInv' /\ ProbeKeeps
  BY <1>1, <1>2, ProbeStill DEF ProbeInv
<1>4. DriverInv => DriverInv' /\ DriverKeeps
  BY <1>1, <1>2, DriverStill DEF DriverInv
<1>5. HistoryInv => HistoryInv'
  BY <1>1 DEF HistoryInv, History!HistoryTypeOK, TabInv, Tidy, Lines
<1> QED BY <1>3, <1>4, <1>5

LEMMA DevSteps == DevInv /\ [DevNext]_devVars => DevInv' /\ DevKeeps
<1> SUFFICES ASSUME DevInv, [DevNext]_devVars PROVE DevInv' /\ DevKeeps
  OBVIOUS
<1>1. CASE page = "probe" /\ Next /\ UNCHANGED <<page, harnessOnly, left, historyOnly>>
  <2>1. ProbeInv' /\ ProbeKeeps
    BY <1>1, ProbeNext DEF DevInv
  <2> QED BY <1>1, <2>1 DEF DevInv, DevKeeps
<1>2. CASE page = "harness" /\ Harness!Next /\ OneHandler /\ UNCHANGED <<page, reconnects, left, historyOnly>>
  <2>1. HarnessInv' /\ HarnessKeeps
    BY <1>2, HarnessNext DEF DevInv
  <2> QED BY <1>2, <2>1 DEF DevInv, DevKeeps
<1>3. CASE page = "switched" /\ Harness!Next /\ UNCHANGED <<page, left, historyOnly>>
  <2>1. HarnessInv' /\ HarnessKeeps
    BY <1>3, HarnessNext DEF DevInv
  <2> QED BY <1>3, <2>1 DEF DevInv, DevKeeps
<1>4. CASE page = "driver" /\ Driver!Next /\ UNCHANGED <<page, harnessOnly, historyOnly>>
  <2>1. DriverInv' /\ DriverKeeps
    BY <1>4, DriverNext DEF DevInv
  <2> QED BY <1>4, <2>1 DEF DevInv, DevKeeps
<1>5. CASE page = "history" /\ History!Next /\ UNCHANGED page
  <2>1. HistoryInv'
    BY <1>5, HistoryNext DEF DevInv
  <2> QED BY <1>5, <2>1 DEF DevInv, DevKeeps
<1>6. CASE UNCHANGED devVars
  <2>1. page' = page /\ reconnects' = reconnects
    BY <1>6 DEF devVars, harnessOnly
  <2> QED BY <1>6, <2>1, HarnessNoNews, OthersNoNews DEF DevInv, DevKeeps
<1> QED BY <1>1, <1>2, <1>3, <1>4, <1>5, <1>6 DEF DevNext

LEMMA DevTypes == DevInv => DevTypeOK
<1> SUFFICES ASSUME DevInv PROVE DevTypeOK
  OBVIOUS
<1> QED BY ProbeTypes, HarnessTypesOK, DriverTypesOK, HistoryRests DEF DevInv, DevTypeOK

LEMMA DevRests == DevInv => RestIsClean
<1> SUFFICES ASSUME DevInv PROVE RestIsClean
  OBVIOUS
<1> QED BY ProbeTypes, HarnessRests, DriverRests, HistoryRests DEF DevInv, RestIsClean

(* Each page keeps its inductive invariant, and with every step its handlers' *)
(* promises.                                                               *)
THEOREM DevInvariant == DevSpec => []DevInv
<1> QED BY DevStarts, DevSteps, PTL DEF DevSpec

(* Whatever page is shown keeps its types.                                 *)
THEOREM DevTypeCorrect == DevSpec => []DevTypeOK
<1> QED BY DevInvariant, DevTypes, PTL

(* At rest, and as long as nothing failed, nothing stays with the synthetic; the *)
(* harness lists what it holds and runs one flow at a time; the probe lists what *)
(* landed, once.                                                           *)
THEOREM DevRestIsClean == DevSpec => []RestIsClean
<1> QED BY DevInvariant, DevRests, PTL

(* A flow that ends well has done what its button says, the probe's Activate is *)
(* complete when it says so, and the driver's withdrawal opens no debt.    *)
THEOREM DevFlowsEndAsPromised == DevSpec => FlowsEndAsPromised
<1> DEFINE Kept == /\ page = "probe" => \A h \in Handlers : AsPromised(h) /\ ActivatesAll(h)
                   /\ page = "driver" => \A h \in Handlers : AsPromised(h) /\ Driver!DrawdownOnly(h)
                   /\ page \in {"harness", "switched"} => \A h \in TwoHandlers : AsPromised(h)
<1>1. DevKeeps => Kept
  BY DEF DevKeeps, ProbeKeeps, DriverKeeps, HarnessKeeps
<1>2. DevInv /\ [DevNext]_devVars => [Kept]_devVars
  BY <1>1, DevSteps
<1>3. DevSpec => [][Kept]_devVars
  BY <1>2, DevInvariant, PTL DEF DevSpec
<1> QED BY <1>3 DEF FlowsEndAsPromised
=============================================================================
