------------------------------ MODULE SumLemmas ------------------------------
(***************************************************************************)
(* What the sum of a function over a finite set is, and how it changes when  *)
(* the function does: the facts about SumFunctionOnSet that the proofs about *)
(* balances and worths rest on.                                            *)
(*                                                                         *)
(* The library defines the sum by recursion on subsets, so that it has to be *)
(* shown first that such a function exists, and that there is one only.     *)
(* Every induction is on cardinality, by way of a least counterexample.     *)
(***************************************************************************)
EXTENDS Integers, Functions, FiniteSetTheorems, WellFoundedInduction, TLAPS

(* f has integers to sum over the finite set S.                             *)
Summable(f, S) == IsFiniteSet(S) /\ \A x \in S : f[x] \in Int

(* The element that the library takes first.                                *)
FirstOf(s) == CHOOSE x \in s : TRUE

(* g is the library's recursive function for the sum of f over subsets of S.  *)
IsSum(g, f, S) ==
  g = [s \in SUBSET S |-> IF s = {} THEN 0 ELSE f[FirstOf(s)] + g[s \ {FirstOf(s)}]]

(* A set of naturals that is not empty has a least element.                  *)
LEMMA LeastOf ==
  ASSUME NEW S \in SUBSET Nat, S # {}
  PROVE  \E n \in S : \A k \in S : n <= k
<1> DEFINE R == {ss \in Nat \X Nat : ss[1] < ss[2]}
<1>1. IsWellFoundedOn(R, Nat)
  BY NatLessThanWellFounded DEF OpToRel
<1>2. \A k, n \in Nat : k < n => <<k, n>> \in R
  OBVIOUS
<1> HIDE DEF R
<1>3. PICK n \in S : \A k \in S : ~(<<k, n>> \in R)
  BY <1>1, WFMin
<1>4. \A k \in S : ~(k < n)
  BY <1>2, <1>3
<1> QED
  BY <1>4

LEMMA FirstIn == ASSUME NEW S, NEW s \in SUBSET S, s # {} PROVE FirstOf(s) \in s
BY DEF FirstOf

LEMMA Unfold == ASSUME NEW f, NEW S PROVE SumFunctionOnSet(f, S) = (CHOOSE g : IsSum(g, f, S))[S]
BY DEF SumFunctionOnSet, FoldFunctionOnSet, MapThenFoldSet, IsSum, FirstOf

(* Taking out the first element leaves one element less.                      *)
LEMMA FirstOut ==
  ASSUME NEW S, IsFiniteSet(S), NEW s \in SUBSET S, s # {}
  PROVE  /\ FirstOf(s) \in s /\ FirstOf(s) \in S /\ s \ {FirstOf(s)} \in SUBSET S
         /\ IsFiniteSet(s) /\ Cardinality(s) \in Nat \ {0}
         /\ Cardinality(s \ {FirstOf(s)}) = Cardinality(s) - 1
<1>1. FirstOf(s) \in s
  BY FirstIn
<1>2. IsFiniteSet(s)
  BY FS_Subset
<1>3. Cardinality(s \ {FirstOf(s)}) = Cardinality(s) - 1
  BY <1>1, <1>2, FS_RemoveElement
<1>4. Cardinality(s) \in Nat /\ Cardinality(s) # 0
  BY <1>2, FS_CardinalityType, FS_EmptySet
<1> QED
  BY <1>1, <1>2, <1>3, <1>4

(* The equation of the sum, without the function's domain.                    *)
Obeys(g, f, s) ==
  g[s] = IF s = {} THEN 0 ELSE f[FirstOf(s)] + g[s \ {FirstOf(s)}]

Solves(g, f, S) == \A s \in SUBSET S : Obeys(g, f, s)

(* The library's sums over the subsets of S are the values of g.              *)
Gives(g, f, S) == \A s \in SUBSET S : SumFunctionOnSet(f, s) = g[s]

LEMMA SumExists ==
  ASSUME NEW S, NEW f, Summable(f, S)
  PROVE  \E g \in [SUBSET S -> Int] : IsSum(g, f, S)
<1> USE DEF Summable
<1> DEFINE Upto(n) == {s \in SUBSET S : Cardinality(s) <= n}
           Good(n) == \E h \in [Upto(n) -> Int] : \A s \in Upto(n) : Obeys(h, f, s)
           Bad == {n \in Nat : ~Good(n)}
<1>1. Good(0)
  <2> DEFINE h == [s \in Upto(0) |-> 0]
  <2>1. \A s \in Upto(0) : s = {}
    <3> SUFFICES ASSUME NEW s \in SUBSET S, Cardinality(s) <= 0, s # {} PROVE FALSE
      OBVIOUS
    <3>1. Cardinality(s) \in Nat \ {0}
      BY FirstOut
    <3> QED
      BY <3>1
  <2>2. h \in [Upto(0) -> Int] /\ \A s \in Upto(0) : Obeys(h, f, s)
    BY <2>1 DEF Obeys
  <2> QED
    BY <2>2
<1>2. ASSUME NEW n \in Nat, Good(n) PROVE Good(n + 1)
  <2>1. PICK h \in [Upto(n) -> Int] : \A s \in Upto(n) : Obeys(h, f, s)
    BY <1>2
  <2> DEFINE k == [s \in Upto(n + 1) |-> IF s = {} THEN 0 ELSE f[FirstOf(s)] + h[s \ {FirstOf(s)}]]
  <2>2. ASSUME NEW s \in Upto(n + 1), s # {}
        PROVE  s \ {FirstOf(s)} \in Upto(n) /\ f[FirstOf(s)] \in Int
    BY <2>2, FirstOut
  <2>3. \A s \in Upto(n) : s \in Upto(n + 1)
    <3> SUFFICES ASSUME NEW s \in SUBSET S, Cardinality(s) <= n PROVE Cardinality(s) <= n + 1
      OBVIOUS
    <3> QED
      BY FS_Subset, FS_CardinalityType
  <2>4. k \in [Upto(n + 1) -> Int]
    BY <2>1, <2>2
  <2>5. \A s \in Upto(n) : k[s] = h[s]
    BY <2>1, <2>3 DEF Obeys
  <2>6. \A s \in Upto(n + 1) : Obeys(k, f, s)
    BY <2>2, <2>5 DEF Obeys
  <2> HIDE DEF k
  <2> QED
    BY <2>4, <2>6
<1>3. Bad = {}
  <2> SUFFICES ASSUME Bad # {} PROVE FALSE
    OBVIOUS
  <2> HIDE DEF Good
  <2>1. PICK n \in Bad : \A k \in Bad : n <= k
    BY LeastOf
  <2>2. n # 0 /\ n - 1 \in Nat
    BY <1>1, <2>1
  <2>3. Good(n - 1)
    BY <2>1, <2>2
  <2>4. Good(n)
    <3>1. Good((n - 1) + 1)
      BY <1>2, <2>2, <2>3
    <3> QED
      BY <2>1, <3>1
  <2> QED
    BY <2>1, <2>4
<1>4. Good(Cardinality(S)) /\ Upto(Cardinality(S)) = SUBSET S
  <2>1. Cardinality(S) \in Nat
    BY FS_CardinalityType
  <2>2. Upto(Cardinality(S)) = SUBSET S
    BY FS_Subset
  <2> QED
    BY <1>3, <2>1, <2>2
<1> HIDE DEF Upto
<1>5. PICK h \in [SUBSET S -> Int] : \A s \in SUBSET S : Obeys(h, f, s)
  BY <1>4
<1>6. IsSum(h, f, S)
  BY <1>5 DEF IsSum, Obeys
<1> QED
  BY <1>6

(* Two functions that obey the equation agree.                                *)
LEMMA SumUnique ==
  ASSUME NEW S, IsFiniteSet(S), NEW f, NEW g, NEW h, Solves(g, f, S), Solves(h, f, S)
  PROVE  \A s \in SUBSET S : g[s] = h[s]
<1> USE DEF Solves
<1> DEFINE Bad == {n \in Nat : \E s \in SUBSET S : Cardinality(s) = n /\ g[s] # h[s]}
<1>1. Bad = {}
  <2> SUFFICES ASSUME Bad # {} PROVE FALSE
    OBVIOUS
  <2>1. PICK n \in Bad : \A k \in Bad : n <= k
    BY LeastOf
  <2>2. PICK s \in SUBSET S : Cardinality(s) = n /\ g[s] # h[s]
    BY <2>1
  <2>3. s # {}
    BY <2>2 DEF Obeys
  <2> DEFINE t == s \ {FirstOf(s)}
  <2>4. t \in SUBSET S /\ Cardinality(t) = n - 1 /\ n - 1 \in Nat
    BY <2>2, <2>3, FirstOut
  <2>5. g[t] = h[t]
    BY <2>1, <2>4
  <2> QED
    BY <2>2, <2>3, <2>5 DEF Obeys
<1> SUFFICES ASSUME NEW s \in SUBSET S, g[s] # h[s] PROVE FALSE
  OBVIOUS
<1>2. Cardinality(s) \in Nat
  BY FS_Subset, FS_CardinalityType
<1> QED
  BY <1>1, <1>2

(* What the library's sum is: it obeys the equation.                          *)
LEMMA SumObeys ==
  ASSUME NEW S, NEW f, Summable(f, S)
  PROVE  \E g \in [SUBSET S -> Int] : Solves(g, f, S) /\ Gives(g, f, S)
<1>1. PICK g \in [SUBSET S -> Int] : IsSum(g, f, S)
  BY SumExists
<1>2. Solves(g, f, S)
  BY <1>1 DEF IsSum, Obeys, Solves
<1>3. ASSUME NEW s \in SUBSET S PROVE SumFunctionOnSet(f, s) = g[s]
  <2> DEFINE h == CHOOSE k : IsSum(k, f, s)
  <2>1. IsFiniteSet(s) /\ Summable(f, s)
    BY FS_Subset DEF Summable
  <2>2. \E k : IsSum(k, f, s)
    BY <2>1, SumExists
  <2>3. IsSum(h, f, s)
    BY <2>2
  <2>0. SumFunctionOnSet(f, s) = h[s]
    BY Unfold
  <2> HIDE DEF h
  <2>4. Solves(h, f, s)
    BY <2>3 DEF IsSum, Obeys, Solves
  <2>5. Solves(g, f, s)
    BY <1>2 DEF Solves
  <2>6. \A t \in SUBSET s : h[t] = g[t]
    BY <2>1, <2>4, <2>5, SumUnique
  <2> QED
    BY <2>0, <2>6
<1> QED
  BY <1>2, <1>3 DEF Gives

(* A sum of integers is one; the empty sum is 0.                             *)
LEMMA SumType == ASSUME NEW S, NEW f, Summable(f, S) PROVE SumFunctionOnSet(f, S) \in Int
<1>1. PICK g \in [SUBSET S -> Int] : Solves(g, f, S) /\ Gives(g, f, S)
  BY SumObeys
<1> QED
  BY <1>1 DEF Gives

LEMMA SumEmpty == ASSUME NEW f PROVE SumFunctionOnSet(f, {}) = 0
<1>1. Summable(f, {})
  BY FS_EmptySet DEF Summable
<1>2. PICK g \in [SUBSET {} -> Int] : Solves(g, f, {}) /\ Gives(g, f, {})
  BY <1>1, SumObeys
<1> QED
  BY <1>2 DEF Obeys, Solves, Gives

(* Any element may be taken first.                                          *)
LEMMA SumTake ==
  ASSUME NEW S, NEW f, Summable(f, S), NEW x \in S
  PROVE  SumFunctionOnSet(f, S) = f[x] + SumFunctionOnSet(f, S \ {x})
<1>1. PICK g \in [SUBSET S -> Int] : Solves(g, f, S) /\ Gives(g, f, S)
  BY SumObeys
<1> DEFINE Bad == {n \in Nat : \E s \in SUBSET S : \E y \in s :
                                 Cardinality(s) = n /\ g[s] # f[y] + g[s \ {y}]}
<1>2. Bad = {}
  <2> SUFFICES ASSUME Bad # {} PROVE FALSE
    OBVIOUS
  <2>1. PICK n \in Bad : \A k \in Bad : n <= k
    BY LeastOf
  <2>2. PICK s \in SUBSET S : \E y \in s : Cardinality(s) = n /\ g[s] # f[y] + g[s \ {y}]
    BY <2>1
  <2>3. PICK y \in s : Cardinality(s) = n /\ g[s] # f[y] + g[s \ {y}]
    BY <2>2
  <2> DEFINE p == FirstOf(s)
  <2> DEFINE t == s \ {p}
  <2> DEFINE u == s \ {y}
  <2>4. p \in s /\ t \in SUBSET S /\ Cardinality(t) = n - 1 /\ n - 1 \in Nat /\ IsFiniteSet(s)
    BY <2>3, FirstOut DEF Summable
  <2>5. g[s] = f[p] + g[t]
    BY <2>3, <1>1 DEF Obeys, Solves
  <2>6. p # y
    BY <2>3, <2>5
  <2>7. u \in SUBSET S /\ Cardinality(u) = n - 1
    BY <2>3, <2>4, FS_RemoveElement
  <2>8. n - 1 \notin Bad
    <3>1. ~(n <= n - 1)
      BY <2>4
    <3> HIDE DEF Bad
    <3> QED
      BY <2>1, <3>1
  <2>9. g[t] = f[y] + g[t \ {y}]
    BY <2>4, <2>6, <2>8
  <2>10. g[u] = f[p] + g[u \ {p}]
    BY <2>4, <2>6, <2>7, <2>8
  <2>11. t \ {y} = u \ {p}
    OBVIOUS
  <2>12. g[t \ {y}] \in Int /\ f[p] \in Int /\ f[y] \in Int
    BY <1>1, <2>4 DEF Summable
  <2> DEFINE v == t \ {y}
  <2>13. g[s] = f[p] + g[t] /\ g[t] = f[y] + g[v] /\ g[u] = f[p] + g[v] /\ g[v] \in Int
    BY <2>5, <2>9, <2>10, <2>11, <2>12
  <2>14. g[s] # f[y] + g[u]
    BY <2>3
  <2> HIDE DEF p, t, u, v
  <2> QED
    BY <2>12, <2>13, <2>14
<1>3. Cardinality(S) \in Nat
  BY FS_CardinalityType DEF Summable
<1>4. g[S] = f[x] + g[S \ {x}]
  BY <1>2, <1>3
<1> QED
  BY <1>1, <1>4 DEF Gives

(* h has the values of f on S.                                              *)
SameOn(h, f, S) == \A x \in S : h[x] = f[x]

(* The sum depends on the function's values on the set alone.                *)
LEMMA SumSame ==
  ASSUME NEW S, NEW f, NEW h, Summable(f, S), SameOn(h, f, S)
  PROVE  SumFunctionOnSet(h, S) = SumFunctionOnSet(f, S)
<1>1. PICK g \in [SUBSET S -> Int] : Solves(g, f, S) /\ Gives(g, f, S)
  BY SumObeys
<1>2. Summable(h, S)
  BY DEF Summable, SameOn
<1>3. PICK k \in [SUBSET S -> Int] : Solves(k, h, S) /\ Gives(k, h, S)
  BY <1>2, SumObeys
<1>4. Solves(k, f, S)
  BY <1>3, FirstIn DEF Obeys, Solves, SameOn
<1>5. \A s \in SUBSET S : k[s] = g[s]
  BY <1>1, <1>4, SumUnique DEF Summable
<1> QED
  BY <1>1, <1>3, <1>5 DEF Gives

(* One value changes, and the sum by as much.                               *)
LEMMA SumChanges ==
  ASSUME NEW S, NEW f, NEW h, NEW x \in S,
         Summable(f, S), Summable(h, S), SameOn(h, f, S \ {x})
  PROVE  SumFunctionOnSet(h, S) = SumFunctionOnSet(f, S) + (h[x] - f[x])
<1> DEFINE T == S \ {x}
<1>1. SumFunctionOnSet(f, S) = f[x] + SumFunctionOnSet(f, T)
  BY SumTake
<1>2. SumFunctionOnSet(h, S) = h[x] + SumFunctionOnSet(h, T)
  BY SumTake
<1>3. Summable(f, T) /\ SameOn(h, f, T)
  BY FS_Subset DEF Summable
<1>4. f[x] \in Int /\ h[x] \in Int
  BY DEF Summable
<1> HIDE DEF T
<1>5. SumFunctionOnSet(h, T) = SumFunctionOnSet(f, T) /\ SumFunctionOnSet(f, T) \in Int
  BY <1>3, SumSame, SumType
<1> QED
  BY <1>1, <1>2, <1>4, <1>5

(* A sum of naturals is one; a sum of zeros is 0.                            *)
LEMMA SumNat ==
  ASSUME NEW S, NEW f, Summable(f, S), \A x \in S : f[x] \in Nat
  PROVE  SumFunctionOnSet(f, S) \in Nat
<1>1. PICK g \in [SUBSET S -> Int] : Solves(g, f, S) /\ Gives(g, f, S)
  BY SumObeys
<1> DEFINE Bad == {n \in Nat : \E s \in SUBSET S : Cardinality(s) = n /\ g[s] < 0}
<1>2. Bad = {}
  <2> SUFFICES ASSUME Bad # {} PROVE FALSE
    OBVIOUS
  <2>1. PICK n \in Bad : \A k \in Bad : n <= k
    BY LeastOf
  <2>2. PICK s \in SUBSET S : Cardinality(s) = n /\ g[s] < 0
    BY <2>1
  <2>3. s # {}
    <3> SUFFICES ASSUME s = {} PROVE FALSE
      OBVIOUS
    <3>1. g[s] = 0
      BY <1>1 DEF Obeys, Solves
    <3> QED
      BY <2>2, <3>1
  <2> DEFINE t == s \ {FirstOf(s)}
  <2>4. t \in SUBSET S /\ Cardinality(t) = n - 1 /\ n - 1 \in Nat /\ f[FirstOf(s)] \in Nat
    BY <2>2, <2>3, FirstOut DEF Summable
  <2>5. g[s] = f[FirstOf(s)] + g[t]
    BY <1>1, <2>3 DEF Obeys, Solves
  <2>6. g[t] \in Int /\ ~(g[t] < 0)
    BY <1>1, <2>1, <2>4
  <2> HIDE DEF t
  <2> QED
    BY <2>2, <2>4, <2>5, <2>6
<1>3. Cardinality(S) \in Nat
  BY FS_CardinalityType DEF Summable
<1>4. g[S] \in Int /\ ~(g[S] < 0)
  BY <1>1, <1>2, <1>3
<1> QED
  BY <1>1, <1>4 DEF Gives

LEMMA SumZero ==
  ASSUME NEW S, NEW f, IsFiniteSet(S), \A x \in S : f[x] = 0
  PROVE  SumFunctionOnSet(f, S) = 0
<1>0. Summable(f, S)
  BY DEF Summable
<1>1. PICK g \in [SUBSET S -> Int] : Solves(g, f, S) /\ Gives(g, f, S)
  BY <1>0, SumObeys
<1> DEFINE zero == [s \in SUBSET S |-> 0]
<1>2. Solves(zero, f, S)
  <2>1. ASSUME NEW s \in SUBSET S PROVE zero[s] = 0
    OBVIOUS
  <2>2. ASSUME NEW s \in SUBSET S, s # {} PROVE f[FirstOf(s)] = 0 /\ zero[s \ {FirstOf(s)}] = 0
    <3>1. FirstOf(s) \in s
      BY <2>2, FirstIn
    <3> QED
      BY <3>1
  <2> HIDE DEF zero
  <2>3. ASSUME NEW s \in SUBSET S PROVE Obeys(zero, f, s)
    <3>1. CASE s = {}
      BY <2>1, <3>1 DEF Obeys
    <3>2. CASE s # {}
      <4>1. zero[s] = 0 /\ f[FirstOf(s)] = 0 /\ zero[s \ {FirstOf(s)}] = 0
        BY <2>1, <2>2, <3>2
      <4> QED
        BY <3>2, <4>1 DEF Obeys
    <3> QED
      BY <3>1, <3>2
  <2> QED
    BY <2>3 DEF Solves
<1>3. zero[S] = 0
  OBVIOUS
<1> HIDE DEF zero
<1>4. \A s \in SUBSET S : g[s] = zero[s]
  BY <1>1, <1>2, SumUnique
<1> QED
  BY <1>1, <1>3, <1>4 DEF Gives

(* The sum over a set is at least that over a part, if what is left out is not negative. *)
LEMMA SumPart ==
  ASSUME NEW T, NEW S \in SUBSET T, NEW f, Summable(f, T), \A x \in T \ S : f[x] >= 0
  PROVE  SumFunctionOnSet(f, S) <= SumFunctionOnSet(f, T)
<1> DEFINE Between(n) == {u \in SUBSET T : S \subseteq u /\ Cardinality(u) = n}
           Bad == {n \in Nat : \E u \in Between(n) : ~(SumFunctionOnSet(f, S) <= SumFunctionOnSet(f, u))}
<1>1. ASSUME NEW u \in SUBSET T PROVE Summable(f, u) /\ Cardinality(u) \in Nat
  BY FS_Subset, FS_CardinalityType DEF Summable
<1>2. Bad = {}
  <2> SUFFICES ASSUME Bad # {} PROVE FALSE
    OBVIOUS
  <2>1. PICK n \in Bad : \A k \in Bad : n <= k
    BY LeastOf
  <2>2. PICK u \in SUBSET T : S \subseteq u /\ Cardinality(u) = n /\ ~(SumFunctionOnSet(f, S) <= SumFunctionOnSet(f, u))
    BY <2>1
  <2>3. SumFunctionOnSet(f, S) \in Int /\ SumFunctionOnSet(f, u) \in Int
    BY <1>1, SumType
  <2>4. u # S
    BY <2>2, <2>3
  <2>5. PICK x \in u : x \notin S
    BY <2>2, <2>4
  <2> DEFINE v == u \ {x}
  <2>6. /\ v \in SUBSET T /\ S \subseteq v /\ Cardinality(v) = n - 1 /\ n - 1 \in Nat
        /\ SumFunctionOnSet(f, v) \in Int
    <3>1. IsFiniteSet(u) /\ v \in SUBSET T /\ S \subseteq v
      BY <1>1, <2>2, <2>5 DEF Summable
    <3>2. Cardinality(v) = n - 1
      BY <2>2, <2>5, <3>1, FS_RemoveElement
    <3>3. QED BY <1>1, <2>1, <3>1, <3>2, SumType
  <2>7. SumFunctionOnSet(f, u) = f[x] + SumFunctionOnSet(f, v)
    BY <1>1, <2>5, SumTake
  <2>8. f[x] \in Int /\ f[x] >= 0
    BY <2>2, <2>5 DEF Summable
  <2> HIDE DEF v
  <2>9. SumFunctionOnSet(f, S) <= SumFunctionOnSet(f, v)
    BY <2>1, <2>6
  <2> QED
    BY <2>2, <2>3, <2>6, <2>7, <2>8, <2>9
<1>3. Cardinality(T) \in Nat
  BY <1>1
<1> QED
  BY <1>2, <1>3

(* Of two sums over a set, the one of the smaller values is no greater.              *)
LEMMA SumAtMost ==
  ASSUME NEW S, NEW f, NEW h, Summable(f, S), Summable(h, S), \A x \in S : f[x] <= h[x]
  PROVE  SumFunctionOnSet(f, S) <= SumFunctionOnSet(h, S)
<1> DEFINE Bad == {n \in Nat : \E s \in SUBSET S : Cardinality(s) = n
                                 /\ ~(SumFunctionOnSet(f, s) <= SumFunctionOnSet(h, s))}
<1>1. ASSUME NEW s \in SUBSET S
      PROVE  /\ IsFiniteSet(s) /\ Cardinality(s) \in Nat /\ Summable(f, s) /\ Summable(h, s)
             /\ SumFunctionOnSet(f, s) \in Int /\ SumFunctionOnSet(h, s) \in Int
  <2>1. Summable(f, s) /\ Summable(h, s) /\ IsFiniteSet(s)
    BY FS_Subset DEF Summable
  <2> QED
    BY <2>1, SumType, FS_CardinalityType
<1>2. Bad = {}
  <2> SUFFICES ASSUME Bad # {} PROVE FALSE
    OBVIOUS
  <2>1. PICK n \in Bad : \A k \in Bad : n <= k
    BY LeastOf
  <2>2. PICK s \in SUBSET S : Cardinality(s) = n /\ ~(SumFunctionOnSet(f, s) <= SumFunctionOnSet(h, s))
    BY <2>1
  <2>3. s # {}
    BY <2>2, SumEmpty
  <2>4. PICK x \in s : TRUE
    BY <2>3
  <2> DEFINE t == s \ {x}
  <2>5. t \in SUBSET S /\ Cardinality(t) = n - 1 /\ n - 1 \in Nat
    <3>1. IsFiniteSet(s) /\ t \in SUBSET S
      BY <1>1
    <3>2. Cardinality(t) = n - 1
      BY <2>2, <3>1, FS_RemoveElement
    <3>3. Cardinality(t) \in Nat
      BY <1>1, <3>1
    <3> QED
      BY <3>1, <3>2, <3>3
  <2>6. /\ SumFunctionOnSet(f, s) = f[x] + SumFunctionOnSet(f, t)
        /\ SumFunctionOnSet(h, s) = h[x] + SumFunctionOnSet(h, t)
    BY <1>1, SumTake
  <2>7. f[x] \in Int /\ h[x] \in Int /\ f[x] <= h[x]
    BY DEF Summable
  <2> HIDE DEF t
  <2>8. /\ SumFunctionOnSet(f, t) <= SumFunctionOnSet(h, t)
        /\ SumFunctionOnSet(f, t) \in Int /\ SumFunctionOnSet(h, t) \in Int
    BY <1>1, <2>1, <2>5
  <2> QED
    BY <2>2, <2>6, <2>7, <2>8
<1> QED
  BY <1>1, <1>2
=============================================================================
