--------------------------- MODULE SideClientProofs ---------------------------
(***************************************************************************)
(* Proofs about the parts of MCSide that a user drives: the asset lists of  *)
(* the lanes, the activity list and its rows, the assembly and signature of  *)
(* a transaction, the connection of a wallet, and the lookup tables.  Each   *)
(* has an inductive invariant XIInv, three lemmas about it (XInitInv,        *)
(* XNextInv, XFollows), and before them the steps they rest on, one lemma     *)
(* for an action or for what several do.                                    *)
(***************************************************************************)
EXTENDS MCSide, FiniteSetTheorems, SequenceTheorems, WellFoundedInduction, TLAPS

-----------------------------------------------------------------------------
(* CometShape, for any Comets, collaterals and reads under way.             *)

AskSet == [comet: Comets \cup {"none"}, stage: {"none", "infos", "names"},
           infos: SUBSET Shape!AllColls]

(* A read answers for the Comet it was started for, with that Comet's own;   *)
(* on the EVM lane with all of them.                                        *)
AskOwn(a) ==
  ask[a] # Shape!NoAsk =>
    /\ ask[a].comet \in Comets /\ ask[a].stage \in {"infos", "names"}
    /\ ask[a].infos \subseteq Shape!Own(ask[a].comet)
    /\ lane = "evm" /\ ask[a].stage = "names" => ask[a].infos = Shape!Own(ask[a].comet)
    /\ lane = "sol" /\ ask[a].comet # comet => overtaken

ShapeIInv ==
  /\ lane \in {"sol", "evm"} /\ comet \in Comets /\ on \in BOOLEAN /\ overtaken \in BOOLEAN
  /\ metas \in Shape!Shape \cup {Shape!NoShape}
  /\ cache \in [Comets -> Shape!Shape \cup {Shape!NoShape}]
  /\ ask \in [Slots -> AskSet]
  /\ shapeReloads \in 0 .. MaxReloads
  /\ \A a \in Slots : AskOwn(a)
  /\ Shape!CachesAreOwn /\ Shape!MetasAreOwn

LEMMA ShapeInitInv == Shape!Init => ShapeIInv
<1> SUFFICES ASSUME Shape!Init PROVE ShapeIInv
  OBVIOUS
<1>1. ask \in [Slots -> AskSet]
  BY DEF Shape!Init, AskSet, Shape!NoAsk
<1>2. \A a \in Slots : AskOwn(a)
  BY DEF Shape!Init, AskOwn
<1>3. Shape!CachesAreOwn /\ Shape!MetasAreOwn
  BY DEF Shape!Init, Shape!CachesAreOwn, Shape!MetasAreOwn
<1>4. 0 \in 0 .. MaxReloads
  BY ShapeAssumption
<1> QED
  BY <1>1, <1>2, <1>3, <1>4, ShapeAssumption DEF Shape!Init, ShapeIInv

(* A read is started for c: the others stay, the new one is c's.             *)
LEMMA AskStarts ==
  ASSUME ShapeIInv, NEW c \in Comets, NEW a \in Slots, ask[a] = Shape!NoAsk,
         ask' = Shape!Asked(a, c), UNCHANGED lane, c = comet',
         \A b \in Slots : ask[b] # Shape!NoAsk /\ ask[b].comet # comet' /\ lane = "sol" => overtaken'
  PROVE  ask' \in [Slots -> AskSet] /\ \A b \in Slots : AskOwn(b)'
<1> DEFINE r == [comet |-> c, stage |-> "infos", infos |-> {}]
<1>1. r \in AskSet /\ r.comet = c /\ r.stage = "infos" /\ r.infos = {}
  BY DEF AskSet
<1>2. ask' = [ask EXCEPT ![a] = r]
  BY DEF Shape!Asked
<1> HIDE DEF r
<1>3. ask' \in [Slots -> AskSet] /\ ask'[a] = r /\ \A b \in Slots \ {a} : ask'[b] = ask[b]
  BY <1>1, <1>2 DEF ShapeIInv
<1>4. AskOwn(a)'
  BY <1>1, <1>3 DEF AskOwn
<1>5. ASSUME NEW b \in Slots \ {a} PROVE AskOwn(b)'
  BY <1>3 DEF AskOwn, ShapeIInv
<1> QED
  BY <1>3, <1>4, <1>5
(* What the lane knows after it looked at the cache of c is c's.             *)
LEMMA CachedIsOwn ==
  ASSUME ShapeIInv, NEW c \in Comets, cache[c] # Shape!NoShape
  PROVE  cache[c] \in Shape!Shape /\ cache[c].comet = c
BY DEF ShapeIInv, Shape!CachesAreOwn

LEMMA ShapeConnect == ASSUME ShapeIInv, Shape!Connect PROVE ShapeIInv'
<1>1. UNCHANGED <<lane, comet, cache, overtaken, shapeReloads>> /\ on' = TRUE
  BY DEF Shape!Connect
<1>2. metas' \in {metas, cache[comet]} /\ (metas' # metas => cache[comet] # Shape!NoShape)
  BY DEF Shape!Connect, Shape!Enumerate, Shape!Load
<1>3. metas' \in Shape!Shape \cup {Shape!NoShape} /\ Shape!MetasAreOwn'
  BY <1>1, <1>2, CachedIsOwn DEF ShapeIInv, Shape!MetasAreOwn
<1>4. ask' = ask \/ \E a \in Slots : ask[a] = Shape!NoAsk /\ ask' = Shape!Asked(a, comet)
  BY DEF Shape!Connect, Shape!Enumerate, Shape!Load, Shape!Free
<1>5. ask' \in [Slots -> AskSet] /\ \A a \in Slots : AskOwn(a)'
  <2>1. CASE ask' = ask
    BY <1>1, <2>1 DEF ShapeIInv, AskOwn
  <2>2. ASSUME NEW a \in Slots, ask[a] = Shape!NoAsk, ask' = Shape!Asked(a, comet)
        PROVE  ask' \in [Slots -> AskSet] /\ \A b \in Slots : AskOwn(b)'
    BY <1>1, <2>2, AskStarts DEF ShapeIInv, AskOwn
  <2> QED
    BY <1>4, <2>1, <2>2
<1>6. Shape!CachesAreOwn'
  BY <1>1 DEF ShapeIInv, Shape!CachesAreOwn
<1> QED
  BY <1>1, <1>3, <1>5, <1>6 DEF ShapeIInv

(* The deployment's Comet: what was read or was being read is overtaken on    *)
(* the Solana lane, and out of sight on the EVM lane.                         *)
LEMMA ShapeResolve == ASSUME ShapeIInv, Shape!Resolve PROVE ShapeIInv'
<1>1. /\ UNCHANGED <<lane, on, cache, shapeReloads>> /\ comet = Built /\ comet' = Deployed
      /\ overtaken' = (lane = "sol" /\ (metas # Shape!NoShape \/ Shape!Free # Slots))
  BY DEF Shape!Resolve
<1>2. /\ lane = "sol" => metas' \in {metas, cache[Deployed]}
      /\ lane = "evm" => metas' \in {Shape!NoShape, cache[Deployed]}
      /\ (metas' = cache[Deployed] /\ cache[Deployed] # Shape!NoShape) \/ metas' \in {metas, Shape!NoShape}
  BY DEF Shape!Resolve, Shape!Enumerate, Shape!Load, ShapeIInv
<1>3. metas' \in Shape!Shape \cup {Shape!NoShape} /\ Shape!MetasAreOwn'
  BY <1>1, <1>2, CachedIsOwn, ShapeAssumption DEF ShapeIInv, Shape!MetasAreOwn
<1>4. ask' = ask \/ \E a \in Slots : ask[a] = Shape!NoAsk /\ ask' = Shape!Asked(a, Deployed)
  BY DEF Shape!Resolve, Shape!Enumerate, Shape!Load, Shape!Free
<1>5. \A b \in Slots : ask[b] # Shape!NoAsk /\ lane = "sol" => overtaken'
  BY <1>1 DEF Shape!Free
<1>6. ask' \in [Slots -> AskSet] /\ \A a \in Slots : AskOwn(a)'
  <2>1. CASE ask' = ask
    BY <1>1, <1>5, <2>1 DEF ShapeIInv, AskOwn
  <2>2. ASSUME NEW a \in Slots, ask[a] = Shape!NoAsk, ask' = Shape!Asked(a, Deployed)
        PROVE  ask' \in [Slots -> AskSet] /\ \A b \in Slots : AskOwn(b)'
    BY <1>1, <1>5, <2>2, AskStarts, ShapeAssumption DEF ShapeIInv
  <2> QED
    BY <1>4, <2>1, <2>2
<1>7. Shape!CachesAreOwn'
  BY <1>1 DEF ShapeIInv, Shape!CachesAreOwn
<1>8. overtaken' \in BOOLEAN /\ comet' \in Comets
  BY <1>1, ShapeAssumption
<1> QED
  BY <1>1, <1>3, <1>6, <1>7, <1>8 DEF ShapeIInv

LEMMA ShapeAgain == ASSUME ShapeIInv, Shape!Again PROVE ShapeIInv'
<1>1. UNCHANGED <<lane, comet, on, metas, cache, overtaken, shapeReloads>>
  BY DEF Shape!Again
<1>2. PICK a \in Slots : ask[a] = Shape!NoAsk /\ ask' = Shape!Asked(a, comet)
  BY DEF Shape!Again, Shape!Free
<1>3. ask' \in [Slots -> AskSet] /\ \A b \in Slots : AskOwn(b)'
  BY <1>1, <1>2, AskStarts DEF ShapeIInv, AskOwn
<1> QED
  BY <1>1, <1>3 DEF ShapeIInv, Shape!CachesAreOwn, Shape!MetasAreOwn

(* A read moves on to r, or is over.                                        *)
LEMMA AskMoves ==
  ASSUME ShapeIInv, NEW a \in Slots, NEW r \in AskSet, ask' = [ask EXCEPT ![a] = r],
         UNCHANGED <<lane, comet, overtaken>>, AskOwn(a)'
  PROVE  ask' \in [Slots -> AskSet] /\ \A b \in Slots : AskOwn(b)'
<1>1. ask' \in [Slots -> AskSet] /\ \A b \in Slots \ {a} : ask'[b] = ask[b]
  BY DEF ShapeIInv
<1> QED
  BY <1>1 DEF ShapeIInv, AskOwn

LEMMA ShapeReadInfos ==
  ASSUME ShapeIInv, NEW a \in Slots, NEW ok \in SUBSET (1 .. NColl), Shape!ReadInfos(a, ok)
  PROVE  ShapeIInv'
<1> DEFINE r == ask[a]
           ownInfos == {<<r.comet, i>> : i \in ok}
           s == [r EXCEPT !.stage = "names", !.infos = ownInfos]
<1>1. r \in AskSet /\ r.stage = "infos" /\ AskOwn(a)
  BY DEF ShapeIInv, Shape!ReadInfos
<1>2. /\ UNCHANGED <<lane, comet, on, metas, cache, overtaken, shapeReloads>>
      /\ ask' = [ask EXCEPT ![a] = s] /\ (lane = "evm" => ok = 1 .. NColl)
  BY DEF Shape!ReadInfos, ShapeIInv
<1>3. r # Shape!NoAsk /\ r.comet \in Comets
  BY <1>1 DEF Shape!NoAsk, AskOwn
<1>4. ownInfos \subseteq Shape!Own(r.comet) /\ (lane = "evm" => ownInfos = Shape!Own(r.comet))
  BY <1>2 DEF Shape!Own
<1>5. ownInfos \subseteq Shape!AllColls
  BY <1>3, <1>4 DEF Shape!AllColls
<1>6. lane = "sol" /\ r.comet # comet => overtaken
  BY <1>1, <1>3 DEF AskOwn
<1> HIDE DEF r, ownInfos
<1>7. s \in AskSet /\ s.comet = r.comet /\ s.stage = "names" /\ s.infos = ownInfos
  BY <1>1, <1>5 DEF AskSet
<1> HIDE DEF s
<1>8. ask'[a] = s
  BY <1>2 DEF ShapeIInv
<1>9. AskOwn(a)'
  BY <1>2, <1>3, <1>4, <1>6, <1>7, <1>8 DEF AskOwn
<1>10. ask' \in [Slots -> AskSet] /\ \A b \in Slots : AskOwn(b)'
  BY <1>2, <1>7, <1>9, AskMoves
<1> QED
  BY <1>2, <1>10 DEF ShapeIInv, Shape!CachesAreOwn, Shape!MetasAreOwn

(* Names go to the collaterals they are of.                                 *)
LEMMA NamesAreOwn ==
  ASSUME NEW c \in Comets, NEW infos0 \in SUBSET Shape!Own(c), NEW ok \in SUBSET (1 .. NColl)
  PROVE  /\ Shape!Named(infos0, ok) \subseteq Shape!AllColls \X (Shape!AllColls \cup {Shape!Unnamed})
         /\ \A x \in Shape!Named(infos0, ok) : x[1] \in Shape!Own(c) /\ x[2] \in {x[1], Shape!Unnamed}
         /\ ok = 1 .. NColl /\ infos0 = Shape!Own(c) =>
              Shape!Named(infos0, ok) = {<<x, x>> : x \in Shape!Own(c)}
<1>1. Shape!Own(c) \subseteq Shape!AllColls
  BY DEF Shape!AllColls
<1>2. \A x \in Shape!Own(c) : x[2] \in 1 .. NColl
  BY DEF Shape!Own
<1>3. \A x \in Shape!Named(infos0, ok) :
        \E y \in infos0 : x = <<y, IF y[2] \in ok THEN y ELSE Shape!Unnamed>>
  BY DEF Shape!Named
<1>4. \A x \in Shape!Named(infos0, ok) : x[1] \in Shape!Own(c) /\ x[2] \in {x[1], Shape!Unnamed}
  BY <1>3
<1>5. Shape!Named(infos0, ok) \subseteq Shape!AllColls \X (Shape!AllColls \cup {Shape!Unnamed})
  BY <1>1, <1>3
<1>6. ASSUME ok = 1 .. NColl, infos0 = Shape!Own(c)
      PROVE  Shape!Named(infos0, ok) = {<<x, x>> : x \in Shape!Own(c)}
  <2>1. \A x \in infos0 : <<x, IF x[2] \in ok THEN x ELSE Shape!Unnamed>> = <<x, x>>
    BY <1>2, <1>6
  <2> QED
    BY <1>6, <2>1 DEF Shape!Named
<1> QED
  BY <1>4, <1>5, <1>6

LEMMA ShapeDeliver ==
  ASSUME ShapeIInv, NEW a \in Slots, NEW ok \in SUBSET (1 .. NColl), Shape!Deliver(a, ok)
  PROVE  ShapeIInv'
<1> DEFINE r == ask[a]
           named == Shape!Named(r.infos, ok)
           new == [comet |-> r.comet, assets |-> named]
<1>1. r \in AskSet /\ r.stage = "names" /\ AskOwn(a)
  BY DEF ShapeIInv, Shape!Deliver
<1>2. /\ UNCHANGED <<lane, comet, on, overtaken, shapeReloads>>
      /\ metas' = (IF lane = "evm" /\ r.comet # comet THEN metas ELSE new)
      /\ cache' = [cache EXCEPT ![r.comet] = new]
      /\ ask' = [ask EXCEPT ![a] = Shape!NoAsk] /\ (lane = "evm" => ok = 1 .. NColl)
  BY DEF Shape!Deliver
<1>3. r # Shape!NoAsk /\ r.comet \in Comets /\ r.infos \in SUBSET Shape!Own(r.comet)
      /\ (lane = "evm" => r.infos = Shape!Own(r.comet))
      /\ (lane = "sol" /\ r.comet # comet => overtaken)
  BY <1>1 DEF Shape!NoAsk, AskOwn
<1>4. /\ named \subseteq Shape!AllColls \X (Shape!AllColls \cup {Shape!Unnamed})
      /\ \A x \in named : x[1] \in Shape!Own(r.comet) /\ x[2] \in {x[1], Shape!Unnamed}
      /\ lane = "evm" => named = {<<x, x>> : x \in Shape!Own(r.comet)}
  BY <1>2, <1>3, NamesAreOwn
<1> HIDE DEF r, named
<1>5. new \in Shape!Shape /\ new.comet = r.comet /\ new.assets = named
  BY <1>3, <1>4 DEF Shape!Shape
<1> HIDE DEF new
<1>6. /\ cache' \in [Comets -> Shape!Shape \cup {Shape!NoShape}] /\ cache'[r.comet] = new
      /\ \A c \in Comets \ {r.comet} : cache'[c] = cache[c]
  BY <1>2, <1>3, <1>5 DEF ShapeIInv
<1>7. Shape!CachesAreOwn'
  BY <1>2, <1>4, <1>5, <1>6 DEF ShapeIInv, Shape!CachesAreOwn
<1>8. metas' \in Shape!Shape \cup {Shape!NoShape} /\ Shape!MetasAreOwn'
  BY <1>2, <1>3, <1>5 DEF ShapeIInv, Shape!MetasAreOwn
<1>9. Shape!NoAsk \in AskSet
  BY DEF Shape!NoAsk, AskSet
<1>10. AskOwn(a)'
  BY <1>2 DEF ShapeIInv, AskOwn
<1>11. ask' \in [Slots -> AskSet] /\ \A b \in Slots : AskOwn(b)'
  BY <1>2, <1>9, <1>10, AskMoves
<1> QED
  BY <1>2, <1>6, <1>7, <1>8, <1>11 DEF ShapeIInv

LEMMA ShapeThrow == ASSUME ShapeIInv, NEW a \in Slots, Shape!Throw(a) PROVE ShapeIInv'
<1>1. UNCHANGED <<lane, comet, on, metas, cache, overtaken, shapeReloads>>
      /\ ask' = [ask EXCEPT ![a] = Shape!NoAsk]
  BY DEF Shape!Throw
<1>2. Shape!NoAsk \in AskSet
  BY DEF Shape!NoAsk, AskSet
<1>3. AskOwn(a)'
  BY <1>1 DEF ShapeIInv, AskOwn
<1>4. ask' \in [Slots -> AskSet] /\ \A b \in Slots : AskOwn(b)'
  BY <1>1, <1>2, <1>3, AskMoves
<1> QED
  BY <1>1, <1>4 DEF ShapeIInv, Shape!CachesAreOwn, Shape!MetasAreOwn

LEMMA ShapeRest ==
  ASSUME ShapeIInv, Shape!Disconnect \/ Shape!Reload \/ UNCHANGED shapeVars
  PROVE  ShapeIInv'
<1>1. CASE Shape!Disconnect
  BY <1>1 DEF Shape!Disconnect, ShapeIInv, AskOwn, Shape!CachesAreOwn, Shape!MetasAreOwn
<1>2. CASE Shape!Reload
  <2>1. ask' = [a \in Slots |-> Shape!NoAsk] /\ metas' = Shape!NoShape /\ UNCHANGED <<lane, cache>>
        /\ comet' = Built /\ on' = FALSE /\ overtaken' = FALSE
        /\ shapeReloads < MaxReloads /\ shapeReloads' = shapeReloads + 1
    BY <1>2 DEF Shape!Reload
  <2>2. ask' \in [Slots -> AskSet] /\ \A a \in Slots : AskOwn(a)'
    BY <2>1 DEF AskSet, AskOwn, Shape!NoAsk
  <2>3. shapeReloads' \in 0 .. MaxReloads
    BY <2>1, ShapeAssumption DEF ShapeIInv
  <2> QED
    BY <2>1, <2>2, <2>3, ShapeAssumption DEF ShapeIInv, Shape!CachesAreOwn, Shape!MetasAreOwn
<1>3. CASE UNCHANGED shapeVars
  BY <1>3 DEF shapeVars, ShapeIInv, AskOwn, Shape!CachesAreOwn, Shape!MetasAreOwn
<1> QED
  BY <1>1, <1>2, <1>3

LEMMA ShapeNextInv == ShapeIInv /\ (Shape!Next \/ UNCHANGED shapeVars) => ShapeIInv'
BY ShapeConnect, ShapeResolve, ShapeAgain, ShapeReadInfos, ShapeDeliver, ShapeThrow, ShapeRest
DEF Shape!Next

LEMMA ShapeFollows == ShapeIInv => Shape!ShapeTypeOK /\ Shape!ShapeIsRight
<1> SUFFICES ASSUME ShapeIInv PROVE Shape!ShapeTypeOK /\ Shape!ShapeIsRight
  OBVIOUS
<1>1. Shape!ShapeTypeOK
  BY DEF ShapeIInv, Shape!ShapeTypeOK, AskOwn
<1> QED
  BY <1>1 DEF ShapeIInv, Shape!ShapeIsRight

-----------------------------------------------------------------------------
(* ActivityFeed, for any users, reads under way, window and limits.          *)

FeedAskSet == [user: Users \cup {NoUser}, rows: Feed!Rows]

(* One read is under way on the Solana lane, the connected user's.           *)
AskMine(a, b) ==
  side = "sol" /\ feedAsk[a] # Feed!NoAsk =>
    feedAsk[a].user = who /\ (feedAsk[b] # Feed!NoAsk => a = b)

Few(a) == IsFiniteSet(feedAsk[a].rows) /\ Cardinality(feedAsk[a].rows) <= MaxEntries

(* Whoever is connected or still submits has been since the last disconnection. *)
FeedIInv ==
  /\ side \in {"sol", "evm"} /\ who \in Users \cup {NoUser}
  /\ feedLogs \in Seq(SUBSET Users) /\ Len(feedLogs) <= MaxHead
  /\ own \in Seq(Users) /\ Len(own) <= Cap
  /\ fetched \in Feed!Rows /\ Cardinality(fetched) <= MaxEntries
  /\ feedAsk \in [Slots -> FeedAskSet] /\ busy \subseteq Users /\ since \subseteq Users
  /\ \A a \in Slots : Few(a)
  /\ \A a, b \in Slots : AskMine(a, b)
  /\ busy \subseteq since /\ (who # NoUser => who \in since)
  /\ \A i \in 1 .. Len(own) : own[i] \in since

(* The feed's Cardinality is the one of the theorems.                        *)
LEMMA FeedCardinality == \A S : Feed!Cardinality(S) = Cardinality(S)
BY DEF Feed!Cardinality, Cardinality

LEMMA NoFeedAsk == Feed!NoAsk \in FeedAskSet /\ Feed!NoAsk.rows = {}
BY DEF FeedAskSet, Feed!NoAsk, Feed!Rows

LEMMA NoFeedAskFew == IsFiniteSet(Feed!NoAsk.rows) /\ Cardinality(Feed!NoAsk.rows) <= MaxEntries
BY FS_EmptySet, FeedAssumption DEF Feed!NoAsk

LEMMA NoFeedRows == {} \in Feed!Rows /\ Cardinality({}) <= MaxEntries
BY FS_EmptySet, FeedAssumption DEF Feed!Rows

LEMMA FeedInitInv == Feed!Init => FeedIInv
<1> SUFFICES ASSUME Feed!Init PROVE FeedIInv
  OBVIOUS
<1>1. feedAsk \in [Slots -> FeedAskSet] /\ \A a \in Slots : feedAsk[a] = Feed!NoAsk
  BY NoFeedAsk DEF Feed!Init
<1>2. \A a \in Slots : Few(a)
  BY <1>1, NoFeedAsk, FS_EmptySet, FeedAssumption DEF Few
<1>3. \A a, b \in Slots : AskMine(a, b)
  BY <1>1 DEF AskMine
<1>4. {} \in Feed!Rows /\ Cardinality({}) <= MaxEntries
  BY FS_EmptySet, FeedAssumption DEF Feed!Rows
<1>5. <<>> \in Seq(SUBSET Users) /\ <<>> \in Seq(Users) /\ Len(<<>>) = 0
  OBVIOUS
<1> QED
  BY <1>1, <1>2, <1>3, <1>4, <1>5, FeedAssumption DEF Feed!Init, FeedIInv

(* A set of naturals that is not empty has a least element.                  *)
LEMMA LeastNatural ==
  ASSUME NEW S \in SUBSET Nat, S # {}
  PROVE  \E n \in S : \A k \in S : n <= k
<1> DEFINE R == {ss \in Nat \X Nat : ss[1] < ss[2]}
<1>1. IsWellFoundedOn(R, Nat)
  BY NatLessThanWellFounded DEF OpToRel
<1>2. \A k, n \in Nat : k < n => <<k, n>> \in R
  OBVIOUS
<1> HIDE DEF R
<1>3. PICK n \in S : \A k \in S : ~(<<k, n>> \in R)
  BY <1>1, WFMin
<1>4. \A k \in S : ~(k < n)
  BY <1>2, <1>3
<1> QED
  BY <1>4

(* fetchRecentActivity returns at most MaxEntries rows, of blocks there are.   *)
LEMMA NewestFew ==
  ASSUME FeedIInv, NEW u
  PROVE  Feed!Newest(u) \in Feed!Rows /\ IsFiniteSet(Feed!Newest(u)) /\ Cardinality(Feed!Newest(u)) <= MaxEntries
<1> DEFINE from == IF Feed!Tip > Lookback THEN Feed!Tip - Lookback ELSE 1
           mine == {n \in from .. Feed!Tip : Feed!Touches(n, u)}
           Later(n) == {k \in mine : k > n}
           S == {n \in mine : Cardinality(Later(n)) < MaxEntries}
<1>1. Feed!Newest(u) = S
  BY FeedCardinality DEF Feed!Newest
<1>2. from \in Nat /\ from >= 1 /\ Feed!Tip \in 0 .. MaxHead
  BY FeedAssumption DEF FeedIInv, Feed!Tip
<1> HIDE DEF from
<1>3. IsFiniteSet(from .. Feed!Tip) /\ from .. Feed!Tip \subseteq 1 .. MaxHead
  BY <1>2, FeedAssumption, FS_Interval
<1>4. mine \subseteq from .. Feed!Tip /\ IsFiniteSet(mine)
  BY <1>3, FS_Subset
<1> HIDE DEF mine
<1>5. S \subseteq mine /\ IsFiniteSet(S) /\ S \in SUBSET Nat
  <2>1. S \subseteq mine
    OBVIOUS
  <2> HIDE DEF S
  <2>2. IsFiniteSet(S)
    BY <2>1, <1>4, FS_Subset
  <2>3. \A n \in S : n \in 1 .. MaxHead
    BY <2>1, <1>3, <1>4
  <2> QED
    BY <2>1, <2>2, <2>3
<1>6. Cardinality(S) <= MaxEntries
  <2>1. S = {} => Cardinality(S) <= MaxEntries
    <3> HIDE DEF S
    <3> QED
      BY FS_EmptySet, FeedAssumption
  <2>2. CASE S # {}
    <3>1. PICK n \in S : \A k \in S : n <= k
      BY <1>5, <2>2, LeastNatural
    <3>2. Cardinality(Later(n)) < MaxEntries
      BY <3>1
    <3>3. Later(n) \subseteq mine /\ IsFiniteSet(Later(n))
      BY <1>4, FS_Subset
    <3>4. S \ {n} \subseteq Later(n)
      BY <1>5, <3>1
    <3> HIDE DEF S, Later
    <3>5. Cardinality(S \ {n}) = Cardinality(S) - 1 /\ IsFiniteSet(S \ {n})
      BY <1>5, <3>1, FS_RemoveElement
    <3>6. Cardinality(S \ {n}) <= Cardinality(Later(n))
      BY <3>3, <3>4, FS_Subset
    <3>7. Cardinality(S) \in Nat /\ Cardinality(Later(n)) \in Nat
      BY <1>5, <3>3, FS_CardinalityType
    <3> QED
      BY <3>2, <3>5, <3>6, <3>7, FeedAssumption
  <2> QED
    BY <2>1, <2>2
<1> QED
  BY <1>1, <1>3, <1>4, <1>5, <1>6 DEF Feed!Rows

LEMMA FeedMine == ASSUME FeedIInv, NEW us \in SUBSET Users, Feed!Mine(us) PROVE FeedIInv'
<1>1. /\ UNCHANGED <<side, who, own, fetched, feedAsk, busy, since>>
      /\ feedLogs' = Append(feedLogs, us) /\ Len(feedLogs) < MaxHead
  BY DEF Feed!Mine, Feed!Tip
<1>2. feedLogs' \in Seq(SUBSET Users) /\ Len(feedLogs') <= MaxHead
  BY <1>1, FeedAssumption DEF FeedIInv
<1> QED
  BY <1>1, <1>2 DEF FeedIInv, AskMine, Few

(* A read of u is started beside those of before.                              *)
LEMMA ReadStarts ==
  ASSUME FeedIInv, NEW a \in Slots, NEW u \in Users, NEW before \in {feedAsk, Feed!Drop},
         feedAsk' = Feed!Start(before, a, u), UNCHANGED side, u = who',
         side = "sol" => before = Feed!Drop
  PROVE  /\ feedAsk' \in [Slots -> FeedAskSet] /\ \A b \in Slots : Few(b)'
         /\ \A b, c \in Slots : AskMine(b, c)'
<1> DEFINE r == [user |-> u, rows |-> Feed!Newest(u)]
<1>1. r \in FeedAskSet /\ r.user = u /\ IsFiniteSet(r.rows) /\ Cardinality(r.rows) <= MaxEntries
  BY NewestFew DEF FeedAskSet
<1>2. feedAsk' = [before EXCEPT ![a] = r]
  BY DEF Feed!Start
<1> HIDE DEF r
<1>3. before \in [Slots -> FeedAskSet] /\ \A b \in Slots : before[b] \in {feedAsk[b], Feed!NoAsk}
  BY NoFeedAsk DEF FeedIInv, Feed!Drop
<1>4. feedAsk' \in [Slots -> FeedAskSet] /\ feedAsk'[a] = r /\ \A b \in Slots \ {a} : feedAsk'[b] = before[b]
  BY <1>1, <1>2, <1>3
<1>5. \A b \in Slots : Few(b)'
  BY <1>1, <1>3, <1>4, NoFeedAsk, NoFeedAskFew DEF Few, FeedIInv
<1>6. ASSUME NEW b \in Slots, NEW c \in Slots PROVE AskMine(b, c)'
  <2>1. side = "sol" => \A d \in Slots \ {a} : feedAsk'[d] = Feed!NoAsk
    BY <1>4 DEF Feed!Drop
  <2> QED
    BY <1>1, <1>4, <2>1 DEF AskMine
<1> QED
  BY <1>4, <1>5, <1>6

LEMMA DropKeeps ==
  ASSUME FeedIInv, feedAsk' = Feed!Drop
  PROVE  /\ feedAsk' \in [Slots -> FeedAskSet] /\ \A b \in Slots : Few(b)'
         /\ \A b, c \in Slots : AskMine(b, c)'
<1>1. feedAsk' \in [Slots -> FeedAskSet] /\ \A a \in Slots : feedAsk'[a] = Feed!NoAsk
  BY NoFeedAsk DEF Feed!Drop
<1>2. \A a \in Slots : Few(a)'
  BY <1>1, NoFeedAsk, NoFeedAskFew DEF Few
<1> QED
  BY <1>1, <1>2 DEF AskMine

LEMMA FeedRefresh == ASSUME FeedIInv, Feed!Refresh PROVE FeedIInv'
<1>1. UNCHANGED <<side, who, feedLogs, own, fetched, busy, since>> /\ who \in Users
  BY DEF Feed!Refresh, FeedIInv
<1>2. PICK a \in Slots, before \in {feedAsk, Feed!Drop} :
        feedAsk' = Feed!Start(before, a, who) /\ (side = "sol" => before = Feed!Drop)
  BY DEF Feed!Refresh, Feed!Free, FeedIInv
<1>3. /\ feedAsk' \in [Slots -> FeedAskSet] /\ \A b \in Slots : Few(b)'
      /\ \A b, c \in Slots : AskMine(b, c)'
  BY <1>1, <1>2, ReadStarts
<1> QED
  BY <1>1, <1>3 DEF FeedIInv

LEMMA FeedReadEnds ==
  ASSUME FeedIInv, NEW a \in Slots, Feed!Answer(a) \/ Feed!FailFetch(a)
  PROVE  FeedIInv'
<1>1. /\ UNCHANGED <<side, who, feedLogs, own, busy, since>>
      /\ fetched' \in {fetched, feedAsk[a].rows} /\ feedAsk' = [feedAsk EXCEPT ![a] = Feed!NoAsk]
  BY DEF Feed!Answer, Feed!FailFetch
<1>2. fetched' \in Feed!Rows /\ Cardinality(fetched') <= MaxEntries
  BY <1>1 DEF FeedIInv, Few, FeedAskSet
<1>3. /\ feedAsk' \in [Slots -> FeedAskSet] /\ feedAsk'[a] = Feed!NoAsk
      /\ \A b \in Slots \ {a} : feedAsk'[b] = feedAsk[b]
  BY <1>1, NoFeedAsk DEF FeedIInv
<1>4. \A b \in Slots : Few(b)'
  BY <1>3, NoFeedAsk, NoFeedAskFew DEF Few, FeedIInv
<1>5. \A b, c \in Slots : AskMine(b, c)'
  BY <1>1, <1>3 DEF AskMine, FeedIInv
<1> QED
  BY <1>1, <1>2, <1>3, <1>4, <1>5 DEF FeedIInv

LEMMA FeedSwitch == ASSUME FeedIInv, NEW u \in Users \cup {NoUser}, Feed!Switch(u) PROVE FeedIInv'
<1>1. /\ UNCHANGED <<side, feedLogs, own, busy>> /\ who' = u /\ since' = since \cup ({u} \ {NoUser})
      /\ fetched' \in {fetched, {}}
  BY DEF Feed!Switch
<1>2. \/ feedAsk' = Feed!Drop
      \/ side = "evm" /\ feedAsk' = feedAsk
      \/ side = "evm" /\ u # NoUser /\ \E a \in Slots : feedAsk' = Feed!Start(feedAsk, a, u)
  BY DEF Feed!Switch, Feed!Free, FeedIInv
<1>3. /\ feedAsk' \in [Slots -> FeedAskSet] /\ \A b \in Slots : Few(b)'
      /\ \A b, c \in Slots : AskMine(b, c)'
  <2>1. CASE feedAsk' = Feed!Drop
    BY <2>1, DropKeeps
  <2>2. CASE side = "evm" /\ feedAsk' = feedAsk
    BY <1>1, <2>2 DEF FeedIInv, Few, AskMine
  <2>3. ASSUME NEW a \in Slots, side = "evm", u # NoUser, feedAsk' = Feed!Start(feedAsk, a, u)
        PROVE  /\ feedAsk' \in [Slots -> FeedAskSet] /\ \A b \in Slots : Few(b)'
               /\ \A b, c \in Slots : AskMine(b, c)'
    <3>1. u \in Users /\ side # "sol"
      BY <2>3
    <3> QED
      BY <1>1, <2>3, <3>1, ReadStarts
  <2> QED
    BY <1>2, <2>1, <2>2, <2>3
<1>4. fetched' \in Feed!Rows /\ Cardinality(fetched') <= MaxEntries
  BY <1>1, NoFeedRows DEF FeedIInv
<1> QED
  BY <1>1, <1>3, <1>4 DEF FeedIInv

LEMMA FeedDisconnect == ASSUME FeedIInv, Feed!Disconnect PROVE FeedIInv'
<1>1. /\ UNCHANGED <<side, feedLogs, busy>> /\ who' = NoUser /\ own' = <<>> /\ since' = busy
      /\ fetched' \in {fetched, {}}
  BY DEF Feed!Disconnect
<1>2. feedAsk' = Feed!Drop \/ (side = "evm" /\ feedAsk' = feedAsk)
  BY DEF Feed!Disconnect, FeedIInv
<1>3. /\ feedAsk' \in [Slots -> FeedAskSet] /\ \A b \in Slots : Few(b)'
      /\ \A b, c \in Slots : AskMine(b, c)'
  <2>1. CASE feedAsk' = Feed!Drop
    BY <2>1, DropKeeps
  <2>2. CASE side = "evm" /\ feedAsk' = feedAsk
    BY <1>1, <2>2 DEF FeedIInv, Few, AskMine
  <2> QED
    BY <1>2, <2>1, <2>2
<1>4. fetched' \in Feed!Rows /\ Cardinality(fetched') <= MaxEntries
  BY <1>1, NoFeedRows DEF FeedIInv
<1>5. own' \in Seq(Users) /\ Len(own') = 0
  BY <1>1
<1> QED
  BY <1>1, <1>3, <1>4, <1>5, FeedAssumption DEF FeedIInv

(* The row of a success goes in front; the list stays within its cap.        *)
LEMMA FeedRecord == ASSUME FeedIInv, NEW u \in Users, Feed!Record(u) PROVE FeedIInv'
<1> DEFINE n == IF Len(own) < Cap THEN Len(own) + 1 ELSE Cap
           s == <<u>> \o own
<1>1. /\ UNCHANGED <<side, who, feedLogs, fetched, feedAsk, since>> /\ u \in busy
      /\ own' = SubSeq(s, 1, n) /\ busy' = busy \ {u}
  BY DEF Feed!Record
<1>2. s \in Seq(Users) /\ Len(s) = Len(own) + 1 /\ s[1] = u
      /\ \A i \in 2 .. Len(own) + 1 : s[i] = own[i - 1]
  BY DEF FeedIInv
<1>3. n \in Nat /\ n <= Len(s) /\ n <= Cap
  BY <1>2, FeedAssumption DEF FeedIInv
<1> HIDE DEF s, n
<1>4. \A i \in 1 .. Len(s) : s[i] \in since
  <2>1. s[1] \in since
    BY <1>1, <1>2 DEF FeedIInv
  <2>2. ASSUME NEW i \in 2 .. Len(own) + 1 PROVE s[i] \in since
    <3>1. i - 1 \in 1 .. Len(own)
      BY <2>2 DEF FeedIInv
    <3> QED
      BY <1>2, <3>1 DEF FeedIInv
  <2> QED
    BY <1>2, <2>1, <2>2 DEF FeedIInv
<1>5. \A i \in 1 .. n : s[i] \in Users
  BY <1>2, <1>3
<1>6. own' \in Seq(Users) /\ Len(own') = n /\ \A i \in 1 .. n : own'[i] = s[i]
  BY <1>1, <1>3, <1>5, SubSeqProperties
<1>7. \A i \in 1 .. Len(own') : own'[i] \in since'
  BY <1>1, <1>2, <1>3, <1>4, <1>6
<1> QED
  BY <1>1, <1>3, <1>6, <1>7 DEF FeedIInv, AskMine, Few

LEMMA FeedRest ==
  ASSUME FeedIInv, Feed!Submit \/ (\E u \in Users : Feed!Abandon(u)) \/ UNCHANGED feedVars
  PROVE  FeedIInv'
<1>1. /\ UNCHANGED <<side, who, feedLogs, own, fetched, feedAsk, since>>
      /\ busy' \subseteq busy \/ (who # NoUser /\ busy' = {who})
  BY DEF Feed!Submit, Feed!Abandon, feedVars
<1> QED
  BY <1>1 DEF FeedIInv, AskMine, Few

LEMMA FeedNextInv == FeedIInv /\ (Feed!Next \/ UNCHANGED feedVars) => FeedIInv'
<1> SUFFICES ASSUME FeedIInv, Feed!Next \/ UNCHANGED feedVars PROVE FeedIInv'
  OBVIOUS
<1>1. CASE Feed!Next
  BY <1>1, FeedMine, FeedRefresh, FeedReadEnds, FeedSwitch, FeedDisconnect, FeedRecord, FeedRest
  DEF Feed!Next
<1> QED
  BY <1>1, FeedRest

LEMMA FeedFollows == FeedIInv => Feed!FeedTypeOK /\ Feed!ReadsAreMine /\ Feed!RowsAreOfThisSession
<1> SUFFICES ASSUME FeedIInv PROVE Feed!FeedTypeOK /\ Feed!ReadsAreMine /\ Feed!RowsAreOfThisSession
  OBVIOUS
<1>1. feedLogs \in UNION {[1 .. n -> SUBSET Users] : n \in 0 .. MaxHead}
  <2>1. Len(feedLogs) \in 0 .. MaxHead /\ feedLogs \in [1 .. Len(feedLogs) -> SUBSET Users]
    BY FeedAssumption, LenProperties DEF FeedIInv
  <2> QED
    BY <2>1
<1>2. DOMAIN own = 1 .. Len(own) /\ \A i \in DOMAIN own : own[i] \in Users
  BY LenProperties DEF FeedIInv
<1>3. Feed!FeedTypeOK
  BY <1>1, <1>2, FeedCardinality DEF FeedIInv, Feed!FeedTypeOK, FeedAskSet
<1>4. ASSUME side = "sol"
      PROVE  /\ \A a \in Slots : feedAsk[a] = Feed!NoAsk \/ feedAsk[a].user = who
             /\ Cardinality(Slots \ Feed!Free) <= 1
  <2>1. \A a, b \in Slots \ Feed!Free : a = b
    BY <1>4 DEF FeedIInv, AskMine, Feed!Free
  <2>2. Slots \ Feed!Free = {} \/ \E a : Slots \ Feed!Free = {a}
    BY <2>1
  <2>3. Cardinality({}) = 0 /\ \A a : Cardinality({a}) = 1
    BY FS_EmptySet, FS_Singleton
  <2>4. Cardinality(Slots \ Feed!Free) \in {0, 1}
    BY <2>2, <2>3, Zenon
  <2> QED
    BY <1>4, <2>4 DEF FeedIInv, AskMine
<1>5. Feed!ReadsAreMine
  BY <1>4, FeedCardinality DEF Feed!ReadsAreMine
<1> QED
  BY <1>2, <1>3, <1>5 DEF FeedIInv, Feed!RowsAreOfThisSession

-----------------------------------------------------------------------------
(* ActivityRow, for any assets, decimals, amounts, prices and fetches.       *)

LEMMA RowCardinality == \A S : Line!Cardinality(S) = Cardinality(S)
BY DEF Line!Cardinality, Cardinality

(* Products keep the order of their factors.                                 *)
LEMMA TimesLess == ASSUME NEW x \in Int, NEW y \in Int, NEW z \in Nat \ {0}, x < y PROVE x * z < y * z
BY SMT
LEMMA TimesAtMost == ASSUME NEW x \in Int, NEW y \in Int, NEW z \in Nat, x <= y PROVE x * z <= y * z
BY SMT

(* parseTokenAmount: what is cut off is less than a unit.                     *)
LEMMA CutOff ==
  ASSUME NEW t \in Nat, NEW u \in Nat \ {0}
  PROVE  t \div u \in Nat /\ (t \div u) * u <= t /\ t < (t \div u) * u + u
BY SMT

(* parseUnits: what is rounded off is less than a unit, either way.           *)
LEMMA RoundOff ==
  ASSUME NEW t \in Nat, NEW u \in Nat \ {0}
  PROVE  LET r == (2 * t + u) \div (2 * u) IN r \in Nat /\ r * u - t < u /\ t - r * u < u
<1> DEFINE r == (2 * t + u) \div (2 * u)
<1>1. 2 * t + u \in Nat /\ 2 * u \in Nat \ {0}
  OBVIOUS
<1>2. r \in Nat /\ r * (2 * u) <= 2 * t + u /\ 2 * t + u < r * (2 * u) + 2 * u
  BY <1>1, CutOff
<1> HIDE DEF r
<1>3. r * (2 * u) = 2 * (r * u) /\ r * u \in Nat
  BY <1>2
<1> QED
  BY <1>2, <1>3

LEMMA UnitIsPositive == \A d \in 0 .. Digits : Line!Unit(d) \in Nat \ {0}
BY RowAssumption DEF Line!Unit

Fetched(k) == rowFetch[k] # Line!NoFetch

(* What a row the lane added says, against what the log will say of it.       *)
OwnRowOK(r) ==
  LET later == Line!Row(r.log, [r.then EXCEPT !.name = "own"])
  IN /\ laneOf = "sol" => r.figure <= r.typed * Line!AssetPrice(r.then.price)
     /\ Line!VerbFor(r.log.kind) = "Supplied" <=> r.verb \in {"Supplied", "Repaid"}
     /\ r.then.price > 0 /\ r.then.name # "stand-in" =>
          Line!Near(r.figure, later.figure,
                    IF laneOf = "sol" THEN 1 ELSE Line!Unit(Decimals[r.log.asset]) * r.then.price)

(* When the last fetch neither failed nor ran beside another, it is the only    *)
(* one and has the lookup of now, or the rows follow the lookup already.       *)
RowIInv ==
  /\ laneOf \in {"sol", "evm"} /\ lookup \in Line!Lookup /\ slipped \in BOOLEAN
  /\ logged \subseteq Line!Log
  /\ rowFetch \in [Reads -> [with: SUBSET Line!Lookup, of: SUBSET logged]]
  /\ \A r \in listRows : r.of \in logged /\ r.figure >= 0
  /\ IsFiniteSet(ownRows) /\ Cardinality(ownRows) <= MaxSent
  /\ \A r \in ownRows : OwnRowOK(r)
  /\ ~slipped => \A j, k \in Reads : Fetched(k) =>
       rowFetch[k].with = {lookup} /\ (Fetched(j) => j = k)
  /\ ~slipped /\ (\A k \in Reads : ~Fetched(k)) =>
       \A r \in listRows : r = Line!Row(r.of, lookup[r.of.asset])

LEMMA LookupType ==
  ASSUME NEW l \in Line!Lookup, NEW a \in LineAssets
  PROVE  /\ l[a] \in [name: Line!Names, price: Nat]
         /\ l[a].name \in Line!Names /\ l[a].price \in Nat
         /\ Line!KnownDecimals(a, l[a].name) \in 0 .. Digits
         /\ Line!AssetPrice(l[a].price) \in Nat \ {0}
<1>1. l[a] \in [name: Line!Names, price: LinePrices \cup {0}]
  BY DEF Line!Lookup
<1>2. LinePrices \cup {0} \subseteq Nat
  BY RowAssumption
<1>3. Line!KnownDecimals(a, l[a].name) \in 0 .. Digits
  BY RowAssumption DEF Line!KnownDecimals
<1>4. l[a] \in [name: Line!Names, price: Nat]
  BY <1>1, <1>2
<1> QED
  BY <1>3, <1>4 DEF Line!AssetPrice

LEMMA NoFetchType == Line!NoFetch \in [with: SUBSET Line!Lookup, of: SUBSET logged]
BY DEF Line!NoFetch

LEMMA RowInitInv == Line!Init => RowIInv
<1> SUFFICES ASSUME Line!Init PROVE RowIInv
  OBVIOUS
<1>1. PICK n \in [LineAssets -> {"none", "own"}] : lookup = [a \in LineAssets |-> [name |-> n[a], price |-> 0]]
  BY DEF Line!Init
<1>2. lookup \in Line!Lookup
  BY <1>1 DEF Line!Lookup, Line!Names
<1>3. rowFetch \in [Reads -> [with: SUBSET Line!Lookup, of: SUBSET logged]] /\ \A k \in Reads : ~Fetched(k)
  BY NoFetchType DEF Line!Init, Fetched
<1>4. IsFiniteSet({}) /\ Cardinality({}) <= MaxSent
  BY FS_EmptySet, RowAssumption
<1> QED
  BY <1>2, <1>3, <1>4 DEF Line!Init, RowIInv

(* What is being fetched after a fetch was begun with the lookup of now.      *)
LEMMA FetchBegins ==
  ASSUME RowIInv, Line!Fetch(lookup', logged'), lookup' \in Line!Lookup, logged \subseteq logged',
         laneOf' = laneOf
  PROVE  /\ rowFetch' \in [Reads -> [with: SUBSET Line!Lookup, of: SUBSET logged']] /\ slipped' \in BOOLEAN
         /\ \E k \in Reads : Fetched(k)'
         /\ ~slipped' => \A j, k \in Reads : Fetched(k)' =>
              rowFetch'[k].with = {lookup'} /\ (Fetched(j)' => j = k)
<1> DEFINE r == [with |-> {lookup'}, of |-> logged']
<1>1. r \in [with: SUBSET Line!Lookup, of: SUBSET logged'] /\ r.with = {lookup'} /\ r # Line!NoFetch
  BY DEF Line!NoFetch
<1>2. rowFetch \in [Reads -> [with: SUBSET Line!Lookup, of: SUBSET logged']]
  BY DEF RowIInv
<1>3. Line!NoFetch \in [with: SUBSET Line!Lookup, of: SUBSET logged']
  BY DEF Line!NoFetch
<1>4. PICK k \in Reads :
        \/ rowFetch' = [j \in Reads |-> IF j = k THEN r ELSE Line!NoFetch] /\ slipped' = FALSE
        \/ k \in Line!Free /\ rowFetch' = [rowFetch EXCEPT ![k] = r] /\ slipped' = (Line!Free # Reads)
  BY DEF Line!Fetch, Line!Free
<1> HIDE DEF r
<1>5. rowFetch' \in [Reads -> [with: SUBSET Line!Lookup, of: SUBSET logged']] /\ rowFetch'[k] = r
  BY <1>1, <1>2, <1>3, <1>4
<1>6. slipped' \in BOOLEAN
  BY <1>4
<1>7. ~slipped' => \A j \in Reads \ {k} : ~Fetched(j)'
  BY <1>1, <1>2, <1>4 DEF Fetched, Line!Free
<1>8. Fetched(k)'
  BY <1>1, <1>5 DEF Fetched
<1> QED
  BY <1>1, <1>5, <1>6, <1>7, <1>8

LEMMA RowReadNames == ASSUME RowIInv, NEW named \in SUBSET LineAssets, Line!ReadNames(named) PROVE RowIInv'
<1>1. /\ UNCHANGED <<laneOf, logged, ownRows, listRows>> /\ Line!Fetch(lookup', logged')
      /\ lookup' = [a \in LineAssets |-> IF a \in named THEN [lookup[a] EXCEPT !.name = "own"] ELSE lookup[a]]
  BY DEF Line!ReadNames
<1>2. \A a \in LineAssets : lookup[a] \in [name: Line!Names, price: LinePrices \cup {0}]
  BY DEF RowIInv, Line!Lookup
<1>3. \A a \in LineAssets : [lookup[a] EXCEPT !.name = "own"] \in [name: Line!Names, price: LinePrices \cup {0}]
  BY <1>2 DEF Line!Names
<1>4. lookup' \in Line!Lookup
  BY <1>1, <1>2, <1>3 DEF Line!Lookup
<1>5. \A r \in ownRows : OwnRowOK(r)'
  BY <1>1 DEF RowIInv, OwnRowOK, Line!Row
<1> QED
  BY <1>1, <1>4, <1>5, FetchBegins DEF RowIInv

LEMMA RowReadPosition == ASSUME RowIInv, NEW l \in Line!Lookup, Line!ReadPosition(l) PROVE RowIInv'
<1>1. UNCHANGED <<laneOf, logged, ownRows, listRows>> /\ Line!Fetch(lookup', logged') /\ lookup' = l
  BY DEF Line!ReadPosition
<1>2. \A r \in ownRows : OwnRowOK(r)'
  BY <1>1 DEF RowIInv, OwnRowOK, Line!Row
<1> QED
  BY <1>1, <1>2, FetchBegins DEF RowIInv

(* A fetch is over: it may have been the only one.                            *)
LEMMA FetchOver ==
  ASSUME RowIInv, NEW k \in Reads, rowFetch' = [rowFetch EXCEPT ![k] = Line!NoFetch], UNCHANGED <<lookup, logged>>
  PROVE  /\ rowFetch' \in [Reads -> [with: SUBSET Line!Lookup, of: SUBSET logged']]
         /\ ~slipped => \A i, j \in Reads : Fetched(j)' =>
              rowFetch'[j].with = {lookup'} /\ (Fetched(i)' => i = j)
<1>1. /\ rowFetch' \in [Reads -> [with: SUBSET Line!Lookup, of: SUBSET logged']]
      /\ rowFetch'[k] = Line!NoFetch /\ \A j \in Reads \ {k} : rowFetch'[j] = rowFetch[j]
  BY NoFetchType DEF RowIInv
<1>2. ~Fetched(k)' /\ \A j \in Reads \ {k} : Fetched(j)' = Fetched(j)
  BY <1>1 DEF Fetched
<1> QED
  BY <1>1, <1>2 DEF RowIInv

LEMMA RowAnswer == ASSUME RowIInv, NEW k \in Reads, Line!Answer(k) PROVE RowIInv'
<1>1. /\ UNCHANGED <<laneOf, lookup, logged, ownRows, slipped>> /\ Fetched(k)
      /\ rowFetch' = [rowFetch EXCEPT ![k] = Line!NoFetch]
  BY DEF Line!Answer, Fetched
<1>2. PICK l \in rowFetch[k].with :
        listRows' = {Line!Row(e, l[e.asset]) : e \in rowFetch[k].of}
  BY DEF Line!Answer
<1>3. l \in Line!Lookup /\ rowFetch[k].of \subseteq logged
  BY DEF RowIInv
<1>4. ASSUME NEW e \in logged
      PROVE  Line!Row(e, l[e.asset]).of = e /\ Line!Row(e, l[e.asset]).figure >= 0
  <2>1. e.asset \in LineAssets /\ e.raw \in Nat
    BY DEF RowIInv, Line!Log
  <2> DEFINE f == l[e.asset]
             u == Line!Unit(Line!KnownDecimals(e.asset, f.name))
  <2>2. f.price \in Nat /\ u \in Nat \ {0}
    BY <1>3, <2>1, LookupType, UnitIsPositive
  <2> HIDE DEF f, u
  <2>3. e.raw * u \in Nat
    BY <2>1, <2>2
  <2>4. e.raw * u * f.price \in Nat
    BY <2>2, <2>3
  <2>5. Line!Row(e, f).of = e /\ Line!Row(e, f).figure \in {0, e.raw * u * f.price}
    BY DEF Line!Row, u
  <2> QED
    BY <2>4, <2>5 DEF f
<1>5. \A r \in listRows' : \E e \in rowFetch[k].of : r = Line!Row(e, l[e.asset])
  BY <1>2
<1>6. \A r \in listRows' : r.of \in logged' /\ r.figure >= 0
  BY <1>1, <1>3, <1>4, <1>5
<1>7. ~slipped => \A r \in listRows' : r = Line!Row(r.of, lookup[r.of.asset])
  <2>1. ~slipped => l = lookup
    BY <1>1 DEF RowIInv
  <2> QED
    BY <1>3, <1>4, <1>5, <2>1
<1>9. \A r \in ownRows : OwnRowOK(r)'
  BY <1>1 DEF RowIInv, OwnRowOK, Line!Row
<1> QED
  BY <1>1, <1>6, <1>7, <1>9, FetchOver DEF RowIInv

LEMMA RowFailFetch == ASSUME RowIInv, NEW k \in Reads, Line!FailFetch(k) PROVE RowIInv'
<1>1. /\ UNCHANGED <<laneOf, lookup, logged, ownRows, listRows>> /\ slipped' = TRUE
      /\ rowFetch' = [rowFetch EXCEPT ![k] = Line!NoFetch]
  BY DEF Line!FailFetch
<1>2. \A r \in ownRows : OwnRowOK(r)'
  BY <1>1 DEF RowIInv, OwnRowOK, Line!Row
<1> QED
  BY <1>1, <1>2, FetchOver DEF RowIInv

(* The amount that is sent and the one the row of it tells, on either lane.     *)
LEMMA AmountIsSent ==
  ASSUME NEW t \in Nat, NEW d \in 0 .. Digits, laneOf \in {"sol", "evm"}
  PROVE  LET sent == Line!Parse(t, d)
             u == Line!Unit(d)
         IN /\ sent \in Nat /\ u \in Nat \ {0} /\ sent * u \in Nat
            /\ laneOf = "sol" => sent * u <= t
            /\ laneOf = "evm" => sent * u - t < u /\ t - sent * u < u
<1> DEFINE sent == Line!Parse(t, d)
           u == Line!Unit(d)
<1>1. u \in Nat \ {0}
  BY UnitIsPositive
<1>2. sent = IF laneOf = "sol" THEN t \div u ELSE (2 * t + u) \div (2 * u)
  BY DEF Line!Parse
<1> HIDE DEF u, sent
<1>3. CASE laneOf = "sol"
  BY <1>1, <1>2, <1>3, CutOff DEF u, sent
<1>4. CASE laneOf = "evm"
  <2>1. sent = (2 * t + u) \div (2 * u)
    BY <1>2, <1>4
  <2>2. sent \in Nat /\ sent * u - t < u /\ t - sent * u < u
    BY <1>1, <2>1, RoundOff
  <2>3. sent * u \in Nat
    BY <1>1, <2>2
  <2> QED
    BY <1>1, <1>4, <2>2, <2>3 DEF u, sent
<1> QED
  BY <1>3, <1>4

LEMMA RowSubmit ==
  ASSUME RowIInv, NEW type \in Line!Action, NEW a \in LineAssets, NEW typed \in Typed,
         Line!Submit(type, a, typed)
  PROVE  RowIInv'
<1> DEFINE f == lookup[a]
           d == IF laneOf = "sol" THEN Line!KnownDecimals(a, f.name) ELSE Decimals[a]
           u == Line!Unit(d)
           v == Line!Unit(Decimals[a])
           sent == Line!Parse(typed, d)
           no == Cardinality(ownRows) + 1
           amount == IF laneOf = "sol" THEN sent * u ELSE typed
           log == [no |-> no, asset |-> a, raw |-> sent,
                   kind |-> IF type \in {"supply", "repay"} THEN "supply" ELSE "withdraw"]
           figure == amount * Line!AssetPrice(f.price)
           row == [no |-> no, verb |-> Line!OptimisticVerb(type), log |-> log, typed |-> typed,
                   then |-> f, figure |-> figure]
<1>1. /\ no <= MaxSent /\ sent > 0 /\ (laneOf = "sol" => f.name # "none")
      /\ ownRows' = ownRows \cup {row} /\ UNCHANGED <<laneOf, lookup, listRows>>
      /\ logged' = logged \cup {log} \/ (laneOf = "sol" /\ logged' = logged)
      /\ IF laneOf = "sol" THEN UNCHANGED <<rowFetch, slipped>> ELSE Line!Fetch(lookup, logged')
  BY RowCardinality DEF Line!Submit
<1>2. /\ f \in [name: Line!Names, price: Nat] /\ f.name \in Line!Names /\ f.price \in Nat
      /\ d \in 0 .. Digits /\ Decimals[a] \in 0 .. Digits /\ Line!AssetPrice(f.price) \in Nat \ {0}
      /\ f.price > 0 => Line!AssetPrice(f.price) = f.price
  BY LookupType, RowAssumption DEF RowIInv, Line!AssetPrice
<1>3. typed \in Nat /\ laneOf \in {"sol", "evm"}
  BY RowAssumption DEF RowIInv
<1> HIDE DEF f, d
<1>4. /\ sent \in Nat /\ u \in Nat \ {0} /\ sent * u \in Nat
      /\ laneOf = "sol" => sent * u <= typed
      /\ laneOf = "evm" => sent * u - typed < u /\ typed - sent * u < u
  BY <1>2, <1>3, AmountIsSent
<1>5. no \in Nat /\ no >= 1 /\ IsFiniteSet(ownRows') /\ Cardinality(ownRows') <= MaxSent
  <2>1. Cardinality(ownRows) \in Nat
    BY FS_CardinalityType DEF RowIInv
  <2>2. ASSUME NEW x
        PROVE  IsFiniteSet(ownRows \cup {x}) /\ Cardinality(ownRows \cup {x}) <= Cardinality(ownRows) + 1
    <3>1. IsFiniteSet(ownRows)
      BY DEF RowIInv
    <3>2. /\ IsFiniteSet(ownRows \cup {x})
          /\ Cardinality(ownRows \cup {x}) = IF x \in ownRows THEN Cardinality(ownRows) ELSE Cardinality(ownRows) + 1
      BY <3>1, FS_AddElement, Zenon
    <3> QED
      BY <2>1, <3>2
  <2> HIDE DEF row
  <2>3. IsFiniteSet(ownRows') /\ Cardinality(ownRows') <= Cardinality(ownRows) + 1
    BY <1>1, <2>2
  <2>4. Cardinality(ownRows') \in Nat
    BY <2>3, FS_CardinalityType
  <2> QED
    BY <1>1, <2>1, <2>3, <2>4, RowAssumption
<1> HIDE DEF no, sent, u
<1>6. log \in Line!Log
  BY <1>1, <1>4, <1>5 DEF Line!Log
<1>7. logged' \subseteq Line!Log /\ logged \subseteq logged'
  <2> HIDE DEF log
  <2> QED
    BY <1>1, <1>6 DEF RowIInv
<1>8. log.raw = sent /\ log.asset = a /\ (log.kind = "supply" <=> type \in {"supply", "repay"})
      /\ log.kind \in {"supply", "withdraw"}
  OBVIOUS
<1> HIDE DEF log
<1>9. row.log = log /\ row.typed = typed /\ row.then = f /\ row.figure = figure
      /\ row.verb = Line!OptimisticVerb(type)
  OBVIOUS
<1> HIDE DEF row
<1>10. laneOf = "sol" => figure <= typed * Line!AssetPrice(f.price)
  BY <1>2, <1>3, <1>4, TimesAtMost
<1>11. Line!VerbFor(log.kind) = "Supplied" <=> row.verb \in {"Supplied", "Repaid"}
  BY <1>8, <1>9 DEF Line!VerbFor, Line!OptimisticVerb, Line!Action
<1>12. ASSUME f.price > 0, f.name # "stand-in"
       PROVE  Line!Near(figure, sent * v * f.price, IF laneOf = "sol" THEN 1 ELSE v * f.price)
  <2>1. laneOf = "sol" => d = Decimals[a]
    BY <1>12 DEF d, Line!KnownDecimals
  <2>2. d = Decimals[a]
    BY <2>1 DEF d
  <2>3. v = u
    BY <2>2 DEF u
  <2>4. CASE laneOf = "sol"
    <3>1. figure = sent * v * f.price
      BY <1>2, <1>12, <2>3, <2>4
    <3>2. figure \in Int
      BY <1>2, <1>4, <3>1, <2>3
    <3> QED
      BY <2>4, <3>1, <3>2 DEF Line!Near
  <2>5. CASE laneOf = "evm"
    <3>1. figure = typed * f.price
      BY <1>2, <1>12, <2>5
    <3>2. (sent * u - typed) * f.price < u * f.price /\ (typed - sent * u) * f.price < u * f.price
      <4>1. sent * u - typed \in Int /\ typed - sent * u \in Int /\ u \in Int /\ f.price \in Nat \ {0}
        BY <1>2, <1>3, <1>4, <1>12
      <4> QED
        BY <1>4, <2>5, <4>1, TimesLess
    <3> DEFINE x == sent * u
    <3>3. x \in Nat
      BY <1>4
    <3> HIDE DEF x
    <3>4. (x - typed) * f.price = x * f.price - typed * f.price /\ (typed - x) * f.price = typed * f.price - x * f.price
      BY <1>2, <1>3, <3>3
    <3>5. figure - x * f.price < u * f.price /\ x * f.price - figure < u * f.price
      BY <3>1, <3>2, <3>4 DEF x
    <3> QED
      BY <2>3, <2>5, <3>5 DEF Line!Near, x
  <2> QED
    BY <1>3, <2>4, <2>5
<1>13. OwnRowOK(row)
  <2> DEFINE g == [f EXCEPT !.name = "own"]
  <2>1. g.name = "own" /\ g.price = f.price
    BY <1>2
  <2> HIDE DEF g
  <2>2. Line!Row(log, g).figure = sent * v * f.price
    BY <1>8, <2>1 DEF Line!Row, Line!KnownDecimals
  <2> HIDE DEF figure
  <2>3. Line!Near(row.figure, Line!Row(row.log, g).figure,
                  IF laneOf = "sol" THEN 1 ELSE Line!Unit(Decimals[row.log.asset]) * row.then.price)
        \/ ~(row.then.price > 0 /\ row.then.name # "stand-in")
    <3>1. Line!Unit(Decimals[row.log.asset]) * row.then.price = v * f.price
      BY <1>8, <1>9
    <3> HIDE DEF v
    <3> QED
      BY <1>9, <1>12, <2>2, <3>1
  <2> HIDE DEF v
  <2> QED
    BY <1>9, <1>10, <1>11, <2>3 DEF OwnRowOK, g
<1>14. \A r \in ownRows' : OwnRowOK(r)'
  <2>1. \A r : OwnRowOK(r) => OwnRowOK(r)'
    BY <1>1 DEF OwnRowOK
  <2>2. \A r \in ownRows' : OwnRowOK(r)
    BY <1>1, <1>13 DEF RowIInv
  <2> QED
    BY <2>1, <2>2
<1>15. CASE laneOf = "sol"
  <2>1. UNCHANGED <<rowFetch, slipped, lookup, listRows, laneOf>>
    BY <1>1, <1>15
  <2>2. rowFetch' \in [Reads -> [with: SUBSET Line!Lookup, of: SUBSET logged']]
    BY <1>7, <2>1 DEF RowIInv
  <2> QED
    BY <1>5, <1>7, <1>14, <2>1, <2>2 DEF RowIInv, Fetched
<1>16. CASE laneOf = "evm"
  <2>1. Line!Fetch(lookup', logged') /\ UNCHANGED <<lookup, listRows, laneOf>>
    BY <1>1, <1>16
  <2>2. /\ rowFetch' \in [Reads -> [with: SUBSET Line!Lookup, of: SUBSET logged']] /\ slipped' \in BOOLEAN
        /\ \E k \in Reads : Fetched(k)'
        /\ ~slipped' => \A j, k \in Reads : Fetched(k)' =>
             rowFetch'[k].with = {lookup'} /\ (Fetched(j)' => j = k)
    BY <1>7, <2>1, FetchBegins DEF RowIInv
  <2> QED
    BY <1>5, <1>7, <1>14, <2>1, <2>2 DEF RowIInv
<1> QED
  BY <1>3, <1>15, <1>16

LEMMA RowNextInv == RowIInv /\ (Line!Next \/ UNCHANGED rowVars) => RowIInv'
<1> SUFFICES ASSUME RowIInv, Line!Next \/ UNCHANGED rowVars PROVE RowIInv'
  OBVIOUS
<1>1. CASE Line!Next
  BY <1>1, RowReadNames, RowReadPosition, RowAnswer, RowFailFetch, RowSubmit DEF Line!Next
<1>2. CASE UNCHANGED rowVars
  <2>1. UNCHANGED <<laneOf, lookup, logged, ownRows, listRows, rowFetch, slipped>>
    BY <1>2 DEF rowVars
  <2>2. \A r \in ownRows : OwnRowOK(r)'
    BY <2>1 DEF RowIInv, OwnRowOK, Line!Row
  <2> QED
    BY <2>1, <2>2 DEF RowIInv, Fetched
<1> QED
  BY <1>1, <1>2

LEMMA RowFollows == RowIInv => Line!RowTypeOK /\ Line!RowsAreRight
<1> SUFFICES ASSUME RowIInv PROVE Line!RowTypeOK /\ Line!RowsAreRight
  OBVIOUS
<1>1. Line!RowTypeOK
  BY RowCardinality DEF RowIInv, Line!RowTypeOK
<1>2. Line!RowsFollowPosition
  BY DEF RowIInv, Line!RowsFollowPosition, Line!Free, Fetched
<1>3. Line!OwnRowIsTheLogs
  BY Zenon DEF RowIInv, Line!OwnRowIsTheLogs, OwnRowOK
<1> QED
  BY <1>1, <1>2, <1>3 DEF Line!RowsAreRight

-----------------------------------------------------------------------------
(* SignedCall, for any accounts, chains, calls, tables and size of a packet.   *)

MaybeOwner == Owners \cup {NoOwner}
Clusters == {Cluster[ch] : ch \in SignChains} \cup {"none"}
Keys == {"payer", "state", "treasury", "market"}
SignerSet == [how: {"none", "bare", "chain"}, who: MaybeOwner, cluster: Clusters, at: Nat]
CallSet == [pc: {"idle", "read", "sign", "popup", "sent", "failed"}, kind: {"raw", "legacy", "v0"},
            by: MaybeOwner, chain: SignChains, signer: SignerSet,
            keys: SUBSET Keys, found: SUBSET Keys, packed: SUBSET Keys,
            asked: MaybeOwner, shown: Clusters, at: Nat]
WalletSet == [kind: Sign!Kinds, account: MaybeOwner, list: Sign!Lists]

(* A connected account is among the authorised ones, where there are any.     *)
WalletOK == wallet.account # NoOwner /\ wallet.list # <<>> => wallet.account \in Sign!ToSet(wallet.list)

(* The signer is of the lane's cluster, and of the connected account unless     *)
(* that was changed since.                                                   *)
SignerOK ==
  /\ signTx.at <= moves
  /\ signTx.how = "chain" =>
       signTx.cluster = Cluster[chain] /\ (signTx.at = moves => signTx.who = wallet.account)

(* A call r keeps what it was started with; the account is the one it was       *)
(* started by until one is connected or changed.                              *)
CallOK(r) ==
  r.pc # "idle" =>
    /\ r.at <= moves /\ r.signer.at <= r.at
    /\ r.at = moves => wallet.account \in {r.by, NoOwner}
    /\ r.signer.how = "chain" =>
         r.signer.cluster = Cluster[r.chain] /\ (r.signer.at = r.at => r.signer.who = r.by)
    /\ r.pc \in {"sign", "popup", "sent"} /\ r.kind # "raw" =>
         /\ r.found \subseteq r.keys /\ (r.kind = "legacy" => "treasury" \in r.keys)
         /\ Sign!Cardinality(r.keys \ r.packed) <= Inline /\ "payer" \notin r.packed
    /\ r.pc = "popup" =>
         IF r.signer.how = "chain" THEN r.asked = r.signer.who /\ r.shown = r.signer.cluster
         ELSE r.asked # r.by => r.at < moves

SignIInv ==
  /\ chain \in SignChains /\ wallet \in WalletSet /\ signTx \in SignerSet
  /\ calls \in [Calls -> CallSet] /\ moves \in Nat /\ events \in 0 .. MaxEvents
  /\ WalletOK /\ SignerOK /\ \A c \in Calls : CallOK(calls[c])

LEMMA ClusterType == \A ch \in SignChains : Cluster[ch] \in Clusters
BY DEF Clusters

LEMMA NoSignerType == Sign!NoSigner \in SignerSet /\ Sign!NoSigner.how = "none" /\ Sign!NoSigner.at = 0
BY DEF Sign!NoSigner, SignerSet, MaybeOwner, Clusters

LEMMA UnusedCallType == Sign!Unused \in CallSet /\ Sign!Unused.pc = "idle"
BY NoSignerType, SignAssumption DEF Sign!Unused, CallSet, MaybeOwner, Clusters

LEMMA SignInitInv == Sign!Init => SignIInv
<1> SUFFICES ASSUME Sign!Init PROVE SignIInv
  OBVIOUS
<1>1. wallet \in WalletSet /\ wallet.account = NoOwner
  BY DEF Sign!Init, WalletSet, Sign!Kinds, Sign!Lists, MaybeOwner
<1>2. calls \in [Calls -> CallSet] /\ \A c \in Calls : CallOK(calls[c])
  BY UnusedCallType DEF Sign!Init, CallOK
<1> QED
  BY <1>1, <1>2, NoSignerType, SignAssumption DEF Sign!Init, SignIInv, WalletOK, SignerOK

LEMMA ListedOwners == \A s \in Sign!Lists : s # <<>> => s[1] \in Owners
BY DEF Sign!Lists

(* A signer made now is of this chain, this account and this moment.          *)
LEMMA SignerIsNew ==
  ASSUME NEW w \in WalletSet, NEW ch \in SignChains, NEW m \in Nat,
         w.account # NoOwner /\ w.list # <<>> => w.account \in Sign!ToSet(w.list)
  PROVE  LET s == Sign!SignerFor(w, ch, m)
         IN /\ s \in SignerSet /\ s.at <= m
            /\ s.how = "chain" => s.cluster = Cluster[ch] /\ s.who = w.account
<1>1. CASE w.kind = "none" \/ w.account = NoOwner
  BY <1>1, NoSignerType DEF Sign!SignerFor
<1>2. CASE ~(w.kind = "none" \/ w.account = NoOwner) /\ w.kind = "standard" /\ Sign!AccountOf(w) # NoOwner
  <2>1. Sign!AccountOf(w) = w.account
    BY <1>2 DEF Sign!AccountOf
  <2>2. Sign!SignerFor(w, ch, m) = [how |-> "chain", who |-> w.account, cluster |-> Cluster[ch], at |-> m]
    BY <1>2, <2>1 DEF Sign!SignerFor
  <2>3. w.account \in MaybeOwner
    BY DEF WalletSet
  <2> QED
    BY <2>2, <2>3, ClusterType DEF SignerSet
<1>3. CASE ~(w.kind = "none" \/ w.account = NoOwner) /\ ~(w.kind = "standard" /\ Sign!AccountOf(w) # NoOwner)
  <2>1. Sign!SignerFor(w, ch, m) = [how |-> "bare", who |-> NoOwner, cluster |-> "none", at |-> m]
    BY <1>3 DEF Sign!SignerFor
  <2> QED
    BY <2>1 DEF SignerSet, MaybeOwner, Clusters
<1> QED
  BY <1>1, <1>2, <1>3

(* The calls while the wallet moves: only the account of now concerns them.    *)
LEMMA CallsStay ==
  ASSUME SignIInv, UNCHANGED calls, moves' \in Nat, moves' >= moves,
         moves' = moves => wallet'.account \in {wallet.account, NoOwner}
  PROVE  calls' \in [Calls -> CallSet] /\ \A c \in Calls : CallOK(calls[c])'
<1>1. calls' \in [Calls -> CallSet]
  BY DEF SignIInv
<1>2. ASSUME NEW c \in Calls, NEW r \in CallSet, CallOK(r), r = calls[c] PROVE CallOK(r)'
  <2>1. r.at \in Nat
    BY DEF CallSet
  <2> QED
    BY <1>2, <2>1 DEF CallOK, SignIInv
<1>3. ASSUME NEW c \in Calls PROVE CallOK(calls[c])'
  BY <1>2 DEF SignIInv
<1> QED
  BY <1>1, <1>3

LEMMA EventCounts == ASSUME SignIInv, Sign!Event PROVE events' \in 0 .. MaxEvents
BY SignAssumption DEF SignIInv, Sign!Event

LEMMA WalletConnects == ASSUME SignIInv, Sign!Connect PROVE SignIInv'
<1>1. PICK k \in Sign!Kinds \ {"none"}, o \in Owners, s \in Sign!Lists :
        /\ s # <<>> => o \in Sign!ToSet(s)
        /\ wallet' = [kind |-> k, account |-> o, list |-> s]
  BY DEF Sign!Connect
<1>2. wallet' \in WalletSet /\ WalletOK'
  BY <1>1 DEF WalletSet, MaybeOwner, WalletOK
<1>3. /\ moves' = moves + 1 /\ UNCHANGED <<chain, calls>> /\ Sign!Event
      /\ signTx' = Sign!SignerFor(wallet', chain, moves')
  BY DEF Sign!Connect
<1>4. moves' \in Nat /\ moves' > moves
  BY <1>3 DEF SignIInv
<1>5. signTx' \in SignerSet /\ SignerOK'
  BY <1>2, <1>3, <1>4, SignerIsNew DEF SignIInv, SignerOK, WalletOK
<1> QED
  BY <1>2, <1>3, <1>4, <1>5, CallsStay, EventCounts DEF SignIInv

LEMMA WalletDisconnects == ASSUME SignIInv, Sign!Disconnect PROVE SignIInv'
<1>1. /\ wallet' = [wallet EXCEPT !.account = NoOwner, !.list = <<>>] /\ signTx' = Sign!NoSigner
      /\ UNCHANGED <<chain, calls, moves>> /\ Sign!Event
  BY DEF Sign!Disconnect
<1>2. wallet' \in WalletSet /\ wallet'.account = NoOwner
  BY <1>1 DEF SignIInv, WalletSet, MaybeOwner, Sign!Lists
<1>3. signTx' \in SignerSet /\ SignerOK' /\ WalletOK'
  BY <1>1, <1>2, NoSignerType DEF SignerOK, SignIInv, WalletOK
<1> QED
  BY <1>1, <1>2, <1>3, CallsStay, EventCounts DEF SignIInv

LEMMA AccountSwitches == ASSUME SignIInv, Sign!SwitchAccount PROVE SignIInv'
<1> DEFINE Becomes(o, s) == [wallet EXCEPT !.account = o, !.list = s]
<1>1. PICK o \in Owners \ {wallet.account}, s \in Sign!Lists :
        o \in Sign!ToSet(s) /\ wallet' = Becomes(o, s)
  BY Zenon DEF Sign!SwitchAccount
<1>2. moves' = moves + 1 /\ UNCHANGED <<chain, signTx, calls>> /\ Sign!Event
  BY DEF Sign!SwitchAccount
<1>3. wallet' \in WalletSet /\ wallet'.account = o /\ wallet'.list = s
  BY <1>1 DEF SignIInv, WalletSet, MaybeOwner
<1>4. WalletOK'
  BY <1>1, <1>3 DEF WalletOK
<1>5. moves' \in Nat /\ moves' > moves /\ signTx.at \in Nat
  BY <1>2 DEF SignIInv, SignerSet
<1>6. SignerOK'
  BY <1>2, <1>5 DEF SignIInv, SignerOK
<1> QED
  BY <1>2, <1>3, <1>4, <1>5, <1>6, CallsStay, EventCounts DEF SignIInv

LEMMA ChainResolves == ASSUME SignIInv, Sign!Resolve PROVE SignIInv'
<1>1. PICK ch \in SignChains \ {BuiltChain} :
        /\ chain' = ch
        /\ signTx' = IF Cluster[ch] # Cluster[BuiltChain] THEN Sign!SignerFor(wallet, ch, moves) ELSE signTx
  BY DEF Sign!Resolve
<1>2. chain = BuiltChain /\ UNCHANGED <<wallet, calls, moves>> /\ Sign!Event
  BY DEF Sign!Resolve
<1>3. signTx' \in SignerSet /\ SignerOK'
  <2>1. CASE Cluster[ch] # Cluster[BuiltChain]
    <3>1. signTx' = Sign!SignerFor(wallet, ch, moves)
      BY <1>1, <2>1
    <3>2. /\ signTx' \in SignerSet /\ signTx'.at <= moves
          /\ signTx'.how = "chain" => signTx'.cluster = Cluster[ch] /\ signTx'.who = wallet.account
      BY <3>1, SignerIsNew DEF SignIInv, WalletOK
    <3> QED
      BY <1>1, <1>2, <3>2 DEF SignerOK
  <2>2. CASE Cluster[ch] = Cluster[BuiltChain]
    BY <1>1, <1>2, <2>2 DEF SignIInv, SignerOK
  <2> QED
    BY <2>1, <2>2
<1> QED
  BY <1>1, <1>2, <1>3, CallsStay, EventCounts DEF SignIInv, WalletOK

(* A call moves on to r.                                                    *)
LEMMA CallMoves ==
  ASSUME SignIInv, NEW c \in Calls, NEW r \in CallSet, calls' = [calls EXCEPT ![c] = r], CallOK(r),
         UNCHANGED <<chain, wallet, signTx, moves, events>>
  PROVE  SignIInv'
<1>1. calls' \in [Calls -> CallSet] /\ calls'[c] = r /\ \A b \in Calls \ {c} : calls'[b] = calls[b]
  BY DEF SignIInv
<1>2. ASSUME NEW q \in CallSet, CallOK(q) PROVE CallOK(q)'
  BY <1>2 DEF CallOK
<1>3. ASSUME NEW b \in Calls PROVE CallOK(calls[b])'
  <2>1. PICK q \in CallSet : calls'[b] = q /\ CallOK(q)
    BY <1>1 DEF SignIInv
  <2>2. CallOK(q)' /\ calls'[b] = q
    BY <1>2, <2>1
  <2> QED
    BY <2>2 DEF CallOK
<1>4. \A b \in Calls : CallOK(calls[b])'
  BY <1>3
<1> QED
  BY <1>1, <1>4 DEF SignIInv, WalletOK, SignerOK

LEMMA CallStarts == ASSUME SignIInv, NEW c \in Calls, Sign!Start(c) PROVE SignIInv'
<1>1. PICK k \in {"raw", "legacy", "v0"} :
        calls' = [calls EXCEPT ![c] =
          [Sign!Unused EXCEPT !.pc = IF k = "raw" THEN "sign" ELSE "read", !.kind = k,
             !.by = wallet.account, !.chain = chain, !.signer = signTx, !.at = moves]]
  BY DEF Sign!Start
<1> DEFINE r == [Sign!Unused EXCEPT !.pc = IF k = "raw" THEN "sign" ELSE "read", !.kind = k,
             !.by = wallet.account, !.chain = chain, !.signer = signTx, !.at = moves]
<1>2. wallet.account \in MaybeOwner /\ chain \in SignChains /\ signTx \in SignerSet /\ moves \in Nat
  BY DEF SignIInv, WalletSet
<1>3. /\ r \in CallSet /\ r.pc = (IF k = "raw" THEN "sign" ELSE "read") /\ r.kind = k /\ r.by = wallet.account
      /\ r.chain = chain /\ r.signer = signTx /\ r.at = moves
  BY <1>2, UnusedCallType DEF CallSet
<1> HIDE DEF r
<1>4. CallOK(r)
  BY <1>3 DEF CallOK, SignIInv, SignerOK
<1>5. UNCHANGED <<chain, wallet, signTx, moves, events>>
  BY DEF Sign!Start
<1> QED
  BY <1>1, <1>3, <1>4, <1>5, CallMoves DEF r

LEMMA CallReads == ASSUME SignIInv, NEW c \in Calls, Sign!Read(c) PROVE SignIInv'
<1> DEFINE q == calls[c]
           Keyed(found) == Sign!Accounts(q.kind, found)
           Packed(found, ts) == IF q.kind = "v0" THEN (Keyed(found) \ {"payer"}) \cap UNION {SignTables[t] : t \in ts} ELSE {}
           Then(found, ts) == IF Sign!Cardinality(Keyed(found) \ Packed(found, ts)) <= Inline THEN "sign" ELSE "failed"
<1>1. PICK found \in {{}, {"payer", "state"}, {"payer", "state", "treasury", "market"}},
           ts \in SUBSET DOMAIN SignTables :
        calls' = [calls EXCEPT ![c] = [@ EXCEPT !.found = found, !.keys = Keyed(found),
                    !.packed = Packed(found, ts), !.pc = Then(found, ts)]]
  BY Zenon DEF Sign!Read
<1> DEFINE keys == Keyed(found)
           packed == Packed(found, ts)
           then == Then(found, ts)
           r == [q EXCEPT !.found = found, !.keys = keys, !.packed = packed, !.pc = then]
<1>2. q \in CallSet /\ CallOK(q)
  BY DEF SignIInv
<1>3. found \subseteq Keys /\ keys \subseteq Keys /\ found \subseteq keys /\ (q.kind = "legacy" => "treasury" \in keys)
  BY DEF Keys, Sign!Accounts
<1>4. packed \subseteq keys /\ "payer" \notin packed
  OBVIOUS
<1>5. calls' = [calls EXCEPT ![c] = r]
  BY <1>1
<1>6. then \in {"sign", "failed"} /\ (then = "sign" => Sign!Cardinality(keys \ packed) <= Inline)
  OBVIOUS
<1>7. q.pc = "read" /\ UNCHANGED <<chain, wallet, signTx, moves, events>>
  BY DEF Sign!Read
<1> HIDE DEF q, keys, packed, then
<1>8. /\ r \in CallSet /\ r.pc = then /\ r.kind = q.kind /\ r.by = q.by /\ r.chain = q.chain
      /\ r.signer = q.signer /\ r.at = q.at /\ r.found = found /\ r.keys = keys /\ r.packed = packed
  BY <1>2, <1>3, <1>4, <1>6 DEF CallSet
<1> HIDE DEF r
<1>9. CallOK(r)
  BY <1>2, <1>3, <1>4, <1>6, <1>7, <1>8 DEF CallOK
<1> QED
  BY <1>5, <1>7, <1>8, <1>9, CallMoves, Zenon

LEMMA CallRequests == ASSUME SignIInv, NEW c \in Calls, Sign!Request(c) PROVE SignIInv'
<1> DEFINE q == calls[c]
           s == q.signer
           fine == Sign!Asked(s) # NoOwner /\ (s.how = "chain" => s.who \in Sign!ToSet(wallet.list))
           then == IF fine THEN "popup" ELSE "failed"
           r == [q EXCEPT !.asked = Sign!Asked(s), !.shown = s.cluster, !.pc = then]
<1>1. calls' = [calls EXCEPT ![c] = r] /\ q.pc = "sign" /\ UNCHANGED <<chain, wallet, signTx, moves, events>>
  BY Zenon DEF Sign!Request
<1>2. q \in CallSet /\ CallOK(q) /\ wallet.account \in MaybeOwner
  BY DEF SignIInv, WalletSet
<1>3. s \in SignerSet
  BY <1>2 DEF CallSet
<1>4. Sign!Asked(s) \in MaybeOwner /\ Sign!Asked(s) = IF s.how = "chain" THEN s.who ELSE wallet.account
  BY <1>2, <1>3 DEF Sign!Asked, SignerSet
<1>5. then \in {"popup", "failed"} /\ (then = "popup" => Sign!Asked(s) # NoOwner)
  OBVIOUS
<1> HIDE DEF q, then
<1>6. /\ r \in CallSet /\ r.pc = then /\ r.kind = q.kind /\ r.by = q.by /\ r.chain = q.chain
      /\ r.signer = q.signer /\ r.at = q.at /\ r.found = q.found /\ r.keys = q.keys /\ r.packed = q.packed
      /\ r.asked = Sign!Asked(q.signer) /\ r.shown = q.signer.cluster
  <2>1. s.cluster \in Clusters
    BY <1>3 DEF SignerSet
  <2> QED
    BY <1>2, <1>4, <1>5, <2>1 DEF CallSet
<1> HIDE DEF r
<1>7. q.at \in Nat /\ moves \in Nat
  BY <1>2 DEF CallSet, SignIInv
<1>8. CallOK(r)
  BY <1>1, <1>2, <1>4, <1>5, <1>6, <1>7 DEF CallOK
<1> QED
  BY <1>1, <1>6, <1>8, CallMoves, Zenon

(* The other steps of a call only end it.                                     *)
LEMMA CallEnds ==
  ASSUME SignIInv, NEW c \in Calls, Sign!Approve(c) \/ Sign!Fail(c)
  PROVE  SignIInv'
<1> DEFINE q == calls[c]
<1>1. /\ UNCHANGED <<chain, wallet, signTx, moves, events>>
      /\ \E pc1 \in {"sent", "failed"} :
           calls' = [calls EXCEPT ![c].pc = pc1] /\ (pc1 = "sent" => q.pc = "popup")
      /\ q.pc # "idle"
  BY DEF Sign!Approve, Sign!Fail
<1>2. PICK pc1 \in {"sent", "failed"} :
        calls' = [calls EXCEPT ![c] = [q EXCEPT !.pc = pc1]] /\ (pc1 = "sent" => q.pc = "popup")
  BY <1>1
<1>3. q \in CallSet /\ CallOK(q)
  BY DEF SignIInv
<1> DEFINE r == [q EXCEPT !.pc = pc1]
<1>4. calls' = [calls EXCEPT ![c] = r]
  BY <1>2
<1> HIDE DEF q
<1>5. /\ r \in CallSet /\ r.pc = pc1 /\ r.kind = q.kind /\ r.by = q.by /\ r.chain = q.chain
      /\ r.signer = q.signer /\ r.at = q.at /\ r.found = q.found /\ r.keys = q.keys /\ r.packed = q.packed
  BY <1>3 DEF CallSet
<1> HIDE DEF r
<1>6. CallOK(r)
  BY <1>1, <1>2, <1>3, <1>5 DEF CallOK
<1> QED
  BY <1>1, <1>4, <1>5, <1>6, CallMoves, Zenon

LEMMA SignNextInv == SignIInv /\ (Sign!Next \/ UNCHANGED signVars) => SignIInv'
<1> SUFFICES ASSUME SignIInv, Sign!Next \/ UNCHANGED signVars PROVE SignIInv'
  OBVIOUS
<1>1. CASE Sign!Next
  BY <1>1, WalletConnects, WalletDisconnects, AccountSwitches, ChainResolves, CallStarts, CallReads,
     CallRequests, CallEnds, Zenon DEF Sign!Next
<1>2. CASE UNCHANGED signVars
  <2>1. UNCHANGED <<chain, wallet, signTx, calls, moves, events>>
    BY <1>2 DEF signVars
  <2> QED
    BY <2>1, CallsStay DEF SignIInv, WalletOK, SignerOK
<1> QED
  BY <1>1, <1>2

LEMMA SignFollows == SignIInv => Sign!SignTypeOK /\ Sign!SignIsRight
<1> SUFFICES ASSUME SignIInv PROVE Sign!SignTypeOK /\ Sign!SignIsRight
  OBVIOUS
<1>1. Sign!SignTypeOK
  BY DEF SignIInv, Sign!SignTypeOK, WalletSet, SignerSet, CallSet, MaybeOwner
<1>2. ASSUME NEW c \in Calls
      PROVE  /\ calls[c].pc = "popup" /\ calls[c].asked # calls[c].by =>
                  IF calls[c].signer.how = "chain" THEN calls[c].signer.at < calls[c].at
                  ELSE calls[c].at < moves
             /\ calls[c].pc = "popup" /\ calls[c].signer.how = "chain" =>
                  calls[c].shown = Cluster[calls[c].chain]
             /\ calls[c].pc \in {"popup", "sent"} /\ calls[c].kind # "raw" =>
                  /\ calls[c].found \subseteq calls[c].keys
                  /\ calls[c].kind = "legacy" => "treasury" \in calls[c].keys
                  /\ Sign!Cardinality(calls[c].keys \ calls[c].packed) <= Inline
                  /\ "payer" \notin calls[c].packed
  <2>1. CallOK(calls[c]) /\ calls[c].at \in Nat /\ calls[c].signer.at \in Nat
    BY DEF SignIInv, CallSet, SignerSet
  <2> QED
    BY <2>1 DEF CallOK
<1>3. Sign!PayerIsAsked
  BY <1>2 DEF Sign!PayerIsAsked
<1>4. Sign!PreviewIsOfItsChain
  BY <1>2 DEF Sign!PreviewIsOfItsChain
<1>5. Sign!NothingMissing
  BY <1>2 DEF Sign!NothingMissing
<1> QED
  BY <1>1, <1>3, <1>4, <1>5 DEF Sign!SignIsRight

-----------------------------------------------------------------------------
(* WalletConnect, for any wallets: its types.                               *)

LEMMA WalletInitInv == Wallet!Init => Wallet!ConnectTypeOK
<1>1. 0 \in 0 .. MaxPicks
  BY WalletAssumption
<1>2. <<NoWallet, "idle">> \in (Wallets \cup {NoWallet}) \X {"idle", "connecting", "connected"}
  OBVIOUS
<1> QED
  BY <1>1, <1>2 DEF Wallet!Init, Wallet!ConnectTypeOK

LEMMA WalletNextInv ==
  Wallet!ConnectTypeOK /\ (Wallet!Next \/ UNCHANGED walletVars) => Wallet!ConnectTypeOK'
<1> SUFFICES ASSUME Wallet!ConnectTypeOK, Wallet!Next \/ UNCHANGED walletVars
             PROVE  Wallet!ConnectTypeOK'
  OBVIOUS
<1> USE DEF Wallet!ConnectTypeOK
<1>1. CASE Wallet!Render
  BY <1>1 DEF Wallet!Render, Wallet!Attempt, Wallet!Now
<1>2. CASE Wallet!Approved \/ Wallet!Refused \/ Wallet!Disconnect
  BY <1>2 DEF Wallet!Approved, Wallet!Refused, Wallet!Disconnect
<1>3. ASSUME NEW w \in Wallets, Wallet!Pick(w) PROVE Wallet!ConnectTypeOK'
  BY <1>3, WalletAssumption DEF Wallet!Pick
<1>4. ASSUME NEW w \in Wallets, Wallet!Installs(w) PROVE Wallet!ConnectTypeOK'
  BY <1>4 DEF Wallet!Installs
<1>5. CASE UNCHANGED walletVars
  BY <1>5 DEF walletVars
<1> QED
  BY <1>1, <1>2, <1>3, <1>4, <1>5 DEF Wallet!Next

-----------------------------------------------------------------------------
(* AltLifecycle, for any tabs, devices, keys, tables and wanted accounts.      *)

LEMMA AltCardinality == \A S : Alt!Cardinality(S) = Cardinality(S)
BY DEF Alt!Cardinality, Cardinality

(* A finite set has subsets of every smaller size.                            *)
LEMMA SubsetOfSize ==
  ASSUME NEW S, IsFiniteSet(S), NEW m \in Nat, m <= Cardinality(S)
  PROVE  \E T \in SUBSET S : Cardinality(T) = m
<1> DEFINE B == {n \in 0 .. m : ~ \E T \in SUBSET S : Cardinality(T) = n}
<1> SUFFICES ASSUME B # {} PROVE FALSE
  OBVIOUS
<1>1. B \subseteq Nat
  OBVIOUS
<1>2. PICK n \in B : \A k \in B : n <= k
  BY <1>1, LeastNatural
<1>3. n # 0
  BY FS_EmptySet
<1>4. n - 1 \in 0 .. m /\ ~(n - 1 \in B) /\ n \in Nat
  BY <1>1, <1>2, <1>3
<1>5. PICK T \in SUBSET S : Cardinality(T) = n - 1
  BY <1>4
<1>6. T # S /\ IsFiniteSet(T)
  BY <1>2, <1>5, FS_Subset
<1>7. PICK x \in S : x \notin T
  BY <1>6
<1>8. Cardinality(T \cup {x}) = n
  <2>1. Cardinality(T \cup {x}) = Cardinality(T) + 1
    BY <1>6, <1>7, FS_AddElement, Zenon
  <2> QED
    BY <1>4, <1>5, <2>1
<1> QED
  BY <1>2, <1>8

(* A chunk is a part of what is left, and some of it if there is any.          *)
LEMMA ChunkIsPart ==
  ASSUME NEW S, IsFiniteSet(S), NEW n \in Nat \ {0}
  PROVE  Alt!Chunk(n, S) \subseteq S /\ (S # {} => Alt!Chunk(n, S) # {})
<1> DEFINE m == IF Cardinality(S) < n THEN Cardinality(S) ELSE n
<1>1. Cardinality(S) \in Nat /\ (S # {} => Cardinality(S) # 0)
  BY FS_CardinalityType, FS_EmptySet
<1>2. m \in Nat /\ m <= Cardinality(S) /\ (S # {} => m # 0)
  BY <1>1
<1>3. Alt!Chunk(n, S) = CHOOSE T \in SUBSET S : Cardinality(T) = m
  BY AltCardinality DEF Alt!Chunk
<1> HIDE DEF m
<1>4. \E T \in SUBSET S : Cardinality(T) = m
  BY <1>2, SubsetOfSize
<1>5. Alt!Chunk(n, S) \in SUBSET S /\ Cardinality(Alt!Chunk(n, S)) = m
  BY <1>3, <1>4
<1>6. Cardinality({}) = 0
  BY FS_EmptySet
<1> QED
  BY <1>2, <1>5, <1>6

Filling == {"popup", "sent", "await"}

(* A call c of ensureAlt.  What it wants is in its table, in its transaction or  *)
(* still left; a table that was found is one the node has seen; and a landed     *)
(* creation is registered.                                                  *)
TabOK(c) ==
  /\ c.pc \in Alt!Looking \cup Filling => c.want \in Wants
  /\ c.pc = "reuse" => c.table \in AltTables
  /\ c.pc = "pointer" => c.key \in Registered
  /\ c.pc \in Alt!Looking => c.from # "create"
  /\ c.pc \in {"reuse"} \cup Filling /\ c.from = "pointer" =>
       c.key \in Registered /\ seen.pointer[c.key] # NoTable /\ seen.table[c.table] # {}
  /\ c.pc \in Filling => c.table \in AltTables /\ (c.from # "create" => seen.table[c.table] # {})
  /\ c.pc \in {"popup", "sent"} =>
       /\ c.tx \in Alt!Tx /\ c.tx.table = c.table /\ c.tx.key = c.key /\ c.tx.adds # {}
       /\ c.rest \subseteq c.want
       /\ c.want \subseteq table[c.table] \cup c.rest \cup c.tx.adds
  /\ c.pc = "popup" => ~c.landed
  /\ c.pc = "sent" /\ c.landed =>
       /\ c.tx.adds \subseteq table[c.table]
       /\ c.tx.creates /\ c.key \in Registered => pointer[c.key] # NoTable
  /\ c.pc \in {"await", "done"} => c.table \in AltTables /\ c.want \subseteq table[c.table]
  /\ c.knew =>
       /\ c.from # "create" /\ c.pc # "create"
       /\ c.key \in Registered /\ seen.pointer[c.key] # NoTable

LookingTabs == {t \in Tabs : call[t].pc \in Alt!Looking}
FreshTables == {x \in AltTables : Alt!Fresh(x)}

AltIInv ==
  /\ Alt!TypeOK
  /\ \A x \in net : x.adds # {}
  /\ \A x \in AltTables : seen.table[x] \subseteq table[x]
  /\ \A k \in Registered :
       /\ pointer[k] # NoTable => table[pointer[k]] # {}
       /\ seen.pointer[k] # NoTable => pointer[k] # NoTable /\ seen.table[seen.pointer[k]] # {}
  /\ Alt!RememberedIsFindable
  /\ \A t \in Tabs : TabOK(call[t])
  /\ Cardinality(LookingTabs) <= Cardinality(FreshTables)

LEMMA AltSizes ==
  /\ IsFiniteSet(LookingTabs) /\ IsFiniteSet(FreshTables)
  /\ Cardinality(LookingTabs) \in Nat /\ Cardinality(FreshTables) \in Nat
<1>1. LookingTabs \subseteq Tabs /\ FreshTables \subseteq AltTables
  BY DEF LookingTabs, FreshTables
<1>2. IsFiniteSet(LookingTabs) /\ IsFiniteSet(FreshTables)
  BY <1>1, AltAssumption, FS_Subset
<1> QED
  BY <1>2, FS_CardinalityType

LEMMA IdleType == Alt!Idle \in Alt!Call /\ TabOK(Alt!Idle) /\ Alt!Idle.pc = "idle"
<1>1. (CHOOSE k \in CacheKeys : TRUE) \in CacheKeys
  BY AltAssumption
<1>2. Alt!NoTx \in Alt!Tx \cup {Alt!NoTx}
  OBVIOUS
<1>3. Alt!Idle \in Alt!Call
  BY <1>1, <1>2 DEF Alt!Idle, Alt!Call, Alt!Resting, Alt!MaybeTable
<1>4. Alt!Idle.pc = "idle" /\ Alt!Idle.knew = FALSE
  BY DEF Alt!Idle
<1> QED
  BY <1>3, <1>4 DEF TabOK, Filling, Alt!Looking

LEMMA AltInitInv == Alt!Init => AltIInv
<1> SUFFICES ASSUME Alt!Init PROVE AltIInv
  OBVIOUS
<1>1. Alt!TypeOK
  BY IdleType, ShapeAssumption DEF Alt!Init, Alt!TypeOK, Alt!MaybeTable, Alt!Devices
<1>2. Alt!RememberedIsFindable
  BY DEF Alt!Init, Alt!RememberedIsFindable
<1>3. \A t \in Tabs : TabOK(call[t])
  <2>1. \A t \in Tabs : call[t] = Alt!Idle
    BY DEF Alt!Init
  <2> QED
    BY <2>1, IdleType
<1>4. LookingTabs = {}
  BY IdleType DEF Alt!Init, LookingTabs, Alt!Looking
<1>5. Cardinality(LookingTabs) <= Cardinality(FreshTables)
  BY <1>4, AltSizes, FS_EmptySet
<1> QED
  BY <1>1, <1>2, <1>3, <1>5 DEF Alt!Init, AltIInv

(* What a call relies on stays: tables only grow, and pointers stay set.       *)
TablesGrow ==
  /\ \A x \in AltTables : table[x] \subseteq table'[x] /\ seen.table[x] \subseteq seen'.table[x]
  /\ \A k \in Registered :
       /\ pointer[k] # NoTable => pointer'[k] # NoTable
       /\ seen.pointer[k] # NoTable => seen'.pointer[k] # NoTable

LEMMA TabStays ==
  ASSUME AltIInv, TablesGrow, NEW c \in Alt!Call, TabOK(c)
  PROVE  TabOK(c)'
<1>1. c.pc \in {"reuse"} \cup Filling => c.table \in AltTables
  BY DEF TabOK, Filling
<1>2. c.table \in AltTables =>
        table[c.table] \subseteq table'[c.table] /\ seen.table[c.table] \subseteq seen'.table[c.table]
  BY DEF TablesGrow
<1>3. c.key \in Registered =>
        /\ pointer[c.key] # NoTable => pointer'[c.key] # NoTable
        /\ seen.pointer[c.key] # NoTable => seen'.pointer[c.key] # NoTable
  BY DEF TablesGrow
<1> QED
  BY <1>1, <1>2, <1>3 DEF TabOK, Filling, Alt!Looking

(* A call moves on to r and may remember a table; chain and node stay.         *)
LEMMA TabMoves ==
  ASSUME AltIInv, NEW t \in Tabs, NEW r \in Alt!Call, TabOK(r), call' = [call EXCEPT ![t] = r],
         UNCHANGED <<table, pointer, seen>>, reloads' \in 0 .. MaxReloads,
         net' \subseteq Alt!Tx, \A x \in net' : x.adds # {},
         local' \in [Alt!Devices -> [CacheKeys -> Alt!MaybeTable]], Alt!RememberedIsFindable',
         Cardinality(LookingTabs') <= Cardinality(FreshTables')
  PROVE  AltIInv'
<1>1. call' \in [Tabs -> Alt!Call] /\ call'[t] = r /\ \A u \in Tabs \ {t} : call'[u] = call[u]
  BY DEF AltIInv, Alt!TypeOK
<1>2. TablesGrow
  BY DEF TablesGrow
<1>3. ASSUME NEW u \in Tabs PROVE TabOK(call[u])'
  <2>1. PICK c \in Alt!Call : call'[u] = c /\ TabOK(c)
    BY <1>1 DEF AltIInv, Alt!TypeOK
  <2>2. TabOK(c)' /\ call'[u] = c
    BY <1>2, <2>1, TabStays
  <2> QED
    BY <2>2 DEF TabOK
<1> QED
  BY <1>1, <1>3 DEF AltIInv, Alt!TypeOK

LEMMA FindableStays ==
  ASSUME AltIInv, UNCHANGED <<table, pointer, local>>
  PROVE  Alt!RememberedIsFindable' /\ local' \in [Alt!Devices -> [CacheKeys -> Alt!MaybeTable]]
BY DEF AltIInv, Alt!TypeOK, Alt!RememberedIsFindable

(* Tabs that look for a table still have one each: as long as no other begins   *)
(* to and none is taken.                                                    *)
LEMMA TablesSuffice ==
  ASSUME AltIInv, LookingTabs' \subseteq LookingTabs, FreshTables \subseteq FreshTables'
  PROVE  Cardinality(LookingTabs') <= Cardinality(FreshTables')
<1>1. IsFiniteSet(LookingTabs) /\ IsFiniteSet(FreshTables) /\ IsFiniteSet(FreshTables')
      /\ Cardinality(LookingTabs) \in Nat /\ Cardinality(FreshTables) \in Nat
  BY AltSizes, AltAssumption, FS_Subset DEF FreshTables
<1>2. Cardinality(LookingTabs') <= Cardinality(LookingTabs)
  BY <1>1, FS_Subset
<1>3. Cardinality(FreshTables) <= Cardinality(FreshTables')
  BY <1>1, FS_Subset
<1>4. Cardinality(LookingTabs') \in Nat /\ Cardinality(FreshTables') \in Nat
  BY <1>1, FS_Subset, FS_CardinalityType
<1> QED
  BY <1>1, <1>2, <1>3, <1>4 DEF AltIInv

(* The same, for a call that moves on to r: it takes no table it did not have.  *)
LEMMA TablesStay ==
  ASSUME AltIInv, NEW t \in Tabs, NEW r \in Alt!Call, call' = [call EXCEPT ![t] = r], UNCHANGED table,
         r.pc \in Alt!Looking => call[t].pc \in Alt!Looking,
         r.pc \in {"popup", "sent"} => ~Alt!Fresh(r.table),
         \A y \in net' : ~Alt!Fresh(y.table)
  PROVE  Cardinality(LookingTabs') <= Cardinality(FreshTables')
<1>1. call'[t] = r /\ \A u \in Tabs \ {t} : call'[u] = call[u]
  BY DEF AltIInv, Alt!TypeOK
<1>2. LookingTabs' \subseteq LookingTabs
  BY <1>1 DEF LookingTabs, Alt!Looking
<1>3. ASSUME NEW x \in AltTables, Alt!Fresh(x) PROVE Alt!Fresh(x)'
  <2>1. table'[x] = {} /\ \A y \in net' : y.table # x
    BY <1>3 DEF Alt!Fresh
  <2>2. \A u \in Tabs : call'[u].pc \in {"popup", "sent"} => call'[u].table # x
    BY <1>1, <1>3 DEF Alt!Fresh
  <2> QED
    BY <2>1, <2>2 DEF Alt!Fresh
<1>4. FreshTables \subseteq FreshTables'
  BY <1>3 DEF FreshTables
<1> QED
  BY <1>2, <1>4, TablesSuffice

LEMMA NetIsTaken == AltIInv => \A y \in net : ~Alt!Fresh(y.table)
BY DEF Alt!Fresh

LEMMA AltLand == ASSUME AltIInv, NEW x \in net, Alt!Land(x) PROVE AltIInv'
<1>1. /\ net' = net \ {x} /\ table' = [table EXCEPT ![x.table] = @ \cup x.adds]
      /\ pointer' = (IF x.creates THEN Alt!SetAlt(x) ELSE pointer)
      /\ call' = [t \in Tabs |-> IF call[t].pc = "sent" /\ call[t].tx = x
                                 THEN [call[t] EXCEPT !.landed = TRUE] ELSE call[t]]
      /\ UNCHANGED <<seen, local, reloads>>
  BY DEF Alt!Land
<1>2. x \in Alt!Tx /\ x.adds # {} /\ x.table \in AltTables /\ x.adds \subseteq Alt!Accts /\ x.key \in CacheKeys
  BY DEF AltIInv, Alt!TypeOK, Alt!Tx
<1>3. /\ table' \in [AltTables -> SUBSET Alt!Accts] /\ x.adds \subseteq table'[x.table]
      /\ \A y \in AltTables : table[y] \subseteq table'[y]
  BY <1>1, <1>2 DEF AltIInv, Alt!TypeOK
<1>4. /\ pointer' \in [Registered -> Alt!MaybeTable]
      /\ \A k \in Registered : pointer'[k] = pointer[k] \/ pointer'[k] = x.table
      /\ x.creates /\ x.key \in Registered => pointer'[x.key] = x.table
  BY <1>1, <1>2 DEF AltIInv, Alt!TypeOK, Alt!SetAlt, Alt!MaybeTable
<1>5. x.table # NoTable /\ table'[x.table] # {}
  BY <1>2, <1>3, AltAssumption
<1>6. TablesGrow
  BY <1>1, <1>3, <1>4, <1>5 DEF TablesGrow
<1>7. \A k \in Registered : pointer'[k] # NoTable => table'[pointer'[k]] # {}
  <2>1. \A k \in Registered : pointer[k] # NoTable => pointer[k] \in AltTables
    BY DEF AltIInv, Alt!TypeOK, Alt!MaybeTable
  <2> QED
    BY <1>3, <1>4, <1>5, <2>1 DEF AltIInv
<1>8. \A k \in Registered : seen'.pointer[k] # NoTable =>
        pointer'[k] # NoTable /\ seen'.table[seen'.pointer[k]] # {}
  BY <1>1, <1>4, <1>5 DEF AltIInv
<1>9. Alt!RememberedIsFindable'
  <2>1. ASSUME NEW d \in Alt!Devices, NEW k \in CacheKeys, local[d][k] # NoTable
        PROVE  /\ table'[local[d][k]] # {}
               /\ k \in Registered => pointer'[k] # NoTable /\ table'[pointer'[k]] # {}
    <3>1. local[d][k] \in AltTables
      BY <2>1 DEF AltIInv, Alt!TypeOK, Alt!MaybeTable
    <3>2. table[local[d][k]] # {} /\ (k \in Registered => pointer[k] # NoTable)
      BY <2>1 DEF AltIInv, Alt!RememberedIsFindable
    <3> QED
      BY <1>3, <1>4, <1>5, <1>7, <3>1, <3>2
  <2> QED
    BY <1>1, <2>1 DEF Alt!RememberedIsFindable
<1>10. ASSUME NEW t \in Tabs
       PROVE  \E r \in Alt!Call : call'[t] = r /\ TabOK(r)' /\ r.pc = call[t].pc /\ r.table = call[t].table
  <2> DEFINE c == call[t]
  <2>1. c \in Alt!Call /\ TabOK(c)
    BY DEF AltIInv, Alt!TypeOK
  <2>2. CASE ~(c.pc = "sent" /\ c.tx = x)
    <3>1. call'[t] = c
      BY <1>1, <2>2
    <3>2. \A r \in Alt!Call : TabOK(r) => TabOK(r)'
      BY <1>6, TabStays
    <3> QED
      BY <2>1, <3>1, <3>2
  <2>3. CASE c.pc = "sent" /\ c.tx = x
    <3>1. PICK r \in Alt!Call : r = c
      BY <2>1
    <3>2. TabOK(r) /\ r.pc = "sent" /\ r.tx = x
      BY <2>1, <2>3, <3>1
    <3>3. TabOK(r)' /\ r.tx.adds \subseteq table'[r.table]
          /\ (r.tx.creates /\ r.key \in Registered => pointer'[r.key] # NoTable)
      <4>1. r.table = x.table /\ r.key = x.key
        BY <3>2 DEF TabOK
      <4> QED
        BY <1>3, <1>4, <1>5, <1>6, <3>2, <4>1, TabStays
    <3> DEFINE q == [r EXCEPT !.landed = TRUE]
    <3>4. /\ q \in Alt!Call /\ q.pc = r.pc /\ q.key = r.key /\ q.want = r.want /\ q.from = r.from
          /\ q.table = r.table /\ q.rest = r.rest /\ q.tx = r.tx /\ q.landed = TRUE /\ q.knew = r.knew
      BY DEF Alt!Call
    <3>5. call'[t] = q
      BY <1>1, <2>3, <3>1
    <3> HIDE DEF q
    <3>6. \A p \in Alt!Call : p = q => TabOK(p)'
      BY <3>2, <3>3, <3>4 DEF TabOK
    <3> QED
      BY <3>1, <3>4, <3>5, <3>6
  <2> QED
    BY <2>2, <2>3
<1>11. call' \in [Tabs -> Alt!Call] /\ \A t \in Tabs : TabOK(call[t])'
  <2>1. \A t \in Tabs : call'[t] \in Alt!Call
    BY <1>10
  <2>2. ASSUME NEW t \in Tabs PROVE TabOK(call[t])'
    BY <1>10 DEF TabOK
  <2> QED
    BY <1>1, <2>1, <2>2
<1>12. LookingTabs' \subseteq LookingTabs
  BY <1>10 DEF LookingTabs, Alt!Looking
<1>13. FreshTables \subseteq FreshTables'
  <2>1. ASSUME NEW y \in AltTables, Alt!Fresh(y) PROVE Alt!Fresh(y)'
    <3>1. y # x.table /\ table'[y] = {}
      BY <1>1, <1>2, <2>1 DEF Alt!Fresh, AltIInv, Alt!TypeOK
    <3> QED
      BY <1>1, <1>10, <2>1, <3>1 DEF Alt!Fresh
  <2> QED
    BY <2>1 DEF FreshTables
<1>14. Cardinality(LookingTabs') <= Cardinality(FreshTables')
  BY <1>12, <1>13, TablesSuffice
<1>15. net' \subseteq Alt!Tx /\ \A y \in net' : y.adds # {}
  BY <1>1 DEF AltIInv, Alt!TypeOK
<1>16. \A y \in AltTables : seen'.table[y] \subseteq table'[y]
  BY <1>1, <1>3 DEF AltIInv
<1>17. Alt!TypeOK'
  BY <1>1, <1>3, <1>4, <1>11, <1>15 DEF AltIInv, Alt!TypeOK
<1> QED
  BY <1>7, <1>8, <1>9, <1>11, <1>14, <1>15, <1>16, <1>17 DEF AltIInv

LEMMA AltSync == ASSUME AltIInv, Alt!Sync PROVE AltIInv'
<1>1. /\ seen' = [table |-> table, pointer |-> pointer] /\ UNCHANGED <<table, pointer, local, net, call, reloads>>
  BY DEF Alt!Sync
<1>2. TablesGrow
  BY <1>1 DEF TablesGrow, AltIInv
<1>3. ASSUME NEW t \in Tabs PROVE TabOK(call[t])'
  <2>1. PICK c \in Alt!Call : call[t] = c /\ TabOK(c)
    BY DEF AltIInv, Alt!TypeOK
  <2>2. TabOK(c)' /\ call'[t] = c
    BY <1>1, <1>2, <2>1, TabStays
  <2> QED
    BY <2>2 DEF TabOK
<1>4. Alt!TypeOK' /\ Alt!RememberedIsFindable'
  BY <1>1, FindableStays DEF AltIInv, Alt!TypeOK
<1>5. LookingTabs' = LookingTabs /\ FreshTables' = FreshTables
  BY <1>1 DEF LookingTabs, FreshTables, Alt!Fresh
<1>6. Cardinality(LookingTabs') <= Cardinality(FreshTables')
  BY <1>5 DEF AltIInv
<1> QED
  BY <1>1, <1>3, <1>4, <1>6 DEF AltIInv

(* r is what call c asks the wallet to sign: adds for table x, then the rest.  *)
Asked(r, c, rest, adds, creates, x) ==
  /\ r \in Alt!Call /\ r.pc = "popup" /\ r.key = c.key /\ r.want = c.want
  /\ r.from = c.from /\ r.table = x /\ r.rest = rest \ adds /\ r.landed = FALSE
  /\ r.knew = c.knew
  /\ r.tx \in Alt!Tx /\ r.tx.table = x /\ r.tx.adds = adds /\ r.tx.key = c.key
  /\ r.tx.creates = creates

LEMMA AskMakes ==
  ASSUME NEW t \in Tabs, call[t] \in Alt!Call, NEW rest \in SUBSET Alt!Accts, NEW adds \in SUBSET rest,
         NEW creates \in BOOLEAN, NEW x \in AltTables
  PROVE  Asked(Alt!Ask(t, rest, adds, creates, x), call[t], rest, adds, creates, x)
<1> DEFINE tx == [table |-> x, adds |-> adds, key |-> call[t].key, creates |-> creates]
<1>1. tx \in Alt!Tx /\ tx.table = x /\ tx.adds = adds /\ tx.key = call[t].key /\ tx.creates = creates
  BY DEF Alt!Call, Alt!Tx
<1> HIDE DEF tx
<1> DEFINE Made(c) ==
  [c EXCEPT !.pc = "popup", !.table = x, !.rest = rest \ adds, !.landed = FALSE, !.tx = tx]
<1>2. Alt!Ask(t, rest, adds, creates, x) = Made(call[t])
  BY DEF Alt!Ask, tx
<1>3. ASSUME NEW c \in Alt!Call
      PROVE  /\ Made(c) \in Alt!Call /\ Made(c).pc = "popup" /\ Made(c).key = c.key /\ Made(c).want = c.want
             /\ Made(c).from = c.from /\ Made(c).table = x /\ Made(c).rest = rest \ adds
             /\ Made(c).landed = FALSE /\ Made(c).knew = c.knew /\ Made(c).tx = tx
  BY <1>1 DEF Alt!Call, Alt!MaybeTable
<1> HIDE DEF Made
<1> QED
  BY <1>1, <1>2, <1>3 DEF Asked

(* A table that is remembered is there, and registered if its key names a Comet. *)
LEMMA RememberKeeps ==
  ASSUME AltIInv, NEW t \in Tabs, NEW x \in AltTables, Alt!Remember(t, x), UNCHANGED <<table, pointer>>,
         table[x] # {}, call[t].key \in Registered => pointer[call[t].key] # NoTable
  PROVE  Alt!RememberedIsFindable' /\ local' \in [Alt!Devices -> [CacheKeys -> Alt!MaybeTable]]
<1> DEFINE d == On[t]
           k == call[t].key
<1>1. d \in Alt!Devices /\ k \in CacheKeys
  BY DEF Alt!Devices, AltIInv, Alt!TypeOK, Alt!Call
<1>2. local' = [local EXCEPT ![d] = [local[d] EXCEPT ![k] = x]]
  BY DEF Alt!Remember
<1> HIDE DEF d, k
<1>3. local \in [Alt!Devices -> [CacheKeys -> Alt!MaybeTable]] /\ x \in Alt!MaybeTable
  BY DEF AltIInv, Alt!TypeOK, Alt!MaybeTable
<1>4. local[d] \in [CacheKeys -> Alt!MaybeTable]
  BY <1>1, <1>3
<1>5. [local[d] EXCEPT ![k] = x] \in [CacheKeys -> Alt!MaybeTable]
  BY <1>3, <1>4
<1>6. local' \in [Alt!Devices -> [CacheKeys -> Alt!MaybeTable]]
  BY <1>1, <1>2, <1>3, <1>5
<1>7. ASSUME NEW e \in Alt!Devices, NEW j \in CacheKeys
      PROVE  local'[e][j] = local[e][j] \/ (e = d /\ j = k /\ local'[e][j] = x)
  BY <1>1, <1>2, <1>3, <1>4
<1>8. ASSUME NEW e \in Alt!Devices, NEW j \in CacheKeys, local'[e][j] # NoTable
      PROVE  /\ table'[local'[e][j]] # {}
             /\ j \in Registered => pointer'[j] # NoTable /\ table'[pointer'[j]] # {}
  <2>1. CASE local'[e][j] = local[e][j]
    BY <1>8, <2>1 DEF AltIInv, Alt!RememberedIsFindable
  <2>2. CASE j = k /\ local'[e][j] = x
    BY <2>2 DEF AltIInv, k
  <2> QED
    BY <1>7, <2>1, <2>2
<1>9. Alt!RememberedIsFindable'
  <2>1. Alt!Devices' = Alt!Devices
    BY DEF Alt!Devices
  <2> QED
    BY <1>8 DEF Alt!RememberedIsFindable
<1> QED
  BY <1>6, <1>9

(* The call returns a table that holds what it wants; a table of the pointer's   *)
(* is remembered.                                                           *)
LEMMA AltReturn ==
  ASSUME AltIInv, NEW t \in Tabs, Alt!Return(t), Alt!Keep,
         call[t].table \in AltTables, call[t].want \subseteq table[call[t].table],
         call[t].from = "pointer" =>
           /\ table[call[t].table] # {}
           /\ call[t].key \in Registered => pointer[call[t].key] # NoTable
  PROVE  AltIInv'
<1>1. UNCHANGED <<table, pointer, seen, net, reloads>>
  BY DEF Alt!Keep
<1> DEFINE r == [Alt!Idle EXCEPT !.pc = "done", !.key = call[t].key, !.want = call[t].want,
                                 !.table = call[t].table]
<1>2. call' = [call EXCEPT ![t] = r]
  BY DEF Alt!Return, Alt!Become
<1>3. call[t] \in Alt!Call
  BY DEF AltIInv, Alt!TypeOK
<1>4. /\ r \in Alt!Call /\ r.pc = "done" /\ r.want = call[t].want /\ r.table = call[t].table
      /\ r.knew = FALSE
  <2>1. Alt!Idle \in Alt!Call /\ Alt!Idle.knew = FALSE
    BY IdleType DEF Alt!Idle
  <2>2. call[t].key \in CacheKeys /\ call[t].want \in SUBSET Alt!Accts /\ call[t].table \in Alt!MaybeTable
    BY <1>3 DEF Alt!Call
  <2> QED
    BY <2>1, <2>2 DEF Alt!Call, Alt!Resting
<1> HIDE DEF r
<1>5. TabOK(r)
  BY <1>4 DEF TabOK, Alt!Looking, Filling
<1>6. Alt!RememberedIsFindable' /\ local' \in [Alt!Devices -> [CacheKeys -> Alt!MaybeTable]]
  <2>1. CASE call[t].from = "pointer"
    BY <1>1, <2>1, RememberKeeps DEF Alt!Return
  <2>2. CASE call[t].from # "pointer"
    BY <1>1, <2>2, FindableStays DEF Alt!Return
  <2> QED
    BY <2>1, <2>2
<1>7. Cardinality(LookingTabs') <= Cardinality(FreshTables')
  BY <1>1, <1>2, <1>4, TablesStay, NetIsTaken DEF Alt!Looking
<1>8. reloads' \in 0 .. MaxReloads /\ net' \subseteq Alt!Tx /\ \A x \in net' : x.adds # {}
  BY <1>1 DEF AltIInv, Alt!TypeOK
<1> QED
  BY <1>1, <1>2, <1>4, <1>5, <1>6, <1>7, <1>8, TabMoves

(* A call moves on to r and remembers nothing.                                *)
LEMMA AltPlainStep ==
  ASSUME AltIInv, NEW t \in Tabs, NEW r \in Alt!Call, TabOK(r), Alt!Become(t, r), UNCHANGED local, Alt!Keep,
         r.pc \in Alt!Looking => call[t].pc \in Alt!Looking,
         r.pc \in {"popup", "sent"} => ~Alt!Fresh(r.table)
  PROVE  AltIInv'
<1>1. UNCHANGED <<table, pointer, seen, local, net, reloads>> /\ call' = [call EXCEPT ![t] = r]
  BY DEF Alt!Keep, Alt!Become
<1>2. Alt!RememberedIsFindable' /\ local' \in [Alt!Devices -> [CacheKeys -> Alt!MaybeTable]]
  BY <1>1, FindableStays
<1>3. Cardinality(LookingTabs') <= Cardinality(FreshTables')
  BY <1>1, TablesStay, NetIsTaken
<1>4. reloads' \in 0 .. MaxReloads /\ net' \subseteq Alt!Tx /\ \A x \in net' : x.adds # {}
  BY <1>1 DEF AltIInv, Alt!TypeOK
<1> QED
  BY <1>1, <1>2, <1>3, <1>4, TabMoves

LEMMA AltStart ==
  ASSUME AltIInv, NEW t \in Tabs, NEW k \in CacheKeys, NEW want \in Wants, Alt!Start(t, k, want)
  PROVE  AltIInv'
<1> DEFINE found == local[On[t]][k]
           pc1 == IF found # NoTable THEN "reuse" ELSE Alt!AfterMiss("local", k)
           knew1 == /\ k \in Registered /\ seen.pointer[k] # NoTable
                    /\ seen.table[seen.pointer[k]] # {}
           r == [Alt!Idle EXCEPT !.pc = pc1, !.key = k, !.want = want, !.table = found, !.knew = knew1]
<1>1. /\ call' = [call EXCEPT ![t] = r] /\ UNCHANGED local /\ Alt!Keep
      /\ call[t].pc \in Alt!Resting /\ Alt!TableLeft
  BY DEF Alt!Start, Alt!Become
<1>2. found \in Alt!MaybeTable /\ want \in SUBSET Alt!Accts
  BY DEF AltIInv, Alt!TypeOK, Alt!Devices, Alt!Accts
<1>3. pc1 \in Alt!Looking /\ (pc1 = "reuse" => found \in AltTables)
      /\ (pc1 = "pointer" => k \in Registered) /\ (k \in Registered => pc1 # "create")
  BY <1>2 DEF Alt!AfterMiss, Alt!Looking, Alt!MaybeTable
<1>4. knew1 \in BOOLEAN /\ (knew1 => k \in Registered /\ seen.pointer[k] # NoTable)
  OBVIOUS
<1> HIDE DEF found, pc1, knew1
<1>5. /\ r \in Alt!Call /\ r.pc = pc1 /\ r.key = k /\ r.want = want /\ r.table = found /\ r.knew = knew1
      /\ r.from = "local"
  <2>1. Alt!Idle \in Alt!Call /\ Alt!Idle.from = "local"
    BY IdleType DEF Alt!Idle
  <2> QED
    BY <1>2, <1>3, <1>4, <2>1 DEF Alt!Call, Alt!Looking
<1> HIDE DEF r
<1>6. TabOK(r)
  BY <1>3, <1>4, <1>5 DEF TabOK, Alt!Looking, Filling
<1>7. UNCHANGED <<table, pointer, seen, local, net, reloads>>
  BY <1>1 DEF Alt!Keep
<1>8. Cardinality(LookingTabs') <= Cardinality(FreshTables')
  <2>1. call'[t] = r /\ \A u \in Tabs \ {t} : call'[u] = call[u]
    BY <1>1 DEF AltIInv, Alt!TypeOK
  <2>2. LookingTabs' = LookingTabs \cup {t}
    BY <1>3, <1>5, <2>1 DEF LookingTabs
  <2>3. Cardinality(LookingTabs) < Cardinality(FreshTables)
    BY <1>1, AltCardinality DEF Alt!TableLeft, LookingTabs, FreshTables
  <2>4. \A x \in AltTables : Alt!Fresh(x)' <=> Alt!Fresh(x)
    <3>1. r.pc \notin {"popup", "sent"} /\ call[t].pc \notin {"popup", "sent"}
      BY <1>1, <1>3, <1>5 DEF Alt!Looking, Alt!Resting
    <3> QED
      BY <1>7, <2>1, <3>1 DEF Alt!Fresh
  <2>5. FreshTables' = FreshTables
    BY <2>4 DEF FreshTables
  <2>6. Cardinality(LookingTabs \cup {t}) \in {Cardinality(LookingTabs), Cardinality(LookingTabs) + 1}
    BY AltSizes, FS_AddElement
  <2> QED
    BY <2>2, <2>3, <2>5, <2>6, AltSizes
<1>9. Alt!RememberedIsFindable' /\ local' \in [Alt!Devices -> [CacheKeys -> Alt!MaybeTable]]
  BY <1>7, FindableStays
<1>10. reloads' \in 0 .. MaxReloads /\ net' \subseteq Alt!Tx /\ \A x \in net' : x.adds # {}
  BY <1>7 DEF AltIInv, Alt!TypeOK
<1> QED
  BY <1>1, <1>5, <1>6, <1>7, <1>8, <1>9, <1>10, TabMoves

LEMMA AltReadPointer == ASSUME AltIInv, NEW t \in Tabs, Alt!ReadPointer(t) PROVE AltIInv'
<1> DEFINE c == call[t]
           x == seen.pointer[c.key]
           r == IF x = NoTable THEN [c EXCEPT !.pc = "create"]
                ELSE [c EXCEPT !.pc = "reuse", !.from = "pointer", !.table = x]
<1>1. Alt!Become(t, r) /\ UNCHANGED local /\ Alt!Keep /\ c.pc = "pointer"
  BY DEF Alt!ReadPointer
<1>2. c \in Alt!Call /\ TabOK(c)
  BY DEF AltIInv, Alt!TypeOK
<1>3. c.key \in Registered /\ c.want \in Wants /\ c.from # "create"
  BY <1>1, <1>2 DEF TabOK, Alt!Looking
<1>4. x \in Alt!MaybeTable /\ (x # NoTable => x \in AltTables /\ seen.table[x] # {})
  BY <1>3 DEF AltIInv, Alt!TypeOK, Alt!MaybeTable
<1>5. c.knew => x # NoTable
  BY <1>2 DEF TabOK
<1> HIDE DEF c
<1>6. CASE x = NoTable
  <2>1. /\ r \in Alt!Call /\ r.pc = "create" /\ r.key = c.key /\ r.want = c.want /\ r.from = c.from
        /\ r.knew = c.knew
    BY <1>2, <1>6 DEF Alt!Call
  <2> HIDE DEF r
  <2>2. TabOK(r)
    BY <1>2, <1>3, <1>5, <1>6, <2>1 DEF TabOK, Alt!Looking, Filling, Alt!Call
  <2> QED
    BY <1>1, <2>1, <2>2, AltPlainStep DEF Alt!Looking, c
<1>7. CASE x # NoTable
  <2>1. /\ r \in Alt!Call /\ r.pc = "reuse" /\ r.key = c.key /\ r.want = c.want /\ r.from = "pointer"
        /\ r.table = x /\ r.knew = c.knew
    BY <1>2, <1>4, <1>7 DEF Alt!Call
  <2> HIDE DEF r
  <2>2. TabOK(r)
    BY <1>2, <1>3, <1>4, <1>7, <2>1 DEF TabOK, Alt!Looking, Filling
  <2> QED
    BY <1>1, <2>1, <2>2, AltPlainStep DEF Alt!Looking, c
<1> QED
  BY <1>6, <1>7

LEMMA AltReuse == ASSUME AltIInv, NEW t \in Tabs, Alt!ReuseOrExtend(t) PROVE AltIInv'
<1> DEFINE c == call[t]
           has == seen.table[c.table]
           missing == c.want \ has
<1>1. c \in Alt!Call /\ TabOK(c) /\ c.pc = "reuse" /\ Alt!Keep
  BY DEF AltIInv, Alt!TypeOK, Alt!ReuseOrExtend
<1>2. c.table \in AltTables /\ c.want \in Wants /\ c.from \in {"local", "pointer"} /\ has \subseteq table[c.table]
      /\ (c.from = "pointer" => has # {} /\ c.key \in Registered /\ seen.pointer[c.key] # NoTable)
  <2>1. c.from \in {"local", "pointer", "create"}
    BY <1>1 DEF Alt!Call
  <2> QED
    BY <1>1, <2>1 DEF TabOK, Alt!Looking, AltIInv
<1>3. c.from = "pointer" => pointer[c.key] # NoTable
  BY <1>2 DEF AltIInv
<1>4. CASE has = {}
  <2> DEFINE pc1 == Alt!AfterMiss(c.from, c.key)
             r == [c EXCEPT !.pc = pc1]
  <2>1. Alt!Become(t, r) /\ UNCHANGED local
    BY <1>4 DEF Alt!ReuseOrExtend
  <2>2. pc1 \in {"pointer", "create"} /\ (pc1 = "pointer" => c.key \in Registered)
        /\ (c.knew => pc1 # "create")
    BY <1>1, <1>2, <1>4 DEF Alt!AfterMiss, TabOK
  <2> HIDE DEF c, pc1
  <2>3. /\ r \in Alt!Call /\ r.pc = pc1 /\ r.key = c.key /\ r.want = c.want /\ r.from = c.from
        /\ r.knew = c.knew
    BY <1>1, <2>2 DEF Alt!Call
  <2> HIDE DEF r
  <2>4. TabOK(r)
    BY <1>1, <1>2, <2>2, <2>3 DEF TabOK, Alt!Looking, Filling
  <2> QED
    BY <1>1, <2>1, <2>2, <2>3, <2>4, AltPlainStep DEF Alt!Looking, c
<1>5. CASE has # {} /\ missing = {}
  <2>1. Alt!Return(t)
    BY <1>5 DEF Alt!ReuseOrExtend
  <2>2. c.want \subseteq table[c.table] /\ table[c.table] # {}
    BY <1>2, <1>5
  <2> QED
    BY <1>1, <1>2, <1>3, <2>1, <2>2, AltReturn
<1>6. CASE has # {} /\ missing # {}
  <2> DEFINE adds == Alt!Chunk(ChunkN, missing)
             r == Alt!Ask(t, missing, adds, FALSE, c.table)
  <2>1. Alt!Become(t, r) /\ UNCHANGED local
    BY <1>6 DEF Alt!ReuseOrExtend
  <2>2. IsFiniteSet(c.want) /\ c.want \subseteq Alt!Accts
    BY <1>2, AltAssumption DEF Alt!Accts
  <2>3. adds \subseteq missing /\ adds # {}
    <3>1. missing \subseteq c.want
      OBVIOUS
    <3> HIDE DEF missing
    <3>2. IsFiniteSet(missing)
      BY <2>2, <3>1, FS_Subset
    <3> QED
      BY <1>6, <3>2, ChunkIsPart, AltAssumption
  <2>4. missing \in SUBSET Alt!Accts
    BY <2>2
  <2> HIDE DEF adds
  <2>5. Asked(r, c, missing, adds, FALSE, c.table)
    <3>1. missing \in SUBSET Alt!Accts /\ adds \in SUBSET missing /\ c.table \in AltTables
          /\ c \in Alt!Call /\ FALSE \in BOOLEAN
      BY <1>1, <1>2, <2>3, <2>4
    <3> HIDE DEF missing
    <3> QED
      BY <3>1, AskMakes
  <2> HIDE DEF r
  <2>6. TabOK(r)
    BY <1>1, <1>2, <1>6, <2>3, <2>5 DEF Asked, TabOK, Alt!Looking, Filling
  <2>7. ~Alt!Fresh(r.table)
    BY <1>2, <1>6, <2>5 DEF Asked, Alt!Fresh
  <2> QED
    BY <1>1, <2>1, <2>5, <2>6, <2>7, AltPlainStep DEF Asked, Alt!Looking
<1> QED
  BY <1>4, <1>5, <1>6

LEMMA AltCreate == ASSUME AltIInv, NEW t \in Tabs, Alt!Create(t) PROVE AltIInv'
<1> DEFINE c == call[t]
           x == CHOOSE y \in AltTables : Alt!Fresh(y)
           first == Alt!Chunk(FirstN, c.want)
           q == Alt!Ask(t, c.want, first, TRUE, x)
           r == [q EXCEPT !.from = "create"]
<1>1. Alt!Become(t, r) /\ UNCHANGED local /\ Alt!Keep /\ c.pc = "create"
  BY DEF Alt!Create
<1>2. c \in Alt!Call /\ TabOK(c)
  BY DEF AltIInv, Alt!TypeOK
<1>3. c.want \in Wants /\ c.knew = FALSE
  BY <1>1, <1>2 DEF TabOK, Alt!Looking, Alt!Call
<1>4. x \in AltTables /\ Alt!Fresh(x)
  <2>1. t \in LookingTabs
    BY <1>1 DEF LookingTabs, Alt!Looking
  <2>2. Cardinality(LookingTabs) # 0
    BY <2>1, AltSizes, FS_EmptySet
  <2>3. FreshTables # {}
    BY <2>2, AltSizes, FS_EmptySet DEF AltIInv
  <2> QED
    BY <2>3 DEF FreshTables
<1>5. c.want # {} /\ IsFiniteSet(c.want) /\ c.want \in SUBSET Alt!Accts
  BY <1>3, AltAssumption DEF Alt!Accts
<1>6. first \subseteq c.want /\ first # {}
  BY <1>5, ChunkIsPart, AltAssumption
<1>7. Asked(q, c, c.want, first, TRUE, x)
  <2>1. c.want \in SUBSET Alt!Accts /\ first \in SUBSET c.want /\ TRUE \in BOOLEAN /\ x \in AltTables
        /\ c \in Alt!Call
    BY <1>2, <1>4, <1>5, <1>6
  <2> HIDE DEF first, x
  <2> QED
    BY <2>1, AskMakes
<1> HIDE DEF c, x, first, q
<1>8. /\ r \in Alt!Call /\ r.pc = "popup" /\ r.key = c.key /\ r.want = c.want /\ r.from = "create"
      /\ r.table = x /\ r.rest = c.want \ first /\ r.landed = FALSE /\ r.knew = c.knew /\ r.tx = q.tx
  BY <1>7 DEF Asked, Alt!Call
<1> HIDE DEF r
<1>9. TabOK(r)
  BY <1>3, <1>4, <1>6, <1>7, <1>8 DEF Asked, TabOK, Alt!Looking, Filling
<1>10. UNCHANGED <<table, pointer, seen, local, net, reloads>> /\ call' = [call EXCEPT ![t] = r]
  BY <1>1 DEF Alt!Keep, Alt!Become
<1>11. call'[t] = r /\ \A u \in Tabs \ {t} : call'[u] = call[u]
  BY <1>8, <1>10 DEF AltIInv, Alt!TypeOK
<1>12. LookingTabs' = LookingTabs \ {t} /\ t \in LookingTabs
  BY <1>1, <1>8, <1>11 DEF LookingTabs, Alt!Looking, c
<1>13. FreshTables \ {x} \subseteq FreshTables' /\ x \in FreshTables
  <2>1. ASSUME NEW y \in AltTables \ {x}, Alt!Fresh(y) PROVE Alt!Fresh(y)'
    BY <1>8, <1>10, <1>11, <2>1 DEF Alt!Fresh
  <2> QED
    BY <1>4, <2>1 DEF FreshTables
<1>14. Cardinality(LookingTabs') <= Cardinality(FreshTables')
  <2>1. Cardinality(LookingTabs \ {t}) = Cardinality(LookingTabs) - 1
    BY <1>12, AltSizes, FS_RemoveElement
  <2>2. Cardinality(FreshTables \ {x}) = Cardinality(FreshTables) - 1
    BY <1>13, AltSizes, FS_RemoveElement
  <2>3. FreshTables' \subseteq AltTables
    BY DEF FreshTables
  <2>4. IsFiniteSet(FreshTables')
    BY <2>3, AltAssumption, FS_Subset
  <2>5. Cardinality(FreshTables \ {x}) <= Cardinality(FreshTables') /\ Cardinality(FreshTables') \in Nat
    BY <1>13, <2>4, FS_Subset, FS_CardinalityType
  <2> QED
    BY <1>12, <2>1, <2>2, <2>5, AltSizes DEF AltIInv
<1>15. Alt!RememberedIsFindable' /\ local' \in [Alt!Devices -> [CacheKeys -> Alt!MaybeTable]]
  BY <1>10, FindableStays
<1>16. reloads' \in 0 .. MaxReloads /\ net' \subseteq Alt!Tx /\ \A y \in net' : y.adds # {}
  BY <1>10 DEF AltIInv, Alt!TypeOK
<1> QED
  BY <1>8, <1>9, <1>10, <1>14, <1>15, <1>16, TabMoves

(* A call ends or waits: it is in nobody's way.  What the net carries may      *)
(* change, by the call's own transaction.                                    *)
LEMMA AltEndStep ==
  ASSUME AltIInv, NEW t \in Tabs, NEW r \in Alt!Call, TabOK(r), Alt!Become(t, r),
         UNCHANGED <<table, pointer, seen, local>>, reloads' \in 0 .. MaxReloads,
         net' \subseteq Alt!Tx, \A x \in net' : x.adds # {},
         r.pc \notin Alt!Looking, r.pc \in {"popup", "sent"} => ~Alt!Fresh(r.table),
         \A y \in net' : ~Alt!Fresh(y.table)
  PROVE  AltIInv'
<1>1. call' = [call EXCEPT ![t] = r]
  BY DEF Alt!Become
<1>2. Alt!RememberedIsFindable' /\ local' \in [Alt!Devices -> [CacheKeys -> Alt!MaybeTable]]
  BY FindableStays
<1>3. Cardinality(LookingTabs') <= Cardinality(FreshTables')
  BY <1>1, TablesStay
<1> QED
  BY <1>1, <1>2, <1>3, TabMoves

LEMMA AltSign == ASSUME AltIInv, NEW t \in Tabs, Alt!Sign(t) PROVE AltIInv'
<1> DEFINE c == call[t]
           r == [c EXCEPT !.pc = "sent"]
<1>1. /\ Alt!Become(t, r) /\ net' = net \cup {c.tx} /\ c.pc = "popup"
      /\ UNCHANGED <<table, pointer, seen, local, reloads>>
  BY DEF Alt!Sign
<1>2. c \in Alt!Call /\ TabOK(c)
  BY DEF AltIInv, Alt!TypeOK
<1>3. c.tx \in Alt!Tx /\ c.tx.table = c.table /\ c.tx.adds # {} /\ c.landed = FALSE
  BY <1>1, <1>2 DEF TabOK, Alt!Call
<1>4. ~Alt!Fresh(c.table)
  BY <1>1 DEF Alt!Fresh
<1>5. \A y \in net' : ~Alt!Fresh(y.table)
  BY <1>1, <1>3, <1>4, NetIsTaken
<1> HIDE DEF c
<1>6. /\ r \in Alt!Call /\ r.pc = "sent" /\ r.key = c.key /\ r.want = c.want /\ r.from = c.from
      /\ r.table = c.table /\ r.rest = c.rest /\ r.landed = FALSE /\ r.knew = c.knew /\ r.tx = c.tx
  BY <1>2, <1>3 DEF Alt!Call
<1> HIDE DEF r
<1>7. TabOK(r)
  BY <1>1, <1>2, <1>6 DEF TabOK, Alt!Looking, Filling
<1>8. reloads' \in 0 .. MaxReloads /\ net' \subseteq Alt!Tx /\ \A x \in net' : x.adds # {}
  BY <1>1, <1>3 DEF AltIInv, Alt!TypeOK
<1> QED
  BY <1>1, <1>4, <1>5, <1>6, <1>7, <1>8, AltEndStep DEF Alt!Looking

LEMMA AltGone ==
  ASSUME AltIInv, NEW t \in Tabs, Alt!Become(t, Alt!Idle), net' \subseteq net,
         UNCHANGED <<table, pointer, seen, local>>, reloads' \in 0 .. MaxReloads
  PROVE  AltIInv'
<1>1. Alt!Idle \in Alt!Call /\ TabOK(Alt!Idle) /\ Alt!Idle.pc = "idle"
  BY IdleType
<1>2. net' \subseteq Alt!Tx /\ \A x \in net' : x.adds # {}
  BY DEF AltIInv, Alt!TypeOK
<1>3. \A y \in net' : ~Alt!Fresh(y.table)
  BY NetIsTaken
<1> QED
  BY <1>1, <1>2, <1>3, AltEndStep DEF Alt!Looking

LEMMA AltAwaitActive == ASSUME AltIInv, NEW t \in Tabs, Alt!AwaitActive(t) PROVE AltIInv'
<1> DEFINE c == call[t]
<1>1. c \in Alt!Call /\ TabOK(c) /\ c.pc = "await" /\ Alt!Return(t) /\ Alt!Keep /\ seen.table[c.table] # {}
  BY DEF AltIInv, Alt!TypeOK, Alt!AwaitActive
<1>2. c.table \in AltTables /\ c.want \subseteq table[c.table]
      /\ (c.from = "pointer" => c.key \in Registered /\ seen.pointer[c.key] # NoTable)
  BY <1>1 DEF TabOK, Filling
<1>3. table[c.table] # {} /\ (c.from = "pointer" => pointer[c.key] # NoTable)
  BY <1>1, <1>2 DEF AltIInv
<1> QED
  BY <1>1, <1>2, <1>3, AltReturn

LEMMA AltNeverActive == ASSUME AltIInv, NEW t \in Tabs, Alt!NeverActive(t) PROVE AltIInv'
<1> DEFINE c == call[t]
<1>1. /\ c \in Alt!Call /\ TabOK(c) /\ c.pc = "await" /\ seen.table[c.table] = {}
      /\ Alt!Keep /\ UNCHANGED local
  BY DEF AltIInv, Alt!TypeOK, Alt!NeverActive
<1>2. c.from = "create"
  BY <1>1 DEF TabOK, Filling
<1>3. Alt!Become(t, Alt!Idle)
  BY <1>2 DEF Alt!NeverActive
<1>4. UNCHANGED <<table, pointer, seen, local, net, reloads>>
  BY <1>1 DEF Alt!Keep
<1>5. reloads' \in 0 .. MaxReloads /\ net' \subseteq net
  BY <1>4 DEF AltIInv, Alt!TypeOK
<1> QED
  BY <1>3, <1>4, <1>5, AltGone

LEMMA AltGiveUp == ASSUME AltIInv, NEW t \in Tabs, Alt!GiveUp(t) \/ Alt!Reject(t) PROVE AltIInv'
<1>1. /\ Alt!Become(t, Alt!Idle) /\ net' \subseteq net
      /\ UNCHANGED <<table, pointer, seen, local, reloads>>
  BY DEF Alt!GiveUp, Alt!Reject, Alt!Keep
<1>2. reloads' \in 0 .. MaxReloads
  BY <1>1 DEF AltIInv, Alt!TypeOK
<1> QED
  BY <1>1, <1>2, AltGone

LEMMA AltReload == ASSUME AltIInv, NEW t \in Tabs, Alt!Reload(t) PROVE AltIInv'
<1>1. /\ Alt!Become(t, Alt!Idle) /\ UNCHANGED <<table, pointer, seen, local, net>>
      /\ reloads < MaxReloads /\ reloads' = reloads + 1
  BY DEF Alt!Reload
<1>2. reloads' \in 0 .. MaxReloads
  BY <1>1, ShapeAssumption DEF AltIInv, Alt!TypeOK
<1> QED
  BY <1>1, <1>2, AltGone

LEMMA AltConfirm == ASSUME AltIInv, NEW t \in Tabs, Alt!Confirm(t) PROVE AltIInv'
<1> DEFINE c == call[t]
           adds == Alt!Chunk(ChunkN, c.rest)
           q == Alt!Ask(t, c.rest, adds, FALSE, c.table)
           w == [c EXCEPT !.pc = "await"]
<1>1. /\ c \in Alt!Call /\ TabOK(c) /\ c.pc = "sent" /\ c.landed /\ Alt!Keep
      /\ c.rest = {} => Alt!Become(t, w)
      /\ c.rest # {} => Alt!Become(t, q)
      /\ IF c.tx.creates THEN Alt!Remember(t, c.table) ELSE UNCHANGED local
  BY DEF AltIInv, Alt!TypeOK, Alt!Confirm
<1>2. UNCHANGED <<table, pointer, seen, net, reloads>>
  BY <1>1 DEF Alt!Keep
<1>3. /\ c.table \in AltTables /\ c.want \in Wants /\ c.rest \subseteq c.want
      /\ c.tx.adds # {} /\ c.tx.adds \subseteq table[c.table]
      /\ c.want \subseteq table[c.table] \cup c.rest
      /\ c.tx.creates /\ c.key \in Registered => pointer[c.key] # NoTable
      /\ c.from # "create" => seen.table[c.table] # {}
  BY <1>1 DEF TabOK, Filling
<1>4. ~Alt!Fresh(c.table)
  BY <1>3 DEF Alt!Fresh
<1>5. Alt!RememberedIsFindable' /\ local' \in [Alt!Devices -> [CacheKeys -> Alt!MaybeTable]]
  <2>1. CASE c.tx.creates
    BY <1>1, <1>2, <1>3, <2>1, RememberKeeps
  <2>2. CASE ~c.tx.creates
    BY <1>1, <1>2, <2>2, FindableStays
  <2> QED
    BY <2>1, <2>2
<1>6. /\ IsFiniteSet(c.rest) /\ c.rest \in SUBSET Alt!Accts
  <2>1. IsFiniteSet(c.want) /\ c.want \subseteq Alt!Accts
    BY <1>3, AltAssumption DEF Alt!Accts
  <2>2. IsFiniteSet(c.rest)
    BY <1>3, <2>1, FS_Subset
  <2> QED
    BY <1>3, <2>1, <2>2
<1>7. ASSUME NEW r \in Alt!Call, TabOK(r), call' = [call EXCEPT ![t] = r], r.pc \notin Alt!Looking,
             r.pc = "popup" => r.table = c.table, r.pc # "sent"
      PROVE  AltIInv'
  <2>1. Cardinality(LookingTabs') <= Cardinality(FreshTables')
    BY <1>2, <1>4, <1>7, TablesStay, NetIsTaken
  <2>2. reloads' \in 0 .. MaxReloads /\ net' \subseteq Alt!Tx /\ \A x \in net' : x.adds # {}
    BY <1>2 DEF AltIInv, Alt!TypeOK
  <2> QED
    BY <1>2, <1>5, <1>7, <2>1, <2>2, TabMoves
<1>8. CASE c.rest = {}
  <2>1. call' = [call EXCEPT ![t] = w]
    BY <1>1, <1>8 DEF Alt!Become
  <2> HIDE DEF c
  <2>2. /\ w \in Alt!Call /\ w.pc = "await" /\ w.key = c.key /\ w.want = c.want /\ w.from = c.from
        /\ w.table = c.table /\ w.knew = c.knew
    BY <1>1 DEF Alt!Call
  <2> HIDE DEF w
  <2>3. TabOK(w)
    BY <1>1, <1>3, <1>8, <2>2 DEF TabOK, Alt!Looking, Filling
  <2> QED
    BY <1>7, <2>1, <2>2, <2>3 DEF Alt!Looking
<1>9. CASE c.rest # {}
  <2>1. call' = [call EXCEPT ![t] = q]
    BY <1>1, <1>9 DEF Alt!Become
  <2>2. adds \subseteq c.rest /\ adds # {}
    BY <1>6, <1>9, ChunkIsPart, AltAssumption
  <2>3. Asked(q, c, c.rest, adds, FALSE, c.table)
    <3>1. c.rest \in SUBSET Alt!Accts /\ adds \in SUBSET c.rest /\ c.table \in AltTables
          /\ c \in Alt!Call /\ FALSE \in BOOLEAN
      BY <1>1, <1>3, <1>6, <2>2
    <3> HIDE DEF adds
    <3> QED
      BY <3>1, AskMakes
  <2> HIDE DEF c, adds, q
  <2>4. TabOK(q)
    BY <1>1, <1>3, <2>2, <2>3 DEF Asked, TabOK, Alt!Looking, Filling
  <2> QED
    BY <1>7, <2>1, <2>3, <2>4 DEF Asked, Alt!Looking
<1> QED
  BY <1>8, <1>9

LEMMA AltNextInv == AltIInv /\ (Alt!Next \/ UNCHANGED Alt!vars) => AltIInv'
<1> SUFFICES ASSUME AltIInv, Alt!Next \/ UNCHANGED Alt!vars PROVE AltIInv'
  OBVIOUS
<1>1. CASE Alt!Sync
  BY <1>1, AltSync
<1>2. ASSUME NEW x \in net, Alt!Land(x) PROVE AltIInv'
  BY <1>2, AltLand
<1>3. ASSUME NEW t \in Tabs, NEW k \in CacheKeys, NEW want \in Wants, Alt!Start(t, k, want) PROVE AltIInv'
  BY <1>3, AltStart
<1>4. ASSUME NEW t \in Tabs, Alt!Progress(t) PROVE AltIInv'
  BY <1>4, AltReadPointer, AltReuse, AltCreate, AltConfirm, AltGiveUp, AltAwaitActive DEF Alt!Progress
<1>5. ASSUME NEW t \in Tabs, Alt!Sign(t) \/ Alt!Reject(t) \/ Alt!NeverActive(t) \/ Alt!Reload(t) PROVE AltIInv'
  BY <1>5, AltSign, AltGiveUp, AltNeverActive, AltReload
<1>6. CASE UNCHANGED Alt!vars
  <2>1. UNCHANGED <<table, pointer, seen, local, net, call, reloads>>
    BY <1>6 DEF Alt!vars
  <2>2. LookingTabs' = LookingTabs /\ FreshTables' = FreshTables
    BY <2>1 DEF LookingTabs, FreshTables, Alt!Fresh
  <2>3. ASSUME NEW t \in Tabs PROVE TabOK(call[t])'
    BY <2>1 DEF AltIInv, TabOK
  <2>4. Alt!TypeOK' /\ Alt!RememberedIsFindable'
    BY <2>1, FindableStays DEF AltIInv, Alt!TypeOK
  <2>5. Cardinality(LookingTabs') <= Cardinality(FreshTables')
    BY <2>2 DEF AltIInv
  <2> QED
    BY <2>1, <2>3, <2>4, <2>5 DEF AltIInv
<1> QED
  BY <1>1, <1>2, <1>3, <1>4, <1>5, <1>6 DEF Alt!Next

LEMMA AltFollows == AltIInv => Alt!TypeOK /\ Alt!ReturnedIsComplete /\ Alt!RegisteredIsReused
BY DEF AltIInv, TabOK, Alt!ReturnedIsComplete, Alt!RegisteredIsReused

-----------------------------------------------------------------------------
(* Figures: the account and its market keep their shape.                          *)

LEMMA FiguresInitInv == Fig!Init => Fig!FiguresTypeOK
<1> SUFFICES ASSUME Fig!Init PROVE Fig!FiguresTypeOK
  OBVIOUS
<1>1. -MaxDebt \in Int /\ -MaxDebt <= 0 /\ base \in {0, 1}
  BY FiguresAssumption DEF Fig!Init
<1>2. base \in -MaxDebt .. 1
  BY <1>1
<1> QED
  BY <1>2 DEF Fig!Init, Fig!FiguresTypeOK

LEMMA FiguresNextInv == Fig!FiguresTypeOK /\ (Fig!Next \/ UNCHANGED figureVars) => Fig!FiguresTypeOK'
<1> SUFFICES ASSUME Fig!FiguresTypeOK, Fig!Next \/ UNCHANGED figureVars PROVE Fig!FiguresTypeOK'
  OBVIOUS
<1>1. /\ coll \in [Backing -> 0 .. MaxColl] /\ base \in -MaxDebt .. 1
      /\ price \in [Backing -> Prices] /\ live \in SUBSET (Backing \cup {"base"})
  BY DEF Fig!FiguresTypeOK
<1>0. MaxColl \in Nat /\ MaxDebt \in Nat /\ -MaxDebt \in Int
  BY FiguresAssumption
<1> SUFFICES /\ coll' \in [Backing -> 0 .. MaxColl] /\ base' \in -MaxDebt .. 1
             /\ price' \in [Backing -> Prices] /\ live' \in SUBSET (Backing \cup {"base"})
  BY DEF Fig!FiguresTypeOK
<1>2. ASSUME NEW c \in Backing, Fig!SupplyCollateral(c) PROVE coll' \in [Backing -> 0 .. MaxColl] /\ UNCHANGED <<base, price, live>>
  <2>1. coll[c] < MaxColl /\ coll' = [coll EXCEPT ![c] = coll[c] + 1] /\ UNCHANGED <<base, price, live>>
    BY <1>2 DEF Fig!SupplyCollateral
  <2>2. coll[c] + 1 \in 0 .. MaxColl
    <3>1. coll[c] \in 0 .. MaxColl
      BY <1>1
    <3> QED
      BY <1>0, <2>1, <3>1
  <2> QED
    BY <1>1, <2>1, <2>2
<1>3. ASSUME NEW c \in Backing, Fig!WithdrawCollateral(c) PROVE coll' \in [Backing -> 0 .. MaxColl] /\ UNCHANGED <<base, price, live>>
  <2>1. coll[c] > 0 /\ coll' = [coll EXCEPT ![c] = coll[c] - 1] /\ UNCHANGED <<base, price, live>>
    BY <1>3, Zenon DEF Fig!WithdrawCollateral
  <2>2. coll[c] - 1 \in 0 .. MaxColl
    <3>1. coll[c] \in 0 .. MaxColl
      BY <1>1
    <3> QED
      BY <1>0, <2>1, <3>1
  <2> QED
    BY <1>1, <2>1, <2>2
<1>4. ASSUME NEW n \in 1 .. MaxDebt, Fig!Borrow(n) \/ Fig!Repay(n) PROVE base' \in -MaxDebt .. 1 /\ UNCHANGED <<coll, price, live>>
  <2>1. CASE Fig!Borrow(n)
    <3>1. base - n >= -MaxDebt /\ base' = base - n /\ UNCHANGED <<coll, price, live>>
      BY <2>1 DEF Fig!Borrow
    <3>2. base' \in -MaxDebt .. 1
      BY <1>0, <1>1, <3>1
    <3> QED
      BY <3>1, <3>2
  <2>2. CASE Fig!Repay(n)
    <3>1. base + n <= 1 /\ base' = base + n /\ UNCHANGED <<coll, price, live>>
      BY <2>2 DEF Fig!Repay
    <3>2. base' \in -MaxDebt .. 1
      BY <1>0, <1>1, <3>1
    <3> QED
      BY <3>1, <3>2
  <2> QED
    BY <1>4, <2>1, <2>2
<1>5. ASSUME Fig!MarketMoves
      PROVE  /\ price' \in [Backing -> Prices] /\ live' \in SUBSET (Backing \cup {"base"}) /\ UNCHANGED <<coll, base>>
  <2>1. CASE \E c \in Backing, p \in Prices : price' = [price EXCEPT ![c] = p] /\ UNCHANGED live
    BY <1>1, <1>5, <2>1 DEF Fig!MarketMoves
  <2>2. CASE \E f \in Backing \cup {"base"} : live' = (live \ {f}) \cup ({f} \ live) /\ UNCHANGED price
    BY <1>1, <1>5, <2>2 DEF Fig!MarketMoves
  <2> QED
    BY <1>5, <2>1, <2>2 DEF Fig!MarketMoves
<1> QED
  BY <1>1, <1>2, <1>3, <1>4, <1>5 DEF Fig!Next, figureVars
=============================================================================
