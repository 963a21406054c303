----------------------------- MODULE MCSideProofs -----------------------------
(***************************************************************************)
(* Proofs about MCSide: first its parts that a server computes or that are  *)
(* polled from it (the market cache, one read of a market, the storefront   *)
(* and the protocol figures, the reserve tables, the boot of a deployment   *)
(* and its registry entry), then the Activate gate, and then all the parts   *)
(* together, those of SideClientProofs with them.                           *)
(*                                                                         *)
(* What holds of each part of MCSide holds of it beside the others: a step  *)
(* of the whole is one of the part that is on, and the part's inductive     *)
(* invariant is kept as long as its page is.                                *)
(***************************************************************************)
EXTENDS SideClientProofs, SumLemmas

-----------------------------------------------------------------------------
(* MarketCache, for any chains, tiers, fills, windows and changes.            *)

(* What a fill holds is of its entry's chain and, if no revalidation came        *)
(* meanwhile, at least as new as the last one.                                *)
FillOK(f) ==
  fill[f] # Cache!NoFill =>
    /\ fill[f].key \in Cache!Keys /\ fill[f].key[2] = fill[f].val.chain
    /\ fill[f].val.clean => fill[f].val.v >= floor[fill[f].val.chain]

CacheIInv ==
  /\ Cache!CacheTypeOK /\ Cache!CacheIsRight
  /\ \A c \in Chains : floor[c] <= version[c]
  /\ \A f \in Fills : FillOK(f)

LEMMA CacheInitInv == Cache!Init => CacheIInv
<1> SUFFICES ASSUME Cache!Init PROVE CacheIInv
  OBVIOUS
<1>1. /\ version = [c \in Chains |-> 0] /\ floor = version /\ entry = [k \in Cache!Keys |-> Cache!None]
      /\ fill = [f \in Fills |-> Cache!NoFill] /\ hits = 0 /\ windows = MaxWindows
  BY DEF Cache!Init
<1>2. Cache!CacheTypeOK
  BY <1>1, CacheAssumption DEF Cache!CacheTypeOK
<1> QED
  BY <1>1, <1>2 DEF CacheIInv, FillOK, Cache!CacheIsRight

(* Entries and revalidations stay as they are, and fill f becomes r.            *)
LEMMA FillStep ==
  ASSUME CacheIInv, NEW f \in Fills, NEW r \in Cache!Filling \cup {Cache!NoFill},
         fill' = [fill EXCEPT ![f] = r], UNCHANGED <<version, entry, floor, hits, windows>>,
         r # Cache!NoFill => /\ r.key[2] = r.val.chain
                             /\ r.val.clean => r.val.v >= floor[r.val.chain]
  PROVE  CacheIInv'
<1>1. fill'[f] = r /\ \A g \in Fills \ {f} : fill'[g] = fill[g]
  BY DEF CacheIInv, Cache!CacheTypeOK
<1>2. fill' \in [Fills -> Cache!Filling \cup {Cache!NoFill}]
  BY DEF CacheIInv, Cache!CacheTypeOK
<1>3. r # Cache!NoFill => r.key \in Cache!Keys
  BY DEF Cache!Filling
<1>4. \A g \in Fills : FillOK(g)'
  BY <1>1, <1>3 DEF CacheIInv, FillOK
<1>5. Cache!CacheTypeOK' /\ Cache!CacheIsRight'
  BY <1>2 DEF CacheIInv, Cache!CacheTypeOK, Cache!CacheIsRight
<1> QED
  BY <1>4, <1>5 DEF CacheIInv

LEMMA CacheGet ==
  ASSUME CacheIInv, NEW f \in Fills, NEW t \in CacheTiers, NEW c \in Chains, Cache!Get(f, t, c)
  PROVE  CacheIInv'
<1> DEFINE val == [chain |-> c, v |-> version[c], clean |-> TRUE]
           r == [pc |-> IF t = "activity" THEN "labels" ELSE "read", tier |-> t, key |-> <<t, c>>, val |-> val]
<1>1. fill' = [fill EXCEPT ![f] = r] /\ UNCHANGED <<version, entry, floor, hits, windows>>
  BY DEF Cache!Get, Cache!Key
<1>2. version[c] \in 0 .. MaxVersion /\ floor[c] <= version[c]
  BY DEF CacheIInv, Cache!CacheTypeOK
<1>3. val \in Cache!Value /\ <<t, c>> \in Cache!Keys /\ <<t, c>>[2] = c
  BY <1>2 DEF Cache!Value, Cache!Keys
<1>4. r \in Cache!Filling /\ r.key = <<t, c>> /\ r.val.chain = c /\ r.val.v = version[c]
  BY <1>3 DEF Cache!Filling
<1> HIDE DEF r
<1> QED
  BY <1>1, <1>2, <1>3, <1>4, FillStep

(* What a fill under way is.                                                 *)
LEMMA FillParts ==
  ASSUME CacheIInv, NEW f \in Fills, fill[f].pc \in {"labels", "read", "store"}
  PROVE  /\ fill[f] \in Cache!Filling /\ fill[f].val \in Cache!Value /\ fill[f] # Cache!NoFill
         /\ fill[f].key \in Cache!Keys /\ fill[f].key[2] = fill[f].val.chain
         /\ fill[f].val.clean => fill[f].val.v >= floor[fill[f].val.chain]
<1>1. fill[f] # Cache!NoFill
  BY DEF Cache!NoFill
<1>2. fill[f] \in Cache!Filling
  BY <1>1 DEF CacheIInv, Cache!CacheTypeOK
<1> QED
  BY <1>1, <1>2 DEF CacheIInv, FillOK, Cache!Filling

LEMMA CacheLabels == ASSUME CacheIInv, NEW f \in Fills, Cache!Labels(f) PROVE CacheIInv'
<1> DEFINE c == fill[f]
           k == <<"market", c.val.chain>>
           m == entry[k]
           val == [c.val EXCEPT !.v = Cache!Older(c.val.v, m.v), !.clean = c.val.clean /\ m.clean]
           r == [c EXCEPT !.pc = "read", !.val = val]
<1>1. /\ fill' = [fill EXCEPT ![f] = r] /\ UNCHANGED <<version, entry, floor, hits, windows>>
      /\ c.pc = "labels" /\ m # Cache!None
  BY DEF Cache!Labels, Cache!Key
<1>2. /\ c \in Cache!Filling /\ c.val \in Cache!Value /\ c.key[2] = c.val.chain
      /\ c.val.clean => c.val.v >= floor[c.val.chain]
  BY <1>1, FillParts
<1>3. k \in Cache!Keys /\ k[2] = c.val.chain
  BY <1>2, CacheAssumption DEF Cache!Keys, Cache!Value
<1>4. m \in Cache!Value /\ (m.clean => m.v >= floor[c.val.chain])
  <2>1. m \in Cache!Value
    BY <1>1, <1>3 DEF CacheIInv, Cache!CacheTypeOK
  <2> QED
    BY <1>1, <1>3, <2>1 DEF CacheIInv, Cache!CacheIsRight
<1> HIDE DEF c, m, k
<1>5. /\ val \in Cache!Value /\ val.chain = c.val.chain
      /\ val.clean => c.val.clean /\ m.clean
      /\ val.v = c.val.v \/ val.v = m.v
  BY <1>2, <1>4 DEF Cache!Value, Cache!Older
<1> HIDE DEF val
<1>6. r \in Cache!Filling /\ r.key = c.key /\ r.val = val
  BY <1>2, <1>5 DEF Cache!Filling
<1> HIDE DEF r
<1> QED
  BY <1>1, <1>2, <1>4, <1>5, <1>6, FillStep

LEMMA CacheRead == ASSUME CacheIInv, NEW f \in Fills, Cache!Read(f) PROVE CacheIInv'
<1> DEFINE c == fill[f]
           val == IF c.tier = "activity" THEN c.val ELSE [c.val EXCEPT !.v = version[c.val.chain]]
           r == [c EXCEPT !.pc = "store", !.val = val]
<1>1. /\ fill' = [fill EXCEPT ![f] = r] /\ UNCHANGED <<version, entry, floor, hits, windows>>
      /\ c.pc = "read"
  BY DEF Cache!Read
<1>2. /\ c \in Cache!Filling /\ c.val \in Cache!Value /\ c.key[2] = c.val.chain
      /\ c.val.clean => c.val.v >= floor[c.val.chain]
  BY <1>1, FillParts
<1>3. c.val.chain \in Chains /\ version[c.val.chain] \in 0 .. MaxVersion
      /\ floor[c.val.chain] \in 0 .. MaxVersion /\ floor[c.val.chain] <= version[c.val.chain]
  BY <1>2 DEF CacheIInv, Cache!CacheTypeOK, Cache!Value
<1> HIDE DEF c
<1>4. /\ val \in Cache!Value /\ val.chain = c.val.chain /\ val.clean = c.val.clean
      /\ val.v = c.val.v \/ val.v = version[c.val.chain]
  BY <1>2, <1>3 DEF Cache!Value
<1> HIDE DEF val
<1>5. r \in Cache!Filling /\ r.key = c.key /\ r.val = val
  BY <1>2, <1>4 DEF Cache!Filling
<1> HIDE DEF r
<1> QED
  BY <1>1, <1>2, <1>3, <1>4, <1>5, FillStep

LEMMA CacheThrow == ASSUME CacheIInv, NEW f \in Fills, Cache!Throw(f) PROVE CacheIInv'
<1>1. fill' = [fill EXCEPT ![f] = Cache!NoFill] /\ UNCHANGED <<version, entry, floor, hits, windows>>
  BY DEF Cache!Throw
<1> QED
  BY <1>1, FillStep

LEMMA CacheStore == ASSUME CacheIInv, NEW f \in Fills, Cache!Store(f) PROVE CacheIInv'
<1> DEFINE c == fill[f]
<1>1. /\ entry' = [entry EXCEPT ![c.key] = c.val] /\ fill' = [fill EXCEPT ![f] = Cache!NoFill]
      /\ UNCHANGED <<version, floor, hits, windows>> /\ c.pc = "store"
  BY DEF Cache!Store
<1>2. /\ c.val \in Cache!Value /\ c.key \in Cache!Keys /\ c.key[2] = c.val.chain
      /\ c.val.clean => c.val.v >= floor[c.val.chain]
  BY <1>1, FillParts
<1> HIDE DEF c
<1>3. entry'[c.key] = c.val /\ \A k \in Cache!Keys \ {c.key} : entry'[k] = entry[k]
  BY <1>1, <1>2 DEF CacheIInv, Cache!CacheTypeOK
<1>4. entry' \in [Cache!Keys -> Cache!Value \cup {Cache!None}]
  BY <1>1, <1>2 DEF CacheIInv, Cache!CacheTypeOK
<1>5. fill' \in [Fills -> Cache!Filling \cup {Cache!NoFill}]
  BY <1>1 DEF CacheIInv, Cache!CacheTypeOK
<1>6. Cache!CacheTypeOK'
  BY <1>1, <1>4, <1>5 DEF CacheIInv, Cache!CacheTypeOK
<1>7. Cache!CacheIsRight'
  BY <1>1, <1>2, <1>3 DEF CacheIInv, Cache!CacheIsRight
<1>8. \A g \in Fills : FillOK(g)'
  <2>1. \A g \in Fills : fill'[g] = Cache!NoFill \/ fill'[g] = fill[g]
    BY <1>1 DEF CacheIInv, Cache!CacheTypeOK
  <2> QED
    BY <1>1, <2>1 DEF CacheIInv, FillOK
<1> QED
  BY <1>1, <1>6, <1>7, <1>8 DEF CacheIInv

(* Of chain c nothing is left in the cache, and no fill under way is clean.       *)
LEMMA CacheRevalidate == ASSUME CacheIInv, NEW c, Cache!Revalidate(c) PROVE CacheIInv'
<1>1. hits' \in 0 .. RateMax /\ UNCHANGED <<version, windows>>
  BY CacheAssumption DEF Cache!Revalidate, CacheIInv, Cache!CacheTypeOK
<1>2. CASE c \notin Chains
  <2>1. UNCHANGED <<entry, floor, fill>>
    BY <1>2 DEF Cache!Revalidate
  <2> QED
    BY <1>1, <2>1 DEF CacheIInv, Cache!CacheTypeOK, Cache!CacheIsRight, FillOK
<1>3. CASE c \in Chains
  <2> DEFINE Spoiled(g) == [fill[g] EXCEPT !.val.clean = FALSE]
  <2>1. /\ entry' = [k \in Cache!Keys |-> IF k \in Cache!Tagged(c) THEN Cache!None ELSE entry[k]]
        /\ floor' = [floor EXCEPT ![c] = version[c]]
        /\ fill' = [g \in Fills |-> IF fill[g] # Cache!NoFill /\ fill[g].val.chain = c
                                    THEN Spoiled(g) ELSE fill[g]]
    BY <1>3 DEF Cache!Revalidate
  <2>2. ASSUME NEW k \in Cache!Keys, entry'[k] # Cache!None PROVE entry'[k] = entry[k] /\ k[2] # c
    <3>1. entry'[k] = entry[k] /\ k \notin Cache!Tagged(c)
      BY <2>1, <2>2
    <3> QED
      BY <3>1 DEF Cache!Tagged, Cache!Key, Cache!Keys
  <2>3. floor' \in [Chains -> 0 .. MaxVersion] /\ floor'[c] = version[c]
        /\ \A d \in Chains \ {c} : floor'[d] = floor[d]
    BY <1>3, <2>1 DEF CacheIInv, Cache!CacheTypeOK
  <2>4. entry' \in [Cache!Keys -> Cache!Value \cup {Cache!None}]
    BY <2>1 DEF CacheIInv, Cache!CacheTypeOK
  <2>5. Cache!CacheIsRight'
    <3>1. ASSUME NEW k \in Cache!Keys, entry'[k] # Cache!None
          PROVE  entry'[k].chain = k[2] /\ (entry'[k].clean => entry'[k].v >= floor'[k[2]])
      <4>1. entry'[k] = entry[k] /\ k[2] # c /\ k[2] \in Chains
        BY <2>2, <3>1 DEF Cache!Keys
      <4> QED
        BY <2>3, <3>1, <4>1 DEF CacheIInv, Cache!CacheIsRight
    <3> QED
      BY <3>1 DEF Cache!CacheIsRight
  <2>6. ASSUME NEW g \in Fills
        PROVE  fill'[g] \in Cache!Filling \cup {Cache!NoFill} /\ FillOK(g)'
    <3>1. CASE fill[g] = Cache!NoFill
      BY <2>1, <3>1 DEF FillOK
    <3>2. CASE fill[g] # Cache!NoFill
      <4>1. PICK r \in Cache!Filling : r = fill[g]
        BY <3>2 DEF CacheIInv, Cache!CacheTypeOK
      <4>2. r.val \in Cache!Value /\ r.val.chain \in Chains /\ r.key \in Cache!Keys
            /\ r.key[2] = r.val.chain /\ (r.val.clean => r.val.v >= floor[r.val.chain])
        BY <3>2, <4>1 DEF CacheIInv, FillOK, Cache!Filling, Cache!Value
      <4>3. CASE r.val.chain = c
        <5> DEFINE q == [r EXCEPT !.val = [r.val EXCEPT !.clean = FALSE]]
                   v == [r.val EXCEPT !.clean = FALSE]
        <5>1. v \in Cache!Value /\ v.chain = r.val.chain /\ v.clean = FALSE
          BY <4>2 DEF Cache!Value
        <5>2. fill'[g] = [r EXCEPT !.val.clean = FALSE]
          BY <2>1, <3>2, <4>1, <4>3
        <5>3. [r EXCEPT !.val.clean = FALSE] = [r EXCEPT !.val = v]
          OBVIOUS
        <5> HIDE DEF v
        <5>4. /\ [r EXCEPT !.val = v] \in Cache!Filling /\ [r EXCEPT !.val = v].key = r.key
              /\ [r EXCEPT !.val = v].val = v
          BY <5>1 DEF Cache!Filling
        <5> QED
          BY <4>2, <5>1, <5>2, <5>3, <5>4 DEF FillOK
      <4>4. CASE r.val.chain # c
        <5>1. fill'[g] = r
          BY <2>1, <3>2, <4>1, <4>4
        <5> QED
          BY <2>3, <4>2, <4>4, <5>1 DEF FillOK
      <4> QED
        BY <4>3, <4>4
    <3> QED
      BY <3>1, <3>2
  <2>7. fill' \in [Fills -> Cache!Filling \cup {Cache!NoFill}]
    BY <2>1, <2>6
  <2>8. Cache!CacheTypeOK'
    BY <1>1, <2>3, <2>4, <2>7 DEF CacheIInv, Cache!CacheTypeOK
  <2>9. \A d \in Chains : floor'[d] <= version'[d]
    BY <1>1, <2>3 DEF CacheIInv, Cache!CacheTypeOK
  <2> QED
    BY <2>5, <2>6, <2>8, <2>9 DEF CacheIInv
<1> QED
  BY <1>2, <1>3

LEMMA CacheNextInv == CacheIInv /\ (Cache!Next \/ UNCHANGED cacheVars) => CacheIInv'
<1> SUFFICES ASSUME CacheIInv, Cache!Next \/ UNCHANGED cacheVars PROVE CacheIInv'
  OBVIOUS
<1>1. CASE Cache!Window
  <2>1. windows \in 0 .. MaxWindows /\ windows > 0
    BY <1>1 DEF Cache!Window, CacheIInv, Cache!CacheTypeOK
  <2>2. hits' \in 0 .. RateMax /\ windows' \in 0 .. MaxWindows /\ UNCHANGED <<version, entry, fill, floor>>
    BY <1>1, <2>1, CacheAssumption DEF Cache!Window
  <2> QED
    BY <2>2 DEF CacheIInv, Cache!CacheTypeOK, Cache!CacheIsRight, FillOK
<1>2. ASSUME NEW c \in Chains, Cache!Change(c) PROVE CacheIInv'
  <2>1. version[c] \in 0 .. MaxVersion /\ version[c] < MaxVersion /\ version' = [version EXCEPT ![c] = @ + 1]
        /\ UNCHANGED <<entry, fill, floor, hits, windows>>
    BY <1>2 DEF Cache!Change, CacheIInv, Cache!CacheTypeOK
  <2>2. version[c] + 1 \in 0 .. MaxVersion
    BY <2>1, CacheAssumption
  <2>3. version' \in [Chains -> 0 .. MaxVersion] /\ \A d \in Chains : floor'[d] <= version'[d]
    BY <2>1, <2>2 DEF CacheIInv, Cache!CacheTypeOK
  <2> QED
    BY <2>1, <2>3 DEF CacheIInv, Cache!CacheTypeOK, Cache!CacheIsRight, FillOK
<1>3. ASSUME NEW f \in Fills,
             Cache!Labels(f) \/ Cache!Read(f) \/ Cache!Store(f) \/ Cache!Throw(f)
               \/ \E t \in CacheTiers, c \in Chains : Cache!Get(f, t, c)
      PROVE  CacheIInv'
  BY <1>3, CacheGet, CacheLabels, CacheRead, CacheStore, CacheThrow
<1>4. ASSUME NEW c, Cache!Revalidate(c) PROVE CacheIInv'
  BY <1>4, CacheRevalidate
<1>5. CASE UNCHANGED cacheVars
  BY <1>5 DEF cacheVars, CacheIInv, Cache!CacheTypeOK, Cache!CacheIsRight, FillOK
<1> QED
  BY <1>1, <1>2, <1>3, <1>4, <1>5 DEF Cache!Next

LEMMA CacheFollows == CacheIInv => Cache!CacheTypeOK /\ Cache!CacheIsRight
BY DEF CacheIInv

-----------------------------------------------------------------------------
(* Storefront, for any Comets, collaterals, loads and moves of the market.     *)

MarketSet == [open : BOOLEAN, held : SUBSET Store!Colls, util : 0 .. 1]
LoadSet == [pc : {"idle", "head", "tail"}, of : Comets, left : 0 .. NColl,
            items : SUBSET Store!Colls, util : 0 .. 1]
SaleSet == [of : Comets, open : BOOLEAN, items : SUBSET Store!Colls, read : BOOLEAN]
FigureSet == [of : Comets, util : 0 .. 1, rate : 0 .. 1, read : BOOLEAN]

(* A load d has found, of what it has been through, all that has been for sale  *)
(* all along, and nothing that Comet never held.                             *)
LoadOK(d) ==
  /\ d.pc = "head" => d.items = {}
  /\ panel = "sale" /\ d.pc = "tail" =>
       /\ d.items \subseteq ever[d.of]
       /\ \A i \in always[d.of] : i <= NColl - d.left => i \in d.items

StoreIInv ==
  /\ storeComet \in Comets /\ panel \in Store!Panels
  /\ loading \in BOOLEAN /\ storeMoves \in 0 .. MaxMoves
  /\ market \in [Comets -> MarketSet] /\ load \in [Loads -> LoadSet]
  /\ sale \in SaleSet /\ figures \in FigureSet
  /\ always \in [Comets -> SUBSET Store!Colls] /\ ever \in [Comets -> SUBSET Store!Colls]
  /\ \A c \in Comets : always[c] \subseteq Store!ForSale(market[c]) /\ market[c].held \subseteq ever[c]
  /\ \A l \in Loads : LoadOK(load[l])
  /\ Store!OffersAreReal /\ figures.rate = figures.util

LEMMA NoLoadType ==
  /\ Store!NoLoad \in LoadSet /\ Store!NoLoad.pc = "idle"
  /\ Store!NoLoad.items = {}
BY ShapeAssumption, MarketAssumption DEF Store!NoLoad, LoadSet

LEMMA StoreInitInv == StoreInit => StoreIInv
<1> SUFFICES ASSUME Store!Init PROVE StoreIInv
  BY DEF StoreInit
<1>1. /\ panel \in Store!Panels /\ storeComet = Built
      /\ market \in [Comets -> [open : BOOLEAN, held : {{}, Store!Colls}, util : {0}]]
      /\ load = [l \in Loads |-> Store!NoLoad] /\ sale = Store!NoSale /\ figures = Store!NoFigures
      /\ loading = (panel = "sale") /\ storeMoves = 0
      /\ always = [c \in Comets |-> Store!ForSale(market[c])] /\ ever = [c \in Comets |-> market[c].held]
  BY DEF Store!Init
<1>2. market \in [Comets -> MarketSet]
  <2>1. {{}, Store!Colls} \subseteq SUBSET Store!Colls /\ {0} \subseteq 0 .. 1
    OBVIOUS
  <2>2. [open : BOOLEAN, held : {{}, Store!Colls}, util : {0}] \subseteq MarketSet
    BY <2>1 DEF MarketSet
  <2> QED
    BY <1>1, <2>2
<1>3. \A c \in Comets : /\ market[c].held \in SUBSET Store!Colls
                        /\ Store!ForSale(market[c]) \in SUBSET Store!Colls
  BY <1>2 DEF MarketSet, Store!ForSale
<1>4. load \in [Loads -> LoadSet] /\ \A l \in Loads : LoadOK(load[l])
  BY <1>1, NoLoadType DEF LoadOK
<1>5. sale \in SaleSet /\ figures \in FigureSet /\ Store!OffersAreReal /\ figures.rate = figures.util
  BY <1>1, ShapeAssumption DEF Store!NoSale, Store!NoFigures, SaleSet, FigureSet, Store!OffersAreReal
<1>6. always \in [Comets -> SUBSET Store!Colls] /\ ever \in [Comets -> SUBSET Store!Colls]
  BY <1>1, <1>3
<1>7. loading \in BOOLEAN /\ storeMoves \in 0 .. MaxMoves
  BY <1>1, MarketAssumption
<1> QED
  BY <1>1, <1>2, <1>3, <1>4, <1>5, <1>6, <1>7, ShapeAssumption DEF StoreIInv

(* The market moves: what has been for sale all along shrinks, and what Comet    *)
(* ever held grows.                                                         *)
LEMMA StoreMarket == ASSUME StoreIInv, NEW c \in Comets, Store!Market(c) PROVE StoreIInv'
<1>1. /\ storeMoves < MaxMoves /\ storeMoves' = storeMoves + 1
      /\ \/ market' = [market EXCEPT ![c].open = ~@]
         \/ \E i \in Store!Colls \ market[c].held : market' = [market EXCEPT ![c].held = @ \cup {i}]
         \/ \E i \in Store!ForSale(market[c]) : market' = [market EXCEPT ![c].held = @ \ {i}]
         \/ market' = [market EXCEPT ![c].util = 1 - @]
      /\ always' = [always EXCEPT ![c] = @ \cap Store!ForSale(market'[c])]
      /\ ever' = [ever EXCEPT ![c] = @ \cup market'[c].held]
      /\ UNCHANGED <<panel, storeComet, load, sale, figures, loading>>
  BY DEF Store!Market
<1>2. market[c] \in MarketSet
  BY DEF StoreIInv
<1>3. market' \in [Comets -> MarketSet] /\ \A d \in Comets \ {c} : market'[d] = market[d]
  <2>1. ASSUME NEW m \in MarketSet
        PROVE  /\ [m EXCEPT !.open = ~m.open] \in MarketSet
               /\ \A i \in Store!Colls : [m EXCEPT !.held = m.held \cup {i}] \in MarketSet
               /\ \A i : [m EXCEPT !.held = m.held \ {i}] \in MarketSet
               /\ [m EXCEPT !.util = 1 - m.util] \in MarketSet
    <3>1. 1 - m.util \in 0 .. 1
      BY DEF MarketSet
    <3> QED
      BY <3>1 DEF MarketSet
  <2>2. \E m \in MarketSet : market' = [market EXCEPT ![c] = m]
    BY <1>1, <1>2, <2>1
  <2> QED
    BY <2>2 DEF StoreIInv
<1>4. market'[c].held \in SUBSET Store!Colls
  BY <1>3 DEF MarketSet
<1>5. /\ always' \in [Comets -> SUBSET Store!Colls] /\ ever' \in [Comets -> SUBSET Store!Colls]
      /\ \A d \in Comets : always'[d] \subseteq always[d] /\ ever[d] \subseteq ever'[d]
      /\ always'[c] \subseteq Store!ForSale(market'[c]) /\ market'[c].held \subseteq ever'[c]
      /\ \A d \in Comets \ {c} : always'[d] = always[d] /\ ever'[d] = ever[d]
  BY <1>1, <1>4 DEF StoreIInv
<1>6. \A d \in Comets : always'[d] \subseteq Store!ForSale(market'[d]) /\ market'[d].held \subseteq ever'[d]
  BY <1>3, <1>5 DEF StoreIInv
<1>7. storeMoves' \in 0 .. MaxMoves
  BY <1>1, MarketAssumption DEF StoreIInv
<1>8. \A l \in Loads : LoadOK(load[l])'
  <2>1. \A l \in Loads : load[l].of \in Comets
    BY DEF StoreIInv, LoadSet
  <2> QED
    BY <1>1, <1>5, <2>1 DEF StoreIInv, LoadOK
<1>9. Store!OffersAreReal'
  <2>1. sale.of \in Comets
    BY DEF StoreIInv, SaleSet
  <2> QED
    BY <1>1, <1>5, <2>1 DEF StoreIInv, Store!OffersAreReal
<1> QED
  BY <1>1, <1>3, <1>5, <1>6, <1>7, <1>8, <1>9 DEF StoreIInv

(* Load l goes on to r and shows s or f; the market stays.                      *)
LEMMA StoreLoad ==
  ASSUME StoreIInv, NEW l \in Loads, NEW r \in LoadSet, load' = [load EXCEPT ![l] = r], LoadOK(r),
         UNCHANGED <<panel, storeComet, market, storeMoves, always, ever>>, loading' \in BOOLEAN,
         sale' \in SaleSet, figures' \in FigureSet, Store!OffersAreReal', figures'.rate = figures'.util
  PROVE  StoreIInv'
<1>1. load' \in [Loads -> LoadSet] /\ load'[l] = r /\ \A k \in Loads \ {l} : load'[k] = load[k]
  BY DEF StoreIInv
<1>2. \A k \in Loads : LoadOK(load[k])'
  BY <1>1 DEF StoreIInv, LoadOK
<1> QED
  BY <1>1, <1>2 DEF StoreIInv

LEMMA StoreTick == ASSUME StoreIInv, NEW l \in Loads, Store!Tick(l) PROVE StoreIInv'
<1> DEFINE r == [Store!NoLoad EXCEPT !.pc = "head", !.of = storeComet]
<1>1. /\ load' = [load EXCEPT ![l] = r] /\ loading' = TRUE
      /\ UNCHANGED <<panel, storeComet, market, sale, figures, storeMoves, always, ever>>
  BY DEF Store!Tick
<1>2. r \in LoadSet /\ r.pc = "head" /\ r.items = {}
  BY NoLoadType DEF StoreIInv, LoadSet
<1> HIDE DEF r
<1>3. LoadOK(r)
  BY <1>2 DEF LoadOK
<1>4. sale' \in SaleSet /\ figures' \in FigureSet /\ Store!OffersAreReal' /\ figures'.rate = figures'.util
  BY <1>1 DEF StoreIInv, Store!OffersAreReal
<1> QED
  BY <1>1, <1>2, <1>3, <1>4, StoreLoad

(* A load ends, whatever it shows.                                           *)
LEMMA StoreDone ==
  ASSUME StoreIInv, NEW l \in Loads, Store!Done(l),
         UNCHANGED <<panel, storeComet, market, storeMoves, always, ever>>,
         sale' \in SaleSet, figures' \in FigureSet, Store!OffersAreReal', figures'.rate = figures'.util
  PROVE  StoreIInv'
<1>1. load' = [load EXCEPT ![l] = Store!NoLoad] /\ loading' \in BOOLEAN
  BY DEF Store!Done
<1>2. LoadOK(Store!NoLoad)
  BY NoLoadType DEF LoadOK
<1> QED
  BY <1>1, <1>2, NoLoadType, StoreLoad

LEMMA StoreReadHead == ASSUME StoreIInv, NEW l \in Loads, Store!ReadHead(l) PROVE StoreIInv'
<1> DEFINE d == load[l]
           m == market[d.of]
           r == [d EXCEPT !.pc = "tail", !.left = NColl, !.util = m.util]
<1>1. /\ IF panel = "sale" /\ ~m.open THEN Store!ShowSale(l, FALSE, {})
         ELSE load' = [load EXCEPT ![l] = r] /\ UNCHANGED <<sale, figures, loading>>
      /\ UNCHANGED <<panel, storeComet, market, storeMoves, always, ever>> /\ d.pc = "head"
  BY DEF Store!ReadHead
<1>2. d \in LoadSet /\ d.of \in Comets
  BY DEF StoreIInv, LoadSet
<1>3. m \in MarketSet /\ always[d.of] \subseteq Store!ForSale(m) /\ m.util \in 0 .. 1
  BY <1>2 DEF StoreIInv, MarketSet
<1>4. CASE panel = "sale" /\ ~m.open
  <2>1. always[d.of] = {}
    BY <1>3, <1>4 DEF Store!ForSale
  <2>2. /\ sale' = [of |-> d.of, open |-> FALSE, items |-> {}, read |-> TRUE]
        /\ Store!Done(l) /\ UNCHANGED figures
    BY <1>1, <1>4 DEF Store!ShowSale
  <2>3. sale' \in SaleSet /\ Store!OffersAreReal'
    BY <1>1, <1>2, <2>1, <2>2 DEF SaleSet, Store!OffersAreReal
  <2>4. figures' \in FigureSet /\ figures'.rate = figures'.util
    BY <2>2 DEF StoreIInv
  <2> QED
    BY <1>1, <2>2, <2>3, <2>4, StoreDone
<1>5. CASE ~(panel = "sale" /\ ~m.open)
  <2>1. load' = [load EXCEPT ![l] = r] /\ UNCHANGED <<sale, figures, loading>>
    BY <1>1, <1>5
  <2>2. d.items = {} /\ always[d.of] \subseteq Store!Colls
    BY <1>1, <1>2 DEF StoreIInv, LoadOK
  <2> HIDE DEF d, m
  <2> DEFINE u == m.util
  <2>6. NColl \in 0 .. NColl /\ u \in 0 .. 1
    BY <1>3, MarketAssumption
  <2> HIDE DEF u
  <2>7. r = [d EXCEPT !.pc = "tail", !.left = NColl, !.util = u]
    BY DEF u
  <2> HIDE DEF r
  <2>3. r \in LoadSet /\ r.pc = "tail" /\ r.of = d.of /\ r.items = d.items /\ r.left = NColl
    BY <1>2, <2>6, <2>7 DEF LoadSet
  <2> HIDE DEF r
  <2>4. LoadOK(r)
    <3>1. \A i \in always[d.of] : ~(i <= NColl - NColl)
      BY <2>2, MarketAssumption DEF Store!Colls
    <3> QED
      BY <2>2, <2>3, <3>1 DEF LoadOK
  <2>5. /\ sale' \in SaleSet /\ figures' \in FigureSet /\ Store!OffersAreReal' /\ figures'.rate = figures'.util
        /\ loading' \in BOOLEAN
    BY <1>1, <2>1 DEF StoreIInv, Store!OffersAreReal
  <2> QED
    BY <1>1, <2>1, <2>3, <2>4, <2>5, StoreLoad
<1> QED
  BY <1>4, <1>5

LEMMA StoreReadColl == ASSUME StoreIInv, NEW l \in Loads, Store!ReadColl(l) PROVE StoreIInv'
<1> DEFINE d == load[l]
           i == NColl + 1 - d.left
           items == IF Store!Kept(market[d.of], i) THEN d.items \cup {i} ELSE d.items
           r == [d EXCEPT !.left = d.left - 1, !.items = items]
<1>1. /\ load' = [load EXCEPT ![l] = r] /\ d.pc = "tail" /\ panel = "sale" /\ d.left > 0
      /\ UNCHANGED <<panel, storeComet, market, sale, figures, loading, storeMoves, always, ever>>
  BY DEF Store!ReadColl
<1>2. d \in LoadSet /\ d.of \in Comets /\ d.left \in 0 .. NColl /\ LoadOK(d)
  BY DEF StoreIInv, LoadSet
<1>3. /\ always[d.of] \subseteq Store!ForSale(market[d.of]) /\ market[d.of].held \subseteq ever[d.of]
      /\ always[d.of] \subseteq Store!Colls
  BY <1>2 DEF StoreIInv
<1> HIDE DEF d
<1>4. i \in Store!Colls /\ d.left - 1 \in 0 .. NColl
  <2>1. \A n \in 0 .. NColl : n > 0 => NColl + 1 - n \in 1 .. NColl /\ n - 1 \in 0 .. NColl
    BY MarketAssumption
  <2> QED
    BY <1>1, <1>2, <2>1 DEF Store!Colls
<1>5. items \subseteq d.items \cup {i} /\ d.items \subseteq items
  OBVIOUS
<1>6. items \in SUBSET Store!Colls
  BY <1>2, <1>4, <1>5 DEF LoadSet
<1>7. items \subseteq ever[d.of]
  BY <1>1, <1>2, <1>3 DEF LoadOK, Store!Kept
<1>8. \A j \in always[d.of] : j <= NColl - (d.left - 1) => j \in items
  <2>1. ASSUME NEW j \in always[d.of], j <= NColl - (d.left - 1) PROVE j \in items
    <3>1. j <= NColl - d.left \/ j = i
      BY <1>2, <1>3, <2>1, MarketAssumption DEF Store!Colls
    <3>2. CASE j <= NColl - d.left
      BY <1>1, <1>2, <1>5, <3>2 DEF LoadOK
    <3>3. CASE j = i
      BY <1>3, <3>3 DEF Store!ForSale, Store!Kept
    <3> QED
      BY <3>1, <3>2, <3>3
  <2> QED
    BY <2>1
<1> HIDE DEF items
<1>9. r \in LoadSet /\ r.pc = "tail" /\ r.of = d.of /\ r.items = items /\ r.left = d.left - 1
  BY <1>1, <1>2, <1>4, <1>6 DEF LoadSet
<1> HIDE DEF r
<1>10. LoadOK(r)
  BY <1>7, <1>8, <1>9 DEF LoadOK
<1>11. /\ sale' \in SaleSet /\ figures' \in FigureSet /\ Store!OffersAreReal' /\ figures'.rate = figures'.util
       /\ loading' \in BOOLEAN
  BY <1>1 DEF StoreIInv, Store!OffersAreReal
<1> QED
  BY <1>1, <1>9, <1>10, <1>11, StoreLoad

LEMMA StoreFinish == ASSUME StoreIInv, NEW l \in Loads, Store!Finish(l) PROVE StoreIInv'
<1> DEFINE d == load[l]
<1>1. d.pc = "tail" /\ UNCHANGED <<panel, storeComet, market, storeMoves, always, ever>>
  BY DEF Store!Finish
<1>2. d \in LoadSet /\ d.of \in Comets /\ LoadOK(d) /\ always[d.of] \subseteq Store!Colls
  BY DEF StoreIInv, LoadSet
<1>3. CASE panel = "sale" /\ d.left = 0 /\ Store!ShowSale(l, TRUE, d.items)
  <2>1. /\ sale' = [of |-> d.of, open |-> TRUE, items |-> d.items, read |-> TRUE]
        /\ Store!Done(l) /\ UNCHANGED figures
    BY <1>3 DEF Store!ShowSale
  <2>2. always[d.of] \subseteq d.items /\ d.items \subseteq ever[d.of]
    BY <1>1, <1>2, <1>3, MarketAssumption DEF LoadOK, Store!Colls
  <2> HIDE DEF d
  <2>3. /\ sale' \in SaleSet /\ sale'.of = d.of /\ sale'.items = d.items /\ sale'.open
    BY <1>2, <2>1 DEF SaleSet, LoadSet
  <2>4. Store!OffersAreReal'
    BY <1>1, <2>2, <2>3 DEF Store!OffersAreReal
  <2>5. figures' \in FigureSet /\ figures'.rate = figures'.util
    BY <2>1 DEF StoreIInv
  <2> QED
    BY <1>1, <2>1, <2>3, <2>4, <2>5, StoreDone
<1>4. CASE /\ figures' = [of |-> d.of, util |-> d.util, rate |-> Store!RateFor(l), read |-> TRUE]
           /\ Store!Done(l) /\ UNCHANGED sale
  <2>1. Store!RateFor(l) = d.util
    BY DEF Store!RateFor, Store!Rate
  <2>2. figures' \in FigureSet /\ figures'.rate = figures'.util
    BY <1>2, <1>4, <2>1 DEF FigureSet, LoadSet
  <2>3. sale' \in SaleSet /\ Store!OffersAreReal'
    BY <1>1, <1>4 DEF StoreIInv, Store!OffersAreReal
  <2> QED
    BY <1>1, <1>4, <2>2, <2>3, StoreDone
<1> QED
  BY <1>3, <1>4 DEF Store!Finish

LEMMA StoreNextInv == StoreIInv /\ (Store!Next \/ UNCHANGED storeVars) => StoreIInv'
<1> SUFFICES ASSUME StoreIInv, Store!Next \/ UNCHANGED storeVars PROVE StoreIInv'
  OBVIOUS
<1>1. CASE Store!SwitchComet
  <2>1. storeComet' \in Comets
        /\ UNCHANGED <<panel, market, load, sale, figures, loading, storeMoves, always, ever>>
    BY <1>1 DEF Store!SwitchComet
  <2> QED
    BY <2>1 DEF StoreIInv, LoadOK, Store!OffersAreReal
<1>2. ASSUME NEW l \in Loads, Store!Throw(l) PROVE StoreIInv'
  <2>1. Store!Done(l) /\ UNCHANGED <<panel, storeComet, market, sale, figures, storeMoves, always, ever>>
    BY <1>2 DEF Store!Throw
  <2>2. sale' \in SaleSet /\ figures' \in FigureSet /\ Store!OffersAreReal' /\ figures'.rate = figures'.util
    BY <2>1 DEF StoreIInv, Store!OffersAreReal
  <2> QED
    BY <2>1, <2>2, StoreDone
<1>3. CASE UNCHANGED storeVars
  BY <1>3 DEF storeVars, StoreIInv, LoadOK, Store!OffersAreReal
<1> QED
  BY <1>1, <1>2, <1>3, StoreMarket, StoreTick, StoreReadHead, StoreReadColl, StoreFinish
  DEF Store!Next, Store!Answer

LEMMA StoreFollows == StoreIInv => Store!StorefrontTypeOK /\ Store!StorefrontIsRight
<1> SUFFICES ASSUME StoreIInv PROVE Store!StorefrontTypeOK /\ Store!StorefrontIsRight
  OBVIOUS
<1>1. Store!FiguresFit
  BY DEF StoreIInv, Store!FiguresFit, Store!Rate
<1>2. Store!StorefrontTypeOK
  BY DEF StoreIInv, Store!StorefrontTypeOK, LoadSet, SaleSet, FigureSet, MarketSet
<1> QED
  BY <1>1, <1>2 DEF StoreIInv, Store!StorefrontIsRight

-----------------------------------------------------------------------------
(* The members of a set of numbers in order.                                  *)

Increasing(s) == \A i, j \in DOMAIN s : i < j => s[i] < s[j]

(* There is such a sequence.                                                 *)
LEMMA InOrderExists ==
  ASSUME NEW m \in Nat, NEW S \in SUBSET (1 .. m)
  PROVE  \E s \in [1 .. Cardinality(S) -> S] : Increasing(s)
<1> DEFINE Ordered(T) == \E s \in [1 .. Cardinality(T) -> T] : Increasing(s)
           B == {n \in Nat : \E T \in SUBSET (1 .. n) : ~Ordered(T)}
<1> SUFFICES ASSUME B # {} PROVE FALSE
  BY Zenon
<1>1. PICK n \in B : \A k \in B : n <= k
  BY LeastNatural
<1>0. n - 1 \in Nat => n - 1 \notin B
  <2>1. n \in Nat
    BY <1>1
  <2> HIDE DEF B
  <2> QED
    BY <1>1, <2>1
<1>2. PICK T \in SUBSET (1 .. n) : ~Ordered(T)
  BY <1>1
<1>3. n \in Nat /\ IsFiniteSet(1 .. n)
  BY <1>1, FS_Interval
<1>4. IsFiniteSet(T)
  BY <1>3, FS_Subset
<1>5. n \in T
  <2> SUFFICES ASSUME n \notin T PROVE FALSE
    OBVIOUS
  <2>1. CASE n = 0
    <3>1. T = {} /\ Cardinality({}) = 0
      BY <2>1, FS_EmptySet
    <3> DEFINE s == [i \in 1 .. 0 |-> 0]
    <3>2. s \in [1 .. 0 -> {}] /\ Increasing(s)
      BY DEF Increasing
    <3> QED
      BY <1>2, <3>1, <3>2
  <2>2. CASE n # 0
    <3>1. n - 1 \in Nat /\ T \in SUBSET (1 .. (n - 1))
      BY <1>3, <2>2
    <3>2. n - 1 \in B
      BY <1>2, <3>1
    <3> QED
      BY <1>0, <3>1, <3>2
  <2> QED
    BY <2>1, <2>2
<1> DEFINE R == T \ {n}
           c == Cardinality(R)
<1>6. R \in SUBSET (1 .. (n - 1)) /\ n - 1 \in Nat
  BY <1>3, <1>5
<1>7. Ordered(R)
  BY <1>6, <1>0
<1>8. c \in Nat /\ Cardinality(T) = c + 1
  <2>1. IsFiniteSet(R)
    BY <1>4, FS_Subset
  <2>2. Cardinality(R) = Cardinality(T) - 1
    BY <1>4, <1>5, FS_RemoveElement
  <2> QED
    BY <1>4, <2>1, <2>2, FS_CardinalityType
<1>9. PICK s \in [1 .. c -> R] : Increasing(s)
  BY <1>7
<1> HIDE DEF c
<1> DEFINE q == [i \in 1 .. (c + 1) |-> IF i <= c THEN s[i] ELSE n]
<1>10. q \in [1 .. (c + 1) -> T]
  BY <1>5, <1>8, <1>9
<1>11. \A i \in 1 .. c : s[i] \in Nat /\ s[i] < n
  <2>1. \A i \in 1 .. c : s[i] \in R
    BY <1>9
  <2> HIDE DEF R
  <2>2. \A i \in 1 .. c : s[i] \in 1 .. (n - 1)
    BY <1>6, <2>1
  <2> QED
    BY <1>3, <2>2
<1>12. Increasing(q)
  <2>1. ASSUME NEW i \in 1 .. (c + 1), NEW j \in 1 .. (c + 1), i < j PROVE q[i] < q[j]
    <3>1. i \in 1 .. c /\ q[i] = s[i]
      BY <1>8, <2>1
    <3>2. CASE j <= c
      <4>1. j \in 1 .. c /\ q[j] = s[j]
        BY <1>8, <3>2
      <4> QED
        BY <1>9, <2>1, <3>1, <4>1 DEF Increasing
    <3>3. CASE ~(j <= c)
      <4>1. q[j] = n
        BY <3>3
      <4> QED
        BY <1>11, <3>1, <4>1
    <3> QED
      BY <3>2, <3>3
  <2> QED
    BY <2>1 DEF Increasing
<1> QED
  BY <1>2, <1>8, <1>10, <1>12

(* Of all of 1 .. m it is the identity.                                       *)
LEMMA InOrderWhole ==
  ASSUME NEW m \in Nat, NEW s \in [1 .. m -> 1 .. m], Increasing(s)
  PROVE  s = [i \in 1 .. m |-> i]
<1>1. \A i \in 1 .. m : s[i] >= i
  <2> DEFINE B == {i \in 1 .. m : ~(s[i] >= i)}
  <2> SUFFICES ASSUME B # {} PROVE FALSE
    OBVIOUS
  <2>1. B \in SUBSET Nat
    OBVIOUS
  <2>2. PICK i \in B : \A k \in B : i <= k
    BY <2>1, LeastNatural
  <2>3. i \in 1 .. m /\ s[i] \in 1 .. m /\ s[i] < i
    BY <2>2
  <2>4. i - 1 \in 1 .. m /\ i - 1 \notin B
    BY <2>2, <2>3
  <2>5. s[i - 1] >= i - 1 /\ s[i - 1] \in 1 .. m
    BY <2>4
  <2>6. s[i - 1] < s[i]
    BY <2>3, <2>4 DEF Increasing
  <2> QED
    BY <2>3, <2>5, <2>6
<1>2. \A i \in 1 .. m : s[i] <= i
  <2> DEFINE B == {k \in Nat : m - k \in 1 .. m /\ ~(s[m - k] <= m - k)}
  <2> SUFFICES ASSUME B # {} PROVE FALSE
    <3>1. ASSUME NEW i \in 1 .. m, ~(s[i] <= i) PROVE FALSE
      <4>1. m - i \in Nat /\ m - (m - i) = i
        OBVIOUS
      <4>2. m - i \in B
        BY <3>1, <4>1
      <4> QED
        BY <4>2
    <3> QED
      BY <3>1
  <2>1. PICK k \in B : \A l \in B : k <= l
    BY LeastNatural
  <2> DEFINE i == m - k
  <2>2. k \in Nat /\ i \in 1 .. m /\ s[i] \in 1 .. m /\ s[i] > i
    BY <2>1
  <2>3. i # m
    BY <2>2
  <2>4. k - 1 \in Nat /\ m - (k - 1) = i + 1 /\ i + 1 \in 1 .. m
    BY <2>2, <2>3
  <2>7. k - 1 \notin B
    <3> HIDE DEF B
    <3> QED
      BY <2>1, <2>2, <2>4
  <2>5. s[i + 1] <= i + 1 /\ s[i + 1] \in 1 .. m
    BY <2>4, <2>7
  <2> HIDE DEF i
  <2>6. s[i] < s[i + 1]
    BY <2>2, <2>4 DEF Increasing
  <2> QED
    BY <2>2, <2>4, <2>5, <2>6
<1>3. \A i \in 1 .. m : s[i] = i
  BY <1>1, <1>2
<1> QED
  BY <1>3

(* If all of 1 .. n are in it, they stand at their own places.                  *)
LEMMA InPlace ==
  ASSUME NEW k \in Nat, NEW s \in [1 .. k -> Nat \ {0}], Increasing(s), NEW n \in Nat,
         1 .. n \subseteq {s[j] : j \in 1 .. k}
  PROVE  \A i \in 1 .. n : i <= k /\ s[i] = i
<1> DEFINE B == {i \in 1 .. n : ~(i <= k /\ s[i] = i)}
<1> SUFFICES ASSUME B # {} PROVE FALSE
  OBVIOUS
<1>1. B \in SUBSET Nat
  OBVIOUS
<1>2. PICK i \in B : \A l \in B : i <= l
  BY <1>1, LeastNatural
<1>3. i \in 1 .. n /\ ~(i <= k /\ s[i] = i)
  BY <1>2
<1>4. \A l \in 1 .. n : l < i => l <= k /\ s[l] = l
  BY <1>2, <1>3
<1> HIDE DEF B
<1>5. PICK j \in 1 .. k : s[j] = i
  BY <1>3
<1>6. ~(j < i)
  BY <1>3, <1>4, <1>5
<1>7. i < j
  BY <1>3, <1>5, <1>6
<1>8. i \in 1 .. k /\ s[i] < s[j] /\ s[i] \in Nat \ {0}
  BY <1>3, <1>7 DEF Increasing
<1> DEFINE l == s[i]
<1>9. l \in 1 .. n /\ l < i /\ l \in 1 .. k
  BY <1>3, <1>5, <1>8
<1>10. s[l] = l
  BY <1>4, <1>9
<1>11. s[l] < s[i]
  BY <1>8, <1>9 DEF Increasing
<1> QED
  BY <1>8, <1>10, <1>11

(* No member of it stands in two places.                                      *)
LEMMA OncePlaced ==
  ASSUME NEW k \in Nat, NEW s \in [1 .. k -> Nat], Increasing(s), NEW i \in 1 .. k, NEW j \in 1 .. k, s[i] = s[j]
  PROVE  i = j
<1>1. ~(i < j) /\ ~(j < i)
  BY DEF Increasing
<1> QED
  BY <1>1

-----------------------------------------------------------------------------
(* ReserveRows, for any number of collaterals, names, factors and visits.      *)

LEMMA ReserveCardinality == \A S : Rows!Cardinality(S) = Cardinality(S)
BY DEF Rows!Cardinality, Cardinality

LEMMA ReservesInOrder ==
  ASSUME NEW S \in SUBSET Rows!Colls
  PROVE  Rows!InOrder(S) \in [1 .. Cardinality(S) -> S] /\ Increasing(Rows!InOrder(S))
<1>1. \E s \in [1 .. Cardinality(S) -> S] : Increasing(s)
  BY InOrderExists, ReserveAssumption DEF Rows!Colls
<1>2. Rows!InOrder(S) = CHOOSE s \in [1 .. Cardinality(S) -> S] : Increasing(s)
  BY ReserveCardinality DEF Rows!InOrder, Increasing
<1> QED
  BY <1>1, <1>2

(* A server's answer lists all of the collaterals, or fewer.                   *)
LEMMA AnswersAre ==
  ASSUME NEW r \in Rows!Answers
  PROVE  /\ DOMAIN r.colls = 1 .. Len(r.colls) /\ Len(r.colls) \in Nat /\ Len(r.colls) <= NRows
         /\ Len(r.colls) = NRows => r.colls = Rows!Whole
<1>1. PICK S \in SUBSET Rows!Colls : r.colls = Rows!InOrder(S)
  BY DEF Rows!Answers
<1> DEFINE n == Cardinality(S)
<1>2. IsFiniteSet(Rows!Colls) /\ Cardinality(Rows!Colls) = NRows
  <2>1. IsFiniteSet(1 .. NRows) /\ Cardinality(1 .. NRows) = NRows
    BY FS_Interval, ReserveAssumption
  <2> QED
    BY <2>1 DEF Rows!Colls
<1>3. S \subseteq Rows!Colls /\ S \in SUBSET Rows!Colls
  BY <1>1
<1>4. n \in Nat /\ n <= NRows /\ (n = NRows => S = Rows!Colls)
  BY <1>2, <1>3, FS_Subset, FS_CardinalityType
<1>5. r.colls \in [1 .. n -> S] /\ Increasing(r.colls)
  BY <1>1, <1>3, ReservesInOrder
<1> HIDE DEF n
<1>6. Len(r.colls) = n
  BY <1>4, <1>5
<1>7. n = NRows => r.colls = Rows!Whole
  <2> SUFFICES ASSUME n = NRows PROVE r.colls = Rows!Whole
    OBVIOUS
  <2>1. r.colls \in [1 .. NRows -> 1 .. NRows]
    BY <1>4, <1>5 DEF Rows!Colls
  <2>2. r.colls = [i \in 1 .. NRows |-> i]
    BY <1>5, <2>1, InOrderWhole, ReserveAssumption
  <2> QED
    BY <2>2 DEF Rows!Whole, Rows!Colls
<1> QED
  BY <1>4, <1>5, <1>6, <1>7

ReserveIInv ==
  /\ stored \in BOOLEAN /\ known \in {Rows!Whole, Rows!None} /\ raw \in Rows!Answers \cup {Rows!NoAnswer}
  /\ purse \subseteq Rows!Assets /\ visits \in 0 .. MaxVisits
  /\ down = Rows!Throws(known, raw)

LEMMA WholeIsSome == Rows!Whole # Rows!None /\ Rows!Whole \in Seq(Rows!Colls) /\ DOMAIN Rows!Whole = 1 .. NRows
<1>1. Rows!None[1] = 0 /\ DOMAIN Rows!None = {1}
  BY DEF Rows!None, Rows!Base
<1>2. Rows!Whole = [i \in 1 .. NRows |-> i]
  BY DEF Rows!Whole, Rows!Colls
<1>3. Rows!Whole \in Seq(Rows!Colls)
  BY <1>2, ReserveAssumption DEF Rows!Colls
<1> QED
  BY <1>1, <1>2, <1>3, ReserveAssumption

LEMMA ReserveInitInv == Rows!Init => ReserveIInv
<1>1. 0 \in 0 .. MaxVisits
  BY ReserveAssumption
<1> QED
  BY <1>1 DEF Rows!Init, ReserveIInv, Rows!Throws

LEMMA ReserveNextInv == ReserveIInv /\ (Rows!Next \/ UNCHANGED reserveVars) => ReserveIInv'
<1> SUFFICES ASSUME ReserveIInv, Rows!Next \/ UNCHANGED reserveVars PROVE ReserveIInv'
  OBVIOUS
<1>1. CASE Rows!LoadMarket
  BY <1>1 DEF Rows!LoadMarket, Rows!Render, ReserveIInv
<1>2. CASE Rows!Refetch
  BY <1>2 DEF Rows!Refetch, Rows!Render, ReserveIInv
<1>3. CASE Rows!RefreshWalletBalances
  BY <1>3 DEF Rows!RefreshWalletBalances, ReserveIInv
<1>4. CASE Rows!Reload
  <2>1. visits' \in 0 .. MaxVisits
    BY <1>4, ReserveAssumption DEF Rows!Reload, ReserveIInv
  <2>2. down' = Rows!Throws(known', raw')
    BY <1>4 DEF Rows!Reload, Rows!Throws
  <2> QED
    BY <1>4, <2>1, <2>2 DEF Rows!Reload, ReserveIInv
<1>5. CASE UNCHANGED reserveVars
  BY <1>5 DEF reserveVars, ReserveIInv
<1> QED
  BY <1>1, <1>2, <1>3, <1>4, <1>5 DEF Rows!Next

(* The rows, when there are any and the page is up: row i is of asset i - 1.      *)
LEMMA ReservesAre ==
  ASSUME ReserveIInv, ~down, ~Rows!Loading
  PROVE  /\ DOMAIN Rows!Reserves = 1 .. (NRows + 1)
         /\ \A i \in 1 .. (NRows + 1) :
              /\ Rows!Reserves[i].asset = i - 1 /\ Rows!Reserves[i].of = i - 1
              /\ Rows!Reserves[i].borrows = (i = 1)
              /\ Rows!Reserves[i].factor = IF i = 1 THEN 0 ELSE Factors[i - 1]
<1>1. known = Rows!Whole /\ raw \in Rows!Answers /\ raw # Rows!NoAnswer
  BY DEF ReserveIInv, Rows!Loading, Rows!Reserves
<1>2. raw.colls = Rows!Whole
  <2>1. DOMAIN Rows!Whole \subseteq DOMAIN raw.colls
    BY <1>1, WholeIsSome DEF ReserveIInv, Rows!Throws
  <2>2. Len(raw.colls) = NRows
    BY <1>1, <2>1, WholeIsSome, AnswersAre, ReserveAssumption
  <2> QED
    BY <1>1, <2>2, AnswersAre
<1> DEFINE R(a) == Rows!Row(a, a, raw)
           tail == [i \in 1 .. NRows |-> R(i)]
<1>3. Rows!Reserves = <<R(0)>> \o tail
  <2>1. Rows!Reserves = <<Rows!Row(Rows!Base, Rows!Base, raw)>>
                          \o [i \in DOMAIN Rows!Whole |-> Rows!Row(Rows!Whole[i], Rows!Whole[i], raw)]
    BY <1>1, <1>2, WholeIsSome DEF Rows!Reserves, Rows!DeriveReserveStats
  <2>2. [i \in DOMAIN Rows!Whole |-> Rows!Row(Rows!Whole[i], Rows!Whole[i], raw)] = tail
    BY WholeIsSome DEF Rows!Whole, Rows!Colls
  <2> QED
    BY <2>1, <2>2 DEF Rows!Base
<1>4. \A a \in Nat : /\ R(a).asset = a /\ R(a).of = a /\ R(a).borrows = (a = 0)
                     /\ R(a).factor = IF a = 0 THEN 0 ELSE Factors[a]
  BY DEF Rows!Row, Rows!Base
<1> DEFINE S == {R(a) : a \in 0 .. NRows}
<1>5. <<R(0)>> \in Seq(S) /\ tail \in Seq(S) /\ Len(tail) = NRows
  BY ReserveAssumption
<1> HIDE DEF R, tail, S
<1>6. /\ DOMAIN (<<R(0)>> \o tail) = 1 .. (NRows + 1)
      /\ \A i \in 1 .. (NRows + 1) : (<<R(0)>> \o tail)[i] = IF i = 1 THEN R(0) ELSE tail[i - 1]
  BY <1>5, ReserveAssumption
<1>7. \A i \in 1 .. (NRows + 1) : i - 1 \in Nat /\ Rows!Reserves[i] = R(i - 1)
  BY <1>3, <1>6, ReserveAssumption DEF tail
<1>8. ASSUME NEW i \in 1 .. (NRows + 1)
      PROVE  /\ Rows!Reserves[i].asset = i - 1 /\ Rows!Reserves[i].of = i - 1
             /\ Rows!Reserves[i].borrows = (i = 1)
             /\ Rows!Reserves[i].factor = IF i = 1 THEN 0 ELSE Factors[i - 1]
  <2>1. i - 1 \in Nat /\ Rows!Reserves[i] = R(i - 1) /\ (i - 1 = 0 <=> i = 1)
    BY <1>7
  <2> QED
    BY <1>4, <2>1
<1> QED
  BY <1>3, <1>6, <1>8

(* What the two tables show of the reserves there are.                         *)
LEMMA TablesAre ==
  ASSUME ReserveIInv, ~down, ~Rows!Loading
  PROVE  LET Of(a) == [name |-> Rows!Name(a), size |-> a, borrowed |-> (a = 0),
                       cf |-> IF a = 0 THEN {} ELSE {Factors[a]}]
             Too(a) == [asset |-> a, name |-> Rows!Name(a),
                        collateral |-> (a # 0 /\ Factors[a] > 0), button |-> a \in purse]
         IN /\ Rows!AllReserves = {Of(a) : a \in 0 .. NRows}
            /\ Rows!AssetsToSupply = {Too(a) : a \in 0 .. NRows}
<1> DEFINE Of(a) == [name |-> Rows!Name(a), size |-> a, borrowed |-> (a = 0),
                     cf |-> IF a = 0 THEN {} ELSE {Factors[a]}]
           Too(a) == [asset |-> a, name |-> Rows!Name(a),
                      collateral |-> (a # 0 /\ Factors[a] > 0), button |-> a \in purse]
           R(i) == Rows!Reserves[i]
           Cells(r) == [name |-> Rows!Name(r.asset), size |-> r.of, borrowed |-> r.borrows,
                        cf |-> IF r.borrows THEN {} ELSE {r.factor}]
           More(r) == [asset |-> r.asset, name |-> Rows!Name(r.asset), collateral |-> r.factor > 0,
                       button |-> r.asset \in purse]
<1>1. DOMAIN Rows!Reserves = 1 .. (NRows + 1)
  BY ReservesAre
<1>2. ASSUME NEW a \in 0 .. NRows
      PROVE  /\ a + 1 \in 1 .. (NRows + 1) /\ R(a + 1).asset = a /\ R(a + 1).of = a
             /\ R(a + 1).borrows = (a = 0) /\ R(a + 1).factor = IF a = 0 THEN 0 ELSE Factors[a]
  <2>1. a + 1 \in 1 .. (NRows + 1) /\ (a + 1) - 1 = a /\ (a + 1 = 1 <=> a = 0)
    BY ReserveAssumption
  <2> DEFINE i == a + 1
  <2> HIDE DEF i
  <2>2. i \in 1 .. (NRows + 1) /\ i - 1 = a /\ (i = 1 <=> a = 0)
    BY <2>1 DEF i
  <2>3. R(i).asset = i - 1 /\ R(i).of = i - 1 /\ R(i).borrows = (i = 1)
        /\ R(i).factor = IF i = 1 THEN 0 ELSE Factors[i - 1]
    BY <2>2, ReservesAre
  <2> QED
    BY <2>1, <2>2, <2>3 DEF i
<1>3. \A a \in 0 .. NRows : Cells(R(a + 1)) = Of(a) /\ More(R(a + 1)) = Too(a)
  <2>1. ASSUME NEW a \in 0 .. NRows PROVE Cells(R(a + 1)) = Of(a) /\ More(R(a + 1)) = Too(a)
    <3> DEFINE r == R(a + 1)
    <3>1. r.asset = a /\ r.of = a /\ r.borrows = (a = 0) /\ r.factor = IF a = 0 THEN 0 ELSE Factors[a]
      BY <1>2
    <3>2. (r.factor > 0) = (a # 0 /\ Factors[a] > 0)
      BY <3>1
    <3> HIDE DEF r
    <3>3. Cells(r) = Of(a) /\ More(r) = Too(a)
      BY <3>1, <3>2
    <3> QED
      BY <3>3 DEF r
  <2> QED
    BY <2>1
<1>4. \A i \in 1 .. (NRows + 1) : i - 1 \in 0 .. NRows /\ (i - 1) + 1 = i
  BY ReserveAssumption
<1>5. Rows!AllReserves = {Cells(R(i)) : i \in 1 .. (NRows + 1)}
  BY <1>1 DEF Rows!AllReserves
<1>6. Rows!AssetsToSupply = {More(R(i)) : i \in 1 .. (NRows + 1)}
  BY <1>1 DEF Rows!AssetsToSupply
<1> HIDE DEF R, Cells, More, Of, Too
<1>7. \A i \in 1 .. (NRows + 1) : Cells(R(i)) = Of(i - 1) /\ More(R(i)) = Too(i - 1)
  BY <1>3, <1>4
<1>8. {Cells(R(i)) : i \in 1 .. (NRows + 1)} = {Of(a) : a \in 0 .. NRows}
  BY <1>2, <1>3, <1>4, <1>7
<1>9. {More(R(i)) : i \in 1 .. (NRows + 1)} = {Too(a) : a \in 0 .. NRows}
  BY <1>2, <1>3, <1>4, <1>7
<1> QED
  BY <1>5, <1>6, <1>8, <1>9 DEF Of, Too

LEMMA ReserveFollows == ReserveIInv => Rows!ReservesTypeOK /\ Rows!ReservesAreRight
<1> SUFFICES ASSUME ReserveIInv PROVE Rows!ReservesTypeOK /\ Rows!ReservesAreRight
  OBVIOUS
<1> DEFINE Of(a) == [name |-> Rows!Name(a), size |-> a, borrowed |-> (a = 0),
                     cf |-> IF a = 0 THEN {} ELSE {Factors[a]}]
           Too(a) == [asset |-> a, name |-> Rows!Name(a),
                      collateral |-> (a # 0 /\ Factors[a] > 0), button |-> a \in purse]
<1>1. Rows!ReservesTypeOK
  BY WholeIsSome DEF ReserveIInv, Rows!ReservesTypeOK, Rows!Throws
<1>2. \A a, b : Rows!Name(a) = Rows!Name(b) => a = b
  <2>1. \A a : Rows!Name(a).of = a
    BY DEF Rows!Name
  <2> QED
    BY <2>1
<1>3. Rows!Assets = 0 .. NRows
  BY ReserveAssumption DEF Rows!Assets, Rows!Colls, Rows!Base
<1>4. Rows!RowsAreOwn
  <2> SUFFICES ASSUME ~down, ~Rows!Loading
               PROVE  /\ \A r \in Rows!AllReserves : r.name = Rows!Name(r.size)
                      /\ {r.size : r \in Rows!AllReserves} = Rows!Assets
    BY DEF Rows!RowsAreOwn
  <2>1. Rows!AllReserves = {Of(a) : a \in 0 .. NRows}
    BY TablesAre
  <2>2. \A a : Of(a).name = Rows!Name(a) /\ Of(a).size = a
    OBVIOUS
  <2> HIDE DEF Of
  <2> QED
    BY <1>3, <2>1, <2>2
<1>5. Rows!TablesAgree
  <2> SUFFICES ASSUME ~down
               PROVE  /\ {r.name : r \in Rows!AllReserves} = {r.name : r \in Rows!AssetsToSupply}
                      /\ \A r \in Rows!AllReserves, s \in Rows!AssetsToSupply :
                           r.name = s.name => /\ s.collateral <=> r.cf \ {0} # {}
                                              /\ r.borrowed <=> s.asset = Rows!Base
    BY DEF Rows!TablesAgree
  <2>1. CASE Rows!Loading
    <3>1. DOMAIN Rows!Reserves = {}
      BY <2>1 DEF Rows!Loading
    <3>2. Rows!AllReserves = {} /\ Rows!AssetsToSupply = {}
      BY <3>1 DEF Rows!AllReserves, Rows!AssetsToSupply
    <3> QED
      BY <3>2
  <2>2. CASE ~Rows!Loading
    <3>1. Rows!AllReserves = {Of(a) : a \in 0 .. NRows} /\ Rows!AssetsToSupply = {Too(a) : a \in 0 .. NRows}
      BY <2>2, TablesAre
    <3>2. \A a : /\ Of(a).name = Rows!Name(a) /\ Too(a).name = Rows!Name(a) /\ Too(a).asset = a
                 /\ Of(a).borrowed = (a = 0) /\ Of(a).cf = (IF a = 0 THEN {} ELSE {Factors[a]})
                 /\ Too(a).collateral = (a # 0 /\ Factors[a] > 0)
      OBVIOUS
    <3> HIDE DEF Of, Too
    <3>3. {r.name : r \in Rows!AllReserves} = {r.name : r \in Rows!AssetsToSupply}
      BY <3>1, <3>2
    <3>4. ASSUME NEW r \in Rows!AllReserves, NEW s \in Rows!AssetsToSupply, r.name = s.name
          PROVE  /\ s.collateral <=> r.cf \ {0} # {}
                 /\ r.borrowed <=> s.asset = Rows!Base
      <4>1. PICK a \in 0 .. NRows : r = Of(a)
        BY <3>1
      <4>2. PICK b \in 0 .. NRows : s = Too(b)
        BY <3>1
      <4>3. a = b
        BY <1>2, <3>2, <3>4, <4>1, <4>2
      <4>4. s.asset = a /\ r.borrowed = (a = 0) /\ r.cf = (IF a = 0 THEN {} ELSE {Factors[a]})
            /\ s.collateral = (a # 0 /\ Factors[a] > 0)
        BY <3>2, <4>1, <4>2, <4>3
      <4>5. a # 0 => Factors[a] \in Nat
        BY ReserveAssumption
      <4>6. (a # 0 /\ Factors[a] > 0) <=> r.cf \ {0} # {}
        BY <4>4, <4>5
      <4> QED
        BY <4>4, <4>6 DEF Rows!Base
    <3> QED
      BY <3>3, <3>4
  <2> QED
    BY <2>1, <2>2
<1>6. Rows!DownForCause
  <2> SUFFICES ASSUME down PROVE raw # Rows!NoAnswer /\ Len(raw.colls) < NRows
    BY DEF Rows!DownForCause
  <2>1. known = Rows!Whole /\ raw \in Rows!Answers /\ raw # Rows!NoAnswer
        /\ ~(1 .. NRows \subseteq DOMAIN raw.colls)
    BY WholeIsSome DEF ReserveIInv, Rows!Throws
  <2> QED
    BY <2>1, AnswersAre, ReserveAssumption
<1> QED
  BY <1>1, <1>4, <1>5, <1>6 DEF Rows!ReservesAreRight

-----------------------------------------------------------------------------
(* MarketRead, for any histories, collaterals and limits.                     *)

MarketIInv ==
  /\ mode \in Market!Modes /\ txs \in Histories
  /\ pc \in {"infos", "names", "figures", "list", "logs", "probe", "ready", "failed"}
  /\ infos \in Seq(Market!Colls) /\ names \in Seq(Market!Colls)
  /\ Increasing(infos) /\ Increasing(names)
  /\ bare \subseteq Market!Colls /\ blank \subseteq Market!Colls
  /\ got \in Nat /\ got <= MaxTxs /\ logs \subseteq Market!Listed
  /\ heard \subseteq Market!Authors /\ under \subseteq Market!Authors
  /\ slices \in [Market!Slices -> {"asked", "live", "preview"}]
  /\ \A s \in Market!Slices : slices[s] # "asked" =>
       /\ pc \in {"ready", "failed"}
       /\ slices[s] = "live" => pc = "ready"
       /\ s # "openLiquidations" /\ slices[s] = "preview" => pc = "failed"
  /\ Market!Strict /\ pc \in {"logs", "probe", "ready"} => got >= Len(txs) \/ got >= MaxTxs
  /\ pc = "probe" => mode = "liquidatable"
  /\ mode = "activity" /\ pc = "ready" => Market!Listed \subseteq logs

(* What the indexer has are transactions.                                      *)
LEMMA MarketTxs ==
  ASSUME MarketIInv
  PROVE  /\ Len(txs) \in Nat /\ DOMAIN txs = 1 .. Len(txs)
         /\ \A i \in DOMAIN txs : txs[i].at \in Nat
<1> DEFINE T == [by : STRING, lane : STRING, act : STRING, at : Nat]
<1>1. txs \in Seq(T)
  BY MarketAssumption DEF MarketIInv
<1>2. \A t \in T : t.at \in Nat
  OBVIOUS
<1> HIDE DEF T
<1>3. Len(txs) \in Nat /\ DOMAIN txs = 1 .. Len(txs) /\ \A i \in DOMAIN txs : txs[i] \in T
  BY <1>1
<1> QED
  BY <1>2, <1>3

LEMMA MarketInitInv == Market!Init => MarketIInv
<1> SUFFICES ASSUME Market!Init PROVE MarketIInv
  OBVIOUS
<1>1. /\ mode \in Market!Modes /\ txs \in Histories /\ pc \in {"infos", "list"}
      /\ infos = <<>> /\ names = <<>> /\ bare = {} /\ blank = {} /\ got = 0 /\ logs = {}
      /\ heard = {} /\ under = {}
      /\ slices = [s \in Market!Slices |-> "asked"]
  BY DEF Market!Init
<1>2. infos \in Seq(Market!Colls) /\ names \in Seq(Market!Colls) /\ 0 <= MaxTxs
  BY <1>1, MarketAssumption
<1>3. Increasing(<<>>)
  BY DEF Increasing
<1> QED
  BY <1>1, <1>2, <1>3 DEF MarketIInv

LEMMA MarketCardinality == \A S : Market!Cardinality(S) = Cardinality(S)
BY DEF Market!Cardinality, Cardinality

(* A batch's answers are collaterals, in order.                                *)
LEMMA AnsweredIsSeq ==
  ASSUME NEW ok \in SUBSET Market!Colls
  PROVE  Market!Answered(ok) \in Seq(Market!Colls) /\ Increasing(Market!Answered(ok))
<1>1. \E s \in [1 .. Cardinality(ok) -> ok] : Increasing(s)
  BY InOrderExists, MarketAssumption DEF Market!Colls
<1>2. Market!Answered(ok) = CHOOSE s \in [1 .. Cardinality(ok) -> ok] : Increasing(s)
  BY MarketCardinality DEF Market!Answered, Increasing
<1>3. Market!Answered(ok) \in [1 .. Cardinality(ok) -> ok] /\ Increasing(Market!Answered(ok))
  BY <1>1, <1>2
<1>4. Cardinality(ok) \in Nat
  <2>1. IsFiniteSet(Market!Colls)
    BY FS_Interval, MarketAssumption DEF Market!Colls
  <2> QED
    BY <2>1, FS_Subset, FS_CardinalityType
<1> QED
  BY <1>3, <1>4

(* What the market's history gives stays as long as the history does.           *)
LEMMA HistoryStays ==
  ASSUME UNCHANGED <<mode, txs>>
  PROVE  /\ Market!Strict' = Market!Strict /\ Market!Authors' = Market!Authors
         /\ got' = got => Market!Listed' = Market!Listed
BY DEF Market!Strict, Market!Authors, Market!Listed

LEMMA MarketNextInv == MarketIInv /\ (Market!Next \/ UNCHANGED marketVars) => MarketIInv'
<1> SUFFICES ASSUME MarketIInv, Market!Next \/ UNCHANGED marketVars PROVE MarketIInv'
  OBVIOUS
<1>1. ASSUME NEW ok \in SUBSET Market!Colls, Market!ReadInfos(ok) PROVE MarketIInv'
  <2>1. pc = "infos" /\ infos' = Market!Answered(ok) /\ pc' = "names"
        /\ UNCHANGED <<mode, txs, names, bare, blank, got, logs, heard, under, slices>>
    BY <1>1 DEF Market!ReadInfos
  <2> QED
    BY <2>1, AnsweredIsSeq, HistoryStays DEF MarketIInv
<1>2. ASSUME NEW ok \in SUBSET Market!Colls, NEW dec \in SUBSET ok, Market!ReadNames(ok, dec) PROVE MarketIInv'
  <2>1. pc = "names" /\ names' = Market!Answered(ok) /\ bare' = ok \ dec /\ pc' = "figures"
        /\ UNCHANGED <<mode, txs, infos, blank, got, logs, heard, under, slices>>
    BY <1>2 DEF Market!ReadNames
  <2> QED
    BY <2>1, AnsweredIsSeq, HistoryStays DEF MarketIInv
<1>3. ASSUME NEW ok \in SUBSET Market!Colls, Market!ReadFigures(ok) PROVE MarketIInv'
  <2>1. /\ pc = "figures" /\ blank' = {infos[i] : i \in DOMAIN infos} \ ok
        /\ pc' \in {"ready", "list"} /\ (pc' = "ready" => mode = "market")
        /\ UNCHANGED <<mode, txs, infos, names, bare, got, logs, heard, under, slices>>
    BY <1>3 DEF Market!ReadFigures
  <2>2. blank' \subseteq Market!Colls
    BY <2>1 DEF MarketIInv
  <2>3. mode = "market" => ~Market!Strict
    BY DEF Market!Strict
  <2> QED
    BY <2>1, <2>2, <2>3, HistoryStays DEF MarketIInv
<1>4. ASSUME Market!ReadThrows PROVE MarketIInv'
  <2>1. pc \in {"infos", "names"} /\ pc' = "failed"
        /\ UNCHANGED <<mode, txs, infos, names, bare, blank, got, logs, heard, under, slices>>
    BY <1>4 DEF Market!ReadThrows
  <2> QED
    BY <2>1, HistoryStays DEF MarketIInv
<1>5. ASSUME Market!ListPage PROVE MarketIInv'
  <2>1. pc = "list" /\ UNCHANGED <<mode, txs, infos, names, bare, blank, logs, heard, under, slices>>
    BY <1>5 DEF Market!ListPage
  <2>2. CASE got < Len(txs) /\ got < MaxTxs
    <3>1. got' = got + 1 /\ pc' = pc
      BY <1>5, <2>2 DEF Market!ListPage
    <3>2. got' \in Nat /\ got' <= MaxTxs
      BY <2>2, <3>1, MarketAssumption DEF MarketIInv
    <3>3. Market!Listed \subseteq Market!Listed'
      BY <2>1, <3>1, MarketTxs DEF MarketIInv, Market!Listed
    <3> QED
      BY <2>1, <3>1, <3>2, <3>3, HistoryStays DEF MarketIInv
  <2>3. CASE ~(got < Len(txs) /\ got < MaxTxs)
    <3>1. got' = got /\ pc' = (IF mode = "liquidatable" THEN "probe" ELSE "logs")
      BY <1>5, <2>3 DEF Market!ListPage
    <3>2. got >= Len(txs) \/ got >= MaxTxs
      BY <2>3, MarketTxs, MarketAssumption DEF MarketIInv
    <3> QED
      BY <2>1, <3>1, <3>2, HistoryStays DEF MarketIInv
  <2> QED
    BY <2>2, <2>3
<1>6. ASSUME Market!PageFails PROVE MarketIInv'
  <2>1. /\ pc = "list" /\ pc' = (IF Market!Strict THEN "failed" ELSE "logs")
        /\ UNCHANGED <<mode, txs, infos, names, bare, blank, got, logs, heard, under, slices>>
    BY <1>6 DEF Market!PageFails
  <2> QED
    BY <2>1, HistoryStays DEF MarketIInv
<1>7. ASSUME NEW ok \in SUBSET DOMAIN txs, Market!ReadLogs(ok) PROVE MarketIInv'
  <2>1. /\ pc = "logs" /\ logs' = Market!Listed \cap ok
        /\ pc' = (IF Market!Strict /\ ~(Market!Listed \subseteq ok) THEN "failed" ELSE "ready")
        /\ UNCHANGED <<mode, txs, infos, names, bare, blank, got, heard, under, slices>>
    BY <1>7 DEF Market!ReadLogs
  <2>2. mode = "activity" => Market!Strict
    BY DEF Market!Strict
  <2> QED
    BY <2>1, <2>2, HistoryStays DEF MarketIInv
<1>8. ASSUME NEW s \in Market!Slices, Market!Slice(s) PROVE MarketIInv'
  <2>1. /\ pc \in {"ready", "failed"} /\ slices[s] = "asked"
        /\ UNCHANGED <<mode, txs, pc, infos, names, bare, blank, got, logs, heard, under>>
    BY <1>8 DEF Market!Slice
  <2>2. PICK to \in {"live", "preview"} :
          /\ slices' = [slices EXCEPT ![s] = to]
          /\ pc = "failed" => to = "preview"
          /\ s # "openLiquidations" /\ pc = "ready" => to = "live"
    BY <1>8 DEF Market!Slice
  <2>3. slices'[s] = to /\ \A t \in Market!Slices \ {s} : slices'[t] = slices[t]
    BY <2>2 DEF MarketIInv
  <2>4. slices' \in [Market!Slices -> {"asked", "live", "preview"}]
    BY <2>2 DEF MarketIInv
  <2> QED
    BY <2>1, <2>2, <2>3, <2>4, HistoryStays DEF MarketIInv
<1>9. ASSUME NEW ok \in SUBSET Market!Candidates, NEW of \in SUBSET Market!Authors, Market!Probe(ok, of)
      PROVE  MarketIInv'
  <2>1. /\ pc = "probe" /\ heard' = ok /\ under' = of /\ pc' = "ready"
        /\ UNCHANGED <<mode, txs, infos, names, bare, blank, got, logs, slices>>
    BY <1>9 DEF Market!Probe
  <2>2. Market!Candidates \subseteq Market!Authors
    BY DEF Market!Candidates, Market!Authors, Market!Listed
  <2> QED
    BY <2>1, <2>2, HistoryStays DEF MarketIInv
<1>10. ASSUME UNCHANGED marketVars PROVE MarketIInv'
  <2>1. UNCHANGED <<mode, txs, pc, infos, names, bare, blank, got, logs, heard, under, slices>>
    BY <1>10 DEF marketVars
  <2> QED
    BY <2>1, HistoryStays DEF MarketIInv
<1> QED
  BY <1>1, <1>2, <1>3, <1>4, <1>5, <1>6, <1>7, <1>8, <1>9, <1>10 DEF Market!Next

(* The two enumerations are in order, of positive numbers.                     *)
LEMMA Enumerated ==
  ASSUME MarketIInv
  PROVE  /\ Len(infos) \in Nat /\ infos \in [1 .. Len(infos) -> 1 .. NColl]
         /\ Len(names) \in Nat /\ names \in [1 .. Len(names) -> 1 .. NColl]
         /\ DOMAIN infos = 1 .. Len(infos) /\ DOMAIN names = 1 .. Len(names)
         /\ Increasing(infos) /\ Increasing(names)
<1> DEFINE T == 1 .. NColl
<1>1. infos \in Seq(T) /\ names \in Seq(T) /\ Increasing(infos) /\ Increasing(names)
  BY DEF MarketIInv, Market!Colls
<1> HIDE DEF T
<1>2. /\ Len(infos) \in Nat /\ infos \in [1 .. Len(infos) -> T] /\ DOMAIN infos = 1 .. Len(infos)
      /\ Len(names) \in Nat /\ names \in [1 .. Len(names) -> T] /\ DOMAIN names = 1 .. Len(names)
  BY <1>1
<1> QED
  BY <1>1, <1>2 DEF T

(* What neither enumeration lost up to c stands at its own place in both.        *)
LEMMA MarketRowsAreOwn == MarketIInv => Market!RowsAreOwn
<1> SUFFICES ASSUME MarketIInv PROVE Market!RowsAreOwn
  OBVIOUS
<1> DEFINE D == DOMAIN names \cap DOMAIN infos
           Row(i) == [of |-> names[i], factor |-> infos[i],
                      size |-> IF infos[i] \in blank THEN 0 ELSE infos[i] * Market!Unit(names[i])]
<1>1. Market!MarketRows = {Row(i) : i \in D}
  BY DEF Market!MarketRows
<1>2. \A i : /\ Row(i).of = names[i] /\ Row(i).factor = infos[i]
             /\ Row(i).size = IF infos[i] \in blank THEN 0 ELSE infos[i] * Market!Unit(names[i])
  OBVIOUS
<1> HIDE DEF Row
<1>3. /\ D = 1 .. Len(names) \cap 1 .. Len(infos)
      /\ infos \in [1 .. Len(infos) -> Nat \ {0}] /\ names \in [1 .. Len(names) -> Nat \ {0}]
      /\ Len(infos) \in Nat /\ Len(names) \in Nat
      /\ Increasing(infos) /\ Increasing(names)
  BY Enumerated, MarketAssumption
<1>4. ASSUME NEW i \in D, NEW j \in D, names[i] = names[j] \/ infos[i] = infos[j] PROVE i = j
  <2>1. names[i] = names[j] => i = j
    BY <1>3, OncePlaced
  <2>2. infos[i] = infos[j] => i = j
    BY <1>3, OncePlaced
  <2> QED
    BY <1>4, <2>1, <2>2
<1>5. ASSUME NEW c \in 1 .. NColl, \A l \in Market!Lost : c < l
      PROVE  c \in D /\ names[c] = c /\ infos[c] = c
  <2>1. c \in Nat \ {0}
    BY MarketAssumption
  <2>2. 1 .. c \subseteq Market!In(infos) /\ 1 .. c \subseteq Market!In(names)
    <3>1. ASSUME NEW d \in 1 .. c PROVE d \in Market!In(infos) /\ d \in Market!In(names)
      <4>1. d \in Market!Colls /\ ~(c < d)
        BY <2>1, MarketAssumption DEF Market!Colls
      <4> QED
        BY <1>5, <4>1 DEF Market!Lost
    <3> QED
      BY <3>1
  <2>3. c \in Nat
    BY <2>1
  <2>4. \A d \in 1 .. c : d <= Len(infos) /\ infos[d] = d
    <3> DEFINE k == Len(infos)
    <3>1. k \in Nat
      BY <1>3
    <3>2. infos \in [1 .. k -> Nat \ {0}]
      BY <1>3
    <3>3. Increasing(infos)
      BY <1>3
    <3>4. 1 .. c \subseteq {infos[j] : j \in 1 .. k}
      BY <2>2, Enumerated DEF Market!In
    <3> HIDE DEF k
    <3>5. \A d \in 1 .. c : d <= k /\ infos[d] = d
      BY <2>3, <3>1, <3>2, <3>3, <3>4, InPlace
    <3> QED
      BY <3>5 DEF k
  <2>5. \A d \in 1 .. c : d <= Len(names) /\ names[d] = d
    <3> DEFINE k == Len(names)
    <3>1. k \in Nat
      BY <1>3
    <3>2. names \in [1 .. k -> Nat \ {0}]
      BY <1>3
    <3>3. Increasing(names)
      BY <1>3
    <3>4. 1 .. c \subseteq {names[j] : j \in 1 .. k}
      BY <2>2, Enumerated DEF Market!In
    <3> HIDE DEF k
    <3>5. \A d \in 1 .. c : d <= k /\ names[d] = d
      BY <2>3, <3>1, <3>2, <3>3, <3>4, InPlace
    <3> QED
      BY <3>5 DEF k
  <2>6. c \in 1 .. c
    BY <2>1
  <2> QED
    BY <1>3, <2>1, <2>3, <2>4, <2>5, <2>6
<1>6. ASSUME NEW c \in Market!Colls, \A l \in Market!Lost : c < l
      PROVE  /\ \E r \in Market!MarketRows : r.of = c
             /\ \A r \in Market!MarketRows : r.of = c => r.factor = c /\ r.size \in {0, c * Market!Unit(c)}
  <2>1. c \in D /\ names[c] = c /\ infos[c] = c
    BY <1>5, <1>6 DEF Market!Colls
  <2>2. \E r \in Market!MarketRows : r.of = c
    BY <1>1, <1>2, <2>1
  <2>3. ASSUME NEW r \in Market!MarketRows, r.of = c PROVE r.factor = c /\ r.size \in {0, c * Market!Unit(c)}
    <3>1. PICK i \in D : r = Row(i)
      BY <1>1
    <3>2. i = c
      BY <1>2, <1>4, <2>1, <2>3, <3>1
    <3> QED
      BY <1>2, <2>1, <3>1, <3>2
  <2> QED
    BY <2>2, <2>3
<1>7. ASSUME NEW r \in Market!MarketRows, NEW s \in Market!MarketRows, r.of = s.of \/ r.factor = s.factor
      PROVE  r = s
  <2>1. PICK i \in D : r = Row(i)
    BY <1>1
  <2>2. PICK j \in D : s = Row(j)
    BY <1>1
  <2> QED
    BY <1>2, <1>4, <1>7, <2>1, <2>2
<1>8. ASSUME NEW r \in Market!MarketRows, r.size = 0 PROVE r.factor \in blank
  <2>1. PICK i \in D : r = Row(i)
    BY <1>1
  <2>2. infos[i] \in Nat \ {0} /\ Market!Unit(names[i]) \in {1, 10}
    BY <1>3 DEF Market!Unit
  <2>3. infos[i] * Market!Unit(names[i]) # 0
    BY <2>2
  <2> QED
    BY <1>2, <1>8, <2>1, <2>3
<1> QED
  BY <1>6, <1>7, <1>8 DEF Market!RowsAreOwn

LEMMA WholeShare ==
  ASSUME NEW t \in Nat, NEW u \in Nat \ {0} PROVE (t * u) \div u = t
BY SMT

LEMMA Share ==
  ASSUME NEW t \in Nat, NEW u \in Nat, NEW w \in Nat \ {0} PROVE (t * u) \div w \in Int
BY SMT

(* What allocateByRatio gives out is all there is or nothing, and nothing to     *)
(* a lane of no share.                                                       *)
LEMMA AllocateIsWhole ==
  ASSUME NEW e \in Nat, NEW s \in Nat, NEW t \in Nat
  PROVE  LET a == Market!Allocate(t, e, s)
         IN /\ a.evm \in Int /\ a.sol \in Int
            /\ a.evm + a.sol \in {0, t} /\ (e + s = 0 => a.evm = 0 /\ a.sol = 0)
            /\ (a.evm > 0 => e > 0) /\ (a.sol > 0 => s > 0)
<1>1. CASE e + s = 0
  BY <1>1 DEF Market!Allocate
<1>2. CASE e + s # 0 /\ e = 0
  <2>1. Market!Allocate(t, e, s) = [evm |-> 0, sol |-> t]
    BY <1>2 DEF Market!Allocate
  <2> QED
    BY <1>2, <2>1
<1>3. CASE e + s # 0 /\ e # 0
  <2> DEFINE g == (t * e) \div (e + s)
  <2>1. Market!Allocate(t, e, s) = [evm |-> g, sol |-> t - g]
    BY <1>3 DEF Market!Allocate
  <2>2. e + s \in Nat \ {0} /\ (s = 0 => e + s = e)
    BY <1>3
  <2>3. g \in Int
    BY <2>2, Share
  <2>4. s = 0 => g = t
    BY <1>3, <2>2, WholeShare
  <2> HIDE DEF g
  <2>5. g + (t - g) = t /\ t - g \in Int /\ (s = 0 => t - g = 0)
    BY <2>3, <2>4
  <2> QED
    BY <1>3, <2>1, <2>3, <2>4, <2>5
<1> QED
  BY <1>1, <1>2, <1>3

LEMMA MarketOnePicture == MarketIInv => Market!OnePicture
<1> SUFFICES ASSUME MarketIInv PROVE Market!OnePicture
  OBVIOUS
<1> DEFINE G(a, l) == Market!Gross(a, l)
           Of(l) == {i \in logs : txs[i].act = "supply" /\ txs[i].lane = l}
<1>1. IsFiniteSet(logs) /\ logs \subseteq DOMAIN txs
  <2>1. IsFiniteSet(1 .. Len(txs))
    BY FS_Interval, MarketTxs
  <2>2. logs \subseteq DOMAIN txs
    BY DEF MarketIInv, Market!Listed
  <2> QED
    BY <2>1, <2>2, FS_Subset, MarketTxs
<1>2. \A l : IsFiniteSet(Of(l)) /\ G("supply", l) = Cardinality(Of(l))
  <2>1. ASSUME NEW l PROVE IsFiniteSet(Of(l)) /\ G("supply", l) = Cardinality(Of(l))
    <3>1. Of(l) \subseteq logs
      OBVIOUS
    <3> QED
      BY <1>1, <3>1, FS_Subset, MarketCardinality DEF Market!Gross
  <2> QED
    BY <2>1
<1>3. \A l : G("supply", l) \in Nat /\ (G("supply", l) > 0 => \E i \in logs : txs[i].act = "supply")
  <2>1. ASSUME NEW l PROVE G("supply", l) \in Nat /\ (G("supply", l) > 0 => Of(l) # {})
    <3> DEFINE S == Of(l)
    <3>1. IsFiniteSet(S) /\ G("supply", l) = Cardinality(S)
      BY <1>2
    <3> HIDE DEF S, G
    <3>2. Cardinality(S) \in Nat /\ (Cardinality(S) = 0 <=> S = {})
      BY <3>1, FS_CardinalityType, FS_EmptySet
    <3>3. G("supply", l) \in Nat /\ (G("supply", l) > 0 => S # {})
      BY <3>1, <3>2
    <3> QED
      BY <3>3 DEF S
  <2> QED
    BY <2>1
<1>4. LET a == Market!PoolSplit
      IN /\ a.evm \in Int /\ a.sol \in Int
         /\ a.evm + a.sol \in {0, Total}
         /\ (G("supply", "evm") + G("supply", "sol") = 0 => a.evm = 0 /\ a.sol = 0)
         /\ (a.evm > 0 => G("supply", "evm") > 0) /\ (a.sol > 0 => G("supply", "sol") > 0)
  <2> DEFINE e == G("supply", "evm")
             s == G("supply", "sol")
  <2>1. e \in Nat /\ s \in Nat /\ Total \in Nat
    BY <1>3, MarketAssumption
  <2>2. Market!PoolSplit = Market!Allocate(Total, e, s)
    BY DEF Market!PoolSplit
  <2> HIDE DEF e, s
  <2>3. LET a == Market!Allocate(Total, e, s)
        IN /\ a.evm \in Int /\ a.sol \in Int
           /\ a.evm + a.sol \in {0, Total} /\ (e + s = 0 => a.evm = 0 /\ a.sol = 0)
           /\ (a.evm > 0 => e > 0) /\ (a.sol > 0 => s > 0)
    BY <2>1, AllocateIsWhole
  <2> QED
    BY <2>2, <2>3 DEF e, s
<1> HIDE DEF G
<1>5. Market!PoolSplit.evm + Market!PoolSplit.sol > 0 => Market!Suppliers # {}
  <2> SUFFICES ASSUME Market!PoolSplit.evm + Market!PoolSplit.sol > 0 PROVE Market!Suppliers # {}
    OBVIOUS
  <2>1. G("supply", "evm") > 0 \/ G("supply", "sol") > 0
    BY <1>3, <1>4
  <2>2. PICK i \in logs : txs[i].act = "supply"
    BY <1>3, <2>1
  <2>3. i \in Market!Listed
    BY DEF MarketIInv
  <2>4. txs[i].by \in Market!Suppliers
    BY <2>2, <2>3 DEF Market!Suppliers
  <2> QED
    BY <2>4
<1>6. /\ \A s, t \in Market!Slices \ {"openLiquidations"} :
           slices[s] # "asked" /\ slices[t] # "asked" => slices[s] = slices[t]
      /\ slices["openLiquidations"] = "live" => pc = "ready"
  BY DEF MarketIInv, Market!Slices
<1> QED
  BY <1>4, <1>5, <1>6 DEF Market!OnePicture, G

LEMMA MarketStrictIsWhole == MarketIInv => Market!StrictIsWhole
<1> SUFFICES ASSUME MarketIInv, Market!Strict, pc \in {"logs", "probe", "ready"}
             PROVE  /\ \A i \in DOMAIN txs : i <= MaxTxs =>
                         i \in Market!Listed /\ (mode = "activity" /\ pc = "ready" => i \in logs)
                    /\ \A i \in Market!Recent : \A j \in Market!Listed \ Market!Recent :
                         txs[j].act # "other" => txs[j].at < txs[i].at
                    /\ Len(txs) <= MaxTxs => Market!Candidates = Market!Authors
  BY DEF Market!StrictIsWhole
<1>1. got >= Len(txs) \/ got >= MaxTxs
  BY DEF MarketIInv
<1>2. mode = "activity" /\ pc = "ready" => Market!Listed \subseteq logs
  BY DEF MarketIInv
<1>3. \A i \in DOMAIN txs : i <= MaxTxs => i \in Market!Listed
  <2>1. got \in Nat
    BY DEF MarketIInv
  <2>2. \A i \in 1 .. Len(txs) : i <= MaxTxs => i <= got
    BY <1>1, <2>1, MarketTxs, MarketAssumption
  <2> QED
    BY <2>2, MarketTxs DEF Market!Listed
<1>4. Len(txs) <= MaxTxs => Market!Listed = DOMAIN txs
  <2> SUFFICES ASSUME Len(txs) <= MaxTxs PROVE DOMAIN txs \subseteq Market!Listed
    BY DEF Market!Listed
  <2>1. \A i \in 1 .. Len(txs) : i <= MaxTxs
    BY MarketTxs, MarketAssumption
  <2> QED
    BY <1>3, <2>1, MarketTxs
<1>5. ASSUME NEW i \in Market!Recent, NEW j \in Market!Listed \ Market!Recent, txs[j].act # "other"
      PROVE  txs[j].at < txs[i].at
  <2> DEFINE rows == {k \in Market!Listed : txs[k].act # "other"}
             Newer(n) == {k \in rows : txs[k].at > txs[n].at}
  <2>1. i \in rows /\ j \in rows
    BY <1>5 DEF Market!Recent
  <2>2. Cardinality(Newer(i)) < Limit /\ ~(Cardinality(Newer(j)) < Limit)
    BY <1>5, <2>1, MarketCardinality DEF Market!Recent
  <2>3. \A n : IsFiniteSet(Newer(n))
    <3>3. Len(txs) \in Nat
      BY MarketTxs
    <3>1. IsFiniteSet(1 .. Len(txs))
      BY <3>3, FS_Interval
    <3>2. \A n : Newer(n) \subseteq 1 .. Len(txs)
      BY MarketTxs DEF Market!Listed
    <3> HIDE DEF Newer
    <3> QED
      BY <3>1, <3>2, FS_Subset
  <2>4. rows \subseteq DOMAIN txs
    BY DEF Market!Listed
  <2>5. ~(txs[j].at < txs[i].at) => Newer(j) \subseteq Newer(i)
    <3>1. \A k \in rows : txs[k].at \in Nat
      BY <2>4, MarketTxs
    <3> QED
      BY <2>1, <3>1
  <2> HIDE DEF Newer
  <2>6. Newer(j) \subseteq Newer(i) => Cardinality(Newer(j)) <= Cardinality(Newer(i))
    BY <2>3, FS_Subset
  <2>7. Cardinality(Newer(j)) \in Nat /\ Cardinality(Newer(i)) \in Nat
    BY <2>3, FS_CardinalityType
  <2> QED
    BY <2>2, <2>5, <2>6, <2>7, MarketAssumption
<1> QED
  BY <1>2, <1>3, <1>4, <1>5 DEF Market!Candidates, Market!Authors

(* Whoever acted in what was read is a candidate.                              *)
LEMMA MarketListIsTrue == MarketIInv => Market!ListIsTrue
<1> SUFFICES ASSUME MarketIInv, mode = "liquidatable", pc = "ready",
                    NEW u \in under \ Market!OpenLiquidations, u \in heard,
                    NEW i \in DOMAIN txs, txs[i].by = u, ~(i > MaxTxs)
             PROVE  FALSE
  BY DEF Market!ListIsTrue, Market!OpenLiquidations
<1>1. Market!Strict
  BY DEF Market!Strict
<1>2. i \in Market!Listed
  BY <1>1, MarketStrictIsWhole, MarketTxs, MarketAssumption DEF Market!StrictIsWhole
<1>3. u \in Market!Candidates
  BY <1>2 DEF Market!Candidates
<1> QED
  BY <1>3 DEF Market!OpenLiquidations

LEMMA MarketFollows == MarketIInv => Market!MarketTypeOK /\ Market!MarketIsRight
<1>1. MarketIInv => Market!MarketTypeOK
  BY DEF MarketIInv, Market!MarketTypeOK, Market!Listed
<1> QED
  BY <1>1, MarketRowsAreOwn, MarketOnePicture, MarketStrictIsWhole, MarketListIsTrue DEF Market!MarketIsRight

-----------------------------------------------------------------------------
(* RegistryEntry, for any entries and edits.                                  *)

(* The check holds from when it passed to the next edit, through the writes of    *)
(* later builds.                                                            *)
RegistryIInv == Registry!RegistryTypeOK /\ (passed => Registry!InSync)

LEMMA RegistryInitInv == Registry!Init => RegistryIInv
<1> SUFFICES ASSUME Registry!Init PROVE RegistryIInv
  OBVIOUS
<1>1. entryNow \in Entries /\ half = FALSE /\ passed = FALSE /\ edits = 0
  BY DEF Registry!Init
<1>2. \/ ~Registry!Throws(entryNow) /\ gen = Registry!Config(entryNow) /\ rpcs = Registry!SolanaRpc(entryNow)
      \/ gen = {} /\ rpcs = FALSE
  BY DEF Registry!Init
<1>3. gen \in Registry!Configs \cup {{}}
  BY <1>1, <1>2 DEF Registry!Configs
<1>4. rpcs \in BOOLEAN
  BY <1>2 DEF Registry!SolanaRpc
<1>5. 0 \in 0 .. MaxEdits
  BY EntryAssumption
<1> QED
  BY <1>1, <1>3, <1>4, <1>5 DEF RegistryIInv, Registry!RegistryTypeOK

LEMMA RegistryNextInv == RegistryIInv /\ (Registry!Next \/ UNCHANGED registryVars) => RegistryIInv'
<1> SUFFICES ASSUME RegistryIInv, Registry!Next \/ UNCHANGED registryVars PROVE RegistryIInv'
  OBVIOUS
<1> USE DEF RegistryIInv, Registry!RegistryTypeOK
<1>1. ASSUME Registry!Generate PROVE RegistryIInv'
  <2>1. UNCHANGED <<entryNow, rpcs, passed, edits>>
    BY <1>1 DEF Registry!Generate
  <2>2. CASE Registry!Throws(entryNow)
    BY <1>1, <2>1, <2>2 DEF Registry!Generate, Registry!InSync
  <2>3. CASE ~Registry!Throws(entryNow)
    <3>1. gen' = Registry!Config(entryNow) /\ half' = TRUE
      BY <1>1, <2>3 DEF Registry!Generate
    <3>2. gen' \in Registry!Configs
      BY <2>3, <3>1 DEF Registry!Configs
    <3> QED
      BY <2>1, <3>1, <3>2 DEF Registry!InSync
  <2> QED
    BY <2>2, <2>3
<1>2. ASSUME Registry!WriteRpc PROVE RegistryIInv'
  <2>1. half' = FALSE /\ rpcs' = Registry!SolanaRpc(entryNow) /\ UNCHANGED <<entryNow, gen, passed, edits>>
    BY <1>2 DEF Registry!WriteRpc
  <2>2. rpcs' \in BOOLEAN
    BY <2>1 DEF Registry!SolanaRpc
  <2> QED
    BY <2>1, <2>2 DEF Registry!InSync
<1>3. ASSUME Registry!Stop PROVE RegistryIInv'
  BY <1>3 DEF Registry!Stop, Registry!InSync
<1>4. ASSUME Registry!Check PROVE RegistryIInv'
  <2>1. passed' = (~Registry!Throws(entryNow) /\ Registry!InSync) /\ UNCHANGED <<entryNow, gen, rpcs, half, edits>>
    BY <1>4 DEF Registry!Check
  <2>2. passed' \in BOOLEAN /\ (passed' => Registry!InSync)
    BY <2>1
  <2>3. Registry!InSync' = Registry!InSync
    BY <2>1 DEF Registry!InSync
  <2> QED
    BY <2>1, <2>2, <2>3
<1>5. ASSUME NEW e \in Entries, Registry!Edit(e) PROVE RegistryIInv'
  <2>1. edits < MaxEdits /\ entryNow' = e /\ edits' = edits + 1 /\ passed' = FALSE /\ UNCHANGED <<gen, rpcs, half>>
    BY <1>5 DEF Registry!Edit
  <2>2. edits' \in 0 .. MaxEdits
    BY <2>1, EntryAssumption
  <2> QED
    BY <2>1, <2>2
<1>6. ASSUME UNCHANGED registryVars PROVE RegistryIInv'
  BY <1>6 DEF registryVars, Registry!InSync
<1> QED
  BY <1>1, <1>2, <1>3, <1>4, <1>5, <1>6 DEF Registry!Next

(* The only Comet with collateral is the first such of the entry's order.        *)
LEMMA OnlyLenderIsFound ==
  ASSUME NEW e \in Entries, ~Registry!Throws(e), NEW g \in Registry!Config(e), NEW l,
         Registry!Lend(g) = {l},
         "multicollat" \notin DOMAIN g.comets, "collat-pcol" \notin DOMAIN g.comets
  PROVE  Registry!PickCollatComet(g) = <<g.comets[l]>>
<1> DEFINE in == [i \in DOMAIN g.order |-> g.comets[g.order[i]]]
           lent == {i \in DOMAIN in : in[i].colls > 0}
<1>1. /\ g.comets = Registry!ByLabel(e)
      /\ g.order = [i \in DOMAIN e.comets |-> e.comets[i].label]
  BY DEF Registry!Config
<1>2. DOMAIN g.comets = Registry!Labels(e)
  BY <1>1 DEF Registry!ByLabel
<1>3. DOMAIN g.order = DOMAIN e.comets /\ \A i \in DOMAIN e.comets : g.order[i] = e.comets[i].label
  BY <1>1
<1>4. DOMAIN in = DOMAIN e.comets /\ \A i \in DOMAIN e.comets : in[i] = g.comets[e.comets[i].label]
  BY <1>3
<1>5. l \in DOMAIN g.comets /\ g.comets[l].colls > 0
  BY DEF Registry!Lend
<1>6. \A i \in lent : in[i] = g.comets[l]
  <2>1. ASSUME NEW i \in lent PROVE in[i] = g.comets[l]
    <3>1. e.comets[i].label \in DOMAIN g.comets
      BY <1>2, <1>4 DEF Registry!Labels
    <3>2. e.comets[i].label \in Registry!Lend(g)
      BY <1>4, <3>1 DEF Registry!Lend
    <3> QED
      BY <1>4, <3>2
  <2> QED
    BY <2>1
<1>7. lent # {}
  <2>1. PICK i \in DOMAIN e.comets : l = e.comets[i].label
    BY <1>2, <1>5 DEF Registry!Labels
  <2>2. i \in lent
    BY <1>4, <1>5, <2>1
  <2> QED
    BY <2>2
<1>8. lent \in SUBSET Nat
  <2>1. DOMAIN e.comets \subseteq Nat
    <3> DEFINE T == [label : STRING, colls : Nat]
    <3>1. e.comets \in Seq(T)
      BY EntryAssumption
    <3> HIDE DEF T
    <3> QED
      BY <3>1
  <2> QED
    BY <1>4, <2>1
<1>9. Registry!PickCollatComet(g) = Registry!Find(in, LAMBDA c : c.colls > 0)
  BY DEF Registry!PickCollatComet
<1>10. Registry!Find(in, LAMBDA c : c.colls > 0)
         = IF lent = {} THEN <<>> ELSE <<in[CHOOSE i \in lent : \A j \in lent : i <= j]>>
  BY DEF Registry!Find
<1> HIDE DEF lent, in
<1>11. (CHOOSE i \in lent : \A j \in lent : i <= j) \in lent
  <2>1. \E i \in lent : \A j \in lent : i <= j
    BY <1>7, <1>8, LeastNatural
  <2> QED
    BY <2>1
<1> QED
  BY <1>6, <1>7, <1>9, <1>10, <1>11

LEMMA RegistryFollows == RegistryIInv => Registry!RegistryTypeOK /\ Registry!RegistryIsRight
<1> SUFFICES ASSUME RegistryIInv PROVE Registry!RegistryTypeOK /\ Registry!RegistryIsRight
  OBVIOUS
<1>1. Registry!RegistryTypeOK /\ Registry!CheckedIsServed
  BY DEF RegistryIInv, Registry!CheckedIsServed, Registry!InSync
<1>2. ASSUME NEW g \in gen, Registry!SolanaComet(g) # Registry!CollateralComet(g)
      PROVE  (DOMAIN g.comets \cap {"multicollat", "collat-pcol"}) \ {g.primary} # {}
  BY <1>2 DEF Registry!SolanaComet, Registry!CollateralComet
<1>3. ASSUME NEW g \in gen, NEW l \in Registry!Lend(g),
             g.leverage, Registry!Lend(g) = {l}, Registry!CollateralComet(g) = g.comets[l]
      PROVE  Registry!LeverageOpen(g) /\ Registry!PickCollatComet(g) = <<Registry!CollateralComet(g)>>
  <2>1. PICK e \in Entries : ~Registry!Throws(e) /\ gen = Registry!Config(e)
    BY <1>3 DEF RegistryIInv, Registry!RegistryTypeOK, Registry!Configs
  <2>2. g.comets[l].colls > 0
    BY DEF Registry!Lend
  <2>3. CASE "multicollat" \in DOMAIN g.comets
    <3>1. Registry!CollateralComet(g) = g.comets["multicollat"] /\ g.comets["multicollat"].colls > 0
      BY <1>3, <2>2, <2>3 DEF Registry!CollateralComet
    <3>2. Registry!PickCollatComet(g) = <<g.comets["multicollat"]>>
      BY <2>3, <3>1 DEF Registry!PickCollatComet
    <3> QED
      BY <1>3, <3>1, <3>2 DEF Registry!LeverageOpen
  <2>4. CASE "multicollat" \notin DOMAIN g.comets /\ "collat-pcol" \in DOMAIN g.comets
    <3>1. Registry!CollateralComet(g) = g.comets["collat-pcol"]
      BY <2>4 DEF Registry!CollateralComet
    <3>2. Registry!PickCollatComet(g) = <<g.comets["collat-pcol"]>>
      BY <2>4 DEF Registry!PickCollatComet
    <3> QED
      BY <1>3, <3>1, <3>2 DEF Registry!LeverageOpen
  <2>5. CASE "multicollat" \notin DOMAIN g.comets /\ "collat-pcol" \notin DOMAIN g.comets
    <3>1. Registry!PickCollatComet(g) = <<g.comets[l]>>
      BY <1>3, <2>1, <2>5, OnlyLenderIsFound
    <3> QED
      BY <1>3, <3>1 DEF Registry!LeverageOpen
  <2> QED
    BY <2>3, <2>4, <2>5
<1>4. Registry!PartsAgree
  BY <1>2, <1>3 DEF Registry!PartsAgree
<1> QED
  BY <1>1, <1>4 DEF Registry!RegistryIsRight

-----------------------------------------------------------------------------
(* ChainBoot, for any registries, pins and environments.                      *)

TierNames == {"self", "indexed", "public"}

(* What is left to ask is the rest of the tiers T, in their order; what was      *)
(* asked is how they begin.                                                  *)
RequestOK(q, T) ==
  /\ q \in [left : Seq(TierNames), tried : Seq(TierNames), scan : BOOLEAN, by : TierNames \cup {"none"}]
  /\ Len(q.tried) <= Len(T)
  /\ \A i \in 1 .. Len(q.tried) : q.tried[i] = T[i]
  /\ q.by # "none" => q.left = <<>>
  /\ q.left # <<>> => Len(q.tried) + Len(q.left) = Len(T)
  /\ \A i \in 1 .. Len(q.left) : q.left[i] = T[Len(q.tried) + i]
  /\ q.left = <<>> /\ q.by = "none" /\ q # Boot!NoReq => Len(q.tried) = Len(T)

ReqOK == RequestOK(req, Boot!Tiers(req.scan))

(* The bundle is made of the registry that was found, if it could be.            *)
FilesOK ==
  /\ files \in Registries \cup {{}} /\ (server = "source" => files = {})
  /\ files # {} /\ ~Boot!Duplicate(files) =>
       bundle = {[chain |-> e.chain, network |-> e.network] : e \in Boot!Surfaced(files)}

(* The bundled ones of the chains that something names.                        *)
InPlay == {Boot!ApiEnv, Boot!BrowserDefault, Boot!ServerDefault} \cap Boot!Known

(* Where the provider is, once /api/env has answered.                          *)
BootSnapOK ==
  /\ snap \in [state : {"none", "waiting", "ready", "failed"}, chain : Nat \cup {Boot!NoChain}]
  /\ snap.chain # Boot!NoChain => snap.state = "ready"
  /\ snap.state # "none" => server = "serving" /\ wagmi \in InPlay
  /\ snap.state = "ready" =>
       /\ snap.chain = Boot!ApiEnv
       /\ wagmi = IF Boot!ApiEnv \in Boot!Known THEN Boot!ApiEnv ELSE Boot!BrowserDefault

(* What a read was of: nothing of that changes while the server runs.           *)
BootReadOK ==
  /\ read.by \in {"none", "evm", "sol", "market", "landing"}
  /\ read.by \in {"evm", "sol"} =>
       /\ server = "serving" /\ read.of = Boot!ApiEnv /\ Boot!ApiEnv \in Boot!Known
       /\ read.from = Boot!Upstream
  /\ read.by \notin {"evm", "sol"} => read.from = read.of
  /\ read.by # "none" => server = "serving" /\ read.of \in InPlay

BootIInv ==
  /\ server \in {"source", "built", "serving", "refused"}
  /\ bundle \subseteq [chain : Nat \ {0}, network : STRING] /\ pin \in Pins /\ env \in Envs
  /\ wagmi \in Nat \cup {Boot!NoChain}
  /\ server = "serving" =>
       bundle # {} /\ {Boot!BrowserDefault, Boot!ServerDefault} \subseteq Boot!Known
  /\ FilesOK /\ BootSnapOK /\ BootReadOK /\ ReqOK

LEMMA PairOf == ASSUME NEW a, NEW b PROVE <<a>> \o <<b>> = <<a, b>>
<1> DEFINE S == {a, b}
           s == <<a>> \o <<b>>
           t == <<a, b>>
<1>1. <<a>> \in Seq(S) /\ Len(<<a>>) = 1 /\ <<a>>[1] = a
  OBVIOUS
<1>2. <<b>> \in Seq(S) /\ Len(<<b>>) = 1 /\ <<b>>[1] = b
  OBVIOUS
<1>3. t \in Seq(S) /\ Len(t) = 2 /\ t[1] = a /\ t[2] = b
  OBVIOUS
<1>4. s \in Seq(S) /\ Len(s) = 2 /\ s[1] = a /\ s[2] = b
  BY <1>1, <1>2, ConcatProperties
<1> HIDE DEF s, t, S
<1>5. s = t
  BY <1>3, <1>4, SeqEqual
<1> QED
  BY <1>5 DEF s, t
LEMMA TripleOf == ASSUME NEW a, NEW b, NEW c PROVE <<a, b>> \o <<c>> = <<a, b, c>>
<1> DEFINE S == {a, b, c}
           s == <<a, b>> \o <<c>>
           t == <<a, b, c>>
<1>1. <<a, b>> \in Seq(S) /\ Len(<<a, b>>) = 2 /\ <<a, b>>[1] = a /\ <<a, b>>[2] = b
  OBVIOUS
<1>2. <<c>> \in Seq(S) /\ Len(<<c>>) = 1 /\ <<c>>[1] = c
  OBVIOUS
<1>3. t \in Seq(S) /\ Len(t) = 3 /\ t[1] = a /\ t[2] = b /\ t[3] = c
  OBVIOUS
<1>4. s \in Seq(S) /\ Len(s) = 3 /\ s[1] = a /\ s[2] = b /\ s[3] = c
  BY <1>1, <1>2, ConcatProperties
<1> HIDE DEF s, t, S
<1>5. s = t
  BY <1>3, <1>4, SeqEqual
<1> QED
  BY <1>5 DEF s, t

(* The tiers, one by one.                                                    *)
LEMMA TiersAre ==
  ASSUME NEW scan \in BOOLEAN
  PROVE  LET T == Boot!Tiers(scan)
         IN /\ T \in Seq(TierNames)
            /\ \A i, j \in 1 .. Len(T) : T[i] = T[j] => i = j
            /\ scan => \A i \in 1 .. Len(T) : T[i] # "self"
            /\ T # <<>>
<1> DEFINE T == Boot!Tiers(scan)
           ix == IF env.indexed THEN <<"indexed">> ELSE <<>>
<1>1. T \in {<<"indexed", "public">>, <<"public">>, <<"self", "indexed", "public">>,
             <<"self", "public">>, <<"public", "indexed">>}
      /\ (scan => T \in {<<"indexed", "public">>, <<"public">>})
  <2>1. ix = <<"indexed">> \/ ix = <<>>
    OBVIOUS
  <2>2. T = IF scan THEN ix \o <<"public">>
            ELSE IF env.solana THEN (<<"self">> \o ix) \o <<"public">> ELSE <<"public">> \o ix
    BY DEF Boot!Tiers
  <2> HIDE DEF T, ix
  <2>3. /\ <<"indexed">> \o <<"public">> = <<"indexed", "public">> /\ <<>> \o <<"public">> = <<"public">>
        /\ <<"public">> \o <<"indexed">> = <<"public", "indexed">> /\ <<"public">> \o <<>> = <<"public">>
    BY PairOf, ConcatEmptySeq
  <2>4. /\ <<"self">> \o <<"indexed">> = <<"self", "indexed">> /\ <<"self">> \o <<>> = <<"self">>
        /\ <<"self", "indexed">> \o <<"public">> = <<"self", "indexed", "public">>
        /\ <<"self">> \o <<"public">> = <<"self", "public">>
    BY PairOf, TripleOf, ConcatEmptySeq
  <2>5. CASE scan
    BY <2>1, <2>2, <2>3, <2>5
  <2>6. CASE ~scan /\ env.solana
    BY <2>1, <2>2, <2>4, <2>6
  <2>7. CASE ~scan /\ ~env.solana
    BY <2>1, <2>2, <2>3, <2>7
  <2> QED
    BY <2>5, <2>6, <2>7
<1> HIDE DEF T
<1>2. /\ T \in Seq(TierNames)
      /\ \A i, j \in 1 .. Len(T) : T[i] = T[j] => i = j
      /\ scan => \A i \in 1 .. Len(T) : T[i] # "self"
      /\ T # <<>>
  <2>1. CASE T = <<"indexed", "public">>
    BY <2>1 DEF TierNames
  <2>2. CASE T = <<"public">>
    BY <2>2 DEF TierNames
  <2>3. CASE T = <<"self", "indexed", "public">>
    BY <1>1, <2>3 DEF TierNames
  <2>4. CASE T = <<"self", "public">>
    BY <1>1, <2>4 DEF TierNames
  <2>5. CASE T = <<"public", "indexed">>
    BY <2>5 DEF TierNames
  <2> QED
    BY <1>1, <2>1, <2>2, <2>3, <2>4, <2>5
<1> QED
  BY <1>2 DEF T

(* Before any request.                                                       *)
LEMMA NoReqOK ==
  ASSUME NEW T \in Seq(TierNames) PROVE RequestOK(Boot!NoReq, T)
<1>1. Boot!NoReq = [left |-> <<>>, tried |-> <<>>, scan |-> FALSE, by |-> "none"]
  BY DEF Boot!NoReq
<1>2. <<>> \in Seq(TierNames) /\ Len(<<>>) = 0 /\ Len(T) \in Nat
  OBVIOUS
<1>3. /\ Boot!NoReq.left = <<>> /\ Boot!NoReq.tried = <<>> /\ Boot!NoReq.by = "none"
      /\ Boot!NoReq \in [left : Seq(TierNames), tried : Seq(TierNames), scan : BOOLEAN, by : TierNames \cup {"none"}]
  BY <1>1, <1>2
<1>4. 0 <= Len(T) /\ \A i \in 1 .. 0 : FALSE
  BY <1>2
<1> QED
  BY <1>2, <1>3, <1>4 DEF RequestOK

(* What /api/env says is a chain id, or nothing.                              *)
LEMMA ApiEnvIsChain ==
  ASSUME pin \in Pins, env \in Envs
  PROVE  Boot!ApiEnv \in Nat \cup {Boot!NoChain}
<1> DEFINE named == Boot!First(pin, Boot!First(env.pub, env.rt))
<1>1. named \in Nat \cup {-1, -2, -3}
  BY BootAssumption DEF Boot!First
<1>2. Boot!ApiEnv = CASE named = Boot!Blank -> 0 [] named \in {Boot!Unset, Boot!Junk} -> Boot!NoChain [] OTHER -> named
  BY DEF Boot!ApiEnv
<1> HIDE DEF named
<1>3. CASE named = Boot!Blank
  BY <1>2, <1>3
<1>4. CASE named \in {Boot!Unset, Boot!Junk}
  BY <1>2, <1>4 DEF Boot!Blank, Boot!Unset, Boot!Junk
<1>5. CASE named # Boot!Blank /\ named \notin {Boot!Unset, Boot!Junk}
  BY <1>1, <1>2, <1>5 DEF Boot!Blank, Boot!Unset, Boot!Junk
<1> QED
  BY <1>3, <1>4, <1>5

LEMMA BootInitInv == Boot!Init => BootIInv
<1> SUFFICES ASSUME Boot!Init PROVE BootIInv
  OBVIOUS
<1>1. /\ server = "source" /\ files = {} /\ bundle = Committed /\ pin \in Pins /\ env \in Envs
      /\ snap = [state |-> "none", chain |-> Boot!NoChain] /\ wagmi = Boot!NoChain
      /\ read = Boot!NoRead /\ req = Boot!NoReq
  BY DEF Boot!Init
<1>2. FilesOK /\ BootSnapOK /\ BootReadOK
  BY <1>1 DEF FilesOK, BootSnapOK, BootReadOK, Boot!NoRead
<1>3. ReqOK
  <2>1. Boot!Tiers(FALSE) \in Seq(TierNames) /\ req.scan = FALSE
    BY <1>1, TiersAre DEF Boot!NoReq
  <2> QED
    BY <1>1, <2>1, NoReqOK DEF ReqOK
<1> QED
  BY <1>1, <1>2, <1>3, BootAssumption DEF BootIInv

-----------------------------------------------------------------------------
(* Its steps.                                                              *)

(* What depends on the constants of a deployment stays while they do.            *)
LEMMA DeploymentStays ==
  ASSUME UNCHANGED <<bundle, pin, env>>
  PROVE  /\ Boot!Known' = Boot!Known /\ Boot!ApiEnv' = Boot!ApiEnv /\ Boot!Upstream' = Boot!Upstream
         /\ Boot!BrowserDefault' = Boot!BrowserDefault /\ Boot!ServerDefault' = Boot!ServerDefault
         /\ InPlay' = InPlay /\ \A scan : Boot!Tiers(scan)' = Boot!Tiers(scan)
<1>1. Boot!SafetyNet' = Boot!SafetyNet /\ Boot!Known' = Boot!Known
  BY DEF Boot!SafetyNet, Boot!Known
<1>2. Boot!ApiEnv' = Boot!ApiEnv
  BY DEF Boot!ApiEnv
<1>3. \A v : Boot!Default(v)' = Boot!Default(v)
  BY <1>1 DEF Boot!Default
<1>4. Boot!BrowserDefault' = Boot!BrowserDefault /\ Boot!ServerDefault' = Boot!ServerDefault
  BY <1>1 DEF Boot!BrowserDefault, Boot!ServerDefault, Boot!Default
<1>5. Boot!Upstream' = Boot!Upstream
  BY <1>4 DEF Boot!Upstream
<1>6. \A scan : Boot!Tiers(scan)' = Boot!Tiers(scan)
  BY DEF Boot!Tiers
<1>7. InPlay' = InPlay
  BY <1>1, <1>2, <1>4 DEF InPlay
<1> QED
  BY <1>1, <1>2, <1>4, <1>5, <1>6, <1>7

LEMMA FilesStay ==
  ASSUME FilesOK, UNCHANGED <<server, files, bundle>> PROVE FilesOK'
BY DEF FilesOK, Boot!Duplicate, Boot!Surfaced

LEMMA ReqStays ==
  ASSUME ReqOK, UNCHANGED <<env, req>> PROVE ReqOK'
BY DEF ReqOK, Boot!Tiers

(* The build and the start: nothing is open and nothing was read yet.            *)
LEMMA BootUp ==
  ASSUME BootIInv, Boot!BuildAlone \/ (\E entries \in Registries : Boot!Build(entries)) \/ Boot!Start
  PROVE  BootIInv'
<1>1. server \in {"source", "built"} /\ UNCHANGED <<pin, env, snap, wagmi, read, req>>
  BY DEF Boot!BuildAlone, Boot!Build, Boot!Start
<1>2. snap.state = "none" /\ read.by = "none"
  BY <1>1 DEF BootIInv, BootSnapOK, BootReadOK
<1>3. BootSnapOK' /\ BootReadOK'
  BY <1>1, <1>2 DEF BootIInv, BootSnapOK, BootReadOK
<1>4. ReqOK'
  BY <1>1, ReqStays DEF BootIInv
<1>5. /\ bundle' \subseteq [chain : Nat \ {0}, network : STRING]
      /\ server' \in {"source", "built", "serving", "refused"}
      /\ server' = "serving" =>
           bundle' # {} /\ {Boot!BrowserDefault', Boot!ServerDefault'} \subseteq Boot!Known'
      /\ FilesOK'
  <2>1. CASE Boot!BuildAlone
    <3>1. server = "source" /\ server' = "built" /\ UNCHANGED <<files, bundle>>
      BY <2>1 DEF Boot!BuildAlone
    <3> QED
      BY <3>1 DEF BootIInv, FilesOK
  <2>2. ASSUME NEW entries \in Registries, Boot!Build(entries)
        PROVE  server' = "built" /\ bundle' \subseteq [chain : Nat \ {0}, network : STRING] /\ FilesOK'
    <3>1. server' = "built" /\ files' = entries
          /\ bundle' = IF Boot!Duplicate(entries) THEN bundle
                       ELSE {[chain |-> e.chain, network |-> e.network] : e \in Boot!Surfaced(entries)}
      BY <2>2 DEF Boot!Build
    <3>2. \A e \in Boot!Surfaced(entries) : e.chain \in Nat \ {0} /\ e.network \in STRING
      BY BootAssumption DEF Boot!Surfaced
    <3>3. Boot!Duplicate(files)' = Boot!Duplicate(entries) /\ Boot!Surfaced(files)' = Boot!Surfaced(entries)
      BY <3>1 DEF Boot!Duplicate, Boot!Surfaced
    <3>4. FilesOK'
      BY <3>1, <3>3 DEF FilesOK
    <3> QED
      BY <3>1, <3>2, <3>4 DEF BootIInv
  <2>3. CASE Boot!Start
    <3>1. UNCHANGED <<files, bundle, pin, env>> /\ server = "built"
          /\ server' = IF Boot!EnvIsValid /\ bundle # {} /\ {Boot!BrowserDefault, Boot!ServerDefault} \subseteq Boot!Known
                       THEN "serving" ELSE "refused"
      BY <2>3 DEF Boot!Start
    <3>2. FilesOK'
      BY <3>1 DEF BootIInv, FilesOK, Boot!Duplicate, Boot!Surfaced
    <3> QED
      BY <3>1, <3>2, DeploymentStays DEF BootIInv
  <2> QED
    BY <2>1, <2>2, <2>3
<1> QED
  BY <1>1, <1>3, <1>4, <1>5 DEF BootIInv

(* The page: what it is told is what is noted.                                *)
LEMMA BootPage ==
  ASSUME BootIInv, Boot!Open \/ Boot!EnvReady \/ Boot!EnvFailed \/ Boot!Close
  PROVE  BootIInv'
<1>1. UNCHANGED <<server, files, bundle, pin, env, read>>
  BY DEF Boot!Open, Boot!EnvReady, Boot!EnvFailed, Boot!Close, Boot!Still
<1>2. /\ Boot!Known' = Boot!Known /\ Boot!ApiEnv' = Boot!ApiEnv /\ Boot!Upstream' = Boot!Upstream
      /\ Boot!BrowserDefault' = Boot!BrowserDefault /\ Boot!ServerDefault' = Boot!ServerDefault
      /\ InPlay' = InPlay /\ (FilesOK => FilesOK')
  BY <1>1, DeploymentStays, FilesStay
<1>3. BootReadOK'
  BY <1>1, <1>2 DEF BootIInv, BootReadOK
<1>4. server = "serving" => Boot!BrowserDefault \in Nat /\ Boot!BrowserDefault \in InPlay
  BY DEF BootIInv, Boot!Known, InPlay
<1>5. BootSnapOK' /\ wagmi' \in Nat \cup {Boot!NoChain}
  <2>1. CASE Boot!Open
    <3>1. server = "serving" /\ snap' = [state |-> "waiting", chain |-> Boot!NoChain] /\ wagmi' = Boot!BrowserDefault
      BY <2>1 DEF Boot!Open
    <3> QED
      BY <1>1, <1>2, <1>4, <3>1 DEF BootSnapOK
  <2>2. CASE Boot!EnvReady
    <3>1. /\ snap.state = "waiting" /\ snap' = [state |-> "ready", chain |-> Boot!ApiEnv]
          /\ wagmi' = IF Boot!ApiEnv \in Boot!Known THEN Boot!ApiEnv ELSE Boot!BrowserDefault
      BY <2>2 DEF Boot!EnvReady
    <3>2. server = "serving" /\ Boot!ApiEnv \in Nat \cup {Boot!NoChain}
      BY <3>1, ApiEnvIsChain DEF BootIInv, BootSnapOK
    <3>3. Boot!ApiEnv \in Boot!Known => Boot!ApiEnv \in Nat /\ Boot!ApiEnv \in InPlay
      BY DEF BootIInv, Boot!Known, InPlay
    <3> QED
      BY <1>1, <1>2, <1>4, <3>1, <3>2, <3>3 DEF BootSnapOK
  <2>3. CASE Boot!EnvFailed
    <3>1. /\ snap.state = "waiting" /\ snap' = [state |-> "failed", chain |-> Boot!NoChain] /\ wagmi' = wagmi
      BY <2>3 DEF Boot!EnvFailed
    <3> QED
      BY <1>1, <1>2, <3>1 DEF BootIInv, BootSnapOK
  <2>4. CASE Boot!Close
    <3>1. snap' = [state |-> "none", chain |-> Boot!NoChain] /\ wagmi' = Boot!NoChain
      BY <2>4 DEF Boot!Close
    <3> QED
      BY <3>1 DEF BootSnapOK
  <2> QED
    BY <2>1, <2>2, <2>3, <2>4
<1>6. ReqOK'
  <2>1. CASE req' = req
    BY <1>1, <2>1, ReqStays DEF BootIInv
  <2>2. CASE req' = Boot!NoReq
    <3>1. req'.scan = FALSE
      BY <2>2 DEF Boot!NoReq
    <3>2. Boot!Tiers(FALSE)' \in Seq(TierNames)
      BY TiersAre, <1>1, DeploymentStays
    <3>3. RequestOK(req', Boot!Tiers(FALSE)')
      BY <2>2, <3>2, NoReqOK
    <3> QED
      BY <3>1, <3>3 DEF ReqOK
  <2> QED
    BY <2>1, <2>2 DEF Boot!Open, Boot!EnvReady, Boot!EnvFailed, Boot!Close
<1> QED
  BY <1>1, <1>2, <1>3, <1>5, <1>6 DEF BootIInv

(* The reads: each of the chain it says.                                      *)
LEMMA BootReads ==
  ASSUME BootIInv, Boot!ReadEvm \/ Boot!ReadSolana \/ Boot!ReadMarket \/ Boot!ReadLanding
  PROVE  BootIInv'
<1>1. UNCHANGED <<server, files, bundle, pin, env, snap, wagmi, req>>
  BY DEF Boot!ReadEvm, Boot!ReadSolana, Boot!ReadMarket, Boot!ReadLanding, Boot!Proxied, Boot!Note, Boot!Still
<1>2. /\ Boot!Known' = Boot!Known /\ Boot!ApiEnv' = Boot!ApiEnv /\ Boot!Upstream' = Boot!Upstream
      /\ Boot!BrowserDefault' = Boot!BrowserDefault /\ Boot!ServerDefault' = Boot!ServerDefault
      /\ InPlay' = InPlay /\ (FilesOK => FilesOK')
  BY <1>1, DeploymentStays, FilesStay
<1>3. BootReadOK'
  <2>1. CASE Boot!ReadEvm \/ Boot!ReadSolana
    <3>1. PICK by \in {"evm", "sol"} : read' = [by |-> by, of |-> Boot!Shown, from |-> Boot!Upstream]
      BY <2>1 DEF Boot!ReadEvm, Boot!ReadSolana, Boot!Proxied, Boot!Note
    <3>2. snap.state # "none" /\ Boot!GateOpen /\ snap.chain # Boot!NoChain
      BY <2>1 DEF Boot!ReadEvm, Boot!ReadSolana, Boot!Viewing, Boot!ChainResolved
    <3>3. snap.state = "ready" /\ snap.chain = Boot!ApiEnv /\ server = "serving"
      BY <3>2 DEF BootIInv, BootSnapOK
    <3>4. Boot!Shown = Boot!ApiEnv /\ Boot!ApiEnv \in Boot!Known
      BY <3>2, <3>3 DEF Boot!Shown, Boot!GateOpen
    <3>5. Boot!ApiEnv \in InPlay
      BY <3>4 DEF InPlay
    <3> QED
      BY <1>1, <1>2, <3>1, <3>3, <3>4, <3>5 DEF BootReadOK
  <2>2. CASE Boot!ReadMarket \/ Boot!ReadLanding
    <3>1. \E by \in {"market", "landing"} : \E of \in InPlay :
            server = "serving" /\ read' = [by |-> by, of |-> of, from |-> of]
      <4>1. CASE Boot!ReadMarket
        <5>1. server = "serving" /\ Boot!Shown \in Boot!Known
              /\ read' = [by |-> "market", of |-> Boot!Shown, from |-> Boot!Shown]
          BY <4>1 DEF Boot!ReadMarket, Boot!Note, Boot!Viewing, BootIInv, BootSnapOK
        <5>2. Boot!Shown \in InPlay
          BY <5>1 DEF Boot!Shown, InPlay, BootIInv, BootSnapOK
        <5> QED
          BY <5>1, <5>2
      <4>2. CASE Boot!ReadLanding
        <5>1. server = "serving" /\ read' = [by |-> "landing", of |-> Boot!ServerDefault, from |-> Boot!ServerDefault]
          BY <4>2 DEF Boot!ReadLanding, Boot!Note
        <5>2. Boot!ServerDefault \in InPlay
          BY <5>1 DEF BootIInv, InPlay
        <5> QED
          BY <5>1, <5>2
      <4> QED
        BY <2>2, <4>1, <4>2
    <3> QED
      BY <1>1, <1>2, <3>1 DEF BootReadOK
  <2> QED
    BY <2>1, <2>2
<1>4. BootSnapOK'
  BY <1>1, <1>2 DEF BootIInv, BootSnapOK
<1>5. ReqOK'
  BY <1>1, ReqStays DEF BootIInv
<1> QED
  BY <1>1, <1>2, <1>3, <1>4, <1>5 DEF BootIInv

(* Of what is left, the first has been asked.                                  *)
LEMMA NextTier ==
  ASSUME NEW T \in Seq(TierNames), NEW q, RequestOK(q, T), q.left # <<>>, NEW r,
         r \in [left : Seq(TierNames), tried : Seq(TierNames), scan : BOOLEAN, by : TierNames \cup {"none"}],
         r.tried = Append(q.tried, Head(q.left)),
         \/ r.left = Tail(q.left) /\ r.by = "none"
         \/ r.left = <<>> /\ r.by # "none"
  PROVE  RequestOK(r, T)
<1> DEFINE n == Len(q.tried)
           m == Len(q.left)
<1>1. q.left \in Seq(TierNames) /\ q.tried \in Seq(TierNames)
  BY DEF RequestOK
<1>2. /\ n \in Nat /\ m \in Nat \ {0} /\ n + m = Len(T)
      /\ (\A i \in 1 .. n : q.tried[i] = T[i]) /\ (\A i \in 1 .. m : q.left[i] = T[n + i])
  BY <1>1 DEF RequestOK
<1>3. Len(r.tried) = n + 1 /\ (\A i \in 1 .. n : r.tried[i] = q.tried[i]) /\ r.tried[n + 1] = q.left[1]
  BY <1>1, <1>2
<1>4. Len(Tail(q.left)) = m - 1 /\ \A i \in 1 .. (m - 1) : Tail(q.left)[i] = q.left[i + 1]
  BY <1>1, <1>2
<1>5. Len(<<>>) = 0
  OBVIOUS
<1>6. r # Boot!NoReq
  <2>1. Boot!NoReq.tried = <<>> /\ r.tried # <<>>
    BY <1>2, <1>3, <1>5 DEF Boot!NoReq
  <2> QED
    BY <2>1
<1> HIDE DEF n, m
<1>7. \A i \in 1 .. (n + 1) : r.tried[i] = T[i]
  <2>1. q.left[1] = T[n + 1]
    BY <1>2
  <2>2. \A i \in 1 .. (n + 1) : i \in 1 .. n \/ i = n + 1
    BY <1>2
  <2> QED
    BY <1>2, <1>3, <2>1, <2>2
<1>8. n + 1 <= Len(T)
  BY <1>2
<1>9. /\ (n + 1) + (m - 1) = Len(T)
      /\ \A i \in 1 .. (m - 1) : Tail(q.left)[i] = T[(n + 1) + i]
  <2>1. ASSUME NEW i \in 1 .. (m - 1) PROVE Tail(q.left)[i] = T[(n + 1) + i]
    <3>1. i + 1 \in 1 .. m /\ n + (i + 1) = (n + 1) + i
      BY <1>2
    <3>2. Tail(q.left)[i] = q.left[i + 1]
      BY <1>4
    <3>3. q.left[i + 1] = T[n + (i + 1)]
      BY <1>2, <3>1
    <3> QED
      BY <3>1, <3>2, <3>3
  <2>2. (n + 1) + (m - 1) = n + m
    BY <1>2
  <2> QED
    BY <1>2, <2>1, <2>2
<1>10. CASE r.left = Tail(q.left) /\ r.by = "none"
  <2>1. r.left = <<>> => n + 1 = Len(T)
    <3>1. r.left = <<>> => m - 1 = 0
      BY <1>4, <1>5, <1>10
    <3> QED
      BY <1>2, <3>1
  <2> QED
    BY <1>3, <1>4, <1>7, <1>8, <1>9, <1>10, <2>1 DEF RequestOK
<1>11. CASE r.left = <<>> /\ r.by # "none"
  <2>1. \A i \in 1 .. 0 : FALSE
    OBVIOUS
  <2> QED
    BY <1>3, <1>5, <1>7, <1>8, <1>11, <2>1 DEF RequestOK
<1> QED
  BY <1>10, <1>11

(* A request to the Solana proxy.                                             *)
LEMMA BootRequest ==
  ASSUME BootIInv, (\E scan \in BOOLEAN : Boot!Request(scan)) \/ Boot!TierFails \/ Boot!TierAnswers
  PROVE  BootIInv'
<1>1. UNCHANGED <<server, files, bundle, pin, env, snap, wagmi, read>>
  BY DEF Boot!Request, Boot!TierFails, Boot!TierAnswers, Boot!Still
<1>2. /\ Boot!Known' = Boot!Known /\ Boot!ApiEnv' = Boot!ApiEnv /\ Boot!Upstream' = Boot!Upstream
      /\ Boot!BrowserDefault' = Boot!BrowserDefault /\ Boot!ServerDefault' = Boot!ServerDefault
      /\ InPlay' = InPlay /\ (FilesOK => FilesOK')
  BY <1>1, DeploymentStays, FilesStay
<1> DEFINE Reqs == [left : Seq(TierNames), tried : Seq(TierNames), scan : BOOLEAN, by : TierNames \cup {"none"}]
<1>3. req \in Reqs /\ req.left \in Seq(TierNames) /\ req.tried \in Seq(TierNames) /\ (req.by # "none" => req.left = <<>>)
      /\ req.scan \in BOOLEAN /\ req.by \in TierNames \cup {"none"}
  BY DEF BootIInv, ReqOK, RequestOK
<1>4. req.left # <<>> => /\ Head(req.left) \in TierNames /\ Tail(req.left) \in Seq(TierNames)
                         /\ Append(req.tried, Head(req.left)) \in Seq(TierNames)
  BY <1>3
<1>9. /\ Boot!Tiers(req.scan) \in Seq(TierNames) /\ <<>> \in Seq(TierNames)
      /\ \A scan : Boot!Tiers(scan)' = Boot!Tiers(scan)
  BY <1>1, <1>3, TiersAre, DeploymentStays
<1>5. ASSUME NEW scan \in BOOLEAN, Boot!Request(scan) PROVE ReqOK'
  <2> DEFINE T == Boot!Tiers(scan)
             r == [left |-> T, tried |-> <<>>, scan |-> scan, by |-> "none"]
  <2>1. req' = r
    BY <1>5 DEF Boot!Request
  <2>2. T \in Seq(TierNames) /\ T # <<>> /\ Boot!Tiers(scan)' = T
    BY TiersAre, <1>1 DEF Boot!Tiers
  <2>3. r \in Reqs /\ r.left = T /\ r.tried = <<>> /\ r.scan = scan /\ r.by = "none"
    BY <2>2
  <2> HIDE DEF T, r
  <2>4. Len(r.tried) = 0 /\ Len(T) \in Nat /\ 0 + Len(T) = Len(T)
        /\ (\A i \in 1 .. Len(T) : 0 + i = i) /\ \A i \in 1 .. 0 : FALSE
    BY <2>2, <2>3
  <2>5. RequestOK(r, T)
    BY <2>2, <2>3, <2>4 DEF RequestOK
  <2> QED
    BY <2>1, <2>2, <2>3, <2>5 DEF ReqOK
<1>6. ASSUME Boot!TierFails PROVE ReqOK'
  <2> DEFINE r == [req EXCEPT !.left = Tail(req.left), !.tried = Append(req.tried, Head(req.left))]
  <2>1. req.left # <<>> /\ req' = r
    BY <1>6 DEF Boot!TierFails
  <2>2. r \in Reqs /\ r.left = Tail(req.left) /\ r.tried = Append(req.tried, Head(req.left)) /\ r.scan = req.scan /\ r.by = req.by
    BY <1>3, <1>4, <2>1
  <2> HIDE DEF r
  <2> QED
    BY <1>1, <1>3, <1>9, <2>1, <2>2, NextTier DEF BootIInv, ReqOK
<1>7. ASSUME Boot!TierAnswers PROVE ReqOK'
  <2> DEFINE r == [req EXCEPT !.left = <<>>, !.tried = Append(req.tried, Head(req.left)), !.by = Head(req.left)]
  <2>1. req.left # <<>> /\ req' = r
    BY <1>7 DEF Boot!TierAnswers
  <2>2. r \in Reqs /\ r.left = <<>> /\ r.tried = Append(req.tried, Head(req.left)) /\ r.scan = req.scan /\ r.by = Head(req.left)
    BY <1>3, <1>4, <1>9, <2>1
  <2>3. r.by # "none"
    BY <1>4, <2>1, <2>2 DEF TierNames
  <2> HIDE DEF r
  <2> QED
    BY <1>1, <1>3, <1>9, <2>1, <2>2, <2>3, NextTier DEF BootIInv, ReqOK
<1>8. BootSnapOK' /\ BootReadOK'
  BY <1>1, <1>2 DEF BootIInv, BootSnapOK, BootReadOK
<1> QED
  BY <1>1, <1>2, <1>5, <1>6, <1>7, <1>8 DEF BootIInv

LEMMA BootNextInv == BootIInv /\ (Boot!Next \/ UNCHANGED bootVars) => BootIInv'
<1> SUFFICES ASSUME BootIInv, Boot!Next \/ UNCHANGED bootVars PROVE BootIInv'
  OBVIOUS
<1>1. ASSUME UNCHANGED bootVars PROVE BootIInv'
  <2>1. UNCHANGED <<server, files, bundle, pin, env, snap, wagmi, read, req>>
    BY <1>1 DEF bootVars
  <2>2. ReqOK'
    BY <2>1, ReqStays DEF BootIInv
  <2> QED
    BY <2>1, <2>2, DeploymentStays, FilesStay DEF BootIInv, BootSnapOK, BootReadOK
<1> QED
  BY <1>1, BootUp, BootPage, BootReads, BootRequest DEF Boot!Next

-----------------------------------------------------------------------------
(* Its properties.                                                         *)

LEMMA PositionsAreOfDeployed == BootIInv => Boot!PositionsAreDeployed
<1> SUFFICES ASSUME BootIInv PROVE Boot!PositionsAreDeployed
  OBVIOUS
<1>1. read.by \in {"evm", "sol"} => read.of = Boot!ApiEnv /\ read.of \in Boot!Known
  BY DEF BootIInv, BootReadOK
<1>2. ASSUME Boot!Viewing, snap.state = "ready" PROVE wagmi = Boot!Shown
  <2>1. snap.chain = Boot!ApiEnv
        /\ wagmi = IF Boot!ApiEnv \in Boot!Known THEN Boot!ApiEnv ELSE Boot!BrowserDefault
    BY <1>2 DEF BootIInv, BootSnapOK
  <2>2. CASE snap.chain # Boot!NoChain
    <3>1. snap.chain \in Boot!Known
      BY <1>2, <2>2 DEF Boot!Viewing, Boot!GateOpen
    <3> QED
      BY <2>1, <2>2, <3>1 DEF Boot!Shown
  <2>3. CASE snap.chain = Boot!NoChain
    <3>1. Boot!NoChain \notin Boot!Known
      BY DEF BootIInv, Boot!Known, Boot!NoChain
    <3> QED
      BY <2>1, <2>3, <3>1 DEF Boot!Shown
  <2> QED
    BY <2>2, <2>3
<1> QED
  BY <1>1, <1>2 DEF Boot!PositionsAreDeployed

(* The registry's choice is bundled, and real only where there is nothing else.      *)
LEMMA SafetyNetIs ==
  ASSUME BootIInv, \E b \in bundle : b.network # "real-testnet"
  PROVE  \E b \in bundle : b.chain = Boot!SafetyNet /\ b.network # "real-testnet"
<1> DEFINE open == {b \in bundle : b.network # "real-testnet"}
           test == {b \in open : b.network = "testnet"}
           from == {b.chain : b \in IF test = {} THEN open ELSE test}
<1>1. open # {}
  OBVIOUS
<1>2. Boot!SafetyNet = CHOOSE c \in from : \A d \in from : c <= d
  BY <1>1 DEF Boot!SafetyNet
<1>3. from \in SUBSET Nat /\ from # {}
  BY <1>1 DEF BootIInv
<1>4. \A c \in from : \E b \in open : b.chain = c
  OBVIOUS
<1> HIDE DEF from
<1>5. \E c \in from : \A d \in from : c <= d
  BY <1>3, LeastNatural
<1>6. Boot!SafetyNet \in from
  BY <1>2, <1>5
<1> QED
  BY <1>4, <1>6

(* What is in use is in play, and the registry has it.                          *)
LEMMA NetStaysLive == BootIInv => Boot!NetIsLive
<1> SUFFICES ASSUME BootIInv, server = "serving" PROVE Boot!NetIsLive
  BY DEF Boot!NetIsLive
<1>1. Boot!InUse \subseteq InPlay
  <2>1. {Boot!BrowserDefault, Boot!ServerDefault} \subseteq InPlay
    BY DEF BootIInv, InPlay
  <2>2. snap.state # "none" => wagmi \in InPlay
    BY DEF BootIInv, BootSnapOK
  <2>3. Boot!Viewing => Boot!Shown \in InPlay
    <3>1. ASSUME Boot!Viewing, snap.chain # Boot!NoChain PROVE Boot!Shown \in InPlay
      BY <3>1 DEF Boot!Viewing, Boot!GateOpen, Boot!Shown, BootIInv, BootSnapOK, InPlay
    <3> QED
      BY <2>1, <3>1 DEF Boot!Shown
  <2>4. read.by # "none" => read.of \in InPlay
    BY DEF BootIInv, BootReadOK
  <2> QED
    BY <2>1, <2>2, <2>3, <2>4 DEF Boot!InUse
<1>2. ASSUME files # {}, ~Boot!Duplicate(files), NEW c \in Boot!InUse
      PROVE  \E e \in files : e.chain = c /\ e.json /\ ~e.retired
  <2>1. PICK b \in bundle : b.chain = c
    BY <1>1, <1>2 DEF InPlay, Boot!Known
  <2>2. PICK e \in Boot!Surfaced(files) : b = [chain |-> e.chain, network |-> e.network]
    BY <1>2 DEF BootIInv, FilesOK
  <2> QED
    BY <2>1, <2>2 DEF Boot!Surfaced
<1>3. ASSUME \E b \in bundle : b.network # "real-testnet", NEW c \in Boot!InUse \ {pin, env.pub, env.rt}
      PROVE  \E b \in bundle : b.chain = c /\ b.network # "real-testnet"
  <2>1. c = Boot!SafetyNet
    <3>1. c \in Nat \ {0} /\ c \in {Boot!ApiEnv, Boot!BrowserDefault, Boot!ServerDefault}
      BY <1>1, <1>3 DEF InPlay, Boot!Known, BootIInv
    <3>2. c # Boot!ApiEnv
      <4> DEFINE named == Boot!First(pin, Boot!First(env.pub, env.rt))
      <4>1. named \in {pin, env.pub, env.rt}
        BY DEF Boot!First
      <4>2. Boot!ApiEnv = CASE named = Boot!Blank -> 0 [] named \in {Boot!Unset, Boot!Junk} -> Boot!NoChain [] OTHER -> named
        BY DEF Boot!ApiEnv
      <4> HIDE DEF named
      <4>3. Boot!ApiEnv \in {0, Boot!NoChain, named}
        BY <4>2
      <4> QED
        BY <1>3, <3>1, <4>1, <4>3 DEF Boot!NoChain
    <3> QED
      BY <1>3, <3>1, <3>2 DEF Boot!BrowserDefault, Boot!ServerDefault, Boot!Default
  <2> QED
    BY <1>3, <2>1, SafetyNetIs
<1> QED
  BY <1>2, <1>3 DEF Boot!NetIsLive

(* As many tiers are asked as there are entries: none twice.                    *)
LEMMA TriedOnce == BootIInv => Boot!ScansStayOff
<1> SUFFICES ASSUME BootIInv PROVE Boot!ScansStayOff
  OBVIOUS
<1> DEFINE T == Boot!Tiers(req.scan)
           n == Len(req.tried)
           S == {req.tried[i] : i \in 1 .. n}
<1>1. /\ req.tried \in Seq(TierNames) /\ req.scan \in BOOLEAN /\ n <= Len(T)
      /\ \A i \in 1 .. n : req.tried[i] = T[i]
      /\ req.left = <<>> /\ req.by = "none" /\ req # Boot!NoReq => n = Len(T)
  BY DEF BootIInv, ReqOK, RequestOK
<1>2. /\ T \in Seq(TierNames) /\ (\A i, j \in 1 .. Len(T) : T[i] = T[j] => i = j)
      /\ req.scan => \A i \in 1 .. Len(T) : T[i] # "self"
  BY <1>1, TiersAre
<1>3. Boot!ToSet(req.tried) = S /\ Boot!ToSet(T) = {T[i] : i \in 1 .. Len(T)}
  <2>1. DOMAIN req.tried = 1 .. n /\ DOMAIN T = 1 .. Len(T)
    BY <1>1, <1>2
  <2> HIDE DEF T
  <2> QED
    BY <2>1 DEF Boot!ToSet
<1>4. n \in Nat /\ Len(T) \in Nat
  BY <1>1, <1>2
<1>5. \A i \in 1 .. n : i \in 1 .. Len(T)
  BY <1>1, <1>4
<1>6. req.scan => "self" \notin S
  <2> SUFFICES ASSUME req.scan, NEW i \in 1 .. n PROVE req.tried[i] # "self"
    OBVIOUS
  <2>1. i \in 1 .. Len(T) /\ req.tried[i] = T[i]
    BY <1>1, <1>5
  <2> HIDE DEF T
  <2> QED
    BY <1>2, <2>1
<1>7. Cardinality(S) = n
  <2>1. req.tried \in Surjection(1 .. n, S)
    <3>1. req.tried \in [1 .. n -> S]
      BY <1>1
    <3> QED
      BY <3>1 DEF Surjection
  <2>2. req.tried \in Injection(1 .. n, S)
    <3>1. req.tried \in [1 .. n -> S]
      BY <1>1
    <3>2. \A i, j \in 1 .. n : req.tried[i] = req.tried[j] => i = j
      BY <1>1, <1>2, <1>5
    <3> QED
      BY <3>1, <3>2 DEF Injection, IsInjective
  <2> HIDE DEF n, S
  <2>3. IsFiniteSet(1 .. n) /\ Cardinality(1 .. n) = n
    <3>1. n \in Int /\ (1 > n <=> n = 0) /\ n - 1 + 1 = n
      BY <1>4
    <3> QED
      BY <3>1, FS_Interval
  <2> QED
    BY <2>1, <2>2, <2>3, FS_Surjection
<1>8. \A X : Boot!Cardinality(X) = Cardinality(X)
  BY DEF Boot!Cardinality, Cardinality
<1>9. n = Len(T) => Boot!ToSet(T) = S
  BY <1>1, <1>3
<1> QED
  BY <1>1, <1>3, <1>6, <1>7, <1>8, <1>9 DEF Boot!ScansStayOff

LEMMA ProxyDoesFollow == BootIInv => Boot!ProxyFollows
<1> SUFFICES ASSUME BootIInv, read.from # read.of
             PROVE  /\ read.by \in {"evm", "sol"}
                    /\ \/ env.up \notin {Boot!NoChain, read.of}
                       \/ /\ env.up = Boot!NoChain /\ read.from = Boot!SafetyNet
                          /\ pin = Boot!Unset /\ env.pub = Boot!Unset /\ env.rt = read.of
  BY DEF Boot!ProxyFollows
<1>1. /\ read.by \in {"evm", "sol"} /\ read.of = Boot!ApiEnv /\ read.of \in Boot!Known
      /\ read.from = Boot!Upstream
  BY DEF BootIInv, BootReadOK
<1>2. read.of \in Nat \ {0}
  BY <1>1 DEF BootIInv, Boot!Known
<1>3. env.up # Boot!NoChain => env.up # read.of
  BY <1>1 DEF Boot!Upstream
<1>4. ASSUME env.up = Boot!NoChain
      PROVE  read.from = Boot!SafetyNet /\ pin = Boot!Unset /\ env.pub = Boot!Unset /\ env.rt = read.of
  <2> DEFINE named == Boot!First(pin, Boot!First(env.pub, env.rt))
             set == IF pin # Boot!Unset THEN pin ELSE env.pub
  <2>1. read.from = Boot!Default(set)
    BY <1>1, <1>4 DEF Boot!Upstream, Boot!ServerDefault
  <2>2. Boot!ApiEnv = CASE named = Boot!Blank -> 0 [] named \in {Boot!Unset, Boot!Junk} -> Boot!NoChain [] OTHER -> named
    BY DEF Boot!ApiEnv
  <2>3. set # Boot!Unset => named = set
    BY DEF Boot!First
  <2>4. set = Boot!Unset => pin = Boot!Unset /\ env.pub = Boot!Unset /\ named = env.rt
    BY DEF Boot!First
  <2> HIDE DEF named, set
  <2>5. named = read.of
    <3>1. named # Boot!Blank
      <4>1. named = Boot!Blank => Boot!ApiEnv = 0
        BY <2>2 DEF Boot!Blank, Boot!Unset, Boot!Junk
      <4> QED
        BY <1>1, <1>2, <4>1
    <3>2. named \notin {Boot!Unset, Boot!Junk}
      BY <1>1, <1>2, <2>2, <3>1 DEF Boot!NoChain
    <3> QED
      BY <1>1, <2>2, <3>1, <3>2
  <2>6. set = Boot!Unset
    BY <1>2, <2>1, <2>3, <2>5 DEF Boot!Default
  <2> QED
    BY <2>1, <2>4, <2>5, <2>6 DEF Boot!Default, Boot!Unset
<1> QED
  BY <1>1, <1>3, <1>4

LEMMA BootFollows == BootIInv => Boot!BootTypeOK /\ Boot!BootIsRight
<1>1. BootIInv => Boot!BootTypeOK
  BY DEF BootIInv, FilesOK, BootSnapOK, BootReadOK, Boot!BootTypeOK
<1> QED
  BY <1>1, PositionsAreOfDeployed, NetStaysLive, TriedOnce, ProxyDoesFollow DEF Boot!BootIsRight

-----------------------------------------------------------------------------
(* The Activate gate by itself.                                            *)
(*                                                                         *)
(* The inductive invariant says what a stage of an activation has already  *)
(* put on chain, and what an answer that is still on its way, or the gate  *)
(* itself, has to do with the account it is about.  Accounts are never     *)
(* closed, so "present" stays true; "absent" is made false only by an      *)
(* activation of that account, which is then there to be seen.             *)

(* What the stages of an activation mean.                                   *)
ActOK(n) ==
  /\ act[n].pc = "unused" <=> act[n].who = NoUser
  /\ act[n].popups <= act[n].next
  /\ act[n].pc \in {"unused", "readPda", "createPda"} => act[n].next = 1 /\ act[n].popups = 0
  /\ act[n].pc = "createAta" => act[n].next \in Assets
  /\ act[n].pc \in {"readAta", "createAta"} =>
       pda[act[n].who] /\ 1 .. act[n].next - 1 \subseteq ata[act[n].who]
  /\ Finished(n) => pda[act[n].who] /\ ata[act[n].who] = Assets

(* u has no account, or an activation of u's was begun.                     *)
AbsentOrBegun(u) == pda[u] => \E n \in Activations : act[n].who = u

(* What an answer means when it is delivered.                               *)
CheckOK(c) ==
  /\ Checking(c) => check[c].who \in Users
  /\ check[c].pc = "answered" =>
       /\ check[c].val = "present" => pda[check[c].who]
       /\ check[c].val = "absent" => AbsentOrBegun(check[c].who)
       /\ check[c].val # "none"

(* What the gate means for the account it is about.                         *)
GateOK ==
  gate.checked =>
    /\ gate.about \in Users
    /\ gate.provisioned /\ ~gate.blind => pda[gate.about]
    /\ ~gate.provisioned => AbsentOrBegun(gate.about)

IInv ==
  /\ TypeOK
  /\ \A n \in Activations : ActOK(n)
  /\ \A c \in Checks : CheckOK(c)
  /\ GateOK

-----------------------------------------------------------------------------
(* Accounts are opened and never closed, and activations forget nobody.     *)
Grows ==
  /\ \A u \in Users : pda[u] => pda'[u]
  /\ \A u \in Users : ata[u] \subseteq ata'[u]
  /\ \A u \in Users : AbsentOrBegun(u) => AbsentOrBegun(u)'

(* What the checks and the gate say stays right while the chain only grows.  *)
LEMMA ChecksKeep ==
  ASSUME IInv, Grows, UNCHANGED check
  PROVE  \A c \in Checks : CheckOK(c)'
BY DEF IInv, Grows, CheckOK, Checking

LEMMA GateKeeps ==
  ASSUME IInv, Grows, NEW g, gate' = g,
         g.checked => gate.checked /\ g.provisioned = gate.provisioned
                      /\ g.blind = gate.blind /\ g.about = gate.about
  PROVE  GateOK'
BY DEF IInv, Grows, GateOK

(* One activation moves on to state s; the others keep their meaning.        *)
LEMMA ActMoves ==
  ASSUME IInv, NEW n \in Activations, NEW s \in ActState,
         act' = [act EXCEPT ![n] = s],
         \A u \in Users : pda[u] => pda'[u],
         \A u \in Users : ata[u] \subseteq ata'[u],
         ata' \in [Users -> SUBSET Assets],
         ActOK(n)'
  PROVE  /\ act' \in [Activations -> ActState]
         /\ \A m \in Activations : ActOK(m)'
<1>1. act' \in [Activations -> ActState]
  BY DEF IInv, TypeOK
<1>2. ASSUME NEW m \in Activations \ {n} PROVE ActOK(m)'
  <2>1. act'[m] = act[m] /\ act[m] \in ActState
    BY DEF IInv, TypeOK
  <2>2. ActOK(m)
    BY DEF IInv
  <2>3. act[m].pc # "unused" => act[m].who \in Users
    BY <2>1, <2>2 DEF ActOK, ActState
  <2>4. act[m].who \in Users => ata'[act[m].who] \subseteq Assets
    OBVIOUS
  <2> QED
    BY <2>1, <2>2, <2>3, <2>4 DEF ActOK, Finished
<1> QED
  BY <1>1, <1>2
LEMMA InitIInv == Init => IInv
<1> SUFFICES ASSUME Init PROVE IInv
  OBVIOUS
<1>1. 1 \in 1 .. NumAssets + 1 /\ 0 \in 0 .. NumAssets + 1
  BY ProvisioningAssumption
<1>2. TypeOK
  <2>1. ata \in [Users -> SUBSET Assets]
    BY DEF Init
  <2>2. check \in [Checks -> CheckState]
    BY DEF Init, CheckState, Verdict
  <2>3. act \in [Activations -> ActState]
    BY <1>1 DEF Init, ActState
  <2> QED
    BY <2>1, <2>2, <2>3 DEF Init, TypeOK
<1>3. ASSUME NEW n \in Activations PROVE ActOK(n)
  BY DEF Init, ActOK, Finished
<1>4. ASSUME NEW c \in Checks PROVE CheckOK(c)
  BY DEF Init, CheckOK, Checking
<1>5. GateOK
  BY DEF Init, GateOK
<1> QED
  BY <1>2, <1>3, <1>4, <1>5 DEF IInv

-----------------------------------------------------------------------------
(* The gate stays of its type and, if the chain only grows, right.           *)
GateRight ==
  /\ gate' \in [provisioned: BOOLEAN, checked: BOOLEAN, activating: BOOLEAN,
                blind: BOOLEAN, about: Users \cup {NoUser}]
  /\ Grows => GateOK'

(* A step of an activation that opens no account.                           *)
LEMMA ActMovesOn ==
  ASSUME IInv, NEW n \in Activations, NEW s \in ActState,
         act' = [act EXCEPT ![n] = s],
         UNCHANGED <<pda, ata, active, resolved, check>>,
         ActOK(n)',
         act[n].who # NoUser => s.who = act[n].who,
         GateRight
  PROVE  IInv'
<1>1. Grows
  <2>1. ASSUME NEW u \in Users, NEW m \in Activations, act[m].who = u
        PROVE  act'[m].who = u
    BY <2>1, ProvisioningAssumption DEF IInv, TypeOK
  <2> QED
    BY <2>1 DEF Grows, AbsentOrBegun
<1>2. \A c \in Checks : CheckOK(c)'
  BY <1>1, ChecksKeep
<1>3. act' \in [Activations -> ActState] /\ \A m \in Activations : ActOK(m)'
  BY ActMoves DEF IInv, TypeOK
<1>4. TypeOK'
  BY <1>3 DEF IInv, TypeOK, GateRight
<1> QED
  BY <1>1, <1>2, <1>3, <1>4 DEF IInv, GateRight

(* The same when the gate only changes its activating flag, or nothing.      *)
LEMMA FlagKeepsGate ==
  ASSUME IInv, NEW b \in BOOLEAN,
         gate' = gate \/ gate' = [gate EXCEPT !.activating = b]
  PROVE  GateRight
<1>1. /\ gate'.checked = gate.checked /\ gate'.provisioned = gate.provisioned
      /\ gate'.blind = gate.blind /\ gate'.about = gate.about
  BY DEF IInv, TypeOK
<1>2. gate' \in [provisioned: BOOLEAN, checked: BOOLEAN, activating: BOOLEAN,
                 blind: BOOLEAN, about: Users \cup {NoUser}]
  BY DEF IInv, TypeOK
<1> QED
  BY <1>1, <1>2 DEF IInv, Grows, GateOK, GateRight

(* What is known of an activation at work.                                  *)
LEMMA ActFacts ==
  ASSUME IInv, NEW n \in Activations
  PROVE  /\ act[n] \in ActState /\ ActOK(n)
         /\ act[n].pc # "unused" => act[n].who \in Users
         /\ act[n].next \in Nat /\ act[n].popups \in Nat
BY ProvisioningAssumption DEF IInv, TypeOK, ActOK, ActState

LEMMA ActivateStep == ASSUME IInv, NEW n \in Activations, Activate(n) PROVE IInv'
<1> DEFINE r == act[n]
           s == [r EXCEPT !.pc = "readPda", !.who = active]
<1>1. r \in ActState /\ ActOK(n) /\ r.pc = "unused" /\ r.who = NoUser /\ active \in Users
  BY ActFacts DEF Activate, ActivateShown, IInv, TypeOK, ActOK
<1>2. r.next = 1 /\ r.popups = 0
  BY <1>1 DEF ActOK
<1>3. /\ act' = [act EXCEPT ![n] = s] /\ UNCHANGED <<pda, ata, active, resolved, check>>
      /\ gate' = [gate EXCEPT !.activating = TRUE]
  BY DEF Activate, IInv, TypeOK
<1>4. act'[n] = s
  BY <1>3 DEF IInv, TypeOK
<1> HIDE DEF r
<1>5. s \in ActState /\ s.pc = "readPda" /\ s.who = active /\ s.next = r.next /\ s.popups = r.popups
  BY <1>1 DEF ActState
<1> HIDE DEF s
<1>6. ActOK(n)'
  BY <1>1, <1>2, <1>4, <1>5, ProvisioningAssumption DEF ActOK, Finished
<1>7. Grows
  <2>1. ASSUME NEW u \in Users, NEW m \in Activations, act[m].who = u
        PROVE  act'[m].who = u
    BY <1>1, <1>3, <2>1, ProvisioningAssumption DEF r, IInv, TypeOK
  <2> QED
    BY <1>3, <2>1 DEF Grows, AbsentOrBegun
<1> QED
  BY <1>1, <1>3, <1>5, <1>6, <1>7, FlagKeepsGate, ActMovesOn DEF r

(* What stage p at asset k of activation n asks of the chain.               *)
ActMeans(n, p, k) ==
  /\ k \in Nat /\ act[n].next <= k
  /\ p \notin {"unused", "readPda"}
  /\ p = "createPda" => k = 1 /\ act[n].popups = 0
  /\ p = "createAta" => k \in Assets
  /\ p \in {"readAta", "createAta"} => pda[act[n].who] /\ 1 .. k - 1 \subseteq ata[act[n].who]
  /\ p \in {"refresh", "done"} => pda[act[n].who] /\ ata[act[n].who] = Assets

(* A step of an activation that changes its stage and place and neither its   *)
(* user nor its popups.                                                      *)
LEMMA StageStep ==
  ASSUME IInv, NEW n \in Activations, NEW p, NEW k,
         act' = [act EXCEPT ![n] = [act[n] EXCEPT !.pc = p, !.next = k]],
         [act[n] EXCEPT !.pc = p, !.next = k] \in ActState,
         act[n].pc # "unused", ActMeans(n, p, k),
         UNCHANGED <<pda, ata, active, resolved, check>>,
         GateRight
  PROVE  IInv'
<1> DEFINE r == act[n]
           s == [r EXCEPT !.pc = p, !.next = k]
<1>1. r \in ActState /\ r.who \in Users /\ r.popups <= r.next /\ r.next \in Nat /\ r.popups \in Nat
  BY ActFacts DEF ActOK
<1>2. act' = [act EXCEPT ![n] = s] /\ s \in ActState
  OBVIOUS
<1>3. act'[n] = s
  BY <1>2 DEF IInv, TypeOK
<1> HIDE DEF r
<1>4. s.pc = p /\ s.who = r.who /\ s.next = k /\ s.popups = r.popups
  BY <1>1 DEF ActState
<1> HIDE DEF s
<1>5. ActOK(n)'
  BY <1>1, <1>3, <1>4, ProvisioningAssumption DEF r, ActOK, Finished, ActMeans
<1> QED
  BY <1>2, <1>4, <1>5, ActMovesOn DEF r

LEMMA ReadPdaStep == ASSUME IInv, NEW n \in Activations, ReadPda(n) PROVE IInv'
<1> DEFINE p == IF pda[act[n].who] THEN "readAta" ELSE "createPda"
           r == act[n]
<1>1. r \in ActState /\ ActOK(n) /\ r.pc = "readPda" /\ r.who \in Users /\ r.next = 1 /\ r.popups = 0
  BY ActFacts DEF ReadPda, ActOK
<1>2. act' = [act EXCEPT ![n] = [r EXCEPT !.pc = p]] /\ UNCHANGED <<pda, ata, active, resolved, gate, check>>
  BY DEF ReadPda, IInv, TypeOK
<1>3. p \in {"readAta", "createPda"} /\ (p = "readAta" => pda[r.who])
  OBVIOUS
<1> HIDE DEF p, r
<1>4. [r EXCEPT !.pc = p] = [r EXCEPT !.pc = p, !.next = r.next] /\ [r EXCEPT !.pc = p] \in ActState
  BY <1>1, <1>3 DEF ActState
<1>5. ActMeans(n, p, r.next)
  BY <1>1, <1>3 DEF ActMeans, r
<1>6. GateRight
  BY <1>2, FlagKeepsGate DEF GateRight
<1> QED
  BY <1>1, <1>2, <1>3, <1>4, <1>5, <1>6, StageStep DEF r
(* The loop: an asset passed over is one whose token account is there.       *)
LEMMA ReadAtaStep == ASSUME IInv, NEW n \in Activations, ReadAta(n) PROVE IInv'
<1> DEFINE r == act[n]
<1>1. r \in ActState /\ ActOK(n) /\ r.pc = "readAta" /\ r.next \in Assets /\ r.who \in Users
      /\ r.next \in Nat
  BY ActFacts DEF ReadAta
<1>2. pda[r.who] /\ 1 .. r.next - 1 \subseteq ata[r.who]
  BY <1>1 DEF ActOK
<1>3. UNCHANGED <<pda, ata, active, resolved, gate, check>>
  BY DEF ReadAta
<1>4. GateRight
  BY <1>3, FlagKeepsGate
<1>5. CASE r.next \in ata[r.who]
  <2>1. act' = [act EXCEPT ![n] = [r EXCEPT !.next = r.next + 1]]
    BY <1>5 DEF ReadAta, IInv, TypeOK
  <2> HIDE DEF r
  <2>4. r.next + 1 \in 1 .. NumAssets + 1
    BY <1>1, ProvisioningAssumption DEF Assets
  <2>2. [r EXCEPT !.next = r.next + 1] = [r EXCEPT !.pc = "readAta", !.next = r.next + 1]
        /\ [r EXCEPT !.next = r.next + 1] \in ActState
    BY <1>1, <2>4 DEF ActState
  <2>3. ActMeans(n, "readAta", r.next + 1)
    BY <1>1, <1>2, <1>5 DEF ActMeans, r
  <2> QED
    BY <1>1, <1>3, <1>4, <2>1, <2>2, <2>3, StageStep DEF r
<1>6. CASE r.next \notin ata[r.who]
  <2>1. act' = [act EXCEPT ![n] = [r EXCEPT !.pc = "createAta"]]
    BY <1>6 DEF ReadAta, IInv, TypeOK
  <2> HIDE DEF r
  <2>2. [r EXCEPT !.pc = "createAta"] = [r EXCEPT !.pc = "createAta", !.next = r.next]
        /\ [r EXCEPT !.pc = "createAta"] \in ActState
    BY <1>1 DEF ActState
  <2>3. ActMeans(n, "createAta", r.next)
    BY <1>1, <1>2 DEF ActMeans, r
  <2> QED
    BY <1>1, <1>3, <1>4, <2>1, <2>2, <2>3, StageStep DEF r
<1> QED
  BY <1>5, <1>6

(* The loop is over: every asset has been passed.                           *)
LEMMA FinishStep == ASSUME IInv, NEW n \in Activations, Finish(n) PROVE IInv'
<1> DEFINE r == act[n]
<1>1. r \in ActState /\ ActOK(n) /\ r.pc = "readAta" /\ r.next > NumAssets /\ r.who \in Users
      /\ r.next \in Nat
  BY ActFacts DEF Finish
<1>2. pda[r.who] /\ ata[r.who] = Assets
  <2>1. ata[r.who] \in SUBSET Assets
    BY <1>1 DEF IInv, TypeOK
  <2>2. pda[r.who] /\ 1 .. r.next - 1 \subseteq ata[r.who]
    BY <1>1 DEF ActOK
  <2>3. Assets \subseteq 1 .. r.next - 1
    BY <1>1, ProvisioningAssumption DEF Assets
  <2> QED
    BY <2>1, <2>2, <2>3
<1>3. /\ act' = [act EXCEPT ![n] = [r EXCEPT !.pc = "refresh"]]
      /\ gate' = [gate EXCEPT !.provisioned = TRUE, !.checked = TRUE, !.about = r.who]
      /\ UNCHANGED <<pda, ata, active, resolved, check>>
  BY DEF Finish, IInv, TypeOK
<1> HIDE DEF r
<1>4. [r EXCEPT !.pc = "refresh"] = [r EXCEPT !.pc = "refresh", !.next = r.next]
      /\ [r EXCEPT !.pc = "refresh"] \in ActState
  BY <1>1 DEF ActState
<1>5. ActMeans(n, "refresh", r.next)
  BY <1>1, <1>2 DEF ActMeans, r
<1>6. GateRight
  <2>1. gate'.checked = TRUE /\ gate'.provisioned = TRUE /\ gate'.about = r.who
    BY <1>3 DEF IInv, TypeOK
  <2>2. gate' \in [provisioned: BOOLEAN, checked: BOOLEAN, activating: BOOLEAN,
                  blind: BOOLEAN, about: Users \cup {NoUser}]
    BY <1>1, <1>3 DEF IInv, TypeOK
  <2> QED
    BY <1>1, <1>2, <1>3, <2>1, <2>2 DEF GateRight, GateOK
<1> QED
  BY <1>1, <1>3, <1>4, <1>5, <1>6, StageStep DEF r

LEMMA EndStep == ASSUME IInv, NEW n \in Activations, Refreshed(n) \/ GiveUp(n) PROVE IInv'
<1> DEFINE r == act[n]
<1>1. r \in ActState /\ ActOK(n) /\ r.pc # "unused" /\ r.who \in Users /\ r.next \in Nat
  BY ActFacts DEF Refreshed, GiveUp, Activating
<1>2. PICK p \in {"done", "failed"} :
        /\ act' = [act EXCEPT ![n] = [r EXCEPT !.pc = p]]
        /\ p = "done" => r.pc = "refresh"
  BY DEF Refreshed, GiveUp, IInv, TypeOK
<1>3. gate' = [gate EXCEPT !.activating = FALSE] /\ UNCHANGED <<pda, ata, active, resolved, check>>
  BY DEF Refreshed, GiveUp
<1> HIDE DEF r
<1>4. [r EXCEPT !.pc = p] = [r EXCEPT !.pc = p, !.next = r.next] /\ [r EXCEPT !.pc = p] \in ActState
  BY <1>1 DEF ActState
<1>5. ActMeans(n, p, r.next)
  BY <1>1, <1>2 DEF ActMeans, ActOK, Finished, r
<1>6. GateRight
  BY <1>3, FlagKeepsGate
<1> QED
  BY <1>1, <1>2, <1>3, <1>4, <1>5, <1>6, StageStep DEF r

(* The two steps that open an account.                                      *)
LEMMA OpenStep ==
  ASSUME IInv, NEW n \in Activations, NEW s \in ActState,
         act[n].pc # "unused",
         act' = [act EXCEPT ![n] = s], s.who = act[n].who,
         UNCHANGED <<active, resolved, gate, check>>,
         pda' \in [Users -> BOOLEAN], ata' \in [Users -> SUBSET Assets],
         \A u \in Users : pda[u] => pda'[u],
         \A u \in Users : pda'[u] => pda[u] \/ u = act[n].who,
         \A u \in Users : ata[u] \subseteq ata'[u],
         ActOK(n)'
  PROVE  IInv'
<1>1. \A m \in Activations : act'[m].who = act[m].who
  BY DEF IInv, TypeOK
<1>2. Grows
  <2>1. ASSUME NEW u \in Users, AbsentOrBegun(u), pda'[u]
        PROVE  \E m \in Activations : act'[m].who = u
    BY <1>1, <2>1 DEF AbsentOrBegun
  <2> QED
    BY <2>1 DEF Grows, AbsentOrBegun
<1>3. \A c \in Checks : CheckOK(c)'
  BY <1>2, ChecksKeep
<1>4. GateOK'
  BY <1>2, GateKeeps
<1>5. act' \in [Activations -> ActState] /\ \A m \in Activations : ActOK(m)'
  BY ActMoves
<1>6. TypeOK'
  BY <1>5 DEF IInv, TypeOK
<1> QED
  BY <1>3, <1>4, <1>5, <1>6 DEF IInv

LEMMA CreatePdaStep == ASSUME IInv, NEW n \in Activations, CreatePda(n) PROVE IInv'
<1> DEFINE r == act[n]
           s == [r EXCEPT !.pc = "readAta", !.popups = r.popups + 1]
<1>1. r \in ActState /\ ActOK(n) /\ r.pc = "createPda" /\ r.who \in Users
  BY ActFacts DEF CreatePda
<1>2. r.next = 1 /\ r.popups = 0
  BY <1>1 DEF ActOK
<1>3. /\ act' = [act EXCEPT ![n] = s] /\ pda' = [pda EXCEPT ![r.who] = TRUE]
      /\ UNCHANGED <<ata, active, resolved, gate, check>>
  BY DEF CreatePda, IInv, TypeOK
<1>4. act'[n] = s
  BY <1>3 DEF IInv, TypeOK
<1> HIDE DEF r
<1>9. r.popups + 1 = 1 /\ 1 \in 0 .. NumAssets + 1
  BY <1>2, ProvisioningAssumption
<1>5. s \in ActState /\ s.pc = "readAta" /\ s.who = r.who /\ s.next = 1 /\ s.popups = 1
  BY <1>1, <1>2, <1>9 DEF ActState
<1> HIDE DEF s
<1>6. /\ pda' \in [Users -> BOOLEAN] /\ pda'[r.who] /\ ata' \in [Users -> SUBSET Assets]
      /\ \A u \in Users : (pda[u] => pda'[u]) /\ (pda'[u] => pda[u] \/ u = r.who)
  BY <1>1, <1>3 DEF IInv, TypeOK
<1>7. ActOK(n)'
  BY <1>1, <1>4, <1>5, <1>6, ProvisioningAssumption DEF ActOK, Finished
<1> QED
  BY <1>1, <1>3, <1>5, <1>6, <1>7, OpenStep DEF r

LEMMA CreateAtaStep == ASSUME IInv, NEW n \in Activations, CreateAta(n) PROVE IInv'
<1> DEFINE r == act[n]
           s == [r EXCEPT !.pc = "readAta", !.next = r.next + 1, !.popups = r.popups + 1]
<1>1. r \in ActState /\ ActOK(n) /\ r.pc = "createAta" /\ r.who \in Users
      /\ r.next \in Nat /\ r.popups \in Nat
  BY ActFacts DEF CreateAta
<1>2. r.next \in Assets /\ r.popups <= r.next /\ pda[r.who] /\ 1 .. r.next - 1 \subseteq ata[r.who]
  BY <1>1 DEF ActOK
<1>3. /\ act' = [act EXCEPT ![n] = s] /\ ata' = [ata EXCEPT ![r.who] = @ \cup {r.next}]
      /\ UNCHANGED <<pda, active, resolved, gate, check>>
  BY DEF CreateAta, IInv, TypeOK
<1>4. act'[n] = s
  BY <1>3 DEF IInv, TypeOK
<1> HIDE DEF r
<1>9. r.next + 1 \in 1 .. NumAssets + 1 /\ r.popups + 1 \in 0 .. NumAssets + 1
  BY <1>1, <1>2, ProvisioningAssumption DEF Assets
<1>5. s \in ActState /\ s.pc = "readAta" /\ s.who = r.who /\ s.next = r.next + 1
      /\ s.popups = r.popups + 1
  BY <1>1, <1>9 DEF ActState
<1> HIDE DEF s
<1>6. /\ ata' \in [Users -> SUBSET Assets] /\ \A u \in Users : ata[u] \subseteq ata'[u]
      /\ ata'[r.who] = ata[r.who] \cup {r.next}
  BY <1>1, <1>2, <1>3 DEF IInv, TypeOK
<1>7. 1 .. s.next - 1 \subseteq ata'[r.who]
  BY <1>1, <1>2, <1>5, <1>6
<1>8. ActOK(n)'
  BY <1>1, <1>2, <1>3, <1>4, <1>5, <1>7, ProvisioningAssumption DEF ActOK, Finished
<1> QED
  BY <1>1, <1>3, <1>5, <1>6, <1>8, OpenStep DEF r, IInv, TypeOK
-----------------------------------------------------------------------------
(* Steps that leave the chain and the activations alone: the checks, the     *)
(* user and the page.                                                       *)

LEMMA CheckMoves ==
  ASSUME IInv, NEW c \in Checks, NEW s \in CheckState,
         check' = [check EXCEPT ![c] = s],
         UNCHANGED <<pda, act>>, CheckOK(c)'
  PROVE  /\ check' \in [Checks -> CheckState]
         /\ \A d \in Checks : CheckOK(d)'
<1>1. check' \in [Checks -> CheckState]
  BY DEF IInv, TypeOK
<1>2. ASSUME NEW d \in Checks \ {c} PROVE CheckOK(d)'
  <2>1. check'[d] = check[d] /\ CheckOK(d)
    BY DEF IInv, TypeOK
  <2> QED
    BY <2>1 DEF CheckOK, Checking, AbsentOrBegun
<1> QED
  BY <1>1, <1>2

LEMMA AnswerStep == ASSUME IInv, NEW c \in Checks, Answer(c) PROVE IInv'
<1> DEFINE r == check[c]
<1>1. r \in CheckState /\ r.pc = "asked" /\ r.who \in Users
  BY DEF IInv, TypeOK, Answer, CheckOK, Checking
<1>2. PICK v \in {"present", "absent", "failed"} :
        /\ check' = [check EXCEPT ![c] = [r EXCEPT !.pc = "answered", !.val = v]]
        /\ v = "present" => pda[r.who]
        /\ v = "absent" => ~pda[r.who]
  <2>1. check \in [Checks -> CheckState]
    BY DEF IInv, TypeOK
  <2> QED
    BY <2>1 DEF Answer
<1>3. UNCHANGED <<pda, ata, active, resolved, gate, act>>
  BY DEF Answer
<1> HIDE DEF r
<1> DEFINE s == [r EXCEPT !.pc = "answered", !.val = v]
<1>4. s \in CheckState /\ s.pc = "answered" /\ s.val = v /\ s.who = r.who
  BY <1>1 DEF CheckState, Verdict
<1>5. check' = [check EXCEPT ![c] = s]
  BY <1>2
<1> HIDE DEF s
<1>6. check'[c] = s
  BY <1>5 DEF IInv, TypeOK
<1>7. CheckOK(c)'
  BY <1>1, <1>2, <1>3, <1>4, <1>6 DEF CheckOK, Checking, AbsentOrBegun
<1>8. check' \in [Checks -> CheckState] /\ \A d \in Checks : CheckOK(d)'
  BY <1>3, <1>4, <1>5, <1>7, CheckMoves
<1>9. GateOK' /\ \A n \in Activations : ActOK(n)'
  BY <1>3 DEF IInv, GateOK, AbsentOrBegun, ActOK, Finished
<1> QED
  BY <1>3, <1>8, <1>9 DEF IInv, TypeOK

LEMMA DeliverStep == ASSUME IInv, NEW c \in Checks, Deliver(c) PROVE IInv'
<1> DEFINE r == check[c]
<1>1. r \in CheckState /\ CheckOK(c) /\ r.pc = "answered" /\ r.who \in Users
  BY DEF IInv, TypeOK, Deliver, CheckOK, Checking
<1>2. r.val \in {"present", "absent", "failed"}
  BY <1>1 DEF CheckOK, CheckState, Verdict
<1>3. /\ check' = [check EXCEPT ![c] = Spent] /\ UNCHANGED <<pda, ata, active, resolved, act>>
      /\ gate' = [gate EXCEPT !.provisioned = r.val # "absent", !.checked = TRUE,
                              !.blind = r.val = "failed", !.about = r.who]
  BY DEF Deliver
<1>4. Spent \in CheckState /\ Spent.pc = "delivered"
  BY DEF Spent, CheckState, Verdict
<1>5. check'[c] = Spent
  BY <1>3 DEF IInv, TypeOK
<1>6. CheckOK(c)'
  BY <1>4, <1>5 DEF CheckOK, Checking
<1>7. check' \in [Checks -> CheckState] /\ \A d \in Checks : CheckOK(d)'
  BY <1>3, <1>4, <1>6, CheckMoves
<1>8. /\ r.val = "present" => pda[r.who]
      /\ r.val = "absent" => AbsentOrBegun(r.who)
  BY <1>1 DEF CheckOK
<1> HIDE DEF r
<1>9. /\ gate'.checked = TRUE /\ gate'.about = r.who
      /\ gate'.provisioned = (r.val # "absent") /\ gate'.blind = (r.val = "failed")
      /\ gate' \in [provisioned: BOOLEAN, checked: BOOLEAN, activating: BOOLEAN,
                   blind: BOOLEAN, about: Users \cup {NoUser}]
  BY <1>1, <1>3 DEF IInv, TypeOK
<1>10. GateOK'
  BY <1>1, <1>2, <1>3, <1>8, <1>9 DEF GateOK, AbsentOrBegun
<1>11. \A n \in Activations : ActOK(n)'
  BY <1>3 DEF IInv, ActOK, Finished
<1> QED
  BY <1>3, <1>7, <1>9, <1>10, <1>11 DEF IInv, TypeOK
(* The effect: a reset gate says nothing, and a new check asks about the user. *)
LEMMA EffectKeeps ==
  ASSUME IInv, NEW u \in Users \cup {NoUser}, NEW r \in BOOLEAN, RunEffect(u, r),
         UNCHANGED <<pda, ata, act>>
  PROVE  /\ check' \in [Checks -> CheckState] /\ \A c \in Checks : CheckOK(c)'
         /\ gate' \in [provisioned: BOOLEAN, checked: BOOLEAN, activating: BOOLEAN,
                      blind: BOOLEAN, about: Users \cup {NoUser}]
         /\ GateOK'
<1>1. Grows
  BY DEF Grows, AbsentOrBegun
<1>2. CASE u = NoUser \/ ~r
  <2>1. gate' = GateReset /\ UNCHANGED check
    BY <1>2 DEF RunEffect
  <2>2. gate'.checked = FALSE
        /\ gate' \in [provisioned: BOOLEAN, checked: BOOLEAN, activating: BOOLEAN,
                     blind: BOOLEAN, about: Users \cup {NoUser}]
    BY <2>1 DEF GateReset, IInv, TypeOK
  <2>3. GateOK'
    BY <2>2 DEF GateOK
  <2> QED
    BY <1>1, <2>1, <2>2, <2>3, ChecksKeep DEF IInv, TypeOK
<1>3. CASE ~(u = NoUser \/ ~r)
  <2> DEFINE s == [pc |-> "asked", who |-> u, val |-> "none"]
  <2>1. PICK c \in Checks : check' = [check EXCEPT ![c] = s]
    BY <1>3 DEF RunEffect
  <2>2. UNCHANGED gate
    BY <1>3 DEF RunEffect
  <2>3. s \in CheckState /\ s.pc = "asked" /\ s.who = u
    BY DEF CheckState, Verdict
  <2> HIDE DEF s
  <2>4. check'[c] = s
    BY <2>1 DEF IInv, TypeOK
  <2>5. CheckOK(c)'
    BY <1>3, <2>3, <2>4 DEF CheckOK, Checking
  <2>6. check' \in [Checks -> CheckState] /\ \A d \in Checks : CheckOK(d)'
    BY <2>1, <2>3, <2>5, CheckMoves
  <2> QED
    BY <1>1, <2>2, <2>6, GateKeeps DEF IInv, TypeOK
<1> QED
  BY <1>2, <1>3

LEMMA UserStep ==
  ASSUME IInv, (\E u \in Users : Connect(u)) \/ Disconnect \/ Resolve
  PROVE  IInv'
<1>1. UNCHANGED <<pda, ata, act>>
  BY DEF Connect, Disconnect, Resolve
<1>2. \A n \in Activations : ActOK(n)'
  BY <1>1 DEF IInv, ActOK, Finished
<1>3. CASE \E u \in Users : Connect(u)
  <2>1. PICK u \in Users : Connect(u)
    BY <1>3
  <2>2. RunEffect(u, resolved) /\ active' = u /\ resolved' = resolved /\ resolved \in BOOLEAN
    BY <2>1 DEF Connect, IInv, TypeOK
  <2> QED
    BY <1>1, <1>2, <2>2, EffectKeeps DEF IInv, TypeOK
<1>4. CASE Resolve
  <2>1. RunEffect(active, TRUE) /\ resolved' = TRUE /\ active' = active
        /\ active \in Users \cup {NoUser}
    BY <1>4 DEF Resolve, IInv, TypeOK
  <2> QED
    BY <1>1, <1>2, <2>1, EffectKeeps DEF IInv, TypeOK
<1>5. CASE Disconnect
  <2>1. UNCHANGED check /\ active' = NoUser /\ UNCHANGED resolved
        /\ gate' = [GateReset EXCEPT !.activating = FALSE]
    BY <1>5 DEF Disconnect
  <2>2. gate'.checked = FALSE
        /\ gate' \in [provisioned: BOOLEAN, checked: BOOLEAN, activating: BOOLEAN,
                     blind: BOOLEAN, about: Users \cup {NoUser}]
    BY <2>1 DEF GateReset, IInv, TypeOK
  <2>3. GateOK'
    BY <2>2 DEF GateOK
  <2>4. Grows
    BY <1>1 DEF Grows, AbsentOrBegun
  <2>5. \A c \in Checks : CheckOK(c)'
    BY <2>1, <2>4, ChecksKeep
  <2> QED
    BY <1>1, <1>2, <2>1, <2>2, <2>3, <2>5 DEF IInv, TypeOK
<1> QED
  BY <1>3, <1>4, <1>5

LEMMA ReloadStep == ASSUME IInv, Reload PROVE IInv'
<1>1. UNCHANGED <<pda, ata>> /\ active' = NoUser /\ resolved' \in BOOLEAN
  BY DEF Reload
<1>2. \A c \in Checks : check'[c] \in CheckState /\ ((check'[c] = check[c] /\ ~Checking(c)) \/ check'[c] = Spent)
  BY DEF Reload, IInv, TypeOK, Spent, CheckState, Verdict
<1>3. check' \in [Checks -> CheckState]
  BY <1>2 DEF Reload
<1>4. \A c \in Checks : CheckOK(c)'
  BY <1>2 DEF CheckOK, Checking, Spent
<1>5. ASSUME NEW n \in Activations
      PROVE  act'[n] \in ActState /\ act'[n].who = act[n].who /\ ActOK(n)'
  <2>1. CASE ~Activating(n)
    <3>1. act'[n] = act[n]
      BY <2>1 DEF Reload
    <3> QED
      BY <1>1, <3>1 DEF IInv, TypeOK, ActOK, Finished
  <2>2. CASE Activating(n)
    <3> DEFINE r == act[n]
    <3>1. act'[n] = [r EXCEPT !.pc = "failed"]
      BY <2>2 DEF Reload
    <3>2. r \in ActState /\ ActOK(n) /\ r.who \in Users
      BY <2>2, ActFacts DEF Activating
    <3> HIDE DEF r
    <3>3. act'[n] \in ActState /\ act'[n].pc = "failed" /\ act'[n].who = r.who
          /\ act'[n].next = r.next /\ act'[n].popups = r.popups
      BY <3>1, <3>2 DEF ActState
    <3> QED
      BY <3>2, <3>3, ProvisioningAssumption DEF r, ActOK, Finished
  <2> QED
    BY <2>1, <2>2
<1>6. act' \in [Activations -> ActState]
  BY <1>5 DEF Reload
<1>7. gate'.checked = FALSE
      /\ gate' \in [provisioned: BOOLEAN, checked: BOOLEAN, activating: BOOLEAN,
                   blind: BOOLEAN, about: Users \cup {NoUser}]
  BY DEF Reload
<1>8. GateOK'
  BY <1>7 DEF GateOK
<1> QED
  BY <1>1, <1>3, <1>4, <1>5, <1>6, <1>7, <1>8 DEF IInv, TypeOK

LEMMA StutterStep == ASSUME IInv, UNCHANGED vars PROVE IInv'
<1>1. UNCHANGED <<pda, ata, active, resolved, gate, check, act>>
  BY DEF vars
<1>2. \A n \in Activations : ActOK(n)'
  BY <1>1 DEF IInv, ActOK, Finished
<1>3. \A c \in Checks : CheckOK(c)'
  BY <1>1 DEF IInv, CheckOK, Checking, AbsentOrBegun
<1>4. GateOK'
  BY <1>1 DEF IInv, GateOK, AbsentOrBegun
<1> QED
  BY <1>1, <1>2, <1>3, <1>4 DEF IInv, TypeOK

LEMMA NextIInv == IInv /\ [Next]_vars => IInv'
<1> SUFFICES ASSUME IInv, [Next]_vars PROVE IInv'
  OBVIOUS
<1>1. ASSUME NEW c \in Checks, CheckStep(c) PROVE IInv'
  BY <1>1, AnswerStep, DeliverStep DEF CheckStep
<1>2. ASSUME NEW n \in Activations, Activate(n) \/ ActStep(n) PROVE IInv'
  BY <1>2, ActivateStep, ReadPdaStep, CreatePdaStep, ReadAtaStep, CreateAtaStep, FinishStep,
     EndStep DEF ActStep
<1>3. ASSUME IdentityStep \/ Resolve PROVE IInv'
  BY <1>3, UserStep DEF IdentityStep
<1> QED
  BY <1>1, <1>2, <1>3, ReloadStep, StutterStep DEF Next, GateStep

-----------------------------------------------------------------------------
(* What the invariant gives: the three properties of the gate.               *)
LEMMA GateFollows ==
  IInv => OwnVerdictIsRight /\ PanelMeansAccount /\ ActivatedIsComplete
<1> SUFFICES ASSUME IInv PROVE OwnVerdictIsRight /\ PanelMeansAccount /\ ActivatedIsComplete
  OBVIOUS
<1>1. OwnVerdictIsRight
  BY DEF IInv, GateOK, OwnVerdictIsRight, ActivateShown, ShownProvisioned, AbsentOrBegun
<1>2. PanelMeansAccount
  BY DEF IInv, GateOK, PanelMeansAccount, PanelShown, ShownProvisioned
<1>3. ActivatedIsComplete
  BY DEF IInv, ActOK, ActivatedIsComplete
<1> QED
  BY <1>1, <1>2, <1>3

(* The gate's variables keep their types, whatever is read, activated,       *)
(* connected or loaded again (useProvisionedCheck, runActivate).             *)
THEOREM GateTypeCorrect == Spec => []TypeOK
<1>1. IInv => TypeOK
  BY DEF IInv
<1> QED
  BY <1>1, InitIInv, NextIInv, PTL DEF Spec

(* A verdict about the connected account is right unless an activation of its *)
(* own was begun meanwhile; the panel of a concluded check has its account;   *)
(* and an activation that ends well leaves every token account there is.     *)
THEOREM GateCorrect ==
  Spec => [](OwnVerdictIsRight /\ PanelMeansAccount /\ ActivatedIsComplete)
BY InitIInv, NextIInv, GateFollows, PTL DEF Spec

-----------------------------------------------------------------------------
(* The gate beside the rest.                                               *)

GateInv == page = "gate" => IInv

LEMMA GateInvInit == InitOfSide => GateInv
BY InitIInv DEF InitOfSide, GateInit, GateInv

LEMMA GateInvNext == GateInv /\ [SideNext]_sideVars => GateInv'
<1> SUFFICES ASSUME page = "gate", IInv, [SideNext]_sideVars, page' = "gate" PROVE IInv'
  BY DEF GateInv, SideNext, Only, sideVars
<1>1. [Next]_vars
  BY DEF SideNext, Only, sideVars, gateVars
<1> QED
  BY <1>1, NextIInv

(* The Activate gate as it stands beside the rest: what the run checks, for  *)
(* any users, assets, checks and activations.                               *)
THEOREM GateStaysRight == SideSpec => []GateIsRight
<1>1. GateInv => GateIsRight
  BY GateFollows DEF GateInv, GateIsRight
<1> QED
  BY <1>1, GateInvInit, GateInvNext, PTL DEF SideSpec

-----------------------------------------------------------------------------
ShapeInv == page = "shape" => ShapeIInv

LEMMA ShapeInvInit == InitOfSide => ShapeInv
BY ShapeInitInv DEF InitOfSide, ShapeInv

LEMMA ShapeInvNext == ShapeInv /\ [SideNext]_sideVars => ShapeInv'
<1> SUFFICES ASSUME page = "shape", ShapeIInv, [SideNext]_sideVars, page' = "shape" PROVE ShapeIInv'
  BY DEF ShapeInv, SideNext, Only, sideVars
<1>1. Shape!Next \/ UNCHANGED shapeVars
  BY DEF SideNext, Only, sideVars
<1> QED
  BY <1>1, ShapeNextInv

(* Asset lists beside the rest: for any Comets and any number of collaterals,  *)
(* reads and reloads, neither lane works with another Comet's assets.        *)
THEOREM ShapeStaysRight == SideSpec => []ShapeIsRight
<1>1. ShapeInv => ShapeIsRight
  BY ShapeFollows DEF ShapeInv, ShapeIsRight
<1> QED
  BY <1>1, ShapeInvInit, ShapeInvNext, PTL DEF SideSpec

-----------------------------------------------------------------------------
FeedInv == page = "feed" => FeedIInv

LEMMA FeedInvInit == InitOfSide => FeedInv
BY FeedInitInv DEF InitOfSide, FeedInv

LEMMA FeedInvNext == FeedInv /\ [SideNext]_sideVars => FeedInv'
<1> SUFFICES ASSUME page = "feed", FeedIInv, [SideNext]_sideVars, page' = "feed" PROVE FeedIInv'
  BY DEF FeedInv, SideNext, Only, sideVars
<1>1. Feed!Next \/ UNCHANGED feedVars
  BY DEF SideNext, Only, sideVars
<1> QED
  BY <1>1, FeedNextInv

-----------------------------------------------------------------------------
RowInv == page = "rows" => RowIInv

LEMMA RowInvInit == InitOfSide => RowInv
BY RowInitInv DEF InitOfSide, RowInv

LEMMA RowInvNext == RowInv /\ [SideNext]_sideVars => RowInv'
<1> SUFFICES ASSUME page = "rows", RowIInv, [SideNext]_sideVars, page' = "rows" PROVE RowIInv'
  BY DEF RowInv, SideNext, Only, sideVars
<1>1. Line!Next \/ UNCHANGED rowVars
  BY DEF SideNext, Only, sideVars
<1> QED
  BY <1>1, RowNextInv

(* The activity list beside the rest: for any users, logs, slots and bounds    *)
(* on the number of rows, a read of the Solana lane is about who is connected, *)
(* no row of before a disconnection comes back, and a row says what was sent.   *)
THEOREM FeedStaysRight == SideSpec => []FeedIsRight
<1>1. FeedInv /\ RowInv => FeedIsRight
  BY FeedFollows, RowFollows DEF FeedInv, RowInv, FeedIsRight
<1> QED
  BY <1>1, FeedInvInit, FeedInvNext, RowInvInit, RowInvNext, PTL DEF SideSpec

-----------------------------------------------------------------------------
AltInv == page = "tables" => AltIInv

LEMMA AltInvInit == InitOfSide => AltInv
BY AltInitInv DEF InitOfSide, AltInv

LEMMA AltInvNext == AltInv /\ [SideNext]_sideVars => AltInv'
<1> SUFFICES ASSUME page = "tables", AltIInv, [SideNext]_sideVars, page' = "tables" PROVE AltIInv'
  BY DEF AltInv, SideNext, Only, sideVars
<1>1. Alt!Next \/ UNCHANGED altVars
  BY DEF SideNext, Only, sideVars
<1> QED
  BY <1>1, AltNextInv DEF altVars, Alt!vars

-----------------------------------------------------------------------------
SignInv == page = "sign" => SignIInv

LEMMA SignInvInit == InitOfSide => SignInv
BY SignInitInv DEF InitOfSide, SignInv

LEMMA SignInvNext == SignInv /\ [SideNext]_sideVars => SignInv'
<1> SUFFICES ASSUME page = "sign", SignIInv, [SideNext]_sideVars, page' = "sign" PROVE SignIInv'
  BY DEF SignInv, SideNext, Only, sideVars
<1>1. Sign!Next \/ UNCHANGED signVars
  BY DEF SideNext, Only, sideVars
<1> QED
  BY <1>1, SignNextInv

(* Lookup tables beside the rest: for any tabs, devices, keys, account sets,    *)
(* chunk sizes and closed tabs, the table that ensureAlt returns is complete on  *)
(* chain, and what one device remembers every device finds and uses; and for any  *)
(* owners, chains and tables, what is asked to be signed has all its accounts      *)
(* and the right payer and cluster.                                            *)
THEOREM TablesStayRight == SideSpec => []TablesAreRight
<1>1. AltInv /\ SignInv => TablesAreRight
  BY AltFollows, SignFollows DEF AltInv, SignInv, TablesAreRight
<1> QED
  BY <1>1, AltInvInit, AltInvNext, SignInvInit, SignInvNext, PTL DEF SideSpec

-----------------------------------------------------------------------------
WalletInv == page = "wallet" => Wallet!ConnectTypeOK

LEMMA WalletInvInit == InitOfSide => WalletInv
BY WalletInitInv DEF InitOfSide, WalletInv

LEMMA WalletInvNext == WalletInv /\ [SideNext]_sideVars => WalletInv'
<1> SUFFICES ASSUME page = "wallet", Wallet!ConnectTypeOK, [SideNext]_sideVars, page' = "wallet" PROVE Wallet!ConnectTypeOK'
  BY DEF WalletInv, SideNext, Only, sideVars
<1>1. Wallet!Next \/ UNCHANGED walletVars
  BY DEF SideNext, Only, sideVars
<1> QED
  BY <1>1, WalletNextInv

-----------------------------------------------------------------------------
CacheInv == page = "cache" => CacheIInv

LEMMA CacheInvInit == InitOfSide => CacheInv
BY CacheInitInv DEF InitOfSide, CacheInv

LEMMA CacheInvNext == CacheInv /\ [SideNext]_sideVars => CacheInv'
<1> SUFFICES ASSUME page = "cache", CacheIInv, [SideNext]_sideVars, page' = "cache" PROVE CacheIInv'
  BY DEF CacheInv, SideNext, Only, sideVars
<1>1. Cache!Next \/ UNCHANGED cacheVars
  BY DEF SideNext, Only, sideVars
<1> QED
  BY <1>1, CacheNextInv

-----------------------------------------------------------------------------
MarketInv == page = "market" => MarketIInv

LEMMA MarketInvInit == InitOfSide => MarketInv
BY MarketInitInv DEF InitOfSide, MarketInv

LEMMA MarketInvNext == MarketInv /\ [SideNext]_sideVars => MarketInv'
<1> SUFFICES ASSUME page = "market", MarketIInv, [SideNext]_sideVars, page' = "market" PROVE MarketIInv'
  BY DEF MarketInv, SideNext, Only, sideVars
<1>1. Market!Next \/ UNCHANGED marketVars
  BY DEF SideNext, Only, sideVars
<1> QED
  BY <1>1, MarketNextInv

-----------------------------------------------------------------------------
StoreInv == page = "storefront" => StoreIInv

LEMMA StoreInvInit == InitOfSide => StoreInv
BY StoreInitInv DEF InitOfSide, StoreInv

LEMMA StoreInvNext == StoreInv /\ [SideNext]_sideVars => StoreInv'
<1> SUFFICES ASSUME page = "storefront", StoreIInv, [SideNext]_sideVars, page' = "storefront" PROVE StoreIInv'
  BY DEF StoreInv, SideNext, Only, sideVars
<1>1. Store!Next \/ UNCHANGED storeVars
  BY DEF SideNext, Only, sideVars
<1> QED
  BY <1>1, StoreNextInv

-----------------------------------------------------------------------------
ReserveInv == page = "reserves" => ReserveIInv

LEMMA ReserveInvInit == InitOfSide => ReserveInv
BY ReserveInitInv DEF InitOfSide, ReserveInv

LEMMA ReserveInvNext == ReserveInv /\ [SideNext]_sideVars => ReserveInv'
<1> SUFFICES ASSUME page = "reserves", ReserveIInv, [SideNext]_sideVars, page' = "reserves" PROVE ReserveIInv'
  BY DEF ReserveInv, SideNext, Only, sideVars
<1>1. Rows!Next \/ UNCHANGED reserveVars
  BY DEF SideNext, Only, sideVars
<1> QED
  BY <1>1, ReserveNextInv

(* Market data beside the rest: for any chains, tiers, histories, collaterals,   *)
(* factors, loads and numbers of changes, an entry of the cache is of its chain    *)
(* and no older than the last revalidation, a market's read is of one asset a     *)
(* row, of one picture a page and whole where it is cached, the storefront names   *)
(* what is for sale, and no reserve is shown with the figures of another.          *)
THEOREM ServerStaysRight == SideSpec => []ServerIsRight
<1>1. CacheInv /\ MarketInv /\ StoreInv /\ ReserveInv => ServerIsRight
  BY CacheFollows, MarketFollows, StoreFollows, ReserveFollows
     DEF CacheInv, MarketInv, StoreInv, ReserveInv, ServerIsRight
<1> QED
  BY <1>1, CacheInvInit, CacheInvNext, MarketInvInit, MarketInvNext, StoreInvInit, StoreInvNext,
     ReserveInvInit, ReserveInvNext, PTL DEF SideSpec

-----------------------------------------------------------------------------
BootInv == page = "boot" => BootIInv

LEMMA BootInvInit == InitOfSide => BootInv
BY BootInitInv DEF InitOfSide, BootInv

LEMMA BootInvNext == BootInv /\ [SideNext]_sideVars => BootInv'
<1> SUFFICES ASSUME page = "boot", BootIInv, [SideNext]_sideVars, page' = "boot" PROVE BootIInv'
  BY DEF BootInv, SideNext, Only, sideVars
<1>1. Boot!Next \/ UNCHANGED bootVars
  BY DEF SideNext, Only, sideVars
<1> QED
  BY <1>1, BootNextInv

-----------------------------------------------------------------------------
RegistryInv == page = "registry" => RegistryIInv

LEMMA RegistryInvInit == InitOfSide => RegistryInv
BY RegistryInitInv DEF InitOfSide, RegistryInv

LEMMA RegistryInvNext == RegistryInv /\ [SideNext]_sideVars => RegistryInv'
<1> SUFFICES ASSUME page = "registry", RegistryIInv, [SideNext]_sideVars, page' = "registry" PROVE RegistryIInv'
  BY DEF RegistryInv, SideNext, Only, sideVars
<1>1. Registry!Next \/ UNCHANGED registryVars
  BY DEF SideNext, Only, sideVars
<1> QED
  BY <1>1, RegistryNextInv

(* The boot beside the rest: for any committed file, registries, pins,          *)
(* environments, entries and edits, a position is read of the deployment's chain  *)
(* only, nobody is put on a real-testnet chain while there is another, no tier of   *)
(* the Solana proxy is asked twice, and a check that passed means that every part   *)
(* takes its Comet from what the registry says.                                *)
THEOREM BootStaysRight == SideSpec => []BootIsRight
<1>1. BootInv /\ RegistryInv => BootIsRight
  BY BootFollows, RegistryFollows DEF BootInv, RegistryInv, BootIsRight
<1> QED
  BY <1>1, BootInvInit, BootInvNext, RegistryInvInit, RegistryInvNext, PTL DEF SideSpec

-----------------------------------------------------------------------------
(* What the figures of an account are made of: weights, sums of them, and the   *)
(* health of a weight against a debt.                                       *)

LEMMA FigSum == ASSUME NEW f PROVE Fig!SumFunction(f) = SumFunctionOnSet(f, DOMAIN f)
BY DEF Fig!SumFunction, Fig!SumFunctionOnSet, Fig!FoldFunctionOnSet, Fig!MapThenFoldSet,
       SumFunctionOnSet, FoldFunctionOnSet, MapThenFoldSet

LEMMA FigShapes ==
  ASSUME Fig!FiguresTypeOK
  PROVE  /\ coll \in [Backing -> Nat] /\ price \in [Backing -> Nat] /\ base \in Int
         /\ live \in SUBSET (Backing \cup {"base"})
         /\ BorrowFactor \in [Backing -> Nat] /\ LiquidateFactor \in [Backing -> Nat]
         /\ Fig!Debt \in Nat /\ Fig!Supplied \in Nat /\ (base < 0 <=> Fig!Debt > 0)
         /\ (base <= 0 => Fig!Debt = 0 - base)
<1>1. /\ coll \in [Backing -> 0 .. MaxColl] /\ base \in Int /\ price \in [Backing -> Prices]
      /\ live \in SUBSET (Backing \cup {"base"}) /\ Prices \subseteq Nat
  BY FiguresAssumption DEF Fig!FiguresTypeOK
<1>2. coll \in [Backing -> Nat] /\ price \in [Backing -> Nat]
  <2>1. ASSUME NEW c \in Backing PROVE coll[c] \in Nat /\ price[c] \in Nat
    <3>1. coll[c] \in 0 .. MaxColl /\ price[c] \in Prices
      BY <1>1
    <3>2. MaxColl \in Nat /\ Prices \subseteq Nat
      BY FiguresAssumption
    <3>3. coll[c] \in Nat
      BY <3>1, <3>2
    <3>4. price[c] \in Nat
      BY <3>1, <3>2, Zenon
    <3> QED
      BY <3>3, <3>4
  <2> QED
    BY <1>1, <2>1
<1>3. BorrowFactor \in [Backing -> Nat] /\ LiquidateFactor \in [Backing -> Nat]
  BY FiguresAssumption
<1> QED
  BY <1>1, <1>2, <1>3 DEF Fig!Debt, Fig!Supplied

(* A product of two keeps the order of one.                                   *)
LEMMA Scales == ASSUME NEW x \in Nat, NEW y \in Nat, NEW z \in Nat, x <= y PROVE z * x \in Nat /\ z * x <= z * y
OBVIOUS

(* The weights are numbers, and what is weighed to be liquidated is worth no     *)
(* less than what is weighed to be borrowed against.                          *)
LEMMA WeightsFit ==
  ASSUME Fig!FiguresTypeOK
  PROVE  /\ Fig!Weighed(BorrowFactor, live) \in Nat /\ Fig!Weighed(LiquidateFactor, live) \in Nat
         /\ Fig!Weighed(BorrowFactor, live) <= Fig!Weighed(LiquidateFactor, live)
<1> DEFINE S == Backing \cap live
           f == [c \in S |-> coll[c] * price[c] * BorrowFactor[c]]
           h == [c \in S |-> coll[c] * price[c] * LiquidateFactor[c]]
<1>1. IsFiniteSet(S) /\ S \subseteq Backing
  BY FiguresAssumption, FS_Subset
<1>2. ASSUME NEW c \in S PROVE f[c] \in Nat /\ h[c] \in Nat /\ f[c] <= h[c]
  <2>1. coll[c] \in Nat /\ price[c] \in Nat /\ BorrowFactor[c] \in Nat /\ LiquidateFactor[c] \in Nat
        /\ BorrowFactor[c] <= LiquidateFactor[c]
    BY <1>1, FigShapes, FiguresAssumption
  <2> DEFINE z == coll[c] * price[c]
  <2>2. z \in Nat
    BY <2>1
  <2>3. f[c] = z * BorrowFactor[c] /\ h[c] = z * LiquidateFactor[c]
    OBVIOUS
  <2> HIDE DEF z, f, h
  <2>4. z * BorrowFactor[c] \in Nat /\ z * BorrowFactor[c] <= z * LiquidateFactor[c]
    BY <2>1, <2>2, Scales
  <2>5. z * LiquidateFactor[c] \in Nat
    BY <2>1, <2>2
  <2> QED
    BY <2>3, <2>4, <2>5
<1>3. /\ Fig!Weighed(BorrowFactor, live) = SumFunctionOnSet(f, S)
      /\ Fig!Weighed(LiquidateFactor, live) = SumFunctionOnSet(h, S)
  BY FigSum DEF Fig!Weighed
<1> HIDE DEF S, f, h
<1>4. Summable(f, S) /\ Summable(h, S) /\ \A c \in S : f[c] \in Nat /\ h[c] \in Nat /\ f[c] <= h[c]
  BY <1>1, <1>2 DEF Summable
<1>5. SumFunctionOnSet(f, S) \in Nat
  BY <1>4, SumNat
<1>6. SumFunctionOnSet(h, S) \in Nat
  BY <1>4, SumNat
<1>7. SumFunctionOnSet(f, S) <= SumFunctionOnSet(h, S)
  BY <1>4, SumAtMost
<1> QED
  BY <1>3, <1>5, <1>6, <1>7

(* What is shown, in the terms of the weights.                                *)
LEMMA ShownIs ==
  ASSUME Fig!FiguresTypeOK, NEW l \in Fig!Lanes
  PROVE  /\ Fig!Shown(l).borrowed = 100 * Fig!Debt
         /\ Fig!Shown(l).capacity = Fig!Weighed(BorrowFactor, live)
         /\ Fig!Shown(l).pricesStale = (\E c \in Backing \ live : coll[c] > 0)
         /\ Fig!Shown(l).health = Fig!Clamped(IF l = "solana" THEN Fig!SolanaHealth ELSE Fig!EvmHealth)
BY DEF Fig!Shown, Fig!PositionStats

(* A health of weight w against a debt d, cut off at its ceiling: what it is   *)
(* at most, and at least.                                                  *)
LEMMA ClampedIs ==
  ASSUME NEW w \in Nat, NEW d \in Nat
  PROVE  /\ w <= NoDebtHealth * d => Fig!Clamped(Fig!Ratio(w, d)) = Fig!Ratio(w, d)
         /\ ~(w <= NoDebtHealth * d) => Fig!Clamped(Fig!Ratio(w, d)) = Fig!Ratio(NoDebtHealth, 1)
<1>1. NoDebtHealth \in Nat /\ NoDebtHealth * d \in Nat /\ w * 1 = w
  BY FiguresAssumption
<1>2. Fig!AtMost(Fig!Ratio(w, d), Fig!NoDebt) <=> w <= NoDebtHealth * d
  BY <1>1 DEF Fig!AtMost, Fig!Ratio, Fig!NoDebt
<1> QED
  BY <1>2 DEF Fig!Clamped, Fig!NoDebt

(* Putting another health into a record of figures.                           *)
LEMMA Restated ==
  ASSUME NEW a, NEW b, NEW c, NEW h, NEW p, NEW q
  PROVE  [[supplied |-> a, borrowed |-> b, capacity |-> c, health |-> h, pricesStale |-> p] EXCEPT !.health = q]
         = [supplied |-> a, borrowed |-> b, capacity |-> c, health |-> q, pricesStale |-> p]
OBVIOUS

LEMMA AgreeFollows == Fig!FiguresTypeOK => Fig!LanesAgree
<1> SUFFICES ASSUME Fig!FiguresTypeOK, "base" \in live
             PROVE  /\ [Fig!Shown("solana") EXCEPT !.health = Fig!NoDebt] = [Fig!Shown("evm") EXCEPT !.health = Fig!NoDebt]
                    /\ Fig!AtMost(Fig!Shown("solana").health, Fig!Shown("evm").health)
  BY DEF Fig!LanesAgree
<1>1. [Fig!Shown("solana") EXCEPT !.health = Fig!NoDebt] = [Fig!Shown("evm") EXCEPT !.health = Fig!NoDebt]
  <2> DEFINE all == Fig!SumFunction(Fig!Rows)
             debt == 100 * Fig!Debt
             room == Fig!Weighed(BorrowFactor, live)
             stale == \E c \in Backing \ live : coll[c] > 0
             Stats(h) == [supplied |-> all, borrowed |-> debt, capacity |-> room, health |-> h, pricesStale |-> stale]
  <2>1. /\ Fig!Shown("solana") = Stats(Fig!Shown("solana").health)
        /\ Fig!Shown("evm") = Stats(Fig!Shown("evm").health)
    BY Zenon DEF Fig!Shown, Fig!PositionStats
  <2> HIDE DEF all, debt, room, stale
  <2>2. ASSUME NEW h PROVE [Stats(h) EXCEPT !.health = Fig!NoDebt] = Stats(Fig!NoDebt)
    BY Restated
  <2> HIDE DEF Stats
  <2> QED
    BY <2>1, <2>2
<1> DEFINE w == Fig!Weighed(BorrowFactor, live)
           v == Fig!Weighed(LiquidateFactor, live)
           d == 100 * Fig!Debt
           s == Fig!Shown("solana").health
           e == Fig!Shown("evm").health
<1>2. w \in Nat /\ v \in Nat /\ w <= v /\ d \in Nat /\ NoDebtHealth \in Nat
  BY WeightsFit, FigShapes, FiguresAssumption
<1>3. s = Fig!Clamped(Fig!SolanaHealth) /\ e = Fig!Clamped(Fig!EvmHealth)
  BY ShownIs DEF Fig!Lanes
<1>4. CASE Fig!Debt > 0
  <2>1. s = Fig!Clamped(Fig!Ratio(w, d)) /\ e = Fig!Clamped(Fig!Ratio(v, d))
    BY <1>3, <1>4 DEF Fig!SolanaHealth, Fig!EvmHealth
  <2> HIDE DEF w, v, d, s, e
  <2>2. CASE v <= NoDebtHealth * d
    <3>1. w <= NoDebtHealth * d
      BY <1>2, <2>2
    <3>2. s = Fig!Ratio(w, d) /\ e = Fig!Ratio(v, d)
      BY <1>2, <2>1, <2>2, <3>1, ClampedIs
    <3>3. d * w <= d * v /\ d * w = w * d /\ d * v = v * d
      BY <1>2, Scales
    <3>4. Fig!AtMost(s, e)
      BY <3>2, <3>3 DEF Fig!AtMost, Fig!Ratio
    <3> QED
      BY <1>1, <3>4 DEF s, e
  <2>3. CASE ~(v <= NoDebtHealth * d) /\ w <= NoDebtHealth * d
    <3>1. s = Fig!Ratio(w, d) /\ e = Fig!Ratio(NoDebtHealth, 1)
      BY <1>2, <2>1, <2>3, ClampedIs
    <3>2. w * 1 = w
      BY <1>2
    <3>3. Fig!AtMost(s, e)
      BY <2>3, <3>1, <3>2 DEF Fig!AtMost, Fig!Ratio
    <3> QED
      BY <1>1, <3>3 DEF s, e
  <2>4. CASE ~(v <= NoDebtHealth * d) /\ ~(w <= NoDebtHealth * d)
    <3>1. s = Fig!Ratio(NoDebtHealth, 1) /\ e = Fig!Ratio(NoDebtHealth, 1)
      BY <1>2, <2>1, <2>4, ClampedIs
    <3>2. Fig!AtMost(s, e)
      BY <1>2, <3>1 DEF Fig!AtMost, Fig!Ratio
    <3> QED
      BY <1>1, <3>2 DEF s, e
  <2> QED
    BY <2>2, <2>3, <2>4
<1>5. CASE ~(Fig!Debt > 0)
  <2>1. s = Fig!Clamped(Fig!Ratio(NoDebtHealth, 1)) /\ e = Fig!Clamped(Fig!Ratio(NoDebtHealth, 1))
    BY <1>3, <1>5 DEF Fig!SolanaHealth, Fig!EvmHealth, Fig!NoDebt
  <2>2. s = Fig!Ratio(NoDebtHealth, 1) /\ e = Fig!Ratio(NoDebtHealth, 1)
    BY <1>2, <2>1, ClampedIs
  <2>3. Fig!AtMost(s, e)
    BY <1>2, <2>2 DEF Fig!AtMost, Fig!Ratio
  <2> QED
    BY <1>1, <2>3 DEF s, e
<1> QED
  BY <1>4, <1>5

(* A health of 1 or more has a weight that covers the debt.                     *)
LEMMA HealthyMeans ==
  ASSUME NEW w \in Nat, NEW d \in Nat, Fig!AtMost(Fig!Ratio(1, 1), Fig!Clamped(Fig!Ratio(w, d)))
  PROVE  d <= w
<1>1. CASE w <= NoDebtHealth * d
  <2>1. Fig!Clamped(Fig!Ratio(w, d)) = Fig!Ratio(w, d)
    BY <1>1, ClampedIs
  <2>2. 1 * d <= w * 1
    BY <2>1 DEF Fig!AtMost, Fig!Ratio
  <2> QED
    BY <2>2
<1>2. CASE ~(w <= NoDebtHealth * d)
  <2>1. NoDebtHealth \in Nat /\ 1 <= NoDebtHealth
    BY FiguresAssumption
  <2>2. d * 1 <= d * NoDebtHealth /\ d * NoDebtHealth = NoDebtHealth * d /\ d * 1 = d /\ d * NoDebtHealth \in Nat
    BY <2>1, Scales
  <2> QED
    BY <1>2, <2>2
<1> QED
  BY <1>1, <1>2

LEMMA SafeFollows == Fig!FiguresTypeOK => Fig!HealthyIsSafe
<1> SUFFICES ASSUME Fig!FiguresTypeOK, NEW l \in Fig!Lanes, Fig!AtMost(Fig!Ratio(1, 1), Fig!Shown(l).health),
                    Fig!Debt > 0, "base" \in live, ~Fig!Covered(LiquidateFactor, Fig!Debt)
             PROVE  FALSE
  BY DEF Fig!HealthyIsSafe, Fig!Liquidatable
<1> DEFINE w == Fig!Weighed(BorrowFactor, live)
           v == Fig!Weighed(LiquidateFactor, live)
           d == 100 * Fig!Debt
<1>1. w \in Nat /\ v \in Nat /\ w <= v /\ d \in Nat
  BY WeightsFit, FigShapes
<1>2. ~(v >= d)
  BY DEF Fig!Covered
<1>3. CASE l = "solana"
  <2>1. Fig!Shown(l).health = Fig!Clamped(Fig!Ratio(w, d))
    BY <1>3, ShownIs DEF Fig!SolanaHealth
  <2> HIDE DEF w, v, d
  <2>2. d <= w
    BY <1>1, <2>1, HealthyMeans
  <2> QED
    BY <1>1, <1>2, <2>2
<1>4. CASE l # "solana"
  <2>1. Fig!Shown(l).health = Fig!Clamped(Fig!Ratio(v, d))
    BY <1>4, ShownIs DEF Fig!EvmHealth
  <2> HIDE DEF w, v, d
  <2>2. d <= v
    BY <1>1, <2>1, HealthyMeans
  <2> QED
    BY <1>1, <1>2, <2>2
<1> QED
  BY <1>3, <1>4

LEMMA LentFollows == Fig!FiguresTypeOK => Fig!CapacityIsLent
<1> SUFFICES ASSUME Fig!FiguresTypeOK, NEW l \in Fig!Lanes, NEW n \in 1 .. MaxDebt,
                    Fig!Shown(l).borrowed + 100 * n <= Fig!Shown(l).capacity
             PROVE  Fig!Covered(BorrowFactor, Fig!Debt + n)
  BY DEF Fig!CapacityIsLent
<1>1. 100 * Fig!Debt + 100 * n <= Fig!Weighed(BorrowFactor, live)
  BY ShownIs
<1>2. Fig!Debt \in Nat /\ n \in Nat /\ Fig!Weighed(BorrowFactor, live) \in Nat
  BY FigShapes, WeightsFit, FiguresAssumption
<1>3. Fig!Weighed(BorrowFactor, live) >= 100 * (Fig!Debt + n)
  BY <1>1, <1>2
<1> QED
  BY <1>3 DEF Fig!Covered

(* A positive factor may be taken out of an inequality.                       *)
LEMMA FigCancels ==
  ASSUME NEW x \in Int, NEW y \in Int, NEW z \in Nat \ {0}
  PROVE  /\ z * x <= z * y <=> x <= y
         /\ z * x \in Int /\ z * y \in Int /\ z * x = x * z /\ z * y = y * z
<1>1. CASE x <= y
  BY <1>1
<1>2. CASE y <= x - 1
  BY <1>2
<1> QED
  BY <1>1, <1>2

(* The debt b of a weight w becomes c: the health that the panel promises from the   *)
(* one shown, and the one that will be shown.                                 *)
Promise(h, b, c) == Fig!Ratio(h.n * b, h.d * c)

LEMMA PromiseHolds ==
  ASSUME NEW w \in Nat, NEW b \in Nat \ {0}, NEW c \in Nat \ {0},
         NEW h, h = Fig!Clamped(Fig!Ratio(w, b)),
         NEW is, is = Fig!Clamped(Fig!Ratio(w, c)),
         NEW p, p = Promise(h, b, c)
  PROVE  /\ Fig!AtMost(Fig!Clamped(p), is)
         /\ ~Fig!Same(h, Fig!NoDebt) => Fig!Same(Fig!Clamped(p), is)
         /\ Fig!AtMost(Fig!Ratio(11, 10), p) => Fig!AtMost(Fig!Ratio(11, 10), is)
<1> DEFINE N == NoDebtHealth
           Top == Fig!Ratio(N, 1)
<1>1. N \in Nat /\ N >= 2 /\ b \in Nat /\ c \in Nat
  BY FiguresAssumption
<1>2. Fig!AtMost(Top, Top) /\ Fig!Same(Top, Top) /\ Fig!AtMost(Fig!Ratio(11, 10), Top)
  BY <1>1 DEF Fig!AtMost, Fig!Same, Fig!Ratio
<1>3. N * b \in Nat /\ N * c \in Nat /\ b * c \in Nat /\ w * b \in Nat /\ w * c \in Nat
  BY <1>1
<1> HIDE DEF N
<1>4. CASE w <= N * b
  <2>1. h = Fig!Ratio(w, b)
    BY <1>4, ClampedIs DEF N
  <2>2. p = Fig!Ratio(w * b, b * c)
    BY <2>1 DEF Promise, Fig!Ratio
  <2>3. w * b <= N * (b * c) <=> w <= N * c
    <3>1. w * b = b * w /\ N * (b * c) = b * (N * c)
      BY <1>1, <1>3
    <3> QED
      BY <1>3, <3>1, FigCancels
  <2>4. CASE w <= N * c
    <3>1. Fig!Clamped(p) = Fig!Ratio(w * b, b * c) /\ is = Fig!Ratio(w, c)
      BY <1>1, <1>3, <2>2, <2>3, <2>4, ClampedIs DEF N
    <3>2. (w * b) * c = w * (b * c)
      BY <1>1
    <3>3. (w * b) * c \in Nat
      BY <1>1, <1>3
    <3>4. Fig!AtMost(Fig!Clamped(p), is) /\ Fig!Same(Fig!Clamped(p), is)
      BY <3>1, <3>2, <3>3 DEF Fig!AtMost, Fig!Same, Fig!Ratio
    <3>5. ASSUME Fig!AtMost(Fig!Ratio(11, 10), p) PROVE Fig!AtMost(Fig!Ratio(11, 10), is)
      <4>1. 11 * (b * c) <= (w * b) * 10
        BY <2>2, <3>5 DEF Fig!AtMost, Fig!Ratio
      <4>2. 11 * (b * c) = b * (11 * c) /\ (w * b) * 10 = b * (w * 10)
        BY <1>1
      <4>3. 11 * c <= w * 10
        BY <1>1, <4>1, <4>2, FigCancels
      <4> QED
        BY <3>1, <4>3 DEF Fig!AtMost, Fig!Ratio
    <3> QED
      BY <3>4, <3>5
  <2>5. CASE ~(w <= N * c)
    <3>1. Fig!Clamped(p) = Top /\ is = Top
      BY <1>1, <1>3, <2>2, <2>3, <2>5, ClampedIs DEF N
    <3> QED
      BY <1>2, <3>1
  <2> QED
    BY <2>4, <2>5
<1>5. CASE ~(w <= N * b)
  <2>1. h = Top
    BY <1>5, ClampedIs DEF N
  <2>2. p = Fig!Ratio(N * b, c)
    <3>1. 1 * c = c
      BY <1>1
    <3> QED
      BY <2>1, <3>1 DEF Promise, Fig!Ratio
  <2>3. Fig!Same(h, Fig!NoDebt)
    BY <1>2, <2>1 DEF Fig!NoDebt, N
  <2>4. CASE w <= N * c
    <3>1. is = Fig!Ratio(w, c)
      BY <1>1, <2>4, ClampedIs DEF N
    <3>2. N * b <= N * c
      BY <1>3, <1>5, <2>4
    <3>3. Fig!Clamped(p) = Fig!Ratio(N * b, c)
      BY <1>1, <1>3, <2>2, <3>2, ClampedIs DEF N
    <3>4. c * (N * b) <= c * w /\ c * (N * b) = (N * b) * c /\ c * w = w * c
      BY <1>1, <1>3, <1>5, Scales
    <3>5. Fig!AtMost(Fig!Clamped(p), is)
      BY <3>1, <3>3, <3>4 DEF Fig!AtMost, Fig!Ratio
    <3>6. ASSUME Fig!AtMost(Fig!Ratio(11, 10), p) PROVE Fig!AtMost(Fig!Ratio(11, 10), is)
      <4>1. 11 * c <= (N * b) * 10
        BY <2>2, <3>6 DEF Fig!AtMost, Fig!Ratio
      <4>2. 11 * c <= w * 10
        BY <1>1, <1>3, <1>5, <4>1
      <4> QED
        BY <3>1, <4>2 DEF Fig!AtMost, Fig!Ratio
    <3> QED
      BY <2>3, <3>5, <3>6
  <2>5. CASE ~(w <= N * c)
    <3>1. is = Top
      BY <1>1, <2>5, ClampedIs DEF N
    <3>2. Fig!AtMost(Fig!Clamped(p), Top)
      <4>1. CASE N * b <= N * c
        <5>1. Fig!Clamped(p) = Fig!Ratio(N * b, c)
          BY <1>1, <1>3, <2>2, <4>1, ClampedIs DEF N
        <5>2. (N * b) * 1 <= N * c
          BY <1>3, <4>1
        <5> QED
          BY <5>1, <5>2 DEF Fig!AtMost, Fig!Ratio
      <4>2. CASE ~(N * b <= N * c)
        <5>1. Fig!Clamped(p) = Top
          BY <1>1, <1>3, <2>2, <4>2, ClampedIs DEF N
        <5> QED
          BY <1>2, <5>1
      <4> QED
        BY <4>1, <4>2
    <3> QED
      BY <1>2, <2>3, <3>1, <3>2
  <2> QED
    BY <2>4, <2>5
<1> QED
  BY <1>4, <1>5

(* The weight behind the health of a lane.                                    *)
WeightOf(l) == IF l = "solana" THEN Fig!Weighed(BorrowFactor, live) ELSE Fig!Weighed(LiquidateFactor, live)

LEMMA Negated ==
  ASSUME NEW x \in Int, x <= 0
  PROVE  0 - x \in Nat /\ (x < 0 => 0 - x # 0) /\ (IF x < 0 THEN -x ELSE 0) = 0 - x
OBVIOUS

LEMMA OutlookFollows ==
  ASSUME Fig!FiguresTypeOK, Fig!Next \/ UNCHANGED figureVars, NEW l \in Fig!Lanes
  PROVE  Fig!OutlookHolds(l)
<1> SUFFICES ASSUME base < 0, base' <= 0, base' # base, "base" \in live
             PROVE  LET was == Fig!Shown(l)
                        change == 100 * (base - base')
                        promised == Fig!Clamped(Fig!HealthAfter(was, change))
                        is == Fig!Shown(l).health'
                    IN /\ Fig!AtMost(promised, is)
                       /\ ~Fig!Same(was.health, Fig!NoDebt) => Fig!Same(promised, is)
                       /\ change > 0 /\ ~Fig!Warned(was, change) => Fig!AtMost(Fig!Ratio(11, 10), is)
  BY DEF Fig!OutlookHolds
<1> DEFINE b == 0 - base
           c == 0 - base'
           change == 100 * (base - base')
           was == Fig!Shown(l)
           after == Fig!HealthAfter(was, change)
           is == Fig!Shown(l).health'
           w == WeightOf(l)
<1>1. /\ UNCHANGED <<coll, price, live>>
      /\ \E n \in 1 .. MaxDebt : base' = base - n \/ base' = base + n
  BY DEF Fig!Next, Fig!SupplyCollateral, Fig!WithdrawCollateral, Fig!Borrow, Fig!Repay, Fig!MarketMoves, figureVars
<1>2. base \in Int /\ base' \in Int
  BY <1>1, FigShapes, FiguresAssumption
<1>3. b \in Nat \ {0} /\ c \in Nat /\ change = 100 * c - 100 * b /\ 100 * b \in Nat \ {0} /\ 100 * c \in Nat
  <2>1. b \in Nat \ {0} /\ c \in Nat
    <3>1. base <= 0 /\ base < 0 /\ base' <= 0
      BY <1>2
    <3>2. 0 - base \in Nat /\ 0 - base # 0
      BY <1>2, <3>1, Negated
    <3>3. 0 - base' \in Nat
      BY <1>2, <3>1, Negated
    <3> QED
      BY <3>2, <3>3
  <2>2. change = 100 * c - 100 * b
    BY <1>2
  <2> HIDE DEF b, c, change
  <2> QED
    BY <2>1, <2>2
<1>4. Fig!Debt = b /\ Fig!Debt' = c
  <2>1. base <= 0 /\ base' <= 0
    BY <1>2
  <2>2. Fig!Debt = b
    BY <1>2, <2>1, Negated DEF Fig!Debt
  <2>3. Fig!Debt' = (IF base' < 0 THEN -base' ELSE 0)
    BY DEF Fig!Debt
  <2>4. (IF base' < 0 THEN -base' ELSE 0) = c
    BY <1>2, <2>1, Negated
  <2> QED
    BY <2>2, <2>3, <2>4
<1>5. w \in Nat
  BY WeightsFit DEF WeightOf
<1>6. WeightOf(l)' = w
  BY <1>1 DEF WeightOf, Fig!Weighed
<1>7. was.borrowed = 100 * b /\ was.health = Fig!Clamped(Fig!Ratio(w, 100 * b))
  <2>1. was.borrowed = 100 * b
    BY <1>4, ShownIs
  <2>2. was.health = Fig!Clamped(IF l = "solana" THEN Fig!SolanaHealth ELSE Fig!EvmHealth)
    BY ShownIs
  <2>3. (IF l = "solana" THEN Fig!SolanaHealth ELSE Fig!EvmHealth) = Fig!Ratio(w, 100 * b)
    BY <1>3, <1>4 DEF Fig!SolanaHealth, Fig!EvmHealth, WeightOf
  <2> QED
    BY <2>1, <2>2, <2>3
<1>8. is = IF c > 0 THEN Fig!Clamped(Fig!Ratio(w, 100 * c)) ELSE Fig!Clamped(Fig!NoDebt)
  <2>1. is = Fig!Clamped(IF l = "solana" THEN Fig!SolanaHealth' ELSE Fig!EvmHealth')
    BY DEF Fig!Shown, Fig!PositionStats
  <2>2. "base" \in live'
    BY <1>1
  <2>3. (IF l = "solana" THEN Fig!SolanaHealth' ELSE Fig!EvmHealth')
        = IF c > 0 THEN Fig!Ratio(w, 100 * c) ELSE Fig!NoDebt
    BY <1>4, <1>6, <2>2 DEF Fig!SolanaHealth, Fig!EvmHealth, WeightOf
  <2> QED
    BY <2>1, <2>3
<1>9. Fig!Warned(was, change) <=> ~Fig!AtMost(Fig!Ratio(11, 10), after)
  BY <1>3, <1>7 DEF Fig!Warned
<1> HIDE DEF b, change, was, is, w
<1>10. CASE c > 0
  <2> DEFINE bb == 100 * b
             cc == 100 * c
  <2>1. bb \in Nat \ {0} /\ cc \in Nat \ {0} /\ bb + change = cc /\ bb > 0 /\ cc > 0
    BY <1>3, <1>10
  <2>2. after = Promise(was.health, bb, cc)
    BY <1>7, <2>1 DEF Fig!HealthAfter, Promise
  <2>3. was.health = Fig!Clamped(Fig!Ratio(w, bb)) /\ is = Fig!Clamped(Fig!Ratio(w, cc))
    BY <1>7, <1>8, <1>10
  <2> HIDE DEF bb, cc, after
  <2>4. /\ Fig!AtMost(Fig!Clamped(after), is)
        /\ ~Fig!Same(was.health, Fig!NoDebt) => Fig!Same(Fig!Clamped(after), is)
        /\ Fig!AtMost(Fig!Ratio(11, 10), after) => Fig!AtMost(Fig!Ratio(11, 10), is)
    BY <1>5, <2>1, <2>2, <2>3, PromiseHolds
  <2> QED
    BY <1>9, <2>4 DEF was, is, after, change
<1>11. CASE ~(c > 0)
  <2>1. c = 0 /\ change < 0 /\ 100 * b + change = 0
    BY <1>3, <1>11
  <2>2. after = Fig!NoDebt
    BY <1>7, <2>1 DEF Fig!HealthAfter
  <2>3. NoDebtHealth \in Nat
    BY FiguresAssumption
  <2>4. Fig!Clamped(Fig!NoDebt) = Fig!NoDebt
    BY DEF Fig!Clamped
  <2>5. Fig!AtMost(Fig!NoDebt, Fig!NoDebt) /\ Fig!Same(Fig!NoDebt, Fig!NoDebt)
    BY <2>3 DEF Fig!AtMost, Fig!Same, Fig!NoDebt, Fig!Ratio
  <2>6. is = Fig!NoDebt
    BY <1>8, <1>11, <2>4
  <2> HIDE DEF after
  <2>7. ~(change > 0)
    BY <1>3, <2>1
  <2> QED
    BY <2>2, <2>4, <2>5, <2>6, <2>7 DEF was, is, after, change
<1> QED
  BY <1>10, <1>11

-----------------------------------------------------------------------------
FigInv == page = "figures" => Fig!FiguresTypeOK

LEMMA FigInvInit == InitOfSide => FigInv
BY FiguresInitInv DEF InitOfSide, FigInv

LEMMA FigInvNext == FigInv /\ [SideNext]_sideVars => FigInv'
<1> SUFFICES ASSUME page = "figures", Fig!FiguresTypeOK, [SideNext]_sideVars, page' = "figures" PROVE Fig!FiguresTypeOK'
  BY DEF FigInv, SideNext, Only, sideVars
<1>1. Fig!Next \/ UNCHANGED figureVars
  BY DEF SideNext, Only, sideVars
<1> QED
  BY <1>1, FiguresNextInv

(* The figures beside the rest: for any collaterals, prices and factors of which    *)
(* the one to borrow against is the lower, the lanes agree, an account shown as      *)
(* healthy is not liquidatable, what is shown as free to borrow is lent, and the      *)
(* outlook of an action comes true.                                          *)
THEOREM FiguresStayRight == SideSpec => FiguresAreRight
<1> DEFINE Right == page = "figures" => Fig!FiguresAreRight /\ \A l \in Fig!Lanes : Fig!OutlookHolds(l)
<1>1. FigInv /\ [SideNext]_sideVars => [Right]_sideVars
  <2> SUFFICES ASSUME FigInv, SideNext, page = "figures"
               PROVE  Fig!FiguresAreRight /\ \A l \in Fig!Lanes : Fig!OutlookHolds(l)
    OBVIOUS
  <2>1. Fig!FiguresTypeOK
    BY DEF FigInv
  <2>2. Fig!Next \/ UNCHANGED figureVars
    BY DEF SideNext, Only
  <2>3. Fig!FiguresAreRight
    BY <2>1, AgreeFollows, SafeFollows, LentFollows DEF Fig!FiguresAreRight
  <2>4. \A l \in Fig!Lanes : Fig!OutlookHolds(l)
    BY <2>1, <2>2, OutlookFollows
  <2> QED
    BY <2>3, <2>4
<1> QED
  BY <1>1, FigInvInit, FigInvNext, PTL DEF SideSpec, FiguresAreRight

-----------------------------------------------------------------------------
PageInv == page \in Pages

LEMMA PageInvNext == PageInv /\ [SideNext]_sideVars => PageInv'
<1> SUFFICES ASSUME [SideNext]_sideVars PROVE page' = page
  BY DEF PageInv
<1> QED
  BY DEF SideNext, Only, sideVars

(* All of them: what holds of each page while it is on.                        *)
PagesInv ==
  /\ PageInv
  /\ GateInv /\ AltInv /\ FeedInv /\ CacheInv /\ BootInv /\ MarketInv /\ ShapeInv /\ FigInv
  /\ WalletInv /\ RegistryInv /\ SignInv /\ StoreInv /\ ReserveInv /\ RowInv

LEMMA TypesFollow == PagesInv => SideTypeOK
<1> SUFFICES ASSUME PagesInv PROVE SideTypeOK
  OBVIOUS
<1>1. CASE page = "gate"
  BY <1>1 DEF PagesInv, GateInv, IInv, SideTypeOK
<1>2. CASE page = "tables"
  BY <1>2, AltFollows DEF PagesInv, AltInv, SideTypeOK
<1>3. CASE page = "feed"
  BY <1>3, FeedFollows DEF PagesInv, FeedInv, SideTypeOK
<1>4. CASE page = "cache"
  BY <1>4, CacheFollows DEF PagesInv, CacheInv, SideTypeOK
<1>5. CASE page = "boot"
  BY <1>5, BootFollows DEF PagesInv, BootInv, SideTypeOK
<1>6. CASE page = "market"
  BY <1>6, MarketFollows DEF PagesInv, MarketInv, SideTypeOK
<1>7. CASE page = "shape"
  BY <1>7, ShapeFollows DEF PagesInv, ShapeInv, SideTypeOK
<1>8. CASE page = "figures"
  BY <1>8 DEF PagesInv, FigInv, SideTypeOK
<1>9. CASE page = "wallet"
  BY <1>9 DEF PagesInv, WalletInv, SideTypeOK
<1>10. CASE page = "registry"
  BY <1>10, RegistryFollows DEF PagesInv, RegistryInv, SideTypeOK
<1>11. CASE page = "sign"
  BY <1>11, SignFollows DEF PagesInv, SignInv, SideTypeOK
<1>12. CASE page = "storefront"
  BY <1>12, StoreFollows DEF PagesInv, StoreInv, SideTypeOK
<1>13. CASE page = "reserves"
  BY <1>13, ReserveFollows DEF PagesInv, ReserveInv, SideTypeOK
<1>14. CASE page = "rows"
  BY <1>14, RowFollows DEF PagesInv, RowInv, SideTypeOK
<1> QED
  BY PagesAssumption, <1>1, <1>2, <1>3, <1>4, <1>5, <1>6, <1>7, <1>8, <1>9, <1>10, <1>11, <1>12, <1>13, <1>14
     DEF PagesInv, PageInv

(* Type correctness of every page, for every value of the constants.            *)
THEOREM SideTypeCorrect == SideSpec => []SideTypeOK
<1>1. InitOfSide => PagesInv
  BY GateInvInit, AltInvInit, FeedInvInit, CacheInvInit, BootInvInit, MarketInvInit, ShapeInvInit,
     FigInvInit, WalletInvInit, RegistryInvInit, SignInvInit, StoreInvInit, ReserveInvInit, RowInvInit
     DEF PagesInv, PageInv, InitOfSide
<1>2. PagesInv /\ [SideNext]_sideVars => PagesInv'
  BY GateInvNext, AltInvNext, FeedInvNext, CacheInvNext, BootInvNext, MarketInvNext, ShapeInvNext,
     FigInvNext, WalletInvNext, RegistryInvNext, SignInvNext, StoreInvNext, ReserveInvNext, RowInvNext,
     PageInvNext DEF PagesInv
<1> QED
  BY <1>1, <1>2, TypesFollow, PTL DEF SideSpec
=============================================================================
