----------------------------- MODULE MarketCache -----------------------------
(***************************************************************************)
(* The server's cache of market data: lib/market/cachedMarket.ts behind        *)
(* /api/market/[chainId], and /api/revalidate, which a deployment calls after   *)
(* it changed a Comet or the registry.                                       *)
(*                                                                         *)
(* Every tier of every chain is an entry of its own.  A fill runs outside the   *)
(* cache for as long as its reads take: what it stores can be older than a      *)
(* revalidation that happened meanwhile.  The activity tier is built on the     *)
(* market tier's entry.  unstable_cache is external: an entry that expired is   *)
(* served while it is filled again, and one whose tag was revalidated is gone.  *)
(***************************************************************************)
EXTENDS Naturals, FiniteSets

CONSTANTS
  Chains,      \* chains of the registry
  Tiers,       \* of "market", "activity", "liquidatable"
  Fills,       \* fills that can be under way at a time
  RateMax,     \* revalidations admitted in a window (20 in 10 s)
  MaxVersion,  \* bound: changes of a chain's configuration
  MaxWindows   \* bound: windows of the rate limit

VARIABLES
  version,  \* version[c]: what the chain answers
  entry,    \* entry[k]: the cache
  fill,     \* fill[f]: a fill under way
  floor,    \* floor[c]: version[c] at the last revalidation
  hits,     \* revalidations counted in this window
  windows   \* what is left of MaxWindows

vars == <<version, entry, fill, floor, hits, windows>>

Keys == Tiers \X Chains

(* `clean`: no revalidation happened while what it holds was read.            *)
Value == [chain: Chains, v: 0 .. MaxVersion, clean: BOOLEAN]
None == [v |-> 0]
NoFill == [pc |-> "idle"]
Filling == [pc: {"labels", "read", "store"}, tier: Tiers, key: Keys, val: Value]

CacheTypeOK ==
  /\ version \in [Chains -> 0 .. MaxVersion] /\ floor \in [Chains -> 0 .. MaxVersion]
  /\ entry \in [Keys -> Value \cup {None}] /\ fill \in [Fills -> Filling \cup {NoFill}]
  /\ hits \in 0 .. RateMax /\ windows \in 0 .. MaxWindows

Init ==
  /\ version = [c \in Chains |-> 0] /\ floor = version
  /\ entry = [k \in Keys |-> None] /\ fill = [f \in Fills |-> NoFill]
  /\ hits = 0 /\ windows = MaxWindows

(* keyParts                                                                *)
Key(tier, c) == <<tier, c>>

(* tags: market:c is on all three tiers.                                     *)
Tagged(c) == {Key(tier, c) : tier \in Tiers}

-----------------------------------------------------------------------------
(* The route's reads: a miss starts a fill, and so does an entry that expired,   *)
(* which may be at any time (revalidate: 30).                                *)
Get(f, tier, c) ==
  LET k == Key(tier, c)
  IN /\ fill[f] = NoFill
     /\ fill' = [fill EXCEPT ![f] =
          [pc |-> IF tier = "activity" THEN "labels" ELSE "read", tier |-> tier, key |-> k,
           val |-> [chain |-> c, v |-> version[c], clean |-> TRUE]]]
     /\ UNCHANGED <<version, entry, floor, hits, windows>>

Older(a, b) == IF a < b THEN a ELSE b

(* getCachedActivity asks getCachedMarket for the labels: as old as its entry.  *)
Labels(f) ==
  LET own == fill[f].val
      m == entry[Key("market", own.chain)]
  IN /\ fill[f].pc = "labels" /\ m # None
     /\ fill' = [fill EXCEPT ![f] = [@ EXCEPT !.pc = "read",
          !.val = [own EXCEPT !.v = Older(own.v, m.v), !.clean = own.clean /\ m.clean]]]
     /\ UNCHANGED <<version, entry, floor, hits, windows>>

(* readMarket, the indexer, the multicall.                                   *)
Read(f) ==
  /\ fill[f].pc = "read"
  /\ LET own == fill[f].val
     IN fill' = [fill EXCEPT ![f] = [@ EXCEPT !.pc = "store",
          !.val = IF fill[f].tier = "activity" THEN own ELSE [own EXCEPT !.v = version[own.chain]]]]
  /\ UNCHANGED <<version, entry, floor, hits, windows>>

Store(f) ==
  /\ fill[f].pc = "store"
  /\ entry' = [entry EXCEPT ![fill[f].key] = fill[f].val]
  /\ fill' = [fill EXCEPT ![f] = NoFill]
  /\ UNCHANGED <<version, floor, hits, windows>>

(* buildMarketState, buildActivity, buildLiquidatable throw: nothing is stored. *)
Throw(f) ==
  /\ fill[f] # NoFill
  /\ fill' = [fill EXCEPT ![f] = NoFill]
  /\ UNCHANGED <<version, entry, floor, hits, windows>>

(* POST with the secret.  The call is counted before the chain is looked at:    *)
(* `c` outside the registry uses up the window and changes nothing.            *)
Revalidate(c) ==
  /\ hits < RateMax
  /\ hits' = hits + 1
  /\ IF c \in Chains
     THEN /\ entry' = [k \in Keys |-> IF k \in Tagged(c) THEN None ELSE entry[k]]
          /\ floor' = [floor EXCEPT ![c] = version[c]]
          /\ fill' = [f \in Fills |-> IF fill[f] # NoFill /\ fill[f].val.chain = c
                                      THEN [fill[f] EXCEPT !.val.clean = FALSE] ELSE fill[f]]
     ELSE UNCHANGED <<entry, floor, fill>>
  /\ UNCHANGED <<version, windows>>

(* Ten seconds pass.                                                        *)
Window ==
  /\ hits > 0 /\ windows > 0
  /\ hits' = 0 /\ windows' = windows - 1
  /\ UNCHANGED <<version, entry, fill, floor>>

(* A deployment changes what the chain answers.                              *)
Change(c) ==
  /\ version[c] < MaxVersion
  /\ version' = [version EXCEPT ![c] = @ + 1]
  /\ UNCHANGED <<entry, fill, floor, hits, windows>>

Unknown == "unknown chain"

Next ==
  \/ Window
  \/ \E c \in Chains : Change(c) \/ Revalidate(c)
  \/ Revalidate(Unknown)
  \/ \E f \in Fills : Labels(f) \/ Read(f) \/ Store(f) \/ Throw(f)
                        \/ \E tier \in Tiers, c \in Chains : Get(f, tier, c)

Spec == Init /\ [][Next]_vars

-----------------------------------------------------------------------------
(* Properties.                                                             *)

(* No entry holds another chain's data, and none is older than the last          *)
(* revalidation of its chain, the activity's labels included, unless the         *)
(* revalidation came while it was being filled (getCachedMarket,               *)
(* getCachedActivity, POST /api/revalidate).                                 *)
CacheIsRight ==
  \A k \in Keys : entry[k] # None =>
    /\ entry[k].chain = k[2]
    /\ entry[k].clean => entry[k].v >= floor[k[2]]
=============================================================================
