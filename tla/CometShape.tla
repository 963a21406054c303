------------------------------ MODULE CometShape ------------------------------
(***************************************************************************)
(* How a lane learns which assets its Comet has: useSolanaLane.ts               *)
(* refreshAssetMetas with lib/lane/solanaMetaCache.ts, and the EVM lane's         *)
(* portal/hooks/useCometMarket.ts with lib/portal/marketCache.ts.                *)
(*                                                                         *)
(* A page starts on the build's Comet and moves to the deployment's when          *)
(* /api/env answers; the EVM lane is mounted again then, the Solana lane is not.   *)
(* A read belongs to the Comet it was started for, is not cancelled, and can      *)
(* answer at any time.  The Solana lane makes do with what a batch answered; the  *)
(* EVM lane wants all.  Both caches live in the tab's session storage.           *)
(***************************************************************************)
EXTENDS Naturals, FiniteSets

CONSTANTS
  Comets,
  Built,       \* the Comet of the build's chain
  Deployed,    \* the Comet of the deployment's
  NColl,       \* collaterals of a Comet
  Asks,        \* reads that can be under way at a time
  MaxReloads   \* bound: reloads of the page

VARIABLES
  lane,      \* "sol" or "evm"
  comet,     \* the Comet of the lane's configuration
  on,        \* the wallet is connected
  metas,     \* the assets the lane knows
  cache,     \* session storage
  ask,       \* ask[a]: a read under way
  overtaken, \* history: the Solana lane had read, or was reading, when its Comet changed
  reloads

vars == <<lane, comet, on, metas, cache, ask, overtaken, reloads>>

(* Collateral i of c, and the name it was given.                              *)
Own(c) == {<<c, i>> : i \in 1 .. NColl}
Unnamed == <<"0x">>
NoShape == [comet |-> "none", assets |-> {}]
NoAsk == [comet |-> "none", stage |-> "none", infos |-> {}]
AllColls == UNION {Own(c) : c \in Comets}
Shape == [comet: Comets, assets: SUBSET (AllColls \X (AllColls \cup {Unnamed}))]

ShapeTypeOK ==
  /\ lane \in {"sol", "evm"} /\ comet \in Comets /\ on \in BOOLEAN /\ overtaken \in BOOLEAN
  /\ metas \in Shape \cup {NoShape} /\ \A c \in Comets : cache[c] \in Shape \cup {NoShape}
  /\ \A a \in Asks : ask[a] = NoAsk \/ (ask[a].comet \in Comets /\ ask[a].stage \in {"infos", "names"})
  /\ reloads \in 0 .. MaxReloads

Init ==
  /\ lane \in {"sol", "evm"} /\ comet = Built /\ on = FALSE
  /\ metas = NoShape /\ cache = [c \in Comets |-> NoShape]
  /\ ask = [a \in Asks |-> NoAsk] /\ overtaken = FALSE /\ reloads = 0

Free == {a \in Asks : ask[a] = NoAsk}
Asked(a, c) == [ask EXCEPT ![a] = [comet |-> c, stage |-> "infos", infos |-> {}]]

(* The Solana lane's effect: the cache first, and a read all the same.            *)
Enumerate(c, connected) ==
  IF ~connected THEN UNCHANGED <<metas, ask>>
  ELSE /\ metas' = IF cache[c] # NoShape THEN cache[c] ELSE metas
       /\ \E a \in Free : ask' = Asked(a, c)

(* useCometMarket's load: the cache, or a read.                                 *)
Load(c, from) ==
  IF cache[c] # NoShape THEN metas' = cache[c] /\ UNCHANGED ask
  ELSE metas' = from /\ \E a \in Free : ask' = Asked(a, c)

(* The EVM lane reads as it is mounted, the Solana lane when it is connected.      *)
Connect ==
  /\ ~on /\ Free # {}
  /\ on' = TRUE
  /\ IF lane = "sol" THEN Enumerate(comet, TRUE) ELSE Load(comet, metas)
  /\ UNCHANGED <<lane, comet, cache, overtaken, reloads>>

(* /api/env answers.  WagmiProvider's key mounts the EVM lane anew: what it knew    *)
(* is gone, and its reads still end in the cache.                             *)
Resolve ==
  /\ comet = Built /\ comet # Deployed /\ Free # {}
  /\ comet' = Deployed
  /\ IF lane = "sol" THEN Enumerate(Deployed, on) ELSE Load(Deployed, NoShape)
  /\ overtaken' = (lane = "sol" /\ (metas # NoShape \/ Free # Asks))
  /\ UNCHANGED <<lane, on, cache, reloads>>

(* refreshAssetMetas after an action.                                        *)
Again ==
  /\ lane = "sol" /\ on /\ Free # {}
  /\ \E a \in Free : ask' = Asked(a, comet)
  /\ UNCHANGED <<lane, comet, on, metas, cache, overtaken, reloads>>

(* getAssetInfo: a collateral whose entry failed is left out.                   *)
ReadInfos(a, ok) ==
  /\ ask[a].stage = "infos"
  /\ lane = "evm" => ok = 1 .. NColl
  /\ ask' = [ask EXCEPT ![a].stage = "names", ![a].infos = {<<ask[a].comet, i>> : i \in ok}]
  /\ UNCHANGED <<lane, comet, on, metas, cache, overtaken, reloads>>

(* symFor: the name by address, or a stand-in with 8 decimals.                   *)
Named(infos, ok) == {<<x, IF x[2] \in ok THEN x ELSE Unnamed>> : x \in infos}

(* Mutant: stored for the Comet the lane is on now.                             *)
Deliver_Current(a, ok) ==
  LET got == [comet |-> ask[a].comet, assets |-> Named(ask[a].infos, ok)]
  IN /\ ask[a].stage = "names" /\ (lane = "evm" => ok = 1 .. NColl)
     /\ metas' = (IF lane = "evm" /\ ask[a].comet # comet THEN metas ELSE got)
     /\ cache' = [cache EXCEPT ![comet] = got]
     /\ ask' = [ask EXCEPT ![a] = NoAsk]
     /\ UNCHANGED <<lane, comet, on, overtaken, reloads>>

(* setAssetMetas, setMarket and the write to the cache.  A lane that is mounted no  *)
(* more is not told.                                                        *)
Deliver(a, ok) ==
  LET got == [comet |-> ask[a].comet, assets |-> Named(ask[a].infos, ok)]
  IN /\ ask[a].stage = "names" /\ (lane = "evm" => ok = 1 .. NColl)
     /\ metas' = IF lane = "evm" /\ ask[a].comet # comet THEN metas ELSE got
     /\ cache' = [cache EXCEPT ![ask[a].comet] = got]
     /\ ask' = [ask EXCEPT ![a] = NoAsk]
     /\ UNCHANGED <<lane, comet, on, overtaken, reloads>>

(* The catch: what was known stays.                                           *)
Throw(a) ==
  /\ ask[a] # NoAsk
  /\ ask' = [ask EXCEPT ![a] = NoAsk]
  /\ UNCHANGED <<lane, comet, on, metas, cache, overtaken, reloads>>

Disconnect ==
  /\ on
  /\ on' = FALSE
  /\ UNCHANGED <<lane, comet, metas, cache, ask, overtaken, reloads>>

(* A reload, or the other lane's page, in the same tab.                          *)
Reload ==
  /\ reloads < MaxReloads
  /\ reloads' = reloads + 1
  /\ comet' = Built /\ on' = FALSE /\ metas' = NoShape /\ overtaken' = FALSE
  /\ ask' = [a \in Asks |-> NoAsk]
  /\ UNCHANGED <<lane, cache>>

Next ==
  \/ Connect \/ Resolve \/ Again \/ Disconnect \/ Reload
  \/ \E a \in Asks : \/ Throw(a)
                     \/ \E ok \in SUBSET (1 .. NColl) : ReadInfos(a, ok) \/ Deliver(a, ok)

Spec == Init /\ [][Next]_vars

-----------------------------------------------------------------------------
(* Properties.                                                             *)

(* Session storage never holds one Comet's assets under another's name, an asset   *)
(* never bears another's, and what the EVM lane stores is whole                   *)
(* (writeSolanaMetaCache's `comet`, writeMarketCache's key, symFor).             *)
CachesAreOwn ==
  \A c \in Comets : cache[c] # NoShape =>
    /\ cache[c].comet = c
    /\ \A x \in cache[c].assets : x[1] \in Own(c) /\ x[2] \in {x[1], Unnamed}
    /\ lane = "evm" => cache[c].assets = {<<x, x>> : x \in Own(c)}

(* A lane never works with the assets of a Comet it is not on: the EVM lane at no    *)
(* time, the Solana lane unless it had begun to read when the deployment's came    *)
(* (the remount by key, refreshAssetMetas).                                      *)
MetasAreOwn == metas # NoShape /\ metas.comet # comet => lane = "sol" /\ overtaken

ShapeIsRight == CachesAreOwn /\ MetasAreOwn
=============================================================================
