------------------------------- MODULE MCSide -------------------------------
(***************************************************************************)
(* Model-checking instance of what stands beside a flow of funds: the Activate  *)
(* gate, the lookup tables, the activity list, the market cache and what fills   *)
(* it, the boot of a deployment, the lanes' asset lists, the figures shown, the  *)
(* connection of a wallet, the assembly and signature of a transaction, what is      *)
(* polled from Comet, and the files a build is made of.  They share no state: a      *)
(* behaviour is that of one of them, `page` says which, and the others are off.     *)
(***************************************************************************)
EXTENDS Provisioning, Sequences, TLC

CONSTANTS
  Pages,                                                        \* those looked at
  Comets, Built, Deployed, NColl,                               \* CometShape, Storefront
  Tabs, On, CacheKeys, Registered, Wants, AltTables, NoTable,
  FirstN, ChunkN, MaxReloads,                                   \* AltLifecycle
  Backing, BorrowFactor, LiquidateFactor, AbsorbFactor,
  Prices, MaxColl, MaxDebt, NoDebtHealth,                       \* Figures
  Slots, Lookback, MaxEntries, Cap, MaxHead,                    \* ActivityFeed (Slots: CometShape too)
  Chains, CacheTiers, Fills, RateMax, MaxVersion, MaxWindows,   \* MarketCache
  Committed, Registries, Pins, Envs,                            \* ChainBoot
  Histories, MaxTxs, Limit, Total,                              \* MarketRead
  Wallets, NoWallet, MaxPicks,                                  \* WalletConnect
  Entries, MaxEdits,                                            \* RegistryEntry
  Owners, NoOwner, SignChains, BuiltChain, Cluster, Calls,
  SignTables, Inline, MaxEvents,                                \* SignedCall
  Loads, MaxMoves,                                              \* Storefront
  NRows, NamedRows, Factors, MaxVisits,                         \* ReserveRows
  LineAssets, Digits, Decimals, StandIn, Typed, LinePrices,
  Reads, MaxSent                                                \* ActivityRow

ASSUME PagesAssumption ==
  Pages \subseteq {"gate", "tables", "feed", "cache", "boot", "market", "shape", "figures", "wallet",
                   "registry", "sign", "storefront", "reserves", "rows"}
ASSUME ShapeAssumption == Built \in Comets /\ Deployed \in Comets /\ MaxReloads \in Nat
ASSUME FeedAssumption ==
  Lookback \in Nat /\ MaxEntries \in Nat /\ Cap \in Nat /\ MaxHead \in Nat
(* Powers of ten are positive: arithmetic, which the provers do not have.       *)
ASSUME RowAssumption ==
  /\ Digits \in Nat /\ StandIn \in 0 .. Digits /\ Decimals \in [LineAssets -> 0 .. Digits]
  /\ \A d \in 0 .. Digits : 10 ^ (Digits - d) \in Nat \ {0}
  /\ Typed \subseteq Nat /\ LinePrices \subseteq Nat /\ MaxSent \in Nat
(* Comet takes no collateral that is worth more to borrow against than before a  *)
(* liquidation; an account without a debt is shown with a health far above 1.1.    *)
ASSUME FiguresAssumption ==
  /\ IsFiniteSet(Backing) /\ "base" \notin Backing
  /\ {BorrowFactor, LiquidateFactor, AbsorbFactor} \subseteq [Backing -> Nat]
  /\ \A c \in Backing : BorrowFactor[c] <= LiquidateFactor[c]
  /\ Prices \subseteq Nat /\ MaxColl \in Nat /\ MaxDebt \in Nat /\ NoDebtHealth \in Nat \ {0, 1}
ASSUME SignAssumption == BuiltChain \in SignChains /\ MaxEvents \in Nat
ASSUME WalletAssumption == MaxPicks \in Nat
ASSUME AltAssumption ==
  /\ IsFiniteSet(Tabs) /\ IsFiniteSet(AltTables) /\ NoTable \notin AltTables /\ CacheKeys # {}
  /\ \A want \in Wants : IsFiniteSet(want) /\ want # {}
  /\ FirstN \in Nat \ {0} /\ ChunkN \in Nat \ {0}
(* The activity tier is built on the market tier's entry.                      *)
ASSUME CacheAssumption ==
  "market" \in CacheTiers /\ RateMax \in Nat /\ MaxVersion \in Nat /\ MaxWindows \in Nat
ASSUME MarketAssumption ==
  /\ NColl \in Nat /\ MaxTxs \in Nat /\ Limit \in Nat /\ Total \in Nat /\ MaxMoves \in Nat
  /\ Histories \subseteq Seq([by : STRING, lane : STRING, act : STRING, at : Nat])
ASSUME ReserveAssumption == NRows \in Nat /\ MaxVisits \in Nat /\ Factors \in [1 .. NRows -> Nat]
(* Chain ids are positive; -1, -2 and -3 are what else a variable can be.        *)
ASSUME BootAssumption ==
  /\ Committed \subseteq [chain : Nat \ {0}, network : STRING]
  /\ \A found \in Registries : \A e \in found : e.chain \in Nat \ {0} /\ e.network \in STRING
  /\ Pins \subseteq Nat \cup {-1, -2, -3}
  /\ \A e \in Envs : {e.pub, e.rt} \subseteq Nat \cup {-1, -2, -3}
  /\ \A e \in Envs : e.solana \in BOOLEAN /\ e.indexed \in BOOLEAN
ASSUME EntryAssumption ==
  /\ MaxEdits \in Nat
  /\ \A e \in Entries : e.comets \in Seq([label : STRING, colls : Nat])

VARIABLES
  page,
  table, pointer, seen, local, net, call, reloads,               \* AltLifecycle
  side, who, feedLogs, own, fetched, feedAsk, busy, since,         \* ActivityFeed
  version, entry, fill, floor, hits, windows,                     \* MarketCache
  server, files, bundle, pin, env, snap, wagmi, read, req,         \* ChainBoot
  mode, txs, pc, infos, names, bare, blank, got, logs, heard, under,
  slices,                                                       \* MarketRead
  lane, comet, on, metas, cache, ask, overtaken, shapeReloads,      \* CometShape
  coll, base, price, live,                                       \* Figures
  installed, selected, status, rendered, pending, tried, asked,
  threw, picks,                                                 \* WalletConnect
  entryNow, gen, rpcs, half, passed, edits,                      \* RegistryEntry
  chain, wallet, signTx, calls, moves, events,                   \* SignedCall
  panel, storeComet, market, load, sale, figures, loading,
  storeMoves, always, ever,                                     \* Storefront
  stored, known, raw, purse, down, visits,                      \* ReserveRows
  laneOf, lookup, logged, ownRows, listRows, rowFetch, slipped   \* ActivityRow

gateVars == vars
altVars == <<table, pointer, seen, local, net, call, reloads>>
feedVars == <<side, who, feedLogs, own, fetched, feedAsk, busy, since>>
cacheVars == <<version, entry, fill, floor, hits, windows>>
bootVars == <<server, files, bundle, pin, env, snap, wagmi, read, req>>
marketVars == <<mode, txs, pc, infos, names, bare, blank, got, logs, heard, under, slices>>
shapeVars == <<lane, comet, on, metas, cache, ask, overtaken, shapeReloads>>
figureVars == <<coll, base, price, live>>
registryVars == <<entryNow, gen, rpcs, half, passed, edits>>
signVars == <<chain, wallet, signTx, calls, moves, events>>
storeVars == <<panel, storeComet, market, load, sale, figures, loading, storeMoves, always, ever>>
reserveVars == <<stored, known, raw, purse, down, visits>>
rowVars == <<laneOf, lookup, logged, ownRows, listRows, rowFetch, slipped>>
walletVars == <<installed, selected, status, rendered, pending, tried, asked, threw, picks>>
sideVars == <<page, gateVars, altVars, feedVars, cacheVars, bootVars, marketVars,
              shapeVars, figureVars, walletVars, registryVars, signVars, storeVars,
              reserveVars, rowVars>>

-----------------------------------------------------------------------------
(* The parts.  The liquidatable tier of the cache is filled and tagged as the     *)
(* market's is.                                                            *)
Alt == INSTANCE AltLifecycle WITH Keys <- CacheKeys, Tables <- AltTables

Feed == INSTANCE ActivityFeed WITH logs <- feedLogs, ask <- feedAsk, Asks <- Slots

Cache == INSTANCE MarketCache WITH Tiers <- CacheTiers

Boot == INSTANCE ChainBoot

Market == INSTANCE MarketRead

Shape == INSTANCE CometShape WITH reloads <- shapeReloads, Asks <- Slots

Wallet == INSTANCE WalletConnect

Registry == INSTANCE RegistryEntry WITH entry <- entryNow

Sign == INSTANCE SignedCall WITH Chains <- SignChains, Built <- BuiltChain, Tables <- SignTables

Store == INSTANCE Storefront WITH comet <- storeComet, moves <- storeMoves

Rows == INSTANCE ReserveRows WITH NColl <- NRows, Named <- NamedRows

Line == INSTANCE ActivityRow WITH
  rows <- listRows, fetch <- rowFetch, Assets <- LineAssets, Prices <- LinePrices

Fig == INSTANCE Figures WITH Colls <- Backing

-----------------------------------------------------------------------------
(* Values for the constants.                                               *)

(* Each tab on a device of its own.                                         *)
OwnDevice == [t \in Tabs |-> t]
SomeWants == {{1}, {1, 2}}

(* Two collaterals with the factors the deployments have, in percent.           *)
PerColl(x, y) == "a" :> x @@ "b" :> y
ToBorrow == PerColl(80, 65)
ToLiquidate == PerColl(85, 70)
ToAbsorb == PerColl(97, 95)
SomePrices == 1 .. 3

(* Registry files: two, of one chain or of two; the first may be retired or have  *)
(* no chain.json.                                                          *)
File(f, c, n, retired, json) == [file |-> f, chain |-> c, network |-> n, retired |-> retired, json |-> json]
SomeCommitted == {[chain |-> 1, network |-> "devnet"], [chain |-> 2, network |-> "testnet"]}
SomeRegistries ==
  {{}} \cup
  {{File(1, c, kind[1], kind[2] = "retired", kind[2] # "no json"), File(2, 2, m, FALSE, TRUE)} :
     c \in {1, 2}, m \in {"devnet", "real-testnet"},
     kind \in {<<"testnet", "in">>, <<"real-testnet", "in">>, <<"testnet", "retired">>,
               <<"testnet", "no json">>}}
(* -1 is an unset variable, -2 an empty one, -3 one that is no number.          *)
SomePins == {-1, 1}
SomeEnvs ==
  {e \in [pub: {-1, 2, -2}, rt: {-1, 2, 3, -3, -2}, up: {-4, 2}, prod: BOOLEAN,
          solana: BOOLEAN, indexed: BOOLEAN] :
     (e.solana /\ ~e.indexed) \/ (e.pub = -1 /\ e.rt \in {-1, 2})}

Tx(b, l, a, t) == [by |-> b, lane |-> l, act |-> a, at |-> t]
SomeHistories ==
  {<<>>, <<Tx("a", "evm", "supply", 3), Tx("b", "sol", "supply", 2), Tx("c", "sol", "liquidate", 1)>>,
   <<Tx("b", "evm", "supply", 4), Tx("b", "evm", "supply", 3), Tx("a", "sol", "supply", 2),
     Tx("a", "sol", "other", 1)>>}

(* Entries of at most two Comets, and one that differs in each other field.     *)
Comet(l, n) == [label |-> l, colls |-> n]
Entry == [status |-> "live", ref |-> TRUE, rpc |-> TRUE, leverage |-> TRUE,
          comets |-> <<Comet("canonical", 1)>>, multicall |-> <<>>, alts |-> <<>>]
Version(a, yes) == [address |-> a, live |-> yes]
TableOf(t, d) == [tier |-> t, dapp |-> d]
SomeComets == {Comet(l, n) : l \in {"supply-only", "multicollat", "collat-pcol", "canonical"}, n \in {0, 1}}
SomeEntries ==
  {[Entry EXCEPT !.comets = cs] : cs \in UNION {[1 .. n -> SomeComets] : n \in 0 .. 2}}
  \cup {[Entry EXCEPT !.status = "retired"], [Entry EXCEPT !.ref = FALSE],
        [Entry EXCEPT !.rpc = FALSE], [Entry EXCEPT !.leverage = FALSE],
        [Entry EXCEPT !.multicall = <<Version(1, FALSE), Version(2, TRUE)>>],
        [Entry EXCEPT !.alts = <<TableOf("dapp", "other"), TableOf("chain", "none"), TableOf("dapp", "comet")>>]}

(* The chain built in, the deployment's on another cluster and one on the same; and   *)
(* the registry's lookup tables.                                             *)
SomeClusters == [b |-> "devnet", d |-> "testnet", e |-> "devnet"]
SomeTables == [t1 |-> {"state", "treasury"}, t2 |-> {"market", "payer"}]

(* Three collaterals, the last of which nothing can be borrowed against and the       *)
(* registry does not name.                                                  *)
SomeFactors == <<80, 65, 0>>

(* One asset, of fewer decimals than can be typed.                                *)
OneDecimal == [c |-> 1]

-----------------------------------------------------------------------------
Off == "off"

GateOff == pda = Off /\ ata = Off /\ active = Off /\ resolved = Off /\ gate = Off /\ check = Off /\ act = Off
AltOff ==
  /\ table = Off /\ pointer = Off /\ seen = Off /\ local = Off /\ net = Off /\ call = Off /\ reloads = Off
FeedOff ==
  /\ side = Off /\ who = Off /\ feedLogs = Off /\ own = Off /\ fetched = Off /\ feedAsk = Off
  /\ busy = Off /\ since = Off
CacheOff == version = Off /\ entry = Off /\ fill = Off /\ floor = Off /\ hits = Off /\ windows = Off
BootOff ==
  /\ server = Off /\ files = Off /\ bundle = Off /\ pin = Off /\ env = Off /\ snap = Off /\ wagmi = Off
  /\ read = Off /\ req = Off
MarketOff ==
  /\ mode = Off /\ txs = Off /\ pc = Off /\ infos = Off /\ names = Off /\ bare = Off /\ blank = Off
  /\ got = Off /\ logs = Off /\ heard = Off /\ under = Off /\ slices = Off
ShapeOff ==
  /\ lane = Off /\ comet = Off /\ on = Off /\ metas = Off /\ cache = Off /\ ask = Off
  /\ overtaken = Off /\ shapeReloads = Off
FiguresOff == coll = Off /\ base = Off /\ price = Off /\ live = Off
WalletOff ==
  /\ installed = Off /\ selected = Off /\ status = Off /\ rendered = Off /\ pending = Off
  /\ tried = Off /\ asked = Off /\ threw = Off /\ picks = Off

RegistryOff ==
  entryNow = Off /\ gen = Off /\ rpcs = Off /\ half = Off /\ passed = Off /\ edits = Off
SignOff ==
  chain = Off /\ wallet = Off /\ signTx = Off /\ calls = Off /\ moves = Off /\ events = Off
StoreOff ==
  /\ panel = Off /\ storeComet = Off /\ market = Off /\ load = Off /\ sale = Off /\ figures = Off
  /\ loading = Off /\ storeMoves = Off /\ always = Off /\ ever = Off

ReservesOff == stored = Off /\ known = Off /\ raw = Off /\ purse = Off /\ down = Off /\ visits = Off
RowsOff ==
  /\ laneOf = Off /\ lookup = Off /\ logged = Off /\ ownRows = Off /\ listRows = Off
  /\ rowFetch = Off /\ slipped = Off

(* What is off when page p is on.                                          *)
OthersOff(p) ==
  /\ p # "gate" => GateOff
  /\ p # "tables" => AltOff
  /\ p # "feed" => FeedOff
  /\ p # "cache" => CacheOff
  /\ p # "boot" => BootOff
  /\ p # "market" => MarketOff
  /\ p # "shape" => ShapeOff
  /\ p # "figures" => FiguresOff
  /\ p # "wallet" => WalletOff
  /\ p # "registry" => RegistryOff
  /\ p # "sign" => SignOff
  /\ p # "storefront" => StoreOff
  /\ p # "reserves" => ReservesOff
  /\ p # "rows" => RowsOff

(* Two accounts that differ can be named either way: one of the ways is enough.  *)
OneUser == CHOOSE u \in Users : TRUE
GateInit ==
  Init /\ \A u \in Users : ata[u] \subseteq ata[OneUser] /\ (pda[u] => pda[OneUser])

(* The market is the same of either Comet before it moves.                   *)
StoreInit == Store!Init /\ \A c, d \in Comets : market[c] = market[d]

InitOfSide ==
  /\ page \in Pages
  /\ CASE page = "gate" -> GateInit
       [] page = "tables" -> Alt!Init
       [] page = "feed" -> Feed!Init
       [] page = "cache" -> Cache!Init
       [] page = "boot" -> Boot!Init
       [] page = "market" -> Market!Init
       [] page = "shape" -> Shape!Init
       [] page = "figures" -> Fig!Init
       [] page = "wallet" -> Wallet!Init
       [] page = "registry" -> Registry!Init
       [] page = "sign" -> Sign!Init
       [] page = "storefront" -> StoreInit
       [] page = "reserves" -> Rows!Init
       [] page = "rows" -> Line!Init
  /\ OthersOff(page)

(* A step of page p leaves all else alone.                                   *)
Only(p) ==
  /\ page = p /\ UNCHANGED page
  /\ p # "gate" => UNCHANGED gateVars
  /\ p # "tables" => UNCHANGED altVars
  /\ p # "feed" => UNCHANGED feedVars
  /\ p # "cache" => UNCHANGED cacheVars
  /\ p # "boot" => UNCHANGED bootVars
  /\ p # "market" => UNCHANGED marketVars
  /\ p # "shape" => UNCHANGED shapeVars
  /\ p # "figures" => UNCHANGED figureVars
  /\ p # "wallet" => UNCHANGED walletVars
  /\ p # "registry" => UNCHANGED registryVars
  /\ p # "sign" => UNCHANGED signVars
  /\ p # "storefront" => UNCHANGED storeVars
  /\ p # "reserves" => UNCHANGED reserveVars
  /\ p # "rows" => UNCHANGED rowVars

SideNext ==
  \/ Only("gate") /\ Next
  \/ Only("tables") /\ Alt!Next
  \/ Only("feed") /\ Feed!Next
  \/ Only("cache") /\ Cache!Next
  \/ Only("boot") /\ Boot!Next
  \/ Only("market") /\ Market!Next
  \/ Only("shape") /\ Shape!Next
  \/ Only("figures") /\ Fig!Next
  \/ Only("wallet") /\ Wallet!Next
  \/ Only("registry") /\ Registry!Next
  \/ Only("sign") /\ Sign!Next
  \/ Only("storefront") /\ Store!Next
  \/ Only("reserves") /\ Rows!Next
  \/ Only("rows") /\ Line!Next

(* The fairness of FairSpec, and of the Spec of the other modules that state any. *)
SideFairness ==
  /\ \A c \in Checks : WF_gateVars(page = "gate" /\ CheckStep(c))
  /\ WF_altVars(page = "tables" /\ Alt!Sync)
  /\ \A t \in Tabs : WF_altVars(page = "tables" /\ Alt!Progress(t))
  /\ \A a \in Slots : WF_feedVars(page = "feed" /\ (Feed!Answer(a) \/ Feed!FailFetch(a)))
  /\ SF_feedVars(page = "feed" /\ \E a \in Slots : Feed!Answer(a))
  /\ WF_walletVars(page = "wallet" /\ Wallet!Render)

SideSpec == InitOfSide /\ [][SideNext]_sideVars
FairSideSpec == SideSpec /\ SideFairness

-----------------------------------------------------------------------------
(* The properties, each of the page it is about.                           *)

(* Type correctness of whichever page is on.                                 *)
SideTypeOK ==
  CASE page = "gate" -> TypeOK
    [] page = "tables" -> Alt!TypeOK
    [] page = "feed" -> Feed!FeedTypeOK
    [] page = "cache" -> Cache!CacheTypeOK
    [] page = "boot" -> Boot!BootTypeOK
    [] page = "market" -> Market!MarketTypeOK
    [] page = "shape" -> Shape!ShapeTypeOK
    [] page = "figures" -> Fig!FiguresTypeOK
    [] page = "wallet" -> Wallet!ConnectTypeOK
    [] page = "registry" -> Registry!RegistryTypeOK
    [] page = "sign" -> Sign!SignTypeOK
    [] page = "storefront" -> Store!StorefrontTypeOK
    [] page = "reserves" -> Rows!ReservesTypeOK
    [] page = "rows" -> Line!RowTypeOK

(* Activate gate: a verdict about the connected account is right, and what is    *)
(* reported activated is complete (useProvisionedCheck, runActivate).           *)
GateIsRight == page = "gate" => OwnVerdictIsRight /\ PanelMeansAccount /\ ActivatedIsComplete

(* Lookup tables and the transactions packed over them: the table ensureAlt returns  *)
(* is complete on chain, and what one device remembers every device finds and uses;   *)
(* a transaction has all its accounts, and its fee payer is the one asked to sign it    *)
(* on its own cluster (ensureAlt, alt-registry, submitOverAlt, makeChainAwareSign).     *)
TablesAreRight ==
  /\ page = "tables" => Alt!ReturnedIsComplete /\ Alt!RegisteredIsReused
  /\ page = "sign" => Sign!SignIsRight

(* Activity list: a read of the Solana lane is about who is connected, and no row   *)
(* of before a disconnection comes back; and a row says what was sent, with the names  *)
(* and prices of the position shown (refreshActivity, recordSuccess, toLaneActivity).   *)
FeedIsRight ==
  /\ page = "feed" => Feed!ReadsAreMine /\ Feed!RowsAreOfThisSession
  /\ page = "rows" => Line!RowsAreRight

(* Market data: an entry is of its chain and no older than the last revalidation;    *)
(* in what one load makes of the chain's answers no figures stand in two rows, and     *)
(* they are a row's own up to the first asset that an enumeration lost; a page is of     *)
(* one picture; the indexer's part of what is cached is whole, and of the open           *)
(* liquidations only those are missing whose probe failed; what is polled names what       *)
(* is for sale, and rates of the utilisation beside them; and no reserve is shown with     *)
(* the figures of another (cachedMarket.ts, liveSource.ts, onchain.ts, indexer/client.ts,   *)
(* storefront.ts, useProtocolStats.ts, useReserveStats.ts).                         *)
ServerIsRight ==
  /\ page = "cache" => Cache!CacheIsRight
  /\ page = "market" => Market!MarketIsRight
  /\ page = "storefront" => Store!StorefrontIsRight
  /\ page = "reserves" => Rows!ReservesAreRight

(* Boot: a lane asks only for positions of the chain /api/env names, and that chain      *)
(* answers unless an override, or DEFAULT_CHAIN_ID alone, sends the proxy elsewhere;       *)
(* no chain is in use that the registry has retired; a scan stays off the self-hosted        *)
(* node; and what was checked is what the registry says, for every part that takes its       *)
(* Comet from it (env-context.tsx, config.ts, romeRpc.ts, lib/solanaRpc.ts,                *)
(* build-compound-config.ts).                                                     *)
BootIsRight ==
  /\ page = "boot" => Boot!BootIsRight
  /\ page = "registry" => Registry!RegistryIsRight

(* Asset lists: neither lane works with another Comet's assets or stores them under   *)
(* its name (refreshAssetMetas, useCometMarket).                               *)
ShapeIsRight == page = "shape" => Shape!ShapeIsRight

(* Figures: the lanes agree, an account shown as healthy is not liquidatable, what    *)
(* is shown as free to borrow is lent, and the outlook of an action comes true       *)
(* (positionStats.ts, stats.ts, actionConsequences).                          *)
FiguresAreRight ==
  [][page = "figures" => Fig!FiguresAreRight /\ \A l \in Fig!Lanes : Fig!OutlookHolds(l)]_sideVars

(* What must come to an end: ensureAlt returns, throws or asks the wallet; a           *)
(* connected user gets a verdict; who stays connected, and whose position goes on      *)
(* changing, is shown the newest of what touches him; and a pick of an installed        *)
(* wallet is tried (sendLegacy, the gate's effect, refreshActivity, connectFn).       *)
Ended(i) ==
  CASE page = "tables" -> i \in Tabs => Alt!Asks(i)
    [] page = "gate" -> HasVerdict
    [] page = "wallet" -> i \in Wallets => ~Wallet!Untried(i)
    [] OTHER -> TRUE
SideEnds ==
  /\ \A i \in Tabs \cup Wallets : []<>Ended(i)
  /\ \A u \in Users :
       <>[](page = "feed" /\ who = u) /\ []<><<page = "feed" /\ Feed!Refresh>>_feedVars
         => <>[](page = "feed" /\ Feed!IsCurrent(u))

(* What the source says of the list and the code does not keep: what may be absorbed  *)
(* passes the filter of the liquidate list.                                   *)
ListedIsShown == page = "figures" => Fig!ListedIsShown
=============================================================================
