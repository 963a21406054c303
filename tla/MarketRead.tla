------------------------------ MODULE MarketRead ------------------------------
(***************************************************************************)
(* One read of a Comet's market for those who are not connected:               *)
(* lib/market/onchain.ts and portal/reads.ts batch the chain's answers,         *)
(* market/indexer lists the Comet's transactions and their logs, and            *)
(* market/liveSource.ts makes five slices of the landing page of them, each      *)
(* with a preview to fall back on.  lib/market/cachedMarket.ts reads the same    *)
(* indexer for the app, strictly: there a failure stores nothing.               *)
(*                                                                         *)
(* Any part of a batch can fail on its own.  Collateral i is the number i; what  *)
(* stands for its size, price and factor is i again.                          *)
(***************************************************************************)
EXTENDS Naturals, Sequences, FiniteSets

CONSTANTS
  NColl,      \* collaterals of the Comet
  Histories,  \* what the indexer has: sequences of [by, lane, act]
  MaxTxs,     \* transactions read (200)
  Limit,      \* rows of recent activity (12)
  Total       \* the Comet's supply

VARIABLES
  mode,    \* "page": the landing page; the others are the tiers of the cache
  txs,     \* the indexer's transactions, in the order of its pages
  pc,
  infos,   \* getAssetInfo of the first enumeration
  names,   \* collaterals of the second one (readCometAssetSymbols)
  bare,    \* those of them whose decimals are missing
  blank,   \* collaterals whose size or price is missing
  got,     \* transactions listed
  logs,    \* those whose logs were read
  heard,   \* accounts whose isLiquidatable was answered
  under,   \* accounts that Comet says may be liquidated, when it is asked
  slices   \* slices[s]: what the page shows

vars == <<mode, txs, pc, infos, names, bare, blank, got, logs, heard, under, slices>>

Modes == {"page", "market", "activity", "liquidatable"}
Authors == {txs[i].by : i \in DOMAIN txs}

Colls == 1 .. NColl
Slices == {"poolSplit", "markets", "recentActivity", "arenaStats", "openLiquidations"}

MarketTypeOK ==
  /\ mode \in Modes /\ txs \in Histories
  /\ pc \in {"infos", "names", "figures", "list", "logs", "probe", "ready", "failed"}
  /\ infos \in Seq(Colls) /\ names \in Seq(Colls) /\ bare \subseteq Colls /\ blank \subseteq Colls
  /\ got <= MaxTxs /\ logs \subseteq DOMAIN txs /\ heard \subseteq Authors /\ under \subseteq Authors
  /\ slices \in [Slices -> {"asked", "live", "preview"}]

Init ==
  /\ mode \in Modes /\ txs \in Histories
  /\ pc = IF mode \in {"page", "market"} THEN "infos" ELSE "list"
  /\ infos = <<>> /\ names = <<>> /\ bare = {} /\ blank = {} /\ got = 0 /\ logs = {}
  /\ heard = {} /\ under = {}
  /\ slices = [s \in Slices |-> "asked"]

Strict == mode \in {"activity", "liquidatable"}

(* A batch in the order it was asked, without what failed.                     *)
Answered(ok) ==
  CHOOSE s \in [1 .. Cardinality(ok) -> ok] : \A i, j \in DOMAIN s : i < j => s[i] < s[j]

-----------------------------------------------------------------------------
(* readOnchainMarket                                                        *)
ReadInfos(ok) ==
  /\ pc = "infos"
  /\ infos' = Answered(ok) /\ pc' = "names"
  /\ UNCHANGED <<mode, txs, names, bare, blank, got, logs, heard, under, slices>>

(* Without its decimals a wrapper is taken to have none: its size is in base units. *)
ReadNames(ok, dec) ==
  /\ pc = "names"
  /\ names' = Answered(ok) /\ bare' = ok \ dec /\ pc' = "figures"
  /\ UNCHANGED <<mode, txs, infos, blank, got, logs, heard, under, slices>>

(* readReserveReads: a failed entry is 0.  The cached tier has what it stores.   *)
ReadFigures(ok) ==
  /\ pc = "figures"
  /\ blank' = {infos[i] : i \in DOMAIN infos} \ ok
  /\ pc' = IF mode = "market" THEN "ready" ELSE "list"
  /\ UNCHANGED <<mode, txs, infos, names, bare, got, logs, heard, under, slices>>

(* A read of its own fails (numAssets, baseToken): load() rejects.             *)
ReadThrows ==
  /\ pc \in {"infos", "names"}
  /\ pc' = "failed"
  /\ UNCHANGED <<mode, txs, infos, names, bare, blank, got, logs, heard, under, slices>>

(* listCometTxs: page after page, to the end or to `max`.                      *)
ListPage ==
  /\ pc = "list"
  /\ IF got < Len(txs) /\ got < MaxTxs THEN got' = got + 1 /\ UNCHANGED pc
     ELSE pc' = (IF mode = "liquidatable" THEN "probe" ELSE "logs") /\ UNCHANGED got
  /\ UNCHANGED <<mode, txs, infos, names, bare, blank, logs, heard, under, slices>>

(* Mutant: what was gathered is good enough for the cache.                     *)
PageFails_Gathered ==
  /\ pc = "list" /\ got < MaxTxs /\ (got = 0 \/ got < Len(txs))
  /\ pc' = IF mode = "liquidatable" THEN "probe" ELSE "logs"
  /\ UNCHANGED <<mode, txs, infos, names, bare, blank, got, logs, heard, under, slices>>

(* A page fails: strict throws, best effort makes do with what it has.          *)
PageFails ==
  /\ pc = "list" /\ got < MaxTxs /\ (got = 0 \/ got < Len(txs))
  /\ pc' = IF Strict THEN "failed" ELSE "logs"
  /\ UNCHANGED <<mode, txs, infos, names, bare, blank, got, logs, heard, under, slices>>

Listed == {i \in DOMAIN txs : i <= got}

(* txLogs of all of them at once: those that fail are empty, or all is lost.     *)
ReadLogs(ok) ==
  /\ pc = "logs"
  /\ logs' = Listed \cap ok
  /\ pc' = IF Strict /\ ~(Listed \subseteq ok) THEN "failed" ELSE "ready"
  /\ UNCHANGED <<mode, txs, infos, names, bare, blank, got, heard, under, slices>>

(* buildLiquidatable: isLiquidatable of every candidate in one batch, whose      *)
(* entries fail one by one, or all together.                                  *)
Probe(ok, of) ==
  /\ pc = "probe"
  /\ heard' = ok /\ under' = of /\ pc' = "ready"
  /\ UNCHANGED <<mode, txs, infos, names, bare, blank, got, logs, slices>>

-----------------------------------------------------------------------------
(* What is made of it.                                                     *)

(* mapMarketRows: the i-th name gets the i-th figures, and no row without any;    *)
(* the factor is of the enumeration, the size of the batch that may have failed.   *)
Unit(c) == IF c \in bare THEN 10 ELSE 1
MarketRows ==
  {[of |-> names[i], factor |-> infos[i],
    size |-> IF infos[i] \in blank THEN 0 ELSE infos[i] * Unit(names[i])] :
     i \in DOMAIN names \cap DOMAIN infos}

(* aggregatePoolActivity: one unit for a transaction, by lane; nothing for one    *)
(* whose logs are missing.                                                   *)
Gross(act, lane) == Cardinality({i \in logs : txs[i].act = act /\ txs[i].lane = lane})
Suppliers == {txs[i].by : i \in {j \in Listed : txs[j].act = "supply"}}

(* allocateByRatio                                                         *)
Allocate(total, evm, sol) ==
  IF evm + sol = 0 THEN [evm |-> 0, sol |-> 0]
  ELSE IF evm = 0 THEN [evm |-> 0, sol |-> total]
  ELSE LET e == (total * evm) \div (evm + sol) IN [evm |-> e, sol |-> total - e]

PoolSplit == Allocate(Total, Gross("supply", "evm"), Gross("supply", "sol"))

(* classifyAction, aggregateRecentActivity: the newest first.                   *)
Recent ==
  LET rows == {i \in Listed : txs[i].act # "other"}
  IN {i \in rows : Cardinality({j \in rows : txs[j].at > txs[i].at}) < Limit}

(* buildLiquidatable: everybody who acted on the Comet, and those of them for     *)
(* whom Comet answered yes; no answer counts as no.                            *)
Candidates == {txs[i].by : i \in Listed}
OpenLiquidations == Candidates \cap heard \cap under

(* A slice: of the shared load, or its preview; openLiquidations also asks Comet, *)
(* as Probe does.                                                           *)
Slice(s) ==
  /\ mode = "page" /\ pc \in {"ready", "failed"} /\ slices[s] = "asked"
  /\ \E to \in IF pc = "failed" THEN {"preview"}
               ELSE IF s = "openLiquidations" /\ Candidates # {} THEN {"live", "preview"} ELSE {"live"} :
       slices' = [slices EXCEPT ![s] = to]
  /\ UNCHANGED <<mode, txs, pc, infos, names, bare, blank, got, logs, heard, under>>

Next ==
  \/ \E ok \in SUBSET Colls :
       ReadInfos(ok) \/ ReadFigures(ok) \/ \E dec \in SUBSET ok : ReadNames(ok, dec)
  \/ ReadThrows \/ ListPage \/ PageFails
  \/ \E ok \in SUBSET DOMAIN txs : ReadLogs(ok)
  \/ \E ok \in SUBSET Candidates, of \in SUBSET Authors : Probe(ok, of)
  \/ \E s \in Slices : Slice(s)

Spec == Init /\ [][Next]_vars

-----------------------------------------------------------------------------
(* Properties.                                                             *)

(* What one of the two enumerations lost.                                    *)
In(seq) == {seq[i] : i \in DOMAIN seq}
Lost == Colls \ (In(infos) \cap In(names))

(* Up to the first asset that an enumeration lost every asset has its row, with    *)
(* its own factor and its own size, or 0 for a read that failed; and whatever was    *)
(* lost, no figures stand in two rows, so that totalCollateral counts nothing       *)
(* twice (mapMarketRows).                                                    *)
RowsAreOwn ==
  mode \in {"page", "market"} /\ pc \in {"list", "logs", "ready"} =>
    /\ \A c \in Colls : (\A l \in Lost : c < l) =>
         /\ \E r \in MarketRows : r.of = c
         /\ \A r \in MarketRows : r.of = c => r.factor = c /\ r.size \in {0, c * Unit(c)}
    /\ \A r, s \in MarketRows : r.of = s.of \/ r.factor = s.factor => r = s
    /\ \A r \in MarketRows : r.size = 0 => r.factor \in blank

(* The slices are one picture: all live or all preview, openLiquidations aside;   *)
(* the split adds up to the total it is of, or there is none; and what counts     *)
(* for a lane was listed (createLiveSource).                                  *)
OnePicture ==
  /\ \A s, t \in Slices \ {"openLiquidations"} :
       slices[s] # "asked" /\ slices[t] # "asked" => slices[s] = slices[t]
  /\ slices["openLiquidations"] = "live" => pc = "ready"
  /\ PoolSplit.evm + PoolSplit.sol \in {0, Total}
  /\ (PoolSplit.evm > 0 => Gross("supply", "evm") > 0) /\ (PoolSplit.sol > 0 => Gross("supply", "sol") > 0)
  /\ PoolSplit.evm + PoolSplit.sol > 0 => Suppliers # {}

(* Of the indexer the cache is never given a part for the whole: activity has    *)
(* every transaction it may read and its logs, newest first (createIndexerClient  *)
(* strict, buildActivity).                                                  *)
StrictIsWhole ==
  Strict /\ pc \in {"logs", "probe", "ready"} =>
    /\ \A i \in DOMAIN txs : i <= MaxTxs => i \in Listed /\ (mode = "activity" /\ pc = "ready" => i \in logs)
    /\ \A i \in Recent : \A j \in Listed \ Recent :
         txs[j].act # "other" => txs[j].at < txs[i].at \/ Cardinality(Recent) = Limit
    /\ Len(txs) <= MaxTxs => Candidates = Authors

(* The cached list of open liquidations names nobody whom Comet would not let be   *)
(* liquidated.  Who could be and is not on it acted before the last MaxTxs           *)
(* transactions, or Comet's answer about him was lost (buildLiquidatable,            *)
(* getCachedLiquidatable).                                                  *)
ListIsTrue ==
  mode = "liquidatable" /\ pc = "ready" =>
    /\ OpenLiquidations \subseteq under
    /\ \A u \in under \ OpenLiquidations :
         \/ \A i \in DOMAIN txs : txs[i].by = u => i > MaxTxs
         \/ u \notin heard

MarketIsRight == RowsAreOwn /\ OnePicture /\ StrictIsWhole /\ ListIsTrue
=============================================================================
