---------------------------- MODULE RegistryEntry ----------------------------
(***************************************************************************)
(* What the build makes of one chain's files in the registry                  *)
(* (scripts/build-compound-config.ts, lib/registry), and which of the chain's    *)
(* Comets each part of the app takes from that.                              *)
(*                                                                         *)
(* Two files are committed: generated.json for everybody, and                  *)
(* generated.solana-rpc.json for the server alone.  They are written one after   *)
(* the other; a build that finds no registry, or one it cannot make sense of,    *)
(* goes on with the committed ones; `--check` compares both.  An address is the  *)
(* place of its Comet in the entry.                                          *)
(***************************************************************************)
EXTENDS Integers, Sequences

CONSTANTS
  Entries,   \* what the registry may hold for the chain
  MaxEdits   \* bound: edits of the registry

VARIABLES
  entry,   \* the registry's files
  gen,     \* generated.json: empty, or the chain's configuration
  rpcs,    \* generated.solana-rpc.json: whether it has the chain's RPC
  half,    \* the first file is written and the second is not yet
  passed,  \* history: --check has passed since the last edit
  edits

registryVars == <<entry, gen, rpcs, half, passed, edits>>

-----------------------------------------------------------------------------
(* One entry.                                                              *)

(* Array.find: empty, or the first that passes.                               *)
Find(s, Test(_)) ==
  LET hits == {i \in DOMAIN s : Test(s[i])}
  IN IF hits = {} THEN <<>> ELSE <<s[CHOOSE i \in hits : \A j \in hits : i <= j]>>

(* resolveRpcRef, and an entry without Comets.                               *)
Throws(e) == e.status # "retired" /\ (~e.ref \/ e.comets = <<>>)

Labels(e) == {e.comets[i].label : i \in DOMAIN e.comets}

(* Of two Comets with one label the later is kept, in the place of the first.  *)
Places(e, l) == {i \in DOMAIN e.comets : e.comets[i].label = l}
Kept(e, l) == CHOOSE i \in Places(e, l) : \A j \in Places(e, l) : j <= i
ByLabel(e) == [l \in Labels(e) |-> [at |-> Kept(e, l), colls |-> e.comets[Kept(e, l)].colls]]

PrimaryComet(e) == IF "supply-only" \in Labels(e) THEN "supply-only" ELSE e.comets[1].label

(* extractChainFields: the first version of Multicall3 that is live.          *)
Multicall3(e) == Find(e.multicall, LAMBDA v : v.live)

(* extractPersistentAlts: the Comet's table, then the chain's.               *)
PersistentAlts(e) ==
  Find(e.alts, LAMBDA t : t.tier = "dapp" /\ t.dapp = "comet")
  \o Find(e.alts, LAMBDA t : t.tier = "chain")

(* buildCompoundChainConfig; a retired entry makes none.                       *)
Config(e) ==
  IF e.status = "retired" THEN {}
  ELSE {[comets |-> ByLabel(e), primary |-> PrimaryComet(e), leverage |-> e.leverage,
         order |-> [i \in DOMAIN e.comets |-> e.comets[i].label],
         multicall3 |-> Multicall3(e), alts |-> PersistentAlts(e)]}

SolanaRpc(e) == e.status # "retired" /\ e.rpc

-----------------------------------------------------------------------------
(* The Comet that each part takes from a configuration.                       *)

(* resolveProbeConfig, and the landing page's source.                         *)
SolanaComet(g) == g.comets[g.primary]

(* buildLegacyConfig: the EVM lane, the portal and the market cache.           *)
CollateralComet(g) ==
  IF "multicollat" \in DOMAIN g.comets THEN g.comets["multicollat"]
  ELSE IF "collat-pcol" \in DOMAIN g.comets THEN g.comets["collat-pcol"]
  ELSE g.comets[g.primary]

(* pickCollatComet: empty, or the Comet that leverage opens on.                *)
PickCollatComet(g) ==
  IF "multicollat" \in DOMAIN g.comets /\ g.comets["multicollat"].colls > 0
  THEN <<g.comets["multicollat"]>>
  ELSE IF "collat-pcol" \in DOMAIN g.comets THEN <<g.comets["collat-pcol"]>>
  ELSE LET in == [i \in DOMAIN g.order |-> g.comets[g.order[i]]]
       IN Find(in, LAMBDA c : c.colls > 0)

(* isLeverageOpenSupported                                                 *)
LeverageOpen(g) == g.leverage /\ PickCollatComet(g) # <<>>

-----------------------------------------------------------------------------
(* The build.                                                              *)

(* CompoundChainConfig: what an entry that can be read becomes, or nothing.      *)
Configs == {Config(e) : e \in {x \in Entries : ~Throws(x)}}

RegistryTypeOK ==
  /\ entry \in Entries /\ gen \in Configs \cup {{}}
  /\ rpcs \in BOOLEAN /\ half \in BOOLEAN /\ passed \in BOOLEAN /\ edits \in 0 .. MaxEdits

(* What is committed was made of the entry, or there is nothing yet.           *)
Init ==
  /\ entry \in Entries
  /\ \/ ~Throws(entry) /\ gen = Config(entry) /\ rpcs = SolanaRpc(entry)
     \/ gen = {} /\ rpcs = FALSE
  /\ half = FALSE /\ passed = FALSE /\ edits = 0

Edit(e) ==
  /\ edits < MaxEdits /\ ~half
  /\ entry' = e /\ edits' = edits + 1 /\ passed' = FALSE
  /\ UNCHANGED <<gen, rpcs, half>>

(* main: the first file; a registry that cannot be read changes nothing.        *)
Generate ==
  /\ ~half
  /\ IF Throws(entry) THEN UNCHANGED <<gen, half>> ELSE gen' = Config(entry) /\ half' = TRUE
  /\ UNCHANGED <<entry, rpcs, passed, edits>>

(* The second file, unless the build is stopped in between.                    *)
WriteRpc ==
  /\ half /\ half' = FALSE
  /\ rpcs' = SolanaRpc(entry)
  /\ UNCHANGED <<entry, gen, passed, edits>>

Stop == half /\ half' = FALSE /\ UNCHANGED <<entry, gen, rpcs, passed, edits>>

(* checkInSync of both.                                                     *)
InSync == gen = Config(entry) /\ rpcs = SolanaRpc(entry)

Check ==
  /\ ~half
  /\ passed' = (~Throws(entry) /\ InSync)
  /\ UNCHANGED <<entry, gen, rpcs, half, edits>>

Next == Generate \/ WriteRpc \/ Stop \/ Check \/ \E e \in Entries : Edit(e)

Spec == Init /\ [][Next]_registryVars

-----------------------------------------------------------------------------
(* Properties.                                                             *)

(* A check that passed means that the app has what the registry says, whatever  *)
(* was built, stopped half-way or failed before: for the browser and for the    *)
(* server's RPC (build-compound-config --check).                             *)
CheckedIsServed ==
  passed /\ ~half => gen = Config(entry) /\ rpcs = SolanaRpc(entry)

(* The lanes are on one Comet unless the entry lists a "multicollat" or          *)
(* "collat-pcol" beside the primary one; and leverage is offered and opens on the    *)
(* Comet that the portal shows when that one has collateral and no other Comet of the entry has   *)
(* (config.ts: "the SAME Comet the leverage flow targets").                    *)
Lend(g) == {l \in DOMAIN g.comets : g.comets[l].colls > 0}
PartsAgree ==
  \A g \in gen :
    /\ SolanaComet(g) # CollateralComet(g) =>
         (DOMAIN g.comets \cap {"multicollat", "collat-pcol"}) \ {g.primary} # {}
    /\ \A l \in Lend(g) :
         g.leverage /\ Lend(g) = {l} /\ CollateralComet(g) = g.comets[l] =>
           LeverageOpen(g) /\ PickCollatComet(g) = <<CollateralComet(g)>>

RegistryIsRight == CheckedIsServed /\ PartsAgree
=============================================================================
