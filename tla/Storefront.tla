------------------------------ MODULE Storefront ------------------------------
(***************************************************************************)
(* What is read on a timer and needs no wallet: the seized collateral Comet    *)
(* has for sale (lib/portal/storefront.ts, hooks/useStorefront.ts, on both      *)
(* dashboards in StorefrontSection.tsx), and the portal's protocol figures       *)
(* (hooks/useProtocolStats.ts, computeProtocolStats).                          *)
(*                                                                         *)
(* A load is several calls, each of a state of its own: a head, and then what    *)
(* follows from it - one collateral after the other, or the rates at the          *)
(* utilisation just read.  Loads overlap: a timer starts them, another Comet     *)
(* starts one at once, and nothing cancels them.  The two panels share nothing, so   *)
(* a behaviour is that of one of them.  Comet is external.                          *)
(***************************************************************************)
EXTENDS Naturals

CONSTANTS
  Comets,    \* the build's and the deployment's
  Built,
  NColl,     \* collaterals of each
  Loads,     \* loads that can be under way at once
  MaxMoves   \* bound on what happens in the market

VARIABLES
  panel,     \* the panel looked at
  comet,     \* whose figures are asked for
  market,    \* market[c]: reserves below the target, what Comet holds for sale, utilisation
  load,      \* load[l]: a load on its way
  sale,      \* the storefront in the state, or none yet
  figures,   \* the protocol figures in the state
  loading,   \* the panel says it is checking
  moves,
  always, ever \* history: what has been for sale all along, and what Comet ever held

vars == <<panel, comet, market, load, sale, figures, loading, moves, always, ever>>

Panels == {"sale", "figures"}
Colls == 1 .. NColl
NoSale == [of |-> Built, open |-> FALSE, items |-> {}, read |-> FALSE]
NoFigures == [of |-> Built, util |-> 0, rate |-> 0, read |-> FALSE]
NoLoad == [pc |-> "idle", of |-> Built, left |-> 0, items |-> {}, util |-> 0]

StorefrontTypeOK ==
  /\ comet \in Comets
  /\ market \in [Comets -> [open : BOOLEAN, held : SUBSET Colls, util : 0 .. 1]]
  /\ \A l \in Loads :
       load[l] \in [pc : {"idle", "head", "tail"}, of : Comets, left : 0 .. NColl,
                    items : SUBSET Colls, util : 0 .. 1]
  /\ sale \in [of : Comets, open : BOOLEAN, items : SUBSET Colls, read : BOOLEAN]
  /\ figures \in [of : Comets, util : 0 .. 1, rate : 0 .. 1, read : BOOLEAN]
  /\ panel \in Panels /\ loading \in BOOLEAN /\ moves \in 0 .. MaxMoves

ForSale(m) == IF m.open THEN m.held ELSE {}

Init ==
  /\ panel \in Panels /\ comet = Built
  /\ market \in [Comets -> [open : BOOLEAN, held : {{}, Colls}, util : {0}]]
  /\ load = [l \in Loads |-> NoLoad] /\ sale = NoSale /\ figures = NoFigures
  /\ loading = (panel = "sale") /\ moves = 0
  /\ always = [c \in Comets |-> ForSale(market[c])] /\ ever = [c \in Comets |-> market[c].held]

-----------------------------------------------------------------------------
(* Comet (external): reserves fall below the target or are made up, a collateral is    *)
(* seized or sold, somebody borrows or repays.                                    *)
Market(c) ==
  /\ moves < MaxMoves /\ moves' = moves + 1
  /\ \/ market' = [market EXCEPT ![c].open = ~@]
     \/ \E i \in Colls \ market[c].held : market' = [market EXCEPT ![c].held = @ \cup {i}]
     \/ \E i \in ForSale(market[c]) : market' = [market EXCEPT ![c].held = @ \ {i}]
     \/ market' = [market EXCEPT ![c].util = 1 - @]
  /\ always' = [always EXCEPT ![c] = @ \cap ForSale(market'[c])]
  /\ ever' = [ever EXCEPT ![c] = @ \cup market'[c].held]
  /\ UNCHANGED <<panel, comet, load, sale, figures, loading>>

(* /api/env names another chain: the hooks are asked for its Comet.                  *)
SwitchComet ==
  /\ comet = Built /\ \E c \in Comets \ {Built} : comet' = c
  /\ UNCHANGED <<panel, market, load, sale, figures, loading, moves, always, ever>>

-----------------------------------------------------------------------------
(* refresh and load, from the effect or its interval.                              *)
Tick(l) ==
  /\ load[l].pc = "idle"
  /\ load' = [load EXCEPT ![l] = [NoLoad EXCEPT !.pc = "head", !.of = comet]]
  /\ loading' = TRUE
  /\ UNCHANGED <<panel, comet, market, sale, figures, moves, always, ever>>

Done(l) ==
  load' = [load EXCEPT ![l] = NoLoad] /\ loading' = FALSE

ShowSale(l, open, items) ==
  /\ sale' = [of |-> load[l].of, open |-> open, items |-> items, read |-> TRUE]
  /\ Done(l) /\ UNCHANGED figures

(* The first calls: closed, or on to the collaterals; the utilisation.                *)
ReadHead(l) ==
  /\ load[l].pc = "head"
  /\ LET m == market[load[l].of]
     IN IF panel = "sale" /\ ~m.open THEN ShowSale(l, FALSE, {})
        ELSE /\ load' = [load EXCEPT ![l] = [@ EXCEPT !.pc = "tail", !.left = NColl, !.util = m.util]]
             /\ UNCHANGED <<sale, figures, loading>>
  /\ UNCHANGED <<panel, comet, market, moves, always, ever>>

(* Mutants: every listed collateral is for sale; none is but the first.               *)
Kept_Listed(m, i) == TRUE
Kept_First(m, i) == i = 1 /\ i \in m.held

(* buildStorefront's filter: Comet holds some of it.                                 *)
Kept(m, i) == i \in m.held

(* One collateral: its configuration, and with it its reserves and symbol.             *)
ReadColl(l) ==
  /\ load[l].pc = "tail" /\ panel = "sale" /\ load[l].left > 0
  /\ LET d == load[l]
         i == NColl + 1 - d.left
     IN load' = [load EXCEPT ![l] = [d EXCEPT
          !.left = d.left - 1, !.items = IF Kept(market[d.of], i) THEN d.items \cup {i} ELSE d.items]]
  /\ UNCHANGED <<panel, comet, market, sale, figures, loading, moves, always, ever>>

(* Comet's rate is a function of the utilisation it is asked for.                      *)
Rate(u) == u

(* getSupplyRate and getBorrowRate at the utilisation just read.                       *)
RateFor(l) == Rate(load[l].util)

Finish(l) ==
  /\ load[l].pc = "tail"
  /\ \/ panel = "sale" /\ load[l].left = 0 /\ ShowSale(l, TRUE, load[l].items)
     \/ /\ panel = "figures"
        /\ figures' = [of |-> load[l].of, util |-> load[l].util, rate |-> RateFor(l), read |-> TRUE]
        /\ Done(l) /\ UNCHANGED sale
  /\ UNCHANGED <<panel, comet, market, moves, always, ever>>

(* A read throws: what was shown stays, and the next tick tries again.                 *)
Throw(l) ==
  /\ load[l].pc # "idle" /\ Done(l)
  /\ UNCHANGED <<panel, comet, market, sale, figures, moves, always, ever>>

Answer(l) == ReadHead(l) \/ ReadColl(l) \/ Finish(l)
Next ==
  \/ SwitchComet \/ \E c \in Comets : Market(c)
  \/ \E l \in Loads : Tick(l) \/ Answer(l) \/ Throw(l)

-----------------------------------------------------------------------------
(* Properties.                                                             *)

(* The collateral that has been for sale all along is in every answer, whatever was     *)
(* sold, seized or made up between its calls, and one Comet never held is in none         *)
(* (fetchStorefront, buildStorefront).                                            *)
OffersAreReal ==
  sale.read => /\ always[sale.of] \subseteq sale.items
               /\ sale.items \subseteq ever[sale.of] /\ (sale.items # {} => sale.open)

(* The rates shown are those of the utilisation next to them, though they were read in a   *)
(* second round trip (useProtocolStats).                                          *)
FiguresFit == figures.rate = Rate(figures.util)

StorefrontIsRight == OffersAreReal /\ FiguresFit
=============================================================================
