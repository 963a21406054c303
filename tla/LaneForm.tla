------------------------------- MODULE LaneForm -------------------------------
(***************************************************************************)
(* The form of a lane's page (components/aerarium/lane/LaneApp.tsx with     *)
(* ActionPanel and AssetTable): which asset is selected, which action tab is *)
(* on, which amount is typed, and what is handed to submitAction.            *)
(*                                                                         *)
(* The selection is kept by symbol while the list of assets comes and goes   *)
(* with the reads: a row may be missing, and a row whose symbol is not known  *)
(* bears a stand-in, "asset" (every one of them) or the head of its address.  *)
(* How much an action may move is the business of LaneActions; here it may be  *)
(* enough or not.                                                          *)
(***************************************************************************)
EXTENDS Naturals, Sequences, FiniteSetsExt

CONSTANTS
  Base,       \* the base asset
  Listed,     \* the collateral assets, in the order of the list
  Sums,       \* amounts the user types
  MaxReads    \* reads of list and symbols (a bound)

VARIABLES
  rows,      \* assets the position lists
  label,     \* what each asset is called: its "name", "asset" or a "head"
  selSym, action, amount,  \* LaneApp's own state; amount 0 is the empty field
  signing,   \* the submissions that run: empty, or one
  connected,
  typedFor,  \* history: the asset the panel was about when the amount was typed
  relisted,  \* history: list or symbols changed under an amount
  carried,   \* history: the action was on when the row came up
  reads

formVars == <<rows, label, selSym, action, amount, signing, connected,
              typedFor, relisted, carried, reads>>

ActionType == {"supply", "withdraw", "borrow", "repay"}
Order == <<Base>> \o Listed
Assets == {Order[i] : i \in DOMAIN Order}
Labels == {"name", "asset", "head"}
Sym(calls, a) == <<calls[a], IF calls[a] = "asset" THEN Base ELSE a>>
NoSym == <<"none", Base>>  \* no selection, or a symbol of no asset
Symbols == {<<l, a>> : l \in Labels, a \in Assets} \cup {NoSym}

Submission == [what: {"none"} \cup ActionType, asset: Assets, amt: Sums \cup {0},
               for: Assets, relisted: BOOLEAN, carried: BOOLEAN]

FormTypeOK ==
  /\ rows \subseteq Assets /\ label \in [Assets -> Labels]
  /\ selSym \in Symbols /\ action \in ActionType /\ amount \in Sums \cup {0}
  /\ signing \in Submission
  /\ connected \in BOOLEAN /\ typedFor \in Assets
  /\ relisted \in BOOLEAN /\ carried \in BOOLEAN /\ reads \in 0 .. MaxReads

(* sel: the first row that bears the symbol, else the first row.            *)
Selected(list, calls, symbol) ==
  LET in == {i \in DOMAIN Order : Order[i] \in list}
      hits == {i \in in : Sym(calls, Order[i]) = symbol}
  IN Order[Min(IF hits # {} THEN hits ELSE in)]
Sel == Selected(rows, label, selSym)

Tabs(a) == IF a = Base THEN ActionType ELSE {"supply", "withdraw"}

NotSigning == [what |-> "none", asset |-> Base, amt |-> 0, for |-> Base,
               relisted |-> FALSE, carried |-> FALSE]

(* The dashboard's links: the asset's symbol, as it was called there, and an   *)
(* action of one of its buttons.                                            *)
Link(a) == {"supply", IF a = Base THEN "borrow" ELSE "withdraw"}

(* The registry names some assets; the base is the first row, whatever it is   *)
(* called.                                                                 *)
Init ==
  /\ rows = {} /\ label \in {c \in [Assets -> Labels \ {"head"}] : c[Base] = "name"}
  /\ \/ selSym = NoSym /\ action = "supply"
     \/ \E a \in Assets : selSym \in {Sym(label, a), <<"name", a>>} /\ action \in Link(a)
  /\ amount = 0 /\ signing = NotSigning /\ connected = FALSE
  /\ typedFor = Base /\ relisted = FALSE /\ carried = FALSE /\ reads = 0

(* A read of the position, or of the symbols, some of which may fail.        *)
Read ==
  /\ reads < MaxReads /\ reads' = reads + 1
  /\ \/ rows' \in {s \in SUBSET Assets : Base \in s} /\ UNCHANGED label
     \/ label' \in {c \in [Assets -> Labels] : c[Base] = "name"} /\ UNCHANGED rows
  /\ LET moves == rows # {} /\ Selected(rows', label', selSym) # Sel
     IN relisted' = (relisted \/ (moves /\ amount > 0)) /\ carried' = (carried \/ moves)
  /\ UNCHANGED <<selSym, action, amount, signing, connected, typedFor>>

(* LaneApp's screen is the lane's own, not the connect card.               *)
Shown == connected /\ rows # {}
PanelShown == Shown /\ signing = NotSigning

(* onSelect.  Rows can be clicked while a flow signs.                       *)
ClickRow(a) ==
  /\ Shown /\ a \in rows
  /\ selSym' = Sym(label, a) /\ amount' = 0 /\ relisted' = FALSE
  /\ carried' = (carried \/ Selected(rows, label, selSym') # Sel)
  /\ UNCHANGED <<rows, label, action, signing, connected, typedFor, reads>>

(* onActionType: the amount stays.                                          *)
ClickTab(t) ==
  /\ PanelShown /\ t \in Tabs(Sel)
  /\ action' = t /\ carried' = FALSE
  /\ UNCHANGED <<rows, label, selSym, amount, signing, connected, typedFor, relisted, reads>>

(* The amount field and Max.                                               *)
Type(n) ==
  /\ PanelShown
  /\ amount' = n /\ typedFor' = Sel /\ relisted' = FALSE
  /\ UNCHANGED <<rows, label, selSym, action, signing, connected, carried, reads>>

(* The button, when validateAction lets it: nothing is owed in a collateral.  *)
Submit ==
  /\ PanelShown /\ amount > 0
  /\ action = "repay" => Sel = Base
  /\ signing' = [what |-> action, asset |-> Sel, amt |-> amount, for |-> typedFor,
                 relisted |-> relisted, carried |-> carried]
  /\ UNCHANGED <<rows, label, selSym, action, amount, connected, typedFor,
                 relisted, carried, reads>>

(* The flow ends; the form keeps what it holds.                             *)
End ==
  /\ signing # NotSigning /\ signing' = NotSigning
  /\ UNCHANGED <<rows, label, selSym, action, amount, connected, typedFor,
                 relisted, carried, reads>>

(* A wallet connects, or goes by itself; the header's Disconnect clears the   *)
(* form as well.                                                           *)
ConnectionChange ==
  /\ connected' = ~connected
  /\ UNCHANGED <<rows, label, selSym, action, amount, signing, typedFor,
                 relisted, carried, reads>>

Disconnect ==
  /\ connected /\ connected' = FALSE
  /\ selSym' = NoSym /\ action' = "supply" /\ amount' = 0
  /\ relisted' = FALSE /\ carried' = FALSE
  /\ UNCHANGED <<rows, label, signing, typedFor, reads>>

Next ==
  \/ Read \/ Submit \/ End \/ ConnectionChange \/ Disconnect
  \/ \E a \in Assets : ClickRow(a)
  \/ \E t \in ActionType : ClickTab(t)
  \/ \E n \in Sums : Type(n)

-----------------------------------------------------------------------------
(* The asset a flow moves: borrow and repay are of the base on both lanes    *)
(* (runAction's targetAsset, doBorrow, doRepay).                            *)
Moved == IF signing.what \in {"borrow", "repay"} THEN Base ELSE signing.asset

(* An amount is submitted for the asset it was typed for, unless list or      *)
(* symbols changed under it; and the flow moves the asset the panel named, by  *)
(* a tab of that asset, unless a borrow was on when the row came up.           *)
SubmitsWhatIsShown ==
  signing # NotSigning =>
    /\ \/ signing.for = signing.asset
       \/ signing.relisted
    /\ \/ signing.what \in Tabs(signing.asset) /\ Moved = signing.asset
       \/ signing.carried /\ signing.what = "borrow"

(* "In a Compound v3 Comet only the base asset is borrowable; collaterals are  *)
(* supply-only. Gates ... the 4-vs-2 tab set in ActionPanel" (types.ts): a     *)
(* borrow is submitted for the base.  It is not: the tab set hides the tab,     *)
(* and the action that was on stays.                                       *)
BorrowIsOfBase == signing.what = "borrow" => signing.asset = Base
=============================================================================
