---------------------------- MODULE ActionContract ----------------------------
(***************************************************************************)
(* What a lane promises about a user's action (components/aerarium/lane/   *)
(* types.ts, LaneAdapter): an action is worked on, takes effect at most    *)
(* once, and is reported either as succeeded or as failed.  Success is     *)
(* reported only for an action that took effect.  A failure is no promise: *)
(* the action may have taken effect, or may take effect later.             *)
(***************************************************************************)
CONSTANT Actions

VARIABLES
  phase,   \* phase[f]: what the lane says of action f
  effect   \* effect[f]: f has taken effect on chain

vars == <<phase, effect>>

TypeOK ==
  /\ phase \in [Actions -> {"idle", "working", "succeeded", "failed"}]
  /\ effect \in [Actions -> BOOLEAN]

Init ==
  /\ phase = [f \in Actions |-> "idle"]
  /\ effect = [f \in Actions |-> FALSE]

Start(f) ==
  /\ phase[f] = "idle"
  /\ phase' = [phase EXCEPT ![f] = "working"]
  /\ UNCHANGED effect

TakeEffect(f) ==
  /\ phase[f] \in {"working", "failed"}
  /\ ~effect[f]
  /\ effect' = [effect EXCEPT ![f] = TRUE]
  /\ UNCHANGED phase

ReportSuccess(f) ==
  /\ phase[f] = "working" /\ effect[f]
  /\ phase' = [phase EXCEPT ![f] = "succeeded"]
  /\ UNCHANGED effect

ReportFailure(f) ==
  /\ phase[f] = "working"
  /\ phase' = [phase EXCEPT ![f] = "failed"]
  /\ UNCHANGED effect

Next == \E f \in Actions : Start(f) \/ TakeEffect(f) \/ ReportSuccess(f) \/ ReportFailure(f)

Spec == Init /\ [][Next]_vars
=============================================================================
