---------------------------- MODULE RoutePromise ----------------------------
(***************************************************************************)
(* What gp-route promises its caller, run_tunnel (crates/gp-route/src/     *)
(* lib.rs: the docs of apply, revert and DegradedTeardown): an apply that  *)
(* fails has taken its work back, a revert that is clean has too, and      *)
(* where a killed command may still be running the phase ends degraded.    *)
(* The route actions of TunnelThread are these steps; RouteApply is        *)
(* checked to implement them.                                              *)
(***************************************************************************)

VARIABLES
  stage,    \* "applying", "up", "reverting" or "down"
  verdict,  \* how the last phase ended
  leaked,   \* something of it is, or for all gp-route knows may be, left
  slip      \* what an undegraded phase may leave something for

vars == <<stage, verdict, leaked, slip>>

Init ==
  /\ stage = "applying"
  /\ verdict = "none"
  /\ leaked = FALSE
  /\ slip = FALSE

Applied ==
  /\ stage = "applying"
  /\ stage' = "up"
  /\ UNCHANGED <<verdict, leaked, slip>>

\* The phase is over: degraded, or with nothing left that no slip explains.
Down(v) ==
  /\ stage' = "down"
  /\ verdict' = v
  /\ slip' \in BOOLEAN
  /\ leaked' \in BOOLEAN
  /\ IF v = "degraded" THEN leaked' ELSE leaked' => slip'

ApplyFails == stage = "applying" /\ \E v \in {"err", "degraded"} : Down(v)

RevertStarts ==
  /\ stage = "up"
  /\ stage' = "reverting"
  /\ UNCHANGED <<verdict, leaked, slip>>

\* There was nothing to undo.
RevertIsEmpty == stage = "up" /\ Down("clean")

RevertEnds ==
  /\ stage = "reverting"
  /\ \/ Down("clean") \/ Down("degraded")
     \/ Down("errors") /\ slip'

Next == Applied \/ ApplyFails \/ RevertStarts \/ RevertIsEmpty \/ RevertEnds

Spec ==
  /\ Init /\ [][Next]_vars
  /\ WF_vars(Applied \/ ApplyFails) /\ WF_vars(RevertEnds)

\* The process may die at any point; another one applies anew.
StartsOver ==
  /\ stage' = "applying" /\ verdict' = "none"
  /\ leaked' = FALSE /\ slip' = FALSE

SpecOfMany ==
  /\ Init /\ [][Next \/ StartsOver]_vars
  /\ WF_vars(Applied \/ ApplyFails) /\ WF_vars(RevertEnds)
=============================================================================
