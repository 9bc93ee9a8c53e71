----------------------------- MODULE MCSession -----------------------------
(* Session with two thread identities, so that a second live tunnel would show. *)
EXTENDS Session

\* The platforms with native routes and DNS, a run without them, and Windows
\* with --hip=force, which adds a way to tear a live tunnel down.
MCOptions ==
  {o \in Invocations :
     \/ ~o.windows /\ o.native_routes = o.pushed_dns /\ o.hip_mode = "off"
     \/ o.windows /\ o.native_routes /\ o.pushed_dns /\ o.hip_mode = "force"
     \/ o.windows /\ o.native_routes /\ ~o.pushed_dns /\ o.hip_mode = "off"}
=============================================================================
