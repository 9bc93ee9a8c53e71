--------------------------- MODULE CommandPromise ---------------------------
(***************************************************************************)
(* What a run of a command promises the callers in gp-route (crates/       *)
(* gp-route/src/lib.rs: UnconfirmedTermination, map_run_error): it ends;   *)
(* unless it ends "unconfirmed" its effect is settled then, and the next   *)
(* command finds nobody else at work on the host.  These are the ends a    *)
(* command has in RouteApply.                                              *)
(***************************************************************************)
CONSTANT Cmds

VARIABLES
  state,   \* per command: "unissued", "running" or how it ended
  effect   \* per command: it has changed the host

vars == <<state, effect>>

Ends == {"ok", "failed", "unconfirmed"}
MayAct(c) == state[c] \in {"running", "unconfirmed"}

Init ==
  /\ state = [c \in Cmds |-> "unissued"]
  /\ effect = [c \in Cmds |-> FALSE]

\* One command at a time, and none beside one that may still be running.
Issue(c) ==
  /\ state[c] = "unissued"
  /\ \A d \in Cmds : ~MayAct(d)
  /\ state' = [state EXCEPT ![c] = "running"]
  /\ UNCHANGED effect

Act(c) ==
  /\ MayAct(c) /\ ~effect[c]
  /\ effect' = [effect EXCEPT ![c] = TRUE]
  /\ UNCHANGED state

End(c, e) ==
  /\ state[c] = "running"
  /\ e = "ok" => effect[c]
  /\ state' = [state EXCEPT ![c] = e]
  /\ UNCHANGED effect

Finish == \E c \in Cmds, e \in Ends : End(c, e)

Next == Finish \/ \E c \in Cmds : Issue(c) \/ Act(c)

Spec == Init /\ [][Next]_vars /\ WF_vars(Finish)
=============================================================================
