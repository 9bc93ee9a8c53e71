--------------------------- MODULE CommandRunner ----------------------------
(***************************************************************************)
(* The command runner of gp-route (crates/gp-route/src/lib.rs,             *)
(* run_with_timeout and below).  A supervising thread spawns the child,    *)
(* which may take for ever, and hands it to the caller through a channel;  *)
(* the caller waits to one deadline, kills what is late, and has to end    *)
(* with an error of its own kind where it has not seen the child die.      *)
(*                                                                         *)
(* Commands are issued one after the other by a caller that, as gp-route   *)
(* does, issues none after an unconfirmed one.                             *)
(***************************************************************************)
CONSTANT Cmds

VARIABLES
  at,       \* where the caller is with the command
  expired,  \* the bounded wait the caller is in has run out
  sup,      \* the supervising thread
  queue,    \* the channel between them
  child,    \* the process
  held,     \* a descendant of it holds the output pipes open
  acted,    \* it has changed the host
  killed,   \* the runner, or a reaper at one of the ReapSites, has killed it
  clocks,   \* PhaseClocks: the last of the child that the runner has observed
  result,   \* what the runner returned
  record    \* CommandOutcome.child_state

process == <<child, held, acted>>
caller == <<at, expired, clocks, result, record>>
runnerVars == <<caller, sup, queue, process, killed>>

Places == {"unissued", "dispatch", "recv", "lastdrain", "latereap", "droprx", "dropreap",
           "drainers", "poll", "confirm", "early", "collect", "ended"}
Observed == {"nothing", "adopted", "exited", "confirmed_dead"}
Results == {"none", "ok", "error", "timeout", "unconfirmed"}

RunnerTypeOK ==
  /\ at \in [Cmds -> Places]
  /\ expired \in [Cmds -> BOOLEAN]
  /\ sup \in [Cmds -> {"none", "spawning", "sending", "reaping", "gone"}]
  /\ queue \in [Cmds -> {"empty", "child", "error"}]
  /\ child \in [Cmds -> {"none", "alive", "dead"}]
  /\ held \in [Cmds -> BOOLEAN]
  /\ acted \in [Cmds -> BOOLEAN]
  /\ killed \in [Cmds -> BOOLEAN]
  /\ clocks \in [Cmds -> Observed]
  /\ result \in [Cmds -> Results]
  /\ record \in [Cmds -> {"None", "Running", "Exited", "Unconfirmed"}]

RunnerInit ==
  /\ at = [c \in Cmds |-> "unissued"]
  /\ expired = [c \in Cmds |-> FALSE]
  /\ sup = [c \in Cmds |-> "none"]
  /\ queue = [c \in Cmds |-> "empty"]
  /\ child = [c \in Cmds |-> "none"]
  /\ held = [c \in Cmds |-> FALSE]
  /\ acted = [c \in Cmds |-> FALSE]
  /\ killed = [c \in Cmds |-> FALSE]
  /\ clocks = [c \in Cmds |-> "nothing"]
  /\ result = [c \in Cmds |-> "none"]
  /\ record = [c \in Cmds |-> "None"]

-----------------------------------------------------------------------------
(* The child: it may act, exit, or die of a kill at any time, or never.      *)

ChildActs(c) ==
  /\ child[c] = "alive" /\ ~acted[c]
  /\ acted' = [acted EXCEPT ![c] = TRUE]
  /\ UNCHANGED <<caller, sup, queue, child, held, killed>>

\* Its status tells whether it has acted.
ChildEnds(c) ==
  /\ child[c] = "alive"
  /\ child' = [child EXCEPT ![c] = "dead"]
  /\ \E h \in BOOLEAN : held' = [held EXCEPT ![c] = h]
  /\ UNCHANGED <<caller, sup, queue, acted, killed>>

PipesClose(c) ==
  /\ held[c]
  /\ held' = [held EXCEPT ![c] = FALSE]
  /\ UNCHANGED <<caller, sup, queue, child, acted, killed>>

-----------------------------------------------------------------------------
(* The supervising thread. *)

RxOpen(c) == at[c] \in {"recv", "lastdrain", "latereap", "droprx"}

Kill(c) == killed' = [killed EXCEPT ![c] = TRUE]

SpawnReturns(c) ==
  /\ sup[c] = "spawning"
  /\ \/ /\ sup' = [sup EXCEPT ![c] = "sending"]
        /\ child' = [child EXCEPT ![c] = "alive"]
        /\ UNCHANGED queue
     \/ /\ sup' = [sup EXCEPT ![c] = "gone"]
        /\ queue' = [queue EXCEPT ![c] = IF RxOpen(c) THEN "error" ELSE @]
        /\ UNCHANGED child
  /\ UNCHANGED <<caller, held, acted, killed>>

SupervisorDies(c) ==
  /\ sup[c] = "spawning"
  /\ sup' = [sup EXCEPT ![c] = "gone"]
  /\ UNCHANGED <<caller, queue, process, killed>>

\* The receiver is gone: the packet comes back and is reaped here.
Send(c) ==
  /\ sup[c] = "sending"
  /\ IF RxOpen(c)
     THEN /\ queue' = [queue EXCEPT ![c] = "child"]
          /\ sup' = [sup EXCEPT ![c] = "gone"]
          /\ UNCHANGED killed
     ELSE /\ Kill(c)
          /\ sup' = [sup EXCEPT ![c] = "reaping"]
          /\ UNCHANGED queue
  /\ UNCHANGED <<caller, process>>

\* reap_late_child: confirmed or not, after KILL_GRACE at the latest.
SupervisorReaped(c) ==
  /\ sup[c] = "reaping"
  /\ sup' = [sup EXCEPT ![c] = "gone"]
  /\ UNCHANGED <<caller, queue, process, killed>>

-----------------------------------------------------------------------------
(* The caller, up to the adoption of the child. *)

FaultyChildState(c, r, seen) ==
  IF seen \in {"exited", "confirmed_dead"} THEN "Exited"
  ELSE IF seen = "adopted" THEN "Exited"
  ELSE IF r = "unconfirmed" THEN "Unconfirmed"
  ELSE "None"

\* build_command_outcome
ChildState(c, r, seen) ==
  IF seen \in {"exited", "confirmed_dead"} THEN "Exited"
  ELSE IF r = "unconfirmed" THEN "Unconfirmed"
  ELSE IF seen = "adopted" THEN "Running"
  ELSE "None"

\* The wait the caller enters, if it is one, has its own bound.
Moves(c, to, seen) ==
  /\ at' = [at EXCEPT ![c] = to]
  /\ expired' = [expired EXCEPT ![c] = FALSE]
  /\ clocks' = [clocks EXCEPT ![c] = seen]
  /\ UNCHANGED <<result, record>>

\* It still waits to the deadline it started with.
Continues(c, to, seen) ==
  /\ at' = [at EXCEPT ![c] = to]
  /\ clocks' = [clocks EXCEPT ![c] = seen]
  /\ UNCHANGED <<expired, result, record>>

Returns(c, r, seen) ==
  /\ at' = [at EXCEPT ![c] = "ended"]
  /\ result' = [result EXCEPT ![c] = r]
  /\ clocks' = [clocks EXCEPT ![c] = seen]
  /\ record' = [record EXCEPT ![c] = ChildState(c, r, seen)]
  /\ UNCHANGED expired

TimePasses(c) ==
  /\ at[c] \in {"recv", "poll", "confirm", "early", "latereap", "dropreap", "collect"}
  /\ ~expired[c]
  /\ expired' = [expired EXCEPT ![c] = TRUE]
  /\ UNCHANGED <<at, clocks, result, record, sup, queue, process, killed>>

\* blocks_further_mutation: nothing is issued after an unconfirmed end.
Free == \A d \in Cmds : at[d] \in {"unissued", "ended"} /\ result[d] # "unconfirmed"

Start(c) ==
  /\ at[c] = "unissued" /\ Free
  /\ Moves(c, "dispatch", clocks[c])
  /\ UNCHANGED <<sup, queue, process, killed>>

\* If the thread cannot be created, no child was ever asked for.
Dispatch(c) ==
  /\ at[c] = "dispatch"
  /\ \/ Moves(c, "recv", clocks[c]) /\ sup' = [sup EXCEPT ![c] = "spawning"]
     \/ Returns(c, "error", clocks[c]) /\ UNCHANGED sup
  /\ UNCHANGED <<queue, process, killed>>

Receive(c) ==
  /\ at[c] = "recv"
  /\ \/ queue[c] = "child" /\ Continues(c, "drainers", "adopted")
     \/ queue[c] = "error" /\ Returns(c, "error", clocks[c])
  /\ queue' = [queue EXCEPT ![c] = "empty"]
  /\ UNCHANGED <<sup, process, killed>>

ReceiveDisconnects(c) ==
  /\ at[c] = "recv" /\ queue[c] = "empty" /\ sup[c] = "gone"
  /\ Returns(c, "unconfirmed", clocks[c])
  /\ UNCHANGED <<sup, queue, process, killed>>

\* The error is built first, with the receiver alive...
ReceiveTimesOut(c) ==
  /\ at[c] = "recv" /\ queue[c] = "empty" /\ expired[c]
  /\ Moves(c, "lastdrain", clocks[c])
  /\ UNCHANGED <<sup, queue, process, killed>>

\* ...then the channel is drained once more...
LastDrain(c) ==
  /\ at[c] = "lastdrain"
  /\ IF queue[c] = "child"
     THEN Kill(c) /\ Moves(c, "latereap", clocks[c])
     ELSE UNCHANGED killed /\ Moves(c, "droprx", clocks[c])
  /\ queue' = [queue EXCEPT ![c] = "empty"]
  /\ UNCHANGED <<sup, process>>

FaultyDropReceiver(c) ==
  /\ at[c] = "droprx"
  /\ Returns(c, "unconfirmed", clocks[c])
  /\ queue' = [queue EXCEPT ![c] = "empty"]
  /\ UNCHANGED <<sup, process, killed>>

\* ...and what comes after that is reaped by the packet's Drop.
DropReceiver(c) ==
  /\ at[c] = "droprx"
  /\ IF queue[c] = "child"
     THEN Kill(c) /\ Moves(c, "dropreap", clocks[c])
     ELSE UNCHANGED killed /\ Returns(c, "unconfirmed", clocks[c])
  /\ queue' = [queue EXCEPT ![c] = "empty"]
  /\ UNCHANGED <<sup, process>>

Reaped(c) ==
  /\ \/ at[c] = "latereap" /\ Moves(c, "droprx", clocks[c])
     \/ at[c] = "dropreap" /\ Returns(c, "unconfirmed", clocks[c])
  /\ child[c] = "dead" \/ expired[c]
  /\ UNCHANGED <<sup, queue, process, killed>>

-----------------------------------------------------------------------------
(* run_with_timeout_impl: the caller owns the child. *)

\* early_error_carrier
EarlyError(c) ==
  /\ Kill(c)
  /\ Moves(c, "early", clocks[c])

CreateDrainers(c) ==
  /\ at[c] = "drainers"
  /\ \/ Continues(c, "poll", clocks[c]) /\ UNCHANGED killed
     \/ EarlyError(c)
  /\ UNCHANGED <<sup, queue, process>>

PollSeesExit(c) ==
  /\ at[c] = "poll" /\ child[c] = "dead"
  /\ Moves(c, "collect", "exited")
  /\ UNCHANGED <<sup, queue, process, killed>>

PollFails(c) ==
  /\ at[c] = "poll"
  /\ EarlyError(c)
  /\ UNCHANGED <<sup, queue, process>>

PollIsLate(c) ==
  /\ at[c] = "poll" /\ child[c] = "alive" /\ expired[c]
  /\ Kill(c)
  /\ Moves(c, "confirm", clocks[c])
  /\ UNCHANGED <<sup, queue, process>>

\* confirm_child_exit_with_clock; a try_wait that fails confirms nothing.
Confirmed(c) ==
  /\ child[c] = "dead"
  /\ \/ at[c] = "confirm" /\ Moves(c, "collect", "confirmed_dead")
     \/ at[c] = "early" /\ Returns(c, "unconfirmed", "confirmed_dead")
  /\ UNCHANGED <<sup, queue, process, killed>>

FaultyNotConfirmed(c) ==
  /\ at[c] \in {"confirm", "early"}
  /\ Returns(c, IF at[c] = "confirm" THEN "timeout" ELSE "unconfirmed", clocks[c])
  /\ UNCHANGED <<sup, queue, process, killed>>

NotConfirmed(c) ==
  /\ at[c] \in {"confirm", "early"}
  /\ Returns(c, "unconfirmed", clocks[c])
  /\ UNCHANGED <<sup, queue, process, killed>>

\* collect_eofs
Collect(c) ==
  /\ at[c] = "collect" /\ (~held[c] \/ expired[c])
  /\ Returns(c, IF clocks[c] = "confirmed_dead" THEN "timeout" ELSE "ok", clocks[c])
  /\ UNCHANGED <<sup, queue, process, killed>>

-----------------------------------------------------------------------------
CallerStep(c) ==
  \/ Dispatch(c) \/ Receive(c) \/ ReceiveDisconnects(c) \/ ReceiveTimesOut(c)
  \/ LastDrain(c) \/ DropReceiver(c) \/ Reaped(c)
  \/ CreateDrainers(c) \/ PollSeesExit(c) \/ PollFails(c) \/ PollIsLate(c)
  \/ Confirmed(c) \/ NotConfirmed(c) \/ Collect(c)

SupervisorStep(c) == Send(c) \/ SupervisorReaped(c)

ChildStep(c) == ChildActs(c) \/ ChildEnds(c) \/ PipesClose(c)

RunnerNext ==
  \E c \in Cmds :
    \/ Start(c) \/ CallerStep(c) \/ TimePasses(c)
    \/ SupervisorStep(c) \/ SpawnReturns(c) \/ SupervisorDies(c)
    \/ ChildStep(c)

\* Time passes and threads run.  A spawn need not return, a child need not
\* end, killed or not, and a descendant need not close the pipes.
RunnerSpec ==
  /\ RunnerInit /\ [][RunnerNext]_runnerVars
  /\ \A c \in Cmds :
       WF_runnerVars(CallerStep(c)) /\ WF_runnerVars(TimePasses(c)) /\ WF_runnerVars(SupervisorStep(c))

-----------------------------------------------------------------------------
(* Properties. *)

\* The completion record (build_command_outcome) says Exited only of a child
\* that is dead and None only where there is none.
RecordIsHonest ==
  \A c \in Cmds :
    at[c] = "ended" =>
      /\ record[c] = "Exited" => child[c] = "dead"
      /\ record[c] = "None" => child[c] = "none"
      /\ record[c] # "Running"

\* LateAdoptPacket's promise: a child that outlives its command's end has been
\* killed, or is still in the hands of the thread that will kill it.
NobodyIsOrphaned ==
  \A c \in Cmds :
    at[c] = "ended" /\ child[c] = "alive" => killed[c] \/ sup[c] = "sending"

-----------------------------------------------------------------------------
(* The refinement. *)

\* How a caller in gp-route reads the result, by map_run_error and the status.
EndOf(c) ==
  IF at[c] = "unissued" THEN "unissued"
  ELSE IF at[c] # "ended" THEN "running"
  ELSE IF result[c] = "unconfirmed" THEN "unconfirmed"
  ELSE IF result[c] = "ok" /\ acted[c] THEN "ok" ELSE "failed"

Promise == INSTANCE CommandPromise WITH
  state <- [c \in Cmds |-> EndOf(c)],
  effect <- acted

\* The runner implements CommandPromise: every command ends, and one that ends
\* otherwise than unconfirmed has done what it will ever do.
KeepsPromise == Promise!Spec
=============================================================================
