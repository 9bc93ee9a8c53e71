----------------------------- MODULE PhaseWatch -----------------------------
(***************************************************************************)
(* The phase watchdog of bins/opc/src/main.rs: one cell that says which    *)
(* phase opc is in, written by the main task and by the tunnel thread, and *)
(* a ticker on a task of its own that reports a phase that has lasted      *)
(* longer than its budget, once per name.                                  *)
(***************************************************************************)
EXTENDS Naturals, FiniteSets

VARIABLES
    phase,      \* WatchdogState::current, with the phase's age against the budget
    warned,     \* WatchdogLatch::warned: the name reported last, or "none"
    told        \* who has been reported since its own last step (ghost)

watchVars == <<phase, warned, told>>

NoPhase == [name |-> "none", kind |-> "none", late |-> FALSE]
AutoPhase(name) == [name |-> name, kind |-> "auto", late |-> FALSE]
HumanBound(name) == [name |-> name, kind |-> "human", late |-> FALSE]

Actors == {"main", "thread"}

\* note_phase: whatever stood in the cell before, its clock starts anew.
Note(p) == phase' = p
Clear == phase' = NoPhase

WatchInit == phase = AutoPhase("pre_ipc_auth") /\ warned = "none" /\ told = {}

\* More time than the budget passes inside one phase.
Overdue ==
    /\ phase.kind = "auto" /\ ~phase.late
    /\ phase' = [phase EXCEPT !.late = TRUE]
    /\ UNCHANGED <<warned, told>>

Reports == phase.kind = "auto" /\ phase.late /\ phase.name # warned

\* FAULT: a report when the phase has changed is taken for the one already made.
FaultyLatchAfterTick ==
    IF phase = NoPhase THEN "none" ELSE IF Reports /\ warned = "none" THEN phase.name ELSE warned

\* WatchdogLatch::tick: only an empty cell or the next report opens the latch.
LatchAfterTick == IF phase = NoPhase THEN "none" ELSE IF Reports THEN phase.name ELSE warned

\* spawn_phase_watchdog: one tick of the interval.
Tick ==
    /\ warned' = LatchAfterTick
    /\ told' = IF warned' # warned /\ warned' # "none" THEN Actors ELSE told
    /\ UNCHANGED phase

WatchTypeOK(names) ==
    /\ phase \in [name : names, kind : {"none", "auto", "human"}, late : BOOLEAN]
    /\ warned \in names
    /\ told \subseteq Actors
=============================================================================
