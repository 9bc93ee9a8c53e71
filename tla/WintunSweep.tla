---------------------------- MODULE WintunSweep ----------------------------
(***************************************************************************)
(* bins/opc/src/wintun_cleanup.rs: the removal of Wintun adapters that an  *)
(* earlier opc left behind.  connect takes a snapshot before libopenconnect *)
(* creates the adapter of this run; a thread then removes what is in the   *)
(* snapshot, with pnputil, unless another opc.exe is running.              *)
(*                                                                         *)
(* The other opc is the environment: it may start at any time, with an     *)
(* adapter of its own or with one somebody left, and end or crash.         *)
(***************************************************************************)
EXTENDS Naturals, FiniteSets

CONSTANT Strays             \* adapters that stand when opc starts, nobody's or the sibling's

VARIABLES
    adapters,   \* the OpenConnect adapters there are
    inUse,      \* by whom: "own" and "sibling" to a set of adapters
    sweep,      \* the removal thread: [at, snapshot, target]
    removers,   \* adapters with a pnputil that was abandoned, still running
    newcomer    \* a sibling started after the sweep had looked for one (ghost)

wintunVars == <<adapters, inUse, sweep, removers, newcomer>>

Owned == {"own", "theirs"}
AllAdapters == Strays \cup Owned

\* No adapter that stands has the name of one that is created later.
ASSUME StrayAssumption == Strays \cap {"own", "theirs", "none"} = {}

\* An opc that runs already has one of the adapters that stand, or none yet runs.
WintunInit(stand) ==
    /\ adapters = stand
    /\ \E a \in SUBSET stand :
         /\ Cardinality(a) <= 1
         /\ inUse = [own |-> {}, sibling |-> a]
    /\ sweep = [at |-> "idle", snapshot |-> {}, target |-> "none"]
    /\ removers = {}
    /\ newcomer = FALSE

SiblingRuns == inUse.sibling # {}

\* FAULT: the thread lists the adapters itself, when it gets to run.
FaultyTakeSnapshot ==
    /\ sweep' = [at |-> "look", snapshot |-> AllAdapters, target |-> "none"]
    /\ UNCHANGED <<adapters, inUse, removers, newcomer>>

\* snapshot_existing_orphans and spawn_background_sweep.  The enumeration
\* may fail or break off: what it misses stays.
TakeSnapshot ==
    /\ \E seen \in SUBSET adapters :
         sweep' = [at |-> IF seen = {} THEN "over" ELSE "look", snapshot |-> seen, target |-> "none"]
    /\ UNCHANGED <<adapters, inUse, removers, newcomer>>

\* sibling_opc_present: a list that could not be read to its end may hide one.
OtherOpcRunning == {TRUE} \cup (IF SiblingRuns THEN {} ELSE {FALSE})

SweepLooks ==
    /\ sweep.at = "look"
    /\ \E other \in OtherOpcRunning :
         sweep' = [sweep EXCEPT !.at = IF other THEN "over" ELSE "next"]
    /\ newcomer' = FALSE
    /\ UNCHANGED <<adapters, inUse, removers>>

\* run_sweep: the next identifier of the snapshot.
RemoveNext(a) ==
    /\ sweep.at = "next"
    /\ a \in sweep.snapshot
    /\ sweep' = [at |-> "removing", snapshot |-> sweep.snapshot \ {a}, target |-> a]
    /\ UNCHANGED <<adapters, inUse, removers, newcomer>>

\* The snapshot is through, or CLEANUP_TIMEOUT is.
SweepEnds ==
    /\ sweep.at = "next"
    /\ sweep' = [sweep EXCEPT !.at = "over", !.snapshot = {}]
    /\ UNCHANGED <<adapters, inUse, removers, newcomer>>

Gone(a) ==
    /\ adapters' = adapters \ {a}
    /\ inUse' = [who \in DOMAIN inUse |-> inUse[who] \ {a}]

\* pnputil ends with an exit, having removed the device or not.
RemoverExits ==
    /\ sweep.at = "removing"
    /\ sweep' = [sweep EXCEPT !.at = "next", !.target = "none"]
    /\ Gone(sweep.target) \/ UNCHANGED <<adapters, inUse>>
    /\ UNCHANGED <<removers, newcomer>>

\* Past its deadline it is killed, and abandoned when it does not go.
RemoverAbandoned ==
    /\ sweep.at = "removing"
    /\ sweep' = [sweep EXCEPT !.at = "next", !.target = "none"]
    /\ removers' = removers \cup {sweep.target}
    /\ UNCHANGED <<adapters, inUse, newcomer>>

RemoverActs(a) ==
    /\ a \in removers
    /\ removers' = removers \ {a}
    /\ Gone(a) \/ UNCHANGED <<adapters, inUse>>
    /\ UNCHANGED <<sweep, newcomer>>

\* libopenconnect creates the adapter of a tunnel, and removes it with the session.
CreateOwn ==
    /\ adapters' = adapters \cup {"own"}
    /\ inUse' = [inUse EXCEPT !.own = {"own"}]
    /\ UNCHANGED <<sweep, removers, newcomer>>

DropOwn ==
    /\ adapters' = adapters \ inUse.own
    /\ inUse' = [inUse EXCEPT !.own = {}]
    /\ UNCHANGED <<sweep, removers, newcomer>>

\* Another opc starts, with a new adapter or one that was left.
SiblingStarts(a) ==
    /\ ~SiblingRuns
    /\ a \in (adapters \ inUse.own) \cup {"theirs"}
    /\ adapters' = adapters \cup {a}
    /\ inUse' = [inUse EXCEPT !.sibling = {a}]
    /\ newcomer' = TRUE
    /\ UNCHANGED <<sweep, removers>>

\* It ends, taking its adapter with it, or crashes.
SiblingEnds(clean) ==
    /\ SiblingRuns
    /\ adapters' = IF clean THEN adapters \ inUse.sibling ELSE adapters
    /\ inUse' = [inUse EXCEPT !.sibling = {}]
    /\ UNCHANGED <<sweep, removers, newcomer>>

SweepSteps ==
    \/ SweepLooks \/ SweepEnds \/ RemoverExits \/ RemoverAbandoned
    \/ \E a \in AllAdapters : RemoveNext(a) \/ RemoverActs(a)

SiblingSteps ==
    \/ \E a \in AllAdapters : SiblingStarts(a)
    \/ \E clean \in BOOLEAN : SiblingEnds(clean)

WintunTypeOK ==
    /\ adapters \subseteq AllAdapters
    /\ inUse \in [{"own", "sibling"} -> SUBSET AllAdapters]
    /\ sweep \in [at : {"idle", "look", "next", "removing", "over"},
                  snapshot : SUBSET AllAdapters, target : AllAdapters \cup {"none"}]
    /\ removers \subseteq AllAdapters
    /\ newcomer \in BOOLEAN
=============================================================================
