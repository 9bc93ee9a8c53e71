---------------------------- MODULE RouteWindows ----------------------------
(***************************************************************************)
(* gp-route on Windows (crates/gp-route/src/lib.rs): platform_apply, its   *)
(* rollback and platform_revert over netsh and route.exe, with the journal *)
(* of intents beside them.  Exit codes prove nothing here: a command that  *)
(* exits 0 may have done nothing, so apply looks at the table before it    *)
(* records anything, and only what it proved its own may be deleted.       *)
(*                                                                         *)
(* A process may die at any step; the next one finds what it left.         *)
(***************************************************************************)
EXTENDS Naturals, Sequences

CONSTANTS
  Routes,      \* config.routes, deduplicated: a sequence of prefixes
  Neighbours,  \* the sets of them another adapter may serve on-link
  MaxSessions  \* bound: how many processes run one after the other

RoutePrefixes == {Routes[k] : k \in 1..Len(Routes)}
Things == RoutePrefixes \cup {"addr", "pin"}
OnTun == RoutePrefixes \cup {"addr"}

ASSUME RouteAssumption ==
  /\ Routes \in Seq(RoutePrefixes)
  /\ \A k, m \in 1..Len(Routes) : Routes[k] = Routes[m] => k = m
  /\ RoutePrefixes \cap {"addr", "pin"} = {}
  /\ \A n \in Neighbours : n \subseteq RoutePrefixes
  /\ MaxSessions \in Nat

VARIABLES
  config,   \* what there is to install, and whether a journal is kept
  tun,      \* the Wintun adapter exists
  row,      \* each thing on the host: nobody's, this process's, a dead one's
            \* or, for the pin, somebody else's
  live,     \* the command killed without a confirmed exit
  file,     \* the journal loads, or is corrupt for good
  pending,  \* the intents whose last record is unresolved
  usable,   \* journal_usable
  at,       \* the next step
  mode,     \* "apply", its "rollback", or the "teardown" by revert
  i,        \* the route the next step is about
  adderr,   \* the error of the pin's add, kept over its probe
  applied,  \* AppliedState
  errors,   \* RevertOutcome.errors is not empty
  gated,    \* the phase ended on an unconfirmed termination
  slip,     \* a failure that was only logged, or not seen (ghost)
  masked,   \* `route.exe add` exited 0 and the row is not its own (ghost)
  sessions

journal == <<file, pending, usable>>
host == <<row, live>>
phase == <<at, mode, i, adderr, applied>>
report == <<errors, gated>>
ghosts == <<slip, masked>>
windowsVars == <<config, tun, host, journal, phase, report, ghosts, sessions>>

Configs == [ipv4 : BOOLEAN, pin : BOOLEAN, journal : BOOLEAN, others : Neighbours]
NothingApplied == [routes |-> <<>>, addr |-> FALSE, pin |-> "none"]

WindowsInit ==
  /\ config \in Configs
  /\ tun = TRUE
  /\ row = [x \in Things |-> "none"]
  /\ live = {}
  /\ file = "ok" /\ pending = {} /\ usable = FALSE
  /\ at = "begin" /\ mode = "apply" /\ i = 1
  /\ adderr = "none"
  /\ applied = NothingApplied
  /\ errors = FALSE /\ gated = FALSE
  /\ slip = FALSE /\ masked = FALSE
  /\ sessions = 1

-----------------------------------------------------------------------------
(* netsh, route.exe and the host. *)

CanDo(op, x) == IF op = "add" THEN row[x] = "none" /\ (x \in OnTun => tun)
                ELSE row[x] # "none"
Effect(op, x) == row' = [row EXCEPT ![x] = IF op = "add" THEN "ours" ELSE "none"]

\* run_checked: "ok" with or without an effect, "exists" (only read in
\* English), "failed" whatever it did, or an UnconfirmedTermination.
Runs(op, x, end) ==
  \/ end = "ok" /\ CanDo(op, x) /\ Effect(op, x) /\ UNCHANGED <<live, ghosts>>
  \/ /\ end = "ok" /\ UNCHANGED host
     /\ slip' = (slip \/ op = "del") /\ UNCHANGED masked
  \/ end = "exists" /\ op = "add" /\ row[x] # "none" /\ UNCHANGED <<host, ghosts>>
  \/ end = "failed" /\ UNCHANGED <<host, ghosts>>
  \/ /\ end = "failed" /\ CanDo(op, x) /\ Effect(op, x)
     /\ slip' = TRUE /\ UNCHANGED <<live, masked>>
  \/ end = "unconfirmed" /\ live' = {<<op, x>>} /\ UNCHANGED <<row, ghosts>>

CommandEnds == {"ok", "exists", "failed", "unconfirmed"}

\* A read: `route.exe print`, or `set mtu`, which leaves nothing behind.
Reads(end) ==
  /\ end \in {"ok", "failed", "unconfirmed"}
  /\ live' = IF end = "unconfirmed" THEN {<<"read", "pin">>} ELSE live
  /\ UNCHANGED <<row, ghosts>>

LiveActs ==
  /\ \E c \in live : c[1] # "read" /\ CanDo(c[1], c[2]) /\ Effect(c[1], c[2])
  /\ live' = {}
  /\ UNCHANGED <<config, tun, journal, phase, report, ghosts, sessions>>

TunVanishes ==
  /\ tun /\ at \notin {"done", "begin"}
  /\ tun' = FALSE
  /\ row' = [x \in Things |-> IF x \in OnTun THEN "none" ELSE row[x]]
  /\ UNCHANGED <<config, live, journal, phase, report, ghosts, sessions>>

\* Another VPN, or a pushed script, routes the gateway the same way.
OtherPins ==
  /\ config.pin /\ row["pin"] = "none"
  /\ row' = [row EXCEPT !["pin"] = "other"]
  /\ UNCHANGED <<config, tun, live, journal, phase, report, ghosts, sessions>>

-----------------------------------------------------------------------------
(* RouteJournal: append-only lines, the last record of a key wins; one torn  *)
(* or forged line makes the whole file corrupt.  Compaction rewrites it to   *)
(* its unresolved records, so `pending` does not tell whether it happened.   *)

(* Operators named Faulty... are mistakes this code could contain; only the  *)
(* mutants of PROJECT.json use them.                                         *)

FaultyIntents == RoutePrefixes \cup (IF config.ipv4 THEN {"addr"} ELSE {})

Intents == RoutePrefixes \cup (IF config.ipv4 THEN {"addr"} ELSE {})
                    \cup (IF config.pin THEN {"pin"} ELSE {})

\* RouteJournal::load: the records, or not one of them.
Loads == file = "ok"

\* append_pending.  A write that fails half-way may leave a torn line.
AppendPending ==
  \/ pending' = pending \cup Intents /\ usable' = TRUE /\ UNCHANGED file
  \/ /\ usable' = FALSE
     /\ \E s \in SUBSET Intents : pending' = pending \cup s
     /\ file' \in {file, "corrupt"}

\* mark_resolved, as settle calls it.  If the file can't be read at that
\* moment the record gets a neutral program: the next load finds two programs
\* for one intent, and trusts none of the file.
Settle(x) ==
  \/ ~usable /\ UNCHANGED journal
  \/ usable /\ pending' = pending \ {x} /\ UNCHANGED <<file, usable>>
  \/ usable /\ usable' = FALSE /\ UNCHANGED <<file, pending>>
  \/ usable /\ file' = "corrupt" /\ UNCHANGED <<pending, usable>>

\* reconcile_for_connect only announces: it takes nothing and deletes nothing.
BeginApply ==
  /\ at = "begin"
  /\ at' = "mtu"
  /\ \/ config.journal /\ Loads /\ AppendPending
     \/ usable' = FALSE /\ UNCHANGED <<file, pending>>
  /\ UNCHANGED <<config, tun, host, mode, i, adderr, applied, report, ghosts, sessions>>

-----------------------------------------------------------------------------
(* Where the code goes next. *)

FaultyPinUndo == IF applied.pin # "none" THEN "pin_del" ELSE "done"

PinUndo == IF applied.pin = "created" THEN "pin_del" ELSE "done"
FaultyUndoFrom(k) == IF k > 1 THEN "route_del" ELSE IF applied.addr THEN "addr_del" ELSE PinUndo
UndoFrom(k) == IF k > 0 THEN "route_del" ELSE IF applied.addr THEN "addr_del" ELSE PinUndo

Gated == gated' = TRUE /\ at' = "done" /\ UNCHANGED <<mode, i, adderr, applied>>
RollsBack ==
  /\ mode' = "rollback"
  /\ i' = Len(applied.routes)
  /\ at' = UndoFrom(Len(applied.routes))
  /\ adderr' = "none"
  /\ UNCHANGED <<gated, applied>>

\* rollback: refused beside a child that may be alive.
Fails(end) ==
  /\ \/ end = "unconfirmed" /\ Gated
     \/ end # "unconfirmed" /\ RollsBack
  /\ UNCHANGED <<journal, errors>>

Goes(to) == at' = to /\ UNCHANGED <<mode, i, adderr, applied, report, journal>>

RoutesFrom(k) == IF k <= Len(Routes) THEN "route_add" ELSE "up"
NextRoute == i' = i + 1 /\ at' = RoutesFrom(i + 1) /\ UNCHANGED <<mode, adderr, report>>
AfterAddr == IF config.pin THEN "pin_probe" ELSE RoutesFrom(1)
AfterMtu == IF config.ipv4 THEN "addr_add" ELSE AfterAddr

Elsewhere == UNCHANGED <<config, tun, sessions>>

-----------------------------------------------------------------------------
(* platform_apply. *)

Mtu ==
  /\ at = "mtu"
  /\ \E end \in {"ok", "failed", "unconfirmed"} :
       /\ Reads(end)
       /\ IF end = "ok" THEN Goes(AfterMtu) ELSE Fails(end)
  /\ Elsewhere

AddrAdd ==
  /\ at = "addr_add"
  /\ \E end \in CommandEnds :
       /\ Runs("add", "addr", end)
       /\ IF end = "ok"
          THEN /\ applied' = [applied EXCEPT !.addr = TRUE]
               /\ at' = AfterAddr
               /\ Settle("addr")
               /\ UNCHANGED <<mode, i, adderr, report>>
          ELSE Fails(end)
  /\ Elsewhere

\* The intent is settled for an adopted pin as for one of our own.
PinStands(ownership) ==
  /\ applied' = [applied EXCEPT !.pin = ownership]
  /\ adderr' = "none"
  /\ at' = RoutesFrom(1)
  /\ Settle("pin")
  /\ UNCHANGED <<mode, i, report>>

\* install_gateway_exclude_windows: the default gateway, and the probe before.
PinProbe ==
  /\ at = "pin_probe"
  /\ \E end \in {"ok", "failed", "unconfirmed"} :
       /\ Reads(end)
       /\ IF end # "ok" THEN Fails(end)
          ELSE IF row["pin"] # "none" THEN PinStands("adopted")
          ELSE Goes("pin_add")
  /\ Elsewhere

PinAdd ==
  /\ at = "pin_add"
  /\ \E end \in CommandEnds : Runs("add", "pin", end) /\ adderr' = end
  /\ at' = "pin_check"
  /\ UNCHANGED <<mode, i, applied, report, journal>>
  /\ Elsewhere

FaultyCarrier(end) == end

\* The carrier of a live add wins over whatever its probe reports.
Carrier(end) == IF adderr = "unconfirmed" THEN adderr ELSE end

\* The probe after it, which is run beside a live add.
PinCheck ==
  /\ at = "pin_check"
  /\ \E end \in {"ok", "failed", "unconfirmed"} :
       /\ live' = IF end = "unconfirmed" THEN live \cup {<<"read", "pin">>} ELSE live
       /\ UNCHANGED row
       /\ slip' = (slip \/ (end # "ok" /\ adderr = "ok"))
       /\ masked' = (masked \/ (adderr = "ok" /\ row["pin"] \notin {"none", "ours"}))
       /\ IF end # "ok" THEN Fails(Carrier(end))
          ELSE IF adderr = "ok" /\ row["pin"] # "none" THEN PinStands("created")
          ELSE IF adderr = "exists" /\ row["pin"] # "none" THEN PinStands("adopted")
          ELSE Fails(Carrier("failed"))
  /\ Elsewhere

\* classify_split_rows: ours if a row of the prefix is on an interface that
\* holds the address assigned by this apply.
Class(x) ==
  IF row[x] # "none" /\ applied.addr /\ row["addr"] # "none" THEN {"ours", "foreign"}
  ELSE IF row[x] # "none" \/ x \in config.others THEN {"foreign"}
  ELSE {"absent"}

FaultyRouteAdd ==
  /\ at = "route_add"
  /\ \E end \in CommandEnds :
       /\ Runs("add", Routes[i], end)
       /\ IF end \in {"ok", "exists"}
          THEN /\ applied' = [applied EXCEPT !.routes = Append(@, Routes[i])]
               /\ NextRoute /\ UNCHANGED journal
          ELSE Fails(end)
  /\ Elsewhere

RouteAdd ==
  /\ at = "route_add"
  /\ \E end \in CommandEnds :
       /\ Runs("add", Routes[i], end)
       /\ IF end = "ok" THEN Goes("verify")
          ELSE IF end = "exists" THEN Goes("classify")
          ELSE Fails(end)
  /\ Elsewhere

\* ownership_proven
Proven(x) == ~config.journal \/ (usable /\ Loads /\ x \in pending)

\* The numeric read is a system call: it fails, but leaves no child behind.
Classify ==
  /\ at = "classify"
  /\ \/ Fails("failed") /\ UNCHANGED ghosts
     \/ \E class \in Class(Routes[i]) :
          IF class = "absent" THEN Goes("readd") /\ UNCHANGED ghosts
          ELSE IF class = "ours" /\ Proven(Routes[i])
          THEN Goes("heal") /\ UNCHANGED ghosts
          ELSE NextRoute /\ UNCHANGED <<applied, journal, ghosts>>
  /\ UNCHANGED host
  /\ Elsewhere

\* The self-heal: a failed delete leaves the verdict to the second add.
Heal ==
  /\ at = "heal"
  /\ \E end \in {"ok", "failed", "unconfirmed"} :
       /\ Runs("del", Routes[i], end)
       /\ IF end = "unconfirmed" THEN Fails(end) ELSE Goes("readd")
  /\ Elsewhere

ReAdd ==
  /\ at = "readd"
  /\ \E end \in CommandEnds :
       /\ Runs("add", Routes[i], end)
       /\ IF end = "ok" THEN Goes("verify") ELSE Fails(end)
  /\ Elsewhere

\* Only a row that was seen and proved ours is recorded; an unreadable table,
\* or a row without proof, leaves what the add did unrecorded.
Verify ==
  /\ at = "verify"
  /\ \/ Fails("failed") /\ slip' = (slip \/ row[Routes[i]] = "ours")
     \/ \E class \in Class(Routes[i]) :
          \/ /\ class = "ours"
             /\ applied' = [applied EXCEPT !.routes = Append(@, Routes[i])]
             /\ NextRoute /\ Settle(Routes[i])
             /\ UNCHANGED slip
          \/ /\ class = "foreign"
             /\ NextRoute /\ UNCHANGED <<applied, journal>>
             /\ slip' = (slip \/ row[Routes[i]] = "ours")
          \/ class = "absent" /\ Fails("failed") /\ UNCHANGED slip
  /\ UNCHANGED <<host, masked>>
  /\ Elsewhere

-----------------------------------------------------------------------------
(* platform_revert, as the teardown and as the rollback of apply. *)

Revert ==
  /\ at = "up"
  /\ mode' = "teardown"
  /\ i' = Len(applied.routes)
  /\ at' = UndoFrom(Len(applied.routes))
  /\ UNCHANGED <<adderr, applied, report, host, journal, ghosts>>
  /\ Elsewhere

\* The walk goes on after a plain failure, and stops at the gate.
Walks(end, to) ==
  /\ errors' = (errors \/ end # "ok")
  /\ IF end = "unconfirmed"
     THEN gated' = TRUE /\ at' = "done"
     ELSE at' = to /\ UNCHANGED gated
  /\ UNCHANGED <<mode, adderr, applied>>

RouteDel ==
  /\ at = "route_del"
  /\ \E end \in {"ok", "failed", "unconfirmed"} :
       /\ Runs("del", applied.routes[i], end)
       /\ Walks(end, UndoFrom(i - 1))
  /\ i' = i - 1
  /\ UNCHANGED journal
  /\ Elsewhere

AddrDel ==
  /\ at = "addr_del"
  /\ \E end \in {"ok", "failed", "unconfirmed"} :
       Runs("del", "addr", end) /\ Walks(end, PinUndo)
  /\ UNCHANGED <<i, journal>>
  /\ Elsewhere

\* Only a created pin comes here.  Its delete is believed by the table alone.
PinDel ==
  /\ at = "pin_del"
  /\ \E end \in {"ok", "failed", "unconfirmed"} :
       /\ Runs("del", "pin", end)
       /\ Walks(end, IF end = "ok" THEN "pin_gone" ELSE "done")
  /\ UNCHANGED <<i, journal>>
  /\ Elsewhere

PinGone ==
  /\ at = "pin_gone"
  /\ \E end \in {"ok", "failed", "unconfirmed"} :
       /\ Reads(end)
       /\ Walks(IF end = "ok" /\ row["pin"] # "none" THEN "failed" ELSE end, "done")
  /\ UNCHANGED <<i, journal>>
  /\ Elsewhere

-----------------------------------------------------------------------------
(* The process dies, or ends, and another connects as it did.  What was live *)
(* has acted or never will; the adapter is gone, or an orphan keeps its rows.*)

NewProcess ==
  /\ sessions < MaxSessions
  /\ sessions' = sessions + 1
  /\ \E keeps \in BOOLEAN :
       row' = [x \in Things |->
                 IF x \in OnTun /\ ~(keeps /\ tun) THEN "none"
                 ELSE IF row[x] = "ours" THEN "dead" ELSE row[x]]
  /\ \/ UNCHANGED file
     \/ config.journal /\ file' = "corrupt"
  /\ UNCHANGED <<config, pending>>
  /\ tun' = TRUE /\ live' = {} /\ usable' = FALSE
  /\ at' = "begin" /\ mode' = "apply" /\ i' = 1
  /\ adderr' = "none" /\ applied' = NothingApplied
  /\ errors' = FALSE /\ gated' = FALSE
  /\ slip' = FALSE /\ masked' = FALSE

Commands ==
  \/ BeginApply \/ Mtu \/ AddrAdd \/ PinProbe \/ PinAdd \/ PinCheck
  \/ RouteAdd \/ Classify \/ Heal \/ ReAdd \/ Verify
  \/ RouteDel \/ AddrDel \/ PinDel \/ PinGone

Finished == at = "done" /\ UNCHANGED windowsVars

WindowsNext ==
  \/ Commands \/ Revert \/ LiveActs \/ TunVanishes \/ OtherPins
  \/ NewProcess \/ Finished

\* Every command ends (CommandRunner); everything else may never happen.
WindowsSpec == WindowsInit /\ [][WindowsNext]_windowsVars /\ WF_windowsVars(Commands)

-----------------------------------------------------------------------------
Steps == {"begin", "mtu", "addr_add", "pin_probe", "pin_add", "pin_check",
          "route_add", "classify", "heal", "readd", "verify", "up",
          "route_del", "addr_del", "pin_del", "pin_gone", "done"}

WindowsTypeOK ==
  /\ config \in Configs
  /\ tun \in BOOLEAN
  /\ row \in [Things -> {"none", "ours", "dead", "other"}]
  /\ live \subseteq {"add", "del", "read"} \X Things
  /\ file \in {"ok", "corrupt"} /\ pending \subseteq Things /\ usable \in BOOLEAN
  /\ at \in Steps /\ mode \in {"apply", "rollback", "teardown"}
  /\ i \in Nat
  /\ at \in {"route_add", "classify", "heal", "readd", "verify"} => i \in 1..Len(Routes)
  /\ at = "route_del" => i \in 1..Len(applied.routes)
  /\ adderr \in CommandEnds \cup {"none"}
  /\ applied \in [routes : Seq(RoutePrefixes), addr : BOOLEAN,
                  pin : {"none", "created", "adopted"}]
  /\ errors \in BOOLEAN /\ gated \in BOOLEAN
  /\ slip \in BOOLEAN /\ masked \in BOOLEAN
  /\ sessions \in Nat

\* Nothing is changed beside a killed command that may still be running, not
\* even where a probe ran after it: the pin's add keeps its carrier over
\* whatever its probe reports (install_gateway_exclude_windows).
Changes ==
  AddrAdd \/ PinAdd \/ RouteAdd \/ Heal \/ ReAdd \/ RouteDel \/ AddrDel \/ PinDel
NothingBesideLive == [][live # {} => ~Changes]_windowsVars

\* A route to the gateway that is somebody else's is never deleted, whenever it
\* came, unless route.exe hid it: exited 0 over it in words nobody could read.
OthersUntouched ==
  [][row["pin"] = "other" /\ row'["pin"] # "other" => masked]_windowsVars

\* Exit codes lie, but an apply that returned Ok has seen a row for every
\* prefix, if not always its own, and for the gateway.
UpMeansSeen ==
  at = "up" /\ tun =>
    /\ \A p \in RoutePrefixes : row[p] # "none" \/ p \in config.others
    /\ config.pin => row["pin"] # "none"

\* Whatever this process has put on the host is in AppliedState, for revert to
\* find, or its intent is open, for the next process to find; the journal
\* may be unusable, but then says so.
Recorded(x) ==
  \/ \E k \in 1..Len(applied.routes) : x = applied.routes[k]
  \/ x = "addr" /\ applied.addr
  \/ x = "pin" /\ applied.pin = "created"
Accounted ==
  usable /\ Loads =>
    \A x \in Things : row[x] = "ours" => Recorded(x) \/ x \in pending

\* gp-route keeps the promise run_tunnel builds on, on Windows too: apply and
\* revert come back, and a phase that ends undegraded has left nothing behind
\* but what a logged or an invisible failure explains.
Promise == INSTANCE RoutePromise WITH
  stage <- IF at = "done" THEN "down"
           ELSE IF at = "up" THEN "up"
           ELSE IF mode = "teardown" THEN "reverting" ELSE "applying",
  verdict <- IF at # "done" THEN "none"
             ELSE IF gated THEN "degraded"
             ELSE IF mode # "teardown" THEN "err"
             ELSE IF errors THEN "errors" ELSE "clean",
  leaked <- at = "done" /\ (gated \/ \E x \in Things : row[x] = "ours"),
  slip <- at = "done" /\ (slip \/ errors)

KeepsPromise == Promise!SpecOfMany
=============================================================================
