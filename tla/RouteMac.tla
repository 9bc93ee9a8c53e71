------------------------------ MODULE RouteMac ------------------------------
(***************************************************************************)
(* gp-route on macOS (crates/gp-route/src/lib.rs): platform_apply, its     *)
(* rollback and platform_revert over ifconfig(8), route(8) and netstat(1). *)
(*                                                                         *)
(* Two things make it a module of its own.  route(8) may exit 0 although   *)
(* the kernel refused (the code reads its output for the gateway pin, and  *)
(* trusts its exit for the split routes), and `route get` is a best-match  *)
(* lookup that may hide the very row a pin would collide with.             *)
(***************************************************************************)
EXTENDS Naturals, Sequences

CONSTANTS
  V4,        \* the prefixes parse_ipv4_cidr accepts
  Lists,     \* the lists of routes a session may be given, deduplicated
  Policies   \* the RouteConflictPolicy values considered

ASSUME RouteAssumption ==
  /\ \A l \in Lists : l \in Seq({l[k] : k \in 1..Len(l)}) /\ l # <<>>
  /\ Policies \subseteq {"takeover", "fail", "skip"}

VARIABLES
  config,   \* what there is to install, and whether route(8) tells by its
            \* exit status what the kernel refused
  tun,      \* the utun device exists
  addr,     \* it has the tunnel's address
  net,      \* who has each split prefix: "none", "other" or "ours"
  pinrow,   \* the unscoped host row of the gateway
  scoped,   \* a host row of the gateway scoped to an interface
  live,     \* the command killed without a confirmed exit
  at,       \* the next command
  mode,     \* "apply", its "rollback", or the "teardown" by revert
  i,        \* the route it is about
  applied,  \* AppliedState
  errors,   \* RevertOutcome.errors is not empty
  gated,    \* the phase ended on an unconfirmed termination
  unseen,   \* a command did other than its end says (ghost)
  bailed    \* apply left without its rollback (ghost)

host == <<addr, net, pinrow, live>>
phase == <<at, mode, i, applied>>
report == <<errors, gated>>
ghosts == <<unseen, bailed>>
vars == <<config, tun, scoped, host, phase, report, ghosts>>

Configs == [routes : Lists, policy : Policies, ipv4 : BOOLEAN, pin : BOOLEAN,
            tells : BOOLEAN]

\* A row can be a kernel clone, which an add replaces; not STATIC; STATIC and
\* a way to the gateway, with or without flags too many for netstat to print;
\* or a STATIC dead end (REJECT, BLACKHOLE).
Usable == {"static", "long"}
Foreign == Usable \cup {"dynamic", "deadend"}
Free == {"none", "clone"}

Init ==
  /\ config \in Configs
  /\ tun = TRUE /\ addr = FALSE
  /\ net \in [V4 -> {"none", "other"}]
  /\ pinrow \in Free \cup Foreign
  /\ scoped \in {"none", "static", "deadend"}
  /\ ~config.pin => pinrow = "none" /\ scoped = "none"
  /\ live = {}
  /\ at = "begin" /\ mode = "apply" /\ i = 1
  /\ applied = [routes |-> <<>>, addr |-> FALSE, pin |-> "none"]
  /\ errors = FALSE /\ gated = FALSE
  /\ unseen = FALSE /\ bailed = FALSE

-----------------------------------------------------------------------------
(* ifconfig(8), route(8) and the kernel. *)

\* A command is an operation and the prefix it is about, if any.
CanDo(op, p) ==
  CASE op = "ifconfig" -> tun
    [] op = "addr_del" -> tun /\ addr
    [] op = "add" -> tun /\ addr /\ net[p] = "none"
    [] op = "change" -> tun /\ addr /\ net[p] # "none"
    [] op = "del" -> net[p] # "none"
    [] op = "pin_add" -> pinrow \in Free
    [] op = "pin_del" -> pinrow # "none"

Effect(op, p) ==
  /\ addr' = IF op = "ifconfig" THEN TRUE ELSE IF op = "addr_del" THEN FALSE ELSE addr
  /\ net' = IF op \in {"add", "change"} THEN [net EXCEPT ![p] = "ours"]
            ELSE IF op = "del" THEN [net EXCEPT ![p] = "none"] ELSE net
  /\ pinrow' = IF op = "pin_add" THEN "ours" ELSE IF op = "pin_del" THEN "none" ELSE pinrow

Occupied(op, p) ==
  \/ op = "add" /\ net[p] # "none" /\ config.tells
  \/ op = "pin_add" /\ pinrow \notin Free

\* run_unix_checked and, for the pin, classify_macos_route_add: the command
\* ended "ok", in the case of route(8) perhaps without effect; with the words
\* "File exists"; "failed", whatever it did; or was killed and not confirmed.
Runs(op, p, end) ==
  \/ end = "ok" /\ CanDo(op, p) /\ Effect(op, p) /\ UNCHANGED <<live, unseen>>
  \/ /\ end = "ok" /\ op \in {"add", "change", "del", "pin_del"} /\ ~config.tells
     /\ unseen' = TRUE /\ UNCHANGED host
  \/ end = "exists" /\ Occupied(op, p) /\ UNCHANGED <<host, unseen>>
  \/ end = "failed" /\ UNCHANGED <<host, unseen>>
  \/ /\ end = "failed" /\ CanDo(op, p) /\ Effect(op, p)
     /\ unseen' = TRUE /\ UNCHANGED live
  \/ /\ end = "unconfirmed" /\ live' = {<<op, p>>}
     /\ UNCHANGED <<addr, net, pinrow, unseen>>

\* `route get`, netstat.
Reads(end) ==
  /\ live' = IF end = "unconfirmed" THEN {<<"read", "">>} ELSE live
  /\ UNCHANGED <<addr, net, pinrow, unseen>>

Ends == {"ok", "exists", "failed", "unconfirmed"}
ReadEnds == {"ok", "failed", "unconfirmed"}

LiveActs ==
  /\ \E c \in live : c[1] # "read" /\ CanDo(c[1], c[2]) /\ Effect(c[1], c[2])
  /\ live' = {}
  /\ UNCHANGED <<config, tun, scoped, phase, report, ghosts>>

\* The kernel takes what is on the device with it.
TunVanishes ==
  /\ tun /\ at \notin {"done", "begin"}
  /\ tun' = FALSE
  /\ addr' = FALSE
  /\ net' = [p \in V4 |-> IF net[p] = "ours" THEN "none" ELSE net[p]]
  /\ UNCHANGED <<config, scoped, pinrow, live, phase, report, ghosts>>

\* Another program routes the gateway, or one of the prefixes, its own way.
OtherPins ==
  /\ config.pin /\ pinrow \in Free
  /\ pinrow' \in Foreign
  /\ UNCHANGED <<config, tun, scoped, addr, net, live, phase, report, ghosts>>

OtherRoutes ==
  /\ \E p \in V4 : net[p] = "none" /\ net' = [net EXCEPT ![p] = "other"]
  /\ UNCHANGED <<config, tun, scoped, addr, pinrow, live, phase, report, ghosts>>

-----------------------------------------------------------------------------
(* Where the code goes next. *)

(* Operators named Faulty... are mistakes this code could contain; only the  *)
(* mutants of PROJECT.json use them.                                         *)

PinUndo == IF applied.pin = "created" THEN "pin_del" ELSE "done"
FaultyUndoFrom(k) == IF k > 1 THEN "route_del" ELSE IF applied.addr THEN "addr_del" ELSE PinUndo
UndoFrom(k) == IF k > 0 THEN "route_del" ELSE IF applied.addr THEN "addr_del" ELSE PinUndo
RoutesFrom(k) == IF k <= Len(config.routes) THEN "route_add" ELSE "up"

\* rollback_and_fail: refused beside a child that may be alive.
Fails(end) ==
  /\ \/ end = "unconfirmed" /\ gated' = TRUE /\ at' = "done" /\ UNCHANGED <<mode, i>>
     \/ /\ end # "unconfirmed" /\ UNCHANGED gated
        /\ mode' = "rollback"
        /\ i' = Len(applied.routes)
        /\ at' = UndoFrom(i')
  /\ UNCHANGED <<applied, errors, bailed>>

Goes(to) == at' = to /\ UNCHANGED <<mode, i, report, bailed>>
NextRoute == i' = i + 1 /\ at' = RoutesFrom(i + 1) /\ UNCHANGED <<mode, report, bailed>>
Elsewhere == UNCHANGED <<config, tun, scoped>>

-----------------------------------------------------------------------------
(* platform_apply. *)

\* Split routes need an address to route through, which is asked for first.
Refuse ==
  /\ at = "begin" /\ ~config.ipv4
  /\ at' = "done"
  /\ UNCHANGED <<config, tun, scoped, host, mode, i, applied, report, ghosts>>

\* configure_iface_macos
Configure ==
  /\ at = "begin" /\ config.ipv4
  /\ \E end \in ReadEnds :
       /\ Runs("ifconfig", "", end)
       /\ IF end = "ok"
          THEN /\ applied' = [applied EXCEPT !.addr = TRUE]
               /\ Goes(IF config.pin THEN "pin_default" ELSE RoutesFrom(1))
          ELSE Fails(end)
  /\ Elsewhere

PinStands(ownership) ==
  applied' = [applied EXCEPT !.pin = ownership] /\ Goes(RoutesFrom(1))

\* install_gateway_exclude_macos, its first read: the default gateway.
PinDefault ==
  /\ at = "pin_default"
  /\ \E end \in ReadEnds :
       /\ Reads(end)
       /\ IF end = "ok" THEN Goes("pin_probe") /\ UNCHANGED applied ELSE Fails(end)
  /\ Elsewhere

\* `route get` prefers a scoped row it finds eligible.
Lookups == {<<"unscoped", pinrow>>}
             \cup (IF scoped = "none" THEN {} ELSE {<<"scoped", scoped>>})

\* classify_macos_pin_probe
Probed(row) ==
  IF row[2] = "deadend" THEN "unusable"
  ELSE IF row[1] = "unscoped" /\ row[2] \in Usable THEN "present"
  ELSE "absent"

FaultyPinProbe ==
  /\ at = "pin_probe"
  /\ \E end \in ReadEnds, row \in Lookups :
       /\ Reads(end)
       /\ IF end = "ok" /\ Probed(row) = "present" THEN PinStands("adopted")
          ELSE IF end = "ok" /\ Probed(row) = "unusable" THEN Fails("failed")
          ELSE Goes("pin_add") /\ UNCHANGED applied
  /\ Elsewhere

\* probe_gateway_pin_present_macos: an ordinary failure counts as absent.
PinProbe ==
  /\ at = "pin_probe"
  /\ \E end \in ReadEnds, row \in Lookups :
       /\ Reads(end)
       /\ IF end = "unconfirmed" THEN Fails(end)
          ELSE IF end = "ok" /\ Probed(row) = "present" THEN PinStands("adopted")
          ELSE IF end = "ok" /\ Probed(row) = "unusable" THEN Fails("failed")
          ELSE Goes("pin_add") /\ UNCHANGED applied
  /\ Elsewhere

FaultyPinAdd ==
  /\ at = "pin_add"
  /\ \E end \in Ends :
       /\ Runs("pin_add", "", end)
       /\ IF end \in {"ok", "exists"} THEN PinStands("created") ELSE Fails(end)
  /\ Elsewhere

PinAdd ==
  /\ at = "pin_add"
  /\ \E end \in Ends :
       /\ Runs("pin_add", "", end)
       /\ IF end = "ok" THEN PinStands("created")
          ELSE IF end = "exists" THEN Goes("pin_inspect") /\ UNCHANGED applied
          ELSE Fails(end)
  /\ Elsewhere

FaultyPinInspect ==
  /\ at = "pin_inspect"
  /\ \E end \in ReadEnds :
       /\ Reads(end)
       /\ IF end = "ok" THEN PinStands("adopted") ELSE Fails(end)
  /\ Elsewhere

\* classify_unscoped_host_row_netstat: adopted if all its flags are in sight.
PinInspect ==
  /\ at = "pin_inspect"
  /\ \E end \in ReadEnds :
       /\ Reads(end)
       /\ IF end = "ok" /\ pinrow = "static" THEN PinStands("adopted")
          ELSE Fails(IF end = "ok" THEN "failed" ELSE end)
  /\ Elsewhere

Record ==
  /\ applied' = [applied EXCEPT !.routes = Append(@, config.routes[i])]
  /\ NextRoute

\* `parse_ipv4_cidr(route)?` is not wrapped in rollback_and_fail.
Bail ==
  /\ at = "route_add" /\ config.routes[i] \notin V4
  /\ at' = "done"
  /\ bailed' = TRUE
  /\ UNCHANGED <<config, tun, scoped, host, mode, i, applied, report, unseen>>

Conflict ==
  \/ config.policy = "fail" /\ Fails("failed")
  \/ config.policy = "skip" /\ NextRoute /\ UNCHANGED applied
  \/ config.policy = "takeover" /\ Goes("route_change") /\ UNCHANGED applied

RouteAdd ==
  /\ at = "route_add" /\ config.routes[i] \in V4
  /\ \E end \in Ends :
       /\ Runs("add", config.routes[i], end)
       /\ IF end = "ok" THEN Record
          ELSE IF end = "exists" THEN Conflict
          ELSE Fails(end)
  /\ Elsewhere

\* What is displaced here is not kept: disconnect cannot restore it.
RouteChange ==
  /\ at = "route_change"
  /\ \E end \in ReadEnds :
       /\ Runs("change", config.routes[i], end)
       /\ IF end = "ok" THEN Record ELSE Fails(end)
  /\ Elsewhere

-----------------------------------------------------------------------------
(* platform_revert, as the teardown and as the rollback of apply. *)

Revert ==
  /\ at = "up"
  /\ mode' = "teardown"
  /\ i' = Len(applied.routes)
  /\ at' = UndoFrom(i')
  /\ UNCHANGED <<config, tun, scoped, host, applied, report, ghosts>>

\* The walk goes on after a plain failure, and stops at the gate.
Walks(end, to) ==
  /\ errors' = (errors \/ end # "ok")
  /\ IF end = "unconfirmed"
     THEN gated' = TRUE /\ at' = "done"
     ELSE at' = to /\ UNCHANGED gated
  /\ UNCHANGED <<config, tun, scoped, mode, applied, bailed>>

\* `route delete -net`, which names no interface.
RouteDel ==
  /\ at = "route_del"
  /\ \E end \in ReadEnds :
       Runs("del", applied.routes[i], end) /\ Walks(end, UndoFrom(i - 1))
  /\ i' = i - 1

AddrDel ==
  /\ at = "addr_del"
  /\ \E end \in ReadEnds : Runs("addr_del", "", end) /\ Walks(end, PinUndo)
  /\ UNCHANGED i

PinDel ==
  /\ at = "pin_del"
  /\ \E end \in ReadEnds : Runs("pin_del", "", end) /\ Walks(end, "done")
  /\ UNCHANGED i

Commands ==
  \/ Refuse \/ Configure \/ PinDefault \/ PinProbe \/ PinAdd \/ PinInspect
  \/ Bail \/ RouteAdd \/ RouteChange \/ RouteDel \/ AddrDel \/ PinDel

Finished == at = "done" /\ UNCHANGED vars

Next ==
  \/ Commands \/ Revert \/ LiveActs \/ TunVanishes \/ OtherPins \/ OtherRoutes
  \/ Finished

\* Every command ends (CommandRunner); everything else may never happen.
Spec == Init /\ [][Next]_vars /\ WF_vars(Commands)

-----------------------------------------------------------------------------
Steps == {"begin", "pin_default", "pin_probe", "pin_add", "pin_inspect",
          "route_add", "route_change", "up", "route_del", "addr_del", "pin_del",
          "done"}
Ops == {"ifconfig", "addr_del", "add", "change", "del", "pin_add", "pin_del", "read"}

TypeOK ==
  /\ config \in Configs
  /\ tun \in BOOLEAN /\ addr \in BOOLEAN
  /\ net \in [V4 -> {"none", "other", "ours"}]
  /\ pinrow \in Free \cup Foreign \cup {"ours"}
  /\ scoped \in {"none", "static", "deadend"}
  /\ live \subseteq Ops \X (V4 \cup {""})
  /\ at \in Steps /\ mode \in {"apply", "rollback", "teardown"}
  /\ i \in Nat
  /\ at \in {"route_add", "route_change"} => i \in 1..Len(config.routes)
  /\ at = "route_change" => config.routes[i] \in V4
  /\ at = "route_del" => i \in 1..Len(applied.routes)
  /\ applied \in [routes : Seq(V4), addr : BOOLEAN,
                  pin : {"none", "created", "adopted"}]
  /\ errors \in BOOLEAN /\ gated \in BOOLEAN
  /\ unseen \in BOOLEAN /\ bailed \in BOOLEAN

\* Nothing is changed beside a killed command that may still be running, the
\* probe of the pin included (install_gateway_exclude_macos aborts on it).
Changes ==
  Configure \/ PinAdd \/ RouteAdd \/ RouteChange \/ RouteDel \/ AddrDel \/ PinDel
NothingBesideLive == [][live # {} => ~Changes]_vars

\* Nobody else's row for the gateway is ever touched, however route(8) exits
\* and wherever the lookup hides it; nor, where the exit can be trusted, a
\* route of a split prefix under `fail` and `skip`.
OthersUntouched ==
  [][/\ pinrow \in Foreign => pinrow' = pinrow
     /\ config.tells /\ config.policy # "takeover" /\ tun =>
          \A p \in V4 : net[p] = "other" => net'[p] = "other"]_vars

\* An apply that returned Ok has a host row that carries traffic to the
\* gateway, its own or one it adopted, and every prefix in the tunnel but
\* those `skip` left alone.
UpMeansRouted ==
  at = "up" /\ tun =>
    /\ config.pin => pinrow \in Usable \cup {"ours"}
    /\ config.tells =>
         \A k \in 1..Len(config.routes) :
           LET p == config.routes[k] IN
           p \in V4 /\ (net[p] = "ours" \/ (config.policy = "skip" /\ net[p] = "other"))

\* gp-route keeps the promise run_tunnel builds on, on macOS too, save where
\* apply leaves without its rollback.
LeftBehind == addr \/ pinrow = "ours" \/ \E p \in V4 : net[p] = "ours"

Promise == INSTANCE RoutePromise WITH
  stage <- IF at = "done" THEN "down"
           ELSE IF at = "up" THEN "up"
           ELSE IF mode = "teardown" THEN "reverting" ELSE "applying",
  verdict <- IF at # "done" THEN "none"
             ELSE IF gated THEN "degraded"
             ELSE IF mode # "teardown" THEN "err"
             ELSE IF errors THEN "errors" ELSE "clean",
  leaked <- at = "done" /\ (gated \/ LeftBehind),
  slip <- at = "done" /\ (unseen \/ bailed \/ errors)

KeepsPromise == Promise!Spec

\* apply's doc: "All-or-nothing: on any failure, everything installed so far
\* is rolled back".  Here for the failures no command adds to.
AllOrNothing ==
  at = "done" /\ mode # "teardown" /\ ~gated /\ ~errors /\ ~unseen => ~LeftBehind
=============================================================================
