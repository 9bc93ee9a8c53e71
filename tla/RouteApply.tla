----------------------------- MODULE RouteApply -----------------------------
(***************************************************************************)
(* gp-route on Linux (crates/gp-route/src/lib.rs): platform_apply, its     *)
(* rollback, and platform_revert, one ip(8) command to a step.             *)
(*                                                                         *)
(* The kernel's table is a set of entries with one key, <<dst, metric>>,   *)
(* each: what ip(8) does to it is modelled from the commands gp-route      *)
(* issues.  A command may succeed, be refused, be killed at its timeout    *)
(* with or without having taken effect, or be killed without a confirmed   *)
(* exit: that child stays `live` and may act at any later time.            *)
(***************************************************************************)
EXTENDS Naturals, Sequences

CONSTANTS
  Routes,     \* config.routes, deduplicated: a sequence of prefixes
  Gateway,    \* the gateway's own /32
  Metrics,    \* the metrics entries may have
  Tables,     \* the tables this host may start with
  Policies    \* the RouteConflictPolicy values considered

\* "eth" stands for the host's uplink, "docker" for any other interface and
\* "nodev" for an entry that names neither a device nor a nexthop.
Devs == {"tun", "eth", "docker", "nodev"}
Prefixes == {Routes[k] : k \in 1..Len(Routes)}
Entries == [dst : Prefixes \cup {Gateway}, metric : Metrics, dev : Devs]
Keyed(t) == \A e, f \in t : e.dst = f.dst /\ e.metric = f.metric => e = f

ASSUME RouteAssumption ==
  /\ Routes \in Seq(Prefixes)
  /\ \A k, m \in 1..Len(Routes) : Routes[k] = Routes[m] => k = m
  /\ Gateway \notin Prefixes
  /\ Metrics \subseteq Nat /\ 0 \in Metrics
  /\ \A t \in Tables : t \subseteq Entries /\ Keyed(t)
  /\ Policies \subseteq {"takeover", "fail", "skip"}

VARIABLES
  config,     \* the conflict policy, and what else there is to install
  table,      \* the kernel's routing table
  addr,       \* the tunnel's address is assigned
  tun,        \* the tun device exists
  live,       \* commands killed without a confirmed exit
  at,         \* the next command
  mode,       \* "apply", its "rollback", or the "teardown" by revert
  i,          \* the route the next command is about
  prior,      \* what capture found for that prefix
  applied,    \* AppliedState
  errors,     \* RevertOutcome.errors, as the set of what they name
  remaining,  \* DegradedTeardown.remaining_journal_entries, likewise
  gated,      \* the phase ended on an unconfirmed termination
  torn,       \* a killed command had taken effect (ghost)
  quiet,      \* a loss that only a debug line, or none, tells of (ghost)
  table0      \* the table gp-route found (ghost)

host == <<table, addr, live, torn>>
ghosts == <<quiet, table0>>
report == <<errors, remaining, gated>>
vars == <<config, host, tun, at, mode, i, prior, applied, report, ghosts>>

Configs == [policy : Policies, ipv4 : BOOLEAN, pin : BOOLEAN]
Tunnel(p) == [dst |-> p, metric |-> 0, dev |-> "tun"]
Pin == [dst |-> Gateway, metric |-> 0, dev |-> "eth"]
NoPin == [set |-> FALSE, prior |-> {}]
NoEntry == [dst |-> Gateway, metric |-> 0, dev |-> "nodev"]

Init ==
  /\ config \in Configs
  /\ table \in Tables
  /\ addr = FALSE
  /\ tun = TRUE
  /\ live = {}
  /\ at = "link_up"
  /\ mode = "apply"
  /\ i = 1
  /\ prior = {}
  /\ applied = [routes |-> <<>>, addr |-> FALSE, pin |-> NoPin]
  /\ errors = {}
  /\ remaining = {}
  /\ gated = FALSE
  /\ torn = FALSE
  /\ quiet = FALSE
  /\ table0 = table

-----------------------------------------------------------------------------
(* ip(8) and the kernel. *)

Command(op, e) == [op |-> op, entry |-> e]
SameKey(e) == {f \in table : f.dst = e.dst /\ f.metric = e.metric}
Matching(e) == {f \in table : f.dst = e.dst /\ f.dev = e.dev}
Mutating == {"link_up", "addr_add", "addr_del", "add", "replace", "del"}

CanDo(c) ==
  CASE c.op = "link_up" -> tun
    [] c.op = "addr_add" -> tun /\ ~addr
    [] c.op = "addr_del" -> addr
    [] c.op = "add" -> tun /\ SameKey(c.entry) = {}
    [] c.op = "replace" -> c.entry.dev = "tun" => tun
    [] c.op = "del" -> Matching(c.entry) # {}
    [] OTHER -> TRUE

Effect(c) ==
  /\ addr' = (c.op = "addr_add" \/ (addr /\ c.op # "addr_del"))
  /\ table' =
       CASE c.op \in {"add", "replace"} -> (table \ SameKey(c.entry)) \cup {c.entry}
         [] c.op = "del" -> {f \in table : f \in Matching(c.entry) =>
                               \E g \in Matching(c.entry) : g.metric < f.metric}
         [] OTHER -> table

\* run_ip: the command ended with "ok", with "failed" (whatever it did) or
\* with an UnconfirmedTermination.
Runs(c, end) ==
  \/ end = "ok" /\ CanDo(c) /\ Effect(c) /\ UNCHANGED <<live, torn>>
  \/ end = "failed" /\ UNCHANGED host
  \/ /\ end = "failed" /\ c.op \in Mutating
     /\ CanDo(c) /\ Effect(c) /\ torn' = TRUE /\ UNCHANGED live
  \/ end = "unconfirmed" /\ live' = {c} /\ UNCHANGED <<table, addr, torn>>

LiveActs ==
  /\ \E c \in live : CanDo(c) /\ Effect(c)
  /\ live' = {}
  /\ UNCHANGED <<config, tun, at, mode, i, prior, applied, report, torn, ghosts>>

\* libopenconnect takes the device down, and the kernel what is on it.
TunVanishes ==
  /\ tun /\ at \notin {"done", "link_up"}
  /\ tun' = FALSE
  /\ addr' = FALSE
  /\ table' = {e \in table : e.dev # "tun"}
  /\ UNCHANGED <<config, live, at, mode, i, prior, applied, report, torn, ghosts>>

-----------------------------------------------------------------------------
(* Where the code goes next. *)

(* Operators named Faulty... are mistakes this code could contain; only the  *)
(* mutants of PROJECT.json use them.                                         *)

FaultyUndoOffByOne(k) ==
  IF k >= 0 THEN "route_del"
  ELSE IF applied.addr THEN "addr_del"
  ELSE IF applied.pin.set THEN "pin_undo"
  ELSE "done"

\* The walk of platform_revert from route k down, then address, then pin.
UndoFrom(k) ==
  IF k > 0 THEN "route_del"
  ELSE IF applied.addr THEN "addr_del"
  ELSE IF applied.pin.set THEN "pin_undo"
  ELSE "done"

Undoing(k) == i' = k /\ at' = UndoFrom(k)

FaultyRollsBackAnyway(end) ==
  /\ mode' = "rollback"
  /\ Undoing(Len(applied.routes))
  /\ UNCHANGED <<config, tun, prior, applied, report>>

\* rollback_and_fail: no rollback beside a child that may be alive.
Fails(end) ==
  /\ \/ end = "failed" /\ mode' = "rollback" /\ UNCHANGED gated
        /\ Undoing(Len(applied.routes))
     \/ end = "unconfirmed" /\ gated' = TRUE /\ at' = "done" /\ UNCHANGED <<mode, i>>
  /\ UNCHANGED <<config, tun, prior, applied, errors, remaining>>

\* A step of platform_apply that continues.
Goes(to) ==
  /\ at' = to
  /\ UNCHANGED <<config, tun, mode, i, report>>

RoutesFrom(k) == IF k <= Len(Routes) THEN "route_add" ELSE "up"

NextRoute ==
  /\ i' = i + 1
  /\ at' = RoutesFrom(i + 1)
  /\ prior' = {}
  /\ UNCHANGED <<config, tun, mode, report>>

Record(displaced) ==
  /\ applied' = [applied EXCEPT !.routes =
                   Append(@, [cidr |-> Routes[i], prior |-> displaced])]
  /\ NextRoute

-----------------------------------------------------------------------------
(* platform_apply. *)

AfterAddr == IF config.pin THEN "pin_show" ELSE RoutesFrom(1)
AfterLink == IF config.ipv4 THEN "addr_add" ELSE AfterAddr

\* link up, set mtu: the `?` returns with nothing to roll back.
LinkUp ==
  /\ at = "link_up"
  /\ \E end \in {"ok", "failed", "unconfirmed"} :
       /\ Runs(Command("link_up", NoEntry), end)
       /\ \/ end = "ok" /\ Goes(AfterLink) /\ UNCHANGED <<prior, applied>>
          \/ end # "ok" /\ Fails(end)
  /\ UNCHANGED ghosts

\* Likewise: an address that was not confirmed is not recorded.
AddrAdd ==
  /\ at = "addr_add"
  /\ \E end \in {"ok", "failed", "unconfirmed"} :
       /\ Runs(Command("addr_add", NoEntry), end)
       /\ \/ /\ end = "ok"
             /\ applied' = [applied EXCEPT !.addr = TRUE]
             /\ Goes(AfterAddr)
             /\ UNCHANGED prior
          \/ end # "ok" /\ Fails(end)
  /\ UNCHANGED ghosts

\* sanitize_route_entry drops what can't be given to `ip route replace`.
Restorable(es) == {e \in es : e.dev # "nodev"}
First(es) == {e \in es : \A f \in es : e.metric <= f.metric}

\* install_gateway_exclude_linux: `route show exact` and `route get`, whose
\* errors propagate, the captured entry being the first one printed.
PinShow ==
  /\ at = "pin_show"
  /\ \E end \in {"ok", "failed", "unconfirmed"} :
       /\ Runs(Command("show", NoEntry), end)
       /\ \/ /\ end = "ok"
             /\ prior' = Restorable(First({e \in table : e.dst = Gateway}))
             /\ Goes("pin_replace")
             /\ UNCHANGED applied
          \/ end # "ok" /\ Fails(end)
  /\ UNCHANGED ghosts

PinReplace ==
  /\ at = "pin_replace"
  /\ \E end \in {"ok", "failed", "unconfirmed"} :
       /\ Runs(Command("replace", Pin), end)
       /\ \/ /\ end = "ok"
             /\ applied' = [applied EXCEPT !.pin = [set |-> TRUE, prior |-> prior]]
             /\ prior' = {}
             /\ Goes(RoutesFrom(1))
          \/ end # "ok" /\ Fails(end)
  /\ UNCHANGED ghosts

FaultyConflictIgnored ==
  /\ at = "route_add"
  /\ LET new == Tunnel(Routes[i]) IN
     \/ Runs(Command("add", new), "ok") /\ Record({})
     \/ SameKey(new) # {} /\ NextRoute /\ UNCHANGED <<host, applied>>
     \/ \E end \in {"failed", "unconfirmed"} :
          Runs(Command("add", new), end) /\ Fails(end)
  /\ UNCHANGED ghosts

\* `ip route add`; EEXIST is not an error yet.
RouteAdd ==
  /\ at = "route_add"
  /\ LET new == Tunnel(Routes[i]) IN
     \/ Runs(Command("add", new), "ok") /\ Record({})
     \/ SameKey(new) # {} /\ Goes("route_show") /\ UNCHANGED <<host, prior, applied>>
     \/ \E end \in {"failed", "unconfirmed"} :
          Runs(Command("add", new), end) /\ Fails(end)
  /\ UNCHANGED ghosts

FaultySkipReplaces(seen) ==
  \/ config.policy = "fail" /\ Fails("failed")
  \/ /\ config.policy \in {"takeover", "skip"}
     /\ \/ \E e, f \in seen : e # f
           /\ Fails("failed")
        \/ /\ \A e, f \in seen : e = f
           /\ prior' = seen
           /\ Goes("route_replace")
           /\ UNCHANGED applied

\* resolve_route_conflict_linux, with what capture_prior_routes_linux saw.
Resolve(seen) ==
  \/ config.policy = "fail" /\ Fails("failed")
  \/ config.policy = "skip" /\ NextRoute /\ UNCHANGED applied
  \/ /\ config.policy = "takeover"
     /\ \/ \E e, f \in seen : e # f
           /\ Fails("failed")
        \/ /\ \A e, f \in seen : e = f
           /\ prior' = seen
           /\ Goes("route_replace")
           /\ UNCHANGED applied

Others(p) == {e \in table : e.dst = p /\ e.dev # "tun"}

\* An ordinary read error counts as nothing to preserve.
RouteShow ==
  /\ at = "route_show"
  /\ \E end \in {"ok", "failed", "unconfirmed"} :
       /\ Runs(Command("show", NoEntry), end)
       /\ \/ end = "ok" /\ Resolve(Restorable(Others(Routes[i])))
          \/ end = "failed" /\ Resolve({})
          \/ end = "unconfirmed" /\ Fails(end)
  /\ UNCHANGED ghosts

FaultyReplaceForgetsPrior ==
  /\ at = "route_replace"
  /\ LET new == Tunnel(Routes[i]) IN
     \/ /\ Runs(Command("replace", new), "ok")
        /\ Record({})
        /\ UNCHANGED ghosts
     \/ \E end \in {"failed", "unconfirmed"} :
          Runs(Command("replace", new), end) /\ Fails(end) /\ UNCHANGED ghosts

RouteReplace ==
  /\ at = "route_replace"
  /\ LET new == Tunnel(Routes[i]) IN
     \/ /\ Runs(Command("replace", new), "ok")
        /\ Record(prior)
        /\ quiet' = (quiet \/ ~(SameKey(new) \cap Others(new.dst) \subseteq prior))
     \/ \E end \in {"failed", "unconfirmed"} :
          Runs(Command("replace", new), end) /\ Fails(end) /\ UNCHANGED quiet
  /\ UNCHANGED table0

-----------------------------------------------------------------------------
(* platform_revert, as the teardown and as the rollback of apply. *)

Revert ==
  /\ at = "up"
  /\ mode' = "teardown"
  /\ Undoing(Len(applied.routes))
  /\ UNCHANGED <<config, host, tun, prior, applied, report, ghosts>>

\* What an undo step names: in errors if it failed, in the checklist of a
\* gated walk if it was not issued.
RouteItems(k) ==
  {<<"del", applied.routes[k].cidr>>}
    \cup (IF applied.routes[k].prior = {} THEN {}
          ELSE {<<"restore", applied.routes[k].cidr>>})
AddrItems == IF applied.addr THEN {<<"addr_del">>} ELSE {}
PinItems == IF applied.pin.set THEN {<<"pin_undo">>} ELSE {}
RoutesBelow(k) == UNION {RouteItems(m) : m \in 1..(k - 1)}

FaultyGateForgetsPending(end, item, unissued) ==
  /\ end = "unconfirmed"
  /\ at' = "done"
  /\ gated' = TRUE
  /\ errors' = errors \cup {item}
  /\ remaining' = errors \cup {item}
  /\ UNCHANGED <<config, tun, mode, i, prior, applied, quiet>>

\* The gate: nothing is issued after an unconfirmed kill.
Gate(end, item, unissued) ==
  /\ end = "unconfirmed"
  /\ at' = "done"
  /\ gated' = TRUE
  /\ errors' = errors \cup {item}
  /\ remaining' = errors \cup {item} \cup unissued
  /\ UNCHANGED <<config, tun, mode, i, prior, applied, quiet>>

\* The walk goes on, having noted the item if its command failed.
Walks(end, item) ==
  /\ end # "unconfirmed"
  /\ errors' = IF end = "failed" THEN errors \cup {item} ELSE errors
  /\ UNCHANGED <<config, tun, mode, prior, applied, remaining, gated>>

\* `route del ... dev tun`: with something to restore, its failure is only
\* logged, the restore being expected to take the entry's place.
RouteDel ==
  /\ at = "route_del"
  /\ LET r == applied.routes[i]
         item == <<"del", r.cidr>>
     IN \E end \in {"ok", "failed", "unconfirmed"} :
          /\ Runs(Command("del", Tunnel(r.cidr)), end)
          /\ \/ Gate(end, item, RouteItems(i) \cup RoutesBelow(i) \cup AddrItems \cup PinItems)
             \/ r.prior = {} /\ Walks(end, item) /\ Undoing(i - 1) /\ UNCHANGED quiet
             \/ /\ r.prior # {} /\ Walks(IF end = "failed" THEN "ok" ELSE end, item)
                /\ at' = "restore" /\ UNCHANGED i
                /\ quiet' = (quiet \/ (end = "failed" /\ \E e \in r.prior : e.metric # 0))
  /\ UNCHANGED table0

Restore ==
  /\ at = "restore"
  /\ LET r == applied.routes[i]
         item == <<"restore", r.cidr>>
     IN \E end \in {"ok", "failed", "unconfirmed"}, e \in r.prior :
          /\ Runs(Command("replace", e), end)
          /\ \/ Gate(end, item, RoutesBelow(i) \cup AddrItems \cup PinItems)
             \/ Walks(end, item) /\ Undoing(i - 1) /\ UNCHANGED quiet
  /\ UNCHANGED table0

AddrDel ==
  /\ at = "addr_del"
  /\ \E end \in {"ok", "failed", "unconfirmed"} :
       /\ Runs(Command("addr_del", NoEntry), end)
       /\ \/ Gate(end, <<"addr_del">>, PinItems)
          \/ /\ Walks(end, <<"addr_del">>)
             /\ at' = IF applied.pin.set THEN "pin_undo" ELSE "done"
             /\ UNCHANGED <<i, quiet>>
  /\ UNCHANGED table0

\* The pin's own /32: the prior entry is put back if there was one, else the
\* pin is deleted.
PinUndo ==
  /\ at = "pin_undo"
  /\ LET undo == IF applied.pin.prior = {} THEN {Command("del", Pin)}
                 ELSE {Command("replace", e) : e \in applied.pin.prior}
     IN \E end \in {"ok", "failed", "unconfirmed"}, c \in undo :
          /\ Runs(c, end)
          /\ \/ Gate(end, <<"pin_undo">>, {})
             \/ /\ Walks(end, <<"pin_undo">>)
                /\ at' = "done"
                /\ UNCHANGED <<i, quiet>>
  /\ UNCHANGED table0

Commands ==
  \/ LinkUp \/ AddrAdd \/ PinShow \/ PinReplace
  \/ RouteAdd \/ RouteShow \/ RouteReplace
  \/ RouteDel \/ Restore \/ AddrDel \/ PinUndo

Finished == at = "done" /\ UNCHANGED vars

Next == Commands \/ Revert \/ LiveActs \/ TunVanishes \/ Finished

\* Every command ends: the runner kills it at its timeout.
Spec == Init /\ [][Next]_vars /\ WF_vars(Commands)

-----------------------------------------------------------------------------
Steps == {"link_up", "addr_add", "pin_show", "pin_replace", "route_add",
          "route_show", "route_replace", "up", "route_del", "restore",
          "addr_del", "pin_undo", "done"}
Items == ({"del", "restore"} \X Prefixes) \cup {<<"addr_del">>, <<"pin_undo">>}

AppliedStates ==
  [routes : Seq([cidr : Prefixes, prior : SUBSET Entries]),
   addr : BOOLEAN,
   pin : [set : BOOLEAN, prior : SUBSET Entries]]

HostOK ==
  /\ table \subseteq Entries
  /\ Keyed(table)
  /\ addr \in BOOLEAN
  /\ live \subseteq [op : Mutating \cup {"show"}, entry : Entries]
  /\ torn \in BOOLEAN

PhaseOK ==
  /\ config \in Configs
  /\ tun \in BOOLEAN
  /\ at \in Steps
  /\ mode \in {"apply", "rollback", "teardown"}
  /\ i \in 0..(Len(Routes) + 1)
  /\ at \in {"route_add", "route_show", "route_replace"} => i \in 1..Len(Routes)
  /\ at \in {"route_del", "restore"} => i \in 1..Len(applied.routes)
  /\ prior \subseteq Entries
  /\ applied \in AppliedStates
  /\ errors \subseteq Items
  /\ remaining \subseteq Items
  /\ gated \in BOOLEAN
  /\ quiet \in BOOLEAN
  /\ table0 \in Tables

TypeOK == HostOK /\ PhaseOK

\* No command is issued beside a killed one that may still be running: apply,
\* its rollback and revert all stop there (blocks_further_mutation).
NothingBesideLive == [][live # {} => ~Commands]_vars

\* Under `--route-conflict fail` and `skip` nobody else's route for a split
\* prefix is touched, on no path through apply, rollback and revert.
OthersUntouched ==
  config.policy # "takeover" =>
    \A p \in Prefixes : Others(p) = {e \in table0 : e.dst = p /\ e.dev # "tun"}

\* An apply that returned Ok has every prefix in the tunnel but those it was
\* told to leave alone, and the gateway outside it.
UpMeansRouted ==
  at = "up" /\ tun =>
    /\ \A p \in Prefixes :
         \/ Tunnel(p) \in table
         \/ config.policy = "skip" /\ SameKey(Tunnel(p)) # {}
    /\ config.pin => Pin \in table

\* A gated walk names everything it recorded and did not put back.
Named(item) == item \in remaining
ChecklistComplete ==
  gated /\ mode # "apply" /\ ~quiet =>
    /\ \A k \in 1..Len(applied.routes) :
         LET r == applied.routes[k] IN
         /\ Tunnel(r.cidr) \in table =>
              Named(<<"del", r.cidr>>) \/ Named(<<"restore", r.cidr>>)
         /\ ~(r.prior \subseteq table) => Named(<<"restore", r.cidr>>)
    /\ applied.addr /\ addr => Named(<<"addr_del">>)
    /\ applied.pin.set /\ ~(applied.pin.prior \subseteq table) => Named(<<"pin_undo">>)
    /\ applied.pin.set /\ applied.pin.prior = {} /\ Pin \in table =>
         Named(<<"pin_undo">>)

\* What is left of gp-route's work: foreign entries differ from those it
\* found, or its own are still there.
Foreign(t) == {e \in t : e.dev # "tun"}
Recorded == {applied.routes[k].cidr : k \in 1..Len(applied.routes)}
LeftBehind ==
  \/ Foreign(table) # Foreign(table0)
  \/ \E p \in Recorded : Tunnel(p) \in table
  \/ addr

\* lib.rs:1544, "All-or-nothing: on any failure, everything installed so far is
\* rolled back".  Here for the failures no command of the rollback adds to.  The
\* code does not keep this where the gateway had a host route with a metric: the
\* undo of the pin puts that one back and leaves the pin beside it.
AllOrNothing ==
  at = "done" /\ mode = "rollback" /\ ~gated /\ errors = {} /\ ~torn /\ ~quiet =>
    ~LeftBehind

\* The gateway had a host route which the pin does not take the place of, having
\* a metric, or which ip(8) cannot be given again.
OddGateway == \E e \in table0 : e.dst = Gateway /\ (e.metric # 0 \/ e.dev = "nodev")

\* gp-route keeps the promise run_tunnel builds on: apply and revert come back,
\* and a phase that ends undegraded has left nothing behind but what is explained
\* by a failure that was logged or could not be seen, by a pin over an odd host
\* route, or by the takeover of an entry that has neither device nor nexthop.
Slip == torn \/ quiet \/ errors # {} \/ (applied.pin.set /\ OddGateway)
Promise == INSTANCE RoutePromise WITH
  stage <- IF at = "done" THEN "down"
           ELSE IF at = "up" THEN "up"
           ELSE IF mode = "teardown" THEN "reverting" ELSE "applying",
  verdict <- IF at # "done" THEN "none"
             ELSE IF gated THEN "degraded"
             ELSE IF mode # "teardown" THEN "err"
             ELSE IF errors = {} THEN "clean" ELSE "errors",
  leaked <- at = "done" /\ (gated \/ LeftBehind),
  slip <- at = "done" /\ Slip
KeepsPromise == Promise!Spec

\* lib.rs:100, RouteConflictPolicy::TakeOver: "Take the prefix over for the tunnel
\* and hand it back on disconnect".  The code does not keep this for a blackhole:
\* sanitize_route_entry drops it from what was captured, and the replace goes ahead.
TakeOverHandsBack ==
  at = "done" /\ mode = "teardown" /\ ~gated /\ errors = {} /\ ~torn =>
    \A p \in Prefixes : Others(p) = {e \in table0 : e.dst = p /\ e.dev # "tun"}
=============================================================================
