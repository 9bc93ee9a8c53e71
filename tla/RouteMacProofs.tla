--------------------------- MODULE RouteMacProofs ---------------------------
(***************************************************************************)
(* RouteMac keeps its gate, leaves other programs' rows alone, routes what *)
(* an apply that returned Ok claims, and implements RoutePromise, for any  *)
(* set of prefixes and any lists of routes.                                *)
(***************************************************************************)
EXTENDS RouteMac, TLAPS

FirstSteps == {"begin", "pin_default", "pin_probe", "pin_add", "pin_inspect"}
ApplySteps == FirstSteps \cup {"route_add", "route_change", "up"}
UndoSteps == {"route_del", "addr_del", "pin_del"}

\* Where the phases are, and that a killed command ends the last of them.
WhereInv ==
  /\ live # {} => gated
  /\ gated => at = "done"
  /\ at \in ApplySteps => mode = "apply" /\ ~errors
  /\ at \in UndoSteps => mode # "apply"
  /\ at \in FirstSteps => i = 1
  /\ at \in {"route_add", "route_change", "up"} => i \in Nat \ {0}
  /\ at = "route_change" => config.policy = "takeover"
  /\ at = "up" => i > Len(config.routes)

LEMMA Lengths == TypeOK => /\ Len(config.routes) \in Nat \ {0}
                           /\ Len(applied.routes) \in Nat
                           /\ \A k \in 1..Len(applied.routes) : applied.routes[k] \in V4
<1> SUFFICES ASSUME TypeOK PROVE /\ Len(config.routes) \in Nat \ {0}
                                 /\ Len(applied.routes) \in Nat
                                 /\ \A k \in 1..Len(applied.routes) : applied.routes[k] \in V4
  OBVIOUS
<1>1. applied.routes \in Seq(V4)
  BY DEF TypeOK
<1>2. config.routes \in Lists
  BY DEF TypeOK, Configs
<1>3. PICK S : config.routes \in Seq(S) /\ config.routes # <<>>
  BY <1>2, RouteAssumption
<1>4. QED BY <1>1, <1>3

\* The way out of apply that rolls back, or that the gate bars.
LEMMA FailsWhere ==
  ASSUME TypeOK, NEW end, Fails(end)
  PROVE  /\ UNCHANGED <<applied, errors, bailed>>
         /\ \/ end = "unconfirmed" /\ gated' /\ at' = "done" /\ UNCHANGED <<mode, i>>
            \/ /\ end # "unconfirmed" /\ UNCHANGED gated /\ mode' = "rollback"
               /\ i' = Len(applied.routes) /\ i' \in Nat
               /\ at' \in UndoSteps \cup {"done"}
               /\ at' = "route_del" => i' \in 1..Len(applied.routes)
BY Lengths DEF Fails, UndoFrom, PinUndo, UndoSteps

LEMMA RoutesWhere ==
  ASSUME TypeOK, NEW k \in Nat
  PROVE  RoutesFrom(k) \in {"route_add", "up"}
         /\ (RoutesFrom(k) = "route_add" <=> k <= Len(config.routes))
BY DEF RoutesFrom

\* TypeOK in two: what the commands move, and where the walk is.
HostOK ==
  /\ addr \in BOOLEAN
  /\ net \in [V4 -> {"none", "other", "ours"}]
  /\ pinrow \in Free \cup Foreign \cup {"ours"}
  /\ live \subseteq Ops \X (V4 \cup {""})
  /\ unseen \in BOOLEAN

PlaceOK ==
  /\ at \in Steps /\ mode \in {"apply", "rollback", "teardown"}
  /\ i \in Nat
  /\ at \in {"route_add", "route_change"} => i \in 1..Len(config.routes)
  /\ at = "route_change" => config.routes[i] \in V4
  /\ at = "route_del" => i \in 1..Len(applied.routes)
  /\ applied \in [routes : Seq(V4), addr : BOOLEAN, pin : {"none", "created", "adopted"}]
  /\ errors \in BOOLEAN /\ gated \in BOOLEAN /\ bailed \in BOOLEAN

\* WhereInv but for the living.
PlaceInv ==
  /\ gated => at = "done"
  /\ at \in ApplySteps => mode = "apply" /\ ~errors
  /\ at \in UndoSteps => mode # "apply"
  /\ at \in FirstSteps => i = 1
  /\ at \in {"route_add", "route_change", "up"} => i \in Nat \ {0}
  /\ at = "route_change" => config.policy = "takeover"
  /\ at = "up" => i > Len(config.routes)

LEMMA InTwo ==
  /\ TypeOK <=> /\ config \in Configs /\ tun \in BOOLEAN
                /\ scoped \in {"none", "static", "deadend"}
                /\ HostOK /\ PlaceOK
  /\ WhereInv <=> (live # {} => gated) /\ PlaceInv
BY DEF TypeOK, HostOK, PlaceOK, WhereInv, PlaceInv

LEMMA RunsType ==
  ASSUME TypeOK, live = {}, NEW op \in Ops, NEW p \in V4 \cup {""}, NEW end, Runs(op, p, end),
         op \in {"add", "change", "del"} => p \in V4
  PROVE  HostOK' /\ (live' # {} => end = "unconfirmed")
<1> USE DEF TypeOK, HostOK
<1>0. unseen' \in BOOLEAN
  BY DEF Runs
<1>1. CASE Effect(op, p) /\ UNCHANGED live
  <2>1. addr' \in BOOLEAN /\ pinrow' \in Free \cup Foreign \cup {"ours"}
    BY <1>1 DEF Effect, Free
  <2>2. net' \in [V4 -> {"none", "other", "ours"}]
    BY <1>1 DEF Effect
  <2>3. QED BY <1>0, <1>1, <2>1, <2>2
<1>2. CASE UNCHANGED <<addr, net, pinrow, live>>
  BY <1>0, <1>2
<1>3. CASE live' = {<<op, p>>} /\ UNCHANGED <<addr, net, pinrow, unseen>> /\ end = "unconfirmed"
  <2>1. <<op, p>> \in Ops \X (V4 \cup {""})
    OBVIOUS
  <2>2. live' \subseteq Ops \X (V4 \cup {""})
    BY <1>3, <2>1
  <2>3. QED BY <1>3, <2>2
<1>4. \/ Effect(op, p) /\ UNCHANGED live
      \/ UNCHANGED <<addr, net, pinrow, live>>
      \/ live' = {<<op, p>>} /\ UNCHANGED <<addr, net, pinrow, unseen>> /\ end = "unconfirmed"
  BY DEF Runs, host
<1>5. QED BY <1>1, <1>2, <1>3, <1>4

LEMMA ReadsType ==
  ASSUME TypeOK, live = {}, NEW end, Reads(end)
  PROVE  HostOK' /\ (live' # {} => end = "unconfirmed")
<1>1. <<"read", "">> \in Ops \X (V4 \cup {""})
  BY DEF Ops
<1>2. QED BY <1>1 DEF Reads, TypeOK, HostOK

\* How each way out of a step of apply leaves the place.
LEMMA FailsPlace ==
  ASSUME TypeOK, WhereInv, at \in ApplySteps, NEW end, Fails(end), UNCHANGED config
  PROVE  PlaceOK' /\ PlaceInv' /\ (end = "unconfirmed" => gated')
<1>1. CASE end = "unconfirmed"
  <2>1. at' = "done" /\ gated' = TRUE /\ UNCHANGED <<mode, i, applied, errors, bailed>>
    BY <1>1 DEF Fails
  <2>2. QED BY <2>1 DEF PlaceOK, PlaceInv, TypeOK, WhereInv, Steps, ApplySteps, UndoSteps, FirstSteps
<1>2. CASE end # "unconfirmed"
  <2>1. /\ UNCHANGED <<gated, applied, errors, bailed>> /\ mode' = "rollback" /\ i' \in Nat
        /\ at' \in UndoSteps \cup {"done"} /\ (at' = "route_del" => i' \in 1..Len(applied.routes))
    BY <1>2, FailsWhere
  <2>2. ~gated
    BY DEF WhereInv, ApplySteps, FirstSteps
  <2>3. QED BY <1>2, <2>1, <2>2 DEF PlaceOK, PlaceInv, TypeOK, Steps, ApplySteps, UndoSteps, FirstSteps
<1>3. QED BY <1>1, <1>2

LEMMA GoesPlace ==
  ASSUME TypeOK, WhereInv, at \in ApplySteps \ {"up"}, UNCHANGED config,
         NEW to \in ApplySteps, Goes(to),
         applied' \in [routes : Seq(V4), addr : BOOLEAN, pin : {"none", "created", "adopted"}],
         \/ at \in FirstSteps /\ to \in FirstSteps
         \/ at \in FirstSteps /\ to = RoutesFrom(1)
         \/ at = "route_add" /\ to = "route_change" /\ config.policy = "takeover"
            /\ config.routes[i] \in V4
  PROVE  PlaceOK' /\ PlaceInv'
<1>1. at' = to /\ UNCHANGED <<mode, i, errors, gated, bailed>>
  BY DEF Goes, report
<1>2. ~gated /\ mode = "apply" /\ ~errors
  BY DEF WhereInv, ApplySteps, FirstSteps
<1>3. CASE at \in FirstSteps
  <2>1. i = 1 /\ Len(config.routes) \in Nat \ {0}
    BY <1>3, Lengths DEF WhereInv
  <2>2. RoutesFrom(1) = "route_add" /\ i \in 1..Len(config.routes)
    BY <2>1 DEF RoutesFrom
  <2>3. to \in FirstSteps \cup {"route_add"}
    BY <1>3, <2>2 DEF FirstSteps
  <2>4. PlaceOK'
    BY <1>1, <2>1, <2>2, <2>3 DEF PlaceOK, TypeOK, Steps, FirstSteps
  <2>5. PlaceInv'
    BY <1>1, <1>2, <2>1, <2>3 DEF PlaceInv, ApplySteps, FirstSteps, UndoSteps
  <2>6. QED BY <2>4, <2>5
<1>4. CASE at = "route_add"
  <2>1. to = "route_change" /\ config.policy = "takeover" /\ config.routes[i] \in V4
    BY <1>4 DEF FirstSteps
  <2>2. i \in 1..Len(config.routes) /\ i \in Nat \ {0}
    BY <1>4 DEF TypeOK, WhereInv
  <2>4. PlaceOK'
    BY <1>1, <2>1, <2>2 DEF PlaceOK, TypeOK, Steps
  <2>5. PlaceInv'
    BY <1>1, <1>2, <2>1, <2>2 DEF PlaceInv, ApplySteps, FirstSteps, UndoSteps
  <2>6. QED BY <2>4, <2>5
<1>5. QED BY <1>3, <1>4

LEMMA NextPlace ==
  ASSUME TypeOK, WhereInv, at \in {"route_add", "route_change"}, UNCHANGED config, NextRoute,
         applied' \in [routes : Seq(V4), addr : BOOLEAN, pin : {"none", "created", "adopted"}]
  PROVE  PlaceOK' /\ PlaceInv'
<1>1. at' = RoutesFrom(i + 1) /\ i' = i + 1 /\ UNCHANGED <<mode, errors, gated, bailed>>
  BY DEF NextRoute, report
<1>2. ~gated /\ mode = "apply" /\ ~errors
  BY DEF WhereInv, ApplySteps
<1>n. i \in Nat \ {0} /\ Len(config.routes) \in Nat
  BY Lengths DEF WhereInv
<1>3. /\ i' \in Nat \ {0} /\ at' \in {"route_add", "up"}
      /\ at' = "route_add" => i' \in 1..Len(config.routes)
      /\ at' = "up" => i' > Len(config.routes)
  BY <1>1, <1>n DEF RoutesFrom
<1>4. QED
  BY <1>1, <1>2, <1>3 DEF PlaceOK, PlaceInv, TypeOK, Steps, ApplySteps, FirstSteps, UndoSteps

LEMMA WalksPlace ==
  ASSUME TypeOK, WhereInv, at \in UndoSteps, NEW end, NEW to \in UndoSteps \cup {"done"}, Walks(end, to),
         i' \in Nat, to = "route_del" => i' \in 1..Len(applied.routes)
  PROVE  PlaceOK' /\ PlaceInv' /\ (end = "unconfirmed" => gated')
<1>1. /\ errors' \in BOOLEAN /\ UNCHANGED <<config, mode, applied, bailed>>
      /\ at' \in {to, "done"} /\ gated' \in BOOLEAN
      /\ gated' => at' = "done"
      /\ end = "unconfirmed" => gated'
  BY DEF Walks, TypeOK, WhereInv, UndoSteps
<1>2. mode # "apply"
  BY DEF WhereInv
<1>3. PlaceOK'
  BY <1>1 DEF PlaceOK, TypeOK, Steps, UndoSteps
<1>4. PlaceInv'
  BY <1>1, <1>2 DEF PlaceInv, ApplySteps, FirstSteps, UndoSteps
<1>5. QED BY <1>1, <1>3, <1>4

\* Every step of the code or of its surroundings keeps the types, the gate and
\* the order of the phases.
LEMMA TypeStep == TypeOK /\ WhereInv /\ [Next]_vars => TypeOK' /\ WhereInv'
<1> SUFFICES ASSUME TypeOK, WhereInv, [Next]_vars PROVE TypeOK' /\ WhereInv'
  OBVIOUS
<1> USE DEF Elsewhere
<1>c. config \in Configs /\ tun \in BOOLEAN /\ scoped \in {"none", "static", "deadend"}
      /\ HostOK /\ PlaceOK /\ PlaceInv /\ (live # {} => gated)
  BY InTwo
<1>n. /\ Len(applied.routes) \in Nat
      /\ \A k \in 1..Len(applied.routes) : applied.routes[k] \in V4
  BY Lengths
<1>l. at # "done" => live = {}
  BY DEF WhereInv
<1>o. ASSUME UNCHANGED <<config, tun, scoped>>, HostOK', PlaceOK', PlaceInv', live' # {} => gated'
      PROVE  TypeOK' /\ WhereInv'
  BY <1>c, <1>o, InTwo DEF TypeOK, HostOK, PlaceOK, WhereInv, PlaceInv
<1>a. applied \in [routes : Seq(V4), addr : BOOLEAN, pin : {"none", "created", "adopted"}]
  BY DEF TypeOK
<1>r. ASSUME NEW op \in Ops, NEW end, Runs(op, "", end), at # "done", op \notin {"add", "change", "del"}
      PROVE  HostOK' /\ (live' # {} => end = "unconfirmed")
  BY <1>l, <1>r, RunsType
<1>s. ASSUME NEW op \in Ops, NEW p \in V4, NEW end, Runs(op, p, end), at # "done"
      PROVE  HostOK' /\ (live' # {} => end = "unconfirmed")
  BY <1>l, <1>s, RunsType
<1>d. ASSUME NEW end, Reads(end), at # "done"
      PROVE  HostOK' /\ (live' # {} => end = "unconfirmed")
  BY <1>l, <1>d, ReadsType
<1>f. ASSUME at \in ApplySteps, NEW end, Fails(end), UNCHANGED <<config, tun, scoped>>,
             HostOK', live' # {} => end = "unconfirmed"
      PROVE  TypeOK' /\ WhereInv'
  <2>1. PlaceOK' /\ PlaceInv' /\ (end = "unconfirmed" => gated')
    BY <1>f, FailsPlace
  <2>2. QED BY <1>f, <1>o, <2>1
<1>1. CASE Refuse
  BY <1>1 DEF Refuse, TypeOK, WhereInv, host, report, ghosts, Steps, ApplySteps, FirstSteps, UndoSteps
<1>p. ASSUME at \in FirstSteps, NEW o \in {"created", "adopted"}, PinStands(o),
             UNCHANGED <<config, tun, scoped>>, HostOK', live' = {}
      PROVE  TypeOK' /\ WhereInv'
  <2>1. applied' \in [routes : Seq(V4), addr : BOOLEAN, pin : {"none", "created", "adopted"}]
    BY <1>a, <1>p DEF PinStands
  <2>2. RoutesFrom(1) \in ApplySteps
    BY DEF RoutesFrom, ApplySteps
  <2>3. PlaceOK' /\ PlaceInv'
    BY <1>p, <2>1, <2>2, GoesPlace DEF PinStands, ApplySteps, FirstSteps
  <2>4. QED BY <1>o, <1>p, <2>3
<1>g. ASSUME at \in FirstSteps, NEW to \in FirstSteps, Goes(to), UNCHANGED <<config, tun, scoped, applied>>,
             HostOK', live' = {}
      PROVE  TypeOK' /\ WhereInv'
  <2>1. PlaceOK' /\ PlaceInv'
    BY <1>a, <1>g, GoesPlace DEF ApplySteps, FirstSteps
  <2>2. QED BY <1>o, <1>g, <2>1
<1>2. CASE Configure
  <2>1. PICK end \in ReadEnds :
          /\ Runs("ifconfig", "", end)
          /\ IF end = "ok"
             THEN /\ applied' = [applied EXCEPT !.addr = TRUE]
                  /\ Goes(IF config.pin THEN "pin_default" ELSE RoutesFrom(1))
             ELSE Fails(end)
    BY <1>2 DEF Configure
  <2>2. HostOK' /\ (live' # {} => end = "unconfirmed")
    BY <1>2, <1>r, <2>1 DEF Configure, Ops
  <2>3. CASE end = "ok"
    <3>1. applied' \in [routes : Seq(V4), addr : BOOLEAN, pin : {"none", "created", "adopted"}]
      BY <1>a, <2>1, <2>3
    <3>2. RoutesFrom(1) \in ApplySteps /\ "pin_default" \in ApplySteps
      BY DEF RoutesFrom, ApplySteps, FirstSteps
    <3>3. PlaceOK' /\ PlaceInv'
      BY <1>2, <2>1, <2>3, <3>1, <3>2, GoesPlace DEF Configure, ApplySteps, FirstSteps
    <3>4. QED BY <1>2, <1>o, <2>2, <2>3, <3>3 DEF Configure
  <2>4. QED BY <1>2, <1>f, <2>1, <2>2, <2>3 DEF Configure, ApplySteps, FirstSteps
<1>3. CASE PinDefault
  BY <1>3, <1>d, <1>f, <1>g DEF PinDefault, ApplySteps, FirstSteps
<1>4. CASE PinProbe
  BY <1>4, <1>d, <1>f, <1>g, <1>p DEF PinProbe, ApplySteps, FirstSteps
<1>5. CASE PinAdd
  BY <1>5, <1>r, <1>f, <1>g, <1>p DEF PinAdd, ApplySteps, FirstSteps, Ops
<1>6. CASE PinInspect
  BY <1>6, <1>d, <1>f, <1>p DEF PinInspect, ApplySteps, FirstSteps
<1>7. CASE Bail
  BY <1>7 DEF Bail, TypeOK, WhereInv, host, report, ghosts, Steps, ApplySteps, FirstSteps, UndoSteps
<1>v. ASSUME NextRoute, at \in {"route_add", "route_change"}, UNCHANGED <<config, tun, scoped>>,
             HostOK', live' = {},
             applied' \in [routes : Seq(V4), addr : BOOLEAN, pin : {"none", "created", "adopted"}]
      PROVE  TypeOK' /\ WhereInv'
  <2>1. PlaceOK' /\ PlaceInv'
    BY <1>v, NextPlace
  <2>2. QED BY <1>o, <1>v, <2>1
<1>w. ASSUME Record, at \in {"route_add", "route_change"}, config.routes[i] \in V4,
             UNCHANGED <<config, tun, scoped>>, HostOK', live' = {}
      PROVE  TypeOK' /\ WhereInv'
  <2>1. applied' \in [routes : Seq(V4), addr : BOOLEAN, pin : {"none", "created", "adopted"}]
    <3>1. applied.routes \in Seq(V4) /\ Append(applied.routes, config.routes[i]) \in Seq(V4)
      BY <1>a, <1>w
    <3>2. applied' = [applied EXCEPT !.routes = Append(applied.routes, config.routes[i])]
      BY <1>w DEF Record
    <3>3. QED BY <1>a, <3>1, <3>2
  <2>2. QED BY <1>v, <1>w, <2>1 DEF Record
<1>8. CASE RouteAdd
  <2>1. PICK end \in Ends : /\ Runs("add", config.routes[i], end)
                            /\ IF end = "ok" THEN Record
                               ELSE IF end = "exists" THEN Conflict
                               ELSE Fails(end)
    BY <1>8 DEF RouteAdd
  <2>2. HostOK' /\ (live' # {} => end = "unconfirmed") /\ UNCHANGED <<config, tun, scoped>>
    BY <1>8, <1>s, <2>1 DEF RouteAdd, Ops
  <2>3. at = "route_add" /\ at \in ApplySteps /\ config.routes[i] \in V4
    BY <1>8 DEF RouteAdd, ApplySteps
  <2>4. CASE end = "exists" /\ config.policy = "takeover"
    <3>1. Goes("route_change") /\ UNCHANGED applied /\ "route_change" \in ApplySteps
      BY <2>1, <2>4 DEF Conflict, ApplySteps
    <3>2. PlaceOK' /\ PlaceInv'
      BY <1>a, <2>2, <2>3, <2>4, <3>1, GoesPlace DEF ApplySteps, FirstSteps
    <3>3. QED BY <1>o, <2>2, <2>4, <3>2
  <2>5. CASE end = "exists" /\ config.policy # "takeover"
    BY <1>a, <1>f, <1>v, <2>1, <2>2, <2>3, <2>5 DEF Conflict
  <2>6. QED BY <1>f, <1>w, <2>1, <2>2, <2>3, <2>4, <2>5
<1>9. CASE RouteChange
  <2>1. at = "route_change" /\ at \in ApplySteps /\ config.routes[i] \in V4
    BY <1>9 DEF RouteChange, ApplySteps, TypeOK
  <2>2. QED BY <1>9, <1>f, <1>s, <1>w, <2>1 DEF RouteChange, Ops
<1>10. CASE Revert
  <2>1. /\ mode' = "teardown" /\ i' = Len(applied.routes) /\ at' = UndoFrom(i') /\ at = "up"
        /\ UNCHANGED <<config, tun, scoped, addr, net, pinrow, live, applied, errors, gated, unseen, bailed>>
    BY <1>10 DEF Revert, host, report, ghosts
  <2>2. /\ at' \in UndoSteps \cup {"done"} /\ i' \in Nat
        /\ at' = "route_del" => i' \in 1..Len(applied.routes)
    BY <2>1, Lengths DEF UndoFrom, PinUndo, UndoSteps
  <2>3. ~gated /\ live = {} /\ errors \in BOOLEAN
    BY <1>l, <2>1 DEF WhereInv, TypeOK
  <2>4. PlaceOK' /\ PlaceInv'
    BY <1>c, <2>1, <2>2, <2>3 DEF PlaceOK, PlaceInv, Steps, ApplySteps, FirstSteps, UndoSteps
  <2>5. HostOK' /\ live' = {}
    BY <1>c, <2>1, <2>3 DEF HostOK
  <2>6. QED BY <1>o, <2>1, <2>4, <2>5
<1>x. ASSUME at \in UndoSteps, NEW end, NEW to \in UndoSteps \cup {"done"}, Walks(end, to),
             i' \in Nat, to = "route_del" => i' \in 1..Len(applied.routes),
             HostOK', live' # {} => end = "unconfirmed"
      PROVE  TypeOK' /\ WhereInv'
  <2>1. PlaceOK' /\ PlaceInv' /\ (end = "unconfirmed" => gated')
    BY <1>x, WalksPlace
  <2>2. QED BY <1>o, <1>x, <2>1 DEF Walks
<1>11. CASE RouteDel
  <2>1. /\ i \in 1..Len(applied.routes) /\ applied.routes[i] \in V4 /\ i' = i - 1
        /\ at \in UndoSteps /\ at # "done"
    BY <1>11, <1>n DEF RouteDel, TypeOK, UndoSteps
  <2>2. /\ UndoFrom(i - 1) \in UndoSteps \cup {"done"} /\ i' \in Nat
        /\ UndoFrom(i - 1) = "route_del" => i' \in 1..Len(applied.routes)
    BY <1>n, <2>1 DEF UndoFrom, PinUndo, UndoSteps
  <2>3. PICK end \in ReadEnds : Runs("del", applied.routes[i], end) /\ Walks(end, UndoFrom(i - 1))
    BY <1>11 DEF RouteDel
  <2>4. HostOK' /\ (live' # {} => end = "unconfirmed")
    BY <1>s, <2>1, <2>3 DEF Ops
  <2>5. QED BY <1>x, <2>1, <2>2, <2>3, <2>4
<1>12. CASE AddrDel
  <2>1. /\ PinUndo \in UndoSteps \cup {"done"} /\ PinUndo # "route_del"
        /\ at \in UndoSteps /\ at # "done" /\ i' \in Nat
    BY <1>12 DEF AddrDel, PinUndo, UndoSteps, TypeOK
  <2>2. PICK end \in ReadEnds : Runs("addr_del", "", end) /\ Walks(end, PinUndo)
    BY <1>12 DEF AddrDel
  <2>3. HostOK' /\ (live' # {} => end = "unconfirmed")
    BY <1>r, <2>1, <2>2 DEF Ops
  <2>4. QED BY <1>x, <2>1, <2>2, <2>3
<1>13. CASE PinDel
  <2>1. at \in UndoSteps /\ at # "done" /\ i' \in Nat
    BY <1>13 DEF PinDel, UndoSteps, TypeOK
  <2>2. PICK end \in ReadEnds : Runs("pin_del", "", end) /\ Walks(end, "done")
    BY <1>13 DEF PinDel
  <2>3. HostOK' /\ (live' # {} => end = "unconfirmed")
    BY <1>r, <2>1, <2>2 DEF Ops
  <2>4. QED BY <1>x, <2>1, <2>2, <2>3
<1>u. ASSUME UNCHANGED <<config, scoped, at, mode, i, applied, errors, gated, bailed>>,
             tun' \in BOOLEAN, HostOK', live' # {} => live # {}
      PROVE  TypeOK' /\ WhereInv'
  <2>1. PlaceOK' /\ PlaceInv'
    BY <1>c, <1>u DEF PlaceOK, PlaceInv
  <2>2. config' \in Configs /\ scoped' \in {"none", "static", "deadend"} /\ (live' # {} => gated')
    BY <1>c, <1>u
  <2>3. TypeOK' <=> /\ config' \in Configs /\ tun' \in BOOLEAN
                    /\ scoped' \in {"none", "static", "deadend"}
                    /\ HostOK' /\ PlaceOK'
    BY DEF TypeOK, HostOK, PlaceOK
  <2>4. WhereInv' <=> (live' # {} => gated') /\ PlaceInv'
    BY DEF WhereInv, PlaceInv
  <2>5. QED BY <1>u, <2>1, <2>2, <2>3, <2>4
<1>14. CASE LiveActs
  <2>1. PICK c \in live : CanDo(c[1], c[2]) /\ Effect(c[1], c[2])
    BY <1>14 DEF LiveActs
  <2>2. UNCHANGED <<config, tun, scoped, at, mode, i, applied, errors, gated, unseen, bailed>> /\ live' = {}
    BY <1>14 DEF LiveActs, phase, report, ghosts
  <2>3. addr' \in BOOLEAN /\ net' \in [V4 -> {"none", "other", "ours"}]
        /\ pinrow' \in Free \cup Foreign \cup {"ours"}
    BY <2>1 DEF Effect, TypeOK, Free
  <2>4. HostOK'
    BY <1>c, <2>2, <2>3 DEF HostOK
  <2>5. QED BY <1>c, <1>u, <2>2, <2>4
<1>15. CASE TunVanishes
  <2>1. addr' = FALSE /\ net' \in [V4 -> {"none", "other", "ours"}] /\ tun' = FALSE
        /\ UNCHANGED <<config, scoped, pinrow, live, at, mode, i, applied, errors, gated, unseen, bailed>>
    BY <1>15 DEF TunVanishes, TypeOK, phase, report, ghosts
  <2>2. HostOK'
    BY <1>c, <2>1 DEF HostOK
  <2>3. QED BY <1>u, <2>1, <2>2
<1>16. CASE OtherPins \/ OtherRoutes
  <2>1. net' \in [V4 -> {"none", "other", "ours"}] /\ pinrow' \in Free \cup Foreign \cup {"ours"}
        /\ UNCHANGED <<config, tun, scoped, addr, live, at, mode, i, applied, errors, gated, unseen, bailed>>
    BY <1>16 DEF OtherPins, OtherRoutes, TypeOK, phase, report, ghosts
  <2>2. HostOK'
    BY <1>c, <2>1 DEF HostOK
  <2>3. QED BY <1>c, <1>u, <2>1, <2>2
<1>17. CASE UNCHANGED vars
  <2>1. UNCHANGED <<config, tun, scoped, addr, net, pinrow, live, at, mode, i, applied, errors, gated,
                    unseen, bailed>>
    BY <1>17 DEF vars, host, phase, report, ghosts
  <2>2. HostOK'
    BY <1>c, <2>1 DEF HostOK
  <2>3. QED BY <1>c, <1>u, <2>1, <2>2
<1>18. QED
  BY <1>1, <1>2, <1>3, <1>4, <1>5, <1>6, <1>7, <1>8, <1>9, <1>10, <1>11, <1>12, <1>13, <1>14,
     <1>15, <1>16, <1>17 DEF Next, Commands, Finished

LEMMA InitWhere == Init => TypeOK /\ WhereInv
<1> SUFFICES ASSUME Init PROVE TypeOK /\ WhereInv
  OBVIOUS
<1>1. net \in [V4 -> {"none", "other", "ours"}]
  BY DEF Init
<1>2. applied \in [routes : Seq(V4), addr : BOOLEAN, pin : {"none", "created", "adopted"}]
  BY DEF Init
<1>3. pinrow \in Free \cup Foreign \cup {"ours"} /\ live \subseteq Ops \X (V4 \cup {""})
  BY DEF Init
<1>4. TypeOK
  BY <1>1, <1>2, <1>3 DEF Init, TypeOK, Steps
<1>5. WhereInv
  BY DEF Init, WhereInv, ApplySteps, FirstSteps, UndoSteps
<1>6. QED BY <1>4, <1>5

THEOREM MacWhere == Spec => [](TypeOK /\ WhereInv)
BY InitWhere, TypeStep, PTL DEF Spec

\* Every variable of gp-route's walk on macOS keeps its type: no index of a
\* rollback or a teardown leaves what was recorded.
THEOREM MacTyping == Spec => []TypeOK
BY MacWhere, PTL

\* install_gateway_exclude_macos, rollback_and_fail and platform_revert change
\* nothing beside a killed command that may be running.
THEOREM MacGateHolds == Spec => NothingBesideLive
<1>1. TypeOK /\ WhereInv /\ [Next]_vars => [live # {} => ~Changes]_vars
  BY DEF WhereInv, Changes, Configure, PinAdd, RouteAdd, RouteChange, RouteDel, AddrDel, PinDel
<1>2. QED BY <1>1, MacWhere, PTL DEF Spec, NothingBesideLive

-----------------------------------------------------------------------------
(* What a command moves. *)

LEMMA RunsMoves ==
  ASSUME TypeOK, NEW op \in Ops, NEW p, NEW end, Runs(op, p, end),
         op \in {"add", "change", "del"} => p \in V4
  PROVE  /\ op \notin {"add", "change", "del"} => net' = net
         /\ \A q \in V4 : q # p => net'[q] = net[q]
         /\ op \in {"add", "change"} => net'[p] \in {net[p], "ours"}
         /\ op = "del" => net'[p] \in {net[p], "none"}
         /\ op = "add" /\ net'[p] # net[p] => net[p] = "none"
         /\ op = "add" /\ end = "ok" /\ config.tells => net[p] = "none" /\ net'[p] = "ours"
         /\ op = "change" /\ end = "ok" /\ config.tells => net'[p] = "ours"
         /\ op = "add" /\ end = "exists" /\ config.tells => net[p] # "none" /\ net' = net
         /\ op \notin {"pin_add", "pin_del"} => pinrow' = pinrow
         /\ op = "pin_add" => pinrow' = pinrow \/ (pinrow \in Free /\ pinrow' = "ours")
         /\ op = "pin_add" /\ end = "ok" => pinrow' = "ours"
         /\ op = "pin_del" => pinrow' \in {pinrow, "none"}
<1>0. net \in [V4 -> {"none", "other", "ours"}]
  BY DEF TypeOK
<1>1. CASE CanDo(op, p) /\ Effect(op, p) /\ end # "exists"
  <2>1. net' = IF op \in {"add", "change"} THEN [net EXCEPT ![p] = "ours"]
               ELSE IF op = "del" THEN [net EXCEPT ![p] = "none"] ELSE net
    BY <1>1 DEF Effect
  <2>2. pinrow' = IF op = "pin_add" THEN "ours" ELSE IF op = "pin_del" THEN "none" ELSE pinrow
    BY <1>1 DEF Effect
  <2>3. /\ op = "add" => net[p] = "none"
        /\ op = "pin_add" => pinrow \in Free
    BY <1>1 DEF CanDo
  <2>4. QED BY <1>0, <1>1, <2>1, <2>2, <2>3
<1>2. CASE UNCHANGED <<net, pinrow>> /\ (end = "ok" => ~config.tells /\ op # "pin_add")
           /\ (end = "exists" => Occupied(op, p))
  BY <1>2 DEF Occupied
<1>3. QED BY <1>1, <1>2 DEF Runs, host

LEMMA RunsLives ==
  ASSUME NEW op, NEW p, NEW end, live = {}, Runs(op, p, end)
  PROVE  \A c \in live' : c = <<op, p>> /\ UNCHANGED <<addr, net, pinrow, unseen>>
BY DEF Runs, host

LEMMA ReadsMoves ==
  ASSUME NEW end, live = {}, Reads(end)
  PROVE  UNCHANGED <<addr, net, pinrow, unseen>> /\ \A c \in live' : c[1] = "read"
<1>1. <<"read", "">>[1] = "read"
  OBVIOUS
<1>2. \A c \in live' : c = <<"read", "">>
  BY DEF Reads
<1>3. QED BY <1>1, <1>2 DEF Reads

-----------------------------------------------------------------------------
(* An apply that returned Ok. *)

RouteSteps == {"route_add", "route_change", "up"}
Settled(p) == p \in V4 /\ (net[p] = "ours" \/ (config.policy = "skip" /\ net[p] = "other"))

\* The host row is there before the first route is looked at, and the routes
\* passed are settled.
RoutedInv ==
  at \in RouteSteps =>
    /\ config.pin => pinrow \in Usable \cup {"ours"}
    /\ config.tells /\ tun =>
         \A k \in 1..(i - 1) : k <= Len(config.routes) => Settled(config.routes[k])

LEMMA RoutedOn ==
  ASSUME TypeOK, RoutedInv, at \in RouteSteps, UNCHANGED config, tun' => tun, pinrow' = pinrow,
         \A q \in V4 : net[q] \in {"ours", "other"} => net'[q] \in {net[q], "ours"},
         NEW p, p = config.routes[i],
         \/ i' = i
         \/ i' = i + 1 /\ (config.tells /\ tun => Settled(p)')
  PROVE  RoutedInv'
<1>q. ASSUME config.tells, tun', NEW k \in 1..(i' - 1), k <= Len(config.routes), NEW q, q = config.routes[k]
      PROVE  Settled(q)'
  <2>n. i \in Nat
    BY DEF TypeOK
  <2>0. i' \in Nat
    BY <2>n
  <2>1. i \in Nat /\ tun /\ k \in Nat
    BY <1>q, <2>n, <2>0
  <2>2. CASE k \in 1..(i - 1)
    <3>1. Settled(q)
      BY <1>q, <2>1, <2>2 DEF RoutedInv
    <3>2. QED BY <3>1 DEF Settled
  <2>3. CASE k = i /\ i' = i + 1
    BY <1>q, <2>1, <2>3
  <2>4. QED BY <1>q, <2>1, <2>2, <2>3
<1>h. config.pin /\ at' \in RouteSteps => pinrow' \in Usable \cup {"ours"}
  BY DEF RoutedInv
<1>z. QED BY <1>q, <1>h DEF RoutedInv, Settled

LEMMA RoutedFirst ==
  ASSUME WhereInv, at \in FirstSteps, i' = i, config.pin => pinrow' \in Usable \cup {"ours"},
         UNCHANGED config
  PROVE  RoutedInv'
BY DEF WhereInv, RoutedInv

LEMMA RoutedStep == TypeOK /\ WhereInv /\ RoutedInv /\ [Next]_vars => RoutedInv'
<1> SUFFICES ASSUME TypeOK, WhereInv, RoutedInv, [Next]_vars PROVE RoutedInv'
  OBVIOUS
<1> USE DEF Elsewhere
<1>f. ASSUME NEW end, Fails(end) PROVE RoutedInv'
  BY <1>f, FailsWhere DEF RoutedInv, RouteSteps, UndoSteps
<1>g. ASSUME NEW to, Goes(to), to \notin RouteSteps PROVE RoutedInv'
  BY <1>g DEF Goes, RoutedInv
<1>1. CASE Configure
  <2>1. PICK end \in ReadEnds :
          IF end = "ok"
          THEN Goes(IF config.pin THEN "pin_default" ELSE RoutesFrom(1))
          ELSE Fails(end)
    BY <1>1 DEF Configure
  <2>2. CASE end = "ok" /\ ~config.pin
    BY <1>1, <2>1, <2>2, RoutedFirst DEF Configure, Goes, FirstSteps
  <2>3. QED BY <1>f, <1>g, <2>1, <2>2 DEF RouteSteps
<1>p. ASSUME NEW o, PinStands(o), at \in FirstSteps, pinrow' \in Usable \cup {"ours"}, UNCHANGED config
      PROVE  RoutedInv'
  BY <1>p, RoutedFirst DEF PinStands, Goes
<1>2. CASE PinDefault
  BY <1>2, <1>f, <1>g DEF PinDefault, RouteSteps
<1>3. CASE PinProbe
  <2>1. PICK end \in ReadEnds, row \in Lookups :
          /\ Reads(end)
          /\ \/ Fails(end) \/ Fails("failed") \/ Goes("pin_add")
             \/ Probed(row) = "present" /\ PinStands("adopted")
    BY <1>3 DEF PinProbe
  <2>2. Probed(row) = "present" => pinrow \in Usable
    BY DEF Probed, Lookups
  <2>3. QED BY <1>3, <1>f, <1>g, <1>p, <2>1, <2>2 DEF PinProbe, Reads, FirstSteps, RouteSteps
<1>4. CASE PinAdd
  <2>1. PICK end \in Ends :
          /\ Runs("pin_add", "", end)
          /\ IF end = "ok" THEN PinStands("created")
             ELSE IF end = "exists" THEN Goes("pin_inspect") /\ UNCHANGED applied
             ELSE Fails(end)
    BY <1>4 DEF PinAdd
  <2>2. end = "ok" => pinrow' = "ours"
    BY <2>1, RunsMoves DEF Ops
  <2>3. QED BY <1>4, <1>f, <1>g, <1>p, <2>1, <2>2 DEF PinAdd, FirstSteps, RouteSteps
<1>5. CASE PinInspect
  <2>1. PICK end \in ReadEnds :
          /\ Reads(end)
          /\ \/ pinrow = "static" /\ PinStands("adopted")
             \/ \E e : Fails(e)
    BY <1>5 DEF PinInspect
  <2>2. QED BY <1>5, <1>f, <1>p, <2>1 DEF PinInspect, Reads, FirstSteps, Usable
<1>6. CASE RouteAdd
  <2>1. PICK end \in Ends : /\ Runs("add", config.routes[i], end)
                            /\ IF end = "ok" THEN Record
                               ELSE IF end = "exists" THEN Conflict
                               ELSE Fails(end)
    BY <1>6 DEF RouteAdd
  <2>2. at \in RouteSteps /\ config.routes[i] \in V4 /\ i \in 1..Len(config.routes)
        /\ UNCHANGED <<config, tun>>
    BY <1>6 DEF RouteAdd, RouteSteps, TypeOK
  <2>3. PICK p \in V4 : p = config.routes[i]
    BY <2>2
  <2>4. /\ pinrow' = pinrow
        /\ \A q \in V4 : q # p => net'[q] = net[q]
        /\ net'[p] \in {net[p], "ours"}
        /\ end = "ok" /\ config.tells => net'[p] = "ours"
        /\ end = "exists" /\ config.tells => net[p] # "none" /\ net' = net
    BY <2>1, <2>3, RunsMoves DEF Ops
  <2>5. \A q \in V4 : net'[q] \in {net[q], "ours"}
    BY <2>4
  <2>6. CASE end = "ok"
    <3>1. i' = i + 1
      BY <2>1, <2>6 DEF Record, NextRoute
    <3>2. config.tells => Settled(p)'
      BY <2>4, <2>6 DEF Settled
    <3>3. QED BY <2>2, <2>3, <2>4, <2>5, <3>1, <3>2, RoutedOn
  <2>7. CASE end = "exists" /\ NextRoute /\ config.policy = "skip"
    <3>1. i' = i + 1
      BY <2>7 DEF NextRoute
    <3>2. config.tells => Settled(p)'
      BY <2>2, <2>4, <2>7 DEF Settled, TypeOK
    <3>3. QED BY <2>2, <2>3, <2>4, <2>5, <3>1, <3>2, RoutedOn
  <2>8. CASE Goes("route_change")
    BY <2>2, <2>4, <2>5, <2>8, RoutedOn DEF Goes
  <2>9. QED BY <1>f, <2>1, <2>6, <2>7, <2>8 DEF Conflict
<1>7. CASE RouteChange
  <2>1. PICK end \in ReadEnds : /\ Runs("change", config.routes[i], end)
                                /\ IF end = "ok" THEN Record ELSE Fails(end)
    BY <1>7 DEF RouteChange
  <2>2. at \in RouteSteps /\ config.routes[i] \in V4 /\ i \in 1..Len(config.routes)
        /\ UNCHANGED <<config, tun>>
    BY <1>7 DEF RouteChange, RouteSteps, TypeOK
  <2>3. PICK p \in V4 : p = config.routes[i]
    BY <2>2
  <2>4. /\ pinrow' = pinrow
        /\ \A q \in V4 : q # p => net'[q] = net[q]
        /\ net'[p] \in {net[p], "ours"}
        /\ end = "ok" /\ config.tells => net'[p] = "ours"
    BY <2>1, <2>3, RunsMoves DEF Ops
  <2>5. \A q \in V4 : net'[q] \in {net[q], "ours"}
    BY <2>4
  <2>6. CASE end = "ok"
    <3>1. i' = i + 1
      BY <2>1, <2>6 DEF Record, NextRoute
    <3>2. config.tells => Settled(p)'
      BY <2>4, <2>6 DEF Settled
    <3>3. QED BY <2>2, <2>3, <2>4, <2>5, <3>1, <3>2, RoutedOn
  <2>7. QED BY <1>f, <2>1, <2>6
<1>8. CASE Refuse \/ Bail
  BY <1>8 DEF Refuse, Bail, RoutedInv, RouteSteps
<1>9. CASE Revert \/ RouteDel \/ AddrDel \/ PinDel
  BY <1>9 DEF Revert, RouteDel, AddrDel, PinDel, Walks, UndoFrom, PinUndo, RoutedInv, RouteSteps
<1>10. CASE LiveActs
  BY <1>10 DEF LiveActs, WhereInv, RoutedInv, RouteSteps, phase
<1>11. CASE TunVanishes
  BY <1>11 DEF TunVanishes, RoutedInv, phase
<1>12. CASE OtherPins \/ OtherRoutes
  <2>1. /\ UNCHANGED <<config, tun, at, i>>
        /\ pinrow \in Usable \cup {"ours"} => pinrow' = pinrow
        /\ \A q \in V4 : net[q] # "none" => net'[q] = net[q]
    BY <1>12 DEF OtherPins, OtherRoutes, phase, Usable, Free, TypeOK
  <2>2. CASE at \in RouteSteps
    <3>1. \A k \in 1..(i - 1) : Settled(config.routes[k]) => Settled(config.routes[k])'
      BY <2>1 DEF Settled
    <3>2. QED BY <2>1, <2>2, <3>1 DEF RoutedInv
  <2>3. QED BY <2>1, <2>2 DEF RoutedInv
<1>13. CASE UNCHANGED vars
  BY <1>13 DEF vars, host, phase, RoutedInv, Settled
<1>14. QED
  BY <1>1, <1>2, <1>3, <1>4, <1>5, <1>6, <1>7, <1>8, <1>9, <1>10, <1>11, <1>12, <1>13
  DEF Next, Commands, Finished

\* After an apply that returned Ok, the gateway has a host row that carries,
\* created or adopted, and where route(8) can be trusted every prefix is in the
\* tunnel but those `skip` leaves alone.
THEOREM MacUpIsRouted == Spec => []UpMeansRouted
<1>1. Init => RoutedInv
  BY DEF Init, RoutedInv, RouteSteps
<1>2. TypeOK /\ WhereInv /\ RoutedInv => UpMeansRouted
  <2> SUFFICES ASSUME TypeOK, WhereInv, RoutedInv, at = "up", tun PROVE UpMeansRouted
    BY DEF UpMeansRouted
  <2>1. \A k \in 1..Len(config.routes) : k \in 1..(i - 1)
    BY Lengths DEF WhereInv
  <2>2. QED BY <2>1 DEF UpMeansRouted, RoutedInv, RouteSteps, Settled
<1>3. QED BY <1>1, <1>2, RoutedStep, MacWhere, PTL DEF Spec

-----------------------------------------------------------------------------
(* What is not this process's. *)

\* The pin that is recorded as created is there, and this process's.
PinKept ==
  /\ applied.pin = "created" /\ at # "done" => pinrow = "ours"
  /\ at = "pin_del" => applied.pin = "created"
  /\ \A c \in live : c[1] = "pin_del" => pinrow = "ours"


LEMMA PinOn ==
  ASSUME PinKept, applied'.pin = applied.pin, at' # "done" => at # "done",
         pinrow = "ours" => pinrow' = "ours", at' = "pin_del" => applied.pin = "created",
         \A c \in live' : c[1] # "pin_del" \/ c \in live
  PROVE  PinKept'
BY DEF PinKept

\* Where a phase goes on, pin_del is only for a pin that was created.
LEMMA FailsPin ==
  ASSUME TypeOK, NEW end, Fails(end), at # "pin_del"
  PROVE  applied' = applied /\ (at' = "pin_del" => applied.pin = "created")
BY DEF Fails, UndoFrom, PinUndo

LEMMA WalksPin ==
  ASSUME NEW end, NEW k, Walks(end, UndoFrom(k)) \/ Walks(end, PinUndo)
  PROVE  applied' = applied /\ (at' = "pin_del" => applied.pin = "created")
BY DEF Walks, UndoFrom, PinUndo

LEMMA RoutesPin == ASSUME NEW k PROVE RoutesFrom(k) \in {"route_add", "up"}
BY DEF RoutesFrom

\* The host row of the gateway across a step.
PinSafe == PinKept' /\ (pinrow \in Foreign => pinrow' = pinrow)

LEMMA PinStep == TypeOK /\ WhereInv /\ PinKept /\ [Next]_vars => PinSafe
<1> SUFFICES ASSUME TypeOK, WhereInv, PinKept, [Next]_vars PROVE PinSafe
  OBVIOUS
<1> USE DEF PinSafe
<1>l. at # "done" => live = {}
  BY DEF WhereInv
<1>f. "ours" \notin Foreign /\ Free \cap Foreign = {}
  BY DEF Foreign, Usable, Free
<1>r. ASSUME NEW op \in Ops \ {"pin_add", "pin_del"}, NEW p, NEW end, Runs(op, p, end), at # "done",
             op \in {"add", "change", "del"} => p \in V4
      PROVE  pinrow' = pinrow /\ \A c \in live' : c[1] # "pin_del"
  <2>1. pinrow' = pinrow
    BY <1>r, RunsMoves
  <2>2. \A c \in live' : c = <<op, p>>
    BY <1>l, <1>r, RunsLives
  <2>3. \A c \in live' : c[1] = op
    BY <2>2
  <2>4. QED BY <1>r, <2>1, <2>3
<1>d. ASSUME NEW end, Reads(end), at # "done" PROVE pinrow' = pinrow /\ \A c \in live' : c[1] # "pin_del"
  BY <1>d, <1>l, ReadsMoves
<1>1. CASE Refuse \/ Bail
  BY <1>1, PinOn DEF Refuse, Bail, host
<1>2. CASE Configure
  <2>1. PICK end \in ReadEnds :
          /\ Runs("ifconfig", "", end)
          /\ IF end = "ok"
             THEN /\ applied' = [applied EXCEPT !.addr = TRUE]
                  /\ Goes(IF config.pin THEN "pin_default" ELSE RoutesFrom(1))
             ELSE Fails(end)
    BY <1>2 DEF Configure
  <2>2. at = "begin" /\ pinrow' = pinrow /\ \A c \in live' : c[1] # "pin_del"
    BY <1>2, <1>r, <2>1 DEF Configure, Ops
  <2>3. applied'.pin = applied.pin /\ (at' = "pin_del" => applied.pin = "created")
    BY <2>1, <2>2, FailsPin, RoutesPin DEF Goes, TypeOK
  <2>4. QED BY <2>2, <2>3, PinOn
<1>p. ASSUME PinStands("adopted"), pinrow' = pinrow, \A c \in live' : c[1] # "pin_del"
      PROVE  PinSafe
  <2>1. applied'.pin = "adopted" /\ at' \in {"route_add", "up"}
    BY <1>p, RoutesPin DEF PinStands, Goes, TypeOK
  <2>2. QED BY <1>p, <2>1 DEF PinKept
<1>q. ASSUME at \in FirstSteps, pinrow' = pinrow \/ (pinrow \in Free /\ pinrow' = "ours"),
             \A c \in live' : c[1] # "pin_del",
             \/ \E e : Fails(e)
             \/ \E to \in FirstSteps : Goes(to) /\ UNCHANGED applied
      PROVE  PinSafe
  <2>1. applied' = applied /\ (at' = "pin_del" => applied.pin = "created") /\ at # "done"
    BY <1>q, FailsPin DEF Goes, FirstSteps
  <2>2. "ours" \notin Free
    BY DEF Free
  <2>3. QED BY <1>f, <1>q, <2>1, <2>2, PinOn
<1>3. CASE PinDefault
  BY <1>3, <1>d, <1>q DEF PinDefault, FirstSteps
<1>4. CASE PinProbe
  <2>1. PICK end \in ReadEnds, row \in Lookups :
          /\ Reads(end)
          /\ \/ \E e : Fails(e)
             \/ Goes("pin_add") /\ UNCHANGED applied
             \/ PinStands("adopted")
    BY <1>4 DEF PinProbe
  <2>2. QED BY <1>4, <1>d, <1>p, <1>q, <2>1 DEF PinProbe, FirstSteps
<1>5. CASE PinAdd
  <2>1. PICK end \in Ends :
          /\ Runs("pin_add", "", end)
          /\ IF end = "ok" THEN PinStands("created")
             ELSE IF end = "exists" THEN Goes("pin_inspect") /\ UNCHANGED applied
             ELSE Fails(end)
    BY <1>5 DEF PinAdd
  <2>2. at = "pin_add" /\ (pinrow' = pinrow \/ (pinrow \in Free /\ pinrow' = "ours"))
        /\ (end = "ok" => pinrow' = "ours")
    BY <1>5, <2>1, RunsMoves DEF PinAdd, Ops
  <2>3. \A c \in live' : c = <<"pin_add", "">>
    BY <1>l, <2>1, <2>2, RunsLives
  <2>t. <<"pin_add", "">>[1] = "pin_add"
    OBVIOUS
  <2>4. \A c \in live' : c[1] # "pin_del"
    BY <2>3, <2>t
  <2>5. CASE end = "ok"
    <3>1. at' \in {"route_add", "up"} /\ pinrow' = "ours"
      BY <2>1, <2>2, <2>5, RoutesPin DEF PinStands, Goes
    <3>2. QED BY <1>f, <2>2, <2>4, <3>1 DEF PinKept
  <2>6. QED BY <1>q, <2>1, <2>2, <2>4, <2>5 DEF FirstSteps
<1>6. CASE PinInspect
  <2>1. PICK end \in ReadEnds : Reads(end) /\ (PinStands("adopted") \/ \E e : Fails(e))
    BY <1>6 DEF PinInspect
  <2>2. QED BY <1>6, <1>d, <1>p, <1>q, <2>1 DEF PinInspect, FirstSteps
<1>v. ASSUME Record \/ (NextRoute /\ UNCHANGED applied) \/ (Goes("route_change") /\ UNCHANGED applied)
             \/ \E e : Fails(e),
             at \in {"route_add", "route_change"}, pinrow' = pinrow, \A c \in live' : c[1] # "pin_del"
      PROVE  PinSafe
  <2>1. applied'.pin = applied.pin /\ (at' = "pin_del" => applied.pin = "created")
    BY <1>v, FailsPin, RoutesPin DEF Goes, Record, NextRoute, TypeOK
  <2>2. QED BY <1>v, <2>1, PinOn
<1>7. CASE RouteAdd
  <2>1. PICK end \in Ends :
          /\ Runs("add", config.routes[i], end)
          /\ Record \/ Conflict \/ Fails(end)
    BY <1>7 DEF RouteAdd
  <2>2. at = "route_add" /\ pinrow' = pinrow /\ \A c \in live' : c[1] # "pin_del"
    BY <1>7, <1>r, <2>1 DEF RouteAdd, Ops
  <2>3. QED BY <1>v, <2>1, <2>2 DEF Conflict
<1>8. CASE RouteChange
  <2>1. PICK end \in ReadEnds : Runs("change", config.routes[i], end) /\ (Record \/ Fails(end))
    BY <1>8 DEF RouteChange
  <2>2. at = "route_change" /\ pinrow' = pinrow /\ \A c \in live' : c[1] # "pin_del"
    BY <1>8, <1>r, <2>1 DEF RouteChange, Ops, TypeOK
  <2>3. QED BY <1>v, <2>1, <2>2
<1>9. CASE Revert
  BY <1>9, PinOn DEF Revert, UndoFrom, PinUndo, host
<1>10. CASE RouteDel
  <2>1. PICK end \in ReadEnds : Runs("del", applied.routes[i], end) /\ Walks(end, UndoFrom(i - 1))
    BY <1>10 DEF RouteDel
  <2>2. at = "route_del" /\ applied.routes[i] \in V4
    BY <1>10, Lengths DEF RouteDel, TypeOK
  <2>3. pinrow' = pinrow /\ \A c \in live' : c[1] # "pin_del"
    BY <1>r, <2>1, <2>2 DEF Ops
  <2>4. QED BY <2>1, <2>2, <2>3, WalksPin, PinOn
<1>11. CASE AddrDel
  <2>1. PICK end \in ReadEnds : Runs("addr_del", "", end) /\ Walks(end, PinUndo)
    BY <1>11 DEF AddrDel
  <2>2. at = "addr_del" /\ pinrow' = pinrow /\ \A c \in live' : c[1] # "pin_del"
    BY <1>11, <1>r, <2>1 DEF AddrDel, Ops
  <2>3. QED BY <2>1, <2>2, WalksPin, PinOn
<1>12. CASE PinDel
  <2>1. PICK end \in ReadEnds : Runs("pin_del", "", end) /\ Walks(end, "done")
    BY <1>12 DEF PinDel
  <2>2. at = "pin_del" /\ pinrow = "ours" /\ at' = "done"
    BY <1>12, <2>1 DEF PinDel, PinKept, Walks
  <2>3. \A c \in live' : pinrow' = pinrow
    BY <1>l, <2>1, <2>2, RunsLives
  <2>4. QED BY <1>f, <2>2, <2>3 DEF PinKept
<1>13. CASE LiveActs
  <2>1. PICK c \in live : CanDo(c[1], c[2]) /\ Effect(c[1], c[2])
    BY <1>13 DEF LiveActs
  <2>2. at = "done" /\ at' = "done" /\ live' = {}
    BY <1>13 DEF LiveActs, WhereInv, phase
  <2>3. /\ c[1] = "pin_add" => pinrow \in Free
        /\ c[1] = "pin_del" => pinrow = "ours"
        /\ c[1] \notin {"pin_add", "pin_del"} => pinrow' = pinrow
    BY <2>1 DEF PinKept, CanDo, Effect
  <2>4. QED BY <1>f, <2>2, <2>3 DEF PinKept
<1>14. CASE TunVanishes \/ OtherRoutes
  BY <1>14, PinOn DEF TunVanishes, OtherRoutes, phase, PinKept
<1>15. CASE OtherPins
  <2>1. pinrow \in Free /\ pinrow # "ours"
    BY <1>15 DEF OtherPins, Free
  <2>2. QED BY <1>15, <1>f, <2>1, PinOn DEF OtherPins, phase, PinKept
<1>16. CASE UNCHANGED vars
  BY <1>16, PinOn DEF vars, host, phase, PinKept
<1>17. QED
  BY <1>1, <1>2, <1>3, <1>4, <1>5, <1>6, <1>7, <1>8, <1>9, <1>10, <1>11, <1>12, <1>13, <1>14,
     <1>15, <1>16 DEF Next, Commands, Finished

\* How far the routes recorded are still to be undone.
Walked ==
  IF at = "route_del" THEN i ELSE IF at \in ApplySteps THEN Len(applied.routes) ELSE 0

\* Under `fail` and `skip`, while route(8) can be trusted, what is recorded is
\* this process's, once each, and so is what a killed delete may still take.
Minds == config.tells /\ config.policy # "takeover" /\ tun
LiveMinds == \A c \in live : c[1] # "change" /\ (c[1] = "del" => c[2] \in V4 /\ net[c[2]] = "ours")
RowsKept ==
  Minds =>
    /\ \A j, k \in 1..Walked : applied.routes[j] = applied.routes[k] => j = k
    /\ \A k \in 1..Walked : net[applied.routes[k]] = "ours"
    /\ LiveMinds

LEMMA WalkedIn ==
  TypeOK => /\ Walked \in Nat /\ Walked <= Len(applied.routes) /\ Len(applied.routes) \in Nat
            /\ \A k \in 1..Walked : applied.routes[k] \in V4
<1>1. ASSUME TypeOK PROVE Walked \in Nat /\ Walked <= Len(applied.routes) /\ Len(applied.routes) \in Nat
  <2>1. Len(applied.routes) \in Nat /\ (at = "route_del" => i \in 1..Len(applied.routes))
    BY <1>1, Lengths DEF TypeOK
  <2>2. QED BY <2>1 DEF Walked
<1>2. QED BY <1>1, Lengths

\* No way out of a step has more to undo than the step began with.
LEMMA WalkedOn ==
  ASSUME TypeOK, UNCHANGED applied,
         \/ at \in ApplySteps /\ \E e : Fails(e)
         \/ at \in ApplySteps /\ at' \in ApplySteps
         \/ at = "up" /\ Revert
         \/ at = "route_del" /\ RouteDel
         \/ at' \in {"addr_del", "pin_del", "done"}
         \/ UNCHANGED <<at, i>>
  PROVE  /\ Walked' \in Nat /\ Walked' <= Walked
         /\ at = "route_del" /\ RouteDel => Walked' < i
         /\ at' \in {"addr_del", "pin_del", "done"} => Walked' = 0
<1>w. Walked \in Nat /\ Len(applied.routes) \in Nat /\ (at \in ApplySteps => Walked = Len(applied.routes))
  BY WalkedIn DEF Walked, ApplySteps, FirstSteps
<1>0. at' \in {"addr_del", "pin_del", "done"} => Walked' = 0
  BY DEF Walked, ApplySteps, FirstSteps
<1>1. CASE at \in ApplySteps /\ \E e : Fails(e)
  <2>1. PICK e : Fails(e)
    BY <1>1
  <2>2. \/ at' = "done"
        \/ at' \in UndoSteps /\ (at' = "route_del" => i' = Len(applied.routes))
    BY <2>1, FailsWhere DEF UndoSteps
  <2>3. at # "route_del"
    BY <1>1 DEF ApplySteps, FirstSteps
  <2>4. QED BY <1>0, <1>1, <1>w, <2>2, <2>3 DEF Walked, UndoSteps
<1>2. CASE at \in ApplySteps /\ at' \in ApplySteps
  BY <1>2, <1>w DEF Walked, ApplySteps, FirstSteps
<1>3. CASE at = "up" /\ Revert
  <2>1. i' = Len(applied.routes) /\ at' \in {"route_del", "addr_del", "pin_del", "done"}
    BY <1>3 DEF Revert, UndoFrom, PinUndo
  <2>2. QED BY <1>0, <1>3, <1>w, <2>1 DEF Walked, ApplySteps
<1>4. CASE at = "route_del" /\ RouteDel
  <2>1. i' = i - 1 /\ at' \in {"route_del", "addr_del", "pin_del", "done"} /\ i \in 1..Len(applied.routes)
    BY <1>4 DEF RouteDel, Walks, UndoFrom, PinUndo, TypeOK
  <2>2. Walked' \in {i - 1, 0} /\ Walked = i
    BY <1>0, <1>4, <2>1 DEF Walked
  <2>3. QED BY <1>0, <1>w, <2>1, <2>2
<1>5. CASE at' \in {"addr_del", "pin_del", "done"} /\ ~(at = "route_del" /\ RouteDel)
  BY <1>0, <1>5, <1>w
<1>6. CASE UNCHANGED <<at, i>> /\ ~(at = "route_del" /\ RouteDel)
  BY <1>0, <1>6, <1>w DEF Walked
<1>7. QED BY <1>1, <1>2, <1>3, <1>4, <1>5, <1>6 DEF ApplySteps, FirstSteps

LEMMA RowsOn ==
  ASSUME TypeOK, RowsKept, UNCHANGED <<config, applied>>, tun' => tun, Walked' \in Nat, Walked' <= Walked,
         Minds => \A k \in 1..Walked' : net[applied.routes[k]] = "ours" => net'[applied.routes[k]] = "ours",
         Minds' => LiveMinds'
  PROVE  RowsKept'
<1>1. Walked \in Nat /\ \A k \in 1..Walked' : k \in 1..Walked
  BY WalkedIn
<1>2. Minds' => Minds
  BY DEF Minds
<1>3. SUFFICES ASSUME Minds' PROVE /\ \A j, k \in 1..Walked' : applied.routes[j] = applied.routes[k] => j = k
                                   /\ \A k \in 1..Walked' : net'[applied.routes[k]] = "ours"
  BY DEF RowsKept
<1>4. QED BY <1>1, <1>2, <1>3 DEF RowsKept

\* The split prefixes across a step.
RowsSafe == RowsKept' /\ (Minds => \A q \in V4 : net[q] = "other" => net'[q] = "other")

LEMMA RowsStep == TypeOK /\ WhereInv /\ RowsKept /\ [Next]_vars => RowsSafe
<1> SUFFICES ASSUME TypeOK, WhereInv, RowsKept, [Next]_vars PROVE RowsSafe
  OBVIOUS
<1> USE DEF RowsSafe, Elsewhere
<1>l. at # "done" => live = {}
  BY DEF WhereInv
<1>w. Walked \in Nat /\ Walked <= Len(applied.routes) /\ Len(applied.routes) \in Nat
  BY WalkedIn
<1>r. ASSUME NEW op \in Ops \ {"change", "del"}, NEW p, NEW end, Runs(op, p, end), at # "done", op = "add" => p \in V4
      PROVE  /\ \A q \in V4 : net[q] # "none" => net'[q] = net[q] \/ net'[q] = "ours"
             /\ \A q \in V4 : net[q] = "other" => net'[q] = "other"
             /\ LiveMinds'
  <2>1. op # "add" => net' = net
    BY <1>r, RunsMoves
  <2>2. op = "add" => (\A q \in V4 : q # p => net'[q] = net[q]) /\ (net'[p] # net[p] => net[p] = "none")
    BY <1>r, RunsMoves
  <2>3. \A c \in live' : c = <<op, p>>
    BY <1>l, <1>r, RunsLives
  <2>4. \A c \in live' : c[1] = op
    BY <2>3
  <2>5. LiveMinds'
    BY <1>r, <2>4 DEF LiveMinds
  <2>6. \A q \in V4 : net[q] # "none" => net'[q] = net[q]
    BY <1>r, <2>1, <2>2
  <2>7. QED BY <2>5, <2>6
<1>d. ASSUME NEW end, Reads(end), at # "done" PROVE net' = net /\ LiveMinds'
  BY <1>d, <1>l, ReadsMoves DEF LiveMinds
<1>o. ASSUME UNCHANGED <<config, tun, applied>>, \A q \in V4 : net[q] = "ours" => net'[q] = "ours",
             \A q \in V4 : net[q] = "other" => net'[q] = "other", LiveMinds',
             \/ at \in ApplySteps /\ \E e : Fails(e)
             \/ at \in ApplySteps /\ at' \in ApplySteps
             \/ at = "up" /\ Revert
             \/ at' \in {"addr_del", "pin_del", "done"}
             \/ UNCHANGED <<at, i>>
      PROVE  RowsSafe
  <2>1. Walked' \in Nat /\ Walked' <= Walked
    BY <1>o, WalkedOn
  <2>2. \A k \in 1..Walked' : applied.routes[k] \in V4
    BY <1>w, <2>1, WalkedIn
  <2>3. QED BY <1>o, <2>1, <2>2, RowsOn
<1>1. CASE Refuse \/ Bail
  <2>1. UNCHANGED <<config, tun, applied, net, live>> /\ at' = "done" /\ at # "done"
    BY <1>1 DEF Refuse, Bail, host
  <2>2. LiveMinds'
    BY <1>l, <2>1 DEF LiveMinds
  <2>3. QED BY <1>o, <2>1, <2>2
<1>2. CASE Configure
  <2>1. PICK end \in ReadEnds :
          /\ Runs("ifconfig", "", end)
          /\ \/ Goes(IF config.pin THEN "pin_default" ELSE RoutesFrom(1))
                /\ applied' = [applied EXCEPT !.addr = TRUE]
             \/ Fails(end)
    BY <1>2 DEF Configure
  <2>2. at = "begin" /\ at \in ApplySteps /\ LiveMinds' /\ UNCHANGED <<config, tun>>
        /\ \A q \in V4 : net[q] # "none" => net'[q] = net[q]
    BY <1>2, <1>r, <2>1, RunsMoves DEF Configure, Ops, ApplySteps, FirstSteps
  <2>3. CASE Fails(end)
    BY <1>o, <2>2, <2>3, FailsWhere
  <2>4. CASE Goes(IF config.pin THEN "pin_default" ELSE RoutesFrom(1))
             /\ applied' = [applied EXCEPT !.addr = TRUE]
    <3>1. applied'.routes = applied.routes /\ at' \in ApplySteps
      BY <2>4, RoutesPin DEF Goes, ApplySteps, FirstSteps, TypeOK
    <3>2. Walked' = Walked
      BY <2>2, <3>1 DEF Walked, ApplySteps, FirstSteps
    <3>3. QED BY <2>2, <3>1, <3>2, WalkedIn DEF RowsKept, Minds
  <2>5. QED BY <2>1, <2>3, <2>4
<1>p. ASSUME NEW o, PinStands(o), at \in FirstSteps, net' = net, LiveMinds', UNCHANGED <<config, tun>>
      PROVE  RowsSafe
  <2>1. applied'.routes = applied.routes /\ at' \in ApplySteps /\ at' # "route_del"
    BY <1>p, RoutesPin DEF PinStands, Goes, ApplySteps, FirstSteps, TypeOK
  <2>2. Walked' = Walked
    BY <1>p, <2>1 DEF Walked, ApplySteps, FirstSteps
  <2>3. QED BY <1>p, <2>1, <2>2 DEF RowsKept, Minds
<1>q. ASSUME at \in FirstSteps, net' = net, LiveMinds', UNCHANGED <<config, tun>>,
             \/ \E e : Fails(e)
             \/ \E to \in FirstSteps : Goes(to) /\ UNCHANGED applied
      PROVE  RowsSafe
  BY <1>o, <1>q, FailsWhere DEF Goes, ApplySteps
<1>3. CASE PinDefault
  BY <1>3, <1>d, <1>q DEF PinDefault, FirstSteps
<1>4. CASE PinProbe
  <2>1. PICK end \in ReadEnds, row \in Lookups :
          /\ Reads(end)
          /\ \/ \E e : Fails(e)
             \/ Goes("pin_add") /\ UNCHANGED applied
             \/ PinStands("adopted")
    BY <1>4 DEF PinProbe
  <2>2. QED BY <1>4, <1>d, <1>p, <1>q, <2>1 DEF PinProbe, FirstSteps
<1>5. CASE PinAdd
  <2>1. PICK end \in Ends :
          /\ Runs("pin_add", "", end)
          /\ \/ \E e : Fails(e)
             \/ Goes("pin_inspect") /\ UNCHANGED applied
             \/ PinStands("created")
    BY <1>5 DEF PinAdd
  <2>2. at = "pin_add" /\ net' = net /\ LiveMinds' /\ UNCHANGED <<config, tun>>
    BY <1>5, <1>r, <2>1, RunsMoves DEF PinAdd, Ops
  <2>3. QED BY <1>p, <1>q, <2>1, <2>2 DEF FirstSteps
<1>6. CASE PinInspect
  <2>1. PICK end \in ReadEnds : Reads(end) /\ (PinStands("adopted") \/ \E e : Fails(e))
    BY <1>6 DEF PinInspect
  <2>2. QED BY <1>6, <1>d, <1>p, <1>q, <2>1 DEF PinInspect, FirstSteps
<1>7. CASE RouteAdd
  <2>1. PICK end \in Ends :
          /\ Runs("add", config.routes[i], end)
          /\ IF end = "ok" THEN Record ELSE IF end = "exists" THEN Conflict ELSE Fails(end)
    BY <1>7 DEF RouteAdd
  <2>2. at = "route_add" /\ at \in ApplySteps /\ config.routes[i] \in V4 /\ UNCHANGED <<config, tun>>
    BY <1>7 DEF RouteAdd, ApplySteps
  <2>3. PICK p \in V4 : p = config.routes[i]
    BY <2>2
  <2>4. /\ LiveMinds'
        /\ \A q \in V4 : net[q] = "other" => net'[q] = "other"
        /\ \A q \in V4 : net[q] = "ours" => net'[q] = "ours"
        /\ end = "ok" /\ config.tells => net[p] = "none" /\ net'[p] = "ours"
    BY <1>r, <2>1, <2>2, <2>3, RunsMoves DEF Ops
  <2>5. CASE end = "ok"
    <3>1. applied' = [applied EXCEPT !.routes = Append(applied.routes, p)] /\ at' \in {"route_add", "up"}
      BY <2>1, <2>3, <2>5, RoutesPin DEF Record, NextRoute
    <3>s. applied.routes \in Seq(V4)
      BY DEF TypeOK
    <3>2. applied'.routes = Append(applied.routes, p)
      BY <3>1 DEF TypeOK
    <3>3. /\ Len(applied'.routes) = Len(applied.routes) + 1
          /\ applied'.routes[Len(applied.routes) + 1] = p
          /\ \A k \in 1..Len(applied.routes) : applied'.routes[k] = applied.routes[k]
      BY <3>2, <3>s
    <3>4. Walked = Len(applied.routes) /\ Walked' = Len(applied.routes) + 1
      BY <2>2, <3>1, <3>3 DEF Walked, ApplySteps, FirstSteps
    <3>5. ASSUME Minds PROVE \A k \in 1..Walked : applied.routes[k] \in V4 /\ applied.routes[k] # p /\ net'[applied.routes[k]] = "ours"
      BY <2>4, <2>5, <3>5, WalkedIn DEF RowsKept, Minds
    <3>6. \A k \in 1..Walked' : k \in 1..Walked \/ k = Len(applied.routes) + 1
      BY <1>w, <3>4
    <3>7. Minds' <=> Minds
      BY <2>2 DEF Minds
    <3>8. ASSUME Minds
          PROVE  /\ \A j, k \in 1..Walked' : applied'.routes[j] = applied'.routes[k] => j = k
                 /\ \A k \in 1..Walked' : net'[applied'.routes[k]] = "ours"
      <4>1. \A k \in 1..Walked' : net'[applied'.routes[k]] = "ours"
        BY <2>4, <2>5, <3>3, <3>4, <3>5, <3>6, <3>8 DEF Minds
      <4>2. ASSUME NEW j \in 1..Walked', NEW k \in 1..Walked', applied'.routes[j] = applied'.routes[k]
            PROVE  j = k
        <5>1. CASE j \in 1..Walked /\ k \in 1..Walked
          BY <3>3, <3>4, <3>8, <4>2, <5>1 DEF RowsKept
        <5>2. QED BY <3>3, <3>4, <3>5, <3>6, <3>8, <4>2, <5>1
      <4>3. QED BY <4>1, <4>2
    <3>9. QED BY <2>4, <3>7, <3>8 DEF RowsKept
  <2>6. CASE Fails(end) \/ Fails("failed")
    BY <1>o, <2>2, <2>4, <2>6, FailsWhere
  <2>7. CASE (NextRoute \/ Goes("route_change")) /\ UNCHANGED applied
    <3>1. at' \in ApplySteps
      BY <2>7, RoutesPin DEF NextRoute, Goes, ApplySteps
    <3>2. QED BY <1>o, <2>2, <2>4, <2>7, <3>1
  <2>8. QED BY <2>1, <2>5, <2>6, <2>7 DEF Conflict
<1>8. CASE RouteChange
  <2>1. ~Minds /\ ~Minds'
    BY <1>8 DEF RouteChange, Minds, WhereInv
  <2>2. QED BY <2>1 DEF RowsKept
<1>9. CASE Revert
  <2>1. UNCHANGED <<config, tun, applied, net, live>> /\ at = "up"
    BY <1>9 DEF Revert, host
  <2>2. LiveMinds'
    BY <1>l, <2>1 DEF LiveMinds
  <2>3. QED BY <1>9, <1>o, <2>1, <2>2
<1>10. CASE RouteDel
  <2>1. PICK end \in ReadEnds : Runs("del", applied.routes[i], end) /\ Walks(end, UndoFrom(i - 1))
    BY <1>10 DEF RouteDel
  <2>2. at = "route_del" /\ i \in 1..Len(applied.routes) /\ applied.routes[i] \in V4
    BY <1>10, Lengths DEF RouteDel, TypeOK
  <2>3. PICK p \in V4 : p = applied.routes[i]
    BY <2>2
  <2>4. /\ \A q \in V4 : q # p => net'[q] = net[q]
        /\ \A c \in live' : c = <<"del", p>> /\ net' = net
    BY <1>l, <2>1, <2>2, <2>3, RunsMoves, RunsLives DEF Ops
  <2>5. Walked = i /\ i \in 1..Walked /\ UNCHANGED <<config, tun, applied>>
    BY <2>1, <2>2 DEF Walked, Walks
  <2>6. Walked' \in Nat /\ Walked' < i /\ Walked' <= Walked
    BY <1>10, <2>2, <2>5, WalkedOn
  <2>7. ASSUME Minds PROVE net[p] = "ours" /\ LiveMinds' /\ \A k \in 1..Walked' : applied.routes[k] \in V4 /\ applied.routes[k] # p
    <3>1. net[p] = "ours"
      BY <2>3, <2>5, <2>7 DEF RowsKept
    <3>2. \A c \in live' : c[1] = "del" /\ c[2] = p /\ net'[c[2]] = "ours"
      BY <2>4, <3>1
    <3>3. \A k \in 1..Walked' : k \in 1..Walked /\ k # i
      BY <2>2, <2>5, <2>6
    <3>4. \A k \in 1..Walked' : applied.routes[k] \in V4 /\ applied.routes[k] # p
      BY <2>3, <2>5, <2>7, <3>3, WalkedIn DEF RowsKept
    <3>5. QED BY <3>1, <3>2, <3>4 DEF LiveMinds
  <2>8. Minds' <=> Minds
    BY <2>5 DEF Minds
  <2>9. RowsKept'
    BY <2>4, <2>5, <2>6, <2>7, <2>8, RowsOn
  <2>10. QED BY <2>4, <2>7, <2>9
<1>11. CASE AddrDel
  <2>1. PICK end \in ReadEnds : Runs("addr_del", "", end) /\ Walks(end, PinUndo)
    BY <1>11 DEF AddrDel
  <2>2. at = "addr_del" /\ net' = net /\ LiveMinds'
    BY <1>11, <1>r, <2>1, RunsMoves DEF AddrDel, Ops
  <2>3. at' \in {"pin_del", "done"} /\ UNCHANGED <<config, tun, applied>>
    BY <2>1 DEF Walks, PinUndo
  <2>4. QED BY <1>o, <2>2, <2>3
<1>12. CASE PinDel
  <2>1. PICK end \in ReadEnds : Runs("pin_del", "", end) /\ Walks(end, "done")
    BY <1>12 DEF PinDel
  <2>2. at = "pin_del" /\ net' = net /\ LiveMinds'
    BY <1>12, <1>r, <2>1, RunsMoves DEF PinDel, Ops
  <2>3. at' = "done" /\ UNCHANGED <<config, tun, applied>>
    BY <2>1 DEF Walks
  <2>4. QED BY <1>o, <2>2, <2>3
<1>13. CASE LiveActs
  <2>1. PICK c \in live : CanDo(c[1], c[2]) /\ Effect(c[1], c[2])
    BY <1>13 DEF LiveActs
  <2>2. at = "done" /\ at' = "done" /\ live' = {} /\ UNCHANGED <<config, tun, applied>>
    BY <1>13 DEF LiveActs, WhereInv, phase
  <2>3. Walked' = 0 /\ LiveMinds'
    BY <2>2 DEF Walked, ApplySteps, FirstSteps, LiveMinds
  <2>4. Minds => \A q \in V4 : net[q] = "other" => net'[q] = "other"
    <3>1. ASSUME Minds, NEW q \in V4, net[q] = "other" PROVE net'[q] = "other"
      <4>1. c[1] # "change" /\ (c[1] = "del" => c[2] # q) /\ (c[1] = "add" => c[2] # q)
        BY <2>1, <3>1 DEF RowsKept, LiveMinds, CanDo
      <4>2. net \in [V4 -> {"none", "other", "ours"}]
        BY DEF TypeOK
      <4>3. QED BY <2>1, <3>1, <4>1, <4>2 DEF Effect
    <3>2. QED BY <3>1
  <2>5. QED BY <2>3, <2>4 DEF RowsKept
<1>14. CASE TunVanishes
  <2>1. ~tun' /\ ~Minds'
    BY <1>14 DEF TunVanishes, Minds
  <2>2. \A q \in V4 : net[q] = "other" => net'[q] = "other"
    BY <1>14 DEF TunVanishes
  <2>3. QED BY <2>1, <2>2 DEF RowsKept
<1>e. ASSUME UNCHANGED <<config, tun, applied, at, i, live>>, \A q \in V4 : net[q] # "none" => net'[q] = net[q]
      PROVE  RowsSafe
  <2>1. Walked' = Walked /\ (Minds' <=> Minds)
    BY <1>e DEF Walked, Minds
  <2>2. Minds => LiveMinds'
    BY <1>e DEF RowsKept, LiveMinds
  <2>3. QED BY <1>e, <1>w, <2>1, <2>2, WalkedIn, RowsOn
<1>15. CASE OtherPins \/ OtherRoutes
  <2>1. UNCHANGED <<config, tun, applied, at, i, live>> /\ \A q \in V4 : net[q] # "none" => net'[q] = net[q]
    BY <1>15 DEF OtherPins, OtherRoutes, phase, TypeOK
  <2>2. QED BY <1>e, <2>1
<1>16. CASE UNCHANGED vars
  BY <1>16, <1>e DEF vars, host, phase
<1>17. QED
  BY <1>1, <1>2, <1>3, <1>4, <1>5, <1>6, <1>7, <1>8, <1>9, <1>10, <1>11, <1>12, <1>13, <1>14,
     <1>15, <1>16 DEF Next, Commands, Finished

\* Nobody else's host row of the gateway is ever touched, wherever `route get`
\* hides it and however route(8) exits, a killed delete included; nor, under
\* `fail` and `skip` and where its exit can be trusted, a split route.
THEOREM MacMindsOthers == Spec => OthersUntouched
<1>1. Init => PinKept /\ RowsKept
  <2>1. ASSUME Init PROVE PinKept /\ LiveMinds /\ Walked = 0
    BY <2>1 DEF Init, PinKept, LiveMinds, Walked, ApplySteps, FirstSteps
  <2>2. QED BY <2>1 DEF RowsKept
<1>2. TypeOK /\ WhereInv /\ PinKept /\ RowsKept /\ [Next]_vars => PinKept' /\ RowsKept'
  BY PinStep, RowsStep DEF PinSafe, RowsSafe
<1>3. TypeOK /\ WhereInv /\ PinKept /\ RowsKept /\ [Next]_vars =>
        [/\ pinrow \in Foreign => pinrow' = pinrow
         /\ config.tells /\ config.policy # "takeover" /\ tun =>
              \A p \in V4 : net[p] = "other" => net'[p] = "other"]_vars
  BY PinStep, RowsStep DEF PinSafe, RowsSafe, Minds
<1>4. QED BY <1>1, <1>2, <1>3, MacWhere, PTL DEF Spec, OthersUntouched

-----------------------------------------------------------------------------
(* What a phase leaves behind. *)

\* What is this process's is recorded and still to be undone, unless a command
\* did what it did not say, apply bailed out, or the report tells of it.
Told == unseen \/ bailed \/ errors \/ gated
Held(p) == \E k \in 1..Walked : p = applied.routes[k]
Remains ==
  /\ \A p \in V4 : net[p] = "ours" => Held(p)
  /\ addr => applied.addr /\ at \in ApplySteps \cup {"route_del", "addr_del"}
  /\ pinrow = "ours" => applied.pin = "created" /\ at # "done"
  /\ at = "begin" => applied = [routes |-> <<>>, addr |-> FALSE, pin |-> "none"]
LeakInv == ~Told => Remains

\* A command that does as it says.
LEMMA RunsSeen ==
  ASSUME NEW op \in Ops, NEW p, NEW end, Runs(op, p, end), ~unseen'
  PROVE  /\ ~unseen
         /\ end = "ok" => CanDo(op, p) /\ Effect(op, p)
         /\ end \in {"exists", "failed"} => UNCHANGED <<addr, net, pinrow>>
BY DEF Runs, host

\* The way back begins with all there is to undo.
LEMMA UndoRemains ==
  ASSUME TypeOK, Remains, UNCHANGED <<applied, addr, net, pinrow>>, at \in ApplySteps,
         i' = Len(applied.routes), at' = UndoFrom(i')
  PROVE  Remains'
<1>1. Len(applied.routes) \in Nat /\ Walked = Len(applied.routes)
  BY Lengths DEF Walked, ApplySteps, FirstSteps
<1>2. Walked' = Walked
  BY <1>1 DEF Walked, UndoFrom, PinUndo, ApplySteps, FirstSteps
<1>3. \A p \in V4 : net'[p] = "ours" => Held(p)'
  BY <1>2 DEF Remains, Held
<1>4. addr => at' \in {"route_del", "addr_del"}
  BY DEF UndoFrom, Remains
<1>5. pinrow = "ours" => at' # "done"
  BY DEF UndoFrom, PinUndo, Remains
<1>6. at' # "begin"
  BY DEF UndoFrom, PinUndo
<1>7. QED BY <1>3, <1>4, <1>5, <1>6 DEF Remains

LEMMA FailsRemains ==
  ASSUME TypeOK, Remains, UNCHANGED <<addr, net, pinrow>>, at \in ApplySteps, NEW end, Fails(end), ~gated'
  PROVE  Remains'
<1>1. applied' = applied /\ i' = Len(applied.routes) /\ at' = UndoFrom(i')
  BY DEF Fails
<1>2. QED BY <1>1, UndoRemains

\* Where apply goes on.
LEMMA GoesRemains ==
  ASSUME TypeOK, Remains, at \in ApplySteps, at' \in ApplySteps \ {"begin"},
         applied'.routes = applied.routes, net' = net,
         addr' => applied'.addr, pinrow' = "ours" => applied'.pin = "created"
  PROVE  Remains'
<1>1. Walked' = Walked /\ at' # "done"
  BY DEF Walked, ApplySteps, FirstSteps
<1>2. \A p \in V4 : net'[p] = "ours" => Held(p)'
  BY <1>1 DEF Remains, Held
<1>3. QED BY <1>1, <1>2 DEF Remains

\* A route that is recorded.
LEMMA RecordRemains ==
  ASSUME TypeOK, Remains, at \in ApplySteps, Record, NEW p \in V4, p = config.routes[i],
         \A q \in V4 : q # p => net'[q] = net[q], UNCHANGED <<addr, pinrow>>
  PROVE  Remains'
<1>1. applied' = [applied EXCEPT !.routes = Append(applied.routes, p)] /\ at' \in {"route_add", "up"}
  BY RoutesPin DEF Record, NextRoute
<1>2. applied.routes \in Seq(V4) /\ Len(applied.routes) \in Nat
  BY Lengths DEF TypeOK
<1>3. applied'.routes = Append(applied.routes, p) /\ applied'.addr = applied.addr /\ applied'.pin = applied.pin
  BY <1>1 DEF TypeOK
<1>4. /\ Len(applied'.routes) = Len(applied.routes) + 1
      /\ applied'.routes[Len(applied.routes) + 1] = p
      /\ \A k \in 1..Len(applied.routes) : applied'.routes[k] = applied.routes[k]
  BY <1>2, <1>3
<1>5. Walked = Len(applied.routes) /\ Walked' = Len(applied.routes) + 1
  BY <1>1, <1>4 DEF Walked, ApplySteps, FirstSteps
<1>6. ASSUME NEW q \in V4, net'[q] = "ours" PROVE \E k \in 1..(Len(applied.routes) + 1) : q = applied'.routes[k]
  <2>1. CASE q = p
    <3>1. Len(applied.routes) + 1 \in 1..(Len(applied.routes) + 1)
      BY <1>2
    <3>2. QED BY <1>4, <2>1, <3>1
  <2>2. CASE q # p
    <3>1. net[q] = "ours"
      BY <1>6, <2>2
    <3>2. PICK k \in 1..Len(applied.routes) : q = applied.routes[k]
      BY <1>5, <3>1 DEF Remains, Held
    <3>3. k \in 1..(Len(applied.routes) + 1)
      BY <1>2
    <3>4. QED BY <1>4, <3>2, <3>3
  <2>3. QED BY <2>1, <2>2
<1>7. \A q \in V4 : net'[q] = "ours" => Held(q)'
  BY <1>5, <1>6 DEF Held
<1>8. QED BY <1>1, <1>3, <1>7 DEF Remains, ApplySteps

LEMMA LeakStep == TypeOK /\ WhereInv /\ LeakInv /\ [Next]_vars => LeakInv'
<1> SUFFICES ASSUME TypeOK, WhereInv, LeakInv, [Next]_vars, ~Told' PROVE Remains'
  BY DEF LeakInv
<1> USE DEF Elsewhere
<1>t. ~unseen' /\ ~bailed' /\ ~errors' /\ ~gated'
  BY DEF Told
<1>f. at \in FirstSteps => at \in ApplySteps
  BY DEF ApplySteps
<1>1. CASE Refuse
  <2>1. UNCHANGED <<applied, addr, net, pinrow, unseen, bailed, errors, gated>> /\ at' = "done" /\ at = "begin"
    BY <1>1 DEF Refuse, host, report, ghosts
  <2>2. Remains
    BY <1>t, <2>1 DEF LeakInv, Told
  <2>3. Walked = 0 /\ Walked' = 0
    BY <2>1, <2>2 DEF Remains, Walked, ApplySteps, FirstSteps
  <2>4. \A p \in V4 : net'[p] = "ours" => Held(p)'
    BY <2>1, <2>2, <2>3 DEF Remains, Held
  <2>5. QED BY <2>1, <2>2, <2>4 DEF Remains
<1>2. CASE Configure
  <2>1. PICK end \in ReadEnds :
          /\ Runs("ifconfig", "", end)
          /\ IF end = "ok"
             THEN /\ applied' = [applied EXCEPT !.addr = TRUE]
                  /\ Goes(IF config.pin THEN "pin_default" ELSE RoutesFrom(1))
             ELSE Fails(end)
    BY <1>2 DEF Configure
  <2>2. at = "begin" /\ at \in ApplySteps /\ UNCHANGED <<bailed, errors>>
    BY <1>2, <2>1 DEF Configure, ApplySteps, FirstSteps, Fails, Goes, report
  <2>3. end = "unconfirmed" => gated'
    BY <2>1 DEF Fails
  <2>4. /\ ~unseen /\ ~gated /\ Remains
        /\ end = "ok" => Effect("ifconfig", "")
        /\ end = "failed" => UNCHANGED <<addr, net, pinrow>>
    <3>1. "ifconfig" \in Ops /\ ~gated
      BY <2>2 DEF Ops, WhereInv
    <3>2. QED BY <1>t, <2>1, <2>2, <3>1, RunsSeen DEF LeakInv, Told
  <2>5. CASE end = "ok"
    <3>1. net' = net /\ pinrow' = pinrow
      BY <2>4, <2>5 DEF Effect
    <3>2. applied'.routes = applied.routes /\ applied'.addr /\ applied'.pin = applied.pin
      BY <2>1, <2>5 DEF TypeOK
    <3>3. at' \in ApplySteps \ {"begin"}
      BY <2>1, <2>5, RoutesPin DEF Goes, ApplySteps, FirstSteps
    <3>4. QED BY <2>2, <2>4, <3>1, <3>2, <3>3, GoesRemains DEF Remains
  <2>6. CASE end = "failed"
    BY <1>t, <2>1, <2>2, <2>4, <2>6, FailsRemains
  <2>7. QED BY <1>t, <2>3, <2>5, <2>6 DEF ReadEnds
<1>p. ASSUME NEW o, PinStands(o), at \in FirstSteps, Remains, UNCHANGED <<addr, net>>,
             pinrow' = "ours" => o = "created"
      PROVE  Remains'
  <2>1. applied'.routes = applied.routes /\ applied'.addr = applied.addr /\ applied'.pin = o
        /\ at' \in ApplySteps \ {"begin"}
    BY <1>p, RoutesPin DEF PinStands, Goes, ApplySteps, FirstSteps, TypeOK
  <2>2. QED BY <1>f, <1>p, <2>1, GoesRemains DEF Remains
<1>q. ASSUME at \in FirstSteps, UNCHANGED <<addr, net, pinrow>>, Remains,
             \/ \E e : Fails(e)
             \/ \E to \in FirstSteps \ {"begin"} : Goes(to) /\ UNCHANGED applied
      PROVE  Remains'
  <2>1. CASE \E e : Fails(e)
    BY <1>f, <1>q, <1>t, <2>1, FailsRemains
  <2>2. CASE \E to \in FirstSteps \ {"begin"} : Goes(to) /\ UNCHANGED applied
    BY <1>f, <1>q, <2>2, GoesRemains DEF Goes, ApplySteps, Remains
  <2>3. QED BY <1>q, <2>1, <2>2
<1>d. ASSUME at \in FirstSteps, NEW end, Reads(end), UNCHANGED bailed, UNCHANGED errors
      PROVE  UNCHANGED <<addr, net, pinrow>> /\ Remains
  <2>1. UNCHANGED <<addr, net, pinrow, unseen>>
    BY <1>d DEF Reads
  <2>2. ~gated
    BY <1>d DEF WhereInv, FirstSteps
  <2>3. QED BY <1>d, <1>t, <2>1, <2>2 DEF LeakInv, Told
<1>3. CASE PinDefault
  <2>1. PICK end \in ReadEnds :
          Reads(end) /\ ((\E e : Fails(e)) \/ (Goes("pin_probe") /\ UNCHANGED applied))
    BY <1>3 DEF PinDefault
  <2>2. at \in FirstSteps /\ UNCHANGED <<bailed, errors>>
    BY <1>3, <2>1 DEF PinDefault, FirstSteps, Fails, Goes, report
  <2>3. QED BY <1>d, <1>q, <2>1, <2>2 DEF FirstSteps
<1>4. CASE PinProbe
  <2>1. PICK end \in ReadEnds, row \in Lookups :
          /\ Reads(end)
          /\ \/ \E e : Fails(e)
             \/ Goes("pin_add") /\ UNCHANGED applied
             \/ Probed(row) = "present" /\ PinStands("adopted")
    BY <1>4 DEF PinProbe
  <2>2. at \in FirstSteps /\ UNCHANGED <<bailed, errors>>
    BY <1>4, <2>1 DEF PinProbe, FirstSteps, Fails, Goes, PinStands, report
  <2>3. Probed(row) = "present" => pinrow # "ours"
    BY DEF Probed, Lookups, Usable
  <2>4. QED BY <1>d, <1>p, <1>q, <2>1, <2>2, <2>3 DEF FirstSteps
<1>5. CASE PinAdd
  <2>1. PICK end \in Ends :
          /\ Runs("pin_add", "", end)
          /\ IF end = "ok" THEN PinStands("created")
             ELSE IF end = "exists" THEN Goes("pin_inspect") /\ UNCHANGED applied
             ELSE Fails(end)
    BY <1>5 DEF PinAdd
  <2>2. at \in FirstSteps /\ UNCHANGED <<bailed, errors>>
    BY <1>5, <2>1 DEF PinAdd, FirstSteps, Fails, Goes, PinStands, report
  <2>3. end = "unconfirmed" => gated'
    BY <2>1 DEF Fails
  <2>4. /\ Remains
        /\ end = "ok" => UNCHANGED <<addr, net>>
        /\ end \in {"exists", "failed"} => UNCHANGED <<addr, net, pinrow>>
    <3>1. "pin_add" \in Ops /\ ~gated
      BY <2>2 DEF Ops, WhereInv, FirstSteps
    <3>2. ~unseen /\ (end = "ok" => Effect("pin_add", "")) /\ (end \in {"exists", "failed"} => UNCHANGED <<addr, net, pinrow>>)
      BY <1>t, <2>1, <3>1, RunsSeen
    <3>3. QED BY <1>t, <2>2, <3>1, <3>2 DEF LeakInv, Told, Effect
  <2>5. QED BY <1>p, <1>q, <1>t, <2>1, <2>2, <2>3, <2>4 DEF Ends, FirstSteps
<1>6. CASE PinInspect
  <2>1. PICK end \in ReadEnds :
          Reads(end) /\ ((pinrow = "static" /\ PinStands("adopted")) \/ \E e : Fails(e))
    BY <1>6 DEF PinInspect
  <2>2. at \in FirstSteps /\ UNCHANGED <<bailed, errors>>
    BY <1>6, <2>1 DEF PinInspect, FirstSteps, Fails, Goes, PinStands, report
  <2>3. QED BY <1>d, <1>p, <1>q, <2>1, <2>2
<1>7. CASE Bail
  BY <1>7, <1>t DEF Bail
<1>c. ASSUME NEW op \in {"add", "change"}, NEW end \in Ends, Runs(op, config.routes[i], end), config.routes[i] \in V4,
             at \in {"route_add", "route_change"},
             IF end = "ok" THEN Record ELSE IF end = "exists" THEN Conflict ELSE Fails(end)
      PROVE  Remains'
  <2>1. at \in ApplySteps /\ UNCHANGED <<bailed, errors>> /\ op \in Ops /\ ~gated
    BY <1>c DEF ApplySteps, Record, Conflict, NextRoute, Goes, Fails, report, Ops, WhereInv
  <2>2. ~unseen /\ Remains
    BY <1>c, <1>t, <2>1, RunsSeen DEF LeakInv, Told
  <2>3. CASE end = "ok"
    <3>1. Effect(op, config.routes[i]) /\ Record
      BY <1>c, <1>t, <2>1, <2>3, RunsSeen
    <3>2. PICK p \in V4 : p = config.routes[i]
      BY <1>c
    <3>3. UNCHANGED <<addr, pinrow>> /\ \A q \in V4 : q # p => net'[q] = net[q]
      BY <3>1, <3>2 DEF Effect, TypeOK
    <3>4. QED BY <2>1, <2>2, <3>1, <3>2, <3>3, RecordRemains
  <2>4. CASE end \in {"exists", "failed"}
    <3>1. UNCHANGED <<addr, net, pinrow>>
      BY <1>c, <1>t, <2>1, <2>4, RunsSeen
    <3>2. CASE \E e : Fails(e)
      BY <1>t, <2>1, <2>2, <3>1, <3>2, FailsRemains
    <3>3. CASE (NextRoute \/ Goes("route_change")) /\ UNCHANGED applied
      <4>1. at' \in ApplySteps \ {"begin"}
        BY <3>3, RoutesPin DEF NextRoute, Goes, ApplySteps
      <4>2. QED BY <2>1, <2>2, <3>1, <3>3, <4>1, GoesRemains DEF Remains
    <3>4. QED BY <1>c, <2>4, <3>2, <3>3 DEF Conflict
  <2>5. CASE end = "unconfirmed"
    BY <1>c, <1>t, <2>5 DEF Fails
  <2>6. QED BY <1>c, <2>3, <2>4, <2>5 DEF Ends
<1>8. CASE RouteAdd
  BY <1>8, <1>c DEF RouteAdd
<1>9. CASE RouteChange
  <2>1. PICK end \in ReadEnds : Runs("change", config.routes[i], end) /\ IF end = "ok" THEN Record ELSE Fails(end)
    BY <1>9 DEF RouteChange
  <2>2. end \in Ends /\ end # "exists" /\ at = "route_change" /\ config.routes[i] \in V4
    BY <1>9 DEF RouteChange, ReadEnds, Ends, TypeOK
  <2>3. QED BY <1>c, <2>1, <2>2
<1>10. CASE Revert
  <2>1. UNCHANGED <<applied, addr, net, pinrow, unseen, bailed, errors, gated>> /\ at = "up"
        /\ i' = Len(applied.routes) /\ at' = UndoFrom(i')
    BY <1>10 DEF Revert, host, report, ghosts
  <2>2. Remains /\ at \in ApplySteps
    BY <1>t, <2>1 DEF LeakInv, Told, ApplySteps
  <2>3. QED BY <2>1, <2>2, UndoRemains
<1>w. ASSUME NEW op \in Ops, NEW p, NEW end \in ReadEnds, Runs(op, p, end), NEW to, Walks(end, to), at \in UndoSteps
      PROVE  Remains /\ CanDo(op, p) /\ Effect(op, p) /\ at' = to /\ applied' = applied /\ end = "ok"
  <2>1. end = "ok" /\ ~errors /\ at' = to /\ applied' = applied /\ ~bailed
    BY <1>t, <1>w DEF Walks
  <2>2. ~unseen /\ CanDo(op, p) /\ Effect(op, p)
    BY <1>t, <1>w, <2>1, RunsSeen
  <2>3. ~gated
    BY <1>w DEF WhereInv, UndoSteps
  <2>4. QED BY <2>1, <2>2, <2>3 DEF LeakInv, Told
<1>11. CASE RouteDel
  <2>1. PICK end \in ReadEnds : Runs("del", applied.routes[i], end) /\ Walks(end, UndoFrom(i - 1))
    BY <1>11 DEF RouteDel
  <2>2. at = "route_del" /\ i' = i - 1 /\ i \in 1..Len(applied.routes) /\ applied.routes[i] \in V4
    BY <1>11, Lengths DEF RouteDel, TypeOK
  <2>3. Remains /\ Effect("del", applied.routes[i]) /\ at' = UndoFrom(i - 1) /\ applied' = applied
    BY <1>w, <2>1, <2>2 DEF Ops, UndoSteps
  <2>4. PICK p \in V4 : p = applied.routes[i]
    BY <2>2
  <2>5. /\ UNCHANGED <<addr, pinrow>> /\ net'[p] = "none"
        /\ \A q \in V4 : q # p => net'[q] = net[q]
    BY <2>3, <2>4 DEF Effect, TypeOK
  <2>6. i \in Nat /\ i - 1 \in Nat
    BY <2>2
  <2>7. Walked = i /\ Walked' = i - 1
    BY <2>2, <2>3, <2>6 DEF Walked, UndoFrom, PinUndo, ApplySteps, FirstSteps
  <2>8. ASSUME NEW q \in V4, net'[q] = "ours" PROVE \E k \in 1..(i - 1) : q = applied.routes[k]
    <3>1. q # p /\ net[q] = "ours"
      BY <2>5, <2>8
    <3>2. PICK k \in 1..i : q = applied.routes[k]
      BY <2>3, <2>7, <3>1 DEF Remains, Held
    <3>3. k # i
      BY <2>4, <3>1, <3>2
    <3>4. k \in 1..(i - 1)
      BY <2>6, <3>3
    <3>5. QED BY <3>2, <3>4
  <2>9. \A q \in V4 : net'[q] = "ours" => Held(q)'
    BY <2>3, <2>7, <2>8 DEF Held
  <2>10. addr => at' \in {"route_del", "addr_del"}
    BY <2>3 DEF UndoFrom, Remains
  <2>11. pinrow = "ours" => at' # "done"
    BY <2>3 DEF UndoFrom, PinUndo, Remains
  <2>12. at' # "begin"
    BY <2>3 DEF UndoFrom, PinUndo
  <2>13. QED BY <2>3, <2>5, <2>9, <2>10, <2>11, <2>12 DEF Remains
<1>e. ASSUME at \in {"addr_del", "pin_del"}, at' \in {"pin_del", "done"}, net' = net, Remains
      PROVE  \A q \in V4 : net'[q] = "ours" => Held(q)'
  <2>1. Walked = 0 /\ Walked' = 0
    BY <1>e DEF Walked, ApplySteps, FirstSteps
  <2>2. QED BY <1>e, <2>1 DEF Remains, Held
<1>12. CASE AddrDel
  <2>1. PICK end \in ReadEnds : Runs("addr_del", "", end) /\ Walks(end, PinUndo)
    BY <1>12 DEF AddrDel
  <2>2. at = "addr_del" /\ Remains /\ Effect("addr_del", "") /\ at' = PinUndo /\ applied' = applied
    BY <1>12, <1>w, <2>1 DEF AddrDel, Ops, UndoSteps
  <2>3. ~addr' /\ net' = net /\ pinrow' = pinrow /\ at' \in {"pin_del", "done"}
    BY <2>2 DEF Effect, PinUndo
  <2>4. pinrow = "ours" => at' # "done"
    BY <2>2 DEF PinUndo, Remains
  <2>5. QED BY <1>e, <2>2, <2>3, <2>4 DEF Remains
<1>13. CASE PinDel
  <2>1. PICK end \in ReadEnds : Runs("pin_del", "", end) /\ Walks(end, "done")
    BY <1>13 DEF PinDel
  <2>2. at = "pin_del" /\ Remains /\ Effect("pin_del", "") /\ at' = "done" /\ applied' = applied
    BY <1>13, <1>w, <2>1 DEF PinDel, Ops, UndoSteps
  <2>3. ~addr' /\ net' = net /\ pinrow' = "none"
    BY <2>2 DEF Effect, Remains, ApplySteps, FirstSteps
  <2>4. QED BY <1>e, <2>2, <2>3 DEF Remains
<1>14. CASE LiveActs
  <2>1. gated /\ gated' = gated
    BY <1>14 DEF LiveActs, WhereInv, report
  <2>2. QED BY <1>t, <2>1
<1>s. ASSUME UNCHANGED <<applied, at, i, unseen, bailed, errors, gated>>, addr' => addr,
             pinrow' = "ours" => pinrow = "ours", \A q \in V4 : net'[q] = "ours" => net[q] = "ours"
      PROVE  Remains'
  <2>1. Remains /\ Walked' = Walked
    BY <1>s, <1>t DEF LeakInv, Told, Walked
  <2>2. \A q \in V4 : net'[q] = "ours" => Held(q)'
    BY <1>s, <2>1 DEF Remains, Held
  <2>3. QED BY <1>s, <2>1, <2>2 DEF Remains
<1>15. CASE TunVanishes \/ OtherPins \/ OtherRoutes
  <2>1. UNCHANGED <<applied, at, i, unseen, bailed, errors, gated>> /\ (addr' => addr)
    BY <1>15 DEF TunVanishes, OtherPins, OtherRoutes, phase, report, ghosts
  <2>2. pinrow' = "ours" => pinrow = "ours"
    BY <1>15 DEF TunVanishes, OtherPins, OtherRoutes, Foreign, Usable
  <2>3. \A q \in V4 : net'[q] = "ours" => net[q] = "ours"
    BY <1>15 DEF TunVanishes, OtherPins, OtherRoutes, TypeOK
  <2>4. QED BY <1>s, <2>1, <2>2, <2>3
<1>16. CASE UNCHANGED vars
  BY <1>16, <1>s DEF vars, host, phase, report, ghosts
<1>17. QED
  BY <1>1, <1>2, <1>3, <1>4, <1>5, <1>6, <1>7, <1>8, <1>9, <1>10, <1>11, <1>12, <1>13, <1>14,
     <1>15, <1>16 DEF Next, Commands, Finished

-----------------------------------------------------------------------------
(* RoutePromise. *)

\* Where a step of the code can lead, as the promise sees it.
LEMMA StageStep ==
  ASSUME TypeOK, WhereInv, [Next]_vars
  PROVE  /\ at = "done" => at' = "done" /\ UNCHANGED <<mode, errors, gated, unseen, bailed>>
         /\ at = "up" => at' = "up" \/ (mode' = "teardown" /\ ~errors' /\ ~gated')
         /\ at \in ApplySteps \ {"up"} => mode' \in {"apply", "rollback"}
         /\ at \in UndoSteps => mode' = mode /\ at' \in UndoSteps \cup {"done"}
<1>a. at \in ApplySteps => mode = "apply" /\ ~errors /\ ~gated
  BY DEF WhereInv, ApplySteps, FirstSteps
<1>1. CASE RouteDel \/ AddrDel \/ PinDel
  BY <1>1 DEF RouteDel, AddrDel, PinDel, Walks, UndoFrom, PinUndo, UndoSteps, ApplySteps, FirstSteps
<1>2. CASE Refuse \/ Configure \/ PinDefault \/ PinProbe \/ PinAdd \/ PinInspect \/ Bail \/ RouteAdd \/ RouteChange
  <2>1. at \in ApplySteps \ {"up"} /\ at \notin UndoSteps \cup {"done"}
    BY <1>2 DEF Refuse, Configure, PinDefault, PinProbe, PinAdd, PinInspect, Bail, RouteAdd, RouteChange,
                ApplySteps, FirstSteps, UndoSteps
  <2>2. mode' \in {mode, "rollback"}
    BY <1>2 DEF Refuse, Configure, PinDefault, PinProbe, PinAdd, PinInspect, Bail, RouteAdd, RouteChange,
                Conflict, Record, PinStands, Fails, Goes, NextRoute
  <2>3. QED BY <1>a, <2>1, <2>2
<1>3. CASE Revert
  BY <1>3, <1>a DEF Revert, ApplySteps, UndoSteps, report
<1>4. CASE LiveActs \/ TunVanishes \/ OtherPins \/ OtherRoutes \/ UNCHANGED vars
  <2>1. UNCHANGED <<at, mode, errors, gated, bailed, unseen>>
    BY <1>4 DEF LiveActs, TunVanishes, OtherPins, OtherRoutes, vars, phase, report, ghosts
  <2>2. QED BY <1>a, <2>1
<1>5. QED BY <1>1, <1>2, <1>3, <1>4 DEF Next, Commands, Finished

\* Nothing but a killed command changes what is ours once the phase is over.
LEMMA DoneRests ==
  ASSUME TypeOK, WhereInv, [Next]_vars, at = "done", ~gated
  PROVE  LeftBehind' <=> LeftBehind
<1>1. ~Commands /\ ~Revert /\ ~TunVanishes /\ ~LiveActs
  BY DEF Commands, Refuse, Configure, PinDefault, PinProbe, PinAdd, PinInspect, Bail, RouteAdd, RouteChange,
         RouteDel, AddrDel, PinDel, Revert, TunVanishes, LiveActs, WhereInv
<1>s. ASSUME addr' = addr, pinrow' = "ours" <=> pinrow = "ours", \A q \in V4 : net'[q] = "ours" <=> net[q] = "ours"
      PROVE  LeftBehind' <=> LeftBehind
  BY <1>s DEF LeftBehind
<1>2. CASE OtherPins
  BY <1>2, <1>s DEF OtherPins, Foreign, Usable, Free
<1>3. CASE OtherRoutes
  BY <1>3, <1>s DEF OtherRoutes, TypeOK
<1>4. CASE UNCHANGED vars
  BY <1>4, <1>s DEF vars, host
<1>5. QED BY <1>1, <1>2, <1>3, <1>4 DEF Next, Finished

\* What is left behind is told.
Tells == at = "done" /\ ~gated /\ LeftBehind => unseen \/ bailed \/ errors

LEMMA NothingLeft == LeakInv => Tells
<1> SUFFICES ASSUME LeakInv, at = "done", ~gated, LeftBehind PROVE unseen \/ bailed \/ errors
  BY DEF Tells
<1>1. Walked = 0
  BY DEF Walked, ApplySteps, FirstSteps
<1>2. ASSUME ~Told PROVE ~LeftBehind
  <2>1. Remains
    BY <1>2 DEF LeakInv
  <2>2. \A p \in V4 : ~Held(p)
    BY <1>1 DEF Held
  <2>3. QED BY <2>1, <2>2 DEF Remains, LeftBehind, ApplySteps, FirstSteps
<1>3. QED BY <1>2 DEF Told

LEMMA PromisedStep ==
  ASSUME TypeOK, WhereInv, [Next]_vars, TypeOK', WhereInv', Tells'
  PROVE  [Promise!Next]_(Promise!vars)
<1> DEFINE st == IF at = "done" THEN "down"
                 ELSE IF at = "up" THEN "up"
                 ELSE IF mode = "teardown" THEN "reverting" ELSE "applying"
           vd == IF at # "done" THEN "none"
                 ELSE IF gated THEN "degraded"
                 ELSE IF mode # "teardown" THEN "err"
                 ELSE IF errors THEN "errors" ELSE "clean"
           lk == at = "done" /\ (gated \/ LeftBehind)
           sl == at = "done" /\ (unseen \/ bailed \/ errors)
<1>s. at \in Steps /\ at' \in Steps /\ Steps = ApplySteps \cup UndoSteps \cup {"done"}
  BY DEF TypeOK, Steps, ApplySteps, FirstSteps, UndoSteps
<1>b. gated' \in BOOLEAN /\ errors' \in BOOLEAN /\ unseen' \in BOOLEAN /\ bailed' \in BOOLEAN
  BY DEF TypeOK
<1>1. CASE at = "done"
  <2>1. at' = "done" /\ UNCHANGED <<mode, errors, gated, unseen, bailed>>
    BY <1>1, StageStep
  <2>2. lk' = lk
    BY <1>1, <2>1, DoneRests
  <2>3. st' = st /\ vd' = vd /\ sl' = sl
    BY <1>1, <2>1
  <2>4. QED BY <2>2, <2>3 DEF Promise!vars
<1>2. CASE at # "done" /\ at' # "done"
  <2>1. vd = "none" /\ vd' = "none" /\ ~lk /\ ~lk' /\ ~sl /\ ~sl'
    BY <1>2
  <2>2. \/ st' = st
        \/ st = "applying" /\ st' = "up"
        \/ st = "up" /\ st' = "reverting"
    <3>1. CASE at = "up"
      BY <1>2, <3>1, StageStep
    <3>2. CASE at \in UndoSteps
      <4>1. mode' = mode /\ at' # "up" /\ at # "up"
        BY <1>2, <3>2, StageStep DEF UndoSteps
      <4>2. QED BY <1>2, <4>1
    <3>3. CASE at \in ApplySteps \ {"up"}
      <4>1. mode' # "teardown" /\ mode = "apply"
        BY <1>2, <3>3, StageStep DEF WhereInv
      <4>2. QED BY <1>2, <3>3, <4>1
    <3>4. QED BY <1>2, <1>s, <3>1, <3>2, <3>3
  <2>3. QED BY <2>1, <2>2 DEF Promise!Next, Promise!Applied, Promise!RevertStarts, Promise!vars
<1>3. CASE at # "done" /\ at' = "done"
  <2>1. st' = "down" /\ sl' \in BOOLEAN /\ lk' \in BOOLEAN
    BY <1>3, <1>b DEF LeftBehind
  <2>2. gated' => lk' /\ vd' = "degraded"
    BY <1>3
  <2>3. ~gated' => (lk' => sl')
    BY <1>3 DEF Tells
  <2>4. CASE at \in ApplySteps \ {"up"}
    <3>1. mode' \in {"apply", "rollback"} /\ mode = "apply"
      BY <1>3, <2>4, StageStep DEF WhereInv
    <3>2. st = "applying" /\ vd' \in {"err", "degraded"}
      BY <1>3, <2>4, <3>1
    <3>3. QED BY <1>3, <2>1, <2>2, <2>3, <3>2 DEF Promise!Next, Promise!ApplyFails, Promise!Down
  <2>5. CASE at = "up"
    <3>1. vd' = "clean" /\ st = "up"
      BY <1>3, <2>5, StageStep
    <3>2. QED BY <1>3, <2>1, <2>2, <2>3, <3>1 DEF Promise!Next, Promise!RevertIsEmpty, Promise!Down
  <2>6. CASE at \in UndoSteps /\ mode = "teardown"
    <3>1. mode' = "teardown" /\ st = "reverting"
      BY <1>3, <2>6, StageStep DEF UndoSteps
    <3>2. vd' \in {"clean", "degraded"} \/ (vd' = "errors" /\ sl')
      BY <1>3, <3>1
    <3>3. QED BY <1>3, <2>1, <2>2, <2>3, <3>1, <3>2 DEF Promise!Next, Promise!RevertEnds, Promise!Down
  <2>7. CASE at \in UndoSteps /\ mode # "teardown"
    <3>1. mode' # "teardown" /\ st = "applying"
      BY <1>3, <2>7, StageStep DEF UndoSteps
    <3>2. vd' \in {"err", "degraded"}
      BY <1>3, <3>1
    <3>3. QED BY <1>3, <2>1, <2>2, <2>3, <3>1, <3>2 DEF Promise!Next, Promise!ApplyFails, Promise!Down
  <2>8. QED BY <1>3, <1>s, <2>4, <2>5, <2>6, <2>7
<1>4. QED BY <1>1, <1>2, <1>3

\* The safety part of KeepsPromise on macOS: whatever ifconfig(8), route(8) and
\* netstat(1) do, a phase that ends undegraded has left nothing of its own
\* behind, but where a command hid its failure, apply bailed out without its
\* rollback, or the report names it.
THEOREM MacKeepsPromise == Spec => Promise!Init /\ [][Promise!Next]_(Promise!vars)
<1>1. Init => LeakInv /\ Promise!Init
  <2>1. ASSUME Init PROVE Remains /\ Promise!Init
    <3>1. /\ \A p \in V4 : net[p] # "ours"
          /\ at = "begin" /\ mode = "apply" /\ ~addr /\ pinrow # "ours"
          /\ applied = [routes |-> <<>>, addr |-> FALSE, pin |-> "none"]
      BY <2>1 DEF Init, Free, Foreign, Usable
    <3>2. QED BY <3>1 DEF Remains, Promise!Init
  <2>2. QED BY <2>1 DEF LeakInv
<1>2. TypeOK /\ WhereInv /\ LeakInv /\ [Next]_vars => LeakInv'
  BY LeakStep
<1>3. TypeOK /\ WhereInv /\ [Next]_vars /\ TypeOK' /\ WhereInv' /\ Tells' => [Promise!Next]_(Promise!vars)
  BY PromisedStep
<1>4. QED BY <1>1, <1>2, <1>3, NothingLeft, MacWhere, PTL DEF Spec
=============================================================================
