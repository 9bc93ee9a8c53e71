-------------------------- MODULE RouteApplyProofs --------------------------
(***************************************************************************)
(* Theorems about RouteApply, for every sequence of prefixes, every set of *)
(* tables a host may start with and every conflict policy.                 *)
(*                                                                         *)
(* IndInv strengthens the first of them by where the walk over the routes  *)
(* is (IndexInv), by the gate (GateInv) and, for the policies that leave   *)
(* other routes alone, by what the commands still to come, those left to a *)
(* live child among them, can do to them (KeepInv).  On it rest RoutedInv, *)
(* what an apply has put into the table so far, CheckInv, what the walk of *)
(* an undo has done, and what it has named, so far, and BackInv, where     *)
(* everything is that was there before.                                    *)
(***************************************************************************)
EXTENDS RouteApply, TLAPS

ApplySteps == {"link_up", "addr_add", "pin_show", "pin_replace", "route_add",
               "route_show", "route_replace", "up"}

FirstSteps == {"link_up", "addr_add", "pin_show", "pin_replace"}

WalkSteps == {"route_del", "restore", "addr_del", "pin_undo"}

IndexInv ==
  /\ at \in ApplySteps => mode = "apply"
  /\ at \in WalkSteps => mode # "apply"
  /\ Len(applied.routes) <= Len(Routes)
  /\ at \in FirstSteps => i = 1
  /\ mode = "apply" => i \in 1..(Len(Routes) + 1) /\ Len(applied.routes) < i

GateInv == live # {} => at = "done" /\ gated

\* A command that leaves every entry of a split prefix to whoever has it.
Harmless(c) ==
  \/ c.op \in {"link_up", "addr_add", "addr_del", "show"}
  \/ c.op \in {"add", "del"} /\ c.entry.dev = "tun"
  \/ c.op \in {"add", "del", "replace"} /\ c.entry.dst = Gateway

AtGateway(es) == \A e \in es : e.dst = Gateway

KeepInv ==
  config.policy # "takeover" =>
    /\ at \notin {"route_replace", "restore"}
    /\ \A k \in 1..Len(applied.routes) : applied.routes[k].prior = {}
    /\ at = "pin_replace" => AtGateway(prior)
    /\ AtGateway(applied.pin.prior)
    /\ \A c \in live : Harmless(c)
    /\ OthersUntouched

IndInv == TypeOK /\ IndexInv /\ GateInv /\ KeepInv

CommandSet == [op : Mutating \cup {"show"}, entry : Entries]

-----------------------------------------------------------------------------
(* What a command does to the host. *)

\* The kernel keeps its keys, whatever gp-route asks of it.
LEMMA EffectType ==
  ASSUME HostOK, NEW c \in CommandSet, CanDo(c), Effect(c)
  PROVE  table' \subseteq Entries /\ Keyed(table') /\ addr' \in BOOLEAN
<1>1. addr' \in BOOLEAN
  BY DEF HostOK, Effect
<1>2. c.entry \in Entries
  BY DEF CommandSet
<1>3. CASE c.op \in {"add", "replace"}
  <2>1. table' = (table \ SameKey(c.entry)) \cup {c.entry}
    BY <1>3 DEF Effect
  <2>2. QED BY <1>1, <1>2, <2>1 DEF HostOK, Keyed, SameKey
<1>4. CASE c.op \notin {"add", "replace"}
  <2>1. table' \subseteq table
    BY <1>4 DEF Effect
  <2>2. QED BY <1>1, <2>1 DEF HostOK, Keyed
<1>5. QED BY <1>3, <1>4

\* However a command ends, the host stays well-formed.
LEMMA RunsType ==
  ASSUME HostOK, NEW c \in CommandSet, NEW end, Runs(c, end)
  PROVE  HostOK'
<1>1. CASE end = "ok" /\ CanDo(c) /\ Effect(c) /\ UNCHANGED <<live, torn>>
  BY <1>1, EffectType DEF HostOK, CommandSet
<1>2. CASE UNCHANGED host
  BY <1>2 DEF HostOK, host
<1>3. CASE CanDo(c) /\ Effect(c) /\ torn' = TRUE /\ UNCHANGED live
  BY <1>3, EffectType DEF HostOK, CommandSet
<1>4. CASE live' = {c} /\ UNCHANGED <<table, addr, torn>>
  BY <1>4 DEF HostOK, CommandSet
<1>5. QED BY <1>1, <1>2, <1>3, <1>4 DEF Runs

\* A harmless command moves nobody else's route for a split prefix.
LEMMA HarmlessEffect ==
  ASSUME NEW c, Harmless(c), CanDo(c), Effect(c), NEW p \in Prefixes
  PROVE  Others(p)' = Others(p)
<1>1. p # Gateway
  BY RouteAssumption
<1>2. CASE c.op \in {"link_up", "addr_add", "addr_del", "show"}
  BY <1>2 DEF Effect, Others
<1>3. CASE c.op = "add" /\ c.entry.dev = "tun"
  <2>1. SameKey(c.entry) = {}
    BY <1>3 DEF CanDo
  <2>2. table' = table \cup {c.entry}
    BY <1>3, <2>1 DEF Effect
  <2>3. QED BY <1>3, <2>2 DEF Others
<1>4. CASE c.op = "del" /\ c.entry.dev = "tun"
  <2>1. /\ table' \subseteq table
        /\ \A f \in table : f \notin Matching(c.entry) => f \in table'
    BY <1>4 DEF Effect
  <2>2. QED BY <1>4, <2>1 DEF Others, Matching
<1>5. CASE c.op \in {"add", "replace"} /\ c.entry.dst = Gateway
  <2>1. table' = (table \ SameKey(c.entry)) \cup {c.entry}
    BY <1>5 DEF Effect
  <2>2. QED BY <1>1, <1>5, <2>1 DEF Others, SameKey
<1>6. CASE c.op = "del" /\ c.entry.dst = Gateway
  <2>1. /\ table' \subseteq table
        /\ \A f \in table : f \notin Matching(c.entry) => f \in table'
    BY <1>6 DEF Effect
  <2>2. QED BY <1>1, <1>6, <2>1 DEF Others, Matching
<1>7. QED BY <1>2, <1>3, <1>4, <1>5, <1>6 DEF Harmless

LEMMA HarmlessRuns ==
  ASSUME NEW c, Harmless(c), NEW end, Runs(c, end), NEW p \in Prefixes
  PROVE  Others(p)' = Others(p)
<1>1. CASE CanDo(c) /\ Effect(c)
  BY <1>1, HarmlessEffect
<1>2. CASE UNCHANGED table
  BY <1>2 DEF Others
<1>3. QED BY <1>1, <1>2 DEF Runs, host

-----------------------------------------------------------------------------
(* Which command a step runs. *)

Ends == {"ok", "failed", "unconfirmed"}

LEMMA EntriesUsed ==
  ASSUME RouteAssumption
  PROVE  /\ NoEntry \in Entries /\ Pin \in Entries
         /\ \A p \in Prefixes : Tunnel(p) \in Entries
         /\ \A k \in 1..Len(Routes) : Routes[k] \in Prefixes
BY RouteAssumption DEF NoEntry, Pin, Tunnel, Entries, Devs, Prefixes

LEMMA RecordAt ==
  ASSUME PhaseOK, NEW k \in 1..Len(applied.routes)
  PROVE  /\ applied.routes[k].cidr \in Prefixes
         /\ applied.routes[k].prior \subseteq Entries
<1> DEFINE Rec == [cidr : Prefixes, prior : SUBSET Entries]
<1>1. applied.routes \in Seq(Rec)
  BY DEF PhaseOK, AppliedStates
<1> HIDE DEF Rec
<1>2. applied.routes[k] \in Rec
  BY <1>1
<1>3. QED BY <1>2 DEF Rec

\* Every step of apply and revert issues one command, and goes nowhere else
\* once its end is unconfirmed; the policies that leave other routes alone
\* issue only harmless ones.
Issues(c, end) ==
  /\ Runs(c, end)
  /\ end = "unconfirmed" => at' = "done" /\ gated'
  /\ config.policy # "takeover" /\ KeepInv => Harmless(c)

LEMMA CommandsIssue ==
  ASSUME TypeOK, IndexInv, Commands
  PROVE  /\ at \notin {"done", "up"}
         /\ UNCHANGED <<config, table0>>
         /\ UNCHANGED host \/ \E c \in CommandSet, end \in Ends : Issues(c, end)
<1> USE DEF Ends
<1>0. /\ PhaseOK
      /\ NoEntry \in Entries /\ Pin \in Entries
      /\ \A p \in Prefixes : Tunnel(p) \in Entries
      /\ \A k \in 1..Len(Routes) : Routes[k] \in Prefixes
  BY EntriesUsed, RouteAssumption DEF TypeOK
<1>1. CASE LinkUp
  <2>1. Command("link_up", NoEntry) \in CommandSet /\ Harmless(Command("link_up", NoEntry))
    BY <1>0 DEF Command, CommandSet, Mutating, Harmless
  <2>2. \E end \in Ends : Issues(Command("link_up", NoEntry), end)
    BY <1>1, <2>1 DEF LinkUp, Issues, Fails
  <2>3. QED BY <1>1, <2>1, <2>2 DEF LinkUp, Fails, Goes, ghosts
<1>2. CASE AddrAdd
  <2>1. Command("addr_add", NoEntry) \in CommandSet /\ Harmless(Command("addr_add", NoEntry))
    BY <1>0 DEF Command, CommandSet, Mutating, Harmless
  <2>2. \E end \in Ends : Issues(Command("addr_add", NoEntry), end)
    BY <1>2, <2>1 DEF AddrAdd, Issues, Fails
  <2>3. QED BY <1>2, <2>1, <2>2 DEF AddrAdd, Fails, Goes, ghosts
<1>3. CASE PinShow
  <2>1. Command("show", NoEntry) \in CommandSet /\ Harmless(Command("show", NoEntry))
    BY <1>0 DEF Command, CommandSet, Harmless
  <2>2. \E end \in Ends : Issues(Command("show", NoEntry), end)
    BY <1>3, <2>1 DEF PinShow, Issues, Fails
  <2>3. QED BY <1>3, <2>1, <2>2 DEF PinShow, Fails, Goes, ghosts
<1>4. CASE PinReplace
  <2>1. Command("replace", Pin) \in CommandSet /\ Harmless(Command("replace", Pin))
    BY <1>0 DEF Command, CommandSet, Mutating, Harmless, Pin
  <2>2. \E end \in Ends : Issues(Command("replace", Pin), end)
    BY <1>4, <2>1 DEF PinReplace, Issues, Fails
  <2>3. QED BY <1>4, <2>1, <2>2 DEF PinReplace, Fails, Goes, ghosts
<1>5. CASE RouteAdd
  <2> DEFINE c == Command("add", Tunnel(Routes[i]))
  <2>0. i \in 1..Len(Routes)
    BY <1>0, <1>5 DEF RouteAdd, IndexInv, ApplySteps, PhaseOK
  <2>1. c \in CommandSet /\ Harmless(c)
    BY <1>0, <2>0 DEF Command, CommandSet, Mutating, Harmless, Tunnel
  <2>2. UNCHANGED host \/ \E end \in Ends : Issues(c, end)
    BY <1>5, <2>1 DEF RouteAdd, Issues, Fails
  <2>3. QED BY <1>5, <2>1, <2>2 DEF RouteAdd, Record, NextRoute, Fails, Goes, ghosts
<1>6. CASE RouteShow
  <2>1. Command("show", NoEntry) \in CommandSet /\ Harmless(Command("show", NoEntry))
    BY <1>0 DEF Command, CommandSet, Harmless
  <2>2. \E end \in Ends : Issues(Command("show", NoEntry), end)
    BY <1>6, <2>1 DEF RouteShow, Issues, Fails
  <2>3. QED BY <1>6, <2>1, <2>2 DEF RouteShow, Resolve, NextRoute, Fails, Goes, ghosts
<1>7. CASE RouteReplace
  <2> DEFINE c == Command("replace", Tunnel(Routes[i]))
  <2>0. i \in 1..Len(Routes)
    BY <1>0, <1>7 DEF RouteReplace, IndexInv, ApplySteps, PhaseOK
  <2>1. c \in CommandSet /\ ~(config.policy # "takeover" /\ KeepInv)
    BY <1>0, <1>7, <2>0 DEF Command, CommandSet, Mutating, RouteReplace, KeepInv
  <2>2. \E end \in Ends : Issues(c, end)
    BY <1>7, <2>1 DEF RouteReplace, Issues, Fails
  <2>3. QED BY <1>7, <2>1, <2>2 DEF RouteReplace, Record, NextRoute, Fails, Goes
<1>8. CASE RouteDel
  <2> DEFINE c == Command("del", Tunnel(applied.routes[i].cidr))
  <2>0. applied.routes[i].cidr \in Prefixes
    BY <1>0, <1>8, RecordAt DEF RouteDel, IndexInv, PhaseOK
  <2>1. c \in CommandSet /\ Harmless(c)
    BY <1>0, <2>0 DEF Command, CommandSet, Mutating, Harmless, Tunnel
  <2>2. \E end \in Ends : Issues(c, end)
    BY <1>8, <2>1 DEF RouteDel, Issues, Gate, Walks
  <2>3. QED BY <1>8, <2>1, <2>2 DEF RouteDel, Gate, Walks
<1>9. CASE Restore
  <2>1. PICK end \in Ends, e \in applied.routes[i].prior :
          /\ Runs(Command("replace", e), end)
          /\ end = "unconfirmed" => at' = "done" /\ gated'
          /\ UNCHANGED <<config, table0>>
    BY <1>9 DEF Restore, Gate, Walks
  <2>2. e \in Entries
    BY <1>0, <1>9, RecordAt DEF Restore, IndexInv, PhaseOK
  <2>3. Command("replace", e) \in CommandSet
    BY <2>2 DEF Command, CommandSet, Mutating
  <2>4. at = "restore" /\ ~(config.policy # "takeover" /\ KeepInv)
    BY <1>9 DEF Restore, KeepInv
  <2>5. QED BY <2>1, <2>3, <2>4 DEF Issues
<1>10. CASE AddrDel
  <2>1. Command("addr_del", NoEntry) \in CommandSet /\ Harmless(Command("addr_del", NoEntry))
    BY <1>0 DEF Command, CommandSet, Mutating, Harmless
  <2>2. \E end \in Ends : Issues(Command("addr_del", NoEntry), end)
    BY <1>10, <2>1 DEF AddrDel, Issues, Gate, Walks
  <2>3. QED BY <1>10, <2>1, <2>2 DEF AddrDel, Gate, Walks
<1>11. CASE PinUndo
  <2>1. PICK end \in Ends, c \in {Command("del", Pin)} \cup
                                 {Command("replace", e) : e \in applied.pin.prior} :
          /\ Runs(c, end)
          /\ end = "unconfirmed" => at' = "done" /\ gated'
          /\ UNCHANGED <<config, table0>>
    BY <1>11 DEF PinUndo, Gate, Walks
  <2>2. applied.pin.prior \subseteq Entries
    BY <1>0 DEF PhaseOK, AppliedStates
  <2>3. c \in CommandSet
    BY <1>0, <2>1, <2>2 DEF Command, CommandSet, Mutating
  <2>4. config.policy # "takeover" /\ KeepInv => Harmless(c)
    BY <2>1 DEF Command, Harmless, KeepInv, AtGateway, Pin
  <2>5. at = "pin_undo"
    BY <1>11 DEF PinUndo
  <2>6. QED BY <2>1, <2>3, <2>4, <2>5 DEF Issues
<1>12. QED
  BY <1>1, <1>2, <1>3, <1>4, <1>5, <1>6, <1>7, <1>8, <1>9, <1>10, <1>11 DEF Commands

-----------------------------------------------------------------------------
(* Where the code is, and what it has recorded. *)

ControlOK == PhaseOK /\ IndexInv

\* What keeps KeepInv's account of the recorded state.
KeepLocal ==
  /\ at \notin {"route_replace", "restore"}
  /\ \A k \in 1..Len(applied.routes) : applied.routes[k].prior = {}
  /\ at = "pin_replace" => AtGateway(prior)
  /\ AtGateway(applied.pin.prior)

CodeInv == ControlOK /\ (config.policy # "takeover" => KeepLocal)

LEMMA UndoingWalks ==
  ASSUME ControlOK, NEW k \in 0..Len(applied.routes), Undoing(k), UNCHANGED applied
  PROVE  /\ at' \in {"route_del", "addr_del", "pin_undo", "done"}
         /\ i' = k
         /\ at' = "route_del" => i' \in 1..Len(applied'.routes)
         /\ i' \in 0..(Len(Routes) + 1)
<1>1. Len(applied.routes) \in Nat /\ Len(Routes) \in Nat
  BY RouteAssumption DEF ControlOK, PhaseOK, AppliedStates
<1>2. QED BY <1>1 DEF Undoing, UndoFrom, ControlOK, IndexInv

\* rollback_and_fail leaves the phase well-formed.
LEMMA FailsControl ==
  ASSUME CodeInv, NEW end, Fails(end), UNCHANGED ghosts
  PROVE  CodeInv'
<1>0. Len(applied.routes) \in Nat /\ Len(Routes) \in Nat
  BY RouteAssumption DEF CodeInv, ControlOK, PhaseOK, AppliedStates
<1>1. CASE end = "failed"
  <2>1. /\ at' \in {"route_del", "addr_del", "pin_undo", "done"}
        /\ i' = Len(applied.routes)
        /\ at' = "route_del" => i' \in 1..Len(applied'.routes)
        /\ i' \in 0..(Len(Routes) + 1)
    BY <1>0, <1>1, UndoingWalks DEF Fails, CodeInv
  <2>2. mode' = "rollback" /\ gated' \in BOOLEAN
    BY <1>1 DEF Fails, CodeInv, ControlOK, PhaseOK
  <2>3. QED
    BY <1>1, <2>1, <2>2 DEF Fails, CodeInv, ControlOK, PhaseOK, IndexInv, ApplySteps, FirstSteps,
                            Steps, KeepLocal, ghosts
<1>2. CASE end = "unconfirmed"
  BY <1>2 DEF Fails, CodeInv, ControlOK, PhaseOK, IndexInv, ApplySteps, FirstSteps, WalkSteps, Steps,
              KeepLocal, ghosts
<1>3. QED BY <1>1, <1>2 DEF Fails

\* So does going on to another step before the first route, and to the next.
LEMMA GoesControl ==
  ASSUME CodeInv, NEW to \in ApplySteps, Goes(to), UNCHANGED ghosts, mode = "apply",
         to \in FirstSteps => i = 1,
         to \in {"route_add", "route_show", "route_replace"} => i <= Len(Routes),
         prior' \subseteq Entries, applied' \in AppliedStates,
         applied'.routes = applied.routes,
         config.policy # "takeover" =>
           /\ to # "route_replace"
           /\ to = "pin_replace" => AtGateway(prior')
           /\ AtGateway(applied'.pin.prior)
  PROVE  CodeInv'
BY DEF Goes, report, ghosts, CodeInv, ControlOK, PhaseOK, IndexInv, ApplySteps, FirstSteps, WalkSteps, Steps,
       KeepLocal

LEMMA NextRouteControl ==
  ASSUME CodeInv, NextRoute, UNCHANGED <<applied, table0>>, quiet' \in BOOLEAN,
         at \in {"route_add", "route_show", "route_replace"}
  PROVE  CodeInv'
<1>0. Len(applied.routes) \in Nat /\ Len(Routes) \in Nat /\ i \in Nat
  BY RouteAssumption DEF CodeInv, ControlOK, PhaseOK, AppliedStates
<1>1. /\ mode = "apply" /\ i \in 1..Len(Routes)
      /\ Len(applied.routes) < i
  BY <1>0 DEF CodeInv, ControlOK, PhaseOK, IndexInv, ApplySteps, FirstSteps
<1>2. /\ at' \in {"route_add", "up"} /\ i' = i + 1 /\ mode' = "apply"
      /\ at' = "route_add" => i' <= Len(Routes)
  BY <1>0, <1>1 DEF NextRoute, RoutesFrom
<1>3. QED
  BY <1>0, <1>1, <1>2 DEF NextRoute, report, CodeInv, ControlOK, PhaseOK, IndexInv,
                          ApplySteps, FirstSteps, WalkSteps, Steps, KeepLocal

LEMMA RecordControl ==
  ASSUME CodeInv, NEW displaced \in SUBSET Entries, Record(displaced),
         UNCHANGED table0, quiet' \in BOOLEAN,
         at \in {"route_add", "route_show", "route_replace"},
         config.policy # "takeover" => displaced = {}
  PROVE  CodeInv'
<1> DEFINE r == [cidr |-> Routes[i], prior |-> displaced]
           Rec == [cidr : Prefixes, prior : SUBSET Entries]
<1>0. /\ Len(applied.routes) \in Nat /\ Len(Routes) \in Nat /\ i \in Nat
      /\ applied.routes \in Seq(Rec)
  BY RouteAssumption DEF CodeInv, ControlOK, PhaseOK, AppliedStates
<1>1. /\ mode = "apply" /\ i \in 1..Len(Routes)
      /\ Len(applied.routes) < i
  BY <1>0 DEF CodeInv, ControlOK, PhaseOK, IndexInv, ApplySteps, FirstSteps
<1>2. r \in Rec
  BY <1>1, EntriesUsed, RouteAssumption
<1>3. /\ applied' = [applied EXCEPT !.routes = Append(@, r)]
      /\ applied'.routes = Append(applied.routes, r)
      /\ applied'.pin = applied.pin
  BY DEF Record, CodeInv, ControlOK, PhaseOK, AppliedStates
<1> HIDE DEF Rec, r
<1>4. /\ Append(applied.routes, r) \in Seq(Rec)
      /\ Len(Append(applied.routes, r)) = Len(applied.routes) + 1
      /\ \A k \in 1..(Len(applied.routes) + 1) :
           Append(applied.routes, r)[k] =
             IF k = Len(applied.routes) + 1 THEN r ELSE applied.routes[k]
  BY <1>0, <1>2
<1>5. applied' \in AppliedStates
  BY <1>3, <1>4 DEF Rec, CodeInv, ControlOK, PhaseOK, AppliedStates
<1>6. /\ at' \in {"route_add", "up"} /\ i' = i + 1 /\ mode' = "apply"
      /\ at' = "route_add" => i' <= Len(Routes)
      /\ Len(applied'.routes) < i' /\ Len(applied'.routes) <= Len(Routes)
      /\ i' \in 1..(Len(Routes) + 1)
  BY <1>0, <1>1, <1>3, <1>4 DEF Record, NextRoute, RoutesFrom
<1>7. ControlOK'
  BY <1>5, <1>6 DEF Record, NextRoute, report, CodeInv, ControlOK, PhaseOK, IndexInv,
                    ApplySteps, FirstSteps, WalkSteps, Steps
<1>8. ASSUME config.policy # "takeover" PROVE KeepLocal'
  <2>1. \A k \in 1..Len(applied.routes) : applied.routes[k].prior = {}
    BY <1>8 DEF CodeInv, KeepLocal
  <2>2. r.prior = {}
    BY <1>8 DEF r
  <2>3. \A k \in 1..(Len(applied.routes) + 1) : Append(applied.routes, r)[k].prior = {}
    BY <1>0, <1>4, <2>1, <2>2
  <2>4. QED BY <1>3, <1>4, <1>6, <1>8, <2>3 DEF CodeInv, KeepLocal
<1>9. UNCHANGED config
  BY DEF Record, NextRoute
<1>10. QED BY <1>7, <1>8, <1>9 DEF CodeInv

LEMMA ItemsTyped ==
  ASSUME PhaseOK
  PROVE  /\ AddrItems \subseteq Items /\ PinItems \subseteq Items
         /\ \A k \in 1..Len(applied.routes) :
              /\ RouteItems(k) \subseteq Items
              /\ RoutesBelow(k) \subseteq Items
              /\ <<"del", applied.routes[k].cidr>> \in Items
              /\ <<"restore", applied.routes[k].cidr>> \in Items
<1>1. AddrItems \subseteq Items /\ PinItems \subseteq Items
  BY DEF AddrItems, PinItems, Items
<1>2. ASSUME NEW k \in 1..Len(applied.routes)
      PROVE  /\ RouteItems(k) \subseteq Items
             /\ <<"del", applied.routes[k].cidr>> \in Items
             /\ <<"restore", applied.routes[k].cidr>> \in Items
  BY <1>2, RecordAt DEF RouteItems, Items
<1>3. ASSUME NEW k \in 1..Len(applied.routes) PROVE RoutesBelow(k) \subseteq Items
  <2>1. Len(applied.routes) \in Nat
    BY DEF PhaseOK, AppliedStates
  <2>2. ASSUME NEW m \in 1..(k - 1) PROVE RouteItems(m) \subseteq Items
    <3>1. m \in 1..Len(applied.routes)
      BY <2>1
    <3>2. QED BY <1>2, <3>1
  <2>3. QED BY <2>2 DEF RoutesBelow
<1>4. QED BY <1>1, <1>2, <1>3

LEMMA GateControl ==
  ASSUME CodeInv, NEW end, NEW item \in Items, NEW unissued \in SUBSET Items,
         Gate(end, item, unissued), UNCHANGED table0, at \in WalkSteps
  PROVE  CodeInv'
BY DEF Gate, CodeInv, ControlOK, PhaseOK, IndexInv, ApplySteps, FirstSteps, WalkSteps, Steps,
       KeepLocal

LEMMA WalksControl ==
  ASSUME CodeInv, NEW end, NEW item \in Items, Walks(end, item), quiet' \in BOOLEAN,
         UNCHANGED table0, at \in WalkSteps,
         i' \in 0..(Len(Routes) + 1), at' \in WalkSteps \cup {"done"},
         at' \in {"route_del", "restore"} => i' \in 1..Len(applied.routes),
         config.policy # "takeover" => at' # "restore"
  PROVE  CodeInv'
BY DEF Walks, CodeInv, ControlOK, PhaseOK, IndexInv, ApplySteps, FirstSteps, WalkSteps, Steps,
       KeepLocal

-----------------------------------------------------------------------------
(* The invariant. *)

LEMMA CommandControl ==
  ASSUME CodeInv, HostOK, Commands
  PROVE  CodeInv'
<1>0. /\ PhaseOK /\ IndexInv
      /\ Pin \in Entries
      /\ \A p \in Prefixes : Tunnel(p) \in Entries
      /\ Len(Routes) \in Nat /\ Len(applied.routes) \in Nat /\ i \in Nat
  BY EntriesUsed, RouteAssumption DEF CodeInv, ControlOK, PhaseOK, AppliedStates
<1>1. /\ applied \in AppliedStates
      /\ prior \subseteq Entries
      /\ table \subseteq Entries
      /\ quiet \in BOOLEAN
  BY <1>0 DEF PhaseOK, HostOK
<1>2. CASE LinkUp
  <2>1. AfterLink \in {"addr_add", "pin_show", "route_add", "up"}
        /\ (AfterLink = "route_add" => 1 <= Len(Routes))
    BY DEF AfterLink, AfterAddr, RoutesFrom
  <2>2. mode = "apply" /\ i = 1
    BY <1>0, <1>2 DEF LinkUp, IndexInv, ApplySteps, FirstSteps
  <2>3. CASE Goes(AfterLink) /\ UNCHANGED <<prior, applied, ghosts>>
    BY <1>1, <2>1, <2>2, <2>3, GoesControl DEF CodeInv, KeepLocal, ApplySteps, FirstSteps
  <2>4. QED BY <1>2, <2>3, FailsControl DEF LinkUp
<1>3. CASE AddrAdd
  <2>1. AfterAddr \in {"pin_show", "route_add", "up"}
        /\ (AfterAddr = "route_add" => 1 <= Len(Routes))
    BY DEF AfterAddr, RoutesFrom
  <2>2. mode = "apply" /\ i = 1
    BY <1>0, <1>3 DEF AddrAdd, IndexInv, ApplySteps, FirstSteps
  <2>3. CASE /\ applied' = [applied EXCEPT !.addr = TRUE]
             /\ Goes(AfterAddr) /\ UNCHANGED <<prior, ghosts>>
    <3>1. /\ applied' \in AppliedStates
          /\ applied'.routes = applied.routes /\ applied'.pin = applied.pin
      BY <1>1, <2>3 DEF AppliedStates
    <3>2. QED
      BY <1>1, <2>1, <2>2, <2>3, <3>1, GoesControl DEF CodeInv, KeepLocal, ApplySteps, FirstSteps
  <2>4. QED BY <1>3, <2>3, FailsControl DEF AddrAdd
<1>4. CASE PinShow
  <2>1. mode = "apply" /\ i = 1
    BY <1>0, <1>4 DEF PinShow, IndexInv, ApplySteps, FirstSteps
  <2>2. CASE /\ prior' = Restorable(First({e \in table : e.dst = Gateway}))
             /\ Goes("pin_replace") /\ UNCHANGED <<applied, ghosts>>
    <3>1. prior' \subseteq Entries /\ AtGateway(prior')
      BY <1>1, <2>2 DEF Restorable, First, AtGateway
    <3>2. QED
      BY <1>1, <2>1, <2>2, <3>1, GoesControl DEF CodeInv, KeepLocal, ApplySteps, FirstSteps
  <2>3. QED BY <1>4, <2>2, FailsControl DEF PinShow
<1>5. CASE PinReplace
  <2>1. mode = "apply" /\ i = 1
    BY <1>0, <1>5 DEF PinReplace, IndexInv, ApplySteps, FirstSteps
  <2>2. CASE /\ applied' = [applied EXCEPT !.pin = [set |-> TRUE, prior |-> prior]]
             /\ prior' = {} /\ Goes(RoutesFrom(1)) /\ UNCHANGED ghosts
    <3>1. /\ applied' \in AppliedStates
          /\ applied'.routes = applied.routes /\ applied'.pin.prior = prior
      BY <1>1, <2>2 DEF AppliedStates
    <3>2. /\ RoutesFrom(1) \in {"route_add", "up"}
          /\ RoutesFrom(1) = "route_add" => 1 <= Len(Routes)
      BY DEF RoutesFrom
    <3>3. config.policy # "takeover" => AtGateway(prior)
      BY <1>5 DEF PinReplace, CodeInv, KeepLocal
    <3>4. QED
      BY <1>1, <2>1, <2>2, <3>1, <3>2, <3>3, GoesControl DEF ApplySteps, FirstSteps
  <2>3. QED BY <1>5, <2>2, FailsControl DEF PinReplace
<1>6. CASE RouteAdd
  <2>1. mode = "apply" /\ i <= Len(Routes)
    BY <1>0, <1>6 DEF RouteAdd, IndexInv, ApplySteps, PhaseOK
  <2>2. CASE Goes("route_show") /\ UNCHANGED <<prior, applied, ghosts>>
    BY <1>1, <2>1, <2>2, GoesControl DEF CodeInv, KeepLocal, ApplySteps, FirstSteps
  <2>3. CASE Record({}) /\ UNCHANGED ghosts
    BY <1>1, <1>6, <2>3, RecordControl DEF ghosts, RouteAdd
  <2>4. QED BY <1>6, <2>2, <2>3, FailsControl DEF RouteAdd
<1>7. CASE RouteShow
  <2>1. mode = "apply" /\ i <= Len(Routes)
    BY <1>0, <1>7 DEF RouteShow, IndexInv, ApplySteps, PhaseOK
  <2>2. ASSUME NEW seen \in SUBSET Entries, Resolve(seen), UNCHANGED ghosts
        PROVE  CodeInv'
    <3>1. CASE NextRoute /\ UNCHANGED applied
      BY <1>1, <1>7, <2>2, <3>1, NextRouteControl DEF ghosts, RouteShow
    <3>2. CASE config.policy = "takeover" /\ prior' = seen /\ Goes("route_replace")
               /\ UNCHANGED applied
      BY <1>1, <2>1, <2>2, <3>2, GoesControl DEF ApplySteps, FirstSteps
    <3>3. QED BY <2>2, <3>1, <3>2, FailsControl DEF Resolve
  <2>3. Restorable(Others(Routes[i])) \in SUBSET Entries /\ {} \in SUBSET Entries
    BY <1>1 DEF Restorable, Others
  <2>4. QED BY <1>7, <2>2, <2>3, FailsControl DEF RouteShow
<1>8. CASE RouteReplace
  <2>1. config.policy = "takeover"
    BY <1>8 DEF RouteReplace, CodeInv, KeepLocal
  <2>2. CASE Record(prior) /\ quiet' \in BOOLEAN /\ UNCHANGED table0
    BY <1>1, <1>8, <2>1, <2>2, RecordControl DEF RouteReplace
  <2>3. QED BY <1>1, <1>8, <2>2, FailsControl DEF RouteReplace, ghosts
<1>9. CASE RouteDel
  <2>1. i \in 1..Len(applied.routes) /\ at \in WalkSteps
    BY <1>0, <1>9 DEF RouteDel, IndexInv, WalkSteps, PhaseOK
  <2> DEFINE item == <<"del", applied.routes[i].cidr>>
             rest == RouteItems(i) \cup RoutesBelow(i) \cup AddrItems \cup PinItems
  <2>2. item \in Items /\ rest \in SUBSET Items
    BY <1>0, <2>1, ItemsTyped
  <2> HIDE DEF item, rest
  <2>3. PICK end : /\ UNCHANGED table0
                   /\ \/ Gate(end, item, rest)
                      \/ Walks(end, item) /\ Undoing(i - 1) /\ UNCHANGED quiet
                      \/ /\ applied.routes[i].prior # {}
                         /\ Walks(IF end = "failed" THEN "ok" ELSE end, item)
                         /\ at' = "restore" /\ UNCHANGED i
                         /\ quiet' \in BOOLEAN
    BY <1>1, <1>9 DEF RouteDel, item, rest
  <2>4. CASE Gate(end, item, rest)
    BY <2>1, <2>2, <2>3, <2>4, GateControl
  <2>5. CASE Walks(end, item) /\ Undoing(i - 1) /\ UNCHANGED quiet
    <3>1. i - 1 \in 0..Len(applied.routes)
      BY <1>0, <2>1
    <3>2. /\ at' \in {"route_del", "addr_del", "pin_undo", "done"}
          /\ at' = "route_del" => i' \in 1..Len(applied'.routes)
          /\ i' \in 0..(Len(Routes) + 1)
      BY <2>5, <3>1, UndoingWalks DEF Walks, CodeInv
    <3>3. QED BY <1>1, <2>1, <2>2, <2>3, <2>5, <3>2, WalksControl DEF Walks, WalkSteps
  <2>6. CASE /\ applied.routes[i].prior # {}
             /\ Walks(IF end = "failed" THEN "ok" ELSE end, item)
             /\ at' = "restore" /\ UNCHANGED i /\ quiet' \in BOOLEAN
    <3>1. config.policy = "takeover"
      BY <2>1, <2>6 DEF CodeInv, KeepLocal
    <3>2. i \in 0..(Len(Routes) + 1)
      BY <1>0 DEF PhaseOK
    <3>3. QED BY <2>1, <2>2, <2>3, <2>6, <3>1, <3>2, WalksControl DEF WalkSteps
  <2>7. QED BY <2>3, <2>4, <2>5, <2>6
<1>10. CASE Restore
  <2>1. i \in 1..Len(applied.routes) /\ at \in WalkSteps
    BY <1>0, <1>10 DEF Restore, IndexInv, WalkSteps, PhaseOK
  <2> DEFINE item == <<"restore", applied.routes[i].cidr>>
             rest == RoutesBelow(i) \cup AddrItems \cup PinItems
  <2>2. item \in Items /\ rest \in SUBSET Items
    BY <1>0, <2>1, ItemsTyped
  <2> HIDE DEF item, rest
  <2>3. PICK end : /\ UNCHANGED table0
                   /\ \/ Gate(end, item, rest)
                      \/ Walks(end, item) /\ Undoing(i - 1) /\ UNCHANGED quiet
    BY <1>10 DEF Restore, item, rest
  <2>4. CASE Gate(end, item, rest)
    BY <2>1, <2>2, <2>3, <2>4, GateControl
  <2>5. CASE Walks(end, item) /\ Undoing(i - 1) /\ UNCHANGED quiet
    <3>1. i - 1 \in 0..Len(applied.routes)
      BY <1>0, <2>1
    <3>2. /\ at' \in {"route_del", "addr_del", "pin_undo", "done"}
          /\ at' = "route_del" => i' \in 1..Len(applied'.routes)
          /\ i' \in 0..(Len(Routes) + 1)
      BY <2>5, <3>1, UndoingWalks DEF Walks, CodeInv
    <3>3. QED BY <1>1, <2>1, <2>2, <2>3, <2>5, <3>2, WalksControl DEF Walks, WalkSteps
  <2>6. QED BY <2>3, <2>4, <2>5
<1>11. CASE AddrDel
  <2>1. at \in WalkSteps /\ i \in 0..(Len(Routes) + 1)
    BY <1>0, <1>11 DEF AddrDel, PhaseOK, WalkSteps
  <2>2. <<"addr_del">> \in Items /\ PinItems \in SUBSET Items
    BY <1>0, ItemsTyped DEF Items
  <2>3. PICK end : /\ UNCHANGED table0
                   /\ \/ Gate(end, <<"addr_del">>, PinItems)
                      \/ /\ Walks(end, <<"addr_del">>)
                         /\ at' \in {"pin_undo", "done"} /\ UNCHANGED <<i, quiet>>
    BY <1>11 DEF AddrDel
  <2>4. CASE Gate(end, <<"addr_del">>, PinItems)
    BY <2>1, <2>2, <2>3, <2>4, GateControl
  <2>5. CASE Walks(end, <<"addr_del">>) /\ at' \in {"pin_undo", "done"}
             /\ UNCHANGED <<i, quiet>>
    BY <1>1, <2>1, <2>2, <2>3, <2>5, WalksControl DEF WalkSteps
  <2>6. QED BY <2>3, <2>4, <2>5
<1>12. CASE PinUndo
  <2>1. at \in WalkSteps /\ i \in 0..(Len(Routes) + 1)
    BY <1>0, <1>12 DEF PinUndo, PhaseOK, WalkSteps
  <2>2. <<"pin_undo">> \in Items /\ {} \in SUBSET Items
    BY DEF Items
  <2>3. PICK end : /\ UNCHANGED table0
                   /\ \/ Gate(end, <<"pin_undo">>, {})
                      \/ Walks(end, <<"pin_undo">>) /\ at' = "done" /\ UNCHANGED <<i, quiet>>
    BY <1>12 DEF PinUndo
  <2>4. CASE Gate(end, <<"pin_undo">>, {})
    BY <2>1, <2>2, <2>3, <2>4, GateControl
  <2>5. CASE Walks(end, <<"pin_undo">>) /\ at' = "done" /\ UNCHANGED <<i, quiet>>
    BY <1>1, <2>1, <2>2, <2>3, <2>5, WalksControl DEF WalkSteps
  <2>6. QED BY <2>3, <2>4, <2>5
<1>13. QED
  BY <1>2, <1>3, <1>4, <1>5, <1>6, <1>7, <1>8, <1>9, <1>10, <1>11, <1>12 DEF Commands

LEMMA InvariantParts ==
  IndInv <=> /\ CodeInv /\ HostOK /\ GateInv
             /\ config.policy # "takeover" =>
                  (\A c \in live : Harmless(c)) /\ OthersUntouched
BY DEF IndInv, CodeInv, ControlOK, KeepInv, KeepLocal, TypeOK

LEMMA PartsSuffice ==
  ASSUME CodeInv', HostOK', GateInv',
         config'.policy # "takeover" => (\A c \in live' : Harmless(c)) /\ OthersUntouched'
  PROVE  IndInv'
BY DEF IndInv, CodeInv, ControlOK, KeepInv, KeepLocal, TypeOK

LEMMA InitInvariant == Init => IndInv
<1> SUFFICES ASSUME Init PROVE IndInv
  OBVIOUS
<1>1. Len(Routes) \in Nat
  BY RouteAssumption
<1>2. /\ table \in Tables /\ table \subseteq Entries /\ Keyed(table)
      /\ table0 = table
  BY RouteAssumption DEF Init
<1> DEFINE Rec == [cidr : Prefixes, prior : SUBSET Entries]
<1>3. /\ applied = [routes |-> <<>>, addr |-> FALSE, pin |-> NoPin]
      /\ <<>> \in Seq(Rec) /\ Len(<<>>) = 0
  BY DEF Init
<1> HIDE DEF Rec
<1>4. applied \in AppliedStates
  BY <1>3 DEF AppliedStates, NoPin, Rec
<1>5. HostOK
  BY <1>2 DEF Init, HostOK
<1>6. PhaseOK
  <2>1. i \in 0..(Len(Routes) + 1) /\ prior \subseteq Entries
    BY <1>1 DEF Init
  <2>2. at \in Steps /\ mode \in {"apply", "rollback", "teardown"} /\ config \in Configs
    BY DEF Init, Steps
  <2>3. /\ tun \in BOOLEAN /\ gated \in BOOLEAN /\ quiet \in BOOLEAN
        /\ errors \subseteq Items /\ remaining \subseteq Items
    BY DEF Init
  <2>4. at = "link_up"
    BY DEF Init
  <2>5. QED BY <1>2, <1>4, <2>1, <2>2, <2>3, <2>4 DEF PhaseOK
<1>7. IndexInv
  BY <1>1, <1>3 DEF Init, IndexInv, ApplySteps, FirstSteps, WalkSteps
<1>8. GateInv /\ KeepInv
  BY <1>1, <1>2, <1>3 DEF Init, GateInv, KeepInv, OthersUntouched, Others, AtGateway, NoPin
<1>9. QED BY <1>5, <1>6, <1>7, <1>8 DEF IndInv, TypeOK

\* A command preserves the invariant: what it does to the host is harmless
\* where it must be, and a child it leaves behind ends the phase.
LEMMA CommandsInvariant == IndInv /\ Commands => IndInv'
<1> SUFFICES ASSUME IndInv, Commands PROVE IndInv'
  OBVIOUS
<1>1. /\ TypeOK /\ HostOK /\ IndexInv /\ GateInv /\ KeepInv /\ CodeInv
      /\ config.policy # "takeover" =>
           (\A c \in live : Harmless(c)) /\ OthersUntouched
  BY InvariantParts DEF IndInv, TypeOK
<1>2. CodeInv'
  BY <1>1, CommandControl
<1>3. /\ at \notin {"done", "up"}
      /\ UNCHANGED <<config, table0>>
      /\ UNCHANGED host \/ \E c \in CommandSet, end \in Ends : Issues(c, end)
  BY <1>1, CommandsIssue
<1>4. live = {}
  BY <1>1, <1>3 DEF GateInv
<1>5. CASE UNCHANGED host
  <2>1. HostOK' /\ GateInv' /\ live' = {}
    BY <1>1, <1>4, <1>5 DEF HostOK, GateInv, host
  <2>2. config.policy # "takeover" => OthersUntouched'
    BY <1>1, <1>3, <1>5 DEF OthersUntouched, Others, host
  <2>3. QED BY <1>2, <1>3, <2>1, <2>2, PartsSuffice
<1>6. CASE \E c \in CommandSet, end \in Ends : Issues(c, end)
  <2>1. PICK c \in CommandSet, end \in Ends : Issues(c, end)
    BY <1>6
  <2>2. Runs(c, end) /\ (end = "unconfirmed" => at' = "done" /\ gated')
    BY <2>1 DEF Issues
  <2>3. HostOK'
    BY <1>1, <2>2, RunsType
  <2>4. live' = {} \/ (live' = {c} /\ at' = "done" /\ gated')
    BY <1>4, <2>2 DEF Runs, host
  <2>5. GateInv'
    BY <2>4 DEF GateInv
  <2>6. ASSUME config.policy # "takeover"
        PROVE  (\A d \in live' : Harmless(d)) /\ OthersUntouched'
    <3>1. Harmless(c)
      BY <1>1, <2>1, <2>6 DEF Issues
    <3>2. \A p \in Prefixes : Others(p)' = Others(p)
      BY <2>2, <3>1, HarmlessRuns
    <3>3. OthersUntouched'
      BY <1>1, <1>3, <2>6, <3>2 DEF OthersUntouched
    <3>4. QED BY <2>4, <3>1, <3>3
  <2>7. QED BY <1>2, <1>3, <2>3, <2>5, <2>6, PartsSuffice
<1>7. QED BY <1>3, <1>5, <1>6

\* So do revert's start, the child that outlived its kill, and the device.
LEMMA RevertInvariant == IndInv /\ Revert => IndInv'
<1> SUFFICES ASSUME IndInv, Revert PROVE IndInv'
  OBVIOUS
<1>1. /\ CodeInv /\ HostOK /\ GateInv
      /\ config.policy # "takeover" =>
           (\A c \in live : Harmless(c)) /\ OthersUntouched
  BY InvariantParts
<1>2. /\ PhaseOK /\ IndexInv
      /\ Len(applied.routes) \in Nat
      /\ UNCHANGED <<host, config, table0>>
  BY <1>1 DEF CodeInv, ControlOK, PhaseOK, AppliedStates, Revert, ghosts
<1>3. /\ at' \in {"route_del", "addr_del", "pin_undo", "done"}
      /\ at' = "route_del" => i' \in 1..Len(applied'.routes)
      /\ i' \in 0..(Len(Routes) + 1)
  BY <1>1, <1>2, UndoingWalks DEF Revert, CodeInv
<1>4. CodeInv'
  BY <1>1, <1>2, <1>3 DEF Revert, CodeInv, ControlOK, PhaseOK, IndexInv, ApplySteps, FirstSteps,
     WalkSteps, Steps, KeepLocal, report, ghosts
<1>5. live = {}
  BY <1>1 DEF GateInv, Revert
<1>6. HostOK' /\ GateInv' /\ live' = {}
  BY <1>1, <1>2, <1>5 DEF HostOK, GateInv, host
<1>7. config.policy # "takeover" => OthersUntouched'
  BY <1>1, <1>2 DEF OthersUntouched, Others, host
<1>8. QED BY <1>2, <1>4, <1>6, <1>7, PartsSuffice

LEMMA LiveActsInvariant == IndInv /\ LiveActs => IndInv'
<1> SUFFICES ASSUME IndInv, LiveActs PROVE IndInv'
  OBVIOUS
<1>1. /\ CodeInv /\ HostOK
      /\ config.policy # "takeover" =>
           (\A c \in live : Harmless(c)) /\ OthersUntouched
  BY InvariantParts
<1>2. PICK c \in live : CanDo(c) /\ Effect(c)
  BY DEF LiveActs
<1>3. c \in CommandSet
  BY <1>1 DEF HostOK, CommandSet
<1>4. HostOK' /\ GateInv' /\ live' = {}
  BY <1>1, <1>2, <1>3, EffectType DEF LiveActs, HostOK, GateInv
<1>5. CodeInv' /\ UNCHANGED <<config, table0>>
  BY <1>1 DEF LiveActs, CodeInv, ControlOK, PhaseOK, IndexInv, KeepLocal, report, ghosts
<1>6. ASSUME config.policy # "takeover" PROVE OthersUntouched'
  <2>1. \A p \in Prefixes : Others(p)' = Others(p)
    BY <1>1, <1>2, <1>6, HarmlessEffect
  <2>2. QED BY <1>1, <1>5, <1>6, <2>1 DEF OthersUntouched
<1>7. QED BY <1>4, <1>5, <1>6, PartsSuffice

LEMMA TunVanishesInvariant == IndInv /\ TunVanishes => IndInv'
<1> SUFFICES ASSUME IndInv, TunVanishes PROVE IndInv'
  OBVIOUS
<1>1. /\ CodeInv /\ HostOK /\ GateInv
      /\ config.policy # "takeover" =>
           (\A c \in live : Harmless(c)) /\ OthersUntouched
  BY InvariantParts
<1>2. CodeInv' /\ UNCHANGED <<config, table0, live, at>>
  BY <1>1 DEF TunVanishes, CodeInv, ControlOK, PhaseOK, IndexInv, KeepLocal, report, ghosts
<1>3. HostOK' /\ GateInv'
  BY <1>1, <1>2 DEF TunVanishes, HostOK, GateInv, Keyed
<1>4. \A p \in Prefixes : Others(p)' = Others(p)
  BY DEF TunVanishes, Others
<1>5. config.policy # "takeover" => OthersUntouched'
  BY <1>1, <1>2, <1>4 DEF OthersUntouched
<1>6. QED BY <1>1, <1>2, <1>3, <1>5, PartsSuffice

LEMMA StepInvariant == IndInv /\ [Next]_vars => IndInv'
<1> SUFFICES ASSUME IndInv, [Next]_vars PROVE IndInv'
  OBVIOUS
<1>1. CASE UNCHANGED vars
  BY <1>1 DEF vars, host, report, ghosts, IndInv, TypeOK, HostOK, PhaseOK, IndexInv, GateInv,
     KeepInv, OthersUntouched, Others
<1>2. QED
  BY <1>1, CommandsInvariant, RevertInvariant, LiveActsInvariant, TunVanishesInvariant
     DEF Next, Finished

LEMMA Invariant == Spec => []IndInv
BY InitInvariant, StepInvariant, PTL DEF Spec

-----------------------------------------------------------------------------
(* What an apply that got as far as its routes has in the table.           *)

RouteSteps == {"route_add", "route_show", "route_replace", "up"}

Settled(p) ==
  \/ Tunnel(p) \in table
  \/ config.policy = "skip" /\ SameKey(Tunnel(p)) # {}

\* Every route behind the walk is settled and so is the pin; a conflict that
\* is looked into is one.
RoutedInv ==
  tun /\ at \in RouteSteps =>
    /\ \A k \in 1..(i - 1) : Settled(Routes[k])
    /\ config.pin => Pin \in table
    /\ at = "route_show" => SameKey(Tunnel(Routes[i])) # {}
    /\ at = "up" => i > Len(Routes)

\* The entry for one route takes the place of no other route's, and not of
\* the gateway's.
LEMMA OthersSettled ==
  ASSUME NEW m \in 1..Len(Routes), UNCHANGED config,
         table' = (table \ SameKey(Tunnel(Routes[m]))) \cup {Tunnel(Routes[m])}
  PROVE  /\ Pin \in table => Pin \in table'
         /\ Settled(Routes[m])'
         /\ \A k \in 1..Len(Routes) : k # m /\ Settled(Routes[k]) => Settled(Routes[k])'
<1>1. Routes[m] \in Prefixes /\ Gateway \notin Prefixes
  BY RouteAssumption DEF Prefixes
<1>2. Pin \in table => Pin \in table'
  BY <1>1 DEF Pin, SameKey, Tunnel
<1>3. Settled(Routes[m])'
  BY DEF Settled
<1>4. ASSUME NEW k \in 1..Len(Routes), k # m, Settled(Routes[k])
      PROVE  Settled(Routes[k])'
  <2>1. Routes[k] # Routes[m]
    BY <1>4, RouteAssumption
  <2>2. \A e \in table : e.dst = Routes[k] => e \in table'
    BY <2>1 DEF SameKey, Tunnel
  <2>3. SameKey(Tunnel(Routes[k])) \subseteq SameKey(Tunnel(Routes[k]))'
    BY <2>2 DEF SameKey, Tunnel
  <2>4. QED BY <1>4, <2>2, <2>3 DEF Settled, Tunnel
<1>5. QED BY <1>2, <1>3, <1>4

\* The first of the routes, or "up" where there is none.
LEMMA FirstRouteSettled ==
  ASSUME at' \in RouteSteps, at' = RoutesFrom(1), i' = 1,
         config'.pin => Pin \in table'
  PROVE  RoutedInv'
<1>1. Len(Routes) \in Nat
  BY RouteAssumption
<1>2. QED BY <1>1 DEF RoutedInv, RoutesFrom

\* The walk goes on to the next one.
LEMMA NextRouteSettled ==
  ASSUME IndInv, RoutedInv, tun, at \in RouteSteps, NextRoute,
         NEW m \in 1..Len(Routes), i = m, Settled(Routes[m])',
         \A k \in 1..Len(Routes) : k # m /\ Settled(Routes[k]) => Settled(Routes[k])',
         Pin \in table => Pin \in table'
  PROVE  RoutedInv'
<1>1. Len(Routes) \in Nat /\ i \in Nat
  BY RouteAssumption
<1>2. i' = i + 1 /\ at' = RoutesFrom(i + 1) /\ UNCHANGED config
  BY DEF NextRoute
<1>3. \A k \in 1..(i - 1) : Settled(Routes[k])
  BY DEF RoutedInv
<1>4. \A k \in 1..(i' - 1) : Settled(Routes[k])'
  <2>1. SUFFICES ASSUME NEW k \in 1..m PROVE Settled(Routes[k])'
    BY <1>1, <1>2
  <2>2. k \in 1..Len(Routes) /\ (k # m => k \in 1..(i - 1))
    BY <1>1
  <2>3. QED BY <1>3, <2>2
<1>5. at' = "up" => i' > Len(Routes)
  BY <1>1, <1>2 DEF RoutesFrom
<1>6. at' # "route_show"
  BY <1>2 DEF RoutesFrom
<1>7. QED BY <1>2, <1>4, <1>5, <1>6 DEF RoutedInv

\* Where rollback_and_fail and the walk of revert go.
LEMMA FailsLeaves ==
  ASSUME NEW end, Fails(end)
  PROVE  at' \notin RouteSteps
BY DEF Fails, Undoing, UndoFrom, RouteSteps

LEMMA RoutedCommands ==
  ASSUME IndInv, RoutedInv, Commands
  PROVE  RoutedInv'
<1>0. SUFFICES ASSUME tun', at' \in RouteSteps PROVE RoutedInv'
  BY DEF RoutedInv
<1>1. /\ PhaseOK /\ IndexInv
      /\ Len(Routes) \in Nat
  BY RouteAssumption DEF IndInv, TypeOK
<1>2. CASE LinkUp
  <2>1. i = 1 /\ Goes(AfterLink)
    BY <1>0, <1>1, <1>2, FailsLeaves DEF LinkUp, IndexInv, FirstSteps
  <2>2. i' = 1 /\ at' = RoutesFrom(1) /\ ~config'.pin
    BY <1>0, <2>1 DEF Goes, AfterLink, AfterAddr, RouteSteps
  <2>3. QED BY <1>0, <2>2, FirstRouteSettled
<1>3. CASE AddrAdd
  <2>1. i = 1 /\ Goes(AfterAddr)
    BY <1>0, <1>1, <1>3, FailsLeaves DEF AddrAdd, IndexInv, FirstSteps
  <2>2. i' = 1 /\ at' = RoutesFrom(1) /\ ~config'.pin
    BY <1>0, <2>1 DEF Goes, AfterAddr, RouteSteps
  <2>3. QED BY <1>0, <2>2, FirstRouteSettled
<1>4. CASE PinShow
  BY <1>0, <1>4, FailsLeaves DEF PinShow, Goes, RouteSteps
<1>5. CASE PinReplace
  <2>1. i = 1 /\ Goes(RoutesFrom(1)) /\ Runs(Command("replace", Pin), "ok")
    BY <1>0, <1>1, <1>5, FailsLeaves DEF PinReplace, IndexInv, FirstSteps
  <2>2. Pin \in table'
    BY <2>1 DEF Runs, Effect, Command, host
  <2>3. QED BY <1>0, <2>1, <2>2, FirstRouteSettled DEF Goes
<1>6. CASE RouteAdd
  <2>0. PICK m : m = i
    OBVIOUS
  <2>1. at = "route_add" /\ m \in 1..Len(Routes)
    BY <2>0, <1>1, <1>6 DEF RouteAdd, PhaseOK
  <2>2. CASE Runs(Command("add", Tunnel(Routes[i])), "ok") /\ Record({})
    <3>1. NextRoute /\ UNCHANGED <<config, tun>>
      BY <2>2 DEF Record, NextRoute
    <3>2. table' = (table \ SameKey(Tunnel(Routes[m]))) \cup {Tunnel(Routes[m])}
      BY <2>0, <2>2 DEF Runs, Effect, Command
    <3>3. QED BY <1>0, <2>0, <2>1, <3>1, <3>2, OthersSettled, NextRouteSettled DEF RouteSteps
  <2>3. CASE SameKey(Tunnel(Routes[i])) # {} /\ Goes("route_show") /\ UNCHANGED host
    BY <2>1, <2>3 DEF Goes, host, RoutedInv, RouteSteps, Settled, SameKey
  <2>4. QED BY <1>0, <1>6, <2>2, <2>3, FailsLeaves DEF RouteAdd
<1>7. CASE RouteShow
  <2>0. PICK m : m = i
    OBVIOUS
  <2>1. at = "route_show" /\ m \in 1..Len(Routes)
    BY <2>0, <1>1, <1>7 DEF RouteShow, PhaseOK
  <2>2. PICK seen : Resolve(seen) /\ UNCHANGED table
    BY <1>0, <1>7, FailsLeaves DEF RouteShow, Runs, Effect, Command, Mutating, host
  <2>3. CASE config.policy = "skip" /\ NextRoute
    <3>1. UNCHANGED <<config, tun>>
      BY <2>3 DEF NextRoute
    <3>2. SameKey(Tunnel(Routes[m])) # {}
      BY <1>0, <2>0, <2>1, <3>1 DEF RoutedInv, RouteSteps
    <3>3. \A p : Settled(p) => Settled(p)'
      BY <2>2, <3>1 DEF Settled, SameKey
    <3>4. Settled(Routes[m])
      BY <2>3, <3>2 DEF Settled
    <3>5. QED BY <1>0, <2>0, <2>1, <2>2, <2>3, <3>1, <3>3, <3>4, NextRouteSettled DEF RouteSteps
  <2>4. CASE Goes("route_replace")
    BY <1>0, <2>1, <2>2, <2>4 DEF Goes, RoutedInv, RouteSteps, Settled, SameKey
  <2>5. QED BY <1>0, <2>2, <2>3, <2>4, FailsLeaves DEF Resolve
<1>8. CASE RouteReplace
  <2>0. PICK m : m = i
    OBVIOUS
  <2>1. at = "route_replace" /\ m \in 1..Len(Routes)
    BY <2>0, <1>1, <1>8 DEF RouteReplace, PhaseOK
  <2>2. Runs(Command("replace", Tunnel(Routes[i])), "ok") /\ Record(prior)
    BY <1>0, <1>8, FailsLeaves DEF RouteReplace
  <2>3. NextRoute /\ UNCHANGED <<config, tun>>
    BY <2>2 DEF Record, NextRoute
  <2>4. table' = (table \ SameKey(Tunnel(Routes[m]))) \cup {Tunnel(Routes[m])}
    BY <2>0, <2>2 DEF Runs, Effect, Command
  <2>5. QED BY <1>0, <2>0, <2>1, <2>3, <2>4, OthersSettled, NextRouteSettled DEF RouteSteps
<1>9. CASE RouteDel \/ Restore \/ AddrDel \/ PinUndo
  BY <1>0, <1>9 DEF RouteDel, Restore, AddrDel, PinUndo, Gate, Walks, Undoing, UndoFrom, RouteSteps
<1>10. QED
  BY <1>2, <1>3, <1>4, <1>5, <1>6, <1>7, <1>8, <1>9 DEF Commands

LEMMA RoutedInvariant == Spec => []RoutedInv
<1>1. Init => RoutedInv
  BY DEF Init, RoutedInv, RouteSteps
<1>2. IndInv /\ RoutedInv /\ [Next]_vars => RoutedInv'
  <2> SUFFICES ASSUME IndInv, RoutedInv, [Next]_vars PROVE RoutedInv'
    OBVIOUS
  <2>1. CASE UNCHANGED vars
    BY <2>1 DEF vars, host, RoutedInv, Settled, SameKey
  <2>2. CASE Revert
    BY <2>2 DEF Revert, Undoing, UndoFrom, RoutedInv, RouteSteps
  <2>3. CASE LiveActs
    BY <2>3 DEF LiveActs, IndInv, GateInv, RoutedInv, RouteSteps
  <2>4. CASE TunVanishes
    BY <2>4 DEF TunVanishes, RoutedInv
  <2>5. QED
    BY <2>1, <2>2, <2>3, <2>4, RoutedCommands DEF Next, Finished
<1>3. QED BY <1>1, <1>2, Invariant, PTL DEF Spec

-----------------------------------------------------------------------------
(* What a walk that stops half way has done and has still to name.         *)

\* What an install displaced: at most one entry of the same prefix.
OneEntry(p, es) == (\A e \in es : e.dst = p) /\ (\A e, f \in es : e = f)
NotTunnel(es) == \A e \in es : e.dev # "tun"

Cidr(k) == applied.routes[k].cidr
Prior(k) == applied.routes[k].prior

RecordInv ==
  /\ \A j, k \in 1..Len(applied.routes) : Cidr(j) = Cidr(k) => j = k
  /\ \A k \in 1..Len(applied.routes) : OneEntry(Cidr(k), Prior(k)) /\ NotTunnel(Prior(k))
  /\ at \in ApplySteps =>
       \A k \in 1..Len(applied.routes) : \E m \in 1..(i - 1) : Cidr(k) = Routes[m]
  /\ at = "route_replace" => OneEntry(Routes[i], prior) /\ NotTunnel(prior)
  /\ at = "pin_replace" => OneEntry(Gateway, prior)
  /\ OneEntry(Gateway, applied.pin.prior)

\* A route the walk is done with: what of it is not undone is in errors.
Dealt(k) ==
  /\ Tunnel(Cidr(k)) \in table =>
       <<"del", Cidr(k)>> \in errors \/ <<"restore", Cidr(k)>> \in errors
  /\ ~(Prior(k) \subseteq table) => <<"restore", Cidr(k)>> \in errors

WalkInv ==
  (at \in WalkSteps \/ (at = "done" /\ ~gated)) /\ ~quiet =>
    /\ \A k \in 1..Len(applied.routes) :
         (at \in {"route_del", "restore"} => k > i) => Dealt(k)
    /\ at = "restore" /\ Tunnel(Cidr(i)) \in table => \A e \in Prior(i) : e.metric = 0
    /\ at \in {"pin_undo", "done"} /\ applied.addr /\ addr => <<"addr_del">> \in errors

\* A route of which the checklist says enough, whatever becomes of it.
Excused(k) ==
  \/ Named(<<"restore", Cidr(k)>>)
  \/ Prior(k) = {} /\ Named(<<"del", Cidr(k)>>)

MovesRoutes(c) == c.op \in {"add", "replace", "del"}

\* A child that outlives its kill changes nothing the checklist is silent on.
Foreseen(c) ==
  /\ c.op # "addr_add"
  /\ MovesRoutes(c) =>
       /\ \A k \in 1..Len(applied.routes) : c.entry.dst = Cidr(k) => Excused(k)
       /\ c.entry.dst = Gateway => Named(<<"pin_undo">>)

GatedInv ==
  /\ gated => at = "done"
  /\ gated /\ mode # "apply" => \A c \in live : Foreseen(c)
  /\ ChecklistComplete

CheckInv == RecordInv /\ WalkInv /\ GatedInv

\* A command leaves the entries of every other prefix where they are.
LEMMA EffectElsewhere ==
  ASSUME NEW c, Effect(c), NEW e, MovesRoutes(c) => c.entry.dst # e.dst
  PROVE  e \in table' <=> e \in table
<1>1. CASE c.op \in {"add", "replace"}
  <2>1. table' = (table \ SameKey(c.entry)) \cup {c.entry}
    BY <1>1 DEF Effect
  <2>2. QED BY <1>1, <2>1 DEF SameKey, MovesRoutes
<1>2. CASE c.op = "del"
  <2>1. /\ table' \subseteq table
        /\ \A f \in table : f \notin Matching(c.entry) => f \in table'
    BY <1>2 DEF Effect
  <2>2. QED BY <1>2, <2>1 DEF Matching, MovesRoutes
<1>3. CASE ~MovesRoutes(c)
  BY <1>3 DEF Effect, MovesRoutes
<1>4. QED BY <1>1, <1>2, <1>3 DEF MovesRoutes

LEMMA RunsElsewhere ==
  ASSUME NEW c, NEW end, Runs(c, end), NEW e, MovesRoutes(c) => c.entry.dst # e.dst
  PROVE  e \in table' <=> e \in table
<1>1. CASE Effect(c)
  BY <1>1, EffectElsewhere
<1>2. CASE UNCHANGED table
  BY <1>2
<1>3. QED BY <1>1, <1>2 DEF Runs, host

\* So a route the walk is done with stays dealt with.
LEMMA DealtElsewhere ==
  ASSUME RecordInv, NEW c, NEW end, Runs(c, end), UNCHANGED applied, errors \subseteq errors',
         NEW k \in 1..Len(applied.routes), MovesRoutes(c) => c.entry.dst # Cidr(k), Dealt(k)
  PROVE  Dealt(k)'
<1>1. \A e : e.dst = Cidr(k) => (e \in table' <=> e \in table)
  BY RunsElsewhere
<1>2. Tunnel(Cidr(k)) \in table' <=> Tunnel(Cidr(k)) \in table
  BY <1>1 DEF Tunnel
<1>3. Prior(k) \subseteq table' <=> Prior(k) \subseteq table
  BY <1>1 DEF RecordInv, OneEntry
<1>4. QED BY <1>2, <1>3 DEF Dealt, Cidr, Prior

\* Where the walk of revert stands when it is about to go on from route k.
LEMMA WalkGoesOn ==
  ASSUME IndInv, NEW k \in 0..Len(applied.routes), Undoing(k), UNCHANGED applied,
         ~quiet' => \A j \in 1..Len(applied.routes) : j > k => Dealt(j)'
  PROVE  WalkInv'
<1>1. Len(applied.routes) \in Nat
  BY DEF IndInv, TypeOK, PhaseOK, AppliedStates
<1>2. at' = "route_del" => i' = k
  BY DEF Undoing
<1>3. at' # "restore" /\ (at' \in {"pin_undo", "done"} => ~applied.addr)
  BY DEF Undoing, UndoFrom
<1>4. at' \in {"addr_del", "pin_undo", "done"} => k = 0
  BY DEF Undoing, UndoFrom
<1>5. QED BY <1>1, <1>2, <1>3, <1>4 DEF WalkInv, WalkSteps

LEMMA FailsChecked ==
  ASSUME IndInv, CheckInv, at \notin {"done"}, NEW end, Fails(end), UNCHANGED ghosts,
         mode = "apply"
  PROVE  CheckInv'
<1>1. RecordInv'
  BY DEF Fails, Undoing, UndoFrom, CheckInv, RecordInv, Cidr, Prior, ApplySteps
<1>2. CASE end = "failed"
  <2>1. Len(applied.routes) \in 0..Len(applied.routes) /\ Len(applied.routes) \in Nat
    BY DEF IndInv, TypeOK, PhaseOK, AppliedStates
  <2>2. WalkInv'
    BY <1>2, <2>1, WalkGoesOn DEF Fails
  <2>3. ~gated'
    BY <1>2 DEF Fails, CheckInv, GatedInv
  <2>4. QED BY <1>1, <2>2, <2>3 DEF CheckInv, GatedInv, ChecklistComplete
<1>3. CASE end = "unconfirmed"
  BY <1>1, <1>3 DEF Fails, CheckInv, WalkInv, WalkSteps, GatedInv, ChecklistComplete
<1>4. QED BY <1>2, <1>3 DEF Fails

\* Before the walk of revert only what is recorded matters.
LEMMA ApplyChecked ==
  ASSUME CheckInv, at \in ApplySteps, at' \in ApplySteps, UNCHANGED gated, RecordInv'
  PROVE  CheckInv'
<1>1. ~gated'
  BY DEF CheckInv, GatedInv, ApplySteps
<1>2. QED
  BY <1>1 DEF CheckInv, WalkInv, WalkSteps, ApplySteps, GatedInv, ChecklistComplete

\* A step of apply that records no route.
LEMMA NothingRecorded ==
  ASSUME RecordInv, at \in ApplySteps, Len(applied.routes) \in Nat, i \in Nat,
         applied'.routes = applied.routes,
         i' \in {i, i + 1},
         at' = "route_replace" => OneEntry(Routes[i'], prior') /\ NotTunnel(prior'),
         at' = "pin_replace" => OneEntry(Gateway, prior'),
         OneEntry(Gateway, applied'.pin.prior)
  PROVE  RecordInv'
<1>1. \A k \in 1..Len(applied.routes) : \E m \in 1..(i' - 1) : Cidr(k) = Routes[m]
  <2>1. \A m \in 1..(i - 1) : m \in 1..(i' - 1)
    <3>1. CASE i' = i
      BY <3>1
    <3>2. CASE i' = i + 1
      BY <3>2
    <3>3. QED BY <3>1, <3>2
  <2>2. QED BY <2>1 DEF RecordInv
<1>2. \A k \in 1..Len(applied.routes) : Cidr(k)' = Cidr(k) /\ Prior(k)' = Prior(k)
  BY DEF Cidr, Prior
<1>3. (\A k \in 1..Len(applied.routes) : OneEntry(Cidr(k), Prior(k)) /\ NotTunnel(Prior(k)))'
  BY <1>2 DEF RecordInv, OneEntry, NotTunnel
<1>4. (\A j, k \in 1..Len(applied.routes) : Cidr(j) = Cidr(k) => j = k)'
  BY <1>2 DEF RecordInv
<1>5. (\A k \in 1..Len(applied.routes) : \E m \in 1..(i - 1) : Cidr(k) = Routes[m])'
  BY <1>1, <1>2
<1>6. /\ (at = "route_replace" => OneEntry(Routes[i], prior) /\ NotTunnel(prior))'
      /\ (at = "pin_replace" => OneEntry(Gateway, prior))'
      /\ OneEntry(Gateway, applied.pin.prior)'
  BY DEF OneEntry, NotTunnel
<1>7. QED BY <1>3, <1>4, <1>5, <1>6 DEF RecordInv

\* A step that records the route the walk is at, which is none of those before.
LEMMA RouteRecorded ==
  ASSUME IndInv, RecordInv, i \in 1..Len(Routes), at \in ApplySteps,
         NEW displaced, Record(displaced), OneEntry(Routes[i], displaced), NotTunnel(displaced)
  PROVE  RecordInv'
<1>0. PICK n, p : n = Len(applied.routes) /\ p = Routes[i]
  OBVIOUS
<1> DEFINE r == [cidr |-> p, prior |-> displaced]
<1>1. /\ n = Len(applied.routes) /\ p = Routes[i]
      /\ n \in Nat /\ i \in Nat /\ Len(Routes) \in Nat
      /\ applied.routes \in Seq([cidr : Prefixes, prior : SUBSET Entries])
  BY <1>0, RouteAssumption DEF IndInv, TypeOK, PhaseOK, AppliedStates
<1>2. /\ applied'.routes = Append(applied.routes, r)
      /\ applied'.pin = applied.pin
      /\ i' = i + 1 /\ at' \notin {"route_replace", "pin_replace"}
  BY <1>0 DEF Record, NextRoute, RoutesFrom, IndInv, TypeOK, PhaseOK, AppliedStates
<1>3. /\ Len(applied'.routes) = n + 1
      /\ applied'.routes[n + 1] = r
      /\ \A k \in 1..n : applied'.routes[k] = applied.routes[k]
  BY <1>1, <1>2
<1>4. /\ Cidr(n + 1)' = p /\ Prior(n + 1)' = displaced
      /\ \A k \in 1..n : Cidr(k)' = Cidr(k) /\ Prior(k)' = Prior(k)
  BY <1>1, <1>3 DEF Cidr, Prior
<1>5. \A k \in 1..n : \E m \in 1..(i - 1) : Cidr(k) = Routes[m]
  BY <1>1 DEF RecordInv
<1>6. \A k \in 1..n : Cidr(k) # p
  <2>1. \A m \in 1..(i - 1) : m \in 1..Len(Routes) /\ m # i
    BY <1>1
  <2>2. QED BY <1>1, <1>5, <2>1, RouteAssumption
<1>7. \A k \in 1..(n + 1) : k = n + 1 \/ k \in 1..n
  BY <1>1
<1>8. \A j, k \in 1..(n + 1) : Cidr(j)' = Cidr(k)' => j = k
  BY <1>1, <1>4, <1>6, <1>7 DEF RecordInv
<1>9. \A k \in 1..(n + 1) : OneEntry(Cidr(k)', Prior(k)') /\ NotTunnel(Prior(k)')
  BY <1>1, <1>4, <1>7 DEF RecordInv
<1>10. \A k \in 1..(n + 1) : \E m \in 1..(i' - 1) : Cidr(k)' = Routes[m]
  <2>1. i \in 1..(i' - 1) /\ \A m \in 1..(i - 1) : m \in 1..(i' - 1)
    BY <1>1, <1>2
  <2>2. QED BY <1>1, <1>4, <1>5, <1>7, <2>1
<1> HIDE DEF r
<1>11. Len(applied.routes)' = n + 1
  BY <1>3
<1>12. OneEntry(Gateway, applied.pin.prior)'
  BY <1>2 DEF RecordInv, OneEntry
<1>13. \A k \in 1..(n + 1) : (OneEntry(Cidr(k), Prior(k)) /\ NotTunnel(Prior(k)))'
  BY <1>9 DEF OneEntry, NotTunnel
<1>14. QED BY <1>2, <1>8, <1>10, <1>11, <1>12, <1>13 DEF RecordInv

\* platform_apply.
ApplyCommands ==
  LinkUp \/ AddrAdd \/ PinShow \/ PinReplace \/ RouteAdd \/ RouteShow \/ RouteReplace

LEMMA ApplyCommandsChecked ==
  ASSUME IndInv, CheckInv, ApplyCommands
  PROVE  CheckInv'
<1>1. /\ at \in ApplySteps /\ mode = "apply" /\ at # "done"
      /\ Len(applied.routes) \in Nat /\ i \in Nat
      /\ applied \in AppliedStates
      /\ RecordInv
      /\ table \subseteq Entries /\ Keyed(table)
  BY RouteAssumption DEF ApplyCommands, LinkUp, AddrAdd, PinShow, PinReplace, RouteAdd, RouteShow,
     RouteReplace, ApplySteps, IndInv, TypeOK, PhaseOK, HostOK, AppliedStates, IndexInv, CheckInv
<1>2. i = 1 \/ i \in 1..Len(Routes)
  BY DEF ApplyCommands, LinkUp, AddrAdd, PinShow, PinReplace, RouteAdd, RouteShow,
     RouteReplace, IndInv, TypeOK, PhaseOK, IndexInv, FirstSteps
<1>3. ASSUME NEW to \in ApplySteps, Goes(to), applied'.routes = applied.routes,
             to = "route_replace" => OneEntry(Routes[i], prior') /\ NotTunnel(prior'),
             to = "pin_replace" => OneEntry(Gateway, prior'),
             OneEntry(Gateway, applied'.pin.prior)
      PROVE  CheckInv'
  <2>1. at' = to /\ i' = i /\ UNCHANGED gated
    BY <1>3 DEF Goes, report
  <2>2. RecordInv'
    BY <1>1, <1>3, <2>1, NothingRecorded
  <2>3. QED BY <1>1, <2>1, <2>2, ApplyChecked
<1>4. ASSUME NEW displaced, Record(displaced), OneEntry(Routes[i], displaced),
             NotTunnel(displaced), i \in 1..Len(Routes)
      PROVE  CheckInv'
  <2>1. at' \in ApplySteps /\ UNCHANGED gated
    BY <1>4 DEF Record, NextRoute, RoutesFrom, ApplySteps, report
  <2>2. RecordInv'
    BY <1>1, <1>4, RouteRecorded
  <2>3. QED BY <1>1, <2>1, <2>2, ApplyChecked
<1>5. \A k \in {1, i + 1} : RoutesFrom(k) \in ApplySteps \ {"route_replace", "pin_replace"}
  BY DEF RoutesFrom, ApplySteps
<1>6. OneEntry(Gateway, applied.pin.prior)
  BY <1>1 DEF RecordInv
<1>7. CASE LinkUp
  <2>1. AfterLink \in ApplySteps \ {"route_replace", "pin_replace"}
    BY <1>5 DEF AfterLink, AfterAddr, ApplySteps
  <2>2. CASE Goes(AfterLink) /\ UNCHANGED applied
    BY <1>3, <1>6, <2>1, <2>2
  <2>3. QED BY <1>1, <1>7, <2>2, FailsChecked DEF LinkUp
<1>8. CASE AddrAdd
  <2>1. AfterAddr \in ApplySteps \ {"route_replace", "pin_replace"}
    BY <1>5 DEF AfterAddr, ApplySteps
  <2>2. CASE applied' = [applied EXCEPT !.addr = TRUE] /\ Goes(AfterAddr)
    <3>1. applied'.routes = applied.routes /\ applied'.pin = applied.pin
      BY <1>1, <2>2 DEF AppliedStates
    <3>2. QED BY <1>3, <1>6, <2>1, <2>2, <3>1
  <2>3. QED BY <1>1, <1>8, <2>2, FailsChecked DEF AddrAdd
<1>9. CASE PinShow
  <2>1. CASE prior' = Restorable(First({e \in table : e.dst = Gateway}))
             /\ Goes("pin_replace") /\ UNCHANGED applied
    <3>1. \A e, f \in prior' : /\ e \in table /\ f \in table
                               /\ e.dst = Gateway /\ f.dst = Gateway
                               /\ e.metric <= f.metric /\ f.metric <= e.metric
      BY <2>1 DEF Restorable, First
    <3>2. \A e \in table : e.metric \in Nat
      BY <1>1, RouteAssumption DEF Entries
    <3>3. OneEntry(Gateway, prior')
      BY <1>1, <3>1, <3>2 DEF OneEntry, Keyed
    <3>4. QED BY <1>3, <1>6, <2>1, <3>3 DEF ApplySteps
  <2>2. QED BY <1>1, <1>9, <2>1, FailsChecked DEF PinShow
<1>10. CASE PinReplace
  <2>1. CASE applied' = [applied EXCEPT !.pin = [set |-> TRUE, prior |-> prior]]
             /\ Goes(RoutesFrom(1))
    <3>1. applied'.routes = applied.routes /\ applied'.pin.prior = prior
      BY <1>1, <2>1 DEF AppliedStates
    <3>2. OneEntry(Gateway, prior)
      BY <1>1, <1>10 DEF PinReplace, RecordInv
    <3>3. QED BY <1>3, <1>5, <2>1, <3>1, <3>2
  <2>2. QED BY <1>1, <1>10, <2>1, FailsChecked DEF PinReplace
<1>11. CASE RouteAdd
  <2>1. i \in 1..Len(Routes)
    BY <1>11 DEF RouteAdd, IndInv, TypeOK, PhaseOK
  <2>2. OneEntry(Routes[i], {}) /\ NotTunnel({})
    BY DEF OneEntry, NotTunnel
  <2>3. CASE Record({})
    BY <1>4, <2>1, <2>2, <2>3
  <2>4. CASE Goes("route_show") /\ UNCHANGED applied
    BY <1>3, <1>6, <2>4 DEF ApplySteps
  <2>5. QED BY <1>1, <1>11, <2>3, <2>4, FailsChecked DEF RouteAdd
<1>12. CASE RouteShow
  <2>1. PICK seen \in SUBSET Others(Routes[i]) : CheckInv' \/ (Resolve(seen) /\ UNCHANGED ghosts)
    BY <1>1, <1>12, FailsChecked DEF RouteShow, Restorable
  <2>2. CASE NextRoute /\ UNCHANGED applied
    <3>1. at' = RoutesFrom(i + 1) /\ i' = i + 1 /\ UNCHANGED gated
      BY <2>2 DEF NextRoute, report
    <3>2. RecordInv'
      BY <1>1, <1>5, <1>6, <2>2, <3>1, NothingRecorded
    <3>3. QED BY <1>1, <1>5, <3>1, <3>2, ApplyChecked
  <2>3. CASE /\ \A e, f \in seen : e = f
             /\ prior' = seen /\ Goes("route_replace") /\ UNCHANGED applied
    <3>1. OneEntry(Routes[i], prior') /\ NotTunnel(prior')
      BY <2>3 DEF OneEntry, NotTunnel, Others
    <3>2. QED BY <1>3, <1>6, <2>3, <3>1 DEF ApplySteps
  <2>4. QED BY <1>1, <2>1, <2>2, <2>3, FailsChecked DEF Resolve
<1>13. CASE RouteReplace
  <2>1. i \in 1..Len(Routes)
    BY <1>13 DEF RouteReplace, IndInv, TypeOK, PhaseOK
  <2>2. OneEntry(Routes[i], prior) /\ NotTunnel(prior)
    BY <1>1, <1>13 DEF RouteReplace, RecordInv
  <2>3. CASE Record(prior)
    BY <1>4, <2>1, <2>2, <2>3
  <2>4. QED BY <1>1, <1>13, <2>3, FailsChecked DEF RouteReplace, ghosts
<1>14. QED
  BY <1>7, <1>8, <1>9, <1>10, <1>11, <1>12, <1>13 DEF ApplyCommands

\* platform_revert, as the teardown and as the rollback.  A step of its walk
\* records nothing more.
LEMMA WalkRecorded ==
  ASSUME RecordInv, UNCHANGED applied, at' \in WalkSteps \cup {"done"}
  PROVE  RecordInv'
BY DEF RecordInv, Cidr, Prior, ApplySteps, WalkSteps

\* The gate leaves a checklist that holds, whatever the child does yet.
LEMMA GateChecked ==
  ASSUME IndInv, CheckInv, at \in WalkSteps, NEW c, NEW end, Runs(c, end),
         NEW item, NEW unissued, Gate(end, item, unissued),
         c.op # "addr_add",
         \A k \in 1..Len(applied.routes) :
           /\ (~quiet => Dealt(k)) \/ Excused(k)'
           /\ MovesRoutes(c) /\ c.entry.dst = Cidr(k) => Excused(k)',
         MovesRoutes(c) /\ c.entry.dst = Gateway => Named(<<"pin_undo">>)',
         ~quiet /\ applied.addr /\ addr => Named(<<"addr_del">>)',
         applied.pin.set => Named(<<"pin_undo">>)'
  PROVE  CheckInv'
<1>1. /\ live' = {c}
      /\ at' = "done"
      /\ UNCHANGED <<table, addr, applied, quiet, mode>>
      /\ errors \subseteq remaining'
  BY DEF Gate, Runs, host
<1>2. RecordInv' /\ WalkInv'
  BY <1>1, WalkRecorded DEF CheckInv, WalkInv, WalkSteps, Gate
<1>3. Foreseen(c)'
  BY <1>1 DEF Foreseen, MovesRoutes, Cidr
<1>4. ChecklistComplete'
  <2>1. ASSUME ~quiet, NEW k \in 1..Len(applied.routes)
        PROVE  /\ Tunnel(Cidr(k)) \in table =>
                    Named(<<"del", Cidr(k)>>)' \/ Named(<<"restore", Cidr(k)>>)'
               /\ ~(Prior(k) \subseteq table) => Named(<<"restore", Cidr(k)>>)'
    <3>1. CASE Dealt(k)
      BY <1>1, <3>1 DEF Dealt, Named, Cidr
    <3>2. CASE Excused(k)'
      BY <1>1, <3>2 DEF Excused, Named, Cidr, Prior
    <3>3. QED BY <2>1, <3>1, <3>2
  <2>2. QED BY <1>1, <2>1 DEF ChecklistComplete, Cidr, Prior, Named
<1>5. QED BY <1>1, <1>2, <1>3, <1>4 DEF CheckInv, GatedInv

\* A step after which the walk goes on, or is over without a gate.
LEMMA WalkChecked ==
  ASSUME CheckInv, at \in WalkSteps, NEW end, NEW item, Walks(end, item),
         at' \in WalkSteps \cup {"done"}, WalkInv'
  PROVE  CheckInv'
<1>1. RecordInv'
  BY WalkRecorded DEF CheckInv, Walks
<1>2. ~gated'
  BY DEF CheckInv, GatedInv, WalkSteps, Walks
<1>3. QED BY <1>1, <1>2 DEF CheckInv, GatedInv, ChecklistComplete

\* `route del` that succeeded has deleted the tunnel's entry, the one with the
\* lowest metric there is.
LEMMA DelDeletes ==
  ASSUME HostOK, NEW p \in Prefixes, Runs(Command("del", Tunnel(p)), "ok")
  PROVE  Tunnel(p) \notin table'
<1>1. table' = {f \in table : f \in Matching(Tunnel(p)) =>
                  \E g \in Matching(Tunnel(p)) : g.metric < f.metric}
  BY DEF Runs, Effect, Command
<1>2. \A g \in table : g.metric \in Nat
  BY RouteAssumption DEF HostOK, Entries
<1>3. QED BY <1>1, <1>2 DEF Matching, Tunnel

\* What the gate names of the routes the walk has not come to.
LEMMA BelowExcused ==
  ASSUME UNCHANGED applied, NEW m, RoutesBelow(m) \subseteq remaining'
  PROVE  \A k \in 1..(m - 1) : Excused(k)'
<1>1. ASSUME NEW k \in 1..(m - 1) PROVE Excused(k)'
  <2>1. RouteItems(k) \subseteq remaining'
    BY DEF RoutesBelow
  <2>2. QED BY <2>1 DEF RouteItems, Excused, Named, Cidr, Prior
<1>2. QED BY <1>1

LEMMA RouteDelChecked ==
  ASSUME IndInv, CheckInv, RouteDel
  PROVE  CheckInv'
<1>0. PICK m, n : m = i /\ n = Len(applied.routes)
  OBVIOUS
<1> DEFINE c == Command("del", Tunnel(Cidr(m)))
           item == <<"del", Cidr(m)>>
           rest == RouteItems(m) \cup RoutesBelow(m) \cup AddrItems \cup PinItems
<1>1. /\ at = "route_del" /\ m = i /\ n = Len(applied.routes)
      /\ m \in 1..n /\ n \in Nat /\ HostOK /\ RecordInv
      /\ at \in WalkSteps /\ quiet \in BOOLEAN
  BY <1>0 DEF RouteDel, IndInv, TypeOK, PhaseOK, AppliedStates, WalkSteps, CheckInv
<1>2. /\ Cidr(m) \in Prefixes /\ Cidr(m) # Gateway
      /\ \A k \in 1..n : k # m => Cidr(k) # Cidr(m)
  BY <1>1, RecordAt, RouteAssumption DEF IndInv, TypeOK, RecordInv, Cidr
<1>3. c.op = "del" /\ c.entry.dst = Cidr(m)
  BY DEF Command, Tunnel
<1>4. \A k \in (m + 1)..n : ~quiet => Dealt(k)
  BY <1>1 DEF CheckInv, WalkInv
<1>5. PICK end : /\ Runs(c, end)
                 /\ \/ Gate(end, item, rest)
                    \/ Prior(m) = {} /\ Walks(end, item) /\ Undoing(m - 1) /\ UNCHANGED quiet
                    \/ /\ Prior(m) # {} /\ Walks(IF end = "failed" THEN "ok" ELSE end, item)
                       /\ at' = "restore" /\ UNCHANGED i
                       /\ quiet' = (quiet \/ (end = "failed" /\
                                               \E e \in Prior(m) : e.metric # 0))
                 /\ end \in {"ok", "failed", "unconfirmed"}
  BY <1>0 DEF RouteDel, Cidr, Prior
<1> HIDE DEF c
<1>6. ASSUME UNCHANGED applied, errors \subseteq errors', NEW k \in (m + 1)..n, ~quiet
      PROVE  Dealt(k)'
  <2>1. k \in 1..n /\ k # m
    BY <1>1
  <2>2. QED
    BY <1>1, <1>2, <1>3, <1>4, <1>5, <1>6, <2>1, DealtElsewhere
<1>7. CASE Gate(end, item, rest)
  <2>1. /\ UNCHANGED applied
        /\ item \in remaining' /\ rest \subseteq remaining'
    BY <1>7 DEF Gate
  <2>2. Excused(m)'
    BY <2>1 DEF Excused, Named, RouteItems, Cidr, Prior
  <2>3. \A k \in 1..(m - 1) : Excused(k)'
    BY <1>1, <2>1, BelowExcused
  <2>4. \A k \in 1..n : (~quiet => Dealt(k)) \/ Excused(k)'
    BY <1>1, <1>4, <2>2, <2>3
  <2>5. /\ applied.addr => Named(<<"addr_del">>)'
        /\ applied.pin.set => Named(<<"pin_undo">>)'
    BY <2>1 DEF AddrItems, PinItems, Named
  <2> HIDE DEF item, rest
  <2>6. QED
    BY <1>1, <1>2, <1>3, <1>5, <1>7, <2>2, <2>4, <2>5, GateChecked
<1>8. CASE Prior(m) = {} /\ Walks(end, item) /\ Undoing(m - 1) /\ UNCHANGED quiet
  <2>1. /\ UNCHANGED applied /\ errors \subseteq errors'
        /\ end = "failed" => item \in errors'
        /\ end # "unconfirmed"
    BY <1>8 DEF Walks
  <2>2. Dealt(m)'
    <3>1. CASE end = "ok"
      BY <1>1, <1>2, <1>5, <1>8, <2>1, <3>1, DelDeletes DEF c, Dealt, Cidr, Prior
    <3>2. CASE end = "failed"
      BY <1>8, <2>1, <3>2 DEF Dealt, Cidr, Prior
    <3>3. QED BY <1>5, <2>1, <3>1, <3>2
  <2>3. \A k \in m..n : ~quiet' => Dealt(k)'
    <3>1. \A k \in m..n : k = m \/ k \in (m + 1)..n
      BY <1>1
    <3>2. QED BY <1>6, <1>8, <2>1, <2>2, <3>1
  <2>4. m - 1 \in 0..n /\ \A k \in 1..n : k > m - 1 => k \in m..n
    BY <1>1
  <2>5. WalkInv'
    BY <1>1, <1>8, <2>1, <2>3, <2>4, WalkGoesOn
  <2>6. at' \in WalkSteps \cup {"done"}
    BY <1>8 DEF Undoing, UndoFrom, WalkSteps
  <2>7. QED BY <1>1, <1>8, <2>5, <2>6, WalkChecked
<1>9. CASE /\ Walks(IF end = "failed" THEN "ok" ELSE end, item)
           /\ at' = "restore" /\ UNCHANGED i
           /\ quiet' = (quiet \/ (end = "failed" /\ \E e \in Prior(m) : e.metric # 0))
  <2>1. /\ UNCHANGED applied /\ errors \subseteq errors'
        /\ end \in {"ok", "failed"}
    BY <1>5, <1>9 DEF Walks
  <2>2. ASSUME ~quiet' PROVE Tunnel(Cidr(m)) \in table' => \A e \in Prior(m) : e.metric = 0
    <3>1. CASE end = "ok"
      BY <1>1, <1>2, <1>5, <3>1, DelDeletes DEF c
    <3>2. CASE end = "failed"
      BY <1>9, <2>2, <3>2
    <3>3. QED BY <2>1, <3>1, <3>2
  <2>3. \A k \in 1..n : ~quiet' /\ k > m => Dealt(k)'
    <3>1. \A k \in 1..n : k > m => k \in (m + 1)..n
      BY <1>1
    <3>2. QED BY <1>6, <1>9, <2>1, <3>1
  <2>4. WalkInv'
    BY <1>1, <1>9, <2>1, <2>2, <2>3 DEF WalkInv, Cidr, Prior
  <2>5. QED BY <1>1, <1>9, <2>4, WalkChecked DEF WalkSteps
<1>10. QED BY <1>5, <1>7, <1>8, <1>9

LEMMA RestoreChecked ==
  ASSUME IndInv, CheckInv, Restore
  PROVE  CheckInv'
<1>0. PICK m, n : m = i /\ n = Len(applied.routes)
  OBVIOUS
<1> DEFINE item == <<"restore", Cidr(m)>>
           rest == RoutesBelow(m) \cup AddrItems \cup PinItems
<1>1. /\ at = "restore" /\ m = i /\ n = Len(applied.routes)
      /\ m \in 1..n /\ n \in Nat /\ HostOK /\ RecordInv
      /\ at \in WalkSteps
  BY <1>0 DEF Restore, IndInv, TypeOK, PhaseOK, AppliedStates, WalkSteps, CheckInv
<1>2. /\ Cidr(m) \in Prefixes /\ Cidr(m) # Gateway
      /\ \A k \in 1..n : k # m => Cidr(k) # Cidr(m)
  BY <1>1, RecordAt, RouteAssumption DEF IndInv, TypeOK, RecordInv, Cidr
<1>3. /\ \A k \in (m + 1)..n : ~quiet => Dealt(k)
      /\ ~quiet /\ Tunnel(Cidr(m)) \in table => \A e \in Prior(m) : e.metric = 0
  BY <1>1 DEF CheckInv, WalkInv
<1>4. PICK end \in {"ok", "failed", "unconfirmed"}, e \in Prior(m) :
        /\ Runs(Command("replace", e), end)
        /\ \/ Gate(end, item, rest)
           \/ Walks(end, item) /\ Undoing(m - 1) /\ UNCHANGED quiet
  BY <1>0 DEF Restore, Cidr, Prior
<1> DEFINE c == Command("replace", e)
<1>5. e.dst = Cidr(m) /\ e.dev # "tun" /\ Prior(m) = {e}
  BY <1>1, <1>4 DEF RecordInv, OneEntry, NotTunnel
<1>6. Runs(c, end) /\ c.op = "replace" /\ c.entry = e
  BY <1>4 DEF Command
<1> HIDE DEF c
<1>7. CASE Gate(end, item, rest)
  <2>1. /\ UNCHANGED applied
        /\ item \in remaining' /\ rest \subseteq remaining'
    BY <1>7 DEF Gate
  <2>2. Excused(m)'
    BY <2>1 DEF Excused, Named, Cidr
  <2>3. \A k \in 1..(m - 1) : Excused(k)'
    BY <1>1, <2>1, BelowExcused
  <2>4. \A k \in 1..n : (~quiet => Dealt(k)) \/ Excused(k)'
    BY <1>1, <1>3, <2>2, <2>3
  <2>5. /\ applied.addr => Named(<<"addr_del">>)'
        /\ applied.pin.set => Named(<<"pin_undo">>)'
    BY <2>1 DEF AddrItems, PinItems, Named
  <2> HIDE DEF item, rest
  <2>6. QED
    BY <1>1, <1>2, <1>5, <1>6, <1>7, <2>2, <2>4, <2>5, GateChecked
<1>8. CASE Walks(end, item) /\ Undoing(m - 1) /\ UNCHANGED quiet
  <2>1. /\ UNCHANGED applied /\ errors \subseteq errors'
        /\ end = "failed" => item \in errors'
        /\ end # "unconfirmed"
    BY <1>8 DEF Walks
  <2>2. ~quiet => Dealt(m)'
    <3>1. CASE end = "ok" /\ ~quiet
      <4>1. table' = (table \ SameKey(e)) \cup {e}
        BY <1>4, <3>1 DEF Runs, Effect, Command
      <4>2. Tunnel(Cidr(m)) \notin table'
        BY <1>3, <1>5, <3>1, <4>1 DEF SameKey, Tunnel
      <4>3. Prior(m) \subseteq table'
        BY <1>5, <4>1
      <4>4. QED BY <2>1, <4>2, <4>3 DEF Dealt, Cidr, Prior
    <3>2. CASE end = "failed"
      BY <2>1, <3>2 DEF Dealt, Cidr
    <3>3. QED BY <1>4, <2>1, <3>1, <3>2
  <2>3. \A k \in m..n : ~quiet' => Dealt(k)'
    <3>1. ASSUME NEW k \in (m + 1)..n, ~quiet PROVE Dealt(k)'
      <4>1. k \in 1..n /\ k # m
        BY <1>1
      <4>2. QED
        BY <1>1, <1>2, <1>3, <1>5, <1>6, <2>1, <3>1, <4>1, DealtElsewhere
    <3>2. \A k \in m..n : k = m \/ k \in (m + 1)..n
      BY <1>1
    <3>3. QED BY <1>8, <2>2, <3>1, <3>2
  <2>4. m - 1 \in 0..n /\ \A k \in 1..n : k > m - 1 => k \in m..n
    BY <1>1
  <2>5. WalkInv'
    BY <1>1, <1>8, <2>1, <2>3, <2>4, WalkGoesOn
  <2>6. at' \in WalkSteps \cup {"done"}
    BY <1>8 DEF Undoing, UndoFrom, WalkSteps
  <2>7. QED BY <1>1, <1>8, <2>5, <2>6, WalkChecked
<1>9. QED BY <1>4, <1>7, <1>8

LEMMA AddrDelChecked ==
  ASSUME IndInv, CheckInv, AddrDel
  PROVE  CheckInv'
<1> DEFINE c == Command("addr_del", NoEntry)
<1>1. /\ at = "addr_del" /\ at \in WalkSteps /\ RecordInv
      /\ ~quiet => \A k \in 1..Len(applied.routes) : Dealt(k)
  BY DEF AddrDel, WalkSteps, CheckInv, WalkInv
<1>2. PICK end : /\ Runs(c, end)
                 /\ \/ Gate(end, <<"addr_del">>, PinItems)
                    \/ /\ Walks(end, <<"addr_del">>)
                       /\ at' = IF applied.pin.set THEN "pin_undo" ELSE "done"
                       /\ UNCHANGED <<i, quiet>>
                 /\ end \in {"ok", "failed", "unconfirmed"}
  BY DEF AddrDel
<1>3. c.op = "addr_del" /\ ~MovesRoutes(c)
  BY DEF Command, MovesRoutes
<1>4. CASE Gate(end, <<"addr_del">>, PinItems)
  <2>1. /\ Named(<<"addr_del">>)'
        /\ applied.pin.set => Named(<<"pin_undo">>)'
    BY <1>4 DEF Gate, Named, PinItems
  <2> HIDE DEF c
  <2>2. QED BY <1>1, <1>2, <1>3, <1>4, <2>1, GateChecked
<1>5. CASE /\ Walks(end, <<"addr_del">>)
           /\ at' = IF applied.pin.set THEN "pin_undo" ELSE "done"
           /\ UNCHANGED <<i, quiet>>
  <2>1. /\ UNCHANGED applied /\ errors \subseteq errors'
        /\ end = "failed" => <<"addr_del">> \in errors'
        /\ end # "unconfirmed"
    BY <1>5 DEF Walks
  <2>2. addr' => <<"addr_del">> \in errors'
    BY <1>2, <2>1 DEF Runs, Effect, Command
  <2> HIDE DEF c
  <2>3. ~quiet => \A k \in 1..Len(applied.routes) : Dealt(k)'
    BY <1>1, <1>2, <1>3, <2>1, DealtElsewhere
  <2>4. WalkInv'
    BY <1>5, <2>1, <2>2, <2>3 DEF WalkInv
  <2>5. QED BY <1>1, <1>5, <2>4, WalkChecked DEF WalkSteps
<1>6. QED BY <1>2, <1>4, <1>5

LEMMA PinUndoChecked ==
  ASSUME IndInv, CheckInv, PinUndo
  PROVE  CheckInv'
<1>1. /\ at = "pin_undo" /\ at \in WalkSteps /\ RecordInv
      /\ ~quiet => \A k \in 1..Len(applied.routes) : Dealt(k)
      /\ ~quiet /\ applied.addr /\ addr => <<"addr_del">> \in errors
  BY DEF PinUndo, WalkSteps, CheckInv, WalkInv
<1> DEFINE undo == IF applied.pin.prior = {} THEN {Command("del", Pin)}
                   ELSE {Command("replace", e) : e \in applied.pin.prior}
<1>2. PICK end \in {"ok", "failed", "unconfirmed"}, c \in undo :
        /\ Runs(c, end)
        /\ \/ Gate(end, <<"pin_undo">>, {})
           \/ Walks(end, <<"pin_undo">>) /\ at' = "done" /\ UNCHANGED <<i, quiet>>
  BY ZenonT(30) DEF PinUndo
<1>3. c.op # "addr_add" /\ c.entry.dst = Gateway
  BY <1>1, <1>2 DEF Command, Pin, RecordInv, OneEntry
<1>4. CASE Gate(end, <<"pin_undo">>, {})
  <2>1. /\ Named(<<"pin_undo">>)'
        /\ errors \subseteq remaining'
    BY <1>4 DEF Gate, Named
  <2>2. ~quiet /\ applied.addr /\ addr => Named(<<"addr_del">>)'
    BY <1>1, <2>1 DEF Named
  <2>3. \A k \in 1..Len(applied.routes) : c.entry.dst # Cidr(k)
    BY <1>3, RecordAt, RouteAssumption DEF IndInv, TypeOK, Cidr
  <2>4. QED BY <1>1, <1>2, <1>3, <1>4, <2>1, <2>2, <2>3, GateChecked
<1>5. CASE Walks(end, <<"pin_undo">>) /\ at' = "done"
  <2>1. UNCHANGED <<applied, quiet>> /\ errors \subseteq errors'
    BY <1>2, <1>5 DEF Walks, Gate
  <2>2. addr' => addr
    BY <1>2, <1>3 DEF Runs, Effect, host
  <2>3. \A k \in 1..Len(applied.routes) : c.entry.dst # Cidr(k)
    BY <1>3, RecordAt, RouteAssumption DEF IndInv, TypeOK, Cidr
  <2> HIDE DEF undo
  <2>4. ~quiet => \A k \in 1..Len(applied.routes) : Dealt(k)'
    BY <1>1, <1>2, <2>1, <2>3, DealtElsewhere
  <2>5. WalkInv'
    BY <1>1, <1>5, <2>1, <2>2, <2>4 DEF WalkInv, WalkSteps
  <2>6. QED BY <1>1, <1>5, <2>5, WalkChecked
<1>6. QED BY <1>2, <1>4, <1>5

\* The child that outlived its kill.
LEMMA LiveActsChecked ==
  ASSUME IndInv, CheckInv, LiveActs
  PROVE  CheckInv'
<1>1. PICK c \in live : Effect(c)
  BY DEF LiveActs
<1>2. /\ at = "done" /\ live' = {} /\ gated
      /\ UNCHANGED <<at, mode, i, prior, applied, errors, remaining, gated, quiet>>
  BY <1>1 DEF LiveActs, IndInv, GateInv, report, ghosts
<1>3. RecordInv' /\ WalkInv'
  BY <1>2, WalkRecorded DEF CheckInv, WalkInv, WalkSteps
<1>4. ASSUME gated, mode # "apply", ~quiet PROVE ChecklistComplete'
  <2>1. Foreseen(c) /\ ChecklistComplete /\ RecordInv
    BY <1>1, <1>4 DEF CheckInv, GatedInv
  <2>2. ASSUME NEW k \in 1..Len(applied.routes)
        PROVE  /\ Tunnel(Cidr(k)) \in table' =>
                    Named(<<"del", Cidr(k)>>) \/ Named(<<"restore", Cidr(k)>>)
               /\ ~(Prior(k) \subseteq table') => Named(<<"restore", Cidr(k)>>)
    <3>1. CASE Excused(k)
      BY <3>1 DEF Excused
    <3>2. CASE MovesRoutes(c) => c.entry.dst # Cidr(k)
      <4>1. \A e : e.dst = Cidr(k) => (e \in table' <=> e \in table)
        BY <1>1, <3>2, EffectElsewhere
      <4>2. Tunnel(Cidr(k)) \in table' <=> Tunnel(Cidr(k)) \in table
        BY <4>1 DEF Tunnel
      <4>3. Prior(k) \subseteq table' <=> Prior(k) \subseteq table
        BY <2>1, <4>1 DEF RecordInv, OneEntry
      <4>4. QED BY <1>4, <2>1, <4>2, <4>3 DEF ChecklistComplete, Cidr, Prior
    <3>3. QED BY <2>1, <3>1, <3>2 DEF Foreseen
  <2>3. addr' => addr
    BY <1>1, <2>1 DEF Foreseen, Effect
  <2>4. Named(<<"pin_undo">>) \/
          /\ Pin \in table' <=> Pin \in table
          /\ applied.pin.prior \subseteq table' <=> applied.pin.prior \subseteq table
    <3>1. CASE MovesRoutes(c) => c.entry.dst # Gateway
      <4>1. \A e : e.dst = Gateway => (e \in table' <=> e \in table)
        BY <1>1, <3>1, EffectElsewhere
      <4>2. Pin \in table' <=> Pin \in table
        BY <4>1 DEF Pin
      <4>3. applied.pin.prior \subseteq table' <=> applied.pin.prior \subseteq table
        BY <2>1, <4>1 DEF RecordInv, OneEntry
      <4>4. QED BY <4>2, <4>3
    <3>2. QED BY <2>1, <3>1 DEF Foreseen
  <2>5. QED
    BY <1>2, <1>4, <2>1, <2>2, <2>3, <2>4 DEF ChecklistComplete, Named, Cidr, Prior
<1>5. ChecklistComplete'
  BY <1>2, <1>4 DEF ChecklistComplete
<1>6. QED BY <1>2, <1>3, <1>5 DEF CheckInv, GatedInv

LEMMA TunVanishesChecked ==
  ASSUME IndInv, CheckInv, TunVanishes
  PROVE  CheckInv'
<1>1. /\ at # "done" /\ addr' = FALSE
      /\ table' = {e \in table : e.dev # "tun"}
      /\ UNCHANGED <<at, mode, i, prior, applied, errors, remaining, gated, quiet>>
      /\ RecordInv /\ WalkInv /\ ~gated
  BY DEF TunVanishes, report, ghosts, CheckInv, GatedInv
<1>2. RecordInv'
  BY <1>1 DEF RecordInv, Cidr, Prior, OneEntry, NotTunnel
<1>3. \A k \in 1..Len(applied.routes) : Dealt(k) => Dealt(k)'
  BY <1>1 DEF Dealt, RecordInv, NotTunnel, Cidr, Prior, Tunnel
<1>4. Tunnel(Cidr(i)) \notin table'
  BY <1>1 DEF Tunnel
<1>5. WalkInv'
  BY <1>1, <1>3, <1>4 DEF WalkInv, Cidr
<1>6. QED BY <1>1, <1>2, <1>5 DEF CheckInv, GatedInv, ChecklistComplete

LEMMA RevertChecked ==
  ASSUME IndInv, CheckInv, Revert
  PROVE  CheckInv'
<1>1. /\ at = "up" /\ UNCHANGED <<applied, gated, prior>> /\ ~gated
      /\ Undoing(Len(applied.routes))
      /\ Len(applied.routes) \in Nat
  BY DEF Revert, report, CheckInv, GatedInv, IndInv, TypeOK, PhaseOK, AppliedStates
<1>2. RecordInv'
  BY <1>1, WalkRecorded DEF CheckInv, Undoing, UndoFrom, WalkSteps
<1>3. WalkInv'
  BY <1>1, WalkGoesOn
<1>4. QED BY <1>1, <1>2, <1>3 DEF CheckInv, GatedInv, ChecklistComplete

LEMMA CheckInvariant == Spec => []CheckInv
<1>1. Init => CheckInv
  <2> SUFFICES ASSUME Init PROVE CheckInv
    OBVIOUS
  <2>1. /\ applied.routes = <<>> /\ applied.pin.prior = {}
        /\ at = "link_up" /\ ~gated
    BY DEF Init, NoPin
  <2>2. Len(applied.routes) = 0
    BY <2>1
  <2>3. RecordInv
    BY <2>1, <2>2 DEF RecordInv, OneEntry, ApplySteps
  <2>4. QED
    BY <2>1, <2>3 DEF CheckInv, WalkInv, WalkSteps, GatedInv, ChecklistComplete
<1>2. IndInv /\ CheckInv /\ [Next]_vars => CheckInv'
  <2> SUFFICES ASSUME IndInv, CheckInv, [Next]_vars PROVE CheckInv'
    OBVIOUS
  <2>1. CASE UNCHANGED vars
    BY <2>1 DEF vars, host, report, ghosts, CheckInv, RecordInv, WalkInv, GatedInv, Dealt, Cidr,
       Prior, OneEntry, NotTunnel, Foreseen, Excused, Named, MovesRoutes, ChecklistComplete
  <2>2. CASE Commands
    BY <2>2, ApplyCommandsChecked, RouteDelChecked, RestoreChecked, AddrDelChecked,
       PinUndoChecked DEF Commands, ApplyCommands
  <2>3. QED
    BY <2>1, <2>2, RevertChecked, LiveActsChecked, TunVanishesChecked DEF Next, Finished
<1>3. QED BY <1>1, <1>2, Invariant, PTL DEF Spec


-----------------------------------------------------------------------------
(* What is given back.                                                     *)

\* A table with none of the gateway's host routes that are odd.
ToGateway(t) == {e \in t : e.dst = Gateway}
Plain(t) == \A e \in ToGateway(t) : e.metric = 0 /\ e.dev # "nodev"

\* No failure so far, seen or unseen.
Sound == ~Slip /\ ~gated

\* A foreign entry for a split prefix was there, and is there or recorded.
PrefixesKept ==
  \A e : e.dst \in Prefixes /\ e.dev # "tun" =>
    (e \in table0 <=> e \in table \/ \E k \in 1..Len(applied.routes) : e \in Prior(k))

\* So is one for the gateway, until the pin is gone again.
GatewayKept ==
  /\ Plain(table0) => Plain(table) /\ Plain(applied.pin.prior)
  /\ at \in FirstSteps => ~applied.pin.set
  /\ at = "pin_undo" => applied.pin.set
  /\ at = "pin_replace" /\ Plain(table0) => Plain(prior) /\ Foreign(prior) = Foreign(ToGateway(table))
  /\ applied.pin.set /\ at # "done" => Foreign(ToGateway(table0)) = Foreign(applied.pin.prior)
  /\ ~applied.pin.set \/ at = "done" => Foreign(ToGateway(table0)) = Foreign(ToGateway(table))

BackOK ==
  /\ PrefixesKept /\ GatewayKept
  /\ at = "route_replace" => prior \subseteq table
  /\ addr => applied.addr

BackInv ==
  /\ at \in ApplySteps => errors = {}
  /\ Sound => BackOK

LEMMA PlainIsNotOdd == Plain(table0) <=> ~OddGateway
BY DEF Plain, ToGateway, OddGateway

LEMMA SoundRuns ==
  ASSUME NEW c, NEW end, Runs(c, end), Sound', end # "unconfirmed"
  PROVE  \/ end = "ok" /\ CanDo(c) /\ Effect(c)
         \/ end = "failed" /\ UNCHANGED <<table, addr>>
BY DEF Runs, host, Sound, Slip

LEMMA PrefixesStay ==
  ASSUME PrefixesKept, UNCHANGED table0, applied'.routes = applied.routes,
         \A p \in Prefixes : Others(p)' = Others(p)
  PROVE  PrefixesKept'
<1> SUFFICES ASSUME NEW e, e.dst \in Prefixes, e.dev # "tun"
             PROVE  e \in table0' <=>
                      e \in table' \/ \E k \in 1..Len(applied'.routes) : e \in Prior(k)'
  BY DEF PrefixesKept
<1>1. e \in table' <=> e \in table
  BY DEF Others
<1>2. \A k : Prior(k)' = Prior(k)
  BY DEF Prior
<1>3. QED BY <1>1, <1>2 DEF PrefixesKept

LEMMA GatewayStays ==
  ASSUME GatewayKept, at # "done", UNCHANGED table0, applied'.pin = applied.pin,
         at' = "done" => ~applied.pin.set,
         \A e : e.dst = Gateway => (e \in table' <=> e \in table),
         at' \in FirstSteps => at \in FirstSteps, at' # "pin_replace",
         at' = "pin_undo" => applied.pin.set
  PROVE  GatewayKept'
<1>1. ToGateway(table') = ToGateway(table)
  BY DEF ToGateway
<1>2. QED BY <1>1 DEF GatewayKept, Plain, ToGateway, Foreign

\* A step whose command moves nobody else's entry, and none for the gateway.
LEMMA BackStays ==
  ASSUME BackOK, at # "done", UNCHANGED table0, applied'.routes = applied.routes,
         applied'.pin = applied.pin, at' = "done" => ~applied.pin.set,
         NEW c, NEW end, Harmless(c), MovesRoutes(c) => c.entry.dst # Gateway,
         Runs(c, end) \/ UNCHANGED host,
         at' \in FirstSteps => at \in FirstSteps, at' # "pin_replace", at' # "route_replace",
         at' = "pin_undo" => applied.pin.set,
         addr' => applied'.addr
  PROVE  BackOK'
<1>1. \A p \in Prefixes : Others(p)' = Others(p)
  BY HarmlessRuns DEF Others, host
<1>2. \A e : e.dst = Gateway => (e \in table' <=> e \in table)
  BY RunsElsewhere DEF host
<1>3. PrefixesKept'
  BY <1>1, PrefixesStay DEF BackOK
<1>4. GatewayKept'
  BY <1>2, GatewayStays DEF BackOK
<1>5. QED BY <1>3, <1>4 DEF BackOK

\* The failure of a command that is not one of the rollback's.
LEMMA FailsBack ==
  ASSUME BackOK, Sound, Sound', at \in ApplySteps, UNCHANGED ghosts,
         NEW c, NEW end, Runs(c, end), Fails(end)
  PROVE  BackOK'
<1>1. end # "unconfirmed" /\ end = "failed"
  BY DEF Fails, Sound
<1>2. UNCHANGED <<table, addr>>
  BY <1>1, SoundRuns
<1>3. /\ at # "done" /\ UNCHANGED <<applied, table0>>
      /\ at' \in {"route_del", "addr_del", "pin_undo", "done"}
      /\ at' = "done" => ~applied.pin.set
      /\ at' = "pin_undo" => applied.pin.set
  BY <1>1 DEF Fails, Undoing, UndoFrom, ghosts, ApplySteps
<1>4. PrefixesKept'
  BY <1>2, <1>3, PrefixesStay DEF BackOK, Others
<1>5. GatewayKept'
  BY <1>2, <1>3, GatewayStays DEF BackOK, FirstSteps
<1>6. QED BY <1>2, <1>3, <1>4, <1>5 DEF BackOK

LEMMA LinkUpBack ==
  ASSUME BackOK, Sound, Sound', LinkUp
  PROVE  BackOK'
<1> DEFINE c == Command("link_up", NoEntry)
<1>1. PICK end \in {"ok", "failed", "unconfirmed"} :
        /\ Runs(c, end)
        /\ \/ end = "ok" /\ Goes(AfterLink) /\ UNCHANGED <<prior, applied>>
           \/ end # "ok" /\ Fails(end)
  BY DEF LinkUp
<1>2. at = "link_up" /\ UNCHANGED ghosts
  BY DEF LinkUp
<1>3. Harmless(c) /\ ~MovesRoutes(c) /\ c.op = "link_up"
  BY DEF Command, Harmless, MovesRoutes
<1>4. AfterLink \in {"addr_add", "pin_show", "route_add", "up"}
  BY DEF AfterLink, AfterAddr, RoutesFrom
<1> HIDE DEF c
<1>5. CASE end = "ok" /\ Goes(AfterLink) /\ UNCHANGED applied
  <2>1. addr' => addr
    BY <1>1, <1>3, <1>5 DEF Runs, Effect
  <2>2. at' \in {"addr_add", "pin_show", "route_add", "up"}
    BY <1>4, <1>5 DEF Goes
  <2>3. QED
    BY <1>1, <1>2, <1>3, <1>5, <2>1, <2>2, BackStays DEF ghosts, FirstSteps, BackOK
<1>6. CASE Fails(end)
  BY <1>1, <1>2, <1>6, FailsBack DEF ApplySteps
<1>7. QED BY <1>1, <1>5, <1>6

LEMMA AddrAddBack ==
  ASSUME PhaseOK, BackOK, Sound, Sound', AddrAdd
  PROVE  BackOK'
<1> DEFINE c == Command("addr_add", NoEntry)
<1>1. PICK end \in {"ok", "failed", "unconfirmed"} :
        /\ Runs(c, end)
        /\ \/ /\ end = "ok" /\ applied' = [applied EXCEPT !.addr = TRUE]
              /\ Goes(AfterAddr) /\ UNCHANGED prior
           \/ end # "ok" /\ Fails(end)
  BY DEF AddrAdd
<1>2. at = "addr_add" /\ UNCHANGED ghosts
  BY DEF AddrAdd
<1>3. Harmless(c) /\ ~MovesRoutes(c)
  BY DEF Command, Harmless, MovesRoutes
<1>4. AfterAddr \in {"pin_show", "route_add", "up"}
  BY DEF AfterAddr, RoutesFrom
<1> HIDE DEF c
<1>5. CASE applied' = [applied EXCEPT !.addr = TRUE] /\ Goes(AfterAddr)
  <2>1. /\ applied'.addr /\ applied'.routes = applied.routes /\ applied'.pin = applied.pin
    BY <1>5 DEF PhaseOK, AppliedStates
  <2>2. at' \in {"pin_show", "route_add", "up"}
    BY <1>4, <1>5 DEF Goes
  <2>3. QED
    BY <1>1, <1>2, <1>3, <2>1, <2>2, BackStays DEF ghosts, FirstSteps
<1>6. CASE Fails(end)
  BY <1>1, <1>2, <1>6, FailsBack DEF ApplySteps
<1>7. QED BY <1>1, <1>5, <1>6

\* The entry captured is all there is for the gateway.
LEMMA PinShowBack ==
  ASSUME BackOK, Sound, Sound', PinShow
  PROVE  BackOK'
<1> DEFINE c == Command("show", NoEntry)
<1>1. PICK end \in {"ok", "failed", "unconfirmed"} :
        /\ Runs(c, end)
        /\ \/ /\ end = "ok" /\ prior' = Restorable(First({e \in table : e.dst = Gateway}))
              /\ Goes("pin_replace") /\ UNCHANGED applied
           \/ end # "ok" /\ Fails(end)
  BY DEF PinShow
<1>2. at = "pin_show" /\ UNCHANGED ghosts
  BY DEF PinShow
<1>3. c.op = "show"
  BY DEF Command
<1> HIDE DEF c
<1>4. CASE /\ end = "ok" /\ prior' = Restorable(First({e \in table : e.dst = Gateway}))
           /\ Goes("pin_replace") /\ UNCHANGED applied
  <2>1. UNCHANGED <<table, applied, table0>> /\ (addr' => addr) /\ at' = "pin_replace"
    BY <1>1, <1>2, <1>3, <1>4 DEF Runs, Effect, Goes, ghosts
  <2>2. (Plain(table0) => Plain(table)) /\ ~applied.pin.set
    BY <1>2 DEF BackOK, GatewayKept, FirstSteps
  <2>3. Plain(table0) => prior' = ToGateway(table)
    BY <1>4, <2>2 DEF Restorable, First, ToGateway, Plain
  <2>4. Plain(table0) => Plain(prior') /\ Foreign(prior') = Foreign(ToGateway(table'))
    BY <2>1, <2>2, <2>3 DEF Plain, ToGateway, Foreign
  <2>5. GatewayKept'
    BY <1>2, <2>1, <2>2, <2>4 DEF BackOK, GatewayKept, Plain, ToGateway, Foreign
  <2>6. PrefixesKept'
    BY <2>1, PrefixesStay DEF BackOK, Others
  <2>7. QED BY <2>1, <2>5, <2>6 DEF BackOK
<1>5. CASE Fails(end)
  BY <1>1, <1>2, <1>5, FailsBack DEF ApplySteps
<1>6. QED BY <1>1, <1>4, <1>5

\* A replace leaves the entry it sets as the only one for the gateway.
LEMMA ReplacesGateway ==
  ASSUME Plain(table), NEW e, e.dst = Gateway, e.metric = 0,
         Effect(Command("replace", e))
  PROVE  ToGateway(table') = {e}
<1>1. table' = (table \ SameKey(e)) \cup {e}
  BY DEF Effect, Command
<1>2. QED BY <1>1 DEF Plain, ToGateway, SameKey

LEMMA PinReplaceBack ==
  ASSUME PhaseOK, BackOK, Sound, Sound', PinReplace
  PROVE  BackOK'
<1> DEFINE c == Command("replace", Pin)
<1>1. PICK end \in {"ok", "failed", "unconfirmed"} :
        /\ Runs(c, end)
        /\ \/ /\ end = "ok" /\ applied' = [applied EXCEPT !.pin = [set |-> TRUE, prior |-> prior]]
              /\ prior' = {} /\ Goes(RoutesFrom(1))
           \/ end # "ok" /\ Fails(end)
  BY DEF PinReplace
<1>2. at = "pin_replace" /\ UNCHANGED ghosts
  BY DEF PinReplace
<1>3. Harmless(c)
  BY DEF Command, Harmless, Pin
<1>4. CASE /\ end = "ok" /\ applied' = [applied EXCEPT !.pin = [set |-> TRUE, prior |-> prior]]
           /\ Goes(RoutesFrom(1))
  <2>1. Effect(c) /\ (addr' => addr) /\ UNCHANGED table0
    BY <1>1, <1>2, <1>4 DEF Runs, Effect, Command, ghosts
  <2>2. /\ applied'.routes = applied.routes /\ applied'.addr = applied.addr
        /\ applied'.pin.set /\ applied'.pin.prior = prior
    BY <1>4 DEF PhaseOK, AppliedStates
  <2>3. at' \in {"route_add", "up"}
    BY <1>4 DEF Goes, RoutesFrom
  <2>p. Plain(table0)
    BY <2>1, <2>2, PlainIsNotOdd DEF Sound, Slip, OddGateway
  <2>4. /\ Plain(table) /\ Plain(prior) /\ ~applied.pin.set
        /\ Foreign(prior) = Foreign(ToGateway(table))
        /\ Foreign(ToGateway(table0)) = Foreign(ToGateway(table))
    BY <1>2, <2>p DEF BackOK, GatewayKept, FirstSteps
  <2>5. ToGateway(table') = {Pin}
    BY <2>1, <2>4, ReplacesGateway DEF Pin
  <2>6. Plain(table')
    BY <2>5 DEF Plain, Pin
  <2>7. \A e : e \in Foreign(ToGateway(table0')) <=> e \in Foreign(applied'.pin.prior)
    BY <2>1, <2>2, <2>4
  <2>8. Plain(applied'.pin.prior)
    BY <2>2, <2>4
  <2>9. Foreign(ToGateway(table0')) = Foreign(applied'.pin.prior)
    BY <2>1, <2>2, <2>4
  <2>10. GatewayKept'
    BY <2>2, <2>3, <2>6, <2>8, <2>9 DEF GatewayKept, FirstSteps, Plain, ToGateway, Foreign
  <2> HIDE DEF c
  <2>11. PrefixesKept'
    BY <1>1, <1>3, <2>1, <2>2, HarmlessRuns, PrefixesStay DEF BackOK
  <2>12. QED BY <2>1, <2>2, <2>3, <2>10, <2>11 DEF BackOK
<1>5. CASE Fails(end)
  BY <1>1, <1>2, <1>5, FailsBack DEF ApplySteps
<1>6. QED BY <1>1, <1>4, <1>5

\* A step that records a route with what it displaced.
LEMMA RecordBack ==
  ASSUME PhaseOK, BackOK, UNCHANGED table0, NEW displaced, Record(displaced),
         at \in {"route_add", "route_show", "route_replace"},
         addr' => addr, displaced \subseteq table,
         \A e : e.dst = Gateway => (e \in table' <=> e \in table),
         \A e : e.dst \in Prefixes /\ e.dev # "tun" =>
           /\ e \in table' => e \in table
           /\ e \in table => e \in table' \/ e \in displaced
  PROVE  BackOK'
<1>0. PICK n, p : n = Len(applied.routes) /\ p = Routes[i]
  OBVIOUS
<1> DEFINE r == [cidr |-> p, prior |-> displaced]
<1>1. /\ n = Len(applied.routes) /\ n \in Nat
      /\ applied.routes \in Seq([cidr : Prefixes, prior : SUBSET Entries])
  BY <1>0 DEF PhaseOK, AppliedStates
<1>2. /\ applied'.routes = Append(applied.routes, r)
      /\ applied'.pin = applied.pin /\ applied'.addr = applied.addr
      /\ at' \in {"route_add", "up"}
  BY <1>0 DEF Record, NextRoute, RoutesFrom, PhaseOK, AppliedStates
<1>3. /\ Len(applied'.routes) = n + 1
      /\ applied'.routes[n + 1] = r
      /\ \A k \in 1..n : applied'.routes[k] = applied.routes[k]
  BY <1>1, <1>2
<1>4. /\ Prior(n + 1)' = displaced
      /\ \A k \in 1..n : Prior(k)' = Prior(k)
  BY <1>1, <1>3 DEF Prior
<1>5. n + 1 \in 1..(n + 1) /\ \A k \in 1..(n + 1) : k = n + 1 \/ k \in 1..n
  BY <1>1
<1>6. \A k \in 1..n : k \in 1..(n + 1)
  BY <1>1
<1>7. ASSUME NEW e, e.dst \in Prefixes, e.dev # "tun"
      PROVE  e \in table0' <=> e \in table' \/ \E k \in 1..(n + 1) : e \in Prior(k)'
  <2>1. e \in table0 <=> e \in table \/ \E k \in 1..n : e \in Prior(k)
    BY <1>1, <1>7 DEF BackOK, PrefixesKept
  <2>2. (\E k \in 1..(n + 1) : e \in Prior(k)') <=>
          e \in displaced \/ \E k \in 1..n : e \in Prior(k)
    BY <1>4, <1>5, <1>6
  <2>3. QED BY <1>7, <2>1, <2>2
<1> HIDE DEF r
<1>8. PrefixesKept'
  BY <1>3, <1>7 DEF PrefixesKept
<1>9. GatewayKept'
  BY <1>2, GatewayStays DEF BackOK, FirstSteps
<1>10. QED BY <1>2, <1>8, <1>9 DEF BackOK

LEMMA RouteAddBack ==
  ASSUME PhaseOK, BackOK, Sound, Sound', RouteAdd
  PROVE  BackOK'
<1>0. PICK new : new = Tunnel(Routes[i])
  OBVIOUS
<1> DEFINE c == Command("add", new)
<1>1. /\ at = "route_add" /\ UNCHANGED ghosts /\ i \in 1..Len(Routes)
      /\ new.dst \in Prefixes /\ new.dev = "tun" /\ new.dst # Gateway
  BY <1>0, EntriesUsed, RouteAssumption DEF RouteAdd, PhaseOK, Tunnel
<1>2. Harmless(c) /\ c.entry = new /\ c.op = "add"
  BY <1>1 DEF Command, Harmless
<1>3. \/ Runs(c, "ok") /\ Record({})
      \/ Goes("route_show") /\ UNCHANGED <<host, prior, applied>>
      \/ \E end \in {"failed", "unconfirmed"} : Runs(c, end) /\ Fails(end)
  BY <1>0 DEF RouteAdd
<1> HIDE DEF c
<1>4. CASE Runs(c, "ok") /\ Record({})
  <2>1. /\ addr' => addr
        /\ \A e : e.dst = Gateway => (e \in table' <=> e \in table)
        /\ \A e : e.dst \in Prefixes /\ e.dev # "tun" => (e \in table' <=> e \in table)
    <3>1. table' = (table \ SameKey(new)) \cup {new} /\ SameKey(new) = {}
      BY <1>2, <1>4 DEF Runs, Effect, CanDo
    <3>2. addr' => addr
      BY <1>2, <1>4 DEF Runs, Effect
    <3>3. QED BY <1>1, <3>1, <3>2
  <2>2. QED BY <1>1, <1>4, <2>1, RecordBack DEF ghosts
<1>5. CASE Goes("route_show") /\ UNCHANGED <<host, prior, applied>>
  <2>1. at' = "route_show" /\ (addr' => addr)
    BY <1>5 DEF Goes, host
  <2>2. MovesRoutes(c) => c.entry.dst # Gateway
    BY <1>1, <1>2
  <2>3. QED
    BY <1>1, <1>2, <1>5, <2>1, <2>2, BackStays DEF ghosts, FirstSteps, BackOK
<1>6. CASE \E end \in {"failed", "unconfirmed"} : Runs(c, end) /\ Fails(end)
  BY <1>1, <1>6, FailsBack DEF ApplySteps
<1>7. QED BY <1>3, <1>4, <1>5, <1>6

LEMMA RouteShowBack ==
  ASSUME BackOK, Sound, Sound', RouteShow
  PROVE  BackOK'
<1> DEFINE c == Command("show", NoEntry)
<1>1. at = "route_show" /\ UNCHANGED ghosts
  BY DEF RouteShow
<1>2. PICK end \in {"ok", "failed", "unconfirmed"} :
        /\ Runs(c, end)
        /\ \/ \E seen \in SUBSET table : Resolve(seen)
           \/ Fails(end)
  BY DEF RouteShow, Restorable, Others
<1>3. Harmless(c) /\ ~MovesRoutes(c) /\ c.op = "show"
  BY DEF Command, Harmless, MovesRoutes
<1> HIDE DEF c
<1>4. ASSUME Fails(end) PROVE BackOK'
  BY <1>1, <1>2, <1>4, FailsBack DEF ApplySteps
<1>5. ASSUME NEW seen \in SUBSET table, Resolve(seen) PROVE BackOK'
  <2>1. UNCHANGED table /\ (addr' => addr)
    <3>1. CASE Effect(c)
      BY <1>3, <3>1 DEF Effect
    <3>2. CASE UNCHANGED <<table, addr>>
      BY <3>2
    <3>3. QED BY <1>2, <3>1, <3>2 DEF Runs, host
  <2>2. CASE NextRoute /\ UNCHANGED applied
    <3>1. at' \in {"route_add", "up"}
      BY <2>2 DEF NextRoute, RoutesFrom
    <3>2. QED
      BY <1>1, <1>2, <1>3, <2>1, <2>2, <3>1, BackStays DEF ghosts, FirstSteps, BackOK
  <2>3. CASE prior' = seen /\ Goes("route_replace") /\ UNCHANGED applied
    <3>1. at' = "route_replace" /\ prior' \subseteq table'
      BY <1>5, <2>1, <2>3 DEF Goes
    <3>2. PrefixesKept'
      BY <1>1, <2>1, <2>3, PrefixesStay DEF BackOK, Others, ghosts
    <3>3. GatewayKept'
      BY <1>1, <2>1, <2>3, <3>1, GatewayStays DEF BackOK, FirstSteps, ghosts
    <3>4. QED BY <2>1, <2>3, <3>1, <3>2, <3>3 DEF BackOK
  <2>4. CASE Fails("failed")
    <3>1. /\ at # "done" /\ UNCHANGED <<applied, table0>>
          /\ at' \in {"route_del", "addr_del", "pin_undo", "done"}
          /\ at' = "done" => ~applied.pin.set
          /\ at' = "pin_undo" => applied.pin.set
      BY <1>1, <2>4 DEF Fails, Undoing, UndoFrom, ghosts
    <3>2. QED
      BY <1>1, <1>2, <1>3, <2>1, <3>1, BackStays DEF FirstSteps, BackOK
  <2>5. QED BY <1>5, <2>2, <2>3, <2>4 DEF Resolve
<1>6. QED BY <1>2, <1>4, <1>5

LEMMA RouteReplaceBack ==
  ASSUME PhaseOK, BackOK, Sound, Sound', RouteReplace
  PROVE  BackOK'
<1>0. PICK new : new = Tunnel(Routes[i])
  OBVIOUS
<1> DEFINE c == Command("replace", new)
<1>1. /\ at = "route_replace" /\ UNCHANGED table0 /\ i \in 1..Len(Routes)
      /\ new.dst \in Prefixes /\ new.dev = "tun" /\ new.dst # Gateway
  BY <1>0, EntriesUsed, RouteAssumption DEF RouteReplace, PhaseOK, Tunnel
<1>2. c.entry = new /\ c.op = "replace"
  BY <1>1 DEF Command
<1>3. \/ /\ Runs(c, "ok") /\ Record(prior)
         /\ quiet' = (quiet \/ ~(SameKey(new) \cap Others(new.dst) \subseteq prior))
      \/ \E end \in {"failed", "unconfirmed"} :
           Runs(c, end) /\ Fails(end) /\ UNCHANGED quiet
  BY <1>0 DEF RouteReplace
<1> HIDE DEF c
<1>4. CASE /\ Runs(c, "ok") /\ Record(prior)
           /\ quiet' = (quiet \/ ~(SameKey(new) \cap Others(new.dst) \subseteq prior))
  <2>1. table' = (table \ SameKey(new)) \cup {new} /\ (addr' => addr)
    BY <1>2, <1>4 DEF Runs, Effect
  <2>2. SameKey(new) \cap Others(new.dst) \subseteq prior
    BY <1>4 DEF Sound, Slip
  <2>3. prior \subseteq table
    BY <1>1 DEF BackOK
  <2>4. \A e : e.dst = Gateway => (e \in table' <=> e \in table)
    BY <1>1, <2>1 DEF SameKey
  <2>5. ASSUME NEW e, e.dst \in Prefixes, e.dev # "tun"
        PROVE  /\ e \in table' => e \in table
               /\ e \in table => e \in table' \/ e \in prior
    BY <1>1, <2>1, <2>2, <2>5 DEF SameKey, Others
  <2>6. QED BY <1>1, <1>4, <2>1, <2>3, <2>4, <2>5, RecordBack
<1>5. CASE \E end \in {"failed", "unconfirmed"} :
             Runs(c, end) /\ Fails(end) /\ UNCHANGED quiet
  BY <1>1, <1>5, FailsBack DEF ApplySteps, ghosts
<1>6. QED BY <1>3, <1>4, <1>5

\* The walk that gives back.
LEMMA UndoingBack ==
  ASSUME NEW k, Undoing(k)
  PROVE  /\ at' \in {"route_del", "addr_del", "pin_undo", "done"}
         /\ at' = "done" => ~applied.pin.set
         /\ at' = "pin_undo" => applied.pin.set
BY DEF Undoing, UndoFrom

LEMMA RouteDelBack ==
  ASSUME PhaseOK, BackOK, Sound, Sound', RouteDel
  PROVE  BackOK'
<1>0. PICK p : p = applied.routes[i].cidr
  OBVIOUS
<1> DEFINE c == Command("del", Tunnel(p))
<1>1. /\ at = "route_del" /\ UNCHANGED table0 /\ p \in Prefixes /\ p # Gateway
  BY <1>0, RecordAt, RouteAssumption DEF RouteDel, PhaseOK
<1>2. Harmless(c) /\ c.entry.dst # Gateway /\ c.op = "del"
  BY <1>1 DEF Command, Harmless, Tunnel
<1>3. PICK end \in {"ok", "failed", "unconfirmed"} :
        /\ Runs(c, end)
        /\ \/ gated'
           \/ UNCHANGED applied /\ (Undoing(i - 1) \/ at' = "restore")
  BY <1>0 DEF RouteDel, Gate, Walks
<1> HIDE DEF c
<1>4. UNCHANGED applied /\ (Undoing(i - 1) \/ at' = "restore")
  BY <1>3 DEF Sound
<1>5. /\ at' \in {"route_del", "restore", "addr_del", "pin_undo", "done"}
      /\ at' = "done" => ~applied.pin.set
      /\ at' = "pin_undo" => applied.pin.set
  BY <1>4, UndoingBack
<1>6. addr' => addr
  BY <1>2, <1>3 DEF Runs, Effect, host
<1>7. QED BY <1>1, <1>2, <1>3, <1>4, <1>5, <1>6, BackStays DEF FirstSteps, BackOK

\* An entry put back takes the place of no other, for it was there before.
LEMMA RestoreBack ==
  ASSUME PhaseOK, RecordInv, Keyed(table0), BackOK, Sound, Sound', Restore
  PROVE  BackOK'
<1>0. PICK m : m = i
  OBVIOUS
<1>1. PICK end \in {"ok", "failed", "unconfirmed"}, e \in Prior(m) :
        /\ Runs(Command("replace", e), end)
        /\ \/ gated'
           \/ UNCHANGED applied /\ Undoing(m - 1) /\ end # "unconfirmed"
  BY <1>0 DEF Restore, Gate, Walks, Prior
<1>2. at = "restore" /\ UNCHANGED table0 /\ m \in 1..Len(applied.routes)
  BY <1>0 DEF Restore, PhaseOK
<1>3. e.dst \in Prefixes /\ e.dst # Gateway /\ e.dev # "tun"
  BY <1>1, <1>2, RecordAt, RouteAssumption DEF RecordInv, OneEntry, NotTunnel, Cidr
<1>4. UNCHANGED applied /\ Undoing(m - 1) /\ end # "unconfirmed"
  BY <1>1 DEF Sound
<1>5. /\ at' \in {"route_del", "addr_del", "pin_undo", "done"}
      /\ at' = "done" => ~applied.pin.set
      /\ at' = "pin_undo" => applied.pin.set
  BY <1>4, UndoingBack
<1> DEFINE c == Command("replace", e)
<1>6. c.op = "replace" /\ c.entry = e /\ Runs(c, end)
  BY <1>1 DEF Command
<1> HIDE DEF c
<1>7. (addr' => addr) /\ \A f : f.dst = Gateway => (f \in table' <=> f \in table)
  <2>1. addr' => addr
    BY <1>6 DEF Runs, Effect, host
  <2>2. QED BY <1>3, <1>6, <2>1, RunsElsewhere
<1>8. PrefixesKept'
  <2>1. CASE Effect(c)
    <3>1. table' = (table \ SameKey(e)) \cup {e}
      BY <1>6, <2>1 DEF Effect
    <3>2. e \in table0
      BY <1>1, <1>2, <1>3 DEF BackOK, PrefixesKept
    <3>3. ASSUME NEW f, f.dst \in Prefixes, f.dev # "tun"
          PROVE  f \in table0' <=>
                   f \in table' \/ \E k \in 1..Len(applied'.routes) : f \in Prior(k)'
      <4>1. f \in table0 <=> f \in table \/ \E k \in 1..Len(applied.routes) : f \in Prior(k)
        BY <3>3 DEF BackOK, PrefixesKept
      <4>2. \A k : Prior(k)' = Prior(k)
        BY <1>4 DEF Prior
      <4>3. f \in SameKey(e) => f \in table0 /\ f = e
        BY <3>2, <4>1 DEF SameKey, Keyed
      <4>4. QED BY <1>1, <1>2, <1>4, <3>1, <4>1, <4>2, <4>3
    <3>4. QED BY <3>3 DEF PrefixesKept
  <2>2. CASE UNCHANGED table
    BY <1>2, <1>4, <2>2, PrefixesStay DEF BackOK, Others
  <2>3. QED BY <1>6, <2>1, <2>2 DEF Runs, host
<1>9. GatewayKept'
  BY <1>2, <1>4, <1>5, <1>7, GatewayStays DEF BackOK, FirstSteps
<1>10. QED BY <1>4, <1>5, <1>7, <1>8, <1>9 DEF BackOK

LEMMA AddrDelBack ==
  ASSUME BackOK, Sound, Sound', AddrDel
  PROVE  BackOK'
<1> DEFINE c == Command("addr_del", NoEntry)
<1>1. at = "addr_del" /\ UNCHANGED table0
  BY DEF AddrDel
<1>2. Harmless(c) /\ ~MovesRoutes(c) /\ c.op = "addr_del"
  BY DEF Command, Harmless, MovesRoutes
<1>3. PICK end \in {"ok", "failed", "unconfirmed"} :
        /\ Runs(c, end)
        /\ \/ gated'
           \/ UNCHANGED applied /\ at' = IF applied.pin.set THEN "pin_undo" ELSE "done"
  BY DEF AddrDel, Gate, Walks
<1> HIDE DEF c
<1>4. UNCHANGED applied /\ at' = IF applied.pin.set THEN "pin_undo" ELSE "done"
  BY <1>3 DEF Sound
<1>5. addr' => addr
  BY <1>2, <1>3 DEF Runs, Effect, host
<1>6. QED BY <1>1, <1>2, <1>3, <1>4, <1>5, BackStays DEF FirstSteps, BackOK

\* Deleting the pin leaves nothing for the gateway, putting the prior entry back
\* leaves that one.
LEMMA PinUndoBack ==
  ASSUME HostOK, RecordInv, BackOK, Sound, Sound', PinUndo
  PROVE  BackOK'
<1> DEFINE undo == IF applied.pin.prior = {} THEN {Command("del", Pin)}
                   ELSE {Command("replace", e) : e \in applied.pin.prior}
<1>1. PICK end \in {"ok", "failed", "unconfirmed"}, c \in undo :
        /\ Runs(c, end)
        /\ \/ gated'
           \/ end # "unconfirmed" /\ at' = "done" /\ UNCHANGED applied
              /\ (end = "failed" => <<"pin_undo">> \in errors')
  BY ZenonT(30) DEF PinUndo, Gate, Walks
<1>2. at = "pin_undo" /\ UNCHANGED table0 /\ applied.pin.set
  BY DEF PinUndo, BackOK, GatewayKept
<1>3. end = "ok" /\ at' = "done" /\ UNCHANGED applied
  BY <1>1 DEF Sound, Slip
<1>4. CanDo(c) /\ Effect(c)
  BY <1>1, <1>3 DEF Runs, host
<1>5. /\ Plain(table) /\ Plain(applied.pin.prior)
      /\ Foreign(ToGateway(table0)) = Foreign(applied.pin.prior)
      /\ OneEntry(Gateway, applied.pin.prior)
  BY <1>2, PlainIsNotOdd DEF BackOK, GatewayKept, RecordInv, Sound, Slip
<1>6. ToGateway(table') = applied.pin.prior
  <2>1. CASE applied.pin.prior = {}
    <3>1. c = Command("del", Pin)
      BY <1>1, <2>1
    <3>2. PICK g \in table : g.dst = Gateway /\ g.dev = "eth"
      BY <1>4, <3>1 DEF CanDo, Command, Matching, Pin
    <3>3. table' = {f \in table : f \in Matching(Pin) =>
                      \E h \in Matching(Pin) : h.metric < f.metric}
      BY <1>4, <3>1 DEF Effect, Command
    <3>4. \A f \in table : f.dst = Gateway => f = g /\ f.metric = 0
      BY <1>5, <3>2 DEF HostOK, Keyed, Plain, ToGateway
    <3>5. \A f \in table : f.dst = Gateway => f \in Matching(Pin)
      BY <3>2, <3>4 DEF Matching, Pin
    <3>6. \A h \in Matching(Pin) : h.metric = 0
      BY <3>4 DEF Matching, Pin
    <3>7. QED BY <2>1, <3>3, <3>4, <3>5, <3>6 DEF ToGateway
  <2>2. CASE applied.pin.prior # {}
    <3>1. PICK e \in applied.pin.prior : c = Command("replace", e)
      BY <1>1, <2>2
    <3>2. e.dst = Gateway /\ e.metric = 0 /\ applied.pin.prior = {e}
      BY <1>5, <3>1 DEF OneEntry, Plain, ToGateway
    <3>3. QED BY <1>4, <1>5, <3>1, <3>2, ReplacesGateway
  <2>3. QED BY <2>1, <2>2
<1>7. GatewayKept'
  <2>1. Plain(table') /\ Plain(applied'.pin.prior)
    BY <1>3, <1>5, <1>6 DEF Plain, ToGateway
  <2>2. Foreign(ToGateway(table0')) = Foreign(ToGateway(table'))
    BY <1>2, <1>5, <1>6
  <2>3. QED BY <1>3, <2>1, <2>2 DEF GatewayKept, FirstSteps, Plain, ToGateway, Foreign
<1>8. c.op \in {"del", "replace"} /\ c.entry.dst = Gateway
  BY <1>1, <1>5 DEF Command, Pin, OneEntry
<1>9. PrefixesKept'
  BY <1>1, <1>2, <1>3, <1>8, HarmlessRuns, PrefixesStay DEF Harmless, BackOK
<1>10. addr' => addr
  BY <1>4, <1>8 DEF Effect
<1>11. QED BY <1>3, <1>7, <1>9, <1>10 DEF BackOK

LEMMA TunVanishesBack ==
  ASSUME RecordInv, BackOK, TunVanishes
  PROVE  BackOK'
<1>1. /\ at # "done" /\ addr' = FALSE
      /\ table' = {e \in table : e.dev # "tun"}
      /\ UNCHANGED <<at, prior, applied, table0>>
  BY DEF TunVanishes, ghosts
<1>2. PrefixesKept'
  BY <1>1, PrefixesStay DEF BackOK, Others
<1>3. Foreign(ToGateway(table')) = Foreign(ToGateway(table))
  BY <1>1 DEF Foreign, ToGateway
<1>4. Plain(table) => Plain(table')
  BY <1>1 DEF Plain, ToGateway
<1>5. GatewayKept'
  BY <1>1, <1>3, <1>4 DEF BackOK, GatewayKept, Foreign, ToGateway, Plain
<1>6. at = "route_replace" => prior' \subseteq table'
  BY <1>1 DEF BackOK, RecordInv, NotTunnel
<1>7. QED BY <1>1, <1>2, <1>5, <1>6 DEF BackOK

\* What has gone wrong stays so, and the errors come with the walk.
LEMMA TornStays == ASSUME NEW c, NEW end, Runs(c, end) PROVE torn => torn'
BY DEF Runs, host

Lasts ==
  /\ Sound' => Sound
  /\ at' \in ApplySteps => at \in ApplySteps /\ errors' = errors

LEMMA LastsIn ==
  ASSUME torn => torn', quiet => quiet', gated => gated', errors \subseteq errors',
         applied.pin.set => applied'.pin.set, UNCHANGED table0,
         at' \in ApplySteps => at \in ApplySteps /\ errors' = errors
  PROVE  Lasts
<1>1. OddGateway => OddGateway'
  BY DEF OddGateway
<1>2. QED BY <1>1 DEF Lasts, Sound, Slip

LEMMA ApplyLasts ==
  ASSUME ApplyCommands, PhaseOK
  PROVE  Lasts
<1>1. torn => torn'
  BY TornStays DEF ApplyCommands, LinkUp, AddrAdd, PinShow, PinReplace, RouteAdd, RouteShow,
     RouteReplace, host
<1>2. at \in ApplySteps
  BY DEF ApplyCommands, LinkUp, AddrAdd, PinShow, PinReplace, RouteAdd, RouteShow,
     RouteReplace, ApplySteps
<1>3. quiet => quiet'
  BY DEF ApplyCommands, LinkUp, AddrAdd, PinShow, PinReplace, RouteAdd, RouteShow,
     RouteReplace, ghosts
<1>4. ASSUME NEW end, Fails(end) PROVE (gated => gated') /\ errors' = errors
  BY <1>4 DEF Fails
<1>5. ASSUME NEW seen, Resolve(seen) PROVE (gated => gated') /\ errors' = errors
  BY <1>4, <1>5 DEF Resolve, NextRoute, Goes, report
<1>6. (gated => gated') /\ errors' = errors
  BY <1>4, <1>5 DEF ApplyCommands, LinkUp, AddrAdd, PinShow, PinReplace, RouteAdd, RouteShow,
     RouteReplace, Goes, NextRoute, Record, report
<1>7. UNCHANGED table0
  BY DEF ApplyCommands, LinkUp, AddrAdd, PinShow, PinReplace, RouteAdd, RouteShow,
     RouteReplace, ghosts
<1>8. applied.pin.set => applied'.pin.set
  <2>1. ASSUME NEW displaced, Record(displaced) PROVE applied'.pin = applied.pin
    <3> DEFINE rs == Append(applied.routes, [cidr |-> Routes[i], prior |-> displaced])
    <3>1. applied' = [applied EXCEPT !.routes = rs]
      BY <2>1 DEF Record
    <3> HIDE DEF rs
    <3>2. QED BY <3>1 DEF PhaseOK, AppliedStates
  <2>2. ASSUME NEW end, Fails(end) PROVE applied' = applied
    BY <2>2 DEF Fails
  <2>3. ASSUME NEW seen, Resolve(seen) PROVE applied' = applied
    BY <2>2, <2>3 DEF Resolve
  <2>4. CASE LinkUp \/ AddrAdd \/ PinShow
    BY <2>2, <2>4 DEF LinkUp, AddrAdd, PinShow, PhaseOK, AppliedStates
  <2>5. CASE PinReplace
    BY <2>2, <2>5 DEF PinReplace, PhaseOK, AppliedStates
  <2>6. CASE RouteAdd \/ RouteShow \/ RouteReplace
    BY <2>1, <2>2, <2>3, <2>6 DEF RouteAdd, RouteShow, RouteReplace
  <2>7. QED BY <2>4, <2>5, <2>6 DEF ApplyCommands
<1>9. QED BY <1>1, <1>2, <1>3, <1>6, <1>7, <1>8, LastsIn

WalkCommands == RouteDel \/ Restore \/ AddrDel \/ PinUndo

LEMMA WalkLasts ==
  ASSUME WalkCommands
  PROVE  Lasts
<1>1. torn => torn'
  BY TornStays DEF WalkCommands, RouteDel, Restore, AddrDel, PinUndo
<1>2. /\ quiet => quiet'
      /\ gated => gated'
      /\ errors \subseteq errors'
      /\ UNCHANGED <<applied, table0>>
  BY DEF WalkCommands, RouteDel, Restore, AddrDel, PinUndo, Gate, Walks
<1>3. at' \notin ApplySteps
  BY DEF WalkCommands, RouteDel, Restore, AddrDel, PinUndo, Gate, Undoing, UndoFrom, ApplySteps
<1>4. QED BY <1>1, <1>2, <1>3, LastsIn

LEMMA OthersLast ==
  ASSUME Revert \/ LiveActs \/ TunVanishes
  PROVE  Lasts
<1>1. /\ UNCHANGED <<torn, quiet, gated, errors, applied, table0>>
      /\ at' \in ApplySteps => at' = at
  BY DEF Revert, LiveActs, TunVanishes, host, ghosts, report, Undoing, UndoFrom, ApplySteps
<1>2. QED BY <1>1, LastsIn

\* Nothing foreign is lost, on the way in or on the way out.
LEMMA BackStep ==
  ASSUME IndInv, CheckInv, Keyed(table0), BackInv, [Next]_vars
  PROVE  BackInv'
<1>1. PhaseOK /\ HostOK /\ RecordInv
  BY DEF IndInv, TypeOK, CheckInv
<1>2. CASE UNCHANGED vars
  BY <1>2 DEF vars, host, ghosts, report, BackInv, BackOK, Sound, Slip, OddGateway, PrefixesKept, GatewayKept,
     Plain, ToGateway, Foreign, Prior
<1>3. ASSUME Lasts, Sound /\ Sound' /\ BackOK => BackOK' PROVE BackInv'
  BY <1>3 DEF Lasts, BackInv
<1>4. CASE ApplyCommands
  BY <1>1, <1>3, <1>4, ApplyLasts, LinkUpBack, AddrAddBack, PinShowBack, PinReplaceBack,
     RouteAddBack, RouteShowBack, RouteReplaceBack DEF ApplyCommands
<1>5. CASE WalkCommands
  BY <1>1, <1>3, <1>5, WalkLasts, RouteDelBack, RestoreBack, AddrDelBack, PinUndoBack
     DEF WalkCommands
<1>6. CASE Revert
  <2>1. /\ at = "up" /\ UNCHANGED <<host, applied, table0>>
        /\ at' \in {"route_del", "addr_del", "pin_undo", "done"}
        /\ at' = "done" => ~applied.pin.set
        /\ at' = "pin_undo" => applied.pin.set
    BY <1>6 DEF Revert, Undoing, UndoFrom, ghosts
  <2>2. BackOK => BackOK'
    <3>1. SUFFICES ASSUME BackOK PROVE BackOK'
      OBVIOUS
    <3>2. PrefixesKept'
      BY <2>1, <3>1, PrefixesStay DEF BackOK, Others, host
    <3>3. GatewayKept'
      BY <2>1, <3>1, GatewayStays DEF BackOK, FirstSteps, host
    <3>4. QED BY <2>1, <3>1, <3>2, <3>3 DEF BackOK, host
  <2>3. QED BY <1>3, <1>6, <2>2, OthersLast
<1>7. CASE LiveActs
  <2>1. ~Sound
    BY <1>7 DEF LiveActs, IndInv, GateInv, Sound
  <2>2. QED BY <1>3, <1>7, <2>1, OthersLast
<1>8. CASE TunVanishes
  BY <1>1, <1>3, <1>8, TunVanishesBack, OthersLast
<1>9. QED
  BY <1>2, <1>4, <1>5, <1>6, <1>7, <1>8 DEF Next, Commands, ApplyCommands, WalkCommands, Finished

LEMMA FoundKeyed == IndInv => Keyed(table0) /\ table0 \subseteq Entries
BY RouteAssumption DEF IndInv, TypeOK, PhaseOK

LEMMA BackInvariant == Spec => []BackInv
<1>1. Init => BackInv
  <2> SUFFICES ASSUME Init PROVE BackInv
    OBVIOUS
  <2>1. /\ applied.routes = <<>> /\ applied.pin = NoPin /\ at = "link_up"
        /\ errors = {} /\ table0 = table /\ table \in Tables /\ addr = FALSE
    BY DEF Init
  <2>2. Len(applied.routes) = 0
    BY <2>1
  <2>3. PrefixesKept
    BY <2>1, <2>2 DEF PrefixesKept
  <2>4. GatewayKept
    BY <2>1 DEF GatewayKept, Plain, ToGateway, NoPin, FirstSteps
  <2>5. QED BY <2>1, <2>3, <2>4 DEF BackInv, BackOK
<1>2. IndInv /\ CheckInv /\ BackInv /\ [Next]_vars => BackInv'
  BY BackStep, FoundKeyed
<1>3. QED BY <1>1, <1>2, Invariant, CheckInvariant, PTL DEF Spec

\* So a phase that ends without a failure has left nothing behind.
LEMMA NothingLeft ==
  ASSUME IndInv, CheckInv, BackInv, at = "done", Sound
  PROVE  ~LeftBehind
<1>1. BackOK /\ errors = {} /\ ~quiet /\ ~gated /\ RecordInv
  BY DEF BackInv, Sound, Slip, CheckInv
<1>2. /\ \A k \in 1..Len(applied.routes) : Dealt(k)
      /\ ~(applied.addr /\ addr)
  BY <1>1 DEF CheckInv, WalkInv
<1>3. /\ \A k \in 1..Len(applied.routes) :
           Tunnel(applied.routes[k].cidr) \notin table /\ Prior(k) \subseteq table
      /\ ~addr
  BY <1>1, <1>2 DEF Dealt, BackOK, Cidr
<1>4. table \subseteq Entries /\ table0 \subseteq Entries
  BY FoundKeyed DEF IndInv, TypeOK, HostOK
<1>5. ASSUME NEW e \in Entries, e.dev # "tun" PROVE e \in table <=> e \in table0
  <2>1. CASE e.dst = Gateway
    <3>1. Foreign(ToGateway(table0)) = Foreign(ToGateway(table))
      BY <1>1 DEF BackOK, GatewayKept
    <3>2. \A t : e \in Foreign(ToGateway(t)) <=> e \in t
      BY <1>5, <2>1 DEF Foreign, ToGateway
    <3>3. QED BY <3>1, <3>2
  <2>2. CASE e.dst \in Prefixes
    BY <1>1, <1>3, <1>5, <2>2 DEF BackOK, PrefixesKept
  <2>3. QED BY <2>1, <2>2 DEF Entries
<1>6. Foreign(table) = Foreign(table0)
  BY <1>4, <1>5 DEF Foreign
<1>7. QED BY <1>3, <1>6 DEF LeftBehind, Recorded

\* The stages of the promise.
Stage == IF at = "done" THEN "down"
         ELSE IF at = "up" THEN "up"
         ELSE IF mode = "teardown" THEN "reverting" ELSE "applying"

\* A phase that ended undegraded has left only what a failure explains.
EndsWell == at = "done" /\ ~gated => (LeftBehind => Slip)

LEMMA EndedWell == IndInv /\ CheckInv /\ BackInv => EndsWell
BY NothingLeft DEF Sound, EndsWell

\* How the mode and the place follow from one another.
LEMMA StageSteps ==
  ASSUME IndInv, CheckInv, Next
  PROVE  \/ UNCHANGED vars
         \/ LiveActs
         \/ at # "done" /\ at' = at /\ mode' = mode /\ UNCHANGED gated
         \/ /\ at \in ApplySteps \ {"up"} /\ mode = "apply"
            /\ \/ at' \in ApplySteps /\ mode' = "apply"
               \/ at' \in WalkSteps \cup {"done"} /\ mode' = "rollback"
               \/ at' = "done" /\ gated' /\ mode' = "apply"
         \/ /\ at \in WalkSteps /\ mode' = mode /\ mode # "apply"
            /\ at' \in WalkSteps \cup {"done"}
         \/ /\ at = "up" /\ mode' = "teardown" /\ at' \in WalkSteps \cup {"done"}
            /\ UNCHANGED <<errors, gated>>
<1>0. IndexInv /\ \A k : UndoFrom(k) \in WalkSteps \cup {"done"}
  BY DEF IndInv, UndoFrom, WalkSteps
<1>1. CASE ApplyCommands
  <2>1. at \in ApplySteps \ {"up"} /\ mode = "apply"
    BY <1>0, <1>1 DEF ApplyCommands, LinkUp, AddrAdd, PinShow, PinReplace, RouteAdd, RouteShow,
       RouteReplace, IndexInv, ApplySteps
  <2>2. ASSUME NEW end, Fails(end)
        PROVE  \/ at' \in WalkSteps \cup {"done"} /\ mode' = "rollback"
               \/ at' = "done" /\ gated' /\ mode' = mode
    BY <1>0, <2>2 DEF Fails, Undoing
  <2>3. ASSUME NEW to \in ApplySteps, Goes(to) PROVE at' \in ApplySteps /\ mode' = mode
    BY <2>3 DEF Goes
  <2>4. ASSUME NextRoute PROVE at' \in ApplySteps /\ mode' = mode
    BY <2>4 DEF NextRoute, RoutesFrom, ApplySteps
  <2>5. /\ AfterLink \in ApplySteps /\ AfterAddr \in ApplySteps /\ RoutesFrom(1) \in ApplySteps
        /\ {"pin_replace", "route_show", "route_replace"} \subseteq ApplySteps
    BY DEF AfterLink, AfterAddr, RoutesFrom, ApplySteps
  <2>6. \/ at' \in ApplySteps /\ mode' = mode
        \/ at' \in WalkSteps \cup {"done"} /\ mode' = "rollback"
        \/ at' = "done" /\ gated' /\ mode' = mode
    BY <1>1, <2>2, <2>3, <2>4, <2>5 DEF ApplyCommands, LinkUp, AddrAdd, PinShow, PinReplace,
       RouteAdd, RouteShow, RouteReplace, Record, Resolve
  <2>7. QED BY <2>1, <2>6
<1>2. CASE WalkCommands
  <2>1. at \in WalkSteps /\ mode # "apply"
    BY <1>0, <1>2 DEF WalkCommands, RouteDel, Restore, AddrDel, PinUndo, IndexInv, WalkSteps
  <2>2. mode' = mode /\ at' \in WalkSteps \cup {"done"}
    BY <1>0, <1>2 DEF WalkCommands, RouteDel, Restore, AddrDel, PinUndo, Gate, Walks, Undoing,
       WalkSteps
  <2>3. QED BY <2>1, <2>2
<1>3. CASE Revert
  BY <1>0, <1>3 DEF Revert, Undoing, report
<1>4. CASE TunVanishes
  BY <1>4 DEF TunVanishes, report
<1>5. QED
  BY <1>1, <1>2, <1>3, <1>4 DEF Next, Commands, ApplyCommands, WalkCommands, Finished

\* Every step is a step of the promise, or none.
LEMMA PromiseStep ==
  ASSUME IndInv, CheckInv, BackInv, EndsWell', [Next]_vars
  PROVE  [Promise!Next]_(Promise!vars)
<1> DEFINE verdict == IF at # "done" THEN "none"
                      ELSE IF gated THEN "degraded"
                      ELSE IF mode # "teardown" THEN "err"
                      ELSE IF errors = {} THEN "clean" ELSE "errors"
           leaked == at = "done" /\ (gated \/ LeftBehind)
           slip == at = "done" /\ Slip
<1>0. /\ at' = "done" /\ ~gated' => (LeftBehind' => Slip')
      /\ at \in ApplySteps => errors = {}
      /\ at \in ApplySteps => ~gated
  BY DEF EndsWell, BackInv, CheckInv, GatedInv, ApplySteps
<1>1. CASE UNCHANGED vars
  <2>1. UNCHANGED <<Stage, verdict, leaked, slip>>
    BY <1>1 DEF vars, host, ghosts, report, Stage, LeftBehind, Slip, OddGateway, Foreign, Recorded
  <2>2. QED BY <2>1 DEF Promise!vars, Stage
<1>2. CASE LiveActs
  <2>1. /\ at = "done" /\ gated
        /\ UNCHANGED <<at, mode, gated, errors, torn, quiet, applied, table0>>
    BY <1>2 DEF LiveActs, IndInv, GateInv, report, ghosts
  <2>2. UNCHANGED <<Stage, verdict, leaked, slip>>
    BY <2>1 DEF Stage, Slip, OddGateway
  <2>3. QED BY <2>2 DEF Promise!vars, Stage
<1>3. CASE at # "done" /\ at' = at /\ mode' = mode /\ UNCHANGED gated
  <2>1. UNCHANGED <<Stage, verdict, leaked, slip>>
    BY <1>3 DEF Stage
  <2>2. QED BY <2>1 DEF Promise!vars, Stage
<1>4. CASE /\ at \in ApplySteps \ {"up"} /\ mode = "apply"
           /\ \/ at' \in ApplySteps /\ mode' = "apply"
              \/ at' \in WalkSteps \cup {"done"} /\ mode' = "rollback"
              \/ at' = "done" /\ gated' /\ mode' = "apply"
  BY <1>0, <1>4 DEF Promise!vars, Promise!Next, Promise!Applied, Promise!ApplyFails,
     Promise!Down, ApplySteps, WalkSteps
<1>5. CASE /\ at \in WalkSteps /\ mode' = mode /\ mode # "apply"
           /\ at' \in WalkSteps \cup {"done"}
  BY <1>0, <1>5 DEF Promise!vars, Promise!Next, Promise!ApplyFails, Promise!RevertEnds,
     Promise!Down, WalkSteps, Slip
<1>6. CASE /\ at = "up" /\ mode' = "teardown" /\ at' \in WalkSteps \cup {"done"}
           /\ UNCHANGED <<errors, gated>>
  BY <1>0, <1>6 DEF Promise!vars, Promise!Next, Promise!RevertStarts, Promise!RevertIsEmpty,
     Promise!Down, ApplySteps, WalkSteps
<1>7. QED
  BY <1>1, <1>2, <1>3, <1>4, <1>5, <1>6, StageSteps

-----------------------------------------------------------------------------
(* The theorems. *)

\* AppliedState, the host and the walk over them stay well-formed: the
\* recorded routes are prefixes gp-route was given, the kernel keeps one
\* entry to a key, and no index leaves its sequence.
THEOREM RouteTyping == Spec => []TypeOK
BY Invariant, PTL DEF IndInv

\* blocks_further_mutation holds on every path through platform_apply, its
\* rollback and platform_revert: no ip(8) runs beside one that was killed
\* without a confirmed exit.
THEOREM GateHolds == Spec => NothingBesideLive
<1>1. IndInv /\ Commands => live = {}
  BY CommandsIssue DEF IndInv, GateInv
<1>2. IndInv /\ [Next]_vars => [live # {} => ~Commands]_vars
  BY <1>1
<1>3. QED BY <1>2, Invariant, PTL DEF Spec, NothingBesideLive

\* Under `--route-conflict fail` and `skip` nobody else's route for a split
\* prefix is displaced, changed or deleted, by no command gp-route issues and
\* by no child that outlives it.
THEOREM OthersKept == Spec => []OthersUntouched
<1>1. IndInv => OthersUntouched
  BY DEF IndInv, KeepInv, OthersUntouched
<1>2. QED BY <1>1, Invariant, PTL

\* platform_apply returns Ok only with every prefix in the tunnel, but those
\* --route-conflict skip left to another entry, and with the gateway pinned
\* outside it if it was to be.
THEOREM UpIsRouted == Spec => []UpMeansRouted
<1>1. IndInv /\ RoutedInv => UpMeansRouted
  <2> SUFFICES ASSUME IndInv, RoutedInv, at = "up", tun
               PROVE  /\ \A p \in Prefixes : Settled(p)
                      /\ config.pin => Pin \in table
    BY DEF UpMeansRouted, Settled
  <2>1. i \in 1..(Len(Routes) + 1) /\ Len(Routes) \in Nat
    BY RouteAssumption DEF IndInv, IndexInv, ApplySteps
  <2>2. /\ \A k \in 1..(i - 1) : Settled(Routes[k])
        /\ config.pin => Pin \in table
        /\ i > Len(Routes)
    BY DEF RoutedInv, RouteSteps
  <2>3. \A k \in 1..Len(Routes) : Settled(Routes[k])
    BY <2>1, <2>2
  <2>4. QED BY <2>2, <2>3 DEF Prefixes
<1>2. QED BY <1>1, Invariant, RoutedInvariant, PTL

\* A rollback or a teardown that the gate stops names every delete, restore,
\* address and pin it recorded and did not put back, whatever the child that
\* may still be running does to the table afterwards.
THEOREM ChecklistIsComplete == Spec => []ChecklistComplete
<1>1. CheckInv => ChecklistComplete
  BY DEF CheckInv, GatedInv
<1>2. QED BY <1>1, CheckInvariant, PTL

\* gp-route keeps what run_tunnel builds on: apply and revert come back through
\* the stages of the promise, and a phase that ends undegraded has left nothing
\* of its own and put back all it displaced, but for what Slip names: a failure
\* that was logged or could not be seen, a pin over an odd host route, the
\* takeover of a blackhole (the step part; that the phases end stays with TLC).
THEOREM RouteKeepsPromise ==
  Spec => Promise!Init /\ [][Promise!Next]_(Promise!vars)
<1>1. Init => Promise!Init
  BY DEF Init, Promise!Init
<1>2. IndInv /\ CheckInv /\ BackInv => EndsWell
  BY EndedWell
<1>3. IndInv /\ CheckInv /\ BackInv /\ EndsWell' /\ [Next]_vars
        => [Promise!Next]_(Promise!vars)
  BY PromiseStep
<1>4. QED BY <1>1, <1>2, <1>3, Invariant, CheckInvariant, BackInvariant, PTL DEF Spec
=============================================================================
