-------------------------------- MODULE Nrpt --------------------------------
(***************************************************************************)
(* The NRPT rules opc keeps in the Windows registry, and everything that   *)
(* writes and sweeps them: the sessions themselves (`opc connect`), the    *)
(* janitor process each of them starts, the handlers that run while a      *)
(* session dies, and `opc recover`.  No lock covers the registry, a sweep  *)
(* is a listing followed by deletions followed by a notification, and a    *)
(* process may be killed between any two steps.                            *)
(*                                                                         *)
(* A rule's key is <<session, random>> under the name                      *)
(* openprotect-<instance>-<token>-<random>.  Names are the sequences of    *)
(* their segments between dashes, so that "starts with the prefix          *)
(* openprotect-<...>-" is IsPrefix on sequences: the scope of `work` takes *)
(* the keys of `work-home` too.  A session stands for its token: PID and   *)
(* creation time, never used twice.                                        *)
(***************************************************************************)
EXTENDS SequencesExt

CONSTANTS Sessions,    \* processes running `opc connect`, by their tokens
          Recoveries,  \* terminals in which `opc recover` is run
          Segments,    \* what stands between the dashes of an instance name
          Names,       \* instance names, each the sequence of its segments
          Rands,       \* random parts of rule keys: bounds the rules of a session
          MaxFaults    \* bounds what goes wrong in one behaviour

\* No name is empty (main.rs:2196), and no segment of one is a token.
ASSUME NamesAssumption == Names \subseteq Seq(Segments) \ {<<>>}
ASSUME TokensAssumption == Segments \intersect Sessions = {}
ASSUME FaultsAssumption == MaxFaults \in Nat

VARIABLES pc,       \* what each session is doing
          name,     \* the instance each session was started with
          keys,     \* rule keys in the registry
          cache,    \* rule keys DnsCache last loaded
          parked,   \* a notification timed out and may still be delivered
          mine,     \* AppliedRules: the keys a session will revert by name
          used,     \* the keys a session has named so far
          armed,    \* sessions whose crash cleanup is armed
          ending,   \* why a session ends when its crash sweep has run
          janitor,  \* the guard process of each session
          sweep,    \* the sweep each actor is in
          denied,   \* keys that a deletion has failed on
          faults    \* how much has gone wrong
vars == <<pc, name, keys, cache, parked, mine, used, armed, ending, janitor,
          sweep, denied, faults>>

Keys == Sessions \X Rands
Owner(k) == k[1]
OwnedBy(p) == {k \in Keys : Owner(k) = p}

Self(p) == <<p, "self">>         \* its main thread, then its tunnel thread
Crash(p) == <<p, "crash">>       \* its console handler, panic hook, exit_wedged
Janitor(p) == <<p, "janitor">>
Recover(r) == <<r, "recover">>
Sweepers == Sessions \X {"self", "crash", "janitor"}
              \union Recoveries \X {"recover"}

(***************************************************************************)
(* Names and scopes.                                                       *)
(***************************************************************************)
All == <<>>
InstanceScope(n) == n
FaultyOwnerScope(p) == name[p]
OwnerScope(p) == Append(name[p], p)

KeyName(k) == name[Owner(k)] \o <<Owner(k), k[2]>>
InScope(k, prefix) == IsPrefix(prefix, KeyName(k))

(***************************************************************************)
(* What the scan of the control pipes finds.  A session holds the pipe of  *)
(* its instance from its bind until connect() aborts the server, just      *)
(* before the process ends.                                                *)
(***************************************************************************)
Tunnel == {"setup", "applysweep", "writing", "rollback", "up", "reverting",
           "recovering", "panicsweep", "unwinding"}
Bound == Tunnel \union {"bound", "degraded"}
Gone(p) == pc[p] \in {"left", "killed"}
Live(p) == pc[p] \in {"presweep", "ready", "leaving"} \union Bound

BoundNames == {name[p] : p \in {q \in Sessions : pc[q] \in Bound}}

\* A listing names every pipe there is, or says that it is incomplete.  A
\* listed pipe can be gone by the time it is probed.
Scans == {s \in [listed : SUBSET Names, complete : BOOLEAN] :
            s.complete => BoundNames \subseteq s.listed}
PossiblyAlive(s) == s.listed \intersect BoundNames
FaultyBlanket(s) == PossiblyAlive(s) = {}
Blanket(s) == s.complete /\ PossiblyAlive(s) = {}
OwnAlive(s, n) == n \in PossiblyAlive(s) \/ (~s.complete /\ n \notin s.listed)

Idle == [stage |-> "idle", scope |-> All, todo |-> {}]
Listing(scope) == [stage |-> "listing", scope |-> scope, todo |-> {}]
Begin(a, scope) == sweep' = [sweep EXCEPT ![a] = Listing(scope)]

Init == /\ pc = [p \in Sessions |-> "off"]
        /\ name \in [Sessions -> Names]
        /\ keys = {} /\ cache = {} /\ parked = FALSE
        /\ mine = [p \in Sessions |-> {}] /\ used = [p \in Sessions |-> {}]
        /\ armed = {} /\ denied = {} /\ faults = 0
        /\ ending = [p \in Sessions |-> "no"]
        /\ janitor = [p \in Sessions |-> "none"]
        /\ sweep = [a \in Sweepers |-> Idle]

\* A failed call, a killed process, a panic: everything but the plain course.
Fault == faults < MaxFaults /\ faults' = faults + 1
FaultIf(b) == IF b THEN Fault ELSE UNCHANGED faults

(***************************************************************************)
(* The notification to DnsCache: it reloads, refuses, or does not answer   *)
(* in time; in the last case the parked thread may still deliver it, if    *)
(* its process lives.                                                      *)
(***************************************************************************)
Delivered == cache' = keys /\ UNCHANGED <<parked, faults>>
Refused == Fault /\ UNCHANGED <<cache, parked>>
Unconfirmed == Fault /\ parked' = TRUE /\ UNCHANGED cache

LateNotice == /\ parked
              /\ cache' = keys /\ parked' = FALSE
              /\ UNCHANGED <<pc, name, keys, mine, used, armed, ending, janitor,
                             sweep, denied, faults>>

\* Deleting one key: done (also when it is gone already), or refused.
Deletes(k) == \/ keys' = keys \ {k} /\ UNCHANGED <<denied, faults>>
              \/ k \in keys /\ Fault /\ denied' = denied \union {k} /\ UNCHANGED keys

(***************************************************************************)
(* A sweep, whoever runs it.                                               *)
(***************************************************************************)
SweepLists(a) ==
  /\ sweep[a].stage = "listing"
  /\ sweep' = [sweep EXCEPT
       ![a] = [Idle EXCEPT !.stage = "deleting",
                           !.todo = {k \in keys : InScope(k, sweep[a].scope)}]]
  /\ UNCHANGED <<pc, name, keys, cache, parked, mine, used, armed, ending,
                 janitor, denied, faults>>

SweepDeletes(a) ==
  /\ \E k \in sweep[a].todo :
       Deletes(k) /\ sweep' = [sweep EXCEPT ![a].todo = @ \ {k}]
  /\ UNCHANGED <<pc, name, cache, parked, mine, used, armed, ending, janitor>>

\* The listing failed: the sweep is given up, without a notification.
ListFails(a) == sweep[a].stage = "listing" /\ Fault /\ UNCHANGED <<cache, parked>>
\* All is deleted or refused: DnsCache is told, unconditionally.
AllTried(a) == sweep[a].stage = "deleting" /\ sweep[a].todo = {}
Notifies(a) == AllTried(a) /\ (Delivered \/ Refused \/ Unconfirmed)
Ends(a) == ListFails(a) \/ Notifies(a)

(***************************************************************************)
(* A session: connect() until its pipe is bound.                           *)
(***************************************************************************)
Sweeping == [presweep |-> "ready", applysweep |-> "writing",
             panicsweep |-> "unwinding", recovering |-> "degraded"]

SelfSweepEnds(p) ==
  /\ Ends(Self(p))
  /\ pc' = [pc EXCEPT ![p] = Sweeping[@]]
  /\ sweep' = [sweep EXCEPT ![Self(p)] = Idle]
  /\ UNCHANGED <<name, keys, mine, used, armed, ending, janitor, denied>>

PreconnectScan(p) ==
  /\ pc[p] = "off"
  /\ \E s \in Scans :
       \/ /\ OwnAlive(s, name[p])
          /\ pc' = [pc EXCEPT ![p] = "ready"]
          /\ UNCHANGED sweep
       \/ /\ ~OwnAlive(s, name[p])
          /\ pc' = [pc EXCEPT ![p] = "presweep"]
          /\ Begin(Self(p), IF Blanket(s) THEN All ELSE InstanceScope(name[p]))
  /\ UNCHANGED <<name, keys, cache, parked, mine, used, armed, ending, janitor,
                 denied, faults>>

\* Authentication has failed, or is over; a second server of an instance is
\* refused its pipe.
BindPipe(p) ==
  /\ pc[p] = "ready"
  /\ \/ pc' = [pc EXCEPT ![p] = "left"]
     \/ name[p] \notin BoundNames /\ pc' = [pc EXCEPT ![p] = "bound"]
  /\ UNCHANGED <<name, keys, cache, parked, mine, used, armed, ending, janitor,
                 sweep, denied, faults>>

(***************************************************************************)
(* The tunnel thread: guards up, stale rules swept, rules written one by   *)
(* one, DnsCache told.                                                     *)
(***************************************************************************)
SpawnOnce(p) == IF janitor[p] \in {"none", "failed"}
                THEN \E j \in {"waiting", "failed"} :
                       janitor' = [janitor EXCEPT ![p] = j] /\ FaultIf(j = "failed")
                ELSE UNCHANGED <<janitor, faults>>

AttemptStarts(p) ==
  /\ pc[p] = "bound" /\ ending[p] # "wedged"
  /\ pc' = [pc EXCEPT ![p] = "setup"]
  /\ UNCHANGED <<name, keys, cache, parked, mine, used, armed, ending, janitor,
                 sweep, denied, faults>>

AttemptFails(p) ==
  /\ pc[p] = "setup"
  /\ pc' = [pc EXCEPT ![p] = "bound"]
  /\ UNCHANGED <<name, keys, cache, parked, mine, used, armed, ending, janitor,
                 sweep, denied, faults>>

FaultyStartApply(p) ==
  /\ pc[p] = "setup" /\ OwnedBy(p) \ used[p] # {}
  /\ SpawnOnce(p)
  /\ pc' = [pc EXCEPT ![p] = "applysweep"]
  /\ Begin(Self(p), InstanceScope(name[p]))
  /\ UNCHANGED <<name, keys, cache, parked, mine, used, armed, ending, denied>>

StartApply(p) ==
  /\ pc[p] = "setup" /\ OwnedBy(p) \ used[p] # {}
  /\ armed' = armed \union {p}
  /\ SpawnOnce(p)
  /\ pc' = [pc EXCEPT ![p] = "applysweep"]
  /\ Begin(Self(p), InstanceScope(name[p]))
  /\ UNCHANGED <<name, keys, cache, parked, mine, used, ending, denied>>

\* Group Policy rules are in force, or the policy key cannot be opened.
ApplyRefused(p) ==
  /\ pc[p] = "writing" /\ mine[p] = {}
  /\ pc' = [pc EXCEPT ![p] = "bound"]
  /\ UNCHANGED <<name, keys, cache, parked, mine, used, armed, ending, janitor,
                 sweep, denied, faults>>

FaultyWriteRule(p) ==
  /\ pc[p] = "writing"
  /\ \E k \in OwnedBy(p) \ used[p] :
       /\ used' = [used EXCEPT ![p] = @ \union {k}]
       /\ \/ /\ keys' = keys \union {k}
             /\ mine' = [mine EXCEPT ![p] = @ \union {k}]
             /\ UNCHANGED <<pc, faults>>
          \/ /\ Fault /\ keys' \in {keys, keys \union {k}}
             /\ pc' = [pc EXCEPT ![p] = "rollback"]
             /\ UNCHANGED mine
  /\ UNCHANGED <<name, cache, parked, armed, ending, janitor, sweep, denied>>

\* A write that fails can leave its key behind, half-written.
WriteRule(p) ==
  /\ pc[p] = "writing"
  /\ \E k \in OwnedBy(p) \ used[p] :
       /\ used' = [used EXCEPT ![p] = @ \union {k}]
       /\ mine' = [mine EXCEPT ![p] = @ \union {k}]
       /\ \/ keys' = keys \union {k} /\ UNCHANGED <<pc, faults>>
          \/ /\ Fault /\ keys' \in {keys, keys \union {k}}
             /\ pc' = [pc EXCEPT ![p] = "rollback"]
  /\ UNCHANGED <<name, cache, parked, armed, ending, janitor, sweep, denied>>

ApplyNotifies(p) ==
  /\ pc[p] = "writing" /\ mine[p] # {}
  /\ \/ (Delivered \/ Unconfirmed) /\ pc' = [pc EXCEPT ![p] = "up"]
     \/ Refused /\ pc' = [pc EXCEPT ![p] = "rollback"]
  /\ UNCHANGED <<name, keys, mine, used, armed, ending, janitor, sweep, denied>>

(***************************************************************************)
(* The ways back: rollback, revert, and the guard that reverts while a     *)
(* panic unwinds.                                                          *)
(***************************************************************************)
TakesBack(p) ==
  /\ pc[p] \in {"rollback", "reverting", "unwinding"}
  /\ \E k \in mine[p] :
       Deletes(k) /\ mine' = [mine EXCEPT ![p] = @ \ {k}]
  /\ UNCHANGED <<pc, name, cache, parked, used, armed, ending, janitor, sweep>>

RollbackEnds(p) ==
  /\ pc[p] = "rollback" /\ mine[p] = {}
  /\ pc' = [pc EXCEPT ![p] = "bound"]
  /\ UNCHANGED <<name, keys, cache, parked, mine, used, armed, ending, janitor,
                 sweep, denied, faults>>

MainloopReturns(p) ==
  /\ pc[p] = "up"
  /\ pc' = [pc EXCEPT ![p] = "reverting"]
  /\ UNCHANGED <<name, keys, cache, parked, mine, used, armed, ending, janitor,
                 sweep, denied, faults>>

\* After a degraded route revert the rules are swept once more, and the
\* process does not try again.
RevertEnds(p) ==
  /\ pc[p] = "reverting" /\ mine[p] = {}
  /\ Delivered \/ Refused \/ Unconfirmed
  /\ armed' = armed \ {p}
  /\ \/ pc' = [pc EXCEPT ![p] = "bound"] /\ UNCHANGED sweep
     \/ /\ pc' = [pc EXCEPT ![p] = "recovering"]
        /\ Begin(Self(p), InstanceScope(name[p]))
  /\ UNCHANGED <<name, keys, mine, used, ending, janitor, denied>>

FaultyTunnelPanics(p) ==
  /\ pc[p] = "up" /\ Fault
  /\ pc' = [pc EXCEPT ![p] = "panicsweep"]
  /\ UNCHANGED <<name, keys, cache, parked, mine, used, armed, ending, janitor,
                 sweep, denied>>

\* The panic hook sweeps before the stack unwinds.
TunnelPanics(p) ==
  /\ pc[p] = "up" /\ Fault
  /\ pc' = [pc EXCEPT ![p] = "panicsweep"]
  /\ Begin(Self(p), InstanceScope(name[p]))
  /\ UNCHANGED <<name, keys, cache, parked, mine, used, armed, ending, janitor,
                 denied>>

UnwindEnds(p) ==
  /\ pc[p] = "unwinding" /\ mine[p] = {}
  /\ Delivered \/ Refused \/ Unconfirmed
  /\ pc' = [pc EXCEPT ![p] = "bound"]
  /\ UNCHANGED <<name, keys, mine, used, armed, ending, janitor, sweep, denied>>

(***************************************************************************)
(* The end of a process stops all its threads.                             *)
(***************************************************************************)
Ended(p, how) ==
  /\ pc' = [pc EXCEPT ![p] = how]
  /\ sweep' = [sweep EXCEPT ![Self(p)] = Idle, ![Crash(p)] = Idle]
  /\ ending' = [ending EXCEPT ![p] = "no"] /\ armed' = armed \ {p}
  /\ mine' = [mine EXCEPT ![p] = {}] /\ used' = [used EXCEPT ![p] = {}]

\* The loop is over: the pipe server is aborted, and connect() returns.
ReleasePipe(p) ==
  /\ pc[p] \in {"bound", "degraded"} /\ ending[p] # "wedged"
  /\ pc' = [pc EXCEPT ![p] = "leaving"]
  /\ UNCHANGED <<name, keys, cache, parked, mine, used, armed, ending, janitor,
                 sweep, denied, faults>>

Leave(p) ==
  /\ pc[p] = "leaving"
  /\ Ended(p, "left")
  /\ UNCHANGED <<name, keys, cache, parked, janitor, denied, faults>>

\* Task Manager, taskkill /F, a crash in C code: no code of ours runs.
Kill(p) ==
  /\ Live(p) /\ Fault
  /\ Ended(p, "killed")
  /\ UNCHANGED <<name, keys, cache, parked, janitor, denied>>

(***************************************************************************)
(* Sweeps that run beside the tunnel thread, on the console handler's      *)
(* thread, in the panic hook of any thread, or in exit_wedged.             *)
(***************************************************************************)
CrashSweep(p) ==
  /\ sweep[Crash(p)].stage = "idle" /\ Fault
  /\ Begin(Crash(p), InstanceScope(name[p]))
  /\ UNCHANGED <<pc, name, keys, cache, parked, mine, used, armed, janitor,
                 denied>>

ConsoleCloses(p) == /\ Live(p) /\ p \in armed
                    /\ ending' = [ending EXCEPT ![p] = "closed"]
                    /\ CrashSweep(p)

\* The drain deadline is over: the thread is given up, stuck or only slow.
Wedges(p) == /\ pc[p] \in Tunnel
             /\ ending' = [ending EXCEPT ![p] = "wedged"]
             /\ CrashSweep(p)

\* A panic in a task of the runtime: the hook runs, the process goes on.
TaskPanics(p) == /\ Live(p) /\ p \in armed
                 /\ UNCHANGED ending
                 /\ CrashSweep(p)

CrashSweepEnds(p) ==
  /\ Ends(Crash(p))
  /\ \/ ending[p] # "no" /\ Ended(p, "killed")
     \/ /\ ending[p] = "no"
        /\ sweep' = [sweep EXCEPT ![Crash(p)] = Idle]
        /\ UNCHANGED <<pc, ending, armed, mine, used>>
  /\ UNCHANGED <<name, keys, janitor, denied>>

(***************************************************************************)
(* The janitor: waits for the end of its parent, whatever it is, then      *)
(* sweeps what the parent wrote.                                           *)
(***************************************************************************)
FaultyParentExits(p) ==
  /\ janitor[p] = "waiting"
  /\ janitor' = [janitor EXCEPT ![p] = "sweeping"]
  /\ Begin(Janitor(p), OwnerScope(p))
  /\ UNCHANGED <<pc, name, keys, cache, parked, mine, used, armed, ending, denied, faults>>

ParentExits(p) ==
  /\ janitor[p] = "waiting" /\ Gone(p)
  /\ janitor' = [janitor EXCEPT ![p] = "sweeping"]
  /\ Begin(Janitor(p), OwnerScope(p))
  /\ UNCHANGED <<pc, name, keys, cache, parked, mine, used, armed, ending, denied, faults>>

FaultyJanitorEnds(p) ==
  /\ AllTried(Janitor(p))
  /\ janitor' = [janitor EXCEPT ![p] = "swept"]
  /\ sweep' = [sweep EXCEPT ![Janitor(p)] = Idle]
  /\ UNCHANGED <<pc, name, keys, cache, parked, mine, used, armed, ending, denied,
                 faults>>

JanitorEnds(p) ==
  LET a == Janitor(p)
      Becomes(j) == janitor' = [janitor EXCEPT ![p] = j]
  IN  /\ \/ ListFails(a) /\ Becomes("gaveup")
         \/ AllTried(a) /\ Delivered /\ Becomes("swept")
         \/ AllTried(a) /\ (Refused \/ Unconfirmed) /\ Becomes("untold")
      /\ sweep' = [sweep EXCEPT ![a] = Idle]
      /\ UNCHANGED <<pc, name, keys, mine, used, armed, ending, denied>>

\* taskkill /T ends the children first.
JanitorKilled(p) ==
  /\ janitor[p] \in {"waiting", "sweeping"} /\ Fault
  /\ janitor' = [janitor EXCEPT ![p] = "killed"]
  /\ sweep' = [sweep EXCEPT ![Janitor(p)] = Idle]
  /\ UNCHANGED <<pc, name, keys, cache, parked, mine, used, armed, ending, denied>>

(***************************************************************************)
(* `opc recover --all` and `opc recover -i NAME`: refused unless the scan  *)
(* shows that nobody concerned is alive.                                   *)
(***************************************************************************)
RecoverScans(r) ==
  /\ sweep[Recover(r)].stage = "idle"
  /\ \E s \in Scans :
       \/ Blanket(s) /\ Begin(Recover(r), All)
       \/ \E n \in Names : ~OwnAlive(s, n) /\ Begin(Recover(r), InstanceScope(n))
  /\ UNCHANGED <<pc, name, keys, cache, parked, mine, used, armed, ending,
                 janitor, denied, faults>>

RecoverEnds(r) ==
  /\ Ends(Recover(r))
  /\ sweep' = [sweep EXCEPT ![Recover(r)] = Idle]
  /\ UNCHANGED <<pc, name, keys, mine, used, armed, ending, janitor, denied>>

SessionStep(p) ==
  \/ PreconnectScan(p) \/ SelfSweepEnds(p) \/ BindPipe(p)
  \/ AttemptStarts(p) \/ AttemptFails(p) \/ ReleasePipe(p)
  \/ StartApply(p) \/ ApplyRefused(p) \/ WriteRule(p) \/ ApplyNotifies(p)
  \/ TakesBack(p) \/ RollbackEnds(p) \/ MainloopReturns(p) \/ RevertEnds(p)
  \/ TunnelPanics(p) \/ UnwindEnds(p) \/ Leave(p) \/ Kill(p)
  \/ ConsoleCloses(p) \/ Wedges(p) \/ TaskPanics(p) \/ CrashSweepEnds(p)

JanitorStep(p) == \/ ParentExits(p) \/ SweepLists(Janitor(p))
                  \/ SweepDeletes(Janitor(p)) \/ JanitorEnds(p)

Next == \/ LateNotice
        \/ \E a \in Sweepers : SweepLists(a) \/ SweepDeletes(a)
        \/ \E p \in Sessions : SessionStep(p) \/ JanitorStep(p) \/ JanitorKilled(p)
        \/ \E r \in Recoveries : RecoverScans(r) \/ RecoverEnds(r)

\* A janitor has nothing else to do, and nothing it calls waits for long.
Spec == Init /\ [][Next]_vars /\ \A p \in Sessions : WF_vars(JanitorStep(p))

(***************************************************************************)
(* Properties.                                                             *)
(***************************************************************************)

\* Every variable stays in its domain; who waits for a sweep has one in
\* progress, and a process that is gone has none.
TypeOK ==
  /\ pc \in [Sessions -> Bound \union {"off", "presweep", "ready", "leaving", "left", "killed"}]
  /\ name \in [Sessions -> Names]
  /\ keys \subseteq Keys /\ cache \subseteq Keys /\ denied \subseteq Keys
  /\ parked \in BOOLEAN /\ faults \in 0..MaxFaults
  /\ used \in [Sessions -> SUBSET Keys] /\ mine \in [Sessions -> SUBSET Keys]
  /\ armed \subseteq Sessions /\ ending \in [Sessions -> {"no", "closed", "wedged"}]
  /\ janitor \in [Sessions -> {"none", "failed", "waiting", "sweeping", "swept",
                               "untold", "gaveup", "killed"}]
  /\ sweep \in [Sweepers -> [stage : {"idle", "listing", "deleting"},
                             scope : Seq(Segments \union Sessions),
                             todo : SUBSET Keys]]
  /\ \A p \in Sessions :
       /\ pc[p] \in DOMAIN Sweeping <=> sweep[Self(p)].stage # "idle"
       /\ janitor[p] = "sweeping" <=> sweep[Janitor(p)].stage # "idle"
       /\ ending[p] # "no" => sweep[Crash(p)].stage # "idle"
       /\ sweep[Crash(p)].stage # "idle" => pc[p] \in Bound \union {"leaving"}

OnTheWayOut == {Crash(p) : p \in {q \in Sessions : pc[q] = "leaving"}}

\* The scope of instance n takes the keys of m as well: `work`, `work-home`.
Nested(n, m) == n # m /\ IsPrefix(n, m)

\* main.rs:2674, main.rs:5086: when a sweep is decided, no rule of another
\* session that holds its pipe is in its scope: not by the blanket sweep after
\* a partial scan, not by the sweep of an instance that has just been started
\* twice, not by a janitor.  Two cases are excluded.  A process may be swept
\* on its way out, after it has given up its own pipe.  And the sweep of an
\* instance does take the rules of instances whose names are nested in its
\* own, live or not: InstancesSideBySide, which is violated.
SweepsSpareTheLiving ==
  [][\A p \in Sessions, a \in Sweepers :
       /\ sweep[a].stage = "idle" /\ sweep'[a].stage = "listing"
       /\ pc[p] \in Bound /\ a[1] # p /\ a \notin OnTheWayOut
       /\ sweep'[a].scope \in Names => ~Nested(sweep'[a].scope, name[p])
       => \A k \in keys \intersect OwnedBy(p) : ~InScope(k, sweep'[a].scope)]_vars

\* windows_nrpt.rs:86 ("so two `opc -i NAME` instances running side-by-side
\* never delete each other's live NRPT rules"), windows_nrpt.rs:398
\* ("`Instance` is always safe"): the sweep of an instance lists for deletion
\* no rule of another instance whose session holds its pipe.  The code does
\* not keep this when one name is nested in the other.
InstancesSideBySide ==
  [][\A a \in Sweepers :
       sweep[a].stage = "listing" /\ sweep[a].scope \in Names =>
         \A k \in sweep'[a].todo :
           pc[Owner(k)] \in Bound => name[Owner(k)] = sweep[a].scope]_vars

\* nrpt_janitor.rs:46, windows_nrpt.rs:600: the sweeps that ask nobody who is
\* alive, of the janitor, of the ending process and of apply itself, hold at
\* no time a rule of another session that is still served by its pipe.  What
\* makes this true of an instance's sweeps is that one session at a time
\* holds the pipe; the rules of a nested name are excluded there, as above,
\* and never from the janitor's, whose scope ends with the token.
UnscannedSweepsTakeTheDead ==
  \A p \in Sessions :
    LET own == IF pc[p] = "presweep" THEN {} ELSE {Self(p)}
        by == (own \union {Crash(p), Janitor(p)}) \ OnTheWayOut
    IN  \A a \in by : \A k \in sweep[a].todo :
          \/ Owner(k) = p \/ pc[Owner(k)] \notin Bound
          \/ a # Janitor(p) /\ Nested(name[p], name[Owner(k)])

\* main.rs:9408: the guards go up before the first write.  A rule in the
\* registry has had its janitor started or seen the start fail, and while its
\* session lives the crash cleanup is armed, unless the revert has been
\* refused this very rule.
RulesAreGuarded ==
  \A k \in keys : LET p == Owner(k) IN
    /\ janitor[p] # "none"
    /\ Live(p) => p \in armed \/ k \in denied

\* nrpt_janitor.rs:41: a janitor that has swept leaves nothing of its session
\* in the registry, nor in DnsCache when its notification got through, except
\* what the registry refused to delete: nothing can be written afterwards.
JanitorLeavesNothing ==
  \A p \in Sessions : \A k \in OwnedBy(p) \ denied :
    /\ janitor[p] \in {"swept", "untold"} => k \notin keys
    /\ janitor[p] = "swept" => k \notin cache

\* windows_nrpt.rs:291, lib.rs:603: a session that ends by itself, or is
\* between two attempts, has no rule in the registry, a half-written one
\* included, except what the registry refused to delete.
DownMeansNoRules ==
  \A p \in Sessions : 
    pc[p] \in {"bound", "setup", "degraded", "leaving", "left"} =>
      OwnedBy(p) \intersect keys \subseteq denied

\* nrpt_janitor.rs:41: a session that dies with its janitor waiting does not
\* leave its rules behind, in the registry or in DnsCache, unless the registry
\* refuses, DnsCache cannot be told, or the janitor is killed as well.
DeadRulesGo ==
  \A p \in Sessions :
    Gone(p) /\ janitor[p] = "waiting" ~>
      \/ janitor[p] \in {"gaveup", "killed", "untold"}
      \/ OwnedBy(p) \intersect (keys \union cache) \subseteq denied

=============================================================================
