# A verification project for openprotect

openprotect is a GlobalProtect VPN client. `opc connect` authenticates, starts
libopenconnect in a thread, installs routes and split DNS, keeps the tunnel up
across failures and takes everything down again when it ends. What can go wrong
in it is mostly a matter of order: a signal while the tunnel thread is half way
through its setup, a rollback after a command that may still be running, two
processes sweeping the same registry keys, a listener of a login that outlives
the login.

The project holds TLA+ modules of its parts, the TLC runs that check them on
small instances, and TLAPS proofs of the main properties for every instance.
`PROJECT.json` lists the components, the runs, the mutants (one plausible
mistake per property, which the property must catch), the source lines behind
each definition, the hazards the properties are for, and the theorems.

To check a run: `tlc -workers 2 -config MCSession.cfg MCSession.tla`.
To check proofs: `tlapm SessionProofs.tla`.

## The system's parts

Paths are below `src/`; `main.rs` alone is `bins/opc/src/main.rs`.

| part | where | state it keeps | operations |
|---|---|---|---|
| reconnect loop | main.rs, `connect()` from `'outer` | attempt and re-auth counters, the cookie, gateway and its IP pin, the shared status, two metrics | one pass per tunnel attempt; `loop_decision_for` and the arms of its match |
| tunnel attempt | main.rs, `run_tunnel_attempt` | the thread's join handle, its cancel handle and three channels | three selects (handle, setup, steady state), bounded receive, cancel-drain-join, `exit_wedged` |
| tunnel thread | main.rs, `run_tunnel`; gp-tunnel | the libopenconnect session, applied routes, applied DNS | connect, setup, apply, mainloop, teardown; a guard that reverts DNS on a panic |
| routes | gp-route | `AppliedState`: address, pin, routes with what each displaced | `apply` with rollback, `revert`; on Windows a journal of intents (`routes\\<instance>.journal.jsonl`), read at the next connect and never replayed |
| command runner | gp-route, gp-dns | a child process with two reader threads and a deadline | run, kill at the deadline, confirm the exit or report it unconfirmed |
| DNS | gp-dns | links, resolver files, or NRPT rules with owner tokens | `apply`, `revert`, `recover`, sweeps by owner and by instance |
| janitor, crash handlers | nrpt_janitor.rs, crash_cleanup.rs | a detached process; a process-wide slot | sweep NRPT rules when the owner is gone; console handler; panic hook |
| control socket | gp-ipc, main.rs | a socket or pipe per instance; a watch channel | bind (probe, remove, bind), status, disconnect, scan |
| recover, doctor | main.rs | none of its own | sweep leaked routes and DNS if no instance is alive |
| Wintun cleanup | wintun_cleanup.rs | a snapshot of adapters, a thread, `pnputil` processes | remove the adapters an earlier opc left, unless another opc runs |
| phase watchdog | main.rs | the phase and the time it was entered | report a phase past its budget, once |
| metrics | metrics.rs | two counters, rendered from the shared status | bump, scrape |
| portal and gateway client | gp-auth client.rs | cookies in a jar, the auth context | prelogin, portal config, gateway login |
| identity providers | gp-auth okta.rs, entra.rs, saml_*.rs | a transaction's token; a loopback listener | authn and factor polling; scripted page fetches; paste against callback |
| HIP | gp-hip, main.rs | none | build and submit a report |
| desktop GUI, tray | bins/opc-gui, bins/opc-tray | a view of `opc status`, child processes | poll, start, stop |

How they interact. The reconnect loop calls the attempt; the attempt owns one
tunnel thread and talks to it through a oneshot channel for the cancel handle, a
oneshot for readiness, a oneshot for the final result, and, in the other
direction, a byte in libopenconnect's command pipe. The thread calls gp-route
and gp-dns, which run commands through the command runner. The control socket's
server shares a mutex-protected status with the loop and writes `true` to a
watch channel every select of the attempt reads. Signals reach the process only
while some select polls a `shutdown_signal()` future. Janitor, crash handlers
and `opc recover` are other processes, or other threads of a dying one, that
touch the same system state without a lock.

What is hard, part by part, and the properties that make the part right:

- **reconnect loop**: its decision depends on an outcome, a disconnect request
  that may arrive at any time, a flag and a budget. A dead cookie must not be
  dialled again, a degraded teardown must end the session with an error whatever
  else is asked, cached addresses and the published status must follow the
  session, retries must end, a stop request must end the process.
- **attempt and thread**: every exit from three selects has to leave no thread
  behind; what the thread reported in the meantime must not be lost; a thread
  that hangs anywhere must not keep the process from stopping; the network must
  always belong to somebody who will restore it.
- **routes**: any command can fail, be killed, or survive being killed. A
  failed apply must take its work back, no command may run beside a live child,
  a revert that stops must name what is outstanding, other owners' routes must
  survive under the policies that promise it.
- **NRPT, janitor, crash handlers, recover**: sweeps by owner token and by
  instance interleave with an apply still writing its rules. A sweep must not
  remove a live owner's rules, and some sweep must eventually remove a dead
  owner's.
- **control socket**: probe, remove, bind and the removal at exit are four steps
  without a lock; two instances starting together may take the path from one
  another, and what a scan concluded is used when it may be no longer true.
- **DNS on macOS**: files and a service's name servers outlive the process that
  set them. A crash between any two steps, a sweep with old facts and a user who
  edits the same setting must lose neither the user's servers nor a live
  session's zones.
- **route journal (Windows)**: netsh and route.exe exit 0 without having acted; a
  crash, a failed append or a corrupt file must leave nothing on the host that
  the record, or an error, does not tell of.
- **command runner**: a spawn that never returns, a child that cannot be killed
  and a descendant that holds the pipes race one deadline; "confirmed" must imply
  that the child has ended, and no child may be left to nobody.
- **authentication**: the paste flow has three kinds of threads that block on
  different things, a terminal whose echo a signal handler must restore, and
  prompts after it that read the same terminal. The scripted flows walk through
  pages in an order the provider chooses: they must end, send the password
  unasked once, and carry the newest token.
- **connect**: cookie, gateway, status and pin must belong together whatever
  re-authentication did; the phases two threads write to one cell must neither
  hide a stall nor warn while a person signs in; the adapters removed must not be
  one that is in use.

## The modules

| module | models | state |
|---|---|---|
| `ConnectFlow` | `connect()` from its first line to its last with the tunnel thread beside it, each at the places where it may block | places of both, whose gateway cookie, host, status and pin are |
| `PhaseWatch` | the phase cell, the latch and the ticker (part of ConnectFlow) | phase and its age, name last reported |
| `WintunSweep` | the removal of stray adapters beside another opc (part of ConnectFlow) | adapters, who uses them, the removal thread, abandoned `pnputil`s |
| `ReconnectLoop` | the loop, over an abstract attempt | counters, cookie verdict, gateway and pin, shared status, metrics, stop requests |
| `TunnelThread` | `run_tunnel` and its teardown, per thread | program counter, three channels, cancel flag, resources, what leaked |
| `Session` | `run_tunnel_attempt`; composes the two above | where the attempt is, its thread, what the drain's caller returns |
| `RoutePromise` | what gp-route promises `run_tunnel` (abstract), for one process or many in a row | stage, verdict, leaked, slip |
| `RouteApply` | gp-route on Linux, one ip(8) command to a step | kernel table and address, live children, `AppliedState`, the phase and its index, errors and checklist |
| `RouteMac` | gp-route on macOS, one route(8), ifconfig(8) or lookup to a step | owner of each prefix, the gateway's unscoped and scoped rows, the walk, `AppliedState` |
| `RouteWindows` | gp-route on Windows, with its journal, over several processes | owner of each row, pending intents, the journal's state, the walk, `AppliedState` |
| `CommandPromise` | what a run of a command promises its callers (abstract): the ends RouteApply gives a command | state and effect per command |
| `CommandRunner` | `run_with_timeout` of gp-route | caller, supervisor, channel, child, pipes, completion record |
| `Nrpt` | the NRPT rules on Windows and every process that writes or sweeps them | registry keys, what DnsCache has loaded, per session its place, list of rules, guards and sweeps |
| `ControlSocket` | bind, serve and scan of the control sockets on Unix | whose socket lies at each path, stage of each session, each scan |
| `ResolverFiles` | the files under /etc/resolver with their journals; extends ControlSocket | owner of each file, temporaries, journals, each apply, revert and sweep |
| `ServiceDns` | the swap of a macOS service's name servers with its journal | setting and journal per service, sessions, recoveries |
| `SamlCapture` | the paste flow | flow, echo and saved settings, signal, listeners, readers, channel, standard input |
| `Login` | portal and gateway login around paste flows; extends SamlCapture | (as above) |
| `IdpPromise` | what a scripted login promises (abstract) | outcome, passwords sent unasked, pending factor |
| `IdpClient` | what the scripted flows have in common | which flow, what the outside has seen |
| `EntraFlow`, `OktaFlow` | the two flows (Okta's authn and OIE machines) | page or state, tokens held, counters of every cap |
| `ScriptedLogin` | either flow, as `--auth-mode` starts it | (as above) |
| `MC...` | instances for TLC (`CommandRunner` and `ScriptedLogin` need no module for theirs) | |
| `SessionProofs`, `RouteApplyProofs`, `RouteMacProofs`, `WindowsProofs`, `CommandDnsProofs`, `ResolverFilesProofs`, `ConnectFlowProofs`, `AuthProofs` | theorems | |

```
 ReconnectLoop   <--implements--  Session  = ReconnectLoop + TunnelThread
 RoutePromise    <--implements--  RouteApply, RouteMac, RouteWindows
 CommandPromise  <--implements--  CommandRunner      (its ends = RouteApply!Runs)
 IdpPromise      <--implements--  ScriptedLogin = IdpClient + EntraFlow + OktaFlow
 ResolverFiles = ControlSocket + files and journals
 Login         = SamlCapture + prompts
 ConnectFlow   = PhaseWatch + WintunSweep + places of Session, Login, ReconnectLoop
 RoutePromise's steps are the route actions of TunnelThread
```

### ReconnectLoop

`pc` is the place in `connect()`: `top` (before the attempt), `attempt`,
`decide` (the match on `loop_decision_for`), `reauth`, `backoff`, `cleanup` and
`stopped`. `DecisionFor` is `loop_decision_for`, case by case, in its order.
`DecideBreak`, `DecideReauth` and `DecideRetry` are the arms of the match;
`ReauthOk` and `ReauthFails` the two ends of `run_reauth`; `Backoff` the select
over the sleep. `base` is `SharedBase`, what `opc status` reads. An attempt is
three actions (`AttemptConnects`, `AttemptEnds`, `AttemptWedges`), whose guards
say what the loop may rely on; `Session` shows that the real attempt keeps them.

A signal is *heard* if a select is polling a `shutdown_signal()` and *lost*
otherwise. On Unix tokio's handler stays installed and swallows a lost one; on
Windows a lost console event falls through and kills the process. The status
and the disconnect flag are single atomic steps, as the code's locks and the
watch channel make them.

### TunnelThread and Session

Each of `tpc`, `handle`, `ready`, `done`, `routes`, `dns` is a function of the
thread, so that two tunnels at once can be expressed and ruled out. A thread's
step may hang for ever. `Return` is the function's exit: the session is freed,
then unused senders are dropped, and only then does the closure send the result
(`Report`). A panic drops all senders at once; `DnsStateGuard` reverts DNS and
nothing reverts the routes. gp-route and gp-dns are single steps with the
results `run_tunnel` distinguishes: success, an ordinary error that has rolled
back but for what is only logged, and a degraded end.

`Session` replaces the three abstract actions by the main task: `apc` is the
select it is in, and an action is one ready branch. tokio picks any ready
branch, so no priority is modelled. The drain is bounded
(`DrainTimesOut` is `exit_wedged`). `leaked` is what a thread left on the host;
`mishap` (a ghost) says that an error the code only logs, or a panic, explains
it; `rejected` (a ghost) that a mainloop has reported the current cookie dead.

### RouteApply

The kernel table is a set of entries with one entry per `<<dst, metric>>`, which
is what `ip route add` (EEXIST) and `ip route replace` key on; `ip route del
<p> dev tun` removes the entry of lowest metric that matches. A command ends
`ok`, `failed` (having acted or not: killed at its timeout) or `unconfirmed`
(killed, exit not confirmed), and then it is `live` and may still act at any
later step. `at` is the next command; `mode` tells apply, its rollback and the
teardown apart, the latter two being one function in the code. The device may
vanish at any time with all that is on it.

Ghosts: `torn` (a command that failed had acted), `quiet` (a loss that only a
debug line tells of), `table0` (the table gp-route found). `quiet` becomes true
in two places: a delete that fails while there is a prior entry of another metric
to restore (main cause: the code logs it at debug and counts on the restore to
displace the record), and a takeover of an entry that was not captured. `OddGateway`
is a host route to the gateway that the pin does not take the place of: the undo of the
pin puts it back beside the pin. `Slip`, the third exception of the promise's last
stage, names both.

### RoutePromise

The abstract side of the three route modules: four variables that say where apply and
revert are and how they ended. The refinement mapping is in each of them
(in RouteApply `Promise == INSTANCE RoutePromise WITH ...`): `stage` from `at` and `mode`,
`verdict` from `gated` and `errors`, `leaked` from a comparison of the table
with the one found at the start. The route actions of `TunnelThread` are these
steps: an apply that ends `err` with a slip is its "error and mishap" disjunct.

### RouteMac

Two things make macOS a module of its own. route(8) may exit 0 although the kernel
refused: the code reads the output of the gateway pin's `add` and trusts the exit
of a split route's. `config.tells` says whether the exit can be trusted, and is
the premise of what is said of split routes. `route get` is a best-match lookup:
`scoped` and `pinrow` are the two rows the gateway may have, and a scoped one
hides the other. Rows of other programs come at any time. Prefixes that
`parse_ipv4_cidr` rejects (IPv6 ones) are in the list of routes, which is what
the finding is about.

### RouteWindows

`row` says whose each thing on the host is: nobody's, this process's, a dead
one's, or, for the pin, somebody else's. A command ends as in RouteApply, but
its exit may lie; what the code believes comes from its reads of the table. `file`,
`pending` and `usable` are the journal: whether it loads, the intents without a
resolved mark, and whether this process may go by it. `Restart` ends the process
at any step and starts the next one with the same settings. Sequence numbers, sizes
and compaction (the identity on pending intents) are left out, MTU and discovery
are one read, and the undo walk's marks are absent: they go under keys
"delete ..." that no intent has.

What the model shows of the journal, and no run states: `mark_resolved` in a
rollback or a teardown never resolves the pending "add ..." intents, so the next
connect counts them as suspected orphans, against the comments at lib.rs 3443,
4274 and 5526; intents are resolved at install, so a crash after it surfaces
nothing; a load that fails once inside `mark_resolved` writes a record that
leaves the file corrupt for good; without `config.ipv4` every split row counts as
foreign and is never deleted; `netsh delete` that exits 0 is believed.

### CommandRunner and CommandPromise

The caller, the supervising thread that spawns, the channel between them and the
child run beside one another. `expired` is the deadline of the wait the caller is
in; a child may refuse to die, and a descendant may hold its pipes. `ReapSites`
are the places where the code reaps a late child. `clocks` is
what was observed, `record` what `build_command_outcome` makes of it.

### Nrpt

A session is one process of `opc connect`, identified by its owner token (PID and
creation time), and `pc` is its place from the scan of the control pipes to its
end. A rule key is a pair of session and random part; its name in the registry is
`openprotect-<instance>-<token>-<random>`, and since an instance name may contain
dashes the model writes a name as the sequence of its segments, so that "starts
with the prefix" is `IsPrefix`. `used` are the keys a session has drawn: the code
draws 128 random bits for each.

A sweep is a record per sweeper (a session's own thread, its crash handlers, its
janitor, an `opc recover`): a listing, then one deletion at a time, then the
notification to DnsCache, any of which can fail. What starts it fixes its scope,
and for `PreconnectScan` and `RecoverScans` the scope is decided by a scan
(`Scans`) that may be incomplete, or name pipes that are gone when they are
probed; the decision and the sweep are separate steps, as in the code. `Kill` ends
a process between any two steps.

The write, its rollback, the revert, the revert of `DnsStateGuard` during an
unwind, the panic hook, the console handler, `exit_wedged` and the sweep after a
degraded route revert are actions or sweeps of their own. `cache` is the set
DnsCache last loaded; a notification that timed out stays `parked` and may be
delivered later. `denied` (a ghost) holds the keys whose deletion was refused.

### ControlSocket and ResolverFiles

A path holds nobody's, a stale, a foreign or a session's socket. Probe, removal
and bind are steps, and so are the listing of a scan and its probes; a process may
die between any two. A listener whose backlog is full is not modelled. The files
are written zone by zone, each by a temporary and a rename; a sweep holds the
list it made, and removes by name what may by then be somebody else's. The
journal is written before the first file. recover reads the directory in one
step, and reads and removes the zones of a journal in one.

`exposed` (a ghost) marks sessions somebody may harm with older facts: a scan
made before the session was reachable, a twin bound over its path, a decision
about a zone made before it wrote the file. The code cannot prevent these without
a lock; the property says that nothing else takes a file from a live session.
`excused` holds files a session may leave: a failed removal, or one a failed apply
had adopted. A recover that could not read a file, or not list
the directory, goes on, and its exit code does not show it: `passed` (a ghost) holds the
zones it went past in this way. A journal gives such a zone a second chance, whose
failure is not reported either. `flawed` is what recover does report.

### ServiceDns

A setting is a list of servers and a list of search domains, `wanted` (a ghost)
what the user last chose. A swap reads both, writes the journal, sets; a revert
compares and restores; a recovery works off the journals it read. Each
`networksetup` call may fail, each process may die. `contested` (a ghost) marks a
service two of them had to do with at once: a recover over a live session, two
live sessions, or a journal of another instance. Sessions of one instance may be pushed
different servers; `lost` (a ghost) marks a service whose journal was overwritten for
other servers by a session that never made its swap. Live sessions of one instance are
taken to be kept apart by the control socket, and the user to edit only while
nobody is at work on the service. A journal that cannot be read is left out, and
the search domains are modelled but no property is about them.

### SamlCapture and Login

One thread runs the flow; `http` and `readers` are its threads, `stop` the flag
that ends them, `chan` what they captured. The Unix reader polls a wake pipe beside
the terminal; the Windows reader holds the process's lock on standard input across
a blocking read that can only be cancelled from outside, and is abandoned when it
does not answer. `tty` is the echo, whether the handlers are installed, and the
saved settings that guard and handler share. A signal handler runs on a thread of
the runtime, step by step beside the guard. `Login` puts two flows in a row, with
the password prompt and the one-time codes of `gateway_login` after each. What
servers answer is a free choice. Left out: the discarding of type-ahead by
TCSAFLUSH, a `tcsetattr` that fails, what a buffered reader hoards of a pipe,
panics of the listener's thread.

`sig.sound` (a ghost) excludes a handler that began before the echo went off or
was overtaken by the guard's drop or the next flow: there the comments of
saml_paste.rs near 1117 and 1206 do not hold, and the model shows both outcomes.

### EntraFlow, OktaFlow, ScriptedLogin

An answer is one of the page kinds the code tells apart, chosen freely; tokens are not
told apart, only whether the client holds the newest one issued. Each cap of the code is
a constant and a counter. A request is answered or fails, at once or after the deadline:
the HTTP client has no timeout of its own, so the deadline is looked at between
requests. A "not yet" and a wrong code may carry a new pair or not; the factor leg does
not take it up, and what it sends is then `undecided`, told apart from what is `old` for
any other reason. Okta's OIE machine answers a `password` challenge with the password it
was given, without a prompt (okta.rs 1288-1300); the model counts it as asked for, the
challenge being the provider's question. Pages with a `$Config` are taken to carry and
rotate the pair; completion pages drift. KMSI posts an answer, discards the result and
requests again, although entra.rs 760-763 says that this hits an endpoint that takes
posts only; the model does what the code does. No provider calls the OIE machine today.
The cookie jar kept across processes is left out.

### ConnectFlow

`main` and `thread` are the places where the two may block, each with the name it
is noted under for the watchdog (`MainStamps`, `ThreadStamps`); notes with nothing
that blocks between them are one. What the two say to each other is Session's:
here a place is left whenever the code may leave it. The merging of settings, the
cookies of Entra, the metrics server and the resolution of `--only` are single
steps. `PhaseWatch` is the cell: `Elapses` makes a phase late, `Tick` reports it
once. `told` and `wiped` (ghosts) say who has been reported since its last step and
who had its note cleared by the other. `WintunSweep` takes a snapshot before the
tunnel exists, looks once for another opc, and removes with processes that may be
abandoned and act later; the other opc may start at any time, on a new adapter or
on one that was left (the comment of `run_sweep` says so), and end or crash.

## What the runs check

| run | instance | distinct states | shows |
|---|---|---|---|
| `connect` | 2 gateways; Windows and macOS with four ways to sign in, with and without native routes, one Linux call, one Windows call with a stray adapter and another opc | 502,984 | cookie, gateway, status and pin belong together, stalls are reported and people are not, adapters in use are spared |
| `session` | 2 threads, 1 gateway, 2 attempts, 2 re-auths, metrics to 1; three kinds of invocation | 715,556 | no stranded thread, owned network, honest exit code, heeded cookie verdicts, stop requests, and that Session implements ReconnectLoop, fairness included |
| `route_apply` | 2 prefixes, 2 metrics, 56 initial tables, all policies | 197,182 | the gate, other owners' routes, what "up" means, the checklist of a degraded walk, the promise |
| `route_macos` | 2 IPv4 prefixes, with and without a rejected one, all policies, every row the gateway may have | 97,518 | what "up" means, other owners' rows, the promise |
| `route_macos_bail` | the same | stops at the counterexample | the finding |
| `route_windows` | 2 prefixes, 2 processes in a row, one prefix also served by another adapter | 703,323 | what "up" means where exits lie, that nothing on the host goes unrecorded, the gate, other owners' pins, the promise |
| `command_runner` | 2 commands | 6,720 | honest records, no orphaned child, the promise |
| `nrpt` | 2 sessions, of one instance or of two whose names are nested (`work`, `work-home`), one `opc recover`, 1 rule each, 1 fault | 542,284 | sweeps spare the living, a session that is down is clean, a dead session's rules go if its janitor lives |
| `resolver_files` | 2 zones and 2 sessions, or one session and one or two recovers, 1 fault | 1,073,233 | a live session keeps its zones, an ended one leaves none, a recover that reports success has taken all it could read |
| `service_dns` | 3 sessions of one instance, one of them pushed other servers, 1 recover, 1 service, 1 edit, 3 faults | 1,970,344 | the user's servers can be had back, but where a record was overwritten for other servers, and only a swap displaces them |
| `login` | 2 flows, 2 lines typed, 2 listeners, 2 rounds of one-time codes, both builds | 528,156 | nothing outlives a flow, the terminal is given back, flows end |
| `scripted_login` | both flows with every cap at or below the code's | 103,206 | tokens are fresh, the promise, the login ends |

The properties, in words:

- `SessionBelongsTogether`: an attempt runs with the cookie of the gateway it
  connects to; the status shows that gateway; the pinned address is one of its own
  or none.
- `StallsAreTold`: whoever stays for ever at a place that is noted is reported.
  `PeopleAreLeftAlone`: nothing is reported while a person is at a browser. Their
  exceptions are disagreements with comments, below.
- `AdaptersInUseSpared`: no removal, not even one abandoned long before, takes
  the adapter of this run, or that of another opc that could be seen when the
  thread looked.
- `NoStrandedThread`, `NetworkHasOwner`, `SuccessIsClean`: no path out of an
  attempt leaves its thread beside the loop; routes and DNS are up only under a
  thread that will take them down; success means that nothing is left but what a
  logged error tells of.
- `RejectionIsHeeded`: a cookie that a mainloop reported dead is not used for
  another tunnel, on every path but the `--hip=force` one (below).
- `StopRequestEnds`: a stop request ends the process, though any step of the
  thread may hang. `LoopSpec`: Session implements ReconnectLoop.
- `NothingBesideLive`: no command is issued while a killed child may be alive.
- `OthersUntouched`: Linux, under `fail` and `skip`: no foreign entry of a split
  prefix ever differs from what was found. macOS: nobody else's row for the
  gateway is touched, and where the exit of route(8) can be trusted no foreign
  prefix either. Windows: somebody else's route to the gateway is never deleted,
  unless route.exe hid it.
- `UpMeansRouted`, `UpMeansSeen`: what holds after `Ok`: every prefix in the tunnel
  save those `skip` leaves alone, and a pin that carries; on Windows, a row seen for
  each.
- `ChecklistComplete`: a walk that stopped names every delete, restore, address
  and pin it recorded and did not put back.
- `Accounted`: on Windows, whatever of this process or a dead one is on the host is
  in the journal, in `AppliedState`, in hand, or was told of by an error.
- `KeepsPromise`: the route modules implement RoutePromise (what a walk without an error
  may leave is named in the formula), CommandRunner implements
  CommandPromise, ScriptedLogin implements IdpPromise.
- `RecordIsHonest`: a record says Exited only of a dead child, and None only where
  there was none. `NobodyIsOrphaned`: a child that outlives its command has been
  killed or is in the hands of the thread that will.
- `SweepsSpareTheLiving`: when a sweep is decided, no rule of another session
  that holds its pipe is in its scope, unless it is the sweep of an instance and the
  other's name is nested in its own. `DownMeansNoRules`: a session that ended or
  is between attempts has no rule but what the registry refused to delete.
  `DeadRulesGo`: a dead session's rules go, in the registry and in DnsCache, if its
  janitor lives and nothing refuses.
- `UpMeansScoped`, `EndedMeansClean`, `RecoverIsThorough`: see "ControlSocket and
  ResolverFiles" for the exceptions of the first two; a recover that reports no
  failure has left no file of a session that was dead when it scanned, but for those it
  went past with a warning or without one (`passed`).
- `ServersRecoverable`, `OnlySwapsDisplace`: on a service that is not contested, what
  the user wants stands or a journal brings it back, but where a journal was overwritten
  for other servers (`lost`, and until the swap that follows); no revert and no recovery writes
  an old record over a newer setting.
- `NothingOutlivesTheFlow`, `TerminalGivenBack`, `FlowEnds`: once a flow has returned
  none of its listeners is left, nor on Unix its reader, and a Windows reader that had
  to be left takes one line at most; echo is on whenever a flow is left, by whatever
  way; a flow ends in the gateway's time.
- `NothingStaleIsSent`: each request carries the newest token the provider has
  issued, but for polls and codes of the Entra factor leg after an answer that decided
  nothing. `LoginEnds`: no sequence of answers keeps a scripted login for ever.

### Bounds

ConnectFlow: two gateways let a re-authentication move the session; attempts and
re-authentications are not counted, so all that repeat are there. A stray adapter is
only in one call, because adapters and phases have nothing to do with one another; its
watchdog has a budget nothing exceeds.
Session: `Spawn` may pick either of two identities whenever it is free, so a second live
thread would be possible if a path forgot the first; a third adds nothing, as two at
once are already excluded. Two attempts give the retry with everything left over from
the first. `MAX_RECONNECT_ATTEMPTS` is 5 in the code; `MetricCap` saturates two counters
that never decrease; the theorems hold for any of them. With two gateways the run takes
too long; that case is ConnectFlow's.
RouteApply: two prefixes give a first and a last, and a walk that is part done; two
metrics give entries that do and do not share a key with the tunnel's own; the 56 tables
let a prefix be free, foreign, a leftover of an earlier session, doubly routed and a
blackhole, and the gateway reached by the default route, by a host route with and
without a metric, or barred. A command does one of four things at every step, so every
failure position is reached.
RouteMac, RouteWindows: two prefixes likewise; on Windows two processes, so that the
second finds what the first left at any step, and only the first prefix may also be
served by another adapter.
CommandRunner: two commands give one that is issued after another; there is never a
third in flight.
Nrpt: two sessions that take either of two nested names, one fault (a failed call, a
kill or a panic). More faults, more rules and more names are covered by the theorems
about `DownMeansNoRules` and `SweepsSpareTheLiving`, and `DeadRulesGo` alone is bound to
the instance. One parked notification stands for any number; as nothing it may do
depends on who parked it, it may outlive its process.
ResolverFiles: two actors give every race of two; the three-actor instance (more than
eight million states) is left to the proof. ServiceDns: one service, and three sessions,
which is what it takes to overwrite a record and then to believe what was set before it;
two services are the theorem's.
Login: two flows give a first one and the prompts after it, and a re-authentication of
what it left; people act only while something asks and no handler runs; a line is the
callback or anything else; 2 rounds of codes against 3 in the code.
ScriptedLogin: 6 relays, 3 BSSO hops, 3 codes and 10 hops are the code's; 3 polls stand
for 60 and 8 rounds for 10: each cap is reached.

### Fairness

The loop takes its own steps: they are straight-line code between awaits of
timers. `run_reauth` may never come back (it waits for a browser and nothing
races it), and a healthy tunnel may stay up for ever: neither is assumed to
happen. In Session nothing is assumed of the thread; only the main task's steps
are fair, among them `DrainTimesOut` and the bounded receive, because tokio's
timeouts are in the code at each place (`drain_done_with_timeout`,
`bounded_cancel_handle_recv`). `StopRequestEnds` therefore holds although any
step of the thread may hang, and its premise excludes exactly the unbounded
re-authentication. In the three route modules every command ends because the
runner kills it at its deadline, which is what CommandRunner shows; a live child is
not assumed ever to act. In CommandRunner the caller's steps, the passing of time
and the supervisor's steps after the spawn are fair; the spawn, the child and the
pipes are not. In Nrpt only the janitor is fair: it is a process with nothing else
to do, that waits for its parent's end and then makes registry calls and one bounded
notification. In Login the thread of the flow, its workers and the clocks are fair;
no person and no server is. In ScriptedLogin a request is answered or fails, a
person who was asked answers, and time passes; the client has no timeout that would
give more. In ConnectFlow only the clock (`Elapses`) and the ticker's task (`Ticks`)
are fair: main task, thread and people may stay where they are, which is what the
watchdog is for. ResolverFiles and ServiceDns state safety only.

## What is proved

All theorems hold for every value of the constants that satisfies the named
assumptions of their module: any set of gateways, threads, prefixes, metrics,
initial tables, neighbours, processes, commands, sessions, instances, zones, rules and
adapters, any bound on retries, re-authentications, metrics and faults.

**SessionProofs**, of ReconnectLoop: `LoopTyping`, `PinFollows`, `DeadCookieDropped`,
`DegradedEnds`, `InterfaceIsFresh`, `RestartsAreRetries`. The invariant is
`LoopTypeOK` with `LoopSafe`, which adds to the properties where each counter is
below its bound and what the last outcome implies at each `pc` (for instance that
`attempt_num` is strictly below its limit wherever another attempt may follow,
and that a verdict on the cookie is held only between its outcome and the
decision about it). Of Session: `SessionTyping`, `SessionImplementsLoop`,
`ThreadsAreJoined`, `NetworkIsOwned`, `SuccessMeansClean`, `SpawnsAreClean`,
`RejectionHeeded`. The invariant has four
parts, none inductive alone. `MainInv` ties the select the main task is in to the
loop's state, so that each step of Session meets the guard of the loop's step.
`OwnerInv` says that a thread exists only inside the attempt that owns it.
`ResourceInv` says in which stages a thread can hold routes and DNS. `LeakInv`
says that a leak nobody logged is on its way to the loop as a degraded
outcome. `SessionImplementsLoop` maps initial states to initial states and each
step to a step of the loop or a stutter; the loop's invariants are then reused,
and needed, inside the same induction.

**RouteApplyProofs**: `RouteTyping`, `GateHolds`, `OthersKept`, `UpIsRouted`,
`ChecklistIsComplete`, `RouteKeepsPromise`. `IndexInv` follows
the walk over the routes (where the index is, and that no more is recorded than
was visited), `GateInv` says a live child exists only when the phase is over, and
`KeepInv` says, for the policies that leave other routes alone, that nothing
recorded, nothing in hand and no live child can touch a foreign entry. A
`Harmless` command is one that cannot; `CommandsIssue` shows that every step
issues at most one command and, under those policies, a harmless one.
`RoutedInv` says which routes are settled where apply stands. `RecordInv` (the
recorded prefixes are distinct, and what each displaced is one entry of its own
prefix), `WalkInv` (a route the undo has passed is gone or named) and `GatedInv` (a
child left alive moves nothing but what the checklist names) carry the checklist: a
command moves no entry of another prefix (`EffectElsewhere`), so what is dealt with
stays so. `RouteKeepsPromise` is the step part of the refinement. `BackInv` says where each
foreign entry is that was there before: still in the table, or recorded with the one
route or the pin that displaced it; a restore takes the place of no other, because the
table gp-route found had one entry to a key. With `WalkInv`, which follows the walk to
its end, a phase that ended without a failure has left nothing. `Slip` excepts
the pin over an `OddGateway`, because the pin is put back by a `replace` of the entry it
displaced, which takes the pin's place only if that has metric 0, and the takeover of a
blackhole (see the known disagreements).

**RouteMacProofs**: `MacTyping`, `MacGateHolds`, `MacUpIsRouted`, `MacMindsOthers`,
`MacKeepsPromise` (the step part of the refinement). `WhereInv` follows the walk,
`RoutedInv` says which prefixes and which of the gateway's rows are this tunnel's where
apply stands, `PinKept` and `RowsKept` that a row somebody else owns is as it was until
it is recorded as displaced, and `LeakInv` that whatever is left on the host when a
walk ends is in its list of errors or was left by a command that reported success.

**WindowsProofs**, of RouteWindows: `WindowsTyping`, `NothingRunsBesideLive`,
`OtherPinsSurvive`, `HostIsAccounted`, `UpIsSeen`, `WindowsKeepsPromise` (the step
part of the refinement). The invariant has eight named parts: `LiveInv` (a live child
exists only when the phase is over), `PhaseInv` and `SeenInv` (what has been visited
and seen where the walk stands), `PinInv`, `OursInv` and `AdoptedInv` (what may be
deleted was proved this process's own, what was adopted never is), `LeakInv` and
`LedgerInv` (whatever is on the host is recorded, in hand, or told of).

Of Nrpt: `NrptTyping`, `RulesHaveGuards`, `DownIsClean`, `JanitorIsThorough`,
`UnscannedSweepsAreOwn` and `NoSweepTakesTheLiving`. `Typed` ties each session to its
sweeps and guards. `Guarded` adds that a rule in the registry is in the list of the
session that wrote it or was refused, which is what makes a revert complete. `Swept`
follows a janitor: its session is gone, so that nothing new can be written, and what its
listing missed or refused is all that is left. `OnePipe` says that one session at a time
is bound to an instance, `ScopesKept` that a sweep nobody scanned for lists its own
instance only. The prefix of a key says which owner it is of, whatever names there are
(`OwnerScopeIsExact`); of its instance it says only that the name of the instance is the
beginning of its own, segment by segment, which is why the last two theorems except
nested names.

**CommandDnsProofs**, of CommandRunner: `RunnerTyping`, `RecordsAreHonest`,
`ChildrenAreOwned`, `RunnerImplementsPromise`. The invariant follows the child through
the channel: at every point exactly one of supervisor, channel, caller and reaper has
it, and what the clocks say is no more than what happened to it. The refinement is of
the steps; that every command ends stays with TLC. Of ServiceDns: `DnsTyping`,
`DnsRecoverable` and `DnsDisplaces`. What makes
`ServersRecoverable` inductive is where the original setting is at each place of an
apply and of a revert: still set, in hand, in the journal, or given back, and what a
session about to swap may find in its way. `DnsDisplaces` is `OnlySwapsDisplace` for the
services whose record was not lost; for the lost ones the run alone shows it.

**ResolverFilesProofs**: `ResolverTyping`, `UpStaysScoped`, `EndedIsClean`,
`RecoversAreThorough`. `Base` ties sockets, scans and sweeps together (`TypeInv`,
`PhaseInv`, `SweepInv`, `AloneInv`, `SeenInv`); `ProgressInv` says how far an apply
or a revert is in its list, `AuthorInv` that a file in a session's name is in what it
wrote, `ZoneInv` that a zone is lost only by somebody with older facts,
`ThoroughInv` that what a recover has passed stays dealt with.

**ConnectFlowProofs**: `ConnectTyping`, `SessionIsWhole`, `AdaptersAreSpared`,
`PeopleAreSpared`. `Whole` says at which places of connect cookie, gateway, status and
pin agree, from the login on, the waits of a re-authentication included. `Apart` says
that what the removal thread and its abandoned processes may still take is neither this
run's adapter nor, unless a newcomer has started, anybody's. `Attended` says what is in
the phase cell at each place where a person is waited for and whoever may have written
it since, the thread beside it included.

**AuthProofs**, of Login: `LoginTyping`, `LoginLeavesNothing`, `LoginGivesBack`.
`CaptureInv` has seven parts: `LinesOK` and `ReadersOK` follow standard input and each
reader left over it, `MainOK` and `WorkersOK` the flow with its listeners and their
channel, `GuardOK` and `SignalOK` who has the saved terminal settings between the guard,
its drop and the handler that may overtake it. Of
ScriptedLogin: `ScriptedTyping`, `ScriptedKeepsPromise` (the step part of the
refinement) and `ScriptedFresh`. `LoginInv` says which tokens and counters each
flow holds on each page.

Only model-checked: everything with fairness (`StopRequestEnds`, `DeadRulesGo`,
`FlowEnds`, `LoginEnds`, `StallsAreTold`, the fairness part of the refinements), which is
out of the prover's reach as is ENABLED. Every invariant and every safety property of
the passing runs has a theorem (`OnlySwapsDisplace` but for the services marked `lost`),
from the named assumptions on the constants alone. The
properties of ReconnectLoop by itself (`PinFollowsGateway`, `NoRetryOnDeadCookie`,
`DegradedIsFinal`, `NoStaleInterface`, `RestartsWithinRetries`) are proved and no longer
run apart: `session` runs the refinement to the loop.

## Findings

`route_macos_bail` must find `AllOrNothing` of RouteMac violated. On macOS the one
error of `platform_apply`'s loop that is not wrapped in `rollback_and_fail` is
`parse_ipv4_cidr(route)?` (lib.rs 2609). An IPv6 route, which `--only` yields for an
IPv6 literal or an AAAA record, ends apply with address, pin and earlier routes in
place and no `AppliedState` to revert them by, where the doc of apply (lib.rs 1544)
says "All-or-nothing".

### Known disagreements

Between code and comments; each is stated in its module and can be seen by checking
the property named, or by dropping the exception named. None is part of a run, and no
run hides one: where a run reaches the case, its property names it as an exception. For
the six with a configuration in the table, TLC ends in the counterexample.

| where | property or exception | what the code does |
|---|---|---|
| ReconnectLoop | `ReauthIsGated` | `reauth_count` is reset by every successful re-authentication and a failed one ends the loop: `MAX_REAUTH_ATTEMPTS` never binds |
| ReconnectLoop | `RestartsCountReestablishments` | `tunnel_restarts` is bumped by `attempt_num > 0`, which is not the same as a re-establishment |
| Session | `NoLateCancel` | the cancel is sent before the join, while the session it points into dies on the thread: a stop request that arrives as the tunnel ends writes to a closed descriptor |
| Session | `NoSpawnWithRejectedCookie` | a `--hip=force` failure on Windows keeps a drained result only if it is degraded; a reported dead cookie is dialled again |
| RouteApply | `AllOrNothing` (`MCRouteApplyMetric.cfg`); exception `OddGateway` of `KeepsPromise` | the pin is undone by replacing the entry it displaced and never deleted (lib.rs 2326-2335), so if that has a metric, as those of network managers have, both stay, where lib.rs 1544 says "All-or-nothing" |
| RouteApply | `TakeOverHandsBack` (`MCRouteApplyBlackhole.cfg`); exception `quiet` | an entry with neither device nor nexthop is dropped from what was captured (lib.rs 2066) and taken over all the same, where lib.rs 100 says that a prefix is handed back on disconnect |
| Nrpt | `InstancesSideBySide` (`MCNrptNested.cfg`); exception `Nested` of `SweepsSpareTheLiving` | a sweep of instance `work` takes every key that begins with `openprotect-work-`, those of a live `work-home` among them; windows_nrpt.rs 86 says that two instances side by side never delete each other's rules, 398 that `Instance` is always safe |
| RouteMac | premise `config.tells` | route(8) exits 0 when the kernel refused, and the `add` of a split route (lib.rs 2612) goes by the exit |
| ResolverFiles | `SuccessMeansThorough` (`MCResolverFilesSilent.cfg`); exception `passed` of `RecoverIsThorough` | a file of /etc/resolver that cannot be read (gp-dns lib.rs 947), and a zone of a journal that cannot be read or removed (main.rs 4274-4287), reach no error, where main.rs 2842 says "A recover that could not do its job must not read as success" |
| ServiceDns | `NeverForgotten` (`MCServiceDnsForgets.cfg`); exception `lost` of `ServersRecoverable` | an apply overwrites a journal whose own servers are not the ones that stand, and calls that safe (lib.rs 1294-1298); if it dies before its swap, over an earlier crash's swap of other servers, the next one takes those for the user's |
| Login | `LeavesTheRest` | the reader of standard input may take lines from behind the one it looked for |
| Login | `sig.sound` | a handler overtaken by the guard's drop leaves echo as it finds it |
| ScriptedLogin | `DecisionIsHeard` | `run_push` of okta.rs gives up after its last poll without looking at the answer (doc at 449, code at 462-495) |
| ScriptedLogin | `NewestPairIsSent` (`MCScriptedLoginRotates.cfg`); exception `undecided` of `NothingStaleIsSent` | the pair of a "not yet" or of a wrong code is not taken up (docs at entra.rs 917 and 1233) |
| ConnectFlow | `Latched` | the latch is a name: a phase that stalls again under the name last reported is not reported unless a tick saw an empty cell in between, e.g. `gateway_dns_resolve` by the main task and then by the thread (docs at 870-877, 985-988) |
| ConnectFlow | `wiped` | the thread's clear at 9568 wipes the main task's `hip_submit`, of which 6963 says that the watchdog is the only thing that can talk about it; the main task's clear at 7024 wipes a `teardown_...` of the thread |
| ConnectFlow | `AtBrowser` | waits for a person that nothing stamps keep the name before: the interactive flow after a headless drift, the webview outside macOS, the one-time code under `gateway_login`, and a re-authentication under `setup_tun_wait`; `PhaseKind::HumanBound` says that a person is never warned about |
| ConnectFlow | `newcomer` | the check for another opc is over when `pnputil` runs |

## What is not modelled, and why

- DNS on Linux: three `resolvectl` commands for one link, whose effect goes with
  the link; target specifications, protocol types, configuration, HIP contents,
  rendering of status and metrics: pure conversions, or files read and written whole.
- GUI and tray: a view of `opc status` and child processes; they change nothing of a
  session but through the commands modelled here. `opc doctor` only reads.
- The IPC protocol (framing, redaction, the client's round trip), the WKWebView and
  libopenconnect: I/O with results the modules take as free choices.
- client.rs beyond its outcomes: forms, answers and their redaction are data.
- The map names less than a third of the lines. Some 24,000 of the 60,549 are
  tests; most of the rest that no module stands for is wording, parsing, diagnostics
  and the layout of a table or a window.
- In TunnelThread gp-dns is a step, not a walk, and so is libopenconnect.
- RouteApply always has an address to assign when `config.ipv4`, leaves out the
  MTU command (it shares its handling with `link up`), IPv6 entries whose key
  includes more than destination and metric, and what the kernel or a network
  manager does to the table by itself. RouteMac has no MTU either, and one row for
  the gateway of each kind; `route delete -net` names no interface, which is why
  its properties are about a tunnel that stands; a takeover's displaced route is not
  restored on macOS, as the code documents.
- Nrpt leaves out what a rule says (its namespaces, its name servers), the links
  it is for, and the exit codes of the commands. Two cases are in the model and
  excluded from its properties: a task that panics sweeps the rules of its own
  session, which lives on (`TaskPanics`; no doc claims otherwise), and a process
  that has given up its pipe may be swept while a successor is bound
  (`OnTheWayOut`). Pipes are bound in one step here.
- ResolverFiles: other programs that write to /etc/resolver after the start, the
  folding of case in zone names.
- ScriptedLogin: cookies kept from run to run. A re-authentication in the Okta and
  headless modes always fails, as in the code.

Hazards that are real and have no property of their own here: a panicking task's
sweep and the sweep of an armed process that has given up its pipe (main.rs 6000,
windows_nrpt.rs 331), the sweep that goes by an instance scan already over (main.rs
5111), a delete that fails while there is a prior entry to restore (lib.rs 2264), and
the exit of route(8) for split routes (lib.rs 2612).

The runs exclude on purpose what `mishap`, `torn`, `quiet`, `exposed`, `excused`,
`contested`, `lost`, `passed`, `wiped`, `newcomer`, `OddGateway`, `Nested` and
`undecided` mark: losses the code knows of and only logs,
cannot see, or cannot prevent without a lock, and cases in which it does not do what a comment
says, listed above. They are stated as premises, so what
the properties say is that nothing else can be lost.

## Plan

What is left, in the order of its worth:

1. Proofs: that the route actions of TunnelThread are steps of RoutePromise, so that what
   the three RouteXxx modules implement is what Session relies on.
2. An abstract specification of Nrpt and of ResolverFiles: a set of owners and what
   each has, which goes only when its owner is gone or takes it back.
3. The IPC round trip with ControlSocket: `opc disconnect --all` against sessions
   that start and end.
4. The GUI's state machine, small.
