--------------------------- MODULE ReconnectLoop ---------------------------
(***************************************************************************)
(* The outer reconnect loop of `opc connect` (bins/opc/src/main.rs,        *)
(* connect(): the 'outer loop and its decision table).                     *)
(*                                                                         *)
(* One call of run_tunnel_attempt is abstracted to what the loop sees of   *)
(* it: the attempt may publish a working tunnel (AttemptConnects), it ends *)
(* with an AttemptOutcome (AttemptEnds), or it takes the process down      *)
(* (AttemptWedges).  Module Session replaces these three actions by the    *)
(* main task's selects and the tunnel thread, and is checked to implement  *)
(* this module.                                                            *)
(***************************************************************************)
EXTENDS Naturals

CONSTANTS
  Gateways,                \* gateway addresses a portal may hand out
  NoPin,                   \* gateway_ip_pin = None
  Options,                 \* the invocations considered
  MAX_RECONNECT_ATTEMPTS,
  MAX_REAUTH_ATTEMPTS,
  MetricCap                \* where the model stops counting the metrics

\* What the loop is given: the platform, --reconnect, and what decides which
\* parts of the tunnel setup run.
Invocations == [windows : BOOLEAN, reconnect : BOOLEAN,
                native_routes : BOOLEAN,   \* --only and no --vpnc-script
                pushed_dns : BOOLEAN,      \* the gateway pushes nameservers
                hip_mode : {"off", "auto", "force"}]

ASSUME LoopAssumption ==
  /\ Gateways # {}
  /\ NoPin \notin Gateways
  /\ Options \subseteq Invocations
  /\ MAX_RECONNECT_ATTEMPTS \in Nat \ {0}
  /\ MAX_REAUTH_ATTEMPTS \in Nat \ {0}
  /\ MetricCap \in Nat \ {0}

VARIABLES
  opts,           \* this invocation's options; they never change
  pc,             \* where the loop is
  outcome,        \* the last attempt's AttemptOutcome, "none" before it ends
  attempt_num,    \* transient retries since the last fresh cookie
  reauth_count,
  gateway_host,
  gateway_ip_pin, \* the gateway the cached address was resolved for, or NoPin
  reported,       \* what the outcomes said of the cookie now in cookie_str
  base,           \* SharedBase: what `opc status` and /metrics read
  disconnect,     \* the watch channel `opc disconnect` sets
  signalled,      \* shutdown signals so far: "no", "lost" (none was listened
                  \* for) or "heard" (one was)
  counters,       \* the two reconnect metrics
  established,    \* tunnels published so far (ghost, up to MetricCap)
  result          \* how connect() ended

loopVars == <<opts, pc, outcome, attempt_num, reauth_count, gateway_host,
              gateway_ip_pin, reported, base, disconnect, signalled,
              counters, established, result>>

Outcomes == {"UserCancel", "Ok", "TerminalErr", "AuthExpired", "Err",
             "DegradedTeardown"}
ErrKinds == {"Terminal", "Degraded", "AuthNoReconnect",
             "ReauthBudgetExhausted", "PlainNoReconnect"}
SessionStates == {"Connecting", "Connected", "Reconnecting"}
PCs == {"top", "attempt", "decide", "reauth", "backoff", "cleanup", "stopped"}

\* What an outcome tells the loop about the authcookie it used.
CookieVerdict(o) == CASE o = "AuthExpired" -> "expired"
                      [] o = "TerminalErr" -> "terminated"
                      [] OTHER -> "none"

Bump(n) == IF n < MetricCap THEN n + 1 ELSE n

(* Operators named Faulty... are mistakes this code could contain; the model *)
(* never uses them, PROJECT.json names the property each of them breaks.     *)

FaultyTerminalRetries(o, disconnectRequested, reconnectEnabled, budgetLeft) ==
  CASE o = "DegradedTeardown" -> "Degraded"
    [] o # "DegradedTeardown" /\ disconnectRequested -> "BreakOk"
    [] OTHER ->
         CASE o \in {"UserCancel", "Ok"} -> "BreakOk"
           [] o = "AuthExpired" ->
                IF reconnectEnabled /\ budgetLeft THEN "TryReauth" ELSE "AuthNoReconnect"
           [] o \in {"Err", "TerminalErr"} ->
                IF reconnectEnabled THEN "RetryTransient" ELSE "PlainNoReconnect"

FaultyDisconnectFirst(o, disconnectRequested, reconnectEnabled, budgetLeft) ==
  CASE disconnectRequested \/ o \in {"UserCancel", "Ok"} -> "BreakOk"
    [] ~disconnectRequested /\ o = "DegradedTeardown" -> "Degraded"
    [] ~disconnectRequested /\ o = "TerminalErr" -> "Terminal"
    [] ~disconnectRequested /\ o = "AuthExpired" ->
         IF reconnectEnabled /\ budgetLeft THEN "TryReauth" ELSE "AuthNoReconnect"
    [] ~disconnectRequested /\ o = "Err" ->
         IF reconnectEnabled THEN "RetryTransient" ELSE "PlainNoReconnect"

FaultyIgnoresDisconnect(o, disconnectRequested, reconnectEnabled, budgetLeft) ==
  CASE o = "DegradedTeardown" -> "Degraded"
    [] o \in {"UserCancel", "Ok"} -> "BreakOk"
    [] o = "TerminalErr" -> "Terminal"
    [] o = "AuthExpired" ->
         IF reconnectEnabled /\ budgetLeft THEN "TryReauth" ELSE "AuthNoReconnect"
    [] o = "Err" -> IF reconnectEnabled THEN "RetryTransient" ELSE "PlainNoReconnect"

(***************************************************************************)
(* loop_decision_for: what to do after an attempt.  A BreakErr decision is *)
(* named by its ErrKind.                                                   *)
(***************************************************************************)
DecisionFor(o, disconnectRequested, reconnectEnabled, budgetLeft) ==
  CASE o = "DegradedTeardown" -> "Degraded"
    [] o # "DegradedTeardown" /\ disconnectRequested -> "BreakOk"
    [] OTHER ->
         CASE o \in {"UserCancel", "Ok"} -> "BreakOk"
           [] o = "TerminalErr" -> "Terminal"
           [] o = "AuthExpired" ->
                IF ~reconnectEnabled THEN "AuthNoReconnect"
                ELSE IF budgetLeft THEN "TryReauth"
                ELSE "ReauthBudgetExhausted"
           [] o = "Err" -> IF reconnectEnabled THEN "RetryTransient"
                           ELSE "PlainNoReconnect"

Decision == DecisionFor(outcome, disconnect, opts.reconnect,
                        reauth_count < MAX_REAUTH_ATTEMPTS)

LoopInit ==
  /\ opts \in Options
  /\ pc = "top"
  /\ outcome = "none"
  /\ attempt_num = 0
  /\ reauth_count = 0
  /\ gateway_host \in Gateways
  /\ gateway_ip_pin \in {gateway_host, NoPin}
  /\ reported = "none"
  /\ base = [state |-> "Connecting", tun |-> FALSE,
             gateway |-> gateway_host, degraded |-> FALSE]
  /\ disconnect = FALSE
  /\ signalled = "no"
  /\ counters = [reconnect_attempts |-> 0, tunnel_restarts |-> 0]
  /\ established = 0
  /\ result = "running"

-----------------------------------------------------------------------------
(* One pass of the loop. *)

\* set_base_state(Connecting), then run_tunnel_attempt is called.
StartAttempt ==
  /\ pc = "top"
  /\ pc' = "attempt"
  /\ outcome' = "none"
  /\ base' = [base EXCEPT !.state = "Connecting"]
  /\ UNCHANGED <<attempt_num, reauth_count, gateway_host, gateway_ip_pin,
                 reported, disconnect, signalled, counters, established,
                 result>>

FaultyCountsEveryConnect ==
  /\ base' = [base EXCEPT !.state = "Connected", !.tun = TRUE]
  /\ established' = Bump(established)
  /\ counters' = [counters EXCEPT !.tunnel_restarts = Bump(@)]

\* The attempt publishes its tunnel: state, interface, restart counter.
PublishConnected ==
  /\ base' = [base EXCEPT !.state = "Connected", !.tun = TRUE]
  /\ established' = Bump(established)
  /\ counters' = IF attempt_num > 0
                 THEN [counters EXCEPT !.tunnel_restarts = Bump(@)]
                 ELSE counters

Connects ==
  /\ PublishConnected
  /\ UNCHANGED <<pc, outcome, attempt_num, reauth_count, gateway_host,
                 gateway_ip_pin, reported, disconnect, signalled, result>>

\* Once per attempt, and not after a signal has been heard.
AttemptConnects ==
  /\ pc = "attempt"
  /\ signalled # "heard"
  /\ base.state = "Connecting"
  /\ Connects

FaultyKeepsInterface(o) ==
  /\ pc = "attempt"
  /\ pc' = "decide"
  /\ outcome' = o
  /\ reported' = CookieVerdict(o)
  /\ UNCHANGED <<base, attempt_num, reauth_count, gateway_host, gateway_ip_pin,
                 disconnect, counters, established, result>>

\* The attempt returns o.  A cancelled attempt leaves the interface in base;
\* one that ended by itself has cleared it; a degraded one may be either.
Returns(o) ==
  /\ pc = "attempt"
  /\ pc' = "decide"
  /\ outcome' = o
  /\ reported' = CookieVerdict(o)
  /\ \/ o \in {"UserCancel", "DegradedTeardown"} /\ UNCHANGED base
     \/ o # "UserCancel" /\ base' = [base EXCEPT !.tun = FALSE]
  /\ UNCHANGED <<attempt_num, reauth_count, gateway_host, gateway_ip_pin,
                 disconnect, counters, established, result>>

\* Only a stop request cancels an attempt, and a heard signal always does.
AttemptEnds(o) ==
  /\ Returns(o)
  /\ o = "UserCancel" => disconnect \/ signalled = "heard"
  /\ signalled = "heard" => o \in {"UserCancel", "DegradedTeardown"}
  /\ UNCHANGED signalled

\* exit_wedged: the cancelled tunnel thread did not answer in time.
ExitWedged ==
  /\ pc' = "stopped"
  /\ result' = "wedged"
  /\ UNCHANGED <<outcome, attempt_num, reauth_count, gateway_host,
                 gateway_ip_pin, reported, base, disconnect, signalled,
                 counters, established>>

\* A thread is cancelled on request, and on Windows when HIP is refused.
AttemptWedges ==
  /\ pc = "attempt"
  /\ disconnect \/ signalled = "heard" \/ opts.windows
  /\ ExitWedged

-----------------------------------------------------------------------------
(* The decision and what each arm of the match does. *)

MarkDegraded(b) ==
  IF outcome = "DegradedTeardown" THEN [b EXCEPT !.degraded = TRUE] ELSE b

DecideBreak ==
  /\ pc = "decide"
  /\ Decision \in ErrKinds \cup {"BreakOk"}
  /\ pc' = "cleanup"
  /\ base' = MarkDegraded(base)
  /\ result' = IF Decision = "BreakOk" THEN "ok" ELSE "err"
  /\ UNCHANGED <<outcome, attempt_num, reauth_count, gateway_host,
                 gateway_ip_pin, reported, disconnect, signalled, counters,
                 established>>

DecideReauth ==
  /\ pc = "decide"
  /\ Decision = "TryReauth"
  /\ pc' = "reauth"
  /\ reauth_count' = reauth_count + 1
  /\ base' = [base EXCEPT !.state = "Reconnecting"]
  /\ UNCHANGED <<outcome, attempt_num, gateway_host, gateway_ip_pin, reported,
                 disconnect, signalled, counters, established, result>>

FaultyRetryOffByOne ==
  /\ pc = "decide"
  /\ Decision = "RetryTransient"
  /\ attempt_num' = attempt_num + 1
  /\ counters' = [counters EXCEPT !.reconnect_attempts = Bump(@)]
  /\ IF attempt_num >= MAX_RECONNECT_ATTEMPTS
     THEN pc' = "cleanup" /\ result' = "err" /\ UNCHANGED base
     ELSE /\ pc' = "backoff"
          /\ base' = [base EXCEPT !.state = "Reconnecting", !.tun = FALSE]
          /\ UNCHANGED result
  /\ UNCHANGED <<outcome, reauth_count, gateway_host, gateway_ip_pin,
                 reported, disconnect, signalled, established>>

FaultyRetryUncounted ==
  /\ pc = "decide"
  /\ Decision = "RetryTransient"
  /\ counters' = [counters EXCEPT !.reconnect_attempts = Bump(@)]
  /\ pc' = "backoff"
  /\ base' = [base EXCEPT !.state = "Reconnecting", !.tun = FALSE]
  /\ UNCHANGED <<outcome, attempt_num, reauth_count, gateway_host,
                 gateway_ip_pin, reported, disconnect, signalled, established,
                 result>>

\* The metric is bumped before the attempt limit is looked at.
DecideRetry ==
  /\ pc = "decide"
  /\ Decision = "RetryTransient"
  /\ attempt_num' = attempt_num + 1
  /\ counters' = [counters EXCEPT !.reconnect_attempts = Bump(@)]
  /\ IF attempt_num + 1 >= MAX_RECONNECT_ATTEMPTS
     THEN pc' = "cleanup" /\ result' = "err" /\ UNCHANGED base
     ELSE /\ pc' = "backoff"
          /\ base' = [base EXCEPT !.state = "Reconnecting", !.tun = FALSE]
          /\ UNCHANGED result
  /\ UNCHANGED <<outcome, reauth_count, gateway_host, gateway_ip_pin,
                 reported, disconnect, signalled, established>>

FaultyReauthKeepsPin(g) ==
  /\ pc = "reauth"
  /\ pc' = "top"
  /\ reported' = "none"
  /\ gateway_host' = g
  /\ base' = [base EXCEPT !.gateway = g]
  /\ attempt_num' = 0
  /\ reauth_count' = 0
  /\ UNCHANGED <<gateway_ip_pin, outcome, disconnect, signalled, counters,
                 established, result>>

\* run_reauth returned a fresh cookie, for gateway g.
ReauthOk(g) ==
  /\ pc = "reauth"
  /\ pc' = "top"
  /\ reported' = "none"
  /\ IF g # gateway_host
     THEN gateway_ip_pin' \in {g, NoPin}
     ELSE UNCHANGED gateway_ip_pin
  /\ gateway_host' = g
  /\ base' = [base EXCEPT !.gateway = g]
  /\ attempt_num' = 0
  /\ reauth_count' = 0
  /\ UNCHANGED <<outcome, disconnect, signalled, counters, established, result>>

ReauthFails ==
  /\ pc = "reauth"
  /\ pc' = "cleanup"
  /\ result' = "err"
  /\ UNCHANGED <<outcome, attempt_num, reauth_count, gateway_host,
                 gateway_ip_pin, reported, base, disconnect, signalled,
                 counters, established>>

BackoffExpires ==
  /\ pc = "backoff"
  /\ pc' = "top"
  /\ UNCHANGED <<outcome, attempt_num, reauth_count, gateway_host,
                 gateway_ip_pin, reported, base, disconnect, signalled,
                 counters, established, result>>

\* The other two arms of the backoff select.
BackoffAborted ==
  /\ pc = "backoff"
  /\ \/ disconnect /\ UNCHANGED signalled
     \/ signalled' = "heard"
  /\ pc' = "cleanup"
  /\ result' = "ok"
  /\ UNCHANGED <<outcome, attempt_num, reauth_count, gateway_host,
                 gateway_ip_pin, reported, base, disconnect, counters,
                 established>>

\* ipc_handle.abort(), metrics abort, socket file removed, connect() returns.
Cleanup ==
  /\ pc = "cleanup"
  /\ pc' = "stopped"
  /\ UNCHANGED <<outcome, attempt_num, reauth_count, gateway_host,
                 gateway_ip_pin, reported, base, disconnect, signalled,
                 counters, established, result>>

-----------------------------------------------------------------------------
(* What reaches the process from outside. *)

\* The control socket's Disconnect request: disconnect_tx.send(true).
RequestDisconnect ==
  /\ pc # "stopped"
  /\ disconnect' = TRUE
  /\ UNCHANGED <<pc, outcome, attempt_num, reauth_count, gateway_host,
                 gateway_ip_pin, reported, base, signalled, counters,
                 established, result>>

\* A signal that one of the attempt's selects is listening for.
SignalHeard ==
  /\ pc = "attempt"
  /\ signalled' = "heard"
  /\ UNCHANGED <<pc, outcome, attempt_num, reauth_count, gateway_host,
                 gateway_ip_pin, reported, base, disconnect, counters,
                 established, result>>

\* A signal while no shutdown_signal() future is alive.  On Unix tokio's
\* handler is installed for good and swallows it; on Windows the event falls
\* through to ExitProcess.
SignalUnheard ==
  /\ pc \notin {"backoff", "stopped"}
  /\ signalled' = IF signalled = "heard" THEN "heard" ELSE "lost"
  /\ IF opts.windows THEN pc' = "stopped" /\ result' = "killed"
                ELSE UNCHANGED <<pc, result>>
  /\ UNCHANGED <<outcome, attempt_num, reauth_count, gateway_host,
                 gateway_ip_pin, reported, base, disconnect, counters,
                 established>>

Stopped == pc = "stopped" /\ UNCHANGED loopVars

-----------------------------------------------------------------------------
Decide == DecideBreak \/ DecideReauth \/ DecideRetry
Backoff == BackoffExpires \/ BackoffAborted
Reauth == ReauthFails \/ \E g \in Gateways : ReauthOk(g)
AttemptReturns == \E o \in Outcomes : AttemptEnds(o)
Outside == RequestDisconnect \/ SignalHeard \/ SignalUnheard

LoopNext ==
  /\ UNCHANGED opts
  /\ \/ StartAttempt \/ AttemptConnects \/ AttemptReturns \/ AttemptWedges
     \/ Decide \/ Reauth \/ Backoff \/ Cleanup
     \/ Outside \/ Stopped

(***************************************************************************)
(* The loop's own steps are taken; an attempt that was asked to stop ends  *)
(* (every drain is bounded by TUNNEL_CANCEL_WEDGE_TIMEOUT).  Nothing makes *)
(* a healthy tunnel end, a disconnect arrive or a re-authentication, which *)
(* may be waiting for the user's browser, come back.                       *)
(***************************************************************************)
LoopFairness ==
  /\ WF_loopVars(UNCHANGED opts /\ (StartAttempt \/ Decide \/ Backoff \/ Cleanup))
  /\ WF_loopVars(/\ UNCHANGED opts
                 /\ disconnect \/ signalled = "heard"
                 /\ AttemptReturns \/ AttemptWedges)

LoopSpec ==
  LoopInit /\ [][LoopNext]_loopVars /\ LoopFairness

-----------------------------------------------------------------------------
LoopTypeOK ==
  /\ opts \in Options
  /\ pc \in PCs
  /\ outcome \in Outcomes \cup {"none"}
  /\ attempt_num \in 0..MAX_RECONNECT_ATTEMPTS
  /\ reauth_count \in 0..MAX_REAUTH_ATTEMPTS
  /\ gateway_host \in Gateways
  /\ gateway_ip_pin \in Gateways \cup {NoPin}
  /\ reported \in {"none", "expired", "terminated"}
  /\ base \in [state : SessionStates, tun : BOOLEAN, gateway : Gateways,
              degraded : BOOLEAN]
  /\ disconnect \in BOOLEAN
  /\ signalled \in {"no", "lost", "heard"}
  /\ counters \in [reconnect_attempts : 0..MetricCap,
                  tunnel_restarts : 0..MetricCap]
  /\ established \in 0..MetricCap
  /\ result \in {"running", "ok", "err", "wedged", "killed"}

\* The address HIP submissions are pinned to and the gateway `opc status`
\* shows are those of the gateway the next attempt dials, also after a
\* re-authentication moved the session (the refresh of gateway_ip_pin).
PinFollowsGateway ==
  /\ gateway_ip_pin \in {gateway_host, NoPin}
  /\ base.gateway = gateway_host

\* A cookie the gateway has declared expired or terminated is not dialled
\* again: only a fresh one follows TerminalErr or AuthExpired.
NoRetryOnDeadCookie == pc \in {"top", "attempt"} => reported = "none"

\* A degraded teardown is the end of the session, is published as such, and
\* the process does not report success, a disconnect request or not.
DegradedIsFinal ==
  outcome = "DegradedTeardown" =>
    \/ pc \in {"decide", "stopped"} /\ result \in {"running", "err", "killed"}
    \/ pc \in {"cleanup", "stopped"} /\ base.degraded /\ result \in {"err", "killed"}

\* `opc status` names an interface only while the session says Connected: no
\* path from a dead tunnel to the next attempt leaves the old one in base.
NoStaleInterface == base.tun => base.state = "Connected"

\* A re-established tunnel was preceded by a retry of its own: the two
\* metrics never say more restarts than attempts to reconnect.
RestartsWithinRetries == counters.tunnel_restarts <= counters.reconnect_attempts

\* Without re-authentication the retries are bounded: the loop settles in one
\* attempt or stops (MAX_RECONNECT_ATTEMPTS).
RetriesAreBounded ==
  <>[](pc # "reauth") => <>[](pc \in {"attempt", "stopped"})

\* Once it is asked to stop (`opc disconnect`, a signal it listened for, on
\* Windows any console event) the process stops, unless a re-authentication
\* never comes back: nothing races run_reauth.
StopRequested == \/ disconnect \/ signalled = "heard"
                 \/ opts.windows /\ signalled = "lost"
StopRequestEnds == []<>(pc # "reauth") => (StopRequested ~> pc = "stopped")

\* The comment above MAX_REAUTH_ATTEMPTS: re-authentication is gated by it
\* "rather than looping forever".
ReauthIsGated == <>[](pc # "reauth")

\* metrics.rs: tunnel_restarts is "bumped once per successful tunnel
\* re-establishment", so it is one less than the tunnels established.
RestartsCountReestablishments ==
  established \in 1..(MetricCap - 1) =>
    counters.tunnel_restarts = established - 1
=============================================================================
