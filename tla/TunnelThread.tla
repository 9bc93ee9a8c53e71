---------------------------- MODULE TunnelThread ----------------------------
(***************************************************************************)
(* The `opc-tunnel` thread: run_tunnel and its teardown, up to the message *)
(* on the done channel (bins/opc/src/main.rs).                             *)
(*                                                                         *)
(* Each attempt spawns a thread, so the state is a function of the threads *)
(* and module Session can ask whether two of them ever hold the network at *)
(* once.  The operations of gp-route, gp-dns and libopenconnect are single *)
(* steps with the results run_tunnel distinguishes.                        *)
(***************************************************************************)
EXTENDS Naturals, FiniteSets

CONSTANT Threads
ASSUME ThreadAssumption == Threads # {} /\ IsFiniteSet(Threads)

VARIABLES
  tpc,         \* where each thread is in run_tunnel
  handle,      \* cancel_tx: "pending", "sent" or "closed" (sender dropped)
  ready,       \* ready_tx, likewise
  done,        \* done_tx: "pending", "closed", or the outcome class sent
  cancelled,   \* OC_CMD_CANCEL is in the session's command pipe
  run_res,     \* the class of the result run_tunnel is going to return
  routes,      \* the thread's routes are installed
  dns,         \* the thread's DNS state is installed
  leaked,      \* what a thread left behind on the host, of {"routes", "dns"}
  mishap,      \* a revert failed or a thread panicked: only logged (ghost)
  rejected     \* a mainloop reported this cookie expired or terminated (ghost)

threadVars == <<tpc, handle, ready, done, cancelled, run_res, routes, dns>>
hostVars == <<leaked, mishap, rejected>>

\* The Result<()> of run_tunnel, as classify_tunnel_err will class it.
Results == {"Ok", "Err", "AuthExpired", "TerminalErr", "DegradedTeardown"}

Stages == {"create", "connect", "setup_tun", "apply_routes", "apply_dns",
           "rollback", "publish", "mainloop", "revert_dns", "revert_routes",
           "report"}
Alive(t) == tpc[t] \in Stages

ThreadInit ==
  /\ tpc = [t \in Threads |-> "none"]
  /\ handle = [t \in Threads |-> "pending"]
  /\ ready = [t \in Threads |-> "pending"]
  /\ done = [t \in Threads |-> "pending"]
  /\ cancelled = [t \in Threads |-> FALSE]
  /\ run_res = [t \in Threads |-> "none"]
  /\ routes = [t \in Threads |-> FALSE]
  /\ dns = [t \in Threads |-> FALSE]
  /\ leaked = {}
  /\ mishap = FALSE
  /\ rejected = FALSE

-----------------------------------------------------------------------------
(* What the main task does to a thread. *)

\* thread::Builder::spawn, with fresh channels.
SpawnThread(t) ==
  /\ tpc[t] = "none"
  /\ tpc' = [tpc EXCEPT ![t] = "create"]
  /\ UNCHANGED <<handle, ready, done, cancelled, run_res, routes, dns>>

\* join() on a thread that is over; its channels are dropped.
JoinThread(t) ==
  /\ tpc[t] = "ended"
  /\ tpc' = [tpc EXCEPT ![t] = "none"]
  /\ handle' = [handle EXCEPT ![t] = "pending"]
  /\ ready' = [ready EXCEPT ![t] = "pending"]
  /\ done' = [done EXCEPT ![t] = "pending"]
  /\ cancelled' = [cancelled EXCEPT ![t] = FALSE]
  /\ run_res' = [run_res EXCEPT ![t] = "none"]
  /\ UNCHANGED <<routes, dns>>

\* CancelHandle::cancel: a byte for the command pipe, whose descriptors go
\* with the session when run_tunnel returns.
CancelThread(t) ==
  /\ cancelled' = [cancelled EXCEPT ![t] = TRUE]
  /\ UNCHANGED <<tpc, handle, ready, done, run_res, routes, dns, hostVars>>

-----------------------------------------------------------------------------
(* run_tunnel. *)

\* run_tunnel returns r: the session is freed, then its two senders dropped.
Return(t, r) ==
  /\ tpc' = [tpc EXCEPT ![t] = "report"]
  /\ run_res' = [run_res EXCEPT ![t] = r]
  /\ handle' = [handle EXCEPT ![t] = IF @ = "pending" THEN "closed" ELSE @]
  /\ ready' = [ready EXCEPT ![t] = IF @ = "pending" THEN "closed" ELSE @]
  /\ UNCHANGED <<done, cancelled>>

Goto(t, from, to) ==
  /\ tpc[t] = from
  /\ tpc' = [tpc EXCEPT ![t] = to]
  /\ UNCHANGED <<done, cancelled>>

\* OpenConnectSession::new, configure_tunnel_session, cancel_tx.send.
Create(t) ==
  /\ Goto(t, "create", "connect")
  /\ handle' = [handle EXCEPT ![t] = "sent"]
  /\ UNCHANGED <<ready, run_res, routes, dns, hostVars>>

\* make_cstp_connection, setup_esp.
Connect(t) ==
  /\ Goto(t, "connect", "setup_tun")
  /\ UNCHANGED <<handle, ready, run_res, routes, dns, hostVars>>

SetupTun(t) ==
  /\ Goto(t, "setup_tun", "apply_routes")
  /\ UNCHANGED <<handle, ready, run_res, routes, dns, hostVars>>

\* The `?` returns before anything is installed; setup_csd under
\* --hip=force and a cancel polled by the handshake are among them.
SetupFails(t) ==
  /\ tpc[t] \in {"create", "connect", "setup_tun"}
  /\ Return(t, "Err")
  /\ UNCHANGED <<routes, dns, hostVars>>

\* gp_route::apply, when the routes are native.
ApplyRoutes(t, native) ==
  /\ IF native THEN Goto(t, "apply_routes", "apply_dns")
               ELSE Goto(t, "apply_routes", "publish")
  /\ routes' = [routes EXCEPT ![t] = native]
  /\ UNCHANGED <<handle, ready, run_res, dns, hostVars>>

\* It fails having rolled its routes back, but for what a failed rollback
\* only logs, or unable to confirm that.
ApplyRoutesFails(t, native) ==
  /\ tpc[t] = "apply_routes"
  /\ native
  /\ \/ Return(t, "Err") /\ UNCHANGED <<leaked, mishap>>
     \/ /\ Return(t, "Err")
        /\ leaked' = leaked \cup {"routes"} /\ mishap' = TRUE
     \/ /\ Return(t, "DegradedTeardown")
        /\ leaked' = leaked \cup {"routes"} /\ UNCHANGED mishap
  /\ UNCHANGED <<routes, dns, rejected>>

\* gp_dns::apply, when the gateway pushed nameservers.
ApplyDns(t, pushed) ==
  /\ Goto(t, "apply_dns", "publish")
  /\ dns' = [dns EXCEPT ![t] = pushed]
  /\ UNCHANGED <<handle, ready, run_res, routes, hostVars>>

\* A mistake this code could contain; only PROJECT.json's mutants use it.
FaultyDnsFailReturns(t, pushed) ==
  /\ tpc[t] = "apply_dns"
  /\ pushed
  /\ Return(t, "Err")
  /\ UNCHANGED <<routes, dns, hostVars>>

\* It fails; its own rollback is best-effort.
ApplyDnsFails(t, pushed) ==
  /\ Goto(t, "apply_dns", "rollback")
  /\ pushed
  /\ \/ UNCHANGED <<leaked, mishap>>
     \/ leaked' = leaked \cup {"dns"} /\ mishap' = TRUE
  /\ UNCHANGED <<handle, ready, run_res, routes, dns, rejected>>

\* ready_tx.send(TunnelReady): the receiver reads it when it gets to it.
Publish(t) ==
  /\ Goto(t, "publish", "mainloop")
  /\ ready' = [ready EXCEPT ![t] = "sent"]
  /\ UNCHANGED <<handle, run_res, routes, dns, hostVars>>

\* OpenConnectSession::run returns, cancelled or by itself.
MainloopReturns(t, r) ==
  /\ Goto(t, "mainloop", IF dns[t] THEN "revert_dns" ELSE "revert_routes")
  /\ run_res' = [run_res EXCEPT ![t] = r]
  /\ rejected' = (rejected \/ r \in {"AuthExpired", "TerminalErr"})
  /\ UNCHANGED <<handle, ready, routes, dns, leaked, mishap>>

\* run_session_teardown: DNS first; gp_dns::revert's errors are only logged.
RevertDns(t) ==
  /\ Goto(t, "revert_dns", "revert_routes")
  /\ dns' = [dns EXCEPT ![t] = FALSE]
  /\ \/ UNCHANGED <<leaked, mishap>>
     \/ leaked' = leaked \cup {"dns"} /\ mishap' = TRUE
  /\ UNCHANGED <<handle, ready, run_res, routes, rejected>>

\* gp_route::revert, at the end of the teardown or after gp_dns::apply failed:
\* done, done but for errors it only reports, or degraded, its state
\* unconfirmed.  A degraded end of the teardown also sweeps Windows' NRPT rules.
RevertRoutes(t, o, windows) ==
  /\ tpc[t] \in {"rollback", "revert_routes"}
  /\ routes[t] \/ o = "clean"
  /\ routes' = [routes EXCEPT ![t] = FALSE]
  /\ mishap' = (mishap \/ o = "error")
  /\ \/ leaked' = IF o = "clean" THEN leaked ELSE leaked \cup {"routes"}
     \/ /\ windows /\ o = "degraded" /\ tpc[t] = "revert_routes"
        /\ leaked' = (leaked \ {"dns"}) \cup {"routes"}
  /\ Return(t, IF o = "degraded" THEN "DegradedTeardown"
               ELSE IF tpc[t] = "rollback" THEN "Err" ELSE run_res[t])
  /\ UNCHANGED <<dns, rejected>>

\* done_tx.send(result), and the thread is over.
Report(t) ==
  /\ tpc[t] = "report"
  /\ tpc' = [tpc EXCEPT ![t] = "ended"]
  /\ done' = [done EXCEPT ![t] = run_res[t]]
  /\ UNCHANGED <<handle, ready, cancelled, run_res, routes, dns, hostVars>>

\* What an operation interrupted half way may leave behind.
InFlight(t) == CASE tpc[t] = "apply_routes" -> {"routes"}
                 [] tpc[t] \in {"apply_dns", "revert_dns"} -> {"dns"}
                 [] OTHER -> {}

\* A panic unwinds the thread: DnsStateGuard reverts the DNS state it still
\* owns, nothing reverts the routes, and every sender is dropped unused.
Panics(t) ==
  /\ tpc[t] \in Stages \ {"report"}
  /\ tpc' = [tpc EXCEPT ![t] = "ended"]
  /\ handle' = [handle EXCEPT ![t] = IF @ = "pending" THEN "closed" ELSE @]
  /\ ready' = [ready EXCEPT ![t] = IF @ = "pending" THEN "closed" ELSE @]
  /\ done' = [done EXCEPT ![t] = "closed"]
  /\ routes' = [routes EXCEPT ![t] = FALSE]
  /\ dns' = [dns EXCEPT ![t] = FALSE]
  /\ mishap' = TRUE
  /\ \E lost \in SUBSET InFlight(t) :
       leaked' = leaked \cup lost \cup (IF routes[t] THEN {"routes"} ELSE {})
  /\ UNCHANGED <<cancelled, run_res, rejected>>

ThreadStep(t, o) ==
  \/ Create(t) \/ Connect(t) \/ SetupTun(t) \/ SetupFails(t)
  \/ ApplyRoutes(t, o.native_routes) \/ ApplyRoutesFails(t, o.native_routes)
  \/ ApplyDns(t, o.pushed_dns) \/ ApplyDnsFails(t, o.pushed_dns)
  \/ Publish(t)
  \/ \E r \in Results \ {"DegradedTeardown"} : MainloopReturns(t, r)
  \/ RevertDns(t)
  \/ \E r \in {"clean", "error", "degraded"} : RevertRoutes(t, r, o.windows)
  \/ Report(t) \/ Panics(t)

ThreadTypeOK ==
  /\ tpc \in [Threads -> Stages \cup {"none", "ended"}]
  /\ handle \in [Threads -> {"pending", "sent", "closed"}]
  /\ ready \in [Threads -> {"pending", "sent", "closed"}]
  /\ done \in [Threads -> {"pending", "closed"} \cup Results]
  /\ cancelled \in [Threads -> BOOLEAN]
  /\ run_res \in [Threads -> Results \cup {"none"}]
  /\ routes \in [Threads -> BOOLEAN]
  /\ dns \in [Threads -> BOOLEAN]
  /\ leaked \subseteq {"routes", "dns"}
  /\ mishap \in BOOLEAN
  /\ rejected \in BOOLEAN
=============================================================================
