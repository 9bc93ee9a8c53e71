------------------------------ MODULE Session ------------------------------
(***************************************************************************)
(* A whole `opc connect` session: the reconnect loop of ReconnectLoop with *)
(* the attempt it abstracts, run_tunnel_attempt (bins/opc/src/main.rs),    *)
(* whose selects race the tunnel threads of TunnelThread, shutdown signals *)
(* and `opc disconnect`.  tokio::select! takes any branch that is ready.   *)
(***************************************************************************)
EXTENDS ReconnectLoop, TunnelThread

VARIABLES
  apc,   \* where run_tunnel_attempt is; "idle" outside it
  cur,   \* the thread of the current attempt (tunnel_thread)
  tail   \* what the caller of the drain returns if nothing outranks it

attemptVars == <<apc, cur, tail>>
vars == <<loopVars, threadVars, hostVars, attemptVars>>

APCs == {"idle", "handle", "recv_handle", "ready", "hip", "steady", "drain"}

Init ==
  /\ LoopInit
  /\ ThreadInit
  /\ apc = "idle"
  /\ cur \in Threads
  /\ tail = "UserCancel"

Running == pc # "stopped"
InAttempt(at) == pc = "attempt" /\ apc = at

-----------------------------------------------------------------------------
(* run_tunnel_attempt. *)

Spawn(t) ==
  /\ InAttempt("idle")
  /\ SpawnThread(t)
  /\ apc' = "handle"
  /\ cur' = t
  /\ UNCHANGED <<loopVars, hostVars, tail>>

SpawnFails ==
  /\ InAttempt("idle")
  /\ Returns("Err")
  /\ UNCHANGED <<opts, signalled, threadVars, hostVars, attemptVars>>

\* The cancel handle arrives before a signal or a disconnect does.
HandleArrives ==
  /\ InAttempt("handle")
  /\ handle[cur] = "sent"
  /\ apc' = "ready"
  /\ UNCHANGED <<loopVars, threadVars, hostVars, cur, tail>>

FaultyDoneUnclassified == done[cur]
FaultyDegradedIsPlainErr ==
  IF done[cur] \in {"closed", "DegradedTeardown"} THEN "Err" ELSE done[cur]

\* The outcome class of what came out of the done channel.
DoneOutcome == IF done[cur] = "closed" THEN "Err" ELSE done[cur]

\* The thread ended by itself: its sender is gone, or the done arm of a
\* select won.  Join, clear_tun_info in the steady state, classify.
ThreadEnded ==
  /\ \/ InAttempt("handle") /\ handle[cur] = "closed"
     \/ InAttempt("ready")
     \/ InAttempt("steady")
  /\ done[cur] # "pending"
  /\ Returns(DoneOutcome)
  /\ base' = [base EXCEPT !.tun = FALSE]
  /\ JoinThread(cur)
  /\ apc' = "idle"
  /\ UNCHANGED <<opts, signalled, hostVars, cur, tail>>

\* A select takes its signal or its disconnect arm.  Before the handle has
\* arrived it must be fetched first; afterwards the thread is cancelled.
Cancels(why) ==
  /\ tail' = why
  /\ \/ /\ InAttempt("handle")
        /\ apc' = "recv_handle"
        /\ UNCHANGED <<threadVars, hostVars>>
     \/ /\ InAttempt("ready") \/ InAttempt("steady") \/ InAttempt("hip")
        /\ apc' = "drain"
        /\ CancelThread(cur)
  /\ UNCHANGED cur

OnSignal ==
  /\ apc \in {"handle", "ready", "steady"}
  /\ SignalHeard
  /\ Cancels("UserCancel")
  /\ UNCHANGED opts

OnDisconnect ==
  /\ apc \in {"handle", "ready", "steady"}
  /\ disconnect
  /\ Cancels("UserCancel")
  /\ UNCHANGED loopVars

FaultyUnboundedRecv ==
  /\ InAttempt("recv_handle")
  /\ handle[cur] # "pending"
  /\ apc' = "drain"
  /\ \/ handle[cur] = "sent" /\ CancelThread(cur)
     \/ handle[cur] # "sent" /\ UNCHANGED <<threadVars, hostVars>>
  /\ UNCHANGED <<loopVars, cur, tail>>

\* bounded_cancel_handle_recv: the handle, its closed channel, or 5 seconds.
RecvHandle ==
  /\ InAttempt("recv_handle")
  /\ apc' = "drain"
  /\ \/ handle[cur] = "sent" /\ CancelThread(cur)
     \/ handle[cur] # "sent" /\ UNCHANGED <<threadVars, hostVars>>
  /\ UNCHANGED <<loopVars, cur, tail>>

\* TunnelReady is read from its channel and published.
ReadyArrives ==
  /\ InAttempt("ready")
  /\ ready[cur] = "sent"
  /\ Connects
  /\ apc' = IF opts.windows /\ opts.hip_mode # "off" THEN "hip" ELSE "steady"
  /\ UNCHANGED <<opts, threadVars, hostVars, cur, tail>>

\* Windows: submit_hip_from_rust succeeded, was skipped, or only warned.
HipContinues ==
  /\ InAttempt("hip")
  /\ apc' = "steady"
  /\ UNCHANGED <<loopVars, threadVars, hostVars, cur, tail>>

FaultyHipReturns ==
  /\ InAttempt("hip")
  /\ opts.hip_mode = "force"
  /\ Returns("Err")
  /\ apc' = "idle"
  /\ UNCHANGED <<opts, signalled, threadVars, hostVars, cur, tail>>

\* Windows, --hip=force: no client_ip, or the submission failed.
HipFails ==
  /\ InAttempt("hip")
  /\ opts.hip_mode = "force"
  /\ Cancels("Err")
  /\ UNCHANGED loopVars

FaultyDrainedSwallows ==
  /\ InAttempt("drain")
  /\ done[cur] # "pending"
  /\ Returns(tail)
  /\ JoinThread(cur)
  /\ apc' = "idle"
  /\ UNCHANGED <<opts, signalled, hostVars, cur, tail>>

FaultyDrainedReportsThread ==
  /\ InAttempt("drain")
  /\ done[cur] # "pending"
  /\ Returns(DoneOutcome)
  /\ JoinThread(cur)
  /\ apc' = "idle"
  /\ UNCHANGED <<opts, signalled, hostVars, cur, tail>>

\* drain_done_with_timeout resolved: join; a degraded result outranks tail.
Drained ==
  /\ InAttempt("drain")
  /\ done[cur] # "pending"
  /\ Returns(IF done[cur] = "DegradedTeardown" THEN done[cur] ELSE tail)
  /\ base' = IF done[cur] # "DegradedTeardown" /\ tail = "Err"
             THEN [base EXCEPT !.tun = FALSE] ELSE base
  /\ JoinThread(cur)
  /\ apc' = "idle"
  /\ UNCHANGED <<opts, signalled, hostVars, cur, tail>>

\* The drain timed out: exit_wedged sweeps Windows' NRPT rules, as well as it
\* can, and exits with every other piece of state where it is.
DrainTimesOut ==
  /\ InAttempt("drain")
  /\ done[cur] = "pending"
  /\ ExitWedged
  /\ \/ opts.windows /\ dns' = [dns EXCEPT ![cur] = FALSE]
     \/ UNCHANGED dns
  /\ UNCHANGED <<opts, tpc, handle, ready, done, cancelled, run_res, routes,
                 hostVars, attemptVars>>

Attempt ==
  \/ \E t \in Threads : Spawn(t)
  \/ SpawnFails \/ HandleArrives \/ ThreadEnded \/ OnDisconnect \/ RecvHandle
  \/ ReadyArrives \/ HipContinues \/ HipFails \/ Drained \/ DrainTimesOut

-----------------------------------------------------------------------------
(* The rest of the loop, unchanged; a fresh cookie clears the verdict. *)

LoopStep ==
  /\ StartAttempt \/ Decide \/ ReauthFails \/ Backoff \/ Cleanup
     \/ RequestDisconnect \/ Stopped
  /\ UNCHANGED <<opts, threadVars, hostVars, attemptVars>>

FreshCookie(g) ==
  /\ ReauthOk(g)
  /\ rejected' = FALSE
  /\ UNCHANGED <<opts, threadVars, leaked, mishap, attemptVars>>

\* No select with a shutdown_signal() is being polled.
OnUnheardSignal ==
  /\ pc = "attempt" => apc \in {"idle", "recv_handle", "drain", "hip"}
  /\ SignalUnheard
  /\ UNCHANGED <<opts, threadVars, hostVars, attemptVars>>

Thread(t) ==
  /\ Running
  /\ ThreadStep(t, opts)
  /\ UNCHANGED <<loopVars, attemptVars>>

Next ==
  \/ Attempt \/ OnSignal \/ LoopStep \/ OnUnheardSignal
  \/ \E g \in Gateways : FreshCookie(g)
  \/ \E t \in Threads : Thread(t)

(***************************************************************************)
(* The main task takes its steps; a HIP submission has reqwest's timeout.  *)
(* Nothing is assumed of the threads: each of their steps may hang, and    *)
(* the drain's timeout is what ends it.                                    *)
(***************************************************************************)
MainSteps ==
  \/ Attempt
  \/ /\ StartAttempt \/ Decide \/ Backoff \/ Cleanup
     /\ UNCHANGED <<opts, threadVars, hostVars, attemptVars>>

Spec == Init /\ [][Next]_vars /\ WF_vars(MainSteps)

-----------------------------------------------------------------------------
TypeOK ==
  /\ LoopTypeOK
  /\ ThreadTypeOK
  /\ apc \in APCs
  /\ cur \in Threads
  /\ tail \in {"UserCancel", "Err"}

Abandoned == result \in {"wedged", "killed"}

\* No path out of an attempt leaves its tunnel thread running beside the loop
\* (and beside the next attempt): cancel, drain and join come first.
NoStrandedThread ==
  \A t \in Threads :
    Alive(t) => \/ pc = "attempt" /\ apc # "idle" /\ t = cur
                \/ pc = "stopped" /\ Abandoned

\* Routes and DNS are up only under a thread that will take them down, or
\* after the process was forced out.
NetworkHasOwner ==
  \A t \in Threads : /\ routes[t] \/ dns[t] => Alive(t)
                     /\ dns[t] => routes[t]

\* A session that ends with success has left nothing behind, unless an error
\* that the code only logs says so: a degraded teardown is never reported as
\* success, whichever path it takes to the exit code.
SuccessIsClean == result = "ok" /\ ~mishap => leaked = {}

Spawns == \E t \in Threads : tpc[t] # "create" /\ tpc'[t] = "create"

\* No tunnel is started over routes or DNS whose removal is unconfirmed.
NoSpawnOverUnconfirmed == [][Spawns => leaked = {} \/ mishap]_vars

\* No tunnel is started with a cookie that a mainloop has reported expired or
\* terminated (AttemptOutcome::TerminalErr: "must NOT retry"), a panicking
\* thread's last words apart.
NoSpawnWithRejectedCookie == [][Spawns => ~rejected \/ mishap]_vars

\* The same where no --hip=force teardown can hide the report: every other
\* path from a mainloop's verdict to the loop's decision keeps it.
RejectionIsHeeded ==
  [][Spawns => ~rejected \/ mishap \/ (opts.windows /\ opts.hip_mode = "force")]_vars

\* openconnect.rs, CancelHandle: "must not be used after its parent
\* OpenConnectSession has been dropped", as it is when run_tunnel returns.
NoLateCancel ==
  [][\A t \in Threads : ~cancelled[t] /\ cancelled'[t] =>
                         tpc[t] \notin {"report", "ended"}]_vars
=============================================================================
