--------------------------- MODULE SessionProofs ---------------------------
(***************************************************************************)
(* The safety properties of ReconnectLoop hold for every set of gateways,  *)
(* every set of invocations and every value of the three bounds.  Session  *)
(* implements ReconnectLoop, never strands a tunnel thread, never starts a *)
(* tunnel over state it could not confirm removed or with a cookie that    *)
(* was reported dead, for any set of threads.                              *)
(***************************************************************************)
EXTENDS Session, TLAPS

(***************************************************************************)
(* The reconnect loop.                                                     *)
(***************************************************************************)
-----------------------------------------------------------------------------
(* Types.  attempt_num stays within its bound because the loop goes on only *)
(* while it is below it.                                                    *)

Going == pc \in {"top", "attempt", "decide", "reauth", "backoff"}

TypeInv ==
  /\ LoopTypeOK
  /\ Going => attempt_num < MAX_RECONNECT_ATTEMPTS
  /\ pc = "decide" => outcome # "none"

LEMMA BumpType == ASSUME NEW n \in 0..MetricCap PROVE Bump(n) \in 0..MetricCap
  BY LoopAssumption DEF Bump

LEMMA LoopTypeInit == LoopInit => TypeInv
<1> SUFFICES ASSUME LoopInit PROVE TypeInv
  OBVIOUS
<1>1. base \in [state : SessionStates, tun : BOOLEAN, gateway : Gateways,
               degraded : BOOLEAN]
  BY DEF LoopInit, SessionStates
<1>2. counters \in [reconnect_attempts : 0..MetricCap, tunnel_restarts : 0..MetricCap]
  BY LoopAssumption DEF LoopInit
<1>3. disconnect \in BOOLEAN
  BY DEF LoopInit
<1>4. QED
  BY <1>1, <1>2, <1>3, LoopAssumption DEF LoopInit, TypeInv, LoopTypeOK, Going, PCs

LEMMA LoopTypeStep == TypeInv /\ [LoopNext]_loopVars => TypeInv'
<1> SUFFICES ASSUME TypeInv, [LoopNext]_loopVars PROVE TypeInv'
  OBVIOUS
<1> USE LoopAssumption DEF TypeInv, LoopTypeOK, Going, PCs, SessionStates, Outcomes
<1>1. CASE UNCHANGED loopVars
  BY <1>1 DEF loopVars
<1>2. CASE LoopNext
  <2>1. CASE StartAttempt
    BY <1>2, <2>1 DEF LoopNext, StartAttempt
  <2>2. CASE AttemptConnects
    <3>1. Bump(established) \in 0..MetricCap /\ Bump(counters.tunnel_restarts) \in 0..MetricCap
      BY BumpType
    <3>2. QED BY <1>2, <2>2, <3>1 DEF LoopNext, AttemptConnects, Connects, PublishConnected
  <2>3. ASSUME NEW o \in Outcomes, AttemptEnds(o) PROVE TypeInv'
    BY <1>2, <2>3 DEF LoopNext, AttemptEnds, Returns, CookieVerdict
  <2>4. CASE AttemptWedges
    BY <1>2, <2>4 DEF LoopNext, AttemptWedges, ExitWedged
  <2>5. CASE DecideBreak
    BY <1>2, <2>5 DEF LoopNext, DecideBreak, MarkDegraded
  <2>6. CASE DecideReauth
    <3>1. reauth_count < MAX_REAUTH_ATTEMPTS
      BY <2>6 DEF DecideReauth, Decision, DecisionFor
    <3>2. QED BY <1>2, <2>6, <3>1 DEF LoopNext, DecideReauth
  <2>7. CASE DecideRetry
    <3>1. Bump(counters.reconnect_attempts) \in 0..MetricCap
      BY BumpType
    <3>2. attempt_num' \in 0..MAX_RECONNECT_ATTEMPTS
          /\ (pc' = "backoff" => attempt_num' < MAX_RECONNECT_ATTEMPTS)
      BY <2>7 DEF DecideRetry
    <3>3. base' \in [state : SessionStates, tun : BOOLEAN, gateway : Gateways,
                    degraded : BOOLEAN]
      BY <2>7 DEF DecideRetry
    <3>4. pc' \in {"backoff", "cleanup"} /\ result' \in {result, "err"}
      BY <2>7 DEF DecideRetry
    <3>5. QED BY <1>2, <2>7, <3>1, <3>2, <3>3, <3>4 DEF LoopNext, DecideRetry
  <2>8. CASE ReauthFails
    BY <1>2, <2>8 DEF LoopNext, ReauthFails
  <2>9. ASSUME NEW g \in Gateways, ReauthOk(g) PROVE TypeInv'
    BY <1>2, <2>9 DEF LoopNext, ReauthOk
  <2>10. CASE Backoff \/ Cleanup
    BY <1>2, <2>10 DEF LoopNext, Backoff, BackoffExpires, BackoffAborted, Cleanup
  <2>11. CASE Outside \/ Stopped
    <3>1. disconnect' \in BOOLEAN
      BY <2>11 DEF Outside, RequestDisconnect, SignalHeard, SignalUnheard,
                   Stopped, loopVars
    <3>2. QED
      BY <1>2, <2>11, <3>1 DEF LoopNext, Outside, RequestDisconnect, SignalHeard,
                               SignalUnheard, Stopped, loopVars
  <2>12. QED
    BY <1>2, <2>1, <2>2, <2>3, <2>4, <2>5, <2>6, <2>7, <2>8, <2>9, <2>10, <2>11
    DEF LoopNext, AttemptReturns, Decide, Reauth
<1>3. QED BY <1>1, <1>2

\* The counters never exceed the bounds the code gives them, on any path
\* through retries and re-authentications.
THEOREM LoopTypeInvariance == LoopSpec => []TypeInv
BY LoopTypeInit, LoopTypeStep, PTL DEF LoopSpec

\* In particular the loop's state has its type.
THEOREM LoopTyping == LoopSpec => []LoopTypeOK
<1>1. TypeInv => LoopTypeOK
  BY DEF TypeInv
<1>2. QED BY <1>1, LoopTypeInvariance, PTL

-----------------------------------------------------------------------------
(* Safety.  Each property is strengthened to what the loop maintains at its *)
(* other control points; the steps then keep it one by one.                 *)

CookieInv ==
  /\ pc \in {"top", "attempt", "backoff"} => reported = "none"
  /\ pc = "decide" => reported = CookieVerdict(outcome)

StatusInv ==
  /\ base.tun => base.state = "Connected"
  /\ pc \in {"top", "reauth", "backoff"} => ~base.tun
  /\ pc = "decide" /\ outcome \in {"AuthExpired", "Err"} => ~base.tun

DegradedInv ==
  /\ Going => result = "running"
  /\ outcome = "DegradedTeardown" => pc \in {"decide", "cleanup", "stopped"}
  /\ DegradedIsFinal

\* A retry still owed its restart has been counted, and not yet matched.
OwedRestart ==
  /\ attempt_num > 0
  /\ \/ pc \in {"top", "backoff"}
     \/ pc = "attempt" /\ base.state = "Connecting"

RestartInv ==
  /\ counters.tunnel_restarts <= counters.reconnect_attempts
  /\ OwedRestart => \/ counters.tunnel_restarts < counters.reconnect_attempts
                    \/ counters.reconnect_attempts = MetricCap

SafeInv == PinFollowsGateway /\ CookieInv /\ StatusInv /\ DegradedInv /\ RestartInv

\* Case analysis on a step of the loop, for the lemmas below.
LEMMA LoopSteps ==
  ASSUME [LoopNext]_loopVars
  PROVE  \/ StartAttempt \/ AttemptConnects
         \/ \E o \in Outcomes : AttemptEnds(o)
         \/ AttemptWedges \/ DecideBreak \/ DecideReauth \/ DecideRetry
         \/ ReauthFails \/ \E g \in Gateways : ReauthOk(g)
         \/ BackoffExpires \/ BackoffAborted \/ Cleanup
         \/ RequestDisconnect \/ SignalHeard \/ SignalUnheard
         \/ UNCHANGED loopVars
  BY DEF LoopNext, AttemptReturns, Decide, Reauth, Backoff, Outside, Stopped

LEMMA PinStep == TypeInv /\ PinFollowsGateway /\ [LoopNext]_loopVars => PinFollowsGateway'
<1> SUFFICES ASSUME TypeInv, PinFollowsGateway, [LoopNext]_loopVars
             PROVE  PinFollowsGateway'
  OBVIOUS
<1> USE DEF TypeInv, LoopTypeOK, PinFollowsGateway
<1>1. ASSUME NEW g \in Gateways, ReauthOk(g) PROVE PinFollowsGateway'
  BY <1>1 DEF ReauthOk
<1>2. ASSUME NEW o \in Outcomes, AttemptEnds(o) PROVE PinFollowsGateway'
  BY <1>2 DEF AttemptEnds, Returns
<1>3. CASE StartAttempt \/ AttemptConnects \/ AttemptWedges
  BY <1>3 DEF StartAttempt, AttemptConnects, Connects, PublishConnected, AttemptWedges, ExitWedged
<1>4. CASE DecideBreak \/ DecideReauth \/ DecideRetry
  BY <1>4 DEF DecideBreak, MarkDegraded, DecideReauth, DecideRetry
<1>5. CASE ReauthFails \/ BackoffExpires \/ BackoffAborted \/ Cleanup
  BY <1>5 DEF ReauthFails, BackoffExpires, BackoffAborted, Cleanup
<1>6. CASE RequestDisconnect \/ SignalHeard \/ SignalUnheard \/ UNCHANGED loopVars
  BY <1>6 DEF RequestDisconnect, SignalHeard, SignalUnheard, loopVars
<1>7. QED BY <1>1, <1>2, <1>3, <1>4, <1>5, <1>6, LoopSteps

LEMMA CookieStep == TypeInv /\ CookieInv /\ [LoopNext]_loopVars => CookieInv'
<1> SUFFICES ASSUME TypeInv, CookieInv, [LoopNext]_loopVars
             PROVE  CookieInv'
  OBVIOUS
<1> USE DEF CookieInv
<1>1. ASSUME NEW g \in Gateways, ReauthOk(g) PROVE CookieInv'
  BY <1>1 DEF ReauthOk
<1>2. ASSUME NEW o \in Outcomes, AttemptEnds(o) PROVE CookieInv'
  BY <1>2 DEF AttemptEnds, Returns
<1>3. CASE StartAttempt \/ AttemptConnects \/ AttemptWedges
  BY <1>3 DEF StartAttempt, AttemptConnects, Connects, PublishConnected, AttemptWedges, ExitWedged
<1>4. CASE DecideRetry
  \* Only a plain Err is retried, and that says nothing of the cookie.
  <2>1. outcome = "Err"
    BY <1>4 DEF DecideRetry, Decision, DecisionFor, TypeInv, LoopTypeOK, Outcomes
  <2>2. reported = "none"
    BY <1>4, <2>1 DEF DecideRetry, CookieVerdict
  <2>3. QED BY <1>4, <2>2 DEF DecideRetry
<1>5. CASE DecideBreak \/ DecideReauth
  BY <1>5 DEF DecideBreak, DecideReauth
<1>6. CASE ReauthFails \/ BackoffExpires \/ BackoffAborted \/ Cleanup
  BY <1>6 DEF ReauthFails, BackoffExpires, BackoffAborted, Cleanup
<1>7. CASE RequestDisconnect \/ SignalHeard \/ SignalUnheard \/ UNCHANGED loopVars
  BY <1>7 DEF RequestDisconnect, SignalHeard, SignalUnheard, loopVars
<1>8. QED BY <1>1, <1>2, <1>3, <1>4, <1>5, <1>6, <1>7, LoopSteps

LEMMA StatusStep == TypeInv /\ StatusInv /\ [LoopNext]_loopVars => StatusInv'
<1> SUFFICES ASSUME TypeInv, StatusInv, [LoopNext]_loopVars
             PROVE  StatusInv'
  OBVIOUS
<1> USE DEF StatusInv, TypeInv, LoopTypeOK
<1>1. ASSUME NEW g \in Gateways, ReauthOk(g) PROVE StatusInv'
  BY <1>1 DEF ReauthOk
<1>2. ASSUME NEW o \in Outcomes, AttemptEnds(o) PROVE StatusInv'
  BY <1>2 DEF AttemptEnds, Returns
<1>3. CASE StartAttempt \/ AttemptConnects \/ AttemptWedges
  BY <1>3 DEF StartAttempt, AttemptConnects, Connects, PublishConnected, AttemptWedges, ExitWedged
<1>4. CASE DecideReauth
  <2>1. outcome = "AuthExpired"
    BY <1>4 DEF DecideReauth, Decision, DecisionFor, Outcomes
  <2>2. QED BY <1>4, <2>1 DEF DecideReauth
<1>5. CASE DecideBreak \/ DecideRetry
  BY <1>5 DEF DecideBreak, MarkDegraded, DecideRetry
<1>6. CASE ReauthFails \/ BackoffExpires \/ BackoffAborted \/ Cleanup
  BY <1>6 DEF ReauthFails, BackoffExpires, BackoffAborted, Cleanup
<1>7. CASE RequestDisconnect \/ SignalHeard \/ SignalUnheard \/ UNCHANGED loopVars
  BY <1>7 DEF RequestDisconnect, SignalHeard, SignalUnheard, loopVars
<1>8. QED BY <1>1, <1>2, <1>3, <1>4, <1>5, <1>6, <1>7, LoopSteps

LEMMA DegradedStep == TypeInv /\ DegradedInv /\ [LoopNext]_loopVars => DegradedInv'
<1> SUFFICES ASSUME TypeInv, DegradedInv, [LoopNext]_loopVars
             PROVE  DegradedInv'
  OBVIOUS
<1> USE DEF DegradedInv, DegradedIsFinal, Going, TypeInv, LoopTypeOK
<1>1. ASSUME NEW g \in Gateways, ReauthOk(g) PROVE DegradedInv'
  BY <1>1 DEF ReauthOk
<1>2. ASSUME NEW o \in Outcomes, AttemptEnds(o) PROVE DegradedInv'
  BY <1>2 DEF AttemptEnds, Returns
<1>3. CASE StartAttempt \/ AttemptConnects \/ AttemptWedges
  BY <1>3 DEF StartAttempt, AttemptConnects, Connects, PublishConnected, AttemptWedges, ExitWedged
<1>4. CASE DecideBreak
  <2>1. outcome = "DegradedTeardown" => Decision = "Degraded"
    BY DEF Decision, DecisionFor
  <2>2. outcome = "DegradedTeardown" => base'.degraded /\ result' = "err"
    BY <1>4, <2>1 DEF DecideBreak, MarkDegraded
  <2>3. QED BY <1>4, <2>2 DEF DecideBreak
<1>5. CASE DecideReauth \/ DecideRetry
  <2>1. outcome # "DegradedTeardown"
    BY <1>5 DEF DecideReauth, DecideRetry, Decision, DecisionFor
  <2>2. QED BY <1>5, <2>1 DEF DecideReauth, DecideRetry
<1>6. CASE ReauthFails \/ BackoffExpires \/ BackoffAborted \/ Cleanup
  BY <1>6 DEF ReauthFails, BackoffExpires, BackoffAborted, Cleanup
<1>7. CASE RequestDisconnect \/ SignalHeard \/ SignalUnheard \/ UNCHANGED loopVars
  BY <1>7 DEF RequestDisconnect, SignalHeard, SignalUnheard, loopVars
<1>8. QED BY <1>1, <1>2, <1>3, <1>4, <1>5, <1>6, <1>7, LoopSteps

LEMMA RestartStep ==
  TypeInv /\ RestartInv /\ [LoopNext]_loopVars => RestartInv'
<1> SUFFICES ASSUME TypeInv, RestartInv, [LoopNext]_loopVars
             PROVE  RestartInv'
  OBVIOUS
<1> USE LoopAssumption DEF RestartInv, OwedRestart, TypeInv, LoopTypeOK
<1>1. ASSUME NEW g \in Gateways, ReauthOk(g) PROVE RestartInv'
  BY <1>1 DEF ReauthOk
<1>2. ASSUME NEW o \in Outcomes, AttemptEnds(o) PROVE RestartInv'
  BY <1>2 DEF AttemptEnds, Returns
<1>3. CASE AttemptConnects
  BY <1>3 DEF AttemptConnects, Connects, PublishConnected, Bump
<1>4. CASE DecideRetry
  BY <1>4 DEF DecideRetry, Bump
<1>5. CASE StartAttempt \/ AttemptWedges \/ DecideBreak \/ DecideReauth
  BY <1>5 DEF StartAttempt, AttemptWedges, ExitWedged, DecideBreak, MarkDegraded, DecideReauth
<1>6. CASE ReauthFails \/ BackoffExpires \/ BackoffAborted \/ Cleanup
  BY <1>6 DEF ReauthFails, BackoffExpires, BackoffAborted, Cleanup
<1>7. CASE RequestDisconnect \/ SignalHeard \/ SignalUnheard \/ UNCHANGED loopVars
  BY <1>7 DEF RequestDisconnect, SignalHeard, SignalUnheard, loopVars
<1>8. QED BY <1>1, <1>2, <1>3, <1>4, <1>5, <1>6, <1>7, LoopSteps

LEMMA LoopSafeInit == LoopInit => SafeInv
  BY LoopAssumption DEF LoopInit, SafeInv, PinFollowsGateway, CookieInv, StatusInv,
     DegradedInv, DegradedIsFinal, RestartInv, OwedRestart, Going

LEMMA LoopSafeStep == TypeInv /\ SafeInv /\ [LoopNext]_loopVars => SafeInv'
  BY PinStep, CookieStep, StatusStep, DegradedStep, RestartStep DEF SafeInv

\* The strengthened safety properties are invariants of the loop.
THEOREM LoopSafeInvariance == LoopSpec => []SafeInv
BY LoopSafeInit, LoopSafeStep, LoopTypeInvariance, PTL DEF LoopSpec

\* HIP's pinned address and the published gateway are the next attempt's.
THEOREM PinFollows == LoopSpec => []PinFollowsGateway
<1>1. SafeInv => PinFollowsGateway
  BY DEF SafeInv
<1>2. QED BY <1>1, LoopSafeInvariance, PTL

\* A cookie reported dead is never dialled again, whatever the bounds.
THEOREM DeadCookieDropped == LoopSpec => []NoRetryOnDeadCookie
<1>1. SafeInv => NoRetryOnDeadCookie
  BY DEF SafeInv, CookieInv, NoRetryOnDeadCookie
<1>2. QED BY <1>1, LoopSafeInvariance, PTL

\* A degraded teardown ends the session, marked, and never as a success.
THEOREM DegradedEnds == LoopSpec => []DegradedIsFinal
<1>1. SafeInv => DegradedIsFinal
  BY DEF SafeInv, DegradedInv
<1>2. QED BY <1>1, LoopSafeInvariance, PTL

\* The published status never names the interface of a tunnel that is gone
\* while the loop is between two tunnels.
THEOREM InterfaceIsFresh == LoopSpec => []NoStaleInterface
<1>1. SafeInv => NoStaleInterface
  BY DEF SafeInv, StatusInv, NoStaleInterface
<1>2. QED BY <1>1, LoopSafeInvariance, PTL

\* The restart metric never overtakes the retry metric.
THEOREM RestartsAreRetries == LoopSpec => []RestartsWithinRetries
<1>1. SafeInv => RestartsWithinRetries
  BY DEF SafeInv, RestartInv, RestartsWithinRetries
<1>2. QED BY <1>1, LoopSafeInvariance, PTL

(***************************************************************************)
(* The session.                                                            *)
(***************************************************************************)
-----------------------------------------------------------------------------
(* The inductive invariant. *)

\* What run_tunnel_attempt keeps true of the loop around it.
MainInv ==
  /\ pc \notin {"attempt", "stopped"} => apc = "idle"
  /\ pc = "stopped" /\ apc # "idle" => Abandoned
  /\ pc \in {"top", "reauth", "backoff"} => signalled # "heard"
  /\ pc = "decide" /\ signalled = "heard" =>
       outcome \in {"UserCancel", "DegradedTeardown"}
  /\ pc = "attempt" /\ signalled = "heard" =>
       apc \in {"recv_handle", "drain"} /\ tail = "UserCancel"
  /\ pc = "attempt" /\ apc \in {"idle", "handle", "ready"} =>
       base.state = "Connecting"
  /\ pc = "attempt" /\ apc \in {"recv_handle", "drain"} =>
       \/ tail = "UserCancel" /\ (disconnect \/ signalled = "heard")
       \/ apc = "drain" /\ tail = "Err" /\ opts.windows
  /\ pc = "attempt" /\ apc = "hip" => opts.windows

\* At most one thread exists, and the main task is in the attempt that owns it.
OwnerInv ==
  \A t \in Threads :
    tpc[t] # "none" => /\ t = cur
                       /\ apc # "idle"
                       /\ pc = "attempt" \/ (pc = "stopped" /\ Abandoned)

HoldsRoutes == {"apply_dns", "rollback", "publish", "mainloop", "revert_dns",
                "revert_routes"}
HoldsDns == {"publish", "mainloop", "revert_dns"}

\* Where a thread holds its routes and its DNS state.
ResourceOf(t) ==
  /\ routes[t] => tpc[t] \in HoldsRoutes
  /\ tpc[t] = "apply_dns" => routes[t]
  /\ dns[t] => tpc[t] \in HoldsDns /\ routes[t]
  /\ tpc[t] \in {"report", "revert_dns", "revert_routes"} => run_res[t] # "none"
  /\ done[t] # "pending" <=> tpc[t] = "ended"

ResourceInv == \A t \in Threads : ResourceOf(t)

\* What nobody logged as a mishap, a degraded outcome is on its way to say.
LeakInv ==
  leaked # {} /\ ~mishap =>
    \/ outcome = "DegradedTeardown"
    \/ \E t \in Threads : \/ tpc[t] = "report" /\ run_res[t] = "DegradedTeardown"
                          \/ tpc[t] = "ended" /\ done[t] = "DegradedTeardown"

SessionInv == MainInv /\ OwnerInv /\ ResourceInv /\ LeakInv

AttemptTypeOK == ThreadTypeOK /\ apc \in APCs /\ cur \in Threads /\ tail \in {"UserCancel", "Err"}

\* Session's own invariant needs what ReconnectLoop guarantees and, through
\* the refinement, the loop's steps need what Session keeps: one induction.
IndInv == TypeInv /\ SafeInv /\ AttemptTypeOK /\ SessionInv

-----------------------------------------------------------------------------
(* Case analysis. *)

LEMMA SessionSteps ==
  ASSUME [Next]_vars
  PROVE  \/ \E t \in Threads : Spawn(t)
         \/ SpawnFails \/ HandleArrives \/ ThreadEnded
         \/ OnSignal \/ OnDisconnect \/ RecvHandle \/ ReadyArrives
         \/ HipContinues \/ HipFails \/ Drained \/ DrainTimesOut
         \/ LoopStep \/ OnUnheardSignal
         \/ \E g \in Gateways : FreshCookie(g)
         \/ \E t \in Threads : Thread(t)
         \/ UNCHANGED vars
  BY DEF Next, Attempt

LEMMA ThreadSteps ==
  ASSUME NEW t \in Threads, NEW o, ThreadStep(t, o)
  PROVE  \/ Create(t) \/ Connect(t) \/ SetupTun(t) \/ SetupFails(t)
         \/ ApplyRoutes(t, o.native_routes)
         \/ ApplyRoutesFails(t, o.native_routes)
         \/ ApplyDns(t, o.pushed_dns) \/ ApplyDnsFails(t, o.pushed_dns)
         \/ Publish(t)
         \/ \E r \in Results \ {"DegradedTeardown"} : MainloopReturns(t, r)
         \/ RevertDns(t)
         \/ \E r \in {"clean", "error", "degraded"} : RevertRoutes(t, r, o.windows)
         \/ Report(t) \/ Panics(t)
  BY DEF ThreadStep

-----------------------------------------------------------------------------
(* Every step of a session is a step of the loop or leaves it alone. *)

LEMMA LoopRefinement == IndInv /\ [Next]_vars => [LoopNext]_loopVars
<1> SUFFICES ASSUME IndInv, [Next]_vars PROVE [LoopNext]_loopVars
  OBVIOUS
<1> USE DEF IndInv, SessionInv, InAttempt
<1>0. done[cur] \in {"pending", "closed"} \cup Results
  BY DEF AttemptTypeOK, ThreadTypeOK
<1>1. CASE SpawnFails
  <2>1. AttemptEnds("Err")
    BY <1>1 DEF SpawnFails, AttemptEnds, MainInv
  <2>2. QED BY <1>1, <2>1 DEF SpawnFails, LoopNext, AttemptReturns, Outcomes
<1>2. CASE ThreadEnded
  <2>1. DoneOutcome \in Outcomes \ {"UserCancel"}
    BY <1>0, <1>2 DEF ThreadEnded, DoneOutcome, Results, Outcomes
  <2>2. signalled # "heard"
    BY <1>2 DEF ThreadEnded, MainInv
  <2>3. AttemptEnds(DoneOutcome)
    BY <1>2, <2>1, <2>2 DEF ThreadEnded, AttemptEnds
  <2>4. QED BY <1>2, <2>1, <2>3 DEF ThreadEnded, LoopNext, AttemptReturns
<1>3. CASE OnSignal
  BY <1>3 DEF OnSignal, LoopNext, Outside
<1>4. CASE ReadyArrives
  <2>1. signalled # "heard" /\ base.state = "Connecting"
    BY <1>4 DEF ReadyArrives, MainInv
  <2>2. QED BY <1>4, <2>1 DEF ReadyArrives, AttemptConnects, LoopNext
<1>5. CASE Drained
  <2> DEFINE o == IF done[cur] = "DegradedTeardown" THEN done[cur] ELSE tail
  <2>1. o \in Outcomes
    BY DEF AttemptTypeOK, Outcomes
  <2>2. /\ o = "UserCancel" => disconnect \/ signalled = "heard"
        /\ signalled = "heard" => o \in {"UserCancel", "DegradedTeardown"}
    BY <1>5 DEF Drained, MainInv
  <2>3. Returns(o) /\ UNCHANGED <<opts, signalled>>
    BY <1>5 DEF Drained
  <2>4. AttemptEnds(o)
    BY <2>2, <2>3 DEF AttemptEnds
  <2>5. QED BY <2>1, <2>3, <2>4 DEF LoopNext, AttemptReturns
<1>6. CASE DrainTimesOut
  <2>1. disconnect \/ signalled = "heard" \/ opts.windows
    BY <1>6 DEF DrainTimesOut, MainInv
  <2>2. QED BY <1>6, <2>1 DEF DrainTimesOut, AttemptWedges, LoopNext
<1>7. CASE LoopStep
  BY <1>7 DEF LoopStep, LoopNext, Reauth, Outside
<1>8. CASE OnUnheardSignal
  BY <1>8 DEF OnUnheardSignal, LoopNext, Outside
<1>9. ASSUME NEW g \in Gateways, FreshCookie(g) PROVE [LoopNext]_loopVars
  BY <1>9 DEF FreshCookie, LoopNext, Reauth
<1>10. ASSUME NEW t \in Threads, Spawn(t) \/ Thread(t) PROVE [LoopNext]_loopVars
  BY <1>10 DEF Spawn, Thread
<1>11. CASE \/ HandleArrives \/ OnDisconnect \/ RecvHandle \/ HipContinues
            \/ HipFails \/ UNCHANGED vars
  BY <1>11 DEF HandleArrives, OnDisconnect, RecvHandle, HipContinues, HipFails, vars
<1>12. QED
  BY <1>1, <1>2, <1>3, <1>4, <1>5, <1>6, <1>7, <1>8, <1>9, <1>10, <1>11, SessionSteps

-----------------------------------------------------------------------------
(* Types of the attempt and the threads. *)

LEMMA ReturnType ==
  ASSUME ThreadTypeOK, NEW t \in Threads, NEW r \in Results, Return(t, r)
  PROVE  /\ tpc' \in [Threads -> Stages \cup {"none", "ended"}]
         /\ handle' \in [Threads -> {"pending", "sent", "closed"}]
         /\ ready' \in [Threads -> {"pending", "sent", "closed"}]
         /\ run_res' \in [Threads -> Results \cup {"none"}]
         /\ UNCHANGED <<done, cancelled>>
  BY DEF ThreadTypeOK, Return, Stages

LEMMA GotoType ==
  ASSUME ThreadTypeOK, NEW t \in Threads, NEW from, NEW to \in Stages, Goto(t, from, to)
  PROVE  /\ tpc' \in [Threads -> Stages \cup {"none", "ended"}]
         /\ UNCHANGED <<done, cancelled>>
  BY DEF ThreadTypeOK, Goto

LEMMA ThreadTypeStep ==
  ASSUME AttemptTypeOK, ResourceInv, opts \in Invocations,
         NEW t \in Threads, Thread(t)
  PROVE  AttemptTypeOK'
<1> USE DEF hostVars
<1> SUFFICES ThreadTypeOK'
  BY DEF AttemptTypeOK, Thread, attemptVars
<1>0. ThreadTypeOK
  BY DEF AttemptTypeOK
<1>1. CASE SetupFails(t)
  <2>1. Return(t, "Err") /\ "Err" \in Results
    BY <1>1 DEF SetupFails, Results
  <2>2. QED BY <1>0, <1>1, <2>1, ReturnType DEF SetupFails, ThreadTypeOK
<1>2. CASE Create(t)
  BY <1>0, <1>2 DEF Create, Goto, ThreadTypeOK, Stages
<1>3. CASE Connect(t) \/ SetupTun(t)
  BY <1>0, <1>3 DEF Connect, SetupTun, Goto, ThreadTypeOK, Stages
<1>4. CASE ApplyRoutes(t, opts.native_routes)
  <2>1. opts.native_routes \in BOOLEAN
    BY DEF Invocations
  <2>2. routes' \in [Threads -> BOOLEAN]
    BY <1>0, <1>4, <2>1 DEF ApplyRoutes, ThreadTypeOK
  <2>3. tpc' \in [Threads -> Stages \cup {"none", "ended"}] /\ UNCHANGED <<done, cancelled>>
    BY <1>0, <1>4 DEF ApplyRoutes, Goto, ThreadTypeOK, Stages
  <2>4. UNCHANGED <<handle, ready, run_res, dns, hostVars>>
    BY <1>4 DEF ApplyRoutes
  <2>5. QED BY <1>0, <2>2, <2>3, <2>4 DEF ThreadTypeOK
<1>5. CASE ApplyDns(t, opts.pushed_dns)
  <2>1. opts.pushed_dns \in BOOLEAN
    BY DEF Invocations
  <2>2. dns' \in [Threads -> BOOLEAN]
    BY <1>0, <1>5, <2>1 DEF ApplyDns, ThreadTypeOK
  <2>3. QED BY <1>0, <1>5, <2>2, GotoType DEF ApplyDns, ThreadTypeOK, Stages
<1>6. CASE ApplyRoutesFails(t, opts.native_routes)
  <2>1. PICK r \in Results : Return(t, r)
    BY <1>6 DEF ApplyRoutesFails, Results
  <2>2. /\ leaked' \subseteq {"routes", "dns"}
        /\ mishap' \in BOOLEAN
        /\ UNCHANGED <<routes, dns, rejected>>
    BY <1>0, <1>6 DEF ApplyRoutesFails, ThreadTypeOK
  <2>3. QED BY <1>0, <2>1, <2>2, ReturnType DEF ThreadTypeOK
<1>7. CASE ApplyDnsFails(t, opts.pushed_dns)
  <2>1. leaked' \subseteq {"routes", "dns"} /\ mishap' \in BOOLEAN
    BY <1>0, <1>7 DEF ApplyDnsFails, ThreadTypeOK
  <2>2. QED BY <1>0, <1>7, <2>1, GotoType DEF ApplyDnsFails, ThreadTypeOK, Stages
<1>8. CASE Publish(t)
  BY <1>0, <1>8, GotoType DEF Publish, ThreadTypeOK, Stages
<1>9. CASE RevertDns(t)
  <2>1. leaked' \subseteq {"routes", "dns"} /\ mishap' \in BOOLEAN
    BY <1>0, <1>9 DEF RevertDns, ThreadTypeOK
  <2>2. dns' \in [Threads -> BOOLEAN]
    BY <1>0, <1>9 DEF RevertDns, ThreadTypeOK
  <2>3. QED BY <1>0, <1>9, <2>1, <2>2, GotoType DEF RevertDns, ThreadTypeOK, Stages
<1>10. CASE Report(t)
  BY <1>0, <1>10 DEF Report, ResourceInv, ResourceOf, ThreadTypeOK
<1>11. ASSUME NEW r \in Results \ {"DegradedTeardown"}, MainloopReturns(t, r)
       PROVE  ThreadTypeOK'
  <2>1. tpc' \in [Threads -> Stages \cup {"none", "ended"}] /\ UNCHANGED <<done, cancelled>>
    BY <1>0, <1>11 DEF MainloopReturns, Goto, ThreadTypeOK, Stages
  <2>2. rejected' \in BOOLEAN
    BY <1>0, <1>11 DEF MainloopReturns, ThreadTypeOK
  <2>3. run_res' \in [Threads -> Results \cup {"none"}]
    BY <1>0, <1>11 DEF MainloopReturns, ThreadTypeOK
  <2>4. QED BY <1>0, <1>11, <2>1, <2>2, <2>3 DEF MainloopReturns, ThreadTypeOK
<1>12. ASSUME NEW o \in {"clean", "error", "degraded"},
              RevertRoutes(t, o, opts.windows)
       PROVE  ThreadTypeOK'
  <2>1. PICK r \in Results : Return(t, r)
    BY <1>0, <1>12 DEF RevertRoutes, ResourceInv, ResourceOf, Results, ThreadTypeOK
  <2>2. leaked' \subseteq {"routes", "dns"}
    BY <1>0, <1>12 DEF RevertRoutes, ThreadTypeOK
  <2>3. mishap' \in BOOLEAN /\ routes' \in [Threads -> BOOLEAN] /\ UNCHANGED <<dns, rejected>>
    BY <1>0, <1>12 DEF RevertRoutes, ThreadTypeOK
  <2>4. QED BY <1>0, <2>1, <2>2, <2>3, ReturnType DEF ThreadTypeOK
<1>13. CASE Panics(t)
  <2>1. InFlight(t) \subseteq {"routes", "dns"}
    BY DEF InFlight
  <2>2. leaked' \subseteq {"routes", "dns"}
    BY <1>0, <1>13, <2>1 DEF Panics, ThreadTypeOK
  <2>3. QED BY <1>0, <1>13, <2>2 DEF Panics, ThreadTypeOK
<1>14. QED
  BY <1>1, <1>2, <1>3, <1>4, <1>5, <1>6, <1>7, <1>8, <1>9, <1>10, <1>11,
     <1>12, <1>13, ThreadSteps DEF Thread

LEMMA AttemptTypeStep == IndInv /\ [Next]_vars => AttemptTypeOK'
<1> SUFFICES ASSUME AttemptTypeOK, ResourceInv, opts \in Invocations, [Next]_vars
             PROVE  AttemptTypeOK'
  BY LoopAssumption DEF IndInv, SessionInv, TypeInv, LoopTypeOK
<1> USE DEF AttemptTypeOK, ThreadTypeOK, APCs, threadVars, hostVars, attemptVars
<1>1. ASSUME NEW t \in Threads, Spawn(t) PROVE AttemptTypeOK'
  BY <1>1 DEF Spawn, SpawnThread, Stages
<1>2. ASSUME NEW t \in Threads, Thread(t) PROVE AttemptTypeOK'
  BY <1>2, ThreadTypeStep
<1>3. CASE SpawnFails \/ HandleArrives \/ ReadyArrives \/ HipContinues
  BY <1>3 DEF SpawnFails, HandleArrives, ReadyArrives, HipContinues
<1>4. CASE ThreadEnded \/ Drained
  BY <1>4 DEF ThreadEnded, Drained, JoinThread
<1>5. CASE OnSignal \/ OnDisconnect \/ HipFails
  BY <1>5 DEF OnSignal, OnDisconnect, HipFails, Cancels, CancelThread
<1>6. CASE RecvHandle \/ DrainTimesOut
  BY <1>6 DEF RecvHandle, CancelThread, DrainTimesOut
<1>7. CASE LoopStep \/ OnUnheardSignal \/ \E g \in Gateways : FreshCookie(g)
  BY <1>7 DEF LoopStep, OnUnheardSignal, FreshCookie
<1>8. CASE UNCHANGED vars
  BY <1>8 DEF vars
<1>9. QED
  BY <1>1, <1>2, <1>3, <1>4, <1>5, <1>6, <1>7, <1>8, SessionSteps

-----------------------------------------------------------------------------
(* The conjuncts of SessionInv, each on its own. *)

LEMMA MainStep == IndInv /\ [Next]_vars => MainInv'
<1> SUFFICES ASSUME IndInv, [Next]_vars PROVE MainInv'
  OBVIOUS
<1> USE DEF IndInv, SessionInv, MainInv, InAttempt, Abandoned
<1>1. ASSUME NEW t \in Threads, Spawn(t) \/ Thread(t) PROVE MainInv'
  BY <1>1 DEF Spawn, Thread, loopVars, attemptVars
<1>2. CASE SpawnFails \/ ThreadEnded \/ Drained
  <2>1. pc' = "decide" /\ apc' = "idle" /\ UNCHANGED signalled
    BY <1>2 DEF SpawnFails, ThreadEnded, Drained, Returns, attemptVars
  <2>2. signalled = "heard" => outcome' \in {"UserCancel", "DegradedTeardown"}
    BY <1>2 DEF SpawnFails, ThreadEnded, Drained, Returns
  <2>3. QED BY <2>1, <2>2
<1>3. CASE HandleArrives \/ HipContinues
  BY <1>3 DEF HandleArrives, HipContinues, loopVars
<1>4. CASE ReadyArrives
  BY <1>4 DEF ReadyArrives, Connects, PublishConnected
<1>5. CASE OnSignal
  BY <1>5 DEF OnSignal, SignalHeard, Cancels
<1>6. CASE OnDisconnect \/ HipFails
  BY <1>6 DEF OnDisconnect, HipFails, Cancels, loopVars
<1>7. CASE RecvHandle
  BY <1>7 DEF RecvHandle, loopVars
<1>8. CASE DrainTimesOut
  BY <1>8 DEF DrainTimesOut, ExitWedged, attemptVars
<1>9. CASE LoopStep
  <2>1. CASE Decide
    <3>1. signalled = "heard" => Decision \in ErrKinds \cup {"BreakOk"}
      BY <1>9, <2>1 DEF Decide, DecideBreak, DecideReauth, DecideRetry,
                        Decision, DecisionFor, ErrKinds
    <3>2. signalled = "heard" => pc' = "cleanup"
      BY <2>1, <3>1 DEF Decide, DecideBreak, DecideReauth, DecideRetry, ErrKinds
    <3>3. pc' \in {"cleanup", "reauth", "backoff"} /\ apc' = "idle" /\ UNCHANGED signalled
      BY <1>9, <2>1 DEF LoopStep, attemptVars, Decide, DecideBreak,
                        DecideReauth, DecideRetry
    <3>4. QED BY <3>2, <3>3
  <2>2. CASE StartAttempt \/ ReauthFails \/ Backoff \/ Cleanup
    BY <1>9, <2>2, TypeInv DEF LoopStep, attemptVars, StartAttempt, ReauthFails,
       Backoff, BackoffExpires, BackoffAborted, Cleanup, TypeInv, LoopTypeOK
  <2>3. CASE RequestDisconnect \/ Stopped
    BY <1>9, <2>3 DEF LoopStep, attemptVars, RequestDisconnect, Stopped, loopVars
  <2>4. QED BY <1>9, <2>1, <2>2, <2>3 DEF LoopStep
<1>10. CASE OnUnheardSignal
  BY <1>10 DEF OnUnheardSignal, SignalUnheard, attemptVars
<1>11. ASSUME NEW g \in Gateways, FreshCookie(g) PROVE MainInv'
  BY <1>11 DEF FreshCookie, ReauthOk, attemptVars
<1>12. CASE UNCHANGED vars
  BY <1>12 DEF vars, loopVars, attemptVars
<1>13. QED
  BY <1>1, <1>2, <1>3, <1>4, <1>5, <1>6, <1>7, <1>8, <1>9, <1>10, <1>11, <1>12, SessionSteps

\* A thread's own steps end it at most; they never create it.
LEMMA ThreadStaysPut ==
  ASSUME NEW t \in Threads, AttemptTypeOK, Thread(t)
  PROVE  /\ tpc[t] # "none"
         /\ tpc'[t] # "create"
         /\ \A u \in Threads \ {t} : tpc'[u] = tpc[u]
         /\ UNCHANGED <<loopVars, attemptVars>>
<1>0. tpc \in [Threads -> Stages \cup {"none", "ended"}]
  BY DEF AttemptTypeOK, ThreadTypeOK
<1>1. tpc[t] \in Stages
  BY ThreadSteps DEF Thread, Create, Connect, SetupTun, SetupFails, ApplyRoutes,
     ApplyRoutesFails, ApplyDns, ApplyDnsFails, Publish, MainloopReturns,
     RevertDns, RevertRoutes, Report, Panics, Goto, Stages
<1>2. \E to \in (Stages \ {"create"}) \cup {"ended"} : tpc' = [tpc EXCEPT ![t] = to]
  <2>1. CASE \/ SetupFails(t) \/ ApplyRoutesFails(t, opts.native_routes)
             \/ \E o \in {"clean", "error", "degraded"} : RevertRoutes(t, o, opts.windows)
    BY <2>1 DEF SetupFails, ApplyRoutesFails, RevertRoutes, Return, Stages
  <2>2. CASE \/ Create(t) \/ Connect(t) \/ SetupTun(t) \/ Publish(t) \/ RevertDns(t)
             \/ Report(t) \/ Panics(t)
    BY <2>2 DEF Create, Connect, SetupTun, Publish, RevertDns, Report, Panics, Goto, Stages
  <2>3. CASE \/ ApplyRoutes(t, opts.native_routes) \/ ApplyDns(t, opts.pushed_dns)
             \/ ApplyDnsFails(t, opts.pushed_dns)
    BY <2>3 DEF ApplyRoutes, ApplyDns, ApplyDnsFails, Goto, Stages
  <2>4. CASE \E r \in Results \ {"DegradedTeardown"} : MainloopReturns(t, r)
    BY <2>4 DEF MainloopReturns, Goto, Stages
  <2>5. QED BY <2>1, <2>2, <2>3, <2>4, ThreadSteps DEF Thread
<1>3. QED BY <1>0, <1>1, <1>2 DEF Thread, Stages

LEMMA OwnerStep == IndInv /\ [Next]_vars => OwnerInv'
<1> SUFFICES ASSUME IndInv, [Next]_vars PROVE OwnerInv'
  OBVIOUS
<1> USE DEF IndInv, SessionInv, OwnerInv, InAttempt, Abandoned
<1>0. AttemptTypeOK /\ tpc \in [Threads -> Stages \cup {"none", "ended"}] /\ cur \in Threads
  BY DEF AttemptTypeOK, ThreadTypeOK
<1>1. ASSUME NEW t \in Threads, Spawn(t) PROVE OwnerInv'
  BY <1>0, <1>1 DEF Spawn, SpawnThread, loopVars
<1>2. ASSUME NEW t \in Threads, Thread(t) PROVE OwnerInv'
  <2>1. UNCHANGED <<pc, apc, cur, result>> /\ t = cur
    BY <1>0, <1>2, ThreadStaysPut DEF loopVars, attemptVars
  <2>2. QED BY <1>0, <1>2, <2>1, ThreadStaysPut
<1>3. CASE SpawnFails
  BY <1>3 DEF SpawnFails, Returns, threadVars, attemptVars
<1>4. CASE ThreadEnded \/ Drained
  <2>1. pc = "attempt" /\ apc # "idle" /\ JoinThread(cur) /\ cur' = cur
    BY <1>4 DEF ThreadEnded, Drained
  <2>2. \A u \in Threads : tpc'[u] = "none"
    BY <1>0, <2>1 DEF JoinThread
  <2>3. QED BY <2>2
<1>5. CASE HandleArrives \/ ReadyArrives \/ HipContinues
  BY <1>5 DEF HandleArrives, ReadyArrives, HipContinues, Connects, PublishConnected,
              loopVars, threadVars
<1>6. CASE OnSignal \/ OnDisconnect \/ HipFails
  BY <1>6 DEF OnSignal, OnDisconnect, HipFails, Cancels, CancelThread, SignalHeard,
              loopVars, threadVars
<1>7. CASE RecvHandle
  BY <1>7 DEF RecvHandle, CancelThread, loopVars, threadVars
<1>8. CASE DrainTimesOut
  BY <1>8 DEF DrainTimesOut, ExitWedged, attemptVars
<1>9. CASE LoopStep
  <2>1. CASE pc = "attempt" \/ pc = "stopped"
    <3>1. UNCHANGED <<pc, result>>
      BY <1>9, <2>1 DEF LoopStep, StartAttempt, Decide, DecideBreak, DecideReauth,
         DecideRetry, ReauthFails, Backoff, BackoffExpires, BackoffAborted,
         Cleanup, RequestDisconnect, Stopped, loopVars
    <3>2. QED BY <1>9, <3>1 DEF LoopStep, threadVars, attemptVars
  <2>2. CASE pc # "attempt" /\ pc # "stopped"
    BY <1>9, <2>2 DEF LoopStep, threadVars, attemptVars
  <2>3. QED BY <2>1, <2>2
<1>10. CASE OnUnheardSignal
  BY <1>10 DEF OnUnheardSignal, SignalUnheard, threadVars, attemptVars
<1>11. ASSUME NEW g \in Gateways, FreshCookie(g) PROVE OwnerInv'
  BY <1>11 DEF FreshCookie, ReauthOk, threadVars, attemptVars
<1>12. CASE UNCHANGED vars
  BY <1>12 DEF vars, loopVars, threadVars, attemptVars
<1>13. QED
  BY <1>1, <1>2, <1>3, <1>4, <1>5, <1>6, <1>7, <1>8, <1>9, <1>10, <1>11, <1>12,
     SessionSteps

\* A thread touches no other thread's resources.
LEMMA ThreadIsLocal ==
  ASSUME NEW t \in Threads, ThreadTypeOK, Thread(t), NEW u \in Threads \ {t}
  PROVE  UNCHANGED <<tpc[u], run_res[u], done[u], routes[u], dns[u]>>
<1> USE DEF ThreadTypeOK, Goto, Return
<1>1. CASE \/ SetupFails(t) \/ ApplyRoutesFails(t, opts.native_routes)
           \/ \E o \in {"clean", "error", "degraded"} : RevertRoutes(t, o, opts.windows)
  BY <1>1 DEF SetupFails, ApplyRoutesFails, RevertRoutes
<1>2. CASE \/ Create(t) \/ Connect(t) \/ SetupTun(t) \/ Publish(t) \/ RevertDns(t)
           \/ Report(t) \/ Panics(t)
  BY <1>2 DEF Create, Connect, SetupTun, Publish, RevertDns, Report, Panics
<1>3. CASE \/ ApplyRoutes(t, opts.native_routes) \/ ApplyDns(t, opts.pushed_dns)
           \/ ApplyDnsFails(t, opts.pushed_dns)
  BY <1>3 DEF ApplyRoutes, ApplyDns, ApplyDnsFails
<1>4. CASE \E r \in Results \ {"DegradedTeardown"} : MainloopReturns(t, r)
  BY <1>4 DEF MainloopReturns
<1>5. QED BY <1>1, <1>2, <1>3, <1>4, ThreadSteps DEF Thread

LEMMA ResourceThreadStep ==
  ASSUME NEW t \in Threads, ThreadTypeOK, opts \in Invocations, ResourceOf(t), Thread(t)
  PROVE  ResourceOf(t)'
<1> USE DEF ThreadTypeOK, Goto, Return, ResourceOf, HoldsRoutes, HoldsDns, Results
<1>1. CASE Create(t) \/ Connect(t) \/ SetupTun(t) \/ Publish(t)
  BY <1>1 DEF Create, Connect, SetupTun, Publish
<1>2. CASE SetupFails(t) \/ ApplyRoutesFails(t, opts.native_routes)
  BY <1>2 DEF SetupFails, ApplyRoutesFails
<1>3. CASE ApplyRoutes(t, opts.native_routes)
  <2>1. tpc[t] = "apply_routes" /\ done'[t] = "pending" /\ UNCHANGED dns
    BY <1>3 DEF ApplyRoutes
  <2>2. \/ tpc'[t] = "apply_dns" /\ routes'[t]
        \/ tpc'[t] = "publish" /\ ~routes'[t]
    <3> DEFINE native == opts.native_routes
    <3>1. native \in BOOLEAN
      BY DEF Invocations
    <3> HIDE DEF native
    <3>2. CASE native
      <4>1. Goto(t, "apply_routes", "apply_dns") /\ routes' = [routes EXCEPT ![t] = TRUE]
        BY <1>3, <3>2 DEF ApplyRoutes, native
      <4>2. QED BY <4>1
    <3>3. CASE ~native
      <4>1. Goto(t, "apply_routes", "publish") /\ routes' = [routes EXCEPT ![t] = native]
        BY <1>3, <3>3 DEF ApplyRoutes, native
      <4>2. QED BY <3>1, <3>3, <4>1
    <3>4. QED BY <3>2, <3>3
  <2>3. ~dns[t]
    BY <2>1
  <2>4. QED BY <2>1, <2>2, <2>3
<1>4. CASE ApplyDns(t, opts.pushed_dns)
  <2>1. tpc[t] = "apply_dns" /\ tpc'[t] = "publish"
    BY <1>4 DEF ApplyDns
  <2>2. UNCHANGED <<routes, done>>
    BY <1>4 DEF ApplyDns
  <2>3. done[t] = "pending"
    BY <2>1
  <2>4. QED BY <2>1, <2>2, <2>3
<1>5. CASE ApplyDnsFails(t, opts.pushed_dns)
  BY <1>5 DEF ApplyDnsFails
<1>6. ASSUME NEW r \in Results \ {"DegradedTeardown"}, MainloopReturns(t, r)
      PROVE  ResourceOf(t)'
  <2>1. tpc[t] = "mainloop" /\ UNCHANGED <<routes, dns, done>> /\ run_res'[t] = r
        /\ tpc'[t] = IF dns[t] THEN "revert_dns" ELSE "revert_routes"
    BY <1>6 DEF MainloopReturns
  <2>2. QED BY <2>1
<1>7. CASE RevertDns(t)
  BY <1>7 DEF RevertDns
<1>8. ASSUME NEW o \in {"clean", "error", "degraded"}, RevertRoutes(t, o, opts.windows)
      PROVE  ResourceOf(t)'
  <2>1. tpc'[t] = "report" /\ ~routes'[t] /\ UNCHANGED <<dns, done>> /\ tpc[t] # "ended"
        /\ tpc[t] \in {"rollback", "revert_routes"}
    BY <1>8 DEF RevertRoutes
  <2>2. run_res'[t] # "none"
    BY <1>8 DEF RevertRoutes
  <2>3. QED BY <2>1, <2>2
<1>9. CASE Report(t) \/ Panics(t)
  BY <1>9 DEF Report, Panics, Stages
<1>10. QED
  BY <1>1, <1>2, <1>3, <1>4, <1>5, <1>6, <1>7, <1>8, <1>9, ThreadSteps DEF Thread

LEMMA ResourceStep == IndInv /\ [Next]_vars => ResourceInv'
<1> SUFFICES ASSUME AttemptTypeOK, ResourceInv, opts \in Invocations, [Next]_vars
             PROVE  ResourceInv'
  BY LoopAssumption DEF IndInv, SessionInv, TypeInv, LoopTypeOK
<1>0. /\ ThreadTypeOK /\ cur \in Threads
      /\ \A t \in Threads : ResourceOf(t)
  BY DEF AttemptTypeOK, ResourceInv
<1>1. ASSUME NEW t \in Threads, Thread(t) PROVE ResourceInv'
  BY <1>0, <1>1, ResourceThreadStep, ThreadIsLocal DEF ResourceInv, ResourceOf
<1>2. ASSUME NEW t \in Threads, Spawn(t) PROVE ResourceInv'
  BY <1>0, <1>2 DEF Spawn, SpawnThread, ResourceInv, ResourceOf, ThreadTypeOK, HoldsRoutes
<1>3. CASE ThreadEnded \/ Drained
  <2>1. JoinThread(cur)
    BY <1>3 DEF ThreadEnded, Drained
  <2>2. QED BY <1>0, <2>1 DEF JoinThread, ResourceInv, ResourceOf, ThreadTypeOK, HoldsRoutes, HoldsDns
<1>4. CASE DrainTimesOut
  <2>1. UNCHANGED <<tpc, run_res, done, routes>>
    BY <1>4 DEF DrainTimesOut
  <2>2. \A t \in Threads : dns'[t] => dns[t]
    BY <1>0, <1>4 DEF DrainTimesOut, ThreadTypeOK
  <2>3. QED BY <2>1, <2>2 DEF ResourceInv, ResourceOf
<1>5. CASE UNCHANGED <<tpc, run_res, done, routes, dns>>
  BY <1>5 DEF ResourceInv, ResourceOf
<1>6. CASE OnSignal \/ OnDisconnect \/ HipFails \/ RecvHandle
  BY <1>5, <1>6 DEF OnSignal, OnDisconnect, HipFails, RecvHandle, Cancels,
                    CancelThread, threadVars
<1>7. CASE \/ SpawnFails \/ HandleArrives \/ ReadyArrives \/ HipContinues
           \/ LoopStep \/ OnUnheardSignal \/ UNCHANGED vars
           \/ \E g \in Gateways : FreshCookie(g)
  BY <1>5, <1>7 DEF SpawnFails, HandleArrives, ReadyArrives, HipContinues,
                    LoopStep, OnUnheardSignal, FreshCookie, vars, threadVars
<1>8. QED
  BY <1>1, <1>2, <1>3, <1>4, <1>6, <1>7, SessionSteps

\* What a thread's step does to what is left behind: it logs a mishap, changes
\* nothing before its report, is about to report a degraded teardown, or
\* reports.
LEMMA ThreadLeaks ==
  ASSUME NEW t \in Threads, AttemptTypeOK, Thread(t)
  PROVE  /\ mishap => mishap'
         /\ \/ mishap'
            \/ /\ UNCHANGED <<leaked, mishap>>
               /\ tpc[t] \notin {"report", "ended"}
            \/ tpc'[t] = "report" /\ run_res'[t] = "DegradedTeardown"
            \/ /\ UNCHANGED <<leaked, mishap>>
               /\ tpc[t] = "report" /\ tpc'[t] = "ended" /\ done'[t] = run_res[t]
<1> USE DEF AttemptTypeOK, ThreadTypeOK, Goto, Return, hostVars
<1>1. CASE \/ Create(t) \/ Connect(t) \/ SetupTun(t) \/ SetupFails(t) \/ Publish(t)
           \/ ApplyRoutes(t, opts.native_routes) \/ ApplyDns(t, opts.pushed_dns)
  BY <1>1 DEF Create, Connect, SetupTun, SetupFails, Publish, ApplyRoutes, ApplyDns
<1>2. CASE ApplyRoutesFails(t, opts.native_routes)
  BY <1>2 DEF ApplyRoutesFails
<1>3. CASE ApplyDnsFails(t, opts.pushed_dns) \/ RevertDns(t)
  BY <1>3 DEF ApplyDnsFails, RevertDns
<1>4. CASE \E r \in Results \ {"DegradedTeardown"} : MainloopReturns(t, r)
  BY <1>4 DEF MainloopReturns
<1>5. ASSUME NEW o \in {"clean", "error", "degraded"}, RevertRoutes(t, o, opts.windows)
      PROVE  /\ mishap => mishap'
             /\ \/ mishap'
                \/ UNCHANGED <<leaked, mishap>> /\ tpc[t] \notin {"report", "ended"}
                \/ tpc'[t] = "report" /\ run_res'[t] = "DegradedTeardown"
  <2>1. mishap' = (mishap \/ o = "error") /\ tpc[t] \in {"rollback", "revert_routes"}
    BY <1>5 DEF RevertRoutes
  <2>2. o = "clean" => leaked' = leaked
    BY <1>5 DEF RevertRoutes
  <2>3. o = "degraded" => tpc'[t] = "report" /\ run_res'[t] = "DegradedTeardown"
    BY <1>5 DEF RevertRoutes
  <2>4. mishap \in BOOLEAN
    OBVIOUS
  <2>5. CASE o = "clean"
    <3>1. mishap' = mishap
      BY <2>1, <2>4, <2>5
    <3>2. QED BY <2>1, <2>2, <2>5, <3>1
  <2>6. CASE o = "error"
    BY <2>1, <2>6
  <2>7. CASE o = "degraded"
    BY <2>1, <2>3, <2>7
  <2>8. QED BY <2>5, <2>6, <2>7
<1>6. CASE Report(t) \/ Panics(t)
  BY <1>6 DEF Report, Panics
<1>7. QED BY <1>1, <1>2, <1>3, <1>4, <1>5, <1>6, ThreadSteps DEF Thread

LEMMA LeakStep == IndInv /\ [Next]_vars => LeakInv'
<1> SUFFICES ASSUME IndInv, [Next]_vars, leaked' # {}, ~mishap'
             PROVE  \/ outcome' = "DegradedTeardown"
                    \/ \E t \in Threads :
                         \/ tpc'[t] = "report" /\ run_res'[t] = "DegradedTeardown"
                         \/ tpc'[t] = "ended" /\ done'[t] = "DegradedTeardown"
  BY DEF LeakInv
<1> DEFINE Pending(t) == \/ tpc[t] = "report" /\ run_res[t] = "DegradedTeardown"
                         \/ tpc[t] = "ended" /\ done[t] = "DegradedTeardown"
<1> USE DEF IndInv, SessionInv, InAttempt
<1>0. /\ AttemptTypeOK /\ ThreadTypeOK /\ cur \in Threads
      /\ leaked # {} /\ ~mishap => outcome = "DegradedTeardown" \/ \E t \in Threads : Pending(t)
  BY DEF AttemptTypeOK, LeakInv
<1>1. ASSUME NEW t \in Threads, Thread(t)
      PROVE  outcome' = "DegradedTeardown" \/ \E u \in Threads : Pending(u)'
  <2>1. UNCHANGED outcome
    BY <1>1 DEF Thread, loopVars
  <2>2. CASE Pending(t)'
    BY <2>2
  <2>3. CASE UNCHANGED <<leaked, mishap>> /\ tpc[t] \notin {"report", "ended"}
    <3>1. CASE \E u \in Threads : Pending(u)
      <4>1. PICK u \in Threads : Pending(u)
        BY <3>1
      <4>2. u # t
        BY <2>3, <4>1
      <4>3. Pending(u)'
        BY <1>0, <1>1, <4>1, <4>2, ThreadIsLocal
      <4>4. QED BY <4>3
    <3>2. QED BY <1>0, <2>1, <2>3, <3>1
  <2>4. CASE /\ UNCHANGED <<leaked, mishap>>
             /\ tpc[t] = "report" /\ tpc'[t] = "ended" /\ done'[t] = run_res[t]
    <3>1. CASE \E u \in Threads : Pending(u)
      <4>1. PICK u \in Threads : Pending(u)
        BY <3>1
      <4>2. Pending(u)'
        BY <1>0, <1>1, <2>4, <4>1, ThreadIsLocal
      <4>3. QED BY <4>2
    <3>2. QED BY <1>0, <2>1, <2>4, <3>1
  <2>5. QED BY <1>0, <1>1, <2>2, <2>3, <2>4, ThreadLeaks
<1>2. CASE ThreadEnded \/ Drained
  <2>1. /\ UNCHANGED <<leaked, mishap>> /\ pc = "attempt" /\ tpc[cur] = "ended"
        /\ done[cur] = "DegradedTeardown" => outcome' = "DegradedTeardown"
    BY <1>2 DEF ThreadEnded, Drained, DoneOutcome, Returns, JoinThread, hostVars
  <2>2. outcome # "DegradedTeardown"
    BY <2>1 DEF SafeInv, DegradedInv
  <2>3. PICK t \in Threads : Pending(t)
    BY <1>0, <2>1, <2>2
  <2>4. t = cur
    BY <2>3 DEF OwnerInv
  <2>5. done[cur] = "DegradedTeardown"
    BY <2>1, <2>3, <2>4
  <2>6. QED BY <2>1, <2>5
<1>3. CASE UNCHANGED <<leaked, mishap, tpc, run_res, done>> /\ outcome # "DegradedTeardown"
  <2>1. PICK t \in Threads : Pending(t)
    BY <1>0, <1>3
  <2>2. QED BY <1>3, <2>1
<1>4. CASE UNCHANGED <<leaked, mishap, tpc, run_res, done, outcome>>
  BY <1>0, <1>4
<1>5. ASSUME NEW t \in Threads, Spawn(t)
      PROVE  outcome' = "DegradedTeardown" \/ \E u \in Threads : Pending(u)'
  \* With no thread and no degraded outcome, nothing is left behind.
  <2>1. apc = "idle" /\ pc = "attempt" /\ UNCHANGED <<leaked, mishap>>
    BY <1>5 DEF Spawn, hostVars
  <2>2. outcome # "DegradedTeardown"
    BY <2>1 DEF SafeInv, DegradedInv
  <2>3. \A u \in Threads : ~Pending(u)
    BY <2>1 DEF OwnerInv
  <2>4. QED BY <1>0, <2>1, <2>2, <2>3
<1>6. CASE SpawnFails
  <2>1. pc = "attempt" /\ UNCHANGED <<leaked, mishap, tpc, run_res, done>>
    BY <1>6 DEF SpawnFails, Returns, hostVars, threadVars
  <2>2. QED BY <1>3, <2>1 DEF SafeInv, DegradedInv
<1>7. CASE LoopStep
  <2>1. UNCHANGED <<leaked, mishap, tpc, run_res, done>>
    BY <1>7 DEF LoopStep, hostVars, threadVars
  <2>2. outcome' = outcome \/ pc = "top"
    BY <1>7 DEF LoopStep, StartAttempt, Decide, DecideBreak, DecideReauth, DecideRetry,
       ReauthFails, Backoff, BackoffExpires, BackoffAborted, Cleanup,
       RequestDisconnect, Stopped, loopVars
  <2>3. QED BY <1>3, <1>4, <2>1, <2>2 DEF SafeInv, DegradedInv
<1>8. CASE \/ HandleArrives \/ OnDisconnect \/ RecvHandle \/ HipContinues \/ HipFails
  BY <1>4, <1>8 DEF HandleArrives, OnDisconnect, RecvHandle, HipContinues, HipFails,
     Cancels, CancelThread, loopVars, threadVars, hostVars
<1>9. CASE \/ OnSignal \/ ReadyArrives \/ DrainTimesOut \/ OnUnheardSignal
           \/ UNCHANGED vars \/ \E g \in Gateways : FreshCookie(g)
  BY <1>4, <1>9 DEF OnSignal, SignalHeard, Cancels, CancelThread, ReadyArrives,
     Connects, DrainTimesOut, ExitWedged, OnUnheardSignal, SignalUnheard,
     FreshCookie, ReauthOk, vars, loopVars, threadVars, hostVars
<1>10. QED
  BY <1>1, <1>2, <1>5, <1>6, <1>7, <1>8, <1>9, SessionSteps

-----------------------------------------------------------------------------
(* The theorems. *)

LEMMA SessionInit == Init => IndInv
<1> SUFFICES ASSUME Init PROVE IndInv
  OBVIOUS
<1> USE DEF Init, ThreadInit
<1>1. TypeInv /\ SafeInv
  BY LoopTypeInit, LoopSafeInit
<1>2. AttemptTypeOK
  BY DEF AttemptTypeOK, ThreadTypeOK, APCs
<1>3. MainInv
  BY DEF MainInv, LoopInit
<1>4. OwnerInv /\ LeakInv
  BY DEF OwnerInv, LeakInv
<1>5. ResourceInv
  BY DEF ResourceInv, ResourceOf
<1>6. QED BY <1>1, <1>2, <1>3, <1>4, <1>5 DEF IndInv, SessionInv

LEMMA SessionStep == IndInv /\ [Next]_vars => IndInv'
<1> SUFFICES ASSUME IndInv, [Next]_vars PROVE IndInv'
  OBVIOUS
<1>1. [LoopNext]_loopVars
  BY LoopRefinement
<1>2. TypeInv' /\ SafeInv'
  BY <1>1, LoopTypeStep, LoopSafeStep DEF IndInv
<1>3. AttemptTypeOK' /\ SessionInv'
  BY AttemptTypeStep, MainStep, OwnerStep, ResourceStep, LeakStep DEF SessionInv
<1>4. QED BY <1>2, <1>3 DEF IndInv

\* The joint invariant of the loop, the attempt and the threads.
THEOREM SessionInvariance == Spec => []IndInv
BY SessionInit, SessionStep, PTL DEF Spec

\* Every variable of a session keeps its type.
THEOREM SessionTyping == Spec => []TypeOK
<1>1. IndInv => TypeOK
  BY DEF IndInv, TypeInv, AttemptTypeOK, TypeOK
<1>2. QED BY <1>1, SessionInvariance, PTL

\* run_tunnel_attempt and the threads implement the attempt the loop assumes:
\* the loop's safety properties are the session's.
THEOREM SessionImplementsLoop == Spec => LoopInit /\ [][LoopNext]_loopVars
<1>1. Init => LoopInit
  BY DEF Init
<1>2. QED BY <1>1, LoopRefinement, SessionInvariance, PTL DEF Spec

\* No path out of run_tunnel_attempt leaves a tunnel thread behind, and no two
\* tunnels are ever up at once.
THEOREM ThreadsAreJoined == Spec => []NoStrandedThread
<1>1. IndInv => NoStrandedThread
  BY DEF IndInv, SessionInv, OwnerInv, NoStrandedThread, Alive, Stages
<1>2. QED BY <1>1, SessionInvariance, PTL

\* run_tunnel's early returns and its teardown leave no routes or DNS state
\* without the thread that removes it.
THEOREM NetworkIsOwned == Spec => []NetworkHasOwner
<1>1. IndInv => NetworkHasOwner
  BY DEF IndInv, SessionInv, ResourceInv, ResourceOf, NetworkHasOwner, Alive,
         Stages, HoldsRoutes, HoldsDns
<1>2. QED BY <1>1, SessionInvariance, PTL

\* connect() reports success only over a clean host, logged mishaps apart: no
\* cancellation or drain loses a degraded teardown on its way to the exit code.
THEOREM SuccessMeansClean == Spec => []SuccessIsClean
<1>1. IndInv => SuccessIsClean
  <2> SUFFICES ASSUME IndInv, result = "ok", ~mishap, leaked # {}
               PROVE  FALSE
    BY DEF SuccessIsClean
  <2> USE DEF IndInv, SessionInv
  <2>1. pc \in {"cleanup", "stopped"}
    BY DEF SafeInv, DegradedInv, Going, TypeInv, LoopTypeOK, PCs
  <2>2. outcome # "DegradedTeardown"
    BY <2>1 DEF SafeInv, DegradedInv, DegradedIsFinal
  <2>3. \A t \in Threads : tpc[t] = "none"
    BY <2>1 DEF OwnerInv, Abandoned
  <2>4. QED BY <2>2, <2>3 DEF LeakInv
<1>2. QED BY <1>1, SessionInvariance, PTL

\* A thread enters its first stage in a spawn and in no other step.
LEMMA SpawnsOnlySpawn == IndInv /\ [Next]_vars /\ Spawns => \E t \in Threads : Spawn(t)
<1> SUFFICES ASSUME IndInv, [Next]_vars, Spawns PROVE \E t \in Threads : Spawn(t)
  OBVIOUS
<1> USE DEF IndInv, SessionInv
<1>1. PICK t \in Threads : tpc[t] # "create" /\ tpc'[t] = "create"
  BY DEF Spawns
<1>3. ASSUME NEW u \in Threads, Thread(u) PROVE FALSE
  BY <1>1, <1>3, ThreadStaysPut
<1>4. CASE ThreadEnded \/ Drained
  BY <1>1, <1>4 DEF ThreadEnded, Drained, JoinThread, AttemptTypeOK, ThreadTypeOK
<1>5. CASE UNCHANGED tpc
  BY <1>1, <1>5
<1>6. CASE OnSignal \/ OnDisconnect \/ HipFails \/ RecvHandle
  BY <1>5, <1>6 DEF OnSignal, OnDisconnect, HipFails, RecvHandle, Cancels,
                    CancelThread, threadVars
<1>7. CASE \/ SpawnFails \/ HandleArrives \/ ReadyArrives \/ HipContinues
           \/ DrainTimesOut \/ LoopStep \/ OnUnheardSignal \/ UNCHANGED vars
           \/ \E g \in Gateways : FreshCookie(g)
  BY <1>5, <1>7 DEF SpawnFails, HandleArrives, ReadyArrives, HipContinues,
                    DrainTimesOut, LoopStep, OnUnheardSignal, FreshCookie, vars, threadVars
<1>8. QED BY <1>3, <1>4, <1>6, <1>7, SessionSteps

\* No tunnel is started over network state whose removal is unconfirmed.
THEOREM SpawnsAreClean == Spec => NoSpawnOverUnconfirmed
<1>1. IndInv /\ [Next]_vars => [Spawns => leaked = {} \/ mishap]_vars
  <2> SUFFICES ASSUME IndInv, [Next]_vars, Spawns PROVE leaked = {} \/ mishap
    OBVIOUS
  <2> USE DEF IndInv, SessionInv
  <2>1. apc = "idle" /\ pc = "attempt"
    BY SpawnsOnlySpawn DEF Spawn, InAttempt
  <2>2. outcome # "DegradedTeardown"
    BY <2>1 DEF SafeInv, DegradedInv
  <2>3. \A v \in Threads : tpc[v] = "none"
    BY <2>1 DEF OwnerInv
  <2>4. QED BY <2>2, <2>3 DEF LeakInv
<1>2. QED BY <1>1, SessionInvariance, PTL DEF Spec, NoSpawnOverUnconfirmed

-----------------------------------------------------------------------------
(* A dead cookie.  From the mainloop's verdict to the loop's decision it is *)
(* carried by the thread's result, by the done channel and by the outcome.  *)

Forced == opts.windows /\ opts.hip_mode = "force"
Verdicts == {"AuthExpired", "TerminalErr", "DegradedTeardown"}

Carries(t) ==
  \/ tpc[t] \in {"revert_dns", "revert_routes", "report"} /\ run_res[t] \in Verdicts
  \/ tpc[t] = "ended" /\ done[t] \in Verdicts

\* Only a HIP submission that was forced and failed cancels with an error.
TailInv == pc = "attempt" /\ apc \in {"recv_handle", "drain"} /\ ~Forced => tail = "UserCancel"

RejectInv ==
  rejected /\ ~mishap /\ ~Forced =>
    \/ pc \in {"reauth", "cleanup", "stopped"}
    \/ pc = "decide" /\ outcome \in Verdicts \cup {"UserCancel"}
    \/ pc = "attempt" /\ apc # "idle" /\ \E t \in Threads : Carries(t)

LEMMA TailStep == IndInv /\ TailInv /\ [Next]_vars => TailInv'
<1> SUFFICES ASSUME IndInv, TailInv, [Next]_vars PROVE TailInv'
  OBVIOUS
<1> USE DEF TailInv, InAttempt, Forced
<1>1. ASSUME NEW t \in Threads, Spawn(t) \/ Thread(t) PROVE TailInv'
  BY <1>1 DEF Spawn, Thread, loopVars, attemptVars
<1>2. CASE SpawnFails \/ ThreadEnded \/ Drained
  BY <1>2 DEF SpawnFails, ThreadEnded, Drained, Returns
<1>3. CASE HandleArrives \/ HipContinues \/ ReadyArrives \/ RecvHandle
  BY <1>3 DEF HandleArrives, HipContinues, ReadyArrives, Connects, RecvHandle, loopVars
<1>4. CASE OnSignal \/ OnDisconnect \/ HipFails
  <2>1. CASE HipFails
    <3>1. Forced
      BY <2>1 DEF HipFails, IndInv, SessionInv, MainInv
    <3>2. QED BY <2>1, <3>1 DEF HipFails, loopVars
  <2>2. QED BY <1>4, <2>1 DEF OnSignal, OnDisconnect, Cancels
<1>5. CASE DrainTimesOut
  BY <1>5 DEF DrainTimesOut, ExitWedged
<1>6. CASE LoopStep \/ OnUnheardSignal \/ \E g \in Gateways : FreshCookie(g)
  <2>1. /\ UNCHANGED <<apc, tail, opts>>
        /\ pc' = "attempt" => pc \in {"attempt", "top"}
    BY <1>6 DEF LoopStep, StartAttempt, Decide, DecideBreak, DecideReauth, DecideRetry,
       ReauthFails, Backoff, BackoffExpires, BackoffAborted, Cleanup, RequestDisconnect,
       Stopped, OnUnheardSignal, SignalUnheard, FreshCookie, ReauthOk, loopVars, attemptVars
  <2>2. pc = "top" => apc = "idle"
    BY DEF IndInv, SessionInv, MainInv
  <2>3. QED BY <2>1, <2>2
<1>7. CASE UNCHANGED vars
  BY <1>7 DEF vars, loopVars, attemptVars
<1>8. QED BY <1>1, <1>2, <1>3, <1>4, <1>5, <1>6, <1>7, SessionSteps

\* A thread passes its verdict on, or gives a first one, or logs a mishap.
LEMMA ThreadCarries ==
  ASSUME NEW t \in Threads, AttemptTypeOK, Thread(t)
  PROVE  /\ mishap => mishap'
         /\ Carries(t) /\ ~mishap' => Carries(t)'
         /\ rejected' => rejected \/ Carries(t)'
<1> USE DEF AttemptTypeOK, ThreadTypeOK, Goto, Return, hostVars, Carries, Verdicts
<1>1. CASE \/ Create(t) \/ Connect(t) \/ SetupTun(t) \/ SetupFails(t) \/ Publish(t)
           \/ ApplyRoutes(t, opts.native_routes) \/ ApplyDns(t, opts.pushed_dns)
  BY <1>1 DEF Create, Connect, SetupTun, SetupFails, Publish, ApplyRoutes, ApplyDns
<1>2. CASE \/ ApplyRoutesFails(t, opts.native_routes) \/ ApplyDnsFails(t, opts.pushed_dns)
           \/ RevertDns(t)
  BY <1>2 DEF ApplyRoutesFails, ApplyDnsFails, RevertDns
<1>3. ASSUME NEW r \in Results \ {"DegradedTeardown"}, MainloopReturns(t, r)
      PROVE  /\ mishap => mishap'
             /\ Carries(t) /\ ~mishap' => Carries(t)'
             /\ rejected' => rejected \/ Carries(t)'
  <2>1. /\ tpc[t] = "mainloop" /\ tpc'[t] \in {"revert_dns", "revert_routes"}
        /\ run_res'[t] = r /\ UNCHANGED mishap
        /\ rejected' = (rejected \/ r \in {"AuthExpired", "TerminalErr"})
    BY <1>3 DEF MainloopReturns
  <2>2. QED BY <2>1
<1>4. ASSUME NEW o \in {"clean", "error", "degraded"}, RevertRoutes(t, o, opts.windows)
      PROVE  /\ mishap => mishap'
             /\ Carries(t) /\ ~mishap' => Carries(t)'
             /\ rejected' => rejected \/ Carries(t)'
  <2>1. /\ tpc[t] \in {"rollback", "revert_routes"} /\ tpc'[t] = "report"
        /\ UNCHANGED rejected /\ mishap' = (mishap \/ o = "error")
        /\ run_res'[t] = IF o = "degraded" THEN "DegradedTeardown"
                         ELSE IF tpc[t] = "rollback" THEN "Err" ELSE run_res[t]
    BY <1>4 DEF RevertRoutes
  <2>2. QED BY <2>1
<1>5. CASE Report(t) \/ Panics(t)
  BY <1>5 DEF Report, Panics
<1>6. QED BY <1>1, <1>2, <1>3, <1>4, <1>5, ThreadSteps DEF Thread

LEMMA RejectStep == IndInv /\ TailInv /\ RejectInv /\ [Next]_vars => RejectInv'
<1> SUFFICES ASSUME IndInv, TailInv, RejectInv, [Next]_vars,
                    rejected', ~mishap', ~Forced'
             PROVE  \/ pc' \in {"reauth", "cleanup", "stopped"}
                    \/ pc' = "decide" /\ outcome' \in Verdicts \cup {"UserCancel"}
                    \/ pc' = "attempt" /\ apc' # "idle" /\ \E t \in Threads : Carries(t)'
  BY DEF RejectInv
<1> USE DEF IndInv, SessionInv, InAttempt
<1>0. /\ AttemptTypeOK /\ ThreadTypeOK /\ cur \in Threads
      /\ \A t \in Threads : Carries(t) => t = cur
  BY DEF AttemptTypeOK, OwnerInv, Carries
<1>1. ASSUME NEW t \in Threads, Thread(t)
      PROVE  \/ pc' \in {"reauth", "cleanup", "stopped"}
             \/ pc' = "attempt" /\ apc' # "idle" /\ \E u \in Threads : Carries(u)'
  <2>1. UNCHANGED <<pc, apc, opts, cur>> /\ tpc[t] # "none" /\ pc # "stopped"
    BY <1>0, <1>1, ThreadStaysPut DEF Thread, Running, loopVars, attemptVars
  <2>2. t = cur /\ pc = "attempt" /\ apc # "idle"
    BY <2>1 DEF OwnerInv
  <2>3. Carries(t)'
    <3>1. CASE rejected
      <4>1. ~mishap /\ ~Forced
        BY <1>0, <1>1, <2>1, ThreadCarries DEF Forced
      <4>2. Carries(t)
        BY <1>0, <2>2, <3>1, <4>1 DEF RejectInv
      <4>3. QED BY <1>0, <1>1, <4>2, ThreadCarries
    <3>2. QED BY <1>0, <1>1, <3>1, ThreadCarries
  <2>4. QED BY <2>1, <2>2, <2>3
<1>2. CASE \E t \in Threads : Spawn(t)
  <2>1. /\ pc = "attempt" /\ apc = "idle" /\ rejected /\ ~mishap /\ ~Forced
    BY <1>2 DEF Spawn, loopVars, hostVars, Forced
  <2>2. QED BY <2>1 DEF RejectInv
<1>3. CASE SpawnFails
  <2>1. /\ pc = "attempt" /\ apc = "idle" /\ rejected /\ ~mishap /\ ~Forced
    BY <1>3 DEF SpawnFails, hostVars, Forced
  <2>2. QED BY <2>1 DEF RejectInv
<1>4. CASE ThreadEnded \/ Drained
  <2>1. UNCHANGED <<opts, rejected, mishap>>
    BY <1>4 DEF ThreadEnded, Drained, hostVars
  <2>2. rejected /\ ~mishap /\ ~Forced
    BY <2>1 DEF Forced
  <2>3. pc = "attempt" /\ apc # "idle" /\ tpc[cur] = "ended"
    BY <1>4 DEF ThreadEnded, Drained, JoinThread
  <2>4. pc' = "decide"
    BY <1>4 DEF ThreadEnded, Drained, Returns
  <2>5. done[cur] \in Verdicts
    BY <1>0, <2>2, <2>3 DEF RejectInv, Carries
  <2>6. outcome' \in Verdicts \cup {"UserCancel"}
    BY <1>4, <2>2, <2>3, <2>5 DEF ThreadEnded, Drained, DoneOutcome, Returns, TailInv, Verdicts
  <2>7. QED BY <2>4, <2>6
<1>5. CASE DrainTimesOut
  BY <1>5 DEF DrainTimesOut, ExitWedged
<1>6. CASE /\ UNCHANGED <<rejected, mishap, opts, pc, outcome, tpc, run_res, done>>
           /\ apc # "idle" => apc' # "idle"
  <2>1. rejected /\ ~mishap /\ ~Forced
    BY <1>6 DEF Forced
  <2>2. \A t \in Threads : Carries(t) => Carries(t)'
    BY <1>6 DEF Carries
  <2>3. QED BY <1>6, <2>1, <2>2 DEF RejectInv
<1>7. CASE \/ HandleArrives \/ OnDisconnect \/ RecvHandle \/ HipContinues \/ HipFails
  BY <1>6, <1>7 DEF HandleArrives, OnDisconnect, RecvHandle, HipContinues, HipFails,
     Cancels, CancelThread, loopVars, threadVars, hostVars
<1>8. CASE OnSignal \/ ReadyArrives \/ OnUnheardSignal \/ UNCHANGED vars
  BY <1>6, <1>8 DEF OnSignal, SignalHeard, Cancels, CancelThread, ReadyArrives,
     Connects, OnUnheardSignal, SignalUnheard, vars, loopVars, threadVars, hostVars,
     attemptVars
<1>9. CASE LoopStep
  <2>1. /\ UNCHANGED <<rejected, mishap, opts, tpc, run_res, done, apc>>
        /\ rejected /\ ~mishap /\ ~Forced
    BY <1>9 DEF LoopStep, hostVars, threadVars, attemptVars, Forced
  <2>2. CASE Decide
    <3>1. pc = "decide" /\ outcome \in Verdicts \cup {"UserCancel"}
      BY <2>1, <2>2 DEF Decide, DecideBreak, DecideReauth, DecideRetry, RejectInv
    <3>2. Decision # "RetryTransient"
      BY <3>1 DEF Decision, DecisionFor, Verdicts
    <3>3. QED BY <2>2, <3>2 DEF Decide, DecideBreak, DecideReauth, DecideRetry
  <2>3. CASE StartAttempt \/ Backoff
    BY <2>1, <2>3 DEF StartAttempt, Backoff, BackoffExpires, BackoffAborted, RejectInv
  <2>4. CASE ReauthFails \/ Cleanup
    BY <2>4 DEF ReauthFails, Cleanup
  <2>5. CASE RequestDisconnect \/ Stopped
    BY <1>6, <2>1, <2>5 DEF RequestDisconnect, Stopped, loopVars
  <2>6. QED BY <1>9, <2>2, <2>3, <2>4, <2>5 DEF LoopStep
<1>10. CASE \E g \in Gateways : FreshCookie(g)
  BY <1>10 DEF FreshCookie
<1>11. QED
  BY <1>1, <1>2, <1>3, <1>4, <1>5, <1>7, <1>8, <1>9, <1>10, SessionSteps

\* A cookie a mainloop has reported dead is not used for another tunnel: no
\* select, drain or decision between the report and the next attempt loses it,
\* where no forced HIP submission can outrank it.
THEOREM RejectionHeeded == Spec => RejectionIsHeeded
<1>1. Init => TailInv /\ RejectInv
  BY DEF Init, LoopInit, ThreadInit, TailInv, RejectInv
<1>2. IndInv /\ TailInv /\ RejectInv /\ [Next]_vars =>
        [Spawns => ~rejected \/ mishap \/ (opts.windows /\ opts.hip_mode = "force")]_vars
  <2> SUFFICES ASSUME IndInv, RejectInv, [Next]_vars, Spawns, rejected, ~mishap
               PROVE  Forced
    BY DEF Forced
  <2>1. \E t \in Threads : Spawn(t)
    BY SpawnsOnlySpawn
  <2>2. pc = "attempt" /\ apc = "idle"
    BY <2>1 DEF Spawn, InAttempt
  <2>3. QED BY <2>2 DEF RejectInv
<1>3. QED
  BY <1>1, <1>2, TailStep, RejectStep, SessionInvariance, PTL DEF Spec, RejectionIsHeeded
=============================================================================
