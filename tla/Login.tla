------------------------------- MODULE Login -------------------------------
(***************************************************************************)
(* connect() and run_reauth() of bins/opc/src/main.rs around a paste flow: *)
(* portal prelogin, the flow, portal config and gateway, and the gateway's *)
(* login with its loop over one-time codes, read from the same terminal.   *)
(*                                                                         *)
(* The first flow of a process is the one of connect, every later one that *)
(* of a re-authentication of the session it brought up.  What the servers  *)
(* answer is a free choice.                                                *)
(***************************************************************************)
EXTENDS SamlCapture

CONSTANT MaxMfaAttempts     \* AuthContext::max_mfa_attempts

ASSUME LoginAssumption == MaxMfaAttempts \in Nat \ {0}

Reauthenticating == main.flow > 1

Fail == GoTo("failed") /\ UNCHANGED <<os, sig, flowVars, termVars>>
Proceed(there) == GoTo(there) /\ UNCHANGED <<os, sig, flowVars, termVars>>

\* prelogin: an error, or the SAML request that the paste flow serves.
PreloginFails == At("prelogin") /\ Fail
PreloginAnswers == At("prelogin") /\ BeginFlow

FlowReturns ==
    /\ At("returned")
    /\ IF main.ok THEN Proceed("portal") ELSE Fail

\* portal_config and select_gateway: an error, or a gateway and a credential for it.
PortalFails == At("portal") /\ Fail
PortalAnswers ==
    /\ At("portal")
    /\ main' = [main EXCEPT !.at = "login", !.challenges = 0]
    /\ UNCHANGED <<os, sig, flowVars, termVars>>

GatewayRejects == At("login") /\ Fail
GatewayAccepts == At("login") /\ Proceed("up")

\* FAULT: challenges are answered without end.
FaultyGatewayChallenges ==
    /\ At("login")
    /\ main' = [main EXCEPT !.challenges = @ + 1, !.at = IF Reauthenticating THEN "failed" ELSE "ask"]
    /\ UNCHANGED <<os, sig, flowVars, termVars>>

\* A challenge is answered from the terminal by connect, and never by a re-authentication.
GatewayChallenges ==
    /\ At("login")
    /\ LET challenges == main.challenges + 1 IN
       main' = [main EXCEPT
          !.challenges = challenges,
          !.at = IF Reauthenticating \/ challenges >= MaxMfaAttempts THEN "failed" ELSE "ask"]
    /\ UNCHANGED <<os, sig, flowVars, termVars>>

\* stdin().read_line(): the lock, then a line.
AskForCode ==
    /\ At("ask")
    /\ LockFree
    /\ Proceed("prompt")

CodeTyped ==
    /\ At("prompt")
    /\ input # <<>>
    /\ input' = Tail(input)
    /\ GoTo("login")
    /\ UNCHANGED <<os, sig, flowVars, typed, eof, lost>>

\* An empty line, or the end of the input, cancels.
CodeRefused ==
    /\ At("prompt")
    /\ IF input = <<>> THEN eof ELSE Head(input) = "other"
    /\ Fail

\* The authcookie expires, or the user is done.
SessionExpires ==
    /\ At("up")
    /\ main.flow < MaxFlows
    /\ Proceed("prelogin")

SessionEnds == At("up") /\ Proceed("closed")

Ended == ~Alive /\ UNCHANGED vars

LoginInit ==
    /\ CaptureInit
    /\ main = [at |-> "prelogin", flow |-> 0, ok |-> FALSE, handle |-> FALSE, issued |-> FALSE,
               graceOver |-> FALSE, challenges |-> 0]

LoginSteps ==
    \/ PreloginFails \/ PreloginAnswers \/ FlowReturns
    \/ PortalFails \/ PortalAnswers
    \/ GatewayRejects \/ GatewayAccepts \/ GatewayChallenges
    \/ AskForCode \/ CodeTyped \/ CodeRefused
    \/ SessionExpires \/ SessionEnds

Next == LoginSteps \/ (main.flow > 0 /\ CaptureSteps) \/ Ended

\* The flow's thread and its workers keep running, and the clocks keep going:
\* no client of a listener drags a request out for ever.  Nothing is assumed
\* of the user, of who connects, or of the servers.
Fairness ==
    /\ WF_vars(FlowSteps)
    /\ \A l \in Listeners : WF_vars(HttpStops(l)) /\ WF_vars(HttpServes(l))
    /\ WF_vars(ReaderPolls) /\ WF_vars(ReaderReads) /\ WF_vars(ReaderMeetsTheEnd)
    /\ WF_vars(HandlerSteps)
    /\ WF_vars(CapPasses) /\ WF_vars(GracePasses)

Spec == LoginInit /\ [][Next]_vars /\ Fairness

---------------------------------------------------------------------------

TypeOK ==
    /\ os \in {"unix", "windows"}
    /\ main \in [at : {"prelogin", "guard", "publish", "quiet", "bind", "spawn", "ack", "wait",
                       "recv", "stop", "join", "cancel", "await", "drop", "swap", "free",
                       "unhook", "returned", "portal", "login", "ask", "prompt", "up", "failed",
                       "closed"},
                 flow : 0 .. MaxFlows, ok : BOOLEAN, handle : BOOLEAN, issued : BOOLEAN,
                 graceOver : BOOLEAN, challenges : 0 .. MaxMfaAttempts]
    /\ tty \in [echo : BOOLEAN, handlers : {"default", "ours"},
                saved : {"none", "live", "swapped", "freed"}, active : BOOLEAN]
    /\ sig \in [at : {"idle", "loaded", "restored", "exited"}, flow : 0 .. MaxFlows,
                box : {"none", "live"}, sound : BOOLEAN]
    /\ http \in [Listeners -> {"none", "bound", "accept", "serve", "done"}]
    /\ readers \in [Flows -> [at : {"none", "poll", "read", "locking", "check", "arming",
                                    "reading", "aborted", "done"},
                              acked : {"no", "none", "handle"}, frozen : BOOLEAN, after : Nat]]
    /\ chan \in Nat
    /\ stop \in [Flows -> BOOLEAN]
    /\ late \in BOOLEAN /\ eof \in BOOLEAN
    /\ input \in Seq(Lines) /\ typed \in 0 .. MaxLines /\ lost \in 0 .. MaxLines

\* A Windows reader that had to be abandoned takes at most one line from
\* whoever reads the terminal next: the flag is up by the time it looks for
\* another (run_stdin_reader).
AbandonedTakesOneLine == \A f \in Flows : readers[f].after <= 1

\* Once a flow has returned and the login goes on, no listener of it is left,
\* and on Unix no reader of the terminal either: whatever the next prompt is
\* waiting for, nothing of the flow can take it (run_paste_flow joins every
\* thread before it returns; a failed spawn, which leaves some, ends the login).
\* On Windows a reader may be left, for one line.
NothingOutlivesTheFlow ==
    /\ Alive /\ main.at \in {"portal", "login", "ask", "prompt", "up"} =>
         /\ HttpGone
         /\ (os = "unix") => \A f \in Flows : readers[f].at \in {"none", "done"}
    /\ AbandonedTakesOneLine

\* Echo is back whenever the flow is left, by its return or by a signal, at
\* whatever point of the guard's life the signal came and whichever way the
\* flow was about to end; except that a handler on another thread may have
\* begun before the echo went off, or have been overtaken by the guard's drop
\* or by the next flow.
TerminalGivenBack ==
    sig.sound /\ (sig.flow \in {0, main.flow}) /\ (~InFlow \/ sig.at = "exited") => tty.echo

\* What the doc of stdin_reader_loop says: bytes behind the line it cared for
\* are left for whoever reads next.
LeavesTheRest == lost = 0

\* A flow that was entered is left, with nobody at the terminal and nobody at
\* the listeners, in at most the gateway's time; a reader that cannot be
\* cancelled does not keep it.
FlowEnds == InFlow ~> (~InFlow \/ ~Alive)
=============================================================================
