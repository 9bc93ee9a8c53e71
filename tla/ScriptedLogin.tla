--------------------------- MODULE ScriptedLogin ----------------------------
(***************************************************************************)
(* A login that a script walks through, as bins/opc/src/main.rs starts it  *)
(* by --auth-mode: the Entra flow or an Okta flow.  An Entra flow that     *)
(* drifted is demoted to the paste flow of module Login.                   *)
(***************************************************************************)
EXTENDS EntraFlow, OktaFlow

scriptedVars == <<provider, seen, entra, overdue, okta>>

ScriptedInit ==
    /\ provider \in {"entra", "okta", "oie"}
    /\ SeenInit /\ EntraInit /\ OktaInit
    /\ overdue = FALSE

ScriptedEnded == seen.outcome # "running" /\ UNCHANGED scriptedVars

ScriptedNext ==
    \/ (EntraSteps \/ EntraTime) /\ UNCHANGED okta
    \/ (OktaSteps \/ OieSteps) /\ UNCHANGED <<entra, overdue>>
    \/ ScriptedEnded

\* A request is answered or fails, a prompt is answered, time passes.
ScriptedFairness ==
    /\ WF_scriptedVars(EntraSteps /\ UNCHANGED okta)
    /\ WF_scriptedVars(EntraCapPasses /\ UNCHANGED okta) /\ WF_scriptedVars(PollCapPasses /\ UNCHANGED okta)
    /\ WF_scriptedVars((OktaSteps \/ OieSteps) /\ UNCHANGED <<entra, overdue>>)

ScriptedSpec == ScriptedInit /\ [][ScriptedNext]_scriptedVars /\ ScriptedFairness

---------------------------------------------------------------------------

ScriptedTypeOK == SeenTypeOK /\ EntraTypeOK /\ OktaTypeOK

\* What the login promises: the password leaves unasked once, also over BSSO
\* hops, "stay signed in" pages and repeated factor pages; a factor is begun
\* when none is pending; a capture leaves none pending (run_headless,
\* okta_authenticate, okta_authenticate_oie).
Promise == INSTANCE IdpPromise WITH
    outcome <- seen.outcome, passwords <- seen.passwords, challenge <- seen.challenge

KeepsPromise == Promise!SafeSpec

\* Every request that carries a ctx/flowToken pair or a stateHandle carries the
\* newest one the provider has issued, whichever page, answer or poll issued it
\* (FlowState::absorb, mfa_leg, poll_push, oie_poll_push), with one exception: a
\* poll or a code of the Entra factor leg goes without the pair of a "not yet" or
\* of a wrong code before it.  What closes the leg has the newest even then.
NothingStaleIsSent == seen.stale \subseteq {"undecided"}

\* gp-auth entra.rs:917 ("ctx/flowToken rotate on every SAS response"), so that no
\* request should go without the newest pair; poll_push and the code loop repeat theirs.
NewestPairIsSent == seen.stale = {}

\* The login ends: no sequence of pages, factors, relays and remediations keeps
\* it for ever (the deadline of run_headless, the caps of the other loops).
LoginEnds == <>(seen.outcome # "running")

\* What the doc of run_push says: the push is polled until it is decided, so an
\* answer that decides it is not the one the login gives up on.
DecisionIsHeard ==
    seen.outcome = "refused" /\ okta.at = "polling" /\ okta.polls = MaxPolls
        => okta.status = "challenge"
=============================================================================
