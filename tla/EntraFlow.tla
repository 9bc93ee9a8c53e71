----------------------------- MODULE EntraFlow ------------------------------
(***************************************************************************)
(* The scripted Entra login, crates/gp-auth/src/entra.rs: run_headless, a  *)
(* machine over the pages the provider serves, with the factor leg         *)
(* (BeginAuth, EndAuth, ProcessAuth) and the relay of auto-submit forms.   *)
(* Every page with a $Config and every SAS answer that decides something   *)
(* issues a new ctx/flowToken pair; who holds the newest is all that is    *)
(* kept of it.                                                             *)
(***************************************************************************)
EXTENDS IdpClient

CONSTANTS MaxRelays,    \* forms forward_relay_forms posts
          MaxBssoHops,  \* BSSO pages that are fetched again
          MaxCodes      \* codes a factor leg accepts

ASSUME EntraAssumption == /\ MaxRelays \in Nat \ {0}
                          /\ MaxBssoHops \in Nat
                          /\ MaxCodes \in Nat \ {0}

VARIABLES
    entra,      \* the flow's state
    overdue     \* the gateway's time has passed

\* What a page is for the client: classify_page and the two tests before it.
ConfigPages == {"signin", "mfa", "bsso", "kmsi", "completion", "gate", "drift"}
Pages == ConfigPages \cup {"callback", "badCallback", "relay", "bare"}

EntraInit == entra =
    [at |-> "prelogin", page |-> "bare", pending |-> FALSE, bsso |-> 0, signins |-> 0,
     posted |-> FALSE, method |-> "none", codes |-> 0, relays |-> 0, then |-> "capture",
     fresh |-> FALSE, leg |-> "old", pollLate |-> FALSE]

EntraAt(here) == Runs("entra") /\ entra.at = here

Move(e, s) == entra' = e /\ seen' = s /\ UNCHANGED <<provider, overdue>>
Stay(e) == Move(e, seen)
EndsWith(outcome) == Move(entra, Ends(seen, outcome))

\* A page reaches the client: one with a $Config outdates the pair it holds.
Arrives(p) == [entra EXCEPT !.page = p, !.fresh = @ /\ p \notin ConfigPages]

---------------------------------------------------------------------------
(* The page machine.                                                       *)

Prelogin ==
    /\ EntraAt("prelogin")
    /\ \/ EndsWith("demoted")
       \/ Stay([entra EXCEPT !.at = "broker"])

\* The landing page is processed without being fetched again.
Broker ==
    /\ EntraAt("broker")
    /\ \/ EndsWith("demoted")
       \/ \E p \in Pages : Stay([Arrives(p) EXCEPT !.pending = TRUE, !.at = "top"])

\* FAULT: the deadline is looked at before a fetch only.
FaultyTop ==
    /\ EntraAt("top")
    /\ IF overdue /\ ~entra.pending
       THEN EndsWith("timeout")
       ELSE Stay([entra EXCEPT !.at = IF entra.pending THEN "page" ELSE "get", !.pending = FALSE])

Top ==
    /\ EntraAt("top")
    /\ IF overdue
       THEN EndsWith("timeout")
       ELSE Stay([entra EXCEPT !.at = IF entra.pending THEN "page" ELSE "get", !.pending = FALSE])

GetPage ==
    /\ EntraAt("get")
    /\ \/ EndsWith("demoted")
       \/ \E p \in Pages : Stay([Arrives(p) EXCEPT !.at = "page"])

PageIs(p) == EntraAt("page") /\ entra.page = p
Absorbed == [entra EXCEPT !.fresh = TRUE]

CallbackPage == PageIs("callback") /\ EndsWith("captured")
BadCallbackPage == PageIs("badCallback") /\ EndsWith("demoted")

RelayPage ==
    /\ PageIs("relay")
    /\ Stay([entra EXCEPT !.at = "relay", !.relays = 0, !.then = "capture"])

\* No $Config; a gate for a person; a completion whose form is none that is
\* relayed; nothing recognisable.
DriftPage ==
    /\ EntraAt("page") /\ entra.page \in {"bare", "gate", "completion", "drift"}
    /\ EndsWith("demoted")

\* FAULT: a second credential page is given the password like the first.
FaultySignInPage ==
    /\ PageIs("signin")
    /\ Stay([Absorbed EXCEPT !.signins = 1, !.at = "password"])

\* A second credential page ends the flow, to protect the account.
SignInPage ==
    /\ PageIs("signin")
    /\ IF entra.signins > 0
       THEN EndsWith("refused")
       ELSE Stay([Absorbed EXCEPT !.signins = 1, !.at = "password"])

\* The password is asked for, or known, or not given; its answer is the next page.
PostPassword ==
    /\ EntraAt("password")
    /\ \/ EndsWith("refused")
       \/ LET sent == TokenSent(PasswordSent(seen), Age(entra.fresh)) IN
          \/ Move(entra, Ends(sent, "demoted"))
          \/ \E p \in Pages :
                Move([Arrives(p) EXCEPT !.pending = TRUE, !.posted = TRUE, !.at = "top"], sent)

BssoPage ==
    /\ PageIs("bsso")
    /\ IF entra.posted \/ entra.bsso >= MaxBssoHops
       THEN EndsWith("demoted")
       ELSE Stay([Absorbed EXCEPT !.bsso = @ + 1, !.at = "top"])

\* The answer to the "stay signed in" form is thrown away and its URL fetched.
KmsiPage ==
    /\ PageIs("kmsi")
    /\ LET sent == TokenSent(seen, "newest") IN
       \/ Move(Absorbed, Ends(sent, "demoted"))
       \/ Move([entra EXCEPT !.fresh = FALSE, !.at = "top"], sent)

MfaPage ==
    /\ PageIs("mfa")
    /\ \E method \in {"push", "code", "unsupported"} :
          Stay([Absorbed EXCEPT !.method = method, !.at = "begin"])

---------------------------------------------------------------------------
(* The factor leg, mfa_leg.  Its pair is its own: the page machine's is    *)
(* outdated by the first answer.                                           *)

\* BeginAuth, and the factor: a push to poll for, codes to ask for, or neither.
BeginAuth ==
    /\ EntraAt("begin")
    /\ LET sent == TokenSent(seen, Age(entra.fresh)) IN
       \/ \E outcome \in {"demoted", "refused"} : Move(entra, Ends(sent, outcome))
       \/ IF entra.method = "unsupported"
          THEN Move(entra, Ends(FactorAsked(sent), "demoted"))
          ELSE Move([entra EXCEPT !.leg = "newest", !.fresh = FALSE, !.codes = 0, !.pollLate = FALSE,
                                  !.at = IF entra.method = "push" THEN "poll" ELSE "prompt"],
                    FactorAsked(sent))

\* The pair that comes with an answer that is no decision is not taken up.
Undecided == {entra, [entra EXCEPT !.leg = "undecided"]}

\* FAULT: the pair of the answer is dropped, the closing request takes the old one.
FaultyApproved == [entra EXCEPT !.leg = "old", !.at = "process"]

Approved == [entra EXCEPT !.leg = "newest", !.at = "process"]

PollPush ==
    /\ EntraAt("poll")
    /\ IF overdue \/ entra.pollLate
       THEN EndsWith("timeout")
       ELSE LET sent == TokenSent(seen, entra.leg) IN
            \/ \E outcome \in {"demoted", "refused"} : Move(entra, Ends(sent, outcome))
            \/ \E e \in Undecided : Move(e, sent)
            \/ Move(Approved, FactorAnswered(sent))

\* The person types a code, or nothing.
EnterCode ==
    /\ EntraAt("prompt")
    /\ \/ EndsWith("refused")
       \/ Stay([entra EXCEPT !.codes = @ + 1, !.at = "code"])

\* FAULT: wrong codes are not counted.
FaultyPostCode ==
    /\ EntraAt("code")
    /\ LET sent == TokenSent(seen, entra.leg) IN
       \/ \E outcome \in {"demoted", "refused"} : Move(entra, Ends(sent, outcome))
       \/ \E e \in Undecided : Move([e EXCEPT !.at = "prompt"], sent)
       \/ Move(Approved, FactorAnswered(sent))

PostCode ==
    /\ EntraAt("code")
    /\ LET sent == TokenSent(seen, entra.leg) IN
       \/ \E outcome \in {"demoted", "refused"} : Move(entra, Ends(sent, outcome))
       \/ /\ entra.codes < MaxCodes
          /\ \E e \in Undecided : Move([e EXCEPT !.at = "prompt"], sent)
       \/ Move(Approved, FactorAnswered(sent))

\* The closing request; the forms of its answer are relayed before the page
\* machine sees what is left.
ProcessAuth ==
    /\ EntraAt("process")
    /\ LET sent == TokenSent(seen, entra.leg) IN
       \/ Move(entra, Ends(sent, "demoted"))
       \/ \E p \in Pages :
             Move([entra EXCEPT !.page = p, !.fresh = p \in ConfigPages,
                                !.relays = 0, !.then = "machine", !.at = "relay"], sent)

---------------------------------------------------------------------------
(* forward_relay_forms and what follows it.                                *)

PostRelay ==
    /\ EntraAt("relay") /\ entra.page = "relay" /\ entra.relays < MaxRelays
    /\ \/ EndsWith("demoted")
       \/ \E p \in Pages : Stay([Arrives(p) EXCEPT !.relays = @ + 1])

RelayEnds ==
    /\ EntraAt("relay") /\ (entra.page # "relay" \/ entra.relays = MaxRelays)
    /\ IF entra.page = "callback" THEN EndsWith("captured")
       ELSE IF entra.page = "badCallback" \/ entra.then = "capture" THEN EndsWith("demoted")
       ELSE Stay([entra EXCEPT !.pending = TRUE, !.at = "top"])

---------------------------------------------------------------------------

EntraCapPasses ==
    /\ Runs("entra") /\ ~overdue
    /\ overdue' = TRUE
    /\ UNCHANGED <<provider, seen, entra>>

PollCapPasses ==
    /\ EntraAt("poll") /\ ~entra.pollLate
    /\ Stay([entra EXCEPT !.pollLate = TRUE])

EntraSteps ==
    \/ Prelogin \/ Broker \/ Top \/ GetPage
    \/ CallbackPage \/ BadCallbackPage \/ RelayPage \/ DriftPage
    \/ SignInPage \/ PostPassword \/ BssoPage \/ KmsiPage \/ MfaPage
    \/ BeginAuth \/ PollPush \/ EnterCode \/ PostCode \/ ProcessAuth
    \/ PostRelay \/ RelayEnds

EntraTime == EntraCapPasses \/ PollCapPasses

EntraTypeOK ==
    /\ overdue \in BOOLEAN
    /\ entra \in [at : {"prelogin", "broker", "top", "get", "page", "password", "begin", "poll",
                        "prompt", "code", "process", "relay"},
                  page : Pages, pending : BOOLEAN, bsso : 0 .. MaxBssoHops, signins : 0 .. 1,
                  posted : BOOLEAN, method : {"none", "push", "code", "unsupported"},
                  codes : 0 .. MaxCodes, relays : 0 .. MaxRelays, then : {"capture", "machine"},
                  fresh : BOOLEAN, leg : Ages, pollLate : BOOLEAN]
=============================================================================
