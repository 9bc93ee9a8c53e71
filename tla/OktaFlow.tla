------------------------------ MODULE OktaFlow ------------------------------
(***************************************************************************)
(* The scripted Okta logins, crates/gp-auth/src/okta.rs: the transactions  *)
(* of /api/v1/authn with the SAML forms that follow them, and the Identity *)
(* Engine's remediations, which no provider calls yet.  Every request is   *)
(* answered, refused, or fails, and a failure ends the login.              *)
(***************************************************************************)
EXTENDS IdpClient

CONSTANTS MaxRounds,    \* transitions the transaction may take
          MaxPolls,     \* bound: polls for a push (OKTA_PUSH_MAX_POLLS)
          MaxHops       \* bound: forms followed after the session cookie

ASSUME OktaAssumption == {MaxRounds, MaxPolls, MaxHops} \subseteq Nat \ {0}

VARIABLE okta           \* the flow's state

Statuses == {"success", "warn", "mfa", "challenge", "other"}

OktaInit == okta =
    [at |-> IF provider = "oie" THEN "introspect" ELSE "authn",
     status |-> "other", round |-> 0, polls |-> 0, hops |-> 0, newest |-> FALSE]

In(which, here) == Runs(which) /\ okta.at = here
Goes(o, s) == okta' = o /\ seen' = s /\ UNCHANGED provider
Refuses(s) == Goes(okta, Ends(s, "refused"))

\* A request that the login does not survive, or an answer of some status.
Answered(o, s) ==
    \/ Refuses(s)
    \/ \E status \in Statuses : Goes([o EXCEPT !.status = status], s)

---------------------------------------------------------------------------
(* okta_authenticate.                                                      *)

AuthN ==
    /\ In("okta", "authn")
    /\ Answered([okta EXCEPT !.at = "round"], PasswordSent(seen))

RoundIs(status) == In("okta", "round") /\ okta.round < MaxRounds /\ okta.status = status

Success ==
    /\ RoundIs("success")
    /\ Refuses(seen) \/ Goes([okta EXCEPT !.at = "saml"], seen)

\* FAULT: the skip is tried without end.
FaultySkipWarning ==
    /\ RoundIs("warn")
    /\ Answered(okta, seen)

SkipWarning ==
    /\ RoundIs("warn")
    /\ Answered([okta EXCEPT !.round = @ + 1], seen)

\* Of the factors that can be verified the one of highest priority; or none can.
ChooseFactor ==
    /\ RoundIs("mfa")
    /\ \/ Refuses(seen)
       \/ \E factor \in {"push", "totp", "sms"} : Goes([okta EXCEPT !.at = factor], seen)

OtherStatus == (RoundIs("challenge") \/ RoundIs("other")) /\ Refuses(seen)

OutOfRounds == In("okta", "round") /\ okta.round = MaxRounds /\ Refuses(seen)

SendPush ==
    /\ In("okta", "push")
    /\ Answered([okta EXCEPT !.at = "polling", !.polls = 0], FactorAsked(seen))

\* The answer is looked at, and the push polled again while it is a challenge.
PushDecided ==
    /\ In("okta", "polling") /\ okta.polls < MaxPolls /\ okta.status # "challenge"
    /\ Goes([okta EXCEPT !.at = "round", !.round = @ + 1], FactorAnswered(seen))

PollVerify ==
    /\ In("okta", "polling") /\ okta.polls < MaxPolls /\ okta.status = "challenge"
    /\ Answered([okta EXCEPT !.polls = @ + 1], seen)

OutOfPolls == In("okta", "polling") /\ okta.polls = MaxPolls /\ Refuses(seen)

AnswerTotp ==
    /\ In("okta", "totp")
    /\ Answered([okta EXCEPT !.at = "round", !.round = @ + 1], seen)

\* The answer to the trigger is not looked at.
TriggerSms ==
    /\ In("okta", "sms")
    /\ Refuses(seen) \/ Goes([okta EXCEPT !.at = "smsCode"], FactorAsked(seen))

AnswerSms ==
    /\ In("okta", "smsCode")
    /\ \/ Refuses(seen)
       \/ \E status \in Statuses :
             Goes([okta EXCEPT !.at = "round", !.round = @ + 1, !.status = status],
                  FactorAnswered(seen))

---------------------------------------------------------------------------
(* okta_complete_gp_handshake.                                             *)

Captures == Goes(okta, Ends(seen, "captured"))

SamlRequest ==
    /\ In("okta", "saml")
    /\ Refuses(seen) \/ Captures \/ Goes([okta EXCEPT !.at = "cookie"], seen)

SessionCookie ==
    /\ In("okta", "cookie")
    /\ Refuses(seen) \/ Goes([okta EXCEPT !.at = "hop"], seen)

FollowForm ==
    /\ In("okta", "hop")
    /\ \/ Refuses(seen)
       \/ okta.hops < MaxHops /\ (Captures \/ Goes([okta EXCEPT !.hops = @ + 1], seen))

---------------------------------------------------------------------------
(* okta_authenticate_oie.  `newest` says that the stateHandle at hand is   *)
(* the newest one; an answer without one ends the login.                   *)

Handle(s) == TokenSent(s, Age(okta.newest))
HandleIsNew(o) == [o EXCEPT !.newest = TRUE]

Introspect ==
    /\ In("oie", "introspect")
    /\ Refuses(seen) \/ Goes(HandleIsNew([okta EXCEPT !.at = "identify"]), seen)

Identify ==
    /\ In("oie", "identify")
    /\ LET sent == PasswordSent(Handle(seen)) IN
       Refuses(sent) \/ Goes(HandleIsNew([okta EXCEPT !.at = "remedy"]), sent)

Remedies == In("oie", "remedy") /\ okta.round < MaxRounds

OieSuccess == Remedies /\ Captures

OieSkip ==
    /\ Remedies
    /\ LET sent == Handle(seen) IN
       Refuses(sent) \/ Goes(HandleIsNew([okta EXCEPT !.round = @ + 1]), sent)

\* The factor is chosen and begun; a push must come back with its poll.
OieChallenge ==
    /\ Remedies
    /\ LET sent == FactorAsked(Handle(seen)) IN
       \/ Refuses(sent)
       \/ Goes(HandleIsNew([okta EXCEPT !.at = "oiePoll", !.polls = 0]), sent)
       \/ Goes(HandleIsNew([okta EXCEPT !.at = "oieAnswer"]), sent)

\* A code, which the person may not give; or the password once more, which the
\* challenge asks for and the script answers without a prompt.
OieAnswer ==
    /\ In("oie", "oieAnswer")
    /\ LET sent == Handle(seen) IN
       \/ Refuses(seen) \/ Refuses(sent)
       \/ Goes(HandleIsNew([okta EXCEPT !.at = "remedy", !.round = @ + 1]), FactorAnswered(sent))

\* FAULT: every poll carries the handle the challenge came with.
FaultyOiePoll ==
    /\ In("oie", "oiePoll") /\ okta.polls < MaxPolls
    /\ LET sent == Handle(seen) IN
       \/ Refuses(sent)
       \/ Goes(HandleIsNew([okta EXCEPT !.at = "remedy", !.round = @ + 1]), FactorAnswered(sent))
       \/ Goes([okta EXCEPT !.polls = @ + 1, !.newest = FALSE], sent)

\* Until an answer carries the success; the handles of the others are taken over.
OiePoll ==
    /\ In("oie", "oiePoll") /\ okta.polls < MaxPolls
    /\ LET sent == Handle(seen) IN
       \/ Refuses(sent)
       \/ Goes(HandleIsNew([okta EXCEPT !.at = "remedy", !.round = @ + 1]), FactorAnswered(sent))
       \/ Goes(HandleIsNew([okta EXCEPT !.polls = @ + 1]), sent)

OieOutOfPolls == In("oie", "oiePoll") /\ okta.polls = MaxPolls /\ Refuses(seen)

\* A remediation the flow does not drive, or no round left.
OieGivesUp == In("oie", "remedy") /\ Refuses(seen)

---------------------------------------------------------------------------

OktaSteps ==
    \/ AuthN \/ Success \/ SkipWarning \/ ChooseFactor \/ OtherStatus \/ OutOfRounds
    \/ SendPush \/ PushDecided \/ PollVerify \/ OutOfPolls
    \/ AnswerTotp \/ TriggerSms \/ AnswerSms
    \/ SamlRequest \/ SessionCookie \/ FollowForm

OieSteps ==
    \/ Introspect \/ Identify \/ OieSuccess \/ OieSkip \/ OieChallenge
    \/ OieAnswer \/ OiePoll \/ OieOutOfPolls \/ OieGivesUp

OktaTypeOK ==
    okta \in [at : {"authn", "round", "push", "polling", "totp", "sms", "smsCode", "saml",
                    "cookie", "hop", "introspect", "identify", "remedy", "oiePoll", "oieAnswer"},
              status : Statuses, round : 0 .. MaxRounds, polls : 0 .. MaxPolls,
              hops : 0 .. MaxHops, newest : BOOLEAN]
=============================================================================
