----------------------------- MODULE IdpPromise -----------------------------
(***************************************************************************)
(* What a scripted login at an identity provider promises to the person it *)
(* logs in: the password leaves unasked once, a second factor is asked for *)
(* one at a time, nothing is handed to the gateway while one is undecided, *)
(* and the login ends.                                                     *)
(***************************************************************************)
EXTENDS Naturals

VARIABLES outcome,      \* "running", or how the login ended
          passwords,    \* times the password was sent unasked
          challenge     \* a second factor the provider waits for: "none" or "pending"

promiseVars == <<outcome, passwords, challenge>>

Failures == {"refused", "timeout", "demoted"}

Init == outcome = "running" /\ passwords = 0 /\ challenge = "none"

Running == outcome = "running"

SendPassword ==
    /\ Running /\ passwords = 0
    /\ passwords' = 1
    /\ outcome' \in {"running"} \cup Failures
    /\ UNCHANGED challenge

AskForFactor ==
    /\ Running /\ challenge = "none"
    /\ challenge' = "pending"
    /\ outcome' \in {"running"} \cup Failures
    /\ UNCHANGED passwords

FactorDecided ==
    /\ Running /\ challenge = "pending"
    /\ challenge' = "none"
    /\ UNCHANGED <<outcome, passwords>>

Capture ==
    /\ Running /\ challenge = "none"
    /\ outcome' = "captured"
    /\ UNCHANGED <<passwords, challenge>>

Fail ==
    /\ Running
    /\ outcome' \in Failures
    /\ UNCHANGED <<passwords, challenge>>

Next == SendPassword \/ AskForFactor \/ FactorDecided \/ Capture \/ Fail

SafeSpec == Init /\ [][Next]_promiseVars
=============================================================================
