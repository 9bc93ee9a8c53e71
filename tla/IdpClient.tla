----------------------------- MODULE IdpClient ------------------------------
(***************************************************************************)
(* What the scripted logins of crates/gp-auth have in common: how they end *)
(* and what the person and the provider see of them.  A provider answers   *)
(* as it likes; the tokens of its answers are not told apart, only whether *)
(* the client holds the newest.                                            *)
(***************************************************************************)
EXTENDS Naturals

VARIABLES
    provider,   \* the flow that runs: "entra", "okta" or "oie"
    seen        \* outcome, passwords sent unasked, the factor that is pending,
                \* and what tokens but the newest were ever sent

\* A token at hand is the newest; or outdated, but only by answers that decided
\* nothing; or older.
Ages == {"newest", "undecided", "old"}
Age(newest) == IF newest THEN "newest" ELSE "old"

Runs(which) == provider = which /\ seen.outcome = "running"

\* What a step makes the outside see, as updates of `seen`.
Unseen(s) == s
Ends(s, outcome) == [s EXCEPT !.outcome = outcome]
PasswordSent(s) == [s EXCEPT !.passwords = @ + 1]
FactorAsked(s) == [s EXCEPT !.challenge = "pending"]
FactorAnswered(s) == [s EXCEPT !.challenge = "none"]
TokenSent(s, age) == [s EXCEPT !.stale = @ \union ({age} \ {"newest"})]

SeenInit == seen = [outcome |-> "running", passwords |-> 0, challenge |-> "none", stale |-> {}]

SeenTypeOK ==
    /\ provider \in {"entra", "okta", "oie"}
    /\ seen \in [outcome : {"running", "captured", "refused", "timeout", "demoted"},
                 passwords : 0 .. 1, challenge : {"none", "pending"}, stale : SUBSET Ages]
=============================================================================
