------------------------------- MODULE MCNrpt -------------------------------
(* Two sessions, of one instance or two, and one `opc recover`. *)
EXTENDS Nrpt

CONSTANTS work, home

\* `work` and `work-home`: the first is a prefix of the second, and the second
\* as far apart from the first as any two names.
NamesNested == {<<work>>, <<work, home>>}

=============================================================================
