----------------------------- MODULE MCRouteMac -----------------------------
(* RouteMac with two split prefixes, or one and an IPv6 address behind it. *)
EXTENDS RouteMac

CONSTANTS p1, p2, v6
MCLists == {<<p1, p2>>, <<p1, v6>>}
=============================================================================
