--------------------------- MODULE MCRouteWindows ---------------------------
(* RouteWindows with two split prefixes and two processes, one after the     *)
(* other; another adapter serves the first prefix.                           *)
EXTENDS RouteWindows

CONSTANTS p1, p2
MCRoutes == <<p1, p2>>
MCNeighbours == {{p1}}
=============================================================================
