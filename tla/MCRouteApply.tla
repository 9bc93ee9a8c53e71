---------------------------- MODULE MCRouteApply ----------------------------
(* RouteApply with two split prefixes on hosts that already route the first. *)
EXTENDS RouteApply

CONSTANTS p1, p2, gw
MCRoutes == <<p1, p2>>

Entry(p, m, d) == [dst |-> p, metric |-> m, dev |-> d]

\* The first prefix: free, another's, a leftover of a dead session's, with or
\* without a second entry of another metric, or routed nowhere on purpose.  The
\* second: free or another's.  The gateway: reached by the default route, by a
\* host route, by one with a metric, as network managers give them, or barred.
MCTables ==
  {a \cup b \cup c :
     a \in {{}, {Entry(p1, 0, "docker")}, {Entry(p1, 0, "tun")},
            {Entry(p1, 100, "docker")},
            {Entry(p1, 0, "docker"), Entry(p1, 100, "eth")},
            {Entry(p1, 0, "tun"), Entry(p1, 100, "docker")},
            {Entry(p1, 0, "nodev")}},
     b \in {{}, {Entry(p2, 0, "docker")}},
     c \in {{}, {Entry(gw, 0, "eth")}, {Entry(gw, 100, "eth")}, {Entry(gw, 0, "nodev")}}}

\* A gateway whose host route has a metric.
MCMetricTables == {{Entry(gw, 100, "eth")}}

\* A prefix that is deliberately routed nowhere.
MCBlackholeTables == {{Entry(p1, 0, "nodev")}}
=============================================================================
