--------------------------- MODULE MCConnectFlow ---------------------------
EXTENDS ConnectFlow

CONSTANTS g1, g2, stray

Call(os, mode, only, hip, reconnect, watch, forced, strays) ==
    [os |-> os, mode |-> mode, only |-> only, hip |-> hip, reconnect |-> reconnect,
     watch |-> watch, forced |-> forced, strays |-> strays]

\* Each kind of sign-in on each platform, with and without native routes;
\* HIP where it is submitted from here.
Watching ==
    {Call(os, mode, only, os = "windows", TRUE, TRUE, NoGateway, {}) :
        os \in {"windows", "macos"}, mode \in {"paste", "webview", "scripted", "password"},
        only \in BOOLEAN}
    \cup {Call("linux", "paste", TRUE, FALSE, FALSE, TRUE, g1, {})}

\* Adapters that were left, under a watchdog whose budget nothing exceeds.
Sweeping == {Call("windows", "paste", FALSE, TRUE, TRUE, FALSE, g1, {stray})}

MCOptions == Watching \cup Sweeping
MCGateways == {g1, g2}
MCStrays == {stray}
=============================================================================
