---------------------------- MODULE ConnectFlow ----------------------------
(***************************************************************************)
(* connect of bins/opc/src/main.rs from its first line to its last: the    *)
(* main task that signs in, chooses a gateway, binds the control socket    *)
(* and makes one tunnel attempt after another, and the tunnel thread       *)
(* beside it, each at the place where it may block; the phase both of them *)
(* write for the watchdog; the sweep of Wintun adapters started on the     *)
(* way; and the gateway, its pin and the cookie across a re-authentication.*)
(*                                                                         *)
(* What the two say to each other is module Session's; here a place is     *)
(* left when the code may leave it, by whatever result.                    *)
(***************************************************************************)
EXTENDS PhaseWatch, WintunSweep

CONSTANTS
    Gateways,       \* the addresses of the portal's gateways
    NoGateway,      \* none: no --gateway, no pin
    Options         \* the settings connect may be called with

ASSUME GatewayAssumption == Gateways # {} /\ NoGateway \notin Gateways

VARIABLES
    config,     \* the settings, of Options
    main,       \* where the main task is in connect
    thread,     \* the tunnel thread: [at, ready, result]
    session,    \* [cookie, host, published, pin]: whose gateway each of them is
    wiped       \* who had its phase cleared by the other since its last step (ghost)

flowVars == <<config, main, thread, session>>
vars == <<config, main, thread, session, wiped, watchVars, wintunVars>>

Settings == [os : {"windows", "macos", "linux"}, mode : {"paste", "webview", "scripted", "password"},
             only : BOOLEAN, hip : BOOLEAN, reconnect : BOOLEAN, watch : BOOLEAN,
             forced : Gateways \cup {NoGateway}, strays : SUBSET Strays]

ASSUME OptionsAssumption == Options \subseteq Settings

\* The names under which the main task's places are noted.
MainStamps ==
    [begin |-> "pre_ipc_auth", prelogin |-> "prelogin", portalConfig |-> "portal_config",
     select |-> "gateway_selection", login |-> "gateway_login", only |-> "only_spec_resolve",
     adapters |-> "adapter_enumeration", bind |-> "ipc_server_bind",
     resolve |-> "gateway_dns_resolve", handleWait |-> "pre_handle_wait",
     setupWait |-> "setup_tun_wait", hip |-> "hip_submit", refresh |-> "gateway_dns_resolve",
     sweepNrpt |-> "preconnect_nrpt_sweep", sweepFiles |-> "preconnect_resolver_sweep",
     teardown |-> "session_teardown"]

\* Those without a name: what stands in the cell stays.
Unnamed == {"signIn", "sso", "metrics", "steady", "drain", "backoff", "reauth", "reauthSso", "exited"}

ThreadStamps ==
    [resolve |-> "gateway_dns_resolve", routes |-> "gp_route_apply", dns |-> "nrpt_apply",
     revertDns |-> "teardown_dns_revert", revertRoutes |-> "teardown_route_revert",
     recover |-> "teardown_nrpt_recovery"]

Running == main # "exited"
InAttempt == main \in {"handleWait", "setupWait", "hip", "steady", "drain"}
NoThread == [at |-> "none", ready |-> FALSE, result |-> "none"]
NewThread == [at |-> "create", ready |-> FALSE, result |-> "none"]

Init ==
    /\ config \in Options
    /\ main = "begin"
    /\ thread = NoThread
    /\ session = [cookie |-> NoGateway, host |-> NoGateway, published |-> NoGateway, pin |-> NoGateway]
    /\ wiped = {}
    /\ WatchInit
    /\ WintunInit(config.strays)

-----------------------------------------------------------------------------
(* Moves.  Whoever moves has not been reported at the new place yet. *)

Moved(who) ==
    /\ told' = told \ {who}
    /\ wiped' = wiped \ {who}
    /\ UNCHANGED <<config, warned>>

\* The main task enters a place, noting it if it has a name.
Enter(place) ==
    /\ main' = place
    /\ Note(IF place \in DOMAIN MainStamps THEN AutoPhase(MainStamps[place]) ELSE phase)
    /\ Moved("main")

\* It clears the cell on the way to a place without a name.
EnterCleared(place) ==
    /\ main' = place
    /\ Clear
    /\ told' = told \ {"main"}
    /\ wiped' = (wiped \ {"main"}) \cup (IF thread.at \in DOMAIN ThreadStamps THEN {"thread"} ELSE {})
    /\ UNCHANGED <<config, warned>>

\* An attempt begins: a place and a thread.
Attempt ==
    /\ Enter("handleWait")
    /\ thread' = NewThread

\* The thread enters a place, likewise.
ThreadEnters(place) ==
    /\ thread' = [thread EXCEPT !.at = place]
    /\ Note(IF place \in DOMAIN ThreadStamps THEN AutoPhase(ThreadStamps[place]) ELSE phase)
    /\ Moved("thread")
    /\ UNCHANGED <<main, session>>

ThreadClears(t) ==
    /\ thread' = t
    /\ Clear
    /\ told' = told \ {"thread"}
    /\ wiped' = (wiped \ {"thread"}) \cup (IF main \in DOMAIN MainStamps THEN {"main"} ELSE {})
    /\ UNCHANGED <<config, warned, main, session>>

NoAdapters == UNCHANGED wintunVars
SamePartners == UNCHANGED <<thread, session>>

-----------------------------------------------------------------------------
(* Signing in. *)

\* An error before the loop is returned with `?`; so ends a signal, whose
\* default action is still in place.
BeforeLoop == {"begin", "sweepNrpt", "sweepFiles", "prelogin", "signIn", "sso", "portalConfig",
               "select", "login", "only", "adapters", "bind", "metrics", "resolve"}
GivesUp ==
    /\ main \in BeforeLoop
    /\ Enter("exited")
    /\ SamePartners /\ NoAdapters

\* The pre-connect sweep of the platform, if it has one.
Begin ==
    /\ main = "begin"
    /\ Enter(IF config.os = "windows" THEN "sweepNrpt"
             ELSE IF config.os = "macos" THEN "sweepFiles" ELSE "prelogin")
    /\ SamePartners /\ NoAdapters

Swept ==
    /\ main \in {"sweepNrpt", "sweepFiles"}
    /\ Enter("prelogin")
    /\ SamePartners /\ NoAdapters

\* FAULT: the wait is noted like a step of the machine.
FaultySsoPhase == IF config.mode = "paste" THEN AutoPhase("saml_paste_wait") ELSE phase

\* The wait for somebody at a browser: noted as such by the paste arm and by
\* saml_webview_with_paste_fallback, which only macOS has.
SsoPhase ==
    IF config.mode = "paste" THEN HumanBound("saml_paste_wait")
    ELSE IF config.os = "macos" THEN HumanBound("saml_webview_wait") ELSE phase

EnterSso(place, p) ==
    /\ main' = place
    /\ Note(p)
    /\ Moved("main")

Prelogin ==
    /\ main = "prelogin"
    /\ IF config.mode \in {"paste", "webview"} THEN EnterSso("sso", SsoPhase) ELSE Enter("signIn")
    /\ SamePartners /\ NoAdapters

\* A headless flow that drifts demotes this session to the interactive one.
Drifts ==
    /\ main = "signIn" /\ config.mode = "scripted"
    /\ EnterSso("sso", SsoPhase)
    /\ SamePartners /\ NoAdapters

SignedIn ==
    /\ main \in {"signIn", "sso"}
    /\ Enter("portalConfig")
    /\ SamePartners /\ NoAdapters

PortalConfig ==
    /\ main = "portalConfig"
    /\ Enter("select")
    /\ SamePartners /\ NoAdapters

\* select_gateway: the one asked for, or any that answered, or by priority.
Selectable == IF config.forced # NoGateway THEN {config.forced} ELSE Gateways

SelectGateway ==
    /\ main = "select"
    /\ \E g \in Selectable : session' = [session EXCEPT !.host = g]
    /\ Enter("login")
    /\ UNCHANGED thread /\ NoAdapters

AfterLogin(from) ==
    IF config.only /\ from = "login" THEN "only"
    ELSE IF config.os = "windows" /\ from # "adapters" THEN "adapters" ELSE "bind"

\* gateway_login, with its MFA rounds.
GatewayLogin ==
    /\ main = "login"
    /\ session' = [session EXCEPT !.cookie = session.host]
    /\ Enter(AfterLogin("login"))
    /\ UNCHANGED thread /\ NoAdapters

ResolveOnly ==
    /\ main = "only"
    /\ Enter(AfterLogin("only"))
    /\ SamePartners /\ NoAdapters

EnumerateAdapters ==
    /\ main = "adapters"
    /\ TakeSnapshot
    /\ Enter("bind")
    /\ SamePartners

\* The control socket and the shared state, which shows the gateway.
Bind ==
    /\ main = "bind"
    /\ session' = [session EXCEPT !.published = session.host]
    /\ EnterCleared("metrics")
    /\ UNCHANGED thread /\ NoAdapters

\* resolve_gateway_for_exclude: the gateway's address, or none it can name.
Pins(g) == {g, NoGateway}

\* The metrics endpoint; a gateway that is an address is its own pin.
Metrics ==
    /\ main = "metrics"
    /\ \/ Enter("resolve") /\ SamePartners
       \/ /\ \E pin \in Pins(session.host) : session' = [session EXCEPT !.pin = pin]
          /\ Attempt
    /\ NoAdapters

PinGateway ==
    /\ main = "resolve"
    /\ \E pin \in Pins(session.host) : session' = [session EXCEPT !.pin = pin]
    /\ Attempt
    /\ NoAdapters

-----------------------------------------------------------------------------
(* run_tunnel, on its own thread. *)

\* The session is freed with the thread, and on Windows its adapter.
AdapterGoes == IF inUse.own # {} THEN DropOwn ELSE NoAdapters

Ended(result) == [thread EXCEPT !.at = "ended", !.result = result]

\* It returns without a word to the watchdog.
ThreadFails(result) ==
    /\ thread' = Ended(result)
    /\ Note(phase)
    /\ Moved("thread")
    /\ UNCHANGED <<main, session>>
    /\ AdapterGoes

Create ==
    /\ thread.at = "create"
    /\ ThreadEnters("connect")
    /\ NoAdapters

\* Without native routes the tunnel is ready at once.
Ready == [thread EXCEPT !.at = "mainloop", !.ready = TRUE]

ReadyQuietly ==
    /\ thread' = Ready
    /\ Note(phase)
    /\ Moved("thread")
    /\ UNCHANGED <<main, session>>

\* make_cstp_connection and setup_tun_device, which makes the adapter.  The
\* gateway's name is resolved for the routes, unless it is an address.
SetupTun ==
    /\ thread.at = "connect"
    /\ IF config.only THEN ThreadEnters("resolve") \/ ThreadEnters("routes") ELSE ReadyQuietly
    /\ IF config.os = "windows" THEN CreateOwn ELSE NoAdapters

ResolveForRoutes ==
    /\ thread.at = "resolve"
    /\ ThreadEnters("routes")
    /\ NoAdapters

\* gp_route::apply; then gp_dns::apply, if the gateway pushed servers.
ApplyRoutes ==
    /\ thread.at = "routes"
    /\ \/ ThreadEnters("dns")
       \/ /\ thread' = Ready
          /\ Note(AutoPhase("tunnel_setup_between_apply_steps"))
          /\ Moved("thread")
          /\ UNCHANGED <<main, session>>
    /\ NoAdapters

ApplyDns ==
    /\ thread.at = "dns"
    /\ ThreadClears(Ready)
    /\ NoAdapters

\* It fails, and the routes go back, or cannot be shown to have gone.
ApplyDnsFails ==
    /\ thread.at = "dns"
    /\ ThreadClears(Ended("err"))
    /\ AdapterGoes

SetupFails ==
    \/ thread.at \in {"create", "connect", "routes"} /\ ThreadFails("err")
    \/ thread.at \in {"routes", "dns"} /\ ThreadFails("over")

\* run_session_teardown: what is in place goes back, DNS before routes.
FirstReverts == IF config.only THEN {"revertDns", "revertRoutes"} ELSE {"torn"}

MainloopReturns ==
    /\ thread.at = "mainloop"
    /\ \E result \in {"err", "expired", "over"}, first \in FirstReverts :
         /\ thread' = [thread EXCEPT !.result = result, !.at = first]
         /\ Note(IF config.only THEN AutoPhase(ThreadStamps[first]) ELSE phase)
    /\ Moved("thread")
    /\ UNCHANGED <<main, session>>
    /\ NoAdapters

RevertDns ==
    /\ thread.at = "revertDns"
    /\ ThreadEnters("revertRoutes")
    /\ NoAdapters

\* A degraded revert still has the NRPT swept.
RevertRoutes ==
    /\ thread.at = "revertRoutes"
    /\ \/ ThreadEnters("torn")
       \/ /\ thread' = [thread EXCEPT !.at = "recover", !.result = "over"]
          /\ Note(AutoPhase(ThreadStamps.recover))
          /\ Moved("thread")
          /\ UNCHANGED <<main, session>>
    /\ NoAdapters

Recover ==
    /\ thread.at = "recover"
    /\ ThreadEnters("torn")
    /\ NoAdapters

TornDown ==
    /\ thread.at = "torn"
    /\ ThreadClears(Ended(thread.result))
    /\ AdapterGoes

\* The thread unwinds from any step of its own.
Panics ==
    /\ thread.at \notin {"none", "ended"}
    /\ ThreadFails("err")

ThreadSteps ==
    \/ Create \/ SetupTun \/ ResolveForRoutes \/ ApplyRoutes \/ ApplyDns
    \/ ApplyDnsFails \/ SetupFails \/ MainloopReturns \/ RevertDns
    \/ RevertRoutes \/ Recover \/ TornDown \/ Panics

-----------------------------------------------------------------------------
(* run_tunnel_attempt and the loop around it. *)

\* The handle; a thread that died before it is joined.
HandleComes ==
    /\ main = "handleWait" /\ thread.at # "create"
    /\ Enter("setupWait")
    /\ SamePartners /\ NoAdapters

\* Readiness.  HIP is submitted from here on Windows only.
SetupDone ==
    /\ main = "setupWait" /\ thread.ready
    /\ IF config.hip /\ config.os = "windows" THEN Enter("hip") ELSE EnterCleared("steady")
    /\ SamePartners /\ NoAdapters

\* Submitted, or not required; or the attempt is torn down for it.
HipSubmitted ==
    /\ main = "hip"
    /\ EnterCleared("steady") \/ EnterCleared("drain")
    /\ SamePartners /\ NoAdapters

\* A signal or a disconnect request.
StopsAttempt ==
    /\ main \in {"handleWait", "setupWait", "steady"}
    /\ Enter("drain")
    /\ SamePartners /\ NoAdapters

\* loop_decision_for, with the flag of `opc disconnect` and the budgets left open.
Decisions(result) ==
    {"teardown"}
      \cup {d \in {"backoff"} : config.reconnect /\ result = "err"}
      \cup {d \in {"reauth"} : config.reconnect /\ result = "expired"}

AttemptEnds ==
    /\ main \in {"handleWait", "setupWait", "steady"} /\ thread.at = "ended"
    /\ \E next \in Decisions(thread.result) : Enter(next)
    /\ thread' = NoThread
    /\ UNCHANGED session /\ NoAdapters

\* The drain of a cancelled attempt; an error of HIP's may be retried.
Drained ==
    /\ main = "drain" /\ thread.at = "ended"
    /\ \E next \in Decisions(IF config.hip THEN "err" ELSE "over") : Enter(next)
    /\ thread' = NoThread
    /\ UNCHANGED session /\ NoAdapters

\* exit_wedged.
Wedged ==
    /\ main = "drain" /\ thread.at # "ended"
    /\ Enter("exited")
    /\ SamePartners /\ NoAdapters

Backoff ==
    /\ main = "backoff"
    /\ \/ Attempt
       \/ Enter("teardown") /\ UNCHANGED thread
    /\ UNCHANGED session /\ NoAdapters

\* run_reauth: nothing of it is noted but the webview.  Headless and Okta
\* have no password to sign in with again.
ReauthSso ==
    /\ main = "reauth" /\ config.mode \in {"paste", "webview"}
    /\ EnterSso("reauthSso", IF config.mode = "webview" /\ config.os = "macos" THEN SsoPhase ELSE phase)
    /\ SamePartners /\ NoAdapters

ReauthFails ==
    /\ main \in {"reauth", "reauthSso"}
    /\ Enter("teardown")
    /\ SamePartners /\ NoAdapters

\* FAULT: the pin of the gateway before serves the new one.
FaultyReauthOk(g) ==
    /\ session' = [session EXCEPT !.cookie = g, !.host = g, !.published = g]
    /\ Attempt

\* The new cookie; another gateway needs another pin before it is used.
ReauthOk(g) ==
    /\ session' = [session EXCEPT !.cookie = g, !.host = IF g = @ THEN g ELSE @,
                                  !.published = IF g = session.host THEN g ELSE @]
    /\ IF g = session.host THEN Attempt ELSE Enter("refresh") /\ UNCHANGED thread

Reauthenticated ==
    /\ main = IF config.mode = "password" THEN "reauth" ELSE "reauthSso"
    /\ config.mode # "scripted"
    /\ \E g \in Selectable : ReauthOk(g)
    /\ NoAdapters

Refreshed ==
    /\ main = "refresh"
    /\ \E pin \in Pins(session.cookie) :
         session' = [session EXCEPT !.host = session.cookie, !.published = session.cookie, !.pin = pin]
    /\ Attempt
    /\ NoAdapters

Teardown ==
    /\ main = "teardown"
    /\ EnterCleared("exited")
    /\ SamePartners /\ NoAdapters

MainSteps ==
    \/ GivesUp \/ Begin \/ Swept \/ Prelogin \/ Drifts \/ SignedIn \/ PortalConfig
    \/ SelectGateway \/ GatewayLogin \/ ResolveOnly \/ EnumerateAdapters \/ Bind
    \/ Metrics \/ PinGateway \/ HandleComes \/ SetupDone \/ HipSubmitted
    \/ StopsAttempt \/ AttemptEnds \/ Drained \/ Wedged \/ Backoff \/ ReauthSso
    \/ ReauthFails \/ Reauthenticated \/ Refreshed \/ Teardown

-----------------------------------------------------------------------------
(* The watchdog's task, the removal thread and other programs. *)

Elapses == Running /\ config.watch /\ Overdue /\ UNCHANGED <<flowVars, wiped, wintunVars>>
Ticks == Running /\ Tick /\ UNCHANGED <<flowVars, wiped, wintunVars>>

Removal == Running /\ SweepSteps /\ UNCHANGED <<flowVars, wiped, watchVars>>

Others ==
    /\ config.strays # {}
    /\ SiblingSteps \/ \E a \in AllAdapters : RemoverActs(a)
    /\ UNCHANGED <<flowVars, wiped, watchVars>>

Next ==
    \/ MainSteps
    \/ Running /\ ThreadSteps
    \/ Elapses \/ Ticks \/ Removal \/ Others

Fairness == WF_vars(Elapses) /\ WF_vars(Ticks)

Spec == Init /\ [][Next]_vars /\ Fairness

-----------------------------------------------------------------------------
(* Properties. *)

PhaseNames ==
    {MainStamps[place] : place \in DOMAIN MainStamps}
      \cup {ThreadStamps[place] : place \in DOMAIN ThreadStamps}
      \cup {"pre_ipc_auth", "saml_paste_wait", "saml_webview_wait",
            "tunnel_setup_between_apply_steps", "none"}

FlowTypeOK ==
    /\ config \in Settings
    /\ main \in DOMAIN MainStamps \cup Unnamed
    /\ thread \in [at : DOMAIN ThreadStamps \cup {"none", "create", "connect", "mainloop", "torn", "ended"},
                   ready : BOOLEAN, result : {"none", "err", "expired", "over"}]
    /\ session \in [cookie : Gateways \cup {NoGateway}, host : Gateways \cup {NoGateway},
                    published : Gateways \cup {NoGateway}, pin : Gateways \cup {NoGateway}]
    /\ wiped \subseteq Actors

TypeOK == FlowTypeOK /\ WatchTypeOK(PhaseNames) /\ WintunTypeOK

(* Whatever re-authentications came before, an attempt runs with the cookie *)
(* of the gateway it connects to, the status shows that gateway, and the    *)
(* address pinned for HIP is one of its own or none.                        *)
SessionBelongsTogether ==
    InAttempt =>
        /\ session.cookie = session.host
        /\ session.published = session.host
        /\ session.pin \in Pins(session.host)

Report == warned' # warned /\ warned' # "none"

\* Somebody is at a browser and the code says so, or has nothing in the
\* cell; a setup wait entered when the session was over already stays there.
AtBrowser ==
    \/ main = "sso" /\ (config.mode = "paste" \/ config.os = "macos")
    \/ main = "reauthSso" /\ phase.name # "setup_tun_wait"

(* The watchdog says nothing while a person signs in (PhaseKind::HumanBound). *)
PeopleAreLeftAlone == [][Report => ~AtBrowser]_vars

\* The wait at a place is for something that has not come.
MainWaits ==
    /\ main \in DOMAIN MainStamps
    /\ main = "handleWait" => thread.at = "create"
    /\ main = "setupWait" => thread.at \in {"connect", "resolve", "routes", "dns"}

\* Who stands at a place noted for the watchdog.
Watched(who) ==
    /\ Running /\ config.watch
    /\ IF who = "main" THEN MainWaits ELSE thread.at \in DOMAIN ThreadStamps
    /\ who \notin wiped

\* The name was reported before, and nothing has opened the latch since.
Latched(who) == phase # NoPhase /\ phase.name = warned /\ who \notin told

Moves(who) == IF who = "main" THEN main' # main ELSE thread' # thread

(* Whoever stays for ever at a place that is noted is reported, unless the  *)
(* other one cleared the note or the name is still latched.                 *)
StallsAreTold ==
    \A who \in Actors :
        \/ []<>(~Watched(who) \/ Latched(who) \/ who \in told)
        \/ []<><<Moves(who)>>_vars

(* No step of the removal thread, nor a pnputil it abandoned, takes the     *)
(* adapter of this run, nor that of another opc that was there to be seen   *)
(* when the thread looked.                                                  *)
AdaptersInUseSpared ==
    [][Removal \/ (\E a \in AllAdapters : RemoverActs(a))
         => /\ inUse'.own = inUse.own
            /\ newcomer \/ inUse'.sibling = inUse.sibling]_vars
=============================================================================
