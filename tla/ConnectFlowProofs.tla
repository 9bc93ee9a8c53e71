------------------------- MODULE ConnectFlowProofs -------------------------
(***************************************************************************)
(* Theorems about ConnectFlow for any gateways, settings and adapters:     *)
(* cookie, gateway, status and pin belong together in every attempt, and   *)
(* the removal of stray adapters spares those that are in use.             *)
(***************************************************************************)
EXTENDS ConnectFlow, TLAPS

-----------------------------------------------------------------------------
(* The phase cell. *)

\* The names noted are of PhaseNames.
LEMMA StampsAreNames ==
    /\ \A place \in DOMAIN MainStamps : MainStamps[place] \in PhaseNames
    /\ \A place \in DOMAIN ThreadStamps : ThreadStamps[place] \in PhaseNames
    /\ {"pre_ipc_auth", "saml_paste_wait", "saml_webview_wait",
        "tunnel_setup_between_apply_steps", "none"} \subseteq PhaseNames
BY DEF PhaseNames

PhaseOK == WatchTypeOK(PhaseNames)
Phases == [name : PhaseNames, kind : {"none", "auto", "human"}, late : BOOLEAN]

\* What the code notes is a phase.
LEMMA NotesArePhases ==
    /\ \A name \in PhaseNames : AutoPhase(name) \in Phases /\ HumanBound(name) \in Phases
    /\ NoPhase \in Phases
BY StampsAreNames DEF Phases, AutoPhase, HumanBound, NoPhase

\* A step that notes a phase and reports nothing keeps the cell's type.
LEMMA NotingKeepsWatch ==
    ASSUME PhaseOK, phase' \in Phases, warned' = warned, told' \subseteq told
    PROVE  PhaseOK'
BY DEF PhaseOK, WatchTypeOK, Actors, Phases

\* Entering a place keeps the type of the cell.
LEMMA EnterKeepsWatch ==
    ASSUME PhaseOK, NEW place, Enter(place)
    PROVE  PhaseOK'
<1>1. phase \in Phases
  BY DEF PhaseOK, WatchTypeOK, Phases
<1>2. phase' \in Phases
  BY <1>1, StampsAreNames, NotesArePhases DEF Enter, Note
<1>. QED  BY <1>2, NotingKeepsWatch DEF Enter, Moved

\* So does entering one with the cell cleared.
LEMMA EnterClearedKeepsWatch ==
    ASSUME PhaseOK, NEW place, EnterCleared(place)
    PROVE  PhaseOK'
BY NotesArePhases, NotingKeepsWatch DEF EnterCleared, Clear

\* So does entering the wait for a browser.
LEMMA EnterSsoKeepsWatch ==
    ASSUME PhaseOK, NEW place, NEW p \in {SsoPhase, phase}, EnterSso(place, p)
    PROVE  PhaseOK'
<1>1. phase \in Phases
  BY DEF PhaseOK, WatchTypeOK, Phases
<1>2. SsoPhase \in Phases
  BY <1>1, StampsAreNames, NotesArePhases DEF SsoPhase
<1>. QED  BY <1>1, <1>2, NotingKeepsWatch DEF EnterSso, Note, Moved

\* So does the begin of an attempt.
LEMMA AttemptKeepsWatch ==
    ASSUME PhaseOK, Attempt
    PROVE  PhaseOK'
BY EnterKeepsWatch DEF Attempt

\* How a step of the main task leaves the cell.
LEMMA MainNotes ==
    ASSUME MainSteps
    PROVE  \/ \E place : Enter(place)
           \/ \E place : EnterCleared(place)
           \/ \E place : \E p \in {SsoPhase, phase} : EnterSso(place, p)
           \/ Attempt
<1>1. CASE GivesUp \/ Begin \/ Swept \/ SignedIn \/ PortalConfig \/ SelectGateway \/ GatewayLogin
  BY <1>1 DEF GivesUp, Begin, Swept, SignedIn, PortalConfig, SelectGateway, GatewayLogin
<1>2. CASE ResolveOnly \/ EnumerateAdapters \/ HandleComes \/ StopsAttempt
  BY <1>2 DEF ResolveOnly, EnumerateAdapters, HandleComes, StopsAttempt
<1>3. CASE AttemptEnds \/ Drained \/ Wedged \/ ReauthFails
  BY <1>3 DEF AttemptEnds, Drained, Wedged, ReauthFails
<1>4. CASE Bind \/ SetupDone \/ HipSubmitted \/ Teardown
  BY <1>4 DEF Bind, SetupDone, HipSubmitted, Teardown
<1>5. CASE Prelogin \/ Drifts \/ ReauthSso
  BY <1>5 DEF Prelogin, Drifts, ReauthSso
<1>6. CASE Metrics \/ PinGateway \/ Backoff \/ Refreshed
  BY <1>6 DEF Metrics, PinGateway, Backoff, Refreshed
<1>7. CASE Reauthenticated
  BY <1>7 DEF Reauthenticated, ReauthOk
<1>. QED  BY <1>1, <1>2, <1>3, <1>4, <1>5, <1>6, <1>7 DEF MainSteps

\* The main task's steps keep the type of the cell.
LEMMA MainKeepsWatch ==
    ASSUME PhaseOK, MainSteps
    PROVE  PhaseOK'
<1>1. CASE \E place : Enter(place)
  BY <1>1, EnterKeepsWatch
<1>2. CASE \E place : EnterCleared(place)
  BY <1>2, EnterClearedKeepsWatch
<1>3. CASE \E place : \E p \in {SsoPhase, phase} : EnterSso(place, p)
  BY <1>3, EnterSsoKeepsWatch
<1>4. CASE Attempt
  BY <1>4, AttemptKeepsWatch
<1>. QED  BY <1>1, <1>2, <1>3, <1>4, MainNotes

\* The thread's steps keep the type of the cell.
LEMMA ThreadKeepsWatch ==
    ASSUME PhaseOK, ThreadSteps
    PROVE  PhaseOK'
<1>0. phase \in Phases
  BY DEF PhaseOK, WatchTypeOK, Phases
<1>1. ASSUME NEW p \in Phases, Note(p), Moved("thread") PROVE PhaseOK'
  BY <1>1, NotingKeepsWatch DEF Note, Moved
<1>2. ASSUME NEW place, ThreadEnters(place) PROVE PhaseOK'
  BY <1>0, <1>1, <1>2, StampsAreNames, NotesArePhases DEF ThreadEnters
<1>3. ASSUME NEW t, ThreadClears(t) PROVE PhaseOK'
  BY <1>3, NotesArePhases, NotingKeepsWatch DEF ThreadClears, Clear
<1>4. ASSUME NEW r, ThreadFails(r) PROVE PhaseOK'
  BY <1>4, <1>0, <1>1 DEF ThreadFails
<1>5. CASE Create \/ ResolveForRoutes \/ RevertDns \/ Recover
  BY <1>5, <1>2 DEF Create, ResolveForRoutes, RevertDns, Recover
<1>6. CASE ApplyDns \/ ApplyDnsFails \/ TornDown
  BY <1>6, <1>3 DEF ApplyDns, ApplyDnsFails, TornDown
<1>7. CASE SetupFails \/ Panics
  BY <1>7, <1>4 DEF SetupFails, Panics
<1>8. CASE SetupTun
  BY <1>8, <1>0, <1>1, <1>2 DEF SetupTun, ReadyQuietly
<1>9. CASE ApplyRoutes
  BY <1>9, <1>1, <1>2, StampsAreNames, NotesArePhases DEF ApplyRoutes
<1>10. CASE MainloopReturns
  <2>1. PICK first \in FirstReverts :
          Note(IF config.only THEN AutoPhase(ThreadStamps[first]) ELSE phase) /\ Moved("thread")
    BY <1>10 DEF MainloopReturns
  <2>2. config.only => ThreadStamps[first] \in PhaseNames
    <3>1. config.only => first \in DOMAIN ThreadStamps
      BY DEF FirstReverts, ThreadStamps
    <3>. QED  BY <3>1, StampsAreNames
  <2>. QED  BY <2>1, <2>2, <1>0, <1>1, NotesArePhases
<1>11. CASE RevertRoutes
  <2>1. ThreadStamps.recover \in PhaseNames
    <3>1. "recover" \in DOMAIN ThreadStamps
      BY DEF ThreadStamps
    <3>. QED  BY <3>1, StampsAreNames
  <2>. QED  BY <2>1, <1>11, <1>1, <1>2, NotesArePhases DEF RevertRoutes
<1>. QED  BY <1>5, <1>6, <1>7, <1>8, <1>9, <1>10, <1>11 DEF ThreadSteps

\* Every step keeps the cell's type.
LEMMA WatchStep ==
    ASSUME PhaseOK, [Next]_vars
    PROVE  PhaseOK'
<1>1. CASE MainSteps
  BY <1>1, MainKeepsWatch
<1>2. CASE ThreadSteps
  BY <1>2, ThreadKeepsWatch
<1>3. CASE Elapses
  BY <1>3 DEF Elapses, Overdue, PhaseOK, WatchTypeOK, Actors
<1>4. CASE Ticks
  <2>1. warned' \in PhaseNames
    BY <1>4, StampsAreNames DEF Ticks, Tick, LatchAfterTick, PhaseOK, WatchTypeOK
  <2>2. told' \subseteq Actors
    BY <1>4 DEF Ticks, Tick, PhaseOK, WatchTypeOK
  <2>. QED  BY <1>4, <2>1, <2>2 DEF Ticks, Tick, PhaseOK, WatchTypeOK, Actors
<1>5. CASE UNCHANGED watchVars
  BY <1>5 DEF watchVars, PhaseOK, WatchTypeOK, Actors
<1>. QED  BY <1>1, <1>2, <1>3, <1>4, <1>5 DEF Next, Removal, Others, vars

-----------------------------------------------------------------------------
(* The session. *)

MainPlaces ==
    {"begin", "prelogin", "portalConfig", "select", "login", "only", "adapters", "bind",
     "resolve", "handleWait", "setupWait", "hip", "refresh", "sweepNrpt", "sweepFiles",
     "teardown", "signIn", "sso", "metrics", "steady", "drain", "backoff", "reauth",
     "reauthSso", "exited"}

ThreadPlaces ==
    {"resolve", "routes", "dns", "revertDns", "revertRoutes", "recover",
     "none", "create", "connect", "mainloop", "torn", "ended"}

\* The places, with a name for the watchdog or without.
LEMMA PlacesAre ==
    /\ DOMAIN MainStamps \cup Unnamed = MainPlaces
    /\ DOMAIN ThreadStamps \cup {"none", "create", "connect", "mainloop", "torn", "ended"} = ThreadPlaces
<1>1. DOMAIN MainStamps = MainPlaces \ Unnamed
  BY DEF MainStamps, MainPlaces, Unnamed
<1>2. DOMAIN ThreadStamps = ThreadPlaces \ {"none", "create", "connect", "mainloop", "torn", "ended"}
  BY DEF ThreadStamps, ThreadPlaces
<1>. QED  BY <1>1, <1>2 DEF MainPlaces, ThreadPlaces, Unnamed

Addresses == Gateways \cup {NoGateway}
SettingsOK == config \in Settings
MainOK == main \in MainPlaces
SessionOK == session \in [cookie : Addresses, host : Addresses, published : Addresses, pin : Addresses]
ThreadOK == thread \in [at : ThreadPlaces, ready : BOOLEAN, result : {"none", "err", "expired", "over"}]
WipedOK == wiped \subseteq Actors

\* From the login on the cookie is that of the gateway that was chosen, and
\* from the first attempt on the status and the pin are its own too, except
\* while the pin of another gateway is looked up.
Together ==
    /\ session.cookie = session.host
    /\ session.published = session.host
    /\ session.pin \in Pins(session.host)

Whole ==
    /\ main \in {"only", "adapters", "bind"} => session.cookie = session.host
    /\ main \in {"metrics", "resolve"} => session.cookie = session.host /\ session.published = session.host
    /\ InAttempt \/ main \in {"backoff", "reauth", "reauthSso"} => Together
    /\ main = "refresh" => session.cookie \in Gateways

\* There is no tunnel before the loop.
Early == main \in BeforeLoop => thread = NoThread

\* select_gateway returns a gateway.
LEMMA SelectableAreGateways ==
    ASSUME SettingsOK
    PROVE  Selectable \subseteq Gateways
BY GatewayAssumption DEF SettingsOK, Settings, Selectable

\* The main task goes from place to place.
LEMMA MainKeepsPlaces ==
    ASSUME MainSteps
    PROVE  MainOK'
<1>1. CASE GivesUp \/ Begin \/ Swept \/ SignedIn \/ PortalConfig \/ SelectGateway
  BY <1>1 DEF GivesUp, Begin, Swept, SignedIn, PortalConfig, SelectGateway, Enter, MainOK, MainPlaces
<1>2. CASE GatewayLogin \/ ResolveOnly \/ EnumerateAdapters
  BY <1>2 DEF GatewayLogin, ResolveOnly, EnumerateAdapters, Enter, AfterLogin, MainOK, MainPlaces
<1>3. CASE Prelogin \/ Drifts \/ ReauthSso
  BY <1>3 DEF Prelogin, Drifts, ReauthSso, Enter, EnterSso, MainOK, MainPlaces
<1>4. CASE Bind \/ SetupDone \/ HipSubmitted \/ Teardown
  BY <1>4 DEF Bind, SetupDone, HipSubmitted, Teardown, Enter, EnterCleared, MainOK, MainPlaces
<1>5. CASE HandleComes \/ StopsAttempt \/ Wedged \/ ReauthFails
  BY <1>5 DEF HandleComes, StopsAttempt, Wedged, ReauthFails, Enter, MainOK, MainPlaces
<1>6. CASE AttemptEnds \/ Drained
  BY <1>6 DEF AttemptEnds, Drained, Enter, Decisions, MainOK, MainPlaces
<1>7. CASE Metrics \/ PinGateway \/ Backoff \/ Refreshed
  BY <1>7 DEF Metrics, PinGateway, Backoff, Refreshed, Enter, Attempt, MainOK, MainPlaces
<1>8. CASE Reauthenticated
  BY <1>8 DEF Reauthenticated, Enter, ReauthOk, Attempt, MainOK, MainPlaces
<1>. QED  BY <1>1, <1>2, <1>3, <1>4, <1>5, <1>6, <1>7, <1>8 DEF MainSteps

\* It leaves the settings alone.
LEMMA MainKeepsRest ==
    ASSUME MainSteps, SettingsOK, WipedOK
    PROVE  SettingsOK' /\ WipedOK'
<1>1. ASSUME NEW place, Enter(place) PROVE SettingsOK' /\ WipedOK'
  BY <1>1 DEF Enter, Moved, SettingsOK, WipedOK, Actors
<1>2. ASSUME NEW place, EnterCleared(place) PROVE SettingsOK' /\ WipedOK'
  BY <1>2 DEF EnterCleared, SettingsOK, WipedOK, Actors
<1>3. ASSUME NEW place, NEW p, EnterSso(place, p) PROVE SettingsOK' /\ WipedOK'
  BY <1>3 DEF EnterSso, Moved, SettingsOK, WipedOK, Actors
<1>. QED
  BY <1>1, <1>2, <1>3, MainNotes DEF Attempt

\* It keeps cookie, gateway, status and pin together.
LEMMA MainKeepsSession ==
    ASSUME MainSteps, SettingsOK, SessionOK, ThreadOK, Whole, Early
    PROVE  SessionOK' /\ ThreadOK' /\ Whole' /\ Early'
<1>. DEFINE Goal == SessionOK' /\ ThreadOK' /\ Whole' /\ Early'
<1>a. ASSUME UNCHANGED <<session, thread>>, Whole', Early' PROVE Goal
  BY <1>a DEF SessionOK, ThreadOK
<1>1. CASE GivesUp \/ Begin \/ Swept \/ SignedIn \/ PortalConfig
  BY <1>1, <1>a DEF GivesUp, Begin, Swept, SignedIn, PortalConfig, Enter, SamePartners, Whole, Together, InAttempt, Early, BeforeLoop, Pins
<1>2. CASE Prelogin \/ Drifts
  BY <1>2, <1>a DEF Prelogin, Drifts, Enter, SamePartners, EnterSso, Whole, Together, InAttempt, Early, BeforeLoop, Pins
<1>3. CASE ResolveOnly \/ EnumerateAdapters
  BY <1>3, <1>a DEF ResolveOnly, EnumerateAdapters, Enter, SamePartners, AfterLogin, Whole, Together, InAttempt, Early, BeforeLoop, Pins
<1>4. CASE HandleComes \/ StopsAttempt \/ Wedged \/ ReauthFails
  BY <1>4, <1>a DEF HandleComes, StopsAttempt, Wedged, ReauthFails, Enter, SamePartners, Whole, Together, InAttempt, Early, BeforeLoop, Pins
<1>5. CASE SetupDone \/ HipSubmitted \/ Teardown
  BY <1>5, <1>a DEF SetupDone, HipSubmitted, Teardown, Enter, SamePartners, EnterCleared, Whole, Together, InAttempt, Early, BeforeLoop, Pins
<1>6. CASE ReauthSso
  BY <1>6, <1>a DEF ReauthSso, Enter, SamePartners, EnterSso, Whole, Together, InAttempt, Early, BeforeLoop, Pins
<1>b. ASSUME Attempt, session' \in [cookie : Addresses, host : Addresses, published : Addresses, pin : Addresses],
             Together'
      PROVE  Goal
  <2>1. main' = "handleWait" /\ thread' = NewThread
    BY <1>b DEF Attempt, Enter
  <2>2. ThreadOK' /\ Early'
    BY <2>1 DEF ThreadOK, ThreadPlaces, NewThread, Early, BeforeLoop
  <2>. QED  BY <1>b, <2>1, <2>2 DEF SessionOK, Whole
<1>7. CASE AttemptEnds \/ Drained
  <2>1. /\ main' \in {"teardown", "backoff", "reauth"}
        /\ UNCHANGED session /\ thread' = NoThread
        /\ InAttempt
    BY <1>7 DEF AttemptEnds, Drained, Decisions, Enter, InAttempt
  <2>2. SessionOK' /\ ThreadOK' /\ Early'
    BY <2>1 DEF NoThread, SessionOK, ThreadOK, ThreadPlaces, Early
  <2>3. Whole'
    BY <2>1 DEF Whole, Together, InAttempt, Pins
  <2>. QED  BY <2>2, <2>3
<1>8. CASE SelectGateway
  BY <1>8, SelectableAreGateways
  DEF SelectGateway, Enter, SessionOK, Addresses, ThreadOK, Whole, InAttempt, Early, BeforeLoop
<1>9. CASE GatewayLogin
  BY <1>9 DEF GatewayLogin, AfterLogin, Enter, SessionOK, ThreadOK, Whole, InAttempt, Early, BeforeLoop
<1>10. CASE Bind
  BY <1>10 DEF Bind, EnterCleared, SessionOK, ThreadOK, Whole, InAttempt, Early, BeforeLoop
<1>11. CASE Metrics
  <2>1. CASE Enter("resolve") /\ SamePartners
    BY <1>11, <2>1 DEF Metrics, Enter, SamePartners, SessionOK, ThreadOK, Whole, InAttempt, Early, BeforeLoop
  <2>2. ASSUME NEW pin \in Pins(session.host), session' = [session EXCEPT !.pin = pin], Attempt PROVE Goal
    <3>1. session' \in [cookie : Addresses, host : Addresses, published : Addresses, pin : Addresses]
      BY <2>2 DEF SessionOK, Pins, Addresses
    <3>2. Together'
      BY <1>11, <2>2 DEF Metrics, Whole, Together, SessionOK, Pins
    <3>. QED  BY <1>b, <2>2, <3>1, <3>2
  <2>. QED  BY <1>11, <2>1, <2>2 DEF Metrics
<1>12. CASE PinGateway
  BY <1>12 DEF PinGateway, Attempt, Enter, Pins, NewThread, SessionOK, Addresses, ThreadOK,
               ThreadPlaces, Whole, Together, InAttempt, Early, BeforeLoop
<1>13. CASE Backoff
  <2>1. UNCHANGED session /\ Together
    BY <1>13 DEF Backoff, Whole
  <2>2. CASE Attempt
    BY <1>b, <2>1, <2>2 DEF SessionOK, Together, Pins
  <2>3. CASE Enter("teardown") /\ UNCHANGED thread
    BY <1>a, <2>1, <2>3 DEF Enter, Whole, InAttempt, Early, BeforeLoop
  <2>. QED  BY <1>13, <2>2, <2>3 DEF Backoff
<1>14. CASE Reauthenticated
  <2>1. PICK g \in Gateways : ReauthOk(g)
    BY <1>14, SelectableAreGateways DEF Reauthenticated
  <2>2. Together
    BY <1>14 DEF Reauthenticated, Whole
  <2>3. CASE g = session.host
    <3>1. Attempt /\ UNCHANGED session
      BY <2>1, <2>2, <2>3 DEF ReauthOk, SessionOK, Together
    <3>. QED  BY <1>b, <2>2, <3>1 DEF SessionOK, Together, Pins
  <2>4. CASE g # session.host
    BY <2>1, <2>4 DEF ReauthOk, Enter, SessionOK, Addresses, ThreadOK, Whole, InAttempt, Early, BeforeLoop
  <2>. QED  BY <2>3, <2>4
<1>15. CASE Refreshed
  BY <1>15 DEF Refreshed, Attempt, Enter, Pins, NewThread, SessionOK, Addresses, ThreadOK,
               ThreadPlaces, Whole, Together, InAttempt, Early, BeforeLoop
<1>. QED  BY <1>1, <1>2, <1>3, <1>4, <1>5, <1>6, <1>7, <1>8, <1>9, <1>10, <1>11, <1>12, <1>13, <1>14, <1>15 DEF MainSteps

\* The thread's steps leave the session to the main task.
LEMMA ThreadKeepsSession ==
    ASSUME ThreadSteps, Running, SettingsOK, WipedOK, ThreadOK, MainOK, SessionOK, Whole, Early
    PROVE  SettingsOK' /\ WipedOK' /\ ThreadOK' /\ MainOK' /\ SessionOK' /\ Whole' /\ Early'
<1>1. UNCHANGED <<main, session, config>>
  BY DEF ThreadSteps, Create, SetupTun, ResolveForRoutes, ApplyRoutes, ApplyDns, ApplyDnsFails,
         SetupFails, MainloopReturns, RevertDns, RevertRoutes, Recover, TornDown, Panics,
         ThreadEnters, ThreadClears, ThreadFails, ReadyQuietly, Moved
<1>2. WipedOK'
  BY DEF ThreadSteps, Create, SetupTun, ResolveForRoutes, ApplyRoutes, ApplyDns, ApplyDnsFails,
         SetupFails, MainloopReturns, RevertDns, RevertRoutes, Recover, TornDown, Panics,
         ThreadEnters, ThreadClears, ThreadFails, ReadyQuietly, Moved, WipedOK, Actors
<1>3. ThreadOK'
  BY DEF ThreadSteps, Create, SetupTun, ResolveForRoutes, ApplyRoutes, ApplyDns, ApplyDnsFails,
         SetupFails, MainloopReturns, FirstReverts, RevertDns, RevertRoutes, Recover, TornDown, Panics,
         ThreadEnters, ThreadClears, ThreadFails, ReadyQuietly, Ready, Ended, ThreadOK, ThreadPlaces
<1>4. thread.at # "none"
  BY DEF ThreadSteps, Create, SetupTun, ResolveForRoutes, ApplyRoutes, ApplyDns, ApplyDnsFails,
         SetupFails, MainloopReturns, RevertDns, RevertRoutes, Recover, TornDown, Panics
<1>5. main \notin BeforeLoop
  BY <1>4 DEF Early, NoThread
<1>. QED
  BY <1>1, <1>2, <1>3, <1>5
  DEF SettingsOK, MainOK, SessionOK, Whole, Together, InAttempt, Early

-----------------------------------------------------------------------------
(* The adapters. *)

\* The removal thread may still take these, itself or by what it abandoned.
Doomed == sweep.snapshot \cup ({sweep.target} \ {"none"}) \cup removers

\* Before the loop this run has no adapter, and before the snapshot there is
\* nothing to be removed.
Beforehand ==
    /\ main \in BeforeLoop => "own" \notin adapters /\ inUse.own = {}
    /\ main \in BeforeLoop \ {"bind", "metrics", "resolve"} => sweep.at = "idle"

\* What may be removed is not this run's, and nobody's once the thread has
\* looked, unless a newcomer took it since.
Apart ==
    /\ "own" \notin Doomed
    /\ inUse.own \subseteq {"own"}
    /\ sweep.at \in {"idle", "look"} => removers = {}
    /\ sweep.at = "removing" <=> sweep.target # "none"
    /\ sweep.at \in {"next", "removing"} \/ removers # {} => newcomer \/ inUse.sibling = {}

WintunInv == WintunTypeOK /\ Beforehand /\ Apart

\* The sibling's steps.
LEMMA SiblingKeeps ==
    ASSUME WintunInv, SiblingSteps, UNCHANGED main
    PROVE  WintunInv'
<1>1. ASSUME NEW a \in AllAdapters, SiblingStarts(a) PROVE WintunInv'
  <2>1. a # "own" \/ "own" \in adapters \ inUse.own
    BY <1>1 DEF SiblingStarts
  <2>2. WintunTypeOK'
    BY <1>1 DEF WintunInv, WintunTypeOK, SiblingStarts, AllAdapters, Owned
  <2>3. Beforehand'
    BY <1>1, <2>1 DEF WintunInv, WintunTypeOK, Beforehand, SiblingStarts
  <2>4. Apart'
    BY <1>1 DEF WintunInv, WintunTypeOK, Apart, Doomed, SiblingStarts
  <2>. QED  BY <2>2, <2>3, <2>4 DEF WintunInv
<1>2. ASSUME NEW clean \in BOOLEAN, SiblingEnds(clean) PROVE WintunInv'
  <2>2. WintunTypeOK'
    BY <1>2 DEF WintunInv, WintunTypeOK, SiblingEnds
  <2>3. Beforehand'
    BY <1>2 DEF WintunInv, WintunTypeOK, Beforehand, SiblingEnds
  <2>4. Apart'
    BY <1>2 DEF WintunInv, WintunTypeOK, Apart, Doomed, SiblingEnds
  <2>. QED  BY <2>2, <2>3, <2>4 DEF WintunInv
<1>. QED  BY <1>1, <1>2 DEF SiblingSteps

\* What the removal of an adapter nobody uses takes from those in use.
LEMMA GoneSpares ==
    ASSUME WintunInv, NEW a \in Doomed, sweep.at = "removing" \/ removers # {}, Gone(a)
    PROVE  /\ inUse'.own = inUse.own
           /\ newcomer \/ inUse'.sibling = inUse.sibling
           /\ inUse' \in [{"own", "sibling"} -> SUBSET AllAdapters]
           /\ inUse'.sibling \subseteq inUse.sibling
<1>1. inUse \in [{"own", "sibling"} -> SUBSET AllAdapters]
  BY DEF WintunInv, WintunTypeOK
<1>2. a # "own" /\ inUse.own \subseteq {"own"}
  BY DEF WintunInv, Apart
<1>3. newcomer \/ inUse.sibling = {}
  BY DEF WintunInv, Apart
<1>4. inUse'.own = inUse.own \ {a} /\ inUse'.sibling = inUse.sibling \ {a}
  BY <1>1 DEF Gone
<1>5. inUse' \in [{"own", "sibling"} -> SUBSET AllAdapters]
  BY <1>1 DEF Gone
<1>. QED  BY <1>2, <1>3, <1>4, <1>5

\* The removal thread and what it abandoned spare the adapters in use.
LEMMA RemovalSpares ==
    ASSUME WintunInv, SweepSteps
    PROVE  inUse'.own = inUse.own /\ (newcomer \/ inUse'.sibling = inUse.sibling)
<1>1. ASSUME NEW a \in AllAdapters, RemoverActs(a)
      PROVE  inUse'.own = inUse.own /\ (newcomer \/ inUse'.sibling = inUse.sibling)
  <2>1. a \in Doomed /\ removers # {}
    BY <1>1 DEF RemoverActs, Doomed
  <2>. QED  BY <1>1, <2>1, GoneSpares DEF RemoverActs
<1>2. ASSUME RemoverExits
      PROVE  inUse'.own = inUse.own /\ (newcomer \/ inUse'.sibling = inUse.sibling)
  <2>1. sweep.target \in Doomed
    BY <1>2 DEF RemoverExits, WintunInv, Apart, Doomed
  <2>. QED  BY <1>2, <2>1, GoneSpares DEF RemoverExits
<1>. QED
  BY <1>1, <1>2 DEF SweepSteps, SweepLooks, SweepEnds, RemoverAbandoned, RemoveNext

\* The removal thread's steps.
LEMMA SweepKeeps ==
    ASSUME WintunInv, SweepSteps, UNCHANGED main
    PROVE  WintunInv'
<1>1. CASE SweepLooks
  <2>1. WintunTypeOK'
    BY <1>1 DEF SweepLooks, WintunInv, WintunTypeOK
  <2>2. Beforehand'
    BY <1>1 DEF SweepLooks, WintunInv, Beforehand
  <2>3. Apart'
    BY <1>1 DEF SweepLooks, OtherOpcRunning, SiblingRuns, WintunInv, WintunTypeOK, Apart, Doomed
  <2>. QED  BY <2>1, <2>2, <2>3 DEF WintunInv
<1>2. CASE SweepEnds
  <2>1. WintunTypeOK'
    BY <1>2 DEF SweepEnds, WintunInv, WintunTypeOK
  <2>2. Beforehand'
    BY <1>2 DEF SweepEnds, WintunInv, Beforehand
  <2>3. Apart'
    BY <1>2 DEF SweepEnds, WintunInv, WintunTypeOK, Apart, Doomed
  <2>. QED  BY <2>1, <2>2, <2>3 DEF WintunInv
<1>3. CASE RemoverExits
  <2>1. inUse' \in [{"own", "sibling"} -> SUBSET AllAdapters] /\ adapters' \subseteq adapters
        /\ inUse'.sibling \subseteq inUse.sibling
    BY <1>3 DEF RemoverExits, Gone, WintunInv, WintunTypeOK
  <2>2. inUse'.own = inUse.own
    BY RemovalSpares
  <2>3. WintunTypeOK'
    BY <1>3, <2>1 DEF RemoverExits, WintunInv, WintunTypeOK
  <2>4. Beforehand'
    BY <1>3, <2>1, <2>2 DEF RemoverExits, WintunInv, Beforehand
  <2>5. Apart'
    BY <1>3, <2>1, <2>2 DEF RemoverExits, WintunInv, WintunTypeOK, Apart, Doomed
  <2>. QED  BY <2>3, <2>4, <2>5 DEF WintunInv
<1>4. CASE RemoverAbandoned
  <2>3. WintunTypeOK'
    BY <1>4 DEF RemoverAbandoned, WintunInv, WintunTypeOK, Apart
  <2>4. Beforehand'
    BY <1>4 DEF RemoverAbandoned, WintunInv, Beforehand
  <2>5. Apart'
    BY <1>4 DEF RemoverAbandoned, WintunInv, WintunTypeOK, Apart, Doomed
  <2>. QED  BY <2>3, <2>4, <2>5 DEF WintunInv
<1>5. ASSUME NEW a \in AllAdapters, RemoveNext(a) PROVE WintunInv'
  <2>3. WintunTypeOK'
    BY <1>5 DEF RemoveNext, WintunInv, WintunTypeOK
  <2>4. Beforehand'
    BY <1>5 DEF RemoveNext, WintunInv, Beforehand
  <2>5. Apart'
    BY <1>5, StrayAssumption DEF RemoveNext, WintunInv, WintunTypeOK, AllAdapters, Owned, Apart, Doomed
  <2>. QED  BY <2>3, <2>4, <2>5 DEF WintunInv
<1>6. ASSUME NEW a \in AllAdapters, RemoverActs(a) PROVE WintunInv'
  <2>1. inUse' \in [{"own", "sibling"} -> SUBSET AllAdapters] /\ adapters' \subseteq adapters
        /\ inUse'.sibling \subseteq inUse.sibling
    BY <1>6 DEF RemoverActs, Gone, WintunInv, WintunTypeOK
  <2>2. inUse'.own = inUse.own
    BY RemovalSpares
  <2>3. WintunTypeOK'
    BY <1>6, <2>1 DEF RemoverActs, WintunInv, WintunTypeOK
  <2>4. Beforehand'
    BY <1>6, <2>1, <2>2 DEF RemoverActs, WintunInv, Beforehand
  <2>5. Apart'
    BY <1>6, <2>1, <2>2 DEF RemoverActs, WintunInv, Apart, Doomed
  <2>. QED  BY <2>3, <2>4, <2>5 DEF WintunInv
<1>. QED  BY <1>1, <1>2, <1>3, <1>4, <1>5, <1>6 DEF SweepSteps

\* The thread makes and drops the adapter of this run.
LEMMA ThreadKeepsAdapters ==
    ASSUME WintunInv, ThreadSteps, UNCHANGED main, main \notin BeforeLoop
    PROVE  WintunInv'
<1>1. CASE CreateOwn
  BY <1>1 DEF CreateOwn, WintunInv, WintunTypeOK, AllAdapters, Owned, Beforehand, Apart, Doomed
<1>2. CASE DropOwn
  BY <1>2 DEF DropOwn, WintunInv, WintunTypeOK, Beforehand, Apart, Doomed
<1>3. CASE NoAdapters
  BY <1>3 DEF NoAdapters, wintunVars, WintunInv, WintunTypeOK, Beforehand, Apart, Doomed
<1>. QED
  BY <1>1, <1>2, <1>3
  DEF ThreadSteps, Create, SetupTun, ResolveForRoutes, ApplyRoutes, ApplyDns, ApplyDnsFails,
      SetupFails, MainloopReturns, RevertDns, RevertRoutes, Recover, TornDown, Panics,
      ThreadFails, AdapterGoes

\* The main task takes the snapshot while there is no tunnel, and leaves the
\* adapters alone otherwise; it never comes back to where there is none.
LEMMA MainKeepsAdapters ==
    ASSUME WintunInv, MainSteps
    PROVE  WintunInv'
<1>1. CASE EnumerateAdapters
  <2>1. PICK seen \in SUBSET adapters :
          sweep' = [at |-> IF seen = {} THEN "over" ELSE "look", snapshot |-> seen, target |-> "none"]
    BY <1>1 DEF EnumerateAdapters, TakeSnapshot
  <2>2. main = "adapters" /\ main' = "bind" /\ UNCHANGED <<adapters, inUse, removers, newcomer>>
    BY <1>1 DEF EnumerateAdapters, TakeSnapshot, Enter
  <2>3. "own" \notin adapters /\ sweep.at = "idle" /\ removers = {}
    BY <2>2 DEF WintunInv, Beforehand, Apart, BeforeLoop
  <2>4. WintunTypeOK'
    BY <2>1, <2>2 DEF WintunInv, WintunTypeOK
  <2>5. Beforehand'
    BY <2>2 DEF WintunInv, Beforehand, BeforeLoop
  <2>6. Apart'
    BY <2>1, <2>2, <2>3 DEF WintunInv, Apart, Doomed
  <2>. QED  BY <2>4, <2>5, <2>6 DEF WintunInv
<1>2. CASE ~EnumerateAdapters
  <2>1. NoAdapters
    BY <1>2 DEF MainSteps, GivesUp, Begin, Swept, Prelogin, Drifts, SignedIn, PortalConfig,
         SelectGateway, GatewayLogin, ResolveOnly, Bind, Metrics, PinGateway, HandleComes, SetupDone,
         HipSubmitted, StopsAttempt, AttemptEnds, Drained, Wedged, Backoff, ReauthSso, ReauthFails,
         Reauthenticated, Refreshed, Teardown
  <2>2. main \notin BeforeLoop => main' \notin BeforeLoop
    BY DEF BeforeLoop, MainSteps, GivesUp, Begin, Swept, Prelogin, Drifts, SignedIn, PortalConfig,
         SelectGateway, GatewayLogin, ResolveOnly, EnumerateAdapters, Bind, Metrics, PinGateway,
         HandleComes, SetupDone, HipSubmitted, StopsAttempt, AttemptEnds, Drained, Decisions, Wedged,
         Backoff, ReauthSso, ReauthFails, Reauthenticated, ReauthOk, Refreshed, Teardown, Attempt,
         Enter, EnterCleared, EnterSso
  <2>3. main \in {"bind", "metrics", "resolve"} => main' \notin BeforeLoop \ {"bind", "metrics", "resolve"}
    BY DEF BeforeLoop, MainSteps, GivesUp, Begin, Swept, Prelogin, Drifts, SignedIn, PortalConfig,
         SelectGateway, GatewayLogin, ResolveOnly, EnumerateAdapters, Bind, Metrics, PinGateway,
         HandleComes, SetupDone, HipSubmitted, StopsAttempt, AttemptEnds, Drained, Decisions, Wedged,
         Backoff, ReauthSso, ReauthFails, Reauthenticated, ReauthOk, Refreshed, Teardown, Attempt,
         Enter, EnterCleared, EnterSso
  <2>4. Beforehand'
    BY <2>1, <2>2, <2>3 DEF WintunInv, Beforehand, NoAdapters, wintunVars
  <2>. QED
    BY <2>1, <2>4 DEF NoAdapters, wintunVars, WintunInv, WintunTypeOK, Apart, Doomed
<1>. QED  BY <1>1, <1>2

-----------------------------------------------------------------------------
(* The theorems. *)

FlowInv == SettingsOK /\ MainOK /\ SessionOK /\ ThreadOK /\ WipedOK /\ Whole /\ Early

IInv == FlowInv /\ PhaseOK /\ WintunInv

\* The invariant holds at the start,
LEMMA InitOK == Init => IInv
<1>. SUFFICES ASSUME Init PROVE IInv
  OBVIOUS
<1>1. SettingsOK
  BY OptionsAssumption DEF Init, SettingsOK
<1>2. MainOK /\ SessionOK /\ ThreadOK /\ WipedOK /\ Whole /\ Early
  BY DEF Init, MainOK, MainPlaces, SessionOK, Addresses, ThreadOK, ThreadPlaces, NoThread, WipedOK,
         Whole, InAttempt, Early
<1>3. PhaseOK
  BY StampsAreNames DEF Init, WatchInit, AutoPhase, PhaseOK, WatchTypeOK
<1>4. WintunInv
  <2>1. config.strays \subseteq Strays
    BY <1>1 DEF SettingsOK, Settings
  <2>2. PICK a \in SUBSET config.strays : inUse = [own |-> {}, sibling |-> a]
    BY DEF Init, WintunInit
  <2>3. /\ adapters = config.strays /\ removers = {} /\ newcomer = FALSE
        /\ sweep = [at |-> "idle", snapshot |-> {}, target |-> "none"] /\ main = "begin"
    BY DEF Init, WintunInit
  <2>4. WintunTypeOK
    <3>1. inUse \in [{"own", "sibling"} -> SUBSET AllAdapters]
      BY <2>1, <2>2 DEF AllAdapters
    <3>2. sweep \in [at : {"idle", "look", "next", "removing", "over"},
                    snapshot : SUBSET AllAdapters, target : AllAdapters \cup {"none"}]
      BY <2>3
    <3>. QED  BY <3>1, <3>2, <2>1, <2>3 DEF WintunTypeOK, AllAdapters
  <2>5. Beforehand /\ Apart
    BY <2>1, <2>2, <2>3, StrayAssumption DEF Beforehand, Apart, Doomed
  <2>. QED  BY <2>4, <2>5 DEF WintunInv
<1>. QED  BY <1>1, <1>2, <1>3, <1>4 DEF IInv, FlowInv

\* is kept by every step,
LEMMA StepKeeps == IInv /\ [Next]_vars => IInv'
<1>. SUFFICES ASSUME IInv, [Next]_vars PROVE IInv'
  OBVIOUS
<1>. USE DEF IInv
<1>0. PhaseOK'
  BY WatchStep
<1>a. ASSUME UNCHANGED flowVars, UNCHANGED wiped PROVE FlowInv'
  BY <1>a DEF flowVars, FlowInv, SettingsOK, MainOK, SessionOK, ThreadOK, WipedOK, Whole, Together,
              InAttempt, Pins, Early
<1>1. CASE MainSteps
  BY <1>0, <1>1, MainKeepsPlaces, MainKeepsRest, MainKeepsSession, MainKeepsAdapters DEF FlowInv
<1>2. CASE Running /\ ThreadSteps
  <2>1. FlowInv'
    BY <1>2, ThreadKeepsSession DEF FlowInv
  <2>2. UNCHANGED main
    BY <1>2 DEF ThreadSteps, Create, SetupTun, ResolveForRoutes, ApplyRoutes, ApplyDns, ApplyDnsFails,
         SetupFails, MainloopReturns, RevertDns, RevertRoutes, Recover, TornDown, Panics,
         ThreadEnters, ThreadClears, ThreadFails, ReadyQuietly
  <2>3. main \notin BeforeLoop
    <3>1. thread.at # "none"
      BY <1>2 DEF ThreadSteps, Create, SetupTun, ResolveForRoutes, ApplyRoutes, ApplyDns,
         ApplyDnsFails, SetupFails, MainloopReturns, RevertDns, RevertRoutes, Recover, TornDown, Panics
    <3>. QED  BY <3>1 DEF FlowInv, Early, NoThread
  <2>. QED  BY <1>0, <1>2, <2>1, <2>2, <2>3, ThreadKeepsAdapters
<1>3. CASE Elapses \/ Ticks
  <2>1. UNCHANGED <<flowVars, wiped, wintunVars>>
    BY <1>3 DEF Elapses, Ticks
  <2>2. WintunInv'
    BY <2>1 DEF flowVars, wintunVars, WintunInv, WintunTypeOK, Beforehand, Apart, Doomed
  <2>. QED  BY <1>0, <1>a, <2>1, <2>2
<1>4. CASE Removal
  BY <1>0, <1>a, <1>4, SweepKeeps DEF Removal, flowVars
<1>5. CASE Others
  <2>1. CASE SiblingSteps
    BY <1>0, <1>a, <1>5, <2>1, SiblingKeeps DEF Others, flowVars
  <2>2. CASE \E a \in AllAdapters : RemoverActs(a)
    BY <1>0, <1>a, <1>5, <2>2, SweepKeeps DEF Others, SweepSteps, flowVars
  <2>. QED  BY <1>5, <2>1, <2>2 DEF Others
<1>6. CASE UNCHANGED vars
  <2>1. WintunInv'
    BY <1>6 DEF vars, flowVars, wintunVars, WintunInv, WintunTypeOK, Beforehand, Apart, Doomed
  <2>. QED  BY <1>0, <1>a, <1>6, <2>1 DEF vars, flowVars
<1>. QED  BY <1>1, <1>2, <1>3, <1>4, <1>5, <1>6 DEF Next

\* and so holds always.
LEMMA Invariance == Spec => []IInv
BY InitOK, StepKeeps, PTL DEF Spec

(* Every variable keeps its type: the places of both threads, the settings, *)
(* whose cookie and pin they hold, the watchdog's cell and the adapters.     *)
THEOREM ConnectTyping == Spec => []TypeOK
<1>1. IInv => TypeOK
  <2>. SUFFICES ASSUME IInv PROVE TypeOK
    OBVIOUS
  <2>1. FlowTypeOK
    BY PlacesAre DEF IInv, FlowInv, SettingsOK, MainOK, SessionOK, Addresses, ThreadOK, WipedOK, FlowTypeOK
  <2>. QED  BY <2>1 DEF IInv, PhaseOK, WintunInv, TypeOK
<1>. QED  BY <1>1, Invariance, PTL

(* In every attempt, after any number of retries and re-authentications,    *)
(* the cookie, the status and the pin are those of the gateway it is for    *)
(* (connect and run_reauth of main.rs).                                      *)
THEOREM SessionIsWhole == Spec => []SessionBelongsTogether
<1>1. IInv => SessionBelongsTogether
  BY DEF IInv, FlowInv, Whole, Together, SessionBelongsTogether
<1>. QED  BY <1>1, Invariance, PTL

(* The removal of stray adapters (wintun_cleanup.rs), and any pnputil it    *)
(* abandoned, spares the adapter of this run and of every opc that was       *)
(* there when the thread looked.                                             *)
THEOREM AdaptersAreSpared == Spec => AdaptersInUseSpared
<1>1. IInv /\ [Next]_vars =>
        [Removal \/ (\E a \in AllAdapters : RemoverActs(a))
           => /\ inUse'.own = inUse.own
              /\ newcomer \/ inUse'.sibling = inUse.sibling]_vars
  <2>. SUFFICES ASSUME IInv, Removal \/ (\E a \in AllAdapters : RemoverActs(a))
                PROVE  /\ inUse'.own = inUse.own
                       /\ newcomer \/ inUse'.sibling = inUse.sibling
    OBVIOUS
  <2>1. SweepSteps
    BY DEF Removal, SweepSteps
  <2>. QED  BY <2>1, RemovalSpares DEF IInv
<1>. QED  BY <1>1, Invariance, PTL DEF Spec, AdaptersInUseSpared

-----------------------------------------------------------------------------
(* The wait for a person. *)

\* No step of the machine is noted, or the wait for the tunnel that was entered
\* when the session was over already.
NoStepNoted == phase.kind = "auto" => phase.name = "setup_tun_wait"

\* Whoever is sent to the browser finds the cell without a step of the machine:
\* before the loop as the wait is noted itself, later as a session that ends
\* expired has cleared the cell, and the main task has noted nothing but its
\* wait for the tunnel since.
Attended ==
    /\ main = "sso" /\ (config.mode = "paste" \/ config.os = "macos") => phase.kind = "human"
    /\ main \in {"reauth", "reauthSso"} => thread = NoThread /\ NoStepNoted
    /\ main \in {"handleWait", "setupWait", "steady"} /\ thread.at = "ended" /\ thread.result = "expired"
         => NoStepNoted

\* The main task's steps keep that.
LEMMA MainAttends ==
    ASSUME MainSteps, SettingsOK, Attended, Early
    PROVE  Attended'
<1>1. CASE Attempt
  BY <1>1 DEF Attempt, Enter, NewThread, Attended
<1>2. CASE GivesUp \/ Begin \/ Swept \/ SignedIn \/ PortalConfig \/ SelectGateway
  BY <1>2 DEF GivesUp, Begin, Swept, SignedIn, PortalConfig, SelectGateway, Enter, Attended
<1>3. CASE GatewayLogin \/ ResolveOnly \/ EnumerateAdapters
  BY <1>3 DEF GatewayLogin, ResolveOnly, EnumerateAdapters, AfterLogin, Enter, Attended
<1>4. CASE Bind \/ HipSubmitted \/ Teardown \/ Wedged \/ StopsAttempt \/ ReauthFails
  BY <1>4 DEF Bind, HipSubmitted, Teardown, Wedged, StopsAttempt, ReauthFails, Enter, EnterCleared,
              Clear, NoPhase, Attended, NoStepNoted
<1>5. CASE Prelogin \/ Drifts
  BY <1>5 DEF Prelogin, Drifts, Enter, EnterSso, SsoPhase, Moved, Note, HumanBound, Attended
<1>6. CASE HandleComes
  <2>1. main' = "setupWait" /\ phase' = AutoPhase("setup_tun_wait") /\ UNCHANGED thread
    BY <1>6 DEF HandleComes, Enter, Note, MainStamps, SamePartners
  <2>. QED  BY <2>1 DEF AutoPhase, Attended, NoStepNoted
<1>7. CASE SetupDone
  BY <1>7 DEF SetupDone, Enter, EnterCleared, Clear, NoPhase, Attended, NoStepNoted
<1>8. CASE AttemptEnds
  <2>1. PICK next \in Decisions(thread.result) : Enter(next)
    BY <1>8 DEF AttemptEnds
  <2>2. main' = next /\ thread' = NoThread
    BY <1>8, <2>1 DEF AttemptEnds, Enter
  <2>3. CASE next = "reauth"
    <3>1. thread.result = "expired" /\ NoStepNoted
      BY <1>8, <2>3 DEF AttemptEnds, Decisions, Attended
    <3>2. phase' = phase
      BY <2>1, <2>3 DEF Enter, Note, MainStamps
    <3>. QED  BY <2>2, <2>3, <3>1, <3>2 DEF Attended, NoStepNoted
  <2>4. CASE next # "reauth"
    BY <2>2, <2>4 DEF Decisions, Attended
  <2>. QED  BY <2>3, <2>4
<1>9. CASE Drained
  BY <1>9 DEF Drained, Decisions, Enter, Attended
<1>10. CASE Backoff \/ PinGateway \/ Refreshed \/ Metrics
  BY <1>1, <1>10 DEF Backoff, PinGateway, Refreshed, Metrics, Enter, Attended
<1>11. CASE ReauthSso
  BY <1>11 DEF ReauthSso, EnterSso, SsoPhase, SamePartners, Note, HumanBound, Attended, NoStepNoted
<1>12. CASE Reauthenticated
  BY <1>1, <1>12 DEF Reauthenticated, ReauthOk, Enter, Attended
<1>. QED
  BY <1>1, <1>2, <1>3, <1>4, <1>5, <1>6, <1>7, <1>8, <1>9, <1>10, <1>11, <1>12 DEF MainSteps

\* So do the thread's: no tunnel is there while a person signs in, and the one
\* step that ends an expired session clears the cell.
LEMMA ThreadAttends ==
    ASSUME ThreadSteps, ThreadOK, Attended, Early
    PROVE  Attended'
<1>1. UNCHANGED <<main, config>> /\ thread.at # "none"
  BY DEF ThreadSteps, Create, SetupTun, ResolveForRoutes, ApplyRoutes, ApplyDns, ApplyDnsFails,
         SetupFails, MainloopReturns, RevertDns, RevertRoutes, Recover, TornDown, Panics,
         ThreadEnters, ThreadClears, ThreadFails, ReadyQuietly, Moved
<1>2. main \notin {"sso", "reauth", "reauthSso"}
  BY <1>1 DEF Early, BeforeLoop, NoThread, Attended
<1>3. ASSUME thread'.at # "ended" PROVE Attended'
  BY <1>1, <1>2, <1>3 DEF Attended
<1>4. ASSUME thread'.result # "expired" PROVE Attended'
  BY <1>1, <1>2, <1>4 DEF Attended
<1>5. ASSUME phase' = NoPhase PROVE Attended'
  BY <1>1, <1>2, <1>5 DEF Attended, NoStepNoted, NoPhase
<1>6. ASSUME NEW place, place # "ended", ThreadEnters(place) PROVE Attended'
  BY <1>3, <1>6 DEF ThreadEnters, ThreadOK
<1>7. CASE Create \/ ResolveForRoutes \/ RevertDns \/ Recover
  BY <1>6, <1>7 DEF Create, ResolveForRoutes, RevertDns, Recover
<1>8. CASE SetupTun \/ ApplyRoutes
  BY <1>3, <1>6, <1>8 DEF SetupTun, ApplyRoutes, ReadyQuietly, Ready, ThreadOK
<1>9. CASE ApplyDns \/ ApplyDnsFails \/ TornDown
  BY <1>5, <1>9 DEF ApplyDns, ApplyDnsFails, TornDown, ThreadClears, Clear
<1>10. CASE SetupFails \/ Panics
  BY <1>4, <1>10 DEF SetupFails, Panics, ThreadFails, Ended, ThreadOK
<1>11. CASE MainloopReturns
  BY <1>3, <1>11 DEF MainloopReturns, FirstReverts, ThreadOK
<1>12. CASE RevertRoutes
  BY <1>3, <1>6, <1>12 DEF RevertRoutes, ThreadOK
<1>. QED  BY <1>7, <1>8, <1>9, <1>10, <1>11, <1>12 DEF ThreadSteps

\* And every other step.
LEMMA StepAttends ==
    ASSUME SettingsOK, ThreadOK, Early, Attended, [Next]_vars
    PROVE  Attended'
<1>1. CASE MainSteps
  BY <1>1, MainAttends
<1>2. CASE Running /\ ThreadSteps
  BY <1>2, ThreadAttends
<1>3. CASE Elapses
  BY <1>3 DEF Elapses, Overdue, flowVars, Attended, NoStepNoted
<1>4. CASE UNCHANGED <<main, thread, config, phase>>
  BY <1>4 DEF Attended, NoStepNoted
<1>. QED
  BY <1>1, <1>2, <1>3, <1>4 DEF Next, Ticks, Tick, Removal, Others, vars, flowVars, watchVars

\* Only a tick of the watchdog reports.
LEMMA TicksReport ==
    ASSUME [Next]_vars, Report
    PROVE  Ticks
<1>1. ~MainSteps
  BY MainNotes DEF Report, Enter, EnterCleared, EnterSso, Moved, Attempt
<1>2. ~ThreadSteps
  BY DEF Report, ThreadSteps, Create, SetupTun, ResolveForRoutes, ApplyRoutes, ApplyDns, ApplyDnsFails,
         SetupFails, MainloopReturns, RevertDns, RevertRoutes, Recover, TornDown, Panics,
         ThreadEnters, ThreadClears, ThreadFails, ReadyQuietly, Moved
<1>. QED
  BY <1>1, <1>2 DEF Report, Next, Elapses, Overdue, Removal, Others, vars, watchVars

(* While somebody is at the browser and the code says so, or nothing stands  *)
(* in the cell, the watchdog reports nothing (PhaseKind::HumanBound,         *)
(* run_reauth), for any settings and through any number of sessions.         *)
THEOREM PeopleAreSpared == Spec => PeopleAreLeftAlone
<1>1. Init => Attended
  BY DEF Init, Attended
<1>2. IInv /\ Attended /\ [Next]_vars => Attended'
  BY StepAttends DEF IInv, FlowInv
<1>3. Attended /\ [Next]_vars => [Report => ~AtBrowser]_vars
  <2>. SUFFICES ASSUME Attended, [Next]_vars, Report, AtBrowser PROVE FALSE
    OBVIOUS
  <2>1. phase.kind = "auto"
    BY TicksReport DEF Ticks, Tick, LatchAfterTick, Reports, Report
  <2>. QED  BY <2>1 DEF Attended, NoStepNoted, AtBrowser
<1>. QED  BY <1>1, <1>2, <1>3, Invariance, PTL DEF Spec, PeopleAreLeftAlone

=============================================================================
