----------------------------- MODULE AuthProofs -----------------------------
(***************************************************************************)
(* Theorems about the two ways to log in: Login, the paste flow with the   *)
(* portal and gateway login around it, and ScriptedLogin, a flow that a    *)
(* script walks through.  For any listeners, flows, lines and bounds.      *)
(***************************************************************************)
EXTENDS Login, ScriptedLogin, WellFoundedInduction, SequenceTheorems, TLAPS

-----------------------------------------------------------------------------
(* Login.                                                                  *)

MainAts == {"prelogin", "guard", "publish", "quiet", "bind", "spawn", "ack", "wait", "recv",
            "stop", "join", "cancel", "await", "drop", "swap", "free", "unhook", "returned",
            "portal", "login", "ask", "prompt", "up", "failed", "closed"}
MainRecords == [at : MainAts, flow : 0 .. MaxFlows, ok : BOOLEAN, handle : BOOLEAN,
                issued : BOOLEAN, graceOver : BOOLEAN, challenges : 0 .. MaxMfaAttempts]
TtyRecords == [echo : BOOLEAN, handlers : {"default", "ours"},
               saved : {"none", "live", "swapped", "freed"}, active : BOOLEAN]
SigRecords == [at : {"idle", "loaded", "restored", "exited"}, flow : 0 .. MaxFlows,
               box : {"none", "live"}, sound : BOOLEAN]
ReaderAts == {"none", "poll", "read", "locking", "check", "arming", "reading", "aborted", "done"}
ReaderRecords == [at : ReaderAts, acked : {"no", "none", "handle"}, frozen : BOOLEAN, after : Nat]
HttpAts == {"none", "bound", "accept", "serve", "done"}

\* The guard is made, or undone; the flow works between; the flow is left.
Making == {"guard", "publish", "quiet"}
Middle == {"bind", "spawn", "ack", "wait", "recv", "stop", "join", "cancel", "await", "drop"}
Undoing == {"swap", "free", "unhook"}
After == {"portal", "login", "ask", "prompt", "up"}
Left == After \cup {"prelogin", "returned", "failed", "closed"}

\* What is true of where the main thread is.
MainOK(m) ==
  /\ m.at \in Making \cup Middle \cup Undoing \cup After \cup {"returned"} => m.flow > 0
  /\ m.at = "prelogin" => m.flow < MaxFlows
  /\ m.at \in {"login", "ask", "prompt"} => m.challenges < MaxMfaAttempts

\* No line is read twice.
LinesOK ==
  /\ typed \in 0 .. MaxLines /\ lost \in Nat /\ input \in Seq(Lines)
  /\ lost + Len(input) <= typed

\* Where no worker of a flow is left: before the flow starts one, once it has
\* stopped them, and after a flow that found its capture.
Still(m) == \/ m.at \in Making \cup After \cup {"prelogin", "bind", "cancel", "await"}
            \/ m.ok /\ m.at \in Undoing \cup {"drop", "returned"}

WorkersOK(m, hs, rs) ==
  /\ Still(m) => \A l \in Listeners : hs[l] \in {"none", "done"}
  /\ os = "unix" => \A f \in Flows :
        /\ rs[f].at \in {"none", "poll", "read", "done"}
        /\ f # m.flow \/ Still(m) => rs[f].at \in {"none", "done"}

\* What the guard has done when the main thread is here.
Off(t) == t.handlers = "default" /\ t.saved \in {"none", "freed"} /\ ~t.active
On(t) == t.handlers = "ours" /\ t.saved = "live" /\ t.active
GuardOK(m, t) ==
  /\ m.at \in Left \cup {"guard"} => Off(t)
  /\ m.at = "publish" => ~t.active /\ t.handlers = "ours" /\ t.saved \in {"none", "freed"}
  /\ m.at = "quiet" => ~t.active /\ t.handlers = "ours" /\ t.saved = "live"
  /\ m.at \in Middle => Off(t) \/ On(t)
  /\ m.at = "swap" => On(t)
  /\ m.at = "free" => t.active /\ t.handlers = "ours" /\ t.saved = "swapped"
  /\ m.at = "unhook" => t.active /\ t.handlers = "ours" /\ t.saved = "freed"

\* What a handler that runs beside the flow may rely on while it is sound: it
\* loaded the pointer of a guard that had turned the echo off.
SignalOK(m, t, s) ==
  /\ s.at = "idle" => s.sound /\ (t.echo \/ (t.active /\ m.at \in Middle))
  /\ s.at \in {"loaded", "restored"} => s.flow > 0 /\ s.flow <= m.flow
  /\ s.at \in {"loaded", "restored"} /\ s.sound /\ s.flow = m.flow =>
        m.at \notin Making /\ (t.echo \/ (t.active /\ m.at \in Middle))
  /\ s.at = "loaded" /\ s.sound => s.box = "live"
  /\ s.at = "restored" /\ s.sound /\ s.flow = m.flow => t.echo
  /\ s.at = "exited" /\ s.sound => t.echo

\* A reader of a flow that has stopped its workers knows it, and takes at most
\* the line it was waiting for.
Past == Undoing \cup Left \cup {"join", "cancel", "await", "drop"}
ReadersOK(m, rs, st) ==
  \A f \in Flows :
    /\ rs[f].at # "none" => f <= m.flow
    /\ f = m.flow /\ m.at \in Making \cup {"bind", "spawn"} => rs[f].at = "none"
    /\ rs[f].at # "none" /\ (f # m.flow \/ m.at \in Past) => st[f]
    /\ rs[f].after <= 1
    /\ rs[f].after = 1 => rs[f].at \in {"check", "done"} /\ st[f]

CaptureTypes ==
  /\ os \in {"unix", "windows"} /\ main \in MainRecords /\ tty \in TtyRecords /\ sig \in SigRecords
  /\ http \in [Listeners -> HttpAts] /\ readers \in [Flows -> ReaderRecords]
  /\ stop \in [Flows -> BOOLEAN] /\ chan \in Nat /\ late \in BOOLEAN /\ eof \in BOOLEAN

CaptureInv ==
  /\ CaptureTypes /\ LinesOK /\ MainOK(main)
  /\ WorkersOK(main, http, readers) /\ GuardOK(main, tty) /\ SignalOK(main, tty, sig)
  /\ ReadersOK(main, readers, stop)

-----------------------------------------------------------------------------
(* Where the main thread goes. *)

\* Without the guard: the flow, and the login around it.
Walks(m, n) ==
  \/ n.at = m.at /\ n.flow = m.flow /\ n.ok = m.ok
  \/ n.flow = m.flow + 1 /\ m.at = "prelogin" /\ n.at \in {"guard", "bind"}
  \/ /\ n.flow = m.flow
     /\ \/ m.at = "guard" /\ n.at = "bind"
        \/ m.at \in {"bind", "spawn"} /\ n.at = "drop" /\ ~n.ok
        \/ m.at = "bind" /\ n.at = "spawn"
        \/ m.at = "spawn" /\ n.at \in {"ack", "wait"}
        \/ m.at \in {"ack", "wait", "recv"} /\ n.at \in {"wait", "recv", "stop"}
        \/ m.at \in {"cancel", "await"} /\ n.at \in {"cancel", "await", "drop"}
        \/ m.at = "returned" /\ m.ok /\ n.at = "portal"
        \/ m.at \in After /\ n.at \in After \cup {"prelogin"}
        \/ m.at \in Left /\ n.at \in {"failed", "closed"}
Stops(m, n) == n.flow = m.flow /\ m.at = "stop" /\ n.at = "join"
Joins(m, n) == n.flow = m.flow /\ m.at = "join" /\ n.at \in {"cancel", "drop"}
\* With it.
Guards(m, n) ==
  /\ n.flow = m.flow /\ n.ok = m.ok
  /\ \/ m.at = "guard" /\ n.at = "publish"
     \/ m.at = "publish" /\ n.at = "quiet"
     \/ m.at = "quiet" /\ n.at = "bind"
     \/ m.at \in Undoing \cup {"drop"} /\ n.at \in Undoing \cup {"returned"}

LEMMA MovesFields ==
  ASSUME main \in MainRecords, NEW there \in MainAts
  PROVE  /\ GoTo(there) => /\ main' \in MainRecords /\ main'.at = there /\ main'.flow = main.flow
                           /\ main'.ok = main.ok /\ main'.challenges = main.challenges
         /\ \A result \in BOOLEAN : EndWith(result, there) =>
              /\ main' \in MainRecords /\ main'.at = there /\ main'.flow = main.flow
              /\ main'.ok = result /\ main'.challenges = main.challenges
BY DEF MainRecords, GoTo, EndWith

LEMMA WorkersWalk ==
  ASSUME NEW m \in MainRecords, NEW n \in MainRecords, NEW hs, NEW rs, WorkersOK(m, hs, rs),
         Walks(m, n) \/ Stops(m, n) \/ Guards(m, n)
  PROVE  WorkersOK(n, hs, rs)
<1>1. Still(n) => Still(m)
  BY DEF Still, Walks, Stops, Guards, Making, Undoing, Middle, After, Left, MainRecords
<1>2. n.flow = m.flow \/ Still(m)
  BY DEF Still, Walks, Stops, Guards
<1>3. QED BY <1>1, <1>2 DEF WorkersOK

LEMMA GuardWalk ==
  ASSUME NEW m \in MainRecords, NEW n \in MainRecords, NEW t, GuardOK(m, t),
         Walks(m, n) \/ Stops(m, n) \/ Joins(m, n)
  PROVE  GuardOK(n, t)
BY DEF GuardOK, Walks, Stops, Joins, Making, Undoing, Middle, After, Left

LEMMA SignalWalk ==
  ASSUME NEW m \in MainRecords, NEW n \in MainRecords, NEW t \in TtyRecords,
         NEW s \in SigRecords, GuardOK(m, t),
         SignalOK(m, t, s), Walks(m, n) \/ Stops(m, n) \/ Joins(m, n)
  PROVE  SignalOK(n, t, s)
<1>0. m.flow \in Nat /\ n.flow \in Nat
  BY CaptureAssumption DEF MainRecords
<1>1. n.flow = m.flow =>
        /\ n.at \in Making => m.at \in Making
        /\ m.at \in Middle => n.at \in Middle
        /\ n.at \in Middle => m.at \in Middle \cup {"guard"}
  BY <1>0 DEF Walks, Stops, Joins, Making, Undoing, Middle, After, Left
<1>2. n.flow # m.flow => n.flow = m.flow + 1 /\ m.at = "prelogin"
  BY DEF Walks, Stops, Joins
<1>3. s.flow \in Nat
  BY CaptureAssumption DEF SigRecords
<1>4. CASE n.flow = m.flow
  BY <1>0, <1>1, <1>3, <1>4 DEF SignalOK, Making, Middle
<1>5. CASE n.flow = m.flow + 1 /\ m.at = "prelogin"
  BY <1>0, <1>3, <1>5 DEF SignalOK, Making, Middle
<1>6. QED BY <1>2, <1>4, <1>5

LEMMA ReadersWalk ==
  ASSUME NEW m \in MainRecords, NEW n \in MainRecords, NEW rs, NEW st, ReadersOK(m, rs, st),
         Walks(m, n) \/ Joins(m, n) \/ Guards(m, n)
  PROVE  ReadersOK(n, rs, st)
<1>0. m.flow \in Nat /\ n.flow \in Nat
  BY CaptureAssumption DEF MainRecords
<1>1. n.flow = m.flow =>
        /\ n.at \in Making \cup {"bind", "spawn"} => m.at \in Making \cup {"bind", "spawn"}
        /\ n.at \in Past => m.at \in Past \cup {"bind", "spawn"}
  BY <1>0 DEF Walks, Joins, Guards, Making, Undoing, Middle, After, Left, Past
<1>2. n.flow # m.flow => n.flow = m.flow + 1 /\ m.at = "prelogin"
  BY DEF Walks, Joins, Guards
<1>3. \A f \in Flows : f \in Nat
  BY CaptureAssumption DEF Flows
<1>4. QED BY <1>0, <1>1, <1>2, <1>3 DEF ReadersOK, Past, Left

-----------------------------------------------------------------------------
(* What is typed, and read. *)

\* The first callback of a chunk that has one is in the chunk.
LEMMA FirstIsThere ==
  ASSUME NEW chunk \in Seq(Lines), HasCallback(chunk)
  PROVE  FirstCallback(chunk) \in 1 .. Len(chunk)
<1> DEFINE hits == {i \in 1 .. Len(chunk) : chunk[i] = "callback"}
<1>1. hits \in SUBSET Nat /\ hits # {}
  BY DEF HasCallback
<1>2. PICK i \in hits : \A j \in hits : i <= j
  <2>1. PICK i \in hits : \A j \in hits : ~(<<j, i>> \in OpToRel(<, Nat))
    BY <1>1, WFMin, NatLessThanWellFounded, Zenon
  <2>2. \A j \in hits : ~(j < i)
    BY <1>1, <2>1, Zenon DEF OpToRel
  <2>3. i \in Nat /\ hits \subseteq Nat
    BY <1>1, <2>1
  <2> HIDE DEF hits
  <2>4. \A j \in hits : i <= j
    BY <2>2, <2>3
  <2>5. QED BY <2>1, <2>4
<1>3. i \in 1 .. Len(chunk) /\ chunk[i] = "callback" /\ \A j \in 1 .. i - 1 : chunk[j] # "callback"
  BY <1>2
<1>4. QED BY <1>3 DEF FirstCallback

LEMMA LinesTaken ==
  ASSUME LinesOK, NEW n \in 1 .. Len(input)
  PROVE  /\ SubSeq(input, 1, n) \in Seq(Lines) /\ Len(SubSeq(input, 1, n)) = n
         /\ SubSeq(input, n + 1, Len(input)) \in Seq(Lines)
         /\ Len(SubSeq(input, n + 1, Len(input))) = Len(input) - n
BY SubSeqProperties DEF LinesOK

-----------------------------------------------------------------------------
(* Steps of the main thread that leave the workers and the guard alone. *)

LEMMA MainGoes ==
  ASSUME CaptureInv, main' \in MainRecords, MainOK(main'), Walks(main, main'),
         UNCHANGED <<os, tty, sig, http, readers, stop>>,
         chan' \in Nat, late' \in BOOLEAN, eof' \in BOOLEAN, LinesOK'
  PROVE  CaptureInv'
<1>1. main \in MainRecords /\ tty \in TtyRecords /\ sig \in SigRecords
  BY DEF CaptureInv, CaptureTypes
<1>2. /\ WorkersOK(main, http, readers) /\ GuardOK(main, tty) /\ SignalOK(main, tty, sig)
      /\ ReadersOK(main, readers, stop)
  BY DEF CaptureInv
<1>3. PICK n \in MainRecords : n = main'
  OBVIOUS
<1>4. /\ WorkersOK(n, http, readers) /\ GuardOK(n, tty) /\ SignalOK(n, tty, sig)
      /\ ReadersOK(n, readers, stop)
  BY <1>1, <1>2, <1>3, WorkersWalk, GuardWalk, SignalWalk, ReadersWalk
<1>5. WorkersOK(main, http, readers)'
  BY <1>3, <1>4 DEF WorkersOK
<1>6. /\ GuardOK(main, tty)' /\ SignalOK(main, tty, sig)' /\ ReadersOK(main, readers, stop)'
  BY <1>3, <1>4
<1>7. CaptureTypes'
  BY DEF CaptureInv, CaptureTypes
<1>8. QED BY <1>5, <1>6, <1>7 DEF CaptureInv

LEMMA CaptureNow ==
  ASSUME CaptureInv
  PROVE  /\ main \in MainRecords /\ MainOK(main) /\ chan \in Nat /\ late \in BOOLEAN
         /\ eof \in BOOLEAN /\ LinesOK
BY DEF CaptureInv, CaptureTypes

\* Where MainOK asks for nothing new.
LEMMA MainOKWalks ==
  ASSUME NEW m \in MainRecords, NEW n \in MainRecords, MainOK(m),
         n.flow = m.flow, n.challenges = m.challenges, Walks(m, n) \/ Stops(m, n) \/ Joins(m, n)
                                                       \/ Guards(m, n),
         n.at = "prelogin" => n.flow < MaxFlows,
         n.at \in {"login", "ask", "prompt"} => n.challenges < MaxMfaAttempts
  PROVE  MainOK(n)
<1>1. n.at \in Making \cup Middle \cup Undoing \cup After \cup {"returned"} =>
        m.at \in Making \cup Middle \cup Undoing \cup After \cup {"returned"}
  <2>0. m.flow \in Nat
    BY CaptureAssumption DEF MainRecords
  <2>1. QED BY <2>0 DEF Walks, Stops, Joins, Guards, Making, Middle, Undoing, After, Left
<1>2. QED BY <1>1 DEF MainOK

LEMMA LinesStay ==
  ASSUME CaptureInv, UNCHANGED termVars
  PROVE  LinesOK' /\ eof' \in BOOLEAN
BY CaptureNow DEF LinesOK, termVars

\* A step of the flow that only goes on.
LEMMA FlowGoes ==
  ASSUME CaptureInv, NEW here \in Middle \cup {"guard"}, NEW there \in Middle, NEW result \in BOOLEAN,
         main.at = here, GoTo(there) \/ EndWith(result, there),
         \/ here = "guard" /\ there = "bind"
         \/ here = "bind" /\ there = "drop" /\ EndWith(FALSE, there)
         \/ here \in {"ack", "wait", "recv"} /\ there \in {"wait", "recv", "stop"}
         \/ here \in {"cancel", "await"} /\ there \in {"cancel", "await", "drop"},
         UNCHANGED <<os, tty, sig, http, readers, stop, late, termVars>>, chan' \in Nat
  PROVE  CaptureInv'
<1>1. there \in MainAts
  BY DEF Middle, MainAts
<1>2. /\ main' \in MainRecords /\ main'.at = there /\ main'.flow = main.flow
      /\ main'.challenges = main.challenges
      /\ EndWith(FALSE, there) => main'.ok = FALSE
  <2>1. main \in MainRecords
    BY CaptureNow
  <2>2. QED BY <1>1, <2>1, MovesFields DEF EndWith, MainRecords
<1>3. Walks(main, main')
  BY <1>2 DEF Walks
<1>4. PICK n \in MainRecords : n = main'
  BY <1>2
<1>5. MainOK(n)
  BY <1>2, <1>3, <1>4, CaptureNow, MainOKWalks DEF Middle
<1>6. QED BY <1>2, <1>3, <1>4, <1>5, CaptureNow, LinesStay, MainGoes

LEMMA FlowWaits ==
  ASSUME CaptureInv,
         \/ GuardIsInert \/ CannotBind \/ AckTimesOut \/ WaitSlice \/ TakeCapture
         \/ ChannelCloses \/ SliceEnds \/ ReapReader \/ CancelAgain \/ AbandonReader
  PROVE  CaptureInv'
<1>0. chan \in Nat
  BY CaptureNow
<1>1. CASE GuardIsInert
  BY <1>0, <1>1, FlowGoes DEF GuardIsInert, At, Middle, flowVars
<1>2. CASE CannotBind
  BY <1>0, <1>2, FlowGoes DEF CannotBind, At, Middle, flowVars
<1>3. CASE AckTimesOut
  BY <1>0, <1>3, FlowGoes DEF AckTimesOut, At, Middle, flowVars
<1>4. CASE WaitSlice
  BY <1>0, <1>4, FlowGoes DEF WaitSlice, At, Middle, flowVars
<1>5. CASE TakeCapture
  <2>1. chan' \in Nat
    BY <1>0, <1>5 DEF TakeCapture
  <2>2. QED BY <1>5, <2>1, FlowGoes DEF TakeCapture, At, Middle, flowVars
<1>6. CASE ChannelCloses
  BY <1>0, <1>6, FlowGoes DEF ChannelCloses, At, Middle, flowVars
<1>7. CASE SliceEnds
  BY <1>0, <1>7, FlowGoes DEF SliceEnds, At, Middle, flowVars
<1>8. CASE ReapReader \/ CancelAgain \/ AbandonReader
  BY <1>0, <1>8, FlowGoes DEF ReapReader, CancelAgain, AbandonReader, At, Middle, flowVars
<1>9. QED BY <1>1, <1>2, <1>3, <1>4, <1>5, <1>6, <1>7, <1>8

\* A step that does not move the main thread.
LEMMA MainStays ==
  ASSUME CaptureInv, main' \in MainRecords, main'.at = main.at, main'.flow = main.flow,
         main'.ok = main.ok, main'.challenges = main.challenges,
         UNCHANGED <<os, tty, sig, http, readers, stop>>,
         chan' \in Nat, late' \in BOOLEAN, eof' \in BOOLEAN, LinesOK'
  PROVE  CaptureInv'
<1>1. PICK n \in MainRecords : n = main'
  OBVIOUS
<1>2. Walks(main, n) /\ MainOK(n)
  BY <1>1, CaptureNow DEF Walks, MainOK
<1>3. QED BY <1>1, <1>2, MainGoes

LEMMA TypedFits ==
  ASSUME CaptureInv, Type \/ HangUp
  PROVE  LinesOK' /\ eof' \in BOOLEAN
<1>1. LinesOK /\ eof \in BOOLEAN /\ MaxLines \in Nat
  BY CaptureNow, CaptureAssumption
<1>2. CASE Type
  <2>1. PICK line \in Lines : input' = Append(input, line)
    BY <1>2 DEF Type
  <2>2. input' \in Seq(Lines) /\ Len(input') = Len(input) + 1 /\ Len(input) \in Nat
    BY <1>1, <2>1, AppendProperties, LenProperties DEF LinesOK
  <2>3. typed < MaxLines /\ typed' = typed + 1 /\ lost' = lost /\ eof' = eof
    BY <1>2 DEF Type
  <2>4. QED BY <1>1, <2>2, <2>3 DEF LinesOK
<1>3. CASE HangUp
  BY <1>1, <1>3 DEF HangUp, LinesOK
<1>4. QED BY <1>2, <1>3

LEMMA OthersAct ==
  ASSUME CaptureInv, AckArrives \/ GracePasses \/ CapPasses \/ Type \/ HangUp
  PROVE  CaptureInv'
<1>0. /\ main \in MainRecords /\ MainOK(main) /\ chan \in Nat /\ late \in BOOLEAN
      /\ eof \in BOOLEAN /\ LinesOK
  BY CaptureNow
<1>1. CASE AckArrives
  <2>1. UNCHANGED <<os, tty, sig, http, readers, stop, chan, late, termVars>>
    BY <1>1 DEF AckArrives, flowVars
  <2>2. /\ main' \in MainRecords /\ main'.at = "wait" /\ main'.flow = main.flow
        /\ main'.challenges = main.challenges /\ main.at = "ack"
    <3> DEFINE handle == Reader.acked = "handle"
    <3>1. main' = [main EXCEPT !.at = "wait", !.handle = handle] /\ main.at = "ack"
      BY <1>1 DEF AckArrives, At
    <3>2. handle \in BOOLEAN
      OBVIOUS
    <3> HIDE DEF handle
    <3>3. QED BY <1>0, <3>1, <3>2 DEF MainRecords, MainAts
  <2>3. PICK n \in MainRecords : n = main'
    BY <2>2
  <2>4. Walks(main, n)
    BY <2>2, <2>3 DEF Walks
  <2>5. MainOK(n)
    BY <1>0, <2>2, <2>3, <2>4, MainOKWalks
  <2>6. QED BY <1>0, <2>1, <2>3, <2>4, <2>5, LinesStay, MainGoes
<1>2. CASE GracePasses
  <2>1. UNCHANGED <<os, tty, sig, http, readers, stop, chan, late, termVars>>
    BY <1>2 DEF GracePasses, flowVars
  <2>2. /\ main' \in MainRecords /\ main'.at = main.at /\ main'.flow = main.flow
        /\ main'.challenges = main.challenges /\ main'.ok = main.ok
    BY <1>0, <1>2 DEF GracePasses, MainRecords
  <2>3. QED BY <1>0, <2>1, <2>2, LinesStay, MainStays
<1>3. CASE CapPasses
  BY <1>0, <1>3, LinesStay, MainStays DEF CapPasses
<1>4. CASE Type \/ HangUp
  BY <1>0, <1>4, TypedFits, MainStays DEF Type, HangUp, flowVars
<1>5. QED BY <1>1, <1>2, <1>3, <1>4

-----------------------------------------------------------------------------
(* The login around the flow. *)

LEMMA LoginGoes ==
  ASSUME CaptureInv, NEW there \in After \cup {"prelogin", "failed", "closed"}, Proceed(there),
         \/ main.at = "returned" /\ main.ok /\ there = "portal"
         \/ main.at \in After /\ there \in After \cup {"prelogin"}
         \/ main.at \in Left /\ there \in {"failed", "closed"},
         there = "prelogin" => main.flow < MaxFlows,
         there \in {"login", "ask", "prompt"} => main.challenges < MaxMfaAttempts
  PROVE  CaptureInv'
<1>1. there \in MainAts
  BY DEF After, MainAts
<1>2. /\ main' \in MainRecords /\ main'.at = there /\ main'.flow = main.flow
      /\ main'.challenges = main.challenges
  BY <1>1, CaptureNow, MovesFields DEF Proceed
<1>3. PICK n \in MainRecords : n = main'
  BY <1>2
<1>4. Walks(main, n)
  BY <1>2, <1>3 DEF Walks
<1>5. MainOK(n)
  BY <1>2, <1>3, <1>4, CaptureNow, MainOKWalks
<1>6. UNCHANGED <<os, tty, sig, http, readers, stop, chan, late, termVars>>
  BY DEF Proceed, flowVars
<1>7. QED BY <1>3, <1>4, <1>5, <1>6, CaptureNow, LinesStay, MainGoes

LEMMA LoginFails ==
  ASSUME CaptureInv, main.at \in Left, Fail
  PROVE  CaptureInv'
BY LoginGoes DEF Fail, Proceed

LEMMA LoginActs ==
  ASSUME CaptureInv,
         \/ PreloginFails \/ FlowReturns \/ PortalFails \/ PortalAnswers
         \/ GatewayRejects \/ GatewayAccepts \/ GatewayChallenges
         \/ AskForCode \/ CodeTyped \/ CodeRefused \/ SessionExpires \/ SessionEnds
  PROVE  CaptureInv'
<1>0. /\ main \in MainRecords /\ MainOK(main) /\ chan \in Nat /\ late \in BOOLEAN
      /\ eof \in BOOLEAN /\ LinesOK
  BY CaptureNow
<1>1. CASE PreloginFails \/ PortalFails \/ GatewayRejects \/ CodeRefused
  BY <1>1, LoginFails DEF PreloginFails, PortalFails, GatewayRejects, CodeRefused, At, Left, After
<1>2. CASE FlowReturns
  <2>1. CASE main.ok
    BY <1>2, <2>1, LoginGoes DEF FlowReturns, At, After
  <2>2. CASE ~main.ok
    BY <1>2, <2>2, LoginFails DEF FlowReturns, At, Left
  <2>3. QED BY <2>1, <2>2
<1>3. CASE GatewayAccepts
  BY <1>3, LoginGoes DEF GatewayAccepts, At, After
<1>4. CASE AskForCode
  <2>1. main.challenges < MaxMfaAttempts /\ main.at = "ask" /\ Proceed("prompt")
    BY <1>0, <1>4 DEF AskForCode, At, MainOK
  <2>2. QED BY <2>1, LoginGoes DEF After
<1>5. CASE SessionExpires
  BY <1>5, LoginGoes DEF SessionExpires, At, After
<1>6. CASE SessionEnds
  BY <1>6, LoginGoes DEF SessionEnds, At, After, Left
<1>7. CASE PortalAnswers
  <2>1. /\ main' = [main EXCEPT !.at = "login", !.challenges = 0] /\ main.at = "portal"
        /\ UNCHANGED <<os, tty, sig, http, readers, stop, chan, late, termVars>>
    BY <1>7 DEF PortalAnswers, At, flowVars
  <2>2. 0 \in 0 .. MaxMfaAttempts /\ 0 < MaxMfaAttempts
    BY LoginAssumption
  <2>3. /\ main' \in MainRecords /\ main'.at = "login" /\ main'.flow = main.flow
        /\ main'.challenges = 0
    BY <1>0, <2>1, <2>2 DEF MainRecords, MainAts
  <2>4. Walks(main, main') /\ MainOK(main')
    BY <1>0, <2>1, <2>2, <2>3 DEF Walks, MainOK, After
  <2>5. QED BY <1>0, <2>1, <2>3, <2>4, LinesStay, MainGoes
<1>8. CASE GatewayChallenges
  <2> DEFINE challenges == main.challenges + 1
             there == IF Reauthenticating \/ challenges >= MaxMfaAttempts THEN "failed" ELSE "ask"
  <2>1. /\ main' = [main EXCEPT !.challenges = challenges, !.at = there] /\ main.at = "login"
        /\ UNCHANGED <<os, tty, sig, http, readers, stop, chan, late, termVars>>
    BY <1>8 DEF GatewayChallenges, At, flowVars
  <2>2. main.challenges < MaxMfaAttempts /\ main.challenges \in 0 .. MaxMfaAttempts
    BY <1>0, <2>1 DEF MainOK, MainRecords
  <2>3. /\ challenges \in 0 .. MaxMfaAttempts /\ there \in {"failed", "ask"}
        /\ there = "ask" => challenges < MaxMfaAttempts
    BY <2>2, LoginAssumption
  <2> HIDE DEF challenges, there
  <2>4. /\ main' \in MainRecords /\ main'.at = there /\ main'.flow = main.flow
        /\ main'.challenges = challenges
    BY <1>0, <2>1, <2>3 DEF MainRecords, MainAts
  <2>5. Walks(main, main')
    BY <2>1, <2>3, <2>4 DEF Walks, After, Left
  <2>6. MainOK(main')
    BY <1>0, <2>1, <2>3, <2>4 DEF MainOK, After, Left, Making, Middle, Undoing
  <2>7. QED BY <1>0, <2>1, <2>4, <2>5, <2>6, LinesStay, MainGoes
<1>9. CASE CodeTyped
  <2>1. /\ main.at = "prompt" /\ input # <<>> /\ input' = Tail(input) /\ GoTo("login")
        /\ UNCHANGED <<os, tty, sig, http, readers, stop, chan, late, typed, eof, lost>>
    BY <1>9 DEF CodeTyped, At, flowVars
  <2>2. input' \in Seq(Lines) /\ Len(input') = Len(input) - 1 /\ Len(input) \in Nat
    BY <1>0, <2>1, HeadTailProperties, LenProperties DEF LinesOK
  <2>3. LinesOK'
    BY <1>0, <2>1, <2>2, CaptureAssumption DEF LinesOK
  <2>4. /\ main' \in MainRecords /\ main'.at = "login" /\ main'.flow = main.flow
        /\ main'.challenges = main.challenges
    BY <1>0, <2>1, MovesFields DEF MainAts
  <2>5. Walks(main, main') /\ MainOK(main')
    BY <1>0, <2>1, <2>4 DEF Walks, MainOK, After
  <2>6. QED BY <1>0, <2>1, <2>3, <2>4, <2>5, MainGoes
<1>10. QED BY <1>1, <1>2, <1>3, <1>4, <1>5, <1>6, <1>7, <1>8, <1>9

-----------------------------------------------------------------------------
(* Steps that change the workers. *)

LEMMA WorkersGo ==
  ASSUME CaptureInv, NEW n \in MainRecords, main' = n, MainOK(n),
         Walks(main, n) \/ Stops(main, n) \/ Joins(main, n),
         UNCHANGED <<os, tty, sig>>, http' \in [Listeners -> HttpAts],
         readers' \in [Flows -> ReaderRecords], stop' \in [Flows -> BOOLEAN],
         chan' \in Nat, late' \in BOOLEAN, eof' \in BOOLEAN, LinesOK',
         WorkersOK(n, http', readers'), ReadersOK(n, readers', stop')
  PROVE  CaptureInv'
<1>1. main \in MainRecords /\ tty \in TtyRecords /\ sig \in SigRecords
  BY DEF CaptureInv, CaptureTypes
<1>2. GuardOK(main, tty) /\ SignalOK(main, tty, sig)
  BY DEF CaptureInv
<1>3. GuardOK(n, tty) /\ SignalOK(n, tty, sig)
  BY <1>1, <1>2, GuardWalk, SignalWalk
<1>4. GuardOK(main, tty)' /\ SignalOK(main, tty, sig)' /\ ReadersOK(main, readers, stop)'
  BY <1>3
<1>5. WorkersOK(main, http, readers)'
  BY DEF WorkersOK
<1>6. CaptureTypes'
  BY DEF CaptureInv, CaptureTypes
<1>7. QED BY <1>4, <1>5, <1>6 DEF CaptureInv

LEMMA WorkersNow ==
  ASSUME CaptureInv
  PROVE  /\ os \in {"unix", "windows"} /\ http \in [Listeners -> HttpAts]
         /\ readers \in [Flows -> ReaderRecords] /\ stop \in [Flows -> BOOLEAN]
         /\ WorkersOK(main, http, readers) /\ ReadersOK(main, readers, stop)
BY DEF CaptureInv, CaptureTypes

LEMMA ReaderSet ==
  ASSUME NEW rs \in [Flows -> ReaderRecords], NEW f \in Flows, NEW a \in ReaderAts
  PROVE  /\ [rs EXCEPT ![f].at = a] \in [Flows -> ReaderRecords]
         /\ [rs EXCEPT ![f].at = a][f].at = a
         /\ [rs EXCEPT ![f].at = a][f].after = rs[f].after
         /\ \A g \in Flows : g # f => [rs EXCEPT ![f].at = a][g] = rs[g]
BY DEF ReaderRecords

\* A reader moves, and the flow, if it moves at all, goes on.
LEMMA ReaderMoves ==
  ASSUME CaptureInv, NEW f \in Flows, NEW rs \in [Flows -> ReaderRecords], readers' = rs,
         \A g \in Flows : g # f => rs[g] = readers[g],
         readers[f].at # "none", rs[f].at # "none",
         os = "unix" => rs[f].at \in {"poll", "read", "done"},
         os = "unix" /\ (f # main.flow \/ Still(main)) => rs[f].at = "done",
         rs[f].after <= 1, rs[f].after = 1 => rs[f].at \in {"check", "done"} /\ stop[f],
         main' \in MainRecords, main'.at = main.at, main'.flow = main.flow,
         main'.ok = main.ok, main'.challenges = main.challenges,
         UNCHANGED <<os, tty, sig, http, stop, late>>, chan' \in Nat, eof' \in BOOLEAN, LinesOK'
  PROVE  CaptureInv'
<1>1. PICK n \in MainRecords : n = main'
  OBVIOUS
<1>2. Walks(main, n) /\ MainOK(n)
  BY <1>1, CaptureNow DEF Walks, MainOK
<1>3. WorkersOK(n, http, rs)
  <2>1. Still(n) <=> Still(main)
    BY <1>1 DEF Still
  <2>2. QED BY <1>1, <2>1, WorkersNow DEF WorkersOK
<1>4. ReadersOK(n, rs, stop)
  <2>0. ReadersOK(main, readers, stop)
    BY WorkersNow
  <2>1. ASSUME NEW g \in Flows
        PROVE  /\ rs[g].at # "none" => g <= n.flow
               /\ g = n.flow /\ n.at \in Making \cup {"bind", "spawn"} => rs[g].at = "none"
               /\ rs[g].at # "none" /\ (g # n.flow \/ n.at \in Past) => stop[g]
               /\ rs[g].after <= 1
               /\ rs[g].after = 1 => rs[g].at \in {"check", "done"} /\ stop[g]
    <3>1. CASE g = f
      BY <1>1, <2>0, <3>1 DEF ReadersOK
    <3>2. CASE g # f
      BY <1>1, <2>0, <3>2 DEF ReadersOK
    <3>3. QED BY <3>1, <3>2
  <2>2. QED BY <2>1 DEF ReadersOK
<1>5. QED BY <1>1, <1>2, <1>3, <1>4, WorkersNow, CaptureNow, WorkersGo

\* The flow begins with no worker, and starts them.
LEMMA FlowBegins ==
  ASSUME CaptureInv, PreloginAnswers
  PROVE  CaptureInv'
<1>0. /\ main \in MainRecords /\ MainOK(main) /\ chan \in Nat /\ eof \in BOOLEAN /\ LinesOK
      /\ main.at = "prelogin" /\ main.flow < MaxFlows /\ main.flow \in 0 .. MaxFlows
  BY CaptureNow DEF PreloginAnswers, At, MainOK, MainRecords
<1>1. main.flow + 1 \in 0 .. MaxFlows /\ main.flow + 1 > 0
  BY <1>0, CaptureAssumption
<1> DEFINE there == IF os = "unix" THEN "guard" ELSE "bind"
           n == [main EXCEPT !.flow = @ + 1, !.ok = FALSE, !.handle = FALSE,
                             !.issued = FALSE, !.graceOver = FALSE, !.at = there]
<1>2. main' = n /\ UNCHANGED <<os, sig, tty, readers, stop, termVars>>
      /\ late' = FALSE /\ chan' = 0 /\ http' = [l \in Listeners |-> "none"]
  BY DEF PreloginAnswers, BeginFlow
<1>3. there \in {"guard", "bind"}
  OBVIOUS
<1> HIDE DEF there
<1>4. n \in MainRecords /\ n.at = there /\ n.flow = main.flow + 1 /\ n.ok = FALSE
  BY <1>0, <1>1, <1>3 DEF MainRecords, MainAts
<1> HIDE DEF n
<1>5. Walks(main, n) /\ MainOK(n)
  BY <1>0, <1>1, <1>3, <1>4 DEF Walks, MainOK, Making
<1>6. WorkersOK(n, http', readers')
  <2>1. WorkersOK(n, http, readers)
    BY <1>0, <1>4, <1>5, WorkersNow, WorkersWalk
  <2>2. QED BY <1>2, <2>1 DEF WorkersOK
<1>7. ReadersOK(n, readers', stop')
  BY <1>0, <1>2, <1>4, <1>5, WorkersNow, ReadersWalk
<1>8. http' \in [Listeners -> HttpAts] /\ chan' \in Nat /\ late' \in BOOLEAN
  BY <1>2 DEF HttpAts
<1>9. QED BY <1>2, <1>4, <1>5, <1>6, <1>7, <1>8, WorkersNow, LinesStay, WorkersGo

LEMMA FlowBinds ==
  ASSUME CaptureInv, Bind \/ SpawnFails
  PROVE  CaptureInv'
<1>0. /\ main \in MainRecords /\ MainOK(main) /\ chan \in Nat /\ late \in BOOLEAN
      /\ eof \in BOOLEAN /\ LinesOK
  BY CaptureNow
<1>1. UNCHANGED <<os, tty, sig, readers, stop, chan, late, termVars>>
  BY DEF Bind, SpawnFails
<1>2. PICK n \in MainRecords :
        /\ n = main' /\ n.flow = main.flow /\ n.challenges = main.challenges
        /\ \/ main.at = "bind" /\ n.at = "spawn"
           \/ main.at = "spawn" /\ n.at = "drop" /\ ~n.ok
  <2>1. CASE Bind
    BY <1>0, <2>1, MovesFields DEF Bind, At, MainAts
  <2>2. CASE SpawnFails
    <3>1. main.at = "spawn" /\ EndWith(FALSE, "drop") /\ "drop" \in MainAts /\ FALSE \in BOOLEAN
      BY <2>2 DEF SpawnFails, At, MainAts
    <3>2. QED BY <1>0, <3>1, MovesFields
  <2>3. QED BY <2>1, <2>2
<1>3. Walks(main, n)
  BY <1>2 DEF Walks
<1>4. MainOK(n)
  BY <1>0, <1>2, <1>3, MainOKWalks
<1>5. http' \in [Listeners -> HttpAts]
  <2>1. CASE Bind
    BY <2>1 DEF Bind, HttpAts
  <2>2. CASE SpawnFails
    BY <2>2 DEF SpawnFails, HttpAts
  <2>3. QED BY <2>1, <2>2
<1>6. ReadersOK(n, readers', stop')
  BY <1>0, <1>1, <1>3, WorkersNow, ReadersWalk
<1>7. WorkersOK(n, http', readers')
  <2>1. ~Still(n)
    BY <1>2 DEF Still, Making, After, Undoing
  <2>2. WorkersOK(n, http, readers)
    BY <1>0, <1>3, WorkersNow, WorkersWalk
  <2>3. QED BY <1>1, <2>1, <2>2 DEF WorkersOK
<1>8. QED BY <1>0, <1>1, <1>2, <1>3, <1>4, <1>5, <1>6, <1>7, WorkersNow, LinesStay, WorkersGo

LEMMA FlowSpawns ==
  ASSUME CaptureInv, SpawnWorkers
  PROVE  CaptureInv'
<1>0. /\ main \in MainRecords /\ MainOK(main) /\ chan \in Nat /\ late \in BOOLEAN
      /\ eof \in BOOLEAN /\ LinesOK /\ main.at = "spawn"
  BY CaptureNow DEF SpawnWorkers, At
<1>1. UNCHANGED <<os, tty, sig, stop, chan, late, termVars>> /\ http' = Spawned
  BY DEF SpawnWorkers
<1>2. PICK n \in MainRecords :
        n = main' /\ n.flow = main.flow /\ n.challenges = main.challenges /\ n.at \in {"ack", "wait"}
  BY <1>0, MovesFields DEF SpawnWorkers, MainAts
<1>3. Walks(main, n)
  BY <1>0, <1>2 DEF Walks
<1>4. MainOK(n)
  BY <1>0, <1>2, <1>3, MainOKWalks
<1>5. http' \in [Listeners -> HttpAts]
  BY <1>1, WorkersNow DEF Spawned, HttpAts
<1>6. me \in Flows
  BY <1>0, CaptureAssumption DEF MainOK, MainRecords, me, Flows, Middle
<1>7. ~Still(n)
  BY <1>2 DEF Still, Making, After, Undoing
<1>8. WorkersOK(n, http', readers) /\ ReadersOK(n, readers, stop)
  <2>1. WorkersOK(n, http, readers) /\ ReadersOK(n, readers, stop)
    BY <1>0, <1>3, WorkersNow, WorkersWalk, ReadersWalk
  <2>2. QED BY <1>7, <2>1 DEF WorkersOK
<1>9. CASE UNCHANGED readers
  BY <1>0, <1>1, <1>2, <1>3, <1>4, <1>5, <1>8, <1>9, WorkersNow, LinesStay, WorkersGo
<1>10. CASE readers' = [readers EXCEPT ![me].at = IF os = "unix" THEN "poll" ELSE "locking"]
  <2> DEFINE a == IF os = "unix" THEN "poll" ELSE "locking"
  <2>1. PICK rs \in [Flows -> ReaderRecords] :
          /\ readers' = rs /\ rs[me].at = a /\ rs[me].after = readers[me].after
          /\ \A g \in Flows : g # me => rs[g] = readers[g]
    <3>1. a \in ReaderAts
      BY DEF ReaderAts
    <3>2. readers' = [readers EXCEPT ![me].at = a]
      BY <1>10
    <3> HIDE DEF a
    <3> DEFINE rs == [readers EXCEPT ![me].at = a]
    <3>3. /\ rs \in [Flows -> ReaderRecords] /\ rs[me].at = a /\ rs[me].after = readers[me].after
          /\ \A g \in Flows : g # me => rs[g] = readers[g]
      BY <1>6, <3>1, WorkersNow, ReaderSet
    <3> HIDE DEF rs
    <3>4. readers' = rs
      BY <3>2 DEF rs
    <3>5. QED BY <3>3, <3>4
  <2>2. readers[me].at = "none" /\ readers[me].after # 1 /\ readers[me].after <= 1
    BY <1>0, <1>6, WorkersNow DEF ReadersOK, me
  <2>3. WorkersOK(n, http', rs)
    BY <1>2, <1>6, <1>7, <1>8, <2>1 DEF WorkersOK, me
  <2>4. ReadersOK(n, rs, stop)
    <3>1. ASSUME NEW g \in Flows
          PROVE  /\ rs[g].at # "none" => g <= n.flow
                 /\ g = n.flow /\ n.at \in Making \cup {"bind", "spawn"} => rs[g].at = "none"
                 /\ rs[g].at # "none" /\ (g # n.flow \/ n.at \in Past) => stop[g]
                 /\ rs[g].after <= 1
                 /\ rs[g].after = 1 => rs[g].at \in {"check", "done"} /\ stop[g]
      <4>1. CASE g = me
        <5>1. n.at \notin Past /\ n.at \notin Making \cup {"bind", "spawn"}
          BY <1>2 DEF Past, Undoing, Left, After, Making
        <5>2. g = n.flow /\ g <= n.flow
          BY <1>2, <4>1 DEF me, Flows
        <5>3. QED BY <2>1, <2>2, <4>1, <5>1, <5>2
      <4>2. CASE g # me
        BY <1>8, <2>1, <4>2 DEF ReadersOK
      <4>3. QED BY <4>1, <4>2
    <3>2. QED BY <3>1 DEF ReadersOK
  <2>5. QED BY <1>0, <1>1, <1>2, <1>3, <1>4, <1>5, <2>1, <2>3, <2>4, WorkersNow, LinesStay, WorkersGo
<1>11. QED BY <1>9, <1>10 DEF SpawnWorkers

\* It raises the flag, waits for those it can wait for, and tries the reader.
LEMMA FlowStops ==
  ASSUME CaptureInv, StopWorkers \/ JoinWorkers
  PROVE  CaptureInv'
<1>0. /\ main \in MainRecords /\ MainOK(main) /\ chan \in Nat /\ late \in BOOLEAN
      /\ eof \in BOOLEAN /\ LinesOK /\ main.at \in {"stop", "join"}
  BY CaptureNow DEF StopWorkers, JoinWorkers, At
<1>1. UNCHANGED <<os, tty, sig, http, readers, chan, late, termVars>>
  BY DEF StopWorkers, JoinWorkers, flowVars
<1>2. me \in Flows
  BY <1>0, CaptureAssumption DEF MainOK, MainRecords, me, Flows, Middle
<1>3. CASE StopWorkers
  <2>1. PICK n \in MainRecords :
          /\ n = main' /\ n.flow = main.flow /\ n.challenges = main.challenges
          /\ main.at = "stop" /\ n.at = "join"
    BY <1>0, <1>3, MovesFields DEF StopWorkers, At, MainAts
  <2>2. Stops(main, n)
    BY <2>1 DEF Stops
  <2>3. MainOK(n) /\ WorkersOK(n, http, readers)
    BY <1>0, <2>1, <2>2, MainOKWalks, WorkersNow, WorkersWalk
  <2>4. stop' \in [Flows -> BOOLEAN] /\ stop' = [stop EXCEPT ![me] = TRUE]
    BY <1>3, WorkersNow DEF StopWorkers
  <2>5. ReadersOK(n, readers, stop')
    <3>1. n.at \notin Making \cup {"bind", "spawn"}
      BY <2>1 DEF Making
    <3>2. ReadersOK(main, readers, stop)
      BY WorkersNow
    <3>3. \A g \in Flows : (stop[g] => stop'[g]) /\ (g = main.flow => stop'[g])
      BY <1>2, <2>4, WorkersNow DEF me
    <3>4. QED BY <2>1, <3>1, <3>2, <3>3 DEF ReadersOK
  <2>6. QED BY <1>0, <1>1, <2>1, <2>2, <2>3, <2>4, <2>5, WorkersNow, LinesStay, WorkersGo
<1>4. CASE JoinWorkers
  <2>1. PICK n \in MainRecords :
          /\ n = main' /\ n.flow = main.flow /\ n.challenges = main.challenges
          /\ main.at = "join" /\ n.at \in {"cancel", "drop"} /\ UNCHANGED stop
    BY <1>0, <1>4, MovesFields DEF JoinWorkers, At, MainAts, flowVars
  <2>2. Joins(main, n)
    BY <2>1 DEF Joins
  <2>3. MainOK(n) /\ ReadersOK(n, readers, stop)
    BY <1>0, <2>1, <2>2, MainOKWalks, WorkersNow, ReadersWalk
  <2>4. /\ \A l \in Listeners : http[l] \in {"none", "done"}
        /\ os = "unix" => readers[main.flow].at \in {"none", "done"}
    BY <1>4 DEF JoinWorkers, HttpGone, Reader, me
  <2>5. WorkersOK(n, http, readers)
    BY <2>1, <2>4, WorkersNow DEF WorkersOK
  <2>6. QED BY <1>0, <1>1, <2>1, <2>2, <2>3, <2>5, WorkersNow, LinesStay, WorkersGo
<1>5. QED BY <1>3, <1>4

LEMMA FlowCancels ==
  ASSUME CaptureInv, CancelRead
  PROVE  CaptureInv'
<1>0. /\ main \in MainRecords /\ MainOK(main) /\ chan \in Nat /\ late \in BOOLEAN
      /\ eof \in BOOLEAN /\ LinesOK /\ main.at = "cancel"
  BY CaptureNow DEF CancelRead, At
<1>1. me \in Flows /\ me = main.flow
  BY <1>0, CaptureAssumption DEF MainOK, MainRecords, me, Flows, Middle
<1> DEFINE found == ~main.issued /\ Reader.at = "reading" /\ ~Reader.frozen
           a == IF found THEN "aborted" ELSE readers[me].at
           issued == main.issued \/ found
           n == [main EXCEPT !.at = "await", !.issued = issued]
           rs == [readers EXCEPT ![me].at = a]
<1>2. main' = n /\ readers' = rs /\ UNCHANGED <<os, tty, sig, http, stop, chan, late, termVars>>
  BY DEF CancelRead
<1>3. found \in BOOLEAN /\ issued \in BOOLEAN
  BY <1>0 DEF MainRecords
<1>4. a \in ReaderAts /\ (a = readers[me].at \/ (a = "aborted" /\ readers[me].at = "reading"))
  BY <1>1, WorkersNow DEF Reader, ReaderAts, ReaderRecords
<1> HIDE DEF found, a, issued
<1>5. n \in MainRecords /\ n.at = "await" /\ n.flow = main.flow /\ n.challenges = main.challenges
      /\ n.ok = main.ok
  BY <1>0, <1>3 DEF MainRecords, MainAts
<1>6. /\ rs \in [Flows -> ReaderRecords] /\ rs[me].at = a /\ rs[me].after = readers[me].after
      /\ \A g \in Flows : g # me => rs[g] = readers[g]
  BY <1>1, <1>4, WorkersNow, ReaderSet
<1> HIDE DEF n, rs
<1>7. Walks(main, n)
  BY <1>0, <1>5 DEF Walks
<1>8. MainOK(n) /\ WorkersOK(n, http, readers) /\ ReadersOK(n, readers, stop)
  BY <1>0, <1>5, <1>7, MainOKWalks, WorkersNow, WorkersWalk, ReadersWalk
<1>9. WorkersOK(n, http, rs)
  <2>1. Still(main)
    BY <1>0 DEF Still
  <2>2. os = "unix" => a = readers[me].at
    BY <1>1, <1>4, <2>1, WorkersNow DEF WorkersOK
  <2>3. QED BY <1>1, <1>6, <1>8, <2>2 DEF WorkersOK
<1>10. ReadersOK(n, rs, stop)
  <2>1. ASSUME NEW g \in Flows
        PROVE  /\ rs[g].at # "none" => g <= n.flow
               /\ g = n.flow /\ n.at \in Making \cup {"bind", "spawn"} => rs[g].at = "none"
               /\ rs[g].at # "none" /\ (g # n.flow \/ n.at \in Past) => stop[g]
               /\ rs[g].after <= 1
               /\ rs[g].after = 1 => rs[g].at \in {"check", "done"} /\ stop[g]
    <3>1. CASE g = me
      <4>1. n.at \notin Making \cup {"bind", "spawn"}
        BY <1>5 DEF Making
      <4>2. QED BY <1>4, <1>6, <1>8, <3>1, <4>1 DEF ReadersOK
    <3>2. CASE g # me
      BY <1>6, <1>8, <3>2 DEF ReadersOK
    <3>3. QED BY <3>1, <3>2
  <2>2. QED BY <2>1 DEF ReadersOK
<1>11. QED BY <1>0, <1>2, <1>5, <1>6, <1>7, <1>8, <1>9, <1>10, WorkersNow, LinesStay, WorkersGo

\* The listeners.
LEMMA HttpActs ==
  ASSUME CaptureInv, NEW l \in Listeners, HttpConnects(l) \/ HttpStops(l) \/ HttpServes(l)
  PROVE  CaptureInv'
<1>1. /\ UNCHANGED <<os, main, sig, tty, readers, stop, late, termVars>>
      /\ http[l] \in {"accept", "serve"}
      /\ \E a \in {"serve", "done", "accept"} : http' = [http EXCEPT ![l] = a]
  BY DEF HttpConnects, HttpStops, HttpServes
<1>2. chan' \in Nat
  BY CaptureNow DEF HttpConnects, HttpStops, HttpServes, Send
<1>3. PICK hs \in [Listeners -> HttpAts] : http' = hs
  BY <1>1, WorkersNow DEF HttpAts
<1>4. Walks(main, main) /\ main' = main
  BY <1>1 DEF Walks
<1>5. WorkersOK(main, hs, readers)
  BY <1>1, <1>3, WorkersNow DEF WorkersOK
<1>6. QED BY <1>1, <1>2, <1>3, <1>4, <1>5, CaptureNow, WorkersNow, LinesStay, WorkersGo

-----------------------------------------------------------------------------
(* The readers. *)

\* A reader that only changes where it is; the main thread stays.
LEMMA ReaderSteps ==
  ASSUME CaptureInv, NEW f \in Flows, NEW a \in ReaderAts \ {"none"},
         readers' = [readers EXCEPT ![f].at = a], readers[f].at # "none",
         os = "unix" => a \in {"poll", "read", "done"},
         os = "unix" /\ (f # main.flow \/ Still(main)) => a = "done",
         readers[f].after = 1 => a \in {"check", "done"},
         UNCHANGED <<os, main, tty, sig, http, stop, late>>, chan' \in Nat, eof' \in BOOLEAN, LinesOK'
  PROVE  CaptureInv'
<1> DEFINE rs == [readers EXCEPT ![f].at = a]
<1>1. /\ rs \in [Flows -> ReaderRecords] /\ rs[f].at = a /\ rs[f].after = readers[f].after
      /\ \A g \in Flows : g # f => rs[g] = readers[g]
  BY WorkersNow, ReaderSet
<1>2. readers' = rs
  OBVIOUS
<1> HIDE DEF rs
<1>3. rs[f].after <= 1 /\ (rs[f].after = 1 => stop[f])
  BY <1>1, WorkersNow DEF ReadersOK
<1>4. QED BY <1>1, <1>2, <1>3, CaptureNow, ReaderMoves

LEMMA UnixReader ==
  ASSUME CaptureInv, ReaderPolls \/ ReaderReads \/ ReaderMeetsTheEnd
  PROVE  CaptureInv'
<1>0. /\ chan \in Nat /\ eof \in BOOLEAN /\ LinesOK /\ os = "unix" /\ me > 0 /\ main \in MainRecords
      /\ readers[me].at \in {"poll", "read"} /\ UNCHANGED <<os, main, tty, sig, http, stop, late>>
  BY CaptureNow DEF ReaderPolls, ReaderReads, ReaderMeetsTheEnd, ReaderAt, Reader
<1>1. me \in Flows /\ me = main.flow
  BY <1>0, CaptureAssumption DEF MainRecords, me, Flows
<1>2. ~Still(main) /\ readers[me].after # 1
  BY <1>0, <1>1, WorkersNow DEF WorkersOK, ReadersOK
<1>3. ASSUME NEW a \in {"poll", "read", "done"}, readers' = [readers EXCEPT ![me].at = a],
             chan' \in Nat, eof' \in BOOLEAN, LinesOK'
      PROVE  CaptureInv'
  BY <1>0, <1>1, <1>2, <1>3, ReaderSteps DEF ReaderAts
<1>4. CASE ReaderPolls
  <2>1. UNCHANGED <<chan, termVars>>
    BY <1>4 DEF ReaderPolls
  <2>2. CASE Woken
    BY <1>0, <1>3, <1>4, <2>1, <2>2, LinesStay DEF ReaderPolls
  <2>3. CASE ~Woken
    BY <1>0, <1>3, <1>4, <2>1, <2>3, LinesStay DEF ReaderPolls
  <2>4. QED BY <2>2, <2>3
<1>5. CASE ReaderMeetsTheEnd
  BY <1>0, <1>3, <1>5, LinesStay DEF ReaderMeetsTheEnd
<1>6. CASE ReaderReads
  <2>1. PICK n \in 1 .. Len(input) :
          /\ input' = SubSeq(input, n + 1, Len(input))
          /\ IF HasCallback(SubSeq(input, 1, n))
             THEN /\ readers' = [readers EXCEPT ![me].at = "done"]
                  /\ lost' = lost + (n - FirstCallback(SubSeq(input, 1, n)))
                  /\ Send(me)
             ELSE /\ readers' = [readers EXCEPT ![me].at = "poll"]
                  /\ UNCHANGED <<lost, chan>>
    BY <1>6 DEF ReaderReads
  <2>2. UNCHANGED <<typed, eof>>
    BY <1>6 DEF ReaderReads
  <2> DEFINE chunk == SubSeq(input, 1, n)
  <2>3. /\ chunk \in Seq(Lines) /\ Len(chunk) = n
        /\ input' \in Seq(Lines) /\ Len(input') = Len(input) - n
    BY <1>0, <2>1, LinesTaken
  <2>4. n \in Nat /\ n >= 1 /\ n <= Len(input) /\ Len(input) \in Nat
    BY <1>0, LenProperties DEF LinesOK
  <2>5. CASE HasCallback(chunk)
    <3>1. FirstCallback(chunk) \in 1 .. n
      BY <2>3, <2>5, FirstIsThere
    <3> DEFINE first == FirstCallback(chunk)
    <3>2. lost' = lost + (n - first) /\ readers' = [readers EXCEPT ![me].at = "done"] /\ Send(me)
      BY <2>1, <2>5
    <3> HIDE DEF first, chunk
    <3>3. first \in 1 .. n
      BY <3>1 DEF first
    <3>n. lost \in Nat /\ typed \in 0 .. MaxLines /\ lost + Len(input) <= typed /\ MaxLines \in Nat
      BY <1>0, CaptureAssumption DEF LinesOK
    <3>m. lost' \in Nat /\ lost' + (Len(input) - n) <= typed
      BY <2>4, <3>2, <3>3, <3>n
    <3>4. LinesOK'
      BY <2>2, <2>3, <3>n, <3>m DEF LinesOK
    <3>5. chan' \in Nat
      BY <1>0, <3>2 DEF Send
    <3>6. QED BY <1>0, <1>3, <2>2, <3>2, <3>4, <3>5
  <2>6. CASE ~HasCallback(chunk)
    <3>1. UNCHANGED <<lost, chan>> /\ readers' = [readers EXCEPT ![me].at = "poll"]
      BY <2>1, <2>6
    <3>2. LinesOK'
      BY <1>0, <2>2, <2>3, <2>4, <3>1, CaptureAssumption DEF LinesOK
    <3>3. QED BY <1>0, <1>3, <2>2, <3>1, <3>2
  <2>7. QED BY <2>5, <2>6
<1>7. QED BY <1>4, <1>5, <1>6

LEMMA WindowsReader ==
  ASSUME CaptureInv, NEW f \in Flows,
         \/ ReaderLocks(f) \/ ReaderChecks(f) \/ ReaderArms(f) \/ ReaderTakes(f) \/ ReaderGivesUp(f)
  PROVE  CaptureInv'
<1>0. /\ chan \in Nat /\ eof \in BOOLEAN /\ LinesOK /\ main \in MainRecords
      /\ readers[f].at \in {"locking", "check", "arming", "reading", "aborted"}
      /\ UNCHANGED <<os, main, tty, sig, http, stop, late>>
  BY CaptureNow DEF ReaderLocks, ReaderChecks, ReaderArms, ReaderTakes, ReaderGivesUp
<1>1. os # "unix" /\ readers \in [Flows -> ReaderRecords]
  BY <1>0, WorkersNow DEF WorkersOK
<1>2. /\ readers[f].after <= 1 /\ readers[f].after \in Nat
      /\ readers[f].after = 1 => readers[f].at = "check" /\ stop[f]
      /\ f # main.flow \/ main.at \in Past => stop[f]
  BY <1>0, <1>1, WorkersNow DEF ReadersOK, ReaderRecords
<1>3. ASSUME NEW rs \in [Flows -> ReaderRecords], readers' = rs,
             \A g \in Flows : g # f => rs[g] = readers[g], rs[f].at # "none",
             rs[f].after <= 1, rs[f].after = 1 => rs[f].at \in {"check", "done"} /\ stop[f],
             chan' \in Nat, eof' \in BOOLEAN, LinesOK'
      PROVE  CaptureInv'
  BY <1>0, <1>1, <1>3, ReaderMoves
<1>4. CASE ReaderLocks(f)
  <2>1. PICK got \in {"handle", "none"} :
          readers' = [readers EXCEPT ![f].at = "check", ![f].acked = got]
    BY <1>4 DEF ReaderLocks
  <2> DEFINE rs == [readers EXCEPT ![f].at = "check", ![f].acked = got]
  <2>2. /\ rs \in [Flows -> ReaderRecords] /\ rs[f].at = "check" /\ rs[f].after = readers[f].after
        /\ \A g \in Flows : g # f => rs[g] = readers[g]
    BY <1>1 DEF ReaderRecords, ReaderAts
  <2>3. readers' = rs
    BY <2>1
  <2> HIDE DEF rs
  <2>4. UNCHANGED <<chan, termVars>>
    BY <1>4 DEF ReaderLocks
  <2>5. QED BY <1>0, <1>2, <1>3, <2>2, <2>3, <2>4, LinesStay
<1>5. CASE ReaderChecks(f)
  <2> DEFINE a == IF stop[f] THEN "done" ELSE "arming"
             rs == [readers EXCEPT ![f].at = a]
  <2>1. a \in ReaderAts /\ a # "none" /\ (stop[f] => a = "done")
    BY DEF ReaderAts
  <2>2. readers' = rs /\ UNCHANGED <<chan, termVars>>
    BY <1>5 DEF ReaderChecks
  <2> HIDE DEF a
  <2>3. /\ rs \in [Flows -> ReaderRecords] /\ rs[f].at = a /\ rs[f].after = readers[f].after
        /\ \A g \in Flows : g # f => rs[g] = readers[g]
    BY <1>1, <2>1, ReaderSet
  <2> HIDE DEF rs
  <2>4. QED BY <1>0, <1>2, <1>3, <2>1, <2>2, <2>3, LinesStay
<1>6. CASE ReaderArms(f)
  <2>1. PICK frozen \in BOOLEAN :
          readers' = [readers EXCEPT ![f].at = "reading", ![f].frozen = frozen]
    BY <1>6 DEF ReaderArms
  <2> DEFINE rs == [readers EXCEPT ![f].at = "reading", ![f].frozen = frozen]
  <2>2. /\ rs \in [Flows -> ReaderRecords] /\ rs[f].at = "reading" /\ rs[f].after = readers[f].after
        /\ \A g \in Flows : g # f => rs[g] = readers[g]
    BY <1>1 DEF ReaderRecords, ReaderAts
  <2>3. readers' = rs /\ readers[f].at = "arming"
    BY <1>6, <2>1 DEF ReaderArms
  <2> HIDE DEF rs
  <2>4. UNCHANGED <<chan, termVars>>
    BY <1>6 DEF ReaderArms
  <2>5. QED BY <1>0, <1>2, <1>3, <2>2, <2>3, <2>4, LinesStay
<1>7. CASE ReaderTakes(f)
  <2> DEFINE a == IF Head(input) = "callback" THEN "done" ELSE "check"
             k == IF Returned(f) THEN readers[f].after + 1 ELSE readers[f].after
             rs == [readers EXCEPT ![f].at = a, ![f].after = k]
  <2>1. readers' = rs /\ readers[f].at = "reading" /\ input # <<>> /\ input' = Tail(input)
        /\ UNCHANGED <<typed, eof, lost>>
    BY <1>1, <1>7 DEF ReaderTakes
  <2>2. readers[f].after = 0
    BY <1>2, <2>1
  <2>3. Returned(f) => stop[f]
    BY <1>0, <1>2 DEF Returned, me, InFlow, Past, Left, After, MainRecords, MainAts, Undoing
  <2>4. a \in {"done", "check"} /\ k \in {0, 1} /\ (k = 1 => stop[f])
    BY <2>2, <2>3
  <2> HIDE DEF a, k
  <2>5. /\ rs \in [Flows -> ReaderRecords] /\ rs[f].at = a /\ rs[f].after = k
        /\ \A g \in Flows : g # f => rs[g] = readers[g]
    <3> DEFINE r == [readers[f] EXCEPT !.at = a, !.after = k]
    <3>1. readers[f] \in ReaderRecords /\ a \in ReaderAts /\ k \in Nat
      BY <1>1, <2>4 DEF ReaderAts
    <3>2. r \in ReaderRecords /\ r.at = a /\ r.after = k
      BY <3>1 DEF ReaderRecords
    <3>3. rs = [readers EXCEPT ![f] = r]
      BY <1>1 DEF ReaderRecords
    <3> HIDE DEF r, rs
    <3>4. QED BY <1>1, <3>2, <3>3
  <2> HIDE DEF rs
  <2>6. chan' \in Nat
    BY <1>0, <1>7 DEF ReaderTakes, Send
  <2>7. input' \in Seq(Lines) /\ Len(input') = Len(input) - 1 /\ Len(input) \in Nat
    BY <1>0, <2>1, HeadTailProperties, LenProperties DEF LinesOK
  <2>8. LinesOK' /\ eof' \in BOOLEAN
    BY <1>0, <2>1, <2>7, CaptureAssumption DEF LinesOK
  <2>9. QED BY <1>3, <2>1, <2>4, <2>5, <2>6, <2>8
<1>8. CASE ReaderGivesUp(f)
  <2> DEFINE rs == [readers EXCEPT ![f].at = "done"]
  <2>1. /\ rs \in [Flows -> ReaderRecords] /\ rs[f].at = "done" /\ rs[f].after = readers[f].after
        /\ \A g \in Flows : g # f => rs[g] = readers[g]
    <3>1. "done" \in ReaderAts
      BY DEF ReaderAts
    <3>2. QED BY <1>1, <3>1, ReaderSet
  <2>2. readers' = rs /\ UNCHANGED <<chan, termVars>>
    BY <1>8 DEF ReaderGivesUp
  <2> HIDE DEF rs
  <2>3. QED BY <1>0, <1>2, <1>3, <2>1, <2>2, LinesStay
<1>9. QED BY <1>4, <1>5, <1>6, <1>7, <1>8

-----------------------------------------------------------------------------
(* The guard, and the handler. *)

LEMMA TerminalNow ==
  ASSUME CaptureInv
  PROVE  /\ main \in MainRecords /\ tty \in TtyRecords /\ sig \in SigRecords
         /\ GuardOK(main, tty) /\ SignalOK(main, tty, sig)
BY DEF CaptureInv, CaptureTypes

LEMMA Flushed ==
  ASSUME CaptureInv, Flush
  PROVE  LinesOK' /\ eof' \in BOOLEAN
<1>1. input' = <<>> /\ UNCHANGED <<typed, eof, lost>> /\ LinesOK /\ eof \in BOOLEAN
  BY CaptureNow DEF Flush
<1>2. Len(input) \in Nat /\ lost + Len(input) <= typed /\ lost \in Nat /\ typed \in 0 .. MaxLines
      /\ MaxLines \in Nat
  BY <1>1, LenProperties, CaptureAssumption DEF LinesOK
<1>3. input' \in Seq(Lines) /\ Len(input') = 0
  BY <1>1
<1>4. QED BY <1>1, <1>2, <1>3 DEF LinesOK

LEMMA GuardGoes ==
  ASSUME CaptureInv, NEW n \in MainRecords, NEW t \in TtyRecords, main' = n, tty' = t,
         Guards(main, n), n.challenges = main.challenges,
         UNCHANGED <<os, sig, http, readers, stop, chan, late>>, LinesOK', eof' \in BOOLEAN,
         GuardOK(n, t), SignalOK(n, t, sig)
  PROVE  CaptureInv'
<1>1. /\ main \in MainRecords /\ MainOK(main) /\ WorkersOK(main, http, readers)
      /\ ReadersOK(main, readers, stop)
  BY CaptureNow, WorkersNow
<1>2. n.at \notin {"prelogin", "login", "ask", "prompt"}
  BY DEF Guards, Undoing
<1>3. /\ MainOK(n) /\ WorkersOK(n, http, readers) /\ ReadersOK(n, readers, stop)
  <2>1. n.flow = main.flow
    BY DEF Guards
  <2>2. QED BY <1>1, <1>2, <2>1, MainOKWalks, WorkersWalk, ReadersWalk
<1>4. /\ MainOK(main)' /\ ReadersOK(main, readers, stop)' /\ GuardOK(main, tty)'
      /\ SignalOK(main, tty, sig)'
  BY <1>3
<1>5. WorkersOK(main, http, readers)'
  BY <1>3 DEF WorkersOK
<1>6. CaptureTypes'
  BY DEF CaptureInv, CaptureTypes
<1>7. QED BY <1>4, <1>5, <1>6 DEF CaptureInv

LEMMA GuardActs ==
  ASSUME CaptureInv,
         \/ GuardInstallsHandlers \/ GuardPublishes \/ GuardTurnsEchoOff \/ GuardRollsBack \/ GuardDrops
  PROVE  CaptureInv'
<1>0. /\ main \in MainRecords /\ tty \in TtyRecords /\ sig \in SigRecords
      /\ GuardOK(main, tty) /\ SignalOK(main, tty, sig)
  BY TerminalNow
<1>a. sig.at # "exited" /\ UNCHANGED <<os, sig, http, readers, stop, chan, late>>
  BY DEF GuardInstallsHandlers, GuardPublishes, GuardTurnsEchoOff, GuardRollsBack, GuardDrops, At, Alive
<1>g. ASSUME NEW there \in MainAts, GoTo(there), NEW t \in TtyRecords, tty' = t,
             \/ main.at = "guard" /\ there = "publish"
             \/ main.at = "publish" /\ there = "quiet"
             \/ main.at = "quiet" /\ there = "bind"
             \/ main.at \in Undoing \cup {"drop"} /\ there \in Undoing \cup {"returned"},
             LinesOK', eof' \in BOOLEAN,
             \A n \in MainRecords : n.at = there /\ n.flow = main.flow =>
                                       GuardOK(n, t) /\ SignalOK(n, t, sig)
      PROVE  CaptureInv'
  <2>1. PICK n \in MainRecords : /\ n = main' /\ n.at = there /\ n.flow = main.flow
                                 /\ n.ok = main.ok /\ n.challenges = main.challenges
    BY <1>0, <1>g, MovesFields
  <2>2. Guards(main, n)
    BY <1>g, <2>1 DEF Guards
  <2>3. QED BY <1>a, <1>g, <2>1, <2>2, GuardGoes
<1>1. CASE GuardInstallsHandlers
  <2> DEFINE t == [tty EXCEPT !.handlers = "ours"]
  <2>1. main.at = "guard" /\ GoTo("publish") /\ tty' = t /\ UNCHANGED termVars
    BY <1>1 DEF GuardInstallsHandlers, At
  <2>2. /\ t \in TtyRecords /\ t.handlers = "ours" /\ t.saved = tty.saved /\ t.active = tty.active
        /\ t.echo = tty.echo
    BY <1>0 DEF TtyRecords
  <2> HIDE DEF t
  <2>3. ASSUME NEW n \in MainRecords, n.at = "publish", n.flow = main.flow
        PROVE  GuardOK(n, t) /\ SignalOK(n, t, sig)
    <3>1. GuardOK(n, t)
      BY <1>0, <2>1, <2>2, <2>3 DEF GuardOK, Off, On, Left, After, Middle
    <3>2. SignalOK(n, t, sig)
      BY <1>0, <1>a, <2>1, <2>2, <2>3 DEF SignalOK, Making, Middle
    <3>3. QED BY <3>1, <3>2
  <2>4. "publish" \in MainAts
    BY DEF MainAts
  <2>5. QED BY <1>g, <2>1, <2>2, <2>3, <2>4, LinesStay
<1>2. CASE GuardPublishes
  <2> DEFINE t == [tty EXCEPT !.saved = "live"]
  <2>1. main.at = "publish" /\ GoTo("quiet") /\ tty' = t /\ UNCHANGED termVars
    BY <1>2 DEF GuardPublishes, At
  <2>2. /\ t \in TtyRecords /\ t.handlers = tty.handlers /\ t.saved = "live" /\ t.active = tty.active
        /\ t.echo = tty.echo
    BY <1>0 DEF TtyRecords
  <2> HIDE DEF t
  <2>3. ASSUME NEW n \in MainRecords, n.at = "quiet", n.flow = main.flow
        PROVE  GuardOK(n, t) /\ SignalOK(n, t, sig)
    <3>1. GuardOK(n, t)
      BY <1>0, <2>1, <2>2, <2>3 DEF GuardOK, Off, On, Left, After, Middle
    <3>2. SignalOK(n, t, sig)
      BY <1>0, <1>a, <2>1, <2>2, <2>3 DEF SignalOK, Making, Middle
    <3>3. QED BY <3>1, <3>2
  <2>4. "quiet" \in MainAts
    BY DEF MainAts
  <2>5. QED BY <1>g, <2>1, <2>2, <2>3, <2>4, LinesStay
<1>3. CASE GuardTurnsEchoOff
  <2> DEFINE t == [tty EXCEPT !.echo = FALSE, !.active = TRUE]
  <2>1. main.at = "quiet" /\ GoTo("bind") /\ tty' = t /\ Flush
    BY <1>3 DEF GuardTurnsEchoOff, At
  <2>2. /\ t \in TtyRecords /\ t.handlers = tty.handlers /\ t.saved = tty.saved /\ t.active = TRUE
        /\ t.echo = FALSE
    BY <1>0 DEF TtyRecords
  <2> HIDE DEF t
  <2>3. ASSUME NEW n \in MainRecords, n.at = "bind", n.flow = main.flow
        PROVE  GuardOK(n, t) /\ SignalOK(n, t, sig)
    <3>1. GuardOK(n, t)
      BY <1>0, <2>1, <2>2, <2>3 DEF GuardOK, Off, On, Left, After, Middle
    <3>2. SignalOK(n, t, sig)
      BY <1>0, <1>a, <2>1, <2>2, <2>3 DEF SignalOK, Making, Middle
    <3>3. QED BY <3>1, <3>2
  <2>4. "bind" \in MainAts
    BY DEF MainAts
  <2>5. QED BY <1>g, <2>1, <2>2, <2>3, <2>4, Flushed
<1>4. CASE GuardRollsBack
  <2> DEFINE t == [tty EXCEPT !.saved = "freed", !.handlers = "default"]
  <2>1. main.at = "quiet" /\ GoTo("bind") /\ tty' = t /\ UNCHANGED termVars
    BY <1>4 DEF GuardRollsBack, At
  <2>2. /\ t \in TtyRecords /\ t.handlers = "default" /\ t.saved = "freed" /\ t.active = tty.active
        /\ t.echo = tty.echo
    BY <1>0 DEF TtyRecords
  <2> HIDE DEF t
  <2>3. ASSUME NEW n \in MainRecords, n.at = "bind", n.flow = main.flow
        PROVE  GuardOK(n, t) /\ SignalOK(n, t, sig)
    <3>1. GuardOK(n, t)
      BY <1>0, <2>1, <2>2, <2>3 DEF GuardOK, Off, On, Left, After, Middle
    <3>2. SignalOK(n, t, sig)
      BY <1>0, <1>a, <2>1, <2>2, <2>3 DEF SignalOK, Making, Middle
    <3>3. QED BY <3>1, <3>2
  <2>4. "bind" \in MainAts
    BY DEF MainAts
  <2>5. QED BY <1>g, <2>1, <2>2, <2>3, <2>4, LinesStay
<1>5. CASE GuardDrops /\ ~tty.active
  <2>1. main.at \in Undoing \cup {"drop"} /\ GoTo("returned") /\ UNCHANGED <<tty, termVars>>
    BY <1>5 DEF GuardDrops, GuardDropSteps, Undoing
  <2>2. main.at = "drop"
    BY <1>0, <1>5, <2>1 DEF GuardOK, On, Undoing
  <2>3. ASSUME NEW n \in MainRecords, n.at = "returned", n.flow = main.flow
        PROVE  GuardOK(n, tty) /\ SignalOK(n, tty, sig)
    <3>1. GuardOK(n, tty)
      BY <1>0, <1>5, <2>2, <2>3 DEF GuardOK, Off, On, Left, After, Middle
    <3>2. SignalOK(n, tty, sig)
      BY <1>0, <1>5, <1>a, <2>2, <2>3 DEF SignalOK, Making, Middle
    <3>3. QED BY <3>1, <3>2
  <2>4. "returned" \in MainAts
    BY DEF MainAts
  <2>5. QED BY <1>0, <1>g, <2>1, <2>3, <2>4, LinesStay
<1>6. CASE GuardDrops /\ tty.active
  <2>1. /\ main.at \in {"drop", "swap", "free", "unhook"}
        /\ tty' = GuardDropSteps[main.at].tty /\ GoTo(GuardDropSteps[main.at].next)
        /\ IF main.at = "drop" THEN Flush ELSE UNCHANGED termVars
    BY <1>6 DEF GuardDrops, GuardDropSteps
  <2>2. LinesOK' /\ eof' \in BOOLEAN
    BY <2>1, Flushed, LinesStay
  <2>3. CASE main.at = "drop"
    <3> DEFINE t == [tty EXCEPT !.echo = TRUE]
    <3>1. tty' = t /\ GoTo("swap") /\ "swap" \in MainAts
      <4>1. GuardDropSteps["drop"].next = "swap" /\ GuardDropSteps["drop"].tty = t
        BY DEF GuardDropSteps
      <4> HIDE DEF t
      <4>2. QED BY <2>1, <2>3, <4>1 DEF MainAts
    <3>2. /\ t \in TtyRecords /\ t.handlers = tty.handlers /\ t.saved = tty.saved
          /\ t.active = tty.active /\ t.echo = TRUE
      BY <1>0 DEF TtyRecords
    <3> HIDE DEF t
    <3>3. ASSUME NEW n \in MainRecords, n.at = "swap", n.flow = main.flow
          PROVE  GuardOK(n, t) /\ SignalOK(n, t, sig)
      <4>1. GuardOK(n, t)
        BY <1>0, <1>6, <2>3, <3>2, <3>3 DEF GuardOK, Off, On, Left, After, Middle
      <4>2. SignalOK(n, t, sig)
        BY <1>0, <1>a, <2>3, <3>2, <3>3 DEF SignalOK, Making, Middle
      <4>3. QED BY <4>1, <4>2
    <3>4. QED BY <1>g, <2>2, <2>3, <3>1, <3>2, <3>3 DEF Undoing
  <2>4. CASE main.at = "swap"
    <3> DEFINE t == [tty EXCEPT !.saved = "swapped"]
    <3>1. tty' = t /\ GoTo("free") /\ "free" \in MainAts
      BY <2>1, <2>4 DEF GuardDropSteps, MainAts
    <3>2. /\ t \in TtyRecords /\ t.handlers = tty.handlers /\ t.saved = "swapped"
          /\ t.active = tty.active /\ t.echo = tty.echo
      BY <1>0 DEF TtyRecords
    <3> HIDE DEF t
    <3>3. ASSUME NEW n \in MainRecords, n.at = "free", n.flow = main.flow
          PROVE  GuardOK(n, t) /\ SignalOK(n, t, sig)
      <4>1. GuardOK(n, t)
        BY <1>0, <1>6, <2>4, <3>2, <3>3 DEF GuardOK, Off, On, Left, After, Middle
      <4>2. SignalOK(n, t, sig)
        BY <1>0, <1>a, <2>4, <3>2, <3>3 DEF SignalOK, Making, Middle
      <4>3. QED BY <4>1, <4>2
    <3>4. QED BY <1>g, <2>2, <2>4, <3>1, <3>2, <3>3 DEF Undoing
  <2>5. CASE main.at = "free"
    <3> DEFINE t == [tty EXCEPT !.saved = "freed"]
    <3>1. tty' = t /\ GoTo("unhook") /\ "unhook" \in MainAts
      BY <2>1, <2>5 DEF GuardDropSteps, MainAts
    <3>2. /\ t \in TtyRecords /\ t.handlers = tty.handlers /\ t.saved = "freed"
          /\ t.active = tty.active /\ t.echo = tty.echo
      BY <1>0 DEF TtyRecords
    <3> HIDE DEF t
    <3>3. ASSUME NEW n \in MainRecords, n.at = "unhook", n.flow = main.flow
          PROVE  GuardOK(n, t) /\ SignalOK(n, t, sig)
      <4>1. GuardOK(n, t)
        BY <1>0, <1>6, <2>5, <3>2, <3>3 DEF GuardOK, Off, On, Left, After, Middle
      <4>2. SignalOK(n, t, sig)
        BY <1>0, <1>a, <2>5, <3>2, <3>3 DEF SignalOK, Making, Middle
      <4>3. QED BY <4>1, <4>2
    <3>4. QED BY <1>g, <2>2, <2>5, <3>1, <3>2, <3>3 DEF Undoing
  <2>6. CASE main.at = "unhook"
    <3> DEFINE t == [tty EXCEPT !.handlers = "default", !.active = FALSE]
    <3>1. tty' = t /\ GoTo("returned") /\ "returned" \in MainAts
      BY <2>1, <2>6 DEF GuardDropSteps, MainAts
    <3>2. /\ t \in TtyRecords /\ t.handlers = "default" /\ t.saved = tty.saved
          /\ t.active = FALSE /\ t.echo = tty.echo
      BY <1>0 DEF TtyRecords
    <3> HIDE DEF t
    <3>3. ASSUME NEW n \in MainRecords, n.at = "returned", n.flow = main.flow
          PROVE  GuardOK(n, t) /\ SignalOK(n, t, sig)
      <4>1. GuardOK(n, t)
        BY <1>0, <1>6, <2>6, <3>2, <3>3 DEF GuardOK, Off, On, Left, After, Middle
      <4>2. SignalOK(n, t, sig)
        BY <1>0, <1>a, <2>6, <3>2, <3>3 DEF SignalOK, Making, Middle
      <4>3. QED BY <4>1, <4>2
    <3>4. QED BY <1>g, <2>2, <2>6, <3>1, <3>2, <3>3 DEF Undoing
  <2>7. QED BY <2>1, <2>3, <2>4, <2>5, <2>6
<1>7. QED BY <1>1, <1>2, <1>3, <1>4, <1>5, <1>6

LEMMA SignalGoes ==
  ASSUME CaptureInv, NEW t \in TtyRecords, tty' = t, NEW s \in SigRecords, sig' = s,
         UNCHANGED <<os, main, http, readers, stop, chan, late>>, LinesOK', eof' \in BOOLEAN,
         GuardOK(main, t), SignalOK(main, t, s)
  PROVE  CaptureInv'
<1>1. /\ MainOK(main)' /\ ReadersOK(main, readers, stop)' /\ GuardOK(main, tty)'
      /\ SignalOK(main, tty, sig)'
  BY CaptureNow, WorkersNow
<1>2. WorkersOK(main, http, readers)'
  BY WorkersNow DEF WorkersOK
<1>3. CaptureTypes'
  BY DEF CaptureInv, CaptureTypes
<1>4. QED BY <1>1, <1>2, <1>3 DEF CaptureInv

\* Restoring the echo does not change what the guard has done.
LEMMA EchoFields ==
  ASSUME CaptureInv, NEW echo \in BOOLEAN
  PROVE  /\ [tty EXCEPT !.echo = echo] \in TtyRecords
         /\ [tty EXCEPT !.echo = echo].echo = echo
         /\ [tty EXCEPT !.echo = echo].active = tty.active
         /\ GuardOK(main, [tty EXCEPT !.echo = echo])
<1> DEFINE t == [tty EXCEPT !.echo = echo]
<1>1. /\ t \in TtyRecords /\ t.handlers = tty.handlers /\ t.saved = tty.saved
      /\ t.active = tty.active /\ t.echo = echo
  BY TerminalNow DEF TtyRecords
<1> HIDE DEF t
<1>2. GuardOK(main, t)
  BY <1>1, TerminalNow DEF GuardOK, On, Off
<1>3. QED BY <1>1, <1>2 DEF t

LEMMA SignalActs ==
  ASSUME CaptureInv, main.flow > 0,
         SignalOnFlow \/ SignalElsewhere \/ HandlerRestores \/ HandlerExits
  PROVE  CaptureInv'
<1>0. /\ main \in MainRecords /\ tty \in TtyRecords /\ sig \in SigRecords
      /\ GuardOK(main, tty) /\ SignalOK(main, tty, sig)
  BY TerminalNow
<1>1. UNCHANGED <<os, main, http, readers, stop, chan, late>>
  BY DEF SignalOnFlow, SignalElsewhere, HandlerRestores, HandlerExits, flowVars
<1>2. me \in 0 .. MaxFlows /\ me = main.flow
  BY <1>0 DEF MainRecords, me
<1>3. tty.active /\ main.at \in Middle => tty.handlers = "ours" /\ tty.saved = "live"
  BY <1>0 DEF GuardOK, On, Off
<1>4. tty.echo \in BOOLEAN /\ sig.sound \in BOOLEAN /\ sig.flow \in Nat
  BY <1>0, CaptureAssumption DEF TtyRecords, SigRecords
<1>5. CASE SignalOnFlow
  <2> DEFINE echo == Settings
             t == [tty EXCEPT !.echo = echo]
             s == [sig EXCEPT !.at = "exited", !.flow = me]
  <2>1. sig.at = "idle" /\ tty' = t /\ sig' = s /\ UNCHANGED termVars
    BY <1>5 DEF SignalOnFlow
  <2>2. sig.sound /\ (tty.echo \/ (tty.active /\ main.at \in Middle))
    BY <1>0, <2>1 DEF SignalOK
  <2>3. echo = TRUE
    BY <1>3, <1>4, <2>2 DEF Settings
  <2> HIDE DEF echo
  <2>4. t \in TtyRecords /\ t.echo = TRUE /\ GuardOK(main, t)
    BY <2>3, EchoFields
  <2>5. s \in SigRecords /\ s.at = "exited"
    BY <1>0, <1>2 DEF SigRecords
  <2> HIDE DEF s, t
  <2>6. SignalOK(main, t, s)
    BY <2>4, <2>5 DEF SignalOK
  <2>7. QED BY <1>1, <2>1, <2>4, <2>5, <2>6, LinesStay, SignalGoes
<1>6. CASE SignalElsewhere
  <2> DEFINE box == IF tty.saved = "live" THEN "live" ELSE "none"
             sound == ~tty.echo
             s == [at |-> "loaded", flow |-> me, sound |-> sound, box |-> box]
  <2>1. sig.at = "idle" /\ sig' = s /\ UNCHANGED <<tty, termVars>>
    BY <1>6 DEF SignalElsewhere, flowVars
  <2>2. tty.echo \/ (tty.active /\ main.at \in Middle)
    BY <1>0, <2>1 DEF SignalOK
  <2>3. sound \in BOOLEAN /\ box \in {"none", "live"} /\ (sound => box = "live")
    BY <1>3, <1>4, <2>2
  <2>e. sound => tty.active /\ main.at \in Middle
    BY <2>2
  <2> HIDE DEF sound, box
  <2>4. s \in SigRecords /\ s.at = "loaded" /\ s.flow = me /\ s.sound = sound /\ s.box = box
    BY <1>2, <2>3 DEF SigRecords
  <2> HIDE DEF s
  <2>5. me > 0 /\ me <= main.flow
    BY <1>2, CaptureAssumption
  <2>6. SignalOK(main, tty, s)
    BY <1>2, <2>3, <2>e, <2>4, <2>5 DEF SignalOK, Making, Middle
  <2>7. QED BY <1>0, <1>1, <2>1, <2>4, <2>6, LinesStay, SignalGoes
<1>7. CASE HandlerRestores
  <2>1. PICK echo \in BOOLEAN :
          /\ (sig.box = "none") => (echo = tty.echo)
          /\ (sig.box = "live" /\ tty.saved # "freed") => echo
          /\ tty' = [tty EXCEPT !.echo = echo]
    BY <1>7 DEF HandlerRestores
  <2> DEFINE t == [tty EXCEPT !.echo = echo]
             sound == sig.sound /\ ~(sig.box = "live" /\ tty.saved = "freed")
             s == [sig EXCEPT !.at = "restored", !.sound = sound]
  <2>2. /\ sig.at = "loaded" /\ sig' = s /\ tty' = t
        /\ IF sig.box = "live" THEN Flush ELSE UNCHANGED termVars
    BY <1>7, <2>1 DEF HandlerRestores
  <2>3. t \in TtyRecords /\ t.echo = echo /\ t.active = tty.active /\ GuardOK(main, t)
    BY EchoFields
  <2>4. sound \in BOOLEAN /\ (sound => sig.sound /\ (sig.box = "live" => tty.saved # "freed"))
    BY <1>4
  <2> HIDE DEF sound, t
  <2>5. s \in SigRecords /\ s.at = "restored" /\ s.flow = sig.flow /\ s.sound = sound
    BY <1>0, <2>4 DEF SigRecords
  <2> HIDE DEF s
  <2>6. sound => echo
    BY <1>0, <2>1, <2>2, <2>4 DEF SignalOK
  <2>7. SignalOK(main, t, s)
    BY <1>0, <2>2, <2>3, <2>4, <2>5, <2>6 DEF SignalOK
  <2>8. LinesOK' /\ eof' \in BOOLEAN
    BY <2>2, Flushed, LinesStay
  <2>9. QED BY <1>1, <2>2, <2>3, <2>5, <2>7, <2>8, SignalGoes
<1>8. CASE HandlerExits
  <2> DEFINE sound == sig.sound /\ sig.flow = me
             s == [sig EXCEPT !.at = "exited", !.sound = sound]
  <2>1. sig.at = "restored" /\ sig' = s /\ UNCHANGED <<tty, termVars>>
    BY <1>8 DEF HandlerExits, flowVars
  <2>2. sound \in BOOLEAN /\ (sound => sig.sound /\ sig.flow = main.flow)
    BY <1>2, <1>4
  <2> HIDE DEF sound
  <2>3. s \in SigRecords /\ s.at = "exited" /\ s.sound = sound
    BY <1>0, <2>2 DEF SigRecords
  <2> HIDE DEF s
  <2>4. SignalOK(main, tty, s)
    BY <1>0, <2>1, <2>2, <2>3 DEF SignalOK
  <2>5. QED BY <1>0, <1>1, <2>1, <2>3, <2>4, LinesStay, SignalGoes
<1>9. QED BY <1>5, <1>6, <1>7, <1>8

-----------------------------------------------------------------------------
(* Every step. *)

LEMMA CaptureInvInit ==
  ASSUME LoginInit
  PROVE  CaptureInv
<1>0. /\ 0 \in 0 .. MaxFlows /\ 0 \in 0 .. MaxMfaAttempts /\ 0 \in 0 .. MaxLines /\ 0 < MaxFlows
  BY CaptureAssumption, LoginAssumption
<1>1. main \in MainRecords /\ main.at = "prelogin" /\ main.flow = 0
  BY <1>0 DEF LoginInit, MainRecords, MainAts
<1>2. /\ tty \in TtyRecords /\ tty.echo /\ Off(tty)
      /\ sig \in SigRecords /\ sig.at = "idle" /\ sig.sound
  BY <1>0 DEF LoginInit, CaptureInit, TtyRecords, SigRecords, Off
<1>3. /\ http \in [Listeners -> HttpAts] /\ \A l \in Listeners : http[l] = "none"
  BY DEF LoginInit, CaptureInit, HttpAts
<1>4. /\ readers \in [Flows -> ReaderRecords]
      /\ \A f \in Flows : readers[f].at = "none" /\ readers[f].after = 0
  BY DEF LoginInit, CaptureInit, ReaderRecords, ReaderAts
<1>5. CaptureTypes
  BY <1>1, <1>2, <1>3, <1>4 DEF LoginInit, CaptureInit, CaptureTypes
<1>6. LinesOK
  <2>1. input = <<>> /\ typed = 0 /\ lost = 0
    BY DEF LoginInit, CaptureInit
  <2>2. QED BY <1>0, <2>1 DEF LinesOK
<1>7. MainOK(main)
  BY <1>0, <1>1 DEF MainOK, Making, Middle, Undoing, After
<1>8. WorkersOK(main, http, readers)
  BY <1>3, <1>4 DEF WorkersOK
<1>9. GuardOK(main, tty) /\ SignalOK(main, tty, sig)
  BY <1>1, <1>2 DEF GuardOK, SignalOK, Middle
<1>10. ReadersOK(main, readers, stop)
  BY <1>4 DEF ReadersOK
<1>11. QED BY <1>5, <1>6, <1>7, <1>8, <1>9, <1>10 DEF CaptureInv

LEMMA CaptureInvStep ==
  ASSUME CaptureInv, [Next]_vars
  PROVE  CaptureInv'
<1>1. CASE LoginSteps
  BY <1>1, FlowBegins, LoginActs DEF LoginSteps
<1>2. CASE main.flow > 0 /\ CaptureSteps
  <2>1. CASE FlowSteps
    BY <2>1, FlowWaits, OthersAct, GuardActs, FlowBinds, FlowSpawns, FlowStops, FlowCancels DEF FlowSteps
  <2>2. CASE ThreadSteps
    BY <2>2, HttpActs, UnixReader, WindowsReader DEF ThreadSteps
  <2>3. CASE HandlerSteps \/ SignalOnFlow \/ SignalElsewhere
    BY <1>2, <2>3, SignalActs DEF HandlerSteps
  <2>4. CASE TimeSteps \/ Type \/ HangUp
    BY <2>4, OthersAct DEF TimeSteps
  <2>5. CASE \E l \in Listeners : HttpConnects(l)
    BY <2>5, HttpActs
  <2>6. QED BY <1>2, <2>1, <2>2, <2>3, <2>4, <2>5 DEF CaptureSteps
<1>3. CASE UNCHANGED vars
  <2>1. UNCHANGED <<os, main, sig, tty, http, readers, chan, stop, late, input, typed, eof, lost>>
    BY <1>3 DEF vars, flowVars, termVars
  <2>2. WorkersOK(main, http, readers)'
    BY <2>1, WorkersNow DEF WorkersOK
  <2>3. CaptureTypes' /\ LinesOK'
    BY <2>1 DEF CaptureInv, CaptureTypes, LinesOK
  <2>4. /\ MainOK(main)' /\ GuardOK(main, tty)' /\ SignalOK(main, tty, sig)'
        /\ ReadersOK(main, readers, stop)'
    BY <2>1, CaptureNow, TerminalNow, WorkersNow
  <2>5. QED BY <2>2, <2>3, <2>4 DEF CaptureInv
<1>4. QED BY <1>1, <1>2, <1>3 DEF Next, Ended

LEMMA CaptureInvariant == Spec => []CaptureInv
<1>1. LoginInit => CaptureInv
  BY CaptureInvInit
<1>2. CaptureInv /\ [Next]_vars => CaptureInv'
  BY CaptureInvStep
<1>3. QED BY <1>1, <1>2, PTL DEF Spec

\* The types of a login's state hold in all its states: no line is counted
\* twice, and no code is asked for beyond the attempts.
THEOREM LoginTyping == Spec => []TypeOK
<1>1. CaptureInv => TypeOK
  <2>1. LinesOK => lost \in 0 .. MaxLines
    <3>1. LinesOK => Len(input) \in Nat
      BY LenProperties DEF LinesOK
    <3>2. QED BY <3>1, CaptureAssumption DEF LinesOK
  <2>2. QED BY <2>1 DEF CaptureInv, CaptureTypes, LinesOK, TypeOK, MainRecords, MainAts, TtyRecords,
     SigRecords, ReaderRecords, ReaderAts, HttpAts
<1>2. QED BY <1>1, CaptureInvariant, PTL

\* A login that goes on after a flow has no listener of it left, and on Unix no
\* reader (run_paste_flow joins every thread before it returns); a Windows reader
\* that was left behind takes at most the line it waits for (run_stdin_reader).
THEOREM LoginLeavesNothing == Spec => []NothingOutlivesTheFlow
<1>1. CaptureInv => AbandonedTakesOneLine
  BY DEF CaptureInv, ReadersOK, AbandonedTakesOneLine
<1>2. CaptureInv => NothingOutlivesTheFlow
  BY <1>1 DEF CaptureInv, WorkersOK, Still, After, NothingOutlivesTheFlow, HttpGone
<1>3. QED BY <1>2, CaptureInvariant, PTL

\* However the flow is left, by its return or by a signal at any point of the
\* guard's life, echo is back (TtyEchoGuard, tty_signal_handler).
THEOREM LoginGivesBack == Spec => []TerminalGivenBack
<1>1. CaptureInv => TerminalGivenBack
  <2>1. SUFFICES ASSUME CaptureInv, sig.sound, sig.flow \in {0, main.flow},
                        ~InFlow \/ sig.at = "exited"
                 PROVE  tty.echo
    BY DEF TerminalGivenBack
  <2>2. sig \in SigRecords /\ SignalOK(main, tty, sig) /\ main \in MainRecords
    BY <2>1, TerminalNow
  <2>3. ~InFlow => main.at \notin Middle
    BY DEF InFlow, Middle
  <2>4. CASE sig.at \in {"idle", "exited"}
    BY <2>1, <2>2, <2>3, <2>4 DEF SignalOK
  <2>5. CASE sig.at \in {"loaded", "restored"}
    <3>1. sig.flow > 0 /\ sig.flow \in Nat
      BY <2>2, <2>5, CaptureAssumption DEF SignalOK, SigRecords
    <3>2. sig.flow = main.flow
      BY <2>1, <3>1
    <3>3. QED BY <2>1, <2>2, <2>3, <2>5, <3>2 DEF SignalOK
  <2>6. QED BY <2>2, <2>4, <2>5 DEF SigRecords
<1>2. QED BY <1>1, CaptureInvariant, PTL

-----------------------------------------------------------------------------
(* ScriptedLogin.                                                          *)

SeenRecords == [outcome : {"running", "captured", "refused", "timeout", "demoted"},
                passwords : 0 .. 1, challenge : {"none", "pending"}, stale : SUBSET Ages]
EntraRecords ==
  [at : {"prelogin", "broker", "top", "get", "page", "password", "begin", "poll",
         "prompt", "code", "process", "relay"},
   page : Pages, pending : BOOLEAN, bsso : 0 .. MaxBssoHops, signins : 0 .. 1,
   posted : BOOLEAN, method : {"none", "push", "code", "unsupported"},
   codes : 0 .. MaxCodes, relays : 0 .. MaxRelays, then : {"capture", "machine"},
   fresh : BOOLEAN, leg : Ages, pollLate : BOOLEAN]
OktaRecords ==
  [at : {"authn", "round", "push", "polling", "totp", "sms", "smsCode", "saml",
         "cookie", "hop", "introspect", "identify", "remedy", "oiePoll", "oieAnswer"},
   status : Statuses, round : 0 .. MaxRounds, polls : 0 .. MaxPolls,
   hops : 0 .. MaxHops, newest : BOOLEAN]

\* While a factor is pending the flow is at one of these.
Leg == {"poll", "prompt", "code"}
Verifying == {"polling", "smsCode", "oiePoll", "oieAnswer"}

\* Nothing has been sent but what is newest, or outdated by an answer that decided nothing.
Clean(s) == s.stale \subseteq {"undecided"}

\* Where a running Entra flow is says what it has sent and what it holds.
EntraOK(e, s) ==
  /\ Clean(s)
  /\ s.outcome = "running" =>
       /\ e.signins = 0 => s.passwords = 0
       /\ e.at = "password" => e.signins = 1 /\ s.passwords = 0
       /\ e.at \in {"password", "begin"} => e.fresh
       /\ e.at = "prompt" => e.codes < MaxCodes
       /\ s.challenge = "pending" <=> e.at \in Leg
       /\ e.at \in Leg => e.leg # "old"
       /\ e.at = "process" => e.leg = "newest"

\* And a running Okta flow.
OktaOK(o, s) ==
  /\ s.stale = {}
  /\ s.outcome = "running" =>
       /\ o.at \in {"authn", "introspect", "identify"} => s.passwords = 0
       /\ s.challenge = "pending" <=> o.at \in Verifying
       /\ o.at \in Verifying \cup {"push", "totp", "sms"} => o.round < MaxRounds
       /\ o.at \in {"identify", "remedy", "oiePoll", "oieAnswer"} => o.newest

LoginInv ==
  /\ provider \in {"entra", "okta", "oie"} /\ overdue \in BOOLEAN
  /\ seen \in SeenRecords /\ entra \in EntraRecords /\ okta \in OktaRecords
  /\ provider = "entra" => EntraOK(entra, seen)
  /\ provider # "entra" => OktaOK(okta, seen)

\* What the promise lets a step do to what is seen.
Kept(s, t) ==
  \/ t.outcome = s.outcome /\ t.passwords = s.passwords /\ t.challenge = s.challenge
  \/ /\ s.passwords = 0 /\ t.passwords = 1 /\ t.challenge = s.challenge
     /\ t.outcome \in {"running", "refused", "timeout", "demoted"}
  \/ /\ s.challenge = "none" /\ t.challenge = "pending" /\ t.passwords = s.passwords
     /\ t.outcome \in {"running", "refused", "timeout", "demoted"}
  \/ /\ s.challenge = "pending" /\ t.challenge = "none"
     /\ t.outcome = s.outcome /\ t.passwords = s.passwords
  \/ /\ s.challenge = "none" /\ t.outcome = "captured"
     /\ t.challenge = s.challenge /\ t.passwords = s.passwords
  \/ /\ t.outcome \in {"refused", "timeout", "demoted"}
     /\ t.challenge = s.challenge /\ t.passwords = s.passwords

LEMMA KeptIsPromised ==
  ASSUME seen.outcome = "running", Kept(seen, seen')
  PROVE  [Promise!Next]_(Promise!promiseVars)
BY DEF Kept, Promise!Next, Promise!promiseVars, Promise!SendPassword, Promise!AskForFactor,
   Promise!FactorDecided, Promise!Capture, Promise!Fail, Promise!Running, Promise!Failures

Failed == {"refused", "timeout", "demoted"}

\* What is seen of a request.
LEMMA TokenFields ==
  ASSUME NEW s \in SeenRecords, NEW age \in Ages
  PROVE  /\ TokenSent(s, age) \in SeenRecords
         /\ TokenSent(s, age).outcome = s.outcome /\ TokenSent(s, age).passwords = s.passwords
         /\ TokenSent(s, age).challenge = s.challenge
         /\ age = "newest" => TokenSent(s, age).stale = s.stale
         /\ age # "old" /\ Clean(s) => Clean(TokenSent(s, age))
<1>1. TokenSent(s, age).stale = s.stale \union ({age} \ {"newest"})
  BY DEF SeenRecords, TokenSent
<1>2. s.stale \subseteq Ages
  BY DEF SeenRecords
<1>3. age # "old" => {age} \ {"newest"} \subseteq {"undecided"}
  BY DEF Ages
<1>4. age = "newest" => TokenSent(s, age).stale = s.stale
  BY <1>1
<1>5. TokenSent(s, age) \in SeenRecords
  <2>1. s.stale \union ({age} \ {"newest"}) \in SUBSET Ages
    BY <1>2
  <2>2. QED BY <1>1, <2>1 DEF SeenRecords, TokenSent
<1>6. /\ TokenSent(s, age).outcome = s.outcome /\ TokenSent(s, age).passwords = s.passwords
      /\ TokenSent(s, age).challenge = s.challenge
  BY DEF SeenRecords, TokenSent
<1>7. QED BY <1>1, <1>3, <1>4, <1>5, <1>6 DEF Clean

LEMMA AgeOfNewest ==
  /\ "newest" \in Ages /\ \A b : b = TRUE => Age(b) = "newest"
BY DEF Ages, Age

LEMMA PasswordFields ==
  ASSUME NEW s \in SeenRecords, s.passwords = 0
  PROVE  /\ PasswordSent(s) \in SeenRecords
         /\ PasswordSent(s).outcome = s.outcome /\ PasswordSent(s).passwords = 1
         /\ PasswordSent(s).challenge = s.challenge /\ PasswordSent(s).stale = s.stale
BY DEF SeenRecords, PasswordSent

LEMMA FactorFields ==
  ASSUME NEW s \in SeenRecords
  PROVE  /\ FactorAsked(s) \in SeenRecords
         /\ FactorAsked(s).outcome = s.outcome /\ FactorAsked(s).passwords = s.passwords
         /\ FactorAsked(s).challenge = "pending" /\ FactorAsked(s).stale = s.stale
         /\ FactorAnswered(s) \in SeenRecords
         /\ FactorAnswered(s).outcome = s.outcome /\ FactorAnswered(s).passwords = s.passwords
         /\ FactorAnswered(s).challenge = "none" /\ FactorAnswered(s).stale = s.stale
BY DEF SeenRecords, FactorAsked, FactorAnswered

LEMMA EndsFields ==
  ASSUME NEW s \in SeenRecords, NEW out \in Failed \cup {"captured"}
  PROVE  /\ Ends(s, out) \in SeenRecords
         /\ Ends(s, out).outcome = out /\ Ends(s, out).passwords = s.passwords
         /\ Ends(s, out).challenge = s.challenge /\ Ends(s, out).stale = s.stale
BY DEF SeenRecords, Ends, Failed

-----------------------------------------------------------------------------
(* The Entra flow. *)

EntraGoes ==
  /\ seen' \in SeenRecords /\ entra' \in EntraRecords /\ overdue' \in BOOLEAN
  /\ EntraOK(entra', seen') /\ Kept(seen, seen') /\ provider' = provider /\ provider = "entra"
  /\ seen.outcome = "running"

LEMMA EntraMoves ==
  ASSUME LoginInv, Runs("entra"), NEW e \in EntraRecords, NEW s \in SeenRecords, Move(e, s),
         EntraOK(e, s), Kept(seen, s)
  PROVE  EntraGoes
BY DEF LoginInv, Runs, Move, EntraGoes

\* A step that sends nothing, begins nothing and ends nothing.
LEMMA EntraStays ==
  ASSUME LoginInv, Runs("entra"), NEW e \in EntraRecords, NEW s \in SeenRecords, Move(e, s),
         e.signins = entra.signins, entra.at \notin Leg,
         e.at \notin Leg \cup {"password", "begin", "process"},
         s.outcome = seen.outcome, s.passwords = seen.passwords, s.challenge = seen.challenge,
         s.stale = seen.stale
  PROVE  EntraGoes
<1>1. EntraOK(e, s)
  BY DEF LoginInv, EntraOK, Runs, Leg, SeenRecords
<1>2. Kept(seen, s)
  BY DEF Kept
<1>3. QED BY <1>1, <1>2, EntraMoves

LEMMA EntraFails ==
  ASSUME LoginInv, Runs("entra"), NEW e \in EntraRecords, NEW s \in SeenRecords,
         NEW out \in Failed, Move(e, Ends(s, out)),
         Clean(s), s.passwords = seen.passwords, s.challenge = seen.challenge
  PROVE  EntraGoes
<1>1. /\ Ends(s, out) \in SeenRecords /\ Ends(s, out).outcome = out
      /\ Ends(s, out).passwords = s.passwords /\ Ends(s, out).challenge = s.challenge
      /\ Ends(s, out).stale = s.stale
  BY EndsFields
<1>2. EntraOK(e, Ends(s, out)) /\ Kept(seen, Ends(s, out))
  BY <1>1 DEF EntraOK, Clean, Kept, Failed
<1>3. QED BY <1>1, <1>2, EntraMoves

\* A page that reaches the client changes what it holds, and nothing else.
LEMMA ArrivesFields ==
  ASSUME NEW e \in EntraRecords, e = entra, NEW p \in Pages
  PROVE  /\ Arrives(p) \in EntraRecords
         /\ Arrives(p).at = e.at /\ Arrives(p).signins = e.signins /\ Arrives(p).codes = e.codes
         /\ Arrives(p).leg = e.leg
BY DEF EntraRecords, Arrives

LEMMA EntraNow ==
  ASSUME LoginInv, Runs("entra")
  PROVE  /\ seen \in SeenRecords /\ entra \in EntraRecords /\ EntraOK(entra, seen)
         /\ seen.outcome = "running" /\ Clean(seen) /\ overdue \in BOOLEAN
BY DEF LoginInv, Runs, EntraOK

LEMMA EntraPages ==
  ASSUME LoginInv,
         \/ Prelogin \/ Broker \/ Top \/ GetPage
         \/ CallbackPage \/ BadCallbackPage \/ RelayPage \/ DriftPage
         \/ BssoPage \/ PostRelay \/ RelayEnds
  PROVE  EntraGoes
<1>0. Runs("entra") /\ entra.at \in {"prelogin", "broker", "top", "get", "page", "relay"}
  BY DEF Prelogin, Broker, Top, GetPage, CallbackPage, BadCallbackPage, RelayPage, DriftPage,
     BssoPage, PostRelay, RelayEnds, EntraAt, PageIs
<1>n. /\ seen \in SeenRecords /\ entra \in EntraRecords /\ EntraOK(entra, seen)
      /\ seen.outcome = "running" /\ Clean(seen)
  BY <1>0, EntraNow
<1>f. ASSUME NEW out \in Failed, EndsWith(out) PROVE EntraGoes
  BY <1>0, <1>f, <1>n, EntraFails DEF EndsWith
<1>s. ASSUME NEW e \in EntraRecords, Stay(e), e.signins = entra.signins,
             e.at \in {"broker", "top", "get", "page", "relay"}
      PROVE  EntraGoes
  BY <1>0, <1>n, <1>s, EntraStays DEF Stay, Leg
<1>c. ASSUME EndsWith("captured") PROVE EntraGoes
  <2>1. /\ Ends(seen, "captured") \in SeenRecords /\ Ends(seen, "captured").outcome = "captured"
        /\ Ends(seen, "captured").passwords = seen.passwords
        /\ Ends(seen, "captured").challenge = seen.challenge
        /\ Ends(seen, "captured").stale = seen.stale
    BY <1>n, EndsFields
  <2>2. seen.challenge = "none"
    BY <1>0, <1>n DEF EntraOK, Leg, SeenRecords
  <2>3. EntraOK(entra, Ends(seen, "captured")) /\ Kept(seen, Ends(seen, "captured"))
    BY <1>n, <2>1, <2>2 DEF EntraOK, Clean, Kept
  <2>4. QED BY <1>0, <1>c, <1>n, <2>1, <2>3, EntraMoves DEF EndsWith
<1>d. EndsWith("demoted") \/ EndsWith("timeout") => EntraGoes
  BY <1>f DEF Failed
<1>1. CASE Prelogin
  <2>1. [entra EXCEPT !.at = "broker"] \in EntraRecords
        /\ [entra EXCEPT !.at = "broker"].at = "broker"
        /\ [entra EXCEPT !.at = "broker"].signins = entra.signins
    BY <1>n DEF EntraRecords
  <2>2. QED BY <1>1, <1>d, <1>s, <2>1 DEF Prelogin
<1>2. CASE Broker
  <2>1. CASE EndsWith("demoted")
    BY <1>d, <2>1
  <2>2. CASE \E p \in Pages : Stay([Arrives(p) EXCEPT !.pending = TRUE, !.at = "top"])
    <3>1. PICK p \in Pages : Stay([Arrives(p) EXCEPT !.pending = TRUE, !.at = "top"])
      BY <2>2
    <3> DEFINE e == [Arrives(p) EXCEPT !.pending = TRUE, !.at = "top"]
    <3>2. Arrives(p) \in EntraRecords /\ Arrives(p).signins = entra.signins
      BY <1>n, ArrivesFields
    <3>3. e \in EntraRecords /\ e.at = "top" /\ e.signins = entra.signins
      BY <3>2 DEF EntraRecords
    <3> HIDE DEF e
    <3>4. QED BY <1>s, <3>1, <3>3 DEF e
  <2>3. QED BY <1>2, <2>1, <2>2 DEF Broker
<1>3. CASE Top
  <2>1. PICK to \in {"page", "get"} :
          overdue \/ Stay([entra EXCEPT !.at = to, !.pending = FALSE])
    BY <1>3 DEF Top
  <2> DEFINE e == [entra EXCEPT !.at = to, !.pending = FALSE]
  <2>2. e \in EntraRecords /\ e.at = to /\ e.signins = entra.signins
    BY <1>n DEF EntraRecords
  <2>3. EndsWith("timeout") \/ Stay(e)
    BY <1>3, <2>1 DEF Top
  <2> HIDE DEF e
  <2>4. QED BY <1>d, <1>s, <2>2, <2>3
<1>4. CASE GetPage
  <2>1. CASE EndsWith("demoted")
    BY <1>d, <2>1
  <2>2. CASE \E p \in Pages : Stay([Arrives(p) EXCEPT !.at = "page"])
    <3>1. PICK p \in Pages : Stay([Arrives(p) EXCEPT !.at = "page"])
      BY <2>2
    <3> DEFINE e == [Arrives(p) EXCEPT !.at = "page"]
    <3>2. Arrives(p) \in EntraRecords /\ Arrives(p).signins = entra.signins
      BY <1>n, ArrivesFields
    <3>3. e \in EntraRecords /\ e.at = "page" /\ e.signins = entra.signins
      BY <3>2 DEF EntraRecords
    <3> HIDE DEF e
    <3>4. QED BY <1>s, <3>1, <3>3 DEF e
  <2>3. QED BY <1>4, <2>1, <2>2 DEF GetPage
<1>5. CASE CallbackPage \/ BadCallbackPage \/ DriftPage
  BY <1>5, <1>c, <1>d DEF CallbackPage, BadCallbackPage, DriftPage
<1>6. CASE RelayPage
  <2> DEFINE e == [entra EXCEPT !.at = "relay", !.relays = 0, !.then = "capture"]
  <2>0. 0 \in 0 .. MaxRelays
    BY EntraAssumption
  <2>1. e \in EntraRecords /\ e.at = "relay" /\ e.signins = entra.signins
    BY <1>n, <2>0 DEF EntraRecords
  <2>2. Stay(e)
    BY <1>6 DEF RelayPage
  <2> HIDE DEF e
  <2>3. QED BY <1>s, <2>1, <2>2
<1>7. CASE BssoPage
  <2> DEFINE e == [Absorbed EXCEPT !.bsso = @ + 1, !.at = "top"]
  <2>1. CASE EndsWith("demoted")
    BY <1>d, <2>1
  <2>2. CASE entra.bsso < MaxBssoHops /\ Stay(e)
    <3>0. entra.bsso \in 0 .. MaxBssoHops
      BY <1>n DEF EntraRecords
    <3>n. entra.bsso + 1 \in 0 .. MaxBssoHops
      BY <2>2, <3>0, EntraAssumption
    <3>1. e \in EntraRecords /\ e.at = "top" /\ e.signins = entra.signins
      BY <1>n, <3>n DEF EntraRecords, Absorbed
    <3>2. Stay(e)
      BY <2>2
    <3> HIDE DEF e
    <3>3. QED BY <1>s, <3>1, <3>2
  <2>3. entra.bsso \in Nat /\ MaxBssoHops \in Nat
    BY <1>n, EntraAssumption DEF EntraRecords
  <2>4. entra.bsso >= MaxBssoHops \/ entra.bsso < MaxBssoHops
    BY <2>3
  <2>5. QED BY <1>7, <2>1, <2>2, <2>4 DEF BssoPage
<1>8. CASE PostRelay
  <2>1. CASE EndsWith("demoted")
    BY <1>d, <2>1
  <2>2. CASE \E p \in Pages : Stay([Arrives(p) EXCEPT !.relays = @ + 1])
    <3>1. PICK p \in Pages : Stay([Arrives(p) EXCEPT !.relays = @ + 1])
      BY <2>2
    <3> DEFINE e == [Arrives(p) EXCEPT !.relays = @ + 1]
    <3>2. entra.at = "relay" /\ entra.relays < MaxRelays
      BY <1>8 DEF PostRelay, EntraAt
    <3>r. entra.relays \in 0 .. MaxRelays
      BY <1>n DEF EntraRecords
    <3>n. entra.relays + 1 \in 0 .. MaxRelays
      BY <3>2, <3>r, EntraAssumption
    <3>3. e \in EntraRecords /\ e.at = "relay" /\ e.signins = entra.signins
      BY <1>n, <3>2, <3>n DEF EntraRecords, Arrives
    <3>4. Stay(e)
      BY <3>1
    <3> HIDE DEF e
    <3>5. QED BY <1>s, <3>3, <3>4
  <2>3. QED BY <1>8, <2>1, <2>2 DEF PostRelay
<1>9. CASE RelayEnds
  <2> DEFINE e == [entra EXCEPT !.pending = TRUE, !.at = "top"]
  <2>1. e \in EntraRecords /\ e.at = "top" /\ e.signins = entra.signins
    BY <1>n DEF EntraRecords
  <2>2. EndsWith("captured") \/ EndsWith("demoted") \/ Stay(e)
    BY <1>9 DEF RelayEnds
  <2> HIDE DEF e
  <2>3. QED BY <1>c, <1>d, <1>s, <2>1, <2>2
<1>10. QED BY <1>1, <1>2, <1>3, <1>4, <1>5, <1>6, <1>7, <1>8, <1>9

LEMMA EntraPassword ==
  ASSUME LoginInv, SignInPage \/ PostPassword \/ KmsiPage
  PROVE  EntraGoes
<1>0. Runs("entra") /\ entra.at \in {"page", "password"}
  BY DEF SignInPage, PostPassword, KmsiPage, EntraAt, PageIs
<1>n. /\ seen \in SeenRecords /\ entra \in EntraRecords /\ EntraOK(entra, seen)
      /\ seen.outcome = "running" /\ Clean(seen)
  BY <1>0, EntraNow
<1>f. ASSUME NEW out \in Failed, EndsWith(out) PROVE EntraGoes
  BY <1>0, <1>f, <1>n, EntraFails DEF EndsWith
<1>1. CASE SignInPage
  <2> DEFINE e == [Absorbed EXCEPT !.signins = 1, !.at = "password"]
  <2>1. CASE EndsWith("refused")
    BY <1>f, <2>1 DEF Failed
  <2>2. CASE ~(entra.signins > 0) /\ Stay(e)
    <3>0. 1 \in 0 .. 1
      OBVIOUS
    <3>1. /\ e \in EntraRecords /\ e.at = "password" /\ e.signins = 1 /\ e.fresh = TRUE
      BY <1>n, <3>0 DEF EntraRecords, Absorbed
    <3>2. entra.signins = 0
      BY <1>n, <2>2 DEF EntraRecords
    <3>3. seen.challenge # "pending"
      BY <1>0, <1>n DEF EntraOK, Leg
    <3>4. Stay(e)
      BY <2>2
    <3> HIDE DEF e
    <3>5. EntraOK(e, seen)
      BY <1>n, <3>1, <3>2, <3>3 DEF EntraOK, Leg
    <3>6. QED BY <1>0, <1>n, <3>1, <3>4, <3>5, EntraMoves DEF Stay, Kept
  <2>3. QED BY <1>1, <2>1, <2>2 DEF SignInPage
<1>2. CASE KmsiPage
  <2> DEFINE sent == TokenSent(seen, "newest")
             e == [entra EXCEPT !.fresh = FALSE, !.at = "top"]
  <2>1. /\ sent \in SeenRecords /\ sent.outcome = seen.outcome /\ sent.passwords = seen.passwords
        /\ sent.challenge = seen.challenge /\ sent.stale = seen.stale
    BY <1>n, TokenFields, AgeOfNewest
  <2>2. Absorbed \in EntraRecords
    BY <1>n DEF EntraRecords, Absorbed
  <2>3. e \in EntraRecords /\ e.at = "top" /\ e.signins = entra.signins
    BY <1>n DEF EntraRecords
  <2>4. entra.at = "page"
    BY <1>2 DEF KmsiPage, PageIs, EntraAt
  <2>5. Move(Absorbed, Ends(sent, "demoted")) \/ Move(e, sent)
    BY <1>2 DEF KmsiPage
  <2> HIDE DEF sent, e
  <2>6. CASE Move(Absorbed, Ends(sent, "demoted"))
    BY <1>0, <1>n, <2>1, <2>2, <2>6, EntraFails DEF Failed, Clean
  <2>7. CASE Move(e, sent)
    BY <1>0, <1>n, <2>1, <2>3, <2>4, <2>7, EntraStays DEF Leg
  <2>8. QED BY <2>5, <2>6, <2>7
<1>3. CASE PostPassword
  <2>0. entra.at = "password"
    BY <1>3 DEF PostPassword, EntraAt
  <2>1. entra.fresh = TRUE /\ seen.passwords = 0 /\ entra.signins = 1 /\ seen.challenge # "pending"
    BY <1>n, <2>0 DEF EntraOK, Leg, EntraRecords
  <2> DEFINE sent == TokenSent(PasswordSent(seen), Age(entra.fresh))
  <2>2. /\ sent \in SeenRecords /\ sent.outcome = "running" /\ sent.passwords = 1
        /\ sent.challenge = seen.challenge /\ sent.stale = seen.stale
    <3>1. /\ PasswordSent(seen) \in SeenRecords /\ PasswordSent(seen).outcome = "running"
          /\ PasswordSent(seen).passwords = 1 /\ PasswordSent(seen).challenge = seen.challenge
          /\ PasswordSent(seen).stale = seen.stale
      BY <1>n, <2>1, PasswordFields
    <3>2. QED BY <2>1, <3>1, TokenFields, AgeOfNewest
  <2>3. CASE EndsWith("refused")
    BY <1>f, <2>3 DEF Failed
  <2>4. CASE Move(entra, Ends(sent, "demoted"))
    <3> HIDE DEF sent
    <3>1. /\ Ends(sent, "demoted") \in SeenRecords /\ Ends(sent, "demoted").outcome = "demoted"
          /\ Ends(sent, "demoted").passwords = 1
          /\ Ends(sent, "demoted").challenge = seen.challenge
          /\ Ends(sent, "demoted").stale = seen.stale
      BY <2>2, EndsFields DEF Failed
    <3>2. EntraOK(entra, Ends(sent, "demoted")) /\ Kept(seen, Ends(sent, "demoted"))
      BY <1>n, <2>1, <3>1 DEF EntraOK, Clean, Kept
    <3>3. QED BY <1>0, <1>n, <2>4, <3>1, <3>2, EntraMoves
  <2>5. CASE \E p \in Pages :
               Move([Arrives(p) EXCEPT !.pending = TRUE, !.posted = TRUE, !.at = "top"], sent)
    <3>1. PICK p \in Pages :
            Move([Arrives(p) EXCEPT !.pending = TRUE, !.posted = TRUE, !.at = "top"], sent)
      BY <2>5
    <3> DEFINE e == [Arrives(p) EXCEPT !.pending = TRUE, !.posted = TRUE, !.at = "top"]
    <3>2. Arrives(p) \in EntraRecords /\ Arrives(p).signins = entra.signins
      BY <1>n, ArrivesFields
    <3>3. e \in EntraRecords /\ e.at = "top" /\ e.signins = 1
      BY <2>1, <3>2 DEF EntraRecords
    <3>4. Move(e, sent)
      BY <3>1
    <3> HIDE DEF e, sent
    <3>5. EntraOK(e, sent) /\ Kept(seen, sent)
      BY <1>n, <2>1, <2>2, <3>3 DEF EntraOK, Clean, Kept, Leg
    <3>6. QED BY <1>0, <2>2, <3>3, <3>4, <3>5, EntraMoves
  <2>6. QED BY <1>3, <2>3, <2>4, <2>5 DEF PostPassword
<1>4. QED BY <1>1, <1>2, <1>3

LEMMA EntraFactor ==
  ASSUME LoginInv, MfaPage \/ BeginAuth \/ PollPush \/ EnterCode \/ PostCode \/ ProcessAuth
  PROVE  EntraGoes
<1>0. Runs("entra") /\ entra.at \in {"page", "begin", "process"} \cup Leg
  BY DEF MfaPage, BeginAuth, PollPush, EnterCode, PostCode, ProcessAuth, EntraAt, PageIs, Leg
<1>n. /\ seen \in SeenRecords /\ entra \in EntraRecords /\ EntraOK(entra, seen)
      /\ seen.outcome = "running" /\ Clean(seen)
  BY <1>0, EntraNow
<1>p. entra.signins = 0 => seen.passwords = 0
  BY <1>n DEF EntraOK
<1>c. seen.challenge = IF entra.at \in Leg THEN "pending" ELSE "none"
  BY <1>n DEF EntraOK, SeenRecords
<1>f. ASSUME NEW out \in Failed, EndsWith(out) PROVE EntraGoes
  BY <1>0, <1>f, <1>n, EntraFails DEF EndsWith
\* What is sent in the leg is sent with the pair of the leg.
<1>t. ASSUME entra.at \in Leg \cup {"process"}
      PROVE  LET sent == TokenSent(seen, entra.leg) IN
             /\ sent \in SeenRecords /\ sent.outcome = "running" /\ sent.passwords = seen.passwords
             /\ sent.challenge = seen.challenge /\ Clean(sent)
  <2>1. entra.leg \in Ages /\ entra.leg # "old"
    BY <1>n, <1>t DEF EntraOK, EntraRecords
  <2>2. QED BY <1>n, <2>1, TokenFields, AgeOfNewest
<1>e. ASSUME entra.at \in Leg \cup {"process"}, NEW out \in Failed,
             Move(entra, Ends(TokenSent(seen, entra.leg), out))
      PROVE  EntraGoes
  <2> DEFINE sent == TokenSent(seen, entra.leg)
  <2>1. /\ sent \in SeenRecords /\ sent.outcome = "running" /\ sent.passwords = seen.passwords
        /\ sent.challenge = seen.challenge /\ Clean(sent)
    BY <1>e, <1>t
  <2>2. Move(entra, Ends(sent, out))
    BY <1>e
  <2> HIDE DEF sent
  <2>3. QED BY <1>0, <1>n, <2>1, <2>2, EntraFails
<1>1. CASE MfaPage
  <2>1. PICK method \in {"push", "code", "unsupported"} :
          Stay([Absorbed EXCEPT !.method = method, !.at = "begin"])
    BY <1>1 DEF MfaPage
  <2> DEFINE e == [Absorbed EXCEPT !.method = method, !.at = "begin"]
  <2>2. e \in EntraRecords /\ e.at = "begin" /\ e.signins = entra.signins /\ e.fresh = TRUE
    BY <1>n DEF EntraRecords, Absorbed
  <2>3. Stay(e) /\ entra.at = "page"
    BY <1>1, <2>1 DEF MfaPage, PageIs, EntraAt
  <2> HIDE DEF e
  <2>4. EntraOK(e, seen)
    BY <1>c, <1>n, <1>p, <2>2, <2>3 DEF EntraOK, Leg
  <2>5. QED BY <1>0, <1>n, <2>2, <2>3, <2>4, EntraMoves DEF Stay, Kept
<1>2. CASE BeginAuth
  <2> DEFINE sent == TokenSent(seen, Age(entra.fresh))
             asked == FactorAsked(sent)
             to == IF entra.method = "push" THEN "poll" ELSE "prompt"
             e == [entra EXCEPT !.leg = "newest", !.fresh = FALSE, !.codes = 0, !.pollLate = FALSE,
                                !.at = IF entra.method = "push" THEN "poll" ELSE "prompt"]
  <2>0. entra.at = "begin"
    BY <1>2 DEF BeginAuth, EntraAt
  <2>1. entra.fresh = TRUE /\ seen.challenge = "none"
    BY <1>c, <1>n, <2>0 DEF EntraOK, EntraRecords, Leg
  <2>2. /\ sent \in SeenRecords /\ sent.outcome = "running" /\ sent.passwords = seen.passwords
        /\ sent.challenge = seen.challenge /\ sent.stale = seen.stale
    BY <1>n, <2>1, TokenFields, AgeOfNewest
  <2>3. 0 \in 0 .. MaxCodes /\ 0 < MaxCodes
    BY EntraAssumption
  <2>4. /\ e \in EntraRecords /\ e.at = to /\ e.signins = entra.signins /\ e.leg = "newest"
        /\ e.codes = 0
    BY <1>n, <2>3 DEF EntraRecords, Ages
  <2>5. to \in {"poll", "prompt"}
    OBVIOUS
  <2>6. \/ Move(entra, Ends(sent, "demoted")) \/ Move(entra, Ends(sent, "refused"))
        \/ Move(entra, Ends(asked, "demoted"))
        \/ Move(e, asked)
    BY <1>2 DEF BeginAuth
  <2> HIDE DEF sent, e, to
  <2>7. /\ asked \in SeenRecords /\ asked.outcome = "running" /\ asked.passwords = seen.passwords
        /\ asked.challenge = "pending" /\ asked.stale = seen.stale
    BY <2>2, FactorFields
  <2> HIDE DEF asked
  <2>8. CASE Move(entra, Ends(sent, "demoted")) \/ Move(entra, Ends(sent, "refused"))
    BY <1>0, <1>n, <2>2, <2>8, EntraFails DEF Failed, Clean
  <2>9. CASE Move(entra, Ends(asked, "demoted"))
    <3>1. /\ Ends(asked, "demoted") \in SeenRecords /\ Ends(asked, "demoted").outcome = "demoted"
          /\ Ends(asked, "demoted").passwords = seen.passwords
          /\ Ends(asked, "demoted").challenge = "pending"
          /\ Ends(asked, "demoted").stale = seen.stale
      BY <2>7, EndsFields DEF Failed
    <3>2. EntraOK(entra, Ends(asked, "demoted")) /\ Kept(seen, Ends(asked, "demoted"))
      BY <1>n, <2>1, <3>1 DEF EntraOK, Clean, Kept
    <3>3. QED BY <1>0, <1>n, <2>9, <3>1, <3>2, EntraMoves
  <2>10. CASE Move(e, asked)
    <3>1. EntraOK(e, asked) /\ Kept(seen, asked)
      BY <1>n, <1>p, <2>1, <2>3, <2>4, <2>5, <2>7 DEF EntraOK, Clean, Kept, Leg
    <3>2. QED BY <1>0, <2>4, <2>7, <2>10, <3>1, EntraMoves
  <2>11. QED BY <2>6, <2>8, <2>9, <2>10
\* A decision, and an answer that is none.
<1>a. ASSUME entra.at \in {"poll", "code"}, Move(Approved, FactorAnswered(TokenSent(seen, entra.leg)))
      PROVE  EntraGoes
  <2> DEFINE sent == TokenSent(seen, entra.leg)
             heard == FactorAnswered(sent)
  <2>1. /\ sent \in SeenRecords /\ sent.outcome = "running" /\ sent.passwords = seen.passwords
        /\ sent.challenge = seen.challenge /\ Clean(sent)
    BY <1>a, <1>t DEF Leg
  <2>2. Move(Approved, heard)
    BY <1>a
  <2> HIDE DEF sent
  <2>3. /\ heard \in SeenRecords /\ heard.outcome = "running" /\ heard.passwords = seen.passwords
        /\ heard.challenge = "none" /\ Clean(heard)
    BY <2>1, FactorFields DEF Clean
  <2>4. /\ Approved \in EntraRecords /\ Approved.at = "process" /\ Approved.leg = "newest"
        /\ Approved.signins = entra.signins
    BY <1>n DEF EntraRecords, Approved, Ages
  <2>5. seen.challenge = "pending"
    BY <1>a, <1>c DEF Leg
  <2> HIDE DEF heard
  <2>6. EntraOK(Approved, heard) /\ Kept(seen, heard)
    BY <1>n, <1>p, <2>3, <2>4, <2>5 DEF EntraOK, Clean, Kept, Leg
  <2>7. QED BY <1>0, <2>2, <2>3, <2>4, <2>6, EntraMoves
<1>u. ASSUME entra.at \in Leg, NEW e \in EntraRecords, Move(e, TokenSent(seen, entra.leg)),
             e.at \in Leg, e.signins = entra.signins, e.leg # "old",
             e.at = "prompt" => e.codes < MaxCodes
      PROVE  EntraGoes
  <2> DEFINE sent == TokenSent(seen, entra.leg)
  <2>1. /\ sent \in SeenRecords /\ sent.outcome = "running" /\ sent.passwords = seen.passwords
        /\ sent.challenge = seen.challenge /\ Clean(sent)
    BY <1>t, <1>u
  <2>2. Move(e, sent)
    BY <1>u
  <2> HIDE DEF sent
  <2>3. EntraOK(e, sent) /\ Kept(seen, sent)
    BY <1>c, <1>n, <1>p, <1>u, <2>1 DEF EntraOK, Clean, Kept, Leg
  <2>4. QED BY <1>0, <2>1, <2>2, <2>3, EntraMoves
<1>l. entra.at \in Leg => entra.leg # "old"
  BY <1>n DEF EntraOK
<1>3. CASE PollPush
  <2>0. entra.at = "poll"
    BY <1>3 DEF PollPush, EntraAt
  <2>1. ASSUME NEW e \in Undecided
        PROVE  /\ e \in EntraRecords /\ e.at = "poll" /\ e.signins = entra.signins /\ e.leg # "old"
    BY <1>l, <1>n, <2>0 DEF EntraRecords, Undecided, Ages, Leg
  <2>2. \/ EndsWith("timeout")
        \/ Move(entra, Ends(TokenSent(seen, entra.leg), "demoted"))
        \/ Move(entra, Ends(TokenSent(seen, entra.leg), "refused"))
        \/ \E e \in Undecided : Move(e, TokenSent(seen, entra.leg))
        \/ Move(Approved, FactorAnswered(TokenSent(seen, entra.leg)))
    BY <1>3 DEF PollPush
  <2>3. CASE \E e \in Undecided : Move(e, TokenSent(seen, entra.leg))
    BY <1>u, <2>0, <2>1, <2>3 DEF Leg
  <2>4. QED BY <1>a, <1>e, <1>f, <2>0, <2>2, <2>3 DEF Leg, Failed
<1>4. CASE EnterCode
  <2> DEFINE e == [entra EXCEPT !.codes = @ + 1, !.at = "code"]
  <2>0. entra.at = "prompt"
    BY <1>4 DEF EnterCode, EntraAt
  <2>1. entra.codes < MaxCodes /\ entra.codes \in 0 .. MaxCodes
    BY <1>n, <2>0 DEF EntraOK, EntraRecords
  <2>2. entra.codes + 1 \in 0 .. MaxCodes
    BY <2>1, EntraAssumption
  <2>3. e \in EntraRecords /\ e.at = "code" /\ e.signins = entra.signins /\ e.leg = entra.leg
    BY <1>n, <2>2 DEF EntraRecords
  <2>4. CASE EndsWith("refused")
    BY <1>f, <2>4 DEF Failed
  <2>5. CASE Stay(e)
    <3> HIDE DEF e
    <3>1. EntraOK(e, seen)
      BY <1>c, <1>l, <1>n, <1>p, <2>0, <2>3 DEF EntraOK, Leg
    <3>2. QED BY <1>0, <1>n, <2>3, <2>5, <3>1, EntraMoves DEF Stay, Kept
  <2>6. QED BY <1>4, <2>4, <2>5 DEF EnterCode
<1>5. CASE PostCode
  <2>0. entra.at = "code"
    BY <1>5 DEF PostCode, EntraAt
  <2>1. ASSUME NEW f \in Undecided
        PROVE  LET e == [f EXCEPT !.at = "prompt"] IN
               /\ e \in EntraRecords /\ e.at = "prompt" /\ e.signins = entra.signins
               /\ e.leg # "old" /\ e.codes = entra.codes
    BY <1>l, <1>n, <2>0 DEF EntraRecords, Undecided, Ages, Leg
  <2>2. \/ Move(entra, Ends(TokenSent(seen, entra.leg), "demoted"))
        \/ Move(entra, Ends(TokenSent(seen, entra.leg), "refused"))
        \/ /\ entra.codes < MaxCodes
           /\ \E f \in Undecided : Move([f EXCEPT !.at = "prompt"], TokenSent(seen, entra.leg))
        \/ Move(Approved, FactorAnswered(TokenSent(seen, entra.leg)))
    BY <1>5 DEF PostCode
  <2>3. ASSUME NEW f \in Undecided, entra.codes < MaxCodes,
               Move([f EXCEPT !.at = "prompt"], TokenSent(seen, entra.leg))
        PROVE  EntraGoes
    <3> DEFINE e == [f EXCEPT !.at = "prompt"]
    <3>1. /\ e \in EntraRecords /\ e.at = "prompt" /\ e.signins = entra.signins
          /\ e.leg # "old" /\ e.codes = entra.codes
      BY <2>1
    <3>2. Move(e, TokenSent(seen, entra.leg))
      BY <2>3
    <3> HIDE DEF e
    <3>3. QED BY <1>u, <2>0, <2>3, <3>1, <3>2 DEF Leg
  <2>4. QED BY <1>a, <1>e, <2>0, <2>2, <2>3 DEF Leg, Failed
<1>6. CASE ProcessAuth
  <2> DEFINE sent == TokenSent(seen, entra.leg)
  <2>0. entra.at = "process"
    BY <1>6 DEF ProcessAuth, EntraAt
  <2>1. /\ sent \in SeenRecords /\ sent.outcome = "running" /\ sent.passwords = seen.passwords
        /\ sent.challenge = seen.challenge /\ Clean(sent)
    BY <1>t, <2>0
  <2>2. CASE Move(entra, Ends(sent, "demoted"))
    BY <1>e, <2>0, <2>2 DEF Failed
  <2>3. CASE \E p \in Pages :
             Move([entra EXCEPT !.page = p, !.fresh = p \in ConfigPages,
                                !.relays = 0, !.then = "machine", !.at = "relay"], sent)
    <3>1. PICK p \in Pages :
             Move([entra EXCEPT !.page = p, !.fresh = p \in ConfigPages,
                                !.relays = 0, !.then = "machine", !.at = "relay"], sent)
      BY <2>3
    <3> DEFINE e == [entra EXCEPT !.page = p, !.fresh = p \in ConfigPages,
                                  !.relays = 0, !.then = "machine", !.at = "relay"]
    <3>2. 0 \in 0 .. MaxRelays
      BY EntraAssumption
    <3> DEFINE b == p \in ConfigPages
    <3>b. b \in BOOLEAN
      OBVIOUS
    <3>3. e \in EntraRecords /\ e.at = "relay" /\ e.signins = entra.signins
      <4>1. e = [entra EXCEPT !.page = p, !.fresh = b, !.relays = 0, !.then = "machine", !.at = "relay"]
        OBVIOUS
      <4> HIDE DEF b, e
      <4>2. QED BY <1>n, <3>2, <3>b, <4>1 DEF EntraRecords
    <3>4. Move(e, sent)
      BY <3>1
    <3> HIDE DEF e, sent
    <3>5. EntraOK(e, sent) /\ Kept(seen, sent)
      BY <1>c, <1>n, <1>p, <2>0, <2>1, <3>3 DEF EntraOK, Clean, Kept, Leg
    <3>6. QED BY <1>0, <2>1, <3>3, <3>4, <3>5, EntraMoves
  <2>4. QED BY <1>6, <2>2, <2>3 DEF ProcessAuth
<1>7. QED BY <1>1, <1>2, <1>3, <1>4, <1>5, <1>6

LEMMA EntraClocks ==
  ASSUME LoginInv, EntraTime
  PROVE  EntraGoes
<1>n. /\ Runs("entra") /\ seen \in SeenRecords /\ entra \in EntraRecords /\ EntraOK(entra, seen)
      /\ seen.outcome = "running" /\ overdue \in BOOLEAN /\ provider = "entra"
  BY EntraNow DEF EntraTime, EntraCapPasses, PollCapPasses, EntraAt, Runs
<1>1. CASE EntraCapPasses
  BY <1>1, <1>n DEF EntraCapPasses, EntraGoes, Kept
<1>2. CASE PollCapPasses
  <2> DEFINE e == [entra EXCEPT !.pollLate = TRUE]
  <2>1. /\ e \in EntraRecords /\ e.at = entra.at /\ e.signins = entra.signins
        /\ e.leg = entra.leg /\ e.fresh = entra.fresh /\ e.codes = entra.codes
    BY <1>n DEF EntraRecords
  <2>2. Stay(e)
    BY <1>2 DEF PollCapPasses
  <2> HIDE DEF e
  <2>3. EntraOK(e, seen)
    BY <1>n, <2>1 DEF EntraOK
  <2>4. QED BY <1>n, <2>1, <2>2, <2>3, EntraMoves DEF Stay, Kept
<1>3. QED BY <1>1, <1>2 DEF EntraTime

LEMMA EntraStep ==
  ASSUME LoginInv, EntraSteps \/ EntraTime
  PROVE  EntraGoes
BY EntraPages, EntraPassword, EntraFactor, EntraClocks DEF EntraSteps

-----------------------------------------------------------------------------
(* The Okta flows. *)

OktaGoes ==
  /\ seen' \in SeenRecords /\ okta' \in OktaRecords
  /\ OktaOK(okta', seen') /\ Kept(seen, seen') /\ provider' = provider /\ provider \in {"okta", "oie"}
  /\ seen.outcome = "running"

RunsOkta == Runs("okta") \/ Runs("oie")

LEMMA OktaMoves ==
  ASSUME LoginInv, RunsOkta, NEW o \in OktaRecords, NEW s \in SeenRecords, Goes(o, s),
         OktaOK(o, s), Kept(seen, s)
  PROVE  OktaGoes
BY DEF LoginInv, RunsOkta, Runs, Goes, OktaGoes

LEMMA OktaNow ==
  ASSUME LoginInv, RunsOkta
  PROVE  /\ seen \in SeenRecords /\ okta \in OktaRecords /\ OktaOK(okta, seen)
         /\ seen.outcome = "running" /\ seen.stale = {}
         /\ seen.challenge = IF okta.at \in Verifying THEN "pending" ELSE "none"
<1>1. /\ seen \in SeenRecords /\ okta \in OktaRecords /\ OktaOK(okta, seen) /\ seen.outcome = "running"
  BY DEF LoginInv, RunsOkta, Runs
<1>2. seen.stale = {} /\ (seen.challenge = "pending" <=> okta.at \in Verifying)
  BY <1>1 DEF OktaOK
<1>3. seen.challenge \in {"none", "pending"}
  BY <1>1 DEF SeenRecords
<1>4. QED BY <1>1, <1>2, <1>3

\* A refusal of what was sent.
LEMMA OktaFails ==
  ASSUME LoginInv, RunsOkta, NEW s \in SeenRecords, Refuses(s), s.stale = {},
         \/ s.passwords = seen.passwords /\ s.challenge = seen.challenge
         \/ seen.passwords = 0 /\ s.passwords = 1 /\ s.challenge = seen.challenge
         \/ seen.challenge = "none" /\ s.challenge = "pending" /\ s.passwords = seen.passwords
  PROVE  OktaGoes
<1>1. /\ Ends(s, "refused") \in SeenRecords /\ Ends(s, "refused").outcome = "refused"
      /\ Ends(s, "refused").passwords = s.passwords /\ Ends(s, "refused").challenge = s.challenge
      /\ Ends(s, "refused").stale = s.stale
  BY EndsFields DEF Failed
<1>2. OktaOK(okta, Ends(s, "refused")) /\ Kept(seen, Ends(s, "refused"))
  BY <1>1 DEF OktaOK, Kept
<1>3. Goes(okta, Ends(s, "refused")) /\ okta \in OktaRecords
  BY OktaNow DEF Refuses
<1>4. QED BY <1>1, <1>2, <1>3, OktaMoves

LEMMA OktaAnswers ==
  ASSUME LoginInv, RunsOkta, NEW o \in OktaRecords, NEW s \in SeenRecords, Answered(o, s),
         OktaOK(o, s), s.stale = {}, s.outcome = "running",
         \/ s.passwords = seen.passwords /\ s.challenge = seen.challenge
         \/ seen.passwords = 0 /\ s.passwords = 1 /\ s.challenge = seen.challenge
         \/ seen.challenge = "none" /\ s.challenge = "pending" /\ s.passwords = seen.passwords
  PROVE  OktaGoes
<1>1. CASE Refuses(s)
  BY <1>1, OktaFails
<1>2. CASE \E status \in Statuses : Goes([o EXCEPT !.status = status], s)
  <2>1. PICK status \in Statuses : Goes([o EXCEPT !.status = status], s)
    BY <1>2
  <2> DEFINE n == [o EXCEPT !.status = status]
  <2>2. n \in OktaRecords /\ n.at = o.at /\ n.round = o.round /\ n.newest = o.newest
    BY DEF OktaRecords
  <2>3. Goes(n, s)
    BY <2>1
  <2> HIDE DEF n
  <2>4. OktaOK(n, s)
    BY <2>2 DEF OktaOK
  <2>5. Kept(seen, s)
    BY OktaNow DEF Kept
  <2>6. QED BY <2>2, <2>3, <2>4, <2>5, OktaMoves
<1>3. QED BY <1>1, <1>2 DEF Answered

LEMMA OktaCaptures ==
  ASSUME LoginInv, RunsOkta, okta.at \notin Verifying, Captures
  PROVE  OktaGoes
<1>1. /\ seen \in SeenRecords /\ okta \in OktaRecords /\ seen.stale = {} /\ seen.challenge = "none"
  BY OktaNow
<1>2. /\ Ends(seen, "captured") \in SeenRecords /\ Ends(seen, "captured").outcome = "captured"
      /\ Ends(seen, "captured").passwords = seen.passwords
      /\ Ends(seen, "captured").challenge = seen.challenge
      /\ Ends(seen, "captured").stale = seen.stale
  BY <1>1, EndsFields
<1>3. OktaOK(okta, Ends(seen, "captured")) /\ Kept(seen, Ends(seen, "captured"))
  BY <1>1, <1>2 DEF OktaOK, Kept
<1>4. QED BY <1>1, <1>2, <1>3, OktaMoves DEF Captures

\* The steps of the transaction that begin no factor and decide none.
LEMMA OktaTransaction ==
  ASSUME LoginInv,
         \/ AuthN \/ Success \/ SkipWarning \/ ChooseFactor \/ OtherStatus \/ OutOfRounds
         \/ PollVerify \/ OutOfPolls \/ AnswerTotp
         \/ SamlRequest \/ SessionCookie \/ FollowForm
  PROVE  OktaGoes
<1>0. /\ RunsOkta
      /\ okta.at \in {"authn", "round", "polling", "totp", "saml", "cookie", "hop"}
  BY DEF AuthN, Success, SkipWarning, ChooseFactor, OtherStatus, OutOfRounds, PollVerify, OutOfPolls,
     AnswerTotp, SamlRequest, SessionCookie, FollowForm, RoundIs, In, RunsOkta
<1>n. /\ seen \in SeenRecords /\ okta \in OktaRecords /\ OktaOK(okta, seen)
      /\ seen.outcome = "running" /\ seen.stale = {}
      /\ seen.challenge = IF okta.at \in Verifying THEN "pending" ELSE "none"
  BY <1>0, OktaNow
<1>f. Refuses(seen) => OktaGoes
  BY <1>0, <1>n, OktaFails
<1>b. okta.round \in 0 .. MaxRounds /\ okta.polls \in 0 .. MaxPolls /\ okta.hops \in 0 .. MaxHops
  BY <1>n DEF OktaRecords
<1>r. okta.round < MaxRounds => okta.round + 1 \in 0 .. MaxRounds
  BY <1>b, OktaAssumption
<1>p. okta.polls < MaxPolls => okta.polls + 1 \in 0 .. MaxPolls
  BY <1>b, OktaAssumption
<1>h. okta.hops < MaxHops => okta.hops + 1 \in 0 .. MaxHops
  BY <1>b, OktaAssumption
\* Nothing is sent that is looked at here.
<1>s. ASSUME NEW o \in OktaRecords, Goes(o, seen), okta.at \notin Verifying,
             o.at \in {"round", "push", "totp", "sms", "saml", "cookie", "hop"},
             o.at \in {"push", "totp", "sms"} => o.round < MaxRounds
      PROVE  OktaGoes
  <2>1. OktaOK(o, seen) /\ Kept(seen, seen)
    BY <1>n, <1>s DEF OktaOK, Kept, Verifying
  <2>2. QED BY <1>0, <1>n, <1>s, <2>1, OktaMoves
<1>1. CASE AuthN
  <2> DEFINE o == [okta EXCEPT !.at = "round"]
  <2>1. o \in OktaRecords /\ o.at = "round"
    BY <1>n DEF OktaRecords
  <2>2. okta.at = "authn" /\ Answered(o, PasswordSent(seen))
    BY <1>1 DEF AuthN, In
  <2>3. seen.passwords = 0 /\ seen.challenge = "none"
    BY <1>n, <2>2 DEF OktaOK, Verifying
  <2>4. /\ PasswordSent(seen) \in SeenRecords /\ PasswordSent(seen).outcome = "running"
        /\ PasswordSent(seen).passwords = 1 /\ PasswordSent(seen).challenge = seen.challenge
        /\ PasswordSent(seen).stale = {}
    BY <1>n, <2>3, PasswordFields
  <2> HIDE DEF o
  <2>5. OktaOK(o, PasswordSent(seen))
    BY <2>1, <2>3, <2>4 DEF OktaOK, Verifying
  <2>6. QED BY <1>0, <2>1, <2>2, <2>3, <2>4, <2>5, OktaAnswers
<1>2. CASE Success
  <2>1. [okta EXCEPT !.at = "saml"] \in OktaRecords /\ [okta EXCEPT !.at = "saml"].at = "saml"
        /\ okta.at = "round"
    BY <1>2, <1>n DEF OktaRecords, Success, RoundIs, In
  <2>2. QED BY <1>2, <1>f, <1>s, <2>1 DEF Success, Verifying
<1>3. CASE SkipWarning
  <2> DEFINE o == [okta EXCEPT !.round = @ + 1]
  <2>1. okta.at = "round" /\ okta.round < MaxRounds /\ Answered(o, seen)
    BY <1>3 DEF SkipWarning, RoundIs, In
  <2>2. o \in OktaRecords /\ o.at = "round"
    BY <1>n, <1>r, <2>1 DEF OktaRecords
  <2> HIDE DEF o
  <2>3. OktaOK(o, seen)
    BY <1>n, <2>1, <2>2 DEF OktaOK, Verifying
  <2>4. QED BY <1>0, <1>n, <2>1, <2>2, <2>3, OktaAnswers
<1>4. CASE ChooseFactor
  <2>1. CASE Refuses(seen)
    BY <1>f, <2>1
  <2>2. CASE \E factor \in {"push", "totp", "sms"} : Goes([okta EXCEPT !.at = factor], seen)
    <3>1. PICK factor \in {"push", "totp", "sms"} : Goes([okta EXCEPT !.at = factor], seen)
      BY <2>2
    <3> DEFINE o == [okta EXCEPT !.at = factor]
    <3>2. o \in OktaRecords /\ o.at = factor /\ o.round = okta.round
      BY <1>n DEF OktaRecords
    <3>3. okta.round < MaxRounds /\ okta.at = "round" /\ Goes(o, seen)
      BY <1>4, <3>1 DEF ChooseFactor, RoundIs, In
    <3> HIDE DEF o
    <3>4. QED BY <1>s, <3>2, <3>3 DEF Verifying
  <2>3. QED BY <1>4, <2>1, <2>2 DEF ChooseFactor
<1>5. CASE OtherStatus \/ OutOfRounds \/ OutOfPolls
  BY <1>5, <1>f DEF OtherStatus, OutOfRounds, OutOfPolls
<1>6. CASE PollVerify
  <2> DEFINE o == [okta EXCEPT !.polls = @ + 1]
  <2>1. okta.at = "polling" /\ okta.polls < MaxPolls /\ Answered(o, seen)
    BY <1>6 DEF PollVerify, In
  <2>2. o \in OktaRecords /\ o.at = "polling" /\ o.round = okta.round
    BY <1>n, <1>p, <2>1 DEF OktaRecords
  <2> HIDE DEF o
  <2>3. OktaOK(o, seen)
    BY <1>n, <2>1, <2>2 DEF OktaOK, Verifying
  <2>4. QED BY <1>0, <1>n, <2>1, <2>2, <2>3, OktaAnswers
<1>7. CASE AnswerTotp
  <2> DEFINE o == [okta EXCEPT !.at = "round", !.round = @ + 1]
  <2>1. okta.at = "totp" /\ Answered(o, seen)
    BY <1>7 DEF AnswerTotp, In
  <2>2. okta.round < MaxRounds
    BY <1>n, <2>1 DEF OktaOK
  <2>3. o \in OktaRecords /\ o.at = "round"
    BY <1>n, <1>r, <2>2 DEF OktaRecords
  <2> HIDE DEF o
  <2>4. OktaOK(o, seen)
    BY <1>n, <2>1, <2>3 DEF OktaOK, Verifying
  <2>5. QED BY <1>0, <1>n, <2>1, <2>3, <2>4, OktaAnswers
<1>8. CASE SamlRequest
  <2>1. [okta EXCEPT !.at = "cookie"] \in OktaRecords /\ [okta EXCEPT !.at = "cookie"].at = "cookie"
        /\ okta.at = "saml"
    BY <1>8, <1>n DEF OktaRecords, SamlRequest, In
  <2>2. QED BY <1>0, <1>8, <1>f, <1>s, <2>1, OktaCaptures DEF SamlRequest, Verifying
<1>9. CASE SessionCookie
  <2>1. [okta EXCEPT !.at = "hop"] \in OktaRecords /\ [okta EXCEPT !.at = "hop"].at = "hop"
        /\ okta.at = "cookie"
    BY <1>9, <1>n DEF OktaRecords, SessionCookie, In
  <2>2. QED BY <1>9, <1>f, <1>s, <2>1 DEF SessionCookie, Verifying
<1>10. CASE FollowForm
  <2> DEFINE o == [okta EXCEPT !.hops = @ + 1]
  <2>1. okta.at = "hop" /\ (Refuses(seen) \/ Captures \/ (okta.hops < MaxHops /\ Goes(o, seen)))
    BY <1>10 DEF FollowForm, In
  <2>2. okta.hops < MaxHops => o \in OktaRecords /\ o.at = okta.at
    BY <1>h, <1>n DEF OktaRecords
  <2> HIDE DEF o
  <2>3. QED BY <1>0, <1>f, <1>s, <2>1, <2>2, OktaCaptures DEF Verifying
<1>11. QED BY <1>1, <1>2, <1>3, <1>4, <1>5, <1>6, <1>7, <1>8, <1>9, <1>10

\* The steps that begin a factor or decide it.
LEMMA OktaFactors ==
  ASSUME LoginInv, SendPush \/ PushDecided \/ TriggerSms \/ AnswerSms
  PROVE  OktaGoes
<1>0. RunsOkta /\ okta.at \in {"push", "polling", "sms", "smsCode"}
  BY DEF SendPush, PushDecided, TriggerSms, AnswerSms, In, RunsOkta
<1>n. /\ seen \in SeenRecords /\ okta \in OktaRecords /\ OktaOK(okta, seen)
      /\ seen.outcome = "running" /\ seen.stale = {}
      /\ seen.challenge = IF okta.at \in Verifying THEN "pending" ELSE "none"
  BY <1>0, OktaNow
<1>a. /\ FactorAsked(seen) \in SeenRecords /\ FactorAsked(seen).outcome = "running"
      /\ FactorAsked(seen).passwords = seen.passwords
      /\ FactorAsked(seen).challenge = "pending" /\ FactorAsked(seen).stale = {}
      /\ FactorAnswered(seen) \in SeenRecords /\ FactorAnswered(seen).outcome = "running"
      /\ FactorAnswered(seen).passwords = seen.passwords
      /\ FactorAnswered(seen).challenge = "none" /\ FactorAnswered(seen).stale = {}
  BY <1>n, FactorFields
<1>r. okta.round < MaxRounds /\ okta.round \in 0 .. MaxRounds
  BY <1>0, <1>n DEF OktaOK, OktaRecords, Verifying
<1>m. okta.round + 1 \in 0 .. MaxRounds
  BY <1>r, OktaAssumption
<1>d. ASSUME okta.at \in Verifying, NEW o \in OktaRecords, o.at = "round",
             Goes(o, FactorAnswered(seen))
      PROVE  OktaGoes
  <2>1. OktaOK(o, FactorAnswered(seen)) /\ Kept(seen, FactorAnswered(seen))
    BY <1>a, <1>d, <1>n DEF OktaOK, Kept, Verifying
  <2>2. QED BY <1>0, <1>a, <1>d, <2>1, OktaMoves
<1>1. CASE SendPush
  <2> DEFINE o == [okta EXCEPT !.at = "polling", !.polls = 0]
  <2>1. okta.at = "push" /\ Answered(o, FactorAsked(seen))
    BY <1>1 DEF SendPush, In
  <2>2. 0 \in 0 .. MaxPolls
    BY OktaAssumption
  <2>3. o \in OktaRecords /\ o.at = "polling" /\ o.round = okta.round
    BY <1>n, <2>2 DEF OktaRecords
  <2> HIDE DEF o
  <2>4. OktaOK(o, FactorAsked(seen)) /\ seen.challenge = "none"
    BY <1>a, <1>n, <1>r, <2>1, <2>3 DEF OktaOK, Verifying
  <2>5. QED BY <1>0, <1>a, <2>1, <2>3, <2>4, OktaAnswers
<1>2. CASE PushDecided
  <2> DEFINE o == [okta EXCEPT !.at = "round", !.round = @ + 1]
  <2>1. okta.at = "polling" /\ Goes(o, FactorAnswered(seen))
    BY <1>2 DEF PushDecided, In
  <2>2. o \in OktaRecords /\ o.at = "round"
    BY <1>m, <1>n DEF OktaRecords
  <2> HIDE DEF o
  <2>3. QED BY <1>d, <2>1, <2>2 DEF Verifying
<1>3. CASE TriggerSms
  <2> DEFINE o == [okta EXCEPT !.at = "smsCode"]
  <2>1. okta.at = "sms" /\ (Refuses(seen) \/ Goes(o, FactorAsked(seen)))
    BY <1>3 DEF TriggerSms, In
  <2>2. o \in OktaRecords /\ o.at = "smsCode" /\ o.round = okta.round
    BY <1>n DEF OktaRecords
  <2> HIDE DEF o
  <2>3. OktaOK(o, FactorAsked(seen)) /\ Kept(seen, FactorAsked(seen))
    BY <1>a, <1>n, <1>r, <2>1, <2>2 DEF OktaOK, Kept, Verifying
  <2>4. QED BY <1>0, <1>a, <1>n, <2>1, <2>2, <2>3, OktaFails, OktaMoves
<1>4. CASE AnswerSms
  <2>1. CASE Refuses(seen)
    BY <1>0, <1>n, <2>1, OktaFails
  <2>2. CASE \E status \in Statuses :
             Goes([okta EXCEPT !.at = "round", !.round = @ + 1, !.status = status],
                  FactorAnswered(seen))
    <3>1. PICK status \in Statuses :
             Goes([okta EXCEPT !.at = "round", !.round = @ + 1, !.status = status],
                  FactorAnswered(seen))
      BY <2>2
    <3> DEFINE o == [okta EXCEPT !.at = "round", !.round = @ + 1, !.status = status]
    <3>2. okta.at = "smsCode" /\ Goes(o, FactorAnswered(seen))
      BY <1>4, <3>1 DEF AnswerSms, In
    <3>3. o \in OktaRecords /\ o.at = "round"
      BY <1>m, <1>n DEF OktaRecords
    <3> HIDE DEF o
    <3>4. QED BY <1>d, <3>2, <3>3 DEF Verifying
  <2>3. QED BY <1>4, <2>1, <2>2 DEF AnswerSms
<1>5. QED BY <1>1, <1>2, <1>3, <1>4

\* What an answer of the Identity Engine leaves at hand.
LEMMA HandleFields ==
  ASSUME NEW o \in OktaRecords
  PROVE  /\ HandleIsNew(o) \in OktaRecords /\ HandleIsNew(o).at = o.at
         /\ HandleIsNew(o).round = o.round /\ HandleIsNew(o).newest = TRUE
BY DEF HandleIsNew, OktaRecords

LEMMA OktaRemediation ==
  ASSUME LoginInv, OieSteps
  PROVE  OktaGoes
<1>0. /\ RunsOkta
      /\ okta.at \in {"introspect", "identify", "remedy", "oiePoll", "oieAnswer"}
  BY DEF OieSteps, Introspect, Identify, Remedies, OieSuccess, OieSkip, OieChallenge, OieAnswer,
     OiePoll, OieOutOfPolls, OieGivesUp, In, RunsOkta
<1>n. /\ seen \in SeenRecords /\ okta \in OktaRecords /\ OktaOK(okta, seen)
      /\ seen.outcome = "running" /\ seen.stale = {}
      /\ seen.challenge = IF okta.at \in Verifying THEN "pending" ELSE "none"
  BY <1>0, OktaNow
<1>f. Refuses(seen) => OktaGoes
  BY <1>0, <1>n, OktaFails
<1>h. okta.at # "introspect" =>
        /\ Handle(seen) \in SeenRecords /\ Handle(seen).outcome = "running"
        /\ Handle(seen).passwords = seen.passwords /\ Handle(seen).challenge = seen.challenge
        /\ Handle(seen).stale = {}
  <2>1. okta.newest \in BOOLEAN /\ (okta.at # "introspect" => okta.newest = TRUE)
    BY <1>0, <1>n DEF OktaOK, OktaRecords
  <2>2. QED BY <1>n, <2>1, TokenFields, AgeOfNewest DEF Handle
<1>r. okta.round \in 0 .. MaxRounds /\ okta.polls \in 0 .. MaxPolls
  BY <1>n DEF OktaRecords
<1>m. okta.round < MaxRounds => okta.round + 1 \in 0 .. MaxRounds
  BY <1>r, OktaAssumption
<1>v. okta.at \in Verifying => okta.round < MaxRounds
  BY <1>n DEF OktaOK
\* The round goes on with the handle of the answer.
<1>g. ASSUME NEW o \in OktaRecords, NEW s \in SeenRecords, Goes(HandleIsNew(o), s),
             s.outcome = "running", s.stale = {}, Kept(seen, s),
             o.at \in {"identify", "remedy", "oiePoll", "oieAnswer"},
             o.at = "identify" => s.passwords = 0,
             s.challenge = "pending" <=> o.at \in Verifying,
             o.at \in Verifying => o.round < MaxRounds
      PROVE  OktaGoes
  <2>1. /\ HandleIsNew(o) \in OktaRecords /\ HandleIsNew(o).at = o.at
        /\ HandleIsNew(o).round = o.round /\ HandleIsNew(o).newest = TRUE
    BY HandleFields
  <2>2. OktaOK(HandleIsNew(o), s)
    BY <1>g, <2>1 DEF OktaOK, Verifying
  <2>3. QED BY <1>0, <1>g, <2>1, <2>2, OktaMoves
<1>1. CASE Introspect
  <2> DEFINE o == [okta EXCEPT !.at = "identify"]
  <2>1. okta.at = "introspect" /\ (Refuses(seen) \/ Goes(HandleIsNew(o), seen))
    BY <1>1 DEF Introspect, In
  <2>2. o \in OktaRecords /\ o.at = "identify"
    BY <1>n DEF OktaRecords
  <2> HIDE DEF o
  <2>3. seen.passwords = 0 /\ seen.challenge = "none" /\ Kept(seen, seen)
    BY <1>n, <2>1 DEF OktaOK, Verifying, Kept
  <2>4. QED BY <1>f, <1>g, <1>n, <2>1, <2>2, <2>3 DEF Verifying
<1>2. CASE Identify
  <2> DEFINE sent == PasswordSent(Handle(seen))
             o == [okta EXCEPT !.at = "remedy"]
  <2>1. okta.at = "identify" /\ (Refuses(sent) \/ Goes(HandleIsNew(o), sent))
    BY <1>2 DEF Identify, In
  <2>2. seen.passwords = 0 /\ seen.challenge = "none"
    BY <1>n, <2>1 DEF OktaOK, Verifying
  <2>3. /\ sent \in SeenRecords /\ sent.outcome = "running" /\ sent.passwords = 1
        /\ sent.challenge = "none" /\ sent.stale = {}
    BY <1>h, <2>1, <2>2, PasswordFields
  <2>4. o \in OktaRecords /\ o.at = "remedy"
    BY <1>n DEF OktaRecords
  <2> HIDE DEF o, sent
  <2>5. Kept(seen, sent)
    BY <1>n, <2>2, <2>3 DEF Kept
  <2>6. Refuses(sent) => OktaGoes
    BY <1>0, <2>2, <2>3, OktaFails
  <2>7. QED BY <1>g, <2>1, <2>3, <2>4, <2>5, <2>6 DEF Verifying
<1>3. CASE OieSuccess
  BY <1>0, <1>3, OktaCaptures DEF OieSuccess, Remedies, In, Verifying
<1>4. CASE OieSkip
  <2> DEFINE sent == Handle(seen)
             o == [okta EXCEPT !.round = @ + 1]
  <2>1. /\ okta.at = "remedy" /\ okta.round < MaxRounds
        /\ Refuses(sent) \/ Goes(HandleIsNew(o), sent)
    BY <1>4 DEF OieSkip, Remedies, In
  <2>2. o \in OktaRecords /\ o.at = "remedy"
    BY <1>m, <1>n, <2>1 DEF OktaRecords
  <2>3. /\ sent \in SeenRecords /\ sent.outcome = "running" /\ sent.passwords = seen.passwords
        /\ sent.challenge = "none" /\ sent.stale = {} /\ seen.challenge = "none"
    BY <1>h, <1>n, <2>1 DEF Verifying
  <2> HIDE DEF o, sent
  <2>4. Kept(seen, sent)
    BY <1>n, <2>3 DEF Kept
  <2>5. Refuses(sent) => OktaGoes
    BY <1>0, <2>3, OktaFails
  <2>6. QED BY <1>g, <2>1, <2>2, <2>3, <2>4, <2>5 DEF Verifying
<1>5. CASE OieChallenge
  <2> DEFINE sent == FactorAsked(Handle(seen))
             p == [okta EXCEPT !.at = "oiePoll", !.polls = 0]
             o == [okta EXCEPT !.at = "oieAnswer"]
  <2>1. /\ okta.at = "remedy" /\ okta.round < MaxRounds
        /\ Refuses(sent) \/ Goes(HandleIsNew(p), sent) \/ Goes(HandleIsNew(o), sent)
    BY <1>5 DEF OieChallenge, Remedies, In
  <2>0. 0 \in 0 .. MaxPolls
    BY OktaAssumption
  <2>2. /\ o \in OktaRecords /\ o.at = "oieAnswer" /\ o.round = okta.round
        /\ p \in OktaRecords /\ p.at = "oiePoll" /\ p.round = okta.round
    BY <1>n, <2>0 DEF OktaRecords
  <2>3. /\ sent \in SeenRecords /\ sent.outcome = "running" /\ sent.passwords = seen.passwords
        /\ sent.challenge = "pending" /\ sent.stale = {} /\ seen.challenge = "none"
    BY <1>h, <1>n, <2>1, FactorFields DEF Verifying
  <2> HIDE DEF o, p, sent
  <2>4. Kept(seen, sent)
    BY <1>n, <2>3 DEF Kept
  <2>5. Refuses(sent) => OktaGoes
    BY <1>0, <2>3, OktaFails
  <2>6. QED BY <1>g, <2>1, <2>2, <2>3, <2>4, <2>5 DEF Verifying
<1>6. CASE OieAnswer \/ OiePoll
  <2> DEFINE sent == Handle(seen)
             done == [okta EXCEPT !.at = "remedy", !.round = @ + 1]
             again == [okta EXCEPT !.polls = @ + 1]
  <2>1. /\ okta.at \in {"oiePoll", "oieAnswer"}
        /\ \/ Refuses(seen) \/ Refuses(sent) \/ Goes(HandleIsNew(done), FactorAnswered(sent))
           \/ okta.at = "oiePoll" /\ okta.polls < MaxPolls /\ Goes(HandleIsNew(again), sent)
    BY <1>6 DEF OieAnswer, OiePoll, In
  <2>2. okta.round < MaxRounds /\ okta.round + 1 \in 0 .. MaxRounds
    BY <1>m, <1>v, <2>1 DEF Verifying
  <2>p. okta.polls < MaxPolls => okta.polls + 1 \in 0 .. MaxPolls
    BY <1>r, OktaAssumption
  <2>3. /\ done \in OktaRecords /\ done.at = "remedy"
        /\ okta.polls < MaxPolls => again \in OktaRecords /\ again.at = okta.at
                                    /\ again.round = okta.round
    BY <1>n, <2>2, <2>p DEF OktaRecords
  <2>4. /\ sent \in SeenRecords /\ sent.outcome = "running" /\ sent.passwords = seen.passwords
        /\ sent.challenge = "pending" /\ sent.stale = {} /\ seen.challenge = "pending"
    BY <1>h, <1>n, <2>1 DEF Verifying
  <2>5. /\ FactorAnswered(sent) \in SeenRecords /\ FactorAnswered(sent).outcome = "running"
        /\ FactorAnswered(sent).passwords = seen.passwords
        /\ FactorAnswered(sent).challenge = "none" /\ FactorAnswered(sent).stale = {}
    BY <2>4, FactorFields
  <2> HIDE DEF done, again, sent
  <2>6. Kept(seen, sent) /\ Kept(seen, FactorAnswered(sent))
    BY <1>n, <2>4, <2>5 DEF Kept
  <2>7. Refuses(sent) => OktaGoes
    BY <1>0, <2>4, OktaFails
  <2>8. Goes(HandleIsNew(done), FactorAnswered(sent)) => OktaGoes
    BY <1>g, <2>3, <2>5, <2>6 DEF Verifying
  <2>9. okta.at = "oiePoll" /\ okta.polls < MaxPolls /\ Goes(HandleIsNew(again), sent) => OktaGoes
    BY <1>g, <2>2, <2>3, <2>4, <2>6 DEF Verifying
  <2>10. QED BY <1>f, <2>1, <2>7, <2>8, <2>9
<1>7. CASE OieOutOfPolls \/ OieGivesUp
  BY <1>7, <1>f DEF OieOutOfPolls, OieGivesUp
<1>8. QED BY <1>1, <1>2, <1>3, <1>4, <1>5, <1>6, <1>7 DEF OieSteps

LEMMA OktaStep ==
  ASSUME LoginInv, OktaSteps \/ OieSteps
  PROVE  OktaGoes
BY OktaTransaction, OktaFactors, OktaRemediation DEF OktaSteps

-----------------------------------------------------------------------------
(* Every step of a login. *)

LEMMA LoginInvInit ==
  ASSUME ScriptedInit
  PROVE  LoginInv /\ Promise!Init
<1>1. LoginInv
  <2>0. /\ 0 \in 0 .. 1 /\ 0 \in 0 .. MaxBssoHops /\ 0 \in 0 .. MaxCodes /\ 0 \in 0 .. MaxRelays
        /\ 0 \in 0 .. MaxRounds /\ 0 \in 0 .. MaxPolls /\ 0 \in 0 .. MaxHops
    BY EntraAssumption, OktaAssumption
  <2>1. /\ seen \in SeenRecords /\ seen.passwords = 0 /\ seen.challenge = "none" /\ seen.stale = {}
    BY <2>0 DEF ScriptedInit, SeenInit, SeenRecords
  <2>2. /\ entra \in EntraRecords /\ entra.signins = 0 /\ entra.at = "prelogin"
    BY <2>0 DEF ScriptedInit, EntraInit, EntraRecords, Pages, ConfigPages, Ages
  <2>3. /\ okta \in OktaRecords /\ okta.at \in {"authn", "introspect"}
    BY <2>0 DEF ScriptedInit, OktaInit, OktaRecords, Statuses
  <2>4. EntraOK(entra, seen) /\ OktaOK(okta, seen)
    BY <2>1, <2>2, <2>3 DEF EntraOK, OktaOK, Clean, Leg, Verifying
  <2>5. QED BY <2>1, <2>2, <2>3, <2>4 DEF ScriptedInit, LoginInv
<1>2. Promise!Init
  BY DEF ScriptedInit, SeenInit, Promise!Init
<1>3. QED BY <1>1, <1>2

LEMMA LoginInvStep ==
  ASSUME LoginInv, [ScriptedNext]_scriptedVars
  PROVE  LoginInv' /\ [Promise!Next]_(Promise!promiseVars)
<1>1. CASE (EntraSteps \/ EntraTime) /\ UNCHANGED okta
  <2>1. EntraGoes
    BY <1>1, EntraStep
  <2>2. LoginInv'
    BY <1>1, <2>1 DEF EntraGoes, LoginInv
  <2>3. QED BY <2>1, <2>2, KeptIsPromised DEF EntraGoes
<1>2. CASE (OktaSteps \/ OieSteps) /\ UNCHANGED <<entra, overdue>>
  <2>1. OktaGoes
    BY <1>2, OktaStep
  <2>2. LoginInv'
    BY <1>2, <2>1 DEF OktaGoes, LoginInv
  <2>3. QED BY <2>1, <2>2, KeptIsPromised DEF OktaGoes
<1>3. CASE UNCHANGED scriptedVars
  BY <1>3 DEF scriptedVars, LoginInv, Promise!promiseVars
<1>4. QED BY <1>1, <1>2, <1>3 DEF ScriptedNext, ScriptedEnded

\* The types of a scripted login's state hold in all its states.
THEOREM ScriptedTyping == ScriptedSpec => []ScriptedTypeOK
<1>1. ScriptedInit => LoginInv
  BY LoginInvInit
<1>2. LoginInv /\ [ScriptedNext]_scriptedVars => LoginInv'
  BY LoginInvStep
<1>3. LoginInv => ScriptedTypeOK
  BY DEF LoginInv, ScriptedTypeOK, SeenTypeOK, EntraTypeOK, OktaTypeOK, SeenRecords, EntraRecords,
     OktaRecords
<1>4. QED BY <1>1, <1>2, <1>3, PTL DEF ScriptedSpec

\* Whatever page, answer or poll issued it, the pair of tokens or the handle that
\* a request carries is the newest one (FlowState::absorb, mfa_leg, poll_push,
\* oie_poll_push), but for the polls and codes of the Entra factor leg after an
\* answer that decided nothing.
THEOREM ScriptedFresh == ScriptedSpec => []NothingStaleIsSent
<1>1. ScriptedInit => LoginInv
  BY LoginInvInit
<1>2. LoginInv /\ [ScriptedNext]_scriptedVars => LoginInv'
  BY LoginInvStep
<1>3. LoginInv => NothingStaleIsSent
  BY DEF LoginInv, EntraOK, OktaOK, Clean, NothingStaleIsSent
<1>4. QED BY <1>1, <1>2, <1>3, PTL DEF ScriptedSpec

\* The steps of the three flows are steps of the promise: the password leaves
\* unasked once, a factor is begun when none is pending, and a capture leaves
\* none pending (run_headless, okta_authenticate, okta_authenticate_oie).
THEOREM ScriptedKeepsPromise == ScriptedSpec => KeepsPromise
<1>1. ScriptedInit => LoginInv /\ Promise!Init
  BY LoginInvInit
<1>2. LoginInv /\ [ScriptedNext]_scriptedVars => LoginInv' /\ [Promise!Next]_(Promise!promiseVars)
  BY LoginInvStep
<1>3. QED BY <1>1, <1>2, PTL DEF ScriptedSpec, KeepsPromise, Promise!SafeSpec
=============================================================================
