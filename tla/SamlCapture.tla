---------------------------- MODULE SamlCapture ----------------------------
(***************************************************************************)
(* The paste flow of a SAML login, crates/gp-auth/src/saml_paste.rs: the   *)
(* user hands a `globalprotectcallback:` URL back, in the terminal or to a *)
(* local HTTP listener, whichever is first, within the gateway's time.     *)
(*                                                                         *)
(* One thread runs the flow.  It turns the terminal's echo off behind a    *)
(* guard that a signal handler shares, starts one thread per listener and  *)
(* a reader of standard input, waits for the first capture, stops them and *)
(* undoes the guard.  A reader of the Unix build polls a wake pipe beside  *)
(* the terminal; a reader of the Windows build holds the process's lock on *)
(* standard input across a blocking read that can only be cancelled from   *)
(* outside, and is left behind when it does not answer.                    *)
(*                                                                         *)
(* A line of the terminal is a callback, or something else; captures are   *)
(* counted and not told apart.                                             *)
(***************************************************************************)
EXTENDS Naturals, Sequences

CONSTANTS Listeners,    \* the addresses a listener may be bound to
          Loopback,     \* the one that is always bound
          MaxFlows,     \* bound: paste flows of one process
          MaxLines      \* bound: lines the user types

ASSUME CaptureAssumption ==
    /\ Loopback \in Listeners
    /\ MaxFlows \in Nat \ {0}
    /\ MaxLines \in Nat

Flows == 1 .. MaxFlows

VARIABLES
    os,        \* the build: "unix" or "windows"
    main,      \* the thread of the flow: where it is, which flow, how it went
    tty,       \* echo, the SIGINT/SIGTERM handlers, SAVED_TERMIOS
    sig,       \* a signal being handled
    http,      \* per listener, its thread
    readers,   \* per flow, its reader of standard input
    chan,      \* captures in the flow's channel
    stop,      \* per flow, its shutdown flag
    late,      \* the time the gateway allows has passed
    input,     \* lines nobody has read yet
    typed,     \* lines typed so far
    eof,       \* standard input has been closed behind them
    lost       \* lines a reader took from behind the callback it found

flowVars == <<tty, http, readers, chan, stop, late>>
termVars == <<input, typed, eof, lost>>
vars == <<os, main, sig, flowVars, termVars>>

Lines == {"callback", "other"}

\* Where the flow's thread is between the entry of run_paste_flow and its return.
InFlow == main.at \in {"guard", "publish", "quiet", "bind", "spawn", "ack", "wait", "recv",
                       "stop", "join", "cancel", "await", "drop", "swap", "free", "unhook"}

Alive == main.at \notin {"failed", "closed"} /\ sig.at # "exited"

\* The time in which something asks for a line, or waits for a connection, and
\* (bound) no handler is at work: people act in no other.
Asked == /\ Alive /\ sig.at = "idle"
         /\ main.at \in {"ack", "wait", "recv", "stop", "join", "cancel", "await",
                         "drop", "ask", "prompt"}

At(here) == main.at = here /\ Alive
GoTo(there) == main' = [main EXCEPT !.at = there]
EndWith(result, there) == main' = [main EXCEPT !.at = there, !.ok = result]

me == main.flow
Reader == readers[me]
ReaderAt(here) == me > 0 /\ Reader.at = here

\* The states of a Windows reader in which it holds the lock on standard input;
\* a prompt that waits for a line holds it too.
Holding == {"check", "arming", "reading", "aborted"}
LockFree == main.at # "prompt" /\ \A f \in Flows : readers[f].at \notin Holding

---------------------------------------------------------------------------
(* The terminal guard.                                                     *)

\* Nothing to do for input that is no terminal, or whose settings cannot be read.
GuardIsInert ==
    /\ At("guard")
    /\ GoTo("bind")
    /\ UNCHANGED <<os, sig, flowVars, termVars>>

GuardInstallsHandlers ==
    /\ At("guard")
    /\ tty' = [tty EXCEPT !.handlers = "ours"]
    /\ GoTo("publish")
    /\ UNCHANGED <<os, sig, http, readers, chan, stop, late, termVars>>

GuardPublishes ==
    /\ At("publish")
    /\ tty' = [tty EXCEPT !.saved = "live"]
    /\ GoTo("quiet")
    /\ UNCHANGED <<os, sig, http, readers, chan, stop, late, termVars>>

\* Setting the terminal (TCSAFLUSH) throws away what was typed and not read.
Flush == input' = <<>> /\ UNCHANGED <<typed, eof, lost>>

GuardTurnsEchoOff ==
    /\ At("quiet")
    /\ tty' = [tty EXCEPT !.echo = FALSE, !.active = TRUE]
    /\ Flush
    /\ GoTo("bind")
    /\ UNCHANGED <<os, sig, http, readers, chan, stop, late>>

\* tcsetattr refused: the guard takes the box and the handlers back.
GuardRollsBack ==
    /\ At("quiet")
    /\ tty' = [tty EXCEPT !.saved = "freed", !.handlers = "default"]
    /\ GoTo("bind")
    /\ UNCHANGED <<os, sig, http, readers, chan, stop, late, termVars>>

\* FAULT: the pointer is taken back before the settings are.
FaultyDropSteps ==
    [ drop   |-> [next |-> "swap",     tty |-> [tty EXCEPT !.saved = "swapped"]],
      swap   |-> [next |-> "free",     tty |-> [tty EXCEPT !.echo = TRUE]],
      free   |-> [next |-> "unhook",   tty |-> [tty EXCEPT !.saved = "freed"]],
      unhook |-> [next |-> "returned", tty |-> [tty EXCEPT !.handlers = "default", !.active = FALSE]] ]

\* TtyEchoGuard::drop: settings, pointer, box, handlers, in this order.
GuardDropSteps ==
    [ drop   |-> [next |-> "swap",     tty |-> [tty EXCEPT !.echo = TRUE]],
      swap   |-> [next |-> "free",     tty |-> [tty EXCEPT !.saved = "swapped"]],
      free   |-> [next |-> "unhook",   tty |-> [tty EXCEPT !.saved = "freed"]],
      unhook |-> [next |-> "returned", tty |-> [tty EXCEPT !.handlers = "default", !.active = FALSE]] ]

GuardDrops ==
    /\ Alive
    /\ main.at \in DOMAIN GuardDropSteps
    /\ IF tty.active
       THEN /\ tty' = GuardDropSteps[main.at].tty
            /\ GoTo(GuardDropSteps[main.at].next)
            /\ IF main.at = "drop" THEN Flush ELSE UNCHANGED termVars
       ELSE /\ GoTo("returned")
            /\ UNCHANGED <<tty, termVars>>
    /\ UNCHANGED <<os, sig, http, readers, chan, stop, late>>

\* SIGINT or SIGTERM on the flow's thread, which the handler holds up: it
\* restores what SAVED_TERMIOS points to, if anything, and ends the process.
\* So does the default action, which restores nothing.
Settings == IF tty.handlers = "ours" /\ tty.saved = "live" THEN TRUE ELSE tty.echo

SignalOnFlow ==
    /\ os = "unix" /\ Alive /\ InFlow /\ sig.at = "idle"
    /\ sig' = [sig EXCEPT !.at = "exited", !.flow = me]
    /\ tty' = [tty EXCEPT !.echo = Settings]
    /\ UNCHANGED <<os, main, http, readers, chan, stop, late, termVars>>

\* On another thread it runs beside the flow.  It begins by loading the pointer;
\* `sound` says that the flow cannot have crossed it.
SignalElsewhere ==
    /\ os = "unix" /\ Alive /\ InFlow /\ sig.at = "idle" /\ tty.handlers = "ours"
    /\ sig' = [at |-> "loaded", flow |-> me, sound |-> ~tty.echo,
               box |-> IF tty.saved = "live" THEN "live" ELSE "none"]
    /\ UNCHANGED <<os, main, flowVars, termVars>>

\* It restores what the pointer leads to.  Behind a freed pointer that is
\* undefined: the terminal may end up either way.
HandlerRestores ==
    /\ Alive /\ sig.at = "loaded"
    /\ \E echo \in BOOLEAN :
          /\ (sig.box = "none") => (echo = tty.echo)
          /\ (sig.box = "live" /\ tty.saved # "freed") => echo
          /\ tty' = [tty EXCEPT !.echo = echo]
    /\ IF sig.box = "live" THEN Flush ELSE UNCHANGED termVars
    /\ sig' = [sig EXCEPT !.at = "restored",
                          !.sound = @ /\ ~(sig.box = "live" /\ tty.saved = "freed")]
    /\ UNCHANGED <<os, main, http, readers, chan, stop, late>>

HandlerExits ==
    /\ Alive /\ sig.at = "restored"
    /\ sig' = [sig EXCEPT !.at = "exited", !.sound = @ /\ sig.flow = me]
    /\ UNCHANGED <<os, main, flowVars, termVars>>

---------------------------------------------------------------------------
(* The flow's thread.                                                      *)

\* run_paste_flow is entered: a channel, a flag and a deadline of its own.
BeginFlow ==
    /\ main' = [main EXCEPT !.flow = @ + 1, !.ok = FALSE, !.handle = FALSE,
                            !.issued = FALSE, !.graceOver = FALSE,
                            !.at = IF os = "unix" THEN "guard" ELSE "bind"]
    /\ late' = FALSE
    /\ chan' = 0
    /\ http' = [l \in Listeners |-> "none"]
    /\ UNCHANGED <<os, sig, tty, readers, stop, termVars>>

\* The launch page, the loopback listener or the wake pipe cannot be had.
CannotBind ==
    /\ At("bind")
    /\ EndWith(FALSE, "drop")
    /\ UNCHANGED <<os, sig, flowVars, termVars>>

\* The loopback listener, on Unix maybe another beside it.
Bind ==
    /\ At("bind")
    /\ \E bound \in SUBSET Listeners :
          /\ Loopback \in bound
          /\ (os = "windows") => (bound = {Loopback})
          /\ http' = [l \in Listeners |-> IF l \in bound THEN "bound" ELSE "none"]
    /\ GoTo("spawn")
    /\ UNCHANGED <<os, sig, tty, readers, chan, stop, late, termVars>>

Spawned == [l \in Listeners |-> IF http[l] = "bound" THEN "accept" ELSE http[l]]

\* All the threads start; a Windows build whose input is no console has no reader.
SpawnWorkers ==
    /\ At("spawn")
    /\ http' = Spawned
    /\ \/ /\ readers' = [readers EXCEPT ![me].at = IF os = "unix" THEN "poll" ELSE "locking"]
          /\ GoTo(IF os = "unix" THEN "wait" ELSE "ack")
       \/ /\ os = "windows"
          /\ GoTo("wait")
          /\ UNCHANGED readers
    /\ UNCHANGED <<os, sig, tty, chan, stop, late, termVars>>

\* A thread cannot be started: the flow ends at once, the threads before it live on.
SpawnFails ==
    /\ At("spawn")
    /\ \E started \in SUBSET {l \in Listeners : http[l] = "bound"} :
          /\ (started # {}) => (Loopback \in started)
          /\ http' = [l \in Listeners |-> IF l \in started THEN "accept" ELSE "none"]
    /\ EndWith(FALSE, "drop")
    /\ UNCHANGED <<os, sig, tty, readers, chan, stop, late, termVars>>

\* Windows: the reader's handle arrives, or its sender is dropped, or two
\* seconds pass without either.
AckArrives ==
    /\ At("ack")
    /\ Reader.acked # "no"
    /\ main' = [main EXCEPT !.at = "wait", !.handle = (Reader.acked = "handle")]
    /\ UNCHANGED <<os, sig, flowVars, termVars>>

AckTimesOut ==
    /\ At("ack")
    /\ Reader.acked = "no"
    /\ GoTo("wait")
    /\ UNCHANGED <<os, sig, flowVars, termVars>>

\* wait_for_capture: the deadline is looked at before every slice of waiting.
WaitSlice ==
    /\ At("wait")
    /\ IF late THEN EndWith(FALSE, "stop") ELSE GoTo("recv")
    /\ UNCHANGED <<os, sig, flowVars, termVars>>

TakeCapture ==
    /\ At("recv")
    /\ chan > 0
    /\ chan' = chan - 1
    /\ EndWith(TRUE, "stop")
    /\ UNCHANGED <<os, sig, tty, http, readers, stop, late, termVars>>

\* Every sender is gone.
ChannelCloses ==
    /\ At("recv")
    /\ chan = 0
    /\ \A l \in Listeners : http[l] \in {"none", "done"}
    /\ Reader.at \in {"none", "done"}
    /\ EndWith(FALSE, "stop")
    /\ UNCHANGED <<os, sig, flowVars, termVars>>

SliceEnds ==
    /\ At("recv")
    /\ chan = 0
    /\ GoTo("wait")
    /\ UNCHANGED <<os, sig, flowVars, termVars>>

\* The flag, the wake pipe's write end and a connection to every listener.
StopWorkers ==
    /\ At("stop")
    /\ stop' = [stop EXCEPT ![me] = TRUE]
    /\ GoTo("join")
    /\ UNCHANGED <<os, sig, tty, http, readers, chan, late, termVars>>

HttpGone == \A l \in Listeners : http[l] \in {"none", "done"}

\* FAULT: the reader of the Unix build is not joined.
FaultyJoinLeavesReader ==
    /\ At("join")
    /\ HttpGone
    /\ GoTo(IF main.handle THEN "cancel" ELSE "drop")
    /\ UNCHANGED <<os, sig, flowVars, termVars>>

\* FAULT: a reader without a handle is joined as well.
FaultyJoinWaits ==
    /\ At("join")
    /\ HttpGone
    /\ main.handle \/ Reader.at \in {"none", "done"}
    /\ GoTo(IF main.handle THEN "cancel" ELSE "drop")
    /\ UNCHANGED <<os, sig, flowVars, termVars>>

\* Unix joins every thread; Windows joins the listener and goes on to the
\* reader if it has a handle to cancel it by, and leaves it alone if not.
JoinWorkers ==
    /\ At("join")
    /\ HttpGone
    /\ (os = "unix") => (Reader.at \in {"none", "done"})
    /\ GoTo(IF main.handle THEN "cancel" ELSE "drop")
    /\ UNCHANGED <<os, sig, flowVars, termVars>>

\* shutdown_stdin_reader_with: cancel the read, once one was found to cancel;
\* look whether the thread has ended; again, until the grace is over.
CancelRead ==
    /\ At("cancel")
    /\ LET found == ~main.issued /\ Reader.at = "reading" /\ ~Reader.frozen IN
       /\ readers' = [readers EXCEPT ![me].at = IF found THEN "aborted" ELSE @]
       /\ main' = [main EXCEPT !.at = "await", !.issued = @ \/ found]
    /\ UNCHANGED <<os, sig, tty, http, chan, stop, late, termVars>>

ReapReader ==
    /\ At("await")
    /\ Reader.at = "done"
    /\ GoTo("drop")
    /\ UNCHANGED <<os, sig, flowVars, termVars>>

CancelAgain ==
    /\ At("await")
    /\ Reader.at # "done" /\ ~main.graceOver
    /\ GoTo("cancel")
    /\ UNCHANGED <<os, sig, flowVars, termVars>>

AbandonReader ==
    /\ At("await")
    /\ Reader.at # "done" /\ main.graceOver
    /\ GoTo("drop")
    /\ UNCHANGED <<os, sig, flowVars, termVars>>

GracePasses ==
    /\ Alive /\ main.at \in {"cancel", "await"} /\ ~main.graceOver
    /\ main' = [main EXCEPT !.graceOver = TRUE]
    /\ UNCHANGED <<os, sig, flowVars, termVars>>

CapPasses ==
    /\ Alive /\ main.at \in {"wait", "recv"} /\ ~late
    /\ late' = TRUE
    /\ UNCHANGED <<os, main, sig, tty, http, readers, chan, stop, termVars>>

---------------------------------------------------------------------------
(* The listeners' threads, http_server_loop.                               *)

\* A capture reaches the channel of flow f, if that flow still listens to it.
Send(f) == chan' = IF f = me /\ main.at \in {"ack", "wait", "recv"} THEN chan + 1 ELSE chan

HttpConnects(l) ==
    /\ Asked /\ http[l] = "accept" /\ ~stop[me]
    /\ http' = [http EXCEPT ![l] = "serve"]
    /\ UNCHANGED <<os, main, sig, tty, readers, chan, stop, late, termVars>>

\* The connection that unblocks accept(), after the flag is up.
HttpStops(l) ==
    /\ Alive /\ http[l] = "accept" /\ stop[me]
    /\ http' = [http EXCEPT ![l] = "done"]
    /\ UNCHANGED <<os, main, sig, tty, readers, chan, stop, late, termVars>>

\* The launch page, an error, or a callback: "captured" is answered, then sent.
HttpServes(l) ==
    /\ Alive /\ http[l] = "serve"
    /\ \/ /\ http' = [http EXCEPT ![l] = "accept"]
          /\ UNCHANGED chan
       \/ /\ http' = [http EXCEPT ![l] = "done"]
          /\ Send(me)
    /\ UNCHANGED <<os, main, sig, tty, readers, stop, late, termVars>>

---------------------------------------------------------------------------
(* The Unix reader, stdin_reader_loop.                                     *)

\* The write end of the wake pipe is closed by StopWorkers.
Woken == stop[me]

ReaderPolls ==
    /\ Alive /\ os = "unix" /\ ReaderAt("poll")
    /\ Woken \/ input # <<>> \/ eof
    /\ readers' = [readers EXCEPT ![me].at = IF Woken THEN "done" ELSE "read"]
    /\ UNCHANGED <<os, main, sig, tty, http, chan, stop, late, termVars>>

\* One read(2): some of the lines that are there.  The first callback among
\* them is sent and ends the reader.
FirstCallback(chunk) == CHOOSE i \in 1 .. Len(chunk) :
    /\ chunk[i] = "callback"
    /\ \A j \in 1 .. i - 1 : chunk[j] # "callback"

HasCallback(chunk) == \E i \in 1 .. Len(chunk) : chunk[i] = "callback"

ReaderReads ==
    /\ Alive /\ os = "unix" /\ ReaderAt("read") /\ input # <<>>
    /\ \E n \in 1 .. Len(input) :
          LET chunk == SubSeq(input, 1, n) IN
          /\ input' = SubSeq(input, n + 1, Len(input))
          /\ IF HasCallback(chunk)
             THEN /\ readers' = [readers EXCEPT ![me].at = "done"]
                  /\ lost' = lost + (n - FirstCallback(chunk))
                  /\ Send(me)
             ELSE /\ readers' = [readers EXCEPT ![me].at = "poll"]
                  /\ UNCHANGED <<lost, chan>>
    /\ UNCHANGED <<os, main, sig, tty, http, stop, late, typed, eof>>

ReaderMeetsTheEnd ==
    /\ Alive /\ os = "unix" /\ ReaderAt("read") /\ input = <<>> /\ eof
    /\ readers' = [readers EXCEPT ![me].at = "done"]
    /\ UNCHANGED <<os, main, sig, tty, http, chan, stop, late, termVars>>

---------------------------------------------------------------------------
(* The Windows readers, run_stdin_reader.                                  *)

\* stdin.lock(), then a real handle of this thread, shipped to the flow if it
\* still waits for it.
ReaderLocks(f) ==
    /\ Alive /\ readers[f].at = "locking" /\ LockFree
    /\ \E got \in {"handle", "none"} :
          readers' = [readers EXCEPT ![f].at = "check", ![f].acked = got]
    /\ UNCHANGED <<os, main, sig, tty, http, chan, stop, late, termVars>>

\* FAULT: the flag is not looked at before a read is armed again.
FaultyReaderChecks(f) ==
    /\ Alive /\ readers[f].at = "check"
    /\ readers' = [readers EXCEPT ![f].at = "arming"]
    /\ UNCHANGED <<os, main, sig, tty, http, chan, stop, late, termVars>>

ReaderChecks(f) ==
    /\ Alive /\ readers[f].at = "check"
    /\ readers' = [readers EXCEPT ![f].at = IF stop[f] THEN "done" ELSE "arming"]
    /\ UNCHANGED <<os, main, sig, tty, http, chan, stop, late, termVars>>

\* ReadFile becomes pending: a read the I/O manager owns, or a console's own wait.
ReaderArms(f) ==
    /\ Alive /\ readers[f].at = "arming"
    /\ \E frozen \in BOOLEAN :
          readers' = [readers EXCEPT ![f].at = "reading", ![f].frozen = frozen]
    /\ UNCHANGED <<os, main, sig, tty, http, chan, stop, late, termVars>>

Returned(f) == f # me \/ ~InFlow

ReaderTakes(f) ==
    /\ Alive /\ readers[f].at = "reading" /\ input # <<>>
    /\ input' = Tail(input)
    /\ readers' = [readers EXCEPT
          ![f].at = IF Head(input) = "callback" THEN "done" ELSE "check",
          ![f].after = IF Returned(f) THEN @ + 1 ELSE @]
    /\ IF Head(input) = "callback" THEN Send(f) ELSE UNCHANGED chan
    /\ UNCHANGED <<os, main, sig, tty, http, stop, late, typed, eof, lost>>

\* The cancelled read and the end of the input both return an error or nothing.
ReaderGivesUp(f) ==
    /\ Alive
    /\ \/ readers[f].at = "aborted"
       \/ readers[f].at = "reading" /\ input = <<>> /\ eof
    /\ readers' = [readers EXCEPT ![f].at = "done"]
    /\ UNCHANGED <<os, main, sig, tty, http, chan, stop, late, termVars>>

---------------------------------------------------------------------------
(* The user.                                                               *)

Type ==
    /\ Asked /\ ~eof /\ typed < MaxLines
    /\ \E line \in Lines : input' = Append(input, line)
    /\ typed' = typed + 1
    /\ UNCHANGED <<os, main, sig, flowVars, eof, lost>>

HangUp ==
    /\ Asked /\ ~eof
    /\ eof' = TRUE
    /\ UNCHANGED <<os, main, sig, flowVars, input, typed, lost>>

---------------------------------------------------------------------------

CaptureInit ==
    /\ os \in {"unix", "windows"}
    /\ tty = [echo |-> TRUE, handlers |-> "default", saved |-> "none", active |-> FALSE]
    /\ sig = [at |-> "idle", flow |-> 0, box |-> "none", sound |-> TRUE]
    /\ http = [l \in Listeners |-> "none"]
    /\ readers = [f \in Flows |-> [at |-> "none", acked |-> "no", frozen |-> FALSE, after |-> 0]]
    /\ chan = 0
    /\ stop = [f \in Flows |-> FALSE]
    /\ late = FALSE
    /\ input = <<>> /\ typed = 0 /\ eof = FALSE /\ lost = 0

\* The steps of the flow's own thread, from its entry to its return.
FlowSteps ==
    \/ GuardIsInert \/ GuardInstallsHandlers \/ GuardPublishes
    \/ GuardTurnsEchoOff \/ GuardRollsBack \/ GuardDrops
    \/ CannotBind \/ Bind \/ SpawnWorkers \/ SpawnFails
    \/ AckArrives \/ AckTimesOut
    \/ WaitSlice \/ TakeCapture \/ ChannelCloses \/ SliceEnds
    \/ StopWorkers \/ JoinWorkers
    \/ CancelRead \/ ReapReader \/ CancelAgain \/ AbandonReader

\* What its threads do of their own accord.
ThreadSteps ==
    \/ \E l \in Listeners : HttpStops(l) \/ HttpServes(l)
    \/ ReaderPolls \/ ReaderReads \/ ReaderMeetsTheEnd
    \/ \E f \in Flows : ReaderLocks(f) \/ ReaderChecks(f) \/ ReaderArms(f)
                        \/ ReaderTakes(f) \/ ReaderGivesUp(f)

HandlerSteps == HandlerRestores \/ HandlerExits

TimeSteps == CapPasses \/ GracePasses

CaptureSteps ==
    \/ FlowSteps \/ ThreadSteps \/ HandlerSteps \/ TimeSteps
    \/ \E l \in Listeners : HttpConnects(l)
    \/ SignalOnFlow \/ SignalElsewhere
    \/ Type \/ HangUp
=============================================================================
