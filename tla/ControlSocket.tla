---------------------------- MODULE ControlSocket ----------------------------
(***************************************************************************)
(* The control sockets of `opc connect` on Unix: one path per instance, in *)
(* a directory every process can list.  A session probes the path, removes *)
(* what is stale, binds, serves, and unlinks the path when it ends.  Each  *)
(* of these is a step of its own and takes no lock, and a process may die  *)
(* between any two.  A scan lists the directory, then connects to every    *)
(* socket it found; what it concludes is used later.                       *)
(***************************************************************************)
EXTENDS Naturals

CONSTANTS Sessions,    \* processes running `opc connect`
          Recoveries,  \* processes running `opc recover` or `opc disconnect`
          Instances,
          MaxFaults    \* bounds the failed calls and deaths of one behaviour

\* What is not a session's socket has a name that no session has.
ASSUME SocketAssumption ==
  /\ Sessions \intersect {"none", "stale", "junk", "past", "nobody"} = {}
  /\ Sessions \intersect Recoveries = {}

NoSocket == "none"
Stale == "stale"     \* of a process that died before the story begins
Junk == "junk"       \* a file that is no socket

ASSUME FaultsAssumption == MaxFaults \in Nat

VARIABLES instance,  \* the instance each session was started with
          sock,      \* whose socket lies at each instance's path
          stage,     \* how far each session is with its socket
          scan,      \* the latest scan of each scanner
          faults     \* how much has gone wrong

sockets == <<instance, sock, stage, scan>>

Fault == faults < MaxFaults /\ faults' = faults + 1
FaultIf(b) == IF b THEN Fault ELSE UNCHANGED faults

Scanners == Sessions \union Recoveries

Named == [Sessions -> Instances]
OldSockets == [Instances -> {NoSocket, Stale, Junk}]

Listening(s) == stage[s] \in {"bound", "serving"}
Ended(s) == stage[s] \in {"left", "dead"}
Own(s) == instance[s]
Reachable(s) == Listening(s) /\ sock[Own(s)] = s

Unscanned == [open |-> FALSE, complete |-> TRUE, todo |-> {},
              rows |-> [i \in Instances |-> "unlisted"]]

SocketInit == /\ stage \in [Sessions -> {"off", "left"}]
              /\ scan = [x \in Scanners |-> Unscanned]
              /\ faults = 0

(***************************************************************************)
(* connect() to an instance's path.  A listener answers or keeps the       *)
(* caller waiting; one whose task has been aborted may still answer.       *)
(***************************************************************************)
Served(i) == sock[i] \in Sessions /\ Listening(sock[i])
Closing(i) == sock[i] \in Sessions /\ stage[sock[i]] = "leaving"
Verdicts(i) == {"unknown"} \union (IF Served(i) \/ Closing(i) THEN {"alive"} ELSE {})
                           \union (IF Served(i) THEN {} ELSE {"absent"})

(***************************************************************************)
(* bind_server.                                                            *)
(***************************************************************************)
Moves(s, from, to) == /\ stage[s] = from
                      /\ stage' = [stage EXCEPT ![s] = to]
                      /\ UNCHANGED <<instance, scan>>
Plainly == UNCHANGED <<sock, faults>>

Start(s) == Moves(s, "off", "starting") /\ Plainly

Free(s) == /\ sock[Own(s)] = NoSocket
           /\ Moves(s, "starting", "free") /\ Plainly

FindsStale(s) == /\ sock[Own(s)] # NoSocket
                 /\ sock[Own(s)] = Junk \/ "absent" \in Verdicts(Own(s))
                 /\ Moves(s, "starting", "stale") /\ Plainly

\* Already running, or an answer that proves nothing.
IsRefused(s) == /\ sock[Own(s)] \notin {NoSocket, Junk}
                /\ FaultIf("alive" \notin Verdicts(Own(s)))
                /\ Moves(s, "starting", "left") /\ UNCHANGED sock

\* remove_file takes whatever is at the path by now.
RemoveOld(s) == /\ Moves(s, "stale", "free")
                /\ sock' = [sock EXCEPT ![Own(s)] = NoSocket]
                /\ UNCHANGED faults

Bind(s) == /\ sock[Own(s)] = NoSocket
           /\ Moves(s, "free", "bound")
           /\ sock' = [sock EXCEPT ![Own(s)] = s]
           /\ UNCHANGED faults

\* Somebody else's file appeared at the path after the probe.
BindFails(s) == /\ sock[Own(s)] # NoSocket
                /\ Moves(s, "free", "left") /\ Plainly

\* chmod of the path, whosever socket it is by now.
Restrict(s) == /\ sock[Own(s)] # NoSocket
               /\ Moves(s, "bound", "serving") /\ Plainly

RestrictFails(s) == /\ sock[Own(s)] = NoSocket
                    /\ Moves(s, "bound", "left") /\ Plainly

(***************************************************************************)
(* The end of connect(): the server's task is aborted, then the path is    *)
(* removed without a look at what it holds.                                *)
(***************************************************************************)
Leave(s) == Moves(s, "serving", "leaving") /\ Plainly

Unlink(s) == /\ Moves(s, "leaving", "left")
             /\ sock' = [sock EXCEPT ![Own(s)] = NoSocket]
             /\ UNCHANGED faults

Dies(s) == /\ ~Ended(s) /\ Fault
           /\ stage' = [stage EXCEPT ![s] = "dead"]
           /\ scan' = [scan EXCEPT ![s] = Unscanned]
           /\ UNCHANGED <<instance, sock>>

(***************************************************************************)
(* scan_socket_namespace: a listing that may be incomplete, then one probe *)
(* for each socket that was listed, in any order.                          *)
(***************************************************************************)
Listed == {i \in Instances : sock[i] \notin {NoSocket, Junk}}

List(x) ==
  /\ ~scan[x].open
  /\ \E complete \in BOOLEAN, found \in SUBSET Listed :
       /\ complete => found = Listed
       /\ FaultIf(~complete)
       /\ scan' = [scan EXCEPT ![x] = [Unscanned EXCEPT !.open = TRUE,
                                         !.complete = complete, !.todo = found]]
  /\ UNCHANGED <<instance, sock, stage>>

ProbeSocket(x) ==
  /\ \E i \in scan[x].todo : \E v \in Verdicts(i) :
       /\ FaultIf(v = "unknown")
       /\ scan' = [scan EXCEPT ![x].todo = @ \ {i}, ![x].rows[i] = v]
  /\ UNCHANGED <<instance, sock, stage>>

Scanned(x) == scan[x].open /\ scan[x].todo = {}

\* What it found has been used.
Forget(x) == scan' = [scan EXCEPT ![x] = Unscanned]

\* What a scan proves.  An instance that an incomplete listing lacks may live.
NoEndpoint(x, i) == scan[x].rows[i] \in {"absent", "unlisted"}
FaultyProvablyDead(x, i) == NoEndpoint(x, i)  \* mutant: completeness forgotten
ProvablyDead(x, i) == scan[x].complete /\ NoEndpoint(x, i)
Blanket(x) == scan[x].complete /\ \A i \in Instances : NoEndpoint(x, i)
OwnAbsent(x, i) == scan[x].rows[i] = "absent" \/ ProvablyDead(x, i)

=============================================================================
