------------------------- MODULE CommandDnsProofs --------------------------
(***************************************************************************)
(* Theorems about CommandRunner, for every set of commands, and below      *)
(* about ServiceDns, whose changes commands make.                          *)
(*                                                                         *)
(* The invariant follows one command through the handoff: where the child  *)
(* can be at each place of the caller, who has it in hand, and what the    *)
(* runner's clocks say about it.  No two commands interfere but at Start.  *)
(***************************************************************************)
EXTENDS CommandRunner, ServiceDns, TLAPS

Early == {"unissued", "dispatch"}
Waiting == {"recv", "lastdrain", "latereap", "droprx", "dropreap"}
Owning == {"drainers", "poll", "confirm", "early", "collect"}

\* The child is dead, or was never there, or somebody has killed it.
Settled(c) == child[c] = "alive" => killed[c]

\* The supervising thread and the channel.
HandoffInv(c) ==
  /\ at[c] \in Early => sup[c] = "none" /\ clocks[c] = "nothing"
  /\ sup[c] = "none" => at[c] \in Early \cup {"ended"}
  /\ sup[c] \in {"none", "spawning"} => child[c] = "none"
  /\ sup[c] \in {"none", "spawning", "sending", "reaping"} =>
       queue[c] = "empty" /\ clocks[c] = "nothing"
  /\ sup[c] \in {"spawning", "sending"} => at[c] \notin {"latereap", "dropreap"}
  /\ sup[c] = "sending" => child[c] # "none"
  /\ sup[c] = "reaping" => at[c] \in {"dropreap", "ended"} /\ Settled(c)
  /\ queue[c] = "child" => RxOpen(c) /\ child[c] # "none"
  /\ queue[c] = "error" => sup[c] = "gone" /\ child[c] = "none" /\ clocks[c] = "nothing"
  /\ at[c] \in {"latereap", "dropreap"} => queue[c] # "child" /\ Settled(c)
  /\ sup[c] = "gone" /\ queue[c] # "child" /\ clocks[c] = "nothing" => Settled(c)

\* What the caller has observed.
ClockInv(c) ==
  /\ at[c] \in Waiting => clocks[c] = "nothing"
  /\ at[c] \in Owning => clocks[c] # "nothing"
  /\ clocks[c] # "nothing" =>
       child[c] # "none" /\ at[c] \in Owning \cup {"ended"} /\ sup[c] = "gone"
  /\ clocks[c] \in {"exited", "confirmed_dead"} => child[c] = "dead"
  /\ at[c] \in {"confirm", "early"} => Settled(c)
  /\ at[c] = "collect" => clocks[c] \in {"exited", "confirmed_dead"}

\* How the command ended.
EndInv(c) ==
  at[c] = "ended" =>
    /\ result[c] # "unconfirmed" => child[c] # "alive" /\ sup[c] \in {"none", "gone"}
    /\ Settled(c) \/ sup[c] = "sending"
    /\ record[c] = "Exited" => child[c] = "dead"
    /\ record[c] = "None" => child[c] = "none" /\ result[c] # "unconfirmed"
    /\ record[c] # "Running"

CmdInv(c) == HandoffInv(c) /\ ClockInv(c) /\ EndInv(c)

IndInv == RunnerTypeOK /\ \A c \in Cmds : CmdInv(c)

\* A step of the command c: its own state changes and no other's.
Step(c) ==
  \/ Start(c) \/ CallerStep(c) \/ TimePasses(c)
  \/ SupervisorStep(c) \/ SpawnReturns(c) \/ SupervisorDies(c)
  \/ ChildStep(c)

Others(c) ==
  \A d \in Cmds \ {c} :
    /\ at'[d] = at[d] /\ expired'[d] = expired[d] /\ sup'[d] = sup[d]
    /\ queue'[d] = queue[d] /\ child'[d] = child[d] /\ held'[d] = held[d]
    /\ acted'[d] = acted[d] /\ killed'[d] = killed[d] /\ clocks'[d] = clocks[d]
    /\ result'[d] = result[d] /\ record'[d] = record[d]

-----------------------------------------------------------------------------

CallerOK ==
  /\ at \in [Cmds -> Places]
  /\ expired \in [Cmds -> BOOLEAN]
  /\ clocks \in [Cmds -> Observed]
  /\ result \in [Cmds -> Results]
  /\ record \in [Cmds -> {"None", "Running", "Exited", "Unconfirmed"}]

LEMMA CallerType ==
  ASSUME RunnerTypeOK, NEW c \in Cmds, NEW to \in Places, NEW r \in Results, NEW o \in Observed,
         Moves(c, to, o) \/ Continues(c, to, o) \/ Returns(c, r, o)
  PROVE  CallerOK'
<1>1. CASE Moves(c, to, o)
  BY <1>1 DEF RunnerTypeOK, Moves, CallerOK
<1>2. CASE Continues(c, to, o)
  BY <1>2 DEF RunnerTypeOK, Continues, CallerOK
<1>3. CASE Returns(c, r, o)
  BY <1>3 DEF RunnerTypeOK, Returns, CallerOK, ChildState, Places
<1>4. QED BY <1>1, <1>2, <1>3

LEMMA StepType ==
  ASSUME RunnerTypeOK, NEW c \in Cmds, Step(c)
  PROVE  RunnerTypeOK'
<1> USE DEF RunnerTypeOK, Kill, process, caller
<1>1. CASE Start(c)
  <2>1. CallerOK'
    BY <1>1, CallerType DEF Start, RunnerTypeOK, Places, Observed, Results
  <2>2. QED BY <1>1, <2>1 DEF Start, CallerOK
<1>2. CASE Dispatch(c)
  <2>1. CallerOK'
    BY <1>2, CallerType DEF Dispatch, RunnerTypeOK, Places, Observed, Results
  <2>2. QED BY <1>2, <2>1 DEF Dispatch, CallerOK
<1>3. CASE TimePasses(c)
  BY <1>3 DEF TimePasses
<1>4. CASE Receive(c)
  <2>1. CallerOK'
    BY <1>4, CallerType DEF Receive, RunnerTypeOK, Places, Observed, Results
  <2>2. QED BY <1>4, <2>1 DEF Receive, CallerOK
<1>5. CASE ReceiveDisconnects(c)
  <2>1. CallerOK'
    BY <1>5, CallerType DEF ReceiveDisconnects, RunnerTypeOK, Places, Observed, Results
  <2>2. QED BY <1>5, <2>1 DEF ReceiveDisconnects, CallerOK
<1>6. CASE ReceiveTimesOut(c)
  <2>1. CallerOK'
    BY <1>6, CallerType DEF ReceiveTimesOut, RunnerTypeOK, Places, Observed, Results
  <2>2. QED BY <1>6, <2>1 DEF ReceiveTimesOut, CallerOK
<1>7. CASE LastDrain(c)
  <2>1. CallerOK'
    BY <1>7, CallerType DEF LastDrain, RunnerTypeOK, Places, Observed, Results
  <2>2. QED BY <1>7, <2>1 DEF LastDrain, CallerOK
<1>8. CASE DropReceiver(c)
  <2>1. CallerOK'
    BY <1>8, CallerType DEF DropReceiver, RunnerTypeOK, Places, Observed, Results
  <2>2. QED BY <1>8, <2>1 DEF DropReceiver, CallerOK
<1>9. CASE Reaped(c)
  <2>1. CallerOK'
    BY <1>9, CallerType DEF Reaped, RunnerTypeOK, Places, Observed, Results
  <2>2. QED BY <1>9, <2>1 DEF Reaped, CallerOK
<1>10. CASE CreateDrainers(c)
  <2>1. CallerOK'
    BY <1>10, CallerType DEF CreateDrainers, RunnerTypeOK, Places, Observed, Results, EarlyError
  <2>2. QED BY <1>10, <2>1 DEF CreateDrainers, CallerOK, EarlyError
<1>11. CASE PollSeesExit(c)
  <2>1. CallerOK'
    BY <1>11, CallerType DEF PollSeesExit, RunnerTypeOK, Places, Observed, Results
  <2>2. QED BY <1>11, <2>1 DEF PollSeesExit, CallerOK
<1>12. CASE PollFails(c)
  <2>1. CallerOK'
    BY <1>12, CallerType DEF PollFails, RunnerTypeOK, Places, Observed, Results, EarlyError
  <2>2. QED BY <1>12, <2>1 DEF PollFails, CallerOK, EarlyError
<1>13. CASE PollIsLate(c)
  <2>1. CallerOK'
    BY <1>13, CallerType DEF PollIsLate, RunnerTypeOK, Places, Observed, Results
  <2>2. QED BY <1>13, <2>1 DEF PollIsLate, CallerOK
<1>14. CASE Confirmed(c)
  <2>1. CallerOK'
    BY <1>14, CallerType DEF Confirmed, RunnerTypeOK, Places, Observed, Results
  <2>2. QED BY <1>14, <2>1 DEF Confirmed, CallerOK
<1>15. CASE NotConfirmed(c)
  <2>1. CallerOK'
    BY <1>15, CallerType DEF NotConfirmed, RunnerTypeOK, Places, Observed, Results
  <2>2. QED BY <1>15, <2>1 DEF NotConfirmed, CallerOK
<1>16. CASE Collect(c)
  <2>1. CallerOK'
    BY <1>16, CallerType DEF Collect, RunnerTypeOK, Places, Observed, Results
  <2>2. QED BY <1>16, <2>1 DEF Collect, CallerOK
<1>17. CASE SupervisorStep(c)
  <2>1. CASE Send(c) /\ RxOpen(c)
    BY <2>1 DEF Send
  <2>2. CASE Send(c) /\ ~RxOpen(c)
    BY <2>2 DEF Send
  <2>3. CASE SupervisorReaped(c)
    BY <2>3 DEF SupervisorReaped
  <2>4. QED BY <1>17, <2>1, <2>2, <2>3 DEF SupervisorStep
<1>18. CASE SpawnReturns(c) \/ SupervisorDies(c)
  BY <1>18 DEF SpawnReturns, SupervisorDies
<1>19. CASE ChildStep(c)
  <2>1. CASE ChildActs(c)
    BY <2>1 DEF ChildActs
  <2>2. CASE ChildEnds(c)
    BY <2>2 DEF ChildEnds
  <2>3. CASE PipesClose(c)
    BY <2>3 DEF PipesClose
  <2>4. QED BY <1>19, <2>1, <2>2, <2>3 DEF ChildStep
<1>20. QED
  BY <1>1, <1>2, <1>3, <1>4, <1>5, <1>6, <1>7, <1>8, <1>9, <1>10, <1>11, <1>12, <1>13, <1>14, <1>15, <1>16, <1>17, <1>18, <1>19
     DEF Step, CallerStep

LEMMA StepIsLocal ==
  ASSUME RunnerTypeOK, NEW c \in Cmds, Step(c)
  PROVE  Others(c)
<1> USE DEF RunnerTypeOK, Others, Moves, Continues, Returns, Kill, process, caller
<1>1. CASE Start(c) \/ Dispatch(c) \/ TimePasses(c)
  BY <1>1 DEF Start, Dispatch, TimePasses
<1>2. CASE Receive(c) \/ ReceiveDisconnects(c) \/ ReceiveTimesOut(c)
  BY <1>2 DEF Receive, ReceiveDisconnects, ReceiveTimesOut
<1>3. CASE LastDrain(c) \/ DropReceiver(c) \/ Reaped(c)
  BY <1>3 DEF LastDrain, DropReceiver, Reaped
<1>4. CASE CreateDrainers(c) \/ PollSeesExit(c) \/ PollFails(c) \/ PollIsLate(c)
  BY <1>4 DEF CreateDrainers, PollSeesExit, PollFails, PollIsLate, EarlyError
<1>5. CASE Confirmed(c) \/ NotConfirmed(c) \/ Collect(c)
  BY <1>5 DEF Confirmed, NotConfirmed, Collect
<1>6. CASE SupervisorStep(c) \/ SpawnReturns(c) \/ SupervisorDies(c)
  BY <1>6 DEF SupervisorStep, Send, SupervisorReaped, SpawnReturns, SupervisorDies
<1>7. CASE ChildStep(c)
  BY <1>7 DEF ChildStep, ChildActs, ChildEnds, PipesClose
<1>8. QED
  BY <1>1, <1>2, <1>3, <1>4, <1>5, <1>6, <1>7 DEF Step, CallerStep

\* What the runner reports about the child, in each of its ends.
LEMMA StepKeeps ==
  ASSUME IndInv, NEW c \in Cmds, Step(c)
  PROVE  CmdInv(c)'
<1> USE DEF RunnerTypeOK, Moves, Continues, Returns, Kill, Places, Observed, Results,
            process, caller, Early, Waiting, Owning, Settled, RxOpen, ChildState,
            CmdInv, HandoffInv, ClockInv, EndInv
<1>1. RunnerTypeOK /\ CmdInv(c) /\ RunnerTypeOK'
  BY StepType DEF IndInv
<1>2. CASE Start(c) \/ Dispatch(c) \/ TimePasses(c)
  BY <1>1, <1>2 DEF Start, Dispatch, TimePasses
<1>3. CASE Receive(c)
  <2>1. CASE queue[c] = "child"
    BY <1>1, <1>3, <2>1 DEF Receive
  <2>2. CASE queue[c] = "error"
    BY <1>1, <1>3, <2>2 DEF Receive
  <2>3. QED BY <1>3, <2>1, <2>2 DEF Receive
<1>4. CASE ReceiveDisconnects(c) \/ ReceiveTimesOut(c)
  BY <1>1, <1>4 DEF ReceiveDisconnects, ReceiveTimesOut
<1>5. CASE LastDrain(c)
  BY <1>1, <1>5 DEF LastDrain
<1>6. CASE DropReceiver(c)
  BY <1>1, <1>6 DEF DropReceiver
<1>7. CASE Reaped(c)
  BY <1>1, <1>7 DEF Reaped
<1>8. CASE CreateDrainers(c) \/ PollFails(c)
  BY <1>1, <1>8 DEF CreateDrainers, PollFails, EarlyError
<1>9. CASE PollSeesExit(c) \/ PollIsLate(c)
  BY <1>1, <1>9 DEF PollSeesExit, PollIsLate
<1>10. CASE Confirmed(c)
  BY <1>1, <1>10 DEF Confirmed
<1>11. CASE NotConfirmed(c)
  BY <1>1, <1>11 DEF NotConfirmed
<1>12. CASE Collect(c)
  BY <1>1, <1>12 DEF Collect
<1>13. CASE SupervisorStep(c)
  BY <1>1, <1>13 DEF SupervisorStep, Send, SupervisorReaped
<1>14. CASE SpawnReturns(c) \/ SupervisorDies(c)
  <2>1. CASE SupervisorDies(c)
    BY <1>1, <2>1 DEF SupervisorDies
  <2>2. CASE SpawnReturns(c) /\ sup'[c] = "sending"
    BY <1>1, <2>2 DEF SpawnReturns
  <2>3. CASE SpawnReturns(c) /\ sup'[c] # "sending"
    BY <1>1, <2>3 DEF SpawnReturns
  <2>4. QED BY <1>14, <2>1, <2>2, <2>3
<1>15. CASE ChildStep(c)
  BY <1>1, <1>15 DEF ChildStep, ChildActs, ChildEnds, PipesClose
<1>16. QED
  BY <1>2, <1>3, <1>4, <1>5, <1>6, <1>7, <1>8, <1>9, <1>10, <1>11, <1>12, <1>13,
     <1>14, <1>15 DEF Step, CallerStep

LEMMA Invariance == RunnerSpec => []IndInv
<1>1. RunnerInit => IndInv
  BY DEF RunnerInit, IndInv, RunnerTypeOK, CmdInv, HandoffInv, ClockInv, EndInv, Early, Waiting,
         Owning, Settled, RxOpen, Places, Results, Observed
<1>2. IndInv /\ [RunnerNext]_runnerVars => IndInv'
  <2> SUFFICES ASSUME IndInv, [RunnerNext]_runnerVars PROVE IndInv'
    OBVIOUS
  <2>1. CASE UNCHANGED runnerVars
    BY <2>1 DEF runnerVars, process, caller, IndInv, RunnerTypeOK, CmdInv, HandoffInv, ClockInv,
                EndInv, Settled, RxOpen
  <2>2. CASE RunnerNext
    <3>1. PICK c \in Cmds : Step(c)
      BY <2>2 DEF RunnerNext, Step
    <3>2. RunnerTypeOK' /\ Others(c)
      BY <3>1, StepType, StepIsLocal DEF IndInv
    <3>3. ASSUME NEW d \in Cmds, d # c PROVE CmdInv(d)'
      BY <3>2, <3>3 DEF IndInv, Others, CmdInv, HandoffInv, ClockInv, EndInv, Settled, RxOpen
    <3>4. QED BY <3>1, <3>2, <3>3, StepKeeps DEF IndInv
  <2>3. QED BY <2>1, <2>2
<1>3. QED BY <1>1, <1>2, PTL DEF RunnerSpec

-----------------------------------------------------------------------------

\* Every variable keeps its type.
THEOREM RunnerTyping == RunnerSpec => []RunnerTypeOK
<1>1. IndInv => RunnerTypeOK
  BY DEF IndInv
<1>2. QED BY <1>1, Invariance, PTL

\* The completion record of build_command_outcome says of the child only what
\* is so.
THEOREM RecordsAreHonest == RunnerSpec => []RecordIsHonest
<1>1. IndInv => RecordIsHonest
  BY DEF IndInv, CmdInv, EndInv, RecordIsHonest
<1>2. QED BY <1>1, Invariance, PTL

\* Through every race of the deadline and the handoff, a child that outlives its
\* command has been killed or is about to be by the thread that spawned it.
THEOREM ChildrenAreOwned == RunnerSpec => []NobodyIsOrphaned
<1>1. IndInv => NobodyIsOrphaned
  BY DEF IndInv, CmdInv, EndInv, Settled, NobodyIsOrphaned
<1>2. QED BY <1>1, Invariance, PTL

\* The safety part of KeepsPromise: every step of the caller, the supervising
\* threads and the children is a step of CommandPromise or leaves it alone.  In
\* particular a command that ends otherwise than unconfirmed changes nothing
\* from then on.
THEOREM RunnerImplementsPromise == RunnerSpec => Promise!Init /\ [][Promise!Next]_Promise!vars
<1>1. RunnerInit => Promise!Init
  BY DEF RunnerInit, Promise!Init, EndOf
<1>2. IndInv /\ IndInv' /\ [RunnerNext]_runnerVars => [Promise!Next]_Promise!vars
  <2> SUFFICES ASSUME IndInv, IndInv', [RunnerNext]_runnerVars PROVE [Promise!Next]_Promise!vars
    OBVIOUS
  <2>1. CASE UNCHANGED runnerVars
    BY <2>1 DEF runnerVars, process, caller, Promise!vars, EndOf
  <2>2. CASE RunnerNext
    <3>1. PICK c \in Cmds : Step(c)
      BY <2>2 DEF RunnerNext, Step
    <3>2. Others(c)
      BY <3>1, StepIsLocal DEF IndInv
    <3>3. \A d \in Cmds \ {c} : EndOf(d)' = EndOf(d)
      BY <3>2 DEF Others, EndOf
    <3> DEFINE states == [d \in Cmds |-> EndOf(d)]
    <3>4. states' = [states EXCEPT ![c] = EndOf(c)']
      BY <3>3
    <3>5. CASE Start(c)
      <4>1. \A d \in Cmds : ~Promise!MayAct(d)
        BY <3>5 DEF Start, Free, Promise!MayAct, EndOf
      <4>2. at[c] = "unissued" /\ at'[c] = "dispatch" /\ acted' = acted
        BY <3>5 DEF Start, Moves, IndInv, RunnerTypeOK, process
      <4>3. EndOf(c) = "unissued" /\ EndOf(c)' = "running"
        BY <4>2 DEF EndOf
      <4>4. Promise!Issue(c)
        BY <3>4, <4>1, <4>2, <4>3 DEF Promise!Issue
      <4>5. QED BY <4>4 DEF Promise!Next
    <3>6. CASE ChildActs(c)
      <4>1. EndOf(c) \in {"running", "unconfirmed"} /\ EndOf(c)' = EndOf(c)
        BY <3>6 DEF ChildActs, EndOf, IndInv, CmdInv, HandoffInv, EndInv, Early, caller,
                    RunnerTypeOK, Results
      <4>2. Promise!Act(c)
        BY <3>4, <3>6, <4>1 DEF ChildActs, Promise!Act, Promise!MayAct
      <4>3. QED BY <4>2 DEF Promise!Next
    <3>7. CASE acted' = acted /\ EndOf(c)' = EndOf(c)
      BY <3>4, <3>7 DEF Promise!vars
    <3>8. CASE acted' = acted /\ EndOf(c) = "running" /\ EndOf(c)' # "running"
      <4>1. EndOf(c)' \in Promise!Ends /\ (EndOf(c)' = "ok" => acted[c])
        <5>1. at'[c] = "ended" => EndOf(c)' \in Promise!Ends /\ (EndOf(c)' = "ok" => acted[c])
          BY <3>8 DEF EndOf, Promise!Ends
        <5>2. at'[c] # "unissued"
          BY <3>1, <3>8 DEF Step, CallerStep, SupervisorStep, ChildStep, Start, Dispatch,
             Receive, ReceiveDisconnects, ReceiveTimesOut, LastDrain, DropReceiver, Reaped,
             CreateDrainers, PollSeesExit, PollFails, PollIsLate, EarlyError, Confirmed,
             NotConfirmed, Collect, Send, SupervisorReaped, SpawnReturns, SupervisorDies,
             ChildActs, ChildEnds, PipesClose, TimePasses, Moves, Continues, Returns,
             caller, EndOf, IndInv, RunnerTypeOK
        <5>3. QED BY <3>8, <5>1, <5>2 DEF EndOf
      <4>2. Promise!End(c, EndOf(c)')
        BY <3>4, <3>8, <4>1 DEF Promise!End
      <4>3. QED BY <4>1, <4>2 DEF Promise!Next, Promise!Finish
    <3>9. CASE CallerStep(c)
      <4>1. acted' = acted /\ at[c] \notin {"unissued", "ended"}
        BY <3>9 DEF CallerStep, Dispatch,
             Receive, ReceiveDisconnects, ReceiveTimesOut, LastDrain, DropReceiver, Reaped,
             CreateDrainers, PollSeesExit, PollFails, PollIsLate, EarlyError, Confirmed,
             NotConfirmed, Collect, process
      <4>2. EndOf(c) = "running"
        BY <4>1 DEF EndOf
      <4>3. QED BY <3>7, <3>8, <4>1, <4>2
    <3>10. CASE TimePasses(c) \/ SupervisorStep(c) \/ SpawnReturns(c) \/ SupervisorDies(c)
                \/ ChildEnds(c) \/ PipesClose(c)
      BY <3>7, <3>10 DEF TimePasses, SupervisorStep, Send, SupervisorReaped, SpawnReturns,
         SupervisorDies, ChildEnds, PipesClose, process, caller, EndOf
    <3>11. QED BY <3>1, <3>5, <3>6, <3>9, <3>10 DEF Step, ChildStep
  <2>3. QED BY <2>1, <2>2
<1>3. QED BY <1>1, <1>2, Invariance, PTL DEF RunnerSpec

-----------------------------------------------------------------------------
(***************************************************************************)
(* DNS on macOS (ServiceDns), for any sessions, recoveries, instances and  *)
(* services.  The invariant says who has to do with a service that nobody  *)
(* disputes and whose record has not been overwritten for nothing, that    *)
(* what stands there or in the journal of that one is what the user wants, *)
(* and that what a recovery has read is still so.                          *)
(***************************************************************************)


\* A session is at work on a service.
OnIt(s, v) == Live(s) /\ session[s].on = v

\* Who has to do with a service that nobody disputes: one session, no recovery
\* beside it, and the journals of one instance.
AloneOn(v) ==
  /\ \A s, r \in Sessions : OnIt(s, v) /\ OnIt(r, v) => r = s
  /\ \A s \in Sessions : OnIt(s, v) =>
       /\ \A x \in Recoveries : ~Working(x)
       /\ \A i \in Instances : journal[i][v] # NoJournal => i = InstanceOf[s]
  /\ \A i, k \in Instances : journal[i][v] # NoJournal /\ journal[k][v] # NoJournal => i = k

\* A record holds what a session of its instance set, and what a user had set.
RecordOf(i, j) ==
  /\ j.prior.servers \in UserLists
  /\ \E s \in Sessions : InstanceOf[s] = i /\ j.applied = Pushed[s]

KnownOf(v) == \/ setting[v].servers = wanted[v].servers
              \/ \E i \in Instances : Brings(v, journal[i][v])
Recoverable(v) == KnownOf(v) \/ \E s \in Sessions : session[s].on = v /\ Overtook(s)

\* How far a session is with the service, and what it has of it.
ReadSteps == {"search", "chain"}
OwnSteps == {"swap", "swapsearch", "up", "restoresearch", "retire"}
Progress(s, v) ==
  /\ session[s].at \in ReadSteps => session[s].prior.servers = setting[v].servers
  /\ session[s].at \in OwnSteps \cup {"journal"} => session[s].prior.servers = wanted[v].servers
  /\ session[s].at \in OwnSteps => journal[InstanceOf[s]][v].applied = Pushed[s]
                                 /\ journal[InstanceOf[s]][v].prior.servers = wanted[v].servers
  /\ session[s].at \in {"restoresearch", "retire"} /\ ~session[s].failed =>
       setting[v].servers = wanted[v].servers

\* What a recovery has read is what is written, or what another one retired.
Held(x) == recovery[x].jobs \cup recovery[x].job
JobInv(x) ==
  /\ ~Working(x) => Held(x) = {}
  /\ \A d \in Held(x) : d.v \notin Untold =>
       /\ RecordOf(d.i, d.j)
       /\ \A i \in Instances : journal[i][d.v] # NoJournal => i = d.i /\ journal[i][d.v] = d.j
  /\ \A d \in recovery[x].job : d.v \notin Untold =>
       /\ recovery[x].at = "servers" => d.j.prior.servers = wanted[d.v].servers
       /\ recovery[x].at \in {"search", "retire"} => setting[d.v].servers = wanted[d.v].servers
  /\ \A d, e \in recovery[x].job : d = e

ServiceOK(v) ==
  /\ AloneOn(v) /\ Recoverable(v)
  /\ \A i \in Instances : journal[i][v] # NoJournal => RecordOf(i, journal[i][v])
  /\ \A s \in Sessions : OnIt(s, v) => Progress(s, v)

ServiceInv ==
  /\ \A v \in Services : wanted[v].servers \in UserLists
  /\ \A v \in Services \ Untold : ServiceOK(v)
  /\ \A x \in Recoveries : JobInv(x)

-----------------------------------------------------------------------------
(* Types. *)

SessionPlaces == {"off", "servers", "search", "chain", "journal", "swap", "swapsearch", "up",
           "restoresearch", "retire", "left", "dead"}
SessionRecords == [at : SessionPlaces, on : Services, prior : Reading, failed : BOOLEAN]
FullRecords == [applied : Lists, prior : Settings, changed : BOOLEAN]
FullJobs == [i : Instances, v : Services, j : FullRecords]
RecoveryRecords == [at : {"off", "work", "servers", "search", "retire", "over"},
                    jobs : SUBSET FullJobs, job : SUBSET FullJobs]

\* A record that is there is whole, and so is what a session has read.
Known == {"chain", "journal"} \cup OwnSteps
SessionsOK ==
  /\ session \in [Sessions -> SessionRecords]
  /\ \A s \in Sessions : /\ session[s].at = "search" => session[s].prior.servers \in Lists
                         /\ session[s].at \in Known => session[s].prior \in Settings
JournalOK ==
  journal \in [Instances -> [Services -> FullRecords \cup {NoJournal}]]
SettingOK == setting \in [Services -> Settings] /\ wanted \in [Services -> Settings]
RecoveryOK == recovery \in [Recoveries -> RecoveryRecords]
CountsOK == contested \subseteq Services /\ lost \subseteq Services
            /\ edits \in 0 .. MaxEdits /\ faults \in 0 .. MaxFaults
ShapeOK == SessionsOK /\ JournalOK /\ SettingOK /\ RecoveryOK /\ CountsOK

LEMMA ListTypes ==
  /\ \A s \in Sessions : Pushed[s] \in Lists /\ PushedSearch[s] \in Searches /\ Pushed[s] \notin UserLists
  /\ UserLists \subseteq Lists /\ NoList \notin Lists /\ UserSearch \in Searches
  /\ \A r \in Settings : r.servers \in Lists /\ r.search \in Searches /\ r \in Reading
BY ServiceAssumption DEF Lists, Searches, Settings, Reading

LEMMA TurnsType ==
  ASSUME SessionsOK, NEW s \in Sessions, NEW r \in SessionRecords, Turns(s, r),
         r.at = "search" => r.prior.servers \in Lists, r.at \in Known => r.prior \in Settings
  PROVE  /\ SessionsOK' /\ session'[s] = r
         /\ \A t \in Sessions : t # s => session'[t] = session[t]
BY DEF SessionsOK, Turns

LEMMA GoesType ==
  ASSUME SessionsOK, NEW s \in Sessions, NEW to \in SessionPlaces, Goes(s, to),
         to # "search", to \in Known => session[s].at \in Known
  PROVE  /\ SessionsOK' /\ session'[s] = [session[s] EXCEPT !.at = to]
         /\ \A t \in Sessions : t # s => session'[t] = session[t]
<1> DEFINE r == [session[s] EXCEPT !.at = to]
<1>1. r \in SessionRecords /\ r.at = to /\ r.prior = session[s].prior
  BY DEF SessionsOK, SessionRecords
<1>2. r.at \in Known => r.prior \in Settings
  BY <1>1 DEF SessionsOK
<1>3. Turns(s, r)
  BY DEF Goes
<1> HIDE DEF r
<1>4. SessionsOK' /\ session'[s] = r /\ \A t \in Sessions : t # s => session'[t] = session[t]
  BY <1>1, <1>2, <1>3, TurnsType
<1>5. QED BY <1>4 DEF r

\* What networksetup sets, or fails to set.
LEMMA SetsType ==
  ASSUME SettingOK, NEW v \in Services, NEW field \in {"servers", "search"}, NEW value,
         value \in IF field = "servers" THEN Lists ELSE Searches,
         Sets(v, field, value) \/ FailsToSet(v, field, value), UNCHANGED wanted,
         faults \in 0 .. MaxFaults
  PROVE  /\ SettingOK' /\ faults' \in 0 .. MaxFaults
         /\ \A u \in Services : u # v => setting'[u] = setting[u]
         /\ field = "search" => setting'[v].servers = setting[v].servers
         /\ field = "servers" => setting'[v].servers \in {setting[v].servers, value}
         /\ field = "servers" /\ Sets(v, field, value) => setting'[v].servers = value
<1>1. faults' \in 0 .. MaxFaults
  BY BoundsAssumption DEF Sets, FailsToSet, Fault
<1>2. CASE UNCHANGED setting /\ ~Sets(v, field, value)
  BY <1>1, <1>2 DEF SettingOK
<1>3. CASE SetTo(v, field, value)
  <2>1. setting[v] \in [servers : Lists, search : Searches]
    BY DEF SettingOK, Settings
  <2>2. setting' = [setting EXCEPT ![v] = [setting[v] EXCEPT ![field] = value]]
    BY <1>3 DEF SetTo
  <2>3. CASE field = "servers"
    <3>1. [setting[v] EXCEPT ![field] = value] \in Settings
          /\ [setting[v] EXCEPT ![field] = value].servers = value
      BY <2>1, <2>3 DEF Settings
    <3>2. QED BY <1>1, <2>2, <2>3, <3>1 DEF SettingOK
  <2>4. CASE field = "search"
    <3>1. [setting[v] EXCEPT ![field] = value] \in Settings
          /\ [setting[v] EXCEPT ![field] = value].servers = setting[v].servers
      BY <2>1, <2>4 DEF Settings
    <3>2. QED BY <1>1, <2>2, <2>4, <3>1 DEF SettingOK
  <2>5. QED BY <2>3, <2>4
<1>4. QED BY <1>2, <1>3 DEF Sets, FailsToSet

LEMMA RecordsType ==
  ASSUME JournalOK, NEW i \in Instances, NEW v \in Services, NEW j \in FullRecords \cup {NoJournal},
         journal' = [journal EXCEPT ![i][v] = j]
  PROVE  /\ JournalOK' /\ journal'[i][v] = j
         /\ \A k \in Instances, u \in Services : k # i \/ u # v => journal'[k][u] = journal[k][u]
BY DEF JournalOK

LEMMA BecomesType ==
  ASSUME RecoveryOK, NEW x \in Recoveries, NEW r \in RecoveryRecords, Becomes(x, r)
  PROVE  /\ RecoveryOK' /\ recovery'[x] = r
         /\ \A y \in Recoveries : y # x => recovery'[y] = recovery[y]
BY DEF RecoveryOK, Becomes

LEMMA SessionShape ==
  ASSUME ShapeOK, NEW s \in Sessions
  PROVE  /\ session[s].at \in SessionPlaces /\ session[s].on \in Services
         /\ session[s].prior \in Reading /\ session[s].failed \in BOOLEAN
         /\ setting[session[s].on] \in Settings /\ Stands(s) = setting[session[s].on]
         /\ InstanceOf[s] \in Instances
         /\ Journal(s) \in FullRecords \cup {NoJournal}
BY ServiceAssumption DEF ShapeOK, SessionsOK, SessionRecords, SettingOK, JournalOK, Stands, Journal

\* What a session takes for the earlier settings is whole.
LEMMA PriorsType ==
  ASSUME ShapeOK, NEW s \in Sessions, session[s].at = "chain"
  PROVE  Priors(s) \in Settings
<1>1. session[s].prior \in Settings
  BY DEF ShapeOK, SessionsOK, Known
<1>2. session[s].prior.servers # NoList
  BY <1>1, ListTypes
<1>3. Journal(s).applied # NoList => Journal(s).prior \in Settings
  BY SessionShape DEF FullRecords, NoJournal
<1>4. QED BY <1>1, <1>2, <1>3 DEF Priors

LEMMA ShapeBySession ==
  ASSUME ShapeOK, NEW s \in Sessions, SessionStep(s)
  PROVE  ShapeOK'
<1> DEFINE v == session[s].on
<1>t. /\ v \in Services /\ session[s].at \in SessionPlaces /\ session[s] \in SessionRecords
      /\ setting[v] \in Settings /\ Stands(s) = setting[v] /\ InstanceOf[s] \in Instances
      /\ SessionsOK /\ JournalOK /\ SettingOK /\ RecoveryOK /\ CountsOK
  BY SessionShape DEF ShapeOK, SessionsOK
<1>f. faults \in 0 .. MaxFaults /\ (Fault => faults' \in 0 .. MaxFaults)
  BY <1>t, BoundsAssumption DEF CountsOK, Fault
<1>k. session[s].at \in Known => session[s].prior \in Settings
  BY <1>t DEF SessionsOK
<1>l. Loses(s) => lost' \subseteq Services
  BY <1>t DEF Loses, CountsOK
<1>o. ASSUME SessionsOK', JournalOK', SettingOK', UNCHANGED <<recovery, contested, edits>>,
             UNCHANGED lost \/ Loses(s), faults' \in 0 .. MaxFaults
      PROVE  ShapeOK'
  BY <1>l, <1>t, <1>o DEF ShapeOK, RecoveryOK, CountsOK
<1>j. UNCHANGED journal => JournalOK'
  BY <1>t DEF JournalOK
<1>s. UNCHANGED <<setting, wanted>> => SettingOK'
  BY <1>t DEF SettingOK
<1>1. CASE Begin(s)
  <2>1. PICK u \in Services :
          /\ Turns(s, [Off(u) EXCEPT !.at = "servers"])
          /\ contested' = IF Contends(s, u) THEN contested \union {u} ELSE contested
    BY <1>1 DEF Begin, Actives
  <2>2. [Off(u) EXCEPT !.at = "servers"] \in SessionRecords
    <3>1. Unread \in Reading
      BY DEF Unread, Reading
    <3>2. QED BY <3>1 DEF Off, SessionRecords, SessionPlaces
  <2>3. [Off(u) EXCEPT !.at = "servers"].at = "servers"
    BY DEF Off
  <2>4. SessionsOK'
    BY <1>t, <2>1, <2>2, <2>3, TurnsType DEF Known, OwnSteps
  <2>5. CountsOK' /\ RecoveryOK'
    BY <1>1, <1>t, <2>1 DEF Begin, CountsOK, RecoveryOK
  <2>6. QED BY <1>1, <1>j, <1>s, <2>4, <2>5 DEF Begin, ShapeOK
<1>2. CASE ReadServers(s)
  <2> DEFINE r == [session[s] EXCEPT !.at = "search", !.prior.servers = Stands(s).servers]
  <2>1. r \in SessionRecords /\ r.at = "search" /\ r.prior.servers \in Lists
    BY <1>t DEF SessionRecords, SessionPlaces, Reading, Settings
  <2>2. Turns(s, r) /\ UNCHANGED <<setting, journal, wanted, recovery, contested, lost, edits, faults>>
    BY <1>2 DEF ReadServers, Mid, At
  <2> HIDE DEF r
  <2>3. SessionsOK'
    BY <1>t, <2>1, <2>2, TurnsType DEF Known, OwnSteps
  <2>4. QED BY <1>f, <1>j, <1>o, <1>s, <2>2, <2>3
<1>3. CASE ReadSearch(s)
  <2> DEFINE r == [session[s] EXCEPT !.at = "chain", !.prior.search = Stands(s).search]
  <2>0. session[s].prior.servers \in Lists
    BY <1>3, <1>t DEF ReadSearch, Mid, At, SessionsOK
  <2>1. r \in SessionRecords /\ r.at = "chain" /\ r.prior \in Settings
    BY <1>t, <2>0 DEF SessionRecords, SessionPlaces, Reading, Settings
  <2>2. Turns(s, r) /\ UNCHANGED <<setting, journal, wanted, recovery, contested, lost, edits, faults>>
    BY <1>3 DEF ReadSearch, Mid, At
  <2> HIDE DEF r
  <2>3. SessionsOK'
    BY <1>t, <2>1, <2>2, TurnsType
  <2>4. QED BY <1>f, <1>j, <1>o, <1>s, <2>2, <2>3
<1>4. CASE GivesUp(s)
  <2>1. SessionsOK'
    BY <1>4, <1>t, GoesType DEF GivesUp, SessionPlaces, Known, OwnSteps
  <2>2. QED BY <1>4, <1>f, <1>j, <1>o, <1>s, <2>1 DEF GivesUp, Mid, At
<1>5. CASE Chain(s)
  <2> DEFINE r == [session[s] EXCEPT !.at = "journal", !.prior = Priors(s)]
  <2>0. Priors(s) \in Settings
    BY <1>5, PriorsType DEF Chain, Mid, At
  <2>1. r \in SessionRecords /\ r.at = "journal" /\ r.prior \in Settings
    BY <1>t, <2>0, ListTypes DEF SessionRecords, SessionPlaces
  <2>2. Turns(s, r) /\ UNCHANGED <<setting, journal, wanted, recovery, contested, lost, edits, faults>>
    BY <1>5 DEF Chain, Mid, At
  <2> HIDE DEF r
  <2>3. SessionsOK'
    BY <1>t, <2>1, <2>2, TurnsType
  <2>4. QED BY <1>f, <1>j, <1>o, <1>s, <2>2, <2>3
<1>6. CASE WriteJournal(s)
  <2> DEFINE j == [applied |-> Pushed[s], prior |-> session[s].prior, changed |-> Changes(s)]
  <2>1. j \in FullRecords /\ session[s].at = "journal"
    BY <1>6, <1>k, ListTypes DEF WriteJournal, Mid, At, Known, FullRecords, Changes
  <2>2. journal' = [journal EXCEPT ![InstanceOf[s]][v] = j] /\ Goes(s, "swap")
        /\ UNCHANGED <<setting, wanted, recovery, contested, lost, edits, faults>>
    BY <1>6 DEF WriteJournal, Records, Mid, At
  <2> HIDE DEF j, v
  <2>3. JournalOK'
    BY <1>t, <2>1, <2>2, RecordsType
  <2>4. SessionsOK'
    BY <1>t, <2>1, <2>2, GoesType DEF SessionPlaces, Known, OwnSteps
  <2>5. QED BY <1>f, <1>o, <1>s, <2>2, <2>3, <2>4
<1>n. ASSUME session[s].at \in OwnSteps, NEW field \in {"servers", "search"}, NEW value,
             value \in IF field = "servers" THEN Lists ELSE Searches,
             Sets(v, field, value) \/ FailsToSet(v, field, value),
             SessionsOK', UNCHANGED <<journal, recovery, wanted, contested, edits>>,
             UNCHANGED lost \/ Loses(s)
      PROVE  ShapeOK'
  <2> HIDE DEF v
  <2>1. SettingOK' /\ faults' \in 0 .. MaxFaults
    BY <1>f, <1>n, <1>t, SetsType
  <2>2. QED BY <1>j, <1>n, <1>o, <2>1
<1>7. CASE Swap(s)
  <2>1. Sets(v, "servers", Pushed[s]) \/ FailsToSet(v, "servers", Pushed[s])
    BY <1>7 DEF Swap
  <2>2. PICK to \in {"swapsearch", "up", "left"} : Goes(s, to)
    BY <1>7 DEF Swap
  <2>3. session[s].at = "swap" /\ UNCHANGED <<journal, recovery, wanted, contested, edits>> /\ Loses(s)
    BY <1>7 DEF Swap, At
  <2>4. SessionsOK'
    BY <1>t, <2>2, <2>3, GoesType DEF SessionPlaces, Known, OwnSteps
  <2>5. QED BY <1>n, <2>1, <2>3, <2>4, ListTypes DEF OwnSteps
<1>8. CASE SwapSearch(s)
  <2>1. Sets(v, "search", PushedSearch[s]) \/ FailsToSet(v, "search", PushedSearch[s])
    BY <1>8 DEF SwapSearch
  <2>2. PICK to \in {"up", "left"} : Goes(s, to)
    BY <1>8 DEF SwapSearch
  <2>3. session[s].at = "swapsearch" /\ UNCHANGED <<journal, recovery, wanted, contested, lost, edits>>
    BY <1>8 DEF SwapSearch, Mid, At
  <2>4. SessionsOK'
    BY <1>t, <2>2, <2>3, GoesType DEF SessionPlaces, Known, OwnSteps
  <2>5. QED BY <1>n, <2>1, <2>3, <2>4, ListTypes DEF OwnSteps
<1>r. ASSUME session[s].at \in OwnSteps, NEW field \in {"servers", "search"}, NEW to \in {"restoresearch", "retire"},
             Reverts(s, field, to), UNCHANGED <<journal, recovery, wanted, contested, lost, edits>>
      PROVE  ShapeOK'
  <2>1. session[s].prior \in Settings
    BY <1>k, <1>r DEF Known
  <2>2. Sets(v, field, session[s].prior[field]) \/ FailsToSet(v, field, session[s].prior[field])
    BY <1>r DEF Reverts
  <2>3. session[s].prior[field] \in IF field = "servers" THEN Lists ELSE Searches
    BY <2>1 DEF Settings
  <2>4. CASE Goes(s, to)
    <3>1. SessionsOK'
      BY <1>r, <1>t, <2>4, GoesType DEF SessionPlaces, Known
    <3>2. QED BY <1>n, <1>r, <2>2, <2>3, <3>1
  <2>5. CASE Turns(s, [session[s] EXCEPT !.at = to, !.failed = TRUE])
    <3> DEFINE r == [session[s] EXCEPT !.at = to, !.failed = TRUE]
    <3>1. r \in SessionRecords /\ r.at = to /\ r.prior \in Settings
      BY <1>t, <2>1 DEF SessionRecords, SessionPlaces
    <3>2. Turns(s, r)
      BY <2>5
    <3> HIDE DEF r
    <3>3. SessionsOK'
      BY <1>t, <3>1, <3>2, TurnsType
    <3>4. QED BY <1>n, <1>r, <2>2, <2>3, <3>3
  <2>6. QED BY <1>r, <2>4, <2>5 DEF Reverts
<1>9. CASE RestoreServers(s)
  <2>1. PICK to \in {"restoresearch", "retire"} : Reverts(s, "servers", to)
    BY <1>9 DEF RestoreServers
  <2>2. QED BY <1>9, <1>r, <2>1 DEF RestoreServers, Mid, At, OwnSteps
<1>10. CASE RestoreSearch(s)
  BY <1>10, <1>r DEF RestoreSearch, Mid, At, OwnSteps
<1>11. CASE Retire(s)
  <2>1. SessionsOK'
    BY <1>11, <1>t, GoesType DEF Retire, SessionPlaces, Known, OwnSteps
  <2>2. JournalOK'
    <3>1. CASE UNCHANGED journal
      BY <1>j, <3>1
    <3>2. CASE journal' = [journal EXCEPT ![InstanceOf[s]][v] = NoJournal]
      <4> HIDE DEF v
      <4>1. QED BY <1>t, <3>2, RecordsType
    <3>3. QED BY <1>11, <3>1, <3>2 DEF Retire, Records
  <2>3. QED BY <1>11, <1>f, <1>o, <1>s, <2>1, <2>2 DEF Retire, Mid, At
<1>12. CASE Crash(s)
  <2>1. SessionsOK'
    BY <1>12, <1>t, GoesType DEF Crash, SessionPlaces, Known, OwnSteps
  <2>2. QED BY <1>12, <1>f, <1>j, <1>o, <1>s, <2>1 DEF Crash, At
<1>13. QED
  BY <1>1, <1>2, <1>3, <1>4, <1>5, <1>6, <1>7, <1>8, <1>9, <1>10, <1>11, <1>12 DEF SessionStep

LEMMA ShapeByRecovery ==
  ASSUME ShapeOK, NEW x \in Recoveries, RecoveryStep(x)
  PROVE  ShapeOK'
<1>t. /\ recovery[x] \in RecoveryRecords
      /\ SessionsOK /\ JournalOK /\ SettingOK /\ RecoveryOK /\ CountsOK
  BY DEF ShapeOK, RecoveryOK
<1>f. faults \in 0 .. MaxFaults /\ (Fault => faults' \in 0 .. MaxFaults)
  BY <1>t, BoundsAssumption DEF CountsOK, Fault
<1>i. Idle \in RecoveryRecords
  BY DEF Idle, RecoveryRecords
<1>b. ASSUME NEW r \in RecoveryRecords, Becomes(x, r) PROVE RecoveryOK'
  BY <1>b, <1>t, BecomesType
<1>o. ASSUME RecoveryOK', JournalOK', SettingOK', UNCHANGED <<session, contested, lost, edits>>,
             faults' \in 0 .. MaxFaults
      PROVE  ShapeOK'
  BY <1>t, <1>o DEF ShapeOK, SessionsOK, CountsOK
<1>j. UNCHANGED journal => JournalOK'
  BY <1>t DEF JournalOK
<1>s. UNCHANGED <<setting, wanted>> => SettingOK'
  BY <1>t DEF SettingOK
<1>d. [recovery[x] EXCEPT !.at = "work", !.job = {}] \in RecoveryRecords
  BY <1>t DEF RecoveryRecords
<1>1. CASE Recover(x)
  <2>1. Jobs \subseteq FullJobs
    <3>1. ASSUME NEW d \in Jobs PROVE d \in FullJobs
      <4>1. PICK i \in Instances, v \in Services : d = [i |-> i, v |-> v, j |-> journal[i][v]]
        BY DEF Jobs, Written
      <4>2. journal[i][v] # NoJournal
        BY <4>1 DEF Jobs
      <4>3. QED BY <1>t, <4>1, <4>2 DEF JournalOK, FullJobs
    <3>2. QED BY <3>1
  <2>2. [Idle EXCEPT !.at = "over"] \in RecoveryRecords
        /\ [Idle EXCEPT !.at = "work", !.jobs = Jobs] \in RecoveryRecords
    BY <2>1 DEF Idle, RecoveryRecords
  <2>3. RecoveryOK'
    BY <1>1, <1>b, <2>2 DEF Recover
  <2>4. QED BY <1>1, <1>f, <1>j, <1>o, <1>s, <2>3 DEF Recover, Idles
<1>2. CASE Verify(x)
  <2>1. PICK d \in recovery[x].jobs :
          LET rest == [recovery[x] EXCEPT !.jobs = @ \ {d}] IN
            \/ /\ Becomes(x, [rest EXCEPT !.at = StartsAt(d),
                                          !.job = IF StartsAt(d) = "work" THEN {} ELSE {d}])
               /\ UNCHANGED faults
            \/ Fault /\ Becomes(x, rest)
    BY <1>2 DEF Verify
  <2>2. StartsAt(d) \in {"servers", "search", "retire", "work"} /\ d \in FullJobs
    BY <1>t DEF StartsAt, RecoveryRecords
  <2> DEFINE rest == [recovery[x] EXCEPT !.jobs = @ \ {d}]
  <2>3. rest \in RecoveryRecords
    BY <1>t DEF RecoveryRecords
  <2>4. [rest EXCEPT !.at = StartsAt(d), !.job = IF StartsAt(d) = "work" THEN {} ELSE {d}] \in RecoveryRecords
    BY <2>2, <2>3 DEF RecoveryRecords
  <2>5. RecoveryOK' /\ faults' \in 0 .. MaxFaults
    BY <1>b, <1>f, <2>1, <2>3, <2>4
  <2>6. QED BY <1>2, <1>j, <1>o, <1>s, <2>5 DEF Verify, Idles
<1>n. ASSUME NEW d \in recovery[x].job, NEW field \in {"servers", "search"},
             Sets(d.v, field, d.j.prior[field]) \/ FailsToSet(d.v, field, d.j.prior[field]),
             RecoveryOK', UNCHANGED <<journal, session, wanted, contested, lost, edits>>
      PROVE  ShapeOK'
  <2>1. d.v \in Services /\ d.j.prior \in Settings
    BY <1>t, <1>n DEF RecoveryRecords, FullJobs, FullRecords
  <2>2. d.j.prior[field] \in IF field = "servers" THEN Lists ELSE Searches
    BY <2>1 DEF Settings
  <2>3. SettingOK' /\ faults' \in 0 .. MaxFaults
    BY <1>f, <1>n, <1>t, <2>1, <2>2, SetsType
  <2>4. QED BY <1>j, <1>n, <1>o, <2>3
<1>a. ASSUME NEW to \in {"search", "retire"} PROVE [recovery[x] EXCEPT !.at = to] \in RecoveryRecords
  BY <1>t DEF RecoveryRecords
<1>3. CASE RecoverServers(x)
  <2>1. PICK d \in recovery[x].job :
          \/ /\ Sets(d.v, "servers", d.j.prior.servers)
             /\ Becomes(x, [recovery[x] EXCEPT !.at = IF d.j.changed THEN "search" ELSE "retire"])
          \/ FailsToSet(d.v, "servers", d.j.prior.servers) /\ Drops(x)
    BY <1>3 DEF RecoverServers
  <2>2. RecoveryOK'
    BY <1>a, <1>b, <1>d, <2>1 DEF Drops
  <2>3. QED BY <1>3, <1>n, <2>1, <2>2 DEF RecoverServers, Idles
<1>4. CASE RecoverSearch(x)
  <2>1. PICK d \in recovery[x].job :
          \/ Sets(d.v, "search", d.j.prior.search) /\ Becomes(x, [recovery[x] EXCEPT !.at = "retire"])
          \/ FailsToSet(d.v, "search", d.j.prior.search) /\ Drops(x)
    BY <1>4 DEF RecoverSearch
  <2>2. RecoveryOK'
    BY <1>a, <1>b, <1>d, <2>1 DEF Drops
  <2>3. QED BY <1>4, <1>n, <2>1, <2>2 DEF RecoverSearch, Idles
<1>5. CASE RetireJournal(x)
  <2>1. PICK d \in recovery[x].job : journal' = [journal EXCEPT ![d.i][d.v] = NoJournal]
    BY <1>5 DEF RetireJournal
  <2>2. d.i \in Instances /\ d.v \in Services
    BY <1>t DEF RecoveryRecords, FullJobs
  <2>3. JournalOK' /\ RecoveryOK'
    BY <1>5, <1>b, <1>d, <1>t, <2>1, <2>2, RecordsType DEF RetireJournal, Drops
  <2>4. QED BY <1>5, <1>f, <1>o, <1>s, <2>3 DEF RetireJournal, Idles
<1>6. CASE RecoverEnds(x)
  <2>1. [Idle EXCEPT !.at = "over"] \in RecoveryRecords
    BY DEF Idle, RecoveryRecords
  <2>2. RecoveryOK'
    BY <1>6, <1>b, <2>1 DEF RecoverEnds
  <2>3. QED BY <1>6, <1>f, <1>j, <1>o, <1>s, <2>2 DEF RecoverEnds, Idles
<1>7. QED BY <1>1, <1>2, <1>3, <1>4, <1>5, <1>6 DEF RecoveryStep

LEMMA EditType ==
  ASSUME ShapeOK, NEW v \in Services, Edit(v)
  PROVE  /\ ShapeOK' /\ UNCHANGED <<journal, session, recovery, contested, lost>>
         /\ setting'[v].servers = wanted'[v].servers /\ wanted'[v].servers \in UserLists
         /\ \A u \in Services : u # v => setting'[u] = setting[u] /\ wanted'[u] = wanted[u]
<1>1. PICK n \in UserLists : SetTo(v, "servers", n) /\ wanted' = [wanted EXCEPT ![v].servers = n]
  BY DEF Edit
<1>2. /\ edits < MaxEdits /\ edits' = edits + 1
      /\ UNCHANGED <<journal, session, recovery, contested, lost, faults>>
  BY DEF Edit
<1>3. /\ setting' \in [Services -> Settings] /\ wanted' \in [Services -> Settings]
      /\ setting'[v].servers = n /\ wanted'[v].servers = n
      /\ \A u \in Services : u # v => setting'[u] = setting[u] /\ wanted'[u] = wanted[u]
  BY <1>1, ListTypes DEF SetTo, ShapeOK, SettingOK, Settings
<1>4. CountsOK'
  BY <1>2, BoundsAssumption DEF ShapeOK, CountsOK
<1>5. SessionsOK' /\ JournalOK' /\ RecoveryOK'
  BY <1>2 DEF ShapeOK, SessionsOK, JournalOK, RecoveryOK
<1>6. QED BY <1>1, <1>2, <1>3, <1>4, <1>5 DEF ShapeOK, SettingOK

LEMMA ShapeStep == ShapeOK /\ [Next]_vars => ShapeOK'
<1> SUFFICES ASSUME ShapeOK, [Next]_vars PROVE ShapeOK'
  OBVIOUS
<1>1. CASE UNCHANGED vars
  BY <1>1 DEF vars, ShapeOK, SessionsOK, JournalOK, SettingOK, RecoveryOK, CountsOK
<1>2. QED BY <1>1, ShapeBySession, ShapeByRecovery, EditType DEF Next

LEMMA ShapeInit == Init => ShapeOK
<1> SUFFICES ASSUME Init PROVE ShapeOK
  OBVIOUS
<1>1. PICK v \in Services : session = [s \in Sessions |-> Off(v)]
  BY DEF Init
<1>2. Off(v) \in SessionRecords /\ Off(v).at = "off"
  <2>1. Unread \in Reading
    BY DEF Unread, Reading
  <2>2. QED BY <2>1 DEF Off, SessionRecords, SessionPlaces
<1>3. SessionsOK
  BY <1>1, <1>2 DEF SessionsOK, Known, OwnSteps
<1>4. SettingOK
  <2>1. [servers : UserLists, search : {UserSearch}] \subseteq Settings
    BY ListTypes DEF Settings
  <2>2. QED BY <2>1 DEF Init, SettingOK
<1>5. Idle \in RecoveryRecords
  BY DEF Idle, RecoveryRecords
<1>6. JournalOK /\ RecoveryOK
  BY <1>5 DEF Init, JournalOK, RecoveryOK
<1>7. CountsOK
  BY BoundsAssumption DEF Init, CountsOK
<1>8. QED BY <1>3, <1>4, <1>6, <1>7 DEF ShapeOK

LEMMA ShapeTypes == ShapeOK => TypeOK
<1> SUFFICES ASSUME ShapeOK PROVE TypeOK
  OBVIOUS
<1>1. FullRecords \cup {NoJournal} \subseteq JournalRecords
  <2>1. NoJournal \in JournalRecords
    BY DEF NoJournal, JournalRecords
  <2>2. FullRecords \subseteq JournalRecords
    BY DEF FullRecords, JournalRecords
  <2>3. QED BY <2>1, <2>2
<1>2. FullJobs \subseteq JobRecords
  BY <1>1 DEF FullJobs, JobRecords
<1>3. setting \in [Services -> Settings] /\ wanted \in [Services -> Settings]
  BY DEF ShapeOK, SettingOK
<1>4. journal \in [Instances -> [Services -> JournalRecords]]
  BY <1>1 DEF ShapeOK, JournalOK
<1>5. session \in [Sessions -> [at : {"off", "servers", "search", "chain", "journal", "swap",
                                     "swapsearch", "up", "restoresearch", "retire", "left", "dead"},
                               on : Services, prior : Reading, failed : BOOLEAN]]
  BY DEF ShapeOK, SessionsOK, SessionRecords, SessionPlaces
<1>6. recovery \in [Recoveries -> [at : {"off", "work", "servers", "search", "retire", "over"},
                                  jobs : SUBSET JobRecords, job : SUBSET JobRecords]]
  BY <1>2 DEF ShapeOK, RecoveryOK, RecoveryRecords
<1>7. contested \subseteq Services /\ lost \subseteq Services /\ edits \in 0 .. MaxEdits /\ faults \in 0 .. MaxFaults
  BY DEF ShapeOK, CountsOK
<1>8. QED BY <1>3, <1>4, <1>5, <1>6, <1>7 DEF TypeOK

\* The settings, the journals and the processes keep their types.
THEOREM DnsTyping == Spec => []TypeOK
<1>1. Init => ShapeOK
  BY ShapeInit
<1>2. ShapeOK /\ [Next]_vars => ShapeOK'
  BY ShapeStep
<1>3. ShapeOK => TypeOK
  BY ShapeTypes
<1>4. QED BY <1>1, <1>2, <1>3, PTL DEF Spec

-----------------------------------------------------------------------------
(* What a step leaves alone. *)

LEMMA UntouchedService ==
  ASSUME NEW v \in Services, ServiceOK(v),
         setting'[v] = setting[v], wanted'[v] = wanted[v],
         \A i \in Instances : journal'[i][v] = journal[i][v],
         \A s \in Sessions : OnIt(s, v) \/ OnIt(s, v)' => OnIt(s, v) /\ session'[s] = session[s],
         (\E s \in Sessions : OnIt(s, v)') => \A x \in Recoveries : Working(x)' => Working(x)
  PROVE  ServiceOK(v)'
<1>1. AloneOn(v)'
  BY DEF ServiceOK, AloneOn
<1>2. Recoverable(v)'
  <2>1. KnownOf(v) => KnownOf(v)'
    BY DEF KnownOf, Brings
  <2>2. ASSUME NEW s \in Sessions, session[s].on = v, Overtook(s)
        PROVE  session'[s].on = v /\ Overtook(s)'
    <3>1. session'[s] = session[s]
      BY <2>2 DEF OnIt, Live, Overtook
    <3>2. QED BY <2>2, <3>1 DEF Overtook, Stands
  <2>3. QED BY <2>1, <2>2 DEF ServiceOK, Recoverable
<1>3. \A i \in Instances : journal'[i][v] # NoJournal => RecordOf(i, journal'[i][v])
  BY DEF ServiceOK
<1>4. ASSUME NEW s \in Sessions, OnIt(s, v)' PROVE Progress(s, v)'
  <2>1. Progress(s, v) /\ session'[s] = session[s] /\ InstanceOf[s] \in Instances
    BY <1>4, ServiceAssumption DEF ServiceOK
  <2>2. journal'[InstanceOf[s]][v] = journal[InstanceOf[s]][v]
    BY <2>1
  <2>3. QED BY <2>1, <2>2 DEF Progress
<1>5. QED BY <1>1, <1>2, <1>3, <1>4 DEF ServiceOK, RecordOf

LEMMA JobsKept ==
  ASSUME NEW x \in Recoveries, JobInv(x), recovery'[x] = recovery[x], Untold \subseteq Untold',
         ASSUME NEW d \in Held(x), d.v \notin Untold'
         PROVE  /\ setting'[d.v].servers \in {setting[d.v].servers, wanted[d.v].servers}
                /\ wanted'[d.v] = wanted[d.v]
                /\ \A i \in Instances : journal'[i][d.v] \in {journal[i][d.v], NoJournal}
  PROVE  JobInv(x)'
<1>1. Held(x)' = Held(x) /\ Working(x)' = Working(x)
  BY DEF Held, Working
<1>2. (~Working(x) => Held(x) = {})'
  BY <1>1 DEF JobInv
<1>3. ASSUME NEW d \in Held(x), d.v \notin Untold'
      PROVE  /\ RecordOf(d.i, d.j)
             /\ \A i \in Instances : journal'[i][d.v] # NoJournal => i = d.i /\ journal'[i][d.v] = d.j
  BY <1>3 DEF JobInv
<1>4. ASSUME NEW d \in recovery[x].job, d.v \notin Untold'
      PROVE  /\ recovery[x].at = "servers" => d.j.prior.servers = wanted'[d.v].servers
             /\ recovery[x].at \in {"search", "retire"} => setting'[d.v].servers = wanted'[d.v].servers
  <2>1. d \in Held(x)
    BY DEF Held
  <2>2. QED BY <1>4, <2>1 DEF JobInv
<1>5. \A d, e \in recovery[x].job : d = e
  BY DEF JobInv
<1>6. QED
  <2>1. \A d \in Held(x)' : d.v \notin Untold' =>
          /\ RecordOf(d.i, d.j)
          /\ \A i \in Instances : journal'[i][d.v] # NoJournal => i = d.i /\ journal'[i][d.v] = d.j
    BY <1>1, <1>3
  <2>2. QED BY <1>2, <1>4, <1>5, <2>1 DEF JobInv, RecordOf

\* What a recovery goes by is of a service and an instance.
LEMMA JobTypes ==
  ASSUME ShapeOK, NEW x \in Recoveries, NEW d \in Held(x)
  PROVE  d.i \in Instances /\ d.v \in Services /\ d.j \in FullRecords
BY DEF ShapeOK, RecoveryOK, RecoveryRecords, FullJobs, Held

\* No session is at work beside a recovery on a service that nobody disputes.
LEMMA NobodyBeside ==
  ASSUME ServiceInv, NEW x \in Recoveries, Working(x), NEW v \in Services \ Untold,
         NEW s \in Sessions
  PROVE  ~OnIt(s, v)
BY DEF ServiceInv, ServiceOK, AloneOn

\* Where a journal matters, it is the one of what stands.
LEMMA NotPushed ==
  ASSUME ShapeOK, ServiceInv, NEW v \in Services \ Untold,
         \A s \in Sessions : OnIt(s, v) => session[s].at # "swap"
  PROVE  /\ \A i \in Instances : journal[i][v] # NoJournal =>
              journal[i][v].applied \notin UserLists /\ journal[i][v].applied # wanted[v].servers
         /\ setting[v].servers # wanted[v].servers =>
              \E i \in Instances : journal[i][v] # NoJournal /\ Brings(v, journal[i][v])
<1>1. wanted[v].servers \in UserLists /\ ServiceOK(v)
  BY DEF ServiceInv
<1>2. setting[v].servers \in Lists /\ NoJournal.applied = NoList
  BY ListTypes DEF ShapeOK, SettingOK, NoJournal
<1>3. ASSUME NEW i \in Instances, journal[i][v] # NoJournal
      PROVE  journal[i][v].applied \notin UserLists
  BY <1>1, <1>3, ListTypes DEF ServiceOK, RecordOf
<1>4. setting[v].servers # wanted[v].servers =>
         \E i \in Instances : journal[i][v] # NoJournal /\ Brings(v, journal[i][v])
  <2>1. KnownOf(v)
    BY <1>1 DEF ServiceOK, Recoverable, Overtook, OnIt, Live
  <2>2. QED BY <1>1, <1>2, <2>1, ListTypes DEF KnownOf, Brings
<1>5. QED BY <1>1, <1>3, <1>4

-----------------------------------------------------------------------------
(* The steps of a session. *)

\* A step of a session that is at work, at its own service.
LEMMA OwnService ==
  ASSUME ShapeOK, ServiceInv, NEW s \in Sessions, Live(s), session[s].on \notin Untold,
         session'[s].on = session[s].on,
         \A t \in Sessions : t # s => session'[t] = session[t],
         UNCHANGED recovery,
         \A i \in Instances : i # InstanceOf[s] =>
           journal'[i][session[s].on] = journal[i][session[s].on],
         journal'[InstanceOf[s]][session[s].on] # NoJournal =>
           RecordOf(InstanceOf[s], journal'[InstanceOf[s]][session[s].on]),
         Recoverable(session[s].on)',
         Live(s)' => Progress(s, session[s].on)'
  PROVE  ServiceOK(session[s].on)'
<1> PICK v \in Services : v = session[s].on
  BY SessionShape
<1>0. ServiceOK(v) /\ OnIt(s, v)
  BY DEF ServiceInv, OnIt
<1>1. ASSUME NEW t \in Sessions PROVE OnIt(t, v)' => t = s
  BY <1>0 DEF ServiceOK, AloneOn, OnIt, Live
<1>2. /\ \A x \in Recoveries : ~Working(x)
      /\ \A i \in Instances : journal[i][v] # NoJournal => i = InstanceOf[s]
  BY <1>0 DEF ServiceOK, AloneOn
<1>3. \A i \in Instances : journal'[i][v] # NoJournal => i = InstanceOf[s]
  BY <1>2
<1>4. \A x \in Recoveries : ~Working(x)'
  BY <1>2 DEF Working
<1>5. AloneOn(v)'
  BY <1>1, <1>3, <1>4 DEF AloneOn
<1>6. \A i \in Instances : journal'[i][v] # NoJournal => RecordOf(i, journal'[i][v])
  BY <1>3
<1>7. \A t \in Sessions : OnIt(t, v)' => Progress(t, v)'
  BY <1>1 DEF OnIt
<1>8. ServiceOK(v)'
  BY <1>5, <1>6, <1>7 DEF ServiceOK, RecordOf
<1>9. QED BY <1>8

\* And everywhere else.
LEMMA OtherServices ==
  ASSUME ShapeOK, ServiceInv, NEW s \in Sessions, Live(s),
         session'[s].on = session[s].on,
         \A t \in Sessions : t # s => session'[t] = session[t],
         UNCHANGED <<wanted, recovery>>, Untold \subseteq Untold',
         \A u \in Services : u # session[s].on =>
           setting'[u] = setting[u] /\ \A i \in Instances : journal'[i][u] = journal[i][u],
         session[s].on \notin Untold' => ServiceOK(session[s].on)'
  PROVE  ServiceInv'
<1>1. \A v \in Services : wanted'[v].servers \in UserLists
  BY DEF ServiceInv
<1>2. ASSUME NEW v \in Services \ Untold' PROVE ServiceOK(v)'
  <2>1. CASE v = session[s].on
    <3>1. session[s].on \notin Untold'
      BY <2>1
    <3>2. ServiceOK(session[s].on)'
      BY <3>1
    <3>3. session'[s].on = v
      BY <2>1
    <3>4. QED BY <2>1, <3>2, <3>3
  <2>2. CASE v # session[s].on
    <3>1. ServiceOK(v)
      BY DEF ServiceInv
    <3>2. \A t \in Sessions : OnIt(t, v) \/ OnIt(t, v)' => OnIt(t, v) /\ session'[t] = session[t]
      BY <2>2 DEF OnIt, Live
    <3>3. \A x \in Recoveries : Working(x)' => Working(x)
      BY DEF Working
    <3>4. QED BY <2>2, <3>1, <3>2, <3>3, UntouchedService
  <2>3. QED BY <2>1, <2>2
<1>3. ASSUME NEW x \in Recoveries PROVE JobInv(x)'
  <2>1. JobInv(x) /\ recovery'[x] = recovery[x] /\ Untold \subseteq Untold'
    BY DEF ServiceInv
  <2>2. ASSUME NEW d \in Held(x), d.v \notin Untold'
        PROVE  /\ setting'[d.v].servers \in {setting[d.v].servers, wanted[d.v].servers}
               /\ wanted'[d.v] = wanted[d.v]
               /\ \A i \in Instances : journal'[i][d.v] \in {journal[i][d.v], NoJournal}
    <3>1. d.v \in Services \ Untold /\ Working(x)
      BY <2>1, <2>2, JobTypes DEF JobInv
    <3>2. d.v # session[s].on
      BY <3>1, NobodyBeside DEF OnIt
    <3>3. QED BY <3>1, <3>2
  <2>3. QED BY <2>1, <2>2, JobsKept
<1>4. QED BY <1>1, <1>2, <1>3 DEF ServiceInv

LEMMA AtWork ==
  ASSUME ShapeOK, ServiceInv, NEW s \in Sessions, NEW v \in Services, v = session[s].on,
         Live(s), session'[s].on = v,
         \A t \in Sessions : t # s => session'[t] = session[t],
         UNCHANGED <<wanted, recovery>>, Untold \subseteq Untold',
         \A u \in Services : u # v =>
           setting'[u] = setting[u] /\ \A i \in Instances : journal'[i][u] = journal[i][u],
         \A i \in Instances : i # InstanceOf[s] => journal'[i][v] = journal[i][v],
         ASSUME v \notin Untold'
         PROVE  /\ Recoverable(v)'
                /\ journal'[InstanceOf[s]][v] # NoJournal =>
                     RecordOf(InstanceOf[s], journal'[InstanceOf[s]][v])
                /\ Live(s)' => Progress(s, v)'
  PROVE  ServiceInv'
<1>1. ASSUME v \notin Untold' PROVE ServiceOK(session[s].on)'
  <2>1. Recoverable(v)' /\ (Live(s)' => Progress(s, v)')
    BY <1>1
  <2>2. Recoverable(session[s].on)' /\ (Live(s)' => Progress(s, session[s].on)')
    BY <2>1
  <2>3. journal'[InstanceOf[s]][v] # NoJournal =>
          RecordOf(InstanceOf[s], journal'[InstanceOf[s]][v])
    BY <1>1
  <2>4. QED BY <1>1, <2>2, <2>3, OwnService
<1>2. QED BY <1>1, OtherServices

\* What holds of a session at work on a service that nobody disputes.
LEMMA OwnFacts ==
  ASSUME ShapeOK, ServiceInv, NEW s \in Sessions, Live(s), NEW v \in Services \ Untold,
         v = session[s].on
  PROVE  /\ Progress(s, v) /\ wanted[v].servers \in UserLists
         /\ ~Overtook(s) => KnownOf(v)
         /\ \A t \in Sessions : OnIt(t, v) => t = s
         /\ InstanceOf[s] \in Instances
         /\ \A i \in Instances : journal[i][v] # NoJournal =>
              i = InstanceOf[s] /\ RecordOf(i, journal[i][v])
<1>1. ServiceOK(v) /\ OnIt(s, v) /\ wanted[v].servers \in UserLists
  BY DEF ServiceInv, OnIt
<1>2. ASSUME ~Overtook(s) PROVE KnownOf(v)
  <2>1. ASSUME NEW t \in Sessions, session[t].on = v, Overtook(t) PROVE FALSE
    <3>1. OnIt(t, v)
      BY <2>1 DEF OnIt, Live, Overtook
    <3>2. t = s
      BY <1>1, <3>1 DEF ServiceOK, AloneOn
    <3>3. QED BY <1>2, <2>1, <3>2
  <2>2. QED BY <1>1, <2>1 DEF ServiceOK, Recoverable
<1>3. QED BY <1>1, <1>2, ServiceAssumption DEF ServiceOK, AloneOn

\* A step that leaves what stands and what is written.
LEMMA OnlyTurns ==
  ASSUME ShapeOK, ServiceInv, NEW s \in Sessions, Live(s), session'[s].on = session[s].on,
         \A t \in Sessions : t # s => session'[t] = session[t],
         UNCHANGED <<setting, journal, wanted, recovery>>, Untold \subseteq Untold',
         session[s].on \notin Untold' => ~Overtook(s),
         ASSUME session[s].on \notin Untold PROVE Live(s)' => Progress(s, session[s].on)'
  PROVE  ServiceInv'
<1> PICK v \in Services : v = session[s].on
  BY SessionShape
<1>1. ASSUME v \notin Untold'
      PROVE  /\ Recoverable(v)'
             /\ journal'[InstanceOf[s]][v] # NoJournal =>
                  RecordOf(InstanceOf[s], journal'[InstanceOf[s]][v])
             /\ Live(s)' => Progress(s, v)'
  <2>1. KnownOf(v) /\ \A i \in Instances : journal[i][v] # NoJournal => RecordOf(i, journal[i][v])
    BY <1>1, OwnFacts
  <2>2. Recoverable(v)'
    BY <2>1 DEF Recoverable, KnownOf, Brings
  <2>3. Live(s)' => Progress(s, session[s].on)'
    BY <1>1
  <2>4. session'[s].on = v
    OBVIOUS
  <2>5. QED BY <2>1, <2>2, <2>3, <2>4, SessionShape
<1>2. QED BY <1>1, AtWork

\* What the chain of the journals takes for the earlier servers is what the user wants.
LEMMA ChainFinds ==
  ASSUME ShapeOK, ServiceInv, NEW s \in Sessions, session[s].at = "chain",
         session[s].on \notin Untold
  PROVE  Priors(s).servers = wanted[session[s].on].servers
<1> PICK v \in Services : v = session[s].on
  BY SessionShape
<1>1. Live(s) /\ \A t \in Sessions : OnIt(t, v) => session[t].at # "swap"
  <2>1. Live(s)
    BY DEF Live
  <2>2. QED BY <2>1, OwnFacts
<1>2. session[s].prior.servers = setting[v].servers
  BY <1>1, OwnFacts DEF Progress, ReadSteps
<1>3. ASSUME setting[v].servers # wanted[v].servers
      PROVE  Journal(s).applied = setting[v].servers /\ Journal(s).prior.servers = wanted[v].servers
  <2>1. PICK i \in Instances : journal[i][v] # NoJournal /\ Brings(v, journal[i][v])
    BY <1>1, <1>3, NotPushed
  <2>2. i = InstanceOf[s]
    BY <1>1, <2>1, OwnFacts
  <2>3. QED BY <2>1, <2>2 DEF Brings, Journal
<1>4. ASSUME setting[v].servers = wanted[v].servers PROVE Journal(s).applied # setting[v].servers
  <2>1. setting[v].servers # NoList
    BY ListTypes DEF ShapeOK, SettingOK
  <2>2. journal[InstanceOf[s]][v] # NoJournal => journal[InstanceOf[s]][v].applied # wanted[v].servers
    BY <1>1, NotPushed, SessionShape
  <2>3. QED BY <1>4, <2>1, <2>2 DEF Journal, NoJournal
<1>5. QED BY <1>2, <1>3, <1>4 DEF Priors

LEMMA InvByReading ==
  ASSUME ShapeOK, ServiceInv, NEW s \in Sessions,
         ReadServers(s) \/ ReadSearch(s) \/ GivesUp(s) \/ Chain(s) \/ Crash(s)
  PROVE  ServiceInv'
<1>t. SessionsOK /\ session[s] \in SessionRecords /\ setting[session[s].on] \in Settings
      /\ Stands(s) = setting[session[s].on]
  BY SessionShape DEF ShapeOK, SessionsOK
<1>1. CASE ReadServers(s)
  <2> DEFINE r == [session[s] EXCEPT !.at = "search", !.prior.servers = Stands(s).servers]
  <2>1. /\ r.on = session[s].on /\ r.at = "search" /\ r.prior.servers = setting[session[s].on].servers
        /\ r \in SessionRecords /\ r.prior.servers \in Lists
    BY <1>t DEF SessionRecords, SessionPlaces, Reading, Settings
  <2>2. /\ Turns(s, r) /\ UNCHANGED <<setting, journal, wanted, recovery, Untold>> /\ Live(s)
        /\ ~Overtook(s)
    BY <1>1 DEF ReadServers, Mid, At, Live, Untold, Overtook
  <2> HIDE DEF r
  <2>3. session'[s] = r /\ \A t \in Sessions : t # s => session'[t] = session[t]
    BY <1>t, <2>1, <2>2, TurnsType DEF Known, OwnSteps
  <2>4. Progress(s, session[s].on)'
    BY <2>1, <2>2, <2>3 DEF Progress, ReadSteps, OwnSteps
  <2>5. QED BY <2>1, <2>2, <2>3, <2>4, OnlyTurns
<1>2. CASE ReadSearch(s)
  <2> DEFINE r == [session[s] EXCEPT !.at = "chain", !.prior.search = Stands(s).search]
  <2>0. session[s].prior.servers \in Lists
    BY <1>2, <1>t DEF ReadSearch, Mid, At, SessionsOK
  <2>1. /\ r.on = session[s].on /\ r.at = "chain" /\ r.prior.servers = session[s].prior.servers
        /\ r \in SessionRecords /\ r.prior \in Settings
    BY <1>t, <2>0 DEF SessionRecords, SessionPlaces, Reading, Settings
  <2>2. /\ Turns(s, r) /\ UNCHANGED <<setting, journal, wanted, recovery, Untold>> /\ Live(s)
        /\ session[s].at = "search" /\ ~Overtook(s)
    BY <1>2 DEF ReadSearch, Mid, At, Live, Untold, Overtook
  <2> HIDE DEF r
  <2>3. session'[s] = r /\ \A t \in Sessions : t # s => session'[t] = session[t]
    BY <1>t, <2>1, <2>2, TurnsType
  <2>4. ASSUME session[s].on \notin Untold PROVE Progress(s, session[s].on)'
    <3>1. session[s].prior.servers = setting[session[s].on].servers
      BY <2>2, <2>4, OwnFacts, SessionShape DEF Progress, ReadSteps
    <3>2. QED BY <2>1, <2>2, <2>3, <3>1 DEF Progress, ReadSteps, OwnSteps
  <2>5. QED BY <2>1, <2>2, <2>3, <2>4, OnlyTurns
<1>3. CASE Chain(s)
  <2> DEFINE r == [session[s] EXCEPT !.at = "journal", !.prior = Priors(s)]
  <2>0. session[s].at = "chain" /\ Live(s) /\ Priors(s) \in Settings /\ Priors(s) \in Reading
    BY <1>3, PriorsType, ListTypes DEF Chain, Mid, At, Live
  <2>1. /\ r.on = session[s].on /\ r.at = "journal" /\ r.prior = Priors(s)
        /\ r \in SessionRecords
    BY <1>t, <2>0 DEF SessionRecords, SessionPlaces
  <2>2. Turns(s, r) /\ UNCHANGED <<setting, journal, wanted, recovery, Untold>> /\ ~Overtook(s)
    BY <1>3 DEF Chain, Mid, At, Untold, Overtook
  <2> HIDE DEF r
  <2>3. session'[s] = r /\ \A t \in Sessions : t # s => session'[t] = session[t]
    BY <1>t, <2>0, <2>1, <2>2, TurnsType
  <2>4. ASSUME session[s].on \notin Untold PROVE Progress(s, session[s].on)'
    <3>1. r.prior.servers = wanted[session[s].on].servers
      BY <2>0, <2>1, <2>4, ChainFinds
    <3>2. QED BY <2>1, <2>2, <2>3, <3>1 DEF Progress, ReadSteps, OwnSteps
  <2>5. QED BY <2>0, <2>1, <2>2, <2>3, <2>4, OnlyTurns
<1>4. CASE GivesUp(s) \/ Crash(s)
  <2>1. PICK to \in {"left", "dead"} : Goes(s, to)
    BY <1>4 DEF GivesUp, Crash
  <2>2. Live(s) /\ UNCHANGED <<setting, journal, wanted, recovery>>
    BY <1>4 DEF GivesUp, Crash, Mid, At, Live
  <2>a. Untold \subseteq Untold' /\ (session[s].on \notin Untold' => ~Overtook(s))
    <3>1. CASE GivesUp(s)
      BY <3>1 DEF GivesUp, Mid, At, Untold, Overtook
    <3>2. CASE Crash(s)
      BY <3>2 DEF Crash, At, Untold, Loses
    <3>3. QED BY <1>4, <3>1, <3>2
  <2>3. /\ session'[s] = [session[s] EXCEPT !.at = to]
        /\ \A t \in Sessions : t # s => session'[t] = session[t]
    BY <1>t, <2>1, GoesType DEF SessionPlaces, Known, OwnSteps
  <2>4. session'[s].on = session[s].on /\ ~Live(s)'
    BY <1>t, <2>3 DEF SessionRecords, Live
  <2>5. QED BY <2>2, <2>a, <2>3, <2>4, OnlyTurns
<1>5. QED BY <1>1, <1>2, <1>3, <1>4

LEMMA InvByWriting ==
  ASSUME ShapeOK, ServiceInv, NEW s \in Sessions, WriteJournal(s)
  PROVE  ServiceInv'
<1> PICK v \in Services : v = session[s].on
  BY SessionShape
<1> DEFINE j == [applied |-> Pushed[s], prior |-> session[s].prior, changed |-> Changes(s)]
<1>1. /\ session[s].at = "journal" /\ Live(s) /\ Goes(s, "swap")
      /\ UNCHANGED <<setting, wanted, recovery, Untold>>
      /\ journal' = [journal EXCEPT ![InstanceOf[s]][v] = j]
  BY DEF WriteJournal, Records, Mid, At, Live, Untold
<1>2. SessionsOK /\ JournalOK /\ session[s] \in SessionRecords /\ InstanceOf[s] \in Instances
  BY SessionShape DEF ShapeOK, SessionsOK
<1>3. j \in FullRecords /\ j.applied = Pushed[s] /\ j.prior = session[s].prior
  BY <1>1, <1>2, ListTypes DEF SessionsOK, Known, FullRecords, Changes
<1> HIDE DEF j
<1>4. /\ session'[s] = [session[s] EXCEPT !.at = "swap"]
      /\ \A t \in Sessions : t # s => session'[t] = session[t]
  BY <1>1, <1>2, GoesType DEF SessionPlaces, Known, OwnSteps
<1>5. /\ journal'[InstanceOf[s]][v] = j
      /\ \A k \in Instances, u \in Services :
           k # InstanceOf[s] \/ u # v => journal'[k][u] = journal[k][u]
  <2>1. journal' = [journal EXCEPT ![InstanceOf[s]][v] = j]
    BY <1>1
  <2>2. InstanceOf[s] \in Instances /\ JournalOK
    BY <1>2
  <2>3. QED BY <2>1, <2>2 DEF JournalOK
<1>6. /\ session'[s].on = v /\ session'[s].at = "swap" /\ session'[s].prior = session[s].prior
  BY <1>2, <1>4 DEF SessionRecords
<1>7. ASSUME v \notin Untold
      PROVE  /\ Recoverable(v)'
             /\ RecordOf(InstanceOf[s], journal'[InstanceOf[s]][v])
             /\ Progress(s, v)'
  <2>1. /\ session[s].prior.servers = wanted[v].servers /\ wanted[v].servers \in UserLists
        /\ \A i \in Instances : journal[i][v] # NoJournal =>
              i = InstanceOf[s] /\ RecordOf(i, journal[i][v])
    BY <1>1, <1>7, OwnFacts DEF Progress
  <2>2. RecordOf(InstanceOf[s], journal'[InstanceOf[s]][v])
    BY <1>3, <1>5, <2>1 DEF RecordOf
  <2>3. Progress(s, v)'
    BY <1>1, <1>3, <1>5, <1>6, <2>1 DEF Progress, ReadSteps, OwnSteps
  <2>4. CASE setting[v].servers = wanted[v].servers
    BY <1>1, <2>2, <2>3, <2>4 DEF Recoverable, KnownOf
  <2>5. CASE setting[v].servers # wanted[v].servers
    <3>1. CASE setting[v].servers = Pushed[s]
      <4>1. KnownOf(v)'
        BY <1>1, <1>2, <1>3, <1>5, <2>1, <3>1 DEF KnownOf, Brings
      <4>2. QED BY <2>2, <2>3, <4>1 DEF Recoverable
    <3>2. CASE setting[v].servers # Pushed[s]
      <4>1. Overtook(s)'
        BY <1>1, <1>6, <2>1, <2>5, <3>2 DEF Overtook, Stands
      <4>2. QED BY <1>6, <2>2, <2>3, <4>1 DEF Recoverable
    <3>3. QED BY <3>1, <3>2
  <2>6. QED BY <2>4, <2>5
<1>8. \A u \in Services : u # v =>
        setting'[u] = setting[u] /\ \A i \in Instances : journal'[i][u] = journal[i][u]
  BY <1>1, <1>5
<1>9. \A i \in Instances : i # InstanceOf[s] => journal'[i][v] = journal[i][v]
  BY <1>5
<1>10. Live(s) /\ UNCHANGED <<wanted, recovery, Untold>>
  BY <1>1
<1>11. QED BY <1>4, <1>6, <1>7, <1>8, <1>9, <1>10, AtWork

\* A command of the swap or of a revert, on the service of its session.
LEMMA InvByCommand ==
  ASSUME ShapeOK, ServiceInv, NEW s \in Sessions, session[s].at \in OwnSteps,
         NEW v \in Services, v = session[s].on,
         NEW field \in {"servers", "search"}, NEW value,
         value \in IF field = "servers" THEN Lists ELSE Searches,
         Sets(v, field, value) \/ FailsToSet(v, field, value),
         field = "servers" => value \in {Pushed[s], session[s].prior.servers},
         SessionsOK', session'[s].on = v, session'[s].prior = session[s].prior,
         session'[s].at \in OwnSteps \cup {"left"},
         \A t \in Sessions : t # s => session'[t] = session[t],
         UNCHANGED <<journal, wanted, recovery>>, Untold \subseteq Untold',
         Overtook(s) /\ setting'[v].servers = setting[v].servers => v \in Untold',
         v \notin Untold /\ session'[s].at \in {"restoresearch", "retire"} /\ ~session'[s].failed =>
           setting'[v].servers = wanted[v].servers
  PROVE  ServiceInv'
<1>0. SettingOK /\ faults \in 0 .. MaxFaults /\ Live(s)
  BY DEF ShapeOK, CountsOK, Live, OwnSteps
<1>1. /\ \A u \in Services : u # v => setting'[u] = setting[u]
      /\ field = "search" => setting'[v].servers = setting[v].servers
      /\ field = "servers" => setting'[v].servers \in {setting[v].servers, value}
  BY <1>0, SetsType
<1>2. ASSUME v \notin Untold'
      PROVE  /\ Recoverable(v)'
             /\ journal'[InstanceOf[s]][v] # NoJournal =>
                  RecordOf(InstanceOf[s], journal'[InstanceOf[s]][v])
             /\ Live(s)' => Progress(s, v)'
  <2>1. /\ session[s].prior.servers = wanted[v].servers
        /\ journal[InstanceOf[s]][v].applied = Pushed[s]
        /\ journal[InstanceOf[s]][v].prior.servers = wanted[v].servers
        /\ ~Overtook(s) => KnownOf(v)
        /\ InstanceOf[s] \in Instances
        /\ \A i \in Instances : journal[i][v] # NoJournal => RecordOf(i, journal[i][v])
    BY <1>0, <1>2, OwnFacts DEF Progress
  <2>2. setting'[v].servers \in {setting[v].servers, Pushed[s], wanted[v].servers}
    BY <1>1, <2>1
  <2>3. Recoverable(v)'
    <3>1. CASE setting'[v].servers = setting[v].servers
      BY <1>2, <2>1, <3>1 DEF Recoverable, KnownOf, Brings
    <3>2. CASE setting'[v].servers # setting[v].servers
      BY <2>1, <2>2, <3>2 DEF Recoverable, KnownOf, Brings
    <3>3. QED BY <3>1, <3>2
  <2>4. Live(s)' => session'[s].at \in OwnSteps
    BY DEF Live
  <2>5. ASSUME session'[s].at \in OwnSteps PROVE Progress(s, v)'
    <3>1. session'[s].at \notin ReadSteps
      BY <2>5 DEF ReadSteps, OwnSteps
    <3>2. QED BY <1>2, <2>1, <3>1 DEF Progress
  <2>6. QED BY <2>1, <2>3, <2>4, <2>5
<1>3. QED BY <1>0, <1>1, <1>2, AtWork

LEMMA InvBySwap ==
  ASSUME ShapeOK, ServiceInv, NEW s \in Sessions, Swap(s) \/ SwapSearch(s)
  PROVE  ServiceInv'
<1> PICK v \in Services : v = session[s].on
  BY SessionShape
<1>1. /\ session[s].at \in {"swap", "swapsearch"} /\ UNCHANGED <<journal, wanted, recovery>>
      /\ SessionsOK /\ session[s] \in SessionRecords
  BY DEF Swap, SwapSearch, Mid, At, ShapeOK, SessionsOK
<1>2. PICK to \in {"swapsearch", "up", "left"} : Goes(s, to)
  BY DEF Swap, SwapSearch
<1>3. /\ session'[s] = [session[s] EXCEPT !.at = to]
      /\ \A t \in Sessions : t # s => session'[t] = session[t]
      /\ SessionsOK'
  BY <1>1, <1>2, GoesType DEF SessionPlaces, Known, OwnSteps
<1>4. session'[s].on = v /\ session'[s].at = to /\ session'[s].prior = session[s].prior
  BY <1>1, <1>3 DEF SessionRecords
<1>5. CASE Swap(s)
  <2>1. Sets(v, "servers", Pushed[s]) \/ FailsToSet(v, "servers", Pushed[s])
    BY <1>5 DEF Swap
  <2>2. Pushed[s] \in Lists
    BY ListTypes
  <2>3. /\ Untold \subseteq Untold'
        /\ Overtook(s) /\ setting'[v].servers = setting[v].servers => v \in Untold'
    <3>1. Loses(s) /\ UNCHANGED contested
      BY <1>5 DEF Swap, At
    <3>2. ASSUME Overtook(s), setting'[v].servers = setting[v].servers PROVE UNCHANGED setting
      <4>1. setting[v].servers # Pushed[s]
        BY <3>2 DEF Overtook, Stands
      <4>2. SettingOK
        BY DEF ShapeOK
      <4>3. SetTo(v, "servers", Pushed[s]) => setting'[v].servers = Pushed[s]
        BY <4>2 DEF SetTo, SettingOK, Settings
      <4>4. QED BY <2>1, <3>2, <4>1, <4>3 DEF Sets, FailsToSet
    <3>3. QED BY <3>1, <3>2 DEF Loses, Untold
  <2>4. QED BY <1>1, <1>3, <1>4, <2>1, <2>2, <2>3, InvByCommand DEF OwnSteps
<1>6. CASE SwapSearch(s)
  <2>1. Sets(v, "search", PushedSearch[s]) \/ FailsToSet(v, "search", PushedSearch[s])
    BY <1>6 DEF SwapSearch
  <2>2. PushedSearch[s] \in Searches
    BY ListTypes
  <2>3. UNCHANGED Untold /\ ~Overtook(s)
    BY <1>6 DEF SwapSearch, Mid, At, Untold, Overtook
  <2>4. QED BY <1>1, <1>3, <1>4, <2>1, <2>2, <2>3, InvByCommand DEF OwnSteps
<1>7. QED BY <1>5, <1>6

LEMMA InvByRevert ==
  ASSUME ShapeOK, ServiceInv, NEW s \in Sessions, RestoreServers(s) \/ RestoreSearch(s)
  PROVE  ServiceInv'
<1> PICK v \in Services : v = session[s].on
  BY SessionShape
<1>1. /\ session[s].at \in {"up", "restoresearch"} /\ UNCHANGED <<journal, wanted, recovery, Untold>>
      /\ SessionsOK /\ session[s] \in SessionRecords /\ session[s].prior \in Settings
      /\ SettingOK /\ faults \in 0 .. MaxFaults /\ Live(s) /\ ~Overtook(s)
  BY DEF RestoreServers, RestoreSearch, Mid, At, ShapeOK, SessionsOK, Known, OwnSteps, CountsOK, Live,
     Untold, Overtook
<1>2. PICK field \in {"servers", "search"}, to \in {"restoresearch", "retire"} :
        Reverts(s, field, to) /\ session[s].at = IF field = "servers" THEN "up" ELSE "restoresearch"
  BY DEF RestoreServers, RestoreSearch, Mid, At
<1> DEFINE value == session[s].prior[field]
<1>3. value \in IF field = "servers" THEN Lists ELSE Searches
  BY <1>1 DEF Settings
<1>4. \/ Sets(v, field, value) /\ Goes(s, to)
      \/ FailsToSet(v, field, value) /\ Turns(s, [session[s] EXCEPT !.at = to, !.failed = TRUE])
  BY <1>2 DEF Reverts
<1>5. field = "servers" => value = session[s].prior.servers
  OBVIOUS
<1> HIDE DEF value
<1>6. /\ session'[s].on = v /\ session'[s].at = to /\ session'[s].prior = session[s].prior
      /\ SessionsOK' /\ \A t \in Sessions : t # s => session'[t] = session[t]
      /\ ~session'[s].failed => Sets(v, field, value) /\ ~session[s].failed
  <2>1. CASE Sets(v, field, value) /\ Goes(s, to)
    <3>1. /\ session'[s] = [session[s] EXCEPT !.at = to]
          /\ \A t \in Sessions : t # s => session'[t] = session[t]
          /\ SessionsOK'
      BY <1>1, <2>1, GoesType DEF SessionPlaces, Known, OwnSteps
    <3>2. QED BY <1>1, <2>1, <3>1 DEF SessionRecords
  <2>2. CASE Turns(s, [session[s] EXCEPT !.at = to, !.failed = TRUE])
    <3> DEFINE r == [session[s] EXCEPT !.at = to, !.failed = TRUE]
    <3>1. /\ r \in SessionRecords /\ r.at = to /\ r.prior = session[s].prior
          /\ r.on = session[s].on /\ r.failed = TRUE
      BY <1>1 DEF SessionRecords, SessionPlaces
    <3>2. Turns(s, r)
      BY <2>2
    <3> HIDE DEF r
    <3>3. session'[s] = r /\ SessionsOK' /\ \A t \in Sessions : t # s => session'[t] = session[t]
      BY <1>1, <3>1, <3>2, TurnsType
    <3>4. QED BY <3>1, <3>3
  <2>3. QED BY <1>4, <2>1, <2>2
<1>7. ASSUME v \notin Untold, ~session'[s].failed PROVE setting'[v].servers = wanted[v].servers
  <2>1. Progress(s, v)
    BY <1>1, <1>7, OwnFacts
  <2>2. Sets(v, field, value) /\ ~session[s].failed
    BY <1>6, <1>7
  <2>3. CASE field = "servers"
    <3>1. setting'[v].servers = value
      BY <1>1, <1>3, <2>2, <2>3, SetsType
    <3>2. session[s].prior.servers = wanted[v].servers
      BY <1>2, <2>1, <2>3 DEF Progress, OwnSteps
    <3>3. QED BY <1>5, <2>3, <3>1, <3>2
  <2>4. CASE field = "search"
    <3>1. setting'[v].servers = setting[v].servers
      BY <1>1, <1>3, <2>2, <2>4, SetsType
    <3>2. setting[v].servers = wanted[v].servers
      BY <1>2, <2>1, <2>2, <2>4 DEF Progress
    <3>3. QED BY <3>1, <3>2
  <2>5. QED BY <2>3, <2>4
<1>8. Sets(v, field, value) \/ FailsToSet(v, field, value)
  BY <1>4
<1>9. QED BY <1>1, <1>3, <1>5, <1>6, <1>7, <1>8, InvByCommand DEF OwnSteps

LEMMA InvByRetire ==
  ASSUME ShapeOK, ServiceInv, NEW s \in Sessions, Retire(s)
  PROVE  ServiceInv'
<1> PICK v \in Services : v = session[s].on
  BY SessionShape
<1>1. /\ session[s].at = "retire" /\ UNCHANGED <<setting, wanted, recovery, Untold>>
      /\ SessionsOK /\ JournalOK /\ session[s] \in SessionRecords /\ InstanceOf[s] \in Instances
      /\ Live(s) /\ Goes(s, "left") /\ ~Overtook(s)
  BY SessionShape DEF Retire, Mid, At, ShapeOK, SessionsOK, Live, Untold, Overtook
<1>2. /\ session'[s] = [session[s] EXCEPT !.at = "left"]
      /\ \A t \in Sessions : t # s => session'[t] = session[t]
  BY <1>1, GoesType DEF SessionPlaces, Known, OwnSteps
<1>3. session'[s].on = v /\ ~Live(s)'
  BY <1>1, <1>2 DEF SessionRecords, Live
<1>4. /\ \A k \in Instances, u \in Services :
           k # InstanceOf[s] \/ u # v => journal'[k][u] = journal[k][u]
      /\ journal'[InstanceOf[s]][v] \in {journal[InstanceOf[s]][v], NoJournal}
      /\ session[s].failed => UNCHANGED journal
  <2>1. CASE UNCHANGED journal
    BY <2>1
  <2>2. CASE ~session[s].failed /\ journal' = [journal EXCEPT ![InstanceOf[s]][v] = NoJournal]
    BY <1>1, <2>2 DEF JournalOK
  <2>3. QED BY <2>1, <2>2 DEF Retire, Records
<1>5. ASSUME v \notin Untold
      PROVE  /\ Recoverable(v)'
             /\ journal'[InstanceOf[s]][v] # NoJournal =>
                  RecordOf(InstanceOf[s], journal'[InstanceOf[s]][v])
             /\ Live(s)' => Progress(s, v)'
  <2>1. /\ Progress(s, v) /\ KnownOf(v)
        /\ \A i \in Instances : journal[i][v] # NoJournal => RecordOf(i, journal[i][v])
    BY <1>1, <1>5, OwnFacts
  <2>2. Recoverable(v)'
    <3>1. CASE session[s].failed
      <4>1. UNCHANGED <<journal, setting, wanted>>
        BY <1>1, <1>4, <3>1
      <4>2. QED BY <2>1, <4>1 DEF Recoverable, KnownOf, Brings
    <3>2. CASE ~session[s].failed
      <4>1. setting[v].servers = wanted[v].servers
        BY <1>1, <2>1, <3>2 DEF Progress
      <4>2. QED BY <1>1, <4>1 DEF Recoverable, KnownOf
    <3>3. QED BY <3>1, <3>2
  <2>3. QED BY <1>1, <1>3, <1>4, <2>1, <2>2
<1>6. /\ \A u \in Services : u # v =>
           setting'[u] = setting[u] /\ \A i \in Instances : journal'[i][u] = journal[i][u]
      /\ \A i \in Instances : i # InstanceOf[s] => journal'[i][v] = journal[i][v]
  BY <1>1, <1>4
<1>7. Live(s) /\ UNCHANGED <<wanted, recovery, Untold>>
  BY <1>1
<1>8. QED BY <1>2, <1>3, <1>5, <1>6, <1>7, AtWork

LEMMA InvByBegin ==
  ASSUME ShapeOK, ServiceInv, NEW s \in Sessions, Begin(s)
  PROVE  ServiceInv'
<1>1. PICK v \in Services :
        /\ Turns(s, [Off(v) EXCEPT !.at = "servers"])
        /\ contested' = IF Contends(s, v) THEN contested \union {v} ELSE contested
  BY DEF Begin, Actives
<1>2. /\ session[s].at = "off" /\ UNCHANGED <<setting, journal, wanted, recovery>>
      /\ SessionsOK /\ Untold \subseteq Untold'
      /\ Contends(s, v) => v \in Untold'
  BY <1>1 DEF Begin, ShapeOK, Untold
<1>3. /\ session'[s].at = "servers" /\ session'[s].on = v
      /\ \A t \in Sessions : t # s => session'[t] = session[t]
  BY <1>1, <1>2 DEF Turns, SessionsOK, Off
<1>4. \A x \in Recoveries : Working(x)' <=> Working(x)
  BY <1>2 DEF Working
<1>5. ASSUME NEW u \in Services \ Untold', u # v PROVE ServiceOK(u)'
  <2>1. ServiceOK(u)
    BY <1>2 DEF ServiceInv
  <2>2. \A t \in Sessions : OnIt(t, u) \/ OnIt(t, u)' => OnIt(t, u) /\ session'[t] = session[t]
    BY <1>2, <1>3, <1>5 DEF OnIt, Live
  <2>3. QED BY <1>2, <1>4, <2>1, <2>2, UntouchedService
<1>6. ASSUME v \notin Untold' PROVE ServiceOK(v)'
  <2>1. ServiceOK(v) /\ ~Contends(s, v)
    BY <1>1, <1>2, <1>6 DEF ServiceInv
  <2>2. ASSUME NEW t \in Sessions PROVE OnIt(t, v)' => t = s
    BY <1>3, <2>1 DEF Contends, OnIt, Live
  <2>3. /\ \A x \in Recoveries : ~Working(x)
        /\ \A i \in Instances : journal[i][v] # NoJournal => i = InstanceOf[s]
    BY <2>1 DEF Contends
  <2>4. AloneOn(v)'
    <3>1. /\ \A x \in Recoveries : ~Working(x)'
          /\ \A i \in Instances : journal'[i][v] # NoJournal => i = InstanceOf[s]
      BY <1>2, <1>4, <2>3
    <3>2. QED BY <2>2, <3>1 DEF AloneOn
  <2>5. Recoverable(v)'
    <3>1. \A t \in Sessions : session[t].on = v => ~Overtook(t)
      BY <1>2, <2>1 DEF Contends, Overtook, Live
    <3>2. KnownOf(v)
      BY <2>1, <3>1 DEF ServiceOK, Recoverable
    <3>3. QED BY <1>2, <3>2 DEF Recoverable, KnownOf, Brings
  <2>6. \A i \in Instances : journal'[i][v] # NoJournal => RecordOf(i, journal'[i][v])
    BY <1>2, <2>1 DEF ServiceOK
  <2>7. Progress(s, v)'
    BY <1>3 DEF Progress, ReadSteps, OwnSteps
  <2>8. QED BY <2>2, <2>4, <2>5, <2>6, <2>7 DEF ServiceOK, RecordOf
<1>7. ASSUME NEW x \in Recoveries PROVE JobInv(x)'
  <2>1. JobInv(x) /\ recovery'[x] = recovery[x]
    BY <1>2 DEF ServiceInv
  <2>2. QED BY <1>2, <2>1, JobsKept
<1>8. QED BY <1>2, <1>5, <1>6, <1>7 DEF ServiceInv

LEMMA InvBySession ==
  ASSUME ShapeOK, ServiceInv, NEW s \in Sessions, SessionStep(s)
  PROVE  ServiceInv'
BY InvByBegin, InvByReading, InvByWriting, InvBySwap, InvByRevert, InvByRetire DEF SessionStep

LEMMA InvByEdit ==
  ASSUME ShapeOK, ServiceInv, NEW v \in Services, Edit(v)
  PROVE  ServiceInv'
<1>1. /\ UNCHANGED <<journal, session, recovery, contested, lost>> /\ UNCHANGED Untold
      /\ setting'[v].servers = wanted'[v].servers /\ wanted'[v].servers \in UserLists
      /\ \A u \in Services : u # v => setting'[u] = setting[u] /\ wanted'[u] = wanted[u]
  BY EditType DEF Untold
<1>2. (\A s \in Sessions : ~OnIt(s, v)) /\ \A x \in Recoveries : ~Working(x)
  BY DEF Edit, OnIt
<1>3. \A u \in Services : wanted'[u].servers \in UserLists
  BY <1>1 DEF ServiceInv
<1>4. ASSUME NEW u \in Services \ Untold, u # v PROVE ServiceOK(u)'
  <2>1. ServiceOK(u)
    BY DEF ServiceInv
  <2>2. \A t \in Sessions : OnIt(t, u) \/ OnIt(t, u)' => OnIt(t, u) /\ session'[t] = session[t]
    BY <1>1 DEF OnIt, Live
  <2>3. \A x \in Recoveries : Working(x)' => Working(x)
    BY <1>1 DEF Working
  <2>4. QED BY <1>1, <1>4, <2>1, <2>2, <2>3, UntouchedService
<1>5. ASSUME v \notin Untold PROVE ServiceOK(v)'
  <2>1. ServiceOK(v)
    BY <1>5 DEF ServiceInv
  <2>2. \A s \in Sessions : ~OnIt(s, v)'
    BY <1>1, <1>2 DEF OnIt, Live
  <2>3. AloneOn(v)'
    BY <1>1, <2>1, <2>2 DEF ServiceOK, AloneOn
  <2>4. Recoverable(v)'
    BY <1>1 DEF Recoverable, KnownOf
  <2>5. \A i \in Instances : journal'[i][v] # NoJournal => RecordOf(i, journal'[i][v])
    BY <1>1, <2>1 DEF ServiceOK
  <2>6. QED BY <2>2, <2>3, <2>4, <2>5 DEF ServiceOK, RecordOf
<1>6. ASSUME NEW x \in Recoveries PROVE JobInv(x)'
  <2>1. JobInv(x) /\ recovery'[x] = recovery[x] /\ Held(x) = {}
    BY <1>1, <1>2 DEF ServiceInv, JobInv
  <2>2. QED BY <1>1, <2>1, JobsKept
<1>7. QED BY <1>1, <1>3, <1>4, <1>5, <1>6 DEF ServiceInv

-----------------------------------------------------------------------------
(* The steps of a recovery. *)

\* While no session is at work on it, a service can be put back and its journals go.
LEMMA BesideNobody ==
  ASSUME ShapeOK, ServiceInv, NEW x \in Recoveries,
         UNCHANGED <<session, wanted, Untold>>,
         \A s \in Sessions, v \in Services \ Untold : ~OnIt(s, v),
         \A y \in Recoveries : y # x => recovery'[y] = recovery[y],
         \A v \in Services \ Untold :
           /\ setting'[v].servers \in {setting[v].servers, wanted[v].servers}
           /\ \A i \in Instances : journal'[i][v] \in {journal[i][v], NoJournal}
           /\ Recoverable(v)',
         JobInv(x)'
  PROVE  ServiceInv'
<1>1. \A v \in Services : wanted'[v].servers \in UserLists
  BY DEF ServiceInv
<1>2. ASSUME NEW v \in Services \ Untold PROVE ServiceOK(v)'
  <2>1. ServiceOK(v)
    BY DEF ServiceInv
  <2>2. \A s \in Sessions : ~OnIt(s, v)'
    BY DEF OnIt, Live
  <2>3. \A i \in Instances : journal'[i][v] # NoJournal =>
          journal'[i][v] = journal[i][v] /\ RecordOf(i, journal'[i][v])
    BY <2>1 DEF ServiceOK
  <2>4. AloneOn(v)'
    BY <2>1, <2>2, <2>3 DEF ServiceOK, AloneOn
  <2>5. QED BY <2>2, <2>3, <2>4 DEF ServiceOK, RecordOf
<1>3. ASSUME NEW y \in Recoveries, y # x PROVE JobInv(y)'
  <2>1. JobInv(y) /\ recovery'[y] = recovery[y] /\ Untold \subseteq Untold'
    BY <1>3 DEF ServiceInv
  <2>2. ASSUME NEW d \in Held(y), d.v \notin Untold'
        PROVE  /\ setting'[d.v].servers \in {setting[d.v].servers, wanted[d.v].servers}
               /\ wanted'[d.v] = wanted[d.v]
               /\ \A i \in Instances : journal'[i][d.v] \in {journal[i][d.v], NoJournal}
    <3>1. d.v \in Services \ Untold
      BY <2>2, JobTypes
    <3>2. QED BY <3>1
  <2>3. QED BY <2>1, <2>2, JobsKept
<1>4. QED BY <1>1, <1>2, <1>3 DEF ServiceInv

\* A service without a session at work is settled.
LEMMA KnownBeside ==
  ASSUME ServiceInv, NEW v \in Services \ Untold, \A s \in Sessions : ~OnIt(s, v)
  PROVE  KnownOf(v)
BY DEF ServiceInv, ServiceOK, Recoverable, Overtook, OnIt, Live

\* A step that leaves what stands and what is written.
LEMMA OnlyBecomes ==
  ASSUME ShapeOK, ServiceInv, NEW x \in Recoveries,
         UNCHANGED <<setting, journal, session, wanted, Untold>>,
         \A s \in Sessions, v \in Services \ Untold : ~OnIt(s, v),
         \A y \in Recoveries : y # x => recovery'[y] = recovery[y],
         JobInv(x)'
  PROVE  ServiceInv'
<1>1. ASSUME NEW v \in Services \ Untold PROVE Recoverable(v)'
  <2>1. \A s \in Sessions : Overtook(s)' <=> Overtook(s)
    BY DEF Overtook, Stands
  <2>2. Recoverable(v)
    BY DEF ServiceInv, ServiceOK
  <2>3. QED BY <2>1, <2>2 DEF Recoverable, KnownOf, Brings
<1>2. \A v \in Services \ Untold :
        /\ setting'[v].servers \in {setting[v].servers, wanted[v].servers}
        /\ \A i \in Instances : journal'[i][v] \in {journal[i][v], NoJournal}
  OBVIOUS
<1>3. QED BY <1>1, <1>2, BesideNobody

LEMMA InvByRecover ==
  ASSUME ShapeOK, ServiceInv, NEW x \in Recoveries, Recover(x) \/ RecoverEnds(x)
  PROVE  ServiceInv'
<1>0. UNCHANGED <<setting, journal, session, wanted, Untold>> /\ RecoveryOK /\ JobInv(x)
  BY DEF Recover, RecoverEnds, Idles, ShapeOK, ServiceInv, Untold
<1>1. CASE /\ Becomes(x, [Idle EXCEPT !.at = "over"])
           /\ \A s \in Sessions, v \in Services \ Untold : ~OnIt(s, v)
  <2>1. /\ recovery'[x].at = "over" /\ recovery'[x].jobs = {} /\ recovery'[x].job = {}
        /\ \A y \in Recoveries : y # x => recovery'[y] = recovery[y]
    BY <1>0, <1>1 DEF Becomes, RecoveryOK, Idle
  <2>2. JobInv(x)'
    BY <2>1 DEF JobInv, Held
  <2>3. QED BY <1>0, <1>1, <2>1, <2>2, OnlyBecomes
<1>2. CASE Recover(x) /\ \A s \in Sessions : ~Live(s)
  <2>1. Becomes(x, [Idle EXCEPT !.at = "work", !.jobs = Jobs])
    BY <1>2 DEF Recover
  <2>2. /\ recovery'[x].at = "work" /\ recovery'[x].jobs = Jobs /\ recovery'[x].job = {}
        /\ \A y \in Recoveries : y # x => recovery'[y] = recovery[y]
    BY <1>0, <2>1 DEF Becomes, RecoveryOK, Idle
  <2>3. ASSUME NEW d \in Jobs, d.v \notin Untold
        PROVE  /\ RecordOf(d.i, d.j)
               /\ \A i \in Instances : journal[i][d.v] # NoJournal => i = d.i /\ journal[i][d.v] = d.j
    <3>1. PICK k \in Instances, v \in Services : d = [i |-> k, v |-> v, j |-> journal[k][v]]
      BY DEF Jobs, Written
    <3>2. journal[k][v] # NoJournal /\ d.i = k /\ d.v = v /\ d.j = journal[k][v]
      BY <3>1 DEF Jobs
    <3>3. ServiceOK(v)
      BY <2>3, <3>2 DEF ServiceInv
    <3>4. QED BY <3>2, <3>3 DEF ServiceOK, AloneOn
  <2>4. Working(x)' /\ Held(x)' = Jobs
    BY <2>2 DEF Working, Held
  <2>5. JobInv(x)'
    <3>1. \A d \in Held(x)' : d.v \notin Untold' =>
            /\ RecordOf(d.i, d.j)
            /\ \A i \in Instances : journal'[i][d.v] # NoJournal => i = d.i /\ journal'[i][d.v] = d.j
      BY <1>0, <2>3, <2>4
    <3>2. QED BY <2>2, <2>4, <3>1 DEF JobInv, RecordOf
  <2>6. \A s \in Sessions, v \in Services \ Untold : ~OnIt(s, v)
    BY <1>2 DEF OnIt
  <2>7. QED BY <1>0, <2>2, <2>5, <2>6, OnlyBecomes
<1>3. CASE Recover(x) /\ \E s \in Sessions : Live(s)
  <2>1. /\ recovery[x].at = "off" /\ Becomes(x, [Idle EXCEPT !.at = "over"])
    BY <1>3 DEF Recover, Idles
  <2>2. /\ recovery'[x].at = "over" /\ recovery'[x].jobs = {} /\ recovery'[x].job = {}
        /\ \A y \in Recoveries : y # x => recovery'[y] = recovery[y]
    BY <1>0, <2>1 DEF Becomes, RecoveryOK, Idle
  <2>3. JobInv(x)'
    BY <2>2 DEF JobInv, Held
  <2>4. ASSUME NEW y \in Recoveries PROVE Working(y)' => Working(y)
    BY <2>2 DEF Working
  <2>5. ASSUME NEW v \in Services \ Untold PROVE ServiceOK(v)'
    <3>1. ServiceOK(v)
      BY DEF ServiceInv
    <3>2. \A s \in Sessions : OnIt(s, v) \/ OnIt(s, v)' => OnIt(s, v) /\ session'[s] = session[s]
      BY <1>0 DEF OnIt, Live
    <3>3. QED BY <1>0, <2>4, <3>1, <3>2, UntouchedService
  <2>6. ASSUME NEW y \in Recoveries, y # x PROVE JobInv(y)'
    <3>1. JobInv(y) /\ recovery'[y] = recovery[y]
      BY <2>2, <2>6 DEF ServiceInv
    <3>2. QED BY <1>0, <3>1, JobsKept
  <2>7. QED BY <1>0, <2>3, <2>5, <2>6 DEF ServiceInv
<1>4. CASE RecoverEnds(x)
  <2>1. recovery[x].at = "work" /\ Becomes(x, [Idle EXCEPT !.at = "over"])
    BY <1>4 DEF RecoverEnds, Idles
  <2>2. \A s \in Sessions, v \in Services \ Untold : ~OnIt(s, v)
    BY <2>1, NobodyBeside DEF Working
  <2>3. QED BY <1>1, <2>1, <2>2
<1>5. QED BY <1>2, <1>3, <1>4

LEMMA InvByVerify ==
  ASSUME ShapeOK, ServiceInv, NEW x \in Recoveries, Verify(x)
  PROVE  ServiceInv'
<1>0. /\ UNCHANGED <<setting, journal, session, wanted, Untold>> /\ RecoveryOK /\ JobInv(x)
      /\ recovery[x].at = "work" /\ recovery[x] \in RecoveryRecords
  BY DEF Verify, Idles, ShapeOK, ServiceInv, RecoveryOK, Untold
<1>1. PICK d \in recovery[x].jobs, r \in RecoveryRecords :
        /\ Becomes(x, r) /\ r.jobs \subseteq recovery[x].jobs
        /\ \/ r.at = "work" /\ r.job \subseteq recovery[x].job
           \/ r.at = StartsAt(d) /\ r.job = IF StartsAt(d) = "work" THEN {} ELSE {d}
  <2>1. PICK d \in recovery[x].jobs :
          LET rest == [recovery[x] EXCEPT !.jobs = @ \ {d}] IN
            \/ /\ Becomes(x, [rest EXCEPT !.at = StartsAt(d),
                                          !.job = IF StartsAt(d) = "work" THEN {} ELSE {d}])
               /\ UNCHANGED faults
            \/ Fault /\ Becomes(x, rest)
    BY DEF Verify
  <2> DEFINE rest == [recovery[x] EXCEPT !.jobs = @ \ {d}]
             took == [rest EXCEPT !.at = StartsAt(d), !.job = IF StartsAt(d) = "work" THEN {} ELSE {d}]
  <2>2. StartsAt(d) \in {"servers", "search", "retire", "work"} /\ d \in FullJobs
    BY <1>0 DEF StartsAt, RecoveryRecords
  <2>3. /\ rest \in RecoveryRecords /\ rest.jobs \subseteq recovery[x].jobs
        /\ rest.at = "work" /\ rest.job = recovery[x].job
    BY <1>0 DEF RecoveryRecords
  <2>4. /\ took \in RecoveryRecords /\ took.jobs \subseteq recovery[x].jobs
        /\ took.at = StartsAt(d) /\ took.job = IF StartsAt(d) = "work" THEN {} ELSE {d}
    BY <2>2, <2>3 DEF RecoveryRecords
  <2>5. Becomes(x, took) \/ Becomes(x, rest)
    BY <2>1
  <2> HIDE DEF rest, took
  <2>6. QED BY <2>3, <2>4, <2>5
<1>2. recovery'[x] = r /\ \A y \in Recoveries : y # x => recovery'[y] = recovery[y]
  BY <1>0, <1>1, BecomesType
<1>3. \A s \in Sessions, v \in Services \ Untold : ~OnIt(s, v)
  BY <1>0, NobodyBeside DEF Working
<1>4. Held(x)' \subseteq Held(x) /\ Working(x)'
  <2>1. r.at \in {"servers", "search", "retire", "work"}
    BY <1>1 DEF StartsAt
  <2>2. QED BY <1>1, <1>2, <2>1 DEF Held, Working
<1>5. ASSUME NEW e \in Held(x), e.v \notin Untold
      PROVE  /\ RecordOf(e.i, e.j)
             /\ \A i \in Instances : journal[i][e.v] # NoJournal => i = e.i /\ journal[i][e.v] = e.j
  BY <1>0, <1>5 DEF JobInv
<1>6. ASSUME d.v \notin Untold
      PROVE  /\ StartsAt(d) = "servers" => d.j.prior.servers = wanted[d.v].servers
             /\ StartsAt(d) \in {"search", "retire"} => setting[d.v].servers = wanted[d.v].servers
  <2>0. PICK v \in Services \ Untold : v = d.v
    BY <1>6, JobTypes DEF Held
  <2>1. /\ RecordOf(d.i, d.j) /\ wanted[v].servers \in UserLists
        /\ \A i \in Instances : journal[i][v] # NoJournal => i = d.i /\ journal[i][v] = d.j
    BY <1>5, <1>6, <2>0 DEF Held, ServiceInv
  <2>2. d.j.prior.servers \in UserLists /\ d.j.applied \notin UserLists
    BY <2>1, ListTypes DEF RecordOf
  <2>3. setting[v].servers # wanted[v].servers =>
          d.j.applied = setting[v].servers /\ d.j.prior.servers = wanted[v].servers
    BY <1>3, <2>1, NotPushed DEF Brings
  <2>4. QED BY <2>0, <2>1, <2>2, <2>3 DEF StartsAt
<1>7. ASSUME NEW e \in r.job, e.v \notin Untold
      PROVE  /\ r.at = "servers" => e.j.prior.servers = wanted[e.v].servers
             /\ r.at \in {"search", "retire"} => setting[e.v].servers = wanted[e.v].servers
  BY <1>1, <1>6, <1>7
<1>8. \A d1, e \in r.job : d1 = e
  BY <1>0, <1>1 DEF JobInv
<1>9. JobInv(x)'
  <2>1. \A e \in Held(x)' : e.v \notin Untold' =>
          /\ RecordOf(e.i, e.j)
          /\ \A i \in Instances : journal'[i][e.v] # NoJournal => i = e.i /\ journal'[i][e.v] = e.j
    BY <1>0, <1>4, <1>5
  <2>2. \A e \in recovery'[x].job : e.v \notin Untold' =>
          /\ recovery'[x].at = "servers" => e.j.prior.servers = wanted'[e.v].servers
          /\ recovery'[x].at \in {"search", "retire"} => setting'[e.v].servers = wanted'[e.v].servers
    BY <1>0, <1>2, <1>7
  <2>3. QED BY <1>2, <1>4, <1>8, <2>1, <2>2 DEF JobInv, RecordOf
<1>10. QED BY <1>0, <1>2, <1>3, <1>9, OnlyBecomes

\* What remains of a recovery that goes on with its job, or drops it.
LEMMA JobAfter ==
  ASSUME ShapeOK, ServiceInv, NEW x \in Recoveries, Working(x), NEW r,
         recovery'[x] = r, r.jobs = recovery[x].jobs, r.job \subseteq recovery[x].job,
         r.at \in {"work", "search", "retire"}, UNCHANGED <<wanted, Untold>>,
         \A d \in Held(x), i \in Instances : d.v \notin Untold =>
           journal'[i][d.v] \in {journal[i][d.v], NoJournal},
         r.at # "work" => \A d \in r.job : d.v \notin Untold =>
           setting'[d.v].servers = wanted[d.v].servers
  PROVE  JobInv(x)'
<1>1. JobInv(x) /\ Held(x)' \subseteq Held(x) /\ Working(x)'
  BY DEF ServiceInv, Held, Working
<1>2. \A d \in Held(x) : d.v \notin Untold =>
        /\ RecordOf(d.i, d.j)
        /\ \A i \in Instances : journal'[i][d.v] # NoJournal => i = d.i /\ journal'[i][d.v] = d.j
  BY <1>1 DEF JobInv
<1>3. \A d, e \in r.job : d = e
  BY <1>1 DEF JobInv
<1>4. /\ r.job # {} => r.at # "servers"
      /\ \A d \in r.job : d.v \notin Untold /\ r.at \in {"search", "retire"} =>
           setting'[d.v].servers = wanted'[d.v].servers
  OBVIOUS
<1>5. QED BY <1>1, <1>2, <1>3, <1>4 DEF JobInv, RecordOf

LEMMA InvByRestoring ==
  ASSUME ShapeOK, ServiceInv, NEW x \in Recoveries, RecoverServers(x) \/ RecoverSearch(x)
  PROVE  ServiceInv'
<1>0. /\ UNCHANGED <<journal, session, wanted, Untold>> /\ RecoveryOK /\ JobInv(x)
      /\ recovery[x].at \in {"servers", "search"} /\ recovery[x] \in RecoveryRecords /\ Working(x)
      /\ SettingOK /\ faults \in 0 .. MaxFaults
  BY DEF RecoverServers, RecoverSearch, Idles, ShapeOK, ServiceInv, RecoveryOK, Working, CountsOK,
     Untold
<1>1. PICK d \in recovery[x].job, field \in {"servers", "search"}, to \in {"search", "retire"} :
        /\ recovery[x].at = field
        /\ \/ /\ Sets(d.v, field, d.j.prior[field])
              /\ Becomes(x, [recovery[x] EXCEPT !.at = to])
           \/ FailsToSet(d.v, field, d.j.prior[field]) /\ Drops(x)
  <2>1. CASE RecoverServers(x)
    <3>1. PICK d \in recovery[x].job :
            \/ /\ Sets(d.v, "servers", d.j.prior.servers)
               /\ Becomes(x, [recovery[x] EXCEPT !.at = IF d.j.changed THEN "search" ELSE "retire"])
            \/ FailsToSet(d.v, "servers", d.j.prior.servers) /\ Drops(x)
      BY <2>1 DEF RecoverServers
    <3>2. recovery[x].at = "servers"
      BY <2>1 DEF RecoverServers, Idles
    <3>3. QED BY <3>1, <3>2
  <2>2. CASE RecoverSearch(x)
    <3>1. PICK d \in recovery[x].job :
            \/ Sets(d.v, "search", d.j.prior.search) /\ Becomes(x, [recovery[x] EXCEPT !.at = "retire"])
            \/ FailsToSet(d.v, "search", d.j.prior.search) /\ Drops(x)
      BY <2>2 DEF RecoverSearch
    <3>2. recovery[x].at = "search"
      BY <2>2 DEF RecoverSearch, Idles
    <3>3. QED BY <3>1, <3>2
  <2>3. QED BY <2>1, <2>2
<1>2. PICK v \in Services : v = d.v
  BY JobTypes DEF Held
<1> DEFINE value == d.j.prior[field]
<1>3. value \in IF field = "servers" THEN Lists ELSE Searches
  <2>1. d.j.prior \in Settings
    BY <1>0 DEF RecoveryRecords, FullJobs, FullRecords
  <2>2. QED BY <2>1 DEF Settings
<1>4. field = "servers" => value = d.j.prior.servers
  OBVIOUS
<1>5. /\ Sets(v, field, value) \/ FailsToSet(v, field, value)
      /\ ~Sets(v, field, value) => Drops(x)
      /\ Drops(x) \/ Becomes(x, [recovery[x] EXCEPT !.at = to])
      /\ Drops(x) \/ Sets(v, field, value)
  BY <1>1, <1>2
<1> HIDE DEF value
<1>6. /\ \A u \in Services : u # v => setting'[u] = setting[u]
      /\ field = "search" => setting'[v].servers = setting[v].servers
      /\ field = "servers" => setting'[v].servers \in {setting[v].servers, value}
      /\ field = "servers" /\ Sets(v, field, value) => setting'[v].servers = value
  BY <1>0, <1>3, <1>5, SetsType
<1>7. v \notin Untold =>
        /\ field = "servers" => value = wanted[v].servers
        /\ field = "search" => setting[v].servers = wanted[v].servers
  BY <1>0, <1>1, <1>2, <1>4 DEF JobInv
<1>8. v \notin Untold =>
        /\ setting'[v].servers \in {setting[v].servers, wanted[v].servers}
        /\ Sets(v, field, value) => setting'[v].servers = wanted[v].servers
  BY <1>6, <1>7
<1>9. PICK r \in RecoveryRecords :
        /\ Becomes(x, r) /\ r.jobs = recovery[x].jobs
        /\ \/ r.at = "work" /\ r.job = {}
           \/ r.at = to /\ r.job = recovery[x].job /\ Sets(v, field, value)
  <2> DEFINE dropped == [recovery[x] EXCEPT !.at = "work", !.job = {}]
             done == [recovery[x] EXCEPT !.at = to]
  <2>1. /\ dropped \in RecoveryRecords /\ dropped.jobs = recovery[x].jobs
        /\ dropped.at = "work" /\ dropped.job = {}
    BY <1>0 DEF RecoveryRecords
  <2>2. /\ done \in RecoveryRecords /\ done.jobs = recovery[x].jobs
        /\ done.at = to /\ done.job = recovery[x].job
    BY <1>0 DEF RecoveryRecords
  <2>3. Becomes(x, dropped) \/ (Becomes(x, done) /\ Sets(v, field, value))
    BY <1>5 DEF Drops
  <2> HIDE DEF dropped, done
  <2>4. QED BY <2>1, <2>2, <2>3
<1>10. recovery'[x] = r /\ \A y \in Recoveries : y # x => recovery'[y] = recovery[y]
  BY <1>0, <1>9, BecomesType
<1>11. r.at # "work" => \A e \in r.job : e.v \notin Untold =>
         setting'[e.v].servers = wanted[e.v].servers
  BY <1>0, <1>1, <1>2, <1>8, <1>9 DEF JobInv
<1>12. JobInv(x)'
  <2>1. /\ r.job \subseteq recovery[x].job /\ r.at \in {"work", "search", "retire"}
        /\ \A e \in Held(x), i \in Instances : e.v \notin Untold =>
             journal'[i][e.v] \in {journal[i][e.v], NoJournal}
    BY <1>0, <1>9
  <2>2. QED BY <1>0, <1>9, <1>10, <1>11, <2>1, JobAfter
<1>13. \A s \in Sessions, u \in Services \ Untold : ~OnIt(s, u)
  BY <1>0, NobodyBeside
<1>14. ASSUME NEW u \in Services \ Untold
       PROVE  /\ setting'[u].servers \in {setting[u].servers, wanted[u].servers}
              /\ \A i \in Instances : journal'[i][u] \in {journal[i][u], NoJournal}
              /\ Recoverable(u)'
  <2>1. setting'[u].servers \in {setting[u].servers, wanted[u].servers}
    BY <1>6, <1>8
  <2>2. KnownOf(u)
    BY <1>13, KnownBeside
  <2>3. QED BY <1>0, <2>1, <2>2 DEF Recoverable, KnownOf, Brings
<1>15. QED BY <1>0, <1>10, <1>12, <1>13, <1>14, BesideNobody

LEMMA InvByRetireJournal ==
  ASSUME ShapeOK, ServiceInv, NEW x \in Recoveries, RetireJournal(x)
  PROVE  ServiceInv'
<1>0. /\ UNCHANGED <<setting, session, wanted, Untold>> /\ RecoveryOK /\ JournalOK /\ JobInv(x)
      /\ recovery[x].at = "retire" /\ recovery[x] \in RecoveryRecords /\ Working(x)
  BY DEF RetireJournal, Idles, ShapeOK, ServiceInv, RecoveryOK, Working, Untold
<1>1. PICK d \in recovery[x].job : journal' = [journal EXCEPT ![d.i][d.v] = NoJournal]
  BY DEF RetireJournal
<1>2. PICK i \in Instances, v \in Services : i = d.i /\ v = d.v
  BY JobTypes DEF Held
<1>3. /\ \A k \in Instances, u \in Services : journal'[k][u] \in {journal[k][u], NoJournal}
      /\ \A k \in Instances, u \in Services : u # v => journal'[k][u] = journal[k][u]
  BY <1>0, <1>1, <1>2 DEF JournalOK
<1> DEFINE r == [recovery[x] EXCEPT !.at = "work", !.job = {}]
<1>4. r \in RecoveryRecords /\ r.jobs = recovery[x].jobs /\ r.at = "work" /\ r.job = {}
  BY <1>0 DEF RecoveryRecords
<1>5. Becomes(x, r)
  BY DEF RetireJournal, Drops
<1> HIDE DEF r
<1>6. recovery'[x] = r /\ \A y \in Recoveries : y # x => recovery'[y] = recovery[y]
  BY <1>0, <1>4, <1>5, BecomesType
<1>7. JobInv(x)'
  <2>1. \A e \in Held(x), k \in Instances : e.v \notin Untold =>
          journal'[k][e.v] \in {journal[k][e.v], NoJournal}
    BY <1>3, JobTypes
  <2>2. r.job \subseteq recovery[x].job /\ r.at \in {"work", "search", "retire"} /\ r.at = "work"
    BY <1>4
  <2>3. QED BY <1>0, <1>4, <1>6, <2>1, <2>2, JobAfter
<1>8. \A s \in Sessions, u \in Services \ Untold : ~OnIt(s, u)
  BY <1>0, NobodyBeside
<1>9. ASSUME NEW u \in Services \ Untold PROVE Recoverable(u)'
  <2>1. CASE u = v
    <3>1. setting[v].servers = wanted[v].servers
      BY <1>0, <1>2, <1>9, <2>1 DEF JobInv
    <3>2. QED BY <1>0, <2>1, <3>1 DEF Recoverable, KnownOf
  <2>2. CASE u # v
    <3>1. KnownOf(u)
      BY <1>8, KnownBeside
    <3>2. QED BY <1>0, <1>3, <2>2, <3>1 DEF Recoverable, KnownOf, Brings
  <2>3. QED BY <2>1, <2>2
<1>10. \A u \in Services \ Untold :
         /\ setting'[u].servers \in {setting[u].servers, wanted[u].servers}
         /\ \A k \in Instances : journal'[k][u] \in {journal[k][u], NoJournal}
         /\ Recoverable(u)'
  BY <1>0, <1>3, <1>9
<1>11. QED BY <1>0, <1>6, <1>7, <1>8, <1>10, BesideNobody

LEMMA InvByRecovery ==
  ASSUME ShapeOK, ServiceInv, NEW x \in Recoveries, RecoveryStep(x)
  PROVE  ServiceInv'
BY InvByRecover, InvByVerify, InvByRestoring, InvByRetireJournal DEF RecoveryStep

-----------------------------------------------------------------------------
(* What follows. *)

LEMMA ServiceInit == Init => ServiceInv
<1> SUFFICES ASSUME Init PROVE ServiceInv
  OBVIOUS
<1>1. ASSUME NEW v \in Services PROVE wanted[v].servers \in UserLists /\ setting[v] = wanted[v]
  BY DEF Init
<1>2. (\A s \in Sessions : ~Live(s)) /\ \A i \in Instances, v \in Services : journal[i][v] = NoJournal
  BY DEF Init, Live, Off
<1>3. ASSUME NEW v \in Services PROVE ServiceOK(v)
  BY <1>1, <1>2 DEF ServiceOK, AloneOn, OnIt, Recoverable, KnownOf
<1>4. ASSUME NEW x \in Recoveries PROVE JobInv(x)
  BY DEF Init, JobInv, Held, Idle
<1>5. QED BY <1>1, <1>3, <1>4 DEF ServiceInv

LEMMA ServiceStep ==
  ASSUME ShapeOK, ServiceInv, [Next]_vars
  PROVE  ServiceInv'
<1>1. CASE UNCHANGED vars
  <2>1. /\ UNCHANGED <<setting, journal, session, recovery, wanted, Untold>>
    BY <1>1 DEF vars, Untold
  <2>2. ASSUME NEW v \in Services \ Untold PROVE ServiceOK(v)'
    <3>1. ServiceOK(v)
      BY DEF ServiceInv
    <3>2. \A s \in Sessions : OnIt(s, v) \/ OnIt(s, v)' => OnIt(s, v) /\ session'[s] = session[s]
      BY <2>1 DEF OnIt, Live
    <3>3. \A x \in Recoveries : Working(x)' => Working(x)
      BY <2>1 DEF Working
    <3>4. QED BY <2>1, <3>1, <3>2, <3>3, UntouchedService
  <2>3. ASSUME NEW x \in Recoveries PROVE JobInv(x)'
    <3>1. JobInv(x) /\ recovery'[x] = recovery[x]
      BY <2>1 DEF ServiceInv
    <3>2. QED BY <2>1, <3>1, JobsKept
  <2>4. QED BY <2>1, <2>2, <2>3 DEF ServiceInv
<1>2. QED BY <1>1, InvBySession, InvByRecovery, InvByEdit DEF Next

LEMMA ServiceRecovers == ServiceInv => ServersRecoverable
BY DEF ServiceInv, ServiceOK, Recoverable, KnownOf, ServersRecoverable

\* The setting of a service changes by the commands of a session, of a recovery, or of
\* its user.
LEMMA Displaces ==
  ASSUME ShapeOK, ServiceInv, [Next]_vars, NEW v \in Services \ Untold,
         setting[v].servers = wanted[v].servers, setting'[v].servers # wanted'[v].servers
  PROVE  \E s \in Sessions : session[s].at = "swap" /\ session[s].on = v
<1>0. SettingOK /\ faults \in 0 .. MaxFaults
  BY DEF ShapeOK, CountsOK
<1>1. CASE UNCHANGED <<setting, wanted>>
  BY <1>1
<1>c. ASSUME NEW u \in Services, NEW field \in {"servers", "search"}, NEW value,
             value \in IF field = "servers" THEN Lists ELSE Searches,
             Sets(u, field, value) \/ FailsToSet(u, field, value), UNCHANGED wanted
      PROVE  u = v /\ field = "servers" /\ value # wanted[v].servers
  BY <1>0, <1>c, SetsType
<1>2. ASSUME NEW s \in Sessions, SessionStep(s)
      PROVE  \/ UNCHANGED <<setting, wanted>>
             \/ session[s].at = "swap" /\ session[s].on = v
  <2>0. PICK u \in Services : u = session[s].on
    BY SessionShape
  <2>1. CASE Swap(s)
    <3>1. (Sets(u, "servers", Pushed[s]) \/ FailsToSet(u, "servers", Pushed[s])) /\ UNCHANGED wanted
          /\ session[s].at = "swap"
      BY <2>0, <2>1 DEF Swap, At
    <3>2. Pushed[s] \in Lists
      BY ListTypes
    <3>3. u = v
      BY <1>c, <3>1, <3>2
    <3>4. QED BY <2>0, <3>1, <3>3
  <2>2. CASE SwapSearch(s)
    <3>1. (Sets(u, "search", PushedSearch[s]) \/ FailsToSet(u, "search", PushedSearch[s]))
          /\ UNCHANGED wanted
      BY <2>0, <2>2 DEF SwapSearch, Mid, At
    <3>2. PushedSearch[s] \in Searches
      BY ListTypes
    <3>3. QED BY <1>c, <3>1, <3>2
  <2>3. CASE RestoreServers(s) \/ RestoreSearch(s)
    <3>1. PICK field \in {"servers", "search"}, to \in {"restoresearch", "retire"} :
            Reverts(s, field, to) /\ session[s].at = IF field = "servers" THEN "up" ELSE "restoresearch"
      BY <2>3 DEF RestoreServers, RestoreSearch, Mid, At
    <3>2. /\ UNCHANGED wanted /\ session[s].prior \in Settings /\ Live(s)
          /\ session[s].at \in OwnSteps
      BY <2>3 DEF RestoreServers, RestoreSearch, Mid, At, ShapeOK, SessionsOK, Known, OwnSteps, Live
    <3>3. session[s].prior[field] \in IF field = "servers" THEN Lists ELSE Searches
      BY <3>2 DEF Settings
    <3>4. Sets(u, field, session[s].prior[field]) \/ FailsToSet(u, field, session[s].prior[field])
      BY <2>0, <3>1 DEF Reverts
    <3>5. u = v /\ field = "servers" /\ session[s].prior[field] # wanted[v].servers
      BY <1>c, <3>2, <3>3, <3>4
    <3>6. session[s].prior.servers = wanted[v].servers
      <4>1. u = v /\ OnIt(s, v) /\ v \in Services \ Untold
        BY <2>0, <3>2, <3>5 DEF OnIt
      <4>2. Progress(s, v)
        BY <4>1 DEF ServiceInv, ServiceOK
      <4>3. QED BY <3>2, <4>2 DEF Progress
    <3>7. QED BY <3>5, <3>6
  <2>4. QED
    BY <1>2, <2>1, <2>2, <2>3 DEF SessionStep, Begin, ReadServers, ReadSearch, GivesUp, Chain,
       WriteJournal, Retire, Crash, Mid, At
<1>3. ASSUME NEW x \in Recoveries, RecoveryStep(x) PROVE UNCHANGED <<setting, wanted>>
  <2>1. CASE RecoverServers(x) \/ RecoverSearch(x)
    <3>1. PICK d \in recovery[x].job, field \in {"servers", "search"} :
            /\ recovery[x].at = field
            /\ Sets(d.v, field, d.j.prior[field]) \/ FailsToSet(d.v, field, d.j.prior[field])
      BY <2>1 DEF RecoverServers, RecoverSearch, Idles
    <3>2. UNCHANGED wanted
      BY <2>1 DEF RecoverServers, RecoverSearch, Idles
    <3>3. d.v \in Services /\ d.j \in FullRecords
      BY JobTypes DEF Held
    <3>4. d.j.prior[field] \in IF field = "servers" THEN Lists ELSE Searches
      BY <3>3 DEF FullRecords, Settings
    <3>5. d.v = v /\ field = "servers" /\ d.j.prior[field] # wanted[v].servers
      BY <1>c, <3>1, <3>2, <3>3, <3>4
    <3>6. d.j.prior.servers = wanted[v].servers
      BY <3>1, <3>5 DEF ServiceInv, JobInv
    <3>7. QED BY <3>5, <3>6
  <2>2. QED
    BY <1>3, <2>1 DEF RecoveryStep, Recover, Verify, RetireJournal, RecoverEnds, Idles
<1>4. ASSUME NEW u \in Services, Edit(u) PROVE FALSE
  BY <1>4, EditType
<1>5. QED BY <1>1, <1>2, <1>3, <1>4 DEF Next, vars

\* No crash and no failed command loses the servers a user had: they stand, or a journal
\* brings them back, but on a contested service and where a record has been written over
\* another that still mattered, for other servers.
THEOREM DnsRecoverable == Spec => []ServersRecoverable
<1>1. Init => ShapeOK /\ ServiceInv
  BY ShapeInit, ServiceInit
<1>2. ShapeOK /\ ServiceInv /\ [Next]_vars => (ShapeOK /\ ServiceInv)'
  BY ShapeStep, ServiceStep
<1>3. ServiceInv => ServersRecoverable
  BY ServiceRecovers
<1>4. QED BY <1>1, <1>2, <1>3, PTL DEF Spec

\* OnlySwapsDisplace, on the services that have not lost their record (the run shows it
\* on those too): no revert and no recovery writes an old record over what a user has
\* set since.
THEOREM DnsDisplaces ==
  Spec => [][\A v \in Services \ Untold :
               setting[v].servers = wanted[v].servers /\ setting'[v].servers # wanted'[v].servers
                 => \E s \in Sessions : session[s].at = "swap" /\ session[s].on = v]_vars
<1> DEFINE Displaced ==
      \A v \in Services \ Untold :
        setting[v].servers = wanted[v].servers /\ setting'[v].servers # wanted'[v].servers
          => \E s \in Sessions : session[s].at = "swap" /\ session[s].on = v
<1>1. Init => ShapeOK /\ ServiceInv
  BY ShapeInit, ServiceInit
<1>2. ShapeOK /\ ServiceInv /\ [Next]_vars => (ShapeOK /\ ServiceInv)'
  BY ShapeStep, ServiceStep
<1>3. ShapeOK /\ ServiceInv /\ [Next]_vars => [Displaced]_vars
  BY Displaces
<1>4. QED BY <1>1, <1>2, <1>3, PTL DEF Spec

=============================================================================
