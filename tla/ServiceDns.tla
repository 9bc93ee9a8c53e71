----------------------------- MODULE ServiceDns -----------------------------
(***************************************************************************)
(* Full-tunnel DNS on macOS: gp_dns::apply swaps the name servers (and the *)
(* search domains) of the active network service with networksetup, and    *)
(* revert puts the earlier ones back.  The swap is machine-wide and does   *)
(* not end with the process, so apply writes a journal first; after a      *)
(* crash the next connect of the instance or `opc recover` goes by it.     *)
(***************************************************************************)
EXTENDS Naturals

CONSTANTS Sessions,      \* calls of apply and revert, each of one process
          Recoveries,    \* processes running `opc recover`
          Instances, Services,
          InstanceOf,    \* the instance of each session
          Pushed,        \* the servers its gateway pushes
          PushedSearch,  \* and the search domains; NoList: none
          UserLists,     \* server lists that users set
          UserSearch,    \* the search domains users have
          MaxEdits, MaxFaults

NoList == "no list"
Lists == UserLists \union {Pushed[s] : s \in Sessions}
Searches == {UserSearch} \union {PushedSearch[s] : s \in Sessions}
Settings == [servers : Lists, search : Searches]

\* Nobody sets by hand what a gateway pushes.
ASSUME ServiceAssumption ==
  /\ InstanceOf \in [Sessions -> Instances]
  /\ \A s \in Sessions : Pushed[s] \notin UserLists
  /\ NoList \notin Lists
ASSUME BoundsAssumption == MaxEdits \in Nat /\ MaxFaults \in Nat

VARIABLES setting,    \* what each service is set to
          journal,    \* the file of each instance and service
          session,    \* how far each session is
          recovery,   \* how far each recovery is
          wanted,     \* ghost: what the user last set on each service
          contested,  \* ghost: services that two had to do with at once
          lost,       \* ghost: services whose record was overwritten for nothing
          edits, faults

vars == <<setting, journal, session, recovery, wanted, contested, lost, edits, faults>>

Unread == [servers |-> NoList, search |-> NoList]
NoJournal == [applied |-> NoList, prior |-> Unread, changed |-> FALSE]

\* The parts of a session's record: the service, what is to be put back, and
\* whether a command of the revert has failed.
Off(v) == [at |-> "off", on |-> v, prior |-> Unread, failed |-> FALSE]
Idle == [at |-> "off", jobs |-> {}, job |-> {}]

Init == /\ setting \in [Services -> [servers : UserLists, search : {UserSearch}]]
        /\ wanted = setting
        /\ journal = [i \in Instances |-> [v \in Services |-> NoJournal]]
        /\ \E v \in Services : session = [s \in Sessions |-> Off(v)]
        /\ recovery = [x \in Recoveries |-> Idle]
        /\ contested = {} /\ lost = {} /\ edits = 0 /\ faults = 0

Fault == faults < MaxFaults /\ faults' = faults + 1

(***************************************************************************)
(* networksetup.  A command that fails may have been carried out: the      *)
(* runner kills it at its deadline.                                        *)
(***************************************************************************)
SetTo(v, field, value) == setting' = [setting EXCEPT ![v][field] = value]
Sets(v, field, value) == SetTo(v, field, value) /\ UNCHANGED faults
FailsToSet(v, field, value) == Fault /\ (SetTo(v, field, value) \/ UNCHANGED setting)

(***************************************************************************)
(* apply_macos_networksetup, without split domains.                        *)
(***************************************************************************)
Live(s) == session[s].at \notin {"off", "left", "dead"}
At(s, at) == session[s].at = at /\ UNCHANGED <<recovery, wanted, contested, edits>>
Mid(s, at) == At(s, at) /\ UNCHANGED lost
Turns(s, r) == session' = [session EXCEPT ![s] = r]
Goes(s, at) == Turns(s, [session[s] EXCEPT !.at = at])
Journal(s) == journal[InstanceOf[s]][session[s].on]
Records(s, j) == journal' = [journal EXCEPT ![InstanceOf[s]][session[s].on] = j]
Changes(s) == PushedSearch[s] # NoList
Stands(s) == setting[session[s].on]
Actives == Services  \* whichever carries the default route

Working(x) == recovery[x].at \notin {"off", "over"}
\* The files and the settings of a service have no lock.
Contends(s, v) == \/ \E x \in Recoveries : Working(x)
                  \/ \E r \in Sessions \ {s} : Live(r) /\ session[r].on = v
                  \/ \E i \in Instances \ {InstanceOf[s]} : journal[i][v] # NoJournal

\* The control socket keeps a second session of an instance away; the default
\* route decides which service it is.
Begin(s) ==
  /\ session[s].at = "off"
  /\ \A r \in Sessions : Live(r) => InstanceOf[r] # InstanceOf[s]
  /\ \E v \in Actives :
       /\ Turns(s, [Off(v) EXCEPT !.at = "servers"])
       /\ contested' = IF Contends(s, v) THEN contested \union {v} ELSE contested
  /\ UNCHANGED <<setting, journal, recovery, wanted, lost, edits, faults>>

\* A read that fails ends the apply before it has touched anything.
ReadServers(s) ==
  /\ Mid(s, "servers")
  /\ Turns(s, [session[s] EXCEPT !.at = "search", !.prior.servers = Stands(s).servers])
  /\ UNCHANGED <<setting, journal, faults>>

ReadSearch(s) ==
  /\ Mid(s, "search")
  /\ Turns(s, [session[s] EXCEPT !.at = "chain", !.prior.search = Stands(s).search])
  /\ UNCHANGED <<setting, journal, faults>>

GivesUp(s) ==
  /\ session[s].at \in {"servers", "search", "journal"} /\ Mid(s, session[s].at)
  /\ Fault /\ Goes(s, "left")
  /\ UNCHANGED <<setting, journal>>

\* What a dead session of the instance replaced, while what it set still stands.
FaultyPriors(s) == session[s].prior  \* mutant: the journal is not looked at
Priors(s) == IF session[s].prior.servers = Journal(s).applied
               THEN Journal(s).prior ELSE session[s].prior
Chain(s) ==
  /\ Mid(s, "chain")
  /\ Turns(s, [session[s] EXCEPT !.at = "journal", !.prior = Priors(s)])
  /\ UNCHANGED <<setting, journal, faults>>

\* Before the swap, and over whatever record there was.
WriteJournal(s) ==
  /\ Mid(s, "journal")
  /\ Records(s, [applied |-> Pushed[s], prior |-> session[s].prior, changed |-> Changes(s)])
  /\ Goes(s, "swap")
  /\ UNCHANGED <<setting, faults>>

\* The record on file is for other servers than those that stand, which an
\* earlier session set; its own record is gone.
Overtook(s) == session[s].at = "swap" /\ Stands(s).servers \notin {Pushed[s], session[s].prior.servers}
Loses(s) == lost' = IF Overtook(s) /\ UNCHANGED setting THEN lost \union {session[s].on} ELSE lost

\* The journal is kept when a command fails.
Swap(s) ==
  /\ At(s, "swap")
  /\ LET v == session[s].on IN
       \/ /\ Sets(v, "servers", Pushed[s])
          /\ Goes(s, IF Changes(s) THEN "swapsearch" ELSE "up")
       \/ FailsToSet(v, "servers", Pushed[s]) /\ Goes(s, "left")
  /\ Loses(s)
  /\ UNCHANGED journal

SwapSearch(s) ==
  /\ Mid(s, "swapsearch")
  /\ LET v == session[s].on IN
       \/ Sets(v, "search", PushedSearch[s]) /\ Goes(s, "up")
       \/ FailsToSet(v, "search", PushedSearch[s]) /\ Goes(s, "left")
  /\ UNCHANGED <<journal>>

(***************************************************************************)
(* revert_macos_with.  A failure is noted and the rest is done all the     *)
(* same; only a revert without one removes the journal.                    *)
(***************************************************************************)
Reverts(s, field, next) ==
  LET v == session[s].on  value == session[s].prior[field] IN
    \/ Sets(v, field, value) /\ Goes(s, next)
    \/ FailsToSet(v, field, value) /\ Turns(s, [session[s] EXCEPT !.at = next, !.failed = TRUE])

RestoreServers(s) ==
  /\ Mid(s, "up")
  /\ Reverts(s, "servers", IF Changes(s) THEN "restoresearch" ELSE "retire")
  /\ UNCHANGED journal

RestoreSearch(s) ==
  /\ Mid(s, "restoresearch")
  /\ Reverts(s, "search", "retire")
  /\ UNCHANGED journal

Retire(s) ==
  /\ Mid(s, "retire") /\ Goes(s, "left")
  /\ IF session[s].failed THEN UNCHANGED journal ELSE Records(s, NoJournal)
  /\ UNCHANGED <<setting, faults>>

Crash(s) == /\ Live(s) /\ Fault /\ At(s, session[s].at) /\ Goes(s, "dead")
            /\ UNCHANGED <<setting, journal>> /\ Loses(s)

(***************************************************************************)
(* macos_reclaim_dns_state on the journals.  All are read first; none is   *)
(* acted on unless the scan of the sockets found nobody, and the scan is   *)
(* over by then.                                                           *)
(***************************************************************************)
Idles(x, at) == /\ recovery[x].at = at /\ UNCHANGED <<session, wanted, contested, lost, edits>>
Becomes(x, r) == recovery' = [recovery EXCEPT ![x] = r]
Written == {[i |-> i, v |-> v, j |-> journal[i][v]] : i \in Instances, v \in Services}
Jobs == {d \in Written : d.j # NoJournal}

Recover(x) ==
  /\ Idles(x, "off")
  /\ Becomes(x, IF \E s \in Sessions : Live(s) THEN [Idle EXCEPT !.at = "over"]
                  ELSE [Idle EXCEPT !.at = "work", !.jobs = Jobs])
  /\ UNCHANGED <<setting, journal, faults>>

Drops(x) == Becomes(x, [recovery[x] EXCEPT !.at = "work", !.job = {}])

\* restore_macos_dns_from_journal: go on from the swap or from a restore of the
\* servers that was not finished; leave alone what somebody has changed.
FaultyStartsAt(d) == "servers"  \* mutant: what stands is not looked at
StartsAt(d) == IF setting[d.v].servers = d.j.applied THEN "servers"
               ELSE IF setting[d.v].servers = d.j.prior.servers
                 THEN (IF d.j.changed THEN "search" ELSE "retire")
               ELSE "work"
Verify(x) ==
  /\ Idles(x, "work")
  /\ \E d \in recovery[x].jobs :
       LET rest == [recovery[x] EXCEPT !.jobs = @ \ {d}] IN
         \/ /\ Becomes(x, [rest EXCEPT !.at = StartsAt(d),
                                       !.job = IF StartsAt(d) = "work" THEN {} ELSE {d}])
            /\ UNCHANGED faults
         \/ Fault /\ Becomes(x, rest)
  /\ UNCHANGED <<setting, journal>>

RecoverServers(x) ==
  /\ Idles(x, "servers")
  /\ \E d \in recovery[x].job :
       \/ /\ Sets(d.v, "servers", d.j.prior.servers)
          /\ Becomes(x, [recovery[x] EXCEPT !.at = IF d.j.changed THEN "search" ELSE "retire"])
       \/ FailsToSet(d.v, "servers", d.j.prior.servers) /\ Drops(x)
  /\ UNCHANGED <<journal>>

RecoverSearch(x) ==
  /\ Idles(x, "search")
  /\ \E d \in recovery[x].job :
       \/ Sets(d.v, "search", d.j.prior.search) /\ Becomes(x, [recovery[x] EXCEPT !.at = "retire"])
       \/ FailsToSet(d.v, "search", d.j.prior.search) /\ Drops(x)
  /\ UNCHANGED <<journal>>

RetireJournal(x) ==
  /\ Idles(x, "retire")
  /\ \E d \in recovery[x].job :
       /\ journal' = [journal EXCEPT ![d.i][d.v] = NoJournal]
  /\ Drops(x)
  /\ UNCHANGED <<setting, faults>>

RecoverEnds(x) == /\ Idles(x, "work") /\ recovery[x].jobs = {}
                  /\ Becomes(x, [Idle EXCEPT !.at = "over"])
                  /\ UNCHANGED <<setting, journal, faults>>

(***************************************************************************)
(* The user sets the servers of a service, by hand or by taking a lease,   *)
(* while nobody else is at work on it.  A revert overwrites what was set   *)
(* while its tunnel was up.                                                *)
(***************************************************************************)
Edit(v) ==
  /\ edits < MaxEdits /\ edits' = edits + 1
  /\ \A s \in Sessions : Live(s) => session[s].on # v
  /\ \A x \in Recoveries : ~Working(x)
  /\ \E u \in UserLists : /\ SetTo(v, "servers", u)
                          /\ wanted' = [wanted EXCEPT ![v].servers = u]
  /\ UNCHANGED <<journal, session, recovery, contested, lost, faults>>

SessionStep(s) == \/ Begin(s) \/ ReadServers(s) \/ ReadSearch(s) \/ GivesUp(s) \/ Chain(s)
                  \/ WriteJournal(s) \/ Swap(s) \/ SwapSearch(s) \/ RestoreServers(s)
                  \/ RestoreSearch(s) \/ Retire(s) \/ Crash(s)
RecoveryStep(x) == \/ Recover(x) \/ Verify(x) \/ RecoverServers(x) \/ RecoverSearch(x)
                   \/ RetireJournal(x) \/ RecoverEnds(x)
Next == \/ \E s \in Sessions : SessionStep(s)
        \/ \E x \in Recoveries : RecoveryStep(x)
        \/ \E v \in Services : Edit(v)
Spec == Init /\ [][Next]_vars

(***************************************************************************)
(* Properties.                                                             *)
(***************************************************************************)
JournalRecords == [applied : Lists \union {NoList},
                   prior : Settings \union {Unread}, changed : BOOLEAN]
Reading == [servers : Lists \union {NoList}, search : Searches \union {NoList}]
JobRecords == [i : Instances, v : Services, j : JournalRecords]
TypeOK ==
  /\ setting \in [Services -> Settings] /\ wanted \in [Services -> Settings]
  /\ journal \in [Instances -> [Services -> JournalRecords]]
  /\ session \in [Sessions -> [at : {"off", "servers", "search", "chain", "journal", "swap",
                                     "swapsearch", "up", "restoresearch", "retire", "left", "dead"},
                               on : Services, prior : Reading, failed : BOOLEAN]]
  /\ recovery \in [Recoveries -> [at : {"off", "work", "servers", "search", "retire", "over"},
                                  jobs : SUBSET JobRecords, job : SUBSET JobRecords]]
  /\ contested \subseteq Services /\ lost \subseteq Services
  /\ edits \in 0 .. MaxEdits /\ faults \in 0 .. MaxFaults

\* gp-dns lib.rs:1307: what the user wants on a service stands there, or a
\* journal brings it back: no crash and no failed command loses the servers
\* that were there before.  Two cases are excluded: a contested service; and
\* the swap that follows a crashed one of the same instance with other servers.
\* Its record, written before the swap, is not of what stands: not until the
\* swap is made, and for good if it never is (NeverForgotten).
Brings(v, j) == j.applied = setting[v].servers /\ j.prior.servers = wanted[v].servers
Untold == contested \union lost
ServersRecoverable ==
  \A v \in Services \ Untold :
    \/ setting[v].servers = wanted[v].servers
    \/ \E i \in Instances : Brings(v, journal[i][v])
    \/ \E s \in Sessions : session[s].on = v /\ Overtook(s)

\* Nothing but the swap of a connect takes from a service what its user wants:
\* no revert and no recovery writes an old record over a newer setting.
OnlySwapsDisplace ==
  [][\A v \in Services \ contested :
       setting[v].servers = wanted[v].servers /\ setting'[v].servers # wanted'[v].servers
         => \E s \in Sessions : session[s].at = "swap" /\ session[s].on = v]_vars

\* gp-dns lib.rs:1296 ("the on-disk state no longer matches the journal, so it is
\* safe to overwrite with this session's record"): while no session is at work
\* on a service, its user's servers stand there or are the priors of some journal.
\* The code does not keep this: after two crashes, the second between a record
\* and its swap, a third record takes the servers of the first for the user's.
NeverForgotten ==
  \A v \in Services \ contested :
    (\A s \in Sessions : Live(s) => session[s].on # v) =>
      \/ setting[v].servers = wanted[v].servers
      \/ \E i \in Instances : journal[i][v].prior.servers = wanted[v].servers

=============================================================================
