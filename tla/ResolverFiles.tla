---------------------------- MODULE ResolverFiles ----------------------------
(***************************************************************************)
(* Split DNS on macOS: one file per zone in /etc/resolver, written by      *)
(* gp_dns::apply, removed by its revert, swept by the connect of any       *)
(* instance and by `opc recover`, and the journal each instance keeps of   *)
(* the zones it wrote.  No lock covers the directory.  What a sweep may    *)
(* take depends on a scan of the control sockets that is over by then, so  *)
(* the sessions of ControlSocket are part of the model.                    *)
(***************************************************************************)
EXTENDS ControlSocket, Sequences

CONSTANTS Zones,
          Split,      \* the zones the gateway pushes, in the order of the list
          Portal,     \* the zones that steer the lookup of the portal
          Beginnings  \* who takes part, over which sockets and files

Pushed == {Split[k] : k \in DOMAIN Split}

\* What a file can hold: nothing at all yet, the marker of a session, the
\* exact lines of a release without markers, or something else.
NoFile == [is |-> "none", of |-> "nobody", by |-> "nobody"]
Legacy == [is |-> "legacy", of |-> "nobody", by |-> "nobody"]
Foreign == [is |-> "foreign", of |-> "nobody", by |-> "nobody"]
Empty(s) == [is |-> "empty", of |-> "nobody", by |-> s]
Marked(i, s) == [is |-> "mark", of |-> i, by |-> s]
Past(i) == Marked(i, "past")
Mark(s) == Marked(Own(s), s)
Contents == {NoFile, Legacy, Foreign} \union {Empty(s) : s \in Sessions}
              \union {Marked(i, s) : i \in Instances, s \in Sessions \union {"past"}}

ASSUME ZonesAssumption == Split \in Seq(Zones) /\ Portal \subseteq Zones
OldFiles == [Zones -> {NoFile, Legacy, Foreign} \union {Past(i) : i \in Instances}]
ASSUME BeginningsAssumption ==
  Beginnings \subseteq [who : SUBSET Scanners, instance : Named,
                         sock : OldSockets, zone : OldFiles]

VARIABLES zone,     \* the file of each zone
          temp,     \* temporary files of atomic rewrites: <<zone, session>>
          journal,  \* the zones in each instance's journal; {}: there is none
          dns,      \* how far each session is with its DNS
          sweep,    \* how far each scanner is with its sweep
          exposed,  \* ghost: sessions that somebody with older facts may harm
          excused   \* ghost: files a session may leave, by <<session, zone>>

files == <<zone, temp, journal, dns, sweep, exposed, excused>>
vars == <<instance, sock, stage, scan, zone, temp, journal, dns, sweep,
          exposed, excused, faults>>

Quiet == [at |-> "idle", k |-> 1, written |-> {}, fresh |-> {}, races |-> 0,
          clean |-> TRUE]
Unswept == [at |-> "off", scope |-> {}, todo |-> {}, temps |-> {}, doomed |-> {},
            jobs |-> {}, past |-> {}, passed |-> {}, flawed |-> FALSE]

Init == /\ \E b \in Beginnings :
             /\ instance = b.instance /\ sock = b.sock /\ zone = b.zone
             /\ stage = [s \in Sessions |-> IF s \in b.who THEN "off" ELSE "left"]
             /\ sweep = [x \in Scanners |-> IF x \in b.who THEN Unswept
                                            ELSE [Unswept EXCEPT !.at = "over"]]
        /\ SocketInit
        /\ temp = {} /\ exposed = {} /\ excused = {}
        /\ journal = [i \in Instances |-> {}]
        /\ dns = [s \in Sessions |-> Quiet]

(***************************************************************************)
(* write_macos_resolver_files.  d is the zone session s is at.             *)
(***************************************************************************)
Here(s) == Split[dns[s].k]
Step(s, r) == dns' = [dns EXCEPT ![s] = r]
Goes(s, at) == Step(s, [dns[s] EXCEPT !.at = at])
Writes(s, at) == dns[s].at = at /\ UNCHANGED <<sockets, sweep>>

\* The zones a session acts on by what it read or recorded earlier.
Claims(s) == dns[s].written \union
               (IF dns[s].at \in {"fill", "adopt", "rename"} THEN {Here(s)} ELSE {})
\* What others decided about zone z before session s wrote it.
Outdated(s, z) == (\E x \in Scanners : z \in sweep[x].doomed)
                    \/ \E r \in Sessions \ {s} : z \in Claims(r)
Exposes(s, z) == exposed' = IF Outdated(s, z) THEN exposed \union {s} ELSE exposed

\* The zone is done; what was created is remembered until the last one is.
Next1(s, made) ==
  LET done == [dns[s] EXCEPT !.written = @ \union {Here(s)}, !.races = 0] IN
    IF dns[s].k = Len(Split) THEN [done EXCEPT !.at = "up", !.k = 1, !.fresh = {}]
    ELSE [done EXCEPT !.at = "write", !.k = @ + 1, !.fresh = @ \union made]

\* The journal is written before the first file; a failure is apply's.
Apply(s) ==
  /\ Writes(s, "idle") /\ stage[s] = "serving" /\ Pushed # {}
  /\ \/ /\ journal' = [journal EXCEPT ![Own(s)] = Pushed]
        /\ Step(s, [Quiet EXCEPT !.at = "write"]) /\ UNCHANGED faults
     \/ /\ Fault /\ UNCHANGED <<journal, dns>>
  /\ UNCHANGED <<zone, temp, exposed, excused>>

Mine(s, c) == c = Legacy \/ (c.is = "mark" /\ c.of = Own(s))

Classify(s) ==
  /\ Writes(s, "write")
  /\ LET c == zone[Here(s)] IN
       \/ /\ Fault /\ Goes(s, "rollback")
       \/ /\ c = Mark(s) /\ Step(s, Next1(s, {})) /\ UNCHANGED faults
       \/ /\ c # Mark(s) /\ Mine(s, c) /\ Goes(s, "adopt") /\ UNCHANGED faults
       \/ /\ c = NoFile /\ Goes(s, "absent") /\ UNCHANGED faults
       \/ /\ c # NoFile /\ ~Mine(s, c) /\ Goes(s, "rollback") /\ UNCHANGED faults
  /\ UNCHANGED <<zone, temp, journal, exposed, excused>>

\* create_macos_resolver_file: exclusive on the final name, then the content.
Create(s) ==
  /\ Writes(s, "absent") /\ zone[Here(s)] = NoFile
  /\ zone' = [zone EXCEPT ![Here(s)] = Empty(s)]
  /\ Goes(s, "fill") /\ Exposes(s, Here(s))
  /\ UNCHANGED <<temp, journal, excused, faults>>

LosesRace(s) ==
  /\ Writes(s, "absent") /\ zone[Here(s)] # NoFile
  /\ LET n == dns[s].races + 1 IN
       Step(s, [dns[s] EXCEPT !.races = n, !.at = IF n > 2 THEN "rollback" ELSE "write"])
  /\ UNCHANGED <<zone, temp, journal, exposed, excused, faults>>

CreateFails(s) ==
  /\ Writes(s, "absent") /\ Fault /\ Goes(s, "rollback")
  /\ UNCHANGED <<zone, temp, journal, exposed, excused>>

\* The write goes to the open file, wherever its name has gone.
Fill(s) ==
  /\ Writes(s, "fill")
  /\ zone' = IF zone[Here(s)] = Empty(s)
               THEN [zone EXCEPT ![Here(s)] = Mark(s)] ELSE zone
  /\ Step(s, Next1(s, {Here(s)}))
  /\ UNCHANGED <<temp, journal, exposed, excused, faults>>

\* The file goes with the failure.  If it cannot, nobody hears of it, and what
\* stays is empty or, where the last call was the one that failed, complete.
FillFails(s) ==
  /\ Writes(s, "fill") /\ Fault /\ Goes(s, "rollback")
  /\ \/ zone' = [zone EXCEPT ![Here(s)] = NoFile] /\ UNCHANGED excused
     \/ /\ excused' = excused \union {<<s, Here(s)>>}
        /\ \/ UNCHANGED zone
           \/ /\ zone[Here(s)] = Empty(s)
              /\ zone' = [zone EXCEPT ![Here(s)] = Mark(s)]
  /\ UNCHANGED <<temp, journal, exposed>>

\* write_macos_resolver_file_atomic, for a file that is adopted.
WriteTemp(s) ==
  /\ Writes(s, "adopt")
  /\ \/ /\ temp' = temp \union {<<Here(s), s>>} /\ Goes(s, "rename") /\ UNCHANGED faults
     \/ /\ Fault /\ Goes(s, "rollback") /\ UNCHANGED temp
  /\ UNCHANGED <<zone, journal, exposed, excused>>

Rename(s) ==
  /\ Writes(s, "rename") /\ <<Here(s), s>> \in temp
  /\ temp' = temp \ {<<Here(s), s>>}
  /\ \/ /\ zone' = [zone EXCEPT ![Here(s)] = Mark(s)]
        /\ Step(s, Next1(s, {})) /\ Exposes(s, Here(s)) /\ UNCHANGED faults
     \/ /\ Fault /\ Goes(s, "rollback") /\ UNCHANGED <<zone, exposed>>
  /\ UNCHANGED <<journal, excused>>

\* A sweep took the temporary file in between.
RenameFails(s) ==
  /\ Writes(s, "rename") /\ <<Here(s), s>> \notin temp /\ Goes(s, "rollback")
  /\ UNCHANGED <<zone, temp, journal, exposed, excused, faults>>

(***************************************************************************)
(* The ways back.  A rollback removes what this apply created, forgives    *)
(* every failure and then removes the journal; a revert removes what is    *)
(* recorded and keeps the journal if one removal failed.                   *)
(***************************************************************************)
Unlinks(s, z) == \/ (zone' = [zone EXCEPT ![z] = NoFile] /\ UNCHANGED <<excused, faults>>)
                 \/ (Fault /\ excused' = excused \union {<<s, z>>} /\ UNCHANGED zone)

FaultyToRollBack(s) == {}  \* mutant: nothing of a failed apply is undone
ToRollBack(s) == dns[s].fresh
RollBack(s) ==
  /\ Writes(s, "rollback")
  /\ \E z \in ToRollBack(s) :
       Unlinks(s, z) /\ Step(s, [dns[s] EXCEPT !.fresh = @ \ {z}, !.written = @ \ {z}])
  /\ UNCHANGED <<temp, journal, exposed>>

RolledBack(s) ==
  /\ Writes(s, "rollback") /\ ToRollBack(s) = {}
  /\ journal' = [journal EXCEPT ![Own(s)] = {}]
  /\ Step(s, Quiet)
  /\ excused' = excused \union {<<s, z>> : z \in dns[s].written \ dns[s].fresh}
  /\ UNCHANGED <<zone, temp, exposed, faults>>

Revert(s) ==
  /\ Writes(s, "up") /\ Goes(s, "revert")
  /\ UNCHANGED <<zone, temp, journal, exposed, excused, faults>>

RevertZone(s) ==
  /\ Writes(s, "revert")
  /\ \E z \in dns[s].written :
       /\ Unlinks(s, z)
       /\ Step(s, [dns[s] EXCEPT !.written = @ \ {z}, !.clean = @ /\ faults' = faults])
  /\ UNCHANGED <<temp, journal, exposed>>

Reverted(s) ==
  /\ Writes(s, "revert") /\ dns[s].written = {}
  /\ journal' = IF dns[s].clean THEN [journal EXCEPT ![Own(s)] = {}] ELSE journal
  /\ Step(s, Quiet)
  /\ UNCHANGED <<zone, temp, exposed, excused, faults>>

(***************************************************************************)
(* Sweeps: that of a connect before it binds, over the portal's zones, and *)
(* that of `opc recover` or a disconnect that found no session, over every *)
(* file of one instance or of all, followed by their journals.             *)
(***************************************************************************)
Sweeping(x) == sweep[x].at \notin {"off", "over"}
InSweep(x, at) == /\ sweep[x].at = at
                  /\ x \in Sessions => stage[x] = "off"
                  /\ UNCHANGED <<instance, sock, stage, journal, dns>>
Sweeps(x, r) == sweep' = [sweep EXCEPT ![x] = r]
Continues(x, r) == Sweeps(x, r) /\ UNCHANGED scan
Finishes(x) == Forget(x) /\ Sweeps(x, [Unswept EXCEPT !.at = "over"])

BeginScan(x) ==
  /\ InSweep(x, "off") /\ List(x)
  /\ Sweeps(x, [Unswept EXCEPT !.at = "scan", !.past = IF x \in Sessions THEN {}
                                  ELSE {s \in Sessions : Ended(s)}])
  /\ UNCHANGED <<zone, temp, exposed, excused>>

Probes(x) == InSweep(x, "scan") /\ ProbeSocket(x)
               /\ UNCHANGED <<zone, temp, sweep, exposed, excused>>

Scopes(x) == IF x \in Sessions THEN {{Own(x)}}
             ELSE {Instances} \union {{i} : i \in Instances}

\* A connect spares its own instance if that may live, and does not sweep for
\* a portal without zones; a recover needs everybody in its scope to be gone.
Allowed(x, scope) == /\ x \in Sessions => Portal # {}
                     /\ IF x \in Recoveries /\ scope = Instances THEN Blanket(x)
                        ELSE \A i \in scope : OwnAbsent(x, i)

FaultyThere == {z \in Portal : zone[z] # NoFile}  \* mutant: the portal's zones only
There == {z \in Zones : zone[z] # NoFile}

\* A directory that cannot be listed counts as an empty one, without an error.
Judge(x) ==
  /\ InSweep(x, "scan") /\ Scanned(x)
  /\ \/ /\ \E scope \in Scopes(x) : ~Allowed(x, scope)
        /\ Finishes(x) /\ UNCHANGED faults
     \/ \E scope \in Scopes(x), listed \in BOOLEAN :
          LET found == There \intersect (IF x \in Sessions THEN Portal ELSE Zones) IN
            /\ Allowed(x, scope) /\ FaultIf(~listed)
            /\ Continues(x, [sweep[x] EXCEPT !.at = "files", !.scope = scope,
                 !.todo = IF listed THEN found ELSE {},
                 !.passed = IF listed THEN {} ELSE found,
                 !.temps = IF listed /\ Blanket(x) THEN temp ELSE {}])
  /\ UNCHANGED <<zone, temp, exposed, excused>>

(***************************************************************************)
(* Whether a file may go: macos_resolver_sweep_decision, then              *)
(* macos_recover_file_decision.  A file without a marker goes only when no *)
(* session lives and none of its name servers answers.                     *)
(***************************************************************************)
OwnerGone(x, i) ==
  IF x \in Sessions THEN i = Own(x) \/ ProvablyDead(x, i)
  ELSE i \in sweep[x].scope /\ (ProvablyDead(x, i) \/ (sweep[x].scope = {i} /\ OwnAbsent(x, i)))

MayGo(x, c) ==
  (c.is = "mark" /\ OwnerGone(x, c.of)) \/ (c = Legacy /\ Blanket(x))
MayStay(x, c) == c = Legacy \/ ~MayGo(x, c)

\* What reading the files Z leads to: which of them go, and which cannot be read.
Verdict(x, Z, doomed, unread) ==
  /\ doomed \subseteq Z /\ unread \subseteq Z \ doomed
  /\ \A z \in Z : IF z \in doomed THEN MayGo(x, zone[z])
                  ELSE z \in unread \/ MayStay(x, zone[z])

\* A file is read, and later removed by its name.  A connect does one after the
\* other; recover has read them all before it removes the first.  One that cannot
\* be read is passed over with a warning that does not count as an error.
Batches(x) == IF x \in Sessions THEN {{z} : z \in sweep[x].todo} ELSE {sweep[x].todo}
Reads(x) ==
  /\ sweep[x].todo # {} /\ sweep[x].doomed = {} /\ sweep[x].at = "files"
  /\ \E Z \in Batches(x),
        doomed \in SUBSET Zones, unread \in SUBSET Zones :
       /\ Verdict(x, Z, doomed, unread)
       /\ FaultIf(unread # {})
       /\ Continues(x, [sweep[x] EXCEPT !.todo = @ \ Z, !.doomed = doomed,
                                        !.passed = @ \union unread])
  /\ UNCHANGED <<zone, temp>>

Removes(x, z) ==
  /\ z \in sweep[x].doomed
  /\ \/ /\ zone' = [zone EXCEPT ![z] = NoFile] /\ UNCHANGED faults
        /\ Continues(x, [sweep[x] EXCEPT !.doomed = @ \ {z}])
     \/ /\ Fault /\ UNCHANGED zone
        /\ Continues(x, [sweep[x] EXCEPT !.doomed = @ \ {z}, !.flawed = TRUE])
  /\ UNCHANGED temp

RemovesTemp(x) ==
  /\ sweep[x].at = "files"
  /\ \E t \in sweep[x].temps :
       \/ /\ temp' = temp \ {t} /\ UNCHANGED faults
          /\ Continues(x, [sweep[x] EXCEPT !.temps = @ \ {t}])
       \/ /\ Fault /\ UNCHANGED temp
          /\ Continues(x, [sweep[x] EXCEPT !.temps = @ \ {t}, !.flawed = TRUE])
  /\ UNCHANGED zone

Handled(x) == sweep[x].todo \union sweep[x].doomed \union sweep[x].temps = {}

\* What follows the files: for recover, each journal in its scope.  One that
\* cannot be read is an error only where the scope is one instance, and a
\* directory of journals that cannot be listed is none in either case.
FilesDone(x) ==
  /\ sweep[x].at = "files" /\ Handled(x)
  /\ \/ x \in Sessions /\ Finishes(x) /\ UNCHANGED faults
     \/ \E jobs \in SUBSET Instances, told \in BOOLEAN :
          LET found == {i \in sweep[x].scope : journal[i] # {}} IN
            /\ x \notin Sessions /\ jobs \subseteq found /\ FaultIf(jobs # found)
            /\ told => jobs # found /\ sweep[x].scope # Instances
            /\ Continues(x, [sweep[x] EXCEPT !.at = "journals", !.jobs = jobs,
                                             !.flawed = @ \/ told])
  /\ UNCHANGED <<zone, temp>>

\* A zone that a journal lists goes if its marker still names the journal's
\* instance, whatever the scan said, and a removal that fails is not reported; the
\* journal goes when the scan allowed a restore of the global setting.
StillOurs(i) == {z \in journal[i] : zone[z].is = "mark" /\ zone[z].of = i}
Consults(x) ==
  /\ sweep[x].at = "journals"
  /\ \E i \in sweep[x].jobs, kept \in SUBSET Zones :
       /\ kept \subseteq StillOurs(i) /\ FaultIf(kept # {})
       /\ zone' = [z \in Zones |-> IF z \in StillOurs(i) \ kept THEN NoFile ELSE zone[z]]
       /\ journal' = IF Blanket(x) THEN [journal EXCEPT ![i] = {}] ELSE journal
       /\ Continues(x, [sweep[x] EXCEPT !.jobs = @ \ {i}])
  /\ UNCHANGED temp

SweepEnds(x) == /\ sweep[x].at = "journals" /\ sweep[x].jobs = {}
                /\ Finishes(x)
                /\ UNCHANGED <<zone, temp, journal, faults>>

SweepStep(x) ==
  /\ \/ (Reads(x) \/ (\E z \in Zones : Removes(x, z)) \/ RemovesTemp(x) \/ FilesDone(x))
          /\ UNCHANGED journal
     \/ Consults(x) \/ SweepEnds(x)
  /\ x \in Sessions => stage[x] = "off"
  /\ UNCHANGED <<instance, sock, stage, dns, exposed, excused>>

(***************************************************************************)
(* The session around its DNS.  Its socket is bound after its sweep, and   *)
(* removed when the tunnel has been taken down.                            *)
(***************************************************************************)
Twins(s) == {r \in Sessions \ {s} : Listening(r) /\ Own(r) = Own(s)}
Missed(s) == \E x \in Scanners \ {s} : Sweeping(x)
Hides(s) == {r \in Sessions \ {s} : Reachable(r) /\ Own(r) = Own(s)}
StillSocket == UNCHANGED <<zone, temp, journal, dns, sweep, excused>>

Starts(s) == sweep[s].at = "over" /\ Start(s) /\ UNCHANGED files
Prepares(s) == (Free(s) \/ FindsStale(s) \/ IsRefused(s) \/ BindFails(s)) /\ UNCHANGED files
RemovesOld(s) == RemoveOld(s) /\ exposed' = exposed \union Hides(s) /\ StillSocket
Binds(s) == /\ Bind(s) /\ StillSocket
            /\ exposed' = exposed \union Twins(s)
                 \union (IF Twins(s) # {} \/ Missed(s) THEN {s} ELSE {})
Restricts(s) == (Restrict(s) \/ RestrictFails(s)) /\ UNCHANGED files
Leaves(s) == dns[s].at = "idle" /\ Leave(s) /\ exposed' = exposed \ {s} /\ StillSocket
RemovesOwn(s) == Unlink(s) /\ exposed' = exposed \union Hides(s) /\ StillSocket

Crashes(s) == /\ Dies(s)
              /\ dns' = [dns EXCEPT ![s] = Quiet]
              /\ sweep' = [sweep EXCEPT ![s] = Unswept]
              /\ exposed' = exposed \ {s}
              /\ UNCHANGED <<zone, temp, journal, excused>>

SocketStep(s) == \/ Starts(s) \/ Prepares(s) \/ RemovesOld(s) \/ Binds(s)
                 \/ Restricts(s) \/ Leaves(s) \/ RemovesOwn(s) \/ Crashes(s)

WriteStep(s) == \/ Apply(s) \/ Classify(s) \/ Create(s) \/ LosesRace(s)
                \/ CreateFails(s) \/ Fill(s) \/ FillFails(s) \/ WriteTemp(s)
                \/ Rename(s) \/ RenameFails(s) \/ RollBack(s) \/ RolledBack(s)
                \/ Revert(s) \/ RevertZone(s) \/ Reverted(s)

ScanStep(x) == BeginScan(x) \/ Probes(x) \/ Judge(x) \/ SweepStep(x)

Next == \/ \E s \in Sessions : SocketStep(s) \/ WriteStep(s)
        \/ \E x \in Scanners : ScanStep(x)
Spec == Init /\ [][Next]_vars

(***************************************************************************)
(* Properties.                                                             *)
(***************************************************************************)
ScanRecords == [open : BOOLEAN, complete : BOOLEAN, todo : SUBSET Instances,
                rows : [Instances -> {"unlisted", "alive", "absent", "unknown"}]]
DnsRecords == [at : {"idle", "write", "absent", "fill", "adopt", "rename", "rollback",
                     "up", "revert"},
               k : Nat, written : SUBSET Zones, fresh : SUBSET Zones,
               races : Nat, clean : BOOLEAN]
SweepRecords == [at : {"off", "scan", "files", "journals", "over"},
                 scope : SUBSET Instances, todo : SUBSET Zones,
                 temps : SUBSET (Zones \X Sessions), doomed : SUBSET Zones,
                 jobs : SUBSET Instances, past : SUBSET Sessions,
                 passed : SUBSET Zones, flawed : BOOLEAN]
TypeOK ==
  /\ instance \in Named /\ sock \in [Instances -> Sessions \union {NoSocket, Stale, Junk}]
  /\ stage \in [Sessions -> {"off", "starting", "stale", "free", "bound",
                             "serving", "leaving", "left", "dead"}]
  /\ scan \in [Scanners -> ScanRecords]
  /\ zone \in [Zones -> Contents] /\ temp \subseteq Zones \X Sessions
  /\ journal \in [Instances -> {{}, Pushed}]
  /\ dns \in [Sessions -> DnsRecords]
  /\ sweep \in [Scanners -> SweepRecords]
  /\ exposed \subseteq Sessions /\ excused \subseteq Sessions \X Zones
  /\ faults \in 0 .. MaxFaults

\* While a session is up, every zone it was given is in its own file.  Only
\* facts that are out of date can take one from it: a scan made before it was
\* reachable, a twin bound over it, a decision about the zone made before it
\* wrote the file.
UpMeansScoped ==
  \A s \in Sessions \ exposed :
    dns[s].at = "up" => \A z \in Pushed : zone[z] = Mark(s)

\* A session that has ended by itself leaves no file of its own, but for one
\* whose removal failed and one that a failed apply had adopted.
EndedMeansClean ==
  \A s \in Sessions, z \in Zones :
    stage[s] = "left" /\ zone[z].by = s => <<s, z>> \in excused

\* What a session of x's scope, over before x's scan began, has left.
Remains(x) ==
  {z \in Zones : /\ zone[z].is = "mark" /\ zone[z].of \in sweep[x].scope
                 /\ zone[z].by \in sweep[x].past \union {"past"}}
Reports(x) == sweep[x].at = "journals" /\ sweep'[x].at = "over"

\* A recover that reports no error has left no marked file of its dead but what
\* it had passed over: a file it could not read, or the whole of a directory it
\* could not list, for which the code warns at most and which its exit code does
\* not show.
RecoverIsThorough ==
  [][\A x \in Recoveries :
       Reports(x) => sweep[x].flawed \/ Remains(x) \subseteq sweep[x].passed]_vars

\* "A recover that could not do its job must not read as success" (main.rs 2842):
\* no error reported means that no marked file of the dead is left.  The code
\* skips what it cannot read and exits with success.
SuccessMeansThorough ==
  [][\A x \in Recoveries : Reports(x) => sweep[x].flawed \/ Remains(x) = {}]_vars

=============================================================================
