------------------------- MODULE ResolverFilesProofs -------------------------
(***************************************************************************)
(* Proofs about ResolverFiles, for any number of sessions, recoveries,     *)
(* instances, zones and failures: typing; that a session which is up keeps *)
(* every zone; that one which has ended left nothing behind; and that a    *)
(* recover without an error is thorough.                                   *)
(***************************************************************************)
EXTENDS ResolverFiles, TLAPS

Midway(s) == dns[s].at \in {"write", "absent", "fill", "adopt", "rename"}

\* A session is idle with a blank record, and serves while it is not.
PhaseInv ==
  \A s \in Sessions :
    /\ dns[s].at = "idle" => dns[s] = Quiet
    /\ dns[s].at # "idle" => stage[s] = "serving"
    /\ Midway(s) => dns[s].k \in DOMAIN Split
    /\ dns[s].fresh \subseteq dns[s].written
    /\ dns[s].at \in {"up", "revert"} => dns[s].fresh = {}

TypeInv == TypeOK /\ PhaseInv

(***************************************************************************)
(* What the three kinds of steps leave alone.                              *)
(***************************************************************************)

\* A step of apply or revert leaves the sockets and the sweeps alone.
LEMMA WriteFrame ==
  ASSUME NEW s \in Sessions, WriteStep(s)
  PROVE  UNCHANGED <<instance, sock, stage, scan, sweep>>
  BY DEF WriteStep, Apply, Classify, Create, LosesRace, CreateFails, Fill, FillFails,
         WriteTemp, Rename, RenameFails, RollBack, RolledBack, Revert, RevertZone,
         Reverted, Writes, sockets

\* A step of apply or revert takes no session out of the exposed ones.
LEMMA WriteExposes ==
  ASSUME NEW s \in Sessions, WriteStep(s)
  PROVE  exposed \subseteq exposed'
  BY DEF WriteStep, Apply, Classify, Create, LosesRace, CreateFails, Fill, FillFails,
         WriteTemp, Rename, RenameFails, RollBack, RolledBack, Revert, RevertZone,
         Reverted, Exposes

\* A step of a scan or a sweep leaves the sessions alone.
LEMMA ScanFrame ==
  ASSUME NEW x \in Scanners, ScanStep(x)
  PROVE  UNCHANGED <<instance, sock, stage, dns, exposed, excused>>
  BY DEF ScanStep, BeginScan, Probes, Judge, SweepStep, InSweep

\* A step of a session around its DNS touches no file.
LEMMA SocketFrame ==
  ASSUME NEW s \in Sessions, SocketStep(s)
  PROVE  UNCHANGED <<instance, zone, temp, journal, excused>>
  BY DEF SocketStep, Starts, Prepares, RemovesOld, Binds, Restricts, Leaves, RemovesOwn,
         Crashes, Start, Free, FindsStale, IsRefused, RemoveOld, Bind, BindFails, Restrict,
         RestrictFails, Leave, Unlink, Dies, Moves, StillSocket, files

\* Short of a crash it leaves the DNS and the scans alone.
LEMMA SocketQuiet ==
  ASSUME NEW s \in Sessions, SocketStep(s), ~Crashes(s)
  PROVE  UNCHANGED <<dns, scan, sweep>>
  BY DEF SocketStep, Starts, Prepares, RemovesOld, Binds, Restricts, Leaves, RemovesOwn,
         Start, Free, FindsStale, IsRefused, RemoveOld, Bind, BindFails, Restrict,
         RestrictFails, Leave, Unlink, Moves, StillSocket, files

(***************************************************************************)
(* Typing.                                                                 *)
(***************************************************************************)
\* The contents a session writes are contents.
LEMMA Writable ==
  ASSUME TypeOK, NEW s \in Sessions
  PROVE  NoFile \in Contents /\ Empty(s) \in Contents /\ Mark(s) \in Contents
  BY DEF TypeOK, Contents, Named, Mark, Own

\* The zones of the list are zones.
LEMMA ZonesOfSplit ==
  ASSUME NEW k \in DOMAIN Split
  PROVE  k \in Nat \ {0} /\ k <= Len(Split) /\ Split[k] \in Zones /\ Split[k] \in Pushed
  BY ZonesAssumption DEF Pushed

LEMMA FaultsBounded ==
  ASSUME TypeOK, Fault \/ UNCHANGED faults
  PROVE  faults' \in 0 .. MaxFaults
  BY FaultsAssumption DEF TypeOK, Fault

\* A step of a session that serves, whose record stays well formed.
LEMMA WriteTyped ==
  ASSUME TypeInv, NEW s \in Sessions, NEW r \in DnsRecords,
         UNCHANGED <<instance, sock, stage, scan, sweep>>,
         dns' = [dns EXCEPT ![s] = r], stage[s] = "serving",
         r.at = "idle" => r = Quiet,
         r.at \in {"write", "absent", "fill", "adopt", "rename"} => r.k \in DOMAIN Split,
         r.fresh \subseteq r.written, r.at \in {"up", "revert"} => r.fresh = {},
         zone' \in [Zones -> Contents], temp' \subseteq Zones \X Sessions,
         journal' \in [Instances -> {{}, Pushed}],
         exposed' \subseteq Sessions, excused' \subseteq Sessions \X Zones,
         Fault \/ UNCHANGED faults
  PROVE  TypeInv'
<1>1. faults' \in 0 .. MaxFaults
  BY FaultsBounded DEF TypeInv
<1>2. TypeOK'
  BY <1>1 DEF TypeInv, TypeOK
<1>3. ASSUME NEW t \in Sessions
      PROVE  dns'[t] = IF t = s THEN r ELSE dns[t]
  BY DEF TypeInv, TypeOK
<1>4. PhaseInv'
  BY <1>3 DEF TypeInv, PhaseInv, Midway
<1> QED
  BY <1>2, <1>4 DEF TypeInv

\* Three fields of a record may change.
LEMMA Redone ==
  ASSUME NEW r \in DnsRecords, NEW a \in {"write", "up"}, NEW n \in Nat,
         NEW f \in SUBSET Zones, NEW q, q = [r EXCEPT !.at = a, !.k = n, !.fresh = f]
  PROVE  q \in DnsRecords
  BY DEF DnsRecords

\* The record after a zone is done.
LEMMA NextRecord ==
  ASSUME TypeInv, NEW s \in Sessions, Midway(s), NEW made, made \subseteq {Here(s)}
  PROVE  /\ Next1(s, made) \in DnsRecords
         /\ Next1(s, made).at \in {"write", "up"}
         /\ Next1(s, made).at = "write" => (Next1(s, made).k \in DOMAIN Split
                                             /\ Next1(s, made).k = dns[s].k + 1)
         /\ Next1(s, made).at = "up" => dns[s].k = Len(Split)
         /\ Next1(s, made).fresh \subseteq Next1(s, made).written
         /\ Next1(s, made).at = "up" => Next1(s, made).fresh = {}
         /\ Next1(s, made).written = dns[s].written \union {Here(s)}
<1> DEFINE done == [dns[s] EXCEPT !.written = @ \union {Here(s)}, !.races = 0]
<1>1. dns[s] \in DnsRecords /\ dns[s].k \in DOMAIN Split /\ dns[s].fresh \subseteq dns[s].written
  BY DEF TypeInv, TypeOK, PhaseInv
<1>2. Here(s) \in Zones /\ dns[s].k \in Nat \ {0} /\ dns[s].k <= Len(Split)
  BY <1>1, ZonesOfSplit DEF Here
<1>3. done \in DnsRecords /\ done.written = dns[s].written \union {Here(s)}
        /\ done.fresh = dns[s].fresh /\ done.k = dns[s].k
  BY <1>1, <1>2 DEF DnsRecords
<1> HIDE DEF done
<1>4. CASE dns[s].k = Len(Split)
  <2>1. Next1(s, made) = [done EXCEPT !.at = "up", !.k = 1, !.fresh = {}]
    BY <1>4 DEF Next1, done
  <2>2. /\ Next1(s, made).at = "up" /\ Next1(s, made).fresh = {}
        /\ Next1(s, made).written = done.written
    BY <2>1, <1>3 DEF DnsRecords
  <2>3. Next1(s, made) \in DnsRecords
    <3>1. done \in DnsRecords /\ 1 \in Nat /\ {} \in SUBSET Zones
      BY <1>3
    <3> QED
      BY ONLY <2>1, <3>1, Redone
  <2> QED
    BY <2>2, <2>3, <1>3, <1>4
<1>5. CASE dns[s].k # Len(Split)
  <2>1. Next1(s, made) = [done EXCEPT !.at = "write", !.k = @ + 1, !.fresh = @ \union made]
    BY <1>5 DEF Next1, done
  <2>2. dns[s].k + 1 \in DOMAIN Split
    BY <1>1, <1>2, <1>5, ZonesAssumption
  <2>3. /\ Next1(s, made).at = "write" /\ Next1(s, made).fresh = done.fresh \union made
        /\ Next1(s, made).k = done.k + 1
        /\ Next1(s, made).written = done.written
    BY <2>1, <1>3 DEF DnsRecords
  <2>4. done.fresh \union made \subseteq done.written /\ done.fresh \union made \subseteq Zones
    BY <1>1, <1>2, <1>3 DEF DnsRecords
  <2>5. Next1(s, made) = [done EXCEPT !.at = "write", !.k = done.k + 1,
                                      !.fresh = done.fresh \union made]
    BY <2>1, <1>3 DEF DnsRecords
  <2>6. Next1(s, made) \in DnsRecords
    <3>1. /\ done \in DnsRecords /\ done.k + 1 \in Nat
          /\ (done.fresh \union made) \in SUBSET Zones
      BY <2>4, <1>2, <1>3
    <3> QED
      BY ONLY <2>5, <3>1, Redone
  <2> QED
    BY <2>2, <2>3, <2>4, <2>6, <1>3
<1> QED
  BY <1>4, <1>5

\* A record whose place alone changes, and not to the blank one.
LEMMA Moved ==
  ASSUME NEW r \in DnsRecords, NEW a \in {"absent", "fill", "adopt", "rename", "rollback",
                                         "revert"}
  PROVE  LET n == [r EXCEPT !.at = a] IN
           /\ n \in DnsRecords /\ n.at = a /\ n.k = r.k
           /\ n.fresh = r.fresh /\ n.written = r.written
  BY DEF DnsRecords

LEMMA QuietTyped ==
  /\ Quiet \in DnsRecords /\ Quiet.at = "idle" /\ Quiet.k = 1
  /\ Quiet.fresh = {} /\ Quiet.written = {}
  BY DEF Quiet, DnsRecords

LEMMA WriteKeepsTypes ==
  ASSUME TypeInv, NEW s \in Sessions, WriteStep(s)
  PROVE  TypeInv'
<1>1. /\ dns[s] \in DnsRecords /\ dns[s].fresh \subseteq dns[s].written
      /\ dns[s].at # "idle" => stage[s] = "serving"
      /\ dns[s].at \in {"up", "revert"} => dns[s].fresh = {}
      /\ Midway(s) => (dns[s].k \in DOMAIN Split /\ Here(s) \in Zones)
      /\ Own(s) \in Instances
  BY ZonesOfSplit DEF TypeInv, TypeOK, PhaseInv, Here, Named, Own
<1>2. /\ zone \in [Zones -> Contents] /\ temp \subseteq Zones \X Sessions
      /\ journal \in [Instances -> {{}, Pushed}]
      /\ exposed \subseteq Sessions /\ excused \subseteq Sessions \X Zones
      /\ dns \in [Sessions -> DnsRecords]
  BY DEF TypeInv, TypeOK
<1>3. UNCHANGED <<instance, sock, stage, scan, sweep>>
  BY WriteFrame
<1>4. NoFile \in Contents /\ Empty(s) \in Contents /\ Mark(s) \in Contents
  BY Writable DEF TypeInv
<1>5. ASSUME NEW z \in Zones, Exposes(s, z)
      PROVE  exposed' \subseteq Sessions
  BY <1>2, <1>5 DEF Exposes
<1>6. ASSUME NEW a \in {"absent", "fill", "adopt", "rename", "rollback", "revert"}, Goes(s, a),
             dns[s].at # "idle", a = "revert" => dns[s].at = "up", a \in {"absent", "fill", "adopt", "rename"} => Midway(s),
             zone' \in [Zones -> Contents], temp' \subseteq Zones \X Sessions,
             UNCHANGED journal,
             exposed' \subseteq Sessions, excused' \subseteq Sessions \X Zones,
             Fault \/ UNCHANGED faults
      PROVE  TypeInv'
  <2> DEFINE n == [dns[s] EXCEPT !.at = a]
  <2>1. /\ n \in DnsRecords /\ n.at = a /\ n.k = dns[s].k
        /\ n.fresh = dns[s].fresh /\ n.written = dns[s].written
    BY <1>1, Moved
  <2>2. dns' = [dns EXCEPT ![s] = n]
    BY <1>6 DEF Goes, Step
  <2> HIDE DEF n
  <2>3. /\ n.at = "idle" => n = Quiet
        /\ n.at \in {"write", "absent", "fill", "adopt", "rename"} => n.k \in DOMAIN Split
        /\ n.fresh \subseteq n.written
        /\ n.at \in {"up", "revert"} => n.fresh = {}
        /\ stage[s] = "serving"
    BY <1>1, <1>6, <2>1
  <2>4. journal' \in [Instances -> {{}, Pushed}] /\ excused' \subseteq Sessions \X Zones
    BY <1>2, <1>6
  <2> QED
    BY <2>1, <2>2, <2>3, <2>4, <1>3, <1>6, WriteTyped
<1>7. ASSUME NEW made, made \subseteq {Here(s)}, Step(s, Next1(s, made)), Midway(s),
             zone' \in [Zones -> Contents], temp' \subseteq Zones \X Sessions,
             UNCHANGED journal,
             exposed' \subseteq Sessions, UNCHANGED excused,
             UNCHANGED faults
      PROVE  TypeInv'
  <2> DEFINE n == Next1(s, made)
  <2>1. /\ n \in DnsRecords /\ n.at \in {"write", "up"}
        /\ n.at = "write" => n.k \in DOMAIN Split
        /\ n.fresh \subseteq n.written
        /\ n.at \in {"up", "revert"} => n.fresh = {}
    BY <1>7, NextRecord
  <2>2. dns' = [dns EXCEPT ![s] = n]
    BY <1>7 DEF Step
  <2> HIDE DEF n
  <2>3. /\ n.at = "idle" => n = Quiet
        /\ n.at \in {"write", "absent", "fill", "adopt", "rename"} => n.k \in DOMAIN Split
        /\ stage[s] = "serving"
    BY <1>1, <1>7, <2>1 DEF Midway
  <2>4. journal' \in [Instances -> {{}, Pushed}] /\ excused' \subseteq Sessions \X Zones
    BY <1>2, <1>7
  <2> QED
    BY <2>1, <2>2, <2>3, <2>4, <1>3, <1>7, WriteTyped
<1>8. CASE Apply(s)
  <2>1. CASE Fault /\ UNCHANGED <<journal, dns>>
    <3>1. faults' \in 0 .. MaxFaults
      BY <2>1, FaultsBounded DEF TypeInv
    <3> QED
      BY <3>1, <2>1, <1>3, <1>8 DEF Apply, TypeInv, TypeOK, PhaseInv, Midway
  <2>2. CASE ~(Fault /\ UNCHANGED <<journal, dns>>)
    <3> DEFINE n == [Quiet EXCEPT !.at = "write"]
    <3>1. n \in DnsRecords /\ n.at = "write" /\ n.k = 1 /\ n.fresh \subseteq n.written
      BY DEF Quiet, DnsRecords
    <3>2. 1 \in DOMAIN Split
      <4>1. PICK j \in DOMAIN Split : TRUE
        BY <1>8 DEF Apply, Pushed
      <4> QED
        BY <4>1, ZonesAssumption
    <3>3. /\ dns' = [dns EXCEPT ![s] = n] /\ stage[s] = "serving" /\ UNCHANGED faults
          /\ journal' = [journal EXCEPT ![Own(s)] = Pushed]
          /\ UNCHANGED <<zone, temp, exposed, excused>>
      BY <1>8, <2>2 DEF Apply, Step
    <3> HIDE DEF n
    <3>4. journal' \in [Instances -> {{}, Pushed}]
      BY <3>3, <1>1, <1>2
    <3> QED
      BY <3>1, <3>2, <3>3, <3>4, <1>2, <1>3, WriteTyped
  <2> QED
    BY <2>1, <2>2
<1>9. CASE Classify(s)
  <2>1. Midway(s)
    BY <1>9 DEF Classify, Writes, Midway
  <2>2. CASE Goes(s, "rollback")
    BY <2>1, <2>2, <1>2, <1>6, <1>9 DEF Classify, Writes
  <2>3. CASE Goes(s, "adopt")
    BY <2>1, <2>3, <1>2, <1>6, <1>9 DEF Classify, Writes
  <2>4. CASE Goes(s, "absent")
    BY <2>1, <2>4, <1>2, <1>6, <1>9 DEF Classify, Writes
  <2>5. CASE Step(s, Next1(s, {})) /\ UNCHANGED faults
    BY <2>1, <2>5, <1>2, <1>7, <1>9 DEF Classify
  <2> QED
    BY <2>2, <2>3, <2>4, <2>5, <1>9 DEF Classify
<1>10. CASE Create(s)
  <2>1. Midway(s) /\ Here(s) \in Zones
    BY <1>1, <1>10 DEF Create, Writes, Midway
  <2>2. zone' \in [Zones -> Contents] /\ exposed' \subseteq Sessions
    BY <2>1, <1>2, <1>4, <1>5, <1>10 DEF Create
  <2> QED
    BY <2>1, <2>2, <1>2, <1>6, <1>10 DEF Create, Writes
<1>11. CASE LosesRace(s)
  <2> DEFINE n == [dns[s] EXCEPT !.races = dns[s].races + 1,
                     !.at = IF dns[s].races + 1 > 2 THEN "rollback" ELSE "write"]
  <2>1. /\ n \in DnsRecords /\ n.at \in {"rollback", "write"} /\ n.k = dns[s].k
        /\ n.fresh = dns[s].fresh /\ n.written = dns[s].written
    <3>1. dns[s].races + 1 \in Nat
      BY <1>1 DEF DnsRecords
    <3> DEFINE a == IF dns[s].races + 1 > 2 THEN "rollback" ELSE "write"
    <3>2. a \in {"rollback", "write"}
      OBVIOUS
    <3> HIDE DEF a
    <3>3. n = [dns[s] EXCEPT !.races = dns[s].races + 1, !.at = a]
      BY DEF a
    <3> HIDE DEF n
    <3> QED
      BY <3>1, <3>2, <3>3, <1>1 DEF DnsRecords
  <2>2. dns' = [dns EXCEPT ![s] = n] /\ Midway(s) /\ dns[s].at # "idle"
          /\ UNCHANGED <<zone, temp, journal, exposed, excused, faults>>
    BY <1>11 DEF LosesRace, Step, Writes, Midway
  <2> HIDE DEF n
  <2> QED
    BY <2>1, <2>2, <1>1, <1>2, <1>3, WriteTyped
<1>12. CASE CreateFails(s)
  BY <1>2, <1>6, <1>12 DEF CreateFails, Writes
<1>13. CASE Fill(s)
  <2>1. Midway(s) /\ Here(s) \in Zones
    BY <1>1, <1>13 DEF Fill, Writes, Midway
  <2>2. zone' \in [Zones -> Contents]
    BY <2>1, <1>2, <1>4, <1>13 DEF Fill
  <2> QED
    BY <2>1, <2>2, <1>2, <1>7, <1>13 DEF Fill
<1>14. CASE FillFails(s)
  <2>1. Midway(s) /\ Here(s) \in Zones
    BY <1>1, <1>14 DEF FillFails, Writes, Midway
  <2>2. zone' \in [Zones -> Contents]
    BY <2>1, <1>2, <1>4, <1>14 DEF FillFails
  <2>3. excused' \subseteq Sessions \X Zones
    BY <2>1, <1>2, <1>14 DEF FillFails
  <2> QED
    BY <2>1, <2>2, <2>3, <1>2, <1>6, <1>14 DEF FillFails, Writes
<1>15. CASE WriteTemp(s)
  <2>1. Midway(s) /\ Here(s) \in Zones
    BY <1>1, <1>15 DEF WriteTemp, Writes, Midway
  <2>2. temp' \subseteq Zones \X Sessions
    BY <2>1, <1>2, <1>15 DEF WriteTemp
  <2>3. CASE Goes(s, "rename")
    BY <2>1, <2>2, <2>3, <1>2, <1>6, <1>15 DEF WriteTemp, Writes
  <2>4. CASE Goes(s, "rollback")
    BY <2>1, <2>2, <2>4, <1>2, <1>6, <1>15 DEF WriteTemp, Writes
  <2> QED
    BY <2>3, <2>4, <1>15 DEF WriteTemp
<1>16. CASE Rename(s)
  <2>1. Midway(s) /\ Here(s) \in Zones /\ temp' \subseteq Zones \X Sessions
    BY <1>1, <1>2, <1>16 DEF Rename, Writes, Midway
  <2>2. CASE Goes(s, "rollback") /\ Fault /\ UNCHANGED <<zone, exposed>>
    BY <2>1, <2>2, <1>2, <1>6, <1>16 DEF Rename, Writes
  <2>3. CASE /\ zone' = [zone EXCEPT ![Here(s)] = Mark(s)]
             /\ Step(s, Next1(s, {})) /\ Exposes(s, Here(s)) /\ UNCHANGED faults
    <3>1. zone' \in [Zones -> Contents] /\ exposed' \subseteq Sessions
      BY <2>1, <2>3, <1>2, <1>4, <1>5
    <3> QED
      BY <2>1, <2>3, <3>1, <1>2, <1>7, <1>16 DEF Rename
  <2> QED
    BY <2>2, <2>3, <1>16 DEF Rename
<1>17. CASE RenameFails(s)
  BY <1>2, <1>6, <1>17 DEF RenameFails, Writes
<1>18. ASSUME NEW z \in Zones, Unlinks(s, z)
       PROVE  zone' \in [Zones -> Contents] /\ excused' \subseteq Sessions \X Zones
                /\ (Fault \/ UNCHANGED faults)
  BY <1>2, <1>4, <1>18 DEF Unlinks
<1>19. CASE RollBack(s)
  <2>1. PICK z \in ToRollBack(s) : Unlinks(s, z) /\
           Step(s, [dns[s] EXCEPT !.fresh = @ \ {z}, !.written = @ \ {z}])
    BY <1>19 DEF RollBack
  <2> DEFINE n == [dns[s] EXCEPT !.fresh = @ \ {z}, !.written = @ \ {z}]
  <2>2. z \in Zones
    BY <1>1 DEF ToRollBack, DnsRecords
  <2>3. /\ n \in DnsRecords /\ n.at = dns[s].at
        /\ n.fresh = dns[s].fresh \ {z} /\ n.written = dns[s].written \ {z}
    BY <1>1 DEF DnsRecords
  <2>4. dns' = [dns EXCEPT ![s] = n] /\ dns[s].at = "rollback" /\ UNCHANGED <<temp, journal, exposed>>
    BY <1>19, <2>1 DEF RollBack, Writes, Step
  <2> HIDE DEF n
  <2> QED
    BY <2>1, <2>2, <2>3, <2>4, <1>1, <1>2, <1>3, <1>18, WriteTyped
<1>20. CASE RolledBack(s)
  <2>1. journal' \in [Instances -> {{}, Pushed}] /\ excused' \subseteq Sessions \X Zones
    BY <1>1, <1>2, <1>20 DEF RolledBack, DnsRecords
  <2>2. dns' = [dns EXCEPT ![s] = Quiet] /\ stage[s] = "serving"
          /\ UNCHANGED <<zone, temp, exposed, faults>>
    BY <1>1, <1>20 DEF RolledBack, Writes, Step
  <2> QED
    BY <2>1, <2>2, <1>2, <1>3, QuietTyped, WriteTyped
<1>21. CASE Revert(s)
  BY <1>2, <1>6, <1>21 DEF Revert, Writes
<1>22. CASE RevertZone(s)
  <2>1. PICK z \in dns[s].written : Unlinks(s, z) /\
           Step(s, [dns[s] EXCEPT !.written = @ \ {z}, !.clean = @ /\ faults' = faults])
    BY <1>22 DEF RevertZone
  <2> DEFINE n == [dns[s] EXCEPT !.written = @ \ {z}, !.clean = @ /\ faults' = faults]
  <2>2. z \in Zones
    BY <1>1 DEF DnsRecords
  <2>3. /\ n \in DnsRecords /\ n.at = dns[s].at
        /\ n.fresh = dns[s].fresh /\ n.written = dns[s].written \ {z}
    BY <1>1 DEF DnsRecords
  <2>4. dns' = [dns EXCEPT ![s] = n] /\ dns[s].at = "revert" /\ UNCHANGED <<temp, journal, exposed>>
    BY <1>22, <2>1 DEF RevertZone, Writes, Step
  <2> HIDE DEF n
  <2> QED
    BY <2>1, <2>2, <2>3, <2>4, <1>1, <1>2, <1>3, <1>18, WriteTyped
<1>23. CASE Reverted(s)
  <2>1. journal' \in [Instances -> {{}, Pushed}] /\ UNCHANGED excused
    BY <1>1, <1>2, <1>23 DEF Reverted
  <2>2. dns' = [dns EXCEPT ![s] = Quiet] /\ stage[s] = "serving"
          /\ UNCHANGED <<zone, temp, exposed, faults>>
    BY <1>1, <1>23 DEF Reverted, Writes, Step
  <2> QED
    BY <2>1, <2>2, <1>2, <1>3, QuietTyped, WriteTyped
<1> QED
  BY <1>8, <1>9, <1>10, <1>11, <1>12, <1>13, <1>14, <1>15, <1>16, <1>17, <1>19, <1>20,
     <1>21, <1>22, <1>23 DEF WriteStep

LEMMA SocketKeepsTypes ==
  ASSUME TypeInv, NEW s \in Sessions, SocketStep(s)
  PROVE  TypeInv'
<1>1. /\ sock \in [Instances -> Sessions \union {NoSocket, Stale, Junk}]
      /\ stage \in [Sessions -> {"off", "starting", "stale", "free", "bound",
                                 "serving", "leaving", "left", "dead"}]
      /\ Own(s) \in Instances /\ exposed \subseteq Sessions
      /\ scan \in [Scanners -> ScanRecords] /\ sweep \in [Scanners -> SweepRecords]
      /\ dns \in [Sessions -> DnsRecords]
  BY DEF TypeInv, TypeOK, Named, Own
<1>2. UNCHANGED <<instance, zone, temp, journal, excused>>
  BY SocketFrame
<1>3. faults' \in 0 .. MaxFaults
  <2>1. Fault \/ UNCHANGED faults
    BY DEF SocketStep, Starts, Prepares, RemovesOld, Binds, Restricts, Leaves, RemovesOwn,
           Crashes, Start, Free, FindsStale, IsRefused, RemoveOld, Bind, BindFails, Restrict,
           RestrictFails, Leave, Unlink, Dies, Plainly, FaultIf, Fault, files
  <2> QED
    BY <2>1, FaultsBounded DEF TypeInv
<1>4. /\ sock' \in [Instances -> Sessions \union {NoSocket, Stale, Junk}]
      /\ exposed' \subseteq Sessions
      /\ stage' \in [Sessions -> {"off", "starting", "stale", "free", "bound",
                                 "serving", "leaving", "left", "dead"}]
  BY <1>1 DEF SocketStep, Starts, Prepares, RemovesOld, Binds, Restricts, Leaves, RemovesOwn,
         Crashes, Start, Free, FindsStale, IsRefused, RemoveOld, Bind, BindFails, Restrict,
         RestrictFails, Leave, Unlink, Dies, Plainly, Moves, Hides, Twins, StillSocket, files
<1>5. CASE Crashes(s)
  <2>1. /\ scan' = [scan EXCEPT ![s] = Unscanned] /\ dns' = [dns EXCEPT ![s] = Quiet]
        /\ sweep' = [sweep EXCEPT ![s] = Unswept] /\ stage' = [stage EXCEPT ![s] = "dead"]
    BY <1>5 DEF Crashes, Dies
  <2>2. Unscanned \in ScanRecords /\ Unswept \in SweepRecords /\ Quiet \in DnsRecords
    BY DEF Unscanned, Unswept, Quiet, ScanRecords, SweepRecords, DnsRecords
  <2>3. TypeOK'
    BY <2>1, <2>2, <1>1, <1>2, <1>3, <1>4 DEF TypeInv, TypeOK
  <2>4. ASSUME NEW t \in Sessions
        PROVE  /\ dns'[t] = IF t = s THEN Quiet ELSE dns[t]
               /\ t # s => stage'[t] = stage[t]
    BY <2>1, <1>1
  <2>5. PhaseInv'
    BY <2>4, QuietTyped DEF TypeInv, PhaseInv, Midway
  <2> QED
    BY <2>3, <2>5 DEF TypeInv
<1>6. CASE ~Crashes(s)
  <2>1. UNCHANGED <<dns, scan, sweep>>
    BY <1>6, SocketQuiet
  <2>2. TypeOK'
    BY <2>1, <1>2, <1>3, <1>4 DEF TypeInv, TypeOK
  <2>3. ASSUME NEW t \in Sessions, dns[t].at # "idle"
        PROVE  stage'[t] = "serving"
    <3>1. stage[t] = "serving"
      BY <2>3 DEF TypeInv, PhaseInv
    <3>2. t = s => ~Leaves(s)
      BY <2>3 DEF Leaves
    <3> QED
      BY <3>1, <3>2, <1>1, <1>6 DEF SocketStep, Starts, Prepares, RemovesOld, Binds, Restricts,
         Leaves, RemovesOwn, Start, Free, FindsStale, IsRefused, RemoveOld, Bind, BindFails,
         Restrict, RestrictFails, Leave, Unlink, Moves
  <2>4. PhaseInv'
    BY <2>1, <2>3 DEF TypeInv, PhaseInv, Midway
  <2> QED
    BY <2>2, <2>4 DEF TypeInv
<1> QED
  BY <1>5, <1>6

\* The sweep that Judge begins, by its scope and whether the directory was listed.
Found(x) == There \intersect (IF x \in Sessions THEN Portal ELSE Zones)
Judged(x, scope, listed) ==
  [sweep[x] EXCEPT !.at = "files", !.scope = scope,
     !.todo = IF listed THEN Found(x) ELSE {},
     !.passed = IF listed THEN {} ELSE Found(x),
     !.temps = IF listed /\ Blanket(x) THEN temp ELSE {}]
Judges(x, scope, listed) == Allowed(x, scope) /\ Continues(x, Judged(x, scope, listed))

LEMMA JudgeKind ==
  ASSUME NEW x, Judge(x), ~Finishes(x)
  PROVE  \E scope \in Scopes(x), listed \in BOOLEAN : Judges(x, scope, listed)
BY DEF Judge, Judges, Judged, Found

LEMMA JudgedFields ==
  ASSUME NEW x, sweep[x] \in SweepRecords, NEW scope, NEW listed \in BOOLEAN
  PROVE  LET r == Judged(x, scope, listed) IN
           /\ r.at = "files" /\ r.scope = scope /\ r.past = sweep[x].past
           /\ r.doomed = sweep[x].doomed /\ Found(x) \subseteq r.todo \union r.passed
<1> DEFINE a == IF listed THEN Found(x) ELSE {}
           b == IF listed THEN {} ELSE Found(x)
           c == IF listed /\ Blanket(x) THEN temp ELSE {}
<1>1. Found(x) \subseteq a \union b
  OBVIOUS
<1> HIDE DEF a, b, c
<1>2. LET r == [sweep[x] EXCEPT !.at = "files", !.scope = scope, !.todo = a, !.passed = b,
                                !.temps = c] IN
        /\ r.at = "files" /\ r.scope = scope /\ r.past = sweep[x].past
        /\ r.doomed = sweep[x].doomed /\ r.todo = a /\ r.passed = b
  BY DEF SweepRecords
<1> QED
  BY <1>1, <1>2 DEF Judged, a, b, c

LEMMA ScanKeepsTypes ==
  ASSUME TypeInv, NEW x \in Scanners, ScanStep(x)
  PROVE  TypeInv'
<1>1. UNCHANGED <<instance, sock, stage, dns, exposed, excused>>
  BY ScanFrame
<1>2. PhaseInv'
  BY <1>1 DEF TypeInv, PhaseInv, Midway
<1>3. /\ scan \in [Scanners -> ScanRecords] /\ sweep \in [Scanners -> SweepRecords]
      /\ zone \in [Zones -> Contents] /\ temp \subseteq Zones \X Sessions
      /\ journal \in [Instances -> {{}, Pushed}] /\ NoFile \in Contents
      /\ instance \in Named
      /\ scan[x] \in ScanRecords /\ sweep[x] \in SweepRecords
  BY DEF TypeInv, TypeOK, Contents
<1>4. SUFFICES /\ Fault \/ UNCHANGED faults
               /\ scan' \in [Scanners -> ScanRecords] /\ sweep' \in [Scanners -> SweepRecords]
               /\ zone' \in [Zones -> Contents] /\ temp' \subseteq Zones \X Sessions
               /\ journal' \in [Instances -> {{}, Pushed}]
  <2>1. (Fault \/ UNCHANGED faults) => faults' \in 0 .. MaxFaults
    BY FaultsBounded DEF TypeInv
  <2> QED
    BY <2>1, <1>1, <1>2 DEF TypeInv, TypeOK
<1>5. Unscanned \in ScanRecords /\ Unswept \in SweepRecords
  BY DEF Unscanned, Unswept, ScanRecords, SweepRecords
<1>6. ASSUME Forget(x) PROVE scan' \in [Scanners -> ScanRecords]
  BY <1>3, <1>5, <1>6 DEF Forget
<1>7. ASSUME Finishes(x)
      PROVE  scan' \in [Scanners -> ScanRecords] /\ sweep' \in [Scanners -> SweepRecords]
  <2>1. [Unswept EXCEPT !.at = "over"] \in SweepRecords
    BY DEF Unswept, SweepRecords
  <2> QED
    BY <2>1, <1>3, <1>6, <1>7 DEF Finishes, Sweeps
<1>8. ASSUME NEW r \in SweepRecords, Continues(x, r)
      PROVE  scan' \in [Scanners -> ScanRecords] /\ sweep' \in [Scanners -> SweepRecords]
  BY <1>3, <1>8 DEF Continues, Sweeps
<1>9. CASE BeginScan(x)
  <2>1. PICK complete \in BOOLEAN, found \in SUBSET Listed :
          /\ FaultIf(~complete)
          /\ scan' = [scan EXCEPT ![x] = [Unscanned EXCEPT !.open = TRUE,
                                            !.complete = complete, !.todo = found]]
    BY <1>9 DEF BeginScan, List
  <2>2. found \in SUBSET Instances
    BY DEF Listed
  <2>3. [Unscanned EXCEPT !.open = TRUE, !.complete = complete, !.todo = found] \in ScanRecords
    BY <2>2 DEF Unscanned, ScanRecords
  <2>4. PICK p \in SUBSET Sessions : Sweeps(x, [Unswept EXCEPT !.at = "scan", !.past = p])
    BY <1>9 DEF BeginScan
  <2>5. [Unswept EXCEPT !.at = "scan", !.past = p] \in SweepRecords
    BY DEF Unswept, SweepRecords
  <2> QED
    BY <2>1, <2>3, <2>4, <2>5, <1>3, <1>9 DEF BeginScan, InSweep, Sweeps, FaultIf
<1>10. CASE Probes(x)
  <2>1. PICK i \in scan[x].todo : \E v \in Verdicts(i) :
       /\ FaultIf(v = "unknown")
       /\ scan' = [scan EXCEPT ![x].todo = @ \ {i}, ![x].rows[i] = v]
    BY <1>10 DEF Probes, ProbeSocket
  <2>2. PICK v \in Verdicts(i) :
       /\ FaultIf(v = "unknown")
       /\ scan' = [scan EXCEPT ![x].todo = @ \ {i}, ![x].rows[i] = v]
    BY <2>1
  <2>3. v \in {"unlisted", "alive", "absent", "unknown"} /\ i \in Instances
    BY <2>1, <1>3 DEF Verdicts, ScanRecords
  <2>4. scan' \in [Scanners -> ScanRecords]
    BY <2>2, <2>3, <1>3 DEF ScanRecords
  <2> QED
    BY <2>2, <2>4, <1>3, <1>10 DEF Probes, InSweep, FaultIf
<1>11. CASE Judge(x)
  <2>1. Finishes(x) \/ \E r \in SweepRecords : Continues(x, r)
    <3>1. SUFFICES ASSUME ~Finishes(x)
                   PROVE  \E r \in SweepRecords : Continues(x, r)
      OBVIOUS
    <3>2. PICK scope \in Scopes(x), listed \in BOOLEAN : Judges(x, scope, listed)
      BY <3>1, <1>11, JudgeKind
    <3> DEFINE r == Judged(x, scope, listed)
    <3>3. scope \in SUBSET Instances
      BY <1>3 DEF Scopes, Own, Named
    <3>4. r \in SweepRecords
      BY <3>3, <1>3 DEF SweepRecords, Judged, Found, There
    <3> QED
      BY <3>2, <3>4 DEF Judges
  <2>2. UNCHANGED <<zone, temp, journal, exposed, excused>> /\ (Fault \/ UNCHANGED faults)
    BY <1>11 DEF Judge, InSweep, FaultIf
  <2> QED
    BY <2>1, <2>2, <1>3, <1>7, <1>8, <1>11 DEF Judge, InSweep
<1>12. CASE Reads(x) /\ UNCHANGED journal
  <2>3. Batches(x) \subseteq SUBSET Zones
    BY <1>3 DEF Batches, SweepRecords
  <2>1. PICK Z \in SUBSET Zones, doomed \in SUBSET Zones, unread \in SUBSET Zones :
       /\ FaultIf(unread # {})
       /\ Continues(x, [sweep[x] EXCEPT !.todo = @ \ Z, !.doomed = doomed,
                                        !.passed = @ \union unread])
    BY <2>3, <1>12 DEF Reads
  <2> DEFINE r == [sweep[x] EXCEPT !.todo = @ \ Z, !.doomed = doomed,
                                        !.passed = @ \union unread]
  <2>2. r \in SweepRecords
    BY <1>3 DEF SweepRecords
  <2> HIDE DEF r
  <2> QED
    BY <2>1, <2>2, <1>3, <1>8, <1>12 DEF Reads, FaultIf, r
<1>13. CASE (\E z \in Zones : Removes(x, z)) /\ UNCHANGED journal
  <2>1. PICK z \in Zones : Removes(x, z)
    BY <1>13
  <2>2. [sweep[x] EXCEPT !.doomed = @ \ {z}] \in SweepRecords
    BY <1>3 DEF SweepRecords
  <2>3. [sweep[x] EXCEPT !.doomed = @ \ {z}, !.flawed = TRUE] \in SweepRecords
    BY <1>3 DEF SweepRecords
  <2> QED
    BY <2>1, <2>2, <2>3, <1>3, <1>8, <1>13 DEF Removes
<1>14. CASE RemovesTemp(x) /\ UNCHANGED journal
  <2>1. PICK t \in sweep[x].temps :
          \/ /\ Continues(x, [sweep[x] EXCEPT !.temps = @ \ {t}])
             /\ temp' = temp \ {t} /\ UNCHANGED faults
          \/ /\ Continues(x, [sweep[x] EXCEPT !.temps = @ \ {t}, !.flawed = TRUE])
             /\ UNCHANGED temp /\ Fault
    BY <1>14 DEF RemovesTemp
  <2> DEFINE r == [sweep[x] EXCEPT !.temps = @ \ {t}]
             q == [sweep[x] EXCEPT !.temps = @ \ {t}, !.flawed = TRUE]
  <2>2. r \in SweepRecords /\ q \in SweepRecords
    BY <1>3 DEF SweepRecords
  <2>5. Continues(x, r) \/ Continues(x, q)
    BY <2>1
  <2> HIDE DEF r, q
  <2>3. scan' \in [Scanners -> ScanRecords] /\ sweep' \in [Scanners -> SweepRecords]
    BY <2>2, <2>5, <1>8
  <2>4. UNCHANGED <<zone, journal>> /\ temp' \subseteq temp /\ (Fault \/ UNCHANGED faults)
    BY <2>1, <1>14 DEF RemovesTemp
  <2> QED
    BY <2>3, <2>4, <1>3
<1>15. CASE FilesDone(x) /\ UNCHANGED journal
  <2>3. Finishes(x) \/ \E r \in SweepRecords : Continues(x, r)
    <3>1. ASSUME NEW jobs \in SUBSET Instances, NEW told \in BOOLEAN
          PROVE  [sweep[x] EXCEPT !.at = "journals", !.jobs = jobs, !.flawed = @ \/ told]
                   \in SweepRecords
      BY <1>3 DEF SweepRecords
    <3> QED
      BY <3>1, <1>15 DEF FilesDone
  <2>4. UNCHANGED <<zone, temp, journal>> /\ (Fault \/ UNCHANGED faults)
    BY <1>15 DEF FilesDone, FaultIf
  <2>5. scan' \in [Scanners -> ScanRecords] /\ sweep' \in [Scanners -> SweepRecords]
    BY <2>3, <1>7, <1>8
  <2> QED
    BY <2>4, <2>5, <1>3
<1>16. CASE Consults(x)
  <2>1. PICK i \in sweep[x].jobs, kept \in SUBSET Zones :
       /\ FaultIf(kept # {})
       /\ zone' = [z \in Zones |-> IF z \in StillOurs(i) \ kept THEN NoFile ELSE zone[z]]
       /\ journal' = IF Blanket(x) THEN [journal EXCEPT ![i] = {}] ELSE journal
       /\ Continues(x, [sweep[x] EXCEPT !.jobs = @ \ {i}])
    BY <1>16 DEF Consults
  <2> DEFINE r == [sweep[x] EXCEPT !.jobs = @ \ {i}]
  <2>2. r \in SweepRecords /\ i \in Instances
    BY <1>3 DEF SweepRecords
  <2>3. zone' \in [Zones -> Contents] /\ journal' \in [Instances -> {{}, Pushed}]
    BY <2>1, <2>2, <1>3
  <2>4. Continues(x, r)
    BY <2>1
  <2> HIDE DEF r
  <2> QED
    BY <2>1, <2>2, <2>3, <2>4, <1>3, <1>8, <1>16 DEF Consults, FaultIf
<1>17. CASE SweepEnds(x)
  BY <1>3, <1>7, <1>17 DEF SweepEnds
<1> QED
  BY <1>9, <1>10, <1>11, <1>12, <1>13, <1>14, <1>15, <1>16, <1>17 DEF ScanStep, SweepStep

LEMMA InitTyped ==
  ASSUME Init
  PROVE  TypeInv
<1>1. PICK b \in Beginnings :
           /\ instance = b.instance /\ sock = b.sock /\ zone = b.zone
           /\ stage = [s \in Sessions |-> IF s \in b.who THEN "off" ELSE "left"]
           /\ sweep = [x \in Scanners |-> IF x \in b.who THEN Unswept
                                          ELSE [Unswept EXCEPT !.at = "over"]]
  BY DEF Init
<1>2. /\ instance \in Named /\ sock \in OldSockets /\ zone \in OldFiles
  BY <1>1, BeginningsAssumption
<1>3. /\ Unswept \in SweepRecords /\ [Unswept EXCEPT !.at = "over"] \in SweepRecords
      /\ Unscanned \in ScanRecords
  BY DEF Unswept, SweepRecords, Unscanned, ScanRecords
<1>4. zone \in [Zones -> Contents] /\ sock \in [Instances -> Sessions \union {NoSocket, Stale, Junk}]
  BY <1>2 DEF OldFiles, OldSockets, Contents, Past
<1>5. /\ scan = [x \in Scanners |-> Unscanned] /\ faults = 0 /\ temp = {} /\ exposed = {}
      /\ excused = {} /\ journal = [i \in Instances |-> {}]
      /\ dns = [s \in Sessions |-> Quiet]
  BY DEF Init, SocketInit
<1>6. TypeOK
  BY <1>1, <1>2, <1>3, <1>4, <1>5, QuietTyped, FaultsAssumption DEF TypeOK
<1>7. PhaseInv
  BY <1>5, QuietTyped DEF PhaseInv, Midway
<1> QED
  BY <1>6, <1>7 DEF TypeInv

LEMMA NextTyped ==
  ASSUME TypeInv, Next
  PROVE  TypeInv'
  BY WriteKeepsTypes, SocketKeepsTypes, ScanKeepsTypes DEF Next

\* Every variable keeps its type.
THEOREM ResolverTyping == Spec => []TypeOK
<1>1. Init => TypeInv
  BY InitTyped
<1>2. TypeInv /\ [Next]_vars => TypeInv'
  BY NextTyped DEF vars, TypeInv, TypeOK, PhaseInv, Midway
<1>3. TypeInv => TypeOK
  BY DEF TypeInv
<1> QED
  BY <1>1, <1>2, <1>3, PTL DEF Spec

(***************************************************************************)
(* The invariants.  Safe sessions serve and are not exposed.               *)
(***************************************************************************)
Safe(s) == Listening(s) /\ s \notin exposed

\* Every zone before the current one has been written.
ProgressInv ==
  \A s \in Sessions :
    /\ Midway(s) => \A j \in DOMAIN Split : j < dns[s].k => Split[j] \in dns[s].written
    /\ dns[s].at = "up" => Pushed \subseteq dns[s].written

\* Who wrote a file, and when it may still lie there.
AuthorOK(s, z) ==
  zone[z].by = s =>
    /\ zone[z] \in {Mark(s), Empty(s)}
    /\ stage[s] \in {"serving", "leaving", "left", "dead"}
    /\ \/ z \in dns[s].written \/ (dns[s].at = "fill" /\ z = Here(s))
       \/ stage[s] = "dead" \/ <<s, z>> \in excused
AuthorInv == \A s \in Sessions, z \in Zones : AuthorOK(s, z)

\* A safe session is the one its path leads to.
AloneOK(s) == Safe(s) => /\ sock[Own(s)] = s
                         /\ \A r \in Sessions \ {s} : Listening(r) => Own(r) # Own(s)
AloneInv == \A s \in Sessions : AloneOK(s)

\* A sweep goes by the scan that licensed it.
SweepOK(x) ==
  /\ (~Sweeping(x)) => scan[x] = Unscanned
  /\ Sweeping(x) => scan[x].open
  /\ sweep[x].at # "files" => sweep[x].doomed = {}
  /\ sweep[x].at \in {"files", "journals"} =>
       (scan[x].todo = {} /\ Allowed(x, sweep[x].scope) /\ sweep[x].scope \in Scopes(x))
  /\ sweep[x].at = "journals" =>
       (x \in Recoveries /\ sweep[x].jobs \subseteq sweep[x].scope /\ sweep[x].todo = {})
  /\ (x \in Sessions /\ stage[x] # "off") => ~Sweeping(x)
SweepInv == \A x \in Scanners : SweepOK(x)

\* No scan in use takes a safe session for gone.
Seen(x, i) == \/ i \in scan[x].todo
              \/ scan[x].rows[i] \in {"alive", "unknown"}
              \/ scan[x].rows[i] = "unlisted" /\ ~scan[x].complete
SeenOK(s, x) == (Safe(s) /\ Sweeping(x)) => Seen(x, Own(s))
SeenInv == \A s \in Sessions, x \in Scanners : SeenOK(s, x)

\* What a safe session wrote is there, and nobody is about to take it.
Untouched(s, z) == /\ \A x \in Scanners : z \notin sweep[x].doomed
                   /\ \A r \in Sessions \ {s} : z \notin Claims(r)
ZoneOK(s) ==
  Safe(s) =>
    /\ \A z \in dns[s].written : zone[z] = Mark(s)
    /\ dns[s].at = "fill" => (zone[Here(s)] = Empty(s))
    /\ \A z \in Zones : zone[z].by = s => Untouched(s, z)
ZoneInv == \A s \in Sessions : ZoneOK(s)

\* What an ended session left is still ahead of a recover, was passed over, or is
\* behind an error.
Leftover(x, z) == /\ zone[z].is = "mark" /\ zone[z].of \in sweep[x].scope
                  /\ zone[z].by \in sweep[x].past \union {"past"}
Minded(x) == sweep[x].todo \union sweep[x].doomed \union sweep[x].passed
ThoroughOK(x) ==
  /\ Sweeping(x) => (\A s \in sweep[x].past : Ended(s))
  /\ sweep[x].at \in {"files", "journals"} => (sweep[x].flawed \/
      \A z \in Zones : Leftover(x, z) => z \in Minded(x))
ThoroughInv == \A x \in Recoveries : ThoroughOK(x)

Base == TypeInv /\ SweepInv /\ AloneInv /\ SeenInv

(***************************************************************************)
(* Sweeps and the scans they go by.                                        *)
(***************************************************************************)
\* What a sweep's standing depends on.
LEMMA SweepFrame ==
  ASSUME NEW x \in Scanners, SweepOK(x), UNCHANGED instance,
         sweep'[x] = sweep[x], scan'[x] = scan[x],
         (x \in Sessions /\ stage'[x] # "off") => ~Sweeping(x)
  PROVE  SweepOK(x)'
  BY DEF SweepOK, Sweeping, Allowed, Scopes, Blanket, OwnAbsent, ProvablyDead, NoEndpoint, Own

LEMMA SweepsKept ==
  ASSUME TypeInv, SweepInv, Next
  PROVE  SweepInv'
<1> SUFFICES ASSUME NEW x \in Scanners PROVE SweepOK(x)'
  BY DEF SweepInv
<1>1. /\ SweepOK(x) /\ scan \in [Scanners -> ScanRecords] /\ sweep \in [Scanners -> SweepRecords]
      /\ stage \in [Sessions -> {"off", "starting", "stale", "free", "bound",
                                 "serving", "leaving", "left", "dead"}]
      /\ sweep[x] \in SweepRecords /\ scan[x] \in ScanRecords
  BY DEF SweepInv, TypeInv, TypeOK
<1>2. ASSUME NEW s \in Sessions, WriteStep(s) PROVE SweepOK(x)'
  <2>1. UNCHANGED <<instance, sock, stage, scan, sweep>>
    BY <1>2, WriteFrame
  <2> QED
    BY <2>1, <1>1, SweepFrame DEF SweepOK
<1>3. ASSUME NEW s \in Sessions, SocketStep(s) PROVE SweepOK(x)'
  <2>0. UNCHANGED instance
    BY <1>3, SocketFrame
  <2>1. CASE Crashes(s)
    <3>1. /\ scan' = [scan EXCEPT ![s] = Unscanned] /\ sweep' = [sweep EXCEPT ![s] = Unswept]
          /\ stage' = [stage EXCEPT ![s] = "dead"]
      BY <2>1 DEF Crashes, Dies
    <3>2. CASE x = s
      <4>1. sweep'[x] = Unswept /\ scan'[x] = Unscanned
        BY <3>1, <3>2, <1>1
      <4> QED
        BY <4>1 DEF SweepOK, Sweeping, Unswept
    <3>3. CASE x # s
      <4>1. sweep'[x] = sweep[x] /\ scan'[x] = scan[x] /\ (x \in Sessions => stage'[x] = stage[x])
        BY <3>1, <3>3, <1>1
      <4> QED
        BY <4>1, <2>0, <1>1, SweepFrame DEF SweepOK
    <3> QED
      BY <3>2, <3>3
  <2>2. CASE ~Crashes(s)
    <3>1. UNCHANGED <<dns, scan, sweep>>
      BY <2>2, <1>3, SocketQuiet
    <3>2. ASSUME x \in Sessions, stage'[x] # "off" PROVE ~Sweeping(x)
      <4>1. CASE stage[x] # "off"
        BY <4>1, <3>2, <1>1 DEF SweepOK
      <4>2. CASE stage[x] = "off"
        <5>1. x = s /\ Starts(s)
          BY <4>2, <3>2, <2>2, <1>1, <1>3 DEF SocketStep, Starts, Prepares, RemovesOld, Binds,
             Restricts, Leaves, RemovesOwn, Start, Free, FindsStale, IsRefused, RemoveOld, Bind,
             BindFails, Restrict, RestrictFails, Leave, Unlink, Moves
        <5> QED
          BY <5>1 DEF Starts, Sweeping
      <4> QED
        BY <4>1, <4>2
    <3> QED
      BY <3>1, <3>2, <2>0, <1>1, SweepFrame
  <2> QED
    BY <2>1, <2>2
<1>4. ASSUME NEW y \in Scanners, ScanStep(y) PROVE SweepOK(x)'
  <2>1. UNCHANGED <<instance, sock, stage, dns, exposed, excused>>
    BY <1>4, ScanFrame
  <2>2. ASSUME sweep'[x] = sweep[x], scan'[x] = scan[x] PROVE SweepOK(x)'
    BY <2>1, <2>2, <1>1, SweepFrame DEF SweepOK
  <2>3. ASSUME NEW r, Continues(y, r) PROVE sweep' = [sweep EXCEPT ![y] = r] /\ UNCHANGED scan
    BY <2>3 DEF Continues, Sweeps
  <2>4. CASE y # x
    BY <2>2, <2>4, <1>1, <1>4 DEF ScanStep, BeginScan, List, Probes, ProbeSocket, Judge, SweepStep,
       Reads, Removes, RemovesTemp, FilesDone, Consults, SweepEnds, Finishes, Forget, Continues,
       Sweeps
  <2>5. ASSUME Finishes(x) PROVE SweepOK(x)'
    <3>1. scan'[x] = Unscanned /\ sweep'[x] = [Unswept EXCEPT !.at = "over"]
      BY <2>5, <1>1 DEF Finishes, Forget, Sweeps
    <3> QED
      BY <3>1 DEF SweepOK, Sweeping, Unswept
  <2>6. CASE y = x /\ BeginScan(x)
    <3>1. scan'[x].open
      BY <2>6, <1>1 DEF BeginScan, List, Unscanned
    <3>2. sweep'[x].at = "scan" /\ sweep'[x].doomed = {}
      BY <2>6, <1>1 DEF BeginScan, Sweeps, Unswept
    <3>3. x \in Sessions => stage'[x] = "off"
      BY <2>6 DEF BeginScan, InSweep
    <3> QED
      BY <3>1, <3>2, <3>3 DEF SweepOK, Sweeping
  <2>7. CASE y = x /\ Probes(x)
    <3>1. scan'[x].open = scan[x].open
      BY <2>7, <1>1 DEF Probes, ProbeSocket, ScanRecords
    <3>2. sweep[x].at = "scan" /\ UNCHANGED sweep /\ (x \in Sessions => stage[x] = "off")
      BY <2>7 DEF Probes, InSweep
    <3> QED
      BY <3>1, <3>2, <2>1, <1>1 DEF SweepOK, Sweeping
  <2>8. CASE y = x /\ Judge(x)
    <3>1. CASE Finishes(x)
      BY <3>1, <2>5
    <3>2. CASE ~Finishes(x)
      <4>0. PICK scope \in Scopes(x), listed \in BOOLEAN : Judges(x, scope, listed)
        BY <3>2, <2>8, JudgeKind
      <4>1. /\ sweep'[x].at = "files" /\ sweep'[x].scope = scope
            /\ UNCHANGED scan
        BY <4>0, <1>1, JudgedFields DEF Judges, Continues, Sweeps
      <4>2. scan[x].open /\ scan[x].todo = {} /\ (x \in Sessions => stage[x] = "off")
        BY <2>8 DEF Judge, Scanned, InSweep
      <4>3. Allowed(x, scope)'
        BY <4>0, <4>1, <2>1 DEF Judges, Allowed, Blanket, OwnAbsent, ProvablyDead, NoEndpoint
      <4>4. scope \in Scopes(x)'
        BY <2>1 DEF Scopes, Own
      <4>5. sweep'[x].doomed = sweep[x].doomed
        BY <4>0, <1>1, JudgedFields DEF Judges, Continues, Sweeps
      <4> QED
        BY <4>1, <4>2, <4>3, <4>4, <4>5, <2>1 DEF SweepOK, Sweeping
    <3> QED
      BY <3>1, <3>2
  <2>9. CASE y = x /\ SweepStep(x)
    <3>1. x \in Sessions => stage[x] = "off"
      BY <2>9 DEF SweepStep
    <3>2. CASE Finishes(x)
      BY <3>2, <2>5
    <3>3. ASSUME UNCHANGED scan, sweep[x].at = "files", sweep'[x].at = "files",
                 sweep'[x].scope = sweep[x].scope
          PROVE  SweepOK(x)'
      BY <3>1, <3>3, <2>1, <1>1 DEF SweepOK, Sweeping, Allowed, Scopes, Blanket, OwnAbsent,
         ProvablyDead, NoEndpoint, Own
    <3>4. CASE Reads(x)
      <4>1. PICK Z, doomed, unread : Continues(x, [sweep[x] EXCEPT !.todo = @ \ Z,
                                      !.doomed = doomed, !.passed = @ \union unread])
        BY <3>4 DEF Reads
      <4> DEFINE r == [sweep[x] EXCEPT !.todo = @ \ Z, !.doomed = doomed,
                                       !.passed = @ \union unread]
      <4>3. r.at = sweep[x].at /\ r.scope = sweep[x].scope
        BY <1>1 DEF SweepRecords
      <4>4. Continues(x, r)
        BY <4>1
      <4> HIDE DEF r
      <4>2. UNCHANGED scan /\ sweep'[x].at = sweep[x].at /\ sweep'[x].scope = sweep[x].scope
        BY <4>3, <4>4, <1>1 DEF Continues, Sweeps
      <4> QED
        BY <4>2, <3>3, <3>4 DEF Reads
    <3>5. CASE \E z \in Zones : Removes(x, z)
      <4>1. PICK z \in Zones : Removes(x, z)
        BY <3>5
      <4> DEFINE r == [sweep[x] EXCEPT !.doomed = @ \ {z}]
                 q == [sweep[x] EXCEPT !.doomed = @ \ {z}, !.flawed = TRUE]
      <4>4. Continues(x, r) \/ Continues(x, q)
        BY <4>1 DEF Removes
      <4>5. r.at = sweep[x].at /\ r.scope = sweep[x].scope /\ q.at = r.at /\ q.scope = r.scope
        BY <1>1 DEF SweepRecords
      <4> HIDE DEF r, q
      <4>2. UNCHANGED scan /\ sweep'[x].at = sweep[x].at /\ sweep'[x].scope = sweep[x].scope
        BY <4>4, <4>5, <1>1 DEF Continues, Sweeps
      <4>3. sweep[x].at = "files"
        BY <4>1, <1>1 DEF Removes, SweepOK
      <4> QED
        BY <4>2, <4>3, <3>3
    <3>6. CASE RemovesTemp(x)
      <4>1. PICK t : \/ Continues(x, [sweep[x] EXCEPT !.temps = @ \ {t}])
                     \/ Continues(x, [sweep[x] EXCEPT !.temps = @ \ {t}, !.flawed = TRUE])
        BY <3>6 DEF RemovesTemp
      <4> DEFINE r == [sweep[x] EXCEPT !.temps = @ \ {t}]
                 q == [sweep[x] EXCEPT !.temps = @ \ {t}, !.flawed = TRUE]
      <4>3. r.at = sweep[x].at /\ r.scope = sweep[x].scope /\ q.at = r.at /\ q.scope = r.scope
        BY <1>1 DEF SweepRecords
      <4>4. Continues(x, r) \/ Continues(x, q)
        BY <4>1
      <4> HIDE DEF r, q
      <4>2. UNCHANGED scan /\ sweep'[x].at = sweep[x].at /\ sweep'[x].scope = sweep[x].scope
        BY <4>3, <4>4, <1>1 DEF Continues, Sweeps
      <4> QED
        BY <4>2, <3>3, <3>6 DEF RemovesTemp
    <3>7. CASE FilesDone(x) /\ ~Finishes(x)
      <4>1. PICK j \in SUBSET Instances, told \in BOOLEAN :
              /\ Continues(x, [sweep[x] EXCEPT !.at = "journals", !.jobs = j,
                                              !.flawed = @ \/ told])
              /\ j \subseteq sweep[x].scope
        BY <3>7 DEF FilesDone
      <4>2. j \subseteq sweep[x].scope
        BY <4>1
      <4>3. /\ UNCHANGED scan /\ sweep'[x].at = "journals" /\ sweep'[x].scope = sweep[x].scope
            /\ sweep'[x].jobs = j /\ sweep'[x].todo = sweep[x].todo
            /\ sweep'[x].doomed = sweep[x].doomed
        BY <4>1, <1>1 DEF Continues, Sweeps, SweepRecords
      <4>4. sweep[x].at = "files" /\ sweep[x].todo = {} /\ sweep[x].doomed = {} /\ x \in Recoveries
        BY <3>7 DEF FilesDone, Handled, Scanners
      <4> QED
        BY <4>2, <4>3, <4>4, <3>1, <2>1, <1>1 DEF SweepOK, Sweeping, Allowed, Scopes, Blanket,
           OwnAbsent, ProvablyDead, NoEndpoint, Own
    <3>8. CASE Consults(x)
      <4>1. PICK i, kept : Continues(x, [sweep[x] EXCEPT !.jobs = @ \ {i}])
        BY <3>8 DEF Consults
      <4>2. /\ UNCHANGED scan /\ sweep'[x].at = sweep[x].at /\ sweep'[x].scope = sweep[x].scope
            /\ sweep'[x].jobs \subseteq sweep[x].jobs /\ sweep'[x].todo = sweep[x].todo
            /\ sweep'[x].doomed = sweep[x].doomed
        BY <4>1, <1>1 DEF Continues, Sweeps, SweepRecords
      <4>3. sweep[x].at = "journals"
        BY <3>8 DEF Consults
      <4> QED
        BY <4>2, <4>3, <3>1, <2>1, <1>1 DEF SweepOK, Sweeping, Allowed, Scopes, Blanket,
           OwnAbsent, ProvablyDead, NoEndpoint, Own
    <3>9. CASE SweepEnds(x)
      BY <3>9, <2>5 DEF SweepEnds
    <3> QED
      BY <3>2, <3>4, <3>5, <3>6, <3>7, <3>8, <3>9, <2>9 DEF SweepStep
  <2> QED
    BY <2>4, <2>6, <2>7, <2>8, <2>9, <1>4 DEF ScanStep
<1> QED
  BY <1>2, <1>3, <1>4 DEF Next

(***************************************************************************)
(* Sockets and scans.                                                      *)
(***************************************************************************)
\* A session becomes safe only by binding its path, alone and unobserved.
LEMMA SafeBefore ==
  ASSUME TypeInv, Next, NEW s \in Sessions, Safe(s)'
  PROVE  Safe(s) \/ (Binds(s) /\ Twins(s) = {} /\ ~Missed(s))
<1>1. /\ stage \in [Sessions -> {"off", "starting", "stale", "free", "bound",
                                 "serving", "leaving", "left", "dead"}]
      /\ Listening(s)' /\ s \notin exposed'
  BY DEF TypeInv, TypeOK, Safe
<1>2. CASE \E t \in Sessions : WriteStep(t)
  BY <1>1, <1>2, WriteFrame, WriteExposes DEF Safe, Listening
<1>3. CASE \E x \in Scanners : ScanStep(x)
  BY <1>1, <1>3, ScanFrame DEF Safe, Listening
<1>4. ASSUME NEW t \in Sessions, SocketStep(t)
      PROVE  Safe(s) \/ (Binds(s) /\ Twins(s) = {} /\ ~Missed(s))
  <2>1. CASE Binds(t)
    BY <2>1, <1>1 DEF Binds, Bind, Moves, Safe, Listening
  <2>2. CASE ~Binds(t)
    <3>1. s \notin exposed \/ stage'[s] \in {"leaving", "dead"}
      BY <2>2, <1>1, <1>4 DEF SocketStep, Starts, Prepares, RemovesOld, Restricts, Leaves,
         RemovesOwn, Crashes, Leave, Moves, Dies, files
    <3>2. Listening(s) \/ stage'[s] \notin {"bound", "serving"}
      BY <2>2, <1>1, <1>4 DEF SocketStep, Starts, Prepares, RemovesOld, Restricts, Leaves,
         RemovesOwn, Crashes, Start, Free, FindsStale, IsRefused, RemoveOld, BindFails,
         Restrict, RestrictFails, Leave, Unlink, Dies, Moves, Listening
    <3> QED
      BY <3>1, <3>2, <1>1 DEF Safe, Listening
  <2> QED
    BY <2>1, <2>2
<1> QED
  BY <1>2, <1>3, <1>4 DEF Next

LEMMA AlonesKept ==
  ASSUME TypeInv, AloneInv, Next
  PROVE  AloneInv'
<1> SUFFICES ASSUME NEW s \in Sessions, Safe(s)'
             PROVE  /\ sock'[Own(s)] = s /\ Own(s)' = Own(s)
                    /\ \A r \in Sessions \ {s} : Listening(r)' => Own(r) # Own(s)
  <2>1. UNCHANGED instance
    BY WriteFrame, ScanFrame, SocketFrame DEF Next
  <2> QED
    BY <2>1 DEF AloneInv, AloneOK, Own
<1>1. /\ stage \in [Sessions -> {"off", "starting", "stale", "free", "bound",
                                 "serving", "leaving", "left", "dead"}]
      /\ sock \in [Instances -> Sessions \union {NoSocket, Stale, Junk}]
      /\ \A t \in Sessions : Own(t) \in Instances
      /\ NoSocket \notin Sessions
  BY SocketAssumption DEF TypeInv, TypeOK, Own, Named, NoSocket
<1>2. UNCHANGED instance /\ Own(s)' = Own(s)
  BY WriteFrame, ScanFrame, SocketFrame DEF Next, Own
<1>3. Safe(s) \/ (Binds(s) /\ Twins(s) = {} /\ ~Missed(s))
  BY SafeBefore
<1>4. CASE Binds(s)
  BY <1>1, <1>2, <1>3, <1>4 DEF Binds, Bind, Moves, Twins, Listening, Safe, AloneInv, AloneOK
<1>5. CASE ~Binds(s) /\ Safe(s)
  <2>1. /\ sock[Own(s)] = s /\ Listening(s) /\ s \notin exposed
        /\ \A r \in Sessions \ {s} : Listening(r) => Own(r) # Own(s)
    BY <1>5 DEF AloneInv, AloneOK, Safe
  <2>2. CASE \E t \in Sessions : WriteStep(t)
    BY <2>1, <2>2, <1>2, WriteFrame DEF Listening
  <2>3. CASE \E x \in Scanners : ScanStep(x)
    BY <2>1, <2>3, <1>2, ScanFrame DEF Listening
  <2>4. ASSUME NEW t \in Sessions, SocketStep(t)
        PROVE  /\ sock'[Own(s)] = s
               /\ \A r \in Sessions \ {s} : Listening(r)' => Own(r) # Own(s)
    <3>1. ASSUME NEW r \in Sessions, Listening(r)', ~Listening(r) PROVE t = r /\ Binds(t)
      BY <3>1, <2>4, <1>1 DEF SocketStep, Starts, Prepares, RemovesOld, Restricts, Leaves,
         RemovesOwn, Crashes, Start, Free, FindsStale, IsRefused, RemoveOld, BindFails,
         Restrict, RestrictFails, Leave, Unlink, Dies, Moves, Listening, Binds, Bind
    <3>2. ASSUME Binds(t) PROVE Own(t) # Own(s)
      BY <3>2, <2>1, <1>1 DEF Binds, Bind
    <3>3. \A r \in Sessions \ {s} : Listening(r)' => Own(r) # Own(s)
      BY <3>1, <3>2, <2>1
    <3>4. s \notin exposed'
      BY DEF Safe
    <3>5. sock'[Own(s)] = s
      <4>1. CASE RemovesOld(t)
        <5>1. s \notin Hides(t) /\ s # t
          BY <4>1, <3>4, <2>1 DEF RemovesOld, RemoveOld, Moves, Listening
        <5>2. Own(s) # Own(t)
          BY <5>1, <2>1 DEF Hides, Reachable
        <5> QED
          BY <4>1, <5>2, <2>1, <1>1 DEF RemovesOld, RemoveOld
      <4>2. CASE RemovesOwn(t)
        <5>1. s \notin Hides(t) /\ s # t
          BY <4>2, <3>4, <2>1 DEF RemovesOwn, Unlink, Moves, Listening
        <5>2. Own(s) # Own(t)
          BY <5>1, <2>1 DEF Hides, Reachable
        <5> QED
          BY <4>2, <5>2, <2>1, <1>1 DEF RemovesOwn, Unlink
      <4>3. CASE Binds(t)
        BY <4>3, <3>2, <2>1, <1>1 DEF Binds, Bind
      <4>4. CASE ~RemovesOld(t) /\ ~RemovesOwn(t) /\ ~Binds(t)
        BY <4>4, <2>1, <2>4 DEF SocketStep, Starts, Prepares, Restricts, Leaves, Crashes, Start,
           Free, FindsStale, IsRefused, BindFails, Restrict, RestrictFails, Leave, Dies, Plainly
      <4> QED
        BY <4>1, <4>2, <4>3, <4>4
    <3> QED
      BY <3>3, <3>5
  <2> QED
    BY <2>2, <2>3, <2>4, <1>2 DEF Next
<1> QED
  BY <1>3, <1>4, <1>5

LEMMA SeensKept ==
  ASSUME TypeInv, SweepInv, AloneInv, SeenInv, Next
  PROVE  SeenInv'
<1> SUFFICES ASSUME NEW s \in Sessions, NEW x \in Scanners, Safe(s)', Sweeping(x)'
             PROVE  Seen(x, Own(s))'
  BY DEF SeenInv, SeenOK
<1>1. /\ stage \in [Sessions -> {"off", "starting", "stale", "free", "bound",
                                 "serving", "leaving", "left", "dead"}]
      /\ scan \in [Scanners -> ScanRecords] /\ sweep \in [Scanners -> SweepRecords]
      /\ scan[x] \in ScanRecords /\ Own(s) \in Instances
      /\ SweepOK(x)
  BY DEF TypeInv, TypeOK, Own, Named, SweepInv
<1>2. UNCHANGED instance /\ Own(s)' = Own(s)
  BY WriteFrame, ScanFrame, SocketFrame DEF Next, Own
<1>3. Safe(s) \/ (Binds(s) /\ Twins(s) = {} /\ ~Missed(s))
  BY SafeBefore
<1>4. CASE Binds(s)
  <2>1. UNCHANGED <<scan, sweep>> /\ stage[s] = "free"
    BY <1>4 DEF Binds, Bind, Moves, StillSocket
  <2>2. Sweeping(x)
    BY <2>1 DEF Sweeping
  <2>3. x # s
    BY <2>1, <2>2, <1>1 DEF SweepOK
  <2>4. ~Safe(s)
    BY <2>1 DEF Safe, Listening
  <2> QED
    BY <2>2, <2>3, <2>4, <1>3 DEF Missed
<1>5. ASSUME Safe(s), sweep'[x] = sweep[x], scan'[x] = scan[x] PROVE Seen(x, Own(s))'
  BY <1>2, <1>5 DEF SeenInv, SeenOK, Seen, Sweeping
<1>6. CASE ~Binds(s) /\ Safe(s)
  <2>1. CASE \E t \in Sessions : WriteStep(t)
    BY <2>1, <1>5, <1>6, WriteFrame
  <2>2. ASSUME NEW t \in Sessions, SocketStep(t) PROVE Seen(x, Own(s))'
    <3>1. CASE Crashes(t)
      <4>1. scan' = [scan EXCEPT ![t] = Unscanned] /\ sweep' = [sweep EXCEPT ![t] = Unswept]
        BY <3>1 DEF Crashes, Dies
      <4>2. x # t
        BY <4>1, <1>1 DEF Sweeping, Unswept
      <4> QED
        BY <4>1, <4>2, <1>1, <1>5, <1>6
    <3> QED
      BY <3>1, <2>2, <1>5, <1>6, SocketQuiet
  <2>3. ASSUME NEW y \in Scanners, ScanStep(y) PROVE Seen(x, Own(s))'
    <3>1. UNCHANGED <<instance, sock, stage, dns, exposed, excused>>
      BY <2>3, ScanFrame
    <3>2. CASE y # x
      <4>1. sweep'[x] = sweep[x] /\ scan'[x] = scan[x]
        BY <3>2, <1>1, <2>3 DEF ScanStep, BeginScan, List, Probes, ProbeSocket, Judge, SweepStep,
         Reads, Removes, RemovesTemp, FilesDone, Consults, SweepEnds, Finishes, Forget,
         Continues, Sweeps
      <4> QED
        BY <4>1, <1>5, <1>6
    <3>3. CASE y = x /\ BeginScan(x)
      <4>1. PICK complete \in BOOLEAN, found \in SUBSET Listed :
              /\ complete => found = Listed
              /\ scan' = [scan EXCEPT ![x] = [Unscanned EXCEPT !.open = TRUE,
                                                !.complete = complete, !.todo = found]]
        BY <3>3 DEF BeginScan, List
      <4>2. /\ scan'[x].todo = found /\ scan'[x].complete = complete
            /\ scan'[x].rows[Own(s)] = "unlisted"
        BY <4>1, <1>1 DEF Unscanned
      <4>3. Own(s) \in Listed
        BY <1>1, <1>6, SocketAssumption DEF AloneInv, AloneOK, Listed, NoSocket, Junk
      <4> QED
        BY <4>1, <4>2, <4>3, <1>2 DEF Seen
    <3>4. CASE y = x /\ Probes(x)
      <4>1. PICK i \in scan[x].todo : \E v \in Verdicts(i) :
              scan' = [scan EXCEPT ![x].todo = @ \ {i}, ![x].rows[i] = v]
        BY <3>4 DEF Probes, ProbeSocket
      <4>2. PICK v \in Verdicts(i) : scan' = [scan EXCEPT ![x].todo = @ \ {i}, ![x].rows[i] = v]
        BY <4>1
      <4>3. /\ scan'[x].todo = scan[x].todo \ {i} /\ scan'[x].complete = scan[x].complete
            /\ scan'[x].rows = [scan[x].rows EXCEPT ![i] = v]
        BY <4>2, <1>1 DEF ScanRecords
      <4>4. i \in Instances /\ scan[x].rows \in [Instances -> {"unlisted", "alive", "absent", "unknown"}]
        BY <1>1 DEF ScanRecords
      <4>5. Seen(x, Own(s))
        BY <3>4, <1>1, <1>6 DEF SeenInv, SeenOK, Probes, InSweep, Sweeping
      <4>6. CASE i = Own(s)
        <5>1. Served(i)
          BY <4>6, <1>6 DEF AloneInv, AloneOK, Served, Safe
        <5>2. v \in {"unknown", "alive"}
          BY <5>1 DEF Verdicts
        <5> QED
          BY <4>3, <4>4, <4>6, <5>2, <1>2 DEF Seen
      <4>7. CASE i # Own(s)
        BY <4>3, <4>4, <4>5, <4>7, <1>1, <1>2 DEF Seen
      <4> QED
        BY <4>6, <4>7
    <3>5. CASE y = x /\ (Judge(x) \/ SweepStep(x))
      <4>1. ~Finishes(x)
        BY <1>1 DEF Finishes, Sweeps, Sweeping, Unswept
      <4>2. UNCHANGED scan /\ Sweeping(x)
        BY <4>1, <3>5, <1>1 DEF Judge, SweepStep, Reads, Removes, RemovesTemp, FilesDone,
           Consults, SweepEnds, Continues, Sweeping, InSweep, SweepOK
      <4> QED
        BY <4>2, <1>2, <1>6 DEF SeenInv, SeenOK, Seen
    <3> QED
      BY <3>2, <3>3, <3>4, <3>5, <2>3 DEF ScanStep
  <2> QED
    BY <2>1, <2>2, <2>3 DEF Next
<1> QED
  BY <1>3, <1>4, <1>6

\* Nothing a safe session marked may go, by any sweep that has been judged.
LEMMA SafeFilesStay ==
  ASSUME TypeInv, SweepInv, SeenInv, NEW s \in Sessions, Safe(s), NEW x \in Scanners,
         sweep[x].at \in {"files", "journals"}
  PROVE  /\ ~MayGo(x, Mark(s)) /\ ~MayGo(x, Empty(s))
         /\ Own(s) \notin sweep[x].scope \/ x \in Sessions
<1>1. Sweeping(x) /\ scan[x].todo = {} /\ Allowed(x, sweep[x].scope) /\ sweep[x].scope \in Scopes(x)
  BY DEF Sweeping, SweepInv, SweepOK
<1>2. Seen(x, Own(s)) /\ Own(s) \in Instances
  BY <1>1 DEF SeenInv, SeenOK, TypeInv, TypeOK, Own, Named
<1>3. ~OwnAbsent(x, Own(s)) /\ ~ProvablyDead(x, Own(s)) /\ ~Blanket(x)
  BY <1>1, <1>2 DEF Seen, OwnAbsent, ProvablyDead, NoEndpoint, Blanket
<1>4. CASE x \in Sessions
  <2>1. x \notin Recoveries /\ sweep[x].scope = {Own(x)}
    BY <1>1, <1>4, SocketAssumption DEF Scopes
  <2>2. OwnAbsent(x, Own(x))
    BY <1>1, <2>1 DEF Allowed
  <2> QED
    BY <1>3, <1>4, <2>2 DEF MayGo, OwnerGone, Mark, Marked, Empty, Legacy
<1>5. CASE x \notin Sessions
  <2>1. x \in Recoveries
    BY <1>5 DEF Scanners
  <2>2. sweep[x].scope # Instances
    BY <1>1, <1>3, <2>1 DEF Allowed
  <2>3. Own(s) \notin sweep[x].scope
    BY <1>1, <1>3, <2>2 DEF Allowed
  <2> QED
    BY <2>3, <1>3, <1>5 DEF MayGo, OwnerGone, Mark, Marked, Empty, Legacy
<1> QED
  BY <1>4, <1>5

(***************************************************************************)
(* What the steps of apply, revert and the sweeps come to.                 *)
(***************************************************************************)
\* Going on without touching a file,
Shifts(s) ==
  /\ UNCHANGED <<zone, excused, exposed>>
  /\ dns'[s].written = dns[s].written /\ dns[s].at # "fill"
  /\ dns'[s].at \notin {"fill", "up"}
  /\ Midway(s)' => (Midway(s) /\ dns'[s].k = dns[s].k) \/ dns'[s].k = 1
  /\ dns'[s].at = "adopt" => (Mine(s, zone[Here(s)]) /\ dns'[s].k = dns[s].k
                                /\ dns[s].at # "idle")
  /\ dns'[s].at = "rename" => (dns[s].at = "adopt" /\ dns'[s].k = dns[s].k)

\* opening a new file,
Opens(s) ==
  /\ Midway(s) /\ UNCHANGED excused
  /\ dns'[s].at = "fill" /\ dns'[s].k = dns[s].k /\ dns'[s].written = dns[s].written
  /\ zone[Here(s)] = NoFile /\ zone' = [zone EXCEPT ![Here(s)] = Empty(s)]
  /\ Exposes(s, Here(s))

\* completing a zone,
Completes(s) ==
  /\ Midway(s) /\ UNCHANGED excused
  /\ dns'[s].at \in {"write", "up"}
  /\ dns'[s].at = "write" => dns'[s].k = dns[s].k + 1
  /\ dns'[s].at = "up" => dns[s].k = Len(Split)
  /\ dns'[s].written = dns[s].written \union {Here(s)}
  /\ \/ zone[Here(s)] = Mark(s) /\ UNCHANGED <<zone, exposed>> /\ dns[s].at # "fill"
     \/ dns[s].at = "fill" /\ UNCHANGED exposed
          /\ (zone' = IF zone[Here(s)] = Empty(s) THEN [zone EXCEPT ![Here(s)] = Mark(s)] ELSE zone)
     \/ zone' = [zone EXCEPT ![Here(s)] = Mark(s)] /\ Exposes(s, Here(s)) /\ dns[s].at = "rename"

\* and taking back, file by file or at once.
Drops(s) ==
  /\ dns[s].at \in {"rollback", "revert"} /\ dns'[s].at = dns[s].at /\ UNCHANGED exposed
  /\ \E z \in dns[s].written : dns'[s].written = dns[s].written \ {z} /\ Unlinks(s, z)
GivesUp(s) ==
  /\ dns[s].at = "rollback" /\ dns'[s] = Quiet /\ UNCHANGED <<zone, exposed>>
  /\ excused' = excused \union {<<s, z>> : z \in dns[s].written}
Spoils(s) ==
  /\ dns[s].at = "fill" /\ Midway(s) /\ dns'[s].at = "rollback"
  /\ dns'[s].written = dns[s].written
  /\ \/ zone' = [zone EXCEPT ![Here(s)] = NoFile] /\ UNCHANGED excused
     \/ /\ excused' = excused \union {<<s, Here(s)>>}
        /\ \/ UNCHANGED zone
           \/ /\ zone[Here(s)] = Empty(s)
              /\ zone' = [zone EXCEPT ![Here(s)] = Mark(s)]
  /\ UNCHANGED exposed

\* A failed apply of the journal leaves everything alone.
Balks(s) == UNCHANGED <<dns, zone, excused, exposed>>

LEMMA WriteKinds ==
  ASSUME TypeInv, NEW s \in Sessions, WriteStep(s)
  PROVE  /\ \A t \in Sessions \ {s} : dns'[t] = dns[t]
         /\ stage[s] = "serving"
         /\ (Shifts(s) \/ Opens(s) \/ Completes(s) \/ Drops(s) \/ GivesUp(s) \/ Spoils(s) \/ Balks(s))
<1>1. /\ dns[s] \in DnsRecords /\ dns \in [Sessions -> DnsRecords]
      /\ dns[s].at # "idle" => stage[s] = "serving"
      /\ dns[s].at = "idle" => dns[s] = Quiet
      /\ dns[s].fresh \subseteq dns[s].written
  BY DEF TypeInv, TypeOK, PhaseInv
<1>2. \A t \in Sessions \ {s} : dns'[t] = dns[t]
  BY <1>1 DEF WriteStep, Apply, Classify, Create, LosesRace, CreateFails, Fill, FillFails,
         WriteTemp, Rename, RenameFails, RollBack, RolledBack, Revert, RevertZone, Reverted,
         Goes, Step
<1>3. stage[s] = "serving"
  BY <1>1 DEF WriteStep, Apply, Classify, Create, LosesRace, CreateFails, Fill, FillFails,
         WriteTemp, Rename, RenameFails, RollBack, RolledBack, Revert, RevertZone, Reverted,
         Writes
<1>4. ASSUME NEW a \in {"absent", "fill", "adopt", "rename", "rollback", "revert"}, Goes(s, a)
      PROVE  dns'[s].at = a /\ dns'[s].k = dns[s].k /\ dns'[s].written = dns[s].written
  BY <1>1, <1>4 DEF Goes, Step, DnsRecords
<1>5. ASSUME NEW made, made \subseteq {Here(s)}, Step(s, Next1(s, made)), Midway(s)
      PROVE  /\ dns'[s].at \in {"write", "up"}
             /\ dns'[s].at = "write" => dns'[s].k = dns[s].k + 1
             /\ dns'[s].at = "up" => dns[s].k = Len(Split)
             /\ dns'[s].written = dns[s].written \union {Here(s)}
  <2>1. dns'[s] = Next1(s, made)
    BY <1>1, <1>5 DEF Step
  <2> QED
    BY <2>1, <1>5, NextRecord
<1>6. CASE Apply(s)
  <2>1. CASE UNCHANGED dns
    BY <2>1, <1>6 DEF Apply, Balks
  <2>2. CASE Step(s, [Quiet EXCEPT !.at = "write"])
    <3>1. dns'[s] = [Quiet EXCEPT !.at = "write"]
      BY <2>2, <1>1 DEF Step
    <3>2. dns'[s].at = "write" /\ dns'[s].k = 1 /\ dns'[s].written = {}
      BY <3>1 DEF Quiet
    <3>3. dns[s].at = "idle" /\ dns[s].written = {}
      BY <1>1, <1>6 DEF Apply, Writes, Quiet
    <3> QED
      BY <3>2, <3>3, <1>2, <1>3, <1>6 DEF Apply, Shifts
  <2> QED
    BY <2>1, <2>2, <1>2, <1>3, <1>6 DEF Apply
<1>7. CASE Classify(s)
  <2>1. Midway(s) /\ dns[s].at = "write" /\ UNCHANGED <<zone, excused, exposed>>
    BY <1>7 DEF Classify, Writes, Midway
  <2>2. CASE Goes(s, "adopt") /\ Mine(s, zone[Here(s)])
    BY <2>1, <2>2, <1>2, <1>3, <1>4 DEF Shifts
  <2>3. CASE Goes(s, "absent") \/ Goes(s, "rollback")
    BY <2>1, <2>3, <1>2, <1>3, <1>4 DEF Shifts
  <2>4. CASE zone[Here(s)] = Mark(s) /\ Step(s, Next1(s, {}))
    BY <2>1, <2>4, <1>2, <1>3, <1>5 DEF Completes
  <2> QED
    BY <2>2, <2>3, <2>4, <1>2, <1>3, <1>7 DEF Classify
<1>8. CASE Create(s)
  BY <1>2, <1>3, <1>4, <1>8 DEF Create, Writes, Midway, Opens
<1>9. CASE LosesRace(s)
  <2>1. Midway(s) /\ dns[s].at = "absent" /\ UNCHANGED <<zone, excused, exposed>>
    BY <1>9 DEF LosesRace, Writes, Midway
  <2>2. dns'[s].at \in {"rollback", "write"} /\ dns'[s].k = dns[s].k
          /\ dns'[s].written = dns[s].written
    BY <1>1, <1>9 DEF LosesRace, Step, DnsRecords
  <2> QED
    BY <2>1, <2>2, <1>2, <1>3 DEF Shifts
<1>10. CASE CreateFails(s)
  BY <1>2, <1>3, <1>4, <1>10 DEF CreateFails, Writes, Midway, Shifts
<1>11. CASE Fill(s)
  <2>1. Midway(s) /\ dns[s].at = "fill"
    BY <1>11 DEF Fill, Writes, Midway
  <2> QED
    BY <2>1, <1>2, <1>3, <1>5, <1>11 DEF Fill, Completes
<1>12. CASE FillFails(s)
  BY <1>2, <1>3, <1>4, <1>12 DEF FillFails, Writes, Midway, Spoils
<1>13. CASE WriteTemp(s)
  <2>1. Midway(s) /\ dns[s].at = "adopt" /\ UNCHANGED <<zone, excused, exposed>>
    BY <1>13 DEF WriteTemp, Writes, Midway
  <2>2. Goes(s, "rename") \/ Goes(s, "rollback")
    BY <1>13 DEF WriteTemp
  <2> QED
    BY <2>1, <2>2, <1>2, <1>3, <1>4 DEF Shifts
<1>14. CASE Rename(s)
  <2>1. Midway(s) /\ dns[s].at = "rename" /\ UNCHANGED excused
    BY <1>14 DEF Rename, Writes, Midway
  <2>2. CASE Goes(s, "rollback") /\ UNCHANGED <<zone, exposed>>
    BY <2>1, <2>2, <1>2, <1>3, <1>4 DEF Shifts
  <2>3. CASE /\ zone' = [zone EXCEPT ![Here(s)] = Mark(s)]
             /\ Step(s, Next1(s, {})) /\ Exposes(s, Here(s))
    BY <2>1, <2>3, <1>2, <1>3, <1>5 DEF Completes
  <2> QED
    BY <2>2, <2>3, <1>14 DEF Rename
<1>15. CASE RenameFails(s)
  BY <1>2, <1>3, <1>4, <1>15 DEF RenameFails, Writes, Midway, Shifts
<1>16. CASE RollBack(s)
  <2>1. PICK z \in dns[s].fresh : Unlinks(s, z) /\
           Step(s, [dns[s] EXCEPT !.fresh = @ \ {z}, !.written = @ \ {z}])
    BY <1>16 DEF RollBack, ToRollBack
  <2>2. dns'[s].at = dns[s].at /\ dns'[s].written = dns[s].written \ {z}
    BY <2>1, <1>1 DEF Step, DnsRecords
  <2> QED
    BY <2>1, <2>2, <1>1, <1>2, <1>3, <1>16 DEF RollBack, Writes, Drops
<1>17. CASE RolledBack(s)
  <2>1. dns[s].fresh = {} /\ dns'[s] = Quiet
    BY <1>1, <1>17 DEF RolledBack, ToRollBack, Step
  <2> QED
    BY <2>1, <1>2, <1>3, <1>17 DEF RolledBack, Writes, GivesUp
<1>18. CASE Revert(s)
  BY <1>2, <1>3, <1>4, <1>18 DEF Revert, Writes, Midway, Shifts
<1>19. CASE RevertZone(s)
  <2>1. PICK z \in dns[s].written : Unlinks(s, z) /\
           Step(s, [dns[s] EXCEPT !.written = @ \ {z}, !.clean = @ /\ faults' = faults])
    BY <1>19 DEF RevertZone
  <2>2. dns'[s].at = dns[s].at /\ dns'[s].written = dns[s].written \ {z}
    BY <2>1, <1>1 DEF Step, DnsRecords
  <2> QED
    BY <2>1, <2>2, <1>2, <1>3, <1>19 DEF RevertZone, Writes, Drops
<1>20. CASE Reverted(s)
  <2>1. dns'[s] = Quiet /\ dns[s].written = {} /\ dns[s].at = "revert"
          /\ UNCHANGED <<zone, excused, exposed>>
    BY <1>1, <1>20 DEF Reverted, Step, Writes
  <2> QED
    BY <2>1, <1>2, <1>3, QuietTyped DEF Shifts, Midway
<1> QED
  BY <1>6, <1>7, <1>8, <1>9, <1>10, <1>11, <1>12, <1>13, <1>14, <1>15, <1>16, <1>17, <1>18,
     <1>19, <1>20 DEF WriteStep

\* A scan or a sweep only removes, and only what it has doomed or a journal of
\* its scope lists; what it dooms may go.
LEMMA ScanEffect ==
  ASSUME TypeInv, NEW y \in Scanners, ScanStep(y)
  PROVE  /\ \A x \in Scanners \ {y} : sweep'[x] = sweep[x]
         /\ \A z \in Zones : zone'[z] # zone[z] =>
              /\ zone'[z] = NoFile
              /\ \/ z \in sweep[y].doomed
                 \/ /\ sweep[y].at = "journals"
                    /\ zone[z].is = "mark" /\ zone[z].of \in sweep[y].jobs
         /\ \A z \in sweep'[y].doomed \ sweep[y].doomed :
              sweep[y].at = "files" /\ MayGo(y, zone[z])
<1>1. /\ sweep \in [Scanners -> SweepRecords] /\ sweep[y] \in SweepRecords
      /\ zone \in [Zones -> Contents]
  BY DEF TypeInv, TypeOK
<1>2. \A x \in Scanners \ {y} : sweep'[x] = sweep[x]
  BY <1>1 DEF ScanStep, BeginScan, Probes, Judge, SweepStep, Reads, Removes, RemovesTemp,
         FilesDone, Consults, SweepEnds, Finishes, Continues, Sweeps
<1>3. ASSUME NEW z \in Zones, zone'[z] # zone[z]
      PROVE  /\ zone'[z] = NoFile
             /\ \/ z \in sweep[y].doomed
                \/ /\ sweep[y].at = "journals"
                   /\ zone[z].is = "mark" /\ zone[z].of \in sweep[y].jobs
  <2>1. (\E d \in Zones : Removes(y, d)) \/ Consults(y)
    BY <1>3 DEF ScanStep, BeginScan, Probes, Judge, SweepStep, Reads, RemovesTemp, FilesDone,
       SweepEnds
  <2>2. CASE \E d \in Zones : Removes(y, d)
    BY <2>2, <1>1, <1>3 DEF Removes
  <2>3. CASE Consults(y)
    <3>1. PICK i \in sweep[y].jobs, kept \in SUBSET Zones :
            zone' = [d \in Zones |-> IF d \in StillOurs(i) \ kept THEN NoFile ELSE zone[d]]
      BY <2>3 DEF Consults
    <3> QED
      BY <3>1, <2>3, <1>1, <1>3 DEF Consults, StillOurs
  <2> QED
    BY <2>1, <2>2, <2>3
<1>4. ASSUME NEW z \in sweep'[y].doomed, z \notin sweep[y].doomed
      PROVE  sweep[y].at = "files" /\ MayGo(y, zone[z])
  <2>1. ~Finishes(y)
    BY <1>1, <1>4 DEF Finishes, Sweeps, Unswept
  <2>2. ~BeginScan(y)
    BY <1>1, <1>4 DEF BeginScan, Sweeps, Unswept
  <2>3. ~Judge(y)
    <3> SUFFICES ASSUME Judge(y) PROVE FALSE
      OBVIOUS
    <3>1. PICK scope \in Scopes(y), listed \in BOOLEAN : Judges(y, scope, listed)
      BY <2>1, JudgeKind
    <3>2. sweep'[y].doomed = sweep[y].doomed
      BY <3>1, <1>1, JudgedFields DEF Judges, Continues, Sweeps
    <3> QED
      BY <3>2, <1>4
  <2>4. ~(\E d \in Zones : Removes(y, d))
    <3> SUFFICES ASSUME NEW d \in Zones, Removes(y, d) PROVE FALSE
      OBVIOUS
    <3> DEFINE r == [sweep[y] EXCEPT !.doomed = @ \ {d}]
               q == [sweep[y] EXCEPT !.doomed = @ \ {d}, !.flawed = TRUE]
    <3>1. r.doomed \subseteq sweep[y].doomed /\ q.doomed \subseteq sweep[y].doomed
      BY <1>1 DEF SweepRecords
    <3>2. Continues(y, r) \/ Continues(y, q)
      BY DEF Removes
    <3> HIDE DEF r, q
    <3> QED
      BY <3>1, <3>2, <1>1, <1>4 DEF Continues, Sweeps
  <2>5. ~RemovesTemp(y)
    <3> SUFFICES ASSUME RemovesTemp(y) PROVE FALSE
      OBVIOUS
    <3>1. PICK t : \/ Continues(y, [sweep[y] EXCEPT !.temps = @ \ {t}])
                   \/ Continues(y, [sweep[y] EXCEPT !.temps = @ \ {t}, !.flawed = TRUE])
      BY DEF RemovesTemp
    <3> DEFINE r == [sweep[y] EXCEPT !.temps = @ \ {t}]
               q == [sweep[y] EXCEPT !.temps = @ \ {t}, !.flawed = TRUE]
    <3>2. r.doomed = sweep[y].doomed /\ q.doomed = sweep[y].doomed
      BY <1>1 DEF SweepRecords
    <3>3. Continues(y, r) \/ Continues(y, q)
      BY <3>1
    <3> HIDE DEF r, q
    <3> QED
      BY <3>2, <3>3, <1>1, <1>4 DEF Continues, Sweeps
  <2>6. ~FilesDone(y)
    <3> SUFFICES ASSUME FilesDone(y) PROVE FALSE
      OBVIOUS
    <3>1. PICK j \in SUBSET Instances, told \in BOOLEAN :
            Continues(y, [sweep[y] EXCEPT !.at = "journals", !.jobs = j, !.flawed = @ \/ told])
      BY <2>1 DEF FilesDone
    <3> DEFINE r == [sweep[y] EXCEPT !.at = "journals", !.jobs = j, !.flawed = @ \/ told]
    <3>2. r.doomed = sweep[y].doomed
      BY <1>1 DEF SweepRecords
    <3>3. Continues(y, r)
      BY <3>1
    <3> HIDE DEF r
    <3> QED
      BY <3>2, <3>3, <1>1, <1>4 DEF Continues, Sweeps
  <2>7. ~Consults(y)
    <3> SUFFICES ASSUME Consults(y) PROVE FALSE
      OBVIOUS
    <3>1. PICK i, kept : Continues(y, [sweep[y] EXCEPT !.jobs = @ \ {i}])
      BY DEF Consults
    <3> DEFINE r == [sweep[y] EXCEPT !.jobs = @ \ {i}]
    <3>2. r.doomed = sweep[y].doomed
      BY <1>1 DEF SweepRecords
    <3>3. Continues(y, r)
      BY <3>1
    <3> HIDE DEF r
    <3> QED
      BY <3>2, <3>3, <1>1, <1>4 DEF Continues, Sweeps
  <2>8. Reads(y)
    BY <2>1, <2>2, <2>3, <2>4, <2>5, <2>6, <2>7, <1>4 DEF ScanStep, Probes, SweepStep, SweepEnds
  <2>9. PICK Z \in Batches(y), doomed \in SUBSET Zones, unread \in SUBSET Zones :
       /\ Verdict(y, Z, doomed, unread)
       /\ Continues(y, [sweep[y] EXCEPT !.todo = @ \ Z, !.doomed = doomed,
                                        !.passed = @ \union unread])
    BY <2>8 DEF Reads
  <2>10. sweep'[y].doomed = doomed
    BY <2>9, <1>1 DEF Continues, Sweeps, SweepRecords
  <2> QED
    BY <2>8, <2>9, <2>10, <1>4 DEF Reads, Verdict
<1> QED
  BY <1>2, <1>3, <1>4

(***************************************************************************)
(* Progress, authors, zones.                                               *)
(***************************************************************************)
LEMMA ProgressKept ==
  ASSUME TypeInv, ProgressInv, Next
  PROVE  ProgressInv'
<1> DEFINE P(t) == /\ Midway(t) => \A j \in DOMAIN Split : j < dns[t].k => Split[j] \in dns[t].written
                   /\ dns[t].at = "up" => Pushed \subseteq dns[t].written
<1> SUFFICES ASSUME NEW t \in Sessions PROVE P(t)'
  BY DEF ProgressInv
<1>1. P(t) /\ dns \in [Sessions -> DnsRecords] /\ Split \in Seq(Zones)
  BY ZonesAssumption DEF ProgressInv, TypeInv, TypeOK
<1>2. CASE dns'[t] = dns[t]
  BY <1>1, <1>2 DEF Midway
<1>3. CASE dns'[t] = Quiet
  BY <1>3, QuietTyped DEF Midway
<1>4. ASSUME NEW s \in Sessions, WriteStep(s) PROVE P(t)'
  <2>1. CASE s # t
    BY <2>1, <1>2, <1>4, WriteKinds
  <2>2. CASE s = t
    <3>1. Midway(t) => (dns[t].k \in DOMAIN Split /\ dns[t].k \in Nat)
      BY ZonesOfSplit DEF TypeInv, PhaseInv
    <3>2. CASE Shifts(t)
      <4>1. (\A j \in DOMAIN Split : j >= 1)
        BY ZonesAssumption
      <4> QED
        BY <3>2, <4>1, <1>1, <3>1, ZonesOfSplit DEF Shifts, Midway
    <3>3. CASE Opens(t)
      BY <3>3, <1>1 DEF Opens, Midway
    <3>4. CASE Completes(t)
      <4>1. \A j \in DOMAIN Split : j <= dns[t].k => Split[j] \in dns'[t].written
        BY <3>1, <3>4, <1>1, ZonesOfSplit DEF Completes, Here
      <4>2. CASE dns'[t].at = "write"
        <5>1. dns'[t].k = dns[t].k + 1
          BY <4>2, <3>4 DEF Completes
        <5> QED
          BY <4>1, <4>2, <5>1, <3>1, <3>4, ZonesOfSplit DEF Completes, Midway
      <4>3. CASE dns'[t].at = "up"
        <5>1. dns[t].k = Len(Split)
          BY <4>3, <3>4 DEF Completes
        <5>2. Pushed \subseteq dns'[t].written
          BY <4>1, <5>1, ZonesOfSplit DEF Pushed
        <5> QED
          BY <4>3, <5>2 DEF Midway
      <4> QED
        BY <4>2, <4>3, <3>4 DEF Completes
    <3>5. CASE Drops(t) \/ Spoils(t)
      BY <3>5 DEF Drops, Spoils, Midway
    <3>6. CASE GivesUp(t) \/ Balks(t)
      BY <3>6, <1>2, <1>3 DEF GivesUp, Balks
    <3> QED
      BY <2>2, <3>2, <3>3, <3>4, <3>5, <3>6, <1>4, WriteKinds
  <2> QED
    BY <2>1, <2>2
<1>5. ASSUME NEW s \in Sessions, SocketStep(s) PROVE P(t)'
  <2>1. CASE Crashes(s)
    BY <2>1, <1>1, <1>2, <1>3 DEF Crashes
  <2> QED
    BY <2>1, <1>2, <1>5, SocketQuiet
<1>6. ASSUME NEW y \in Scanners, ScanStep(y) PROVE P(t)'
  BY <1>2, <1>6, ScanFrame
<1> QED
  BY <1>4, <1>5, <1>6 DEF Next

LEMMA AuthorKept ==
  ASSUME TypeInv, AuthorInv, Next
  PROVE  AuthorInv'
<1> SUFFICES ASSUME NEW r \in Sessions, NEW z \in Zones, zone'[z].by = r
             PROVE  AuthorOK(r, z)'
  BY DEF AuthorInv, AuthorOK
<1>1. /\ stage \in [Sessions -> {"off", "starting", "stale", "free", "bound",
                                 "serving", "leaving", "left", "dead"}]
      /\ dns \in [Sessions -> DnsRecords] /\ zone \in [Zones -> Contents]
      /\ AuthorOK(r, z)
  BY DEF TypeInv, TypeOK, AuthorInv
<1>2. UNCHANGED instance /\ Mark(r)' = Mark(r) /\ Empty(r)' = Empty(r)
  BY WriteFrame, ScanFrame, SocketFrame DEF Next, Mark, Own, Empty, Marked
<1>3. zone'[z] # NoFile
  BY SocketAssumption DEF NoFile
<1>4. ASSUME zone'[z] = zone[z], dns'[r] = dns[r], excused \subseteq excused',
             stage[r] \in {"serving", "leaving", "left", "dead"} =>
               stage'[r] \in {"serving", "leaving", "left", "dead"},
             stage[r] = "dead" => stage'[r] = "dead"
      PROVE  AuthorOK(r, z)'
  BY <1>1, <1>2, <1>4 DEF AuthorOK, Here
<1>5. ASSUME NEW s \in Sessions, WriteStep(s) PROVE AuthorOK(r, z)'
  <2>1. UNCHANGED <<instance, sock, stage, scan, sweep>> /\ stage[s] = "serving"
    BY <1>5, WriteFrame, WriteKinds
  <2>2. (Shifts(s) \/ Opens(s) \/ Completes(s) \/ Drops(s) \/ GivesUp(s) \/ Spoils(s) \/ Balks(s))
          /\ (s # r => dns'[r] = dns[r])
    BY <1>5, WriteKinds
  <2>3. excused \subseteq excused'
    BY <2>2 DEF Shifts, Opens, Completes, Drops, GivesUp, Spoils, Balks, Unlinks
  <2>4. Midway(s) => Here(s) \in Zones
    BY ZonesOfSplit DEF TypeInv, PhaseInv, Here
  <2>5. CASE s # r
    <3>1. zone'[z] = zone[z] \/ zone'[z] \in {NoFile, Empty(s), Mark(s)}
      BY <2>2, <2>4, <1>1 DEF Shifts, Opens, Completes, Drops, GivesUp, Spoils, Balks, Unlinks
    <3>2. zone'[z] = zone[z]
      BY <3>1, <2>5, <1>3 DEF Empty, Mark, Marked
    <3> QED
      BY <3>2, <2>1, <2>2, <2>3, <2>5, <1>4
  <2>6. CASE s = r
    <3>1. zone[z].by = r => (zone[z] \in {Mark(r), Empty(r)} /\
             (z \in dns[r].written \/ (dns[r].at = "fill" /\ z = Here(r)) \/ <<r, z>> \in excused))
      BY <2>1, <2>6, <1>1 DEF AuthorOK
    <3>2. SUFFICES /\ zone'[z] \in {Mark(r), Empty(r)}
                   /\ z \in dns'[r].written \/ (dns'[r].at = "fill" /\ z = Here(r)')
                        \/ <<r, z>> \in excused'
      BY <3>2, <2>1, <2>6, <1>2 DEF AuthorOK
    <3>3. CASE Shifts(r)
      BY <3>1, <3>3 DEF Shifts
    <3>4. CASE Opens(r)
      <4>1. Here(r)' = Here(r)
        BY <3>4 DEF Opens, Here
      <4>2. dns[r].at = "fill" => zone[Here(r)] = NoFile
        BY <3>4 DEF Opens
      <4>3. zone[z].by = r => zone[z] # NoFile
        BY SocketAssumption DEF NoFile
      <4> QED
        BY <3>1, <3>4, <4>1, <4>2, <4>3, <2>4, <2>6, <1>1 DEF Opens
    <3>5. CASE Completes(r)
      BY <3>1, <3>5, <2>4, <2>6, <1>1 DEF Completes
    <3>6. CASE Drops(r)
      <4>1. PICK d \in dns[r].written : dns'[r].written = dns[r].written \ {d} /\ Unlinks(r, d)
        BY <3>6 DEF Drops
      <4>2. CASE z = d
        BY <4>1, <4>2, <3>1, <1>1, <1>3 DEF Unlinks
      <4>3. CASE z # d
        BY <4>1, <4>3, <3>1, <3>6, <1>1, <1>3 DEF Unlinks, Drops
      <4> QED
        BY <4>2, <4>3
    <3>7. CASE GivesUp(r)
      BY <3>1, <3>7 DEF GivesUp
    <3>8. CASE Spoils(r)
      BY <3>1, <3>8, <2>4, <2>6, <1>1, <1>3 DEF Spoils
    <3>9. CASE Balks(r)
      BY <3>1, <3>9 DEF Balks, Here
    <3> QED
      BY <2>2, <2>6, <3>3, <3>4, <3>5, <3>6, <3>7, <3>8, <3>9
  <2> QED
    BY <2>5, <2>6
<1>6. ASSUME NEW s \in Sessions, SocketStep(s) PROVE AuthorOK(r, z)'
  <2>1. UNCHANGED <<instance, zone, temp, journal, excused>>
    BY <1>6, SocketFrame
  <2>2. CASE Crashes(s) /\ s = r
    <3>1. stage'[r] = "dead"
      BY <2>2, <1>1 DEF Crashes, Dies
    <3> QED
      BY <3>1, <2>1, <1>1, <1>2 DEF AuthorOK
  <2>3. CASE ~(Crashes(s) /\ s = r)
    <3>1. dns'[r] = dns[r]
      BY <2>3, <1>1, <1>6, SocketQuiet DEF Crashes
    <3>2. /\ stage[r] \in {"serving", "leaving", "left", "dead"} =>
               stage'[r] \in {"serving", "leaving", "left", "dead"}
          /\ stage[r] = "dead" => stage'[r] = "dead"
      BY <1>1, <1>6 DEF SocketStep, Starts, Prepares, RemovesOld, Binds, Restricts, Leaves,
         RemovesOwn, Crashes, Start, Free, FindsStale, IsRefused, RemoveOld, Bind, BindFails,
         Restrict, RestrictFails, Leave, Unlink, Dies, Moves
    <3> QED
      BY <3>1, <3>2, <2>1, <1>4
  <2> QED
    BY <2>2, <2>3
<1>7. ASSUME NEW y \in Scanners, ScanStep(y) PROVE AuthorOK(r, z)'
  <2>1. zone'[z] = zone[z]
    BY <1>3, <1>7, ScanEffect
  <2> QED
    BY <2>1, <1>4, <1>7, ScanFrame
<1> QED
  BY <1>5, <1>6, <1>7 DEF Next

\* A session that writes leaves the safety of the others alone, and claims no
\* file of theirs.
LEMMA ForeignWrites ==
  ASSUME Base, AuthorInv, ZoneInv, NEW s \in Sessions, Safe(s),
         NEW t \in Sessions \ {s}, WriteStep(t), NEW z \in Zones, zone[z].by = s
  PROVE  zone'[z] = zone[z] /\ z \notin Claims(t)'
<1>1. /\ zone \in [Zones -> Contents] /\ dns \in [Sessions -> DnsRecords]
      /\ zone[z] \in {Mark(s), Empty(s)} /\ z \notin Claims(t)
      /\ Mark(t) # Mark(s) /\ Empty(t) # Empty(s) /\ zone[z] # NoFile
      /\ Mark(t) # Empty(s) /\ Empty(t) # Mark(s)
  <2>1. zone \in [Zones -> Contents] /\ dns \in [Sessions -> DnsRecords]
    BY DEF Base, TypeInv, TypeOK
  <2>2. zone[z] \in {Mark(s), Empty(s)}
    BY DEF AuthorInv, AuthorOK
  <2>3. z \notin Claims(t)
    BY DEF ZoneInv, ZoneOK, Untouched
  <2>4. /\ Mark(t) # Mark(s) /\ Empty(t) # Empty(s) /\ Mark(t) # Empty(s) /\ Empty(t) # Mark(s)
        /\ zone[z] # NoFile
    BY SocketAssumption DEF Mark, Empty, Marked, NoFile
  <2> QED
    BY <2>1, <2>2, <2>3, <2>4
<1>2. /\ stage[t] = "serving"
      /\ (Shifts(t) \/ Opens(t) \/ Completes(t) \/ Drops(t) \/ GivesUp(t) \/ Spoils(t) \/ Balks(t))
  BY WriteKinds DEF Base
<1>3. Midway(t) => Here(t) \in Zones
  BY ZonesOfSplit DEF Base, TypeInv, PhaseInv, Here
<1>4. ~Mine(t, zone[z]) \/ zone[z] = Empty(s)
  <2>1. Own(t) # Own(s)
    BY <1>2 DEF Base, AloneInv, AloneOK, Listening
  <2> QED
    BY <2>1, <1>1 DEF Mine, Mark, Marked, Legacy
<1>5. zone[z] = Empty(s) => ~Mine(t, zone[z])
  BY DEF Mine, Empty, Legacy
<1>6. CASE Shifts(t)
  <2>1. dns'[t].at \in {"adopt", "rename"} => Here(t)' = Here(t)
    BY <1>6 DEF Shifts, Here
  <2>2. dns'[t].at = "adopt" => z # Here(t)
    BY <1>4, <1>5, <1>6 DEF Shifts
  <2>3. dns'[t].at = "rename" => z # Here(t)
    BY <1>1, <1>6 DEF Shifts, Claims
  <2>4. dns'[t].at # "fill" /\ z \notin dns'[t].written /\ zone'[z] = zone[z]
    BY <1>1, <1>6 DEF Shifts, Claims
  <2> QED
    BY <2>1, <2>2, <2>3, <2>4 DEF Claims
<1>7. CASE Opens(t)
  <2>1. Here(t)' = Here(t) /\ z # Here(t)
    BY <1>1, <1>7 DEF Opens, Here
  <2> QED
    BY <2>1, <1>1, <1>3, <1>7 DEF Opens, Claims
<1>8. CASE Completes(t)
  <2>1. z # Here(t)
    BY <1>1, <1>8 DEF Completes, Claims, Midway
  <2> QED
    BY <2>1, <1>1, <1>3, <1>8 DEF Completes, Claims
<1>9. CASE Drops(t)
  BY <1>1, <1>9 DEF Drops, Unlinks, Claims
<1>10. CASE GivesUp(t)
  BY <1>1, <1>10, QuietTyped DEF GivesUp, Claims
<1>11. CASE Spoils(t)
  BY <1>1, <1>3, <1>11 DEF Spoils, Claims
<1>12. CASE Balks(t)
  BY <1>1, <1>12 DEF Balks, Claims, Here
<1> QED
  BY <1>2, <1>6, <1>7, <1>8, <1>9, <1>10, <1>11, <1>12

\* The session's own steps.
LEMMA OwnWrites ==
  ASSUME Base, AuthorInv, ZoneInv, NEW s \in Sessions, Safe(s), Safe(s)', WriteStep(s)
  PROVE  ZoneOK(s)'
<1>1. /\ zone \in [Zones -> Contents] /\ dns \in [Sessions -> DnsRecords]
      /\ dns[s] \in DnsRecords /\ dns[s].written \subseteq Zones
      /\ \A z \in dns[s].written : zone[z] = Mark(s)
      /\ dns[s].at = "fill" => zone[Here(s)] = Empty(s)
      /\ \A z \in Zones : zone[z].by = s => Untouched(s, z)
  BY DEF Base, TypeInv, TypeOK, ZoneInv, ZoneOK, DnsRecords
<1>2. /\ stage[s] = "serving" /\ \A t \in Sessions \ {s} : dns'[t] = dns[t]
      /\ (Shifts(s) \/ Opens(s) \/ Completes(s) \/ Drops(s) \/ GivesUp(s) \/ Spoils(s) \/ Balks(s))
  BY WriteKinds DEF Base
<1>3. Midway(s) => Here(s) \in Zones
  BY ZonesOfSplit DEF Base, TypeInv, PhaseInv, Here
<1>4. UNCHANGED <<instance, sweep>> /\ Mark(s)' = Mark(s) /\ Empty(s)' = Empty(s)
  BY WriteFrame DEF Mark, Own, Empty, Marked
<1>5. \A t \in Sessions \ {s} : Claims(t)' = Claims(t)
  BY <1>2 DEF Claims, Here
<1>6. ASSUME NEW z \in Zones, Untouched(s, z) PROVE Untouched(s, z)'
  BY <1>4, <1>5, <1>6 DEF Untouched
<1>7. ASSUME NEW z \in Zones, Exposes(s, z) PROVE Untouched(s, z)'
  <2>1. ~Outdated(s, z)
    BY <1>7 DEF Exposes, Safe
  <2> QED
    BY <2>1, <1>6 DEF Outdated, Untouched
<1>8. /\ Mark(s) # Empty(s) /\ Mark(s) # NoFile /\ Empty(s) # NoFile
      /\ Mark(s).by = s /\ Empty(s).by = s /\ NoFile.by # s
  BY SocketAssumption DEF Mark, Marked, Empty, NoFile
<1>9. CASE Shifts(s)
  BY <1>1, <1>4, <1>6, <1>9 DEF Shifts, ZoneOK
<1>10. CASE Opens(s)
  <2>1. Here(s)' = Here(s) /\ Here(s) \in Zones
    BY <1>3, <1>10 DEF Opens, Here
  <2>2. Here(s) \notin dns[s].written
    BY <1>1, <1>8, <1>10 DEF Opens
  <2>3. \A z \in Zones : zone'[z].by = s => Untouched(s, z)'
    BY <2>1, <1>1, <1>6, <1>7, <1>10 DEF Opens
  <2> QED
    BY <2>1, <2>2, <2>3, <1>1, <1>4, <1>10 DEF Opens, ZoneOK
<1>11. CASE Completes(s)
  <2>1. zone'[Here(s)] = Mark(s) /\ Here(s) \in Zones
    BY <1>1, <1>3, <1>11 DEF Completes
  <2>2. \A z \in Zones : z # Here(s) => zone'[z] = zone[z]
    BY <1>1, <1>11 DEF Completes
  <2>3. ASSUME NEW z \in Zones, zone'[z].by = s PROVE Untouched(s, z)'
    <3>1. CASE zone[z].by = s
      <4>1. Untouched(s, z)
        BY <3>1, <1>1
      <4> QED
        BY <4>1, <1>6
    <3>2. CASE zone[z].by # s
      <4>1. z = Here(s)
        BY <3>2, <2>2, <2>3
      <4>2. Exposes(s, z)
        BY <4>1, <3>2, <1>1, <1>8, <1>11 DEF Completes
      <4> QED
        BY <4>2, <1>7
    <3> QED
      BY <3>1, <3>2
  <2>4. \A z \in Zones : zone'[z].by = s => Untouched(s, z)'
    BY <2>3
  <2>5. \A z \in dns'[s].written : zone'[z] = Mark(s)
    BY <2>1, <2>2, <1>1, <1>11 DEF Completes
  <2> QED
    BY <2>4, <2>5, <1>4, <1>11 DEF Completes, ZoneOK
<1>12. CASE Drops(s)
  <2>1. PICK d \in dns[s].written : dns'[s].written = dns[s].written \ {d} /\ Unlinks(s, d)
    BY <1>12 DEF Drops
  <2>2. \A z \in Zones : zone'[z] = zone[z] \/ (z = d /\ zone'[z] = NoFile)
    BY <2>1, <1>1 DEF Unlinks
  <2>3. dns'[s].at # "fill"
    BY <1>12 DEF Drops
  <2> QED
    BY <2>1, <2>2, <2>3, <1>1, <1>4, <1>6, <1>8 DEF ZoneOK
<1>13. CASE GivesUp(s)
  BY <1>1, <1>4, <1>6, <1>13, QuietTyped DEF GivesUp, ZoneOK
<1>14. CASE Spoils(s)
  <2>1. Here(s) \in Zones /\ Here(s) \notin dns[s].written
    BY <1>1, <1>3, <1>8, <1>14 DEF Spoils
  <2> QED
    BY <2>1, <1>1, <1>4, <1>6, <1>8, <1>14 DEF Spoils, ZoneOK
<1>15. CASE Balks(s)
  BY <1>1, <1>4, <1>6, <1>15 DEF Balks, ZoneOK, Here
<1> QED
  BY <1>2, <1>9, <1>10, <1>11, <1>12, <1>13, <1>14, <1>15

LEMMA ZoneKept ==
  ASSUME Base, AuthorInv, ZoneInv, Next
  PROVE  ZoneInv'
<1> SUFFICES ASSUME NEW s \in Sessions, Safe(s)' PROVE ZoneOK(s)'
  BY DEF ZoneInv, ZoneOK
<1>1. /\ TypeInv /\ zone \in [Zones -> Contents] /\ dns \in [Sessions -> DnsRecords]
      /\ dns[s] \in DnsRecords /\ dns[s].written \subseteq Zones
      /\ sweep \in [Scanners -> SweepRecords]
      /\ dns[s].at = "fill" => Here(s) \in Zones
  BY ZonesOfSplit DEF Base, TypeInv, TypeOK, PhaseInv, DnsRecords, Midway, Here
<1>2. Safe(s) \/ (Binds(s) /\ Twins(s) = {} /\ ~Missed(s))
  BY <1>1, SafeBefore
<1>3. UNCHANGED instance /\ Mark(s)' = Mark(s) /\ Empty(s)' = Empty(s)
  BY WriteFrame, ScanFrame, SocketFrame DEF Next, Mark, Own, Empty, Marked
<1>4. /\ Mark(s).by = s /\ Empty(s).by = s /\ Mark(s).is = "mark" /\ Empty(s).is = "empty"
      /\ Mark(s).of = Own(s)
  BY DEF Mark, Marked, Empty
<1>5. CASE Binds(s)
  <2>1. stage[s] = "free" /\ UNCHANGED <<zone, dns, sweep>>
    BY <1>5 DEF Binds, Bind, Moves, StillSocket
  <2>2. dns[s].at = "idle" /\ dns[s].written = {}
    BY <2>1, <1>1, QuietTyped DEF TypeInv, PhaseInv
  <2>3. \A z \in Zones : zone[z].by # s
    BY <2>1 DEF AuthorInv, AuthorOK
  <2> QED
    BY <2>1, <2>2, <2>3 DEF ZoneOK
<1>6. CASE ~Binds(s)
  <2>1. /\ Safe(s) /\ \A z \in dns[s].written : zone[z] = Mark(s)
        /\ dns[s].at = "fill" => zone[Here(s)] = Empty(s)
        /\ \A z \in Zones : zone[z].by = s => Untouched(s, z)
    BY <1>2, <1>6 DEF ZoneInv, ZoneOK
  <2>2. ASSUME NEW t \in Sessions, WriteStep(t) PROVE ZoneOK(s)'
    <3>1. CASE t = s
      BY <2>1, <2>2, <3>1, OwnWrites
    <3>2. CASE t # s
      <4>1. UNCHANGED sweep /\ \A r \in Sessions \ {t} : dns'[r] = dns[r]
        BY <2>2, <1>1, WriteFrame, WriteKinds
      <4>2. \A z \in Zones : zone[z].by = s => (zone'[z] = zone[z] /\ z \notin Claims(t)')
        BY <2>1, <2>2, <3>2, ForeignWrites
      <4>3. \A r \in Sessions \ {t} : Claims(r)' = Claims(r)
        BY <4>1, <1>3 DEF Claims, Here
      <4>4. \A z \in Zones : zone'[z].by = s => zone[z].by = s
        <5>1. ASSUME NEW z \in Zones PROVE zone'[z] = zone[z] \/ zone'[z] \in {NoFile, Empty(t), Mark(t)}
          <6>1. Shifts(t) \/ Opens(t) \/ Completes(t) \/ Drops(t) \/ GivesUp(t) \/ Spoils(t) \/ Balks(t)
            BY <2>2, <1>1, WriteKinds
          <6>2. Midway(t) => Here(t) \in Zones
            BY <1>1, ZonesOfSplit DEF TypeInv, PhaseInv, Here
          <6> QED
            BY <6>1, <6>2, <1>1 DEF Shifts, Opens, Completes, Drops, GivesUp, Spoils, Balks, Unlinks
        <5>2. NoFile.by # s /\ Empty(t).by # s /\ Mark(t).by # s
          BY <3>2, SocketAssumption DEF NoFile, Empty, Mark, Marked
        <5> QED
          BY <5>1, <5>2
      <4>5. \A z \in Zones : zone'[z].by = s => Untouched(s, z)'
        BY <4>1, <4>2, <4>3, <4>4, <2>1 DEF Untouched
      <4>6. Here(s)' = Here(s) /\ dns'[s] = dns[s]
        BY <4>1, <3>2 DEF Here
      <4> QED
        BY <4>2, <4>5, <4>6, <2>1, <1>1, <1>3, <1>4 DEF ZoneOK
    <3> QED
      BY <3>1, <3>2
  <2>3. ASSUME NEW t \in Sessions, SocketStep(t) PROVE ZoneOK(s)'
    <3>1. UNCHANGED zone
      BY <2>3, SocketFrame
    <3>2. CASE Crashes(t)
      <4>1. /\ dns' = [dns EXCEPT ![t] = Quiet] /\ sweep' = [sweep EXCEPT ![t] = Unswept]
            /\ stage' = [stage EXCEPT ![t] = "dead"]
        BY <3>2 DEF Crashes, Dies
      <4>2. t # s
        BY <4>1, <1>1 DEF Safe, Listening, TypeInv, TypeOK
      <4>3. dns'[s] = dns[s] /\ Here(s)' = Here(s)
        BY <4>1, <4>2, <1>1 DEF Here
      <4>4. ASSUME NEW z \in Zones, Untouched(s, z) PROVE Untouched(s, z)'
        <5>1. ASSUME NEW r \in Sessions PROVE Claims(r)' \subseteq Claims(r)
          <6>1. CASE r = t
            BY <4>1, <6>1, <1>1, QuietTyped DEF Claims
          <6>2. CASE r # t
            BY <4>1, <6>2, <1>1 DEF Claims, Here
          <6> QED
            BY <6>1, <6>2
        <5>2. \A x \in Scanners : sweep'[x].doomed \subseteq sweep[x].doomed
          BY <4>1, <1>1 DEF Unswept
        <5> QED
          BY <4>4, <5>1, <5>2 DEF Untouched
      <4> QED
        BY <4>3, <4>4, <3>1, <2>1, <1>3 DEF ZoneOK
    <3>3. CASE ~Crashes(t)
      <4>1. UNCHANGED <<dns, scan, sweep>>
        BY <2>3, <3>3, SocketQuiet
      <4> QED
        BY <4>1, <3>1, <2>1, <1>3 DEF ZoneOK, Untouched, Claims, Here
    <3> QED
      BY <3>2, <3>3
  <2>4. ASSUME NEW y \in Scanners, ScanStep(y) PROVE ZoneOK(s)'
    <3>1. UNCHANGED <<dns, instance>>
      BY <2>4, ScanFrame
    <3>2. ASSUME NEW z \in Zones, zone[z].by = s
          PROVE  zone'[z] = zone[z] /\ Untouched(s, z)'
      <4>1. zone[z] \in {Mark(s), Empty(s)} /\ Untouched(s, z)
        BY <2>1, <3>2 DEF AuthorInv, AuthorOK
      <4>2. sweep[y].at \in {"files", "journals"} =>
              (~MayGo(y, zone[z]) /\ (Own(s) \notin sweep[y].scope \/ y \in Sessions))
        BY <4>1, <2>1, <1>1, SafeFilesStay DEF Base
      <4>3. zone'[z] = zone[z]
        <5>1. SUFFICES ASSUME zone'[z] # zone[z] PROVE FALSE
          OBVIOUS
        <5>2. /\ sweep[y].at = "journals" /\ zone[z].is = "mark"
              /\ zone[z].of \in sweep[y].jobs
          BY <4>1, <5>1, <2>4, <1>1, ScanEffect DEF Untouched
        <5>3. y \in Recoveries /\ y \notin Sessions /\ sweep[y].jobs \subseteq sweep[y].scope
          BY <5>2, SocketAssumption DEF Base, SweepInv, SweepOK
        <5> QED
          BY <4>1, <4>2, <5>2, <5>3, <1>4
      <4>4. \A x \in Scanners : z \notin sweep'[x].doomed
        BY <4>1, <4>2, <2>4, <1>1, ScanEffect DEF Untouched
      <4> QED
        BY <4>1, <4>3, <4>4, <3>1 DEF Untouched, Claims, Here
    <3>3. \A z \in Zones : zone'[z].by = s => zone[z].by = s
      <4>1. NoFile.by # s
        BY SocketAssumption DEF NoFile
      <4> QED
        BY <4>1, <2>4, <1>1, ScanEffect
    <3> QED
      BY <3>1, <3>2, <3>3, <2>1, <1>1, <1>3, <1>4 DEF ZoneOK, Here
  <2> QED
    BY <2>2, <2>3, <2>4 DEF Next
<1> QED
  BY <1>5, <1>6

(***************************************************************************)
(* A recover and what ended sessions left.                                 *)
(***************************************************************************)
\* For somebody else's step: nothing new of an ended session appears.
LEMMA ThoroughFrame ==
  ASSUME TypeInv, NEW x \in Recoveries, ThoroughOK(x), sweep'[x] = sweep[x],
         \A s \in Sessions : Ended(s) => Ended(s)',
         \A z \in Zones : \/ zone'[z] = zone[z] \/ zone'[z] = NoFile
                          \/ (zone'[z].by \in Sessions /\ ~Ended(zone'[z].by))
  PROVE  ThoroughOK(x)'
<1>1. Sweeping(x) => \A s \in sweep[x].past : (s \in Sessions /\ Ended(s))
  BY DEF ThoroughOK, TypeInv, TypeOK, SweepRecords, Scanners
<1>2. ASSUME NEW z \in Zones, sweep[x].at \in {"files", "journals"}, Leftover(x, z)'
      PROVE  Leftover(x, z)
  <2>1. NoFile.is = "none"
    BY DEF NoFile
  <2>2. zone'[z] = zone[z] \/ (zone'[z].by \in Sessions /\ ~Ended(zone'[z].by))
    BY <2>1, <1>2 DEF Leftover
  <2>3. zone'[z].by \in sweep[x].past \union {"past"}
    BY <1>2 DEF Leftover
  <2>4. zone'[z] = zone[z]
    BY <1>1, <1>2, <2>2, <2>3, SocketAssumption DEF Sweeping
  <2> QED
    BY <2>4, <1>2 DEF Leftover
<1> QED
  BY <1>1, <1>2 DEF ThoroughOK, Sweeping, Minded

LEMMA EndedStays ==
  ASSUME TypeInv, Next
  PROVE  \A s \in Sessions : Ended(s) => Ended(s)'
<1> SUFFICES ASSUME NEW s \in Sessions, stage[s] \in {"left", "dead"}
             PROVE  stage'[s] \in {"left", "dead"}
  BY DEF Ended
<1>1. stage \in [Sessions -> {"off", "starting", "stale", "free", "bound",
                              "serving", "leaving", "left", "dead"}]
  BY DEF TypeInv, TypeOK
<1>2. ASSUME NEW t \in Sessions, SocketStep(t) PROVE stage'[s] \in {"left", "dead"}
  BY <1>1, <1>2 DEF SocketStep, Starts, Prepares, RemovesOld, Binds, Restricts, Leaves,
     RemovesOwn, Crashes, Start, Free, FindsStale, IsRefused, RemoveOld, Bind, BindFails,
     Restrict, RestrictFails, Leave, Unlink, Dies, Moves
<1> QED
  BY <1>2, WriteFrame, ScanFrame DEF Next

\* A recover's own step.
LEMMA ThoroughSteps ==
  ASSUME TypeInv, SweepInv, NEW x \in Recoveries, ThoroughOK(x), ScanStep(x)
  PROVE  ThoroughOK(x)'
<1>1. /\ scan \in [Scanners -> ScanRecords] /\ sweep \in [Scanners -> SweepRecords]
      /\ x \in Scanners /\ x \notin Sessions /\ sweep[x] \in SweepRecords
      /\ zone \in [Zones -> Contents] /\ SweepOK(x)
  BY SocketAssumption DEF TypeInv, TypeOK, Scanners, SweepInv
<1>2. UNCHANGED <<instance, stage>> /\ \A s \in Sessions : Ended(s)' = Ended(s)
  BY <1>1, ScanFrame DEF Ended
<1>3. \A z \in Zones : zone'[z] = zone[z] \/ zone'[z] = NoFile
  BY <1>1, ScanEffect
<1>4. NoFile.is = "none"
  BY DEF NoFile
<1>5. ASSUME Finishes(x) PROVE ThoroughOK(x)'
  BY <1>1, <1>5 DEF Finishes, Sweeps, Unswept, ThoroughOK, Sweeping
\* A step of the sweep that keeps its scope, and takes a file off its lists only
\* if that is gone or the sweep is flawed.
<1>6. ASSUME Sweeping(x), sweep'[x].past = sweep[x].past, sweep'[x].scope = sweep[x].scope,
             sweep[x].at \in {"files", "journals"}, sweep[x].flawed => sweep'[x].flawed,
             \/ sweep'[x].flawed
             \/ \A z \in Zones : (Leftover(x, z) /\ zone'[z] = zone[z] /\ z \in Minded(x))
                                 => z \in Minded(x)'
      PROVE  ThoroughOK(x)'
  <2>1. \A s \in sweep[x].past : Ended(s)'
    BY <1>1, <1>2, <1>6 DEF ThoroughOK, SweepRecords
  <2>2. ASSUME NEW z \in Zones, Leftover(x, z)', ~sweep'[x].flawed
        PROVE  z \in Minded(x)'
    <3>1. zone'[z] = zone[z]
      BY <2>2, <1>3, <1>4 DEF Leftover
    <3>2. Leftover(x, z)
      BY <3>1, <2>2, <1>6 DEF Leftover
    <3>3. z \in Minded(x)
      BY <3>2, <2>2, <1>6 DEF ThoroughOK
    <3> QED
      BY <3>1, <3>2, <3>3, <2>2, <1>6
  <2> QED
    BY <2>1, <2>2, <1>6 DEF ThoroughOK
<1>7. CASE BeginScan(x)
  <2>1. sweep'[x] = [Unswept EXCEPT !.at = "scan", !.past = {s \in Sessions : Ended(s)}]
    BY <1>1, <1>7 DEF BeginScan, Sweeps
  <2>2. sweep'[x].at = "scan" /\ sweep'[x].past = {s \in Sessions : Ended(s)}
    BY <2>1 DEF Unswept
  <2> QED
    BY <2>2, <1>2 DEF ThoroughOK, Sweeping
<1>8. CASE Probes(x)
  <2>1. UNCHANGED sweep /\ sweep[x].at = "scan"
    BY <1>8 DEF Probes, InSweep
  <2>2. \A s \in sweep[x].past : s \in Sessions /\ Ended(s)
    BY <2>1, <1>1 DEF ThoroughOK, Sweeping, SweepRecords
  <2> QED
    BY <2>1, <2>2, <1>2 DEF ThoroughOK
<1>9. CASE Judge(x) /\ ~Finishes(x)
  <2>1. PICK scope \in Scopes(x), listed \in BOOLEAN : Judges(x, scope, listed)
    BY <1>9, JudgeKind
  <2>2. Found(x) = There
    BY <1>1 DEF Found, There
  <2>4. /\ sweep'[x].at = "files" /\ sweep'[x].past = sweep[x].past
        /\ There \subseteq sweep'[x].todo \union sweep'[x].passed
    BY <2>1, <2>2, <1>1, JudgedFields DEF Judges, Continues, Sweeps
  <2>6. UNCHANGED zone /\ Sweeping(x)
    BY <1>9 DEF Judge, InSweep, Sweeping
  <2>7. \A z \in Zones : Leftover(x, z)' => z \in There
    BY <2>6, <1>4 DEF Leftover, There
  <2>8. \A s \in sweep[x].past : s \in Sessions /\ Ended(s)
    BY <2>6, <1>1 DEF ThoroughOK, SweepRecords
  <2>9. \A s \in sweep'[x].past : Ended(s)'
    BY <2>4, <2>8, <1>2
  <2> QED
    BY <2>4, <2>7, <2>9 DEF ThoroughOK, Minded
<1>10. CASE Reads(x)
  <2>0. PICK Z \in Batches(x), doomed \in SUBSET Zones, unread \in SUBSET Zones :
          /\ Verdict(x, Z, doomed, unread)
          /\ Continues(x, [sweep[x] EXCEPT !.todo = @ \ Z, !.doomed = doomed,
                                           !.passed = @ \union unread])
    BY <1>10 DEF Reads
  <2>1. Z = sweep[x].todo /\ Verdict(x, sweep[x].todo, doomed, unread)
    BY <2>0, <1>1 DEF Batches
  <2> DEFINE r == [sweep[x] EXCEPT !.todo = @ \ Z, !.doomed = doomed,
                                   !.passed = @ \union unread]
  <2>2. /\ r.doomed = doomed /\ r.scope = sweep[x].scope /\ r.past = sweep[x].past
        /\ r.flawed = sweep[x].flawed /\ r.passed = sweep[x].passed \union unread
    BY <1>1 DEF SweepRecords
  <2>3. Continues(x, r)
    BY <2>0
  <2> HIDE DEF r
  <2>4. sweep'[x] = r
    BY <2>3, <1>1 DEF Continues, Sweeps
  <2>5. sweep[x].at = "files" /\ sweep[x].doomed = {} /\ Sweeping(x)
    BY <1>10 DEF Reads, Sweeping
  <2>6. ASSUME NEW z \in Zones, Leftover(x, z) PROVE MayGo(x, zone[z])
    <3> DEFINE i == zone[z].of
    <3>1. zone[z].is = "mark" /\ i \in sweep[x].scope
      BY <2>6 DEF Leftover
    <3>2. Allowed(x, sweep[x].scope) /\ sweep[x].scope \in Scopes(x)
            /\ i \in Instances
      BY <3>1, <2>5, <1>1 DEF SweepOK, SweepRecords
    <3>3. CASE sweep[x].scope = Instances
      <4>1. ProvablyDead(x, i)
        BY <3>2, <3>3 DEF Allowed, Blanket, ProvablyDead
      <4> QED
        BY <4>1, <3>1, <1>1 DEF MayGo, OwnerGone
    <3>4. CASE sweep[x].scope # Instances
      <4>1. sweep[x].scope = {i}
        BY <3>1, <3>2, <3>4, <1>1 DEF Scopes
      <4>2. OwnAbsent(x, i)
        BY <3>1, <3>2, <3>4 DEF Allowed
      <4> QED
        BY <4>1, <4>2, <3>1, <1>1 DEF MayGo, OwnerGone
    <3> QED
      BY <3>3, <3>4
  <2>7. ASSUME NEW z \in Zones, Leftover(x, z), z \in sweep[x].todo
        PROVE  z \in doomed \union unread
    <3>1. MayGo(x, zone[z]) /\ zone[z] # Legacy
      BY <2>6, <2>7 DEF Leftover, Legacy
    <3> QED
      BY <3>1, <2>1, <2>7 DEF Verdict, MayStay
  <2>8. \A z \in Zones : (Leftover(x, z) /\ z \in Minded(x)) => z \in Minded(x)'
    BY <2>2, <2>4, <2>5, <2>7 DEF Minded
  <2> QED
    BY <2>2, <2>4, <2>5, <2>8, <1>6
<1>11. CASE \E z \in Zones : Removes(x, z)
  <2>1. PICK d \in Zones : Removes(x, d)
    BY <1>11
  <2> DEFINE r == [sweep[x] EXCEPT !.doomed = @ \ {d}]
             q == [sweep[x] EXCEPT !.doomed = @ \ {d}, !.flawed = TRUE]
  <2>2. /\ r.doomed = sweep[x].doomed \ {d} /\ r.scope = sweep[x].scope
        /\ r.past = sweep[x].past /\ r.flawed = sweep[x].flawed /\ r.todo = sweep[x].todo
        /\ r.passed = sweep[x].passed
        /\ q.scope = sweep[x].scope /\ q.past = sweep[x].past /\ q.flawed
    BY <1>1 DEF SweepRecords
  <2>3. (zone' = [zone EXCEPT ![d] = NoFile] /\ Continues(x, r)) \/ Continues(x, q)
    BY <2>1 DEF Removes
  <2> HIDE DEF r, q
  <2>4. sweep'[x] = q \/ (sweep'[x] = r /\ zone'[d] = NoFile)
    BY <2>3, <1>1 DEF Continues, Sweeps
  <2>5. sweep[x].at = "files" /\ Sweeping(x)
    BY <2>1, <1>1 DEF Removes, SweepOK, Sweeping
  <2>6. \A z \in Zones : Leftover(x, z) => zone[z] # NoFile
    BY <1>4 DEF Leftover
  <2> QED
    BY <2>2, <2>4, <2>5, <2>6, <1>6 DEF Minded
<1>12. CASE RemovesTemp(x)
  <2>1. PICK t : \/ Continues(x, [sweep[x] EXCEPT !.temps = @ \ {t}])
                 \/ Continues(x, [sweep[x] EXCEPT !.temps = @ \ {t}, !.flawed = TRUE])
    BY <1>12 DEF RemovesTemp
  <2> DEFINE r == [sweep[x] EXCEPT !.temps = @ \ {t}]
             q == [sweep[x] EXCEPT !.temps = @ \ {t}, !.flawed = TRUE]
  <2>2. /\ r.doomed = sweep[x].doomed /\ r.scope = sweep[x].scope
        /\ r.past = sweep[x].past /\ r.flawed = sweep[x].flawed /\ r.todo = sweep[x].todo
        /\ r.passed = sweep[x].passed
        /\ q.scope = sweep[x].scope /\ q.past = sweep[x].past /\ q.flawed
    BY <1>1 DEF SweepRecords
  <2>3. Continues(x, r) \/ Continues(x, q)
    BY <2>1
  <2> HIDE DEF r, q
  <2>4. (sweep'[x] = r \/ sweep'[x] = q) /\ sweep[x].at = "files" /\ Sweeping(x)
    BY <2>3, <1>1, <1>12 DEF Continues, Sweeps, RemovesTemp, Sweeping
  <2> QED
    BY <2>2, <2>4, <1>6 DEF Minded
<1>13. CASE FilesDone(x) /\ ~Finishes(x)
  <2>1. PICK j \in SUBSET Instances, told \in BOOLEAN :
          Continues(x, [sweep[x] EXCEPT !.at = "journals", !.jobs = j, !.flawed = @ \/ told])
    BY <1>13 DEF FilesDone
  <2> DEFINE r == [sweep[x] EXCEPT !.at = "journals", !.jobs = j, !.flawed = @ \/ told]
  <2>2. /\ r.doomed = sweep[x].doomed /\ r.scope = sweep[x].scope
        /\ r.past = sweep[x].past /\ (sweep[x].flawed => r.flawed) /\ r.todo = sweep[x].todo
        /\ r.passed = sweep[x].passed
    BY <1>1 DEF SweepRecords
  <2>3. Continues(x, r)
    BY <2>1
  <2> HIDE DEF r
  <2>4. sweep'[x] = r /\ sweep[x].at = "files" /\ Sweeping(x)
    BY <2>3, <1>1, <1>13 DEF Continues, Sweeps, FilesDone, Sweeping
  <2> QED
    BY <2>2, <2>4, <1>6 DEF Minded
<1>14. CASE Consults(x)
  <2>1. PICK i, kept : Continues(x, [sweep[x] EXCEPT !.jobs = @ \ {i}])
    BY <1>14 DEF Consults
  <2> DEFINE r == [sweep[x] EXCEPT !.jobs = @ \ {i}]
  <2>2. /\ r.doomed = sweep[x].doomed /\ r.scope = sweep[x].scope
        /\ r.past = sweep[x].past /\ (sweep[x].flawed => r.flawed) /\ r.todo = sweep[x].todo
        /\ r.passed = sweep[x].passed
    BY <1>1 DEF SweepRecords
  <2>3. Continues(x, r)
    BY <2>1
  <2> HIDE DEF r
  <2>4. sweep'[x] = r /\ sweep[x].at = "journals" /\ Sweeping(x)
    BY <2>3, <1>1, <1>14 DEF Continues, Sweeps, Consults, Sweeping
  <2> QED
    BY <2>2, <2>4, <1>6 DEF Minded
<1>15. CASE SweepEnds(x)
  BY <1>5, <1>15 DEF SweepEnds
<1> QED
  BY <1>5, <1>7, <1>8, <1>9, <1>10, <1>11, <1>12, <1>13, <1>14, <1>15 DEF ScanStep, SweepStep

LEMMA ThoroughKept ==
  ASSUME TypeInv, SweepInv, ThoroughInv, Next
  PROVE  ThoroughInv'
<1> SUFFICES ASSUME NEW x \in Recoveries PROVE ThoroughOK(x)'
  BY DEF ThoroughInv
<1>1. /\ ThoroughOK(x) /\ zone \in [Zones -> Contents] /\ x \notin Sessions /\ x \in Scanners
      /\ sweep \in [Scanners -> SweepRecords]
  BY SocketAssumption DEF ThoroughInv, TypeInv, TypeOK, Scanners
<1>2. \A s \in Sessions : Ended(s) => Ended(s)'
  BY EndedStays
<1>3. ASSUME NEW s \in Sessions, WriteStep(s) PROVE ThoroughOK(x)'
  <2>1. UNCHANGED sweep /\ ~Ended(s)'
    BY <1>3, WriteFrame, WriteKinds DEF Ended
  <2>2. Midway(s) => Here(s) \in Zones
    BY ZonesOfSplit DEF TypeInv, PhaseInv, Here
  <2>3. \A z \in Zones : zone'[z] = zone[z] \/ zone'[z] \in {NoFile, Empty(s), Mark(s)}
    <3>1. Shifts(s) \/ Opens(s) \/ Completes(s) \/ Drops(s) \/ GivesUp(s) \/ Spoils(s) \/ Balks(s)
      BY <1>3, WriteKinds
    <3> QED
      BY <3>1, <2>2, <1>1 DEF Shifts, Opens, Completes, Drops, GivesUp, Spoils, Balks, Unlinks
  <2>4. Empty(s).by = s /\ Mark(s).by = s
    BY DEF Empty, Mark, Marked
  <2> QED
    BY <2>1, <2>3, <2>4, <1>1, <1>2, ThoroughFrame
<1>4. ASSUME NEW s \in Sessions, SocketStep(s) PROVE ThoroughOK(x)'
  <2>1. UNCHANGED zone /\ sweep'[x] = sweep[x]
    BY <1>1, <1>4, SocketFrame, SocketQuiet DEF Crashes
  <2> QED
    BY <2>1, <1>1, <1>2, ThoroughFrame
<1>5. ASSUME NEW y \in Scanners, ScanStep(y) PROVE ThoroughOK(x)'
  <2>1. CASE y = x
    BY <2>1, <1>1, <1>5, ThoroughSteps
  <2>2. CASE y # x
    <3>1. sweep'[x] = sweep[x] /\ \A z \in Zones : zone'[z] = zone[z] \/ zone'[z] = NoFile
      BY <2>2, <1>1, <1>5, ScanEffect
    <3> QED
      BY <3>1, <1>1, <1>2, ThoroughFrame
  <2> QED
    BY <2>1, <2>2
<1> QED
  BY <1>3, <1>4, <1>5 DEF Next

(***************************************************************************)
(* The theorems.                                                           *)
(***************************************************************************)
IInv == Base /\ ProgressInv /\ AuthorInv /\ ZoneInv /\ ThoroughInv

LEMMA InductiveInvariant == Spec => []IInv
<1>1. Init => IInv
  <2> SUFFICES ASSUME Init PROVE IInv
    OBVIOUS
  <2>1. PICK b \in Beginnings :
             /\ zone = b.zone
             /\ stage = [s \in Sessions |-> IF s \in b.who THEN "off" ELSE "left"]
             /\ sweep = [x \in Scanners |-> IF x \in b.who THEN Unswept
                                            ELSE [Unswept EXCEPT !.at = "over"]]
    BY DEF Init
  <2>2. /\ scan = [x \in Scanners |-> Unscanned] /\ exposed = {}
        /\ dns = [s \in Sessions |-> Quiet] /\ zone \in OldFiles
    BY <2>1, BeginningsAssumption DEF Init, SocketInit
  <2>3. TypeInv
    BY InitTyped
  <2>4. /\ \A x \in Scanners : ~Sweeping(x) /\ sweep[x].doomed = {}
              /\ scan[x] = Unscanned /\ sweep[x].at \notin {"files", "journals"}
        /\ \A s \in Sessions : ~Listening(s) /\ ~Safe(s) /\ dns[s].at = "idle"
    BY <2>1, <2>2, QuietTyped DEF Sweeping, Unswept, Listening, Safe
  <2>5. SweepInv
    BY <2>4 DEF SweepInv, SweepOK, Sweeping
  <2>6. \A z \in Zones : zone[z].by \notin Sessions
    BY <2>2, SocketAssumption DEF OldFiles, NoFile, Legacy, Foreign, Past, Marked
  <2>7. Recoveries \subseteq Scanners
    BY DEF Scanners
  <2> QED
    BY <2>3, <2>4, <2>5, <2>6, <2>7 DEF IInv, Base, AloneInv, AloneOK, SeenInv, SeenOK,
       ProgressInv, Midway, AuthorInv, AuthorOK, ZoneInv, ZoneOK, ThoroughInv, ThoroughOK
<1>2. IInv /\ [Next]_vars => IInv'
  <2> SUFFICES ASSUME IInv, [Next]_vars PROVE IInv'
    OBVIOUS
  <2>1. CASE UNCHANGED vars
    <3>1. TypeInv'
      BY <2>1 DEF vars, IInv, Base, TypeInv, TypeOK, PhaseInv, Midway
    <3>2. SweepInv'
      BY <2>1 DEF vars, IInv, Base, SweepInv, SweepOK, Sweeping, Allowed, Scopes, Blanket,
         OwnAbsent, ProvablyDead, NoEndpoint, Own
    <3>3. AloneInv' /\ SeenInv'
      BY <2>1 DEF vars, IInv, Base, AloneInv, AloneOK, Safe, Listening, Own, SeenInv, SeenOK, Seen,
         Sweeping
    <3>4. ProgressInv' /\ AuthorInv'
      BY <2>1 DEF vars, IInv, ProgressInv, Midway, AuthorInv, AuthorOK, Mark, Empty, Marked, Own,
         Here
    <3>5. ZoneInv'
      BY <2>1 DEF vars, IInv, ZoneInv, ZoneOK, Safe, Listening, Untouched, Claims, Here, Mark,
         Empty, Marked, Own
    <3>6. ThoroughInv'
      BY <2>1 DEF vars, IInv, ThoroughInv, ThoroughOK, Leftover, Minded, Ended, Sweeping
    <3> QED
      BY <3>1, <3>2, <3>3, <3>4, <3>5, <3>6 DEF IInv, Base
  <2>2. CASE Next
    <3>1. TypeInv'
      BY <2>2, NextTyped DEF IInv, Base
    <3>2. SweepInv' /\ AloneInv' /\ SeenInv' /\ ProgressInv' /\ AuthorInv' /\ ThoroughInv'
      BY <2>2, SweepsKept, AlonesKept, SeensKept, ProgressKept, AuthorKept, ThoroughKept
      DEF IInv, Base
    <3>3. ZoneInv'
      BY <2>2, ZoneKept DEF IInv
    <3> QED
      BY <3>1, <3>2, <3>3 DEF IInv, Base
  <2> QED
    BY <2>1, <2>2
<1> QED
  BY <1>1, <1>2, PTL DEF Spec

\* A session that is up and not exposed has every pushed zone in its own file:
\* no sweep, no revert and no adoption by anybody else takes one from it.
THEOREM UpStaysScoped == Spec => []UpMeansScoped
<1>1. IInv => UpMeansScoped
  <2> SUFFICES ASSUME IInv, NEW s \in Sessions \ exposed, dns[s].at = "up", NEW z \in Pushed
               PROVE  zone[z] = Mark(s)
    BY DEF UpMeansScoped
  <2>1. Safe(s)
    BY DEF IInv, Base, TypeInv, PhaseInv, Safe, Listening
  <2>2. z \in dns[s].written
    BY DEF IInv, ProgressInv
  <2> QED
    BY <2>1, <2>2 DEF IInv, ZoneInv, ZoneOK
<1> QED
  BY <1>1, InductiveInvariant, PTL

\* A session that has ended by itself left no file but those it could not
\* remove or had adopted before a failed apply.
THEOREM EndedIsClean == Spec => []EndedMeansClean
<1>1. IInv => EndedMeansClean
  <2> SUFFICES ASSUME IInv, NEW s \in Sessions, NEW z \in Zones, stage[s] = "left", zone[z].by = s
               PROVE  <<s, z>> \in excused
    BY DEF EndedMeansClean
  <2>1. dns[s] = Quiet
    BY DEF IInv, Base, TypeInv, PhaseInv
  <2>2. dns[s].written = {} /\ dns[s].at = "idle"
    BY <2>1, QuietTyped
  <2> QED
    BY <2>2 DEF IInv, AuthorInv, AuthorOK
<1> QED
  BY <1>1, InductiveInvariant, PTL

\* A recover that ends without an error took every marked file of its scope
\* that sessions over by its scan had left, or passed it over with a warning.
THEOREM RecoversAreThorough == Spec => RecoverIsThorough
<1>1. ASSUME IInv, NEW x \in Recoveries, sweep[x].at = "journals", ~sweep[x].flawed
      PROVE  Remains(x) \subseteq sweep[x].passed
  <2>1. sweep[x].todo = {} /\ sweep[x].doomed = {}
    BY <1>1 DEF IInv, Base, SweepInv, SweepOK, Scanners
  <2>2. \A z \in Zones : Leftover(x, z) => z \in sweep[x].passed
    BY <2>1, <1>1 DEF IInv, ThoroughInv, ThoroughOK, Minded
  <2> QED
    BY <2>2 DEF Remains, Leftover
<1>2. IInv => \A x \in Recoveries :
                Reports(x) => sweep[x].flawed \/ Remains(x) \subseteq sweep[x].passed
  BY <1>1 DEF Reports
<1> QED
  BY <1>2, InductiveInvariant, PTL DEF RecoverIsThorough

=============================================================================
