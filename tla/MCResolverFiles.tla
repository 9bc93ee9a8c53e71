--------------------------- MODULE MCResolverFiles ---------------------------
(* Two sessions, of one instance or of two, or one and an `opc recover`. *)
EXTENDS ResolverFiles, TLC

CONSTANTS t1, t2, r1, r2, work, home, z1, z2

MCSplit == <<z1, z2>>

Alike == [s \in Sessions |-> work]
Apart == [s \in Sessions |-> IF s = t1 THEN work ELSE home]
NoSockets == [i \in Instances |-> NoSocket]
OldOnes == [i \in Instances |-> IF i = work THEN Stale ELSE Junk]
Files(a, b) == [z \in Zones |-> IF z = z1 THEN a ELSE b]

Old(who, names) ==
  {[who |-> who, instance |-> names, sock |-> NoSockets, zone |-> Files(NoFile, Past(work))],
   [who |-> who, instance |-> names, sock |-> OldOnes, zone |-> Files(Past(work), Legacy)]}
New(who, names) ==
  [who |-> who, instance |-> names, sock |-> OldOnes, zone |-> Files(NoFile, NoFile)]

MCBeginnings == Old({t1, t2}, Apart) \union Old({t1, r1}, Apart)
                  \union {New({t1, t2}, Alike), New({t1, t2}, Apart),
                            New({t1, r1, r2}, Apart)}

=============================================================================
