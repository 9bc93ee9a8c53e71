---------------------------- MODULE MCServiceDns ----------------------------
(* Three sessions of one instance, the last of which is given other servers    *)
(* than the first two: in whatever order they come.                             *)
EXTENDS ServiceDns, TLC

CONSTANTS s1, s2, s3, work, wifi, x1

MCInstanceOf == [s \in Sessions |-> work]
MCPushed == [s \in Sessions |-> IF s = s3 THEN "new" ELSE "ours"]
MCSearch == [s \in Sessions |-> IF s = s3 THEN NoList ELSE "corp"]

=============================================================================
