-------------------------- MODULE MCBlockMgrMarks --------------------------
(* One workload of the host on BlockMgr, for the finding about the marks of  *)
(* active blocks: the host writes as long as it may, and the meta collector   *)
(* never holds it up.                                                         *)
EXTENDS BlockMgr

Addresses == 0..39

\* What the host writes: a fill, then rewrites of a few pages and of runs of them.
Workload == <<
  10, 18, 28, 16, 23, 8, 38, 4, 0, 14, 35, 24, 11, 21, 12, 36, 26, 2, 31, 5,
  6, 20, 33, 1, 13, 27, 9, 3, 17, 19, 34, 22, 32, 25, 7, 39, 15, 37, 30, 29,
  11, 12, 13, 14, 15, 32, 32, 32, 32, 32, 32, 32, 3, 9, 37, 17, 39, 23, 24, 25,
  26, 27, 28, 29, 30, 31, 8, 9, 10, 11, 12, 13, 14, 15, 23, 30, 4, 26, 19, 39,
  21, 36, 7, 23, 34, 25, 2, 33, 17, 12, 26, 17, 3, 23, 3, 3, 37, 12, 12, 12,
  12, 19, 19, 19, 19, 19 >>

VARIABLE sent  \* how many of them have been written

WorkloadInit ==
  /\ freeList = [b \in 1..Cardinality(Blocks) |-> b]
  /\ Init
  /\ sent = 0

HostWrites ==
  /\ sent < Len(Workload)
  /\ WritePage(Workload[sent + 1])
  /\ sent' = sent + 1

HostWaits ==
  /\ ~WriteAllowed \/ written = TurnLimit \/ sent = Len(Workload)
  /\ WriteEnds

Others ==
  \/ \E c \in copies : GCReadDone(c) \/ GCWriteDone(c) \/ GCWrite(c)
  \/ DoneEnds \/ HostWaits \/ CopyEnds
  \/ StartGC \/ NoStartGC
  \/ GCRead \/ GCReadNothing

WorkloadSpec ==
  WorkloadInit /\ [][HostWrites \/ (Others /\ UNCHANGED sent)]_<<vars, sent>>
=============================================================================
