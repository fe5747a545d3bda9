--------------------------- MODULE MCRunnerLock ---------------------------
(* Instances of RunnerLock for TLC: a run whose barrier file exists, with  *)
(* runners that beat, and one before its first heal, with runners that     *)
(* miss heartbeats.  One of the two moves, the other waits in a state of   *)
(* its Init.                                                               *)
EXTENDS RunnerLock

VARIABLES path1, nextIno1, barrierUp1, barrier1, lease1, fd1, locked1, pc1, left1, before

First == INSTANCE RunnerLock WITH
  BarrierAtStart <- FALSE, MayStall <- TRUE, Rounds <- Rounds + 1,
  path <- path1, nextIno <- nextIno1, barrierUp <- barrierUp1, barrier <- barrier1, lease <- lease1,
  fd <- fd1, locked <- locked1, pc <- pc1, left <- left1

others == <<path1, nextIno1, barrierUp1, barrier1, lease1, fd1, locked1, pc1, left1, before>>

Quiet == lease.owner = NoOne /\ ~ locked[Phantom]
Quiet1 == lease1.owner = NoOne /\ ~ locked1[Phantom]

MCInit == Init /\ First!Init /\ before \in BOOLEAN /\ (IF before THEN Quiet ELSE Quiet1)
MCNext ==
  \/ ~ before /\ Next /\ UNCHANGED others
  \/ before /\ First!Next /\ UNCHANGED <<vars, before>>
MCSpec ==
  /\ MCInit /\ [][MCNext]_<<vars, others>>
  /\ \A p \in Runners : WF_<<vars, others>>(before /\ First!Begun(p) /\ First!Admission(p) /\ UNCHANGED <<vars, before>>)
  /\ \A h \in Healers : WF_<<vars, others>>(before /\ First!Heal(h) /\ UNCHANGED <<vars, before>>)

\* Before its first heal a run strands an admission at most once, and every admission and
\* every heal decides.
Decide == []First!StrandedOnce /\ (before => First!EverybodyDecides)
=============================================================================
