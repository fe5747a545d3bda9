----------------------------- MODULE RunnerLock -----------------------------
(***************************************************************************)
(* Admission of the one runner of a run, and the heal of a wedged lock.    *)
(*                                                                         *)
(* A runner owns a run while it holds a kernel flock on the inode that the *)
(* path runner.lock names (wf.py acquire_lock).  When the lock reads held  *)
(* although no live holder can be found, a door call renames the stranded  *)
(* inode aside and creates a new one (wfcommon.heal_wedged_runner_lock).   *)
(* Every step below is one system call of one process, so that admissions, *)
(* heals, probes and deaths interleave as the kernel lets them.            *)
(***************************************************************************)
EXTENDS Naturals

CONSTANTS
  Runners,        \* runner processes; each boots at most once
  Healers,        \* door calls of release_lock / wait that run one heal each
  Siblings,       \* the runners that live in another pid namespace than the doors
  Collide,        \* the siblings whose pid number another process has here
  Phantom,        \* the stranded flock owner that no process table shows
  Ghost,          \* the runner of an earlier generation; it is dead
  NoOne,          \* nobody (no barrier owner, no lease)
  FlockTries,     \* LOCK_NB attempts of one admission round (the code: 3)
  Rounds,         \* admission rounds after a stranded inode (the code: 3)
  BarrierAtStart, \* runner.lock.heal already exists: an earlier heal left it
  MayStall        \* a live runner may miss its heartbeat for LEASE_STALE_S

Actors == Runners \cup Healers \cup {Phantom}

ASSUME LockConstants ==
  /\ Runners \cap Healers = {}
  /\ Phantom \notin Runners \cup Healers
  /\ Ghost \notin Actors
  /\ NoOne \notin Actors \cup {Ghost}
  /\ Siblings \subseteq Runners
  /\ Collide \subseteq Siblings
  /\ FlockTries \in Nat \ {0}
  /\ Rounds \in Nat \ {0}
  /\ BarrierAtStart \in BOOLEAN
  /\ MayStall \in BOOLEAN

VARIABLES
  path,      \* the inode runner.lock names now; NoIno when it is missing
  nextIno,   \* the next inode number the file system hands out
  barrierUp, \* runner.lock.heal exists
  barrier,   \* the holder of the flock on runner.lock.heal
  lease,     \* runner.lease: its owner and whether its heartbeat is fresh
  fd,        \* the inode each process has open
  locked,    \* whether it holds the flock of that inode
  pc,        \* where each process is
  left       \* what is left: flock tries, admission rounds, verifications

vars == <<path, nextIno, barrierUp, barrier, lease, fd, locked, pc, left>>

NoIno == 0

RunnerPC == {"off", "barrier", "open", "flock", "verify", "stamp", "running", "gone"}
HealerPC == {"idle", "probe", "drop", "ledger", "lease", "barrier",
             "rename", "recreate", "unlock", "end"}

Leases == [owner : Runners \cup {Ghost, NoOne}, fresh : BOOLEAN]

LockTypeOK ==
  /\ path \in Nat
  /\ nextIno \in Nat \ {0}
  /\ barrierUp \in BOOLEAN
  /\ barrier \in Runners \cup Healers \cup {NoOne}
  /\ lease \in Leases
  /\ fd \in [Actors -> Nat]
  /\ locked \in [Actors -> BOOLEAN]
  /\ pc \in [Runners \cup Healers -> RunnerPC \cup HealerPC]
  /\ \A p \in Runners : pc[p] \in RunnerPC
  /\ \A h \in Healers : pc[h] \in HealerPC
  /\ left \in [Runners \cup Healers -> [tries : Nat, rounds : Nat]]

-----------------------------------------------------------------------------
(* What the kernel and the file system answer.                             *)

\* An exclusive flock on inode i can be granted.
Grantable(i) == \A a \in Actors : locked[a] => fd[a] # i

\* /proc/locks read by a door shows the owner of the flock on inode i: only
\* processes of its own pid namespace have a row.
LedgerRow(i) ==
  \E a \in Actors \ ({Phantom} \cup Siblings) : locked[a] /\ fd[a] = i

\* A runner process exists.
Alive(p) == p \in Runners /\ pc[p] \notin {"off", "gone"}

\* Mutation: every lease is judged by its pid, that of a sibling too.
LeaseByPidOnly ==
  IF lease.owner = NoOne THEN {"absent"}
  ELSE IF Alive(lease.owner) /\ lease.owner \notin Siblings THEN {"live"} ELSE {"dead"}

\* The verdicts _lease_state can return to a door.  A lease of this namespace
\* is judged by pid and boot time, and the number of a dead pid may have been
\* reused; a lease of another namespace is judged by its heartbeat, unless its
\* pid number is taken here, in which case the boot times differ.
LeaseVerdicts ==
  IF lease.owner = NoOne THEN {"absent"}
  ELSE IF lease.owner \in Collide THEN {"dead"}
  ELSE IF lease.owner \in Siblings
       THEN IF lease.fresh THEN {"live"} ELSE {"dead"}
  ELSE IF Alive(lease.owner) THEN {"live"}
  ELSE IF lease.fresh THEN {"live", "dead"} ELSE {"dead"}

-----------------------------------------------------------------------------
(* The admission of a runner: acquire_lock.                                *)

FreshTries(p) == [left EXCEPT ![p].tries = FlockTries]

\* Mutation: an admission takes no notice of a heal.
IgnoreBarrier(p) ==
  /\ pc[p] = "off"
  /\ pc' = [pc EXCEPT ![p] = "open"]
  /\ UNCHANGED <<path, nextIno, barrierUp, barrier, lease, fd, locked, left>>

\* The barrier is honoured when its file exists and is never created here.
StartAdmission(p) ==
  /\ pc[p] = "off"
  /\ pc' = [pc EXCEPT ![p] = IF barrierUp THEN "barrier" ELSE "open"]
  /\ UNCHANGED <<path, nextIno, barrierUp, barrier, lease, fd, locked, left>>

TakeBarrier(p) ==
  /\ pc[p] = "barrier"
  /\ barrier = NoOne
  /\ barrier' = p
  /\ pc' = [pc EXCEPT ![p] = "open"]
  /\ UNCHANGED <<path, nextIno, barrierUp, lease, fd, locked, left>>

\* open(O_CREAT) of the lock path.
OpenLock(p) ==
  /\ pc[p] = "open"
  /\ IF path = NoIno
       THEN /\ path' = nextIno
            /\ nextIno' = nextIno + 1
       ELSE UNCHANGED <<path, nextIno>>
  /\ fd' = [fd EXCEPT ![p] = path']
  /\ left' = FreshTries(p)
  /\ pc' = [pc EXCEPT ![p] = "flock"]
  /\ UNCHANGED <<barrierUp, barrier, lease, locked>>

LetGoOfBarrier(a) == barrier' = IF barrier = a THEN NoOne ELSE barrier

FlockWon(p) ==
  /\ pc[p] = "flock"
  /\ Grantable(fd[p])
  /\ locked' = [locked EXCEPT ![p] = TRUE]
  /\ pc' = [pc EXCEPT ![p] = "verify"]
  /\ UNCHANGED <<path, nextIno, barrierUp, barrier, lease, fd, left>>

\* A refused LOCK_NB is tried again after 10 ms.
FlockRetried(p) ==
  /\ pc[p] = "flock"
  /\ ~ Grantable(fd[p])
  /\ left[p].tries > 1
  /\ left' = [left EXCEPT ![p].tries = @ - 1]
  /\ UNCHANGED <<path, nextIno, barrierUp, barrier, lease, fd, locked, pc>>

\* After the last refusal WORKFLOW_BUSY ends the process; the finally clause
\* lets go of the barrier.
FlockBusy(p) ==
  /\ pc[p] = "flock"
  /\ ~ Grantable(fd[p])
  /\ left[p].tries <= 1
  /\ pc' = [pc EXCEPT ![p] = "gone"]
  /\ LetGoOfBarrier(p)
  /\ UNCHANGED <<path, nextIno, barrierUp, lease, fd, locked, left>>

\* fstat(fd) against stat(path): the flock counts only on the path's inode.
VerifySameInode(p) ==
  /\ pc[p] = "verify"
  /\ path = fd[p]
  /\ pc' = [pc EXCEPT ![p] = "stamp"]
  /\ UNCHANGED <<path, nextIno, barrierUp, barrier, lease, fd, locked, left>>

\* The inode was renamed away: let go of the corpse and admit again; the last
\* round ends with WORKFLOW_BUSY, the path churns under admission.
VerifyStranded(p) ==
  /\ pc[p] = "verify"
  /\ path # fd[p]
  /\ locked' = [locked EXCEPT ![p] = FALSE]
  /\ LetGoOfBarrier(p)
  /\ IF left[p].rounds > 1
       THEN /\ left' = [left EXCEPT ![p].rounds = @ - 1]
            /\ pc' = [pc EXCEPT ![p] = "off"]
       ELSE UNCHANGED left /\ pc' = [pc EXCEPT ![p] = "gone"]
  /\ UNCHANGED <<path, nextIno, barrierUp, lease, fd>>

\* _write_lease, then the return through the finally clause.
StampLease(p) ==
  /\ pc[p] = "stamp"
  /\ lease' = [owner |-> p, fresh |-> TRUE]
  /\ LetGoOfBarrier(p)
  /\ pc' = [pc EXCEPT ![p] = "running"]
  /\ UNCHANGED <<path, nextIno, barrierUp, fd, locked, left>>

\* The lease thread of the admitted runner.
Heartbeat(p) ==
  /\ pc[p] = "running"
  /\ lease.owner = p
  /\ ~ lease.fresh
  /\ lease' = [lease EXCEPT !.fresh = TRUE]
  /\ UNCHANGED <<path, nextIno, barrierUp, barrier, fd, locked, pc, left>>

\* LEASE_STALE_S pass without a beat.
LeaseAges ==
  /\ lease.fresh
  /\ MayStall \/ ~ Alive(lease.owner)
  /\ lease' = [lease EXCEPT !.fresh = FALSE]
  /\ UNCHANGED <<path, nextIno, barrierUp, barrier, fd, locked, pc, left>>

\* A runner ends, by itself or killed; the kernel closes its descriptors.
Die(p) ==
  /\ pc[p] \notin {"off", "gone"}
  /\ pc' = [pc EXCEPT ![p] = "gone"]
  /\ locked' = [locked EXCEPT ![p] = FALSE]
  /\ LetGoOfBarrier(p)
  /\ UNCHANGED <<path, nextIno, barrierUp, lease, fd, left>>

\* The stranded flock goes away by itself.
PhantomVanishes ==
  /\ locked[Phantom]
  /\ locked' = [locked EXCEPT ![Phantom] = FALSE]
  /\ UNCHANGED <<path, nextIno, barrierUp, barrier, lease, fd, pc, left>>

-----------------------------------------------------------------------------
(* The heal: heal_wedged_runner_lock.  It verifies the wedge, takes the    *)
(* barrier, verifies again and commits.  left[h].rounds counts the         *)
(* verifications that are still to come.                                   *)

LastCheck(h) == left[h].rounds = 0

\* A verification that does not prove the wedge ends the heal.
Refuse(h) == pc' = [pc EXCEPT ![h] = IF LastCheck(h) THEN "unlock" ELSE "end"]

StartHeal(h) ==
  /\ pc[h] = "idle"
  /\ pc' = [pc EXCEPT ![h] = "probe"]
  /\ UNCHANGED <<path, nextIno, barrierUp, barrier, lease, fd, locked, left>>

\* The probe child was granted the flock: the lock is free, nothing to heal.
ProbeFree(h) ==
  /\ pc[h] = "probe"
  /\ path # NoIno
  /\ Grantable(path)
  /\ fd' = [fd EXCEPT ![h] = path]
  /\ locked' = [locked EXCEPT ![h] = TRUE]
  /\ pc' = [pc EXCEPT ![h] = "drop"]
  /\ UNCHANGED <<path, nextIno, barrierUp, barrier, lease, left>>

\* The death of the probe child is the release.
ProbeChildExits(h) ==
  /\ pc[h] = "drop"
  /\ locked' = [locked EXCEPT ![h] = FALSE]
  /\ Refuse(h)
  /\ UNCHANGED <<path, nextIno, barrierUp, barrier, lease, fd, left>>

ProbeBusy(h) ==
  /\ pc[h] = "probe"
  /\ path # NoIno
  /\ ~ Grantable(path)
  /\ pc' = [pc EXCEPT ![h] = "ledger"]
  /\ UNCHANGED <<path, nextIno, barrierUp, barrier, lease, fd, locked, left>>

\* The path is missing, unreadable, or the probe itself failed.
ProbeProvesNothing(h) ==
  /\ pc[h] = "probe"
  /\ Refuse(h)
  /\ UNCHANGED <<path, nextIno, barrierUp, barrier, lease, fd, locked, left>>

ReadLedger(h) ==
  /\ pc[h] = "ledger"
  /\ IF LedgerRow(path) THEN Refuse(h) ELSE pc' = [pc EXCEPT ![h] = "lease"]
  /\ UNCHANGED <<path, nextIno, barrierUp, barrier, lease, fd, locked, left>>

ReadLease(h) ==
  /\ pc[h] = "lease"
  /\ \E verdict \in LeaseVerdicts :
       IF verdict = "dead"
         THEN /\ pc' = [pc EXCEPT ![h] = IF LastCheck(h) THEN "rename" ELSE "barrier"]
              /\ barrierUp' = (barrierUp \/ ~ LastCheck(h))
         ELSE Refuse(h) /\ UNCHANGED barrierUp
  /\ UNCHANGED <<path, nextIno, barrier, lease, fd, locked, left>>

\* Mutation: the heal commits on what it verified before it had the barrier.
HealWithoutRecheck(h) ==
  /\ pc[h] = "barrier"
  /\ barrier = NoOne
  /\ barrier' = h
  /\ left' = [left EXCEPT ![h].rounds = 0]
  /\ pc' = [pc EXCEPT ![h] = "rename"]
  /\ UNCHANGED <<path, nextIno, barrierUp, lease, fd, locked>>

\* The barrier file was created by the open above; the flock on it is waited
\* for, and the second verification starts under it.
HealTakesBarrier(h) ==
  /\ pc[h] = "barrier"
  /\ barrier = NoOne
  /\ barrier' = h
  /\ left' = [left EXCEPT ![h].rounds = 0]
  /\ pc' = [pc EXCEPT ![h] = "probe"]
  /\ UNCHANGED <<path, nextIno, barrierUp, lease, fd, locked>>

\* The stranded inode is renamed aside, never unlinked.
RenameAside(h) ==
  /\ pc[h] = "rename"
  /\ path' = NoIno
  /\ pc' = [pc EXCEPT ![h] = "recreate"]
  /\ UNCHANGED <<nextIno, barrierUp, barrier, lease, fd, locked, left>>

Recreate(h) ==
  /\ pc[h] = "recreate"
  /\ IF path = NoIno
       THEN /\ path' = nextIno
            /\ nextIno' = nextIno + 1
       ELSE UNCHANGED <<path, nextIno>>
  /\ pc' = [pc EXCEPT ![h] = "unlock"]
  /\ UNCHANGED <<barrierUp, barrier, lease, fd, locked, left>>

\* Mutation: the heal forgets to unlock the barrier.
HealKeepsBarrier(h) ==
  /\ pc[h] = "unlock"
  /\ pc' = [pc EXCEPT ![h] = "end"]
  /\ UNCHANGED <<path, nextIno, barrierUp, barrier, lease, fd, locked, left>>

HealEnds(h) ==
  /\ pc[h] = "unlock"
  /\ LetGoOfBarrier(h)
  /\ pc' = [pc EXCEPT ![h] = "end"]
  /\ UNCHANGED <<path, nextIno, barrierUp, lease, fd, locked, left>>

\* The door is killed inside the heal.
HealerDies(h) ==
  /\ pc[h] \notin {"idle", "end"}
  /\ locked' = [locked EXCEPT ![h] = FALSE]
  /\ LetGoOfBarrier(h)
  /\ pc' = [pc EXCEPT ![h] = "end"]
  /\ UNCHANGED <<path, nextIno, barrierUp, lease, fd, left>>

-----------------------------------------------------------------------------

\* The lock file exists; its flock is free or stranded, and the last runner
\* left a lease, fresh or stale, or none at all (a legacy run directory).
Init ==
  /\ path = 1
  /\ nextIno = 2
  /\ barrierUp = BarrierAtStart
  /\ barrier = NoOne
  /\ lease \in {l \in Leases : l.owner = Ghost \/ (l.owner = NoOne /\ ~ l.fresh)}
  /\ fd = [a \in Actors |-> IF a = Phantom THEN 1 ELSE NoIno]
  /\ \E stranded \in BOOLEAN :
       locked = [a \in Actors |-> a = Phantom /\ stranded]
  /\ pc = [a \in Runners \cup Healers |-> IF a \in Runners THEN "off" ELSE "idle"]
  /\ left = [a \in Runners \cup Healers |->
               [tries |-> FlockTries, rounds |-> IF a \in Runners THEN Rounds ELSE 1]]

Admission(p) ==
  \/ StartAdmission(p) \/ TakeBarrier(p) \/ OpenLock(p) \/ FlockWon(p)
  \/ FlockRetried(p) \/ FlockBusy(p) \/ VerifySameInode(p) \/ VerifyStranded(p)
  \/ StampLease(p)

Heal(h) ==
  \/ ProbeFree(h) \/ ProbeChildExits(h) \/ ProbeBusy(h) \/ ProbeProvesNothing(h)
  \/ ReadLedger(h) \/ ReadLease(h) \/ HealTakesBarrier(h) \/ RenameAside(h)
  \/ Recreate(h) \/ HealEnds(h)

Next ==
  \/ \E p \in Runners : Admission(p) \/ Heartbeat(p) \/ Die(p)
  \/ \E h \in Healers : StartHeal(h) \/ Heal(h) \/ HealerDies(h)
  \/ LeaseAges
  \/ PhantomVanishes

Spec == Init /\ [][Next]_vars

\* Every process runs on; nothing obliges a process to start or to die.
Begun(p) == pc[p] # "off" \/ left[p].rounds < Rounds

FairSpec ==
  /\ Spec
  /\ \A p \in Runners : WF_vars(Begun(p) /\ Admission(p))
  /\ \A h \in Healers : WF_vars(Heal(h))

-----------------------------------------------------------------------------

\* A runner that passed admission drives the run: it spawns agents and commits.
Admitted(p) == pc[p] \in {"stamp", "running"}

\* Exactly one runner per run: two runner processes are never past admission
\* at once (README: "exactly one runner process per run").
AtMostOneRunner == \A p, q \in Runners : Admitted(p) /\ Admitted(q) => p = q

\* A holder is never displaced (wf.py acquire_lock, wfcommon heal): while a
\* runner is admitted, runner.lock names the very inode whose flock it holds,
\* so the next admission contends with it.
NeverDisplaced == \A p \in Runners : Admitted(p) => locked[p] /\ fd[p] = path

\* The same promise as a step: a heal moves the path only when no admitted
\* runner lives, whatever happened since the check that called it wedged.
HealSparesTheLiving ==
  [][path' # path => \A p \in Runners : ~ Admitted(p)]_vars

\* The lane always comes back: an admission that has begun ends admitted or
\* gone and a heal ends, although they wait for a barrier that they share.
\* Each begins once, so that in the end none is under way.
EverybodyDecides ==
  <>[](/\ \A p \in Runners : Begun(p) => pc[p] \in {"running", "gone"}
       /\ \A h \in Healers : pc[h] \in {"idle", "end"})

\* No runner is turned away because the path churns (wf.py:1920 calls it a bug
\* elsewhere): whoever was stranded finds the barrier in its next round, and no
\* heal strands it there, so that two of the rounds are enough.
StrandedOnce == \A p \in Runners : left[p].rounds + 1 >= Rounds

-----------------------------------------------------------------------------
(* Why it works: the inductive invariant behind AtMostOneRunner,           *)
(* NeverDisplaced and HealSparesTheLiving.  It holds in the regime the     *)
(* barrier was designed for.                                               *)

Regime == BarrierAtStart /\ Collide = {} /\ ~ MayStall

\* The part of a runner and of a heal that runs under the barrier.
InAdmission(p) == pc[p] \in {"open", "flock", "verify", "stamp"}
InHeal(h) ==
  \/ pc[h] \in {"rename", "recreate", "unlock"}
  \/ LastCheck(h) /\ pc[h] \in {"probe", "drop", "ledger", "lease"}

BarrierSerialises ==
  /\ barrierUp
  /\ \A p \in Runners : InAdmission(p) => barrier = p
  /\ \A h \in Healers : InHeal(h) => barrier = h
  /\ \A h \in Healers : pc[h] = "idle" => ~ LastCheck(h)

\* The kernel's side: a flock has one owner, and an owner has its inode open.
FlockExclusive ==
  /\ \A a, b \in Actors : locked[a] /\ locked[b] /\ fd[a] = fd[b] => a = b
  /\ \A a \in Actors : locked[a] => fd[a] # NoIno
  /\ \A p \in Runners : locked[p] => pc[p] \in {"verify", "stamp", "running"}
  /\ \A p \in Runners : pc[p] \in {"flock", "verify"} => fd[p] # NoIno
  /\ \A h \in Healers : locked[h] => pc[h] = "drop"
  /\ \A p \in Runners : pc[p] = "verify" => locked[p]

\* A running runner's own beat vouches for it.
LeaseVouches ==
  \A p \in Runners : pc[p] = "running" => lease = [owner |-> p, fresh |-> TRUE]

\* What a heal has established under the barrier stays true until it commits.
WedgeProven ==
  \A h \in Healers :
    /\ pc[h] = "lease" /\ LastCheck(h) => \A p \in Runners : Admitted(p) => p \in Siblings
    /\ pc[h] \in {"rename", "recreate"} => \A p \in Runners : ~ Admitted(p)

LockInv ==
  /\ LockTypeOK
  /\ BarrierSerialises
  /\ FlockExclusive
  /\ NeverDisplaced
  /\ LeaseVouches
  /\ WedgeProven
=============================================================================
