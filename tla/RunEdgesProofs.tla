--------------------------- MODULE RunEdgesProofs ---------------------------
(***************************************************************************)
(* The two edges of a run, for any number of runners.  How a runner gets in *)
(* (RunnerLock): one of them believes that it holds the run.  How a run     *)
(* ends and who hears of it (Endings): one postmortem and a ledger that     *)
(* keeps, proofs of what was done, cards that ship once, owners that are    *)
(* told once.                                                               *)
(***************************************************************************)
EXTENDS RunnerLock, Endings, TLAPS

\* The initial state is well formed.
LEMMA InitTypeOK == ASSUME Init PROVE LockTypeOK
<1>1. path = 1 /\ nextIno = 2 /\ barrierUp = BarrierAtStart /\ barrier = NoOne
  BY Zenon DEF Init
<1>2. lease \in Leases
  BY Zenon DEF Init
<1>3. fd \in [Actors -> Nat]
  BY DEF Init, NoIno
<1>4. locked \in [Actors -> BOOLEAN]
  BY Zenon DEF Init
<1>5. /\ pc \in [Runners \cup Healers -> RunnerPC \cup HealerPC]
      /\ \A p \in Runners : pc[p] \in RunnerPC
      /\ \A h \in Healers : pc[h] \in HealerPC
  BY LockConstants DEF Init, RunnerPC, HealerPC
<1>6. left \in [Runners \cup Healers -> [tries : Nat, rounds : Nat]]
  BY LockConstants DEF Init
<1>7. barrierUp \in BOOLEAN
  BY <1>1, LockConstants, Zenon
<1> QED BY <1>1, <1>2, <1>3, <1>4, <1>5, <1>6, <1>7 DEF LockTypeOK

\* Every step of every process keeps the state well formed.
LEMMA StepTypeOK == ASSUME LockTypeOK, [Next]_vars PROVE LockTypeOK'
<1> USE LockConstants DEF LockTypeOK, Leases, Actors, RunnerPC, HealerPC, NoIno
<1>1. ASSUME NEW p \in Runners, Admission(p) PROVE LockTypeOK'
  <2>1. CASE StartAdmission(p) BY <2>1 DEF StartAdmission
  <2>2. CASE TakeBarrier(p) BY <2>2 DEF TakeBarrier
  <2>3. CASE OpenLock(p) BY <2>3 DEF OpenLock, FreshTries
  <2>4. CASE FlockWon(p) BY <2>4 DEF FlockWon
  <2>5. CASE FlockRetried(p) BY <2>5 DEF FlockRetried
  <2>6. CASE FlockBusy(p) BY <2>6 DEF FlockBusy, LetGoOfBarrier
  <2>7. CASE VerifySameInode(p) BY <2>7 DEF VerifySameInode
  <2>8. CASE VerifyStranded(p) BY <2>8 DEF VerifyStranded, LetGoOfBarrier
  <2>10. CASE StampLease(p) BY <2>10 DEF StampLease, LetGoOfBarrier
  <2> HIDE DEF LockTypeOK
  <2> QED
    BY <1>1, <2>1, <2>2, <2>3, <2>4, <2>5, <2>6, <2>7, <2>8, <2>10 DEF Admission
<1>2. ASSUME NEW p \in Runners, Heartbeat(p) \/ Die(p) PROVE LockTypeOK'
  <2>1. CASE Heartbeat(p) BY <2>1 DEF Heartbeat
  <2>2. CASE Die(p) BY <2>2 DEF Die, LetGoOfBarrier
  <2> HIDE DEF LockTypeOK
  <2> QED BY <1>2, <2>1, <2>2
<1>3. ASSUME NEW h \in Healers, Heal(h) PROVE LockTypeOK'
  <2>1. CASE ProbeFree(h) BY <2>1 DEF ProbeFree
  <2>2. CASE ProbeChildExits(h) BY <2>2 DEF ProbeChildExits, Refuse
  <2>3. CASE ProbeBusy(h) BY <2>3 DEF ProbeBusy
  <2>4. CASE ProbeProvesNothing(h) BY <2>4 DEF ProbeProvesNothing, Refuse
  <2>5. CASE ReadLedger(h) BY <2>5 DEF ReadLedger, Refuse
  <2>6. CASE ReadLease(h)
    <3>1. PICK read \in LeaseVerdicts :
            IF read = "dead"
              THEN /\ pc' = [pc EXCEPT ![h] = IF LastCheck(h) THEN "rename" ELSE "barrier"]
                   /\ barrierUp' = (barrierUp \/ ~ LastCheck(h))
              ELSE Refuse(h) /\ UNCHANGED barrierUp
      BY <2>6 DEF ReadLease
    <3>2. barrierUp' \in BOOLEAN
      BY <3>1, Zenon
    <3>3. \E to \in {"rename", "barrier", "unlock", "end"} : pc' = [pc EXCEPT ![h] = to]
      BY <3>1 DEF Refuse
    <3> QED BY <2>6, <3>2, <3>3 DEF ReadLease
  <2>7. CASE HealTakesBarrier(h) BY <2>7 DEF HealTakesBarrier
  <2>8. CASE RenameAside(h) BY <2>8 DEF RenameAside
  <2>9. CASE Recreate(h) BY <2>9 DEF Recreate
  <2>10. CASE HealEnds(h) BY <2>10 DEF HealEnds, LetGoOfBarrier
  <2> HIDE DEF LockTypeOK
  <2> QED
    BY <1>3, <2>1, <2>2, <2>3, <2>4, <2>5, <2>6, <2>7, <2>8, <2>9, <2>10 DEF Heal
<1>4. ASSUME NEW h \in Healers, StartHeal(h) \/ HealerDies(h) PROVE LockTypeOK'
  <2>1. CASE StartHeal(h) BY <2>1 DEF StartHeal
  <2>2. CASE HealerDies(h) BY <2>2 DEF HealerDies, LetGoOfBarrier
  <2> HIDE DEF LockTypeOK
  <2> QED BY <1>4, <2>1, <2>2
<1>5. CASE LeaseAges BY <1>5 DEF LeaseAges
<1>6. CASE PhantomVanishes BY <1>6 DEF PhantomVanishes
<1>7. CASE UNCHANGED vars BY <1>7 DEF vars
<1> HIDE DEF LockTypeOK
<1> QED BY <1>1, <1>2, <1>3, <1>4, <1>5, <1>6, <1>7 DEF Next

\* Type correctness, for any number of runners and of door calls.
THEOREM TypeCorrect == Spec => []LockTypeOK
<1> QED BY InitTypeOK, StepTypeOK, PTL DEF Spec

\* The inductive invariant holds at the start of the regime.
LEMMA InvInit == ASSUME Regime, Init PROVE LockInv
<1>1. LockTypeOK
  BY InitTypeOK
<1>2. barrierUp
  BY Zenon DEF Regime, Init
<1>3. \A a \in Actors : locked[a] => a = Phantom
  BY Zenon DEF Init
<1>4. /\ \A p \in Runners : pc[p] = "off"
      /\ \A h \in Healers : pc[h] = "idle" /\ left[h].rounds = 1
  BY LockConstants DEF Init
<1>5. BarrierSerialises
  BY <1>2, <1>4 DEF BarrierSerialises, InAdmission, InHeal, LastCheck
<1>6. FlockExclusive
  <2>1. fd[Phantom] # NoIno
    BY DEF Init, NoIno, Actors
  <2>2. \A a \in Runners \cup Healers : ~ locked[a]
    BY <1>3, LockConstants DEF Actors
  <2> QED BY <1>3, <1>4, <2>1, <2>2 DEF FlockExclusive
<1>7. NeverDisplaced /\ LeaseVouches /\ WedgeProven
  BY <1>4 DEF NeverDisplaced, LeaseVouches, WedgeProven, Admitted
<1> QED BY <1>1, <1>5, <1>6, <1>7 DEF LockInv
\* Every step of every process keeps it: one case per action.
LEMMA InvStep == ASSUME Regime, LockInv, LockTypeOK', [Next]_vars PROVE LockInv'
<1> USE LockConstants DEF LockInv, BarrierSerialises, FlockExclusive, NeverDisplaced,
      LeaseVouches, WedgeProven, Admitted, InAdmission, InHeal, LastCheck, LockTypeOK, Leases,
      Actors, RunnerPC, HealerPC, NoIno
<1>1. ASSUME NEW p \in Runners, Admission(p) \/ Heartbeat(p) \/ Die(p) PROVE LockInv'
  <2>1. CASE StartAdmission(p) BY <2>1 DEF StartAdmission
  <2>2. CASE TakeBarrier(p) BY <2>2 DEF TakeBarrier
  <2>3. CASE OpenLock(p) BY <2>3 DEF OpenLock, FreshTries
  <2>4. CASE FlockWon(p) BY <2>4 DEF FlockWon, Grantable
  <2>5. CASE FlockRetried(p) BY <2>5 DEF FlockRetried
  <2>6. CASE FlockBusy(p) BY <2>6 DEF FlockBusy, LetGoOfBarrier
  <2>7. CASE VerifySameInode(p) BY <2>7 DEF VerifySameInode
  <2>8. CASE VerifyStranded(p) BY <2>8 DEF VerifyStranded, LetGoOfBarrier
  <2>10. CASE StampLease(p)
    <3>1. \A q \in Runners : Admitted(q) => q = p
      BY <2>10 DEF StampLease
    <3>2. \A h \in Healers : ~ InHeal(h)
      BY <2>10 DEF StampLease
    <3>3. BarrierSerialises' /\ FlockExclusive' /\ NeverDisplaced'
      BY <2>10, <3>1, <3>2 DEF StampLease, LetGoOfBarrier
    <3>4. \A q \in Runners : q # p => pc'[q] # "running"
      BY <2>10, <3>1 DEF StampLease
    <3>5. LeaseVouches'
      BY <2>10, <3>4 DEF StampLease
    <3>6. WedgeProven'
      BY <2>10, <3>2 DEF StampLease
    <3> QED BY <3>3, <3>5, <3>6
  <2>11. CASE Heartbeat(p) BY <2>11 DEF Heartbeat
  <2>12. CASE Die(p) BY <2>12 DEF Die, LetGoOfBarrier
  <2> HIDE DEF LockInv
  <2> QED BY <1>1, <2>1, <2>2, <2>3, <2>4, <2>5, <2>6, <2>7, <2>8, <2>10, <2>11, <2>12 DEF Admission
<1>2. ASSUME NEW h \in Healers, StartHeal(h) \/ Heal(h) \/ HealerDies(h) PROVE LockInv'
  <2>1. CASE StartHeal(h) BY <2>1 DEF StartHeal
  <2>2. CASE ProbeFree(h) BY <2>2 DEF ProbeFree, Grantable
  <2>3. CASE ProbeChildExits(h) BY <2>3 DEF ProbeChildExits, Refuse
  <2>4. CASE ProbeBusy(h) BY <2>4 DEF ProbeBusy
  <2>5. CASE ProbeProvesNothing(h) BY <2>5 DEF ProbeProvesNothing, Refuse
  <2>6. CASE ReadLedger(h) BY <2>6 DEF ReadLedger, Refuse, LedgerRow
  <2>7. CASE ReadLease(h)
    <3>1. PICK read \in LeaseVerdicts :
            IF read = "dead"
              THEN /\ pc' = [pc EXCEPT ![h] = IF LastCheck(h) THEN "rename" ELSE "barrier"]
                   /\ barrierUp' = (barrierUp \/ ~ LastCheck(h))
              ELSE Refuse(h) /\ UNCHANGED barrierUp
      BY <2>7 DEF ReadLease
    <3>2. barrierUp'
      BY <3>1, Zenon
    <3>3. CASE read = "dead"
      <4>1. LastCheck(h) => \A p \in Runners : ~ Admitted(p)
        BY <2>7, <3>3 DEF ReadLease, LeaseVerdicts, Regime, Alive
      <4> QED BY <2>7, <3>1, <3>2, <3>3, <4>1 DEF ReadLease
    <3>4. CASE read # "dead"
      BY <2>7, <3>1, <3>2, <3>4 DEF ReadLease, Refuse
    <3> QED BY <3>3, <3>4
  <2>8. CASE HealTakesBarrier(h) BY <2>8 DEF HealTakesBarrier
  <2>9. CASE RenameAside(h) BY <2>9 DEF RenameAside
  <2>10. CASE Recreate(h) BY <2>10 DEF Recreate
  <2>11. CASE HealEnds(h) BY <2>11 DEF HealEnds, LetGoOfBarrier
  <2>12. CASE HealerDies(h) BY <2>12 DEF HealerDies, LetGoOfBarrier
  <2> HIDE DEF LockInv
  <2> QED BY <1>2, <2>1, <2>2, <2>3, <2>4, <2>5, <2>6, <2>7, <2>8, <2>9, <2>10, <2>11, <2>12 DEF Heal
<1>3. CASE LeaseAges BY <1>3 DEF LeaseAges, Regime, Alive
<1>4. CASE PhantomVanishes BY <1>4 DEF PhantomVanishes
<1>5. CASE UNCHANGED vars BY <1>5 DEF vars
<1> HIDE DEF LockInv
<1> QED BY <1>1, <1>2, <1>3, <1>4, <1>5 DEF Next

\* The inductive invariant, from the two lemmas and type correctness.
LEMMA Invariance == ASSUME Regime PROVE Spec => []LockInv
<1>1. Init => LockInv
  BY InvInit
<1>2. LockInv /\ LockTypeOK' /\ [Next]_vars => LockInv'
  BY InvStep
<1> QED BY <1>1, <1>2, TypeCorrect, PTL DEF Spec

\* No heal and no late admission ever moves the lock away under a runner that
\* was admitted, provided the barrier file exists from the start.
THEOREM HolderNeverDisplaced == ASSUME Regime PROVE Spec => []NeverDisplaced
<1>1. LockInv => NeverDisplaced
  BY DEF LockInv
<1> QED BY <1>1, Invariance, PTL

\* One run, one runner, for any number of admissions, heals, deaths.
THEOREM OneRunner == ASSUME Regime PROVE Spec => []AtMostOneRunner
<1>1. LockInv => AtMostOneRunner
  BY DEF LockInv, FlockExclusive, NeverDisplaced, AtMostOneRunner, Actors
<1> QED BY <1>1, Invariance, PTL

\* The path moves only while no admitted runner lives.
THEOREM HealSafe == ASSUME Regime PROVE Spec => HealSparesTheLiving
<1>1. LockInv /\ [Next]_vars
        => [path' # path => \A p \in Runners : ~ Admitted(p)]_vars
  <2> SUFFICES ASSUME LockInv, [Next]_vars, path' # path
               PROVE  \A p \in Runners : ~ Admitted(p)
    OBVIOUS
  <2> USE LockConstants DEF LockInv, FlockExclusive, NeverDisplaced, WedgeProven, Actors
  <2>1. CASE path = NoIno BY <2>1
  <2>2. CASE \E h \in Healers : pc[h] \in {"rename", "recreate"} BY <2>2
  <2>3. path = NoIno \/ \E h \in Healers : pc[h] \in {"rename", "recreate"}
    BY DEF Next, vars, Admission, Heal, StartAdmission, TakeBarrier, OpenLock,
       FlockWon, FlockRetried, FlockBusy, VerifySameInode, VerifyStranded,
       StampLease, Heartbeat, Die, StartHeal, ProbeFree, ProbeChildExits, ProbeBusy,
       ProbeProvesNothing, ReadLedger, ReadLease, HealTakesBarrier, RenameAside, Recreate,
       HealEnds, HealerDies, LeaseAges, PhantomVanishes
  <2> QED BY <2>1, <2>2, <2>3
<1> QED BY <1>1, Invariance, PTL DEF Spec, HealSparesTheLiving

-----------------------------------------------------------------------------
(* Exits: one postmortem, and a ledger that keeps.                         *)

\* Where a graph has a handler and may run out of its budget, nobody amends it.
UnamendedBudgets == \A e \in EndScenes : e.handler /\ "budget" \in e.reasons => e.amends = 0

Settling == {"fill", "launch", "bind", "await", "commit", "receipt", "finish"}
Handling == Settling \cup {"handle"}
ExitPlaces == E!Gone \cup Handling \cup {"drive", "verdict", "fence"}
VersionSet == [v : Nat, def : Nat]
HandlerRecs == [st : {"none", "running", "done", "failed"}, def : Nat]
ClosureSet == [exhausted : SUBSET Budgeted, never : SUBSET Budgeted]
Reasons == E!Terminal \cup {"budget"}

ExitTypes ==
  /\ ending \in E!EndingSet /\ graph \in VersionSet
  /\ verdict \in [reason : {"none", "blocked"} \cup Reasons, of : Nat]
  /\ claim \in [phase : {"none", "torn", "spawned", "finished"}, def : Nat]
  /\ said \subseteq {"spawned", "finished"} /\ rec \in HandlerRecs /\ receipt \in {"none", "running", "done", "failed"}
  /\ ledger \in Seq(ClosureSet) /\ closed \in Seq(ClosureSet)
  /\ lock \in Lives \cup {"free"}
  /\ exitPc \in [Lives -> ExitPlaces] /\ own \in [Lives -> VersionSet]
  /\ why \in [Lives -> {"none"} \cup Reasons] /\ got \in [Lives -> HandlerRecs]
  /\ launches \in Nat /\ owed \in BOOLEAN /\ rerun \in BOOLEAN /\ amends \in Nat

\* Who drives or handles has the lock, and who records a verdict before a handler too.
ExitLocks ==
  \A r \in Lives :
    /\ exitPc[r] \in Handling \cup {"drive"} => lock = r
    /\ exitPc[r] = "verdict" /\ ending.handler => lock = r
    /\ exitPc[r] \in Handling => ending.handler
    /\ exitPc[r] = "verdict" => why[r] \in ending.reasons \cap Reasons
    /\ exitPc[r] = "fence" => why[r] = "failed" /\ "failed" \in ending.reasons /\ lock # r

\* The claim is made before the launch and outlives whoever made it.
OneClaim ==
  /\ launches <= 1
  /\ E!Fresh => launches = 0
  /\ \A r \in Lives :
       /\ exitPc[r] \in Settling => claim.phase \in {"torn", "spawned"}
       /\ exitPc[r] \in {"fill", "launch"} => launches = 0

MayCap == ending.handler /\ "budget" \in ending.reasons
\* Where nobody amends, every runner has the graph.
Unamended == MayCap => amends = 0 /\ \A r \in Lives : exitPc[r] \in {"drive", "verdict", "fence"} => own[r] = graph

\* An owed postmortem is in the verdict for the next boot to see.
IsOwed ==
  /\ ~ rerun
  /\ owed =>
       /\ ending.handler /\ E!Prior \in E!Terminal /\ ~ E!Finished
       /\ \A r \in Lives : exitPc[r] \in {"drive", "verdict"} =>
            own[r] = graph /\ (MayCap => exitPc[r] = "verdict" /\ why[r] # "budget")

\* What the bracket, the record and the receipt say on the way to the end.
Bracketed ==
  /\ E!Finished => receipt = rec.st /\ receipt \in {"done", "failed"} /\ said = {"spawned", "finished"}
  /\ \A r \in Lives :
       /\ exitPc[r] \in Settling \ {"fill"} => "spawned" \in said
       /\ exitPc[r] \in {"receipt", "finish"} => rec.st = got[r].st /\ got[r].st \in {"done", "failed"}
       /\ exitPc[r] = "commit" => got[r].st \in {"done", "failed"}
       /\ exitPc[r] = "finish" => receipt = got[r].st /\ "finished" \in said

\* The ledger starts with the first closure.
FirstRow == (closed = <<>> <=> ledger = <<>>) /\ E!LedgerKeeps

HandlerLaw == ExitLocks /\ OneClaim /\ Unamended /\ IsOwed /\ Bracketed
ExitInv == ExitTypes /\ HandlerLaw /\ FirstRow

LEMMA ExitInit == ASSUME UnamendedBudgets, E!Init PROVE ExitInv
<1> USE ExitsAssumption DEF E!ExitsConstants, E!Init
<1>1. ending \in E!EndingSet /\ ending.amends \in Nat
  BY DEF E!EndingSet
<1>2. ExitTypes
  <2>1. E!NoGraph \in VersionSet /\ graph \in VersionSet /\ E!NoRec \in HandlerRecs
    BY DEF E!NoGraph, E!NoRec, VersionSet, HandlerRecs
  <2>2. exitPc \in [Lives -> ExitPlaces] /\ own \in [Lives -> VersionSet]
        /\ why \in [Lives -> {"none"} \cup Reasons] /\ got \in [Lives -> HandlerRecs]
    BY <2>1 DEF ExitPlaces, E!Gone
  <2>3. verdict \in [reason : {"none", "blocked"} \cup Reasons, of : Nat]
        /\ claim \in [phase : {"none", "torn", "spawned", "finished"}, def : Nat]
    BY DEF E!None, E!NoClaim
  <2>4. rec \in HandlerRecs /\ ledger \in Seq(ClosureSet) /\ closed \in Seq(ClosureSet)
    BY <2>1
  <2>5. lock \in Lives \cup {"free"} /\ said \subseteq {"spawned", "finished"} /\ receipt = "none" /\ launches \in Nat
        /\ owed \in BOOLEAN /\ rerun \in BOOLEAN
    OBVIOUS
  <2> QED
    BY <1>1, <2>1, <2>2, <2>3, <2>4, <2>5 DEF ExitTypes
<1>3. ExitLocks /\ OneClaim /\ Unamended /\ IsOwed /\ Bracketed
  BY DEF ExitLocks, OneClaim, Unamended, MayCap, IsOwed, Bracketed, UnamendedBudgets, Settling, Handling, E!Fresh, E!Finished, E!NoClaim
<1>4. FirstRow
  BY DEF FirstRow, E!LedgerKeeps, E!Exhausted
<1> QED
  BY <1>2, <1>3, <1>4 DEF ExitInv, HandlerLaw

-----------------------------------------------------------------------------
LEMMA Appended ==
  ASSUME NEW chain \in Seq(ClosureSet), NEW row \in ClosureSet
  PROVE  /\ Append(chain, row) \in Seq(ClosureSet) /\ Append(chain, row) # <<>>
         /\ Len(Append(chain, row)) = Len(chain) + 1 /\ Append(chain, row)[Len(chain) + 1] = row
         /\ \A i \in 1..Len(chain) : Append(chain, row)[i] = chain[i]
         /\ E!Exhausted(Append(chain, row)) = E!Exhausted(chain) \cup row.exhausted
<1> DEFINE longer == Append(chain, row)
<1>1. longer \in Seq(ClosureSet) /\ Len(longer) = Len(chain) + 1 /\ Len(chain) \in Nat
  OBVIOUS
<1>2. longer[Len(chain) + 1] = row /\ \A i \in 1..Len(chain) : longer[i] = chain[i]
  OBVIOUS
<1>3. DOMAIN longer = 1..(Len(chain) + 1) /\ DOMAIN chain = 1..Len(chain)
  BY <1>1
<1>4. longer # <<>>
  BY <1>1
<1>5. E!Exhausted(longer) = E!Exhausted(chain) \cup row.exhausted
  <2> HIDE DEF longer
  <2>1. \A x : (\E i \in DOMAIN longer : x \in longer[i].exhausted)
             <=> (\E i \in DOMAIN chain : x \in chain[i].exhausted) \/ x \in row.exhausted
    BY <1>1, <1>2, <1>3
  <2> QED
    BY <2>1 DEF E!Exhausted
<1> QED
  BY <1>1, <1>2, <1>4, <1>5

\* Row by row: a closure that repeats the last row adds nothing.
LEMMA LedgerGrows ==
  ASSUME ExitTypes, FirstRow, NEW row \in ClosureSet, ledger' = E!Merged(ledger, row), closed' = Append(closed, row)
  PROVE  ledger' \in Seq(ClosureSet) /\ closed' \in Seq(ClosureSet) /\ FirstRow'
<1> USE DEF FirstRow, E!LedgerKeeps
<1>1. closed' \in Seq(ClosureSet) /\ Len(closed') = Len(closed) + 1 /\ closed'[Len(closed) + 1] = row
      /\ (\A i \in 1..Len(closed) : closed'[i] = closed[i]) /\ closed' # <<>>
  BY Appended DEF ExitTypes
<1>2. E!Exhausted(closed') = E!Exhausted(closed) \cup row.exhausted
  BY Appended DEF ExitTypes
<1>3. CASE ledger # <<>> /\ E!Last(ledger) = row
  <2>1. ledger' = ledger /\ closed # <<>> /\ Len(ledger) \in DOMAIN ledger /\ ledger[Len(ledger)] = row
    BY <1>3 DEF E!Merged, E!Last, ExitTypes
  <2>2. row.exhausted \subseteq E!Exhausted(ledger)
    BY <2>1 DEF E!Exhausted
  <2>3. closed'[1] = closed[1]
    BY <1>1, <2>1
  <2>4. \A i \in 2..Len(ledger') : ledger'[i] # ledger'[i - 1]
    BY <2>1
  <2> QED
    BY <1>1, <1>2, <2>1, <2>2, <2>3, <2>4 DEF ExitTypes
<1>4. CASE ~ (ledger # <<>> /\ E!Last(ledger) = row)
  <2>1. ledger' = Append(ledger, row)
    BY <1>4 DEF E!Merged
  <2>2. ledger' \in Seq(ClosureSet) /\ Len(ledger') = Len(ledger) + 1 /\ ledger'[Len(ledger) + 1] = row
        /\ (\A i \in 1..Len(ledger) : ledger'[i] = ledger[i]) /\ ledger' # <<>>
    BY <2>1, Appended DEF ExitTypes
  <2>3. E!Exhausted(ledger') = E!Exhausted(ledger) \cup row.exhausted
    BY <2>1, Appended DEF ExitTypes
  <2>4. ledger'[1] = closed'[1]
    <3>1. CASE ledger = <<>>
      BY <1>1, <2>2, <3>1
    <3>2. CASE ledger # <<>>
      BY <1>1, <2>2, <3>2
    <3> QED
      BY <3>1, <3>2
  <2>5. \A i \in 2..Len(ledger') : ledger'[i] # ledger'[i - 1]
    <3> SUFFICES ASSUME NEW i \in 2..Len(ledger') PROVE ledger'[i] # ledger'[i - 1]
      OBVIOUS
    <3>1. CASE i = Len(ledger) + 1
      <4>1. ledger # <<>> /\ ledger'[i - 1] = ledger[Len(ledger)]
        BY <2>2, <3>1
      <4> QED
        BY <1>4, <2>2, <3>1, <4>1 DEF E!Last
    <3>2. CASE i # Len(ledger) + 1
      BY <2>2, <3>2
    <3> QED
      BY <3>1, <3>2
  <2> QED
    BY <1>1, <1>2, <2>2, <2>3, <2>4, <2>5
<1> QED
  BY <1>3, <1>4

LEMMA LedgerSame == ASSUME FirstRow, UNCHANGED <<ledger, closed>> PROVE FirstRow'
BY DEF FirstRow, E!LedgerKeeps, E!Exhausted

LEMMA ExitTypesStep == ASSUME ExitTypes, FirstRow, [E!Next]_(E!vars) PROVE ExitTypes'
<1> USE ExitsAssumption DEF E!ExitsConstants, E!files, E!procs, E!bounds, E!hist, E!Goes, E!Out, ExitTypes, VersionSet, HandlerRecs, ExitPlaces, E!Gone, Reasons, E!Terminal, Settling, Handling, E!None, E!NoClaim, E!NoRec, E!Prior
<1>1. ASSUME NEW r \in Lives, E!Boots(r) PROVE ExitTypes'
  <2>1. /\ \E p \in {"out", "handle", "drive"} : exitPc' = [exitPc EXCEPT ![r] = p]
        /\ verdict' \in {verdict, E!None} /\ lock' \in {lock, r} /\ rerun' \in BOOLEAN
    BY <1>1 DEF E!Boots
  <2>2. UNCHANGED <<ending, graph, claim, said, rec, receipt, ledger, closed, amends, launches, owed>>
        /\ own' = [own EXCEPT ![r] = graph] /\ why' = [why EXCEPT ![r] = "none"] /\ got' = [got EXCEPT ![r] = E!NoRec]
        /\ UNCHANGED amends
    BY <1>1 DEF E!Boots
  <2>3. exitPc' \in [Lives -> ExitPlaces] /\ lock' \in Lives \cup {"free"}
    BY <2>1
  <2>4. verdict' \in [reason : {"none", "blocked"} \cup Reasons, of : Nat]
    BY <2>1
  <2>5. got' \in [Lives -> HandlerRecs]
    BY <2>2
  <2>6. own' \in [Lives -> VersionSet] /\ why' \in [Lives -> {"none"} \cup Reasons]
    <3> HIDE DEF HandlerRecs, VersionSet, ExitPlaces, Reasons
    <3> QED
      BY <2>2
  <2> HIDE DEF HandlerRecs, VersionSet, ExitPlaces, Reasons
  <2> QED
    BY <2>1, <2>2, <2>3, <2>4, <2>5, <2>6
<1>2. ASSUME NEW r \in Lives, E!Blocks(r) PROVE ExitTypes'
  BY <1>2 DEF E!Blocks, E!Duplicate
<1>3. ASSUME NEW r \in Lives, E!Caps(r) PROVE ExitTypes'
  <2>1. PICK capped \in SUBSET Budgeted, never \in SUBSET Budgeted :
           ledger' = E!Merged(ledger, E!Row(capped, never)) /\ closed' = Append(closed, E!Row(capped, never))
    BY <1>3 DEF E!Caps
  <2>2. E!Row(capped, never) \in ClosureSet
    BY DEF E!Row, ClosureSet
  <2>3. ledger' \in Seq(ClosureSet) /\ closed' \in Seq(ClosureSet)
    BY <2>1, <2>2, LedgerGrows
  <2>4. UNCHANGED <<ending, graph, verdict, claim, said, rec, receipt, lock, own, got, launches, owed, rerun, amends>>
        /\ exitPc' = [exitPc EXCEPT ![r] = "verdict"] /\ why' = [why EXCEPT ![r] = "budget"]
    BY <1>3 DEF E!Caps
  <2>5. exitPc' \in [Lives -> ExitPlaces] /\ why' \in [Lives -> {"none"} \cup Reasons]
    BY <2>4
  <2> HIDE DEF HandlerRecs, VersionSet, ExitPlaces, Reasons
  <2> QED
    BY <2>3, <2>4, <2>5
<1>4. ASSUME NEW r \in Lives, E!Drives(r) PROVE ExitTypes'
  <2>1. PICK reason \in E!Terminal, p \in {"fence", "verdict"} :
          why' = [why EXCEPT ![r] = reason] /\ exitPc' = [exitPc EXCEPT ![r] = p] /\ lock' \in {"free", lock}
    BY <1>4 DEF E!Drives, E!EndingSet
  <2> QED
    BY <1>4, <2>1 DEF E!Drives
<1>5. ASSUME NEW r \in Lives, E!Reloads(r) PROVE ExitTypes'
  BY <1>5 DEF E!Reloads
<1>6. ASSUME NEW r \in Lives, E!Raises(r) PROVE ExitTypes'
  BY <1>6 DEF E!Raises
<1>7. ASSUME NEW r \in Lives, E!Fence(r) PROVE ExitTypes'
  <2>1. PICK p \in {"drive", "out", "verdict"} : exitPc' = [exitPc EXCEPT ![r] = p]
    BY <1>7 DEF E!Fence
  <2>2. lock' \in {lock, r} /\ own' \in {own, [own EXCEPT ![r] = graph]}
    BY <1>7 DEF E!Fence
  <2>3. exitPc' \in [Lives -> ExitPlaces]
    BY <2>1
  <2>4. own' \in [Lives -> VersionSet]
    <3> HIDE DEF VersionSet
    <3>1. graph \in VersionSet /\ own \in [Lives -> VersionSet]
      BY DEF ExitTypes
    <3> QED
      BY <2>2, <3>1
  <2> QED
    BY <1>7, <2>2, <2>3, <2>4 DEF E!Fence
<1>8. ASSUME NEW r \in Lives, E!Records(r) PROVE ExitTypes'
  BY <1>8 DEF E!Records
<1>9. ASSUME NEW r \in Lives, E!Closed(r) PROVE ExitTypes'
  BY <1>9 DEF E!Closed
<1>10. ASSUME NEW r \in Lives, E!Claims(r) PROVE ExitTypes'
  BY <1>10 DEF E!Claims
<1>11. ASSUME NEW r \in Lives, E!Fills(r) PROVE ExitTypes'
  <2>1. /\ exitPc' = [exitPc EXCEPT ![r] = "launch"] /\ claim' = [phase |-> "spawned", def |-> own[r].def]
        /\ said' = said \cup {"spawned"}
        /\ UNCHANGED <<ending, graph, verdict, rec, receipt, ledger, closed, lock, own, why, got, launches, owed, rerun, amends>>
    BY <1>11 DEF E!Fills
  <2>2. exitPc' \in [Lives -> ExitPlaces] /\ own[r].def \in Nat
    BY <2>1
  <2> HIDE DEF HandlerRecs, VersionSet, ExitPlaces, Reasons
  <2> QED
    BY <2>1, <2>2
<1>12. ASSUME NEW r \in Lives, E!Launches(r) PROVE ExitTypes'
  <2>1. PICK p \in {"bind", "commit"} : exitPc' = [exitPc EXCEPT ![r] = p]
    BY <1>12 DEF E!Launches, E!Settles
  <2>2. got' \in {got, [got EXCEPT ![r] = E!Failed(r)]} /\ launches' \in {launches, launches + 1}
    BY <1>12 DEF E!Launches, E!Settles
  <2>3. exitPc' \in [Lives -> ExitPlaces] /\ launches' \in Nat
    BY <2>1, <2>2
  <2>4. got' \in [Lives -> HandlerRecs]
    <3>1. E!Failed(r) \in HandlerRecs
      BY DEF E!Failed
    <3> HIDE DEF HandlerRecs
    <3>2. got \in [Lives -> HandlerRecs]
      BY DEF ExitTypes
    <3> QED
      BY <2>2, <3>1, <3>2
  <2>5. UNCHANGED <<ending, graph, verdict, claim, said, rec, receipt, ledger, closed, lock, own, why, owed, rerun, amends>>
    BY <1>12 DEF E!Launches
  <2> HIDE DEF HandlerRecs, VersionSet, ExitPlaces, Reasons
  <2> QED
    BY <2>3, <2>4, <2>5
<1>13. ASSUME NEW r \in Lives, E!Binds(r) PROVE ExitTypes'
  BY <1>13 DEF E!Binds
<1>14. ASSUME NEW r \in Lives, E!Harvests(r) PROVE ExitTypes'
  BY <1>14 DEF E!Harvests, E!Settles
<1>15. ASSUME NEW r \in Lives, E!Recovers(r) PROVE ExitTypes'
  <2>1. /\ \E p \in {"await", "commit"} : exitPc' = [exitPc EXCEPT ![r] = p]
        /\ \E g \in {got[r], rec, E!Failed(r)} : got' = [got EXCEPT ![r] = g]
    <3>1. got = [got EXCEPT ![r] = got[r]]
      OBVIOUS
    <3> QED
      BY <1>15, <3>1 DEF E!Recovers, E!Settles
  <2>2. UNCHANGED <<ending, graph, verdict, claim, rec, receipt, ledger, closed, lock, own, why, launches, owed, rerun, amends>>
        /\ said' = said \cup {"spawned"}
    BY <1>15 DEF E!Recovers
  <2>3. exitPc' \in [Lives -> ExitPlaces]
    BY <2>1
  <2>4. got' \in [Lives -> HandlerRecs]
    <3>1. E!Failed(r) \in HandlerRecs
      BY DEF E!Failed
    <3> HIDE DEF HandlerRecs, E!Failed
    <3>2. got[r] \in HandlerRecs /\ rec \in HandlerRecs /\ got \in [Lives -> HandlerRecs]
      BY DEF ExitTypes
    <3> QED
      BY <2>1, <3>1, <3>2
  <2> HIDE DEF HandlerRecs, VersionSet, ExitPlaces, Reasons
  <2> QED
    BY <2>2, <2>3, <2>4
<1>16. ASSUME NEW r \in Lives, E!Commits(r) PROVE ExitTypes'
  <2>1. PICK st \in {"done", "failed"} : rec' = [st |-> st, def |-> own[r].def] /\ got' = [got EXCEPT ![r] = [got[r] EXCEPT !.st = st]]
    BY <1>16 DEF E!Commits
  <2>2. rec' \in HandlerRecs /\ [got[r] EXCEPT !.st = st] \in HandlerRecs
    <3>1. own[r].def \in Nat /\ [got[r] EXCEPT !.st = st] = [st |-> st, def |-> got[r].def] /\ got[r].def \in Nat
      OBVIOUS
    <3> QED
      BY <2>1, <3>1
  <2>3. UNCHANGED <<ending, graph, verdict, claim, said, receipt, ledger, closed, lock, own, why, launches, owed, rerun, amends>>
        /\ exitPc' = [exitPc EXCEPT ![r] = "receipt"]
    BY <1>16 DEF E!Commits
  <2>4. exitPc' \in [Lives -> ExitPlaces]
    BY <2>3
  <2> HIDE DEF HandlerRecs, VersionSet, ExitPlaces, Reasons
  <2>5. got' \in [Lives -> HandlerRecs]
    BY <2>1, <2>2
  <2> QED
    BY <2>2, <2>3, <2>4, <2>5
<1>17. ASSUME NEW r \in Lives, E!Receipts(r) PROVE ExitTypes'
  BY <1>17 DEF E!Receipts
<1>18. ASSUME NEW r \in Lives, E!Finishes(r) PROVE ExitTypes'
  BY <1>18 DEF E!Finishes
<1>19. ASSUME NEW r \in Lives, E!Dies(r) PROVE ExitTypes'
  BY <1>19 DEF E!Dies
<1>20. CASE E!ChildEnds \/ UNCHANGED E!vars
  <2>1. UNCHANGED <<ending, graph, verdict, claim, said, rec, receipt, ledger, closed, lock, exitPc, own, why, got, launches, owed, rerun, amends>>
    BY <1>20 DEF E!ChildEnds, E!vars
  <2> HIDE DEF HandlerRecs, VersionSet, ExitPlaces, Reasons
  <2> QED
    BY <2>1
<1>21. CASE E!Amends
  <2>1. graph.v \in Nat /\ graph.def \in Nat
    OBVIOUS
  <2>2. graph' \in VersionSet /\ amends' \in Nat
    BY <1>21, <2>1 DEF E!Amends
  <2>3. UNCHANGED <<ending, verdict, claim, said, rec, receipt, ledger, closed, lock, exitPc, own, why, got, launches, rerun>> /\ owed' = FALSE
    BY <1>21 DEF E!Amends
  <2> HIDE DEF HandlerRecs, VersionSet, ExitPlaces, Reasons
  <2> QED
    BY <2>2, <2>3
<1> QED
  BY <1>1, <1>2, <1>3, <1>4, <1>5, <1>6, <1>7, <1>8, <1>9, <1>10, <1>11, <1>12, <1>13, <1>14, <1>15, <1>16, <1>17, <1>18, <1>19, <1>20, <1>21 DEF E!Next, E!Runs

LEMMA BootsLaw == ASSUME ExitInv, ExitTypes', NEW r \in Lives, E!Boots(r) PROVE HandlerLaw'
<1>1. PICK p \in {"out", "handle", "drive"} :
        /\ exitPc[r] \in E!Gone /\ exitPc' = [exitPc EXCEPT ![r] = p] /\ lock = "free"
        /\ p = "out" => UNCHANGED <<verdict, lock, rerun>>
        /\ p = "handle" => lock' = r /\ ending.handler /\ UNCHANGED <<verdict, rerun>>
        /\ p = "drive" => lock' = r /\ ~ E!MustHandle /\ rerun' = (rerun \/ owed)
  BY DEF E!ExitsConstants, ExitInv, E!files, E!procs, E!bounds, E!hist, E!Goes, E!Out, ExitTypes, VersionSet, HandlerRecs, ExitPlaces, E!Gone, Reasons, E!Terminal, Settling, Handling, E!None, E!NoClaim, E!NoRec, E!Prior, HandlerLaw, ExitLocks, OneClaim, Unamended, MayCap, IsOwed, Bracketed, E!Fresh, E!Finished, E!Prior, E!Boots, E!Duplicate, E!MustHandle
<1>2. owed => E!MustHandle
  BY DEF E!ExitsConstants, ExitInv, E!files, E!procs, E!bounds, E!hist, E!Goes, E!Out, ExitTypes, VersionSet, HandlerRecs, ExitPlaces, E!Gone, Reasons, E!Terminal, Settling, Handling, E!None, E!NoClaim, E!NoRec, E!Prior, HandlerLaw, ExitLocks, OneClaim, Unamended, MayCap, IsOwed, Bracketed, E!Fresh, E!Finished, E!Prior, E!Boots, E!Duplicate, E!MustHandle
<1>3. /\ UNCHANGED <<ending, graph, claim, said, rec, receipt, amends, launches, owed>>
      /\ own' = [own EXCEPT ![r] = graph] /\ why' = [why EXCEPT ![r] = "none"] /\ got' = [got EXCEPT ![r] = E!NoRec]
  BY DEF E!ExitsConstants, ExitInv, E!files, E!procs, E!bounds, E!hist, E!Goes, E!Out, ExitTypes, VersionSet, HandlerRecs, ExitPlaces, E!Gone, Reasons, E!Terminal, Settling, Handling, E!None, E!NoClaim, E!NoRec, E!Prior, HandlerLaw, ExitLocks, OneClaim, Unamended, MayCap, IsOwed, Bracketed, E!Fresh, E!Finished, E!Prior, E!Boots, E!Duplicate, E!MustHandle
<1>4. exitPc \in [Lives -> ExitPlaces] /\ own \in [Lives -> VersionSet] /\ why \in [Lives -> {"none"} \cup Reasons]
      /\ got \in [Lives -> HandlerRecs] /\ lock \notin Lives
  BY <1>1, ExitsAssumption DEF ExitInv, ExitTypes, E!ExitsConstants
<1>5. /\ exitPc'[r] = p /\ own'[r] = graph
      /\ \A s \in Lives \ {r} : exitPc'[s] = exitPc[s] /\ own'[s] = own[s] /\ why'[s] = why[s] /\ got'[s] = got[s]
  BY <1>1, <1>3, <1>4
<1>6. \A s \in Lives : exitPc[s] \notin Handling \cup {"drive"}
  BY <1>4 DEF ExitInv, HandlerLaw, ExitLocks
<1>7. ExitLocks'
  BY <1>1, <1>3, <1>4, <1>5, <1>6 DEF ExitInv, HandlerLaw, ExitLocks, Handling, Settling
<1>8. OneClaim'
  BY <1>1, <1>3, <1>5 DEF ExitInv, HandlerLaw, OneClaim, Settling, E!Fresh
<1>9. Bracketed'
  BY <1>1, <1>3, <1>5 DEF ExitInv, HandlerLaw, Bracketed, Settling, E!Finished
<1>10. Unamended'
  BY <1>3, <1>5 DEF ExitInv, HandlerLaw, Unamended, MayCap
<1>11. IsOwed'
  <2>1. ~ rerun'
    BY <1>1, <1>2 DEF ExitInv, HandlerLaw, IsOwed
  <2>2. ASSUME owed' PROVE ending'.handler /\ E!Prior' \in E!Terminal /\ ~ E!Finished' /\ p # "drive"
    BY <1>1, <1>2, <1>3, <2>2 DEF ExitInv, HandlerLaw, IsOwed, E!Prior, E!Finished
  <2>3. ASSUME owed', NEW s \in Lives, exitPc'[s] \in {"drive", "verdict"} PROVE s # r
    BY <1>1, <1>5, <2>2, <2>3
  <2> QED
    BY <1>3, <1>5, <2>1, <2>2, <2>3 DEF ExitInv, HandlerLaw, IsOwed, MayCap
<1> QED
  BY <1>7, <1>8, <1>9, <1>10, <1>11 DEF HandlerLaw

LEMMA BlocksLaw == ASSUME ExitInv, ExitTypes', NEW r \in Lives, E!Blocks(r) PROVE HandlerLaw'
BY ExitsAssumption DEF E!ExitsConstants, ExitInv, E!files, E!procs, E!bounds, E!hist, E!Goes, E!Out, ExitTypes, VersionSet, HandlerRecs, ExitPlaces, E!Gone, Reasons, E!Terminal, Settling, Handling, E!None, E!NoClaim, E!NoRec, E!Prior, HandlerLaw, ExitLocks, OneClaim, Unamended, MayCap, IsOwed, Bracketed, E!Fresh, E!Finished, E!Prior, E!Blocks, E!Duplicate

LEMMA CapsLaw == ASSUME ExitInv, ExitTypes', NEW r \in Lives, E!Caps(r) PROVE HandlerLaw'
BY ExitsAssumption DEF E!ExitsConstants, ExitInv, E!files, E!procs, E!bounds, E!hist, E!Goes, E!Out, ExitTypes, VersionSet, HandlerRecs, ExitPlaces, E!Gone, Reasons, E!Terminal, Settling, Handling, E!None, E!NoClaim, E!NoRec, E!Prior, HandlerLaw, ExitLocks, OneClaim, Unamended, MayCap, IsOwed, Bracketed, E!Fresh, E!Finished, E!Prior, E!Caps

LEMMA DrivesLaw == ASSUME ExitInv, ExitTypes', NEW r \in Lives, E!Drives(r) PROVE HandlerLaw'
<1>1. PICK reason \in ending.reasons \ {"budget", "crashed"} :
        /\ why' = [why EXCEPT ![r] = reason]
        /\ exitPc[r] = "drive" /\ exitPc' = [exitPc EXCEPT ![r] = IF reason = "failed" THEN "fence" ELSE "verdict"]
        /\ lock' = IF reason = "failed" THEN "free" ELSE lock
  BY DEF E!Drives, E!Goes
<1>2. UNCHANGED <<ending, graph, verdict, claim, said, rec, receipt, own, got, amends, launches, owed, rerun>>
  BY DEF E!Drives, E!files, E!bounds, E!hist
<1>3. exitPc \in [Lives -> ExitPlaces] /\ why \in [Lives -> {"none"} \cup Reasons] /\ "free" \notin Lives
      /\ reason \in E!Terminal
  BY <1>1, ExitsAssumption DEF ExitInv, ExitTypes, E!ExitsConstants, E!EndingSet, E!Terminal
<1>4. /\ exitPc'[r] = (IF reason = "failed" THEN "fence" ELSE "verdict") /\ why'[r] = reason
      /\ \A s \in Lives \ {r} : exitPc'[s] = exitPc[s] /\ why'[s] = why[s]
  BY <1>1, <1>3
<1>5. lock = r
  BY <1>1 DEF ExitInv, HandlerLaw, ExitLocks
<1>6. ExitLocks'
  BY <1>1, <1>2, <1>3, <1>4, <1>5 DEF ExitInv, HandlerLaw, ExitLocks, Handling, Settling, Reasons
<1>7. OneClaim'
  BY <1>2, <1>4 DEF ExitInv, HandlerLaw, OneClaim, Settling, E!Fresh
<1>8. Bracketed'
  BY <1>2, <1>4 DEF ExitInv, HandlerLaw, Bracketed, Settling, E!Finished
<1>9. Unamended'
  BY <1>1, <1>2, <1>4 DEF ExitInv, HandlerLaw, Unamended, MayCap
<1>10. IsOwed'
  BY <1>1, <1>2, <1>3, <1>4 DEF ExitInv, HandlerLaw, IsOwed, MayCap, E!Prior, E!Finished, E!Terminal
<1> QED
  BY <1>6, <1>7, <1>8, <1>9, <1>10 DEF HandlerLaw

LEMMA ReloadsLaw == ASSUME ExitInv, ExitTypes', NEW r \in Lives, E!Reloads(r) PROVE HandlerLaw'
BY ExitsAssumption DEF E!ExitsConstants, ExitInv, E!files, E!procs, E!bounds, E!hist, E!Goes, E!Out, ExitTypes, VersionSet, HandlerRecs, ExitPlaces, E!Gone, Reasons, E!Terminal, Settling, Handling, E!None, E!NoClaim, E!NoRec, E!Prior, HandlerLaw, ExitLocks, OneClaim, Unamended, MayCap, IsOwed, Bracketed, E!Fresh, E!Finished, E!Prior, E!Reloads

LEMMA RaisesLaw == ASSUME ExitInv, ExitTypes', NEW r \in Lives, E!Raises(r) PROVE HandlerLaw'
BY ExitsAssumption DEF E!ExitsConstants, ExitInv, E!files, E!procs, E!bounds, E!hist, E!Goes, E!Out, ExitTypes, VersionSet, HandlerRecs, ExitPlaces, E!Gone, Reasons, E!Terminal, Settling, Handling, E!None, E!NoClaim, E!NoRec, E!Prior, HandlerLaw, ExitLocks, OneClaim, Unamended, MayCap, IsOwed, Bracketed, E!Fresh, E!Finished, E!Prior, E!Raises

LEMMA FenceLaw == ASSUME ExitInv, ExitTypes', NEW r \in Lives, E!Fence(r) PROVE HandlerLaw'
<1>1. PICK p \in {"drive", "out", "verdict"} :
        /\ exitPc[r] = "fence" /\ exitPc' = [exitPc EXCEPT ![r] = p]
        /\ p = "drive" => own[r] # graph /\ lock = "free" /\ lock' = r /\ own' = [own EXCEPT ![r] = graph]
        /\ p = "out" => UNCHANGED <<lock, own>>
        /\ p = "verdict" => lock = "free" /\ own[r] = graph /\ UNCHANGED own /\ lock' = IF ending.handler THEN r ELSE lock
  BY DEF E!Fence, E!Goes
<1>2. UNCHANGED <<ending, graph, verdict, claim, said, rec, receipt, why, got, amends, launches, owed, rerun>>
  BY DEF E!Fence, E!files, E!bounds, E!hist
<1>3. exitPc \in [Lives -> ExitPlaces] /\ own \in [Lives -> VersionSet] /\ "free" \notin Lives
  BY ExitsAssumption DEF ExitInv, ExitTypes, E!ExitsConstants
<1>4. /\ exitPc'[r] = p /\ own'[r] \in {own[r], graph} /\ (p = "drive" => own'[r] = graph) /\ (p = "verdict" => own'[r] = graph)
      /\ \A s \in Lives \ {r} : exitPc'[s] = exitPc[s] /\ own'[s] = own[s]
  BY <1>1, <1>3
<1>5. why[r] = "failed" /\ "failed" \in ending.reasons /\ lock # r
  BY <1>1 DEF ExitInv, HandlerLaw, ExitLocks
<1>6. ExitLocks'
  <2>1. lock' # lock => lock = "free" /\ lock' = r
    BY <1>1
  <2>2. (p = "drive" => lock' = r) /\ (p = "verdict" /\ ending.handler => lock' = r)
    BY <1>1
  <2> QED
    BY <1>2, <1>3, <1>4, <1>5, <2>1, <2>2 DEF ExitInv, HandlerLaw, ExitLocks, Handling, Settling, Reasons, E!Terminal
<1>7. OneClaim'
  BY <1>2, <1>4 DEF ExitInv, HandlerLaw, OneClaim, Settling, E!Fresh
<1>8. Bracketed'
  BY <1>2, <1>4 DEF ExitInv, HandlerLaw, Bracketed, Settling, E!Finished
<1>9. Unamended'
  BY <1>1, <1>2, <1>4 DEF ExitInv, HandlerLaw, Unamended, MayCap
<1>10. IsOwed'
  <2>1. MayCap => p # "drive"
    BY <1>1, <1>2 DEF ExitInv, HandlerLaw, Unamended
  <2> QED
    BY <1>1, <1>2, <1>4, <1>5, <2>1 DEF ExitInv, HandlerLaw, IsOwed, MayCap, E!Prior, E!Finished
<1> QED
  BY <1>6, <1>7, <1>8, <1>9, <1>10 DEF HandlerLaw

LEMMA RecordsLaw == ASSUME ExitInv, ExitTypes', NEW r \in Lives, E!Records(r) PROVE HandlerLaw'
<1>1. PICK p \in {"handle", "out"} :
        /\ exitPc[r] = "verdict" /\ exitPc' = [exitPc EXCEPT ![r] = p]
        /\ p = "handle" => ending.handler /\ why[r] \in E!Terminal /\ UNCHANGED lock
        /\ p = "out" => ~ (ending.handler /\ why[r] \in E!Terminal) /\ lock' = IF lock = r THEN "free" ELSE lock
  BY DEF E!Records, E!Goes, E!Out
<1>2. /\ UNCHANGED <<ending, graph, claim, said, rec, receipt, own, why, got, launches, rerun, amends>>
      /\ verdict' = [reason |-> why[r], of |-> own[r].v]
      /\ owed' = (owed \/ (ending.handler /\ why[r] \in E!Terminal /\ own[r] = graph /\ ~ E!Finished))
  BY DEF E!Records, E!bounds
<1>3. exitPc \in [Lives -> ExitPlaces] /\ "free" \notin Lives
  BY ExitsAssumption DEF ExitInv, ExitTypes, E!ExitsConstants
<1>4. exitPc'[r] = p /\ \A s \in Lives \ {r} : exitPc'[s] = exitPc[s]
  BY <1>1, <1>3
<1>5. why[r] \in Reasons /\ (ending.handler => lock = r)
  BY <1>1 DEF ExitInv, HandlerLaw, ExitLocks
<1>6. ExitLocks'
  BY <1>1, <1>2, <1>3, <1>4, <1>5 DEF ExitInv, HandlerLaw, ExitLocks, Handling, Settling
<1>7. OneClaim'
  BY <1>2, <1>4 DEF ExitInv, HandlerLaw, OneClaim, Settling, E!Fresh
<1>8. Bracketed'
  BY <1>2, <1>4 DEF ExitInv, HandlerLaw, Bracketed, Settling, E!Finished
<1>9. Unamended'
  BY <1>2, <1>4 DEF ExitInv, HandlerLaw, Unamended, MayCap
<1>10. IsOwed'
  <2>1. ~ rerun' /\ E!Finished' = E!Finished /\ MayCap' = MayCap
    BY <1>2 DEF ExitInv, HandlerLaw, IsOwed, E!Finished, MayCap
  <2>2. ASSUME owed' PROVE ending.handler /\ own[r] = graph /\ why[r] \in E!Terminal /\ ~ E!Finished
    BY <1>1, <1>2, <1>5, <2>2 DEF ExitInv, HandlerLaw, IsOwed, MayCap, Reasons, ExitLocks
  <2>3. ASSUME owed' PROVE E!Prior' \in E!Terminal
    BY <1>2, <2>2, <2>3 DEF E!Prior
  <2>4. ASSUME owed', NEW s \in Lives, exitPc'[s] \in {"drive", "verdict"} PROVE FALSE
    BY <1>1, <1>4, <1>5, <2>2, <2>4 DEF ExitInv, HandlerLaw, ExitLocks
  <2> QED
    BY <1>2, <2>1, <2>2, <2>3, <2>4 DEF IsOwed
<1> QED
  BY <1>6, <1>7, <1>8, <1>9, <1>10 DEF HandlerLaw

LEMMA ClosedLaw == ASSUME ExitInv, ExitTypes', NEW r \in Lives, E!Closed(r) PROVE HandlerLaw'
BY ExitsAssumption DEF E!ExitsConstants, ExitInv, E!files, E!procs, E!bounds, E!hist, E!Goes, E!Out, ExitTypes, VersionSet, HandlerRecs, ExitPlaces, E!Gone, Reasons, E!Terminal, Settling, Handling, E!None, E!NoClaim, E!NoRec, E!Prior, HandlerLaw, ExitLocks, OneClaim, Unamended, MayCap, IsOwed, Bracketed, E!Fresh, E!Finished, E!Prior, E!Closed

LEMMA ClaimsLaw == ASSUME ExitInv, ExitTypes', NEW r \in Lives, E!Claims(r) PROVE HandlerLaw'
BY ExitsAssumption DEF E!ExitsConstants, ExitInv, E!files, E!procs, E!bounds, E!hist, E!Goes, E!Out, ExitTypes, VersionSet, HandlerRecs, ExitPlaces, E!Gone, Reasons, E!Terminal, Settling, Handling, E!None, E!NoClaim, E!NoRec, E!Prior, HandlerLaw, ExitLocks, OneClaim, Unamended, MayCap, IsOwed, Bracketed, E!Fresh, E!Finished, E!Prior, E!Claims

LEMMA FillsLaw == ASSUME ExitInv, ExitTypes', NEW r \in Lives, E!Fills(r) PROVE HandlerLaw'
BY ExitsAssumption DEF E!ExitsConstants, ExitInv, E!files, E!procs, E!bounds, E!hist, E!Goes, E!Out, ExitTypes, VersionSet, HandlerRecs, ExitPlaces, E!Gone, Reasons, E!Terminal, Settling, Handling, E!None, E!NoClaim, E!NoRec, E!Prior, HandlerLaw, ExitLocks, OneClaim, Unamended, MayCap, IsOwed, Bracketed, E!Fresh, E!Finished, E!Prior, E!Fills

LEMMA LaunchesLaw == ASSUME ExitInv, ExitTypes', NEW r \in Lives, E!Launches(r) PROVE HandlerLaw'
<1> USE ExitsAssumption DEF E!ExitsConstants, ExitInv, E!files, E!procs, E!bounds, E!hist, E!Goes, E!Out, ExitTypes, VersionSet, HandlerRecs, ExitPlaces, E!Gone, Reasons, E!Terminal, Settling, Handling, E!None, E!NoClaim, E!NoRec, E!Prior, HandlerLaw, ExitLocks, OneClaim, Unamended, MayCap, IsOwed, Bracketed, E!Fresh, E!Finished, E!Prior, E!Launches, E!Settles, E!Failed
<1>1. CASE ending.ready
  <2>1. exitPc[r] = "launch" /\ launches = 0 /\ launches' = 1 /\ exitPc' = [exitPc EXCEPT ![r] = "bind"]
    BY <1>1
  <2>2. OneClaim'
    BY <1>1, <2>1
  <2>3. ExitLocks' /\ Unamended' /\ IsOwed' /\ Bracketed'
    BY <1>1, <2>1
  <2> QED
    BY <2>2, <2>3
<1>2. CASE ~ ending.ready
  <2>1. /\ exitPc[r] = "launch" /\ exitPc' = [exitPc EXCEPT ![r] = "commit"] /\ got' = [got EXCEPT ![r] = [st |-> "failed", def |-> own[r].def]]
        /\ UNCHANGED <<ending, graph, verdict, claim, said, rec, receipt, lock, own, why, amends, launches, owed, rerun>>
    BY <1>2
  <2>2. /\ exitPc'[r] = "commit" /\ got'[r].st = "failed"
        /\ \A s \in Lives \ {r} : exitPc'[s] = exitPc[s] /\ got'[s] = got[s]
    BY <2>1
  <2>3. ExitLocks'
    BY <2>1, <2>2
  <2>4. OneClaim' /\ Unamended' /\ IsOwed'
    BY <2>1, <2>2
  <2>5. Bracketed'
    BY <2>1, <2>2
  <2> QED
    BY <2>3, <2>4, <2>5
<1> QED
  BY <1>1, <1>2

LEMMA BindsLaw == ASSUME ExitInv, ExitTypes', NEW r \in Lives, E!Binds(r) PROVE HandlerLaw'
BY ExitsAssumption DEF E!ExitsConstants, ExitInv, E!files, E!procs, E!bounds, E!hist, E!Goes, E!Out, ExitTypes, VersionSet, HandlerRecs, ExitPlaces, E!Gone, Reasons, E!Terminal, Settling, Handling, E!None, E!NoClaim, E!NoRec, E!Prior, HandlerLaw, ExitLocks, OneClaim, Unamended, MayCap, IsOwed, Bracketed, E!Fresh, E!Finished, E!Prior, E!Binds

LEMMA HarvestsLaw == ASSUME ExitInv, ExitTypes', NEW r \in Lives, E!Harvests(r) PROVE HandlerLaw'
BY ExitsAssumption DEF E!ExitsConstants, ExitInv, E!files, E!procs, E!bounds, E!hist, E!Goes, E!Out, ExitTypes, VersionSet, HandlerRecs, ExitPlaces, E!Gone, Reasons, E!Terminal, Settling, Handling, E!None, E!NoClaim, E!NoRec, E!Prior, HandlerLaw, ExitLocks, OneClaim, Unamended, MayCap, IsOwed, Bracketed, E!Fresh, E!Finished, E!Prior, E!Harvests, E!Settles

LEMMA RecoversLaw == ASSUME ExitInv, ExitTypes', NEW r \in Lives, E!Recovers(r) PROVE HandlerLaw'
<1> USE ExitsAssumption DEF E!ExitsConstants, ExitInv, E!files, E!procs, E!bounds, E!hist, E!Goes, E!Out, ExitTypes, VersionSet, HandlerRecs, ExitPlaces, E!Gone, Reasons, E!Terminal, Settling, Handling, E!None, E!NoClaim, E!NoRec, E!Prior, HandlerLaw, ExitLocks, OneClaim, Unamended, MayCap, IsOwed, Bracketed, E!Fresh, E!Finished, E!Prior, E!Recovers, E!Settles, E!Failed
<1>1. PICK p \in {"await", "commit"} :
        /\ exitPc[r] = "handle" /\ exitPc' = [exitPc EXCEPT ![r] = p] /\ claim.phase \in {"torn", "spawned"}
        /\ \A s \in Lives : s # r => got'[s] = got[s]
        /\ p = "commit" => got'[r].st \in {"done", "failed"}
  OBVIOUS
<1>2. said' = said \cup {"spawned"}
      /\ UNCHANGED <<ending, graph, verdict, claim, rec, receipt, ledger, child, lock, own, why, E!bounds, E!hist>>
  OBVIOUS
<1>3. ExitLocks' /\ OneClaim'
  BY <1>1, <1>2
<1>4. Unamended' /\ IsOwed'
  BY <1>1, <1>2
<1>5. Bracketed'
  BY <1>1, <1>2
<1> QED
  BY <1>3, <1>4, <1>5

LEMMA CommitsLaw == ASSUME ExitInv, ExitTypes', NEW r \in Lives, E!Commits(r) PROVE HandlerLaw'
<1>1. PICK st \in {"done", "failed"} :
        /\ exitPc[r] = "commit" /\ exitPc' = [exitPc EXCEPT ![r] = "receipt"]
        /\ rec' = [st |-> st, def |-> own[r].def] /\ got' = [got EXCEPT ![r].st = st]
  BY DEF E!Commits, E!Goes
<1>2. UNCHANGED <<ending, graph, verdict, claim, said, receipt, lock, own, why, launches, owed, rerun, amends>>
  BY DEF E!Commits, E!bounds, E!hist
<1>3. exitPc \in [Lives -> ExitPlaces] /\ got \in [Lives -> HandlerRecs]
  BY DEF ExitInv, ExitTypes
<1>4. /\ exitPc'[r] = "receipt" /\ got'[r].st = st
      /\ \A s \in Lives \ {r} : exitPc'[s] = exitPc[s] /\ got'[s] = got[s]
  BY <1>1, <1>3 DEF HandlerRecs
<1>5. claim.phase \in {"torn", "spawned"} /\ lock = r
  BY <1>1 DEF ExitInv, HandlerLaw, OneClaim, ExitLocks, Settling, Handling
<1>6. ExitLocks'
  BY <1>1, <1>2, <1>4 DEF ExitInv, HandlerLaw, ExitLocks, Handling, Settling
<1>7. OneClaim'
  BY <1>1, <1>2, <1>4 DEF ExitInv, HandlerLaw, OneClaim, Settling, E!Fresh
<1>8. Bracketed'
  <2>1. ~ E!Finished'
    BY <1>2, <1>5 DEF E!Finished
  <2>2. \A s \in Lives \ {r} : exitPc[s] \notin Settling
    BY <1>5 DEF ExitInv, HandlerLaw, ExitLocks, Handling
  <2> QED
    BY <1>1, <1>2, <1>4, <2>1, <2>2 DEF ExitInv, HandlerLaw, Bracketed, Settling
<1>9. Unamended'
  BY <1>2, <1>4 DEF ExitInv, HandlerLaw, Unamended, MayCap
<1>10. IsOwed'
  BY <1>2, <1>4 DEF ExitInv, HandlerLaw, IsOwed, MayCap, E!Prior, E!Finished
<1> QED
  BY <1>6, <1>7, <1>8, <1>9, <1>10 DEF HandlerLaw

LEMMA ReceiptsLaw == ASSUME ExitInv, ExitTypes', NEW r \in Lives, E!Receipts(r) PROVE HandlerLaw'
BY ExitsAssumption DEF E!ExitsConstants, ExitInv, E!files, E!procs, E!bounds, E!hist, E!Goes, E!Out, ExitTypes, VersionSet, HandlerRecs, ExitPlaces, E!Gone, Reasons, E!Terminal, Settling, Handling, E!None, E!NoClaim, E!NoRec, E!Prior, HandlerLaw, ExitLocks, OneClaim, Unamended, MayCap, IsOwed, Bracketed, E!Fresh, E!Finished, E!Prior, E!Receipts

LEMMA FinishesLaw == ASSUME ExitInv, ExitTypes', NEW r \in Lives, E!Finishes(r) PROVE HandlerLaw'
BY ExitsAssumption DEF E!ExitsConstants, ExitInv, E!files, E!procs, E!bounds, E!hist, E!Goes, E!Out, ExitTypes, VersionSet, HandlerRecs, ExitPlaces, E!Gone, Reasons, E!Terminal, Settling, Handling, E!None, E!NoClaim, E!NoRec, E!Prior, HandlerLaw, ExitLocks, OneClaim, Unamended, MayCap, IsOwed, Bracketed, E!Fresh, E!Finished, E!Prior, E!Finishes

LEMMA DiesLaw == ASSUME ExitInv, ExitTypes', NEW r \in Lives, E!Dies(r) PROVE HandlerLaw'
<1>1. /\ exitPc' = [exitPc EXCEPT ![r] = "dead"] /\ lock' = IF lock = r THEN "free" ELSE lock
      /\ UNCHANGED <<ending, graph, verdict, claim, said, rec, receipt, own, why, got, launches, owed, rerun, amends>>
  BY DEF E!Dies, E!files, E!hist
<1>2. exitPc'[r] = "dead" /\ \A s \in Lives \ {r} : exitPc'[s] = exitPc[s]
  BY <1>1 DEF ExitInv, ExitTypes
<1>3. ExitLocks'
  <2>1. "free" \notin Lives
    BY ExitsAssumption DEF E!ExitsConstants
  <2> QED
    BY <1>1, <1>2, <2>1 DEF ExitInv, HandlerLaw, ExitLocks, Handling, Settling
<1>4. OneClaim'
  BY <1>1, <1>2 DEF ExitInv, HandlerLaw, OneClaim, Settling, E!Fresh
<1>5. Bracketed'
  BY <1>1, <1>2 DEF ExitInv, HandlerLaw, Bracketed, Settling, E!Finished
<1>6. Unamended'
  BY <1>1, <1>2 DEF ExitInv, HandlerLaw, Unamended, MayCap
<1>7. IsOwed'
  BY <1>1, <1>2 DEF ExitInv, HandlerLaw, IsOwed, MayCap, E!Prior, E!Finished
<1> QED
  BY <1>3, <1>4, <1>5, <1>6, <1>7 DEF HandlerLaw

LEMMA OthersLaw == ASSUME ExitInv, ExitTypes', E!ChildEnds \/ E!Amends \/ UNCHANGED E!vars PROVE HandlerLaw'
<1> USE ExitsAssumption DEF E!ExitsConstants, ExitInv, E!files, E!procs, E!bounds, E!hist, E!Goes, E!Out, ExitTypes, VersionSet, HandlerRecs, ExitPlaces, E!Gone, Reasons, E!Terminal, Settling, Handling, E!None, E!NoClaim, E!NoRec, E!Prior, HandlerLaw, ExitLocks, OneClaim, Unamended, MayCap, IsOwed, Bracketed, E!Fresh, E!Finished, E!Prior
<1>1. CASE E!ChildEnds \/ UNCHANGED E!vars
  <2>1. UNCHANGED <<ending, E!files, lock, E!procs, E!bounds, E!hist>>
    BY <1>1 DEF E!ChildEnds, E!vars
  <2> QED
    BY <2>1
<1>2. CASE E!Amends
  BY <1>2 DEF E!Amends
<1> QED
  BY <1>1, <1>2

LEMMA RowsStep == ASSUME ExitTypes, FirstRow, [E!Next]_(E!vars) PROVE FirstRow'
<1>1. ASSUME NEW r \in Lives, E!Caps(r) PROVE FirstRow'
  <2>1. PICK capped \in SUBSET Budgeted, never \in SUBSET Budgeted :
           ledger' = E!Merged(ledger, E!Row(capped, never)) /\ closed' = Append(closed, E!Row(capped, never))
    BY <1>1 DEF E!Caps
  <2>2. E!Row(capped, never) \in ClosureSet
    BY DEF E!Row, ClosureSet
  <2> QED
    BY <2>1, <2>2, LedgerGrows
<1>2. CASE \A r \in Lives : ~ E!Caps(r)
  <2>1. UNCHANGED <<ledger, closed>>
    BY <1>2 DEF E!Next, E!Runs, E!vars, E!files, E!hist, E!Boots, E!Blocks, E!Drives, E!Reloads, E!Raises, E!Fence, E!Records, E!Closed, E!Claims, E!Fills, E!Launches, E!Binds, E!Harvests, E!Recovers, E!Commits, E!Receipts, E!Finishes, E!Dies, E!ChildEnds, E!Amends
  <2> QED
    BY <2>1, LedgerSame
<1> QED
  BY <1>1, <1>2

LEMMA ExitStep == ASSUME ExitInv, [E!Next]_(E!vars) PROVE ExitInv'
<1>1. ExitTypes' /\ FirstRow'
  BY ExitTypesStep, RowsStep DEF ExitInv
<1>2. HandlerLaw'
  BY <1>1, BootsLaw, BlocksLaw, CapsLaw, DrivesLaw, ReloadsLaw, RaisesLaw, FenceLaw, RecordsLaw, ClosedLaw, ClaimsLaw, FillsLaw, LaunchesLaw, BindsLaw, HarvestsLaw, RecoversLaw, CommitsLaw, ReceiptsLaw, FinishesLaw, DiesLaw, OthersLaw DEF E!Next, E!Runs
<1> QED
  BY <1>1, <1>2 DEF ExitInv

LEMMA ExitInvHolds == ASSUME UnamendedBudgets PROVE E!Spec => []ExitInv
<1>1. E!Init => ExitInv
  BY ExitInit
<1>2. ExitInv /\ [E!Next]_(E!vars) => ExitInv'
  BY ExitStep
<1> QED
  BY <1>1, <1>2, PTL DEF E!Spec

LEMMA ExitInvKeeps == ExitInv => E!PostmortemIsOne /\ E!LedgerKeeps
BY DEF ExitInv, HandlerLaw, OneClaim, IsOwed, Bracketed, FirstRow, E!PostmortemIsOne

LEMMA VerdictStep == ASSUME ExitInv, [E!Next]_(E!vars) PROVE E!KeepsVerdict
<1> SUFFICES ASSUME NEW r \in Lives, lock = r, exitPc[r] \notin E!Gone \cup {"drive", "verdict"} PROVE verdict' = verdict
  BY DEF E!KeepsVerdict
<1>1. exitPc[r] \in Handling /\ ending.handler /\ lock # "free"
  BY ExitsAssumption DEF ExitInv, HandlerLaw, ExitTypes, ExitLocks, ExitPlaces, Handling, E!ExitsConstants
<1>2. ASSUME NEW s \in Lives, E!Raises(s) \/ E!Records(s) PROVE FALSE
  <2>1. exitPc[s] \in {"drive", "verdict"}
    BY <1>2 DEF E!Raises, E!Records, E!Out, E!Goes
  <2> QED
    BY <1>1, <2>1 DEF ExitInv, HandlerLaw, ExitLocks, Handling, Settling
<1>3. ASSUME NEW s \in Lives, E!Boots(s) \/ E!Blocks(s) PROVE FALSE
  BY <1>1, <1>3 DEF E!Boots, E!Blocks
<1> QED
  BY <1>2, <1>3 DEF E!Next, E!Runs, E!vars, E!files, E!Caps, E!Drives, E!Reloads, E!Fence, E!Closed, E!Claims, E!Fills, E!Launches, E!Binds, E!Harvests, E!Recovers, E!Commits, E!Receipts, E!Finishes, E!Dies, E!ChildEnds, E!Amends

-----------------------------------------------------------------------------
(* Gates: what commits as done was seen to be so.                          *)

GateTypes ==
  /\ deed \in G!DeedSet
  /\ record.by \in {"none", "incomplete_work", "effect_receipt", "bead_close"}
  /\ edge \in {"lane", "effects", "bead", "saved"}

\* What commits past a gate was seen by it.
SeenSoFar ==
  record.st \in G!Committing =>
    /\ edge # "lane" /\ deed.lane => "lane" \in seen
    /\ edge \in {"bead", "saved"} => deed.files \subseteq seen
    /\ edge = "saved" /\ deed.close => \A i \in G!Claims : G!Wanted(i) \in seen

\* The store is read by the last gate alone.
ReadsLast ==
  /\ edge # "saved" => probed = {} /\ record.by # "bead_close"
  /\ probed \subseteq G!Probes
  /\ G!Claims = {} => record.by # "bead_close"

GateInv == GateTypes /\ SeenSoFar /\ ReadsLast

LEMMA GateInit == ASSUME G!Init PROVE GateInv
BY GatesAssumption DEF G!GatesConstants, G!Init, GateInv, GateTypes, SeenSoFar, ReadsLast

LEMMA SameOutputs == ASSUME UNCHANGED <<deed, out>> PROVE G!Claims' = G!Claims /\ G!Probes' = G!Probes /\ \A i : G!Wanted(i)' = G!Wanted(i)
BY DEF G!Claims, G!Probes, G!Wanted, G!Rows

LEMMA LaneGateStep == ASSUME GateInv, G!LaneGate PROVE GateInv'
<1>1. UNCHANGED <<deed, out, probed>>
  BY DEF G!LaneGate, G!Shut, G!Passes
<1>2. edge = "lane" /\ edge' = "effects" /\ record' \in {record, [st |-> "failed", by |-> "incomplete_work"]}
  BY DEF G!LaneGate, G!Shut, G!Passes, G!Demotes
<1>3. record'.st \in G!Committing => record' = record /\ (deed.lane => "lane" \in seen')
  BY DEF G!LaneGate, G!Open, G!Shut, G!Passes, G!Demotes, G!Committing
<1> QED
  BY <1>1, <1>2, <1>3, SameOutputs DEF GateInv, GateTypes, SeenSoFar, ReadsLast

LEMMA EffectGateStep == ASSUME GateInv, G!EffectGate PROVE GateInv'
<1>1. UNCHANGED <<deed, out, probed>> /\ seen \subseteq seen'
  BY DEF G!EffectGate, G!Shut, G!Passes
<1>2. edge = "effects" /\ edge' = "bead" /\ record' \in {record, [st |-> "failed", by |-> "effect_receipt"]}
  BY DEF G!EffectGate, G!Shut, G!Passes, G!Demotes
<1>3. record'.st \in G!Committing => record' = record /\ deed.files \subseteq seen'
  BY DEF G!EffectGate, G!Open, G!Shut, G!Passes, G!Demotes, G!Committing
<1> QED
  BY <1>1, <1>2, <1>3, SameOutputs DEF GateInv, GateTypes, SeenSoFar, ReadsLast

LEMMA BeadGateStep == ASSUME GateInv, G!BeadGate PROVE GateInv'
<1>1. UNCHANGED <<deed, out>> /\ seen \subseteq seen'
  BY DEF G!BeadGate, G!Shut, G!Passes
<1>2. edge = "bead" /\ edge' = "saved" /\ record' \in {record, [st |-> "failed", by |-> "bead_close"]}
  BY DEF G!BeadGate, G!Shut, G!Passes, G!Demotes
<1>3. probed' \in {{}, G!Probes} /\ (record' # record => G!Claims # {})
  BY <1>2 DEF G!BeadGate, G!Shut, G!Passes, G!Unproven, GateInv, ReadsLast
<1>4. record'.st \in G!Committing =>
        record' = record /\ (deed.close => ~ G!Unproven /\ {b \in G!Probes : bead[b] = "closed"} \subseteq seen')
  BY DEF G!BeadGate, G!Open, G!Shut, G!Passes, G!Demotes, G!Committing
<1>5. ASSUME ~ G!Unproven, NEW i \in G!Claims PROVE G!Wanted(i) \in G!Probes /\ bead[G!Wanted(i)] = "closed"
  BY <1>5 DEF G!Unproven, G!Probes, G!Wanted
<1>6. SeenSoFar'
  BY <1>1, <1>2, <1>4, <1>5, SameOutputs DEF GateInv, SeenSoFar
<1> QED
  BY <1>1, <1>2, <1>3, <1>6, SameOutputs DEF GateInv, GateTypes, ReadsLast

LEMMA GateStep == ASSUME GateInv, [G!Next]_(G!vars) PROVE GateInv'
<1>1. CASE G!Drift \/ UNCHANGED G!vars
  BY <1>1, SameOutputs DEF G!Drift, G!vars, GateInv, GateTypes, SeenSoFar, ReadsLast
<1> QED
  BY <1>1, LaneGateStep, EffectGateStep, BeadGateStep DEF G!Next

LEMMA GateInvHolds == ASSUME GateInv PROVE G!ProofsAreReal
<1>1. G!NoFalseGreen
  BY DEF GateInv, SeenSoFar, G!NoFalseGreen, G!Claims
<1>2. ASSUME \A i \in G!Rows : out[i].st \in G!Committing => out[i].says = "pending" PROVE G!Claims = {} /\ G!Probes = {}
  BY <1>2 DEF G!Claims, G!Probes
<1>3. \A b \in G!Probes \cap Items : b \in G!Claims
  BY GatesAssumption DEF G!GatesConstants, G!Probes
<1>4. G!OnlyClaimsAreRead
  BY <1>2, <1>3 DEF GateInv, ReadsLast, G!OnlyClaimsAreRead, G!Claims
<1> QED
  BY <1>1, <1>4 DEF G!ProofsAreReal

-----------------------------------------------------------------------------
(* Cards: a card is shipped once, and never lost.                          *)

Stages == {"none", "deny", "propose", "text", "confirm", "release", "end"}
Owing == {"propose", "text", "confirm", "release"}
Retiring == {"confirm", "release"}

CardTypes ==
  /\ cards \in [Launched -> {"none", "pending", "held"}] /\ claims \in [Launched -> Nat]
  /\ turn \in Nat /\ at \in [Turns -> Stages]
  /\ todo \in [Turns -> SUBSET Launched] /\ take \in [Turns -> SUBSET Launched] /\ now \in [Turns -> Nat]
  /\ mishaps \in Nat /\ asked \in [Launched -> Nat] /\ shown \in [Launched -> Nat]

\* Only the call of the turn is selected, and what it retires was shown.
Calling ==
  \A t \in Turns :
    /\ t > turn => at[t] = "none"
    /\ at[t] \in Retiring => t = turn /\ \A r \in todo[t] : shown[r] > 0
    /\ at[t] \in Owing \ {"text"} => todo[t] \subseteq take[t]

\* A claim is of a card in the text of its call, and stands until it was gone through.
Claiming ==
  \A r \in Launched : claims[r] # 0 =>
    /\ claims[r] \in Turns /\ at[claims[r]] \in Owing /\ r \in take[claims[r]]
    /\ at[claims[r]] = "confirm" => r \in todo[claims[r]]
    /\ at[claims[r]] = "release" => r \in todo[claims[r]] \cup {now[claims[r]]}

\* What is owed and was never shown is in the ledger.
Unshown == \A r \in Launched : asked[r] > 0 /\ shown[r] = 0 /\ r \notin over \cup slips => cards[r] # "none"

\* The call of the turn goes through the run's card; it has the card in its text.
Retired(r) == turn \in Turns /\ at[turn] \in Retiring /\ r \in todo[turn]
Texted(r) == turn \in Turns /\ at[turn] \in {"propose", "text"} /\ r \in take[turn]
\* A card that may still be shown has a launch that was not.
Credit ==
  \A r \in Launched \ slips :
    /\ shown[r] <= asked[r]
    /\ (cards[r] # "none" /\ ~ Retired(r)) \/ Texted(r) => shown[r] < asked[r]

CardLaw == Calling /\ Claiming /\ Unshown /\ Credit
CardInv == CardTypes /\ CardLaw

LEMMA CardInit == ASSUME C!Init PROVE CardInv
BY CardsAssumption DEF C!CardsConstants, C!Init, CardInv, CardTypes, CardLaw, Calling, Claiming, Unshown, Credit, Retired, Texted, Stages, Owing, Retiring

LEMMA CardInvKeeps == ASSUME CardInv PROVE C!ShippedOnce /\ C!CardsAreCovered
BY DEF CardInv, CardLaw, Claiming, Unshown, Credit, C!ShippedOnce, C!CardsAreCovered, Owing, C!Gone

LEMMA CallsLaw == ASSUME CardInv, C!Calls PROVE CardInv'
<1> USE CardsAssumption DEF C!CardsConstants
<1>1. CardTypes'
  BY DEF CardInv, CardLaw, CardTypes, Stages, Owing, Retiring, C!Goes, C!calls, C!Calls, C!Running, C!Gone
<1>2. Calling'
  BY <1>1 DEF CardInv, CardLaw, CardTypes, Stages, Owing, Retiring, C!Goes, C!calls, Calling, C!Calls, C!Running, C!Gone
<1>3. Claiming'
  <2>1. at[turn + 1] = "none" /\ turn + 1 \in Turns
    BY DEF CardInv, CardLaw, CardTypes, Calling, C!Calls
  <2>2. \A t \in Turns \ {turn + 1} : at'[t] = at[t] /\ todo'[t] = todo[t] /\ take'[t] = take[t] /\ now'[t] = now[t]
    BY DEF CardInv, CardTypes, C!Calls
  <2>3. \A r \in Launched : claims[r] # 0 => claims[r] # turn + 1
    BY <2>1 DEF CardInv, CardLaw, Claiming, Owing
  <2>4. UNCHANGED claims
    BY DEF C!Calls
  <2>5. Claiming
    BY DEF CardInv, CardLaw
  <2> SUFFICES ASSUME NEW r \in Launched, claims'[r] # 0
               PROVE  /\ claims[r] \in Turns \ {turn + 1} /\ at[claims[r]] \in Owing /\ r \in take[claims[r]]
                      /\ at[claims[r]] = "confirm" => r \in todo[claims[r]]
                      /\ at[claims[r]] = "release" => r \in todo[claims[r]] \cup {now[claims[r]]}
    BY <2>2, <2>4 DEF Claiming
  <2> QED
    BY <2>3, <2>4, <2>5 DEF Claiming
<1>4. Unshown'
  BY <1>1 DEF CardInv, CardLaw, CardTypes, Stages, Owing, Retiring, C!Goes, C!calls, Unshown, C!Calls, C!Running, C!Gone
<1>5. Credit'
  BY <1>1 DEF CardInv, CardLaw, CardTypes, Stages, Owing, Retiring, C!Goes, C!calls, Credit, Retired, Texted, C!Calls, C!Running, C!Gone
<1> QED
  BY <1>1, <1>2, <1>3, <1>4, <1>5 DEF CardInv, CardLaw

LEMMA RestartedLaw == ASSUME CardInv, C!Restarted PROVE CardInv'
<1> USE CardsAssumption DEF C!CardsConstants
<1>1. CardTypes'
  BY DEF CardInv, CardLaw, CardTypes, Stages, Owing, Retiring, C!Goes, C!calls, C!Restarted
<1>2. Calling'
  BY <1>1 DEF CardInv, CardLaw, CardTypes, Stages, Owing, Retiring, C!Goes, C!calls, Calling, C!Restarted
<1>3. Claiming'
  BY <1>1 DEF CardInv, CardLaw, CardTypes, Stages, Owing, Retiring, C!Goes, C!calls, Claiming, C!Restarted
<1>4. Unshown'
  BY <1>1 DEF CardInv, CardLaw, CardTypes, Stages, Owing, Retiring, C!Goes, C!calls, Unshown, C!Restarted
<1>5. Credit'
  <2>1. \A r \in Launched : ~ Retired(r)' /\ ~ Texted(r)'
    BY DEF CardInv, CardTypes, Retired, Texted, Retiring, C!Restarted
  <2>2. \A r \in Launched : Retired(r) => r \in slips'
    BY DEF CardInv, CardLaw, CardTypes, Calling, Retired, Retiring, Owing, C!Restarted
  <2> QED
    BY <2>1, <2>2 DEF CardInv, CardLaw, Credit, C!Restarted
<1> QED
  BY <1>1, <1>2, <1>3, <1>4, <1>5 DEF CardInv, CardLaw

LEMMA CardLaunchesLaw == ASSUME CardInv, NEW r \in Launched, C!Launches(r) PROVE CardInv'
<1> USE CardsAssumption DEF C!CardsConstants
<1>1. CardTypes'
  BY DEF CardInv, CardLaw, CardTypes, Stages, Owing, Retiring, C!Goes, C!calls, C!Launches, C!Writes
<1>2. Calling'
  BY <1>1 DEF CardInv, CardLaw, CardTypes, Stages, Owing, Retiring, C!Goes, C!calls, Calling, C!Launches, C!Writes
<1>3. Claiming'
  BY <1>1 DEF CardInv, CardLaw, CardTypes, Stages, Owing, Retiring, C!Goes, C!calls, Claiming, C!Launches, C!Writes
<1>4. Unshown'
  BY <1>1 DEF CardInv, CardLaw, CardTypes, Stages, Owing, Retiring, C!Goes, C!calls, Unshown, C!Launches, C!Writes
<1>5. Credit'
  BY <1>1 DEF CardInv, CardLaw, CardTypes, Stages, Owing, Retiring, C!Goes, C!calls, Credit, Retired, Texted, C!Launches, C!Writes
<1> QED
  BY <1>1, <1>2, <1>3, <1>4, <1>5 DEF CardInv, CardLaw

LEMMA ReportsLaw == ASSUME CardInv, NEW r \in Launched, C!Reports(r) PROVE CardInv'
<1> USE CardsAssumption DEF C!CardsConstants
<1>1. CardTypes'
  BY DEF CardInv, CardLaw, CardTypes, Stages, Owing, Retiring, C!Goes, C!calls, C!Reports, C!Writes
<1>2. Calling'
  BY <1>1 DEF CardInv, CardLaw, CardTypes, Stages, Owing, Retiring, C!Goes, C!calls, Calling, C!Reports, C!Writes
<1>3. Claiming'
  BY <1>1 DEF CardInv, CardLaw, CardTypes, Stages, Owing, Retiring, C!Goes, C!calls, Claiming, C!Reports, C!Writes
<1>4. Unshown'
  BY <1>1 DEF CardInv, CardLaw, CardTypes, Stages, Owing, Retiring, C!Goes, C!calls, Unshown, C!Reports, C!Writes
<1>5. Credit'
  BY <1>1 DEF CardInv, CardLaw, CardTypes, Stages, Owing, Retiring, C!Goes, C!calls, Credit, Retired, Texted, C!Reports, C!Writes
<1> QED
  BY <1>1, <1>2, <1>3, <1>4, <1>5 DEF CardInv, CardLaw

LEMMA ReadsOwedLaw == ASSUME CardInv, NEW t \in Turns, C!ReadsOwed(t) PROVE CardInv'
<1> USE CardsAssumption DEF C!CardsConstants
<1>1. CardTypes'
  BY DEF CardInv, CardLaw, CardTypes, Stages, Owing, Retiring, C!Goes, C!calls, C!ReadsOwed, C!Owed, C!Newest
<1>2. Calling'
  BY <1>1 DEF CardInv, CardLaw, CardTypes, Stages, Owing, Retiring, C!Goes, C!calls, Calling, C!ReadsOwed, C!Owed, C!Newest
<1>3. Claiming'
  BY <1>1 DEF CardInv, CardLaw, CardTypes, Stages, Owing, Retiring, C!Goes, C!calls, Claiming, C!ReadsOwed, C!Owed, C!Newest
<1>4. Unshown'
  BY <1>1 DEF CardInv, CardLaw, CardTypes, Stages, Owing, Retiring, C!Goes, C!calls, Unshown, C!ReadsOwed, C!Owed, C!Newest
<1>5. Credit'
  BY <1>1 DEF CardInv, CardLaw, CardTypes, Stages, Owing, Retiring, C!Goes, C!calls, Credit, Retired, Texted, C!ReadsOwed, C!Owed, C!Newest
<1> QED
  BY <1>1, <1>2, <1>3, <1>4, <1>5 DEF CardInv, CardLaw

LEMMA SelectedLaw == ASSUME CardInv, NEW t \in Turns, C!Selected(t) PROVE CardInv'
<1> USE CardsAssumption DEF C!CardsConstants
<1>1. CardTypes'
  BY DEF CardInv, CardLaw, CardTypes, Stages, Owing, Retiring, C!Goes, C!calls, C!Selected
<1>2. Calling'
  BY <1>1 DEF CardInv, CardLaw, CardTypes, Stages, Owing, Retiring, C!Goes, C!calls, Calling, C!Selected
<1>3. Claiming'
  BY <1>1 DEF CardInv, CardLaw, CardTypes, Stages, Owing, Retiring, C!Goes, C!calls, Claiming, C!Selected
<1>4. Unshown'
  BY <1>1 DEF CardInv, CardLaw, CardTypes, Stages, Owing, Retiring, C!Goes, C!calls, Unshown, C!Selected
<1>5. Credit'
  BY <1>1 DEF CardInv, CardLaw, CardTypes, Stages, Owing, Retiring, C!Goes, C!calls, Credit, Retired, Texted, C!Selected
<1> QED
  BY <1>1, <1>2, <1>3, <1>4, <1>5 DEF CardInv, CardLaw

LEMMA CardDiesLaw == ASSUME CardInv, NEW t \in Turns, C!Dies(t) PROVE CardInv'
<1> USE CardsAssumption DEF C!CardsConstants
<1>1. CardTypes'
  BY DEF CardInv, CardLaw, CardTypes, Stages, Owing, Retiring, C!Goes, C!calls, C!Dies
<1>2. Calling'
  BY <1>1 DEF CardInv, CardLaw, CardTypes, Stages, Owing, Retiring, C!Goes, C!calls, Calling, C!Dies
<1>3. Claiming'
  BY <1>1 DEF CardInv, CardLaw, CardTypes, Stages, Owing, Retiring, C!Goes, C!calls, Claiming, C!Dies
<1>4. Unshown'
  BY <1>1 DEF CardInv, CardLaw, CardTypes, Stages, Owing, Retiring, C!Goes, C!calls, Unshown, C!Dies
<1>5. Credit'
  BY <1>1 DEF CardInv, CardLaw, CardTypes, Stages, Owing, Retiring, C!Goes, C!calls, Credit, Retired, Texted, C!Dies
<1> QED
  BY <1>1, <1>2, <1>3, <1>4, <1>5 DEF CardInv, CardLaw

LEMMA ReleasesLaw == ASSUME CardInv, NEW t \in Turns, C!Releases(t) PROVE CardInv'
<1> USE CardsAssumption DEF C!CardsConstants
<1>1. CardTypes'
  BY DEF CardInv, CardLaw, CardTypes, Stages, Owing, Retiring, C!Goes, C!calls, C!Releases
<1>2. Calling'
  BY <1>1 DEF CardInv, CardLaw, CardTypes, Stages, Owing, Retiring, C!Goes, C!calls, Calling, C!Releases
<1>3. Claiming'
  BY <1>1 DEF CardInv, CardLaw, CardTypes, Stages, Owing, Retiring, C!Goes, C!calls, Claiming, C!Releases
<1>4. Unshown'
  BY <1>1 DEF CardInv, CardLaw, CardTypes, Stages, Owing, Retiring, C!Goes, C!calls, Unshown, C!Releases
<1>5. Credit'
  BY <1>1 DEF CardInv, CardLaw, CardTypes, Stages, Owing, Retiring, C!Goes, C!calls, Credit, Retired, Texted, C!Releases
<1> QED
  BY <1>1, <1>2, <1>3, <1>4, <1>5 DEF CardInv, CardLaw

LEMMA DeniesLaw == ASSUME CardInv, NEW t \in Turns, NEW r \in Launched, C!Denies(t, r) PROVE CardInv'
<1> USE CardsAssumption DEF C!CardsConstants
<1>1. CardTypes'
  BY DEF CardInv, CardLaw, CardTypes, Stages, Owing, Retiring, C!Goes, C!calls, C!Denies
<1>2. Calling'
  BY <1>1 DEF CardInv, CardLaw, CardTypes, Stages, Owing, Retiring, C!Goes, C!calls, Calling, C!Denies
<1>3. Claiming'
  BY <1>1 DEF CardInv, CardLaw, CardTypes, Stages, Owing, Retiring, C!Goes, C!calls, Claiming, C!Denies
<1>4. Unshown'
  BY <1>1 DEF CardInv, CardLaw, CardTypes, Stages, Owing, Retiring, C!Goes, C!calls, Unshown, C!Denies
<1>5. Credit'
  BY <1>1 DEF CardInv, CardLaw, CardTypes, Stages, Owing, Retiring, C!Goes, C!calls, Credit, Retired, Texted, C!Denies
<1> QED
  BY <1>1, <1>2, <1>3, <1>4, <1>5 DEF CardInv, CardLaw

LEMMA PastedLaw == ASSUME CardInv, NEW t \in Turns, NEW r \in Launched, C!Pasted(t, r) PROVE CardInv'
<1> USE CardsAssumption DEF C!CardsConstants
<1>1. CardTypes'
  BY DEF CardInv, CardLaw, CardTypes, Stages, Owing, Retiring, C!Goes, C!calls, C!Pasted, C!Writes
<1>2. Calling'
  BY <1>1 DEF CardInv, CardLaw, CardTypes, Stages, Owing, Retiring, C!Goes, C!calls, Calling, C!Pasted, C!Writes
<1>3. Claiming'
  BY <1>1 DEF CardInv, CardLaw, CardTypes, Stages, Owing, Retiring, C!Goes, C!calls, Claiming, C!Pasted, C!Writes
<1>4. Unshown'
  BY <1>1 DEF CardInv, CardLaw, CardTypes, Stages, Owing, Retiring, C!Goes, C!calls, Unshown, C!Pasted, C!Writes
<1>5. Credit'
  BY <1>1 DEF CardInv, CardLaw, CardTypes, Stages, Owing, Retiring, C!Goes, C!calls, Credit, Retired, Texted, C!Pasted, C!Writes
<1> QED
  BY <1>1, <1>2, <1>3, <1>4, <1>5 DEF CardInv, CardLaw

LEMMA ProposesLaw == ASSUME CardInv, NEW t \in Turns, NEW r \in Launched, C!Proposes(t, r) PROVE CardInv'
<1> USE CardsAssumption DEF C!CardsConstants
<1>1. CardTypes'
  BY DEF CardInv, CardLaw, CardTypes, Stages, Owing, Retiring, C!Goes, C!calls, C!Proposes
<1>2. Calling'
  BY <1>1 DEF CardInv, CardLaw, CardTypes, Stages, Owing, Retiring, C!Goes, C!calls, Calling, C!Proposes
<1>3. Claiming'
  <2>1. /\ claims' = [claims EXCEPT ![r] = IF claims[r] = 0 THEN t ELSE claims[r]] /\ at[t] = "propose"
        /\ UNCHANGED <<now, take>> /\ r \in take[t]
        /\ at'[t] \in {"propose", "text"} /\ \A u \in Turns \ {t} : at'[u] = at[u] /\ todo'[u] = todo[u]
    BY DEF CardInv, CardLaw, CardTypes, Calling, Owing, C!Proposes
  <2>2. claims'[r] = (IF claims[r] = 0 THEN t ELSE claims[r]) /\ \A q \in Launched \ {r} : claims'[q] = claims[q]
    BY <2>1 DEF CardInv, CardTypes
  <2>3. ASSUME NEW q \in Launched, claims'[q] # 0
        PROVE  (claims'[q] = t /\ q \in take[t]) \/ (claims'[q] = claims[q] /\ claims[q] # t)
    <3>1. claims[q] = t => q \in take[t]
      BY DEF CardInv, CardLaw, CardTypes, Claiming
    <3>2. CASE q = r
      BY <2>1, <2>2, <2>3, <3>1, <3>2
    <3>3. CASE q # r
      BY <2>1, <2>2, <2>3, <3>1, <3>3
    <3> QED
      BY <3>2, <3>3
  <2> QED
    BY <2>1, <2>3 DEF CardInv, CardLaw, Claiming, Owing
<1>4. Unshown'
  BY <1>1 DEF CardInv, CardLaw, CardTypes, Stages, Owing, Retiring, C!Goes, C!calls, Unshown, C!Proposes
<1>5. Credit'
  BY <1>1 DEF CardInv, CardLaw, CardTypes, Stages, Owing, Retiring, C!Goes, C!calls, Credit, Retired, Texted, C!Proposes
<1> QED
  BY <1>1, <1>2, <1>3, <1>4, <1>5 DEF CardInv, CardLaw

LEMMA ConfirmsLaw == ASSUME CardInv, NEW t \in Turns, NEW r \in Launched, C!Confirms(t, r) PROVE CardInv'
<1> USE CardsAssumption DEF C!CardsConstants
<1>1. CardTypes'
  BY DEF CardInv, CardLaw, CardTypes, Stages, Owing, Retiring, C!Goes, C!calls, C!Confirms, C!Writes
<1>2. Calling'
  BY <1>1 DEF CardInv, CardLaw, CardTypes, Stages, Owing, Retiring, C!Goes, C!calls, Calling, C!Confirms, C!Writes
<1>3. Claiming'
  BY <1>1 DEF CardInv, CardLaw, CardTypes, Stages, Owing, Retiring, C!Goes, C!calls, Claiming, C!Confirms, C!Writes
<1>4. Unshown'
  <2>1. shown[r] > 0 /\ UNCHANGED <<asked, over, shown>> /\ slips \subseteq slips'
    BY DEF CardInv, CardLaw, CardTypes, Calling, Retiring, C!Confirms, C!Writes
  <2>2. \A q \in Launched \ {r} : cards'[q] = cards[q]
    BY DEF CardInv, CardTypes, C!Confirms, C!Writes
  <2> QED
    BY <2>1, <2>2 DEF CardInv, CardLaw, CardTypes, Unshown
<1>5. Credit'
  BY <1>1 DEF CardInv, CardLaw, CardTypes, Stages, Owing, Retiring, C!Goes, C!calls, Credit, Retired, Texted, C!Confirms, C!Writes
<1> QED
  BY <1>1, <1>2, <1>3, <1>4, <1>5 DEF CardInv, CardLaw

LEMMA CardStep == ASSUME CardInv, [C!Next]_(C!vars) PROVE CardInv'
<1>1. CASE UNCHANGED C!vars
  BY <1>1 DEF C!vars, CardInv, CardLaw, CardTypes, Stages, Owing, Retiring, C!Goes, C!calls, Calling, Claiming, Unshown, Credit, Retired, Texted
<1>2. CASE C!Next
  BY <1>2, CallsLaw, RestartedLaw, CardLaunchesLaw, ReportsLaw, ReadsOwedLaw, SelectedLaw, CardDiesLaw, ReleasesLaw, DeniesLaw, PastedLaw, ProposesLaw, ConfirmsLaw DEF C!Next
<1> QED
  BY <1>1, <1>2

-----------------------------------------------------------------------------
(* Notices: a hold is told, one id each, and a burst lands.                *)

Threads == scene.fans \cup {N!Main}
IsKey(k) ==
  /\ k = [event |-> k.event, subj |-> k.subj, gate |-> k.gate, work |-> k.work, n |-> k.n, rev |-> k.rev]
  /\ k.rev \in Nat
IsCall(c) ==
  /\ c = [at |-> c.at, key |-> c.key, node |-> c.node, refire |-> c.refire, then |-> c.then, since |-> c.since, got |-> c.got]
  /\ c.at \in {"begin", "mirror", "judge", "post", "record"} /\ IsKey(c.key) /\ c.since \in Nat /\ c.refire \in BOOLEAN
Busy(t) == call[t] # N!Idle

NoticeTypes ==
  /\ scene \in WakeScenes /\ swaps \in Nat /\ rev \in Nat /\ door \in {"idle", "swapped", "logged"}
  /\ mine.nth \in Nat /\ restart \in BOOLEAN /\ marker.pending \in BOOLEAN
  /\ call = [t \in Threads |-> call[t]] /\ \A t \in Threads : Busy(t) => IsCall(call[t])
  /\ marker = [window |-> marker.window, pending |-> marker.pending, node |-> marker.node, n |-> marker.n]
  /\ \A x \in told : IsKey(x.id) /\ x.since \in Nat

\* The threads of a wave speak only while it runs; the loop speaks for itself.
Loop ==
  /\ \A f \in scene.fans : Busy(f) => wakePc = "wave"
  /\ wakePc \in {"wave", "off"} => ~ Busy(N!Main)
  /\ Busy(N!Main) =>
       /\ call[N!Main].then \in {"loop", "failing", "blocked", "finished", "gone", "hold", "flush"}
       /\ call[N!Main].key.event = "stragglers" => call[N!Main].refire = TRUE
       /\ call[N!Main].then = "finished" => marker.pending = FALSE
  /\ wakePc = "finished" => marker.pending = FALSE

\* Where an amend is between its swap and its event, the revision is behind.
Paces ==
  /\ IF door = "swapped" THEN rev < swaps ELSE rev <= swaps
  /\ scene.frail = FALSE => swaps = (IF door = "swapped" THEN rev + 1 ELSE rev)
  /\ mine.nth <= swaps

\* The revisions under which something was or is being said, each with its moment.
Speaks(t) == Busy(t) /\ (call[t].at \in {"post", "record"} \/ call[t].key.event = "action")
Stamp(r, m) == [rev |-> r, since |-> m]
Stamps == {Stamp(x.id.rev, x.since) : x \in told}
            \cup {Stamp(call[t].key.rev, call[t].since) : t \in {u \in Threads : Speaks(u)}}
Now == Stamp(rev, N!Moment)
Stamped ==
  /\ \A p \in Stamps : p.rev \in Nat /\ p.since \in Nat /\ p.since <= N!Moment /\ 2 * p.rev <= p.since
  /\ door # "swapped" => \A p \in Stamps : p.since = N!Moment => p.rev = rev
  /\ \A p, q \in Stamps : p.since = q.since /\ p.since % 2 = 1 => p.rev = q.rev

\* A row that settles is of a turn that was taken, where the wire takes all.
Rows ==
  /\ \A row \in wakes : row.delivered \in {"true", "null"} /\ scene.wire = {"turn"} => \E x \in told : x.id = row.id
  /\ \A t \in Threads : Busy(t) /\ call[t].at = "record" =>
       /\ call[t].got \in scene.wire
       /\ call[t].got = "turn" => \E x \in told : x.id = call[t].key /\ x.since = call[t].since

\* What this runner ran is not what is on disk, or will not be.
Stale == mine.nth # swaps \/ door # "idle" \/ restart = TRUE
Exempt == scene.owner = "null" \/ scene.wire # {"turn"} \/ scene.tier["gate"] = "silent" \/ scene.frail # FALSE
Told == \E x \in told : x.id.event = "held" /\ x.id.gate = mine.graph.gate /\ x.since >= 2 * swaps
Holding == Busy(N!Main) /\ call[N!Main].then = "hold"
Holds ==
  /\ Holding =>
       /\ wakePc = "gate" /\ call[N!Main].node = "gate"
       /\ call[N!Main].key.event = "held" /\ call[N!Main].key.subj = "gate" /\ call[N!Main].key.gate = mine.graph.gate
       /\ call[N!Main].at = "post" => Stale \/ Exempt \/ call[N!Main].since >= 2 * swaps
       /\ call[N!Main].at = "record" => Stale \/ Exempt \/ Told
  /\ wakePc \in {"hold", "leave"} \/ exit = "held" => Stale \/ Exempt \/ Told
  /\ exit = "held" => wakePc = "off"

NoticeLaw == Loop /\ Paces /\ Stamped /\ Rows /\ Holds
NoticeInv == NoticeTypes /\ NoticeLaw

LEMMA NoticeInit == ASSUME N!Init PROVE NoticeInv
<1> USE NoticesAssumption DEF N!NoticesConstants, N!Init, N!Main, N!Idle, N!None
<1>1. NoticeTypes
  BY DEF NoticeTypes, Threads, Busy
<1>2. Loop /\ Paces /\ Rows
  BY DEF Loop, Paces, Rows, Busy, Threads
<1>3. Stamps = {}
  BY DEF Stamps, Speaks, Busy, Threads
<1>4. Stamped
  BY <1>3 DEF Stamped
<1>5. Holds
  BY DEF Holds, Holding, Busy, Threads
<1> QED
  BY <1>1, <1>2, <1>4, <1>5 DEF NoticeInv, NoticeLaw

LEMMA Evens == ASSUME NEW n \in Nat PROVE (2 * n) % 2 = 0 /\ 2 * n \in Nat /\ 2 * n + 1 \in Nat /\ 2 * n + 0 \in Nat
OBVIOUS

\* A step that says nothing new, or something under the revision of now, keeps the stamps.
LEMMA StampsKeep ==
  ASSUME NoticeTypes, Paces, Stamped, UNCHANGED <<swaps, rev, door>>, Stamps' \subseteq Stamps \cup {Now}
  PROVE  Stamped'
<1>1. N!Moment' = N!Moment /\ N!Moment \in Nat /\ 2 * rev <= N!Moment /\ (door = "swapped" => N!Moment % 2 = 0)
  BY Evens DEF N!Moment, NoticeTypes, Paces
<1>2. Now.rev = rev /\ Now.since = N!Moment
  BY DEF Now, Stamp
<1>3. \A p \in Stamps' : p \in Stamps \/ p = Now
  OBVIOUS
<1>4. \A p \in Stamps' : p.rev \in Nat /\ p.since \in Nat /\ p.since <= N!Moment /\ 2 * p.rev <= p.since
  BY <1>1, <1>2, <1>3 DEF Stamped, NoticeTypes
<1>5. door # "swapped" => \A p \in Stamps' : p.since = N!Moment => p.rev = rev
  BY <1>2, <1>3 DEF Stamped
<1>6. ASSUME NEW p \in Stamps', NEW q \in Stamps', p.since = q.since, p.since % 2 = 1 PROVE p.rev = q.rev
  <2>1. CASE p \in Stamps /\ q \in Stamps
    BY <1>6, <2>1 DEF Stamped
  <2>2. CASE p = Now \/ q = Now
    <3>1. p.since = N!Moment /\ door # "swapped"
      BY <1>1, <1>2, <1>6, <2>2
    <3> QED
      BY <1>5, <1>6, <3>1
  <2> QED
    BY <1>3, <2>1, <2>2
<1> QED
  BY <1>1, <1>4, <1>5, <1>6 DEF Stamped

\* An amend moves the moment on, or nothing.
LEMMA StampsAmend ==
  ASSUME NoticeTypes, Paces, Stamped, N!Amend, Paces'
  PROVE  Stamped'
<1>1. UNCHANGED <<scene, call, told>> /\ swaps' \in Nat /\ rev' \in Nat /\ swaps \in Nat /\ rev \in Nat
  BY DEF N!Amend, N!wakes, NoticeTypes, N!disk
<1>2. Stamps' = Stamps
  BY <1>1 DEF Stamps, Speaks, Busy, Threads, Stamp
<1>3. N!Moment \in Nat /\ N!Moment' \in Nat
  <2>1. N!Moment \in Nat
    BY <1>1 DEF N!Moment
  <2>2. N!Moment' = 2 * swaps' + (IF door' = "swapped" THEN 0 ELSE 1)
    BY DEF N!Moment
  <2>3. 2 * swaps' \in Nat /\ 2 * swaps' + 1 \in Nat /\ 2 * swaps' + 0 \in Nat
    BY <1>1, Evens
  <2>4. N!Moment' \in Nat
    BY <2>2, <2>3
  <2> QED
    BY <2>1, <2>4
<1>4. CASE N!Moment' = N!Moment /\ rev' = rev /\ door # "swapped"
  BY <1>2, <1>4 DEF Stamped
<1>5. CASE N!Moment' > N!Moment
  BY <1>2, <1>3, <1>5 DEF Stamped
<1>6. N!Moment' > N!Moment \/ (N!Moment' = N!Moment /\ rev' = rev /\ door # "swapped")
  BY <1>1 DEF N!Amend, N!Moment, N!disk, NoticeTypes
<1> QED
  BY <1>4, <1>5, <1>6


LEMMA QuietStep ==
  ASSUME NoticeInv, UNCHANGED <<scene, swaps, rev, door, told, wakes>>, call' = call
  PROVE  Stamped' /\ Rows'
<1>1. Stamps' = Stamps
  BY DEF Stamps, Speaks, Busy, Threads, Stamp
<1>2. Stamped'
  BY <1>1, StampsKeep DEF NoticeInv, NoticeLaw
<1>3. Rows'
  BY DEF NoticeInv, NoticeLaw, Rows, Busy, Threads
<1> QED
  BY <1>2, <1>3

\* Who was silent speaks: of now.
LEMMA SayStep ==
  ASSUME NoticeInv, UNCHANGED <<scene, swaps, rev, door, told, wakes>>,
         NEW t \in Threads, ~ Busy(t), NEW key, NEW node, NEW refire, NEW then, IsKey(key), key.rev = rev, refire \in BOOLEAN, N!Say(t, key, node, refire, then)
  PROVE  /\ Stamped' /\ Rows' /\ Threads' = Threads
         /\ call' = [u \in Threads' |-> call'[u]] /\ \A u \in Threads' : (Busy(u) => IsCall(call[u]))'
         /\ Busy(t)' /\ call'[t].at = "begin" /\ call'[t].key = key /\ call'[t].node = node /\ call'[t].then = then /\ call'[t].refire = refire
         /\ \A u \in Threads \ {t} : call'[u] = call[u] /\ Busy(u)' = Busy(u)
<1> DEFINE new == [at |-> "begin", key |-> key, node |-> node, refire |-> refire, then |-> then, since |-> N!Moment, got |-> N!None]
<1>1. /\ Threads' = Threads /\ call = [u \in Threads |-> call[u]] /\ N!Moment \in Nat
      /\ \A u \in Threads : Busy(u) => IsCall(call[u])
  BY Evens DEF NoticeInv, NoticeTypes, Threads, N!Moment
<1>2. call' = [call EXCEPT ![t] = new]
  BY DEF N!Say
<1>3. /\ new.at = "begin" /\ new.key = key /\ new.node = node /\ new.then = then /\ new.since = N!Moment /\ new.got = N!None /\ new.refire = refire
      /\ new # N!Idle
  BY DEF N!Idle
<1>4. IsCall(new)
  BY <1>1 DEF IsCall
<1> HIDE DEF new
<1>5. call'[t] = new /\ \A u \in Threads \ {t} : call'[u] = call[u]
  BY <1>1, <1>2
<1>6. Busy(t)' /\ \A u \in Threads \ {t} : Busy(u)' = Busy(u)
  BY <1>3, <1>5 DEF Busy, N!Idle
<1>7. Stamps' \subseteq Stamps \cup {Now}
  <2>1. \A u \in Threads : Speaks(u)' => (u # t /\ Speaks(u)) \/ u = t
    BY <1>3, <1>5 DEF Speaks, Busy
  <2>2. Stamp(call'[t].key.rev, call'[t].since) = Now
    BY <1>3, <1>5 DEF Stamp, Now
  <2>3. \A u \in Threads \ {t} : Stamp(call'[u].key.rev, call'[u].since) = Stamp(call[u].key.rev, call[u].since)
    BY <1>5
  <2>4. ASSUME NEW p \in Stamps' PROVE p \in Stamps \cup {Now}
    <3>1. CASE \E x \in told : p = Stamp(x.id.rev, x.since)
      BY <3>1 DEF Stamps
    <3>2. CASE \E u \in Threads : Speaks(u)' /\ p = Stamp(call'[u].key.rev, call'[u].since)
      <4>1. PICK u \in Threads : Speaks(u)' /\ p = Stamp(call'[u].key.rev, call'[u].since)
        BY <3>2
      <4>2. CASE u = t
        BY <2>2, <4>1, <4>2
      <4>3. CASE u # t
        BY <2>1, <2>3, <4>1, <4>3 DEF Stamps
      <4> QED
        BY <4>2, <4>3
    <3> QED
      BY <1>1, <2>4, <3>1, <3>2 DEF Stamps, Stamp
  <2> QED
    BY <2>4
<1>8. Stamped'
  BY <1>7, StampsKeep DEF NoticeInv, NoticeLaw
<1>9. Rows'
  BY <1>1, <1>3, <1>5, <1>6 DEF NoticeInv, NoticeLaw, Rows
<1>10. call' = [u \in Threads' |-> call'[u]] /\ \A u \in Threads' : (Busy(u) => IsCall(call[u]))'
  BY <1>1, <1>2, <1>4, <1>5, <1>6
<1> QED
  BY <1>1, <1>3, <1>5, <1>6, <1>8, <1>9, <1>10

LEMMA ReloadLaw == ASSUME NoticeInv, N!Reload PROVE NoticeInv'
<1> USE NoticesAssumption DEF N!NoticesConstants
<1>1. NoticeTypes'
  BY DEF NoticeInv, NoticeLaw, N!disk, N!records, N!parking, N!wakes, N!Ready, N!Free, NoticeTypes, Threads, Busy, N!Reload
<1>2. Loop'
  BY DEF NoticeInv, NoticeLaw, N!disk, N!records, N!parking, N!wakes, N!Ready, N!Free, Loop, Busy, N!Idle, Threads, N!Main, N!Reload
<1>3. Paces'
  BY DEF NoticeInv, NoticeLaw, N!disk, N!records, N!parking, N!wakes, N!Ready, N!Free, NoticeTypes, Paces, N!Reload
<1>4. Stamped' /\ Rows'
  BY QuietStep DEF NoticeInv, NoticeLaw, N!disk, N!records, N!parking, N!wakes, N!Ready, N!Free, N!Reload
<1>5. Holds'
  BY DEF NoticeInv, NoticeLaw, N!disk, N!records, N!parking, N!wakes, N!Ready, N!Free, N!None, Holds, Holding, Stale, Exempt, Told, Busy, Threads, N!Idle, N!Main, N!Reload
<1> QED
  BY <1>1, <1>2, <1>3, <1>4, <1>5 DEF NoticeInv, NoticeLaw

LEMMA WaveEndsLaw == ASSUME NoticeInv, N!WaveEnds PROVE NoticeInv'
<1> USE NoticesAssumption DEF N!NoticesConstants
<1>1. NoticeTypes'
  BY DEF NoticeInv, NoticeLaw, N!disk, N!records, N!parking, N!wakes, N!Ready, N!Free, NoticeTypes, Threads, Busy, N!WaveEnds
<1>2. Loop'
  BY DEF NoticeInv, NoticeLaw, N!disk, N!records, N!parking, N!wakes, N!Ready, N!Free, Loop, Busy, N!Idle, Threads, N!Main, N!WaveEnds
<1>3. Paces'
  BY DEF NoticeInv, NoticeLaw, N!disk, N!records, N!parking, N!wakes, N!Ready, N!Free, NoticeTypes, Paces, N!WaveEnds
<1>4. Stamped' /\ Rows'
  BY QuietStep DEF NoticeInv, NoticeLaw, N!disk, N!records, N!parking, N!wakes, N!Ready, N!Free, N!WaveEnds
<1>5. Holds'
  BY DEF NoticeInv, NoticeLaw, N!disk, N!records, N!parking, N!wakes, N!Ready, N!Free, N!None, Holds, Holding, Stale, Exempt, Told, Busy, Threads, N!Idle, N!Main, N!WaveEnds
<1> QED
  BY <1>1, <1>2, <1>3, <1>4, <1>5 DEF NoticeInv, NoticeLaw

LEMMA WorkLaw == ASSUME NoticeInv, N!Work PROVE NoticeInv'
<1> USE NoticesAssumption DEF N!NoticesConstants
<1>1. NoticeTypes'
  BY DEF NoticeInv, NoticeLaw, N!disk, N!records, N!parking, N!wakes, N!Ready, N!Free, NoticeTypes, Threads, Busy, N!Work
<1>2. Loop'
  BY DEF NoticeInv, NoticeLaw, N!disk, N!records, N!parking, N!wakes, N!Ready, N!Free, Loop, Busy, N!Idle, Threads, N!Main, N!Work
<1>3. Paces'
  BY DEF NoticeInv, NoticeLaw, N!disk, N!records, N!parking, N!wakes, N!Ready, N!Free, NoticeTypes, Paces, N!Work
<1>4. Stamped' /\ Rows'
  BY QuietStep DEF NoticeInv, NoticeLaw, N!disk, N!records, N!parking, N!wakes, N!Ready, N!Free, N!Work
<1>5. Holds'
  BY DEF NoticeInv, NoticeLaw, N!disk, N!records, N!parking, N!wakes, N!Ready, N!Free, N!None, Holds, Holding, Stale, Exempt, Told, Busy, Threads, N!Idle, N!Main, N!Work
<1> QED
  BY <1>1, <1>2, <1>3, <1>4, <1>5 DEF NoticeInv, NoticeLaw

LEMMA HoldLaw == ASSUME NoticeInv, N!Hold PROVE NoticeInv'
<1> USE NoticesAssumption DEF N!NoticesConstants
<1>1. NoticeTypes'
  BY DEF NoticeInv, NoticeLaw, N!disk, N!records, N!parking, N!wakes, N!Ready, N!Free, NoticeTypes, Threads, Busy, N!Hold
<1>2. Loop'
  BY DEF NoticeInv, NoticeLaw, N!disk, N!records, N!parking, N!wakes, N!Ready, N!Free, Loop, Busy, N!Idle, Threads, N!Main, N!Hold
<1>3. Paces'
  BY DEF NoticeInv, NoticeLaw, N!disk, N!records, N!parking, N!wakes, N!Ready, N!Free, NoticeTypes, Paces, N!Hold
<1>4. Stamped' /\ Rows'
  BY QuietStep DEF NoticeInv, NoticeLaw, N!disk, N!records, N!parking, N!wakes, N!Ready, N!Free, N!Hold
<1>5. Holds'
  BY DEF NoticeInv, NoticeLaw, N!disk, N!records, N!parking, N!wakes, N!Ready, N!Free, N!None, Holds, Holding, Stale, Exempt, Told, Busy, Threads, N!Idle, N!Main, N!Hold
<1> QED
  BY <1>1, <1>2, <1>3, <1>4, <1>5 DEF NoticeInv, NoticeLaw

LEMMA LeaveLaw == ASSUME NoticeInv, N!Leave PROVE NoticeInv'
<1> USE NoticesAssumption DEF N!NoticesConstants
<1>1. NoticeTypes'
  BY DEF NoticeInv, NoticeLaw, N!disk, N!records, N!parking, N!wakes, N!Ready, N!Free, NoticeTypes, Threads, Busy, N!Leave, N!Ends
<1>2. Loop'
  BY DEF NoticeInv, NoticeLaw, N!disk, N!records, N!parking, N!wakes, N!Ready, N!Free, Loop, Busy, N!Idle, Threads, N!Main, N!Leave, N!Ends
<1>3. Paces'
  BY DEF NoticeInv, NoticeLaw, N!disk, N!records, N!parking, N!wakes, N!Ready, N!Free, NoticeTypes, Paces, N!Leave, N!Ends
<1>4. Stamped' /\ Rows'
  BY QuietStep DEF NoticeInv, NoticeLaw, N!disk, N!records, N!parking, N!wakes, N!Ready, N!Free, N!Leave, N!Ends
<1>5. Holds'
  BY DEF NoticeInv, NoticeLaw, N!disk, N!records, N!parking, N!wakes, N!Ready, N!Free, N!None, Holds, Holding, Stale, Exempt, Told, Busy, Threads, N!Idle, N!Main, N!Leave, N!Ends
<1> QED
  BY <1>1, <1>2, <1>3, <1>4, <1>5 DEF NoticeInv, NoticeLaw

LEMMA PollLaw == ASSUME NoticeInv, N!Poll PROVE NoticeInv'
<1> USE NoticesAssumption DEF N!NoticesConstants
<1>1. NoticeTypes'
  BY DEF NoticeInv, NoticeLaw, N!disk, N!records, N!parking, N!wakes, N!Ready, N!Free, NoticeTypes, Threads, Busy, N!Poll, N!PollHold, N!PollCheck, N!PollTimer, N!AnswerIt, N!FailIt
<1>2. Loop'
  BY DEF NoticeInv, NoticeLaw, N!disk, N!records, N!parking, N!wakes, N!Ready, N!Free, Loop, Busy, N!Idle, Threads, N!Main, N!Poll, N!PollHold, N!PollCheck, N!PollTimer, N!AnswerIt, N!FailIt
<1>3. Paces'
  BY DEF NoticeInv, NoticeLaw, N!disk, N!records, N!parking, N!wakes, N!Ready, N!Free, NoticeTypes, Paces, N!Poll, N!PollHold, N!PollCheck, N!PollTimer, N!AnswerIt, N!FailIt
<1>4. Stamped' /\ Rows'
  BY QuietStep DEF NoticeInv, NoticeLaw, N!disk, N!records, N!parking, N!wakes, N!Ready, N!Free, N!Poll, N!PollHold, N!PollCheck, N!PollTimer, N!AnswerIt, N!FailIt
<1>5. Holds'
  BY DEF NoticeInv, NoticeLaw, N!disk, N!records, N!parking, N!wakes, N!Ready, N!Free, N!None, Holds, Holding, Stale, Exempt, Told, Busy, Threads, N!Idle, N!Main, N!Poll, N!PollHold, N!PollCheck, N!PollTimer, N!AnswerIt, N!FailIt
<1> QED
  BY <1>1, <1>2, <1>3, <1>4, <1>5 DEF NoticeInv, NoticeLaw

LEMMA ElapseLaw == ASSUME NoticeInv, N!Elapse PROVE NoticeInv'
<1> USE NoticesAssumption DEF N!NoticesConstants
<1>1. NoticeTypes'
  BY DEF NoticeInv, NoticeLaw, N!disk, N!records, N!parking, N!wakes, N!Ready, N!Free, NoticeTypes, Threads, Busy, N!Elapse
<1>2. Loop'
  BY DEF NoticeInv, NoticeLaw, N!disk, N!records, N!parking, N!wakes, N!Ready, N!Free, NoticeTypes, Loop, Busy, N!Idle, Threads, N!Main, N!Elapse
<1>3. Paces'
  BY DEF NoticeInv, NoticeLaw, N!disk, N!records, N!parking, N!wakes, N!Ready, N!Free, NoticeTypes, Paces, N!Elapse
<1>4. Stamped' /\ Rows'
  BY QuietStep DEF NoticeInv, NoticeLaw, N!disk, N!records, N!parking, N!wakes, N!Ready, N!Free, N!Elapse
<1>5. Holds'
  BY DEF NoticeInv, NoticeLaw, N!disk, N!records, N!parking, N!wakes, N!Ready, N!Free, N!None, Holds, Holding, Stale, Exempt, Told, Busy, Threads, N!Idle, N!Main, N!Elapse
<1> QED
  BY <1>1, <1>2, <1>3, <1>4, <1>5 DEF NoticeInv, NoticeLaw

LEMMA ReleaseLaw == ASSUME NoticeInv, N!Release PROVE NoticeInv'
<1> USE NoticesAssumption DEF N!NoticesConstants
<1>1. NoticeTypes'
  BY DEF NoticeInv, NoticeLaw, N!disk, N!records, N!parking, N!wakes, N!Ready, N!Free, NoticeTypes, Threads, Busy, N!Release
<1>2. Loop'
  BY DEF NoticeInv, NoticeLaw, N!disk, N!records, N!parking, N!wakes, N!Ready, N!Free, Loop, Busy, N!Idle, Threads, N!Main, N!Release
<1>3. Paces'
  BY DEF NoticeInv, NoticeLaw, N!disk, N!records, N!parking, N!wakes, N!Ready, N!Free, NoticeTypes, Paces, N!Release
<1>4. Stamped' /\ Rows'
  BY QuietStep DEF NoticeInv, NoticeLaw, N!disk, N!records, N!parking, N!wakes, N!Ready, N!Free, N!Release
<1>5. Holds'
  BY DEF NoticeInv, NoticeLaw, N!disk, N!records, N!parking, N!wakes, N!Ready, N!Free, N!None, Holds, Holding, Stale, Exempt, Told, Busy, Threads, N!Idle, N!Main, N!Release
<1> QED
  BY <1>1, <1>2, <1>3, <1>4, <1>5 DEF NoticeInv, NoticeLaw

LEMMA ReviveLaw == ASSUME NoticeInv, N!Revive PROVE NoticeInv'
<1> USE NoticesAssumption DEF N!NoticesConstants
<1>1. NoticeTypes'
  BY DEF NoticeInv, NoticeLaw, N!disk, N!records, N!parking, N!wakes, N!Ready, N!Free, NoticeTypes, Threads, Busy, N!Revive
<1>2. Loop'
  BY DEF NoticeInv, NoticeLaw, N!disk, N!records, N!parking, N!wakes, N!Ready, N!Free, Loop, Busy, N!Idle, Threads, N!Main, N!Revive
<1>3. Paces'
  BY DEF NoticeInv, NoticeLaw, N!disk, N!records, N!parking, N!wakes, N!Ready, N!Free, NoticeTypes, Paces, N!Revive
<1>4. Stamped' /\ Rows'
  BY QuietStep DEF NoticeInv, NoticeLaw, N!disk, N!records, N!parking, N!wakes, N!Ready, N!Free, N!Revive
<1>5. Holds'
  BY DEF NoticeInv, NoticeLaw, N!disk, N!records, N!parking, N!wakes, N!Ready, N!Free, N!None, Holds, Holding, Stale, Exempt, Told, Busy, Threads, N!Idle, N!Main, N!Revive
<1> QED
  BY <1>1, <1>2, <1>3, <1>4, <1>5 DEF NoticeInv, NoticeLaw

LEMMA RestLaw == ASSUME NoticeInv, N!Rest PROVE NoticeInv'
<1> USE NoticesAssumption DEF N!NoticesConstants
<1>1. NoticeTypes'
  BY DEF NoticeInv, NoticeLaw, N!disk, N!records, N!parking, N!wakes, N!Ready, N!Free, NoticeTypes, Threads, Busy, N!Rest, N!vars
<1>2. Loop'
  BY DEF NoticeInv, NoticeLaw, N!disk, N!records, N!parking, N!wakes, N!Ready, N!Free, Loop, Busy, N!Idle, Threads, N!Main, N!Rest, N!vars
<1>3. Paces'
  BY DEF NoticeInv, NoticeLaw, N!disk, N!records, N!parking, N!wakes, N!Ready, N!Free, NoticeTypes, Paces, N!Rest, N!vars
<1>4. Stamped' /\ Rows'
  BY QuietStep DEF NoticeInv, NoticeLaw, N!disk, N!records, N!parking, N!wakes, N!Ready, N!Free, N!Rest, N!vars
<1>5. Holds'
  BY DEF NoticeInv, NoticeLaw, N!disk, N!records, N!parking, N!wakes, N!Ready, N!Free, N!None, Holds, Holding, Stale, Exempt, Told, Busy, Threads, N!Idle, N!Main, N!Rest, N!vars
<1> QED
  BY <1>1, <1>2, <1>3, <1>4, <1>5 DEF NoticeInv, NoticeLaw

LEMMA StillLaw == ASSUME NoticeInv, UNCHANGED N!vars PROVE NoticeInv'
<1>1. UNCHANGED <<scene, swaps, rev, door, restart, told, wakes, mine, marker, wakePc, exit, call>>
  BY DEF N!vars, N!disk, N!records, N!parking, N!wakes
<1>2. NoticeTypes'
  BY <1>1 DEF NoticeInv, NoticeTypes, Threads, Busy
<1>3. Loop' /\ Paces'
  BY <1>1 DEF NoticeInv, NoticeLaw, Loop, Paces, Busy
<1>4. Stamped' /\ Rows'
  BY <1>1, QuietStep
<1>5. Holds'
  BY <1>1 DEF NoticeInv, NoticeLaw, Holds, Holding, Stale, Exempt, Told, Busy
<1> QED
  BY <1>2, <1>3, <1>4, <1>5 DEF NoticeInv, NoticeLaw

\* The loop says something and waits for it.
LEMMA MainSays ==
  ASSUME NoticeInv, UNCHANGED <<scene, swaps, rev, door, restart, told, wakes, mine, marker, wakePc>>,
         ~ Busy(N!Main), wakePc \notin {"wave", "off"}, exit' # "held",
         NEW key, NEW node, NEW refire, NEW then, IsKey(key), key.rev = rev, refire \in BOOLEAN, N!Say(N!Main, key, node, refire, then),
         then \in {"loop", "failing", "blocked", "finished", "gone", "hold", "flush"},
         key.event = "stragglers" => refire = TRUE,
         then = "finished" => marker.pending = FALSE,
         then = "hold" => wakePc = "gate" /\ node = "gate" /\ key.event = "held" /\ key.subj = "gate" /\ key.gate = mine.graph.gate
  PROVE  NoticeInv'
<1>1. N!Main \in Threads /\ \A f \in scene.fans : f \in Threads \ {N!Main}
  BY NoticesAssumption DEF Threads, N!NoticesConstants, NoticeInv, NoticeTypes, N!Main
<1>2. /\ Stamped' /\ Rows' /\ Threads' = Threads
      /\ call' = [u \in Threads' |-> call'[u]] /\ \A u \in Threads' : (Busy(u) => IsCall(call[u]))'
      /\ Busy(N!Main)' /\ call'[N!Main].at = "begin" /\ call'[N!Main].key = key /\ call'[N!Main].node = node /\ call'[N!Main].then = then
      /\ call'[N!Main].refire = refire /\ \A u \in Threads \ {N!Main} : call'[u] = call[u] /\ Busy(u)' = Busy(u)
  BY <1>1, SayStep
<1>3. NoticeTypes' /\ Paces'
  BY <1>2 DEF NoticeInv, NoticeLaw, NoticeTypes, Paces
<1>4. Loop'
  BY <1>1, <1>2 DEF NoticeInv, NoticeLaw, Loop
<1>5. Holds'
  BY <1>2 DEF NoticeInv, NoticeLaw, Holds, Holding, Stale, Exempt, Told
<1> QED
  BY <1>2, <1>3, <1>4, <1>5 DEF NoticeInv, NoticeLaw

\* The loop goes on without a word.
LEMMA MainMoves ==
  ASSUME NoticeInv, UNCHANGED <<scene, swaps, rev, door, restart, told, wakes, mine, marker, call>>,
         ~ Busy(N!Main), wakePc # "wave", wakePc' \notin {"finished", "hold", "leave"}, exit' # "held"
  PROVE  NoticeInv'
<1>1. Stamped' /\ Rows'
  BY QuietStep
<1>2. NoticeTypes' /\ Paces'
  BY DEF NoticeInv, NoticeLaw, NoticeTypes, Paces, Threads, Busy
<1>3. Loop' /\ Holds'
  BY DEF NoticeInv, NoticeLaw, Loop, Holds, Holding, Busy
<1> QED
  BY <1>1, <1>2, <1>3 DEF NoticeInv, NoticeLaw

LEMMA Named ==
  ASSUME NoticeInv, NEW event, NEW subj, NEW gate, NEW n
  PROVE  /\ IsKey(N!Name(event, subj, gate, n)) /\ N!Name(event, subj, gate, n).rev = rev /\ N!Name(event, subj, gate, n).event = event
         /\ N!Name(event, subj, gate, n).subj = subj /\ N!Name(event, subj, gate, n).gate = gate
         /\ \A w : /\ IsKey([N!Name(event, subj, gate, n) EXCEPT !.work = w]) /\ [N!Name(event, subj, gate, n) EXCEPT !.work = w].rev = rev
                   /\ [N!Name(event, subj, gate, n) EXCEPT !.work = w].event = event
BY DEF N!Name, IsKey, NoticeInv, NoticeTypes

LEMMA PassLaw == ASSUME NoticeInv, N!Pass PROVE NoticeInv'
<1>0. wakePc \notin {"off", "wave"} /\ exit # "held"
  BY DEF N!Pass, N!Ready, NoticeInv, NoticeLaw, Holds
<1>1. CASE N!Due /\ N!Refire("loop") /\ UNCHANGED wakePc
  <2> DEFINE key == N!Name("stragglers", marker.node, N!None, marker.n)
  <2>1. IsKey(key) /\ key.rev = rev /\ key.event = "stragglers"
    BY Named
  <2>2. UNCHANGED <<scene, swaps, rev, door, restart, told, wakes, mine, marker, wakePc>> /\ ~ Busy(N!Main) /\ exit' # "held"
    BY <1>0, <1>1 DEF N!Pass, N!Refire, N!Say, N!Ready, N!Free, Busy, N!disk, N!records, N!parking, N!wakes, N!None
  <2>3. N!Say(N!Main, key, N!None, TRUE, "loop")
    BY <1>1 DEF N!Refire, N!Due
  <2> HIDE DEF key
  <2> QED
    BY <1>0, <1>1, <2>1, <2>2, <2>3, MainSays
<1>2. CASE N!Observe("failing")
  <2>1. CASE N!FailedOn(version)
    <3> DEFINE key == [N!Name("action", IF dead = version.gate THEN "gate" ELSE "work", version.gate, 0) EXCEPT !.work = version.work]
    <3>1. IsKey(key) /\ key.rev = rev /\ key.event = "action"
      BY Named
    <3>2. UNCHANGED <<scene, swaps, rev, door, restart, told, wakes, mine, marker, wakePc>> /\ ~ Busy(N!Main) /\ exit' # "held"
      BY <1>0, <1>2, <2>1 DEF N!Pass, N!Observe, N!Ready, N!Free, Busy, N!disk, N!records, N!parking, N!wakes, N!None
    <3>3. N!Say(N!Main, key, N!None, FALSE, "failing")
      BY <1>2, <2>1 DEF N!Observe
    <3> HIDE DEF key
    <3> QED
      BY <1>0, <1>2, <2>1, <3>1, <3>2, <3>3, MainSays
  <2>2. CASE ~ N!FailedOn(version)
    BY <1>2, <2>2, <1>0, MainMoves DEF N!Pass, N!Observe, N!Ready, N!Free, Busy, N!disk, N!records, N!parking, N!wakes, N!None
  <2> QED
    BY <2>1, <2>2
<1>3. CASE call' = call /\ wakePc' \in {"wave", "gate", "flush", "work"}
  BY <1>3, <1>0, MainMoves DEF N!Pass, N!Ready, N!Free, Busy, N!disk, N!records, N!parking, N!wakes, N!None
<1> QED
  BY <1>1, <1>2, <1>3 DEF N!Pass

LEMMA CommitLaw == ASSUME NoticeInv, N!Commit PROVE NoticeInv'
<1>0. wakePc \notin {"off", "wave"} /\ exit # "held"
  BY DEF N!Commit, N!Ready, NoticeInv, NoticeLaw, Holds
<1>1. CASE N!Observe("loop")
  <2>1. CASE N!FailedOn(version)
    <3> DEFINE key == [N!Name("action", IF dead = version.gate THEN "gate" ELSE "work", version.gate, 0) EXCEPT !.work = version.work]
    <3>1. IsKey(key) /\ key.rev = rev /\ key.event = "action"
      BY Named
    <3>2. UNCHANGED <<scene, swaps, rev, door, restart, told, wakes, mine, marker, wakePc>> /\ ~ Busy(N!Main) /\ exit' # "held"
      BY <1>0, <1>1, <2>1 DEF N!Commit, N!Observe, N!Ready, N!Free, Busy, N!disk, N!records, N!parking, N!wakes, N!None
    <3>3. N!Say(N!Main, key, N!None, FALSE, "loop")
      BY <1>1, <2>1 DEF N!Observe
    <3> HIDE DEF key
    <3> QED
      BY <1>0, <1>1, <2>1, <3>1, <3>2, <3>3, MainSays
  <2>2. CASE ~ N!FailedOn(version)
    BY <1>1, <2>2, <1>0, MainMoves DEF N!Commit, N!Observe, N!Ready, N!Free, Busy, N!disk, N!records, N!parking, N!wakes, N!None
  <2> QED
    BY <2>1, <2>2
<1>2. CASE call' = call /\ wakePc' = "loop"
  BY <1>2, <1>0, MainMoves DEF N!Commit, N!Ready, N!Free, Busy, N!disk, N!records, N!parking, N!wakes, N!None
<1> QED
  BY <1>1, <1>2 DEF N!Commit

LEMMA FailLaw == ASSUME NoticeInv, N!Fail PROVE NoticeInv'
<1>0. wakePc \notin {"off", "wave"} /\ exit # "held"
  BY DEF N!Fail, N!Ready, NoticeInv, NoticeLaw, Holds
<1>1. CASE N!Ready("failing") /\ N!Say(N!Main, N!Name("failed", N!None, N!None, 0), N!None, FALSE, "blocked") /\ UNCHANGED <<wakePc, exit>>
  <2> DEFINE key == N!Name("failed", N!None, N!None, 0)
  <2>1. IsKey(key) /\ key.rev = rev /\ key.event = "failed"
    BY Named
  <2>2. UNCHANGED <<scene, swaps, rev, door, restart, told, wakes, mine, marker, wakePc>> /\ ~ Busy(N!Main) /\ exit' # "held"
    BY <1>0, <1>1 DEF N!Fail, N!Ready, N!Free, Busy, N!disk, N!records, N!parking, N!wakes, N!None
  <2>3. N!Say(N!Main, key, N!None, FALSE, "blocked")
    BY <1>1 DEF N!Fail
  <2> HIDE DEF key
  <2> QED
    BY <1>0, <2>1, <2>2, <2>3, MainSays
<1>2. CASE N!Ready("blocked") /\ N!Ends("failed") /\ UNCHANGED call
  BY <1>2, <1>0, MainMoves DEF N!Fail, N!Ends, N!Ready, N!Free, Busy, N!disk, N!records, N!parking, N!wakes, N!None
<1> QED
  BY <1>1, <1>2 DEF N!Fail

LEMMA FinalizeLaw == ASSUME NoticeInv, N!Finalize PROVE NoticeInv'
<1>0. wakePc \notin {"off", "wave"} /\ exit # "held"
  BY DEF N!Finalize, N!Ready, NoticeInv, NoticeLaw, Holds
<1>1. CASE N!Ready("flush") /\ N!Refire("flush") /\ UNCHANGED <<wakePc, exit>>
  <2> DEFINE key == N!Name("stragglers", marker.node, N!None, marker.n)
  <2>1. IsKey(key) /\ key.rev = rev /\ key.event = "stragglers"
    BY Named
  <2>2. UNCHANGED <<scene, swaps, rev, door, restart, told, wakes, mine, marker, wakePc>> /\ ~ Busy(N!Main) /\ exit' # "held"
    BY <1>0, <1>1 DEF N!Finalize, N!Ready, N!Free, Busy, N!disk, N!records, N!parking, N!wakes, N!None
  <2>3. N!Say(N!Main, key, N!None, TRUE, "flush")
    BY <1>1 DEF N!Refire
  <2> HIDE DEF key
  <2> QED
    BY <1>0, <1>1, <2>1, <2>2, <2>3, MainSays
<1>2. CASE N!Ready("flush") /\ ~ marker.pending /\ N!Say(N!Main, N!Name("done", N!None, N!None, 0), N!None, FALSE, "finished") /\ UNCHANGED <<wakePc, exit>>
  <2> DEFINE key == N!Name("done", N!None, N!None, 0)
  <2>1. IsKey(key) /\ key.rev = rev /\ key.event = "done"
    BY Named
  <2>2. UNCHANGED <<scene, swaps, rev, door, restart, told, wakes, mine, marker, wakePc>> /\ ~ Busy(N!Main) /\ exit' # "held" /\ marker.pending = FALSE
    BY <1>0, <1>2 DEF N!Finalize, N!Ready, N!Free, Busy, N!disk, N!records, N!parking, N!wakes, N!None, NoticeInv, NoticeTypes
  <2>3. N!Say(N!Main, key, N!None, FALSE, "finished")
    BY <1>2 DEF N!Finalize
  <2> HIDE DEF key
  <2> QED
    BY <1>0, <1>2, <2>1, <2>2, <2>3, MainSays
<1>3. CASE N!Ready("finished") /\ N!Ends("done") /\ UNCHANGED call
  BY <1>3, <1>0, MainMoves DEF N!Finalize, N!Ends, N!Ready, N!Free, Busy, N!disk, N!records, N!parking, N!wakes, N!None
<1> QED
  BY <1>1, <1>2, <1>3 DEF N!Finalize

LEMMA ThrowLaw == ASSUME NoticeInv, N!Throw PROVE NoticeInv'
<1>0. wakePc \notin {"off", "wave"} /\ exit # "held"
  BY DEF N!Throw, N!Ready, NoticeInv, NoticeLaw, Holds
<1>1. CASE N!Ready("loop") /\ exit' = "crashed" /\ N!Say(N!Main, N!Name("failed", "crash", N!None, crashes + 1), N!None, FALSE, "gone") /\ UNCHANGED wakePc
  <2> DEFINE key == N!Name("failed", "crash", N!None, crashes + 1)
  <2>1. IsKey(key) /\ key.rev = rev /\ key.event = "failed"
    BY Named
  <2>2. UNCHANGED <<scene, swaps, rev, door, restart, told, wakes, mine, marker, wakePc>> /\ ~ Busy(N!Main) /\ exit' # "held"
    BY <1>0, <1>1 DEF N!Throw, N!Ready, N!Free, Busy, N!disk, N!records, N!parking, N!wakes, N!None
  <2>3. N!Say(N!Main, key, N!None, FALSE, "gone")
    BY <1>1 DEF N!Throw
  <2> HIDE DEF key
  <2> QED
    BY <1>0, <1>1, <2>1, <2>2, <2>3, MainSays
<1>2. CASE N!Ready("gone") /\ wakePc' = "off" /\ UNCHANGED <<exit, call>>
  BY <1>2, <1>0, MainMoves DEF N!Throw, N!Ready, N!Free, Busy, N!disk, N!records, N!parking, N!wakes, N!None
<1> QED
  BY <1>1, <1>2 DEF N!Throw

LEMMA GateLaw == ASSUME NoticeInv, N!Gate PROVE NoticeInv'
<1>0. wakePc \notin {"off", "wave"} /\ exit # "held"
  BY DEF N!Gate, N!Ready, NoticeInv, NoticeLaw, Holds
<1>1. CASE N!Say(N!Main, N!Name("held", "gate", mine.graph.gate, 0), "gate", FALSE, "hold") /\ UNCHANGED wakePc
  <2> DEFINE key == N!Name("held", "gate", mine.graph.gate, 0)
  <2>1. IsKey(key) /\ key.rev = rev /\ key.event = "held" /\ key.subj = "gate" /\ key.gate = mine.graph.gate
    BY Named
  <2>2. UNCHANGED <<scene, swaps, rev, door, restart, told, wakes, mine, marker, wakePc>> /\ ~ Busy(N!Main) /\ exit' # "held" /\ wakePc = "gate"
    BY <1>0, <1>1 DEF N!Gate, N!Ready, N!Free, Busy, N!disk, N!records, N!parking, N!wakes, N!None
  <2>3. N!Say(N!Main, key, "gate", FALSE, "hold")
    BY <1>1 DEF N!Gate
  <2> HIDE DEF key
  <2> QED
    BY <1>0, <1>1, <2>1, <2>2, <2>3, MainSays
<1>2. CASE wakePc' = "parked" /\ UNCHANGED call
  BY <1>2, <1>0, MainMoves DEF N!Gate, N!Ready, N!Free, Busy, N!disk, N!records, N!parking, N!wakes, N!None
<1> QED
  BY <1>1, <1>2 DEF N!Gate

LEMMA KillLaw == ASSUME NoticeInv, N!Kill PROVE NoticeInv'
<1>1. /\ UNCHANGED <<scene, swaps, rev, door, restart, told, wakes, mine, marker, exit>> /\ Threads' = Threads
      /\ wakePc # "off" /\ wakePc' = "off" /\ call' = [t \in Threads |-> N!Idle]
  BY DEF N!Kill, N!disk, N!wakes, NoticeInv, NoticeTypes, Threads
<1>2. \A t \in Threads : call'[t] = N!Idle /\ ~ Busy(t)'
  BY <1>1 DEF Busy
<1>3. NoticeTypes'
  BY <1>1, <1>2 DEF NoticeInv, NoticeTypes
<1>4. Loop' /\ Paces' /\ Holds'
  BY <1>1, <1>2 DEF NoticeInv, NoticeLaw, Loop, Paces, Holds, Holding, Threads
<1>5. Stamps' \subseteq Stamps \cup {Now}
  BY <1>1, <1>2 DEF Stamps, Speaks, Stamp
<1>6. Stamped' /\ Rows'
  BY <1>1, <1>2, <1>5, StampsKeep DEF NoticeInv, NoticeLaw, Rows
<1> QED
  BY <1>3, <1>4, <1>6 DEF NoticeInv, NoticeLaw

LEMMA StraggleLaw == ASSUME NoticeInv, NEW f \in scene.fans, N!Straggle(f) PROVE NoticeInv'
<1> DEFINE key == N!Name("stragglers", f, N!None, cohort[f] + 1)
<1>1. f \in Threads /\ f # N!Main /\ N!Main \in Threads
  BY NoticesAssumption DEF Threads, N!NoticesConstants, NoticeInv, NoticeTypes, N!Main
<1>2. IsKey(key) /\ key.rev = rev
  BY Named
<1>3. UNCHANGED <<scene, swaps, rev, door, restart, told, wakes, mine, marker, wakePc, exit>> /\ ~ Busy(f) /\ wakePc = "wave"
  BY DEF N!Straggle, N!Free, Busy, N!disk, N!wakes
<1>4. N!Say(f, key, f, FALSE, N!None)
  BY DEF N!Straggle
<1> HIDE DEF key
<1>5. /\ Stamped' /\ Rows' /\ Threads' = Threads
      /\ call' = [u \in Threads' |-> call'[u]] /\ \A u \in Threads' : (Busy(u) => IsCall(call[u]))'
      /\ \A u \in Threads \ {f} : call'[u] = call[u] /\ Busy(u)' = Busy(u)
  BY <1>1, <1>2, <1>3, <1>4, SayStep
<1>6. NoticeTypes' /\ Paces'
  BY <1>3, <1>5 DEF NoticeInv, NoticeLaw, NoticeTypes, Paces
<1>7. Loop' /\ Holds'
  BY <1>1, <1>3, <1>5 DEF NoticeInv, NoticeLaw, Loop, Holds, Holding, Stale, Exempt, Told
<1> QED
  BY <1>5, <1>6, <1>7 DEF NoticeInv, NoticeLaw

LEMMA AmendLaw == ASSUME NoticeInv, N!Amend PROVE NoticeInv'
<1>1. UNCHANGED <<scene, told, wakes, mine, marker, wakePc, call, exit>>
  BY DEF N!Amend, N!wakes
<1>2. NoticeTypes'
  <2>1. swaps \in Nat /\ rev \in Nat /\ restart \in BOOLEAN
    BY DEF NoticeInv, NoticeTypes
  <2>2. swaps' \in Nat
    BY <2>1 DEF N!Amend, N!disk
  <2>3. rev' \in Nat
    BY <2>1 DEF N!Amend, N!disk
  <2>4. door' \in {"idle", "swapped", "logged"} /\ restart' \in BOOLEAN
    BY <2>1 DEF N!Amend, N!disk
  <2> QED
    BY <1>1, <2>2, <2>3, <2>4 DEF NoticeInv, NoticeTypes, Threads, Busy
<1>3. Paces'
  BY <1>1 DEF NoticeInv, NoticeLaw, NoticeTypes, Paces, N!Amend, N!disk
<1>4. Stamped'
  BY <1>3, StampsAmend DEF NoticeInv, NoticeLaw
<1>5. Loop' /\ Rows'
  BY <1>1 DEF NoticeInv, NoticeLaw, Loop, Rows, Threads, Busy
<1>6. Stale' \/ Exempt'
  BY <1>1 DEF NoticeInv, NoticeLaw, NoticeTypes, Paces, N!Amend, N!disk, Stale, Exempt
<1>7. Holds'
  BY <1>1, <1>6 DEF NoticeInv, NoticeLaw, Holds, Holding, Busy
<1> QED
  BY <1>2, <1>3, <1>4, <1>5, <1>7 DEF NoticeInv, NoticeLaw

-----------------------------------------------------------------------------
LEMMA CallStep ==
  ASSUME NoticeInv, UNCHANGED scene, NEW t \in Threads, NEW c, c = N!Idle \/ IsCall(c), call' = [call EXCEPT ![t] = c]
  PROVE  /\ Threads' = Threads /\ call' = [u \in Threads' |-> call'[u]] /\ \A u \in Threads' : (Busy(u) => IsCall(call[u]))'
         /\ call'[t] = c /\ (Busy(t)' <=> c # N!Idle)
         /\ \A u \in Threads \ {t} : call'[u] = call[u] /\ Busy(u)' = Busy(u)
<1>1. Threads' = Threads /\ call = [u \in Threads |-> call[u]] /\ \A u \in Threads : Busy(u) => IsCall(call[u])
  BY DEF NoticeInv, NoticeTypes, Threads
<1>2. call'[t] = c /\ \A u \in Threads \ {t} : call'[u] = call[u]
  BY <1>1
<1>3. (Busy(t)' <=> c # N!Idle) /\ \A u \in Threads \ {t} : Busy(u)' = Busy(u)
  BY <1>2 DEF Busy, N!Idle
<1>4. call' = [u \in Threads' |-> call'[u]]
  BY <1>1
<1> QED
  BY <1>1, <1>2, <1>3, <1>4

\* The record of a call with another place.
LEMMA Moved ==
  ASSUME NEW c, IsCall(c), NEW to \in {"begin", "mirror", "judge", "post", "record"}, NEW d, d = [c EXCEPT !.at = to]
  PROVE  /\ IsCall(d) /\ d # N!Idle /\ d.at = to /\ d.key = c.key /\ d.node = c.node /\ d.refire = c.refire
         /\ d.then = c.then /\ d.since = c.since /\ d.got = c.got
<1>1. d = [at |-> to, key |-> c.key, node |-> c.node, refire |-> c.refire, then |-> c.then, since |-> c.since, got |-> c.got]
  BY DEF IsCall
<1>2. d.at = to /\ d.key = c.key /\ d.node = c.node /\ d.refire = c.refire /\ d.then = c.then /\ d.since = c.since /\ d.got = c.got
  BY <1>1
<1>3. IsCall(d) /\ d # N!Idle
  BY <1>1, <1>2 DEF IsCall, N!Idle
<1> QED
  BY <1>2, <1>3

\* A call that moves speaks as before, of now, or not.
LEMMA StampStep ==
  ASSUME NoticeInv, UNCHANGED <<scene, swaps, rev, door>>, NEW t \in Threads, NEW c, c = N!Idle \/ IsCall(c), call' = [call EXCEPT ![t] = c],
         c # N!Idle /\ (c.at \in {"post", "record"} \/ c.key.event = "action") =>
           (Speaks(t) /\ c.key.rev = call[t].key.rev /\ c.since = call[t].since) \/ (c.key.rev = rev /\ c.since = N!Moment),
         \A x \in told' : x \in told \/ (Speaks(t) /\ x.id.rev = call[t].key.rev /\ x.since = call[t].since)
  PROVE  Stamped'
<1>1. /\ Threads' = Threads /\ call'[t] = c /\ (Busy(t)' <=> c # N!Idle)
      /\ \A u \in Threads \ {t} : call'[u] = call[u] /\ Busy(u)' = Busy(u)
  BY CallStep
<1>2. ASSUME NEW p \in Stamps' PROVE p \in Stamps \cup {Now}
  <2>1. CASE \E x \in told' : p = Stamp(x.id.rev, x.since)
    BY <2>1 DEF Stamps
  <2>2. CASE \E u \in Threads : Speaks(u)' /\ p = Stamp(call'[u].key.rev, call'[u].since)
    <3>1. PICK u \in Threads : Speaks(u)' /\ p = Stamp(call'[u].key.rev, call'[u].since)
      BY <2>2
    <3>2. CASE u = t
      <4>1. c # N!Idle /\ (c.at \in {"post", "record"} \/ c.key.event = "action") /\ p = Stamp(c.key.rev, c.since)
        BY <1>1, <3>1, <3>2 DEF Speaks
      <4> QED
        BY <4>1 DEF Stamps, Now, Stamp
    <3>3. CASE u # t
      BY <1>1, <3>1, <3>3 DEF Stamps, Speaks, Stamp
    <3> QED
      BY <3>2, <3>3
  <2> QED
    BY <1>1, <1>2, <2>1, <2>2 DEF Stamps, Stamp
<1> QED
  BY <1>2, StampsKeep DEF NoticeInv, NoticeLaw

\* What a thread at work is.
LEMMA Spoken == ASSUME NoticeInv, NEW t \in Threads, NEW place \in {"begin", "mirror", "judge", "post", "record"}, N!At(t, place)
  PROVE  Busy(t) /\ IsCall(call[t]) /\ call[t].at = place /\ wakePc # "off" /\ (t # N!Main => t \in scene.fans /\ wakePc = "wave") /\ N!Main \in Threads
<1>1. Busy(t) /\ call[t].at = place /\ wakePc # "off"
  BY DEF N!At, Busy, N!Idle
<1>2. IsCall(call[t])
  BY <1>1 DEF NoticeInv, NoticeTypes
<1>3. (t # N!Main => t \in scene.fans /\ wakePc = "wave") /\ N!Main \in Threads
  BY <1>1 DEF NoticeInv, NoticeLaw, Loop, Threads
<1> QED
  BY <1>1, <1>2, <1>3

\* A call that goes on, with no return.
LEMMA GoesLaw ==
  ASSUME NoticeInv, UNCHANGED <<scene, swaps, rev, door, restart, told, wakes, mine, wakePc, exit>>,
         NEW t \in Threads, NEW from \in {"begin", "mirror", "judge", "post", "record"}, N!At(t, from),
         NEW to \in {"begin", "mirror", "judge"}, N!Goes(t, to),
         marker' = marker \/ \E e, f, g : marker' = [window |-> e, pending |-> FALSE, node |-> f, n |-> g]
  PROVE  NoticeInv'
<1> DEFINE c == [call[t] EXCEPT !.at = to]
<1>1. Busy(t) /\ IsCall(call[t]) /\ (t # N!Main => t \in scene.fans)
  BY Spoken
<1>2. call' = [call EXCEPT ![t] = c]
  BY DEF N!Goes
<1>3. IsCall(c) /\ c # N!Idle /\ c.at = to /\ c.key = call[t].key /\ c.node = call[t].node /\ c.refire = call[t].refire
      /\ c.then = call[t].then /\ c.since = call[t].since
  BY <1>1, Moved
<1> HIDE DEF c
<1>4. /\ Threads' = Threads /\ call' = [u \in Threads' |-> call'[u]] /\ \A u \in Threads' : (Busy(u) => IsCall(call[u]))'
      /\ call'[t] = c /\ Busy(t)' /\ \A u \in Threads \ {t} : call'[u] = call[u] /\ Busy(u)' = Busy(u)
  BY <1>2, <1>3, CallStep
<1>5. NoticeTypes'
  <2>1. marker' = [window |-> marker'.window, pending |-> marker'.pending, node |-> marker'.node, n |-> marker'.n] /\ marker'.pending \in BOOLEAN
    <3>1. CASE marker' = marker
      BY <3>1 DEF NoticeInv, NoticeTypes
    <3>2. CASE \E e, f, g : marker' = [window |-> e, pending |-> FALSE, node |-> f, n |-> g]
      BY <3>2
    <3> QED
      BY <3>1, <3>2
  <2> QED
    BY <1>4, <2>1 DEF NoticeInv, NoticeTypes
<1>6. Loop'
  <2>1. marker'.pending = marker.pending \/ marker'.pending = FALSE
    OBVIOUS
  <2> QED
    BY <1>1, <1>3, <1>4, <2>1 DEF NoticeInv, NoticeLaw, Loop, Threads
<1>7. Stamped'
  <2>1. c.key.event = "action" => Speaks(t)
    BY <1>1, <1>3 DEF Speaks
  <2> QED
    BY <1>2, <1>3, <2>1, StampStep
<1>8. Paces' /\ Rows'
  BY <1>1, <1>3, <1>4 DEF NoticeInv, NoticeLaw, Paces, Rows
<1>9. Holds'
  <2>1. Stale' = Stale /\ Exempt' = Exempt /\ Told' = Told
    BY DEF Stale, Exempt, Told
  <2>2. c.at \notin {"post", "record"}
    BY <1>3
  <2>3. CASE t = N!Main
    BY <1>1, <1>3, <1>4, <2>1, <2>2, <2>3 DEF NoticeInv, NoticeLaw, Holds, Holding
  <2>4. CASE t # N!Main
    <3>1. N!Main \in Threads \ {t}
      BY <2>4 DEF Threads
    <3>2. call'[N!Main] = call[N!Main] /\ Busy(N!Main)' = Busy(N!Main)
      BY <1>4, <3>1
    <3> QED
      BY <2>1, <3>2 DEF NoticeInv, NoticeLaw, Holds, Holding
  <2> QED
    BY <2>3, <2>4
<1> QED
  BY <1>5, <1>6, <1>7, <1>8, <1>9 DEF NoticeInv, NoticeLaw

\* A call that returns: what it leaves in the ledger is true, and a hold was told or need not be.
LEMMA ReturnLaw ==
  ASSUME NoticeInv, UNCHANGED <<scene, swaps, rev, door, restart, told, mine, exit>>,
         NEW t \in Threads, NEW from \in {"begin", "mirror", "judge", "post", "record"}, N!At(t, from),
         NEW word, N!Return(t, word),
         marker' = marker \/ (t # N!Main /\ \E e, f, g : marker' = [window |-> e, pending |-> TRUE, node |-> f, n |-> g]),
         \A row \in wakes' : row \in wakes \/ (row.delivered \in {"true", "null"} /\ scene.wire = {"turn"} => \E x \in told : x.id = row.id),
         t = N!Main /\ Holding => Stale \/ Exempt \/ Told
  PROVE  NoticeInv'
<1>1. Busy(t) /\ IsCall(call[t]) /\ (t # N!Main => t \in scene.fans /\ wakePc = "wave") /\ wakePc # "off"
  BY Spoken
<1>2. call' = [call EXCEPT ![t] = N!Idle] /\ wakePc' = IF t = N!Main THEN call[t].then ELSE wakePc
  BY DEF N!Return
<1>3. /\ Threads' = Threads /\ call' = [u \in Threads' |-> call'[u]] /\ \A u \in Threads' : (Busy(u) => IsCall(call[u]))'
      /\ ~ Busy(t)' /\ \A u \in Threads \ {t} : call'[u] = call[u] /\ Busy(u)' = Busy(u)
  BY <1>2, CallStep
<1>4. NoticeTypes'
  <2>1. marker' = [window |-> marker'.window, pending |-> marker'.pending, node |-> marker'.node, n |-> marker'.n] /\ marker'.pending \in BOOLEAN
    <3>1. CASE marker' = marker
      BY <3>1 DEF NoticeInv, NoticeTypes
    <3>2. CASE \E e, f, g : marker' = [window |-> e, pending |-> TRUE, node |-> f, n |-> g]
      BY <3>2
    <3> QED
      BY <3>1, <3>2
  <2> QED
    BY <1>3, <2>1 DEF NoticeInv, NoticeTypes
<1>5. Loop'
  <2>1. CASE t = N!Main
    BY <1>1, <1>2, <1>3, <2>1 DEF NoticeInv, NoticeLaw, Loop, Threads
  <2>2. CASE t # N!Main
    BY <1>1, <1>2, <1>3, <2>2 DEF NoticeInv, NoticeLaw, Loop, Threads
  <2> QED
    BY <2>1, <2>2
<1>6. Stamped'
  BY <1>2, StampStep
<1>7. Paces' /\ Rows'
  BY <1>3 DEF NoticeInv, NoticeLaw, Paces, Rows
<1>8. Holds'
  <2>1. CASE t = N!Main
    BY <1>1, <1>2, <1>3, <2>1 DEF NoticeInv, NoticeLaw, Loop, Holds, Holding, Stale, Exempt, Told, Threads
  <2>2. CASE t # N!Main
    BY <1>1, <1>2, <1>3, <2>2 DEF NoticeInv, NoticeLaw, Loop, Holds, Holding, Stale, Exempt, Told, Threads
  <2> QED
    BY <2>1, <2>2
<1> QED
  BY <1>4, <1>5, <1>6, <1>7, <1>8 DEF NoticeInv, NoticeLaw

LEMMA BeginLaw == ASSUME NoticeInv, NEW t \in Threads, N!Begin(t) PROVE NoticeInv'
<1>1. /\ UNCHANGED <<scene, swaps, rev, door, restart, told, wakes, mine, exit>> /\ N!At(t, "begin")
  BY DEF N!Begin, N!disk
<1>2. CASE N!Coalesced(call[t])
  <2>1. t # N!Main
    BY <1>1, <1>2, Spoken DEF N!Coalesced, NoticeInv, NoticeLaw, Loop
  <2>2. N!Return(t, "coalesced")
    BY <1>2 DEF N!Begin
  <2>3. marker' = [window |-> marker.window, pending |-> TRUE, node |-> call[t].key.subj, n |-> call[t].key.n]
    BY <1>2 DEF N!Begin, NoticeInv, NoticeTypes
  <2> QED
    BY <1>1, <2>1, <2>2, <2>3, ReturnLaw
<1>3. CASE ~ N!Coalesced(call[t])
  <2>1. PICK to \in {"mirror", "judge"} : N!Goes(t, to)
    BY <1>3 DEF N!Begin
  <2>2. UNCHANGED wakePc
    BY <2>1 DEF N!Goes
  <2>3. marker' = marker \/ marker' = [window |-> "open", pending |-> FALSE, node |-> call[t].key.subj, n |-> call[t].key.n]
    BY <1>3 DEF N!Begin
  <2> QED
    BY <1>1, <2>1, <2>2, <2>3, GoesLaw
<1> QED
  BY <1>2, <1>3

LEMMA MirrorLaw == ASSUME NoticeInv, NEW t \in Threads, N!Mirror(t) PROVE NoticeInv'
BY GoesLaw DEF N!Mirror, N!disk, N!Goes

LEMMA Identified ==
  ASSUME NoticeInv, NEW c, IsCall(c)
  PROVE  /\ IsKey(N!Identity(c)) /\ N!Identity(c).event = c.key.event
         /\ c.key.event # "action" => N!Identity(c).rev = rev
         /\ c.key.event = "action" => N!Identity(c) = c.key
         /\ c.key.event = "held" /\ c.key.subj = "gate" => N!Identity(c).subj = "gate" /\ N!Identity(c).gate = c.key.gate
<1>1. CASE c.key.event = "action"
  BY <1>1 DEF N!Identity, IsCall
<1>2. CASE c.key.event # "action" /\ c.key.subj # N!None
  <2>1. N!Identity(c) = [c.key EXCEPT !.rev = rev]
    BY <1>2 DEF N!Identity
  <2>2. [c.key EXCEPT !.rev = rev] =
          [event |-> c.key.event, subj |-> c.key.subj, gate |-> c.key.gate, work |-> c.key.work, n |-> c.key.n, rev |-> rev]
    BY DEF IsCall, IsKey
  <2> QED
    BY <1>2, <2>1, <2>2 DEF IsKey, NoticeInv, NoticeTypes
<1>3. CASE c.key.event # "action" /\ c.key.subj = N!None
  <2>1. N!Identity(c) = [c.key EXCEPT !.gate = version.gate, !.work = version.work, !.rev = rev]
    BY <1>3 DEF N!Identity
  <2>2. [c.key EXCEPT !.gate = version.gate, !.work = version.work, !.rev = rev] =
          [event |-> c.key.event, subj |-> c.key.subj, gate |-> version.gate, work |-> version.work, n |-> c.key.n, rev |-> rev]
    <3> DEFINE k == c.key
    <3>1. k = [event |-> k.event, subj |-> k.subj, gate |-> k.gate, work |-> k.work, n |-> k.n, rev |-> k.rev]
      BY DEF IsCall, IsKey
    <3> HIDE DEF k
    <3>2. [k EXCEPT !.gate = version.gate, !.work = version.work, !.rev = rev] =
            [event |-> k.event, subj |-> k.subj, gate |-> version.gate, work |-> version.work, n |-> k.n, rev |-> rev]
      <4>1. ASSUME NEW e, e = [k EXCEPT !.gate = version.gate, !.work = version.work, !.rev = rev]
            PROVE  e = [event |-> k.event, subj |-> k.subj, gate |-> version.gate, work |-> version.work, n |-> k.n, rev |-> rev]
        BY <3>1, <4>1
      <4> QED
        BY <4>1
    <3> QED
      BY <3>2 DEF k
  <2> QED
    BY <1>3, <2>1, <2>2 DEF IsKey, NoticeInv, NoticeTypes, N!None
<1> QED
  BY <1>1, <1>2, <1>3

LEMMA JudgeLaw == ASSUME NoticeInv, NEW t \in Threads, N!Judge(t) PROVE NoticeInv'
<1> DEFINE c == call[t]
<1>1. /\ UNCHANGED <<scene, swaps, rev, door, restart, told, mine, marker, exit>> /\ N!At(t, "judge") /\ Busy(t) /\ IsCall(c)
      /\ (t # N!Main => t \in scene.fans)
  BY Spoken DEF N!Judge, N!disk
<1>2. t = N!Main /\ Holding => c.key.event = "held" /\ c.key.subj = "gate" /\ c.key.gate = mine.graph.gate /\ c.node = "gate"
  BY DEF NoticeInv, NoticeLaw, Holds
<1>3. CASE scene.owner = "null" /\ N!Return(t, "skipped") /\ UNCHANGED wakes
  BY <1>1, <1>3, ReturnLaw DEF Exempt
<1>4. CASE N!Settled(N!Identity(c)) /\ N!Return(t, "delivered") /\ UNCHANGED wakes
  <2>1. ASSUME t = N!Main, Holding, ~ Stale, ~ Exempt PROVE Told
    <3>1. PICK row \in wakes : row.id = N!Identity(c) /\ row.delivered \in {"true", "null"}
      BY <1>4 DEF N!Settled
    <3>2. PICK x \in told : x.id = N!Identity(c)
      BY <2>1, <3>1 DEF NoticeInv, NoticeLaw, Rows, Exempt
    <3>3. x.id.event = "held" /\ x.id.gate = mine.graph.gate /\ x.id.rev = rev
      BY <1>1, <1>2, <2>1, <3>2, Identified
    <3>4. rev = swaps
      BY <2>1 DEF NoticeInv, NoticeLaw, Paces, Stale, Exempt
    <3>5. Stamp(x.id.rev, x.since) \in Stamps /\ Stamp(x.id.rev, x.since).rev = x.id.rev /\ Stamp(x.id.rev, x.since).since = x.since
      BY DEF Stamps, Stamp
    <3>6. 2 * x.id.rev <= x.since
      BY <3>5 DEF NoticeInv, NoticeLaw, Stamped
    <3> QED
      BY <3>3, <3>4, <3>6 DEF Told, NoticeInv, NoticeTypes
  <2> QED
    BY <1>1, <1>4, <2>1, ReturnLaw
<1>5. CASE N!Muted(c) /\ N!Return(t, "skipped") /\ wakes' = wakes \cup {N!Row(N!Identity(c), "muted")}
  <2>1. t = N!Main /\ Holding => Exempt
    BY <1>2, <1>5 DEF N!Muted, Exempt
  <2>2. N!Row(N!Identity(c), "muted").delivered = "muted"
    BY DEF N!Row
  <2> QED
    BY <1>1, <1>5, <2>1, <2>2, ReturnLaw
<1>6. CASE /\ UNCHANGED <<wakes, wakePc, heard>>
           /\ call' = [call EXCEPT ![t] = [c EXCEPT !.at = "post", !.key = N!Identity(c), !.since = IF c.key.event = "action" THEN c.since ELSE N!Moment]]
  <2> DEFINE m == IF c.key.event = "action" THEN c.since ELSE N!Moment
             d == [c EXCEPT !.at = "post", !.key = N!Identity(c), !.since = m]
  <2>1. d = [at |-> "post", key |-> N!Identity(c), node |-> c.node, refire |-> c.refire, then |-> c.then, since |-> m, got |-> c.got]
    <3>1. c = [at |-> c.at, key |-> c.key, node |-> c.node, refire |-> c.refire, then |-> c.then, since |-> c.since, got |-> c.got]
      BY <1>1 DEF IsCall
    <3> HIDE DEF c, m
    <3>2. ASSUME NEW e, e = [c EXCEPT !.at = "post", !.key = N!Identity(c), !.since = m]
          PROVE  e = [at |-> "post", key |-> N!Identity(c), node |-> c.node, refire |-> c.refire, then |-> c.then, since |-> m, got |-> c.got]
      BY <3>1, <3>2
    <3> QED
      BY <3>2
  <2>2. m \in Nat /\ 2 * swaps <= N!Moment
    <3>1. N!Moment \in Nat /\ 2 * swaps <= N!Moment
      BY Evens DEF N!Moment, NoticeInv, NoticeTypes
    <3> QED
      BY <1>1, <3>1 DEF IsCall
  <2>3. call' = [call EXCEPT ![t] = d]
    BY <1>6
  <2> HIDE DEF d
  <2>4. d.at = "post" /\ d.key = N!Identity(c) /\ d.node = c.node /\ d.refire = c.refire /\ d.then = c.then /\ d.since = m
    BY <2>1
  <2>5. IsCall(d) /\ d # N!Idle
    BY <1>1, <2>1, <2>2, <2>4, Identified DEF IsCall, N!Idle
  <2>6. /\ Threads' = Threads /\ call' = [u \in Threads' |-> call'[u]] /\ \A u \in Threads' : (Busy(u) => IsCall(call[u]))'
        /\ call'[t] = d /\ Busy(t)' /\ \A u \in Threads \ {t} : call'[u] = call[u] /\ Busy(u)' = Busy(u)
    BY <1>1, <2>3, <2>5, CallStep
  <2>7. NoticeTypes'
    BY <1>1, <2>6 DEF NoticeInv, NoticeTypes
  <2>8. Loop' /\ Paces'
    <3>1. Paces'
      BY <1>1 DEF NoticeInv, NoticeLaw, Paces
    <3>2. d.key.event = c.key.event
      BY <1>1, <2>4, Identified
    <3> HIDE DEF c, m
    <3>3. Loop'
      BY <1>1, <1>6, <2>4, <2>6, <3>2 DEF NoticeInv, NoticeLaw, Loop, Threads, c
    <3> QED
      BY <3>1, <3>3
  <2>9. Stamped'
    <3>1. CASE c.key.event = "action"
      <4>1. Speaks(t) /\ d.key.rev = call[t].key.rev /\ d.since = call[t].since
        BY <1>1, <2>4, <3>1, Identified DEF Speaks
      <4> QED
        BY <1>1, <2>3, <2>5, <4>1, StampStep
    <3>2. CASE c.key.event # "action"
      <4>1. d.key.rev = rev /\ d.since = N!Moment
        BY <1>1, <2>4, <3>2, Identified
      <4> QED
        BY <1>1, <2>3, <2>5, <4>1, StampStep
    <3> QED
      BY <3>1, <3>2
  <2>10. Rows'
    BY <1>1, <1>6, <2>4, <2>6 DEF NoticeInv, NoticeLaw, Rows
  <2>11. Holds'
    <3>1. CASE t = N!Main
      <4>1. Holding' => Holding /\ d.since = N!Moment /\ d.key.event = "held" /\ d.key.subj = "gate" /\ d.key.gate = mine.graph.gate
        BY <1>1, <1>2, <2>4, <2>6, <3>1, Identified DEF Holding
      <4>2. UNCHANGED <<scene, swaps, door, restart, told, mine, wakePc, exit>>
        BY <1>1, <1>6
      <4>3. Stale' = Stale /\ Exempt' = Exempt /\ Told' = Told
        BY <4>2 DEF Stale, Exempt, Told
      <4>4. Holds
        BY DEF NoticeInv, NoticeLaw
      <4>5. call'[N!Main] = d
        BY <2>6, <3>1
      <4>6. Holding' => /\ wakePc = "gate" /\ d.node = "gate" /\ d.key.event = "held" /\ d.key.subj = "gate"
                        /\ d.key.gate = mine.graph.gate
        BY <1>1, <2>4, <3>1, <4>1, <4>4 DEF Holds
      <4>7. Holding' => d.at = "post" /\ d.since >= 2 * swaps
        BY <2>2, <2>4, <4>1
      <4> QED
        BY <4>2, <4>3, <4>4, <4>5, <4>6, <4>7 DEF Holds
    <3>2. CASE t # N!Main
      BY <1>1, <1>6, <2>6, <3>2 DEF NoticeInv, NoticeLaw, Holds, Holding, Stale, Exempt, Told, Threads
    <3> QED
      BY <3>1, <3>2
  <2> QED
    BY <2>7, <2>8, <2>9, <2>10, <2>11 DEF NoticeInv, NoticeLaw
<1> QED
  BY <1>3, <1>4, <1>5, <1>6 DEF N!Judge

LEMMA PostLaw == ASSUME NoticeInv, NEW t \in Threads, N!Post(t) PROVE NoticeInv'
<1> DEFINE c == call[t]
<1>1. /\ UNCHANGED <<scene, swaps, rev, door, restart, mine, marker, exit, wakes, wakePc>> /\ N!At(t, "post") /\ Busy(t) /\ IsCall(c)
      /\ c.at = "post" /\ (t # N!Main => t \in scene.fans) /\ Speaks(t)
  BY Spoken DEF N!Post, N!disk, Speaks
<1>a. PICK via \in N!Transports : \E o \in N!Outcomes(via) :
        /\ call' = [call EXCEPT ![t] = [c EXCEPT !.at = "record", !.got = o]]
        /\ told' = IF o \in {"turn", "late"} THEN told \cup {[id |-> c.key, via |-> via, since |-> c.since, of |-> mine.graph]} ELSE told
  BY DEF N!Post
<1>2. PICK o \in N!Outcomes(via) :
        /\ call' = [call EXCEPT ![t] = [c EXCEPT !.at = "record", !.got = o]]
        /\ told' = IF o \in {"turn", "late"} THEN told \cup {[id |-> c.key, via |-> via, since |-> c.since, of |-> mine.graph]} ELSE told
  BY <1>a
<1>3. o \in scene.wire
  BY DEF N!Outcomes
<1> DEFINE d == [c EXCEPT !.at = "record", !.got = o]
<1>4. d = [at |-> "record", key |-> c.key, node |-> c.node, refire |-> c.refire, then |-> c.then, since |-> c.since, got |-> o]
  <2>1. c = [at |-> c.at, key |-> c.key, node |-> c.node, refire |-> c.refire, then |-> c.then, since |-> c.since, got |-> c.got]
    BY <1>1 DEF IsCall
  <2> HIDE DEF c
  <2>2. ASSUME NEW e, e = [c EXCEPT !.at = "record", !.got = o]
        PROVE  e = [at |-> "record", key |-> c.key, node |-> c.node, refire |-> c.refire, then |-> c.then, since |-> c.since, got |-> o]
    BY <2>1, <2>2
  <2> QED
    BY <2>2
<1>5. call' = [call EXCEPT ![t] = d]
  BY <1>2
<1> HIDE DEF d
<1>6. d.at = "record" /\ d.key = c.key /\ d.node = c.node /\ d.refire = c.refire /\ d.then = c.then /\ d.since = c.since /\ d.got = o
  BY <1>4
<1>7. IsCall(d) /\ d # N!Idle
  BY <1>1, <1>4, <1>6 DEF IsCall, N!Idle
<1>8. /\ Threads' = Threads /\ call' = [u \in Threads' |-> call'[u]] /\ \A u \in Threads' : (Busy(u) => IsCall(call[u]))'
      /\ call'[t] = d /\ Busy(t)' /\ \A u \in Threads \ {t} : call'[u] = call[u] /\ Busy(u)' = Busy(u)
  BY <1>1, <1>5, <1>7, CallStep
<1>9. /\ told \subseteq told'
      /\ o \in {"turn", "late"} => \E x \in told' : x.id = c.key /\ x.since = c.since
      /\ \A x \in told' : x \in told \/ (x.id = c.key /\ x.since = c.since)
  <2> DEFINE y == [id |-> c.key, via |-> via, since |-> c.since, of |-> mine.graph]
  <2>1. y.id = c.key /\ y.since = c.since
    OBVIOUS
  <2>2. told' = IF o \in {"turn", "late"} THEN told \cup {y} ELSE told
    BY <1>2
  <2> HIDE DEF y
  <2>3. CASE o \in {"turn", "late"}
    BY <2>1, <2>2, <2>3
  <2>4. CASE o \notin {"turn", "late"}
    BY <2>2, <2>4
  <2> QED
    BY <2>3, <2>4
<1>10. NoticeTypes'
  <2>1. IsKey(c.key) /\ c.since \in Nat
    BY <1>1 DEF IsCall
  <2>2. \A x \in told' : IsKey(x.id) /\ x.since \in Nat
    BY <1>9, <2>1 DEF NoticeInv, NoticeTypes
  <2> QED
    BY <1>1, <1>8, <2>2 DEF NoticeInv, NoticeTypes
<1>11. Loop' /\ Paces'
  BY <1>1, <1>6, <1>8 DEF NoticeInv, NoticeLaw, Loop, Paces, Threads
<1>12. Stamped'
  BY <1>1, <1>5, <1>6, <1>7, <1>9, StampStep
<1>13. Rows'
  <2>1. \A row \in wakes' : row.delivered \in {"true", "null"} /\ scene'.wire = {"turn"} => \E x \in told' : x.id = row.id
    BY <1>1, <1>9 DEF NoticeInv, NoticeLaw, Rows
  <2>2. ASSUME NEW u \in Threads, Busy(u)', call'[u].at = "record"
        PROVE  call'[u].got \in scene'.wire /\ (call'[u].got = "turn" => \E x \in told' : x.id = call'[u].key /\ x.since = call'[u].since)
    <3>1. CASE u = t
      BY <1>1, <1>3, <1>6, <1>8, <1>9, <3>1
    <3>2. CASE u # t
      BY <1>1, <1>8, <1>9, <2>2, <3>2 DEF NoticeInv, NoticeLaw, Rows
    <3> QED
      BY <3>1, <3>2
  <2> QED
    BY <1>8, <2>1, <2>2 DEF Rows
<1>14. Holds'
  <2>1. Told => Told'
    BY <1>1, <1>9 DEF Told
  <2>2. CASE t = N!Main
    <3>1. Holding' => Holding /\ (Stale \/ Exempt \/ c.since >= 2 * swaps)
      BY <1>1, <1>6, <1>8, <2>2 DEF NoticeInv, NoticeLaw, Holds, Holding
    <3>2. Holding' /\ ~ Stale /\ ~ Exempt => Told'
      <4>1. SUFFICES ASSUME Holding', ~ Stale, ~ Exempt PROVE Told'
        OBVIOUS
      <4>2. o = "turn"
        BY <1>3, <4>1 DEF Exempt
      <4>3. PICK x \in told' : x.id = c.key /\ x.since = c.since
        BY <1>9, <4>2
      <4>4. c.key.event = "held" /\ c.key.gate = mine.graph.gate
        BY <2>2, <3>1, <4>1 DEF NoticeInv, NoticeLaw, Holds
      <4> QED
        BY <1>1, <3>1, <4>1, <4>3, <4>4 DEF Told
    <3> QED
      BY <1>1, <1>6, <1>8, <2>1, <2>2, <3>1, <3>2 DEF NoticeInv, NoticeLaw, Holds, Holding, Stale, Exempt
  <2>3. CASE t # N!Main
    BY <1>1, <1>8, <2>1, <2>3 DEF NoticeInv, NoticeLaw, Holds, Holding, Stale, Exempt, Threads
  <2> QED
    BY <2>2, <2>3
<1> QED
  BY <1>10, <1>11, <1>12, <1>13, <1>14 DEF NoticeInv, NoticeLaw

LEMMA RecordLaw == ASSUME NoticeInv, NEW t \in Threads, N!Record(t) PROVE NoticeInv'
<1> DEFINE c == call[t]
           delivered == CASE c.got = "turn" -> "true" [] c.got = "nowhere" -> "null" [] OTHER -> "false"
<1>1. /\ UNCHANGED <<scene, swaps, rev, door, restart, told, mine, marker, exit>> /\ N!At(t, "record") /\ Busy(t) /\ c.at = "record"
      /\ wakes' = wakes \cup {N!Row(c.key, delivered)}
  BY Spoken DEF N!Record, N!disk
<1>2. \E word : N!Return(t, word)
  BY DEF N!Record
<1>3. c.got \in scene.wire /\ (c.got = "turn" => \E x \in told : x.id = c.key)
  BY <1>1 DEF NoticeInv, NoticeLaw, Rows
<1>4. delivered = "true" => c.got = "turn"
  OBVIOUS
<1>5. delivered = "null" => c.got = "nowhere"
  OBVIOUS
<1>6. N!Row(c.key, delivered).id = c.key /\ N!Row(c.key, delivered).delivered = delivered
  BY DEF N!Row
<1> HIDE DEF delivered, c
<1>7. \A row \in wakes' : row \in wakes \/ (row.delivered \in {"true", "null"} /\ scene.wire = {"turn"} => \E x \in told : x.id = row.id)
  <2>1. delivered \in {"true", "null"} /\ scene.wire = {"turn"} => \E x \in told : x.id = c.key
    BY <1>3, <1>4, <1>5
  <2> QED
    BY <1>1, <1>6, <2>1
<1>8. t = N!Main /\ Holding => Stale \/ Exempt \/ Told
  BY <1>1 DEF NoticeInv, NoticeLaw, Holds, c
<1> QED
  BY <1>1, <1>2, <1>7, <1>8, ReturnLaw

LEMMA NoticeStep == ASSUME NoticeInv, [N!Next]_(N!vars) PROVE NoticeInv'
<1>1. CASE \E t \in DOMAIN call : N!Tells(t)
  <2>1. DOMAIN call = Threads
    BY DEF NoticeInv, NoticeTypes
  <2> QED
    BY <1>1, <2>1, BeginLaw, MirrorLaw, JudgeLaw, PostLaw, RecordLaw DEF N!Tells
<1>2. CASE \E f \in scene.fans : N!Straggle(f)
  BY <1>2, StraggleLaw
<1>3. CASE N!Runs
  BY <1>3, ReloadLaw, PassLaw, WaveEndsLaw, WorkLaw, CommitLaw, FailLaw, FinalizeLaw, ThrowLaw, GateLaw, HoldLaw, LeaveLaw DEF N!Runs
<1>4. CASE N!Poll \/ N!Elapse \/ N!Amend \/ N!Release \/ N!Kill \/ N!Revive \/ N!Rest
  BY <1>4, PollLaw, ElapseLaw, AmendLaw, ReleaseLaw, KillLaw, ReviveLaw, RestLaw
<1>5. CASE UNCHANGED N!vars
  BY <1>5, StillLaw
<1> QED
  BY <1>1, <1>2, <1>3, <1>4, <1>5 DEF N!Next

LEMMA NoticeInvKeeps == ASSUME NoticeInv PROVE N!HoldIsTold /\ N!OneIdEach /\ N!BurstLands
<1>1. N!HoldIsTold
  <2>1. scene.frail \in BOOLEAN
    BY NoticesAssumption DEF N!NoticesConstants, NoticeInv, NoticeTypes
  <2> QED
    BY <2>1 DEF N!HoldIsTold, NoticeInv, NoticeLaw, NoticeTypes, Holds, Stale, Exempt, Told
<1>2. N!OneIdEach
  <2> SUFFICES ASSUME NEW x \in told, NEW y \in told, N!Same(x, y) PROVE x.id = y.id
    BY DEF N!OneIdEach
  <2>1. IsKey(x.id) /\ IsKey(y.id)
    BY DEF NoticeInv, NoticeTypes
  <2>2. Stamp(x.id.rev, x.since) \in Stamps /\ Stamp(y.id.rev, y.since) \in Stamps
    BY DEF Stamps
  <2>3. x.id.rev = y.id.rev
    BY <2>2 DEF NoticeInv, NoticeLaw, Stamped, Stamp, N!Same
  <2> QED
    BY <2>1, <2>3 DEF IsKey, N!Same
<1>3. N!BurstLands
  BY DEF N!BurstLands, NoticeInv, NoticeLaw, Loop
<1> QED
  BY <1>1, <1>2, <1>3

-----------------------------------------------------------------------------
(* Strikes and clocks.                                                     *)

HeldName == N!Name("held", "gate", mine.graph.gate, 0)
Unheard == ~ N!Settled(HeldName)

\* What was said or is being said carries a revision that the log has reached, and a run of nobody
\* tells nobody.
RevsPast ==
  /\ \A row \in wakes : row.id.rev \in 0..rev
  /\ \A t \in Threads : Busy(t) =>
       call[t].key.rev \in 0..rev /\ (call[t].at \in {"post", "record"} => scene.owner # "null")
  /\ scene.owner = "null" => wakes = {}

\* A hold that is being told, or was not heard, has no row that settles under the name of now;
\* the loop says nothing while it judges a hold or parks.
Silence ==
  /\ wakePc \in {"hold", "parked"} => ~ Busy(N!Main)
  /\ Holding =>
       /\ scene.gate \in {"exit", "park"} /\ call[N!Main].key = [HeldName EXCEPT !.rev = call[N!Main].key.rev]
       /\ call[N!Main].at \in {"post", "record"} => Unheard
  /\ wakePc = "hold" => scene.gate \in {"exit", "park"} /\ (heard \in {"undelivered", "skipped"} => Unheard)

\* A gate that is kept is watched in memory as it is on disk.
Copied ==
  Holding \/ wakePc = "hold" \/ (wakePc = "parked" /\ scene.gate = "park") =>
    watch.def = hold.def /\ watch.settled = hold.settled

IsHold(w) == w = [def |-> w.def, strikes |-> w.strikes, settled |-> w.settled, expired |-> w.expired]
Watches == IsHold(hold) /\ IsHold(watch)

StrikeLaw == RevsPast /\ Silence /\ Copied
StrikeInv == NoticeInv /\ StrikeLaw /\ Watches /\ age \in Nat

LEMMA StrikeInit == ASSUME N!Init PROVE StrikeInv
<1>1. NoticeInv
  BY NoticeInit
<1>2. StrikeLaw
  BY <1>1 DEF N!Init, StrikeLaw, RevsPast, Silence, Copied, Holding, Busy, Threads
<1>3. Watches /\ age \in Nat
  BY DEF N!Init, Watches, IsHold, N!NoHold
<1> QED
  BY <1>1, <1>2, <1>3 DEF StrikeInv

\* A step of the loop that says nothing and reaches no hold.
LEMMA StrikeQuiet ==
  ASSUME StrikeInv, UNCHANGED <<scene, rev, wakes, call>>, ~ Busy(N!Main),
         wakePc' # "hold", wakePc' = "parked" /\ scene.gate = "park" => watch'.def = hold'.def /\ watch'.settled = hold'.settled
  PROVE  StrikeLaw'
<1>1. RevsPast'
  BY DEF StrikeInv, StrikeLaw, RevsPast, Busy, Threads
<1>2. ~ Holding' /\ ~ Busy(N!Main)'
  BY DEF Holding, Busy
<1> QED
  BY <1>1, <1>2 DEF StrikeLaw, Silence, Copied

\* A step of the loop that says something other than a hold.
LEMMA StrikeSays ==
  ASSUME StrikeInv, UNCHANGED <<scene, rev, wakes>>, wakePc # "hold", wakePc' # "hold", wakePc' # "parked", ~ Busy(N!Main),
         NEW key, NEW node, NEW refire, NEW then, then # "hold", key.rev = rev, N!Say(N!Main, key, node, refire, then)
  PROVE  StrikeLaw'
<1>1. N!Main \in Threads /\ rev \in Nat
  BY DEF StrikeInv, NoticeInv, NoticeTypes, Threads
<1>2. /\ call'[N!Main].key = key /\ call'[N!Main].then = then /\ call'[N!Main].at = "begin"
      /\ \A u \in Threads \ {N!Main} : call'[u] = call[u]
  BY <1>1 DEF N!Say, StrikeInv, NoticeInv, NoticeTypes
<1>3. RevsPast'
  BY <1>1, <1>2 DEF StrikeInv, StrikeLaw, RevsPast, Busy, Threads
<1>4. ~ Holding'
  BY <1>2 DEF Holding
<1> QED
  BY <1>3, <1>4 DEF StrikeLaw, Silence, Copied

LEMMA StrikeRuns == ASSUME StrikeInv, N!Reload \/ N!WaveEnds \/ N!Work \/ N!Leave PROVE StrikeLaw'
<1>1. UNCHANGED <<scene, rev, wakes, call>> /\ wakePc' # "hold" /\ wakePc' # "parked" /\ (N!Reload \/ N!Work \/ N!Leave => ~ Busy(N!Main))
  BY DEF N!Reload, N!WaveEnds, N!Work, N!Leave, N!Ends, N!Ready, N!Free, Busy, N!disk, N!wakes
<1>2. N!WaveEnds => ~ Busy(N!Main)
  BY DEF N!WaveEnds, StrikeInv, NoticeInv, NoticeLaw, Loop
<1> QED
  BY <1>1, <1>2, StrikeQuiet

LEMMA StrikePass == ASSUME StrikeInv, N!Pass \/ N!Commit \/ N!Fail \/ N!Finalize \/ N!Throw PROVE StrikeLaw'
<1> DEFINE Quiet == UNCHANGED call /\ wakePc' # "hold" /\ wakePc' # "parked"
           Says == \E key, node, refire, then :
                     then # "hold" /\ key.rev = rev /\ N!Say(N!Main, key, node, refire, then) /\ wakePc' = wakePc
<1>1. UNCHANGED <<scene, rev, wakes>> /\ ~ Busy(N!Main) /\ wakePc # "hold" /\ wakePc # "parked"
  BY DEF N!Pass, N!Commit, N!Fail, N!Finalize, N!Throw, N!Ready, N!Free, Busy, N!disk, N!wakes
<1>2. ASSUME NEW then \in {"failing", "loop"}, N!Observe(then) PROVE Quiet \/ Says
  <2>1. CASE N!FailedOn(version)
    <3> DEFINE key == [N!Name("action", IF dead = version.gate THEN "gate" ELSE "work", version.gate, 0) EXCEPT !.work = version.work]
    <3>1. N!Say(N!Main, key, N!None, FALSE, then) /\ wakePc' = wakePc
      BY <1>2, <2>1 DEF N!Observe
    <3>2. key.rev = rev
      BY DEF N!Name
    <3> QED
      BY <3>1, <3>2
  <2>2. CASE ~ N!FailedOn(version)
    BY <1>2, <2>2 DEF N!Observe
  <2> QED
    BY <2>1, <2>2
<1>3. ASSUME NEW then \in {"loop", "flush"}, N!Refire(then), wakePc' = wakePc PROVE Says
  <2>1. N!Name("stragglers", marker.node, N!None, marker.n).rev = rev
    BY DEF N!Name
  <2> QED
    BY <1>3, <2>1 DEF N!Refire
<1>4. N!Pass => Quiet \/ Says
  BY <1>2, <1>3 DEF N!Pass
<1>5. N!Commit => Quiet \/ Says
  BY <1>2 DEF N!Commit
<1>6. ASSUME NEW event, NEW subj, NEW n, NEW then \in {"blocked", "finished", "gone"},
             N!Say(N!Main, N!Name(event, subj, N!None, n), N!None, FALSE, then), wakePc' = wakePc PROVE Says
  <2>1. N!Name(event, subj, N!None, n).rev = rev
    BY DEF N!Name
  <2> QED
    BY <1>6, <2>1
<1>7. N!Fail => Quiet \/ Says
  BY <1>6 DEF N!Fail, N!Ends
<1>8. N!Finalize => Quiet \/ Says
  BY <1>3, <1>6 DEF N!Finalize, N!Ends
<1>9. N!Throw => Quiet \/ Says
  BY <1>6 DEF N!Throw
<1>10. CASE Quiet
  BY <1>1, <1>10, StrikeQuiet
<1>11. CASE Says
  <2>1. PICK key, node, refire, then : then # "hold" /\ key.rev = rev /\ N!Say(N!Main, key, node, refire, then) /\ wakePc' = wakePc
    BY <1>11
  <2> QED
    BY <1>1, <2>1, StrikeSays
<1> QED
  BY <1>4, <1>5, <1>7, <1>8, <1>9, <1>10, <1>11

LEMMA StrikeGate == ASSUME StrikeInv, N!Gate PROVE StrikeLaw'
<1>1. UNCHANGED <<scene, rev, wakes, mine>> /\ ~ Busy(N!Main) /\ wakePc = "gate" /\ N!Main \in Threads /\ rev \in Nat
  BY DEF N!Gate, N!Ready, N!Free, Busy, N!disk, N!wakes, StrikeInv, NoticeInv, NoticeTypes, Threads
<1>2. CASE UNCHANGED call
  <2>1. wakePc' = "parked" /\ scene.gate \in {"check", "timer"}
    <3>1. ASSUME NEW key, NEW node, NEW refire, NEW then, N!Say(N!Main, key, node, refire, then) PROVE FALSE
      <4>1. call'[N!Main].at = "begin" /\ call[N!Main] = N!Idle
        BY <1>1, <3>1 DEF N!Say, Busy, StrikeInv, NoticeInv, NoticeTypes
      <4> QED
        BY <1>2, <4>1 DEF N!Idle
    <3> QED
      BY <3>1 DEF N!Gate
  <2> QED
    BY <1>1, <1>2, <2>1, StrikeQuiet
<1>3. CASE scene.gate \in {"exit", "park"} /\ N!Say(N!Main, HeldName, "gate", FALSE, "hold") /\ wakePc' = wakePc
           /\ watch'.def = hold'.def /\ watch'.settled = hold'.settled
  <2>1. /\ call'[N!Main].key = HeldName /\ call'[N!Main].at = "begin"
        /\ \A u \in Threads \ {N!Main} : call'[u] = call[u]
    BY <1>1, <1>3 DEF N!Say, StrikeInv, NoticeInv, NoticeTypes
  <2>2. HeldName.rev = rev /\ HeldName' = HeldName
    BY <1>1 DEF HeldName, N!Name
  <2>3. RevsPast'
    BY <1>1, <2>1, <2>2 DEF StrikeInv, StrikeLaw, RevsPast, Busy, Threads
  <2>4. HeldName = [HeldName EXCEPT !.rev = HeldName.rev]
    BY DEF HeldName, N!Name
  <2>5. Silence'
    BY <1>1, <1>3, <2>1, <2>2, <2>4 DEF Silence
  <2> QED
    BY <1>3, <2>3, <2>5 DEF StrikeLaw, Copied
<1>4. CASE ~ UNCHANGED call
  <2>1. /\ scene.gate \in {"exit", "park"} /\ N!Say(N!Main, HeldName, "gate", FALSE, "hold") /\ wakePc' = wakePc
        /\ IF scene.gate = "park" THEN hold' = watch' ELSE watch' = hold /\ hold' = hold
    BY <1>4 DEF N!Gate, HeldName
  <2> QED
    BY <1>3, <2>1
<1> QED
  BY <1>2, <1>4

LEMMA StrikeHold == ASSUME StrikeInv, N!Hold PROVE StrikeLaw'
<1>1. UNCHANGED <<scene, rev, wakes, call>> /\ ~ Busy(N!Main) /\ wakePc' # "hold" /\ hold' = watch'
  BY DEF N!Hold, N!Ready, N!Free, Busy, N!disk, N!wakes
<1> QED
  BY <1>1, StrikeQuiet

LEMMA StrikePoll == ASSUME StrikeInv, N!Poll PROVE StrikeLaw'
<1>1. UNCHANGED <<scene, rev, wakes, call>> /\ ~ Busy(N!Main) /\ wakePc = "parked"
  BY DEF N!Poll, N!Ready, N!Free, Busy, N!disk, N!wakes
<1>2. wakePc' # "hold"
  BY <1>1 DEF N!Poll, N!PollHold, N!PollCheck, N!PollTimer, N!AnswerIt, N!FailIt
<1>3. ASSUME wakePc' = "parked", scene.gate = "park" PROVE watch'.def = hold'.def /\ watch'.settled = hold'.settled
  <2>1. watch.def = hold.def /\ watch.settled = hold.settled
    BY <1>1, <1>3 DEF StrikeInv, StrikeLaw, Copied
  <2>2. N!PollHold
    BY <1>3 DEF N!Poll
  <2>3. CASE hold' = [watch EXCEPT !.expired = TRUE] /\ watch' = [hold' EXCEPT !.strikes = 0]
    BY <2>3
  <2>4. CASE watch' = [watch EXCEPT !.strikes = 0] /\ hold' = hold
    BY <2>1, <2>4
  <2> QED
    BY <1>3, <2>1, <2>2, <2>3, <2>4 DEF N!PollHold, N!AnswerIt, N!FailIt
<1> QED
  BY <1>1, <1>2, <1>3, StrikeQuiet

\* Time and the doors.
LEMMA StrikeElapse == ASSUME StrikeInv, N!Elapse \/ N!Release \/ N!Rest PROVE StrikeLaw'
<1>1. UNCHANGED <<scene, rev, wakes, call, wakePc, mine, heard, hold, watch>>
  BY DEF N!Elapse, N!Release, N!Rest, N!vars, N!disk, N!records, N!parking, N!wakes
<1> QED
  BY <1>1 DEF StrikeInv, StrikeLaw, RevsPast, Silence, Copied, Holding, Busy, Threads, HeldName, Unheard, N!Name, N!Settled

LEMMA StrikeAmend == ASSUME StrikeInv, N!Amend PROVE StrikeLaw'
<1>1. UNCHANGED <<scene, wakes, call, wakePc, mine, heard, hold, watch>> /\ rev' \in {rev, rev + 1} /\ rev \in Nat
  BY DEF N!Amend, N!disk, N!records, N!parking, N!wakes, StrikeInv, NoticeInv, NoticeTypes
<1>2. RevsPast'
  BY <1>1 DEF StrikeInv, StrikeLaw, RevsPast, Busy, Threads
<1>3. CASE rev' = rev
  BY <1>1, <1>2, <1>3 DEF StrikeInv, StrikeLaw, Silence, Copied, Holding, Busy, HeldName, Unheard, N!Name, N!Settled
<1>4. CASE rev' = rev + 1
  <2>1. ASSUME NEW row \in wakes PROVE row.id # HeldName'
    <3>1. row.id.rev # HeldName'.rev
      BY <1>1, <1>4, <2>1 DEF HeldName, N!Name, StrikeInv, StrikeLaw, RevsPast
    <3> QED
      BY <3>1
  <2>2. Unheard'
    BY <1>1, <2>1 DEF Unheard, N!Settled
  <2>3. \A k : [HeldName EXCEPT !.rev = k]' = [HeldName EXCEPT !.rev = k]
    BY <1>1 DEF HeldName, N!Name
  <2> QED
    BY <1>1, <1>2, <2>2, <2>3 DEF StrikeInv, StrikeLaw, Silence, Copied, Holding, Busy
<1> QED
  BY <1>1, <1>3, <1>4

LEMMA StrikeKill == ASSUME StrikeInv, N!Kill PROVE StrikeLaw'
<1>1. UNCHANGED <<scene, rev, wakes>> /\ wakePc' = "off" /\ call' = [t \in DOMAIN call |-> N!Idle] /\ Threads' = Threads
  BY DEF N!Kill, N!disk, N!wakes, N!records, Threads
<1>2. DOMAIN call = Threads /\ N!Main \in Threads
  BY DEF StrikeInv, NoticeInv, NoticeTypes, Threads
<1>3. \A t \in Threads : ~ Busy(t)'
  BY <1>1, <1>2 DEF Busy
<1> QED
  BY <1>1, <1>2, <1>3 DEF StrikeInv, StrikeLaw, RevsPast, Silence, Copied, Holding

LEMMA StrikeRevive == ASSUME StrikeInv, N!Revive PROVE StrikeLaw'
<1>1. UNCHANGED <<scene, rev, wakes, call>> /\ wakePc = "off" /\ wakePc' = "loop"
  BY DEF N!Revive, N!disk, N!wakes, N!records
<1>2. ~ Busy(N!Main)
  BY <1>1 DEF StrikeInv, NoticeInv, NoticeLaw, Loop
<1> QED
  BY <1>1, <1>2, StrikeQuiet

LEMMA StrikeStraggle == ASSUME StrikeInv, NEW f \in scene.fans, N!Straggle(f) PROVE StrikeLaw'
<1>1. UNCHANGED <<scene, rev, wakes, wakePc>> /\ wakePc = "wave" /\ f # N!Main /\ N!Main \in Threads /\ f \in Threads /\ rev \in Nat /\ ~ Busy(N!Main)
  BY NoticesAssumption DEF N!Straggle, N!disk, N!records, N!wakes, N!NoticesConstants, N!Main, StrikeInv, NoticeInv, NoticeTypes, NoticeLaw, Loop, Threads
<1>2. /\ call'[f].key.rev = rev /\ call'[f].at = "begin" /\ \A u \in Threads \ {f} : call'[u] = call[u]
  BY <1>1 DEF N!Straggle, N!Say, N!Name, StrikeInv, NoticeInv, NoticeTypes
<1>3. RevsPast'
  BY <1>1, <1>2 DEF StrikeInv, StrikeLaw, RevsPast, Busy, Threads
<1>4. ~ Holding'
  BY <1>1, <1>2 DEF Holding, Busy
<1> QED
  BY <1>1, <1>3, <1>4 DEF StrikeLaw, Silence, Copied

\* A call of another thread than the loop's, or of the loop.
LEMMA StrikeCall ==
  ASSUME StrikeInv, UNCHANGED <<scene, rev, hold, watch>>, NEW t \in Threads, NEW c, c = N!Idle \/ IsCall(c), call' = [call EXCEPT ![t] = c],
         c # N!Idle => c.key.rev \in 0..rev /\ (c.at \in {"post", "record"} => scene.owner # "null"),
         \A row \in wakes' : row \in wakes \/ (row.id.rev \in 0..rev /\ scene.owner # "null"),
         Busy(t), t # N!Main => wakePc = "wave" /\ wakePc' = wakePc,
         t = N!Main => Silence',
         t = N!Main => (Holding' \/ wakePc' = "hold" \/ wakePc' = "parked" => Holding)
  PROVE  StrikeLaw'
<1>1. /\ Threads' = Threads /\ call'[t] = c /\ (Busy(t)' <=> c # N!Idle)
      /\ \A u \in Threads \ {t} : call'[u] = call[u] /\ Busy(u)' = Busy(u)
  BY CallStep DEF StrikeInv
<1>2. RevsPast'
  BY <1>1 DEF StrikeInv, StrikeLaw, RevsPast
<1>3. CASE t = N!Main
  BY <1>2, <1>3 DEF StrikeInv, StrikeLaw, Copied
<1>4. CASE t # N!Main
  <2>1. ~ Busy(N!Main)' /\ N!Main \in Threads
    BY <1>1, <1>4 DEF StrikeInv, NoticeInv, NoticeLaw, Loop, Threads
  <2> QED
    BY <1>2, <1>4, <2>1 DEF StrikeLaw, Silence, Copied, Holding
<1> QED
  BY <1>3, <1>4

\* A call that goes on under its key.
LEMMA StrikeGoes ==
  ASSUME StrikeInv, UNCHANGED <<scene, rev, mine, hold, watch, wakes>>, NEW t \in Threads,
         NEW from \in {"begin", "mirror"}, N!At(t, from), NEW to \in {"mirror", "judge"}, N!Goes(t, to)
  PROVE  StrikeLaw'
<1> DEFINE c == [call[t] EXCEPT !.at = to]
<1>1. Busy(t) /\ IsCall(call[t]) /\ (t # N!Main => wakePc = "wave")
  BY Spoken DEF StrikeInv
<1>2. IsCall(c) /\ c # N!Idle /\ c.at = to /\ c.key = call[t].key /\ c.then = call[t].then
  BY <1>1, Moved
<1>3. call' = [call EXCEPT ![t] = c] /\ call = [u \in Threads |-> call[u]] /\ UNCHANGED <<wakePc, heard>>
  BY DEF N!Goes, StrikeInv, NoticeInv, NoticeTypes
<1>4. c.key.rev \in 0..rev
  BY <1>1, <1>2 DEF StrikeInv, StrikeLaw, RevsPast
<1>5. ASSUME t = N!Main PROVE Silence' /\ (Holding' \/ wakePc' = "hold" \/ wakePc' = "parked" => Holding)
  <2>1. call'[N!Main] = c /\ (Holding' <=> Holding)
    BY <1>1, <1>2, <1>3, <1>5 DEF Holding, Busy
  <2>2. wakePc # "hold" /\ wakePc # "parked"
    BY <1>1, <1>5 DEF StrikeInv, StrikeLaw, Silence
  <2>3. HeldName' = HeldName
    BY DEF HeldName, N!Name
  <2> QED
    BY <1>2, <1>3, <1>5, <2>1, <2>2, <2>3 DEF Silence, StrikeInv, StrikeLaw
<1> QED
  BY <1>1, <1>2, <1>3, <1>4, <1>5, StrikeCall

\* A call that returns: a hold that was not heard has no row that settles.
LEMMA StrikeReturn ==
  ASSUME StrikeInv, UNCHANGED <<scene, rev, mine, hold, watch>>, NEW t \in Threads, Busy(t), t # N!Main => wakePc = "wave",
         NEW word, N!Return(t, word),
         \A row \in wakes' : row \in wakes \/ (row.id.rev \in 0..rev /\ scene.owner # "null"),
         t = N!Main /\ Holding /\ word \in {"undelivered", "skipped"} =>
           /\ Unheard
           /\ \A row \in wakes' : row \in wakes \/ row.delivered \notin {"true", "null"}
  PROVE  StrikeLaw'
<1>1. call' = [call EXCEPT ![t] = N!Idle] /\ (t # N!Main => wakePc' = wakePc) /\ (t = N!Main => wakePc' = call[t].then /\ heard' = word)
  BY DEF N!Return
<1>2. ASSUME t = N!Main PROVE Silence' /\ (Holding' \/ wakePc' = "hold" \/ wakePc' = "parked" => Holding)
  <2>1. ~ Busy(N!Main)' /\ ~ Holding'
    BY <1>1, <1>2, CallStep DEF Holding, StrikeInv
  <2>2. wakePc' = "hold" => Holding
    BY <1>1, <1>2 DEF Holding
  <2>3. wakePc' # "parked"
    BY <1>1, <1>2 DEF StrikeInv, NoticeInv, NoticeLaw, Loop
  <2>4. Holding => scene.gate \in {"exit", "park"}
    BY DEF StrikeInv, StrikeLaw, Silence
  <2>5. HeldName' = HeldName
    BY DEF HeldName, N!Name
  <2>6. Holding /\ word \in {"undelivered", "skipped"} => Unheard'
    BY <1>2, <2>5 DEF Unheard, N!Settled
  <2> QED
    BY <1>1, <1>2, <2>1, <2>2, <2>3, <2>4, <2>6 DEF Silence
<1> QED
  BY <1>1, <1>2, StrikeCall

LEMMA StrikeBegin == ASSUME StrikeInv, NEW t \in Threads, N!Begin(t) PROVE StrikeLaw'
<1>1. Busy(t) /\ IsCall(call[t]) /\ (t # N!Main => wakePc = "wave")
  BY Spoken DEF N!Begin, StrikeInv
<1>2. UNCHANGED <<scene, rev, mine, hold, watch, wakes>> /\ N!At(t, "begin")
  BY DEF N!Begin, N!disk, N!parking
<1>3. CASE \E to \in {"mirror", "judge"} : N!Goes(t, to)
  BY <1>2, <1>3, StrikeGoes
<1>4. CASE N!Coalesced(call[t]) /\ N!Return(t, "coalesced")
  <2>1. call[t].key.event = "stragglers"
    BY <1>4 DEF N!Coalesced
  <2>2. ~ (t = N!Main /\ Holding)
    BY <2>1 DEF StrikeInv, NoticeInv, NoticeLaw, Holds
  <2> QED
    BY <1>1, <1>2, <1>4, <2>2, StrikeReturn
<1> QED
  BY <1>3, <1>4 DEF N!Begin

LEMMA StrikeMirror == ASSUME StrikeInv, NEW t \in Threads, N!Mirror(t) PROVE StrikeLaw'
BY StrikeGoes DEF N!Mirror, N!disk, N!parking

LEMMA StrikeJudge == ASSUME StrikeInv, NEW t \in Threads, N!Judge(t) PROVE StrikeLaw'
<1> DEFINE c == call[t]
<1>1. Busy(t) /\ IsCall(c) /\ (t # N!Main => wakePc = "wave")
  BY Spoken DEF N!Judge, StrikeInv
<1>2. UNCHANGED <<scene, rev, mine, hold, watch>> /\ N!At(t, "judge") /\ rev \in Nat /\ c.key.rev \in 0..rev
  BY <1>1 DEF N!Judge, N!disk, N!parking, StrikeInv, NoticeInv, NoticeTypes, StrikeLaw, RevsPast
<1>3. IsKey(N!Identity(c)) /\ N!Identity(c).rev \in 0..rev
  BY <1>1, <1>2, Identified DEF StrikeInv
<1>4. ASSUME t = N!Main, Holding PROVE N!Identity(c) = HeldName
  <2>1. c.key = [HeldName EXCEPT !.rev = c.key.rev]
    BY <1>4 DEF StrikeInv, StrikeLaw, Silence
  <2>2. c.key = [event |-> "held", subj |-> "gate", gate |-> mine.graph.gate, work |-> N!None, n |-> 0, rev |-> c.key.rev]
    BY <2>1 DEF HeldName, N!Name
  <2>3. c.key.event = "held" /\ c.key.subj = "gate"
    BY <2>2
  <2>4. N!Identity(c) = [c.key EXCEPT !.rev = rev]
    BY <2>3 DEF N!Identity, N!None
  <2> HIDE DEF c
  <2> QED
    BY <2>2, <2>4 DEF HeldName, N!Name
<1>5. CASE scene.owner = "null" /\ N!Return(t, "skipped") /\ wakes' = wakes
  <2>1. Unheard
    BY <1>5 DEF StrikeInv, StrikeLaw, RevsPast, Unheard, N!Settled
  <2> QED
    BY <1>1, <1>2, <1>5, <2>1, StrikeReturn DEF N!Settled
<1>6. CASE N!Return(t, "delivered") /\ wakes' = wakes
  BY <1>1, <1>2, <1>6, StrikeReturn
<1>7. CASE scene.owner # "null" /\ ~ N!Settled(N!Identity(c)) /\ N!Return(t, "skipped") /\ wakes' = wakes \cup {N!Row(N!Identity(c), "muted")}
  <2>1. \A row \in wakes' : row \in wakes \/ (row.id.rev \in 0..rev /\ row.delivered = "muted")
    BY <1>3, <1>7 DEF N!Row
  <2>2. t = N!Main /\ Holding => Unheard
    BY <1>4, <1>7 DEF Unheard
  <2> QED
    BY <1>1, <1>2, <1>7, <2>1, <2>2, StrikeReturn
<1>8. CASE scene.owner # "null" /\ ~ N!Settled(N!Identity(c)) /\ wakes' = wakes /\ UNCHANGED <<wakePc, heard>>
           /\ call' = [call EXCEPT ![t] = [c EXCEPT !.at = "post", !.key = N!Identity(c), !.since = IF c.key.event = "action" THEN c.since ELSE N!Moment]]
  <2> DEFINE m == IF c.key.event = "action" THEN c.since ELSE N!Moment
             d == [c EXCEPT !.at = "post", !.key = N!Identity(c), !.since = m]
  <2>1. m \in Nat
    BY <1>1, Evens DEF IsCall, N!Moment, StrikeInv, NoticeInv, NoticeTypes
  <2>2. d = [at |-> "post", key |-> N!Identity(c), node |-> c.node, refire |-> c.refire, then |-> c.then, since |-> m, got |-> c.got]
    <3>1. c = [at |-> c.at, key |-> c.key, node |-> c.node, refire |-> c.refire, then |-> c.then, since |-> c.since, got |-> c.got]
      BY <1>1 DEF IsCall
    <3> HIDE DEF c, m
    <3>2. ASSUME NEW i, NEW e, e = [c EXCEPT !.at = "post", !.key = i, !.since = m]
          PROVE  e = [at |-> "post", key |-> i, node |-> c.node, refire |-> c.refire, then |-> c.then, since |-> m, got |-> c.got]
      BY <3>1, <3>2
    <3> QED
      BY <3>2
  <2>3. /\ d.at = "post" /\ d.key = N!Identity(c) /\ d.then = c.then /\ d # N!Idle /\ IsCall(d)
    <3>1. d.at = "post" /\ d.key = N!Identity(c) /\ d.node = c.node /\ d.refire = c.refire /\ d.then = c.then /\ d.since = m /\ d.got = c.got
      BY <2>2
    <3> HIDE DEF d
    <3> QED
      BY <1>1, <1>3, <2>1, <2>2, <3>1 DEF IsCall, N!Idle
  <2>4. call' = [call EXCEPT ![t] = d] /\ call = [u \in Threads |-> call[u]]
    BY <1>8 DEF StrikeInv, NoticeInv, NoticeTypes
  <2> HIDE DEF d
  <2>5. ASSUME t = N!Main PROVE Silence' /\ (Holding' \/ wakePc' = "hold" \/ wakePc' = "parked" => Holding)
    <3>1. call'[N!Main] = d /\ (Holding' <=> Holding)
      BY <1>1, <2>3, <2>4, <2>5 DEF Holding, Busy
    <3>2. wakePc # "hold" /\ wakePc # "parked"
      BY <1>1, <2>5 DEF StrikeInv, StrikeLaw, Silence
    <3>3. HeldName' = HeldName
      BY <1>2 DEF HeldName, N!Name
    <3>4. Holding => d.key = HeldName /\ Unheard' /\ scene.gate \in {"exit", "park"}
      BY <1>4, <1>8, <2>3, <2>5, <3>3 DEF Unheard, N!Settled, StrikeInv, StrikeLaw, Silence
    <3>5. HeldName = [HeldName EXCEPT !.rev = HeldName.rev]
      BY DEF HeldName, N!Name
    <3> QED
      BY <1>2, <1>8, <2>3, <2>5, <3>1, <3>2, <3>3, <3>4, <3>5 DEF Silence
  <2> QED
    BY <1>1, <1>2, <1>3, <1>8, <2>3, <2>4, <2>5, StrikeCall
<1> QED
  BY <1>5, <1>6, <1>7, <1>8 DEF N!Judge

LEMMA StrikePost == ASSUME StrikeInv, NEW t \in Threads, N!Post(t) PROVE StrikeLaw'
<1> DEFINE c == call[t]
<1>1. Busy(t) /\ IsCall(c) /\ c.at = "post" /\ (t # N!Main => wakePc = "wave")
  BY Spoken DEF N!Post, StrikeInv
<1>2. UNCHANGED <<scene, rev, mine, hold, watch, wakes, wakePc, heard>> /\ c.key.rev \in 0..rev /\ scene.owner # "null"
  BY <1>1 DEF N!Post, N!disk, N!parking, StrikeInv, StrikeLaw, RevsPast
<1>3. PICK o : call' = [call EXCEPT ![t] = [c EXCEPT !.at = "record", !.got = o]]
  BY DEF N!Post
<1> DEFINE d == [c EXCEPT !.at = "record", !.got = o]
<1>4. d = [at |-> "record", key |-> c.key, node |-> c.node, refire |-> c.refire, then |-> c.then, since |-> c.since, got |-> o]
  <2>1. c = [at |-> c.at, key |-> c.key, node |-> c.node, refire |-> c.refire, then |-> c.then, since |-> c.since, got |-> c.got]
    BY <1>1 DEF IsCall
  <2> HIDE DEF c
  <2>2. ASSUME NEW e, e = [c EXCEPT !.at = "record", !.got = o]
        PROVE  e = [at |-> "record", key |-> c.key, node |-> c.node, refire |-> c.refire, then |-> c.then, since |-> c.since, got |-> o]
    BY <2>1, <2>2
  <2> QED
    BY <2>2
<1>5. call' = [call EXCEPT ![t] = d] /\ call = [u \in Threads |-> call[u]]
  BY <1>3 DEF StrikeInv, NoticeInv, NoticeTypes
<1> HIDE DEF d
<1>6. d.at = "record" /\ d.key = c.key /\ d.node = c.node /\ d.refire = c.refire /\ d.then = c.then /\ d.since = c.since /\ d.got = o
  BY <1>4
<1>7. IsCall(d) /\ d # N!Idle
  BY <1>1, <1>4, <1>6 DEF IsCall, N!Idle
<1>8. ASSUME t = N!Main PROVE Silence' /\ (Holding' \/ wakePc' = "hold" \/ wakePc' = "parked" => Holding)
  <2>1. call'[N!Main] = d /\ (Holding' <=> Holding)
    BY <1>1, <1>5, <1>6, <1>7, <1>8 DEF Holding, Busy
  <2>2. wakePc # "hold" /\ wakePc # "parked"
    BY <1>1, <1>8 DEF StrikeInv, StrikeLaw, Silence
  <2>3. HeldName' = HeldName /\ Unheard' = Unheard
    BY <1>2 DEF HeldName, N!Name, Unheard, N!Settled
  <2> QED
    BY <1>1, <1>2, <1>6, <1>8, <2>1, <2>2, <2>3 DEF Silence, StrikeInv, StrikeLaw
<1> QED
  BY <1>1, <1>2, <1>5, <1>6, <1>7, <1>8, StrikeCall

LEMMA StrikeRecord == ASSUME StrikeInv, NEW t \in Threads, N!Record(t) PROVE StrikeLaw'
<1> DEFINE c == call[t]
           delivered == CASE c.got = "turn" -> "true" [] c.got = "nowhere" -> "null" [] OTHER -> "false"
           word == CASE delivered = "true" -> "delivered" [] delivered = "false" -> "undelivered" [] OTHER -> N!None
<1>1. Busy(t) /\ c.at = "record" /\ (t # N!Main => wakePc = "wave")
  BY Spoken DEF N!Record, StrikeInv
<1>2. /\ UNCHANGED <<scene, rev, mine, hold, watch>> /\ c.key.rev \in 0..rev /\ scene.owner # "null"
      /\ N!Return(t, word) /\ wakes' = wakes \cup {N!Row(c.key, delivered)}
  BY <1>1 DEF N!Record, N!disk, N!parking, StrikeInv, StrikeLaw, RevsPast
<1>3. N!Row(c.key, delivered).id = c.key /\ N!Row(c.key, delivered).delivered = delivered
  BY DEF N!Row
<1>4. word \in {"undelivered", "skipped"} => delivered = "false"
  BY DEF N!None
<1>5. t = N!Main /\ Holding => Unheard
  BY <1>1 DEF StrikeInv, StrikeLaw, Silence
<1> HIDE DEF delivered, word, c
<1> QED
  BY <1>1, <1>2, <1>3, <1>4, <1>5, StrikeReturn

\* What a tick makes of a watch, and that without a failure it gives no verdict of strikes.
LEMMA Ticked ==
  ASSUME NEW w, IsHold(w), NEW failed \in BOOLEAN, NEW old \in BOOLEAN, NEW x, x = N!Tick(w, failed, old)
  PROVE  IsHold(x) /\ x.def = w.def /\ (~ failed /\ w.settled # "strikes" => x.settled # "strikes")
<1>1. ~ (0 >= StrikesMax) /\ StrikesMax \in Nat
  BY NoticesAssumption DEF N!NoticesConstants
<1>2. CASE w.settled # N!None
  BY <1>2 DEF N!Tick
<1>3. CASE w.settled = N!None
  <2> DEFINE n == IF failed THEN w.strikes + 1 ELSE 0
             v == IF n >= StrikesMax THEN "strikes" ELSE IF old THEN "timebox" ELSE N!None
  <2>1. x = [w EXCEPT !.strikes = n, !.settled = v]
    BY <1>3 DEF N!Tick
  <2>2. w = [def |-> w.def, strikes |-> w.strikes, settled |-> w.settled, expired |-> w.expired]
    BY DEF IsHold
  <2>3. ~ failed => v # "strikes"
    BY <1>1 DEF N!None
  <2> HIDE DEF n, v
  <2>4. x = [def |-> w.def, strikes |-> n, settled |-> v, expired |-> w.expired]
    BY <2>1, <2>2
  <2>5. x.def = w.def /\ x.strikes = n /\ x.settled = v /\ x.expired = w.expired
    BY <2>4
  <2> QED
    BY <2>3, <2>4, <2>5 DEF IsHold
<1> QED
  BY <1>2, <1>3

LEMMA Inheriting == ASSUME Watches PROVE IsHold(N!Fresh) /\ IsHold(N!Inherited) /\ N!Inherited.def = mine.graph.gate
                                         /\ N!Fresh.def = mine.graph.gate /\ N!Fresh.settled = N!None
<1>1. N!Fresh = [def |-> mine.graph.gate, strikes |-> 0, settled |-> N!None, expired |-> FALSE]
  <2>1. ASSUME NEW e, e = [N!NoHold EXCEPT !.def = mine.graph.gate]
        PROVE  e = [def |-> mine.graph.gate, strikes |-> 0, settled |-> N!None, expired |-> FALSE]
    BY <2>1 DEF N!NoHold
  <2> QED
    BY <2>1 DEF N!Fresh
<1> QED
  BY <1>1 DEF N!Inherited, Watches, IsHold

\* A watch with some fields replaced is a watch.
LEMMA Rewatched ==
  ASSUME NEW w, IsHold(w), NEW x,
         \/ x = [w EXCEPT !.settled = N!None]
         \/ x = [w EXCEPT !.expired = TRUE]
         \/ x = [w EXCEPT !.strikes = 0]
  PROVE  IsHold(x) /\ x.def = w.def /\ (x.settled = N!None \/ x.settled = w.settled)
<1>1. w = [def |-> w.def, strikes |-> w.strikes, settled |-> w.settled, expired |-> w.expired]
  BY DEF IsHold
<1>2. CASE x = [w EXCEPT !.settled = N!None]
  BY <1>1, <1>2 DEF IsHold
<1>3. CASE x = [w EXCEPT !.expired = TRUE]
  BY <1>1, <1>3 DEF IsHold
<1>4. CASE x = [w EXCEPT !.strikes = 0]
  BY <1>1, <1>4 DEF IsHold
<1> QED
  BY <1>2, <1>3, <1>4

\* What a gate, a hold and a poll leave on disk.
LEMMA GateWatches == ASSUME Watches, N!Gate
  PROVE  /\ Watches' /\ (scene.gate = "check" \/ hold' \in {hold, N!Inherited})
         /\ age' = age \/ (hold'.def = mine.graph.gate /\ age' = IF hold.def = mine.graph.gate THEN age ELSE 0)
<1>1. CASE scene.gate = "check"
  <2>1. hold' = N!Tick([N!Inherited EXCEPT !.settled = N!None], FALSE, age' = 2) /\ watch' = hold'
    BY <1>1 DEF N!Gate
  <2>a. age' = IF hold.def = mine.graph.gate THEN age ELSE 0
    BY <1>1 DEF N!Gate, N!Ageing
  <2> DEFINE w == [N!Inherited EXCEPT !.settled = N!None]
  <2>2. IsHold(w) /\ w.def = mine.graph.gate
    BY Inheriting, Rewatched
  <2> HIDE DEF w
  <2>3. IsHold(hold') /\ hold'.def = mine.graph.gate
    BY <2>1, <2>2, Ticked DEF w
  <2> QED
    BY <1>1, <2>1, <2>3, <2>a DEF Watches
<1>2. CASE scene.gate # "check"
  BY <1>2, Inheriting DEF N!Gate, Watches, N!Ageing
<1> QED
  BY <1>1, <1>2

LEMMA HoldWatches == ASSUME Watches, N!Hold
  PROVE  /\ Watches' /\ hold' = watch' /\ hold'.def = mine.graph.gate
         /\ watch.settled # "strikes" /\ heard \notin {"undelivered", "skipped"} => hold'.settled # "strikes"
<1> DEFINE w == IF watch.def = mine.graph.gate THEN watch ELSE N!Fresh
           failed == heard \in {"undelivered", "skipped"}
           old == age' = 2
<1>1. watch' = N!Tick(w, failed, old) /\ hold' = watch'
  BY DEF N!Hold
<1>2. IsHold(w) /\ w.def = mine.graph.gate /\ (watch.settled # "strikes" => w.settled # "strikes") /\ failed \in BOOLEAN /\ old \in BOOLEAN
  BY Inheriting DEF Watches, N!None
<1> HIDE DEF w, old
<1>3. IsHold(watch') /\ watch'.def = w.def /\ (~ failed /\ w.settled # "strikes" => watch'.settled # "strikes")
  BY <1>1, <1>2, Ticked
<1> QED
  BY <1>1, <1>2, <1>3 DEF Watches

LEMMA PollWatches == ASSUME Watches, N!Poll
  PROVE  Watches' /\ (scene.gate # "check" /\ hold'.settled = "strikes" => watch.settled = "strikes" \/ hold.settled = "strikes")
<1>1. CASE UNCHANGED <<watch, hold>>
  BY <1>1 DEF Watches
<1>2. CASE ~ N!Answered /\ scene.gate = "park" /\ N!PollHold /\ ~ UNCHANGED <<watch, hold>>
  <2>1. CASE hold' = [watch EXCEPT !.expired = TRUE] /\ watch' = [hold' EXCEPT !.strikes = 0]
    <3>1. IsHold(hold') /\ (hold'.settled = N!None \/ hold'.settled = watch.settled)
      BY <2>1, Rewatched DEF Watches
    <3>2. IsHold(watch')
      BY <2>1, <3>1, Rewatched
    <3> QED
      BY <3>1, <3>2 DEF Watches, N!None
  <2>2. CASE watch' = N!Tick(watch, FALSE, TRUE) /\ hold' = watch'
    <3>1. IsHold(watch') /\ (watch.settled # "strikes" => watch'.settled # "strikes")
      BY <2>2, Ticked DEF Watches
    <3> QED
      BY <2>2, <3>1 DEF Watches
  <2>3. CASE watch' = [watch EXCEPT !.strikes = 0] /\ hold' = hold
    BY <2>3, Rewatched DEF Watches
  <2> QED
    BY <1>2, <2>1, <2>2, <2>3 DEF N!PollHold
<1>3. CASE ~ N!Answered /\ scene.gate = "check" /\ N!PollCheck /\ ~ UNCHANGED <<watch, hold>>
  <2>1. CASE watch' = N!NoHold /\ hold' = N!NoHold
    BY <1>3, <2>1 DEF Watches, IsHold, N!NoHold
  <2>2. CASE \E lost \in BOOLEAN : watch' = N!Tick(watch, lost, age = 2) /\ hold' = watch'
    <3>1. IsHold(watch')
      BY <2>2, Ticked DEF Watches
    <3> QED
      BY <1>3, <2>2, <3>1 DEF Watches
  <2> QED
    BY <1>3, <2>1, <2>2 DEF N!PollCheck
<1> QED
  BY <1>1, <1>2, <1>3 DEF N!Poll, N!PollTimer

LEMMA WatchStep == ASSUME Watches, [N!Next]_(N!vars) PROVE Watches'
<1>1. CASE UNCHANGED <<hold, watch>>
  BY <1>1 DEF Watches
<1>2. CASE N!Kill
  BY <1>2 DEF N!Kill, Watches, IsHold, N!NoHold
<1>3. CASE N!Gate \/ N!Hold \/ N!Poll
  BY <1>3, GateWatches, HoldWatches, PollWatches
<1>4. ASSUME ~ (N!Gate \/ N!Hold \/ N!Poll \/ N!Kill) PROVE UNCHANGED <<hold, watch>>
  BY <1>4 DEF N!Next, N!Runs, N!Tells, N!Begin, N!Mirror, N!Judge, N!Post, N!Record, N!Straggle, N!Reload, N!Pass, N!WaveEnds, N!Work, N!Commit, N!Fail, N!Finalize, N!Throw, N!Leave, N!Elapse, N!Amend, N!Release, N!Revive, N!Rest, N!vars, N!parking
<1> QED
  BY <1>1, <1>2, <1>3, <1>4

LEMMA AgeStep == ASSUME age \in Nat, [N!Next]_(N!vars) PROVE age' \in Nat
<1>1. CASE N!Elapse
  BY <1>1 DEF N!Elapse
<1>2. CASE N!Gate \/ N!Hold
  <2>1. age' = age \/ age' = 0
    BY <1>2 DEF N!Gate, N!Hold, N!Ageing
  <2> QED
    BY <2>1
<1>3. ASSUME ~ (N!Gate \/ N!Hold \/ N!Elapse) PROVE UNCHANGED age
  BY <1>3 DEF N!Next, N!Runs, N!Poll, N!Tells, N!Begin, N!Mirror, N!Judge, N!Post, N!Record, N!Straggle, N!Reload, N!Pass, N!WaveEnds, N!Work, N!Commit, N!Fail, N!Finalize, N!Throw, N!Leave, N!Amend, N!Release, N!Kill, N!Revive, N!Rest, N!vars, N!parking
<1> QED
  BY <1>1, <1>2, <1>3

LEMMA StrikeStep == ASSUME StrikeInv, [N!Next]_(N!vars) PROVE StrikeInv'
<1>1. NoticeInv' /\ Watches' /\ age' \in Nat
  BY NoticeStep, WatchStep, AgeStep DEF StrikeInv
<1>2. CASE \E t \in DOMAIN call : N!Tells(t)
  <2>1. DOMAIN call = Threads
    BY DEF StrikeInv, NoticeInv, NoticeTypes
  <2> QED
    BY <1>1, <1>2, <2>1, StrikeBegin, StrikeMirror, StrikeJudge, StrikePost, StrikeRecord DEF N!Tells, StrikeInv
<1>3. CASE \E f \in scene.fans : N!Straggle(f)
  BY <1>1, <1>3, StrikeStraggle DEF StrikeInv
<1>4. CASE N!Runs
  BY <1>1, <1>4, StrikeRuns, StrikePass, StrikeGate, StrikeHold DEF N!Runs, StrikeInv
<1>5. CASE N!Poll \/ N!Elapse \/ N!Amend \/ N!Release \/ N!Kill \/ N!Revive \/ N!Rest
  BY <1>1, <1>5, StrikePoll, StrikeElapse, StrikeAmend, StrikeKill, StrikeRevive DEF StrikeInv
<1>6. CASE UNCHANGED N!vars
  <2>1. UNCHANGED <<scene, rev, wakes, call, wakePc, mine, heard, hold, watch>>
    BY <1>6 DEF N!vars, N!disk, N!records, N!parking, N!wakes
  <2> QED
    BY <1>1, <2>1 DEF StrikeInv, StrikeLaw, RevsPast, Silence, Copied, Holding, Busy, Threads, HeldName, Unheard, N!Name, N!Settled
<1> QED
  BY <1>2, <1>3, <1>4, <1>5, <1>6 DEF N!Next

\* Strikes settle a gate only after a wake that was not heard, and no restart sets a clock back.
LEMMA StrikesLaw == ASSUME StrikeInv, [N!Next]_(N!vars) PROVE N!SettlesOnSilence /\ N!ClockGoesOn
<1>1. N!SettlesOnSilence
  <2> SUFFICES ASSUME hold.settled = N!None, hold'.settled = "strikes", scene.gate # "check" PROVE Unheard
    BY DEF N!SettlesOnSilence, Unheard, HeldName, N!Settled
  <2>1. CASE N!Hold
    <3>1. watch.settled = N!None
      BY <2>1 DEF N!Hold, N!Ready, StrikeInv, StrikeLaw, Copied
    <3>2. heard \in {"undelivered", "skipped"}
      BY <2>1, <3>1, HoldWatches DEF StrikeInv, N!None
    <3> QED
      BY <2>1, <3>2 DEF N!Hold, N!Ready, StrikeInv, StrikeLaw, Silence
  <2>2. CASE N!Gate
    <3>1. hold' \in {hold, N!Inherited}
      BY <2>2, GateWatches DEF StrikeInv
    <3>2. N!Inherited.settled = N!None
      BY Inheriting DEF N!Inherited, StrikeInv
    <3> QED
      BY <3>1, <3>2 DEF N!None
  <2>3. CASE N!Poll
    <3>1. watch.settled = "strikes"
      BY <2>3, PollWatches DEF StrikeInv, N!None
    <3>2. scene.gate # "park"
      BY <2>3, <3>1 DEF N!Poll, N!Ready, StrikeInv, StrikeLaw, Copied, N!None
    <3>3. hold' = hold
      BY <2>3, <3>2 DEF N!Poll, N!PollTimer
    <3> QED
      BY <3>3 DEF N!None
  <2>4. CASE UNCHANGED hold
    BY <2>4 DEF N!None
  <2> QED
    BY <2>1, <2>2, <2>3, <2>4 DEF N!Next, N!Runs, N!Tells, N!Begin, N!Mirror, N!Judge, N!Post, N!Record, N!Straggle, N!Reload, N!Pass, N!WaveEnds, N!Work, N!Commit, N!Fail, N!Finalize, N!Throw, N!Leave, N!Elapse, N!Amend, N!Release, N!Kill, N!Revive, N!Rest, N!vars, N!parking
<1>2. N!ClockGoesOn
  <2> SUFFICES ASSUME hold.def # N!None, hold'.def = hold.def PROVE age' >= age
    BY DEF N!ClockGoesOn
  <2>0. age \in Nat
    BY DEF StrikeInv
  <2>1. CASE N!Hold
    <3>1. watch.def = hold.def /\ hold'.def = mine.graph.gate
      BY <2>1, HoldWatches DEF N!Hold, N!Ready, StrikeInv, StrikeLaw, Copied
    <3>2. age' = age
      BY <2>1, <3>1 DEF N!Hold, N!Ageing
    <3> QED
      BY <2>0, <3>2
  <2>2. CASE N!Gate
    BY <2>0, <2>2, GateWatches DEF StrikeInv
  <2>3. CASE UNCHANGED age
    BY <2>0, <2>3
  <2>4. CASE N!Elapse
    BY <2>0, <2>4 DEF N!Elapse
  <2> QED
    BY <2>1, <2>2, <2>3, <2>4 DEF N!Next, N!Runs, N!Poll, N!Tells, N!Begin, N!Mirror, N!Judge, N!Post, N!Record, N!Straggle, N!Reload, N!Pass, N!WaveEnds, N!Work, N!Commit, N!Fail, N!Finalize, N!Throw, N!Leave, N!Amend, N!Release, N!Kill, N!Revive, N!Rest, N!vars, N!parking
<1> QED
  BY <1>1, <1>2

-----------------------------------------------------------------------------
(* The four side by side.                                                  *)

LEMMA EndingsParts ==
  ASSUME [EndingsNext]_everything
  PROVE  /\ InExits => [E!Next]_(E!vars)
         /\ InGates => [G!Next]_(G!vars)
         /\ InNotices => [N!Next]_(N!vars)
         /\ InCards => [C!Next]_(C!vars)
         /\ InExits' = InExits /\ InGates' = InGates /\ InNotices' = InNotices /\ InCards' = InCards
<1>1. CASE EndingsNext
  BY <1>1 DEF EndingsNext, InExits, InGates, InNotices, InCards
<1>2. CASE UNCHANGED everything
  <2>1. UNCHANGED <<part, exits, gates, notices, chat>>
    BY <1>2 DEF everything
  <2>2. UNCHANGED E!vars
    BY <2>1 DEF exits, E!vars, E!files, E!procs, E!bounds, E!hist
  <2>3. UNCHANGED G!vars /\ UNCHANGED C!vars
    BY <2>1 DEF gates, chat, G!vars, C!vars, C!calls
  <2>4. UNCHANGED N!vars
    BY <2>1 DEF notices, N!vars, N!disk, N!records, N!parking, N!wakes
  <2> QED
    BY <2>1, <2>2, <2>3, <2>4 DEF InExits, InGates, InNotices, InCards
<1> QED
  BY <1>1, <1>2

\* The handler of a run is launched at most once, no runner boots into ordinary work while its
\* postmortem is owed, and the ledger of budget deaths forgets nothing: where no graph with a
\* handler that may die of its budget is amended.
THEOREM EndingsStayKept == ASSUME UnamendedBudgets PROVE EndingsSpec => []EndingsKept
<1> DEFINE Inv == InExits => ExitInv
<1>1. EndingsInit => Inv
  BY ExitInit DEF EndingsInit, InExits, InGates, InNotices, InCards
<1>2. Inv /\ [EndingsNext]_everything => Inv'
  BY EndingsParts, ExitStep
<1>3. Inv => EndingsKept
  BY ExitInvKeeps DEF EndingsKept
<1> QED
  BY <1>1, <1>2, <1>3, PTL DEF EndingsSpec

\* No runner that handles, or that fences, while it has the lock, replaces the verdict of its run.
THEOREM VerdictsStay == ASSUME UnamendedBudgets PROVE EndingsSpec => [][InExits => E!KeepsVerdict]_everything
<1> DEFINE Inv == InExits => ExitInv
<1>1. EndingsInit => Inv
  BY ExitInit DEF EndingsInit, InExits, InGates, InNotices, InCards
<1>2. Inv /\ [EndingsNext]_everything => Inv'
  BY EndingsParts, ExitStep
<1>3. Inv /\ [EndingsNext]_everything => [InExits => E!KeepsVerdict]_everything
  BY EndingsParts, VerdictStep
<1> QED
  BY <1>1, <1>2, <1>3, PTL DEF EndingsSpec

\* What is committed as done was seen to be so by the gate of its commit, whatever drifts meanwhile.
THEOREM ProofsStayReal == EndingsSpec => []ProofsReal
<1> DEFINE Inv == InGates => GateInv
<1>1. EndingsInit => Inv
  BY GateInit DEF EndingsInit, InExits, InGates, InNotices, InCards
<1>2. Inv /\ [EndingsNext]_everything => Inv'
  BY EndingsParts, GateStep
<1>3. Inv => ProofsReal
  BY GateInvHolds DEF ProofsReal
<1> QED
  BY <1>1, <1>2, <1>3, PTL DEF EndingsSpec

\* A card is shipped at most once for a launch, and one that was never shown is in the ledger.
THEOREM CardsShipOnce == EndingsSpec => []CardsShip
<1> DEFINE Inv == InCards => CardInv
<1>1. EndingsInit => Inv
  BY CardInit DEF EndingsInit, InExits, InGates, InNotices, InCards
<1>2. Inv /\ [EndingsNext]_everything => Inv'
  BY EndingsParts, CardStep
<1>3. Inv => CardsShip
  BY CardInvKeeps DEF CardsShip
<1> QED
  BY <1>1, <1>2, <1>3, PTL DEF EndingsSpec

\* A run that exits held has told its owner so, one decision travels under one id over retries and
\* kills, and no straggler of a burst is left behind a run.done.
THEOREM OwnersAreTold == EndingsSpec => []OwnersTold
<1> DEFINE Inv == InNotices => NoticeInv
<1>1. EndingsInit => Inv
  BY NoticeInit DEF EndingsInit, InExits, InGates, InNotices, InCards
<1>2. Inv /\ [EndingsNext]_everything => Inv'
  BY EndingsParts, NoticeStep
<1>3. Inv => OwnersTold
  BY NoticeInvKeeps DEF OwnersTold
<1> QED
  BY <1>1, <1>2, <1>3, PTL DEF EndingsSpec

\* Strikes settle a gate only after a wake of its hold that was not heard, and no restart sets
\* the clock of a park back.
THEOREM StrikesStayJust == EndingsSpec => StrikesJust
<1> DEFINE Inv == InNotices => StrikeInv
<1>1. EndingsInit => Inv
  BY StrikeInit DEF EndingsInit, InExits, InGates, InNotices, InCards
<1>2. Inv /\ [EndingsNext]_everything => Inv'
  BY EndingsParts, StrikeStep
<1>3. Inv /\ [EndingsNext]_everything => [InNotices => N!SettlesOnSilence /\ N!ClockGoesOn]_everything
  BY EndingsParts, StrikesLaw
<1> QED
  BY <1>1, <1>2, <1>3, PTL DEF EndingsSpec, StrikesJust
=============================================================================
