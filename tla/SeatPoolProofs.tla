----------------------------- MODULE SeatPoolProofs -----------------------------
(***************************************************************************)
(* For any seekers, runners and ancestries, crashes, misreads, lapses and  *)
(* stops: the pool never has more seats in use than its cap, no run holds  *)
(* more than its own max_seats, nobody who left gates the others, living   *)
(* holders keep their seats, and the queue and the quorum keep their word. *)
(***************************************************************************)
EXTENDS SeatPool, FiniteSetTheorems, TLAPS

Views == [live : Nat, doomed : SUBSET Seekers, older : BOOLEAN, gone : SUBSET Seekers, stale : SUBSET Seekers]

LEMMA ViewTypes ==
  /\ NoView \in Views
  /\ \A v \in Views, n \in Nat, d \in SUBSET Seekers : [v EXCEPT !.live = n, !.doomed = d] \in Views
BY DEF Views, NoView

LEMMA PoolInitType == Init => PoolTypeOK
BY PoolConstants DEF Init, PoolTypeOK, NoView, SeekerPC, Waiting, Section

LEMMA SeekerSets ==
  ASSUME NEW S, S \subseteq Seekers
  PROVE  IsFiniteSet(S) /\ Cardinality(S) \in Nat /\ Cardinality(S) <= Cardinality(Seekers)
BY PoolConstants, FS_Subset, FS_CardinalityType

\* FreeLocks keeps the types of the locks.
LEMMA FreeLocksType ==
  ASSUME PoolTypeOK, NEW s \in Seekers, FreeLocks(s)
  PROVE  /\ flock' \in Seekers \cup {NoOne}
         /\ admit' \in [Runners -> Seekers \cup {NoOne}]
         /\ view' \in Views
BY PoolConstants, ViewTypes DEF PoolTypeOK, FreeLocks, Views

LEMMA PoolStepType == PoolTypeOK /\ [Next]_vars => PoolTypeOK'
<1> SUFFICES ASSUME PoolTypeOK, [Next]_vars PROVE PoolTypeOK'
  OBVIOUS
<1> USE PoolConstants
<1> USE DEF PoolTypeOK, SeekerPC, Waiting, Section, files, locks, waves, Goto
<1>1. ASSUME NEW s \in Seekers, Arrive(s) PROVE PoolTypeOK'
  <2>1. Cardinality({t \in Seekers : enq[t] # 0}) \in Nat
    BY SeekerSets
  <2>2. enq' \in [Seekers -> Nat]
    BY <1>1, <2>1 DEF Arrive
  <2>3. spc' \in [Seekers -> SeekerPC]
    BY <1>1 DEF Arrive
  <2> QED
    BY <1>1, <2>2, <2>3 DEF Arrive
<1>2. ASSUME NEW s \in Seekers, GiveUp(s) PROVE PoolTypeOK'
  BY <1>2, FreeLocksType DEF Views, GiveUp
<1>3. ASSUME NEW s \in Seekers, TakeAdmitLock(s) PROVE PoolTypeOK'
  BY <1>3 DEF TakeAdmitLock
<1>4. ASSUME NEW s \in Seekers, TakeFlock(s) PROVE PoolTypeOK'
  BY <1>4 DEF TakeFlock
<1>5. ASSUME NEW s \in Seekers, Count(s) PROVE PoolTypeOK'
  <2>1. PICK missed \in SUBSET {t \in OnDisk : Live(t)} :
          LET doomed == missed \cup {t \in OnDisk : ~ Live(t)} IN
          /\ Cardinality(missed) <= misreads
          /\ misreads' = misreads - Cardinality(missed)
          /\ view' = [view EXCEPT !.doomed = doomed,
                        !.live = Cardinality({t \in OnDisk \ doomed : ~ Lent(Own[s], t)})]
          /\ Goto(s, IF doomed = {} THEN "scan" ELSE "settle")
    BY <1>5 DEF Count
  <2> DEFINE doomed == missed \cup {t \in OnDisk : ~ Live(t)}
  <2>2. doomed \subseteq Seekers /\ Cardinality(missed) \in Nat
    BY SeekerSets DEF OnDisk
  <2>3. Cardinality({t \in OnDisk \ doomed : ~ Lent(Own[s], t)}) \in Nat
    BY SeekerSets DEF OnDisk
  <2>4. misreads' \in Nat
    BY <2>1, <2>2
  <2>5. view' \in Views
    <3> HIDE DEF doomed
    <3>1. view' = [view EXCEPT !.doomed = doomed,
                     !.live = Cardinality({t \in OnDisk \ doomed : ~ Lent(Own[s], t)})]
      BY <2>1 DEF doomed
    <3> QED
      BY <3>1, <2>2, <2>3 DEF Views
  <2>6. spc' \in [Seekers -> SeekerPC]
    BY <2>1
  <2>7. cap' \in Nat
    BY <1>5 DEF Count
  <2> QED
    BY <1>5, <2>4, <2>5, <2>6, <2>7 DEF Count, Views
<1>6. ASSUME NEW s \in Seekers, Settle(s) PROVE PoolTypeOK'
  <2> DEFINE revived == {t \in view.doomed : Live(t)}
  <2>1. Cardinality(revived) \in Nat
    BY SeekerSets
  <2>2. view' = [view EXCEPT !.live = @ + Cardinality(revived), !.doomed = {}]
    BY <1>6 DEF Settle
  <2>3. view' \in Views
    <3>1. view' = [view EXCEPT !.live = view.live + Cardinality(revived), !.doomed = {}]
      BY <2>2
    <3>2. view \in Views /\ view.live + Cardinality(revived) \in Nat
      BY <2>1 DEF Views
    <3> HIDE DEF revived
    <3> QED
      BY <3>1, <3>2, ViewTypes
  <2>4. ticket' \in [Seekers -> {"none", "held", "bound"}] /\ spc' \in [Seekers -> SeekerPC]
    BY <1>6 DEF Settle
  <2> QED
    BY <1>6, <2>3, <2>4 DEF Settle, Views
<1>7. ASSUME NEW s \in Seekers, Scan(s) PROVE PoolTypeOK'
  BY <1>7 DEF Scan
<1>8. ASSUME NEW s \in Seekers, Prune(s) PROVE PoolTypeOK'
  BY <1>8 DEF Prune
<1>9. ASSUME NEW s \in Seekers, AdmitSeeker(s) PROVE PoolTypeOK'
  BY <1>9, FreeLocksType DEF Views, AdmitSeeker
<1>10. ASSUME NEW s \in Seekers, TurnAway(s) PROVE PoolTypeOK'
  <2>1. /\ \E to \in {"end", "nap"} : spc' = [spc EXCEPT ![s] = to]
        /\ \E m \in {"none", "fresh", marker[s]} : marker' = [marker EXCEPT ![s] = m]
    BY <1>10, Zenon DEF TurnAway
  <2>2. FreeLocks(s) /\ UNCHANGED <<cap, ticket, enq, agent, runner, cancel, done, armed, crashes, misreads>>
    BY <1>10 DEF TurnAway
  <2> QED
    <3>1. spc' \in [Seekers -> SeekerPC] /\ marker' \in [Seekers -> {"none", "fresh", "aging", "stale"}]
      BY <2>1
    <3>2. flock' \in Seekers \cup {NoOne} /\ admit' \in [Runners -> Seekers \cup {NoOne}] /\ view' \in Views
      BY <2>2, FreeLocksType
    <3> QED
      BY <2>2, <3>1, <3>2 DEF Views
<1>11. ASSUME NEW s \in Seekers, Beat(s) PROVE PoolTypeOK'
  BY <1>11 DEF Beat
<1>12. ASSUME NEW s \in Seekers, Lapse(s) PROVE PoolTypeOK'
  BY <1>12 DEF Lapse
<1>13. ASSUME NEW s \in Seekers, Launch(s) PROVE PoolTypeOK'
  BY <1>13 DEF Launch
<1>14. ASSUME NEW s \in Seekers, LaunchRefused(s) PROVE PoolTypeOK'
  BY <1>14 DEF LaunchRefused
<1>15. ASSUME NEW s \in Seekers, Bind(s) PROVE PoolTypeOK'
  BY <1>15 DEF Bind
<1>16. ASSUME NEW s \in Seekers, AgentEnds(s) PROVE PoolTypeOK'
  BY <1>16 DEF AgentEnds
<1>17. ASSUME NEW s \in Seekers, Reap(s) PROVE PoolTypeOK'
  <2>1. /\ \E to \in {"tally", "end"} : spc' = [spc EXCEPT ![s] = to]
        /\ ticket' = ticket \/ ticket' = [ticket EXCEPT ![s] = "none"]
    BY <1>17, Zenon DEF Reap
  <2> QED
    BY <1>17, <2>1 DEF Reap
<1>18. ASSUME NEW s \in Seekers, Tally(s) PROVE PoolTypeOK'
  BY <1>18 DEF Tally
<1>19. ASSUME NEW s \in Seekers, CancelStragglers(s) PROVE PoolTypeOK'
  BY <1>19 DEF CancelStragglers, Kill
<1>20. ASSUME NEW s \in Seekers, ReturnSeat(s) PROVE PoolTypeOK'
  BY <1>20, FreeLocksType DEF Views, ReturnSeat
<1>21. ASSUME NEW r \in Runners, DrainEnds(r) PROVE PoolTypeOK'
  <2>1. agent' \in [Seekers -> {"none", "live", "dead", "killed"}]
    BY <1>21 DEF DrainEnds, Kill
  <2>2. cancel' \in [Runners -> BOOLEAN] /\ armed' \in [Runners -> BOOLEAN]
    <3>1. CASE Stragglers(r) = {}
      BY <1>21, <3>1 DEF DrainEnds
    <3>2. CASE Stragglers(r) # {}
      <4>1. cancel' = [cancel EXCEPT ![r] = TRUE] /\ armed' = [armed EXCEPT ![r] = FALSE]
        BY <1>21, <3>2 DEF DrainEnds
      <4> QED
        BY <4>1
    <3> QED
      BY <3>1, <3>2
  <2> QED
    BY <1>21, <2>1, <2>2 DEF DrainEnds
<1>22. ASSUME NEW r \in Runners, StopRun(r) PROVE PoolTypeOK'
  BY <1>22 DEF StopRun, Kill
<1>23. ASSUME NEW r \in Runners, Crash(r) PROVE PoolTypeOK'
  <2>1. spc' \in [Seekers -> SeekerPC] /\ runner' \in [Runners -> {"up", "dead"}] /\ crashes' \in Nat
    BY <1>23 DEF Crash
  <2>2. admit' \in [Runners -> Seekers \cup {NoOne}] /\ flock' \in Seekers \cup {NoOne}
    BY <1>23 DEF Crash
  <2>3. view' \in Views
    <3>1. view' = view \/ view' = NoView
      BY <1>23, Zenon DEF Crash
    <3> QED
      BY <3>1, ViewTypes DEF Views
  <2> QED
    BY <1>23, <2>1, <2>2, <2>3 DEF Crash, Views
<1>24. CASE ForgetCap
  BY <1>24 DEF ForgetCap
<1>25. CASE UNCHANGED vars
  BY <1>25 DEF vars
<1> HIDE DEF PoolTypeOK, files, locks, waves
<1> QED
  BY Zenon, <1>1, <1>2, <1>3, <1>4, <1>5, <1>6, <1>7, <1>8, <1>9, <1>10, <1>11, <1>12, <1>13, <1>14, <1>15, <1>16, <1>17, <1>18, <1>19, <1>20, <1>21, <1>22, <1>23, <1>24, <1>25 DEF Next, TakeLock, SeekerStep

-----------------------------------------------------------------------------
(* What is at work has its runner, and whoever is in the section holds the  *)
(* flock of the pool.                                                       *)

AtWork == \A s \in Seekers : spc[s] \notin {"idle", "end", "gone"} => Up(s)
HoldsFlock == \A s \in Seekers : spc[s] \in Section <=> flock = s

\* A step that leaves the flock to its holder.
LEMMA Bystanding ==
  ASSUME PoolTypeOK, AtWork, HoldsFlock, UNCHANGED <<flock, runner>>, NEW s \in Seekers, NEW to,
         spc' = [spc EXCEPT ![s] = to], to \in Section <=> spc[s] \in Section,
         to \notin {"idle", "end", "gone"} => Up(s)
  PROVE  AtWork' /\ HoldsFlock'
BY DEF PoolTypeOK, AtWork, HoldsFlock, Up

\* A step in which s goes and frees its locks.
LEMMA Freeing ==
  ASSUME PoolTypeOK, AtWork, HoldsFlock, UNCHANGED runner, NEW s \in Seekers, NEW to,
         FreeLocks(s), spc' = [spc EXCEPT ![s] = to], to \notin Section,
         to \notin {"idle", "end", "gone"} => Up(s)
  PROVE  AtWork' /\ HoldsFlock'
BY PoolConstants DEF PoolTypeOK, AtWork, HoldsFlock, Up, FreeLocks

\* A step in which nobody moves.
LEMMA Resting ==
  ASSUME AtWork, HoldsFlock, UNCHANGED <<flock, runner, spc>>
  PROVE  AtWork' /\ HoldsFlock'
BY DEF AtWork, HoldsFlock, Up

LEMMA LocksStep == PoolTypeOK /\ AtWork /\ HoldsFlock /\ [Next]_vars => AtWork' /\ HoldsFlock'
<1> SUFFICES ASSUME PoolTypeOK, AtWork, HoldsFlock, [Next]_vars PROVE AtWork' /\ HoldsFlock'
  OBVIOUS
<1> USE PoolConstants
<1> USE DEF files, locks, waves, Goto, Section
<1>1. ASSUME NEW s \in Seekers, Arrive(s) PROVE AtWork' /\ HoldsFlock'
  BY <1>1, Bystanding DEF Arrive, AtWork
<1>2. ASSUME NEW s \in Seekers, TakeAdmitLock(s) PROVE AtWork' /\ HoldsFlock'
  BY <1>2, Bystanding DEF TakeAdmitLock, AtWork
<1>3. ASSUME NEW s \in Seekers, Settle(s) PROVE AtWork' /\ HoldsFlock'
  BY <1>3, Bystanding DEF Settle, AtWork
<1>4. ASSUME NEW s \in Seekers, Scan(s) PROVE AtWork' /\ HoldsFlock'
  BY <1>4, Bystanding DEF Scan, AtWork
<1>5. ASSUME NEW s \in Seekers, Prune(s) PROVE AtWork' /\ HoldsFlock'
  BY <1>5, Bystanding DEF Prune, AtWork
<1>6. ASSUME NEW s \in Seekers, Beat(s) PROVE AtWork' /\ HoldsFlock'
  BY <1>6, Bystanding DEF Beat, AtWork
<1>7. ASSUME NEW s \in Seekers, Launch(s) PROVE AtWork' /\ HoldsFlock'
  BY <1>7, Bystanding DEF Launch, AtWork
<1>8. ASSUME NEW s \in Seekers, LaunchRefused(s) PROVE AtWork' /\ HoldsFlock'
  BY <1>8, Bystanding DEF LaunchRefused, AtWork
<1>9. ASSUME NEW s \in Seekers, Bind(s) PROVE AtWork' /\ HoldsFlock'
  BY <1>9, Bystanding DEF Bind, AtWork
<1>10. ASSUME NEW s \in Seekers, Reap(s) PROVE AtWork' /\ HoldsFlock'
  BY <1>10, Bystanding DEF Reap, AtWork
<1>11. ASSUME NEW s \in Seekers, Tally(s) PROVE AtWork' /\ HoldsFlock'
  BY <1>11, Bystanding DEF Tally, AtWork
<1>12. ASSUME NEW s \in Seekers, CancelStragglers(s) PROVE AtWork' /\ HoldsFlock'
  BY <1>12, Bystanding DEF CancelStragglers, AtWork
<1>13. ASSUME NEW s \in Seekers, Count(s) PROVE AtWork' /\ HoldsFlock'
  BY <1>13, Bystanding DEF Count, AtWork
<1>14. ASSUME NEW s \in Seekers, GiveUp(s) PROVE AtWork' /\ HoldsFlock'
  BY <1>14, Freeing DEF GiveUp, AtWork
<1>15. ASSUME NEW s \in Seekers, AdmitSeeker(s) PROVE AtWork' /\ HoldsFlock'
  BY <1>15, Freeing DEF AdmitSeeker, AtWork
<1>16. ASSUME NEW s \in Seekers, TurnAway(s) PROVE AtWork' /\ HoldsFlock'
  BY <1>16, Freeing DEF TurnAway, AtWork
<1>17. ASSUME NEW s \in Seekers, ReturnSeat(s) PROVE AtWork' /\ HoldsFlock'
  BY <1>17, Freeing DEF ReturnSeat, AtWork
<1>18. ASSUME NEW s \in Seekers, TakeFlock(s) PROVE AtWork' /\ HoldsFlock'
  BY <1>18 DEF TakeFlock, AtWork, HoldsFlock, PoolTypeOK, Up
<1>19. ASSUME NEW s \in Seekers, Lapse(s) PROVE AtWork' /\ HoldsFlock'
  BY <1>19, Resting DEF Lapse
<1>20. ASSUME NEW s \in Seekers, AgentEnds(s) PROVE AtWork' /\ HoldsFlock'
  BY <1>20, Resting DEF AgentEnds
<1>21. ASSUME NEW r \in Runners, DrainEnds(r) PROVE AtWork' /\ HoldsFlock'
  BY <1>21, Resting DEF DrainEnds
<1>22. ASSUME NEW r \in Runners, StopRun(r) PROVE AtWork' /\ HoldsFlock'
  BY <1>22, Resting DEF StopRun
<1>23. ASSUME NEW r \in Runners, Crash(r) PROVE AtWork' /\ HoldsFlock'
  BY <1>23 DEF Crash, AtWork, HoldsFlock, PoolTypeOK, Up
<1>24. CASE ForgetCap
  BY <1>24, Resting DEF ForgetCap
<1>25. CASE UNCHANGED vars
  BY <1>25, Resting DEF vars
<1> HIDE DEF files, locks, waves, Goto, Section
<1> QED
  BY Zenon, <1>1, <1>2, <1>3, <1>4, <1>5, <1>6, <1>7, <1>8, <1>9, <1>10, <1>11, <1>12, <1>13, <1>14, <1>15, <1>16, <1>17, <1>18, <1>19, <1>20, <1>21, <1>22, <1>23, <1>24, <1>25 DEF Next, TakeLock, SeekerStep

-----------------------------------------------------------------------------
(* What a seeker has found is never less than what is in use, the seats of  *)
(* its ancestors aside: only the holder of the flock adds a seat.           *)

Seats == {s \in OnDisk : Live(s)}
Judging == {"settle", "scan", "prune", "decide"}
Uncounted(s) == Above[Own[s]] \cup view.doomed

CountsEnough ==
  \A s \in Seekers : spc[s] \in Judging =>
    /\ Cardinality(Seats \ Uncounted(s)) <= view.live
    /\ spc[s] # "settle" => view.doomed = {}

PoolInv == PoolTypeOK /\ AtWork /\ HoldsFlock

LEMMA OwnIsForeign == \A s, t \in Seekers : Own[s] = Own[t] => t \notin Above[Own[s]]
BY PoolConstants

LEMMA SeatSets == PoolTypeOK => IsFiniteSet(Seats) /\ Seats \subseteq Seekers /\ OnDisk \subseteq Seekers
BY SeekerSets DEF Seats, OnDisk

LEMMA SeatSetsNext == PoolTypeOK' => IsFiniteSet(Seats') /\ Seats' \subseteq Seekers /\ OnDisk' \subseteq Seekers
BY SeekerSets DEF Seats, OnDisk

\* No step but an admission adds a seat.
LEMMA Fewer ==
  ASSUME PoolInv, [Next]_vars, \A s \in Seekers : ~ AdmitSeeker(s)
  PROVE  OnDisk' \subseteq OnDisk /\ Seats' \subseteq Seats
<1> USE PoolConstants
<1> SUFFICES ASSUME NEW t \in Seekers, ticket'[t] # "none"
             PROVE  ticket[t] # "none" /\ (Live(t)' => Live(t))
  BY DEF Seats, OnDisk
<1>1. CASE UNCHANGED <<ticket, agent, runner>>
  BY <1>1 DEF Live, Up
<1> USE DEF PoolInv, PoolTypeOK, files, locks, waves, Live, Up, AtWork
<1>2. ASSUME NEW s \in Seekers, Launch(s) PROVE ticket[t] # "none" /\ (Live(t)' => Live(t))
  BY <1>2 DEF Launch
<1>3. ASSUME NEW s \in Seekers, LaunchRefused(s) \/ ReturnSeat(s) PROVE ticket[t] # "none" /\ (Live(t)' => Live(t))
  BY <1>3 DEF LaunchRefused, ReturnSeat
<1>4. ASSUME NEW s \in Seekers, Reap(s) PROVE ticket[t] # "none" /\ (Live(t)' => Live(t))
  <2>1. ticket' = ticket \/ ticket' = [ticket EXCEPT ![s] = "none"]
    BY <1>4, Zenon DEF Reap
  <2> QED
    BY <1>4, <2>1 DEF Reap
<1>5. ASSUME NEW s \in Seekers, Bind(s) PROVE ticket[t] # "none" /\ (Live(t)' => Live(t))
  BY <1>5 DEF Bind
<1>6. ASSUME NEW s \in Seekers, AgentEnds(s) PROVE ticket[t] # "none" /\ (Live(t)' => Live(t))
  BY <1>6 DEF AgentEnds
<1>7. ASSUME NEW s \in Seekers, CancelStragglers(s) PROVE ticket[t] # "none" /\ (Live(t)' => Live(t))
  BY <1>7 DEF CancelStragglers, Kill
<1>8. ASSUME NEW s \in Seekers, Settle(s) PROVE ticket[t] # "none" /\ (Live(t)' => Live(t))
  BY <1>8 DEF Settle
<1>9. ASSUME NEW r \in Runners, StopRun(r) PROVE ticket[t] # "none" /\ (Live(t)' => Live(t))
  BY <1>9 DEF StopRun, Kill
<1>10. ASSUME NEW r \in Runners, DrainEnds(r) PROVE ticket[t] # "none" /\ (Live(t)' => Live(t))
  <2>1. UNCHANGED <<ticket, runner>> /\ (agent' = agent \/ Kill(r))
    BY <1>10, Zenon DEF DrainEnds
  <2> QED
    BY <2>1 DEF Kill
<1>11. ASSUME NEW r \in Runners, Crash(r) PROVE ticket[t] # "none" /\ (Live(t)' => Live(t))
  BY <1>11 DEF Crash
<1> HIDE DEF PoolInv, PoolTypeOK, Live, Up, AtWork
<1>12. ASSUME NEW s \in Seekers,
              \/ Arrive(s) \/ GiveUp(s) \/ TakeLock(s) \/ Count(s) \/ Scan(s) \/ Prune(s)
              \/ TurnAway(s) \/ Beat(s) \/ Lapse(s)
       PROVE  UNCHANGED <<ticket, agent, runner>>
  BY <1>12 DEF Arrive, GiveUp, TakeLock, TakeAdmitLock, TakeFlock, Tally, Count, Scan, Prune, TurnAway, Beat, Lapse
<1>13. CASE ForgetCap \/ UNCHANGED vars
  BY <1>1, <1>13 DEF ForgetCap, vars
<1> HIDE DEF files, locks, waves
<1> QED
  BY Zenon, <1>1, <1>2, <1>3, <1>4, <1>5, <1>6, <1>7, <1>8, <1>9, <1>10, <1>11, <1>12, <1>13 DEF Next, SeekerStep

\* A step that takes nobody further who judges what was found.
Undisturbed ==
  \A s \in Seekers : spc'[s] \in Judging =>
    /\ spc[s] \in Judging /\ view'.live = view.live /\ view'.doomed = view.doomed
    /\ spc'[s] # "settle" => spc[s] # "settle"

LEMMA StillEnough ==
  ASSUME PoolInv, PoolTypeOK', CountsEnough, Seats' \subseteq Seats, Undisturbed
  PROVE  CountsEnough'
<1> SUFFICES ASSUME NEW s \in Seekers, spc'[s] \in Judging
             PROVE  /\ Cardinality(Seats' \ Uncounted(s)') <= view'.live
                    /\ spc'[s] # "settle" => view'.doomed = {}
  BY DEF CountsEnough, Judging
<1>1. Uncounted(s)' = Uncounted(s)
  BY DEF Undisturbed, Uncounted
<1>2. Cardinality(Seats \ Uncounted(s)) <= view.live /\ (spc[s] # "settle" => view.doomed = {})
  BY DEF CountsEnough, Undisturbed
<1>3. /\ IsFiniteSet(Seats \ Uncounted(s)) /\ Seats' \ Uncounted(s) \subseteq Seats \ Uncounted(s)
      /\ Cardinality(Seats' \ Uncounted(s)) \in Nat /\ Cardinality(Seats \ Uncounted(s)) \in Nat
  BY SeatSets, SeatSetsNext, SeekerSets DEF PoolInv
<1>4. Cardinality(Seats' \ Uncounted(s)) <= Cardinality(Seats \ Uncounted(s))
  BY <1>3, FS_Subset
<1> QED
  BY <1>1, <1>2, <1>3, <1>4 DEF Undisturbed, PoolInv, PoolTypeOK

LEMMA CountsStep == PoolInv /\ CountsEnough /\ [Next]_vars => CountsEnough'
<1> SUFFICES ASSUME PoolInv, CountsEnough, [Next]_vars PROVE CountsEnough'
  OBVIOUS
<1> USE PoolConstants
<1>0. PoolInv'
  BY PoolStepType, LocksStep DEF PoolInv
<1>1. ASSUME NEW s \in Seekers, Count(s) PROVE CountsEnough'
  <2>1. PICK missed \in SUBSET {t \in OnDisk : Live(t)} :
          LET doomed == missed \cup {t \in OnDisk : ~ Live(t)} IN
          /\ Cardinality(missed) <= misreads
          /\ misreads' = misreads - Cardinality(missed)
          /\ view' = [view EXCEPT !.doomed = doomed,
                        !.live = Cardinality({t \in OnDisk \ doomed : ~ Lent(Own[s], t)})]
          /\ Goto(s, IF doomed = {} THEN "scan" ELSE "settle")
    BY <1>1 DEF Count
  <2> DEFINE doomed == missed \cup {t \in OnDisk : ~ Live(t)}
             found == {t \in OnDisk \ doomed : ~ Lent(Own[s], t)}
  <2>2. view'.doomed = doomed /\ view'.live = Cardinality(found)
    BY <2>1 DEF PoolInv, PoolTypeOK
  <2>3. spc'[s] # "settle" => doomed = {}
    BY <2>1 DEF Goto, PoolInv, PoolTypeOK
  <2>4. Seats' = Seats
    BY <1>1 DEF Count, Seats, OnDisk, Live, Up
  <2>5. Seats \ (Above[Own[s]] \cup doomed) \subseteq found
    BY DEF Seats, Lent
  <2>6. IsFiniteSet(found)
    BY SeatSets, SeekerSets DEF PoolInv
  <2>7. Cardinality(Seats \ (Above[Own[s]] \cup doomed)) <= Cardinality(found)
    BY <2>5, <2>6, FS_Subset
  <2> SUFFICES ASSUME NEW t \in Seekers, spc'[t] \in Judging
               PROVE  /\ Cardinality(Seats' \ Uncounted(t)') <= view'.live
                      /\ spc'[t] # "settle" => view'.doomed = {}
    BY DEF CountsEnough, Judging
  <2>8. t = s
    BY <1>0, <1>1 DEF PoolInv, HoldsFlock, Judging, Section, Count
  <2>9. Uncounted(s)' = Above[Own[s]] \cup doomed
    BY <2>2 DEF Uncounted
  <2> HIDE DEF doomed, found
  <2> QED
    BY <2>2, <2>3, <2>4, <2>7, <2>8, <2>9
<1>2. ASSUME NEW s \in Seekers, Settle(s) PROVE CountsEnough'
  <2> DEFINE revived == {t \in view.doomed : Live(t)}
             rest == Seats \ Uncounted(s)
  <2>1. view'.doomed = {} /\ view'.live = view.live + Cardinality(revived)
    BY <1>2 DEF Settle, PoolInv, PoolTypeOK
  <2>2. Cardinality(rest) <= view.live
    BY <1>2 DEF CountsEnough, Settle, Judging
  <2>3. Seats' \subseteq Seats
    <3>1. \A q \in Seekers : ~ AdmitSeeker(q)
      BY <1>2 DEF Settle, AdmitSeeker, PoolInv, HoldsFlock, Section
    <3> QED
      BY <3>1, Fewer
  <2>4. Seats' \ Above[Own[s]] \subseteq rest \cup revived
    BY <2>3 DEF Uncounted, Seats
  <2>5. IsFiniteSet(rest) /\ IsFiniteSet(revived) /\ IsFiniteSet(rest \cup revived)
    BY SeatSets, SeekerSets DEF PoolInv, PoolTypeOK
  <2>6. /\ Cardinality(rest) \in Nat /\ Cardinality(revived) \in Nat /\ Cardinality(rest \cap revived) \in Nat
        /\ Cardinality(rest \cup revived) = Cardinality(rest) + Cardinality(revived) - Cardinality(rest \cap revived)
    BY <2>5, FS_Union, FS_CardinalityType, FS_Subset
  <2>7. /\ Cardinality(Seats' \ Above[Own[s]]) <= Cardinality(rest \cup revived)
        /\ Cardinality(Seats' \ Above[Own[s]]) \in Nat
    BY <2>4, <2>5, FS_Subset, FS_CardinalityType
  <2>8. view.live \in Nat
    BY DEF PoolInv, PoolTypeOK
  <2>9. Cardinality(Seats' \ Above[Own[s]]) <= view'.live
    <3> HIDE DEF revived, rest
    <3> QED
      BY <2>1, <2>2, <2>6, <2>7, <2>8
  <2> SUFFICES ASSUME NEW t \in Seekers, spc'[t] \in Judging
               PROVE  /\ Cardinality(Seats' \ Uncounted(t)') <= view'.live
                      /\ spc'[t] # "settle" => view'.doomed = {}
    BY DEF CountsEnough, Judging
  <2>10. t = s
    BY <1>0, <1>2 DEF PoolInv, HoldsFlock, Judging, Section, Settle, locks
  <2>11. Uncounted(s)' = Above[Own[s]]
    BY <2>1 DEF Uncounted
  <2> QED
    BY <2>1, <2>9, <2>10, <2>11
<1>3. ASSUME NEW s \in Seekers, AdmitSeeker(s) PROVE CountsEnough'
  <2> SUFFICES ASSUME NEW t \in Seekers, spc'[t] \in Judging PROVE FALSE
    BY DEF CountsEnough, Judging
  <2>1. flock = s /\ flock' = NoOne
    BY <1>3 DEF AdmitSeeker, FreeLocks, PoolInv, HoldsFlock, Section
  <2> QED
    BY <1>0, <2>1 DEF PoolInv, HoldsFlock, Judging, Section
<1>4. ASSUME \A s \in Seekers : ~ Count(s) /\ ~ Settle(s) /\ ~ AdmitSeeker(s) PROVE CountsEnough'
  <2>1. Seats' \subseteq Seats
    BY <1>4, Fewer
  <2>2. Undisturbed
    <3> SUFFICES ASSUME NEW t \in Seekers, spc'[t] \in Judging
                 PROVE  /\ spc[t] \in Judging /\ view'.live = view.live /\ view'.doomed = view.doomed
                        /\ spc'[t] # "settle" => spc[t] # "settle"
      BY DEF Undisturbed
    <3> DEFINE Fine == /\ spc[t] \in Judging /\ view'.live = view.live /\ view'.doomed = view.doomed
                       /\ spc'[t] # "settle" => spc[t] # "settle"
    <3>1. CASE UNCHANGED <<spc, view>>
      BY <3>1
    <3>f. flock' = t
      BY <1>0 DEF PoolInv, HoldsFlock, Judging, Section
    <3> USE DEF PoolInv, PoolTypeOK, Goto, files, locks, waves, Judging
    <3>2. ASSUME NEW s \in Seekers, Scan(s) PROVE Fine
      BY <3>2 DEF Scan
    <3>3. ASSUME NEW s \in Seekers, Prune(s) PROVE Fine
      BY <3>3 DEF Prune
    <3>4. ASSUME NEW s \in Seekers,
                 \/ Arrive(s) \/ TakeAdmitLock(s) \/ TakeFlock(s) \/ Tally(s) \/ Beat(s) \/ Launch(s)
                 \/ LaunchRefused(s) \/ Bind(s) \/ Reap(s) \/ CancelStragglers(s)
          PROVE  Fine
      BY <3>4 DEF Arrive, TakeAdmitLock, TakeFlock, Tally, Beat, Launch, LaunchRefused, Bind, Reap, CancelStragglers
    <3>5. ASSUME NEW s \in Seekers, GiveUp(s) \/ TurnAway(s) \/ ReturnSeat(s) PROVE Fine
      BY <3>5, <3>f DEF GiveUp, TurnAway, ReturnSeat, FreeLocks
    <3>6. ASSUME NEW r \in Runners, Crash(r) PROVE Fine
      BY <3>6, <3>f DEF Crash
    <3>7. ASSUME NEW s \in Seekers, AgentEnds(s) \/ Lapse(s) PROVE UNCHANGED <<spc, view>>
      BY <3>7 DEF AgentEnds, Lapse
    <3>8. ASSUME NEW r \in Runners, DrainEnds(r) \/ StopRun(r) PROVE UNCHANGED <<spc, view>>
      BY <3>8 DEF DrainEnds, StopRun
    <3>9. CASE ForgetCap \/ UNCHANGED vars
      BY <3>1, <3>9 DEF ForgetCap, vars
    <3> HIDE DEF PoolInv, PoolTypeOK, Goto, files, locks, waves, Judging, Fine
    <3>10. Fine
      BY Zenon, <1>4, <3>1, <3>2, <3>3, <3>4, <3>5, <3>6, <3>7, <3>8, <3>9 DEF Next, TakeLock, SeekerStep, Fine
    <3> QED
      BY <3>10 DEF Fine
  <2> QED
    BY <1>0, <2>1, <2>2, StillEnough DEF PoolInv
<1> QED
  BY Zenon, <1>1, <1>2, <1>3, <1>4

-----------------------------------------------------------------------------
(* The ceiling of a run: while a runner is up its seats are live, and it has *)
(* counted every one of them.                                               *)

HeldBy(r) == {t \in OnDisk : Own[t] = r}

LEMMA CeilingStep == PoolInv /\ CountsEnough /\ CeilingRespected /\ [Next]_vars => CeilingRespected'
<1> SUFFICES ASSUME PoolInv, CountsEnough, CeilingRespected, [Next]_vars,
                    NEW r \in Runners, 0 < Ceiling[r]
             PROVE  Cardinality(HeldBy(r)') <= Ceiling[r]
  BY DEF CeilingRespected, HeldBy
<1> USE PoolConstants
<1>0. /\ Cardinality(HeldBy(r)) <= Ceiling[r] /\ Ceiling[r] \in Nat
      /\ IsFiniteSet(HeldBy(r)) /\ Cardinality(HeldBy(r)) \in Nat
  BY SeekerSets DEF CeilingRespected, HeldBy, OnDisk
<1>1. ASSUME HeldBy(r)' \subseteq HeldBy(r) PROVE Cardinality(HeldBy(r)') <= Ceiling[r]
  <2>1. Cardinality(HeldBy(r)') <= Cardinality(HeldBy(r)) /\ Cardinality(HeldBy(r)') \in Nat
    BY <1>0, <1>1, FS_Subset, FS_CardinalityType
  <2> QED
    BY <1>0, <2>1
<1>2. CASE \A s \in Seekers : ~ AdmitSeeker(s)
  BY <1>1, <1>2, Fewer DEF HeldBy
<1>3. ASSUME NEW s \in Seekers, AdmitSeeker(s) PROVE Cardinality(HeldBy(r)') <= Ceiling[r]
  <2>1. HeldBy(r)' \subseteq HeldBy(r) \cup {s} /\ (Own[s] # r => HeldBy(r)' \subseteq HeldBy(r))
    BY <1>3 DEF AdmitSeeker, HeldBy, OnDisk, PoolInv, PoolTypeOK
  <2>2. CASE Own[s] # r
    BY <1>1, <2>1, <2>2
  <2>3. CASE Own[s] = r
    <3>1. spc[s] = "decide" /\ ~ Shut(s)
      BY <1>3 DEF AdmitSeeker
    <3>2. Cardinality(Seats \ Uncounted(s)) <= view.live /\ view.doomed = {}
      BY <3>1 DEF CountsEnough, Judging
    <3>3. view.live < Ceiling[r] /\ view.live \in Nat
      BY <2>3, <3>1, <1>0 DEF Shut, Cap, PoolInv, PoolTypeOK
    <3>4. Up(s)
      BY <3>1 DEF PoolInv, AtWork
    <3>5. HeldBy(r) \subseteq Seats \ Uncounted(s)
      BY <2>3, <3>2, <3>4, OwnIsForeign DEF HeldBy, Seats, Live, Up, Uncounted, OnDisk
    <3>6. /\ IsFiniteSet(Seats \ Uncounted(s)) /\ Cardinality(Seats \ Uncounted(s)) \in Nat
      BY SeatSets, SeekerSets DEF PoolInv
    <3>7. Cardinality(HeldBy(r)) <= Cardinality(Seats \ Uncounted(s))
      BY <3>5, <3>6, FS_Subset
    <3>8. Cardinality(HeldBy(r)) + 1 <= Ceiling[r]
      BY <1>0, <3>2, <3>3, <3>6, <3>7
    <3>9. /\ IsFiniteSet(HeldBy(r) \cup {s}) /\ Cardinality(HeldBy(r) \cup {s}) \in Nat
          /\ Cardinality(HeldBy(r) \cup {s}) <= Cardinality(HeldBy(r)) + 1
      <4>1. /\ IsFiniteSet(HeldBy(r) \cup {s})
            /\ Cardinality(HeldBy(r) \cup {s}) = IF s \in HeldBy(r) THEN Cardinality(HeldBy(r)) ELSE Cardinality(HeldBy(r)) + 1
        BY <1>0, FS_AddElement
      <4> HIDE DEF HeldBy
      <4> QED
        BY <1>0, <4>1
    <3>10. Cardinality(HeldBy(r)') <= Cardinality(HeldBy(r) \cup {s}) /\ Cardinality(HeldBy(r)') \in Nat
      BY <2>1, <3>9, FS_Subset, FS_CardinalityType
    <3> QED
      BY <1>0, <3>8, <3>9, <3>10
  <2> QED
    BY <2>2, <2>3
<1> QED
  BY <1>2, <1>3

-----------------------------------------------------------------------------
(* The cap of the pool.  A seat is lent while a seat of a nested run is on   *)
(* disk, and comes back into use when that one goes; the bound that every    *)
(* step keeps is on any set of live seats none of which is above another.    *)

Apart(T) == \A s, t \in T : s \notin Above[Own[t]]
Narrow == \A T \in SUBSET Seats : Apart(T) => Cardinality(T) <= cap

\* Seats are taken under a recorded cap only.
CapStands ==
  /\ cap = 0 => OnDisk = {}
  /\ \A s \in Seekers : spc[s] \in Judging => cap > 0
  /\ \A s \in Seekers : spc[s] \in Waiting => 0 < Seed[Own[s]]

\* A run that limits itself has a cap for the pool as well: WORKFLOW_MAX_SEATS is not 0.
Capped == \A r \in Runners : 0 < Ceiling[r] => 0 < Seed[r]

LEMMA StandsStep == Capped /\ PoolInv /\ CapStands /\ [Next]_vars => CapStands'
<1> SUFFICES ASSUME Capped, PoolInv, CapStands, [Next]_vars PROVE CapStands'
  OBVIOUS
<1> USE PoolConstants
<1> USE DEF PoolInv, PoolTypeOK, Goto, files, locks, waves, Judging, Waiting, Section
<1>1. ASSUME NEW s \in Seekers, Arrive(s) PROVE CapStands'
  <2>1. PICK to \in {"launch", "admit"} : spc' = [spc EXCEPT ![s] = to] /\ (to = "launch" <=> Seed[Own[s]] = 0 /\ Ceiling[Own[s]] = 0)
    BY <1>1 DEF Arrive
  <2>2. to = "admit" => 0 < Seed[Own[s]]
    BY <2>1 DEF Capped
  <2>3. UNCHANGED <<cap, ticket>>
    BY <1>1 DEF Arrive
  <2> QED
    BY <2>1, <2>2, <2>3 DEF CapStands, OnDisk
<1>2. ASSUME NEW s \in Seekers, GiveUp(s) PROVE CapStands'
  BY <1>2 DEF GiveUp, CapStands, OnDisk
<1>3. ASSUME NEW s \in Seekers, TakeAdmitLock(s) PROVE CapStands'
  BY <1>3 DEF TakeAdmitLock, CapStands, OnDisk
<1>4. ASSUME NEW s \in Seekers, TakeFlock(s) PROVE CapStands'
  BY <1>4 DEF TakeFlock, CapStands, OnDisk
<1>5. ASSUME NEW s \in Seekers, Count(s) PROVE CapStands'
  BY <1>5 DEF Count, CapStands, OnDisk
<1>6. ASSUME NEW s \in Seekers, Settle(s) PROVE CapStands'
  BY <1>6 DEF Settle, CapStands, OnDisk
<1>7. ASSUME NEW s \in Seekers, Scan(s) PROVE CapStands'
  BY <1>7 DEF Scan, CapStands, OnDisk
<1>8. ASSUME NEW s \in Seekers, Prune(s) PROVE CapStands'
  BY <1>8 DEF Prune, CapStands, OnDisk
<1>9. ASSUME NEW s \in Seekers, AdmitSeeker(s) PROVE CapStands'
  BY <1>9 DEF AdmitSeeker, CapStands, OnDisk
<1>10. ASSUME NEW s \in Seekers, TurnAway(s) PROVE CapStands'
  BY <1>10 DEF TurnAway, CapStands, OnDisk
<1>11. ASSUME NEW s \in Seekers, Beat(s) PROVE CapStands'
  BY <1>11 DEF Beat, CapStands, OnDisk
<1>12. ASSUME NEW s \in Seekers, Lapse(s) PROVE CapStands'
  BY <1>12 DEF Lapse, CapStands, OnDisk
<1>13. ASSUME NEW s \in Seekers, Launch(s) PROVE CapStands'
  BY <1>13 DEF Launch, CapStands, OnDisk
<1>14. ASSUME NEW s \in Seekers, LaunchRefused(s) PROVE CapStands'
  BY <1>14 DEF LaunchRefused, CapStands, OnDisk
<1>15. ASSUME NEW s \in Seekers, Bind(s) PROVE CapStands'
  BY <1>15 DEF Bind, CapStands, OnDisk
<1>16. ASSUME NEW s \in Seekers, AgentEnds(s) PROVE CapStands'
  BY <1>16 DEF AgentEnds, CapStands, OnDisk
<1>17. ASSUME NEW s \in Seekers, Reap(s) PROVE CapStands'
  BY <1>17 DEF Reap, CapStands, OnDisk
<1>18. ASSUME NEW s \in Seekers, Tally(s) PROVE CapStands'
  BY <1>18 DEF Tally, CapStands, OnDisk
<1>19. ASSUME NEW s \in Seekers, CancelStragglers(s) PROVE CapStands'
  BY <1>19 DEF CancelStragglers, CapStands, OnDisk
<1>20. ASSUME NEW s \in Seekers, ReturnSeat(s) PROVE CapStands'
  BY <1>20 DEF ReturnSeat, CapStands, OnDisk
<1>21. ASSUME NEW r \in Runners, DrainEnds(r) PROVE CapStands'
  BY <1>21 DEF DrainEnds, CapStands, OnDisk
<1>22. ASSUME NEW r \in Runners, StopRun(r) PROVE CapStands'
  BY <1>22 DEF StopRun, CapStands, OnDisk
<1>23. ASSUME NEW r \in Runners, Crash(r) PROVE CapStands'
  BY <1>23 DEF Crash, CapStands, OnDisk
<1>24. CASE ForgetCap
  BY <1>24 DEF ForgetCap, CapStands, OnDisk, HoldsFlock
<1>25. CASE UNCHANGED vars
  BY <1>25 DEF vars, CapStands, OnDisk
<1> HIDE DEF PoolInv, PoolTypeOK, Goto, files, locks, waves, Judging, Waiting, Section
<1> QED
  BY Zenon, <1>1, <1>2, <1>3, <1>4, <1>5, <1>6, <1>7, <1>8, <1>9, <1>10, <1>11, <1>12, <1>13, <1>14, <1>15, <1>16, <1>17, <1>18, <1>19, <1>20, <1>21, <1>22, <1>23, <1>24, <1>25 DEF Next, TakeLock, SeekerStep

LEMMA NarrowStep == Capped /\ PoolInv /\ CountsEnough /\ CapStands /\ Narrow /\ [Next]_vars => Narrow'
<1> SUFFICES ASSUME Capped, PoolInv, CountsEnough, CapStands, Narrow, [Next]_vars,
                    NEW T \in SUBSET Seats', Apart(T)
             PROVE  Cardinality(T) <= cap'
  BY DEF Narrow, Apart
<1> USE PoolConstants
<1>0. PoolTypeOK' /\ CapStands' /\ cap \in Nat /\ cap' \in Nat
  BY PoolStepType, StandsStep DEF PoolInv, PoolTypeOK
<1>1. IsFiniteSet(T) /\ Cardinality(T) \in Nat
  BY <1>0, SeatSetsNext, SeekerSets
<1>2. ASSUME T = {} PROVE Cardinality(T) <= cap'
  BY <1>0, <1>2, FS_EmptySet
<1>3. ASSUME \A s \in Seekers : ~ AdmitSeeker(s) PROVE Cardinality(T) <= cap'
  <2>1. T \subseteq Seats /\ OnDisk' \subseteq OnDisk
    BY <1>3, Fewer
  <2>2. CASE cap' = cap
    BY <2>1, <2>2 DEF Narrow
  <2>3. CASE cap' # cap
    <3>1. OnDisk = {}
      <4>1. CASE ForgetCap
        BY <4>1 DEF ForgetCap
      <4>2. ASSUME NEW s \in Seekers, Count(s) PROVE cap = 0
        BY <2>3, <4>2 DEF Count
      <4>3. CASE UNCHANGED cap
        BY <2>3, <4>3
      <4> QED
        BY Zenon, <1>3, <4>1, <4>2, <4>3 DEF Next, TakeLock, SeekerStep, Arrive, GiveUp, TakeAdmitLock, TakeFlock, Settle, Scan,
           Prune, TurnAway, Beat, Lapse, Launch, LaunchRefused, Bind, AgentEnds, Reap, Tally, CancelStragglers,
           ReturnSeat, DrainEnds, StopRun, Crash, CapStands, files, vars
    <3> QED
      BY <1>2, <2>1, <3>1 DEF Seats
  <2> QED
    BY <2>2, <2>3
<1>4. ASSUME NEW s \in Seekers, AdmitSeeker(s) PROVE Cardinality(T) <= cap'
  <2>1. cap' = cap /\ Seats' \subseteq Seats \cup {s}
    BY <1>4 DEF AdmitSeeker, Seats, OnDisk, Live, Up, PoolInv, PoolTypeOK
  <2>2. CASE s \notin T
    BY <2>1, <2>2 DEF Narrow
  <2>3. CASE s \in T
    <3>1. spc[s] = "decide" /\ ~ Shut(s)
      BY <1>4 DEF AdmitSeeker
    <3>2. Cardinality(Seats \ Uncounted(s)) <= view.live /\ view.doomed = {} /\ cap > 0
      BY <3>1 DEF CountsEnough, CapStands, Judging
    <3>3. view.live < cap /\ view.live \in Nat
      <4>1. /\ view.live \in Nat /\ Ceiling[Own[s]] \in Nat
            /\ ~ view.live >= Cap(Own[s])
        BY <3>1 DEF Shut, PoolInv, PoolTypeOK
      <4> QED
        BY <1>0, <3>2, <4>1 DEF Cap
    <3>4. T \ {s} \subseteq Seats \ Uncounted(s)
      BY <2>1, <2>3, <3>2 DEF Apart, Uncounted
    <3>5. IsFiniteSet(Seats \ Uncounted(s)) /\ Cardinality(Seats \ Uncounted(s)) \in Nat
      BY SeatSets, SeekerSets DEF PoolInv
    <3>6. Cardinality(T \ {s}) <= Cardinality(Seats \ Uncounted(s))
      BY <3>4, <3>5, FS_Subset
    <3>7. Cardinality(T \ {s}) = Cardinality(T) - 1
      BY <1>1, <2>3, FS_RemoveElement
    <3> QED
      BY <1>0, <1>1, <2>1, <3>2, <3>3, <3>5, <3>6, <3>7
  <2> QED
    BY <2>2, <2>3
<1> QED
  BY <1>3, <1>4

-----------------------------------------------------------------------------

LEMMA PoolInitInv == Init => PoolInv /\ CountsEnough /\ CeilingRespected /\ CapStands /\ Narrow
<1> SUFFICES ASSUME Init PROVE PoolInv /\ CountsEnough /\ CeilingRespected /\ CapStands /\ Narrow
  OBVIOUS
<1> USE PoolConstants
<1>1. OnDisk = {} /\ Seats = {}
  BY DEF Init, OnDisk, Seats
<1>2. PoolInv
  BY PoolInitType DEF PoolInv, AtWork, HoldsFlock, Init, Section
<1>3. CountsEnough /\ CapStands
  BY <1>1 DEF CountsEnough, CapStands, Init, Judging, Waiting, Section
<1>4. CeilingRespected
  <2> SUFFICES ASSUME NEW r \in Runners, 0 < Ceiling[r] PROVE Cardinality({s \in OnDisk : Own[s] = r}) <= Ceiling[r]
    BY DEF CeilingRespected
  <2>1. {s \in OnDisk : Own[s] = r} = {}
    BY <1>1
  <2>2. Cardinality({s \in OnDisk : Own[s] = r}) = 0
    BY <2>1, FS_EmptySet, Zenon
  <2> QED
    BY <2>2
<1>5. Narrow
  <2> SUFFICES ASSUME NEW T \in SUBSET Seats, Apart(T)
               PROVE  Cardinality(T) <= cap
    BY DEF Narrow
  <2>1. T = {}
    BY <1>1
  <2>2. Cardinality(T) = 0
    BY <2>1, FS_EmptySet, Zenon
  <2>3. cap = 0
    BY DEF Init
  <2> QED
    BY <2>2, <2>3
<1> QED
  BY <1>2, <1>3, <1>4, <1>5

\* The files of the pool, the locks and the seekers keep their types, for any seekers and runners.
THEOREM PoolTypeCorrect == Spec => []PoolTypeOK
<1>1. Init => PoolTypeOK
  BY PoolInitType
<1>2. PoolTypeOK /\ [Next]_vars => PoolTypeOK'
  BY PoolStepType
<1> QED
  BY <1>1, <1>2, PTL DEF Spec

\* The section of the pool has one seeker in it, and its runner lives (wf.py _seat_acquire).
LEMMA PoolInvariant == Spec => [](PoolInv /\ CountsEnough)
<1>1. Init => PoolInv /\ CountsEnough
  BY PoolInitInv
<1>2. PoolInv /\ CountsEnough /\ [Next]_vars => (PoolInv /\ CountsEnough)'
  BY PoolStepType, LocksStep, CountsStep DEF PoolInv
<1> QED
  BY <1>1, <1>2, PTL DEF Spec

\* No run ever holds more seats than its own max_seats, over any crashes, misreads and prunes
\* (_seat_pool_ceiling under _seat_live_tickets).
THEOREM CeilingsHold == Spec => []CeilingRespected
<1>1. Init => CeilingRespected
  BY PoolInitInv
<1>2. PoolInv /\ CountsEnough /\ CeilingRespected /\ [Next]_vars => CeilingRespected'
  BY CeilingStep
<1> QED
  BY <1>1, <1>2, PoolInvariant, PTL DEF Spec

\* The seats in use never exceed the cap of the pool, for nested runs of any depth: as long as a
\* run with a ceiling has a cap to record, a pool is not filled before it has one.
THEOREM CapHolds == ASSUME Capped PROVE Spec => []CapRespected
<1>1. Init => CapStands /\ Narrow
  BY PoolInitInv
<1>2. PoolInv /\ CountsEnough /\ CapStands /\ Narrow /\ [Next]_vars => (CapStands /\ Narrow)'
  BY StandsStep, NarrowStep
<1>3. Narrow => CapRespected
  <2> SUFFICES ASSUME Narrow PROVE Cardinality({s \in OnDisk : Live(s) /\ ~ Lending(s)}) <= cap
    BY DEF CapRespected
  <2> DEFINE T == {s \in OnDisk : Live(s) /\ ~ Lending(s)}
  <2>1. T \subseteq Seats /\ Apart(T)
    BY DEF Seats, Apart, Lending
  <2> QED
    BY <2>1 DEF Narrow
<1> QED
  BY <1>1, <1>2, <1>3, PoolInvariant, PTL DEF Spec

-----------------------------------------------------------------------------
(* Who holds the lock of a fan-out, and what a waiter leaves when it goes.   *)

Locked == Section \cup {"flock", "cancel", "return"}
HoldsAdmit ==
  /\ \A s \in Seekers : spc[s] \in Locked <=> admit[Own[s]] = s
  /\ \A r \in Runners : admit[r] # NoOne => Own[admit[r]] = r
MarkersWait == \A s \in Seekers : marker[s] # "none" => spc[s] \in Waiting \cup {"gone"}

LEMMA AdmitStep == PoolTypeOK /\ HoldsAdmit /\ [Next]_vars => HoldsAdmit'
<1> SUFFICES ASSUME PoolTypeOK, HoldsAdmit, [Next]_vars PROVE HoldsAdmit'
  OBVIOUS
<1> USE PoolConstants
<1> USE DEF PoolTypeOK, HoldsAdmit, Locked, Section, files, locks, waves, Goto
<1>1. ASSUME NEW s \in Seekers, Arrive(s) PROVE HoldsAdmit'
  BY <1>1 DEF Arrive
<1>2. ASSUME NEW s \in Seekers, GiveUp(s) PROVE HoldsAdmit'
  BY <1>2 DEF GiveUp, FreeLocks
<1>3. ASSUME NEW s \in Seekers, TakeAdmitLock(s) PROVE HoldsAdmit'
  BY <1>3 DEF TakeAdmitLock
<1>4. ASSUME NEW s \in Seekers, TakeFlock(s) PROVE HoldsAdmit'
  BY <1>4 DEF TakeFlock
<1>5. ASSUME NEW s \in Seekers, Count(s) PROVE HoldsAdmit'
  BY <1>5 DEF Count
<1>6. ASSUME NEW s \in Seekers, Settle(s) PROVE HoldsAdmit'
  BY <1>6 DEF Settle
<1>7. ASSUME NEW s \in Seekers, Scan(s) PROVE HoldsAdmit'
  BY <1>7 DEF Scan
<1>8. ASSUME NEW s \in Seekers, Prune(s) PROVE HoldsAdmit'
  BY <1>8 DEF Prune
<1>9. ASSUME NEW s \in Seekers, AdmitSeeker(s) PROVE HoldsAdmit'
  BY <1>9 DEF AdmitSeeker, FreeLocks
<1>10. ASSUME NEW s \in Seekers, TurnAway(s) PROVE HoldsAdmit'
  BY <1>10 DEF TurnAway, FreeLocks
<1>11. ASSUME NEW s \in Seekers, Beat(s) PROVE HoldsAdmit'
  BY <1>11 DEF Beat
<1>12. ASSUME NEW s \in Seekers, Launch(s) PROVE HoldsAdmit'
  BY <1>12 DEF Launch
<1>13. ASSUME NEW s \in Seekers, LaunchRefused(s) PROVE HoldsAdmit'
  BY <1>13 DEF LaunchRefused
<1>14. ASSUME NEW s \in Seekers, Bind(s) PROVE HoldsAdmit'
  BY <1>14 DEF Bind
<1>15. ASSUME NEW s \in Seekers, Reap(s) PROVE HoldsAdmit'
  BY <1>15 DEF Reap
<1>16. ASSUME NEW s \in Seekers, Tally(s) PROVE HoldsAdmit'
  BY <1>16 DEF Tally
<1>17. ASSUME NEW s \in Seekers, CancelStragglers(s) PROVE HoldsAdmit'
  BY <1>17 DEF CancelStragglers
<1>18. ASSUME NEW s \in Seekers, ReturnSeat(s) PROVE HoldsAdmit'
  BY <1>18 DEF ReturnSeat, FreeLocks
<1>19. ASSUME NEW s \in Seekers, AgentEnds(s) \/ Lapse(s) PROVE HoldsAdmit'
  BY <1>19 DEF AgentEnds, Lapse
<1>20. ASSUME NEW r \in Runners, DrainEnds(r) \/ StopRun(r) PROVE HoldsAdmit'
  BY <1>20 DEF DrainEnds, StopRun
<1>21. ASSUME NEW r \in Runners, Crash(r) PROVE HoldsAdmit'
  BY <1>21 DEF Crash
<1>22. CASE ForgetCap \/ UNCHANGED vars
  BY <1>22 DEF ForgetCap, vars
<1> HIDE DEF PoolTypeOK, HoldsAdmit, Locked, Section, files, locks, waves, Goto
<1> QED
  BY Zenon, <1>1, <1>2, <1>3, <1>4, <1>5, <1>6, <1>7, <1>8, <1>9, <1>10, <1>11, <1>12, <1>13, <1>14, <1>15, <1>16, <1>17, <1>18, <1>19, <1>20, <1>21, <1>22 DEF Next, TakeLock, SeekerStep

\* Only waiters get a marker, and whoever stops waiting takes it away.
LEMMA MarkerStep == PoolTypeOK /\ MarkersWait /\ [Next]_vars => MarkersWait'
<1> SUFFICES ASSUME PoolTypeOK, MarkersWait, [Next]_vars PROVE MarkersWait'
  OBVIOUS
<1> USE PoolConstants
<1> USE DEF PoolTypeOK, MarkersWait, Waiting, Section, files, locks, waves, Goto
<1>1. ASSUME NEW s \in Seekers, Arrive(s) PROVE MarkersWait'
  BY <1>1 DEF Arrive
<1>2. ASSUME NEW s \in Seekers, GiveUp(s) PROVE MarkersWait'
  BY <1>2 DEF GiveUp
<1>3. ASSUME NEW s \in Seekers, TakeAdmitLock(s) \/ TakeFlock(s) \/ Settle(s) PROVE MarkersWait'
  BY <1>3 DEF TakeAdmitLock, TakeFlock, Settle
<1>13. ASSUME NEW s \in Seekers, Count(s) PROVE MarkersWait'
  BY <1>13 DEF Count
<1>14. ASSUME NEW s \in Seekers, Scan(s) PROVE MarkersWait'
  BY <1>14 DEF Scan
<1>4. ASSUME NEW s \in Seekers, Prune(s) PROVE MarkersWait'
  BY <1>4 DEF Prune
<1>5. ASSUME NEW s \in Seekers, AdmitSeeker(s) PROVE MarkersWait'
  BY <1>5 DEF AdmitSeeker
<1>6. ASSUME NEW s \in Seekers, TurnAway(s) PROVE MarkersWait'
  BY <1>6 DEF TurnAway
<1>7. ASSUME NEW s \in Seekers, Beat(s) PROVE MarkersWait'
  BY <1>7 DEF Beat
<1>8. ASSUME NEW s \in Seekers, Lapse(s) PROVE MarkersWait'
  BY <1>8 DEF Lapse
<1>9. ASSUME NEW s \in Seekers, Launch(s) \/ LaunchRefused(s) \/ Bind(s) \/ Reap(s) PROVE MarkersWait'
  <2>1. /\ UNCHANGED marker /\ spc[s] \in {"launch", "bind", "run"}
        /\ \E to \in {"bind", "end", "run", "tally", spc[s]} : spc' = [spc EXCEPT ![s] = to]
    BY <1>9 DEF Launch, LaunchRefused, Bind, Reap
  <2>2. marker[s] = "none" /\ \A t \in Seekers \ {s} : spc'[t] = spc[t]
    BY <2>1
  <2> QED
    BY <2>1, <2>2
<1>10. ASSUME NEW s \in Seekers, Tally(s) \/ CancelStragglers(s) \/ ReturnSeat(s) \/ AgentEnds(s) PROVE MarkersWait'
  BY <1>10 DEF Tally, CancelStragglers, ReturnSeat, AgentEnds
<1>11. ASSUME NEW r \in Runners, DrainEnds(r) \/ StopRun(r) \/ Crash(r) PROVE MarkersWait'
  BY <1>11 DEF DrainEnds, StopRun, Crash
<1>12. CASE ForgetCap \/ UNCHANGED vars
  BY <1>12 DEF ForgetCap, vars
<1> HIDE DEF PoolTypeOK, MarkersWait, Waiting, Section, files, locks, waves, Goto
<1> QED
  BY Zenon, <1>1, <1>2, <1>3, <1>4, <1>5, <1>6, <1>7, <1>8, <1>9, <1>10, <1>11, <1>12, <1>13, <1>14 DEF Next, TakeLock, SeekerStep

-----------------------------------------------------------------------------
(* The order of the queue, while no waiter misses a heartbeat: whoever found *)
(* nobody before it still has nobody before it when it is admitted.          *)

Beating == \A s \in Seekers : marker[s] \in {"none", "fresh"}
Before(s, t) == marker[t] = "fresh" /\ Up(t) /\ enq[t] < enq[s] /\ Own[t] \notin RunnersAbove(Own[s])
Ahead(s) == \E t \in Seekers : Before(s, t)
ScanStands == \A s \in Seekers : spc[s] \in {"prune", "decide"} /\ Ahead(s) => view.older

LEMMA BeatingStep == ~ Lapses /\ PoolTypeOK /\ Beating /\ [Next]_vars => Beating'
<1> SUFFICES ASSUME ~ Lapses, PoolTypeOK, Beating, [Next]_vars PROVE Beating'
  OBVIOUS
<1> USE DEF PoolTypeOK, Beating, files, locks, waves
<1>1. ASSUME NEW s \in Seekers, GiveUp(s) \/ AdmitSeeker(s) \/ Beat(s) \/ Prune(s) PROVE Beating'
  BY <1>1 DEF GiveUp, AdmitSeeker, Beat, Prune
<1>2. ASSUME NEW s \in Seekers, TurnAway(s) PROVE Beating'
  BY <1>2 DEF TurnAway
<1>3. CASE UNCHANGED marker
  BY <1>3
<1>4. ASSUME NEW s \in Seekers,
             \/ Arrive(s) \/ TakeAdmitLock(s) \/ TakeFlock(s) \/ Tally(s) \/ Count(s) \/ Settle(s) \/ Scan(s)
             \/ Launch(s) \/ LaunchRefused(s) \/ Bind(s) \/ Reap(s) \/ CancelStragglers(s) \/ ReturnSeat(s)
             \/ AgentEnds(s) \/ Lapse(s)
      PROVE  UNCHANGED marker
  BY <1>4 DEF Arrive, TakeAdmitLock, TakeFlock, Tally, Count, Settle, Scan, Launch, LaunchRefused, Bind, Reap,
     CancelStragglers, ReturnSeat, AgentEnds, Lapse
<1>5. ASSUME NEW r \in Runners, DrainEnds(r) \/ StopRun(r) \/ Crash(r) PROVE UNCHANGED marker
  BY <1>5 DEF DrainEnds, StopRun, Crash
<1>6. CASE ForgetCap \/ UNCHANGED vars
  BY <1>6 DEF ForgetCap, vars
<1> HIDE DEF PoolTypeOK, Beating, files, locks, waves
<1> QED
  BY Zenon, <1>1, <1>2, <1>3, <1>4, <1>5, <1>6 DEF Next, TakeLock, SeekerStep

\* A step that puts nobody into the queue and lets nobody judge what it has not scanned.
LEMMA StillAhead ==
  ASSUME ScanStands, \A s \in Seekers : spc'[s] \in {"prune", "decide"} => spc[s] \in {"prune", "decide"} /\ view'.older = view.older,
         \A t \in Seekers : marker'[t] = "fresh" => marker[t] = "fresh", UNCHANGED enq,
         \A t \in Seekers : runner'[Own[t]] = "up" => runner[Own[t]] = "up"
  PROVE  ScanStands'
BY DEF ScanStands, Ahead, Before, Up

LEMMA ScanStep ==
  ~ Lapses /\ PoolInv /\ MarkersWait /\ Beating /\ ScanStands /\ [Next]_vars => ScanStands'
<1> SUFFICES ASSUME ~ Lapses, PoolInv, MarkersWait, Beating, ScanStands, [Next]_vars PROVE ScanStands'
  OBVIOUS
<1> USE PoolConstants
<1>0. PoolInv'
  BY PoolStepType, LocksStep DEF PoolInv
<1>f. \A s \in Seekers : spc'[s] \in {"prune", "decide"} => flock' = s
  BY <1>0 DEF PoolInv, HoldsFlock, Section
<1> USE DEF PoolInv, PoolTypeOK, files, locks, waves, Goto
<1>1. ASSUME NEW s \in Seekers, Arrive(s) PROVE ScanStands'
  <2>1. \A t \in Seekers : marker[t] = "fresh" => t # s
    BY <1>1 DEF Arrive, MarkersWait, Waiting, Section
  <2>2. \A t \in Seekers : spc'[t] \in {"prune", "decide"} => t # s /\ spc[t] = spc'[t]
    BY <1>1 DEF Arrive
  <2>3. UNCHANGED <<marker, runner, view>> /\ \A t \in Seekers : t # s => enq'[t] = enq[t]
    BY <1>1 DEF Arrive
  <2> QED
    BY <2>1, <2>2, <2>3 DEF ScanStands, Ahead, Before, Up
<1>2. ASSUME NEW s \in Seekers, GiveUp(s) \/ AdmitSeeker(s) \/ ReturnSeat(s) PROVE ScanStands'
  BY <1>2, <1>f, StillAhead DEF GiveUp, AdmitSeeker, ReturnSeat, FreeLocks
<1>3. ASSUME NEW s \in Seekers, TurnAway(s) PROVE ScanStands'
  BY <1>3, <1>f DEF TurnAway, FreeLocks, ScanStands, HoldsFlock, Section
<1>4. ASSUME NEW s \in Seekers, Scan(s) PROVE ScanStands'
  <2> DEFINE rivals == {t \in Seekers \ {s} : marker[t] # "none" /\ Own[t] \notin RunnersAbove(Own[s])}
  <2>1. view'.older = \E t \in rivals \ {t \in rivals : ~ Up(t)} : marker[t] = "fresh" /\ enq[t] < enq[s]
    BY <1>4 DEF Scan
  <2>2. UNCHANGED <<marker, enq, runner>>
    BY <1>4 DEF Scan
  <2>3. Ahead(s) => view'.older
    BY <2>1 DEF Ahead, Before
  <2>4. Ahead(s)' => Ahead(s)
    BY <2>2 DEF Ahead, Before, Up
  <2>5. flock' = s
    BY <1>4 DEF Scan, HoldsFlock, Section
  <2> QED
    BY <1>f, <2>3, <2>4, <2>5 DEF ScanStands
<1>5. ASSUME NEW s \in Seekers, Prune(s) \/ Beat(s) PROVE ScanStands'
  BY <1>5, StillAhead DEF Prune, Beat, Beating
<1>6. ASSUME NEW s \in Seekers, TakeAdmitLock(s) \/ TakeFlock(s) \/ Launch(s) \/ LaunchRefused(s) \/ Bind(s)
      PROVE  ScanStands'
  BY <1>6, StillAhead DEF TakeAdmitLock, TakeFlock, Launch, LaunchRefused, Bind
<1>12. ASSUME NEW s \in Seekers, Tally(s) PROVE ScanStands'
  BY <1>12, StillAhead DEF Tally
<1>13. ASSUME NEW s \in Seekers, Settle(s) PROVE ScanStands'
  BY <1>13, <1>f DEF Settle, ScanStands, HoldsFlock, Section
<1>14. ASSUME NEW s \in Seekers, Reap(s) \/ CancelStragglers(s) PROVE ScanStands'
  BY <1>14, StillAhead DEF Reap, CancelStragglers
<1>7. ASSUME NEW s \in Seekers, Count(s) PROVE ScanStands'
  BY <1>7, <1>f DEF Count, ScanStands, HoldsFlock, Section
<1>8. ASSUME NEW s \in Seekers, AgentEnds(s) \/ Lapse(s) PROVE ScanStands'
  BY <1>8, StillAhead DEF AgentEnds, Lapse
<1>9. ASSUME NEW r \in Runners, DrainEnds(r) \/ StopRun(r) PROVE ScanStands'
  BY <1>9, StillAhead DEF DrainEnds, StopRun
<1>10. ASSUME NEW r \in Runners, Crash(r) PROVE ScanStands'
  <2>1. \A s \in Seekers : spc'[s] \in {"prune", "decide"} => spc'[s] = spc[s] /\ view'.older = view.older
    BY <1>10, <1>f DEF Crash
  <2> QED
    BY <1>10, <2>1, StillAhead DEF Crash
<1>11. CASE ForgetCap \/ UNCHANGED vars
  BY <1>11, StillAhead DEF ForgetCap, vars
<1> HIDE DEF PoolInv, PoolTypeOK, files, locks, waves, Goto
<1> QED
  BY Zenon, <1>1, <1>2, <1>3, <1>4, <1>5, <1>6, <1>7, <1>8, <1>9, <1>10, <1>11, <1>12, <1>13, <1>14 DEF Next, TakeLock, SeekerStep

-----------------------------------------------------------------------------
(* The quorum without a drain window: from the count that met it to the      *)
(* cancel the lock of the fan-out is held, so nobody is admitted in between. *)

Settled == {"tally", "cancel", "return", "end"}
QuorumShuts ==
  \A r \in Runners : QuorumMet(r) =>
    \/ cancel[r] \/ runner[r] = "dead" \/ Stragglers(r) = {}
    \/ \E t \in Seekers : Own[t] = r /\ spc[t] = "cancel"

LEMMA StillShut ==
  ASSUME QuorumShuts, UNCHANGED done,
         \A r \in Runners : (cancel[r] => cancel'[r]) /\ (runner[r] = "dead" => runner'[r] = "dead"),
         \A t \in Seekers : /\ spc[t] = "cancel" => spc'[t] = "cancel"
                            /\ spc[t] \in Settled => spc'[t] \in Settled
  PROVE  QuorumShuts'
<1> SUFFICES ASSUME NEW r \in Runners, QuorumMet(r)
             PROVE  \/ cancel'[r] \/ runner'[r] = "dead" \/ Stragglers(r)' = {}
                    \/ \E t \in Seekers : Own[t] = r /\ spc'[t] = "cancel"
  BY DEF QuorumShuts, QuorumMet
<1>1. Stragglers(r) = {} => Stragglers(r)' = {}
  <2> SUFFICES ASSUME Stragglers(r) = {}, NEW t \in Stragglers(r)' PROVE FALSE
    OBVIOUS
  <2>1. t \in Seekers /\ Own[t] = r /\ spc'[t] \notin Settled
    BY DEF Stragglers, Settled
  <2>2. t \in Stragglers(r)
    BY <2>1 DEF Stragglers, Settled
  <2> QED
    BY <2>2
<1> QED
  BY <1>1 DEF QuorumShuts

LEMMA QuorumStep == ~ Drain /\ PoolInv /\ QuorumShuts /\ [Next]_vars => QuorumShuts'
<1> SUFFICES ASSUME ~ Drain, PoolInv, QuorumShuts, [Next]_vars PROVE QuorumShuts'
  OBVIOUS
<1> USE PoolConstants
<1> USE DEF PoolInv, PoolTypeOK, files, locks, waves, Goto, Settled
<1>1. ASSUME NEW s \in Seekers, Arrive(s) \/ TakeAdmitLock(s) \/ TakeFlock(s) \/ Settle(s) \/ Prune(s) \/ Beat(s)
      PROVE  QuorumShuts'
  BY <1>1, StillShut DEF Arrive, TakeAdmitLock, TakeFlock, Settle, Prune, Beat
<1>2. ASSUME NEW s \in Seekers, GiveUp(s) \/ AdmitSeeker(s) \/ Launch(s) \/ LaunchRefused(s) \/ Bind(s) PROVE QuorumShuts'
  BY <1>2, StillShut DEF GiveUp, AdmitSeeker, Launch, LaunchRefused, Bind
<1>3. ASSUME NEW s \in Seekers, Count(s) PROVE QuorumShuts'
  BY <1>3, StillShut DEF Count
<1>4. ASSUME NEW s \in Seekers, Scan(s) PROVE QuorumShuts'
  BY <1>4, StillShut DEF Scan
<1>5. ASSUME NEW s \in Seekers, TurnAway(s) PROVE QuorumShuts'
  <2>1. \E to \in {"end", "nap"} : spc' = [spc EXCEPT ![s] = to] /\ spc[s] = "decide"
    BY <1>5, Zenon DEF TurnAway
  <2> QED
    BY <1>5, <2>1, StillShut DEF TurnAway
<1>6. ASSUME NEW s \in Seekers, Reap(s) PROVE QuorumShuts'
  BY <1>6, StillShut DEF Reap
<1>7. ASSUME NEW s \in Seekers, Tally(s) PROVE QuorumShuts'
  <2>1. /\ spc[s] = "tally" /\ done' = [done EXCEPT ![Own[s]] = @ + 1] /\ UNCHANGED <<cancel, runner>>
        /\ spc' = [spc EXCEPT ![s] = IF 0 < Quorum[Own[s]] /\ Quorum[Own[s]] <= done'[Own[s]] /\ Stragglers(Own[s]) # {}
                                       THEN "cancel" ELSE "return"]
    BY <1>7 DEF Tally
  <2> SUFFICES ASSUME NEW r \in Runners, QuorumMet(r)'
               PROVE  \/ cancel'[r] \/ runner'[r] = "dead" \/ Stragglers(r)' = {}
                      \/ \E t \in Seekers : Own[t] = r /\ spc'[t] = "cancel"
    BY DEF QuorumShuts
  <2>2. Stragglers(r) = {} => Stragglers(r)' = {}
    BY <2>1 DEF Stragglers
  <2>3. CASE r = Own[s]
    <3>1. CASE Stragglers(r) # {}
      BY <2>1, <2>3, <3>1 DEF QuorumMet
    <3> QED
      BY <2>2, <3>1
  <2>4. CASE r # Own[s]
    <3>1. QuorumMet(r)
      BY <2>1, <2>4 DEF QuorumMet
    <3>2. \A t \in Seekers : Own[t] = r => spc'[t] = spc[t]
      BY <2>1, <2>4
    <3> QED
      BY <2>1, <2>2, <3>1, <3>2 DEF QuorumShuts
  <2> QED
    BY <2>3, <2>4
<1>8. ASSUME NEW s \in Seekers, CancelStragglers(s) PROVE QuorumShuts'
  <2> SUFFICES ASSUME NEW r \in Runners, QuorumMet(r), ~ cancel'[r]
               PROVE  \/ runner'[r] = "dead" \/ Stragglers(r)' = {}
                      \/ \E t \in Seekers : Own[t] = r /\ spc'[t] = "cancel"
    <3>1. UNCHANGED done
      BY <1>8 DEF CancelStragglers
    <3> QED
      BY <3>1 DEF QuorumShuts, QuorumMet
  <2>0. UNCHANGED runner /\ cancel' = [cancel EXCEPT ![Own[s]] = TRUE] /\ spc' = [spc EXCEPT ![s] = "return"] /\ spc[s] = "cancel"
    BY <1>8 DEF CancelStragglers
  <2>1. Own[s] # r /\ ~ cancel[r]
    BY <2>0
  <2>2. Stragglers(r)' = Stragglers(r)
    BY <2>0, <2>1 DEF Stragglers
  <2> QED
    BY <2>0, <2>1, <2>2 DEF QuorumShuts
<1>9. ASSUME NEW s \in Seekers, ReturnSeat(s) PROVE QuorumShuts'
  BY <1>9, StillShut DEF ReturnSeat
<1>10. ASSUME NEW s \in Seekers, AgentEnds(s) \/ Lapse(s) PROVE QuorumShuts'
  BY <1>10, StillShut DEF AgentEnds, Lapse
<1>11. ASSUME NEW r \in Runners, DrainEnds(r) PROVE QuorumShuts'
  <2>1. cancel' = cancel \/ cancel' = [cancel EXCEPT ![r] = TRUE]
    BY <1>11, Zenon DEF DrainEnds
  <2>2. UNCHANGED <<done, runner, spc>>
    BY <1>11 DEF DrainEnds
  <2>3. \A q \in Runners : cancel[q] => cancel'[q]
    BY <2>1
  <2> QED
    BY <2>2, <2>3, StillShut
<1>12. ASSUME NEW r \in Runners, StopRun(r) PROVE QuorumShuts'
  BY <1>12, StillShut DEF StopRun
<1>13. ASSUME NEW r \in Runners, Crash(r) PROVE QuorumShuts'
  <2> SUFFICES ASSUME NEW q \in Runners, QuorumMet(q), q # r
               PROVE  \/ cancel'[q] \/ runner'[q] = "dead" \/ Stragglers(q)' = {}
                      \/ \E t \in Seekers : Own[t] = q /\ spc'[t] = "cancel"
    BY <1>13 DEF QuorumShuts, QuorumMet, Crash
  <2>1. UNCHANGED cancel /\ runner'[q] = runner[q] /\ \A t \in Seekers : Own[t] = q => spc'[t] = spc[t]
    BY <1>13 DEF Crash
  <2>2. Stragglers(q)' = Stragglers(q)
    BY <2>1 DEF Stragglers
  <2>3. \/ cancel[q] \/ runner[q] = "dead" \/ Stragglers(q) = {}
        \/ \E t \in Seekers : Own[t] = q /\ spc[t] = "cancel"
    BY Zenon DEF QuorumShuts
  <2> HIDE DEF Stragglers
  <2> QED
    BY <2>1, <2>2, <2>3
<1>14. CASE ForgetCap \/ UNCHANGED vars
  BY <1>14, StillShut DEF ForgetCap, vars
<1> HIDE DEF PoolInv, PoolTypeOK, files, locks, waves, Goto, Settled
<1> QED
  BY Zenon, <1>1, <1>2, <1>3, <1>4, <1>5, <1>6, <1>7, <1>8, <1>9, <1>10, <1>11, <1>12, <1>13, <1>14 DEF Next, TakeLock, SeekerStep

-----------------------------------------------------------------------------
(* What a step may do to the seats.                                         *)

\* A seat is taken by an admission only, and an agent starts by a launch only.
LEMMA SeatsTaken ==
  ASSUME PoolInv, [Next]_vars, NEW s \in Seekers
  PROVE  /\ ticket[s] = "none" /\ ticket'[s] = "held" => AdmitSeeker(s)
         /\ agent[s] = "none" /\ agent'[s] = "live" => Launch(s)
<1> USE PoolConstants
<1> DEFINE Same == (ticket[s] = "none" => ticket'[s] # "held") /\ (agent[s] = "none" => agent'[s] # "live")
<1> USE DEF PoolInv, PoolTypeOK, files, locks, waves, Goto
<1>1. ASSUME NEW t \in Seekers, Launch(t) \/ AdmitSeeker(t), t # s PROVE Same
  BY <1>1 DEF Launch, AdmitSeeker
<1>2. Launch(s) => UNCHANGED ticket
  BY DEF Launch
<1>3. AdmitSeeker(s) => UNCHANGED agent
  BY DEF AdmitSeeker
<1>4. CASE UNCHANGED <<ticket, agent>>
  BY <1>4
<1>5. ASSUME NEW t \in Seekers,
             \/ Arrive(t) \/ GiveUp(t) \/ TakeLock(t) \/ Count(t) \/ Scan(t) \/ Prune(t) \/ TurnAway(t)
             \/ Beat(t) \/ Lapse(t)
      PROVE  UNCHANGED <<ticket, agent>>
  BY <1>5 DEF Arrive, GiveUp, TakeLock, TakeAdmitLock, TakeFlock, Tally, Count, Scan, Prune, TurnAway, Beat, Lapse
<1>6. ASSUME NEW t \in Seekers, Settle(t) \/ LaunchRefused(t) \/ Bind(t) \/ ReturnSeat(t) PROVE Same
  BY <1>6 DEF Settle, LaunchRefused, Bind, ReturnSeat
<1>7. ASSUME NEW t \in Seekers, Reap(t) PROVE Same
  <2>1. UNCHANGED agent
    BY <1>7, Zenon DEF Reap
  <2>2. ticket' = ticket \/ ticket' = [ticket EXCEPT ![t] = "none"]
    BY <1>7, Zenon DEF Reap
  <2>3. ticket[s] = "none" => ticket'[s] # "held"
    BY <2>2
  <2> QED
    BY <2>1, <2>3
<1>8. ASSUME NEW t \in Seekers, AgentEnds(t) \/ CancelStragglers(t) PROVE Same
  <2>1. UNCHANGED ticket /\ (Kill(Own[t]) \/ agent' = [agent EXCEPT ![t] = "dead"])
    BY <1>8 DEF AgentEnds, CancelStragglers
  <2> QED
    BY <2>1 DEF Kill
<1>9. ASSUME NEW r \in Runners, DrainEnds(r) PROVE Same
  <2>1. UNCHANGED ticket /\ (agent' = agent \/ Kill(r))
    BY <1>9, Zenon DEF DrainEnds
  <2> QED
    BY <2>1 DEF Kill
<1>10. ASSUME NEW r \in Runners, StopRun(r) \/ Crash(r) PROVE Same
  BY <1>10 DEF StopRun, Crash, Kill
<1>11. CASE ForgetCap \/ UNCHANGED vars
  BY <1>11 DEF ForgetCap, vars
<1> HIDE DEF PoolInv, PoolTypeOK, files, locks, waves, Goto, Same
<1>12. \/ AdmitSeeker(s) \/ Launch(s) \/ Same
  BY Zenon, <1>1, <1>4, <1>5, <1>6, <1>7, <1>8, <1>9, <1>10, <1>11 DEF Next, SeekerStep, Same
<1> QED
  BY <1>2, <1>3, <1>12 DEF Same

\* Only its owner, or a count that saw it dead twice, takes a ticket away.
LEMMA SeatsKept == PoolInv /\ [Next]_vars => KeepsLiveSeats
<1> SUFFICES ASSUME PoolInv, [Next]_vars, NEW s \in Seekers, ticket[s] # "none", Live(s), ticket'[s] = "none", spc'[s] = spc[s]
             PROVE  FALSE
  BY DEF KeepsLiveSeats
<1> USE PoolConstants
<1> USE DEF PoolInv, PoolTypeOK, files, locks, waves, Goto
<1>1. ASSUME NEW t \in Seekers,
             \/ Arrive(t) \/ GiveUp(t) \/ TakeLock(t) \/ Count(t) \/ Scan(t) \/ Prune(t) \/ TurnAway(t)
             \/ Beat(t) \/ Lapse(t) \/ Launch(t) \/ AgentEnds(t) \/ CancelStragglers(t)
      PROVE  UNCHANGED ticket
  BY <1>1 DEF Arrive, GiveUp, TakeLock, TakeAdmitLock, TakeFlock, Tally, Count, Scan, Prune, TurnAway, Beat, Lapse, Launch,
     AgentEnds, CancelStragglers
<1>2. ASSUME NEW r \in Runners, DrainEnds(r) \/ StopRun(r) \/ Crash(r) PROVE UNCHANGED ticket
  BY <1>2 DEF DrainEnds, StopRun, Crash
<1>3. CASE ForgetCap \/ UNCHANGED vars
  BY <1>3 DEF ForgetCap, vars
<1>4. ASSUME NEW t \in Seekers, Settle(t) PROVE FALSE
  BY <1>4 DEF Settle
<1>5. ASSUME NEW t \in Seekers, AdmitSeeker(t) \/ Bind(t) PROVE FALSE
  BY <1>5 DEF AdmitSeeker, Bind
<1>6. ASSUME NEW t \in Seekers, LaunchRefused(t) \/ ReturnSeat(t) PROVE FALSE
  BY <1>6 DEF LaunchRefused, ReturnSeat
<1>7. ASSUME NEW t \in Seekers, Reap(t) PROVE FALSE
  <2>1. /\ ticket' = ticket \/ ticket' = [ticket EXCEPT ![t] = "none"]
        /\ spc[t] = "run" /\ \E to \in {"tally", "end"} : spc' = [spc EXCEPT ![t] = to]
    BY <1>7, Zenon DEF Reap
  <2> QED
    BY <2>1
<1> HIDE DEF PoolInv, PoolTypeOK, files, locks, waves, Goto
<1>8. ~ UNCHANGED ticket
  OBVIOUS
<1> QED
  BY Zenon, <1>1, <1>2, <1>3, <1>4, <1>5, <1>6, <1>7, <1>8 DEF Next, SeekerStep

LEMMA NobodyOvertaken == PoolInv /\ ScanStands /\ [Next]_vars => OvertakesNobody
<1> SUFFICES ASSUME PoolInv, ScanStands, [Next]_vars, NEW s \in Seekers, NEW t \in Seekers,
                    ticket[s] = "none", ticket'[s] = "held", Before(s, t)
             PROVE  FALSE
  BY DEF OvertakesNobody, Before
<1>1. AdmitSeeker(s)
  BY SeatsTaken
<1>2. spc[s] = "decide" /\ ~ view.older
  BY <1>1 DEF AdmitSeeker, Shut
<1> QED
  BY <1>2 DEF ScanStands, Ahead

LEMMA NoStragglerSpawned == PoolInv /\ HoldsAdmit /\ QuorumShuts /\ [Next]_vars => SpawnsNoStraggler
<1> SUFFICES ASSUME PoolInv, HoldsAdmit, QuorumShuts, [Next]_vars, NEW s \in Seekers
             PROVE  /\ ticket[s] = "none" /\ ticket'[s] = "held" => ~ QuorumMet(Own[s])
                    /\ agent[s] = "none" /\ agent'[s] = "live" => ~ cancel[Own[s]]
  BY DEF SpawnsNoStraggler
<1> USE PoolConstants
<1>1. ASSUME AdmitSeeker(s), QuorumMet(Own[s]) PROVE FALSE
  <2>1. spc[s] = "decide" /\ ~ cancel[Own[s]] /\ runner[Own[s]] = "up"
    BY <1>1 DEF AdmitSeeker, PoolInv, AtWork, Up
  <2>2. Stragglers(Own[s]) # {}
    BY <2>1 DEF Stragglers
  <2>3. PICK t \in Seekers : Own[t] = Own[s] /\ spc[t] = "cancel"
    BY <1>1, <2>1, <2>2 DEF QuorumShuts
  <2>4. admit[Own[s]] = s /\ admit[Own[s]] = t
    BY <2>1, <2>3 DEF HoldsAdmit, Locked, Section
  <2> QED
    BY <2>1, <2>3, <2>4
<1>2. Launch(s) => ~ cancel[Own[s]]
  BY DEF Launch
<1> QED
  BY <1>1, <1>2, SeatsTaken

-----------------------------------------------------------------------------

LEMMA LocksInit == Init => HoldsAdmit /\ MarkersWait /\ Beating /\ ScanStands /\ QuorumShuts
<1> SUFFICES ASSUME Init PROVE HoldsAdmit /\ MarkersWait /\ Beating /\ ScanStands /\ QuorumShuts
  OBVIOUS
<1> USE PoolConstants DEF Init
<1>1. HoldsAdmit
  BY DEF HoldsAdmit, Locked, Section
<1>2. MarkersWait /\ Beating /\ ScanStands
  BY DEF MarkersWait, Beating, ScanStands
<1>3. QuorumShuts
  BY DEF QuorumShuts, QuorumMet
<1> QED
  BY <1>1, <1>2, <1>3

LEMMA LocksInvariant == Spec => [](HoldsAdmit /\ MarkersWait)
<1>1. PoolInv /\ HoldsAdmit /\ MarkersWait /\ [Next]_vars => (HoldsAdmit /\ MarkersWait)'
  BY AdmitStep, MarkerStep DEF PoolInv
<1> QED
  BY <1>1, LocksInit, PoolInvariant, PTL DEF Spec

\* The seats in use stay within the cap and each run within its ceiling, and no lock or marker
\* outlives the wait it was for (_seat_acquire with its finally clauses).
THEOREM PoolStaysSound == ASSUME Capped PROVE Spec => []PoolSound
<1>1. PoolInv /\ HoldsAdmit /\ MarkersWait => NothingLeftBehind
  BY DEF PoolInv, PoolTypeOK, HoldsFlock, HoldsAdmit, Locked, MarkersWait, NothingLeftBehind
<1> QED
  BY <1>1, LocksInvariant, PoolInvariant, PoolTypeCorrect, CapHolds, CeilingsHold, PTL DEF PoolSound

\* A holder that lives keeps its seat, the queue keeps its order while its heartbeats come, and no
\* straggler gets a seat or an agent past a quorum that has no drain window.
THEOREM SeatsStayLawful == Spec => SeatsStand
<1> DEFINE Ordered == (~ Lapses => Beating /\ ScanStands) /\ (~ Drain => QuorumShuts)
<1>1. Init => Ordered
  BY LocksInit
<1>2. PoolInv /\ MarkersWait /\ Ordered /\ [Next]_vars => Ordered'
  BY BeatingStep, ScanStep, QuorumStep DEF PoolInv
<1>3. PoolInv /\ HoldsAdmit /\ Ordered /\ [Next]_vars => SeatsLawful
  BY SeatsKept, NobodyOvertaken, NoStragglerSpawned DEF SeatsLawful
<1> HIDE DEF Ordered
<1> QED
  BY <1>1, <1>2, <1>3, PoolInvariant, LocksInvariant, PTL DEF Spec, SeatsStand
=================================================================================
