-------------------------- MODULE RunnerHandoffProofs --------------------------
(***************************************************************************)
(* For any number of runners, doors and observers: type correctness of     *)
(* RunnerHandoff, that whoever drives the run holds its lock and, as long  *)
(* as no fence is held up past a whole life of its successor (~ Stalls),   *)
(* that a recorded verdict is true of the graph that it counts for.        *)
(***************************************************************************)
EXTENDS RunnerHandoff, TLAPS

LEMMA NoGraphIsAGraph == NoGraph \in Graphs
BY DEF NoGraph, Graphs

LEMMA Cast ==
  ASSUME scene \in Scenes
  PROVE  /\ scene.calls \subseteq Doors /\ scene.observers \subseteq Observers
         /\ scene.orphans \subseteq Runners /\ scene.crashes \in Nat
BY HandoffConstants

LEMMA HandoffInitType == Init => HandoffTypeOK
<1> SUFFICES ASSUME Init PROVE HandoffTypeOK
  OBVIOUS
<1> USE HandoffConstants
<1>1. graph \in Graphs /\ exit \in [reason : Verdicts \cup {"silent"}, graph : Graphs]
  BY NoGraphIsAGraph DEF Init, Graphs, Verdicts
<1>2. work \in [efp : Graphs, status : {"none", "done", "failed"}]
  BY NoGraphIsAGraph DEF Init
<1>3. /\ rpc \in [Runners -> RunnerPC]
      /\ verdict \in [Runners -> Verdicts]
      /\ watcher \in [Runners -> {"off", "on", "sweep"}]
  BY DEF Init, RunnerPC, Verdicts
<1>4. mem \in [Runners -> Graphs]
  BY <1>1, NoGraphIsAGraph DEF Init
<1>5. /\ dpc \in [Doors -> DoorPC]
      /\ reply \in [Doors -> Replies]
      /\ tries \in [Doors -> Nat]
      /\ late \in [Doors -> BOOLEAN]
  BY DEF Init, DoorPC, Replies
<1>6. /\ answer \in Nat /\ gate \in Nat
      /\ last \in {"stopped", "other"}
      /\ lock \in Runners \cup Observers \cup {NoOne}
      /\ wfpid \in Runners \cup {NoOne}
      /\ glock \in Doors \cup {NoOne}
      /\ scene \in Scenes /\ crashes \in Nat
  BY Cast DEF Init
<1>7. restart \in BOOLEAN /\ stop \in BOOLEAN /\ asked \in BOOLEAN
  BY Zenon DEF Init
<1> QED
  BY <1>1, <1>2, <1>3, <1>4, <1>5, <1>6, <1>7 DEF HandoffTypeOK

LEMMA HandoffStepType == HandoffTypeOK /\ [Next]_vars => HandoffTypeOK'
<1> SUFFICES ASSUME HandoffTypeOK, [Next]_vars PROVE HandoffTypeOK'
  OBVIOUS
<1> USE HandoffConstants
<1> USE DEF HandoffTypeOK, RunnerPC, DoorPC, Replies, Verdicts, disk, runners, doors, history
<1>1. ASSUME NEW p \in Runners, Admit(p) PROVE HandoffTypeOK'
  BY <1>1 DEF Admit, Goto
<1>2. ASSUME NEW p \in Runners, Busy(p) PROVE HandoffTypeOK'
  BY <1>2 DEF Busy, Goto
<1>3. ASSUME NEW p \in Runners, RetireDuplicate(p) PROVE HandoffTypeOK'
  BY <1>3 DEF RetireDuplicate, Goto
<1>4. ASSUME NEW p \in Runners, PassDuplicateCheck(p) PROVE HandoffTypeOK'
  BY <1>4 DEF PassDuplicateCheck, Goto
<1>5. ASSUME NEW p \in Runners, BootRunner(p) PROVE HandoffTypeOK'
  <2>1. exit' \in [reason : Verdicts \cup {"silent"}, graph : Graphs]
    BY <1>5, NoGraphIsAGraph DEF BootRunner
  <2>2. mem' \in [Runners -> Graphs] /\ rpc' \in [Runners -> RunnerPC]
    BY <1>5 DEF BootRunner, Goto
  <2>3. watcher' \in [Runners -> {"off", "on", "sweep"}]
    BY <1>5 DEF BootRunner
  <2> QED
    BY <1>5, <2>1, <2>2, <2>3 DEF BootRunner
<1>6. ASSUME NEW p \in Runners, ConsumeRestart(p) PROVE HandoffTypeOK'
  <2>1. rpc' \in [Runners -> RunnerPC]
    BY <1>6 DEF ConsumeRestart, Goto
  <2>2. restart' \in BOOLEAN
    BY <1>6, Zenon DEF ConsumeRestart
  <2> QED
    BY <1>6, <2>1, <2>2 DEF ConsumeRestart
<1>7. ASSUME NEW p \in Runners, Reload(p) PROVE HandoffTypeOK'
  BY <1>7 DEF Reload, Goto
<1>8. ASSUME NEW p \in Runners, PublishStop(p) PROVE HandoffTypeOK'
  BY <1>8 DEF PublishStop, Goto
<1>9. ASSUME NEW p \in Runners, ConsumeStop(p) PROVE HandoffTypeOK'
  <2>1. rpc' \in [Runners -> RunnerPC] /\ verdict' \in [Runners -> Verdicts]
    BY <1>9 DEF ConsumeStop, Goto
  <2>2. stop' \in BOOLEAN
    BY <1>9, Zenon DEF ConsumeStop
  <2> QED
    BY <1>9, <2>1, <2>2 DEF ConsumeStop
<1>10. ASSUME NEW p \in Runners, NoMarker(p) PROVE HandoffTypeOK'
  BY <1>10 DEF NoMarker, Goto
<1>11. ASSUME NEW p \in Runners, Wave(p) PROVE HandoffTypeOK'
  BY <1>11 DEF Wave, Goto
<1>12. ASSUME NEW p \in Runners, NothingReady(p) PROVE HandoffTypeOK'
  BY <1>12 DEF NothingReady, Goto
<1>13. ASSUME NEW p \in Runners, CommitGate(p) PROVE HandoffTypeOK'
  <2>1. rpc' \in [Runners -> RunnerPC]
    BY <1>13 DEF CommitGate, Goto
  <2>2. gate' \in Nat
    BY <1>13 DEF CommitGate, Graphs
  <2> QED
    BY <1>13, <2>1, <2>2 DEF CommitGate
<1>14. ASSUME NEW p \in Runners, Park(p) PROVE HandoffTypeOK'
  BY <1>14 DEF Park, Goto
<1>15. ASSUME NEW p \in Runners, OwnerTurnEnds(p) PROVE HandoffTypeOK'
  BY <1>15 DEF OwnerTurnEnds, Goto
<1>16. ASSUME NEW p \in Runners, Recheck(p) PROVE HandoffTypeOK'
  BY <1>16 DEF Recheck, Goto
<1>17. ASSUME NEW p \in Runners, Finalize(p) PROVE HandoffTypeOK'
  BY <1>17 DEF Finalize, Goto
<1>18. ASSUME NEW p \in Runners, FinalizeEnds(p) PROVE HandoffTypeOK'
  BY <1>18 DEF FinalizeEnds, Goto
<1>19. ASSUME NEW p \in Runners, ReleaseTerminalLock(p) PROVE HandoffTypeOK'
  BY <1>19 DEF ReleaseTerminalLock, Goto, LetGoOfLock
<1>20. ASSUME NEW p \in Runners, FenceWatch(p) PROVE HandoffTypeOK'
  BY <1>20 DEF FenceWatch, Goto
<1>21. ASSUME NEW p \in Runners, FenceSeesSuccessor(p) PROVE HandoffTypeOK'
  BY <1>21 DEF FenceSeesSuccessor, Goto, Yield
<1>22. ASSUME NEW p \in Runners, FenceAgain(p) PROVE HandoffTypeOK'
  BY <1>22 DEF FenceAgain, Goto
<1>23. ASSUME NEW p \in Runners, Reacquire(p) PROVE HandoffTypeOK'
  BY <1>23 DEF Reacquire, Goto
<1>24. ASSUME NEW p \in Runners, ReacquireRefused(p) PROVE HandoffTypeOK'
  BY <1>24 DEF ReacquireRefused, Goto, Yield
<1>25. ASSUME NEW p \in Runners, Leave(p) PROVE HandoffTypeOK'
  BY <1>25 DEF Leave, Goto
<1>26. ASSUME NEW p \in Runners, Record(p) PROVE HandoffTypeOK'
  BY <1>26 DEF Record, Goto
<1>27. ASSUME NEW p \in Runners, Exit(p) PROVE HandoffTypeOK'
  <2>1. /\ rpc' \in [Runners -> RunnerPC]
        /\ mem' \in [Runners -> Graphs]
        /\ verdict' \in [Runners -> Verdicts]
        /\ watcher' \in [Runners -> {"off", "on", "sweep"}]
    BY <1>27, NoGraphIsAGraph DEF Exit, Ends, Goto
  <2>2. lock' \in Runners \cup Observers \cup {NoOne}
    BY <1>27 DEF Exit, Ends, LetGoOfLock
  <2> QED
    BY <1>27, <2>1, <2>2 DEF Exit
<1>28. ASSUME NEW p \in Runners, FenceDeadline(p) PROVE HandoffTypeOK'
  BY <1>28 DEF FenceDeadline, Goto
<1>29. ASSUME NEW p \in Runners, Crash(p) PROVE HandoffTypeOK'
  <2>1. /\ rpc' \in [Runners -> RunnerPC]
        /\ mem' \in [Runners -> Graphs]
        /\ verdict' \in [Runners -> Verdicts]
        /\ watcher' \in [Runners -> {"off", "on", "sweep"}]
    BY <1>29, NoGraphIsAGraph DEF Crash, Ends, Goto
  <2>2. lock' \in Runners \cup Observers \cup {NoOne}
    BY <1>29 DEF Crash, Ends, LetGoOfLock
  <2> QED
    BY <1>29, <2>1, <2>2 DEF Crash
<1>30. ASSUME NEW p \in Runners, WatcherSees(p) PROVE HandoffTypeOK'
  BY <1>30 DEF WatcherSees, Goto
<1>31. ASSUME NEW p \in Runners, WatcherSwept(p) PROVE HandoffTypeOK'
  BY <1>31 DEF WatcherSwept, Goto
<1>32. ASSUME NEW d \in Doors, ReleaseStarts(d) PROVE HandoffTypeOK'
  BY <1>32 DEF ReleaseStarts, Step, Called
<1>33. ASSUME NEW d \in Doors, StopChecks(d) PROVE HandoffTypeOK'
  BY <1>33 DEF StopChecks, Answer, Step, Called
<1>34. ASSUME NEW d \in Doors, AmendStarts(d) PROVE HandoffTypeOK'
  BY <1>34 DEF AmendStarts, Step, Called
<1>35. ASSUME NEW d \in Doors, WaitStarts(d) PROVE HandoffTypeOK'
  BY <1>35 DEF WaitStarts, Step, Called
<1>36. ASSUME NEW d \in Doors, ReleaseOuterCheck(d) PROVE HandoffTypeOK'
  BY <1>36 DEF ReleaseOuterCheck, Answer, Step
<1>37. ASSUME NEW d \in Doors, ReleaseLocksGraph(d) PROVE HandoffTypeOK'
  BY <1>37 DEF ReleaseLocksGraph, Answer, Step
<1>38. ASSUME NEW d \in Doors, ReleaseReadsMarker(d) PROVE HandoffTypeOK'
  BY <1>38 DEF ReleaseReadsMarker, Answer, Step
<1>39. ASSUME NEW d \in Doors, ReleaseReadsState(d) PROVE HandoffTypeOK'
  BY <1>39 DEF ReleaseReadsState, Answer, Step
<1>40. ASSUME NEW d \in Doors, ReleaseWrites(d) PROVE HandoffTypeOK'
  <2>1. dpc' \in [Doors -> DoorPC]
    BY <1>40 DEF ReleaseWrites, Step
  <2>2. answer' \in Nat
    BY <1>40 DEF ReleaseWrites, Graphs
  <2> QED
    BY <1>40, <2>1, <2>2 DEF ReleaseWrites
<1>41. ASSUME NEW d \in Doors, StopMarks(d) PROVE HandoffTypeOK'
  BY <1>41 DEF StopMarks, Answer, Step
<1>42. ASSUME NEW d \in Doors, AmendSwaps(d) PROVE HandoffTypeOK'
  <2>1. dpc' \in [Doors -> DoorPC]
    BY <1>42 DEF AmendSwaps, Step
  <2>2. PICK n \in {"gate", "work"} : graph' = [graph EXCEPT ![n] = @ + 1]
    BY <1>42 DEF AmendSwaps
  <2>3. graph' \in Graphs
    BY <2>2 DEF Graphs
  <2> QED
    BY <1>42, <2>1, <2>3 DEF AmendSwaps
<1>43. ASSUME NEW d \in Doors, AmendLogs(d) PROVE HandoffTypeOK'
  BY <1>43 DEF AmendLogs, Answer, Step
<1>44. ASSUME NEW d \in Doors, AmendMarks(d) PROVE HandoffTypeOK'
  BY <1>44 DEF AmendMarks, Answer, Step
<1>45. ASSUME NEW d \in Doors, ResumeSeesDeath(d) PROVE HandoffTypeOK'
  BY <1>45 DEF ResumeSeesDeath, Answer, Step
<1>46. ASSUME NEW d \in Doors, ResumeGivesUp(d) PROVE HandoffTypeOK'
  BY <1>46 DEF ResumeGivesUp, Answer, Step
<1>47. ASSUME NEW d \in Doors, AfterDeath(d) PROVE HandoffTypeOK'
  BY <1>47 DEF AfterDeath, Answer, Step
<1>48. ASSUME NEW d \in Doors, WaitRespawns(d) PROVE HandoffTypeOK'
  BY <1>48 DEF WaitRespawns, Answer, Step
<1>49. ASSUME NEW d \in Doors, WaitReports(d) PROVE HandoffTypeOK'
  BY <1>49 DEF WaitReports, Answer, Step
<1>50. ASSUME NEW d \in Doors, Respawn(d) PROVE HandoffTypeOK'
  BY <1>50 DEF Respawn, Answer, Step
<1>51. ASSUME NEW d \in Doors, Reap(d) PROVE HandoffTypeOK'
  BY <1>51 DEF Reap, Answer, Step
<1>52. ASSUME NEW d \in Doors, Spawn(d) PROVE HandoffTypeOK'
  <2>1. (CHOOSE p \in Unborn : TRUE) \in Unborn
    <3> HIDE DEF HandoffTypeOK
    <3>1. \E p \in Unborn : TRUE
      BY <1>52 DEF Spawn
    <3> QED
      BY <3>1, Zenon
  <2>2. rpc' \in [Runners -> RunnerPC]
    BY <1>52, <2>1 DEF Spawn, Unborn
  <2>3. dpc' \in [Doors -> DoorPC] /\ reply' \in [Doors -> Replies]
    BY <1>52 DEF Spawn, Answer, Step
  <2> QED
    BY <1>52, <2>2, <2>3 DEF Spawn
<1>53. ASSUME NEW o \in Observers, ProbeTakes(o) \/ ProbeDrops(o) PROVE HandoffTypeOK'
  BY <1>53 DEF ProbeTakes, ProbeDrops
<1>54. CASE UNCHANGED vars
  BY <1>54 DEF vars
<1> HIDE DEF HandoffTypeOK, disk, runners, doors, history
<1>55. ASSUME NEW p \in Runners, RunnerStep(p) PROVE HandoffTypeOK'
  BY Zenon, <1>55, <1>1, <1>2, <1>3, <1>4, <1>5, <1>6, <1>7, <1>8, <1>9, <1>10, <1>11, <1>12, <1>13,
     <1>14, <1>15, <1>16, <1>17, <1>18, <1>19, <1>20, <1>21, <1>22, <1>23, <1>24, <1>25, <1>26, <1>27 DEF RunnerStep
<1>56. ASSUME NEW d \in Doors, Calls(d) \/ DoorStep(d) PROVE HandoffTypeOK'
  BY Zenon, <1>56, <1>32, <1>33, <1>34, <1>35, <1>36, <1>37, <1>38, <1>39, <1>40, <1>41, <1>42,
     <1>43, <1>44, <1>45, <1>46, <1>47, <1>48, <1>49, <1>50, <1>51, <1>52 DEF Calls, DoorStep
<1>100. scene.observers \subseteq Observers /\ scene.orphans \subseteq Runners
  BY Cast DEF HandoffTypeOK
<1> QED
  BY Zenon, <1>28, <1>29, <1>30, <1>31, <1>53, <1>54, <1>55, <1>56, <1>100 DEF Next

-----------------------------------------------------------------------------
(* Mutual exclusion of the drivers.  With the type invariant it is          *)
(* inductive: a step that makes p drive either takes a lock nobody holds    *)
(* or starts from a driving p, and the lock goes only with its holder.      *)

\* A step that leaves the lock alone and moves only p, to a place where it
\* drives only if it drove before, keeps the invariant.
LEMMA StayingDriver ==
  ASSUME HandoffTypeOK, DriverHoldsLock, NEW p \in Runners, NEW to \in RunnerPC,
         rpc' = [rpc EXCEPT ![p] = to], UNCHANGED lock,
         to \in {"gone", "dying", "leave", "record", "fence", "watch", "again", "probe",
                 "reacquire", "boot"} \/ Driving(p)
  PROVE  DriverHoldsLock'
<1> SUFFICES ASSUME NEW q \in Runners, Driving(q)' PROVE lock' = q
  BY DEF DriverHoldsLock
<1>1. CASE q = p
  BY <1>1 DEF DriverHoldsLock, Driving, HandoffTypeOK, Sites
<1>2. CASE q # p
  BY <1>2 DEF DriverHoldsLock, Driving, HandoffTypeOK
<1> QED
  BY <1>1, <1>2

\* A step that takes a lock nobody holds, for p alone to drive.
LEMMA TakingDriver ==
  ASSUME HandoffTypeOK, DriverHoldsLock, NEW p \in Runners, NEW to,
         rpc' = [rpc EXCEPT ![p] = to], lock = NoOne, lock' = p
  PROVE  DriverHoldsLock'
BY HandoffConstants DEF DriverHoldsLock, Driving, HandoffTypeOK

\* A step in which p lets go of its lock and drives no longer.
LEMMA LeavingDriver ==
  ASSUME HandoffTypeOK, DriverHoldsLock, NEW p \in Runners, NEW to \in {"gone", "watch"},
         rpc' = [rpc EXCEPT ![p] = to], LetGoOfLock(p)
  PROVE  DriverHoldsLock'
BY HandoffConstants DEF DriverHoldsLock, Driving, HandoffTypeOK, LetGoOfLock, Sites

\* A step that leaves the lock and the runners alone.
LEMMA StandingDriver ==
  ASSUME DriverHoldsLock, UNCHANGED <<lock, rpc>> PROVE DriverHoldsLock'
BY DEF DriverHoldsLock, Driving

LEMMA DriverStep == HandoffTypeOK /\ DriverHoldsLock /\ [Next]_vars => DriverHoldsLock'
<1> SUFFICES ASSUME HandoffTypeOK, DriverHoldsLock, [Next]_vars PROVE DriverHoldsLock'
  OBVIOUS
<1> USE HandoffConstants
<1>1. ASSUME NEW p \in Runners, Admit(p) PROVE DriverHoldsLock'
  BY <1>1, TakingDriver DEF Admit, Goto
<1>2. ASSUME NEW p \in Runners, Reacquire(p) PROVE DriverHoldsLock'
  BY <1>2, TakingDriver DEF Reacquire, Goto
<1>3. ASSUME NEW p \in Runners, ReleaseTerminalLock(p) PROVE DriverHoldsLock'
  BY <1>3, LeavingDriver DEF ReleaseTerminalLock, Goto
<1>4. ASSUME NEW p \in Runners, Exit(p) PROVE DriverHoldsLock'
  BY <1>4, LeavingDriver DEF Exit, Ends, Goto
<1>5. ASSUME NEW p \in Runners, Crash(p) PROVE DriverHoldsLock'
  BY <1>5, LeavingDriver DEF Crash, Ends, Goto
<1>6. ASSUME NEW p \in Runners, RetireDuplicate(p) PROVE DriverHoldsLock'
  BY <1>6, StayingDriver DEF RetireDuplicate, Goto, Driving, Sites, RunnerPC
<1>7. ASSUME NEW p \in Runners, PassDuplicateCheck(p) PROVE DriverHoldsLock'
  BY <1>7, StayingDriver DEF PassDuplicateCheck, Goto, Driving, Sites, RunnerPC
<1>8. ASSUME NEW p \in Runners, BootRunner(p) PROVE DriverHoldsLock'
  BY <1>8, StayingDriver DEF BootRunner, Goto, Driving, Sites, RunnerPC
<1>9. ASSUME NEW p \in Runners, ConsumeRestart(p) PROVE DriverHoldsLock'
  BY <1>9, StayingDriver DEF ConsumeRestart, Goto, Driving, Sites, RunnerPC
<1>10. ASSUME NEW p \in Runners, Reload(p) PROVE DriverHoldsLock'
  BY <1>10, StayingDriver DEF Reload, Goto, Driving, Sites, RunnerPC
<1>11. ASSUME NEW p \in Runners, PublishStop(p) PROVE DriverHoldsLock'
  BY <1>11, StayingDriver DEF PublishStop, Goto, Driving, Sites, RunnerPC
<1>12. ASSUME NEW p \in Runners, ConsumeStop(p) PROVE DriverHoldsLock'
  BY <1>12, StayingDriver DEF ConsumeStop, Goto, Driving, Sites, RunnerPC
<1>13. ASSUME NEW p \in Runners, NoMarker(p) PROVE DriverHoldsLock'
  BY <1>13, StayingDriver DEF NoMarker, Goto, Driving, Sites, RunnerPC
<1>14. ASSUME NEW p \in Runners, Wave(p) PROVE DriverHoldsLock'
  BY <1>14, StayingDriver DEF Wave, Goto, Driving, Sites, RunnerPC
<1>15. ASSUME NEW p \in Runners, NothingReady(p) PROVE DriverHoldsLock'
  BY <1>15, StayingDriver DEF NothingReady, Goto, Driving, Sites, RunnerPC
<1>16. ASSUME NEW p \in Runners, CommitGate(p) PROVE DriverHoldsLock'
  BY <1>16, StayingDriver DEF CommitGate, Goto, Driving, Sites, RunnerPC
<1>17. ASSUME NEW p \in Runners, Park(p) PROVE DriverHoldsLock'
  BY <1>17, StayingDriver DEF Park, Goto, Driving, Sites, RunnerPC
<1>18. ASSUME NEW p \in Runners, OwnerTurnEnds(p) PROVE DriverHoldsLock'
  BY <1>18, StayingDriver DEF OwnerTurnEnds, Goto, Driving, Sites, RunnerPC
<1>19. ASSUME NEW p \in Runners, Recheck(p) PROVE DriverHoldsLock'
  BY <1>19, StayingDriver DEF Recheck, Goto, Driving, Sites, RunnerPC
<1>20. ASSUME NEW p \in Runners, Finalize(p) PROVE DriverHoldsLock'
  BY <1>20, StayingDriver DEF Finalize, Goto, Driving, Sites, RunnerPC
<1>21. ASSUME NEW p \in Runners, FinalizeEnds(p) PROVE DriverHoldsLock'
  BY <1>21, StayingDriver DEF FinalizeEnds, Goto, Driving, Sites, RunnerPC
<1>22. ASSUME NEW p \in Runners, FenceWatch(p) PROVE DriverHoldsLock'
  BY <1>22, StayingDriver DEF FenceWatch, Goto, Driving, Sites, RunnerPC
<1>23. ASSUME NEW p \in Runners, FenceSeesSuccessor(p) PROVE DriverHoldsLock'
  BY <1>23, StayingDriver DEF FenceSeesSuccessor, Goto, Yield, Driving, Sites, RunnerPC
<1>24. ASSUME NEW p \in Runners, FenceAgain(p) PROVE DriverHoldsLock'
  BY <1>24, StayingDriver DEF FenceAgain, Goto, Driving, Sites, RunnerPC
<1>25. ASSUME NEW p \in Runners, ReacquireRefused(p) PROVE DriverHoldsLock'
  BY <1>25, StayingDriver DEF ReacquireRefused, Goto, Yield, Driving, Sites, RunnerPC
<1>26. ASSUME NEW p \in Runners, Leave(p) PROVE DriverHoldsLock'
  BY <1>26, StayingDriver DEF Leave, Goto, Driving, Sites, RunnerPC
<1>27. ASSUME NEW p \in Runners, Record(p) PROVE DriverHoldsLock'
  BY <1>27, StayingDriver DEF Record, Goto, Driving, Sites, RunnerPC
<1>28. ASSUME NEW p \in Runners, Busy(p) PROVE DriverHoldsLock'
  BY <1>28, StayingDriver DEF Busy, Goto, Driving, Sites, RunnerPC
<1>29. ASSUME NEW p \in Runners, FenceDeadline(p) PROVE DriverHoldsLock'
  BY <1>29, StayingDriver DEF FenceDeadline, Goto, Driving, Sites, RunnerPC
<1>30. ASSUME NEW p \in Runners, WatcherSees(p) \/ WatcherSwept(p) PROVE DriverHoldsLock'
  BY <1>30, StandingDriver DEF WatcherSees, WatcherSwept
<1>31. ASSUME NEW d \in Doors, Calls(d) PROVE DriverHoldsLock'
  BY <1>31, StandingDriver DEF Calls, ReleaseStarts, StopChecks, AmendStarts, WaitStarts, runners
<1>32. ASSUME NEW d \in Doors, Spawn(d) PROVE DriverHoldsLock'
  <2>1. (CHOOSE p \in Unborn : TRUE) \in Unborn
    BY <1>32, Zenon DEF Spawn
  <2> QED
    BY <1>32, <2>1, StayingDriver DEF Spawn, Unborn, RunnerPC
<1>33. ASSUME NEW d \in Doors,
            \/ ReleaseOuterCheck(d) \/ ReleaseLocksGraph(d) \/ ReleaseReadsMarker(d) \/ ReleaseReadsState(d)
            \/ ReleaseWrites(d) \/ StopMarks(d) \/ AmendSwaps(d) \/ AmendLogs(d)
            \/ AmendMarks(d)
     PROVE DriverHoldsLock'
  BY <1>33, StandingDriver DEF ReleaseOuterCheck, ReleaseLocksGraph, ReleaseReadsMarker, ReleaseReadsState, ReleaseWrites, StopMarks, AmendSwaps, AmendLogs, AmendMarks, runners
<1>34. ASSUME NEW d \in Doors,
            \/ ResumeSeesDeath(d) \/ ResumeGivesUp(d) \/ AfterDeath(d) \/ WaitRespawns(d)
            \/ WaitReports(d) \/ Respawn(d) \/ Reap(d)
     PROVE DriverHoldsLock'
  BY <1>34, StandingDriver DEF ResumeSeesDeath, ResumeGivesUp, AfterDeath, WaitRespawns, WaitReports, Respawn, Reap, runners
<1>35. ASSUME NEW o \in Observers, ProbeTakes(o) \/ ProbeDrops(o) PROVE DriverHoldsLock'
  BY <1>35 DEF ProbeTakes, ProbeDrops, DriverHoldsLock, Driving
<1>36. CASE UNCHANGED vars
  BY <1>36, StandingDriver DEF vars, runners
<1>37. ASSUME NEW p \in Runners, RunnerStep(p) PROVE DriverHoldsLock'
  BY Zenon, <1>37, <1>1, <1>2, <1>3, <1>4, <1>6, <1>7, <1>8, <1>9, <1>10, <1>11, <1>12, <1>13,
     <1>14, <1>15, <1>16, <1>17, <1>18, <1>19, <1>20, <1>21, <1>22, <1>23, <1>24, <1>25, <1>26, <1>27, <1>28 DEF RunnerStep
<1>38. ASSUME NEW d \in Doors, DoorStep(d) PROVE DriverHoldsLock'
  BY Zenon, <1>38, <1>32, <1>33, <1>34 DEF DoorStep
<1>100. scene.observers \subseteq Observers /\ scene.orphans \subseteq Runners
  BY Cast DEF HandoffTypeOK
<1> QED
  BY Zenon, <1>5, <1>29, <1>30, <1>31, <1>35, <1>36, <1>37, <1>38, <1>100 DEF Next

-----------------------------------------------------------------------------

\* Every variable keeps its type, for any number of runners, doors and observers.
THEOREM HandoffTypeCorrect == Spec => []HandoffTypeOK
<1>1. Init => HandoffTypeOK
  BY HandoffInitType
<1>2. HandoffTypeOK /\ [Next]_vars => HandoffTypeOK'
  BY HandoffStepType
<1> QED
  BY <1>1, <1>2, PTL DEF Spec

\* Whoever drives the run holds its lock, through every release and
\* re-admission of the terminal fence and with probes that take the flock.
THEOREM DriversHoldTheLock == Spec => []DriverHoldsLock
<1>1. Init => DriverHoldsLock
  BY HandoffConstants DEF Init, DriverHoldsLock, Driving, Sites
<1>2. HandoffTypeOK /\ DriverHoldsLock /\ [Next]_vars => DriverHoldsLock'
  BY DriverStep
<1> QED
  BY <1>1, <1>2, HandoffTypeCorrect, PTL DEF Spec

-----------------------------------------------------------------------------
(* The verdicts of a run.                                                  *)


\* Where a runner has a graph and may come to write records.
Rounds == {"top", "reload", "unlink", "wave", "boundary", "decide", "notify", "parked", "recheck",
           "finalize", "fence"}
FenceLoop == {"watch", "again", "probe", "reacquire"}
Unloaded == {"unborn", "boot", "admitted", "booting", "gone"}
\* Where a verdict is on its way into the exit record.
Settling == {"notify", "parked", "recheck", "finalize", "fence", "leave", "record"} \cup FenceLoop

Behind(g) == g.gate <= graph.gate /\ g.work <= graph.work

\* Nothing is of a graph that is yet to come.
VersionsGrow ==
  /\ 1 <= graph.gate
  /\ gate <= answer /\ answer <= graph.gate
  /\ Behind(work.efp) /\ Behind(exit.graph) /\ \A p \in Runners : Behind(mem[p])

\* Fences are outside of the lock, and a runner that recorded its verdict under the lock left
\* no fence open.
FencesAreOutside ==
  \A p \in Runners :
    /\ rpc[p] = "fence" => lock = p
    /\ rpc[p] \in FenceLoop => lock # p
    /\ rpc[p] \in Unloaded => mem[p] = NoGraph
    /\ rpc[p] = "dying" /\ lock = p => mem[p] = NoGraph \/ \A q \in Runners : ~ InFence(q)

\* A runner with an old graph cannot drive once a record of the new one exists: it is in a fence,
\* and the runner with the new graph holds the lock.
StaleIsShutOut ==
  \A p \in Runners :
    rpc[p] \in Rounds \cup FenceLoop /\ mem[p] # graph /\ work.efp = graph
      => InFence(p) /\ lock \in Runners /\ mem[lock] = graph

TrueOf(reason) ==
  /\ reason = "done" => GateDone(graph) /\ WorkStatus(graph) = "done"
  /\ reason = "blocked" => WorkStatus(graph) = "failed"

ClaimsAreTrue ==
  /\ exit.graph = graph => TrueOf(exit.reason)
  /\ \A p \in Runners : rpc[p] \in Settling /\ mem[p] = graph => TrueOf(verdict[p])

VerdictInv == VersionsGrow /\ FencesAreOutside /\ StaleIsShutOut /\ ClaimsAreTrue
AllInv == HandoffTypeOK /\ DriverHoldsLock /\ VerdictInv

-----------------------------------------------------------------------------

LEMMA VerdictInit == Init => VerdictInv
<1> SUFFICES ASSUME Init PROVE VerdictInv
  OBVIOUS
<1> USE HandoffConstants
<1> USE DEF Init, NoGraph
<1>1. VersionsGrow
  BY DEF VersionsGrow, Behind
<1>2. FencesAreOutside
  BY DEF FencesAreOutside, FenceLoop, Unloaded, InFence
<1>3. StaleIsShutOut
  BY DEF StaleIsShutOut
<1>4. ClaimsAreTrue
  BY DEF ClaimsAreTrue, Settling, FenceLoop
<1> QED
  BY <1>1, <1>2, <1>3, <1>4 DEF VerdictInv

\* A step that touches neither records nor runners.
LEMMA Standing ==
  ASSUME VerdictInv, UNCHANGED <<graph, answer, gate, work, exit, lock, rpc, mem, verdict>>
  PROVE  VerdictInv'
BY DEF VerdictInv, VersionsGrow, Behind, FencesAreOutside, InFence, StaleIsShutOut, ClaimsAreTrue,
       TrueOf, GateDone, WorkStatus

\* A step in which one runner moves, and may settle on a verdict that is true.
LEMMA Moving ==
  ASSUME AllInv, NEW p \in Runners, NEW to \in RunnerPC,
         rpc' = [rpc EXCEPT ![p] = to],
         \A q \in Runners \ {p} : verdict'[q] = verdict[q],
         UNCHANGED <<graph, answer, gate, work, exit, lock, mem>>,
         to \in Rounds => rpc[p] \in Rounds,
         to \in FenceLoop => rpc[p] \in FenceLoop,
         to = "fence" => lock = p,
         to \in Unloaded => mem[p] = NoGraph,
         to \in {"leave", "record"} => rpc[p] \in FenceLoop \cup {"leave"} \/ lock = p,
         to = "dying" /\ lock = p => mem[p] = NoGraph \/ \A q \in Runners : ~ InFence(q),
         to \in Settling => (rpc[p] \in Settling /\ verdict'[p] = verdict[p]) \/ (mem[p] = graph => TrueOf(verdict'[p]))
  PROVE  VerdictInv'
<1> USE DEF AllInv, VerdictInv, HandoffTypeOK
<1>1. VersionsGrow'
  BY DEF VersionsGrow, Behind
<1>2. \A q \in Runners : InFence(q)' => InFence(q)
  BY DEF InFence, FenceLoop, FencesAreOutside
<1>3. FencesAreOutside'
  BY <1>2 DEF FencesAreOutside
<1>4. StaleIsShutOut'
  BY DEF StaleIsShutOut, InFence, FenceLoop, Rounds
<1>5. ClaimsAreTrue'
  BY DEF ClaimsAreTrue, TrueOf, GateDone, WorkStatus
<1> QED
  BY <1>1, <1>3, <1>4, <1>5

\* Every step of a runner, a door or the system keeps what the verdicts rest on.
LEMMA VerdictStep == ~ Stalls /\ AllInv /\ [Next]_vars => VerdictInv'
<1> SUFFICES ASSUME ~ Stalls, AllInv, [Next]_vars PROVE VerdictInv'
  OBVIOUS
<1> USE HandoffConstants
<1> USE DEF disk, runners, doors, history
<1>1. ASSUME NEW p \in Runners, Admit(p) PROVE VerdictInv'
  <2> USE <1>1 DEF Admit, Goto, AllInv, VerdictInv, HandoffTypeOK
  <2>1. VersionsGrow'
    BY DEF VersionsGrow, Behind
  <2>2. FencesAreOutside'
    BY DEF FencesAreOutside, FenceLoop, Unloaded
  <2>3. StaleIsShutOut'
    BY DEF StaleIsShutOut, Rounds, FenceLoop
  <2>4. ClaimsAreTrue'
    BY DEF ClaimsAreTrue, Settling, FenceLoop, TrueOf, GateDone, WorkStatus
  <2> QED
    BY <2>1, <2>2, <2>3, <2>4
<1>2. ASSUME NEW p \in Runners, Reacquire(p) PROVE VerdictInv'
  <2> USE <1>2 DEF Reacquire, Goto, AllInv, VerdictInv, HandoffTypeOK
  <2>1. VersionsGrow'
    BY DEF VersionsGrow, Behind
  <2>2. FencesAreOutside'
    BY DEF FencesAreOutside, FenceLoop, Unloaded, InFence
  <2>3. StaleIsShutOut'
    BY DEF StaleIsShutOut, Rounds, FenceLoop
  <2>4. ClaimsAreTrue'
    BY DEF ClaimsAreTrue, Settling, FenceLoop, TrueOf, GateDone, WorkStatus
  <2> QED
    BY <2>1, <2>2, <2>3, <2>4
<1>3. ASSUME NEW p \in Runners, ReleaseTerminalLock(p) PROVE VerdictInv'
  <2> USE <1>3 DEF ReleaseTerminalLock, LetGoOfLock, FencesOver, Goto, AllInv, VerdictInv, HandoffTypeOK
  <2>0. lock = p /\ \A q \in Runners : ~ InFence(q)
    BY DEF FencesAreOutside
  <2>1. VersionsGrow'
    BY DEF VersionsGrow, Behind
  <2>2. FencesAreOutside'
    BY <2>0 DEF FencesAreOutside, FenceLoop, Unloaded
  <2>3. StaleIsShutOut'
    BY <2>0 DEF StaleIsShutOut, Rounds, FenceLoop
  <2>4. ClaimsAreTrue'
    BY DEF ClaimsAreTrue, Settling, FenceLoop, TrueOf, GateDone, WorkStatus
  <2> QED
    BY <2>1, <2>2, <2>3, <2>4
<1>4. ASSUME NEW p \in Runners, BootRunner(p) PROVE VerdictInv'
  <2> USE <1>4 DEF BootRunner, Goto, AllInv, VerdictInv, HandoffTypeOK
  <2>0. lock = p /\ mem[p] = NoGraph /\ graph # NoGraph
    BY DEF DriverHoldsLock, Driving, FencesAreOutside, Unloaded, VersionsGrow, NoGraph
  <2>1. VersionsGrow'
    BY DEF VersionsGrow, Behind, NoGraph, Graphs
  <2>2. FencesAreOutside'
    BY <2>0 DEF FencesAreOutside, FenceLoop, Unloaded, InFence
  <2>3. StaleIsShutOut'
    BY <2>0 DEF StaleIsShutOut, Rounds, FenceLoop, InFence
  <2>4. ClaimsAreTrue'
    BY <2>0 DEF ClaimsAreTrue, Settling, FenceLoop, TrueOf, GateDone, WorkStatus
  <2> QED
    BY <2>1, <2>2, <2>3, <2>4
<1>5. ASSUME NEW p \in Runners, Reload(p) PROVE VerdictInv'
  <2> USE <1>5 DEF Reload, Goto, AllInv, VerdictInv, HandoffTypeOK
  <2>0. lock = p
    BY DEF DriverHoldsLock, Driving
  <2>1. VersionsGrow'
    BY DEF VersionsGrow, Behind, Graphs
  <2>2. FencesAreOutside'
    BY <2>0 DEF FencesAreOutside, FenceLoop, Unloaded, InFence
  <2>3. StaleIsShutOut'
    BY <2>0 DEF StaleIsShutOut, Rounds, FenceLoop, InFence
  <2>4. ClaimsAreTrue'
    BY <2>0 DEF ClaimsAreTrue, Settling, FenceLoop, TrueOf, GateDone, WorkStatus
  <2> QED
    BY <2>1, <2>2, <2>3, <2>4
<1>6. ASSUME NEW p \in Runners, Wave(p) PROVE VerdictInv'
  <2> USE <1>6 DEF Wave, Goto, AllInv, VerdictInv, HandoffTypeOK
  <2>0. lock = p
    BY DEF DriverHoldsLock, Driving
  <2>f. mem[p] # graph => work.efp # graph
    BY <2>0 DEF StaleIsShutOut, InFence, Rounds
  <2>1. VersionsGrow'
    BY DEF VersionsGrow, Behind, Graphs
  <2>2. FencesAreOutside'
    BY <2>0 DEF FencesAreOutside, FenceLoop, Unloaded, InFence
  <2>3. StaleIsShutOut'
    <3> SUFFICES ASSUME NEW q \in Runners, (rpc[q] \in Rounds \cup FenceLoop)', mem[q] # graph,
                        (work.efp = graph)'
                 PROVE  InFence(q)' /\ lock \in Runners /\ mem[lock] = graph
      BY DEF StaleIsShutOut
    <3>1. mem[p] = graph
      BY <2>f
    <3>2. q # p /\ rpc[q] \in Rounds \cup FenceLoop
      BY <3>1
    <3>3. rpc[q] \in FenceLoop
      BY <2>0, <3>2 DEF Rounds, FencesAreOutside, DriverHoldsLock, Driving, Sites
    <3> QED
      BY <2>0, <3>1, <3>2, <3>3 DEF InFence, FenceLoop
  <2>4. ClaimsAreTrue'
    BY <2>0, <2>f DEF ClaimsAreTrue, Settling, FenceLoop, TrueOf, GateDone, WorkStatus, WorkReady
  <2> QED
    BY <2>1, <2>2, <2>3, <2>4
<1>7. ASSUME NEW p \in Runners, CommitGate(p) PROVE VerdictInv'
  <2> USE <1>7 DEF CommitGate, Goto, AllInv, VerdictInv, HandoffTypeOK
  <2>0. lock = p
    BY DEF DriverHoldsLock, Driving
  <2>f. mem[p] # graph => work.efp # graph
    BY <2>0 DEF StaleIsShutOut, InFence, Rounds
  <2>1. VersionsGrow'
    BY DEF VersionsGrow, Behind, Answered
  <2>2. FencesAreOutside'
    BY <2>0 DEF FencesAreOutside, FenceLoop, Unloaded, InFence
  <2>3. StaleIsShutOut'
    BY <2>0 DEF StaleIsShutOut, Rounds, FenceLoop, InFence
  <2>4. ClaimsAreTrue'
    BY <2>0, <2>f DEF ClaimsAreTrue, Settling, FenceLoop, TrueOf, GateDone, WorkStatus
  <2> QED
    BY <2>1, <2>2, <2>3, <2>4
<1>8. ASSUME NEW p \in Runners, Record(p) PROVE VerdictInv'
  <2> USE <1>8 DEF Record, Goto, AllInv, VerdictInv, HandoffTypeOK
  <2>1. VersionsGrow'
    BY DEF VersionsGrow, Behind, Graphs
  <2>2. FencesAreOutside'
    BY DEF FencesAreOutside, FenceLoop, Unloaded, InFence, FencesOver
  <2>3. StaleIsShutOut'
    BY DEF StaleIsShutOut, Rounds, FenceLoop, InFence
  <2>4. ClaimsAreTrue'
    BY DEF ClaimsAreTrue, Settling, FenceLoop, TrueOf, GateDone, WorkStatus
  <2> QED
    BY <2>1, <2>2, <2>3, <2>4
<1>9. ASSUME NEW p \in Runners, Exit(p) \/ Crash(p) PROVE VerdictInv'
  <2> USE DEF AllInv, VerdictInv, HandoffTypeOK
  <2>0. Ends(p) /\ UNCHANGED disk /\ (lock = p => mem[p] = NoGraph \/ \A q \in Runners : ~ InFence(q))
    BY <1>9 DEF Exit, Crash, FencesOver, FencesAreOutside
  <2>5. graph # NoGraph
    BY DEF VersionsGrow, NoGraph
  <2> USE DEF Ends, LetGoOfLock, Goto
  <2>1. VersionsGrow'
    BY <2>0 DEF VersionsGrow, Behind, NoGraph, Graphs
  <2>2. FencesAreOutside'
    BY <2>0 DEF FencesAreOutside, FenceLoop, Unloaded, InFence
  <2>3. StaleIsShutOut'
    BY <2>0, <2>5 DEF StaleIsShutOut, Rounds, FenceLoop, InFence
  <2>4. ClaimsAreTrue'
    BY <2>0, <2>5 DEF ClaimsAreTrue, Settling, FenceLoop, TrueOf, GateDone, WorkStatus
  <2> QED
    BY <2>1, <2>2, <2>3, <2>4
<1>10. ASSUME NEW d \in Doors, ReleaseWrites(d) PROVE VerdictInv'
  <2> USE <1>10 DEF ReleaseWrites, AllInv, VerdictInv, HandoffTypeOK
  <2>1. VersionsGrow'
    BY DEF VersionsGrow, Behind, Graphs
  <2>2. FencesAreOutside' /\ StaleIsShutOut' /\ ClaimsAreTrue'
    BY DEF FencesAreOutside, StaleIsShutOut, ClaimsAreTrue, InFence, TrueOf, GateDone, WorkStatus
  <2> QED
    BY <2>1, <2>2
<1>11. ASSUME NEW d \in Doors, AmendSwaps(d) PROVE VerdictInv'
  <2> USE DEF AllInv, VerdictInv, HandoffTypeOK
  <2>0. PICK n \in {"gate", "work"} : graph' = [graph EXCEPT ![n] = @ + 1]
    BY <1>11 DEF AmendSwaps
  <2>5. UNCHANGED <<answer, gate, work, exit, lock, rpc, mem, verdict>>
    BY <1>11 DEF AmendSwaps
  <2>6. \A g \in Graphs : Behind(g) => g # graph' /\ g.gate <= graph'.gate /\ g.work <= graph'.work
    BY <2>0 DEF Behind, Graphs
  <2>7. graph.gate \in Nat /\ graph'.gate \in Nat /\ graph.gate <= graph'.gate
    BY <2>0 DEF Graphs
  <2>1. VersionsGrow'
    <3>1. 1 <= graph'.gate /\ gate <= answer /\ answer <= graph'.gate
      BY <2>5, <2>7 DEF VersionsGrow
    <3>2. \A g \in Graphs : Behind(g) => Behind(g)'
      BY <2>6 DEF Behind
    <3> QED
      BY <2>5, <3>1, <3>2 DEF VersionsGrow, Behind
  <2>2. FencesAreOutside'
    BY <2>5 DEF FencesAreOutside, InFence
  <2>3. StaleIsShutOut'
    BY <2>5, <2>6 DEF StaleIsShutOut, VersionsGrow
  <2>4. ClaimsAreTrue'
    BY <2>5, <2>6 DEF ClaimsAreTrue, VersionsGrow
  <2> QED
    BY <2>1, <2>2, <2>3, <2>4
<1>12. ASSUME NEW d \in Doors, Reap(d) PROVE VerdictInv'
  <2> USE <1>12 DEF Reap, AllInv, VerdictInv, HandoffTypeOK
  <2>1. VersionsGrow'
    BY DEF VersionsGrow, Behind, Graphs
  <2>2. FencesAreOutside' /\ StaleIsShutOut' /\ ClaimsAreTrue'
    BY DEF FencesAreOutside, StaleIsShutOut, ClaimsAreTrue, InFence, TrueOf, GateDone, WorkStatus
  <2> QED
    BY <2>1, <2>2
<1>13. ASSUME NEW d \in Doors, Spawn(d) PROVE VerdictInv'
  <2>1. PICK p \in Unborn : rpc' = [rpc EXCEPT ![p] = "boot"]
    <3>1. (CHOOSE p \in Unborn : TRUE) \in Unborn
      BY <1>13, Zenon DEF Spawn
    <3> QED
      BY <1>13, <3>1 DEF Spawn
  <2> QED
    BY <1>13, <2>1, Moving DEF Spawn, Unborn, AllInv, VerdictInv, FencesAreOutside, Unloaded,
       RunnerPC, Rounds, FenceLoop, Settling
<1>14. ASSUME NEW o \in Observers, ProbeTakes(o) \/ ProbeDrops(o) PROVE VerdictInv'
  <2> USE <1>14 DEF ProbeTakes, ProbeDrops, AllInv, VerdictInv, HandoffTypeOK
  <2>0. lock \notin Runners /\ lock' \notin Runners
    OBVIOUS
  <2>1. VersionsGrow'
    BY DEF VersionsGrow, Behind
  <2>2. FencesAreOutside'
    BY <2>0 DEF FencesAreOutside, InFence
  <2>3. StaleIsShutOut'
    BY <2>0 DEF StaleIsShutOut
  <2>4. ClaimsAreTrue'
    BY DEF ClaimsAreTrue, TrueOf, GateDone, WorkStatus
  <2> QED
    BY <2>1, <2>2, <2>3, <2>4
<1>15. ASSUME NEW p \in Runners, Busy(p) PROVE VerdictInv'
  BY <1>15, Moving DEF Busy, Goto, AllInv, VerdictInv, HandoffTypeOK, DriverHoldsLock, Driving, Sites,
     FencesAreOutside, RunnerPC, Rounds, FenceLoop, Unloaded, Settling, TrueOf
<1>16. ASSUME NEW p \in Runners, RetireDuplicate(p) PROVE VerdictInv'
  BY <1>16, Moving DEF RetireDuplicate, Goto, AllInv, VerdictInv, HandoffTypeOK, DriverHoldsLock, Driving, Sites,
     FencesAreOutside, RunnerPC, Rounds, FenceLoop, Unloaded, Settling, TrueOf
<1>17. ASSUME NEW p \in Runners, PassDuplicateCheck(p) PROVE VerdictInv'
  BY <1>17, Moving DEF PassDuplicateCheck, Goto, AllInv, VerdictInv, HandoffTypeOK, DriverHoldsLock, Driving, Sites,
     FencesAreOutside, RunnerPC, Rounds, FenceLoop, Unloaded, Settling, TrueOf
<1>18. ASSUME NEW p \in Runners, ConsumeRestart(p) PROVE VerdictInv'
  BY <1>18, Moving DEF ConsumeRestart, Goto, AllInv, VerdictInv, HandoffTypeOK, DriverHoldsLock, Driving, Sites,
     FencesAreOutside, RunnerPC, Rounds, FenceLoop, Unloaded, Settling, TrueOf
<1>19. ASSUME NEW p \in Runners, PublishStop(p) PROVE VerdictInv'
  BY <1>19, Moving DEF PublishStop, Goto, AllInv, VerdictInv, HandoffTypeOK, DriverHoldsLock, Driving, Sites,
     FencesAreOutside, RunnerPC, Rounds, FenceLoop, Unloaded, Settling, TrueOf
<1>20. ASSUME NEW p \in Runners, ConsumeStop(p) PROVE VerdictInv'
  <2>1. lock = p /\ rpc[p] = "unlink" /\ rpc' = [rpc EXCEPT ![p] = "leave"]
    BY <1>20 DEF ConsumeStop, Goto, AllInv, DriverHoldsLock, Driving
  <2>2. verdict'[p] = "stopped" /\ \A q \in Runners \ {p} : verdict'[q] = verdict[q]
    BY <1>20 DEF ConsumeStop, AllInv, HandoffTypeOK
  <2>3. UNCHANGED <<graph, answer, gate, work, exit, lock, mem>>
    BY <1>20 DEF ConsumeStop
  <2> QED
    BY <2>1, <2>2, <2>3, Moving DEF TrueOf, RunnerPC, Rounds, FenceLoop, Unloaded, Settling
<1>21. ASSUME NEW p \in Runners, NoMarker(p) PROVE VerdictInv'
  BY <1>21, Moving DEF NoMarker, Goto, AllInv, VerdictInv, HandoffTypeOK, DriverHoldsLock, Driving, Sites,
     FencesAreOutside, RunnerPC, Rounds, FenceLoop, Unloaded, Settling, TrueOf
<1>22. ASSUME NEW p \in Runners, NothingReady(p) PROVE VerdictInv'
  BY <1>22, Moving DEF NothingReady, Goto, AllInv, VerdictInv, HandoffTypeOK, DriverHoldsLock, Driving, Sites,
     FencesAreOutside, RunnerPC, Rounds, FenceLoop, Unloaded, Settling, TrueOf
<1>23. ASSUME NEW p \in Runners, Park(p) PROVE VerdictInv'
  <2>1. rpc[p] = "decide" /\ rpc' = [rpc EXCEPT ![p] = "notify"]
    BY <1>23 DEF Park, Goto
  <2>2. /\ \A q \in Runners \ {p} : verdict'[q] = verdict[q]
        /\ verdict'[p] = "held" \/ (verdict'[p] = "blocked" /\ WorkStatus(mem[p]) = "failed")
    BY <1>23 DEF Park, AllInv, HandoffTypeOK
  <2>3. mem[p] = graph => TrueOf(verdict'[p])
    BY <2>2 DEF TrueOf
  <2>4. UNCHANGED <<graph, answer, gate, work, exit, lock, mem>>
    BY <1>23 DEF Park
  <2> QED
    BY <2>1, <2>2, <2>3, <2>4, Moving DEF RunnerPC, Rounds, FenceLoop, Unloaded, Settling
<1>24. ASSUME NEW p \in Runners, OwnerTurnEnds(p) PROVE VerdictInv'
  BY <1>24, Moving DEF OwnerTurnEnds, Goto, AllInv, VerdictInv, HandoffTypeOK, DriverHoldsLock, Driving, Sites,
     FencesAreOutside, RunnerPC, Rounds, FenceLoop, Unloaded, Settling, TrueOf
<1>25. ASSUME NEW p \in Runners, Recheck(p) PROVE VerdictInv'
  BY <1>25, Moving DEF Recheck, Goto, AllInv, VerdictInv, HandoffTypeOK, DriverHoldsLock, Driving, Sites,
     FencesAreOutside, RunnerPC, Rounds, FenceLoop, Unloaded, Settling, TrueOf
<1>26. ASSUME NEW p \in Runners, Finalize(p) PROVE VerdictInv'
  <2>1. lock = p /\ rpc[p] = "decide" /\ rpc' = [rpc EXCEPT ![p] = "finalize"]
    BY <1>26 DEF Finalize, Goto, AllInv, DriverHoldsLock, Driving
  <2>2. /\ \A q \in Runners \ {p} : verdict'[q] = verdict[q]
        /\ verdict'[p] = "done" /\ GateDone(mem[p]) /\ WorkStatus(mem[p]) = "done"
    BY <1>26 DEF Finalize, AllInv, HandoffTypeOK
  <2>3. mem[p] = graph => TrueOf(verdict'[p])
    BY <2>2 DEF TrueOf
  <2>4. UNCHANGED <<graph, answer, gate, work, exit, lock, mem>>
    BY <1>26 DEF Finalize
  <2> QED
    BY <2>1, <2>2, <2>3, <2>4, Moving DEF RunnerPC, Rounds, FenceLoop, Unloaded, Settling
<1>27. ASSUME NEW p \in Runners, FinalizeEnds(p) PROVE VerdictInv'
  BY <1>27, Moving DEF FinalizeEnds, Goto, AllInv, VerdictInv, HandoffTypeOK, DriverHoldsLock, Driving, Sites,
     FencesAreOutside, RunnerPC, Rounds, FenceLoop, Unloaded, Settling, TrueOf
<1>28. ASSUME NEW p \in Runners, FenceWatch(p) PROVE VerdictInv'
  <2>1. PICK to \in {"reacquire", "probe"} : rpc' = [rpc EXCEPT ![p] = to]
    BY <1>28 DEF FenceWatch, Goto
  <2>2. rpc[p] \in {"watch", "again"} /\ UNCHANGED <<disk, lock, mem, verdict>>
    BY <1>28 DEF FenceWatch
  <2> QED
    BY <2>1, <2>2, Moving DEF disk, RunnerPC, Rounds, FenceLoop, Unloaded, Settling
<1>29. ASSUME NEW p \in Runners, FenceAgain(p) PROVE VerdictInv'
  BY <1>29, Moving DEF FenceAgain, Goto, AllInv, VerdictInv, HandoffTypeOK, DriverHoldsLock, Driving, Sites,
     FencesAreOutside, RunnerPC, Rounds, FenceLoop, Unloaded, Settling, TrueOf
<1>30. ASSUME NEW p \in Runners, FenceSeesSuccessor(p) PROVE VerdictInv'
  <2>1. rpc[p] \in FenceLoop /\ rpc' = [rpc EXCEPT ![p] = "leave"]
    BY <1>30 DEF FenceSeesSuccessor, Yield, Goto, FenceLoop
  <2>2. verdict'[p] = "none" /\ \A q \in Runners \ {p} : verdict'[q] = verdict[q]
    BY <1>30 DEF FenceSeesSuccessor, Yield, AllInv, HandoffTypeOK
  <2>3. UNCHANGED <<graph, answer, gate, work, exit, lock, mem>>
    BY <1>30 DEF FenceSeesSuccessor
  <2> QED
    BY <2>1, <2>2, <2>3, Moving DEF TrueOf, RunnerPC, Rounds, FenceLoop, Unloaded, Settling
<1>31. ASSUME NEW p \in Runners, ReacquireRefused(p) PROVE VerdictInv'
  <2>1. rpc[p] \in FenceLoop /\ rpc' = [rpc EXCEPT ![p] = "leave"]
    BY <1>31 DEF ReacquireRefused, Yield, Goto, FenceLoop
  <2>2. verdict'[p] = "none" /\ \A q \in Runners \ {p} : verdict'[q] = verdict[q]
    BY <1>31 DEF ReacquireRefused, Yield, AllInv, HandoffTypeOK
  <2>3. UNCHANGED <<graph, answer, gate, work, exit, lock, mem>>
    BY <1>31 DEF ReacquireRefused
  <2> QED
    BY <2>1, <2>2, <2>3, Moving DEF TrueOf, RunnerPC, Rounds, FenceLoop, Unloaded, Settling
<1>32. ASSUME NEW p \in Runners, FenceDeadline(p) PROVE VerdictInv'
  BY <1>32, Moving DEF FenceDeadline, Goto, AllInv, VerdictInv, HandoffTypeOK, DriverHoldsLock, Driving, Sites,
     FencesAreOutside, RunnerPC, Rounds, FenceLoop, Unloaded, Settling, TrueOf
<1>33. ASSUME NEW p \in Runners, Leave(p) PROVE VerdictInv'
  <2>1. rpc[p] = "leave" /\ rpc' = [rpc EXCEPT ![p] = "record"]
    BY <1>33 DEF Leave, Goto
  <2>2. UNCHANGED <<graph, answer, gate, work, exit, lock, mem, verdict>>
    BY <1>33 DEF Leave
  <2> QED
    BY <2>1, <2>2, Moving DEF RunnerPC, Rounds, FenceLoop, Unloaded, Settling
<1> HIDE DEF disk, runners, doors, history
<1>34. ASSUME NEW p \in Runners, WatcherSees(p) \/ WatcherSwept(p) PROVE VerdictInv'
  BY <1>34, Standing DEF WatcherSees, WatcherSwept, disk, AllInv
<1>35. ASSUME NEW d \in Doors, Calls(d) PROVE VerdictInv'
  BY <1>35, Standing DEF Calls, ReleaseStarts, StopChecks, AmendStarts, WaitStarts, disk, runners, AllInv
<1>36. ASSUME NEW d \in Doors,
             \/ ReleaseOuterCheck(d) \/ ReleaseLocksGraph(d) \/ ReleaseReadsMarker(d) \/ ReleaseReadsState(d)
             \/ StopMarks(d) \/ AmendLogs(d) \/ AmendMarks(d) \/ ResumeSeesDeath(d) \/ ResumeGivesUp(d)
             \/ AfterDeath(d) \/ WaitRespawns(d) \/ WaitReports(d) \/ Respawn(d)
      PROVE VerdictInv'
  BY <1>36, Standing DEF ReleaseOuterCheck, ReleaseLocksGraph, ReleaseReadsMarker, ReleaseReadsState,
     StopMarks, AmendLogs, AmendMarks, ResumeSeesDeath, ResumeGivesUp, AfterDeath, WaitRespawns,
     WaitReports, Respawn, disk, runners, AllInv
<1>37. CASE UNCHANGED vars
  BY <1>37, Standing DEF vars, disk, runners, AllInv
<1>38. ASSUME NEW p \in Runners, RunnerStep(p) PROVE VerdictInv'
  BY Zenon, <1>38, <1>1, <1>2, <1>3, <1>4, <1>5, <1>6, <1>7, <1>8, <1>9, <1>15, <1>16, <1>17, <1>18, <1>19,
     <1>20, <1>21, <1>22, <1>23, <1>24, <1>25, <1>26, <1>27, <1>28, <1>29, <1>30, <1>31, <1>33 DEF RunnerStep
<1>39. ASSUME NEW d \in Doors, DoorStep(d) PROVE VerdictInv'
  BY Zenon, <1>39, <1>10, <1>11, <1>12, <1>13, <1>36 DEF DoorStep
<1>100. scene.observers \subseteq Observers /\ scene.orphans \subseteq Runners
  BY Cast DEF AllInv, HandoffTypeOK
<1> QED
  BY Zenon, HandoffConstants, <1>9, <1>14, <1>32, <1>34, <1>35, <1>37, <1>38, <1>39, <1>100 DEF Next

-----------------------------------------------------------------------------

\* A recorded verdict that counts is true of the graph it counts for, for any runners, doors,
\* calls and crashes, while no fence is held up past a whole life of its successor: the exit
\* record is bound to the graph of the runner that wrote it (wf.py write_runner_exit).
THEOREM VerdictsAreTrue == ASSUME ~ Stalls PROVE Spec => []VerdictTruthful
<1> DEFINE Inv == AllInv
<1>1. Init => Inv
  BY HandoffInitType, VerdictInit, HandoffConstants DEF AllInv, Init, DriverHoldsLock, Driving, Sites
<1>2. Inv /\ [Next]_vars => Inv'
  BY HandoffStepType, DriverStep, VerdictStep DEF AllInv
<1>3. Inv => VerdictTruthful
  BY DEF AllInv, VerdictInv, ClaimsAreTrue, TrueOf, VerdictTruthful, ExitVerdict
<1> QED
  BY <1>1, <1>2, <1>3, PTL DEF Spec

-----------------------------------------------------------------------------
(* A stop is final where nothing crashes and nothing is swept.             *)

\* The theorem is about runs that one door may stop.
OneStop == \A d, e \in Doors : Kind[d] = "stop" /\ Kind[e] = "stop" => d = e

Over == {"leave", "record"}

\* The work ran behind a gate that has committed since.
WorkGated == work.efp.gate <= gate

\* Whom wf.pid names lives, or has left its verdict: nobody dies in silence, so nobody is reaped.
StampsLead ==
  /\ crashes = 0 /\ \A p \in Runners : watcher[p] # "sweep"
  /\ wfpid # NoOne =>
       /\ rpc[wfpid] \in Rounds \cup Over \cup {"dying", "gone"}
       /\ rpc[wfpid] \in {"finalize"} \cup Over => verdict[wfpid] # "none"
       /\ rpc[wfpid] \in {"dying", "gone"} => exit.reason # "none"
  /\ \A d \in Doors : dpc[d] # "reap"

\* One door writes stop.request, once.
MarkedOnce ==
  \A d \in Doors :
    /\ dpc[d] = "mark" => Kind[d] = "stop"
    /\ (asked \/ stop) /\ Kind[d] = "stop" => dpc[d] \notin {"idle", "mark"}

\* run.stopped is published before the marker goes.
Unlinks == \A p \in Runners : rpc[p] = "unlink" => stop /\ (asked => last = "stopped")

\* A consumed stop is on its way into the exit record under the lock, or there with every fence over.
Closing(q) == lock = q /\ rpc[q] \in Over /\ verdict[q] = "stopped"
StopIsFinal ==
  asked /\ ~ stop =>
    /\ last = "stopped"
    /\ \A p \in Runners : rpc[p] \notin Rounds \cup {"booting"}
    /\ \/ \E q \in Runners : Closing(q)
       \/ exit.reason = "stopped" /\ \A p \in Runners : rpc[p] \notin FenceLoop \cup Over

\* Whoever answers late has not got past the checks, and past the marker's only once it is gone.
LateIsRefused ==
  \A d \in Doors : Kind[d] = "release" /\ late[d] =>
    /\ asked
    /\ \/ dpc[d] \in {"outer", "lock", "marker"}
       \/ dpc[d] = "state" /\ ~ stop
       \/ dpc[d] = "end" /\ reply[d] = "refused"

StopInv == WorkGated /\ StampsLead /\ MarkedOnce /\ Unlinks /\ StopIsFinal /\ LateIsRefused

\* What the doors leave alone: the lock, the stamp and the verdicts of the runners, and the records.
LEMMA DoorsLeave ==
  ASSUME AllInv, StampsLead, MarkedOnce, NEW d \in Doors, Calls(d) \/ DoorStep(d)
  PROVE  /\ UNCHANGED <<lock, wfpid, verdict, watcher, work, gate, crashes, exit, scene>>
         /\ \A p \in Runners : rpc'[p] = rpc[p] \/ (rpc[p] = "unborn" /\ rpc'[p] = "boot")
         /\ \/ UNCHANGED <<stop, asked, last>>
            \/ ~ asked' /\ UNCHANGED stop
            \/ ~ asked /\ ~ stop /\ stop' /\ UNCHANGED last
<1> USE DEF disk, runners, doors, history
<1>1. CASE Calls(d)
  BY <1>1 DEF Calls, ReleaseStarts, StopChecks, AmendStarts, WaitStarts
<1>2. CASE \/ ReleaseOuterCheck(d) \/ ReleaseLocksGraph(d) \/ ReleaseReadsMarker(d)
           \/ ReleaseReadsState(d) \/ ReleaseWrites(d) \/ AmendSwaps(d) \/ AmendMarks(d)
  BY <1>2 DEF ReleaseOuterCheck, ReleaseLocksGraph, ReleaseReadsMarker, ReleaseReadsState, ReleaseWrites,
     AmendSwaps, AmendMarks
<1>3. CASE AmendLogs(d)
  BY <1>3 DEF AmendLogs
<1>4. CASE StopMarks(d)
  BY <1>4 DEF StopMarks, MarkedOnce
<1>5. CASE \/ ResumeSeesDeath(d) \/ ResumeGivesUp(d) \/ AfterDeath(d) \/ WaitRespawns(d)
           \/ WaitReports(d) \/ Respawn(d)
  BY <1>5 DEF ResumeSeesDeath, ResumeGivesUp, AfterDeath, WaitRespawns, WaitReports, Respawn
<1>6. CASE Reap(d)
  BY <1>6 DEF Reap, StampsLead
<1>7. CASE Spawn(d)
  <2>1. \E p \in Unborn : TRUE
    BY <1>7 DEF Spawn
  <2>2. (CHOOSE p \in Unborn : TRUE) \in Unborn
    BY <2>1, Zenon
  <2>3. PICK q \in Unborn : rpc' = [rpc EXCEPT ![q] = "boot"]
    BY <1>7, <2>2 DEF Spawn
  <2>4. rpc \in [Runners -> RunnerPC]
    BY DEF AllInv, HandoffTypeOK
  <2>5. \A p \in Runners : rpc'[p] = rpc[p] \/ (rpc[p] = "unborn" /\ rpc'[p] = "boot")
    BY <2>3, <2>4 DEF Unborn
  <2> QED
    BY <1>7, <2>5 DEF Spawn
<1> QED
  BY Zenon, <1>1, <1>2, <1>3, <1>4, <1>5, <1>6, <1>7 DEF DoorStep

\* What the runners, the observers and the stop-watchers leave alone: doors and requests.
LEMMA RunnersLeave ==
  ASSUME NEW p \in Runners, RunnerStep(p) \/ FenceDeadline(p) \/ Crash(p) \/ WatcherSees(p) \/ WatcherSwept(p)
  PROVE  UNCHANGED <<doors, history>> /\ (stop' = stop \/ ~ stop')
<1> USE DEF disk
<1>1. CASE \/ Admit(p) \/ Busy(p) \/ RetireDuplicate(p) \/ PassDuplicateCheck(p) \/ BootRunner(p)
           \/ ConsumeRestart(p) \/ Reload(p) \/ PublishStop(p) \/ ConsumeStop(p) \/ NoMarker(p)
  BY <1>1, Zenon DEF Admit, Busy, RetireDuplicate, PassDuplicateCheck, BootRunner, ConsumeRestart, Reload,
     PublishStop, ConsumeStop, NoMarker
<1>2. CASE \/ Wave(p) \/ NothingReady(p) \/ CommitGate(p) \/ Park(p) \/ OwnerTurnEnds(p)
           \/ Recheck(p) \/ Finalize(p) \/ FinalizeEnds(p)
  BY <1>2, Zenon DEF Wave, NothingReady, CommitGate, Park, OwnerTurnEnds, Recheck, Finalize, FinalizeEnds
<1>3. CASE \/ ReleaseTerminalLock(p) \/ FenceWatch(p) \/ FenceSeesSuccessor(p) \/ FenceAgain(p)
           \/ Reacquire(p) \/ ReacquireRefused(p) \/ Leave(p) \/ Record(p) \/ Exit(p)
  BY <1>3, Zenon DEF ReleaseTerminalLock, FenceWatch, FenceSeesSuccessor, FenceAgain, Reacquire,
     ReacquireRefused, Leave, Record, Exit
<1>4. CASE FenceDeadline(p) \/ Crash(p) \/ WatcherSees(p) \/ WatcherSwept(p)
  BY <1>4, Zenon DEF FenceDeadline, Crash, WatcherSees, WatcherSwept
<1> QED
  BY Zenon, <1>1, <1>2, <1>3, <1>4 DEF RunnerStep

LEMMA WatchersLeave ==
  ASSUME NEW o, ProbeTakes(o) \/ ProbeDrops(o)
  PROVE  UNCHANGED <<disk, wfpid, rpc, mem, verdict, watcher, doors, crashes, history>>
BY DEF ProbeTakes, ProbeDrops

LEMMA SceneStays ==
  ASSUME NEW d \in Doors, Calls(d) \/ DoorStep(d) PROVE scene' = scene
<1> USE DEF history
<1>1. CASE Calls(d)
  BY <1>1 DEF Calls, ReleaseStarts, StopChecks, AmendStarts, WaitStarts
<1>2. CASE \/ ReleaseOuterCheck(d) \/ ReleaseLocksGraph(d) \/ ReleaseReadsMarker(d) \/ StopMarks(d)
           \/ ReleaseReadsState(d) \/ ReleaseWrites(d) \/ AmendSwaps(d) \/ AmendLogs(d) \/ AmendMarks(d)
  BY <1>2 DEF ReleaseOuterCheck, ReleaseLocksGraph, ReleaseReadsMarker, ReleaseReadsState, ReleaseWrites,
     StopMarks, AmendSwaps, AmendLogs, AmendMarks
<1>3. CASE \/ ResumeSeesDeath(d) \/ ResumeGivesUp(d) \/ AfterDeath(d) \/ WaitRespawns(d)
           \/ WaitReports(d) \/ Respawn(d) \/ Reap(d) \/ Spawn(d)
  BY <1>3 DEF ResumeSeesDeath, ResumeGivesUp, AfterDeath, WaitRespawns, WaitReports, Respawn, Reap, Spawn
<1> QED
  BY Zenon, <1>1, <1>2, <1>3 DEF DoorStep

-----------------------------------------------------------------------------
(* The doors: one stop is marked, and who answers late is refused.         *)

LEMMA MarkedStep ==
  ASSUME AllInv, OneStop, MarkedOnce, NEW d \in Doors, Calls(d) \/ DoorStep(d)
  PROVE  MarkedOnce'
<1> USE DEF disk, runners, doors, history
<1>1. dpc \in [Doors -> DoorPC]
  BY DEF AllInv, HandoffTypeOK
<1>2. CASE Calls(d)
  BY <1>1, <1>2 DEF Calls, ReleaseStarts, StopChecks, AmendStarts, WaitStarts, Called, Step, Answer, MarkedOnce
<1>3. CASE \/ ReleaseOuterCheck(d) \/ ReleaseLocksGraph(d) \/ ReleaseReadsMarker(d)
           \/ ReleaseReadsState(d) \/ ReleaseWrites(d) \/ AmendSwaps(d) \/ AmendLogs(d) \/ AmendMarks(d)
  BY <1>1, <1>3 DEF ReleaseOuterCheck, ReleaseLocksGraph, ReleaseReadsMarker, ReleaseReadsState, ReleaseWrites,
     AmendSwaps, AmendLogs, AmendMarks, Step, Answer, MarkedOnce
<1>4. CASE StopMarks(d)
  BY <1>1, <1>4 DEF StopMarks, Step, MarkedOnce, OneStop
<1>5. CASE \/ ResumeSeesDeath(d) \/ ResumeGivesUp(d) \/ AfterDeath(d) \/ WaitRespawns(d)
           \/ WaitReports(d) \/ Respawn(d) \/ Reap(d) \/ Spawn(d)
  BY <1>1, <1>5 DEF ResumeSeesDeath, ResumeGivesUp, AfterDeath, WaitRespawns, WaitReports, Respawn, Reap, Spawn,
     Step, Answer, MarkedOnce
<1> QED
  BY Zenon, <1>2, <1>3, <1>4, <1>5 DEF DoorStep

\* Between the two checks of a late answer a stop stays consumed, and where it is consumed the run
\* reads as stopped or its gate as answered.
LEMMA ConsumedReadsStopped ==
  ASSUME AllInv, StopInv, asked, ~ stop
  PROVE  Status = "stopped" \/ Answered(graph)
<1>1. last = "stopped"
  BY DEF StopInv, StopIsFinal
<1>2. CASE ExitVerdict \in {"done", "blocked"}
  <2>1. work.efp = graph
    <3>1. exit.graph = graph /\ exit.reason \in {"done", "blocked"}
      BY <1>2 DEF ExitVerdict
    <3>2. WorkStatus(graph) # "none"
      BY <3>1 DEF AllInv, VerdictInv, ClaimsAreTrue, TrueOf
    <3> QED
      BY <3>2 DEF WorkStatus
  <2>2. graph.gate <= gate /\ gate <= answer /\ answer <= graph.gate
    BY <2>1 DEF StopInv, WorkGated, AllInv, VerdictInv, VersionsGrow
  <2>3. graph.gate \in Nat /\ gate \in Nat /\ answer \in Nat
    BY DEF AllInv, HandoffTypeOK, Graphs
  <2> QED
    BY <2>2, <2>3 DEF Answered
<1>3. CASE ExitVerdict \notin {"done", "blocked"}
  BY <1>1, <1>3 DEF Status, Derived
<1> QED
  BY <1>2, <1>3

LEMMA LateStep ==
  ASSUME AllInv, StopInv, NEW d \in Doors, Calls(d) \/ DoorStep(d)
  PROVE  LateIsRefused'
<1> USE DEF disk, runners, doors, history
<1>1. /\ dpc \in [Doors -> DoorPC] /\ reply \in [Doors -> Replies] /\ late \in [Doors -> BOOLEAN]
  BY DEF AllInv, HandoffTypeOK
<1>2. /\ LateIsRefused
      /\ asked \/ stop => \A e \in Doors : Kind[e] = "stop" => dpc[e] # "mark"
      /\ \A e \in Doors : dpc[e] = "mark" => Kind[e] = "stop"
  BY DEF StopInv, MarkedOnce
<1>3. CASE ReleaseStarts(d)
  <2>1. \A e \in Doors : e # d => dpc'[e] = dpc[e] /\ late'[e] = late[e]
    BY <1>1, <1>3 DEF ReleaseStarts, Step
  <2>2. dpc'[d] = "outer" /\ late'[d] = asked
    BY <1>1, <1>3 DEF ReleaseStarts, Step
  <2>3. UNCHANGED <<asked, stop, reply>>
    BY <1>3 DEF ReleaseStarts
  <2> QED
    BY <1>2, <2>1, <2>2, <2>3 DEF LateIsRefused
<1>4. CASE StopChecks(d) \/ AmendStarts(d) \/ WaitStarts(d)
  BY <1>1, <1>2, <1>4 DEF StopChecks, AmendStarts, WaitStarts, Called, Step, Answer, LateIsRefused
<1>5. CASE ReleaseOuterCheck(d) \/ ReleaseLocksGraph(d) \/ ReleaseReadsMarker(d)
  BY <1>1, <1>2, <1>5 DEF ReleaseOuterCheck, ReleaseLocksGraph, ReleaseReadsMarker, Step, Answer, LateIsRefused
<1>6. CASE ReleaseReadsState(d)
  <2>1. late[d] /\ Kind[d] = "release" => Status = "stopped" \/ Answered(graph)
    BY <1>1, <1>2, <1>6, ConsumedReadsStopped DEF ReleaseReadsState, LateIsRefused
  <2> QED
    BY <1>1, <1>2, <1>6, <2>1 DEF ReleaseReadsState, Step, Answer, LateIsRefused
<1>7. CASE ReleaseWrites(d) \/ AmendSwaps(d) \/ AmendMarks(d)
  BY <1>1, <1>2, <1>7 DEF ReleaseWrites, AmendSwaps, AmendMarks, Step, LateIsRefused
<1>8. CASE AmendLogs(d)
  BY <1>8 DEF AmendLogs, LateIsRefused
<1>9. CASE StopMarks(d)
  BY <1>1, <1>2, <1>9 DEF StopMarks, Step, LateIsRefused
<1>10. CASE \/ ResumeSeesDeath(d) \/ ResumeGivesUp(d) \/ AfterDeath(d) \/ WaitRespawns(d)
            \/ WaitReports(d) \/ Respawn(d) \/ Reap(d) \/ Spawn(d)
  BY <1>1, <1>2, <1>10 DEF ResumeSeesDeath, ResumeGivesUp, AfterDeath, WaitRespawns, WaitReports, Respawn, Reap,
     Spawn, Step, Answer, LateIsRefused
<1> QED
  BY Zenon, <1>3, <1>4, <1>5, <1>6, <1>7, <1>8, <1>9, <1>10 DEF Calls, DoorStep

\* Only a wave and the commit of a gate write a record.
LEMMA OnlyTheyRecord ==
  ASSUME NEW p \in Runners, RunnerStep(p) \/ FenceDeadline(p) \/ Crash(p) \/ WatcherSees(p) \/ WatcherSwept(p)
  PROVE  UNCHANGED <<gate, work>> \/ Wave(p) \/ CommitGate(p)
<1> USE DEF disk
<1>1. CASE \/ Admit(p) \/ Busy(p) \/ RetireDuplicate(p) \/ PassDuplicateCheck(p) \/ BootRunner(p)
           \/ ConsumeRestart(p) \/ Reload(p) \/ PublishStop(p) \/ ConsumeStop(p) \/ NoMarker(p)
  BY <1>1, Zenon DEF Admit, Busy, RetireDuplicate, PassDuplicateCheck, BootRunner, ConsumeRestart, Reload,
     PublishStop, ConsumeStop, NoMarker
<1>2. CASE \/ NothingReady(p) \/ Park(p) \/ OwnerTurnEnds(p)
           \/ Recheck(p) \/ Finalize(p) \/ FinalizeEnds(p)
  BY <1>2, Zenon DEF NothingReady, Park, OwnerTurnEnds, Recheck, Finalize, FinalizeEnds
<1>3. CASE \/ ReleaseTerminalLock(p) \/ FenceWatch(p) \/ FenceSeesSuccessor(p) \/ FenceAgain(p)
           \/ Reacquire(p) \/ ReacquireRefused(p) \/ Leave(p) \/ Record(p) \/ Exit(p)
  BY <1>3, Zenon DEF ReleaseTerminalLock, FenceWatch, FenceSeesSuccessor, FenceAgain, Reacquire,
     ReacquireRefused, Leave, Record, Exit
<1>4. CASE FenceDeadline(p) \/ Crash(p) \/ WatcherSees(p) \/ WatcherSwept(p)
  BY <1>4, Zenon DEF FenceDeadline, Crash, WatcherSees, WatcherSwept
<1> QED
  BY Zenon, <1>1, <1>2, <1>3, <1>4 DEF RunnerStep

LEMMA GatedStep ==
  ASSUME AllInv, WorkGated, NEW p \in Runners, Wave(p) \/ CommitGate(p)
  PROVE  WorkGated'
<1>1. /\ work \in [efp : Graphs, status : {"none", "done", "failed"}]
      /\ mem[p] \in Graphs /\ gate \in Nat /\ answer \in Nat /\ gate <= answer
  BY DEF AllInv, HandoffTypeOK, VerdictInv, VersionsGrow
<1>2. CASE Wave(p)
  BY <1>1, <1>2 DEF Wave, WorkReady, GateDone, WorkGated, Graphs
<1>3. CASE CommitGate(p)
  <2>1. gate' = mem[p].gate /\ answer = mem[p].gate /\ work' = work
    BY <1>3 DEF CommitGate, Answered
  <2>2. work.efp.gate \in Nat /\ mem[p].gate \in Nat /\ work.efp.gate <= gate
    BY <1>1 DEF Graphs, WorkGated
  <2> QED
    BY <1>1, <2>1, <2>2 DEF WorkGated
<1> QED
  BY <1>2, <1>3

-----------------------------------------------------------------------------
(* The runners.                                                            *)

\* A step that neither unlinks nor touches the request leaves the unlinking runner alone: it holds
\* the lock, and who does not hold it logs nothing.
LEMMA StillUnlinking ==
  ASSUME AllInv, Unlinks, NEW p \in Runners, NEW to, to # "unlink",
         rpc' = [rpc EXCEPT ![p] = to], UNCHANGED <<stop, asked>>,
         last' = last \/ lock = p \/ lock = NoOne
  PROVE  Unlinks'
<1>1. rpc \in [Runners -> RunnerPC]
  BY DEF AllInv, HandoffTypeOK
<1>2. ASSUME NEW q \in Runners, rpc'[q] = "unlink" PROVE stop' /\ (asked' => last' = "stopped")
  <2>1. q # p /\ rpc[q] = "unlink"
    BY <1>1, <1>2
  <2>2. lock = q /\ q # NoOne
    BY <2>1, HandoffConstants DEF AllInv, DriverHoldsLock, Driving
  <2> QED
    BY <2>1, <2>2 DEF Unlinks
<1> QED
  BY <1>2 DEF Unlinks

LEMMA UnlinkStep ==
  ASSUME AllInv, Quiet, StampsLead, Unlinks, NEW p \in Runners,
         RunnerStep(p) \/ FenceDeadline(p) \/ Crash(p) \/ WatcherSees(p) \/ WatcherSwept(p)
  PROVE  Unlinks'
<1> USE DEF disk, runners, history
<1>1. rpc \in [Runners -> RunnerPC]
  BY DEF AllInv, HandoffTypeOK
<1>2. Driving(p) => lock = p
  BY DEF AllInv, DriverHoldsLock
<1>3. CASE Admit(p) \/ Busy(p) \/ RetireDuplicate(p) \/ PassDuplicateCheck(p)
  BY <1>3, StillUnlinking DEF Admit, Busy, RetireDuplicate, PassDuplicateCheck, Goto
<1>4. CASE BootRunner(p) \/ ConsumeRestart(p) \/ Reload(p) \/ Wave(p) \/ NothingReady(p) \/ CommitGate(p)
  BY <1>2, <1>4, StillUnlinking DEF BootRunner, ConsumeRestart, Reload, Wave, NothingReady, CommitGate, Goto,
     Driving, Sites
<1>5. CASE Park(p) \/ OwnerTurnEnds(p) \/ Recheck(p) \/ Finalize(p) \/ FinalizeEnds(p) \/ NoMarker(p)
  BY <1>2, <1>5, StillUnlinking DEF Park, OwnerTurnEnds, Recheck, Finalize, FinalizeEnds, NoMarker, Goto, Driving
<1>6. CASE PublishStop(p)
  <2>1. rpc' = [rpc EXCEPT ![p] = "unlink"] /\ stop /\ stop' = stop /\ last' = "stopped"
    BY <1>6 DEF PublishStop, Goto
  <2> QED
    BY <2>1 DEF Unlinks
<1>7. CASE ConsumeStop(p)
  <2>1. lock = p /\ rpc' = [rpc EXCEPT ![p] = "leave"]
    BY <1>2, <1>7 DEF ConsumeStop, Goto, Driving
  <2>2. \A q \in Runners : rpc'[q] # "unlink"
    BY <1>1, <2>1 DEF AllInv, DriverHoldsLock, Driving
  <2> QED
    BY <2>2 DEF Unlinks
<1>8. CASE ReleaseTerminalLock(p) \/ FenceWatch(p) \/ FenceSeesSuccessor(p) \/ FenceAgain(p) \/ ReacquireRefused(p)
  BY <1>8, StillUnlinking DEF ReleaseTerminalLock, FenceWatch, FenceSeesSuccessor, FenceAgain, ReacquireRefused,
     Goto, Yield
<1>9. CASE Reacquire(p)
  BY <1>9, StillUnlinking DEF Reacquire, Goto
<1>10. CASE Leave(p)
  BY <1>10, StillUnlinking DEF Leave, Goto, Quiet
<1>11. CASE Record(p) \/ FenceDeadline(p)
  BY <1>11, StillUnlinking DEF Record, FenceDeadline, Goto
<1>12. CASE Exit(p)
  BY <1>12, StillUnlinking DEF Exit, Ends, Goto
<1>13. CASE Crash(p) \/ WatcherSwept(p)
  BY <1>13, HandoffConstants DEF Crash, WatcherSwept, StampsLead
<1>14. CASE WatcherSees(p)
  BY <1>14 DEF WatcherSees, Unlinks
<1> QED
  BY Zenon, <1>3, <1>4, <1>5, <1>6, <1>7, <1>8, <1>9, <1>10, <1>11, <1>12, <1>13, <1>14 DEF RunnerStep

\* A stamp keeps its word when its runner does not move, or moves on alive.
Word(w) ==
  /\ rpc[w] \in Rounds \cup Over \cup {"dying", "gone"}
  /\ rpc[w] \in {"finalize"} \cup Over => verdict[w] # "none"
  /\ rpc[w] \in {"dying", "gone"} => exit.reason # "none"

LEMMA StampStays ==
  ASSUME AllInv, StampsLead, NEW p \in Runners, NEW to,
         rpc' = [rpc EXCEPT ![p] = to], UNCHANGED <<dpc, crashes>>,
         \A q \in Runners : q # p => verdict'[q] = verdict[q],
         \A q \in Runners : watcher'[q] # "sweep",
         exit' = exit \/ exit'.reason # "none",
         wfpid' \in {wfpid, NoOne, p}, wfpid' = p => Word(p)'
  PROVE  StampsLead'
<1>1. rpc \in [Runners -> RunnerPC] /\ wfpid \in Runners \cup {NoOne}
  BY DEF AllInv, HandoffTypeOK
<1>2. ASSUME wfpid' # NoOne, wfpid' # p PROVE Word(wfpid)'
  <2>1. wfpid \in Runners /\ wfpid # p /\ wfpid' = wfpid
    BY <1>1, <1>2
  <2>2. rpc'[wfpid] = rpc[wfpid] /\ verdict'[wfpid] = verdict[wfpid]
    BY <1>1, <2>1
  <2> QED
    BY <1>2, <2>1, <2>2 DEF StampsLead, Word
<1> QED
  BY <1>2 DEF StampsLead, Word

LEMMA StampStep ==
  ASSUME AllInv, Quiet, StampsLead, NEW p \in Runners,
         RunnerStep(p) \/ FenceDeadline(p) \/ Crash(p) \/ WatcherSees(p) \/ WatcherSwept(p)
  PROVE  StampsLead'
<1> USE DEF disk, runners, doors, history, Goto
<1>1. /\ rpc \in [Runners -> RunnerPC] /\ verdict \in [Runners -> Verdicts]
      /\ watcher \in [Runners -> {"off", "on", "sweep"}] /\ wfpid \in Runners \cup {NoOne}
      /\ exit \in [reason : Verdicts \cup {"silent"}, graph : Graphs]
  BY DEF AllInv, HandoffTypeOK
<1>2. /\ \A q \in Runners : watcher[q] # "sweep" /\ (wfpid = q => Word(q))
  BY HandoffConstants DEF StampsLead, Word
<1> USE DEF Word, Rounds, Over
<1>3. CASE Admit(p) \/ Busy(p) \/ RetireDuplicate(p) \/ PassDuplicateCheck(p)
  BY <1>1, <1>2, <1>3, StampStays DEF Admit, Busy, RetireDuplicate, PassDuplicateCheck
<1>4. CASE BootRunner(p)
  <2>1. wfpid' = p /\ rpc'[p] = "top" /\ \A q \in Runners : q # p => rpc'[q] = rpc[q]
    BY <1>1, <1>4 DEF BootRunner
  <2>2. \A q \in Runners : watcher'[q] # "sweep"
    BY <1>1, <1>2, <1>4 DEF BootRunner
  <2> QED
    BY <1>4, <2>1, <2>2 DEF BootRunner, StampsLead
<1>5. CASE ConsumeRestart(p) \/ Reload(p) \/ PublishStop(p) \/ Wave(p) \/ NothingReady(p) \/ CommitGate(p)
  BY <1>1, <1>2, <1>5, StampStays DEF ConsumeRestart, Reload, PublishStop, Wave, NothingReady, CommitGate
<1>6. CASE ConsumeStop(p)
  BY <1>1, <1>2, <1>6, StampStays DEF ConsumeStop
<1>7. CASE Park(p) \/ OwnerTurnEnds(p) \/ Recheck(p) \/ NoMarker(p)
  BY <1>1, <1>2, <1>7, StampStays DEF Park, OwnerTurnEnds, Recheck, NoMarker
<1>8. CASE Finalize(p) \/ FinalizeEnds(p)
  BY <1>1, <1>2, <1>8, StampStays DEF Finalize, FinalizeEnds
<1>9. CASE ReleaseTerminalLock(p)
  BY <1>1, <1>2, <1>9, StampStays, HandoffConstants DEF ReleaseTerminalLock
<1>10. CASE FenceWatch(p) \/ FenceSeesSuccessor(p) \/ FenceAgain(p) \/ ReacquireRefused(p) \/ FenceDeadline(p)
  BY <1>1, <1>2, <1>10, StampStays DEF FenceWatch, FenceSeesSuccessor, FenceAgain, ReacquireRefused, FenceDeadline, Yield
<1>11. CASE Reacquire(p)
  BY <1>1, <1>2, <1>11, StampStays DEF Reacquire
<1>12. CASE Leave(p) \/ Record(p)
  BY <1>1, <1>2, <1>12, StampStays DEF Leave, Record
<1>13. CASE Exit(p)
  BY <1>1, <1>2, <1>13, StampStays DEF Exit, Ends
<1>14. CASE Crash(p) \/ WatcherSwept(p)
  BY <1>14 DEF Crash, WatcherSwept, StampsLead
<1>15. CASE WatcherSees(p)
  BY <1>1, <1>2, <1>15 DEF WatcherSees, StampsLead, Quiet
<1> QED
  BY Zenon, <1>3, <1>4, <1>5, <1>6, <1>7, <1>8, <1>9, <1>10, <1>11, <1>12, <1>13, <1>14, <1>15 DEF RunnerStep

\* While runners drive no stop is over, so nothing has to be kept of one.
LEMMA NotFinal ==
  ASSUME NEW p \in Runners, rpc[p] \in Rounds \cup {"booting"}, StopIsFinal, UNCHANGED <<asked, stop>>
  PROVE  StopIsFinal'
BY DEF StopIsFinal

\* What remains once a stop is over: a step of p that does not drive keeps it so.
LEMMA StaysFinal ==
  ASSUME AllInv, StopIsFinal, NEW p \in Runners, NEW to, to \notin Rounds \cup {"booting"},
         rpc' = [rpc EXCEPT ![p] = to], UNCHANGED <<stop, asked, last, exit>>,
         \A q \in Runners : lock = q /\ q # p => lock' = q,
         \A q \in Runners : q # p => verdict'[q] = verdict[q],
         asked /\ ~ stop /\ Closing(p) => Closing(p)',
         to \in FenceLoop \cup Over => rpc[p] \in FenceLoop \cup Over
  PROVE  StopIsFinal'
<1> SUFFICES ASSUME asked, ~ stop
             PROVE  /\ last = "stopped"
                    /\ \A q \in Runners : rpc'[q] \notin Rounds \cup {"booting"}
                    /\ \/ \E q \in Runners : Closing(q)'
                       \/ exit.reason = "stopped" /\ \A q \in Runners : rpc'[q] \notin FenceLoop \cup Over
  BY DEF StopIsFinal
<1>1. rpc \in [Runners -> RunnerPC]
  BY DEF AllInv, HandoffTypeOK
<1>2. last = "stopped" /\ \A q \in Runners : rpc'[q] \notin Rounds \cup {"booting"}
  BY <1>1 DEF StopIsFinal
<1>3. CASE \E q \in Runners : Closing(q)
  <2>1. PICK q \in Runners : Closing(q)
    BY <1>3
  <2>2. Closing(q)'
    BY <1>1, <2>1 DEF Closing
  <2> QED
    BY <1>2, <2>2
<1>4. CASE exit.reason = "stopped" /\ \A q \in Runners : rpc[q] \notin FenceLoop \cup Over
  <2>1. \A q \in Runners : rpc'[q] \notin FenceLoop \cup Over
    BY <1>1, <1>4
  <2> QED
    BY <1>2, <1>4, <2>1
<1> QED
  BY <1>3, <1>4 DEF StopIsFinal

\* Nobody takes the lock while a runner closes, and whoever takes it after that retires.
LEMMA FinalStep ==
  ASSUME AllInv, Quiet, ~ Stalls, StopInv, NEW p \in Runners,
         RunnerStep(p) \/ FenceDeadline(p) \/ Crash(p) \/ WatcherSees(p) \/ WatcherSwept(p)
  PROVE  StopIsFinal'
<1> USE DEF disk, runners, history, Goto
<1>1. /\ rpc \in [Runners -> RunnerPC] /\ verdict \in [Runners -> Verdicts]
  BY DEF AllInv, HandoffTypeOK
<1>2. StopIsFinal /\ Unlinks /\ StampsLead
  BY DEF StopInv
<1>3. Driving(p) => lock = p
  BY DEF AllInv, DriverHoldsLock
<1>4. \A q \in Runners : q # NoOne
  BY HandoffConstants
<1>5. \A q \in Runners : rpc[q] \in FenceLoop => lock # q
  BY DEF AllInv, VerdictInv, FencesAreOutside
<1>6. CASE Admit(p) \/ Busy(p)
  BY <1>1, <1>2, <1>4, <1>6, StaysFinal DEF Admit, Busy, Closing, Rounds, FenceLoop, Over
<1>7. CASE RetireDuplicate(p)
  BY <1>1, <1>2, <1>7, StaysFinal DEF RetireDuplicate, Closing, Rounds, FenceLoop, Over
<1>8. CASE PassDuplicateCheck(p)
  <2>1. ~ (asked /\ ~ stop)
    <3> SUFFICES ASSUME asked, ~ stop PROVE FALSE
      OBVIOUS
    <3>1. Status # "stopped" /\ lock = p /\ rpc[p] = "admitted"
      BY <1>3, <1>8 DEF PassDuplicateCheck, Driving
    <3>2. last = "stopped" /\ exit.reason = "stopped"
      BY <1>2, <3>1 DEF StopIsFinal, Closing, Over
    <3> QED
      BY <3>1, <3>2 DEF Status, Derived, ExitVerdict
  <2> QED
    BY <1>8, <2>1 DEF PassDuplicateCheck, StopIsFinal
<1>9. CASE BootRunner(p) \/ ConsumeRestart(p) \/ Reload(p) \/ PublishStop(p) \/ NoMarker(p)
  BY <1>2, <1>9, NotFinal DEF BootRunner, ConsumeRestart, Reload, PublishStop, NoMarker, Rounds, Sites
<1>10. CASE Wave(p) \/ NothingReady(p) \/ CommitGate(p) \/ Park(p) \/ OwnerTurnEnds(p)
  BY <1>2, <1>10, NotFinal DEF Wave, NothingReady, CommitGate, Park, OwnerTurnEnds, Rounds
<1>11. CASE Recheck(p) \/ Finalize(p) \/ FinalizeEnds(p) \/ ReleaseTerminalLock(p)
  BY <1>2, <1>11, NotFinal DEF Recheck, Finalize, FinalizeEnds, ReleaseTerminalLock, Rounds
<1>12. CASE ConsumeStop(p)
  <2>1. lock' = p /\ lock = p /\ rpc' = [rpc EXCEPT ![p] = "leave"] /\ verdict'[p] = "stopped"
    BY <1>1, <1>3, <1>12 DEF ConsumeStop, Driving
  <2>2. Closing(p)'
    BY <1>1, <2>1 DEF Closing, Over
  <2>3. \A q \in Runners : rpc'[q] \notin Rounds \cup {"booting"}
    <3> SUFFICES ASSUME NEW q \in Runners, rpc'[q] \in Rounds \cup {"booting"} PROVE FALSE
      OBVIOUS
    <3>1. q # p /\ rpc[q] \in Rounds \cup {"booting"}
      BY <1>1, <2>1 DEF Rounds
    <3>2. Driving(q) \/ rpc[q] = "fence"
      BY <3>1 DEF Driving, Sites, Rounds
    <3>3. lock = q
      BY <3>2 DEF AllInv, DriverHoldsLock, VerdictInv, FencesAreOutside
    <3> QED
      BY <2>1, <3>1, <3>3
  <2>4. asked' => last' = "stopped"
    BY <1>2, <1>12 DEF ConsumeStop, Unlinks
  <2> QED
    BY <2>2, <2>3, <2>4 DEF StopIsFinal
<1>13. CASE FenceWatch(p) \/ FenceSeesSuccessor(p) \/ FenceAgain(p) \/ ReacquireRefused(p) \/ FenceDeadline(p)
  <2>1. rpc[p] \in FenceLoop
    BY <1>13 DEF FenceWatch, FenceSeesSuccessor, FenceAgain, ReacquireRefused, FenceDeadline, FenceLoop
  <2>2. ~ Closing(p)
    BY <1>5, <2>1 DEF Closing
  <2> QED
    BY <1>1, <1>2, <1>13, <2>1, <2>2, StaysFinal DEF FenceWatch, FenceSeesSuccessor, FenceAgain, ReacquireRefused,
       FenceDeadline, Yield, Rounds, FenceLoop, Over
<1>14. CASE Reacquire(p)
  <2>1. ~ (asked /\ ~ stop)
    BY <1>2, <1>4, <1>14 DEF Reacquire, StopIsFinal, Closing, FenceLoop
  <2> QED
    BY <1>14, <2>1 DEF Reacquire, StopIsFinal
<1>15. CASE Leave(p)
  <2>1. last' = last
    BY <1>15 DEF Leave, Quiet
  <2> QED
    BY <1>1, <1>2, <1>15, <2>1, StaysFinal DEF Leave, Closing, Rounds, FenceLoop, Over
<1>16. CASE Record(p)
  <2> SUFFICES ASSUME asked', ~ stop' PROVE StopIsFinal'
    BY DEF StopIsFinal
  <2>1. asked /\ ~ stop /\ last' = "stopped" /\ rpc' = [rpc EXCEPT ![p] = "dying"] /\ lock' = lock /\ verdict' = verdict
    BY <1>2, <1>16 DEF Record, StopIsFinal
  <2>2. \A q \in Runners : rpc'[q] \notin Rounds \cup {"booting"}
    BY <1>1, <1>2, <2>1 DEF StopIsFinal, Rounds
  <2>3. CASE Closing(p)
    <3>1. exit'.reason = "stopped" /\ lock = p
      BY <1>16, <2>3 DEF Record, Closing
    <3>2. \A q \in Runners : ~ InFence(q)
      BY <1>16, <3>1 DEF Record, FencesOver
    <3>3. \A q \in Runners : rpc'[q] \notin FenceLoop \cup Over
      BY <1>1, <2>1, <3>1, <3>2 DEF InFence, FenceLoop, Over
    <3> QED
      BY <2>1, <2>2, <3>1, <3>3 DEF StopIsFinal
  <2>4. CASE ~ Closing(p)
    <3>1. PICK q \in Runners : Closing(q)
      BY <1>2, <1>16, <2>1 DEF StopIsFinal, Record, Over
    <3>2. q # p
      BY <2>4, <3>1
    <3>3. Closing(q)'
      BY <1>1, <2>1, <3>1, <3>2 DEF Closing
    <3> QED
      BY <2>1, <2>2, <3>3 DEF StopIsFinal
  <2> QED
    BY <2>3, <2>4
<1>17. CASE Exit(p)
  BY <1>1, <1>2, <1>17, StaysFinal DEF Exit, Ends, LetGoOfLock, Closing, Rounds, FenceLoop, Over
<1>18. CASE Crash(p) \/ WatcherSwept(p)
  BY <1>2, <1>18 DEF Crash, WatcherSwept, StampsLead
<1>19. CASE WatcherSees(p)
  BY <1>19 DEF WatcherSees, StopIsFinal
<1> QED
  BY Zenon, <1>6, <1>7, <1>8, <1>9, <1>10, <1>11, <1>12, <1>13, <1>14, <1>15, <1>16, <1>17, <1>18, <1>19 DEF RunnerStep

-----------------------------------------------------------------------------

LEMMA StopInit == Init /\ Quiet => StopInv
<1> SUFFICES ASSUME Init, Quiet PROVE StopInv
  OBVIOUS
<1>1. WorkGated /\ MarkedOnce /\ LateIsRefused
  BY DEF Init, WorkGated, NoGraph, MarkedOnce, LateIsRefused
<1>2. StampsLead /\ Unlinks /\ StopIsFinal
  BY HandoffConstants DEF Init, Quiet, StampsLead, Rounds, Over, Unlinks, StopIsFinal
<1> QED
  BY <1>1, <1>2 DEF StopInv

\* A step of a door: the runners stand, one more may be born.
LEMMA DoorKeeps ==
  ASSUME AllInv, StopInv, OneStop, NEW d \in Doors, Calls(d) \/ DoorStep(d)
  PROVE  StopInv'
<1>1. StampsLead /\ MarkedOnce /\ Unlinks /\ StopIsFinal /\ WorkGated
  BY DEF StopInv
<1>2. /\ UNCHANGED <<lock, wfpid, verdict, watcher, work, gate, crashes, exit, scene>>
      /\ \A p \in Runners : rpc'[p] = rpc[p] \/ (rpc[p] = "unborn" /\ rpc'[p] = "boot")
      /\ \/ UNCHANGED <<stop, asked, last>>
         \/ ~ asked' /\ UNCHANGED stop
         \/ ~ asked /\ ~ stop /\ stop' /\ UNCHANGED last
  BY <1>1, DoorsLeave
<1>3. WorkGated'
  BY <1>1, <1>2 DEF WorkGated
<1>4. Unlinks'
  BY <1>1, <1>2 DEF Unlinks
<1>5. StopIsFinal'
  <2>1. CASE ~ (asked' /\ ~ stop')
    BY <2>1 DEF StopIsFinal
  <2>2. CASE asked' /\ ~ stop'
    <3>1. UNCHANGED <<stop, asked, last>>
      BY <1>2, <2>2
    <3>2. /\ last = "stopped"
          /\ \A p \in Runners : rpc'[p] \notin Rounds \cup {"booting"}
      BY <1>1, <1>2, <2>2, <3>1 DEF StopIsFinal, Rounds
    <3>3. CASE \E q \in Runners : Closing(q)
      <4>1. PICK q \in Runners : Closing(q)
        BY <3>3
      <4>2. Closing(q)'
        BY <1>2, <4>1 DEF Closing, Over
      <4> QED
        BY <3>1, <3>2, <4>2 DEF StopIsFinal
    <3>4. CASE exit.reason = "stopped" /\ \A p \in Runners : rpc[p] \notin FenceLoop \cup Over
      <4>1. exit'.reason = "stopped" /\ \A p \in Runners : rpc'[p] \notin FenceLoop \cup Over
        BY <1>2, <3>4 DEF FenceLoop, Over
      <4> QED
        BY <3>1, <3>2, <4>1 DEF StopIsFinal
    <3> QED
      BY <1>1, <2>2, <3>1, <3>3, <3>4 DEF StopIsFinal
  <2> QED
    BY <2>1, <2>2
<1>6. \A e \in Doors : dpc'[e] # "reap"
  <2>1. dpc \in [Doors -> DoorPC] /\ wfpid \in Runners \cup {NoOne} /\ \A e \in Doors : dpc[e] # "reap"
    BY <1>1 DEF AllInv, HandoffTypeOK, StampsLead
  <2>2. ~ SilentDeath
    BY <1>1, <2>1 DEF SilentDeath, RunnerAlive, Alive, StampsLead, Rounds, Over
  <2>3. CASE Calls(d)
    BY <2>1, <2>3 DEF Calls, ReleaseStarts, StopChecks, AmendStarts, WaitStarts, Step, Answer, doors
  <2>4. CASE \/ ReleaseOuterCheck(d) \/ ReleaseLocksGraph(d) \/ ReleaseReadsMarker(d) \/ StopMarks(d)
             \/ ReleaseReadsState(d) \/ ReleaseWrites(d) \/ AmendSwaps(d) \/ AmendLogs(d) \/ AmendMarks(d)
    BY <2>1, <2>4 DEF ReleaseOuterCheck, ReleaseLocksGraph, ReleaseReadsMarker, ReleaseReadsState, ReleaseWrites,
       StopMarks, AmendSwaps, AmendLogs, AmendMarks, Step, Answer
  <2>5. CASE \/ ResumeSeesDeath(d) \/ ResumeGivesUp(d) \/ AfterDeath(d) \/ WaitRespawns(d)
             \/ WaitReports(d) \/ Respawn(d) \/ Reap(d) \/ Spawn(d)
    BY <2>1, <2>2, <2>5 DEF ResumeSeesDeath, ResumeGivesUp, AfterDeath, WaitRespawns, WaitReports, Respawn, Reap,
       Spawn, Step, Answer
  <2> QED
    BY Zenon, <2>3, <2>4, <2>5 DEF DoorStep
<1>7. StampsLead'
  <2>1. wfpid \in Runners \cup {NoOne}
    BY DEF AllInv, HandoffTypeOK
  <2> QED
    BY <1>1, <1>2, <1>6, <2>1 DEF StampsLead, Rounds, Over
<1> QED
  BY <1>1, <1>3, <1>4, <1>5, <1>7, MarkedStep, LateStep DEF StopInv

LEMMA RunnerKeeps ==
  ASSUME AllInv, Quiet, ~ Stalls, StopInv, NEW p \in Runners,
         RunnerStep(p) \/ FenceDeadline(p) \/ Crash(p) \/ WatcherSees(p) \/ WatcherSwept(p)
  PROVE  StopInv'
<1>1. WorkGated /\ StampsLead /\ MarkedOnce /\ Unlinks /\ StopIsFinal /\ LateIsRefused
  BY DEF StopInv
<1>2. UNCHANGED <<dpc, reply, asked, late>> /\ (stop' = stop \/ ~ stop')
  BY RunnersLeave DEF doors, history
<1>3. MarkedOnce' /\ LateIsRefused'
  BY <1>1, <1>2 DEF MarkedOnce, LateIsRefused
<1>4. WorkGated'
  <2>1. CASE UNCHANGED <<gate, work>>
    BY <1>1, <2>1 DEF WorkGated
  <2> QED
    BY <1>1, <2>1, OnlyTheyRecord, GatedStep
<1>5. Unlinks' /\ StampsLead' /\ StopIsFinal'
  BY <1>1, UnlinkStep, StampStep, FinalStep
<1> QED
  BY <1>3, <1>4, <1>5 DEF StopInv

LEMMA ProbeKeeps ==
  ASSUME AllInv, StopInv, NEW o \in Observers, ProbeTakes(o) \/ ProbeDrops(o)
  PROVE  StopInv'
<1>1. UNCHANGED <<disk, wfpid, rpc, mem, verdict, watcher, doors, crashes, history>>
  BY WatchersLeave
<1>2. /\ WorkGated' /\ StampsLead' /\ MarkedOnce' /\ Unlinks' /\ LateIsRefused'
  BY <1>1 DEF StopInv, WorkGated, StampsLead, MarkedOnce, Unlinks, LateIsRefused, disk, doors, history
<1>3. \A q \in Runners : Closing(q) => Closing(q)'
  BY <1>1, HandoffConstants DEF Closing, ProbeTakes, ProbeDrops
<1>4. StopIsFinal'
  BY <1>1, <1>3 DEF StopInv, StopIsFinal, disk, history
<1> QED
  BY <1>2, <1>4 DEF StopInv

LEMMA StopStep == OneStop /\ ~ Stalls /\ AllInv /\ (Quiet => StopInv) /\ [Next]_vars => (Quiet => StopInv)'
<1> SUFFICES ASSUME OneStop, ~ Stalls, AllInv, Quiet => StopInv, [Next]_vars, Quiet' PROVE StopInv'
  OBVIOUS
<1>1. scene' = scene /\ Quiet
  <2>1. ASSUME UNCHANGED vars PROVE scene' = scene
    BY <2>1 DEF vars, history
  <2>2. ASSUME NEW p \in Runners,
               RunnerStep(p) \/ FenceDeadline(p) \/ Crash(p) \/ WatcherSees(p) \/ WatcherSwept(p)
        PROVE  scene' = scene
    BY <2>2, RunnersLeave DEF history
  <2>3. ASSUME NEW d \in Doors, Calls(d) \/ DoorStep(d) PROVE scene' = scene
    BY <2>3, SceneStays
  <2>4. ASSUME NEW o \in Observers, ProbeTakes(o) \/ ProbeDrops(o) PROVE scene' = scene
    BY <2>4, WatchersLeave DEF history
  <2>5. scene.observers \subseteq Observers /\ scene.orphans \subseteq Runners
    BY Cast DEF AllInv, HandoffTypeOK
  <2>6. scene' = scene
    BY Zenon, <2>1, <2>2, <2>3, <2>4, <2>5 DEF Next
  <2> QED
    BY <2>6 DEF Quiet
<1>2. StopInv
  BY <1>1
<1>3. CASE UNCHANGED vars
  BY <1>2, <1>3 DEF vars, disk, runners, doors, history, StopInv, WorkGated, StampsLead, MarkedOnce, Unlinks,
     StopIsFinal, Closing, LateIsRefused
<1>4. ASSUME NEW p \in Runners,
             RunnerStep(p) \/ FenceDeadline(p) \/ Crash(p) \/ WatcherSees(p) \/ WatcherSwept(p)
      PROVE  StopInv'
  BY <1>1, <1>2, <1>4, RunnerKeeps
<1>5. ASSUME NEW d \in Doors, Calls(d) \/ DoorStep(d) PROVE StopInv'
  BY <1>2, <1>5, DoorKeeps
<1>6. ASSUME NEW o \in Observers, ProbeTakes(o) \/ ProbeDrops(o) PROVE StopInv'
  BY <1>2, <1>6, ProbeKeeps
<1>7. scene.observers \subseteq Observers /\ scene.orphans \subseteq Runners
  BY Cast DEF AllInv, HandoffTypeOK
<1> QED
  BY Zenon, <1>3, <1>4, <1>5, <1>6, <1>7 DEF Next

LEMMA StopInvariant == ASSUME ~ Stalls, OneStop PROVE Spec => [](AllInv /\ (Quiet => StopInv))
<1>1. Init => AllInv /\ (Quiet => StopInv)
  BY HandoffInitType, VerdictInit, StopInit, HandoffConstants DEF AllInv, Init, DriverHoldsLock, Driving, Sites
<1>2. AllInv /\ (Quiet => StopInv) /\ [Next]_vars => (AllInv /\ (Quiet => StopInv))'
  BY HandoffStepType, DriverStep, VerdictStep, StopStep DEF AllInv
<1> QED
  BY <1>1, <1>2, PTL DEF Spec

\* A consumed stop is proven (consume_markers publishes before it unlinks, the duplicate-consumer
\* check keeps a racing spawn from covering it up), an answer after it is refused (_release_core) and
\* no record is written any more, where nothing crashes or is swept and one door stops.
THEOREM StopsAreFinal == ASSUME ~ Stalls, OneStop PROVE Spec => StopHolds
<1>1. AllInv /\ (Quiet => StopInv) => (Quiet => StopProofDurable /\ LateReleaseRefused)
  <2> SUFFICES ASSUME AllInv, StopInv PROVE StopProofDurable /\ LateReleaseRefused
    OBVIOUS
  <2>1. StopProofDurable
    BY DEF StopInv, StopIsFinal, StopProofDurable
  <2>2. LateReleaseRefused
    BY DEF StopInv, LateIsRefused, LateReleaseRefused, Landed
  <2> QED
    BY <2>1, <2>2
<1>2. AllInv /\ (Quiet => StopInv) /\ [Next]_vars => [Quiet /\ asked /\ ~ stop => UNCHANGED <<gate, work>>]_vars
  <2> SUFFICES ASSUME AllInv, StopInv, Next, asked, ~ stop PROVE UNCHANGED <<gate, work>>
    OBVIOUS
  <2>1. ASSUME NEW p \in Runners, Wave(p) \/ CommitGate(p) PROVE FALSE
    BY <2>1 DEF StopInv, StopIsFinal, Wave, CommitGate, Rounds
  <2>2. ASSUME NEW p \in Runners,
               RunnerStep(p) \/ FenceDeadline(p) \/ Crash(p) \/ WatcherSees(p) \/ WatcherSwept(p)
        PROVE  UNCHANGED <<gate, work>>
    BY <2>1, <2>2, OnlyTheyRecord
  <2>3. ASSUME NEW d \in Doors, Calls(d) \/ DoorStep(d) PROVE UNCHANGED <<gate, work>>
    BY <2>3, DoorsLeave DEF StopInv
  <2>4. ASSUME NEW o \in Observers, ProbeTakes(o) \/ ProbeDrops(o) PROVE UNCHANGED <<gate, work>>
    BY <2>4, WatchersLeave DEF disk
  <2>5. scene.observers \subseteq Observers /\ scene.orphans \subseteq Runners
    BY Cast DEF AllInv, HandoffTypeOK
  <2> QED
    BY Zenon, <2>2, <2>3, <2>4, <2>5 DEF Next
<1> QED
  BY <1>1, <1>2, StopInvariant, PTL DEF Spec, StopHolds
=============================================================================
