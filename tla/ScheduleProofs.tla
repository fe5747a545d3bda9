---------------------------- MODULE ScheduleProofs ----------------------------
(***************************************************************************)
(* For any graphs: type correctness of Schedule, that records are kept,    *)
(* that nothing runs on inputs that are not committed, and that a flagged  *)
(* run spawns nothing.                                                     *)
(***************************************************************************)
EXTENDS Schedule, TLAPS

\* What a record is to the scheduler.
LEMMA StateOfType == \A r \in Records : StateOf(r) \in States
BY DEF StateOf, Records, States

LEMMA StateOfInverse ==
  \A r \in Records :
    /\ StateOf(r) = "pending" <=> r = "none"
    /\ StateOf(r) = "done" <=> r = "done"
    /\ StateOf(r) = "skipped" <=> r \in {"skipped", "caught"}
    /\ StateOf(r) = "partial" <=> r \in {"partial", "answer"}
    /\ StateOf(r) = "failed" <=> r \in {"failed", "capped", "empty"}
BY DEF StateOf, Records

\* A graph is a finite sequence of nodes, at least one.
LEMMA GraphShape ==
  ASSUME graph \in Graphs
  PROVE  /\ N \in Nat \ {0} /\ Nodes = 1..N
         /\ \A n \in Nodes : graph[n].order \subseteq Nodes /\ graph[n].after \subseteq Nodes
<1>1. graph \in Seq(NodeType) /\ ValidGraph(graph)
  BY ScheduleConstants
<1> QED
  BY <1>1 DEF N, Nodes, ValidGraph

-----------------------------------------------------------------------------
(* Types.                                                                  *)

LEMMA ScheduleInitType == Init => ScheduleTypeOK
<1> SUFFICES ASSUME Init PROVE ScheduleTypeOK
  OBVIOUS
<1>1. 1 \in Nodes
  BY GraphShape DEF Init
<1>2. flag \in BOOLEAN /\ caught \in BOOLEAN
  BY Zenon DEF Init
<1> QED
  BY <1>1, <1>2, ScheduleConstants DEF Init, ScheduleTypeOK, Records, States

\* Where a pass can go.
LEMMA StepType ==
  ASSUME ScheduleTypeOK, NEW next, Step(next)
  PROVE  at' \in Nodes /\ (pc' = pc \/ pc' = next)
BY GraphShape DEF ScheduleTypeOK, Step

LEMMA ForgottenType ==
  ASSUME ScheduleTypeOK, Forgotten
  PROVE  /\ at' \in Nodes /\ states' \in [Nodes -> States]
         /\ dead' \subseteq Nodes /\ todo' \subseteq Nodes /\ wave' \subseteq Nodes
         /\ caught' \in BOOLEAN
<1>1. caught' \in BOOLEAN
  BY Zenon DEF Forgotten
<1> QED
  BY <1>1, GraphShape DEF ScheduleTypeOK, Forgotten, States

LEMMA ScheduleStepType == ScheduleTypeOK /\ [Next]_vars => ScheduleTypeOK'
<1> SUFFICES ASSUME ScheduleTypeOK, [Next]_vars PROVE ScheduleTypeOK'
  OBVIOUS
<1> USE DEF ScheduleTypeOK, disk, round
<1>0. graph' = graph /\ N' = N /\ Nodes' = Nodes
  BY DEF Next, Round, Agents, Answers, Over, vars, N, Nodes, ReadRecords, Prune, SaveSkip,
     AllSkipsSaved, PartialPass, EchoPass, JoinPass, PartnerPass, PickReady, SpawnPass, WaveEnds,
     NoGate, GateSettles, GatePassedOver, GateCloses, Park, Answer, Quiet, CatchPass, Crash,
     AgentCommits, FansOutNothing, RaisesFlag
<1>1. CASE ReadRecords
  BY <1>0, <1>1, StateOfType DEF ReadRecords, OnDisk, Ends
<1>2. CASE Prune
  <2>1. todo' \subseteq Nodes
    BY <1>2 DEF Prune, Pruned
  <2>2. states' \in [Nodes -> States]
    BY <1>2 DEF Prune, States
  <2> QED
    BY <1>0, <1>2, <2>1, <2>2 DEF Prune
<1>3. CASE SaveSkip
  <2>1. rec' \in [Nodes -> Records] /\ todo' \subseteq Nodes
    BY <1>3 DEF SaveSkip, Save, Records
  <2> QED
    BY <1>0, <1>3, <2>1 DEF SaveSkip
<1>4. CASE AllSkipsSaved
  BY <1>0, <1>4 DEF AllSkipsSaved, Passes
<1>5. CASE PartialPass
  <2>1. at' \in Nodes /\ pc' \in Passes
    BY <1>5, StepType DEF PartialPass, Passes
  <2>2. rec' \in [Nodes -> Records] /\ states' \in [Nodes -> States]
    BY <1>5 DEF PartialPass, Commit, Save, Mark, Nothing, Records, States, StateOf
  <2>3. dead' \subseteq Nodes
    BY <1>5 DEF PartialPass, Dead
  <2> QED
    BY <1>0, <1>5, <2>1, <2>2, <2>3 DEF PartialPass
<1>6. CASE EchoPass
  <2>1. at' \in Nodes /\ pc' \in Passes
    BY <1>6, StepType DEF EchoPass, Passes
  <2>2. rec' \in [Nodes -> Records] /\ states' \in [Nodes -> States]
    BY <1>6 DEF EchoPass, Commit, Save, Mark, Nothing, Records, States, StateOf
  <2>3. past' \in [Nodes -> SUBSET Nodes]
    BY <1>6 DEF EchoPass, Spliced
  <2> QED
    BY <1>0, <1>6, <2>1, <2>2, <2>3 DEF EchoPass
<1>7. CASE JoinPass
  <2>1. at' \in Nodes /\ pc' \in Passes
    BY <1>7, StepType DEF JoinPass, Passes
  <2>2. rec' \in [Nodes -> Records] /\ states' \in [Nodes -> States]
    BY <1>7 DEF JoinPass, Commit, Save, Mark, Nothing, Records, States, StateOf
  <2> QED
    BY <1>0, <1>7, <2>1, <2>2 DEF JoinPass
<1>8. CASE PartnerPass
  <2>1. at' \in Nodes /\ pc' \in Passes \cup {"ready"}
    BY <1>8, StepType DEF PartnerPass, Passes
  <2>2. rec' \in [Nodes -> Records] /\ states' \in [Nodes -> States]
    BY <1>8 DEF PartnerPass, Commit, Save, Mark, Nothing, Records, States, StateOf
  <2> QED
    BY <1>0, <1>8, <2>1, <2>2 DEF PartnerPass
<1>9. CASE PickReady
  BY <1>0, <1>9 DEF PickReady, Ready, Pending, Passes
<1>10. CASE SpawnPass
  <2>1. at' \in Nodes /\ pc' \in Passes \cup {"wave"}
    BY <1>10, StepType DEF SpawnPass, Passes
  <2>2. rec' \in [Nodes -> Records] /\ wave' \subseteq Nodes
    BY <1>10 DEF SpawnPass, Save, Records
  <2> QED
    BY <1>0, <1>10, <2>1, <2>2 DEF SpawnPass
<1>11. CASE WaveEnds
  BY <1>0, <1>11, ForgottenType DEF WaveEnds, NextRound
<1>12. CASE NoGate
  BY <1>0, <1>12 DEF NoGate
<1>13. CASE GateCloses
  <2>1. rec' \in [Nodes -> Records]
    BY <1>13 DEF GateCloses, Save, Records
  <2> QED
    BY <1>0, <1>13, <2>1, ForgottenType DEF GateCloses, NextRound
<1>14. CASE Quiet
  BY <1>0, <1>14 DEF Quiet, Ends, Passes
<1>15. CASE CatchPass
  <2>1. rec' \in [Nodes -> Records]
    BY <1>15 DEF CatchPass, Save, Records
  <2>2. flag' \in BOOLEAN
    BY <1>15, Zenon DEF CatchPass
  <2>3. /\ at' \in Nodes /\ states' \in [Nodes -> States]
        /\ dead' \subseteq Nodes /\ todo' \subseteq Nodes /\ wave' \subseteq Nodes
        /\ pc' \in {"top", "catch", "blocked"}
    BY <1>15, ForgottenType, GraphShape DEF CatchPass, CatchesOver, NextRound
  <2>4. caught' \in BOOLEAN
    BY <1>15, ForgottenType DEF CatchPass, CatchesOver, NextRound
  <2> QED
    BY <1>0, <1>15, <2>1, <2>2, <2>3, <2>4 DEF CatchPass, Passes, Ends
<1>16. ASSUME NEW g \in Nodes, GateSettles(g) PROVE ScheduleTypeOK'
  <2>1. rec' \in [Nodes -> Records]
    BY <1>16 DEF GateSettles, Save, Records
  <2> QED
    BY <1>0, <1>16, <2>1, ForgottenType DEF GateSettles, NextRound
<1>17. ASSUME NEW g \in Nodes, GatePassedOver(g) PROVE ScheduleTypeOK'
  BY <1>0, <1>17 DEF GatePassedOver
<1>18. ASSUME NEW g \in Nodes, Park(g) PROVE ScheduleTypeOK'
  BY <1>0, <1>18 DEF Park
<1>19. ASSUME NEW g \in Nodes, Answer(g) PROVE ScheduleTypeOK'
  BY <1>0, <1>19, ForgottenType DEF Answer, NextRound
<1>20. ASSUME NEW n \in Nodes, AgentCommits(n) \/ FansOutNothing(n) PROVE ScheduleTypeOK'
  <2>1. rec' \in [Nodes -> Records] /\ wave' \subseteq Nodes
    BY <1>20 DEF AgentCommits, FansOutNothing, Save, Records
  <2> QED
    BY <1>0, <1>20, <2>1 DEF AgentCommits, FansOutNothing
<1>21. ASSUME NEW n \in Nodes, RaisesFlag(n) PROVE ScheduleTypeOK'
  <2>1. flag' \in BOOLEAN
    BY <1>21, Zenon DEF RaisesFlag
  <2> QED
    BY <1>0, <1>21, <2>1 DEF RaisesFlag
<1>22. CASE Crash
  BY <1>0, <1>22, ForgottenType DEF Crash, NextRound
<1>23. CASE UNCHANGED vars
  BY <1>0, <1>23 DEF vars
<1> QED
  BY Zenon, <1>1, <1>2, <1>3, <1>4, <1>5, <1>6, <1>7, <1>8, <1>9, <1>10, <1>11, <1>12, <1>13,
     <1>14, <1>15, <1>16, <1>17, <1>18, <1>19, <1>20, <1>21, <1>22, <1>23
     DEF Next, Round, Agents, Answers, Over

\* Every variable keeps its type, whatever the graphs.
THEOREM ScheduleTypeCorrect == Spec => []ScheduleTypeOK
<1>1. Init => ScheduleTypeOK
  BY ScheduleInitType
<1>2. ScheduleTypeOK /\ [Next]_vars => ScheduleTypeOK'
  BY ScheduleStepType
<1> QED
  BY <1>1, <1>2, PTL DEF Spec

-----------------------------------------------------------------------------
(* The inductive invariant: the runner's view, and what it is about to run. *)

\* A flagged run is never in the spawn pass.
FlagHolds == flag => pc # "spawn"

ScheduleInv == ScheduleTypeOK /\ ViewTrue /\ RunnableIsFresh /\ InputsCommitted /\ FlagHolds

\* Inputs, once there, stay there.
LEMMA SuppliedStays ==
  ASSUME ScheduleTypeOK, graph' = graph, \A m \in Nodes : Kept(m),
         NEW n \in Nodes, Supplied(n)
  PROVE  Supplied(n)'
<1>1. \A a \in Data(n) : a \in Nodes
  BY GraphShape DEF ScheduleTypeOK, Data
<1>2. ASSUME NEW a \in Data(n) PROVE
        \/ rec'[a] \in {"done", "skipped", "caught"}
        \/ rec'[a] \in {"partial", "answer"} /\ graph[n].harvest
        \/ rec'[a] = "answer" /\ graph[a].answers
  <2>1. Kept(a) /\ rec[a] \in Records
    BY <1>1 DEF ScheduleTypeOK
  <2> QED
    BY <2>1, StateOfInverse DEF Supplied, Kept, Records
<1> QED
  BY <1>2 DEF Supplied, Data

\* The release law lets nobody go whose inputs are not on disk.
LEMMA ReleasedIsSupplied ==
  ASSUME ScheduleTypeOK, \A m \in Nodes : Seen(m), NEW n \in Nodes, DepsOk(n)
  PROVE  Supplied(n)
<1>1. ASSUME NEW a \in Data(n) PROVE
        \/ rec[a] \in {"done", "skipped", "caught"}
        \/ rec[a] \in {"partial", "answer"} /\ graph[n].harvest
        \/ rec[a] = "answer" /\ graph[a].answers
  <2>1. a \in Nodes /\ a \in graph[n].after /\ a \notin graph[n].order
    BY GraphShape DEF ScheduleTypeOK, Data
  <2>2. DepSatisfied(n, a)
    BY <2>1 DEF DepsOk
  <2>3. rec[a] \in Records /\ states[a] = StateOf(rec[a])
    BY <2>1 DEF ScheduleTypeOK, Seen
  <2> QED
    BY <2>2, <2>3, StateOfInverse DEF DepSatisfied, Released
<1> QED
  BY <1>1 DEF Supplied

\* What a pass commits, it commits for a pending node, and view and disk agree on it.
LEMMA CommitKeeps ==
  ASSUME ScheduleTypeOK, \A m \in Nodes : Seen(m), NEW n \in Pending, NEW r \in Records,
         Commit(n, r)
  PROVE  /\ \A m \in Nodes : Kept(m) /\ Seen(m)'
         /\ rec' = [rec EXCEPT ![n] = r]
<1>1. n \in Nodes /\ rec[n] = "none"
  BY StateOfInverse DEF Pending, Seen, ScheduleTypeOK
<1>2. rec' = [rec EXCEPT ![n] = r] /\ states' = [states EXCEPT ![n] = StateOf(r)]
  BY DEF Commit, Save, Mark
<1>3. ASSUME NEW m \in Nodes PROVE Kept(m) /\ states'[m] = StateOf(rec'[m])
  <2>1. CASE m = n
    BY <1>1, <1>2, <2>1 DEF ScheduleTypeOK, Kept
  <2>2. CASE m # n
    BY <1>2, <2>2 DEF ScheduleTypeOK, Kept, Seen
  <2> QED
    BY <2>1, <2>2
<1> QED
  BY <1>2, <1>3 DEF Seen

\* A node without a verdict gets one; no other verdict moves.
LEMMA SaveKeeps ==
  ASSUME ScheduleTypeOK, NEW n \in Nodes, rec[n] = "none", NEW r, Save(n, r)
  PROVE  \A m \in Nodes : Kept(m)
BY DEF ScheduleTypeOK, Save, Kept

\* What a pass does to the records and the view.
PassOver == Nothing \/ \E n \in Pending : \E r \in Records : Commit(n, r)

LEMMA PassKeeps ==
  ASSUME ScheduleTypeOK, \A m \in Nodes : Seen(m), PassOver
  PROVE  \A m \in Nodes : Kept(m) /\ Seen(m)'
<1>1. CASE Nothing
  BY <1>1 DEF Nothing, Kept, Seen
<1>2. CASE \E n \in Pending : \E r \in Records : Commit(n, r)
  BY <1>2, CommitKeeps
<1> QED
  BY <1>1, <1>2 DEF PassOver

LEMMA PassesPassOver ==
  PartialPass \/ EchoPass \/ JoinPass \/ PartnerPass => PassOver
<1>1. {"done", "failed"} \subseteq Records
  BY DEF Records
<1>2. PartialPass => PassOver
  BY <1>1 DEF PartialPass, PassOver
<1>3. EchoPass => PassOver
  BY <1>1 DEF EchoPass, PassOver
<1>4. JoinPass => PassOver
  BY <1>1 DEF JoinPass, JoinFires, PassOver
<1>5. PartnerPass => PassOver
  BY <1>1 DEF PartnerPass, PassOver
<1> QED
  BY <1>2, <1>3, <1>4, <1>5

\* No step loses or rewrites a verdict.
LEMMA StepKeeps ==
  ASSUME ScheduleInv, [Next]_vars
  PROVE  \A m \in Nodes : Kept(m)
<1> USE DEF ScheduleInv
<1>1. CASE PartialPass \/ EchoPass \/ JoinPass \/ PartnerPass
  <2>1. \A m \in Nodes : Seen(m)
    BY <1>1 DEF PartialPass, EchoPass, JoinPass, PartnerPass, ViewTrue
  <2> QED
    BY <1>1, <2>1, PassesPassOver, PassKeeps
<1>2. CASE SaveSkip
  <2>1. PICK n \in todo : Save(n, "skipped")
    BY <1>2 DEF SaveSkip
  <2>2. n \in Nodes /\ rec[n] = "none"
    BY <1>2 DEF SaveSkip, ViewTrue, ScheduleTypeOK
  <2> QED
    BY <2>1, <2>2, SaveKeeps
<1>3. CASE SpawnPass
  <2>1. CASE at \in todo
    <3>1. at \in Nodes /\ at >= at
      BY GraphShape DEF ScheduleTypeOK
    <3>2. rec[at] = "none"
      BY <1>3, <2>1, <3>1 DEF SpawnPass, RunnableIsFresh, Fresh
    <3>3. UNCHANGED rec \/ \E r : Save(at, r)
      BY <1>3 DEF SpawnPass
    <3> QED
      BY <3>1, <3>2, <3>3, SaveKeeps DEF Kept
  <2>2. CASE at \notin todo
    BY <1>3, <2>2 DEF SpawnPass, Kept
  <2> QED
    BY <2>1, <2>2
<1>4. ASSUME NEW n \in Nodes, AgentCommits(n) \/ FansOutNothing(n) PROVE \A m \in Nodes : Kept(m)
  <2>1. rec[n] = "none"
    BY <1>4 DEF AgentCommits, FansOutNothing, RunnableIsFresh, Fresh
  <2>2. \E r : Save(n, r)
    BY <1>4 DEF AgentCommits, FansOutNothing
  <2> QED
    BY <2>1, <2>2, SaveKeeps
<1>5. ASSUME NEW g \in Nodes, GateSettles(g) PROVE \A m \in Nodes : Kept(m)
  <2>1. rec[g] = "none"
    BY <1>5, StateOfInverse
       DEF GateSettles, FirstOpen, OpenGates, Pending, ViewTrue, Seen, ScheduleTypeOK
  <2>2. \E r : Save(g, r)
    BY <1>5 DEF GateSettles
  <2> QED
    BY <2>1, <2>2, SaveKeeps
<1>6. CASE GateCloses
  BY <1>6, SaveKeeps DEF GateCloses, RunnableIsFresh, Fresh, ScheduleTypeOK
<1>7. CASE CatchPass
  <2>1. CASE Tolerated(at)
    <3>1. StateOf(rec[at]) = "failed"
      BY <1>7, <2>1, GraphShape
         DEF CatchPass, Tolerated, Catchable, ViewTrue, Seen, ScheduleTypeOK
    <3>2. rec' = [rec EXCEPT ![at] = "caught"]
      BY <1>7, <2>1 DEF CatchPass, Save
    <3> QED
      BY <3>1, <3>2 DEF Kept, ScheduleTypeOK
  <2>2. CASE ~ Tolerated(at)
    BY <1>7, <2>2 DEF CatchPass, Kept
  <2> QED
    BY <2>1, <2>2
<1>8. ASSUME UNCHANGED rec PROVE \A m \in Nodes : Kept(m)
  BY <1>8 DEF Kept
<1>9. \/ PartialPass \/ EchoPass \/ JoinPass \/ PartnerPass \/ SaveSkip \/ SpawnPass
      \/ GateCloses \/ CatchPass \/ UNCHANGED rec
      \/ \E n \in Nodes : AgentCommits(n) \/ FansOutNothing(n) \/ GateSettles(n)
  BY DEF Next, Round, Agents, Answers, Over, vars, disk, ReadRecords, Prune, AllSkipsSaved,
     PickReady, WaveEnds, NoGate, GatePassedOver, Park, Answer, Quiet, Crash, RaisesFlag
<1> QED
  BY <1>1, <1>2, <1>3, <1>4, <1>5, <1>6, <1>7, <1>8, <1>9

\* Who newly ran had its inputs; the others keep theirs.
LEMMA InputsStay ==
  ASSUME ScheduleTypeOK, InputsCommitted, graph' = graph, \A m \in Nodes : Kept(m),
         \A n \in Nodes : rec'[n] # rec[n] /\ rec'[n] \in {"done", "partial", "answer"}
                          /\ graph[n].kind \in {"agent", "gate", "echo"} => Supplied(n)
  PROVE  InputsCommitted'
<1>1. Nodes' = Nodes
  BY DEF Nodes
<1> SUFFICES ASSUME NEW n \in Nodes, rec'[n] \in {"done", "partial", "answer"},
                    graph[n].kind \in {"agent", "gate", "echo"}
             PROVE  Supplied(n)'
  BY <1>1 DEF InputsCommitted, Ran
<1>2. Supplied(n)
  BY DEF InputsCommitted, Ran
<1> QED
  BY <1>2, SuppliedStays

\* Who is about to run stays so until its own verdict.
LEMMA FreshStays ==
  ASSUME ScheduleTypeOK, graph' = graph, \A m \in Nodes : Kept(m),
         NEW n \in Nodes, Fresh(n), rec'[n] = rec[n]
  PROVE  Fresh(n)'
BY SuppliedStays DEF Fresh

\* A new round has nothing to be wrong about.
LEMMA NewRoundHolds ==
  ASSUME NextRound
  PROVE  ViewTrue' /\ RunnableIsFresh'
BY DEF NextRound, Forgotten, ViewTrue, RunnableIsFresh

LEMMA SameGraph ==
  ASSUME [Next]_vars
  PROVE  graph' = graph /\ N' = N /\ Nodes' = Nodes
BY DEF Next, Round, Agents, Answers, Over, vars, disk, N, Nodes, ReadRecords, Prune, SaveSkip,
   AllSkipsSaved, PartialPass, EchoPass, JoinPass, PartnerPass, PickReady, SpawnPass, WaveEnds,
   NoGate, GateSettles, GatePassedOver, GateCloses, Park, Answer, Quiet, CatchPass, Crash,
   AgentCommits, FansOutNothing, RaisesFlag

LEMMA FlagStep ==
  ASSUME ScheduleInv, [Next]_vars
  PROVE  FlagHolds'
<1>1. flag => pc # "spawn"
  BY DEF ScheduleInv, FlagHolds
<1>2. pc' = "spawn" => (pc = "spawn" /\ flag' = flag) \/ PickReady
  BY DEF Next, Round, Agents, Answers, Over, vars, disk, round, NextRound, Forgotten, Step, Ends,
     ReadRecords, Prune, SaveSkip, AllSkipsSaved, PartialPass, EchoPass, JoinPass, PartnerPass,
     SpawnPass, WaveEnds, NoGate, GateSettles, GatePassedOver, GateCloses, Park, Answer,
     CatchPass, CatchesOver, Crash, AgentCommits, FansOutNothing, RaisesFlag, Quiet
<1>3. PickReady => (pc' = "spawn" => ~ flag')
  BY DEF PickReady, disk
<1> QED
  BY <1>1, <1>2, <1>3 DEF FlagHolds

LEMMA ScheduleInvStep ==
  ASSUME ScheduleInv, [Next]_vars
  PROVE  ScheduleInv'
<1> USE DEF disk, round
<1>0. ScheduleTypeOK /\ ViewTrue /\ RunnableIsFresh /\ InputsCommitted
  BY DEF ScheduleInv
<1>a. graph' = graph /\ N' = N /\ Nodes' = Nodes /\ \A m \in Nodes : Kept(m)
  BY SameGraph, StepKeeps
<1>b. N \in Nat \ {0} /\ Nodes = 1..N /\ at \in Nodes
  BY <1>0, GraphShape DEF ScheduleTypeOK
<1>t. ScheduleTypeOK'
  BY <1>0, ScheduleStepType
<1> SUFFICES ViewTrue' /\ RunnableIsFresh' /\ InputsCommitted'
  BY <1>t, FlagStep DEF ScheduleInv
<1>c. UNCHANGED rec => InputsCommitted'
  BY <1>0, <1>a, InputsStay
<1>1. CASE ReadRecords
  <2>1. \A n \in Nodes : Seen(n)'
    BY <1>1 DEF ReadRecords, OnDisk, Seen
  <2> QED
    BY <1>0, <1>1, <1>a, <1>c, <2>1 DEF ReadRecords, ViewTrue, RunnableIsFresh
<1>2. CASE Prune
  <2>1. \A n \in todo' : n \in Nodes /\ states[n] = "pending" /\ rec[n] = "none"
    BY <1>0, <1>2, StateOfInverse DEF Prune, Pruned, ViewTrue, Seen, ScheduleTypeOK
  <2>2. \A n \in Nodes : IF n \in todo' THEN rec'[n] = "none" /\ states'[n] = "skipped" ELSE Seen(n)'
    BY <1>0, <1>2, <2>1 DEF Prune, ViewTrue, Seen
  <2> QED
    BY <1>0, <1>2, <1>a, <1>c, <2>2 DEF Prune, ViewTrue, RunnableIsFresh
<1>3. CASE SaveSkip
  <2>1. PICK n \in todo : rec' = [rec EXCEPT ![n] = "skipped"] /\ todo' = todo \ {n}
    BY <1>3 DEF SaveSkip, Save
  <2>2. StateOf("skipped") = "skipped"
    BY StateOfInverse DEF Records
  <2>3. \A m \in Nodes : IF m \in todo' THEN rec'[m] = "none" /\ states'[m] = "skipped" ELSE Seen(m)'
    BY <1>0, <1>3, <2>1, <2>2 DEF SaveSkip, ViewTrue, Seen, ScheduleTypeOK
  <2>4. InputsCommitted'
    BY <1>0, <1>a, <2>1, InputsStay DEF ScheduleTypeOK
  <2> QED
    BY <1>0, <1>3, <1>a, <2>3, <2>4 DEF SaveSkip, ViewTrue, RunnableIsFresh
<1>4. CASE AllSkipsSaved
  BY <1>0, <1>4, <1>a, <1>c DEF AllSkipsSaved, ViewTrue, RunnableIsFresh, Seen
<1>5. CASE PartialPass \/ EchoPass \/ JoinPass \/ PartnerPass
  <2>1. \A m \in Nodes : Seen(m)
    BY <1>0, <1>5 DEF PartialPass, EchoPass, JoinPass, PartnerPass, ViewTrue
  <2>2. \A m \in Nodes : Seen(m)'
    BY <1>0, <1>5, <2>1, PassesPassOver, PassKeeps
  <2>3. /\ pc' \in {"partials", "echoes", "joins", "partners", "ready"}
        /\ wave = {} /\ wave' = {}
    BY <1>0, <1>5
       DEF PartialPass, EchoPass, JoinPass, PartnerPass, Step, RunnableIsFresh
  <2>4. ViewTrue' /\ RunnableIsFresh'
    BY <1>a, <2>2, <2>3 DEF ViewTrue, RunnableIsFresh
  <2>5. ASSUME NEW n \in Nodes, rec'[n] # rec[n], rec'[n] \in {"done", "partial", "answer"},
               graph[n].kind \in {"agent", "gate", "echo"}
        PROVE  Supplied(n)
    <3>1. EchoPass /\ n = at /\ DepsOk(n)
      BY <1>0, <1>5, <2>5
         DEF PartialPass, EchoPass, JoinPass, JoinFires, PartnerPass, Commit, Save, Nothing,
             ScheduleTypeOK
    <3> QED
      BY <1>0, <2>1, <3>1, ReleasedIsSupplied
  <2>6. InputsCommitted'
    BY <1>0, <1>a, <2>5, InputsStay
  <2> QED
    BY <2>4, <2>6
<1>6. CASE PickReady
  <2>1. \A n \in todo' : n \in Nodes /\ Fresh(n)
    BY <1>0, <1>6, StateOfInverse, ReleasedIsSupplied
       DEF PickReady, Ready, Pending, ViewTrue, Seen, Fresh, ScheduleTypeOK
  <2>2. \A n \in todo' : Fresh(n)'
    BY <1>0, <1>6, <1>a, <2>1, FreshStays DEF PickReady
  <2>3. pc' \in {"gate", "spawn"} /\ wave' = {}
    BY <1>0, <1>6 DEF PickReady, RunnableIsFresh
  <2>4. ViewTrue'
    BY <1>0, <1>6, <1>a, <2>3 DEF PickReady, ViewTrue, Seen
  <2>5. RunnableIsFresh'
    BY <2>2, <2>3 DEF RunnableIsFresh
  <2> QED
    BY <1>c, <1>6, <2>4, <2>5 DEF PickReady
<1>7. CASE SpawnPass
  <2>1. /\ pc = "spawn" /\ todo' = todo /\ todo \subseteq Nodes
        /\ \A n \in todo : n >= at => Fresh(n)
        /\ \A n \in wave : n < at /\ n \in Nodes /\ (rec[n] = "empty" \/ Fresh(n))
    BY <1>0, <1>7 DEF SpawnPass, RunnableIsFresh, ScheduleTypeOK
  <2>2. at \in todo => Fresh(at)
    BY <1>b, <2>1
  <2>3. \A n \in Nodes : n # at => rec'[n] = rec[n]
    BY <1>0, <1>7 DEF SpawnPass, Save, ScheduleTypeOK
  <2>4. at \notin todo => rec' = rec /\ wave' = wave
    BY <1>7 DEF SpawnPass
  <2>5. wave' = wave \/ (wave' = wave \cup {at} /\ rec' = rec /\ at \in todo)
    BY <1>7 DEF SpawnPass
  <2>6. \/ at < N /\ at' = at + 1 /\ pc' = "spawn"
        \/ pc' = "wave"
    BY <1>7, <2>1 DEF SpawnPass, Step
  <2>7. \A n \in wave : rec'[n] = "empty" \/ Fresh(n)'
    BY <1>0, <1>a, <1>b, <2>1, <2>3, FreshStays
  <2>8. \A n \in wave' : rec'[n] = "empty" \/ Fresh(n)'
    BY <1>0, <1>a, <1>b, <2>2, <2>5, <2>7, FreshStays
  <2>9. pc' = "spawn" => /\ \A n \in todo' : n >= at' => Fresh(n)'
                         /\ \A n \in wave' : n < at'
    <3> SUFFICES ASSUME at < N, at' = at + 1
                 PROVE  /\ \A n \in todo : n >= at' => Fresh(n)'
                        /\ \A n \in wave' : n < at'
      BY <2>1, <2>6
    <3>1. ASSUME NEW n \in todo, n >= at' PROVE Fresh(n)'
      <4>1. n \in Nodes /\ n # at /\ Fresh(n)
        BY <1>b, <2>1, <3>1
      <4> QED
        BY <1>0, <1>a, <2>3, <4>1, FreshStays
    <3>2. \A n \in wave' : n < at'
      BY <1>b, <2>1, <2>5
    <3> QED
      BY <3>1, <3>2
  <2>10. ViewTrue' /\ RunnableIsFresh'
    BY <2>1, <2>6, <2>8, <2>9 DEF ViewTrue, RunnableIsFresh
  <2>11. InputsCommitted'
    BY <1>0, <1>a, <2>2, <2>3, <2>4, InputsStay DEF Fresh
  <2> QED
    BY <2>10, <2>11
<1>8. ASSUME NEW n \in Nodes, AgentCommits(n) \/ FansOutNothing(n)
      PROVE  ViewTrue' /\ RunnableIsFresh' /\ InputsCommitted'
  <2>1. pc = "wave" /\ pc' = "wave" /\ n \in wave /\ Fresh(n) /\ wave' \subseteq wave
    BY <1>0, <1>8 DEF AgentCommits, FansOutNothing, RunnableIsFresh
  <2>2. \A m \in Nodes : m # n => rec'[m] = rec[m]
    BY <1>0, <1>8 DEF AgentCommits, FansOutNothing, Save, ScheduleTypeOK
  <2>3. n \in wave' => rec'[n] = "empty"
    BY <1>0, <1>8 DEF AgentCommits, FansOutNothing, Save, ScheduleTypeOK
  <2>4. \A m \in wave' : rec'[m] = "empty" \/ Fresh(m)'
    BY <1>0, <1>a, <2>1, <2>2, <2>3, FreshStays DEF RunnableIsFresh, ScheduleTypeOK
  <2>5. ViewTrue' /\ RunnableIsFresh'
    BY <2>1, <2>4 DEF ViewTrue, RunnableIsFresh
  <2>6. InputsCommitted'
    BY <1>0, <1>a, <2>1, <2>2, InputsStay DEF Fresh
  <2> QED
    BY <2>5, <2>6
<1>9. ASSUME NEW n \in Nodes, RaisesFlag(n)
      PROVE  ViewTrue' /\ RunnableIsFresh' /\ InputsCommitted'
  <2>1. \A m \in wave' : rec'[m] = "empty" \/ Fresh(m)'
    BY <1>0, <1>9, <1>a, FreshStays DEF RaisesFlag, RunnableIsFresh, ScheduleTypeOK
  <2> QED
    BY <1>9, <1>c, <2>1 DEF RaisesFlag, ViewTrue, RunnableIsFresh
<1>10. CASE WaveEnds \/ Crash
  BY <1>10, <1>c, NewRoundHolds DEF WaveEnds, Crash
<1>11. CASE NoGate \/ Quiet
  <2>1. /\ wave' = {} /\ pc' \notin {"skip", "spawn", "closing"}
        /\ \A n \in Nodes : Seen(n)'
    BY <1>0, <1>11 DEF NoGate, Quiet, ViewTrue, RunnableIsFresh, Seen
  <2> QED
    BY <1>11, <1>a, <1>b, <1>c, <2>1 DEF NoGate, Quiet, ViewTrue, RunnableIsFresh
<1>12. ASSUME NEW g \in Nodes, GateSettles(g)
       PROVE  ViewTrue' /\ RunnableIsFresh' /\ InputsCommitted'
  <2>1. Supplied(g)
    BY <1>0, <1>12, ReleasedIsSupplied DEF GateSettles, FirstOpen, OpenGates, ViewTrue
  <2>2. \A m \in Nodes : m # g => rec'[m] = rec[m]
    BY <1>0, <1>12 DEF GateSettles, Save, ScheduleTypeOK
  <2>3. InputsCommitted'
    BY <1>0, <1>a, <2>1, <2>2, InputsStay
  <2> QED
    BY <1>12, <2>3, NewRoundHolds DEF GateSettles
<1>13. ASSUME NEW g \in Nodes, GatePassedOver(g)
       PROVE  ViewTrue' /\ RunnableIsFresh' /\ InputsCommitted'
  <2>1. Fresh(g)
    BY <1>0, <1>13, ReleasedIsSupplied, StateOfInverse
       DEF GatePassedOver, FirstOpen, OpenGates, Pending, ViewTrue, Seen, Fresh, ScheduleTypeOK
  <2>2. Fresh(g)'
    BY <1>0, <1>13, <1>a, <2>1, FreshStays DEF GatePassedOver
  <2> QED
    BY <1>0, <1>13, <1>c, <2>2 DEF GatePassedOver, ViewTrue, RunnableIsFresh, Fresh, Supplied, Data
<1>14. CASE GateCloses
  <2>1. Supplied(at)
    BY <1>0, <1>14 DEF GateCloses, RunnableIsFresh, Fresh
  <2>2. \A m \in Nodes : m # at => rec'[m] = rec[m]
    BY <1>0, <1>14 DEF GateCloses, Save, ScheduleTypeOK
  <2>3. InputsCommitted'
    BY <1>0, <1>a, <2>1, <2>2, InputsStay
  <2> QED
    BY <1>14, <2>3, NewRoundHolds DEF GateCloses
<1>15. ASSUME NEW g \in Nodes, Park(g) \/ Answer(g)
       PROVE  ViewTrue' /\ RunnableIsFresh' /\ InputsCommitted'
  <2>1. CASE Park(g)
    BY <1>0, <1>a, <1>c, <2>1 DEF Park, ViewTrue, RunnableIsFresh, Seen
  <2>2. CASE Answer(g)
    BY <1>c, <2>2, NewRoundHolds DEF Answer
  <2> QED
    BY <1>15, <2>1, <2>2
<1>16. CASE CatchPass
  <2>1. \A m \in Nodes : m # at => rec'[m] = rec[m]
    BY <1>0, <1>16 DEF CatchPass, Save, ScheduleTypeOK
  <2>2. rec'[at] = rec[at] \/ rec'[at] = "caught"
    BY <1>0, <1>16 DEF CatchPass, Save, ScheduleTypeOK
  <2>3. InputsCommitted'
    BY <1>0, <1>a, <2>1, <2>2, InputsStay
  <2>4. CASE NextRound
    BY <2>3, <2>4, NewRoundHolds
  <2>5. CASE at < N /\ at' = at + 1 /\ pc' = pc /\ UNCHANGED <<states, wave>>
    <3>1. \A n \in at'..N' : Seen(n)'
      BY <1>0, <1>16, <1>a, <1>b, <2>1, <2>5 DEF CatchPass, ViewTrue, Seen
    <3> QED
      BY <1>0, <1>16, <2>3, <2>5, <3>1 DEF CatchPass, ViewTrue, RunnableIsFresh
  <2>6. CASE pc' = "blocked" /\ UNCHANGED wave
    BY <1>0, <1>16, <2>3, <2>6 DEF CatchPass, ViewTrue, RunnableIsFresh
  <2> QED
    BY <1>16, <2>4, <2>5, <2>6 DEF CatchPass, CatchesOver
<1>17. CASE UNCHANGED vars
  <2>1. /\ \A n : Seen(n)' <=> Seen(n)
        /\ \A n : Fresh(n)' <=> Fresh(n)
    BY <1>17 DEF vars, Seen, Fresh, Supplied, Data
  <2> QED
    BY <1>0, <1>17, <1>a, <1>c, <2>1 DEF vars, ViewTrue, RunnableIsFresh
<1> QED
  BY Zenon, <1>1, <1>2, <1>3, <1>4, <1>5, <1>6, <1>7, <1>8, <1>9, <1>10, <1>11, <1>12, <1>13,
     <1>14, <1>15, <1>16, <1>17 DEF Next, Round, Agents, Answers, Over

LEMMA ScheduleInvariance == Spec => []ScheduleInv
<1>1. Init => ScheduleInv
  <2> SUFFICES ASSUME Init PROVE ViewTrue /\ RunnableIsFresh /\ InputsCommitted /\ FlagHolds
    BY ScheduleInitType DEF ScheduleInv
  <2> QED
    BY DEF Init, ViewTrue, RunnableIsFresh, InputsCommitted, Ran, FlagHolds
<1>2. ScheduleInv /\ [Next]_vars => ScheduleInv'
  BY ScheduleInvStep
<1> QED
  BY <1>1, <1>2, PTL DEF Spec

-----------------------------------------------------------------------------
(* The theorems.                                                           *)

\* A pass never acts on a view that is older than the disk (wf.py main.loop).
THEOREM ViewsAreTrue == Spec => []ViewTrue
BY ScheduleInvariance, PTL DEF ScheduleInv

\* Whatever a wave, a refusal or a skip is about has no verdict and has its inputs
\* (wf.py main.loop, the spawn pass).
THEOREM RunnablesAreFresh == Spec => []RunnableIsFresh
BY ScheduleInvariance, PTL DEF ScheduleInv

\* Nothing ever ran on an input that is not committed (wfcommon release_law).
THEOREM InputsAreCommitted == Spec => []InputsCommitted
BY ScheduleInvariance, PTL DEF ScheduleInv

\* No verdict is lost, run again or rewritten, over any number of crashes
\* (save_node, node_rec).
THEOREM RecordsAreKept == Spec => RecordsStick
<1>1. ScheduleInv /\ [Next]_vars => [\A n \in Nodes : Kept(n)]_vars
  BY StepKeeps
<1> QED
  BY <1>1, ScheduleInvariance, PTL DEF Spec, RecordsStick

\* A flagged run spawns nothing new (wf.py:10949).
THEOREM FlaggedRunsSpawnNothing == Spec => AbortSpawnsNothing
<1>1. ScheduleInv /\ [Next]_vars => [flag => wave' \subseteq wave]_vars
  <2> SUFFICES ASSUME ScheduleInv, Next, flag PROVE wave' \subseteq wave
    OBVIOUS
  <2>1. pc # "spawn"
    BY DEF ScheduleInv, FlagHolds
  <2> QED
    BY <2>1
       DEF Next, Round, Agents, Answers, Over, vars, disk, round, NextRound, Forgotten,
           ReadRecords, Prune, SaveSkip, AllSkipsSaved, PartialPass, EchoPass, JoinPass,
           PartnerPass, PickReady, SpawnPass, WaveEnds, NoGate, GateSettles, GatePassedOver,
           GateCloses, Park, Answer, Quiet, CatchPass, CatchesOver, Crash, AgentCommits,
           FansOutNothing, RaisesFlag
<1> QED
  BY <1>1, ScheduleInvariance, PTL DEF Spec, AbortSpawnsNothing
=============================================================================
