------------------------------- MODULE Schedule -------------------------------
(***************************************************************************)
(* The wave scheduler of a runner: wf.py main.loop with the release law of *)
(* wfcommon (prune_states, release_law, released_partials, dead_set).      *)
(*                                                                         *)
(* The node records on disk are the only memory a runner has: every round  *)
(* reads them into a map of states, runs a fixed sequence of passes over   *)
(* the nodes in the order of graph.json, and then spawns a wave, parks at  *)
(* a gate or ends.  A pass handles one node per step, so that a SIGKILL    *)
(* may fall between any two writes; the next runner starts from the        *)
(* records.  The markers and the lock are module RunnerHandoff's.          *)
(***************************************************************************)
EXTENDS Naturals, Sequences, FiniteSets

CONSTANTS
  Graphs,   \* the graphs a run may have, each a sequence of nodes
  Crashes   \* bound: SIGKILLs of runners

Kinds == {"agent", "gate", "echo", "join", "partner"}

\* A node, as far as the scheduler looks at it: `order` are the dependencies that
\* order_only lists, `from` the fan-out of a consolidate partner.
NodeType ==
  [kind    : Kinds,
   after   : SUBSET Nat, order : SUBSET Nat, from : Nat,
   onFail  : {"none", "skip", "abort", "to"},
   to      : Nat,          \* the fallback agent of onFail = "to"
   holds   : BOOLEAN,      \* what its `when` evaluates to; no `when` holds
   onSkip  : {"prune", "pass"},
   harvest : BOOLEAN,      \* after_partial
   answers : BOOLEAN,      \* declares answer-only work
   fan     : BOOLEAN,      \* a fan-out, whose items may turn out to be none
   guarded : BOOLEAN,      \* requires, publishes or effects: may be refused
   wait    : {"human", "machine", "any", "terminal"}]

\* Everything that n waits for, whatever for.
Ancestors(g, n) ==
  LET up[k \in 0..Len(g)] ==
        IF k = 0 THEN g[n].after ELSE up[k - 1] \cup UNION {g[a].after : a \in up[k - 1]}
  IN up[Len(g)]

ValidGraph(g) ==
  /\ Len(g) > 0
  /\ \A n \in DOMAIN g :
       /\ g[n].order \subseteq g[n].after /\ g[n].after \subseteq DOMAIN g
       /\ n \notin Ancestors(g, n)
       /\ g[n].kind = "partner" => g[n].from \in g[n].after /\ g[g[n].from].fan
       /\ g[n].onFail = "to" => /\ g[n].to \in DOMAIN g \ (Ancestors(g, n) \cup {n})
                                /\ g[g[n].to].kind \in {"agent", "partner"}

ASSUME ScheduleConstants ==
  /\ Graphs \subseteq Seq(NodeType) /\ \A g \in Graphs : ValidGraph(g)
  /\ Crashes \in Nat

VARIABLES
  graph,     \* graph.json; it does not change here
  rec,       \* nodes/<id>.json: the committed status of each node
  answered,  \* gates/<id>.json: the gates with a valid answer on disk
  flag,      \* abort.json exists
  pc,        \* which pass the runner is in, or how the run ended
  at,        \* the node the pass is at
  states,    \* the round's view of the records
  dead,      \* dead_set, as release_law computed it
  todo,      \* derived skips to commit; then the ready nodes
  wave,      \* the agents of the wave that have not committed yet
  caught,    \* _on_fail_catch has caught something
  past,      \* node.spliced: the dead predecessors each node was released past
  crashes

disk == <<graph, rec, answered, flag>>
round == <<at, states, dead, todo, wave, caught>>
vars == <<disk, pc, round, past, crashes>>

N == Len(graph)
Nodes == DOMAIN graph

\* "answer" is a partial with nothing left to do, "capped" and "empty" are the
\* failures of class budget_exhausted and fanout_empty, "caught" is a skip that
\* _on_fail_catch made of a failure.
Records == {"none", "done", "partial", "answer", "failed", "capped", "empty",
            "skipped", "caught"}
States == {"pending", "done", "partial", "failed", "skipped"}
Passes == {"partials", "echoes", "joins", "partners", "spawn", "catch"}
Ends == {"done", "partial", "blocked", "aborted", "dead_end", "stuck"}

ScheduleTypeOK ==
  /\ graph \in Graphs
  /\ rec \in [Nodes -> Records]
  /\ answered \subseteq Nodes
  /\ flag \in BOOLEAN /\ caught \in BOOLEAN
  /\ pc \in Passes \cup Ends \cup {"top", "prune", "skip", "ready", "wave", "gate", "closing", "parked", "quiet"}
  /\ at \in Nodes
  /\ states \in [Nodes -> States]
  /\ dead \subseteq Nodes /\ todo \subseteq Nodes /\ wave \subseteq Nodes
  /\ past \in [Nodes -> SUBSET Nodes]
  /\ crashes \in Nat

-----------------------------------------------------------------------------
(* node_rec and the release law.                                           *)

\* node_rec.
StateOf(r) ==
  CASE r = "none" -> "pending"
    [] r = "answer" -> "partial"
    [] r \in {"capped", "empty"} -> "failed"
    [] r = "caught" -> "skipped"
    [] OTHER -> r

OnDisk == [n \in Nodes |-> StateOf(rec[n])]
Pending == {n \in Nodes : states[n] = "pending"}
Settled(st, n) == st[n] \in {"done", "partial", "failed", "skipped"}

\* A skipped dependency that names n as its fallback keeps n from the pruner.
Shielded(n) == \E a \in graph[n].after : graph[a].onFail = "to" /\ graph[a].to = n

\* prune_states: who is pending and has only skipped dependencies, to the end
\* of the cascade.
Pruned(st) ==
  LET bare[n \in Nodes] ==
        /\ graph[n].after # {} /\ ~ Shielded(n)
        /\ \A a \in graph[n].after : st[a] = "skipped" \/ (st[a] = "pending" /\ bare[a])
  IN {n \in Nodes : st[n] = "pending" /\ bare[n]}

\* Mutation: every finished answer releases, declared or not.
AnyAnswerReleases == {n \in Nodes : rec[n] = "answer"}

\* released_partials.
Released == {n \in Nodes : rec[n] = "answer" /\ graph[n].answers}

\* _unmet_partial.
UnmetPartials(n) ==
  IF graph[n].harvest THEN {}
  ELSE {a \in graph[n].after \ graph[n].order : states[a] = "partial" /\ a \notin Released}

\* dead_set: who can never commit.
Dead(st) ==
  LET d[n \in Nodes] ==
        \/ st[n] = "failed"
        \/ st[n] = "pending" /\ \E a \in graph[n].after \ graph[n].order : d[a]
  IN {n \in Nodes : d[n]}

\* Mutation: a dead predecessor is passed without a look at its own.
OrderDropped ==
  [a \in Nodes |-> states[a] \in {"done", "skipped", "partial"} \/ a \in dead]

\* An ordering edge waits for its predecessor to finish, or for the
\* predecessors of a dead one.
OrderOk ==
  LET ok[a \in Nodes] ==
        \/ states[a] \in {"done", "skipped", "partial"}
        \/ a \in dead /\ \A p \in graph[a].order : ok[p]
  IN ok

\* dep_satisfied.
DepSatisfied(n, a) ==
  \/ states[a] \in {"done", "skipped"}
  \/ states[a] = "partial" /\ (graph[n].harvest \/ a \in Released)

\* release_law: deps_ok (deps_res follows from it) and spliced.
DepsOk(n) ==
  \A a \in graph[n].after : IF a \in graph[n].order THEN OrderOk[a] ELSE DepSatisfied(n, a)
Spliced(n) == {a \in graph[n].order : a \in dead /\ OrderOk[a]}

-----------------------------------------------------------------------------
(* One round of the loop.                                                  *)

Forgotten ==
  /\ at' = 1 /\ states' = [n \in Nodes |-> "pending"]
  /\ dead' = {} /\ todo' = {} /\ wave' = {} /\ caught' = FALSE

\* Top of the loop; the memory of the last round is dead by then.
NextRound == pc' = "top" /\ Forgotten

\* The pass goes on with the next node, or the next pass begins.
Step(next) ==
  IF at < N THEN at' = at + 1 /\ UNCHANGED pc ELSE at' = 1 /\ pc' = next

Save(n, r) == rec' = [rec EXCEPT ![n] = r]
Mark(n, s) == states' = [states EXCEPT ![n] = s]

\* Commit and go on.
Commit(n, r) == Save(n, r) /\ Mark(n, StateOf(r))
Nothing == UNCHANGED <<rec, states>>

\* The records are read; a committed death of the run's budget closes the run
\* before anything else happens.
ReadRecords ==
  /\ pc = "top"
  /\ states' = OnDisk
  /\ pc' = IF \E n \in Nodes : rec[n] = "capped" THEN "partial" ELSE "prune"
  /\ UNCHANGED <<disk, at, dead, todo, wave, caught, past, crashes>>

Prune ==
  /\ pc = "prune"
  /\ todo' = Pruned(states)
  /\ states' = [n \in Nodes |-> IF n \in todo' THEN "skipped" ELSE states[n]]
  /\ pc' = "skip"
  /\ UNCHANGED <<disk, at, dead, wave, caught, past, crashes>>

\* The derived skips become records, in the order a set is iterated.
SaveSkip ==
  /\ pc = "skip"
  /\ \E n \in todo : Save(n, "skipped") /\ todo' = todo \ {n}
  /\ UNCHANGED <<graph, answered, flag, pc, at, states, dead, wave, caught, past, crashes>>

AllSkipsSaved ==
  /\ pc = "skip" /\ todo = {}
  /\ pc' = "partials"
  /\ UNCHANGED <<disk, round, past, crashes>>

\* Who waits for a partial that does not release it fails, whatever else it
\* waits for; after the pass the dead are known.
PartialPass ==
  /\ pc = "partials"
  /\ IF at \in Pending /\ UnmetPartials(at) # {} THEN Commit(at, "failed") ELSE Nothing
  /\ Step("echoes")
  /\ dead' = IF at = N THEN Dead(states') ELSE dead
  /\ UNCHANGED <<graph, answered, flag, todo, wave, caught, past, crashes>>

\* Every releasable node that goes past dead predecessors is logged, then the
\* echoes commit; one may be refused by its publisher, effect or close gate.
EchoPass ==
  /\ pc = "echoes"
  /\ past' = IF at > 1 THEN past
             ELSE [n \in Nodes |-> past[n] \cup IF n \in Pending /\ DepsOk(n) THEN Spliced(n) ELSE {}]
  /\ IF at \in Pending /\ graph[at].kind = "echo" /\ DepsOk(at)
       THEN \/ Commit(at, "done")
            \/ graph[at].guarded /\ Commit(at, "failed")
       ELSE Nothing
  /\ Step("joins")
  /\ UNCHANGED <<graph, answered, flag, dead, todo, wave, caught, crashes>>

\* A join commits when its parents have settled, or any of them has; a key that
\* a committed parent does not hold fails it.
JoinFires(n) ==
  /\ graph[n].kind = "join" /\ n \in Pending
  /\ IF graph[n].wait = "terminal" THEN \A a \in graph[n].after : Settled(states, a)
     ELSE \E a \in graph[n].after : states[a] \in {"done", "partial"}

JoinPass ==
  /\ pc = "joins"
  /\ IF JoinFires(at)
       THEN \/ Commit(at, "failed")
            \/ /\ graph[at].wait = "terminal" => \A a \in graph[at].after : states[a] # "failed"
               /\ Commit(at, "done")
       ELSE Nothing
  /\ Step("partners")
  /\ UNCHANGED <<graph, answered, flag, dead, todo, wave, caught, past, crashes>>

\* The partner of a fan-out fails with it or commits its tally, which may be
\* refused by its gates.
PartnerPass ==
  /\ pc = "partners"
  /\ LET source == states[graph[at].from] IN
     IF at \in Pending /\ graph[at].kind = "partner" /\ source \in {"done", "partial", "failed"}
       THEN \/ source # "failed" /\ Commit(at, "done")
            \/ (source = "failed" \/ graph[at].guarded) /\ Commit(at, "failed")
       ELSE Nothing
  /\ Step("ready")
  /\ UNCHANGED <<graph, answered, flag, dead, todo, wave, caught, past, crashes>>

Ready == {n \in Pending : graph[n].kind = "agent" /\ DepsOk(n)}

\* A flagged run spawns nothing new.
PickReady ==
  /\ pc = "ready"
  /\ todo' = IF flag THEN {} ELSE Ready
  /\ pc' = IF todo' = {} THEN "gate" ELSE "spawn"
  /\ UNCHANGED <<disk, at, states, dead, wave, caught, past, crashes>>

\* Who is ready is refused by its gate or its requires, skipped by a false
\* `when`, or joins the wave.
SpawnPass ==
  /\ pc = "spawn"
  /\ LET n == at IN
     IF n \notin todo THEN UNCHANGED <<rec, wave>>
     ELSE \/ graph[n].guarded /\ Save(n, "failed") /\ UNCHANGED wave
          \/ ~ graph[n].holds /\ UNCHANGED wave
             /\ Save(n, IF graph[n].onSkip = "pass" THEN "done" ELSE "skipped")
          \/ graph[n].holds /\ wave' = wave \cup {n} /\ UNCHANGED rec
  /\ Step("wave")
  /\ UNCHANGED <<graph, answered, flag, states, dead, todo, caught, past, crashes>>

\* run_agent_node commits its verdict.
AgentCommits(n) ==
  /\ pc = "wave" /\ n \in wave /\ rec[n] # "empty"
  /\ \E r \in {"done", "partial", "answer", "failed", "capped"} : Save(n, r)
  /\ wave' = wave \ {n}
  /\ UNCHANGED <<graph, answered, flag, pc, at, states, dead, todo, caught, past, crashes>>

\* A fan-out without items fails, and without a fallback agent it is going to
\* abort the run.
FansOutNothing(n) ==
  /\ pc = "wave" /\ n \in wave /\ rec[n] # "empty" /\ graph[n].fan
  /\ Save(n, "empty")
  /\ wave' = IF graph[n].onFail = "to" THEN wave \ {n} ELSE wave
  /\ UNCHANGED <<graph, answered, flag, pc, at, states, dead, todo, caught, past, crashes>>

\* _set_abort_flag, after the record.
RaisesFlag(n) ==
  /\ pc = "wave" /\ n \in wave /\ rec[n] = "empty"
  /\ flag' = TRUE
  /\ wave' = wave \ {n}
  /\ UNCHANGED <<graph, rec, answered, pc, at, states, dead, todo, caught, past, crashes>>

WaveEnds ==
  /\ pc = "wave" /\ wave = {}
  /\ NextRound
  /\ UNCHANGED <<disk, past, crashes>>

-----------------------------------------------------------------------------
(* No agent is ready.                                                      *)

OpenGates == {n \in Pending : graph[n].kind = "gate" /\ DepsOk(n)}

\* The gate that the list names first.
FirstOpen(g) == g \in OpenGates /\ \A m \in OpenGates : g <= m

NoGate ==
  /\ pc = "gate" /\ OpenGates = {}
  /\ pc' = "quiet"
  /\ UNCHANGED <<disk, round, past, crashes>>

\* The first open gate: refused by its requires, released by the answer on disk,
\* answered by a machine or by its time-box, or given up by the park watchdog.
GateSettles(g) ==
  /\ pc = "gate" /\ FirstOpen(g)
  /\ \/ graph[g].guarded /\ Save(g, "failed")
     \/ g \in answered /\ Save(g, "done")
     \/ g \notin answered /\ graph[g].holds /\ Save(g, "failed")
     \/ g \notin answered /\ graph[g].holds /\ graph[g].wait = "machine" /\ Save(g, "done")
  /\ NextRound
  /\ UNCHANGED <<graph, answered, flag, past, crashes>>

\* A false `when`: the skip is written where the answer would be, ...
GatePassedOver(g) ==
  /\ pc = "gate" /\ FirstOpen(g)
  /\ g \notin answered /\ ~ graph[g].holds
  /\ answered' = answered \cup {g}
  /\ at' = g
  /\ pc' = "closing"
  /\ UNCHANGED <<graph, rec, flag, states, dead, todo, wave, caught, past, crashes>>

\* ... and then into the gate's record.
GateCloses ==
  /\ pc = "closing"
  /\ Save(at, IF graph[at].onSkip = "pass" THEN "done" ELSE "skipped")
  /\ NextRound
  /\ UNCHANGED <<graph, answered, flag, past, crashes>>

\* A human gate holds the run; its runner parks.
Park(g) ==
  /\ pc = "gate" /\ FirstOpen(g)
  /\ g \notin answered /\ graph[g].holds /\ graph[g].wait = "human"
  /\ pc' = "parked"
  /\ UNCHANGED <<disk, round, past, crashes>>

\* Somebody answers; this runner or the next one goes on.
Answer(g) ==
  /\ pc = "parked" /\ FirstOpen(g)
  /\ answered' = answered \cup {g}
  /\ NextRound
  /\ UNCHANGED <<graph, rec, flag, past, crashes>>

\* dead_end_forks: a fork whose every consumer is skipped on an untaken edge.
DeadEndForks ==
  {n \in Nodes :
     LET consumers == {c \in Nodes : n \in graph[c].after} IN
     /\ states[n] \in {"done", "partial"}
     /\ Cardinality(consumers) >= 2
     /\ \A c \in consumers : states[c] = "skipped" /\ rec[c] # "caught"}

\* Nothing can move: the run ends, or the failures get a chance to be caught.
Quiet ==
  /\ pc = "quiet"
  /\ pc' = CASE flag -> "aborted"
             [] ~ flag /\ (\E n \in Nodes : states[n] = "failed") -> "catch"
             [] ~ flag /\ (\A n \in Nodes : states[n] \in {"done", "partial", "skipped"}) ->
                  IF DeadEndForks = {} THEN "done" ELSE "dead_end"
             [] OTHER -> "stuck"
  /\ UNCHANGED <<disk, round, past, crashes>>

\* Is node n a failure with a say in it?
Catchable(n) == states[n] = "failed" /\ graph[n].kind \in {"agent", "partner"}

\* Mutation: whoever has an on_fail is caught, failed or not.
ToleratedAnyhow(n) == graph[n].kind \in {"agent", "partner"} /\ graph[n].onFail \in {"skip", "to"}

Tolerated(n) == Catchable(n) /\ graph[n].onFail \in {"skip", "to"}

\* The pass goes on; at its end the run blocks unless something was caught.
CatchesOver(any) ==
  IF at < N THEN at' = at + 1 /\ caught' = any /\ UNCHANGED <<pc, states, dead, todo, wave>>
  ELSE IF any THEN NextRound
  ELSE pc' = "blocked" /\ UNCHANGED round

\* Mutation: the failure is reported caught and stays.
CatchForgets ==
  /\ pc = "catch"
  /\ flag' = (flag \/ (Catchable(at) /\ graph[at].onFail = "abort"))
  /\ CatchesOver(caught \/ (Catchable(at) /\ graph[at].onFail # "none"))
  /\ UNCHANGED <<graph, rec, answered, past, crashes>>

\* _on_fail_catch: abort raises the flag, skip and a fallback turn the failure
\* into a skip; the next round sees them.
CatchPass ==
  /\ pc = "catch"
  /\ IF Tolerated(at) THEN Save(at, "caught") ELSE UNCHANGED rec
  /\ flag' = (flag \/ (Catchable(at) /\ graph[at].onFail = "abort"))
  /\ CatchesOver(caught \/ (Catchable(at) /\ graph[at].onFail # "none"))
  /\ UNCHANGED <<graph, answered, past, crashes>>

\* SIGKILL of the runner, with whatever it had in memory; the wait or the
\* watchdog boots another one.
Crash ==
  /\ pc \notin Ends \cup {"parked"}
  /\ crashes > 0
  /\ crashes' = crashes - 1
  /\ NextRound
  /\ UNCHANGED <<disk, past>>

-----------------------------------------------------------------------------
Init ==
  /\ graph \in Graphs
  /\ rec = [n \in Nodes |-> "none"]
  /\ answered = {} /\ flag = FALSE
  /\ pc = "top"
  /\ at = 1 /\ states = [n \in Nodes |-> "pending"]
  /\ dead = {} /\ todo = {} /\ wave = {} /\ caught = FALSE
  /\ past = [n \in Nodes |-> {}]
  /\ crashes = Crashes

Round ==
  \/ ReadRecords \/ Prune \/ SaveSkip \/ AllSkipsSaved
  \/ PartialPass \/ EchoPass \/ JoinPass \/ PartnerPass
  \/ PickReady \/ SpawnPass \/ WaveEnds
  \/ NoGate \/ GateCloses \/ Quiet \/ CatchPass
  \/ \E g \in Nodes : GateSettles(g) \/ GatePassedOver(g) \/ Park(g)

Agents == \E n \in Nodes : AgentCommits(n) \/ FansOutNothing(n) \/ RaisesFlag(n)

Over == pc \in Ends /\ UNCHANGED vars

Answers == \E g \in Nodes : Answer(g)

Next == Round \/ Agents \/ Answers \/ Crash \/ Over

Spec == Init /\ [][Next]_vars

\* The runner's own steps go on while it lives, every agent ends (its wall
\* kills it), every machine gate does (its time-box), and somebody answers.
FairSpec == Spec /\ WF_vars(Round) /\ WF_vars(Agents) /\ WF_vars(Answers)

-----------------------------------------------------------------------------
(* What the scheduler promises.                                            *)

Data(n) == graph[n].after \ graph[n].order
Ran(n) == rec[n] \in {"done", "partial", "answer"}

\* The data that n is run on is committed.
Supplied(n) ==
  \A a \in Data(n) :
    \/ rec[a] \in {"done", "skipped", "caught"}
    \/ rec[a] \in {"partial", "answer"} /\ graph[n].harvest
    \/ rec[a] = "answer" /\ graph[a].answers

\* Nothing was ever run on an input that is not there: what an agent, a gate or
\* an echo that committed depends on is committed too, and a half-dead harvest
\* only counts for who asked for it or from who declared it whole (release_law,
\* grammar.md:81).
InputsCommitted ==
  \A n \in Nodes : Ran(n) /\ graph[n].kind \in {"agent", "gate", "echo"} => Supplied(n)

\* Every predecessor of n over ordering edges.
Before(n) ==
  LET b[k \in 0..N] ==
        IF k = 0 THEN graph[n].order
        ELSE b[k - 1] \cup UNION {graph[m].order : m \in b[k - 1]}
  IN b[N]

\* Chain order among the living is preserved (release_law, wfcommon.py:5402):
\* an agent that joins a wave has the whole chain before it settled or dead, as
\* long as no death was caught.
ChainOrder ==
  [][(\A m \in Nodes : rec[m] # "caught") =>
       \A n \in wave' \ wave : \A m \in Before(n) :
         rec[m] \in {"done", "partial", "answer", "skipped"} \/ m \in Dead(OnDisk)]_vars

Kept(n) == rec[n] # "none" =>
  rec'[n] = rec[n] \/ (StateOf(rec[n]) = "failed" /\ rec'[n] = "caught")

\* A committed verdict is never lost, run again or rewritten, over crashes too;
\* only a failure may be caught (save_node, node_rec, _on_fail_catch).
RecordsStick == [][\A n \in Nodes : Kept(n)]_vars

\* A flagged run spawns nothing new (wf.py:10949), whichever agent raised the
\* flag and whenever its runner died.
AbortSpawnsNothing == [][flag => wave' \subseteq wave]_vars

Seen(n) == states[n] = StateOf(rec[n])

\* What the runner acts on is never older than the disk, although it was read
\* once per round (wf.py main.loop): a pass sees the records, but for the skips
\* that are still to be saved and the verdicts behind its back.
ViewTrue ==
  /\ pc \in {"prune", "partials", "echoes", "joins", "partners", "ready", "gate", "quiet", "parked"} =>
       \A n \in Nodes : Seen(n)
  /\ pc = "skip" =>
       \A n \in Nodes : IF n \in todo THEN rec[n] = "none" /\ states[n] = "skipped" ELSE Seen(n)
  /\ pc = "catch" => \A n \in at..N : Seen(n)

Fresh(n) == rec[n] = "none" /\ Supplied(n)

\* Whatever is about to run or to be refused has no verdict yet, has its inputs,
\* and is not doubled in the wave (wf.py main.loop, the spawn pass).
RunnableIsFresh ==
  /\ pc = "spawn" =>
       (\A n \in todo : n >= at => Fresh(n)) /\ (\A n \in wave : n < at)
  /\ \A n \in wave : rec[n] = "empty" \/ Fresh(n)
  /\ wave # {} => pc \in {"spawn", "wave"}
  /\ pc = "closing" => Fresh(at)

\* A run that is given up has nothing left to do: no agent and no gate is
\* releasable by the records, and no failure is tolerated by its on_fail.
Releasable(n) ==
  /\ StateOf(rec[n]) = "pending" /\ graph[n].kind \in {"agent", "gate", "echo"}
  /\ \A a \in graph[n].after :
       \/ StateOf(rec[a]) \in {"done", "skipped"}
       \/ rec[a] = "answer" /\ graph[a].answers
       \/ StateOf(rec[a]) = "partial" /\ (graph[n].harvest \/ a \in graph[n].order)
BlockedMeansBlocked ==
  pc = "blocked" =>
    \A n \in Nodes :
      /\ ~ Releasable(n)
      /\ StateOf(rec[n]) = "failed" /\ graph[n].kind \in {"agent", "partner"} =>
           graph[n].onFail \notin {"skip", "to"}

\* A run whose graph lists no node before one it waits for, and no echo behind a
\* join, never ends as "graph stuck" (wf.py:11263): the fixed order of the
\* passes leaves nothing behind.
NeverStuck == pc # "stuck"

\* Every run comes to an end, whatever fails, is caught, is skipped or crashes.
RunSettles == <>(pc \in Ends)

-----------------------------------------------------------------------------
(* What docs and comments say and the code does not keep.                  *)

\* With a false `when` "the node and descendants with only skipped dependencies
\* become terminal-skipped" unless on_skip is pass (grammar.md:139): the gate is
\* never released.
FalseGateStaysShut ==
  \A n \in Nodes : graph[n].kind = "gate" /\ ~ graph[n].holds /\ graph[n].onSkip = "prune" =>
    rec[n] # "done"

\* Who was spliced past is dead, and dead are the nodes "that can never commit"
\* (dead_set, wfcommon.py:5367).
SplicedStaysDead == \A n \in Nodes : \A m \in past[n] : ~ Ran(m)
=============================================================================
