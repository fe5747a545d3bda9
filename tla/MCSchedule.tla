------------------------------ MODULE MCSchedule ------------------------------
(* Graphs for TLC.  A node is written as the plain one with what differs.    *)
EXTENDS Schedule

Plain == [kind |-> "agent", after |-> {}, order |-> {}, from |-> 0,
          onFail |-> "none", to |-> 0, holds |-> TRUE, onSkip |-> "prune",
          harvest |-> FALSE, answers |-> FALSE, fan |-> FALSE, guarded |-> FALSE,
          wait |-> "terminal"]
Agent(after) == [Plain EXCEPT !.after = after]
Node(kind, after) == [Plain EXCEPT !.kind = kind, !.after = after]
Ordered(after, order) == [Plain EXCEPT !.after = after, !.order = order]
Gate(wait, after) == [Plain EXCEPT !.kind = "gate", !.wait = wait, !.after = after]

\* A convoy of three lanes; the second lane's data may die.
Convoy == << [Agent({}) EXCEPT !.guarded = TRUE], Agent({}), Ordered({1, 2}, {1}), Ordered({3}, {3}) >>
\* A death that is caught by a fallback, beside one that is skipped.
Fallback == << [Agent({}) EXCEPT !.onFail = "to", !.to = 2], Agent({1}),
               [Agent({}) EXCEPT !.onFail = "skip"], Agent({2, 3}) >>
\* A harvest that one consumer wants and another does not.
Harvest == << [Agent({}) EXCEPT !.answers = TRUE], Agent({}),
              [Agent({1, 2}) EXCEPT !.harvest = TRUE], Agent({1}) >>
\* A fan-out, its partner, a join and a human gate behind them.
Cell == << [Agent({}) EXCEPT !.fan = TRUE, !.onFail = "skip"],
           [Node("partner", {1}) EXCEPT !.from = 1, !.guarded = TRUE],
           [Gate("human", {2}) EXCEPT !.guarded = TRUE], Agent({3}) >>
\* Two branches with a false one, an abort and a machine gate.
Branches == << [Agent({}) EXCEPT !.onFail = "abort"],
               [Agent({1}) EXCEPT !.holds = FALSE], [Gate("machine", {1}) EXCEPT !.holds = TRUE],
               [Node("join", {2, 3}) EXCEPT !.wait = "any"] >>
\* An echo that may be refused feeds two gates, one of them passed over.
Echoes == << [Node("echo", {}) EXCEPT !.guarded = TRUE],
             [Gate("human", {1}) EXCEPT !.holds = FALSE, !.onSkip = "pass"],
             [Agent({1}) EXCEPT !.holds = FALSE, !.onSkip = "pass"],
             Node("join", {2, 3}) >>
\* The fan-out of the first wave may abort the run while the lane beside it
\* goes on.
Aborted == << [Agent({}) EXCEPT !.fan = TRUE], Agent({}), Agent({2}) >>
\* A human gate that is not asked, and the branch behind it.
Shut == << Node("echo", {}), [Gate("human", {1}) EXCEPT !.holds = FALSE], Agent({2}) >>
Picked == {Shut, Aborted, Convoy, Fallback, Harvest, Cell, Branches, Echoes}

\* Every graph of three nodes, each listed behind what it waits for and no echo
\* behind a join: an agent, then two of the kinds below.
Lanes(after, fs) == {[Agent(after) EXCEPT !.order = o, !.onFail = f] : o \in SUBSET after, f \in fs}
Others(after) == {Gate("human", after), Node("echo", after)} \cup
                 (IF after = {} THEN {} ELSE {[Node("join", after) EXCEPT !.wait = w] : w \in {"any", "terminal"}})
Choices(k, fs) == UNION {Lanes(after, fs) \cup Others(after) : after \in SUBSET (1..k - 1)}
EchoLast(g) == g[3].kind = "echo" /\ 2 \in g[3].after => g[2].kind # "join"
Triples == {g \in {<<[Agent({}) EXCEPT !.onFail = f, !.answers = TRUE], y, z>> :
                     f \in {"none", "skip"}, y \in Choices(2, {"none", "skip"}),
                     z \in Choices(3, {"none"})} : EchoLast(g)}
Sorted == Picked \cup Triples

\* Node 4 only waits for the turn of node 3, whose data comes from 1 and 2; the
\* death of node 1 is caught at the end.
Caught == { << [Agent({}) EXCEPT !.onFail = "skip"], Agent({}), Agent({1, 2}), Ordered({3}, {3}) >> }
ShutGate == {Shut}

\* A run is blocked or stuck only where nothing is left to do, and a chain goes past its dead only.
OrderHolds == [](BlockedMeansBlocked /\ NeverStuck) /\ ChainOrder
=============================================================================
