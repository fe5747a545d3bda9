------------------------------ MODULE Revisions ------------------------------
(* The documents of one run that calls of its owner write while a runner      *)
(* reads them: graph.json with its history amends.jsonl, the cap in run.json, *)
(* the inbox, and the kill markers.  Two nodes, or more, of one graph; a wave *)
(* of agents that are retried; a seat whose route moves.                      *)
EXTENDS Integers, Sequences, FiniteSets, SequencesExt

CONSTANTS
  Nodes,
  Before,   \* the ancestors of each node
  Calls,    \* of the door
  Plans     \* what the calls may do, and the bounds

\* A plan: the calls that amend, those of them with a token and those that are dry, the
\* calls that steer, the sets of nodes an amend may edit, the caps it may set, the nodes that
\* may be killed; how often a call and a runner may die
\* and the route of the seat may move; the launches of a node in a wave; long lines.
VARIABLES
  plan,
  graph, rows, cap,      \* graph.json, amends.jsonl, max_seats in run.json
  glock,                 \* graph.lock
  restart,               \* restart.request
  inbox,                 \* lines [node, whole]
  killed,                \* kill/<node>.json
  claims,                \* budget_cue/<node>
  rec,                   \* nodes/<node>.json
  route,                 \* what the seat of the owner routes to
  pc, token, draft, kept, snap,             \* each call
  up, loaded, seen, waiting, wave, tries,   \* the runner: its graph, the lines it drained, those not told yet
  place,                 \* how far the launch of a node is: "rest", "baked", or "cleared" to start
  child,                 \* the agent of a node, with what it was told
  deaths, kills, moves,  \* bounds
  told, torn, spoilt,    \* history: what prompts of this runner said, lines drained half written, amends that died
  spent                  \* history: killed nodes with no launch under way that had not seen the kill

docs == <<graph, rows, cap, glock, restart, inbox, killed, claims, rec>>
calls == <<pc, token, draft, kept, snap>>
memory == <<up, loaded, seen, waiting, wave, tries, place>>
bounds == <<deaths, kills, moves>>
hist == <<told, torn, spoilt, spent>>
vars == <<plan, docs, route, calls, memory, child, bounds, hist>>

NoOne == "free"
NoRecord == [st |-> "none", of |-> {}]
NoChild == [told |-> {}, alive |-> FALSE]

\* No call is called like the free lock, an ancestor of an ancestor is one, and caps are numbers.
ASSUME RevisionsConstants ==
  /\ NoOne \notin Calls
  /\ Before \in [Nodes -> SUBSET Nodes] /\ \A n \in Nodes : \A m \in Before[n] : Before[m] \subseteq Before[n]
  /\ \A p \in Plans : p.caps \subseteq Nat

\* efp: a node with its ancestors; node_rec: a record counts for the definition it was made for,
\* and not when it says that the launch was cancelled.
Efp(g, n) == {<<m, g.nodes[m]>> : m \in Before[n] \cup {n}}
Committed(g, n) == IF rec[n].of = Efp(g, n) /\ rec[n].st # "cancelled" THEN rec[n].st ELSE "pending"
Over(n) == Committed(graph, n) \in {"done", "failed"}
RunOver == ~ up /\ \A n \in Nodes : Over(n) \/ \E m \in Before[n] : Committed(graph, m) = "failed"

\* _graph_revision: derived from the bytes, never stored.
Revision == <<Len(rows), graph>>
Unpinned == <<>>
Stale(w) == token[w] # Unpinned /\ token[w] # Revision

-----------------------------------------------------------------------------
(* act_amend.                                                              *)

Goes(w, from, to) == pc[w] = from /\ pc' = [pc EXCEPT ![w] = to]

\* The caller reads the head it will name, if it names one.
Looks(w) ==
  /\ w \in plan.amends
  /\ Goes(w, "idle", "looked")
  /\ token' = [token EXCEPT ![w] = IF w \in plan.pinned THEN Revision ELSE Unpinned]
  /\ UNCHANGED <<plan, docs, route, draft, kept, snap, memory, child, bounds, hist>>

\* A patch is applied to the graph on disk before any lock is taken.
Drafts(w) ==
  /\ Goes(w, "looked", "early")
  /\ \E edit \in plan.edits, c \in plan.caps :
       draft' = [draft EXCEPT ![w] =
         [nodes |-> [n \in Nodes |-> IF n \in edit THEN [graph.nodes[n] EXCEPT !.text = w] ELSE graph.nodes[n]],
          cap |-> c]]
  /\ UNCHANGED <<plan, docs, route, token, kept, snap, memory, child, bounds, hist>>

Early(w) ==
  /\ glock = NoOne
  /\ Goes(w, "early", IF Stale(w) THEN "refused" ELSE "freeze")
  /\ UNCHANGED <<plan, docs, route, token, draft, kept, snap, memory, child, bounds, hist>>

\* _frozen_committed: the same text, a record that counts, and so for every ancestor.
Same(w, n) == draft[w].nodes[n].text = graph.nodes[n].text /\ Committed(graph, n) = "done"
FrozenAlone(w) == {n \in Nodes : Same(w, n)}
Frozen(w) == {n \in Nodes : \A m \in Before[n] \cup {n} : Same(w, m)}

\* What is frozen keeps its route; everything else is resolved on the seat as it is now.
Freezes(w) ==
  /\ Goes(w, "freeze", IF w \in plan.dry THEN "shown" ELSE "lock")
  /\ kept' = [kept EXCEPT ![w] = Frozen(w)]
  /\ draft' = [draft EXCEPT ![w].nodes = [n \in Nodes |->
       [@[n] EXCEPT !.route = IF n \in Frozen(w) THEN graph.nodes[n].route ELSE route]]]
  /\ UNCHANGED <<plan, docs, route, token, snap, memory, child, bounds, hist>>

\* A graph that a gate of the door does not admit is refused before anything is written.
Refused(w) ==
  /\ Goes(w, "freeze", "refused")
  /\ UNCHANGED <<plan, docs, route, token, draft, kept, snap, memory, child, bounds, hist>>

TakesUnchecked(w) ==
  /\ glock = NoOne
  /\ Goes(w, "lock", "row")
  /\ glock' = w
  /\ UNCHANGED <<plan, graph, rows, cap, restart, inbox, killed, claims, rec, route, token, draft, kept, snap, memory, child, bounds, hist>>

\* The token is compared once more, under the lock of the write.
Takes(w) ==
  /\ glock = NoOne
  /\ Goes(w, "lock", IF Stale(w) THEN "refused" ELSE "row")
  /\ glock' = IF Stale(w) THEN NoOne ELSE w
  /\ UNCHANGED <<plan, graph, rows, cap, restart, inbox, killed, claims, rec, route, token, draft, kept, snap, memory, child, bounds, hist>>

WritesRow(w) ==
  /\ Goes(w, "row", "swap")
  /\ rows' = Append(rows, [old |-> graph, new |-> draft[w], by |-> w])
  /\ UNCHANGED <<plan, graph, cap, glock, restart, inbox, killed, claims, rec, route, token, draft, kept, snap, memory, child, bounds, hist>>

Swaps(w) ==
  /\ Goes(w, "swap", "meta")
  /\ graph' = draft[w]
  /\ glock' = NoOne
  /\ UNCHANGED <<plan, rows, cap, restart, inbox, killed, claims, rec, route, token, draft, kept, snap, memory, child, bounds, hist>>

\* run.json is read and written outside the lock.
ReadsMeta(w) ==
  /\ Goes(w, "meta", "bake")
  /\ snap' = [snap EXCEPT ![w] = cap]
  /\ UNCHANGED <<plan, docs, route, token, draft, kept, memory, child, bounds, hist>>

BakesMeta(w) ==
  /\ Goes(w, "bake", "request")
  /\ cap' = IF snap[w] # draft[w].cap THEN draft[w].cap ELSE cap
  /\ UNCHANGED <<plan, graph, rows, glock, restart, inbox, killed, claims, rec, route, token, draft, kept, snap, memory, child, bounds, hist>>

Requests(w) ==
  /\ Goes(w, "request", "resume")
  /\ restart' = TRUE
  /\ UNCHANGED <<plan, graph, rows, cap, glock, inbox, killed, claims, rec, route, token, draft, kept, snap, memory, child, bounds, hist>>

Boots ==
  /\ up' = TRUE /\ loaded' = graph
  /\ seen' = {} /\ waiting' = [n \in Nodes |-> {}] /\ told' = {}

\* A live runner is left the request, a dead one is followed.
Resumes(w) ==
  /\ Goes(w, "resume", "done")
  /\ IF up THEN UNCHANGED <<up, loaded, seen, waiting, told>> ELSE Boots
  /\ UNCHANGED <<plan, docs, route, token, draft, kept, snap, wave, tries, place, child, bounds, torn, spoilt, spent>>

\* A call dies: its lock is dropped.
CallDies(w) ==
  /\ deaths > 0 /\ deaths' = deaths - 1
  /\ pc[w] \in {"row", "swap", "meta", "bake", "request", "resume", "half"}
  /\ pc' = [pc EXCEPT ![w] = "dead"]
  /\ glock' = IF glock = w THEN NoOne ELSE glock
  /\ spoilt' = spoilt \cup (IF pc[w] = "swap" THEN {Len(rows)} ELSE {})
  /\ UNCHANGED <<plan, graph, rows, cap, restart, inbox, killed, claims, rec, route, token, draft, kept, snap, memory, child, kills, moves, told, torn, spent>>

Amending(w) == \/ Looks(w) \/ Drafts(w) \/ Early(w) \/ Refused(w) \/ Freezes(w) \/ Takes(w) \/ WritesRow(w) \/ Swaps(w)
               \/ ReadsMeta(w) \/ BakesMeta(w) \/ Requests(w) \/ Resumes(w)

SeatMoves ==
  /\ moves > 0 /\ moves' = moves - 1
  /\ route' = 1 - route
  /\ UNCHANGED <<plan, docs, calls, memory, child, deaths, kills, hist>>

-----------------------------------------------------------------------------
(* act_steer and act_kill: no lock is taken for a kill.                    *)

\* The states are judged before the lock, the revision is compared under it.
Steers(w) ==
  /\ w \in plan.steers
  /\ \E n \in Nodes :
       /\ Goes(w, "idle", IF RunOver \/ Over(n) THEN "refused" ELSE "line")
       /\ kept' = [kept EXCEPT ![w] = {n}]
  /\ token' = [token EXCEPT ![w] = IF w \in plan.pinned THEN Revision ELSE Unpinned]
  /\ UNCHANGED <<plan, docs, route, draft, snap, memory, child, bounds, hist>>

\* A line longer than the buffer of the file reaches it in two writes.
Appends(w) ==
  /\ glock = NoOne
  /\ Goes(w, "line", IF Stale(w) THEN "refused" ELSE IF plan.long THEN "half" ELSE "done")
  /\ inbox' = IF Stale(w) THEN inbox ELSE Append(inbox, [node |-> CHOOSE n \in kept[w] : TRUE, whole |-> ~ plan.long])
  /\ glock' = IF plan.long /\ ~ Stale(w) THEN w ELSE NoOne
  /\ UNCHANGED <<plan, graph, rows, cap, restart, killed, claims, rec, route, token, draft, kept, snap, memory, child, bounds, hist>>

Completes(w) ==
  /\ Goes(w, "half", "done")
  /\ \E i \in DOMAIN inbox : ~ inbox[i].whole /\ inbox' = [inbox EXCEPT ![i].whole = TRUE]
  /\ glock' = NoOne
  /\ UNCHANGED <<plan, graph, rows, cap, restart, killed, claims, rec, route, token, draft, kept, snap, memory, child, bounds, hist>>

Steering(w) == Steers(w) \/ Appends(w) \/ Completes(w)

Kills(n) ==
  /\ kills > 0 /\ kills' = kills - 1
  /\ n \in plan.killable \ killed /\ ~ RunOver
  /\ killed' = killed \cup {n}
  /\ spent' = IF place[n] = "cleared" THEN spent ELSE spent \cup {n}
  /\ UNCHANGED <<plan, graph, rows, cap, glock, restart, inbox, claims, rec, route, calls, memory, child, deaths, moves,
                 told, torn, spoilt>>

-----------------------------------------------------------------------------
(* The runner.                                                             *)

Addressed(n) == {i \in DOMAIN inbox : inbox[i].node = n /\ inbox[i].whole}
Ready == {n \in Nodes : Committed(loaded, n) = "pending" /\ \A m \in Before[n] : Committed(loaded, m) = "done"}

Reloads ==
  /\ up /\ wave = {} /\ restart
  /\ restart' = FALSE /\ loaded' = graph
  /\ UNCHANGED <<plan, graph, rows, cap, glock, inbox, killed, claims, rec, route, calls, up, seen, waiting, wave, tries, place, child, bounds, hist>>

\* drain_inbox: what is new is added to what the node has not been told.
Drained(n) == waiting[n] \cup (Addressed(n) \ seen)

\* The top of the loop: drain, and launch what is ready with what waits for it.
Waves ==
  /\ up /\ wave = {} /\ ~ restart /\ Ready # {}
  /\ seen' = DOMAIN inbox
  /\ torn' = torn \cup {i \in DOMAIN inbox \ seen : ~ inbox[i].whole}
  /\ waiting' = [n \in Nodes |-> IF n \in Ready THEN {} ELSE Drained(n)]
  /\ child' = [n \in Nodes |-> IF n \in Ready THEN [told |-> Drained(n), alive |-> FALSE] ELSE child[n]]
  /\ told' = told \cup UNION {Drained(n) : n \in Ready}
  /\ wave' = Ready /\ tries' = [n \in Nodes |-> IF n \in Ready THEN plan.tries ELSE tries[n]]
  /\ UNCHANGED <<plan, docs, route, calls, up, loaded, place, bounds, spoilt, spent>>

Retires ==
  /\ up /\ wave = {} /\ ~ restart /\ Ready = {}
  /\ up' = FALSE
  /\ UNCHANGED <<plan, docs, route, calls, loaded, seen, waiting, wave, tries, place, child, bounds, hist>>

Commits(n, st) ==
  /\ rec' = [rec EXCEPT ![n] = [st |-> st, of |-> Efp(loaded, n)]]
  /\ wave' = wave \ {n} /\ place' = [place EXCEPT ![n] = "rest"]
  /\ child' = [child EXCEPT ![n].alive = FALSE]

Moves(n, from, to) == place[n] = from /\ place' = [place EXCEPT ![n] = to]

\* _procs_lock is held from the last looks of a launch to its agent.
Unlocked == \A n \in Nodes : place[n] # "cleared"

\* _steer_bake copies every line there is, before a seat is asked for.
Bakes(n) ==
  /\ n \in wave /\ ~ child[n].alive /\ tries[n] > 0
  /\ Moves(n, "rest", "baked")
  /\ child' = [child EXCEPT ![n].told = @ \cup Addressed(n)]
  /\ tries' = [tries EXCEPT ![n] = @ - 1]
  /\ UNCHANGED <<plan, docs, route, calls, up, loaded, seen, waiting, wave, bounds, hist>>

\* The graph has moved on since the node was chosen.
Outdated(n) == Efp(graph, n) # Efp(loaded, n)

ClearsBlindly(n) ==
  /\ Unlocked /\ ~ Outdated(n)
  /\ Moves(n, "baked", "cleared")
  /\ UNCHANGED <<plan, docs, route, calls, up, loaded, seen, waiting, wave, tries, child, bounds, hist>>

\* The last looks of a launch: for the marker of a kill, and at the graph.  No text comes back
\* once it is edited, so a look at the graph that comes later would find no more.
Clears(n) ==
  /\ Unlocked /\ n \notin killed /\ ~ Outdated(n)
  /\ Moves(n, "baked", "cleared")
  /\ UNCHANGED <<plan, docs, route, calls, up, loaded, seen, waiting, wave, tries, child, bounds, hist>>

\* The agent starts, whatever was written since the looks.
Launches(n) ==
  /\ Moves(n, "cleared", "rest")
  /\ child' = [child EXCEPT ![n].alive = TRUE]
  /\ spent' = spent \cup ({n} \cap killed)
  /\ UNCHANGED <<plan, docs, route, calls, up, loaded, seen, waiting, wave, tries, bounds, told, torn, spoilt>>

\* A look finds the marker: the node fails, or, at a look for cancellations, is cancelled.
Refuses(n) ==
  /\ n \in wave \cap killed /\ ~ child[n].alive
  /\ \/ place[n] \in {"rest", "baked"} /\ Commits(n, "failed")
     \/ place[n] = "baked" /\ Commits(n, "cancelled")
  /\ UNCHANGED <<plan, graph, rows, cap, glock, restart, inbox, killed, claims, route, calls, up, loaded, seen, waiting, tries, bounds, hist>>

\* _stale_spawn_refusal: a node that was amended while it was queued.
RefusesStale(n) ==
  /\ place[n] = "baked" /\ Unlocked /\ Outdated(n)
  /\ Commits(n, "failed")
  /\ UNCHANGED <<plan, graph, rows, cap, glock, restart, inbox, killed, claims, route, calls, up, loaded, seen, waiting, tries, bounds, hist>>

\* The cap on turns comes near: the claim is made once in the life of the run, and the line is
\* written to the inbox and to the bake of the living child.
Cues(n) ==
  /\ plan.cues /\ n \in wave /\ child[n].alive /\ n \notin claims
  /\ claims' = claims \cup {n}
  /\ inbox' = Append(inbox, [node |-> n, whole |-> TRUE])
  /\ child' = [child EXCEPT ![n].told = @ \cup {Len(inbox')}]
  /\ UNCHANGED <<plan, graph, rows, cap, glock, restart, killed, rec, route, calls, memory, bounds, hist>>

Answers(n) ==
  /\ n \in wave /\ child[n].alive
  /\ Commits(n, "done")
  /\ UNCHANGED <<plan, graph, rows, cap, glock, restart, inbox, killed, claims, route, calls, up, loaded, seen, waiting, tries, bounds, hist>>

\* A death is retried while there are launches left, but for one of a killed node.
Dies(n) ==
  /\ n \in wave /\ child[n].alive
  /\ IF tries[n] > 0 /\ n \notin killed
     THEN child' = [child EXCEPT ![n].alive = FALSE] /\ UNCHANGED <<rec, wave, place>>
     ELSE Commits(n, "failed")
  /\ UNCHANGED <<plan, graph, rows, cap, glock, restart, inbox, killed, claims, route, calls, up, loaded, seen, waiting, tries, bounds, hist>>

\* _lane_kill_sweep, every two seconds, reaches the children of killed nodes under _procs_lock.
Sweeps(n) == n \in killed /\ Unlocked /\ Dies(n)

\* A runner dies, its children with it or at the next boot; its memory is gone.
RunnerDies ==
  /\ up /\ deaths > 0 /\ deaths' = deaths - 1
  /\ up' = FALSE /\ wave' = {} /\ place' = [n \in Nodes |-> "rest"]
  /\ child' = [n \in Nodes |-> NoChild]
  /\ spent' = spent \cup killed
  /\ UNCHANGED <<plan, docs, route, calls, loaded, seen, waiting, tries, kills, moves, told, torn, spoilt>>

\* wait, or the tick: an interrupted run is followed.
Revives ==
  /\ ~ up /\ (restart \/ \E n \in Nodes : Committed(graph, n) = "pending" /\ \A m \in Before[n] : Committed(graph, m) = "done")
  /\ Boots
  /\ UNCHANGED <<plan, docs, route, calls, wave, tries, place, child, bounds, torn, spoilt, spent>>

Runner == \/ Reloads \/ Waves \/ Retires
          \/ \E n \in Nodes : Bakes(n) \/ Clears(n) \/ Launches(n) \/ Refuses(n) \/ RefusesStale(n)
          \/ \E n \in Nodes : Cues(n) \/ Answers(n) \/ Dies(n)

-----------------------------------------------------------------------------
Launched == [nodes |-> [n \in Nodes |-> [text |-> "launch", route |-> 0]], cap |-> 0]

Init ==
  /\ plan \in Plans
  /\ graph = Launched /\ rows = <<>> /\ cap = 0 /\ glock = NoOne /\ restart = FALSE
  /\ inbox = <<>> /\ killed = {} /\ claims = {} /\ rec = [n \in Nodes |-> NoRecord]
  /\ route = 0
  /\ pc = [w \in Calls |-> "idle"] /\ token = [w \in Calls |-> Unpinned]
  /\ draft = [w \in Calls |-> Launched] /\ kept = [w \in Calls |-> {}] /\ snap = [w \in Calls |-> 0]
  /\ up = TRUE /\ loaded = Launched /\ seen = {} /\ waiting = [n \in Nodes |-> {}]
  /\ wave = {} /\ tries = [n \in Nodes |-> 0] /\ place = [n \in Nodes |-> "rest"]
  /\ child = [n \in Nodes |-> NoChild]
  /\ deaths = plan.deaths /\ kills = plan.kills /\ moves = plan.moves
  /\ told = {} /\ torn = {} /\ spoilt = {} /\ spent = {}

Next ==
  \/ \E w \in Calls : Amending(w) \/ Steering(w) \/ CallDies(w)
  \/ \E n \in Nodes : Kills(n) \/ Sweeps(n)
  \/ Runner \/ RunnerDies \/ Revives \/ SeatMoves

\* The watcher of a live runner comes round, a wave goes on, and a launch ends once it holds the lock.
Fairness == \A n \in Nodes : WF_vars(Sweeps(n)) /\ WF_vars(Refuses(n)) /\ WF_vars(Launches(n))

Spec == Init /\ [][Next]_vars /\ Fairness

-----------------------------------------------------------------------------
(* Properties.                                                             *)

\* A pinned amend replaces the very graph that its caller has read, though calls race, die
\* between the row and the swap, and are made dry.
NoLostEdit == \A w \in Calls :
  pc[w] \in {"row", "swap"} /\ token[w] # Unpinned =>
    /\ graph = token[w][2]
    /\ Len(rows) = token[w][1] + (IF pc[w] = "swap" THEN 1 ELSE 0)

\* Every graph there ever was is the new one of its row, and the next row starts from it; a row
\* whose call died before the swap is passed over.
After(i) == IF i \in spoilt THEN rows[i].old ELSE rows[i].new
HistoryIsAChain ==
  /\ \A i \in 1..(Len(rows) - 1) : rows[i + 1].old = After(i)
  /\ glock = NoOne /\ rows # <<>> => graph = After(Len(rows))

EditsAreKept == NoLostEdit /\ HistoryIsAChain

\* When an amend is resolved, every node either keeps its verdict or runs on the seat as it is
\* now, and a node that nobody edited, nor an ancestor of it, keeps its verdict.
Resolves(w) == pc[w] = "freeze" /\ pc'[w] \in {"lock", "shown"}
Untouched(w, n) == \A m \in Before[n] \cup {n} : draft[w].nodes[m].text = graph.nodes[m].text
RoutesAreOfNow == \A w \in Calls, n \in Nodes : Resolves(w) =>
  Committed(draft'[w], n) = "done" \/ draft'[w].nodes[n].route = route
UntouchedIsKept == \A w \in Calls, n \in Nodes : Resolves(w) =>
  (Untouched(w, n) /\ Committed(graph, n) = "done" => Committed(draft'[w], n) = "done")
ChoosesRoutes == RoutesAreOfNow /\ UntouchedIsKept
RoutesChosen == [][ChoosesRoutes]_vars

\* A line that a runner has drained is told in a prompt or still waits for its node, over the
\* waves that go by without the node; and the line that says a node runs out of turns is
\* written once in the life of the run, whoever dies and is followed.
DrainsAreTold == up => \A i \in seen \ torn : i \in told \cup waiting[inbox[i].node]
CueOnce == \A n \in Nodes : plan.steers = {} => Cardinality({i \in DOMAIN inbox : inbox[i].node = n}) <= 1
SteeringIsKept == DrainsAreTold /\ CueOnce

\* Neither an edit nor a line is lost.
EditsKept == EditsAreKept /\ SteeringIsKept

\* A kill that falls before the last looks of a launch lets no agent come, now or from a later
\* runner, retry or amend; one that falls behind them lets the agent of that launch come, and
\* no other.
NoAgentOfTheSpent == \A n \in spent : child'[n].alive => child[n].alive
KillsStand == [][NoAgentOfTheSpent]_vars

\* run.json declares the cap of the graph.
MetaFollowsGraph ==
  (\A w \in Calls : pc[w] \notin {"swap", "meta", "bake", "dead"}) => cap = graph.cap
=============================================================================
