------------------------------ MODULE MCEndings ------------------------------
(* Values for Endings.                                                       *)
EXTENDS Endings, TLC

\* Exits: a handler, one that is not ready, budgets, wreckage of a lane.
Handled == [reasons |-> {"done", "failed", "stopped", "crashed"}, handler |-> TRUE, ready |-> TRUE, deaths |-> 2, amends |-> 1,
            boots |-> 3, wreckage |-> FALSE, closures |-> 0]
Unready == [Handled EXCEPT !.ready = FALSE, !.amends = 0]
Broke == [Handled EXCEPT !.reasons = {"budget", "done"}, !.handler = FALSE, !.deaths = 1, !.amends = 0, !.boots = 4, !.closures = 3]
Wrecked == [Handled EXCEPT !.amends = 0, !.wreckage = TRUE]

MCEndScenes == {[Handled EXCEPT !.boots = 2], [Handled EXCEPT !.deaths = 1], Wrecked, Unready, Broke}

\* Gates: one agent, a fan-out, one with an item token, one without a lane and files, one that closes nothing.
Solo == [fan |-> FALSE, token |-> FALSE, lane |-> TRUE, files |-> {"f"}, close |-> TRUE]
Fan == [Solo EXCEPT !.fan = TRUE]

MCDeeds == {Solo, Fan, [Fan EXCEPT !.token = TRUE], [Fan EXCEPT !.lane = FALSE, !.files = {}], [Solo EXCEPT !.close = FALSE]}

\* Notices.  A burst: two fan-outs, one of them quiet, that burst before
\* the end, over a kill or mirrored to an outbound bridge.
Graphs(kinds, works) == [gate : kinds, work : works]
Plain == [fans |-> {}, cohorts |-> 0, gate |-> "none", dflt |-> FALSE, tier |-> [n \in {"gate"} |-> "full"],
          owner |-> "legacy", wire |-> {"turn"}, mirror |-> FALSE, silent |-> FALSE, verdicts |-> {"done"},
          graphs |-> Graphs({"A"}, {"u"}), amends |-> 0, frail |-> FALSE, throws |-> 0, answers |-> FALSE, kills |-> 1]
Burst == [Plain EXCEPT !.fans = {"f", "g"}, !.cohorts = 2, !.tier = [n \in {"f", "g", "gate"} |-> IF n = "g" THEN "quiet" ELSE "full"],
                       !.silent = TRUE, !.wire = {"turn", "late"}]
Mirrored == [Burst EXCEPT !.mirror = TRUE, !.kills = 0]
\* A gate that is announced and left, while amends change it and back; one whose owner is
\* hard to reach, over kills and an exception; a run of nobody whose amend dies half-way.
Left == [Plain EXCEPT !.gate = "exit", !.graphs = Graphs({"A", "B"}, {"u"}), !.amends = 2, !.answers = TRUE, !.kills = 0]
Deaf == [Plain EXCEPT !.gate = "exit", !.wire = {"turn", "late", "error", "nowhere"}, !.owner = "local", !.kills = 2]
Frail == [Plain EXCEPT !.gate = "exit", !.verdicts = {"failed"}, !.throws = 1, !.amends = 1, !.frail = TRUE]
Ownerless == [Plain EXCEPT !.gate = "exit", !.owner = "null", !.kills = 3]
\* Gates that a runner keeps; a run that fails, is amended and fails again.
Stay(k) == [Plain EXCEPT !.gate = k, !.kills = 2, !.amends = 1, !.graphs = Graphs({"A", "B"}, {"u"}), !.owner = "null"]
Kept == {Stay(k) : k \in {"park", "check", "timer"}} \cup {[Stay("park") EXCEPT !.dflt = TRUE]}
Mended == [Plain EXCEPT !.verdicts = {"failed"}, !.graphs = Graphs({"A"}, {"u", "v"}), !.amends = 1, !.kills = 0]

MCWakeScenes == {Burst, Mirrored, Left, Deaf, Frail, Ownerless, Mended} \cup Kept
=============================================================================
