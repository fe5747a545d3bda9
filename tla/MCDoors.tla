------------------------------- MODULE MCDoors -------------------------------
(* Small instances of Doorway for TLC. *)
EXTENDS Doorway, TLC

\* Revisions: amends, steers and kills, node b after node a.
Quiet == [amends |-> {}, pinned |-> {}, dry |-> {}, steers |-> {}, killable |-> {}, caps |-> {0}, deaths |-> 0,
          edits |-> {{"a"}}, kills |-> 0, moves |-> 0, tries |-> 1, long |-> FALSE, cues |-> FALSE]
Rivals == [Quiet EXCEPT !.amends = {"x", "y"}, !.pinned = {"x"}, !.deaths = 1]
Rerouted == [Quiet EXCEPT !.amends = {"x", "y"}, !.dry = {"y"}, !.moves = 1, !.edits = {{"a"}, {"b"}}]
TwoCaps == [Quiet EXCEPT !.amends = {"x", "y"}, !.pinned = {"x", "y"}, !.caps = {0, 1}]
Steered == [Quiet EXCEPT !.steers = {"x", "y"}, !.tries = 2, !.deaths = 1]
Wordy == [Steered EXCEPT !.long = TRUE, !.deaths = 0]
Pinned == [Steered EXCEPT !.steers = {"x"}, !.amends = {"z"}, !.pinned = {"x"}, !.deaths = 0]
Killed == [Quiet EXCEPT !.killable = {"a", "b"}, !.kills = 2, !.deaths = 1, !.cues = TRUE, !.tries = 2]

Ancestry == ("a" :> {}) @@ ("b" :> {"a"})
Seven == {Rivals, Rerouted, TwoCaps, Steered, Wordy, Pinned, Killed}

\* Lanes: three calls under one key, three runs.
Scenery == INSTANCE MCLanes WITH Scenes <- {}, pc <- lanePc, seen <- census, deaths <- lives
Each == Scenery!Each

\* Recover: two watchdogs, two finalizers, one beside an amend, one of each.
Revived2 == [scripts |-> {"w1", "w2"}, boots |-> 1, kills |-> 2, amends |-> 1, deaths |-> 1, faults |-> 0]
Closed2 == [scripts |-> {"z1", "z2"}, boots |-> 1, kills |-> 2, amends |-> 0, deaths |-> 1, faults |-> 2]
Overtaken == [scripts |-> {"z1"}, boots |-> 1, kills |-> 2, amends |-> 1, deaths |-> 0, faults |-> 0]
Crossed == [scripts |-> {"w1", "z1"}, boots |-> 0, kills |-> 2, amends |-> 1, deaths |-> 0, faults |-> 0]
Crashed == {Revived2, Closed2, Overtaken, Crossed}
=============================================================================
