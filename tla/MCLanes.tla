------------------------------- MODULE MCLanes -------------------------------
(* Scenes of Lanes for TLC: calls that race, upgrade, dedupe; ticks; retention. *)
EXTENDS Lanes, TLC

Plain == [doors |-> {"a", "b"}, asks |-> {"run"}, frail |-> FALSE, crashes |-> 0, deaths |-> 1, amends |-> 0, releases |-> 0,
          ticks |-> FALSE, prunes |-> FALSE, tracker |-> FALSE, pins |-> {}, verdicts |-> {"done", "held"}, legacy |-> Nobody]
Race == [Plain EXCEPT !.doors = {"a", "b", "c"}, !.frail = TRUE, !.crashes = 1, !.deaths = 0, !.releases = 1]
Mixed == [Plain EXCEPT !.asks = {"run", "forbidden", "dry", "free"}, !.verdicts = {"failed"}]
Upgraded == [Plain EXCEPT !.legacy = 1, !.verdicts = {"stopped", "held"}, !.releases = 1]
Watched == [Plain EXCEPT !.doors = {"a"}, !.ticks = TRUE, !.deaths = 2, !.releases = 1]
Amended == [Plain EXCEPT !.doors = {"a"}, !.amends = 2]
Pruned == [Plain EXCEPT !.prunes = TRUE, !.tracker = TRUE, !.deaths = 0, !.releases = 1, !.pins = {2}]
Capped == [Pruned EXCEPT !.tracker = FALSE]
Each == {Race, Mixed, Upgraded, Watched, Amended, Pruned, Capped}
Cleaned == {Pruned}
=============================================================================
