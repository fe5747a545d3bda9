-------------------------------- MODULE MCCustody --------------------------------
(* Instances of Custody for TLC.                                                *)
EXTENDS Custody, TLC

Plain == [solo |-> FALSE, jobs |-> FALSE, forks |-> {}, recycles |-> FALSE, dirty |-> TRUE,
          halts |-> FALSE, terms |-> FALSE, spawns |-> 2, restarts |-> 1]

\* Descendants of every kind; pids that are reused over a registry; a stop and a
\* termination over an adopted child; a registered job of a solo node.
Each == {[Plain EXCEPT !.forks = {"child"}, !.spawns = 1, !.dirty = FALSE],
         [Plain EXCEPT !.forks = {"registered"}, !.recycles = TRUE, !.dirty = FALSE, !.spawns = 1],
         [Plain EXCEPT !.halts = TRUE, !.forks = {"daemon"}, !.spawns = 1, !.restarts = 0],
         [Plain EXCEPT !.halts = TRUE, !.spawns = 1],
         [Plain EXCEPT !.terms = TRUE, !.forks = {"daemon"}, !.spawns = 1, !.dirty = FALSE],
         [Plain EXCEPT !.recycles = TRUE, !.restarts = 0],
         [Plain EXCEPT !.solo = TRUE, !.jobs = TRUE, !.halts = TRUE, !.dirty = FALSE, !.spawns = 1],
         [Plain EXCEPT !.forks = {"child"}, !.restarts = 0],
         [Plain EXCEPT !.dirty = FALSE, !.restarts = 2, !.spawns = 1]}
=============================================================================
