-------------------------------- MODULE MCFanOut --------------------------------
(* Instances of FanOut for TLC.                                                *)
EXTENDS FanOut, TLC

Plain == [items |-> {"a", "b"}, quorum |-> 0, drains |-> FALSE, width |-> 2, batch |-> 2,
          probes |-> FALSE, faulty |-> {}, halts |-> FALSE, caps |-> FALSE,
          says |-> {"done", "failed"}, redrives |-> 1, restarts |-> 1]

\* A majority under a token cap, over a disk that fails and over a forbidden model; a
\* race of three with and without a drain; a stale roster under a stop; the ladders.
Each == {[Plain EXCEPT !.caps = TRUE, !.faulty = {"a"}],
         [Plain EXCEPT !.says = {"done", "partial", "forbidden"}],
         [Plain EXCEPT !.items = {"a", "b", "c"}, !.quorum = 2, !.drains = TRUE, !.width = 3, !.restarts = 0],
         [Plain EXCEPT !.items = {"a", "b", "c"}, !.quorum = 2, !.batch = 1, !.faulty = {"c"}, !.restarts = 0],
         [Plain EXCEPT !.quorum = 1, !.drains = TRUE],
         [Plain EXCEPT !.probes = TRUE, !.halts = TRUE],
         [Plain EXCEPT !.redrives = 2, !.width = 1]}
=============================================================================
