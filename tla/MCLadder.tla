------------------------------- MODULE MCLadder -------------------------------
(* Instances of RetryLadder for TLC: the deaths an attempt may die.           *)
EXTENDS RetryLadder, TLC

CONSTANTS Deaths, RaceDeaths

Dead(exit, said, mark) ==
  [exit |-> exit, said |-> said, mark |-> mark, token |-> "none", by |-> "none", tree |-> "empty"]
End(facts, calls, work) == [facts |-> facts, calls |-> calls, work |-> work]

\* By name: an answer, a provider's blip before and in the middle of the work, a
\* credential window, a wall that left an answer, a wall that left none, a wrong
\* answer, a busy session, and the two kills.
Menu ==
  ("answer" :> End(Dead("zero", "fenced", "none"), "some", TRUE)) @@
  ("blip" :> End(Dead("nonzero", "prose", "transport"), "zero", FALSE)) @@
  ("cut" :> End(Dead("nonzero", "prose", "transport"), "some", TRUE)) @@
  ("banner" :> End(Dead("nonzero", "prose", "ratelimit"), "zero", FALSE)) @@
  ("late" :> End(Dead("wall", "fenced", "none"), "some", TRUE)) @@
  ("slow" :> End(Dead("wall", "prose", "none"), "some", TRUE)) @@
  ("wrong" :> End(Dead("zero", "prose", "none"), "some", TRUE)) @@
  ("lease" :> End(Dead("nonzero", "prose", "lease"), "zero", FALSE)) @@
  ("stopped" :> End([Dead("signal", "prose", "none") EXCEPT !.by = "stop"], "some", TRUE)) @@
  ("beaten" :> End([Dead("signal", "fenced", "none") EXCEPT !.by = "quorum"], "some", TRUE))

Chosen == {Menu[d] : d \in Deaths}

VARIABLES
  racing, windows, records, at, stages, verdicts, keeps, tries, lengths, uses, trees, gated, purse, running, stops,
  cancels, boots, spawned, answers

\* One item that meets every death and the stop, or two that race for a quorum: a behaviour is of
\* one of the two, the variables of the other stay at its start.
Pair == {"a", "b"}
Race == INSTANCE RetryLadder WITH
  Cells <- Pair, Ends <- {Menu[d] : d \in RaceDeaths}, Stoppable <- FALSE, Quorum <- 1,
  window <- windows, record <- records, pc <- at, stage <- stages, r <- verdicts, kept <- keeps, tried <- tries,
  entries <- lengths, used <- uses, tree <- trees, seen <- gated, left <- purse, up <- running, stop <- stops,
  cancel <- cancels, restarts <- boots, launches <- spawned, answered <- answers

race == <<windows, records, at, stages, verdicts, keeps, tries, lengths, uses, trees, gated, purse, running, stops,
          cancels, boots, spawned, answers>>

MCInit == racing \in BOOLEAN /\ Init /\ Race!Init
MCNext ==
  /\ UNCHANGED racing
  /\ \/ ~ racing /\ Next /\ UNCHANGED race
     \/ racing /\ Race!Next /\ UNCHANGED vars
MCFair ==
  /\ \A c \in Cells : WF_vars(~ racing /\ Thread(c)) /\ WF_vars(~ racing /\ Elapse(c))
  /\ WF_vars(~ racing /\ Boot)
  /\ \A c \in Pair : WF_race(racing /\ Race!Thread(c)) /\ WF_race(racing /\ Race!Elapse(c))
  /\ WF_race(racing /\ Race!Boot)
MCSpec == MCInit /\ [][MCNext]_<<racing, vars, race>> /\ MCFair

\* Every item settles, and the race keeps its promise and its answers on the way.
ItemsSettle ==
  /\ Race!PromisesKept /\ []Race!AttemptsHold
  /\ <>[](IF racing THEN running /\ \A c \in Pair : at[c] = "end" ELSE up /\ \A c \in Cells : pc[c] = "end")

\* Verdicts states its laws of every death that is possible.
ASSUME VerdictsAreLawful == \A f \in Facts : Possible(f) => VerdictLaws(f)
=============================================================================
