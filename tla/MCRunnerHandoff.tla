-------------------------- MODULE MCRunnerHandoff --------------------------
(* Instances of RunnerHandoff for TLC: which doors are called.             *)
EXTENDS RunnerHandoff

CONSTANTS release, stopper, amend, waiter, release2, o1

DoorKinds == [d \in Doors |->
                CASE d = release -> "release" [] d = release2 -> "release"
                  [] d = stopper -> "stop" [] d = amend -> "amend" [] OTHER -> "wait"]

\* Any of five calls beside a status reader, with a kill and with orphans to sweep; any of three
\* where nothing crashes and nothing is swept.
Harsh == [calls |-> Doors, observers |-> {o1}, orphans |-> Runners, crashes |-> 1]
Calm == [calls |-> {release, stopper, amend}, observers |-> {}, orphans |-> {}, crashes |-> 0]
Both == {Harsh, Calm}
\* Any of the calls with a kill.
Killed == {[calls |-> Doors, observers |-> {}, orphans |-> {}, crashes |-> 1]}

\* No durable action is lost: a stop, an answer and an amend are each acted upon, and for good,
\* unless a SIGKILL takes the runner; DoorsReturn holds with the kill too.
ActionsTakeEffect == [](crashes = scene.crashes) => <>[](StopTaken /\ AnswerTaken /\ AmendTaken)
=============================================================================
