------------------------------ MODULE RetryLadder ------------------------------
(***************************************************************************)
(* The retry ladders around the items of one fan-out: what happens between  *)
(* the first launch of an agent and the record of its item.                 *)
(*                                                                         *)
(* A death goes through four ladders in order: the park of a rate limit,    *)
(* the transient ladder with its window on disk, the declared fallback      *)
(* models and the bounded re-drive.  All draw on one budget of the run,     *)
(* which every runner process starts anew; the window outlives the runner.  *)
(* A runner that resumes an unfinished fan-out drives every item of it.     *)
(***************************************************************************)
EXTENDS Naturals, FiniteSets, Verdicts

CONSTANTS
  Cells,     \* the items
  Ends,      \* the deaths an attempt may die, with the evidence they leave
  TCap,      \* retry.transient of the node
  BCap,      \* retry.bounded of the node
  Rungs,     \* how many fallback models the node declares
  Budget,    \* retry_budget of the run
  Parks,     \* how many parks fit into the wall of the node
  Stoppable, \* the run may be stopped
  Quorum,    \* an explicit quorum cancels the other items, 0 without one
  Restarts   \* bound: runners that take over

ASSUME LadderConstants ==
  /\ TCap \in Nat /\ BCap \in Nat /\ Rungs \in Nat /\ Budget \in Nat /\ Parks \in Nat
  /\ Stoppable \in BOOLEAN /\ Quorum \in Nat /\ Restarts \in Nat
  /\ Ends \subseteq [facts : Facts, calls : {"zero", "some"}, work : BOOLEAN]

VARIABLES
  window,   \* retry-window.json: attempts, entries of the ledger, deadline ahead
  record,   \* the committed record of each item, with the length of its ledger
  pc,       \* where the thread of each item is
  stage,    \* the ladder it is in
  r,        \* the verdict it holds
  kept,     \* the harvest that a bounded re-drive may fall back to
  tried,    \* ladder_attempts of the transient ladder
  entries,  \* length of attempts_log
  used,     \* parks, rungs or passes the present ladder has taken
  tree,     \* processes of this runner's earlier attempts in the work directory
  seen,     \* _window_gate_seen of this runner
  left,     \* _retries_left of this runner
  up, stop, cancel, restarts,
  launches, \* history: launches of each item by this runner
  answered  \* history: this runner saw a valid answer of the item, and no rung came after

ladder == <<stage, r, kept, tried, entries, used>>
hist == <<launches, answered>>
run == <<up, stop, cancel, restarts>>
vars == <<window, record, pc, ladder, tree, seen, left, run, hist>>

NoWindow == [attempts |-> 0, log |-> 0, due |-> FALSE]
NoVerdict == [status |-> "none", class |-> "none", calls |-> "zero", work |-> FALSE,
              refused |-> FALSE, harvest |-> FALSE]
NoRecord == [verdict |-> NoVerdict, log |-> 0]
Typed(class) == [NoVerdict EXCEPT !.status = "failed", !.class = class]

Classes == Retryable \cup Bounded \cup
  {"none", "ratelimit", "fatal_quota", "unresolved_model", "provider_400", "schema", "crashed",
   "killed", "cancelled", "config_input", "declared_failure", "left_live_descendants",
   "transport_exhausted"}
VerdictSet == [status : {"none", "done", "partial", "failed"}, class : Classes,
               calls : {"zero", "some"}, work : BOOLEAN, refused : BOOLEAN, harvest : BOOLEAN]

\* The types of the variables; the counters of the ladders stay within their caps.
TypesOver(cells) ==
  /\ window \in [cells -> [attempts : 0 .. TCap, log : Nat, due : BOOLEAN]]
  /\ record \in [cells -> [verdict : VerdictSet, log : Nat]]
  /\ pc \in [cells -> {"gate", "agent", "ladder", "sleep", "isolate", "end"}]
  /\ stage \in [cells -> {"park", "transient", "late", "fallback", "bounded", "final"}]
  /\ r \in [cells -> VerdictSet] /\ kept \in [cells -> VerdictSet]
  /\ tried \in [cells -> 0 .. TCap] /\ entries \in [cells -> Nat] /\ used \in [cells -> Nat]
  /\ tree \in [cells -> Nat] /\ seen \subseteq cells /\ left \in 0 .. Budget
  /\ up \in BOOLEAN /\ stop \in BOOLEAN /\ cancel \in BOOLEAN /\ restarts \in 0 .. Restarts
  /\ launches \in [cells -> Nat] /\ answered \subseteq cells
LadderTypeOK == TypesOver(Cells)

-----------------------------------------------------------------------------

Ended(c) == pc[c] = "end"
Failed(c, classes) == r[c].status = "failed" /\ r[c].class \in classes
Halted == stop \/ cancel

Goto(c, to) == pc' = [pc EXCEPT ![c] = to]
Hold(c, v) == r' = [r EXCEPT ![c] = v]

\* _retry_window_keep: the window survives on the death that the ladder retries.
Keeps(v) == v.status = "failed" /\ ~ v.harvest /\ v.class \in Retryable \cup {"transport_exhausted"}

\* A ladder looks only at deaths of its own classes; the others pass it by.
Admits(s, v) ==
  CASE s = "transient" -> v.status = "failed" /\ v.class \in Retryable
    [] s = "fallback" -> v.status = "failed" /\ v.class = "transport_exhausted" /\ ~ v.refused
    [] s = "bounded" -> v.status # "done" /\ v.class \in Bounded
    [] OTHER -> TRUE

\* The ladders ahead, in their order.
NextStage(s, v) ==
  IF s = "park" /\ Admits("transient", v) THEN "transient"
  ELSE IF s \in {"park", "transient", "late"} /\ Admits("fallback", v) THEN "fallback"
  ELSE IF s # "bounded" /\ Admits("bounded", v) THEN "bounded"
  ELSE "final"

\* Each ladder starts its own count, the transient one from the persisted count.
Enter(c, s) ==
  /\ stage' = [stage EXCEPT ![c] = s]
  /\ used' = [used EXCEPT ![c] = 0]
  /\ tried' = IF s = "transient" THEN [tried EXCEPT ![c] = window[c].attempts] ELSE tried
  /\ Goto(c, "ladder")

\* A verdict goes on to the next ladder; past the transient one the window is
\* settled.
LeaveWith(c, v) ==
  LET next == NextStage(stage[c], v) IN
  /\ Hold(c, v)
  /\ Enter(c, next)
  /\ IF stage[c] \in {"park", "transient", "late"} /\ next # "transient" /\ ~ Keeps(v)
       THEN window' = [window EXCEPT ![c] = NoWindow]
       ELSE UNCHANGED window

Leave(c) == LeaveWith(c, r[c])

\* One entry of the ledger names one death that is re-driven.
Note(c) == entries' = [entries EXCEPT ![c] = @ + 1]

Draw == left > 0 /\ left' = left - 1

-----------------------------------------------------------------------------
(* The launch: _honor_retry_window, the checks of the item and run_child.  *)

Init ==
  /\ window = [c \in Cells |-> NoWindow] /\ record = [c \in Cells |-> NoRecord]
  /\ pc = [c \in Cells |-> "gate"] /\ stage = [c \in Cells |-> "park"]
  /\ r = [c \in Cells |-> NoVerdict] /\ kept = [c \in Cells |-> NoVerdict]
  /\ tried = [c \in Cells |-> 0] /\ entries = [c \in Cells |-> 0] /\ used = [c \in Cells |-> 0]
  /\ tree = [c \in Cells |-> 0] /\ seen = {} /\ left = Budget
  /\ up = TRUE /\ stop = FALSE /\ cancel = FALSE /\ restarts = 0
  /\ launches = [c \in Cells |-> 0] /\ answered = {}

\* The first sight of a window in a boot that leaves no attempt.
Spent(c) == c \notin seen /\ window[c].attempts > 0 /\ window[c].attempts >= TCap

Refuse(c) ==
  /\ up /\ pc[c] = "gate" /\ Spent(c) /\ ~ Halted
  /\ seen' = seen \cup {c}
  /\ Hold(c, [Typed("transport_exhausted") EXCEPT !.refused = TRUE])
  /\ entries' = [entries EXCEPT ![c] = window[c].log]
  /\ Goto(c, "ladder")
  /\ UNCHANGED <<window, record, stage, kept, tried, used, tree, left, run, hist>>

\* A stop or a quorum ends the wait for the deadline too.
CalledOff(c) ==
  /\ up /\ pc[c] = "gate" /\ Halted
  /\ seen' = seen \cup {c}
  /\ Hold(c, Typed("cancelled"))
  /\ Goto(c, "ladder")
  /\ UNCHANGED <<window, record, stage, kept, tried, entries, used, tree, left, run, hist>>

Launch(c) ==
  /\ up /\ pc[c] = "gate" /\ ~ Spent(c) /\ ~ window[c].due /\ ~ Halted
  /\ seen' = seen \cup {c}
  /\ tree' = [tree EXCEPT ![c] = @ + 1]
  /\ launches' = [launches EXCEPT ![c] = @ + 1]
  /\ Goto(c, "agent")
  /\ UNCHANGED <<window, record, ladder, left, run, answered>>

\* The clock passes the deadline of a backoff.
Elapse(c) ==
  /\ window[c].due
  /\ window' = [window EXCEPT ![c].due = FALSE]
  /\ UNCHANGED <<record, pc, ladder, tree, seen, left, run, hist>>

\* run_child returns; descendants may outlive any exit but a clean one.
AgentEnds(c) ==
  /\ up /\ pc[c] = "agent"
  /\ \E e \in Ends, escaped \in {0, 1} :
       LET v == Fresh(e.facts, TRUE)
           fenced == e.facts.said = "fenced"
       IN
       /\ e.facts.by = "stop" => stop
       /\ e.facts.by = "quorum" => cancel
       /\ e.facts.exit = "zero" => escaped = 0
       /\ Hold(c, [status |-> v.status, class |-> v.class, calls |-> e.calls, work |-> e.work,
                   refused |-> FALSE, harvest |-> fenced /\ v.status # "done"])
       /\ tree' = [tree EXCEPT ![c] = @ - 1 + escaped]
       /\ answered' = IF v.status \in {"done", "partial"} THEN answered \cup {c} ELSE answered
  /\ Goto(c, "ladder")
  /\ UNCHANGED <<window, record, stage, kept, tried, entries, used, seen, left, run, launches>>

\* The harvest that a bounded re-drive may fall back to.
Harvested(v) == v.status = "partial" /\ v.harvest

\* Mutation: the tree is reported dead before /proc is read again.
BelievedDead(c) ==
  /\ up /\ pc[c] = "isolate"
  /\ Goto(c, "gate")
  /\ UNCHANGED <<window, record, ladder, tree, seen, left, run, hist>>

\* _isolate_prior before every re-spawn: the earlier tree is proven dead, or the
\* item fails for good.
Isolated(c) ==
  /\ up /\ pc[c] = "isolate"
  /\ tree' = [tree EXCEPT ![c] = 0]
  /\ IF stage[c] \in {"fallback", "bounded"} THEN Note(c) ELSE UNCHANGED entries
  /\ kept' = [kept EXCEPT ![c] = IF stage[c] = "bounded" /\ Harvested(r[c]) THEN r[c] ELSE NoVerdict]
  /\ Goto(c, "gate")
  /\ UNCHANGED <<window, record, stage, r, tried, used, seen, left, run, hist>>

Stuck(c) ==
  /\ up /\ pc[c] = "isolate" /\ tree[c] > 0
  /\ IF stage[c] = "bounded" THEN Note(c) ELSE UNCHANGED entries
  /\ LeaveWith(c, Typed("left_live_descendants"))
  /\ UNCHANGED <<record, kept, tree, seen, left, run, hist>>

-----------------------------------------------------------------------------
(* _ratelimit_park, before the transient ladder and out of its middle.      *)

Parking(c) == up /\ pc[c] = "ladder" /\ stage[c] \in {"park", "late"}
Limited(c) == Failed(c, {"ratelimit"})

Park(c) ==
  /\ Parking(c) /\ Limited(c) /\ ~ Halted /\ used[c] < Parks /\ Draw
  /\ used' = [used EXCEPT ![c] = @ + 1]
  /\ Note(c)
  /\ Goto(c, "sleep")
  /\ UNCHANGED <<window, record, stage, r, kept, tried, tree, seen, run, hist>>

LeavePark(c) ==
  /\ Parking(c)
  /\ \/ ~ Limited(c) /\ Leave(c)
     \/ Limited(c) /\ (stop \/ (~ cancel /\ (used[c] = Parks \/ left = 0))) /\ Leave(c)
     \/ Limited(c) /\ ~ stop /\ cancel /\ LeaveWith(c, Typed("cancelled"))
  /\ UNCHANGED <<record, kept, entries, tree, seen, left, run, hist>>

-----------------------------------------------------------------------------
(* _transient_retry.                                                       *)

Climbing(c) == up /\ pc[c] = "ladder" /\ stage[c] = "transient"
Transient(c) == Failed(c, Retryable) /\ tried[c] < TCap /\ ~ stop /\ r[c].calls = "zero"

\* A rate limit that shows after a re-spawn of this ladder goes to the park.
Banner(c) == Limited(c) /\ used[c] > 0

Retry(c) ==
  /\ Climbing(c) /\ Transient(c) /\ Draw
  /\ tried' = [tried EXCEPT ![c] = @ + 1]
  /\ used' = [used EXCEPT ![c] = @ + 1]
  /\ Note(c)
  /\ Goto(c, "sleep")
  /\ UNCHANGED <<record, stage, r, kept, tree, seen, run, hist>>

\* Mutation: the window is written after the sleep, and lost with the runner.
SaveLate(c) == Retry(c) /\ UNCHANGED window

\* The window is on disk before the sleep.
BackOff(c) ==
  /\ Retry(c)
  /\ window' = [window EXCEPT ![c] = [attempts |-> tried[c] + 1, log |-> entries[c] + 1, due |-> TRUE]]

LateBanner(c) ==
  /\ Climbing(c) /\ Banner(c)
  /\ Enter(c, "late")
  /\ UNCHANGED <<window, record, r, kept, entries, tree, seen, left, run, hist>>

\* The death after an attempt of this ladder gets a class of its own.
Demoted(c) ==
  IF entries[c] > 0 /\ tried[c] > 0 /\ r[c].class \in Retryable
    THEN [r[c] EXCEPT !.class = "transport_exhausted"] ELSE r[c]

LeaveTransient(c) ==
  /\ Climbing(c) /\ ~ Transient(c) /\ ~ Banner(c)
  /\ LeaveWith(c, Demoted(c))
  /\ UNCHANGED <<record, kept, entries, tree, seen, left, run, hist>>

\* Without budget the death is entered, counted and final.
BudgetGone(c) ==
  /\ Climbing(c) /\ Transient(c) /\ left = 0
  /\ Note(c)
  /\ LeaveWith(c, [r[c] EXCEPT !.class = "transport_exhausted"])
  /\ UNCHANGED <<record, kept, tree, seen, left, run, hist>>

-----------------------------------------------------------------------------
(* _fallback_ladder: one spawn per declared model, whatever it answers but  *)
(* done goes on to the next.                                               *)

OnRungs(c) == up /\ pc[c] = "ladder" /\ stage[c] = "fallback"
MoreRungs(c) == ~ Halted /\ used[c] < Rungs /\ r[c].status # "done"

Rung(c) ==
  /\ OnRungs(c) /\ MoreRungs(c) /\ Draw
  /\ used' = [used EXCEPT ![c] = @ + 1]
  /\ answered' = answered \ {c}
  /\ Goto(c, "isolate")
  /\ UNCHANGED <<window, record, stage, r, kept, tried, entries, tree, seen, run, launches>>

\* Mutation: a rung waits for a budget that nobody refills.
AwaitBudget(c) ==
  /\ OnRungs(c) /\ ~ MoreRungs(c)
  /\ Leave(c)
  /\ UNCHANGED <<record, kept, entries, tree, seen, left, run, hist>>

LeaveRungs(c) ==
  /\ OnRungs(c) /\ (~ MoreRungs(c) \/ left = 0)
  /\ Leave(c)
  /\ UNCHANGED <<record, kept, entries, tree, seen, left, run, hist>>

-----------------------------------------------------------------------------
(* _bounded_retry under _bounded_retry_tuned.                              *)

InBounds(c) == up /\ pc[c] = "ladder" /\ stage[c] = "bounded"

\* A harvested re-drive that brought no answer gives the harvest back.
Lost(c) == kept[c].status # "none" /\ r[c].status \notin {"done", "partial"} /\ r[c].class # "left_live_descendants"

Compare(c) ==
  /\ InBounds(c) /\ kept[c].status # "none"
  /\ kept' = [kept EXCEPT ![c] = NoVerdict]
  /\ IF Lost(c) THEN Hold(c, kept[c]) /\ Note(c) ELSE UNCHANGED <<r, entries>>
  /\ UNCHANGED <<window, record, pc, stage, tried, used, tree, seen, left, run, hist>>

\* A class of the bounded ladder, with proof of work or a busy session.
Redrivable(c) ==
  /\ used[c] < BCap /\ ~ stop
  /\ Harvested(r[c]) \/ (r[c].status = "failed" /\ ~ r[c].harvest)
  /\ r[c].class \in Bounded /\ (r[c].work \/ r[c].class = "lease_busy")

Rest(c) ==
  /\ InBounds(c) /\ kept[c].status = "none" /\ Redrivable(c)
  /\ used' = [used EXCEPT ![c] = @ + 1]
  /\ Goto(c, "sleep")
  /\ UNCHANGED <<window, record, stage, r, kept, tried, entries, tree, seen, left, run, hist>>

LeaveBounds(c) ==
  /\ InBounds(c) /\ kept[c].status = "none" /\ ~ Redrivable(c)
  /\ Leave(c)
  /\ UNCHANGED <<record, kept, entries, tree, seen, left, run, hist>>

-----------------------------------------------------------------------------

\* A sleep that ran out; the bounded ladder draws on the budget only now.
Wake(c) ==
  /\ up /\ pc[c] = "sleep" /\ ~ stop
  /\ stage[c] \in {"park", "late"} => ~ cancel
  /\ stage[c] = "transient" => ~ window[c].due
  /\ IF stage[c] = "bounded" THEN Draw ELSE UNCHANGED left
  /\ Goto(c, "isolate")
  /\ UNCHANGED <<window, record, ladder, tree, seen, run, hist>>

\* A stop, a cancelled park, or no budget after the sleep.
Roused(c) ==
  /\ up /\ pc[c] = "sleep"
  /\ \/ stop /\ LeaveWith(c, IF stage[c] = "transient" THEN Demoted(c) ELSE r[c])
     \/ ~ stop /\ cancel /\ stage[c] \in {"park", "late"} /\ LeaveWith(c, Typed("cancelled"))
     \/ ~ stop /\ stage[c] = "bounded" /\ left = 0 /\ Leave(c)
  /\ UNCHANGED <<record, kept, entries, tree, seen, left, run, hist>>

\* _final_quiesce and the commit of the item: a done answer over a tree that had to
\* be killed is a partial one, and one over a tree that lives is none.
Quiesced(c, v) ==
  \/ v = r[c] /\ (tree[c] = 0 \/ r[c].class = "cancelled" \/ r[c].status # "done") /\ UNCHANGED tree
  \/ /\ tree[c] > 0 /\ r[c].class # "cancelled" /\ tree' = [tree EXCEPT ![c] = 0]
     /\ v = IF r[c].status = "done" THEN [r[c] EXCEPT !.status = "partial", !.class = "left_live_descendants"]
            ELSE r[c]
  \/ tree[c] > 0 /\ r[c].class # "cancelled" /\ UNCHANGED tree /\ v = Typed("left_live_descendants")

Landed == {c \in Cells : Ended(c) /\ record[c].verdict.status = "done"}

\* The explicit quorum cancels what still runs.
Commit(c) ==
  /\ up /\ pc[c] = "ladder" /\ stage[c] = "final"
  /\ \E v \in {r[c], [r[c] EXCEPT !.status = "partial", !.class = "left_live_descendants"],
               Typed("left_live_descendants")} :
       /\ Quiesced(c, v)
       /\ record' = [record EXCEPT ![c] = [verdict |-> v, log |-> entries[c]]]
       /\ cancel' = (cancel \/ (/\ Quorum > 0 /\ v.status = "done"
                               /\ Cardinality(Landed) + 1 >= Quorum
                               /\ \E d \in Cells \ {c} : ~ Ended(d)))
  /\ Goto(c, "end")
  /\ UNCHANGED <<window, ladder, seen, left, up, stop, restarts, hist>>

-----------------------------------------------------------------------------

RequestStop ==
  /\ Stoppable /\ up /\ ~ stop
  /\ stop' = TRUE
  /\ UNCHANGED <<window, record, pc, ladder, tree, seen, left, up, cancel, restarts, hist>>

\* A runner goes with all it has in memory; its ledgers, counts and budget with it.
Lose ==
  /\ pc' = [c \in Cells |-> "gate"] /\ stage' = [c \in Cells |-> "park"]
  /\ r' = [c \in Cells |-> NoVerdict] /\ kept' = [c \in Cells |-> NoVerdict]
  /\ tried' = [c \in Cells |-> 0] /\ entries' = [c \in Cells |-> 0] /\ used' = [c \in Cells |-> 0]
  /\ tree' = [c \in Cells |-> 0] /\ seen' = {} /\ left' = Budget /\ cancel' = FALSE
  /\ launches' = [c \in Cells |-> 0] /\ answered' = {}
  /\ up' = FALSE

Crash ==
  /\ up /\ restarts < Restarts /\ \E c \in Cells : ~ Ended(c)
  /\ Lose
  /\ UNCHANGED <<window, record, stop, restarts>>

\* The run exits once all its items ended under a stop; an amend revives it.
Revive ==
  /\ up /\ stop /\ restarts < Restarts /\ \A c \in Cells : Ended(c)
  /\ Lose
  /\ stop' = FALSE
  /\ UNCHANGED <<window, record, restarts>>

Boot ==
  /\ ~ up
  /\ up' = TRUE /\ restarts' = restarts + 1
  /\ UNCHANGED <<window, record, pc, ladder, tree, seen, left, stop, cancel, hist>>

Thread(c) ==
  \/ Refuse(c) \/ CalledOff(c) \/ Launch(c) \/ AgentEnds(c) \/ Isolated(c) \/ Stuck(c)
  \/ Park(c) \/ LeavePark(c) \/ BackOff(c) \/ LateBanner(c) \/ LeaveTransient(c) \/ BudgetGone(c)
  \/ Rung(c) \/ LeaveRungs(c) \/ Compare(c) \/ Rest(c) \/ LeaveBounds(c)
  \/ Wake(c) \/ Roused(c) \/ Commit(c)

Next == \/ \E c \in Cells : Thread(c) \/ Elapse(c)
        \/ RequestStop \/ Crash \/ Revive \/ Boot

\* A thread goes on, an agent ends by its wall at the latest, time passes and a
\* dead runner is respawned by the next door call.
FairLadders ==
  /\ \A c \in Cells : WF_vars(Thread(c)) /\ WF_vars(Elapse(c))
  /\ WF_vars(Boot)

Spec == Init /\ [][Next]_vars /\ FairLadders

-----------------------------------------------------------------------------

\* What an item is to LadderPromise, whatever ladder it is in.
Phase(c) ==
  CASE pc[c] = "agent" -> "running"
    [] pc[c] = "end" -> "settled"
    [] pc[c] = "gate" /\ launches[c] = 0 -> "free"
    [] pc[c] = "ladder" \/ (pc[c] = "sleep" /\ stage[c] = "bounded") -> "judged"
    [] OTHER -> IF stage[c] = "transient" THEN "granted" ELSE "paid"

\* The ladders keep their promise: whatever ladder launches, the launch was free or is paid for.
Promise == INSTANCE LadderPromise WITH
  phase <- [c \in Cells |-> Phase(c)], spent <- [c \in Cells |-> window[c].attempts], purse <- left
PromisesKept == Promise!Spec /\ []Promise!Paid

\* No attempt starts while what an earlier one left behind may still be at work.
WorkdirUnshared == \A c \in Cells : pc[c] = "agent" => tree[c] = 1

\* A valid answer the runner saw is in the record, unless the tree could not be
\* proven dead or a further rung was launched over it.
AnswerCommitted ==
  \A c \in answered : Ended(c) =>
    record[c].verdict.status \in {"done", "partial"} \/ record[c].verdict.class = "left_live_descendants"

\* The attempts of the items do not disturb each other, and what they brought is kept.
AttemptsHold == LadderTypeOK /\ WorkdirUnshared /\ AnswerCommitted

\* budgets.md:45: a fenced answer of a dead attempt is kept under the harvest-on-death law.
\* The next rung is launched over it all the same.
RungsKeepAnswers == [][\A c \in Cells : Rung(c) => c \notin answered]_vars

\* An item that settled on anything but the transient death has no window.
WindowSettled == \A c \in Cells : Ended(c) /\ record[c].verdict.status = "done" => window[c] = NoWindow
=============================================================================
