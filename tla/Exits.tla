-------------------------------- MODULE Exits --------------------------------
(* How a runner closes a run: its verdict in runner_exit.json, the ledger of  *)
(* budget deaths, and the one invocation of the on_exit handler, over the     *)
(* deaths of runners, amends, and successors that boot at any time.           *)
EXTENDS Integers, Sequences, FiniteSets, SequencesExt

CONSTANTS
  Runners,
  Nodes,     \* that may die of the budget
  Endings    \* the reasons loop() may return, and the bounds

\* An ending: the reasons; whether the graph has a handler, whether its inputs are met; how often a
\* runner may die, the owner amend, a runner be booted, and whether it may be blocked; how often the ledger may be closed.
EndingSet == [reasons : SUBSET {"done", "stopped", "failed", "crashed", "budget"}, handler : BOOLEAN, ready : BOOLEAN,
              deaths : Nat, amends : Nat, boots : Nat, wreckage : BOOLEAN, closures : Nat]
ExitsConstants == "free" \notin Runners /\ Endings \subseteq EndingSet
None == [reason |-> "none", of |-> 0]
NoGraph == [v |-> 0, def |-> 0]
Gone == {"none", "out", "dead"}
Terminal == {"done", "stopped", "failed", "crashed"}

VARIABLES
  ending,
  graph,          \* the version of graph.json, and of the handler in it
  verdict,        \* runner_exit.json: the reason and the graph it is of
  claim,          \* on_exit.json
  said,           \* the bracket of events
  rec,            \* nodes/<handler>.json
  receipt,        \* on_exit_receipt.md
  ledger,         \* budget_ledger.json: the union and the chain of occurrences
  child,          \* the agent of the handler
  lock,           \* runner.lock
  pc, own, why, got,  \* each runner: its graph, its reason, the record it will commit
  deaths, amends, boots,  \* bounds
  launches, closed, owed, rerun \* history: launches of the handler, closures of the ledger, a postmortem is owed, and a boot drove work instead

files == <<graph, verdict, claim, said, rec, receipt, ledger>>
procs == <<pc, own, why, got>>
bounds == <<deaths, amends, boots>>
hist == <<launches, closed, owed, rerun>>
vars == <<ending, files, child, lock, procs, bounds, hist>>

NoClaim == [phase |-> "none", def |-> 0]
NoRec == [st |-> "none", def |-> 0]
Fresh == claim.phase = "none"

Goes(r, from, to) == pc[r] = from /\ pc' = [pc EXCEPT ![r] = to]
Out(r, from) == Goes(r, from, "out") /\ lock' = IF lock = r THEN "free" ELSE lock

\* runner_exit_read: a verdict of another graph is stale.
Prior == IF verdict.of = graph.v THEN verdict.reason ELSE "stale"
Finished == claim.phase = "finished"
MustHandle == ending.handler /\ Prior \in Terminal /\ (Prior = "crashed" \/ ~ Finished)

-----------------------------------------------------------------------------
(* Boot, work, fence and verdict.                                          *)

Duplicate == Prior = "stopped" /\ (ending.handler => Finished)

Boots(r) ==
  /\ boots > 0 /\ boots' = boots - 1
  /\ pc[r] \in Gone /\ lock = "free"
  /\ own' = [own EXCEPT ![r] = graph] /\ why' = [why EXCEPT ![r] = "none"] /\ got' = [got EXCEPT ![r] = NoRec]
  /\ UNCHANGED <<ending, graph, claim, said, rec, receipt, ledger, child, deaths, amends, launches, closed, owed>>
  /\ \/ \* a spawn of the door after a stop that is consumed: a duplicate
        /\ Duplicate
        /\ pc' = [pc EXCEPT ![r] = "out"] /\ UNCHANGED <<verdict, lock, rerun>>
     \/ \* the postmortem is owed: no ordinary work
        /\ MustHandle
        /\ pc' = [pc EXCEPT ![r] = "handle"] /\ lock' = r /\ UNCHANGED <<verdict, rerun>>
     \/ /\ ~ MustHandle
        /\ pc' = [pc EXCEPT ![r] = "drive"] /\ lock' = r
        /\ verdict' = None
        /\ rerun' = (rerun \/ owed)

\* A boot that finds wreckage in a lane, or a survivor it cannot kill, writes a verdict of its own.
Blocks(r) ==
  /\ ending.wreckage /\ boots > 0 /\ boots' = boots - 1
  /\ pc[r] \in Gone /\ lock = "free" /\ ~ Duplicate
  /\ pc' = [pc EXCEPT ![r] = "out"]
  /\ verdict' = [reason |-> "blocked", of |-> graph.v]
  /\ owed' = FALSE
  /\ UNCHANGED <<ending, graph, claim, said, rec, receipt, ledger, child, lock, own, why, got, deaths, amends, launches, closed, rerun>>

\* close_budget_ledger: the row of this closure is merged into what is there.
Row(capped, never) == [exhausted |-> capped, never |-> never]
Merged(old, row) ==
  IF old # <<>> /\ Last(old) = row THEN old ELSE Append(old, row)

\* A run that died of its budget writes the ledger and its verdict, and has no postmortem.
Caps(r) ==
  /\ "budget" \in ending.reasons
  /\ Goes(r, "drive", "verdict")
  /\ Len(closed) < ending.closures
  /\ \E capped \in (SUBSET Nodes) \ {{}} : \E never \in SUBSET (Nodes \ capped) :
       /\ ledger' = Merged(ledger, Row(capped, never))
       /\ closed' = Append(closed, Row(capped, never))
  /\ why' = [why EXCEPT ![r] = "budget"]
  /\ UNCHANGED <<ending, graph, verdict, claim, said, rec, receipt, child, lock, own, got, bounds, launches, owed, rerun>>

\* Done and stopped keep the lock; a failure lets go of it before it looks a last time.
Drives(r) ==
  /\ \E reason \in ending.reasons \ {"budget", "crashed"} :
       /\ why' = [why EXCEPT ![r] = reason]
       /\ Goes(r, "drive", IF reason = "failed" THEN "fence" ELSE "verdict")
       /\ lock' = IF reason = "failed" THEN "free" ELSE lock
  /\ UNCHANGED <<ending, files, child, own, got, bounds, hist>>

Reloads(r) ==
  /\ pc[r] = "drive" /\ own[r] # graph
  /\ own' = [own EXCEPT ![r] = graph]
  /\ UNCHANGED <<ending, files, child, lock, pc, why, got, bounds, hist>>

\* An exception records itself and leaves; the postmortem is for a successor.
Raises(r) ==
  /\ "crashed" \in ending.reasons
  /\ Out(r, "drive")
  /\ verdict' = [reason |-> "crashed", of |-> own[r].v]
  /\ owed' = (owed \/ (ending.handler /\ own[r] = graph /\ ~ Finished))
  /\ UNCHANGED <<ending, graph, claim, said, rec, receipt, ledger, child, own, why, got, bounds, launches, closed, rerun>>

\* The fence: an amend is taken up, a successor is yielded to, otherwise the lock is taken again.
Fence(r) ==
  /\ \/ /\ own[r] # graph /\ lock = "free"
        /\ Goes(r, "fence", "drive") /\ lock' = r /\ own' = [own EXCEPT ![r] = graph]
     \/ /\ lock # "free"
        /\ Goes(r, "fence", "out") /\ UNCHANGED <<lock, own>>
     \/ /\ lock = "free" /\ own[r] = graph
        /\ Goes(r, "fence", "verdict") /\ UNCHANGED own
        /\ lock' = IF ending.handler THEN r ELSE lock
  /\ UNCHANGED <<ending, files, child, why, got, bounds, hist>>

\* write_runner_exit, of the graph this runner ran; then the handler, if there is one to run.
Records(r) ==
  /\ verdict' = [reason |-> why[r], of |-> own[r].v]
  /\ IF ending.handler /\ why[r] \in Terminal
     THEN Goes(r, "verdict", "handle") /\ UNCHANGED lock
     ELSE Out(r, "verdict")
  /\ owed' = (owed \/ (ending.handler /\ why[r] \in Terminal /\ own[r] = graph /\ ~ Finished))
  /\ UNCHANGED <<ending, graph, claim, said, rec, receipt, ledger, child, own, why, got, bounds, launches, closed, rerun>>

-----------------------------------------------------------------------------
(* _run_on_exit.                                                           *)

Closed(r) ==
  /\ Finished /\ Out(r, "handle")
  /\ UNCHANGED <<ending, files, child, own, why, got, bounds, hist>>

\* The claim is created exclusively and empty, then filled and synced, before anything is launched.
Claims(r) ==
  /\ Fresh /\ Goes(r, "handle", "fill")
  /\ claim' = [phase |-> "torn", def |-> 0]
  /\ UNCHANGED <<ending, graph, verdict, said, rec, receipt, ledger, child, lock, own, why, got, bounds, hist>>

FillsUnsynced(r) ==
  /\ Goes(r, "fill", "launch")
  /\ claim' = NoClaim
  /\ said' = said \cup {"spawned"}
  /\ UNCHANGED <<ending, graph, verdict, rec, receipt, ledger, child, lock, own, why, got, bounds, hist>>

Fills(r) ==
  /\ Goes(r, "fill", "launch")
  /\ claim' = [phase |-> "spawned", def |-> own[r].def]
  /\ said' = said \cup {"spawned"}
  /\ UNCHANGED <<ending, graph, verdict, rec, receipt, ledger, child, lock, own, why, got, bounds, hist>>

Settles(r, from, record) == Goes(r, from, "commit") /\ got' = [got EXCEPT ![r] = record]
Failed(r) == [st |-> "failed", def |-> own[r].def]

\* Inputs that cannot be built are a failure of the handler, and nothing is launched.
Launches(r) ==
  /\ IF ending.ready
     THEN /\ Goes(r, "launch", "bind") /\ child' = "alive" /\ launches' = launches + 1 /\ UNCHANGED got
     ELSE /\ Settles(r, "launch", Failed(r)) /\ UNCHANGED <<child, launches>>
  /\ UNCHANGED <<ending, files, lock, own, why, bounds, closed, owed, rerun>>

\* The spawn record, with the pid.
Binds(r) ==
  /\ Goes(r, "bind", "await")
  /\ rec' = [st |-> "running", def |-> own[r].def]
  /\ UNCHANGED <<ending, graph, verdict, claim, said, receipt, ledger, child, lock, own, why, got, bounds, hist>>

ChildEnds == child = "alive" /\ child' \in {"answered", "died"} /\ UNCHANGED <<ending, files, lock, procs, bounds, hist>>

\* No ladder: what it says is the record.
Harvests(r) ==
  /\ child \in {"answered", "died"}
  /\ Settles(r, "await", [st |-> IF child = "answered" THEN "done" ELSE "failed", def |-> own[r].def])
  /\ UNCHANGED <<ending, files, child, lock, own, why, bounds, hist>>

RecoversOutside(r) ==
  /\ claim.phase \in {"torn", "spawned"}
  /\ said' = said \cup {"spawned"}
  /\ IF claim.phase = "torn" \/ claim.def # own[r].def THEN Out(r, "handle") /\ UNCHANGED got
     ELSE (IF rec.st = "running" THEN Goes(r, "handle", "await") /\ UNCHANGED got ELSE Settles(r, "handle", Failed(r))) /\ UNCHANGED lock
  /\ UNCHANGED <<ending, graph, verdict, claim, rec, receipt, ledger, child, own, why, bounds, hist>>

\* A successor repeats the first event, and launches nothing: a committed record stands, a bound
\* child is awaited, and everything else is a failure.
Recovers(r) ==
  /\ claim.phase \in {"torn", "spawned"}
  /\ said' = said \cup {"spawned"}
  /\ IF claim.phase = "torn" \/ claim.def # own[r].def THEN Settles(r, "handle", Failed(r))
     ELSE IF rec.st \in {"done", "failed"} /\ rec.def = own[r].def THEN Settles(r, "handle", rec)
     ELSE IF rec.st = "running" /\ rec.def = own[r].def THEN Goes(r, "handle", "await") /\ UNCHANGED got
     ELSE Settles(r, "handle", Failed(r))
  /\ UNCHANGED <<ending, graph, verdict, claim, rec, receipt, ledger, child, lock, own, why, bounds, hist>>

\* The gates of the commit may demote it, also one that had been committed.
Commits(r) ==
  /\ Goes(r, "commit", "receipt")
  /\ \E st \in IF got[r].st = "done" THEN {"done", "failed"} ELSE {"failed"} :
       rec' = [st |-> st, def |-> own[r].def] /\ got' = [got EXCEPT ![r].st = st]
  /\ UNCHANGED <<ending, graph, verdict, claim, said, receipt, ledger, child, lock, own, why, bounds, hist>>

Receipts(r) ==
  /\ Goes(r, "receipt", "finish")
  /\ receipt' = got[r].st
  /\ said' = said \cup {"finished"}
  /\ UNCHANGED <<ending, graph, verdict, claim, rec, ledger, child, lock, own, why, got, bounds, hist>>

Finishes(r) ==
  /\ Out(r, "finish")
  /\ claim' = [claim EXCEPT !.phase = "finished"]
  /\ owed' = FALSE
  /\ UNCHANGED <<ending, graph, verdict, said, rec, receipt, ledger, child, own, why, got, bounds, launches, closed, rerun>>

-----------------------------------------------------------------------------
Dies(r) ==
  /\ pc[r] \notin Gone /\ deaths > 0 /\ deaths' = deaths - 1
  /\ pc' = [pc EXCEPT ![r] = "dead"]
  /\ lock' = IF lock = r THEN "free" ELSE lock
  /\ UNCHANGED <<ending, files, child, own, why, got, amends, boots, hist>>

\* An amend, of the handler too or not; whoever drives takes it up at a boundary.
Amends ==
  /\ amends > 0 /\ amends' = amends - 1
  /\ \E d \in {graph.def, graph.def + 1} : graph' = [v |-> graph.v + 1, def |-> d]
  /\ owed' = FALSE
  /\ UNCHANGED <<ending, verdict, claim, said, rec, receipt, ledger, child, lock, procs, deaths, boots, launches, closed, rerun>>

Runs(r) == \/ Reloads(r) \/ Caps(r) \/ Drives(r) \/ Raises(r) \/ Fence(r) \/ Records(r) \/ Closed(r) \/ Claims(r) \/ Fills(r) \/ Launches(r)
           \/ Binds(r) \/ Harvests(r) \/ Recovers(r) \/ Commits(r) \/ Receipts(r) \/ Finishes(r)

Init ==
  /\ ending \in Endings
  /\ graph = [v |-> 1, def |-> 1]
  /\ verdict = None /\ claim = NoClaim /\ said = {} /\ rec = NoRec /\ receipt = "none" /\ ledger = <<>>
  /\ child = "none" /\ lock = "free"
  /\ pc = [r \in Runners |-> "none"] /\ own = [r \in Runners |-> NoGraph]
  /\ why = [r \in Runners |-> "none"] /\ got = [r \in Runners |-> NoRec]
  /\ deaths = ending.deaths /\ amends = ending.amends /\ boots = ending.boots
  /\ launches = 0 /\ closed = <<>> /\ owed = FALSE /\ rerun = FALSE

Next == \/ \E r \in Runners : Boots(r) \/ Blocks(r) \/ Runs(r) \/ Dies(r)
        \/ ChildEnds \/ Amends

Fairness == WF_vars(ChildEnds) /\ \A r \in Runners : WF_vars(Runs(r))
Spec == Init /\ [][Next]_vars /\ Fairness

-----------------------------------------------------------------------------
(* Properties.                                                             *)

\* The handler is launched at most once in the life of the run, whoever dies, boots or amends; no
\* runner boots into ordinary work while its postmortem is owed, unless a blocked boot intervenes (a
\* fence that takes up an amend is no boot); and when it is finished it has left both events, and a
\* receipt that says what its record says.
PostmortemIsOne ==
  /\ launches <= 1 /\ ~ rerun
  /\ Finished => receipt = rec.st /\ receipt \in {"done", "failed"} /\ said = {"spawned", "finished"}

\* No handler touches the verdict of its run.
KeepsVerdict == \A r \in Runners : lock = r /\ pc[r] \notin Gone \cup {"drive", "verdict"} => verdict' = verdict

\* The first closure stands, the union never forgets a node, and no closure is counted twice in a row.
Exhausted(chain) == UNION {chain[i].exhausted : i \in DOMAIN chain}
LedgerKeeps ==
  /\ closed # <<>> => ledger[1] = closed[1]
  /\ Exhausted(ledger) = Exhausted(closed)
  /\ \A i \in 2..Len(ledger) : ledger[i] # ledger[i - 1]
=============================================================================
