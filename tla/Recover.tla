------------------------------- MODULE Recover -------------------------------
(* What scripts do for a run whose runner was killed and left no verdict: the *)
(* watchdog revives it once for a graph, the finalizer closes the claims that *)
(* it left running.  They race each other, a runner that the door boots, the  *)
(* owner's amends, and their own deaths.  One fan-out node and its items.     *)
EXTENDS Integers, FiniteSets

CONSTANTS
  Items,
  Watchdogs,   \* calls of recover_crashed_runner
  Finalizers,  \* calls of finalize_run
  Scenes       \* how often each thing happens

\* A scene: the scripts that are called; boots by the door, kills of runners, amends, deaths of scripts, writes that fail.
SceneSet == [scripts : SUBSET (Watchdogs \cup Finalizers), boots : Nat, kills : Nat, amends : Nat, deaths : Nat, faults : Nat]
RecoverConstants ==
  /\ Scenes \subseteq SceneSet
  /\ "free" \notin Watchdogs \cup Finalizers /\ "runner" \notin Finalizers

VARIABLES
  scene,
  graph,        \* the version of the node in graph.json, also its efp
  item,         \* nodes/f.<i>.json: status, efp, and was it closed dead on arrival
  agg,          \* nodes/f.json
  child,        \* the process of an item: verifiable or not
  exit,         \* runner_exit.json: reason, the graph it is of
  lock,         \* runner.lock
  runner,       \* the runner that was booted last
  admission,    \* respawn.admission
  guard,        \* respawn_guard.json: the fingerprint
  receipts,     \* rows runner_respawn, by fingerprint
  wpc, fp,      \* each watchdog, the fingerprint it read
  zpc, read, todo, found, failed, \* each finalizer: the graph it read, records to look at, a dead claim; a write failed
  lost, spared  \* history: scripts that died, items that a finalizer found alive

records == <<item, agg, child>>
watchdogs == <<wpc, fp>>
finalizers == <<zpc, read, todo, found, failed>>
vars == <<scene, graph, records, exit, lock, runner, admission, guard, receipts, watchdogs, finalizers, lost, spared>>

Record(st, g) == [st |-> st, efp |-> g, doa |-> FALSE]
None == Record("none", 0)
NoVerdict == [reason |-> "none", of |-> 0]
Committed(rec, g) == IF rec.st \in {"done", "failed"} /\ rec.efp = g THEN rec.st ELSE "pending"
Can(what) == scene[what] > 0 /\ scene' = [scene EXCEPT ![what] = @ - 1]
Keep == UNCHANGED scene

-----------------------------------------------------------------------------
(* A runner, as far as it matters here.                                    *)

\* It takes the lock or leaves; it deletes the verdict, adopts what lives and launches the rest.
Boots ==
  /\ runner = "boot"
  /\ IF lock # "free" THEN runner' = "dead" /\ UNCHANGED <<lock, exit, item, child>>
     ELSE /\ runner' = "live" /\ lock' = "runner" /\ exit' = NoVerdict
          /\ item' = [i \in Items |-> IF Committed(item[i], graph) # "pending" THEN item[i] ELSE Record("running", graph)]
          /\ child' = [i \in Items |-> Committed(item[i], graph) = "pending" \/ child[i]]
  /\ Keep /\ UNCHANGED <<graph, agg, admission, guard, receipts, watchdogs, finalizers, lost, spared>>

Answers(i) ==
  /\ runner = "live" /\ child[i] /\ item[i].st = "running"
  /\ item' = [item EXCEPT ![i].st = "done"] /\ child' = [child EXCEPT ![i] = FALSE]
  /\ Keep /\ UNCHANGED <<graph, agg, exit, lock, runner, admission, guard, receipts, watchdogs, finalizers, lost, spared>>

Concludes ==
  /\ runner = "live" /\ \A i \in Items : Committed(item[i], graph) # "pending"
  /\ LET st == IF \E i \in Items : item[i].st = "failed" THEN "failed" ELSE "done" IN
     /\ agg' = IF Committed(agg, graph) # "pending" THEN agg ELSE Record(st, graph)
     /\ exit' = [reason |-> IF agg'.st = "done" THEN "done" ELSE "blocked", of |-> graph]
  /\ runner' = "dead" /\ lock' = "free"
  /\ Keep /\ UNCHANGED <<graph, item, child, admission, guard, receipts, watchdogs, finalizers, lost, spared>>

\* SIGKILL: children may live on.
RunnerDies ==
  /\ runner \in {"boot", "live"} /\ Can("kills")
  /\ runner' = "dead" /\ lock' = IF lock = "runner" THEN "free" ELSE lock
  /\ UNCHANGED <<graph, records, exit, admission, guard, receipts, watchdogs, finalizers, lost, spared>>

\* A child dies only after its runner here.
ChildDies(i) ==
  /\ runner = "dead" /\ child[i] /\ child' = [child EXCEPT ![i] = FALSE]
  /\ Keep /\ UNCHANGED <<graph, item, agg, exit, lock, runner, admission, guard, receipts, watchdogs, finalizers, lost, spared>>

\* act_wait follows an interrupted run that nobody drives.
Interrupted == ~ (exit.reason # "none" /\ exit.of = graph) /\ Committed(agg, graph) = "pending"
Follows == IF Interrupted /\ lock = "free" /\ runner = "dead" THEN runner' = "boot" ELSE UNCHANGED runner
DoorBoots ==
  /\ Can("boots") /\ Interrupted /\ lock = "free" /\ runner = "dead" /\ runner' = "boot"
  /\ UNCHANGED <<graph, records, exit, lock, admission, guard, receipts, watchdogs, finalizers, lost, spared>>

Amends ==
  /\ Can("amends") /\ graph' = graph + 1
  /\ UNCHANGED <<records, exit, lock, runner, admission, guard, receipts, watchdogs, finalizers, lost, spared>>

-----------------------------------------------------------------------------
(* recover_crashed_runner.                                                 *)

Goes(w, from, to) == wpc[w] = from /\ wpc' = [wpc EXCEPT ![w] = to]
Frees(w) == admission' = IF admission = w THEN "free" ELSE admission

\* crashed_no_exit_signature: no verdict at all, nobody alive, unfinished work.
Signature == exit.reason = "none" /\ lock = "free" /\ runner = "dead" /\ Committed(agg, graph) = "pending"

Reads(w) ==
  /\ Goes(w, "idle", "admit") /\ fp' = [fp EXCEPT ![w] = graph]
  /\ Keep /\ UNCHANGED <<graph, records, exit, lock, runner, admission, guard, receipts, finalizers, lost, spared>>

AdmitsAll(w) ==
  /\ Goes(w, "admit", "check") /\ UNCHANGED admission
  /\ Keep /\ UNCHANGED <<graph, records, exit, lock, runner, guard, receipts, fp, finalizers, lost, spared>>

\* The flock of the admission is held over the check, the spawn, the receipt and the guard.
Admits(w) ==
  /\ admission = "free" /\ admission' = w
  /\ Goes(w, "admit", "check")
  /\ Keep /\ UNCHANGED <<graph, records, exit, lock, runner, guard, receipts, fp, finalizers, lost, spared>>

Checks(w) ==
  /\ IF guard # fp[w] /\ Signature THEN Goes(w, "check", "spawn") /\ UNCHANGED admission ELSE Goes(w, "check", "end") /\ Frees(w)
  /\ Keep /\ UNCHANGED <<graph, records, exit, lock, runner, guard, receipts, fp, finalizers, lost, spared>>

Spawns(w) ==
  /\ Goes(w, "spawn", "confirm") /\ Follows
  /\ Keep /\ UNCHANGED <<graph, records, exit, lock, admission, guard, receipts, fp, finalizers, lost, spared>>

\* The lock is held, or the process that wf.pid names lives.
Confirms(w) ==
  /\ runner # "boot"
  /\ IF lock # "free" \/ runner = "live" THEN Goes(w, "confirm", "receipt") /\ UNCHANGED admission ELSE Goes(w, "confirm", "end") /\ Frees(w)
  /\ Keep /\ UNCHANGED <<graph, records, exit, lock, runner, guard, receipts, fp, finalizers, lost, spared>>

Receipts(w) ==
  /\ Goes(w, "receipt", "guard")
  /\ receipts' = [receipts EXCEPT ![fp[w]] = @ + 1]
  /\ Keep /\ UNCHANGED <<graph, records, exit, lock, runner, admission, guard, fp, finalizers, lost, spared>>

Guards(w) ==
  /\ Goes(w, "guard", "end") /\ Frees(w)
  /\ guard' = fp[w]
  /\ Keep /\ UNCHANGED <<graph, records, exit, lock, runner, receipts, fp, finalizers, lost, spared>>

-----------------------------------------------------------------------------
(* finalize_run.                                                           *)

Turns(z, from, to) == zpc[z] = from /\ zpc' = [zpc EXCEPT ![z] = to]

\* The graph is read before the lock is taken.
Loads(z) ==
  /\ Turns(z, "idle", "lock") /\ read' = [read EXCEPT ![z] = graph]
  /\ Keep /\ UNCHANGED <<graph, records, exit, lock, runner, admission, guard, receipts, watchdogs, todo, found, failed, lost, spared>>

PeeksLock(z) ==
  /\ IF lock = "free" /\ runner # "live" THEN Turns(z, "lock", "close") ELSE Turns(z, "lock", "end")
  /\ UNCHANGED lock
  /\ Keep /\ UNCHANGED <<graph, records, exit, runner, admission, guard, receipts, watchdogs, read, todo, found, failed, lost, spared>>

\* The lock of the runner is held over the whole pass.
TakesLock(z) ==
  /\ IF lock = "free" /\ runner # "live" THEN Turns(z, "lock", "close") /\ lock' = z
     ELSE Turns(z, "lock", "end") /\ UNCHANGED lock
  /\ Keep /\ UNCHANGED <<graph, records, exit, runner, admission, guard, receipts, watchdogs, read, todo, found, failed, lost, spared>>

\* A record is read and its process looked for; a claim that cannot be verified is closed and keeps
\* its own efp.  A write may fail.
Dead(i) == item[i].st = "running" /\ ~ child[i]
Looks(z, i) ==
  /\ zpc[z] = "close" /\ found[z] = {} /\ i \in todo[z] /\ todo' = [todo EXCEPT ![z] = @ \ {i}]
  /\ found' = [found EXCEPT ![z] = IF Dead(i) THEN {<<i, item[i].efp>>} ELSE {}]
  /\ spared' = IF child[i] THEN spared \cup {i} ELSE spared
  /\ Keep /\ UNCHANGED <<graph, records, exit, lock, runner, admission, guard, receipts, watchdogs, zpc, read, failed, lost>>

Closes(z) ==
  /\ zpc[z] = "close" /\ found[z] # {} /\ found' = [found EXCEPT ![z] = {}]
  /\ \E f \in found[z] :
       \/ Keep /\ UNCHANGED failed /\ item' = [item EXCEPT ![f[1]] = [st |-> "failed", efp |-> f[2], doa |-> TRUE]]
       \/ Can("faults") /\ failed' = [failed EXCEPT ![z] = TRUE] /\ UNCHANGED item
  /\ UNCHANGED <<graph, agg, child, exit, lock, runner, admission, guard, receipts, watchdogs, zpc, read, todo, lost, spared>>

\* A parent that has closed items of the graph that was read, and no record, is given a failed one.
Aggregates(z) ==
  /\ todo[z] = {} /\ found[z] = {} /\ Turns(z, "close", "verdict")
  /\ LET needs == agg.st = "none" /\ \E i \in Items : item[i].doa /\ item[i].efp = read[z] IN
     \/ /\ Keep /\ UNCHANGED failed
        /\ agg' = IF needs THEN [st |-> "failed", efp |-> read[z], doa |-> TRUE] ELSE agg
     \/ /\ needs /\ Can("faults") /\ failed' = [failed EXCEPT ![z] = TRUE] /\ UNCHANGED agg
  /\ UNCHANGED <<graph, item, child, exit, lock, runner, admission, guard, receipts, watchdogs, read, todo, found, lost, spared>>

Free(z) == lock' = IF lock = z THEN "free" ELSE lock
\* No verdict that stands, of this graph or of one before, is written over.
Blames == exit.reason = "none" /\ \E i \in Items : item[i].doa

Verdicts(z) ==
  /\ Turns(z, "verdict", "end") /\ Free(z)
  /\ \/ Keep /\ UNCHANGED failed /\ exit' = IF Blames THEN [reason |-> "blocked", of |-> read[z]] ELSE exit
     \/ Blames /\ Can("faults") /\ failed' = [failed EXCEPT ![z] = TRUE] /\ UNCHANGED exit
  /\ UNCHANGED <<graph, records, runner, admission, guard, receipts, watchdogs, read, todo, found, lost, spared>>

\* A script dies: its locks are dropped.
ScriptDies ==
  /\ Can("deaths") /\ lost' = lost + 1
  /\ \/ /\ \E w \in Watchdogs : wpc[w] \notin {"idle", "end"} /\ wpc' = [wpc EXCEPT ![w] = "end"] /\ Frees(w)
        /\ UNCHANGED <<lock, zpc>>
     \/ /\ \E z \in Finalizers : zpc[z] \notin {"idle", "end"} /\ zpc' = [zpc EXCEPT ![z] = "dead"] /\ Free(z)
        /\ UNCHANGED <<admission, wpc>>
  /\ UNCHANGED <<graph, records, exit, runner, guard, receipts, fp, read, todo, found, failed, spared>>

-----------------------------------------------------------------------------
Init ==
  /\ scene \in Scenes
  /\ graph = 1
  /\ item = [i \in Items |-> Record("running", 1)] /\ child = [i \in Items |-> TRUE]
  /\ agg = None /\ exit = NoVerdict
  /\ lock = "runner" /\ runner = "live"
  /\ admission = "free" /\ guard = 0 /\ receipts = [g \in 1..(1 + scene.amends) |-> 0]
  /\ wpc = [w \in Watchdogs |-> "idle"] /\ fp = [w \in Watchdogs |-> 0]
  /\ zpc = [z \in Finalizers |-> "idle"] /\ read = [z \in Finalizers |-> 0]
  /\ todo = [z \in Finalizers |-> Items] /\ found = [z \in Finalizers |-> {}] /\ failed = [z \in Finalizers |-> FALSE]
  /\ lost = 0 /\ spared = {}

Next ==
  \/ Boots \/ Concludes \/ RunnerDies \/ DoorBoots \/ Amends \/ ScriptDies
  \/ \E i \in Items : Answers(i) \/ ChildDies(i)
  \/ \E w \in Watchdogs \cap scene.scripts : Reads(w) \/ Admits(w) \/ Checks(w) \/ Spawns(w) \/ Confirms(w) \/ Receipts(w) \/ Guards(w)
  \/ \E z \in Finalizers \cap scene.scripts : Loads(z) \/ TakesLock(z) \/ Aggregates(z) \/ Verdicts(z) \/ Closes(z) \/ \E i \in Items : Looks(z, i)

Spec == Init /\ [][Next]_vars

-----------------------------------------------------------------------------
(* Properties.                                                             *)

\* Two scripts and the door revive one crash scene once, but for scripts that died on the way.
RespawnedOnce == \A g \in DOMAIN receipts : receipts[g] <= 1 + lost

\* An answer that was committed stays, and no verdict is replaced but by a runner of its own: the
\* finalizer closes only what no runner, booted in the middle of its pass, took up.
ClosesTheDead ==
  /\ \A i \in Items : item[i].st = "done" => item'[i].st # "failed"
  /\ \A i \in Items : item'[i].doa /\ ~ item[i].doa => runner # "live"
  /\ exit.reason # "none" /\ runner # "boot" => exit' = exit

\* A pass that reports success leaves no dead claim, and a run that is over: passes that died or
\* failed to write are repaired by the next one.
Repaired == \A z \in Finalizers :
  zpc'[z] = "end" /\ zpc[z] = "verdict" /\ ~ failed[z] /\ read[z] = graph /\ ~ failed'[z] =>
    /\ \A i \in Items \ spared : item[i].st # "running"
    /\ (\E i \in Items : item[i].doa /\ item[i].efp = graph) => agg.st # "none" /\ exit'.reason # "none"
=============================================================================
