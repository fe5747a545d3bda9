-------------------------------- MODULE Lanes --------------------------------
(***************************************************************************)
(* One lane key of the door: the calls that launch a run under it, the      *)
(* registry entry that names the incumbent, the durable creation of a run   *)
(* directory, and the two jobs that go through the runs root behind the     *)
(* door's back: the watchdog tick, which revives, and the retention script, *)
(* which removes.                                                           *)
(*                                                                         *)
(* What a runner does is a few steps here; RunnerHandoff has the rest.      *)
(***************************************************************************)
EXTENDS Naturals, FiniteSets, FiniteSetsExt

CONSTANTS Doors, Runs, Scenes

\* asks: what the calls ask for; frail: writes and proofs may fail; crashes, deaths: of doors
\* and of runners; amends, releases: what an owner does; ticks, prunes: which job is installed,
\* tracker: with the export that the age cut asks for;
\* pins: the runs retention must spare; legacy: an incumbent of the old root, or nobody.
SceneSet == [doors : SUBSET Doors, asks : SUBSET {"run", "forbidden", "dry", "free"}, frail : BOOLEAN, crashes : Nat,
             deaths : Nat, amends : Nat, releases : Nat, ticks : BOOLEAN, prunes : BOOLEAN, tracker : BOOLEAN, pins : SUBSET Runs,
             verdicts : SUBSET {"done", "failed", "stopped", "held"}, legacy : Runs \cup {0}]

Nobody == 0
LanesConstants ==
  /\ Runs \subseteq Nat \ {Nobody} /\ IsFiniteSet(Doors) /\ "free" \notin Doors
  /\ Scenes \subseteq SceneSet

VARIABLES
  scene,
  files,     \* what each run directory holds
  state,     \* none, new, open, held, a verdict, or gone
  live,      \* the runs with a runner
  exit,      \* the runs with a runner_exit.json
  work,      \* the runs whose work directory is there
  age,       \* of the newest package file: fresh, quiet, old
  lane,      \* the entry of the resolved root
  twin,      \* the entry of the launch root
  flock,     \* of the lane
  pc, mine,  \* each call, and the run it made or was given
  asked,
  jobs,      \* the tick jobs of the scheduler
  tick, todo, seen, active,  \* the tick: its census, who lived then, whether anybody was active
  judged,    \* what retention is about to do
  named, ended, blind, crashes, deaths, amends, releases \* history, with its bounds

disk == <<files, state, exit, work, age>>
registry == <<lane, twin, flock>>
calls == <<pc, mine, asked>>
watch == <<jobs, tick, todo, seen, active>>
hist == <<named, ended, blind, crashes, deaths, amends, releases>>
vars == <<scene, disk, live, registry, calls, watch, judged, hist>>

Terminal == {"done", "failed", "stopped"}
Mandatory == {"graph", "run", "protocol"}
Made == {d \in Runs : state[d] \notin {"none", "gone"}}
Nothing == [run |-> Nobody, does |-> "none"]

\* run_state, given who is believed to live.
Status(d, living) ==
  IF state[d] = "none" \/ state[d] = "gone" \/ "graph" \notin files[d] THEN "none"
  ELSE IF state[d] \in Terminal \cup {"held"} THEN state[d]
  ELSE IF d \in living THEN "running"
  ELSE IF state[d] = "new" THEN "pending" ELSE "interrupted"

\* _lane_entry: the resolved root first, its twin on a miss.
Entry == IF lane # Nobody THEN lane ELSE twin

UndrivenIsOver(d) == d \in live

\* _lane_state: whatever is not known to be over is unfinished, the vanished included.
Unfinished(d) == Status(d, live) \notin Terminal
Incumbent == {d \in {Entry} \ {Nobody} : Unfinished(d)}

\* A runner takes the run's lock, or finds it taken and leaves.
Boots(d) ==
  IF d \in live \/ d \notin Made THEN UNCHANGED <<disk, live, blind>>
  ELSE /\ live' = live \cup {d}
       /\ state' = [state EXCEPT ![d] = "open"]
       /\ exit' = exit \ {d}
       /\ age' = [age EXCEPT ![d] = "fresh"]
       /\ work' = work \cup {d}
       /\ blind' = blind \cup (IF "run" \in files[d] THEN {} ELSE {d})
       /\ UNCHANGED files

-----------------------------------------------------------------------------
(* act_run.                                                                *)

Goes(w, from, to) == pc[w] = from /\ pc' = [pc EXCEPT ![w] = to]
Leaves(w) == flock' = IF flock = w THEN "free" ELSE flock

\* Every check of the graph, the binding and the routes comes before the first write;
\* a dry run is answered after the last of them.
Checked(a) == IF a \in {"forbidden", "dry"} THEN "refused" ELSE IF a = "free" THEN "make" ELSE "lock"
Asks(w) ==
  /\ w \in scene.doors /\ pc[w] = "idle"
  /\ \E a \in scene.asks :
       /\ asked' = [asked EXCEPT ![w] = a]
       /\ pc' = [pc EXCEPT ![w] = Checked(a)]
  /\ UNCHANGED <<scene, disk, live, registry, mine, watch, judged, hist>>

TakesLane(w) ==
  /\ Goes(w, "lock", "look")
  /\ flock = "free" /\ flock' = w
  /\ UNCHANGED <<scene, disk, live, lane, twin, mine, asked, watch, judged, hist>>

Dedupes(w) ==
  /\ Goes(w, "look", "deduped")
  /\ Incumbent # {}
  /\ mine' = [mine EXCEPT ![w] = Entry]
  /\ Leaves(w)
  /\ UNCHANGED <<scene, disk, live, lane, twin, asked, watch, judged, hist>>

Claimable(w) ==
  /\ Goes(w, "look", "make")
  /\ Incumbent = {}
  /\ UNCHANGED <<scene, disk, live, registry, mine, asked, watch, judged, hist>>

\* _create_run: an exclusive mkdir takes a name of its own.
Unused == {d \in Runs : state[d] = "none"}
MakesDir(w) ==
  /\ Goes(w, "make", "write") /\ Unused # {}
  /\ mine' = [mine EXCEPT ![w] = Min(Unused)]
  /\ state' = [state EXCEPT ![Min(Unused)] = "new"]
  /\ UNCHANGED <<scene, files, exit, work, age, live, registry, asked, watch, judged, hist>>

NextFile == [none |-> "graph", graph |-> "run", run |-> "protocol"]
LastFile(d) == CASE "run" \in files[d] -> "run" [] "graph" \in files[d] -> "graph" [] OTHER -> "none"

\* graph.json, run.json with its stamps, wake_protocol, in this order.
Writes(w) ==
  LET d == mine[w]  f == NextFile[LastFile(d)] IN
  /\ pc[w] = "write"
  /\ files' = [files EXCEPT ![d] = @ \cup {f}]
  /\ pc' = [pc EXCEPT ![w] = IF f # "protocol" THEN "write" ELSE IF asked[w] = "free" THEN "prove" ELSE "claim"]
  /\ UNCHANGED <<scene, state, exit, work, age, live, registry, mine, asked, watch, judged, hist>>

Claims(w) ==
  /\ Goes(w, "claim", "prove")
  /\ lane' = mine[w]
  /\ named' = named \cup {mine[w]}
  /\ UNCHANGED <<scene, disk, live, twin, flock, mine, asked, watch, judged, ended, blind, crashes, deaths, amends, releases>>

\* _prove_run_dir, before the runner is spawned.
Proved(w) == Mandatory \subseteq files[mine[w]] /\ mine[w] \in Made
Launches(w) ==
  /\ Goes(w, "prove", "arm")
  /\ Proved(w)
  /\ Boots(mine[w])
  /\ Leaves(w)
  /\ UNCHANGED <<scene, lane, twin, mine, asked, watch, judged, named, ended, crashes, deaths, amends, releases>>

RaisesInside(w) ==
  /\ scene.frail /\ pc[w] \in {"write", "claim", "prove"}
  /\ pc' = [pc EXCEPT ![w] = "error"]
  /\ UNCHANGED <<scene, disk, live, registry, mine, asked, watch, judged, hist>>

\* A write or a sync fails and is raised, or the door dies: the kernel drops the flock.
Breaks(w) ==
  /\ \/ /\ scene.frail /\ pc[w] \in {"write", "claim", "prove"}
        /\ pc' = [pc EXCEPT ![w] = "error"]
        /\ UNCHANGED crashes
     \/ /\ crashes > 0 /\ pc[w] \in {"look", "write", "claim", "prove", "arm"}
        /\ pc' = [pc EXCEPT ![w] = "dead"]
        /\ crashes' = crashes - 1
  /\ Leaves(w)
  /\ UNCHANGED <<scene, disk, live, lane, twin, mine, asked, watch, judged, named, ended, blind, deaths, amends, releases>>

\* _arm_from_launch, after the flock: the job is looked for, then created.
Arms(w) ==
  /\ Goes(w, "arm", IF ~ scene.ticks \/ jobs # {} THEN "launched" ELSE "create")
  /\ UNCHANGED <<scene, disk, live, registry, mine, asked, watch, judged, hist>>

CreatesJob(w) ==
  /\ Goes(w, "create", "launched")
  /\ jobs' = jobs \cup {w}
  /\ UNCHANGED <<scene, disk, live, registry, mine, asked, tick, todo, seen, active, judged, hist>>

\* The hint of a deduped call: wait resumes the incumbent, if it finds it.
Waits(w) ==
  LET d == mine[w] IN
  /\ Goes(w, "deduped", "waited")
  /\ IF Status(d, live) \in {"pending", "interrupted"} THEN Boots(d) ELSE UNCHANGED <<disk, live, blind>>
  /\ UNCHANGED <<scene, registry, mine, asked, watch, judged, named, ended, crashes, deaths, amends, releases>>

Call(w) == \/ Asks(w) \/ TakesLane(w) \/ Dedupes(w) \/ Claimable(w) \/ MakesDir(w) \/ Writes(w) \/ Claims(w)
           \/ Launches(w) \/ Arms(w) \/ CreatesJob(w) \/ Waits(w)

-----------------------------------------------------------------------------
(* The runs and their owner.                                               *)

Ends(d) ==
  /\ d \in live
  /\ \E v \in scene.verdicts :
       /\ state' = [state EXCEPT ![d] = v]
       /\ ended' = ended \cup (IF v = "held" THEN {} ELSE {d})
  /\ live' = live \ {d}
  /\ exit' = exit \cup {d}
  /\ UNCHANGED <<scene, files, work, age, registry, calls, watch, judged, named, blind, crashes, deaths, amends, releases>>

Dies(d) ==
  /\ d \in live /\ deaths > 0
  /\ live' = live \ {d}
  /\ deaths' = deaths - 1
  /\ UNCHANGED <<scene, disk, registry, calls, watch, judged, named, ended, blind, crashes, amends, releases>>

Releases(d) ==
  /\ state[d] = "held" /\ releases > 0
  /\ releases' = releases - 1
  /\ Boots(d)
  /\ UNCHANGED <<scene, registry, calls, watch, judged, named, ended, crashes, deaths, amends>>

\* An amend of a run that is over: it is resumed, and asks no registry.
Amends(d) ==
  /\ state[d] \in Terminal /\ amends > 0
  /\ amends' = amends - 1
  /\ Boots(d)
  /\ UNCHANGED <<scene, registry, calls, watch, judged, named, ended, crashes, deaths, releases>>

-----------------------------------------------------------------------------
(* The watchdog tick.                                                      *)

TickBegins ==
  /\ tick = "idle" /\ jobs # {}
  /\ tick' = "census"
  /\ todo' = Made /\ seen' = live /\ active' = FALSE
  /\ UNCHANGED <<scene, disk, live, registry, calls, jobs, judged, hist>>

\* Its status is of now, its liveness of the census.
TickLooks(d) ==
  LET st == Status(d, seen) IN
  /\ tick = "census" /\ d \in todo
  /\ todo' = todo \ {d}
  /\ active' = (active \/ st \notin Terminal \cup {"none"})
  /\ IF st \in {"pending", "interrupted"} THEN Boots(d) ELSE UNCHANGED <<disk, live, blind>>
  /\ UNCHANGED <<scene, registry, calls, jobs, tick, seen, judged, named, ended, crashes, deaths, amends, releases>>

\* The job is kept while anybody is active and deleted otherwise; of two, one is deleted.
TickEnds ==
  /\ tick = "census" /\ todo = {}
  /\ tick' = "idle"
  /\ jobs' = IF active THEN (IF jobs = {} THEN {"tick"} ELSE jobs) ELSE jobs \ {CHOOSE j \in jobs : TRUE}
  /\ UNCHANGED <<scene, disk, live, registry, calls, todo, seen, active, judged, hist>>

Tick == TickBegins \/ (\E d \in Runs : TickLooks(d)) \/ TickEnds

-----------------------------------------------------------------------------
(* retention.py: it judges a directory, and then removes it.               *)

\* Days do not pass while a call writes.
Ages(d) ==
  /\ \A w \in Doors : mine[w] = d => pc[w] \notin {"write", "claim", "prove"}
  /\ scene.prunes /\ d \in Made /\ age[d] # "old"
  /\ age' = [age EXCEPT ![d] = IF @ = "fresh" THEN "quiet" ELSE "old"]
  /\ UNCHANGED <<scene, files, state, exit, work, live, registry, calls, watch, judged, hist>>

Spared(d) == d \in scene.pins \/ age[d] = "fresh"
Fate(d) == CASE age[d] = "old" /\ scene.tracker -> "remove" [] d \in exit -> "trim" [] OTHER -> "none"

Judges(d) ==
  /\ scene.prunes /\ judged = Nothing
  /\ d \in Made /\ "graph" \in files[d] /\ ~ Spared(d) /\ Fate(d) # "none"
  /\ judged' = [run |-> d, does |-> Fate(d)]
  /\ UNCHANGED <<scene, disk, live, registry, calls, watch, hist>>

Removes ==
  LET d == judged.run IN
  /\ judged.does = "remove"
  /\ judged' = Nothing
  /\ state' = [state EXCEPT ![d] = "gone"]
  /\ files' = [files EXCEPT ![d] = {}]
  /\ exit' = exit \ {d} /\ work' = work \ {d} /\ live' = live \ {d}
  /\ UNCHANGED <<scene, age, registry, calls, watch, hist>>

Trims ==
  /\ judged.does = "trim"
  /\ judged' = Nothing
  /\ work' = work \ {judged.run}
  /\ UNCHANGED <<scene, files, state, exit, age, live, registry, calls, watch, hist>>

-----------------------------------------------------------------------------
Init ==
  /\ scene \in Scenes
  /\ LET old == {scene.legacy} \cap Runs IN
     /\ files = [d \in Runs |-> IF d \in old THEN Mandatory ELSE {}]
     /\ state = [d \in Runs |-> IF d \in old THEN "open" ELSE "none"]
     /\ live = old /\ work = old /\ named = old
  /\ exit = {} /\ age = [d \in Runs |-> "fresh"]
  /\ lane = Nobody /\ twin = scene.legacy /\ flock = "free"
  /\ pc = [w \in Doors |-> "idle"] /\ mine = [w \in Doors |-> Nobody] /\ asked = [w \in Doors |-> "none"]
  /\ jobs = {} /\ tick = "idle" /\ todo = {} /\ seen = {} /\ active = FALSE
  /\ judged = Nothing
  /\ ended = {} /\ blind = {}
  /\ crashes = scene.crashes /\ deaths = scene.deaths /\ amends = scene.amends /\ releases = scene.releases

Next ==
  \/ \E w \in Doors : Call(w) \/ Breaks(w)
  \/ \E d \in Runs : Ends(d) \/ Dies(d) \/ Releases(d) \/ Amends(d) \/ Ages(d) \/ Judges(d)
  \/ Tick \/ Removes \/ Trims

\* A door that lives goes on, the scheduler fires while it has a job, a runner comes to a boundary.
Fairness ==
  /\ \A w \in Doors : WF_vars(Call(w))
  /\ WF_vars(Tick)
  /\ \A d \in Runs : WF_vars(Ends(d))

Spec == Init /\ [][Next]_vars /\ Fairness

-----------------------------------------------------------------------------
LanesTypeOK ==
  /\ scene \in Scenes /\ files \in [Runs -> SUBSET Mandatory]
  /\ state \in [Runs -> Terminal \cup {"none", "new", "open", "held", "gone"}]
  /\ {live, exit, work, named, ended, blind, seen, todo} \subseteq SUBSET Runs
  /\ age \in [Runs -> {"fresh", "quiet", "old"}]
  /\ {lane, twin} \subseteq Runs \cup {Nobody} /\ flock \in Doors \cup {"free"}
  /\ mine \in [Doors -> Runs \cup {Nobody}] /\ tick \in {"idle", "census"} /\ active \in BOOLEAN
  /\ judged.run \in Runs \cup {Nobody}

\* Of the runs that the entry of a lane has ever named, at most one is unfinished: calls race
\* for the lane, doors die or fail with it in hand, incumbents die, are held, end and vanish.
\* (An amend revives a run that is over without asking the registry; no call races it here.)
Undone(d) == state[d] \in {"new", "open", "held"}
OneRunPerLane == \A d, e \in named : Undone(d) /\ Undone(e) => d = e

\* Whoever boots a run, the door that made it or a call that was given it, finds its run.json.
BootsInformed == blind = {}

\* A run that was over frees its lane for good.
LaneFreed == [][\A w \in Doors : pc[w] = "look" /\ pc'[w] = "deduped" => ~ (mine'[w] \in ended /\ state[mine'[w]] = "gone")]_vars

\* What a launch has refused to prove is never run.
RefusedStaysDown == \A w \in Doors : pc[w] = "error" => mine[w] \notin live
=============================================================================
