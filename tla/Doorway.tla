------------------------------- MODULE Doorway -------------------------------
(* Revisions, Lanes and Recover side by side: what is done to a run through   *)
(* the door or behind it.  A behaviour is of one of them; the variables of    *)
(* the others stay 0, those of Revisions at the start of a run.               *)
EXTENDS Revisions

CONSTANTS
  Doors, Runs, LaneScenes,                    \* of Lanes
  Items, Watchdogs, Finalizers, CrashScenes   \* of Recover

VARIABLES
  part,
  \* of Lanes
  scene, files, state, live, exit, work, age, lane, twin, flock, lanePc, mine, asked, jobs, tick, todo, census, active,
  judged, named, ended, blind, crashes, lives, amends, releases,
  \* of Recover
  crash, version, item, agg, process, verdict, lock, runner, admission, guard, receipts, wpc, fp, zpc, read, left,
  found, failed, lost, spared

L == INSTANCE Lanes WITH Scenes <- LaneScenes, pc <- lanePc, seen <- census, deaths <- lives
S == INSTANCE Recover WITH
  Scenes <- CrashScenes, scene <- crash, graph <- version, child <- process, exit <- verdict, todo <- left

ASSUME LanesAssumption == L!LanesConstants
ASSUME RecoverAssumption == S!RecoverConstants

-----------------------------------------------------------------------------
NoLanes ==
  /\ scene = 0 /\ files = 0 /\ state = 0 /\ live = 0 /\ exit = 0 /\ work = 0 /\ age = 0 /\ lane = 0 /\ twin = 0
  /\ flock = 0 /\ lanePc = 0 /\ mine = 0 /\ asked = 0 /\ jobs = 0 /\ tick = 0 /\ todo = 0 /\ census = 0
  /\ active = 0 /\ judged = 0 /\ named = 0 /\ ended = 0 /\ blind = 0 /\ crashes = 0 /\ lives = 0 /\ amends = 0
  /\ releases = 0
NoEdits == Init /\ plan = CHOOSE p \in Plans : TRUE
NoScripts ==
  /\ crash = 0 /\ version = 0 /\ item = 0 /\ agg = 0 /\ process = 0 /\ verdict = 0 /\ lock = 0 /\ runner = 0
  /\ admission = 0 /\ guard = 0 /\ receipts = 0 /\ wpc = 0 /\ fp = 0 /\ zpc = 0 /\ read = 0 /\ left = 0 /\ found = 0
  /\ failed = 0 /\ lost = 0 /\ spared = 0

InLanes == part = "lanes"
InRevisions == part = "revisions"
InScripts == part = "scripts"
lanes ==
  <<scene, files, state, live, exit, work, age, lane, twin, flock, lanePc, mine, asked, jobs, tick, todo, census, active,
    judged, named, ended, blind, crashes, lives, amends, releases>>
scripts ==
  <<crash, version, item, agg, process, verdict, lock, runner, admission, guard, receipts, wpc, fp, zpc, read, left,
    found, failed, lost, spared>>
all == <<part, vars, lanes, scripts>>

DoorwayInit ==
  \/ InRevisions /\ Init /\ NoLanes /\ NoScripts
  \/ InLanes /\ L!Init /\ NoEdits /\ NoScripts
  \/ InScripts /\ S!Init /\ NoLanes /\ NoEdits
DoorwayNext ==
  /\ UNCHANGED part
  /\ \/ InRevisions /\ Next /\ UNCHANGED <<lanes, scripts>>
     \/ InLanes /\ L!Next /\ UNCHANGED <<vars, scripts>>
     \/ InScripts /\ S!Next /\ UNCHANGED <<vars, lanes>>
\* The fairness of Lanes and of Revisions.
DoorwayFair ==
  /\ \A w \in Doors : WF_lanes(InLanes /\ L!Call(w))
  /\ WF_lanes(InLanes /\ L!Tick)
  /\ \A d \in Runs : WF_lanes(InLanes /\ L!Ends(d))
  /\ \A n \in Nodes :
       /\ WF_vars(InRevisions /\ Sweeps(n))
       /\ WF_vars(InRevisions /\ Refuses(n)) /\ WF_vars(InRevisions /\ Launches(n))
DoorwaySpec == DoorwayInit /\ [][DoorwayNext]_all /\ DoorwayFair

-----------------------------------------------------------------------------
\* The properties of Lanes: a lane has one run, and whoever boots a run finds its meta.
LanesHold == InLanes => L!LanesTypeOK /\ L!OneRunPerLane /\ L!BootsInformed

\* Calls are answered, runs with a dead runner are revived, and a kill reaches the child for good.
CallsLand ==
  /\ \A w \in Doors : InLanes /\ lanePc[w] = "lock" ~> InLanes /\ lanePc[w] \in {"launched", "waited", "error", "dead"}
  /\ \A d \in Runs : InLanes /\ scene.ticks /\ L!Status(d, live) = "interrupted" ~>
       InLanes /\ L!Status(d, live) # "interrupted"
  /\ \A n \in Nodes : n \in killed ~> [] ~ child[n].alive

\* Those of Recover: one respawn for a crash, closures only of the dead, passes that repair.
RespawnsOnce == InScripts => S!RespawnedOnce
ClosuresHold == [][InScripts => S!ClosesTheDead /\ S!Repaired]_all
=============================================================================
