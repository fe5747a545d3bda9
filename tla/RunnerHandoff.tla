---------------------------- MODULE RunnerHandoff ----------------------------
(***************************************************************************)
(* The hand-off between the runner of a run and the door calls that act on *)
(* the run: release, stop, amend and wait.                                 *)
(*                                                                         *)
(* The run is the smallest one that parks and resumes: a human gate and a  *)
(* work node after it.  A door call leaves a durable fact in the run       *)
(* directory (an answer, stop.request, a new graph with restart.request)   *)
(* and then makes sure that a runner will read it; a runner that parks     *)
(* gives up the lock first and only then looks for such facts (the         *)
(* terminal fence of wf.py main).  Admission itself is module RunnerLock:  *)
(* here a runner is admitted when it takes the lock.                       *)
(***************************************************************************)
EXTENDS Naturals, FiniteSets

CONSTANTS
  Runners,    \* runner processes
  First,      \* the runner that drives the run at the start
  Doors,      \* door calls; each makes one call
  Kind,       \* what each door calls: "release", "stop", "amend" or "wait"
  MaxCalls,   \* bound: how many of the doors are called
  Observers,  \* status readers whose probe child takes the lock for an instant
  NoOne,
  Scenes,     \* what may happen to a run
  Stalls,     \* one pass of a terminal fence may outlast another runner's life
  Respawns    \* respawns of one wait call (the code: 1 + 3)

ASSUME HandoffConstants ==
  /\ First \in Runners
  /\ Runners \cap Observers = {}
  /\ NoOne \notin Runners \cup Observers
  /\ Kind \in [Doors -> {"release", "stop", "amend", "wait"}]
  /\ MaxCalls \in Nat
  /\ Scenes \subseteq [calls : SUBSET Doors, observers : SUBSET Observers, orphans : SUBSET Runners, crashes : Nat]
  /\ Stalls \in BOOLEAN
  /\ Respawns \in Nat \ {0}

VARIABLES
  scene,    \* the doors that may be called, the readers, the runners whose stop finds orphans, so
            \* that their sweeps log an event, and how many SIGKILLs there are
  graph,    \* graph.json: the version of each node's definition
  answer,   \* gates/<gate>.json: the gate version it answers, 0 when none
  gate,     \* the gate's record: the version it committed, 0 when none
  work,     \* the work node's record: the graph it ran under and its status
  restart,  \* restart.request exists
  stop,     \* stop.request exists
  last,     \* the last event of events.jsonl, as far as run_state cares
  exit,     \* runner_exit.json: reason and the graph it is bound to
  lock,     \* the holder of runner.lock
  wfpid,    \* the runner whose pid wf.pid names
  rpc,      \* where each runner is
  mem,      \* the graph each runner has loaded
  verdict,  \* the reason each runner is about to leave with
  watcher,  \* the stop-watcher thread of each runner
  dpc,      \* where each door call is
  reply,    \* what it will report
  tries,    \* respawns left to it
  glock,    \* the holder of graph.lock
  crashes,  \* SIGKILLs left
  asked,    \* history: a stop was requested and no amend has come since
  late      \* history: the release started when a stop had been asked

disk == <<graph, answer, gate, work, restart, stop, last, exit>>
runners == <<lock, wfpid, rpc, mem, verdict, watcher>>
doors == <<dpc, reply, tries, glock>>
history == <<asked, late, scene>>
vars == <<disk, runners, doors, crashes, history>>

Graphs == [gate : Nat, work : Nat]
NoGraph == [gate |-> 0, work |-> 0]
RunnerPC == {"unborn", "boot", "admitted", "booting", "top", "reload", "unlink", "wave",
             "boundary", "decide", "notify", "parked", "recheck", "fence", "watch",
             "again", "probe", "reacquire", "finalize", "leave", "record", "dying", "gone"}
DoorPC == {"idle", "outer", "lock", "marker", "state", "write", "mark", "swap", "event", "restart",
           "resume", "after", "spawn", "reap", "boot", "poll", "end"}
Replies == {"none", "refused", "already", "live", "consumed", "inert",
            "overtaken", "respawned"}
Verdicts == {"none", "held", "blocked", "done", "stopped"}

HandoffTypeOK ==
  /\ scene \in Scenes
  /\ graph \in Graphs
  /\ answer \in Nat /\ gate \in Nat
  /\ work \in [efp : Graphs, status : {"none", "done", "failed"}]
  /\ restart \in BOOLEAN /\ stop \in BOOLEAN
  /\ last \in {"stopped", "other"}
  /\ exit \in [reason : Verdicts \cup {"silent"}, graph : Graphs]
  /\ lock \in Runners \cup Observers \cup {NoOne}
  /\ wfpid \in Runners \cup {NoOne}
  /\ rpc \in [Runners -> RunnerPC]
  /\ mem \in [Runners -> Graphs]
  /\ verdict \in [Runners -> Verdicts]
  /\ watcher \in [Runners -> {"off", "on", "sweep"}]
  /\ dpc \in [Doors -> DoorPC]
  /\ reply \in [Doors -> Replies]
  /\ tries \in [Doors -> Nat]
  /\ glock \in Doors \cup {NoOne}
  /\ crashes \in Nat
  /\ asked \in BOOLEAN
  /\ late \in [Doors -> BOOLEAN]

-----------------------------------------------------------------------------
(* The read model, relative to a graph g: a record counts when its         *)
(* fingerprint is that of the definition (node_rec, gate_answer_valid).    *)

GateDone(g) == gate = g.gate
Answered(g) == answer = g.gate
WorkStatus(g) == IF work.efp = g THEN work.status ELSE "none"

\* A runner process exists.
Alive(p) == rpc[p] \notin {"unborn", "gone"}

\* runner_alive: the lock is held by anybody, a probe included, or wf.pid
\* names a living runner.
RunnerAlive == lock # NoOne \/ (wfpid # NoOne /\ Alive(wfpid))

\* The recorded verdict counts while the graph is the one it was bound to.
ExitVerdict == IF exit.graph = graph THEN exit.reason ELSE "none"

\* run_state(r)["status"]: the events and the records first, then the
\* recorded verdicts that outrank them.
Derived ==
  IF last = "stopped" THEN "stopped"
  ELSE IF GateDone(graph) /\ WorkStatus(graph) # "none" THEN WorkStatus(graph)
  ELSE IF ~ GateDone(graph) /\ ~ Answered(graph) THEN "held"
  ELSE IF RunnerAlive THEN "running" ELSE "interrupted"

Status ==
  IF ExitVerdict = "done" /\ WorkStatus(graph) # "failed" THEN "done"
  ELSE IF ExitVerdict = "stopped" THEN "stopped"
  ELSE IF ExitVerdict = "blocked" THEN "failed"
  ELSE Derived

-----------------------------------------------------------------------------
(* The runner: wf.py main.                                                 *)

Goto(p, to) == rpc' = [rpc EXCEPT ![p] = to]

\* acquire_lock.  A probe child holds the lock for microseconds and the
\* bounded retry outlasts it, so only another runner makes a boot give up.
Admit(p) ==
  /\ rpc[p] = "boot"
  /\ lock = NoOne
  /\ lock' = p
  /\ Goto(p, "admitted")
  /\ UNCHANGED <<disk, wfpid, mem, verdict, watcher, doors, crashes, history>>

Busy(p) ==
  /\ rpc[p] = "boot"
  /\ lock \in Runners
  /\ Goto(p, "gone")
  /\ UNCHANGED <<disk, lock, wfpid, mem, verdict, watcher, doors, crashes, history>>

\* A door-spawned runner that finds the stop already consumed retires.
RetireDuplicate(p) ==
  /\ rpc[p] = "admitted"
  /\ ~ stop /\ Status = "stopped"
  /\ Goto(p, "dying")
  /\ UNCHANGED <<disk, lock, wfpid, mem, verdict, watcher, doors, crashes, history>>

PassDuplicateCheck(p) ==
  /\ rpc[p] = "admitted"
  /\ stop \/ Status # "stopped"
  /\ Goto(p, "booting")
  /\ UNCHANGED <<disk, lock, wfpid, mem, verdict, watcher, doors, crashes, history>>

\* The boot sweep, the fresh verdict, ready_stamp, the threads, run.resumed
\* and the graph.
BootRunner(p) ==
  /\ rpc[p] = "booting"
  /\ exit' = [reason |-> "none", graph |-> NoGraph]
  /\ wfpid' = p
  /\ last' = "other"
  /\ mem' = [mem EXCEPT ![p] = graph]
  /\ watcher' = [watcher EXCEPT ![p] = "on"]
  /\ Goto(p, "top")
  /\ UNCHANGED <<graph, answer, gate, work, restart, stop, lock, verdict, doors, crashes, history>>

\* consume_markers runs at the top of the loop, before a gate is picked and
\* after an owner turn.
Sites == {"top", "boundary", "parked"}

ConsumeRestart(p) ==
  /\ rpc[p] \in Sites
  /\ restart
  /\ restart' = FALSE
  /\ Goto(p, "reload")
  /\ UNCHANGED <<graph, answer, gate, work, stop, last, exit, lock, wfpid, mem, verdict,
                 watcher, doors, crashes, history>>

Reload(p) ==
  /\ rpc[p] = "reload"
  /\ mem' = [mem EXCEPT ![p] = graph]
  /\ last' = "other"
  /\ Goto(p, "top")
  /\ UNCHANGED <<graph, answer, gate, work, restart, stop, exit, lock, wfpid, verdict,
                 watcher, doors, crashes, history>>

\* Mutation: the marker is consumed and the verdict left to the exit record.
UnlinkUnpublished(p) ==
  /\ rpc[p] \in Sites
  /\ ~ restart /\ stop
  /\ stop' = FALSE
  /\ Goto(p, "unlink")
  /\ UNCHANGED <<graph, answer, gate, work, restart, last, exit, lock, wfpid, mem, verdict,
                 watcher, doors, crashes, history>>

\* The verdict is published before the marker is consumed.
PublishStop(p) ==
  /\ rpc[p] \in Sites
  /\ ~ restart /\ stop
  /\ last' = "stopped"
  /\ Goto(p, "unlink")
  /\ UNCHANGED <<graph, answer, gate, work, restart, stop, exit, lock, wfpid, mem, verdict,
                 watcher, doors, crashes, history>>

ConsumeStop(p) ==
  /\ rpc[p] = "unlink"
  /\ stop' = FALSE
  /\ verdict' = [verdict EXCEPT ![p] = "stopped"]
  /\ Goto(p, "leave")
  /\ UNCHANGED <<graph, answer, gate, work, restart, last, exit, lock, wfpid, mem,
                 watcher, doors, crashes, history>>

NoMarker(p) ==
  /\ rpc[p] \in Sites
  /\ ~ restart /\ ~ stop
  /\ Goto(p, CASE rpc[p] = "top" -> "wave"
               [] rpc[p] = "boundary" -> "decide"
               [] OTHER -> IF verdict[p] = "held" THEN "recheck" ELSE "fence")
  /\ UNCHANGED <<disk, lock, wfpid, mem, verdict, watcher, doors, crashes, history>>

WorkReady(p) == GateDone(mem[p]) /\ WorkStatus(mem[p]) = "none"

\* The wave: the agent commits done or failed, or a stop kills it and leaves
\* it pending.
Wave(p) ==
  /\ rpc[p] = "wave"
  /\ WorkReady(p)
  /\ \/ \E s \in {"done", "failed"} : work' = [efp |-> mem[p], status |-> s]
     \/ stop /\ UNCHANGED work
  /\ last' = "other"
  /\ Goto(p, "top")
  /\ UNCHANGED <<graph, answer, gate, restart, stop, exit, lock, wfpid, mem, verdict,
                 watcher, doors, crashes, history>>

NothingReady(p) ==
  /\ rpc[p] = "wave"
  /\ ~ WorkReady(p)
  /\ Goto(p, "boundary")
  /\ UNCHANGED <<disk, lock, wfpid, mem, verdict, watcher, doors, crashes, history>>

\* An answered gate commits.
CommitGate(p) ==
  /\ rpc[p] = "decide"
  /\ ~ GateDone(mem[p]) /\ Answered(mem[p])
  /\ gate' = mem[p].gate
  /\ last' = "other"
  /\ Goto(p, "top")
  /\ UNCHANGED <<graph, answer, work, restart, stop, exit, lock, wfpid, mem, verdict,
                 watcher, doors, crashes, history>>

\* An unanswered gate holds the run, a failed node blocks it: the event is
\* logged and the owner turn starts.
Park(p) ==
  /\ rpc[p] = "decide"
  /\ \/ /\ ~ GateDone(mem[p]) /\ ~ Answered(mem[p])
        /\ verdict' = [verdict EXCEPT ![p] = "held"]
     \/ /\ GateDone(mem[p]) /\ WorkStatus(mem[p]) = "failed"
        /\ verdict' = [verdict EXCEPT ![p] = "blocked"]
  /\ last' = "other"
  /\ Goto(p, "notify")
  /\ UNCHANGED <<graph, answer, gate, work, restart, stop, exit, lock, wfpid, mem,
                 watcher, doors, crashes, history>>

\* The owner turn runs inside notify and may take as long as it likes.
OwnerTurnEnds(p) ==
  /\ rpc[p] = "notify"
  /\ Goto(p, "parked")
  /\ UNCHANGED <<disk, lock, wfpid, mem, verdict, watcher, doors, crashes, history>>

Recheck(p) ==
  /\ rpc[p] = "recheck"
  /\ Goto(p, IF Answered(mem[p]) THEN "top" ELSE "fence")
  /\ UNCHANGED <<disk, lock, wfpid, mem, verdict, watcher, doors, crashes, history>>

\* Every node is done: run.done is logged and the last owner turn starts.
Finalize(p) ==
  /\ rpc[p] = "decide"
  /\ GateDone(mem[p]) /\ WorkStatus(mem[p]) = "done"
  /\ last' = "other"
  /\ verdict' = [verdict EXCEPT ![p] = "done"]
  /\ Goto(p, "finalize")
  /\ UNCHANGED <<graph, answer, gate, work, restart, stop, exit, lock, wfpid, mem,
                 watcher, doors, crashes, history>>

\* The done path has no boundary after its owner turn.
FinalizeEnds(p) ==
  /\ rpc[p] = "finalize"
  /\ Goto(p, "leave")
  /\ UNCHANGED <<disk, lock, wfpid, mem, verdict, watcher, doors, crashes, history>>

LetGoOfLock(p) == lock' = IF lock = p THEN NoOne ELSE lock

\* One pass of a fence and the record after it take some 20 ms.  A runner holds
\* its lock longer than that, so that a fence that was open when the runner was
\* admitted is over when it lets go or records, unless the machine stalls.
InFence(p) ==
  /\ rpc[p] \in {"watch", "again", "probe", "reacquire", "leave", "record"}
  /\ lock # p
FencesOver == Stalls \/ \A p \in Runners : ~ InFence(p)

\* _release_terminal_lock: the own pid stamp goes first, then the flock; both
\* make liveness false, so that they are one step here.
ReleaseTerminalLock(p) ==
  /\ rpc[p] = "fence"
  /\ FencesOver
  /\ LetGoOfLock(p)
  /\ wfpid' = IF wfpid = p THEN NoOne ELSE wfpid
  /\ Goto(p, "watch")
  /\ UNCHANGED <<disk, mem, verdict, watcher, doors, crashes, history>>

\* terminal_action_pending reads the graph on disk, not the loaded one.
ActionPending == restart \/ stop \/ (~ GateDone(graph) /\ Answered(graph))

FenceWatch(p) ==
  /\ rpc[p] \in {"watch", "again"}
  /\ Goto(p, IF ActionPending THEN "reacquire" ELSE "probe")
  /\ UNCHANGED <<disk, lock, wfpid, mem, verdict, watcher, doors, crashes, history>>

Yield(p) ==
  /\ verdict' = [verdict EXCEPT ![p] = "none"]
  /\ Goto(p, "leave")

\* runner_lock_held: whoever holds the flock counts as the successor.
FenceSeesSuccessor(p) ==
  /\ rpc[p] = "probe"
  /\ lock # NoOne
  /\ Yield(p)
  /\ UNCHANGED <<disk, lock, wfpid, mem, watcher, doors, crashes, history>>

FenceAgain(p) ==
  /\ rpc[p] = "probe"
  /\ lock = NoOne
  /\ Goto(p, "again")
  /\ UNCHANGED <<disk, lock, wfpid, mem, verdict, watcher, doors, crashes, history>>

\* The 0.25 s of the fence are over when the loop comes round.
FenceDeadline(p) ==
  /\ rpc[p] = "again" \/ (rpc[p] = "probe" /\ lock = NoOne)
  /\ Goto(p, "leave")
  /\ UNCHANGED <<disk, lock, wfpid, mem, verdict, watcher, doors, crashes, history>>

\* Mutation: a refused LOCK_NB is taken for a grant.
ReacquireAnyway(p) ==
  /\ rpc[p] = "reacquire"
  /\ lock' = p
  /\ wfpid' = p
  /\ last' = "other"
  /\ Goto(p, "top")
  /\ UNCHANGED <<graph, answer, gate, work, restart, stop, exit, mem, verdict,
                 watcher, doors, crashes, history>>

\* _reacquire_terminal_lock is one LOCK_NB attempt; run.resumed is logged.
Reacquire(p) ==
  /\ rpc[p] = "reacquire"
  /\ lock = NoOne
  /\ lock' = p
  /\ wfpid' = p
  /\ last' = "other"
  /\ Goto(p, "top")
  /\ UNCHANGED <<graph, answer, gate, work, restart, stop, exit, mem, verdict,
                 watcher, doors, crashes, history>>

ReacquireRefused(p) ==
  /\ rpc[p] = "reacquire"
  /\ lock # NoOne
  /\ Yield(p)
  /\ UNCHANGED <<disk, lock, wfpid, mem, watcher, doors, crashes, history>>

\* The finally clause sweeps once more; a sweep that kills logs an event.
Leave(p) ==
  /\ rpc[p] = "leave"
  /\ last' \in {last} \cup (IF p \in scene.orphans THEN {"other"} ELSE {})
  /\ Goto(p, "record")
  /\ UNCHANGED <<graph, answer, gate, work, restart, stop, exit, lock, wfpid, mem, verdict,
                 watcher, doors, crashes, history>>

\* Mutation: the verdict is bound to whatever graph is on disk by then.
RecordForDiskGraph(p) ==
  /\ rpc[p] = "record"
  /\ lock = p => FencesOver
  /\ exit' = IF verdict[p] = "none" THEN exit ELSE [reason |-> verdict[p], graph |-> graph]
  /\ Goto(p, "dying")
  /\ UNCHANGED <<graph, answer, gate, work, restart, stop, last, lock, wfpid, mem, verdict,
                 watcher, doors, crashes, history>>

\* write_runner_exit, bound to the graph this process ran.
Record(p) ==
  /\ rpc[p] = "record"
  /\ lock = p => FencesOver
  /\ exit' = IF verdict[p] = "none" THEN exit
             ELSE [reason |-> verdict[p], graph |-> mem[p]]
  /\ Goto(p, "dying")
  /\ UNCHANGED <<graph, answer, gate, work, restart, stop, last, lock, wfpid, mem, verdict,
                 watcher, doors, crashes, history>>

\* The process ends, its threads with it, and the kernel drops its flock.
Ends(p) ==
  /\ LetGoOfLock(p)
  /\ Goto(p, "gone")
  /\ mem' = [mem EXCEPT ![p] = NoGraph]
  /\ verdict' = [verdict EXCEPT ![p] = "none"]
  /\ watcher' = [watcher EXCEPT ![p] = "off"]

Exit(p) ==
  /\ rpc[p] = "dying"
  /\ Ends(p)
  /\ UNCHANGED <<disk, wfpid, doors, crashes, history>>

Crash(p) ==
  /\ Alive(p)
  /\ crashes > 0
  /\ lock = p => FencesOver
  /\ crashes' = crashes - 1
  /\ Ends(p)
  /\ UNCHANGED <<disk, wfpid, doors, history>>

\* _stop_watcher: it sees the marker, kills the wave and sweeps; the sweep's
\* event may come long after, for it waits for the orphans to die.
WatcherSees(p) ==
  /\ watcher[p] = "on" /\ Alive(p)
  /\ stop
  /\ watcher' = [watcher EXCEPT ![p] = IF p \in scene.orphans THEN "sweep" ELSE "off"]
  /\ UNCHANGED <<disk, lock, wfpid, rpc, mem, verdict, doors, crashes, history>>

WatcherSwept(p) ==
  /\ watcher[p] = "sweep" /\ Alive(p)
  /\ watcher' = [watcher EXCEPT ![p] = "off"]
  /\ last' = "other"
  /\ UNCHANGED <<graph, answer, gate, work, restart, stop, exit, lock, wfpid, rpc, mem,
                 verdict, doors, crashes, history>>

-----------------------------------------------------------------------------
(* A status reader's probe child: it takes the flock and dies.             *)

ProbeTakes(o) ==
  /\ lock = NoOne
  /\ lock' = o
  /\ UNCHANGED <<disk, wfpid, rpc, mem, verdict, watcher, doors, crashes, history>>

ProbeDrops(o) ==
  /\ lock = o
  /\ lock' = NoOne
  /\ UNCHANGED <<disk, wfpid, rpc, mem, verdict, watcher, doors, crashes, history>>

-----------------------------------------------------------------------------
(* The door calls of __init__.py.                                          *)

Step(d, to) == dpc' = [dpc EXCEPT ![d] = to]
Answer(d, r) == reply' = [reply EXCEPT ![d] = r] /\ Step(d, "end")

Called(d, k) ==
  /\ dpc[d] = "idle" /\ Kind[d] = k /\ d \in scene.calls
  /\ Cardinality({e \in Doors : dpc[e] # "idle"}) < MaxCalls

\* act_release.
ReleaseStarts(d) ==
  /\ Called(d, "release")
  /\ late' = [late EXCEPT ![d] = asked]
  /\ Step(d, "outer")
  /\ UNCHANGED <<disk, runners, reply, tries, glock, crashes, asked, scene>>

ReleaseOuterCheck(d) ==
  /\ dpc[d] = "outer"
  /\ IF stop \/ Status = "stopped"
       THEN Answer(d, "refused")
       ELSE Step(d, "lock") /\ UNCHANGED reply
  /\ UNCHANGED <<disk, runners, tries, glock, crashes, history>>

ReleaseLocksGraph(d) ==
  /\ dpc[d] = "lock"
  /\ glock = NoOne
  /\ glock' = d
  /\ Step(d, "marker")
  /\ UNCHANGED <<disk, runners, reply, tries, crashes, history>>

\* _release_core: the marker first, then run_state, then the old answer.
ReleaseReadsMarker(d) ==
  /\ dpc[d] = "marker"
  /\ IF stop
       THEN Answer(d, "refused") /\ glock' = NoOne
       ELSE Step(d, "state") /\ UNCHANGED <<reply, glock>>
  /\ UNCHANGED <<disk, runners, tries, crashes, history>>

ReleaseReadsState(d) ==
  /\ dpc[d] = "state"
  /\ IF Status = "stopped" \/ Answered(graph)
       THEN Answer(d, "refused") /\ glock' = NoOne
       ELSE Step(d, "write") /\ UNCHANGED <<reply, glock>>
  /\ UNCHANGED <<disk, runners, tries, crashes, history>>

ReleaseWrites(d) ==
  /\ dpc[d] = "write"
  /\ answer' = graph.gate
  /\ glock' = NoOne
  /\ Step(d, "resume")
  /\ UNCHANGED <<graph, gate, work, restart, stop, last, exit, runners, reply, tries,
                 crashes, history>>

\* act_stop.
StopChecks(d) ==
  /\ Called(d, "stop")
  /\ IF Status \in {"done", "failed", "stopped"}
       THEN Answer(d, "already")
       ELSE Step(d, "mark") /\ UNCHANGED reply
  /\ UNCHANGED <<disk, runners, tries, glock, crashes, history>>

StopMarks(d) ==
  /\ dpc[d] = "mark"
  /\ stop' = TRUE
  /\ asked' = TRUE
  /\ Step(d, "resume")
  /\ UNCHANGED <<graph, answer, gate, work, restart, last, exit, runners, reply, tries,
                 glock, crashes, late, scene>>

\* act_amend: the graph is swapped and graph.amended logged under graph.lock,
\* restart.request is written after it.
AmendStarts(d) ==
  /\ Called(d, "amend")
  /\ Step(d, "swap")
  /\ UNCHANGED <<disk, runners, reply, tries, glock, crashes, history>>

AmendSwaps(d) ==
  /\ dpc[d] = "swap"
  /\ glock = NoOne
  /\ glock' = d
  /\ \E n \in {"gate", "work"} : graph' = [graph EXCEPT ![n] = @ + 1]
  /\ Step(d, "event")
  /\ UNCHANGED <<answer, gate, work, restart, stop, last, exit, runners, reply, tries,
                 crashes, history>>

\* Mutation: the graph lock is kept for the rest of the call.
AmendKeepsLock(d) ==
  /\ dpc[d] = "event"
  /\ last' = "other"
  /\ asked' = FALSE
  /\ late' = [e \in Doors |-> FALSE]
  /\ Step(d, "restart")
  /\ UNCHANGED <<graph, answer, gate, work, restart, stop, exit, runners, reply, tries,
                 glock, crashes, scene>>

AmendLogs(d) ==
  /\ dpc[d] = "event"
  /\ last' = "other"
  /\ glock' = NoOne
  /\ asked' = FALSE
  /\ late' = [e \in Doors |-> FALSE]
  /\ Step(d, "restart")
  /\ UNCHANGED <<graph, answer, gate, work, restart, stop, exit, runners, reply, tries, crashes, scene>>

AmendMarks(d) ==
  /\ dpc[d] = "restart"
  /\ restart' = TRUE
  /\ Step(d, "resume")
  /\ UNCHANGED <<graph, answer, gate, work, stop, last, exit, runners, reply, tries,
                 glock, crashes, history>>

\* _resume_after_action.  A holder is waited for 0.75 s; that outlasts
\* everything a runner does except the steps that take seconds or minutes.
Slow == {"booting", "wave", "notify", "finalize"}

ResumeSeesDeath(d) ==
  /\ dpc[d] = "resume"
  /\ ~ RunnerAlive
  /\ Step(d, "after")
  /\ UNCHANGED <<disk, runners, reply, tries, glock, crashes, history>>

ResumeGivesUp(d) ==
  /\ dpc[d] = "resume"
  /\ lock \in Runners /\ rpc[lock] \in Slow
  /\ Answer(d, "live")
  /\ UNCHANGED <<disk, runners, tries, glock, crashes, history>>

Consumed(d) ==
  CASE Kind[d] = "release" -> GateDone(graph)
    [] Kind[d] = "stop" -> ~ stop
    [] OTHER -> ~ restart

\* Mutation: a held run needs no runner.
HeldIsOver(d) ==
  /\ dpc[d] = "after"
  /\ IF Consumed(d) THEN Answer(d, "consumed")
     ELSE IF Status \in {"done", "held"} THEN Answer(d, "inert")
     ELSE IF Status = "stopped" THEN Answer(d, "overtaken")
     ELSE Step(d, "spawn") /\ UNCHANGED reply
  /\ UNCHANGED <<disk, runners, tries, glock, crashes, history>>

\* _after_death.
AfterDeath(d) ==
  /\ dpc[d] = "after"
  /\ IF Consumed(d) THEN Answer(d, "consumed")
     ELSE IF Status = "done" THEN Answer(d, "inert")
     ELSE IF Status = "stopped" THEN Answer(d, "overtaken")
     ELSE Step(d, "spawn") /\ UNCHANGED reply
  /\ UNCHANGED <<disk, runners, tries, glock, crashes, history>>

\* act_wait: it respawns at once when no runner lives, and while it polls only
\* when one lived at the start.
WaitStarts(d) ==
  /\ Called(d, "wait")
  /\ IF Status \in {"running", "interrupted"} /\ ~ RunnerAlive
       THEN Step(d, "spawn") /\ UNCHANGED tries
       ELSE Step(d, "poll") /\ tries' = [tries EXCEPT ![d] = Respawns]
  /\ UNCHANGED <<disk, runners, reply, glock, crashes, history>>

WaitRespawns(d) ==
  /\ dpc[d] = "poll"
  /\ Status = "interrupted" /\ tries[d] > 0
  /\ tries' = [tries EXCEPT ![d] = @ - 1]
  /\ Step(d, "spawn")
  /\ UNCHANGED <<disk, runners, reply, glock, crashes, history>>

WaitReports(d) ==
  /\ dpc[d] = "poll"
  /\ \/ Status \notin {"running", "interrupted"}
     \/ Status = "interrupted" /\ tries[d] = 0
  /\ Answer(d, "live")
  /\ UNCHANGED <<disk, runners, tries, glock, crashes, history>>

\* _respawn_runner: _reap_silent_death reads whether a dead runner left no
\* record, writes what it found, and the spawn follows.
SilentDeath == wfpid # NoOne /\ ~ RunnerAlive /\ exit.reason = "none"

Respawn(d) ==
  /\ dpc[d] = "spawn"
  /\ Step(d, IF SilentDeath THEN "reap" ELSE "boot")
  /\ UNCHANGED <<disk, runners, reply, tries, glock, crashes, history>>

Reap(d) ==
  /\ dpc[d] = "reap"
  /\ exit' = [reason |-> "silent", graph |-> graph]
  /\ last' = "other"
  /\ Step(d, "boot")
  /\ UNCHANGED <<graph, answer, gate, work, restart, stop, runners, reply, tries, glock,
                 crashes, history>>

Unborn == {p \in Runners : rpc[p] = "unborn"}

\* _spawn_runner.  A wait goes on to poll, the other calls report.
Spawn(d) ==
  /\ dpc[d] = "boot"
  /\ Unborn # {}
  /\ rpc' = [rpc EXCEPT ![CHOOSE p \in Unborn : TRUE] = "boot"]
  /\ IF Kind[d] = "wait" THEN Step(d, "poll") /\ UNCHANGED reply
                         ELSE Answer(d, "respawned")
  /\ UNCHANGED <<disk, lock, wfpid, mem, verdict, watcher, tries, glock, crashes, history>>

-----------------------------------------------------------------------------

\* The first runner is at the top of its loop; nothing has run yet.
Init ==
  /\ graph = [gate |-> 1, work |-> 1]
  /\ answer = 0 /\ gate = 0
  /\ work = [efp |-> NoGraph, status |-> "none"]
  /\ restart = FALSE /\ stop = FALSE
  /\ last = "other"
  /\ exit = [reason |-> "none", graph |-> NoGraph]
  /\ lock = First /\ wfpid = First
  /\ rpc = [p \in Runners |-> IF p = First THEN "top" ELSE "unborn"]
  /\ mem = [p \in Runners |-> IF p = First THEN graph ELSE NoGraph]
  /\ verdict = [p \in Runners |-> "none"]
  /\ watcher = [p \in Runners |-> IF p = First THEN "on" ELSE "off"]
  /\ dpc = [d \in Doors |-> "idle"]
  /\ reply = [d \in Doors |-> "none"]
  /\ tries = [d \in Doors |-> 0]
  /\ glock = NoOne
  /\ scene \in Scenes /\ crashes = scene.crashes
  /\ asked = FALSE
  /\ late = [d \in Doors |-> FALSE]

RunnerStep(p) ==
  \/ Admit(p) \/ Busy(p) \/ RetireDuplicate(p) \/ PassDuplicateCheck(p) \/ BootRunner(p)
  \/ ConsumeRestart(p) \/ Reload(p) \/ PublishStop(p) \/ ConsumeStop(p) \/ NoMarker(p)
  \/ Wave(p) \/ NothingReady(p) \/ CommitGate(p) \/ Park(p) \/ OwnerTurnEnds(p)
  \/ Recheck(p) \/ Finalize(p) \/ FinalizeEnds(p)
  \/ ReleaseTerminalLock(p) \/ FenceWatch(p) \/ FenceSeesSuccessor(p) \/ FenceAgain(p)
  \/ Reacquire(p) \/ ReacquireRefused(p) \/ Leave(p) \/ Record(p) \/ Exit(p)

Calls(d) == ReleaseStarts(d) \/ StopChecks(d) \/ AmendStarts(d) \/ WaitStarts(d)

DoorStep(d) ==
  \/ ReleaseOuterCheck(d) \/ ReleaseLocksGraph(d) \/ ReleaseReadsMarker(d)
  \/ ReleaseReadsState(d) \/ ReleaseWrites(d) \/ StopMarks(d) \/ AmendSwaps(d) \/ AmendLogs(d)
  \/ AmendMarks(d) \/ ResumeSeesDeath(d) \/ ResumeGivesUp(d) \/ AfterDeath(d)
  \/ WaitRespawns(d) \/ WaitReports(d) \/ Respawn(d) \/ Reap(d) \/ Spawn(d)

Next ==
  \/ \E p \in Runners : RunnerStep(p) \/ FenceDeadline(p) \/ Crash(p) \/ WatcherSees(p)
  \/ \E p \in scene.orphans : WatcherSwept(p)
  \/ \E d \in Doors : Calls(d) \/ DoorStep(d)
  \/ \E o \in scene.observers : ProbeTakes(o) \/ ProbeDrops(o)

Spec == Init /\ [][Next]_vars

\* Processes run on; nobody has to call a door.  The fence ends because its
\* deadline is wall-clock time.
FairSpec ==
  /\ Spec
  /\ \A p \in Runners : WF_vars(RunnerStep(p)) /\ WF_vars(FenceDeadline(p))
  /\ \A d \in Doors : WF_vars(DoorStep(d))

-----------------------------------------------------------------------------

\* Whoever drives the run holds its lock, also after a terminal fence has given
\* the lock away and taken it back (wf.py main, the terminal handoff fence).
Driving(p) == rpc[p] \in {"admitted", "booting", "reload", "unlink", "wave", "decide", "notify",
                          "recheck", "finalize"} \cup Sites
DriverHoldsLock == \A p \in Runners : Driving(p) => lock = p

\* A consumed stop leaves its proof: while no amend has come since, a reader
\* that finds the marker gone finds run.stopped as the last event or the verdict
\* in runner_exit.json (wf.py consume_markers publishes before it unlinks; the
\* duplicate-consumer check keeps a racing spawn from covering it up).
StopProofDurable == asked /\ ~ stop => last = "stopped" \/ ExitVerdict = "stopped"

\* An answer given after a stop was asked for is refused (_release_core:
\* "stop->release is serialized"), in whatever state the stop is by then.
Landed(d) == dpc[d] \notin {"idle", "outer", "lock", "marker", "state"} /\ reply[d] # "refused"
LateReleaseRefused == \A d \in Doors : Kind[d] = "release" /\ late[d] => ~ Landed(d)

\* Where nothing crashes and no sweep finds orphans, a stop that was asked for is proven, the
\* answers that come after it are refused, and neither the gate nor the work gets a record any more.
Quiet == scene.crashes = 0 /\ scene.orphans = {}
StopHolds ==
  /\ [](Quiet => StopProofDurable /\ LateReleaseRefused)
  /\ [][Quiet /\ asked /\ ~ stop => UNCHANGED <<gate, work>>]_vars

\* A recorded verdict that counts is true of the graph it counts for, although
\* amends swap the graph under a runner that is about to record it.
VerdictTruthful ==
  /\ ExitVerdict = "done" => GateDone(graph) /\ WorkStatus(graph) = "done"
  /\ ExitVerdict = "blocked" => WorkStatus(graph) = "failed"

\* What the hand-off owes to the durable actions once nobody calls any more: a stop is
\* consumed unless the run finished first, an answer commits unless the run is stopped,
\* and a new graph is loaded unless a stop came first or the run had finished under the
\* old one.
StopTaken == stop => Status = "done"
AnswerTaken == Answered(graph) => GateDone(graph) \/ Status = "stopped"
AmendTaken == restart => Status = "stopped" \/ exit.reason = "done"

\* Every door call returns: each is made once, so that in the end none is under way.
DoorsReturn == <>[](\A d \in Doors : dpc[d] \in {"idle", "end"})

=============================================================================
