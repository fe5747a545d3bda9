-------------------------------- MODULE Custody --------------------------------
(***************************************************************************)
(* The processes of one node of a run: its agents, what they leave behind,  *)
(* and the runners that launch, adopt, watch, judge, kill and reap them.    *)
(*                                                                         *)
(* A process is a number that the kernel gives out again.  A runner knows   *)
(* the processes of an earlier one only from two files: the spawn record,   *)
(* and the registry that a detached descendant may write itself into.       *)
(***************************************************************************)
EXTENDS Naturals, FiniteSets

CONSTANTS
  Pids,
  Defs       \* the nodes, with what their run may meet

\* solo: the node has no items; jobs: its agent may hand its work to a registered job;
\* forks: the ways a descendant comes into being; recycles: other processes take over
\* pids; dirty: an agent may fail; halts, terms: the run is stopped, its runner told to
\* terminate.  spawns bounds the launches, restarts the runners that follow the first.
\* A descendant takes a pid that is new, a stranger one that was given out once.
DefSet == [solo : BOOLEAN, jobs : BOOLEAN, forks : SUBSET {"child", "daemon", "registered"}, recycles : BOOLEAN,
           dirty : BOOLEAN, halts : BOOLEAN, terms : BOOLEAN, spawns : Nat, restarts : Nat]

ASSUME CustodyConstants == IsFiniteSet(Pids) /\ Pids \cap {"nobody", "runner", "init"} = {} /\ Defs \subseteq DefSet

VARIABLES
  def,
  proc,      \* the process table
  born,      \* the start tick of the last process of a pid
  rows,      \* proctree sidecar: who registered, with the tick of that moment
  rec,       \* the spawn record of the node
  job,       \* jobs/<node>.json
  pc,        \* the thread of the node
  mine,      \* the handle in _procs, or nobody
  tokens,    \* the spawns of this runner
  tracked,   \* pids it has seen below them
  rc,        \* the last attempt, with the exit code that was read
  verdict,
  scan,      \* whose child the reaper saw, or idle
  stop, leaving, up, spawns, restarts,
  code, bound, shot \* history: how the last agent ended, the spawns with a bound record, whether the registry hit a stranger

files == <<rows, rec, job>>
kernel == <<proc, born>>
mind == <<mine, tokens, tracked, rc, verdict, scan>>
life == <<stop, leaving, up, restarts>>
hist == <<code, bound, shot>>
vars == <<def, kernel, files, pc, mind, life, spawns, hist>>

Free == [what |-> "none", spawn |-> 0, parent |-> "init", group |-> "nobody", code |-> "live"]
NoRec == [state |-> "none", pid |-> "nobody", spawn |-> 0]
NoJob == [state |-> "none", pid |-> "nobody"]
NoExit == [pid |-> "nobody", code |-> "none"]

Alive(p) == proc[p].what # "none" /\ proc[p].code = "live"
Zombie(p) == proc[p].code # "live"
Living == {p \in Pids : Alive(p)}
Agents == {p \in Living : proc[p].what = "agent"}

-----------------------------------------------------------------------------
(* The kernel.                                                             *)

\* Who dies under this runner stays a zombie until it is reaped; its children go to
\* the subreaper, those of another runner's agent to init.
Under(p) == proc[p].parent = "runner"
Orphaned(t, S) ==
  [p \in Pids |-> IF t[p].parent \in S
     THEN [t[p] EXCEPT !.parent = IF \E q \in S : t[p].parent = q /\ proc[q].parent = "init" THEN "init" ELSE "runner"]
     ELSE t[p]]
Killed(S) == Orphaned([p \in Pids |-> IF p \in S THEN Free ELSE proc[p]], S \cap Living)

Exits(p, how) ==
  /\ p \in Living
  /\ proc' = IF Under(p) THEN Orphaned([proc EXCEPT ![p].code = how], {p}) ELSE Killed({p})

Starts(p, record) ==
  /\ proc[p].what = "none"
  /\ proc' = [proc EXCEPT ![p] = record]
  /\ born' = [born EXCEPT ![p] = @ + 1]

AgentExits(p) ==
  /\ p \in Agents
  /\ \E how \in {"clean"} \cup (IF def.dirty THEN {"dirty"} ELSE {}) :
       /\ Exits(p, how)
       /\ code' = IF p = mine THEN how ELSE code
  /\ UNCHANGED <<def, born, files, pc, mind, life, spawns, bound, shot>>

TailExits(p) ==
  /\ p \in Living \ Agents /\ proc[p].what = "tail"
  /\ Exits(p, "clean")
  /\ UNCHANGED <<def, born, files, pc, mind, life, spawns, hist>>

\* child_parent_watch: an agent whose runner is dead, and that no other runner claims.
Belt(p) ==
  /\ p \in Agents /\ ~ up
  /\ proc' = Killed({p})
  /\ UNCHANGED <<def, born, files, pc, mind, life, spawns, hist>>

\* A descendant in the group of its agent or detached, which may register itself.
Fork(p) ==
  /\ p \in Agents
  /\ \E q \in Pids, how \in def.forks :
       /\ born[q] = 0
       /\ Starts(q, [what |-> "tail", spawn |-> proc[p].spawn, code |-> "live",
                     parent |-> IF how = "child" THEN p ELSE IF Under(p) THEN "runner" ELSE "init",
                     group |-> IF how = "child" THEN p ELSE q])
       /\ rows' = IF how = "registered" THEN rows \cup {[pid |-> q, tick |-> born[q] + 1, spawn |-> proc[p].spawn]} ELSE rows
  /\ UNCHANGED <<def, rec, job, pc, mind, life, spawns, hist>>

\* The kernel gives a pid to somebody else, once.
Recycle(p) ==
  /\ def.recycles /\ born[p] = 1 /\ \A q \in Pids : proc[q].what # "stranger"
  /\ Starts(p, [Free EXCEPT !.what = "stranger", !.group = p])
  /\ UNCHANGED <<def, files, pc, mind, life, spawns, hist>>

\* register_job: only from the spawn that the record names; once per node.
Register(p) ==
  /\ def.jobs /\ p \in Agents /\ job.state = "none"
  /\ rec.state = "running" /\ rec.pid = p /\ rec.spawn = proc[p].spawn
  /\ \E q \in Pids :
       /\ Starts(q, [what |-> "tail", spawn |-> proc[p].spawn, parent |-> p, group |-> q, code |-> "live"])
       /\ job' = [state |-> "registered", pid |-> q]
  /\ UNCHANGED <<def, rows, rec, pc, mind, life, spawns, hist>>

-----------------------------------------------------------------------------
(* What a runner can attribute.                                            *)

\* Mutation: a row is believed while its pid lives.
TrustedByPid(spawnSet) == {r.pid : r \in {x \in rows : x.spawn \in spawnSet /\ x.pid \in Living}}

\* A row counts while its pid still is the process that registered.
Trusted(spawnSet) == {r.pid : r \in {x \in rows : x.spawn \in spawnSet /\ x.pid \in Living /\ x.tick = born[x.pid]}}

Below(S) == {p \in Living : proc[p].parent \in S}
Subtree(S) == LET one == S \cup Below(S) IN one \cup Below(one)
Adoptees == {p \in Living : Under(p) /\ p # mine}

\* The registry, the adoptees that carry a token of the node, and their subtrees.
Registered == Subtree(Trusted(tokens) \cup {p \in Adoptees : proc[p].spawn \in tokens})
Grouped(S) == {p \in Living : proc[p].group \in S}

Attributed(pid) == (tracked \cap Living) \cup Grouped(tracked \cup {pid}) \cup Registered

\* _tree_quiesce: what is attributed is killed and proven dead, but for what is stuck or
\* cannot be read.
Quiesce(known, left) == left \subseteq known /\ proc' = Killed(known \ left)

-----------------------------------------------------------------------------
(* The life of a runner.                                                   *)

Init ==
  /\ def \in Defs
  /\ proc = [p \in Pids |-> Free] /\ born = [p \in Pids |-> 0]
  /\ rows = {} /\ rec = NoRec /\ job = NoJob
  /\ pc = "boot" /\ mine = "nobody" /\ tokens = {} /\ tracked = {} /\ rc = NoExit /\ verdict = "none" /\ scan = "idle"
  /\ stop = FALSE /\ leaving = 0 /\ up = TRUE /\ spawns = 0 /\ restarts = 0
  /\ code = "none" /\ bound = {} /\ shot = FALSE

\* Its children go to init, its zombies with it.
Gone == proc' = [p \in Pids |-> IF Under(p) THEN IF Zombie(p) THEN Free ELSE [proc[p] EXCEPT !.parent = "init"]
                                ELSE proc[p]]
Forgets == /\ mine' = "nobody" /\ tokens' = {} /\ tracked' = {} /\ rc' = NoExit /\ scan' = "idle" /\ leaving' = 0 /\ up' = FALSE
           /\ pc' = IF pc = "over" THEN pc ELSE "boot"

SigKill ==
  /\ up /\ pc # "over" /\ restarts < def.restarts
  /\ Gone /\ Forgets
  /\ UNCHANGED <<def, born, files, verdict, stop, restarts, spawns, hist>>

Boot ==
  /\ ~ up /\ pc = "boot" /\ restarts < def.restarts
  /\ up' = TRUE /\ restarts' = restarts + 1
  /\ UNCHANGED <<def, kernel, files, pc, mind, stop, leaving, spawns, hist>>

JobLives == job.state = "registered" /\ job.pid \in Living
Harvest == job' = IF job.state = "registered" THEN [job EXCEPT !.state = "harvested"] ELSE job

\* The accepted job first, then the registry of the dead runner; who survives the
\* sweep blocks the new one.
BootSweep ==
  /\ up /\ pc = "boot" /\ leaving = 0
  /\ IF JobLives THEN stop /\ UNCHANGED job ELSE Harvest
  /\ LET old == Trusted({r.spawn : r \in rows}) IN
     \E left \in SUBSET old :
       /\ proc' = Killed(old \ left)
       /\ shot' = (shot \/ \E p \in old : proc[p].what = "stranger")
       /\ IF left = {} THEN pc' = "gate" /\ UNCHANGED <<verdict, up>>
          ELSE pc' = "over" /\ verdict' = "blocked" /\ up' = FALSE
  /\ UNCHANGED <<def, born, rows, rec, mine, tokens, tracked, rc, scan, stop, leaving, restarts, spawns, code, bound>>

\* The group of the handle; its own child stays a zombie until the thread has read it.
GroupKill ==
  /\ proc' = IF mine \in Agents /\ Under(mine)
                THEN [Killed(Grouped({mine})) EXCEPT ![mine] = [proc[mine] EXCEPT !.code = "dirty"]]
                ELSE Killed(Grouped({mine}))
  /\ code' = IF mine \in Agents THEN "dirty" ELSE code

\* The watcher sets the event and kills under the lock of the processes.
Stop ==
  /\ def.halts /\ up /\ ~ stop /\ pc \notin {"boot", "over"}
  /\ stop' = TRUE /\ GroupKill
  /\ UNCHANGED <<def, born, files, pc, mind, leaving, up, restarts, spawns, bound, shot>>

\* _sweep_orphans after it: what the groups did not reach.
StopSweep ==
  /\ up /\ stop /\ pc \notin {"boot", "over"} /\ Adoptees # {}
  /\ proc' = Killed(Adoptees)
  /\ UNCHANGED <<def, born, files, pc, mind, life, spawns, hist>>

\* SIGTERM: the registered children first, while the threads work on.
Term ==
  /\ def.terms /\ up /\ leaving = 0 /\ pc \notin {"boot", "over"}
  /\ leaving' = spawns + 1 /\ GroupKill
  /\ UNCHANGED <<def, born, files, pc, mind, stop, up, restarts, spawns, bound, shot>>

\* The orphans of the runner die before it leaves, and its zombies with it.
Swept ==
  LET t == Killed(Adoptees) IN
  proc' = [p \in Pids |-> IF t[p].parent # "runner" THEN t[p]
                          ELSE IF t[p].code # "live" THEN Free ELSE [t[p] EXCEPT !.parent = "init"]]

TermEnds ==
  /\ up /\ leaving > 0
  /\ Swept /\ Forgets
  /\ UNCHANGED <<def, born, files, verdict, stop, restarts, spawns, hist>>

Finish ==
  /\ up /\ pc = "committed" /\ leaving = 0
  /\ Swept /\ pc' = "over" /\ up' = FALSE
  /\ UNCHANGED <<def, born, files, mind, stop, leaving, restarts, spawns, hist>>

\* Whose children are whose is read before the zombies are listed.
ReaperScans ==
  /\ up /\ ~ stop /\ scan = "idle" /\ scan' = mine
  /\ UNCHANGED <<def, kernel, files, pc, mine, tokens, tracked, rc, verdict, life, spawns, hist>>

Orphans(owned) == {p \in Pids : Zombie(p) /\ Under(p) /\ p \notin owned}
Drain(owned) ==
  /\ up /\ scan # "idle" /\ scan' = "idle"
  /\ proc' = [p \in Pids |-> IF p \in Orphans(owned) THEN Free ELSE proc[p]]
  /\ UNCHANGED <<def, born, files, pc, mine, tokens, tracked, rc, verdict, life, spawns, hist>>

\* Under the locks of the launches it is read again.
Reap == Drain({scan, mine})

-----------------------------------------------------------------------------
(* The thread of the node.                                                 *)

Thread(at) == up /\ pc = at
Calm == UNCHANGED <<def, life, spawns, shot>>
Settle(v, at) == verdict' = v /\ pc' = at

\* A job that was accepted answers for the node, without a look at the processes.
JobAnswers ==
  /\ Thread("gate") /\ def.solo /\ job.state # "none"
  /\ IF JobLives THEN stop /\ Settle("cancelled", "committed") /\ UNCHANGED job
     ELSE Harvest /\ \E v \in {"done", "failed"} : Settle(v, "committed")
  /\ UNCHANGED <<kernel, rows, rec, mine, tokens, tracked, rc, scan, code, bound>> /\ Calm

\* The identity of the process is its spawn, which its argv carries.
Adoptable == ~ def.solo /\ rec.state = "running" /\ rec.pid \in Agents /\ proc[rec.pid].spawn = rec.spawn

Gate ==
  /\ Thread("gate") /\ ~ (def.solo /\ job.state # "none")
  /\ IF stop THEN Settle("cancelled", "committed") /\ UNCHANGED mine
     ELSE IF Adoptable THEN pc' = "adopted" /\ mine' = rec.pid /\ UNCHANGED verdict
     ELSE pc' = "guard" /\ UNCHANGED <<mine, verdict>>
  /\ UNCHANGED <<kernel, files, tokens, tracked, rc, scan, code, bound>> /\ Calm

\* Mutation: an adopted child has no wall.
AdoptedAwaited ==
  /\ Thread("adopted") /\ mine \notin Living
  /\ rec' = [rec EXCEPT !.state = "adopted"] /\ mine' = "nobody" /\ rc' = [pid |-> mine, code |-> "unknown"]
  /\ \E v \in {"done", "failed"} : Settle(IF stop THEN "cancelled" ELSE v, "final")
  /\ UNCHANGED <<kernel, rows, job, tokens, tracked, scan, code, bound>> /\ Calm

\* It ends by itself, or by a stop or its old wall; the record is retired first.
AdoptedEnds ==
  /\ Thread("adopted")
  /\ rec' = [rec EXCEPT !.state = "adopted"] /\ mine' = "nobody" /\ rc' = [pid |-> mine, code |-> "unknown"]
  /\ \/ mine \notin Living /\ proc' = proc /\ \E v \in {"done", "failed"} : Settle(IF stop THEN "cancelled" ELSE v, "final")
     \/ mine \in Living /\ proc' = Killed(Grouped({mine})) /\ Settle(IF stop THEN "cancelled" ELSE "failed", "final")
  /\ UNCHANGED <<born, rows, job, tokens, tracked, scan, code, bound>> /\ Calm

\* What is left of earlier attempts dies first, then a marker without a pid is
\* written, then the process exists and is registered: one section of the lock.
Spawned(p, left) ==
  LET t == Killed(Registered \ left) IN
  /\ proc' = [t EXCEPT ![p] = [what |-> "agent", spawn |-> spawns + 1, parent |-> "runner", group |-> p, code |-> "live"]]
  /\ born' = [born EXCEPT ![p] = @ + 1]
  /\ rec' = [state |-> "running", pid |-> "nobody", spawn |-> spawns + 1]
  /\ mine' = p /\ tokens' = tokens \cup {spawns + 1} /\ spawns' = spawns + 1
  /\ code' = "none" /\ pc' = "popened" /\ UNCHANGED verdict

\* Mutation: the event is read before the section.
LaunchUnlocked ==
  /\ Thread("guard") /\ \E p \in {q \in Pids : proc[q].what = "none"} : Spawned(p, {})
  /\ UNCHANGED <<def, rows, job, tracked, rc, scan, life, bound, shot>>

Launch ==
  /\ Thread("guard")
  /\ \/ stop /\ Settle("cancelled", "committed") /\ UNCHANGED <<kernel, rec, mine, tokens, spawns, code>>
     \/ /\ ~ stop
        /\ \E p \in {q \in Pids : proc[q].what = "none"} : Spawned(p, {})
     \/ /\ ~ stop
        /\ \E left \in SUBSET Registered \ {{}} : Quiesce(Registered, left)
        /\ Settle("failed", "committed") /\ UNCHANGED <<born, rec, mine, tokens, spawns, code>>
  /\ UNCHANGED <<def, rows, job, tracked, rc, scan, life, bound, shot>>

\* The record gets the pid; a disk that refuses it is only logged.
Bind ==
  /\ Thread("popened") /\ pc' = "watch"
  /\ \/ rec' = [rec EXCEPT !.pid = mine] /\ bound' = bound \cup {rec.spawn}
     \/ UNCHANGED <<rec, bound>>
  /\ UNCHANGED <<kernel, rows, job, mind, code>> /\ Calm

Watch ==
  /\ up /\ pc \in {"watch", "adopted"} /\ ~ Below({mine}) \subseteq tracked
  /\ tracked' = tracked \cup Below({mine})
  /\ UNCHANGED <<def, kernel, files, pc, mine, tokens, rc, verdict, scan, life, spawns, hist>>

Own == proc[mine].what = "agent" /\ proc[mine].spawn \in tokens

\* The exit code of a child that somebody else has reaped is 0.
Poll ==
  /\ Thread("watch") /\ ~ (Own /\ mine \in Living)
  /\ rc' = [pid |-> mine, code |-> IF Own THEN proc[mine].code ELSE "clean"]
  /\ proc' = IF Own THEN [proc EXCEPT ![mine] = Free] ELSE proc
  /\ mine' = "nobody" /\ pc' = "judge"
  /\ UNCHANGED <<born, files, tokens, tracked, verdict, scan, code, bound>> /\ Calm

\* The wall, or a silent log.
Timeout ==
  /\ Thread("watch") /\ mine \in Agents
  /\ proc' = Killed(Grouped({mine}))
  /\ rc' = [pid |-> mine, code |-> "dirty"] /\ code' = "dirty"
  /\ mine' = "nobody" /\ pc' = "judge"
  /\ UNCHANGED <<born, files, tokens, tracked, verdict, scan, bound>> /\ Calm

\* Exit 0 is believed over an empty tree; a tree that had to be killed leaves a
\* partial answer, one that cannot be killed none.
JudgeClean ==
  /\ Thread("judge") /\ rc.code = "clean"
  /\ IF JobLives THEN stop /\ UNCHANGED job ELSE Harvest
  /\ tracked' = tracked \cup Attributed(rc.pid)
  /\ \E left \in SUBSET Attributed(rc.pid) :
       /\ Quiesce(Attributed(rc.pid), left)
       /\ Settle(IF Attributed(rc.pid) = {} THEN "done" ELSE IF left = {} THEN "partial" ELSE "failed", "final")
  /\ UNCHANGED <<born, rows, rec, mine, tokens, rc, scan, code, bound>> /\ Calm

\* A ladder isolates what it re-drives; a tree that is not proven dead ends it.
JudgeDirty ==
  /\ Thread("judge") /\ rc.code = "dirty"
  /\ \/ /\ spawns < def.spawns /\ ~ stop
        /\ \E left \in SUBSET Attributed(rc.pid) :
             /\ Quiesce(Attributed(rc.pid), left)
             /\ IF left = {} THEN pc' = "guard" /\ UNCHANGED verdict ELSE Settle("failed", "final")
     \/ /\ spawns >= def.spawns \/ stop
        /\ proc' = proc /\ Settle(IF stop THEN "cancelled" ELSE "failed", "final")
  /\ UNCHANGED <<born, files, mine, tokens, tracked, rc, scan, code, bound>> /\ Calm

\* Mutation: a clean exit was judged over its tree already.
CommitAtOnce ==
  /\ Thread("final")
  /\ proc' = proc /\ Settle(verdict, "committed")
  /\ UNCHANGED <<born, files, mine, tokens, tracked, rc, scan, code, bound>> /\ Calm

\* _final_quiesce: no node commits over a tree at work.
Commit ==
  /\ Thread("final")
  /\ IF verdict = "cancelled" THEN proc' = proc /\ Settle(verdict, "committed")
     ELSE \E left \in SUBSET Attributed(rc.pid) :
       /\ Quiesce(Attributed(rc.pid), left)
       /\ Settle(IF left # {} THEN "failed" ELSE IF Attributed(rc.pid) # {} /\ verdict = "done" THEN "partial" ELSE verdict,
                 "committed")
  /\ UNCHANGED <<born, files, mine, tokens, tracked, rc, scan, code, bound>> /\ Calm

Work == \/ JobAnswers \/ Gate \/ AdoptedEnds \/ Launch \/ Bind \/ Poll \/ Timeout
        \/ JudgeClean \/ JudgeDirty \/ Commit

Rule == BootSweep \/ StopSweep \/ TermEnds \/ Finish

Next == \/ Work \/ Rule \/ Boot \/ SigKill \/ Stop \/ Term \/ ReaperScans \/ Reap \/ Watch
        \/ \E p \in Pids : AgentExits(p) \/ TailExits(p) \/ Belt(p) \/ Fork(p) \/ Recycle(p) \/ Register(p)

\* The threads run on, a door respawns the runner, and processes end.
Fairness ==
  /\ WF_vars(Work) /\ WF_vars(Rule) /\ WF_vars(Boot)
  /\ \A p \in Pids : WF_vars(AgentExits(p)) /\ WF_vars(TailExits(p)) /\ WF_vars(Belt(p))

Spec == Init /\ [][Next]_vars /\ Fairness

-----------------------------------------------------------------------------

\* Two agents of an item are at work together only if the older one was never bound
\* to its record: over deaths of the runner between any two steps.
OneGeneration ==
  ~ def.solo => \A p, q \in Agents : proc[p].spawn < proc[q].spawn => proc[p].spawn \notin bound

\* An answer is committed when nothing that the runner launched is alive, whatever
\* it forked, detached or left to the registry, and nothing of an adopted agent that
\* shared its group or that the runner has seen.
CommitsAlone ==
  pc = "committed" /\ verdict \in {"done", "partial"} =>
    \A p \in Living :
      /\ proc[p].spawn \notin tokens
      /\ rec.state = "adopted" /\ proc[p].spawn = rec.spawn => p \notin tracked /\ proc[p].group # rc.pid

\* The registry never leads to a process that took over a pid.
RegistrySparesStrangers == ~ shot

\* The reaper never takes the exit status that an owner waits for.
NoFalseGreen == rc.code = "clean" => code = "clean"

\* No agent of the runner is at work: so it is from a stop on, whatever is launched.
NoneAtWork == \A p \in Agents : proc[p].spawn \notin tokens

\* A runner that terminates leaves no agent that was at work when it was told to.
TermLeavesNone ==
  [][leaving > 0 /\ up /\ ~ up' => \A p \in Agents' : proc'[p].spawn \in tokens => proc'[p].spawn >= leaving]_vars

\* An item has one generation at work and an answer commits alone; pids lead to their owners.
AgentsAlone == OneGeneration /\ CommitsAlone
PidsAreTheirs == RegistrySparesStrangers /\ NoFalseGreen

\* A stop is final, a termination leaves no agent of before.
RunnersLeave == [](stop /\ up => NoneAtWork) /\ TermLeavesNone

\* The node settles, or the last runner is gone.
CustodySettles == <>[](pc = "over" \/ ~ up)

\* wf.py:6263: attempt N+1 must never share a workdir with live descendants of any
\* prior generation.
NoSharedWorkdir == \A p, q \in Agents : p = q

\* wf.py:5083: a terminating runner never orphans its agent child.
TermOrphansNone ==
  [][leaving > 0 /\ up /\ ~ up' => \A p \in Agents' : proc'[p].spawn \notin tokens]_vars
=============================================================================
