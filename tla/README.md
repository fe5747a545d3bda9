# A TLA+ verification of hermes-workflows

This directory models the parts of hermes-workflows whose correctness depends on
the order in which processes, threads, writes and crashes happen to step: the
runner (`wf.py`), its shared read model (`wfcommon.py`), the doors of the plugin
(`__init__.py`), and the hooks, jobs and scripts that work beside them. TLC
checks the models on small instances; TLAPS proves the core results for every
instance.

Paths below are relative to `src/`.

## 1. Inventory

### 1.1 The system in one paragraph

A *run* is a directory: `graph.json`, one record per node under `nodes/`, answers
under `gates/`, an append-only `events.jsonl`, markers (`restart.request`,
`stop.request`), `runner_exit.json`, and the lock files. A *runner* (`python wf.py
run <id>`) owns the directory while it holds an exclusive flock on `runner.lock`;
it walks the graph in rounds, spawns agents, parks at gates and leaves. *Doors*
(`__init__.py`, called by agents, the owner, the dashboard) never run the graph:
they leave a durable fact in the directory and make sure that a runner reads it,
if need be by spawning one. Everything shared between runs of one host (agent
seats, lane registry, wake ledger, card ledger) lives in files beside the run
directories. *Scripts* (`scripts/lane_recover.py`, `scripts/retention.py`) and the
*watchdog* job work on those directories without being asked by a run.

### 1.2 Components

| Component | State | Operations | What is hard | What makes it correct | Module |
|---|---|---|---|---|---|
| Runner admission, lease, heal (`acquire_lock`, `_lease_heartbeat`; `heal_wedged_runner_lock`) | `runner.lock` and inodes, flocks, barrier, lease | admit, beat, leave, heal | rename under an open descriptor, stale proofs, deaths with a barrier | one runner; nobody admitted is displaced; admission and heal decide | RunnerLock |
| Runner lifecycle (`main`, `consume_markers`, fence, `_reacquire_terminal_lock`) | markers, last event, `runner_exit.json`, `wf.pid` | boot, consume, park, fence, record | parks race spawns, verdicts race amends | a driver holds the lock; a verdict is true of its graph | RunnerHandoff |
| Doors release, stop, amend, wait (`_release_core`, `act_stop`, `act_amend`, `act_wait`, `_resume_after_action`) | `graph.lock`, the durable facts | the four calls | check and act in two steps, liveness probes | no action lost, a stop stays stopped, calls return | RunnerHandoff |
| Door run, lane registry, watchdog tick, retention (`act_run`, `_lane_state`; `runner_watchdog.py`, `cron_bridge.py`, `scripts/retention.py`) | lane entry in two roots, lane lock, run directory, cron job | launch, dedupe, prove, arm, revive, trim, remove | files written one by one, jobs that look while doors write | one unfinished run for a lane; dead runners are followed | Lanes |
| Amend, steer, inbox, kill (`_revision_cas`, `act_amend`, `act_steer`, `drain_inbox`, lane kill, budget cue) | `graph.json`, `amends.jsonl`, cap, inbox, kill markers | swap, append, drain, kill | token read early, calls die half-way, nodes in mid launch | no edit lost, no line lost, a kill lets at most the agent of one launch come | Revisions |
| Wave scheduler (`main.loop`, `prune_states`, `dead_set`, `release_law`) | node records, `abort.json` | read, prune, fail, splice, commit, spawn, gate, catch, end | five passes over one stale view, crashes between records | nothing runs on missing input; chains in order; records stick; every run ends | Schedule |
| Agent seats (`_seat_*`, `_quiet_park_*`) | tickets, markers, `.cap`, two locks | seek, admit, bind, park, release | dead owners, misread liveness, lost wakeups | cap and ceiling hold; first come first served | SeatPool |
| Fan-out (`start_node`, `one`, `_cancel_stragglers`, consolidation batches, aggregate) | wave in memory, item records, batches, partner | launch, adopt, tally, cancel, batch, flush, aggregate | tally before record, a disk that refuses, the last answer against a drain | a green node is backed by records; no answer is left out of a batch | FanOut, SeatPool |
| Retry ladders (`_honor_retry_window`, `_ratelimit_park`, `_transient_retry`, `_fallback_ladder`, `_bounded_retry`, `_isolate_prior`) | retry window on disk, budget in memory | park, retry, substitute, re-drive, harvest | four ladders, one budget, restarts in a backoff | every launch is paid for; answers survive later failures | RetryLadder, LadderPromise |
| Classification of deaths (`run_child`, `_adopt_child`, `outcome.py`) | none | judge | two paths that must agree | decisions stay decided; valid answers are kept | Verdicts |
| Process custody (`run_child`, `_boot_sweep`, `_adopt_child`, `_tree_quiesce`, reaper, registered jobs) | process table, spawn records, registry | spawn, adopt, sweep, kill, reap | adoption against death, reused pids, descendants that detach | one generation at work; strangers spared; a stop is final | Custody |
| Owner wakes and waiting gates (`notify`, `park_gate`, hold loop, `park_watch.py`) | wake ledger, debounce marker, hold mirrors | notify, coalesce, mirror, refire, hold, probe, time out | post then record, kills between, clocks over restarts | one decision, one id; strikes are just; kept gates end | Notices |
| Ends of a run (`_finish_exit`, `_run_on_exit`, `close_budget_ledger`) | `runner_exit.json`, `on_exit.json`, receipt, ledger | record, claim, launch, adopt, commit, close | deaths between five writes, amends in the middle | one postmortem; the ledger forgets nobody | Exits |
| Commit gates (`_lane_gate`, `_effect_gate`, `_bead_close_gate`) | none | look, demote | the world goes on between two looks | what is green was seen to be so | Gates |
| Crash recovery (`scripts/lane_recover.py`) | admission lock, guard, receipts | revive, finalize | races with the door, with each other, and with children that live | one respawn for a crash; closed claims are dead | Recover |
| Cards (`card_ledger.py`, `card_enforcement.py`) | ledger of owed cards, claims in memory | owe, propose, deny, confirm, drop | workers the core abandoned | a card is shipped once and never lost | Cards |
| Read model (`run_state`), fingerprints (`efp`) | none | status, validity | several files, one verdict | agrees with the runner | inside the modules above |
| Gate index, approval bridge, orphan watch, telemetry, validation, views, CI scripts | caches or nothing | advisory or pure | | | not modelled |

`PROJECT.json` lists each with its status and the reason.

## 2. The modules

### 2.1 How they divide the system

```
   Recover      RunnerLock            who is a runner at all; scripts that stand in for one
       \            |  (a RunnerHandoff runner is admitted in one step)
  Lanes - RunnerHandoff - Revisions   facts that calls leave, and the runner that takes them up
                |   \
                |    Exits, Notices   how the runner ends, waits, and tells its owner
             Schedule                 rounds over the records (the handoff's "wave")
              /     \
        FanOut      Gates             one node: its items, its batches, the edge of its commit
       /      \
  SeatPool   RetryLadder - Verdicts   an item: its seat, its attempts, what a death means
                    |
                 Custody              the processes of an attempt
  Cards                               the owner's chat
```

A module abstracts the one below it to a step and the one above it to an
environment; section 6 says what is lost in between. Three modules compose
others. `MCLadder` composes RetryLadder with its abstract specification
LadderPromise (`INSTANCE ... WITH` a refinement mapping). `Doorway` extends
Revisions and puts Lanes and Recover beside it, `Endings` puts Exits, Gates,
Notices and Cards side by side: a behaviour picks one part and leaves the variables
of the others at rest, so that parts that share no state share a run. The two have
the constants of their parts, so that their theorems are of any instance; `MCDoors`
and `MCEndings` give them values. `MCRunnerLock`, `MCSeatPool` and
`MCLadder` run two instances of one module in the same way
(`First`, `Crowd`, `Race`); the properties of `Crowd` and `Race` are part
of `CrowdServed` and `ItemsSettle`.

### 2.2 The core

**RunnerLock.** The inode the path names, every process's open descriptor and the
flocks on inodes, the barrier file and its flock, the lease. One action per
system call of `acquire_lock` and `heal_wedged_runner_lock`. Runners and healers
die anywhere. The regime the safety properties need is spelt out in `Regime`: the
barrier file exists, no lease carries a pid that means another process here, no
holder stops its heartbeat while alive. Section 5 says what happens outside it.

**RunnerHandoff.** The facts in the run directory, the lock, and one program
counter per runner, per stop watcher and per door call. The graph is the smallest
that parks and resumes: a human gate and a work node; a definition is a version
and a record counts when its version is the graph's. Doors are taken apart where
they can be overtaken: `graph.lock`, marker check, status read, each file,
`_resume_after_action` with its liveness test, spawn, reap and poll. A behaviour
has a `scene`: the doors that may be called, the observers, the runners whose
sweep finds orphans, and how many SIGKILLs fall. Runners
consume markers in the code's order, check for a duplicate consumer, fence, look
for a successor, reacquire, and record the verdict bound to a graph.

**Schedule.** The records, the answers on disk, the abort flag, and the round: the
view of the records, the dead set, the pass and the node it is at, the wave. One
action per pass and node, in the order of `main.loop`. Every write of a record is
a step of its own, so that `Crash` falls between any two and the next round starts
from the records alone.

**SeatPool.** Tickets and queue markers on disk, `.cap`, the pool flock and each
runner's admit lock, every seeker's place in `_seat_acquire`, agents, and the
fan-out's tally. Counting suspects the dead and confirms in a second look before
it drops one; a nested run counts the seat of its ancestor as lent.

### 2.3 One node

**FanOut.** `start_node` for a node with items: the queue of workers, a launch or
an adoption per item, answers that are judged, tallied, committed to disk (which
may refuse) and told to the consolidating partner in batches, the quorum with and
without a drain, the final records. A definition (`Defs`) says what a node has
and what its run may meet; a crash leaves the records and the children, and the
next runner starts a fresh wave over them.

**RetryLadder** and **Verdicts.** The thread of an item from its first launch to
its record: the window gate, the agent, the four ladders in the code's order, the
sleeps, the isolation of the earlier tree, the commit. `Ends` are deaths, given
as facts; Verdicts turns facts into a verdict by the two ordered lists of rules
that `run_child` and `_adopt_child` walk. **LadderPromise** is what the ladders
promise: one free launch from every runner, every other one paid from the budget,
transient grants on disk before they are used.

**Custody.** A process table with reused numbers and start ticks, the two files
that outlive a runner (spawn record, registry of descendants), registered jobs,
and the thread of the node: gate, guard, launch under the lock, bind, watch,
judge, quiesce, commit. Stop sweeps, termination sweeps and the reaper are
threads of their own.

**Gates.** The commit of one node: `_lane_gate`, `_effect_gate`,
`_bead_close_gate` and its fan-out half, each of which looks at a world that may
move (`Drifts`) between two looks.

### 2.4 Around a run

**Lanes.** Calls of `run` under one lane key, step by step: the arguments, the lane
lock, the incumbent in two roots, the directory made and filled file by file, the
proof that it is durable, the claim, the launch, the arming of the watchdog. Beside
them the tick (census, revivals, its own removal) and the retention script
(judge, remove, trim). Runners begin, hold, end and die.

**Revisions.** Calls of `amend` (token, draft, freeze of routes, lock, row, swap,
run.json), `steer`, `kill` and the budget cue, over two nodes one of which
depends on the other, with a runner that drains, launches, retries, dies and is
followed. A launch is three steps, as in `run_child`: the inbox is baked before the
seat is asked for (`wf.py:7038`), the last looks at the kill marker and at the graph
are made under `_procs_lock` (`wf.py:7268` to `7337`), and the agent starts behind
them (`wf.py:7386`). `act_kill` takes no lock, so a kill falls between any two of
them. The looks after the first, for cancellations, see the marker too (`_cancelled`,
`wf.py:7131`), which is why the last one is that of `wf.py:7325`.

**Recover.** Watchdogs in `recover_crashed_runner` (admission lock, guard, spawn,
confirmation, receipt) and finalizers in `finalize_run` (runner flock, each claim,
the aggregate, the blame, the verdict), with a door that boots runners, kills,
amends, and children that live or die.

**Exits.** Runners in `_finish_exit`: verdict, claim of the handler, events,
launch or adoption, its record, receipt, ledger; successors that boot, are
blocked, or find the run duplicate.

**Notices.** `notify` thread by thread (coalesce, mirror, judge, post, record) over
an owner's endpoint that answers, is late, or fails, and the four ways a gate
waits, with the clocks and strikes on disk.

**Cards.** One session, three turns: what is owed, which text claims it, what the
core selects, and workers that go on after the core gave up on them.

## 3. What is checked

| Run | Instance | What it shows |
|---|---|---|
| `lock_both` | 2 admissions (one in another pid namespace), 2 heals, a stranded flock; once with the barrier file in place, once before any heal and with missed heartbeats | one runner, never displaced, a heal spares the living; every admission and heal decides, no admission is stranded twice |
| `handoff_both` | 3 runners; every pair out of a release, a stop and an amend where nothing crashes; every pair out of two releases, a stop, an amend and a wait, beside a probe that takes the lock, a SIGKILL, sweeps | drivers hold the lock; recorded verdicts are true of their graph; a stop that was consumed stays proven and is not undone |
| `handoff_live` | the same doors under fairness, with a SIGKILL | every call returns; a stop, an answer and an amend take effect unless the kill took the runner |
| `seats_both` | a fan-out of two with a quorum and a drain and a nested run on one seat, a crash, a misread, lapses, expiry; a fan-out under a run ceiling beside a second run, a crash, unbounded waits, fairness | caps hold, nobody who left gates others, living holders keep seats, order holds, no spawn past the quorum, everybody is served |
| `schedule_rounds` | 544 graphs of three nodes and eight picked ones, one crash, fairness | section 3.1 |
| `ladder` | one item that meets nine deaths under a stop, two that race for a quorum, 2 runners | RetryLadder implements LadderPromise, launches are paid for; nobody starts over a living tree; answers reach their records; every item settles; Verdicts is lawful on every death |
| `fanout_wave` | seven fan-outs of two or three items | green nodes are backed by records, quorums are real, nobody is left out of a batch, the node settles |
| `custody_wave` | nine nodes, three pids | one generation at work and alone at its commit; registry and wait lead to their own; stops and terminations are final; the node settles |
| `doors` | Lanes (seven scenes of three calls and three runs), Revisions (seven plans), Recover (four scenes) | one unfinished run for a lane, boots find their meta, calls are answered, dead runners followed; edits and lines kept, routes those of now, kills hold; one respawn for a crash, closures only of the dead, passes that repair |
| `endings` | Exits (four endings, two of them under two bounds), Gates (five deeds), Notices (eleven scenes), Cards (two runs, three turns) | one postmortem, the ledger keeps, handlers close; no false green; owners told once under one id; strikes just, clocks go on, kept gates end; cards shipped once, owed ones covered |
| `schedule_gate`, `lane_freed` | | findings, section 5 |

### 3.1 What some properties say

`InputsCommitted`: what committed did so on inputs that are committed, with a
harvest counting only for who asked for it or from who declared it whole.
`OrderHolds`: an agent joins a wave with its whole ordering chain settled or dead;
a run that is given up as blocked has no releasable node and no tolerated failure
left; the fixed order of passes leaves nothing behind. `RecordsStick`: no verdict
is lost, rerun or rewritten, but a caught failure.

`QuorumBacked` joins two facts that the code keeps apart: the tally in memory that
cancels siblings, and the records on disk that a done node claims. `AgentsAlone`:
an item never has agents of two generations at work, and its answer commits only
when nothing it started is left. `OwnersTold`: a hold that a run exits on was told
since the last amend, unless its gate is silent by its tier, no decision travels under two ids, and no debounced burst
is left behind a finished run. `PostmortemIsOne` (in `EndingsKept`): one launch of
the handler over any number of runners, and no ordinary work while it is owed.
`ProofsAreReal`: what commits was seen at this very edge, and nothing else was
read. `CardsAreCovered` (in `CardsShip`): an owed card is in the ledger, and a
claim hides it only for a text that may still be selected. `KillsStand` does not say
that a killed node starts nothing, which is not so: it says that a kill which falls
before the last look of a launch lets no agent come, of this runner or a later one, and
one that falls behind it only the agent of that launch. `CallsLand` adds that such an
agent, too, ends for good.

The modules state some properties that no run checks. Most of them the code
violates: section 5.2 names these.

### 3.2 Bounds, and why they are enough

- *RunnerLock*: a displacement needs one admitted, one admitting and one healing
  process, and a second heal to invalidate the first one's proof. Flock tries are
  2 (the code: 3); admission rounds are 3 before the first heal, as in the code.
- *RunnerHandoff*: a hand-off concerns a parking runner, its successor and a loser.
  Doors call once each, two of them (`MaxCalls`), in every order: what one call
  reads early, one other call makes stale.
- *SeatPool*: one seat makes every second seeker wait; three seekers make order
  visible; two runners make the pool and the ceiling differ.
- *Schedule*: a release decision concerns a node, its predecessor, and the
  predecessor's; three nodes of every shape cover them, and the picked graphs add
  what needs a fourth node. One crash: nothing survives but the records, so a
  second one starts from a state the first can reach.
- *RetryLadder*: every cap is 1 and the budget 2, so that each ladder can be left by
  its own cap, by the budget and by a verdict; two rungs, so that a rung may follow
  a rung; two items share the budget.
- *FanOut*: three items are a quorum of two and a straggler; a batch of one and of
  two are the full and the flushed one. *Custody*: three pids are an agent, what
  it left, and a stranger that takes a number over.
- *Lanes*: an incumbent, a challenger and a late call; a run for each. *Revisions*:
  two nodes, so that an edit has an ancestor and a bystander; two or three calls.
- *Exits*: two runners at a time, three boots, two deaths: a death in the handler,
  one in its recovery. *Recover*: two scripts of each kind, two kills.
- *Notices*: two fan-outs, two definitions of a gate, two strikes (the code's
  default is set by the configuration), up to three kills. *Cards*: a text carries
  one card, two runs compete for it.

Each passing property has a mutant in `PROJECT.json`: a plausible bug, written
as an operator of the module, under which the run finds the property violated.

### 3.3 Fairness, and why the code justifies it

- *RunnerLock*: weak fairness of each process's own steps while it lives: no step
  waits for anything but the barrier, and the kernel drops it with its holder.
- *RunnerHandoff*: weak fairness of runners and doors; nobody has to call a door.
  The fence's deadline is wall-clock, so it fires.
- *SeatPool*: weak fairness of threads; strong fairness of taking a lock, because
  waiters poll every 200 ms and sections take milliseconds. Agents end once the
  runs they started are over (their wall kills them).
- *Schedule*: weak fairness of the runner, of agents (the node wall), of machine
  gates (the time-box) and of the answer to a held gate. The last is an assumption
  about people.
- *RetryLadder, FanOut, Custody*: weak fairness of the threads of a runner that is
  up, of clocks, and of the boot that follows a death (the watchdog or a wait).
- *Lanes*: weak fairness of calls, of the tick while its job exists, and of the end
  of a run with a runner. *Revisions*: of the sweep that kills a marked node,
  of the refusal of one, and of a launch that holds `_procs_lock`: what is left of
  it is a file and a `Popen`, and the sweep waits for that lock.
- *Exits*: of the handler's child and of each runner; nothing forces a boot.
- *Notices*: of the runner, of its poll, of clocks, and of the respawn of a parked
  run whose runner died (the tick counts it among the interrupted).

`CHECK_DEADLOCK FALSE` stands where the system may stop: everybody has left, the
run is over, or it waits for a person. Schedule checks for deadlock and has an
explicit stutter at a run's end.

## 4. What is proved

The proofs are in modules of their own, one for a component. Each theorem
holds for every value of the constants that satisfies the module's named
assumptions.

**RunnerLock** (`RunEdgesProofs`, first part), for any runners and healers. `TypeCorrect`
needs nothing. `OneRunner`, `HolderNeverDisplaced` and `HealSafe` assume `Regime`.
None of the three is inductive: that the path still names the holder's inode
depends on a heal that is already past its proof. The inductive invariant
`LockInv` adds

- `BarrierSerialises`: admissions and heals past the barrier exclude each other;
- `FlockExclusive`: a flock has one owner, and it has the inode open;
- `NeverDisplaced`: an admitted runner holds the flock of the inode of the path;
- `LeaseVouches`: an admitted runner's lease is fresh and names it;
- `WedgeProven`: a healer about to rename holds the barrier and nobody admitted
  is alive.

**RunnerHandoff** (`RunnerHandoffProofs`), for any runners, doors,
observers and bounds, with crashes. `HandoffTypeCorrect`, and
`DriversHoldTheLock`, which is inductive together with the types: every way into a
driving program counter passes the lock, and only the holder lets go of it.
`VerdictsAreTrue` needs `~ Stalls` (no fence is held up past a whole life of its
successor; section 5.2, `wf.py:11305`). `VerdictTruthful` speaks of the record on
disk, which an older runner may still be about to write; its inductive
strengthening `VerdictInv` adds

- `VersionsGrow`: no definition, record or verdict is of a version that the graph
  has not reached;
- `FencesAreOutside`: a runner in its fence does not hold the lock, and the
  verdict it carries is of the graph it read;
- `StaleIsShutOut`: a fence whose successor has worked cannot come back to write;
- `ClaimsAreTrue`: a verdict written, or about to be, is true of its graph.

`StopsAreFinal` states `StopHolds`: where nobody is killed and no sweep finds orphans
(`Quiet`), a stop that was asked for is proven from its consumption on, a release that
starts after it is refused, and neither the gate nor the work gets a record any
more. It assumes `~ Stalls` and `OneStop` (at most one of the doors is a stop;
section 5.2, `wf.py:10717`, says what two of them do). Its invariant `StopInv` adds

- `StampsLead`: whoever `wf.pid` names lives, or has left its verdict, so that no door
  reaps it as dead;
- `MarkedOnce`, `Unlinks`: the marker is written once, and `run.stopped` is the last
  event before the marker goes;
- `StopIsFinal`: a consumed stop is on its way into the exit record under the lock, or
  it is there and all fences are over, and nobody is in a round;
- `WorkGated`: work has a record only for an answered gate of its graph, so that a run
  that is `done` is refused by a release as much as one that is `stopped`;
- `LateIsRefused`: where a late release may be, it still meets the marker or the
  status of a run that is over.

**Schedule** (`ScheduleProofs`), for any set of valid graphs and any number of
crashes: `ScheduleTypeCorrect`, `ViewsAreTrue`, `RunnablesAreFresh`,
`InputsAreCommitted`, `RecordsAreKept` and `FlaggedRunsSpawnNothing` (its property
`AbortSpawnsNothing` is run by no cfg). `InputsCommitted` says nothing of how a
node came to run, so it is not inductive. The inductive invariant `ScheduleInv`
adds

- `ViewTrue`: in every pass the view of the nodes still to be handled is what the
  records say, so that who is pending has no verdict to lose, and a failure that
  is caught is a failure on disk;
- `RunnableIsFresh`: the nodes of the spawn pass, of the wave and of a gate's
  half-written skip have no verdict and have their inputs, and nobody of the wave
  is met again by the pass;
- `FlagHolds`: a flagged run is not in the spawn pass.

One lemma says that inputs, once there, stay (`SuppliedStays`), one that the
release law lets nobody go without them (`ReleasedIsSupplied`), one that no step
loses a verdict (`StepKeeps`); the step of the invariant has one case per action.

**RetryLadder** (`RetryLadderProofs`), for any items, deaths, caps, budgets and
restarts. `LaddersTyped` and `AttemptsAreSound` (`AttemptsHold`, all of it).
`LaddersKeepPromise` shows `Spec => Promise!Spec`: every step of the four ladders
maps to a launch, a payment, a grant, a death, a settlement, a new runner, or to
nothing. The mapping is state by state, so the proof is one case per action, under
the invariant `LadderInv`:

- `Shape`: the types, with the shape of an item at each of its places;
- `CountsAgree`: the counters of the ladders are what the promise counts;
- `Unlaunched`: an item that has not started has used nothing;
- `Cleared`: nothing of an earlier attempt is alive where the next one starts.

`OneTreeAtWork` follows from `Cleared`. That the abstract ladders pay for their
launches (`LaunchesArePaid`) is proved of LadderPromise through the mapping, from
`Sound`: the launches, the purse and what is paid but not yet launched add up to
no more than the budget and one. `EveryLaunchIsPaid` combines the two to `PromisesKept`. For the
answers the invariant is `AnswerHeld`: an item that has given a valid answer
carries it in the verdict it is judged by, or keeps it aside where it launches
again, until the record has it.

**SeatPool** (`SeatPoolProofs`), for any finite set of seekers and any runners,
with crashes, misreads and nested runs of any depth. `PoolTypeCorrect`;
`CeilingsHold`; and `CapHolds`, under `Capped`: a run that has a ceiling of its own
has a cap to record (section 5.2, `wf.py:4560`). The argument:

- `AtWork` and `HoldsFlock`: the section of the pool has one seeker in it, whose
  runner lives;
- `CountsEnough`: what a seeker counted in the section is no less than what is on
  disk, because nothing but the section adds a seat, and a count drops only
  tickets whose owner it saw dead twice;
- `Narrow`: any set of seats none of which is an ancestor of another is no larger
  than the cap. The cap is promised for seats in use, those that are not lent to
  a nested run; this set changes when a nested run takes or leaves a seat, so its
  size is not inductive, while "every set of seats apart" is: a new seat is
  admitted only when all seats but its ancestors are fewer than the cap.

`PoolStaysSound` adds to these that no lock and no marker outlives the wait it was
for: `HoldsAdmit` says who holds the lock of a fan-out at which place, `MarkersWait`
that only who waits, or died waiting, has a marker. `SeatsStayLawful` is about
steps: a living holder keeps its seat; while every heartbeat comes (`~ Lapses`)
nobody overtakes, because a scan that found nobody older is still true when its
seeker is admitted (`ScanStands`: markers only get older, and a new one is the
youngest); without a drain window a quorum lets no straggler in, because from the
tally to the cancel the lock of the fan-out is held (`QuorumShuts`).

**FanOut** (`FanOutProofs`), for any items and definitions, whatever the disk
refuses, and stops, caps and dead runners cut short. `FanOutBacked` and
`NobodyUnbatched` are the two invariants of the run. A cancellation and the green
record are steps apart from the answers they stand on, so `FanInv` adds

- `Quorate`: who set off the cancellation, or its timer, counted answers
  (`Backers`) that are on disk and stay there;
- `ToldCarried`: an answer that was told is held, in a batch under way or in one
  that was answered; `NodeCarried`: what the node counts is in a final batch;
- `WaveShape`, `Unjudged`, `DoneRests`: what is open in which phase of the wave, and
  that nothing rewrites the records of a node that is done.

**Custody** (`CustodyProofs`), for any pids, with their reuse, any nodes, forks,
detachments, deaths of runners and sweeps. `AgentsWorkAlone`, `PidsLeadToTheirs` and
`RunnersLeaveNothing` are all the safety of the run. `CustodyInv` has one part
for each thing that must agree with the process table:

- `Tree`: whose process each pid is, who its parent is, and that a spawn has one
  agent; `RowsAreOwn`: a row of the registry with the tick of the present process was
  written by that process;
- `Recorded` and `Watching`: the spawn record names the last spawn and, once bound,
  its agent; the thread holds its own child, or the exit code it left;
- `OneAtWork`: the agents of this runner are that one, and of those before it none
  is bound; `CommitsAlone` and `Leaves` are the promises at the commit, the stop
  and the termination.

What the kernel does in one step (a death, the adoption of what it leaves, a group
kill) is one relation between tables, `Thin`, with lemmas of its own; an action
that kills only has to show that it makes the table thinner.

**Revisions** (`DoorwayProofs`, first part), for any graph with a transitive ancestry, any
calls and plans (`RevisionsConstants`), over any number of deaths and runners.
`EditsStayKept` states the invariant of the run. A token is compared with a
revision that is derived from the documents, so its inductive strengthening
says what the documents are while somebody holds the lock:

- `Locking`: the places where a call holds `graph.lock`; `SwapReady`: between its row
  and its swap a call finds the graph that its row starts from;
- `Chained`: the rows are a chain over the spoilt ones, and the chain ends in the
  graph unless somebody is about to swap;
- `DrainsAreLines`, `Askers`: a live runner drained nothing that is not in the inbox,
  and only a call that steers is about to write to it; `CuesAreClaimed`: while
  nobody steers, lines and claims correspond.

`KilledStaysDown` and `RoutesStayOfNow` are action properties. The first needs to know of
the past of a kill what no document says: `spent` has the killed nodes for which no
launch is past its last looks, because none was when the kill fell, or its agent has
come since, or its runner is gone. `KillInv` says that it stays so: a launch gets past
its looks only without a marker, and markers are never taken away, so a spent node
never comes to the step that starts an agent. The second rests on the transitivity of
the ancestry: what a frozen node depends on is frozen too, so its fingerprint is the
one its record was made for.

**Lanes** (`DoorwayProofs`, second part), for any doors, runs and scenes. `LanesStayHeld`
states the invariant of the run under two hypotheses on the scenes. `Undisputed`: where
the owner amends finished runs, a lane has one caller and no entry from before, because an
amend revives a run without asking its lane (section 5.2, `__init__.py:4858`).
`Unhurried`: where the tick runs, a scene has one call and it is not cut short, because
the tick boots whatever directory has a graph (section 5.2, `runner_watchdog.py:127`).
That the lane names one unfinished run is a fact about the past of the entry, so `LaneInv`
remembers all runs that it ever named:

- `LaneFlock`: who looks at the entry, or makes a run for it, has the lane's flock;
- `OwnRuns`: two calls never make one directory, and the entry names it from its claim on;
- `Vacant`: while a run is made for the lane, whoever the entry names is over;
- `OnlyEntry`: of all runs it named, only the last may be unfinished; `Alone`: where the
  owner amends there is only that one.

`BootInv` adds `Informed` (every run but one that is being made has its `run.json`) and
`AfterTheCall` (no tick before the call is over).

**Recover** (`DoorwayProofs`, third part), for any watchdogs, finalizers, items and scenes.
`ClosuresStayJust` needs no hypothesis. Its `RecoverInv` says what a pass knows of what it
has read: `Locks` (a pass and a runner exclude each other) and `Looked` (what it passed
over is not running or is spared, what it found is dead and stays so, and a pass that
found everything closed has an aggregate to show). `OneRespawnEach` assumes `FewScripts`:
the graph is not amended, or no more than two watchdogs work (section 5.2,
`lane_recover.py:316`, has what a third one does). Its `RespawnInv` counts: a graph that
has its receipt is guarded, is about to be, or nobody will ask for it any more.

**Exits** (`RunEdgesProofs`, second part), for any runners, nodes and endings, over any
number of deaths, boots, amends and closures. `EndingsStayKept` states the invariant of
the run; `VerdictsStay` is the step property inside `HandlersClose`. That no work is
driven while a postmortem is owed depends on what the next boot will read, so `ExitInv` adds

- `ExitLocks`: who drives or handles has the lock, and a runner with a handler records
  its verdict under it; `OneClaim`: the claim is made before the launch and outlives
  whoever made it, so that no claim means no launch;
- `IsOwed`: an owed postmortem is a terminal verdict of the present graph, and nobody
  who could replace it drives;
- `Bracketed`: what events, record and receipt say at each place on the way to the end;
- `FirstRow`: the ledger starts with the first closure.

The hypothesis `UnamendedBudgets` is needed: where the graph of a run with a handler
is amended, a fenced runner takes the amend up though a successor has died owing a
postmortem; if it then dies of its budget, its `budget` verdict, which owes none,
replaces the terminal one, and the next boot drives. The scenes of the run satisfy it
(the one with budget deaths has no handler).

**Gates** (third part), for any items, files, deeds and drifts. `ProofsStayReal`: the
world moves between two looks, so `GateInv` says of each edge of the commit what has
been seen by then (`SeenSoFar`), and that only the last gate reads the store (`ReadsLast`).

**Cards** (fourth part), for any runs, turns, caps, questions and mishaps.
`CardsShipOnce`. Showing and retiring a card are steps apart, with abandoned workers in
between, so `CardInv` keeps an account: `Credit` (a card that may still be shown has a
launch that was not), `Calling` (only the call of the turn retires, and only what was
shown), `Claiming` (a claim stands in the text of a call that has not been gone
through), `Unshown` (what was asked for and never shown is in the ledger).

**Notices** (fifth part), for any scenes: fan-outs, graphs, amends, kills, exceptions and
outcomes of posts. `OwnersAreTold` needs no hypothesis; `HoldIsTold` itself speaks of
scenes where posts succeed. The identity of a decision contains the revision that the
log shows, which lags behind the graph while an amend is half done. `NoticeInv` therefore
gives every saying a moment, and has

- `Paces`: how revision, swaps and door stand to each other;
- `Stamped`: what is said in this moment carries the revision of now, unless an amend
  is half done, and two sayings of one earlier such moment carry one revision;
- `Rows`: a row that settles is of a turn that was taken;
- `Holds`: a runner that is about to leave at a gate has told, is telling, or is going
  to find that the graph has changed;
- `Loop`: who speaks in which phase, and that a burst is flushed before `run.done`.

`StrikesStayJust` is the step property `StrikesJust`. Its `StrikeInv` adds `Silence` (while
a hold is being told, and after it was not heard, the ledger has no row that settles under
the name it would have now), which rests on `RevsPast` (no row and no saying is of a
revision that the log has not reached, so that an amend in between gives a new name),
and `Copied` (the runner's copy of the watch agrees with the disk from the gate to the end
of the park). It assumes `StrikesMax > 0`; section 5.2, `park_watch.py:69`, has the
setting that breaks it.

**Only model-checked.** Liveness in every module (`CrowdServed`, `DoorsReturn`,
`ActionsTakeEffect`, that nodes, items, calls, handlers and kept gates settle), for
which the prover has no fairness reasoning here; every invariant of a run is stated by
a theorem. In Schedule the properties of the cascades over the graph
(`OrderHolds`): `Pruned`, `Dead` and `OrderOk` are recursive functions, about which the
prover has no induction; the proofs above use only that `Pruned` picks pending nodes and
never open the other two. In Revisions `UntouchedIsKept`, the second half of
`ChoosesRoutes`: with three amends, one of which puts an old text back without a
token, a node may count as untouched against a record of an older definition, so
it holds of the plans that the run has and not of all. Verdicts has no proofs.

## 5. Where the code and its word differ

### 5.1 With a run

- `schedule_gate` (`wf.py:11085`): a gate skipped by a false `when` is written to
  `gates/<id>.json` first and to its record second. A runner killed in between
  leaves a file that `gate_answer_valid` takes for an answer; the next runner
  releases the gate and runs the branch that should have been pruned. Running
  the real runner with a SIGKILL at that line shows the same.
- `lane_freed` (`__init__.py:3115`): a lane entry whose run directory is gone reads
  `orphaned`, which `_lane_state` counts as unfinished. Once the retention script
  removed a finished run, every later launch under its key is deduped to it.

### 5.2 Without a run

Found while modelling. Where a definition states the promise, TLC finds it
violated; the others can be shown by lifting a restriction that the runs or
theorems name, or lie at the edge of a model.

| Where | What |
|---|---|
| **Admission and hand-off** | |
| `wfcommon.py:4415` | The first heal of a run creates the barrier file beside an admission that did not find one, and may displace the runner being admitted (`BarrierAtStart = FALSE`). |
| `wfcommon.py:4296` | A lease written in another pid namespace names a pid that means another process here; a live holder may be taken for dead (`Collide # {}`). |
| `__init__.py:4333` | A release reads the markers and the status before it writes the answer, and a stop does not take `graph.lock`: "An answer NEVER lands on a run that is stopped or being stopped" does not hold. The answer is not acted on. |
| `wf.py:5952` | The sweep event after a stop covers `run.stopped` as the last event; a release in the gap before `runner_exit.json` is written lands on the stopped run (`scene.orphans # {}`). |
| `wf.py:10717` | The marker is unlinked after `run.stopped` is published. An amend and a second stop in between: the unlink takes the second stop's marker with it, which its door reads as consumed, and the run goes on with the amended graph (the hypothesis `OneStop` of `StopsAreFinal`). |
| `wf.py:11313` | A status reader's probe holds the lock for an instant; a parking runner takes it for its successor and leaves without a verdict. |
| `wf.py:11305` | A fence that is held up past a whole life of its successor stamps the older verdict (`Stalls = TRUE`). |
| `wf.py:1809` | `_reacquire_terminal_lock` honours no heal barrier and does not verify the inode it locks. |
| `__init__.py:4883` | A stop that a door reports as inert leaves its marker, which stops the run that a later amend revives. |
| `__init__.py:625` | The reap of a silent death may write its events and its exit record over a stop that was published in between. |
| `__init__.py:4790` | An amend that dies between the swap and `restart.request` leaves a fence that reads the new graph and a loop that runs the old one. |
| `wf.py:11261` | After the owner turn of a finished run there is no boundary: an amend made in that turn is never consumed, though `__init__.py:644` says it is. |
| **Scheduler** | |
| `wfcommon.py:5379` | `SplicedStaysDead`: `on_fail` catches come when the wave is quiet, after the release law has called the failure and its dependents dead. A lane that waits for the turn of a dead one runs first, and the dead one after it. |
| `wf.py:8797` | A fan-out without items commits its failure, then raises the abort flag. A runner killed in between leaves a failure that `on_fail: skip` tolerates. |
| `wfcommon.py:5318` | A node skipped by its `when` keeps its fallback from the pruner: the fallback runs although nothing died. |
| `wf.py:10810` | Echoes commit in list order and before joins: an echo listed before the echo it waits for, or behind a join, ends an accepted graph as stuck. |
| `wf.py:10786` | The typed partial pass fails a join with a partial parent before the join is looked at. |
| `wf.py:9780` | An abort in the catch pass does not stop the pass. |
| **Seats and fan-out** | |
| `wf.py:4560` | A run with `max_seats` whose process has the semaphore switched off (`WORKFLOW_MAX_SEATS=0`) takes tickets in a pool that has no recorded cap; another runner may then record a smaller one (the assumption `Capped` of `CapHolds`). |
| `wf.py:4772` | A nested run queues behind a stranger's older marker while the stranger waits for the seat of the nested run's parent: with unbounded waits nobody moves. |
| `wf.py:7444` | A runner that dies between the launch of an agent and the bind of its seat leaves a ticket that names a dead pid, and the seat is pruned under the living agent. |
| `wf.py:9350` | With `quorum_drain_s` the seat of the item that met the quorum goes back before the cancel; a queued straggler spawns. |
| `wf.py:9423` | `StoppedWorkWaits`: the bar is lowered by the items a stop has cancelled, so that an aggregate commits done over their siblings and they are never driven again (`README.md:78`). |
| `wf.py:9030` | `BatchesAreRedriven`: `_bs()` takes no arguments, and `_bounded_retry` calls `respawn(resume_preamble=...)`; the TypeError is caught as a crash of the batch. |
| `wf.py:8985` | A resumed fan-out re-drives finished items, and the batches of the earlier wave count as covered. |
| **Ladders and custody** | |
| `wf.py:8228` | `WindowSettled`: after `transport_exhausted` the window is kept, and neither a rung nor a re-drive that then commits done clears it; the next launch of the node is refused unseen. A window is keyed by node id, and no amend clears it. |
| `wf.py:8244` | `RungsKeepAnswers`: with two rungs a harvested `partial` may be replaced by a worse verdict of the next rung. |
| `wf.py:5083` | The termination cleanup lists children once; one forked meanwhile outlives it. |
| `wf.py:6263` | An attempt of a resumed item may share its work directory with an orphan that was never bound (`NoSharedWorkdir`). |
| `wf.py:6514` | An answer harvested from a registered job carries no pid, so `_final_quiesce` returns at once; an adopted retirement before the commit loses the answer with the runner. |
| `wf.py:6123` | Descendants that register after the boot sweep are invisible to it; an unreadable registry leaves admission open. |
| `wf.py:5419` | A solo child that outlives a killed runner is neither adopted nor swept when its definition changed or its pid was never written. |
| **Endings** | |
| `wf.py:10528` | A boot that is blocked by lane wreckage writes its verdict over a terminal one whose postmortem is owed (`references/grammar.md:62`). |
| `wf.py:11307` | A fence that takes up an amend asks only whether the lock is free: if a successor recorded a terminal verdict of the amended graph and died before its handler, the fenced runner drives that graph again while its postmortem is owed (`rerun` counts boots, not fences; the hypothesis `UnamendedBudgets`). |
| `wf.py:10577` | A run killed after its verdict and before its handler finished is revived by no tick and no wait. |
| `wf.py:10217` | The ledger compares with its last row only: closures A, B, A make three rows. |
| `wf.py:10322` | A crash between launch and spawn record makes a failed receipt while the child lives; recovery runs commit gates over a committed record. |
| `wf.py:1338` | `VerdictIsTold`: the identity of a verdict leaves out the graph it is of, so that a second failure after an amend is taken for the first. |
| `wf.py:1553` | The debounce marker is kept per event, not per node; a refire ignores the tier and silence of the coalesced alarm (`wf.py:1631`); `run.failed` flushes nothing. |
| `wf.py:11130` | A wake that nobody is there to hear counts as a strike. |
| `park_watch.py:69` | A setting of strikes between 0 and 1 passes the test `s > 0` and becomes `int(s) == 0`: every park is settled as struck at its first tick, whatever was delivered (`StrikesMax = 0`, which `NoticesConstants` excludes). |
| `wf.py:10034` | Deadlines of timers and checks start over on every re-park; strikes of a hold are reset in memory on the first poll. |
| **Calls, lanes, recovery, cards** | |
| `__init__.py:4842` | `MetaFollowsGraph`: two amends swap their graphs in one order and write `run.json` in the other. |
| `__init__.py:4787` | A crash between row and swap leaves a row for a graph that never was. |
| `__init__.py:4512` | A steer is judged before the lock and may land on a run that is over; a long line written in two writes may be drained half-written. |
| `wf.py:7325` | The last look for a kill marker comes before the test for staleness, the started marker and the `Popen` (`:7386`), and `act_kill` takes no lock: a kill in between gives the killed node an agent, which works until the sweep of the next two seconds. |
| `wf.py:7131` | A look for cancellations that finds the kill marker, in the wait for a seat or after the reaping of survivors, answers `cancelled` ("quorum already met"), which counts as pending (`wfcommon.py:4668`), where `__init__.py:4931` says that the node finishes failed with `error_class=killed`: the node is driven again, until a drive meets the look of `:7268`; in a fan-out, the item leaves the failure count. |
| `wf.py:3317` | A budget cue is claimed, then appended: a crash in between loses it. |
| `__init__.py:3791` | `RefusedStaysDown`: a launch that failed its durability proof leaves a directory that the tick revives. |
| `__init__.py:3307` | A tick that takes its own job down races a launch that arms it; two launches create two jobs. |
| `__init__.py:4858` | An amend of a finished run revives it without asking the lane registry, and arms no job. |
| `scripts/retention.py:244` | A run is judged and removed in two steps; one revived in between loses its directory. Held runs and quiet live ones are trimmed (`:37`). |
| `runner_watchdog.py:127` | The tick revives every directory that reads `pending`, one that a launch of another lane is still filling too: its runner may boot before `run.json` is there (the hypothesis `Unhurried` of `LanesStayHeld`). |
| `scripts/lane_recover.py:316` | The guard remembers one graph. With an amend, one watchdog guards the new graph over the old one, and a third that has read the old one finds it unguarded: one crash is answered twice (the hypothesis `FewScripts` of `OneRespawnEach`). |
| `scripts/lane_recover.py:219` | `_spawn_confirmed` takes any holder of the lock for the runner it spawned: a finalizer or a probe earns a dead respawn its receipt and guard. |
| `scripts/lane_recover.py:471` | A pass over one dead and one living item writes the failed aggregate and the blocked verdict while the living child works. |
| `card_ledger.py:75` | A read of the ledger that fails during a write counts as an empty one, and wipes every other owed card. |
| `card_enforcement.py:179` | A `run` that was deduped owes a card again that was shipped already. |

## 6. What is not modelled, and why

- *Between the modules*: a RunnerHandoff runner is admitted atomically;
  `_reacquire_terminal_lock` is the fence's reacquire there and is not in
  RunnerLock. Schedule knows no markers and no amends: every record is valid for
  its graph. The verdict of an item is a free choice in FanOut, the product of the
  ladders in RetryLadder; the tree of an attempt is a count there, a set of
  processes in Custody.
- *RunnerHandoff*: `run_state` is one atomic read; after a death the resume's
  check for consumption and the status it reads are one step. Doors do not die in
  the middle (they do in Revisions and Lanes).
- *SeatPool*: each seeker seeks once; a misread concerns a ticket's holder, not a
  marker's; the ledger files that only report are left out.
- *Schedule*: a predicate has one value per graph; a harvest that is validated
  counts as the `done` it reads as; external effect receipts, steering and metrics
  are left out.
- *FanOut*: `foreach` and streamed sources, probes of a roster beyond pass or fail,
  and the item packs. *RetryLadder*: seconds are "due" or not; routes and prompts.
- *Custody*: cgroups, the walk of `/proc` (one read), the text of logs.
- *Exits*: a boot reads the graph once where the code reads it twice (`wf.py:10546`,
  `10577`). *Notices*: the debounce marker is read and written in one step; the
  session store and its transports are the ways a post may end.
  *Gates*: the commands that look. *Cards*: the text of a card, the spine behind
  it, a second call of the hook in one turn.
- *Revisions*: a launch that fails for another reason (its profile, its capture file,
  survivors that stay, `Popen`) counts as an agent that dies at once.
- *Lanes*: the contents of the files, replays, goal reads; *Recover*: the bead
  store that the blame is written to.
- *Components without a module*: graph validation, includes and previews are
  hundreds of rules of shape over documents, with no order to get wrong. The gate
  index can only miss a shortcut; the approval bridge releases through
  `_release_core`. Orphan awareness and telemetry decide nothing. Desktop and
  dashboard are views. CI scripts run over the source tree.

## 7. Plan

1. Proofs: `VerdictIsTold` of Notices, once the identity of a verdict names its graph.
2. `RunSpec`: what a run promises its owner (an answer commits at most once, a
   stop ends the run, a verdict is final until amended), with RunnerHandoff
   shown to implement it.
3. `_reacquire_terminal_lock` in RunnerLock; doors that die in RunnerHandoff.
4. The gate index and the approval bridge, whose reconciliation looks at the file
   of an answer where its emission looks at its validity.
