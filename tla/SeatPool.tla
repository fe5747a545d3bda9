-------------------------------- MODULE SeatPool --------------------------------
(***************************************************************************)
(* The global agent-seat semaphore: _seat_acquire of wf.py and the part of *)
(* run_child and of the fan-out around it.                                 *)
(*                                                                         *)
(* All runners of a host share one directory of tickets, one file .cap and *)
(* one queue of markers, and arbitrate under the flock of <seats>/.lock.   *)
(* A runner launched from inside an agent (a nested run) is lent the seat  *)
(* of that agent.  The items of one fan-out share a lock (admit_lock) with *)
(* whoever cancels the stragglers of a quorum.                             *)
(***************************************************************************)
EXTENDS Naturals, FiniteSets

CONSTANTS
  Seekers,   \* spawns of agents, each of which wants a seat
  Runners,
  Own,       \* the runner of each seeker; the seekers of one are one fan-out
  Above,     \* the seekers whose agents are ancestors of each runner
  Seed,      \* the cap each runner's settings give, 0 when they give none
  Ceiling,   \* max_seats of each runner's run, 0 when the run sets none
  Quorum,    \* the fan-out's explicit quorum, 0 when it has none
  Drain,     \* the quorum has a drain window
  Blind,     \* runners that cannot read their ancestry
  Stoppable, \* runners whose run may be stopped
  Expires,   \* the bounded wait may run out
  Lapses,    \* a living waiter may miss its heartbeats
  Crashes,   \* bound: SIGKILLs of runners
  Misreads,  \* bound: times that a living holder looks dead
  NoOne

ASSUME PoolConstants ==
  /\ IsFiniteSet(Seekers)
  /\ Own \in [Seekers -> Runners]
  /\ Above \in [Runners -> SUBSET Seekers]
  /\ \A r \in Runners : \A s \in Above[r] : Own[s] # r /\ Above[Own[s]] \subseteq Above[r]
  /\ Seed \in [Runners -> Nat] /\ Ceiling \in [Runners -> Nat] /\ Quorum \in [Runners -> Nat]
  /\ Drain \in BOOLEAN /\ Expires \in BOOLEAN /\ Lapses \in BOOLEAN
  /\ Blind \subseteq Runners /\ Stoppable \subseteq Runners
  /\ Crashes \in Nat /\ Misreads \in Nat
  /\ NoOne \notin Seekers

VARIABLES
  cap,      \* <seats>/.cap, 0 when there is none
  ticket,   \* the ticket file of each seeker; "bound" names the agent too
  marker,   \* its marker in <seats>/queue, by the age of the heartbeat
  enq,      \* its arrival, the order key of the queue
  flock,    \* who holds <seats>/.lock
  admit,    \* who holds the admit_lock of each fan-out
  view,     \* what the holder of the flock has found so far
  spc,      \* where each seeker is
  agent,    \* the process each seeker launched
  runner,   \* whether each runner process lives
  cancel,   \* fo_cancel or _stop of each runner is set
  done,     \* done_count of each fan-out
  armed,    \* the drain timer of each fan-out runs
  crashes, misreads

files == <<cap, ticket, marker>>
locks == <<flock, admit, view>>
waves == <<cancel, done, armed>>
vars == <<files, enq, locks, spc, agent, runner, waves, crashes, misreads>>

NoView == [live |-> 0, doomed |-> {}, older |-> FALSE, gone |-> {}, stale |-> {}]
Section == {"count", "settle", "scan", "prune", "decide"}
Waiting == {"admit", "flock", "nap"} \cup Section
SeekerPC == Waiting \cup {"idle", "launch", "bind", "run", "tally", "cancel", "return", "end", "gone"}

PoolTypeOK ==
  /\ cap \in Nat
  /\ ticket \in [Seekers -> {"none", "held", "bound"}]
  /\ marker \in [Seekers -> {"none", "fresh", "aging", "stale"}]
  /\ enq \in [Seekers -> Nat]
  /\ flock \in Seekers \cup {NoOne}
  /\ admit \in [Runners -> Seekers \cup {NoOne}]
  /\ view \in [live : Nat, doomed : SUBSET Seekers, older : BOOLEAN,
               gone : SUBSET Seekers, stale : SUBSET Seekers]
  /\ spc \in [Seekers -> SeekerPC]
  /\ agent \in [Seekers -> {"none", "live", "dead", "killed"}]
  /\ runner \in [Runners -> {"up", "dead"}]
  /\ cancel \in [Runners -> BOOLEAN] /\ armed \in [Runners -> BOOLEAN]
  /\ done \in [Runners -> Nat]
  /\ crashes \in Nat /\ misreads \in Nat

-----------------------------------------------------------------------------

OnDisk == {s \in Seekers : ticket[s] # "none"}
Up(s) == runner[Own[s]] = "up"

\* A ticket lives while its runner or the agent it names does.
Live(s) == Up(s) \/ (ticket[s] = "bound" /\ agent[s] = "live")

\* The ticket of an agent among the ancestors is lent, not counted.
Lent(r, s) == r \notin Blind /\ s \in Above[r] /\ ticket[s] = "bound" /\ agent[s] = "live"

\* The runners among the ancestors of a runner; their markers do not block it.
RunnersAbove(r) == IF r \in Blind THEN {} ELSE {Own[s] : s \in Above[r]}

\* The pool's cap under the ceiling of the run; a pool without one leaves the
\* run its own max_seats.
Cap(r) == IF cap = 0 \/ (0 < Ceiling[r] /\ Ceiling[r] < cap) THEN Ceiling[r] ELSE cap

Shut(s) == view.live >= Cap(Own[s]) \/ view.older

Goto(s, to) == spc' = [spc EXCEPT ![s] = to]

FreeLocks(s) ==
  /\ flock' = IF flock = s THEN NoOne ELSE flock
  /\ admit' = [admit EXCEPT ![Own[s]] = IF @ = s THEN NoOne ELSE @]
  /\ view' = IF flock = s THEN NoView ELSE view

-----------------------------------------------------------------------------
(* _seat_acquire.                                                          *)

\* A nested run is started by a living agent.
Arrive(s) ==
  /\ spc[s] = "idle" /\ Up(s)
  /\ \A t \in Above[Own[s]] : agent[t] = "live"
  /\ enq' = [enq EXCEPT ![s] = 1 + Cardinality({t \in Seekers : enq[t] # 0})]
  /\ Goto(s, IF Seed[Own[s]] = 0 /\ Ceiling[Own[s]] = 0 THEN "launch" ELSE "admit")
  /\ UNCHANGED <<files, locks, agent, runner, waves, crashes, misreads>>

\* Every exit of the wait removes the own marker and frees the locks.
GiveUp(s) ==
  /\ spc[s] \in {"admit", "flock", "count", "nap"} \/ (spc[s] = "decide" /\ ~ Shut(s))
  /\ Expires \/ cancel[Own[s]]
  /\ marker' = [marker EXCEPT ![s] = "none"]
  /\ FreeLocks(s)
  /\ Goto(s, "end")
  /\ UNCHANGED <<cap, ticket, enq, agent, runner, waves, crashes, misreads>>

TakeAdmitLock(s) ==
  /\ spc[s] = "admit" /\ ~ cancel[Own[s]]
  /\ admit[Own[s]] = NoOne
  /\ admit' = [admit EXCEPT ![Own[s]] = s]
  /\ Goto(s, "flock")
  /\ UNCHANGED <<files, enq, flock, view, agent, runner, waves, crashes, misreads>>

\* Mutation: a refused LOCK_NB is taken for a grant.
TakeFlockAnyway(s) ==
  /\ spc[s] = "flock"
  /\ flock' = s
  /\ Goto(s, "count")
  /\ UNCHANGED <<files, enq, admit, view, agent, runner, waves, crashes, misreads>>

TakeFlock(s) ==
  /\ spc[s] = "flock"
  /\ flock = NoOne
  /\ flock' = s
  /\ Goto(s, "count")
  /\ UNCHANGED <<files, enq, admit, view, agent, runner, waves, crashes, misreads>>

\* _seat_pool_cap records the first cap; _seat_live_tickets counts.
Count(s) ==
  /\ spc[s] = "count" /\ ~ cancel[Own[s]]
  /\ cap' = IF cap = 0 THEN Seed[Own[s]] ELSE cap
  /\ \E missed \in SUBSET {t \in OnDisk : Live(t)} :
       LET doomed == missed \cup {t \in OnDisk : ~ Live(t)} IN
       /\ Cardinality(missed) <= misreads
       /\ misreads' = misreads - Cardinality(missed)
       /\ view' = [view EXCEPT !.doomed = doomed,
                     !.live = Cardinality({t \in OnDisk \ doomed : ~ Lent(Own[s], t)})]
       /\ Goto(s, IF doomed = {} THEN "scan" ELSE "settle")
  /\ UNCHANGED <<ticket, marker, enq, flock, admit, agent, runner, waves, crashes>>

\* Mutation: the first verdict counts.
SettleAtOnce(s) ==
  /\ spc[s] = "settle"
  /\ ticket' = [t \in Seekers |-> IF t \in view.doomed THEN "none" ELSE ticket[t]]
  /\ view' = [view EXCEPT !.doomed = {}]
  /\ Goto(s, "scan")
  /\ UNCHANGED <<cap, marker, enq, flock, admit, agent, runner, waves, crashes, misreads>>

\* After a pause the same law once more: who lives now is counted, lent or
\* not, and only who is dead twice loses the ticket.
Settle(s) ==
  /\ spc[s] = "settle"
  /\ LET revived == {t \in view.doomed : Live(t)} IN
     /\ ticket' = [t \in Seekers |-> IF t \in view.doomed \ revived THEN "none" ELSE ticket[t]]
     /\ view' = [view EXCEPT !.live = @ + Cardinality(revived), !.doomed = {}]
  /\ Goto(s, "scan")
  /\ UNCHANGED <<cap, marker, enq, flock, admit, agent, runner, waves, crashes, misreads>>

\* _seat_queue_scan.
Scan(s) ==
  /\ spc[s] = "scan"
  /\ LET rivals == {t \in Seekers \ {s} : marker[t] # "none" /\ Own[t] \notin RunnersAbove(Own[s])}
         gone == {t \in rivals : ~ Up(t)}
         stale == {t \in rivals \ gone : marker[t] = "stale"}
     IN /\ view' = [view EXCEPT !.gone = gone, !.stale = stale,
                      !.older = \E t \in rivals \ gone : marker[t] = "fresh" /\ enq[t] < enq[s]]
        /\ Goto(s, IF gone \cup stale = {} THEN "decide" ELSE "prune")
  /\ UNCHANGED <<files, enq, flock, admit, agent, runner, waves, crashes, misreads>>

\* _seat_queue_prune, after a pause of its own.
Prune(s) ==
  /\ spc[s] = "prune"
  /\ marker' = [t \in Seekers |->
                  IF t \in view.gone \/ (t \in view.stale /\ marker[t] = "stale")
                    THEN "none" ELSE marker[t]]
  /\ Goto(s, "decide")
  /\ UNCHANGED <<cap, ticket, enq, locks, agent, runner, waves, crashes, misreads>>

AdmitSeeker(s) ==
  /\ spc[s] = "decide" /\ ~ Shut(s) /\ ~ cancel[Own[s]]
  /\ ticket' = [ticket EXCEPT ![s] = "held"]
  /\ marker' = [marker EXCEPT ![s] = "none"]
  /\ FreeLocks(s)
  /\ Goto(s, "launch")
  /\ UNCHANGED <<cap, enq, agent, runner, waves, crashes, misreads>>

\* The door is shut: a marker keeps the place, unless a runner that cannot
\* see its ancestry finds the pool full (_SEAT_UNSUPPORTED).
TurnAway(s) ==
  /\ spc[s] = "decide" /\ Shut(s)
  /\ FreeLocks(s)
  /\ IF view.live >= Cap(Own[s]) /\ Own[s] \in Blind
       THEN marker' = [marker EXCEPT ![s] = "none"] /\ Goto(s, "end")
       ELSE /\ marker' = [marker EXCEPT ![s] = IF @ = "none" THEN "fresh" ELSE @]
            /\ Goto(s, "nap")
  /\ UNCHANGED <<cap, ticket, enq, agent, runner, waves, crashes, misreads>>

\* _seat_queue_beat, then the next try.
Beat(s) ==
  /\ spc[s] = "nap" /\ ~ cancel[Own[s]]
  /\ marker' = [marker EXCEPT ![s] = IF @ = "none" THEN @ ELSE "fresh"]
  /\ Goto(s, "admit")
  /\ UNCHANGED <<cap, ticket, enq, locks, agent, runner, waves, crashes, misreads>>

\* Time passes a waiter by: LIVE_S, then PRUNE_S without a heartbeat.
Lapse(s) ==
  /\ Lapses
  /\ spc[s] \in Waiting /\ marker[s] \in {"fresh", "aging"}
  /\ marker' = [marker EXCEPT ![s] = IF @ = "fresh" THEN "aging" ELSE "stale"]
  /\ UNCHANGED <<cap, ticket, enq, locks, spc, agent, runner, waves, crashes, misreads>>

\* An operator removes .cap while the pool is idle.
ForgetCap ==
  /\ cap # 0 /\ OnDisk = {} /\ flock = NoOne
  /\ cap' = 0
  /\ UNCHANGED <<ticket, marker, enq, locks, spc, agent, runner, waves, crashes, misreads>>

-----------------------------------------------------------------------------
(* run_child: the agent of a seat.                                         *)

\* Check, Popen and registration hold _procs_lock, which every setter of a
\* cancel holds too.
Launch(s) ==
  /\ spc[s] = "launch" /\ ~ cancel[Own[s]]
  /\ agent' = [agent EXCEPT ![s] = "live"]
  /\ Goto(s, "bind")
  /\ UNCHANGED <<files, enq, locks, runner, waves, crashes, misreads>>

\* Cancelled, stale or refused by the system: the seat goes straight back.
LaunchRefused(s) ==
  /\ spc[s] = "launch"
  /\ ticket' = [ticket EXCEPT ![s] = "none"]
  /\ Goto(s, "end")
  /\ UNCHANGED <<cap, marker, enq, locks, agent, runner, waves, crashes, misreads>>

\* _seat_bind; a ticket that is gone stays gone.
Bind(s) ==
  /\ spc[s] = "bind"
  /\ ticket' = [ticket EXCEPT ![s] = IF @ = "none" THEN @ ELSE "bound"]
  /\ Goto(s, "run")
  /\ UNCHANGED <<cap, marker, enq, locks, agent, runner, waves, crashes, misreads>>

AgentEnds(s) ==
  /\ agent[s] = "live"
  /\ agent' = [agent EXCEPT ![s] = "dead"]
  /\ UNCHANGED <<files, enq, locks, spc, runner, waves, crashes, misreads>>

\* Mutation: a failed spawn keeps its seat.
ReapKeepsSeat(s) ==
  /\ spc[s] = "run" /\ agent[s] \in {"dead", "killed"}
  /\ \/ agent[s] = "dead" /\ Goto(s, "tally")
     \/ Goto(s, "end")
  /\ UNCHANGED <<files, enq, locks, agent, runner, waves, crashes, misreads>>

\* A verdict other than done frees the seat at once; a done item keeps it
\* until the quorum is settled.
Reap(s) ==
  /\ spc[s] = "run" /\ agent[s] \in {"dead", "killed"}
  /\ \/ agent[s] = "dead" /\ Goto(s, "tally") /\ UNCHANGED ticket
     \/ ticket' = [ticket EXCEPT ![s] = "none"] /\ Goto(s, "end")
  /\ UNCHANGED <<cap, marker, enq, locks, agent, runner, waves, crashes, misreads>>

-----------------------------------------------------------------------------
(* The quorum of a fan-out.                                                *)

Kill(r) == agent' = [s \in Seekers |-> IF Own[s] = r /\ agent[s] = "live" THEN "killed" ELSE agent[s]]

Stragglers(r) == {s \in Seekers : Own[s] = r /\ spc[s] \notin {"tally", "cancel", "return", "end"}}

\* The done item takes the lock of the fan-out and is counted.
Tally(s) ==
  /\ spc[s] = "tally" /\ admit[Own[s]] = NoOne
  /\ admit' = [admit EXCEPT ![Own[s]] = s]
  /\ done' = [done EXCEPT ![Own[s]] = @ + 1]
  /\ LET met == 0 < Quorum[Own[s]] /\ Quorum[Own[s]] <= done'[Own[s]] /\ Stragglers(Own[s]) # {} IN
     /\ armed' = [armed EXCEPT ![Own[s]] = @ \/ (met /\ Drain)]
     /\ Goto(s, IF met /\ ~ Drain THEN "cancel" ELSE "return")
  /\ UNCHANGED <<files, enq, flock, view, agent, runner, cancel, crashes, misreads>>

\* _cancel_stragglers.
CancelStragglers(s) ==
  /\ spc[s] = "cancel"
  /\ cancel' = [cancel EXCEPT ![Own[s]] = TRUE]
  /\ Kill(Own[s])
  /\ Goto(s, "return")
  /\ UNCHANGED <<files, enq, locks, runner, done, armed, crashes, misreads>>

\* Only now, still under the lock, the seat goes back.
ReturnSeat(s) ==
  /\ spc[s] = "return"
  /\ ticket' = [ticket EXCEPT ![s] = "none"]
  /\ FreeLocks(s)
  /\ Goto(s, "end")
  /\ UNCHANGED <<cap, marker, enq, agent, runner, waves, crashes, misreads>>

DrainEnds(r) ==
  /\ armed[r] /\ runner[r] = "up" /\ admit[r] = NoOne
  /\ armed' = [armed EXCEPT ![r] = FALSE]
  /\ IF Stragglers(r) = {} THEN UNCHANGED <<cancel, agent>>
     ELSE cancel' = [cancel EXCEPT ![r] = TRUE] /\ Kill(r)
  /\ UNCHANGED <<files, enq, locks, spc, runner, done, crashes, misreads>>

\* The stop watcher sets _stop under _procs_lock and kills the wave.
StopRun(r) ==
  /\ r \in Stoppable /\ runner[r] = "up" /\ ~ cancel[r]
  /\ cancel' = [cancel EXCEPT ![r] = TRUE]
  /\ Kill(r)
  /\ UNCHANGED <<files, enq, locks, spc, runner, done, armed, crashes, misreads>>

\* SIGKILL of a runner: its locks are free, its agents live on.
Crash(r) ==
  /\ runner[r] = "up" /\ crashes > 0
  /\ crashes' = crashes - 1
  /\ runner' = [runner EXCEPT ![r] = "dead"]
  /\ spc' = [s \in Seekers |-> IF Own[s] = r /\ spc[s] # "end" THEN "gone" ELSE spc[s]]
  /\ admit' = [admit EXCEPT ![r] = NoOne]
  /\ IF flock # NoOne /\ Own[flock] = r
       THEN flock' = NoOne /\ view' = NoView
       ELSE UNCHANGED <<flock, view>>
  /\ UNCHANGED <<files, enq, agent, waves, misreads>>

-----------------------------------------------------------------------------

Init ==
  /\ cap = 0
  /\ ticket = [s \in Seekers |-> "none"]
  /\ marker = [s \in Seekers |-> "none"]
  /\ enq = [s \in Seekers |-> 0]
  /\ flock = NoOne
  /\ admit = [r \in Runners |-> NoOne]
  /\ view = NoView
  /\ spc = [s \in Seekers |-> "idle"]
  /\ agent = [s \in Seekers |-> "none"]
  /\ runner = [r \in Runners |-> "up"]
  /\ cancel = [r \in Runners |-> FALSE]
  /\ done = [r \in Runners |-> 0]
  /\ armed = [r \in Runners |-> FALSE]
  /\ crashes = Crashes /\ misreads = Misreads

TakeLock(s) == TakeAdmitLock(s) \/ TakeFlock(s) \/ Tally(s)

SeekerStep(s) ==
  \/ GiveUp(s) \/ Count(s) \/ Settle(s) \/ Scan(s) \/ Prune(s) \/ AdmitSeeker(s)
  \/ TurnAway(s) \/ Beat(s) \/ Launch(s) \/ LaunchRefused(s) \/ Bind(s) \/ Reap(s)
  \/ CancelStragglers(s) \/ ReturnSeat(s)

Next ==
  \/ \E s \in Seekers : Arrive(s) \/ TakeLock(s) \/ SeekerStep(s) \/ AgentEnds(s) \/ Lapse(s)
  \/ \E r \in Runners : DrainEnds(r) \/ StopRun(r) \/ Crash(r)
  \/ ForgetCap

Spec == Init /\ [][Next]_vars

\* The agent of a seat waits for the runs it started.
NestOver(s) == \A t \in Seekers : s \in Above[Own[t]] => spc[t] \in {"idle", "end", "gone"}

\* Threads run on, agents end once the runs they started are over, drain timers
\* fire.  A lock is held for milliseconds between naps of 200: who wants one
\* that keeps coming free gets it.
FairSpec ==
  /\ Spec
  /\ \A s \in Seekers : /\ WF_vars(SeekerStep(s)) /\ SF_vars(TakeLock(s))
                        /\ WF_vars(AgentEnds(s) /\ NestOver(s))
  /\ \A r \in Runners : WF_vars(DrainEnds(r))

-----------------------------------------------------------------------------

\* Never more seats in use than the pool's cap, whatever cap the runners were
\* started with: a seat lent to a nested run that holds one is not in use
\* (_seat_live_tickets, _seat_pool_cap).
Lending(s) == \E t \in OnDisk : s \in Above[Own[t]]
CapRespected ==
  cap > 0 => Cardinality({s \in OnDisk : Live(s) /\ ~ Lending(s)}) <= cap

\* A run never holds more seats than its own max_seats (_seat_pool_ceiling).
CeilingRespected ==
  \A r \in Runners : 0 < Ceiling[r] =>
    Cardinality({s \in OnDisk : Own[s] = r}) <= Ceiling[r]

\* Nobody else takes a seat away from a holder that lives, although a living
\* holder may look dead for an instant (the 2-of-2 law of _seat_live_tickets).
KeepsLiveSeats ==
  \A s \in Seekers : ticket[s] # "none" /\ Live(s) /\ ticket'[s] = "none" => spc'[s] # spc[s]

\* Nobody is admitted past a living waiter that queued earlier, except a nested
\* run past the waiters of the runners it descends from (_seat_queue_scan).
OvertakesNobody ==
  \A s, t \in Seekers :
    /\ ticket[s] = "none" /\ ticket'[s] = "held"
    /\ marker[t] = "fresh" /\ Up(t) /\ enq[t] < enq[s]
    => Own[t] \in RunnersAbove(Own[s])

\* Who is no longer waiting gates nobody: a marker belongs to a waiter or to a
\* dead runner, and the locks to seekers in their sections (_seat_acquire's
\* finally clauses).
NothingLeftBehind ==
  /\ \A s \in Seekers : marker[s] # "none" => spc[s] \in Waiting \cup {"gone"}
  /\ flock # NoOne => spc[flock] \in Section
  /\ \A r \in Runners : admit[r] # NoOne =>
       Own[admit[r]] = r /\ spc[admit[r]] \in Section \cup {"flock", "cancel", "return"}

\* Once the quorum is met no straggler gets a seat or an agent (fan-out one():
\* "a straggler parked in _seat_acquire can never take it and spawn past quorum").
QuorumMet(r) == 0 < Quorum[r] /\ Quorum[r] <= done[r]
SpawnsNoStraggler ==
  \A s \in Seekers :
    /\ ticket[s] = "none" /\ ticket'[s] = "held" => ~ QuorumMet(Own[s])
    /\ agent[s] = "none" /\ agent'[s] = "live" => ~ cancel[Own[s]]

\* What holds of the pool in every state, and of every step: a living holder keeps its seat; the
\* queue keeps its order unless waiters miss their heartbeats; no straggler spawns past a quorum
\* that has no drain window.
PoolSound == PoolTypeOK /\ CapRespected /\ CeilingRespected /\ NothingLeftBehind
SeatsLawful ==
  /\ KeepsLiveSeats
  /\ ~ Lapses => OvertakesNobody
  /\ ~ Drain => SpawnsNoStraggler
SeatsStand == [][SeatsLawful]_vars
=============================================================================
