------------------------------- MODULE Notices -------------------------------
(***************************************************************************)
(* What a run tells its owner, and how long it waits for an answer: notify  *)
(* with its coalescer, its mirror, its identity and its ledger; the gate    *)
(* that holds, parks or probes under the park watchdog; the boundaries of   *)
(* the main loop that call them; and the amend that moves the graph while   *)
(* the owner's turn is still running.                                       *)
(***************************************************************************)
EXTENDS Naturals, FiniteSets

CONSTANTS
  Scenes,      \* what a run of each kind may meet
  StrikesMax   \* strikes of the park watchdog

\* fans: the fan-outs of the first wave, each with at most cohorts straggler
\* alarms; gate: its kind, dflt: it has a default_option; tier: wake_tier of each
\* node; owner: how run.json is stamped; wire: how a POST may end; mirror: an
\* outbound bridge; silent: the result says [SILENT]; verdicts: of the work behind
\* the gate; graphs: those an amend may submit; amends, frail: how many amends, may one
\* die half-way; throws: exceptions of the loop; answers: a human may release; kills: SIGKILLs of a runner.
VARIABLES
  scene,
  graph, swaps, rev, door, restart, \* graph.json, how often replaced, graph.amended events, the amend, restart.request
  pc, mine, exit,      \* the runner: where, rs.graph, runner_exit.json
  answer, dead, result, waved, \* records: the gate answered, the gate failed, the work, the wave
  hold, age, watch, clock, \* held.json or parked.json, the age it shows; the runner's copy, its own t0
  cohort, marker,      \* alarms of each fan-out; wake-debounce/fanout.stragglers.json
  call, heard,         \* the notify under way in each thread, what the last one of main returned
  ledger, mirrored,    \* wake.jsonl, outbound.jsonl
  told,                \* turns that the owner's session accepted
  crashes, kills       \* crash_gen, and the runners killed

\* No fan-out has the name of the loop's own thread, and no park is settled before a first strike.
NoticesConstants == StrikesMax \in Nat \ {0} /\ \A sc \in Scenes : "main" \notin sc.fans /\ sc.frail \in BOOLEAN

disk == <<graph, swaps, rev, restart>>
records == <<answer, dead, result, waved>>
parking == <<hold, age, watch, clock>>
wakes == <<marker, ledger, mirrored, told>>
vars == <<scene, disk, door, pc, mine, exit, records, parking, cohort, wakes, call, heard, crashes, kills>>

Main == "main"
None == "none"
Idle == [at |-> "idle"]
NoHold == [def |-> None, strikes |-> 0, settled |-> None, expired |-> FALSE]
NoResult == [verdict |-> None, of |-> [gate |-> None, work |-> None]]
Settled(id) == \E r \in ledger : r.id = id /\ r.delivered \in {"true", "null"}

Init ==
  /\ scene \in Scenes /\ graph \in scene.graphs /\ graph.gate = "A" /\ swaps = 0 /\ rev = 0
  /\ door = "idle" /\ restart = FALSE
  /\ pc = "loop" /\ mine = [graph |-> graph, nth |-> 0] /\ exit = None
  /\ answer = None /\ dead = None /\ result = NoResult /\ waved = (scene.fans = {})
  /\ hold = NoHold /\ age = 0 /\ watch = NoHold /\ clock = 0
  /\ cohort = [f \in scene.fans |-> 0] /\ marker = [window |-> "shut", pending |-> FALSE, node |-> None, n |-> 0]
  /\ call = [t \in scene.fans \cup {Main} |-> Idle] /\ heard = None
  /\ ledger = {} /\ mirrored = {} /\ told = {} /\ crashes = 0 /\ kills = 0

-----------------------------------------------------------------------------
\* The identity of a transition, and notify.

\* Mutation: an identity without the revision.
Timeless(c) == [c.key EXCEPT !.gate = IF c.key.subj = None THEN graph.gate ELSE @,
                             !.work = IF c.key.subj = None THEN graph.work ELSE @, !.rev = 0]

\* What a caller names carries the revision of the moment it is sent; the notice of a
\* failed node carries that of its commit. Without a name: the graph on disk.
Name(event, subj, gate, n) == [event |-> event, subj |-> subj, gate |-> gate, work |-> None, n |-> n, rev |-> rev]

Identity(c) ==
  CASE c.key.event = "action" -> c.key
    [] c.key.event # "action" /\ c.key.subj # None -> [c.key EXCEPT !.rev = rev]
    [] OTHER -> [c.key EXCEPT !.gate = graph.gate, !.work = graph.work, !.rev = rev]

\* Even between the swap of an amend and its event, where head and revision disagree.
Moment == 2 * swaps + (IF door = "swapped" THEN 0 ELSE 1)

Say(t, key, node, refire, then) ==
  call' = [call EXCEPT ![t] = [at |-> "begin", key |-> key, node |-> node, refire |-> refire,
                              then |-> then, since |-> Moment, got |-> None]]

Return(t, verdict) ==
  /\ call' = [call EXCEPT ![t] = Idle]
  /\ IF t = Main THEN pc' = call[t].then /\ heard' = verdict ELSE UNCHANGED <<pc, heard>>

At(t, at) == pc # "off" /\ call[t].at = at
Goes(t, to) == call' = [call EXCEPT ![t].at = to] /\ UNCHANGED <<pc, heard>>

\* A straggler wake inside the window of the one before it only leaves a mark.
Coalesced(c) == c.key.event = "stragglers" /\ ~ c.refire /\ marker.window = "open"

Begin(t) ==
  LET c == call[t] IN
  /\ At(t, "begin")
  /\ IF Coalesced(c)
     THEN /\ Return(t, "coalesced")
          /\ marker' = [marker EXCEPT !.pending = TRUE, !.node = c.key.subj, !.n = c.key.n]
     ELSE /\ Goes(t, IF scene.mirror THEN "mirror" ELSE "judge")
          /\ marker' = IF c.key.event # "stragglers" THEN marker
                       ELSE [window |-> "open", pending |-> FALSE, node |-> c.key.subj, n |-> c.key.n]
  /\ UNCHANGED <<scene, disk, door, mine, exit, records, parking, cohort, ledger, mirrored, told, crashes, kills>>

\* The operator's endpoint has the instance already, takes it, or fails.
Mirror(t) ==
  /\ At(t, "mirror") /\ Goes(t, "judge")
  /\ mirrored' \in {mirrored, mirrored \cup {Identity(call[t])}}
  /\ UNCHANGED <<scene, disk, door, mine, exit, records, parking, cohort, marker, ledger, told, crashes, kills>>

\* Why an instance must not reach the owner: of a node it names, or of the result.
Muted(c) ==
  \/ c.key.event = "done" /\ scene.silent /\ result = [verdict |-> "done", of |-> mine.graph]
  \/ c.key.event \in {"held", "stragglers"} /\ c.node # None
     /\ scene.tier[c.node] \in (IF c.key.event = "held" THEN {"silent"} ELSE {"quiet", "silent"})

Row(id, delivered) == [id |-> id, delivered |-> delivered]

Judge(t) ==
  LET c == call[t] IN
  /\ At(t, "judge")
  /\ \/ /\ scene.owner = "null" /\ Return(t, "skipped") /\ UNCHANGED ledger
     \/ /\ scene.owner # "null" /\ Settled(Identity(c)) /\ Return(t, "delivered") /\ UNCHANGED ledger
     \/ /\ scene.owner # "null" /\ ~ Settled(Identity(c)) /\ Muted(c)
        /\ Return(t, "skipped") /\ ledger' = ledger \cup {Row(Identity(c), "muted")}
     \/ /\ scene.owner # "null" /\ ~ Settled(Identity(c)) /\ ~ Muted(c)
        /\ call' = [call EXCEPT ![t] = [c EXCEPT !.at = "post", !.key = Identity(c), !.since = IF c.key.event = "action" THEN c.since ELSE Moment]]
        /\ UNCHANGED <<ledger, pc, heard>>
  /\ UNCHANGED <<scene, disk, door, mine, exit, records, parking, cohort, marker, mirrored, told, crashes, kills>>

\* The native gateway first when the owner is local; it hands on to HTTP only if it
\* is absent, before it has asked for anything. No endpoint at all: nowhere.
Transports == IF scene.owner = "local" THEN {"native", "http"} ELSE {"http"}
Outcomes(via) == IF via = "native" THEN scene.wire \ {"nowhere"} ELSE scene.wire

\* The turn is taken once for each key, though its answer may come too late.
Post(t) ==
  /\ At(t, "post")
  /\ \E via \in Transports : \E o \in Outcomes(via) :
       /\ call' = [call EXCEPT ![t] = [@ EXCEPT !.at = "record", !.got = o]]
       /\ told' = IF o \in {"turn", "late"}
                  THEN told \cup {[id |-> call[t].key, via |-> via, since |-> call[t].since, of |-> mine.graph]}
                  ELSE told
  /\ UNCHANGED <<scene, disk, door, pc, mine, exit, records, parking, cohort, marker, ledger, mirrored, heard, crashes, kills>>

Record(t) ==
  LET delivered == CASE call[t].got = "turn" -> "true" [] call[t].got = "nowhere" -> "null" [] OTHER -> "false"
  IN
  /\ At(t, "record")
  /\ ledger' = ledger \cup {Row(call[t].key, delivered)}
  /\ Return(t, CASE delivered = "true" -> "delivered" [] delivered = "false" -> "undelivered" [] OTHER -> None)
  /\ UNCHANGED <<scene, disk, door, mine, exit, records, parking, cohort, marker, mirrored, told, crashes, kills>>

-----------------------------------------------------------------------------
\* The main loop.

Free(t) == call[t] = Idle
Ready(at) == pc = at /\ Free(Main)
Failing == dead = mine.graph.gate \/ result = [verdict |-> "failed", of |-> mine.graph]
Finished == result = [verdict |-> "done", of |-> mine.graph]
GateOpen == scene.gate = "none" \/ answer = mine.graph.gate
Due == marker.pending /\ marker.window = "shut"

\* Only a failure that the graph on disk still vouches for is announced, under its head.
FailedOn(g) == dead = g.gate \/ result = [verdict |-> "failed", of |-> g]
Observe(then) ==
  IF FailedOn(graph)
  THEN Say(Main, [Name("action", IF dead = graph.gate THEN "gate" ELSE "work", graph.gate, 0) EXCEPT !.work = graph.work],
           None, FALSE, then) /\ UNCHANGED pc
  ELSE pc' = then /\ UNCHANGED call

Refire(then) == Say(Main, Name("stragglers", marker.node, None, marker.n), None, TRUE, then)

Reload ==
  /\ pc \in {"loop", "leave", "parked", "blocked"} /\ Free(Main) /\ restart
  /\ restart' = FALSE /\ mine' = [graph |-> graph, nth |-> swaps] /\ pc' = "loop"
  /\ UNCHANGED <<scene, graph, swaps, rev, door, exit, records, parking, cohort, wakes, call, heard, crashes, kills>>

\* One pass: wakes that are due, then failures, the wave, the gate, the work, the end.
Pass ==
  /\ Ready("loop") /\ ~ restart
  /\ \/ Due /\ Refire("loop") /\ UNCHANGED pc
     \/ ~ Due /\ Failing /\ Observe("failing")
     \/ ~ Due /\ ~ Failing /\ ~ waved /\ pc' = "wave" /\ UNCHANGED call
     \/ ~ Due /\ ~ Failing /\ waved /\ ~ GateOpen /\ pc' = "gate" /\ UNCHANGED call
     \/ ~ Due /\ ~ Failing /\ waved /\ GateOpen /\ pc' = (IF Finished THEN "flush" ELSE "work") /\ UNCHANGED call
  /\ UNCHANGED <<scene, disk, door, mine, exit, records, parking, cohort, wakes, heard, crashes, kills>>

\* The census of a fan-out fires once for each state of its cohort.
Straggle(f) ==
  /\ pc = "wave" /\ Free(f) /\ cohort[f] < scene.cohorts
  /\ cohort' = [cohort EXCEPT ![f] = @ + 1]
  /\ Say(f, Name("stragglers", f, None, cohort[f] + 1), f, FALSE, None)
  /\ UNCHANGED <<scene, disk, door, pc, mine, exit, records, parking, wakes, heard, crashes, kills>>

WaveEnds ==
  /\ pc = "wave" /\ \A f \in scene.fans : Free(f)
  /\ waved' = TRUE /\ pc' = "loop"
  /\ UNCHANGED <<scene, disk, door, mine, exit, answer, dead, result, parking, cohort, wakes, call, heard, crashes, kills>>

Work ==
  /\ Ready("work")
  /\ \E v \in scene.verdicts : result' = [verdict |-> v, of |-> mine.graph]
  /\ pc' = "commit"
  /\ UNCHANGED <<scene, disk, door, mine, exit, answer, dead, waved, parking, cohort, wakes, call, heard, crashes, kills>>

\* save_node announces a failure as it commits it.
Commit ==
  /\ Ready("commit")
  /\ IF Failing THEN Observe("loop") ELSE pc' = "loop" /\ UNCHANGED call
  /\ UNCHANGED <<scene, disk, door, mine, exit, records, parking, cohort, wakes, heard, crashes, kills>>

Ends(reason) == exit' = reason /\ pc' = "off"

Fail ==
  /\ \/ Ready("failing") /\ Say(Main, Name("failed", None, None, 0), None, FALSE, "blocked") /\ UNCHANGED <<pc, exit>>
     \/ Ready("blocked") /\ ~ restart /\ Ends("failed") /\ UNCHANGED call
  /\ UNCHANGED <<scene, disk, door, mine, records, parking, cohort, wakes, heard, crashes, kills>>

\* finalize: what a burst still owes, then run.done; nothing is read after it.
Finalize ==
  /\ \/ Ready("flush") /\ marker.pending /\ Refire("flush") /\ UNCHANGED <<pc, exit>>
     \/ Ready("flush") /\ ~ marker.pending /\ Say(Main, Name("done", None, None, 0), None, FALSE, "finished") /\ UNCHANGED <<pc, exit>>
     \/ Ready("finished") /\ Ends("done") /\ UNCHANGED call
  /\ UNCHANGED <<scene, disk, door, mine, records, parking, cohort, wakes, heard, crashes, kills>>

\* An exception: the exit record, then the notice of this process's own generation.
Throw ==
  /\ \/ /\ Ready("loop") /\ crashes < scene.throws
        /\ crashes' = crashes + 1 /\ exit' = "crashed"
        /\ Say(Main, Name("failed", "crash", None, crashes + 1), None, FALSE, "gone") /\ UNCHANGED pc
     \/ Ready("gone") /\ pc' = "off" /\ UNCHANGED <<crashes, exit, call>>
  /\ UNCHANGED <<scene, disk, door, mine, records, parking, cohort, wakes, heard, kills>>

-----------------------------------------------------------------------------
\* The gate: announced and left, announced and kept, or watched by a machine.

Fresh == [NoHold EXCEPT !.def = mine.graph.gate]
Inherited == IF hold.def = mine.graph.gate THEN hold ELSE Fresh

\* Mutation: a runner that parks again starts a clock of its own.
FreshClock(h) == age' = 0
Ageing(h) == age' = IF h = mine.graph.gate THEN age ELSE 0

\* One tick of the park watchdog; a verdict stands.
Tick(w, failed, old) ==
  LET strikes == IF failed THEN w.strikes + 1 ELSE 0 IN
  IF w.settled # None THEN w
  ELSE [w EXCEPT !.strikes = strikes,
                 !.settled = IF strikes >= StrikesMax THEN "strikes" ELSE IF old THEN "timebox" ELSE None]

\* The hold of a gate with hold_timeout is on disk before its wake; a probe or a timer
\* starts a deadline of its own, and only the probe has a watchdog.
Gate ==
  /\ Ready("gate")
  /\ \/ /\ scene.gate \in {"exit", "park"}
        /\ Say(Main, Name("held", "gate", mine.graph.gate, 0), "gate", FALSE, "hold")
        /\ IF scene.gate = "park" THEN watch' = Inherited /\ hold' = watch' /\ Ageing(hold.def)
           ELSE watch' = hold /\ UNCHANGED <<hold, age>>
        /\ UNCHANGED <<pc, clock>>
     \/ /\ scene.gate = "check" /\ pc' = "parked" /\ clock' = 0
        /\ Ageing(hold.def)
        /\ watch' = Tick([Inherited EXCEPT !.settled = None], FALSE, age' = 2) /\ hold' = watch'
        /\ UNCHANGED call
     \/ /\ scene.gate = "timer" /\ pc' = "parked" /\ clock' = 0 /\ UNCHANGED <<hold, age, watch, call>>
  /\ UNCHANGED <<scene, disk, door, mine, exit, records, cohort, wakes, heard, crashes, kills>>

\* An undelivered wake is a strike, and so is one that was not sent.
Hold ==
  /\ Ready("hold")
  /\ Ageing(watch.def)
  /\ watch' = Tick(IF watch.def = mine.graph.gate THEN watch ELSE Fresh, heard \in {"undelivered", "skipped"}, age' = 2)
  /\ hold' = watch'
  /\ IF watch'.settled # None THEN dead' = mine.graph.gate /\ pc' = "commit"
     ELSE UNCHANGED dead /\ pc' = IF scene.gate = "park" THEN "parked" ELSE "leave"
  /\ UNCHANGED <<scene, disk, door, mine, exit, answer, result, waved, clock, cohort, wakes, call, heard, crashes, kills>>

Answered == answer = mine.graph.gate

Leave ==
  /\ Ready("leave") /\ ~ restart
  /\ IF Answered THEN pc' = "loop" /\ UNCHANGED exit ELSE Ends("held")
  /\ UNCHANGED <<scene, disk, door, mine, records, parking, cohort, wakes, call, heard, crashes, kills>>

AnswerIt == answer' = mine.graph.gate /\ pc' = "loop" /\ UNCHANGED dead
FailIt == dead' = mine.graph.gate /\ pc' = "commit" /\ UNCHANGED answer

\* Mutation: an expired hold without a default is only announced.
HoldForever ==
  \/ age >= 1 /\ scene.dflt /\ AnswerIt /\ UNCHANGED <<watch, hold>>
  \/ /\ age >= 1 /\ ~ scene.dflt /\ ~ watch.expired /\ UNCHANGED <<answer, dead, pc>>
     /\ hold' = [watch EXCEPT !.expired = TRUE] /\ watch' = [hold' EXCEPT !.strikes = 0]

\* A poll of a hold: an answer, the default, the one alarm at expiry, the time-box.
PollHold ==
  \/ age >= 1 /\ scene.dflt /\ AnswerIt /\ UNCHANGED <<watch, hold>>
  \/ /\ age >= 1 /\ ~ scene.dflt /\ ~ watch.expired /\ UNCHANGED <<answer, dead, pc>>
     /\ hold' = [watch EXCEPT !.expired = TRUE] /\ watch' = [hold' EXCEPT !.strikes = 0]
  \/ /\ age = 2 /\ ~ scene.dflt /\ watch.expired /\ FailIt
     /\ watch' = Tick(watch, FALSE, TRUE) /\ hold' = watch'
  \/ age = 0 /\ watch.strikes > 0 /\ watch' = [watch EXCEPT !.strikes = 0] /\ UNCHANGED <<hold, answer, dead, pc>>

\* A poll of a probe: its deadline, a clean answer, one more round, a stale argv.
PollCheck ==
  \/ (clock = 2 \/ watch.settled # None) /\ FailIt /\ UNCHANGED <<watch, hold>>
  \/ clock < 2 /\ AnswerIt /\ watch' = NoHold /\ hold' = NoHold
  \/ clock < 2 /\ FailIt /\ UNCHANGED <<watch, hold>>
  \/ \E lost \in BOOLEAN : clock < 2 /\ watch' = Tick(watch, lost, age = 2) /\ hold' = watch' /\ watch' # watch
        /\ UNCHANGED <<answer, pc, dead>>

PollTimer ==
  \/ clock = 2 /\ FailIt /\ UNCHANGED <<watch, hold>>
  \/ clock = 1 /\ AnswerIt /\ UNCHANGED <<watch, hold>>

Poll ==
  /\ Ready("parked") /\ ~ restart
  /\ \/ Answered /\ pc' = "loop" /\ UNCHANGED <<answer, dead, watch, hold>>
     \/ ~ Answered /\ scene.gate = "park" /\ PollHold
     \/ ~ Answered /\ scene.gate = "check" /\ PollCheck
     \/ ~ Answered /\ scene.gate = "timer" /\ PollTimer
  /\ UNCHANGED <<scene, disk, door, mine, exit, result, waved, age, clock, cohort, wakes, call, heard, crashes, kills>>

-----------------------------------------------------------------------------
\* Time, the owner's doors, and death.

Elapse ==
  /\ \/ marker.window = "open" /\ marker' = [marker EXCEPT !.window = "shut"] /\ UNCHANGED <<age, clock>>
     \/ hold.def # None /\ ~ Answered /\ age < 2 /\ age' = age + 1 /\ UNCHANGED <<marker, clock>>
     \/ pc = "parked" /\ clock < 2 /\ scene.gate \in {"check", "timer"} /\ clock' = clock + 1 /\ UNCHANGED <<marker, age>>
  /\ UNCHANGED <<scene, disk, door, pc, mine, exit, records, hold, watch, cohort, ledger, mirrored, told, call, heard, crashes, kills>>

\* An amend replaces graph.json, logs graph.amended and asks for a reload, in this order.
Amend ==
  /\ \/ /\ door = "idle" /\ swaps < scene.amends /\ door' = "swapped"
        /\ graph' \in scene.graphs /\ swaps' = swaps + 1 /\ UNCHANGED <<rev, restart>>
     \/ door = "swapped" /\ door' = "logged" /\ rev' = rev + 1 /\ UNCHANGED <<graph, swaps, restart>>
     \/ door = "logged" /\ door' = "idle" /\ restart' = TRUE /\ UNCHANGED <<graph, swaps, rev>>
     \/ door # "idle" /\ scene.frail /\ door' = "idle" /\ UNCHANGED disk
  /\ UNCHANGED <<scene, pc, mine, exit, records, parking, cohort, wakes, call, heard, crashes, kills>>

Release ==
  /\ scene.answers /\ answer # graph.gate /\ (pc \in {"leave", "parked"} \/ (pc = "off" /\ exit = "held"))
  /\ answer' = graph.gate
  /\ UNCHANGED <<scene, disk, door, pc, mine, exit, dead, result, waved, parking, cohort, wakes, call, heard, crashes, kills>>

Kill ==
  /\ pc # "off" /\ kills < scene.kills /\ kills' = kills + 1 /\ pc' = "off" /\ call' = [t \in DOMAIN call |-> Idle]
  /\ heard' = None /\ watch' = NoHold /\ clock' = 0
  /\ UNCHANGED <<scene, disk, door, mine, exit, records, hold, age, cohort, wakes, crashes>>

\* A wait revives a runner that died without a word, an amend or an answer any other.
Revive ==
  /\ pc = "off" /\ (exit = None \/ restart \/ (exit = "held" /\ answer = graph.gate))
  /\ pc' = "loop" /\ exit' = None /\ mine' = [graph |-> graph, nth |-> swaps]
  /\ UNCHANGED <<scene, disk, door, records, parking, cohort, wakes, call, heard, crashes, kills>>

\* Everything is said and nobody is about to ask.
Rest == pc = "off" /\ ~ ENABLED Revive /\ door = "idle" /\ UNCHANGED vars

Tells(t) == Begin(t) \/ Mirror(t) \/ Judge(t) \/ Post(t) \/ Record(t)
Runs == Reload \/ Pass \/ WaveEnds \/ Work \/ Commit \/ Fail \/ Finalize \/ Throw \/ Gate \/ Hold \/ Leave

Next ==
  \/ \E t \in DOMAIN call : Tells(t)
  \/ \E f \in scene.fans : Straggle(f)
  \/ Runs \/ Poll \/ Elapse \/ Amend \/ Release \/ Kill \/ Revive \/ Rest

\* A thread of a live runner moves, time passes, an interrupted run is revived.
Fairness ==
  /\ WF_vars(Runs) /\ WF_vars(Poll) /\ WF_vars(Revive) /\ WF_vars(Elapse)
  /\ \A t \in UNION {sc.fans : sc \in Scenes} \cup {Main} : WF_vars(t \in DOMAIN call /\ Tells(t))

Spec == Init /\ [][Next]_vars /\ Fairness

-----------------------------------------------------------------------------

\* A run that exits held has told its owner so since the last amend that was logged, unless its
\* gate is silent, when every post succeeds: a gate that comes back to an older definition is news again
\* (wf.py:1270 "A->B->A: the third hold lives at a rev the first hold never saw").
HoldIsTold ==
  pc = "off" /\ exit = "held" /\ door = "idle" /\ ~ restart /\ rev = swaps /\ mine.nth = swaps
  /\ scene.owner # "null" /\ scene.wire = {"turn"} /\ scene.tier["gate"] # "silent" /\ ~ scene.frail =>
    \E x \in told : x.id.event = "held" /\ x.id.gate = mine.graph.gate /\ x.since >= 2 * swaps

\* What a transition is, whatever id it travels under.
Same(x, y) ==
  /\ x.id.event = y.id.event /\ x.id.subj = y.id.subj /\ x.id.gate = y.id.gate /\ x.id.work = y.id.work
  /\ x.id.n = y.id.n /\ x.since = y.since /\ x.since % 2 = 1

\* One decision reaches the owner under one id, over retries, respawns and kills between the
\* post and its row, so the endpoint can tell the copies (wf.py:1635-1660); only an
\* amend between its swap and its event may let the same graph be told twice.
OneIdEach == \A x, y \in told : Same(x, y) => x.id = y.id

\* Nothing of a burst is left behind a run.done (wf.py:11373-11378).
BurstLands == pc = "finished" /\ Free(Main) => ~ marker.pending

\* Strikes settle a gate only if the last wake of its hold did not land.
SettlesOnSilence ==
  hold.settled = None /\ hold'.settled = "strikes" /\ scene.gate # "check" =>
    ~ \E r \in ledger : r.id = Name("held", "gate", mine.graph.gate, 0) /\ r.delivered \in {"true", "null"}

\* A restart does not buy a park a fresh clock (wf.py:9986).
ClockGoesOn == hold.def # None /\ hold'.def = hold.def => age' >= age

\* Every verdict that a runner ends with was told as one of the graph it ran (wf.py:1641
\* "every genuinely new decision ... FAILED->DONE->FAILED->DONE ... mints a fresh one").
VerdictIsTold ==
  pc = "off" /\ exit \in {"failed", "done"} /\ scene.owner # "null" /\ scene.wire = {"turn"} /\ ~ scene.silent =>
    \E x \in told : x.id.event = exit /\ x.of = mine.graph
=============================================================================
