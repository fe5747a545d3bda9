-------------------------------- MODULE FanOut --------------------------------
(***************************************************************************)
(* One fan-out node: its wave of items, the quorum that cancels the rest,   *)
(* the batches that feed the finished items to a consolidating partner, and *)
(* the two records at the end.  The verdict of an attempt comes from the    *)
(* ladders of RetryLadder; here it is what the wave does with it.           *)
(*                                                                         *)
(* Records on disk and child processes outlive a runner, the wave does not. *)
(***************************************************************************)
EXTENDS Naturals, FiniteSets, FiniteSetsExt

CONSTANTS
  Items,
  Defs       \* the definitions of the node, with what its run may meet

\* items: those its fan-out resolves to; quorum 0: none is declared; drains: quorum_drain_s; width: item_concurrency; batch:
\* that of the partner; probes: precheck_argv; faulty: items whose record the disk may
\* refuse; halts and caps: the run may be stopped, may reach its token cap; says: what
\* the agents may end with. redrives bounds the launches of one item by one runner,
\* restarts the runners that take over.
Says == {"done", "partial", "failed", "forbidden"}
DefSet == [items : SUBSET Items, quorum : Nat, drains : BOOLEAN, width : Nat \ {0}, batch : Nat \ {0}, probes : BOOLEAN,
           faulty : SUBSET Items, halts : BOOLEAN, caps : BOOLEAN,
           says : SUBSET Says, redrives : Nat, restarts : Nat]

ASSUME FanOutConstants == IsFiniteSet(Items) /\ Defs \subseteq DefSet

VARIABLES
  def,       \* the definition that this run has
  wave,      \* the driving of the node: idle, open, closed
  at,        \* where each item is: queued, ready, agent, judged, landed, told
  res,       \* results[i]: the answer of the item
  adopted,   \* items that attached to a child of a dead runner
  disk,      \* nodes/<node>.<i>.json: none, running, retired, or the answer
  child,     \* items whose agent process is alive
  tries,     \* launches of the item by this runner
  cancel,    \* fo_cancel
  drain,     \* the drain timer: off, armed, fired
  pending, flying, finals, next, \* the cell: held items, batches under way, batches answered
  node, partner, abort,          \* the records of the node and its partner, abort.json
  stop, capped, up, restarts

item == <<at, res, adopted, disk, child, tries>>
cell == <<pending, flying, finals, next>>
records == <<node, partner, abort>>
run == <<def, stop, capped, up, restarts>>
vars == <<wave, item, cancel, drain, cell, records, run>>

None == "none"
NoNode == [status |-> None, items |-> {}]
NoPartner == [status |-> None, missing |-> {}]
Answered == {"done", "partial"}
Cancelled == {"stopped", "cancelled"} \* one class, by a stop or by the quorum
Halted == stop \/ cancel

With(f, i, v) == [f EXCEPT ![i] = v]
Now(i, to, v) == at' = With(at, i, to) /\ res' = With(res, i, v)
Having(S) == {i \in def.items : res[i] \in S}
Open == {i \in def.items : at[i] \notin {"landed", "told"}}
CallOff == IF stop THEN "stopped" ELSE "cancelled"

FreshWave ==
  /\ at = [i \in def.items |-> "queued"] /\ res = [i \in def.items |-> None] /\ adopted = {}
  /\ tries = [i \in def.items |-> 0] /\ cancel = FALSE /\ drain = "off"
  /\ pending = {} /\ flying = {}

Init ==
  /\ def \in Defs /\ wave = "idle" /\ FreshWave
  /\ disk = [i \in def.items |-> None] /\ child = {} /\ finals = {} /\ next = 1
  /\ node = NoNode /\ partner = NoPartner /\ abort = FALSE
  /\ stop = FALSE /\ capped = FALSE /\ up = TRUE /\ restarts = 0

-----------------------------------------------------------------------------

Driving == up /\ wave = "open"

\* The inputs of the node resolve to items, to none, or not at all.
Start ==
  /\ up /\ wave = "idle" /\ node.status \in {None, "cancelled"} /\ ~ stop
  /\ \/ wave' = "open" /\ UNCHANGED <<node, abort>>
     \/ wave' = "closed" /\ node' = [NoNode EXCEPT !.status = "inputs"] /\ UNCHANGED abort
     \/ wave' = "closed" /\ node' = [NoNode EXCEPT !.status = "fanout_empty"] /\ abort' \in {abort, TRUE}
  /\ UNCHANGED <<item, cancel, drain, cell, partner, run>>

\* A worker takes the next item; the custody precheck may find it stale.
Enter(i) ==
  /\ Driving /\ at[i] = "queued" /\ Cardinality(Open \ {j \in def.items : at[j] = "queued"}) < def.width
  /\ \/ Halted /\ Now(i, "landed", CallOff)
     \/ ~ Halted /\ Now(i, "ready", None)
     \/ ~ Halted /\ def.probes /\ Now(i, "landed", "skipped")
  /\ UNCHANGED <<wave, adopted, disk, child, tries, cancel, drain, cell, records, run>>

Adoptable(i) == disk[i] = "running" /\ i \in child

\* Mutation: an item that waits for its seat does not hear of the quorum.
Deaf(i) ==
  /\ Driving /\ at[i] = "ready" /\ ~ Halted /\ ~ capped /\ Now(i, "agent", None)
  /\ disk' = With(disk, i, "running") /\ child' = child \cup {i} /\ tries' = With(tries, i, tries[i] + 1)
  /\ UNCHANGED <<wave, adopted, cancel, drain, cell, records, run>>

\* A launch, unless the run is halted or over its cap.
Launch(i) ==
  /\ Driving /\ at[i] = "ready"
  /\ \/ /\ Halted /\ Now(i, "judged", CallOff)
        /\ UNCHANGED <<adopted, disk, child, tries>>
     \/ /\ ~ Halted /\ Adoptable(i) /\ Now(i, "agent", None)
        /\ adopted' = adopted \cup {i}
        /\ UNCHANGED <<disk, child, tries>>
     \/ /\ ~ Halted /\ ~ Adoptable(i) /\ capped /\ Now(i, "judged", "refused")
        /\ UNCHANGED <<adopted, disk, child, tries>>
     \/ /\ ~ Halted /\ ~ Adoptable(i) /\ ~ capped /\ Now(i, "agent", None)
        /\ disk' = With(disk, i, "running") /\ child' = child \cup {i}
        /\ tries' = With(tries, i, tries[i] + 1)
        /\ UNCHANGED adopted
  /\ UNCHANGED <<wave, cancel, drain, cell, records, run>>

\* The child is gone; the record of an adopted one is retired before the commit.
AgentEnds(i) ==
  /\ Driving /\ at[i] = "agent"
  /\ \E v \in def.says : Now(i, "judged", v)
  /\ child' = child \ {i}
  /\ disk' = IF i \in adopted THEN With(disk, i, "retired") ELSE disk
  /\ UNCHANGED <<wave, adopted, tries, cancel, drain, cell, records, run>>

\* A child that a dead runner left ends with nobody watching.
OrphanEnds(i) ==
  /\ i \in child /\ ~ (Driving /\ at[i] = "agent")
  /\ child' = child \ {i}
  /\ UNCHANGED <<wave, at, res, adopted, disk, tries, cancel, drain, cell, records, run>>

\* A ladder launches the item again.
Redrive(i) ==
  /\ Driving /\ at[i] = "judged" /\ res[i] = "failed" /\ ~ Halted /\ ~ capped /\ tries[i] < def.redrives
  /\ Now(i, "agent", None)
  /\ adopted' = adopted \ {i}
  /\ disk' = With(disk, i, "running") /\ child' = child \cup {i}
  /\ tries' = With(tries, i, tries[i] + 1)
  /\ UNCHANGED <<wave, cancel, drain, cell, records, run>>

-----------------------------------------------------------------------------
(* The quorum.                                                             *)

Racing(S) == {i \in S : at[i] = "agent"}

\* Under the lock of the processes: what launches later sees the event, what was
\* launched before is killed.
Kill(S, a, v, why) ==
  /\ at' = [i \in def.items |-> IF i \in S THEN "judged" ELSE a[i]]
  /\ res' = [i \in def.items |-> IF i \in S THEN why ELSE v[i]]
  /\ child' = child \ S
  /\ disk' = [i \in def.items |-> IF i \in S \cap adopted THEN "retired" ELSE disk[i]]

Reached(i) == def.quorum > 0 /\ res[i] = "done" /\ Open # {i}
              /\ Cardinality({j \in Having({"done"}) : at[j] # "judged"}) + 1 >= def.quorum

\* The result of an item enters the wave, and with it perhaps the quorum.
Land(i) ==
  /\ Driving /\ at[i] = "judged"
  /\ LET a == With(at, i, "landed") IN
     IF Reached(i) /\ ~ def.drains
       THEN cancel' = TRUE /\ Kill(Racing(def.items), a, res, "cancelled") /\ UNCHANGED drain
       ELSE /\ at' = a /\ UNCHANGED <<res, child, disk, cancel>>
            /\ drain' = IF Reached(i) /\ drain = "off" THEN "armed" ELSE drain
  /\ UNCHANGED <<wave, adopted, tries, cell, records, run>>

\* The timer leaves a wave alone whose items have all landed.
DrainEnds ==
  /\ Driving /\ drain = "armed"
  /\ drain' = "fired"
  /\ IF Open = {} THEN UNCHANGED <<at, res, child, disk, cancel>>
     ELSE cancel' = TRUE /\ Kill(Racing(def.items), at, res, "cancelled")
  /\ UNCHANGED <<wave, adopted, tries, cell, records, run>>

-----------------------------------------------------------------------------
(* What a landed item starts: its record and the cell.                     *)

\* A batch that is full goes to the pool.
Dispatch(held, full) ==
  IF held # {} /\ Cardinality(held) >= full
    THEN /\ pending' = {} /\ next' = next + 1
         /\ flying' = flying \cup {[no |-> next, items |-> held]}
    ELSE pending' = held /\ UNCHANGED <<flying, next>>

\* The record is written before the event; a disk that refuses it is only logged.
Tell(i) ==
  /\ Driving /\ at[i] = "landed"
  /\ at' = With(at, i, "told")
  /\ disk' \in {With(disk, i, res[i])} \cup (IF i \in def.faulty THEN {disk} ELSE {})
  /\ IF res[i] \in Answered THEN Dispatch(pending \cup {i}, def.batch) ELSE UNCHANGED <<pending, flying, next>>
  /\ UNCHANGED <<wave, res, adopted, child, tries, cancel, drain, finals, records, run>>

Final(b, n, v) == [no |-> b.no, items |-> b.items, launched |-> n, status |-> v]

\* Two workers launch the batches. A batch that died at work is to be launched
\* again, but its launcher takes no arguments and the worker crashes instead.
BatchEnds(b) ==
  /\ up /\ b \in flying /\ Cardinality({o \in flying : o.no < b.no}) < 2
  /\ flying' = flying \ {b}
  /\ \E f \in IF stop THEN {Final(b, 0, "cancelled")}
             ELSE {Final(b, 1, v) : v \in {"done", "failed", "crashed"}} :
       finals' = finals \cup {f}
  /\ UNCHANGED <<wave, item, cancel, drain, pending, next, records, run>>

\* Mutation: a batch that is not full stays where it is.
KeepTail ==
  /\ Driving /\ \A i \in def.items : at[i] = "told"
  /\ wave' = "drained" /\ Dispatch(pending, def.batch)
  /\ UNCHANGED <<item, cancel, drain, finals, records, run>>

\* The wave is over: the open batch leaves whatever its size.
Flush ==
  /\ Driving /\ \A i \in def.items : at[i] = "told"
  /\ wave' = "drained" /\ Dispatch(pending, 1)
  /\ UNCHANGED <<item, cancel, drain, finals, records, run>>

-----------------------------------------------------------------------------
(* The records.                                                            *)

Merged == Having(Answered)
Gone == Having(Cancelled)

\* What was cancelled or stale lowers the bar.
Bar ==
  LET live == Cardinality(def.items) - Cardinality(Gone) - Cardinality(Having({"skipped"}))
      asked == IF def.quorum > 0 THEN def.quorum ELSE Cardinality(def.items) \div 2 + 1
  IN  IF asked < live THEN asked ELSE live

\* Mutation: the answers in memory are enough.
Trusted == TRUE

\* Each item is a fact on disk, and an answer is the one on disk.
Certified ==
  \A i \in def.items :
    /\ disk[i] \notin {None, "running"} /\ (disk[i] = "retired" => i \in adopted)
    /\ i \in Merged => disk[i] = res[i]

Verdict ==
  CASE Gone = def.items -> "cancelled"
    [] Having({"forbidden"}) # {} -> "forbidden"
    [] Having({"refused"}) # {} -> IF Merged = {} THEN "refused" ELSE "partial"
    [] Cardinality(Merged) < Bar -> "quorum"
    [] OTHER -> IF Certified THEN "done" ELSE "item_record"

\* The gates of the commit edge may refuse what is claimed.
Aggregate ==
  /\ up /\ wave = "drained" /\ flying = {}
  /\ wave' = "closed"
  /\ \E v \in {Verdict} \cup (IF Verdict \in {"done", "partial"} THEN {"unproven"} ELSE {}) :
       node' = [status |-> v, items |-> Merged]
  /\ UNCHANGED <<item, cancel, drain, cell, partner, abort, run>>

\* The partner answers for every item, or names it missing.
Tally ==
  /\ up /\ ~ stop /\ partner = NoPartner /\ node.status \notin {None, "cancelled"}
  /\ partner' = IF node.status \in {"done", "partial"}
       THEN [status |-> "done", missing |-> def.items \ UNION {f.items : f \in {g \in finals : g.status = "done"}}]
       ELSE [status |-> "failed", missing |-> {}]
  /\ UNCHANGED <<wave, item, cancel, drain, cell, node, abort, run>>

-----------------------------------------------------------------------------

RequestStop ==
  /\ def.halts /\ up /\ ~ stop /\ partner = NoPartner
  /\ stop' = TRUE
  /\ Kill(Racing(def.items), at, res, "stopped")
  /\ UNCHANGED <<wave, adopted, tries, cancel, drain, cell, records, def, capped, up, restarts>>

\* The metered tokens of the run reach its cap.
ReachCap ==
  /\ def.caps /\ ~ capped /\ \E i \in def.items : tries[i] > 0
  /\ capped' = TRUE
  /\ UNCHANGED <<wave, item, cancel, drain, cell, records, def, stop, up, restarts>>

\* The runner dies, or a stopped one exits; its children live on.
Leave ==
  /\ up /\ restarts < def.restarts /\ partner = NoPartner
  /\ up' = FALSE /\ wave' = "idle"
  /\ at' = [i \in def.items |-> "queued"] /\ res' = [i \in def.items |-> None] /\ adopted' = {}
  /\ tries' = [i \in def.items |-> 0] /\ cancel' = FALSE /\ drain' = "off" /\ pending' = {} /\ flying' = {}
  /\ UNCHANGED <<disk, child, finals, next, records, def, stop, capped, restarts>>

\* The owner resumes: the stop is withdrawn, the batches keep their numbers.
Boot ==
  /\ ~ up
  /\ up' = TRUE /\ stop' = FALSE /\ restarts' = restarts + 1
  /\ next' = 1 + Max({0} \cup {f.no : f \in finals})
  /\ UNCHANGED <<wave, item, cancel, drain, pending, flying, finals, records, def, capped>>

Thread(i) == Enter(i) \/ Launch(i) \/ AgentEnds(i) \/ Redrive(i) \/ Land(i) \/ Tell(i)
Ending == Flush \/ Aggregate \/ Tally \/ DrainEnds \/ \E b \in flying : BatchEnds(b)

Next == \/ Start \/ Ending \/ RequestStop \/ ReachCap \/ Leave \/ Boot
        \/ \E i \in def.items : Thread(i) \/ OrphanEnds(i)

\* The pools and the timer run on; a gone runner is respawned by the next door call.
FairFan == WF_vars(Start) /\ WF_vars(Ending) /\ WF_vars(Boot) /\ \A i \in Items : WF_vars(i \in def.items /\ Thread(i))

Spec == Init /\ [][Next]_vars /\ FairFan

-----------------------------------------------------------------------------

\* The node is done over answers only that are committed facts on disk, whatever
\* the disk refused and whoever launched the agent.
AggregateBacked == node.status = "done" => \A i \in node.items : disk[i] \in Answered

\* Nobody is cancelled by a quorum that is not there.
QuorumIsReal == cancel => Cardinality({i \in Having({"done"}) : at[i] # "judged"}) >= def.quorum

\* The node stands on committed answers, and is cut short by a quorum of them only.
QuorumBacked == AggregateBacked /\ QuorumIsReal

\* An item the node counts as answered went to a batch, full or not, before the
\* partner answers for the wave: what the partner names missing died in a batch.
NothingUnbatched ==
  partner.status = "done" => \A i \in node.items : \E f \in finals : i \in f.items

\* The node and its partner get their records, if no stop stands.
FanSettles == <>[](partner # NoPartner \/ stop)

\* README.md:78: cancelled work re-drives on resume. An item that a stop cancelled is
\* not settled with the answers of its siblings.
StoppedWorkWaits == node.status = "done" => Having({"stopped"}) = {}

\* references/grammar.md:85: a batch is re-driven under the bounded cap of its carrier.
BatchesAreRedriven == \A f \in finals : f.status = "crashed" => f.launched > 1
=============================================================================
