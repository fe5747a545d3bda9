------------------------------ MODULE FanOutProofs ------------------------------
(***************************************************************************)
(* For any items and any definitions of the node, whatever its agents end   *)
(* with, the disk refuses, and stops, caps and dead runners cut short: a    *)
(* node that is done stands on committed answers, nobody is cancelled by a  *)
(* quorum that is not there, and no answer is left out of the batches.      *)
(***************************************************************************)
EXTENDS FanOut, FiniteSetTheorems, TLAPS

Stages == {"queued", "ready", "agent", "judged", "landed", "told"}
Results == Says \cup Cancelled \cup {None, "skipped", "refused"}
Records == Results \cup {"running", "retired"}
Statuses == Says \cup {None, "cancelled", "inputs", "fanout_empty", "refused", "quorum", "item_record", "unproven"}

FanTypes ==
  /\ def \in DefSet
  /\ wave \in {"idle", "open", "drained", "closed"}
  /\ at \in [def.items -> Stages]
  /\ res \in [def.items -> Results] /\ disk \in [def.items -> Records]
  /\ cancel \in BOOLEAN /\ drain \in {"off", "armed", "fired"}
  /\ pending \in SUBSET def.items
  /\ node \in [status : Statuses, items : SUBSET def.items]

\* Out of an open wave no item has an agent, so nothing rewrites the records.
WaveShape ==
  /\ wave = "idle" => \A i \in def.items : at[i] = "queued"
  /\ wave = "drained" => pending = {} /\ \A i \in def.items : at[i] = "told"
  /\ wave = "closed" => \A i \in def.items : at[i] \in {"queued", "told"}
  /\ ~ up => wave = "idle"

\* An item has its result when its agent is judged, not before.
Unjudged == \A i \in def.items : at[i] \in {"queued", "ready", "agent"} => res[i] = None

Backers == {i \in def.items : res[i] = "done" /\ at[i] \in {"landed", "told"}}

\* Who set off the cancellation, or its timer, counted a quorum that stays.
Quorate == cancel \/ drain = "armed" => Cardinality(Backers) >= def.quorum

\* An answer that was told is held, under way or in a batch that was answered.
Carried(i) == i \in pending \/ \E b \in flying \cup finals : i \in b.items
ToldCarried == \A i \in def.items : at[i] = "told" /\ res[i] \in Answered => Carried(i)
NodeCarried == \A i \in node.items : \E f \in finals : i \in f.items

\* A done node is not driven again, and its answers stay on disk.
DoneRests == node.status = "done" => wave \in {"closed", "idle"}

FanInv == /\ FanTypes /\ WaveShape /\ Unjudged /\ Quorate
          /\ ToldCarried /\ NodeCarried /\ DoneRests /\ AggregateBacked

-----------------------------------------------------------------------------

LEMMA FanInit == Init => FanInv
<1> SUFFICES ASSUME Init PROVE FanInv
  OBVIOUS
<1> USE DEF Init, FreshWave
<1>1. FanTypes
  BY FanOutConstants DEF FanTypes, Stages, NoNode, None, Results, Records, Statuses
<1>2. WaveShape /\ Unjudged /\ ToldCarried /\ NodeCarried /\ DoneRests /\ AggregateBacked
  BY DEF WaveShape, Unjudged, ToldCarried, NodeCarried, DoneRests, AggregateBacked, NoNode, None
<1>3. Quorate
  BY DEF Quorate
<1> QED
  BY <1>1, <1>2, <1>3 DEF FanInv

LEMMA KillTypes ==
  ASSUME FanTypes, NEW S, NEW a \in [def.items -> Stages], NEW why \in Cancelled, Kill(S, a, res, why)
  PROVE  /\ at' \in [def.items -> Stages]
         /\ res' \in [def.items -> Results] /\ disk' \in [def.items -> Records]
BY DEF FanTypes, Kill, Stages, Results, Records

LEMMA FanStepTypes == FanTypes /\ [Next]_vars => FanTypes'
<1> SUFFICES ASSUME FanTypes, [Next]_vars PROVE FanTypes'
  OBVIOUS
<1> USE DEF FanTypes, item, cell, records, run
<1>1. CASE Start
  BY <1>1 DEF Start, NoNode, None, Statuses
<1>2. ASSUME NEW i \in def.items, Enter(i) PROVE FanTypes'
  BY <1>2 DEF Enter, Now, With, Stages, CallOff, None, Results, Records, Cancelled
<1>3. ASSUME NEW i \in def.items, Launch(i) PROVE FanTypes'
  BY <1>3 DEF Launch, Now, With, Stages, CallOff, None, Results, Records, Cancelled
<1>4. ASSUME NEW i \in def.items, AgentEnds(i) PROVE FanTypes'
  BY <1>4 DEF AgentEnds, Now, With, Stages, DefSet, Results, Records
<1>5. ASSUME NEW i \in def.items, Redrive(i) PROVE FanTypes'
  BY <1>5 DEF Redrive, Now, With, Stages, None, Results, Records
<1>6. ASSUME NEW i \in def.items, Land(i) PROVE FanTypes'
  <2>1. With(at, i, "landed") \in [def.items -> Stages]
    BY DEF With, Stages
  <2>2. CASE Reached(i) /\ ~ def.drains
    BY <1>6, <2>1, <2>2, KillTypes DEF Land, Cancelled
  <2>3. CASE ~ (Reached(i) /\ ~ def.drains)
    BY <1>6, <2>1, <2>3 DEF Land
  <2> QED
    BY <2>2, <2>3
<1>7. ASSUME NEW i \in def.items, Tell(i) PROVE FanTypes'
  <2>1. disk' \in [def.items -> Records] /\ at' \in [def.items -> Stages]
    BY <1>7 DEF Tell, With, Stages, Records
  <2>2. pending' \in SUBSET def.items
    BY <1>7 DEF Tell, Dispatch
  <2> QED
    BY <1>7, <2>1, <2>2 DEF Tell
<1>8. CASE Flush
  BY <1>8 DEF Flush, Dispatch
<1>9. CASE Aggregate
  <2>1. Verdict \in Statuses
    BY DEF Verdict, Statuses, Says
  <2>2. Merged \in SUBSET def.items
    BY DEF Merged, Having
  <2> QED
    BY <1>9, <2>1, <2>2 DEF Aggregate, Statuses
<1>10. CASE DrainEnds
  BY <1>10, KillTypes DEF DrainEnds, Cancelled
<1>11. CASE RequestStop
  BY <1>11, KillTypes DEF RequestStop, Cancelled
<1>12. CASE Leave
  BY <1>12 DEF Leave, Stages, Results, None
<1>13. CASE Tally \/ ReachCap \/ Boot \/ (\E b \in flying : BatchEnds(b)) \/ (\E i \in def.items : OrphanEnds(i))
  BY <1>13 DEF Tally, ReachCap, Boot, BatchEnds, OrphanEnds
<1>14. CASE UNCHANGED vars
  BY <1>14 DEF vars
<1> QED
  BY <1>1, <1>2, <1>3, <1>4, <1>5, <1>6, <1>7, <1>8, <1>9, <1>10, <1>11, <1>12, <1>13, <1>14 DEF Next, Ending, Thread
\* What a kill does to an item: it is judged for its reason, if its agent was at work.
LEMMA Killed ==
  ASSUME FanTypes, NEW a \in [def.items -> Stages], NEW why \in Cancelled, Kill(Racing(def.items), a, res, why)
  PROVE  \A i \in def.items :
           IF at[i] = "agent" THEN at'[i] = "judged" /\ res'[i] = why
           ELSE at'[i] = a[i] /\ res'[i] = res[i] /\ disk'[i] = disk[i]
BY DEF FanTypes, Kill, Racing

LEMMA ShapeStep == FanInv /\ [Next]_vars => WaveShape' /\ Unjudged'
<1> SUFFICES ASSUME FanInv, [Next]_vars PROVE WaveShape' /\ Unjudged'
  OBVIOUS
<1> USE DEF FanInv, FanTypes, WaveShape, Unjudged, item, cell, records, run
<1>1. CASE Start
  BY <1>1 DEF Start
<1>2. ASSUME NEW i \in def.items, Enter(i) PROVE WaveShape' /\ Unjudged'
  BY <1>2 DEF Enter, Driving, Now, With
<1>3. ASSUME NEW i \in def.items, Launch(i) PROVE WaveShape' /\ Unjudged'
  BY <1>3 DEF Launch, Driving, Now, With
<1>4. ASSUME NEW i \in def.items, AgentEnds(i) PROVE WaveShape' /\ Unjudged'
  BY <1>4 DEF AgentEnds, Driving, Now, With
<1>5. ASSUME NEW i \in def.items, Redrive(i) PROVE WaveShape' /\ Unjudged'
  BY <1>5 DEF Redrive, Driving, Now, With
<1>6. ASSUME NEW i \in def.items, Land(i) PROVE WaveShape' /\ Unjudged'
  <2>1. With(at, i, "landed") \in [def.items -> Stages]
    BY DEF With, Stages
  <2>2. CASE Reached(i) /\ ~ def.drains
    BY <1>6, <2>1, <2>2, Killed DEF Land, Driving, With, Cancelled
  <2>3. CASE ~ (Reached(i) /\ ~ def.drains)
    BY <1>6, <2>1, <2>3 DEF Land, Driving, With
  <2> QED
    BY <2>2, <2>3
<1>7. ASSUME NEW i \in def.items, Tell(i) PROVE WaveShape' /\ Unjudged'
  BY <1>7 DEF Tell, Driving, With
<1>8. CASE Flush
  <2>1. pending' = {}
    BY <1>8, FanOutConstants, FS_Subset, FS_CardinalityType, FS_EmptySet DEF Flush, Dispatch, DefSet
  <2> QED
    BY <1>8, <2>1 DEF Flush, Driving
<1>9. CASE Aggregate
  BY <1>9 DEF Aggregate
<1>10. CASE DrainEnds
  BY <1>10, Killed DEF DrainEnds, Driving, Cancelled
<1>11. CASE RequestStop
  BY <1>11, Killed DEF RequestStop, Cancelled
<1>12. CASE Leave
  BY <1>12 DEF Leave, None
<1>13. CASE Tally \/ ReachCap \/ Boot \/ (\E b \in flying : BatchEnds(b)) \/ (\E i \in def.items : OrphanEnds(i))
  BY <1>13 DEF Tally, ReachCap, Boot, BatchEnds, OrphanEnds
<1>14. CASE UNCHANGED vars
  BY <1>14 DEF vars
<1> QED
  BY <1>1, <1>2, <1>3, <1>4, <1>5, <1>6, <1>7, <1>8, <1>9, <1>10, <1>11, <1>12, <1>13, <1>14 DEF Next, Ending, Thread

-----------------------------------------------------------------------------
(* The quorum.                                                             *)

LEMMA Counted ==
  ASSUME FanTypes, NEW S, S \subseteq def.items
  PROVE  /\ IsFiniteSet(S) /\ Cardinality(S) \in Nat
         /\ \A T \in SUBSET S : Cardinality(T) \in Nat /\ Cardinality(T) <= Cardinality(S)
BY FanOutConstants, FS_Subset, FS_CardinalityType DEF FanTypes, DefSet

\* Who has landed with an answer stays among the backers, until the runner leaves.
LEMMA BackersStay ==
  ASSUME FanInv, [Next]_vars, ~ Leave
  PROVE  Backers \subseteq Backers' /\ def' = def
<1> USE DEF FanInv, FanTypes, Backers, item, cell, records, run
<1>1. CASE Start
  BY <1>1 DEF Start
<1>2. ASSUME NEW i \in def.items, Enter(i) \/ Launch(i) \/ AgentEnds(i) \/ Redrive(i) \/ Tell(i) PROVE Backers \subseteq Backers' /\ def' = def
  BY <1>2 DEF Enter, Launch, AgentEnds, Redrive, Tell, Now, With
<1>3. ASSUME NEW i \in def.items, Land(i) PROVE Backers \subseteq Backers' /\ def' = def
  <2>1. With(at, i, "landed") \in [def.items -> Stages]
    BY DEF With, Stages
  <2>2. CASE Reached(i) /\ ~ def.drains
    BY <1>3, <2>1, <2>2, Killed DEF Land, With, Cancelled
  <2>3. CASE ~ (Reached(i) /\ ~ def.drains)
    BY <1>3, <2>1, <2>3 DEF Land, With
  <2> QED
    BY <2>2, <2>3
<1>4. CASE DrainEnds
  BY <1>4, Killed DEF DrainEnds, Cancelled
<1>5. CASE RequestStop
  BY <1>5, Killed DEF RequestStop, Cancelled
<1>6. CASE Flush \/ Aggregate \/ Tally \/ ReachCap \/ Boot \/ (\E b \in flying : BatchEnds(b)) \/ (\E i \in def.items : OrphanEnds(i))
  BY <1>6 DEF Flush, Aggregate, Tally, ReachCap, Boot, BatchEnds, OrphanEnds
<1>7. CASE UNCHANGED vars
  BY <1>7 DEF vars
<1> QED
  BY <1>1, <1>2, <1>3, <1>4, <1>5, <1>6, <1>7 DEF Next, Ending, Thread

\* The item that reaches the quorum makes its last member.
LEMMA QuorumLands ==
  ASSUME FanInv, NEW i \in def.items, Land(i), Reached(i), Backers \subseteq Backers'
  PROVE  Cardinality(Backers') >= def.quorum
<1>1. i \in Backers' /\ i \notin Backers
  <2>1. With(at, i, "landed") \in [def.items -> Stages]
    BY DEF With, Stages, FanInv, FanTypes
  <2> QED
    BY <2>1, Killed DEF FanInv, FanTypes, Land, Reached, Backers, With, Cancelled, item, run
<1>2. {j \in Having({"done"}) : at[j] # "judged"} = Backers
  BY DEF Having, Backers, FanInv, FanTypes, Unjudged, Stages, None
<1>3. Cardinality(Backers \cup {i}) = Cardinality(Backers) + 1
  BY <1>1, Counted, FS_AddElement DEF Backers, FanInv
<1>4. Cardinality(Backers \cup {i}) <= Cardinality(Backers') /\ Cardinality(Backers') \in Nat /\ Cardinality(Backers) \in Nat
  <2>1. Backers' \subseteq def.items /\ Backers \subseteq def.items
    BY DEF Backers, Land, run
  <2> QED
    BY <1>1, <2>1, Counted DEF FanInv
<1>5. Cardinality({j \in Having({"done"}) : at[j] # "judged"}) + 1 >= def.quorum
  BY DEF Reached
<1>6. Cardinality(Backers) + 1 >= def.quorum
  BY <1>2, <1>5
<1> QED
  BY <1>3, <1>4, <1>6 DEF FanInv, FanTypes, DefSet
LEMMA QuorateStep == FanInv /\ [Next]_vars => Quorate'
<1> SUFFICES ASSUME FanInv, [Next]_vars, (cancel \/ drain = "armed")' PROVE Cardinality(Backers') >= def'.quorum
  BY DEF Quorate
<1>1. ~ Leave
  BY DEF Leave
<1>2. Backers \subseteq Backers' /\ def' = def
  BY <1>1, BackersStay
<1>3. CASE cancel \/ drain = "armed"
  <2>1. Backers' \subseteq def.items
    BY <1>2 DEF Backers
  <2>2. Cardinality(Backers) <= Cardinality(Backers') /\ Cardinality(Backers) \in Nat /\ Cardinality(Backers') \in Nat
    BY <1>2, <2>1, Counted DEF FanInv
  <2> QED
    BY <1>2, <1>3, <2>2 DEF FanInv, FanTypes, DefSet, Quorate
<1>4. CASE ~ cancel /\ drain # "armed"
  <2>1. PICK i \in def.items : Land(i)
    <3>1. ~ DrainEnds
      BY <1>4 DEF DrainEnds
    <3>2. (\E i \in def.items : Land(i)) \/ UNCHANGED <<cancel, drain>>
      BY <1>1, <3>1 DEF Next, Thread, Ending, Start, Enter, Launch, AgentEnds, Redrive, Tell, BatchEnds, Flush, Aggregate, Tally, RequestStop, ReachCap, Boot, OrphanEnds, vars
    <3> QED
      BY <1>4, <3>2
  <2>2. Reached(i)
    BY <1>4, <2>1 DEF Land
  <2> QED
    BY <1>2, <2>1, <2>2, QuorumLands
<1> QED
  BY <1>3, <1>4

-----------------------------------------------------------------------------
(* The batches.                                                            *)

\* A dispatch loses nobody, full or not.
LEMMA DispatchCarries ==
  ASSUME NEW held, NEW full, Dispatch(held, full), finals' = finals,
         NEW i, i \in held \/ \E b \in flying \cup finals : i \in b.items
  PROVE  Carried(i)'
<1> DEFINE new == [no |-> next, items |-> held]
<1>1. CASE held # {} /\ Cardinality(held) >= full
  <2>1. flying' = flying \cup {new} /\ new.items = held
    BY <1>1 DEF Dispatch
  <2> HIDE DEF new
  <2> QED
    BY <2>1 DEF Carried
<1>2. CASE ~ (held # {} /\ Cardinality(held) >= full)
  BY <1>2 DEF Dispatch, Carried
<1> QED
  BY <1>1, <1>2

\* A batch keeps its items as it is answered, and pending items as they leave.
LEMMA CarriedStays ==
  ASSUME FanInv, [Next]_vars, ~ Leave, NEW i \in def.items, Carried(i)
  PROVE  Carried(i)'
<1> USE DEF Carried, item, cell, records, run
<1>1. ASSUME NEW b \in flying, BatchEnds(b) PROVE Carried(i)'
  <2>1. PICK f : f.items = b.items /\ finals' = finals \cup {f}
    BY <1>1 DEF BatchEnds, Final
  <2>2. flying' = flying \ {b} /\ pending' = pending
    BY <1>1 DEF BatchEnds
  <2> QED
    BY <2>1, <2>2
<1>2. ASSUME NEW j \in def.items, Tell(j) PROVE Carried(i)'
  <2>1. CASE res[j] \in Answered
    <3>1. Dispatch(pending \cup {j}, def.batch) /\ finals' = finals
      BY <1>2, <2>1 DEF Tell
    <3> QED
      BY <3>1, DispatchCarries
  <2> QED
    BY <1>2, <2>1 DEF Tell
<1>3. CASE Flush
  BY <1>3, DispatchCarries DEF Flush
<1> QED
  BY <1>1, <1>2, <1>3 DEF Next, Thread, Ending, Start, Enter, Launch, AgentEnds, Redrive, Land, DrainEnds, Aggregate, Tally, RequestStop, ReachCap, Boot, OrphanEnds, vars

LEMMA TellCarries ==
  ASSUME FanInv, NEW i \in def.items, Tell(i), res[i] \in Answered
  PROVE  Carried(i)'
<1>1. Dispatch(pending \cup {i}, def.batch) /\ finals' = finals
  BY DEF Tell
<1> QED
  BY <1>1, DispatchCarries

\* An answer is told by Tell and nothing else, and rewritten by nobody then.
LEMMA ToldByTell ==
  ASSUME FanInv, [Next]_vars, ~ Leave, NEW i \in def.items, at'[i] = "told", ~ Tell(i)
  PROVE  at[i] = "told" /\ res'[i] = res[i]
<1> USE DEF FanInv, FanTypes, item, cell, records, run
<1>1. CASE Start
  BY <1>1 DEF Start
<1>2. ASSUME NEW j \in def.items, Enter(j) \/ Launch(j) \/ AgentEnds(j) \/ Redrive(j) PROVE at[i] = "told" /\ res'[i] = res[i]
  BY <1>2 DEF Enter, Launch, AgentEnds, Redrive, Now, With
<1>3. ASSUME NEW j \in def.items, Land(j) PROVE at[i] = "told" /\ res'[i] = res[i]
  <2>1. With(at, j, "landed") \in [def.items -> Stages]
    BY DEF With, Stages
  <2>2. CASE Reached(j) /\ ~ def.drains
    BY <1>3, <2>1, <2>2, Killed DEF Land, With, Cancelled
  <2>3. CASE ~ (Reached(j) /\ ~ def.drains)
    BY <1>3, <2>1, <2>3 DEF Land, With
  <2> QED
    BY <2>2, <2>3
<1>4. ASSUME NEW j \in def.items, Tell(j) PROVE at[i] = "told" /\ res'[i] = res[i]
  BY <1>4 DEF Tell, With
<1>5. CASE DrainEnds
  BY <1>5, Killed DEF DrainEnds, Cancelled
<1>6. CASE RequestStop
  BY <1>6, Killed DEF RequestStop, Cancelled
<1>7. CASE Flush \/ Aggregate \/ Tally \/ ReachCap \/ Boot \/ (\E b \in flying : BatchEnds(b)) \/ (\E j \in def.items : OrphanEnds(j))
  BY <1>7 DEF Flush, Aggregate, Tally, ReachCap, Boot, BatchEnds, OrphanEnds
<1>8. CASE UNCHANGED vars
  BY <1>8 DEF vars
<1> QED
  BY <1>1, <1>2, <1>3, <1>4, <1>5, <1>6, <1>7, <1>8 DEF Next, Ending, Thread

LEMMA BatchStep == FanInv /\ [Next]_vars => ToldCarried' /\ NodeCarried'
<1> SUFFICES ASSUME FanInv, [Next]_vars PROVE ToldCarried' /\ NodeCarried'
  OBVIOUS
<1>1. ToldCarried'
  <2>1. CASE Leave
    BY <2>1 DEF Leave, ToldCarried, run
  <2>2. CASE ~ Leave
    <3>1. SUFFICES ASSUME NEW i \in def.items, at'[i] = "told", res'[i] \in Answered PROVE Carried(i)'
      BY <2>2, BackersStay DEF ToldCarried
    <3>2. CASE at[i] = "told" /\ res[i] \in Answered
      BY <2>2, <3>2, CarriedStays DEF FanInv, ToldCarried
    <3>3. CASE ~ (at[i] = "told" /\ res[i] \in Answered)
      <4>1. Tell(i)
        BY <2>2, <3>1, <3>3, ToldByTell
      <4>2. res' = res
        BY <4>1 DEF Tell
      <4> QED
        BY <3>1, <4>1, <4>2, TellCarries
    <3> QED
      BY <3>2, <3>3
  <2> QED
    BY <2>1, <2>2
<1>2. NodeCarried'
  <2>1. finals \subseteq finals'
    BY DEF Next, Thread, Ending, Start, Enter, Launch, AgentEnds, Redrive, Land, DrainEnds, Tell, BatchEnds, Flush, Aggregate, Tally, RequestStop, ReachCap, Leave, Boot, OrphanEnds, vars, item, cell, records, run
  <2>2. CASE Aggregate
    <3>1. ASSUME NEW i \in Merged PROVE \E f \in finals : i \in f.items
      BY <2>2 DEF FanInv, WaveShape, ToldCarried, Carried, Aggregate, Merged, Having
    <3> QED
      BY <2>1, <2>2, <3>1 DEF Aggregate, NodeCarried
  <2>3. CASE ~ Aggregate
    <3>1. node'.items = node.items \/ node'.items = {}
      BY <2>3 DEF Next, Thread, Ending, Start, NoNode, Enter, Launch, AgentEnds, Redrive, Land, DrainEnds, Tell, BatchEnds, Flush, Tally, RequestStop, ReachCap, Leave, Boot, OrphanEnds, vars, item, cell, records, run
    <3> QED
      BY <2>1, <3>1 DEF FanInv, NodeCarried
  <2> QED
    BY <2>2, <2>3
<1> QED
  BY <1>1, <1>2
-----------------------------------------------------------------------------
(* The records.                                                            *)

\* A verdict of done is given over answers that are certified on disk.
LEMMA DoneIsCertified ==
  ASSUME Verdict = "done" PROVE \A i \in Merged : disk[i] \in Answered
<1>1. Certified
  BY DEF Verdict
<1> QED
  BY <1>1 DEF Certified, Merged, Having

LEMMA RecordStep == FanInv /\ [Next]_vars => DoneRests' /\ AggregateBacked'
<1> SUFFICES ASSUME FanInv, [Next]_vars PROVE DoneRests' /\ AggregateBacked'
  OBVIOUS
<1> USE DEF DoneRests, AggregateBacked
<1>1. CASE Aggregate
  <2>1. node'.items = Merged /\ disk' = disk /\ wave' = "closed"
    BY <1>1 DEF Aggregate, item
  <2>2. node'.status = "done" => Verdict = "done"
    BY <1>1 DEF Aggregate
  <2> QED
    BY <2>1, <2>2, DoneIsCertified
<1>2. CASE Start
  BY <1>2 DEF Start, NoNode, None
<1>3. ASSUME ~ Aggregate, ~ Start, node.status = "done" PROVE wave' \in {"closed", "idle"} /\ disk' = disk
  <2>1. CASE RequestStop
    <3>1. \A i \in def.items : disk'[i] = disk[i]
      BY <1>3, <2>1, Killed DEF RequestStop, FanInv, FanTypes, WaveShape, Cancelled
    <3>2. disk' \in [def.items -> Records]
      BY <2>1, KillTypes DEF RequestStop, FanInv, FanTypes, Cancelled
    <3> QED
      BY <1>3, <2>1, <3>1, <3>2 DEF RequestStop, FanInv, FanTypes
  <2>2. CASE ~ RequestStop
    BY <1>3, <2>2 DEF FanInv, Next, Thread, Ending, Driving, Enter, Launch, AgentEnds, Redrive, Land, DrainEnds, Tell, BatchEnds, Flush, Tally, ReachCap, Leave, Boot, OrphanEnds, vars, item, cell, records, run
  <2> QED
    BY <2>1, <2>2
<1>4. ASSUME ~ Aggregate, ~ Start PROVE node' = node
  BY <1>4 DEF Next, Thread, Ending, Enter, Launch, AgentEnds, Redrive, Land, DrainEnds, Tell, BatchEnds, Flush, Tally, RequestStop, ReachCap, Leave, Boot, OrphanEnds, vars, item, cell, records, run
<1>5. CASE ~ Aggregate /\ ~ Start
  BY <1>3, <1>4, <1>5 DEF FanInv
<1> QED
  BY <1>1, <1>2, <1>5

-----------------------------------------------------------------------------

LEMMA FanInductive == Spec => []FanInv
<1>1. FanInv /\ [Next]_vars => FanInv'
  BY FanStepTypes, ShapeStep, QuorateStep, BatchStep, RecordStep DEF FanInv
<1> QED
  BY FanInit, <1>1, PTL DEF Spec

\* A node that is done stands on answers that are committed facts on disk, and items are
\* cancelled only when a quorum of them has landed done: the fan-out aggregate and
\* _quorum_reached, for every schedule of the wave.
THEOREM FanOutBacked == Spec => []QuorumBacked
<1>1. FanInv => QuorumBacked
  <2> SUFFICES ASSUME FanInv PROVE QuorumBacked
    OBVIOUS
  <2>1. Backers = {i \in Having({"done"}) : at[i] # "judged"}
    BY DEF Having, Backers, FanInv, FanTypes, Unjudged, Stages, None
  <2>2. cancel => Cardinality(Backers) >= def.quorum
    BY DEF FanInv, Quorate
  <2>3. QuorumIsReal
    BY <2>1, <2>2 DEF QuorumIsReal
  <2> QED
    BY <2>3 DEF QuorumBacked, FanInv
<1> QED
  BY <1>1, FanInductive, PTL

\* Every answer the node counts was in a batch that got its answer before the partner
\* settles: the cell of the consolidation loses nobody.
THEOREM NobodyUnbatched == Spec => []NothingUnbatched
<1>1. FanInv => NothingUnbatched
  BY DEF FanInv, NodeCarried, NothingUnbatched
<1> QED
  BY <1>1, FanInductive, PTL
=============================================================================
