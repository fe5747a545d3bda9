--------------------------- MODULE RetryLadderProofs ---------------------------
(***************************************************************************)
(* For any items, caps, budget and deaths: the ladders keep the promise of *)
(* LadderPromise, whose launches are paid for; no attempt starts over a    *)
(* tree that may be at work; valid answers reach their records.            *)
(***************************************************************************)
EXTENDS RetryLadder, WellFoundedInduction, TLAPS

Stages == {"park", "transient", "late", "fallback", "bounded", "final"}

\* What the refinement needs of the types.
Shape ==
  /\ window \in [Cells -> [attempts : Nat, log : Nat, due : BOOLEAN]]
  /\ pc \in [Cells -> {"gate", "agent", "ladder", "sleep", "isolate", "end"}]
  /\ stage \in [Cells -> Stages]
  /\ DOMAIN r = Cells /\ DOMAIN kept = Cells
  /\ tried \in [Cells -> Nat] /\ entries \in [Cells -> Nat] /\ used \in [Cells -> Nat]
  /\ tree \in [Cells -> Nat] /\ launches \in [Cells -> Nat]
  /\ left \in Nat

\* The transient ladder counts what is on disk.
CountsAgree(c) == stage[c] = "transient" => tried[c] = window[c].attempts

\* A death without an agent: no ladder re-drives it.
Harmless(v) ==
  /\ v.status = "failed" /\ v.class \in {"cancelled", "transport_exhausted"}
  /\ v.class = "transport_exhausted" => v.refused

\* An item that has not been launched holds no death that a ladder would re-drive.
Unlaunched(c) ==
  launches[c] = 0 =>
    /\ pc[c] \in {"gate", "ladder", "end"} /\ kept[c] = NoVerdict
    /\ pc[c] = "gate" => c \notin seen
    /\ pc[c] = "ladder" => Harmless(r[c])
    /\ stage[c] # "fallback"

\* At the gate nothing of an earlier attempt is left.
Cleared(c) ==
  /\ pc[c] = "gate" => tree[c] = 0
  /\ pc[c] = "agent" => tree[c] = 1

CellInv(c) == CountsAgree(c) /\ Unlaunched(c) /\ Cleared(c)
LadderInv == Shape /\ \A c \in Cells : CellInv(c)

-----------------------------------------------------------------------------

LEMMA NextStageIsOne == ASSUME NEW s, NEW v PROVE NextStage(s, v) \in Stages
BY DEF NextStage, Stages

LEMMA FallbackIsForTheRefusing ==
  ASSUME NEW s, NEW v, NextStage(s, v) = "fallback"
  PROVE  v.class = "transport_exhausted" /\ ~ v.refused
BY DEF NextStage, Admits

LEMMA TypedFields ==
  ASSUME NEW k
  PROVE  /\ Typed(k).status = "failed" /\ Typed(k).class = k
         /\ [Typed(k) EXCEPT !.refused = TRUE].status = "failed"
         /\ [Typed(k) EXCEPT !.refused = TRUE].class = k
         /\ [Typed(k) EXCEPT !.refused = TRUE].refused
BY DEF Typed, NoVerdict

\* A verdict that goes on to the next ladder.
LEMMA Leaving ==
  ASSUME LadderInv, NEW c \in Cells, NEW v, LeaveWith(c, v),
         launches[c] = 0 => Harmless(v),
         entries' \in [Cells -> Nat], UNCHANGED <<kept, tree, seen, left, launches>>
  PROVE  LadderInv'
<1> USE DEF LadderInv, Shape, CellInv, CountsAgree, Unlaunched, Cleared, Stages
<1> DEFINE next == NextStage(stage[c], v)
<1>1. next \in Stages
  BY NextStageIsOne
<1>2. /\ r' = [r EXCEPT ![c] = v] /\ stage' = [stage EXCEPT ![c] = next]
      /\ used' = [used EXCEPT ![c] = 0] /\ pc' = [pc EXCEPT ![c] = "ladder"]
      /\ tried' = IF next = "transient" THEN [tried EXCEPT ![c] = window[c].attempts] ELSE tried
      /\ window' = window \/ (window' = [window EXCEPT ![c] = NoWindow] /\ next # "transient")
  BY DEF LeaveWith, Enter, Hold, Goto
<1>3. next = "fallback" => ~ Harmless(v)
  BY FallbackIsForTheRefusing DEF Harmless
<1> HIDE DEF next
<1>4. Shape'
  <2>1. window' \in [Cells -> [attempts : Nat, log : Nat, due : BOOLEAN]]
    <3>1. NoWindow \in [attempts : Nat, log : Nat, due : BOOLEAN]
      BY DEF NoWindow
    <3> QED
      BY <1>2, <3>1
  <2>2. tried' \in [Cells -> Nat]
    <3>1. window[c].attempts \in Nat
      OBVIOUS
    <3> QED
      BY <1>2, <3>1
  <2>3. stage' \in [Cells -> Stages] /\ used' \in [Cells -> Nat]
    BY <1>1, <1>2
  <2> QED
    BY <1>2, <2>1, <2>2, <2>3
<1>5. \A d \in Cells \ {c} : CellInv(d)'
  BY <1>2
<1>6. CellInv(c)'
  BY <1>2, <1>3
<1> QED
  BY <1>4, <1>5, <1>6

LEMMA LadderInit == Init => LadderInv
BY LadderConstants DEF Init, Stages, LadderInv, Shape, CellInv, CountsAgree, Unlaunched, Cleared, NoWindow

LEMMA LadderStep == LadderInv /\ [Next]_vars => LadderInv'
<1> SUFFICES ASSUME LadderInv, [Next]_vars PROVE LadderInv'
  OBVIOUS
<1> USE LadderConstants
<1> USE DEF Stages, LadderInv, Shape, CellInv, CountsAgree, Unlaunched, Cleared, ladder, hist, run
<1>1. ASSUME NEW c \in Cells, Refuse(c) PROVE LadderInv'
  <2>1. Shape'
    BY <1>1 DEF Refuse, Hold, Goto
  <2>2. \A d \in Cells \ {c} : CellInv(d)'
    BY <1>1 DEF Refuse, Hold, Goto
  <2>3. CellInv(c)'
    BY TypedFields, <1>1 DEF Refuse, Hold, Goto, Harmless
  <2> QED
    BY <2>1, <2>2, <2>3
<1>2. ASSUME NEW c \in Cells, CalledOff(c) PROVE LadderInv'
  <2>1. Shape'
    BY <1>2 DEF CalledOff, Hold, Goto
  <2>2. \A d \in Cells \ {c} : CellInv(d)'
    BY <1>2 DEF CalledOff, Hold, Goto
  <2>3. CellInv(c)'
    BY TypedFields, <1>2 DEF CalledOff, Hold, Goto, Harmless
  <2> QED
    BY <2>1, <2>2, <2>3
<1>3. ASSUME NEW c \in Cells, Launch(c) PROVE LadderInv'
  <2>1. Shape'
    BY <1>3 DEF Launch, Goto
  <2>2. \A d \in Cells \ {c} : CellInv(d)'
    BY <1>3 DEF Launch, Goto
  <2>3. CellInv(c)'
    BY <1>3 DEF Launch, Goto
  <2> QED
    BY <2>1, <2>2, <2>3
<1>4. ASSUME NEW c \in Cells, AgentEnds(c) PROVE LadderInv'
  <2>1. Shape'
    BY <1>4 DEF AgentEnds, Hold, Goto
  <2>2. \A d \in Cells \ {c} : CellInv(d)'
    BY <1>4 DEF AgentEnds, Hold, Goto
  <2>3. CellInv(c)'
    BY <1>4 DEF AgentEnds, Hold, Goto
  <2> QED
    BY <2>1, <2>2, <2>3
<1>5. ASSUME NEW c \in Cells, Isolated(c) PROVE LadderInv'
  <2>1. Shape'
    BY <1>5 DEF Isolated, Note, Goto
  <2>2. \A d \in Cells \ {c} : CellInv(d)'
    BY <1>5 DEF Isolated, Note, Goto
  <2>3. CellInv(c)'
    BY <1>5 DEF Isolated, Note, Goto
  <2> QED
    BY <2>1, <2>2, <2>3
<1>6. ASSUME NEW c \in Cells, Stuck(c) PROVE LadderInv'
  <2>1. launches[c] # 0
    BY <1>6 DEF Stuck
  <2>2. entries' \in [Cells -> Nat]
    BY <1>6 DEF Stuck, Note
  <2> QED
    BY <1>6, <2>1, <2>2, Leaving DEF Stuck
<1>7. ASSUME NEW c \in Cells, Park(c) PROVE LadderInv'
  <2>1. Shape'
    BY <1>7 DEF Park, Parking, Limited, Failed, Draw, Note, Goto
  <2>2. \A d \in Cells \ {c} : CellInv(d)'
    BY <1>7 DEF Park, Parking, Limited, Failed, Draw, Note, Goto
  <2>3. CellInv(c)'
    BY <1>7 DEF Park, Parking, Limited, Failed, Draw, Note, Goto, Harmless
  <2> QED
    BY <2>1, <2>2, <2>3
<1>8. ASSUME NEW c \in Cells, LeavePark(c) PROVE LadderInv'
  <2>1. ASSUME NEW v, LeaveWith(c, v), v = r[c] \/ v = Typed("cancelled") PROVE LadderInv'
    <3>1. launches[c] = 0 => Harmless(v)
      BY <1>8, <2>1, TypedFields DEF LeavePark, Parking, Harmless
    <3> QED
      BY <1>8, <2>1, <3>1, Leaving DEF LeavePark
  <2> QED
    BY <1>8, <2>1 DEF LeavePark, Leave
<1>9. ASSUME NEW c \in Cells, BackOff(c) PROVE LadderInv'
  <2>1. Shape'
    BY <1>9 DEF BackOff, Retry, Climbing, Transient, Failed, Draw, Note, Goto
  <2>2. \A d \in Cells \ {c} : CellInv(d)'
    BY <1>9 DEF BackOff, Retry, Climbing, Transient, Failed, Draw, Note, Goto
  <2>3. CellInv(c)'
    BY <1>9 DEF BackOff, Retry, Climbing, Transient, Failed, Draw, Note, Goto, Harmless, Retryable
  <2> QED
    BY <2>1, <2>2, <2>3
<1>10. ASSUME NEW c \in Cells, LateBanner(c) PROVE LadderInv'
  <2>1. Shape'
    BY <1>10 DEF LateBanner, Climbing, Banner, Limited, Failed, Enter, Goto
  <2>2. \A d \in Cells \ {c} : CellInv(d)'
    BY <1>10 DEF LateBanner, Climbing, Banner, Limited, Failed, Enter, Goto
  <2>3. CellInv(c)'
    BY <1>10 DEF LateBanner, Climbing, Banner, Limited, Failed, Enter, Goto, Harmless
  <2> QED
    BY <2>1, <2>2, <2>3
<1>11. ASSUME NEW c \in Cells, LeaveTransient(c) PROVE LadderInv'
  <2>1. launches[c] = 0 => Harmless(Demoted(c))
    BY <1>11 DEF LeaveTransient, Climbing, Demoted, Harmless, Retryable
  <2> QED
    BY <1>11, <2>1, Leaving DEF LeaveTransient
<1>12. ASSUME NEW c \in Cells, BudgetGone(c) PROVE LadderInv'
  <2>1. launches[c] # 0
    BY <1>12 DEF BudgetGone, Climbing, Transient, Failed, Harmless, Retryable
  <2>2. entries' \in [Cells -> Nat]
    BY <1>12 DEF BudgetGone, Note
  <2> QED
    BY <1>12, <2>1, <2>2, Leaving DEF BudgetGone
<1>13. ASSUME NEW c \in Cells, Rung(c) PROVE LadderInv'
  <2>1. Shape'
    BY <1>13 DEF Rung, OnRungs, Draw, Goto
  <2>2. \A d \in Cells \ {c} : CellInv(d)'
    BY <1>13 DEF Rung, OnRungs, Draw, Goto
  <2>3. CellInv(c)'
    BY <1>13 DEF Rung, OnRungs, Draw, Goto
  <2> QED
    BY <2>1, <2>2, <2>3
<1>14. ASSUME NEW c \in Cells, LeaveRungs(c) PROVE LadderInv'
  <2>1. launches[c] = 0 => Harmless(r[c])
    BY <1>14 DEF LeaveRungs, OnRungs
  <2> QED
    BY <1>14, <2>1, Leaving DEF LeaveRungs, Leave
<1>15. ASSUME NEW c \in Cells, Compare(c) PROVE LadderInv'
  <2>1. Shape'
    BY <1>15 DEF Compare, InBounds, Hold, Note
  <2>2. \A d \in Cells \ {c} : CellInv(d)'
    BY <1>15 DEF Compare, InBounds, Hold, Note
  <2>3. CellInv(c)'
    BY <1>15 DEF Compare, InBounds, Hold, Note, NoVerdict
  <2> QED
    BY <2>1, <2>2, <2>3
<1>16. ASSUME NEW c \in Cells, Rest(c) PROVE LadderInv'
  <2>1. Shape'
    BY <1>16 DEF Rest, InBounds, Redrivable, Goto
  <2>2. \A d \in Cells \ {c} : CellInv(d)'
    BY <1>16 DEF Rest, InBounds, Redrivable, Goto
  <2>3. CellInv(c)'
    BY <1>16 DEF Rest, InBounds, Redrivable, Goto, Harmless, Bounded
  <2> QED
    BY <2>1, <2>2, <2>3
<1>17. ASSUME NEW c \in Cells, LeaveBounds(c) PROVE LadderInv'
  <2>1. launches[c] = 0 => Harmless(r[c])
    BY <1>17 DEF LeaveBounds, InBounds
  <2> QED
    BY <1>17, <2>1, Leaving DEF LeaveBounds, Leave
<1>18. ASSUME NEW c \in Cells, Wake(c) PROVE LadderInv'
  <2>1. Shape'
    BY <1>18 DEF Wake, Draw, Goto
  <2>2. \A d \in Cells \ {c} : CellInv(d)'
    BY <1>18 DEF Wake, Draw, Goto
  <2>3. CellInv(c)'
    BY <1>18 DEF Wake, Draw, Goto
  <2> QED
    BY <2>1, <2>2, <2>3
<1>19. ASSUME NEW c \in Cells, Roused(c) PROVE LadderInv'
  <2>1. launches[c] # 0
    BY <1>19 DEF Roused
  <2>2. PICK v : LeaveWith(c, v)
    BY <1>19 DEF Roused, Leave
  <2>3. entries' \in [Cells -> Nat] /\ UNCHANGED <<kept, tree, seen, left, launches>>
    BY <1>19 DEF Roused
  <2> QED
    BY <2>1, <2>2, <2>3, Leaving
<1>20. ASSUME NEW c \in Cells, Commit(c) PROVE LadderInv'
  <2>1. PICK v : Quiesced(c, v)
    BY <1>20 DEF Commit
  <2>2. tree' \in [Cells -> Nat] /\ \A d \in Cells \ {c} : tree'[d] = tree[d]
    BY <2>1 DEF Quiesced
  <2>3. pc' = [pc EXCEPT ![c] = "end"] /\ UNCHANGED <<window, ladder, seen, left, launches>>
    BY <1>20 DEF Commit, Goto
  <2>4. Shape'
    BY <2>2, <2>3
  <2>5. \A d \in Cells : CellInv(d)'
    BY <1>20, <2>2, <2>3 DEF Commit
  <2> QED
    BY <2>4, <2>5
<1>21. ASSUME NEW c \in Cells, Elapse(c) PROVE LadderInv'
  <2>1. [window[c] EXCEPT !.due = FALSE] \in [attempts : Nat, log : Nat, due : BOOLEAN]
    <3>1. window[c] \in [attempts : Nat, log : Nat, due : BOOLEAN]
      OBVIOUS
    <3>2. \A w \in [attempts : Nat, log : Nat, due : BOOLEAN] :
            [w EXCEPT !.due = FALSE] \in [attempts : Nat, log : Nat, due : BOOLEAN]
      BY Zenon
    <3> QED
      BY <3>1, <3>2
  <2>2. window' = [window EXCEPT ![c] = [window[c] EXCEPT !.due = FALSE]]
    BY <1>21 DEF Elapse
  <2>3. Shape'
    BY <1>21, <2>1, <2>2 DEF Elapse
  <2>4. \A d \in Cells : CellInv(d)'
    BY <1>21, <2>2 DEF Elapse
  <2> QED
    BY <2>3, <2>4
<1>22. CASE RequestStop
  BY <1>22 DEF RequestStop
<1>23. CASE Crash
  BY <1>23 DEF Crash, Lose
<1>24. CASE Revive
  BY <1>24 DEF Revive, Lose
<1>25. CASE Boot
  BY <1>25 DEF Boot
<1>26. CASE UNCHANGED vars
  BY <1>26 DEF vars
<1> QED
  BY <1>1, <1>2, <1>3, <1>4, <1>5, <1>6, <1>7, <1>8, <1>9, <1>10, <1>11, <1>12, <1>13, <1>14, <1>15, <1>16, <1>17, <1>18, <1>19, <1>20, <1>21, <1>22, <1>23, <1>24, <1>25, <1>26 DEF Next, Thread

LEMMA LadderAlways == Spec => []LadderInv
<1>1. Init => LadderInv
  BY LadderInit
<1>2. LadderInv /\ [Next]_vars => LadderInv'
  BY LadderStep
<1> QED
  BY <1>1, <1>2, PTL DEF Spec

\* No attempt starts while what an earlier one left behind may still be at work (_isolate_prior).
THEOREM OneTreeAtWork == Spec => []WorkdirUnshared
<1>1. LadderInv => WorkdirUnshared
  BY DEF LadderInv, Shape, CellInv, Cleared, WorkdirUnshared
<1> QED
  BY <1>1, LadderAlways, PTL

-----------------------------------------------------------------------------
(* The verdicts: the first rule whose condition holds is one of the rules. *)

LEMMA FirstIsARule ==
  ASSUME NEW rules, DOMAIN rules \subseteq Nat, \A i \in DOMAIN rules : 1 .. i \subseteq DOMAIN rules,
         \E m \in DOMAIN rules : rules[m].when
  PROVE  \E i \in DOMAIN rules : First(rules).status = rules[i].status /\ First(rules).class = rules[i].class
<1> DEFINE T == {i \in DOMAIN rules : rules[i].when}
<1>1. \E x \in T : \A y \in T : ~ (<<y, x>> \in OpToRel(<, Nat))
  <2>1. T \subseteq Nat /\ T # {}
    OBVIOUS
  <2> HIDE DEF T
  <2> QED
    BY <2>1, NatLessThanWellFounded, WFMin
<1>2. PICK x \in T : \A y \in T : ~ (y < x)
  <2>1. PICK x \in T : \A y \in T : ~ (<<y, x>> \in OpToRel(<, Nat))
    BY <1>1
  <2>2. \A y \in T : y \in Nat
    OBVIOUS
  <2> QED
    BY <2>1, <2>2 DEF OpToRel
<1>3. \E i \in DOMAIN rules : rules[i].when /\ \A j \in 1 .. (i - 1) : ~ rules[j].when
  BY <1>2
<1> QED
  BY <1>3 DEF First

Outcomes == {"done", "partial", "failed", "again"}

\* Whatever an agent dies of, the verdict has a status and a class.
LEMMA VerdictTypes ==
  ASSUME NEW f \in Facts
  PROVE  Fresh(f, TRUE).status \in {"done", "partial", "failed"} /\ Fresh(f, TRUE).class \in Classes
<1> USE DEF Rule, Death, Outcomes, Classes, Retryable, Bounded
<1>0. Turn(f).status \in Outcomes /\ Turn(f).class \in Classes
  <2>1. CASE f.exit = "zero"
    <3>1. DOMAIN Success(f) = 1 .. 6 /\ Success(f)[6].when
      BY DEF Success
    <3>2. \A i \in 1 .. 6 : Success(f)[i].status \in Outcomes /\ Success(f)[i].class \in Classes
      BY DEF Success, Class
    <3>3. PICK i \in DOMAIN Success(f) : First(Success(f)).status = Success(f)[i].status /\ First(Success(f)).class = Success(f)[i].class
      BY <3>1, FirstIsARule
    <3> QED
      BY <2>1, <3>1, <3>2, <3>3 DEF Turn
  <2>2. CASE f.exit = "nonzero"
    <3>1. DOMAIN Errors(f) = 1 .. 11 /\ Errors(f)[11].when
      BY DEF Errors
    <3>2. \A i \in 1 .. 11 : Errors(f)[i].status \in Outcomes /\ Errors(f)[i].class \in Classes
      BY DEF Errors, Class
    <3>3. PICK i \in DOMAIN Errors(f) : First(Errors(f)).status = Errors(f)[i].status /\ First(Errors(f)).class = Errors(f)[i].class
      BY <3>1, FirstIsARule
    <3> QED
      BY <2>2, <3>1, <3>2, <3>3 DEF Turn
  <2>3. CASE f.exit \notin {"zero", "nonzero"}
    <3>1. DOMAIN Killed(f) = 1 .. 5 /\ Killed(f)[5].when
      BY DEF Killed
    <3>2. \A i \in 1 .. 5 : Killed(f)[i].status \in Outcomes /\ Killed(f)[i].class \in Classes
      BY DEF Killed, Class
    <3>3. PICK i \in DOMAIN Killed(f) : First(Killed(f)).status = Killed(f)[i].status /\ First(Killed(f)).class = Killed(f)[i].class
      BY <3>1, FirstIsARule
    <3> QED
      BY <2>3, <3>1, <3>2, <3>3 DEF Turn
  <2> QED
    BY <2>1, <2>2, <2>3
<1>1. Fresh(f, TRUE).status \in {Turn(f).status, "failed"} /\ Fresh(f, TRUE).class = Turn(f).class
      /\ Fresh(f, TRUE).status # "again"
  <2>1. Turn(f) = [status |-> Turn(f).status, class |-> Turn(f).class]
    BY DEF Turn, First
  <2> QED
    BY <2>1 DEF Fresh
<1> QED
  BY <1>0, <1>1

-----------------------------------------------------------------------------
(* The types.                                                              *)

TypeInv == TypesOver(Cells) /\ (~ up => restarts < Restarts)

LEMMA VerdictValues ==
  /\ NoVerdict \in VerdictSet
  /\ \A k \in Classes : Typed(k) \in VerdictSet /\ [Typed(k) EXCEPT !.refused = TRUE] \in VerdictSet
  /\ \A v \in VerdictSet, k \in Classes : [v EXCEPT !.class = k] \in VerdictSet
  /\ \A v \in VerdictSet : [v EXCEPT !.status = "partial", !.class = "left_live_descendants"] \in VerdictSet
<1>1. NoVerdict \in VerdictSet
  BY DEF NoVerdict, VerdictSet, Classes
<1>2. \A k \in Classes : Typed(k) \in VerdictSet
  BY DEF Typed, NoVerdict, VerdictSet
<1>3. \A k \in Classes : [Typed(k) EXCEPT !.refused = TRUE] \in VerdictSet
  BY DEF Typed, NoVerdict, VerdictSet
<1>4. \A v \in VerdictSet, k \in Classes : [v EXCEPT !.class = k] \in VerdictSet
  BY DEF VerdictSet
<1>5. \A v \in VerdictSet : [v EXCEPT !.status = "partial", !.class = "left_live_descendants"] \in VerdictSet
  BY DEF VerdictSet, Classes
<1> QED
  BY <1>1, <1>2, <1>3, <1>4, <1>5

LEMMA LeavingTypes ==
  ASSUME TypeInv, NEW c \in Cells, NEW v \in VerdictSet, LeaveWith(c, v),
         entries' \in [Cells -> Nat], UNCHANGED <<record, kept, tree, seen, left, run, hist>>
  PROVE  TypeInv'
<1> USE LadderConstants DEF TypeInv, TypesOver, run, hist
<1> DEFINE next == NextStage(stage[c], v)
<1>1. next \in {"park", "transient", "late", "fallback", "bounded", "final"}
  BY NextStageIsOne DEF Stages
<1>2. /\ r' = [r EXCEPT ![c] = v] /\ stage' = [stage EXCEPT ![c] = next]
      /\ used' = [used EXCEPT ![c] = 0] /\ pc' = [pc EXCEPT ![c] = "ladder"]
      /\ tried' = tried \/ tried' = [tried EXCEPT ![c] = window[c].attempts]
      /\ window' = window \/ window' = [window EXCEPT ![c] = NoWindow]
  BY DEF LeaveWith, Enter, Hold, Goto
<1> HIDE DEF next
<1>3. window' \in [Cells -> [attempts : 0 .. TCap, log : Nat, due : BOOLEAN]]
  <2>1. NoWindow \in [attempts : 0 .. TCap, log : Nat, due : BOOLEAN]
    BY DEF NoWindow
  <2> QED
    BY <1>2, <2>1
<1>4. tried' \in [Cells -> 0 .. TCap]
  <2>1. window[c].attempts \in 0 .. TCap
    OBVIOUS
  <2> QED
    BY <1>2, <2>1
<1>5. stage' \in [Cells -> {"park", "transient", "late", "fallback", "bounded", "final"}] /\ used' \in [Cells -> Nat]
  BY <1>1, <1>2
<1>6. r' \in [Cells -> VerdictSet] /\ pc' \in [Cells -> {"gate", "agent", "ladder", "sleep", "isolate", "end"}]
  BY <1>2
<1> QED
  BY <1>3, <1>4, <1>5, <1>6

LEMMA TypeInit == Init => TypeInv
<1> SUFFICES ASSUME Init PROVE TypeInv
  OBVIOUS
<1>1. 0 \in 0 .. TCap /\ 0 \in 0 .. Restarts /\ Budget \in 0 .. Budget /\ 0 \in Nat
  BY LadderConstants
<1>2. window \in [Cells -> [attempts : 0 .. TCap, log : Nat, due : BOOLEAN]]
  <2>1. NoWindow \in [attempts : 0 .. TCap, log : Nat, due : BOOLEAN]
    BY <1>1 DEF NoWindow
  <2> QED
    BY <2>1 DEF Init
<1>3. NoVerdict \in VerdictSet
  BY VerdictValues
<1>4. record \in [Cells -> [verdict : VerdictSet, log : Nat]]
  <2>1. NoRecord \in [verdict : VerdictSet, log : Nat]
    BY <1>3 DEF NoRecord
  <2> QED
    BY <2>1 DEF Init
<1>5. r \in [Cells -> VerdictSet] /\ kept \in [Cells -> VerdictSet]
  BY <1>3 DEF Init
<1>6. tried \in [Cells -> 0 .. TCap]
  BY <1>1 DEF Init
<1>7. /\ entries \in [Cells -> Nat] /\ used \in [Cells -> Nat] /\ tree \in [Cells -> Nat]
      /\ launches \in [Cells -> Nat]
  BY <1>1 DEF Init
<1>8. /\ pc \in [Cells -> {"gate", "agent", "ladder", "sleep", "isolate", "end"}]
      /\ stage \in [Cells -> {"park", "transient", "late", "fallback", "bounded", "final"}]
  BY DEF Init
<1>9. /\ seen \subseteq Cells /\ left \in 0 .. Budget /\ answered \subseteq Cells
      /\ up \in BOOLEAN /\ stop \in BOOLEAN /\ cancel \in BOOLEAN /\ restarts \in 0 .. Restarts /\ up
  BY <1>1 DEF Init
<1> QED
  BY <1>2, <1>4, <1>5, <1>6, <1>7, <1>8, <1>9 DEF TypeInv, TypesOver

LEMMA TypeStep == LadderInv /\ TypeInv /\ [Next]_vars => TypeInv'
<1> SUFFICES ASSUME LadderInv, TypeInv, [Next]_vars PROVE TypeInv'
  OBVIOUS
<1> USE LadderConstants
<1> USE DEF TypeInv, TypesOver, ladder, hist, run
<1>1. ASSUME NEW c \in Cells, Refuse(c) PROVE TypeInv'
  <2>1. [Typed("transport_exhausted") EXCEPT !.refused = TRUE] \in VerdictSet
    BY VerdictValues DEF Classes
  <2>2. entries' \in [Cells -> Nat]
    BY <1>1 DEF Refuse
  <2> QED
    BY <1>1, <2>1, <2>2 DEF Refuse, Hold, Goto
<1>2. ASSUME NEW c \in Cells, CalledOff(c) PROVE TypeInv'
  <2>1. Typed("cancelled") \in VerdictSet
    BY VerdictValues DEF Classes
  <2> QED
    BY <1>2, <2>1 DEF CalledOff, Hold, Goto
<1>3. ASSUME NEW c \in Cells, Launch(c) PROVE TypeInv'
  BY <1>3 DEF Launch, Goto
<1>4. ASSUME NEW c \in Cells, AgentEnds(c) PROVE TypeInv'
  <2>1. PICK e \in Ends, escaped \in {0, 1} :
          LET v == Fresh(e.facts, TRUE) IN
          /\ Hold(c, [status |-> v.status, class |-> v.class, calls |-> e.calls, work |-> e.work,
                      refused |-> FALSE, harvest |-> e.facts.said = "fenced" /\ v.status # "done"])
          /\ tree' = [tree EXCEPT ![c] = @ - 1 + escaped]
          /\ answered' = IF v.status \in {"done", "partial"} THEN answered \cup {c} ELSE answered
    BY <1>4 DEF AgentEnds
  <2>2. e.facts \in Facts /\ e.calls \in {"zero", "some"} /\ e.work \in BOOLEAN
    OBVIOUS
  <2>3. r' \in [Cells -> VerdictSet]
    BY <2>1, <2>2, VerdictTypes DEF Hold, VerdictSet
  <2>4. tree' \in [Cells -> Nat]
    BY <1>4, <2>1 DEF AgentEnds, LadderInv, Shape, CellInv, Cleared
  <2>5. answered' \subseteq Cells
    BY <2>1
  <2> QED
    BY <1>4, <2>3, <2>4, <2>5 DEF AgentEnds, Goto
<1>5. ASSUME NEW c \in Cells, Isolated(c) PROVE TypeInv'
  <2>1. r[c] \in VerdictSet /\ NoVerdict \in VerdictSet
    BY VerdictValues
  <2>2. kept' \in [Cells -> VerdictSet]
    BY <1>5, <2>1 DEF Isolated
  <2>3. entries' \in [Cells -> Nat]
    BY <1>5 DEF Isolated, Note
  <2> QED
    BY <1>5, <2>2, <2>3 DEF Isolated, Goto
<1>6. ASSUME NEW c \in Cells, Stuck(c) PROVE TypeInv'
  <2>1. Typed("left_live_descendants") \in VerdictSet
    BY VerdictValues DEF Classes
  <2>2. entries' = entries \/ entries' = [entries EXCEPT ![c] = entries[c] + 1]
    BY <1>6 DEF Stuck, Note
  <2>3. entries' \in [Cells -> Nat]
    BY <2>2
  <2> QED
    BY <1>6, <2>1, <2>3, LeavingTypes DEF Stuck
<1>7. ASSUME NEW c \in Cells, Park(c) PROVE TypeInv'
  BY <1>7 DEF Park, Draw, Note, Goto
<1>8. ASSUME NEW c \in Cells, LeavePark(c) PROVE TypeInv'
  <2>1. r[c] \in VerdictSet /\ Typed("cancelled") \in VerdictSet
    BY VerdictValues DEF Classes
  <2> QED
    BY <1>8, <2>1, LeavingTypes DEF LeavePark, Leave
<1>9. ASSUME NEW c \in Cells, BackOff(c) PROVE TypeInv'
  <2>1. tried[c] + 1 \in 0 .. TCap /\ entries[c] + 1 \in Nat
    BY <1>9 DEF BackOff, Retry, Transient
  <2>2. [attempts |-> tried[c] + 1, log |-> entries[c] + 1, due |-> TRUE] \in [attempts : 0 .. TCap, log : Nat, due : BOOLEAN]
    BY <2>1
  <2>3. window' \in [Cells -> [attempts : 0 .. TCap, log : Nat, due : BOOLEAN]]
    BY <1>9, <2>2 DEF BackOff
  <2> QED
    BY <1>9, <2>1, <2>3 DEF BackOff, Retry, Draw, Note, Goto
<1>10. ASSUME NEW c \in Cells, LateBanner(c) PROVE TypeInv'
  BY <1>10 DEF LateBanner, Enter, Goto
<1>11. ASSUME NEW c \in Cells, LeaveTransient(c) PROVE TypeInv'
  <2>1. Demoted(c) \in VerdictSet
    BY VerdictValues DEF Demoted, Classes
  <2> QED
    BY <1>11, <2>1, LeavingTypes DEF LeaveTransient
<1>12. ASSUME NEW c \in Cells, BudgetGone(c) PROVE TypeInv'
  <2>1. [r[c] EXCEPT !.class = "transport_exhausted"] \in VerdictSet
    BY VerdictValues DEF Classes
  <2>2. entries' \in [Cells -> Nat]
    BY <1>12 DEF BudgetGone, Note
  <2> QED
    BY <1>12, <2>1, <2>2, LeavingTypes DEF BudgetGone
<1>13. ASSUME NEW c \in Cells, Rung(c) PROVE TypeInv'
  BY <1>13 DEF Rung, Draw, Goto
<1>14. ASSUME NEW c \in Cells, LeaveRungs(c) \/ LeaveBounds(c) PROVE TypeInv'
  <2>1. r[c] \in VerdictSet
    OBVIOUS
  <2> QED
    BY <1>14, <2>1, LeavingTypes DEF LeaveRungs, LeaveBounds, Leave
<1>15. ASSUME NEW c \in Cells, Compare(c) PROVE TypeInv'
  <2>1. kept[c] \in VerdictSet /\ NoVerdict \in VerdictSet
    BY VerdictValues
  <2>2. kept' \in [Cells -> VerdictSet] /\ r' \in [Cells -> VerdictSet]
    BY <1>15, <2>1 DEF Compare, Hold
  <2>3. entries' \in [Cells -> Nat]
    BY <1>15 DEF Compare, Note
  <2> QED
    BY <1>15, <2>2, <2>3 DEF Compare
<1>16. ASSUME NEW c \in Cells, Rest(c) PROVE TypeInv'
  BY <1>16 DEF Rest, Goto
<1>17. ASSUME NEW c \in Cells, Wake(c) PROVE TypeInv'
  BY <1>17 DEF Wake, Draw, Goto
<1>18. ASSUME NEW c \in Cells, Roused(c) PROVE TypeInv'
  <2>1. r[c] \in VerdictSet /\ Typed("cancelled") \in VerdictSet /\ Demoted(c) \in VerdictSet
    BY VerdictValues DEF Classes, Demoted
  <2>2. PICK v \in VerdictSet : LeaveWith(c, v)
    BY <1>18, <2>1 DEF Roused, Leave
  <2> QED
    BY <1>18, <2>2, LeavingTypes DEF Roused
<1>19. ASSUME NEW c \in Cells, Commit(c) PROVE TypeInv'
  <2>1. PICK v \in {r[c], [r[c] EXCEPT !.status = "partial", !.class = "left_live_descendants"],
                    Typed("left_live_descendants")} :
          Quiesced(c, v) /\ record' = [record EXCEPT ![c] = [verdict |-> v, log |-> entries[c]]] /\ cancel' \in BOOLEAN
    BY <1>19 DEF Commit
  <2>2. v \in VerdictSet
    <3>1. r[c] \in VerdictSet /\ "left_live_descendants" \in Classes
      BY DEF Classes
    <3>2. [r[c] EXCEPT !.status = "partial", !.class = "left_live_descendants"] \in VerdictSet
      BY <3>1, VerdictValues
    <3>3. Typed("left_live_descendants") \in VerdictSet
      BY <3>1, VerdictValues
    <3> QED
      BY <2>1, <3>1, <3>2, <3>3
  <2>3. record' \in [Cells -> [verdict : VerdictSet, log : Nat]]
    BY <2>1, <2>2
  <2>4. tree' \in [Cells -> Nat]
    BY <2>1 DEF Quiesced
  <2> QED
    BY <1>19, <2>1, <2>3, <2>4 DEF Commit, Goto
<1>20. ASSUME NEW c \in Cells, Elapse(c) PROVE TypeInv'
  <2>1. [window[c] EXCEPT !.due = FALSE] \in [attempts : 0 .. TCap, log : Nat, due : BOOLEAN]
    <3>1. window[c] \in [attempts : 0 .. TCap, log : Nat, due : BOOLEAN]
      OBVIOUS
    <3>2. \A w \in [attempts : 0 .. TCap, log : Nat, due : BOOLEAN] :
            [w EXCEPT !.due = FALSE] \in [attempts : 0 .. TCap, log : Nat, due : BOOLEAN]
      BY Zenon
    <3> QED
      BY <3>1, <3>2
  <2>2. window' = [window EXCEPT ![c] = [window[c] EXCEPT !.due = FALSE]]
    BY <1>20 DEF Elapse
  <2> QED
    BY <1>20, <2>1, <2>2 DEF Elapse
<1>21. CASE RequestStop
  BY <1>21 DEF RequestStop
<1>22. CASE Crash \/ Revive
  <2>1. NoVerdict \in VerdictSet
    BY VerdictValues
  <2>2. Lose /\ restarts < Restarts /\ stop' \in BOOLEAN /\ UNCHANGED <<window, record, restarts>>
    BY <1>22 DEF Crash, Revive
  <2>3. /\ r' \in [Cells -> VerdictSet] /\ kept' \in [Cells -> VerdictSet]
        /\ tried' \in [Cells -> 0 .. TCap]
    BY <2>1, <2>2 DEF Lose
  <2>4. /\ entries' \in [Cells -> Nat] /\ used' \in [Cells -> Nat] /\ tree' \in [Cells -> Nat]
        /\ launches' \in [Cells -> Nat]
        /\ pc' \in [Cells -> {"gate", "agent", "ladder", "sleep", "isolate", "end"}]
        /\ stage' \in [Cells -> {"park", "transient", "late", "fallback", "bounded", "final"}]
    BY <2>2 DEF Lose
  <2>5. /\ seen' = {} /\ left' \in 0 .. Budget /\ answered' = {} /\ up' = FALSE /\ cancel' = FALSE
    BY <2>2 DEF Lose
  <2> QED
    BY <2>2, <2>3, <2>4, <2>5
<1>23. CASE Boot
  <2>1. restarts' \in 0 .. Restarts /\ up'
    BY <1>23 DEF Boot
  <2> QED
    BY <1>23, <2>1 DEF Boot
<1>24. CASE UNCHANGED vars
  BY <1>24 DEF vars
<1> QED
  BY <1>1, <1>2, <1>3, <1>4, <1>5, <1>6, <1>7, <1>8, <1>9, <1>10, <1>11, <1>12, <1>13, <1>14, <1>15, <1>16, <1>17, <1>18, <1>19, <1>20, <1>21, <1>22, <1>23, <1>24 DEF Next, Thread

-----------------------------------------------------------------------------
(* The answers: where a valid answer is, from the agent to the record.     *)

Good(v) == v.status \in {"done", "partial"} \/ v.class = "left_live_descendants"
Backed(c) == stage[c] = "bounded" /\ kept[c].status = "partial"
Resting(c) == stage[c] = "bounded" /\ Harvested(r[c])

\* A re-drive holds the answer back, a verdict carries it, and the record has it.
AnswerHeld(c) ==
  c \in answered =>
    /\ pc[c] \in {"gate", "agent"} => Backed(c)
    /\ pc[c] \in {"sleep", "isolate"} => Resting(c)
    /\ pc[c] = "ladder" => Good(r[c]) \/ Backed(c)
    /\ pc[c] = "end" => Good(record[c].verdict)
AnswerInv == \A c \in Cells : AnswerHeld(c)

\* A verdict that goes on carries the answer.
LEMMA LeavingKeeps ==
  ASSUME TypeInv, AnswerInv, NEW c \in Cells, NEW v, LeaveWith(c, v),
         c \in answered => Good(v),
         UNCHANGED <<record, kept, answered>>
  PROVE  AnswerInv'
<1>1. /\ r' = [r EXCEPT ![c] = v] /\ pc' = [pc EXCEPT ![c] = "ladder"]
      /\ stage' = [stage EXCEPT ![c] = NextStage(stage[c], v)]
  BY DEF LeaveWith, Enter, Hold, Goto
<1>2. \A d \in Cells \ {c} : AnswerHeld(d)'
  <2> SUFFICES ASSUME NEW d \in Cells \ {c} PROVE AnswerHeld(d)'
    OBVIOUS
  <2>1. pc'[d] = pc[d] /\ r'[d] = r[d] /\ stage'[d] = stage[d] /\ AnswerHeld(d)
    BY <1>1 DEF TypeInv, TypesOver, AnswerInv
  <2> QED
    BY <2>1 DEF AnswerHeld, Backed, Resting, Harvested
<1>3. AnswerHeld(c)'
  <2>1. pc'[c] = "ladder" /\ r'[c] = v
    BY <1>1 DEF TypeInv, TypesOver
  <2> QED
    BY <2>1 DEF AnswerHeld
<1> QED
  BY <1>2, <1>3 DEF AnswerInv

LEMMA DemotedKeeps == ASSUME NEW c \in Cells, r[c] \in VerdictSet, Good(r[c]) PROVE Good(Demoted(c))
BY DEF Demoted, Good, Retryable, VerdictSet

LEMMA TypedIsGood == Good(Typed("left_live_descendants"))
BY TypedFields DEF Good

\* What a thread leaves alone is as it was.
LEMMA ElsewhereHeld ==
  ASSUME AnswerInv, NEW c \in Cells,
         \A d \in Cells \ {c} : /\ pc'[d] = pc[d] /\ stage'[d] = stage[d] /\ r'[d] = r[d] /\ kept'[d] = kept[d]
                                /\ record'[d] = record[d] /\ (d \in answered' <=> d \in answered),
         AnswerHeld(c)'
  PROVE  AnswerInv'
BY DEF AnswerInv, AnswerHeld, Backed, Resting, Harvested

LEMMA AnswerInit == Init => AnswerInv
BY DEF Init, AnswerInv, AnswerHeld

LEMMA AnswerStep == TypeInv /\ AnswerInv /\ [Next]_vars => AnswerInv'
<1> SUFFICES ASSUME TypeInv, AnswerInv, [Next]_vars PROVE AnswerInv'
  OBVIOUS
<1> USE DEF TypeInv, TypesOver, ladder, hist, run
<1>0. \A c \in Cells : AnswerHeld(c) /\ r[c] \in VerdictSet /\ kept[c] \in VerdictSet
  BY DEF AnswerInv
<1>1. ASSUME NEW c \in Cells, Refuse(c) \/ CalledOff(c) PROVE AnswerInv'
  <2>1. c \in answered => Backed(c)
    BY <1>0, <1>1 DEF Refuse, CalledOff, AnswerHeld
  <2>2. pc' = [pc EXCEPT ![c] = "ladder"] /\ UNCHANGED <<record, stage, kept, answered>>
    BY <1>1 DEF Refuse, CalledOff, Goto
  <2>3. PICK v : r' = [r EXCEPT ![c] = v]
    BY <1>1 DEF Refuse, CalledOff, Hold
  <2>4. AnswerHeld(c)'
    BY <2>1, <2>2 DEF AnswerHeld, Backed
  <2> QED
    BY <2>2, <2>3, <2>4, ElsewhereHeld
<1>2. ASSUME NEW c \in Cells, Launch(c) PROVE AnswerInv'
  <2>1. pc[c] = "gate" /\ pc' = [pc EXCEPT ![c] = "agent"] /\ UNCHANGED <<record, stage, r, kept, answered>>
    BY <1>2 DEF Launch, Goto
  <2>2. AnswerHeld(c)'
    BY <1>0, <2>1 DEF AnswerHeld, Backed
  <2> QED
    BY <2>1, <2>2, ElsewhereHeld
<1>3. ASSUME NEW c \in Cells, AgentEnds(c) PROVE AnswerInv'
  <2>1. PICK e \in Ends :
          LET v == Fresh(e.facts, TRUE) IN
          /\ Hold(c, [status |-> v.status, class |-> v.class, calls |-> e.calls, work |-> e.work,
                      refused |-> FALSE, harvest |-> e.facts.said = "fenced" /\ v.status # "done"])
          /\ answered' = IF v.status \in {"done", "partial"} THEN answered \cup {c} ELSE answered
    BY <1>3 DEF AgentEnds
  <2>2. pc[c] = "agent" /\ pc' = [pc EXCEPT ![c] = "ladder"] /\ UNCHANGED <<record, stage, kept>>
    BY <1>3 DEF AgentEnds, Goto
  <2>3. r'[c].status = Fresh(e.facts, TRUE).status
    BY <2>1 DEF Hold
  <2>4. c \in answered => Backed(c)
    BY <1>0, <2>2 DEF AnswerHeld
  <2>5. AnswerHeld(c)'
    BY <2>1, <2>2, <2>3, <2>4 DEF AnswerHeld, Backed, Good
  <2>6. \A d \in Cells \ {c} : r'[d] = r[d] /\ (d \in answered' <=> d \in answered)
    BY <2>1 DEF Hold
  <2> QED
    BY <2>2, <2>5, <2>6, ElsewhereHeld
<1>4. ASSUME NEW c \in Cells, Isolated(c) PROVE AnswerInv'
  <2>1. /\ pc[c] = "isolate" /\ pc' = [pc EXCEPT ![c] = "gate"] /\ UNCHANGED <<record, stage, r, answered>>
        /\ kept' = [kept EXCEPT ![c] = IF stage[c] = "bounded" /\ Harvested(r[c]) THEN r[c] ELSE NoVerdict]
    BY <1>4 DEF Isolated, Goto
  <2>2. AnswerHeld(c)'
    BY <1>0, <2>1 DEF AnswerHeld, Backed, Resting, Harvested
  <2> QED
    BY <2>1, <2>2, ElsewhereHeld
<1>5. ASSUME NEW c \in Cells, Stuck(c) PROVE AnswerInv'
  BY <1>5, TypedIsGood, LeavingKeeps DEF Stuck
<1>6. ASSUME NEW c \in Cells, pc[c] = "ladder", stage[c] # "bounded", ~ Good(r[c]) PROVE c \notin answered
  BY <1>0, <1>6 DEF AnswerHeld, Backed
<1>7. ASSUME NEW c \in Cells, Failed(c, Retryable) \/ Limited(c) PROVE ~ Good(r[c])
  BY <1>7 DEF Limited, Failed, Retryable, Good
<1>8. ASSUME NEW c \in Cells, Park(c) \/ BackOff(c) PROVE AnswerInv'
  <2>1. c \notin answered
    BY <1>6, <1>7, <1>8 DEF Park, Parking, BackOff, Retry, Climbing, Transient
  <2>2. pc' = [pc EXCEPT ![c] = "sleep"] /\ UNCHANGED <<record, stage, r, kept, answered>>
    BY <1>8 DEF Park, BackOff, Retry, Goto
  <2>3. AnswerHeld(c)'
    BY <2>1, <2>2 DEF AnswerHeld
  <2> QED
    BY <2>2, <2>3, ElsewhereHeld
<1>9. ASSUME NEW c \in Cells, LeavePark(c) PROVE AnswerInv'
  <2>1. PICK v : LeaveWith(c, v) /\ (v = r[c] \/ Limited(c))
    BY <1>9 DEF LeavePark, Leave
  <2>2. c \in answered => Good(v)
    BY <1>6, <1>7, <1>9, <2>1 DEF LeavePark, Parking
  <2> QED
    BY <1>9, <2>1, <2>2, LeavingKeeps DEF LeavePark
<1>10. ASSUME NEW c \in Cells, LateBanner(c) PROVE AnswerInv'
  <2>1. c \notin answered
    BY <1>6, <1>7, <1>10 DEF LateBanner, Climbing, Banner
  <2>2. /\ pc' = [pc EXCEPT ![c] = "ladder"] /\ stage' = [stage EXCEPT ![c] = "late"]
        /\ UNCHANGED <<record, r, kept, answered>>
    BY <1>10 DEF LateBanner, Enter, Goto
  <2>3. AnswerHeld(c)'
    BY <2>1, <2>2 DEF AnswerHeld
  <2> QED
    BY <2>2, <2>3, ElsewhereHeld
<1>11. ASSUME NEW c \in Cells, LeaveTransient(c) PROVE AnswerInv'
  <2>1. c \in answered => Good(Demoted(c))
    BY <1>0, <1>6, <1>11, DemotedKeeps DEF LeaveTransient, Climbing
  <2> QED
    BY <1>11, <2>1, LeavingKeeps DEF LeaveTransient
<1>12. ASSUME NEW c \in Cells, BudgetGone(c) PROVE AnswerInv'
  <2>1. c \notin answered
    BY <1>6, <1>7, <1>12 DEF BudgetGone, Climbing, Transient
  <2> QED
    BY <1>12, <2>1, LeavingKeeps DEF BudgetGone
<1>13. ASSUME NEW c \in Cells, Rung(c) PROVE AnswerInv'
  <2>1. pc' = [pc EXCEPT ![c] = "isolate"] /\ answered' = answered \ {c} /\ UNCHANGED <<record, stage, r, kept>>
    BY <1>13 DEF Rung, Goto
  <2>2. AnswerHeld(c)'
    BY <2>1 DEF AnswerHeld
  <2> QED
    BY <2>1, <2>2, ElsewhereHeld
<1>14. ASSUME NEW c \in Cells, LeaveRungs(c) \/ LeaveBounds(c) PROVE AnswerInv'
  <2>1. c \in answered => Good(r[c])
    BY <1>0, <1>6, <1>14 DEF LeaveRungs, OnRungs, LeaveBounds, InBounds, AnswerHeld, Backed
  <2> QED
    BY <1>14, <2>1, LeavingKeeps DEF LeaveRungs, LeaveBounds, Leave
<1>15. ASSUME NEW c \in Cells, Compare(c) PROVE AnswerInv'
  <2>1. /\ pc[c] = "ladder" /\ kept' = [kept EXCEPT ![c] = NoVerdict] /\ UNCHANGED <<record, pc, stage, answered>>
        /\ r' = [r EXCEPT ![c] = IF Lost(c) THEN kept[c] ELSE r[c]]
    BY <1>15 DEF Compare, InBounds, Hold
  <2>2. c \in answered => Good(r'[c])
    <3>1. CASE Lost(c)
      BY <1>0, <2>1, <3>1 DEF Lost, AnswerHeld, Backed, Good
    <3>2. CASE ~ Lost(c)
      BY <1>15, <2>1, <3>2 DEF Lost, Compare, Good
    <3> QED
      BY <3>1, <3>2
  <2>3. AnswerHeld(c)'
    BY <2>1, <2>2 DEF AnswerHeld
  <2> QED
    BY <2>1, <2>3, ElsewhereHeld
<1>16. ASSUME NEW c \in Cells, Rest(c) PROVE AnswerInv'
  <2>1. pc[c] = "ladder" /\ pc' = [pc EXCEPT ![c] = "sleep"] /\ UNCHANGED <<record, stage, r, kept, answered>>
    BY <1>16 DEF Rest, InBounds, Goto
  <2>2. c \in answered => Resting(c)
    BY <1>0, <1>16, <2>1 DEF Rest, InBounds, Redrivable, Harvested, AnswerHeld, Backed, Resting, Good, Bounded
  <2>3. AnswerHeld(c)'
    BY <2>1, <2>2 DEF AnswerHeld, Resting, Harvested
  <2> QED
    BY <2>1, <2>3, ElsewhereHeld
<1>17. ASSUME NEW c \in Cells, Wake(c) PROVE AnswerInv'
  <2>1. pc[c] = "sleep" /\ pc' = [pc EXCEPT ![c] = "isolate"] /\ UNCHANGED <<record, stage, r, kept, answered>>
    BY <1>17 DEF Wake, Goto
  <2>2. AnswerHeld(c)'
    BY <1>0, <2>1 DEF AnswerHeld, Resting, Harvested
  <2> QED
    BY <2>1, <2>2, ElsewhereHeld
<1>18. ASSUME NEW c \in Cells, Roused(c) PROVE AnswerInv'
  <2>1. c \in answered => Resting(c)
    BY <1>0, <1>18 DEF Roused, AnswerHeld
  <2>2. PICK v : LeaveWith(c, v) /\ (stage[c] = "bounded" => v = r[c])
    BY <1>18 DEF Roused, Leave
  <2>3. c \in answered => Good(v)
    BY <2>1, <2>2 DEF Resting, Harvested, Good
  <2> QED
    BY <1>18, <2>2, <2>3, LeavingKeeps DEF Roused
<1>19. ASSUME NEW c \in Cells, Commit(c) PROVE AnswerInv'
  <2>1. PICK v : Quiesced(c, v) /\ record' = [record EXCEPT ![c] = [verdict |-> v, log |-> entries[c]]]
    BY <1>19 DEF Commit
  <2>2. /\ pc[c] = "ladder" /\ stage[c] = "final" /\ pc' = [pc EXCEPT ![c] = "end"]
        /\ UNCHANGED <<stage, r, kept, answered>>
    BY <1>19 DEF Commit, Goto
  <2>3. c \in answered => Good(r[c])
    BY <1>6, <2>2
  <2>4. c \in answered => Good(v)
    <3>1. CASE v = r[c]
      BY <2>3, <3>1
    <3>2. CASE v = [r[c] EXCEPT !.status = "partial", !.class = "left_live_descendants"]
      BY <1>0, <3>2 DEF Good, VerdictSet
    <3>3. CASE v = Typed("left_live_descendants")
      BY <3>3, TypedIsGood
    <3> QED
      BY <2>1, <3>1, <3>2, <3>3 DEF Quiesced
  <2>5. record'[c].verdict = v
    BY <2>1
  <2>6. AnswerHeld(c)'
    BY <2>2, <2>4, <2>5 DEF AnswerHeld
  <2> QED
    BY <2>1, <2>2, <2>6, ElsewhereHeld
<1>20. CASE (\E c \in Cells : Elapse(c)) \/ RequestStop \/ Boot \/ UNCHANGED vars
  <2>1. UNCHANGED <<record, pc, stage, r, kept, answered>>
    BY <1>20 DEF Elapse, RequestStop, Boot, vars
  <2> QED
    BY <2>1 DEF AnswerInv, AnswerHeld, Backed, Resting, Harvested
<1>21. CASE Crash \/ Revive
  <2>1. answered' = {}
    BY <1>21 DEF Crash, Revive, Lose
  <2> QED
    BY <2>1 DEF AnswerInv, AnswerHeld
<1> QED
  BY <1>1, <1>2, <1>3, <1>4, <1>5, <1>8, <1>9, <1>10, <1>11, <1>12, <1>13, <1>14, <1>15, <1>16, <1>17, <1>18, <1>19, <1>20, <1>21 DEF Next, Thread

\* The variables keep their types and the counters their caps, whatever an agent
\* dies of: the window of retry-window.json, the records and the budget of the run.
THEOREM LaddersTyped == Spec => []LadderTypeOK
<1>1. Init => LadderInv /\ TypeInv
  BY LadderInit, TypeInit
<1>2. LadderInv /\ TypeInv /\ [Next]_vars => (LadderInv /\ TypeInv)'
  BY LadderStep, TypeStep
<1>3. LadderInv /\ TypeInv => LadderTypeOK
  BY DEF LadderInv, Shape, TypeInv, TypesOver, LadderTypeOK
<1> QED
  BY <1>1, <1>2, <1>3, PTL DEF Spec

\* What the fan-out may rely on of its items: the types, one tree at work in the
\* work directory, and no valid answer lost between the agent and the record, but
\* to a tree that could not be proven dead and to a further rung.
THEOREM AttemptsAreSound == Spec => []AttemptsHold
<1> DEFINE Inv == LadderInv /\ TypeInv /\ AnswerInv
<1>1. Init => Inv
  BY LadderInit, TypeInit, AnswerInit
<1>2. Inv /\ [Next]_vars => Inv'
  BY LadderStep, TypeStep, AnswerStep
<1>3. Inv => AttemptsHold
  <2> SUFFICES ASSUME Inv PROVE AttemptsHold
    OBVIOUS
  <2>1. DOMAIN pc = Cells
    BY DEF TypeInv, TypesOver
  <2>2. LadderTypeOK
    BY <2>1 DEF TypeInv, LadderTypeOK
  <2>3. WorkdirUnshared
    BY <2>1 DEF LadderInv, CellInv, Cleared, WorkdirUnshared
  <2>4. AnswerCommitted
    BY DEF TypeInv, TypesOver, AnswerInv, AnswerHeld, Good, AnswerCommitted, Ended
  <2> QED
    BY <2>2, <2>3, <2>4 DEF AttemptsHold
<1> QED
  BY <1>1, <1>2, <1>3, PTL DEF Spec

-----------------------------------------------------------------------------
(* The refinement: every action is a step of the promise, or none.         *)

Others(c) ==
  \A d \in Cells \ {c} : /\ pc'[d] = pc[d] /\ stage'[d] = stage[d]
                         /\ launches'[d] = launches[d] /\ window'[d] = window[d]
Attempts(c) == window[c].attempts
Phases == {"free", "paid", "granted", "running", "judged", "settled"}
Promised == Promise!Next \/ UNCHANGED Promise!promise

LEMMA Turned ==
  ASSUME NEW c \in Cells, Others(c)
  PROVE  /\ Promise!Turn(c, Phase(c), Phase(c)')
         /\ Phase(c)' = Phase(c) => UNCHANGED [d \in Cells |-> Phase(d)]
         /\ Attempts(c)' = Attempts(c) => UNCHANGED [d \in Cells |-> window[d].attempts]
         /\ [d \in Cells |-> window[d].attempts]' =
              [[d \in Cells |-> window[d].attempts] EXCEPT ![c] = Attempts(c)']
<1>1. \A d \in Cells \ {c} : Phase(d)' = Phase(d)
  BY DEF Others, Phase
<1>2. \A d \in Cells \ {c} : window'[d].attempts = window[d].attempts
  BY DEF Others
<1> QED
  BY <1>1, <1>2 DEF Promise!Turn, Attempts

\* A death, or a launch that is given up.
LEMMA IsJudge ==
  ASSUME NEW c \in Cells, Others(c), UNCHANGED <<left, launches>>,
         Phase(c) \in {"free", "paid", "granted", "running", "judged"}, Phase(c)' = "judged",
         Attempts(c)' \in {Attempts(c), 0}
  PROVE  Promised
<1>1. CASE Phase(c) # "judged"
  <2>1. Promise!Judge(c)
    BY <1>1, Turned DEF Promise!Judge
  <2> QED
    BY <2>1 DEF Promised, Promise!Next
<1>2. CASE Phase(c) = "judged" /\ Attempts(c)' = Attempts(c)
  BY <1>2, Turned DEF Promised, Promise!promise
<1>3. CASE Phase(c) = "judged" /\ Attempts(c)' = 0
  <2>1. Promise!Forget(c)
    BY <1>3, Turned DEF Promise!Forget
  <2> QED
    BY <2>1 DEF Promised, Promise!Next
<1> QED
  BY <1>1, <1>2, <1>3

LEMMA IsPay ==
  ASSUME NEW c \in Cells, Others(c), Draw, UNCHANGED launches,
         Phase(c) = "judged", Phase(c)' = "paid", Attempts(c)' = Attempts(c)
  PROVE  Promised
<1>1. Promise!Pay(c)
  BY Turned DEF Promise!Pay, Draw
<1> QED
  BY <1>1 DEF Promised, Promise!Next

LEMMA IsNothing ==
  ASSUME NEW c \in Cells, Others(c), UNCHANGED <<left, launches>>,
         Phase(c)' = Phase(c), Attempts(c)' = Attempts(c)
  PROVE  Promised
BY Turned DEF Promised, Promise!promise

\* Leaving a ladder from a sleep, an isolation or the ladder itself.
LEMMA LeavesAsJudge ==
  ASSUME LadderInv, NEW c \in Cells, NEW v, LeaveWith(c, v), UNCHANGED <<left, launches>>,
         pc[c] \in {"ladder", "sleep", "isolate"}
  PROVE  Promised
<1> USE DEF LadderInv, Shape
<1>1. Others(c)
  BY DEF Others, LeaveWith, Enter, Goto
<1>2. pc'[c] = "ladder" /\ Attempts(c)' \in {Attempts(c), 0}
  BY DEF Attempts, LeaveWith, Enter, Goto, NoWindow
<1>3. Phase(c)' = "judged" /\ Phase(c) \in {"paid", "granted", "judged"}
  BY <1>2 DEF Phase
<1> QED
  BY <1>1, <1>2, <1>3, IsJudge

LEMMA LadderSteps == LadderInv /\ [Next]_vars => Promised
<1> SUFFICES ASSUME LadderInv, [Next]_vars PROVE Promised
  OBVIOUS
<1> USE DEF LadderInv, Shape, ladder, hist, run
<1>1. ASSUME NEW c \in Cells, Refuse(c) PROVE Promised
  <2>1. Others(c) /\ Attempts(c)' = Attempts(c)
    BY <1>1 DEF Refuse, Hold, Goto, Others, Attempts
  <2>2. Phase(c) \in {"free", "paid", "granted", "running"} /\ Phase(c)' = "judged"
    BY <1>1 DEF Refuse, Hold, Goto, Phase
  <2> QED
    BY <1>1, <2>1, <2>2, IsJudge DEF Refuse
<1>2. ASSUME NEW c \in Cells, CalledOff(c) PROVE Promised
  <2>1. Others(c) /\ Attempts(c)' = Attempts(c)
    BY <1>2 DEF CalledOff, Hold, Goto, Others, Attempts
  <2>2. Phase(c) \in {"free", "paid", "granted", "running"} /\ Phase(c)' = "judged"
    BY <1>2 DEF CalledOff, Hold, Goto, Phase
  <2> QED
    BY <1>2, <2>1, <2>2, IsJudge DEF CalledOff
<1>3. ASSUME NEW c \in Cells, AgentEnds(c) PROVE Promised
  <2>1. Others(c) /\ Attempts(c)' = Attempts(c)
    BY <1>3 DEF AgentEnds, Hold, Goto, Others, Attempts
  <2>2. Phase(c) \in {"free", "paid", "granted", "running"} /\ Phase(c)' = "judged"
    BY <1>3 DEF AgentEnds, Hold, Goto, Phase
  <2> QED
    BY <1>3, <2>1, <2>2, IsJudge DEF AgentEnds
<1>4. ASSUME NEW c \in Cells, Launch(c) PROVE Promised
  <2>1. Others(c) /\ Attempts(c)' = Attempts(c)
    BY <1>4 DEF Launch, Goto, Others, Attempts
  <2>2. Phase(c)' = "running" /\ Phase(c) \in {"free", "paid", "granted"}
    BY <1>4 DEF Launch, Goto, Phase
  <2>3. Phase(c) = "free" => (Attempts(c) > 0 => Attempts(c) < TCap)
    <3>1. Phase(c) = "free" => c \notin seen
      BY <1>4 DEF Launch, Phase, CellInv, Unlaunched
    <3>2. window[c].attempts \in Nat /\ TCap \in Nat
      BY LadderConstants
    <3> QED
      BY <1>4, <3>1, <3>2 DEF Launch, Spent, Attempts
  <2>4. Promise!Begin(c)
    BY <1>4, <2>1, <2>2, <2>3, Turned DEF Promise!Begin, Launch, Attempts
  <2> QED
    BY <2>4 DEF Promised, Promise!Next
<1>5. ASSUME NEW c \in Cells, Isolated(c) PROVE Promised
  <2>1. Others(c) /\ Attempts(c)' = Attempts(c)
    BY <1>5 DEF Isolated, Note, Goto, Others, Attempts
  <2>2. Phase(c)' = Phase(c)
    BY <1>5 DEF Isolated, Note, Goto, Phase, CellInv, Unlaunched
  <2> QED
    BY <1>5, <2>1, <2>2, IsNothing DEF Isolated
<1>6. ASSUME NEW c \in Cells, Stuck(c) PROVE Promised
  <2>1. PICK v : LeaveWith(c, v)
    BY <1>6 DEF Stuck
  <2> QED
    BY <1>6, <2>1, LeavesAsJudge DEF Stuck
<1>7. ASSUME NEW c \in Cells, Park(c) PROVE Promised
  <2>1. Others(c) /\ Attempts(c)' = Attempts(c)
    BY <1>7 DEF Park, Parking, Draw, Note, Goto, Others, Attempts
  <2>2. Phase(c) = "judged" /\ Phase(c)' = "paid"
    BY <1>7 DEF Park, Parking, Draw, Note, Goto, Phase
  <2> QED
    BY <1>7, <2>1, <2>2, IsPay DEF Park
<1>8. ASSUME NEW c \in Cells, LeavePark(c) PROVE Promised
  <2>1. PICK v : LeaveWith(c, v)
    BY <1>8 DEF LeavePark, Leave
  <2> QED
    BY <1>8, <2>1, LeavesAsJudge DEF LeavePark, Parking
<1>9. ASSUME NEW c \in Cells, LeaveTransient(c) PROVE Promised
  <2>1. PICK v : LeaveWith(c, v)
    BY <1>9 DEF LeaveTransient
  <2> QED
    BY <1>9, <2>1, LeavesAsJudge DEF LeaveTransient, Climbing
<1>10. ASSUME NEW c \in Cells, BudgetGone(c) PROVE Promised
  <2>1. PICK v : LeaveWith(c, v)
    BY <1>10 DEF BudgetGone
  <2> QED
    BY <1>10, <2>1, LeavesAsJudge DEF BudgetGone, Climbing
<1>11. ASSUME NEW c \in Cells, LeaveRungs(c) PROVE Promised
  <2>1. PICK v : LeaveWith(c, v)
    BY <1>11 DEF LeaveRungs, Leave
  <2> QED
    BY <1>11, <2>1, LeavesAsJudge DEF LeaveRungs, OnRungs
<1>12. ASSUME NEW c \in Cells, LeaveBounds(c) PROVE Promised
  <2>1. PICK v : LeaveWith(c, v)
    BY <1>12 DEF LeaveBounds, Leave
  <2> QED
    BY <1>12, <2>1, LeavesAsJudge DEF LeaveBounds, InBounds
<1>13. ASSUME NEW c \in Cells, Roused(c) PROVE Promised
  <2>1. PICK v : LeaveWith(c, v)
    BY <1>13 DEF Roused, Leave
  <2> QED
    BY <1>13, <2>1, LeavesAsJudge DEF Roused
<1>14. ASSUME NEW c \in Cells, BackOff(c) PROVE Promised
  <2>1. Others(c) /\ Attempts(c)' = Attempts(c) + 1 /\ Attempts(c) < TCap
    BY <1>14 DEF BackOff, Retry, Climbing, Transient, Goto, Others, Attempts, CellInv, CountsAgree
  <2>2. Phase(c) = "judged" /\ Phase(c)' = "granted"
    BY <1>14 DEF BackOff, Retry, Climbing, Goto, Phase
  <2>3. Promise!Grant(c)
    BY <1>14, <2>1, <2>2, Turned DEF Promise!Grant, BackOff, Retry, Draw, Attempts
  <2> QED
    BY <2>3 DEF Promised, Promise!Next
<1>15. ASSUME NEW c \in Cells, LateBanner(c) PROVE Promised
  <2>1. Others(c) /\ Attempts(c)' = Attempts(c)
    BY <1>15 DEF LateBanner, Climbing, Enter, Goto, Others, Attempts
  <2>2. Phase(c)' = Phase(c)
    BY <1>15 DEF LateBanner, Climbing, Enter, Goto, Phase
  <2> QED
    BY <1>15, <2>1, <2>2, IsNothing DEF LateBanner
<1>16. ASSUME NEW c \in Cells, Rung(c) PROVE Promised
  <2>1. Others(c) /\ Attempts(c)' = Attempts(c)
    BY <1>16 DEF Rung, OnRungs, Draw, Goto, Others, Attempts
  <2>2. Phase(c) = "judged" /\ Phase(c)' = "paid"
    BY <1>16 DEF Rung, OnRungs, Draw, Goto, Phase
  <2> QED
    BY <1>16, <2>1, <2>2, IsPay DEF Rung
<1>17. ASSUME NEW c \in Cells, Compare(c) PROVE Promised
  <2>1. Others(c) /\ Attempts(c)' = Attempts(c)
    BY <1>17 DEF Compare, InBounds, Others, Attempts
  <2>2. Phase(c)' = Phase(c)
    BY <1>17 DEF Compare, InBounds, Phase
  <2> QED
    BY <1>17, <2>1, <2>2, IsNothing DEF Compare
<1>18. ASSUME NEW c \in Cells, Rest(c) PROVE Promised
  <2>1. Others(c) /\ Attempts(c)' = Attempts(c)
    BY <1>18 DEF Rest, InBounds, Goto, Others, Attempts
  <2>2. Phase(c)' = Phase(c)
    BY <1>18 DEF Rest, InBounds, Goto, Phase
  <2> QED
    BY <1>18, <2>1, <2>2, IsNothing DEF Rest
<1>19. ASSUME NEW c \in Cells, Wake(c) PROVE Promised
  <2>1. Others(c) /\ Attempts(c)' = Attempts(c) /\ UNCHANGED launches
    BY <1>19 DEF Wake, Goto, Others, Attempts
  <2>2. CASE stage[c] = "bounded"
    <3>1. Phase(c) = "judged" /\ Phase(c)' = "paid" /\ Draw
      BY <1>19, <2>2 DEF Wake, Goto, Phase
    <3> QED
      BY <2>1, <3>1, IsPay
  <2>3. CASE stage[c] # "bounded"
    <3>1. Phase(c)' = Phase(c) /\ UNCHANGED left
      BY <1>19, <2>3 DEF Wake, Goto, Phase
    <3> QED
      BY <2>1, <3>1, IsNothing
  <2> QED
    BY <2>2, <2>3
<1>20. ASSUME NEW c \in Cells, Commit(c) PROVE Promised
  <2>1. Others(c) /\ Attempts(c)' = Attempts(c)
    BY <1>20 DEF Commit, Goto, Others, Attempts
  <2>2. Phase(c) = "judged" /\ Phase(c)' = "settled"
    BY <1>20 DEF Commit, Goto, Phase
  <2>3. Promise!Settle(c)
    BY <1>20, <2>1, <2>2, Turned DEF Promise!Settle, Commit
  <2> QED
    BY <2>3 DEF Promised, Promise!Next
<1>21. ASSUME NEW c \in Cells, Elapse(c) PROVE Promised
  <2>1. Others(c) /\ Attempts(c)' = Attempts(c)
    BY <1>21 DEF Elapse, Others, Attempts
  <2>2. Phase(c)' = Phase(c)
    BY <1>21 DEF Elapse, Phase
  <2> QED
    BY <1>21, <2>1, <2>2, IsNothing DEF Elapse
<1>22. CASE RequestStop \/ Boot
  BY <1>22 DEF RequestStop, Boot, Promised, Promise!promise, Phase
<1>23. CASE Crash \/ Revive
  <2>1. Promise!Renew
    BY <1>23 DEF Crash, Revive, Lose, Promise!Renew, Phase
  <2> QED
    BY <2>1 DEF Promised, Promise!Next
<1>24. CASE UNCHANGED vars
  BY <1>24 DEF vars, Promised, Promise!promise, Phase
<1> QED
  BY <1>1, <1>2, <1>3, <1>4, <1>5, <1>6, <1>7, <1>8, <1>9, <1>10, <1>11, <1>12, <1>13, <1>14, <1>15, <1>16, <1>17, <1>18, <1>19, <1>20, <1>21, <1>22, <1>23, <1>24 DEF Next, Thread

\* Every ladder keeps the promise: what it launches is free or paid for, and its grants are on
\* disk before they are used (_retry_window_state, _retries_left).
THEOREM LaddersKeepPromise == Spec => Promise!Spec
<1>1. Init => Promise!Init
  BY DEF Init, Promise!Init, Phase, NoWindow
<1>2. LadderInv /\ [Next]_vars => [Promise!Next]_(Promise!promise)
  BY LadderSteps DEF Promised
<1> QED
  BY <1>1, <1>2, LadderAlways, PTL DEF Spec, Promise!Spec

-----------------------------------------------------------------------------
(* What the promise is worth: whoever keeps it launches nothing unpaid.     *)

PromiseInv == Promise!PromiseTypeOK /\ Promise!Paid

LEMMA PromiseInit == Promise!Init => PromiseInv
BY LadderConstants DEF Promise!Init, PromiseInv, Promise!PromiseTypeOK, Promise!Paid, Promise!Owed

\* The same of any phases, grants, purse and launches.
Sound(phase, spent, purse, runs) ==
  /\ phase \in [Cells -> Phases] /\ spent \in [Cells -> 0 .. TCap] /\ purse \in 0 .. Budget /\ runs \in [Cells -> Nat]
  /\ \A c \in Cells : runs[c] + (IF phase[c] \in {"paid", "granted"} THEN 1 ELSE 0) + purse
                       <= Budget + (IF phase[c] = "free" THEN 0 ELSE 1)

LEMMA PromiseStep == PromiseInv /\ [Promise!Next]_(Promise!promise) => PromiseInv'
<1> DEFINE phase == [c \in Cells |-> Phase(c)]
           spent == [c \in Cells |-> window[c].attempts]
           After == Sound(phase', spent', left', launches')
<1> SUFFICES ASSUME Sound(phase, spent, left, launches), [Promise!Next]_(Promise!promise) PROVE After
  BY DEF PromiseInv, Promise!PromiseTypeOK, Promise!Paid, Promise!Owed, Sound, Phases
<1>1. CASE Promise!Renew
  <2>1. phase' = [c \in Cells |-> "free"] /\ launches' = [c \in Cells |-> 0] /\ left' = Budget /\ spent' = spent
    BY <1>1 DEF Promise!Renew
  <2> HIDE DEF phase, spent
  <2> QED
    BY <2>1, LadderConstants DEF Sound, Phases
<1>2. ASSUME NEW c \in Cells, Promise!Begin(c) PROVE After
  <2>1. /\ phase[c] \in {"free", "paid", "granted"} /\ phase' = [phase EXCEPT ![c] = "running"]
        /\ launches' = [launches EXCEPT ![c] = @ + 1] /\ left' = left /\ spent' = spent
    BY <1>2 DEF Promise!Begin, Promise!Turn
  <2> HIDE DEF phase, spent
  <2>2. spent' = [spent EXCEPT ![c] = spent[c]] /\ spent[c] \in 0 .. TCap
    BY <2>1 DEF Sound
  <2> QED
    BY <2>1, <2>2, LadderConstants DEF Sound, Phases
<1>3. ASSUME NEW c \in Cells, Promise!Judge(c) PROVE After
  <2>1. /\ phase' = [phase EXCEPT ![c] = "judged"] /\ left' = left /\ launches' = launches
        /\ spent' = spent \/ spent' = [spent EXCEPT ![c] = 0]
    BY <1>3 DEF Promise!Judge, Promise!Turn
  <2> HIDE DEF phase, spent
  <2>2. \E g \in 0 .. TCap : spent' = [spent EXCEPT ![c] = g]
    BY <2>1, LadderConstants DEF Sound
  <2> QED
    BY <2>1, <2>2, LadderConstants DEF Sound, Phases
<1>4. ASSUME NEW c \in Cells, Promise!Pay(c) PROVE After
  <2>1. /\ phase[c] = "judged" /\ phase' = [phase EXCEPT ![c] = "paid"]
        /\ left > 0 /\ left' = left - 1 /\ launches' = launches /\ spent' = spent
    BY <1>4 DEF Promise!Pay, Promise!Turn
  <2> HIDE DEF phase, spent
  <2>2. spent' = [spent EXCEPT ![c] = spent[c]] /\ spent[c] \in 0 .. TCap
    BY <2>1 DEF Sound
  <2> QED
    BY <2>1, <2>2, LadderConstants DEF Sound, Phases
<1>5. ASSUME NEW c \in Cells, Promise!Grant(c) PROVE After
  <2>1. /\ phase[c] = "judged" /\ phase' = [phase EXCEPT ![c] = "granted"]
        /\ left > 0 /\ left' = left - 1 /\ launches' = launches
        /\ spent[c] < TCap /\ spent' = [spent EXCEPT ![c] = spent[c] + 1]
    BY <1>5 DEF Promise!Grant, Promise!Turn
  <2> HIDE DEF phase, spent
  <2>2. spent[c] + 1 \in 0 .. TCap
    BY <2>1, LadderConstants DEF Sound
  <2> QED
    BY <2>1, <2>2, LadderConstants DEF Sound, Phases
<1>6. ASSUME NEW c \in Cells, Promise!Forget(c) PROVE After
  <2>1. phase' = phase /\ left' = left /\ launches' = launches /\ spent' = [spent EXCEPT ![c] = 0]
    BY <1>6 DEF Promise!Forget
  <2> HIDE DEF phase, spent
  <2>2. phase' = [phase EXCEPT ![c] = phase[c]] /\ phase[c] \in Phases /\ 0 \in 0 .. TCap
    BY <2>1, LadderConstants DEF Sound
  <2> QED
    BY <2>1, <2>2, LadderConstants DEF Sound, Phases
<1>7. ASSUME NEW c \in Cells, Promise!Settle(c) PROVE After
  <2>1. phase' = [phase EXCEPT ![c] = "settled"] /\ left' = left /\ launches' = launches /\ spent' = spent
    BY <1>7 DEF Promise!Settle, Promise!Turn
  <2> HIDE DEF phase, spent
  <2>2. spent' = [spent EXCEPT ![c] = spent[c]] /\ spent[c] \in 0 .. TCap
    BY <2>1 DEF Sound
  <2> QED
    BY <2>1, <2>2, LadderConstants DEF Sound, Phases
<1>8. CASE UNCHANGED Promise!promise
  BY <1>8 DEF Promise!promise
<1> HIDE DEF After
<1> QED
  BY <1>1, <1>2, <1>3, <1>4, <1>5, <1>6, <1>7, <1>8 DEF Promise!Next

\* No item is launched more often than its free launch and the budget of the run pay for
\* (run_agent_node, _retries_left), and the grants on disk never pass their cap, in whatever
\* keeps the promise.
THEOREM LaunchesArePaid == Promise!Spec => [](Promise!PromiseTypeOK /\ Promise!Paid)
<1> QED
  BY PromiseInit, PromiseStep, PTL DEF Promise!Spec, PromiseInv

\* The ladders implement their promise, and no item is launched more often by one runner than its
\* free launch and the budget of the run pay for, whatever ladders it climbs.
THEOREM EveryLaunchIsPaid == Spec => PromisesKept
BY LaunchesArePaid, LaddersKeepPromise, PTL DEF PromisesKept
=============================================================================
