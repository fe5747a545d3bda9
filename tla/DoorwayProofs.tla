--------------------------- MODULE DoorwayProofs ---------------------------
(***************************************************************************)
(* What calls, jobs and scripts do around a run, for any number of them.    *)
(* Edits: no pinned edit is lost and the history is a chain, every drained  *)
(* line is told or waits, the line of a cue is written once, a killed node  *)
(* gets no agent but of a launch past its last look, an amend resolves what *)
(* it does not keep on the seat of now.  Lanes: one unfinished run for a lane, and whoever boots one  *)
(* finds its meta.  Recovery: one respawn for a crash, closures of the dead *)
(* only, passes that repair.                                                *)
(***************************************************************************)
EXTENDS Doorway, TLAPS, FiniteSetTheorems, SequenceTheorems, WellFoundedInduction

NodeSet == [text : Calls \cup {"launch"}, route : {0, 1}]
GraphSet == [nodes : [Nodes -> NodeSet], cap : Nat]
RowSet == [old : GraphSet, new : GraphSet, by : Calls]
LineSet == [node : Nodes, whole : BOOLEAN]
Locked == {"row", "swap", "half"}
Places == {"idle", "looked", "early", "freeze", "shown", "lock", "meta", "bake", "request", "resume",
           "done", "dead", "refused", "line"} \cup Locked

-----------------------------------------------------------------------------
(* The inductive invariant of the edits.                                   *)

EditTypes ==
  /\ plan \in Plans /\ route \in {0, 1}
  /\ graph \in GraphSet /\ rows \in Seq(RowSet) /\ glock \in Calls \cup {NoOne}
  /\ pc \in [Calls -> Places] /\ token \in [Calls -> {Unpinned} \cup (Nat \X GraphSet)]
  /\ draft \in [Calls -> GraphSet] /\ kept \in [Calls -> SUBSET Nodes]

\* The places in which a call holds the lock.
Locking == \A w \in Calls : pc[w] \in Locked <=> glock = w

\* Between its row and its swap a call finds the graph that its row starts from.
SwapReady == \A w \in Calls : pc[w] = "swap" =>
  rows # <<>> /\ rows[Len(rows)].old = graph /\ rows[Len(rows)].new = draft[w] /\ Len(rows) \notin spoilt

\* The rows are a chain that ends, while no call is about to swap, in the graph.
Chained ==
  /\ spoilt \subseteq 1 .. Len(rows)
  /\ \A i \in 1..(Len(rows) - 1) : rows[i + 1].old = After(i)
  /\ (\A w \in Calls : pc[w] # "swap") /\ rows # <<>> => graph = After(Len(rows))

EditInv == EditTypes /\ Locking /\ SwapReady /\ Chained /\ NoLostEdit

-----------------------------------------------------------------------------
(* Steps that leave the edits alone.                                       *)

\* Nothing that the edits are made of changes.
Elsewhere == UNCHANGED <<graph, rows, glock, pc, token, draft, spoilt>>

\* A call goes from one place outside the lock to another.
Aside(w) ==
  /\ pc[w] \notin Locked /\ pc'[w] \notin Locked /\ pc' = [pc EXCEPT ![w] = pc'[w]]
  /\ UNCHANGED <<graph, rows, glock, spoilt>>
  /\ \A v \in Calls : v # w => draft'[v] = draft[v] /\ token'[v] = token[v]

\* A call that does not hold the lock moves nothing of the others.
LEMMA AsideKeeps ==
  ASSUME NEW w \in Calls, EditInv, EditTypes', Aside(w)
  PROVE  EditInv'
<1> USE DEF EditInv, EditTypes, Aside
<1>1. \A v \in Calls : v # w => pc'[v] = pc[v]
  OBVIOUS
<1>2. pc[w] # "swap" /\ pc'[w] # "swap" /\ pc[w] # "row" /\ pc'[w] # "row"
  BY DEF Locked
<1>3. Locking'
  BY <1>1 DEF Locking
<1>4. SwapReady'
  BY <1>1, <1>2 DEF SwapReady
<1>5. \A i : After(i)' = After(i)
  BY DEF After
<1>6. Chained'
  BY <1>1, <1>2, <1>5 DEF Chained
<1>7. NoLostEdit'
  BY <1>1, <1>2 DEF NoLostEdit
<1>8. QED
  BY <1>3, <1>4, <1>6, <1>7

LEMMA ElsewhereKeeps ==
  ASSUME EditInv, EditTypes', Elsewhere
  PROVE  EditInv'
<1> USE DEF EditInv, Elsewhere
<1>1. Locking'
  BY DEF Locking
<1>2. SwapReady'
  BY DEF SwapReady
<1>3. \A i : After(i)' = After(i)
  BY DEF After
<1>4. Chained'
  BY <1>3 DEF Chained
<1>5. NoLostEdit'
  BY DEF NoLostEdit
<1>6. QED
  BY <1>1, <1>2, <1>4, <1>5

-----------------------------------------------------------------------------
(* The edits, step by step.                                                *)

LEMMA EditsStart == ASSUME Init PROVE EditInv
<1> USE DEF Init
<1>1. Launched \in GraphSet
  BY DEF Launched, GraphSet, NodeSet
<1>2. EditTypes
  BY <1>1 DEF EditTypes, Places, Unpinned, RowSet
<1>3. Locking /\ SwapReady /\ NoLostEdit
  BY RevisionsConstants DEF Locking, SwapReady, NoLostEdit, Locked
<1>4. Chained
  BY DEF Chained
<1>5. QED
  BY <1>2, <1>3, <1>4 DEF EditInv

LEMMA RevisionTyped == ASSUME EditTypes PROVE Revision \in Nat \X GraphSet
BY DEF EditTypes, Revision

LEMMA LooksEdits == ASSUME EditInv, NEW w \in Calls, Looks(w) PROVE EditInv'
<1> USE DEF Looks, Goes, docs, bounds, memory, hist
<1>1. EditTypes
  BY DEF EditInv
<1>2. token' \in [Calls -> {Unpinned} \cup (Nat \X GraphSet)]
  BY <1>1, RevisionTyped DEF EditTypes
<1>3. pc' \in [Calls -> Places]
  BY <1>1 DEF EditTypes, Places
<1>4. EditTypes'
  BY <1>1, <1>2, <1>3 DEF EditTypes
<1>5. Aside(w)
  BY <1>1 DEF Aside, EditTypes, Locked
<1>6. QED
  BY <1>4, <1>5, AsideKeeps

LEMMA DraftsEdits == ASSUME EditInv, NEW w \in Calls, Drafts(w) PROVE EditInv'
<1> USE DEF Drafts, Goes, docs, bounds, memory, hist
<1>1. EditTypes
  BY DEF EditInv
<1>2. PICK edit \in plan.edits, c \in plan.caps : draft' = [draft EXCEPT ![w] =
         [nodes |-> [n \in Nodes |-> IF n \in edit THEN [graph.nodes[n] EXCEPT !.text = w] ELSE graph.nodes[n]],
          cap |-> c]]
  OBVIOUS
<1>3. c \in Nat
  BY <1>1, RevisionsConstants DEF EditTypes
<1>4. \A n \in Nodes : graph.nodes[n] \in NodeSet /\ [graph.nodes[n] EXCEPT !.text = w] \in NodeSet
  <2>1. \A n \in Nodes : graph.nodes[n] \in NodeSet
    BY <1>1 DEF EditTypes, GraphSet
  <2>2. \A r \in NodeSet : [r EXCEPT !.text = w] \in NodeSet
    BY DEF NodeSet
  <2>3. QED
    BY <2>1, <2>2
<1>5. draft' \in [Calls -> GraphSet]
  <2> DEFINE N == [n \in Nodes |-> IF n \in edit THEN [graph.nodes[n] EXCEPT !.text = w] ELSE graph.nodes[n]]
  <2>1. N \in [Nodes -> NodeSet]
    BY <1>4
  <2> HIDE DEF N
  <2>2. [nodes |-> N, cap |-> c] \in GraphSet
    BY <2>1, <1>3 DEF GraphSet
  <2>3. draft' = [draft EXCEPT ![w] = [nodes |-> N, cap |-> c]]
    BY <1>2 DEF N
  <2>4. QED
    BY <2>2, <2>3, <1>1 DEF EditTypes
<1>6. pc' \in [Calls -> Places]
  BY <1>1 DEF EditTypes, Places
<1>7. EditTypes'
  BY <1>1, <1>5, <1>6 DEF EditTypes
<1>8. Aside(w)
  BY <1>1, <1>2 DEF Aside, EditTypes, Locked
<1>9. QED
  BY <1>7, <1>8, AsideKeeps

LEMMA EarlyEdits == ASSUME EditInv, NEW w \in Calls, Early(w) \/ Refused(w) PROVE EditInv'
<1> USE DEF Early, Refused, Goes, docs, bounds, memory, hist
<1>1. EditTypes
  BY DEF EditInv
<1>2. pc' \in [Calls -> Places]
  BY <1>1 DEF EditTypes, Places
<1>3. EditTypes'
  BY <1>1, <1>2 DEF EditTypes
<1>4. Aside(w)
  BY <1>1 DEF Aside, EditTypes, Locked
<1>5. QED
  BY <1>3, <1>4, AsideKeeps

\* What is resolved is a graph again.
LEMMA Resolved ==
  ASSUME EditTypes, NEW w \in Calls, Freezes(w)
  PROVE  /\ draft' \in [Calls -> GraphSet]
         /\ \A n \in Nodes : draft'[w].nodes[n] =
              [draft[w].nodes[n] EXCEPT !.route = IF n \in Frozen(w) THEN graph.nodes[n].route ELSE route]
         /\ \A v \in Calls : v # w => draft'[v] = draft[v]
<1> DEFINE R(n) == IF n \in Frozen(w) THEN graph.nodes[n].route ELSE route
           N == [n \in Nodes |-> [draft[w].nodes[n] EXCEPT !.route = R(n)]]
<1>1. \A n \in Nodes : R(n) \in {0, 1}
  BY DEF EditTypes, GraphSet, NodeSet
<1>2. draft[w] \in GraphSet /\ draft[w].nodes \in [Nodes -> NodeSet]
  BY DEF EditTypes, GraphSet
<1>3. draft' = [draft EXCEPT ![w].nodes = N]
  BY DEF Freezes
<1> HIDE DEF R
<1>4. N \in [Nodes -> NodeSet]
  BY <1>1, <1>2 DEF NodeSet
<1>5. \A n \in Nodes : N[n] = [draft[w].nodes[n] EXCEPT !.route = R(n)]
  OBVIOUS
<1> HIDE DEF N
<1>6. draft' = [draft EXCEPT ![w] = [draft[w] EXCEPT !.nodes = N]]
  BY <1>3
<1>7. [draft[w] EXCEPT !.nodes = N] \in GraphSet /\ [draft[w] EXCEPT !.nodes = N].nodes = N
  BY <1>2, <1>4 DEF GraphSet
<1>8. draft' \in [Calls -> GraphSet] /\ draft'[w].nodes = N /\ \A v \in Calls : v # w => draft'[v] = draft[v]
  BY <1>6, <1>7 DEF EditTypes
<1>9. QED
  BY <1>5, <1>8 DEF R

LEMMA FreezesEdits == ASSUME EditInv, NEW w \in Calls, Freezes(w) PROVE EditInv'
<1> USE DEF Goes, docs, bounds, memory, hist
<1>1. EditTypes
  BY DEF EditInv
<1>2. pc' \in [Calls -> Places] /\ kept' \in [Calls -> SUBSET Nodes]
  BY <1>1 DEF EditTypes, Places, Freezes, Frozen
<1>3. EditTypes'
  BY <1>1, <1>2, Resolved DEF EditTypes, Freezes
<1>4. Aside(w)
  BY <1>1, Resolved DEF Aside, EditTypes, Locked, Freezes
<1>5. QED
  BY <1>3, <1>4, AsideKeeps

LEMMA TailEdits ==
  ASSUME EditInv, NEW w \in Calls, ReadsMeta(w) \/ BakesMeta(w) \/ Requests(w) \/ Resumes(w)
  PROVE  EditInv'
<1> USE DEF ReadsMeta, BakesMeta, Requests, Resumes, Goes, docs, bounds, memory, hist
<1>1. EditTypes
  BY DEF EditInv
<1>2. pc' \in [Calls -> Places]
  BY <1>1 DEF EditTypes, Places
<1>3. UNCHANGED <<plan, route, graph, rows, glock, token, draft, kept, spoilt>>
  BY Zenon
<1>4. EditTypes'
  BY <1>1, <1>2, <1>3 DEF EditTypes
<1>5. pc[w] \notin Locked /\ pc'[w] \notin Locked /\ pc' = [pc EXCEPT ![w] = pc'[w]]
  BY <1>1 DEF EditTypes, Locked
<1>6. Aside(w)
  BY <1>3, <1>5 DEF Aside
<1>7. QED
  BY <1>4, <1>6, AsideKeeps

LEMMA SteersEdits == ASSUME EditInv, NEW w \in Calls, Steers(w) PROVE EditInv'
<1> USE DEF Steers, Goes, docs, bounds, memory, hist
<1>1. EditTypes
  BY DEF EditInv
<1>2. PICK n \in Nodes : /\ Goes(w, "idle", IF RunOver \/ Over(n) THEN "refused" ELSE "line")
                         /\ kept' = [kept EXCEPT ![w] = {n}]
  OBVIOUS
<1>3. pc' \in [Calls -> Places] /\ kept' \in [Calls -> SUBSET Nodes]
  BY <1>1, <1>2 DEF EditTypes, Places
<1>4. token' \in [Calls -> {Unpinned} \cup (Nat \X GraphSet)]
  BY <1>1, RevisionTyped DEF EditTypes
<1>5. EditTypes'
  BY <1>1, <1>3, <1>4 DEF EditTypes
<1>6. Aside(w)
  BY <1>1, <1>2 DEF Aside, EditTypes, Locked
<1>7. QED
  BY <1>5, <1>6, AsideKeeps

\* The lock is taken over the revision that the token names.
LEMMA TakesEdits == ASSUME EditInv, NEW w \in Calls, Takes(w) PROVE EditInv'
<1> USE DEF Takes, Goes, calls, docs, bounds, memory, hist
<1>1. EditTypes /\ Locking /\ SwapReady /\ Chained /\ NoLostEdit
  BY DEF EditInv
<1>2. pc' \in [Calls -> Places] /\ glock' \in Calls \cup {NoOne}
  BY <1>1 DEF EditTypes, Places, Locked
<1>3. EditTypes'
  BY <1>1, <1>2 DEF EditTypes
<1>4. CASE Stale(w)
  <2>1. Aside(w)
    BY <1>1, <1>4 DEF Aside, EditTypes, Locked
  <2>2. QED
    BY <2>1, <1>3, AsideKeeps
<1>5. CASE ~ Stale(w)
  <2>1. pc' = [pc EXCEPT ![w] = "row"] /\ glock' = w /\ glock = NoOne
    BY <1>5
  <2>2. \A v \in Calls : pc[v] \notin Locked
    BY <1>1, <2>1, RevisionsConstants DEF Locking
  <2>3. \A v \in Calls : v # w => pc'[v] = pc[v]
    BY <2>1, <1>1 DEF EditTypes
  <2>4. pc'[w] = "row"
    BY <2>1, <1>1 DEF EditTypes
  <2>5. Locking'
    BY <2>1, <2>2, <2>3, <2>4 DEF Locking, Locked
  <2>6. \A v \in Calls : pc'[v] # "swap" /\ pc[v] # "swap"
    BY <2>2, <2>3, <2>4 DEF Locked
  <2>7. SwapReady'
    BY <2>6 DEF SwapReady
  <2>8. \A i : After(i)' = After(i)
    BY DEF After
  <2>9. Chained'
    BY <2>6, <2>8, <1>1 DEF Chained
  <2>10. token[w] # Unpinned => graph = token[w][2] /\ Len(rows) = token[w][1]
    BY <1>5 DEF Stale, Revision
  <2>11. \A v \in Calls : v # w => pc'[v] \notin {"row", "swap"}
    BY <2>2, <2>3 DEF Locked
  <2>12. NoLostEdit'
    BY <2>10, <2>11, <2>4, <1>1 DEF NoLostEdit, EditTypes
  <2>13. QED
    BY <1>3, <2>5, <2>7, <2>9, <2>12 DEF EditInv
<1>6. QED
  BY <1>4, <1>5

\* The row is written over the graph that it starts from.
LEMMA RowEdits == ASSUME EditInv, NEW w \in Calls, WritesRow(w) PROVE EditInv'
<1> USE DEF WritesRow, Goes, bounds, memory, hist
<1>1. EditTypes /\ Locking /\ SwapReady /\ Chained /\ NoLostEdit
  BY DEF EditInv
<1> DEFINE row == [old |-> graph, new |-> draft[w], by |-> w]
<1>2. row \in RowSet /\ rows \in Seq(RowSet)
  BY <1>1 DEF EditTypes, RowSet
<1>3. /\ rows' = Append(rows, row) /\ rows' \in Seq(RowSet) /\ rows' # <<>>
      /\ Len(rows') = Len(rows) + 1 /\ Len(rows) \in Nat
      /\ rows'[Len(rows) + 1] = row
      /\ \A i \in 1 .. Len(rows) : rows'[i] = rows[i]
  <2>1. rows' = Append(rows, row)
    OBVIOUS
  <2> HIDE DEF row
  <2>2. QED
    BY <2>1, <1>2
<1>4. row.old = graph /\ row.new = draft[w]
  OBVIOUS
<1> HIDE DEF row
<1>5. pc[w] = "row" /\ pc' = [pc EXCEPT ![w] = "swap"] /\ glock = w
  BY <1>1 DEF Locking, Locked
<1>6. pc' \in [Calls -> Places] /\ pc'[w] = "swap" /\ \A v \in Calls : v # w => pc'[v] = pc[v]
  BY <1>1, <1>5 DEF EditTypes, Places, Locked
<1>7. EditTypes'
  <2>1. UNCHANGED <<plan, route, graph, glock, token, draft, kept>>
    OBVIOUS
  <2>2. QED
    BY <1>1, <1>3, <1>6, <2>1 DEF EditTypes
<1>8. \A v \in Calls : v # w => pc[v] \notin Locked
  BY <1>1, <1>5 DEF Locking
<1>9. UNCHANGED <<graph, glock, token, draft, spoilt>>
  OBVIOUS
<1>10. Locking'
  BY <1>1, <1>5, <1>6, <1>9 DEF Locking, Locked
<1>11. SwapReady'
  <2>1. Len(rows) + 1 \notin spoilt
    BY <1>1, <1>3 DEF Chained
  <2>2. \A v \in Calls : pc'[v] = "swap" => v = w
    BY <1>6, <1>8 DEF Locked
  <2>3. QED
    BY <2>1, <2>2, <1>3, <1>4, <1>9 DEF SwapReady
<1>12. \A i \in 1 .. Len(rows) : After(i)' = After(i)
  BY <1>3, <1>9 DEF After
<1>13. Chained'
  <2>1. spoilt' \subseteq 1 .. Len(rows')
    BY <1>1, <1>3, <1>9 DEF Chained
  <2>2. rows # <<>> => graph = After(Len(rows))
    BY <1>1, <1>5, <1>8 DEF Chained, Locked
  <2>3. \A i \in 1 .. (Len(rows') - 1) : rows'[i + 1].old = After(i)'
    <3> SUFFICES ASSUME NEW i \in 1 .. Len(rows) PROVE rows'[i + 1].old = After(i)
      BY <1>3, <1>12
    <3>1. CASE i = Len(rows)
      BY <3>1, <2>2, <1>2, <1>3, <1>4
    <3>2. CASE i < Len(rows)
      <4>1. i \in 1 .. (Len(rows) - 1) /\ i + 1 \in 1 .. Len(rows)
        BY <3>2, <1>3
      <4>2. QED
        BY <4>1, <1>1, <1>3 DEF Chained
    <3>3. QED
      BY <3>1, <3>2, <1>3
  <2>4. QED
    BY <2>1, <2>3, <1>6 DEF Chained
<1>14. NoLostEdit'
  <2>1. token[w] # Unpinned => graph = token[w][2] /\ Len(rows') = token[w][1] + 1
    <3>1. token[w] # Unpinned => graph = token[w][2] /\ Len(rows) = token[w][1] + 0
      BY <1>1, <1>5 DEF NoLostEdit
    <3>2. token[w] # Unpinned => token[w][1] \in Nat
      BY <1>1 DEF EditTypes
    <3>3. QED
      BY <3>1, <3>2, <1>3
  <2>2. \A v \in Calls : pc'[v] \in {"row", "swap"} => v = w
    BY <1>6, <1>8 DEF Locked
  <2>3. QED
    BY <2>1, <2>2, <1>6, <1>9 DEF NoLostEdit
<1>15. QED
  BY <1>7, <1>10, <1>11, <1>13, <1>14 DEF EditInv

\* The graph becomes the new one of the last row.
LEMMA SwapEdits == ASSUME EditInv, NEW w \in Calls, Swaps(w) PROVE EditInv'
<1> USE DEF Swaps, Goes, bounds, memory, hist
<1>1. EditTypes /\ Locking /\ SwapReady /\ Chained /\ NoLostEdit
  BY DEF EditInv
<1>2. pc[w] = "swap" /\ pc' = [pc EXCEPT ![w] = "meta"] /\ glock = w
  BY <1>1 DEF Locking, Locked
<1>3. pc' \in [Calls -> Places] /\ pc'[w] = "meta" /\ \A v \in Calls : v # w => pc'[v] = pc[v]
  BY <1>1, <1>2 DEF EditTypes, Places
<1>4. \A v \in Calls : pc'[v] \notin Locked
  BY <1>1, <1>2, <1>3 DEF Locking, Locked
<1>5. EditTypes'
  BY <1>1, <1>3 DEF EditTypes
<1>6. Locking'
  BY <1>4, RevisionsConstants DEF Locking
<1>7. SwapReady' /\ NoLostEdit'
  BY <1>4 DEF SwapReady, NoLostEdit, Locked
<1>8. \A i : After(i)' = After(i)
  BY DEF After
<1>9. graph' = After(Len(rows))
  BY <1>1, <1>2 DEF SwapReady, After
<1>10. Chained'
  BY <1>1, <1>8, <1>9 DEF Chained
<1>11. QED
  BY <1>5, <1>6, <1>7, <1>10 DEF EditInv

\* A call that dies between its row and its swap leaves a row that is passed over.
LEMMA DeathEdits == ASSUME EditInv, NEW w \in Calls, CallDies(w) PROVE EditInv'
<1> USE DEF CallDies, memory
<1>1. EditTypes /\ Locking /\ SwapReady /\ Chained /\ NoLostEdit
  BY DEF EditInv
<1>2. pc' \in [Calls -> Places] /\ pc'[w] = "dead" /\ \A v \in Calls : v # w => pc'[v] = pc[v]
  BY <1>1 DEF EditTypes, Places
<1>3. glock' = IF glock = w THEN NoOne ELSE glock
  OBVIOUS
<1>4. spoilt' = spoilt \cup (IF pc[w] = "swap" THEN {Len(rows)} ELSE {})
  OBVIOUS
<1>5. UNCHANGED <<plan, route, graph, rows, token, draft, kept>>
  OBVIOUS
<1>6. EditTypes'
  BY <1>1, <1>2, <1>3, <1>5 DEF EditTypes
<1>7. Locking'
  BY <1>1, <1>2, <1>3, RevisionsConstants DEF Locking, Locked
<1>8. \A v \in Calls : pc'[v] = "swap" => pc[v] = "swap" /\ v # w /\ pc[w] # "swap"
  BY <1>1, <1>2 DEF Locking, Locked
<1>9. SwapReady'
  BY <1>1, <1>4, <1>5, <1>8 DEF SwapReady
<1>10. NoLostEdit'
  BY <1>1, <1>2, <1>5 DEF NoLostEdit
<1>11. CASE pc[w] # "swap"
  <2>1. \A i : After(i)' = After(i)
    BY <1>4, <1>5, <1>11 DEF After
  <2>2. spoilt' = spoilt
    BY <1>4, <1>11
  <2>3. (\A v \in Calls : pc'[v] # "swap") => \A v \in Calls : pc[v] # "swap"
    BY <1>2, <1>11
  <2>4. Chained'
    BY <1>1, <1>5, <2>1, <2>2, <2>3 DEF Chained
  <2>5. QED
    BY <1>6, <1>7, <1>9, <1>10, <2>4 DEF EditInv
<1>12. CASE pc[w] = "swap"
  <2>1. rows # <<>> /\ rows[Len(rows)].old = graph /\ rows \in Seq(RowSet)
    BY <1>1, <1>12 DEF SwapReady, EditTypes
  <2>2. Len(rows) \in Nat /\ Len(rows) >= 1
    BY <2>1
  <2>3. spoilt' = spoilt \cup {Len(rows)}
    BY <1>4, <1>12
  <2>4. \A i \in 1 .. (Len(rows) - 1) : After(i)' = After(i)
    BY <2>2, <2>3, <1>5 DEF After
  <2>5. After(Len(rows))' = graph
    BY <2>1, <2>3, <1>5 DEF After
  <2>6. spoilt' \subseteq 1 .. Len(rows)
    <3>1. spoilt \subseteq 1 .. Len(rows)
      BY <1>1 DEF Chained
    <3>2. Len(rows) \in 1 .. Len(rows)
      BY <2>2
    <3>3. QED
      BY <3>1, <3>2, <2>3
  <2>7. \A i \in 1 .. (Len(rows) - 1) : rows'[i + 1].old = After(i)'
    BY <1>1, <2>4, <1>5 DEF Chained
  <2>8. graph' = After(Len(rows))'
    BY <2>5, <1>5
  <2>9. Chained'
    BY <2>6, <2>7, <2>8, <1>5 DEF Chained
  <2>10. QED
    BY <1>6, <1>7, <1>9, <1>10, <2>9 DEF EditInv
<1>13. QED
  BY <1>11, <1>12

\* A line goes in under the lock, and a long one keeps it.
LEMMA SteeringEdits ==
  ASSUME EditInv, NEW w \in Calls, Appends(w) \/ Completes(w)
  PROVE  EditInv'
<1> USE DEF Appends, Completes, Goes, bounds, memory, hist
<1>1. EditTypes /\ Locking /\ SwapReady /\ Chained /\ NoLostEdit
  BY DEF EditInv
<1>2. UNCHANGED <<plan, route, graph, rows, token, draft, kept, spoilt>>
  BY Zenon
<1>3. /\ pc' \in [Calls -> Places] /\ pc'[w] \notin {"row", "swap"} /\ pc[w] \in {"line", "half"}
      /\ \A v \in Calls : v # w => pc'[v] = pc[v]
      /\ glock = NoOne \/ (glock = w /\ pc[w] = "half")
      /\ glock' = (IF pc'[w] = "half" THEN w ELSE NoOne)
  BY <1>1 DEF EditTypes, Places, Locking, Locked
<1>4. \A v \in Calls : v # w => pc[v] \notin Locked
  BY <1>1, <1>3, RevisionsConstants DEF Locking
<1>5. EditTypes'
  BY <1>1, <1>2, <1>3 DEF EditTypes
<1>6. Locking'
  BY <1>3, <1>4, RevisionsConstants DEF Locking, Locked
<1>7. \A v \in Calls : pc'[v] \notin {"row", "swap"} /\ pc[v] # "swap"
  BY <1>3, <1>4 DEF Locked
<1>8. SwapReady' /\ NoLostEdit'
  BY <1>7 DEF SwapReady, NoLostEdit
<1>9. \A i : After(i)' = After(i)
  BY <1>2 DEF After
<1>10. Chained'
  BY <1>1, <1>2, <1>7, <1>9 DEF Chained
<1>11. QED
  BY <1>5, <1>6, <1>8, <1>10 DEF EditInv

\* The runner, a kill and the seat write nothing that an edit is made of.
LEMMA OthersEdits ==
  ASSUME EditInv,
         Runner \/ RunnerDies \/ Revives \/ SeatMoves \/ \E n \in Nodes : Kills(n) \/ Sweeps(n)
  PROVE  EditInv'
<1>1. UNCHANGED <<plan, kept, graph, rows, glock, pc, token, draft, spoilt>> /\ (route' = route \/ SeatMoves)
  <2> USE DEF docs, calls, memory, bounds, hist
  <2>1. CASE Reloads \/ Waves \/ Retires \/ RunnerDies \/ Revives \/ SeatMoves
    BY <2>1 DEF Reloads, Waves, Retires, RunnerDies, Revives, SeatMoves
  <2>2. ASSUME NEW n \in Nodes, Refuses(n) \/ Cues(n) \/ Answers(n) \/ Dies(n) \/ Kills(n)
        PROVE  UNCHANGED <<plan, route, kept, graph, rows, glock, pc, token, draft, spoilt>>
    BY <2>2, Zenon DEF Refuses, Cues, Answers, Dies, Kills
  <2>3. ASSUME NEW n \in Nodes, Bakes(n) \/ Clears(n) \/ Launches(n) \/ RefusesStale(n)
        PROVE  UNCHANGED <<plan, route, kept, graph, rows, glock, pc, token, draft, spoilt>>
    BY <2>3, Zenon DEF Bakes, Clears, Launches, RefusesStale
  <2>4. QED
    BY <2>1, <2>2, <2>3 DEF Runner, Sweeps
<1>2. route' \in {0, 1}
  BY <1>1 DEF EditInv, EditTypes, SeatMoves
<1>3. EditTypes'
  BY <1>1, <1>2 DEF EditInv, EditTypes
<1>4. Elsewhere
  BY <1>1 DEF Elsewhere
<1>5. QED
  BY <1>3, <1>4, ElsewhereKeeps

LEMMA EditsStep == ASSUME EditInv, [Next]_vars PROVE EditInv'
<1>1. CASE UNCHANGED vars
  <2>1. UNCHANGED <<plan, route, kept, graph, rows, glock, pc, token, draft, spoilt>>
    BY <1>1 DEF vars, docs, calls, hist
  <2>2. EditTypes' /\ Elsewhere
    BY <2>1 DEF EditInv, EditTypes, Elsewhere
  <2>3. QED
    BY <2>2, ElsewhereKeeps
<1>2. ASSUME NEW w \in Calls, Amending(w) PROVE EditInv'
  BY <1>2, LooksEdits, DraftsEdits, EarlyEdits, FreezesEdits, TailEdits, TakesEdits, RowEdits, SwapEdits DEF Amending
<1>3. ASSUME NEW w \in Calls, Steering(w) \/ CallDies(w) PROVE EditInv'
  BY <1>3, SteersEdits, SteeringEdits, DeathEdits DEF Steering
<1>4. CASE Next
  BY <1>2, <1>3, <1>4, OthersEdits DEF Next
<1>5. QED
  BY <1>1, <1>4

-----------------------------------------------------------------------------
(* The inductive invariant of the lines and of the children.               *)

LineTypes ==
  /\ inbox \in Seq(LineSet) /\ claims \subseteq Nodes /\ up \in BOOLEAN
  /\ seen \subseteq Nat /\ told \subseteq Nat /\ torn \subseteq Nat /\ waiting \in [Nodes -> SUBSET Nat]
  /\ child \in [Nodes -> [told : SUBSET Nat, alive : BOOLEAN]]

\* Only a call that steers is about to write a line, and it knows to whom.
Askers == \A w \in Calls : pc[w] = "line" => kept[w] # {} /\ plan.steers # {}

\* A live runner drained no line that is not there.
DrainsAreLines == up => seen \subseteq DOMAIN inbox

\* While nobody steers, a line is that of a claim, and of another claim than every other.
CuesAreClaimed == plan.steers = {} =>
  /\ \A i \in DOMAIN inbox : inbox[i].node \in claims
  /\ \A i, j \in DOMAIN inbox : inbox[i].node = inbox[j].node => i = j

LineInv == LineTypes /\ Askers /\ DrainsAreLines /\ DrainsAreTold /\ CuesAreClaimed

LEMMA LinesStart == ASSUME Init PROVE LineInv
<1> USE DEF Init
<1>1. LineTypes
  BY DEF LineTypes, NoChild, LineSet
<1>2. Askers /\ DrainsAreLines /\ DrainsAreTold /\ CuesAreClaimed
  BY DEF Askers, DrainsAreLines, DrainsAreTold, CuesAreClaimed
<1>3. QED
  BY <1>1, <1>2 DEF LineInv

\* A step that neither drains nor writes a line, whoever is launched or ends by it.
Silent ==
  /\ UNCHANGED <<plan, inbox, claims, up, seen, told, torn, waiting>>
  /\ child' \in [Nodes -> [told : SUBSET Nat, alive : BOOLEAN]]

LEMMA SilentKeeps == ASSUME LineInv, Askers', Silent PROVE LineInv'
<1> USE DEF LineInv, Silent
<1>1. LineTypes'
  BY DEF LineTypes
<1>2. DrainsAreLines' /\ DrainsAreTold' /\ CuesAreClaimed'
  BY DEF DrainsAreLines, DrainsAreTold, CuesAreClaimed
<1>3. QED
  BY <1>1, <1>2

\* Who asks is settled by the calls alone.
LEMMA CallsAsk ==
  ASSUME EditInv, LineInv, NEW w \in Calls, Amending(w) \/ Steering(w) \/ CallDies(w)
  PROVE  Askers'
<1>1. EditTypes /\ Askers
  BY DEF EditInv, LineInv
<1> USE <1>1 DEF EditTypes, Askers, Goes
<1>2. CASE Looks(w) \/ Drafts(w) \/ Early(w) \/ Refused(w)
  BY <1>2 DEF Looks, Drafts, Early, Refused
<1>3. CASE Freezes(w)
  BY <1>3 DEF Freezes
<1>4. CASE Takes(w) \/ WritesRow(w) \/ Swaps(w)
  BY <1>4 DEF Takes, WritesRow, Swaps
<1>5. CASE ReadsMeta(w) \/ BakesMeta(w) \/ Requests(w) \/ Resumes(w)
  BY <1>5 DEF ReadsMeta, BakesMeta, Requests, Resumes
<1>6. CASE Steers(w)
  <2>1. PICK n \in Nodes : /\ Goes(w, "idle", IF RunOver \/ Over(n) THEN "refused" ELSE "line")
                           /\ kept' = [kept EXCEPT ![w] = {n}]
    BY <1>6 DEF Steers
  <2>2. UNCHANGED plan /\ plan.steers # {}
    BY <1>6 DEF Steers
  <2>3. QED
    BY <2>1, <2>2
<1>7. CASE Appends(w) \/ Completes(w)
  BY <1>7 DEF Appends, Completes
<1>8. CASE CallDies(w)
  BY <1>8 DEF CallDies
<1>9. QED
  BY <1>2, <1>3, <1>4, <1>5, <1>6, <1>7, <1>8 DEF Amending, Steering

LEMMA BootKeeps ==
  ASSUME LineInv, Askers', Boots, UNCHANGED <<plan, inbox, claims, torn, child>>
  PROVE  LineInv'
<1> USE DEF LineInv, Boots
<1>1. LineTypes'
  BY DEF LineTypes
<1>2. DrainsAreLines' /\ DrainsAreTold' /\ CuesAreClaimed'
  BY DEF DrainsAreLines, DrainsAreTold, CuesAreClaimed
<1>3. QED
  BY <1>1, <1>2

LEMMA CallLines ==
  ASSUME EditInv, LineInv, NEW w \in Calls, Amending(w) \/ Steers(w) \/ CallDies(w)
  PROVE  LineInv'
<1>1. Askers'
  BY CallsAsk DEF Steering
<1>2. CASE Resumes(w)
  <2>1. UNCHANGED <<plan, inbox, claims, torn, child>>
    BY <1>2 DEF Resumes, docs
  <2>2. CASE up
    <3>1. Silent
      BY <1>2, <2>1, <2>2 DEF Resumes, Silent, LineInv, LineTypes
    <3>2. QED
      BY <1>1, <3>1, SilentKeeps
  <2>3. CASE ~ up
    BY <1>1, <1>2, <2>1, <2>3, BootKeeps DEF Resumes
  <2>4. QED
    BY <2>2, <2>3
<1>3. CASE ~ Resumes(w)
  <2>1. UNCHANGED <<plan, inbox, claims, up, seen, told, torn, waiting, child>>
    <3>1. CASE Looks(w) \/ Drafts(w) \/ Early(w) \/ Refused(w) \/ Freezes(w)
      BY <3>1 DEF Looks, Drafts, Early, Refused, Freezes, docs, memory, hist
    <3>2. CASE Takes(w) \/ WritesRow(w) \/ Swaps(w) \/ ReadsMeta(w) \/ BakesMeta(w) \/ Requests(w)
      BY <3>2, Zenon DEF Takes, WritesRow, Swaps, ReadsMeta, BakesMeta, Requests, docs, memory, hist
    <3>3. CASE Steers(w) \/ CallDies(w)
      BY <3>3 DEF Steers, CallDies, docs, memory, hist
    <3>4. QED
      BY <1>3, <3>1, <3>2, <3>3 DEF Amending
  <2>2. Silent
    BY <2>1 DEF Silent, LineInv, LineTypes
  <2>3. QED
    BY <1>1, <2>2, SilentKeeps
<1>4. QED
  BY <1>2, <1>3

\* A line is appended behind those that the runner has drained.
LEMMA Appended ==
  ASSUME LineTypes, NEW line \in LineSet, inbox' = Append(inbox, line)
  PROVE  /\ inbox' \in Seq(LineSet) /\ Len(inbox) \in Nat
         /\ DOMAIN inbox = 1 .. Len(inbox) /\ Len(inbox') = Len(inbox) + 1
         /\ DOMAIN inbox' = DOMAIN inbox \cup {Len(inbox) + 1}
         /\ \A i \in DOMAIN inbox : inbox'[i] = inbox[i]
         /\ inbox'[Len(inbox) + 1] = line
         /\ Len(inbox) + 1 \notin DOMAIN inbox
<1>1. inbox \in Seq(LineSet)
  BY DEF LineTypes
<1>2. QED
  BY <1>1

\* Only who steers appends, so nothing is said then of the cues.
LEMMA AppendsLines == ASSUME EditInv, LineInv, NEW w \in Calls, Appends(w) PROVE LineInv'
<1>1. Askers'
  BY CallsAsk DEF Steering
<1>2. /\ pc[w] = "line" /\ UNCHANGED <<plan, claims, up, seen, told, torn, waiting, child>>
      /\ inbox' = IF Stale(w) THEN inbox ELSE Append(inbox, [node |-> CHOOSE n \in kept[w] : TRUE, whole |-> ~ plan.long])
  BY DEF Appends, Goes, memory, hist
<1>3. LineTypes /\ Askers /\ DrainsAreLines /\ DrainsAreTold /\ kept[w] \subseteq Nodes
  BY DEF LineInv, EditInv, EditTypes
<1>4. CASE Stale(w)
  BY <1>1, <1>2, <1>3, <1>4, SilentKeeps DEF Silent, LineTypes
<1>5. CASE ~ Stale(w)
  <2> DEFINE line == [node |-> CHOOSE n \in kept[w] : TRUE, whole |-> ~ plan.long]
  <2>1. kept[w] # {} /\ plan.steers # {}
    BY <1>2, <1>3 DEF Askers
  <2>2. (CHOOSE n \in kept[w] : TRUE) \in Nodes
    BY <1>3, <2>1
  <2>3. line \in LineSet
    BY <2>2 DEF LineSet
  <2>4. inbox' = Append(inbox, line)
    BY <1>2, <1>5
  <2> HIDE DEF line
  <2>5. inbox' \in Seq(LineSet) /\ DOMAIN inbox \subseteq DOMAIN inbox' /\ \A i \in DOMAIN inbox : inbox'[i] = inbox[i]
    BY <1>3, <2>3, <2>4, Appended
  <2>6. LineTypes'
    BY <1>2, <1>3, <2>5 DEF LineTypes
  <2>7. DrainsAreLines' /\ DrainsAreTold'
    BY <1>2, <1>3, <2>5 DEF DrainsAreLines, DrainsAreTold
  <2>8. CuesAreClaimed'
    BY <1>2, <2>1 DEF CuesAreClaimed
  <2>9. QED
    BY <1>1, <2>6, <2>7, <2>8 DEF LineInv
<1>6. QED
  BY <1>4, <1>5

LEMMA CompletesLines == ASSUME EditInv, LineInv, NEW w \in Calls, Completes(w) PROVE LineInv'
<1>1. Askers'
  BY CallsAsk DEF Steering
<1>2. UNCHANGED <<plan, claims, up, seen, told, torn, waiting, child>>
  BY DEF Completes, memory, hist
<1>3. PICK i \in DOMAIN inbox : inbox' = [inbox EXCEPT ![i].whole = TRUE]
  BY DEF Completes
<1>4. LineTypes /\ DrainsAreLines /\ DrainsAreTold /\ CuesAreClaimed
  BY DEF LineInv
<1>5. inbox \in Seq(LineSet) /\ inbox[i] \in LineSet /\ \A j \in DOMAIN inbox : inbox[j] \in LineSet
  BY <1>4 DEF LineTypes
<1> DEFINE line == [inbox[i] EXCEPT !.whole = TRUE]
<1>6. line \in LineSet /\ line.node = inbox[i].node
  BY <1>5 DEF LineSet
<1>7. inbox' = [inbox EXCEPT ![i] = line]
  BY <1>3
<1> HIDE DEF line
<1>8. inbox' \in Seq(LineSet)
  BY <1>5, <1>6, <1>7, ExceptSeq
<1>9. DOMAIN inbox' = DOMAIN inbox /\ \A j \in DOMAIN inbox : inbox'[j].node = inbox[j].node
  BY <1>6, <1>7
<1>10. LineTypes'
  BY <1>2, <1>4, <1>8 DEF LineTypes
<1>11. DrainsAreLines' /\ DrainsAreTold'
  BY <1>2, <1>4, <1>9 DEF DrainsAreLines, DrainsAreTold
<1>12. CuesAreClaimed'
  BY <1>2, <1>4, <1>9 DEF CuesAreClaimed
<1>13. QED
  BY <1>1, <1>10, <1>11, <1>12 DEF LineInv

\* The runner, kills and the seat leave the calls alone.
LEMMA CallsRest ==
  ASSUME LineInv, UNCHANGED <<plan, calls>>
  PROVE  Askers'
BY DEF LineInv, Askers, calls

LEMMA DrainedTyped ==
  ASSUME LineTypes, NEW n \in Nodes
  PROVE  Drained(n) \subseteq Nat /\ Addressed(n) \subseteq DOMAIN inbox /\ Addressed(n) \subseteq Nat
<1>1. DOMAIN inbox \subseteq Nat
  BY DEF LineTypes
<1>2. QED
  BY <1>1 DEF Drained, Addressed, LineTypes

\* A wave drains all the lines: each is told, waits, or was half written.
LEMMA WavesLines == ASSUME LineInv, Waves PROVE LineInv'
<1>1. LineTypes /\ DrainsAreLines /\ DrainsAreTold /\ CuesAreClaimed
  BY DEF LineInv
<1>2. UNCHANGED <<plan, inbox, claims, up>> /\ up
  BY DEF Waves, docs, calls
<1>3. /\ seen' = DOMAIN inbox
      /\ torn' = torn \cup {i \in DOMAIN inbox \ seen : ~ inbox[i].whole}
      /\ waiting' = [n \in Nodes |-> IF n \in Ready THEN {} ELSE Drained(n)]
      /\ child' = [n \in Nodes |-> IF n \in Ready THEN [told |-> Drained(n), alive |-> FALSE] ELSE child[n]]
      /\ told' = told \cup UNION {Drained(n) : n \in Ready}
  BY DEF Waves
<1>4. Ready \subseteq Nodes
  BY DEF Ready
<1>5. \A n \in Nodes : Drained(n) \subseteq Nat
  BY <1>1, DrainedTyped
<1>6. DOMAIN inbox \subseteq Nat /\ \A i \in DOMAIN inbox : inbox[i] \in LineSet
  BY <1>1 DEF LineTypes
<1>7. LineTypes'
  <2>1. seen' \subseteq Nat /\ torn' \subseteq Nat /\ told' \subseteq Nat
    BY <1>1, <1>3, <1>4, <1>5, <1>6 DEF LineTypes
  <2>2. waiting' \in [Nodes -> SUBSET Nat]
    BY <1>3, <1>5
  <2>3. child' \in [Nodes -> [told : SUBSET Nat, alive : BOOLEAN]]
    BY <1>1, <1>3, <1>5 DEF LineTypes
  <2>4. QED
    BY <1>1, <1>2, <2>1, <2>2, <2>3 DEF LineTypes
<1>8. DrainsAreTold'
  <2> SUFFICES ASSUME NEW i \in DOMAIN inbox, i \notin torn'
               PROVE  i \in told' \cup waiting'[inbox[i].node]
    BY <1>2, <1>3 DEF DrainsAreTold
  <2> DEFINE n == inbox[i].node
  <2>1. n \in Nodes
    BY <1>6 DEF LineSet
  <2>2. i \in told \/ i \in Drained(n)
    <3>1. CASE i \in seen
      BY <1>1, <1>2, <1>3, <3>1 DEF DrainsAreTold, Drained
    <3>2. CASE i \notin seen
      BY <1>3, <3>2 DEF Drained, Addressed
    <3>3. QED
      BY <3>1, <3>2
  <2>3. n \in Ready => Drained(n) \subseteq told'
    BY <1>3
  <2>4. n \notin Ready => waiting'[n] = Drained(n)
    BY <1>3, <2>1
  <2>5. QED
    BY <1>3, <2>2, <2>3, <2>4
<1>9. DrainsAreLines' /\ CuesAreClaimed'
  BY <1>1, <1>2, <1>3 DEF DrainsAreLines, CuesAreClaimed
<1>10. Askers'
  BY CallsRest DEF Waves
<1>11. QED
  BY <1>7, <1>8, <1>9, <1>10 DEF LineInv

\* The line of a cue comes with the claim of its node, which nobody had.
LEMMA CuesLines == ASSUME LineInv, NEW n \in Nodes, Cues(n) PROVE LineInv'
<1>1. LineTypes /\ DrainsAreLines /\ DrainsAreTold /\ CuesAreClaimed
  BY DEF LineInv
<1>2. UNCHANGED <<plan, up, seen, told, torn, waiting>> /\ n \notin claims /\ claims' = claims \cup {n}
  BY DEF Cues, memory, hist
<1> DEFINE line == [node |-> n, whole |-> TRUE]
<1>3. inbox' = Append(inbox, line) /\ line \in LineSet /\ line.node = n
  BY DEF Cues, LineSet
<1> HIDE DEF line
<1>4. /\ inbox' \in Seq(LineSet) /\ Len(inbox) \in Nat /\ Len(inbox') = Len(inbox) + 1
      /\ DOMAIN inbox' = DOMAIN inbox \cup {Len(inbox) + 1}
      /\ \A i \in DOMAIN inbox : inbox'[i] = inbox[i]
      /\ inbox'[Len(inbox) + 1] = line
      /\ Len(inbox) + 1 \notin DOMAIN inbox
  BY <1>1, <1>3, Appended
<1>5. child' \in [Nodes -> [told : SUBSET Nat, alive : BOOLEAN]]
  <2>1. child' = [child EXCEPT ![n] = [child[n] EXCEPT !.told = child[n].told \cup {Len(inbox')}]]
    BY DEF Cues
  <2>2. child[n] \in [told : SUBSET Nat, alive : BOOLEAN]
    BY <1>1 DEF LineTypes
  <2>3. [child[n] EXCEPT !.told = child[n].told \cup {Len(inbox')}] \in [told : SUBSET Nat, alive : BOOLEAN]
    BY <2>2, <1>4
  <2>4. QED
    BY <1>1, <2>1, <2>3 DEF LineTypes
<1>6. LineTypes'
  BY <1>1, <1>2, <1>4, <1>5 DEF LineTypes
<1>7. DrainsAreLines' /\ DrainsAreTold'
  BY <1>1, <1>2, <1>4 DEF DrainsAreLines, DrainsAreTold
<1>8. CuesAreClaimed'
  <2> SUFFICES ASSUME plan.steers = {}
               PROVE  /\ \A i \in DOMAIN inbox' : inbox'[i].node \in claims'
                      /\ \A i, j \in DOMAIN inbox' : inbox'[i].node = inbox'[j].node => i = j
    BY <1>2 DEF CuesAreClaimed
  <2>1. \A i \in DOMAIN inbox : inbox'[i].node \in claims
    BY <1>1, <1>4 DEF CuesAreClaimed
  <2>2. \A i, j \in DOMAIN inbox : inbox'[i].node = inbox'[j].node => i = j
    BY <1>1, <1>4 DEF CuesAreClaimed
  <2>3. inbox'[Len(inbox) + 1].node = n
    BY <1>3, <1>4
  <2>4. QED
    BY <1>2, <1>4, <2>1, <2>2, <2>3
<1>9. Askers'
  BY CallsRest DEF Cues
<1>10. QED
  BY <1>6, <1>7, <1>8, <1>9 DEF LineInv

\* What a commit, a launch and a death leave of the children.
LEMMA ChildrenTyped ==
  ASSUME LineTypes, NEW n \in Nodes,
         Bakes(n) \/ Launches(n) \/ Refuses(n) \/ RefusesStale(n) \/ Answers(n) \/ Dies(n)
  PROVE  child' \in [Nodes -> [told : SUBSET Nat, alive : BOOLEAN]]
<1> DEFINE Kid == [told : SUBSET Nat, alive : BOOLEAN]
<1>1. child \in [Nodes -> Kid] /\ child[n] \in Kid
  BY DEF LineTypes
<1>2. CASE Bakes(n)
  <2>1. child' = [child EXCEPT ![n] = [child[n] EXCEPT !.told = child[n].told \cup Addressed(n)]]
    BY <1>2 DEF Bakes
  <2>2. [child[n] EXCEPT !.told = child[n].told \cup Addressed(n)] \in Kid
    BY <1>1, DrainedTyped
  <2>3. QED
    BY <1>1, <2>1, <2>2
<1>3. CASE Launches(n)
  <2>1. child' = [child EXCEPT ![n] = [child[n] EXCEPT !.alive = TRUE]]
    BY <1>3 DEF Launches
  <2>2. [child[n] EXCEPT !.alive = TRUE] \in Kid
    BY <1>1
  <2>3. QED
    BY <1>1, <2>1, <2>2
<1>4. CASE Refuses(n) \/ RefusesStale(n) \/ Answers(n) \/ Dies(n)
  <2>1. child' = [child EXCEPT ![n] = [child[n] EXCEPT !.alive = FALSE]]
    BY <1>4 DEF Refuses, RefusesStale, Answers, Dies, Commits
  <2>2. [child[n] EXCEPT !.alive = FALSE] \in Kid
    BY <1>1
  <2>3. QED
    BY <1>1, <2>1, <2>2
<1>5. QED
  BY <1>2, <1>3, <1>4

LEMMA RunnerLines ==
  ASSUME LineInv,
         Runner \/ RunnerDies \/ Revives \/ SeatMoves \/ \E n \in Nodes : Kills(n) \/ Sweeps(n)
  PROVE  LineInv'
<1>1. LineTypes
  BY DEF LineInv
<1>2. CASE Reloads \/ SeatMoves
  <2>1. UNCHANGED <<plan, calls, inbox, claims, up, seen, told, torn, waiting, child>>
    BY <1>2 DEF Reloads, SeatMoves, docs, memory, hist
  <2>2. Silent
    BY <1>1, <2>1 DEF Silent, LineTypes
  <2>3. QED
    BY <2>1, <2>2, SilentKeeps, CallsRest
<1>3. CASE Retires \/ RunnerDies
  <2>1. UNCHANGED <<plan, calls, inbox, claims, seen, told, torn, waiting>> /\ up' = FALSE
    BY <1>3 DEF Retires, RunnerDies, docs, hist
  <2>2. child' \in [Nodes -> [told : SUBSET Nat, alive : BOOLEAN]]
    <3>1. CASE Retires
      BY <1>1, <3>1 DEF Retires, LineTypes
    <3>2. CASE RunnerDies
      <4>1. NoChild \in [told : SUBSET Nat, alive : BOOLEAN]
        BY DEF NoChild
      <4>2. QED
        BY <3>2, <4>1 DEF RunnerDies
    <3>3. QED
      BY <1>3, <3>1, <3>2
  <2>3. LineTypes'
    BY <1>1, <2>1, <2>2 DEF LineTypes
  <2>4. DrainsAreLines' /\ DrainsAreTold' /\ CuesAreClaimed'
    BY <2>1 DEF LineInv, DrainsAreLines, DrainsAreTold, CuesAreClaimed
  <2>5. QED
    BY <2>1, <2>3, <2>4, CallsRest DEF LineInv
<1>4. CASE Revives
  <2>1. Boots /\ UNCHANGED <<plan, calls, inbox, claims, torn, child>>
    BY <1>4 DEF Revives, docs
  <2>2. QED
    BY <2>1, BootKeeps, CallsRest
<1>5. ASSUME NEW n \in Nodes, Kills(n) PROVE LineInv'
  <2>1. UNCHANGED <<plan, calls, inbox, claims, up, seen, told, torn, waiting, child>>
    BY <1>5 DEF Kills, memory, hist
  <2>2. Silent
    BY <1>1, <2>1 DEF Silent, LineTypes
  <2>3. QED
    BY <2>1, <2>2, SilentKeeps, CallsRest
<1>6. ASSUME NEW n \in Nodes, Clears(n) PROVE LineInv'
  <2>1. UNCHANGED <<plan, calls, inbox, claims, up, seen, told, torn, waiting, child>>
    BY <1>6 DEF Clears, docs, hist
  <2>2. Silent
    BY <1>1, <2>1 DEF Silent, LineTypes
  <2>3. QED
    BY <2>1, <2>2, SilentKeeps, CallsRest
<1>7. ASSUME NEW n \in Nodes, Bakes(n) \/ Launches(n) \/ Refuses(n) \/ RefusesStale(n) \/ Answers(n) \/ Dies(n)
      PROVE  LineInv'
  <2>1. UNCHANGED <<plan, calls, inbox, claims, up, seen, told, torn, waiting>>
    BY <1>7, Zenon DEF Bakes, Launches, Refuses, RefusesStale, Answers, Dies, docs, hist
  <2>2. Silent
    BY <1>1, <1>7, <2>1, ChildrenTyped DEF Silent
  <2>3. QED
    BY <2>1, <2>2, SilentKeeps, CallsRest
<1>8. QED
  BY <1>2, <1>3, <1>4, <1>5, <1>6, <1>7, WavesLines, CuesLines DEF Runner, Sweeps

LEMMA LinesStep == ASSUME EditInv, LineInv, [Next]_vars PROVE LineInv'
<1>1. CASE UNCHANGED vars
  <2>1. UNCHANGED <<plan, calls, inbox, claims, up, seen, told, torn, waiting, child>>
    BY <1>1 DEF vars, docs, memory, hist
  <2>2. Silent
    BY <2>1 DEF Silent, LineInv, LineTypes
  <2>3. QED
    BY <2>1, <2>2, SilentKeeps, CallsRest
<1>2. ASSUME NEW w \in Calls, Amending(w) \/ Steering(w) \/ CallDies(w) PROVE LineInv'
  BY <1>2, CallLines, AppendsLines, CompletesLines DEF Steering
<1>3. CASE Next
  BY <1>2, <1>3, RunnerLines DEF Next
<1>4. QED
  BY <1>1, <1>3

-----------------------------------------------------------------------------
(* The inductive invariant of the kills.                                   *)

\* No launch of a spent node is past its last looks.
KillInv ==
  /\ place \in [Nodes -> {"rest", "baked", "cleared"}] /\ killed \subseteq Nodes
  /\ spent \subseteq killed
  /\ \A n \in spent : place[n] # "cleared"

LEMMA KillsStart == ASSUME Init PROVE KillInv
BY DEF Init, KillInv

\* Calls that amend or steer know nothing of kills and start no agent.
LEMMA CallsSpare ==
  ASSUME NEW w \in Calls, Amending(w) \/ Steering(w) \/ CallDies(w)
  PROVE  UNCHANGED <<place, killed, spent, child>>
<1>1. CASE Looks(w) \/ Drafts(w) \/ Early(w) \/ Refused(w) \/ Freezes(w)
  BY <1>1 DEF Looks, Drafts, Early, Refused, Freezes, docs, memory, hist
<1>2. CASE Takes(w) \/ WritesRow(w) \/ Swaps(w) \/ ReadsMeta(w) \/ BakesMeta(w) \/ Requests(w)
  BY <1>2, Zenon DEF Takes, WritesRow, Swaps, ReadsMeta, BakesMeta, Requests, docs, memory, hist
<1>3. CASE Resumes(w)
  BY <1>3, Zenon DEF Resumes, docs
<1>4. CASE Steers(w) \/ Appends(w) \/ Completes(w)
  BY <1>4, Zenon DEF Steers, Appends, Completes, docs, memory, hist
<1>5. CASE CallDies(w)
  BY <1>5, Zenon DEF CallDies, memory
<1>6. QED
  BY <1>1, <1>2, <1>3, <1>4, <1>5 DEF Amending, Steering

\* What a step of the runner does to the launch of a node, and to no other one.
LaunchSteps(n) ==
  /\ UNCHANGED <<killed, spent>>
  /\ \/ place' = place
     \/ place' = [place EXCEPT ![n] = "rest"] \/ place' = [place EXCEPT ![n] = "baked"]
     \/ n \notin killed /\ place' = [place EXCEPT ![n] = "cleared"]

LEMMA LaunchKeeps == ASSUME KillInv, NEW n \in Nodes, LaunchSteps(n) PROVE KillInv'
BY DEF KillInv, LaunchSteps

LEMMA NodesStep ==
  ASSUME NEW n \in Nodes,
         Bakes(n) \/ Clears(n) \/ Refuses(n) \/ RefusesStale(n) \/ Cues(n) \/ Answers(n) \/ Dies(n)
  PROVE  LaunchSteps(n)
<1> USE DEF LaunchSteps
<1>1. CASE Bakes(n) \/ Clears(n)
  BY <1>1, Zenon DEF Bakes, Clears, Moves, docs, hist
<1>2. CASE Refuses(n) \/ RefusesStale(n) \/ Answers(n)
  BY <1>2, Zenon DEF Refuses, RefusesStale, Answers, Commits, hist
<1>3. CASE Dies(n)
  BY <1>3, Zenon DEF Dies, Commits, hist
<1>4. CASE Cues(n)
  BY <1>4, Zenon DEF Cues, memory, hist
<1>5. QED
  BY <1>1, <1>2, <1>3, <1>4

LEMMA KillsStep == ASSUME KillInv, [Next]_vars PROVE KillInv'
<1>1. CASE UNCHANGED <<place, killed, spent>>
  BY <1>1 DEF KillInv
<1>2. CASE UNCHANGED vars
  BY <1>1, <1>2 DEF vars, docs, memory, hist
<1>3. ASSUME NEW w \in Calls, Amending(w) \/ Steering(w) \/ CallDies(w) PROVE KillInv'
  BY <1>1, <1>3, CallsSpare
<1>4. CASE Reloads \/ Waves \/ Retires \/ Revives \/ SeatMoves
  <2>1. UNCHANGED <<place, killed, spent>>
    BY <1>4, Zenon DEF Reloads, Waves, Retires, Revives, SeatMoves, docs, memory, hist
  <2>2. QED
    BY <1>1, <2>1
<1>5. CASE RunnerDies
  BY <1>5 DEF RunnerDies, KillInv, docs
<1>6. ASSUME NEW n \in Nodes, Kills(n) PROVE KillInv'
  <2>1. /\ killed' = killed \cup {n} /\ place' = place
        /\ spent' = IF place[n] = "cleared" THEN spent ELSE spent \cup {n}
    BY <1>6 DEF Kills, memory
  <2>2. QED
    BY <2>1 DEF KillInv
<1>7. ASSUME NEW n \in Nodes, Launches(n) PROVE KillInv'
  <2>1. place' = [place EXCEPT ![n] = "rest"] /\ killed' = killed /\ spent' = spent \cup ({n} \cap killed)
    BY <1>7 DEF Launches, Moves, docs
  <2>2. QED
    BY <2>1 DEF KillInv
<1>8. ASSUME NEW n \in Nodes,
             Bakes(n) \/ Clears(n) \/ Refuses(n) \/ RefusesStale(n) \/ Cues(n) \/ Answers(n) \/ Dies(n)
      PROVE  KillInv'
  BY <1>8, NodesStep, LaunchKeeps
<1>9. QED
  BY <1>2, <1>3, <1>4, <1>5, <1>6, <1>7, <1>8 DEF Next, Runner, Sweeps

-----------------------------------------------------------------------------
(* The theorems.                                                           *)

LEMMA InvariantHolds == Spec => [](EditInv /\ LineInv /\ KillInv)
<1>1. Init => EditInv /\ LineInv /\ KillInv
  BY EditsStart, LinesStart, KillsStart
<1>2. EditInv /\ LineInv /\ KillInv /\ [Next]_vars => (EditInv /\ LineInv /\ KillInv)'
  BY EditsStep, LinesStep, KillsStep
<1>3. QED
  BY <1>1, <1>2, PTL DEF Spec

LEMMA ChainFollows == ASSUME EditInv PROVE EditsAreKept
<1>1. EditTypes /\ Locking /\ Chained /\ NoLostEdit
  BY DEF EditInv
<1>2. glock = NoOne => \A w \in Calls : pc[w] # "swap"
  BY <1>1, RevisionsConstants DEF Locking, Locked
<1>3. HistoryIsAChain
  BY <1>1, <1>2 DEF Chained, HistoryIsAChain
<1>4. QED
  BY <1>1, <1>3 DEF EditsAreKept

LEMMA OneLineEach == ASSUME LineInv PROVE SteeringIsKept
<1>1. CueOnce
  <2> SUFFICES ASSUME NEW n \in Nodes, plan.steers = {}
               PROVE  Cardinality({i \in DOMAIN inbox : inbox[i].node = n}) <= 1
    BY DEF CueOnce
  <2> DEFINE Those == {i \in DOMAIN inbox : inbox[i].node = n}
  <2>1. CASE Those = {}
    BY <2>1, FS_EmptySet
  <2>2. CASE Those # {}
    <3>1. PICK i : i \in Those
      BY <2>2
    <3>2. Those = {i}
      BY <3>1 DEF LineInv, CuesAreClaimed
    <3>3. Cardinality({i}) = 1
      BY FS_Singleton
    <3>4. QED
      BY <3>2, <3>3
  <2>3. QED
    BY <2>1, <2>2
<1>2. QED
  BY <1>1 DEF SteeringIsKept, LineInv

\* No edit is lost and no line is: a pinned amend (wf.py `act_amend`) replaces the graph that its
\* caller read, amends.jsonl is a chain that ends in graph.json whoever dies in between, every
\* line that `drain_inbox` took is told or waits, and the cue of a node is written once.
THEOREM EditsStayKept == Spec => []EditsKept
<1>1. EditInv /\ LineInv => EditsKept
  BY ChainFollows, OneLineEach DEF EditsKept
<1>2. QED
  BY <1>1, InvariantHolds, PTL

\* A kill holds (`act_kill`, `_lane_killed` as `run_child` of wf.py looks for it): the agent of a
\* launch that was past its last look when the marker fell may still come, and no step of any
\* runner, retry or amend gives the killed node another.
THEOREM KilledStaysDown == Spec => KillsStand
<1>1. ASSUME LineInv, KillInv, [Next]_vars PROVE [NoAgentOfTheSpent]_vars
  <2> SUFFICES ASSUME Next PROVE NoAgentOfTheSpent
    BY <1>1
  <2> USE DEF NoAgentOfTheSpent
  <2>1. /\ child \in [Nodes -> [told : SUBSET Nat, alive : BOOLEAN]]
        /\ spent \subseteq Nodes /\ \A n \in spent : place[n] # "cleared"
    BY <1>1 DEF LineInv, LineTypes, KillInv
  <2>2. ASSUME NEW w \in Calls, Amending(w) \/ Steering(w) \/ CallDies(w) PROVE NoAgentOfTheSpent
    BY <2>2, CallsSpare
  <2>3. CASE Reloads \/ Retires \/ Revives \/ SeatMoves \/ \E n \in Nodes : Kills(n) \/ Clears(n)
    <3>1. child' = child
      BY <2>3, Zenon DEF Reloads, Retires, Revives, SeatMoves, Kills, Clears
    <3>2. QED
      BY <3>1
  <2>4. CASE Waves
    BY <2>1, <2>4 DEF Waves
  <2>5. CASE RunnerDies
    BY <2>1, <2>5 DEF RunnerDies, NoChild
  <2>6. ASSUME NEW n \in Nodes, Launches(n) PROVE NoAgentOfTheSpent
    <3>1. n \notin spent /\ child' = [child EXCEPT ![n] = [child[n] EXCEPT !.alive = TRUE]]
      BY <2>1, <2>6 DEF Launches, Moves
    <3>2. QED
      BY <2>1, <3>1
  <2>7. ASSUME NEW n \in Nodes, Bakes(n) \/ Refuses(n) \/ RefusesStale(n) \/ Cues(n) \/ Answers(n) \/ Dies(n)
        PROVE  NoAgentOfTheSpent
    <3>1. (child[n].alive \/ ~ child'[n].alive) /\ \A m \in Nodes : m # n => child'[m] = child[m]
      <4>1. CASE Bakes(n)
        BY <2>1, <4>1 DEF Bakes
      <4>2. CASE Cues(n)
        BY <2>1, <4>2 DEF Cues
      <4>3. CASE Refuses(n) \/ RefusesStale(n) \/ Answers(n) \/ Dies(n)
        BY <2>1, <4>3 DEF Refuses, RefusesStale, Answers, Dies, Commits
      <4>4. QED
        BY <2>7, <4>1, <4>2, <4>3
    <3>2. QED
      BY <2>1, <3>1
  <2>8. QED
    BY <2>2, <2>3, <2>4, <2>5, <2>6, <2>7 DEF Next, Runner, Sweeps
<1>2. QED
  BY <1>1, InvariantHolds, PTL DEF Spec, KillsStand

\* A resolved amend sends every node that it does not keep to the seat as it is now (wf.py
\* `_frozen_committed`, `_freeze_routes`): the node keeps its verdict, or has that route.
THEOREM RoutesStayOfNow == Spec => [][RoutesAreOfNow]_vars
<1>1. ASSUME EditInv, [Next]_vars PROVE [RoutesAreOfNow]_vars
  <2> SUFFICES ASSUME Next, NEW w \in Calls, NEW n \in Nodes, Resolves(w)
               PROVE  Committed(draft'[w], n) = "done" \/ draft'[w].nodes[n].route = route
    BY <1>1 DEF RoutesAreOfNow
  <2>1. EditTypes
    BY <1>1 DEF EditInv
  <2>2. Freezes(w)
    <3>1. pc[w] = "freeze" /\ pc'[w] \in {"lock", "shown"}
      BY DEF Resolves
    <3>2. ASSUME NEW v \in Calls, v # w, Amending(v) \/ Steering(v) \/ CallDies(v) PROVE FALSE
      <4>1. pc'[w] = pc[w]
        <5>1. CASE Looks(v) \/ Drafts(v) \/ Early(v) \/ Refused(v) \/ Freezes(v)
          BY <2>1, <5>1, <3>2 DEF EditTypes, Looks, Drafts, Early, Refused, Freezes, Goes
        <5>2. CASE Takes(v) \/ WritesRow(v) \/ Swaps(v)
          BY <2>1, <5>2, <3>2 DEF EditTypes, Takes, WritesRow, Swaps, Goes
        <5>3. CASE ReadsMeta(v) \/ BakesMeta(v) \/ Requests(v) \/ Resumes(v)
          BY <2>1, <5>3, <3>2 DEF EditTypes, ReadsMeta, BakesMeta, Requests, Resumes, Goes
        <5>4. CASE Steers(v) \/ Appends(v) \/ Completes(v) \/ CallDies(v)
          BY <2>1, <5>4, <3>2 DEF EditTypes, Steers, Appends, Completes, CallDies, Goes
        <5>5. QED
          BY <3>2, <5>1, <5>2, <5>3, <5>4 DEF Amending, Steering
      <4>2. QED
        BY <3>1, <4>1
    <3>3. CASE Amending(w) \/ Steering(w) \/ CallDies(w)
      <4>1. CASE Looks(w) \/ Drafts(w) \/ Early(w) \/ Refused(w)
        BY <4>1, <3>1, <2>1 DEF Looks, Drafts, Early, Refused, Goes, EditTypes
      <4>2. CASE Takes(w) \/ WritesRow(w) \/ Swaps(w)
        BY <4>2, <3>1 DEF Takes, WritesRow, Swaps, Goes
      <4>3. CASE ReadsMeta(w) \/ BakesMeta(w) \/ Requests(w) \/ Resumes(w)
        BY <4>3, <3>1 DEF ReadsMeta, BakesMeta, Requests, Resumes, Goes
      <4>4. CASE Steers(w) \/ Appends(w) \/ Completes(w) \/ CallDies(w)
        BY <4>4, <3>1 DEF Steers, Appends, Completes, CallDies, Goes
      <4>5. QED
        BY <3>3, <4>1, <4>2, <4>3, <4>4 DEF Amending, Steering
    <3>4. CASE Runner \/ RunnerDies \/ Revives \/ SeatMoves \/ \E m \in Nodes : Kills(m) \/ Sweeps(m)
      <4>1. UNCHANGED calls
        <5>1. CASE Reloads \/ Waves \/ Retires \/ RunnerDies \/ Revives \/ SeatMoves
          BY <5>1, Zenon DEF Reloads, Waves, Retires, RunnerDies, Revives, SeatMoves
        <5>2. ASSUME NEW m \in Nodes, Refuses(m) \/ Cues(m) \/ Answers(m) \/ Dies(m) \/ Kills(m)
              PROVE  UNCHANGED calls
          BY <5>2, Zenon DEF Refuses, Cues, Answers, Dies, Kills
        <5>3. ASSUME NEW m \in Nodes, Bakes(m) \/ Clears(m) \/ Launches(m) \/ RefusesStale(m)
              PROVE  UNCHANGED calls
          BY <5>3, Zenon DEF Bakes, Clears, Launches, RefusesStale
        <5>4. QED
          BY <3>4, <5>1, <5>2, <5>3 DEF Runner, Sweeps
      <4>2. QED
        BY <3>1, <4>1 DEF calls
    <3>5. QED
      BY <3>2, <3>3, <3>4 DEF Next
  <2>3. CASE n \notin Frozen(w)
    <3>1. draft'[w].nodes[n] = [draft[w].nodes[n] EXCEPT !.route = route]
      BY <2>1, <2>2, <2>3, Resolved
    <3>2. draft[w].nodes[n] \in NodeSet
      BY <2>1 DEF EditTypes, GraphSet
    <3>3. QED
      BY <3>1, <3>2 DEF NodeSet
  <2>4. CASE n \in Frozen(w)
    <3>1. \A m \in Before[n] \cup {n} : m \in Nodes /\ m \in Frozen(w)
      BY <2>4, RevisionsConstants DEF Frozen
    <3>2. \A m \in Before[n] \cup {n} : draft'[w].nodes[m] = graph.nodes[m]
      <4> SUFFICES ASSUME NEW m \in Before[n] \cup {n} PROVE draft'[w].nodes[m] = graph.nodes[m]
        OBVIOUS
      <4>1. m \in Nodes /\ draft[w].nodes[m].text = graph.nodes[m].text
        BY <3>1 DEF Frozen, Same
      <4>2. draft[w].nodes[m] \in NodeSet /\ graph.nodes[m] \in NodeSet
        BY <2>1, <4>1 DEF EditTypes, GraphSet
      <4>3. draft'[w].nodes[m] = [draft[w].nodes[m] EXCEPT !.route = graph.nodes[m].route]
        BY <2>1, <2>2, <3>1, Resolved
      <4>4. QED
        BY <4>1, <4>2, <4>3 DEF NodeSet
    <3>3. Efp(draft'[w], n) = Efp(graph, n)
      BY <3>2 DEF Efp
    <3>4. Committed(graph, n) = "done"
      BY <2>4 DEF Frozen, Same
    <3>5. QED
      BY <3>3, <3>4 DEF Committed
  <2>5. QED
    BY <2>3, <2>4
<1>2. QED
  BY <1>1, InvariantHolds, PTL DEF Spec

-----------------------------------------------------------------------------
(* Lanes: one run for a lane, and whoever boots a run finds its meta.       *)

\* Where the owner may amend, one call is made and nothing was there before it.
Undisputed == \A s \in LaneScenes : s.amends > 0 => s.legacy = L!Nobody /\ \A v, w \in s.doors : v = w

\* Where a tick runs, one call is made, and it is not cut short.
Unhurried == \A s \in LaneScenes : s.ticks => ~ s.frail /\ s.crashes = 0 /\ \A v, w \in s.doors : v = w

Unclaimed == {"idle", "lock", "look", "make", "write", "claim", "refused"}
Making == {"write", "claim", "prove"}
LanePlaces == Unclaimed \cup Making \cup {"arm", "create", "launched", "deduped", "waited", "error", "dead"}
Makes(w) == lanePc[w] \in Making
OfLane(w) == asked[w] # "free"

LaneTypes ==
  /\ L!LanesTypeOK
  /\ lanePc \in [Doors -> LanePlaces] /\ asked \in [Doors -> {"none", "run", "forbidden", "dry", "free"}]
  /\ amends \in Nat /\ amends <= scene.amends /\ crashes \in Nat /\ crashes <= scene.crashes

\* Who looks at the entry, and who makes a run for it, has the flock of the lane.
LaneFlock ==
  \A w \in Doors :
    /\ lanePc[w] = "look" \/ (OfLane(w) /\ (lanePc[w] = "make" \/ Makes(w))) => flock = w
    /\ lanePc[w] \in {"lock", "look", "claim"} => OfLane(w)
    /\ w \notin scene.doors => lanePc[w] = "idle"

\* Each call makes a run of its own, that the lane names when it is claimed and not before.
OwnRuns ==
  /\ \A w \in Doors : Makes(w) =>
       /\ mine[w] \in Runs /\ state[mine[w]] # "none"
       /\ \A v \in Doors : Makes(v) /\ mine[v] = mine[w] => v = w
       /\ lanePc[w] # "prove" \/ ~ OfLane(w) => mine[w] \notin named
       /\ lanePc[w] = "prove" /\ OfLane(w) => lane = mine[w]
  /\ \A w \in Doors : lanePc[w] = "deduped" => mine[w] \in named
  /\ \A d \in named : state[d] # "none"
  /\ \A d \in live : state[d] = "open"
  /\ L!Entry \in named \cup {L!Nobody}

\* While a call makes a run for the lane, whoever had it is over.
Vacant == \A w \in Doors : OfLane(w) /\ lanePc[w] \in {"make", "write", "claim"} => L!Entry = L!Nobody \/ ~ L!Undone(L!Entry)

\* Of those that the lane has named only the last may be unfinished.
OnlyEntry == \A d \in named : L!Undone(d) => d = L!Entry

\* Where the owner amends, the lane names one run.
Alone ==
  scene.amends > 0 =>
    \/ named = {} /\ L!Entry = L!Nobody
    \/ named = {lane} /\ \A w \in scene.doors : lanePc[w] \notin Unclaimed

LaneLaw == LaneFlock /\ OwnRuns /\ Vacant /\ OnlyEntry /\ Alone
LaneInv == LaneTypes /\ LaneLaw

\* Every run but one that is being made has its meta, and so has everyone that the lane has named.
Informed ==
  /\ \A d \in Runs : state[d] \in L!Terminal \cup {"open", "held"} \/ d \in named => "run" \in files[d] \/ state[d] = "gone"
  /\ \A w \in Doors : lanePc[w] = "claim" => "run" \in files[mine[w]] \/ state[mine[w]] = "gone"
  /\ blind = {}

\* The tick starts after the one call of its scene; till then every new run is being made.
AfterTheCall ==
  /\ \A w \in Doors : lanePc[w] = "create" => scene.ticks
  /\ jobs # {} \/ tick = "census" => scene.ticks /\ \E w \in scene.doors : lanePc[w] = "launched"
  /\ scene.ticks => \A d \in Runs : state[d] = "new" => \E w \in scene.doors : Makes(w) /\ mine[w] = d

BootInv == Informed /\ AfterTheCall

-----------------------------------------------------------------------------

LEMMA LaneInit == ASSUME Undisputed, L!Init PROVE LaneInv
<1> USE LanesAssumption DEF L!LanesConstants, L!Init, L!SceneSet, L!Nobody
<1>1. LaneTypes
  <2>1. scene \in L!SceneSet
    OBVIOUS
  <2>2. L!LanesTypeOK
    BY DEF L!LanesTypeOK, L!Mandatory, L!Nothing, L!Terminal
  <2>3. scene.amends \in Nat /\ scene.crashes \in Nat
    BY <2>1
  <2> QED
    BY <2>2, <2>3 DEF LaneTypes, LanePlaces, Unclaimed
<1>2. LaneFlock /\ Vacant
  BY DEF LaneFlock, Vacant, OfLane, Makes, Making
<1>3. OwnRuns /\ OnlyEntry
  BY DEF OwnRuns, OnlyEntry, Makes, Making, L!Entry, L!Undone
<1>4. Alone
  BY DEF Alone, L!Entry, Undisputed
<1> QED
  BY <1>1, <1>2, <1>3, <1>4 DEF LaneInv, LaneLaw

-----------------------------------------------------------------------------
\* What a boot does to the directory, whoever boots.
LEMMA BootTypes ==
  ASSUME LaneTypes, NEW d \in Runs, L!Boots(d)
  PROVE  /\ files' \in [Runs -> SUBSET L!Mandatory]
         /\ state' \in [Runs -> L!Terminal \cup {"none", "new", "open", "held", "gone"}]
         /\ live' \in SUBSET Runs /\ exit' \in SUBSET Runs /\ work' \in SUBSET Runs /\ blind' \in SUBSET Runs
         /\ age' \in [Runs -> {"fresh", "quiet", "old"}]
BY DEF LaneTypes, L!LanesTypeOK, L!Boots, L!Made, L!disk

LEMMA BootOpens ==
  ASSUME LaneTypes, NEW d \in Runs, L!Boots(d)
  PROVE  /\ UNCHANGED files
         /\ \A e \in Runs : e # d => state'[e] = state[e] /\ (e \in live' <=> e \in live)
         /\ \/ state'[d] = "open" /\ d \in live' /\ state[d] \notin {"none", "gone"}
            \/ UNCHANGED <<state, live>> /\ (d \in live \/ state[d] \in {"none", "gone"})
BY DEF LaneTypes, L!LanesTypeOK, L!Boots, L!Made, L!disk

\* The directory that a call makes was not there.
LEMMA FreshRun == ASSUME L!Unused # {} PROVE L!Min(L!Unused) \in L!Unused
<1>1. L!Unused \subseteq Nat
  BY LanesAssumption DEF L!LanesConstants, L!Unused
<1>2. PICK m \in L!Unused : \A k \in L!Unused : ~ (<<k, m>> \in OpToRel(<, Nat))
  BY <1>1, NatLessThanWellFounded, WFMin, Zenon
<1>3. ASSUME NEW k \in L!Unused PROVE m <= k
  <2>1. ~ (k < m)
    BY <1>1, <1>2, Zenon DEF OpToRel
  <2> QED
    BY <1>1, <2>1
<1> QED
  BY <1>3 DEF L!Min

LEMMA TypeStep == ASSUME LaneInv, [L!Next]_(L!vars) PROVE LaneTypes'
<1> USE LanesAssumption DEF L!LanesConstants, LaneInv, LaneLaw, LaneTypes, L!LanesTypeOK, LanePlaces, Unclaimed, Making, L!Goes, L!Leaves,
        L!disk, L!registry, L!calls, L!watch, L!hist
<1>0. scene \in L!SceneSet
  OBVIOUS
<1>a. scene.amends \in Nat /\ scene.crashes \in Nat
  BY <1>0 DEF L!SceneSet
<1>1. ASSUME NEW w \in Doors, L!Asks(w) PROVE LaneTypes'
  BY <1>0, <1>1 DEF L!Asks, L!Checked, L!SceneSet
<1>2. ASSUME NEW w \in Doors, L!TakesLane(w) \/ L!Claimable(w) \/ L!Arms(w) \/ L!CreatesJob(w) PROVE LaneTypes'
  BY <1>2 DEF L!TakesLane, L!Claimable, L!Arms, L!CreatesJob
<1>3. ASSUME NEW w \in Doors, L!Dedupes(w) PROVE LaneTypes'
  BY <1>3 DEF L!Dedupes, L!Entry
<1>4. ASSUME NEW w \in Doors, L!MakesDir(w) PROVE LaneTypes'
  BY <1>4, FreshRun DEF L!MakesDir, L!Unused
<1>5. ASSUME NEW w \in Doors, L!Writes(w) PROVE LaneTypes'
  BY <1>5 DEF L!Writes, L!NextFile, L!LastFile, L!Mandatory
<1>6. ASSUME NEW w \in Doors, L!Claims(w) PROVE LaneTypes'
  BY <1>6 DEF L!Claims, OwnRuns, Makes
<1>7. ASSUME NEW w \in Doors, L!Launches(w) PROVE LaneTypes'
  <2>1. mine[w] \in Runs
    BY <1>7 DEF L!Launches, OwnRuns, Makes
  <2>2. L!Boots(mine[w]) /\ lanePc' = [lanePc EXCEPT ![w] = "arm"] /\ flock' = (IF flock = w THEN "free" ELSE flock)
        /\ UNCHANGED <<scene, lane, twin, mine, asked, L!watch, judged, named, ended, crashes, lives, amends, releases>>
    BY <1>7 DEF L!Launches
  <2> DEFINE d == mine[w]
  <2>3. /\ files' \in [Runs -> SUBSET L!Mandatory]
        /\ state' \in [Runs -> L!Terminal \cup {"none", "new", "open", "held", "gone"}]
        /\ live' \in SUBSET Runs /\ exit' \in SUBSET Runs /\ work' \in SUBSET Runs /\ blind' \in SUBSET Runs
        /\ age' \in [Runs -> {"fresh", "quiet", "old"}]
    <3> HIDE DEF LaneTypes, d
    <3> QED
      BY <2>1, <2>2, BootTypes DEF d
  <2> QED
    BY <2>2, <2>3
<1>8. ASSUME NEW w \in Doors, L!Waits(w) PROVE LaneTypes'
  <2>1. mine[w] \in Runs
    BY <1>8 DEF L!Waits, OwnRuns
  <2>2. /\ L!Boots(mine[w]) \/ UNCHANGED <<L!disk, live, blind>>
        /\ lanePc' = [lanePc EXCEPT ![w] = "waited"]
        /\ UNCHANGED <<scene, L!registry, mine, asked, L!watch, judged, named, ended, crashes, lives, amends, releases>>
    BY <1>8 DEF L!Waits
  <2> DEFINE d == mine[w]
  <2>3. /\ files' \in [Runs -> SUBSET L!Mandatory]
        /\ state' \in [Runs -> L!Terminal \cup {"none", "new", "open", "held", "gone"}]
        /\ live' \in SUBSET Runs /\ exit' \in SUBSET Runs /\ work' \in SUBSET Runs /\ blind' \in SUBSET Runs
        /\ age' \in [Runs -> {"fresh", "quiet", "old"}]
    <3>1. CASE UNCHANGED <<L!disk, live, blind>>
      BY <3>1
    <3>2. CASE L!Boots(d)
      <4> HIDE DEF LaneTypes, d
      <4> QED
        BY <2>1, <3>2, BootTypes DEF d
    <3> QED
      BY <2>2, <3>1, <3>2
  <2> QED
    BY <2>2, <2>3
<1>9. ASSUME NEW w \in Doors, L!Breaks(w) PROVE LaneTypes'
  <2>1. crashes' \in Nat /\ crashes' <= crashes
    BY <1>9 DEF L!Breaks
  <2> QED
    BY <1>a, <1>9, <2>1 DEF L!Breaks
<1>10. ASSUME NEW d \in Runs, L!Ends(d) PROVE LaneTypes'
  BY <1>0, <1>10 DEF L!Ends, L!SceneSet, L!Terminal
<1>11. ASSUME NEW d \in Runs, L!Dies(d) \/ L!Ages(d) \/ L!Judges(d) PROVE LaneTypes'
  BY <1>11 DEF L!Dies, L!Ages, L!Judges
<1>12. ASSUME NEW d \in Runs, L!Releases(d) \/ L!Amends(d) PROVE LaneTypes'
  <2>1. amends' \in Nat /\ amends' <= amends
    BY <1>12 DEF L!Releases, L!Amends
  <2> QED
    BY <1>a, <1>12, <2>1, BootTypes DEF L!Releases, L!Amends
<1>13. ASSUME NEW d \in Runs, L!TickLooks(d) PROVE LaneTypes'
  BY <1>13, BootTypes DEF L!TickLooks
<1>14. CASE L!TickBegins \/ L!TickEnds
  <2>1. todo' \in {L!Made, todo} /\ census' \in {live, census} /\ tick' \in {"idle", "census"} /\ active' \in BOOLEAN
    BY <1>14 DEF L!TickBegins, L!TickEnds
  <2>2. UNCHANGED <<scene, L!disk, live, L!registry, L!calls, judged, L!hist>>
    BY <1>14 DEF L!TickBegins, L!TickEnds
  <2>3. todo' \in SUBSET Runs /\ census' \in SUBSET Runs
    BY <2>1 DEF L!Made
  <2> QED
    BY <2>1, <2>2, <2>3
<1>15. CASE L!Removes \/ L!Trims
  BY <1>15 DEF L!Removes, L!Trims, L!Nothing, L!Mandatory
<1>16. CASE UNCHANGED L!vars
  BY <1>16 DEF L!vars
<1> QED
  BY <1>1, <1>2, <1>3, <1>4, <1>5, <1>6, <1>7, <1>8, <1>9, <1>10, <1>11, <1>12, <1>13, <1>14, <1>15, <1>16
  DEF L!Next, L!Call, L!Tick

-----------------------------------------------------------------------------
\* What the runs, the tick and the retention script do: no named run comes back.
LEMMA RunsKeepLaw ==
  ASSUME LaneInv, LaneTypes', UNCHANGED <<scene, lane, twin, flock, lanePc, mine, asked, named>>,
         \A d \in Runs : state'[d] = "none" => state[d] = "none",
         \A d \in named : L!Undone(d)' => L!Undone(d),
         \A d \in live' : state'[d] = "open"
  PROVE  LaneLaw'
<1> USE DEF LaneInv, LaneLaw, LaneTypes, L!LanesTypeOK
<1>1. LaneFlock' /\ Alone'
  BY DEF LaneFlock, Alone, OfLane, Makes, Making, L!Entry
<1>2. OwnRuns'
  BY DEF OwnRuns, OfLane, Makes, Making, L!Entry
<1>3. Vacant' /\ OnlyEntry'
  BY LanesAssumption DEF L!LanesConstants, OwnRuns, Vacant, OnlyEntry, OfLane, L!Entry
<1> QED
  BY <1>1, <1>2, <1>3

LEMMA BootKeepsLaw ==
  ASSUME LaneInv, LaneTypes', NEW d \in Runs, L!Boots(d), d \in named => L!Undone(d),
         UNCHANGED <<scene, lane, twin, flock, lanePc, mine, asked, named>>
  PROVE  LaneLaw'
<1> USE DEF LaneInv, LaneLaw
<1>1. \A e \in Runs : state'[e] = "none" => state[e] = "none"
  BY BootOpens
<1>2. \A e \in named : L!Undone(e)' => L!Undone(e)
  BY BootOpens DEF L!Undone, LaneTypes, L!LanesTypeOK
<1>3. \A e \in live' : state'[e] = "open"
  BY BootOpens DEF OwnRuns, LaneTypes, L!LanesTypeOK
<1> QED
  BY <1>1, <1>2, <1>3, RunsKeepLaw

LEMMA RunsStep ==
  ASSUME LaneInv, LaneTypes', NEW d \in Runs, L!Ends(d) \/ L!Dies(d) \/ L!Releases(d) \/ L!Ages(d) \/ L!Judges(d) \/ L!TickLooks(d)
  PROVE  LaneLaw'
<1> USE DEF L!registry, L!calls, L!hist, L!watch, L!disk
<1>1. CASE L!Ends(d)
  <2>1. \A e \in Runs : state'[e] = "none" => state[e] = "none"
    BY <1>1, LanesAssumption DEF L!Ends, LaneInv, LaneTypes, L!LanesTypeOK, L!LanesConstants, L!SceneSet
  <2>2. \A e \in named : L!Undone(e)' => L!Undone(e)
    BY <1>1 DEF L!Ends, LaneInv, LaneLaw, OwnRuns, LaneTypes, L!LanesTypeOK, L!Undone
  <2>3. \A e \in live' : state'[e] = "open"
    BY <1>1 DEF L!Ends, LaneInv, LaneLaw, OwnRuns, LaneTypes, L!LanesTypeOK
  <2> QED
    BY <1>1, <2>1, <2>2, <2>3, RunsKeepLaw DEF L!Ends
<1>2. CASE L!Dies(d) \/ L!Ages(d) \/ L!Judges(d)
  BY <1>2, RunsKeepLaw DEF L!Dies, L!Ages, L!Judges, L!Undone, LaneInv, LaneLaw, OwnRuns
<1>3. CASE L!Releases(d)
  BY <1>3, BootKeepsLaw DEF L!Releases, L!Undone
<1>4. CASE L!TickLooks(d)
  <2>1. CASE L!Boots(d) /\ L!Status(d, census) \in {"pending", "interrupted"}
    BY <1>4, <2>1, BootKeepsLaw DEF L!TickLooks, L!Undone, L!Status, L!Terminal, LaneInv, LaneTypes, L!LanesTypeOK
  <2>2. CASE UNCHANGED <<L!disk, live, blind>>
    BY <1>4, <2>2, RunsKeepLaw DEF L!TickLooks, L!Undone, LaneInv, LaneLaw, OwnRuns
  <2> QED
    BY <1>4, <2>1, <2>2 DEF L!TickLooks
<1> QED
  BY <1>1, <1>2, <1>3, <1>4

LEMMA JobsStep ==
  ASSUME LaneInv, LaneTypes', L!TickBegins \/ L!TickEnds \/ L!Removes \/ L!Trims
  PROVE  LaneLaw'
<1> USE DEF L!registry, L!calls, L!hist, L!watch, L!disk, LaneInv, LaneLaw, OwnRuns
<1>1. CASE L!TickBegins \/ L!TickEnds \/ L!Trims
  BY <1>1, RunsKeepLaw DEF L!TickBegins, L!TickEnds, L!Trims, L!Undone
<1>2. CASE L!Removes
  BY <1>2, RunsKeepLaw DEF L!Removes, L!Undone, LaneTypes, L!LanesTypeOK
<1> QED
  BY <1>1, <1>2

\* An amend revives a run that is over, and there is no other.
LEMMA AmendStep ==
  ASSUME Undisputed, LaneInv, LaneTypes', NEW d \in Runs, L!Amends(d)
  PROVE  LaneLaw'
<1> USE DEF L!registry, L!calls, L!hist, L!watch, L!disk, L!Amends, LaneInv
<1>1. CASE d \notin named
  BY <1>1, BootKeepsLaw
<1>2. CASE d \in named
  <2>0. scene.amends > 0
    BY LanesAssumption DEF L!LanesConstants, LaneTypes, L!LanesTypeOK, L!SceneSet
  <2>1. named = {lane} /\ \A w \in scene.doors : lanePc[w] \notin Unclaimed
    BY <1>2, <2>0 DEF LaneLaw, Alone
  <2>2. lane = d /\ L!Entry = d /\ L!Entry' = d
    BY <1>2, <2>1, LanesAssumption DEF L!LanesConstants, L!Entry, L!Nobody
  <2>3. \A w \in Doors : lanePc[w] \notin {"make", "write", "claim"}
    BY <2>1 DEF LaneLaw, LaneFlock, Unclaimed
  <2>4. LaneFlock' /\ Alone' /\ Vacant' /\ OnlyEntry'
    BY <2>1, <2>2, <2>3 DEF LaneLaw, LaneFlock, Alone, Vacant, OnlyEntry, OfLane, Makes, Making
  <2>5. (\A e \in Runs : state'[e] = "none" => state[e] = "none") /\ (\A e \in live' : state'[e] = "open")
    BY BootOpens DEF LaneLaw, OwnRuns, LaneTypes, L!LanesTypeOK
  <2>6. OwnRuns'
    BY <2>2, <2>5 DEF LaneLaw, OwnRuns, OfLane, Makes, Making, LaneTypes, L!LanesTypeOK
  <2> QED
    BY <2>4, <2>6 DEF LaneLaw
<1> QED
  BY <1>1, <1>2

-----------------------------------------------------------------------------
\* A call that moves on without a run or an entry.
LEMMA PlainCallStep ==
  ASSUME LaneInv, LaneTypes', NEW w \in Doors,
         L!Asks(w) \/ L!TakesLane(w) \/ L!Claimable(w) \/ L!Arms(w) \/ L!CreatesJob(w) \/ L!Breaks(w)
  PROVE  LaneLaw'
<1> USE DEF LaneInv, LaneLaw, LaneTypes, L!LanesTypeOK, L!registry, L!calls, L!hist, L!watch, L!disk, L!Goes, L!Leaves,
            L!Asks, L!TakesLane, L!Claimable, L!Arms, L!CreatesJob, L!Breaks, L!Checked
<1>1. LaneFlock'
  <2>1. CASE L!Asks(w)
    BY <2>1 DEF LaneFlock, OfLane, Makes, Making
  <2>2. CASE L!TakesLane(w) \/ L!Claimable(w)
    BY <2>2, LanesAssumption DEF L!LanesConstants, LaneFlock, OfLane, Makes, Making
  <2>3. CASE L!Arms(w) \/ L!CreatesJob(w)
    BY <2>3 DEF LaneFlock, OfLane, Makes, Making
  <2>4. CASE L!Breaks(w)
    BY <2>4, LanesAssumption DEF L!LanesConstants, LaneFlock, OfLane, Makes, Making
  <2> QED
    BY <2>1, <2>2, <2>3, <2>4
<1>2. OwnRuns' /\ OnlyEntry'
  BY DEF OwnRuns, OnlyEntry, OfLane, Makes, Making, L!Entry, L!Undone
<1>3. Vacant'
  BY DEF Vacant, OfLane, L!Entry, L!Undone, L!Incumbent, L!Unfinished, L!Status, L!Terminal
<1>4. Alone'
  <2>1. w \in scene.doors
    BY DEF LaneFlock
  <2>2. lanePc[w] \notin Unclaimed => lanePc'[w] \notin Unclaimed
    BY DEF Unclaimed
  <2>0. scene.doors \subseteq Doors
    BY LanesAssumption DEF L!LanesConstants, L!SceneSet
  <2>3. UNCHANGED <<scene, lane, twin, named>> /\ \A v \in Doors : v # w => lanePc'[v] = lanePc[v]
    OBVIOUS
  <2> QED
    BY <2>0, <2>1, <2>2, <2>3 DEF Alone, L!Entry
<1> QED
  BY <1>1, <1>2, <1>3, <1>4

\* A call that is given the incumbent; later it waits for it.
LEMMA DedupeStep == ASSUME LaneInv, LaneTypes', NEW w \in Doors, L!Dedupes(w) PROVE LaneLaw'
<1> USE DEF LaneInv, LaneLaw, LaneTypes, L!LanesTypeOK, L!registry, L!calls, L!hist, L!watch, L!disk, L!Goes, L!Leaves, L!Dedupes
<1>1. LaneFlock' /\ Vacant' /\ OnlyEntry'
  BY LanesAssumption DEF L!LanesConstants, LaneFlock, Vacant, OnlyEntry, OfLane, Makes, Making, L!Entry, L!Undone
<1>2. OwnRuns'
  BY DEF OwnRuns, OfLane, Makes, Making, L!Entry, L!Incumbent
<1>3. Alone'
  BY DEF Alone, LaneFlock, L!Entry, L!Incumbent, Unclaimed
<1> QED
  BY <1>1, <1>2, <1>3

LEMMA WaitStep == ASSUME LaneInv, LaneTypes', NEW w \in Doors, L!Waits(w) PROVE LaneLaw'
<1> USE DEF LaneInv, LaneLaw, LaneTypes, L!LanesTypeOK, L!registry, L!calls, L!hist, L!watch, L!disk, L!Goes, L!Waits
<1> DEFINE d == mine[w]
<1>1. d \in named /\ d \in Runs
  BY DEF OwnRuns
<1>2. /\ \A e \in Runs : state'[e] = "none" => state[e] = "none"
      /\ \A e \in named : L!Undone(e)' => L!Undone(e)
      /\ \A e \in live' : state'[e] = "open"
  <2>1. CASE UNCHANGED <<L!disk, live, blind>>
    BY <2>1 DEF L!Undone, OwnRuns
  <2>2. CASE L!Boots(d) /\ L!Status(d, live) \in {"pending", "interrupted"}
    <3>1. L!Undone(d)
      BY <1>1, <2>2 DEF L!Undone, L!Status, L!Terminal
    <3> QED
      BY <1>1, <2>2, <3>1, BootOpens DEF L!Undone, OwnRuns
  <2> QED
    BY <2>1, <2>2
<1>3. LaneFlock' /\ Alone'
  BY DEF LaneFlock, Alone, OfLane, Makes, Making, L!Entry, Unclaimed
<1>4. OwnRuns'
  BY <1>2 DEF OwnRuns, OfLane, Makes, Making, L!Entry
<1>5. Vacant' /\ OnlyEntry'
  BY <1>2, LanesAssumption DEF L!LanesConstants, OwnRuns, Vacant, OnlyEntry, OfLane, L!Entry
<1> QED
  BY <1>3, <1>4, <1>5

LEMMA MakeStep == ASSUME LaneInv, LaneTypes', NEW w \in Doors, L!MakesDir(w) PROVE LaneLaw'
<1> USE DEF LaneInv, LaneLaw, LaneTypes, L!LanesTypeOK, L!registry, L!calls, L!hist, L!watch, L!disk, L!Goes, L!MakesDir
<1> DEFINE m == L!Min(L!Unused)
<1>1. m \in Runs /\ state[m] = "none" /\ mine' = [mine EXCEPT ![w] = m] /\ state' = [state EXCEPT ![m] = "new"]
  BY FreshRun DEF L!Unused
<1>2. m \notin named /\ m \notin live /\ \A v \in Doors : Makes(v) => mine[v] # m
  BY <1>1 DEF OwnRuns
<1> HIDE DEF m
<1>3. LaneFlock' /\ Alone'
  BY DEF LaneFlock, Alone, OfLane, Makes, Making, L!Entry, Unclaimed
<1>4. OwnRuns'
  BY <1>1, <1>2 DEF OwnRuns, OfLane, Makes, Making, L!Entry
<1>5. Vacant' /\ OnlyEntry'
  BY <1>1, <1>2, LanesAssumption DEF L!LanesConstants, OwnRuns, Vacant, OnlyEntry, OfLane, L!Entry, L!Undone
<1> QED
  BY <1>3, <1>4, <1>5

LEMMA WriteStep == ASSUME LaneInv, LaneTypes', NEW w \in Doors, L!Writes(w) PROVE LaneLaw'
<1> USE DEF LaneInv, LaneLaw, LaneTypes, L!LanesTypeOK, L!registry, L!calls, L!hist, L!watch, L!disk, L!Writes
<1>1. lanePc[w] = "write" /\ \E p \in {"write", "claim", "prove"} :
        /\ lanePc' = [lanePc EXCEPT ![w] = p]
        /\ p = "claim" => OfLane(w)
        /\ p = "prove" => ~ OfLane(w)
  BY DEF OfLane
<1>2. UNCHANGED <<scene, state, live, lane, twin, flock, mine, asked, named>>
  OBVIOUS
<1>3. LaneFlock' /\ Vacant' /\ OnlyEntry'
  BY <1>1, <1>2 DEF LaneFlock, Vacant, OnlyEntry, OfLane, Makes, Making, L!Entry, L!Undone
<1>4. OwnRuns'
  BY <1>1, <1>2 DEF OwnRuns, OfLane, Makes, Making, L!Entry
<1>5. Alone'
  <2>1. w \in scene.doors
    BY <1>1 DEF LaneFlock
  <2> QED
    BY <1>1, <1>2, <2>1 DEF Alone, L!Entry, Unclaimed
<1> QED
  BY <1>3, <1>4, <1>5

LEMMA ClaimStep == ASSUME Undisputed, LaneInv, LaneTypes', NEW w \in Doors, L!Claims(w) PROVE LaneLaw'
<1> USE DEF LaneInv, LaneLaw, LaneTypes, L!LanesTypeOK, L!registry, L!calls, L!hist, L!watch, L!disk, L!Goes, L!Claims
<1>1. mine[w] \in Runs /\ Makes(w) /\ OfLane(w) /\ flock = w /\ w \in scene.doors
  BY DEF OwnRuns, LaneFlock, Makes, Making
<1>2. L!Entry' = mine[w]
  BY <1>1, LanesAssumption DEF L!LanesConstants, L!Entry, L!Nobody
<1>3. LaneFlock'
  BY <1>1 DEF LaneFlock, OfLane, Makes, Making
<1>4. Vacant'
  BY <1>1 DEF Vacant, LaneFlock, OfLane, Makes, Making
<1>5. OnlyEntry'
  BY <1>1, <1>2, LanesAssumption DEF L!LanesConstants, OnlyEntry, Vacant, OwnRuns, L!Undone, L!Nobody
<1>6. OwnRuns'
  BY <1>1, <1>2 DEF OwnRuns, LaneFlock, OfLane, Makes, Making
<1>7. Alone'
  BY <1>1, <1>2 DEF Alone, Undisputed, Unclaimed
<1> QED
  BY <1>3, <1>4, <1>5, <1>6, <1>7

LEMMA LaunchStep == ASSUME LaneInv, LaneTypes', NEW w \in Doors, L!Launches(w) PROVE LaneLaw'
<1> USE DEF LaneInv, LaneLaw, L!registry, L!calls, L!hist, L!watch, L!disk, L!Goes, L!Leaves, L!Launches
<1> DEFINE d == mine[w]
<1>1. d \in Runs /\ Makes(w) /\ lanePc[w] = "prove" /\ (d \in named => OfLane(w)) /\ (OfLane(w) => lane = d /\ flock = w)
  BY DEF OwnRuns, LaneFlock, Makes, Making
<1>2. (\A e \in Runs : e # d => state'[e] = state[e] /\ (e \in live' <=> e \in live)) /\ (d \in live' => state'[d] = "open")
      /\ (state'[d] = "none" => state[d] = "none")
  BY <1>1, BootOpens DEF OwnRuns
<1> USE DEF LaneTypes, L!LanesTypeOK
<1>3. LaneFlock'
  BY <1>1, LanesAssumption DEF L!LanesConstants, LaneFlock, OfLane, Makes, Making
<1>4. OwnRuns'
  BY <1>1, <1>2 DEF OwnRuns, OfLane, Makes, Making, L!Entry
<1>5. Vacant'
  <2> SUFFICES ASSUME NEW v \in Doors, OfLane(v)', lanePc'[v] \in {"make", "write", "claim"}, L!Entry' # L!Nobody
               PROVE  ~ L!Undone(L!Entry)'
    BY DEF Vacant
  <2>1. v # w /\ lanePc[v] = lanePc'[v] /\ OfLane(v) /\ L!Entry' = L!Entry
    BY DEF OfLane, L!Entry
  <2>2. L!Entry \in named /\ L!Entry \in Runs
    BY <2>1 DEF OwnRuns
  <2>3. L!Entry # d
    BY <1>1, <2>1, <2>2 DEF LaneFlock, OfLane, Makes, Making
  <2> QED
    BY <1>2, <2>1, <2>2, <2>3 DEF Vacant, L!Undone
<1>6. OnlyEntry'
  <2>1. UNCHANGED <<lane, twin, named>> /\ L!Entry' = L!Entry
    BY DEF L!Entry
  <2>2. d \in named => L!Entry = d
    BY <1>1, LanesAssumption DEF L!LanesConstants, L!Entry, L!Nobody
  <2>3. ASSUME NEW e \in named, L!Undone(e)' PROVE e = L!Entry'
    BY <1>2, <2>1, <2>2, <2>3 DEF OnlyEntry, L!Undone
  <2> QED
    BY <2>1, <2>3 DEF OnlyEntry
<1>7. Alone'
  BY DEF Alone, L!Entry, Unclaimed
<1> QED
  BY <1>3, <1>4, <1>5, <1>6, <1>7

LEMMA LaneStep == ASSUME Undisputed, LaneInv, [L!Next]_(L!vars) PROVE LaneInv'
<1>1. LaneTypes'
  BY TypeStep
<1>2. CASE UNCHANGED L!vars
  BY <1>1, <1>2, RunsKeepLaw DEF L!vars, L!disk, L!registry, L!calls, L!hist, LaneInv, LaneLaw, OwnRuns, L!Undone
<1>3. ASSUME NEW w \in Doors, L!Call(w) \/ L!Breaks(w) PROVE LaneLaw'
  BY <1>1, <1>3, PlainCallStep, DedupeStep, WaitStep, MakeStep, WriteStep, ClaimStep, LaunchStep DEF L!Call
<1>4. ASSUME NEW d \in Runs, L!Ends(d) \/ L!Dies(d) \/ L!Releases(d) \/ L!Amends(d) \/ L!Ages(d) \/ L!Judges(d) \/ L!TickLooks(d)
      PROVE  LaneLaw'
  BY <1>1, <1>4, RunsStep, AmendStep
<1>5. CASE L!TickBegins \/ L!TickEnds \/ L!Removes \/ L!Trims
  BY <1>1, <1>5, JobsStep DEF LaneInv
<1> QED
  BY <1>1, <1>2, <1>3, <1>4, <1>5 DEF L!Next, L!Tick, LaneInv

-----------------------------------------------------------------------------
(* BootsInformed.                                                          *)

LEMMA BootInit == ASSUME Undisputed, L!Init PROVE BootInv
BY LanesAssumption DEF L!LanesConstants, L!Init, BootInv, Informed, AfterTheCall, L!Terminal, L!Mandatory, L!Nobody

\* A boot of a run that has its meta.
LEMMA BootFinds ==
  ASSUME LaneTypes, Informed, NEW d \in Runs, L!Boots(d), d \in L!Made /\ d \notin live => "run" \in files[d]
  PROVE  /\ blind' = {} /\ UNCHANGED files
         /\ \A e \in Runs : state'[e] = "gone" <=> state[e] = "gone"
         /\ \A e \in Runs : state'[e] = "new" => state[e] = "new"
         /\ \A e \in Runs : state'[e] \in L!Terminal \cup {"open", "held"} \/ e \in named => "run" \in files[e] \/ state[e] = "gone"
BY DEF LaneTypes, L!LanesTypeOK, Informed, L!Boots, L!Made, L!disk, L!Terminal

\* The calls are where they were.
LEMMA BootOnly ==
  ASSUME LaneInv, BootInv, NEW d \in Runs, L!Boots(d), d \in L!Made /\ d \notin live => "run" \in files[d],
         UNCHANGED <<scene, lanePc, mine, named, jobs, tick>>
  PROVE  BootInv'
<1> USE DEF BootInv, LaneInv
<1>1. Informed'
  <2>1. \A w \in Doors : lanePc[w] = "claim" => "run" \in files[mine[w]] \/ state[mine[w]] = "gone"
    BY DEF Informed
  <2>2. \A w \in Doors : lanePc[w] = "claim" => mine[w] \in Runs
    BY DEF LaneLaw, OwnRuns, Makes, Making
  <2> QED
    BY <2>1, <2>2, BootFinds DEF Informed
<1>2. AfterTheCall'
  BY BootFinds DEF AfterTheCall, Makes, Making
<1> QED
  BY <1>1, <1>2

LEMMA RunsBoot ==
  ASSUME Unhurried, LaneInv, BootInv, NEW d \in Runs,
         L!Ends(d) \/ L!Dies(d) \/ L!Releases(d) \/ L!Amends(d) \/ L!Ages(d) \/ L!Judges(d) \/ L!TickLooks(d)
  PROVE  BootInv'
<1> USE DEF L!registry, L!calls, L!hist, L!watch, L!disk, LaneInv, LaneTypes, L!LanesTypeOK
<1>1. CASE L!Ends(d)
  <2>1. state[d] = "open" /\ \E v \in {"done", "failed", "stopped", "held"} : state' = [state EXCEPT ![d] = v]
    BY <1>1, LanesAssumption DEF L!Ends, LaneLaw, OwnRuns, L!LanesConstants, L!SceneSet
  <2>2. UNCHANGED <<scene, files, lanePc, mine, named, blind, jobs, tick>>
    BY <1>1 DEF L!Ends
  <2>3. Informed'
    BY <2>1, <2>2 DEF BootInv, Informed, L!Terminal, LaneLaw, OwnRuns, Makes, Making
  <2>4. AfterTheCall'
    BY <2>1, <2>2 DEF BootInv, AfterTheCall, Makes, Making
  <2> QED
    BY <2>3, <2>4 DEF BootInv
<1>2. CASE L!Dies(d) \/ L!Ages(d) \/ L!Judges(d)
  BY <1>2 DEF L!Dies, L!Ages, L!Judges, BootInv, Informed, AfterTheCall, Makes, Making
<1>3. CASE L!Releases(d) \/ L!Amends(d)
  <2>1. "run" \in files[d]
    BY <1>3 DEF L!Releases, L!Amends, BootInv, Informed, L!Terminal
  <2> QED
    BY <1>3, <2>1, BootOnly DEF L!Releases, L!Amends
<1>4. CASE L!TickLooks(d)
  <2>1. scene.ticks /\ \E w \in scene.doors : lanePc[w] = "launched"
    BY <1>4 DEF L!TickLooks, BootInv, AfterTheCall
  <2>2. \A v, w \in scene.doors : v = w
    BY <2>1 DEF Unhurried
  <2>3. scene.doors \subseteq Doors
    BY LanesAssumption DEF L!LanesConstants, L!SceneSet
  <2>4. \A w \in Doors : ~ Makes(w)
    BY <2>1, <2>2, <2>3 DEF LaneLaw, LaneFlock, Makes, Making
  <2>5. state[d] # "new"
    BY <2>1, <2>3, <2>4 DEF BootInv, AfterTheCall
  <2>6. CASE L!Boots(d) /\ L!Status(d, census) \in {"pending", "interrupted"}
    <3>1. "run" \in files[d]
      BY <2>5, <2>6 DEF L!Status, L!Terminal, BootInv, Informed
    <3> QED
      BY <1>4, <2>6, <3>1, BootOnly DEF L!TickLooks
  <2>7. CASE UNCHANGED <<L!disk, live, blind>>
    BY <1>4, <2>7 DEF L!TickLooks, BootInv, Informed, AfterTheCall, Makes, Making
  <2> QED
    BY <1>4, <2>6, <2>7 DEF L!TickLooks
<1> QED
  BY <1>1, <1>2, <1>3, <1>4

LEMMA JobsBoot ==
  ASSUME LaneInv, BootInv, L!TickBegins \/ L!TickEnds \/ L!Removes \/ L!Trims
  PROVE  BootInv'
<1> USE DEF L!registry, L!calls, L!hist, L!watch, L!disk, LaneInv, LaneTypes, L!LanesTypeOK, BootInv
<1>1. CASE L!TickBegins \/ L!TickEnds \/ L!Trims
  BY <1>1 DEF L!TickBegins, L!TickEnds, L!Trims, Informed, AfterTheCall, Makes, Making
<1>2. CASE L!Removes
  <2>1. Informed'
    BY <1>2 DEF L!Removes, Informed, L!Terminal
  <2>2. AfterTheCall'
    BY <1>2 DEF L!Removes, AfterTheCall, Makes, Making
  <2> QED
    BY <2>1, <2>2
<1> QED
  BY <1>1, <1>2

LEMMA CallBoot ==
  ASSUME Unhurried, LaneInv, BootInv, NEW w \in Doors, L!Call(w) \/ L!Breaks(w)
  PROVE  BootInv'
<1> USE DEF L!registry, L!calls, L!hist, L!watch, L!disk, L!Goes, LaneInv, LaneTypes, L!LanesTypeOK, BootInv
<1>0. lanePc[w] # "idle" => w \in scene.doors
  BY DEF LaneLaw, LaneFlock
<1>1. CASE L!Asks(w) \/ L!TakesLane(w) \/ L!Claimable(w) \/ L!Arms(w) \/ L!Dedupes(w)
  <2>1. UNCHANGED <<scene, files, state, blind, named, jobs, tick>> /\ \E p : lanePc' = [lanePc EXCEPT ![w] = p] /\ p # "claim" /\ (p = "create" => scene.ticks)
        /\ (\A v \in Doors : v # w => mine'[v] = mine[v]) /\ lanePc[w] \notin Making \cup {"launched"}
    BY <1>1 DEF L!Asks, L!Checked, L!TakesLane, L!Claimable, L!Arms, L!Dedupes, Making
  <2> QED
    <3>1. \A v \in Doors : v # w => lanePc'[v] = lanePc[v]
      BY <2>1
    <3>2. Informed'
      BY <2>1, <3>1 DEF Informed
    <3>3. \A v \in Doors : Makes(v) => v # w /\ Makes(v)' /\ mine'[v] = mine[v]
      BY <2>1, <3>1 DEF Makes, Making
    <3>4. scene.doors \subseteq Doors
      BY LanesAssumption DEF L!LanesConstants, L!SceneSet
    <3>5. AfterTheCall'
      BY <2>1, <3>1, <3>3, <3>4 DEF AfterTheCall
    <3> QED
      BY <3>2, <3>5
<1>2. CASE L!CreatesJob(w)
  BY <1>0, <1>2 DEF L!CreatesJob, Informed, AfterTheCall, Makes, Making
<1>3. CASE L!MakesDir(w)
  <2> DEFINE m == L!Min(L!Unused)
  <2>1. m \in Runs /\ state[m] = "none" /\ mine' = [mine EXCEPT ![w] = m] /\ state' = [state EXCEPT ![m] = "new"]
    BY <1>3, FreshRun DEF L!MakesDir, L!Unused
  <2>2. m \notin named /\ \A v \in Doors : Makes(v) => mine[v] # m
    BY <2>1 DEF LaneLaw, OwnRuns
  <2> HIDE DEF m
  <2>3. Informed'
    BY <1>3, <2>1, <2>2 DEF L!MakesDir, Informed, L!Terminal, Makes, Making
  <2>4. AfterTheCall'
    BY <1>0, <1>3, <2>1, <2>2 DEF L!MakesDir, AfterTheCall, Makes, Making
  <2> QED
    BY <2>3, <2>4
<1>4. CASE L!Writes(w)
  <2>1. lanePc[w] = "write" /\ \E p \in Making : lanePc' = [lanePc EXCEPT ![w] = p] /\ (p = "claim" => "run" \in files[mine[w]])
    BY <1>4 DEF L!Writes, L!NextFile, L!LastFile, Making
  <2>2. \A d : "run" \in files[d] /\ d \in Runs => "run" \in files'[d]
    BY <1>4 DEF L!Writes
  <2>3. UNCHANGED <<scene, state, mine, named, blind, jobs, tick>>
    BY <1>4 DEF L!Writes
  <2>4. \A v \in Doors : Makes(v) => mine[v] \in Runs
    BY DEF LaneLaw, OwnRuns
  <2>5. Informed'
    BY <2>1, <2>2, <2>3, <2>4 DEF Informed, Makes, Making
  <2>6. AfterTheCall'
    BY <2>1, <2>3 DEF AfterTheCall, Makes, Making
  <2> QED
    BY <2>5, <2>6
<1>5. CASE L!Claims(w)
  BY <1>5 DEF L!Claims, Informed, AfterTheCall, Makes, Making
<1>6. CASE L!Launches(w)
  <2>1. mine[w] \in Runs /\ "run" \in files[mine[w]] /\ mine[w] \in L!Made /\ L!Boots(mine[w])
    BY <1>6 DEF L!Launches, L!Proved, L!Mandatory, L!Made, LaneLaw, OwnRuns, Makes, Making
  <2>2. state'[mine[w]] # "new"
    BY <2>1 DEF L!Boots, LaneLaw, OwnRuns
  <2>3. Informed'
    BY <1>6, <2>1, BootFinds DEF L!Launches, Informed, LaneLaw, OwnRuns, Makes, Making
  <2>4. AfterTheCall'
    BY <1>6, <2>1, <2>2, BootFinds DEF L!Launches, AfterTheCall, Makes, Making
  <2> QED
    BY <2>3, <2>4
<1>7. CASE L!Waits(w)
  <2>1. mine[w] \in Runs /\ mine[w] \in named
    BY <1>7 DEF L!Waits, LaneLaw, OwnRuns
  <2>2. CASE L!Boots(mine[w])
    <3>1. mine[w] \in L!Made => "run" \in files[mine[w]]
      BY <2>1 DEF Informed, L!Made
    <3>2. Informed'
      BY <1>7, <2>1, <2>2, <3>1, BootFinds DEF L!Waits, Informed, LaneLaw, OwnRuns, Makes, Making
    <3>3. AfterTheCall'
      BY <1>7, <2>1, <2>2, <3>1, BootFinds DEF L!Waits, AfterTheCall, Makes, Making
    <3> QED
      BY <3>2, <3>3
  <2>3. CASE UNCHANGED <<L!disk, live, blind>>
    BY <1>7, <2>3 DEF L!Waits, Informed, AfterTheCall, Makes, Making
  <2> QED
    BY <1>7, <2>2, <2>3 DEF L!Waits
<1>8. CASE L!Breaks(w)
  <2>1. ~ scene.ticks
    BY <1>0, <1>8, LanesAssumption DEF L!Breaks, Unhurried, L!LanesConstants, L!SceneSet
  <2> QED
    BY <1>8, <2>1 DEF L!Breaks, Informed, AfterTheCall
<1> QED
  BY <1>1, <1>2, <1>3, <1>4, <1>5, <1>6, <1>7, <1>8 DEF L!Call

LEMMA BootStep == ASSUME Unhurried, LaneInv, BootInv, [L!Next]_(L!vars) PROVE BootInv'
<1>1. CASE UNCHANGED L!vars
  BY <1>1 DEF L!vars, L!disk, L!registry, L!calls, L!watch, L!hist, BootInv, Informed, AfterTheCall, Makes
<1> QED
  BY <1>1, CallBoot, RunsBoot, JobsBoot DEF L!Next, L!Tick

LEMMA LaneInvHolds == LaneInv /\ BootInv => L!LanesTypeOK /\ L!OneRunPerLane /\ L!BootsInformed
BY DEF LaneInv, LaneTypes, LaneLaw, OnlyEntry, L!OneRunPerLane, BootInv, Informed, L!BootsInformed

-----------------------------------------------------------------------------
(* Recover: one respawn for a crash, closures of the dead only.             *)

\* Three scripts and an amend can have the guard forget a graph.
FewScripts ==
  \A s \in CrashScenes : s.amends = 0 \/ \E v, w \in Watchdogs : Watchdogs \cap s.scripts \subseteq {v, w}

Inside == {"check", "spawn", "confirm", "receipt", "guard"}
States == {"none", "running", "done", "failed"}
ItemTypes ==
  /\ item \in [Items -> [st : States, efp : Nat, doa : BOOLEAN]] /\ process \in [Items -> BOOLEAN]
  /\ spared \subseteq Items
WatchTypes ==
  /\ crash \in S!SceneSet /\ version \in Nat \ {0} /\ lost \in Nat
  /\ receipts \in [1..(version + crash.amends) -> Nat]
  /\ wpc \in [Watchdogs -> Inside \cup {"idle", "admit", "end"}]
  /\ fp \in [Watchdogs -> Nat] /\ \A w \in Watchdogs : fp[w] <= version /\ (wpc[w] # "idle" => fp[w] # 0)
PassTypes ==
  /\ zpc \in [Finalizers -> {"idle", "lock", "close", "verdict", "end", "dead"}]
  /\ read \in [Finalizers -> Nat] /\ left \in [Finalizers -> SUBSET Items] /\ failed \in [Finalizers -> BOOLEAN]
  /\ DOMAIN found = Finalizers /\ \A z \in Finalizers : \A f \in found[z] : f[1] \in Items /\ f[2] \in Nat
RecoverTypes == ItemTypes /\ WatchTypes /\ PassTypes

-----------------------------------------------------------------------------
\* RespawnedOnce.

Steady == (crash.amends = 0 /\ version = 1) \/ \E v, w \in Watchdogs : Watchdogs \cap crash.scripts \subseteq {v, w}

\* The admission is of who is inside; whoever left the guard has ended, and nobody is inside whose
\* fingerprint is guarded.
Admission ==
  /\ \A w \in Watchdogs :
       /\ wpc[w] \in Inside => admission = w
       /\ wpc[w] # "idle" => w \in crash.scripts
       /\ wpc[w] \in {"spawn", "confirm", "receipt"} => guard # fp[w]
  /\ guard # 0 => \E w \in Watchdogs : wpc[w] = "end" /\ fp[w] = guard

\* Nobody will ask for this graph any more.
NoMore(g) == \A w \in Watchdogs \cap crash.scripts : wpc[w] = "end" \/ (wpc[w] # "idle" /\ fp[w] # g)
Guarded(g) == guard = g \/ (\E w \in Watchdogs : wpc[w] = "guard" /\ fp[w] = g) \/ NoMore(g)
Counted == \A g \in DOMAIN receipts : receipts[g] <= lost \/ (receipts[g] <= lost + 1 /\ Guarded(g))

-----------------------------------------------------------------------------
\* ClosesTheDead and Repaired.

Passing(z) == zpc[z] \in {"close", "verdict"}
\* A pass holds the lock, a runner lives under it and has no verdict.
Locks ==
  /\ \A z \in Finalizers : Passing(z) => lock = z
  /\ runner = "live" => lock = "runner" /\ verdict.reason = "none"

\* What a pass has looked at is not running, or lives; what it has found is dead.
Looked ==
  \A z \in Finalizers :
    /\ zpc[z] \in {"idle", "lock"} => left[z] = Items /\ found[z] = {} /\ ~ failed[z]
    /\ zpc[z] = "close" => \A f \in found[z] : item[f[1]].st = "running" /\ ~ process[f[1]] /\ \A e \in found[z] : e[1] = f[1]
    /\ zpc[z] = "verdict" => left[z] = {} /\ found[z] = {}
    /\ Passing(z) /\ ~ failed[z] =>
         \A i \in Items \ spared : item[i].st = "running" => i \in left[z] \/ \E f \in found[z] : f[1] = i
    /\ zpc[z] = "verdict" /\ ~ failed[z] /\ (\E i \in Items : item[i].doa /\ item[i].efp = read[z]) => agg.st # "none"

RecoverInv == RecoverTypes /\ Locks /\ Looked
RespawnInv == RecoverTypes /\ Steady /\ Admission /\ Counted

-----------------------------------------------------------------------------

LEMMA RecoverInit == ASSUME S!Init PROVE RecoverInv /\ (FewScripts => RespawnInv)
<1> USE RecoverAssumption DEF S!RecoverConstants, S!Init
<1>0. crash \in S!SceneSet /\ crash.amends \in Nat
  BY DEF S!SceneSet
<1>1. ItemTypes
  BY DEF ItemTypes, S!Record, States
<1>2. WatchTypes
  BY <1>0 DEF WatchTypes, Inside
<1>3. PassTypes
  BY DEF PassTypes
<1>4. FewScripts => Steady
  BY DEF Steady, FewScripts
<1>5. Locks /\ Looked
  BY DEF Locks, Looked, Passing, S!NoVerdict
<1>6. Admission /\ Counted
  BY <1>0 DEF Admission, Inside, Counted
<1> QED
  BY <1>1, <1>2, <1>3, <1>4, <1>5, <1>6 DEF RecoverInv, RespawnInv, RecoverTypes

\* What happens once more happens less often from here on.
LEMMA CanTypes ==
  ASSUME crash \in S!SceneSet, NEW what \in {"boots", "kills", "amends", "deaths", "faults"}, S!Can(what)
  PROVE  /\ crash' \in S!SceneSet /\ crash'.scripts = crash.scripts
         /\ crash.amends \in Nat /\ crash'.amends = (IF what = "amends" THEN crash.amends - 1 ELSE crash.amends)
         /\ crash'.amends \in Nat
BY DEF S!Can, S!SceneSet

RunnerActs == S!Boots \/ S!Concludes \/ S!RunnerDies \/ S!DoorBoots \/ \E i \in Items : S!Answers(i) \/ S!ChildDies(i)
Watches(w) == S!Reads(w) \/ S!Admits(w) \/ S!Checks(w) \/ S!Spawns(w) \/ S!Confirms(w) \/ S!Receipts(w) \/ S!Guards(w)
Passes(z) == S!Loads(z) \/ S!TakesLock(z) \/ S!Aggregates(z) \/ S!Verdicts(z) \/ S!Closes(z) \/ \E i \in Items : S!Looks(z, i)

\* Steps that leave the watchdogs alone.
LEMMA WatchTypesKept ==
  ASSUME WatchTypes, UNCHANGED <<version, receipts, wpc, fp, lost>>,
         \/ UNCHANGED crash
         \/ \E what \in {"boots", "kills", "deaths", "faults"} : S!Can(what)
  PROVE  WatchTypes'
<1>1. crash' \in S!SceneSet /\ crash'.amends = crash.amends
  BY CanTypes DEF WatchTypes
<1>2. version' + crash'.amends = version + crash.amends
  BY <1>1
<1>3. receipts' \in [1..(version + crash.amends) -> Nat]
  BY DEF WatchTypes
<1>4. receipts' \in [1..(version' + crash'.amends) -> Nat]
  BY <1>2, <1>3
<1> QED
  BY <1>1, <1>4 DEF WatchTypes

LEMMA RunnerTypes == ASSUME RecoverTypes, RunnerActs PROVE RecoverTypes'
<1> USE DEF RecoverTypes, S!Keep, S!records, S!watchdogs, S!finalizers
<1>1. WatchTypes' /\ PassTypes' /\ spared' = spared
  BY WatchTypesKept DEF RunnerActs, S!Boots, S!Concludes, S!RunnerDies, S!DoorBoots, S!Answers, S!ChildDies, PassTypes
<1>2. CASE S!Boots
  <2>1. S!Record("running", version) \in [st : States, efp : Nat, doa : BOOLEAN]
    BY DEF S!Record, States, WatchTypes
  <2> QED
    BY <1>1, <1>2, <2>1 DEF S!Boots, ItemTypes
<1>3. CASE S!Concludes \/ S!RunnerDies \/ S!DoorBoots
  BY <1>1, <1>3 DEF S!Concludes, S!RunnerDies, S!DoorBoots, ItemTypes
<1>4. ASSUME NEW i \in Items, S!Answers(i) PROVE RecoverTypes'
  <2>1. item' = [item EXCEPT ![i] = [item[i] EXCEPT !.st = "done"]] /\ [item[i] EXCEPT !.st = "done"] \in [st : States, efp : Nat, doa : BOOLEAN]
    BY <1>4 DEF S!Answers, States, ItemTypes
  <2> QED
    BY <1>1, <1>4, <2>1 DEF S!Answers, ItemTypes
<1>5. ASSUME NEW i \in Items, S!ChildDies(i) PROVE RecoverTypes'
  BY <1>1, <1>5 DEF S!ChildDies, ItemTypes
<1> QED
  BY <1>2, <1>3, <1>4, <1>5 DEF RunnerActs

LEMMA AmendTypes == ASSUME RecoverTypes, S!Amends PROVE RecoverTypes'
<1> USE DEF RecoverTypes, S!records, S!watchdogs, S!finalizers, S!Amends
<1>1. crash' \in S!SceneSet /\ crash.amends \in Nat /\ crash'.amends = crash.amends - 1
  BY CanTypes DEF WatchTypes
<1>2. version' + crash'.amends = version + crash.amends /\ version' \in Nat \ {0} /\ version <= version'
  <2>1. version \in Nat \ {0} /\ version' = version + 1
    BY DEF WatchTypes
  <2>2. version \in Nat /\ version # 0
    BY <2>1
  <2>3. version' \in Nat \ {0} /\ version <= version'
    BY <2>1, <2>2
  <2>4. version' + crash'.amends = version + crash.amends
    <3> DEFINE a == crash.amends  b == crash'.amends
    <3>1. a \in Nat /\ b = a - 1
      BY <1>1
    <3> HIDE DEF a, b
    <3>2. version' + b = version + a
      BY <2>1, <2>2, <3>1
    <3> QED
      BY <3>2 DEF a, b
  <2> QED
    BY <2>3, <2>4
<1>3. \A w \in Watchdogs : fp[w] <= version' /\ (wpc[w] # "idle" => fp[w] # 0)
  BY <1>2 DEF WatchTypes
<1>4. receipts' \in [1..(version' + crash'.amends) -> Nat]
  <2>1. receipts' \in [1..(version + crash.amends) -> Nat]
    BY DEF WatchTypes
  <2> QED
    BY <1>2, <2>1
<1>5. WatchTypes'
  BY <1>1, <1>2, <1>3, <1>4 DEF WatchTypes
<1> QED
  BY <1>5 DEF ItemTypes, PassTypes

LEMMA WatchesTypes ==
  ASSUME RecoverTypes, NEW w \in Watchdogs, Watches(w) PROVE RecoverTypes'
<1> USE DEF RecoverTypes, S!Keep, S!records, S!watchdogs, S!finalizers, S!Goes
<1>1. ItemTypes' /\ PassTypes'
  BY DEF Watches, S!Reads, S!Admits, S!Checks, S!Spawns, S!Confirms, S!Receipts, S!Guards, ItemTypes, PassTypes
<1>2. CASE S!Reads(w)
  BY <1>1, <1>2 DEF S!Reads, WatchTypes, Inside
<1>3. CASE S!Admits(w) \/ S!Checks(w) \/ S!Spawns(w) \/ S!Confirms(w) \/ S!Guards(w)
  BY <1>1, <1>3 DEF S!Admits, S!Checks, S!Spawns, S!Confirms, S!Guards, WatchTypes, Inside
<1>4. CASE S!Receipts(w)
  <2>1. crash.amends \in Nat /\ fp[w] \in 1..(version + crash.amends)
    BY <1>4 DEF S!Receipts, S!SceneSet, WatchTypes
  <2> QED
    BY <1>1, <1>4, <2>1 DEF S!Receipts, WatchTypes, Inside
<1> QED
  BY <1>2, <1>3, <1>4 DEF Watches

LEMMA PassesTypes == ASSUME RecoverTypes, NEW z \in Finalizers, Passes(z) PROVE RecoverTypes'
<1> USE DEF RecoverTypes, S!Keep, S!records, S!watchdogs, S!finalizers, S!Turns
<1>1. WatchTypes'
  BY WatchTypesKept DEF Passes, S!Loads, S!TakesLock, S!Aggregates, S!Verdicts, S!Closes, S!Looks
<1>2. CASE S!Loads(z) \/ S!TakesLock(z)
  <2>1. version \in Nat
    BY DEF WatchTypes
  <2> QED
    BY <1>1, <1>2, <2>1 DEF S!Loads, S!TakesLock, ItemTypes, PassTypes
<1>3. CASE S!Aggregates(z) \/ S!Verdicts(z)
  BY <1>1, <1>3 DEF S!Aggregates, S!Verdicts, ItemTypes, PassTypes
<1>4. CASE S!Closes(z)
  <2>1. ItemTypes'
    <3>1. CASE UNCHANGED item
      BY <1>4, <3>1 DEF S!Closes, ItemTypes
    <3>2. ASSUME NEW f \in found[z], item' = [item EXCEPT ![f[1]] = [st |-> "failed", efp |-> f[2], doa |-> TRUE]]
          PROVE  ItemTypes'
      <4>1. f[1] \in Items /\ [st |-> "failed", efp |-> f[2], doa |-> TRUE] \in [st : States, efp : Nat, doa : BOOLEAN]
        BY DEF PassTypes, States
      <4> QED
        BY <1>4, <3>2, <4>1 DEF S!Closes, ItemTypes
    <3> QED
      BY <1>4, <3>1, <3>2 DEF S!Closes
  <2> QED
    BY <1>1, <1>4, <2>1 DEF S!Closes, PassTypes
<1>5. ASSUME NEW i \in Items, S!Looks(z, i) PROVE RecoverTypes'
  <2>1. item[i].efp \in Nat
    BY DEF ItemTypes
  <2>2. \A f \in found'[z] : f[1] \in Items /\ f[2] \in Nat
    BY <1>5, <2>1 DEF S!Looks, PassTypes
  <2> QED
    BY <1>1, <1>5, <2>2 DEF S!Looks, PassTypes, ItemTypes
<1> QED
  BY <1>2, <1>3, <1>4, <1>5 DEF Passes

LEMMA DeathTypes == ASSUME RecoverTypes, S!ScriptDies PROVE RecoverTypes'
<1> USE DEF RecoverTypes, S!records, S!watchdogs, S!finalizers, S!ScriptDies
<1>1. crash' \in S!SceneSet /\ crash'.amends = crash.amends
  BY CanTypes DEF WatchTypes
<1>2. wpc' \in [Watchdogs -> Inside \cup {"idle", "admit", "end"}] /\ lost' \in Nat
  BY DEF WatchTypes
<1>3. WatchTypes'
  BY <1>1, <1>2 DEF WatchTypes
<1>4. zpc' \in [Finalizers -> {"idle", "lock", "close", "verdict", "end", "dead"}]
  BY DEF PassTypes
<1> QED
  BY <1>3, <1>4 DEF PassTypes, ItemTypes

-----------------------------------------------------------------------------
LEMMA RunnerLocks == ASSUME RecoverInv, RunnerActs PROVE (Locks /\ Looked)'
<1> USE RecoverAssumption DEF S!RecoverConstants, RecoverInv, RecoverTypes, ItemTypes, PassTypes, S!Keep, S!records, S!watchdogs, S!finalizers
<1>1. CASE S!Boots
  <2>1. CASE lock # "free"
    BY <1>1, <2>1 DEF S!Boots, Locks, Looked, Passing
  <2>2. CASE lock = "free"
    <3>1. \A z \in Finalizers : ~ Passing(z)
      BY <2>2 DEF Locks
    <3> QED
      BY <1>1, <2>2, <3>1 DEF S!Boots, Locks, Looked, Passing, S!NoVerdict
  <2> QED
    BY <2>1, <2>2
<1>2. CASE S!Concludes
  <2>1. \A z \in Finalizers : ~ Passing(z)
    BY <1>2 DEF S!Concludes, Locks
  <2> QED
    BY <1>2, <2>1 DEF S!Concludes, Locks, Looked, Passing
<1>3. CASE S!RunnerDies \/ S!DoorBoots
  BY <1>3 DEF S!RunnerDies, S!DoorBoots, Locks, Looked, Passing
<1>4. ASSUME NEW i \in Items, S!Answers(i) PROVE (Locks /\ Looked)'
  <2>1. \A z \in Finalizers : ~ Passing(z)
    BY <1>4 DEF S!Answers, Locks
  <2> QED
    BY <1>4, <2>1 DEF S!Answers, Locks, Looked, Passing
<1>5. ASSUME NEW i \in Items, S!ChildDies(i) PROVE (Locks /\ Looked)'
  BY <1>5 DEF S!ChildDies, Locks, Looked, Passing
<1> QED
  BY <1>1, <1>2, <1>3, <1>4, <1>5 DEF RunnerActs

LEMMA PassLocks == ASSUME RecoverInv, NEW z \in Finalizers, Passes(z) PROVE (Locks /\ Looked)'
<1> USE RecoverAssumption DEF S!RecoverConstants, RecoverInv, RecoverTypes, ItemTypes, PassTypes, S!Keep, S!records, S!watchdogs, S!finalizers, S!Turns
<1>1. CASE S!Loads(z)
  BY <1>1 DEF S!Loads, Locks, Looked, Passing
<1>2. CASE S!TakesLock(z)
  BY <1>2 DEF S!TakesLock, Locks, Looked, Passing
<1>a. Passing(z) => \A y \in Finalizers : Passing(y) => y = z
  BY DEF Locks
<1>3. CASE S!Aggregates(z)
  BY <1>3, <1>a DEF S!Aggregates, Locks, Looked, Passing
<1>4. CASE S!Verdicts(z)
  BY <1>4, <1>a DEF S!Verdicts, S!Free, Locks, Looked, Passing
<1>5. CASE S!Closes(z)
  <2>1. zpc[z] = "close" /\ found' = [found EXCEPT ![z] = {}]
        /\ UNCHANGED <<process, agg, verdict, lock, runner, zpc, read, left, spared>>
    BY <1>5 DEF S!Closes
  <2>2. PICK f \in found[z] :
          \/ UNCHANGED failed /\ item' = [item EXCEPT ![f[1]] = [st |-> "failed", efp |-> f[2], doa |-> TRUE]]
          \/ failed' = [failed EXCEPT ![z] = TRUE] /\ UNCHANGED item
    BY <1>5 DEF S!Closes
  <2>3. \A i \in Items : item'[i].st = "running" => item[i].st = "running" /\ (failed'[z] \/ i # f[1])
    BY <2>2 DEF Looked
  <2>4. Locks'
    BY <2>1 DEF Locks, Passing
  <2>5. \A e \in found[z] : e[1] = f[1]
    BY <2>1 DEF Looked
  <2>6. Looked'
    BY <1>a, <2>1, <2>2, <2>3, <2>5 DEF Looked, Passing
  <2> QED
    BY <2>4, <2>6
<1>6. ASSUME NEW i \in Items, S!Looks(z, i) PROVE (Locks /\ Looked)'
  <2>1. zpc[z] = "close" /\ found[z] = {} /\ left' = [left EXCEPT ![z] = @ \ {i}]
        /\ found' = [found EXCEPT ![z] = IF S!Dead(i) THEN {<<i, item[i].efp>>} ELSE {}]
        /\ spared' = (IF process[i] THEN spared \cup {i} ELSE spared)
        /\ UNCHANGED <<item, agg, process, verdict, lock, runner, zpc, read, failed>>
    BY <1>6 DEF S!Looks
  <2>2. \A f \in found'[z] : f[1] = i /\ item[i].st = "running" /\ ~ process[i]
    BY <2>1 DEF S!Dead
  <2>3. item[i].st = "running" => i \in spared' \/ \E f \in found'[z] : f[1] = i
    BY <2>1 DEF S!Dead
  <2>4. Locks'
    BY <2>1 DEF Locks, Passing
  <2>5. Looked'
    BY <1>a, <2>1, <2>2, <2>3 DEF Looked, Passing
  <2> QED
    BY <2>4, <2>5
<1> QED
  BY <1>1, <1>2, <1>3, <1>4, <1>5, <1>6 DEF Passes

LEMMA RecoverStep == ASSUME RecoverInv, [S!Next]_(S!vars) PROVE RecoverInv'
<1> USE DEF RecoverInv
<1>1. CASE RunnerActs
  BY <1>1, RunnerTypes, RunnerLocks
<1>2. CASE S!Amends
  BY <1>2, AmendTypes DEF S!Amends, Locks, Looked, Passing, S!records, S!watchdogs, S!finalizers
<1>3. ASSUME NEW w \in Watchdogs, Watches(w) PROVE RecoverInv'
  <2>1. UNCHANGED <<item, agg, process, verdict, lock, S!finalizers, spared>> /\ (runner' = runner \/ runner' = "boot")
    BY <1>3 DEF Watches, S!Reads, S!Admits, S!Checks, S!Spawns, S!Follows, S!Confirms, S!Receipts, S!Guards, S!records
  <2> QED
    BY <1>3, <2>1, WatchesTypes DEF Locks, Looked, Passing, S!finalizers
<1>4. ASSUME NEW z \in Finalizers, Passes(z) PROVE RecoverInv'
  BY <1>4, PassesTypes, PassLocks
<1>5. CASE S!ScriptDies
  BY <1>5, DeathTypes, RecoverAssumption DEF S!RecoverConstants, S!ScriptDies, S!Free, Locks, Looked, Passing, S!records, S!finalizers, RecoverTypes, PassTypes
<1>6. CASE UNCHANGED S!vars
  BY <1>6 DEF S!vars, S!records, S!watchdogs, S!finalizers, RecoverTypes, ItemTypes, WatchTypes, PassTypes, Locks, Looked, Passing
<1> QED
  BY <1>1, <1>2, <1>3, <1>4, <1>5, <1>6 DEF S!Next, RunnerActs, Watches, Passes

-----------------------------------------------------------------------------
\* Steps of anybody but the watchdogs, an amend and a death.
LEMMA RespawnKept ==
  ASSUME RespawnInv, RecoverTypes', crash'.scripts = crash.scripts, UNCHANGED <<version, admission, guard, receipts, wpc, fp, lost>>,
         crash.amends = 0 => crash'.amends = 0
  PROVE  RespawnInv'
<1>1. Steady' /\ Admission'
  BY DEF RespawnInv, Steady, Admission
<1>2. Counted'
  BY DEF RespawnInv, Counted, Guarded, NoMore
<1> QED
  BY <1>1, <1>2 DEF RespawnInv

LEMMA AmendRespawn == ASSUME RespawnInv, RecoverTypes', S!Amends PROVE RespawnInv'
<1> USE DEF RespawnInv, S!Amends, S!records, S!watchdogs, S!finalizers
<1>1. crash'.scripts = crash.scripts /\ crash.amends \in Nat /\ crash.amends > 0
  BY CanTypes DEF RecoverTypes, WatchTypes, S!Can
<1>2. Steady' /\ Admission'
  BY <1>1 DEF Steady, Admission
<1>3. Counted'
  BY <1>1 DEF Counted, Guarded, NoMore
<1> QED
  BY <1>2, <1>3

LEMMA DeathRespawn == ASSUME RespawnInv, RecoverTypes', S!ScriptDies PROVE RespawnInv'
<1> USE DEF RespawnInv, S!ScriptDies, S!records, S!watchdogs, S!finalizers
<1>1. crash'.scripts = crash.scripts /\ crash'.amends = crash.amends
  BY CanTypes DEF RecoverTypes, WatchTypes
<1>2. Steady'
  BY <1>1 DEF Steady
<1>3. Counted'
  <2>1. \A g \in DOMAIN receipts : receipts[g] \in Nat
    BY DEF RecoverTypes, WatchTypes
  <2> QED
    BY <2>1 DEF Counted, RecoverTypes, WatchTypes
<1>4. Admission'
  <2>1. CASE UNCHANGED <<admission, wpc>>
    BY <1>1, <2>1 DEF Admission
  <2>2. ASSUME NEW w \in Watchdogs, wpc[w] \notin {"idle", "end"}, wpc' = [wpc EXCEPT ![w] = "end"], S!Frees(w)
        PROVE  Admission'
    BY <1>1, <2>2, RecoverAssumption DEF S!RecoverConstants, Admission, S!Frees, Inside, RecoverTypes, WatchTypes
  <2> QED
    BY <2>1, <2>2
<1> QED
  BY <1>2, <1>3, <1>4

\* A watchdog that has read the graph goes on or ends.
LEMMA GuardedKept ==
  ASSUME RespawnInv, NEW w \in Watchdogs, wpc[w] \notin {"idle", "guard", "end"}, NEW p \in Inside \cup {"end"},
         wpc' = [wpc EXCEPT ![w] = p], UNCHANGED <<crash, guard, fp>>, NEW g, Guarded(g)
  PROVE  Guarded(g)'
BY DEF RespawnInv, RecoverTypes, WatchTypes, Guarded, NoMore, Inside

LEMMA ReadRespawn ==
  ASSUME RespawnInv, RecoverTypes', NEW w \in Watchdogs, w \in crash.scripts, S!Reads(w) PROVE RespawnInv'
<1> USE DEF RespawnInv, S!Reads, S!Goes, S!Keep, S!records, S!watchdogs, S!finalizers, RecoverTypes, WatchTypes
<1>1. Steady'
  BY DEF Steady
<1>2. Admission'
  BY DEF Admission, Inside
<1>3. \A g : Guarded(g) => Guarded(g)'
  BY DEF Guarded, NoMore
<1>4. Counted'
  BY <1>3 DEF Counted
<1> QED
  BY <1>1, <1>2, <1>4

LEMMA ChecksRespawn ==
  ASSUME RespawnInv, RecoverTypes', NEW w \in Watchdogs, S!Admits(w) \/ S!Checks(w) \/ S!Spawns(w) \/ S!Confirms(w)
  PROVE  RespawnInv'
<1> USE DEF RespawnInv, S!Goes, S!Frees, S!Keep, S!records, S!watchdogs, S!finalizers
<1>1. PICK p \in {"check", "spawn", "confirm", "receipt", "end"} :
        /\ wpc' = [wpc EXCEPT ![w] = p] /\ wpc[w] \notin {"idle", "guard", "end"}
        /\ p \in {"confirm", "receipt"} => wpc[w] \in {"spawn", "confirm"}
        /\ p = "spawn" => guard # fp[w]
        /\ p # "end" => admission' = w
        /\ p = "end" => admission' = (IF admission = w THEN "free" ELSE admission)
        /\ wpc[w] = "admit" => admission = "free"
  BY DEF S!Admits, S!Checks, S!Spawns, S!Confirms, Admission, Inside
<1>2. UNCHANGED <<crash, version, guard, receipts, fp, lost>>
  BY DEF S!Admits, S!Checks, S!Spawns, S!Confirms
<1>3. Steady'
  BY <1>2 DEF Steady
<1>4. Admission'
  BY <1>1, <1>2, RecoverAssumption DEF S!RecoverConstants, Admission, Inside, RecoverTypes, WatchTypes
<1>5. \A g : Guarded(g) => Guarded(g)'
  BY <1>1, <1>2, GuardedKept DEF Inside
<1>6. Counted'
  BY <1>2, <1>5 DEF Counted
<1> QED
  BY <1>3, <1>4, <1>6

LEMMA ReceiptRespawn == ASSUME RespawnInv, RecoverTypes', NEW w \in Watchdogs, S!Receipts(w) PROVE RespawnInv'
<1> USE DEF RespawnInv, S!Goes, S!Keep, S!records, S!watchdogs, S!finalizers, S!Receipts
<1>1. wpc[w] = "receipt" /\ wpc' = [wpc EXCEPT ![w] = "guard"] /\ UNCHANGED <<crash, version, guard, admission, fp, lost>>
  OBVIOUS
<1>2. guard # fp[w] /\ admission = w /\ w \in crash.scripts
  BY <1>1 DEF Admission, Inside
<1>3. ~ Guarded(fp[w])
  BY <1>1, <1>2 DEF Guarded, NoMore, Admission, Inside
<1>4. Steady' /\ Admission'
  BY <1>1 DEF Steady, Admission, Inside, RecoverTypes, WatchTypes
<1>5. \A g : Guarded(g) => Guarded(g)'
  BY <1>1, GuardedKept DEF Inside
<1>6. Guarded(fp[w])'
  BY <1>1 DEF Guarded, RecoverTypes, WatchTypes
<1>7. Counted'
  <2>1. lost \in Nat /\ DOMAIN receipts' = DOMAIN receipts /\ \A g \in DOMAIN receipts : receipts[g] \in Nat
    BY DEF RecoverTypes, WatchTypes
  <2>2. \A g \in DOMAIN receipts : g # fp[w] => receipts'[g] = receipts[g]
    OBVIOUS
  <2>3. fp[w] \in DOMAIN receipts => receipts'[fp[w]] <= lost + 1
    BY <1>3, <2>1 DEF Counted
  <2> QED
    BY <1>1, <1>5, <1>6, <2>1, <2>2, <2>3 DEF Counted
<1> QED
  BY <1>4, <1>7

LEMMA GuardRespawn == ASSUME RespawnInv, RecoverTypes', NEW w \in Watchdogs, S!Guards(w) PROVE RespawnInv'
<1> USE DEF RespawnInv, S!Goes, S!Frees, S!Keep, S!records, S!watchdogs, S!finalizers, S!Guards
<1>1. wpc[w] = "guard" /\ wpc' = [wpc EXCEPT ![w] = "end"] /\ guard' = fp[w] /\ UNCHANGED <<crash, version, receipts, fp, lost>>
  OBVIOUS
<1>2. fp[w] # 0 /\ admission = w /\ w \in crash.scripts
  BY <1>1 DEF Admission, Inside, RecoverTypes, WatchTypes
<1>3. Steady'
  BY <1>1 DEF Steady
<1>4. Admission'
  BY <1>1, <1>2, RecoverAssumption DEF S!RecoverConstants, Admission, Inside, RecoverTypes, WatchTypes
<1>5. ASSUME NEW g \in DOMAIN receipts, Guarded(g) PROVE Guarded(g)'
  <2>1. CASE g = fp[w]
    BY <1>1, <2>1 DEF Guarded
  <2>2. CASE NoMore(g)
    BY <1>1, <2>2 DEF Guarded, NoMore, RecoverTypes, WatchTypes
  <2>3. CASE \E v \in Watchdogs : wpc[v] = "guard" /\ fp[v] = g
    BY <1>1, <1>2, <2>1, <2>3 DEF Admission, Inside
  <2>4. CASE guard = g /\ g # fp[w]
    <3>1. crash.amends \in Nat /\ g \in 1..(version + crash.amends) /\ fp[w] \in Nat /\ fp[w] <= version
      BY DEF RecoverTypes, WatchTypes, S!SceneSet
    <3>2. CASE crash.amends = 0 /\ version = 1
      BY <1>2, <2>4, <3>1, <3>2
    <3>3. ASSUME NEW u \in Watchdogs, NEW x \in Watchdogs, Watchdogs \cap crash.scripts \subseteq {u, x} PROVE Guarded(g)'
      <4>1. PICK v \in Watchdogs : wpc[v] = "end" /\ fp[v] = g
        BY <2>4, <3>1 DEF Admission
      <4>2. v # w /\ v \in crash.scripts
        BY <1>1, <4>1 DEF Admission
      <4>3. Watchdogs \cap crash.scripts = {v, w}
        BY <1>2, <3>3, <4>2
      <4> QED
        BY <1>1, <4>1, <4>3 DEF Guarded, NoMore, RecoverTypes, WatchTypes
    <3> QED
      BY <3>2, <3>3 DEF Steady
  <2> QED
    BY <1>5, <2>1, <2>2, <2>3, <2>4 DEF Guarded
<1>6. Counted'
  BY <1>1, <1>5 DEF Counted
<1> QED
  BY <1>3, <1>4, <1>6

LEMMA RespawnStep == ASSUME RecoverInv, RespawnInv, [S!Next]_(S!vars) PROVE RespawnInv'
<1>0. RecoverTypes'
  BY RecoverStep DEF RecoverInv
<1>a. crash \in S!SceneSet
  BY DEF RecoverInv, RecoverTypes, WatchTypes
<1>1. CASE RunnerActs
  <2>1. UNCHANGED <<version, admission, guard, receipts, wpc, fp, lost>> /\ (UNCHANGED crash \/ \E what \in {"kills", "boots"} : S!Can(what))
    BY <1>1 DEF RunnerActs, S!Boots, S!Concludes, S!RunnerDies, S!DoorBoots, S!Answers, S!ChildDies, S!Keep, S!watchdogs
  <2>2. crash'.scripts = crash.scripts /\ crash'.amends = crash.amends
    BY <1>a, <2>1, CanTypes
  <2> QED
    BY <1>0, <2>1, <2>2, RespawnKept
<1>2. CASE S!Amends
  BY <1>0, <1>2, AmendRespawn
<1>3. ASSUME NEW w \in Watchdogs \cap crash.scripts, Watches(w) PROVE RespawnInv'
  BY <1>0, <1>3, ReadRespawn, ChecksRespawn, ReceiptRespawn, GuardRespawn DEF Watches
<1>4. ASSUME NEW z \in Finalizers, Passes(z) PROVE RespawnInv'
  <2>1. UNCHANGED <<version, admission, guard, receipts, wpc, fp, lost>> /\ (UNCHANGED crash \/ S!Can("faults"))
    BY <1>4 DEF Passes, S!Loads, S!TakesLock, S!Aggregates, S!Verdicts, S!Closes, S!Looks, S!Keep, S!watchdogs
  <2>2. crash'.scripts = crash.scripts /\ crash'.amends = crash.amends
    BY <1>a, <2>1, CanTypes
  <2> QED
    BY <1>0, <2>1, <2>2, RespawnKept
<1>5. CASE S!ScriptDies
  BY <1>0, <1>5, DeathRespawn
<1>6. CASE UNCHANGED S!vars
  BY <1>0, <1>6, RespawnKept DEF S!vars, S!watchdogs
<1> QED
  BY <1>1, <1>2, <1>3, <1>4, <1>5, <1>6 DEF S!Next, RunnerActs, Watches, Passes

LEMMA RespawnHolds == ASSUME RespawnInv PROVE S!RespawnedOnce
<1>1. lost \in Nat /\ \A g \in DOMAIN receipts : receipts[g] \in Nat
  BY DEF RespawnInv, RecoverTypes, WatchTypes
<1> QED
  BY <1>1 DEF RespawnInv, Counted, S!RespawnedOnce

-----------------------------------------------------------------------------
LEMMA ClosureStep == ASSUME RecoverInv, [S!Next]_(S!vars) PROVE S!ClosesTheDead /\ S!Repaired
<1> USE RecoverAssumption DEF S!RecoverConstants, RecoverInv, RecoverTypes, ItemTypes, PassTypes, S!Keep, S!records, S!watchdogs, S!finalizers, S!Turns
<1>1. CASE RunnerActs
  <2>1. \A i \in Items : (item[i].st = "done" => item'[i].st # "failed") /\ (item'[i].doa => item[i].doa)
    <3>1. CASE S!Boots
      BY <3>1 DEF S!Boots, S!Record, S!Committed
    <3>2. ASSUME NEW i \in Items, S!Answers(i) PROVE \A j \in Items : item'[j].doa = item[j].doa /\ (item[j].st = "done" => item'[j].st = "done")
      BY <3>2 DEF S!Answers
    <3>3. CASE S!Concludes \/ S!RunnerDies \/ S!DoorBoots \/ \E i \in Items : S!ChildDies(i)
      BY <3>3 DEF S!Concludes, S!RunnerDies, S!DoorBoots, S!ChildDies
    <3> QED
      BY <1>1, <3>1, <3>2, <3>3 DEF RunnerActs
  <2>3. verdict.reason # "none" /\ runner # "boot" => verdict' = verdict
    BY <1>1 DEF RunnerActs, S!Boots, S!Concludes, S!RunnerDies, S!DoorBoots, S!Answers, S!ChildDies, Locks
  <2>4. UNCHANGED zpc
    BY <1>1 DEF RunnerActs, S!Boots, S!Concludes, S!RunnerDies, S!DoorBoots, S!Answers, S!ChildDies
  <2> QED
    BY <2>1, <2>3, <2>4 DEF S!ClosesTheDead, S!Repaired
<1>2. ASSUME NEW w \in Watchdogs, Watches(w) PROVE S!ClosesTheDead /\ S!Repaired
  BY <1>2 DEF Watches, S!Reads, S!Admits, S!Checks, S!Spawns, S!Confirms, S!Receipts, S!Guards, S!ClosesTheDead, S!Repaired
<1>3. ASSUME NEW z \in Finalizers, S!Loads(z) \/ S!TakesLock(z) \/ S!Aggregates(z) \/ (\E i \in Items : S!Looks(z, i))
      PROVE  S!ClosesTheDead /\ S!Repaired
  BY <1>3 DEF S!Loads, S!TakesLock, S!Aggregates, S!Looks, S!ClosesTheDead, S!Repaired
<1>4. ASSUME NEW z \in Finalizers, S!Closes(z) PROVE S!ClosesTheDead /\ S!Repaired
  <2>1. runner # "live" /\ UNCHANGED <<verdict, zpc>>
    BY <1>4 DEF S!Closes, Locks, Passing
  <2>2. \A i \in Items : item[i].st = "done" => item'[i].st = "done"
    BY <1>4 DEF S!Closes, Looked
  <2> QED
    BY <2>1, <2>2 DEF S!ClosesTheDead, S!Repaired
<1>5. ASSUME NEW z \in Finalizers, S!Verdicts(z) PROVE S!ClosesTheDead /\ S!Repaired
  <2>1. S!ClosesTheDead
    BY <1>5 DEF S!Verdicts, S!Blames, S!ClosesTheDead
  <2>2. \A y \in Finalizers : zpc'[y] = "end" /\ zpc[y] = "verdict" => y = z
    BY <1>5 DEF S!Verdicts
  <2>3. S!Repaired
    BY <1>5, <2>2 DEF S!Verdicts, S!Blames, S!Repaired, Looked, Passing
  <2> QED
    BY <2>1, <2>3
<1>6. CASE S!Amends \/ S!ScriptDies \/ UNCHANGED S!vars
  BY <1>6 DEF S!Amends, S!ScriptDies, S!vars, S!ClosesTheDead, S!Repaired
<1> QED
  BY <1>1, <1>2, <1>3, <1>4, <1>5, <1>6 DEF S!Next, RunnerActs, Watches, Passes

-----------------------------------------------------------------------------
(* The three side by side.                                                 *)

LEMMA DoorwayParts ==
  ASSUME [DoorwayNext]_all
  PROVE  /\ InLanes => [L!Next]_(L!vars)
         /\ InScripts => [S!Next]_(S!vars)
         /\ InLanes' = InLanes /\ InScripts' = InScripts
<1>1. CASE DoorwayNext
  BY <1>1 DEF DoorwayNext, InLanes, InScripts, InRevisions
<1>2. CASE UNCHANGED all
  BY <1>2 DEF all, lanes, scripts, InLanes, InScripts, L!vars, L!disk, L!registry, L!calls, L!watch, L!hist,
     S!vars, S!records, S!watchdogs, S!finalizers
<1> QED
  BY <1>1, <1>2

\* Of the runs that a lane has ever named at most one is unfinished, and whoever boots a run finds
\* its run.json: where an owner amends, only one call is made; where the tick runs, it is whole.
THEOREM LanesStayHeld == ASSUME Undisputed, Unhurried PROVE DoorwaySpec => []LanesHold
<1> DEFINE Inv == InLanes => LaneInv /\ BootInv
<1>1. DoorwayInit => Inv
  BY LaneInit, BootInit DEF DoorwayInit, InLanes, InRevisions, InScripts
<1>2. Inv /\ [DoorwayNext]_all => Inv'
  BY DoorwayParts, LaneStep, BootStep
<1>3. Inv => LanesHold
  BY LaneInvHolds DEF LanesHold
<1> QED
  BY <1>1, <1>2, <1>3, PTL DEF DoorwaySpec

\* Watchdogs and the door revive one crash once, but for those that died on the way: where the
\* graph is not amended, or two watchdogs are called.
THEOREM OneRespawnEach == ASSUME FewScripts PROVE DoorwaySpec => []RespawnsOnce
<1> DEFINE Inv == InScripts => RecoverInv /\ RespawnInv
<1>1. DoorwayInit => Inv
  BY RecoverInit DEF DoorwayInit, InLanes, InRevisions, InScripts
<1>2. Inv /\ [DoorwayNext]_all => Inv'
  BY DoorwayParts, RecoverStep, RespawnStep
<1>3. Inv => RespawnsOnce
  BY RespawnHolds DEF RespawnsOnce
<1> QED
  BY <1>1, <1>2, <1>3, PTL DEF DoorwaySpec

\* A finalizer closes only what no runner took up, replaces no verdict, and leaves no dead claim
\* when it reports success.
THEOREM ClosuresStayJust == DoorwaySpec => ClosuresHold
<1> DEFINE Inv == InScripts => RecoverInv
<1>1. DoorwayInit => Inv
  BY RecoverInit DEF DoorwayInit, InLanes, InRevisions, InScripts
<1>2. Inv /\ [DoorwayNext]_all => Inv'
  BY DoorwayParts, RecoverStep
<1>3. Inv /\ [DoorwayNext]_all => [InScripts => S!ClosesTheDead /\ S!Repaired]_all
  BY DoorwayParts, ClosureStep
<1> QED
  BY <1>1, <1>2, <1>3, PTL DEF DoorwaySpec, ClosuresHold
=============================================================================
