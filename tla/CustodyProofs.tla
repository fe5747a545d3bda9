------------------------------ MODULE CustodyProofs ------------------------------
(***************************************************************************)
(* For any pids, nodes and bounds: one generation of an item is at work, an *)
(* answer commits over an empty tree, the registry and the reaper take only *)
(* what is theirs, and a runner that is told to leave leaves no agent.      *)
(***************************************************************************)
EXTENDS Custody, TLAPS

ProcSet == [what : {"none", "agent", "tail", "stranger"}, spawn : Nat, parent : Pids \cup {"init", "runner"},
            group : Pids \cup {"nobody"}, code : {"live", "clean", "dirty"}]

Places == {"boot", "gate", "adopted", "guard", "popened", "watch", "judge", "final", "committed", "over"}
Launched == {"popened", "watch"}

MindTypes ==
  /\ def \in DefSet /\ born \in [Pids -> Nat]
  /\ rows \subseteq [pid : Pids, tick : Nat, spawn : Nat]
  /\ rec \in [state : {"none", "running", "adopted"}, pid : Pids \cup {"nobody"}, spawn : Nat]
  /\ pc \in Places /\ mine \in Pids \cup {"nobody"} /\ spawns \in Nat /\ leaving \in Nat
  /\ tokens \subseteq 1 .. spawns /\ bound \subseteq 1 .. spawns /\ tracked \subseteq Pids
  /\ rc \in [pid : Pids \cup {"nobody"}, code : {"none", "clean", "dirty", "unknown"}]
  /\ stop \in BOOLEAN /\ up \in BOOLEAN /\ shot \in BOOLEAN

\* Whose process it is, and who its parent is.
Kin(p) ==
  /\ proc[p].what = "none" => proc[p] = Free
  /\ proc[p].what = "stranger" => proc[p].spawn = 0
  /\ proc[p].what \in {"agent", "tail"} => proc[p].spawn \in 1 .. spawns /\ proc[p].group \in Pids
  /\ proc[p].what = "agent" => proc[p].group = p
  /\ proc[p].parent \in Pids =>
       LET q == proc[p].parent IN
       proc[p].what = "tail" /\ Alive(q) /\ proc[q].what = "agent" /\ proc[q].spawn = proc[p].spawn
  /\ up /\ Alive(p) /\ proc[p].spawn \in tokens => proc[p].parent # "init"
Tree ==
  /\ proc \in [Pids -> ProcSet]
  /\ \A p \in Pids : Kin(p)
  /\ \A p, q \in Agents : proc[p].spawn = proc[q].spawn => p = q

\* What a runner knows, by the place of its thread.
Mind ==
  /\ ~ up => pc \in {"boot", "over"}
  /\ pc \in {"boot", "gate", "adopted"} => tokens = {}
  /\ pc \in {"boot", "gate"} => tracked = {} /\ rc = NoExit
  /\ mine # "nobody" => pc \in Launched \cup {"adopted"}
  /\ rc.code = "clean" => pc \in {"judge", "final", "committed", "over"} /\ code = "clean"
  /\ leaving <= spawns + 1
  /\ pc = "over" => ~ up

\* The record names the last spawn, and the agent of a bound one.
Recorded ==
  /\ rec.spawn = spawns /\ (rec.state = "none" <=> spawns = 0)
  /\ pc \in Launched \cup {"adopted"} => rec.state = "running"
  /\ rec.state = "running" /\ rec.spawn \in bound =>
       \A p \in Agents : proc[p].spawn = rec.spawn => rec.pid = p
  /\ rec.state = "adopted" => \A p \in Agents : proc[p].spawn # rec.spawn
  /\ pc = "adopted" => \A p \in Agents : proc[p].spawn = rec.spawn => p = mine

\* The thread holds its own child, alive or with the exit code it left.
Watching ==
  pc \in Launched =>
    /\ mine \in Pids /\ proc[mine].what = "agent" /\ proc[mine].spawn \in tokens /\ proc[mine].spawn = spawns
    /\ proc[mine].parent = "runner"
    /\ proc[mine].code # "live" => proc[mine].code = code

\* Of the agents of this runner only that one is alive, and of those before none
\* whose spawn was bound, once the gate has found none to adopt.
OneAtWork ==
  /\ \A p \in Agents : proc[p].spawn \in tokens => p = mine
  /\ ~ def.solo =>
       \A p \in Agents : proc[p].spawn \in bound =>
         /\ proc[p].spawn = spawns
         /\ pc \in Launched \cup {"guard", "judge"} => proc[p].spawn \in tokens

\* A row with the tick of the present process was written by it.
RowsAreOwn ==
  /\ ~ shot
  /\ \A x \in rows : x.tick <= born[x.pid] /\ (x.tick = born[x.pid] => proc[x.pid].what # "stranger")

Leaves ==
  /\ stop /\ up => NoneAtWork
  /\ leaving > 0 /\ up => \A p \in Agents : proc[p].spawn \in tokens => proc[p].spawn >= leaving

CustodyInv ==
  /\ MindTypes /\ Tree /\ Mind /\ Recorded /\ Watching /\ OneAtWork /\ RowsAreOwn /\ CommitsAlone /\ Leaves

-----------------------------------------------------------------------------
(* The kernel: what dies, and who adopts what it leaves.                   *)

\* A table with fewer processes: who is left is who it was.
Thin(t) ==
  /\ t \in [Pids -> ProcSet]
  /\ \A p \in Pids :
       \/ t[p] = Free
       \/ /\ t[p].what = proc[p].what /\ t[p].spawn = proc[p].spawn /\ t[p].group = proc[p].group
          /\ t[p].code = proc[p].code \/ t[p].code # "live"
          /\ t[p].parent \in {proc[p].parent, "init", "runner"} /\ proc[p].what # "none"
  /\ \A p \in Pids : t[p].parent \in Pids =>
       LET q == t[p].parent IN t[p].parent = proc[p].parent /\ t[q].what = "agent" /\ t[q].code = "live"

\* The processes of this runner stay with it.
Loyal(t) ==
  up => \A p \in Living : t[p] # Free /\ proc[p].spawn \in tokens => t[p].parent # "init"

LEMMA Names == {"nobody", "runner", "init"} \cap Pids = {}
BY CustodyConstants

LEMMA FreeIsTyped == Free \in ProcSet /\ Free.parent \notin Pids /\ Free.what = "none"
BY Names DEF Free, ProcSet

LEMMA Parents ==
  ASSUME Tree, NEW p \in Pids, proc[p].parent \in Pids
  PROVE  /\ proc[p].parent \in Living /\ proc[proc[p].parent].parent \notin Pids
         /\ proc[proc[p].parent].what = "agent" /\ proc[proc[p].parent].spawn = proc[p].spawn
         /\ up /\ Alive(p) /\ proc[p].spawn \in tokens => proc[proc[p].parent].parent # "init"
BY DEF Tree, Kin, Living

\* Who dies leaves the table, or is a zombie in it; its children are adopted.
LEMMA OrphanedThin ==
  ASSUME Tree, NEW D \in SUBSET Living, NEW t \in [Pids -> ProcSet],
         \A p \in Pids \ D : t[p] = proc[p],
         \A p \in D : \/ t[p] = Free
                      \/ /\ t[p].what = proc[p].what /\ t[p].spawn = proc[p].spawn /\ t[p].group = proc[p].group
                         /\ t[p].code # "live" /\ t[p].parent = proc[p].parent
  PROVE  /\ Thin(Orphaned(t, D)) /\ Loyal(Orphaned(t, D))
         /\ \A p \in D : Orphaned(t, D)[p] = Free \/ Orphaned(t, D)[p].code # "live"
         /\ \A p \in Pids : t[p].parent \notin D => Orphaned(t, D)[p] = t[p]
<1> DEFINE o == Orphaned(t, D)
           heir(p) == IF \E q \in D : t[p].parent = q /\ proc[q].parent = "init" THEN "init" ELSE "runner"
<1>0. D \subseteq Pids
  BY DEF Living
<1>1. \A p \in Pids : o[p] = IF t[p].parent \in D THEN [t[p] EXCEPT !.parent = heir(p)] ELSE t[p]
  BY DEF Orphaned
<1>2. \A p \in Pids : \A x \in {"init", "runner"} :
        /\ [t[p] EXCEPT !.parent = x] \in ProcSet
        /\ [t[p] EXCEPT !.parent = x].what = t[p].what /\ [t[p] EXCEPT !.parent = x].spawn = t[p].spawn
        /\ [t[p] EXCEPT !.parent = x].group = t[p].group /\ [t[p] EXCEPT !.parent = x].code = t[p].code
        /\ [t[p] EXCEPT !.parent = x].parent = x
  <2> SUFFICES ASSUME NEW p \in Pids, NEW x \in {"init", "runner"}
               PROVE  /\ [t[p] EXCEPT !.parent = x] \in ProcSet
                      /\ [t[p] EXCEPT !.parent = x].what = t[p].what /\ [t[p] EXCEPT !.parent = x].spawn = t[p].spawn
                      /\ [t[p] EXCEPT !.parent = x].group = t[p].group /\ [t[p] EXCEPT !.parent = x].code = t[p].code
                      /\ [t[p] EXCEPT !.parent = x].parent = x
    OBVIOUS
  <2>1. t[p] \in ProcSet
    OBVIOUS
  <2> QED
    BY <2>1 DEF ProcSet
<1>3. \A p \in Pids : heir(p) \in {"init", "runner"} /\ heir(p) \notin Pids
  BY Names
<1>4. \A p \in Pids :
        /\ o[p] \in ProcSet /\ o[p].what = t[p].what /\ o[p].spawn = t[p].spawn /\ o[p].group = t[p].group
        /\ o[p].code = t[p].code
        /\ o[p].parent = IF t[p].parent \in D THEN heir(p) ELSE t[p].parent
        /\ t[p].parent \notin D => o[p] = t[p]
  <2> SUFFICES ASSUME NEW p \in Pids
               PROVE  /\ o[p] \in ProcSet /\ o[p].what = t[p].what /\ o[p].spawn = t[p].spawn /\ o[p].group = t[p].group
                      /\ o[p].code = t[p].code
                      /\ o[p].parent = IF t[p].parent \in D THEN heir(p) ELSE t[p].parent
                      /\ t[p].parent \notin D => o[p] = t[p]
    OBVIOUS
  <2> HIDE DEF o
  <2>1. CASE t[p].parent \in D
    <3>1. heir(p) \in {"init", "runner"} /\ o[p] = [t[p] EXCEPT !.parent = heir(p)]
      BY <1>1, <1>3, <2>1
    <3>2. PICK x \in {"init", "runner"} : x = heir(p)
      BY <3>1
    <3> HIDE DEF heir
    <3>3. /\ [t[p] EXCEPT !.parent = x] \in ProcSet
          /\ [t[p] EXCEPT !.parent = x].what = t[p].what /\ [t[p] EXCEPT !.parent = x].spawn = t[p].spawn
          /\ [t[p] EXCEPT !.parent = x].group = t[p].group /\ [t[p] EXCEPT !.parent = x].code = t[p].code
          /\ [t[p] EXCEPT !.parent = x].parent = x
      BY <1>2
    <3>4. o[p] = [t[p] EXCEPT !.parent = x]
      BY <3>1, <3>2
    <3> QED
      BY <2>1, <3>2, <3>3, <3>4
  <2>2. CASE t[p].parent \notin D
    <3>1. o[p] = t[p]
      BY <1>1, <2>2
    <3> QED
      BY <2>2, <3>1
  <2> QED
    BY <2>1, <2>2
<1>5. \A p \in Pids : t[p] = Free => o[p] = Free
  BY <1>0, <1>4, FreeIsTyped
<1>6. o \in [Pids -> ProcSet]
  BY <1>4 DEF Orphaned
<1> HIDE DEF o, heir
<1>7. Thin(o)
  <2>1. \A p \in Pids :
          \/ o[p] = Free
          \/ /\ o[p].what = proc[p].what /\ o[p].spawn = proc[p].spawn /\ o[p].group = proc[p].group
             /\ o[p].code = proc[p].code \/ o[p].code # "live"
             /\ o[p].parent \in {proc[p].parent, "init", "runner"} /\ proc[p].what # "none"
    <3> SUFFICES ASSUME NEW p \in Pids, o[p] # Free
                 PROVE  /\ o[p].what = proc[p].what /\ o[p].spawn = proc[p].spawn /\ o[p].group = proc[p].group
                        /\ o[p].code = proc[p].code \/ o[p].code # "live"
                        /\ o[p].parent \in {proc[p].parent, "init", "runner"} /\ proc[p].what # "none"
      OBVIOUS
    <3>1. proc[p].what # "none"
      <4>1. p \in D => proc[p].what # "none"
        BY DEF Living, Alive
      <4>2. p \notin D /\ proc[p].what = "none" => t[p] = Free
        BY DEF Tree, Kin
      <4> QED
        BY <1>5, <4>1, <4>2
    <3> QED
      BY <1>3, <1>4, <1>5, <3>1
  <2>2. ASSUME NEW p \in Pids, o[p].parent \in Pids
        PROVE  o[p].parent = proc[p].parent /\ o[o[p].parent].what = "agent" /\ o[o[p].parent].code = "live"
    <3> DEFINE q == o[p].parent
    <3>1. t[p].parent = q /\ q \notin D
      BY <1>3, <1>4, <2>2
    <3>2. proc[p].parent = q
      BY <3>1, <2>2, FreeIsTyped
    <3>3. t[q] = proc[q] /\ proc[q].what = "agent" /\ q \in Living
      BY <2>2, <3>1, <3>2, Parents
    <3> QED
      BY <2>2, <1>4, <3>2, <3>3 DEF Living, Alive
  <2> QED
    BY <1>6, <2>1, <2>2 DEF Thin
<1>8. Loyal(o)
  <2> SUFFICES ASSUME up, NEW p \in Living, o[p] # Free, proc[p].spawn \in tokens PROVE o[p].parent # "init"
    BY DEF Loyal
  <2>0. p \in Pids /\ Alive(p)
    BY DEF Living
  <2>1. proc[p].parent # "init" /\ t[p].parent = proc[p].parent
    BY <1>5, <2>0 DEF Tree, Kin
  <2>2. CASE t[p].parent \in D
    <3>1. proc[p].parent \in Pids
      BY <1>0, <2>1, <2>2
    <3>2. heir(p) = "runner"
      BY <2>0, <2>1, <2>2, <3>1, Parents DEF heir
    <3> QED
      BY <1>4, <2>0, <2>2, <3>2
  <2>3. CASE t[p].parent \notin D
    BY <1>4, <2>0, <2>1, <2>3
  <2> QED
    BY <2>2, <2>3
<1>9. \A p \in D : o[p] = Free \/ o[p].code # "live"
  BY <1>0, <1>4, <1>5
<1> QED
  BY <1>4, <1>7, <1>8, <1>9 DEF o

LEMMA KilledThin ==
  ASSUME Tree, NEW S \in SUBSET Living
  PROVE  /\ Thin(Killed(S)) /\ Loyal(Killed(S))
         /\ \A p \in S : Killed(S)[p] = Free \/ Killed(S)[p].code # "live"
         /\ \A p \in Pids \ S : proc[p].parent \notin Pids => Killed(S)[p] = proc[p]
<1> DEFINE t == [p \in Pids |-> IF p \in S THEN Free ELSE proc[p]]
<1>1. t \in [Pids -> ProcSet]
  BY FreeIsTyped DEF Tree
<1>2. Killed(S) = Orphaned(t, S)
  <2>1. S \cap Living = S
    OBVIOUS
  <2> QED
    BY <2>1 DEF Killed
<1>3. S \subseteq Pids
  BY DEF Living
<1>4. \A p \in Pids \ S : t[p] = proc[p]
  OBVIOUS
<1>5. \A p \in S : t[p] = Free
  BY <1>3
<1> HIDE DEF t
<1>6. /\ Thin(Orphaned(t, S)) /\ Loyal(Orphaned(t, S))
      /\ \A p \in S : Orphaned(t, S)[p] = Free \/ Orphaned(t, S)[p].code # "live"
      /\ \A p \in Pids : t[p].parent \notin S => Orphaned(t, S)[p] = t[p]
  BY <1>1, <1>4, <1>5, OrphanedThin
<1>7. \A p \in Pids \ S : proc[p].parent \notin Pids => Orphaned(t, S)[p] = proc[p]
  BY <1>3, <1>4, <1>6
<1> QED
  BY <1>2, <1>6, <1>7

LEMMA ExitsThin ==
  ASSUME Tree, NEW p \in Pids, NEW how \in {"clean", "dirty"}, Exits(p, how)
  PROVE  /\ Thin(proc') /\ Loyal(proc') /\ ~ Alive(p)'
         /\ Under(p) => proc'[p] = [proc[p] EXCEPT !.code = how]
         /\ \A q \in Pids \ {p} : proc[q].parent \notin Pids => proc'[q] = proc[q]
<1>1. CASE Under(p)
  <2> DEFINE t == [proc EXCEPT ![p].code = how]
  <2>1. proc[p] \in ProcSet /\ proc[p].parent = "runner" /\ p \in Living
    BY <1>1 DEF Tree, Under, Exits
  <2>2. /\ t[p] = [proc[p] EXCEPT !.code = how] /\ t[p] \in ProcSet
        /\ t[p].what = proc[p].what /\ t[p].spawn = proc[p].spawn /\ t[p].group = proc[p].group
        /\ t[p].code # "live" /\ t[p].parent = proc[p].parent
    BY <2>1 DEF Tree, ProcSet
  <2>3. t \in [Pids -> ProcSet] /\ \A q \in Pids \ {p} : t[q] = proc[q]
    BY <2>2 DEF Tree
  <2>4. proc' = Orphaned(t, {p})
    BY <1>1 DEF Exits
  <2> HIDE DEF t
  <2>5. "runner" \notin Pids
    BY Names
  <2>6. /\ Thin(Orphaned(t, {p})) /\ Loyal(Orphaned(t, {p}))
        /\ \A q \in Pids : t[q].parent \notin {p} => Orphaned(t, {p})[q] = t[q]
    <3>1. {p} \in SUBSET Living
      BY <2>1
    <3>2. \A q \in Pids \ {p} : t[q] = proc[q]
      BY <2>3
    <3>3. \A q \in {p} : \/ t[q] = Free
                         \/ /\ t[q].what = proc[q].what /\ t[q].spawn = proc[q].spawn /\ t[q].group = proc[q].group
                            /\ t[q].code # "live" /\ t[q].parent = proc[q].parent
      BY <2>2
    <3> QED
      BY <2>3, <3>1, <3>2, <3>3, OrphanedThin
  <2>7. Orphaned(t, {p})[p] = t[p] /\ \A q \in Pids \ {p} : proc[q].parent \notin Pids => Orphaned(t, {p})[q] = proc[q]
    <3>1. t[p].parent \notin {p} /\ p \in Pids
      BY <2>1, <2>2, <2>5
    <3>2. ASSUME NEW q \in Pids \ {p}, proc[q].parent \notin Pids PROVE Orphaned(t, {p})[q] = proc[q]
      <4>1. t[q] = proc[q] /\ t[q].parent \notin {p}
        BY <2>3, <3>1, <3>2
      <4> QED
        BY <2>6, <4>1
    <3> QED
      BY <2>6, <3>1, <3>2
  <2>8. proc'[p] = [proc[p] EXCEPT !.code = how] /\ ~ Alive(p)'
    BY <2>2, <2>4, <2>7 DEF Alive
  <2>9. Thin(proc') /\ Loyal(proc')
    BY <2>4, <2>6
  <2> QED
    BY <2>4, <2>7, <2>8, <2>9
<1>2. CASE ~ Under(p)
  <2>1. p \in Living /\ proc' = Killed({p})
    BY <1>2 DEF Exits
  <2> QED
    BY <1>2, <2>1, KilledThin, FreeIsTyped DEF Alive
<1> QED
  BY <1>1, <1>2

LEMMA GoneThin ==
  ASSUME Tree, NEW t, Thin(t),
         proc' = [p \in Pids |-> IF t[p].parent # "runner" THEN t[p]
                                 ELSE IF t[p].code # "live" THEN Free ELSE [t[p] EXCEPT !.parent = "init"]]
  PROVE  Thin(proc')
<1>1. \A p \in Pids : /\ [t[p] EXCEPT !.parent = "init"] \in ProcSet
                      /\ [t[p] EXCEPT !.parent = "init"].what = t[p].what
                      /\ [t[p] EXCEPT !.parent = "init"].spawn = t[p].spawn
                      /\ [t[p] EXCEPT !.parent = "init"].group = t[p].group
                      /\ [t[p] EXCEPT !.parent = "init"].code = t[p].code
                      /\ [t[p] EXCEPT !.parent = "init"].parent = "init"
  <2> SUFFICES ASSUME NEW p \in Pids
               PROVE  /\ [t[p] EXCEPT !.parent = "init"] \in ProcSet
                      /\ [t[p] EXCEPT !.parent = "init"].what = t[p].what
                      /\ [t[p] EXCEPT !.parent = "init"].spawn = t[p].spawn
                      /\ [t[p] EXCEPT !.parent = "init"].group = t[p].group
                      /\ [t[p] EXCEPT !.parent = "init"].code = t[p].code
                      /\ [t[p] EXCEPT !.parent = "init"].parent = "init"
    OBVIOUS
  <2>1. t[p] \in ProcSet
    BY DEF Thin
  <2> QED
    BY <2>1 DEF ProcSet
<1>2. t \in [Pids -> ProcSet] /\ "runner" \notin Pids /\ "init" \notin Pids
  BY Names DEF Thin
<1>3. ASSUME NEW p \in Pids
      PROVE  /\ proc'[p] \in ProcSet
             /\ proc'[p] = Free \/ /\ proc'[p].what = t[p].what /\ proc'[p].spawn = t[p].spawn
                                   /\ proc'[p].group = t[p].group /\ proc'[p].code = t[p].code
                                   /\ proc'[p].parent \in {t[p].parent, "init"}
             /\ t[p].code = "live" => proc'[p].what = t[p].what /\ proc'[p].code = "live"
             /\ proc'[p].parent \in Pids => proc'[p] = t[p]
  <2>1. CASE t[p].parent # "runner"
    BY <1>2, <2>1
  <2>2. CASE t[p].parent = "runner" /\ t[p].code # "live"
    BY <2>2, FreeIsTyped
  <2>3. CASE t[p].parent = "runner" /\ t[p].code = "live"
    <3>1. proc'[p] = [t[p] EXCEPT !.parent = "init"]
      BY <2>3
    <3> QED
      BY <1>1, <1>2, <2>3, <3>1
  <2> QED
    BY <2>1, <2>2, <2>3
<1>4. proc' \in [Pids -> ProcSet]
  BY <1>3
<1>5. \A p \in Pids :
        \/ proc'[p] = Free
        \/ /\ proc'[p].what = proc[p].what /\ proc'[p].spawn = proc[p].spawn /\ proc'[p].group = proc[p].group
           /\ proc'[p].code = proc[p].code \/ proc'[p].code # "live"
           /\ proc'[p].parent \in {proc[p].parent, "init", "runner"} /\ proc[p].what # "none"
  <2> SUFFICES ASSUME NEW p \in Pids, proc'[p] # Free
               PROVE  /\ proc'[p].what = proc[p].what /\ proc'[p].spawn = proc[p].spawn /\ proc'[p].group = proc[p].group
                      /\ proc'[p].code = proc[p].code \/ proc'[p].code # "live"
                      /\ proc'[p].parent \in {proc[p].parent, "init", "runner"} /\ proc[p].what # "none"
    OBVIOUS
  <2>1. CASE t[p] = Free
    <3>1. t[p].parent # "runner"
      BY <2>1 DEF Free
    <3> QED
      BY <2>1, <3>1
  <2>2. CASE t[p] # Free
    BY <1>3, <2>2 DEF Thin
  <2> QED
    BY <2>1, <2>2
<1>6. \A p \in Pids : proc'[p].parent \in Pids =>
        LET q == proc'[p].parent IN proc'[p].parent = proc[p].parent /\ proc'[q].what = "agent" /\ proc'[q].code = "live"
  <2> SUFFICES ASSUME NEW p \in Pids, proc'[p].parent \in Pids
               PROVE  /\ proc'[p].parent = proc[p].parent
                      /\ proc'[proc'[p].parent].what = "agent" /\ proc'[proc'[p].parent].code = "live"
    OBVIOUS
  <2>1. t[p].parent = proc'[p].parent
    BY <1>3
  <2>2. /\ t[p].parent = proc[p].parent
        /\ t[t[p].parent].what = "agent" /\ t[t[p].parent].code = "live"
    BY <2>1 DEF Thin
  <2> QED
    BY <1>3, <2>1, <2>2
<1> QED
  BY <1>4, <1>5, <1>6 DEF Thin

LEMMA ProcThin == ASSUME Tree PROVE Thin(proc) /\ Loyal(proc)
<1>1. Thin(proc)
  BY DEF Tree, Kin, Thin, Alive
<1>2. Loyal(proc)
  BY DEF Tree, Kin, Loyal, Living
<1> QED
  BY <1>1, <1>2

\* What is true of who is left.
Subsides ==
  /\ \A p \in Living' : p \in Living /\ proc'[p].spawn = proc[p].spawn /\ proc'[p].group = proc[p].group
  /\ \A p \in Agents' : p \in Agents /\ proc'[p].spawn = proc[p].spawn
  /\ \A p \in Pids : proc'[p].what \in {"none", proc[p].what}

LEMMA ThinSubsides == ASSUME Thin(proc') PROVE Subsides
BY FreeIsTyped DEF Thin, Subsides, Living, Agents, Alive

LEMMA ThinTree ==
  ASSUME Tree, Thin(proc'), spawns' = spawns,
         up' => tokens' = {} \/ (up /\ tokens' = tokens /\ Loyal(proc'))
  PROVE  Tree'
<1>1. proc' \in [Pids -> ProcSet]
  BY DEF Thin
<1>2. ASSUME NEW p \in Pids PROVE Kin(p)'
  <2>1. CASE proc'[p] = Free
    BY <2>1, FreeIsTyped DEF Kin, Alive
  <2>2. CASE proc'[p] # Free
    <3>1. /\ proc'[p].what = proc[p].what /\ proc'[p].spawn = proc[p].spawn /\ proc'[p].group = proc[p].group
          /\ proc'[p].code = proc[p].code \/ proc'[p].code # "live"
      BY <2>2 DEF Thin
    <3>2. proc[p].what # "none"
      BY <2>2 DEF Thin
    <3>3. proc'[p].parent \in Pids =>
            LET q == proc'[p].parent IN
            proc'[p].what = "tail" /\ proc'[q].code = "live" /\ proc'[q].what = "agent" /\ proc'[q].spawn = proc'[p].spawn
      <4> DEFINE q == proc'[p].parent
      <4> SUFFICES ASSUME q \in Pids
                   PROVE  proc'[p].what = "tail" /\ proc'[q].code = "live" /\ proc'[q].what = "agent" /\ proc'[q].spawn = proc'[p].spawn
        OBVIOUS
      <4>1. proc[p].parent = q /\ proc'[q].what = "agent" /\ proc'[q].code = "live"
        BY DEF Thin
      <4>2. proc[p].what = "tail" /\ proc[q].spawn = proc[p].spawn
        BY <4>1 DEF Tree, Kin
      <4>3. proc'[q].spawn = proc[q].spawn
        BY <4>1, FreeIsTyped DEF Thin
      <4> QED
        BY <3>1, <4>1, <4>2, <4>3
    <3>4. up' /\ Alive(p)' /\ proc'[p].spawn \in tokens' => proc'[p].parent # "init"
      <4> SUFFICES ASSUME up', Alive(p)', proc'[p].spawn \in tokens' PROVE proc'[p].parent # "init"
        OBVIOUS
      <4>1. up /\ Loyal(proc') /\ p \in Living /\ proc[p].spawn \in tokens
        BY <3>1 DEF Living, Alive
      <4> QED
        BY <2>2, <4>1 DEF Loyal
    <3>5. /\ proc[p].what = "stranger" => proc[p].spawn = 0
          /\ proc[p].what \in {"agent", "tail"} => proc[p].spawn \in 1 .. spawns /\ proc[p].group \in Pids
          /\ proc[p].what = "agent" => proc[p].group = p
      BY DEF Tree, Kin
    <3> QED
      BY <3>1, <3>2, <3>3, <3>4, <3>5 DEF Kin, Alive
  <2> QED
    BY <2>1, <2>2
<1>3. \A p, q \in Agents' : proc'[p].spawn = proc'[q].spawn => p = q
  BY ThinSubsides DEF Tree, Subsides
<1> QED
  BY <1>1, <1>2, <1>3 DEF Tree

-----------------------------------------------------------------------------
(* What a runner attributes is all that its spawns left.                   *)

LEMMA Covered ==
  ASSUME Tree, up, mine = "nobody", NEW p \in Living, proc[p].spawn \in tokens
  PROVE  p \in Registered
<1>0. p \in Pids /\ Alive(p) /\ proc[p] \in ProcSet /\ "nobody" \notin Pids
  BY Names DEF Living, Tree
<1>1. proc[p].parent # "init"
  BY <1>0 DEF Tree, Kin
<1> DEFINE S == Trusted(tokens) \cup {q \in Adoptees : proc[q].spawn \in tokens}
<1>2. CASE proc[p].parent = "runner"
  <2>1. p \in S
    BY <1>0, <1>2 DEF Adoptees, Under
  <2> QED
    BY <2>1 DEF Registered, Subtree
<1>3. CASE proc[p].parent \in Pids
  <2> DEFINE q == proc[p].parent
  <2>1. q \in Living /\ proc[q].parent \notin Pids /\ proc[q].spawn = proc[p].spawn /\ proc[q].parent # "init"
    BY <1>0, <1>3, Parents
  <2>2. proc[q].parent = "runner"
    BY <1>3, <2>1 DEF Tree, ProcSet
  <2>3. q \in S
    BY <1>0, <2>1, <2>2 DEF Adoptees, Under, Living
  <2>4. p \in Below(S)
    BY <2>3 DEF Below
  <2> QED
    BY <2>4 DEF Registered, Subtree
<1> QED
  BY <1>0, <1>1, <1>2, <1>3 DEF ProcSet

LEMMA AttributedLives == Registered \subseteq Living /\ \A x : Attributed(x) \subseteq Living /\ Grouped({x}) \subseteq Living
<1>1. \A S \in SUBSET Living : Subtree(S) \subseteq Living
  BY DEF Subtree, Below
<1>2. Trusted(tokens) \cup {q \in Adoptees : proc[q].spawn \in tokens} \in SUBSET Living
  BY DEF Trusted, Adoptees
<1>3. Registered \subseteq Living
  BY <1>1, <1>2 DEF Registered
<1>4. \A S : Grouped(S) \subseteq Living
  BY DEF Grouped
<1> QED
  BY <1>3, <1>4 DEF Attributed

-----------------------------------------------------------------------------
(* What stays true when processes die.                                     *)

LEMMA RecordedStays ==
  ASSUME Subsides, Recorded, UNCHANGED <<rec, spawns, bound>>,
         pc' \in Launched => pc \in Launched, pc' = "adopted" => pc = "adopted" /\ mine' = mine
  PROVE  Recorded'
BY DEF Subsides, Recorded

LEMMA OneStays ==
  ASSUME Subsides, OneAtWork, UNCHANGED <<def, bound, spawns>>, tokens' \in {tokens, {}},
         mine' = mine \/ mine \notin Agents' \/ tokens' = {},
         pc' \in Launched \cup {"guard", "judge"} => pc \in Launched \cup {"guard", "judge"} /\ tokens' = tokens
  PROVE  OneAtWork'
<1>1. \A p \in Agents' : p \in Agents /\ proc'[p].spawn = proc[p].spawn
  BY DEF Subsides
<1>2. \A p \in Agents' : proc'[p].spawn \in tokens' => p = mine'
  <2> SUFFICES ASSUME NEW p \in Agents', proc'[p].spawn \in tokens' PROVE p = mine'
    OBVIOUS
  <2>1. p \in Agents /\ proc[p].spawn \in tokens
    BY <1>1
  <2> QED
    BY <2>1 DEF OneAtWork
<1>3. ~ def'.solo => \A p \in Agents' : proc'[p].spawn \in bound' =>
         /\ proc'[p].spawn = spawns'
         /\ pc' \in Launched \cup {"guard", "judge"} => proc'[p].spawn \in tokens'
  BY <1>1 DEF OneAtWork
<1> QED
  BY <1>2, <1>3 DEF OneAtWork

LEMMA RowsStay == ASSUME MindTypes, Subsides, RowsAreOwn, UNCHANGED <<born, rows, shot>> PROVE RowsAreOwn'
<1>1. \A x \in rows : x.pid \in Pids
  BY DEF MindTypes
<1> QED
  BY <1>1 DEF Subsides, RowsAreOwn

LEMMA CommitStays ==
  ASSUME Subsides, CommitsAlone,
         pc' = "committed" /\ verdict' \in {"done", "partial"} =>
           pc = "committed" /\ UNCHANGED <<verdict, tokens, rec, tracked, rc>>
  PROVE  CommitsAlone'
BY DEF Subsides, CommitsAlone

LEMMA LeavesStay ==
  ASSUME Subsides, Leaves, up' => up /\ UNCHANGED <<stop, leaving, tokens>>
  PROVE  Leaves'
BY DEF Subsides, Leaves, NoneAtWork

LEMMA Fading ==
  ASSUME CustodyInv, Thin(proc'), Loyal(proc'), Watching', code' = code \/ mine \in Agents,
         UNCHANGED <<def, born, rows, rec, pc, mine, tokens, tracked, rc, verdict, stop, leaving, up, spawns, bound, shot>>
  PROVE  CustodyInv'
<1>1. Subsides
  BY ThinSubsides
<1>2. Tree'
  BY ThinTree DEF CustodyInv
<1>3. MindTypes'
  BY DEF CustodyInv, MindTypes
<1>4. Mind'
  <2>1. mine \in Agents => rc.code # "clean"
    BY Names DEF CustodyInv, Mind, Agents, Living, Launched
  <2> QED
    BY <2>1 DEF CustodyInv, Mind
<1>5. Recorded' /\ OneAtWork' /\ RowsAreOwn' /\ CommitsAlone' /\ Leaves'
  BY <1>1, RecordedStays, OneStays, RowsStay, CommitStays, LeavesStay DEF CustodyInv
<1> QED
  BY <1>2, <1>3, <1>4, <1>5 DEF CustodyInv

-----------------------------------------------------------------------------
(* The steps of the processes.                                             *)

LEMMA Held == ASSUME CustodyInv, pc \in Launched PROVE mine \in Pids /\ Under(mine) /\ proc[mine] \in ProcSet
BY DEF CustodyInv, Watching, Under, Tree

LEMMA AgentExitsStep == ASSUME CustodyInv, NEW p \in Pids, AgentExits(p) PROVE CustodyInv'
<1>1. PICK how \in {"clean", "dirty"} : Exits(p, how) /\ code' = (IF p = mine THEN how ELSE code)
  BY DEF AgentExits
<1>2. /\ p \in Agents
      /\ UNCHANGED <<def, born, rows, rec, pc, mine, tokens, tracked, rc, verdict, stop, leaving, up, spawns, bound, shot>>
  BY DEF AgentExits, files, mind, life
<1>3. /\ Thin(proc') /\ Loyal(proc')
      /\ Under(p) => proc'[p] = [proc[p] EXCEPT !.code = how]
      /\ \A q \in Pids \ {p} : proc[q].parent \notin Pids => proc'[q] = proc[q]
  BY <1>1, ExitsThin DEF CustodyInv
<1>4. Watching'
  <2> SUFFICES ASSUME pc \in Launched PROVE Watching'
    BY <1>2 DEF Watching
  <2>1. mine \in Pids /\ Under(mine) /\ proc[mine] \in ProcSet /\ proc[mine].parent \notin Pids
    BY Held, Names DEF Under
  <2>2. proc[mine].what = "agent" /\ proc[mine].spawn \in tokens /\ proc[mine].spawn = spawns
        /\ (proc[mine].code # "live" => proc[mine].code = code)
    BY DEF CustodyInv, Watching
  <2>3. CASE p = mine
    <3>1. proc'[mine] = [proc[mine] EXCEPT !.code = how] /\ code' = how
      BY <1>1, <1>3, <2>1, <2>3
    <3>2. proc'[mine].what = "agent" /\ proc'[mine].spawn = proc[mine].spawn /\ proc'[mine].parent = "runner"
          /\ proc'[mine].code = how
      BY <2>1, <2>2, <3>1 DEF ProcSet, Under
    <3> QED
      BY <1>2, <2>1, <2>2, <3>1, <3>2 DEF Watching
  <2>4. CASE p # mine
    <3>1. proc'[mine] = proc[mine] /\ code' = code
      BY <1>1, <1>3, <2>1, <2>4
    <3> QED
      BY <1>2, <2>1, <2>2, <3>1 DEF Watching, Under
  <2> QED
    BY <2>3, <2>4
<1>5. code' = code \/ mine \in Agents
  BY <1>1, <1>2
<1> QED
  BY <1>2, <1>3, <1>4, <1>5, Fading

\* What does not touch the child of the thread leaves it watched.
LEMMA StillWatched ==
  ASSUME CustodyInv, pc \in Launched => proc'[mine] = proc[mine], UNCHANGED <<pc, mine, tokens, spawns, code>>
  PROVE  Watching'
BY DEF CustodyInv, Watching

LEMMA TailExitsStep == ASSUME CustodyInv, NEW p \in Pids, TailExits(p) PROVE CustodyInv'
<1>1. /\ p \in Living /\ p \notin Agents /\ Exits(p, "clean")
      /\ UNCHANGED <<def, born, rows, rec, pc, mine, tokens, tracked, rc, verdict, stop, leaving, up, spawns, code, bound, shot>>
  BY DEF TailExits, files, mind, life, hist
<1>2. /\ Thin(proc') /\ Loyal(proc')
      /\ \A q \in Pids \ {p} : proc[q].parent \notin Pids => proc'[q] = proc[q]
  BY <1>1, ExitsThin DEF CustodyInv
<1>3. ASSUME pc \in Launched PROVE proc'[mine] = proc[mine]
  <2>1. mine \in Pids /\ proc[mine].parent \notin Pids /\ proc[mine].what = "agent"
    BY <1>3, Held, Names DEF Under, CustodyInv, Watching
  <2>2. mine # p
    BY <1>1, <2>1 DEF Agents
  <2> QED
    BY <1>2, <2>1, <2>2
<1>4. Watching'
  BY <1>1, <1>3, StillWatched
<1> QED
  BY <1>1, <1>2, <1>4, Fading

LEMMA BeltStep == ASSUME CustodyInv, NEW p \in Pids, Belt(p) PROVE CustodyInv'
<1>1. /\ p \in Living /\ ~ up /\ proc' = Killed({p})
      /\ UNCHANGED <<def, born, rows, rec, pc, mine, tokens, tracked, rc, verdict, stop, leaving, up, spawns, code, bound, shot>>
  BY DEF Belt, files, mind, life, hist, Agents
<1>2. Thin(proc') /\ Loyal(proc')
  BY <1>1, KilledThin DEF CustodyInv
<1>3. pc \notin Launched
  BY <1>1 DEF CustodyInv, Mind, Launched
<1>4. Watching'
  BY <1>1, <1>3, StillWatched
<1> QED
  BY <1>1, <1>2, <1>4, Fading

\* A process that starts at a free pid q, which nobody calls a parent.
LEMMA Started ==
  ASSUME CustodyInv, NEW q \in Pids, NEW record \in ProcSet, Starts(q, record)
  PROVE  /\ proc' \in [Pids -> ProcSet] /\ born' \in [Pids -> Nat]
         /\ proc[q] = Free /\ q \notin Living
         /\ proc'[q] = record /\ born'[q] = born[q] + 1
         /\ \A p \in Pids \ {q} : proc'[p] = proc[p] /\ born'[p] = born[p] /\ proc[p].parent # q
<1>1. proc[q].what = "none" /\ proc' = [proc EXCEPT ![q] = record] /\ born' = [born EXCEPT ![q] = @ + 1]
  BY DEF Starts
<1>2. proc \in [Pids -> ProcSet] /\ born \in [Pids -> Nat] /\ proc[q] = Free
  BY <1>1 DEF CustodyInv, Tree, Kin, MindTypes
<1>3. q \notin Living
  BY <1>1 DEF Living, Alive
<1>4. \A p \in Pids : proc[p].parent # q
  BY <1>3, Parents DEF CustodyInv
<1> QED
  BY <1>1, <1>2, <1>3, <1>4

\* A new process that is no agent disturbs none of the agents.
LEMMA Entered ==
  ASSUME CustodyInv, NEW q \in Pids, NEW record \in ProcSet, Starts(q, record), record.what \in {"tail", "stranger"},
         Kin(q)', rows' \subseteq rows \cup {[pid |-> q, tick |-> born[q] + 1, spawn |-> record.spawn]},
         record.what = "tail" \/ rows' = rows,
         pc = "committed" => record.spawn \notin tokens /\ (rec.state = "adopted" => record.spawn # rec.spawn),
         UNCHANGED <<def, rec, pc, mine, tokens, tracked, rc, verdict, stop, leaving, up, spawns, code, bound, shot>>
  PROVE  CustodyInv'
<1>1. /\ proc' \in [Pids -> ProcSet] /\ born' \in [Pids -> Nat]
      /\ proc[q] = Free /\ q \notin Living
      /\ proc'[q] = record /\ born'[q] = born[q] + 1
      /\ \A p \in Pids \ {q} : proc'[p] = proc[p] /\ born'[p] = born[p] /\ proc[p].parent # q
  BY Started
<1>2. Agents' = Agents /\ \A p \in Agents : proc'[p] = proc[p]
  BY <1>1 DEF Agents, Living, Alive
<1>3. \A p \in Living' : (p \in Living /\ proc'[p] = proc[p]) \/ p = q
  BY <1>1 DEF Living, Alive
<1>4. Tree'
  <2>1. ASSUME NEW p \in Pids \ {q} PROVE Kin(p)'
    <3>1. Kin(p) /\ proc'[p] = proc[p]
      BY <1>1 DEF CustodyInv, Tree
    <3>2. proc[p].parent \in Pids => proc'[proc[p].parent] = proc[proc[p].parent]
      BY <1>1
    <3> QED
      BY <3>1, <3>2 DEF Kin, Alive
  <2>2. \A x, y \in Agents' : proc'[x].spawn = proc'[y].spawn => x = y
    BY <1>2 DEF CustodyInv, Tree
  <2> QED
    BY <1>1, <2>1, <2>2 DEF Tree
<1>5. MindTypes'
  <2>1. rows' \subseteq [pid : Pids, tick : Nat, spawn : Nat]
    <3>1. [pid |-> q, tick |-> born[q] + 1, spawn |-> record.spawn] \in [pid : Pids, tick : Nat, spawn : Nat]
      BY DEF CustodyInv, MindTypes, ProcSet
    <3> QED
      BY <3>1 DEF CustodyInv, MindTypes
  <2> QED
    BY <1>1, <2>1 DEF CustodyInv, MindTypes
<1>6. Mind' /\ Recorded' /\ OneAtWork' /\ Leaves'
  BY <1>2 DEF CustodyInv, Mind, Recorded, OneAtWork, Leaves, NoneAtWork
<1>7. Watching'
  BY <1>1, StillWatched DEF CustodyInv, Watching, Free
<1>8. RowsAreOwn'
  <2> SUFFICES ASSUME NEW x \in rows'
               PROVE  x.tick <= born'[x.pid] /\ (x.tick = born'[x.pid] => proc'[x.pid].what # "stranger")
    BY DEF CustodyInv, RowsAreOwn
  <2>1. CASE x \in rows
    <3>1. x.pid \in Pids /\ x.tick \in Nat /\ born[x.pid] \in Nat
      BY <2>1 DEF CustodyInv, MindTypes
    <3>2. x.tick <= born[x.pid] /\ (x.tick = born[x.pid] => proc[x.pid].what # "stranger")
      BY <2>1 DEF CustodyInv, RowsAreOwn
    <3>3. CASE x.pid = q
      BY <1>1, <3>1, <3>2, <3>3
    <3>4. CASE x.pid # q
      BY <1>1, <3>1, <3>2, <3>4
    <3> QED
      BY <3>3, <3>4
  <2>2. CASE x \notin rows
    <3>1. x = [pid |-> q, tick |-> born[q] + 1, spawn |-> record.spawn] /\ record.what = "tail"
      BY <2>2
    <3>2. born[q] \in Nat
      BY DEF CustodyInv, MindTypes
    <3> QED
      BY <1>1, <3>1, <3>2
  <2> QED
    BY <2>1, <2>2
<1>9. CommitsAlone'
  BY <1>1, <1>3 DEF CustodyInv, CommitsAlone
<1> QED
  BY <1>4, <1>5, <1>6, <1>7, <1>8, <1>9 DEF CustodyInv

\* The descendant of an agent is of its spawn.
LEMMA TailEntered ==
  ASSUME CustodyInv, NEW p \in Agents, NEW q \in Pids, NEW record \in ProcSet, Starts(q, record),
         record.what = "tail", record.spawn = proc[p].spawn, record.group \in Pids,
         record.parent \in {p, IF Under(p) THEN "runner" ELSE "init"},
         rows' \subseteq rows \cup {[pid |-> q, tick |-> born[q] + 1, spawn |-> record.spawn]},
         UNCHANGED <<def, rec, pc, mine, tokens, tracked, rc, verdict, stop, leaving, up, spawns, code, bound, shot>>
  PROVE  CustodyInv'
<1>1. p \in Pids /\ Alive(p) /\ proc[p].what = "agent" /\ proc[p].parent \notin Pids /\ p \in Living
  BY DEF Agents, Living, CustodyInv, Tree, Kin
<1>2. proc'[q] = record /\ proc'[p] = proc[p]
  BY <1>1, Started
<1>3. proc[p].spawn \in 1 .. spawns /\ (up /\ proc[p].spawn \in tokens => Under(p))
  BY <1>1 DEF CustodyInv, Tree, Kin, ProcSet, Under
<1>4. Kin(q)'
  BY <1>1, <1>2, <1>3, Names DEF Kin, Alive
<1>5. pc = "committed" => record.spawn \notin tokens /\ (rec.state = "adopted" => record.spawn # rec.spawn)
  <2> SUFFICES ASSUME pc = "committed" PROVE proc[p].spawn \notin tokens /\ (rec.state = "adopted" => proc[p].spawn # rec.spawn)
    OBVIOUS
  <2>1. p # mine
    BY <1>1, Names DEF CustodyInv, Mind, Launched
  <2> QED
    BY <2>1 DEF CustodyInv, OneAtWork, Recorded
<1> QED
  BY <1>4, <1>5, Entered

LEMMA ForkStep == ASSUME CustodyInv, NEW p \in Pids, Fork(p) PROVE CustodyInv'
<1>1. PICK q \in Pids, how \in def.forks :
        /\ Starts(q, [what |-> "tail", spawn |-> proc[p].spawn, code |-> "live",
                      parent |-> IF how = "child" THEN p ELSE IF Under(p) THEN "runner" ELSE "init",
                      group |-> IF how = "child" THEN p ELSE q])
        /\ rows' = IF how = "registered" THEN rows \cup {[pid |-> q, tick |-> born[q] + 1, spawn |-> proc[p].spawn]} ELSE rows
  BY DEF Fork
<1> DEFINE record == [what |-> "tail", spawn |-> proc[p].spawn, code |-> "live",
                      parent |-> IF how = "child" THEN p ELSE IF Under(p) THEN "runner" ELSE "init",
                      group |-> IF how = "child" THEN p ELSE q]
<1>2. p \in Agents /\ proc[p].spawn \in Nat
  BY DEF Fork, CustodyInv, Tree, ProcSet
<1>3. record \in ProcSet
  BY <1>2 DEF ProcSet
<1>4. /\ record.what = "tail" /\ record.spawn = proc[p].spawn /\ record.group \in Pids
      /\ record.parent \in {p, IF Under(p) THEN "runner" ELSE "init"}
  OBVIOUS
<1>5. /\ Starts(q, record)
      /\ rows' \subseteq rows \cup {[pid |-> q, tick |-> born[q] + 1, spawn |-> record.spawn]}
      /\ UNCHANGED <<def, rec, pc, mine, tokens, tracked, rc, verdict, stop, leaving, up, spawns, code, bound, shot>>
  BY <1>1 DEF Fork, mind, life, hist
<1> HIDE DEF record
<1> QED
  BY <1>2, <1>3, <1>4, <1>5, TailEntered

LEMMA RegisterStep == ASSUME CustodyInv, NEW p \in Pids, Register(p) PROVE CustodyInv'
<1>1. PICK q \in Pids :
        Starts(q, [what |-> "tail", spawn |-> proc[p].spawn, parent |-> p, group |-> q, code |-> "live"])
  BY DEF Register
<1> DEFINE record == [what |-> "tail", spawn |-> proc[p].spawn, parent |-> p, group |-> q, code |-> "live"]
<1>2. p \in Agents /\ proc[p].spawn \in Nat
  BY DEF Register, CustodyInv, Tree, ProcSet
<1>3. record \in ProcSet
  BY <1>2 DEF ProcSet
<1>4. /\ record.what = "tail" /\ record.spawn = proc[p].spawn /\ record.group \in Pids
      /\ record.parent \in {p, IF Under(p) THEN "runner" ELSE "init"}
  OBVIOUS
<1>5. /\ Starts(q, record)
      /\ rows' \subseteq rows \cup {[pid |-> q, tick |-> born[q] + 1, spawn |-> record.spawn]}
      /\ UNCHANGED <<def, rec, pc, mine, tokens, tracked, rc, verdict, stop, leaving, up, spawns, code, bound, shot>>
  BY <1>1 DEF Register, mind, life, hist
<1> HIDE DEF record
<1> QED
  BY <1>2, <1>3, <1>4, <1>5, TailEntered

LEMMA RecycleStep == ASSUME CustodyInv, NEW p \in Pids, Recycle(p) PROVE CustodyInv'
<1> DEFINE record == [Free EXCEPT !.what = "stranger", !.group = p]
<1>1. /\ record \in ProcSet /\ record.what = "stranger" /\ record.spawn = 0 /\ record.parent = "init"
      /\ record.group = p /\ record.code = "live"
  BY DEF Free, ProcSet
<1>2. /\ Starts(p, record) /\ rows' = rows
      /\ UNCHANGED <<def, rec, pc, mine, tokens, tracked, rc, verdict, stop, leaving, up, spawns, code, bound, shot>>
  BY DEF Recycle, files, mind, life, hist
<1> HIDE DEF record
<1>3. proc'[p] = record
  BY <1>1, <1>2, Started
<1>4. 0 \notin tokens /\ tokens' = tokens
  BY <1>2 DEF CustodyInv, MindTypes
<1>5. Kin(p)'
  BY <1>1, <1>3, <1>4, Names DEF Kin, Alive
<1>6. rec.state = "adopted" => rec.spawn # 0
  BY DEF CustodyInv, Recorded, MindTypes
<1> QED
  BY <1>1, <1>2, <1>4, <1>5, <1>6, Entered

-----------------------------------------------------------------------------
(* The steps of a runner.                                                  *)

LEMMA StopSweepStep == ASSUME CustodyInv, StopSweep PROVE CustodyInv'
<1>1. /\ proc' = Killed(Adoptees)
      /\ UNCHANGED <<def, born, rows, rec, pc, mine, tokens, tracked, rc, verdict, stop, leaving, up, spawns, code, bound, shot>>
  BY DEF StopSweep, files, mind, life, hist
<1>2. Adoptees \in SUBSET Living /\ mine \notin Adoptees
  BY DEF Adoptees
<1>3. /\ Thin(proc') /\ Loyal(proc')
      /\ \A p \in Pids \ Adoptees : proc[p].parent \notin Pids => proc'[p] = proc[p]
  BY <1>1, <1>2, KilledThin DEF CustodyInv
<1>4. Watching'
  BY <1>1, <1>2, <1>3, Held, Names, StillWatched DEF Under
<1> QED
  BY <1>1, <1>3, <1>4, Fading

LEMMA ReapStep == ASSUME CustodyInv, ReaperScans \/ Reap PROVE CustodyInv'
<1>1. UNCHANGED <<def, born, rows, rec, pc, mine, tokens, tracked, rc, verdict, stop, leaving, up, spawns, code, bound, shot>>
  BY DEF ReaperScans, Reap, Drain, files, kernel, life, hist
<1>2. CASE ReaperScans
  <2>1. proc' = proc
    BY <1>2 DEF ReaperScans, kernel
  <2> QED
    BY <1>1, <2>1, ProcThin, StillWatched, Fading DEF CustodyInv
<1>3. CASE Reap
  <2> DEFINE S == Orphans({scan, mine})
  <2>1. proc' = [p \in Pids |-> IF p \in S THEN Free ELSE proc[p]] /\ mine \notin S
    BY <1>3 DEF Reap, Drain, Orphans
  <2>2. \A p \in S : p \notin Living
    BY DEF Orphans, Zombie, Living, Alive
  <2>3. \A p \in Pids : proc[p].parent \in Pids => proc[p].parent \notin S
    BY <2>2, Parents DEF CustodyInv
  <2> HIDE DEF S
  <2>4. proc' \in [Pids -> ProcSet] /\ \A p \in Pids : proc'[p] = IF p \in S THEN Free ELSE proc[p]
    BY <2>1, FreeIsTyped DEF CustodyInv, Tree
  <2>5. Thin(proc)
    BY ProcThin DEF CustodyInv
  <2>6. Thin(proc')
    <3>1. \A p \in Pids : \/ proc'[p] = Free
                          \/ /\ proc'[p].what = proc[p].what /\ proc'[p].spawn = proc[p].spawn /\ proc'[p].group = proc[p].group
                             /\ proc'[p].code = proc[p].code \/ proc'[p].code # "live"
                             /\ proc'[p].parent \in {proc[p].parent, "init", "runner"} /\ proc[p].what # "none"
      BY <2>4, <2>5 DEF Thin
    <3>2. \A p \in Pids : proc'[p].parent \in Pids =>
            LET q == proc'[p].parent IN proc'[p].parent = proc[p].parent /\ proc'[q].what = "agent" /\ proc'[q].code = "live"
      BY <2>3, <2>4, <2>5, FreeIsTyped DEF Thin
    <3> QED
      BY <2>4, <3>1, <3>2 DEF Thin
  <2>7. Loyal(proc')
    BY <2>4, ProcThin DEF CustodyInv, Loyal, Living
  <2>8. Watching'
    BY <1>1, <2>1, <2>4, Held, StillWatched
  <2> QED
    BY <1>1, <2>6, <2>7, <2>8, Fading
<1> QED
  BY <1>2, <1>3

\* The runner goes: what it knew goes with it.
LEMMA Forgotten ==
  ASSUME CustodyInv, Thin(proc'), Forgets, up, pc # "over",
         UNCHANGED <<def, born, rows, rec, verdict, stop, spawns, code, bound, shot>>
  PROVE  CustodyInv'
<1>1. Subsides
  BY ThinSubsides
<1>2. /\ mine' = "nobody" /\ tokens' = {} /\ tracked' = {} /\ rc' = NoExit /\ leaving' = 0 /\ up' = FALSE /\ pc' = "boot"
  BY DEF Forgets
<1>3. Tree'
  BY <1>2, ThinTree DEF CustodyInv
<1>4. MindTypes'
  BY <1>2 DEF CustodyInv, MindTypes, NoExit, Places
<1>5. Mind' /\ Watching' /\ Leaves' /\ CommitsAlone'
  BY <1>2 DEF CustodyInv, MindTypes, Mind, Watching, Leaves, CommitsAlone, NoExit, Launched
<1>6. Recorded' /\ OneAtWork' /\ RowsAreOwn'
  BY <1>1, <1>2, RecordedStays, OneStays, RowsStay DEF CustodyInv, Launched
<1> QED
  BY <1>3, <1>4, <1>5, <1>6 DEF CustodyInv

LEMMA SigKillStep == ASSUME CustodyInv, SigKill PROVE CustodyInv'
<1>1. proc' = [p \in Pids |-> IF proc[p].parent # "runner" THEN proc[p]
                              ELSE IF proc[p].code # "live" THEN Free ELSE [proc[p] EXCEPT !.parent = "init"]]
  BY DEF SigKill, Gone, Under, Zombie
<1>2. Thin(proc')
  BY <1>1, ProcThin, GoneThin DEF CustodyInv
<1> QED
  BY <1>2, Forgotten DEF SigKill, files, hist

LEMMA SweptThin == ASSUME CustodyInv, Swept PROVE Thin(proc')
<1>1. Adoptees \in SUBSET Living
  BY DEF Adoptees
<1>2. Thin(Killed(Adoptees))
  BY <1>1, KilledThin DEF CustodyInv
<1> QED
  BY <1>2, GoneThin DEF CustodyInv, Swept

LEMMA TermEndsStep == ASSUME CustodyInv, TermEnds PROVE CustodyInv'
<1>1. Thin(proc') /\ pc # "over"
  BY SweptThin DEF TermEnds, CustodyInv, Mind
<1> QED
  BY <1>1, Forgotten DEF TermEnds, files, hist

LEMMA FinishStep == ASSUME CustodyInv, Finish PROVE CustodyInv'
<1>1. Thin(proc') /\ Subsides
  BY SweptThin, ThinSubsides DEF Finish
<1>2. /\ pc = "committed" /\ pc' = "over" /\ up' = FALSE
      /\ UNCHANGED <<def, born, rows, rec, mine, tokens, tracked, rc, verdict, stop, leaving, spawns, code, bound, shot>>
  BY DEF Finish, files, mind, hist
<1>3. Tree'
  BY <1>1, <1>2, ThinTree DEF CustodyInv
<1>4. MindTypes' /\ Mind' /\ Watching'
  BY <1>2 DEF CustodyInv, MindTypes, Mind, Watching, Launched, Places
<1>5. Recorded' /\ OneAtWork' /\ RowsAreOwn' /\ CommitsAlone' /\ Leaves'
  BY <1>1, <1>2, RecordedStays, OneStays, RowsStay, CommitStays, LeavesStay DEF CustodyInv, Launched
<1> QED
  BY <1>3, <1>4, <1>5 DEF CustodyInv

LEMMA BootStep == ASSUME CustodyInv, Boot PROVE CustodyInv'
<1>1. /\ ~ up /\ pc = "boot" /\ up' = TRUE
      /\ UNCHANGED <<def, proc, born, rows, rec, pc, mine, tokens, tracked, rc, stop, leaving, spawns, code, bound, shot, verdict>>
  BY DEF Boot, kernel, files, mind, hist
<1>2. tokens = {} /\ Thin(proc') /\ Subsides
  BY <1>1, ProcThin, ThinSubsides DEF CustodyInv, Mind
<1>3. Tree'
  BY <1>1, <1>2, ThinTree DEF CustodyInv
<1>4. MindTypes' /\ Mind' /\ Watching' /\ Leaves'
  BY <1>1, <1>2 DEF CustodyInv, MindTypes, Mind, Watching, Leaves, NoneAtWork, Launched
<1>5. Recorded' /\ OneAtWork' /\ RowsAreOwn' /\ CommitsAlone'
  BY <1>1, <1>2, RecordedStays, OneStays, RowsStay, CommitStays DEF CustodyInv, Launched
<1> QED
  BY <1>3, <1>4, <1>5 DEF CustodyInv

LEMMA BootSweepStep == ASSUME CustodyInv, BootSweep PROVE CustodyInv'
<1> DEFINE old == Trusted({x.spawn : x \in rows})
<1>1. PICK left \in SUBSET old : proc' = Killed(old \ left)
  BY DEF BootSweep
<1>2. old \ left \in SUBSET Living
  BY DEF Trusted
<1>3. Thin(proc') /\ Loyal(proc') /\ Subsides
  BY <1>1, <1>2, KilledThin, ThinSubsides DEF CustodyInv
<1>4. \A p \in old : proc[p].what # "stranger"
  BY DEF CustodyInv, RowsAreOwn, Trusted
<1>5. shot' = shot
  <2>1. shot' = (shot \/ \E p \in old : proc[p].what = "stranger")
    BY DEF BootSweep
  <2> QED
    BY <1>4, <2>1 DEF CustodyInv, RowsAreOwn, MindTypes
<1>6. /\ up /\ pc = "boot" /\ leaving = 0
      /\ (pc' = "gate" /\ up' = up) \/ (pc' = "over" /\ up' = FALSE)
      /\ UNCHANGED <<def, born, rows, rec, mine, tokens, tracked, rc, stop, leaving, spawns, code, bound>>
  BY DEF BootSweep
<1> HIDE DEF old
<1>7. tokens = {} /\ tracked = {} /\ rc = NoExit /\ mine = "nobody"
  BY <1>6 DEF CustodyInv, Mind, Launched
<1>8. Tree'
  BY <1>3, <1>6, ThinTree DEF CustodyInv
<1>9. MindTypes' /\ Mind' /\ Watching' /\ Leaves'
  BY <1>5, <1>6, <1>7 DEF CustodyInv, MindTypes, Mind, Watching, Leaves, NoneAtWork, Launched, Places, NoExit
<1>10. Recorded' /\ OneAtWork' /\ RowsAreOwn' /\ CommitsAlone'
  BY <1>3, <1>5, <1>6, RecordedStays, OneStays, RowsStay, CommitStays DEF CustodyInv, Launched
<1> QED
  BY <1>8, <1>9, <1>10 DEF CustodyInv

\* The group of the handle dies, or is a zombie until the thread has read it.
LEMMA GroupKilled ==
  ASSUME CustodyInv, GroupKill, UNCHANGED <<pc, mine, tokens, spawns>>
  PROVE  Thin(proc') /\ Loyal(proc') /\ mine \notin Agents' /\ Watching'
<1>0. /\ Grouped({mine}) \in SUBSET Living
      /\ mine \in Agents => mine \in Grouped({mine}) /\ mine \in Pids /\ proc[mine].what = "agent"
  BY DEF Grouped, CustodyInv, Tree, Kin, Agents, Living
<1>1. /\ Thin(Killed(Grouped({mine}))) /\ Loyal(Killed(Grouped({mine})))
      /\ \A p \in Grouped({mine}) : Killed(Grouped({mine}))[p] = Free \/ Killed(Grouped({mine}))[p].code # "live"
      /\ \A p \in Pids \ Grouped({mine}) : proc[p].parent \notin Pids => Killed(Grouped({mine}))[p] = proc[p]
  BY <1>0, KilledThin DEF CustodyInv
<1>2. CASE mine \in Agents /\ Under(mine)
  <2> DEFINE t == Killed(Grouped({mine}))
             z == [proc[mine] EXCEPT !.code = "dirty"]
  <2>1. proc' = [t EXCEPT ![mine] = z] /\ code' = "dirty"
    BY <1>2 DEF GroupKill
  <2>2. proc[mine] \in ProcSet /\ proc[mine].what = "agent" /\ proc[mine].parent = "runner" /\ mine \in Pids
    BY <1>0, <1>2 DEF CustodyInv, Tree, Under
  <2>3. /\ z \in ProcSet /\ z.what = proc[mine].what /\ z.spawn = proc[mine].spawn /\ z.group = proc[mine].group
        /\ z.code = "dirty" /\ z.parent = "runner"
    BY <2>2 DEF ProcSet
  <2> HIDE DEF t, z
  <2>4. t \in [Pids -> ProcSet] /\ Thin(t) /\ (t[mine] = Free \/ t[mine].code # "live")
    BY <1>0, <1>1, <1>2 DEF Thin, t
  <2>5. /\ proc' \in [Pids -> ProcSet] /\ proc'[mine] = z
        /\ \A p \in Pids \ {mine} : proc'[p] = t[p]
    BY <2>1, <2>2, <2>3, <2>4
  <2>6. \A p \in Pids : t[p].parent \in Pids => t[p].parent # mine
    BY <2>2, <2>4, FreeIsTyped DEF Thin
  <2>7. Thin(proc')
    <3>1. \A p \in Pids : \/ proc'[p] = Free
                          \/ /\ proc'[p].what = proc[p].what /\ proc'[p].spawn = proc[p].spawn /\ proc'[p].group = proc[p].group
                             /\ proc'[p].code = proc[p].code \/ proc'[p].code # "live"
                             /\ proc'[p].parent \in {proc[p].parent, "init", "runner"} /\ proc[p].what # "none"
      BY <2>2, <2>3, <2>4, <2>5 DEF Thin
    <3>2. \A p \in Pids : proc'[p].parent \in Pids =>
            LET q == proc'[p].parent IN proc'[p].parent = proc[p].parent /\ proc'[q].what = "agent" /\ proc'[q].code = "live"
      BY <2>2, <2>3, <2>4, <2>5, <2>6, Names DEF Thin
    <3> QED
      BY <2>5, <3>1, <3>2 DEF Thin
  <2>8. Loyal(proc')
    BY <1>1, <2>3, <2>5 DEF Loyal, Living, t
  <2>9. mine \notin Agents'
    BY <2>3, <2>5 DEF Agents, Living, Alive
  <2>10. Watching'
    BY <2>1, <2>2, <2>3, <2>5 DEF CustodyInv, Watching
  <2> QED
    BY <2>7, <2>8, <2>9, <2>10
<1>3. CASE ~ (mine \in Agents /\ Under(mine))
  <2>1. proc' = Killed(Grouped({mine})) /\ code' = (IF mine \in Agents THEN "dirty" ELSE code)
    BY <1>3 DEF GroupKill
  <2>2. mine \notin Agents'
    <3>1. CASE mine \in Agents
      <4>1. proc'[mine] = Free \/ proc'[mine].code # "live"
        BY <1>0, <1>1, <2>1, <3>1
      <4> QED
        BY <4>1, FreeIsTyped DEF Agents, Living, Alive
    <3>2. CASE mine \notin Agents
      BY <1>1, <2>1, <3>2, ThinSubsides DEF Subsides
    <3> QED
      BY <3>1, <3>2
  <2>3. ASSUME pc \in Launched PROVE proc'[mine] = proc[mine] /\ code' = code
    <3>1. mine \in Pids /\ Under(mine) /\ proc[mine].what = "agent"
      BY <2>3, Held DEF CustodyInv, Watching
    <3>2. mine \notin Agents /\ mine \notin Grouped({mine})
      BY <1>3, <3>1 DEF Agents, Grouped
    <3> QED
      BY <1>1, <2>1, <3>1, <3>2, Names DEF Under
  <2>4. Watching'
    BY <2>3 DEF CustodyInv, Watching
  <2> QED
    BY <1>1, <2>1, <2>2, <2>4
<1> QED
  BY <1>2, <1>3

LEMMA HaltStep == ASSUME CustodyInv, Stop \/ Term PROVE CustodyInv'
<1>1. /\ GroupKill /\ up /\ pc \notin {"boot", "over"} /\ stop' \in BOOLEAN
      /\ leaving' = leaving \/ leaving' = spawns + 1
      /\ UNCHANGED <<def, born, rows, rec, pc, mine, tokens, tracked, rc, verdict, up, spawns, bound, shot>>
  BY DEF Stop, Term, files, mind, CustodyInv, MindTypes
<1>2. Thin(proc') /\ Loyal(proc') /\ Subsides /\ mine \notin Agents' /\ Watching'
  BY <1>1, GroupKilled, ThinSubsides
<1>3. Tree'
  BY <1>1, <1>2, ThinTree DEF CustodyInv
<1>4. MindTypes'
  BY <1>1 DEF CustodyInv, MindTypes
<1>5. Mind'
  <2>1. code' = code \/ rc.code # "clean"
    BY <1>1, Names DEF GroupKill, Agents, Living, CustodyInv, Mind, Launched
  <2> QED
    BY <1>1, <2>1 DEF CustodyInv, Mind, MindTypes
<1>6. Recorded' /\ OneAtWork' /\ RowsAreOwn' /\ CommitsAlone'
  BY <1>1, <1>2, RecordedStays, OneStays, RowsStay, CommitStays DEF CustodyInv
<1>7. Leaves'
  <2>1. \A p \in Agents' : proc'[p].spawn \notin tokens'
    BY <1>1, <1>2 DEF Subsides, CustodyInv, OneAtWork
  <2> QED
    BY <2>1 DEF Leaves, NoneAtWork
<1> QED
  BY <1>2, <1>3, <1>4, <1>5, <1>6, <1>7 DEF CustodyInv

-----------------------------------------------------------------------------
(* The steps of the thread of the node.                                    *)

\* A verdict is settled while processes die: nothing is committed but over an
\* empty tree.
LEMMA Settled ==
  ASSUME CustodyInv, up, Thin(proc'), Loyal(proc'), mine' = "nobody", mine' = mine \/ mine \notin Agents',
         pc' \in {"judge", "final", "guard", "committed"}, pc' = "guard" => pc = "judge", pc' = "judge" => pc = "watch",
         UNCHANGED <<def, born, rows, tokens, stop, leaving, up, spawns, bound, shot>>,
         tracked' \subseteq Pids, rc' \in [pid : Pids \cup {"nobody"}, code : {"none", "clean", "dirty", "unknown"}],
         rc'.code = "clean" => pc' # "guard" /\ code' = "clean",
         rec' = rec \/ (/\ rec' = [rec EXCEPT !.state = "adopted"] /\ rec.state = "running"
                        /\ \A p \in Agents' : proc[p].spawn # rec.spawn),
         CommitsAlone'
  PROVE  CustodyInv'
<1>1. Subsides
  BY ThinSubsides
<1>2. Tree'
  BY ThinTree DEF CustodyInv
<1>3. MindTypes'
  <2>1. rec' \in [state : {"none", "running", "adopted"}, pid : Pids \cup {"nobody"}, spawn : Nat]
    BY DEF CustodyInv, MindTypes
  <2> QED
    BY <2>1 DEF CustodyInv, MindTypes, Places
<1>4. Mind' /\ Watching'
  BY DEF CustodyInv, Mind, Watching, Launched
<1>5. Recorded'
  <2>1. CASE rec' = rec
    BY <1>1, <2>1, RecordedStays DEF CustodyInv, Launched
  <2>2. CASE /\ rec' = [rec EXCEPT !.state = "adopted"] /\ rec.state = "running"
             /\ \A p \in Agents' : proc[p].spawn # rec.spawn
    <3>1. rec'.state = "adopted" /\ rec'.spawn = rec.spawn
      BY <2>2 DEF CustodyInv, MindTypes
    <3>2. \A p \in Agents' : proc'[p].spawn # rec'.spawn
      BY <1>1, <2>2, <3>1 DEF Subsides
    <3> QED
      BY <2>2, <3>1, <3>2 DEF CustodyInv, Recorded, Launched
  <2> QED
    BY <2>1, <2>2
<1>6. OneAtWork' /\ RowsAreOwn' /\ Leaves'
  BY <1>1, OneStays, RowsStay, LeavesStay DEF CustodyInv, Launched
<1> QED
  BY <1>2, <1>3, <1>4, <1>5, <1>6 DEF CustodyInv

LEMMA JobAnswersStep == ASSUME CustodyInv, JobAnswers PROVE CustodyInv'
<1>1. /\ up /\ pc = "gate" /\ pc' = "committed"
      /\ UNCHANGED <<def, proc, born, rows, rec, mine, tokens, tracked, rc, stop, leaving, up, spawns, code, bound, shot>>
  BY DEF JobAnswers, Thread, Settle, Calm, kernel, life
<1>2. tokens = {} /\ tracked = {} /\ rc = NoExit /\ mine = "nobody"
  BY <1>1 DEF CustodyInv, Mind, Launched
<1>3. Thin(proc') /\ Loyal(proc')
  BY <1>1, ProcThin DEF CustodyInv
<1>4. CommitsAlone'
  <2>1. ASSUME NEW p \in Living, rec.state = "adopted", proc[p].spawn = rec.spawn PROVE proc[p].group # rc.pid
    <3>1. rec.spawn # 0 /\ p \in Pids /\ Alive(p)
      BY <2>1 DEF CustodyInv, Recorded, Living
    <3>2. proc[p].what \in {"agent", "tail"}
      BY <2>1, <3>1 DEF CustodyInv, Tree, Kin, ProcSet, Alive
    <3>3. proc[p].group \in Pids
      BY <3>1, <3>2 DEF CustodyInv, Tree, Kin
    <3> QED
      BY <1>2, <3>3, Names DEF NoExit
  <2>2. Living' = Living
    BY <1>1 DEF Living, Alive
  <2> QED
    BY <1>1, <1>2, <2>1, <2>2 DEF CommitsAlone
<1>5. tracked' \subseteq Pids /\ rc' \in [pid : Pids \cup {"nobody"}, code : {"none", "clean", "dirty", "unknown"}]
      /\ rc'.code # "clean"
  BY <1>1, <1>2 DEF CustodyInv, MindTypes, NoExit
<1> QED
  BY <1>1, <1>2, <1>3, <1>4, <1>5, Settled

LEMMA GateStep == ASSUME CustodyInv, Gate PROVE CustodyInv'
<1>1. /\ up /\ pc = "gate"
      /\ UNCHANGED <<def, proc, born, rows, rec, tokens, tracked, rc, stop, leaving, up, spawns, code, bound, shot>>
  BY DEF Gate, Thread, Calm, kernel, life, files
<1>2. tokens = {} /\ tracked = {} /\ rc = NoExit /\ mine = "nobody"
  BY <1>1 DEF CustodyInv, Mind, Launched
<1>3. Thin(proc') /\ Loyal(proc') /\ Subsides /\ Living' = Living /\ Agents' = Agents
  BY <1>1, ProcThin, ThinSubsides DEF CustodyInv, Living, Alive, Agents
<1>4. Tree'
  BY <1>1, <1>3, ThinTree DEF CustodyInv
<1>5. RowsAreOwn' /\ Leaves'
  BY <1>1, <1>3, RowsStay, LeavesStay DEF CustodyInv
<1>6. CASE pc' = "committed" /\ verdict' = "cancelled" /\ mine' = mine
  <2>1. MindTypes' /\ Mind' /\ Watching' /\ CommitsAlone'
    BY <1>1, <1>2, <1>6 DEF CustodyInv, MindTypes, Mind, Watching, CommitsAlone, Launched, Places, NoExit
  <2>2. Recorded' /\ OneAtWork'
    BY <1>1, <1>3, <1>6, RecordedStays, OneStays DEF CustodyInv, Launched
  <2> QED
    BY <1>4, <1>5, <2>1, <2>2 DEF CustodyInv
<1>7. CASE pc' = "adopted" /\ mine' = rec.pid /\ Adoptable
  <2>1. rec.pid \in Agents /\ rec.pid \in Pids /\ proc[rec.pid].spawn = rec.spawn
    BY <1>7 DEF Adoptable, Agents, Living
  <2>2. \A p \in Agents : proc[p].spawn = rec.spawn => p = rec.pid
    BY <2>1 DEF CustodyInv, Tree
  <2>3. MindTypes' /\ Mind' /\ Watching' /\ CommitsAlone'
    BY <1>1, <1>2, <1>7, <2>1 DEF CustodyInv, MindTypes, Mind, Watching, CommitsAlone, Launched, Places, NoExit
  <2>4. Recorded'
    BY <1>1, <1>3, <1>7, <2>2 DEF CustodyInv, Recorded, Launched, Adoptable
  <2>5. OneAtWork'
    BY <1>1, <1>2, <1>3, <1>7 DEF CustodyInv, OneAtWork, Launched
  <2> QED
    BY <1>4, <1>5, <2>3, <2>4, <2>5 DEF CustodyInv
<1>8. CASE pc' = "guard" /\ mine' = mine /\ ~ Adoptable
  <2>1. MindTypes' /\ Mind' /\ Watching' /\ CommitsAlone'
    BY <1>1, <1>2, <1>8 DEF CustodyInv, MindTypes, Mind, Watching, CommitsAlone, Launched, Places, NoExit
  <2>2. Recorded'
    BY <1>1, <1>3, <1>8, RecordedStays DEF CustodyInv, Launched
  <2>3. ASSUME ~ def.solo, NEW p \in Agents, proc[p].spawn \in bound PROVE FALSE
    <3>1. proc[p].spawn = rec.spawn /\ rec.spawn \in bound /\ spawns # 0
      BY <2>3 DEF CustodyInv, OneAtWork, Recorded, MindTypes
    <3>2. rec.state = "running"
      BY <3>1 DEF CustodyInv, Recorded, MindTypes
    <3>3. rec.pid = p
      BY <3>1, <3>2 DEF CustodyInv, Recorded
    <3> QED
      BY <1>8, <2>3, <3>1, <3>2, <3>3 DEF Adoptable
  <2>4. OneAtWork'
    BY <1>1, <1>2, <1>3, <2>3 DEF OneAtWork
  <2> QED
    BY <1>4, <1>5, <2>1, <2>2, <2>4 DEF CustodyInv
<1> QED
  BY <1>6, <1>7, <1>8 DEF Gate, Settle

LEMMA AdoptedEndsStep == ASSUME CustodyInv, AdoptedEnds PROVE CustodyInv'
<1>1. /\ up /\ pc = "adopted" /\ pc' = "final" /\ mine' = "nobody"
      /\ rec' = [rec EXCEPT !.state = "adopted"] /\ rc' = [pid |-> mine, code |-> "unknown"]
      /\ UNCHANGED <<def, born, rows, tokens, tracked, stop, leaving, up, spawns, code, bound, shot>>
  BY DEF AdoptedEnds, Thread, Settle, Calm, life
<1>2. Grouped({mine}) \in SUBSET Living
  BY DEF Grouped
<1>3. Thin(proc') /\ Loyal(proc')
  BY <1>2, ProcThin, KilledThin DEF AdoptedEnds, CustodyInv
<1>4. mine \notin Agents'
  <2>1. CASE mine \notin Living /\ proc' = proc
    BY <2>1 DEF Agents, Living, Alive
  <2>2. CASE mine \in Living /\ proc' = Killed(Grouped({mine}))
    <3>1. mine \in Agents => mine \in Grouped({mine})
      BY DEF Grouped, CustodyInv, Tree, Kin, Agents, Living
    <3>2. mine \in Agents => proc'[mine] = Free \/ proc'[mine].code # "live"
      BY <1>2, <2>2, <3>1, KilledThin DEF CustodyInv
    <3>3. mine \in Agents' => mine \in Agents
      BY <1>3, ThinSubsides DEF Subsides
    <3> QED
      BY <3>2, <3>3, FreeIsTyped DEF Agents, Living, Alive
  <2> QED
    BY <2>1, <2>2 DEF AdoptedEnds
<1>5. \A p \in Agents' : proc[p].spawn # rec.spawn
  BY <1>1, <1>3, <1>4, ThinSubsides DEF Subsides, CustodyInv, Recorded
<1>6. rec.state = "running"
  BY <1>1 DEF CustodyInv, Recorded
<1>7. rc' \in [pid : Pids \cup {"nobody"}, code : {"none", "clean", "dirty", "unknown"}] /\ rc'.code # "clean"
  BY <1>1 DEF CustodyInv, MindTypes
<1>8. CommitsAlone' /\ tracked' \subseteq Pids
  BY <1>1 DEF CommitsAlone, CustodyInv, MindTypes
<1> QED
  BY <1>1, <1>3, <1>4, <1>5, <1>6, <1>7, <1>8, Settled

\* The new agent is the only one of its runner.
LEMMA SpawnedStep ==
  ASSUME CustodyInv, up, ~ stop, pc = "guard", NEW p \in Pids, proc[p].what = "none", Spawned(p, {}),
         UNCHANGED <<def, rows, job, tracked, rc, scan, life, bound, shot>>
  PROVE  CustodyInv'
<1> DEFINE t == Killed(Registered)
           new == [what |-> "agent", spawn |-> spawns + 1, parent |-> "runner", group |-> p, code |-> "live"]
<1>1. /\ proc' = [t EXCEPT ![p] = new] /\ born' = [born EXCEPT ![p] = @ + 1]
      /\ rec' = [state |-> "running", pid |-> "nobody", spawn |-> spawns + 1]
      /\ mine' = p /\ tokens' = tokens \cup {spawns + 1} /\ spawns' = spawns + 1
      /\ code' = "none" /\ pc' = "popened"
      /\ UNCHANGED <<def, rows, tracked, rc, stop, leaving, up, bound, shot>>
  <2>1. Registered \ {} = Registered
    OBVIOUS
  <2> QED
    BY <2>1 DEF Spawned, life
<1>2. mine = "nobody" /\ spawns \in Nat /\ tokens \subseteq 1 .. spawns /\ bound \subseteq 1 .. spawns
  BY DEF CustodyInv, Mind, MindTypes, Launched
<1>3. Thin(t) /\ Loyal(t) /\ (\A q \in Registered : t[q] = Free \/ t[q].code # "live")
  BY AttributedLives, KilledThin DEF CustodyInv
<1>4. proc[p] = Free /\ p \notin Living
  BY DEF CustodyInv, Tree, Kin, Living, Alive
<1>5. new \in ProcSet
  BY <1>2 DEF ProcSet
<1> HIDE DEF t
<1>6. /\ proc' \in [Pids -> ProcSet] /\ proc'[p] = new
      /\ \A q \in Pids \ {p} : proc'[q] = t[q]
  BY <1>1, <1>3, <1>5 DEF Thin
<1>7. \A q \in Pids : t[q].parent \in Pids => t[q].parent # p
  BY <1>3, <1>4, Parents DEF Thin, CustodyInv
\* Of those who are left none is of this runner.
<1>8. ASSUME NEW q \in Living', q # p
      PROVE  /\ q \in Living /\ proc'[q].what = proc[q].what /\ proc'[q].spawn = proc[q].spawn
             /\ proc[q].spawn \notin tokens'
             /\ proc[q].what = "agent" => q \in Agents
  <2>1. q \in Pids /\ proc'[q] = t[q] /\ t[q].what # "none" /\ t[q].code = "live"
    BY <1>6, <1>8 DEF Living, Alive
  <2>2. t[q] # Free
    BY <2>1, FreeIsTyped
  <2>3. /\ t[q].what = proc[q].what /\ t[q].spawn = proc[q].spawn /\ proc[q].code = "live" /\ proc[q].what # "none"
    BY <1>3, <2>1, <2>2 DEF Thin
  <2>4. q \in Living
    BY <2>1, <2>3 DEF Living, Alive
  <2>5. q \notin Registered
    BY <1>3, <2>1, <2>2
  <2>6. proc[q].spawn \notin tokens
    BY <1>2, <2>4, <2>5, Covered DEF CustodyInv
  <2>7. proc[q].spawn # spawns + 1
    BY <1>2, <2>1, <2>3 DEF CustodyInv, Tree, Kin, ProcSet
  <2> QED
    BY <1>1, <2>1, <2>3, <2>4, <2>6, <2>7 DEF Agents
<1>9. p \in Living' /\ p \in Agents'
  BY <1>6 DEF Living, Alive, Agents
<1>10. Tree'
  <2>1. ASSUME NEW q \in Pids \ {p}, t[q] # Free PROVE Kin(q)'
    <3>1. /\ proc'[q] = t[q] /\ t[q].what = proc[q].what /\ t[q].spawn = proc[q].spawn /\ t[q].group = proc[q].group
          /\ t[q].code = proc[q].code \/ t[q].code # "live"
          /\ proc[q].what # "none"
      BY <1>3, <1>6, <2>1 DEF Thin
    <3>2. t[q].parent \in Pids =>
            LET m == t[q].parent IN
            proc'[q].what = "tail" /\ proc'[m].code = "live" /\ proc'[m].what = "agent" /\ proc'[m].spawn = proc'[q].spawn
      <4> DEFINE m == t[q].parent
      <4> SUFFICES ASSUME m \in Pids
                   PROVE  proc'[q].what = "tail" /\ proc'[m].code = "live" /\ proc'[m].what = "agent" /\ proc'[m].spawn = proc'[q].spawn
        OBVIOUS
      <4>1. proc[q].parent = m /\ t[m].what = "agent" /\ t[m].code = "live" /\ m # p
        BY <1>3, <1>7 DEF Thin
      <4>2. proc[q].what = "tail" /\ proc[m].spawn = proc[q].spawn
        BY <4>1 DEF CustodyInv, Tree, Kin
      <4>3. t[m].spawn = proc[m].spawn /\ proc'[m] = t[m]
        BY <1>3, <1>6, <4>1, FreeIsTyped DEF Thin
      <4> QED
        BY <3>1, <4>1, <4>2, <4>3
    <3>3. Alive(q)' => proc'[q].spawn \notin tokens'
      <4>1. Alive(q)' => q \in Living'
        BY DEF Living, Alive
      <4> QED
        BY <1>8, <2>1, <3>1, <4>1
    <3>4. /\ proc[q].what = "stranger" => proc[q].spawn = 0
          /\ proc[q].what \in {"agent", "tail"} => proc[q].spawn \in 1 .. spawns /\ proc[q].group \in Pids
          /\ proc[q].what = "agent" => proc[q].group = q
      BY DEF CustodyInv, Tree, Kin
    <3> QED
      BY <1>1, <1>2, <3>1, <3>2, <3>3, <3>4 DEF Kin, Alive
  <2>2. ASSUME NEW q \in Pids \ {p}, t[q] = Free PROVE Kin(q)'
    BY <1>6, <2>2, FreeIsTyped DEF Kin, Alive
  <2>3. Kin(p)'
    BY <1>1, <1>2, <1>6, Names DEF Kin, Alive
  <2>4. \A x, y \in Agents' : proc'[x].spawn = proc'[y].spawn => x = y
    <3> SUFFICES ASSUME NEW x \in Agents', NEW y \in Agents', proc'[x].spawn = proc'[y].spawn PROVE x = y
      OBVIOUS
    <3>1. \A q \in Agents' : q # p => q \in Agents /\ proc'[q].spawn = proc[q].spawn /\ proc'[q].spawn # spawns + 1
      BY <1>1, <1>8 DEF Agents
    <3>2. proc'[p].spawn = spawns + 1
      BY <1>6
    <3> QED
      BY <3>1, <3>2 DEF CustodyInv, Tree
  <2> QED
    BY <1>6, <2>1, <2>2, <2>3, <2>4 DEF Tree
<1>11. MindTypes'
  <2>1. rec' \in [state : {"none", "running", "adopted"}, pid : Pids \cup {"nobody"}, spawn : Nat]
    BY <1>1, <1>2
  <2>2. tokens' \subseteq 1 .. spawns' /\ bound' \subseteq 1 .. spawns' /\ spawns' \in Nat
    BY <1>1, <1>2
  <2>3. born' \in [Pids -> Nat]
    BY <1>1 DEF CustodyInv, MindTypes
  <2> QED
    BY <1>1, <2>1, <2>2, <2>3 DEF CustodyInv, MindTypes, Places
<1>12. Mind'
  BY <1>1, <1>2 DEF CustodyInv, Mind, MindTypes, Launched
<1>13. Watching'
  BY <1>1, <1>6 DEF Watching
<1>14. Recorded'
  <2>1. spawns + 1 \notin bound
    BY <1>2
  <2> QED
    BY <1>1, <1>2, <2>1 DEF Recorded
<1>15. \A q \in Agents' : q # p => q \in Agents /\ proc'[q].spawn = proc[q].spawn /\ proc'[q].spawn \notin tokens'
  BY <1>8 DEF Agents
<1>16. OneAtWork'
  <2>1. \A q \in Agents' : proc'[q].spawn \in tokens' => q = mine'
    BY <1>1, <1>15
  <2>2. ASSUME ~ def.solo, NEW q \in Agents', proc'[q].spawn \in bound' PROVE FALSE
    <3>1. q # p
      BY <1>1, <1>2, <1>6, <2>2
    <3>2. q \in Agents /\ proc[q].spawn \in bound /\ proc[q].spawn \notin tokens
      BY <1>1, <1>15, <2>2, <3>1
    <3> QED
      BY <2>2, <3>2 DEF CustodyInv, OneAtWork
  <2> QED
    BY <1>1, <2>1, <2>2 DEF OneAtWork
<1>17. RowsAreOwn'
  <2> SUFFICES ASSUME NEW x \in rows PROVE x.tick <= born'[x.pid] /\ (x.tick = born'[x.pid] => proc'[x.pid].what # "stranger")
    BY <1>1 DEF CustodyInv, RowsAreOwn
  <2>1. x.pid \in Pids /\ x.tick \in Nat /\ born \in [Pids -> Nat]
    BY DEF CustodyInv, MindTypes
  <2>2. x.tick <= born[x.pid] /\ (x.tick = born[x.pid] => proc[x.pid].what # "stranger")
    BY DEF CustodyInv, RowsAreOwn
  <2>3. CASE x.pid = p
    BY <1>1, <2>1, <2>2, <2>3
  <2>4. CASE x.pid # p
    <3>1. born'[x.pid] = born[x.pid] /\ proc'[x.pid].what \in {"none", proc[x.pid].what}
      BY <1>1, <1>3, <1>6, <2>1, <2>4, FreeIsTyped DEF Thin
    <3> QED
      BY <2>2, <3>1
  <2> QED
    BY <2>3, <2>4
<1>18. CommitsAlone'
  BY <1>1 DEF CommitsAlone
<1>19. Leaves'
  <2>1. leaving <= spawns + 1 /\ leaving \in Nat
    BY DEF CustodyInv, Mind, MindTypes
  <2>2. \A q \in Agents' : proc'[q].spawn \in tokens' => proc'[q].spawn = spawns + 1
    BY <1>6, <1>15
  <2> QED
    BY <1>1, <1>2, <2>1, <2>2 DEF Leaves
<1> QED
  BY <1>10, <1>11, <1>12, <1>13, <1>14, <1>16, <1>17, <1>18, <1>19 DEF CustodyInv

LEMMA LaunchStep == ASSUME CustodyInv, Launch PROVE CustodyInv'
<1>1. up /\ pc = "guard" /\ mine = "nobody" /\ rc.code # "clean"
  BY DEF Launch, Thread, CustodyInv, Mind, Launched
<1>2. UNCHANGED <<def, rows, job, tracked, rc, scan, life, bound, shot>>
  BY DEF Launch
<1>3. CASE \E p \in {q \in Pids : proc[q].what = "none"} : ~ stop /\ Spawned(p, {})
  BY <1>1, <1>2, <1>3, SpawnedStep
<1>4. CASE /\ pc' = "committed" /\ verdict' \in {"cancelled", "failed"} /\ Thin(proc') /\ Loyal(proc')
           /\ UNCHANGED <<born, rec, mine, tokens, spawns, code>>
  <2>1. tracked' \subseteq Pids /\ rc' \in [pid : Pids \cup {"nobody"}, code : {"none", "clean", "dirty", "unknown"}]
        /\ rc'.code # "clean"
    BY <1>1, <1>2 DEF CustodyInv, MindTypes
  <2>2. CommitsAlone'
    BY <1>4 DEF CommitsAlone
  <2> QED
    BY <1>1, <1>2, <1>4, <2>1, <2>2, Settled DEF life
<1>5. Thin(proc) /\ Loyal(proc) /\ \A S \in SUBSET Registered : Thin(Killed(Registered \ S)) /\ Loyal(Killed(Registered \ S))
  BY ProcThin, KilledThin, AttributedLives DEF CustodyInv
<1>6. CASE stop /\ Settle("cancelled", "committed") /\ UNCHANGED <<kernel, rec, mine, tokens, spawns, code>>
  BY <1>4, <1>5, <1>6 DEF Settle, kernel
<1>7. CASE /\ \E left \in SUBSET Registered \ {{}} : Quiesce(Registered, left)
           /\ Settle("failed", "committed") /\ UNCHANGED <<born, rec, mine, tokens, spawns, code>>
  BY <1>4, <1>5, <1>7 DEF Settle, Quiesce
<1> QED
  BY <1>3, <1>6, <1>7 DEF Launch

LEMMA BindStep == ASSUME CustodyInv, Bind PROVE CustodyInv'
<1>0. (bound' = bound /\ rec' = rec) \/ (bound' = bound \cup {rec.spawn} /\ rec' = [rec EXCEPT !.pid = mine])
  BY DEF Bind
<1>1. /\ up /\ pc = "popened" /\ pc' = "watch"
      /\ UNCHANGED <<def, proc, born, rows, mine, tokens, tracked, rc, verdict, stop, leaving, up, spawns, code, shot>>
  BY DEF Bind, Thread, Calm, kernel, mind, life
<1>2. /\ mine \in Pids /\ proc[mine].spawn \in tokens /\ proc[mine].spawn = spawns /\ rec.spawn = spawns
      /\ rec.state = "running" /\ spawns \in 1 .. spawns
  BY <1>1 DEF CustodyInv, Watching, Recorded, Launched, MindTypes
<1>3. Agents' = Agents /\ Living' = Living /\ Thin(proc') /\ Loyal(proc') /\ Subsides
  BY <1>1, ProcThin, ThinSubsides DEF CustodyInv, Agents, Living, Alive
<1>4. Tree'
  BY <1>1, <1>3, ThinTree DEF CustodyInv
<1>5. /\ rec' \in [state : {"none", "running", "adopted"}, pid : Pids \cup {"nobody"}, spawn : Nat]
      /\ rec'.state = "running" /\ rec'.spawn = spawns
      /\ rec'.pid = mine \/ (rec' = rec /\ bound' = bound)
  <2>1. rec \in [state : {"none", "running", "adopted"}, pid : Pids \cup {"nobody"}, spawn : Nat]
    BY DEF CustodyInv, MindTypes
  <2> QED
    BY <1>0, <1>2, <2>1
<1>6. MindTypes'
  <2>1. bound' \subseteq 1 .. spawns
    BY <1>0, <1>2 DEF CustodyInv, MindTypes
  <2> QED
    BY <1>1, <1>2, <1>5, <2>1 DEF CustodyInv, MindTypes, Places
<1>7. Mind' /\ Watching' /\ RowsAreOwn' /\ CommitsAlone' /\ Leaves'
  BY <1>1, <1>3, RowsStay, LeavesStay DEF CustodyInv, Mind, Watching, CommitsAlone, Launched
<1>8. \A p \in Agents : proc[p].spawn = spawns => p = mine
  BY <1>2 DEF CustodyInv, OneAtWork
<1>9. Recorded'
  <2>1. rec'.spawn \in bound' => \A p \in Agents' : proc'[p].spawn = rec'.spawn => rec'.pid = p
    BY <1>1, <1>2, <1>3, <1>5, <1>8 DEF CustodyInv, Recorded
  <2>2. spawns' # 0
    BY <1>1, <1>2 DEF CustodyInv, MindTypes
  <2>3. spawns' = spawns /\ pc' = "watch" /\ rec'.state = "running" /\ rec'.spawn = spawns
    BY <1>1, <1>5
  <2> QED
    BY <2>1, <2>2, <2>3 DEF Recorded
<1>10. OneAtWork'
  <2>1. bound' \subseteq bound \cup {spawns}
    BY <1>0, <1>2
  <2> QED
    BY <1>1, <1>2, <1>3, <2>1 DEF CustodyInv, OneAtWork, Launched
<1> QED
  BY <1>4, <1>6, <1>7, <1>9, <1>10 DEF CustodyInv

LEMMA WatchStep == ASSUME CustodyInv, Watch PROVE CustodyInv'
<1>1. /\ pc \in {"watch", "adopted"} /\ tracked' = tracked \cup Below({mine})
      /\ UNCHANGED <<def, proc, born, rows, rec, pc, mine, tokens, rc, verdict, stop, leaving, up, spawns, code, bound, shot>>
  BY DEF Watch, kernel, files, life, hist
<1>2. Thin(proc') /\ Loyal(proc') /\ Subsides
  BY <1>1, ProcThin, ThinSubsides DEF CustodyInv
<1>3. Tree'
  BY <1>1, <1>2, ThinTree DEF CustodyInv
<1>4. MindTypes'
  <2>1. tracked' \subseteq Pids
    BY <1>1 DEF Below, Living, CustodyInv, MindTypes
  <2> QED
    BY <1>1, <2>1 DEF CustodyInv, MindTypes
<1>5. Mind' /\ Watching' /\ Recorded' /\ OneAtWork' /\ RowsAreOwn' /\ Leaves' /\ CommitsAlone'
  BY <1>1, <1>2, RecordedStays, OneStays, RowsStay, LeavesStay DEF CustodyInv, Mind, Watching, CommitsAlone
<1> QED
  BY <1>3, <1>4, <1>5 DEF CustodyInv

LEMMA PollStep == ASSUME CustodyInv, Poll PROVE CustodyInv'
<1>1. up /\ pc = "watch" /\ ~ (Own /\ mine \in Living)
  BY DEF Poll, Thread
<1>2. /\ mine \in Pids /\ proc[mine].what = "agent" /\ proc[mine].spawn \in tokens
      /\ (proc[mine].code # "live" => proc[mine].code = code)
  BY <1>1 DEF CustodyInv, Watching, Launched
<1>3. Own /\ mine \notin Living
  BY <1>1, <1>2 DEF Own
<1>4. /\ rc' = [pid |-> mine, code |-> proc[mine].code] /\ proc' = [proc EXCEPT ![mine] = Free]
      /\ mine' = "nobody" /\ pc' = "judge"
      /\ UNCHANGED <<def, born, rows, rec, tokens, tracked, verdict, stop, leaving, up, spawns, code, bound, shot>>
  BY <1>3 DEF Poll, Calm, files, life
<1>5. proc[mine].code = code /\ proc[mine].code \in {"clean", "dirty"}
  BY <1>2, <1>3 DEF Living, Alive, CustodyInv, Tree, ProcSet
<1>6. /\ proc' \in [Pids -> ProcSet] /\ proc'[mine] = Free
      /\ \A p \in Pids \ {mine} : proc'[p] = proc[p]
      /\ \A p \in Pids : proc[p].parent \in Pids => proc[p].parent # mine
  BY <1>2, <1>3, <1>4, FreeIsTyped, Parents DEF CustodyInv, Tree
<1>7. Thin(proc) /\ Loyal(proc)
  BY ProcThin DEF CustodyInv
<1>8. Thin(proc')
  <2>1. \A p \in Pids : \/ proc'[p] = Free
                        \/ /\ proc'[p].what = proc[p].what /\ proc'[p].spawn = proc[p].spawn /\ proc'[p].group = proc[p].group
                           /\ proc'[p].code = proc[p].code \/ proc'[p].code # "live"
                           /\ proc'[p].parent \in {proc[p].parent, "init", "runner"} /\ proc[p].what # "none"
    BY <1>6, <1>7 DEF Thin
  <2>2. \A p \in Pids : proc'[p].parent \in Pids =>
          LET q == proc'[p].parent IN proc'[p].parent = proc[p].parent /\ proc'[q].what = "agent" /\ proc'[q].code = "live"
    BY <1>6, <1>7, FreeIsTyped DEF Thin
  <2> QED
    BY <1>6, <2>1, <2>2 DEF Thin
<1>9. Loyal(proc')
  BY <1>6, <1>7 DEF Loyal, Living
<1>10. mine \notin Agents'
  BY <1>6, FreeIsTyped DEF Agents, Living, Alive
<1>11. rc' \in [pid : Pids \cup {"nobody"}, code : {"none", "clean", "dirty", "unknown"}] /\ rc'.code = code
  BY <1>2, <1>4, <1>5
<1>12. CommitsAlone' /\ tracked' \subseteq Pids
  BY <1>4 DEF CommitsAlone, CustodyInv, MindTypes
<1> QED
  BY <1>1, <1>4, <1>8, <1>9, <1>10, <1>11, <1>12, Settled

LEMMA TimeoutStep == ASSUME CustodyInv, Timeout PROVE CustodyInv'
<1>1. /\ up /\ pc = "watch" /\ mine \in Agents /\ proc' = Killed(Grouped({mine}))
      /\ rc' = [pid |-> mine, code |-> "dirty"] /\ mine' = "nobody" /\ pc' = "judge"
      /\ UNCHANGED <<def, born, rows, rec, tokens, tracked, verdict, stop, leaving, up, spawns, bound, shot>>
  BY DEF Timeout, Thread, Calm, files, life
<1>2. mine \in Grouped({mine}) /\ Grouped({mine}) \in SUBSET Living /\ mine \in Pids
  BY <1>1 DEF Grouped, CustodyInv, Tree, Kin, Agents, Living
<1>3. Thin(proc') /\ Loyal(proc') /\ (proc'[mine] = Free \/ proc'[mine].code # "live")
  BY <1>1, <1>2, KilledThin DEF CustodyInv
<1>4. mine \notin Agents'
  BY <1>3, FreeIsTyped DEF Agents, Living, Alive
<1>5. rc' \in [pid : Pids \cup {"nobody"}, code : {"none", "clean", "dirty", "unknown"}] /\ rc'.code = "dirty"
  BY <1>1, <1>2
<1>6. CommitsAlone' /\ tracked' \subseteq Pids
  BY <1>1 DEF CommitsAlone, CustodyInv, MindTypes
<1> QED
  BY <1>1, <1>3, <1>4, <1>5, <1>6, Settled

LEMMA JudgeStep == ASSUME CustodyInv, JudgeClean \/ JudgeDirty PROVE CustodyInv'
<1>1. /\ up /\ pc = "judge" /\ pc' \in {"final", "guard"} /\ (rc.code = "clean" => pc' = "final")
      /\ UNCHANGED <<def, born, rows, rec, mine, tokens, rc, stop, leaving, up, spawns, code, bound, shot>>
      /\ tracked' = tracked \/ tracked' = tracked \cup Attributed(rc.pid)
      /\ proc' = proc \/ \E left \in SUBSET Attributed(rc.pid) : proc' = Killed(Attributed(rc.pid) \ left)
  BY DEF JudgeClean, JudgeDirty, Thread, Settle, Calm, Quiesce, files, life
<1>2. mine = "nobody" /\ tracked \subseteq Pids
  BY <1>1 DEF CustodyInv, Mind, MindTypes, Launched
<1>3. Attributed(rc.pid) \subseteq Living
  BY AttributedLives
<1>4. Thin(proc') /\ Loyal(proc')
  BY <1>1, <1>3, ProcThin, KilledThin DEF CustodyInv
<1>5. tracked' \subseteq Pids /\ (rc.code = "clean" => code = "clean")
  BY <1>1, <1>2, <1>3 DEF Living, CustodyInv, Mind
<1>6. CommitsAlone' /\ rc' \in [pid : Pids \cup {"nobody"}, code : {"none", "clean", "dirty", "unknown"}]
  BY <1>1 DEF CommitsAlone, CustodyInv, MindTypes
<1> QED
  BY <1>1, <1>2, <1>4, <1>5, <1>6, Settled

LEMMA CommitStep == ASSUME CustodyInv, Commit PROVE CustodyInv'
<1>1. /\ up /\ pc = "final" /\ pc' = "committed"
      /\ UNCHANGED <<def, born, rows, rec, mine, tokens, tracked, rc, stop, leaving, up, spawns, code, bound, shot>>
  BY DEF Commit, Thread, Settle, Calm, files, life
<1>2. mine = "nobody"
  BY <1>1 DEF CustodyInv, Mind, Launched
<1>3. Attributed(rc.pid) \subseteq Living
  BY AttributedLives
<1>4. Thin(proc') /\ Loyal(proc') /\ Subsides
  BY <1>3, ProcThin, KilledThin, ThinSubsides DEF Commit, Quiesce, CustodyInv
<1>5. CommitsAlone'
  <2> SUFFICES ASSUME verdict' \in {"done", "partial"}, NEW p \in Living'
               PROVE  /\ proc'[p].spawn \notin tokens
                      /\ rec.state = "adopted" /\ proc'[p].spawn = rec.spawn => p \notin tracked /\ proc'[p].group # rc.pid
    BY <1>1 DEF CommitsAlone
  <2>1. proc' = Killed(Attributed(rc.pid))
    <3>1. PICK left \in SUBSET Attributed(rc.pid) : Quiesce(Attributed(rc.pid), left) /\ left = {}
      BY DEF Commit, Settle
    <3>2. Attributed(rc.pid) \ left = Attributed(rc.pid)
      BY <3>1
    <3> QED
      BY <3>1, <3>2 DEF Quiesce
  <2>2. p \in Living /\ proc'[p].spawn = proc[p].spawn /\ proc'[p].group = proc[p].group
    BY <1>4 DEF Subsides
  <2>3. p \notin Attributed(rc.pid)
    <3>1. p \in Attributed(rc.pid) => proc'[p] = Free \/ proc'[p].code # "live"
      BY <1>3, <2>1, KilledThin DEF CustodyInv
    <3> QED
      BY <3>1, FreeIsTyped DEF Living, Alive
  <2>4. proc[p].spawn \notin tokens
    BY <1>1, <1>2, <2>2, <2>3, Covered DEF Attributed, CustodyInv
  <2>5. p \notin tracked /\ proc[p].group # rc.pid
    BY <2>2, <2>3 DEF Attributed, Grouped
  <2> QED
    BY <2>2, <2>4, <2>5
<1>6. /\ tracked' \subseteq Pids /\ (rc.code = "clean" => code = "clean")
      /\ rc' \in [pid : Pids \cup {"nobody"}, code : {"none", "clean", "dirty", "unknown"}]
  BY <1>1 DEF CustodyInv, MindTypes, Mind
<1> QED
  BY <1>1, <1>2, <1>4, <1>5, <1>6, Settled

-----------------------------------------------------------------------------

LEMMA CustodyInit == Init => CustodyInv
<1> SUFFICES ASSUME Init PROVE CustodyInv
  OBVIOUS
<1>1. \A p \in Pids : proc[p] = Free
  BY DEF Init
<1>2. Living = {} /\ Agents = {}
  BY <1>1, FreeIsTyped DEF Living, Alive, Agents
<1>3. Tree
  <2>1. proc \in [Pids -> ProcSet]
    BY FreeIsTyped DEF Init
  <2>2. \A p \in Pids : Kin(p)
    BY <1>1, FreeIsTyped DEF Kin, Alive
  <2> QED
    BY <1>2, <2>1, <2>2 DEF Tree
<1>4. MindTypes
  <2>1. def \in DefSet
    BY CustodyConstants DEF Init
  <2> QED
    BY <2>1 DEF Init, MindTypes, NoRec, NoExit, Places
<1>5. Mind /\ Recorded /\ Watching /\ OneAtWork /\ RowsAreOwn /\ CommitsAlone /\ Leaves
  BY <1>2 DEF Init, Mind, Recorded, Watching, OneAtWork, RowsAreOwn, CommitsAlone, Leaves, NoneAtWork, NoRec, NoExit, Launched
<1> QED
  BY <1>3, <1>4, <1>5 DEF CustodyInv

LEMMA CustodyStep == CustodyInv /\ [Next]_vars => CustodyInv'
<1> SUFFICES ASSUME CustodyInv, [Next]_vars PROVE CustodyInv'
  OBVIOUS
<1>1. CASE Work
  BY <1>1, JobAnswersStep, GateStep, AdoptedEndsStep, LaunchStep, BindStep, PollStep, TimeoutStep, JudgeStep, CommitStep DEF Work
<1>2. CASE Rule
  BY <1>2, BootSweepStep, StopSweepStep, TermEndsStep, FinishStep DEF Rule
<1>3. CASE Boot \/ SigKill \/ Stop \/ Term \/ ReaperScans \/ Reap \/ Watch
  BY <1>3, BootStep, SigKillStep, HaltStep, ReapStep, WatchStep
<1>4. ASSUME NEW p \in Pids, AgentExits(p) \/ TailExits(p) \/ Belt(p) \/ Fork(p) \/ Recycle(p) \/ Register(p)
      PROVE  CustodyInv'
  BY <1>4, AgentExitsStep, TailExitsStep, BeltStep, ForkStep, RecycleStep, RegisterStep
<1>5. CASE UNCHANGED vars
  <2>1. /\ proc' = proc
        /\ UNCHANGED <<def, born, rows, rec, pc, mine, tokens, tracked, rc, verdict, stop, leaving, up, spawns, code, bound, shot>>
    BY <1>5 DEF vars, kernel, files, mind, life, hist
  <2> QED
    BY <2>1, ProcThin, StillWatched, Fading DEF CustodyInv
<1> QED
  BY <1>1, <1>2, <1>3, <1>4, <1>5 DEF Next

LEMMA CustodyAlways == Spec => []CustodyInv
BY CustodyInit, CustodyStep, PTL DEF Spec

\* Over deaths of the runner between any two steps, two agents of an item are at work
\* together only if the older one was never bound to its record (_run_map_item), and
\* an answer is committed over an empty tree (_final_quiesce).
THEOREM AgentsWorkAlone == Spec => []AgentsAlone
<1>1. CustodyInv => AgentsAlone
  <2> SUFFICES ASSUME CustodyInv PROVE AgentsAlone
    OBVIOUS
  <2>1. \A p \in Agents : proc[p].spawn \in Nat /\ proc[p].spawn <= spawns /\ spawns \in Nat
    BY DEF CustodyInv, Tree, Kin, MindTypes, Agents, Living
  <2>2. OneGeneration
    BY <2>1 DEF CustodyInv, OneAtWork, OneGeneration
  <2> QED
    BY <2>2 DEF CustodyInv, AgentsAlone
<1> QED
  BY <1>1, CustodyAlways, PTL

\* A pid that was given out again is never killed by the registry of the tree, and the
\* subreaper takes no exit code that a thread waits for.
THEOREM PidsLeadToTheirs == Spec => []PidsAreTheirs
<1>1. CustodyInv => PidsAreTheirs
  BY DEF CustodyInv, RowsAreOwn, Mind, PidsAreTheirs, RegistrySparesStrangers, NoFalseGreen
<1> QED
  BY <1>1, CustodyAlways, PTL

\* After a stop no agent of the runner is at work, whatever its thread was about to
\* launch; a runner that was told to terminate leaves none that was at work then.
THEOREM RunnersLeaveNothing == Spec => RunnersLeave
<1>1. CustodyInv => (stop /\ up => NoneAtWork)
  BY DEF CustodyInv, Leaves
<1>2. CustodyInv /\ [Next]_vars =>
        [leaving > 0 /\ up /\ ~ up' => \A p \in Agents' : proc'[p].spawn \in tokens => proc'[p].spawn >= leaving]_vars
  <2> SUFFICES ASSUME CustodyInv, Next, leaving > 0, up, ~ up', NEW p \in Agents', proc'[p].spawn \in tokens
               PROVE  proc'[p].spawn >= leaving
    OBVIOUS
  <2>1. Thin(proc')
    <3>1. CASE SigKill
      <4>1. proc' = [q \in Pids |-> IF proc[q].parent # "runner" THEN proc[q]
                                    ELSE IF proc[q].code # "live" THEN Free ELSE [proc[q] EXCEPT !.parent = "init"]]
        BY <3>1 DEF SigKill, Gone, Under, Zombie
      <4> QED
        BY <4>1, ProcThin, GoneThin DEF CustodyInv
    <3>2. CASE TermEnds \/ Finish
      BY <3>2, SweptThin DEF TermEnds, Finish
    <3>3. ~ BootSweep
      <4>1. BootSweep => leaving = 0
        BY DEF BootSweep
      <4> QED
        BY <4>1
    <3>4. CASE up' = up
      BY <3>4
    <3>5. Boot => up' = TRUE
      BY DEF Boot
    <3> QED
      BY <3>1, <3>2, <3>3, <3>4, <3>5
         DEF Next, Work, Rule, JobAnswers, Gate, AdoptedEnds, Launch, Bind, Poll, Timeout, JudgeClean, JudgeDirty, Commit,
             StopSweep, Stop, Term, ReaperScans, Reap, Drain, Watch, AgentExits, TailExits, Belt, Fork, Recycle, Register,
             Calm, life
  <2>2. p \in Agents /\ proc'[p].spawn = proc[p].spawn
    BY <2>1, ThinSubsides DEF Subsides
  <2> QED
    BY <2>2 DEF CustodyInv, Leaves
<1> QED
  BY <1>1, <1>2, CustodyAlways, PTL DEF Spec, RunnersLeave, TermLeavesNone
=============================================================================
