----------------------------- MODULE LadderPromise -----------------------------
(***************************************************************************)
(* What the retry ladders promise, whatever ladder a spawn belongs to:      *)
(* an item gets one launch from every runner for free, each further launch  *)
(* is paid from the one budget of the run, and the transient grants that    *)
(* are on disk bound the item over all runners until it settles.            *)
(***************************************************************************)
EXTENDS Naturals

CONSTANTS Cells, TCap, Budget

VARIABLES
  phase,    \* free, paid or granted: may launch; running; judged; settled
  spent,    \* the transient grants on disk
  purse,    \* what is left of the budget
  launches  \* the launches by the present runner

promise == <<phase, spent, purse, launches>>

Init ==
  /\ phase = [c \in Cells |-> "free"] /\ launches = [c \in Cells |-> 0]
  /\ spent = [c \in Cells |-> 0] /\ purse = Budget

Turn(c, from, to) == phase[c] = from /\ phase' = [phase EXCEPT ![c] = to]

\* The free launch is withheld from an item that has used up its grants.
Begin(c) ==
  /\ \/ \E from \in {"paid", "granted"} : Turn(c, from, "running")
     \/ Turn(c, "free", "running") /\ (spent[c] > 0 => spent[c] < TCap)
  /\ launches' = [launches EXCEPT ![c] = @ + 1]
  /\ UNCHANGED <<spent, purse>>

\* An attempt dies or a launch is given up.
Judge(c) ==
  /\ \E from \in {"free", "paid", "granted", "running"} : Turn(c, from, "judged")
  /\ UNCHANGED <<purse, launches>>
  /\ spent' \in {spent, [spent EXCEPT ![c] = 0]}

Pay(c) ==
  /\ Turn(c, "judged", "paid")
  /\ purse > 0 /\ purse' = purse - 1
  /\ UNCHANGED <<spent, launches>>

\* A transient grant is on disk before the item rests.
Grant(c) ==
  /\ Turn(c, "judged", "granted")
  /\ purse > 0 /\ purse' = purse - 1
  /\ spent[c] < TCap /\ spent' = [spent EXCEPT ![c] = @ + 1]
  /\ UNCHANGED launches

\* The grants are forgotten with the death they were for.
Forget(c) ==
  /\ phase[c] = "judged" /\ spent' = [spent EXCEPT ![c] = 0]
  /\ UNCHANGED <<phase, purse, launches>>

Settle(c) == Turn(c, "judged", "settled") /\ UNCHANGED <<spent, purse, launches>>

\* The next runner starts over with all but the grants.
Renew ==
  /\ phase' = [c \in Cells |-> "free"] /\ launches' = [c \in Cells |-> 0]
  /\ purse' = Budget /\ UNCHANGED spent

Next == Renew \/ \E c \in Cells : Begin(c) \/ Judge(c) \/ Pay(c) \/ Grant(c) \/ Forget(c) \/ Settle(c)

Spec == Init /\ [][Next]_promise

-----------------------------------------------------------------------------

\* No item is launched more often than the budget of the run pays for, and an item
\* whose grants are spent is launched by no later runner.
PromiseTypeOK ==
  /\ phase \in [Cells -> {"free", "paid", "granted", "running", "judged", "settled"}]
  /\ spent \in [Cells -> 0 .. TCap] /\ purse \in 0 .. Budget /\ launches \in [Cells -> Nat]

Owed(c) == IF phase[c] \in {"paid", "granted"} THEN 1 ELSE 0
Paid == \A c \in Cells : launches[c] + Owed(c) + purse <= Budget + (IF phase[c] = "free" THEN 0 ELSE 1)
=============================================================================
