-------------------------------- MODULE Cards --------------------------------
(* The cards of workflow runs in one chat session: a ledger on disk of what   *)
(* is owed, and a hook that appends owed cards to the reply of a turn.  The   *)
(* core picks one hook's text, drops the others, and abandons a hook that is  *)
(* slow: its worker runs on, beside the worker of the next turn.              *)
EXTENDS Integers, FiniteSets

CONSTANTS
  Runs,    \* numbered as they are launched
  Turns,   \* 1..n, each with one call of the hook
  Cap,     \* MAX_CARDS_PER_TURN
  Asks,    \* calls of run that answer with one run: a second one was deduped
  Mishaps  \* reads and writes of the ledger that fail, restarts of the gateway

CardsConstants ==
  Runs \subseteq Nat /\ Turns \subseteq Nat \ {0} /\ Cap \in Nat /\ Asks \in Nat /\ Mishaps \in Nat

VARIABLES
  ledger,    \* card-ledger.json: the state of each owed card
  claim,     \* _PENDING: the turn whose text claims the card, 0 for none
  retired,   \* _RETIRED
  turn,      \* the turn the core is in
  at, todo, now, take, \* each call: where it is, the claims or cards to go through, the one at hand, the cards in its text
  mishaps,
  asked,     \* history: how often the session launched the run
  over,      \* history: runs that were reported stopped or terminal, or pasted
  shown,     \* history: how often a text that carries the card was selected
  slips      \* history: runs whose entry a failure kept or lost

calls == <<at, todo, now, take>>
vars == <<ledger, claim, retired, turn, calls, mishaps, asked, over, shown, slips>>

Goes(t, from, to) == at[t] = from /\ at' = [at EXCEPT ![t] = to]
Running == {"deny", "owed", "propose"}  \* a call that has not returned
Gone == {"end", "none"}

-----------------------------------------------------------------------------
(* card_ledger.                                                            *)

\* _mutate: a ledger that cannot be read counts as empty, and what is written then is all there is;
\* a write that fails changes nothing.
Writes(r, st) ==
  \/ ledger' = [ledger EXCEPT ![r] = st] /\ UNCHANGED <<mishaps, slips>>
  \/ mishaps > 0 /\ mishaps' = mishaps - 1 /\ slips' = slips \cup {r} /\ UNCHANGED ledger
  \/ /\ mishaps > 0 /\ mishaps' = mishaps - 1 /\ st # "none" /\ ledger[r] = "none"
     /\ slips' = slips \cup {q \in Runs : ledger[q] # "none"}
     /\ ledger' = [q \in Runs |-> IF q = r THEN st ELSE "none"]

-----------------------------------------------------------------------------
(* The hooks.                                                              *)

\* post_tool_call: an answer of run puts the run in the ledger, once more when it is deduped.
Launches(r) ==
  /\ asked[r] < Asks /\ r \notin over /\ \A q \in Runs : q < r => asked[q] > 0
  /\ asked' = [asked EXCEPT ![r] = @ + 1]
  /\ Writes(r, "pending")
  /\ UNCHANGED <<claim, retired, turn, calls, over, shown>>

\* set_state leaves alone what is not in the ledger; a run that is over is dropped.
Reports(r) ==
  /\ asked[r] > 0 /\ r \notin over
  /\ \/ ledger[r] # "none" /\ Writes(r, IF ledger[r] = "held" THEN "pending" ELSE "held") /\ UNCHANGED over
     \/ Writes(r, "none") /\ over' = over \cup {r}
  /\ UNCHANGED <<claim, retired, turn, calls, asked, shown>>

\* The core calls the hook in every turn; the call before has returned or was given up.
Calls ==
  /\ turn + 1 \in Turns /\ turn' = turn + 1
  /\ turn > 0 => at[turn] \in Running \cup Gone
  /\ at' = [at EXCEPT ![turn + 1] = "deny"]
  /\ todo' = [todo EXCEPT ![turn + 1] = {r \in Runs : claim[r] # 0}]
  /\ UNCHANGED <<ledger, claim, retired, now, take, mishaps, asked, over, shown, slips>>

\* _reconcile: a claim of another turn was never selected, so it is void.
Denies(t, r) ==
  /\ at[t] = "deny" /\ r \in todo[t] /\ todo' = [todo EXCEPT ![t] = @ \ {r}]
  /\ claim' = [claim EXCEPT ![r] = IF @ = t THEN @ ELSE 0]
  /\ UNCHANGED <<ledger, retired, turn, at, now, take, mishaps, asked, over, shown, slips>>

\* The model pasted directives: their cards are delivered, and nothing is appended.
Pasted(t, r) ==
  /\ at[t] = "deny" /\ todo[t] = {} /\ asked[r] > 0
  /\ at' = [at EXCEPT ![t] = "end"]
  /\ retired' = retired \cup {r} /\ claim' = [claim EXCEPT ![r] = 0]
  /\ Writes(r, "none")
  /\ over' = over \cup {r}
  /\ UNCHANGED <<turn, todo, now, take, asked, shown>>

\* _owed: what the ledger holds, neither retired nor claimed, the newest first.
Owed == {r \in Runs : ledger[r] # "none" /\ r \notin retired /\ claim[r] = 0}
Newest(S) == {r \in S : Cardinality({q \in S : q > r}) < Cap}
ReadsOwed(t) ==
  /\ todo[t] = {} /\ Goes(t, "deny", IF Owed = {} THEN "end" ELSE "propose")
  /\ take' = [take EXCEPT ![t] = Newest(Owed)] /\ todo' = [todo EXCEPT ![t] = Newest(Owed)]
  /\ UNCHANGED <<ledger, claim, retired, turn, now, mishaps, asked, over, shown, slips>>

\* _propose: a claim that stands is not replaced.
Proposes(t, r) ==
  /\ at[t] = "propose" /\ r \in todo[t] /\ todo' = [todo EXCEPT ![t] = @ \ {r}]
  /\ claim' = [claim EXCEPT ![r] = IF @ = 0 THEN t ELSE @]
  /\ at' = [at EXCEPT ![t] = IF todo'[t] = {} THEN "text" ELSE @]
  /\ UNCHANGED <<ledger, retired, turn, now, take, mishaps, asked, over, shown, slips>>

\* The core touches the text that it selects, in the turn of the call.
Selected(t) ==
  /\ t = turn /\ Goes(t, "text", "confirm")
  /\ shown' = [r \in Runs |-> IF r \in take[t] THEN shown[r] + 1 ELSE shown[r]]
  /\ todo' = [todo EXCEPT ![t] = take[t]]
  /\ UNCHANGED <<ledger, claim, retired, turn, now, take, mishaps, asked, over, slips>>

\* Another hook's text was first, or nobody waits for this call any more: a text takes its own claims along.
Dies(t) ==
  /\ Goes(t, "text", "end")
  /\ claim' = [r \in Runs |-> IF claim[r] = t THEN 0 ELSE claim[r]]
  /\ UNCHANGED <<ledger, retired, turn, todo, now, take, mishaps, asked, over, shown, slips>>

ConfirmsClaims(t, r) ==
  /\ at[t] = "confirm" /\ r \in todo[t] /\ at' = [at EXCEPT ![t] = "release"]
  /\ todo' = [todo EXCEPT ![t] = @ \ {r}] /\ now' = [now EXCEPT ![t] = r]
  /\ IF claim[r] = t THEN Writes(r, "none") ELSE UNCHANGED <<ledger, mishaps, slips>>
  /\ UNCHANGED <<claim, retired, turn, take, asked, over, shown>>

\* _confirm: the entry goes first, whoever has the claim now,
Confirms(t, r) ==
  /\ at[t] = "confirm" /\ r \in todo[t] /\ at' = [at EXCEPT ![t] = "release"]
  /\ todo' = [todo EXCEPT ![t] = @ \ {r}] /\ now' = [now EXCEPT ![t] = r]
  /\ Writes(r, "none")
  /\ UNCHANGED <<claim, retired, turn, take, asked, over, shown>>

\* then the claim.
Releases(t) ==
  /\ at[t] = "release"
  /\ claim' = [claim EXCEPT ![now[t]] = 0]
  /\ at' = [at EXCEPT ![t] = IF todo[t] = {} THEN "end" ELSE "confirm"]
  /\ UNCHANGED <<ledger, retired, turn, todo, now, take, mishaps, asked, over, shown, slips>>

\* What is in memory is gone, the ledger stays; a text that was being confirmed ships again.
Restarted ==
  /\ mishaps > 0 /\ mishaps' = mishaps - 1
  /\ claim' = [r \in Runs |-> 0] /\ retired' = {}
  /\ slips' = slips \cup {r \in Runs : \E t \in Turns : at[t] \in {"confirm", "release"} /\ r \in take[t]}
  /\ at' = [t \in Turns |-> IF at[t] = "none" THEN "none" ELSE "end"]
  /\ UNCHANGED <<ledger, turn, todo, now, take, asked, over, shown>>

-----------------------------------------------------------------------------
Init ==
  /\ ledger = [r \in Runs |-> "none"] /\ claim = [r \in Runs |-> 0] /\ retired = {}
  /\ turn = 0 /\ at = [t \in Turns |-> "none"] /\ todo = [t \in Turns |-> {}] /\ now = [t \in Turns |-> 0] /\ take = [t \in Turns |-> {}]
  /\ mishaps = Mishaps
  /\ asked = [r \in Runs |-> 0] /\ over = {} /\ shown = [r \in Runs |-> 0] /\ slips = {}

Next ==
  \/ Calls \/ Restarted
  \/ \E r \in Runs : Launches(r) \/ Reports(r)
  \/ \E t \in Turns :
       \/ ReadsOwed(t) \/ Selected(t) \/ Dies(t) \/ Releases(t)
       \/ \E r \in Runs : Denies(t, r) \/ Pasted(t, r) \/ Proposes(t, r) \/ Confirms(t, r)

Spec == Init /\ [][Next]_vars

-----------------------------------------------------------------------------
(* Properties.                                                             *)

\* A card is shipped once for a launch, whatever an abandoned worker does to the claims, but where
\* a write of the ledger failed or the gateway died between the selection and the write.
ShippedOnce == \A r \in Runs \ slips : shown[r] <= asked[r]

\* A card that is owed and was never shown is in the ledger, and no claim hides it but that of a
\* text that may still be selected or of a worker that goes on.
CardsAreCovered == \A r \in Runs :
  /\ asked[r] > 0 /\ shown[r] = 0 /\ r \notin over \cup slips => ledger[r] # "none"
  /\ claim[r] # 0 => at[claim[r]] \notin Gone
=============================================================================
