-------------------------------- MODULE Gates --------------------------------
(* The edge over which a node commits: the lane gate, the effect gate and the *)
(* gate of the closed bead look at the world one after the other, while the   *)
(* world goes on, and the record that is saved says done only of what they    *)
(* saw.  One agent, or a fan-out whose items each claim or do not claim.      *)
EXTENDS Integers, FiniteSets

CONSTANTS
  Items,   \* of the fan-out
  Files,   \* that a node may declare as effects
  Deeds,   \* what nodes declare
  Drifts   \* how often the world moves in a commit

\* A deed: is it a fan-out; does its bead carry an item token; is a lane declared; the files;
\* is a close declared.
DeedSet == [fan : BOOLEAN, token : BOOLEAN, lane : BOOLEAN, files : SUBSET Files, close : BOOLEAN]
Whole == "node"
Beads == Items \cup {Whole}
Words == {"claims", "pending", "garbled"}   \* what an output says of its bead; a token that renders to nothing
Committing == {"done", "partial"}

GatesConstants ==
  /\ Deeds \subseteq DeedSet /\ Drifts \in Nat
  /\ Whole \notin Items /\ "lane" \notin Files \cup Beads /\ Files \cap Beads = {}

VARIABLES
  deed,
  out,      \* per item, or for the node: its status and what it says
  record,   \* what will be saved: status and the gate that demoted it
  lane, file, bead,  \* the world
  at,       \* the gate that is next
  drifts,
  seen,     \* history: what the gates saw to be so
  probed    \* history: the beads that were read back

vars == <<deed, out, record, lane, file, bead, at, drifts, seen, probed>>

Rows == IF deed.fan THEN Items ELSE {Whole}

\* Only what commits is looked at.
Open(gate) == at = gate /\ record.st \in Committing
Passes(gate, next, fact) ==
  /\ at = gate /\ at' = next
  /\ seen' = seen \cup fact
  /\ UNCHANGED <<deed, out, lane, file, bead, drifts>>
Demotes(class) == record' = [st |-> "failed", by |-> class]
Shut(gate, next) == at = gate /\ record.st \notin Committing /\ Passes(gate, next, {}) /\ UNCHANGED <<record, probed>>

\* _lane_gate: tracked changes only; where git cannot answer, the gate is open.
LaneGate ==
  \/ Shut("lane", "effects")
  \/ /\ Open("lane")
     /\ Passes("lane", "effects", IF deed.lane /\ lane # "dirty" THEN {"lane"} ELSE {})
     /\ IF deed.lane /\ lane = "dirty" THEN Demotes("incomplete_work") ELSE UNCHANGED record
     /\ UNCHANGED probed

\* _effect_gate: every declared file is read, and one that is not as declared demotes.
EffectGate ==
  \/ Shut("effects", "bead")
  \/ /\ Open("effects")
     /\ Passes("effects", "bead", {f \in deed.files : file[f] = "good"})
     /\ IF \E f \in deed.files : file[f] # "good" THEN Demotes("effect_receipt") ELSE UNCHANGED record
     /\ UNCHANGED probed

ClaimsInBlob == IF \E i \in Rows : out[i].says = "pending" THEN {} ELSE {i \in Rows : out[i].st \in Committing}

\* The escape is per item: what commits and does not say that the close is pending.
Claims == {i \in Rows : out[i].st \in Committing /\ out[i].says # "pending"}

\* An item token is rendered per item, and a garbled one is never probed; without a token the
\* one declared bead is read back once.
Probes == IF Claims = {} THEN {}
          ELSE IF deed.fan /\ deed.token THEN {i \in Claims : out[i].says # "garbled"} ELSE {Whole}
Unproven == Claims # {} /\
  \/ \E b \in Probes : bead[b] # "closed"
  \/ deed.fan /\ deed.token /\ Probes # Claims

\* _bead_close_gate: the store is read, whatever the output says.
BeadGate ==
  \/ Shut("bead", "saved")
  \/ /\ Open("bead")
     /\ Passes("bead", "saved", IF deed.close THEN {b \in Probes : bead[b] = "closed"} ELSE {})
     /\ probed' = IF deed.close THEN Probes ELSE {}
     /\ IF deed.close /\ Unproven THEN Demotes("bead_close") ELSE UNCHANGED record

\* Somebody else writes to the lane, to a file or to the store meanwhile.
Drift ==
  /\ at # "saved" /\ drifts > 0 /\ drifts' = drifts - 1
  /\ \/ lane' \in {"clean", "dirty", "mute"} \ {lane} /\ UNCHANGED <<file, bead>>
     \/ (\E f \in Files : file' = [file EXCEPT ![f] = IF @ = "good" THEN "bad" ELSE "good"]) /\ UNCHANGED <<lane, bead>>
     \/ (\E b \in Beads, s \in {"open", "closed", "mute"} : bead[b] # s /\ bead' = [bead EXCEPT ![b] = s]) /\ UNCHANGED <<lane, file>>
  /\ UNCHANGED <<deed, out, record, at, seen, probed>>

-----------------------------------------------------------------------------
\* An agent says what its record says; a fan-out may be done without some of its items.
Init ==
  /\ deed \in Deeds
  /\ out \in [Rows -> [st : {"done", "partial", "failed"}, says : IF deed.token THEN Words ELSE Words \ {"garbled"}]]
  /\ record \in [st : {"done", "partial"}, by : {"none"}]
  /\ ~ deed.fan => record.st = out[Whole].st
  /\ lane \in {"clean", "dirty", "mute"}
  /\ file \in [Files -> {"good", "bad"}]
  /\ bead \in [Beads -> {"open", "closed"}]
  /\ at = "lane" /\ drifts = Drifts /\ seen = {} /\ probed = {}

Next == LaneGate \/ EffectGate \/ BeadGate \/ Drift

Fairness == WF_vars(LaneGate \/ EffectGate \/ BeadGate)
Spec == Init /\ [][Next]_vars /\ Fairness

-----------------------------------------------------------------------------
(* Properties.                                                             *)

\* What commits as done or partial was seen to be so at this very edge: its lane was not seen
\* dirty, each declared file was as declared, and each item that claims has its own bead, or the
\* declared one, read back as closed.  An item that says its close is pending excuses nobody else.
Wanted(i) == IF deed.fan /\ deed.token THEN i ELSE Whole
NoFalseGreen == at = "saved" /\ record.st \in Committing =>
  /\ deed.lane => "lane" \in seen
  /\ deed.files \subseteq seen
  /\ deed.close => \A i \in Rows : out[i].st \in Committing /\ out[i].says # "pending" => Wanted(i) \in seen

\* Nobody is punished for what nobody claimed: with every commit pending the store is not read,
\* and a bead of an item that did not commit is never asked for.
OnlyClaimsAreRead == at = "saved" =>
  /\ (\A i \in Rows : out[i].st \in Committing => out[i].says = "pending") => probed = {} /\ record.by # "bead_close"
  /\ \A b \in probed \cap Items : out[b].st \in Committing /\ out[b].says # "pending"

ProofsAreReal == NoFalseGreen /\ OnlyClaimsAreRead
=============================================================================
