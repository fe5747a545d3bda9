------------------------------- MODULE Endings -------------------------------
(* Exits, Gates, Notices and Cards side by side: how nodes and runs end, and  *)
(* who hears of it.  A behaviour is of one of them; the variables of the      *)
(* others stay 0.                                                             *)
EXTENDS Integers, FiniteSets, Sequences

CONSTANTS
  Lives, Budgeted, EndScenes,        \* of Exits: its runners, its nodes, its endings
  Items, Files, Deeds, Drifts,       \* of Gates
  StrikesMax, WakeScenes,            \* of Notices
  Launched, Turns, Cap, Asks, Mishaps  \* of Cards: its runs first

VARIABLES
  part,
  \* of Exits
  ending, graph, verdict, claim, said, rec, receipt, ledger, child, lock, exitPc, own, why, got, deaths, amends, boots,
  launches, closed, owed, rerun,
  \* of Gates
  deed, out, record, lane, file, bead, edge, drifts, seen, probed,
  \* of Notices
  scene, version, swaps, rev, door, restart, wakePc, mine, exit, answer, dead, result, waved, hold, age, watch, clock,
  cohort, marker, call, heard, wakes, mirrored, told, crashes, kills,
  \* of Cards
  cards, claims, retired, turn, at, todo, now, take, mishaps, asked, over, shown, slips

E == INSTANCE Exits WITH Runners <- Lives, Nodes <- Budgeted, Endings <- EndScenes, pc <- exitPc
G == INSTANCE Gates WITH at <- edge
N == INSTANCE Notices WITH Scenes <- WakeScenes, graph <- version, pc <- wakePc, ledger <- wakes
C == INSTANCE Cards WITH Runs <- Launched, ledger <- cards, claim <- claims

ASSUME ExitsAssumption == E!ExitsConstants
ASSUME GatesAssumption == G!GatesConstants
ASSUME NoticesAssumption == N!NoticesConstants
ASSUME CardsAssumption == C!CardsConstants

-----------------------------------------------------------------------------
exits == <<ending, graph, verdict, claim, said, rec, receipt, ledger, child, lock, exitPc, own, why, got, deaths, amends,
           boots, launches, closed, owed, rerun>>
gates == <<deed, out, record, lane, file, bead, edge, drifts, seen, probed>>
notices == <<scene, version, swaps, rev, door, restart, wakePc, mine, exit, answer, dead, result, waved, hold, age, watch,
             clock, cohort, marker, call, heard, wakes, mirrored, told, crashes, kills>>
chat == <<cards, claims, retired, turn, at, todo, now, take, mishaps, asked, over, shown, slips>>
everything == <<part, exits, gates, notices, chat>>

NoExits ==
  /\ ending = 0 /\ graph = 0 /\ verdict = 0 /\ claim = 0 /\ said = 0 /\ rec = 0 /\ receipt = 0 /\ ledger = 0 /\ child = 0
  /\ lock = 0 /\ exitPc = 0 /\ own = 0 /\ why = 0 /\ got = 0 /\ deaths = 0 /\ amends = 0 /\ boots = 0 /\ launches = 0
  /\ closed = 0 /\ owed = 0 /\ rerun = 0
NoGates ==
  /\ deed = 0 /\ out = 0 /\ record = 0 /\ lane = 0 /\ file = 0 /\ bead = 0 /\ edge = 0 /\ drifts = 0 /\ seen = 0 /\ probed = 0
NoNotices ==
  /\ scene = 0 /\ version = 0 /\ swaps = 0 /\ rev = 0 /\ door = 0 /\ restart = 0 /\ wakePc = 0 /\ mine = 0 /\ exit = 0
  /\ answer = 0 /\ dead = 0 /\ result = 0 /\ waved = 0 /\ hold = 0 /\ age = 0 /\ watch = 0 /\ clock = 0 /\ cohort = 0
  /\ marker = 0 /\ call = 0 /\ heard = 0 /\ wakes = 0 /\ mirrored = 0 /\ told = 0 /\ crashes = 0 /\ kills = 0
NoCards ==
  /\ cards = 0 /\ claims = 0 /\ retired = 0 /\ turn = 0 /\ at = 0 /\ todo = 0 /\ now = 0 /\ take = 0 /\ mishaps = 0
  /\ asked = 0 /\ over = 0 /\ shown = 0 /\ slips = 0

InExits == part = "exits"
InGates == part = "gates"
InNotices == part = "notices"
InCards == part = "cards"

EndingsInit ==
  \/ InExits /\ E!Init /\ NoGates /\ NoNotices /\ NoCards
  \/ InGates /\ G!Init /\ NoExits /\ NoNotices /\ NoCards
  \/ InNotices /\ N!Init /\ NoExits /\ NoGates /\ NoCards
  \/ InCards /\ C!Init /\ NoExits /\ NoGates /\ NoNotices
EndingsNext ==
  /\ UNCHANGED part
  /\ \/ InExits /\ E!Next /\ UNCHANGED <<gates, notices, chat>>
     \/ InGates /\ G!Next /\ UNCHANGED <<exits, notices, chat>>
     \/ InNotices /\ N!Next /\ UNCHANGED <<exits, gates, chat>>
     \/ InCards /\ C!Next /\ UNCHANGED <<exits, gates, notices>>
\* The fairness of Exits and of Notices.
EndingsFair ==
  /\ WF_exits(InExits /\ E!ChildEnds) /\ \A r \in Lives : WF_exits(InExits /\ E!Runs(r))
  /\ WF_notices(InNotices /\ N!Runs) /\ WF_notices(InNotices /\ N!Poll)
  /\ WF_notices(InNotices /\ N!Revive) /\ WF_notices(InNotices /\ N!Elapse)
  /\ \A t \in UNION {sc.fans : sc \in WakeScenes} \cup {N!Main} :
       WF_notices(InNotices /\ t \in DOMAIN call /\ N!Tells(t))
EndingsSpec == EndingsInit /\ [][EndingsNext]_everything /\ EndingsFair

-----------------------------------------------------------------------------
\* The properties of Exits: one postmortem, a ledger that keeps, and every handler finishes.
EndingsKept == InExits => E!PostmortemIsOne /\ E!LedgerKeeps
HandlersClose ==
  /\ \A r \in Lives : InExits /\ exitPc[r] = "handle" ~> InExits /\ (E!Finished \/ exitPc[r] = "dead")
  /\ [][InExits => E!KeepsVerdict]_everything

\* That of Gates: what commits as done was seen to be so.
ProofsReal == InGates => G!ProofsAreReal

\* Those of Notices: owners are told once, strikes are just, gates that are kept are decided.
OwnersTold == InNotices => N!HoldIsTold /\ N!OneIdEach /\ N!BurstLands
StrikesJust == [][InNotices => N!SettlesOnSilence /\ N!ClockGoesOn]_everything
KeptGatesEnd ==
  InNotices /\ wakePc = "parked" /\ mine.graph.gate = version.gate
    ~> InNotices /\ (version.gate \in {answer, dead} \/ mine.graph.gate # version.gate)

\* That of Cards: a card is shipped once, and never lost.
CardsShip == InCards => C!ShippedOnce /\ C!CardsAreCovered
=============================================================================
