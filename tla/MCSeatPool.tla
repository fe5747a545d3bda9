------------------------------ MODULE MCSeatPool ------------------------------
(* Instances of SeatPool for TLC.  Runner p drives the items a and b of one  *)
(* fan-out, q the node c, and m a run that the agent of a started, with one   *)
(* node n; or, in the Crowd, p and q compete for two seats.  A behaviour is   *)
(* of one of the two, the variables of the other stay at its start.           *)
EXTENDS SeatPool, TLC

CONSTANTS a, b, c, n, p, q, m

OwnerOf == (a :> p) @@ (b :> p) @@ (n :> m)
AncestryOf == (p :> {}) @@ (m :> {a})
\* p's settings give 1, the other runner inherited a stale larger cap.
Seeds == (p :> 1) @@ (m :> 2)
Ceilings == (p :> 0) @@ (m :> 0)
Quorums == (p :> 1) @@ (m :> 0)

VARIABLES
  crowded, caps, tickets, markers, arrivals, seatLock, admits, found, at, agents, runners, cancels, counts, drains,
  kills, blinks

\* p and q compete for two seats; waits are unbounded, locks always come free.
Trio == {a, b, c}
Crowd == INSTANCE SeatPool WITH
  Seekers <- Trio, Runners <- {p, q}, Own <- (a :> p) @@ (b :> p) @@ (c :> q), Above <- (p :> {}) @@ (q :> {}),
  Seed <- (p :> 2) @@ (q :> 3), Ceiling <- (p :> 1) @@ (q :> 0), Quorum <- (p :> 1) @@ (q :> 0), Drain <- FALSE,
  Blind <- {q}, Stoppable <- {p}, Expires <- FALSE, Lapses <- FALSE, Misreads <- 0,
  cap <- caps, ticket <- tickets, marker <- markers, enq <- arrivals, flock <- seatLock, admit <- admits,
  view <- found, spc <- at, agent <- agents, runner <- runners, cancel <- cancels, done <- counts,
  armed <- drains, crashes <- kills, misreads <- blinks

crowd == <<caps, tickets, markers, arrivals, seatLock, admits, found, at, agents, runners, cancels, counts, drains,
           kills, blinks>>

MCInit == crowded \in BOOLEAN /\ Init /\ Crowd!Init
MCNext ==
  /\ UNCHANGED crowded
  /\ \/ ~ crowded /\ Next /\ UNCHANGED crowd
     \/ crowded /\ Crowd!Next /\ UNCHANGED vars
MCSpec ==
  /\ MCInit /\ [][MCNext]_<<crowded, vars, crowd>>
  /\ \A s \in Trio :
       /\ WF_crowd(crowded /\ Crowd!SeekerStep(s)) /\ SF_crowd(crowded /\ Crowd!TakeLock(s))
       /\ WF_crowd(crowded /\ Crowd!AgentEnds(s) /\ Crowd!NestOver(s))
  /\ \A r \in {p, q} : WF_crowd(crowded /\ Crowd!DrainEnds(r))

\* The crowd too keeps caps, ceilings, living seats and the order of its queue, and each of it seeks
\* once, so that in the end nobody waits: everybody is served.
CrowdServed ==
  /\ []Crowd!PoolSound /\ [][Crowd!SeatsLawful]_crowd
  /\ <>[](crowded => \A s \in Trio : at[s] \notin Waiting)
=============================================================================
