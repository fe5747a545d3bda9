-------------------------------- MODULE Verdicts --------------------------------
(***************************************************************************)
(* What the runner concludes from the death of one agent.                  *)
(*                                                                         *)
(* run_child judges a child it launched, _adopt_child one that a dead       *)
(* runner launched and whose exit code nobody can read.  Both walk down a   *)
(* list of rules; the first whose condition holds gives the verdict.  The   *)
(* facts of a death are what those conditions tell apart.                   *)
(***************************************************************************)
EXTENDS Naturals, Sequences

\* "silent": killed for an empty log; "wall": killed at the node's wall.
Exits == {"zero", "nonzero", "signal", "silent", "wall"}

\* What extract_json and _harvest_death make of the log: nothing, serialized
\* tool calls, text or an object the schema refuses, an object it accepts
\* outside of a fence, one inside.
Says == {"nothing", "markup", "prose", "loose", "fenced"}

\* The telling line of the log or of the turn report.
Marks == {"none", "transport", "ratelimit", "fatal_quota", "unresolved_model",
          "provider_400", "gate400", "cap_line", "turn_cap", "lease", "config", "sentinel"}

Facts == [exit : Exits, said : Says, mark : Marks,
          token : {"none", "success", "failure"},
          by : {"none", "stop", "quorum", "lane"},
          tree : {"empty", "killed", "stuck"}]

\* What no death shows together.
Possible(f) ==
  /\ f.by # "none" => f.exit = "signal"
  /\ f.exit = "silent" => f.said = "nothing"
  /\ f.said = "nothing" => f.mark \in {"none", "turn_cap"} /\ f.token = "none"
  /\ f.said \in {"markup", "nothing"} => f.token = "none"
  /\ f.exit # "zero" => f.tree = "empty"

-----------------------------------------------------------------------------

\* The class of the last machine-readable line.
Class(f) ==
  CASE f.mark \in {"transport", "ratelimit", "fatal_quota", "unresolved_model", "provider_400"} -> f.mark
    [] f.mark = "gate400" -> "provider_400"
    [] f.mark = "cap_line" -> "cap_exhausted"
    [] OTHER -> "unknown"

Rule(when, status, class) == [when |-> when, status |-> status, class |-> class]

\* A death keeps a fenced answer that the schema accepts.
Death(when, f, class) == Rule(when, IF f.said = "fenced" THEN "partial" ELSE "failed", class)

First(rules) ==
  LET i == CHOOSE i \in DOMAIN rules :
             /\ rules[i].when
             /\ \A j \in 1 .. (i - 1) : ~ rules[j].when
  IN  [status |-> rules[i].status, class |-> rules[i].class]

\* outcome.classify: the token of the agent, then a provider's error in the text.
Declared(f) == f.token = "failure"
Sentinel(f) == f.token = "none" /\ f.mark = "sentinel"

Answered(f) == f.said \in {"loose", "fenced"}

\* The child exited with an error of its own; "again" is one more turn of the
\* same child: here with the effort the provider names, below with a correction.
Errors(f) ==
  << Death(f.mark = "turn_cap", f, "cap_exhausted"),
     Rule(f.said = "nothing", "failed", "early_death"),
     Rule(f.mark = "config", "failed", "config_input"),
     Rule(f.said = "fenced", "partial", Class(f)),
     Rule(f.mark = "fatal_quota", "failed", "fatal_quota"),
     Rule(f.mark = "lease", "failed", "lease_busy"),
     Rule(f.said = "markup" /\ Class(f) = "unknown", "failed", "malformed_turn"),
     Rule(f.mark = "gate400", "again", "provider_400"),
     Rule(Class(f) = "unknown" /\ Sentinel(f), "failed", "transport"),
     Rule(Class(f) = "unknown" /\ Declared(f), "failed", "declared_failure"),
     Rule(TRUE, "failed", Class(f)) >>

\* Exit 0 is believed once the process tree is empty and nothing contradicts it.
Success(f) ==
  << Rule(f.tree = "stuck", "failed", "left_live_descendants"),
     Death(f.tree = "killed", f, "left_live_descendants"),
     Rule(Declared(f), "failed", "declared_failure"),
     Rule(Sentinel(f), "failed", "transport"),
     Rule(Answered(f), "done", "none"),
     Rule(TRUE, "again", "schema") >>

Killed(f) ==
  << Rule(f.by = "lane", "failed", "killed"),
     Rule(f.exit = "silent", "failed", "early_death"),
     Death(f.exit = "wall", f, "timeout"),
     Rule(f.by \in {"stop", "quorum"}, "failed", "cancelled"),
     Death(TRUE, f, "crashed") >>

Turn(f) == First(CASE f.exit = "zero" -> Success(f)
                   [] f.exit = "nonzero" -> Errors(f)
                   [] OTHER -> Killed(f))

\* A second turn that asks again fails with the reason of the first.
Fresh(f, last) ==
  LET v == Turn(f) IN IF v.status = "again" /\ last THEN [v EXCEPT !.status = "failed"] ELSE v

-----------------------------------------------------------------------------

\* An adopted child: no exit code, the tree is settled by _final_quiesce.
Adopted(f) ==
  First(<< Rule(f.by \in {"stop", "lane"}, "failed", IF f.by = "lane" THEN "killed" ELSE "cancelled"),
           Death(f.exit = "wall", f, "timeout"),
           Rule(f.mark = "config", "failed", "config_input"),
           Rule(Declared(f), "failed", "declared_failure"),
           Rule(Sentinel(f), "failed", "transport"),
           Rule(Answered(f) /\ f.tree = "empty", "done", "none"),
           Rule(Answered(f) /\ f.tree = "killed", "partial", "left_live_descendants"),
           Rule(Answered(f), "failed", "left_live_descendants"),
           Rule(f.by = "quorum", "failed", "cancelled"),
           Rule(f.said = "prose", "failed", "schema"),
           Rule(f.mark = "turn_cap", "failed", "cap_exhausted"),
           Rule(f.said = "nothing", "failed", "crashed"),
           Rule(f.said = "markup" /\ Class(f) = "unknown", "failed", "malformed_turn"),
           Rule(TRUE, "failed", Class(f)) >>)

-----------------------------------------------------------------------------

\* The classes the two ladders re-drive.
Retryable == {"transport", "unknown"}
Bounded == {"transport", "early_death", "cap_exhausted", "timeout", "malformed_turn", "lease_busy"}

\* What the author, the seat or the agent itself decided stays decided: no ladder
\* spends a spawn on a wrong pin, an exhausted quota, a kill or a declared failure.
DecidedStays(f) ==
  LET v == Fresh(f, TRUE) IN
  (\/ f.by \in {"stop", "quorum", "lane"}
   \/ f.exit = "nonzero" /\ f.said # "fenced" /\ f.mark \in {"config", "fatal_quota", "unresolved_model"}
   \/ f.exit = "nonzero" /\ f.mark = "config"
   \/ f.exit \in {"zero", "nonzero"} /\ f.said # "fenced" /\ Declared(f) /\ Class(f) = "unknown"
        /\ f.mark \notin {"lease", "turn_cap"})
  => v.status = "failed" /\ v.class \notin Retryable \cup Bounded

\* A runner that adopts a child never believes more than the one that launched it
\* would have, had the child exited with 0.
AdoptedBelievesNoMore(f) ==
  Adopted(f).status = "done" => Fresh([f EXCEPT !.exit = "zero"], FALSE).status = "done"

\* A valid answer in a fence is lost only to a decision or to a tree that lives on.
AnswersAreKept(f) ==
  f.said = "fenced" =>
    \/ Fresh(f, FALSE).status \in {"done", "partial"}
    \/ f.by # "none" \/ f.tree = "stuck" \/ f.mark = "config" \/ Declared(f) \/ Sentinel(f)

VerdictLaws(f) == DecidedStays(f) /\ AdoptedBelievesNoMore(f) /\ AnswersAreKept(f)
=============================================================================
