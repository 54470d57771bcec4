------------------------------ MODULE MCRunEngine ------------------------------
(***************************************************************************)
(* For TLC: the run engine with plans that each ask one question of it,    *)
(* with few events, and what is planned from its ledger (RunPlanning).  A  *)
(* behaviour is one of the engine or of one part of the planning, and the  *)
(* others stay in their initial states.                                    *)
(***************************************************************************)
EXTENDS RunEngine, TLC

CONSTANTS a1, a2, a3, a4, Nobody

VARIABLES part, claims, board, entries, outbox, warnings, opened, finished, woken
planningVars == <<claims, board, entries, outbox, warnings, opened, finished, woken>>

Base == [dag |-> {1}, deps |-> [t \in Tasks |-> {}], deps2 |-> [t \in Tasks |-> {}],
         tier |-> [t \in Tasks |-> "A"], level |-> [t \in Tasks |-> "L3"], smoke |-> {},
         seat |-> a1 :> "A" @@ a2 :> "A", family |-> [a \in Agents |-> 1],
         concurrency |-> 1, overlap |-> {}, perLayer |-> 0, cap |-> 2,
         may |-> {}, reports |-> {"done"}, verdicts |-> {"pass", "reject"},
         assignments |-> 3, turns |-> 3]

\* Two reviewers of one delivery: late and repeated rejections, rework, D4.
Late == [Base EXCEPT !.perLayer = 1, !.level = [t \in Tasks |-> "L4"],
                     !.seat = a1 :> "A" @@ a2 :> "S" @@ a3 :> "S",
                     !.assignments = 3, !.turns = 3]
\* The ladder: escalation from A to S, then D3.
Ladder == [Base EXCEPT !.seat = a1 :> "A" @@ a2 :> "A" @@ a3 :> "S" @@ a4 :> "S",
                       !.assignments = 4, !.turns = 3, !.verdicts = {"reject"}]
\* A smoked task at level L1, where author and reviewer differ in family.
Smoke == [Base EXCEPT !.tier = [t \in Tasks |-> "B"], !.level = [t \in Tasks |-> "L1"],
                      !.seat = a1 :> "B" @@ a2 :> "B" @@ a3 :> "S", !.smoke = {1},
                      !.perLayer = 1, !.cap = 1, !.turns = 2,
                      !.family = a1 :> 1 @@ a2 :> 2 @@ a3 :> 0 @@ a4 :> 1]
\* Evidence that does not hold, and a reissue.
Reissue == [Base EXCEPT !.reports = {"done", "lacking", "blocked", "failed"},
                        !.may = {"cancel", "race"}, !.verdicts = {"pass"},
                        !.assignments = 3, !.turns = 2]
\* Cancellation while a producer or a reviewer works, with turns nobody dispatched.
Cancel == [Base EXCEPT !.may = {"cancel", "stray"}, !.assignments = 2, !.turns = 2,
                       !.verdicts = {"reject"}]
\* Cancellation of a task, or of the run, while a retry is prepared or in flight.
Retry == [Base EXCEPT !.may = {"cancel", "stop", "delay"}, !.perLayer = 1, !.verdicts = {"reject"},
                      !.turns = 2]
\* Two tasks over the same files, with two slots.
Overlap == [Base EXCEPT !.dag = {1, 2}, !.overlap = {{1, 2}}, !.concurrency = 2,
                        !.may = {"cancel", "delay"}, !.verdicts = {"pass"},
                        !.assignments = 2, !.turns = 2]
\* Two tasks and one slot, the second waiting for the first, then revised.
Revised == [Base EXCEPT !.dag = {1}, !.deps2 = [t \in Tasks |-> IF t = 2 THEN {1} ELSE {}],
                        !.may = {"revise", "pause"}, !.verdicts = {"pass"}, !.turns = 2]
OneSlot == [Base EXCEPT !.dag = {1, 2}, !.perLayer = 1, !.turns = 2,
                        !.verdicts = {"reject"}]
MCPlans == {Late, Ladder, Smoke, Reissue, Cancel, Retry, Overlap, Revised, OneSlot}

-----------------------------------------------------------------------------
(* Two tasks and scopes that meet in every way; paths are spelled in more    *)
(* than one way.                                                             *)
Path(parts) == [foreign |-> FALSE, parts |-> parts]
Scope(kind, path, access) ==
  [repo |-> 1, kind |-> kind, path |-> path, access |-> access, verified |-> TRUE]
MCScopes ==
  { Scope("directory", Path(<<"Src">>), "read"), Scope("directory", Path(<<"src">>), "write"),
    Scope("file", Path(<<"lib", "..", "src", "a">>), "write"),
    Scope("file", Path(<<"src", ".", "a">>), "read"),
    Scope("file", Path(<<"src", "..", "..", "a">>), "read"),
    Scope("file", [foreign |-> TRUE, parts |-> <<"a">>], "read"),
    Scope("file", Path(<<"src", "nul">>), "read"),
    [Scope("directory", Path(<<"lib">>), "write") EXCEPT !.verified = FALSE],
    [Scope("file", Path(<<"src", "a">>), "write") EXCEPT !.repo = 2],
    Scope("hot", Path(<<"build">>), "read") }
MCFold ==
  [s \in {"Src", "src", "lib", "a", "nul", "build"} |-> IF s = "Src" THEN "src" ELSE s]

\* Three tasks and two seats that may or may not be had.
Task(ready, tier) == [ready |-> ready, tier |-> tier, duty |-> "implement"]
Seat == [enabled |-> TRUE, tier |-> "A", duties |-> {"implement"}, cheap |-> TRUE, barred |-> FALSE,
         agent |-> TRUE, rework |-> 0,
         live |-> [enabled |-> TRUE, idle |-> TRUE, load |-> 0, trouble |-> Nobody]]
MCSeats ==
  { Seat, [Seat EXCEPT !.rework = 1], [Seat EXCEPT !.tier = "B"], [Seat EXCEPT !.enabled = FALSE],
    [Seat EXCEPT !.duties = {"review"}], [Seat EXCEPT !.cheap = FALSE, !.live.idle = FALSE],
    [Seat EXCEPT !.barred = TRUE], [Seat EXCEPT !.agent = FALSE],
    [Seat EXCEPT !.live.trouble = "permission"], [Seat EXCEPT !.live.load = 1, !.rework = 1] }
EmptyBoard == [tasks |-> <<>>, seats |-> <<>>, economy |-> FALSE]
MCBoards ==
  {EmptyBoard} \cup
  [tasks : [1..3 -> {Task(TRUE, "A"), Task(TRUE, "B"), Task(FALSE, "A")}],
   seats : [1..2 -> MCSeats], economy : BOOLEAN]

\* A dispatch that is sent again under another message or key, a budget in the
\* policy only, and one that bears the name of a group's.
Intent(seat, message, key, amount) ==
  [seat |-> seat, message |-> message, key |-> key, amount |-> amount]
MCIntents ==
  { Intent("s", 1, 1, 3), Intent("s", 2, 1, 1), Intent("s", 2, 3, 1), Intent("s", 4, 4, 2),
    Intent("x", 5, 5, 1), Intent("x", 6, 6, 1), Intent("none", 7, 7, 1) }
MCBudget == [s |-> 5, x |-> 1]
Decision(id, category, subject, open) ==
  [id |-> id, category |-> category, subject |-> subject, open |-> open]
MCDecisions ==
  { Decision(1, "D1", <<Nobody, "t">>, TRUE), Decision(2, "D4", <<"seat", "x">>, TRUE),
    Decision(3, "D4", <<Nobody, "x">>, TRUE), Decision(4, "D3", <<Nobody, "t">>, FALSE) }

Planning == INSTANCE RunPlanning WITH
  None <- Nobody,
  Tasks <- {1, 2}, Scopes <- MCScopes, Fold <- MCFold, Unusable <- {"nul"}, Boards <- MCBoards,
  Budget <- MCBudget, Intents <- MCIntents, Decisions <- MCDecisions

-----------------------------------------------------------------------------
EngineInit ==
  /\ part \in {"engine", "grants", "board", "wakes"}
  /\ Init /\ Planning!Init
  /\ part # "engine" => plan = OneSlot
  /\ part # "board" => board = EmptyBoard
EngineNext ==
  /\ UNCHANGED part
  /\ \/ part = "engine" /\ Next /\ UNCHANGED planningVars
     \/ part = "grants" /\ Planning!GrantNext /\ UNCHANGED vars
     \/ part = "wakes" /\ Planning!CommitNext /\ UNCHANGED vars
Engine == EngineInit /\ [][EngineNext]_<<part, vars, planningVars>>

\* GrantsApart, PlanIsFair, BudgetsAreKept and WakesAreDue of RunPlanning: what is
\* planned from the ledger keeps claims apart, gives each ready task a seat or a
\* reason, pays a dispatch once and wakes whoever must decide.
PlanningSound ==
  CASE part = "grants" -> Planning!GrantsApart
    [] part = "board" -> Planning!PlanIsFair
    [] part = "wakes" -> Planning!BudgetsAreKept /\ Planning!WakesAreDue
    [] OTHER -> TRUE
================================================================================
