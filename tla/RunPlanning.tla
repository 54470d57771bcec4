------------------------------ MODULE RunPlanning ------------------------------
(***************************************************************************)
(* What the run engine decides before an event reaches its reducer         *)
(* (shared/domain/run-engine): which claims a task may be granted          *)
(* (locks.ts), which seat a ready task is proposed to (scheduler.ts), what *)
(* a dispatch takes from a seat's budget (budget.ts) and when the          *)
(* coordinator is woken (wake-summary.ts).                                 *)
(*                                                                         *)
(* They are pure functions of the ledger; the executor that calls them is  *)
(* not part of the repository.  Here it does what their comments ask of    *)
(* it: a grant without conflicts becomes a claim, a reservation becomes    *)
(* the new entry along with its intent, and every step is classified.      *)
(***************************************************************************)
EXTENDS Naturals, SequencesExt, FiniteSetsExt, TLC

CONSTANTS
  Tasks,      \* the tasks that ask for claims
  Scopes,     \* the scopes they ask for
  Fold,       \* a segment of a path in lower case
  Unusable,   \* the segments no host can be trusted with
  Boards,     \* tasks and seats to plan for
  Budget,     \* the limits of the seats in the policy
  Intents,    \* the dispatches that are paid for, with seat, message and key
  Decisions,  \* the decision points that may be opened
  None

VARIABLES
  claims,    \* the resources of the ledger
  board,     \* what the scheduler is asked, never changed
  entries,   \* the budgets of the ledger
  outbox,    \* the intents that were paid
  warnings,  \* history: the warnings given, per seat
  opened,    \* the decisions
  finished,  \* the run is over
  woken      \* history: the keys of the wakes
grantVars == <<claims>>
wakeVars == <<entries, outbox, warnings, opened, finished, woken>>
vars == <<grantVars, board, wakeVars>>

-----------------------------------------------------------------------------
(* Claims. *)

\* normalizeLogicalPath.  A raw path is foreign if it is absolute, names a
\* drive or a stream, or holds a character that cannot be in a name.
NormalizeLogicalPath(raw) ==
  LET Walk(r, part) ==
        IF ~r.ok \/ part = "." THEN r
        ELSE IF part = ".." THEN [ok |-> r.path # <<>>,
                                  path |-> IF r.path = <<>> THEN r.path ELSE Front(r.path)]
        ELSE [ok |-> part \notin Unusable, path |-> Append(r.path, part)]
      walked == FoldLeft(Walk, [ok |-> ~raw.foreign, path |-> <<>>], raw.parts)
  IN [ok |-> walked.ok /\ walked.path # <<>>, path |-> walked.path]

Named(s) == s.kind \in {"hot", "tool"}

\* A directory covers itself and what is below it.
Covers(dir, file) == IsPrefix(dir, file)

FoldPath(path) == [i \in DOMAIN path |-> Fold[path[i]]]

\* A bug: the paths are compared as they were spelled.
AsSpelled(a, b) ==
  /\ a.repo = b.repo
  /\ IF Named(a) \/ Named(b) THEN a.kind = b.kind /\ a.path = b.path
     ELSE /\ \/ a.path.parts = b.path.parts
             \/ a.kind = "directory" /\ Covers(a.path.parts, b.path.parts)
             \/ b.kind = "directory" /\ Covers(b.path.parts, a.path.parts)
          /\ a.access = "write" \/ b.access = "write"

\* lockConflicts: named resources exclude each other whatever the access; a
\* path that cannot be read conflicts with all.
LockConflicts(a, b) ==
  /\ a.repo = b.repo
  /\ IF Named(a) \/ Named(b) THEN a.kind = b.kind /\ a.path = b.path
     ELSE LET an == NormalizeLogicalPath(a.path)
              bn == NormalizeLogicalPath(b.path)
              ap == FoldPath(an.path)
              bp == FoldPath(bn.path) IN
          \/ ~an.ok \/ ~bn.ok
          \/ /\ ap = bp \/ (a.kind = "directory" /\ Covers(ap, bp))
                        \/ (b.kind = "directory" /\ Covers(bp, ap))
             /\ a.access = "write" \/ b.access = "write"

\* findLockConflicts: its own claim does not stand in a task's way unless it is
\* frozen, and what is frozen is not even read.
FindLockConflicts(task, s) ==
  [ok |-> Named(s) \/ (s.verified /\ NormalizeLogicalPath(s.path).ok),
   conflicts |-> {c \in claims : /\ c.task # task \/ c.frozen
                                 /\ LockConflicts(IF c.frozen THEN [c EXCEPT !.access = "write"]
                                                   ELSE c, s)}]

Allowed(task, s) ==
  LET check == FindLockConflicts(task, s) IN check.ok /\ check.conflicts = {}

ClaimFor(task, s) ==
  [task |-> task, frozen |-> FALSE, repo |-> s.repo, kind |-> s.kind, path |-> s.path,
   access |-> s.access]

Grant(task, s) ==
  /\ Allowed(task, s)
  /\ claims' = claims \cup {ClaimFor(task, s)}
  /\ UNCHANGED <<board, wakeVars>>

\* A task that is blocked or has failed keeps its claims, frozen.
Freeze(task) ==
  /\ \E c \in claims : c.task = task /\ ~c.frozen
  /\ claims' = {IF c.task = task THEN [c EXCEPT !.frozen = TRUE] ELSE c : c \in claims}
  /\ UNCHANGED <<board, wakeVars>>

\* A task that is done or cancelled holds none.
Release(task) ==
  /\ \E c \in claims : c.task = task
  /\ claims' = {c \in claims : c.task # task}
  /\ UNCHANGED <<board, wakeVars>>

-----------------------------------------------------------------------------
(* The plan for the ready tasks. *)

\* A board: tasks (a sequence, each ready or not, with its tier and duty), seats
\* (what the roster says of them, and the live facts), and the policy.
Capable(seat, task) == seat.enabled /\ seat.tier = task.tier /\ task.duty \in seat.duties

\* eligibleSeats: the first thing against a seat, or None.  What a seat can do
\* comes first; the mode economy-all leaves only cheap Profiles.
Denial(b, seat, task) ==
  LET tests == << <<"disabled", ~seat.enabled \/ ~seat.live.enabled>>,
                  <<"tier", seat.tier # task.tier>>,
                  <<"duty", ~Capable(seat, task)>>,
                  <<"mode", b.economy /\ ~seat.cheap>>,
                  <<"disabled-profile", seat.barred>>,
                  <<"agent-missing", ~seat.agent>>,
                  <<"busy", ~seat.live.idle \/ seat.live.load > 0>>,
                  <<seat.live.trouble, seat.live.trouble # None>> >>
      against == {n \in DOMAIN tests : tests[n][2]}
  IN IF against = {} THEN None ELSE tests[Min(against)][1]

\* TEMPORARY_DENIALS.
Temporary == {"agent-missing", "busy", "permission", "degraded", "channel", "profile-unavailable"}

Eligible(b, task) == {i \in DOMAIN b.seats : Denial(b, b.seats[i], task) = None}

\* rankCandidates: load and order decide at last, and the order is the roster's.
First(b, seats) ==
  CHOOSE i \in seats : \A j \in seats \ {i} :
    \/ b.seats[i].rework < b.seats[j].rework
    \/ b.seats[i].rework = b.seats[j].rework /\ i < j

Left(verdict) == [verdict |-> verdict, seat |-> 0]

\* planDispatchWithReasons: one task after the other, each seat taken at once.
PlanDispatch(b) ==
  LET Step(plan, task) ==
        LET eligible == Eligible(plan.board, task)
            i == First(plan.board, eligible) IN
        IF task.ready /\ eligible # {}
        THEN [board |-> [plan.board EXCEPT !.seats[i].live.load = @ + 1],
              out |-> Append(plan.out, [verdict |-> "proposed", seat |-> i])]
        ELSE [plan EXCEPT !.out = Append(@, Left(
                IF ~task.ready THEN "not-ready"
                ELSE IF \E j \in DOMAIN b.seats :
                          Denial(plan.board, plan.board.seats[j], task) \in Temporary
                THEN "wait" ELSE "D1"))]
  IN FoldLeft(Step, [board |-> b, out |-> <<>>], b.tasks).out

-----------------------------------------------------------------------------
(* Budgets.  A budget is known by its scope and its subject. *)

\* findSeatBudget: the ledger's entry, or the one of the policy.
SeatBudget(seat) ==
  LET key == <<"seat", seat>> IN
  IF key \in DOMAIN entries THEN entries[key]
  ELSE IF seat \in DOMAIN Budget THEN [limit |-> Budget[seat], reserved |-> 0]
  ELSE None

\* thresholdOf.
Threshold(limit, reserved) ==
  CASE limit > 0 /\ reserved >= limit -> 100
    [] limit > 0 /\ reserved < limit /\ 10 * reserved >= 8 * limit -> 80
    [] OTHER -> 0

AlreadyCounted(i) == \E o \in outbox : o.message = i.message \/ o.key = i.key

\* predebit reserves only for an intent the outbox does not know by its message
\* or by its key, and only within the limit.
Reserves(i) ==
  LET entry == SeatBudget(i.seat) IN
  /\ i.amount > 0 /\ ~AlreadyCounted(i)
  /\ entry # None /\ entry.reserved + i.amount <= entry.limit

Debited(i) ==
  LET entry == SeatBudget(i.seat) IN
  (<<"seat", i.seat>> :> [entry EXCEPT !.reserved = @ + i.amount]) @@ entries

\* The warning of a reservation: the threshold it reaches.
Warning(i) ==
  LET entry == SeatBudget(i.seat)
      new == Threshold(entry.limit, entry.reserved + i.amount) IN
  IF new # 0 /\ new # Threshold(entry.limit, entry.reserved) THEN <<<<i.seat, new>>>> ELSE <<>>

-----------------------------------------------------------------------------
(* Wakes. *)

\* The budgets a D4 decision is about: the one its subject is the key of, or all
\* that bear the bare name of an older ledger.
NamedBudgets(d, budgets) ==
  IF d.category # "D4" THEN {}
  ELSE {k \in budgets : k = d.subject \/ (d.subject[1] = None /\ k[2] = d.subject[2])}

\* classifyWake: the keys of what is new between two states of the ledger.  One
\* key is woken once, whatever the reasons for it.
ClassifyWake(prev, next) ==
  LET fresh == {d \in next.opened \ prev.opened : d.open}
      budgets == DOMAIN next.entries
      ForDecision(d) ==
        IF NamedBudgets(d, budgets) = {} THEN {<<d.category, d.subject>>}
        ELSE {<<"D4", k>> : k \in NamedBudgets(d, budgets)}
      Exhausted(k) ==
        /\ next.entries[k].reserved >= next.entries[k].limit
        /\ k \in DOMAIN prev.entries => prev.entries[k].reserved < next.entries[k].limit
  IN UNION {ForDecision(d) : d \in fresh}
     \cup {<<"D4", k>> : k \in {e \in budgets : Exhausted(e)}}
     \cup (IF ~prev.finished /\ next.finished THEN {<<"D6", <<None, None>>>>} ELSE {})

Ledger == [entries |-> entries, opened |-> opened, finished |-> finished]

\* An event of the ledger: a dispatch is paid, a decision point is opened (or
\* written with its answer), the run ends, or some of it together.
Commit(i, d, end) ==
  /\ ~finished /\ (i # None \/ d # None \/ end)
  /\ i # None => Reserves(i)
  /\ d # None => \A o \in opened : o.id # d.id
  /\ entries' = IF i = None THEN entries ELSE Debited(i)
  /\ outbox' = IF i = None THEN outbox ELSE outbox \cup {i}
  /\ warnings' = warnings \o (IF i = None THEN <<>> ELSE Warning(i))
  /\ opened' = IF d = None THEN opened ELSE opened \cup {d}
  /\ finished' = end
  /\ woken' = woken \cup ClassifyWake(Ledger, Ledger')
  /\ UNCHANGED <<claims, board>>

-----------------------------------------------------------------------------

Init ==
  /\ claims = {} /\ board \in Boards
  /\ entries = (<<"group", "x">> :> [limit |-> 2, reserved |-> 0])
  /\ outbox = {} /\ warnings = <<>> /\ opened = {} /\ finished = FALSE /\ woken = {}

GrantNext == \E t \in Tasks : Freeze(t) \/ Release(t) \/ \E s \in Scopes : Grant(t, s)
CommitNext ==
  \E i \in Intents \cup {None}, d \in Decisions \cup {None}, end \in BOOLEAN : Commit(i, d, end)

Next == GrantNext \/ CommitNext

Spec == Init /\ [][Next]_vars

-----------------------------------------------------------------------------
(* Properties. *)

\* The files a claim reaches, among those the scopes can name.
Files == LET names == {Fold[p] : p \in DOMAIN Fold} IN UNION {[1..n -> names] : n \in 1..3}
Reached(c) ==
  LET path == FoldPath(NormalizeLogicalPath(c.path).path) IN
  {f \in Files : f = path \/ (c.kind = "directory" /\ Covers(path, f))}
Meet(c, d) ==
  /\ c.repo = d.repo
  /\ IF Named(c) \/ Named(d) THEN c.kind = d.kind /\ c.path = d.path
     ELSE Reached(c) \cap Reached(d) # {}

\* Two tasks never hold claims to the same file or resource unless both only
\* read it, however their paths are spelled and in whatever order the claims
\* were granted, frozen and released; and nobody is let into what is frozen
\* (findLockConflicts, lockConflicts, normalizeLogicalPath).
GrantsApart ==
  /\ \A c, d \in claims :
       c.task # d.task /\ Meet(c, d) => ~Named(c) /\ c.access = "read" /\ d.access = "read"
  /\ \A c \in claims, t \in Tasks, s \in Scopes :
       c.frozen /\ Meet(c, ClaimFor(t, s)) => ~Allowed(t, s)

\* The plan gives no seat two tasks, passes no seat over for one with more
\* rework, and asks for a decision (D1) only if no seat that can do the task is
\* left by the policy: while one is merely taken, the task waits
\* (planDispatchWithReasons, rankCandidates).
PlanIsFair ==
  LET plan == PlanDispatch(board)
      Proposed(n) == plan[n].verdict = "proposed"
      Usable(t) ==
        {i \in DOMAIN board.seats : Denial(board, board.seats[i], t) \in Temporary \cup {None}} IN
  /\ Len(plan) = Len(board.tasks)
  /\ \A n, m \in DOMAIN plan : n # m /\ Proposed(n) => plan[n] # plan[m]
  /\ \A n \in DOMAIN plan : LET t == board.tasks[n] IN
       /\ plan[n].verdict = "D1" => Usable(t) = {}
       /\ plan[n].verdict = "wait" => Usable(t) # {}
       /\ Proposed(n) => \A i \in Eligible(board, t) :
            board.seats[i].rework < board.seats[plan[n].seat].rework =>
              \E m \in 1..(n - 1) : plan[m].seat = i

\* What is reserved is what the outbox was paid for, each dispatch once, and
\* never more than the limit; and who warns has warned of each threshold the
\* budget has reached, once (predebit, thresholdOf).
BudgetsAreKept ==
  \A seat \in {i.seat : i \in Intents} :
    LET entry == SeatBudget(seat)
        paid == {o \in outbox : o.seat = seat}
        given == {n \in DOMAIN warnings : warnings[n][1] = seat} IN
    /\ entry = None => paid = {}
    /\ entry # None =>
         /\ entry.reserved = MapThenSumSet(LAMBDA o : o.amount, paid)
         /\ entry.reserved <= entry.limit
         /\ Threshold(entry.limit, entry.reserved) # 0 =>
              \E n \in given : warnings[n][2] = Threshold(entry.limit, entry.reserved)
    /\ \A n, m \in given : n # m => warnings[n] # warnings[m]
    /\ \A o, u \in paid : o # u => o.message # u.message /\ o.key # u.key

\* Every decision that was opened, every budget that is used up and the end of
\* the run have woken the coordinator, also those that came in one event; and it
\* is woken for nothing else (classifyWake).
WakesAreDue ==
  /\ \A d \in opened : d.open =>
       \/ <<d.category, d.subject>> \in woken
       \/ \E k \in NamedBudgets(d, DOMAIN entries) : <<"D4", k>> \in woken
  /\ \A k \in DOMAIN entries :
       entries[k].reserved >= entries[k].limit /\ entries[k].limit > 0 => <<"D4", k>> \in woken
  /\ finished => <<"D6", <<None, None>>>> \in woken
  /\ \A w \in woken :
       \/ w[1] = "D6" /\ finished
       \/ \E d \in opened :
            d.open /\ d.category = w[1] /\ (d.subject = w[2] \/ w[2] \in DOMAIN entries)
       \/ w[2] \in DOMAIN entries /\ entries[w[2]].reserved >= entries[w[2]].limit
=============================================================================
