------------------------------- MODULE RunEngine -------------------------------
(***************************************************************************)
(* The run engine: one ledger record and the reducer that turns it and an  *)
(* event into the next record (shared/domain/run-engine).  `run` is the    *)
(* record, `plan` the frozen part of it: roster, policy and task graph.    *)
(* Each action is one event of the reducer's vocabulary with the inputs    *)
(* the engine may give it; Send, SendArchive and Answer are the executor   *)
(* and the user, which only the tests play.                                *)
(*                                                                         *)
(* A rejected event leaves the record alone, so only accepted events are   *)
(* steps.  The reducer checks its invariants on every new record.  Of that *)
(* check the model enforces the four parts a legal event may run into      *)
(* (Sound); the others are invariants below that hold without being        *)
(* enforced, as RunEngineProofs shows: for them the check never rejects    *)
(* anything.                                                               *)
(***************************************************************************)
EXTENDS Integers, Sequences, FiniteSets

CONSTANTS NT,             \* tasks are 1 .. NT, in the order of the graph
          Agents,         \* agents of the roster, one seat each
          Plans,          \* the plans (rosters, policies, graphs) explored
          MaxAssignments, \* bound: assignments of a run
          MaxTurns        \* bound: turns the host reports

Tasks == 1 .. NT

\* A graph names its tasks, a task waits for others of the graph only, and no
\* task waits for itself through others; revised dependencies likewise.
WellFormedGraph(pl) ==
  /\ pl.dag \subseteq Tasks
  /\ \A g \in {pl.deps, pl.deps2} :
       /\ g \in [Tasks -> SUBSET Tasks]
       /\ \A t \in pl.dag : pl.deps[t] \subseteq pl.dag
       /\ \A S \in (SUBSET Tasks) \ {{}} : \E t \in S : g[t] \cap S = {}

\* The policy: one slot at least, an attempt at least, who may sit where, which
\* tasks write the same files, and the words a report may be in.
WellFormedPolicy(pl) ==
  /\ pl.concurrency \in Nat \ {0} /\ pl.perLayer \in Nat /\ pl.cap \in Nat \ {0}
  /\ pl.assignments \in 0 .. MaxAssignments /\ pl.turns \in 0 .. MaxTurns
  /\ DOMAIN pl.seat \subseteq Agents
  /\ \A pair \in pl.overlap : \E t, u \in Tasks : t # u /\ pair = {t, u}
  /\ pl.reports \subseteq {"done", "lacking", "blocked", "failed"}
  /\ pl.verdicts \subseteq {"pass", "reject"}

ASSUME BoundsAssumption ==
  /\ NT \in Nat \ {0} /\ MaxAssignments \in Nat /\ MaxTurns \in Nat
ASSUME PlansAssumption == \A pl \in Plans : WellFormedGraph(pl) /\ WellFormedPolicy(pl)

VARIABLES plan, run
vars == <<plan, run>>

Purposes == {"producer", "reviewer", "smoker"}
TaskStates == {"absent", "pending", "ready", "assigned", "in_progress", "review",
               "rework", "blocked", "failed", "done", "cancelled"}
Phases == {"none", "implementation", "review", "smoke", "awaiting-rework", "frozen"}
Lifecycles == {"awaiting-dag", "active", "paused", "finished", "cancelled"}
Proofs == {"none", "done", "lacking", "blocked", "failed", "pass", "reject"}
Ids == 1 .. MaxAssignments
Turns == 1 .. MaxTurns

TaskRecords == [state : TaskStates, phase : Phases, attempts : Nat, rework : Nat,
                evidence : Nat, quality : Nat, escalations : Seq([attempt : Nat, failures : Nat]),
                ref : {0} \cup Ids, released : BOOLEAN]
Assignments == [task : Tasks, purpose : Purposes, agent : Agents, attempt : Nat,
                delivery : {0} \cup Ids, born : Nat, state : {"assigned",
                "in_progress", "ended", "cancelled"}, turn : {0} \cup Turns,
                proof : Proofs, accepted : BOOLEAN,
                revoked : {"no", "before-send", "other"},
                dispatch : {"prepared", "sent", "withdrawn"},
                archive : {"none", "prepared", "sent"},
                cancellation : {0} \cup Nat, successor : {0} \cup Ids]
Claims == [state : {"none", "held", "frozen"}, origin : {0} \cup Ids]
Cancels == [state : {"none", "open", "answered", "superseded"}, pairs : SUBSET Ids]
Receipts == [kind : {"turn_started", "turn_ended"}, agent : Agents, turn : Turns]

----------------------------------------------------------------------------
(* Tiers, seats and the dispatch requirement.                              *)

Raise(tier) == IF tier = "B" THEN "A" ELSE "S"
LevelTier(level) == CASE level = "L1" -> "B" [] level \in {"L2", "L3"} -> "A" [] OTHER -> "S"
ImpliedLevel(tier) == CASE tier = "B" -> "L1" [] tier = "A" -> "L3" [] OTHER -> "L4"
LevelOrder == [L1 |-> 0, L2 |-> 1, L3 |-> 2, L4 |-> 3]

\* A bug: a counter starts one too low.
FreshMinusOne(state) == [state |-> state, phase |-> "none", attempts |-> 0, rework |-> 0,
                         evidence |-> 0, quality |-> -1, escalations |-> <<>>, ref |-> 0,
                         released |-> FALSE]
Fresh(state) == [state |-> state, phase |-> "none", attempts |-> 0, rework |-> 0,
                 evidence |-> 0, quality |-> 0, escalations |-> <<>>, ref |-> 0,
                 released |-> FALSE]
NoClaim == [state |-> "none", origin |-> 0]

\* The tier after `n` escalations of task t, and the tier its reviewers need.
TierAfter(t, n) == LET f[k \in 0 .. 2] == IF k = 0 THEN plan.tier[t] ELSE Raise(f[k - 1])
                   IN f[n]
ExecutionTier(r, t) == TierAfter(t, Len(r.task[t].escalations))

\* The level its reviewers need for a delivery of that attempt: the escalations
\* that attempt itself caused do not count (producerEpoch).
ReviewLevel(r, t, attempt) ==
  LET esc == r.task[t].escalations
      implied == ImpliedLevel(TierAfter(t, Cardinality(
                   {k \in DOMAIN esc : esc[k].attempt < attempt})))
  IN IF LevelOrder[plan.level[t]] >= LevelOrder[implied] THEN plan.level[t] ELSE implied
ReviewTier(r, t) == LevelTier(ReviewLevel(r, t, r.task[t].attempts))

\* structuralSeats: the agents whose seat has the tier the purpose requires.
Seats(r, t, purpose) ==
  {a \in DOMAIN plan.seat :
     CASE purpose = "producer" -> plan.seat[a] = ExecutionTier(r, t)
       [] purpose = "reviewer" -> plan.seat[a] = ReviewTier(r, t)
       [] OTHER -> t \in plan.smoke}

----------------------------------------------------------------------------
(* Facts read from the record.                                             *)

Of(r, t) == {i \in DOMAIN r.asg : r.asg[i].task = t}
ProducersOf(r, t) == {i \in Of(r, t) : r.asg[i].purpose = "producer"}
RepliesTo(r, d, purpose) ==
  {i \in DOMAIN r.asg : r.asg[i].purpose = purpose /\ r.asg[i].delivery = d}

NormalEnded(r, i) == r.asg[i].state = "ended"

\* A turn of the agent since the assignment that no other assignment explains.
HasTurnFacts(r, i) ==
  \/ r.asg[i].turn # 0
  \/ \E k \in (r.asg[i].born + 1) .. Len(r.obs) :
       /\ r.obs[k].agent = r.asg[i].agent
       /\ \A j \in DOMAIN r.asg \ {i} :
            r.asg[j].agent = r.asg[i].agent => r.asg[j].turn # r.obs[k].turn

CanCancelLocally(r, i) ==
  /\ r.asg[i].state = "assigned" /\ r.asg[i].proof = "none"
  /\ r.asg[i].dispatch = "prepared" /\ ~HasTurnFacts(r, i)

LocalNeverSent(r, i) ==
  /\ r.asg[i].state \in {"assigned", "cancelled"} /\ r.asg[i].proof = "none"
  /\ r.asg[i].dispatch = "withdrawn" /\ r.asg[i].revoked = "before-send"
  /\ ~r.asg[i].accepted /\ ~HasTurnFacts(r, i)

\* The place of the turn_ended receipt of assignment i; 0 when there is none.
EndedAt(r, i) ==
  LET at == {k \in DOMAIN r.obs : /\ r.obs[k].kind = "turn_ended"
                                  /\ r.obs[k].agent = r.asg[i].agent
                                  /\ r.obs[k].turn = r.asg[i].turn}
  IN IF at = {} THEN 0 ELSE CHOOSE k \in at : TRUE

StartedBetween(r, agent, lo, hi) ==
  \E k \in (lo + 1) .. hi : r.obs[k].kind = "turn_started" /\ r.obs[k].agent = agent

\* The evidence of a cancelled actor: its turn ended, the archive went out,
\* and no turn of its agent began since (sealed once the task is cancelled).
Quiescent(r, i, seen) ==
  LET a == r.asg[i]  end == EndedAt(r, i)
  IN /\ seen # 0 /\ seen <= Len(r.obs) /\ a.turn # 0
     /\ end # 0 /\ end <= seen
     /\ a.archive = "sent" /\ i \in r.d1[a.task].pairs
     /\ ~StartedBetween(r, a.agent, end,
                        IF r.task[a.task].state = "cancelled" THEN seen ELSE Len(r.obs))
Complete167(r, i) == Quiescent(r, i, r.asg[i].cancellation)

ActorSettled(r, i) == LocalNeverSent(r, i) \/ NormalEnded(r, i) \/ Complete167(r, i)

\* An effect is settled by the facts of its actor, never by its own state.
UnsettledEffects(r, S) ==
  \E i \in S :
    \/ r.asg[i].dispatch = "prepared"
    \/ r.asg[i].dispatch = "withdrawn" /\ ~LocalNeverSent(r, i)
    \/ r.asg[i].dispatch = "sent" /\ ~ActorSettled(r, i)
    \/ r.asg[i].archive = "prepared"
    \/ r.asg[i].archive = "sent" /\ ~Complete167(r, i)

Outstanding(r, t) ==
  {i \in Of(r, t) : i \in r.d1[t].pairs \/ ~ActorSettled(r, i)}

\* The delivery: the head producer of the current attempt and its done report.
ProducerHead(r, t) ==
  LET heads == {i \in ProducersOf(r, t) :
                  r.asg[i].attempt = r.task[t].attempts /\ r.asg[i].successor = 0}
  IN IF Cardinality(heads) = 1 THEN CHOOSE i \in heads : TRUE ELSE 0
DoneReport(r, i) == r.asg[i].proof \in {"done", "lacking"}
Delivery(r, t) ==
  LET h == ProducerHead(r, t) IN IF h # 0 /\ DoneReport(r, h) THEN h ELSE 0

\* checkEvidenceForProducer: an accepted report whose evidence holds.
ValidDelivery(r, i) ==
  /\ r.asg[i].purpose = "producer" /\ r.asg[i].proof = "done"
  /\ r.asg[i].accepted /\ r.asg[i].dispatch = "sent"

\* A reply that counts: its author is not the author of the delivery.
Eligible(r, i) ==
  LET d == r.asg[i].delivery
  IN /\ r.asg[i].accepted /\ r.asg[i].dispatch = "sent"
     /\ ValidDelivery(r, d) /\ r.asg[i].attempt = r.asg[d].attempt
     /\ r.asg[i].agent # r.asg[d].agent
     /\ r.asg[i].purpose = "reviewer" /\ ReviewLevel(r, r.asg[i].task, r.asg[d].attempt) = "L1"
          => 0 \notin {plan.family[r.asg[i].agent], plan.family[r.asg[d].agent]}
             /\ plan.family[r.asg[i].agent] # plan.family[r.asg[d].agent]

FailedDeliveries(r, t) ==
  {d \in ProducersOf(r, t) :
     /\ ValidDelivery(r, d)
     /\ \E i \in RepliesTo(r, d, "reviewer") \cup RepliesTo(r, d, "smoker") :
          r.asg[i].proof = "reject" /\ Eligible(r, i)}

\* A bug: where nobody was asked, nobody is against.
NobodyAgainst(r, S) == \A i \in S : r.asg[i].proof = "pass" /\ Eligible(r, i) /\ NormalEnded(r, i)
AllPassed(r, S) ==
  /\ S # {}
  /\ \A i \in S : r.asg[i].proof = "pass" /\ Eligible(r, i) /\ NormalEnded(r, i)

DoneGate(r, t) ==
  LET d == Delivery(r, t)
  IN /\ d # 0 /\ ValidDelivery(r, d) /\ d \notin FailedDeliveries(r, t)
     /\ AllPassed(r, RepliesTo(r, d, "reviewer"))
     /\ t \in plan.smoke => AllPassed(r, RepliesTo(r, d, "smoker"))
     /\ NormalEnded(r, d)
     /\ \A i \in Of(r, t) : ActorSettled(r, i)

\* Execution slots: running states, and blocked or failed tasks with a claim.
\* A bug: a task back in rework is forgotten.
OccupiesSlotOnceSent(r, t) ==
  \/ r.task[t].state \in {"assigned", "in_progress"}
  \/ r.task[t].state \in {"blocked", "failed"} /\ r.claim[t].state # "none"
OccupiesSlot(r, t) ==
  \/ r.task[t].state \in {"assigned", "in_progress", "rework"}
  \/ r.task[t].state \in {"blocked", "failed"} /\ r.claim[t].state # "none"
SlotFree(r, others) ==
  Cardinality({t \in others : OccupiesSlot(r, t)}) < plan.concurrency

CancelPending(r, t) == r.d1[t].state \in {"open", "answered"}
LiveAuthorized(r, i) ==
  /\ r.asg[i].state # "cancelled" /\ r.asg[i].dispatch = "sent"
  /\ r.asg[i].revoked = "no" /\ ~r.asg[i].accepted

\* Late replies to a failed delivery stay receivable.
QualityReplyWindow(r, t) ==
  /\ ~CancelPending(r, t)
  /\ r.task[t].state \in {"review", "rework", "failed", "blocked"}
  /\ Delivery(r, t) \in FailedDeliveries(r, t)

----------------------------------------------------------------------------
(* What every accepted event ends with, and the check of the new record.   *)

\* The tasks of S in the order of the graph, each through Step.
InOrder(r, S, Step(_, _)) ==
  LET after[k \in 0 .. NT] == IF k = 0 THEN r
                              ELSE IF k \in S THEN Step(after[k - 1], k) ELSE after[k - 1]
  IN after[NT]

\* advanceRework: the slot of the task itself does not count.
AdvanceRework(r, t) ==
  IF /\ r.task[t].state = "review" /\ r.task[t].phase = "awaiting-rework"
     /\ ~CancelPending(r, t)
     /\ \A i \in Of(r, t) : NormalEnded(r, i)
     /\ SlotFree(r, Tasks \ {t})
  THEN [r EXCEPT !.task[t].state = "rework", !.task[t].phase = "none"]
  ELSE r

RecomputeReady(r, t) ==
  IF r.task[t].state = "pending" /\ \A d \in r.deps[t] : r.task[d].state = "done"
  THEN [r EXCEPT !.task[t].state = "ready"]
  ELSE r

Finish(r) == InOrder(InOrder(r, Tasks, AdvanceRework), Tasks, RecomputeReady)

(* The parts of checkLedgerInvariants a legal event can run into.          *)

\* I2: a ready or active task waits for no other.
DependenciesDone(r) ==
  \A t \in Tasks :
    r.task[t].state \in {"ready", "assigned", "in_progress", "review", "rework"}
    => \A d \in r.deps[t] : r.task[d].state = "done"
\* I3: claims of different tasks do not overlap.
ClaimsApart(r) == \A pair \in plan.overlap : \E t \in pair : r.claim[t].state = "none"
\* I7: the evidence of a cancellation still holds.
EvidenceHolds(r) ==
  \A i \in DOMAIN r.asg :
    (r.asg[i].cancellation # 0 \/ (/\ r.task[r.asg[i].task].state = "cancelled"
                                   /\ i \in r.d1[r.asg[i].task].pairs)) => Complete167(r, i)
\* I8: a withdrawn dispatch was never sent, an agent has one actor in flight.
ActorsApart(r) ==
  \A i \in DOMAIN r.asg :
    /\ r.asg[i].dispatch = "withdrawn" => LocalNeverSent(r, i)
    /\ \A j \in DOMAIN r.asg : i # j /\ r.asg[i].agent = r.asg[j].agent
         => ActorSettled(r, i) \/ ActorSettled(r, j)
\* I4: no more tasks execute than there are slots (a blocked or failed task that
\* holds its claim adds the slot it keeps).
CapacityHolds(r) ==
  Cardinality({t \in Tasks : r.task[t].state \in {"assigned", "in_progress", "rework"}})
    <= plan.concurrency
\* I5: a nonce is accepted with its proof, and the last one that was given out
\* for a task at work is not revoked.
NoncesHold(r) ==
  /\ \A i \in DOMAIN r.asg : r.asg[i].accepted <=> r.asg[i].proof # "none"
  /\ \A t \in Tasks : r.task[t].state \in {"assigned", "in_progress", "review"} =>
       \E i \in Of(r, t) : r.asg[i].revoked = "no" /\ \A j \in Of(r, t) : j <= i
\* I6: the counters are what the record's assignments say.
CountersHold(r) ==
  \A t \in Tasks :
    LET task == r.task[t]
        failed == FailedDeliveries(r, t)
        attempts == {r.asg[i].attempt : i \in ProducersOf(r, t)}
    IN /\ task.quality = Cardinality(failed)
       /\ \A k \in DOMAIN task.escalations : task.escalations[k].failures =
            Cardinality({d \in failed : r.asg[d].attempt <= task.escalations[k].attempt})
       /\ task.attempts = Cardinality(attempts)
       /\ task.rework = IF attempts = {} THEN 0 ELSE Cardinality(attempts) - 1
\* An event whose record breaks one of these is refused.  I4, I5 and I6 are not
\* among them: no legal event may run into those, as the properties below say.
Sound(r) == DependenciesDone(r) /\ ClaimsApart(r) /\ EvidenceHolds(r) /\ ActorsApart(r)

\* (= TRUE keeps TLC from taking each way a guard can hold as a step of its own.)
Commit(r) == LET n == Finish(r) IN Sound(n) = TRUE /\ run' = n /\ UNCHANGED plan

----------------------------------------------------------------------------
(* The shared steps of cancellation.                                       *)

RevokeOpen(r, t, open(_)) ==
  [r EXCEPT !.asg = [i \in DOMAIN r.asg |->
     IF r.asg[i].task = t /\ r.asg[i].revoked = "no" /\ open(i)
     THEN [r.asg[i] EXCEPT !.revoked = "other"] ELSE r.asg[i]]]

\* A bug: one actor that was never sent lets the claim go.
SomebodyWasNotSent(r, t) == \E i \in Of(r, t) : LocalNeverSent(r, i)
NobodyWasSent(r, t) == \A i \in Of(r, t) : LocalNeverSent(r, i)

\* markLocalCancellations: what was never sent is withdrawn; the claim goes
\* only when no actor of the task was ever sent.
LocalCancel(r, t) ==
  LET withdrawn == [r EXCEPT !.asg = [i \in DOMAIN r.asg |->
        IF r.asg[i].task = t /\ CanCancelLocally(r, i)
        THEN [r.asg[i] EXCEPT !.dispatch = "withdrawn",
                !.revoked = IF @ = "no" /\ ~r.asg[i].accepted THEN "before-send" ELSE @]
        ELSE r.asg[i]]]
  IN IF NobodyWasSent(withdrawn, t) /\ r.claim[t].origin \in Of(r, t)
     THEN [withdrawn EXCEPT !.claim[t] = NoClaim]
     ELSE withdrawn

FreezeClaim(r, t) ==
  [r EXCEPT !.claim[t].state = IF @ = "none" THEN @ ELSE "frozen"]

\* freezeTask, with the pairs its cancellation now waits for.
Freeze(r, t, pairs) ==
  IF r.task[t].state \in {"done", "cancelled"} THEN r
  ELSE LET unaccepted(i) == ~r.asg[i].accepted
           frozen == RevokeOpen(FreezeClaim(r, t), t, unaccepted)
       IN [frozen EXCEPT !.task[t].state = "blocked", !.task[t].phase = "frozen",
             !.d1[t] = [state |-> IF @.state = "none" THEN "open" ELSE @.state,
                        pairs |-> pairs]]

\* A bug: the nonces stay valid.
MarkCancelledOnly(r, t) ==
  [r EXCEPT !.task[t].state = "cancelled", !.task[t].phase = "none", !.claim[t] = NoClaim,
     !.asg = [i \in DOMAIN @ |-> IF @[i].task = t /\ @[i].state # "ended"
                                 THEN [@[i] EXCEPT !.state = "cancelled"] ELSE @[i]]]
MarkCancelled(r, t) ==
  LET all(i) == TRUE
      revoked == RevokeOpen(r, t, all)
  IN [revoked EXCEPT !.task[t].state = "cancelled", !.task[t].phase = "none",
        !.claim[t] = NoClaim,
        !.asg = [i \in DOMAIN @ |-> IF @[i].task = t /\ @[i].state # "ended"
                                    THEN [@[i] EXCEPT !.state = "cancelled"] ELSE @[i]]]

\* applyCancellation: nothing left to wait for, or D1 with exact coverage.
NothingLeft(r, t) ==
  Outstanding(r, t) = {} /\ ~UnsettledEffects(r, Of(r, t)) /\ r.claim[t].state = "none"
ApplyCancel(r, t) ==
  LET pairs == Outstanding(r, t)
  IN IF NothingLeft(r, t)
     THEN [MarkCancelled(r, t) EXCEPT
             !.d1[t].state = IF @ = "open" /\ r.d1[t].pairs = {} THEN "superseded" ELSE @]
     ELSE Freeze([r EXCEPT !.asg = [i \in DOMAIN @ |->
                    IF i \in pairs /\ @[i].archive = "none"
                    THEN [@[i] EXCEPT !.archive = "prepared"] ELSE @[i]]], t, pairs)

\* An answered D1 takes no new pair (cancelCoverage).
CoverageHolds(r, t) ==
  r.d1[t].state = "answered" => Outstanding(r, t) \subseteq r.d1[t].pairs

\* releaseIfSettled: the evidence of every pair is sealed at the watermark.
ReleaseIfSettled(r, t) ==
  LET pairs == r.d1[t].pairs
  IN IF /\ pairs # {} /\ \A i \in pairs : Complete167(r, i)
        /\ Outstanding(r, t) \subseteq pairs
        /\ ~UnsettledEffects(r, Of(r, t))
        /\ r.d1[t].state = "answered"
     THEN [MarkCancelled([r EXCEPT !.asg = [i \in DOMAIN @ |->
             IF i \in pairs THEN [@[i] EXCEPT !.cancellation = Len(r.obs)] ELSE @[i]]], t)
             EXCEPT !.task[t].released = TRUE]
     ELSE r

----------------------------------------------------------------------------
(* Quality.                                                                *)

\* doneGate is looked at whenever a reply or an end of turn arrives.
RecomputeDone(r, t) ==
  IF r.task[t].state # "review" \/ r.task[t].phase = "awaiting-rework" THEN r
  ELSE LET smoked == [r EXCEPT !.task[t].phase = IF t \in plan.smoke THEN "smoke" ELSE @]
       IN IF DoneGate(smoked, t)
          THEN [smoked EXCEPT !.task[t].state = "done", !.task[t].phase = "none",
                              !.claim[t] = NoClaim]
          ELSE smoked

LayerFailures(r, t) ==
  LET esc == r.task[t].escalations  last == IF esc = <<>> THEN 0 ELSE esc[Len(esc)].failures
  IN IF r.task[t].quality > last THEN r.task[t].quality - last ELSE 0

\* nextQualityFailure: the ladder first, then the cap on attempts.
NextQualityFailure(r, t) ==
  LET exhausted == LayerFailures(r, t) >= plan.perLayer + 1
  IN IF exhausted /\ ExecutionTier(r, t) = "S" THEN "D3"
     ELSE IF r.task[t].attempts >= plan.cap THEN "D4"
     ELSE IF exhausted THEN "escalate"
     ELSE "rework"

AfterGateFailure(r, t, delivery) ==
  LET counted == [r EXCEPT !.task[t].quality = @ + 1]
      next == NextQualityFailure(counted, t)
      escalated == IF next # "escalate" THEN counted
                   ELSE [counted EXCEPT !.task[t].escalations = Append(@,
                          [attempt |-> r.asg[delivery].attempt,
                           failures |-> counted.task[t].quality])]
      settled == \A i \in Of(r, t) : NormalEnded(r, i)
  IN CASE next = "D3" -> [FreezeClaim(counted, t) EXCEPT
                            !.task[t].state = "failed", !.task[t].phase = "none",
                            !.gates = @ \cup {delivery}]
       [] next = "D4" -> [FreezeClaim(counted, t) EXCEPT
                            !.task[t].state = "blocked", !.task[t].phase = "frozen",
                            !.gates = @ \cup {delivery}]
       [] OTHER -> IF SlotFree(escalated, Tasks) /\ settled
                   THEN [escalated EXCEPT !.task[t].state = "rework", !.task[t].phase = "none"]
                   ELSE [escalated EXCEPT !.task[t].state = "review",
                                          !.task[t].phase = "awaiting-rework"]

----------------------------------------------------------------------------
(* The events.                                                             *)

May(event) == event \in plan.may

Blank == [task |-> 1, purpose |-> "producer", agent |-> CHOOSE a \in Agents : TRUE,
          attempt |-> 1, delivery |-> 0, born |-> 0, state |-> "assigned", turn |-> 0,
          proof |-> "none", accepted |-> FALSE, revoked |-> "no", dispatch |-> "prepared",
          archive |-> "none", cancellation |-> 0, successor |-> 0]

Init ==
  /\ plan \in Plans
  /\ run = [life |-> "awaiting-dag", revised |-> FALSE, deps |-> plan.deps,
            task |-> [t \in Tasks |-> Fresh("absent")], asg |-> <<>>,
            claim |-> [t \in Tasks |-> NoClaim],
            d1 |-> [t \in Tasks |-> [state |-> "none", pairs |-> {}]],
            gates |-> {}, obs |-> <<>>]

DagAccepted ==
  /\ run.life = "awaiting-dag"
  /\ Commit([run EXCEPT !.life = "active",
               !.task = [t \in Tasks |-> IF t \in plan.dag THEN Fresh("pending") ELSE @[t]]])

\* The code looks at the revision, not at the lifecycle: a paused, finished or
\* cancelled run is active again.
DagRevised(cancel) ==
  /\ May("revise") /\ ~run.revised /\ run.life # "awaiting-dag"
  /\ \A t \in cancel : run.task[t].state \notin {"absent", "done", "cancelled"}
  /\ LET local == InOrder(run, cancel, LocalCancel)
         after == InOrder(local, cancel, ApplyCancel)
     IN /\ \A t \in cancel : CoverageHolds(local, t)
        /\ Commit([after EXCEPT !.revised = TRUE, !.life = "active",
             !.deps = [t \in Tasks |->
                         IF after.task[t].state \in {"absent", "pending", "ready"}
                         THEN plan.deps2[t] ELSE @[t]],
             !.task = [t \in Tasks |-> IF @[t].state = "absent" THEN Fresh("pending")
                                       ELSE @[t]]])

\* An agent takes an assignment only when everything it had is settled.
AgentFree(a) ==
  \A i \in {j \in DOMAIN run.asg : run.asg[j].agent = a} : ActorSettled(run, i) = TRUE
CanAssign == run.life = "active" /\ Len(run.asg) < plan.assignments

\* task-dispatched for a producer: the next attempt, or `old` issued again
\* because the evidence of its done report did not hold.
DispatchProducer(t, a, old) ==
  LET task == run.task[t]
      i == Len(run.asg) + 1
      attempt == IF old = 0 THEN task.attempts + 1 ELSE task.attempts
      unaccepted(j) == ~run.asg[j].accepted
      r == RevokeOpen(run, t, unaccepted)
  IN /\ CanAssign /\ a \in Seats(run, t, "producer") /\ AgentFree(a)
     /\ IF old = 0
        THEN /\ \/ task.state \in {"ready", "rework"}
                \/ task.state = "review" /\ task.phase = "awaiting-rework"
             /\ \A j \in Of(run, t) : NormalEnded(run, j)
        ELSE /\ old = ProducerHead(run, t) /\ NormalEnded(run, old)
             /\ DoneReport(run, old) /\ ~ValidDelivery(run, old)
             /\ task.state \notin {"blocked", "failed", "cancelled", "done"}
     /\ SlotFree(run, Tasks \ {t})
     /\ Commit([r EXCEPT
          !.asg = Append(IF old = 0 THEN @ ELSE [@ EXCEPT ![old].successor = i],
                         [Blank EXCEPT !.task = t, !.agent = a, !.attempt = attempt,
                                       !.born = Len(run.obs)]),
          !.claim[t] = IF @.state = "none" THEN [state |-> "held", origin |-> i] ELSE @,
          !.task[t].rework = IF old = 0 /\ task.attempts > 0 THEN @ + 1 ELSE @,
          !.task[t].ref = 0, !.task[t].attempts = attempt,
          !.task[t].state = "assigned", !.task[t].phase = "implementation"])

\* task-dispatched for a reviewer or a smoker of the delivery at the head.  The
\* author of the delivery is not refused here, only its reply is.
DispatchReply(t, a, purpose) ==
  LET task == run.task[t]  d == Delivery(run, t)
  IN /\ CanAssign /\ a \in Seats(run, t, purpose) /\ AgentFree(a)
     /\ task.state = "review"
     /\ task.phase \in (IF purpose = "reviewer" THEN {"review", "smoke"} ELSE {"smoke"})
     /\ d # 0 /\ d \notin FailedDeliveries(run, t)
     /\ purpose = "smoker" =>
          \A i \in RepliesTo(run, d, "smoker") :
            ActorSettled(run, i) /\ run.asg[i].proof # "none"
     /\ Commit([run EXCEPT !.asg = Append(@,
          [Blank EXCEPT !.task = t, !.purpose = purpose, !.agent = a,
             !.attempt = run.asg[d].attempt, !.delivery = d, !.born = Len(run.obs)])])

\* A dispatched actor no turn is bound to yet, and a turn the host reported of an agent.
Waits(i) == /\ run.asg[i].state \notin {"cancelled", "ended"}
            /\ run.asg[i].dispatch = "sent" /\ run.asg[i].turn = 0
TurnOf(a, turn) == \E k \in DOMAIN run.obs :
  run.obs[k] = [kind |-> "turn_started", agent |-> a, turn |-> turn]

\* turn-started: binds a turn to the actor it was dispatched for.
TurnStarted(i, turn) ==
  LET a == run.asg[i]  t == a.task
      working == run.task[t].state \in {"assigned", "in_progress"}
  IN /\ Waits(i) /\ TurnOf(a.agent, turn) = TRUE
     /\ \A j \in DOMAIN run.asg : run.asg[j].turn # turn
     /\ a.purpose = "producer" =>
          /\ i = ProducerHead(run, t)
          /\ (\/ working
              \/ a.proof # "none"
              \/ run.task[t].state = "blocked" /\ i \in run.d1[t].pairs) = TRUE
     /\ LET started == [run EXCEPT !.asg[i].state = "in_progress", !.asg[i].turn = turn]
        IN Commit(IF a.purpose = "producer" /\ working
                  THEN [started EXCEPT !.task[t].state = "in_progress",
                                       !.task[t].phase = "implementation"]
                  ELSE started)

\* turn-ended: only a recorded receipt of exactly that turn ends it.
TurnEnded(i) ==
  LET t == run.asg[i].task
      ended == [run EXCEPT !.asg[i].state = "ended"]
  IN /\ run.asg[i].state # "cancelled" /\ run.asg[i].turn # 0 /\ EndedAt(run, i) # 0
     /\ Commit(CASE run.task[t].state = "review" -> RecomputeDone(ended, t)
                 [] run.task[t].state = "blocked" -> ReleaseIfSettled(ended, t)
                 [] OTHER -> ended)

\* task-report.  "lacking" is a done report whose evidence does not hold: the
\* nonce is spent, the task stays where it is and waits for a reissue.
TaskReport(i, report) ==
  LET t == run.asg[i].task
      stored == [run EXCEPT !.asg[i].accepted = TRUE, !.asg[i].proof = report]
  IN /\ run.asg[i].purpose = "producer" /\ LiveAuthorized(run, i)
     /\ run.task[t].state \in {"assigned", "in_progress"}
     /\ Commit(CASE report = "lacking" -> [stored EXCEPT !.task[t].evidence = @ + 1]
                 [] report = "done" -> [stored EXCEPT !.task[t].ref = i,
                      !.task[t].state = "review", !.task[t].phase = "review"]
                 [] OTHER -> [FreezeClaim(stored, t) EXCEPT !.task[t].state = report,
                                !.task[t].phase = IF report = "blocked" THEN "frozen"
                                                  ELSE "none"])

\* A bug: every rejection is a failure of its own.
NeverFailedBefore(t, d) == FALSE
FailedBefore(t, d) == d \in FailedDeliveries(run, t)

\* review-report and smoke-report.  A first rejection of the delivery is a
\* quality failure; a later reply to a failed delivery is only kept.
Reply(i, verdict) ==
  LET t == run.asg[i].task  smoker == run.asg[i].purpose = "smoker"
      stored == [run EXCEPT !.asg[i].accepted = TRUE, !.asg[i].proof = verdict]
      d == Delivery(stored, t)
      rejected == d \in FailedDeliveries(stored, t)
      smoking == [stored EXCEPT !.task[t].phase =
                    IF t \in plan.smoke /\ ~smoker THEN "smoke" ELSE @]
  IN /\ run.asg[i].purpose # "producer" /\ LiveAuthorized(run, i)
     /\ \/ /\ run.task[t].state = "review"
           /\ run.task[t].phase \in (IF smoker THEN {"smoke"} ELSE {"review", "smoke"})
        \/ QualityReplyWindow(run, t)
     /\ d # 0 /\ run.asg[i].delivery = d /\ Eligible(stored, i)
     /\ Commit(IF rejected
               THEN IF FailedBefore(t, d) THEN stored
                    ELSE AfterGateFailure(stored, t, d)
               ELSE RecomputeDone(smoking, t))

\* A bug: a done task can be cancelled.
CancelRequestedAnytime(t) ==
  LET local == LocalCancel(run, t)
  IN /\ May("cancel") /\ run.task[t].state # "absent" /\ CoverageHolds(local, t)
     /\ Commit(ApplyCancel(local, t))
CancelRequested(t) ==
  LET local == LocalCancel(run, t)
  IN /\ May("cancel") /\ run.task[t].state \notin {"absent", "done", "cancelled"}
     /\ CoverageHolds(local, t)
     /\ Commit(ApplyCancel(local, t))

RunCancelled ==
  LET open == {t \in Tasks : run.task[t].state \notin {"absent", "done", "cancelled"}}
      local == InOrder(run, open, LocalCancel)
  IN /\ May("stop") /\ run.life \notin {"finished", "cancelled"}
     /\ \A t \in open : CoverageHolds(local, t)
     /\ Commit(InOrder([local EXCEPT !.life = "cancelled"], open, ApplyCancel))

\* cancellation-checked: what a refresh of the host says of the actor.  Idle
\* counts only with the receipts that prove it; anything else freezes again.
CancellationChecked(i, idle) ==
  LET t == run.asg[i].task
  IN /\ i \in run.d1[t].pairs /\ Len(run.obs) > 0
     /\ Commit(IF idle /\ Quiescent([run EXCEPT !.asg[i].cancellation = Len(run.obs)], i,
                                    Len(run.obs))
               THEN ReleaseIfSettled([run EXCEPT !.asg[i].cancellation = Len(run.obs)], t)
               ELSE Freeze([run EXCEPT !.asg[i].cancellation = 0], t, run.d1[t].pairs))

RunPaused == May("pause") /\ run.life = "active" /\ Commit([run EXCEPT !.life = "paused"])
RunResumed == run.life = "paused" /\ Commit([run EXCEPT !.life = "active"])

RunFinished ==
  /\ run.life \in {"active", "paused"}
  /\ \A t \in Tasks : /\ run.task[t].state \in {"absent", "done", "cancelled"}
                      /\ run.claim[t].state = "none" /\ run.d1[t].state # "open"
  /\ run.gates = {}
  /\ ~UnsettledEffects(run, DOMAIN run.asg)
  /\ \A i \in DOMAIN run.asg : ActorSettled(run, i)
  /\ Commit([run EXCEPT !.life = "finished"])

\* observation-recorded.  A new turn voids the evidence that its agent is quiet.
ObservationRecorded(receipt) ==
  LET voided == {i \in DOMAIN run.asg :
                   /\ receipt.kind = "turn_started" /\ run.asg[i].agent = receipt.agent
                   /\ run.asg[i].cancellation # 0
                   /\ run.task[run.asg[i].task].state # "cancelled"}
      seen == [run EXCEPT !.obs = Append(@, receipt),
                 !.asg = [i \in DOMAIN @ |-> IF i \in voided
                                             THEN [@[i] EXCEPT !.cancellation = 0] ELSE @[i]]]
      again(r, t) == Freeze(r, t, r.d1[t].pairs)
  IN Commit(InOrder(seen, {run.asg[i].task : i \in voided}, again))

----------------------------------------------------------------------------
(* The executor, the agents and the user, whom only the tests play.        *)

Send(i) ==
  /\ run.asg[i].dispatch = "prepared"
  /\ run' = [run EXCEPT !.asg[i].dispatch = "sent"] /\ UNCHANGED plan
SendArchive(i) ==
  /\ run.asg[i].archive = "prepared"
  /\ run' = [run EXCEPT !.asg[i].archive = "sent"] /\ UNCHANGED plan
Answer(t) ==
  /\ run.d1[t].state = "open"
  /\ run' = [run EXCEPT !.d1[t].state = "answered"] /\ UNCHANGED plan

\* A turn the host reports: an agent has one turn at a time, and begins one
\* for a dispatch that reached it or, where the plan says so, by itself.
StartedBy(a) == {k \in DOMAIN run.obs : run.obs[k].agent = a /\ run.obs[k].kind = "turn_started"}
EndedBy(a) == {k \in DOMAIN run.obs : run.obs[k].agent = a /\ run.obs[k].kind = "turn_ended"}
TurnsSeen == {run.obs[k].turn : k \in DOMAIN run.obs}
TurnOpens(a) ==
  /\ Cardinality(TurnsSeen) < plan.turns
  /\ Cardinality(StartedBy(a)) = Cardinality(EndedBy(a))
  /\ \/ May("stray")
     \/ /\ \E i \in DOMAIN run.asg :
             /\ run.asg[i].agent = a /\ run.asg[i].dispatch = "sent"
             /\ run.asg[i].turn = 0 /\ run.asg[i].state = "assigned"
        /\ \A k \in StartedBy(a) : \E i \in DOMAIN run.asg : run.asg[i].turn = run.obs[k].turn
  /\ ObservationRecorded([kind |-> "turn_started", agent |-> a,
                          turn |-> Cardinality(TurnsSeen) + 1])
TurnCloses(a) ==
  \E k \in StartedBy(a) :
    /\ \A e \in EndedBy(a) : run.obs[e].turn # run.obs[k].turn
    /\ ObservationRecorded([kind |-> "turn_ended", agent |-> a, turn |-> run.obs[k].turn])

----------------------------------------------------------------------------

\* Bounds on the interleaving: unless the plan says "delay", what is dispatched is
\* sent before anything else happens; unless it says "race", a turn is bound as
\* soon as it is observed.
SentOut == May("delay") \/ \A i \in DOMAIN run.asg : run.asg[i].dispatch # "prepared"
BoundUp ==
  May("race") \/ \A i \in DOMAIN run.asg, turn \in TurnsSeen :
    Waits(i) /\ TurnOf(run.asg[i].agent, turn) => \E j \in DOMAIN run.asg : run.asg[j].turn = turn

Event ==
  \/ DagAccepted
  \/ \E cancel \in SUBSET plan.dag : DagRevised(cancel)
  \/ \E t \in Tasks, a \in DOMAIN plan.seat, old \in {0} \cup DOMAIN run.asg :
       DispatchProducer(t, a, old)
  \/ \E t \in Tasks, a \in DOMAIN plan.seat, purpose \in {"reviewer", "smoker"} :
       DispatchReply(t, a, purpose)
  \/ \E i \in DOMAIN run.asg : TurnEnded(i)
  \/ \E i \in DOMAIN run.asg, report \in plan.reports : TaskReport(i, report)
  \/ \E i \in DOMAIN run.asg, verdict \in plan.verdicts : Reply(i, verdict)
  \/ \E t \in Tasks : CancelRequested(t)
  \/ RunCancelled
  \/ \E i \in DOMAIN run.asg, idle \in BOOLEAN : CancellationChecked(i, idle)
  \/ RunPaused
  \/ RunResumed
  \/ RunFinished
  \/ \E i \in DOMAIN run.asg : SendArchive(i)
  \/ \E t \in Tasks : Answer(t)
  \/ \E a \in DOMAIN plan.seat : TurnOpens(a)
  \/ \E a \in DOMAIN plan.seat : TurnCloses(a)

Next ==
  \/ \E i \in DOMAIN run.asg : Send(i)
  \/ SentOut = TRUE /\ \E i \in DOMAIN run.asg, turn \in TurnsSeen : TurnStarted(i, turn)
  \/ (SentOut /\ BoundUp) = TRUE /\ Event

Spec == Init /\ [][Next]_vars

----------------------------------------------------------------------------
(* Properties.                                                             *)

\* Every component of the record has its type; the evidence of a cancellation
\* never points past the receipts.
TypeOK ==
  /\ plan \in Plans
  /\ run.life \in Lifecycles /\ run.revised \in BOOLEAN
  /\ run.deps \in [Tasks -> SUBSET Tasks] /\ run.task \in [Tasks -> TaskRecords]
  /\ run.asg \in Seq(Assignments) /\ run.claim \in [Tasks -> Claims]
  /\ run.d1 \in [Tasks -> Cancels] /\ run.gates \subseteq Ids /\ run.obs \in Seq(Receipts)
  /\ \A i \in DOMAIN run.asg : run.asg[i].cancellation <= Len(run.obs)

\* A producer that may still be running: sent, and nothing settles it.
MayWrite(i) ==
  run.asg[i].purpose = "producer" /\ run.asg[i].dispatch = "sent" /\ ~ActorSettled(run, i)

\* At no time may two agents write the same files: whoever may still be running
\* holds the claim of its task, and no two of one task or of overlapping tasks
\* may run at once, whatever was cancelled, reissued or revised in between.
SingleWriter ==
  \A i \in DOMAIN run.asg : MayWrite(i) =>
    /\ run.claim[run.asg[i].task].state # "none"
    /\ \A j \in DOMAIN run.asg \ {i} : MayWrite(j) =>
         run.asg[i].task # run.asg[j].task
         /\ {run.asg[i].task, run.asg[j].task} \notin plan.overlap

\* A done task is done for good reason, and stays so: its last attempt delivered
\* with evidence, somebody else reviewed that delivery, nobody who was asked
\* about it rejected it or has yet to answer, and no turn of its actors is open.
DoneIsReviewed ==
  \A t \in Tasks : run.task[t].state = "done" =>
    LET d == run.task[t].ref
        asked == {i \in Of(run, t) : run.asg[i].delivery = d}
    IN /\ d # 0 /\ run.asg[d].attempt = run.task[t].attempts
       /\ run.asg[d].task = t /\ run.asg[d].proof = "done"
       /\ \E i \in asked : run.asg[i].purpose = "reviewer" /\ run.asg[i].agent # run.asg[d].agent
       /\ t \in plan.smoke => \E i \in asked : run.asg[i].purpose = "smoker"
       /\ \A i \in asked : run.asg[i].proof = "pass"
       /\ \A i \in Of(run, t) : run.asg[i].state = "ended"

\* The counters are what the history says (I6): one quality failure for each
\* delivery rejected, however many replies reject it and however late; an
\* escalation remembers the failures up to its attempt; attempts and reworks
\* count the dispatches, and a reissue is no new attempt.  Nor is the actor that
\* is at work left with a revoked nonce (I5).  Else a legal event would be refused.
CountersMatchHistory == CountersHold(run) /\ NoncesHold(run)

\* No more tasks execute than the run was configured for, even when a rejected
\* task takes its slot back while others wait (I4, without its allowance).
SlotsBounded == CapacityHolds(run)

\* A cancelled task is quiet: each of its actors was never sent, ended its turn,
\* or was archived with no turn since; nothing of it waits to be sent, and its
\* claim is gone.
CancelledIsQuiet ==
  \A t \in Tasks : run.task[t].state = "cancelled" =>
    /\ run.claim[t].state = "none"
    /\ \A i \in Of(run, t) :
         /\ ActorSettled(run, i) /\ run.asg[i].revoked # "no"
         /\ run.asg[i].dispatch # "prepared" /\ run.asg[i].archive # "prepared"

\* What is final stays: no event, not even a revision of the graph, touches a
\* done or cancelled task, its claim or the state of its actors again.
TerminalIsFinal ==
  [][\A t \in Tasks : run.task[t].state \in {"done", "cancelled"} =>
       /\ run'.task[t] = run.task[t] /\ run'.claim[t] = run.claim[t]
       /\ \A i \in DOMAIN run'.asg : run'.asg[i].task = t =>
            i \in DOMAIN run.asg /\ run'.asg[i].state = run.asg[i].state]_vars
================================================================================
