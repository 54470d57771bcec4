--------------------------- MODULE RunEngineInvariant ---------------------------
(***************************************************************************)
(* The inductive invariant of RunEngine, for any number of tasks and every *)
(* set of plans, and the events that bring no report and no dispatch: the  *)
(* steps of cancellation, the turns the host reports and the lifecycle.    *)
(* The events below speak of rigid records r and s; Committed carries what *)
(* holds of them over to run and run'.                                     *)
(***************************************************************************)
EXTENDS RunEngine, FiniteSetTheorems, SequenceTheorems, WellFoundedInduction, TLAPS

\* A ledger record: every field of its type, and no index out of range.
Ledgers == [life : Lifecycles, revised : BOOLEAN, deps : [Tasks -> SUBSET Tasks],
            task : [Tasks -> TaskRecords], asg : Seq(Assignments), claim : [Tasks -> Claims],
            d1 : [Tasks -> Cancels], gates : SUBSET Ids, obs : Seq(Receipts)]
Typed(r) ==
  /\ r \in Ledgers /\ Len(r.asg) <= MaxAssignments
  /\ \A i \in DOMAIN r.asg : r.asg[i].cancellation <= Len(r.obs)

-----------------------------------------------------------------------------
(* The history of a task: what its assignments say of it. *)

IsLast(r, t, i) == i \in ProducersOf(r, t) /\ \A j \in ProducersOf(r, t) : j <= i

\* A producer takes over only when those before it ended and can report no more.
OneAtATime(r, t) ==
  \A i, j \in ProducersOf(r, t) : i < j =>
    /\ r.asg[i].state = "ended" /\ (r.asg[i].accepted \/ r.asg[i].revoked # "no")
    /\ r.asg[i].attempt <= r.asg[j].attempt
\* The last producer is the head: of the current attempt, and nobody's predecessor.
LastIsHead(r, t) ==
  \A i \in ProducersOf(r, t) : IsLast(r, t, i) =>
    r.asg[i].attempt = r.task[t].attempts /\ r.asg[i].successor = 0
\* Attempts are counted from 1 without a gap, and all but the first are rework.
AttemptsCounted(r, t) ==
  /\ {r.asg[i].attempt : i \in ProducersOf(r, t)} = 1 .. r.task[t].attempts
  /\ r.task[t].rework = IF r.task[t].attempts = 0 THEN 0 ELSE r.task[t].attempts - 1
\* A reviewer or smoker was asked about a delivery of the task that was reported
\* done, and a smoker only where the plan wants one.
RepliesFit(r, t) ==
  \A i \in Of(r, t) :
    /\ r.asg[i].purpose = "producer" => r.asg[i].delivery = 0
    /\ r.asg[i].purpose # "producer" =>
         /\ r.asg[i].delivery \in ProducersOf(r, t)
         /\ r.asg[r.asg[i].delivery].proof = "done" /\ r.asg[r.asg[i].delivery].accepted
         /\ r.asg[i].attempt = r.asg[r.asg[i].delivery].attempt
    /\ r.asg[i].purpose = "smoker" => t \in plan.smoke
\* A nonce is accepted with its proof, and only of an actor that was sent.
ProofsAccepted(r, t) ==
  \A i \in Of(r, t) : /\ r.asg[i].accepted <=> r.asg[i].proof # "none"
                      /\ r.asg[i].accepted => r.asg[i].dispatch = "sent"
\* What the task points at is the last producer, and that reported done.
RefIsDelivery(r, t) ==
  r.task[t].ref # 0 =>
    IsLast(r, t, r.task[t].ref) /\ r.asg[r.task[t].ref].proof = "done"
\* Failures are counted once per delivery, and by the escalations up to their
\* attempt; of the current attempt only the last delivery can have failed.
FailuresCounted(r, t) ==
  LET esc == r.task[t].escalations
      failed == FailedDeliveries(r, t)
  IN /\ r.task[t].quality = Cardinality(failed)
     /\ \A k \in DOMAIN esc :
          /\ esc[k].attempt <= r.task[t].attempts
          /\ esc[k].failures = Cardinality({d \in failed : r.asg[d].attempt <= esc[k].attempt})
          /\ esc[k].attempt = r.task[t].attempts => \E d \in failed : IsLast(r, t, d)
     /\ \A d \in failed : r.asg[d].attempt = r.task[t].attempts => IsLast(r, t, d)

History(r, t) ==
  /\ OneAtATime(r, t) /\ LastIsHead(r, t) /\ AttemptsCounted(r, t) /\ RepliesFit(r, t)
  /\ ProofsAccepted(r, t) /\ RefIsDelivery(r, t) /\ FailuresCounted(r, t)

\* An assignment goes on: what was asked of it and what it reported stays, what
\* ended stays ended, a revoked nonce stays revoked, a dispatch that left is gone.
GoesOn(a, b) ==
  /\ b.task = a.task /\ b.purpose = a.purpose /\ b.agent = a.agent /\ b.attempt = a.attempt
  /\ b.delivery = a.delivery /\ b.proof = a.proof /\ b.accepted = a.accepted
  /\ b.successor = a.successor
  /\ a.state = "ended" => b.state = "ended"
  /\ a.revoked # "no" => b.revoked # "no"
  /\ a.dispatch # "prepared" => b.dispatch = a.dispatch
SameCounts(a, b) ==
  /\ b.attempts = a.attempts /\ b.rework = a.rework /\ b.quality = a.quality
  /\ b.escalations = a.escalations /\ b.ref = a.ref
\* From r to s nothing was dispatched or reported.
NothingNew(r, s) ==
  /\ DOMAIN s.asg = DOMAIN r.asg
  /\ \A i \in DOMAIN r.asg : GoesOn(r.asg[i], s.asg[i])
  /\ \A t \in Tasks : SameCounts(r.task[t], s.task[t])

\* Nothing new came in over two steps when nothing did over each.
LEMMA NothingNewTwice ==
  ASSUME NEW r, NEW s, NEW m, NothingNew(r, m), NothingNew(m, s)
  PROVE  NothingNew(r, s)
BY DEF NothingNew, GoesOn, SameCounts

\* The types of the parts of a record.
LEMMA Parts ==
  ASSUME NEW r, Typed(r)
  PROVE  /\ r.life \in Lifecycles /\ r.revised \in BOOLEAN
         /\ r.asg \in Seq(Assignments) /\ DOMAIN r.asg = 1 .. Len(r.asg) /\ Len(r.asg) \in Nat
         /\ Len(r.asg) <= MaxAssignments /\ DOMAIN r.asg \subseteq Ids
         /\ \A i \in DOMAIN r.asg : r.asg[i] \in Assignments /\ r.asg[i].task \in Tasks
         /\ r.task \in [Tasks -> TaskRecords] /\ r.claim \in [Tasks -> Claims]
         /\ r.d1 \in [Tasks -> Cancels] /\ r.gates \subseteq Ids /\ r.obs \in Seq(Receipts)
         /\ r.deps \in [Tasks -> SUBSET Tasks]
         /\ Len(r.obs) \in Nat /\ DOMAIN r.obs = 1 .. Len(r.obs)
<1>1. r \in Ledgers /\ Len(r.asg) <= MaxAssignments
  BY DEF Typed
<1>2. r.asg \in Seq(Assignments) /\ r.obs \in Seq(Receipts)
  BY <1>1 DEF Ledgers
<1>3. /\ DOMAIN r.asg = 1 .. Len(r.asg) /\ Len(r.asg) \in Nat
      /\ Len(r.obs) \in Nat /\ DOMAIN r.obs = 1 .. Len(r.obs)
      /\ \A i \in DOMAIN r.asg : r.asg[i] \in Assignments
  BY <1>2
<1>4. \A i \in DOMAIN r.asg : r.asg[i].task \in Tasks
  BY <1>3 DEF Assignments
<1>5. DOMAIN r.asg \subseteq Ids
  BY <1>1, <1>3, BoundsAssumption DEF Ids
<1> QED
  BY <1>1, <1>2, <1>3, <1>4, <1>5 DEF Ledgers

\* The failed deliveries of a task stay while nothing new arrives.
LEMMA FailedStay ==
  ASSUME NEW r, NEW s, Typed(r), Typed(s), NothingNew(r, s),
         \A u \in Tasks : ProofsAccepted(r, u), NEW t \in Tasks
  PROVE  FailedDeliveries(s, t) = FailedDeliveries(r, t)
<1>1. DOMAIN s.asg = DOMAIN r.asg /\ \A i \in DOMAIN r.asg : r.asg[i].task \in Tasks
  BY Parts DEF NothingNew
<1>2. \A u \in Tasks : \A a : ReviewLevel(s, u, a) = ReviewLevel(r, u, a)
  BY DEF ReviewLevel, NothingNew, SameCounts
<1>3. \A i \in DOMAIN r.asg :
        /\ s.asg[i].task = r.asg[i].task /\ s.asg[i].purpose = r.asg[i].purpose
        /\ s.asg[i].agent = r.asg[i].agent /\ s.asg[i].attempt = r.asg[i].attempt
        /\ s.asg[i].delivery = r.asg[i].delivery /\ s.asg[i].proof = r.asg[i].proof
        /\ s.asg[i].accepted = r.asg[i].accepted
        /\ r.asg[i].accepted => r.asg[i].dispatch = "sent" /\ s.asg[i].dispatch = "sent"
  BY <1>1 DEF NothingNew, GoesOn, ProofsAccepted, Of
<1>4. \A i \in DOMAIN r.asg : ValidDelivery(s, i) <=> ValidDelivery(r, i)
  BY <1>3 DEF ValidDelivery
<1>5. \A i, d \in DOMAIN r.asg :
        r.asg[i].delivery = d => (Eligible(s, i) <=> Eligible(r, i))
  BY <1>1, <1>2, <1>3, <1>4 DEF Eligible
<1>6. ProducersOf(s, t) = ProducersOf(r, t)
  BY <1>1, <1>3 DEF ProducersOf, Of
<1>7. \A d \in DOMAIN r.asg : \A p : RepliesTo(s, d, p) = RepliesTo(r, d, p)
  BY <1>1, <1>3 DEF RepliesTo
<1>8. ProducersOf(r, t) \subseteq DOMAIN r.asg
  BY DEF ProducersOf, Of
<1>9. \A d \in ProducersOf(r, t) :
        (\E i \in RepliesTo(s, d, "reviewer") \cup RepliesTo(s, d, "smoker") :
            s.asg[i].proof = "reject" /\ Eligible(s, i))
        <=> (\E i \in RepliesTo(r, d, "reviewer") \cup RepliesTo(r, d, "smoker") :
            r.asg[i].proof = "reject" /\ Eligible(r, i))
  BY SMTT(40), <1>3, <1>5, <1>7, <1>8 DEF RepliesTo
<1> QED
  BY <1>4, <1>6, <1>8, <1>9 DEF FailedDeliveries

\* The history of every task stays while nothing new arrives.
LEMMA HistoryStays ==
  ASSUME NEW r, NEW s, Typed(r), Typed(s), NothingNew(r, s), \A t \in Tasks : History(r, t)
  PROVE  \A t \in Tasks : History(s, t)
<1> SUFFICES ASSUME NEW t \in Tasks PROVE History(s, t)
  OBVIOUS
<1>1. History(r, t)
  OBVIOUS
<1>2. /\ DOMAIN s.asg = DOMAIN r.asg
      /\ \A i \in DOMAIN r.asg : GoesOn(r.asg[i], s.asg[i])
      /\ SameCounts(r.task[t], s.task[t])
  BY DEF NothingNew
<1>3. Of(s, t) = Of(r, t) /\ ProducersOf(s, t) = ProducersOf(r, t) /\ Of(r, t) \subseteq DOMAIN r.asg
      /\ ProducersOf(r, t) \subseteq DOMAIN r.asg
  BY <1>2 DEF Of, ProducersOf, GoesOn
<1>4. \A i : IsLast(s, t, i) <=> IsLast(r, t, i)
  BY <1>3 DEF IsLast
<1>5. FailedDeliveries(s, t) = FailedDeliveries(r, t)
  BY FailedStay DEF History
<1>6. OneAtATime(s, t)
  BY <1>1, <1>2, <1>3 DEF History, OneAtATime, GoesOn
<1>7. LastIsHead(s, t)
  BY <1>1, <1>2, <1>3, <1>4 DEF History, LastIsHead, GoesOn, SameCounts
<1>8. AttemptsCounted(s, t)
  <2>1. {s.asg[i].attempt : i \in ProducersOf(r, t)} = {r.asg[i].attempt : i \in ProducersOf(r, t)}
    BY <1>2, <1>3 DEF GoesOn
  <2> QED
    BY <1>1, <1>2, <1>3, <2>1 DEF History, AttemptsCounted, SameCounts
<1>9. RepliesFit(s, t)
  BY <1>1, <1>2, <1>3 DEF History, RepliesFit, GoesOn
<1>10. ProofsAccepted(s, t)
  BY <1>1, <1>2, <1>3 DEF History, ProofsAccepted, GoesOn
<1>11. RefIsDelivery(s, t)
  BY SMTT(40), <1>1, <1>2, <1>3, <1>4 DEF History, RefIsDelivery, GoesOn, SameCounts, IsLast
<1>12. FailuresCounted(s, t)
  <2>1. FailedDeliveries(r, t) \subseteq DOMAIN r.asg
    BY <1>3 DEF FailedDeliveries
  <2>2. \A n : {d \in FailedDeliveries(r, t) : s.asg[d].attempt <= n}
               = {d \in FailedDeliveries(r, t) : r.asg[d].attempt <= n}
    BY <1>2, <2>1 DEF GoesOn
  <2> QED
    BY <1>1, <1>2, <1>4, <1>5, <2>1, <2>2 DEF History, FailuresCounted, GoesOn, SameCounts
<1> QED
  BY <1>6, <1>7, <1>8, <1>9, <1>10, <1>11, <1>12 DEF History

\* The lists of the record are functions on 1 .. their length.
LEMMA SeqMapped ==
  ASSUME NEW A, NEW s \in Seq(A), NEW f, f \in [DOMAIN s -> A]
  PROVE  f \in Seq(A) /\ Len(f) = Len(s) /\ DOMAIN f = DOMAIN s
<1>1. DOMAIN s = 1 .. Len(s) /\ Len(s) \in Nat
  OBVIOUS
<1>2. f \in [1 .. Len(s) -> A]
  BY <1>1
<1>3. f \in Seq(A)
  BY <1>1, <1>2 
<1> QED
  BY <1>1, <1>2, <1>3

-----------------------------------------------------------------------------
(* Where a task stands.                                                    *)

\* A task that is not in the graph yet has no past.
AbsentIsFresh(r, t) ==
  r.task[t].state = "absent" =>
    /\ Of(r, t) = {} /\ r.task[t] = Fresh("absent") /\ r.claim[t] = NoClaim
    /\ r.d1[t] = [state |-> "none", pairs |-> {}]
\* Before a graph is accepted there is no task.
AwaitsGraph(r, t) == r.life = "awaiting-dag" => r.task[t].state = "absent"
\* A cancellation that waits for pairs of the task's actors has frozen it.
CancelHolds(r, t) ==
  /\ r.d1[t].state # "none" => r.task[t].state \in {"blocked", "cancelled"}
  /\ r.d1[t].pairs \subseteq Of(r, t)
  /\ r.d1[t].pairs # {} => r.d1[t].state # "none"
\* The delivery a done task points at was reviewed (DoneIsReviewed of one task).
Reviewed(r, t) ==
  LET d == r.task[t].ref
      asked == {i \in Of(r, t) : r.asg[i].delivery = d}
  IN /\ d # 0 /\ d \in Of(r, t) /\ r.asg[d].attempt = r.task[t].attempts
     /\ r.asg[d].task = t /\ r.asg[d].proof = "done"
     /\ \E i \in asked : r.asg[i].purpose = "reviewer" /\ r.asg[i].agent # r.asg[d].agent
     /\ t \in plan.smoke => \E i \in asked : r.asg[i].purpose = "smoker"
     /\ \A i \in asked : r.asg[i].proof = "pass"
     /\ \A i \in Of(r, t) : r.asg[i].state = "ended"
DoneHolds(r, t) == r.task[t].state = "done" => r.claim[t] = NoClaim /\ Reviewed(r, t)
\* The actors of a cancelled task are out: each in a pair of the cancellation,
\* ended, or withdrawn before it was sent.
CancelledHolds(r, t) ==
  /\ r.task[t].state = "cancelled" =>
       /\ r.task[t].phase = "none" /\ r.claim[t] = NoClaim
       /\ r.d1[t].pairs # {} => r.task[t].released
       /\ \A i \in Of(r, t) :
            /\ r.asg[i].state \in {"ended", "cancelled"} /\ r.asg[i].revoked # "no"
            /\ r.asg[i].dispatch # "prepared" /\ r.asg[i].archive # "prepared"
            /\ \/ i \in r.d1[t].pairs
               \/ r.asg[i].state = "ended"
               \/ r.asg[i].dispatch = "withdrawn"
\* Without a claim no producer of the task is at work or on its way.
ClaimCovers(r, t) ==
  r.claim[t].state = "none" =>
    \A i \in ProducersOf(r, t) :
      \/ r.asg[i].state = "ended"
      \/ r.asg[i].dispatch = "withdrawn"
      \/ r.task[t].state = "cancelled"
ReviewHasRef(r, t) == r.task[t].state \in {"review", "done"} => r.task[t].ref # 0

\* What also holds halfway through a cancellation, when actors are withdrawn and
\* the task is not yet frozen ...
Steady(r, t) ==
  /\ AbsentIsFresh(r, t) /\ AwaitsGraph(r, t) /\ CancelHolds(r, t) /\ DoneHolds(r, t)
  /\ CancelledHolds(r, t) /\ ClaimCovers(r, t) /\ ReviewHasRef(r, t)

\* ... and what holds between events: only a cancelled or frozen task has
\* withdrawn dispatches, and a task at work has a nonce that still counts.
WithdrawnIsFrozen(r, t) ==
  \A i \in Of(r, t) :
    r.asg[i].dispatch = "withdrawn" => r.task[t].state \in {"blocked", "cancelled"}
NonceCounts(r, t) ==
  r.task[t].state \in {"assigned", "in_progress", "review"} =>
    \E i \in Of(r, t) : r.asg[i].revoked = "no" /\ \A j \in Of(r, t) : j <= i
Status(r, t) == Steady(r, t) /\ WithdrawnIsFrozen(r, t) /\ NonceCounts(r, t)

\* Nothing of task t changed from r to s.
SameFor(r, s, t) ==
  /\ s.task[t] = r.task[t] /\ s.claim[t] = r.claim[t] /\ s.d1[t] = r.d1[t]
  /\ Of(s, t) = Of(r, t) /\ \A i \in Of(r, t) : s.asg[i] = r.asg[i]
  /\ s.life = "awaiting-dag" => r.life = "awaiting-dag"

\* What holds of a task halfway through a cancellation holds while nothing of it
\* changes.
LEMMA SteadyStays ==
  ASSUME NEW r, NEW s, NEW t, SameFor(r, s, t), Steady(r, t)
  PROVE  Steady(s, t)
<1>1. /\ s.task[t] = r.task[t] /\ s.claim[t] = r.claim[t] /\ s.d1[t] = r.d1[t]
      /\ Of(s, t) = Of(r, t) /\ \A i \in Of(r, t) : s.asg[i] = r.asg[i]
      /\ s.life = "awaiting-dag" => r.life = "awaiting-dag"
  BY DEF SameFor
<1>2. ProducersOf(s, t) = ProducersOf(r, t) /\ ProducersOf(r, t) \subseteq Of(r, t)
  BY <1>1 DEF ProducersOf
<1>3. AbsentIsFresh(s, t) /\ AwaitsGraph(s, t) /\ CancelHolds(s, t) /\ ReviewHasRef(s, t)
  BY SMTT(40), <1>1 DEF Steady, AbsentIsFresh, AwaitsGraph, CancelHolds, ReviewHasRef
<1>4. DoneHolds(s, t)
  BY <1>1 DEF Steady, DoneHolds, Reviewed
<1>5. CancelledHolds(s, t)
  BY <1>1 DEF Steady, CancelledHolds
<1>6. ClaimCovers(s, t)
  BY <1>1, <1>2 DEF Steady, ClaimCovers
<1> QED
  BY <1>3, <1>4, <1>5, <1>6 DEF Steady

\* Where a task stands stays while nothing of it changes.
LEMMA StatusStays ==
  ASSUME NEW r, NEW s, NEW t, SameFor(r, s, t), Status(r, t)
  PROVE  Status(s, t)
BY SteadyStays DEF Status, WithdrawnIsFrozen, NonceCounts, SameFor

-----------------------------------------------------------------------------
(* The record with one field changed.                                      *)
LEMMA NewAsg ==
  ASSUME NEW r, Typed(r), NEW f, f \in [DOMAIN r.asg -> Assignments],
         \A i \in DOMAIN r.asg : f[i].cancellation <= Len(r.obs)
  PROVE  LET s == [r EXCEPT !.asg = f] IN
         /\ Typed(s) /\ s.asg = f /\ DOMAIN s.asg = DOMAIN r.asg
         /\ s.life = r.life /\ s.revised = r.revised /\ s.deps = r.deps /\ s.task = r.task
         /\ s.claim = r.claim /\ s.d1 = r.d1 /\ s.gates = r.gates /\ s.obs = r.obs
<1>1. r \in Ledgers /\ r.asg \in Seq(Assignments)
  BY DEF Typed, Ledgers
<1>2. f \in Seq(Assignments) /\ Len(f) = Len(r.asg) /\ DOMAIN f = DOMAIN r.asg
  BY <1>1, SeqMapped
<1> QED
  BY <1>1, <1>2 DEF Typed, Ledgers

\* One task, ...
LEMMA NewTask ==
  ASSUME NEW r, Typed(r), NEW t \in Tasks, NEW x \in TaskRecords
  PROVE  LET s == [r EXCEPT !.task[t] = x] IN
         /\ Typed(s) /\ s.task = [r.task EXCEPT ![t] = x] /\ s.task[t] = x
         /\ \A u \in Tasks \ {t} : s.task[u] = r.task[u]
         /\ s.life = r.life /\ s.revised = r.revised /\ s.deps = r.deps /\ s.asg = r.asg
         /\ s.claim = r.claim /\ s.d1 = r.d1 /\ s.gates = r.gates /\ s.obs = r.obs
BY DEF Typed, Ledgers

\* ... one claim ...
LEMMA NewClaim ==
  ASSUME NEW r, Typed(r), NEW t \in Tasks, NEW x \in Claims
  PROVE  LET s == [r EXCEPT !.claim[t] = x] IN
         /\ Typed(s) /\ s.claim[t] = x /\ \A u \in Tasks \ {t} : s.claim[u] = r.claim[u]
         /\ s.life = r.life /\ s.revised = r.revised /\ s.deps = r.deps /\ s.asg = r.asg
         /\ s.task = r.task /\ s.d1 = r.d1 /\ s.gates = r.gates /\ s.obs = r.obs
BY DEF Typed, Ledgers

\* ... or one cancellation replaced.
LEMMA NewCancel ==
  ASSUME NEW r, Typed(r), NEW t \in Tasks, NEW x \in Cancels
  PROVE  LET s == [r EXCEPT !.d1[t] = x] IN
         /\ Typed(s) /\ s.d1[t] = x /\ \A u \in Tasks \ {t} : s.d1[u] = r.d1[u]
         /\ s.life = r.life /\ s.revised = r.revised /\ s.deps = r.deps /\ s.asg = r.asg
         /\ s.task = r.task /\ s.claim = r.claim /\ s.gates = r.gates /\ s.obs = r.obs
BY DEF Typed, Ledgers

\* An assignment whose dispatch is withdrawn.
Withdrawn(a) ==
  [a EXCEPT !.dispatch = "withdrawn",
            !.revoked = IF @ = "no" /\ ~a.accepted THEN "before-send" ELSE @]
\* What withdrawing does to an assignment, field by field.
LEMMA WithdrawnFields ==
  ASSUME NEW a \in Assignments
  PROVE  /\ Withdrawn(a) \in Assignments
         /\ Withdrawn(a).dispatch = "withdrawn"
         /\ a.revoked # "no" => Withdrawn(a).revoked = a.revoked
         /\ \A v \in {"task", "purpose", "agent", "attempt", "delivery", "born", "state", "turn",
                      "proof", "accepted", "archive", "cancellation", "successor"} :
              Withdrawn(a)[v] = a[v]
BY ZenonT(60) DEF Assignments, Withdrawn

\* LocalCancel, field by field.
LEMMA LocalCancelled ==
  ASSUME NEW r, Typed(r), NEW t \in Tasks
  PROVE  LET s == LocalCancel(r, t) IN
    /\ Typed(s)
    /\ s.life = r.life /\ s.revised = r.revised /\ s.deps = r.deps /\ s.task = r.task
    /\ s.d1 = r.d1 /\ s.gates = r.gates /\ s.obs = r.obs
    /\ DOMAIN s.asg = DOMAIN r.asg
    /\ \A u \in Tasks \ {t} : s.claim[u] = r.claim[u]
    /\ \/ s.claim[t] = r.claim[t]
       \/ s.claim[t] = NoClaim /\ \A i \in Of(r, t) : s.asg[i].dispatch = "withdrawn"
    /\ \A i \in DOMAIN r.asg :
         \/ s.asg[i] = r.asg[i]
         \/ /\ r.asg[i].task = t /\ r.asg[i].dispatch = "prepared"
            /\ s.asg[i] = Withdrawn(r.asg[i])
<1> DEFINE
      cut == [i \in DOMAIN r.asg |->
        IF r.asg[i].task = t /\ CanCancelLocally(r, i) THEN Withdrawn(r.asg[i]) ELSE r.asg[i]]
      w == [r EXCEPT !.asg = cut]
      s == LocalCancel(r, t)
<1>1. r \in Ledgers /\ r.asg \in Seq(Assignments)
  BY DEF Typed, Ledgers
<1>2. \A i \in DOMAIN r.asg : r.asg[i] \in Assignments
  BY <1>1
<1>3. \A i \in DOMAIN r.asg : Withdrawn(r.asg[i]) \in Assignments
  BY <1>2, WithdrawnFields
<1>4. cut \in [DOMAIN r.asg -> Assignments]
  BY <1>2, <1>3
<1>5. cut \in Seq(Assignments) /\ Len(cut) = Len(r.asg) /\ DOMAIN cut = DOMAIN r.asg
  BY <1>1, <1>4, SeqMapped
<1>6. \A i \in DOMAIN r.asg :
        \/ cut[i] = r.asg[i]
        \/ /\ r.asg[i].task = t /\ r.asg[i].dispatch = "prepared"
           /\ cut[i] = Withdrawn(r.asg[i])
  BY DEF CanCancelLocally
<1>7. \A i \in DOMAIN r.asg : cut[i].cancellation = r.asg[i].cancellation /\ cut[i].task = r.asg[i].task
  BY <1>2, <1>6, WithdrawnFields
<1>8. s = IF NobodyWasSent(w, t) /\ r.claim[t].origin \in Of(r, t)
          THEN [w EXCEPT !.claim[t] = NoClaim] ELSE w
  BY DEF LocalCancel, Withdrawn
<1> HIDE DEF cut, s
<1>9. w \in Ledgers /\ w.asg = cut /\ [w EXCEPT !.claim[t] = NoClaim] \in Ledgers
  BY <1>1, <1>5 DEF Ledgers, NoClaim, Claims
<1>10. /\ w.life = r.life /\ w.revised = r.revised /\ w.deps = r.deps /\ w.task = r.task
       /\ w.d1 = r.d1 /\ w.gates = r.gates /\ w.obs = r.obs /\ w.claim = r.claim
  BY <1>1 DEF Ledgers
<1>11. NobodyWasSent(w, t) => \A i \in Of(r, t) : cut[i].dispatch = "withdrawn"
  BY <1>5, <1>7, <1>9 DEF NobodyWasSent, LocalNeverSent, Of
<1> HIDE DEF w
<1>12. s = w \/ (s = [w EXCEPT !.claim[t] = NoClaim] /\ NobodyWasSent(w, t))
  BY <1>8
<1>13. /\ s \in Ledgers /\ s.asg = cut
       /\ s.life = r.life /\ s.revised = r.revised /\ s.deps = r.deps /\ s.task = r.task
       /\ s.d1 = r.d1 /\ s.gates = r.gates /\ s.obs = r.obs
       /\ \A u \in Tasks \ {t} : s.claim[u] = r.claim[u]
       /\ s.claim[t] = r.claim[t] \/ (s.claim[t] = NoClaim /\ NobodyWasSent(w, t))
  BY SMTT(40), <1>9, <1>10, <1>12 DEF Ledgers
<1>14. Typed(s)
  BY <1>5, <1>7, <1>13 DEF Typed
<1>15. Typed(LocalCancel(r, t))
  BY <1>14 DEF s
<1> QED
  BY <1>5, <1>6, <1>11, <1>13, <1>14 DEF s

-----------------------------------------------------------------------------
(* What an operation on one task leaves alone.                             *)

\* From r to s only the tasks of S and their actors changed.
Within(r, s, S) ==
  /\ s.life = r.life /\ s.revised = r.revised /\ s.deps = r.deps /\ s.obs = r.obs
  /\ DOMAIN s.asg = DOMAIN r.asg
  /\ \A u \in Tasks \ S : s.task[u] = r.task[u] /\ s.claim[u] = r.claim[u] /\ s.d1[u] = r.d1[u]
  /\ \A i \in DOMAIN r.asg : /\ s.asg[i].task = r.asg[i].task
                             /\ r.asg[i].task \notin S => s.asg[i] = r.asg[i]

\* A record is within itself, ...
LEMMA WithinSame ==
  ASSUME NEW r, NEW s, NEW S, Within(r, s, S), NEW t \in Tasks \ S
  PROVE  SameFor(r, s, t)
BY DEF Within, SameFor, Of

\* ... and two changes within S make one.
LEMMA WithinTwice ==
  ASSUME NEW r, NEW m, NEW s, NEW S, NEW T, NEW U, Within(r, m, S), Within(m, s, T),
         S \subseteq U, T \subseteq U
  PROVE  Within(r, s, U)
BY DEF Within

\* freezeTask: the task is blocked, its claim stays, its pairs are those given.
IsFrozen(r, s, t, pairs) ==
  /\ Typed(s) /\ Within(r, s, {t}) /\ NothingNew(r, s) /\ s.gates = r.gates
  /\ s.task[t].state = "blocked" /\ s.task[t].phase = "frozen"
  /\ s.claim[t].state = "none" <=> r.claim[t].state = "none"
  /\ s.d1[t].state # "none" /\ s.d1[t].pairs = pairs
  /\ \A i \in DOMAIN r.asg : /\ s.asg[i].state = r.asg[i].state
                             /\ s.asg[i].dispatch = r.asg[i].dispatch

\* The claim of a frozen task is frozen, if it had one.
LEMMA ClaimFrozen ==
  ASSUME NEW r, Typed(r), NEW t \in Tasks
  PROVE  LET s == FreezeClaim(r, t) IN
         /\ Typed(s) /\ \A u \in Tasks \ {t} : s.claim[u] = r.claim[u]
         /\ s.claim[t].state = "none" <=> r.claim[t].state = "none"
         /\ s.life = r.life /\ s.revised = r.revised /\ s.deps = r.deps /\ s.asg = r.asg
         /\ s.task = r.task /\ s.d1 = r.d1 /\ s.gates = r.gates /\ s.obs = r.obs
<1> DEFINE c == [r.claim[t] EXCEPT !.state = IF @ = "none" THEN @ ELSE "frozen"]
<1>1. r.claim \in [Tasks -> Claims] /\ r \in Ledgers
  BY Parts DEF Typed
<1>2. c \in Claims /\ (c.state = "none" <=> r.claim[t].state = "none")
  BY <1>1 DEF Claims
<1>3. FreezeClaim(r, t) = [r EXCEPT !.claim[t] = c]
  BY <1>1 DEF FreezeClaim, Ledgers
<1> HIDE DEF c
<1> QED
  BY <1>2, <1>3, NewClaim

\* An assignment whose nonce is revoked.
LEMMA RevokedFields ==
  ASSUME NEW a \in Assignments
  PROVE  LET b == [a EXCEPT !.revoked = "other"] IN
         /\ b \in Assignments /\ GoesOn(a, b) /\ b.state = a.state /\ b.dispatch = a.dispatch
         /\ b.cancellation = a.cancellation /\ b.archive = a.archive /\ b.turn = a.turn
         /\ b.born = a.born /\ b.revoked = "other"
BY DEF Assignments, GoesOn

\* Freeze, field by field.
LEMMA FreezeFacts ==
  ASSUME NEW r, Typed(r), NEW t \in Tasks, NEW pairs \in SUBSET Ids,
         r.task[t].state \notin {"done", "cancelled"}
  PROVE  IsFrozen(r, Freeze(r, t, pairs), t, pairs)
<1> DEFINE
      f == [i \in DOMAIN r.asg |->
              IF r.asg[i].task = t /\ r.asg[i].revoked = "no" /\ ~r.asg[i].accepted
              THEN [r.asg[i] EXCEPT !.revoked = "other"] ELSE r.asg[i]]
      x == [r.task[t] EXCEPT !.state = "blocked", !.phase = "frozen"]
      y == [state |-> IF r.d1[t].state = "none" THEN "open" ELSE r.d1[t].state, pairs |-> pairs]
      a == FreezeClaim(r, t)
      b == [a EXCEPT !.asg = f]
      c == [b EXCEPT !.task[t] = x]
      d == [c EXCEPT !.d1[t] = y]
<1>1. /\ r \in Ledgers /\ r.task[t] \in TaskRecords /\ r.d1[t] \in Cancels
      /\ \A i \in DOMAIN r.asg : r.asg[i] \in Assignments
  BY Parts DEF Typed
<1>2. \A i \in DOMAIN r.asg :
        /\ f[i] \in Assignments /\ GoesOn(r.asg[i], f[i]) /\ f[i].state = r.asg[i].state
        /\ f[i].dispatch = r.asg[i].dispatch /\ f[i].cancellation = r.asg[i].cancellation
        /\ r.asg[i].task # t => f[i] = r.asg[i]
  BY <1>1, RevokedFields DEF GoesOn
<1>3. f \in [DOMAIN r.asg -> Assignments] /\ \A i \in DOMAIN r.asg : f[i].cancellation <= Len(r.obs)
  BY <1>2 DEF Typed
<1>4. /\ x \in TaskRecords /\ x.state = "blocked" /\ x.phase = "frozen" /\ SameCounts(r.task[t], x)
  BY <1>1 DEF TaskRecords, TaskStates, Phases, SameCounts
<1>5. y \in Cancels /\ y.state # "none" /\ y.pairs = pairs
  BY <1>1 DEF Cancels
<1>6. Freeze(r, t, pairs) = d
  <2>1. Typed(a) /\ DOMAIN a.asg = DOMAIN r.asg /\ a.asg = r.asg /\ a.d1 = r.d1 /\ a.task = r.task
        /\ a.obs = r.obs
    BY ClaimFrozen
  <2> HIDE DEF a, f
  <2>2. Typed(b) /\ b.d1 = r.d1 /\ b.task = r.task /\ b \in Ledgers
    BY <1>3, <2>1, NewAsg DEF Typed
  <2> HIDE DEF b
  <2>3. d = [b EXCEPT !.task[t].state = "blocked", !.task[t].phase = "frozen",
               !.d1[t] = [state |-> IF @.state = "none" THEN "open" ELSE @.state,
                          pairs |-> pairs]]
    BY <2>2 DEF Ledgers
  <2>4. b = RevokeOpen(a, t, LAMBDA i : ~r.asg[i].accepted)
    BY <2>1 DEF RevokeOpen, b, f
  <2> QED
    BY <2>3, <2>4 DEF Freeze, a
<1> HIDE DEF f, x, y
<1>7. /\ Typed(a) /\ \A u \in Tasks \ {t} : a.claim[u] = r.claim[u]
      /\ a.claim[t].state = "none" <=> r.claim[t].state = "none"
      /\ a.life = r.life /\ a.revised = r.revised /\ a.deps = r.deps /\ a.asg = r.asg
      /\ a.task = r.task /\ a.d1 = r.d1 /\ a.gates = r.gates /\ a.obs = r.obs
  BY ClaimFrozen
<1> HIDE DEF a
<1>8. /\ Typed(b) /\ b.asg = f /\ DOMAIN b.asg = DOMAIN r.asg
      /\ b.life = r.life /\ b.revised = r.revised /\ b.deps = r.deps /\ b.task = r.task
      /\ b.claim = a.claim /\ b.d1 = r.d1 /\ b.gates = r.gates /\ b.obs = r.obs
  BY <1>3, <1>7, NewAsg
<1> HIDE DEF b
<1>9. /\ Typed(c) /\ c.task[t] = x /\ \A u \in Tasks \ {t} : c.task[u] = r.task[u]
      /\ c.life = r.life /\ c.revised = r.revised /\ c.deps = r.deps /\ c.asg = f
      /\ c.claim = a.claim /\ c.d1 = r.d1 /\ c.gates = r.gates /\ c.obs = r.obs
  BY <1>4, <1>8, NewTask
<1> HIDE DEF c
<1>10. /\ Typed(d) /\ d.d1[t] = y /\ \A u \in Tasks \ {t} : d.d1[u] = r.d1[u]
       /\ d.life = r.life /\ d.revised = r.revised /\ d.deps = r.deps /\ d.asg = f
       /\ d.claim = a.claim /\ d.task = c.task /\ d.gates = r.gates /\ d.obs = r.obs
  BY <1>5, <1>9, NewCancel
<1> HIDE DEF d
<1>11. DOMAIN d.asg = DOMAIN r.asg
  BY <1>8, <1>10
<1>12. Within(r, d, {t})
  BY <1>2, <1>7, <1>9, <1>10, <1>11 DEF Within, GoesOn
<1>13. NothingNew(r, d)
  <2>1. \A u \in Tasks \ {t} : SameCounts(r.task[u], d.task[u])
    BY <1>9, <1>10 DEF SameCounts
  <2> QED
    BY <1>2, <1>4, <1>9, <1>10, <1>11, <2>1 DEF NothingNew
<1>14. IsFrozen(r, d, t, pairs)
  BY <1>2, <1>4, <1>5, <1>7, <1>9, <1>10, <1>12, <1>13 DEF IsFrozen
<1> QED
  BY <1>6, <1>14

\* A task is marked cancelled: its claim goes, its actors that did not end are
\* cancelled and no nonce of theirs counts.
IsCancelled(r, s, t) ==
  /\ Typed(s) /\ Within(r, s, {t}) /\ NothingNew(r, s) /\ s.gates = r.gates
  /\ s.task[t] = [r.task[t] EXCEPT !.state = "cancelled", !.phase = "none"]
  /\ s.claim[t] = NoClaim /\ s.d1 = r.d1
  /\ \A i \in Of(r, t) :
       /\ s.asg[i].state = IF r.asg[i].state = "ended" THEN "ended" ELSE "cancelled"
       /\ s.asg[i].revoked # "no" /\ s.asg[i].dispatch = r.asg[i].dispatch
       /\ s.asg[i].archive = r.asg[i].archive

\* An assignment of a cancelled task.
Revoked(a) == IF a.revoked = "no" THEN [a EXCEPT !.revoked = "other"] ELSE a
Halted(a) == IF a.state # "ended" THEN [a EXCEPT !.state = "cancelled"] ELSE a

\* What cancelling does to an assignment, field by field.
LEMMA HaltedFields ==
  ASSUME NEW a \in Assignments
  PROVE  LET b == Halted(a) IN
         /\ b \in Assignments /\ GoesOn(a, b) /\ b.revoked = a.revoked
         /\ b.state = (IF a.state = "ended" THEN "ended" ELSE "cancelled")
         /\ b.dispatch = a.dispatch /\ b.archive = a.archive /\ b.cancellation = a.cancellation
<1>1. CASE a.state = "ended"
  BY <1>1 DEF GoesOn, Halted
<1>2. CASE a.state # "ended"
  BY <1>2 DEF Assignments, GoesOn, Halted
<1> QED
  BY <1>1, <1>2

\* Cancelling revokes a nonce and halts the actor, and keeps what it reported.
LEMMA DroppedFields ==
  ASSUME NEW a \in Assignments
  PROVE  LET b == Halted(Revoked(a)) IN
         /\ b \in Assignments /\ GoesOn(a, b) /\ b.revoked # "no"
         /\ b.state = (IF a.state = "ended" THEN "ended" ELSE "cancelled")
         /\ b.dispatch = a.dispatch /\ b.archive = a.archive /\ b.cancellation = a.cancellation
<1> DEFINE c == Revoked(a)
<1>1. /\ c \in Assignments /\ GoesOn(a, c) /\ c.revoked # "no" /\ c.state = a.state
      /\ c.dispatch = a.dispatch /\ c.archive = a.archive /\ c.cancellation = a.cancellation
  BY RevokedFields DEF Revoked, GoesOn
<1> HIDE DEF c
<1>2. LET b == Halted(c) IN
         /\ b \in Assignments /\ GoesOn(a, b) /\ b.revoked # "no"
         /\ b.state = (IF a.state = "ended" THEN "ended" ELSE "cancelled")
         /\ b.dispatch = a.dispatch /\ b.archive = a.archive /\ b.cancellation = a.cancellation
  BY <1>1, HaltedFields DEF GoesOn
<1> QED
  BY <1>2 DEF c

\* MarkCancelled, field by field.
LEMMA MarkFacts ==
  ASSUME NEW r, Typed(r), NEW t \in Tasks
  PROVE  IsCancelled(r, MarkCancelled(r, t), t)
<1> DEFINE
      e == [i \in DOMAIN r.asg |->
              IF r.asg[i].task = t /\ r.asg[i].revoked = "no" /\ TRUE
              THEN [r.asg[i] EXCEPT !.revoked = "other"] ELSE r.asg[i]]
      f == [i \in DOMAIN r.asg |-> IF r.asg[i].task = t THEN Halted(Revoked(r.asg[i])) ELSE r.asg[i]]
      x == [r.task[t] EXCEPT !.state = "cancelled", !.phase = "none"]
      a == [r EXCEPT !.asg = f]
      b == [a EXCEPT !.task[t] = x]
      c == [b EXCEPT !.claim[t] = NoClaim]
<1>1. /\ r \in Ledgers /\ r.task[t] \in TaskRecords
      /\ \A i \in DOMAIN r.asg : r.asg[i] \in Assignments
  BY Parts DEF Typed
<1>2. \A i \in DOMAIN r.asg :
        /\ f[i] \in Assignments /\ GoesOn(r.asg[i], f[i]) 
        /\ f[i].cancellation = r.asg[i].cancellation
        /\ r.asg[i].task # t => f[i] = r.asg[i]
        /\ r.asg[i].task = t =>
             /\ f[i].state = IF r.asg[i].state = "ended" THEN "ended" ELSE "cancelled"
             /\ f[i].revoked # "no" /\ f[i].dispatch = r.asg[i].dispatch
             /\ f[i].archive = r.asg[i].archive
  BY <1>1, DroppedFields DEF GoesOn
<1>3. f \in [DOMAIN r.asg -> Assignments] /\ \A i \in DOMAIN r.asg : f[i].cancellation <= Len(r.obs)
  BY <1>2 DEF Typed
<1>4. x \in TaskRecords /\ SameCounts(r.task[t], x)
  BY <1>1 DEF TaskRecords, TaskStates, Phases, SameCounts
<1>5. NoClaim \in Claims
  BY DEF NoClaim, Claims
<1>6. MarkCancelled(r, t) = c
  <2>1. [i \in DOMAIN e |-> IF e[i].task = t /\ e[i].state # "ended"
                            THEN [e[i] EXCEPT !.state = "cancelled"] ELSE e[i]] = f
    <3>1. \A i \in DOMAIN r.asg : r.asg[i].task = t =>
            (IF e[i].task = t /\ e[i].state # "ended"
             THEN [e[i] EXCEPT !.state = "cancelled"] ELSE e[i]) = Halted(Revoked(r.asg[i]))
      <4> SUFFICES ASSUME NEW i \in DOMAIN r.asg, r.asg[i].task = t
                   PROVE  (IF e[i].task = t /\ e[i].state # "ended"
                           THEN [e[i] EXCEPT !.state = "cancelled"] ELSE e[i])
                          = Halted(Revoked(r.asg[i]))
        OBVIOUS
      <4>1. e[i] = Revoked(r.asg[i])
        BY DEF Revoked
      <4>2. Revoked(r.asg[i]).task = t
        BY <1>1, RevokedFields DEF Revoked, GoesOn
      <4> HIDE DEF e
      <4> QED
        BY <4>1, <4>2 DEF Halted
    <3>2. \A i \in DOMAIN r.asg : r.asg[i].task # t => e[i] = r.asg[i]
      OBVIOUS
    <3> HIDE DEF e
    <3>3. DOMAIN e = DOMAIN r.asg
      BY DEF e
    <3> QED
      BY <3>1, <3>2, <3>3
  <2> DEFINE g == [r EXCEPT !.asg = e]
  <2>2. g = RevokeOpen(r, t, LAMBDA i : TRUE)
    BY DEF RevokeOpen
  <2> HIDE DEF e, f
  <2>3. c = [g EXCEPT !.task[t].state = "cancelled", !.task[t].phase = "none",
                !.claim[t] = NoClaim,
                !.asg = [i \in DOMAIN e |-> IF e[i].task = t /\ e[i].state # "ended"
                                    THEN [e[i] EXCEPT !.state = "cancelled"] ELSE e[i]]]
    BY ZenonT(60), <1>1, <2>1 DEF Ledgers
  <2>4. g.asg = e
    BY <1>1 DEF Ledgers
  <2> HIDE DEF g, c
  <2> QED
    BY <2>2, <2>3, <2>4 DEF MarkCancelled
<1> HIDE DEF f, x
<1>7. /\ Typed(a) /\ a.asg = f /\ DOMAIN a.asg = DOMAIN r.asg
      /\ a.life = r.life /\ a.revised = r.revised /\ a.deps = r.deps /\ a.task = r.task
      /\ a.claim = r.claim /\ a.d1 = r.d1 /\ a.gates = r.gates /\ a.obs = r.obs
  BY <1>3, NewAsg
<1> HIDE DEF a
<1>8. /\ Typed(b) /\ b.task[t] = x /\ \A u \in Tasks \ {t} : b.task[u] = r.task[u]
      /\ b.life = r.life /\ b.revised = r.revised /\ b.deps = r.deps /\ b.asg = f
      /\ b.claim = r.claim /\ b.d1 = r.d1 /\ b.gates = r.gates /\ b.obs = r.obs
  BY <1>4, <1>7, NewTask
<1> HIDE DEF b
<1>9. /\ Typed(c) /\ c.claim[t] = NoClaim /\ \A u \in Tasks \ {t} : c.claim[u] = r.claim[u]
      /\ c.life = r.life /\ c.revised = r.revised /\ c.deps = r.deps /\ c.asg = f
      /\ c.d1 = r.d1 /\ c.task = b.task /\ c.gates = r.gates /\ c.obs = r.obs
  BY <1>5, <1>8, NewClaim
<1> HIDE DEF c
<1>10. DOMAIN c.asg = DOMAIN r.asg
  BY <1>7, <1>9
<1>11. Within(r, c, {t})
  BY <1>2, <1>8, <1>9, <1>10 DEF Within, GoesOn
<1>12. NothingNew(r, c)
  <2>1. \A u \in Tasks \ {t} : SameCounts(r.task[u], c.task[u])
    BY <1>8, <1>9 DEF SameCounts
  <2> QED
    BY <1>2, <1>4, <1>8, <1>9, <1>10, <2>1 DEF NothingNew
<1>13. IsCancelled(r, c, t)
  BY <1>2, <1>8, <1>9, <1>11, <1>12 DEF IsCancelled, Of, x
<1> QED
  BY <1>6, <1>13

-----------------------------------------------------------------------------
(* Cancellation.                                                           *)

\* The actors of task t are out, so that it may count as cancelled.
ActorsOut(s, t) ==
  \A i \in Of(s, t) :
    /\ s.asg[i].state \in {"ended", "cancelled"} /\ s.asg[i].revoked # "no"
    /\ s.asg[i].dispatch # "prepared" /\ s.asg[i].archive # "prepared"
    /\ i \in s.d1[t].pairs \/ s.asg[i].state = "ended" \/ s.asg[i].dispatch = "withdrawn"

\* A task whose actors are out stands well as cancelled.
LEMMA CancelledStatus ==
  ASSUME NEW s, NEW t, s.life # "awaiting-dag",
         s.task[t].state = "cancelled", s.task[t].phase = "none", s.claim[t] = NoClaim,
         s.d1[t].pairs \subseteq Of(s, t),
         s.d1[t].pairs # {} => s.task[t].released /\ s.d1[t].state # "none",
         ActorsOut(s, t)
  PROVE  Status(s, t)
BY DEF Status, Steady, AbsentIsFresh, AwaitsGraph, CancelHolds, DoneHolds, CancelledHolds,
       ClaimCovers, ReviewHasRef, WithdrawnIsFrozen, NonceCounts, ActorsOut

\* A frozen task stands well with the pairs it waits for.
LEMMA FrozenStatus ==
  ASSUME NEW r, NEW s, NEW t \in Tasks, NEW pairs, pairs \subseteq Of(r, t),
         IsFrozen(r, s, t, pairs), Steady(r, t),
         r.task[t].state \notin {"absent", "done", "cancelled"}
  PROVE  Status(s, t)
<1>1. /\ s.life = r.life /\ s.task[t].state = "blocked"
      /\ Of(s, t) = Of(r, t) /\ ProducersOf(s, t) = ProducersOf(r, t)
      /\ Of(r, t) \subseteq DOMAIN r.asg /\ ProducersOf(r, t) \subseteq DOMAIN r.asg
  BY DEF IsFrozen, Within, NothingNew, GoesOn, Of, ProducersOf
<1>2. ClaimCovers(s, t)
  BY <1>1 DEF IsFrozen, Steady, ClaimCovers
<1>3. CancelHolds(s, t)
  BY <1>1 DEF IsFrozen, CancelHolds
<1>4. AwaitsGraph(s, t)
  BY <1>1 DEF Steady, AwaitsGraph
<1> QED
  BY <1>1, <1>2, <1>3, <1>4
  DEF Status, Steady, AbsentIsFresh, DoneHolds, CancelledHolds, ReviewHasRef, WithdrawnIsFrozen,
      NonceCounts

\* An operation on task t did its work: nothing else changed, and t stands well.
CancelApplied(r, s, t) ==
  /\ Typed(s) /\ Within(r, s, {t}) /\ NothingNew(r, s) /\ s.gates = r.gates
  /\ Status(s, t) /\ s.task[t].state \in {"blocked", "cancelled"}

\* An archive is prepared for the pairs of the cancellation.
LEMMA ArchivePrepared ==
  ASSUME NEW a \in Assignments
  PROVE  LET b == [a EXCEPT !.archive = "prepared"] IN
         /\ b \in Assignments /\ GoesOn(a, b) /\ b.state = a.state /\ b.dispatch = a.dispatch
         /\ b.cancellation = a.cancellation /\ b.revoked = a.revoked
BY DEF Assignments, GoesOn

\* applyCancellation ends a task that has nothing left, or freezes it with all
\* that is outstanding.
LEMMA ApplyCancelFacts ==
  ASSUME NEW r, Typed(r), NEW t \in Tasks, Steady(r, t),
         r.task[t].state \notin {"absent", "done", "cancelled"}
  PROVE  CancelApplied(r, ApplyCancel(r, t), t)
<1> DEFINE pairs == Outstanding(r, t)
<1>1. pairs \subseteq Of(r, t) /\ Of(r, t) \subseteq DOMAIN r.asg /\ pairs \in SUBSET Ids
  BY Parts DEF Outstanding, Of
<1>2. r.life # "awaiting-dag"
  BY DEF Steady, AwaitsGraph
<1>3. CASE NothingLeft(r, t)
  <2> DEFINE m == MarkCancelled(r, t)
             y == [m.d1[t] EXCEPT !.state = IF @ = "open" /\ r.d1[t].pairs = {}
                                            THEN "superseded" ELSE @]
             s == [m EXCEPT !.d1[t] = y]
  <2>1. IsCancelled(r, m, t)
    BY MarkFacts
  <2> HIDE DEF m
  <2>2. m \in Ledgers /\ Typed(m)
    BY <2>1 DEF IsCancelled, Typed
  <2>3. y \in Cancels /\ y.pairs = r.d1[t].pairs /\ (r.d1[t].state # "none" => y.state # "none")
    BY <2>1, <2>2 DEF IsCancelled, Ledgers, Cancels
  <2>4. ApplyCancel(r, t) = s
    BY <1>3, <2>2 DEF ApplyCancel, m, Ledgers
  <2> HIDE DEF y
  <2>5. /\ Typed(s) /\ s.d1[t] = y /\ \A u \in Tasks \ {t} : s.d1[u] = m.d1[u]
        /\ s.life = m.life /\ s.revised = m.revised /\ s.deps = m.deps /\ s.asg = m.asg
        /\ s.task = m.task /\ s.claim = m.claim /\ s.gates = m.gates /\ s.obs = m.obs
    BY <2>2, <2>3, NewCancel
  <2> HIDE DEF s
  <2>6. Within(r, s, {t}) /\ NothingNew(r, s) /\ s.gates = r.gates
    BY <2>1, <2>5 DEF IsCancelled, Within, NothingNew
  <2>7. Of(s, t) = Of(r, t)
    BY <2>6 DEF Within, Of
  <2>8. /\ \A i \in Of(r, t) : i \notin r.d1[t].pairs /\ ActorSettled(r, i)
        /\ \A i \in Of(r, t) : r.asg[i].dispatch # "prepared" /\ r.asg[i].archive # "prepared"
    BY <1>3 DEF NothingLeft, Outstanding, UnsettledEffects
  <2>9. r.d1[t].pairs = {}
    BY <2>8 DEF Steady, CancelHolds
  <2>10. \A i \in Of(r, t) : r.asg[i].state = "ended" \/ r.asg[i].dispatch = "withdrawn"
    BY <2>8 DEF ActorSettled, NormalEnded, LocalNeverSent, Complete167, Quiescent, Of
  <2>11. ActorsOut(s, t)
    BY <2>1, <2>5, <2>7, <2>8, <2>10 DEF ActorsOut, IsCancelled
  <2>12. /\ s.task[t].state = "cancelled" /\ s.task[t].phase = "none" /\ s.claim[t] = NoClaim
         /\ s.life # "awaiting-dag" /\ s.d1[t].pairs = {}
    <3>1. r.task[t] \in TaskRecords
      BY Parts
    <3>2. s.task[t] = [r.task[t] EXCEPT !.state = "cancelled", !.phase = "none"]
      BY <2>1, <2>5 DEF IsCancelled
    <3>3. s.task[t].state = "cancelled" /\ s.task[t].phase = "none"
      BY <3>1, <3>2 DEF TaskRecords
    <3> QED
      BY <3>3, <1>2, <2>1, <2>3, <2>5, <2>6, <2>9 DEF IsCancelled, Within
  <2>13. Status(s, t)
    BY <2>11, <2>12, CancelledStatus
  <2> QED
    BY <2>4, <2>5, <2>6, <2>12, <2>13 DEF CancelApplied
<1>4. CASE ~NothingLeft(r, t)
  <2> DEFINE f == [i \in DOMAIN r.asg |-> IF i \in pairs /\ r.asg[i].archive = "none"
                     THEN [r.asg[i] EXCEPT !.archive = "prepared"] ELSE r.asg[i]]
             m == [r EXCEPT !.asg = f]
             s == Freeze(m, t, pairs)
  <2>1. \A i \in DOMAIN r.asg :
          /\ f[i] \in Assignments /\ GoesOn(r.asg[i], f[i]) /\ f[i].state = r.asg[i].state
          /\ f[i].dispatch = r.asg[i].dispatch /\ f[i].cancellation = r.asg[i].cancellation
          /\ r.asg[i].task # t => f[i] = r.asg[i]
    BY <1>1, Parts, ArchivePrepared DEF GoesOn, Of
  <2>2. f \in [DOMAIN r.asg -> Assignments] /\ \A i \in DOMAIN r.asg : f[i].cancellation <= Len(r.obs)
    BY <2>1 DEF Typed
  <2>3. ApplyCancel(r, t) = s
    BY <1>4 DEF ApplyCancel
  <2> HIDE DEF f
  <2>4. /\ Typed(m) /\ m.asg = f /\ DOMAIN m.asg = DOMAIN r.asg
        /\ m.life = r.life /\ m.revised = r.revised /\ m.deps = r.deps /\ m.task = r.task
        /\ m.claim = r.claim /\ m.d1 = r.d1 /\ m.gates = r.gates /\ m.obs = r.obs
    BY <2>2, NewAsg
  <2> HIDE DEF m
  <2>5. Within(r, m, {t}) /\ NothingNew(r, m)
    BY <2>1, <2>4 DEF Within, NothingNew, GoesOn, SameCounts
  <2>6. IsFrozen(m, s, t, pairs)
    BY <1>1, <2>4, FreezeFacts
  <2> HIDE DEF s
  <2>7. Of(m, t) = Of(r, t) /\ ProducersOf(m, t) = ProducersOf(r, t)
    BY <2>5 DEF NothingNew, GoesOn, Of, ProducersOf
  <2>8. Steady(m, t)
    BY <1>2, <2>1, <2>4, <2>7
    DEF Steady, AbsentIsFresh, AwaitsGraph, CancelHolds, DoneHolds, CancelledHolds, ClaimCovers,
        ReviewHasRef, ProducersOf, Of
  <2>9. Status(s, t)
    BY <1>1, <2>4, <2>6, <2>7, <2>8, FrozenStatus
  <2>10. Within(r, s, {t}) /\ NothingNew(r, s)
    BY <2>5, <2>6, WithinTwice, NothingNewTwice DEF IsFrozen
  <2> QED
    BY <2>3, <2>4, <2>6, <2>9, <2>10 DEF CancelApplied, IsFrozen
<1> QED
  BY <1>3, <1>4

-----------------------------------------------------------------------------
(* The tasks in order.  Induction over the natural numbers comes from the  *)
(* library's theorem that they are well founded.                           *)
\* A set of natural numbers that is not empty has a least element.
LEMMA LeastElement ==
  ASSUME NEW T, T \subseteq Nat, T # {}
  PROVE  \E x \in T : \A y \in T : ~(y < x)
<1>1. IsWellFoundedOn(OpToRel(<, Nat), Nat)
  BY NatLessThanWellFounded
<1>2. \E x \in T : \A y \in T : ~(<<y, x>> \in OpToRel(<, Nat))
  BY <1>1, WFMin
<1>3. ASSUME NEW x \in Nat, NEW y \in Nat, y < x PROVE <<y, x>> \in OpToRel(<, Nat)
  BY <1>3 DEF OpToRel
<1> QED
  BY <1>2, <1>3

\* A set of natural numbers with 0 and every successor has them all.
LEMMA NatInd ==
  ASSUME NEW T, T \subseteq Nat, 0 \in T, \A n \in T : n + 1 \in T
  PROVE  T = Nat
<1> SUFFICES ASSUME Nat \ T # {} PROVE FALSE
  OBVIOUS
<1>1. PICK x \in Nat \ T : \A y \in Nat \ T : ~(y < x)
  BY LeastElement
<1>2. x # 0 /\ x - 1 \in Nat /\ x - 1 < x /\ (x - 1) + 1 = x
  BY <1>1
<1>3. x - 1 \in T
  BY <1>1, <1>2
<1> QED
  BY <1>1, <1>2, <1>3

\* What holds of 0 and passes from each task to the next holds of the last one.
LEMMA TasksInd ==
  ASSUME NEW T, 0 \in T, \A k \in 1 .. NT : k - 1 \in T => k \in T
  PROVE  NT \in T
<1> DEFINE U == {k \in Nat : k <= NT => k \in T}
<1>1. 0 \in U
  OBVIOUS
<1>2. ASSUME NEW k \in U PROVE k + 1 \in U
  <2>1. CASE k + 1 <= NT
    <3>1. k \in T /\ k + 1 \in 1 .. NT /\ (k + 1) - 1 = k
      BY <2>1, BoundsAssumption
    <3> QED
      BY <3>1
  <2>2. CASE ~(k + 1 <= NT)
    BY <2>2
  <2> QED
    BY <2>1, <2>2
<1> HIDE DEF U
<1>3. U \subseteq Nat
  BY DEF U
<1>4. U = Nat
  BY <1>1, <1>2, <1>3, NatInd
<1> QED
  BY <1>4, BoundsAssumption DEF U

\* The tasks of S in order, each through one step of the engine.
Localised(r, S) == InOrder(r, S, LocalCancel)
Applied(r, S) == InOrder(r, S, ApplyCancel)
Reworked(r, S) == InOrder(r, S, AdvanceRework)
Readied(r, S) == InOrder(r, S, RecomputeReady)
Refrozen(r, S) == InOrder(r, S, LAMBDA q, t : Freeze(q, t, q.d1[t].pairs))

\* The tasks of S in order, each through LocalCancel.
LEMMA LocalInOrder ==
  ASSUME NEW r, NEW S
  PROVE  \E g : /\ g[0] = r
                /\ \A k \in 1 .. NT : g[k] = IF k \in S THEN LocalCancel(g[k - 1], k) ELSE g[k - 1]
                /\ Localised(r, S) = g[NT]
<1> DEFINE
      Turn(q, k) == IF k \in S THEN LocalCancel(q, k) ELSE q
      Solves(g, n) == g = [k \in 0 .. n |-> IF k = 0 THEN r ELSE Turn(g[k - 1], k)]
      F == CHOOSE g : Solves(g, NT)
<1>1. Localised(r, S) = F[NT]
  BY DEF Localised, InOrder
<1> HIDE DEF Turn
<1>2. \E g : Solves(g, NT)
  <2> DEFINE T == {k \in Nat : \E g : Solves(g, k)}
  <2>1. 0 \in T
    <3>1. Solves([k \in 0 .. 0 |-> r], 0)
      OBVIOUS
    <3> QED
      BY <3>1
  <2>2. ASSUME NEW n \in T PROVE n + 1 \in T
    <3>1. PICK g : Solves(g, n)
      OBVIOUS
    <3> DEFINE h == [k \in 0 .. (n + 1) |-> IF k = n + 1 THEN Turn(g[n], k) ELSE g[k]]
    <3>2. Solves(h, n + 1)
      BY <3>1
    <3> HIDE DEF h, Solves
    <3> QED
      BY <3>2
  <2> HIDE DEF T
  <2>3. T \subseteq Nat
    BY DEF T
  <2>4. T = Nat
    BY <2>1, <2>2, <2>3, NatInd
  <2> QED
    BY <2>4, BoundsAssumption DEF T
<1>3. Solves(F, NT)
  <2> HIDE DEF Solves
  <2> QED
    BY <1>2
<1> HIDE DEF F
<1>4. F[0] = r /\ \A k \in 1 .. NT : F[k] = Turn(F[k - 1], k)
  BY <1>3, BoundsAssumption
<1> HIDE DEF Solves
<1> QED
  BY <1>1, <1>4 DEF Turn

\* The tasks of S in order, each through ApplyCancel.
LEMMA ApplyInOrder ==
  ASSUME NEW r, NEW S
  PROVE  \E g : /\ g[0] = r
                /\ \A k \in 1 .. NT : g[k] = IF k \in S THEN ApplyCancel(g[k - 1], k) ELSE g[k - 1]
                /\ Applied(r, S) = g[NT]
<1> DEFINE
      Turn(q, k) == IF k \in S THEN ApplyCancel(q, k) ELSE q
      Solves(g, n) == g = [k \in 0 .. n |-> IF k = 0 THEN r ELSE Turn(g[k - 1], k)]
      F == CHOOSE g : Solves(g, NT)
<1>1. Applied(r, S) = F[NT]
  BY DEF Applied, InOrder
<1> HIDE DEF Turn
<1>2. \E g : Solves(g, NT)
  <2> DEFINE T == {k \in Nat : \E g : Solves(g, k)}
  <2>1. 0 \in T
    <3>1. Solves([k \in 0 .. 0 |-> r], 0)
      OBVIOUS
    <3> QED
      BY <3>1
  <2>2. ASSUME NEW n \in T PROVE n + 1 \in T
    <3>1. PICK g : Solves(g, n)
      OBVIOUS
    <3> DEFINE h == [k \in 0 .. (n + 1) |-> IF k = n + 1 THEN Turn(g[n], k) ELSE g[k]]
    <3>2. Solves(h, n + 1)
      BY <3>1
    <3> HIDE DEF h, Solves
    <3> QED
      BY <3>2
  <2> HIDE DEF T
  <2>3. T \subseteq Nat
    BY DEF T
  <2>4. T = Nat
    BY <2>1, <2>2, <2>3, NatInd
  <2> QED
    BY <2>4, BoundsAssumption DEF T
<1>3. Solves(F, NT)
  <2> HIDE DEF Solves
  <2> QED
    BY <1>2
<1> HIDE DEF F
<1>4. F[0] = r /\ \A k \in 1 .. NT : F[k] = Turn(F[k - 1], k)
  BY <1>3, BoundsAssumption
<1> HIDE DEF Solves
<1> QED
  BY <1>1, <1>4 DEF Turn

\* The tasks of S in order, each through AdvanceRework.
LEMMA ReworkInOrder ==
  ASSUME NEW r, NEW S
  PROVE  \E g : /\ g[0] = r
                /\ \A k \in 1 .. NT : g[k] = IF k \in S THEN AdvanceRework(g[k - 1], k) ELSE g[k - 1]
                /\ Reworked(r, S) = g[NT]
<1> DEFINE
      Turn(q, k) == IF k \in S THEN AdvanceRework(q, k) ELSE q
      Solves(g, n) == g = [k \in 0 .. n |-> IF k = 0 THEN r ELSE Turn(g[k - 1], k)]
      F == CHOOSE g : Solves(g, NT)
<1>1. Reworked(r, S) = F[NT]
  BY DEF Reworked, InOrder
<1> HIDE DEF Turn
<1>2. \E g : Solves(g, NT)
  <2> DEFINE T == {k \in Nat : \E g : Solves(g, k)}
  <2>1. 0 \in T
    <3>1. Solves([k \in 0 .. 0 |-> r], 0)
      OBVIOUS
    <3> QED
      BY <3>1
  <2>2. ASSUME NEW n \in T PROVE n + 1 \in T
    <3>1. PICK g : Solves(g, n)
      OBVIOUS
    <3> DEFINE h == [k \in 0 .. (n + 1) |-> IF k = n + 1 THEN Turn(g[n], k) ELSE g[k]]
    <3>2. Solves(h, n + 1)
      BY <3>1
    <3> HIDE DEF h, Solves
    <3> QED
      BY <3>2
  <2> HIDE DEF T
  <2>3. T \subseteq Nat
    BY DEF T
  <2>4. T = Nat
    BY <2>1, <2>2, <2>3, NatInd
  <2> QED
    BY <2>4, BoundsAssumption DEF T
<1>3. Solves(F, NT)
  <2> HIDE DEF Solves
  <2> QED
    BY <1>2
<1> HIDE DEF F
<1>4. F[0] = r /\ \A k \in 1 .. NT : F[k] = Turn(F[k - 1], k)
  BY <1>3, BoundsAssumption
<1> HIDE DEF Solves
<1> QED
  BY <1>1, <1>4 DEF Turn

\* The tasks of S in order, each through RecomputeReady.
LEMMA ReadyInOrder ==
  ASSUME NEW r, NEW S
  PROVE  \E g : /\ g[0] = r
                /\ \A k \in 1 .. NT : g[k] = IF k \in S THEN RecomputeReady(g[k - 1], k) ELSE g[k - 1]
                /\ Readied(r, S) = g[NT]
<1> DEFINE
      Turn(q, k) == IF k \in S THEN RecomputeReady(q, k) ELSE q
      Solves(g, n) == g = [k \in 0 .. n |-> IF k = 0 THEN r ELSE Turn(g[k - 1], k)]
      F == CHOOSE g : Solves(g, NT)
<1>1. Readied(r, S) = F[NT]
  BY DEF Readied, InOrder
<1> HIDE DEF Turn
<1>2. \E g : Solves(g, NT)
  <2> DEFINE T == {k \in Nat : \E g : Solves(g, k)}
  <2>1. 0 \in T
    <3>1. Solves([k \in 0 .. 0 |-> r], 0)
      OBVIOUS
    <3> QED
      BY <3>1
  <2>2. ASSUME NEW n \in T PROVE n + 1 \in T
    <3>1. PICK g : Solves(g, n)
      OBVIOUS
    <3> DEFINE h == [k \in 0 .. (n + 1) |-> IF k = n + 1 THEN Turn(g[n], k) ELSE g[k]]
    <3>2. Solves(h, n + 1)
      BY <3>1
    <3> HIDE DEF h, Solves
    <3> QED
      BY <3>2
  <2> HIDE DEF T
  <2>3. T \subseteq Nat
    BY DEF T
  <2>4. T = Nat
    BY <2>1, <2>2, <2>3, NatInd
  <2> QED
    BY <2>4, BoundsAssumption DEF T
<1>3. Solves(F, NT)
  <2> HIDE DEF Solves
  <2> QED
    BY <1>2
<1> HIDE DEF F
<1>4. F[0] = r /\ \A k \in 1 .. NT : F[k] = Turn(F[k - 1], k)
  BY <1>3, BoundsAssumption
<1> HIDE DEF Solves
<1> QED
  BY <1>1, <1>4 DEF Turn

\* The tasks of S in order, each frozen with the pairs it has.
LEMMA FreezeInOrder ==
  ASSUME NEW r, NEW S
  PROVE  \E g : /\ g[0] = r
                /\ \A k \in 1 .. NT : g[k] = IF k \in S THEN Freeze(g[k - 1], k, g[k - 1].d1[k].pairs) ELSE g[k - 1]
                /\ Refrozen(r, S) = g[NT]
<1> DEFINE
      Turn(q, k) == IF k \in S THEN Freeze(q, k, q.d1[k].pairs) ELSE q
      Solves(g, n) == g = [k \in 0 .. n |-> IF k = 0 THEN r ELSE Turn(g[k - 1], k)]
      F == CHOOSE g : Solves(g, NT)
<1>1. Refrozen(r, S) = F[NT]
  BY DEF Refrozen, InOrder
<1> HIDE DEF Turn
<1>2. \E g : Solves(g, NT)
  <2> DEFINE T == {k \in Nat : \E g : Solves(g, k)}
  <2>1. 0 \in T
    <3>1. Solves([k \in 0 .. 0 |-> r], 0)
      OBVIOUS
    <3> QED
      BY <3>1
  <2>2. ASSUME NEW n \in T PROVE n + 1 \in T
    <3>1. PICK g : Solves(g, n)
      OBVIOUS
    <3> DEFINE h == [k \in 0 .. (n + 1) |-> IF k = n + 1 THEN Turn(g[n], k) ELSE g[k]]
    <3>2. Solves(h, n + 1)
      BY <3>1
    <3> HIDE DEF h, Solves
    <3> QED
      BY <3>2
  <2> HIDE DEF T
  <2>3. T \subseteq Nat
    BY DEF T
  <2>4. T = Nat
    BY <2>1, <2>2, <2>3, NatInd
  <2> QED
    BY <2>4, BoundsAssumption DEF T
<1>3. Solves(F, NT)
  <2> HIDE DEF Solves
  <2> QED
    BY <1>2
<1> HIDE DEF F
<1>4. F[0] = r /\ \A k \in 1 .. NT : F[k] = Turn(F[k - 1], k)
  BY <1>3, BoundsAssumption
<1> HIDE DEF Solves
<1> QED
  BY <1>1, <1>4 DEF Turn

-----------------------------------------------------------------------------
(* Cancelling several tasks at once.                                       *)

\* Withdrawing what was not sent keeps what is steady of a task.
LEMMA LocalCancelFacts ==
  ASSUME NEW r, Typed(r), NEW t \in Tasks, Steady(r, t),
         r.task[t].state \notin {"absent", "done", "cancelled"}
  PROVE  LET s == LocalCancel(r, t) IN
         /\ Typed(s) /\ Within(r, s, {t}) /\ NothingNew(r, s)
         /\ s.task = r.task /\ s.d1 = r.d1 /\ Steady(s, t)
<1> DEFINE s == LocalCancel(r, t)
<1>1. /\ Typed(s)
      /\ s.life = r.life /\ s.revised = r.revised /\ s.deps = r.deps /\ s.task = r.task
      /\ s.d1 = r.d1 /\ s.gates = r.gates /\ s.obs = r.obs
      /\ DOMAIN s.asg = DOMAIN r.asg
      /\ \A u \in Tasks \ {t} : s.claim[u] = r.claim[u]
      /\ \/ s.claim[t] = r.claim[t]
         \/ s.claim[t] = NoClaim /\ \A i \in Of(r, t) : s.asg[i].dispatch = "withdrawn"
      /\ \A i \in DOMAIN r.asg :
           \/ s.asg[i] = r.asg[i]
           \/ /\ r.asg[i].task = t /\ r.asg[i].dispatch = "prepared"
              /\ s.asg[i] = Withdrawn(r.asg[i])
  BY LocalCancelled
<1> HIDE DEF s
<1>2. \A i \in DOMAIN r.asg :
        /\ GoesOn(r.asg[i], s.asg[i]) /\ s.asg[i].state = r.asg[i].state
        /\ r.asg[i].task # t => s.asg[i] = r.asg[i]
  <2> SUFFICES ASSUME NEW i \in DOMAIN r.asg
               PROVE  /\ GoesOn(r.asg[i], s.asg[i]) /\ s.asg[i].state = r.asg[i].state
                      /\ r.asg[i].task # t => s.asg[i] = r.asg[i]
    OBVIOUS
  <2>1. r.asg[i] \in Assignments
    BY Parts
  <2>2. CASE s.asg[i] = r.asg[i]
    BY <2>2 DEF GoesOn
  <2>3. CASE r.asg[i].task = t /\ r.asg[i].dispatch = "prepared" /\ s.asg[i] = Withdrawn(r.asg[i])
    BY <2>1, <2>3, WithdrawnFields DEF GoesOn
  <2> QED
    BY <1>1, <2>2, <2>3
<1>3. Within(r, s, {t}) /\ NothingNew(r, s)
  BY <1>1, <1>2 DEF Within, NothingNew, GoesOn, SameCounts
<1>4. Of(s, t) = Of(r, t) /\ ProducersOf(s, t) = ProducersOf(r, t) /\ Of(r, t) \subseteq DOMAIN r.asg
  BY <1>1, <1>2 DEF Of, ProducersOf, GoesOn
<1>5. ClaimCovers(s, t)
  <2> SUFFICES ASSUME s.claim[t].state = "none", NEW i \in ProducersOf(r, t)
               PROVE  \/ s.asg[i].state = "ended" \/ s.asg[i].dispatch = "withdrawn"
                      \/ s.task[t].state = "cancelled"
    BY <1>4 DEF ClaimCovers
  <2>1. i \in Of(r, t) /\ i \in DOMAIN r.asg
    BY <1>4 DEF ProducersOf
  <2>2. CASE s.claim[t] = r.claim[t]
    BY <1>1, <1>2, <2>1, <2>2 DEF Steady, ClaimCovers, GoesOn
  <2> QED
    BY <1>1, <2>1, <2>2
<1>6. Steady(s, t)
  BY <1>1, <1>4, <1>5 DEF Steady, AbsentIsFresh, AwaitsGraph, CancelHolds, DoneHolds,
                          CancelledHolds, ReviewHasRef
<1> QED
  BY <1>1, <1>3, <1>6 DEF s

\* The same for the tasks of S in order.
LEMMA LocalCancelAll ==
  ASSUME NEW r, Typed(r), NEW S \in SUBSET Tasks, \A t \in Tasks : Steady(r, t),
         \A t \in S : r.task[t].state \notin {"absent", "done", "cancelled"}
  PROVE  LET s == Localised(r, S) IN
         /\ Typed(s) /\ Within(r, s, S) /\ NothingNew(r, s)
         /\ s.task = r.task /\ s.d1 = r.d1 /\ \A t \in Tasks : Steady(s, t)
<1> DEFINE P(s) == /\ Typed(s) /\ Within(r, s, S) /\ NothingNew(r, s)
                   /\ s.task = r.task /\ s.d1 = r.d1 /\ \A t \in Tasks : Steady(s, t)
<1>1. PICK g : /\ g[0] = r
               /\ \A k \in 1 .. NT : g[k] = IF k \in S THEN LocalCancel(g[k - 1], k) ELSE g[k - 1]
               /\ Localised(r, S) = g[NT]
  BY LocalInOrder
<1> DEFINE T == {k \in 0 .. NT : P(g[k])}
<1>2. 0 \in T
  <2>1. Within(r, r, S) /\ NothingNew(r, r)
    BY DEF Within, NothingNew, GoesOn, SameCounts
  <2> QED
    BY <1>1, <2>1, BoundsAssumption
<1>3. ASSUME NEW k \in 1 .. NT, k - 1 \in T PROVE k \in T
  <2> DEFINE q == g[k - 1]
  <2>1. P(q) /\ k \in Tasks
    BY <1>3 DEF Tasks
  <2>2. CASE k \in S
    <3> DEFINE s == LocalCancel(q, k)
    <3>1. g[k] = s
      BY <1>1, <2>2
    <3>2. /\ Typed(s) /\ Within(q, s, {k}) /\ NothingNew(q, s)
          /\ s.task = q.task /\ s.d1 = q.d1 /\ Steady(s, k)
      BY <2>1, <2>2, LocalCancelFacts
    <3> HIDE DEF s, q
    <3>3. Within(r, s, S)
      BY <2>1, <2>2, <3>2, WithinTwice
    <3>4. NothingNew(r, s)
      BY <2>1, <3>2, NothingNewTwice
    <3>5. \A t \in Tasks \ {k} : Steady(s, t)
      BY <2>1, <3>2, WithinSame, SteadyStays
    <3>6. P(s)
      BY <2>1, <3>2, <3>3, <3>4, <3>5
    <3> QED
      BY <3>1, <3>6
  <2>3. CASE k \notin S
    <3>1. g[k] = q
      BY <1>1, <2>3
    <3>2. P(g[k])
      BY <2>1, <3>1
    <3> HIDE DEF P
    <3> QED
      BY <3>2
  <2> QED
    BY <2>2, <2>3
<1> HIDE DEF T
<1>4. NT \in T
  BY <1>2, <1>3, TasksInd
<1> QED
  BY <1>1, <1>4 DEF T

\* After that the tasks of S in order are ended or frozen.
LEMMA ApplyCancelAll ==
  ASSUME NEW r, Typed(r), NEW S \in SUBSET Tasks, \A t \in Tasks : Steady(r, t),
         \A t \in S : r.task[t].state \notin {"absent", "done", "cancelled"}
  PROVE  LET s == Applied(r, S) IN
         /\ Typed(s) /\ Within(r, s, S) /\ NothingNew(r, s)
         /\ \A t \in S : Status(s, t) /\ s.task[t].state \in {"blocked", "cancelled"}
<1> DEFINE P(s, k) ==
      /\ Typed(s) /\ Within(r, s, S \cap (1 .. k)) /\ NothingNew(r, s)
      /\ \A t \in Tasks : Steady(s, t)
      /\ \A t \in S \cap (1 .. k) : Status(s, t) /\ s.task[t].state \in {"blocked", "cancelled"}
<1>1. PICK g : /\ g[0] = r
               /\ \A k \in 1 .. NT : g[k] = IF k \in S THEN ApplyCancel(g[k - 1], k) ELSE g[k - 1]
               /\ Applied(r, S) = g[NT]
  BY ApplyInOrder
<1> DEFINE T == {k \in 0 .. NT : P(g[k], k)}
<1>2. 0 \in T
  <2>1. Within(r, r, S \cap (1 .. 0)) /\ NothingNew(r, r)
    BY DEF Within, NothingNew, GoesOn, SameCounts
  <2>2. S \cap (1 .. 0) = {}
    OBVIOUS
  <2> QED
    BY <1>1, <2>1, <2>2, BoundsAssumption
<1>3. ASSUME NEW k \in 1 .. NT, k - 1 \in T PROVE k \in T
  <2> DEFINE q == g[k - 1]
  <2>1. P(q, k - 1) /\ k \in Tasks /\ k \in Nat
    BY <1>3 DEF Tasks
  <2>2. CASE k \in S
    <3> DEFINE s == ApplyCancel(q, k)
    <3>1. g[k] = s
      BY <1>1, <2>2
    <3>2. k \notin S \cap (1 .. (k - 1)) /\ S \cap (1 .. k) = (S \cap (1 .. (k - 1))) \cup {k}
      BY <2>1, <2>2
    <3>3. q.task[k] = r.task[k]
      BY <2>1, <3>2 DEF Within
    <3>4. CancelApplied(q, s, k)
      BY <2>1, <2>2, <3>3, ApplyCancelFacts
    <3> HIDE DEF s, q
    <3>5. Within(r, s, S \cap (1 .. k))
      BY <2>1, <3>2, <3>4, WithinTwice DEF CancelApplied
    <3>6. NothingNew(r, s)
      BY <2>1, <3>4, NothingNewTwice DEF CancelApplied
    <3>7. \A t \in Tasks \ {k} : SameFor(q, s, t)
      BY <3>4, WithinSame DEF CancelApplied
    <3>8. \A t \in Tasks : Steady(s, t)
      BY <2>1, <3>4, <3>7, SteadyStays DEF CancelApplied, Status
    <3>9. \A t \in S \cap (1 .. k) : Status(s, t) /\ s.task[t].state \in {"blocked", "cancelled"}
      <4>1. \A t \in S \cap (1 .. (k - 1)) : t \in Tasks \ {k}
        BY <2>1
      <4>2. \A t \in S \cap (1 .. (k - 1)) : Status(s, t) /\ s.task[t].state \in {"blocked", "cancelled"}
        BY <2>1, <3>7, <4>1, StatusStays DEF SameFor
      <4> QED
        BY <3>2, <3>4, <4>2 DEF CancelApplied
    <3>10. P(s, k)
      BY <3>4, <3>5, <3>6, <3>8, <3>9 DEF CancelApplied
    <3> QED
      BY <3>1, <3>10
  <2>3. CASE k \notin S
    <3>0. 1 .. k = (1 .. (k - 1)) \cup {k}
      OBVIOUS
    <3>1. S \cap (1 .. k) = S \cap (1 .. (k - 1)) /\ g[k] = q
      BY <1>1, <2>3, <3>0
    <3>2. P(g[k], k)
      BY <2>1, <3>1
    <3> HIDE DEF P
    <3> QED
      BY <3>2
  <2> QED
    BY <2>2, <2>3
<1> HIDE DEF T
<1>4. NT \in T
  BY <1>2, <1>3, TasksInd
<1>5. S \cap (1 .. NT) = S
  BY DEF Tasks
<1> QED
  BY <1>1, <1>4, <1>5 DEF T

-----------------------------------------------------------------------------
(* What every accepted event ends with.                                    *)

\* There are finitely many tasks.
LEMMA TasksFinite == IsFiniteSet(Tasks) /\ \A S \in SUBSET Tasks : IsFiniteSet(S)
<1>1. IsFiniteSet(Tasks)
  BY BoundsAssumption, FS_Interval DEF Tasks
<1> QED
  BY <1>1, FS_Subset

Executing == {"assigned", "in_progress", "rework"}

\* No more tasks execute when none begins to.
LEMMA CapacityStays ==
  ASSUME NEW r, NEW s, CapacityHolds(r), plan \in Plans,
         \A t \in Tasks : s.task[t].state \in Executing => r.task[t].state \in Executing
  PROVE  CapacityHolds(s)
<1> DEFINE A == {t \in Tasks : r.task[t].state \in Executing}
           B == {t \in Tasks : s.task[t].state \in Executing}
<1>1. B \in SUBSET A /\ A \in SUBSET Tasks
  OBVIOUS
<1>2. IsFiniteSet(A) /\ IsFiniteSet(B)
  BY <1>1, TasksFinite
<1>3. Cardinality(B) <= Cardinality(A) /\ Cardinality(A) \in Nat /\ Cardinality(B) \in Nat
  BY <1>1, <1>2, FS_Subset, FS_CardinalityType
<1>4. plan.concurrency \in Nat
  BY PlansAssumption DEF WellFormedPolicy
<1> QED
  BY <1>3, <1>4 DEF CapacityHolds, Executing

\* Nor when one begins to that has a slot, counted without itself.
LEMMA SlotIsEnough ==
  ASSUME NEW r, NEW s, NEW t \in Tasks, plan \in Plans, SlotFree(r, Tasks \ {t}),
         \A u \in Tasks \ {t} : s.task[u].state \in Executing => r.task[u].state \in Executing
  PROVE  CapacityHolds(s)
<1> DEFINE A == {u \in Tasks \ {t} : OccupiesSlot(r, u)}
           B == {u \in Tasks : s.task[u].state \in Executing}
<1>1. B \in SUBSET (A \cup {t})
  BY DEF OccupiesSlot, Executing
<1>2. A \in SUBSET Tasks
  OBVIOUS
<1>3. IsFiniteSet(A) /\ Cardinality(A) \in Nat
  BY <1>2, TasksFinite, FS_CardinalityType
<1>4. IsFiniteSet(A \cup {t}) /\ Cardinality(A \cup {t}) <= Cardinality(A) + 1
      /\ Cardinality(A \cup {t}) \in Nat
  <2> HIDE DEF A
  <2>1. /\ IsFiniteSet(A \cup {t})
        /\ Cardinality(A \cup {t}) = IF t \in A THEN Cardinality(A) ELSE Cardinality(A) + 1
    BY <1>3, FS_AddElement
  <2> QED
    BY <1>3, <2>1
<1>5. Cardinality(B) <= Cardinality(A \cup {t}) /\ Cardinality(B) \in Nat
  <2> HIDE DEF A, B
  <2> QED
    BY <1>1, <1>4, FS_Subset, FS_CardinalityType
<1>6. Cardinality(A) < plan.concurrency
  BY DEF SlotFree
<1>7. plan.concurrency \in Nat
  BY PlansAssumption DEF WellFormedPolicy
<1>8. Cardinality(B) <= plan.concurrency
  <2> HIDE DEF A, B
  <2> QED
    BY <1>3, <1>4, <1>5, <1>6, <1>7
<1> QED
  BY <1>8 DEF CapacityHolds, Executing

\* A slot counted with the task itself is a slot counted without it.
LEMMA SlotWithout ==
  ASSUME NEW r, NEW t \in Tasks, plan \in Plans, SlotFree(r, Tasks)
  PROVE  SlotFree(r, Tasks \ {t})
<1> DEFINE A == {u \in Tasks : OccupiesSlot(r, u)}
           B == {u \in Tasks \ {t} : OccupiesSlot(r, u)}
<1>1. B \in SUBSET A /\ A \in SUBSET Tasks
  OBVIOUS
<1>2. Cardinality(B) <= Cardinality(A) /\ Cardinality(A) \in Nat /\ Cardinality(B) \in Nat
  BY <1>1, TasksFinite, FS_Subset, FS_CardinalityType
<1>3. plan.concurrency \in Nat
  BY PlansAssumption DEF WellFormedPolicy
<1> QED
  BY <1>2, <1>3 DEF SlotFree

\* From r to s some tasks in review went back to rework and some became ready.
MovesOn(a, b) ==
  \/ b = a
  \/ a.state = "review" /\ b = [a EXCEPT !.state = "rework", !.phase = "none"]
  \/ a.state = "pending" /\ b = [a EXCEPT !.state = "ready"]
OnlyMoves(r, s) ==
  /\ s.life = r.life /\ s.revised = r.revised /\ s.deps = r.deps /\ s.asg = r.asg
  /\ s.claim = r.claim /\ s.d1 = r.d1 /\ s.gates = r.gates /\ s.obs = r.obs
  /\ \A t \in Tasks : MovesOn(r.task[t], s.task[t])

\* Two moves of tasks make one.
LEMMA MovesTwice ==
  ASSUME NEW r, NEW m, NEW s, Typed(r), OnlyMoves(r, m), OnlyMoves(m, s)
  PROVE  OnlyMoves(r, s)
<1>1. \A t \in Tasks : MovesOn(r.task[t], s.task[t])
  <2> SUFFICES ASSUME NEW t \in Tasks PROVE MovesOn(r.task[t], s.task[t])
    OBVIOUS
  <2>1. r.task[t] \in TaskRecords
    BY Parts
  <2>2. MovesOn(r.task[t], m.task[t]) /\ MovesOn(m.task[t], s.task[t])
    BY DEF OnlyMoves
  <2> QED
    BY <2>1, <2>2 DEF MovesOn, TaskRecords
<1> QED
  BY <1>1 DEF OnlyMoves

\* A task that becomes executing took a slot that was free.
LEMMA AdvanceFacts ==
  ASSUME NEW r, Typed(r), NEW t \in Tasks, plan \in Plans, CapacityHolds(r)
  PROVE  LET s == AdvanceRework(r, t) IN
         Typed(s) /\ OnlyMoves(r, s) /\ CapacityHolds(s)
<1> DEFINE s == AdvanceRework(r, t)
           x == [r.task[t] EXCEPT !.state = "rework", !.phase = "none"]
<1>1. r.task[t] \in TaskRecords /\ r \in Ledgers
  BY Parts DEF Typed
<1>2. CASE /\ r.task[t].state = "review" /\ r.task[t].phase = "awaiting-rework"
           /\ ~CancelPending(r, t)
           /\ \A i \in Of(r, t) : NormalEnded(r, i)
           /\ SlotFree(r, Tasks \ {t})
  <2>1. x \in TaskRecords
    BY <1>1 DEF TaskRecords, TaskStates, Phases
  <2>2. s = [r EXCEPT !.task[t] = x]
    BY <1>1, <1>2 DEF AdvanceRework, Ledgers
  <2> HIDE DEF s
  <2>3. /\ Typed(s) /\ s.task[t] = x /\ \A u \in Tasks \ {t} : s.task[u] = r.task[u]
        /\ s.life = r.life /\ s.revised = r.revised /\ s.deps = r.deps /\ s.asg = r.asg
        /\ s.claim = r.claim /\ s.d1 = r.d1 /\ s.gates = r.gates /\ s.obs = r.obs
    BY <2>1, <2>2, NewTask
  <2>4. OnlyMoves(r, s)
    BY <1>2, <2>3 DEF OnlyMoves, MovesOn
  <2>5. CapacityHolds(s)
    BY <1>2, <2>3, SlotIsEnough
  <2> QED
    BY <2>3, <2>4, <2>5 DEF s
<1>3. CASE s = r
  BY <1>3 DEF OnlyMoves, MovesOn
<1> QED
  BY <1>2, <1>3 DEF AdvanceRework

\* RecomputeReady moves at most the task it looks at.
LEMMA ReadyFacts ==
  ASSUME NEW r, Typed(r), NEW t \in Tasks, plan \in Plans, CapacityHolds(r)
  PROVE  LET s == RecomputeReady(r, t) IN
         Typed(s) /\ OnlyMoves(r, s) /\ CapacityHolds(s)
<1> DEFINE s == RecomputeReady(r, t)
           x == [r.task[t] EXCEPT !.state = "ready"]
<1>1. r.task[t] \in TaskRecords /\ r \in Ledgers
  BY Parts DEF Typed
<1>2. CASE r.task[t].state = "pending" /\ \A d \in r.deps[t] : r.task[d].state = "done"
  <2>1. x \in TaskRecords /\ x.state = "ready"
    BY <1>1 DEF TaskRecords, TaskStates, Phases
  <2>2. s = [r EXCEPT !.task[t] = x]
    BY <1>1, <1>2 DEF RecomputeReady, Ledgers
  <2> HIDE DEF s
  <2>3. /\ Typed(s) /\ s.task[t] = x /\ \A u \in Tasks \ {t} : s.task[u] = r.task[u]
        /\ s.life = r.life /\ s.revised = r.revised /\ s.deps = r.deps /\ s.asg = r.asg
        /\ s.claim = r.claim /\ s.d1 = r.d1 /\ s.gates = r.gates /\ s.obs = r.obs
    BY SMTT(40), <2>1, <2>2, NewTask
  <2>4. OnlyMoves(r, s)
    BY <1>2, <2>3 DEF OnlyMoves, MovesOn
  <2>5. CapacityHolds(s)
    <3>1. \A u \in Tasks : s.task[u].state \in Executing => r.task[u].state \in Executing
      BY <2>1, <2>3 DEF Executing
    <3> QED
      BY <3>1, CapacityStays
  <2> QED
    BY <2>3, <2>4, <2>5 DEF s
<1>3. CASE s = r
  BY <1>3 DEF OnlyMoves, MovesOn
<1> QED
  BY <1>2, <1>3 DEF RecomputeReady

\* All tasks advanced in the order of the graph, ...
LEMMA AdvanceAll ==
  ASSUME NEW r, Typed(r), plan \in Plans, CapacityHolds(r)
  PROVE  LET s == Reworked(r, Tasks) IN
         Typed(s) /\ OnlyMoves(r, s) /\ CapacityHolds(s)
<1> DEFINE P(s) == Typed(s) /\ OnlyMoves(r, s) /\ CapacityHolds(s)
<1>1. PICK g : /\ g[0] = r
               /\ \A k \in 1 .. NT : g[k] = IF k \in Tasks THEN AdvanceRework(g[k - 1], k) ELSE g[k - 1]
               /\ Reworked(r, Tasks) = g[NT]
  BY ReworkInOrder
<1> DEFINE T == {k \in 0 .. NT : P(g[k])}
<1>2. 0 \in T
  <2>1. OnlyMoves(r, r)
    BY DEF OnlyMoves, MovesOn
  <2> QED
    BY <1>1, <2>1, BoundsAssumption
<1>3. ASSUME NEW k \in 1 .. NT, k - 1 \in T PROVE k \in T
  <2>1. k \in Tasks /\ P(g[k - 1]) /\ g[k] = AdvanceRework(g[k - 1], k)
    BY <1>1, <1>3 DEF Tasks
  <2>2. LET s == AdvanceRework(g[k - 1], k) IN
        Typed(s) /\ OnlyMoves(g[k - 1], s) /\ CapacityHolds(s)
    BY <2>1, AdvanceFacts
  <2>3. P(g[k])
    BY <2>1, <2>2, MovesTwice
  <2> QED
    BY <2>3
<1> HIDE DEF T
<1>4. NT \in T
  BY <1>2, <1>3, TasksInd
<1> QED
  BY <1>1, <1>4 DEF T


\* ... then all made ready ...
LEMMA ReadyAll ==
  ASSUME NEW r, Typed(r), plan \in Plans, CapacityHolds(r)
  PROVE  LET s == Readied(r, Tasks) IN
         Typed(s) /\ OnlyMoves(r, s) /\ CapacityHolds(s)
<1> DEFINE P(s) == Typed(s) /\ OnlyMoves(r, s) /\ CapacityHolds(s)
<1>1. PICK g : /\ g[0] = r
               /\ \A k \in 1 .. NT : g[k] = IF k \in Tasks THEN RecomputeReady(g[k - 1], k) ELSE g[k - 1]
               /\ Readied(r, Tasks) = g[NT]
  BY ReadyInOrder
<1> DEFINE T == {k \in 0 .. NT : P(g[k])}
<1>2. 0 \in T
  <2>1. OnlyMoves(r, r)
    BY DEF OnlyMoves, MovesOn
  <2> QED
    BY <1>1, <2>1, BoundsAssumption
<1>3. ASSUME NEW k \in 1 .. NT, k - 1 \in T PROVE k \in T
  <2>1. k \in Tasks /\ P(g[k - 1]) /\ g[k] = RecomputeReady(g[k - 1], k)
    BY <1>1, <1>3 DEF Tasks
  <2>2. LET s == RecomputeReady(g[k - 1], k) IN
        Typed(s) /\ OnlyMoves(g[k - 1], s) /\ CapacityHolds(s)
    BY <2>1, ReadyFacts
  <2>3. P(g[k])
    BY <2>1, <2>2, MovesTwice
  <2> QED
    BY <2>3
<1> HIDE DEF T
<1>4. NT \in T
  BY <1>2, <1>3, TasksInd
<1> QED
  BY <1>1, <1>4 DEF T

\* ... is what every accepted event ends with: tasks move on, and no slot is taken
\* that is not free.
LEMMA FinishFacts ==
  ASSUME NEW r, Typed(r), plan \in Plans, CapacityHolds(r)
  PROVE  Typed(Finish(r)) /\ OnlyMoves(r, Finish(r)) /\ CapacityHolds(Finish(r))
<1> DEFINE m == Reworked(r, Tasks)
           s == Readied(m, Tasks)
<1>1. Typed(m) /\ OnlyMoves(r, m) /\ CapacityHolds(m)
  BY AdvanceAll
<1>2. Finish(r) = s
  BY DEF Finish, Reworked, Readied
<1> HIDE DEF m
<1>3. Typed(s) /\ OnlyMoves(m, s) /\ CapacityHolds(s)
  BY <1>1, ReadyAll
<1> HIDE DEF s
<1> QED
  BY <1>1, <1>2, <1>3, MovesTwice

-----------------------------------------------------------------------------
(* The inductive invariant.                                                *)

Good(r) ==
  Typed(r) /\ (\A t \in Tasks : History(r, t) /\ Status(r, t)) /\ CapacityHolds(r)
Inv == plan \in Plans /\ Good(run) /\ Sound(run)

\* What is final in r is so in s (a step of TerminalIsFinal).
Final(r, s) ==
  \A t \in Tasks : r.task[t].state \in {"done", "cancelled"} =>
    /\ s.task[t] = r.task[t] /\ s.claim[t] = r.claim[t]
    /\ \A i \in DOMAIN s.asg : s.asg[i].task = t =>
         i \in DOMAIN r.asg /\ r.asg[i].task = t /\ s.asg[i].state = r.asg[i].state

\* What is final over each of two steps is final over both.
LEMMA FinalTwice ==
  ASSUME NEW r, NEW m, NEW s, Final(r, m), Final(m, s)
  PROVE  Final(r, s)
<1> SUFFICES ASSUME NEW t \in Tasks, r.task[t].state \in {"done", "cancelled"}
             PROVE  /\ s.task[t] = r.task[t] /\ s.claim[t] = r.claim[t]
                    /\ \A i \in DOMAIN s.asg : s.asg[i].task = t =>
                         /\ i \in DOMAIN r.asg /\ r.asg[i].task = t
                         /\ s.asg[i].state = r.asg[i].state
  BY DEF Final
<1>1. /\ m.task[t] = r.task[t] /\ m.claim[t] = r.claim[t]
      /\ \A i \in DOMAIN m.asg : m.asg[i].task = t =>
           i \in DOMAIN r.asg /\ r.asg[i].task = t /\ m.asg[i].state = r.asg[i].state
  BY DEF Final
<1>2. /\ s.task[t] = m.task[t] /\ s.claim[t] = m.claim[t]
      /\ \A i \in DOMAIN s.asg : s.asg[i].task = t =>
           i \in DOMAIN m.asg /\ m.asg[i].task = t /\ s.asg[i].state = m.asg[i].state
  BY <1>1 DEF Final
<1> QED
  BY <1>1, <1>2

\* The move at the end of an event keeps what is good and what is final.
LEMMA FinishGood ==
  ASSUME NEW r, Good(r), plan \in Plans
  PROVE  Good(Finish(r)) /\ Final(r, Finish(r))
<1> DEFINE n == Finish(r)
<1>1. Typed(r) /\ Typed(n) /\ OnlyMoves(r, n) /\ CapacityHolds(n)
  BY FinishFacts DEF Good
<1> HIDE DEF n
<1>2. \A t \in Tasks : r.task[t] \in TaskRecords
  BY <1>1, Parts
<1>3. NothingNew(r, n)
  <2>1. \A t \in Tasks : SameCounts(r.task[t], n.task[t])
    BY <1>1, <1>2 DEF OnlyMoves, MovesOn, SameCounts, TaskRecords
  <2> QED
    BY SMTT(40), <1>1, <2>1 DEF NothingNew, OnlyMoves, GoesOn
<1>4. \A t \in Tasks : History(n, t)
  BY <1>1, <1>3, HistoryStays DEF Good
<1>5. ASSUME NEW t \in Tasks PROVE Status(n, t)
  <2>1. /\ n.life = r.life /\ n.asg = r.asg /\ n.claim = r.claim /\ n.d1 = r.d1
        /\ Of(n, t) = Of(r, t) /\ ProducersOf(n, t) = ProducersOf(r, t)
    BY <1>1 DEF OnlyMoves, Of, ProducersOf
  <2>2. MovesOn(r.task[t], n.task[t]) /\ Status(r, t) /\ r.task[t] \in TaskRecords
    BY <1>1, <1>2 DEF OnlyMoves, Good
  <2>3. CASE n.task[t] = r.task[t]
    BY <2>1, <2>2, <2>3, StatusStays DEF SameFor
  <2>4. CASE /\ r.task[t].state \in {"review", "pending"}
             /\ n.task[t].state \in {"rework", "ready"}
    <3>1. CancelHolds(n, t)
      BY <2>1, <2>2, <2>4 DEF Status, Steady, CancelHolds
    <3>2. ClaimCovers(n, t)
      BY <2>1, <2>2, <2>4 DEF Status, Steady, ClaimCovers
    <3>3. AwaitsGraph(n, t)
      BY <2>1, <2>2, <2>4 DEF Status, Steady, AwaitsGraph
    <3>4. WithdrawnIsFrozen(n, t)
      BY <2>1, <2>2, <2>4 DEF Status, WithdrawnIsFrozen
    <3> QED
      BY <2>4, <3>1, <3>2, <3>3, <3>4 DEF Status, Steady, AbsentIsFresh, DoneHolds,
         CancelledHolds, ReviewHasRef, NonceCounts
  <2>5. n.task[t] # r.task[t] => /\ r.task[t].state \in {"review", "pending"}
                                 /\ n.task[t].state \in {"rework", "ready"}
    BY <2>2 DEF MovesOn, TaskRecords
  <2> QED
    BY <2>3, <2>4, <2>5
<1>6. Good(n)
  BY <1>1, <1>4, <1>5 DEF Good
<1>7. Final(r, n)
  <2>1. n.asg = r.asg /\ n.claim = r.claim
    BY SMTT(40), <1>1 DEF OnlyMoves
  <2>2. \A t \in Tasks : r.task[t].state \in {"done", "cancelled"} => n.task[t] = r.task[t]
    BY <1>1 DEF OnlyMoves, MovesOn
  <2>3. \A i \in DOMAIN n.asg : /\ i \in DOMAIN r.asg /\ n.asg[i].task = r.asg[i].task
                                /\ n.asg[i].state = r.asg[i].state
    BY <2>1
  <2> QED
    BY <2>1, <2>2, <2>3 DEF Final
<1> QED
  BY <1>6, <1>7 DEF n

\* The tier, the level and the failed deliveries of the next state, which depend
\* on the plan as well: the plan stays.
TierOf(p, t, n) == LET f[k \in 0 .. 2] == IF k = 0 THEN p.tier[t] ELSE Raise(f[k - 1]) IN f[n]

\* The tier after some escalations is read from the plan alone.
LEMMA TierPrimed ==
  ASSUME plan' = plan, NEW t, NEW k
  PROVE  TierAfter(t, k)' = TierAfter(t, k)
<1>1. TierAfter(t, k) = TierOf(plan, t, k)
  BY DEF TierAfter, TierOf
<1>2. TierAfter(t, k)' = TierOf(plan', t, k)
  BY DEF TierAfter, TierOf
<1> QED
  BY <1>1, <1>2

\* The failed deliveries of the next record, read in the next state.
LEMMA FailedPrimed ==
  ASSUME plan' = plan, NEW n, run' = n, NEW t
  PROVE  FailedDeliveries(run, t)' = FailedDeliveries(n, t)
<1>1. \A u, k : TierAfter(u, k)' = TierAfter(u, k)
  BY TierPrimed
<1>2. \A u, k : ReviewLevel(run, u, k)' = ReviewLevel(n, u, k)
  BY SMTT(40), <1>1 DEF ReviewLevel
<1>3. \A i : Eligible(run, i)' = Eligible(n, i)
  BY <1>2 DEF Eligible, ValidDelivery
<1> QED
  BY <1>3 DEF FailedDeliveries, RepliesTo, ProducersOf, Of, ValidDelivery

\* What holds of the next record holds of run in the next state.
LEMMA Primed ==
  ASSUME plan' = plan, NEW n, run' = n, Good(n), Sound(n), plan \in Plans
  PROVE  Inv'
<1>1. Typed(run)'
  BY DEF Good, Typed
<1>2. CapacityHolds(run)'
  BY DEF Good, CapacityHolds
<1>3. Sound(run)'
  BY DEF Sound, DependenciesDone, ClaimsApart, EvidenceHolds, ActorsApart
<1>4. ASSUME NEW t \in Tasks PROVE History(run, t)'
  <2>1. History(n, t)
    BY DEF Good
  <2>2. FailedDeliveries(run, t)' = FailedDeliveries(n, t)
    BY FailedPrimed
  <2>3. FailuresCounted(run, t)'
    BY <2>1, <2>2 DEF History, FailuresCounted, IsLast, ProducersOf, Of
  <2>4. /\ OneAtATime(run, t)' /\ LastIsHead(run, t)' /\ AttemptsCounted(run, t)'
        /\ ProofsAccepted(run, t)' /\ RefIsDelivery(run, t)'
    BY <2>1 DEF History, OneAtATime, LastIsHead, AttemptsCounted, ProofsAccepted,
                RefIsDelivery, IsLast, ProducersOf, Of
  <2>5. RepliesFit(run, t)'
    BY <2>1 DEF History, RepliesFit, ProducersOf, Of
  <2> QED
    BY <2>3, <2>4, <2>5 DEF History
<1>5. ASSUME NEW t \in Tasks PROVE Status(run, t)'
  <2>1. Status(n, t)
    BY SMTT(40) DEF Good
  <2>2. DoneHolds(run, t)'
    BY <2>1 DEF Status, Steady, DoneHolds, Reviewed, Of
  <2>3. /\ AbsentIsFresh(run, t)' /\ AwaitsGraph(run, t)' /\ CancelHolds(run, t)'
        /\ CancelledHolds(run, t)' /\ ClaimCovers(run, t)' /\ ReviewHasRef(run, t)'
    BY <2>1 DEF Status, Steady, AbsentIsFresh, AwaitsGraph, CancelHolds, CancelledHolds,
                ClaimCovers, ReviewHasRef, Of, ProducersOf
  <2>4. WithdrawnIsFrozen(run, t)' /\ NonceCounts(run, t)'
    BY <2>1 DEF Status, WithdrawnIsFrozen, NonceCounts, Of
  <2> QED
    BY <2>2, <2>3, <2>4 DEF Status, Steady
<1> QED
  BY <1>1, <1>2, <1>3, <1>4, <1>5 DEF Inv, Good

\* Every event ends in a commit: it is enough that its record is good and leaves
\* what is final alone.
LEMMA Committed ==
  ASSUME Inv, NEW m, Good(m), Final(run, m), Commit(m)
  PROVE  Inv' /\ Final(run, run')
<1>1. PICK n : n = Finish(m)
  OBVIOUS
<1>2. Sound(n) /\ run' = n /\ plan' = plan
  BY <1>1 DEF Commit
<1>3. plan \in Plans
  BY DEF Inv
<1>4. Good(n) /\ Final(m, n)
  BY <1>1, <1>3, FinishGood
<1>5. Inv'
  BY <1>2, <1>3, <1>4, Primed
<1>6. PICK r : r = run
  OBVIOUS
<1>7. Final(r, n)
  <2>1. Final(r, m)
    BY <1>6
  <2> QED
    BY <1>4, <2>1, FinalTwice
<1>8. Final(run, run')
  BY <1>2, <1>6, <1>7
<1> QED
  BY <1>5, <1>8

-----------------------------------------------------------------------------
(* The steps.                                                              *)

\* A record is good when nothing new came in, the tasks of S stand well, no other
\* task changed, and none of S begins to execute.
LEMMA NothingNewGood ==
  ASSUME NEW r, NEW m, NEW S, Good(r), plan \in Plans, Typed(m), NothingNew(r, m),
         \A t \in Tasks \ S : SameFor(r, m, t),
         \A t \in Tasks \cap S :
           /\ Status(m, t)
           /\ m.task[t].state \in Executing => r.task[t].state \in Executing
  PROVE  Good(m)
<1>1. \A t \in Tasks : History(m, t)
  BY HistoryStays DEF Good
<1>2. \A t \in Tasks : Status(m, t)
  BY StatusStays DEF Good
<1>3. \A t \in Tasks : m.task[t].state \in Executing => r.task[t].state \in Executing
  BY DEF SameFor
<1>4. CapacityHolds(m)
  BY <1>3, CapacityStays DEF Good
<1> QED
  BY <1>1, <1>2, <1>4 DEF Good

\* What is final stays when the tasks of S are not.
LEMMA SameIsFinal ==
  ASSUME NEW r, NEW m, NEW S, \A t \in Tasks \ S : SameFor(r, m, t),
         \A t \in Tasks \cap S : r.task[t].state \notin {"done", "cancelled"}
  PROVE  Final(r, m)
<1> SUFFICES ASSUME NEW t \in Tasks, r.task[t].state \in {"done", "cancelled"}
             PROVE  /\ m.task[t] = r.task[t] /\ m.claim[t] = r.claim[t]
                    /\ \A i \in DOMAIN m.asg : m.asg[i].task = t =>
                         /\ i \in DOMAIN r.asg /\ r.asg[i].task = t
                         /\ m.asg[i].state = r.asg[i].state
  BY DEF Final
<1>1. SameFor(r, m, t)
  OBVIOUS
<1> QED
  BY <1>1 DEF SameFor, Of

\* One assignment replaced.
LEMMA OneAsg ==
  ASSUME NEW r, Typed(r), NEW i \in DOMAIN r.asg, NEW x \in Assignments,
         x.task = r.asg[i].task, x.cancellation <= Len(r.obs)
  PROVE  LET s == [r EXCEPT !.asg[i] = x] IN
         /\ Typed(s) /\ DOMAIN s.asg = DOMAIN r.asg /\ s.asg[i] = x
         /\ \A j \in DOMAIN r.asg \ {i} : s.asg[j] = r.asg[j]
         /\ s.life = r.life /\ s.revised = r.revised /\ s.deps = r.deps /\ s.task = r.task
         /\ s.claim = r.claim /\ s.d1 = r.d1 /\ s.gates = r.gates /\ s.obs = r.obs
         /\ \A t \in Tasks : Of(s, t) = Of(r, t)
         /\ \A t \in Tasks \ {x.task} : SameFor(r, s, t)
<1> DEFINE f == [r.asg EXCEPT ![i] = x]
           s == [r EXCEPT !.asg[i] = x]
           n == [r EXCEPT !.asg = f]
<1>1. r \in Ledgers /\ \A j \in DOMAIN r.asg : r.asg[j] \in Assignments
  BY Parts DEF Typed
<1>2. f \in [DOMAIN r.asg -> Assignments] /\ f[i] = x
      /\ \A j \in DOMAIN r.asg \ {i} : f[j] = r.asg[j]
  <2>1. r.asg = [j \in DOMAIN r.asg |-> r.asg[j]]
    BY Parts
  <2> QED
    BY <1>1, <2>1
<1>3. \A j \in DOMAIN r.asg : f[j].cancellation <= Len(r.obs)
  BY <1>2 DEF Typed
<1>4. s = n
  BY <1>1 DEF Ledgers
<1> HIDE DEF f
<1>5. /\ Typed(n) /\ n.asg = f /\ DOMAIN n.asg = DOMAIN r.asg
      /\ n.life = r.life /\ n.revised = r.revised /\ n.deps = r.deps /\ n.task = r.task
      /\ n.claim = r.claim /\ n.d1 = r.d1 /\ n.gates = r.gates /\ n.obs = r.obs
  BY <1>2, <1>3, NewAsg
<1> HIDE DEF n, s
<1>6. \A t : Of(n, t) = Of(r, t)
  BY <1>2, <1>5 DEF Of
<1>7. \A t \in Tasks \ {x.task} : SameFor(r, n, t)
  BY <1>2, <1>5, <1>6 DEF SameFor, Of
<1>8. /\ Typed(s) /\ DOMAIN s.asg = DOMAIN r.asg /\ s.asg[i] = x
      /\ \A j \in DOMAIN r.asg \ {i} : s.asg[j] = r.asg[j]
  BY <1>2, <1>4, <1>5
<1> QED
  BY <1>4, <1>5, <1>6, <1>7, <1>8 DEF s

\* Sound says nothing of a record that another one with the same turns, tasks and
\* claims, whose actors are settled wherever they were, does not.
LEMMA SoundStays ==
  ASSUME NEW r, NEW s, Sound(r), DOMAIN s.asg = DOMAIN r.asg,
         \A t \in Tasks : /\ s.task[t].state = r.task[t].state /\ s.claim[t] = r.claim[t]
                          /\ s.d1[t].pairs = r.d1[t].pairs,
         s.deps = r.deps, s.obs = r.obs,
         \A i \in DOMAIN r.asg :
           LET a == r.asg[i]  b == s.asg[i] IN
           /\ a.task \in Tasks /\ b.task = a.task /\ b.agent = a.agent /\ b.turn = a.turn
           /\ b.born = a.born /\ b.state = a.state /\ b.proof = a.proof
           /\ b.revoked = a.revoked /\ b.accepted = a.accepted
           /\ b.cancellation = a.cancellation
           /\ b.dispatch = "withdrawn" <=> a.dispatch = "withdrawn"
           /\ a.archive = "sent" => b.archive = "sent",
         \A pair \in plan.overlap : pair \subseteq Tasks,
         \A t \in Tasks : r.deps[t] \subseteq Tasks
  PROVE  Sound(s)
<1>1. \A i \in DOMAIN r.asg : HasTurnFacts(s, i) <=> HasTurnFacts(r, i)
  BY DEF HasTurnFacts
<1>2. \A i \in DOMAIN r.asg : LocalNeverSent(s, i) <=> LocalNeverSent(r, i)
  BY <1>1 DEF LocalNeverSent
<1>3. ASSUME NEW i \in DOMAIN r.asg PROVE EndedAt(s, i) = EndedAt(r, i)
  <2>1. s.asg[i].agent = r.asg[i].agent /\ s.asg[i].turn = r.asg[i].turn /\ s.obs = r.obs
    BY SMTT(40)
  <2> QED
    BY <2>1 DEF EndedAt
<1>4. \A i \in DOMAIN r.asg : Complete167(r, i) => Complete167(s, i)
  BY <1>3 DEF Complete167, Quiescent, StartedBetween
<1>5. \A i \in DOMAIN r.asg : ActorSettled(r, i) => ActorSettled(s, i)
  BY <1>2, <1>4 DEF ActorSettled, NormalEnded
<1>6. DependenciesDone(s)
  BY DEF Sound, DependenciesDone
<1>7. ClaimsApart(s)
  BY DEF Sound, ClaimsApart
<1>8. EvidenceHolds(s)
  BY <1>4 DEF Sound, EvidenceHolds
<1>9. ActorsApart(s)
  BY <1>2, <1>5 DEF Sound, ActorsApart
<1> QED
  BY <1>6, <1>7, <1>8, <1>9 DEF Sound

\* What the plan says of the tasks.
LEMMA PlanFacts ==
  ASSUME plan \in Plans
  PROVE  /\ \A pair \in plan.overlap : pair \subseteq Tasks
         /\ \A pair \in plan.overlap : \E t, u \in Tasks : t # u /\ pair = {t, u}
         /\ plan.deps \in [Tasks -> SUBSET Tasks] /\ plan.deps2 \in [Tasks -> SUBSET Tasks]
         /\ plan.concurrency \in Nat \ {0} /\ DOMAIN plan.seat \subseteq Agents
         /\ plan.dag \subseteq Tasks /\ plan.reports \subseteq {"done", "lacking", "blocked", "failed"}
         /\ plan.verdicts \subseteq {"pass", "reject"}
         /\ plan.assignments \in Nat /\ plan.assignments <= MaxAssignments
         /\ plan.turns \in Nat /\ plan.turns <= MaxTurns
<1>1. WellFormedGraph(plan) /\ WellFormedPolicy(plan)
  BY PlansAssumption
<1>2. \A pair \in plan.overlap : \E t, u \in Tasks : t # u /\ pair = {t, u}
  BY <1>1 DEF WellFormedPolicy
<1>3. \A pair \in plan.overlap : pair \subseteq Tasks
  BY <1>2
<1>4. /\ plan.assignments \in Nat /\ plan.assignments <= MaxAssignments
      /\ plan.turns \in Nat /\ plan.turns <= MaxTurns
  BY <1>1, BoundsAssumption DEF WellFormedPolicy
<1> QED
  BY <1>1, <1>2, <1>3, <1>4 DEF WellFormedGraph, WellFormedPolicy

\* A step to a good and sound record that leaves what is final alone.
LEMMA Stepped ==
  ASSUME Inv, NEW n, run' = n, plan' = plan, Good(n), Sound(n), Final(run, n)
  PROVE  Inv' /\ Final(run, run')
<1>1. plan \in Plans
  BY DEF Inv
<1>2. Inv'
  BY <1>1, Primed
<1> QED
  BY <1>2 DEF Final

\* A dispatch or an archive that was prepared leaves.
LEMMA SentGood ==
  ASSUME NEW r, Good(r), Sound(r), plan \in Plans, NEW i \in DOMAIN r.asg,
         NEW x \in Assignments, GoesOn(r.asg[i], x),
         \A v \in {"state", "turn", "born", "cancellation", "revoked"} : x[v] = r.asg[i][v],
         r.asg[i].dispatch = "prepared" \/ r.asg[i].archive = "prepared",
         x.dispatch = "withdrawn" <=> r.asg[i].dispatch = "withdrawn",
         r.asg[i].archive = "sent" => x.archive = "sent"
  PROVE  LET n == [r EXCEPT !.asg[i] = x] IN Good(n) /\ Sound(n) /\ Final(r, n)
<1> DEFINE t == r.asg[i].task
           n == [r EXCEPT !.asg[i] = x]
<1>1. Typed(r)
  BY DEF Good
<1>2. t \in Tasks /\ \A j \in DOMAIN r.asg : r.asg[j].task \in Tasks
  BY <1>1, Parts
<1>3. /\ x.state = r.asg[i].state /\ x.turn = r.asg[i].turn /\ x.born = r.asg[i].born
      /\ x.cancellation = r.asg[i].cancellation /\ x.revoked = r.asg[i].revoked
      /\ x.task = t /\ x.cancellation <= Len(r.obs)
  BY <1>1 DEF GoesOn, Typed
<1>4. /\ Typed(n) /\ DOMAIN n.asg = DOMAIN r.asg /\ n.asg[i] = x
      /\ \A j \in DOMAIN r.asg \ {i} : n.asg[j] = r.asg[j]
      /\ n.life = r.life /\ n.revised = r.revised /\ n.deps = r.deps /\ n.task = r.task
      /\ n.claim = r.claim /\ n.d1 = r.d1 /\ n.gates = r.gates /\ n.obs = r.obs
      /\ \A u \in Tasks : Of(n, u) = Of(r, u)
      /\ \A u \in Tasks \ {x.task} : SameFor(r, n, u)
  BY <1>1, <1>3, OneAsg
<1> HIDE DEF n, t
<1>5. NothingNew(r, n)
  BY <1>4 DEF NothingNew, GoesOn, SameCounts
<1>6. Status(r, t) /\ i \in Of(r, t)
  BY <1>2 DEF Good, Of, t
<1>7. \A j \in DOMAIN r.asg :
        /\ n.asg[j].state = r.asg[j].state /\ n.asg[j].revoked = r.asg[j].revoked
        /\ n.asg[j].dispatch = "withdrawn" <=> r.asg[j].dispatch = "withdrawn"
        /\ n.asg[j].delivery = r.asg[j].delivery /\ n.asg[j].purpose = r.asg[j].purpose
        /\ n.asg[j].agent = r.asg[j].agent /\ n.asg[j].proof = r.asg[j].proof
        /\ n.asg[j].attempt = r.asg[j].attempt /\ n.asg[j].task = r.asg[j].task
  BY <1>3, <1>4, <1>5 DEF NothingNew, GoesOn
<1>8. ProducersOf(n, t) = ProducersOf(r, t) /\ ProducersOf(r, t) \subseteq Of(r, t)
      /\ Of(n, t) = Of(r, t) /\ Of(r, t) \subseteq DOMAIN r.asg
  BY <1>4, <1>7 DEF ProducersOf, Of
<1>9. r.task[t].state # "cancelled"
  BY <1>6 DEF Status, Steady, CancelledHolds
<1>10. Status(n, t)
  <2>1. AbsentIsFresh(n, t) /\ AwaitsGraph(n, t) /\ CancelHolds(n, t) /\ ReviewHasRef(n, t)
    BY SMTT(40), <1>4, <1>6, <1>8 DEF Status, Steady, AbsentIsFresh, AwaitsGraph, CancelHolds, ReviewHasRef
  <2>2. DoneHolds(n, t)
    BY <1>4, <1>6, <1>7, <1>8 DEF Status, Steady, DoneHolds, Reviewed
  <2>3. CancelledHolds(n, t)
    BY <1>4, <1>9 DEF CancelledHolds
  <2>4. ClaimCovers(n, t)
    BY <1>4, <1>6, <1>7, <1>8 DEF Status, Steady, ClaimCovers
  <2>5. WithdrawnIsFrozen(n, t) /\ NonceCounts(n, t)
    BY <1>4, <1>6, <1>7, <1>8 DEF Status, WithdrawnIsFrozen, NonceCounts
  <2> QED
    BY <2>1, <2>2, <2>3, <2>4, <2>5 DEF Status, Steady
<1>11. Good(n)
  <2>1. \A u \in Tasks \ {t} : SameFor(r, n, u)
    BY <1>3, <1>4
  <2>2. \A u \in Tasks \cap {t} :
          Status(n, u) /\ (n.task[u].state \in Executing => r.task[u].state \in Executing)
    BY <1>4, <1>10
  <2> QED
    BY <1>4, <1>5, <2>1, <2>2, NothingNewGood
<1>12. Final(r, n)
  BY <1>4, <1>7 DEF Final
<1>13. Sound(n)
  <2>1. \A j \in DOMAIN r.asg :
           LET a == r.asg[j]  b == n.asg[j] IN
           /\ a.task \in Tasks /\ b.task = a.task /\ b.agent = a.agent /\ b.turn = a.turn
           /\ b.born = a.born /\ b.state = a.state /\ b.proof = a.proof
           /\ b.revoked = a.revoked /\ b.accepted = a.accepted
           /\ b.cancellation = a.cancellation
           /\ b.dispatch = "withdrawn" <=> a.dispatch = "withdrawn"
           /\ a.archive = "sent" => b.archive = "sent"
    BY ZenonT(60), <1>2, <1>3, <1>4 DEF GoesOn
  <2>2. \A pair \in plan.overlap : pair \subseteq Tasks
    BY PlanFacts
  <2>3. \A u \in Tasks : r.deps[u] \subseteq Tasks
    BY <1>1, Parts
  <2> QED
    BY <1>4, <2>1, <2>2, <2>3, SoundStays
<1> QED
  BY <1>11, <1>12, <1>13 DEF n

\* Send keeps the invariant.
LEMMA SendKeeps ==
  ASSUME Inv, NEW i \in DOMAIN run.asg, Send(i)
  PROVE  Inv' /\ Final(run, run')
<1>1. PICK r : r = run
  OBVIOUS
<1>2. /\ Good(r) /\ Sound(r) /\ Typed(r) /\ plan \in Plans /\ i \in DOMAIN r.asg
      /\ r.asg[i].dispatch = "prepared"
      /\ run' = [r EXCEPT !.asg[i].dispatch = "sent"] /\ plan' = plan
  BY <1>1 DEF Inv, Good, Send
<1> DEFINE x == [r.asg[i] EXCEPT !.dispatch = "sent"]
           n == [r EXCEPT !.asg[i] = x]
<1>3. r \in Ledgers /\ r.asg[i] \in Assignments
  BY <1>2, Parts DEF Typed
<1>4. run' = n
  BY <1>2, <1>3 DEF Ledgers
<1>5. /\ x \in Assignments /\ GoesOn(r.asg[i], x) /\ x.dispatch = "sent"
      /\ x.archive = r.asg[i].archive
      /\ \A v \in {"state", "turn", "born", "cancellation", "revoked"} : x[v] = r.asg[i][v]
  BY <1>2, <1>3 DEF Assignments, GoesOn
<1> HIDE DEF x
<1>6. Good(n) /\ Sound(n) /\ Final(r, n)
  BY <1>2, <1>5, SentGood
<1> QED
  BY <1>1, <1>2, <1>4, <1>6, Stepped

\* So does SendArchive.
LEMMA SendArchiveKeeps ==
  ASSUME Inv, NEW i \in DOMAIN run.asg, SendArchive(i)
  PROVE  Inv' /\ Final(run, run')
<1>1. PICK r : r = run
  OBVIOUS
<1>2. /\ Good(r) /\ Sound(r) /\ Typed(r) /\ plan \in Plans /\ i \in DOMAIN r.asg
      /\ r.asg[i].archive = "prepared"
      /\ run' = [r EXCEPT !.asg[i].archive = "sent"] /\ plan' = plan
  BY <1>1 DEF Inv, Good, SendArchive
<1> DEFINE x == [r.asg[i] EXCEPT !.archive = "sent"]
           n == [r EXCEPT !.asg[i] = x]
<1>3. r \in Ledgers /\ r.asg[i] \in Assignments
  BY <1>2, Parts DEF Typed
<1>4. run' = n
  BY <1>2, <1>3 DEF Ledgers
<1>5. /\ x \in Assignments /\ GoesOn(r.asg[i], x) /\ x.dispatch = r.asg[i].dispatch
      /\ x.archive = "sent"
      /\ \A v \in {"state", "turn", "born", "cancellation", "revoked"} : x[v] = r.asg[i][v]
  BY <1>2, <1>3 DEF Assignments, GoesOn
<1> HIDE DEF x
<1>6. Good(n) /\ Sound(n) /\ Final(r, n)
  BY <1>2, <1>5, SentGood
<1> QED
  BY <1>1, <1>2, <1>4, <1>6, Stepped

\* The user answers what is asked of a cancellation.
LEMMA AnswerKeeps ==
  ASSUME Inv, NEW t \in Tasks, Answer(t)
  PROVE  Inv' /\ Final(run, run')
<1>1. PICK r : r = run
  OBVIOUS
<1>2. /\ Good(r) /\ Sound(r) /\ Typed(r) /\ plan \in Plans /\ r.d1[t].state = "open"
      /\ run' = [r EXCEPT !.d1[t].state = "answered"] /\ plan' = plan
  BY <1>1 DEF Inv, Good, Answer
<1> DEFINE y == [r.d1[t] EXCEPT !.state = "answered"]
           n == [r EXCEPT !.d1[t] = y]
<1>3. r \in Ledgers /\ r.d1[t] \in Cancels
      /\ \A j \in DOMAIN r.asg : r.asg[j].task \in Tasks
      /\ \A u \in Tasks : r.deps[u] \subseteq Tasks
  BY <1>2, Parts DEF Typed
<1>4. run' = n
  BY <1>2, <1>3 DEF Ledgers
<1>5. y \in Cancels /\ y.state = "answered" /\ y.pairs = r.d1[t].pairs
  BY <1>3 DEF Cancels
<1> HIDE DEF y
<1>6. /\ Typed(n) /\ n.d1[t] = y /\ \A u \in Tasks \ {t} : n.d1[u] = r.d1[u]
      /\ n.life = r.life /\ n.revised = r.revised /\ n.deps = r.deps /\ n.asg = r.asg
      /\ n.task = r.task /\ n.claim = r.claim /\ n.gates = r.gates /\ n.obs = r.obs
  BY <1>2, <1>5, NewCancel
<1> HIDE DEF n
<1>7. NothingNew(r, n) /\ \A u \in Tasks \ {t} : SameFor(r, n, u)
  BY <1>6 DEF NothingNew, GoesOn, SameCounts, SameFor, Of
<1>8. Status(r, t) /\ Of(n, t) = Of(r, t) /\ ProducersOf(n, t) = ProducersOf(r, t)
  BY <1>2, <1>6 DEF Good, Of, ProducersOf
<1>9. Status(n, t)
  <2>1. /\ AbsentIsFresh(n, t) /\ AwaitsGraph(n, t) /\ CancelHolds(n, t) /\ ReviewHasRef(n, t)
        /\ CancelledHolds(n, t)
    BY SMTT(40), <1>2, <1>5, <1>6, <1>8
    DEF Status, Steady, AbsentIsFresh, AwaitsGraph, CancelHolds, ReviewHasRef, CancelledHolds
  <2>2. DoneHolds(n, t) /\ ClaimCovers(n, t) /\ WithdrawnIsFrozen(n, t) /\ NonceCounts(n, t)
    BY <1>6, <1>8
    DEF Status, Steady, DoneHolds, Reviewed, ClaimCovers, WithdrawnIsFrozen, NonceCounts
  <2> QED
    BY <2>1, <2>2 DEF Status, Steady
<1>10. Good(n)
  <2>1. \A u \in Tasks \cap {t} :
          Status(n, u) /\ (n.task[u].state \in Executing => r.task[u].state \in Executing)
    BY <1>6, <1>9
  <2> QED
    BY <1>2, <1>6, <1>7, <2>1, NothingNewGood
<1>11. Final(r, n)
  BY <1>6 DEF Final
<1>12. Sound(n)
  <2>1. \A pair \in plan.overlap : pair \subseteq Tasks
    BY <1>2, PlanFacts
  <2>2. \A u \in Tasks : n.d1[u].pairs = r.d1[u].pairs
    BY <1>5, <1>6
  <2>3. \A j \in DOMAIN r.asg :
           LET a == r.asg[j]  b == n.asg[j] IN
           /\ a.task \in Tasks /\ b.task = a.task /\ b.agent = a.agent /\ b.turn = a.turn
           /\ b.born = a.born /\ b.state = a.state /\ b.proof = a.proof
           /\ b.revoked = a.revoked /\ b.accepted = a.accepted
           /\ b.cancellation = a.cancellation
           /\ b.dispatch = "withdrawn" <=> a.dispatch = "withdrawn"
           /\ a.archive = "sent" => b.archive = "sent"
    BY <1>3, <1>6
  <2>4. DOMAIN n.asg = DOMAIN r.asg /\ n.deps = r.deps /\ n.obs = r.obs
    BY <1>6
  <2>5. \A u \in Tasks : /\ n.task[u].state = r.task[u].state /\ n.claim[u] = r.claim[u]
                        /\ n.d1[u].pairs = r.d1[u].pairs
    BY <1>6, <2>2
  <2>6. Sound(r) /\ \A u \in Tasks : r.deps[u] \subseteq Tasks
    <3>1. Sound(r)
      BY <1>2
    <3> QED
      BY <1>2, <3>1, Parts
  <2> QED
    BY <2>1, <2>3, <2>4, <2>5, <2>6, SoundStays
<1> QED
  BY <1>1, <1>2, <1>4, <1>10, <1>11, <1>12, Stepped

\* The invariant holds at first: nothing has happened to any task.
LEMMA InitInv == Init => Inv
<1> SUFFICES ASSUME Init PROVE Inv
  OBVIOUS
<1>1. PICK r : r = run
  OBVIOUS
<1>2. /\ plan \in Plans
      /\ r = [life |-> "awaiting-dag", revised |-> FALSE, deps |-> plan.deps,
              task |-> [t \in Tasks |-> Fresh("absent")], asg |-> <<>>,
              claim |-> [t \in Tasks |-> NoClaim],
              d1 |-> [t \in Tasks |-> [state |-> "none", pairs |-> {}]],
              gates |-> {}, obs |-> <<>>]
  BY <1>1 DEF Init
<1>3. /\ DOMAIN r.asg = {} /\ r.life = "awaiting-dag" /\ r.obs = <<>> /\ r.asg = <<>>
      /\ \A t \in Tasks : /\ r.task[t] = Fresh("absent") /\ r.claim[t] = NoClaim
                          /\ r.d1[t] = [state |-> "none", pairs |-> {}]
  BY <1>2
<1>4. Fresh("absent") \in TaskRecords /\ NoClaim \in Claims
      /\ [state |-> "none", pairs |-> {}] \in Cancels
  BY DEF Fresh, TaskRecords, TaskStates, Phases, NoClaim, Claims, Cancels
<1>5. Typed(r)
  <2>1. plan.deps \in [Tasks -> SUBSET Tasks]
    BY <1>2, PlanFacts
  <2>2. r \in Ledgers
    BY <1>2, <1>4, <2>1 DEF Ledgers, Lifecycles
  <2>3. Len(r.asg) = 0
    BY <1>3
  <2> QED
    BY <1>3, <2>2, <2>3, BoundsAssumption DEF Typed
<1>6. \A t : Of(r, t) = {} /\ ProducersOf(r, t) = {} /\ FailedDeliveries(r, t) = {}
  BY <1>3 DEF Of, ProducersOf, FailedDeliveries
<1>7. ASSUME NEW t \in Tasks PROVE History(r, t)
  <2>1. r.task[t].attempts = 0 /\ r.task[t].rework = 0 /\ r.task[t].quality = 0
        /\ r.task[t].escalations = <<>> /\ r.task[t].ref = 0
    BY <1>3 DEF Fresh
  <2>2. FailuresCounted(r, t)
    <3>1. FailedDeliveries(r, t) = {} /\ Cardinality(FailedDeliveries(r, t)) = 0
      BY <1>6, FS_EmptySet
    <3>2. DOMAIN r.task[t].escalations = {}
      BY <2>1
    <3> QED
      BY <2>1, <3>1, <3>2 DEF FailuresCounted
  <2>3. AttemptsCounted(r, t)
    BY <1>6, <2>1 DEF AttemptsCounted
  <2> QED
    BY <1>6, <2>1, <2>2, <2>3
    DEF History, OneAtATime, LastIsHead, RepliesFit, ProofsAccepted, RefIsDelivery
<1>8. ASSUME NEW t \in Tasks PROVE Status(r, t)
  <2>1. r.task[t].state = "absent"
    BY <1>3 DEF Fresh
  <2> QED
    BY <1>3, <1>6, <2>1
    DEF Status, Steady, AbsentIsFresh, AwaitsGraph, CancelHolds, DoneHolds, CancelledHolds,
        ClaimCovers, ReviewHasRef, WithdrawnIsFrozen, NonceCounts
<1>9. CapacityHolds(r)
  <2>1. {t \in Tasks : r.task[t].state \in {"assigned", "in_progress", "rework"}} = {}
    BY <1>3 DEF Fresh
  <2>2. Cardinality({}) = 0
    BY FS_EmptySet
  <2>3. plan.concurrency \in Nat
    BY <1>2, PlanFacts
  <2>4. 0 <= plan.concurrency
    BY <2>3
  <2> QED
    BY <2>1, <2>2, <2>4 DEF CapacityHolds
<1>10. Sound(r)
  <2>1. \A t \in Tasks : r.task[t].state = "absent" /\ r.claim[t].state = "none"
    BY <1>3 DEF Fresh, NoClaim
  <2>2. DependenciesDone(r) /\ EvidenceHolds(r) /\ ActorsApart(r)
    BY <1>3, <2>1 DEF DependenciesDone, EvidenceHolds, ActorsApart
  <2>3. ClaimsApart(r)
    BY <1>2, <2>1, PlanFacts DEF ClaimsApart
  <2> QED
    BY <2>2, <2>3 DEF Sound
<1> QED
  BY <1>1, <1>2, <1>5, <1>7, <1>8, <1>9, <1>10 DEF Inv, Good

\* The life of the run goes on; the tasks are what they were.
LEMMA LifeGood ==
  ASSUME NEW r, Good(r), plan \in Plans, NEW l \in Lifecycles \ {"awaiting-dag"}
  PROVE  LET m == [r EXCEPT !.life = l] IN Good(m) /\ Final(r, m)
<1> DEFINE m == [r EXCEPT !.life = l]
<1>1. Typed(r)
  BY DEF Good
<1>2. /\ Typed(m) /\ m.life # "awaiting-dag" /\ m.asg = r.asg /\ m.task = r.task
      /\ m.claim = r.claim /\ m.d1 = r.d1
  BY <1>1 DEF Typed, Ledgers
<1> HIDE DEF m
<1>3. NothingNew(r, m) /\ \A t \in Tasks : SameFor(r, m, t)
  BY <1>2 DEF NothingNew, GoesOn, SameCounts, SameFor, Of
<1>4. \A t \in Tasks \cap {} : FALSE
  OBVIOUS
<1>5. Good(m)
  <2>1. \A t \in Tasks \cap {} : /\ Status(m, t)
                                 /\ m.task[t].state \in Executing => r.task[t].state \in Executing
    BY <1>4
  <2>2. \A t \in Tasks \ {} : SameFor(r, m, t)
    BY <1>3
  <2> QED
    BY <1>2, <1>3, <2>1, <2>2, NothingNewGood
<1>6. Final(r, m)
  <2>1. \A t \in Tasks \cap {} : r.task[t].state \notin {"done", "cancelled"}
    BY <1>4
  <2>2. \A t \in Tasks \ {} : SameFor(r, m, t)
    BY <1>3
  <2> QED
    BY <2>1, <2>2, SameIsFinal
<1> QED
  BY <1>5, <1>6 DEF m

\* Pausing, resuming and finishing the run keep the invariant.
LEMMA PauseKeeps ==
  ASSUME Inv, RunPaused \/ RunResumed \/ RunFinished
  PROVE  Inv' /\ Final(run, run')
<1>1. PICK r : r = run
  OBVIOUS
<1>2. Good(r) /\ plan \in Plans
  BY <1>1 DEF Inv
<1>3. PICK l \in {"paused", "active", "finished"} : Commit([r EXCEPT !.life = l])
  BY <1>1 DEF RunPaused, RunResumed, RunFinished
<1>4. l \in Lifecycles \ {"awaiting-dag"}
  BY DEF Lifecycles
<1>5. PICK m : m = [r EXCEPT !.life = l]
  OBVIOUS
<1>6. Good(m) /\ Final(r, m)
  BY <1>2, <1>4, <1>5, LifeGood
<1>7. Commit(m) /\ Final(run, m)
  BY <1>1, <1>3, <1>5, <1>6
<1> QED
  BY <1>6, <1>7, Committed

\* New tasks of a graph appear.
LEMMA GraphGood ==
  ASSUME NEW r, Good(r), plan \in Plans, NEW m, Typed(m), m.life # "awaiting-dag",
         m.asg = r.asg, m.claim = r.claim, m.d1 = r.d1,
         \A t \in Tasks : \/ m.task[t] = r.task[t]
                          \/ r.task[t].state = "absent" /\ m.task[t] = Fresh("pending")
  PROVE  Good(m) /\ Final(r, m)
<1> DEFINE S == {t \in Tasks : r.task[t].state = "absent" /\ m.task[t] = Fresh("pending")}
<1>1. \A t \in Tasks \ S : SameFor(r, m, t)
  BY DEF SameFor, Of
<1>2. ASSUME NEW t \in S
      PROVE  /\ SameCounts(r.task[t], m.task[t]) /\ m.task[t].state = "pending" /\ Status(m, t)
  <2>1. /\ Of(r, t) = {} /\ r.task[t] = Fresh("absent") /\ r.claim[t] = NoClaim
        /\ r.d1[t] = [state |-> "none", pairs |-> {}]
    BY DEF Good, Status, Steady, AbsentIsFresh
  <2>2. Of(m, t) = {} /\ ProducersOf(m, t) = {}
    BY <2>1 DEF Of, ProducersOf
  <2>3. m.task[t].state = "pending"
    BY DEF Fresh
  <2>4. SameCounts(r.task[t], m.task[t])
    BY <2>1 DEF SameCounts, Fresh
  <2> QED
    BY <2>1, <2>2, <2>3, <2>4
    DEF Status, Steady, AbsentIsFresh, AwaitsGraph, CancelHolds, DoneHolds, CancelledHolds,
        ClaimCovers, ReviewHasRef, WithdrawnIsFrozen, NonceCounts
<1>3. NothingNew(r, m)
  BY <1>1, <1>2 DEF NothingNew, GoesOn, SameCounts, SameFor
<1>4. Good(m)
  BY <1>1, <1>2, <1>3, NothingNewGood DEF Executing
<1>5. Final(r, m)
  <2>1. \A t \in Tasks \cap S : r.task[t].state \notin {"done", "cancelled"}
    OBVIOUS
  <2> HIDE DEF S
  <2> QED
    BY <1>1, <2>1, SameIsFinal
<1> QED
  BY <1>4, <1>5

\* A pending task has the type of a task.
LEMMA PendingTyped == Fresh("pending") \in TaskRecords
BY DEF Fresh, TaskRecords, TaskStates, Phases

\* Accepting the graph keeps the invariant.
LEMMA DagAcceptedKeeps ==
  ASSUME Inv, DagAccepted
  PROVE  Inv' /\ Final(run, run')
<1>1. PICK r : r = run
  OBVIOUS
<1> DEFINE f == [t \in Tasks |-> IF t \in plan.dag THEN Fresh("pending") ELSE r.task[t]]
           m == [r EXCEPT !.life = "active", !.task = f]
<1>2. Good(r) /\ plan \in Plans /\ Typed(r) /\ r.life = "awaiting-dag"
  BY <1>1 DEF Inv, DagAccepted, Good
<1>3. r \in Ledgers /\ r.task \in [Tasks -> TaskRecords]
  BY <1>2, Parts DEF Typed
<1>4. Commit(m)
  BY <1>1, <1>3 DEF DagAccepted, Ledgers
<1>5. f \in [Tasks -> TaskRecords]
  BY <1>3, PendingTyped
<1>6. \A t \in Tasks : r.task[t].state = "absent"
  BY <1>2 DEF Good, Status, Steady, AwaitsGraph
<1>7. \A t \in Tasks : f[t] = r.task[t] \/ f[t] = Fresh("pending")
  OBVIOUS
<1> HIDE DEF f
<1>8. /\ Typed(m) /\ m.life # "awaiting-dag" /\ m.asg = r.asg /\ m.claim = r.claim /\ m.d1 = r.d1
      /\ m.task = f
  BY <1>2, <1>3, <1>5 DEF Typed, Ledgers, Lifecycles
<1> HIDE DEF m
<1>9. Good(m) /\ Final(r, m)
  BY <1>2, <1>6, <1>7, <1>8, GraphGood
<1> QED
  BY <1>1, <1>4, <1>9, Committed

\* Cancelling the tasks of S, one after the other.
LEMMA CancelAllGood ==
  ASSUME NEW r, Good(r), plan \in Plans, NEW S \in SUBSET Tasks, NEW l \in Lifecycles \ {"awaiting-dag"},
         \A t \in S : r.task[t].state \notin {"absent", "done", "cancelled"}
  PROVE  LET m == Applied([Localised(r, S) EXCEPT !.life = l], S) IN Good(m) /\ Final(r, m)
<1> DEFINE a == Localised(r, S)
           b == [a EXCEPT !.life = l]
           m == Applied(b, S)
<1>1. Typed(r) /\ \A t \in Tasks : Steady(r, t)
  BY DEF Good, Status
<1>2. /\ Typed(a) /\ Within(r, a, S) /\ NothingNew(r, a)
      /\ a.task = r.task /\ a.d1 = r.d1 /\ \A t \in Tasks : Steady(a, t)
  BY <1>1, LocalCancelAll
<1> HIDE DEF a
<1>3. /\ Typed(b) /\ b.life # "awaiting-dag" /\ b.revised = a.revised /\ b.deps = a.deps
      /\ b.task = a.task /\ b.asg = a.asg /\ b.claim = a.claim /\ b.d1 = a.d1 /\ b.obs = a.obs
  BY <1>2 DEF Typed, Ledgers
<1> HIDE DEF b
<1>4. \A t \in Tasks : SameFor(a, b, t)
  BY <1>3 DEF SameFor, Of
<1>5. NothingNew(a, b)
  BY <1>3 DEF NothingNew, GoesOn, SameCounts
<1>6. \A t \in Tasks : Steady(b, t)
  BY <1>2, <1>4, SteadyStays
<1>7. \A t \in S : b.task[t].state \notin {"absent", "done", "cancelled"}
  BY <1>2, <1>3
<1>8. /\ Typed(m) /\ Within(b, m, S) /\ NothingNew(b, m)
      /\ \A t \in S : Status(m, t) /\ m.task[t].state \in {"blocked", "cancelled"}
  BY <1>3, <1>6, <1>7, ApplyCancelAll
<1> HIDE DEF m
<1>9. NothingNew(r, m)
  BY <1>2, <1>5, <1>8, NothingNewTwice
<1>10. ASSUME NEW t \in Tasks \ S PROVE SameFor(r, m, t)
  <2>1. SameFor(r, a, t) /\ SameFor(a, b, t) /\ SameFor(b, m, t)
    BY <1>2, <1>4, <1>8, WithinSame
  <2>2. m.life # "awaiting-dag"
    BY <1>3, <1>8 DEF Within
  <2> QED
    BY <2>1, <2>2 DEF SameFor
<1>11. Good(m)
  BY <1>8, <1>9, <1>10, NothingNewGood DEF Executing
<1>12. Final(r, m)
  BY <1>10, SameIsFinal
<1> QED
  BY <1>11, <1>12 DEF m, b, a

\* Cancelling the run keeps the invariant, ...
LEMMA RunCancelledKeeps ==
  ASSUME Inv, RunCancelled
  PROVE  Inv' /\ Final(run, run')
<1>1. PICK r : r = run
  OBVIOUS
<1>2. PICK S : S = {t \in Tasks : r.task[t].state \notin {"absent", "done", "cancelled"}}
  OBVIOUS
<1>3. Good(r) /\ plan \in Plans
  BY <1>1 DEF Inv
<1>4. PICK m : m = Applied([Localised(r, S) EXCEPT !.life = "cancelled"], S)
  OBVIOUS
<1>5. Commit(m)
  BY <1>1, <1>2, <1>4 DEF RunCancelled, Localised, Applied
<1>6. Good(m) /\ Final(r, m)
  BY <1>2, <1>3, <1>4, CancelAllGood DEF Lifecycles
<1> QED
  BY <1>1, <1>5, <1>6, Committed

\* ... and so does revising the graph, with the tasks it cancels.
LEMMA DagRevisedKeeps ==
  ASSUME Inv, NEW S \in SUBSET Tasks, DagRevised(S)
  PROVE  Inv' /\ Final(run, run')
<1>1. PICK r : r = run
  OBVIOUS
<1>2. PICK a : a = Localised(r, S)
  OBVIOUS
<1>3. PICK c : c = Applied(a, S)
  OBVIOUS
<1> DEFINE f == [t \in Tasks |-> IF c.task[t].state = "absent" THEN Fresh("pending") ELSE c.task[t]]
           g == [t \in Tasks |-> IF c.task[t].state \in {"absent", "pending", "ready"}
                                 THEN plan.deps2[t] ELSE c.deps[t]]
           m == [c EXCEPT !.revised = TRUE, !.life = "active", !.deps = g, !.task = f]
<1>4. Good(r) /\ plan \in Plans /\ Typed(r) /\ \A t \in Tasks : Steady(r, t)
  BY <1>1 DEF Inv, Good, Status
<1>5. /\ r.life # "awaiting-dag"
      /\ \A t \in S : r.task[t].state \notin {"absent", "done", "cancelled"}
  BY <1>1 DEF DagRevised
<1>6. Typed(a) /\ a.life = r.life
  BY <1>2, <1>4, <1>5, LocalCancelAll DEF Within
<1>7. a = [a EXCEPT !.life = r.life]
  BY <1>6 DEF Typed, Ledgers
<1>8. r.life \in Lifecycles \ {"awaiting-dag"}
  BY <1>4, <1>5, Parts
<1>9. Good(c) /\ Final(r, c)
  BY <1>2, <1>3, <1>4, <1>5, <1>7, <1>8, CancelAllGood
<1>10. Typed(c) /\ c \in Ledgers /\ c.task \in [Tasks -> TaskRecords] /\ c.deps \in [Tasks -> SUBSET Tasks]
  BY <1>9, Parts DEF Good, Typed
<1>11. Commit(m)
  BY <1>1, <1>2, <1>3, <1>10 DEF DagRevised, Localised, Applied, Ledgers
<1>12. f \in [Tasks -> TaskRecords] /\ g \in [Tasks -> SUBSET Tasks]
  BY <1>4, <1>10, PendingTyped, PlanFacts
<1>13. \A t \in Tasks : f[t] = c.task[t] \/ (c.task[t].state = "absent" /\ f[t] = Fresh("pending"))
  OBVIOUS
<1> HIDE DEF f, g
<1>14. /\ Typed(m) /\ m.life # "awaiting-dag" /\ m.asg = c.asg /\ m.claim = c.claim /\ m.d1 = c.d1
       /\ m.task = f
  BY <1>10, <1>12 DEF Typed, Ledgers, Lifecycles
<1> HIDE DEF m
<1>15. Good(m) /\ Final(c, m)
  BY <1>4, <1>9, <1>13, <1>14, GraphGood
<1> QED
  BY <1>1, <1>9, <1>11, <1>15, FinalTwice, Committed

\* An operation on one task that is not final, after which it stands well.
LEMMA OneTaskGood ==
  ASSUME NEW r, Good(r), plan \in Plans, NEW m, NEW t \in Tasks, Typed(m),
         Within(r, m, {t}), NothingNew(r, m), Status(m, t),
         m.task[t].state \in Executing => r.task[t].state \in Executing,
         r.task[t].state \notin {"done", "cancelled"}
  PROVE  Good(m) /\ Final(r, m)
<1>1. \A u \in Tasks \ {t} : SameFor(r, m, u)
  BY WithinSame
<1>2. \A u \in Tasks \cap {t} : u = t
  OBVIOUS
<1>3. Good(m)
  BY <1>1, <1>2, NothingNewGood
<1>4. Final(r, m)
  BY <1>1, <1>2, SameIsFinal
<1> QED
  BY <1>3, <1>4

\* Cancelling one task keeps the invariant.
LEMMA CancelRequestedKeeps ==
  ASSUME Inv, NEW t \in Tasks, CancelRequested(t)
  PROVE  Inv' /\ Final(run, run')
<1>1. PICK r : r = run
  OBVIOUS
<1>2. PICK a : a = LocalCancel(r, t)
  OBVIOUS
<1>3. PICK m : m = ApplyCancel(a, t)
  OBVIOUS
<1>4. Good(r) /\ plan \in Plans /\ Typed(r) /\ Steady(r, t)
  BY <1>1 DEF Inv, Good, Status
<1>5. r.task[t].state \notin {"absent", "done", "cancelled"} /\ Commit(m)
  BY <1>1, <1>2, <1>3 DEF CancelRequested
<1>6. /\ Typed(a) /\ Within(r, a, {t}) /\ NothingNew(r, a)
      /\ a.task = r.task /\ Steady(a, t)
  BY <1>2, <1>4, <1>5, LocalCancelFacts
<1>7. CancelApplied(a, m, t)
  BY <1>3, <1>5, <1>6, ApplyCancelFacts
<1>8. Typed(m) /\ Within(r, m, {t}) /\ NothingNew(r, m)
  BY <1>6, <1>7, WithinTwice, NothingNewTwice DEF CancelApplied
<1>9. Status(m, t) /\ m.task[t].state \in {"blocked", "cancelled"}
  BY <1>7 DEF CancelApplied
<1>10. Good(m) /\ Final(r, m)
  BY <1>4, <1>5, <1>8, <1>9, OneTaskGood DEF Executing
<1> QED
  BY <1>1, <1>5, <1>10, Committed

\* The actors of task t from r to s: nothing that a task relies on changed of
\* them, but that an actor may have ended or begun, and only of a task not final.
ActorsStay(r, s, t) ==
  /\ s.task[t] = r.task[t] /\ s.claim[t] = r.claim[t] /\ s.d1[t] = r.d1[t] /\ s.life = r.life
  /\ Of(s, t) = Of(r, t)
  /\ \A i \in Of(r, t) :
       /\ GoesOn(r.asg[i], s.asg[i]) /\ s.asg[i].revoked = r.asg[i].revoked
       /\ s.asg[i].dispatch = r.asg[i].dispatch /\ s.asg[i].archive = r.asg[i].archive
       /\ r.task[t].state \in {"done", "cancelled"} => s.asg[i].state = r.asg[i].state

\* A task stands as it stood when its actors do.
LEMMA ActorsStayStatus ==
  ASSUME NEW r, NEW s, NEW t, ActorsStay(r, s, t), Status(r, t)
  PROVE  Status(s, t)
<1>1. /\ s.task[t] = r.task[t] /\ s.claim[t] = r.claim[t] /\ s.d1[t] = r.d1[t]
      /\ Of(s, t) = Of(r, t) /\ s.life = r.life
      /\ \A i \in Of(r, t) :
           /\ s.asg[i].revoked = r.asg[i].revoked /\ s.asg[i].dispatch = r.asg[i].dispatch
           /\ s.asg[i].archive = r.asg[i].archive /\ s.asg[i].purpose = r.asg[i].purpose
           /\ r.asg[i].state = "ended" => s.asg[i].state = "ended"
           /\ r.task[t].state \in {"done", "cancelled"} => s.asg[i].state = r.asg[i].state
           /\ s.asg[i].delivery = r.asg[i].delivery /\ s.asg[i].agent = r.asg[i].agent
           /\ s.asg[i].proof = r.asg[i].proof /\ s.asg[i].attempt = r.asg[i].attempt
           /\ s.asg[i].task = r.asg[i].task
  BY DEF ActorsStay, GoesOn
<1>2. ProducersOf(s, t) = ProducersOf(r, t) /\ ProducersOf(r, t) \subseteq Of(r, t)
  BY <1>1 DEF ProducersOf
<1>3. AbsentIsFresh(s, t) /\ AwaitsGraph(s, t) /\ CancelHolds(s, t) /\ ReviewHasRef(s, t)
  BY SMTT(40), <1>1 DEF Status, Steady, AbsentIsFresh, AwaitsGraph, CancelHolds, ReviewHasRef
<1>4. DoneHolds(s, t)
  BY <1>1 DEF Status, Steady, DoneHolds, Reviewed
<1>5. CancelledHolds(s, t)
  BY <1>1 DEF Status, Steady, CancelledHolds
<1>6. ClaimCovers(s, t)
  BY <1>1, <1>2 DEF Status, Steady, ClaimCovers
<1>7. WithdrawnIsFrozen(s, t) /\ NonceCounts(s, t)
  BY <1>1 DEF Status, WithdrawnIsFrozen, NonceCounts
<1> QED
  BY <1>3, <1>4, <1>5, <1>6, <1>7 DEF Status, Steady

\* One actor begins or ends a turn, or its evidence is noted or void.
LEMMA OneActorGood ==
  ASSUME NEW r, Good(r), plan \in Plans, NEW i \in DOMAIN r.asg,
         NEW x \in Assignments, GoesOn(r.asg[i], x), x.cancellation <= Len(r.obs),
         \A v \in {"revoked", "dispatch", "archive"} : x[v] = r.asg[i][v],
         r.task[r.asg[i].task].state \in {"done", "cancelled"} => x.state = r.asg[i].state
  PROVE  LET n == [r EXCEPT !.asg[i] = x] IN
         /\ Good(n) /\ Final(r, n) /\ NothingNew(r, n) /\ Within(r, n, {x.task})
         /\ DOMAIN n.asg = DOMAIN r.asg /\ n.asg[i] = x
         /\ \A j \in DOMAIN r.asg \ {i} : n.asg[j] = r.asg[j]
         /\ n.life = r.life /\ n.task = r.task /\ n.claim = r.claim /\ n.d1 = r.d1
         /\ n.obs = r.obs /\ n.gates = r.gates /\ n.deps = r.deps /\ n.revised = r.revised
<1> DEFINE t == r.asg[i].task
           n == [r EXCEPT !.asg[i] = x]
<1>1. Typed(r)
  BY DEF Good
<1>2. t \in Tasks /\ i \in Of(r, t) /\ x.task = t
  BY <1>1, Parts DEF Of, GoesOn
<1>3. x.revoked = r.asg[i].revoked /\ x.dispatch = r.asg[i].dispatch /\ x.archive = r.asg[i].archive
  OBVIOUS
<1>4. /\ Typed(n) /\ DOMAIN n.asg = DOMAIN r.asg /\ n.asg[i] = x
      /\ \A j \in DOMAIN r.asg \ {i} : n.asg[j] = r.asg[j]
      /\ n.life = r.life /\ n.revised = r.revised /\ n.deps = r.deps /\ n.task = r.task
      /\ n.claim = r.claim /\ n.d1 = r.d1 /\ n.gates = r.gates /\ n.obs = r.obs
      /\ \A u \in Tasks : Of(n, u) = Of(r, u)
      /\ \A u \in Tasks \ {x.task} : SameFor(r, n, u)
  BY <1>1, <1>2, OneAsg
<1> HIDE DEF n
<1>5. NothingNew(r, n)
  BY <1>4 DEF NothingNew, GoesOn, SameCounts
<1>6. ActorsStay(r, n, t)
  <2>1. \A j \in Of(r, t) : j \in DOMAIN r.asg
    BY DEF Of
  <2>2. \A j \in Of(r, t) : GoesOn(r.asg[j], n.asg[j])
    BY <1>5, <2>1 DEF NothingNew
  <2>3. \A j \in Of(r, t) \ {i} : n.asg[j] = r.asg[j]
    BY <1>4, <2>1
  <2> HIDE DEF t
  <2>4. r.task[t].state \in {"done", "cancelled"} => n.asg[i].state = r.asg[i].state
    BY <1>4 DEF t
  <2> QED
    BY <1>2, <1>3, <1>4, <2>2, <2>3, <2>4 DEF ActorsStay
<1>7. Status(n, t)
  BY <1>2, <1>6, ActorsStayStatus DEF Good
<1>8. Good(n)
  <2>1. \A u \in Tasks \ {t} : SameFor(r, n, u)
    BY <1>2, <1>4
  <2>2. \A u \in Tasks \cap {t} :
          Status(n, u) /\ (n.task[u].state \in Executing => r.task[u].state \in Executing)
    BY <1>4, <1>7
  <2> HIDE DEF t
  <2> QED
    BY <1>4, <1>5, <2>1, <2>2, NothingNewGood
<1>9. Final(r, n)
  <2>1. \A j \in DOMAIN r.asg : n.asg[j].task = r.asg[j].task
    BY <1>2, <1>4
  <2>2. \A j \in DOMAIN r.asg : r.task[r.asg[j].task].state \in {"done", "cancelled"} =>
          n.asg[j].state = r.asg[j].state
    BY <1>4
  <2> QED
    BY <1>4, <2>1, <2>2 DEF Final
<1>10. Within(r, n, {x.task})
  <2>1. \A j \in DOMAIN r.asg : /\ n.asg[j].task = r.asg[j].task
                                /\ r.asg[j].task \notin {x.task} => n.asg[j] = r.asg[j]
    BY <1>2, <1>4
  <2> QED
    BY <1>4, <2>1 DEF Within
<1> QED
  BY <1>4, <1>5, <1>8, <1>9, <1>10 DEF n

\* A task whose cancellation has all the evidence it waits for is cancelled.
LEMMA ReleaseGood ==
  ASSUME NEW r, Good(r), plan \in Plans, NEW t \in Tasks
  PROVE  Good(ReleaseIfSettled(r, t)) /\ Final(r, ReleaseIfSettled(r, t))
<1> DEFINE pairs == r.d1[t].pairs
           settled == /\ pairs # {} /\ \A i \in pairs : Complete167(r, i)
                      /\ Outstanding(r, t) \subseteq pairs
                      /\ ~UnsettledEffects(r, Of(r, t))
                      /\ r.d1[t].state = "answered"
<1>1. Typed(r) /\ Status(r, t)
  BY DEF Good
<1>2. CASE ~settled
  <2>1. ReleaseIfSettled(r, t) = r
    BY <1>2 DEF ReleaseIfSettled
  <2>2. Final(r, r)
    BY DEF Final
  <2> QED
    BY <2>1, <2>2
<1>3. CASE settled
  <2> DEFINE f == [i \in DOMAIN r.asg |-> IF i \in pairs
                     THEN [r.asg[i] EXCEPT !.cancellation = Len(r.obs)] ELSE r.asg[i]]
             c == [r EXCEPT !.asg = f]
             m == MarkCancelled(c, t)
             x == [m.task[t] EXCEPT !.released = TRUE]
             s == [m EXCEPT !.task[t] = x]
  <2>1. Len(r.obs) \in Nat /\ (\A i \in DOMAIN r.asg : r.asg[i] \in Assignments) /\ r \in Ledgers
        /\ r.task[t] \in TaskRecords /\ DOMAIN r.asg \subseteq Ids
    BY <1>1, Parts DEF Typed
  <2>2. \A i \in DOMAIN r.asg :
          /\ f[i] \in Assignments /\ GoesOn(r.asg[i], f[i]) /\ f[i].state = r.asg[i].state
          /\ f[i].dispatch = r.asg[i].dispatch /\ f[i].archive = r.asg[i].archive
          /\ i \in pairs => f[i].cancellation = Len(r.obs)
          /\ i \notin pairs => f[i] = r.asg[i]
    <3>1. \A a \in Assignments, k \in Nat :
            LET b == [a EXCEPT !.cancellation = k] IN
            /\ b \in Assignments /\ GoesOn(a, b) /\ b.state = a.state /\ b.dispatch = a.dispatch
            /\ b.archive = a.archive /\ b.cancellation = k
      BY DEF Assignments, GoesOn
    <3>2. \A a : GoesOn(a, a)
      BY DEF GoesOn
    <3> QED
      BY <2>1, <3>1, <3>2
  <2>3. f \in [DOMAIN r.asg -> Assignments] /\ \A i \in DOMAIN r.asg : f[i].cancellation <= Len(r.obs)
    <3>1. DOMAIN f = DOMAIN r.asg /\ f = [i \in DOMAIN f |-> f[i]]
      OBVIOUS
    <3>2. \A i \in DOMAIN r.asg : r.asg[i].cancellation <= Len(r.obs)
      BY <1>1 DEF Typed
    <3>3. Len(r.obs) <= Len(r.obs)
      BY <2>1
    <3> HIDE DEF f
    <3>4. \A i \in DOMAIN r.asg : f[i].cancellation <= Len(r.obs)
      BY <2>2, <3>2, <3>3
    <3> QED
      BY <2>2, <3>1, <3>4
  <2>4. r.d1[t].pairs \subseteq Of(r, t) /\ r.task[t].state \in {"blocked", "cancelled"}
        /\ r.d1[t].pairs # {} /\ r.d1[t].state = "answered"
    BY <1>1, <1>3 DEF Status, Steady, CancelHolds
  <2> HIDE DEF f
  <2>5. /\ Typed(c) /\ c.asg = f /\ DOMAIN c.asg = DOMAIN r.asg
        /\ c.life = r.life /\ c.revised = r.revised /\ c.deps = r.deps /\ c.task = r.task
        /\ c.claim = r.claim /\ c.d1 = r.d1 /\ c.gates = r.gates /\ c.obs = r.obs
    BY <1>1, <2>3, NewAsg
  <2> HIDE DEF c
  <2>6. \A i \in DOMAIN r.asg : c.asg[i].task = r.asg[i].task
    BY <2>2, <2>5 DEF GoesOn
  <2>7. Within(r, c, {t}) /\ NothingNew(r, c) /\ Of(c, t) = Of(r, t)
    <3>1. \A i \in DOMAIN r.asg : r.asg[i].task \notin {t} => c.asg[i] = r.asg[i]
      BY <2>2, <2>4, <2>5 DEF Of
    <3> QED
      BY <2>2, <2>5, <2>6, <3>1 DEF Within, NothingNew, SameCounts, Of
  <2>8. IsCancelled(c, m, t)
    BY <2>5, MarkFacts
  <2>9. ReleaseIfSettled(r, t) = s
    <3>1. ReleaseIfSettled(r, t) = [m EXCEPT !.task[t].released = TRUE]
      BY <1>3 DEF ReleaseIfSettled, m, c, f
    <3> HIDE DEF m
    <3>2. m \in Ledgers
      BY <2>8 DEF IsCancelled, Typed
    <3> QED
      BY SMTT(40), <3>1, <3>2 DEF Ledgers
  <2> HIDE DEF m
  <2>10. m.task[t] = [r.task[t] EXCEPT !.state = "cancelled", !.phase = "none"] /\ Typed(m)
    BY <2>5, <2>8 DEF IsCancelled
  <2>11. x = [r.task[t] EXCEPT !.state = "cancelled", !.phase = "none", !.released = TRUE]
    BY <2>1, <2>10 DEF TaskRecords
  <2>12. /\ x \in TaskRecords /\ x.state = "cancelled" /\ x.phase = "none" /\ x.released
         /\ SameCounts(r.task[t], x)
    BY <2>1, <2>11 DEF TaskRecords, TaskStates, Phases, SameCounts
  <2>13. /\ r.task[t].state = "cancelled" => x = r.task[t]
    <3>1. r.task[t].state = "cancelled" => r.task[t].phase = "none" /\ r.task[t].released = TRUE
      BY <1>1, <2>1, <2>4 DEF Status, Steady, CancelledHolds, TaskRecords
    <3>2. \A a \in TaskRecords : a.state = "cancelled" /\ a.phase = "none" /\ a.released = TRUE =>
             [a EXCEPT !.state = "cancelled", !.phase = "none", !.released = TRUE] = a
      BY DEF TaskRecords
    <3> HIDE DEF x
    <3> QED
      BY <2>1, <2>11, <3>1, <3>2
  <2> HIDE DEF x
  <2>14. /\ Typed(s) /\ s.task[t] = x /\ \A u \in Tasks \ {t} : s.task[u] = m.task[u]
         /\ s.life = m.life /\ s.revised = m.revised /\ s.deps = m.deps /\ s.asg = m.asg
         /\ s.claim = m.claim /\ s.d1 = m.d1 /\ s.gates = m.gates /\ s.obs = m.obs
    BY <2>10, <2>12, NewTask
  <2> HIDE DEF s
  <2>15. Within(c, s, {t}) /\ NothingNew(c, s)
    <3>1. Within(c, m, {t}) /\ NothingNew(c, m)
      BY <2>8 DEF IsCancelled
    <3>2. SameCounts(c.task[t], s.task[t])
      BY <2>5, <2>12, <2>14
    <3>3. \A u \in Tasks : SameCounts(c.task[u], s.task[u])
      BY <2>14, <3>1, <3>2 DEF NothingNew
    <3> QED
      BY <2>14, <3>1, <3>3 DEF Within, NothingNew
  <2>16. Within(r, s, {t}) /\ NothingNew(r, s)
    BY <2>7, <2>15, WithinTwice, NothingNewTwice
  <2>17. s.d1[t] = r.d1[t] /\ s.claim[t] = NoClaim /\ Of(s, t) = Of(r, t) /\ s.life = r.life
    BY <2>5, <2>8, <2>14, <2>16 DEF IsCancelled, Within, Of
  <2>18. \A i \in Of(r, t) :
           /\ s.asg[i].state = IF r.asg[i].state = "ended" THEN "ended" ELSE "cancelled"
           /\ s.asg[i].revoked # "no" /\ s.asg[i].dispatch = r.asg[i].dispatch
           /\ s.asg[i].archive = r.asg[i].archive
    <3>1. \A i \in Of(r, t) : i \in DOMAIN r.asg
      BY DEF Of
    <3>2. \A i \in Of(r, t) : /\ c.asg[i].state = r.asg[i].state
                              /\ c.asg[i].dispatch = r.asg[i].dispatch
                              /\ c.asg[i].archive = r.asg[i].archive
      BY <2>2, <2>5, <3>1
    <3> QED
      BY <2>7, <2>8, <2>14, <3>2 DEF IsCancelled
  <2>19. ActorsOut(s, t)
    <3>1. \A i \in Of(r, t) : r.asg[i].dispatch # "prepared" /\ r.asg[i].archive # "prepared"
      BY <1>3 DEF UnsettledEffects
    <3>2. \A i \in Of(r, t) : i \in pairs \/ ActorSettled(r, i)
      BY <1>3 DEF Outstanding
    <3>3. \A i \in Of(r, t) : i \in pairs \/ r.asg[i].state = "ended" \/ r.asg[i].dispatch = "withdrawn"
      BY <3>2 DEF ActorSettled, NormalEnded, LocalNeverSent, Complete167, Quiescent, Of
    <3> QED
      BY <2>17, <2>18, <3>1, <3>3 DEF ActorsOut
  <2>20. Status(s, t)
    <3>1. s.life # "awaiting-dag"
      BY <1>1, <2>4, <2>17 DEF Status, Steady, AwaitsGraph
    <3> QED
      BY <2>4, <2>12, <2>14, <2>17, <2>19, <3>1, CancelledStatus
  <2>21. \A u \in Tasks \ {t} : SameFor(r, s, u)
    BY <2>16, WithinSame
  <2>22. Good(s)
    <3>1. \A u \in Tasks \cap {t} :
            Status(s, u) /\ (s.task[u].state \in Executing => r.task[u].state \in Executing)
      BY <2>12, <2>14, <2>20 DEF Executing
    <3> QED
      BY <2>14, <2>16, <2>21, <3>1, NothingNewGood
  <2>23. Final(r, s)
    <3>1. ASSUME NEW u \in Tasks \ {t}
          PROVE  /\ s.task[u] = r.task[u] /\ s.claim[u] = r.claim[u]
                 /\ \A i \in DOMAIN s.asg : s.asg[i].task = u =>
                     /\ i \in DOMAIN r.asg /\ r.asg[i].task = u /\ s.asg[i].state = r.asg[i].state
      BY <2>21 DEF SameFor, Of
    <3>2. ASSUME r.task[t].state \in {"done", "cancelled"}
          PROVE  /\ s.task[t] = r.task[t] /\ s.claim[t] = r.claim[t]
                 /\ \A i \in DOMAIN s.asg : s.asg[i].task = t =>
                     /\ i \in DOMAIN r.asg /\ r.asg[i].task = t /\ s.asg[i].state = r.asg[i].state
      <4>1. r.task[t].state = "cancelled"
        BY <2>4, <3>2
      <4>2. s.task[t] = r.task[t] /\ r.claim[t] = NoClaim
        BY <1>1, <2>13, <2>14, <4>1 DEF Status, Steady, CancelledHolds
      <4>3. \A i \in Of(r, t) : s.asg[i].state = r.asg[i].state
        BY <1>1, <2>18, <4>1 DEF Status, Steady, CancelledHolds
      <4> QED
        BY <2>17, <4>2, <4>3 DEF Of
    <3> QED
      BY <3>1, <3>2 DEF Final
  <2> QED
    BY <2>9, <2>22, <2>23
<1> QED
  BY <1>2, <1>3

\* A task frozen again with the pairs it has.
LEMMA FreezeGood ==
  ASSUME NEW r, Good(r), plan \in Plans, NEW t \in Tasks, r.task[t].state # "absent"
  PROVE  LET m == Freeze(r, t, r.d1[t].pairs) IN
         Good(m) /\ Final(r, m) /\ Within(r, m, {t}) /\ NothingNew(r, m)
<1> DEFINE pairs == r.d1[t].pairs
           m == Freeze(r, t, pairs)
<1>1. Typed(r) /\ Status(r, t) /\ Steady(r, t)
  BY DEF Good, Status
<1>2. CASE r.task[t].state \in {"done", "cancelled"}
  <2>1. m = r
    BY <1>2 DEF Freeze
  <2>2. Final(r, r) /\ Within(r, r, {t}) /\ NothingNew(r, r)
    BY DEF Final, Within, NothingNew, GoesOn, SameCounts
  <2> HIDE DEF m
  <2> QED
    BY <2>1, <2>2 DEF m
<1>3. CASE r.task[t].state \notin {"done", "cancelled"}
  <2>1. pairs \subseteq Of(r, t) /\ pairs \in SUBSET Ids
    BY <1>1, Parts DEF Steady, CancelHolds, Of
  <2>2. IsFrozen(r, m, t, pairs)
    BY <1>1, <1>3, <2>1, FreezeFacts
  <2> HIDE DEF m
  <2>3. Status(m, t)
    BY <1>1, <1>3, <2>1, <2>2, FrozenStatus
  <2>4. /\ Typed(m) /\ Within(r, m, {t}) /\ NothingNew(r, m) /\ m.task[t].state = "blocked"
    BY <2>2 DEF IsFrozen
  <2>5. Good(m) /\ Final(r, m)
    BY <1>3, <2>3, <2>4, OneTaskGood DEF Executing
  <2> QED
    BY <2>4, <2>5 DEF m
<1> QED
  BY <1>2, <1>3

\* One task moves on; its counts and its actors stay.
LEMMA TaskGood ==
  ASSUME NEW r, Good(r), plan \in Plans, NEW t \in Tasks, NEW x \in TaskRecords,
         SameCounts(r.task[t], x),
         r.task[t].state \notin {"done", "cancelled", "absent"},
         \/ x.state = r.task[t].state
         \/ r.task[t].state \in {"assigned", "in_progress"} /\ x.state \in {"assigned", "in_progress"}
  PROVE  LET m == [r EXCEPT !.task[t] = x] IN
         Good(m) /\ Final(r, m) /\ m.asg = r.asg /\ m.task[t] = x /\ m.claim = r.claim
         /\ m.d1 = r.d1 /\ m.life = r.life /\ m.obs = r.obs
<1> DEFINE m == [r EXCEPT !.task[t] = x]
<1>1. Typed(r) /\ Status(r, t)
  BY DEF Good
<1>2. /\ Typed(m) /\ m.task[t] = x /\ \A u \in Tasks \ {t} : m.task[u] = r.task[u]
      /\ m.life = r.life /\ m.revised = r.revised /\ m.deps = r.deps /\ m.asg = r.asg
      /\ m.claim = r.claim /\ m.d1 = r.d1 /\ m.gates = r.gates /\ m.obs = r.obs
  BY <1>1, NewTask
<1> HIDE DEF m
<1>3. Within(r, m, {t})
  BY <1>2 DEF Within
<1>4. NothingNew(r, m)
  <2>1. \A u \in Tasks : SameCounts(r.task[u], m.task[u])
    BY <1>2 DEF SameCounts
  <2> QED
    BY <1>2, <2>1 DEF NothingNew, GoesOn
<1>5. Of(m, t) = Of(r, t) /\ ProducersOf(m, t) = ProducersOf(r, t)
  BY <1>2 DEF Of, ProducersOf
<1>6. Status(m, t)
  <2>1. /\ AbsentIsFresh(m, t) /\ AwaitsGraph(m, t) /\ CancelHolds(m, t) /\ DoneHolds(m, t)
        /\ CancelledHolds(m, t)
    BY <1>1, <1>2, <1>5
    DEF Status, Steady, AbsentIsFresh, AwaitsGraph, CancelHolds, DoneHolds, CancelledHolds
  <2>2. ClaimCovers(m, t) /\ ReviewHasRef(m, t)
    BY <1>1, <1>2, <1>5 DEF Status, Steady, ClaimCovers, ReviewHasRef, SameCounts
  <2>3. WithdrawnIsFrozen(m, t) /\ NonceCounts(m, t)
    BY <1>1, <1>2, <1>5 DEF Status, WithdrawnIsFrozen, NonceCounts
  <2> QED
    BY <2>1, <2>2, <2>3 DEF Status, Steady
<1>7. m.task[t].state \in Executing => r.task[t].state \in Executing
  BY <1>2 DEF Executing
<1>8. Good(m) /\ Final(r, m)
  BY <1>2, <1>3, <1>4, <1>6, <1>7, OneTaskGood
<1> QED
  BY <1>2, <1>8 DEF m

\* A set of ids that is not empty has a greatest one.
LEMMA Greatest ==
  ASSUME NEW n \in Nat, NEW T, T \subseteq 1 .. n, T # {}
  PROVE  \E x \in T : \A y \in T : y <= x
<1> DEFINE U == {n - y : y \in T}
<1>1. U \subseteq Nat /\ U # {}
  <2>1. \A y \in T : y \in 1 .. n
    OBVIOUS
  <2>2. \A y \in 1 .. n : n - y \in Nat
    OBVIOUS
  <2>3. \A y \in T : n - y \in Nat
    BY <2>1, <2>2
  <2> QED
    BY <2>3
<1>2. PICK u \in U : \A v \in U : ~(v < u)
  BY <1>1, LeastElement
<1>3. PICK x \in T : u = n - x
  OBVIOUS
<1>4. \A y \in T : ~(n - y < n - x)
  BY <1>2, <1>3
<1> QED
  BY <1>4

\* A task with a producer has a last one.
LEMMA LastExists ==
  ASSUME NEW r, Typed(r), NEW t \in Tasks, ProducersOf(r, t) # {}
  PROVE  \E l : IsLast(r, t, l)
<1>1. Len(r.asg) \in Nat /\ ProducersOf(r, t) \subseteq 1 .. Len(r.asg)
  BY Parts DEF ProducersOf, Of
<1> QED
  BY <1>1, Greatest DEF IsLast

\* The head of the current attempt is the last producer, and the last producer is
\* the head when its attempt is not shared.
LEMMA HeadIsLast ==
  ASSUME NEW r, Typed(r), NEW t \in Tasks, LastIsHead(r, t), ProducerHead(r, t) # 0
  PROVE  /\ IsLast(r, t, ProducerHead(r, t))
         /\ r.asg[ProducerHead(r, t)].attempt = r.task[t].attempts
         /\ r.asg[ProducerHead(r, t)].successor = 0
<1> DEFINE heads == {i \in ProducersOf(r, t) :
                       r.asg[i].attempt = r.task[t].attempts /\ r.asg[i].successor = 0}
<1>1. Len(r.asg) \in Nat /\ ProducersOf(r, t) \subseteq 1 .. Len(r.asg)
  BY Parts DEF ProducersOf, Of
<1>2. Cardinality(heads) = 1 /\ ProducerHead(r, t) = CHOOSE i \in heads : TRUE
  BY DEF ProducerHead
<1>3. IsFiniteSet(heads)
  <2>1. heads \subseteq 1 .. Len(r.asg) /\ IsFiniteSet(1 .. Len(r.asg))
    BY <1>1, FS_Interval
  <2> HIDE DEF heads
  <2> QED
    BY <2>1, FS_Subset
<1>4. PICK h : heads = {h}
  <2> HIDE DEF heads
  <2> QED
    BY <1>2, <1>3, FS_Singleton
<1>5. ProducerHead(r, t) = h /\ h \in heads
  <2> HIDE DEF heads
  <2> QED
    BY <1>2, <1>4
<1>6. PICK l : IsLast(r, t, l)
  BY <1>5, LastExists
<1>7. l \in heads
  BY <1>6 DEF IsLast, LastIsHead
<1>8. l = h
  <2> HIDE DEF heads
  <2> QED
    BY <1>4, <1>7
<1> QED
  BY <1>5, <1>6, <1>8

\* What a task points at is its delivery, when it has one.
LEMMA DeliveryIsRef ==
  ASSUME NEW r, Typed(r), NEW t \in Tasks, History(r, t), Delivery(r, t) # 0
  PROVE  /\ IsLast(r, t, Delivery(r, t)) /\ DoneReport(r, Delivery(r, t))
         /\ r.asg[Delivery(r, t)].attempt = r.task[t].attempts
         /\ r.task[t].ref # 0 => Delivery(r, t) = r.task[t].ref
<1>1. ProducerHead(r, t) # 0 /\ Delivery(r, t) = ProducerHead(r, t) /\ DoneReport(r, Delivery(r, t))
  BY DEF Delivery
<1>2. IsLast(r, t, ProducerHead(r, t)) /\ r.asg[ProducerHead(r, t)].attempt = r.task[t].attempts
  BY <1>1, HeadIsLast DEF History
<1>3. ASSUME r.task[t].ref # 0 PROVE Delivery(r, t) = r.task[t].ref
  <2>1. IsLast(r, t, r.task[t].ref) /\ IsLast(r, t, Delivery(r, t))
    BY <1>1, <1>2, <1>3 DEF History, RefIsDelivery
  <2>2. \A i \in ProducersOf(r, t) : i \in Nat
    BY SMTT(40), Parts DEF ProducersOf, Of
  <2> QED
    BY <2>1, <2>2 DEF IsLast
<1> QED
  BY <1>1, <1>2, <1>3

\* A delivery that passed the gate was reviewed, and its actors all ended.
LEMMA GateIsReview ==
  ASSUME NEW r, Typed(r), NEW t \in Tasks, \A u \in Tasks : History(r, u), Status(r, t),
         r.task[t].state = "review", DoneGate(r, t)
  PROVE  Reviewed(r, t)
<1> DEFINE d == Delivery(r, t)
           asked == {i \in Of(r, t) : r.asg[i].delivery = r.task[t].ref}
<1>1. /\ d # 0 /\ ValidDelivery(r, d) /\ AllPassed(r, RepliesTo(r, d, "reviewer"))
      /\ t \in plan.smoke => AllPassed(r, RepliesTo(r, d, "smoker"))
      /\ \A i \in Of(r, t) : ActorSettled(r, i)
  BY DEF DoneGate
<1>2. r.task[t].ref # 0 /\ r.d1[t].pairs = {}
  BY DEF Status, Steady, ReviewHasRef, CancelHolds
<1>3. d = r.task[t].ref /\ IsLast(r, t, d) /\ r.asg[d].attempt = r.task[t].attempts
  BY <1>1, <1>2, DeliveryIsRef
<1> HIDE DEF d
<1>4. d \in ProducersOf(r, t) /\ d \in Of(r, t) /\ r.asg[d].task = t
  BY <1>3 DEF IsLast, ProducersOf, Of
<1>5. \A i \in DOMAIN r.asg : r.asg[i].delivery = d => i \in Of(r, t)
  <2>1. \A i \in DOMAIN r.asg : r.asg[i].task \in Tasks
    BY Parts
  <2>2. ASSUME NEW i \in DOMAIN r.asg, r.asg[i].delivery = d PROVE i \in Of(r, t)
    <3>1. i \in Of(r, r.asg[i].task) /\ RepliesFit(r, r.asg[i].task)
      BY <2>1 DEF Of, History
    <3>2. r.asg[i].delivery # 0
      BY <1>1, <2>2 DEF d
    <3>3. d \in ProducersOf(r, r.asg[i].task)
      BY <2>2, <3>1, <3>2 DEF RepliesFit
    <3>4. r.asg[i].task = t
      BY <1>4, <3>3 DEF ProducersOf, Of
    <3> QED
      BY <3>4 DEF Of
  <2> QED
    BY <2>2
<1>6. \A i \in RepliesTo(r, d, "reviewer") \cup RepliesTo(r, d, "smoker") : i \in asked
  BY <1>3, <1>5 DEF RepliesTo
<1>7. \E i \in asked : r.asg[i].purpose = "reviewer" /\ r.asg[i].agent # r.asg[d].agent
  <2>1. PICK i \in RepliesTo(r, d, "reviewer") : Eligible(r, i)
    BY <1>1 DEF AllPassed
  <2>2. r.asg[i].purpose = "reviewer" /\ r.asg[i].delivery = d /\ i \in asked
    BY <1>6 DEF RepliesTo
  <2>3. r.asg[i].agent # r.asg[d].agent
    BY <2>1, <2>2 DEF Eligible
  <2> QED
    BY <2>2, <2>3
<1>8. t \in plan.smoke => \E i \in asked : r.asg[i].purpose = "smoker"
  <2> SUFFICES ASSUME t \in plan.smoke PROVE \E i \in asked : r.asg[i].purpose = "smoker"
    OBVIOUS
  <2>1. PICK i : i \in RepliesTo(r, d, "smoker")
    BY <1>1 DEF AllPassed
  <2> QED
    BY <1>6, <2>1 DEF RepliesTo
<1>9. ASSUME NEW i \in asked PROVE r.asg[i].proof = "pass"
  <2>1. i \in Of(r, t) /\ r.asg[i].delivery = d /\ i \in DOMAIN r.asg /\ r.asg[i].delivery # 0
    BY <1>2, <1>3 DEF Of
  <2>2. RepliesFit(r, t) /\ r.asg[i].purpose \in Purposes
    BY <2>1, Parts DEF History, Assignments
  <2>3. r.asg[i].purpose \in {"reviewer", "smoker"}
    BY <2>1, <2>2 DEF RepliesFit, Purposes
  <2>4. CASE r.asg[i].purpose = "reviewer"
    BY <1>1, <2>1, <2>4 DEF AllPassed, RepliesTo
  <2>5. CASE r.asg[i].purpose = "smoker"
    BY <1>1, <2>1, <2>2, <2>5 DEF AllPassed, RepliesTo, RepliesFit
  <2> QED
    BY <2>3, <2>4, <2>5
<1>10. \A i \in Of(r, t) : r.asg[i].state = "ended"
  <2>1. \A i \in Of(r, t) : r.asg[i].dispatch # "withdrawn"
    BY DEF Status, WithdrawnIsFrozen
  <2>2. \A i \in Of(r, t) : ~LocalNeverSent(r, i) /\ ~Complete167(r, i)
    BY <1>2, <2>1 DEF LocalNeverSent, Complete167, Quiescent, Of
  <2> QED
    BY <1>1, <2>2 DEF ActorSettled, NormalEnded
<1>11. r.asg[d].proof = "done"
  BY <1>1 DEF ValidDelivery
<1> QED
  BY <1>2, <1>3, <1>4, <1>7, <1>8, <1>9, <1>10, <1>11 DEF Reviewed

\* The gate is looked at: the task is done, or it stays in review.
LEMMA RecomputeGood ==
  ASSUME NEW r, Good(r), plan \in Plans, NEW t \in Tasks
  PROVE  Good(RecomputeDone(r, t)) /\ Final(r, RecomputeDone(r, t))
<1> DEFINE x == [r.task[t] EXCEPT !.phase = IF t \in plan.smoke THEN "smoke" ELSE @]
           a == [r EXCEPT !.task[t] = x]
           y == [a.task[t] EXCEPT !.state = "done", !.phase = "none"]
           b == [a EXCEPT !.task[t] = y]
           c == [b EXCEPT !.claim[t] = NoClaim]
<1>1. Typed(r) /\ r.task[t] \in TaskRecords /\ r \in Ledgers
  BY Parts DEF Good, Typed
<1>2. CASE r.task[t].state # "review" \/ r.task[t].phase = "awaiting-rework"
  <2>1. RecomputeDone(r, t) = r
    BY <1>2 DEF RecomputeDone
  <2> QED
    BY <2>1 DEF Final
<1>3. CASE ~(r.task[t].state # "review" \/ r.task[t].phase = "awaiting-rework")
  <2>1. /\ x \in TaskRecords /\ x.state = r.task[t].state /\ SameCounts(r.task[t], x)
        /\ r.task[t].state = "review"
    BY <1>1, <1>3 DEF TaskRecords, Phases, SameCounts
  <2>2. RecomputeDone(r, t) = IF DoneGate(a, t) THEN [a EXCEPT !.task[t].state = "done",
                                !.task[t].phase = "none", !.claim[t] = NoClaim] ELSE a
    <3>1. a = [r EXCEPT !.task[t].phase = IF t \in plan.smoke THEN "smoke" ELSE @]
      BY <1>1 DEF Ledgers
    <3> HIDE DEF a
    <3> QED
      BY <1>3, <3>1 DEF RecomputeDone
  <2> HIDE DEF x
  <2>3. Good(a) /\ Final(r, a) /\ a.task[t] = x
    BY <2>1, TaskGood
  <2> HIDE DEF a
  <2>4. CASE ~DoneGate(a, t)
    BY <2>2, <2>3, <2>4
  <2>5. CASE DoneGate(a, t)
    <3>1. Typed(a) /\ a \in Ledgers /\ a.task[t] \in TaskRecords /\ a.task[t].state = "review"
      BY <2>1, <2>3, Parts DEF Good, Typed
    <3>2. y \in TaskRecords /\ y.state = "done" /\ SameCounts(a.task[t], y)
      BY <3>1 DEF TaskRecords, TaskStates, Phases, SameCounts
    <3>3. NoClaim \in Claims /\ NoClaim.state = "none"
      BY DEF NoClaim, Claims
    <3>4. RecomputeDone(r, t) = c
      <4>1. [a EXCEPT !.task[t].state = "done", !.task[t].phase = "none", !.claim[t] = NoClaim] = c
        BY <3>1 DEF Ledgers
      <4> QED
        BY <2>2, <2>5, <4>1
    <3> HIDE DEF y
    <3>5. /\ Typed(b) /\ b.task[t] = y /\ \A u \in Tasks \ {t} : b.task[u] = a.task[u]
          /\ b.life = a.life /\ b.revised = a.revised /\ b.deps = a.deps /\ b.asg = a.asg
          /\ b.claim = a.claim /\ b.d1 = a.d1 /\ b.gates = a.gates /\ b.obs = a.obs
      BY <3>1, <3>2, NewTask
    <3> HIDE DEF b
    <3>6. /\ Typed(c) /\ c.claim[t] = NoClaim /\ \A u \in Tasks \ {t} : c.claim[u] = a.claim[u]
          /\ c.life = a.life /\ c.revised = a.revised /\ c.deps = a.deps /\ c.asg = a.asg
          /\ c.d1 = a.d1 /\ c.task = b.task /\ c.gates = a.gates /\ c.obs = a.obs
      BY <3>3, <3>5, NewClaim
    <3> HIDE DEF c
    <3>7. Within(a, c, {t})
      BY <3>5, <3>6 DEF Within
    <3>8. NothingNew(a, c)
      <4>1. \A u \in Tasks : SameCounts(a.task[u], c.task[u])
        BY <3>2, <3>5, <3>6 DEF SameCounts
      <4> QED
        BY <3>6, <4>1 DEF NothingNew, GoesOn
    <3>9. Of(c, t) = Of(a, t) /\ ProducersOf(c, t) = ProducersOf(a, t) /\ c.task[t] = y
      BY <3>5, <3>6 DEF Of, ProducersOf
    <3>10. Status(a, t) /\ Reviewed(a, t)
      BY SMTT(40), <2>3, <2>5, <3>1, GateIsReview DEF Good
    <3>11. Reviewed(c, t)
      BY <3>2, <3>6, <3>9, <3>10 DEF Reviewed, SameCounts
    <3>12. Status(c, t)
      <4>1. a.life # "awaiting-dag"
        BY <3>1, <3>10 DEF Status, Steady, AwaitsGraph
      <4>2. a.d1[t].state = "none" /\ a.d1[t].pairs = {}
        BY <3>1, <3>10 DEF Status, Steady, CancelHolds
      <4>3. \A i \in Of(a, t) : a.asg[i].state = "ended" /\ a.asg[i].dispatch # "withdrawn"
        BY <3>1, <3>10 DEF Reviewed, Status, WithdrawnIsFrozen
      <4>4. AbsentIsFresh(c, t) /\ AwaitsGraph(c, t) /\ CancelHolds(c, t) /\ CancelledHolds(c, t)
        BY <3>2, <3>6, <3>9, <4>1, <4>2
        DEF AbsentIsFresh, AwaitsGraph, CancelHolds, CancelledHolds
      <4>5. DoneHolds(c, t)
        BY <3>6, <3>11 DEF DoneHolds
      <4>6. ClaimCovers(c, t)
        BY <3>6, <3>9, <4>3 DEF ClaimCovers, ProducersOf
      <4>7. ReviewHasRef(c, t)
        BY <3>11 DEF ReviewHasRef, Reviewed
      <4>8. WithdrawnIsFrozen(c, t) /\ NonceCounts(c, t)
        BY <3>2, <3>6, <3>9, <4>3 DEF WithdrawnIsFrozen, NonceCounts
      <4> QED
        BY <4>4, <4>5, <4>6, <4>7, <4>8 DEF Status, Steady
    <3>13. Good(c) /\ Final(a, c)
      BY <2>3, <3>1, <3>2, <3>6, <3>7, <3>8, <3>9, <3>12, OneTaskGood DEF Executing
    <3> QED
      BY <2>3, <3>4, <3>13, FinalTwice
  <2> QED
    BY <2>4, <2>5
<1> QED
  BY <1>2, <1>3

\* An end of turn keeps the invariant.
LEMMA TurnEndedKeeps ==
  ASSUME Inv, NEW i \in DOMAIN run.asg, TurnEnded(i)
  PROVE  Inv' /\ Final(run, run')
<1>1. PICK r : r = run
  OBVIOUS
<1> DEFINE t == r.asg[i].task
           x == [r.asg[i] EXCEPT !.state = "ended"]
           n == [r EXCEPT !.asg[i] = x]
<1>2. Good(r) /\ plan \in Plans /\ Typed(r) /\ i \in DOMAIN r.asg
  BY <1>1 DEF Inv, Good
<1>3. r \in Ledgers /\ r.asg[i] \in Assignments /\ t \in Tasks
  BY <1>2, Parts DEF Typed
<1>4. r.asg[i].state # "cancelled"
  BY <1>1 DEF TurnEnded
<1>5. n = [r EXCEPT !.asg[i].state = "ended"]
  BY <1>2, <1>3 DEF Ledgers
<1>6. /\ x \in Assignments /\ GoesOn(r.asg[i], x) /\ x.state = "ended"
      /\ x.cancellation = r.asg[i].cancellation
      /\ \A v \in {"revoked", "dispatch", "archive"} : x[v] = r.asg[i][v]
  BY <1>3 DEF Assignments, GoesOn
<1>7. x.cancellation <= Len(r.obs)
  BY SMTT(40), <1>2, <1>6 DEF Typed
<1>8. r.task[t].state \in {"done", "cancelled"} => x.state = r.asg[i].state
  <2>1. Status(r, t) /\ i \in Of(r, t)
    BY <1>2, <1>3 DEF Good, Of
  <2> QED
    BY <1>4, <1>6, <2>1 DEF Status, Steady, DoneHolds, Reviewed, CancelledHolds
<1>9. PICK m : m = CASE r.task[t].state = "review" -> RecomputeDone(n, t)
                     [] r.task[t].state = "blocked" -> ReleaseIfSettled(n, t)
                     [] OTHER -> n
  BY SMTT(40)
<1>10. Commit(m)
  BY <1>1, <1>5, <1>9 DEF TurnEnded
<1> HIDE DEF x
<1>11. Good(n) /\ Final(r, n)
  BY <1>2, <1>6, <1>7, <1>8, OneActorGood
<1> HIDE DEF n
<1>12. Good(m) /\ Final(n, m)
  <2>1. Final(n, n)
    BY DEF Final
  <2>2. Good(RecomputeDone(n, t)) /\ Final(n, RecomputeDone(n, t))
    BY <1>2, <1>3, <1>11, RecomputeGood
  <2>3. Good(ReleaseIfSettled(n, t)) /\ Final(n, ReleaseIfSettled(n, t))
    BY <1>2, <1>3, <1>11, ReleaseGood
  <2> QED
    BY <1>9, <1>11, <2>1, <2>2, <2>3
<1>13. Final(run, m)
  BY <1>1, <1>11, <1>12, FinalTwice
<1> QED
  BY <1>10, <1>12, <1>13, Committed

\* A refresh of the host keeps the invariant, whatever it says of the actor.
LEMMA CancellationCheckedKeeps ==
  ASSUME Inv, NEW i \in DOMAIN run.asg, NEW idle \in BOOLEAN, CancellationChecked(i, idle)
  PROVE  Inv' /\ Final(run, run')
<1>1. PICK r : r = run
  OBVIOUS
<1>2. Good(r) /\ plan \in Plans /\ Typed(r) /\ i \in DOMAIN r.asg
  BY <1>1 DEF Inv, Good
<1> DEFINE t == r.asg[i].task
           x(k) == [r.asg[i] EXCEPT !.cancellation = k]
           n(k) == [r EXCEPT !.asg[i] = x(k)]
<1>3. r \in Ledgers /\ r.asg[i] \in Assignments /\ t \in Tasks /\ Len(r.obs) \in Nat
  BY <1>2, Parts DEF Typed
<1>4. \A k : n(k) = [r EXCEPT !.asg[i].cancellation = k]
  BY <1>2, <1>3 DEF Ledgers
<1>5. ASSUME NEW k \in {0, Len(r.obs)}
      PROVE  Good(n(k)) /\ Final(r, n(k)) /\ n(k).d1 = r.d1 /\ n(k).task = r.task
  <2>1. k \in Nat /\ k <= Len(r.obs)
    BY <1>3
  <2>2. /\ x(k) \in Assignments /\ GoesOn(r.asg[i], x(k)) /\ x(k).cancellation = k
        /\ \A v \in {"revoked", "dispatch", "archive", "state"} : x(k)[v] = r.asg[i][v]
    BY <1>3, <2>1 DEF Assignments, GoesOn
  <2>3. PICK z : z = x(k)
    OBVIOUS
  <2> HIDE DEF x
  <2>4. /\ z \in Assignments /\ GoesOn(r.asg[i], z)
        /\ z.cancellation <= Len(r.obs) /\ z.state = r.asg[i].state
        /\ \A v \in {"revoked", "dispatch", "archive"} : z[v] = r.asg[i][v]
    BY <2>1, <2>2, <2>3
  <2>5. LET w == [r EXCEPT !.asg[i] = z] IN
        Good(w) /\ Final(r, w)
    BY <1>2, <2>4, OneActorGood
  <2>6. n(k).d1 = r.d1 /\ n(k).task = r.task
    BY <1>3 DEF Ledgers
  <2> QED
    BY <2>3, <2>5, <2>6
<1>6. Status(r, t) /\ i \in Of(r, t)
  BY <1>2, <1>3 DEF Good, Of
<1>7. r.task[t].state # "absent"
  BY <1>6 DEF Status, Steady, AbsentIsFresh
<1>8. \/ Commit(ReleaseIfSettled(n(Len(r.obs)), t))
      \/ Commit(Freeze(n(0), t, r.d1[t].pairs))
  BY <1>1, <1>4 DEF CancellationChecked
<1>9. PICK m : m = n(0)
  OBVIOUS
<1>10. PICK w : w = n(Len(r.obs))
  OBVIOUS
<1>11. /\ Good(m) /\ Final(r, m) /\ m.d1 = r.d1 /\ m.task = r.task
       /\ Good(w) /\ Final(r, w) /\ w.d1 = r.d1
  BY <1>5, <1>9, <1>10
<1>12. \/ Commit(ReleaseIfSettled(w, t))
       \/ Commit(Freeze(m, t, m.d1[t].pairs))
  BY <1>8, <1>9, <1>10, <1>11
<1> HIDE DEF n, x, t
<1>13. CASE Commit(ReleaseIfSettled(w, t))
  <2>1. PICK s : s = ReleaseIfSettled(w, t)
    OBVIOUS
  <2>2. Good(s) /\ Final(w, s)
    BY <1>2, <1>3, <1>11, <2>1, ReleaseGood
  <2>3. Final(run, s)
    BY <1>1, <1>11, <2>2, FinalTwice
  <2> QED
    BY <1>13, <2>1, <2>2, <2>3, Committed
<1>14. CASE Commit(Freeze(m, t, m.d1[t].pairs))
  <2>1. PICK s : s = Freeze(m, t, m.d1[t].pairs)
    OBVIOUS
  <2>2. Good(s) /\ Final(m, s)
    BY <1>2, <1>3, <1>7, <1>11, <2>1, FreezeGood
  <2>3. Final(run, s)
    BY <1>1, <1>11, <2>2, FinalTwice
  <2> QED
    BY <1>14, <2>1, <2>2, <2>3, Committed
<1> QED
  BY <1>12, <1>13, <1>14

\* Binding a turn keeps the invariant.
LEMMA TurnStartedKeeps ==
  ASSUME Inv, NEW i \in DOMAIN run.asg, NEW turn \in TurnsSeen, TurnStarted(i, turn)
  PROVE  Inv' /\ Final(run, run')
<1>1. PICK r : r = run
  OBVIOUS
<1> DEFINE t == r.asg[i].task
           x == [r.asg[i] EXCEPT !.state = "in_progress", !.turn = turn]
           n == [r EXCEPT !.asg[i] = x]
           y == [n.task[t] EXCEPT !.state = "in_progress", !.phase = "implementation"]
           m == [n EXCEPT !.task[t] = y]
<1>2. Good(r) /\ plan \in Plans /\ Typed(r) /\ i \in DOMAIN r.asg
  BY <1>1 DEF Inv, Good
<1>3. r \in Ledgers /\ r.asg[i] \in Assignments /\ t \in Tasks
  BY <1>2, Parts DEF Typed
<1>4. turn \in Turns
  <2>1. \A k \in DOMAIN r.obs : r.obs[k].turn \in Turns
    <3>1. r.obs \in Seq(Receipts)
      BY <1>2, Parts
    <3>2. \A k \in DOMAIN r.obs : r.obs[k] \in Receipts
      BY SMTT(40), <3>1
    <3> QED
      BY <3>2 DEF Receipts
  <2> QED
    BY <1>1, <2>1 DEF TurnsSeen
<1>5. r.asg[i].state \notin {"cancelled", "ended"}
  BY <1>1 DEF TurnStarted, Waits
<1>6. n = [r EXCEPT !.asg[i].state = "in_progress", !.asg[i].turn = turn]
  BY <1>2, <1>3 DEF Ledgers
<1>7. /\ x \in Assignments /\ GoesOn(r.asg[i], x) /\ x.cancellation = r.asg[i].cancellation
      /\ \A v \in {"revoked", "dispatch", "archive"} : x[v] = r.asg[i][v]
  BY ZenonT(60), <1>3, <1>4, <1>5 DEF Assignments, GoesOn
<1>8. x.cancellation <= Len(r.obs)
  BY <1>2, <1>7 DEF Typed
<1>9. r.task[t].state \notin {"done", "cancelled"}
  <2>1. Status(r, t) /\ i \in Of(r, t)
    BY <1>2, <1>3 DEF Good, Of
  <2> QED
    BY <1>5, <2>1 DEF Status, Steady, DoneHolds, Reviewed, CancelledHolds
<1> HIDE DEF x
<1>10. Good(n) /\ Final(r, n) /\ n.task = r.task
  <2>1. r.task[r.asg[i].task].state \in {"done", "cancelled"} => x.state = r.asg[i].state
    BY <1>9
  <2>2. LET w == n IN Good(w) /\ Final(r, w)
    BY <1>2, <1>7, <1>8, <2>1, OneActorGood
  <2>3. n.task = r.task
    BY <1>3 DEF Ledgers
  <2> QED
    BY <2>2, <2>3
<1>11. Typed(n) /\ n \in Ledgers /\ n.task[t] \in TaskRecords
  BY <1>3, <1>10, Parts DEF Good, Typed
<1>12. \/ Commit(n)
       \/ Commit(m) /\ r.task[t].state \in {"assigned", "in_progress"}
  <2>1. \/ Commit(n)
        \/ /\ Commit([n EXCEPT !.task[t].state = "in_progress", !.task[t].phase = "implementation"])
           /\ r.task[t].state \in {"assigned", "in_progress"}
    BY <1>1, <1>6 DEF TurnStarted
  <2> HIDE DEF n, t
  <2>2. [n EXCEPT !.task[t].state = "in_progress", !.task[t].phase = "implementation"] = m
    BY ZenonT(60), <1>11 DEF Ledgers
  <2> QED
    BY <2>1, <2>2
<1> HIDE DEF n, t
<1>13. CASE Commit(n)
  BY <1>1, <1>10, <1>13, Committed
<1>14. CASE Commit(m) /\ r.task[t].state \in {"assigned", "in_progress"}
  <2>1. /\ y \in TaskRecords /\ SameCounts(n.task[t], y) /\ y.state = "in_progress"
    BY <1>11 DEF TaskRecords, TaskStates, Phases, SameCounts
  <2> HIDE DEF y
  <2>2. PICK s : s = m
    OBVIOUS
  <2>3. Good(s) /\ Final(n, s)
    BY <1>2, <1>3, <1>10, <1>14, <2>1, <2>2, TaskGood
  <2>4. Final(run, s)
    BY <1>1, <1>10, <2>3, FinalTwice
  <2> QED
    BY <1>14, <2>2, <2>3, <2>4, Committed
<1> QED
  BY <1>12, <1>13, <1>14

\* The tasks of S in order, each frozen again with the pairs it has.
LEMMA RefreezeAll ==
  ASSUME NEW r, Good(r), plan \in Plans, NEW S \in SUBSET Tasks,
         \A t \in S : r.task[t].state # "absent"
  PROVE  Good(Refrozen(r, S)) /\ Final(r, Refrozen(r, S))
<1> DEFINE P(s, k) ==
      /\ Good(s) /\ Final(r, s)
      /\ \A t \in S : t > k => s.task[t] = r.task[t]
<1>1. PICK g : /\ g[0] = r
               /\ \A k \in 1 .. NT : g[k] = IF k \in S THEN Freeze(g[k - 1], k, g[k - 1].d1[k].pairs)
                                            ELSE g[k - 1]
               /\ Refrozen(r, S) = g[NT]
  BY FreezeInOrder
<1> DEFINE T == {k \in 0 .. NT : P(g[k], k)}
<1>2. 0 \in T
  <2>1. Final(r, r)
    BY DEF Final
  <2> QED
    BY <1>1, <2>1, BoundsAssumption
<1>3. ASSUME NEW k \in 1 .. NT, k - 1 \in T PROVE k \in T
  <2>1. PICK q : q = g[k - 1]
    OBVIOUS
  <2>2. P(q, k - 1) /\ k \in Tasks /\ k \in Nat /\ k \in 0 .. NT
    BY <1>3, <2>1 DEF Tasks
  <2>3. \A t \in S : t \in Nat
    BY DEF Tasks
  <2>4. CASE k \in S
    <3>1. PICK s : s = Freeze(q, k, q.d1[k].pairs)
      OBVIOUS
    <3>2. g[k] = s
      BY <1>1, <2>1, <2>4, <3>1
    <3>3. q.task[k].state # "absent"
      <4>1. q.task[k] = r.task[k]
        BY <2>2, <2>4
      <4> QED
        BY <2>4, <4>1
    <3>4. Good(s) /\ Final(q, s) /\ Within(q, s, {k})
      BY <2>2, <3>1, <3>3, FreezeGood
    <3>5. Final(r, s)
      BY <2>2, <3>4, FinalTwice
    <3>6. \A t \in S : t > k => s.task[t] = r.task[t]
      <4>1. \A t \in S : t > k => t \in Tasks \ {k} /\ t > k - 1
        BY <2>2, <2>3
      <4> QED
        BY <2>2, <3>4, <4>1 DEF Within
    <3>7. P(s, k)
      BY <3>4, <3>5, <3>6
    <3> HIDE DEF P
    <3> QED
      BY <2>2, <3>2, <3>7
  <2>5. CASE k \notin S
    <3>1. g[k] = q
      BY <1>1, <2>1, <2>5
    <3>2. \A t \in S : t > k => t > k - 1
      BY <2>2, <2>3
    <3>3. P(q, k)
      BY <2>2, <3>2
    <3> HIDE DEF P
    <3> QED
      BY <2>2, <3>1, <3>3
  <2> QED
    BY <2>4, <2>5
<1> HIDE DEF T
<1>4. NT \in T
  BY <1>2, <1>3, TasksInd
<1> QED
  BY <1>1, <1>4 DEF T

\* A receipt keeps the invariant, with all the evidence it voids.
LEMMA ObservationKeeps ==
  ASSUME Inv, NEW receipt \in Receipts, ObservationRecorded(receipt)
  PROVE  Inv' /\ Final(run, run')
<1>1. PICK r : r = run
  OBVIOUS
<1>2. PICK voided : voided = {i \in DOMAIN r.asg :
                   /\ receipt.kind = "turn_started" /\ r.asg[i].agent = receipt.agent
                   /\ r.asg[i].cancellation # 0
                   /\ r.task[r.asg[i].task].state # "cancelled"}
  OBVIOUS
<1> DEFINE f == [i \in DOMAIN r.asg |-> IF i \in voided
                       THEN [r.asg[i] EXCEPT !.cancellation = 0] ELSE r.asg[i]]
           a == [r EXCEPT !.obs = Append(r.obs, receipt)]
           n == [a EXCEPT !.asg = f]
           S == {r.asg[i].task : i \in voided}
<1>3. Good(r) /\ plan \in Plans /\ Typed(r)
  BY <1>1 DEF Inv, Good
<1>4. /\ r \in Ledgers /\ r.obs \in Seq(Receipts) /\ Len(r.obs) \in Nat
      /\ \A i \in DOMAIN r.asg : r.asg[i] \in Assignments /\ r.asg[i].task \in Tasks
      /\ voided \subseteq DOMAIN r.asg
  BY <1>2, <1>3, Parts DEF Typed
<1>5. PICK m : m = Refrozen(n, S)
  BY ZenonT(60)
<1>6. Commit(m)
  <2>1. n = [r EXCEPT !.obs = Append(@, receipt),
              !.asg = [i \in DOMAIN @ |-> IF i \in voided
                                          THEN [@[i] EXCEPT !.cancellation = 0] ELSE @[i]]]
    BY <1>4 DEF Ledgers
  <2> HIDE DEF n
  <2> QED
    BY <1>1, <1>2, <1>5, <2>1 DEF ObservationRecorded, Refrozen
<1>7. \A i \in DOMAIN r.asg :
        /\ f[i] \in Assignments /\ GoesOn(r.asg[i], f[i])
        /\ f[i].revoked = r.asg[i].revoked /\ f[i].dispatch = r.asg[i].dispatch
        /\ f[i].archive = r.asg[i].archive /\ f[i].state = r.asg[i].state
        /\ f[i].cancellation = 0 \/ f[i].cancellation = r.asg[i].cancellation
  <2>1. \A x \in Assignments :
          LET b == [x EXCEPT !.cancellation = 0] IN
          /\ b \in Assignments /\ GoesOn(x, b) /\ b.revoked = x.revoked /\ b.dispatch = x.dispatch
          /\ b.archive = x.archive /\ b.state = x.state /\ b.cancellation = 0
    BY DEF Assignments, GoesOn
  <2>2. \A x : GoesOn(x, x)
    BY DEF GoesOn
  <2> QED
    BY <1>4, <2>1, <2>2
<1>8. Typed(a) /\ a.obs = Append(r.obs, receipt) /\ a.asg = r.asg /\ a.task = r.task
      /\ a.claim = r.claim /\ a.d1 = r.d1 /\ a.life = r.life /\ Len(a.obs) = Len(r.obs) + 1
  <2>1. Append(r.obs, receipt) \in Seq(Receipts) /\ Len(Append(r.obs, receipt)) = Len(r.obs) + 1
    BY <1>4
  <2>2. a \in Ledgers /\ a.obs = Append(r.obs, receipt) /\ a.asg = r.asg
    BY <1>4, <2>1 DEF Ledgers
  <2>3. \A i \in DOMAIN r.asg : r.asg[i].cancellation <= Len(r.obs) + 1
    <3>1. \A i \in DOMAIN r.asg : r.asg[i].cancellation <= Len(r.obs)
      BY <1>3 DEF Typed
    <3>2. \A i \in DOMAIN r.asg : r.asg[i].cancellation \in Int
      BY <1>4 DEF Assignments
    <3> QED
      BY <1>4, <3>1, <3>2
  <2>4. Typed(a)
    BY <1>3, <2>1, <2>2, <2>3 DEF Typed
  <2> QED
    BY <2>1, <2>2, <2>4, <1>4 DEF Ledgers
<1>9. f \in [DOMAIN r.asg -> Assignments] /\ \A i \in DOMAIN r.asg : f[i].cancellation <= Len(a.obs)
  <2>1. f \in [DOMAIN r.asg -> Assignments]
    BY <1>7
  <2>2. \A i \in DOMAIN r.asg : r.asg[i].cancellation <= Len(a.obs)
    BY <1>8 DEF Typed
  <2>3. 0 <= Len(a.obs)
    BY <1>4, <1>8
  <2> HIDE DEF f
  <2> QED
    BY <1>7, <2>1, <2>2, <2>3
<1> HIDE DEF f, a
<1>10. /\ Typed(n) /\ n.asg = f /\ DOMAIN n.asg = DOMAIN r.asg /\ n.life = r.life
       /\ n.task = r.task /\ n.claim = r.claim /\ n.d1 = r.d1
  BY <1>8, <1>9, NewAsg
<1> HIDE DEF n
<1>11. NothingNew(r, n)
  BY <1>7, <1>10 DEF NothingNew, SameCounts
<1>12. \A i \in DOMAIN r.asg : n.asg[i].task = r.asg[i].task /\ n.asg[i].state = r.asg[i].state
  BY <1>7, <1>10 DEF GoesOn
<1>13. \A t \in Tasks : ActorsStay(r, n, t)
  BY <1>7, <1>10, <1>12 DEF ActorsStay, Of
<1>14. \A t \in Tasks : Status(n, t)
  BY <1>3, <1>13, ActorsStayStatus DEF Good
<1>15. Good(n)
  <2>1. \A t \in Tasks \ Tasks : SameFor(r, n, t)
    OBVIOUS
  <2>2. \A t \in Tasks \cap Tasks :
          Status(n, t) /\ (n.task[t].state \in Executing => r.task[t].state \in Executing)
    BY <1>10, <1>14
  <2> QED
    BY <1>3, <1>10, <1>11, <2>1, <2>2, NothingNewGood
<1>16. Final(r, n)
  BY <1>10, <1>12 DEF Final
<1>17. S \in SUBSET Tasks /\ \A t \in S : n.task[t].state # "absent"
  <2>1. ASSUME NEW i \in voided
        PROVE  r.asg[i].task \in Tasks /\ n.task[r.asg[i].task].state # "absent"
    <3>1. i \in Of(r, r.asg[i].task) /\ r.asg[i].task \in Tasks
      BY <1>4 DEF Of
    <3> QED
      BY <1>3, <1>10, <3>1 DEF Good, Status, Steady, AbsentIsFresh
  <2> QED
    BY <2>1
<1> HIDE DEF S
<1>18. Good(m) /\ Final(n, m)
  BY <1>3, <1>5, <1>15, <1>17, RefreezeAll
<1>19. Final(run, m)
  BY <1>1, <1>16, <1>18, FinalTwice
<1> QED
  BY <1>6, <1>18, <1>19, Committed

\* So does a turn the host reports to begin ...
LEMMA TurnOpensKeeps ==
  ASSUME Inv, NEW a \in DOMAIN plan.seat, TurnOpens(a)
  PROVE  Inv' /\ Final(run, run')
<1>1. PICK r : r = run
  OBVIOUS
<1>2. plan \in Plans /\ Typed(r)
  BY <1>1 DEF Inv, Good
<1>3. TurnsSeen \subseteq Turns
  <2>1. r.obs \in Seq(Receipts)
    BY <1>2, Parts
  <2>2. \A k \in DOMAIN r.obs : r.obs[k] \in Receipts
    BY <2>1
  <2> QED
    BY <1>1, <2>2 DEF TurnsSeen, Receipts
<1>4. Cardinality(TurnsSeen) \in Nat
  <2>1. IsFiniteSet(Turns)
    BY FS_Interval, BoundsAssumption DEF Turns
  <2> QED
    BY <1>3, <2>1, FS_Subset, FS_CardinalityType
<1>5. Cardinality(TurnsSeen) + 1 \in Turns
  <2>1. Cardinality(TurnsSeen) < plan.turns
    BY DEF TurnOpens
  <2>2. plan.turns \in Nat /\ plan.turns <= MaxTurns /\ MaxTurns \in Nat
    BY <1>2, PlanFacts, BoundsAssumption
  <2> QED
    BY <1>4, <2>1, <2>2 DEF Turns
<1>6. a \in Agents
  BY <1>2, PlanFacts
<1>7. PICK c : c = [kind |-> "turn_started", agent |-> a, turn |-> Cardinality(TurnsSeen) + 1]
  OBVIOUS
<1>8. c \in Receipts
  BY <1>5, <1>6, <1>7 DEF Receipts
<1>9. ObservationRecorded(c)
  BY <1>7 DEF TurnOpens
<1> QED
  BY <1>8, <1>9, ObservationKeeps

\* ... and one it reports to end.
LEMMA TurnClosesKeeps ==
  ASSUME Inv, NEW a \in DOMAIN plan.seat, TurnCloses(a)
  PROVE  Inv' /\ Final(run, run')
<1>1. PICK r : r = run
  OBVIOUS
<1>2. plan \in Plans /\ Typed(r)
  BY <1>1 DEF Inv, Good
<1>3. a \in Agents
  BY <1>2, PlanFacts
<1>4. PICK k \in DOMAIN r.obs :
        ObservationRecorded([kind |-> "turn_ended", agent |-> a, turn |-> r.obs[k].turn])
  BY <1>1 DEF TurnCloses, StartedBy
<1>5. PICK c : c = [kind |-> "turn_ended", agent |-> a, turn |-> r.obs[k].turn]
  OBVIOUS
<1>6. r.obs[k].turn \in Turns
  <2>1. r.obs \in Seq(Receipts)
    BY <1>2, Parts
  <2>2. r.obs[k] \in Receipts
    BY <2>1
  <2> QED
    BY <2>2 DEF Receipts
<1>7. c \in Receipts
  BY <1>3, <1>5, <1>6 DEF Receipts
<1>8. ObservationRecorded(c)
  BY <1>4, <1>5
<1> QED
  BY <1>7, <1>8, ObservationKeeps
================================================================================
