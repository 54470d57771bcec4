----------------------------- MODULE RunEngineProofs -----------------------------
(***************************************************************************)
(* The events of RunEngine that bring a report or a dispatch keep the      *)
(* invariant of RunEngineInvariant, and what the runs check follows.       *)
(***************************************************************************)
EXTENDS RunEngineInvariant

-----------------------------------------------------------------------------
(* Who is against a delivery.                                              *)

\* A reply that rejects and counts.
Against(r, i) ==
  /\ r.asg[i].purpose \in {"reviewer", "smoker"} /\ r.asg[i].proof = "reject"
  /\ Eligible(r, i)
Rejecting(r, t) == {i \in Of(r, t) : Against(r, i)}
\* What a reply is judged by is the same.
SameReply(a, b) ==
  /\ b.task = a.task /\ b.purpose = a.purpose /\ b.agent = a.agent /\ b.attempt = a.attempt
  /\ b.delivery = a.delivery /\ b.proof = a.proof /\ b.accepted = a.accepted
  /\ b.dispatch = "sent" <=> a.dispatch = "sent"

\* The failed deliveries of a task are those its own replies are against.
LEMMA FailedLocal ==
  ASSUME NEW r, Typed(r), \A u \in Tasks : RepliesFit(r, u), NEW t \in Tasks
  PROVE  FailedDeliveries(r, t) = {r.asg[i].delivery : i \in Rejecting(r, t)}
<1> DEFINE F == {r.asg[i].delivery : i \in Rejecting(r, t)}
<1>1. \A i \in DOMAIN r.asg : r.asg[i].task \in Tasks
  BY Parts
<1>2. ASSUME NEW d \in FailedDeliveries(r, t) PROVE d \in F
  <2>1. d \in ProducersOf(r, t)
    BY DEF FailedDeliveries
  <2>2. PICK i \in RepliesTo(r, d, "reviewer") \cup RepliesTo(r, d, "smoker") :
               r.asg[i].proof = "reject" /\ Eligible(r, i)
    BY DEF FailedDeliveries
  <2>3. i \in DOMAIN r.asg /\ r.asg[i].delivery = d /\ r.asg[i].purpose \in {"reviewer", "smoker"}
    BY <2>2 DEF RepliesTo
  <2>4. d \in ProducersOf(r, r.asg[i].task)
    BY <1>1, <2>3 DEF RepliesFit, Of
  <2>5. i \in Of(r, t)
    BY <2>1, <2>3, <2>4 DEF ProducersOf, Of
  <2> QED
    BY <2>2, <2>3, <2>5 DEF Rejecting, Against
<1>3. ASSUME NEW d \in F PROVE d \in FailedDeliveries(r, t)
  <2>1. PICK i \in Rejecting(r, t) : d = r.asg[i].delivery
    OBVIOUS
  <2>2. /\ i \in Of(r, t) /\ i \in DOMAIN r.asg /\ r.asg[i].purpose \in {"reviewer", "smoker"}
        /\ r.asg[i].proof = "reject" /\ Eligible(r, i)
    BY DEF Rejecting, Against, Of
  <2>3. d \in ProducersOf(r, t) /\ ValidDelivery(r, d)
    BY <2>1, <2>2 DEF RepliesFit, Eligible
  <2>4. i \in RepliesTo(r, d, "reviewer") \cup RepliesTo(r, d, "smoker")
    BY <2>1, <2>2 DEF RepliesTo
  <2> QED
    BY <2>2, <2>3, <2>4 DEF FailedDeliveries
<1> HIDE DEF F
<1>4. FailedDeliveries(r, t) = F
  BY <1>2, <1>3
<1> QED
  BY <1>4 DEF F

\* A reply that is what it was, to a delivery that is what it was, is judged as it was.
LEMMA AgainstSame ==
  ASSUME NEW r, NEW s, NEW i, SameReply(r.asg[i], s.asg[i]),
         r.asg[i].purpose # "producer" =>
           /\ SameReply(r.asg[r.asg[i].delivery], s.asg[r.asg[i].delivery])
           /\ ReviewLevel(s, r.asg[i].task, r.asg[r.asg[i].delivery].attempt)
                = ReviewLevel(r, r.asg[i].task, r.asg[r.asg[i].delivery].attempt)
  PROVE  Against(s, i) <=> Against(r, i)
<1>1. CASE r.asg[i].purpose = "producer"
  BY <1>1 DEF Against, SameReply
<1>2. CASE r.asg[i].purpose # "producer"
  <2> DEFINE d == r.asg[i].delivery
  <2>1. SameReply(r.asg[d], s.asg[d]) /\ s.asg[i].delivery = d
        /\ ReviewLevel(s, s.asg[i].task, s.asg[d].attempt) = ReviewLevel(r, r.asg[i].task, r.asg[d].attempt)
    BY <1>2 DEF SameReply
  <2> HIDE DEF d
  <2>2. ValidDelivery(s, d) <=> ValidDelivery(r, d)
    BY SMTT(40), <2>1 DEF ValidDelivery, SameReply
  <2>3. Eligible(s, i) <=> Eligible(r, i)
    BY <2>1, <2>2 DEF Eligible, SameReply, d
  <2> QED
    BY <2>3 DEF Against, SameReply
<1> QED
  BY <1>1, <1>2

\* The history of a task stays when nothing of the task changed.
LEMMA OtherHistory ==
  ASSUME NEW r, NEW s, Typed(r), Typed(s), \A u \in Tasks : RepliesFit(r, u) /\ RepliesFit(s, u),
         NEW t \in Tasks, SameFor(r, s, t), History(r, t)
  PROVE  History(s, t)
<1>1. /\ s.task[t] = r.task[t] /\ Of(s, t) = Of(r, t)
      /\ \A i \in Of(r, t) : s.asg[i] = r.asg[i]
  BY DEF SameFor
<1>2. ProducersOf(s, t) = ProducersOf(r, t) /\ ProducersOf(r, t) \subseteq Of(r, t)
  BY <1>1 DEF ProducersOf
<1>3. \A i : IsLast(s, t, i) <=> IsLast(r, t, i)
  BY <1>2 DEF IsLast
<1>4. FailedDeliveries(s, t) = FailedDeliveries(r, t)
  <2>1. \A k : ReviewLevel(s, t, k) = ReviewLevel(r, t, k)
    BY <1>1 DEF ReviewLevel
  <2>2. ASSUME NEW i \in Of(r, t) PROVE Against(s, i) <=> Against(r, i)
    <3>1. r.asg[i].task = t /\ s.asg[i] = r.asg[i]
      BY <1>1 DEF Of
    <3>2. r.asg[i].purpose # "producer" => r.asg[i].delivery \in Of(r, t)
      BY <1>2 DEF RepliesFit
    <3>3. r.asg[i].purpose # "producer" => s.asg[r.asg[i].delivery] = r.asg[r.asg[i].delivery]
      BY <1>1, <3>2
    <3> QED
      BY <2>1, <3>1, <3>3, AgainstSame DEF SameReply
  <2>3. Rejecting(s, t) = Rejecting(r, t)
    BY <1>1, <2>2 DEF Rejecting
  <2>4. \A i \in Rejecting(r, t) : s.asg[i].delivery = r.asg[i].delivery
    BY <1>1 DEF Rejecting
  <2>5. /\ FailedDeliveries(s, t) = {s.asg[i].delivery : i \in Rejecting(s, t)}
        /\ FailedDeliveries(r, t) = {r.asg[i].delivery : i \in Rejecting(r, t)}
    BY FailedLocal
  <2>6. {s.asg[i].delivery : i \in Rejecting(r, t)} = {r.asg[i].delivery : i \in Rejecting(r, t)}
    BY <2>4
  <2> QED
    BY <2>3, <2>5, <2>6
<1>5. FailedDeliveries(r, t) \subseteq Of(r, t)
  BY <1>2 DEF FailedDeliveries
<1>6. OneAtATime(s, t) /\ LastIsHead(s, t) /\ ProofsAccepted(s, t)
  BY <1>1, <1>2, <1>3 DEF History, OneAtATime, LastIsHead, ProofsAccepted
<1>7. AttemptsCounted(s, t)
  <2>1. {s.asg[i].attempt : i \in ProducersOf(r, t)} = {r.asg[i].attempt : i \in ProducersOf(r, t)}
    BY <1>1, <1>2
  <2> QED
    BY <1>1, <1>2, <2>1 DEF History, AttemptsCounted
<1>8. RefIsDelivery(s, t)
  BY <1>1, <1>2, <1>3 DEF History, RefIsDelivery, IsLast
<1>9. FailuresCounted(s, t)
  <2>1. \A n : {d \in FailedDeliveries(r, t) : s.asg[d].attempt <= n}
               = {d \in FailedDeliveries(r, t) : r.asg[d].attempt <= n}
    BY <1>1, <1>5
  <2> QED
    BY <1>1, <1>3, <1>4, <1>5, <2>1 DEF History, FailuresCounted
<1> QED
  BY <1>6, <1>7, <1>8, <1>9 DEF History

\* A record is good when one task changed and that one is well.
LEMMA OneTaskNew ==
  ASSUME NEW r, NEW s, Good(r), Typed(s), NEW t \in Tasks,
         \A u \in Tasks \ {t} : SameFor(r, s, u), RepliesFit(s, t),
         (\A u \in Tasks : RepliesFit(s, u)) => History(s, t),
         Status(s, t), CapacityHolds(s), r.task[t].state \notin {"done", "cancelled"}
  PROVE  Good(s) /\ Final(r, s)
<1>1. \A u \in Tasks : RepliesFit(r, u)
  BY DEF Good, History
<1>2. ASSUME NEW u \in Tasks \ {t} PROVE RepliesFit(s, u)
  <2>1. Of(s, u) = Of(r, u) /\ \A i \in Of(r, u) : s.asg[i] = r.asg[i]
    BY DEF SameFor
  <2>2. ProducersOf(s, u) = ProducersOf(r, u) /\ ProducersOf(r, u) \subseteq Of(r, u)
    BY <2>1 DEF ProducersOf
  <2> QED
    BY <1>1, <2>1, <2>2 DEF RepliesFit
<1>3. \A u \in Tasks : RepliesFit(s, u)
  BY <1>2
<1>4. \A u \in Tasks \ {t} : History(s, u)
  BY <1>1, <1>3, OtherHistory DEF Good
<1>5. \A u \in Tasks \ {t} : Status(s, u)
  BY StatusStays DEF Good
<1>6. Good(s)
  BY <1>3, <1>4, <1>5 DEF Good
<1>7. Final(r, s)
  <2>1. \A u \in Tasks \cap {t} : r.task[u].state \notin {"done", "cancelled"}
    OBVIOUS
  <2> QED
    BY <2>1, SameIsFinal
<1> QED
  BY <1>6, <1>7

-----------------------------------------------------------------------------
(* Reports.                                                                *)

\* Failed deliveries are read from the assignments and the escalations.
LEMMA SameFailed ==
  ASSUME NEW r, NEW s, s.asg = r.asg,
         \A t \in Tasks : s.task[t].escalations = r.task[t].escalations,
         \A i \in DOMAIN r.asg : r.asg[i].task \in Tasks, NEW t \in Tasks
  PROVE  FailedDeliveries(s, t) = FailedDeliveries(r, t)
<1>1. \A u \in Tasks : \A k : ReviewLevel(s, u, k) = ReviewLevel(r, u, k)
  BY DEF ReviewLevel
<1>2. \A i : ValidDelivery(s, i) <=> ValidDelivery(r, i)
  BY DEF ValidDelivery
<1>3. \A i \in DOMAIN r.asg : Eligible(s, i) <=> Eligible(r, i)
  BY <1>1, <1>2 DEF Eligible
<1>4. ProducersOf(s, t) = ProducersOf(r, t) /\ \A d, p : RepliesTo(s, d, p) = RepliesTo(r, d, p)
  BY DEF ProducersOf, Of, RepliesTo
<1>5. \A d, p : RepliesTo(r, d, p) \subseteq DOMAIN r.asg
  BY DEF RepliesTo
<1> QED
  BY <1>2, <1>3, <1>4, <1>5 DEF FailedDeliveries

\* A task that nobody cancels moves on while its actors stand where they stood.
LEMMA StatusMoved ==
  ASSUME NEW r, NEW s, NEW t, Status(r, t), Of(s, t) = Of(r, t), ProducersOf(s, t) = ProducersOf(r, t),
         s.life = r.life, s.d1[t] = r.d1[t],
         s.claim[t].state = "none" <=> r.claim[t].state = "none",
         \A i \in Of(r, t) : /\ s.asg[i].state = r.asg[i].state
                             /\ s.asg[i].dispatch = r.asg[i].dispatch
                             /\ s.asg[i].revoked = r.asg[i].revoked,
         r.task[t].state \notin {"absent", "done", "blocked", "cancelled"},
         s.task[t].state \in {"assigned", "in_progress", "review", "rework", "blocked", "failed"},
         s.task[t].state = "review" => s.task[t].ref # 0,
         s.task[t].state \in {"assigned", "in_progress", "review"}
           => r.task[t].state \in {"assigned", "in_progress", "review"}
  PROVE  Status(s, t)
<1>1. ProducersOf(r, t) \subseteq Of(r, t)
  BY DEF ProducersOf
<1>2. r.life # "awaiting-dag" /\ r.d1[t].state = "none" /\ r.d1[t].pairs = {}
  BY DEF Status, Steady, AwaitsGraph, CancelHolds
<1>3. AbsentIsFresh(s, t) /\ AwaitsGraph(s, t) /\ CancelHolds(s, t) /\ DoneHolds(s, t)
      /\ CancelledHolds(s, t)
  BY <1>2 DEF AbsentIsFresh, AwaitsGraph, CancelHolds, DoneHolds, CancelledHolds
<1>4. ClaimCovers(s, t)
  BY <1>1 DEF Status, Steady, ClaimCovers
<1>5. ReviewHasRef(s, t)
  BY DEF ReviewHasRef
<1>6. WithdrawnIsFrozen(s, t) /\ NonceCounts(s, t)
  BY DEF Status, WithdrawnIsFrozen, NonceCounts
<1> QED
  BY <1>3, <1>4, <1>5, <1>6 DEF Status, Steady

\* A report is stored with its assignment: nothing else changes, and nobody was
\* asked about it before.
IsStored(r, n, i, p) == n = [r EXCEPT !.asg[i].accepted = TRUE, !.asg[i].proof = p]
StoredFacts(r, n, i, p, t) ==
  /\ Typed(n) /\ DOMAIN n.asg = DOMAIN r.asg /\ n.life = r.life /\ n.task = r.task
  /\ n.claim = r.claim /\ n.d1 = r.d1 /\ n.gates = r.gates
  /\ n.asg[i].proof = p /\ n.asg[i].accepted = TRUE
  /\ \A j \in DOMAIN r.asg \ {i} : n.asg[j] = r.asg[j]
  /\ \A v \in {"task", "purpose", "agent", "attempt", "delivery", "state", "dispatch",
               "revoked", "successor"} : n.asg[i][v] = r.asg[i][v]
  /\ \A u \in Tasks \ {t} : SameFor(r, n, u)
  /\ t \in Tasks /\ i \in Of(r, t) /\ Of(n, t) = Of(r, t)
  /\ ProducersOf(n, t) = ProducersOf(r, t)
  /\ RepliesFit(n, t) /\ OneAtATime(n, t) /\ LastIsHead(n, t) /\ AttemptsCounted(n, t)
  /\ ProofsAccepted(n, t)
  /\ \A j \in Of(r, t) : r.asg[j].delivery # i

\* Storing a report, field by field.
LEMMA Stored ==
  ASSUME NEW r, Good(r), NEW i \in DOMAIN r.asg, LiveAuthorized(r, i), NEW p \in Proofs \ {"none"},
         NEW t, t = r.asg[i].task, NEW w, IsStored(r, w, i, p)
  PROVE  StoredFacts(r, w, i, p, t)
<1> DEFINE x == [r.asg[i] EXCEPT !.accepted = TRUE, !.proof = p]
           n == [r EXCEPT !.asg[i] = x]
<1>1. Typed(r) /\ r \in Ledgers /\ r.asg[i] \in Assignments /\ t \in Tasks /\ i \in Of(r, t)
  BY Parts DEF Good, Typed, Of
<1>2. n = [r EXCEPT !.asg[i].accepted = TRUE, !.asg[i].proof = p]
  BY <1>1 DEF Ledgers
<1>3. /\ x \in Assignments /\ x.proof = p /\ x.accepted = TRUE /\ x.task = t
      /\ x.cancellation = r.asg[i].cancellation
      /\ \A v \in {"task", "purpose", "agent", "attempt", "delivery", "state", "dispatch",
                   "revoked", "successor"} : x[v] = r.asg[i][v]
  BY <1>1 DEF Assignments
<1>4. x.cancellation <= Len(r.obs)
  BY <1>1, <1>3 DEF Typed
<1> HIDE DEF x
<1>5. /\ Typed(n) /\ DOMAIN n.asg = DOMAIN r.asg /\ n.asg[i] = x
      /\ \A j \in DOMAIN r.asg \ {i} : n.asg[j] = r.asg[j]
      /\ n.life = r.life /\ n.revised = r.revised /\ n.deps = r.deps /\ n.task = r.task
      /\ n.claim = r.claim /\ n.d1 = r.d1 /\ n.gates = r.gates /\ n.obs = r.obs
      /\ \A u \in Tasks : Of(n, u) = Of(r, u)
      /\ \A u \in Tasks \ {x.task} : SameFor(r, n, u)
  BY <1>1, <1>3, <1>4, OneAsg
<1> HIDE DEF n
<1>6. History(r, t)
  BY <1>1 DEF Good
<1>7. \A j \in DOMAIN r.asg :
        /\ n.asg[j].task = r.asg[j].task /\ n.asg[j].purpose = r.asg[j].purpose
        /\ n.asg[j].attempt = r.asg[j].attempt /\ n.asg[j].delivery = r.asg[j].delivery
        /\ n.asg[j].state = r.asg[j].state /\ n.asg[j].dispatch = r.asg[j].dispatch
        /\ n.asg[j].revoked = r.asg[j].revoked /\ n.asg[j].successor = r.asg[j].successor
        /\ r.asg[j].accepted => n.asg[j] = r.asg[j] \/ n.asg[j].accepted = TRUE
  BY <1>3, <1>5
<1>8. Of(n, t) = Of(r, t) /\ ProducersOf(n, t) = ProducersOf(r, t) /\ Of(r, t) \subseteq DOMAIN r.asg
      /\ ProducersOf(r, t) \subseteq Of(r, t)
  BY <1>1, <1>5, <1>7 DEF Of, ProducersOf
<1>9. r.asg[i].dispatch = "sent" /\ ~r.asg[i].accepted
  BY DEF LiveAuthorized
<1>10. \A j \in Of(r, t) : r.asg[j].delivery # i
  <2>1. i # 0
    BY <1>1, Parts
  <2> QED
    BY <1>6, <1>9, <2>1 DEF History, RepliesFit
<1>11. RepliesFit(n, t)
  <2> SUFFICES ASSUME NEW j \in Of(r, t)
               PROVE  /\ n.asg[j].purpose = "producer" => n.asg[j].delivery = 0
                      /\ n.asg[j].purpose # "producer" =>
                           /\ n.asg[j].delivery \in ProducersOf(n, t)
                           /\ n.asg[n.asg[j].delivery].proof = "done"
                           /\ n.asg[n.asg[j].delivery].accepted
                           /\ n.asg[j].attempt = n.asg[n.asg[j].delivery].attempt
                      /\ n.asg[j].purpose = "smoker" => t \in plan.smoke
    BY <1>8 DEF RepliesFit
  <2>1. n.asg[j].delivery = r.asg[j].delivery /\ n.asg[j].purpose = r.asg[j].purpose
        /\ n.asg[j].attempt = r.asg[j].attempt
    BY <1>7, <1>8
  <2>2. RepliesFit(r, t) /\ r.asg[j].delivery # i
    BY <1>6, <1>10 DEF History
  <2>3. r.asg[j].purpose # "producer" => n.asg[r.asg[j].delivery] = r.asg[r.asg[j].delivery]
    BY <1>5, <1>8, <2>2 DEF RepliesFit
  <2> QED
    BY <1>8, <2>1, <2>2, <2>3 DEF RepliesFit
<1>12. OneAtATime(n, t)
  BY <1>6, <1>7, <1>8 DEF History, OneAtATime
<1>13. LastIsHead(n, t)
  BY SMTT(40), <1>5, <1>6, <1>7, <1>8 DEF History, LastIsHead, IsLast
<1>14. AttemptsCounted(n, t)
  <2>1. {n.asg[j].attempt : j \in ProducersOf(r, t)} = {r.asg[j].attempt : j \in ProducersOf(r, t)}
    BY <1>7, <1>8
  <2> QED
    BY <1>5, <1>6, <1>8, <2>1 DEF History, AttemptsCounted
<1>15. ProofsAccepted(n, t)
  <2>1. ASSUME NEW j \in Of(r, t) PROVE /\ n.asg[j].accepted <=> n.asg[j].proof # "none"
                                        /\ n.asg[j].accepted => n.asg[j].dispatch = "sent"
    <3>1. CASE j = i
      BY <1>3, <1>5, <1>7, <1>8, <1>9, <3>1
    <3>2. CASE j # i
      BY <1>5, <1>6, <1>8, <3>2 DEF History, ProofsAccepted
    <3> QED
      BY <3>1, <3>2
  <2> QED
    BY <1>8, <2>1 DEF ProofsAccepted
<1>16. /\ n.asg[i].proof = p /\ n.asg[i].accepted = TRUE
       /\ \A v \in {"task", "purpose", "agent", "attempt", "delivery", "state", "dispatch",
                    "revoked", "successor"} : n.asg[i][v] = r.asg[i][v]
  BY <1>3, <1>5
<1>17. \A u \in Tasks \ {t} : SameFor(r, n, u)
  BY <1>3, <1>5
<1>18. w = n
  BY <1>2 DEF n, IsStored
<1> QED
  BY <1>1, <1>5, <1>8, <1>10, <1>11, <1>12, <1>13, <1>14, <1>15, <1>16, <1>17, <1>18 DEF StoredFacts

\* A stored report can only add the delivery it is against to those that failed.
LEMMA StoredFailed ==
  ASSUME NEW r, Good(r), NEW n, Typed(n), NEW t \in Tasks, NEW i \in Of(r, t),
         n.task = r.task, Of(n, t) = Of(r, t), ~r.asg[i].accepted,
         \A j \in DOMAIN r.asg \ {i} : n.asg[j] = r.asg[j],
         n.asg[i].delivery = r.asg[i].delivery,
         \A j \in Of(r, t) : r.asg[j].delivery # i, \A u \in Tasks : RepliesFit(n, u)
  PROVE  FailedDeliveries(n, t)
           = FailedDeliveries(r, t) \cup {r.asg[j].delivery : j \in {k \in {i} : Against(n, k)}}
<1>1. Typed(r) /\ \A u \in Tasks : RepliesFit(r, u)
  BY DEF Good, History
<1>2. /\ FailedDeliveries(n, t) = {n.asg[j].delivery : j \in Rejecting(n, t)}
      /\ FailedDeliveries(r, t) = {r.asg[j].delivery : j \in Rejecting(r, t)}
  BY <1>1, FailedLocal
<1>3. \A u, k : ReviewLevel(n, u, k) = ReviewLevel(r, u, k)
  BY DEF ReviewLevel
<1>4. ASSUME NEW j \in Of(r, t) \ {i} PROVE Against(n, j) <=> Against(r, j)
  <2>1. n.asg[j] = r.asg[j] /\ r.asg[j].delivery # i
    BY DEF Of
  <2>2. r.asg[j].purpose # "producer" => r.asg[j].delivery \in DOMAIN r.asg
    BY <1>1 DEF RepliesFit, ProducersOf, Of
  <2>3. r.asg[j].purpose # "producer" => n.asg[r.asg[j].delivery] = r.asg[r.asg[j].delivery]
    BY <2>1, <2>2
  <2>4. SameReply(r.asg[j], n.asg[j])
    BY <2>1 DEF SameReply
  <2>5. r.asg[j].purpose # "producer" =>
          SameReply(r.asg[r.asg[j].delivery], n.asg[r.asg[j].delivery])
    BY <2>3 DEF SameReply
  <2> QED
    BY <1>3, <2>4, <2>5, AgainstSame
<1>5. ~Against(r, i)
  BY DEF Against, Eligible
<1>6. Rejecting(n, t) = Rejecting(r, t) \cup {k \in {i} : Against(n, k)}
  BY <1>4, <1>5 DEF Rejecting
<1>7. \A j \in Of(r, t) : n.asg[j].delivery = r.asg[j].delivery
  BY DEF Of
<1>8. Rejecting(n, t) \subseteq Of(r, t)
  BY DEF Rejecting
<1> QED
  BY <1>2, <1>6, <1>7, <1>8

\* The failures counted stay right while nothing they are counted from changes.
LEMMA FailuresStay ==
  ASSUME NEW r, NEW s, NEW t, FailuresCounted(r, t), FailedDeliveries(s, t) = FailedDeliveries(r, t),
         \A i : IsLast(s, t, i) <=> IsLast(r, t, i),
         s.task[t].escalations = r.task[t].escalations, s.task[t].quality = r.task[t].quality,
         s.task[t].attempts = r.task[t].attempts,
         \A d \in FailedDeliveries(r, t) : s.asg[d].attempt = r.asg[d].attempt
  PROVE  FailuresCounted(s, t)
<1>1. PICK failed : failed = FailedDeliveries(r, t)
  OBVIOUS
<1>2. PICK esc : esc = r.task[t].escalations
  OBVIOUS
<1>3. /\ r.task[t].quality = Cardinality(failed)
      /\ \A k \in DOMAIN esc :
           /\ esc[k].attempt <= r.task[t].attempts
           /\ esc[k].failures = Cardinality({d \in failed : r.asg[d].attempt <= esc[k].attempt})
           /\ esc[k].attempt = r.task[t].attempts => \E d \in failed : IsLast(r, t, d)
      /\ \A d \in failed : r.asg[d].attempt = r.task[t].attempts => IsLast(r, t, d)
  BY <1>1, <1>2 DEF FailuresCounted
<1>4. \A k \in DOMAIN esc : {d \in failed : s.asg[d].attempt <= esc[k].attempt}
                          = {d \in failed : r.asg[d].attempt <= esc[k].attempt}
  BY <1>1
<1>5. /\ s.task[t].quality = Cardinality(failed)
      /\ \A k \in DOMAIN esc :
           /\ esc[k].attempt <= s.task[t].attempts
           /\ esc[k].failures = Cardinality({d \in failed : s.asg[d].attempt <= esc[k].attempt})
           /\ esc[k].attempt = s.task[t].attempts => \E d \in failed : IsLast(s, t, d)
      /\ \A d \in failed : s.asg[d].attempt = s.task[t].attempts => IsLast(s, t, d)
  BY <1>1, <1>3, <1>4
<1> QED
  BY <1>1, <1>2, <1>5 DEF FailuresCounted

\* A task that is neither new nor final stands where it stood when a report of it
\* is stored.
LEMMA StoredStatus ==
  ASSUME NEW r, NEW s, NEW t, Status(r, t), Of(s, t) = Of(r, t), ProducersOf(s, t) = ProducersOf(r, t),
         s.life = r.life, s.d1 = r.d1, s.claim = r.claim, s.task = r.task,
         \A i \in Of(r, t) : /\ s.asg[i].state = r.asg[i].state
                             /\ s.asg[i].dispatch = r.asg[i].dispatch
                             /\ s.asg[i].revoked = r.asg[i].revoked,
         r.task[t].state \notin {"absent", "done", "cancelled"}
  PROVE  Status(s, t)
<1>1. ProducersOf(r, t) \subseteq Of(r, t)
  BY DEF ProducersOf
<1>2. AbsentIsFresh(s, t) /\ AwaitsGraph(s, t) /\ CancelHolds(s, t) /\ DoneHolds(s, t)
      /\ CancelledHolds(s, t)
  BY DEF AbsentIsFresh, AwaitsGraph, CancelHolds, DoneHolds, CancelledHolds, Status, Steady
<1>3. ClaimCovers(s, t)
  BY <1>1 DEF Status, Steady, ClaimCovers
<1>4. ReviewHasRef(s, t)
  BY DEF ReviewHasRef, Status, Steady
<1>5. WithdrawnIsFrozen(s, t) /\ NonceCounts(s, t)
  BY DEF Status, WithdrawnIsFrozen, NonceCounts
<1> QED
  BY <1>2, <1>3, <1>4, <1>5 DEF Status, Steady

\* A report that fails nothing new leaves a good record.
LEMMA StoredGood ==
  ASSUME NEW r, Good(r), plan \in Plans, NEW i \in DOMAIN r.asg, LiveAuthorized(r, i),
         NEW p \in Proofs \ {"none"},
         NEW t, t = r.asg[i].task, r.task[t].state \notin {"absent", "done", "cancelled"},
         NEW n, IsStored(r, n, i, p),
         Against(n, i) => r.asg[i].delivery \in FailedDeliveries(r, t)
  PROVE  Good(n) /\ Final(r, n)
<1>1. /\ Typed(n) /\ DOMAIN n.asg = DOMAIN r.asg /\ n.life = r.life /\ n.task = r.task
      /\ n.claim = r.claim /\ n.d1 = r.d1
      /\ n.asg[i].proof = p /\ n.asg[i].accepted = TRUE
      /\ \A j \in DOMAIN r.asg \ {i} : n.asg[j] = r.asg[j]
      /\ \A v \in {"task", "purpose", "agent", "attempt", "delivery", "state", "dispatch",
                   "revoked", "successor"} : n.asg[i][v] = r.asg[i][v]
      /\ \A u \in Tasks \ {t} : SameFor(r, n, u)
      /\ t \in Tasks /\ i \in Of(r, t) /\ Of(n, t) = Of(r, t)
      /\ ProducersOf(n, t) = ProducersOf(r, t)
      /\ RepliesFit(n, t) /\ OneAtATime(n, t) /\ LastIsHead(n, t) /\ AttemptsCounted(n, t)
      /\ ProofsAccepted(n, t)
      /\ \A j \in Of(r, t) : r.asg[j].delivery # i
  <2>1. StoredFacts(r, n, i, p, t)
    BY Stored
  <2> QED
    BY <2>1 DEF StoredFacts
<1>2. ~r.asg[i].accepted /\ History(r, t) /\ Status(r, t) /\ CapacityHolds(r)
  BY <1>1 DEF LiveAuthorized, Good
<1>3. ASSUME \A u \in Tasks : RepliesFit(n, u) PROVE History(n, t)
  <2>1. n.asg[i].delivery = r.asg[i].delivery
    BY SMTT(40), <1>1
  <2>2. FailedDeliveries(n, t)
          = FailedDeliveries(r, t) \cup {r.asg[j].delivery : j \in {k \in {i} : Against(n, k)}}
    BY <1>1, <1>2, <1>3, <2>1, StoredFailed
  <2>3. FailedDeliveries(n, t) = FailedDeliveries(r, t)
    BY <2>2
  <2>4. \A k : IsLast(n, t, k) <=> IsLast(r, t, k)
    BY SMTT(40), <1>1 DEF IsLast
  <2>5. RefIsDelivery(n, t)
    <3>1. r.task[t].ref # 0 => IsLast(r, t, r.task[t].ref) /\ r.asg[r.task[t].ref].proof = "done"
      BY SMTT(40), <1>2 DEF History, RefIsDelivery
    <3>2. r.asg[i].proof = "none"
      BY SMTT(40), <1>1, <1>2 DEF History, ProofsAccepted
    <3>3. r.task[t].ref # 0 => r.task[t].ref # i /\ r.task[t].ref \in DOMAIN r.asg
      BY SMTT(40), <3>1, <3>2 DEF IsLast, ProducersOf, Of
    <3>4. r.task[t].ref # 0 => n.asg[r.task[t].ref] = r.asg[r.task[t].ref]
      BY <1>1, <3>3
    <3>5. n.task[t].ref = r.task[t].ref
      BY <1>1
    <3>6. n.task[t].ref # 0 => IsLast(n, t, n.task[t].ref)
      BY <2>4, <3>1, <3>5
    <3>7. n.task[t].ref # 0 => n.asg[n.task[t].ref].proof = "done"
      BY ZenonT(60), <3>1, <3>4, <3>5
    <3> QED
      BY <3>6, <3>7 DEF RefIsDelivery
  <2>6. FailuresCounted(n, t)
    <3>1. FailedDeliveries(r, t) \subseteq DOMAIN r.asg
      BY DEF FailedDeliveries, ProducersOf, Of
    <3>2. \A d \in DOMAIN r.asg : n.asg[d].attempt = r.asg[d].attempt
      BY <1>1
    <3>3. n.task[t] = r.task[t] /\ FailuresCounted(r, t)
      BY SMTT(40), <1>1, <1>2 DEF History
    <3> QED
      BY <2>3, <2>4, <3>1, <3>2, <3>3, FailuresStay
  <2> QED
    BY <1>1, <2>5, <2>6 DEF History
<1>4. Status(n, t)
  <2>1. \A j \in Of(r, t) : /\ n.asg[j].state = r.asg[j].state
                            /\ n.asg[j].dispatch = r.asg[j].dispatch
                            /\ n.asg[j].revoked = r.asg[j].revoked
    BY <1>1 DEF Of
  <2> QED
    BY <1>1, <1>2, <2>1, StoredStatus
<1>5. CapacityHolds(n)
  BY <1>1, <1>2, CapacityStays
<1> QED
  BY SMTT(40), <1>1, <1>3, <1>4, <1>5, OneTaskNew

\* A producer that may still report is the last of its task.
LEMMA LiveIsLast ==
  ASSUME NEW r, Typed(r), NEW t, OneAtATime(r, t), NEW i \in ProducersOf(r, t), LiveAuthorized(r, i)
  PROVE  IsLast(r, t, i)
<1>1. ASSUME NEW j \in ProducersOf(r, t) PROVE j <= i
  <2>1. ~(i < j)
    BY DEF OneAtATime, LiveAuthorized
  <2>2. i \in Nat /\ j \in Nat
    <3>1. DOMAIN r.asg = 1 .. Len(r.asg) /\ Len(r.asg) \in Nat
      BY Parts
    <3> QED
      BY <3>1 DEF ProducersOf, Of
  <2> QED
    BY <2>1, <2>2
<1> QED
  BY <1>1 DEF IsLast

\* From n to m task t has the record x.
TaskMoved(n, m, t, x) == m = [n EXCEPT !.task[t] = x]

\* The done report of the last producer sends the task into review.
LEMMA DoneReportGood ==
  ASSUME NEW n, Good(n), plan \in Plans, NEW t \in Tasks, NEW i, IsLast(n, t, i),
         n.asg[i].proof = "done", i \in Ids, n.task[t].state \in {"assigned", "in_progress"},
         NEW x \in TaskRecords, x.state = "review", x.ref = i,
         x.attempts = n.task[t].attempts, x.rework = n.task[t].rework,
         x.quality = n.task[t].quality, x.escalations = n.task[t].escalations,
         NEW m, TaskMoved(n, m, t, x)
  PROVE  Good(m) /\ Final(n, m)
<1>1. Typed(n)
  BY DEF Good
<1>2. /\ Typed(m) /\ m.task[t] = x /\ \A u \in Tasks \ {t} : m.task[u] = n.task[u]
      /\ m.life = n.life /\ m.asg = n.asg
      /\ m.claim = n.claim /\ m.d1 = n.d1
  <2>1. LET s == [n EXCEPT !.task[t] = x] IN
      /\ Typed(s) /\ s.task[t] = x /\ \A u \in Tasks \ {t} : s.task[u] = n.task[u]
      /\ s.life = n.life /\ s.asg = n.asg
      /\ s.claim = n.claim /\ s.d1 = n.d1
    BY <1>1, NewTask
  <2> QED
    BY <2>1 DEF TaskMoved
<1>3. Of(m, t) = Of(n, t) /\ ProducersOf(m, t) = ProducersOf(n, t)
      /\ \A k : IsLast(m, t, k) <=> IsLast(n, t, k)
  BY <1>2 DEF Of, ProducersOf, IsLast
<1>4. \A u \in Tasks \ {t} : SameFor(n, m, u)
  BY <1>2 DEF SameFor, Of
<1>5. History(n, t) /\ Status(n, t) /\ CapacityHolds(n)
  BY DEF Good
<1>6. History(m, t)
  <2>1. FailedDeliveries(m, t) = FailedDeliveries(n, t)
    <3>1. \A u \in Tasks : m.task[u].escalations = n.task[u].escalations
      BY <1>2
    <3>2. \A k \in DOMAIN n.asg : n.asg[k].task \in Tasks
      BY <1>1, Parts
    <3> QED
      BY <1>2, <3>1, <3>2, SameFailed
  <2>2. FailuresCounted(m, t)
    <3>1. FailuresCounted(n, t)
      BY <1>5 DEF History
    <3>2. /\ m.task[t].escalations = n.task[t].escalations
          /\ m.task[t].quality = n.task[t].quality /\ m.task[t].attempts = n.task[t].attempts
          /\ \A d \in FailedDeliveries(n, t) : m.asg[d].attempt = n.asg[d].attempt
      BY <1>2
    <3> QED
      BY <1>3, <2>1, <3>1, <3>2, FailuresStay
  <2>3. OneAtATime(m, t) /\ RepliesFit(m, t) /\ ProofsAccepted(m, t)
    BY <1>2, <1>3, <1>5 DEF History, OneAtATime, RepliesFit, ProofsAccepted
  <2>4. LastIsHead(m, t) /\ AttemptsCounted(m, t)
    BY <1>2, <1>3, <1>5 DEF History, LastIsHead, AttemptsCounted
  <2>5. RefIsDelivery(m, t)
    BY <1>2, <1>3 DEF RefIsDelivery
  <2> QED
    BY <2>2, <2>3, <2>4, <2>5 DEF History
<1>7. Status(m, t)
  <2>1. i # 0
    BY BoundsAssumption DEF Ids
  <2>2. m.life = n.life /\ m.d1[t] = n.d1[t] /\ m.claim[t] = n.claim[t] /\ m.asg = n.asg
        /\ m.task[t].state = "review" /\ m.task[t].ref # 0
    BY <1>2, <2>1
  <2> QED
    BY <1>3, <1>5, <2>2, StatusMoved
<1>8. CapacityHolds(m)
  <2>1. \A u \in Tasks : m.task[u].state \in Executing => n.task[u].state \in Executing
    BY <1>2 DEF Executing
  <2> QED
    BY <1>5, <2>1, CapacityStays
<1>9. RepliesFit(m, t)
  BY <1>6 DEF History
<1> QED
  BY <1>2, <1>4, <1>6, <1>7, <1>8, <1>9, OneTaskNew

\* A task whose producer reports that it cannot go on stops, and keeps its claim.
LEMMA StopReportGood ==
  ASSUME NEW n, Good(n), plan \in Plans, NEW t \in Tasks,
         n.task[t].state \in {"assigned", "in_progress"},
         NEW x \in TaskRecords, x.state \in {"blocked", "failed"}, SameCounts(n.task[t], x),
         NEW m, TaskMoved(FreezeClaim(n, t), m, t, x)
  PROVE  Good(m) /\ Final(n, m)
<1>1. PICK f : f = FreezeClaim(n, t)
  OBVIOUS
<1>2. Typed(n) /\ Status(n, t)
  BY DEF Good
<1>3. /\ Typed(f) /\ \A u \in Tasks \ {t} : f.claim[u] = n.claim[u]
      /\ f.claim[t].state = "none" <=> n.claim[t].state = "none"
      /\ f.life = n.life /\ f.asg = n.asg /\ f.task = n.task /\ f.d1 = n.d1
      /\ f.obs = n.obs /\ f.deps = n.deps /\ f.gates = n.gates /\ f.revised = n.revised
  BY <1>1, <1>2, ClaimFrozen
<1>4. TaskMoved(f, m, t, x)
  BY <1>1
<1>5. /\ Typed(m) /\ m.task[t] = x /\ \A u \in Tasks \ {t} : m.task[u] = f.task[u]
      /\ m.life = f.life /\ m.asg = f.asg /\ m.claim = f.claim /\ m.d1 = f.d1
      /\ m.obs = f.obs /\ m.deps = f.deps /\ m.gates = f.gates /\ m.revised = f.revised
  <2>1. LET s == [f EXCEPT !.task[t] = x] IN
      /\ Typed(s) /\ s.task[t] = x /\ \A u \in Tasks \ {t} : s.task[u] = f.task[u]
      /\ s.life = f.life /\ s.asg = f.asg /\ s.claim = f.claim /\ s.d1 = f.d1
      /\ s.obs = f.obs /\ s.deps = f.deps /\ s.gates = f.gates /\ s.revised = f.revised
    BY <1>3, NewTask
  <2> QED
    BY <1>4, <2>1 DEF TaskMoved
<1>6. Of(m, t) = Of(n, t) /\ ProducersOf(m, t) = ProducersOf(n, t) /\ m.asg = n.asg
  BY <1>3, <1>5 DEF Of, ProducersOf
<1>7. Within(n, m, {t})
  BY <1>3, <1>5 DEF Within
<1>8. NothingNew(n, m)
  <2>1. \A u \in Tasks : SameCounts(n.task[u], m.task[u])
    BY <1>3, <1>5 DEF SameCounts
  <2> QED
    BY <1>6, <2>1 DEF NothingNew, GoesOn
<1>9. Status(m, t)
  <2>1. /\ m.life = n.life /\ m.d1[t] = n.d1[t] /\ m.task[t].state \in {"blocked", "failed"}
        /\ m.claim[t].state = "none" <=> n.claim[t].state = "none"
    BY <1>3, <1>5
  <2> QED
    BY <1>2, <1>6, <2>1, StatusMoved
<1>10. m.task[t].state \notin Executing
  BY <1>5 DEF Executing
<1> QED
  BY <1>5, <1>7, <1>8, <1>9, <1>10, OneTaskGood

\* A report of a producer keeps the invariant.
LEMMA TaskReportKeeps ==
  ASSUME Inv, NEW i \in DOMAIN run.asg, NEW report \in plan.reports, TaskReport(i, report)
  PROVE  Inv' /\ Final(run, run')
<1>1. PICK r : r = run
  OBVIOUS
<1>2. PICK t : t = r.asg[i].task
  OBVIOUS
<1>3. PICK n : n = [r EXCEPT !.asg[i].accepted = TRUE, !.asg[i].proof = report]
  OBVIOUS
<1>4. PICK m : m = CASE report = "lacking" -> [n EXCEPT !.task[t].evidence = @ + 1]
                     [] report = "done" -> [n EXCEPT !.task[t].ref = i,
                          !.task[t].state = "review", !.task[t].phase = "review"]
                     [] OTHER -> [FreezeClaim(n, t) EXCEPT !.task[t].state = report,
                                    !.task[t].phase = IF report = "blocked" THEN "frozen"
                                                      ELSE "none"]
  OBVIOUS
<1>5. /\ r.asg[i].purpose = "producer" /\ LiveAuthorized(r, i)
      /\ r.task[t].state \in {"assigned", "in_progress"} /\ Commit(m)
  BY <1>1, <1>2, <1>3, <1>4 DEF TaskReport
<1>6. IsStored(r, n, i, report)
  BY <1>3 DEF IsStored
<1>7. Good(r) /\ plan \in Plans /\ Typed(r) /\ i \in DOMAIN r.asg
  BY <1>1 DEF Inv, Good
<1>8. report \in {"done", "lacking", "blocked", "failed"}
  BY <1>7, PlanFacts
<1>9. report \in Proofs \ {"none"}
  BY <1>8 DEF Proofs
<1>10. StoredFacts(r, n, i, report, t)
  BY <1>2, <1>5, <1>6, <1>7, <1>9, Stored
<1>11. /\ Typed(n) /\ n.task = r.task /\ n.claim = r.claim /\ t \in Tasks
       /\ n.asg[i].purpose = "producer" /\ n.asg[i].proof = report /\ i \in ProducersOf(n, t)
       /\ IsLast(n, t, i)
  <2>1. /\ Typed(n) /\ n.task = r.task /\ n.claim = r.claim /\ t \in Tasks /\ i \in Of(r, t)
        /\ n.asg[i].proof = report /\ n.asg[i].purpose = r.asg[i].purpose
        /\ ProducersOf(n, t) = ProducersOf(r, t)
    BY <1>10 DEF StoredFacts
  <2>2. i \in ProducersOf(r, t)
    BY <1>5, <2>1 DEF ProducersOf
  <2>3. IsLast(r, t, i)
    BY <1>5, <1>7, <2>1, <2>2, LiveIsLast DEF Good, History
  <2> QED
    BY <1>5, <2>1, <2>2, <2>3 DEF IsLast
<1>12. Good(n) /\ Final(r, n)
  <2>1. ~Against(n, i)
    BY <1>11 DEF Against
  <2> QED
    BY <1>2, <1>5, <1>6, <1>7, <1>9, <2>1, StoredGood
<1>13. n \in Ledgers /\ n.task[t] \in TaskRecords /\ n.task[t].state \in {"assigned", "in_progress"}
       /\ i \in Ids
  BY <1>5, <1>7, <1>11, Parts DEF Typed
<1>14. Good(m) /\ Final(n, m)
  <2>1. CASE report = "lacking"
    <3>1. PICK x : x = [n.task[t] EXCEPT !.evidence = @ + 1]
      OBVIOUS
    <3>2. x \in TaskRecords /\ SameCounts(n.task[t], x) /\ x.state = n.task[t].state
      <4>1. PICK a : a = n.task[t]
        OBVIOUS
      <4>2. a \in TaskRecords /\ a.evidence \in Nat
        BY <1>13, <4>1 DEF TaskRecords
      <4>3. PICK k : k = a.evidence + 1
        OBVIOUS
      <4>4. k \in Nat
        BY <4>2, <4>3
      <4>5. x = [a EXCEPT !.evidence = k]
        BY <3>1, <4>1, <4>3
      <4> QED
        BY <4>1, <4>2, <4>4, <4>5 DEF TaskRecords, SameCounts
    <3>3. m = [n EXCEPT !.task[t] = x]
      BY <1>4, <1>11, <1>13, <2>1, <3>1 DEF Ledgers
    <3>4. LET w == [n EXCEPT !.task[t] = x] IN Good(w) /\ Final(n, w)
      BY <1>7, <1>11, <1>12, <1>13, <3>2, TaskGood
    <3> QED
      BY <3>3, <3>4
  <2>2. CASE report = "done"
    <3>1. PICK x : x = [n.task[t] EXCEPT !.ref = i, !.state = "review", !.phase = "review"]
      OBVIOUS
    <3>2. /\ x \in TaskRecords /\ x.state = "review" /\ x.ref = i
          /\ x.attempts = n.task[t].attempts /\ x.rework = n.task[t].rework
          /\ x.quality = n.task[t].quality /\ x.escalations = n.task[t].escalations
      BY <1>13, <3>1 DEF TaskRecords, TaskStates, Phases
    <3>3. TaskMoved(n, m, t, x)
      BY <1>4, <1>11, <1>13, <2>2, <3>1 DEF Ledgers, TaskMoved
    <3> QED
      BY <1>7, <1>11, <1>12, <1>13, <2>2, <3>2, <3>3, DoneReportGood
  <2>3. CASE report \in {"blocked", "failed"}
    <3>1. PICK f : f = FreezeClaim(n, t)
      OBVIOUS
    <3>2. Typed(f) /\ f.task = n.task
      BY <1>11, <3>1, ClaimFrozen
    <3>3. PICK x : x = [f.task[t] EXCEPT !.state = report,
                          !.phase = IF report = "blocked" THEN "frozen" ELSE "none"]
      OBVIOUS
    <3>4. x \in TaskRecords /\ SameCounts(n.task[t], x) /\ x.state \in {"blocked", "failed"}
      BY <1>13, <2>3, <3>2, <3>3 DEF TaskRecords, TaskStates, Phases, SameCounts
    <3>5. m = [f EXCEPT !.task[t].state = report,
                        !.task[t].phase = IF report = "blocked" THEN "frozen" ELSE "none"]
      BY <1>4, <2>3, <3>1
    <3>6. TaskMoved(f, m, t, x)
      BY <1>11, <3>2, <3>3, <3>5 DEF Typed, Ledgers, TaskMoved
    <3> QED
      BY <1>7, <1>11, <1>12, <1>13, <3>1, <3>4, <3>6, StopReportGood
  <2> QED
    BY <1>8, <2>1, <2>2, <2>3
<1>15. Final(run, m)
  BY <1>1, <1>12, <1>14, FinalTwice
<1> QED
  BY <1>5, <1>14, <1>15, Committed

\* From r to m the quality of task t took one more failure, for which attempt k may
\* have raised its tier.
FailureNoted(a, b, k) ==
  /\ b.attempts = a.attempts /\ b.rework = a.rework /\ b.ref = a.ref
  /\ b.quality = a.quality + 1
  /\ \/ b.escalations = a.escalations
     \/ b.escalations = Append(a.escalations, [attempt |-> k, failures |-> a.quality + 1])

\* What a failure of the current attempt escalates, no delivery so far is judged by.
LEMMA LevelKept ==
  ASSUME NEW n, NEW m, NEW t \in Tasks, n.task[t] \in TaskRecords,
         FailureNoted(n.task[t], m.task[t], n.task[t].attempts),
         NEW a, a \in Nat, a <= n.task[t].attempts
  PROVE  ReviewLevel(m, t, a) = ReviewLevel(n, t, a)
<1>1. PICK esc : esc = n.task[t].escalations
  OBVIOUS
<1>2. PICK more : more = m.task[t].escalations
  OBVIOUS
<1>3. esc \in Seq([attempt : Nat, failures : Nat]) /\ n.task[t].attempts \in Nat
  BY SMTT(40), <1>1 DEF TaskRecords
<1>4. {k \in DOMAIN more : more[k].attempt < a} = {k \in DOMAIN esc : esc[k].attempt < a}
  <2>1. CASE more = esc
    BY <2>1
  <2>2. CASE more = Append(esc, [attempt |-> n.task[t].attempts, failures |-> n.task[t].quality + 1])
    <3>1. PICK e : e = [attempt |-> n.task[t].attempts, failures |-> n.task[t].quality + 1]
      OBVIOUS
    <3>2. e.attempt = n.task[t].attempts /\ ~(e.attempt < a)
      BY <1>3, <3>1
    <3>3. more = Append(esc, e)
      BY <2>2, <3>1
    <3>4. /\ DOMAIN more = DOMAIN esc \cup {Len(esc) + 1} /\ more[Len(esc) + 1] = e
          /\ \A k \in DOMAIN esc : more[k] = esc[k]
      BY <1>3, <3>3
    <3> QED
      BY <3>2, <3>4
  <2> QED
    BY <1>1, <1>2, <2>1, <2>2 DEF FailureNoted
<1> QED
  BY <1>1, <1>2, <1>4 DEF ReviewLevel

\* There is one last producer.
LEMMA LastIsOne ==
  ASSUME NEW r, Typed(r), NEW t, NEW d, NEW e, IsLast(r, t, d), IsLast(r, t, e)
  PROVE  d = e
<1>1. DOMAIN r.asg = 1 .. Len(r.asg) /\ Len(r.asg) \in Nat
  BY Parts
<1>2. d <= e /\ e <= d /\ d \in DOMAIN r.asg /\ e \in DOMAIN r.asg
  BY DEF IsLast, ProducersOf, Of
<1> QED
  BY <1>1, <1>2

\* The failed deliveries are finitely many producers of the task.
LEMMA FailedFinite ==
  ASSUME NEW r, Typed(r), NEW t
  PROVE  /\ IsFiniteSet(FailedDeliveries(r, t)) /\ FailedDeliveries(r, t) \subseteq DOMAIN r.asg
         /\ FailedDeliveries(r, t) \subseteq ProducersOf(r, t)
<1>1. DOMAIN r.asg = 1 .. Len(r.asg) /\ Len(r.asg) \in Nat
  BY Parts
<1>2. FailedDeliveries(r, t) \subseteq ProducersOf(r, t) /\ ProducersOf(r, t) \subseteq DOMAIN r.asg
  BY DEF FailedDeliveries, ProducersOf, Of
<1>3. IsFiniteSet(1 .. Len(r.asg))
  BY <1>1, FS_Interval
<1> QED
  BY <1>1, <1>2, <1>3, FS_Subset

\* One delivery more failed: the counters follow.
LEMMA FailureCounted ==
  ASSUME NEW r, NEW m, Typed(r), NEW t \in Tasks, History(r, t), NEW d, IsLast(r, t, d),
         d \notin FailedDeliveries(r, t), r.asg[d].attempt = r.task[t].attempts,
         FailedDeliveries(m, t) = FailedDeliveries(r, t) \cup {d},
         FailureNoted(r.task[t], m.task[t], r.task[t].attempts),
         \A i : IsLast(m, t, i) <=> IsLast(r, t, i),
         \A i \in DOMAIN r.asg : m.asg[i].attempt = r.asg[i].attempt
  PROVE  FailuresCounted(m, t)
<1>1. PICK failed : failed = FailedDeliveries(r, t)
  OBVIOUS
<1>2. PICK esc : esc = r.task[t].escalations
  OBVIOUS
<1>3. PICK more : more = m.task[t].escalations
  OBVIOUS
<1>4. PICK top : top = r.task[t].attempts
  OBVIOUS
<1>5. PICK q : q = r.task[t].quality
  OBVIOUS
<1>6. /\ r.task[t] \in TaskRecords
      /\ esc \in Seq([attempt : Nat, failures : Nat]) /\ top \in Nat /\ q \in Nat
  BY <1>2, <1>4, <1>5, Parts DEF TaskRecords
<1>7. /\ q = Cardinality(failed)
      /\ \A k \in DOMAIN esc :
           /\ esc[k].attempt <= top
           /\ esc[k].failures = Cardinality({e \in failed : r.asg[e].attempt <= esc[k].attempt})
           /\ esc[k].attempt = top => \E e \in failed : IsLast(r, t, e)
      /\ \A e \in failed : r.asg[e].attempt = top => IsLast(r, t, e)
  BY <1>1, <1>2, <1>4, <1>5 DEF History, FailuresCounted
<1>8. PICK grown : grown = failed \cup {d}
  OBVIOUS
<1>9. /\ IsFiniteSet(failed) /\ failed \subseteq DOMAIN r.asg /\ failed \subseteq ProducersOf(r, t)
      /\ d \in DOMAIN r.asg
  BY <1>1, FailedFinite DEF IsLast, ProducersOf, Of
<1>10. Cardinality(grown) = q + 1
  BY <1>1, <1>7, <1>8, <1>9, FS_AddElement
<1>11. m.task[t].quality = q + 1 /\ m.task[t].attempts = top
       /\ (more = esc \/ more = Append(esc, [attempt |-> top, failures |-> q + 1]))
  BY <1>2, <1>3, <1>4, <1>5 DEF FailureNoted
<1>12. \A e \in grown : r.asg[e].attempt <= top /\ m.asg[e].attempt = r.asg[e].attempt
  <2>1. {r.asg[e].attempt : e \in ProducersOf(r, t)} = 1 .. top
    BY <1>4 DEF History, AttemptsCounted
  <2>2. \A e \in ProducersOf(r, t) : r.asg[e].attempt \in 1 .. top
    BY <2>1
  <2>3. \A e \in failed : r.asg[e].attempt <= top
    BY <1>6, <1>9, <2>2
  <2> QED
    BY <1>4, <1>6, <1>8, <1>9, <2>3
<1>13. ASSUME NEW k \in DOMAIN esc
       PROVE  /\ esc[k].attempt < top
              /\ esc[k].failures = Cardinality({e \in grown : m.asg[e].attempt <= esc[k].attempt})
  <2>1. esc[k].attempt \in Nat /\ esc[k].attempt <= top
    <3>1. esc[k] \in [attempt : Nat, failures : Nat]
      <4>1. PICK X : X = [attempt : Nat, failures : Nat]
        OBVIOUS
      <4>2. esc \in Seq(X) /\ k \in DOMAIN esc
        BY <1>6, <4>1
      <4>3. esc[k] \in X
        BY <4>2
      <4> QED
        BY <4>1, <4>3
    <3> QED
      BY <1>7, <3>1
  <2>2. esc[k].attempt # top
    BY <1>1, <1>7, LastIsOne
  <2>3. esc[k].attempt < top
    BY <1>6, <2>1, <2>2
  <2>4. ~(r.asg[d].attempt <= esc[k].attempt)
    BY <1>4, <1>6, <2>1, <2>3
  <2>5. {e \in grown : m.asg[e].attempt <= esc[k].attempt}
          = {e \in failed : r.asg[e].attempt <= esc[k].attempt}
    BY <1>8, <1>12, <2>4
  <2> QED
    BY <1>7, <2>3, <2>5
<1>14. \A e \in grown : m.asg[e].attempt = top => IsLast(m, t, e)
  BY <1>7, <1>8, <1>12
<1>15. \E e \in grown : IsLast(m, t, e)
  BY <1>8
<1>16. \A k \in DOMAIN more :
         /\ more[k].attempt <= top
         /\ more[k].failures = Cardinality({e \in grown : m.asg[e].attempt <= more[k].attempt})
         /\ more[k].attempt = top => \E e \in grown : IsLast(m, t, e)
  <2>1. CASE more = esc
    BY <1>7, <1>13, <1>15, <2>1
  <2>2. CASE more = Append(esc, [attempt |-> top, failures |-> q + 1])
    <3>1. PICK x : x = [attempt |-> top, failures |-> q + 1]
      OBVIOUS
    <3>2. x.attempt = top /\ x.failures = q + 1
      BY <3>1
    <3>3. /\ DOMAIN more = DOMAIN esc \cup {Len(esc) + 1} /\ more[Len(esc) + 1] = x
          /\ \A k \in DOMAIN esc : more[k] = esc[k]
      BY <1>6, <2>2, <3>1
    <3>4. {e \in grown : m.asg[e].attempt <= top} = grown
      BY <1>12
    <3>5. x.failures = Cardinality({e \in grown : m.asg[e].attempt <= x.attempt})
      BY <1>10, <3>2, <3>4
    <3>6. x.attempt <= top
      BY <1>6, <3>2
    <3> QED
      BY <1>7, <1>13, <1>15, <3>3, <3>5, <3>6
  <2> QED
    BY <1>11, <2>1, <2>2
<1>17. FailedDeliveries(m, t) = grown /\ m.task[t].quality = Cardinality(grown)
  BY <1>1, <1>8, <1>10, <1>11
<1>18. /\ \A k \in DOMAIN more :
            /\ more[k].attempt <= m.task[t].attempts
            /\ more[k].failures = Cardinality({e \in grown : m.asg[e].attempt <= more[k].attempt})
            /\ more[k].attempt = m.task[t].attempts => \E e \in grown : IsLast(m, t, e)
       /\ \A e \in grown : m.asg[e].attempt = m.task[t].attempts => IsLast(m, t, e)
  BY <1>11, <1>14, <1>16
<1>19. /\ \A k \in DOMAIN more :
            /\ more[k].attempt <= m.task[t].attempts
            /\ more[k].failures
                 = Cardinality({e \in FailedDeliveries(m, t) : m.asg[e].attempt <= more[k].attempt})
            /\ more[k].attempt = m.task[t].attempts =>
                 \E e \in FailedDeliveries(m, t) : IsLast(m, t, e)
       /\ \A e \in FailedDeliveries(m, t) :
            m.asg[e].attempt = m.task[t].attempts => IsLast(m, t, e)
  BY <1>17, <1>18
<1> QED
  BY <1>3, <1>17, <1>19 DEF FailuresCounted

\* No other delivery fails by what the failure escalates.
LEMMA FailedKept ==
  ASSUME NEW n, NEW m, Typed(n), Typed(m), m.asg = n.asg, NEW t \in Tasks, AttemptsCounted(n, t),
         \A u \in Tasks : RepliesFit(n, u), \A u \in Tasks : RepliesFit(m, u),
         FailureNoted(n.task[t], m.task[t], n.task[t].attempts)
  PROVE  FailedDeliveries(m, t) = FailedDeliveries(n, t)
<1>1. /\ FailedDeliveries(n, t) = {n.asg[j].delivery : j \in Rejecting(n, t)}
      /\ FailedDeliveries(m, t) = {m.asg[j].delivery : j \in Rejecting(m, t)}
  BY FailedLocal
<1>2. n.task[t] \in TaskRecords /\ n.task[t].attempts \in Nat
  BY Parts DEF TaskRecords
<1>3. \A e \in ProducersOf(n, t) :
        n.asg[e].attempt \in Nat /\ n.asg[e].attempt <= n.task[t].attempts
  <2>1. {n.asg[e].attempt : e \in ProducersOf(n, t)} = 1 .. n.task[t].attempts
    BY DEF AttemptsCounted
  <2>2. \A e \in ProducersOf(n, t) : n.asg[e].attempt \in 1 .. n.task[t].attempts
    BY <2>1
  <2> QED
    BY <1>2, <2>2
<1>4. ASSUME NEW j \in Of(n, t) PROVE Against(m, j) <=> Against(n, j)
  <2>1. n.asg[j].task = t
    BY DEF Of
  <2>2. n.asg[j].purpose # "producer" => n.asg[j].delivery \in ProducersOf(n, t)
    BY DEF RepliesFit
  <2>3. n.asg[j].purpose # "producer" =>
          ReviewLevel(m, t, n.asg[n.asg[j].delivery].attempt)
            = ReviewLevel(n, t, n.asg[n.asg[j].delivery].attempt)
    <3>1. SUFFICES ASSUME n.asg[j].purpose # "producer"
          PROVE  ReviewLevel(m, t, n.asg[n.asg[j].delivery].attempt)
                   = ReviewLevel(n, t, n.asg[n.asg[j].delivery].attempt)
      OBVIOUS
    <3>2. /\ n.asg[n.asg[j].delivery].attempt \in Nat
          /\ n.asg[n.asg[j].delivery].attempt <= n.task[t].attempts
      BY <1>3, <2>2, <3>1
    <3> QED
      BY <1>2, <3>2, LevelKept
  <2>4. \A k : SameReply(n.asg[k], m.asg[k])
    BY DEF SameReply
  <2> QED
    BY <2>1, <2>3, <2>4, AgainstSame
<1>5. Rejecting(m, t) = Rejecting(n, t)
  BY <1>4 DEF Rejecting, Of
<1> QED
  BY <1>1, <1>5

\* A delivery fails the gate for the first time: its failure is counted, and the
\* task is reworked, waits for that, or stops.
LEMMA GateFailedGood ==
  ASSUME NEW r, Good(r), plan \in Plans, NEW i \in DOMAIN r.asg, ~r.asg[i].accepted,
         NEW n, NEW p, NEW t, StoredFacts(r, n, i, p, t),
         r.task[t].state = "review", NEW d, IsLast(r, t, d),
         r.asg[d].attempt = r.task[t].attempts, d \notin FailedDeliveries(r, t),
         Against(n, i), n.asg[i].delivery = d,
         NEW m, Typed(m), m.asg = n.asg, m.life = r.life, m.d1 = r.d1,
         \A u \in Tasks \ {t} : m.task[u] = r.task[u] /\ m.claim[u] = r.claim[u],
         m.claim[t].state = "none" <=> r.claim[t].state = "none",
         FailureNoted(r.task[t], m.task[t], r.task[t].attempts),
         m.task[t].state \in {"review", "rework", "blocked", "failed"}, CapacityHolds(m)
  PROVE  Good(m) /\ Final(r, m)
<1>1. /\ Typed(n) /\ DOMAIN n.asg = DOMAIN r.asg /\ n.task = r.task
      /\ \A j \in DOMAIN r.asg \ {i} : n.asg[j] = r.asg[j]
      /\ \A v \in {"task", "purpose", "agent", "attempt", "delivery", "state", "dispatch",
                   "revoked", "successor"} : n.asg[i][v] = r.asg[i][v]
      /\ \A u \in Tasks \ {t} : SameFor(r, n, u)
      /\ t \in Tasks /\ i \in Of(r, t) /\ Of(n, t) = Of(r, t)
      /\ ProducersOf(n, t) = ProducersOf(r, t)
      /\ RepliesFit(n, t) /\ OneAtATime(n, t) /\ LastIsHead(n, t) /\ AttemptsCounted(n, t)
      /\ ProofsAccepted(n, t)
      /\ \A j \in Of(r, t) : r.asg[j].delivery # i
  BY DEF StoredFacts
<1>2. Typed(r) /\ History(r, t) /\ Status(r, t)
  BY <1>1 DEF Good
<1>3. \A j \in DOMAIN r.asg : /\ m.asg[j].attempt = r.asg[j].attempt
                              /\ m.asg[j].state = r.asg[j].state
                              /\ m.asg[j].dispatch = r.asg[j].dispatch
                              /\ m.asg[j].revoked = r.asg[j].revoked
                              /\ m.asg[j].successor = r.asg[j].successor
  BY <1>1
<1>4. Of(m, t) = Of(r, t) /\ ProducersOf(m, t) = ProducersOf(r, t)
      /\ Of(r, t) \subseteq DOMAIN r.asg /\ ProducersOf(r, t) \subseteq DOMAIN r.asg
      /\ \A k : IsLast(m, t, k) <=> IsLast(r, t, k)
  <2>1. Of(m, t) = Of(n, t) /\ ProducersOf(m, t) = ProducersOf(n, t)
    BY DEF Of, ProducersOf
  <2>2. Of(m, t) = Of(r, t) /\ ProducersOf(m, t) = ProducersOf(r, t)
    BY <1>1, <2>1
  <2> QED
    BY <2>2 DEF Of, ProducersOf, IsLast
<1>5. ASSUME NEW u \in Tasks \ {t} PROVE SameFor(r, m, u)
  <2>1. SameFor(r, n, u)
    BY <1>1
  <2>2. Of(m, u) = Of(n, u)
    BY SMTT(40) DEF Of
  <2> QED
    BY <2>1, <2>2 DEF SameFor
<1>6. RepliesFit(m, t)
  BY <1>1, <1>4 DEF RepliesFit
<1>7. ASSUME \A u \in Tasks : RepliesFit(m, u) PROVE History(m, t)
  <2>1. \A u \in Tasks : RepliesFit(n, u)
    <3>1. \A u : Of(m, u) = Of(n, u) /\ ProducersOf(m, u) = ProducersOf(n, u)
      BY DEF Of, ProducersOf
    <3> QED
      BY <1>7, <3>1 DEF RepliesFit
  <2>2. n.asg[i].delivery = r.asg[i].delivery
    BY <1>1
  <2>3. FailedDeliveries(n, t)
          = FailedDeliveries(r, t) \cup {r.asg[j].delivery : j \in {k \in {i} : Against(n, k)}}
    BY <1>1, <2>1, <2>2, StoredFailed
  <2>4. FailedDeliveries(n, t) = FailedDeliveries(r, t) \cup {d}
    BY <2>2, <2>3
  <2>5. FailedDeliveries(m, t) = FailedDeliveries(n, t)
    <3>1. FailureNoted(n.task[t], m.task[t], n.task[t].attempts)
      BY <1>1
    <3> QED
      BY <1>1, <1>7, <2>1, <3>1, FailedKept
  <2>6. FailedDeliveries(m, t) = FailedDeliveries(r, t) \cup {d}
    BY <2>4, <2>5
  <2>7. \A j \in DOMAIN r.asg : m.asg[j].attempt = r.asg[j].attempt
    BY <1>3
  <2>8. FailuresCounted(m, t)
    <3>1. t \in Tasks /\ Typed(r) /\ History(r, t)
      BY <1>1, <1>2
    <3>2. \A k : IsLast(m, t, k) <=> IsLast(r, t, k)
      BY <1>4
    <3> QED
      BY <2>6, <2>7, <3>1, <3>2, FailureCounted
  <2>9. OneAtATime(m, t) /\ ProofsAccepted(m, t)
    BY <1>1, <1>4 DEF OneAtATime, ProofsAccepted
  <2>10. m.task[t].attempts = r.task[t].attempts /\ m.task[t].rework = r.task[t].rework
         /\ m.task[t].ref = r.task[t].ref
    BY DEF FailureNoted
  <2>11. LastIsHead(m, t)
    BY <1>2, <1>3, <1>4, <2>10 DEF History, LastIsHead
  <2>12. AttemptsCounted(m, t)
    <3>1. {m.asg[j].attempt : j \in ProducersOf(r, t)} = {r.asg[j].attempt : j \in ProducersOf(r, t)}
      BY <1>3, <1>4
    <3> QED
      BY <1>2, <1>4, <2>10, <3>1 DEF History, AttemptsCounted
  <2>13. RefIsDelivery(m, t)
    <3>1. r.task[t].ref # 0 => IsLast(r, t, r.task[t].ref) /\ r.asg[r.task[t].ref].proof = "done"
      BY <1>2 DEF History, RefIsDelivery
    <3>2. r.asg[i].proof = "none"
      BY <1>1, <1>2 DEF History, ProofsAccepted
    <3>3. r.task[t].ref # 0 => r.task[t].ref # i /\ r.task[t].ref \in DOMAIN r.asg
      BY <3>1, <3>2 DEF IsLast, ProducersOf, Of
    <3>4. r.task[t].ref # 0 => m.asg[r.task[t].ref] = r.asg[r.task[t].ref]
      BY <1>1, <3>3
    <3> QED
      BY <1>4, <2>10, <3>1, <3>4 DEF RefIsDelivery
  <2> QED
    BY <1>6, <2>8, <2>9, <2>11, <2>12, <2>13 DEF History
<1>8. Status(m, t)
  <2>1. m.d1[t] = r.d1[t] /\ m.life = r.life /\ r.task[t].state = "review"
    OBVIOUS
  <2>2. r.task[t].ref # 0 /\ m.task[t].ref = r.task[t].ref
    BY <1>2 DEF Status, Steady, ReviewHasRef, FailureNoted
  <2>3. \A j \in Of(r, t) : /\ m.asg[j].state = r.asg[j].state
                            /\ m.asg[j].dispatch = r.asg[j].dispatch
                            /\ m.asg[j].revoked = r.asg[j].revoked
    BY <1>3, <1>4
  <2> QED
    BY <1>2, <1>4, <2>1, <2>2, <2>3, StatusMoved
<1> QED
  BY <1>1, <1>5, <1>6, <1>7, <1>8, OneTaskNew

\* From r to s only the record of task t changed, and perhaps its claim was frozen.
TaskOnly(r, s, t) ==
  /\ Typed(s) /\ s.asg = r.asg /\ s.life = r.life /\ s.d1 = r.d1
  /\ \A u \in Tasks \ {t} : s.task[u] = r.task[u] /\ s.claim[u] = r.claim[u]
  /\ s.claim[t].state = "none" <=> r.claim[t].state = "none"

\* The updates of a failed gate, one by one.
Counted(r, s, t) == s = [r EXCEPT !.task[t].quality = @ + 1]
Escalated(r, s, t, k) ==
  s = [r EXCEPT !.task[t].escalations = Append(@, [attempt |-> k, failures |-> r.task[t].quality])]
PhaseSet(r, s, t, st, ph) == s = [r EXCEPT !.task[t].state = st, !.task[t].phase = ph]
GateOpens(r, s, t, st, ph, d) ==
  s = [r EXCEPT !.task[t].state = st, !.task[t].phase = ph, !.gates = @ \cup {d}]

\* Two changes of the one task make one.
LEMMA TaskOnlyTwice ==
  ASSUME NEW r, NEW m, NEW s, NEW t, TaskOnly(r, m, t), TaskOnly(m, s, t)
  PROVE  TaskOnly(r, s, t)
BY DEF TaskOnly

\* Replacing the record of the task is a change of the one task, ...
LEMMA MovedOnly ==
  ASSUME NEW r, Typed(r), NEW t \in Tasks, NEW x \in TaskRecords, NEW s, TaskMoved(r, s, t, x)
  PROVE  TaskOnly(r, s, t) /\ s.task[t] = x
<1>1. LET w == [r EXCEPT !.task[t] = x] IN
      /\ Typed(w) /\ w.task[t] = x /\ \A u \in Tasks \ {t} : w.task[u] = r.task[u]
      /\ w.life = r.life /\ w.asg = r.asg /\ w.claim = r.claim /\ w.d1 = r.d1
  BY NewTask
<1>2. /\ Typed(s) /\ s.task[t] = x /\ \A u \in Tasks \ {t} : s.task[u] = r.task[u]
      /\ s.life = r.life /\ s.asg = r.asg /\ s.claim = r.claim /\ s.d1 = r.d1
  BY <1>1 DEF TaskMoved
<1> QED
  BY <1>2 DEF TaskOnly

\* ... counting a failure is, ...
LEMMA CountedFacts ==
  ASSUME NEW r, Typed(r), NEW t \in Tasks, NEW s, Counted(r, s, t)
  PROVE  /\ TaskOnly(r, s, t) /\ s.task[t].quality = r.task[t].quality + 1
         /\ s.task[t].attempts = r.task[t].attempts /\ s.task[t].rework = r.task[t].rework
         /\ s.task[t].ref = r.task[t].ref /\ s.task[t].escalations = r.task[t].escalations
         /\ s.task[t].state = r.task[t].state
<1>1. r \in Ledgers /\ r.task[t] \in TaskRecords
  BY Parts DEF Typed
<1>2. PICK q : q = r.task[t].quality + 1
  OBVIOUS
<1>3. q \in Nat
  BY <1>1, <1>2 DEF TaskRecords
<1>4. PICK x : x = [r.task[t] EXCEPT !.quality = q]
  OBVIOUS
<1>5. /\ x \in TaskRecords /\ x.quality = q /\ x.attempts = r.task[t].attempts
      /\ x.rework = r.task[t].rework /\ x.ref = r.task[t].ref
      /\ x.escalations = r.task[t].escalations /\ x.state = r.task[t].state
  BY <1>1, <1>3, <1>4 DEF TaskRecords
<1>6. TaskMoved(r, s, t, x)
  <2>1. s = [r EXCEPT !.task[t].quality = q]
    BY <1>1, <1>2 DEF Counted, Ledgers
  <2> QED
    BY <1>1, <1>4, <2>1 DEF TaskMoved, Ledgers
<1> QED
  BY <1>2, <1>5, <1>6, MovedOnly

\* ... noting an escalation, ...
LEMMA EscalatedFacts ==
  ASSUME NEW r, Typed(r), NEW t \in Tasks, NEW k \in Nat, NEW s, Escalated(r, s, t, k)
  PROVE  /\ TaskOnly(r, s, t) /\ s.task[t].quality = r.task[t].quality
         /\ s.task[t].attempts = r.task[t].attempts /\ s.task[t].rework = r.task[t].rework
         /\ s.task[t].ref = r.task[t].ref /\ s.task[t].state = r.task[t].state
         /\ s.task[t].escalations
              = Append(r.task[t].escalations, [attempt |-> k, failures |-> r.task[t].quality])
<1>1. r \in Ledgers /\ r.task[t] \in TaskRecords
  BY Parts DEF Typed
<1>2. PICK e : e = [attempt |-> k, failures |-> r.task[t].quality]
  OBVIOUS
<1>3. PICK q : q = Append(r.task[t].escalations, e)
  OBVIOUS
<1>4. q \in Seq([attempt : Nat, failures : Nat])
  <2>1. e \in [attempt : Nat, failures : Nat]
    BY <1>1, <1>2 DEF TaskRecords
  <2>2. r.task[t].escalations \in Seq([attempt : Nat, failures : Nat])
    BY <1>1 DEF TaskRecords
  <2> QED
    BY <1>3, <2>1, <2>2
<1>5. PICK x : x = [r.task[t] EXCEPT !.escalations = q]
  OBVIOUS
<1>6. /\ x \in TaskRecords /\ x.quality = r.task[t].quality /\ x.attempts = r.task[t].attempts
      /\ x.rework = r.task[t].rework /\ x.ref = r.task[t].ref
      /\ x.escalations = q /\ x.state = r.task[t].state
  BY <1>1, <1>4, <1>5 DEF TaskRecords
<1>7. TaskMoved(r, s, t, x)
  <2>1. s = [r EXCEPT !.task[t].escalations = q]
    BY <1>1, <1>2, <1>3 DEF Escalated, Ledgers
  <2> QED
    BY <1>1, <1>5, <2>1 DEF TaskMoved, Ledgers
<1> QED
  BY <1>2, <1>3, <1>6, <1>7, MovedOnly

\* ... setting its state and phase ...
LEMMA PhaseSetFacts ==
  ASSUME NEW r, Typed(r), NEW t \in Tasks, NEW st \in TaskStates, NEW ph \in Phases,
         NEW s, PhaseSet(r, s, t, st, ph)
  PROVE  TaskOnly(r, s, t) /\ SameCounts(r.task[t], s.task[t]) /\ s.task[t].state = st
<1>1. r \in Ledgers /\ r.task[t] \in TaskRecords
  BY Parts DEF Typed
<1>2. PICK x : x = [r.task[t] EXCEPT !.state = st, !.phase = ph]
  OBVIOUS
<1>3. x \in TaskRecords /\ SameCounts(r.task[t], x) /\ x.state = st
  BY <1>1, <1>2 DEF TaskRecords, SameCounts
<1>4. TaskMoved(r, s, t, x)
  BY <1>1, <1>2 DEF PhaseSet, TaskMoved, Ledgers
<1> QED
  BY <1>3, <1>4, MovedOnly

\* ... and opening a gate for the user to decide.
LEMMA GateOpensFacts ==
  ASSUME NEW r, Typed(r), NEW t \in Tasks, NEW st \in TaskStates, NEW ph \in Phases,
         NEW d \in Ids, NEW s, GateOpens(FreezeClaim(r, t), s, t, st, ph, d)
  PROVE  TaskOnly(r, s, t) /\ SameCounts(r.task[t], s.task[t]) /\ s.task[t].state = st
<1>1. PICK f : f = FreezeClaim(r, t)
  OBVIOUS
<1>2. /\ Typed(f) /\ \A u \in Tasks \ {t} : f.claim[u] = r.claim[u]
      /\ f.claim[t].state = "none" <=> r.claim[t].state = "none"
      /\ f.life = r.life /\ f.asg = r.asg /\ f.task = r.task /\ f.d1 = r.d1
  BY <1>1, ClaimFrozen
<1>3. PICK g : g = [f EXCEPT !.task[t].state = st, !.task[t].phase = ph]
  OBVIOUS
<1>4. PhaseSet(f, g, t, st, ph)
  BY <1>3 DEF PhaseSet
<1>5. TaskOnly(f, g, t) /\ SameCounts(f.task[t], g.task[t]) /\ g.task[t].state = st
  BY <1>2, <1>4, PhaseSetFacts
<1>6. f \in Ledgers /\ g \in Ledgers
  BY <1>2, <1>5 DEF TaskOnly, Typed
<1>7. s = [g EXCEPT !.gates = @ \cup {d}]
  <2>1. s = [f EXCEPT !.task[t].state = st, !.task[t].phase = ph, !.gates = @ \cup {d}]
    BY <1>1 DEF GateOpens
  <2> QED
    BY <1>3, <1>6, <2>1 DEF Ledgers
<1>8. /\ s \in Ledgers /\ s.asg = g.asg /\ s.life = g.life /\ s.d1 = g.d1 /\ s.task = g.task
      /\ s.claim = g.claim /\ s.obs = g.obs
  BY <1>6, <1>7 DEF Ledgers
<1>9. Typed(s)
  BY <1>5, <1>8 DEF TaskOnly, Typed
<1>10. TaskOnly(r, s, t)
  BY <1>2, <1>5, <1>8, <1>9 DEF TaskOnly
<1> QED
  BY <1>2, <1>5, <1>8, <1>10

\* A failed gate once the failure is counted (c) and perhaps escalated (e).
GateEnds(n, c, e, t, d) ==
  CASE NextQualityFailure(c, t) = "D3" ->
         [FreezeClaim(c, t) EXCEPT !.task[t].state = "failed", !.task[t].phase = "none",
                                   !.gates = @ \cup {d}]
    [] NextQualityFailure(c, t) = "D4" ->
         [FreezeClaim(c, t) EXCEPT !.task[t].state = "blocked", !.task[t].phase = "frozen",
                                   !.gates = @ \cup {d}]
    [] OTHER -> IF SlotFree(e, Tasks) /\ \A i \in Of(n, t) : NormalEnded(n, i)
                THEN [e EXCEPT !.task[t].state = "rework", !.task[t].phase = "none"]
                ELSE [e EXCEPT !.task[t].state = "review", !.task[t].phase = "awaiting-rework"]
GateMoves(n, c, t, d) ==
  GateEnds(n, c, IF NextQualityFailure(c, t) # "escalate" THEN c
                 ELSE [c EXCEPT !.task[t].escalations = Append(@,
                        [attempt |-> n.asg[d].attempt, failures |-> c.task[t].quality])], t, d)

\* What follows a first rejection, as one of the two kinds of change.
LEMMA GateFailureMoves ==
  ASSUME NEW n, NEW t, NEW d
  PROVE  AfterGateFailure(n, t, d) = GateMoves(n, [n EXCEPT !.task[t].quality = @ + 1], t, d)
BY DEF AfterGateFailure, GateMoves, GateEnds

\* What a failed gate does to the record: one failure more is counted, and the
\* task goes into rework only when a slot is free for it.
LEMMA GateFailureFacts ==
  ASSUME NEW n, Typed(n), plan \in Plans, CapacityHolds(n), NEW t \in Tasks, NEW d \in Ids,
         n.asg[d].attempt = n.task[t].attempts, n.task[t].state = "review",
         NEW m, m = AfterGateFailure(n, t, d)
  PROVE  /\ TaskOnly(n, m, t) /\ FailureNoted(n.task[t], m.task[t], n.task[t].attempts)
         /\ m.task[t].state \in {"review", "rework", "blocked", "failed"} /\ CapacityHolds(m)
<1>1. PICK k : k = n.asg[d].attempt
  OBVIOUS
<1>2. k = n.task[t].attempts /\ k \in Nat
  BY <1>1, Parts DEF TaskRecords
<1>3. PICK c : c = [n EXCEPT !.task[t].quality = @ + 1]
  OBVIOUS
<1>4. PICK w : w = [c EXCEPT !.task[t].escalations =
                      Append(@, [attempt |-> k, failures |-> c.task[t].quality])]
  OBVIOUS
<1>5. PICK e : e = IF NextQualityFailure(c, t) # "escalate" THEN c ELSE w
  OBVIOUS
<1>6. \/ /\ m = [FreezeClaim(c, t) EXCEPT !.task[t].state = "failed", !.task[t].phase = "none",
                                          !.gates = @ \cup {d}]
      \/ m = [FreezeClaim(c, t) EXCEPT !.task[t].state = "blocked", !.task[t].phase = "frozen",
                                          !.gates = @ \cup {d}]
      \/ /\ SlotFree(e, Tasks)
         /\ m = [e EXCEPT !.task[t].state = "rework", !.task[t].phase = "none"]
      \/ m = [e EXCEPT !.task[t].state = "review", !.task[t].phase = "awaiting-rework"]
  <2>1. m = GateMoves(n, c, t, d)
    BY <1>3, GateFailureMoves
  <2>2. m = GateEnds(n, c, e, t, d)
    BY <1>1, <1>4, <1>5, <2>1 DEF GateMoves
  <2> QED
    BY <2>2 DEF GateEnds
<1>7. \/ GateOpens(FreezeClaim(c, t), m, t, "failed", "none", d)
      \/ GateOpens(FreezeClaim(c, t), m, t, "blocked", "frozen", d)
      \/ SlotFree(e, Tasks) /\ PhaseSet(e, m, t, "rework", "none")
      \/ PhaseSet(e, m, t, "review", "awaiting-rework")
  BY <1>6 DEF GateOpens, PhaseSet
<1>8. Counted(n, c, t) /\ Escalated(c, w, t, k)
  BY <1>3, <1>4 DEF Counted, Escalated
<1>9. /\ TaskOnly(n, c, t) /\ c.task[t].quality = n.task[t].quality + 1
      /\ c.task[t].attempts = n.task[t].attempts /\ c.task[t].rework = n.task[t].rework
      /\ c.task[t].ref = n.task[t].ref /\ c.task[t].escalations = n.task[t].escalations
      /\ c.task[t].state = n.task[t].state
  BY <1>8, CountedFacts
<1>10. FailureNoted(n.task[t], c.task[t], n.task[t].attempts) /\ Typed(c)
  BY <1>9 DEF FailureNoted, TaskOnly
<1>11. TaskOnly(n, w, t) /\ FailureNoted(n.task[t], w.task[t], n.task[t].attempts)
       /\ w.task[t].state = n.task[t].state
  <2>1. /\ TaskOnly(c, w, t) /\ w.task[t].quality = c.task[t].quality
        /\ w.task[t].attempts = c.task[t].attempts /\ w.task[t].rework = c.task[t].rework
        /\ w.task[t].ref = c.task[t].ref /\ w.task[t].state = c.task[t].state
        /\ w.task[t].escalations
             = Append(c.task[t].escalations, [attempt |-> k, failures |-> c.task[t].quality])
    BY <1>2, <1>8, <1>10, EscalatedFacts
  <2>2. TaskOnly(n, w, t)
    BY <1>9, <2>1, TaskOnlyTwice
  <2> QED
    BY SMTT(40), <1>2, <1>9, <2>1, <2>2 DEF FailureNoted
<1>12. /\ TaskOnly(n, e, t) /\ FailureNoted(n.task[t], e.task[t], n.task[t].attempts) /\ Typed(e)
       /\ e.task[t].state = n.task[t].state
  <2>1. TaskOnly(n, e, t) /\ FailureNoted(n.task[t], e.task[t], n.task[t].attempts)
        /\ e.task[t].state = n.task[t].state
    BY <1>5, <1>9, <1>10, <1>11
  <2> QED
    BY <2>1 DEF TaskOnly
<1>13. \A a, b, x : FailureNoted(a, b, x) /\ SameCounts(b, m.task[t]) => FailureNoted(a, m.task[t], x)
  BY DEF FailureNoted, SameCounts
<1>14. /\ {"failed", "blocked", "rework", "review"} \subseteq TaskStates
       /\ {"none", "frozen", "awaiting-rework"} \subseteq Phases
  BY DEF TaskStates, Phases
<1>15. ASSUME TaskOnly(n, m, t), m.task[t].state \notin Executing PROVE CapacityHolds(m)
  <2>1. \A u \in Tasks : m.task[u].state \in Executing => n.task[u].state \in Executing
    BY <1>15 DEF TaskOnly
  <2> QED
    BY <2>1, CapacityStays
<1>16. ASSUME NEW st \in {"failed", "blocked"}, NEW ph \in {"none", "frozen"},
              GateOpens(FreezeClaim(c, t), m, t, st, ph, d)
       PROVE  /\ TaskOnly(n, m, t) /\ FailureNoted(n.task[t], m.task[t], n.task[t].attempts)
              /\ m.task[t].state \in {"blocked", "failed"} /\ CapacityHolds(m)
  <2>1. TaskOnly(c, m, t) /\ SameCounts(c.task[t], m.task[t]) /\ m.task[t].state = st
    BY <1>10, <1>14, <1>16, GateOpensFacts
  <2>2. TaskOnly(n, m, t) /\ FailureNoted(n.task[t], m.task[t], n.task[t].attempts)
    BY <1>9, <1>10, <1>13, <2>1, TaskOnlyTwice
  <2>3. m.task[t].state \in {"blocked", "failed"} /\ m.task[t].state \notin Executing
    BY <2>1 DEF Executing
  <2> QED
    BY <1>15, <2>2, <2>3
<1>17. ASSUME NEW st \in {"rework", "review"}, NEW ph \in {"none", "awaiting-rework"},
              PhaseSet(e, m, t, st, ph)
       PROVE  /\ TaskOnly(e, m, t) /\ TaskOnly(n, m, t)
              /\ FailureNoted(n.task[t], m.task[t], n.task[t].attempts) /\ m.task[t].state = st
  <2>1. TaskOnly(e, m, t) /\ SameCounts(e.task[t], m.task[t]) /\ m.task[t].state = st
    BY <1>12, <1>14, <1>17, PhaseSetFacts
  <2> QED
    BY <1>12, <1>13, <2>1, TaskOnlyTwice
<1>18. CASE SlotFree(e, Tasks) /\ PhaseSet(e, m, t, "rework", "none")
  <2>1. /\ TaskOnly(e, m, t) /\ TaskOnly(n, m, t)
        /\ FailureNoted(n.task[t], m.task[t], n.task[t].attempts) /\ m.task[t].state = "rework"
    BY <1>17, <1>18
  <2>2. SlotFree(e, Tasks \ {t})
    BY <1>18, SlotWithout
  <2>3. \A u \in Tasks \ {t} : m.task[u].state \in Executing => e.task[u].state \in Executing
    BY <2>1 DEF TaskOnly
  <2>4. CapacityHolds(m)
    BY <2>2, <2>3, SlotIsEnough
  <2> QED
    BY <2>1, <2>4
<1>19. CASE PhaseSet(e, m, t, "review", "awaiting-rework")
  <2>1. /\ TaskOnly(n, m, t)
        /\ FailureNoted(n.task[t], m.task[t], n.task[t].attempts) /\ m.task[t].state = "review"
    BY <1>17, <1>19
  <2>2. m.task[t].state \notin Executing
    BY <2>1 DEF Executing
  <2> QED
    BY <1>15, <2>1, <2>2
<1> QED
  BY <1>7, <1>16, <1>18, <1>19

\* A reply may send the task into smoke testing.
LEMMA SmokeGood ==
  ASSUME NEW n, Good(n), plan \in Plans, NEW t \in Tasks, NEW b \in BOOLEAN,
         n.task[t].state \notin {"absent", "done", "cancelled"},
         NEW s, s = [n EXCEPT !.task[t].phase = IF b THEN "smoke" ELSE @]
  PROVE  Good(s) /\ Final(n, s)
<1>1. n \in Ledgers /\ n.task[t] \in TaskRecords
  BY Parts DEF Good, Typed
<1>2. PICK x : x = [n.task[t] EXCEPT !.phase = IF b THEN "smoke" ELSE @]
  OBVIOUS
<1>3. x \in TaskRecords /\ SameCounts(n.task[t], x) /\ x.state = n.task[t].state
  BY <1>1, <1>2 DEF TaskRecords, Phases, SameCounts
<1>4. s = [n EXCEPT !.task[t] = x]
  BY <1>1, <1>2 DEF Ledgers
<1>5. LET w == [n EXCEPT !.task[t] = x] IN Good(w) /\ Final(n, w)
  BY <1>3, TaskGood
<1> QED
  BY <1>4, <1>5

\* A reply leaves the delivery of its task what it was.
LEMMA DeliveryStays ==
  ASSUME NEW r, NEW n, NEW t, NEW i, ProducersOf(n, t) = ProducersOf(r, t), n.task = r.task,
         i \notin ProducersOf(r, t),
         \A j \in DOMAIN r.asg \ {i} : n.asg[j] = r.asg[j], DOMAIN n.asg = DOMAIN r.asg
  PROVE  Delivery(n, t) = Delivery(r, t)
<1> DEFINE H(z) == {j \in ProducersOf(z, t) : z.asg[j].attempt = z.task[t].attempts
                                             /\ z.asg[j].successor = 0}
<1>1. \A j \in ProducersOf(r, t) : n.asg[j] = r.asg[j]
  BY DEF ProducersOf, Of
<1>2. H(n) = H(r)
  BY <1>1
<1>3. ProducerHead(n, t) = ProducerHead(r, t)
  <2>1. ProducerHead(n, t) = IF Cardinality(H(n)) = 1 THEN CHOOSE j \in H(n) : TRUE ELSE 0
    BY DEF ProducerHead
  <2>2. ProducerHead(r, t) = IF Cardinality(H(r)) = 1 THEN CHOOSE j \in H(r) : TRUE ELSE 0
    BY DEF ProducerHead
  <2> HIDE DEF H
  <2> QED
    BY <1>2, <2>1, <2>2
<1>4. ProducerHead(r, t) # 0 => ProducerHead(r, t) \in ProducersOf(r, t)
  <2>1. ProducerHead(r, t) = IF Cardinality(H(r)) = 1 THEN CHOOSE j \in H(r) : TRUE ELSE 0
    BY DEF ProducerHead
  <2>2. H(r) # {} => (CHOOSE j \in H(r) : TRUE) \in H(r)
    OBVIOUS
  <2>3. Cardinality({}) = 0
    BY FS_EmptySet
  <2>4. H(r) \subseteq ProducersOf(r, t)
    OBVIOUS
  <2> HIDE DEF H
  <2> QED
    BY <2>1, <2>2, <2>3, <2>4
<1>5. ProducerHead(r, t) # 0 => (DoneReport(n, ProducerHead(r, t)) <=> DoneReport(r, ProducerHead(r, t)))
  BY <1>1, <1>4 DEF DoneReport
<1> QED
  BY <1>3, <1>5 DEF Delivery

\* A rejection that counts is against the delivery; one that fails it first is that.
LEMMA ReplyKeeps ==
  ASSUME Inv, NEW i \in DOMAIN run.asg, NEW verdict \in plan.verdicts, Reply(i, verdict)
  PROVE  Inv' /\ Final(run, run')
<1>1. PICK r : r = run
  OBVIOUS
<1>2. PICK t : t = r.asg[i].task
  OBVIOUS
<1>3. PICK n : n = [r EXCEPT !.asg[i].accepted = TRUE, !.asg[i].proof = verdict]
  OBVIOUS
<1>4. PICK d : d = Delivery(n, t)
  OBVIOUS
<1>5. PICK b \in BOOLEAN : b <=> t \in plan.smoke /\ r.asg[i].purpose # "smoker"
  OBVIOUS
<1>6. PICK s : s = [n EXCEPT !.task[t].phase = IF b THEN "smoke" ELSE @]
  OBVIOUS
<1>7. /\ r.asg[i].purpose # "producer" /\ LiveAuthorized(r, i)
      /\ r.task[t].state = "review" \/ QualityReplyWindow(r, t)
      /\ d # 0 /\ r.asg[i].delivery = d /\ Eligible(n, i)
      /\ Commit(IF d \in FailedDeliveries(n, t)
                THEN IF d \in FailedDeliveries(r, t) THEN n ELSE AfterGateFailure(n, t, d)
                ELSE RecomputeDone(s, t))
  <2>1. s = [n EXCEPT !.task[t].phase =
               IF t \in plan.smoke /\ ~(r.asg[i].purpose = "smoker") THEN "smoke" ELSE @]
    BY <1>5, <1>6
  <2> QED
    BY <1>1, <1>2, <1>3, <1>4, <2>1 DEF Reply, FailedBefore
<1>8. IsStored(r, n, i, verdict)
  BY <1>3 DEF IsStored
<1>9. Good(r) /\ plan \in Plans /\ Typed(r) /\ i \in DOMAIN r.asg
  BY <1>1 DEF Inv, Good
<1>10. verdict \in Proofs \ {"none"}
  BY <1>9, PlanFacts DEF Proofs
<1>11. StoredFacts(r, n, i, verdict, t)
  BY <1>2, <1>7, <1>8, <1>9, <1>10, Stored
<1>12. /\ Typed(n) /\ n.task = r.task /\ n.claim = r.claim /\ n.d1 = r.d1 /\ n.life = r.life
       /\ t \in Tasks /\ i \in Of(r, t)
       /\ DOMAIN n.asg = DOMAIN r.asg /\ \A j \in DOMAIN r.asg \ {i} : n.asg[j] = r.asg[j]
       /\ ProducersOf(n, t) = ProducersOf(r, t) /\ n.asg[i].delivery = r.asg[i].delivery
       /\ n.asg[i].purpose = r.asg[i].purpose
       /\ \A v \in {"task", "purpose", "agent", "attempt", "delivery", "state", "dispatch",
                    "revoked", "successor"} : n.asg[i][v] = r.asg[i][v]
  BY <1>11 DEF StoredFacts
<1>13. r.task[t].state \in {"review", "rework", "failed", "blocked"}
  BY <1>7 DEF QualityReplyWindow
<1>14. d = Delivery(r, t)
  <2>1. i \notin ProducersOf(r, t)
    BY <1>7 DEF ProducersOf
  <2> QED
    BY <1>4, <1>12, <2>1, DeliveryStays
<1>15. r.asg[i].purpose \in {"reviewer", "smoker"}
  BY <1>7, <1>9, Parts DEF Assignments, Purposes
<1>16. d \in FailedDeliveries(n, t) \/ ~Against(n, i)
  <2>1. ASSUME Against(n, i) PROVE d \in FailedDeliveries(n, t)
    <3>1. i \in RepliesTo(n, d, "reviewer") \cup RepliesTo(n, d, "smoker")
      BY <1>7, <1>9, <1>12, <1>15 DEF RepliesTo
    <3>2. ValidDelivery(n, d)
      BY <1>7, <1>12 DEF Eligible
    <3>3. d \in ProducersOf(n, t)
      BY <1>7, <1>9, <1>12 DEF Good, History, RepliesFit
    <3> QED
      BY <2>1, <3>1, <3>2, <3>3 DEF FailedDeliveries, Against
  <2> QED
    BY <2>1
<1>17. CASE ~Against(n, i) \/ d \in FailedDeliveries(r, t)
  <2>1. Good(n) /\ Final(r, n)
    <3>1. Against(n, i) => r.asg[i].delivery \in FailedDeliveries(r, t)
      BY <1>7, <1>17
    <3>2. r.task[t].state \notin {"absent", "done", "cancelled"}
      BY <1>13
    <3> QED
      BY <1>2, <1>7, <1>8, <1>9, <1>10, <3>1, <3>2, StoredGood
  <2>2. Good(s) /\ Final(n, s)
    <3>1. n.task[t].state \notin {"absent", "done", "cancelled"}
      BY <1>12, <1>13
    <3> QED
      BY <1>6, <1>9, <1>12, <2>1, <3>1, SmokeGood
  <2>3. PICK q : q = RecomputeDone(s, t)
    OBVIOUS
  <2>4. Good(q) /\ Final(s, q)
    BY <1>9, <1>12, <2>2, <2>3, RecomputeGood
  <2>5. Final(run, n) /\ Final(run, q)
    BY <1>1, <2>1, <2>2, <2>4, FinalTwice
  <2>6. d \in FailedDeliveries(n, t) => d \in FailedDeliveries(r, t)
    <3>1. CASE d \in FailedDeliveries(r, t)
      BY <3>1
    <3>2. CASE ~Against(n, i)
      <4>1. \A u \in Tasks : RepliesFit(n, u)
        BY <2>1 DEF Good, History
      <4>2. Of(n, t) = Of(r, t) /\ \A j \in Of(r, t) : r.asg[j].delivery # i
        BY <1>11 DEF StoredFacts
      <4>3. ~r.asg[i].accepted
        BY <1>7 DEF LiveAuthorized
      <4>4. FailedDeliveries(n, t)
              = FailedDeliveries(r, t) \cup {r.asg[j].delivery : j \in {k \in {i} : Against(n, k)}}
        BY <1>9, <1>12, <4>1, <4>2, <4>3, StoredFailed
      <4> QED
        BY <3>2, <4>4
    <3> QED
      BY <1>17, <3>1, <3>2
  <2>7. Commit(n) \/ Commit(q)
    BY <1>7, <2>3, <2>6
  <2> QED
    BY <2>1, <2>4, <2>5, <2>7, Committed
<1>18. CASE Against(n, i) /\ d \notin FailedDeliveries(r, t)
  <2>1. PICK m : m = AfterGateFailure(n, t, d)
    OBVIOUS
  <2>2. Commit(m)
    BY <1>7, <1>16, <1>18, <2>1
  <2>3. r.task[t].state = "review"
    BY <1>7, <1>14, <1>18 DEF QualityReplyWindow
  <2>4. IsLast(r, t, d) /\ r.asg[d].attempt = r.task[t].attempts
    BY <1>7, <1>9, <1>12, <1>14, DeliveryIsRef DEF Good
  <2>5. d \in DOMAIN r.asg /\ d \in ProducersOf(r, t) /\ d \in Ids /\ d # i
    <3>1. d \in DOMAIN r.asg /\ d \in ProducersOf(r, t)
      BY <2>4 DEF IsLast, ProducersOf, Of
    <3> QED
      BY <1>7, <1>9, <3>1, Parts DEF ProducersOf
  <2>6. n.asg[d].attempt = n.task[t].attempts /\ n.task[t].state = "review"
    BY <1>12, <2>3, <2>4, <2>5
  <2>7. CapacityHolds(n)
    <3>1. \A u \in Tasks : n.task[u].state \in Executing => r.task[u].state \in Executing
      BY <1>12
    <3> QED
      BY <1>9, <3>1, CapacityStays DEF Good
  <2>8. /\ TaskOnly(n, m, t) /\ FailureNoted(n.task[t], m.task[t], n.task[t].attempts)
        /\ m.task[t].state \in {"review", "rework", "blocked", "failed"} /\ CapacityHolds(m)
    BY <1>9, <1>12, <2>1, <2>5, <2>6, <2>7, GateFailureFacts
  <2>9. /\ Typed(m) /\ m.asg = n.asg /\ m.life = r.life /\ m.d1 = r.d1
        /\ \A u \in Tasks \ {t} : m.task[u] = r.task[u] /\ m.claim[u] = r.claim[u]
        /\ m.claim[t].state = "none" <=> r.claim[t].state = "none"
        /\ FailureNoted(r.task[t], m.task[t], r.task[t].attempts)
    BY <1>12, <2>8 DEF TaskOnly
  <2>10. Good(m) /\ Final(r, m)
    <3>1. ~r.asg[i].accepted /\ n.asg[i].delivery = d
      BY <1>7, <1>12 DEF LiveAuthorized
    <3> QED
      BY <1>9, <1>11, <1>18, <2>3, <2>4, <2>8, <2>9, <3>1, GateFailedGood
  <2> QED
    BY <1>1, <2>2, <2>10, Committed
<1> QED
  BY <1>17, <1>18

-----------------------------------------------------------------------------
(* Dispatches.                                                             *)

\* From r to n assignment x was appended.
IsAppended(r, n, x) == n = [r EXCEPT !.asg = Append(@, x)]
AppendedFacts(r, n, x, k) ==
  /\ Typed(n) /\ DOMAIN n.asg = DOMAIN r.asg \cup {k} /\ k \notin DOMAIN r.asg
  /\ k \in Ids /\ n.asg[k] = x /\ \A j \in DOMAIN r.asg : j < k /\ n.asg[j] = r.asg[j]
  /\ n.life = r.life /\ n.revised = r.revised /\ n.deps = r.deps /\ n.task = r.task
  /\ n.claim = r.claim /\ n.d1 = r.d1 /\ n.gates = r.gates /\ n.obs = r.obs
  /\ Of(n, x.task) = Of(r, x.task) \cup {k}
  /\ \A u \in Tasks \ {x.task} : SameFor(r, n, u)

\* A new assignment is the last of the list and changes nothing of other tasks.
LEMMA Appended ==
  ASSUME NEW r, Typed(r), Len(r.asg) < MaxAssignments, NEW x \in Assignments, x.cancellation = 0,
         NEW k, k = Len(r.asg) + 1, NEW n, IsAppended(r, n, x)
  PROVE  AppendedFacts(r, n, x, k)
<1>1. r \in Ledgers /\ r.asg \in Seq(Assignments) /\ Len(r.asg) \in Nat
      /\ DOMAIN r.asg = 1 .. Len(r.asg) /\ Len(r.obs) \in Nat
  BY Parts DEF Typed
<1>2. PICK f : f = Append(r.asg, x)
  OBVIOUS
<1>3. /\ f \in Seq(Assignments) /\ Len(f) = k /\ DOMAIN f = 1 .. k /\ f[k] = x
      /\ \A j \in DOMAIN r.asg : f[j] = r.asg[j]
  BY <1>1, <1>2
<1>4. n = [r EXCEPT !.asg = f]
  BY <1>2 DEF IsAppended
<1>5. /\ n \in Ledgers /\ n.asg = f
      /\ n.life = r.life /\ n.revised = r.revised /\ n.deps = r.deps /\ n.task = r.task
      /\ n.claim = r.claim /\ n.d1 = r.d1 /\ n.gates = r.gates /\ n.obs = r.obs
  BY <1>1, <1>3, <1>4 DEF Ledgers
<1>6. /\ DOMAIN n.asg = DOMAIN r.asg \cup {k} /\ k \notin DOMAIN r.asg
      /\ k \in Ids /\ n.asg[k] = x /\ \A j \in DOMAIN r.asg : j < k /\ n.asg[j] = r.asg[j]
  <2>1. MaxAssignments \in Nat
    BY BoundsAssumption
  <2>2. k \in Ids
    BY <1>1, <2>1 DEF Ids
  <2>3. DOMAIN n.asg = 1 .. k /\ DOMAIN r.asg = 1 .. (k - 1) /\ k \in Nat
    BY <1>1, <1>3, <1>5
  <2>4. 1 .. k = (1 .. (k - 1)) \cup {k} /\ k \notin 1 .. (k - 1) /\ \A j \in 1 .. (k - 1) : j < k
    BY <1>1
  <2> QED
    BY <1>3, <1>5, <2>2, <2>3, <2>4
<1>7. Typed(n)
  <2>1. Len(n.asg) <= MaxAssignments
    BY <1>1, <1>3, <1>5, BoundsAssumption
  <2>2. \A j \in DOMAIN n.asg : n.asg[j].cancellation <= Len(n.obs)
    BY <1>1, <1>5, <1>6 DEF Typed
  <2> QED
    BY <1>5, <2>1, <2>2 DEF Typed
<1>8. \A u : Of(n, u) = Of(r, u) \cup {j \in {k} : x.task = u}
  BY <1>6 DEF Of
<1>9. Of(n, x.task) = Of(r, x.task) \cup {k}
  BY <1>8
<1>10. ASSUME NEW u \in Tasks \ {x.task} PROVE SameFor(r, n, u)
  <2>1. Of(n, u) = Of(r, u)
    BY <1>8
  <2> QED
    BY <1>5, <1>6, <2>1 DEF SameFor, Of
<1> QED
  BY <1>5, <1>6, <1>7, <1>9, <1>10 DEF AppendedFacts

\* Nobody is against anything by being asked.
LEMMA FailedAppended ==
  ASSUME NEW r, NEW n, Typed(r), Typed(n), \A u \in Tasks : RepliesFit(r, u),
         \A u \in Tasks : RepliesFit(n, u), NEW t \in Tasks, NEW k,
         Of(n, t) = Of(r, t) \cup {k}, k \notin DOMAIN r.asg, n.asg[k].proof = "none",
         \A j \in DOMAIN r.asg : SameReply(r.asg[j], n.asg[j]),
         n.task[t].escalations = r.task[t].escalations
  PROVE  FailedDeliveries(n, t) = FailedDeliveries(r, t)
<1>1. /\ FailedDeliveries(n, t) = {n.asg[j].delivery : j \in Rejecting(n, t)}
      /\ FailedDeliveries(r, t) = {r.asg[j].delivery : j \in Rejecting(r, t)}
  BY FailedLocal
<1>2. \A a : ReviewLevel(n, t, a) = ReviewLevel(r, t, a)
  BY DEF ReviewLevel
<1>3. ~Against(n, k)
  BY DEF Against
<1>4. ASSUME NEW j \in Of(r, t) PROVE Against(n, j) <=> Against(r, j)
  <2>1. r.asg[j].task = t /\ SameReply(r.asg[j], n.asg[j])
    BY DEF Of
  <2>2. r.asg[j].purpose # "producer" => r.asg[j].delivery \in DOMAIN r.asg
    BY DEF RepliesFit, ProducersOf, Of
  <2>3. r.asg[j].purpose # "producer" =>
          SameReply(r.asg[r.asg[j].delivery], n.asg[r.asg[j].delivery])
    BY <2>2
  <2>4. r.asg[j].purpose # "producer" =>
          ReviewLevel(n, t, r.asg[r.asg[j].delivery].attempt)
            = ReviewLevel(r, t, r.asg[r.asg[j].delivery].attempt)
    BY <1>2
  <2> QED
    BY <2>1, <2>3, <2>4, AgainstSame
<1>5. Rejecting(n, t) = Rejecting(r, t)
  BY <1>3, <1>4 DEF Rejecting
<1>6. \A j \in Rejecting(r, t) : n.asg[j].delivery = r.asg[j].delivery
  BY DEF Rejecting, SameReply, Of
<1>7. {n.asg[j].delivery : j \in Rejecting(r, t)} = {r.asg[j].delivery : j \in Rejecting(r, t)}
  BY <1>6
<1> QED
  BY <1>1, <1>5, <1>7

\* A reviewer or smoker is asked about the delivery.
LEMMA ReplyAskedGood ==
  ASSUME NEW r, Good(r), plan \in Plans, Len(r.asg) < MaxAssignments,
         NEW t \in Tasks, r.task[t].state = "review", NEW d, d = Delivery(r, t), d # 0,
         NEW x \in Assignments, x.cancellation = 0, x.task = t, x.purpose \in {"reviewer", "smoker"},
         x.purpose = "smoker" => t \in plan.smoke, x.delivery = d, x.attempt = r.asg[d].attempt,
         x.proof = "none", x.accepted = FALSE, x.revoked = "no", x.dispatch = "prepared",
         NEW n, IsAppended(r, n, x)
  PROVE  Good(n) /\ Final(r, n)
<1>1. Typed(r) /\ History(r, t) /\ Status(r, t) /\ CapacityHolds(r)
      /\ \A u \in Tasks : RepliesFit(r, u)
  BY DEF Good, History
<1>2. PICK k : k = Len(r.asg) + 1
  OBVIOUS
<1>3. /\ Typed(n) /\ DOMAIN n.asg = DOMAIN r.asg \cup {k} /\ k \notin DOMAIN r.asg
      /\ k \in Ids /\ n.asg[k] = x /\ \A j \in DOMAIN r.asg : j < k /\ n.asg[j] = r.asg[j]
      /\ n.life = r.life /\ n.task = r.task /\ n.claim = r.claim /\ n.d1 = r.d1
      /\ Of(n, t) = Of(r, t) \cup {k}
      /\ \A u \in Tasks \ {t} : SameFor(r, n, u)
  <2>1. AppendedFacts(r, n, x, k)
    BY <1>1, <1>2, Appended
  <2> QED
    BY <2>1 DEF AppendedFacts
<1>4. /\ Of(r, t) \subseteq DOMAIN r.asg /\ ProducersOf(r, t) \subseteq Of(r, t)
      /\ ProducersOf(n, t) = ProducersOf(r, t)
  BY <1>3 DEF Of, ProducersOf
<1>5. \A j \in Of(r, t) : n.asg[j] = r.asg[j] /\ j < k
  BY <1>3, <1>4
<1>6. \A j : IsLast(n, t, j) <=> IsLast(r, t, j)
  BY <1>4 DEF IsLast
<1>7. d \in ProducersOf(r, t) /\ r.asg[d].proof = "done" /\ r.asg[d].accepted
  <2>1. r.task[t].ref # 0
    BY <1>1 DEF Status, Steady, ReviewHasRef
  <2>2. d = r.task[t].ref
    BY <1>1, <2>1, DeliveryIsRef
  <2>3. IsLast(r, t, d) /\ r.asg[d].proof = "done"
    BY <1>1, <2>1, <2>2 DEF History, RefIsDelivery
  <2>4. d \in ProducersOf(r, t) /\ d \in Of(r, t)
    BY <2>3 DEF IsLast, ProducersOf
  <2>5. r.asg[d].accepted
    BY <1>1, <2>3, <2>4 DEF History, ProofsAccepted
  <2> QED
    BY <2>3, <2>4, <2>5
<1>8. RepliesFit(n, t)
  <2>1. ASSUME NEW j \in Of(r, t)
        PROVE  /\ n.asg[j].purpose = "producer" => n.asg[j].delivery = 0
               /\ n.asg[j].purpose # "producer" =>
                    /\ n.asg[j].delivery \in ProducersOf(n, t)
                    /\ n.asg[n.asg[j].delivery].proof = "done" /\ n.asg[n.asg[j].delivery].accepted
                    /\ n.asg[j].attempt = n.asg[n.asg[j].delivery].attempt
               /\ n.asg[j].purpose = "smoker" => t \in plan.smoke
    BY <1>1, <1>4, <1>5 DEF RepliesFit
  <2>2. /\ n.asg[k].purpose # "producer" /\ n.asg[k].delivery = d /\ d \in ProducersOf(n, t)
        /\ n.asg[d].proof = "done" /\ n.asg[d].accepted /\ n.asg[k].attempt = n.asg[d].attempt
        /\ n.asg[k].purpose = "smoker" => t \in plan.smoke
    BY <1>3, <1>4, <1>5, <1>7
  <2> QED
    BY <1>3, <2>1, <2>2 DEF RepliesFit
<1>9. ASSUME \A u \in Tasks : RepliesFit(n, u) PROVE History(n, t)
  <2>1. FailedDeliveries(n, t) = FailedDeliveries(r, t)
    <3>1. \A j \in DOMAIN r.asg : SameReply(r.asg[j], n.asg[j])
      BY <1>3 DEF SameReply
    <3>2. n.asg[k].proof = "none" /\ n.task[t].escalations = r.task[t].escalations
      BY <1>3
    <3> QED
      BY <1>1, <1>3, <1>9, <3>1, <3>2, FailedAppended
  <2>2. FailuresCounted(n, t)
    <3>1. \A e \in FailedDeliveries(r, t) : n.asg[e].attempt = r.asg[e].attempt
      BY <1>4, <1>5 DEF FailedDeliveries
    <3>2. FailuresCounted(r, t) /\ n.task[t] = r.task[t]
      BY <1>1, <1>3 DEF History
    <3> QED
      BY <1>6, <2>1, <3>1, <3>2, FailuresStay
  <2>3. OneAtATime(n, t)
    BY <1>1, <1>4, <1>5 DEF History, OneAtATime
  <2>4. LastIsHead(n, t)
    BY <1>1, <1>3, <1>4, <1>5, <1>6 DEF History, LastIsHead
  <2>5. AttemptsCounted(n, t)
    <3>1. {n.asg[j].attempt : j \in ProducersOf(r, t)} = {r.asg[j].attempt : j \in ProducersOf(r, t)}
      BY <1>4, <1>5
    <3> QED
      BY <1>1, <1>3, <1>4, <3>1 DEF History, AttemptsCounted
  <2>6. ProofsAccepted(n, t)
    BY <1>1, <1>3, <1>5 DEF History, ProofsAccepted
  <2>7. RefIsDelivery(n, t)
    BY <1>1, <1>3, <1>4, <1>5, <1>6 DEF History, RefIsDelivery, IsLast
  <2> QED
    BY <1>8, <2>2, <2>3, <2>4, <2>5, <2>6, <2>7 DEF History
<1>10. Status(n, t)
  <2>1. AbsentIsFresh(n, t) /\ AwaitsGraph(n, t) /\ DoneHolds(n, t) /\ CancelledHolds(n, t)
    BY <1>1, <1>3 DEF Status, Steady, AbsentIsFresh, AwaitsGraph, DoneHolds, CancelledHolds
  <2>2. CancelHolds(n, t) /\ ReviewHasRef(n, t)
    BY <1>1, <1>3 DEF Status, Steady, CancelHolds, ReviewHasRef
  <2>3. ClaimCovers(n, t)
    BY <1>1, <1>3, <1>4, <1>5 DEF Status, Steady, ClaimCovers
  <2>4. WithdrawnIsFrozen(n, t)
    BY <1>1, <1>3, <1>5 DEF Status, WithdrawnIsFrozen
  <2>5. NonceCounts(n, t)
    <3>1. k \in Of(n, t) /\ n.asg[k].revoked = "no"
      BY <1>3
    <3>2. \A j \in Of(n, t) : j <= k
      <4>1. k \in Nat
        BY <1>1, <1>2, Parts
      <4>2. \A j \in Of(r, t) : j \in Nat /\ j < k
        BY <1>1, <1>4, <1>5, Parts
      <4> QED
        BY <1>3, <4>1, <4>2
    <3> QED
      BY <3>1, <3>2 DEF NonceCounts
  <2> QED
    BY <2>1, <2>2, <2>3, <2>4, <2>5 DEF Status, Steady
<1>11. CapacityHolds(n)
  BY <1>1, <1>3, CapacityStays
<1> QED
  BY <1>3, <1>8, <1>9, <1>10, <1>11, OneTaskNew

\* An assignment as a dispatch makes it.
NewActor(t, p, a, k, d, b) ==
  [Blank EXCEPT !.task = t, !.purpose = p, !.agent = a, !.attempt = k, !.delivery = d, !.born = b]
ActorFacts(x, t, p, k, d) ==
  /\ x \in Assignments /\ x.task = t /\ x.purpose = p /\ x.attempt = k /\ x.delivery = d
  /\ x.state = "assigned" /\ x.proof = "none" /\ x.accepted = FALSE /\ x.revoked = "no"
  /\ x.dispatch = "prepared" /\ x.cancellation = 0 /\ x.successor = 0

\* Such an assignment has its type, has reported nothing and is still to be sent.
LEMMA NewAssignment ==
  ASSUME NEW t, t \in Tasks, NEW p, p \in Purposes, NEW a, a \in Agents, NEW k, k \in Nat,
         NEW d, d \in {0} \cup Ids, NEW b, b \in Nat, NEW x, x = NewActor(t, p, a, k, d, b)
  PROVE  ActorFacts(x, t, p, k, d)
<1>1. x = [task |-> t, purpose |-> p, agent |-> a, attempt |-> k, delivery |-> d, born |-> b,
           state |-> "assigned", turn |-> 0, proof |-> "none", accepted |-> FALSE,
           revoked |-> "no", dispatch |-> "prepared", archive |-> "none", cancellation |-> 0,
           successor |-> 0]
  BY DEF NewActor, Blank
<1>2. "none" \in Proofs /\ 0 \in Nat
  BY DEF Proofs
<1>3. x \in Assignments
  BY <1>1, <1>2 DEF Assignments
<1> QED
  BY <1>1, <1>3 DEF ActorFacts

\* Dispatching a reviewer or a smoker keeps the invariant.
LEMMA DispatchReplyKeeps ==
  ASSUME Inv, NEW t \in Tasks, NEW a \in DOMAIN plan.seat, NEW purpose \in {"reviewer", "smoker"},
         DispatchReply(t, a, purpose)
  PROVE  Inv' /\ Final(run, run')
<1>1. PICK r : r = run
  OBVIOUS
<1>2. PICK d : d = Delivery(r, t)
  OBVIOUS
<1>3. PICK x : x = [Blank EXCEPT !.task = t, !.purpose = purpose, !.agent = a,
                      !.attempt = r.asg[d].attempt, !.delivery = d, !.born = Len(r.obs)]
  OBVIOUS
<1>4. PICK n : n = [r EXCEPT !.asg = Append(@, x)]
  OBVIOUS
<1>5. /\ Len(r.asg) < plan.assignments /\ a \in Seats(r, t, purpose)
      /\ r.task[t].state = "review" /\ d # 0 /\ Commit(n)
  BY <1>1, <1>2, <1>3, <1>4 DEF DispatchReply, CanAssign
<1>6. Good(r) /\ plan \in Plans /\ Typed(r)
  BY <1>1 DEF Inv, Good
<1>7. d \in DOMAIN r.asg /\ d \in Ids /\ r.asg[d].attempt \in Nat
  <2>1. d \in DOMAIN r.asg
    BY <1>2, <1>5, <1>6, DeliveryIsRef DEF Good, IsLast, ProducersOf, Of
  <2>2. r.asg[d] \in Assignments /\ d \in Ids
    BY <1>6, <2>1, Parts
  <2> QED
    BY <2>1, <2>2 DEF Assignments
<1>8. a \in Agents /\ purpose \in Purposes /\ Len(r.obs) \in Nat /\ Len(r.asg) < MaxAssignments
  <2>1. a \in Agents /\ plan.assignments \in Nat /\ plan.assignments <= MaxAssignments
    BY <1>6, PlanFacts
  <2>2. Len(r.obs) \in Nat /\ Len(r.asg) \in Nat
    BY <1>6, Parts
  <2> QED
    BY <1>5, <2>1, <2>2, BoundsAssumption DEF Purposes
<1>9. /\ x \in Assignments /\ x.task = t /\ x.purpose = purpose /\ x.attempt = r.asg[d].attempt
      /\ x.delivery = d /\ x.proof = "none" /\ x.accepted = FALSE /\ x.revoked = "no"
      /\ x.dispatch = "prepared" /\ x.cancellation = 0
  <2>1. x = NewActor(t, purpose, a, r.asg[d].attempt, d, Len(r.obs))
    BY <1>3 DEF NewActor
  <2>2. d \in {0} \cup Ids
    BY <1>7
  <2>3. ActorFacts(x, t, purpose, r.asg[d].attempt, d)
    BY <1>7, <1>8, <2>1, <2>2, NewAssignment
  <2> QED
    BY <2>3 DEF ActorFacts
<1>10. x.purpose = "smoker" => t \in plan.smoke
  BY <1>5, <1>9 DEF Seats
<1>11. IsAppended(r, n, x)
  BY <1>4 DEF IsAppended
<1>12. Good(n) /\ Final(r, n)
  BY <1>2, <1>5, <1>6, <1>8, <1>9, <1>10, <1>11, ReplyAskedGood
<1> QED
  BY <1>1, <1>5, <1>12, Committed

\* What the actors of task t become when a producer takes over: their open nonces
\* are revoked, and the one that is issued again names its successor.
Closed(r, t, i) ==
  IF r.asg[i].task = t /\ r.asg[i].revoked = "no" /\ ~r.asg[i].accepted
  THEN [r.asg[i] EXCEPT !.revoked = "other"] ELSE r.asg[i]
Handed(r, t, old, k) ==
  [i \in DOMAIN r.asg |-> IF i = old THEN [Closed(r, t, i) EXCEPT !.successor = k]
                                     ELSE Closed(r, t, i)]
HandedOver(a, b, t) ==
  /\ SameReply(a, b) /\ b.state = a.state /\ b.dispatch = a.dispatch
  /\ a.revoked # "no" => b.revoked # "no"
  /\ a.task = t => b.accepted \/ b.revoked # "no"

\* What handing over does to an assignment, field by field.
LEMMA ClosedFields ==
  ASSUME NEW r, NEW t, NEW i, r.asg[i] \in Assignments, NEW k, k \in Ids
  PROVE  LET a == r.asg[i]
             b == Closed(r, t, i)
             c == [b EXCEPT !.successor = k]
         IN /\ b \in Assignments /\ c \in Assignments
            /\ HandedOver(a, b, t) /\ HandedOver(a, c, t)
            /\ b.cancellation = a.cancellation /\ c.cancellation = a.cancellation
            /\ a.task # t => b = a
<1>1. PICK a \in Assignments : a = r.asg[i]
  OBVIOUS
<1>2. PICK b : b = Closed(r, t, i)
  OBVIOUS
<1>3. PICK c : c = [b EXCEPT !.successor = k]
  OBVIOUS
<1>4. b \in Assignments /\ HandedOver(a, b, t) /\ b.cancellation = a.cancellation /\ (a.task # t => b = a)
  <2>1. CASE a.task = t /\ a.revoked = "no" /\ ~a.accepted
    <3>1. b = [a EXCEPT !.revoked = "other"]
      BY <1>1, <1>2, <2>1 DEF Closed
    <3> QED
      BY <2>1, <3>1 DEF Assignments, HandedOver, SameReply
  <2>2. CASE ~(a.task = t /\ a.revoked = "no" /\ ~a.accepted)
    <3>1. b = a
      BY <1>1, <1>2, <2>2 DEF Closed
    <3> QED
      BY <2>2, <3>1 DEF HandedOver, SameReply
  <2> QED
    BY <2>1, <2>2
<1>5. /\ c \in Assignments /\ c.cancellation = b.cancellation /\ SameReply(b, c)
      /\ c.state = b.state /\ c.dispatch = b.dispatch /\ c.revoked = b.revoked
      /\ c.accepted = b.accepted
  BY <1>3, <1>4 DEF Assignments, SameReply
<1>6. HandedOver(a, c, t)
  BY <1>4, <1>5 DEF HandedOver, SameReply
<1> QED
  BY <1>1, <1>2, <1>3, <1>4, <1>5, <1>6

\* The record with its actors handed over.
IsHanded(r, q, t, old, k) == q = [r EXCEPT !.asg = Handed(r, t, old, k)]
HandedFact(r, q, t) ==
  /\ Typed(q) /\ DOMAIN q.asg = DOMAIN r.asg /\ Len(q.asg) = Len(r.asg)
  /\ q.life = r.life /\ q.revised = r.revised /\ q.deps = r.deps /\ q.task = r.task
  /\ q.claim = r.claim /\ q.d1 = r.d1 /\ q.gates = r.gates /\ q.obs = r.obs
  /\ \A j \in DOMAIN r.asg : HandedOver(r.asg[j], q.asg[j], t)
  /\ \A j \in DOMAIN r.asg : r.asg[j].task # t => q.asg[j] = r.asg[j]

\* Handing over changes the actors of the one task only.
LEMMA HandedFacts ==
  ASSUME NEW r, Typed(r), NEW t \in Tasks, NEW old, old = 0 \/ old \in Of(r, t), NEW k, k \in Ids,
         NEW q, IsHanded(r, q, t, old, k)
  PROVE  HandedFact(r, q, t)
<1>1. PICK f : f = Handed(r, t, old, k)
  OBVIOUS
<1>2. \A j \in DOMAIN r.asg : r.asg[j] \in Assignments /\ r.asg[j].cancellation <= Len(r.obs)
  BY Parts DEF Typed
<1>3. DOMAIN f = DOMAIN r.asg
  BY <1>1 DEF Handed
<1>4. ASSUME NEW j \in DOMAIN r.asg
      PROVE  /\ f[j] \in Assignments /\ f[j].cancellation <= Len(r.obs)
             /\ HandedOver(r.asg[j], f[j], t)
             /\ r.asg[j].task # t => f[j] = r.asg[j]
  <2>1. PICK b : b = Closed(r, t, j)
    OBVIOUS
  <2>2. PICK c : c = [b EXCEPT !.successor = k]
    OBVIOUS
  <2>3. f[j] = IF j = old THEN c ELSE b
    BY <1>1, <2>1, <2>2 DEF Handed
  <2>4. /\ b \in Assignments /\ c \in Assignments
        /\ HandedOver(r.asg[j], b, t) /\ HandedOver(r.asg[j], c, t)
        /\ b.cancellation = r.asg[j].cancellation /\ c.cancellation = r.asg[j].cancellation
        /\ r.asg[j].task # t => b = r.asg[j]
    BY <1>2, <2>1, <2>2, ClosedFields
  <2>5. r.asg[j].task # t => j # old
    <3>1. DOMAIN r.asg = 1 .. Len(r.asg) /\ Len(r.asg) \in Nat
      BY Parts
    <3> QED
      BY <3>1 DEF Of
  <2> QED
    BY <1>2, <2>3, <2>4, <2>5
<1>5. f \in [DOMAIN r.asg -> Assignments]
  <2>1. f = [j \in DOMAIN r.asg |-> f[j]]
    BY <1>1 DEF Handed
  <2> QED
    BY <1>4, <2>1
<1>6. q = [r EXCEPT !.asg = f]
  BY <1>1 DEF IsHanded
<1>7. LET w == [r EXCEPT !.asg = f] IN
      /\ Typed(w) /\ w.asg = f /\ DOMAIN w.asg = DOMAIN r.asg
      /\ w.life = r.life /\ w.revised = r.revised /\ w.deps = r.deps /\ w.task = r.task
      /\ w.claim = r.claim /\ w.d1 = r.d1 /\ w.gates = r.gates /\ w.obs = r.obs
  BY <1>4, <1>5, NewAsg
<1>8. /\ Typed(q) /\ q.asg = f /\ DOMAIN q.asg = DOMAIN r.asg
      /\ q.life = r.life /\ q.revised = r.revised /\ q.deps = r.deps /\ q.task = r.task
      /\ q.claim = r.claim /\ q.d1 = r.d1 /\ q.gates = r.gates /\ q.obs = r.obs
  BY <1>6, <1>7
<1>9. Len(q.asg) = Len(r.asg)
  <2>1. r.asg \in Seq(Assignments)
    BY Parts
  <2> QED
    BY <1>5, <1>8, <2>1, SeqMapped
<1> QED
  BY <1>4, <1>8, <1>9 DEF HandedFact

\* From r to n producer k, with assignment x, took task t over, whose record is y.
TakenOver(r, n, t, x, y, k) ==
  /\ Typed(n) /\ k \in Ids /\ DOMAIN n.asg = DOMAIN r.asg \cup {k} /\ k \notin DOMAIN r.asg
  /\ \A j \in DOMAIN r.asg : j < k /\ HandedOver(r.asg[j], n.asg[j], t)
  /\ n.asg[k] = x /\ n.life = r.life /\ n.d1 = r.d1 /\ n.task[t] = y
  /\ \A u \in Tasks \ {t} : SameFor(r, n, u)
  /\ n.claim[t].state # "none" /\ Of(n, t) = Of(r, t) \cup {k}
  /\ \A u \in Tasks \ {t} : n.task[u] = r.task[u]

ClaimTaken(p, c, t, k) ==
  c = [p EXCEPT !.claim[t] = IF @.state = "none" THEN [state |-> "held", origin |-> k] ELSE @]

\* The four steps of a dispatch together.
LEMMA TakenOverFacts ==
  ASSUME NEW r, Typed(r), Len(r.asg) < MaxAssignments, NEW t \in Tasks,
         NEW old, old = 0 \/ old \in Of(r, t), NEW k, k = Len(r.asg) + 1,
         NEW x \in Assignments, x.cancellation = 0, x.task = t,
         NEW q, IsHanded(r, q, t, old, k),
         NEW p, IsAppended(q, p, x),
         NEW c, ClaimTaken(p, c, t, k),
         NEW y \in TaskRecords, NEW n, TaskMoved(c, n, t, y)
  PROVE  TakenOver(r, n, t, x, y, k)
<1>1. k \in Ids
  <2>1. Len(r.asg) \in Nat
    BY Parts
  <2> QED
    BY <2>1, BoundsAssumption DEF Ids
<1>2. /\ Typed(q) /\ DOMAIN q.asg = DOMAIN r.asg /\ Len(q.asg) = Len(r.asg)
      /\ q.life = r.life /\ q.task = r.task /\ q.claim = r.claim /\ q.d1 = r.d1
      /\ \A j \in DOMAIN r.asg : HandedOver(r.asg[j], q.asg[j], t)
      /\ \A j \in DOMAIN r.asg : r.asg[j].task # t => q.asg[j] = r.asg[j]
  <2>1. HandedFact(r, q, t)
    BY <1>1, HandedFacts
  <2> QED
    BY <2>1 DEF HandedFact
<1>3. AppendedFacts(q, p, x, k)
  BY <1>2, Appended
<1>4. /\ Typed(p) /\ DOMAIN p.asg = DOMAIN q.asg \cup {k} /\ k \notin DOMAIN q.asg
      /\ p.asg[k] = x /\ \A j \in DOMAIN q.asg : j < k /\ p.asg[j] = q.asg[j]
      /\ p.life = q.life /\ p.task = q.task /\ p.claim = q.claim /\ p.d1 = q.d1
      /\ Of(p, t) = Of(q, t) \cup {k}
      /\ \A u \in Tasks \ {t} : SameFor(q, p, u)
  BY <1>3 DEF AppendedFacts
<1>5. PICK z : z = IF p.claim[t].state = "none" THEN [state |-> "held", origin |-> k] ELSE p.claim[t]
  OBVIOUS
<1>6. z \in Claims /\ z.state # "none"
  <2>1. p.claim[t] \in Claims
    BY <1>4, Parts
  <2> QED
    BY <1>1, <1>5, <2>1 DEF Claims
<1>7. c = [p EXCEPT !.claim[t] = z]
  <2>1. p \in Ledgers
    BY <1>4 DEF Typed
  <2> QED
    BY <1>5, <2>1 DEF Ledgers, ClaimTaken
<1>8. LET w == [p EXCEPT !.claim[t] = z] IN
      /\ Typed(w) /\ w.claim[t] = z /\ \A u \in Tasks \ {t} : w.claim[u] = p.claim[u]
      /\ w.life = p.life /\ w.asg = p.asg /\ w.task = p.task /\ w.d1 = p.d1
  <2>1. Typed(p) /\ z \in Claims
    BY <1>4, <1>6
  <2> QED
    BY <2>1, NewClaim
<1>9. /\ Typed(c) /\ c.claim[t].state # "none" /\ \A u \in Tasks \ {t} : c.claim[u] = p.claim[u]
      /\ c.life = p.life /\ c.asg = p.asg /\ c.task = p.task /\ c.d1 = p.d1
  BY <1>6, <1>7, <1>8
<1>10. TaskOnly(c, n, t) /\ n.task[t] = y
  BY <1>9, MovedOnly
<1>11. /\ Typed(n) /\ n.asg = p.asg /\ n.life = r.life /\ n.d1 = r.d1 /\ n.claim[t].state # "none"
       /\ \A u \in Tasks \ {t} : n.task[u] = r.task[u] /\ n.claim[u] = r.claim[u]
  BY <1>2, <1>4, <1>9, <1>10 DEF TaskOnly
<1>12. \A u : Of(q, u) = Of(r, u)
  BY <1>2 DEF Of, HandedOver, SameReply
<1>13. \A u : Of(n, u) = Of(p, u)
  BY <1>11 DEF Of
<1>14. ASSUME NEW u \in Tasks \ {t} PROVE SameFor(r, n, u)
  <2>1. SameFor(q, p, u)
    BY <1>4
  <2>2. Of(n, u) = Of(r, u) /\ \A j \in Of(r, u) : n.asg[j] = q.asg[j]
    BY <1>11, <1>12, <1>13, <2>1 DEF SameFor
  <2>3. \A j \in Of(r, u) : n.asg[j] = r.asg[j]
    BY <1>2, <2>2 DEF Of
  <2> QED
    BY <1>11, <2>2, <2>3 DEF SameFor
<1>15. DOMAIN n.asg = DOMAIN r.asg \cup {k} /\ k \notin DOMAIN r.asg /\ n.asg[k] = x
       /\ \A j \in DOMAIN r.asg : j < k /\ HandedOver(r.asg[j], n.asg[j], t)
  BY <1>2, <1>4, <1>11
<1>16. Of(n, t) = Of(r, t) \cup {k}
  BY <1>4, <1>12, <1>13
<1> QED
  BY <1>1, <1>10, <1>11, <1>14, <1>15, <1>16 DEF TakenOver

\* The counters when a producer takes over: a first or further attempt (old = 0),
\* or the last one issued again.
TakenCounts(r, t, y, old) ==
  /\ y.state = "assigned" /\ y.ref = 0 /\ y.quality = r.task[t].quality
  /\ y.escalations = r.task[t].escalations
  /\ y.attempts = IF old = 0 THEN r.task[t].attempts + 1 ELSE r.task[t].attempts
  /\ y.rework = IF old = 0 /\ r.task[t].attempts > 0 THEN r.task[t].rework + 1
                ELSE r.task[t].rework

\* The history of the task a producer took over.
LEMMA TakenOverHistory ==
  ASSUME NEW r, Good(r), NEW t \in Tasks, NEW old, NEW k, NEW x, NEW y, NEW n,
         TakenOver(r, n, t, x, y, k), ActorFacts(x, t, "producer", y.attempts, 0),
         TakenCounts(r, t, y, old),
         \A j \in ProducersOf(r, t) : r.asg[j].state = "ended",
         old # 0 => IsLast(r, t, old) /\ ~ValidDelivery(r, old)
  PROVE  /\ RepliesFit(n, t)
         /\ (\A u \in Tasks : RepliesFit(n, u)) => History(n, t)
<1>1. /\ Typed(n) /\ DOMAIN n.asg = DOMAIN r.asg \cup {k} /\ k \notin DOMAIN r.asg /\ k \in Ids
      /\ \A j \in DOMAIN r.asg : j < k /\ HandedOver(r.asg[j], n.asg[j], t)
      /\ n.asg[k] = x /\ n.task[t] = y /\ Of(n, t) = Of(r, t) \cup {k}
  BY DEF TakenOver
<1>2. /\ x.task = t /\ x.purpose = "producer" /\ x.attempt = y.attempts /\ x.delivery = 0
      /\ x.proof = "none" /\ x.accepted = FALSE /\ x.successor = 0
  BY DEF ActorFacts
<1>3. Typed(r) /\ History(r, t) /\ \A u \in Tasks : RepliesFit(r, u)
  BY DEF Good, History
<1>4. /\ Of(r, t) \subseteq DOMAIN r.asg /\ ProducersOf(r, t) \subseteq Of(r, t)
      /\ ProducersOf(n, t) = ProducersOf(r, t) \cup {k} /\ k \in ProducersOf(n, t)
  <2>1. Of(r, t) \subseteq DOMAIN r.asg
    BY DEF Of
  <2>2. \A j \in Of(r, t) : n.asg[j].purpose = r.asg[j].purpose
    BY <1>1, <2>1 DEF HandedOver, SameReply
  <2> QED
    BY <1>1, <1>2, <2>1, <2>2 DEF ProducersOf
<1>5. \A j \in Of(r, t) : /\ j < k /\ SameReply(r.asg[j], n.asg[j]) /\ n.asg[j].state = r.asg[j].state
                          /\ n.asg[j].dispatch = r.asg[j].dispatch
                          /\ n.asg[j].accepted \/ n.asg[j].revoked # "no"
  BY <1>1, <1>4 DEF HandedOver, Of
<1>6. DOMAIN r.asg = 1 .. Len(r.asg) /\ Len(r.asg) \in Nat /\ k \in Nat
      /\ r.task[t] \in TaskRecords /\ r.task[t].attempts \in Nat /\ r.task[t].rework \in Nat
  <2>1. DOMAIN r.asg = 1 .. Len(r.asg) /\ Len(r.asg) \in Nat /\ r.task[t] \in TaskRecords
    BY <1>3, Parts
  <2> QED
    BY <1>1, <2>1 DEF Ids, TaskRecords
<1>7. PICK top : top = r.task[t].attempts
  OBVIOUS
<1>8. PICK now : now = y.attempts
  OBVIOUS
<1>9. top \in Nat /\ now = (IF old = 0 THEN top + 1 ELSE top)
  BY <1>6, <1>7, <1>8 DEF TakenCounts
<1>10. {r.asg[j].attempt : j \in ProducersOf(r, t)} = 1 .. top
  BY <1>3, <1>7 DEF History, AttemptsCounted
<1>11. \A j \in ProducersOf(r, t) : r.asg[j].attempt \in 1 .. top /\ n.asg[j].attempt = r.asg[j].attempt
  BY <1>4, <1>5, <1>10 DEF SameReply
<1>12. old # 0 => top \in 1 .. top
  <2>1. old # 0 => old \in ProducersOf(r, t) /\ r.asg[old].attempt = top
    BY <1>3, <1>7 DEF History, LastIsHead, IsLast
  <2> QED
    BY <1>11, <2>1
<1>13. \A j : IsLast(n, t, j) <=> j = k
  <2>1. \A j \in ProducersOf(r, t) : j < k /\ j \in Nat
    BY <1>4, <1>5, <1>6
  <2> QED
    BY <1>4, <1>6, <2>1 DEF IsLast
<1>14. OneAtATime(n, t)
  <2> SUFFICES ASSUME NEW i \in ProducersOf(n, t), NEW j \in ProducersOf(n, t), i < j
               PROVE  /\ n.asg[i].state = "ended" /\ (n.asg[i].accepted \/ n.asg[i].revoked # "no")
                      /\ n.asg[i].attempt <= n.asg[j].attempt
    BY DEF OneAtATime
  <2>1. i \in ProducersOf(r, t)
    <3>1. ASSUME i = k PROVE FALSE
      <4>1. j = k \/ j < k
        BY <1>4, <1>5
      <4>2. j \in Nat
        BY <1>4, <1>6
      <4> QED
        BY <1>6, <3>1, <4>1, <4>2
    <3> QED
      BY <1>4, <3>1
  <2>2. n.asg[i].state = "ended" /\ (n.asg[i].accepted \/ n.asg[i].revoked # "no")
    BY <1>4, <1>5, <2>1
  <2>3. n.asg[i].attempt <= n.asg[j].attempt
    <3>1. CASE j = k
      <4>1. n.asg[j].attempt = now /\ n.asg[i].attempt \in 1 .. top
        BY <1>1, <1>2, <1>8, <1>11, <2>1, <3>1
      <4> QED
        BY <1>9, <4>1
    <3>2. CASE j # k
      <4>1. j \in ProducersOf(r, t)
        BY <1>4, <3>2
      <4>2. r.asg[i].attempt <= r.asg[j].attempt
        BY <1>3, <2>1, <4>1 DEF History, OneAtATime
      <4> QED
        BY <1>11, <2>1, <4>1, <4>2
    <3> QED
      BY <3>1, <3>2
  <2> QED
    BY <2>2, <2>3
<1>15. LastIsHead(n, t)
  BY <1>1, <1>2, <1>13 DEF LastIsHead
<1>16. AttemptsCounted(n, t)
  <2>1. {n.asg[j].attempt : j \in ProducersOf(n, t)}
          = {r.asg[j].attempt : j \in ProducersOf(r, t)} \cup {now}
    BY <1>1, <1>2, <1>4, <1>8, <1>11
  <2>2. (1 .. top) \cup {now} = 1 .. now
    BY <1>9, <1>12
  <2>3. n.task[t].attempts = now
    BY <1>1, <1>8
  <2>4. n.task[t].rework = IF now = 0 THEN 0 ELSE now - 1
    <3>1. r.task[t].rework = IF top = 0 THEN 0 ELSE top - 1
      BY <1>3, <1>7 DEF History, AttemptsCounted
    <3>2. n.task[t].rework = IF old = 0 /\ top > 0 THEN r.task[t].rework + 1 ELSE r.task[t].rework
      BY <1>1, <1>7 DEF TakenCounts
    <3> QED
      BY <1>9, <3>1, <3>2
  <2> QED
    BY <1>10, <2>1, <2>2, <2>3, <2>4 DEF AttemptsCounted
<1>17. RepliesFit(n, t)
  <2>1. ASSUME NEW j \in Of(r, t)
        PROVE  /\ n.asg[j].purpose = "producer" => n.asg[j].delivery = 0
               /\ n.asg[j].purpose # "producer" =>
                    /\ n.asg[j].delivery \in ProducersOf(n, t)
                    /\ n.asg[n.asg[j].delivery].proof = "done" /\ n.asg[n.asg[j].delivery].accepted
                    /\ n.asg[j].attempt = n.asg[n.asg[j].delivery].attempt
               /\ n.asg[j].purpose = "smoker" => t \in plan.smoke
    <3>1. SameReply(r.asg[j], n.asg[j])
      BY <1>5
    <3>2. /\ r.asg[j].purpose = "producer" => r.asg[j].delivery = 0
          /\ r.asg[j].purpose # "producer" =>
               /\ r.asg[j].delivery \in ProducersOf(r, t)
               /\ r.asg[r.asg[j].delivery].proof = "done" /\ r.asg[r.asg[j].delivery].accepted
               /\ r.asg[j].attempt = r.asg[r.asg[j].delivery].attempt
          /\ r.asg[j].purpose = "smoker" => t \in plan.smoke
      BY <1>3 DEF RepliesFit
    <3>3. \A d \in ProducersOf(r, t) : SameReply(r.asg[d], n.asg[d]) /\ d \in ProducersOf(n, t)
      BY <1>4, <1>5
    <3> QED
      BY <3>1, <3>2, <3>3 DEF SameReply
  <2>2. n.asg[k].purpose = "producer" /\ n.asg[k].delivery = 0
    BY <1>1, <1>2
  <2> QED
    BY <1>1, <2>1, <2>2 DEF RepliesFit
<1>18. ProofsAccepted(n, t)
  <2>1. \A j \in Of(r, t) : /\ n.asg[j].accepted <=> n.asg[j].proof # "none"
                            /\ n.asg[j].accepted => n.asg[j].dispatch = "sent"
    BY <1>3, <1>5 DEF History, ProofsAccepted, SameReply
  <2> QED
    BY <1>1, <1>2, <2>1 DEF ProofsAccepted
<1>19. RefIsDelivery(n, t)
  BY <1>1 DEF RefIsDelivery, TakenCounts
<1>20. ASSUME \A u \in Tasks : RepliesFit(n, u) PROVE FailuresCounted(n, t)
  <2>1. FailedDeliveries(n, t) = FailedDeliveries(r, t)
    <3>1. \A u \in Tasks : RepliesFit(n, u)
      BY <1>20
    <3>2. \A j \in DOMAIN r.asg : SameReply(r.asg[j], n.asg[j])
      BY <1>1 DEF HandedOver
    <3>3. n.asg[k].proof = "none" /\ n.task[t].escalations = r.task[t].escalations
      BY <1>1, <1>2 DEF TakenCounts
    <3> QED
      BY <1>1, <1>3, <3>1, <3>2, <3>3, FailedAppended
  <2>2. PICK failed : failed = FailedDeliveries(r, t)
    OBVIOUS
  <2>3. PICK esc : esc = r.task[t].escalations
    OBVIOUS
  <2>4. /\ r.task[t].quality = Cardinality(failed)
        /\ \A e \in DOMAIN esc :
             /\ esc[e].attempt <= top
             /\ esc[e].failures = Cardinality({d \in failed : r.asg[d].attempt <= esc[e].attempt})
             /\ esc[e].attempt = top => \E d \in failed : IsLast(r, t, d)
        /\ \A d \in failed : r.asg[d].attempt = top => IsLast(r, t, d)
    BY <1>3, <1>7, <2>2, <2>3 DEF History, FailuresCounted
  <2>5. failed \subseteq ProducersOf(r, t)
    BY <2>2 DEF FailedDeliveries
  <2>6. old # 0 => ~\E d \in failed : IsLast(r, t, d)
    <3>1. \A d \in failed : ValidDelivery(r, d)
      BY <2>2 DEF FailedDeliveries
    <3> QED
      BY <1>3, <3>1, LastIsOne
  <2>7. \A d \in failed : n.asg[d].attempt = r.asg[d].attempt /\ r.asg[d].attempt # now
    <3>1. \A d \in failed : r.asg[d].attempt \in 1 .. top /\ n.asg[d].attempt = r.asg[d].attempt
      BY <1>11, <2>5
    <3>2. CASE old = 0
      BY <1>9, <3>1, <3>2
    <3>3. CASE old # 0
      BY <1>9, <2>4, <2>6, <3>1, <3>3
    <3> QED
      BY <3>2, <3>3
  <2>8. \A e \in DOMAIN esc : esc[e].attempt <= now /\ esc[e].attempt # now
    <3>1. esc \in Seq([attempt : Nat, failures : Nat])
      BY <1>6, <2>3 DEF TaskRecords
    <3>2. PICK X : X = [attempt : Nat, failures : Nat]
      OBVIOUS
    <3>7. esc \in Seq(X)
      BY <3>1, <3>2
    <3>3. \A e \in DOMAIN esc : esc[e] \in X
      BY <3>7
    <3>4. \A e \in DOMAIN esc : esc[e].attempt \in Nat /\ esc[e].attempt <= top
      BY <2>4, <3>2, <3>3
    <3>5. CASE old = 0
      BY <1>9, <3>4, <3>5
    <3>6. CASE old # 0
      BY <1>9, <2>4, <2>6, <3>4, <3>6
    <3> QED
      BY <3>5, <3>6
  <2>9. \A e \in DOMAIN esc : {d \in failed : n.asg[d].attempt <= esc[e].attempt}
                            = {d \in failed : r.asg[d].attempt <= esc[e].attempt}
    BY <2>7
  <2>10. n.task[t].escalations = esc /\ n.task[t].quality = r.task[t].quality
         /\ n.task[t].attempts = now
    BY <1>1, <1>8, <2>3 DEF TakenCounts
  <2>11. /\ \A e \in DOMAIN esc :
              /\ esc[e].attempt <= n.task[t].attempts
              /\ esc[e].failures = Cardinality({d \in failed : n.asg[d].attempt <= esc[e].attempt})
              /\ esc[e].attempt = n.task[t].attempts => \E d \in failed : IsLast(n, t, d)
         /\ \A d \in failed : n.asg[d].attempt = n.task[t].attempts => IsLast(n, t, d)
    BY <2>4, <2>7, <2>8, <2>9, <2>10
  <2>12. FailedDeliveries(n, t) = failed /\ n.task[t].quality = Cardinality(failed)
    BY <2>1, <2>2, <2>4, <2>10
  <2> QED
    BY <2>10, <2>11, <2>12 DEF FailuresCounted
<1> QED
  BY <1>14, <1>15, <1>16, <1>17, <1>18, <1>19, <1>20 DEF History

\* A record is good when a producer took over a task that nobody cancels, with a
\* slot free, after those before it ended.
LEMMA TakenOverGood ==
  ASSUME NEW r, Good(r), plan \in Plans, NEW t \in Tasks, NEW old, NEW k, NEW x, NEW y, NEW n,
         TakenOver(r, n, t, x, y, k), ActorFacts(x, t, "producer", y.attempts, 0),
         TakenCounts(r, t, y, old),
         \A j \in ProducersOf(r, t) : r.asg[j].state = "ended",
         old # 0 => IsLast(r, t, old) /\ ~ValidDelivery(r, old),
         r.task[t].state \notin {"absent", "blocked", "cancelled", "done"},
         SlotFree(r, Tasks \ {t})
  PROVE  Good(n) /\ Final(r, n)
<1>1. /\ Typed(n) /\ DOMAIN n.asg = DOMAIN r.asg \cup {k} /\ k \notin DOMAIN r.asg
      /\ \A j \in DOMAIN r.asg : j < k /\ HandedOver(r.asg[j], n.asg[j], t)
      /\ n.asg[k] = x /\ n.life = r.life /\ n.d1 = r.d1 /\ n.task[t] = y
      /\ \A u \in Tasks \ {t} : SameFor(r, n, u)
      /\ n.claim[t].state # "none" /\ Of(n, t) = Of(r, t) \cup {k} /\ k \in Ids
      /\ \A u \in Tasks \ {t} : n.task[u] = r.task[u]
  BY DEF TakenOver
<1>2. y.state = "assigned"
  BY DEF TakenCounts
<1>3. x.revoked = "no" /\ x.dispatch = "prepared"
  BY DEF ActorFacts
<1>4. Typed(r) /\ Status(r, t)
  BY DEF Good
<1>5. r.life # "awaiting-dag" /\ r.d1[t].state = "none" /\ r.d1[t].pairs = {}
  BY <1>4 DEF Status, Steady, AwaitsGraph, CancelHolds
<1>6. /\ AbsentIsFresh(n, t) /\ AwaitsGraph(n, t) /\ CancelHolds(n, t) /\ DoneHolds(n, t)
      /\ CancelledHolds(n, t) /\ ClaimCovers(n, t) /\ ReviewHasRef(n, t)
  BY <1>1, <1>2, <1>5 DEF AbsentIsFresh, AwaitsGraph, CancelHolds, DoneHolds, CancelledHolds,
                          ClaimCovers, ReviewHasRef
<1>7. WithdrawnIsFrozen(n, t)
  <2>1. \A j \in Of(r, t) : r.asg[j].dispatch # "withdrawn"
    BY <1>4 DEF Status, WithdrawnIsFrozen
  <2>2. \A j \in Of(r, t) : n.asg[j].dispatch # "withdrawn"
    BY <1>1, <2>1 DEF HandedOver, Of
  <2> QED
    BY <1>1, <1>3, <2>2 DEF WithdrawnIsFrozen
<1>8. NonceCounts(n, t)
  <2>1. k \in Of(n, t) /\ n.asg[k].revoked = "no"
    BY <1>1, <1>3
  <2>2. \A j \in Of(n, t) : j <= k
    <3>1. k \in Nat
      BY <1>1 DEF Ids
    <3>2. \A j \in Of(r, t) : j \in Nat /\ j < k
      BY <1>1, <1>4, Parts DEF Of
    <3> QED
      BY <1>1, <3>1, <3>2
  <2> QED
    BY <2>1, <2>2 DEF NonceCounts
<1>9. Status(n, t)
  BY <1>6, <1>7, <1>8 DEF Status, Steady
<1>10. CapacityHolds(n)
  BY <1>1, SlotIsEnough
<1>11. RepliesFit(n, t) /\ ((\A u \in Tasks : RepliesFit(n, u)) => History(n, t))
  BY TakenOverHistory
<1> QED
  BY <1>1, <1>9, <1>10, <1>11, OneTaskNew

\* The record a dispatch of a producer commits.
NoncesClosed(r, t) ==
  LET unaccepted(j) == ~r.asg[j].accepted IN RevokeOpen(r, t, unaccepted)
DispatchedRecord(r, t, a, old, k, attempt) ==
     [NoncesClosed(r, t) EXCEPT
        !.asg = Append(IF old = 0 THEN @ ELSE [@ EXCEPT ![old].successor = k],
                       [Blank EXCEPT !.task = t, !.agent = a, !.attempt = attempt,
                                     !.born = Len(r.obs)]),
        !.claim[t] = IF @.state = "none" THEN [state |-> "held", origin |-> k] ELSE @,
        !.task[t].rework = IF old = 0 /\ r.task[t].attempts > 0 THEN @ + 1 ELSE @,
        !.task[t].ref = 0, !.task[t].attempts = attempt,
        !.task[t].state = "assigned", !.task[t].phase = "implementation"]
WithClaim(r, n, t, z) == n = [r EXCEPT !.claim[t] = z]

\* The same record in four steps: the actors are handed over, the new one is
\* appended, the claim taken and the task moved.
LEMMA DispatchedInSteps ==
  ASSUME NEW r, r \in Ledgers, NEW t \in Tasks, NEW a, NEW old, old = 0 \/ old \in DOMAIN r.asg,
         NEW k, NEW attempt, NEW m, m = DispatchedRecord(r, t, a, old, k, attempt),
         NEW x, x = NewActor(t, "producer", a, attempt, 0, Len(r.obs)),
         NEW v, v = IF old = 0 /\ r.task[t].attempts > 0 THEN r.task[t].rework + 1
                    ELSE r.task[t].rework,
         NEW y, y = [r.task[t] EXCEPT !.rework = v, !.ref = 0, !.attempts = attempt,
                                      !.state = "assigned", !.phase = "implementation"],
         NEW q, IsHanded(r, q, t, old, k), NEW p, IsAppended(q, p, x),
         NEW c, ClaimTaken(p, c, t, k)
  PROVE  TaskMoved(c, m, t, y)
<1>1. PICK f : f = [i \in DOMAIN r.asg |-> Closed(r, t, i)]
  OBVIOUS
<1>2. PICK h : h = Handed(r, t, old, k)
  OBVIOUS
<1>3. h = IF old = 0 THEN f ELSE [f EXCEPT ![old].successor = k]
  <2>1. 0 \notin DOMAIN r.asg
    <3>1. r.asg \in Seq(Assignments)
      BY DEF Ledgers
    <3>2. DOMAIN r.asg = 1 .. Len(r.asg)
      BY <3>1
    <3> QED
      BY <3>1, <3>2
  <2>2. CASE old = 0
    <3>1. \A i \in DOMAIN r.asg : i # old
      BY <2>1, <2>2
    <3>2. h = [i \in DOMAIN r.asg |-> Closed(r, t, i)]
      BY <1>2, <3>1 DEF Handed
    <3> QED
      BY <1>1, <2>2, <3>2
  <2>3. CASE old # 0
    <3>1. PICK g : g = [f EXCEPT ![old].successor = k]
      OBVIOUS
    <3>2. old \in DOMAIN f /\ DOMAIN f = DOMAIN r.asg /\ DOMAIN g = DOMAIN r.asg
      BY <1>1, <2>3, <3>1
    <3>3. \A i \in DOMAIN r.asg : f[i] = Closed(r, t, i)
      BY <1>1
    <3>4. g[old] = [Closed(r, t, old) EXCEPT !.successor = k]
      BY <3>1, <3>2, <3>3
    <3>5. \A i \in DOMAIN r.asg : i # old => g[i] = Closed(r, t, i)
      BY <3>1, <3>2, <3>3
    <3>6. \A i \in DOMAIN r.asg : h[i] = IF i = old THEN [Closed(r, t, i) EXCEPT !.successor = k]
                                         ELSE Closed(r, t, i)
      BY <1>2 DEF Handed
    <3>7. \A i \in DOMAIN r.asg : h[i] = g[i]
      BY <3>4, <3>5, <3>6
    <3>8. h = [i \in DOMAIN r.asg |-> h[i]] /\ g = [i \in DOMAIN r.asg |-> g[i]]
      <4>1. h = [i \in DOMAIN r.asg |-> h[i]]
        BY <1>2 DEF Handed
      <4>2. g = [i \in DOMAIN r.asg |-> g[i]]
        BY <1>1, <3>1, <3>2
      <4> QED
        BY <4>1, <4>2
    <3>9. h = g
      BY <3>7, <3>8
    <3> QED
      BY <2>3, <3>1, <3>9
  <2> QED
    BY <2>2, <2>3
<1>4. PICK o : o = [r EXCEPT !.asg = f]
  OBVIOUS
<1>5. \A j \in DOMAIN r.asg :
        (IF r.asg[j].task = t /\ r.asg[j].revoked = "no" /\ ~r.asg[j].accepted
         THEN [r.asg[j] EXCEPT !.revoked = "other"] ELSE r.asg[j]) = Closed(r, t, j)
  BY DEF Closed
<1>6. x = [Blank EXCEPT !.task = t, !.agent = a, !.attempt = attempt, !.born = Len(r.obs)]
  <2>1. PICK l : l = Len(r.obs)
    OBVIOUS
  <2>2. x = [task |-> t, purpose |-> "producer", agent |-> a, attempt |-> attempt, delivery |-> 0,
             born |-> l, state |-> "assigned", turn |-> 0, proof |-> "none", accepted |-> FALSE,
             revoked |-> "no", dispatch |-> "prepared", archive |-> "none", cancellation |-> 0,
             successor |-> 0]
    BY <2>1 DEF NewActor, Blank
  <2>3. [Blank EXCEPT !.task = t, !.agent = a, !.attempt = attempt, !.born = l] =
            [task |-> t, purpose |-> "producer", agent |-> a, attempt |-> attempt, delivery |-> 0,
             born |-> l, state |-> "assigned", turn |-> 0, proof |-> "none", accepted |-> FALSE,
             revoked |-> "no", dispatch |-> "prepared", archive |-> "none", cancellation |-> 0,
             successor |-> 0]
    <3>1. PICK b : b = [Blank EXCEPT !.task = t, !.agent = a, !.attempt = attempt, !.born = l]
      OBVIOUS
    <3>2. b = [task |-> t, purpose |-> "producer", agent |-> a, attempt |-> attempt, delivery |-> 0,
               born |-> l, state |-> "assigned", turn |-> 0, proof |-> "none", accepted |-> FALSE,
               revoked |-> "no", dispatch |-> "prepared", archive |-> "none", cancellation |-> 0,
               successor |-> 0]
      BY <3>1 DEF Blank
    <3> QED
      BY <3>1, <3>2
  <2> QED
    BY <2>1, <2>2, <2>3
<1>7. PICK z : z = IF r.claim[t].state = "none" THEN [state |-> "held", origin |-> k] ELSE r.claim[t]
  OBVIOUS
<1>8. NoncesClosed(r, t) = o
  <2>1. f = [j \in DOMAIN r.asg |->
                IF r.asg[j].task = t /\ r.asg[j].revoked = "no" /\ ~r.asg[j].accepted
                THEN [r.asg[j] EXCEPT !.revoked = "other"] ELSE r.asg[j]]
    BY <1>1, <1>5
  <2>2. NoncesClosed(r, t) = [r EXCEPT !.asg = [j \in DOMAIN r.asg |->
                IF r.asg[j].task = t /\ r.asg[j].revoked = "no" /\ ~r.asg[j].accepted
                THEN [r.asg[j] EXCEPT !.revoked = "other"] ELSE r.asg[j]]]
    BY DEF NoncesClosed, RevokeOpen
  <2> QED
    BY <1>4, <2>1, <2>2
<1>9. PICK s : s = Append(h, x)
  OBVIOUS
<1>10. m = [o EXCEPT !.asg = s, !.claim[t] = z,
             !.task[t].rework = v, !.task[t].ref = 0, !.task[t].attempts = attempt,
             !.task[t].state = "assigned", !.task[t].phase = "implementation"]
  <2>1. m = [o EXCEPT
        !.asg = Append(IF old = 0 THEN @ ELSE [@ EXCEPT ![old].successor = k], x),
        !.claim[t] = IF @.state = "none" THEN [state |-> "held", origin |-> k] ELSE @,
        !.task[t].rework = IF old = 0 /\ r.task[t].attempts > 0 THEN @ + 1 ELSE @,
        !.task[t].ref = 0, !.task[t].attempts = attempt,
        !.task[t].state = "assigned", !.task[t].phase = "implementation"]
    BY <1>6, <1>8 DEF DispatchedRecord
  <2>2. o.asg = f /\ o.claim = r.claim /\ o.task = r.task
    BY <1>4 DEF Ledgers
  <2>3. Append(IF old = 0 THEN o.asg ELSE [o.asg EXCEPT ![old].successor = k], x) = s
    BY <1>3, <1>9, <2>2
  <2>4. (IF o.claim[t].state = "none" THEN [state |-> "held", origin |-> k] ELSE o.claim[t]) = z
    BY <1>7, <2>2
  <2>5. (IF old = 0 /\ r.task[t].attempts > 0 THEN o.task[t].rework + 1 ELSE o.task[t].rework) = v
    BY <2>2
  <2> QED
    BY ZenonT(60), <2>1, <2>3, <2>4, <2>5
<1>11. c = [r EXCEPT !.asg = s, !.claim[t] = z]
  <2>1. q = [r EXCEPT !.asg = h]
    BY <1>2 DEF IsHanded
  <2>2. p = [r EXCEPT !.asg = s]
    <3>1. q.asg = h
      BY <2>1 DEF Ledgers
    <3>2. p = [q EXCEPT !.asg = s]
      BY <1>9, <3>1 DEF IsAppended
    <3> QED
      BY <2>1, <3>2 DEF Ledgers
  <2>3. c = [p EXCEPT !.claim[t] = z]
    <3>1. p.claim = r.claim
      BY <2>2 DEF Ledgers
    <3> QED
      BY <1>7, <3>1 DEF ClaimTaken
  <2> QED
    BY <2>2, <2>3 DEF Ledgers
<1>12. m = [r EXCEPT !.asg = s, !.claim[t] = z, !.task[t] = y]
  <2>1. PICK g : g = [r.task EXCEPT ![t].rework = v, ![t].ref = 0, ![t].attempts = attempt,
                                    ![t].state = "assigned", ![t].phase = "implementation"]
    OBVIOUS
  <2>2. r.task \in [Tasks -> TaskRecords]
    BY SMTT(40) DEF Ledgers
  <2>3. g = [r.task EXCEPT ![t] = y]
    BY ZenonT(60), <2>1, <2>2
  <2>4. m = [o EXCEPT !.asg = s, !.claim[t] = z, !.task = g]
    <3>1. o.task = r.task
      BY SMTT(40), <1>4 DEF Ledgers
    <3>2. m = [o EXCEPT !.asg = s, !.claim[t] = z,
                 !.task = [o.task EXCEPT ![t].rework = v, ![t].ref = 0, ![t].attempts = attempt,
                                    ![t].state = "assigned", ![t].phase = "implementation"]]
      <4>1. o = [life |-> r.life, revised |-> r.revised, deps |-> r.deps, task |-> r.task, asg |-> f,
                 claim |-> r.claim, d1 |-> r.d1, gates |-> r.gates, obs |-> r.obs]
        BY <1>4 DEF Ledgers
      <4>2. PICK w : w = [o EXCEPT !.asg = s, !.claim[t] = z]
        OBVIOUS
      <4>3. w = [life |-> r.life, revised |-> r.revised, deps |-> r.deps, task |-> r.task, asg |-> s,
                 claim |-> [r.claim EXCEPT ![t] = z], d1 |-> r.d1, gates |-> r.gates, obs |-> r.obs]
        BY ZenonT(60), <4>1, <4>2
      <4>4. m = [w EXCEPT 
                   !.task[t].rework = v, !.task[t].ref = 0, !.task[t].attempts = attempt,
             !.task[t].state = "assigned", !.task[t].phase = "implementation"]
        BY <1>10, <4>2
      <4>5. m = [w EXCEPT !.task = [w.task EXCEPT ![t].rework = v, ![t].ref = 0, ![t].attempts = attempt,
                                    ![t].state = "assigned", ![t].phase = "implementation"]]
        <5>1. PICK w1 : w1 = [w EXCEPT !.task[t].rework = v]
          OBVIOUS
        <5>2. PICK w2 : w2 = [w1 EXCEPT !.task[t].ref = 0]
          OBVIOUS
        <5>3. PICK w3 : w3 = [w2 EXCEPT !.task[t].attempts = attempt]
          OBVIOUS
        <5>4. PICK w4 : w4 = [w3 EXCEPT !.task[t].state = "assigned"]
          OBVIOUS
        <5>5. m = [w4 EXCEPT !.task[t].phase = "implementation"]
          BY <4>4, <5>1, <5>2, <5>3, <5>4
        <5>6. PICK g1 : g1 = [w.task EXCEPT ![t].rework = v]
          OBVIOUS
        <5>7. PICK g2 : g2 = [g1 EXCEPT ![t].ref = 0]
          OBVIOUS
        <5>8. PICK g3 : g3 = [g2 EXCEPT ![t].attempts = attempt]
          OBVIOUS
        <5>9. PICK g4 : g4 = [g3 EXCEPT ![t].state = "assigned"]
          OBVIOUS
        <5>10. PICK g5 : g5 = [g4 EXCEPT ![t].phase = "implementation"]
          OBVIOUS
        <5>11. w1 = [w EXCEPT !.task = g1]
          BY <4>3, <5>1, <5>6
        <5>12. w2 = [w EXCEPT !.task = g2]
          BY <4>3, <5>2, <5>7, <5>11
        <5>13. w3 = [w EXCEPT !.task = g3]
          BY <4>3, <5>3, <5>8, <5>12
        <5>14. w4 = [w EXCEPT !.task = g4]
          BY <4>3, <5>4, <5>9, <5>13
        <5>15. m = [w EXCEPT !.task = g5]
          BY <4>3, <5>5, <5>10, <5>14
        <5>16. g5 = [w.task EXCEPT ![t].rework = v, ![t].ref = 0, ![t].attempts = attempt,
                                    ![t].state = "assigned", ![t].phase = "implementation"]
          BY <5>6, <5>7, <5>8, <5>9, <5>10
        <5> QED
          BY <5>15, <5>16
      <4> QED
        BY <3>1, <4>1, <4>2, <4>3, <4>5
    <3> QED
      BY <2>1, <3>1, <3>2
  <2> QED
    BY <1>4, <2>3, <2>4 DEF Ledgers
<1> QED
  BY <1>11, <1>12 DEF Ledgers, TaskMoved

\* When a producer may take over, those before it ended, and what is issued again
\* is the last of them.
LEMMA MayTakeOver ==
  ASSUME NEW r, Good(r), NEW t \in Tasks, NEW old,
         IF old = 0
         THEN /\ \/ r.task[t].state \in {"ready", "rework"}
                 \/ r.task[t].state = "review" /\ r.task[t].phase = "awaiting-rework"
              /\ \A j \in Of(r, t) : NormalEnded(r, j)
         ELSE /\ old = ProducerHead(r, t) /\ NormalEnded(r, old)
              /\ DoneReport(r, old) /\ ~ValidDelivery(r, old)
              /\ r.task[t].state \notin {"blocked", "failed", "cancelled", "done"}
  PROVE  /\ old = 0 \/ old \in Of(r, t)
         /\ \A j \in ProducersOf(r, t) : r.asg[j].state = "ended"
         /\ old # 0 => IsLast(r, t, old) /\ ~ValidDelivery(r, old)
         /\ r.task[t].state \notin {"absent", "blocked", "cancelled", "done"}
<1>1. ProducersOf(r, t) \subseteq Of(r, t)
  BY DEF ProducersOf
<1>2. Typed(r) /\ OneAtATime(r, t) /\ LastIsHead(r, t) /\ AbsentIsFresh(r, t)
  BY DEF Good, History, Status, Steady
<1>3. CASE old = 0
  BY <1>1, <1>3 DEF NormalEnded
<1>4. CASE old # 0
  <2>1. /\ old = ProducerHead(r, t) /\ NormalEnded(r, old) /\ ~ValidDelivery(r, old)
        /\ r.task[t].state \notin {"blocked", "failed", "cancelled", "done"}
    BY <1>4
  <2>2. IsLast(r, t, old)
    BY <1>2, <1>4, <2>1, HeadIsLast
  <2>3. old \in ProducersOf(r, t) /\ \A j \in ProducersOf(r, t) : j <= old
    BY <2>2 DEF IsLast
  <2>4. ASSUME NEW j \in ProducersOf(r, t) PROVE r.asg[j].state = "ended"
    <3>1. CASE j = old
      BY <2>1, <3>1 DEF NormalEnded
    <3>2. CASE j # old
      <4>1. j \in Nat /\ old \in Nat
        BY <1>2, <2>3, Parts DEF ProducersOf, Of
      <4>2. j < old
        BY <2>3, <3>2, <4>1
      <4> QED
        BY <1>2, <2>3, <4>2 DEF OneAtATime
    <3> QED
      BY <3>1, <3>2
  <2>5. r.task[t].state # "absent"
    BY <1>1, <1>2, <2>3 DEF AbsentIsFresh
  <2> QED
    BY <1>1, <2>1, <2>2, <2>3, <2>4, <2>5
<1> QED
  BY <1>3, <1>4

\* Dispatching a producer keeps the invariant, for a next attempt and for one issued
\* again.
LEMMA DispatchProducerKeeps ==
  ASSUME Inv, NEW t \in Tasks, NEW a \in DOMAIN plan.seat, NEW old \in {0} \cup DOMAIN run.asg,
         DispatchProducer(t, a, old)
  PROVE  Inv' /\ Final(run, run')
<1>1. PICK r : r = run
  OBVIOUS
<1>2. PICK k : k = Len(r.asg) + 1
  OBVIOUS
<1>3. PICK attempt : attempt = IF old = 0 THEN r.task[t].attempts + 1 ELSE r.task[t].attempts
  OBVIOUS
<1>4. PICK m : m = DispatchedRecord(r, t, a, old, k, attempt)
  OBVIOUS
<1>5. /\ Len(r.asg) < plan.assignments /\ SlotFree(r, Tasks \ {t}) /\ Commit(m)
      /\ IF old = 0
         THEN /\ \/ r.task[t].state \in {"ready", "rework"}
                 \/ r.task[t].state = "review" /\ r.task[t].phase = "awaiting-rework"
              /\ \A j \in Of(r, t) : NormalEnded(r, j)
         ELSE /\ old = ProducerHead(r, t) /\ NormalEnded(r, old)
              /\ DoneReport(r, old) /\ ~ValidDelivery(r, old)
              /\ r.task[t].state \notin {"blocked", "failed", "cancelled", "done"}
  <2>1. Len(run.asg) < plan.assignments /\ SlotFree(run, Tasks \ {t})
    BY ZenonT(60) DEF DispatchProducer, CanAssign
  <2>2. IF old = 0
         THEN /\ \/ run.task[t].state \in {"ready", "rework"}
                 \/ run.task[t].state = "review" /\ run.task[t].phase = "awaiting-rework"
              /\ \A j \in Of(run, t) : NormalEnded(run, j)
         ELSE /\ old = ProducerHead(run, t) /\ NormalEnded(run, old)
              /\ DoneReport(run, old) /\ ~ValidDelivery(run, old)
              /\ run.task[t].state \notin {"blocked", "failed", "cancelled", "done"}
    BY ZenonT(60) DEF DispatchProducer
  <2>3. Commit(DispatchedRecord(run, t, a, old, Len(run.asg) + 1,
                                IF old = 0 THEN run.task[t].attempts + 1 ELSE run.task[t].attempts))
    BY DEF DispatchProducer, DispatchedRecord, NoncesClosed
  <2> QED
    BY <1>1, <1>2, <1>3, <1>4, <2>1, <2>2, <2>3
<1>6. Good(r) /\ plan \in Plans /\ Typed(r) /\ r \in Ledgers /\ old \in {0} \cup DOMAIN r.asg
  BY <1>1 DEF Inv, Good, Typed
<1>7. /\ old = 0 \/ old \in Of(r, t)
      /\ \A j \in ProducersOf(r, t) : r.asg[j].state = "ended"
      /\ old # 0 => IsLast(r, t, old) /\ ~ValidDelivery(r, old)
      /\ r.task[t].state \notin {"absent", "blocked", "cancelled", "done"}
  BY <1>5, <1>6, MayTakeOver
<1>8. a \in Agents /\ Len(r.obs) \in Nat /\ Len(r.asg) \in Nat /\ Len(r.asg) < MaxAssignments
  <2>1. a \in Agents /\ plan.assignments \in Nat /\ plan.assignments <= MaxAssignments
    BY <1>6, PlanFacts
  <2>2. Len(r.obs) \in Nat /\ Len(r.asg) \in Nat
    BY <1>6, Parts
  <2> QED
    BY <1>5, <2>1, <2>2, BoundsAssumption
<1>9. r.task[t] \in TaskRecords /\ r.task[t].attempts \in Nat /\ r.task[t].rework \in Nat
  <2>1. r.task[t] \in TaskRecords
    BY <1>6, Parts
  <2> QED
    BY <2>1 DEF TaskRecords
<1>10. attempt \in Nat
  BY <1>3, <1>9
<1>11. PICK x : x = NewActor(t, "producer", a, attempt, 0, Len(r.obs))
  OBVIOUS
<1>12. ActorFacts(x, t, "producer", attempt, 0)
  <2>1. "producer" \in Purposes /\ 0 \in {0} \cup Ids
    BY DEF Purposes
  <2> QED
    BY <1>8, <1>10, <1>11, <2>1, NewAssignment
<1>13. x \in Assignments /\ x.cancellation = 0 /\ x.task = t
  BY <1>12 DEF ActorFacts
<1>14. PICK v : v = IF old = 0 /\ r.task[t].attempts > 0 THEN r.task[t].rework + 1
                    ELSE r.task[t].rework
  OBVIOUS
<1>15. v \in Nat
  BY <1>9, <1>14
<1>16. PICK y : y = [r.task[t] EXCEPT !.rework = v, !.ref = 0, !.attempts = attempt,
                                      !.state = "assigned", !.phase = "implementation"]
  OBVIOUS
<1>17. y \in TaskRecords /\ y.attempts = attempt /\ y.rework = v /\ y.ref = 0
       /\ y.state = "assigned" /\ y.quality = r.task[t].quality
       /\ y.escalations = r.task[t].escalations
  BY <1>9, <1>10, <1>15, <1>16 DEF TaskRecords, TaskStates, Phases
<1>18. TakenCounts(r, t, y, old)
  BY <1>3, <1>14, <1>17 DEF TakenCounts
<1>19. PICK q : IsHanded(r, q, t, old, k)
  BY DEF IsHanded
<1>20. PICK p : IsAppended(q, p, x)
  BY DEF IsAppended
<1>21. PICK c : ClaimTaken(p, c, t, k)
  BY DEF ClaimTaken
<1>22. TaskMoved(c, m, t, y)
  BY <1>4, <1>6, <1>11, <1>14, <1>16, <1>19, <1>20, <1>21, DispatchedInSteps
<1>23. TakenOver(r, m, t, x, y, k)
  BY <1>2, <1>6, <1>7, <1>8, <1>13, <1>17, <1>19, <1>20, <1>21, <1>22, TakenOverFacts
<1>24. Good(m) /\ Final(r, m)
  <2>1. ActorFacts(x, t, "producer", y.attempts, 0)
    BY <1>12, <1>17
  <2> QED
    BY <1>5, <1>6, <1>7, <1>18, <1>23, <2>1, TakenOverGood
<1> QED
  BY <1>1, <1>5, <1>24, Committed

-----------------------------------------------------------------------------
(* The invariant.                                                          *)

\* The reducer's events that may come once what was dispatched is sent.
LEMMA EventKeeps ==
  ASSUME Inv, Event
  PROVE  Inv' /\ Final(run, run')
<1>1. plan \in Plans
  BY DEF Inv
<1>2. plan.dag \subseteq Tasks
  BY <1>1, PlanFacts
<1>3. CASE DagAccepted
  BY <1>3, DagAcceptedKeeps
<1>4. CASE \E cancel \in SUBSET plan.dag : DagRevised(cancel)
  BY <1>2, <1>4, DagRevisedKeeps
<1>5. CASE \E t \in Tasks, a \in DOMAIN plan.seat, old \in {0} \cup DOMAIN run.asg :
             DispatchProducer(t, a, old)
  BY <1>5, DispatchProducerKeeps
<1>6. CASE \E t \in Tasks, a \in DOMAIN plan.seat, purpose \in {"reviewer", "smoker"} :
             DispatchReply(t, a, purpose)
  BY <1>6, DispatchReplyKeeps
<1>7. CASE \E i \in DOMAIN run.asg : TurnEnded(i)
  BY <1>7, TurnEndedKeeps
<1>8. CASE \E i \in DOMAIN run.asg, report \in plan.reports : TaskReport(i, report)
  BY <1>8, TaskReportKeeps
<1>9. CASE \E i \in DOMAIN run.asg, verdict \in plan.verdicts : Reply(i, verdict)
  BY <1>9, ReplyKeeps
<1>10. CASE \E t \in Tasks : CancelRequested(t)
  BY <1>10, CancelRequestedKeeps
<1>11. CASE RunCancelled
  BY <1>11, RunCancelledKeeps
<1>12. CASE \E i \in DOMAIN run.asg, idle \in BOOLEAN : CancellationChecked(i, idle)
  BY <1>12, CancellationCheckedKeeps
<1>13. CASE RunPaused \/ RunResumed \/ RunFinished
  BY <1>13, PauseKeeps
<1>14. CASE \E i \in DOMAIN run.asg : SendArchive(i)
  BY <1>14, SendArchiveKeeps
<1>15. CASE \E t \in Tasks : Answer(t)
  BY <1>15, AnswerKeeps
<1>16. CASE \E a \in DOMAIN plan.seat : TurnOpens(a)
  BY <1>16, TurnOpensKeeps
<1>17. CASE \E a \in DOMAIN plan.seat : TurnCloses(a)
  BY <1>17, TurnClosesKeeps
<1> QED
  BY <1>3, <1>4, <1>5, <1>6, <1>7, <1>8, <1>9, <1>10, <1>11, <1>12, <1>13, <1>14, <1>15,
     <1>16, <1>17 DEF Event

\* Every step keeps the invariant and what is final.
LEMMA NextKeeps ==
  ASSUME Inv, [Next]_vars
  PROVE  Inv' /\ Final(run, run')
<1>1. CASE \E i \in DOMAIN run.asg : Send(i)
  BY <1>1, SendKeeps
<1>2. CASE \E i \in DOMAIN run.asg, turn \in TurnsSeen : TurnStarted(i, turn)
  BY <1>2, TurnStartedKeeps
<1>3. CASE Event
  BY <1>3, EventKeeps
<1>4. CASE UNCHANGED vars
  <2>1. PICK r : r = run
    OBVIOUS
  <2>2. Good(r) /\ Sound(r) /\ run' = r /\ plan' = plan
    BY <1>4, <2>1 DEF Inv, vars
  <2>3. Final(run, r)
    <3>1. Final(r, r)
      BY DEF Final
    <3> QED
      BY <2>1, <3>1
  <2> QED
    BY <2>2, <2>3, Stepped
<1> QED
  BY <1>1, <1>2, <1>3, <1>4 DEF Next

\* The invariant of the run engine: every record has its types, each task's counters,
\* points and nonces are what its assignments say (History), it stands as its state
\* says (Status), slots are kept, and what Commit enforces holds (Sound) after the
\* steps it does not guard, Send among them.
THEOREM RunInvHolds == Spec => []Inv
<1>1. Init => Inv
  BY InitInv
<1>2. Inv /\ [Next]_vars => Inv'
  BY NextKeeps
<1> QED
  BY <1>1, <1>2, PTL DEF Spec

-----------------------------------------------------------------------------
(* What the runs check.                                                    *)

\* TypeOK: the record keeps its types and no index leaves its list, whatever events
\* the reducer accepts.
THEOREM RunTypeOK == Spec => []TypeOK
<1>1. Inv => TypeOK
  <2> SUFFICES ASSUME Inv PROVE TypeOK
    OBVIOUS
  <2>1. run \in Ledgers /\ plan \in Plans
        /\ \A i \in DOMAIN run.asg : run.asg[i].cancellation <= Len(run.obs)
    BY DEF Inv, Good, Typed
  <2> QED
    BY <2>1 DEF TypeOK, Ledgers
<1> QED
  BY <1>1, RunInvHolds, PTL

\* The actors of a cancelled task are settled.
LEMMA CancelledSettled ==
  ASSUME NEW r, Good(r), Sound(r), NEW t \in Tasks, r.task[t].state = "cancelled",
         NEW i \in Of(r, t)
  PROVE  ActorSettled(r, i)
<1>1. \/ i \in r.d1[t].pairs
      \/ r.asg[i].state = "ended"
      \/ r.asg[i].dispatch = "withdrawn"
  BY DEF Good, Status, Steady, CancelledHolds
<1>2. i \in DOMAIN r.asg /\ r.asg[i].task = t
  BY DEF Of
<1>3. CASE i \in r.d1[t].pairs
  BY <1>2, <1>3 DEF Sound, EvidenceHolds, ActorSettled
<1>4. CASE r.asg[i].state = "ended"
  BY <1>4 DEF ActorSettled, NormalEnded
<1>5. CASE r.asg[i].dispatch = "withdrawn"
  BY <1>2, <1>5 DEF Sound, ActorsApart, ActorSettled
<1> QED
  BY <1>1, <1>3, <1>4, <1>5

\* Whoever may still be writing holds the claim of its task and is alone on it.
LEMMA WritesAlone ==
  ASSUME NEW r, Good(r), Sound(r), plan \in Plans,
         NEW i \in DOMAIN r.asg, r.asg[i].purpose = "producer", r.asg[i].dispatch = "sent",
         ~ActorSettled(r, i)
  PROVE  /\ r.claim[r.asg[i].task].state # "none"
         /\ \A j \in DOMAIN r.asg \ {i} :
              r.asg[j].purpose = "producer" /\ r.asg[j].dispatch = "sent" /\ ~ActorSettled(r, j)
                => r.asg[i].task # r.asg[j].task
<1>1. PICK t \in Tasks : t = r.asg[i].task
  BY Parts DEF Good
<1>2. i \in Of(r, t) /\ i \in ProducersOf(r, t) /\ r.asg[i].state # "ended"
  BY <1>1 DEF Of, ProducersOf, ActorSettled, NormalEnded
<1>3. r.claim[t].state # "none"
  <2>1. r.task[t].state # "cancelled"
    BY <1>2, CancelledSettled
  <2>2. ClaimCovers(r, t)
    BY DEF Good, Status, Steady
  <2> QED
    BY <1>2, <2>1, <2>2 DEF ClaimCovers
<1>4. ASSUME NEW j \in DOMAIN r.asg \ {i}, r.asg[j].purpose = "producer",
             r.asg[j].dispatch = "sent", ~ActorSettled(r, j), r.asg[i].task = r.asg[j].task
      PROVE  FALSE
  <2>1. j \in ProducersOf(r, t) /\ r.asg[j].state # "ended"
    BY <1>1, <1>4 DEF Of, ProducersOf, ActorSettled, NormalEnded
  <2>2. i < j \/ j < i
    <3>1. DOMAIN r.asg = 1 .. Len(r.asg) /\ Len(r.asg) \in Nat
      BY Parts DEF Good
    <3> QED
      BY <1>4, <3>1
  <2>3. OneAtATime(r, t)
    BY DEF Good, History
  <2> QED
    BY <1>2, <2>1, <2>2, <2>3 DEF OneAtATime
<1> QED
  BY <1>1, <1>3, <1>4

\* SingleWriter: no two agents ever write the same files.  Whoever may still be running
\* holds its task's claim (ClaimCovers), two of one task are ruled out by the history
\* (OneAtATime), two of overlapping tasks by the claims being apart.
THEOREM RunSingleWriter == Spec => []SingleWriter
<1>1. Inv => SingleWriter
  <2> SUFFICES ASSUME Inv, NEW i \in DOMAIN run.asg, MayWrite(i)
               PROVE  /\ run.claim[run.asg[i].task].state # "none"
                      /\ \A j \in DOMAIN run.asg \ {i} : MayWrite(j) =>
                           run.asg[i].task # run.asg[j].task
                           /\ {run.asg[i].task, run.asg[j].task} \notin plan.overlap
    BY DEF SingleWriter
  <2>1. PICK r : r = run
    OBVIOUS
  <2>2. Good(r) /\ Sound(r) /\ plan \in Plans
    BY <2>1 DEF Inv
  <2>3. \A j \in DOMAIN r.asg : MayWrite(j) =>
          /\ r.claim[r.asg[j].task].state # "none"
          /\ \A k \in DOMAIN r.asg \ {j} : MayWrite(k) => r.asg[j].task # r.asg[k].task
    BY <2>1, <2>2, WritesAlone DEF MayWrite
  <2>4. \A pair \in plan.overlap : \E t \in pair : r.claim[t].state = "none"
    BY <2>2 DEF Sound, ClaimsApart
  <2>5. ASSUME NEW j \in DOMAIN r.asg, MayWrite(j),
               {r.asg[i].task, r.asg[j].task} \in plan.overlap
        PROVE  FALSE
    <3>1. r.claim[r.asg[i].task].state # "none" /\ r.claim[r.asg[j].task].state # "none"
      BY <2>1, <2>3, <2>5
    <3>2. \E t \in {r.asg[i].task, r.asg[j].task} : r.claim[t].state = "none"
      BY SMTT(40), <2>4, <2>5
    <3> QED
      BY <3>1, <3>2
  <2> QED
    BY <2>1, <2>3, <2>5
<1> QED
  BY <1>1, RunInvHolds, PTL

\* DoneIsReviewed: a task is done only with a delivery that somebody else reviewed and
\* nobody rejected, with every actor's turn ended, and stays so.
THEOREM RunDoneIsReviewed == Spec => []DoneIsReviewed
<1>1. Inv => DoneIsReviewed
  BY DEF Inv, Good, Status, Steady, DoneHolds, Reviewed, DoneIsReviewed
<1> QED
  BY <1>1, RunInvHolds, PTL

\* The counters are what the history says, and the nonces hold.
LEMMA CountersFit ==
  ASSUME NEW r, Good(r)
  PROVE  CountersHold(r) /\ NoncesHold(r)
<1>1. ASSUME NEW t \in Tasks
      PROVE  LET task == r.task[t]
                 failed == FailedDeliveries(r, t)
                 attempts == {r.asg[i].attempt : i \in ProducersOf(r, t)}
             IN /\ task.quality = Cardinality(failed)
                /\ \A k \in DOMAIN task.escalations : task.escalations[k].failures =
                     Cardinality({d \in failed : r.asg[d].attempt <= task.escalations[k].attempt})
                /\ task.attempts = Cardinality(attempts)
                /\ task.rework = IF attempts = {} THEN 0 ELSE Cardinality(attempts) - 1
  <2>1. History(r, t) /\ Typed(r)
    BY DEF Good
  <2>2. PICK top : top = r.task[t].attempts
    OBVIOUS
  <2>3. top \in Nat
    <3>1. r.task[t] \in TaskRecords
      BY <2>1, Parts
    <3> QED
      BY <2>2, <3>1 DEF TaskRecords
  <2>4. Cardinality(1 .. top) = top /\ (1 .. top = {} <=> top = 0)
    <3>1. Cardinality(1 .. top) = top
      BY <2>3, FS_Interval
    <3>2. 1 .. top = {} <=> top = 0
      BY <2>3
    <3> QED
      BY <3>1, <3>2
  <2>5. /\ {r.asg[i].attempt : i \in ProducersOf(r, t)} = 1 .. top
        /\ r.task[t].rework = IF top = 0 THEN 0 ELSE top - 1
    BY <2>1, <2>2 DEF History, AttemptsCounted
  <2>6. /\ r.task[t].quality = Cardinality(FailedDeliveries(r, t))
        /\ \A k \in DOMAIN r.task[t].escalations : r.task[t].escalations[k].failures =
             Cardinality({d \in FailedDeliveries(r, t) :
                            r.asg[d].attempt <= r.task[t].escalations[k].attempt})
    BY <2>1 DEF History, FailuresCounted
  <2> QED
    BY <2>2, <2>4, <2>5, <2>6
<1>2. CountersHold(r)
  BY <1>1 DEF CountersHold
<1>3. \A i \in DOMAIN r.asg : r.asg[i].accepted <=> r.asg[i].proof # "none"
  <2>1. \A i \in DOMAIN r.asg : r.asg[i].task \in Tasks /\ i \in Of(r, r.asg[i].task)
    BY Parts DEF Good, Of
  <2> QED
    BY <2>1 DEF Good, History, ProofsAccepted
<1>4. NoncesHold(r)
  BY <1>3 DEF NoncesHold, Good, Status, NonceCounts
<1> QED
  BY <1>2, <1>4

\* CountersMatchHistory: attempts, reworks, failures and escalations are what the
\* assignments say, and a task at work has a nonce that counts: the reducer's checks I5
\* and I6 refuse no event.
THEOREM RunCountersMatchHistory == Spec => []CountersMatchHistory
<1>1. Inv => CountersMatchHistory
  <2> SUFFICES ASSUME Inv PROVE CountersMatchHistory
    OBVIOUS
  <2>1. PICK r : r = run
    OBVIOUS
  <2>2. CountersHold(r) /\ NoncesHold(r)
    BY <2>1, CountersFit DEF Inv
  <2> QED
    BY <2>1, <2>2 DEF CountersMatchHistory
<1> QED
  BY <1>1, RunInvHolds, PTL

\* SlotsBounded: no more tasks execute than there are slots, so I4 refuses no event.
THEOREM RunSlotsBounded == Spec => []SlotsBounded
<1>1. Inv => SlotsBounded
  BY DEF Inv, Good, SlotsBounded
<1> QED
  BY <1>1, RunInvHolds, PTL

\* CancelledIsQuiet: nothing of a cancelled task runs, waits to be sent or holds its
\* claim.
THEOREM RunCancelledIsQuiet == Spec => []CancelledIsQuiet
<1>1. Inv => CancelledIsQuiet
  <2> SUFFICES ASSUME Inv, NEW t \in Tasks, run.task[t].state = "cancelled"
               PROVE  /\ run.claim[t].state = "none"
                      /\ \A i \in Of(run, t) :
                           /\ ActorSettled(run, i) /\ run.asg[i].revoked # "no"
                           /\ run.asg[i].dispatch # "prepared" /\ run.asg[i].archive # "prepared"
    BY DEF CancelledIsQuiet
  <2>1. PICK r : r = run
    OBVIOUS
  <2>2. Good(r) /\ Sound(r) /\ r.task[t].state = "cancelled"
    BY <2>1 DEF Inv
  <2>3. \A i \in Of(r, t) : ActorSettled(r, i)
    BY <2>2, CancelledSettled
  <2>4. CancelledHolds(r, t)
    BY <2>2 DEF Good, Status, Steady
  <2> QED
    BY <2>1, <2>2, <2>3, <2>4 DEF CancelledHolds, NoClaim
<1> QED
  BY <1>1, RunInvHolds, PTL

\* TerminalIsFinal: no step touches a done or cancelled task, its claim or the state of
\* its actors.
THEOREM RunTerminalIsFinal == Spec => TerminalIsFinal
<1>1. Inv /\ [Next]_vars =>
        [\A t \in Tasks : run.task[t].state \in {"done", "cancelled"} =>
           /\ run'.task[t] = run.task[t] /\ run'.claim[t] = run.claim[t]
           /\ \A i \in DOMAIN run'.asg : run'.asg[i].task = t =>
                i \in DOMAIN run.asg /\ run'.asg[i].state = run.asg[i].state]_vars
  <2> SUFFICES ASSUME Inv, [Next]_vars
               PROVE  \A t \in Tasks : run.task[t].state \in {"done", "cancelled"} =>
                        /\ run'.task[t] = run.task[t] /\ run'.claim[t] = run.claim[t]
                        /\ \A i \in DOMAIN run'.asg : run'.asg[i].task = t =>
                             i \in DOMAIN run.asg /\ run'.asg[i].state = run.asg[i].state
    OBVIOUS
  <2>1. Final(run, run')
    BY NextKeeps
  <2> QED
    BY <2>1 DEF Final
<1> QED
  BY <1>1, RunInvHolds, PTL DEF Spec, TerminalIsFinal
================================================================================
