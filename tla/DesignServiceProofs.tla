-------------------------- MODULE DesignServiceProofs --------------------------
(***************************************************************************)
(* Proofs about DesignService for every number of attempts and callers and *)
(* every value of the bounds and switches.                                 *)
(***************************************************************************)
EXTENDS DesignService, TLAPS

-----------------------------------------------------------------------------
(* What the service writes is a record. *)

LEMMA NewRecordTyped == NewRecord \in Records
BY MaxAttemptsAssumption DEF NewRecord, Records, JobStates, Acks, Attempts

LEMMA StateTyped ==
  ASSUME NEW r \in Records, NEW s \in JobStates
  PROVE  [r EXCEPT !.state = s] \in Records
BY DEF Records

LEMMA AckTyped ==
  ASSUME NEW r \in Records, NEW n, NEW a \in Acks
  PROVE  Acked(r, n, a) \in Records
BY DEF Acked, Records, Acks

LEMMA PendingTyped ==
  ASSUME NEW r \in Records, NEW n \in 0 .. MaxAttempts
  PROVE  Pending(r, n) \in Records
BY DEF Pending, Records, Acks

LEMMA WrittenTyped ==
  ASSUME NEW r \in Records
  PROVE  /\ Failed(r) \in Records
         /\ Parked(r) \in Records
         /\ Uncertain(r) \in Records
         /\ CancelAsked(r) \in Records
         /\ Canceled(r) \in Records
BY DEF Failed, Parked, Uncertain, CancelAsked, Canceled, Records, JobStates, Terminal,
       Reconciled

LEMMA MarkedTyped ==
  ASSUME NEW r \in Records
  PROVE  AgentMarked(r) \in Records
BY DEF AgentMarked, Records, JobStates, Terminal, Reconciled, Acks

LEMMA IntendedTyped ==
  ASSUME NEW r \in Records
  PROVE  Intended(r) \in Records
<1>1. Pending(r, 1) \in Records
  BY PendingTyped, MaxAttemptsAssumption
<1>2. [n \in Attempts |-> IF n = 1 THEN "pending" ELSE "none"] \in [Attempts -> Acks]
  BY DEF Acks
<1>3. "designing" \in JobStates
  BY DEF JobStates, Reconciled
<1> QED
  BY <1>1, <1>2, <1>3 DEF Intended, Records

LEMMA AttemptTyped ==
  ASSUME NEW r \in Records, NEW n \in 0 .. MaxAttempts
  PROVE  /\ Correcting(r, n) \in Records
         /\ Designing(r, n) \in Records
         /\ Echoed(r, n) \in Records
         /\ SendUncertain(r, n) \in Records
         /\ Ready(r, n) \in Records
         /\ GapReported(r, n) \in Records
<1>1. Pending(r, n) \in Records
  BY PendingTyped
<1>2. Acked(r, n, "acked") \in Records /\ Acked(r, n, "unknown") \in Records
  BY AckTyped DEF Acks
<1>3. {"fixing", "designing", "ready", "failed", "needs_continue"} \subseteq JobStates
  BY DEF JobStates, Terminal, Reconciled
<1>4. Correcting(r, n) \in Records
  BY <1>1, <1>3 DEF Correcting, Records
<1>5. Designing(r, n) \in Records
  BY <1>2, <1>3 DEF Designing, Records
<1>6. Echoed(r, n) \in Records
  <2> DEFINE e == Acked(r, n, "acked")
             s == IF e.state = "fixing" THEN "designing" ELSE e.state
  <2>1. s \in JobStates
    BY <1>2, <1>3 DEF Records
  <2>2. [e EXCEPT !.state = s] \in Records
    BY <1>2, <2>1, StateTyped
  <2> QED
    BY <2>2 DEF Echoed
<1>7. SendUncertain(r, n) \in Records
  BY <1>2, WrittenTyped DEF SendUncertain
<1>8. Ready(r, n) \in Records
  BY <1>3 DEF Ready, Records
<1>9. GapReported(r, n) \in Records
  <2>1. 0 \in 0 .. MaxAttempts
    BY MaxAttemptsAssumption
  <2>2. [r EXCEPT !.state = "failed", !.gap = TRUE, !.result = 0] \in Records
    BY <1>3, <2>1 DEF Records
  <2> QED
    BY <2>1, <2>2, <1>3 DEF GapReported, Records
<1> QED
  BY <1>4, <1>5, <1>6, <1>7, <1>8, <1>9

-----------------------------------------------------------------------------
(* Control: where a step sends a process. *)

LEMMA QueueIsProc == "queue" \in Procs
BY DEF Procs

LEMMA LocalTyped ==
  ASSUME NEW l \in Locals
  PROVE  /\ l.att \in 0 .. MaxAttempts /\ l.text \in 0 .. MaxAttempts
         /\ l.flag \subseteq Flags
         /\ \A f \in SUBSET Flags : [l EXCEPT !.flag = f] \in Locals
         /\ \A n \in 0 .. MaxAttempts :
              [l EXCEPT !.att = n] \in Locals /\ [l EXCEPT !.text = n] \in Locals
BY DEF Locals

LEMMA NoLocalsTyped == NoLocals \in Locals
BY MaxAttemptsAssumption DEF NoLocals, Locals

LEMMA GotoTyped ==
  ASSUME ControlOK, NEW p \in Procs, NEW l \in Labels, Goto(p, l)
  PROVE  ControlOK'
BY DEF ControlOK, Goto

LEMMA GotoWithTyped ==
  ASSUME ControlOK, NEW p \in Procs, NEW l \in Labels, NEW local \in Locals,
         GotoWith(p, l, local)
  PROVE  ControlOK'
BY DEF ControlOK, GotoWith

LEMMA FinishTyped ==
  ASSUME ControlOK, NEW p \in Procs, Finish(p)
  PROVE  ControlOK'
BY NoLocalsTyped DEF ControlOK, Finish, Labels, SharedLabels

LEMMA ForgetTyped ==
  ASSUME ControlOK, NEW p \in Procs, NEW l \in Labels, NEW n \in 0 .. MaxAttempts,
         Forget(p, l, n)
  PROVE  ControlOK'
<1>1. [NoLocals EXCEPT !.task = loc[p].task, !.att = n] \in Locals
  BY NoLocalsTyped DEF ControlOK, Locals
<1> QED
  BY <1>1, GotoWithTyped DEF Forget

LEMMA WithTyped ==
  ASSUME ControlOK, NEW p \in Procs, NEW f \in SUBSET Flags
  PROVE  With(p, f) \in Locals
BY DEF ControlOK, With, Locals

LEMMA ThrowTyped ==
  ASSUME ControlOK, NEW p \in Procs, Throw(p)
  PROVE  ControlOK'
<1>1. [loc[p] EXCEPT !.flag = @ \ {"guarded", "unsure"}] \in Locals
  BY DEF ControlOK, Locals
<1>2. "createFailed" \in Labels
  BY DEF Labels, QueueLabels
<1> QED
  BY <1>1, <1>2, GotoWithTyped, FinishTyped DEF Throw

-----------------------------------------------------------------------------
(* Types, one step after another. *)

LEMMA LocalKeeps ==
  ASSUME TypeOK, Local
  PROVE  HostOK' /\ RestOK'
BY DEF TypeOK, HostOK, RestOK, Local, host, spent

LEMMA ServerKeeps ==
  ASSUME TypeOK, UNCHANGED server
  PROVE  ServerOK'
BY DEF TypeOK, ServerOK, server

LEMMA FaultTyped ==
  ASSUME TypeOK, StoreFault
  PROVE  faults' \in 0 .. MaxFaults
BY DesignServiceAssumption DEF TypeOK, ServerOK, StoreFault

LEMMA CreatesTyped ==
  ASSUME TypeOK, HostCreates
  PROVE  HostOK'
<1>1. 1 \in 0 .. MaxAttempts /\ 1 \in Attempts
  BY MaxAttemptsAssumption DEF Attempts
<1> QED
  BY <1>1 DEF TypeOK, HostOK, HostCreates, host, AgentStates

LEMMA ObservingTyped ==
  ASSUME TypeOK
  PROVE  Observing(rec) \in Locals
<1>1. loc["queue"] \in Locals /\ rec.attempt \in 0 .. MaxAttempts
  BY QueueIsProc DEF TypeOK, ServerOK, ControlOK, Records
<1>2. \A c \in BOOLEAN :
        Flagged(c, "pending") \subseteq Flags /\ Flagged(c, "turnKnown") \subseteq Flags
  BY DEF Flagged, Flags
<1>3. \A f, g \in SUBSET Flags :
        [loc["queue"] EXCEPT !.att = rec.attempt, !.flag = @ \cup f \cup g] \in Locals
  BY <1>1 DEF Locals
<1>4. Flagged(rec.attempt > 0 /\ rec.ack[rec.attempt] = "pending", "pending") \in SUBSET Flags
      /\ Flagged(rec.attempt > 0 /\ rec.turnKnown[rec.attempt], "turnKnown") \in SUBSET Flags
  BY DEF Flagged, Flags
<1> QED
  BY <1>3, <1>4 DEF Observing

LEMMA StartTyped ==
  ASSUME TypeOK, StartStep
  PROVE  TypeOK'
<1> USE QueueIsProc, GotoTyped, GotoWithTyped, FinishTyped, LocalKeeps, ServerKeeps DEF TypeOK
<1> DEFINE QL == {"beforeIntent", "fail", "cancelWrite", "intent", "afterIntent", "mark",
                  "createFailed", "createLookup", "claim", "resolve", "unsure", "archive",
                  "observe", "creating"}
<1>l. QL \subseteq Labels
  BY DEF Labels, QueueLabels, SharedLabels
<1>1. CASE StartRun
  BY <1>1, <1>l DEF StartRun
<1>2. CASE BeforeIntent
  BY <1>2, <1>l DEF BeforeIntent
<1>3. CASE WriteIntent
  <2>1. ControlOK'
    BY <1>3, <1>l DEF WriteIntent, Update
  <2>2. ServerOK'
    BY <1>3, IntendedTyped, FaultTyped DEF WriteIntent, Update, ServerOK
  <2>3. HostOK' /\ RestOK'
    BY <1>3 DEF WriteIntent, HostOK, RestOK, host, spent
  <2> QED
    BY <2>1, <2>2, <2>3
<1>4. CASE AfterIntent
  <2>1. CASE rec.cancelRequested
    BY <1>4, <2>1, <1>l DEF AfterIntent
  <2>2. CASE ~rec.cancelRequested
    BY <1>4, <2>2, <1>l DEF AfterIntent, ControlOK
  <2> QED
    BY <2>1, <2>2
<1>5. CASE CreateReturns
  <2>1. \A u \in BOOLEAN : With("queue", Flagged(u, "unsure")) \in Locals
    BY WithTyped DEF Flagged, Flags
  <2>2. ControlOK'
    BY <1>5, <2>1, <1>l DEF CreateReturns
  <2>3. HostOK'
    BY <1>5, CreatesTyped DEF CreateReturns, HostOK, host
  <2>4. ServerOK' /\ RestOK'
    BY <1>5 DEF CreateReturns, RestOK, spent
  <2> QED
    BY <2>2, <2>3, <2>4
<1>6. CASE MarkCreated
  <2>1. With("queue", {"guarded"}) \in Locals
    BY WithTyped DEF Flags
  <2>2. ControlOK'
    BY <1>6, <2>1, <1>l DEF MarkCreated, Update
  <2>3. ServerOK'
    BY <1>6, MarkedTyped, FaultTyped DEF MarkCreated, Update, ServerOK
  <2> QED
    BY <1>6, <2>2, <2>3 DEF MarkCreated
<1>7. CASE CreateFailed
  <2>1. With("queue", Flagged(rec.cancelRequested, "asked")) \in Locals
    BY WithTyped DEF Flagged, Flags
  <2> QED
    BY <1>7, <2>1, <1>l DEF CreateFailed
<1>8. CASE CreateLookup
  BY <1>8, <1>l DEF CreateLookup
<1>9. CASE CreateUnsure
  <2>1. ControlOK'
    BY <1>9 DEF CreateUnsure, Update
  <2>2. ServerOK'
    BY <1>9, WrittenTyped, FaultTyped DEF CreateUnsure, Update, ServerOK
  <2> QED
    BY <1>9, <2>1, <2>2 DEF CreateUnsure
<1>10. CASE ClaimAgent
  <2>1. Observing(rec) \in Locals
    BY ObservingTyped
  <2>2. ControlOK'
    BY <1>10, <2>1, <1>l DEF ClaimAgent, Update
  <2>3. ServerOK'
    BY <1>10, MarkedTyped, FaultTyped DEF ClaimAgent, Update, ServerOK
  <2> QED
    BY <1>10, <2>2, <2>3 DEF ClaimAgent
<1> QED
  BY <1>1, <1>2, <1>3, <1>4, <1>5, <1>6, <1>7, <1>8, <1>9, <1>10 DEF StartStep

\* The local variables of the queue's task.
LEMMA QueueLocalTyped ==
  ASSUME TypeOK
  PROVE  /\ loc["queue"] \in Locals
         /\ loc["queue"].att \in 0 .. MaxAttempts
         /\ loc["queue"].text \in 0 .. MaxAttempts
         /\ rec.attempt \in 0 .. MaxAttempts
         /\ 0 \in 0 .. MaxAttempts
BY QueueIsProc, LocalTyped, MaxAttemptsAssumption DEF TypeOK, ServerOK, ControlOK, Records

LEMMA ReconcileTyped ==
  ASSUME TypeOK, RoundLeft, ReconcileStep
  PROVE  TypeOK'
<1> USE QueueIsProc, GotoTyped, GotoWithTyped, FinishTyped, ForgetTyped, LocalKeeps,
        ServerKeeps, QueueLocalTyped DEF TypeOK
<1> DEFINE QL == {"start", "reconcile", "replayLookup", "observe", "recoverSend",
                  "resumeLookup", "claim", "creating", "echoed", "sendTimedOut", "look",
                  "learn", "candidate", "ready", "gap", "correct", "turnFailed", "fail",
                  "park", "sending", "archive", "resolve"}
<1>l. QL \subseteq Labels
  BY DEF Labels, QueueLabels, SharedLabels
<1>1. CASE Reconcile
  BY <1>1, <1>l, ObservingTyped DEF Reconcile, ReconcileLive, ResumeStarting
<1>2. CASE ReplayLookup
  <2>1. With("queue", {"replay"}) \in Locals
    BY WithTyped DEF Flags
  <2> QED
    BY <1>2, <2>1, <1>l DEF ReplayLookup, ControlOK
<1>3. CASE ResumeLookup
  <2>1. With("queue", {"resume"}) \in Locals
    BY WithTyped DEF Flags
  <2> QED
    BY <1>3, <2>1, <1>l DEF ResumeLookup
<1>4. CASE RecoverSend
  BY <1>4, <1>l DEF RecoverSend
<1>5. CASE SendEchoed
  <2>1. ControlOK'
    BY <1>5 DEF SendEchoed, Update
  <2>2. ServerOK'
    BY <1>5, AttemptTyped, FaultTyped DEF SendEchoed, Update, ServerOK
  <2> QED
    BY <1>5, <2>1, <2>2 DEF SendEchoed
<1>6. CASE SendTimedOut
  <2>1. ControlOK'
    BY <1>6 DEF SendTimedOut, Update
  <2>2. ServerOK'
    BY <1>6, WrittenTyped, FaultTyped DEF SendTimedOut, Update, ServerOK
  <2> QED
    BY <1>6, <2>1, <2>2 DEF SendTimedOut
<1>7. CASE Observe
  <2> DEFINE l == With("queue", Flagged(~rec.outcomeUnknown /\ rec.ack[rec.attempt] = "acked",
                                        "decisive"))
  <2>1. l \in Locals
    BY WithTyped DEF Flagged, Flags
  <2>2. [l EXCEPT !.text = rec.attempt] \in Locals
    BY <2>1, LocalTyped
  <2> QED
    BY <1>7, <2>2, <1>l DEF Observe
<1>8. CASE Look
  BY <1>8, <1>l DEF Look
<1>9. CASE LearnTurn
  <2>1. [loc["queue"] EXCEPT !.att = rec.attempt] \in Locals
    BY LocalTyped
  <2>2. ControlOK'
    BY <1>9, <2>1, <1>l DEF LearnTurn, Update
  <2>3. [rec EXCEPT !.turnKnown = [@ EXCEPT ![loc["queue"].att] =
                                      rec.ack[loc["queue"].att] # "none"]] \in Records
    BY DEF ServerOK, Records
  <2>4. ServerOK'
    BY <1>9, <2>3, FaultTyped DEF LearnTurn, Update, ServerOK
  <2> QED
    BY <1>9, <2>2, <2>4 DEF LearnTurn
<1>10. CASE Candidate
  BY <1>10, <1>l DEF Candidate, HandleFailure
<1>11. CASE WriteReady
  <2>1. ControlOK'
    BY <1>11 DEF WriteReady, Update
  <2>2. ServerOK'
    BY <1>11, AttemptTyped, FaultTyped DEF WriteReady, Update, ServerOK
  <2> QED
    BY <1>11, <2>1, <2>2 DEF WriteReady
<1>12. CASE WriteGap
  <2>1. ControlOK'
    BY <1>12 DEF WriteGap, Update
  <2>2. ServerOK'
    BY <1>12, AttemptTyped, FaultTyped DEF WriteGap, Update, ServerOK
  <2> QED
    BY <1>12, <2>1, <2>2 DEF WriteGap
<1>13. CASE WriteCorrection
  <2> DEFINE n == loc["queue"].att + 1
  <2>1. n \in 0 .. MaxAttempts
    BY <1>13, MaxAttemptsAssumption DEF WriteCorrection, RoundLeft, At
  <2>2. [loc["queue"] EXCEPT !.att = n] \in Locals
    BY <2>1, LocalTyped
  <2>3. ControlOK'
    BY <1>13, <2>2, <1>l DEF WriteCorrection, Update
  <2>4. Correcting(rec, n) \in Records
    BY <2>1, AttemptTyped DEF ServerOK
  <2>5. ServerOK'
    BY <1>13, <2>4, FaultTyped DEF WriteCorrection, Update, ServerOK
  <2>6. HostOK' /\ RestOK'
    BY <1>13 DEF WriteCorrection, HostOK, RestOK, host, spent
  <2> QED
    BY <2>3, <2>5, <2>6
<1>14. CASE TurnEnded
  BY <1>14, <1>l DEF TurnEnded, EndTurn
<1>15. CASE TurnFailed
  <2>1. ControlOK'
    BY <1>15 DEF TurnFailed, Update
  <2>2. ServerOK'
    BY <1>15, WrittenTyped, FaultTyped DEF TurnFailed, Update, ServerOK
  <2> QED
    BY <1>15, <2>1, <2>2 DEF TurnFailed
<1> QED
  BY <1>1, <1>2, <1>3, <1>4, <1>5, <1>6, <1>7, <1>8, <1>9, <1>10, <1>11, <1>12, <1>13,
     <1>14, <1>15 DEF ReconcileStep

LEMMA ReceivesTyped ==
  ASSUME TypeOK, NEW n \in 0 .. MaxAttempts, HostReceives(n)
  PROVE  HostOK'
<1>1. delivered' \in [Attempts -> Nat]
  <2>1. \A m \in Attempts : delivered[m] \in Nat /\ delivered[m] + 1 \in Nat
    BY DEF TypeOK, HostOK
  <2> QED
    BY <2>1 DEF TypeOK, HostOK, HostReceives
<1> QED
  BY <1>1 DEF TypeOK, HostOK, HostReceives, AgentStates

LEMMA SharedTyped ==
  ASSUME TypeOK, NEW p \in Procs, SharedStep(p)
  PROVE  TypeOK'
<1> USE GotoTyped, GotoWithTyped, FinishTyped, ThrowTyped, LocalKeeps, ServerKeeps DEF TypeOK
<1> DEFINE SL == {"sent", "sendUnknown", "archive", "cancelLookup", "cancelWrite", "park",
                  "adopt", "archiving"}
<1>l. SL \subseteq Labels
  BY DEF Labels, SharedLabels
<1>a. loc[p].att \in 0 .. MaxAttempts
  BY LocalTyped DEF ControlOK
<1>1. CASE SendReturns(p)
  <2>1. ControlOK'
    BY <1>1, <1>l DEF SendReturns
  <2>2. HostOK'
    BY <1>1, <1>a, ReceivesTyped DEF SendReturns, HostOK, host
  <2> QED
    BY <1>1, <2>1, <2>2 DEF SendReturns, RestOK, spent
<1>2. CASE Sent(p)
  <2>1. ControlOK'
    BY <1>2, <1>l DEF Sent, Update
  <2>2. ServerOK'
    BY <1>2, <1>a, AttemptTyped, FaultTyped DEF Sent, Update, ServerOK
  <2> QED
    BY <1>2, <2>1, <2>2 DEF Sent
<1>3. CASE SendUnknown(p)
  <2>1. ControlOK'
    BY <1>3 DEF SendUnknown, Update
  <2>2. ServerOK'
    BY <1>3, <1>a, AttemptTyped, FaultTyped DEF SendUnknown, Update, ServerOK
  <2> QED
    BY <1>3, <2>1, <2>2 DEF SendUnknown
<1>4. CASE Fail(p)
  <2>1. ControlOK'
    BY <1>4 DEF Fail, Update
  <2>2. ServerOK'
    BY <1>4, WrittenTyped, FaultTyped DEF Fail, Update, ServerOK
  <2> QED
    BY <1>4, <2>1, <2>2 DEF Fail
<1>5. CASE Park(p)
  <2>1. ControlOK'
    BY <1>5 DEF Park, Update
  <2>2. ServerOK'
    BY <1>5, WrittenTyped, FaultTyped DEF Park, Update, ServerOK
  <2> QED
    BY <1>5, <2>1, <2>2 DEF Park
<1>6. CASE Resolve(p)
  BY <1>6, <1>l DEF Resolve
<1>7. CASE CancelLookup(p)
  BY <1>7, <1>l DEF CancelLookup
<1>8. CASE Adopt(p)
  <2>1. ControlOK'
    BY <1>8, <1>l DEF Adopt, Update
  <2>2. [rec EXCEPT !.agentCreated = TRUE] \in Records
    BY DEF ServerOK, Records
  <2>3. ServerOK'
    BY <1>8, <2>2, FaultTyped DEF Adopt, Update, ServerOK
  <2> QED
    BY <1>8, <2>1, <2>3 DEF Adopt
<1>9. CASE Archive(p)
  BY <1>9, <1>l DEF Archive
<1>10. CASE ArchiveReturns(p)
  <2>1. ControlOK'
    BY <1>10, <1>l DEF ArchiveReturns
  <2>2. HostOK'
    BY <1>10 DEF ArchiveReturns, HostOK, host, AgentStates
  <2> QED
    BY <1>10, <2>1, <2>2 DEF ArchiveReturns, RestOK, spent
<1>11. CASE CancelWrite(p)
  <2>1. ControlOK'
    BY <1>11 DEF CancelWrite, Update
  <2>2. ServerOK'
    BY <1>11, WrittenTyped, FaultTyped DEF CancelWrite, Update, ServerOK
  <2> QED
    BY <1>11, <2>1, <2>2 DEF CancelWrite
<1> QED
  BY <1>1, <1>2, <1>3, <1>4, <1>5, <1>6, <1>7, <1>8, <1>9, <1>10, <1>11 DEF SharedStep

LEMMA CallerTyped ==
  ASSUME TypeOK, NEW p \in Callers, Request(p) \/ CallerStep(p)
  PROVE  TypeOK'
<1> USE GotoTyped, FinishTyped, LocalKeeps, ServerKeeps DEF TypeOK
<1>l. {"askCancel", "recheck", "repairLook", "repair", "resolve", "sending"} \subseteq Labels
  BY DEF Labels, SharedLabels, CallerLabels
<1>p. p \in Procs
  BY DEF Procs
<1>a. loc[p].att \in 0 .. MaxAttempts
  BY <1>p, LocalTyped DEF ControlOK
<1>1. ASSUME NEW request \in {"cancel", "recheck", "repair"}, Call(p, request)
      PROVE  ServerOK' /\ HostOK' /\ RestOK' /\ creating' \in BOOLEAN
  <2>1. calls' \in [cancel : 0..MaxCancels, recheck : 0..MaxRechecks, repair : 0..MaxRepairs]
    BY <1>1, DesignServiceAssumption DEF Call, MaxCalls, RestOK
  <2> QED
    BY <1>1, <2>1 DEF Call, server, mem, host, ServerOK, ControlOK, HostOK, RestOK
<1>2. CASE Cancel(p)
  BY <1>1, <1>2, <1>l, <1>p DEF Cancel, ControlOK
<1>3. CASE Recheck(p)
  BY <1>1, <1>3, <1>l, <1>p DEF Recheck, ControlOK
<1>4. CASE Repair(p)
  <2>1. rec.attempt + 1 \in 0 .. MaxAttempts
    BY <1>4, MaxAttemptsAssumption DEF Repair, ServerOK, Records
  <2>2. [loc[p] EXCEPT !.att = rec.attempt + 1] \in Locals
    BY <2>1, <1>p, LocalTyped DEF ControlOK
  <2>3. ControlOK'
    BY <1>1, <1>4, <1>l, <1>p, <2>2 DEF Repair, ControlOK
  <2> QED
    BY <1>1, <1>4, <2>3 DEF Repair
<1>5. CASE AskCancel(p)
  <2>1. ControlOK'
    BY <1>5, <1>l, <1>p DEF AskCancel, Update
  <2>2. ServerOK'
    BY <1>5, WrittenTyped, FaultTyped DEF AskCancel, Update, ServerOK
  <2> QED
    BY <1>5, <2>1, <2>2 DEF AskCancel
<1>6. CASE WriteRecheck(p)
  <2>1. ControlOK'
    BY <1>6, <1>p DEF WriteRecheck, Update
  <2>2. [rec EXCEPT !.state = "ready"] \in Records
    BY StateTyped DEF ServerOK, JobStates
  <2>3. ServerOK'
    BY <1>6, <2>2, FaultTyped DEF WriteRecheck, Update, ServerOK
  <2> QED
    BY <1>6, <2>1, <2>3 DEF WriteRecheck
<1>7. CASE RepairLook(p)
  BY <1>7, <1>l, <1>p DEF RepairLook
<1>8. CASE WriteRepair(p)
  <2>1. ControlOK'
    BY <1>8, <1>l, <1>p DEF WriteRepair, Update
  <2>2. Correcting(rec, loc[p].att) \in Records
    BY <1>a, AttemptTyped DEF ServerOK
  <2>3. [Correcting(rec, loc[p].att) EXCEPT !.outcomeUnknown = FALSE] \in Records
    BY <2>2 DEF Records
  <2>4. ServerOK'
    BY <1>8, <2>3, FaultTyped DEF WriteRepair, Update, ServerOK
  <2>5. HostOK' /\ RestOK'
    BY <1>8 DEF WriteRepair, HostOK, RestOK, host, spent
  <2> QED
    BY <2>1, <2>4, <2>5
<1> QED
  BY <1>2, <1>3, <1>4, <1>5, <1>6, <1>7, <1>8 DEF Request, CallerStep

LEMMA WorldTyped ==
  ASSUME TypeOK,
         RunTask \/ Poll \/ HookArrives \/ TurnEnds \/ CreateLands \/ SendAges \/ Restart
  PROVE  TypeOK'
<1> USE QueueIsProc DEF TypeOK
<1>1. CASE RunTask
  <2>1. Head(tasks) \in Tasks /\ Tail(tasks) \in Seq(Tasks)
    BY <1>1 DEF RunTask, RestOK
  <2>2. Head(tasks).kind \in Labels /\ Head(tasks).kind \in {"start", "reconcile", "turn"}
        /\ Head(tasks).ev \in Events \cup {NoEvent}
    BY <2>1 DEF Tasks, Labels, QueueLabels
  <2>3. [NoLocals EXCEPT !.task = Head(tasks).kind, !.ev = Head(tasks).ev] \in Locals
    BY <2>2, NoLocalsTyped DEF Locals
  <2>4. ControlOK'
    BY <1>1, <2>2, <2>3 DEF RunTask, ControlOK
  <2> QED
    BY <1>1, <2>1, <2>4 DEF RunTask, server, host, spent, ServerOK, HostOK, RestOK
<1>2. CASE Poll
  <2>1. [kind |-> "reconcile", ev |-> NoEvent] \in Tasks
    BY DEF Tasks
  <2>2. tasks' \in Seq(Tasks)
    BY <1>2, <2>1 DEF Poll, RestOK
  <2> QED
    BY <1>2, <2>2 DEF Poll, server, host, spent, ServerOK, ControlOK, HostOK, RestOK
<1>3. CASE HookArrives
  <2>1. PICK e \in hooks, id \in {"none", "turn", "message"} :
          /\ hooks' = hooks \ {e}
          /\ tasks' = Append(tasks, [kind |-> "turn",
                                     ev |-> [n |-> e.n, id |-> id, outcome |-> e.outcome]])
    BY <1>3 DEF HookArrives
  <2>2. e \in Endings
    BY <2>1 DEF HostOK
  <2>3. [n |-> e.n, id |-> id, outcome |-> e.outcome] \in Events
    BY <2>2 DEF Endings, Events
  <2>4. [kind |-> "turn", ev |-> [n |-> e.n, id |-> id, outcome |-> e.outcome]] \in Tasks
    BY <2>3 DEF Tasks
  <2>5. tasks' \in Seq(Tasks)
    BY <2>1, <2>4 DEF RestOK
  <2> QED
    BY <1>3, <2>1, <2>5
       DEF HookArrives, server, host, spent, ServerOK, ControlOK, HostOK, RestOK
<1>4. CASE TurnEnds
  BY <1>4 DEF TurnEnds, server, mem, spent, ServerOK, ControlOK, HostOK, RestOK, AgentStates
<1>5. CASE CreateLands
  <2>1. 1 \in 0 .. MaxAttempts /\ 1 \in Attempts
    BY MaxAttemptsAssumption DEF Attempts
  <2>2. delivered' \in [Attempts -> Nat]
    <3>1. delivered[1] + 1 \in Nat
      BY <2>1 DEF HostOK
    <3> QED
      BY <1>5, <3>1 DEF CreateLands, HostOK
  <2>3. HostOK'
    BY <1>5, <2>1, <2>2 DEF CreateLands, HostOK, AgentStates
  <2> QED
    BY <1>5, <2>3 DEF CreateLands, server, mem, spent, ServerOK, ControlOK, RestOK
<1>6. CASE SendAges
  BY <1>6 DEF SendAges, server, mem, host, spent, ServerOK, ControlOK, HostOK, RestOK
<1>7. CASE Restart
  <2>1. ControlOK'
    BY <1>7, NoLocalsTyped DEF Restart, ControlOK, Labels, SharedLabels
  <2>2. \A p \in Procs : loc[p].att \in 0 .. MaxAttempts
    BY LocalTyped DEF ControlOK
  <2>3. HostOK'
    BY <1>7, <2>2, CreatesTyped, ReceivesTyped DEF Restart, HostOK, host, AgentStates
  <2>4. << >> \in Seq(Tasks)
    OBVIOUS
  <2>5. crashes' \in 0 .. MaxCrashes
    BY <1>7, DesignServiceAssumption DEF Restart, RestOK
  <2>6. RestOK'
    BY <1>7, <2>4, <2>5 DEF Restart, RestOK
  <2>7. ServerOK'
    BY <1>7 DEF Restart, server, ServerOK
  <2> QED
    BY <2>1, <2>3, <2>6, <2>7
<1> QED
  BY <1>1, <1>2, <1>3, <1>4, <1>5, <1>6, <1>7

-----------------------------------------------------------------------------
(* A correction is only prepared while a round is left. *)

\* A step of another process leaves the queue's task alone.
QueueLeft == pc'["queue"] = pc["queue"] /\ loc'["queue"] = loc["queue"]

LEMMA CallerMoves ==
  ASSUME ControlOK, NEW p \in Callers
  PROVE  /\ \A l : Goto(p, l) => QueueLeft
         /\ \A l, local : GotoWith(p, l, local) => QueueLeft
         /\ Finish(p) => QueueLeft
         /\ Throw(p) => QueueLeft
<1>1. p # "queue" /\ p \in Procs /\ "queue" \in Procs
  BY DesignServiceAssumption, QueueIsProc DEF Procs
<1>2. ASSUME NEW l, Goto(p, l)
      PROVE  QueueLeft
  BY <1>1, <1>2 DEF ControlOK, Goto, QueueLeft
<1>3. ASSUME NEW l, NEW local, GotoWith(p, l, local)
      PROVE  QueueLeft
  BY <1>1, <1>3 DEF ControlOK, GotoWith, QueueLeft
<1>4. ASSUME Finish(p)
      PROVE  QueueLeft
  BY <1>1, <1>4 DEF ControlOK, Finish, QueueLeft
<1> QED
  BY <1>2, <1>3, <1>4 DEF Throw

LEMMA CallerLeavesQueue ==
  ASSUME TypeOK, NEW p \in Callers, Request(p) \/ CallerStep(p) \/ SharedStep(p)
  PROVE  QueueLeft
<1> USE CallerMoves DEF TypeOK
<1>1. CASE Request(p)
  <2>1. p # "queue" /\ p \in Procs /\ "queue" \in Procs
    BY DesignServiceAssumption, QueueIsProc DEF Procs
  <2> QED
    BY <1>1, <2>1 DEF Request, Cancel, Recheck, Repair, ControlOK, QueueLeft
<1>2. CASE CallerStep(p)
  BY <1>2 DEF CallerStep, AskCancel, WriteRecheck, RepairLook, WriteRepair, Update
<1>3. CASE SharedStep(p)
  BY <1>3 DEF SharedStep, SendReturns, Sent, SendUnknown, Fail, Park, Resolve, CancelLookup,
              Adopt, Archive, ArchiveReturns, CancelWrite, Update
<1> QED
  BY <1>1, <1>2, <1>3

\* Of the queue's steps only Candidate prepares one.
LEMMA OnlyCandidate ==
  ASSUME TypeOK, QueueStep, pc'["queue"] = "correct"
  PROVE  Candidate
<1> USE DEF TypeOK, ControlOK, Goto, GotoWith, Finish, Throw, Forget
<1>1. CASE RunTask
  <2>1. Head(tasks) \in Tasks
    BY <1>1 DEF RunTask, RestOK
  <2> QED
    BY <1>1, <2>1, QueueIsProc DEF RunTask, Tasks
<1>2. CASE StartStep
  BY <1>2, QueueIsProc
     DEF StartStep, StartRun, BeforeIntent, WriteIntent, AfterIntent, CreateReturns,
         MarkCreated, CreateFailed, CreateLookup, CreateUnsure, ClaimAgent, Update
<1>3. CASE ReconcileStep
  BY <1>3, QueueIsProc
     DEF ReconcileStep, Reconcile, ReconcileLive, ResumeStarting, ReplayLookup, ResumeLookup,
         RecoverSend, SendEchoed, SendTimedOut, Observe, Look, LearnTurn, WriteReady, WriteGap,
         WriteCorrection, TurnEnded, EndTurn, TurnFailed, Update
<1>4. CASE SharedStep("queue")
  BY <1>4, QueueIsProc
     DEF SharedStep, SendReturns, Sent, SendUnknown, Fail, Park, Resolve, CancelLookup,
         Adopt, Archive, ArchiveReturns, CancelWrite, Update
<1> QED
  BY <1>1, <1>2, <1>3, <1>4 DEF QueueStep

LEMMA CandidateKeepsRound ==
  ASSUME TypeOK, Candidate
  PROVE  RoundLeft'
BY QueueIsProc, MaxAttemptsAssumption
   DEF Candidate, HandleFailure, Forget, GotoWith, RoundLeft, TypeOK, ControlOK, NoLocals

LEMMA RoundLeftNext == TypeInv /\ [Next]_vars => RoundLeft'
<1> SUFFICES ASSUME TypeInv, [Next]_vars
             PROVE  RoundLeft'
  OBVIOUS
<1> USE DEF TypeInv
<1>1. CASE QueueStep
  BY <1>1, OnlyCandidate, CandidateKeepsRound DEF RoundLeft
<1>2. CASE QueueLeft
  BY <1>2 DEF RoundLeft, QueueLeft
<1>3. ASSUME NEW p \in Callers, Request(p) \/ CallerStep(p) \/ SharedStep(p)
      PROVE  RoundLeft'
  BY <1>2, <1>3, CallerLeavesQueue
<1>4. CASE Poll \/ HookArrives \/ TurnEnds \/ CreateLands \/ SendAges
  BY <1>2, <1>4 DEF Poll, HookArrives, TurnEnds, CreateLands, SendAges, QueueLeft
<1>5. CASE Restart
  BY <1>5, QueueIsProc DEF Restart, RoundLeft
<1>6. CASE UNCHANGED vars
  BY <1>2, <1>6 DEF vars, QueueLeft
<1> QED
  BY <1>1, <1>3, <1>4, <1>5, <1>6 DEF Next

-----------------------------------------------------------------------------
(* The theorems. *)

LEMMA TypeInit == Init => TypeInv
<1> SUFFICES ASSUME Init
             PROVE  TypeInv
  OBVIOUS
<1>1. ServerOK
  BY NewRecordTyped, DesignServiceAssumption DEF Init, ServerOK
<1>2. ControlOK
  BY NoLocalsTyped DEF Init, ControlOK, Labels, SharedLabels
<1>3. HostOK
  <2>1. agent \in AgentStates /\ turn \in 0 .. MaxAttempts /\ hooks \subseteq Endings
    BY MaxAttemptsAssumption DEF Init, AgentStates
  <2>2. delivered \in [Attempts -> Nat] /\ stalled \in BOOLEAN /\ landedLate \in BOOLEAN
    BY DEF Init
  <2> QED
    BY <2>1, <2>2 DEF HostOK
<1>4. RestOK
  <2>1. [kind |-> "start", ev |-> NoEvent] \in Tasks
    BY DEF Tasks
  <2>2. tasks \in Seq(Tasks)
    BY <2>1 DEF Init
  <2>3. /\ calls \in [cancel : 0..MaxCancels, recheck : 0..MaxRechecks, repair : 0..MaxRepairs]
        /\ crashes \in 0 .. MaxCrashes
    BY DesignServiceAssumption DEF Init
  <2>4. observed \in BOOLEAN /\ sendAged \in BOOLEAN
    BY DEF Init
  <2> QED
    BY <2>2, <2>3, <2>4 DEF RestOK
<1>5. RoundLeft
  BY QueueIsProc DEF Init, RoundLeft
<1> QED
  BY <1>1, <1>2, <1>3, <1>4, <1>5 DEF TypeInv, TypeOK

LEMMA TypeNext == TypeInv /\ [Next]_vars => TypeOK'
<1> SUFFICES ASSUME TypeInv, [Next]_vars
             PROVE  TypeOK'
  OBVIOUS
<1> USE DEF TypeInv
<1>1. CASE QueueStep
  BY <1>1, QueueIsProc, StartTyped, ReconcileTyped, SharedTyped, WorldTyped DEF QueueStep
<1>2. ASSUME NEW p \in Callers, Request(p) \/ CallerStep(p) \/ SharedStep(p)
      PROVE  TypeOK'
  BY <1>2, CallerTyped, SharedTyped DEF Procs
<1>3. CASE Poll \/ HookArrives \/ TurnEnds \/ CreateLands \/ SendAges \/ Restart
  BY <1>3, WorldTyped
<1>4. CASE UNCHANGED vars
  BY <1>4 DEF vars, server, mem, host, spent, TypeOK, ServerOK, ControlOK, HostOK, RestOK
<1> QED
  BY <1>1, <1>2, <1>3, <1>4 DEF Next

\* Whatever the host, the callers, the store and restarts do, every variable
\* keeps its type, and a correction is only prepared for one of the rounds the
\* job may spend (the attempt limit of handleFailure).
THEOREM TypeCorrect == Spec => []TypeInv
<1>1. TypeInv /\ [Next]_vars => TypeInv'
  BY TypeNext, RoundLeftNext DEF TypeInv
<1> QED
  BY TypeInit, <1>1, PTL DEF Spec

-----------------------------------------------------------------------------
(* What the record says of the agent.  An acknowledgement is only in doubt *)
(* while the agent is created: the claim of an agent that was found marks  *)
(* the prompt of the current attempt as received, and that must be the     *)
(* kickoff.  So no repair may start while the queue is on that way.        *)

\* A job that is canceled is not repaired unless its archive fails.
NotBoth == ~HostMayFail \/ MaxCancels = 0 \/ MaxRepairs = 0

BeforeCreate == {"start", "beforeIntent", "intent"}
CreateLabels ==
  BeforeCreate \cup {"afterIntent", "creating", "mark", "createFailed", "createLookup",
                     "claim", "unsure", "replayLookup", "resumeLookup"}
CancelLabels == {"resolve", "cancelLookup", "adopt", "archive", "archiving", "cancelWrite",
                 "park"}
Sending == {"sending", "sent", "sendUnknown"}
Repairing == {"repairLook", "repair"} \cup Sending
Deciding == {"recoverSend", "observe", "look", "learn", "candidate", "correct", "ready", "gap"}

\* The queue is on the way of a create, or will be when the archive it is at fails.
Creates(l, local) == l \in CreateLabels \/ "guarded" \in local.flag

\* Before the create request is stored nothing has been asked of the host.
NotAsked ==
  ~rec.creation =>
    /\ rec.attempt = 0 /\ ~rec.agentCreated /\ rec.result = 0
    /\ \A n \in Attempts : rec.ack[n] = "none"
    /\ rec.state \in {"starting", "canceling"} \cup Terminal
    /\ agent = "absent" /\ ~stalled

OnlyKickoff == rec.attempt = 1 /\ \A n \in Attempts : n # 1 => rec.ack[n] = "none"
HasAsked ==
  rec.creation =>
    /\ rec.state # "starting" /\ rec.attempt \in Attempts /\ rec.ack[1] # "none"
    /\ ~rec.agentCreated => OnlyKickoff
    /\ rec.state = "fixing" => rec.agentCreated

AgentThere == rec.agentCreated => agent # "absent"
KickedOff ==
  IF agent = "absent" THEN \A n \in Attempts : delivered[n] = 0 ELSE delivered[1] = 1
CancelAllowed == rec.cancelRequested => MaxCancels > 0 \/ IsTerminal(rec)
RecordOK ==
  NotAsked /\ HasAsked /\ AgentThere /\ KickedOff /\ CancelAllowed /\ AckedMeansReceived

\* The first task is queued alone, before anything else.
StartsFirst ==
  \A i \in DOMAIN tasks : tasks[i].kind = "start" => i = 1 /\ ~rec.creation /\ Idle("queue")

\* While the queue creates the agent the attempt is the first one.
CreateIsFirst ==
  /\ rec.creation => OnlyKickoff
  /\ rec.agentCreated => rec.cancelRequested
  /\ HostMayFail \/ ~(rec.cancelRequested /\ rec.state = "needs_continue")

QueueFits(l, local) ==
  /\ l \in BeforeCreate => ~rec.creation
  /\ ~rec.creation => /\ l \in BeforeCreate \cup {"idle", "reconcile", "turn", "fail",
                                                  "resolve", "cancelWrite"}
                      /\ "guarded" \notin local.flag
  /\ l \in {"mark", "claim", "adopt", "archiving"} => agent # "absent"
  /\ l \in Deciding \cup Sending => rec.agentCreated
  /\ l \in Sending => local.att \in Attempts /\ local.att # 1
  /\ l \in Deciding \cup {"echoed"} => local.att \in Attempts
  /\ l \in {"sent", "echoed"} => delivered[local.att] > 0
  /\ Creates(l, local) => CreateIsFirst
  /\ "guarded" \in local.flag => rec.cancelRequested /\ l \in CancelLabels

CallerFits(l, local) ==
  /\ l \in {"idle", "askCancel", "recheck"} \cup CancelLabels \cup Repairing
  /\ ~rec.creation => l \in {"idle", "askCancel", "resolve", "cancelWrite"}
  /\ l = "askCancel" => MaxCancels > 0
  /\ l \in CancelLabels => rec.cancelRequested /\ MaxCancels > 0
  /\ l = "park" => HostMayFail
  /\ l \in {"adopt", "archiving"} => agent # "absent"
  /\ l \in Repairing => /\ rec.agentCreated /\ MaxRepairs > 0
                        /\ local.att \in Attempts /\ local.att # 1
  /\ l = "sent" => delivered[local.att] > 0
  /\ "guarded" \notin local.flag

\* No repair runs beside the queue's way of a create.
CreateAlone ==
  Creates(pc["queue"], loc["queue"]) => \A p \in Callers : pc[p] \notin Repairing

AckInv ==
  /\ RecordOK
  /\ StartsFirst
  /\ QueueFits(pc["queue"], loc["queue"])
  /\ \A p \in Callers : CallerFits(pc[p], loc[p])
  /\ CreateAlone

-----------------------------------------------------------------------------
(* What a step leaves as it was. *)

\* Only process p moves.
OnlyMoves(p) ==
  \A q \in Procs : q # p => pc'[q] = pc[q] /\ loc'[q] = loc[q]

LEMMA Moves ==
  ASSUME ControlOK, NEW p \in Procs
  PROVE  /\ \A l : Goto(p, l) => OnlyMoves(p) /\ pc'[p] = l /\ loc'[p] = loc[p]
         /\ \A l, local :
              GotoWith(p, l, local) => OnlyMoves(p) /\ pc'[p] = l /\ loc'[p] = local
         /\ Finish(p) => OnlyMoves(p) /\ pc'[p] = "idle" /\ loc'[p] = NoLocals
<1>1. ASSUME NEW l, Goto(p, l)
      PROVE  OnlyMoves(p) /\ pc'[p] = l /\ loc'[p] = loc[p]
  BY <1>1 DEF ControlOK, Goto, OnlyMoves
<1>2. ASSUME NEW l, NEW local, GotoWith(p, l, local)
      PROVE  OnlyMoves(p) /\ pc'[p] = l /\ loc'[p] = local
  BY <1>2 DEF ControlOK, GotoWith, OnlyMoves
<1>3. ASSUME Finish(p)
      PROVE  OnlyMoves(p) /\ pc'[p] = "idle" /\ loc'[p] = NoLocals
  BY <1>3 DEF ControlOK, Finish, OnlyMoves
<1> QED
  BY <1>1, <1>2, <1>3

\* An exception is only guarded on the way of a create.
LEMMA Throws ==
  ASSUME ControlOK, NEW p \in Procs, Throw(p)
  PROVE  /\ OnlyMoves(p)
         /\ "guarded" \notin loc[p].flag => pc'[p] = "idle" /\ loc'[p] = NoLocals
         /\ "guarded" \in loc[p].flag => /\ pc'[p] = "createFailed"
                                        /\ "guarded" \notin loc'[p].flag
<1>1. CASE Has(p, "guarded")
  <2>1. GotoWith(p, "createFailed", [loc[p] EXCEPT !.flag = @ \ {"guarded", "unsure"}])
    BY <1>1 DEF Throw
  <2>2. "guarded" \notin [loc[p] EXCEPT !.flag = @ \ {"guarded", "unsure"}].flag
    BY DEF ControlOK, Locals
  <2>3. /\ OnlyMoves(p) /\ pc'[p] = "createFailed"
        /\ loc'[p] = [loc[p] EXCEPT !.flag = @ \ {"guarded", "unsure"}]
    BY <2>1, Moves
  <2>4. "guarded" \in loc[p].flag
    BY <1>1 DEF Has
  <2> QED
    BY <2>2, <2>3, <2>4
<1>2. CASE ~Has(p, "guarded")
  BY <1>2, Moves DEF Throw, Has
<1> QED
  BY <1>1, <1>2

\* What only grows.
Grows ==
  /\ rec.creation => rec'.creation
  /\ rec.agentCreated => rec'.agentCreated
  /\ rec.cancelRequested => rec'.cancelRequested
  /\ agent # "absent" => agent' # "absent"
  /\ \A n \in Attempts : delivered[n] > 0 => delivered'[n] > 0

\* A caller keeps its place while others move.
LEMMA CallerStays ==
  ASSUME AckInv, Grows, NEW p \in Callers, pc'[p] = pc[p], loc'[p] = loc[p]
  PROVE  CallerFits(pc[p], loc[p])'
BY DEF AckInv, CallerFits, Grows, Sending, Repairing, CancelLabels

\* A step of the queue keeps the invariant if its own place fits, and if it
\* takes the way of a create only while there is no agent.
LEMMA QueueKeeps ==
  ASSUME TypeInv, AckInv, Grows, OnlyMoves("queue"), UNCHANGED tasks, ~Idle("queue"),
         RecordOK',
         QueueFits(pc["queue"], loc["queue"])',
         Creates(pc["queue"], loc["queue"])' =>
           Creates(pc["queue"], loc["queue"]) \/ ~rec.agentCreated
  PROVE  AckInv'
<1>1. \A p \in Callers : p \in Procs /\ p # "queue"
  BY DesignServiceAssumption DEF Procs
<1>2. \A p \in Callers : pc'[p] = pc[p] /\ loc'[p] = loc[p]
  BY <1>1 DEF OnlyMoves
<1>3. \A p \in Callers : CallerFits(pc[p], loc[p])'
  BY <1>2, CallerStays
<1>4. StartsFirst'
  BY DEF AckInv, StartsFirst, Idle, At
<1>5. CreateAlone'
  <2>1. ~rec.agentCreated => \A p \in Callers : pc[p] \notin Repairing
    BY DEF AckInv, CallerFits
  <2> QED
    BY <1>2, <2>1 DEF AckInv, CreateAlone
<1> QED
  BY <1>3, <1>4, <1>5 DEF AckInv

\* A step of a caller keeps it if its own place fits, if what it writes leaves
\* the queue its place, and if it starts no repair beside the way of a create.
LEMMA CallerKeeps ==
  ASSUME TypeInv, AckInv, Grows, NEW p \in Callers, OnlyMoves(p), UNCHANGED tasks,
         rec'.creation = rec.creation,
         RecordOK',
         CallerFits(pc[p], loc[p])',
         Creates(pc["queue"], loc["queue"]) => CreateIsFirst',
         pc'[p] \in Repairing =>
           pc[p] \in Repairing \/ ~Creates(pc["queue"], loc["queue"])
  PROVE  AckInv'
<1>1. \A q \in Callers : q \in Procs /\ q # "queue"
  BY DesignServiceAssumption DEF Procs
<1>2. pc'["queue"] = pc["queue"] /\ loc'["queue"] = loc["queue"]
  BY <1>1, QueueIsProc DEF OnlyMoves
<1>3. ASSUME NEW q \in Callers PROVE CallerFits(pc[q], loc[q])'
  <2>1. CASE q = p
    BY <2>1
  <2>2. CASE q # p
    <3>1. pc'[q] = pc[q] /\ loc'[q] = loc[q]
      BY <1>1, <2>2 DEF OnlyMoves
    <3> QED
      BY <3>1, CallerStays
  <2> QED
    BY <2>1, <2>2
<1>4. StartsFirst'
  BY <1>2 DEF AckInv, StartsFirst, Idle, At
<1>5. QueueFits(pc["queue"], loc["queue"])'
  <2>1. QueueFits(pc["queue"], loc["queue"])
    BY DEF AckInv
  <2> QED
    BY <1>2, <2>1 DEF QueueFits, Creates, Grows, Sending
<1>6. CreateAlone'
  BY <1>1, <1>2 DEF AckInv, CreateAlone, OnlyMoves, Creates, Procs
<1> QED
  BY <1>3, <1>4, <1>5, <1>6 DEF AckInv

\* Nothing that RecordOK speaks of changes.
LEMMA RecordStays ==
  ASSUME RecordOK, rec' = rec, agent' = agent, delivered' = delivered, stalled' = stalled
  PROVE  RecordOK' /\ Grows
BY DEF RecordOK, NotAsked, HasAsked, OnlyKickoff, AgentThere, KickedOff, CancelAllowed,
       AckedMeansReceived, IsTerminal, Grows

LEMMA AckInit == Init => AckInv
<1> SUFFICES ASSUME Init
             PROVE  AckInv
  OBVIOUS
<1>1. RecordOK
  BY DEF Init, NewRecord, RecordOK, NotAsked, HasAsked, AgentThere, KickedOff, CancelAllowed,
         AckedMeansReceived
<1>2. StartsFirst
  <2>1. ~rec.creation /\ Idle("queue")
    BY QueueIsProc DEF Init, NewRecord, Idle, At
  <2>2. \A i \in DOMAIN tasks : i = 1
    BY DEF Init
  <2> QED
    BY <2>1, <2>2 DEF StartsFirst
<1>3. pc["queue"] = "idle" /\ loc["queue"] = NoLocals /\ ~rec.creation
  BY QueueIsProc DEF Init, NewRecord
<1>4. "guarded" \notin NoLocals.flag
  BY DEF NoLocals
<1>5. QueueFits("idle", NoLocals) /\ ~Creates("idle", NoLocals)
  BY <1>4 DEF QueueFits, Creates, BeforeCreate, CreateLabels, Deciding, Sending
<1>6. ASSUME NEW p \in Callers PROVE CallerFits(pc[p], loc[p])
  <2>1. pc[p] = "idle" /\ loc[p] = NoLocals
    BY DEF Init, Procs
  <2> QED
    BY <1>4, <2>1 DEF CallerFits, CancelLabels, Repairing, Sending
<1> QED
  BY <1>1, <1>2, <1>3, <1>5, <1>6 DEF AckInv, CreateAlone

-----------------------------------------------------------------------------
(* Steps of the queue that only read. *)

Quiet == UNCHANGED <<rec, tasks, host>>

LEMMA QuietReads == UNCHANGED server /\ Local => Quiet
BY DEF server, Local, Quiet

LEMMA QueueGoes ==
  ASSUME TypeInv, AckInv, Quiet, OnlyMoves("queue"), ~Idle("queue"),
         NEW l, NEW local, pc'["queue"] = l, loc'["queue"] = local,
         QueueFits(l, local),
         Creates(l, local) => Creates(pc["queue"], loc["queue"]) \/ ~rec.agentCreated
  PROVE  AckInv'
<1>1. rec' = rec /\ agent' = agent /\ delivered' = delivered /\ stalled' = stalled
  BY DEF Quiet, host
<1>2. RecordOK' /\ Grows
  BY <1>1, RecordStays DEF AckInv
<1>3. QueueFits(pc["queue"], loc["queue"])'
  BY <1>1 DEF QueueFits, CreateIsFirst, OnlyKickoff
<1>4. UNCHANGED tasks
  BY DEF Quiet
<1> QED
  BY <1>2, <1>3, <1>4, QueueKeeps DEF Creates

LEMMA IdleFits ==
  QueueFits("idle", NoLocals) /\ ~Creates("idle", NoLocals)
BY DEF QueueFits, Creates, BeforeCreate, CreateLabels, Deciding, Sending, NoLocals

LEMMA QueueEnds ==
  ASSUME TypeInv, AckInv, Quiet, ~Idle("queue"), Finish("queue")
  PROVE  AckInv'
BY QueueIsProc, Moves, IdleFits, QueueGoes DEF TypeInv, TypeOK

\* The queue goes on as it is at another place.
LEMMA QueueGoesTo ==
  ASSUME TypeInv, AckInv, Quiet, ~Idle("queue"),
         NEW l, Goto("queue", l), QueueFits(l, loc["queue"]),
         Creates(l, loc["queue"]) => Creates(pc["queue"], loc["queue"]) \/ ~rec.agentCreated
  PROVE  AckInv'
BY QueueIsProc, Moves, QueueGoes DEF TypeInv, TypeOK

LEMMA QueueGoesWith ==
  ASSUME TypeInv, AckInv, Quiet, ~Idle("queue"),
         NEW l, NEW local, GotoWith("queue", l, local), QueueFits(l, local),
         Creates(l, local) => Creates(pc["queue"], loc["queue"]) \/ ~rec.agentCreated
  PROVE  AckInv'
BY QueueIsProc, Moves, QueueGoes DEF TypeInv, TypeOK

LEMMA StartReads ==
  ASSUME TypeInv, AckInv,
         StartRun \/ BeforeIntent \/ AfterIntent \/ CreateFailed \/ CreateLookup
  PROVE  AckInv'
<1> USE QuietReads, QueueGoesTo, QueueGoesWith
<1>q. QueueFits(pc["queue"], loc["queue"])
  BY DEF AckInv
<1> USE DEF QueueFits, Creates, BeforeCreate, CreateLabels, CancelLabels, Deciding, Sending, At,
            Idle
<1>1. CASE StartRun
  BY <1>1, <1>q DEF StartRun
<1>2. CASE BeforeIntent
  BY <1>2, <1>q DEF BeforeIntent
<1>3. CASE AfterIntent
  <2>1. CASE rec.cancelRequested
    BY <1>3, <2>1, <1>q DEF AfterIntent
  <2>2. CASE ~rec.cancelRequested
    <3>1. pc' = [pc EXCEPT !["queue"] = "creating"] /\ UNCHANGED loc
      BY <1>3, <2>2 DEF AfterIntent
    <3>2. OnlyMoves("queue") /\ pc'["queue"] = "creating" /\ loc'["queue"] = loc["queue"]
      BY <3>1, QueueIsProc DEF OnlyMoves, TypeInv, TypeOK, ControlOK
    <3> QED
      BY <1>3, <1>q, <3>2, QueueGoes DEF AfterIntent
  <2> QED
    BY <2>1, <2>2
<1>4. CASE CreateFailed
  <2> DEFINE local == With("queue", Flagged(rec.cancelRequested, "asked"))
  <2>1. /\ local.att = loc["queue"].att
        /\ "guarded" \in local.flag <=> "guarded" \in loc["queue"].flag
    BY QueueIsProc DEF With, Flagged, TypeInv, TypeOK, ControlOK, Locals
  <2> QED
    BY <1>4, <1>q, <2>1 DEF CreateFailed
<1>5. CASE CreateLookup
  BY <1>5, <1>q DEF CreateLookup, Found
<1> QED
  BY <1>1, <1>2, <1>3, <1>4, <1>5

LEMMA ObservingFits ==
  ASSUME TypeInv
  PROVE  /\ Observing(rec).att = rec.attempt
         /\ "guarded" \in Observing(rec).flag <=> "guarded" \in loc["queue"].flag
<1>1. loc["queue"] \in Locals
  BY QueueLocalTyped DEF TypeInv
<1> QED
  BY <1>1 DEF Observing, Flagged, Locals

LEMMA ForgetFits ==
  ASSUME TypeInv, NEW l, NEW n, Forget("queue", l, n)
  PROVE  \E local : /\ GotoWith("queue", l, local)
                    /\ local.att = n /\ local.flag = {}
<1> DEFINE local == [NoLocals EXCEPT !.task = loc["queue"].task, !.att = n]
<1>1. local.att = n /\ local.flag = {}
  BY DEF NoLocals
<1> QED
  BY <1>1 DEF Forget

LEMMA QueueForgets ==
  ASSUME TypeInv, AckInv, Quiet, ~Idle("queue"),
         NEW l \in {"archive", "reconcile", "fail", "park", "correct", "ready", "gap"}, NEW n,
         Forget("queue", l, n),
         ~rec.creation => l \in {"reconcile", "fail"},
         l \in Deciding => rec.agentCreated /\ n \in Attempts
  PROVE  AckInv'
<1>1. PICK local : /\ GotoWith("queue", l, local)
                   /\ local.att = n /\ local.flag = {}
  BY ForgetFits
<1>2. QueueFits(l, local) /\ ~Creates(l, local)
  BY <1>1 DEF QueueFits, Creates, BeforeCreate, CreateLabels, CancelLabels, Deciding, Sending
<1> QED
  BY <1>1, <1>2, QueueGoesWith

LEMMA ReconcileReads ==
  ASSUME TypeInv, AckInv,
         Reconcile \/ ReplayLookup \/ ResumeLookup \/ RecoverSend \/ Observe \/ Look
         \/ Candidate \/ TurnEnded
  PROVE  AckInv'
<1> USE QuietReads, QueueGoesTo, QueueGoesWith, QueueEnds
<1>q. QueueFits(pc["queue"], loc["queue"]) /\ NotAsked /\ HasAsked
  BY DEF AckInv, RecordOK
<1>1. CASE Reconcile
  <2> USE DEF QueueFits, Creates, BeforeCreate, CreateLabels, CancelLabels, Deciding, Sending,
              At, Idle
  <2>1. CASE IsTerminal(rec) /\ Finish("queue")
    BY <1>1, <2>1 DEF Reconcile
  <2>2. CASE ~IsTerminal(rec) /\ CancelPending /\ Goto("queue", "resolve")
    BY <1>1, <1>q, <2>2 DEF Reconcile
  <2>3. ASSUME ~IsTerminal(rec), ~CancelPending, ReconcileLive
        PROVE  AckInv'
    <3>1. "guarded" \notin loc["queue"].flag
      BY <1>1, <1>q DEF Reconcile
    <3>2. CASE ResumeStarting
      BY <1>1, <1>q, <3>1, <3>2 DEF Reconcile, ResumeStarting, NotAsked, HasAsked, CreateIsFirst,
                                     Reconciled
    <3>3. CASE rec.state = "designing" /\ ~rec.agentCreated /\ Goto("queue", "replayLookup")
      BY <1>1, <1>q, <2>3, <3>1, <3>3
         DEF Reconcile, NotAsked, HasAsked, CreateIsFirst, CancelPending,
                                           Terminal
    <3>4. CASE rec.state = "designing" /\ rec.agentCreated
               /\ GotoWith("queue", "observe", Observing(rec))
      BY <1>1, <1>q, <3>1, <3>4, ObservingFits DEF Reconcile, NotAsked, HasAsked, Terminal
    <3>5. CASE rec.state = "fixing" /\ GotoWith("queue", "recoverSend", Observing(rec))
      BY <1>1, <1>q, <3>1, <3>5, ObservingFits DEF Reconcile, NotAsked, HasAsked, Terminal
    <3>6. CASE rec.state = "needs_continue" /\ Unclaimed /\ Goto("queue", "resumeLookup")
      BY <1>1, <1>q, <2>3, <3>1, <3>6
         DEF Reconcile, HasAsked, CreateIsFirst, CancelPending, Unclaimed
    <3>7. CASE Finish("queue")
      BY <1>1, <3>7 DEF Reconcile
    <3> QED
      BY <2>3, <3>2, <3>3, <3>4, <3>5, <3>6, <3>7 DEF ReconcileLive
  <2> QED
    BY <1>1, <2>1, <2>2, <2>3 DEF Reconcile
<1>2. CASE ReplayLookup
  <2> USE DEF QueueFits, Creates, BeforeCreate, CreateLabels, CancelLabels, Deciding, Sending,
              At, Idle
  <2>1. CASE Found /\ Goto("queue", "claim")
    BY <1>2, <1>q, <2>1 DEF ReplayLookup, Found
  <2>2. CASE /\ pc' = [pc EXCEPT !["queue"] = "creating"]
             /\ loc' = [loc EXCEPT !["queue"] = With("queue", {"replay"})]
    <3>1. /\ OnlyMoves("queue") /\ pc'["queue"] = "creating"
          /\ loc'["queue"] = With("queue", {"replay"})
      BY <2>2, QueueIsProc DEF OnlyMoves, TypeInv, TypeOK, ControlOK
    <3>2. "guarded" \in With("queue", {"replay"}).flag <=> "guarded" \in loc["queue"].flag
      BY QueueLocalTyped DEF With, TypeInv, Locals
    <3> QED
      BY <1>2, <1>q, <3>1, <3>2, QueueGoes DEF ReplayLookup
  <2> QED
    BY <1>2, <2>1, <2>2 DEF ReplayLookup
<1>3. CASE ResumeLookup
  <2>1. "guarded" \in With("queue", {"resume"}).flag <=> "guarded" \in loc["queue"].flag
    BY QueueLocalTyped DEF With, TypeInv, Locals
  <2> QED
    BY <1>3, <1>q, <2>1
       DEF ResumeLookup, Found, QueueFits, Creates, BeforeCreate, CreateLabels, CancelLabels,
           Deciding, Sending, At, Idle
<1>4. CASE RecoverSend
  BY <1>4, <1>q DEF RecoverSend, QueueFits, Creates, BeforeCreate, CreateLabels, CancelLabels,
           Deciding, Sending, At, Idle
<1>5. CASE Observe
  <2> DEFINE local ==
        [With("queue", Flagged(~rec.outcomeUnknown /\ rec.ack[rec.attempt] = "acked", "decisive"))
           EXCEPT !.text = rec.attempt]
  <2>1. /\ local.att = loc["queue"].att
        /\ "guarded" \in local.flag <=> "guarded" \in loc["queue"].flag
    BY QueueLocalTyped DEF With, Flagged, TypeInv, Locals
  <2>2. QueueFits("look", local) /\ ~Creates("look", local)
    <3>1. At("queue", "observe")
      BY <1>5 DEF Observe
    <3> HIDE DEF local
    <3> QED
      BY <3>1, <1>q, <2>1 DEF QueueFits, Creates, BeforeCreate, CreateLabels, CancelLabels,
           Deciding, Sending, At
  <2>3. Finish("queue") \/ GotoWith("queue", "look", local)
    BY <1>5 DEF Observe
  <2>4. UNCHANGED server /\ Local /\ ~Idle("queue")
    BY <1>5 DEF Observe, At, Idle
  <2> QED
    BY <2>2, <2>3, <2>4
<1>6. CASE Look
  <2>1. rec.agentCreated /\ rec.creation
    BY <1>6, <1>q DEF Look, QueueFits, Deciding, At, NotAsked
  <2>2. CASE \E n : Forget("queue", "fail", n) \/ Forget("queue", "park", n)
    BY <1>6, <2>1, <2>2, QueueForgets DEF Look, At, Idle, Deciding
  <2>3. CASE Goto("queue", "candidate") \/ Goto("queue", "learn")
    BY <1>6, <1>q, <2>1, <2>3
       DEF Look, QueueFits, Creates, BeforeCreate, CreateLabels, CancelLabels,
           Deciding, Sending, At, Idle
  <2> QED
    BY <1>6, <2>2, <2>3 DEF Look, At, Idle
<1>7. CASE Candidate
  <2>1. rec.agentCreated /\ rec.creation
    BY <1>7, <1>q DEF Candidate, QueueFits, Deciding, At, NotAsked
  <2>2. loc["queue"].att \in Attempts
    BY <1>7, <1>q DEF Candidate, QueueFits, Deciding, At
  <2>3. \E l \in {"park", "fail", "correct", "ready", "gap"} : \E n :
          /\ Forget("queue", l, n)
          /\ l \in {"park", "fail"} \/ n = loc["queue"].att
    BY <1>7 DEF Candidate, HandleFailure
  <2> QED
    BY <1>7, <2>1, <2>2, <2>3, QueueForgets DEF Candidate, At, Idle, Deciding
<1>8. CASE TurnEnded
  <2>1. CASE Finish("queue")
    BY <1>8, <2>1 DEF TurnEnded, At, Idle
  <2>2. CASE rec.state \in Reconciled
    <3>1. rec.creation
      BY <1>q, <2>2 DEF NotAsked, Reconciled, Terminal
    <3>2. CASE \E n : Forget("queue", "archive", n) \/ Forget("queue", "reconcile", n)
      BY <1>8, <3>1, <3>2, QueueForgets DEF TurnEnded, At, Idle, Deciding
    <3>3. CASE Goto("queue", "turnFailed")
      BY <1>8, <1>q, <3>1, <3>3 DEF TurnEnded, QueueFits, Creates, BeforeCreate, CreateLabels,
           CancelLabels, Deciding, Sending, At, Idle
    <3> QED
      BY <1>8, <2>1, <3>2, <3>3 DEF TurnEnded, EndTurn
  <2> QED
    BY <1>8, <2>1, <2>2 DEF TurnEnded
<1> QED
  BY <1>1, <1>2, <1>3, <1>4, <1>5, <1>6, <1>7, <1>8

-----------------------------------------------------------------------------
(* What is written to the record. *)

\* The agent and its prompts stay, or only grow.
HostStays == UNCHANGED <<agent, delivered, stalled>>

\* The record changes, but not what it says of the create and the attempts.
LEMMA RecordChanges ==
  ASSUME TypeInv, RecordOK, HostStays,
         rec'.creation = rec.creation, rec'.agentCreated = rec.agentCreated,
         rec'.attempt = rec.attempt, rec'.ack = rec.ack,
         rec.cancelRequested => rec'.cancelRequested,
         rec'.cancelRequested => rec.cancelRequested \/ MaxCancels > 0 \/ IsTerminal(rec'),
         IsTerminal(rec) => IsTerminal(rec'),
         ~rec.creation => /\ rec'.result = rec.result
                          /\ rec'.state \in {"starting", "canceling"} \cup Terminal,
         rec.creation => rec'.state # "starting",
         rec'.state = "fixing" => rec.state = "fixing"
  PROVE  RecordOK' /\ Grows
BY DEF HostStays, RecordOK, NotAsked, HasAsked, OnlyKickoff, AgentThere, KickedOff, CancelAllowed,
       AckedMeansReceived, IsTerminal, Grows

LEMMA AckedEntry ==
  ASSUME NEW r \in Records, NEW n, NEW a
  PROVE  Acked(r, n, a).ack = [r.ack EXCEPT ![n] = IF r.ack[n] = "none" THEN r.ack[n] ELSE a]
BY DEF Acked, Records

\* An entry is changed for an attempt the agent has received, or as not certain.
LEMMA AckChanges ==
  ASSUME TypeInv, RecordOK, HostStays, NEW n \in Attempts, NEW a,
         rec.creation,
         rec'.creation = rec.creation, rec'.agentCreated = rec.agentCreated,
         rec'.attempt = rec.attempt, rec'.ack = Acked(rec, n, a).ack, a # "none",
         a = "acked" => delivered[n] > 0,
         rec'.cancelRequested = rec.cancelRequested,
         IsTerminal(rec) => IsTerminal(rec'),
         rec'.state # "starting",
         rec'.state = "fixing" => rec.state = "fixing"
  PROVE  RecordOK' /\ Grows
<1>1. rec.ack \in [Attempts -> Acks] /\ rec \in Records
  BY DEF TypeInv, TypeOK, ServerOK, Records
<1>2. \A m \in Attempts : rec'.ack[m] = IF m = n /\ rec.ack[m] # "none" THEN a ELSE rec.ack[m]
  <2>1. rec'.ack = [rec.ack EXCEPT ![n] = IF rec.ack[n] = "none" THEN rec.ack[n] ELSE a]
    BY <1>1, AckedEntry
  <2> QED
    BY <1>1, <2>1
<1>3. 1 \in Attempts
  BY MaxAttemptsAssumption DEF Attempts
<1> QED
  BY <1>2, <1>3
     DEF HostStays, RecordOK, NotAsked, HasAsked, OnlyKickoff, AgentThere, KickedOff, CancelAllowed,
         AckedMeansReceived, IsTerminal, Grows

\* A fresh entry for a correction.
LEMMA PendingFits ==
  ASSUME TypeInv, RecordOK, HostStays, NEW n \in Attempts, n # 1,
         rec.agentCreated,
         rec'.creation = rec.creation, rec'.agentCreated = rec.agentCreated,
         rec'.attempt = n, rec'.ack = Pending(rec, n).ack,
         rec'.cancelRequested = rec.cancelRequested,
         IsTerminal(rec) => IsTerminal(rec'),
         rec'.state = "fixing"
  PROVE  RecordOK' /\ Grows
<1>1. rec.ack \in [Attempts -> Acks] /\ rec \in Records
  BY DEF TypeInv, TypeOK, ServerOK, Records
<1>2. \A m \in Attempts : rec'.ack[m] = IF m = n THEN "pending" ELSE rec.ack[m]
  BY <1>1 DEF Pending, Records
<1>3. 1 \in Attempts
  BY MaxAttemptsAssumption DEF Attempts
<1> QED
  BY <1>2, <1>3
     DEF HostStays, RecordOK, NotAsked, HasAsked, OnlyKickoff, AgentThere, KickedOff, CancelAllowed,
         AckedMeansReceived, IsTerminal, Grows

\* The claim of the agent: the kickoff was received.
LEMMA MarkedFits ==
  ASSUME TypeInv, RecordOK, HostStays, OnlyKickoff, rec.creation, agent # "absent",
         rec' = AgentMarked(rec), Accepts(rec, rec')
  PROVE  RecordOK' /\ Grows /\ OnlyKickoff' /\ rec'.cancelRequested = rec.cancelRequested
<1>1. rec \in Records
  BY DEF TypeInv, TypeOK, ServerOK
<1>2. /\ rec'.creation = rec.creation /\ rec'.agentCreated /\ rec'.attempt = rec.attempt
      /\ rec'.cancelRequested = rec.cancelRequested
      /\ rec'.state \in {"canceling", "designing"}
      /\ \A m \in Attempts : rec'.ack[m] = IF m = rec.attempt /\ rec.ack[m] = "pending"
                                             THEN "acked" ELSE rec.ack[m]
  BY <1>1 DEF AgentMarked, Records
<1>3. 1 \in Attempts
  BY MaxAttemptsAssumption DEF Attempts
<1>4. ~IsTerminal(rec)
  BY <1>2 DEF Accepts, IsTerminal, Terminal
<1>5. OnlyKickoff' /\ delivered'[1] = 1
  BY <1>2 DEF OnlyKickoff, HostStays, RecordOK, KickedOff
<1>6. AckedMeansReceived'
  BY <1>2, <1>5 DEF OnlyKickoff, RecordOK, AckedMeansReceived, HostStays
<1>7. NotAsked' /\ HasAsked' /\ AgentThere' /\ KickedOff' /\ CancelAllowed'
  BY <1>2, <1>3, <1>4, <1>5
     DEF HostStays, RecordOK, NotAsked, HasAsked, OnlyKickoff, AgentThere, KickedOff, CancelAllowed,
         IsTerminal, Terminal
<1> QED
  BY <1>2, <1>5, <1>6, <1>7 DEF RecordOK, Grows, HostStays

-----------------------------------------------------------------------------
(* Steps of the queue that write. *)

LEMMA QueueWritesAndEnds ==
  ASSUME TypeInv, AckInv, UNCHANGED <<tasks, host>>, ~Idle("queue"), RecordOK', Grows,
         Finish("queue")
  PROVE  AckInv'
<1>1. OnlyMoves("queue") /\ pc'["queue"] = "idle" /\ loc'["queue"] = NoLocals
  BY QueueIsProc, Moves DEF TypeInv, TypeOK
<1>2. QueueFits(pc["queue"], loc["queue"])' /\ ~Creates(pc["queue"], loc["queue"])'
  BY <1>1 DEF QueueFits, Creates, BeforeCreate, CreateLabels, Deciding, Sending, NoLocals
<1> QED
  BY <1>1, <1>2, QueueKeeps

LEMMA QueueWritesAndGoes ==
  ASSUME TypeInv, AckInv, UNCHANGED <<tasks, host>>, ~Idle("queue"), RecordOK', Grows,
         NEW l, NEW local,
         GotoWith("queue", l, local) \/ (Goto("queue", l) /\ local = loc["queue"]),
         QueueFits(l, local)',
         Creates(l, local) => Creates(pc["queue"], loc["queue"]) \/ ~rec.agentCreated
  PROVE  AckInv'
<1>1. OnlyMoves("queue") /\ pc'["queue"] = l /\ loc'["queue"] = local
  BY QueueIsProc, Moves DEF TypeInv, TypeOK
<1>2. QueueFits(pc["queue"], loc["queue"])'
  BY <1>1 DEF QueueFits, Creates, CreateIsFirst, OnlyKickoff
<1> QED
  BY <1>1, <1>2, QueueKeeps DEF Creates

LEMMA StartWrites ==
  ASSUME TypeInv, AckInv,
         WriteIntent \/ CreateReturns \/ MarkCreated \/ CreateUnsure \/ ClaimAgent
  PROVE  AckInv'
<1> USE QueueEnds, QueueGoesTo
<1>q. QueueFits(pc["queue"], loc["queue"]) /\ NotAsked /\ HasAsked /\ RecordOK
  BY DEF AckInv, RecordOK
<1>r. rec \in Records /\ rec.ack \in [Attempts -> Acks] /\ 1 \in Attempts
  BY MaxAttemptsAssumption DEF TypeInv, TypeOK, ServerOK, Records, Attempts
<1>1. CASE WriteIntent
  <2>1. /\ At("queue", "intent") /\ ~Idle("queue") /\ ~rec.creation
        /\ UNCHANGED <<tasks, host>>
    BY <1>1, <1>q DEF WriteIntent, At, Idle, QueueFits, BeforeCreate
  <2>2. CASE rec' = rec /\ Finish("queue")
    BY <2>1, <2>2 DEF Quiet
  <2>3. CASE rec' = Intended(rec) /\ Accepts(rec, rec') /\ Goto("queue", "afterIntent")
    <3>1. /\ rec'.creation /\ rec'.attempt = 1 /\ rec'.state = "designing"
          /\ rec'.agentCreated = rec.agentCreated /\ rec'.cancelRequested = rec.cancelRequested
          /\ rec'.ack = [n \in Attempts |-> IF n = 1 THEN "pending" ELSE "none"]
      BY <1>r, <2>3 DEF Intended, Pending, Records
    <3>2. ~IsTerminal(rec)
      BY <2>3, <3>1 DEF Accepts, IsTerminal, Terminal
    <3>3. RecordOK' /\ Grows
      BY <1>q, <1>r, <2>1, <3>1, <3>2
         DEF RecordOK, NotAsked, HasAsked, OnlyKickoff, AgentThere, KickedOff, CancelAllowed,
             AckedMeansReceived, Grows, host
    <3>4. CreateIsFirst'
      BY <1>q, <2>1, <3>1 DEF NotAsked, CreateIsFirst, OnlyKickoff
    <3>5. PICK local : local = loc["queue"]
      OBVIOUS
    <3>6. QueueFits("afterIntent", local)' /\ ~rec.agentCreated
      BY <1>q, <2>1, <2>3, <3>1, <3>4, <3>5
         DEF QueueFits, At, BeforeCreate, Deciding, Sending, NotAsked
    <3> QED
      BY <2>1, <2>3, <3>3, <3>5, <3>6, QueueWritesAndGoes
  <2> QED
    BY <1>1, <2>2, <2>3 DEF WriteIntent, Update, StoreFault
<1>2. CASE CreateReturns
  <2>1. /\ At("queue", "creating") /\ ~Idle("queue") /\ rec.creation /\ rec' = rec
        /\ UNCHANGED tasks
    BY <1>2, <1>q DEF CreateReturns, At, Idle, QueueFits, BeforeCreate, server
  <2>2. CreateIsFirst /\ "guarded" \notin loc["queue"].flag
    BY <1>q, <2>1 DEF At, QueueFits, Creates, CreateLabels, CancelLabels
  <2>3. \/ HostCreates
        \/ agent' = agent /\ delivered' = delivered
    BY <1>2 DEF CreateReturns, host
  <2>4. \/ agent' = agent /\ delivered' = delivered
        \/ /\ agent = "absent" /\ agent' = "running"
           /\ delivered' = [delivered EXCEPT ![1] = @ + 1]
    BY <2>3 DEF HostCreates, host
  <2>5. RecordOK' /\ Grows
    BY <1>q, <1>r, <2>1, <2>4
       DEF RecordOK, NotAsked, HasAsked, OnlyKickoff, AgentThere, KickedOff, CancelAllowed,
           AckedMeansReceived, Grows, TypeInv, TypeOK, HostOK, IsTerminal
  <2>6. \A u \in BOOLEAN :
          "guarded" \notin With("queue", Flagged(u, "unsure")).flag
    BY <2>2, QueueLocalTyped DEF With, Flagged, TypeInv, Locals
  <2>7. PICK l, local :
          /\ GotoWith("queue", l, local) \/ (Goto("queue", l) /\ local = loc["queue"])
          /\ "guarded" \notin local.flag
          /\ l = "createFailed" \/ (l = "mark" /\ HostCreates)
    BY <1>2, <2>2, <2>6 DEF CreateReturns
  <2>8. OnlyMoves("queue") /\ pc'["queue"] = l /\ loc'["queue"] = local
    BY <2>7, QueueIsProc, Moves DEF TypeInv, TypeOK
  <2>9. CreateIsFirst'
    BY <2>1, <2>2 DEF CreateIsFirst, OnlyKickoff
  <2>10. l = "mark" => agent' # "absent"
    BY <2>7 DEF HostCreates, host
  <2>11. QueueFits(pc["queue"], loc["queue"])'
    BY <2>1, <2>7, <2>8, <2>9, <2>10 DEF QueueFits, BeforeCreate, Deciding, Sending
  <2>12. Creates(pc["queue"], loc["queue"])
    BY <2>1 DEF At, Creates, CreateLabels
  <2> QED
    BY <2>1, <2>5, <2>8, <2>11, <2>12, QueueKeeps
<1>3. CASE MarkCreated
  <2>1. /\ At("queue", "mark") /\ ~Idle("queue") /\ rec.creation /\ agent # "absent"
        /\ UNCHANGED <<tasks, host>>
    BY <1>3, <1>q DEF MarkCreated, At, Idle, QueueFits, BeforeCreate, Local
  <2>2. CreateIsFirst /\ "guarded" \notin loc["queue"].flag /\ Creates(pc["queue"], loc["queue"])
    BY <1>q, <2>1 DEF At, QueueFits, Creates, CreateLabels, CancelLabels
  <2>3. CASE rec' = rec /\ Goto("queue", "createFailed")
    <3>1. QueueFits("createFailed", loc["queue"])
      BY <2>1, <2>2 DEF QueueFits, BeforeCreate, Deciding, Sending
    <3> QED
      BY <2>1, <2>2, <2>3, <3>1 DEF Quiet
  <2>4. ASSUME rec' = AgentMarked(rec), Accepts(rec, rec')
        PROVE  RecordOK' /\ Grows /\ OnlyKickoff' /\ rec'.cancelRequested = rec.cancelRequested
    BY <1>q, <2>1, <2>2, <2>4, MarkedFits DEF CreateIsFirst, HostStays, host
  <2>5. CASE /\ rec' = AgentMarked(rec) /\ Accepts(rec, rec') /\ rec.cancelRequested
             /\ GotoWith("queue", "archive", With("queue", {"guarded"}))
    <3>1. rec'.state = "canceling" /\ rec'.cancelRequested /\ rec'.creation
      BY <1>r, <2>1, <2>5 DEF AgentMarked, Records
    <3>2. CreateIsFirst'
      BY <2>4, <2>5, <3>1 DEF CreateIsFirst
    <3>3. PICK local : local = With("queue", {"guarded"})
      OBVIOUS
    <3>4. QueueFits("archive", local)'
      BY <3>1, <3>2 DEF QueueFits, BeforeCreate, Deciding, Sending, CancelLabels
    <3> QED
      BY <2>1, <2>2, <2>4, <2>5, <3>3, <3>4, QueueWritesAndGoes
  <2>6. CASE rec' = AgentMarked(rec) /\ Accepts(rec, rec') /\ Finish("queue")
    BY <2>1, <2>4, <2>6, QueueWritesAndEnds
  <2> QED
    BY <1>3, <2>3, <2>5, <2>6 DEF MarkCreated, Update, StoreFault
<1>4. CASE CreateUnsure
  <2>1. /\ At("queue", "unsure") /\ ~Idle("queue") /\ rec.creation
        /\ UNCHANGED <<tasks, host>>
    BY <1>4, <1>q DEF CreateUnsure, At, Idle, QueueFits, BeforeCreate, Local
  <2>2. CASE rec' = rec /\ Finish("queue")
    BY <2>1, <2>2 DEF Quiet
  <2>3. CASE rec' = Uncertain(rec) /\ Accepts(rec, rec') /\ Finish("queue")
    <3>1. /\ rec'.creation = rec.creation /\ rec'.agentCreated = rec.agentCreated
          /\ rec'.attempt = rec.attempt /\ rec'.ack = rec.ack /\ rec'.state = "needs_continue"
          /\ rec'.cancelRequested = rec.cancelRequested
      BY <1>r, <2>3 DEF Uncertain, Parked, Records
    <3>2. RecordOK' /\ Grows
      BY <1>q, <2>1, <2>3, <3>1, RecordChanges DEF Accepts, HostStays, host
    <3> QED
      BY <2>1, <2>3, <3>2, QueueWritesAndEnds
  <2> QED
    BY <1>4, <2>2, <2>3 DEF CreateUnsure, Update, StoreFault
<1>5. CASE ClaimAgent
  <2>1. /\ At("queue", "claim") /\ ~Idle("queue") /\ rec.creation /\ agent # "absent"
        /\ UNCHANGED <<tasks, host>>
    BY <1>5, <1>q DEF ClaimAgent, At, Idle, QueueFits, BeforeCreate, Local
  <2>2. CreateIsFirst /\ "guarded" \notin loc["queue"].flag
    BY <1>q, <2>1 DEF At, QueueFits, Creates, CreateLabels, CancelLabels
  <2>3. CASE rec' = rec /\ Finish("queue")
    BY <2>1, <2>3 DEF Quiet
  <2>4. ASSUME rec' = AgentMarked(rec), Accepts(rec, rec')
        PROVE  RecordOK' /\ Grows /\ rec'.creation /\ rec'.agentCreated
    BY <1>q, <1>r, <2>1, <2>2, <2>4, MarkedFits
       DEF CreateIsFirst, HostStays, host, AgentMarked, Records, Grows
  <2>5. CASE rec' = AgentMarked(rec) /\ Accepts(rec, rec') /\ Goto("queue", "archive")
    <3>1. PICK local : local = loc["queue"]
      OBVIOUS
    <3>2. QueueFits("archive", local)' /\ ~Creates("archive", local)
      BY <2>2, <2>4, <2>5, <3>1
         DEF QueueFits, Creates, CreateLabels, BeforeCreate, Deciding, Sending, CancelLabels
    <3> QED
      BY <2>1, <2>4, <2>5, <3>1, <3>2, QueueWritesAndGoes
  <2>6. CASE /\ rec' = AgentMarked(rec) /\ Accepts(rec, rec')
             /\ GotoWith("queue", "observe", Observing(rec))
    <3>1. PICK local : local = Observing(rec)
      OBVIOUS
    <3>2. local.att \in Attempts /\ "guarded" \notin local.flag
      BY <1>q, <2>1, <2>2, <3>1, ObservingFits DEF HasAsked
    <3>3. QueueFits("observe", local)' /\ ~Creates("observe", local)
      BY <2>4, <2>6, <3>2
         DEF QueueFits, Creates, CreateLabels, BeforeCreate, Deciding, Sending, CancelLabels
    <3> QED
      BY <2>1, <2>4, <2>6, <3>1, <3>3, QueueWritesAndGoes
  <2>7. CASE rec' = AgentMarked(rec) /\ Accepts(rec, rec') /\ Finish("queue")
    BY <2>1, <2>4, <2>7, QueueWritesAndEnds
  <2> QED
    BY <1>5, <2>3, <2>5, <2>6, <2>7 DEF ClaimAgent, Update, StoreFault
<1> QED
  BY <1>1, <1>2, <1>3, <1>4, <1>5

LEMMA ReconcileWrites ==
  ASSUME TypeInv, AckInv,
         SendEchoed \/ SendTimedOut \/ LearnTurn \/ WriteReady \/ WriteGap \/ WriteCorrection
         \/ TurnFailed
  PROVE  AckInv'
<1> USE QueueEnds, QueueGoesTo
<1>q. QueueFits(pc["queue"], loc["queue"]) /\ NotAsked /\ HasAsked /\ RecordOK
  BY DEF AckInv, RecordOK
<1>r. rec \in Records /\ rec.ack \in [Attempts -> Acks] /\ 1 \in Attempts
  BY MaxAttemptsAssumption DEF TypeInv, TypeOK, ServerOK, Records, Attempts
<1> DEFINE n == loc["queue"].att
<1>1. CASE SendEchoed
  <2>1. /\ At("queue", "echoed") /\ ~Idle("queue") /\ rec.creation /\ n \in Attempts
        /\ delivered[n] > 0 /\ UNCHANGED <<tasks, host>>
    BY <1>1, <1>q DEF SendEchoed, At, Idle, QueueFits, BeforeCreate, Local
  <2>2. CASE rec' = rec /\ Finish("queue")
    BY <2>1, <2>2 DEF Quiet
  <2>3. CASE rec' = Echoed(rec, n) /\ Accepts(rec, rec') /\ Finish("queue")
    <3>1. /\ rec'.creation = rec.creation /\ rec'.agentCreated = rec.agentCreated
          /\ rec'.attempt = rec.attempt /\ rec'.ack = Acked(rec, n, "acked").ack
          /\ rec'.state = IF rec.state = "fixing" THEN "designing" ELSE rec.state
          /\ rec'.cancelRequested = rec.cancelRequested
      BY <1>r, <2>3 DEF Echoed, Acked, Records
    <3>2. rec'.state # "starting" /\ rec'.state # "fixing"
      BY <1>q, <2>1, <3>1 DEF HasAsked
    <3>3. RecordOK' /\ Grows
      BY <1>q, <2>1, <2>3, <3>1, <3>2, AckChanges DEF Accepts, HostStays, host
    <3> QED
      BY <2>1, <2>3, <3>3, QueueWritesAndEnds
  <2> QED
    BY <1>1, <2>2, <2>3 DEF SendEchoed, Update, StoreFault
<1>2. CASE SendTimedOut \/ TurnFailed
  <2>1. /\ ~Idle("queue") /\ rec.creation
        /\ UNCHANGED <<tasks, host>>
    BY <1>2, <1>q DEF SendTimedOut, TurnFailed, At, Idle, QueueFits, BeforeCreate, Local
  <2>2. CASE rec' = rec /\ Finish("queue")
    BY <2>1, <2>2 DEF Quiet
  <2>3. CASE /\ rec' = Uncertain(rec) \/ rec' = Failed(rec)
             /\ Accepts(rec, rec') /\ Finish("queue")
    <3>1. /\ rec'.creation = rec.creation /\ rec'.agentCreated = rec.agentCreated
          /\ rec'.attempt = rec.attempt /\ rec'.ack = rec.ack
          /\ rec'.state \in {"needs_continue", "failed"}
          /\ rec'.cancelRequested = rec.cancelRequested
      BY <1>r, <2>3 DEF Uncertain, Parked, Failed, Records
    <3>2. RecordOK' /\ Grows
      BY <1>q, <2>1, <2>3, <3>1, RecordChanges DEF Accepts, HostStays, host
    <3> QED
      BY <2>1, <2>3, <3>2, QueueWritesAndEnds
  <2> QED
    BY <1>2, <2>2, <2>3 DEF SendTimedOut, TurnFailed, Update, StoreFault
<1>3. CASE LearnTurn
  <2>1. /\ At("queue", "learn") /\ ~Idle("queue") /\ rec.creation /\ rec.agentCreated
        /\ "guarded" \notin loc["queue"].flag /\ UNCHANGED <<tasks, host>>
    BY <1>3, <1>q DEF LearnTurn, At, Idle, QueueFits, BeforeCreate, Deciding, CancelLabels, Local
  <2> DEFINE next == [rec EXCEPT !.turnKnown = [@ EXCEPT ![n] = rec.ack[n] # "none"]]
             l == [loc["queue"] EXCEPT !.att = rec.attempt]
  <2>2. CASE rec' = rec /\ Finish("queue")
    BY <2>1, <2>2 DEF Quiet
  <2>3. ASSUME rec' = next
        PROVE  RecordOK' /\ Grows /\ rec'.creation /\ rec'.agentCreated
    <3>1. /\ rec'.creation = rec.creation /\ rec'.agentCreated = rec.agentCreated
          /\ rec'.attempt = rec.attempt /\ rec'.ack = rec.ack /\ rec'.state = rec.state
          /\ rec'.cancelRequested = rec.cancelRequested
      BY <1>r, <2>3 DEF Records
    <3> QED
      BY <1>q, <2>1, <3>1, RecordChanges DEF HostStays, host, HasAsked, IsTerminal
  <2>4. CASE rec' = next /\ Finish("queue")
    BY <2>1, <2>3, <2>4, QueueWritesAndEnds
  <2>5. CASE rec' = next /\ GotoWith("queue", "candidate", l)
    <3>1. PICK local : local = l
      OBVIOUS
    <3>2. local.att \in Attempts /\ "guarded" \notin local.flag
      BY <1>q, <2>1, <3>1, QueueLocalTyped DEF HasAsked, TypeInv, Locals
    <3>3. rec'.creation /\ rec'.agentCreated /\ RecordOK' /\ Grows
      BY <2>3, <2>5
    <3>4. QueueFits("candidate", local)' /\ ~Creates("candidate", local)
      BY <3>2, <3>3
         DEF QueueFits, Creates, CreateLabels, BeforeCreate, Deciding, Sending, CancelLabels
    <3> QED
      BY <2>1, <2>5, <3>1, <3>3, <3>4, QueueWritesAndGoes
  <2> QED
    BY <1>3, <2>2, <2>4, <2>5 DEF LearnTurn, Update, StoreFault
<1>4. CASE WriteReady \/ WriteGap
  <2>1. /\ ~Idle("queue") /\ rec.creation /\ rec.agentCreated /\ n \in Attempts
        /\ UNCHANGED <<tasks, host>>
    BY <1>4, <1>q DEF WriteReady, WriteGap, At, Idle, QueueFits, BeforeCreate, Deciding, Local
  <2>2. CASE rec' = rec /\ Finish("queue")
    BY <2>1, <2>2 DEF Quiet
  <2>3. CASE /\ rec' = Ready(rec, n) \/ rec' = GapReported(rec, n)
             /\ Accepts(rec, rec') /\ Finish("queue")
    <3>1. /\ rec'.creation = rec.creation /\ rec'.agentCreated = rec.agentCreated
          /\ rec'.attempt = n /\ rec'.ack = rec.ack
          /\ rec'.state \in {"ready", "failed"}
          /\ rec'.cancelRequested = rec.cancelRequested
      BY <1>r, <2>3 DEF Ready, GapReported, Records
    <3>2. IsTerminal(rec) => IsTerminal(rec')
      BY <2>3 DEF Accepts
    <3>3. RecordOK' /\ Grows
      BY <1>q, <2>1, <3>1, <3>2
         DEF host, RecordOK, NotAsked, HasAsked, OnlyKickoff, AgentThere, KickedOff, CancelAllowed,
             AckedMeansReceived, Grows, IsTerminal
    <3> QED
      BY <2>1, <2>3, <3>3, QueueWritesAndEnds
  <2> QED
    BY <1>4, <2>2, <2>3 DEF WriteReady, WriteGap, Update, StoreFault, server
<1>5. CASE WriteCorrection
  <2>1. /\ At("queue", "correct") /\ ~Idle("queue") /\ rec.creation /\ rec.agentCreated
        /\ n \in Attempts /\ "guarded" \notin loc["queue"].flag /\ UNCHANGED <<tasks, host>>
    BY <1>5, <1>q DEF WriteCorrection, At, Idle, QueueFits, BeforeCreate, Deciding, CancelLabels
  <2>2. n + 1 \in Attempts /\ n + 1 # 1
    BY <2>1, MaxAttemptsAssumption DEF TypeInv, RoundLeft, At, Attempts
  <2>3. CASE rec' = rec /\ Finish("queue")
    BY <2>1, <2>3 DEF Quiet
  <2>4. CASE /\ rec' = Correcting(rec, n + 1) /\ Accepts(rec, rec')
             /\ GotoWith("queue", "sending", [loc["queue"] EXCEPT !.att = n + 1])
    <3>1. /\ rec'.creation = rec.creation /\ rec'.agentCreated = rec.agentCreated
          /\ rec'.attempt = n + 1 /\ rec'.ack = Pending(rec, n + 1).ack
          /\ rec'.state = "fixing" /\ rec'.cancelRequested = rec.cancelRequested
      BY <1>r, <2>4 DEF Correcting, Pending, Records
    <3>2. RecordOK' /\ Grows
      BY <1>q, <2>1, <2>2, <2>4, <3>1, PendingFits DEF Accepts, HostStays, host
    <3>3. PICK local : local = [loc["queue"] EXCEPT !.att = n + 1]
      OBVIOUS
    <3>4. local.att \in Attempts /\ local.att # 1 /\ "guarded" \notin local.flag
      BY <2>1, <2>2, <3>3, QueueLocalTyped DEF TypeInv, Locals
    <3>5. QueueFits("sending", local)' /\ ~Creates("sending", local)
      BY <2>1, <3>1, <3>4
         DEF QueueFits, Creates, CreateLabels, BeforeCreate, Deciding, Sending, CancelLabels
    <3> QED
      BY <2>1, <2>4, <3>2, <3>3, <3>5, QueueWritesAndGoes
  <2> QED
    BY <1>5, <2>3, <2>4 DEF WriteCorrection, Update, StoreFault
<1> QED
  BY <1>1, <1>2, <1>3, <1>4, <1>5

-----------------------------------------------------------------------------
(* Sending and cancelling, by the queue or by a caller.  First what such a  *)
(* step does to the record and the agent.                                   *)

LEMMA SendFits ==
  ASSUME TypeInv, RecordOK, NEW n \in Attempts, n # 1, rec.creation, rec.agentCreated,
         rec' = rec, HostReceives(n)
  PROVE  RecordOK' /\ Grows /\ delivered'[n] > 0 /\ agent' # "absent"
<1>1. delivered \in [Attempts -> Nat] /\ 1 \in Attempts
  BY MaxAttemptsAssumption DEF TypeInv, TypeOK, HostOK, Attempts
<1>2. /\ agent # "absent" /\ agent' # "absent"
      /\ delivered'[n] = delivered[n] + 1
      /\ \A m \in Attempts : m # n => delivered'[m] = delivered[m]
  BY <1>1 DEF HostReceives
<1>3. delivered'[n] > 0
  BY <1>1, <1>2
<1> QED
  BY <1>1, <1>2, <1>3
     DEF RecordOK, NotAsked, HasAsked, OnlyKickoff, AgentThere, KickedOff, CancelAllowed,
         AckedMeansReceived, Grows, IsTerminal

LEMMA SentFits ==
  ASSUME TypeInv, RecordOK, HostStays, NEW n \in Attempts, rec.creation, Accepts(rec, rec'),
         \/ rec' = Designing(rec, n) /\ delivered[n] > 0
         \/ rec' = SendUncertain(rec, n)
  PROVE  RecordOK' /\ Grows
<1>r. rec \in Records
  BY DEF TypeInv, TypeOK, ServerOK
<1>1. CASE rec' = Designing(rec, n) /\ delivered[n] > 0
  <2>1. /\ rec'.creation = rec.creation /\ rec'.agentCreated = rec.agentCreated
        /\ rec'.attempt = rec.attempt /\ rec'.ack = Acked(rec, n, "acked").ack
        /\ rec'.state = "designing" /\ rec'.cancelRequested = rec.cancelRequested
    BY <1>r, <1>1 DEF Designing, Acked, Records
  <2> QED
    BY <1>1, <2>1, AckChanges DEF Accepts
<1>2. CASE rec' = SendUncertain(rec, n)
  <2>1. /\ rec'.creation = rec.creation /\ rec'.agentCreated = rec.agentCreated
        /\ rec'.attempt = rec.attempt /\ rec'.ack = Acked(rec, n, "unknown").ack
        /\ rec'.state = "needs_continue" /\ rec'.cancelRequested = rec.cancelRequested
    BY <1>r, <1>2 DEF SendUncertain, Uncertain, Parked, Acked, Records
  <2> QED
    BY <1>2, <2>1, AckChanges DEF Accepts
<1> QED
  BY <1>1, <1>2

LEMMA EndedFits ==
  ASSUME TypeInv, RecordOK, HostStays, Accepts(rec, rec'),
         \/ rec' = Failed(rec)
         \/ rec' = Parked(rec) /\ rec.creation
         \/ rec' = Canceled(rec)
  PROVE  /\ RecordOK' /\ Grows
         /\ rec'.creation = rec.creation /\ rec'.agentCreated = rec.agentCreated
         /\ rec'.attempt = rec.attempt /\ rec'.ack = rec.ack
         /\ rec'.cancelRequested = (rec.cancelRequested \/ rec' = Canceled(rec))
         /\ rec'.state \in {"failed", "needs_continue", "canceled"}
         /\ rec'.state = "needs_continue" => rec' = Parked(rec)
<1>r. rec \in Records
  BY DEF TypeInv, TypeOK, ServerOK
<1>1. /\ rec'.creation = rec.creation /\ rec'.agentCreated = rec.agentCreated
      /\ rec'.attempt = rec.attempt /\ rec'.ack = rec.ack /\ rec'.result = rec.result
      /\ rec'.state \in {"failed", "needs_continue", "canceled"}
      /\ rec'.cancelRequested = (rec.cancelRequested \/ rec' = Canceled(rec))
      /\ rec'.state = "needs_continue" => rec' = Parked(rec)
      /\ rec' = Canceled(rec) => rec'.state = "canceled"
      /\ ~rec.creation => rec'.state \in {"failed", "canceled"}
  BY <1>r DEF Failed, Parked, Canceled, Records
<1>2. /\ {"failed", "canceled"} \subseteq Terminal
      /\ rec'.state = "canceled" => IsTerminal(rec')
  BY DEF Terminal, IsTerminal
<1>3. RecordOK' /\ Grows
  BY <1>1, <1>2, RecordChanges DEF Accepts
<1> QED
  BY <1>1, <1>3

LEMMA AdoptFits ==
  ASSUME TypeInv, RecordOK, HostStays, rec.creation, agent # "absent",
         rec' = [rec EXCEPT !.agentCreated = TRUE]
  PROVE  /\ RecordOK' /\ Grows
         /\ rec'.creation = rec.creation /\ rec'.agentCreated
         /\ rec'.attempt = rec.attempt /\ rec'.ack = rec.ack
         /\ rec'.state = rec.state /\ rec'.cancelRequested = rec.cancelRequested
<1>1. /\ rec'.creation = rec.creation /\ rec'.agentCreated
      /\ rec'.attempt = rec.attempt /\ rec'.ack = rec.ack
      /\ rec'.state = rec.state /\ rec'.cancelRequested = rec.cancelRequested
  BY DEF TypeInv, TypeOK, ServerOK, Records
<1> QED
  BY <1>1 DEF HostStays, RecordOK, NotAsked, HasAsked, OnlyKickoff, AgentThere, KickedOff,
              CancelAllowed, AckedMeansReceived, IsTerminal, Grows

\* The agent is archived.
LEMMA ArchivedFits ==
  ASSUME TypeInv, RecordOK, rec' = rec,
         agent' = IF agent = "absent" THEN agent ELSE "archived",
         delivered' = delivered, stalled' = stalled
  PROVE  RecordOK' /\ Grows
BY DEF RecordOK, NotAsked, HasAsked, OnlyKickoff, AgentThere, KickedOff, CancelAllowed,
       AckedMeansReceived, IsTerminal, Grows

LEMMA QueueShares ==
  ASSUME TypeInv, AckInv, SharedStep("queue")
  PROVE  AckInv'
<1> USE QuietReads, QueueEnds, QueueGoesTo, QueueIsProc
<1>q. QueueFits(pc["queue"], loc["queue"]) /\ NotAsked /\ HasAsked /\ RecordOK
  BY DEF AckInv, RecordOK
<1>r. rec \in Records /\ rec.ack \in [Attempts -> Acks] /\ 1 \in Attempts
  BY MaxAttemptsAssumption DEF TypeInv, TypeOK, ServerOK, Records, Attempts
<1> DEFINE n == loc["queue"].att
\* A place on the way of a cancel fits as the last one did.
<1>c. ASSUME NEW l \in CancelLabels, pc["queue"] \in CancelLabels,
             rec.creation \/ l = "cancelWrite",
             l \in {"adopt", "archiving"} => agent # "absent"
      PROVE  /\ QueueFits(l, loc["queue"])
             /\ Creates(l, loc["queue"]) => Creates(pc["queue"], loc["queue"])
  BY <1>c, <1>q DEF QueueFits, Creates, CreateLabels, BeforeCreate, Deciding, Sending, CancelLabels
<1>1. CASE SendReturns("queue")
  <2>1. /\ At("queue", "sending") /\ ~Idle("queue") /\ rec.creation /\ rec.agentCreated
        /\ "guarded" \notin loc["queue"].flag /\ n \in Attempts /\ n # 1
        /\ rec' = rec /\ UNCHANGED tasks
    BY <1>1, <1>q DEF SendReturns, At, Idle, QueueFits, BeforeCreate, Sending, CancelLabels, server
  <2>2. PICK l \in {"sent", "sendUnknown"} :
          /\ Goto("queue", l)
          /\ HostReceives(n) \/ (l = "sendUnknown" /\ UNCHANGED host)
    BY <1>1 DEF SendReturns
  <2>3. OnlyMoves("queue") /\ pc'["queue"] = l /\ loc'["queue"] = loc["queue"]
    BY <2>2, Moves DEF TypeInv, TypeOK
  <2>4. RecordOK' /\ Grows /\ (l = "sent" => delivered'[n] > 0)
    <3>1. CASE HostReceives(n)
      BY <1>q, <2>1, <3>1, SendFits
    <3>2. CASE l = "sendUnknown" /\ UNCHANGED host
      BY <1>q, <2>1, <3>2, RecordStays DEF host
    <3> QED
      BY <2>2, <3>1, <3>2
  <2>5. QueueFits(pc["queue"], loc["queue"])' /\ ~Creates(pc["queue"], loc["queue"])'
    BY <2>1, <2>2, <2>3, <2>4
       DEF QueueFits, Creates, CreateLabels, BeforeCreate, Deciding, Sending, CancelLabels
  <2> QED
    BY <2>1, <2>3, <2>4, <2>5, QueueKeeps
<1>2. CASE Sent("queue") \/ SendUnknown("queue")
  <2>1. /\ ~Idle("queue") /\ rec.creation /\ rec.agentCreated
        /\ "guarded" \notin loc["queue"].flag /\ n \in Attempts /\ n # 1
        /\ Sent("queue") => delivered[n] > 0
        /\ UNCHANGED <<tasks, host>>
    BY <1>2, <1>q DEF Sent, SendUnknown, At, Idle, QueueFits, BeforeCreate, Sending, CancelLabels,
                      Local
  <2>2. CASE rec' = rec /\ Finish("queue")
    BY <2>1, <2>2 DEF Quiet
  <2>3. CASE rec' = rec /\ Goto("queue", "sendUnknown")
    <3>1. QueueFits("sendUnknown", loc["queue"]) /\ ~Creates("sendUnknown", loc["queue"])
      BY <2>1 DEF QueueFits, Creates, CreateLabels, BeforeCreate, Deciding, Sending, CancelLabels
    <3> QED
      BY <2>1, <2>3, <3>1 DEF Quiet
  <2>4. CASE /\ \/ rec' = Designing(rec, n) /\ Sent("queue")
                \/ rec' = SendUncertain(rec, n)
             /\ Accepts(rec, rec') /\ Finish("queue")
    <3>1. RecordOK' /\ Grows
      BY <1>q, <2>1, <2>4, SentFits DEF HostStays, host
    <3> QED
      BY <2>1, <2>4, <3>1, QueueWritesAndEnds
  <2> QED
    BY <1>2, <2>2, <2>3, <2>4 DEF Sent, SendUnknown, Update, StoreFault
<1>3. CASE Fail("queue")
  <2>1. ~Idle("queue") /\ UNCHANGED <<tasks, host>>
    BY <1>3 DEF Fail, At, Idle, Local
  <2>2. CASE rec' = rec /\ Finish("queue")
    BY <2>1, <2>2 DEF Quiet
  <2>3. CASE rec' = Failed(rec) /\ Accepts(rec, rec') /\ Finish("queue")
    BY <1>q, <2>1, <2>3, EndedFits, QueueWritesAndEnds DEF HostStays, host
  <2> QED
    BY <1>3, <2>2, <2>3 DEF Fail, Update, StoreFault
<1>4. CASE Park("queue") \/ CancelWrite("queue")
  <2>1. /\ ~Idle("queue") /\ pc["queue"] \in CancelLabels /\ UNCHANGED <<tasks, host>>
        /\ Park("queue") => rec.creation
    BY <1>4, <1>q DEF Park, CancelWrite, At, Idle, QueueFits, BeforeCreate, CancelLabels, Local
  <2>2. CASE rec' = rec /\ Throw("queue")
    <3>1. CASE "guarded" \notin loc["queue"].flag
      <4>1. Finish("queue")
        BY <2>2, <3>1 DEF Throw, Has
      <4> QED
        BY <2>1, <2>2, <4>1 DEF Quiet
    <3>2. CASE "guarded" \in loc["queue"].flag
      <4>1. /\ OnlyMoves("queue") /\ pc'["queue"] = "createFailed"
            /\ "guarded" \notin loc'["queue"].flag
        BY <2>2, <3>2, Throws DEF TypeInv, TypeOK
      <4>2. CreateIsFirst /\ rec.creation
        BY <1>q, <3>2 DEF QueueFits, Creates
      <4>3. PICK local : local = loc'["queue"]
        OBVIOUS
      <4>4. QueueFits("createFailed", local)
        BY <4>1, <4>2, <4>3 DEF QueueFits, BeforeCreate, Deciding, Sending
      <4> QED
        BY <2>1, <2>2, <3>2, <4>1, <4>3, <4>4, QueueGoes DEF Quiet, Creates
    <3> QED
      BY <3>1, <3>2
  <2>3. CASE /\ \/ rec' = Parked(rec) /\ Park("queue")
                \/ rec' = Canceled(rec)
             /\ Accepts(rec, rec') /\ Finish("queue")
    BY <1>q, <2>1, <2>3, EndedFits, QueueWritesAndEnds DEF HostStays, host
  <2> QED
    BY <1>4, <2>2, <2>3 DEF Park, CancelWrite, Update, StoreFault
<1>5. CASE Resolve("queue") \/ CancelLookup("queue") \/ Archive("queue")
  <2>1. Quiet /\ ~Idle("queue") /\ pc["queue"] \in CancelLabels
    BY <1>5 DEF Resolve, CancelLookup, Archive, At, Idle, CancelLabels
  <2>2. CASE Finish("queue")
    BY <2>1, <2>2
  <2>3. CASE \E l \in CancelLabels : /\ Goto("queue", l)
                                     /\ rec.creation \/ l = "cancelWrite"
                                     /\ l \in {"adopt", "archiving"} => agent # "absent"
    BY <1>c, <2>1, <2>3
  <2>4. rec.agentCreated => rec.creation /\ agent # "absent"
    BY <1>q DEF NotAsked, RecordOK, AgentThere
  <2>5. CASE Resolve("queue") \/ Archive("queue")
    BY <2>2, <2>3, <2>4, <2>5 DEF Resolve, Archive, CancelLabels
  <2>6. CASE CancelLookup("queue")
    <3>1. rec.creation
      BY <1>q, <2>6 DEF CancelLookup, At, QueueFits, BeforeCreate
    <3> QED
      BY <2>3, <2>6, <3>1 DEF CancelLookup, CancelLabels
  <2> QED
    BY <1>5, <2>5, <2>6
<1>6. CASE Adopt("queue")
  <2>1. /\ ~Idle("queue") /\ pc["queue"] = "adopt" /\ UNCHANGED <<tasks, host>>
        /\ rec.creation /\ agent # "absent"
    BY <1>6, <1>q DEF Adopt, At, Idle, QueueFits, BeforeCreate, Local
  <2>2. CASE rec' = rec /\ Finish("queue")
    BY <2>1, <2>2 DEF Quiet
  <2>3. CASE rec' = [rec EXCEPT !.agentCreated = TRUE] /\ Goto("queue", "archive")
    <3>1. /\ RecordOK' /\ Grows
          /\ rec'.creation = rec.creation /\ rec'.agentCreated
          /\ rec'.attempt = rec.attempt /\ rec'.ack = rec.ack
          /\ rec'.state = rec.state /\ rec'.cancelRequested = rec.cancelRequested
      BY <1>q, <2>1, <2>3, AdoptFits DEF HostStays, host
    <3>2. PICK local : local = loc["queue"]
      OBVIOUS
    <3>3. Creates("archive", local) => CreateIsFirst' /\ rec.cancelRequested
      BY <1>q, <2>1, <3>1, <3>2
         DEF QueueFits, Creates, CreateLabels, BeforeCreate, CreateIsFirst, OnlyKickoff
    <3>4. QueueFits("archive", local)'
      BY <1>q, <2>1, <3>1, <3>2, <3>3
         DEF QueueFits, Creates, CreateLabels, BeforeCreate, Deciding, Sending, CancelLabels
    <3>5. Creates("archive", local) => Creates(pc["queue"], loc["queue"])
      BY <3>2 DEF Creates, CreateLabels, BeforeCreate
    <3> QED
      BY <2>1, <2>3, <3>1, <3>2, <3>4, <3>5, QueueWritesAndGoes
  <2> QED
    BY <1>6, <2>2, <2>3 DEF Adopt, Update, StoreFault
<1>7. CASE ArchiveReturns("queue")
  <2>1. /\ ~Idle("queue") /\ pc["queue"] = "archiving" /\ UNCHANGED tasks
        /\ rec.creation /\ rec' = rec
    BY <1>7, <1>q DEF ArchiveReturns, At, Idle, QueueFits, BeforeCreate, server
  <2>2. PICK l \in {"cancelWrite", "park"} : Goto("queue", l)
    BY <1>7 DEF ArchiveReturns
  <2>3. OnlyMoves("queue") /\ pc'["queue"] = l /\ loc'["queue"] = loc["queue"]
    BY <2>2, Moves DEF TypeInv, TypeOK
  <2>4. RecordOK' /\ Grows
    BY <1>7, <1>q, <2>1, ArchivedFits, RecordStays DEF ArchiveReturns, host
  <2>5. /\ QueueFits(l, loc["queue"])
        /\ Creates(l, loc["queue"]) => Creates(pc["queue"], loc["queue"])
    BY <1>c, <2>1 DEF CancelLabels
  <2>6. QueueFits(pc["queue"], loc["queue"])'
    BY <2>1, <2>2, <2>3, <2>5
       DEF QueueFits, Creates, CreateIsFirst, OnlyKickoff, BeforeCreate, Deciding, Sending
  <2>7. Creates(pc["queue"], loc["queue"])' => Creates(pc["queue"], loc["queue"])
    BY <2>3, <2>5 DEF Creates
  <2> QED
    BY <2>1, <2>3, <2>4, <2>6, <2>7, QueueKeeps
<1> QED
  BY <1>1, <1>2, <1>3, <1>4, <1>5, <1>6, <1>7 DEF SharedStep

-----------------------------------------------------------------------------
(* The callers. *)

LEMMA CallerIsProc ==
  ASSUME NEW p \in Callers
  PROVE  p \in Procs /\ p # "queue"
BY DesignServiceAssumption DEF Procs

\* A caller goes on and the record stays.
LEMMA CallerGoes ==
  ASSUME TypeInv, AckInv, Quiet, NEW p \in Callers, OnlyMoves(p),
         NEW l, NEW local, pc'[p] = l, loc'[p] = local, CallerFits(l, local),
         l \in Repairing => pc[p] \in Repairing \/ ~Creates(pc["queue"], loc["queue"])
  PROVE  AckInv'
<1>1. rec' = rec /\ agent' = agent /\ delivered' = delivered /\ stalled' = stalled
  BY DEF Quiet, host
<1>2. RecordOK' /\ Grows
  BY <1>1, RecordStays DEF AckInv
<1>3. CallerFits(pc[p], loc[p])'
  BY <1>1 DEF CallerFits
<1>4. Creates(pc["queue"], loc["queue"]) => CreateIsFirst'
  BY <1>1 DEF AckInv, QueueFits, CreateIsFirst, OnlyKickoff
<1>5. rec'.creation = rec.creation /\ UNCHANGED tasks
  BY <1>1 DEF Quiet
<1> QED
  BY <1>2, <1>3, <1>4, <1>5, CallerKeeps

LEMMA CallerEnds ==
  ASSUME TypeInv, AckInv, Quiet, NEW p \in Callers, Finish(p)
  PROVE  AckInv'
<1>1. CallerFits("idle", NoLocals)
  BY DEF CallerFits, CancelLabels, Repairing, Sending, NoLocals
<1> QED
  BY <1>1, CallerIsProc, Moves, CallerGoes DEF TypeInv, TypeOK, Repairing, Sending

LEMMA CallerGoesTo ==
  ASSUME TypeInv, AckInv, Quiet, NEW p \in Callers,
         NEW l, Goto(p, l), CallerFits(l, loc[p]),
         l \in Repairing => pc[p] \in Repairing
  PROVE  AckInv'
BY CallerIsProc, Moves, CallerGoes DEF TypeInv, TypeOK

\* A caller writes and ends.
LEMMA CallerWritesAndEnds ==
  ASSUME TypeInv, AckInv, UNCHANGED <<tasks, host>>, NEW p \in Callers, Finish(p),
         RecordOK', Grows, rec'.creation = rec.creation,
         Creates(pc["queue"], loc["queue"]) => CreateIsFirst'
  PROVE  AckInv'
<1>1. OnlyMoves(p) /\ pc'[p] = "idle" /\ loc'[p] = NoLocals
  BY CallerIsProc, Moves DEF TypeInv, TypeOK
<1>2. CallerFits(pc[p], loc[p])'
  BY <1>1 DEF CallerFits, CancelLabels, Repairing, Sending, NoLocals
<1> QED
  BY <1>1, <1>2, CallerKeeps DEF Repairing, Sending

LEMMA CallerWritesAndGoes ==
  ASSUME TypeInv, AckInv, UNCHANGED <<tasks, host>>, NEW p \in Callers, NEW l, NEW local,
         Goto(p, l), local = loc[p],
         RecordOK', Grows, rec'.creation = rec.creation,
         Creates(pc["queue"], loc["queue"]) => CreateIsFirst',
         CallerFits(l, local)',
         l \in Repairing => pc[p] \in Repairing
  PROVE  AckInv'
<1>1. OnlyMoves(p) /\ pc'[p] = l /\ loc'[p] = local
  BY CallerIsProc, Moves DEF TypeInv, TypeOK
<1>2. CallerFits(pc[p], loc[p])'
  BY <1>1 DEF CallerFits
<1> QED
  BY <1>1, <1>2, CallerKeeps DEF Repairing, Sending

\* A repair is let go on only on a parked job whose agent is recorded: then the
\* queue is not on the way of a create.
LEMMA RepairIsAlone ==
  ASSUME TypeInv, AckInv, NotBoth, MaxRepairs > 0, rec.agentCreated,
         rec.state = "needs_continue"
  PROVE  ~Creates(pc["queue"], loc["queue"])
<1> SUFFICES ASSUME CreateIsFirst
             PROVE  FALSE
  BY DEF AckInv, QueueFits
<1>1. rec.cancelRequested /\ HostMayFail
  BY DesignServiceAssumption DEF CreateIsFirst
<1>2. MaxCancels = 0
  BY <1>1, DesignServiceAssumption DEF NotBoth
<1>3. ~IsTerminal(rec)
  BY DEF IsTerminal, Terminal
<1> QED
  BY <1>1, <1>2, <1>3 DEF AckInv, RecordOK, CancelAllowed

LEMMA RequestKeeps ==
  ASSUME TypeInv, AckInv, NotBoth, NEW p \in Callers, Request(p)
  PROVE  AckInv'
<1> USE CallerIsProc, QueueIsProc
<1>p. CallerFits(pc[p], loc[p]) /\ pc[p] = "idle" /\ Quiet
  BY DEF AckInv, Request, Cancel, Recheck, Repair, Call, Idle, At, server, mem, Quiet
<1>1. CASE Cancel(p)
  <2>1. OnlyMoves(p) /\ pc'[p] = "askCancel" /\ loc'[p] = loc[p]
    BY <1>1 DEF Cancel, OnlyMoves, TypeInv, TypeOK, ControlOK
  <2>2. MaxCancels > 0
    BY <1>1, DesignServiceAssumption DEF Cancel, Call, MaxCalls, TypeInv, TypeOK, RestOK
  <2>3. CallerFits("askCancel", loc[p])
    BY <1>p, <2>2 DEF CallerFits, CancelLabels, Repairing, Sending
  <2> QED
    BY <1>p, <2>1, <2>3, CallerGoes DEF Repairing, Sending
<1>2. CASE Recheck(p)
  <2>1. OnlyMoves(p) /\ pc'[p] = "recheck" /\ loc'[p] = loc[p]
    BY <1>2 DEF Recheck, OnlyMoves, TypeInv, TypeOK, ControlOK
  <2>2. rec.creation
    BY <1>2 DEF Recheck, AckInv, RecordOK, NotAsked, Terminal, TypeInv, TypeOK, ServerOK, Records
  <2>3. CallerFits("recheck", loc[p])
    BY <1>p, <2>2 DEF CallerFits, CancelLabels, Repairing, Sending
  <2> QED
    BY <1>p, <2>1, <2>3, CallerGoes DEF Repairing, Sending
<1>3. CASE Repair(p)
  <2>1. /\ OnlyMoves(p) /\ pc'[p] = "repairLook"
        /\ loc'[p] = [loc[p] EXCEPT !.att = rec.attempt + 1]
    BY <1>3 DEF Repair, OnlyMoves, TypeInv, TypeOK, ControlOK
  <2>2. MaxRepairs > 0
    BY <1>3, DesignServiceAssumption DEF Repair, Call, MaxCalls, TypeInv, TypeOK, RestOK
  <2>3. rec.agentCreated /\ rec.creation /\ rec.state = "needs_continue"
    BY <1>3 DEF Repair, AckInv, RecordOK, NotAsked
  <2>4. rec.attempt \in Attempts /\ rec.attempt + 1 \in Attempts /\ rec.attempt + 1 # 1
    BY <1>3, <2>3, MaxAttemptsAssumption DEF Repair, AckInv, RecordOK, HasAsked, Attempts
  <2>5. PICK local : local = [loc[p] EXCEPT !.att = rec.attempt + 1]
    OBVIOUS
  <2>6. local.att = rec.attempt + 1 /\ "guarded" \notin local.flag
    BY <1>p, <2>5 DEF CallerFits, TypeInv, TypeOK, ControlOK, Locals
  <2>7. CallerFits("repairLook", local)
    BY <2>2, <2>3, <2>4, <2>6 DEF CallerFits, CancelLabels, Repairing, Sending
  <2> QED
    BY <1>p, <2>1, <2>2, <2>3, <2>5, <2>7, CallerGoes, RepairIsAlone
<1> QED
  BY <1>1, <1>2, <1>3 DEF Request

LEMMA CallerStepKeeps ==
  ASSUME TypeInv, AckInv, NEW p \in Callers, CallerStep(p)
  PROVE  AckInv'
<1> USE QuietReads, CallerEnds, CallerGoesTo
<1>q. CallerFits(pc[p], loc[p]) /\ NotAsked /\ HasAsked /\ RecordOK
  BY DEF AckInv, RecordOK
<1>k. Creates(pc["queue"], loc["queue"]) => CreateIsFirst
  BY DEF AckInv, QueueFits
<1>r. rec \in Records /\ rec.ack \in [Attempts -> Acks] /\ 1 \in Attempts
  BY MaxAttemptsAssumption DEF TypeInv, TypeOK, ServerOK, Records, Attempts
<1>1. CASE AskCancel(p)
  <2>1. pc[p] = "askCancel" /\ MaxCancels > 0 /\ UNCHANGED <<tasks, host>>
    BY <1>1, <1>q DEF AskCancel, At, CallerFits, Local
  <2>2. CASE rec' = rec /\ Finish(p)
    BY <2>1, <2>2 DEF Quiet
  <2>3. CASE rec' = CancelAsked(rec) /\ Accepts(rec, rec') /\ Goto(p, "resolve")
    <3>1. /\ rec'.creation = rec.creation /\ rec'.agentCreated = rec.agentCreated
          /\ rec'.attempt = rec.attempt /\ rec'.ack = rec.ack /\ rec'.result = rec.result
          /\ rec'.state = "canceling" /\ rec'.cancelRequested
      BY <1>r, <2>3 DEF CancelAsked, Records
    <3>2. RecordOK' /\ Grows
      BY <1>q, <2>1, <2>3, <3>1, RecordChanges DEF Accepts, HostStays, host
    <3>3. Creates(pc["queue"], loc["queue"]) => CreateIsFirst'
      BY <1>k, <3>1 DEF CreateIsFirst, OnlyKickoff
    <3>4. PICK local : local = loc[p]
      OBVIOUS
    <3>5. CallerFits("resolve", local)'
      BY <1>q, <2>1, <3>1, <3>4 DEF CallerFits, CancelLabels, Repairing, Sending
    <3> QED
      BY <2>1, <2>3, <3>1, <3>2, <3>3, <3>4, <3>5, CallerWritesAndGoes DEF Repairing, Sending
  <2> QED
    BY <1>1, <2>2, <2>3 DEF AskCancel, Update, StoreFault
<1>2. CASE WriteRecheck(p)
  <2>1. pc[p] = "recheck" /\ rec.creation /\ UNCHANGED <<tasks, host>>
    BY <1>2, <1>q DEF WriteRecheck, At, CallerFits, Local
  <2>2. CASE rec' = rec /\ Finish(p)
    BY <2>1, <2>2 DEF Quiet
  <2>3. CASE rec' = [rec EXCEPT !.state = "ready"] /\ Accepts(rec, rec') /\ Finish(p)
    <3>1. /\ rec'.creation = rec.creation /\ rec'.agentCreated = rec.agentCreated
          /\ rec'.attempt = rec.attempt /\ rec'.ack = rec.ack
          /\ rec'.state = "ready" /\ rec'.cancelRequested = rec.cancelRequested
      BY <1>r, <2>3 DEF Records
    <3>2. RecordOK' /\ Grows
      BY <1>q, <2>1, <2>3, <3>1, RecordChanges DEF Accepts, HostStays, host
    <3>3. Creates(pc["queue"], loc["queue"]) => CreateIsFirst'
      BY <1>k, <3>1 DEF CreateIsFirst, OnlyKickoff
    <3> QED
      BY <2>1, <2>3, <3>1, <3>2, <3>3, CallerWritesAndEnds
  <2> QED
    BY <1>2, <2>2, <2>3 DEF WriteRecheck, Update, StoreFault, server
<1>3. CASE RepairLook(p)
  <2>1. pc[p] = "repairLook" /\ Quiet
    BY <1>3 DEF RepairLook, At
  <2>2. CallerFits("repair", loc[p]) /\ pc[p] \in Repairing
    BY <1>q, <2>1 DEF CallerFits, CancelLabels, Repairing, Sending
  <2> QED
    BY <1>3, <2>1, <2>2 DEF RepairLook
<1>4. CASE WriteRepair(p)
  <2> DEFINE n == loc[p].att
             next == [Correcting(rec, n) EXCEPT !.outcomeUnknown = FALSE]
  <2>1. /\ pc[p] = "repair" /\ rec.agentCreated /\ n \in Attempts /\ n # 1
        /\ UNCHANGED <<tasks, host>>
    BY <1>4, <1>q DEF WriteRepair, At, CallerFits, Repairing
  <2>2. CASE rec' = rec /\ Finish(p)
    BY <2>1, <2>2 DEF Quiet
  <2>3. CASE rec' = next /\ Accepts(rec, rec') /\ Goto(p, "sending")
    <3>1. /\ rec'.creation = rec.creation /\ rec'.agentCreated = rec.agentCreated
          /\ rec'.attempt = n /\ rec'.ack = Pending(rec, n).ack
          /\ rec'.state = "fixing" /\ rec'.cancelRequested = rec.cancelRequested
      BY <1>r, <2>3 DEF Correcting, Pending, Records
    <3>2. RecordOK' /\ Grows
      BY <1>q, <2>1, <2>3, <3>1, PendingFits DEF Accepts, HostStays, host
    <3>3. ~Creates(pc["queue"], loc["queue"])
      BY <2>1 DEF AckInv, CreateAlone, Repairing
    <3>4. PICK local : local = loc[p]
      OBVIOUS
    <3>5. CallerFits("sending", local)'
      BY <1>q, <2>1, <3>1, <3>4 DEF CallerFits, CancelLabels, Repairing, Sending
    <3>6. pc[p] \in Repairing
      BY <2>1 DEF Repairing
    <3> QED
      BY <2>1, <2>3, <3>1, <3>2, <3>3, <3>4, <3>5, <3>6, CallerWritesAndGoes
  <2> QED
    BY <1>4, <2>2, <2>3 DEF WriteRepair, Update, StoreFault, server
<1> QED
  BY <1>1, <1>2, <1>3, <1>4 DEF CallerStep

LEMMA CallerShares ==
  ASSUME TypeInv, AckInv, NEW p \in Callers, SharedStep(p)
  PROVE  AckInv'
<1> USE QuietReads, CallerEnds, CallerGoesTo, CallerIsProc
<1>q. CallerFits(pc[p], loc[p]) /\ NotAsked /\ HasAsked /\ RecordOK
  BY DEF AckInv, RecordOK
<1>k. Creates(pc["queue"], loc["queue"]) => CreateIsFirst
  BY DEF AckInv, QueueFits
<1>r. rec \in Records /\ rec.ack \in [Attempts -> Acks] /\ 1 \in Attempts
  BY MaxAttemptsAssumption DEF TypeInv, TypeOK, ServerOK, Records, Attempts
<1>t. Throw(p) => Finish(p)
  BY <1>q DEF Throw, Has, CallerFits
<1> DEFINE n == loc[p].att
<1>a. pc[p] \in Repairing => ~Creates(pc["queue"], loc["queue"])
  BY DEF AckInv, CreateAlone
<1>c. ASSUME NEW l \in CancelLabels, pc[p] \in CancelLabels,
             rec.creation \/ l = "cancelWrite",
             l \in {"adopt", "archiving"} => agent # "absent",
             l = "park" => HostMayFail
      PROVE  CallerFits(l, loc[p]) /\ l \notin Repairing
  BY <1>c, <1>q DEF CallerFits, CancelLabels, Repairing, Sending
<1>1. CASE SendReturns(p)
  <2>1. /\ pc[p] = "sending" /\ rec.creation /\ rec.agentCreated
        /\ n \in Attempts /\ n # 1 /\ rec' = rec /\ UNCHANGED tasks
    BY <1>1, <1>q DEF SendReturns, At, CallerFits, Repairing, Sending, NotAsked, server
  <2>2. PICK l \in {"sent", "sendUnknown"} :
          /\ Goto(p, l)
          /\ HostReceives(n) \/ (l = "sendUnknown" /\ UNCHANGED host)
    BY <1>1 DEF SendReturns
  <2>3. OnlyMoves(p) /\ pc'[p] = l /\ loc'[p] = loc[p]
    BY <2>2, Moves DEF TypeInv, TypeOK
  <2>4. RecordOK' /\ Grows /\ (l = "sent" => delivered'[n] > 0)
    <3>1. CASE HostReceives(n)
      BY <1>q, <2>1, <3>1, SendFits
    <3>2. CASE l = "sendUnknown" /\ UNCHANGED host
      BY <1>q, <2>1, <3>2, RecordStays DEF host
    <3> QED
      BY <2>2, <3>1, <3>2
  <2>5. CallerFits(pc[p], loc[p])'
    BY <1>q, <2>1, <2>2, <2>3, <2>4 DEF CallerFits, CancelLabels, Repairing, Sending
  <2>6. pc[p] \in Repairing
    BY <2>1 DEF Repairing, Sending
  <2> QED
    BY <1>a, <2>1, <2>3, <2>4, <2>5, <2>6, CallerKeeps
<1>2. CASE Sent(p) \/ SendUnknown(p)
  <2>1. /\ pc[p] \in Repairing /\ rec.creation /\ rec.agentCreated
        /\ n \in Attempts /\ n # 1
        /\ Sent(p) => delivered[n] > 0
        /\ UNCHANGED <<tasks, host>>
    BY <1>2, <1>q DEF Sent, SendUnknown, At, CallerFits, Repairing, Sending, NotAsked, Local
  <2>2. CASE rec' = rec /\ Finish(p)
    BY <2>1, <2>2 DEF Quiet
  <2>3. CASE rec' = rec /\ Goto(p, "sendUnknown")
    <3>1. CallerFits("sendUnknown", loc[p])
      BY <1>q, <2>1 DEF CallerFits, CancelLabels, Repairing, Sending
    <3> QED
      BY <2>1, <2>3, <3>1 DEF Quiet
  <2>4. CASE /\ \/ rec' = Designing(rec, n) /\ Sent(p)
                \/ rec' = SendUncertain(rec, n)
             /\ Accepts(rec, rec') /\ Finish(p)
    <3>1. RecordOK' /\ Grows
      BY <1>q, <2>1, <2>4, SentFits DEF HostStays, host
    <3>2. rec'.creation = rec.creation
      BY <1>r, <2>4 DEF Designing, SendUncertain, Uncertain, Parked, Acked, Records
    <3> QED
      BY <1>a, <2>1, <2>4, <3>1, <3>2, CallerWritesAndEnds
  <2> QED
    BY <1>2, <2>2, <2>3, <2>4 DEF Sent, SendUnknown, Update, StoreFault
<1>3. CASE Fail(p)
  BY <1>3, <1>q DEF Fail, At, CallerFits, CancelLabels, Repairing, Sending
<1>4. CASE Park(p) \/ CancelWrite(p)
  <2>1. /\ pc[p] \in CancelLabels /\ UNCHANGED <<tasks, host>> /\ rec.cancelRequested
        /\ Park(p) => rec.creation /\ HostMayFail
    BY <1>4, <1>q DEF Park, CancelWrite, At, CallerFits, CancelLabels, Local
  <2>2. CASE rec' = rec /\ Throw(p)
    BY <1>t, <2>1, <2>2 DEF Quiet
  <2>3. CASE /\ \/ rec' = Parked(rec) /\ Park(p)
                \/ rec' = Canceled(rec)
             /\ Accepts(rec, rec') /\ Finish(p)
    <3>1. /\ RecordOK' /\ Grows
          /\ rec'.creation = rec.creation /\ rec'.agentCreated = rec.agentCreated
          /\ rec'.attempt = rec.attempt /\ rec'.ack = rec.ack
          /\ rec'.cancelRequested
          /\ HostMayFail \/ rec'.state # "needs_continue"
      BY <1>q, <1>r, <2>1, <2>3, EndedFits DEF HostStays, host, Canceled, Records
    <3>2. Creates(pc["queue"], loc["queue"]) => CreateIsFirst'
      BY <1>k, <3>1 DEF CreateIsFirst, OnlyKickoff
    <3> QED
      BY <2>1, <2>3, <3>1, <3>2, CallerWritesAndEnds
  <2> QED
    BY <1>4, <2>2, <2>3 DEF Park, CancelWrite, Update, StoreFault
<1>5. CASE Resolve(p) \/ CancelLookup(p) \/ Archive(p)
  <2>1. Quiet /\ pc[p] \in CancelLabels
    BY <1>5 DEF Resolve, CancelLookup, Archive, At, CancelLabels
  <2>2. CASE Finish(p)
    BY <2>1, <2>2
  <2>3. CASE \E l \in CancelLabels : /\ Goto(p, l)
                                     /\ rec.creation \/ l = "cancelWrite"
                                     /\ l \in {"adopt", "archiving"} => agent # "absent"
                                     /\ l = "park" => HostMayFail
    BY <1>c, <2>1, <2>3
  <2>4. rec.agentCreated => rec.creation /\ agent # "absent"
    BY <1>q DEF NotAsked, RecordOK, AgentThere
  <2>5. CASE Resolve(p) \/ Archive(p)
    BY <2>2, <2>3, <2>4, <2>5 DEF Resolve, Archive, CancelLabels
  <2>6. CASE CancelLookup(p)
    <3>1. rec.creation
      BY <1>q, <2>6 DEF CancelLookup, At, CallerFits
    <3> QED
      BY <2>3, <2>6, <3>1 DEF CancelLookup, CancelLabels
  <2> QED
    BY <1>5, <2>5, <2>6
<1>6. CASE Adopt(p)
  <2>1. /\ pc[p] = "adopt" /\ UNCHANGED <<tasks, host>> /\ rec.cancelRequested
        /\ rec.creation /\ agent # "absent" /\ MaxCancels > 0
    BY <1>6, <1>q DEF Adopt, At, CallerFits, CancelLabels, Local
  <2>2. CASE rec' = rec /\ Finish(p)
    BY <2>1, <2>2 DEF Quiet
  <2>3. CASE rec' = [rec EXCEPT !.agentCreated = TRUE] /\ Goto(p, "archive")
    <3>1. /\ RecordOK' /\ Grows
          /\ rec'.creation = rec.creation /\ rec'.agentCreated
          /\ rec'.attempt = rec.attempt /\ rec'.ack = rec.ack
          /\ rec'.state = rec.state /\ rec'.cancelRequested = rec.cancelRequested
      BY <1>q, <2>1, <2>3, AdoptFits DEF HostStays, host
    <3>2. PICK local : local = loc[p]
      OBVIOUS
    <3>3. Creates(pc["queue"], loc["queue"]) => CreateIsFirst'
      BY <1>k, <2>1, <3>1 DEF CreateIsFirst, OnlyKickoff
    <3>4. CallerFits("archive", local)'
      BY <1>q, <2>1, <3>1, <3>2 DEF CallerFits, CancelLabels, Repairing, Sending
    <3> QED
      BY <2>1, <2>3, <3>1, <3>2, <3>3, <3>4, CallerWritesAndGoes DEF Repairing, Sending
  <2> QED
    BY <1>6, <2>2, <2>3 DEF Adopt, Update, StoreFault
<1>7. CASE ArchiveReturns(p)
  <2>1. pc[p] = "archiving" /\ UNCHANGED tasks /\ rec.creation /\ rec' = rec
    BY <1>7, <1>q DEF ArchiveReturns, At, CallerFits, server
  <2>2. PICK l \in {"cancelWrite", "park"} : Goto(p, l) /\ (l = "park" => HostMayFail)
    BY <1>7 DEF ArchiveReturns
  <2>3. OnlyMoves(p) /\ pc'[p] = l /\ loc'[p] = loc[p]
    BY <2>2, Moves DEF TypeInv, TypeOK
  <2>4. RecordOK' /\ Grows
    BY <1>7, <1>q, <2>1, ArchivedFits, RecordStays DEF ArchiveReturns, host
  <2>5. CallerFits(l, loc[p]) /\ l \notin Repairing
    BY <1>c, <2>1, <2>2 DEF CancelLabels
  <2>6. CallerFits(pc[p], loc[p])'
    BY <2>1, <2>2, <2>3, <2>5 DEF CallerFits, Repairing, Sending
  <2>7. Creates(pc["queue"], loc["queue"]) => CreateIsFirst'
    BY <1>k, <2>1 DEF CreateIsFirst, OnlyKickoff
  <2> QED
    BY <2>1, <2>3, <2>4, <2>5, <2>6, <2>7, CallerKeeps
<1> QED
  BY <1>1, <1>2, <1>3, <1>4, <1>5, <1>6, <1>7 DEF SharedStep

-----------------------------------------------------------------------------
(* The world. *)

\* Of the tasks that wait only the first may be the start, and none does once
\* its request is stored.
LEMMA WorldStartsFirst ==
  ASSUME TypeInv, StartsFirst, Poll \/ HookArrives \/ TurnEnds \/ CreateLands \/ SendAges
  PROVE  StartsFirst'
<1>r. rec' = rec /\ pc' = pc
  BY DEF Poll, HookArrives, TurnEnds, CreateLands, SendAges, server
<1>1. CASE UNCHANGED tasks
  BY <1>r, <1>1 DEF StartsFirst, Idle, At
<1>2. ASSUME NEW t \in Tasks, t.kind # "start", tasks' = Append(tasks, t)
      PROVE  StartsFirst'
  <2>1. tasks \in Seq(Tasks)
    BY DEF TypeInv, TypeOK, RestOK
  <2>2. \A i \in DOMAIN tasks' :
          (i \in DOMAIN tasks /\ tasks'[i] = tasks[i]) \/ tasks'[i] = t
    BY <1>2, <2>1
  <2> QED
    BY <1>r, <1>2, <2>2 DEF StartsFirst, Idle, At
<1>3. CASE Poll
  <2>1. [kind |-> "reconcile", ev |-> NoEvent] \in Tasks
    BY DEF Tasks
  <2> QED
    BY <1>2, <1>3, <2>1 DEF Poll
<1>4. CASE HookArrives
  <2>1. PICK e \in hooks, id \in {"none", "turn", "message"} :
          tasks' = Append(tasks, [kind |-> "turn",
                                  ev |-> [n |-> e.n, id |-> id, outcome |-> e.outcome]])
    BY <1>4 DEF HookArrives
  <2>2. e \in Endings
    BY <2>1 DEF TypeInv, TypeOK, HostOK
  <2>3. [n |-> e.n, id |-> id, outcome |-> e.outcome] \in Events
    BY <2>2 DEF Endings, Events
  <2>4. [kind |-> "turn", ev |-> [n |-> e.n, id |-> id, outcome |-> e.outcome]] \in Tasks
    BY <2>3 DEF Tasks
  <2> QED
    BY <1>2, <2>1, <2>4
<1> QED
  BY <1>1, <1>3, <1>4 DEF TurnEnds, CreateLands, SendAges, mem

LEMMA WorldKeeps ==
  ASSUME TypeInv, AckInv, Poll \/ HookArrives \/ TurnEnds \/ CreateLands \/ SendAges
  PROVE  AckInv'
<1>1. rec' = rec /\ pc' = pc /\ loc' = loc
  BY DEF Poll, HookArrives, TurnEnds, CreateLands, SendAges, server
<1>2. RecordOK' /\ Grows
  <2>1. CASE CreateLands
    <3>1. delivered \in [Attempts -> Nat] /\ 1 \in Attempts
      BY MaxAttemptsAssumption DEF TypeInv, TypeOK, HostOK, Attempts
    <3>2. rec.creation
      BY <2>1 DEF CreateLands, AckInv, RecordOK, NotAsked
    <3>3. \/ agent' = agent /\ delivered' = delivered
          \/ /\ agent = "absent" /\ agent' = "running"
             /\ delivered' = [delivered EXCEPT ![1] = @ + 1]
      BY <2>1 DEF CreateLands
    <3> QED
      BY <1>1, <3>1, <3>2, <3>3
         DEF AckInv, RecordOK, NotAsked, HasAsked, OnlyKickoff, AgentThere, KickedOff,
             CancelAllowed, AckedMeansReceived, Grows, IsTerminal
  <2>2. CASE TurnEnds
    <3>1. agent = "running" /\ agent' # "absent" /\ delivered' = delivered /\ stalled' = stalled
      BY <2>2 DEF TurnEnds
    <3> QED
      BY <1>1, <3>1
         DEF AckInv, RecordOK, NotAsked, HasAsked, OnlyKickoff, AgentThere, KickedOff,
             CancelAllowed, AckedMeansReceived, Grows, IsTerminal
  <2>3. CASE Poll \/ HookArrives \/ SendAges
    BY <1>1, <2>3, RecordStays DEF Poll, HookArrives, SendAges, AckInv, host
  <2> QED
    BY <2>1, <2>2, <2>3
<1>3. StartsFirst'
  BY WorldStartsFirst DEF AckInv
<1>4. QueueFits(pc["queue"], loc["queue"])'
  <2>1. QueueFits(pc["queue"], loc["queue"])
    BY DEF AckInv
  <2> QED
    BY <1>1, <1>2, <2>1 DEF QueueFits, Grows, CreateIsFirst, OnlyKickoff, Sending
<1>5. \A p \in Callers : CallerFits(pc[p], loc[p])'
  BY <1>1, <1>2, CallerStays
<1>6. CreateAlone'
  BY <1>1 DEF AckInv, CreateAlone, Creates
<1> QED
  BY <1>2, <1>3, <1>4, <1>5, <1>6 DEF AckInv

\* Once the queue takes a task no start waits.
LEMMA RunTaskStartsFirst ==
  ASSUME TypeInv, StartsFirst, RunTask
  PROVE  StartsFirst'
<1>1. tasks # << >> /\ tasks \in Seq(Tasks) /\ tasks' = Tail(tasks)
  BY DEF RunTask, TypeInv, TypeOK, RestOK
<1>2. ASSUME NEW i \in DOMAIN tasks' PROVE tasks'[i].kind # "start"
  <2>1. i + 1 \in DOMAIN tasks /\ tasks'[i] = tasks[i + 1] /\ i + 1 # 1
    BY <1>1, <1>2
  <2> QED
    BY <2>1 DEF StartsFirst
<1> QED
  BY <1>2 DEF StartsFirst

LEMMA RunTaskKeeps ==
  ASSUME TypeInv, AckInv, RunTask
  PROVE  AckInv'
<1>1. /\ Head(tasks) \in Tasks /\ tasks # << >> /\ tasks \in Seq(Tasks)
      /\ tasks' = Tail(tasks) /\ pc["queue"] = "idle"
  BY DEF RunTask, Idle, At, TypeInv, TypeOK, RestOK
<1>2. rec' = rec /\ agent' = agent /\ delivered' = delivered /\ stalled' = stalled
  BY DEF RunTask, server, host
<1>3. RecordOK' /\ Grows
  BY <1>2, RecordStays DEF AckInv
<1>4. PICK l, local : /\ l = Head(tasks).kind
                      /\ local = [NoLocals EXCEPT !.task = Head(tasks).kind, !.ev = Head(tasks).ev]
  OBVIOUS
<1>5. OnlyMoves("queue") /\ pc'["queue"] = l /\ loc'["queue"] = local
  BY <1>4, QueueIsProc DEF RunTask, OnlyMoves, TypeInv, TypeOK, ControlOK
<1>6. l \in {"start", "reconcile", "turn"} /\ "guarded" \notin local.flag
  BY <1>1, <1>4 DEF Tasks, NoLocals
<1>7. 1 \in DOMAIN tasks /\ tasks[1] = Head(tasks)
  BY <1>1
<1>8. l = "start" => ~rec.creation /\ ~rec.agentCreated /\ rec.state # "needs_continue"
  BY <1>4, <1>7 DEF AckInv, StartsFirst, RecordOK, NotAsked, Terminal
<1>9. QueueFits(l, local)
  BY <1>6, <1>8 DEF QueueFits, Creates, CreateLabels, BeforeCreate, Deciding, Sending, CreateIsFirst
<1>10. QueueFits(pc["queue"], loc["queue"])'
  BY <1>2, <1>5, <1>9 DEF QueueFits, CreateIsFirst, OnlyKickoff
<1>11. \A p \in Callers : pc'[p] = pc[p] /\ loc'[p] = loc[p]
  BY <1>5, CallerIsProc DEF OnlyMoves
<1>12. \A p \in Callers : CallerFits(pc[p], loc[p])'
  BY <1>3, <1>11, CallerStays
<1>13. StartsFirst'
  BY RunTaskStartsFirst DEF AckInv
<1>14. CreateAlone'
  <2>1. ~rec.agentCreated => \A p \in Callers : pc[p] \notin Repairing
    BY DEF AckInv, CallerFits
  <2>2. Creates(pc["queue"], loc["queue"])' => ~rec.agentCreated
    BY <1>5, <1>6, <1>8 DEF Creates, CreateLabels, BeforeCreate
  <2> QED
    BY <1>11, <2>1, <2>2 DEF CreateAlone
<1> QED
  BY <1>3, <1>10, <1>12, <1>13, <1>14 DEF AckInv

\* A request that was on its way when the plugin died may still reach the host.
LEMMA RestartFits ==
  ASSUME TypeInv, AckInv, Restart
  PROVE  RecordOK'
<1>1. rec' = rec /\ delivered \in [Attempts -> Nat] /\ 1 \in Attempts
  BY MaxAttemptsAssumption DEF Restart, server, TypeInv, TypeOK, HostOK, Attempts
<1>q. RecordOK /\ QueueFits(pc["queue"], loc["queue"])
  BY DEF AckInv
<1>2. CASE UNCHANGED host
  BY <1>1, <1>q, <1>2, RecordStays DEF host
<1>3. CASE /\ At("queue", "creating")
           /\ \/ UNCHANGED <<agent, delivered>>
              \/ HostCreates
  <2>1. rec.creation
    BY <1>q, <1>3 DEF QueueFits, At, BeforeCreate
  <2>2. \/ UNCHANGED <<agent, delivered>>
        \/ /\ agent = "absent" /\ agent' = "running"
           /\ delivered' = [delivered EXCEPT ![1] = @ + 1]
    BY <1>3 DEF HostCreates, host
  <2> QED
    BY <1>1, <1>q, <2>1, <2>2
       DEF RecordOK, NotAsked, HasAsked, OnlyKickoff, AgentThere, KickedOff, CancelAllowed,
           AckedMeansReceived, IsTerminal
<1>4. ASSUME NEW p \in Procs, At(p, "sending"), HostReceives(loc[p].att)
      PROVE  RecordOK'
  <2>1. loc[p].att \in Attempts /\ loc[p].att # 1 /\ rec.agentCreated
    BY <1>4, <1>q DEF AckInv, QueueFits, CallerFits, At, Procs, Repairing, Sending
  <2>2. rec.creation
    BY <2>1, <1>q DEF RecordOK, NotAsked
  <2> QED
    BY <1>1, <1>q, <1>4, <2>1, <2>2, SendFits
<1>5. ASSUME NEW p \in Procs, At(p, "archiving"), agent' = "archived",
             UNCHANGED <<delivered, stalled>>
      PROVE  RecordOK'
  <2>1. agent # "absent"
    BY <1>5, <1>q DEF AckInv, QueueFits, CallerFits, At, Procs
  <2> QED
    BY <1>1, <1>q, <1>5, <2>1, ArchivedFits
<1> QED
  BY <1>2, <1>3, <1>4, <1>5 DEF Restart

LEMMA RestartKeeps ==
  ASSUME TypeInv, AckInv, Restart
  PROVE  AckInv'
<1>1. /\ \A p \in Procs : pc'[p] = "idle" /\ loc'[p] = NoLocals
      /\ tasks' = << >>
  BY DEF Restart
<1>2. StartsFirst'
  BY <1>1 DEF StartsFirst
<1>3. QueueFits(pc["queue"], loc["queue"])' /\ ~Creates(pc["queue"], loc["queue"])'
  BY <1>1, QueueIsProc
     DEF QueueFits, Creates, BeforeCreate, CreateLabels, Deciding, Sending, NoLocals
<1>4. \A p \in Callers : CallerFits(pc[p], loc[p])'
  BY <1>1, CallerIsProc DEF CallerFits, CancelLabels, Repairing, Sending, NoLocals
<1> QED
  BY <1>2, <1>3, <1>4, RestartFits DEF AckInv, CreateAlone

LEMMA AckNext ==
  ASSUME TypeInv, AckInv, NotBoth, [Next]_vars
  PROVE  AckInv'
<1>1. CASE QueueStep
  <2>1. StartStep => AckInv'
    BY StartReads, StartWrites DEF StartStep
  <2>2. ReconcileStep => AckInv'
    BY ReconcileReads, ReconcileWrites DEF ReconcileStep
  <2> QED
    BY <1>1, <2>1, <2>2, RunTaskKeeps, QueueShares DEF QueueStep
<1>2. ASSUME NEW p \in Callers, Request(p) \/ CallerStep(p) \/ SharedStep(p)
      PROVE  AckInv'
  BY <1>2, RequestKeeps, CallerStepKeeps, CallerShares
<1>3. CASE Poll \/ HookArrives \/ TurnEnds \/ CreateLands \/ SendAges \/ Restart
  BY <1>3, WorldKeeps, RestartKeeps
<1>4. CASE UNCHANGED vars
  BY <1>4 DEF vars, server, mem, host, spent, AckInv, RecordOK, NotAsked, HasAsked, OnlyKickoff,
              AgentThere, KickedOff, CancelAllowed, AckedMeansReceived, IsTerminal, StartsFirst,
              Idle, At, QueueFits, Creates, CreateIsFirst, CallerFits, CreateAlone
<1> QED
  BY <1>1, <1>2, <1>3, <1>4 DEF Next

\* The record says that an attempt was received only if its prompt was, with any
\* number of lost answers, failing store writes and restarts, unless a cancel
\* whose archive failed leaves a parked job that a repair takes up while the queue
\* still claims the agent: the claim then acknowledges the repair's prompt
\* (markAgentCreated, claimDiscoveredAgent, handleFailure).
THEOREM AckedMeansReceivedHolds ==
  ASSUME NotBoth
  PROVE  Spec => []AckedMeansReceived
<1>1. Init => TypeInv /\ AckInv
  BY TypeInit, AckInit
<1>2. TypeInv /\ AckInv /\ [Next]_vars => (TypeInv /\ AckInv)'
  BY AckNext, TypeNext, RoundLeftNext DEF TypeInv
<1>3. AckInv => AckedMeansReceived
  BY DEF AckInv, RecordOK
<1> QED
  BY <1>1, <1>2, <1>3, PTL DEF Spec

-----------------------------------------------------------------------------
(* Which prompt the agent is given.  Each new attempt is the one after the  *)
(* last, and it is stored as pending before its prompt is sent, so a prompt  *)
(* is sent twice only if two processes are sending it.  The queue sends one  *)
(* after it has judged the output of the attempt before, a repair sends one  *)
(* while the queue judges nothing: but only the first repair finds the queue *)
(* so.  A repair whose send threw leaves the job parked while the queue may  *)
(* be judging the round it did start.                                        *)

Active == Deciding \cup Sending \cup {"echoed", "sendTimedOut", "turnFailed"}
Beginning == {"repairLook", "repair"}
Underway == {"starting", "designing", "fixing"}

\* The attempt n is stored, and its prompt has not reached the agent.
Fresh(n) == n = rec.attempt /\ rec.ack[n] = "pending" /\ delivered[n] = 0

\* The agent has received the current attempt's prompt.
Judged == rec.ack[rec.attempt] # "pending" /\ delivered[rec.attempt] > 0

RecordPrompts ==
  /\ EachAttemptPromptedOnce
  /\ \A n \in Attempts : /\ delivered[n] > 0 => rec.ack[n] # "none"
                         /\ n > rec.attempt => rec.ack[n] = "none"
  /\ turn <= rec.attempt
  /\ rec.attempt \in Attempts /\ delivered[rec.attempt] > 0 => turn = rec.attempt

QueuePrompts(l, local) ==
  /\ l = "sending" => Fresh(local.att)
  /\ l \in Deciding => local.att = rec.attempt
  /\ "decisive" \in local.flag => l \in {"look", "learn", "candidate"}
  /\ "decisive" \in local.flag \/ l \in {"candidate", "correct", "ready", "gap"} => Judged
  /\ l = "turnFailed" => local.ev.n = rec.attempt
  /\ l \in Active /\ rec.state = "needs_continue" => calls.repair = MaxRepairs

CallerPrompts(l, local) ==
  /\ l \in Repairing => calls.repair > 0
  /\ l \in Beginning => local.att = rec.attempt + 1 /\ rec.state \notin Underway
  /\ l = "sending" => Fresh(local.att)
  /\ l \in Sending => local.att <= rec.attempt

\* A repair and the queue.
Apart(l, att) ==
  /\ l \in Beginning => pc["queue"] \notin Active
  /\ l = "sending" => pc["queue"] \notin Sending
  /\ l \in Sending /\ pc["queue"] = "sending" => att < rec.attempt

OneRepairs ==
  \A p, q \in Callers : pc[p] \in Repairing /\ pc[q] \in Repairing => p = q

PromptInv ==
  /\ RecordPrompts
  /\ QueuePrompts(pc["queue"], loc["queue"])
  /\ \A p \in Callers : CallerPrompts(pc[p], loc[p]) /\ Apart(pc[p], loc[p].att)
  /\ OneRepairs

\* A ready job offers the result of its last attempt, and the queue judges nothing.
Offers == rec.state = "ready" \/ (MaxRepairs = 0 /\ rec.result > 0)
IsLast ==
  /\ rec.result = rec.attempt /\ rec.attempt \in Attempts /\ delivered[rec.attempt] > 0
  /\ pc["queue"] \notin Active
  /\ rec.state \notin Underway
NoResult == ~rec.agentCreated => rec.result = 0
CallerReady(l) ==
  /\ l = "recheck" => MaxRechecks > 0 /\ rec.result > 0
  /\ l \in Beginning => rec.state # "ready"
ReadyInv ==
  (Offers => IsLast) /\ NoResult /\ \A p \in Callers : CallerReady(pc[p])

-----------------------------------------------------------------------------
(* Most steps are calm: no prompt is sent and the attempt stays. *)

\* Entries only settle, and never one that another process is about to send.
EntriesSettle(p) ==
  \A n \in Attempts :
    \/ rec'.ack[n] = rec.ack[n]
    \/ /\ rec.ack[n] # "none" /\ rec'.ack[n] \in {"acked", "unknown"}
       /\ \A q \in Procs : q # p /\ pc[q] = "sending" => n # rec.attempt

Calm(p) ==
  /\ OnlyMoves(p)
  /\ delivered' = delivered /\ turn' = turn /\ calls'.repair = calls.repair
  /\ rec'.attempt = rec.attempt
  /\ EntriesSettle(p)
  /\ rec'.state \in Underway =>
       rec.state \in Underway \/ \A q \in Callers : q # p => pc[q] \notin Beginning
  /\ rec'.state = "needs_continue" /\ p # "queue" /\ pc["queue"] \in Active =>
       rec.state = "needs_continue" \/ calls.repair = MaxRepairs

LEMMA CalmRecord ==
  ASSUME TypeInv, PromptInv, NEW p \in Procs, Calm(p)
  PROVE  RecordPrompts'
BY DEF PromptInv, RecordPrompts, Calm, EntriesSettle, EachAttemptPromptedOnce

LEMMA AttemptIsNat ==
  ASSUME TypeInv
  PROVE  /\ rec.attempt \in 0 .. MaxAttempts /\ rec.ack \in [Attempts -> Acks]
         /\ rec \in Records /\ delivered \in [Attempts -> Nat] /\ turn \in Nat
         /\ calls.repair \in 0 .. MaxRepairs /\ MaxRepairs \in Nat /\ MaxAttempts \in Nat
         /\ 1 \in Attempts
BY MaxAttemptsAssumption, DesignServiceAssumption
   DEF TypeInv, TypeOK, ServerOK, HostOK, RestOK, Records, Attempts

LEMMA CalmOthers ==
  ASSUME TypeInv, AckInv, PromptInv, NEW p \in Procs, Calm(p), NEW q \in Callers, q # p
  PROVE  CallerPrompts(pc[q], loc[q])'
<1>1. q \in Procs /\ pc'[q] = pc[q] /\ loc'[q] = loc[q]
  BY CallerIsProc DEF Calm, OnlyMoves
<1>2. CallerPrompts(pc[q], loc[q])
  BY DEF PromptInv
<1>3. pc[q] = "sending" => Fresh(loc[q].att)'
  <2> SUFFICES ASSUME pc[q] = "sending"
               PROVE  Fresh(loc[q].att)'
    OBVIOUS
  <2>1. Fresh(loc[q].att)
    BY <1>2 DEF CallerPrompts
  <2>2. rec.attempt \in Attempts
    BY <2>1 DEF Fresh, AckInv, CallerFits, Repairing, Sending
  <2> QED
    BY <1>1, <2>1, <2>2 DEF Fresh, Calm, EntriesSettle
<1>4. pc[q] \in Beginning => rec'.state \notin Underway
  BY <1>2 DEF CallerPrompts, Calm
<1> QED
  BY <1>1, <1>2, <1>3, <1>4 DEF CallerPrompts, Calm

\* A calm step of the queue keeps the invariant if its own place fits.
LEMMA QueueCalm ==
  ASSUME TypeInv, AckInv, PromptInv, Calm("queue"),
         QueuePrompts(pc["queue"], loc["queue"])',
         pc'["queue"] \in Active =>
           pc["queue"] \in Active \/ \A q \in Callers : pc[q] \notin Beginning,
         pc'["queue"] \in Sending => pc["queue"] \in Sending,
         pc'["queue"] = "sending" => pc["queue"] = "sending"
  PROVE  PromptInv'
<1>1. \A q \in Callers : q \in Procs /\ q # "queue" /\ pc'[q] = pc[q] /\ loc'[q] = loc[q]
  BY CallerIsProc DEF Calm, OnlyMoves
<1>2. RecordPrompts'
  BY CalmRecord, QueueIsProc
<1>3. \A q \in Callers : CallerPrompts(pc[q], loc[q])'
  BY <1>1, CalmOthers, QueueIsProc
<1>4. ASSUME NEW q \in Callers
      PROVE  Apart(pc[q], loc[q].att)'
  <2>1. Apart(pc[q], loc[q].att) /\ rec'.attempt = rec.attempt
    BY DEF PromptInv, Calm
  <2> QED
    BY <1>1, <2>1 DEF Apart
<1>5. OneRepairs'
  BY <1>1 DEF PromptInv, OneRepairs
<1> QED
  BY <1>2, <1>3, <1>4, <1>5 DEF PromptInv

\* So does one of a caller.
LEMMA CallerCalm ==
  ASSUME TypeInv, AckInv, PromptInv, NEW p \in Callers, Calm(p),
         CallerPrompts(pc[p], loc[p])',
         pc'[p] \in Repairing => pc[p] \in Repairing /\ loc'[p] = loc[p],
         pc'[p] \in Beginning => pc[p] \in Beginning,
         pc'[p] \in Sending => pc[p] \in Sending,
         pc'[p] = "sending" => pc[p] = "sending"
  PROVE  PromptInv'
<1>1. p \in Procs /\ p # "queue"
  BY CallerIsProc
<1>2. pc'["queue"] = pc["queue"] /\ loc'["queue"] = loc["queue"]
  BY <1>1, QueueIsProc DEF Calm, OnlyMoves
<1>3. \A q \in Callers : q # p => pc'[q] = pc[q] /\ loc'[q] = loc[q]
  BY CallerIsProc DEF Calm, OnlyMoves
<1>4. RecordPrompts'
  BY <1>1, CalmRecord
<1>5. \A q \in Callers : CallerPrompts(pc[q], loc[q])'
  BY <1>1, CalmOthers
<1>6. ASSUME NEW q \in Callers
      PROVE  Apart(pc[q], loc[q].att)'
  <2>1. Apart(pc[q], loc[q].att) /\ rec'.attempt = rec.attempt
    BY DEF PromptInv, Calm
  <2>2. CASE q = p
    BY <1>2, <2>1, <2>2 DEF Apart, Repairing
  <2>3. CASE q # p
    BY <1>2, <1>3, <2>1, <2>3 DEF Apart
  <2> QED
    BY <2>2, <2>3
<1>7. OneRepairs'
  BY <1>3 DEF PromptInv, OneRepairs
<1>8. QueuePrompts(pc["queue"], loc["queue"])'
  <2>1. QueuePrompts(pc["queue"], loc["queue"]) /\ QueueFits(pc["queue"], loc["queue"])
    BY DEF PromptInv, AckInv
  <2>2. pc["queue"] = "sending" => Fresh(loc["queue"].att)'
    <3> SUFFICES ASSUME pc["queue"] = "sending"
                 PROVE  Fresh(loc["queue"].att)'
      OBVIOUS
    <3>1. Fresh(loc["queue"].att) /\ rec.attempt \in Attempts
      BY <2>1 DEF QueuePrompts, QueueFits, Fresh, Sending
    <3> QED
      BY <1>1, <1>2, <3>1, QueueIsProc DEF Fresh, Calm, EntriesSettle
  <2>3. pc["queue"] \in Deciding /\ Judged => Judged'
    <3>1. pc["queue"] \in Deciding => rec.attempt \in Attempts
      BY <2>1 DEF QueuePrompts, QueueFits
    <3> QED
      BY <3>1 DEF Judged, Calm, EntriesSettle
  <2> QED
    BY <1>1, <1>2, <2>1, <2>2, <2>3 DEF QueuePrompts, Calm, Deciding
<1> QED
  BY <1>4, <1>5, <1>6, <1>7, <1>8 DEF PromptInv

-----------------------------------------------------------------------------
(* The queue's steps that only read. *)

LEMMA QuietCalm ==
  ASSUME Quiet, UNCHANGED calls, NEW p \in Procs, OnlyMoves(p)
  PROVE  Calm(p)
BY DEF Quiet, host, Calm, EntriesSettle

LEMMA StillReads == UNCHANGED server /\ Local => Quiet /\ UNCHANGED calls
BY DEF server, Local, spent, Quiet

LEMMA QueueGoesCalm ==
  ASSUME TypeInv, AckInv, PromptInv, Quiet, UNCHANGED calls, OnlyMoves("queue"),
         NEW l, NEW local, pc'["queue"] = l, loc'["queue"] = local,
         QueuePrompts(l, local),
         l \in Active => pc["queue"] \in Active \/ rec.state \in Underway,
         l \notin Sending
  PROVE  PromptInv'
<1>1. Calm("queue")
  BY QuietCalm, QueueIsProc
<1>2. QueuePrompts(pc["queue"], loc["queue"])'
  BY DEF Quiet, host, QueuePrompts, Fresh, Judged
<1>3. rec.state \in Underway => \A q \in Callers : pc[q] \notin Beginning
  BY DEF PromptInv, CallerPrompts
<1> QED
  BY <1>1, <1>2, <1>3, QueueCalm DEF Sending

\* A place at which nothing is judged or sent.
Plain(l, local) == l \notin Active /\ "decisive" \notin local.flag

LEMMA PlainFits ==
  ASSUME NEW l, NEW local, Plain(l, local)
  PROVE  QueuePrompts(l, local) /\ l \notin Active /\ l \notin Sending
BY DEF Plain, QueuePrompts, Active, Sending, Deciding

LEMMA QueueEndsCalm ==
  ASSUME TypeInv, AckInv, PromptInv, Quiet, UNCHANGED calls, Finish("queue")
  PROVE  PromptInv'
<1>1. Plain("idle", NoLocals)
  BY DEF Plain, Active, Sending, Deciding, NoLocals
<1> QED
  BY <1>1, PlainFits, QueueIsProc, Moves, QueueGoesCalm DEF TypeInv, TypeOK

LEMMA QueueGoesToCalm ==
  ASSUME TypeInv, AckInv, PromptInv, Quiet, UNCHANGED calls, NEW l, Goto("queue", l),
         QueuePrompts(l, loc["queue"]),
         l \in Active => pc["queue"] \in Active \/ rec.state \in Underway,
         l \notin Sending
  PROVE  PromptInv'
BY QueueIsProc, Moves, QueueGoesCalm DEF TypeInv, TypeOK

LEMMA QueueGoesWithCalm ==
  ASSUME TypeInv, AckInv, PromptInv, Quiet, UNCHANGED calls, NEW l, NEW local,
         GotoWith("queue", l, local),
         QueuePrompts(l, local),
         l \in Active => pc["queue"] \in Active \/ rec.state \in Underway,
         l \notin Sending
  PROVE  PromptInv'
BY QueueIsProc, Moves, QueueGoesCalm DEF TypeInv, TypeOK

\* The queue goes on to a plain place.
LEMMA QueuePlain ==
  ASSUME TypeInv, AckInv, PromptInv, Quiet, UNCHANGED calls,
         pc["queue"] \notin {"look", "learn", "candidate"},
         NEW l, l \notin Active, Goto("queue", l)
  PROVE  PromptInv'
<1>1. Plain(l, loc["queue"])
  BY DEF PromptInv, QueuePrompts, Plain
<1> QED
  BY <1>1, PlainFits, QueueGoesToCalm

LEMMA QueuePlainWith ==
  ASSUME TypeInv, AckInv, PromptInv, Quiet, UNCHANGED calls,
         NEW l, l \notin Active, NEW local, "decisive" \notin local.flag,
         GotoWith("queue", l, local)
  PROVE  PromptInv'
<1>1. Plain(l, local)
  BY DEF Plain
<1> QED
  BY <1>1, PlainFits, QueueGoesWithCalm

LEMMA StartReadsCalm ==
  ASSUME TypeInv, AckInv, PromptInv,
         StartRun \/ BeforeIntent \/ AfterIntent \/ CreateFailed \/ CreateLookup
  PROVE  PromptInv'
<1> USE StillReads, QueuePlain, QueuePlainWith DEF Active, Deciding, Sending, At
<1>1. CASE StartRun
  BY <1>1 DEF StartRun
<1>2. CASE BeforeIntent
  BY <1>2 DEF BeforeIntent
<1>3. CASE AfterIntent
  <2>1. CASE rec.cancelRequested
    BY <1>3, <2>1 DEF AfterIntent
  <2>2. CASE ~rec.cancelRequested
    <3>1. pc["queue"] = "afterIntent" /\ pc' = [pc EXCEPT !["queue"] = "creating"] /\ UNCHANGED loc
      BY <1>3, <2>2 DEF AfterIntent
    <3>2. OnlyMoves("queue") /\ pc'["queue"] = "creating" /\ loc'["queue"] = loc["queue"]
      BY <3>1, QueueIsProc DEF OnlyMoves, TypeInv, TypeOK, ControlOK
    <3>3. Plain("creating", loc["queue"])
      BY <3>1 DEF Plain, PromptInv, QueuePrompts
    <3> QED
      BY <1>3, <3>2, <3>3, PlainFits, QueueGoesCalm DEF AfterIntent
  <2> QED
    BY <2>1, <2>2
<1>4. CASE CreateFailed
  <2>1. "decisive" \notin loc["queue"].flag
    BY <1>4 DEF CreateFailed, PromptInv, QueuePrompts
  <2>2. "decisive" \notin With("queue", Flagged(rec.cancelRequested, "asked")).flag
    BY <2>1, QueueLocalTyped DEF With, Flagged, TypeInv, Locals
  <2> QED
    BY <1>4, <2>2 DEF CreateFailed
<1>5. CASE CreateLookup
  BY <1>5 DEF CreateLookup
<1> QED
  BY <1>1, <1>2, <1>3, <1>4, <1>5

LEMMA ObservingPrompts ==
  ASSUME TypeInv, AckInv, PromptInv, pc["queue"] \in {"reconcile", "claim"}
  PROVE  /\ Observing(rec).att = rec.attempt
         /\ "decisive" \notin Observing(rec).flag
<1>1. loc["queue"] \in Locals /\ "decisive" \notin loc["queue"].flag
  BY QueueLocalTyped DEF TypeInv, PromptInv, QueuePrompts
<1> QED
  BY <1>1 DEF Observing, Flagged, Locals

LEMMA QueueForgetsCalm ==
  ASSUME TypeInv, AckInv, PromptInv, Quiet, UNCHANGED calls,
         NEW l \in {"archive", "reconcile", "fail", "park", "correct", "ready", "gap"}, NEW n,
         Forget("queue", l, n),
         l \in {"correct", "ready", "gap"} => n = rec.attempt /\ Judged /\ pc["queue"] \in Active
  PROVE  PromptInv'
<1>1. PICK local : GotoWith("queue", l, local) /\ local.att = n /\ local.flag = {}
  BY ForgetFits
<1>2. CASE l \in {"archive", "reconcile", "fail", "park"}
  BY <1>1, <1>2, QueuePlainWith DEF Active, Deciding, Sending
<1>3. CASE l \in {"correct", "ready", "gap"}
  <2>1. rec.state = "needs_continue" => calls.repair = MaxRepairs
    BY <1>3 DEF PromptInv, QueuePrompts
  <2>2. QueuePrompts(l, local) /\ l \notin Sending
    BY <1>1, <1>3, <2>1 DEF QueuePrompts, Deciding, Sending
  <2> QED
    BY <1>1, <1>3, <2>2, QueueGoesWithCalm
<1> QED
  BY <1>2, <1>3

LEMMA ReconcileCalm ==
  ASSUME TypeInv, AckInv, PromptInv, Reconcile
  PROVE  PromptInv'
<1>1. At("queue", "reconcile") /\ Quiet /\ UNCHANGED calls
  BY StillReads DEF Reconcile
<1>2. ASSUME NEW l \in {"resolve", "start", "replayLookup", "resumeLookup"}, Goto("queue", l)
      PROVE  PromptInv'
  BY <1>1, <1>2, QueuePlain DEF At, Active, Deciding, Sending
<1>3. ASSUME NEW l \in {"observe", "recoverSend"}, GotoWith("queue", l, Observing(rec)),
             rec.state \in Reconciled
      PROVE  PromptInv'
  <2>1. PICK local : local = Observing(rec)
    OBVIOUS
  <2>2. local.att = rec.attempt /\ "decisive" \notin local.flag
    BY <1>1, <2>1, ObservingPrompts DEF At
  <2>3. QueuePrompts(l, local) /\ l \notin Sending
    BY <1>3, <2>2 DEF QueuePrompts, Sending, Reconciled
  <2> QED
    BY <1>1, <1>3, <2>1, <2>3, QueueGoesWithCalm DEF Reconciled, Underway
<1>4. Finish("queue") => PromptInv'
  BY <1>1, QueueEndsCalm
<1> QED
  BY <1>2, <1>3, <1>4 DEF Reconcile, ReconcileLive, ResumeStarting, Reconciled

LEMMA ReconcileReadsCalm ==
  ASSUME TypeInv, AckInv, PromptInv,
         ReplayLookup \/ ResumeLookup \/ RecoverSend \/ Observe \/ Look \/ Candidate \/ TurnEnded
  PROVE  PromptInv'
<1> USE StillReads
<1>q. QueuePrompts(pc["queue"], loc["queue"]) /\ QueueFits(pc["queue"], loc["queue"])
  BY DEF PromptInv, AckInv
<1>1. CASE ReplayLookup
  <2>1. CASE Goto("queue", "claim")
    BY <1>1, <2>1, QueuePlain DEF ReplayLookup, At, Active, Deciding, Sending
  <2>2. CASE /\ pc' = [pc EXCEPT !["queue"] = "creating"]
             /\ loc' = [loc EXCEPT !["queue"] = With("queue", {"replay"})]
    <3>1. /\ OnlyMoves("queue") /\ pc'["queue"] = "creating"
          /\ loc'["queue"] = With("queue", {"replay"})
      BY <2>2, QueueIsProc DEF OnlyMoves, TypeInv, TypeOK, ControlOK
    <3>2. "decisive" \notin With("queue", {"replay"}).flag
      BY <1>1, <1>q, QueueLocalTyped DEF ReplayLookup, At, QueuePrompts, With, TypeInv, Locals
    <3>3. Plain("creating", With("queue", {"replay"}))
      BY <3>2 DEF Plain, Active, Deciding, Sending
    <3> QED
      BY <1>1, <3>1, <3>3, PlainFits, QueueGoesCalm DEF ReplayLookup
  <2> QED
    BY <1>1, <2>1, <2>2 DEF ReplayLookup
<1>2. CASE ResumeLookup
  <2>1. "decisive" \notin With("queue", {"resume"}).flag
    BY <1>2, <1>q, QueueLocalTyped DEF ResumeLookup, At, QueuePrompts, With, TypeInv, Locals
  <2> QED
    BY <1>2, <2>1, QueuePlainWith, QueueEndsCalm DEF ResumeLookup, Active, Deciding, Sending
<1>3. CASE RecoverSend
  <2>1. CASE Finish("queue")
    BY <1>3, <2>1, QueueEndsCalm DEF RecoverSend
  <2>2. ASSUME NEW l \in {"echoed", "sendTimedOut", "observe"}, Goto("queue", l)
        PROVE  PromptInv'
    <3>1. QueuePrompts(l, loc["queue"]) /\ pc["queue"] \in Active /\ l \notin Sending
      BY <1>3, <1>q DEF RecoverSend, At, QueuePrompts, Active, Deciding, Sending
    <3> QED
      BY <1>3, <2>2, <3>1, QueueGoesToCalm DEF RecoverSend
  <2> QED
    BY <1>3, <2>1, <2>2 DEF RecoverSend
<1>4. CASE Observe
  <2>1. CASE Finish("queue")
    BY <1>4, <2>1, QueueEndsCalm DEF Observe
  <2> DEFINE certain == ~rec.outcomeUnknown /\ rec.ack[rec.attempt] = "acked"
             l == [With("queue", Flagged(certain, "decisive")) EXCEPT !.text = rec.attempt]
  <2>2. CASE GotoWith("queue", "look", l)
    <3>1. PICK local : local = l
      OBVIOUS
    <3>2. /\ local.att = loc["queue"].att
          /\ "decisive" \in local.flag => rec.ack[rec.attempt] = "acked"
      BY <1>4, <1>q, <3>1, QueueLocalTyped
         DEF Observe, At, QueuePrompts, With, Flagged, TypeInv, Locals
    <3>3. local.att = rec.attempt /\ rec.attempt \in Attempts
      BY <1>4, <1>q, <3>2 DEF Observe, At, QueuePrompts, QueueFits, Deciding
    <3>4. "decisive" \in local.flag => Judged
      BY <3>2, <3>3 DEF Judged, AckInv, RecordOK, AckedMeansReceived
    <3>5. QueuePrompts("look", local) /\ pc["queue"] \in Active
      BY <1>4, <1>q, <3>3, <3>4 DEF Observe, At, QueuePrompts, Active, Deciding, Sending
    <3> QED
      BY <1>4, <2>2, <3>1, <3>5, QueueGoesWithCalm DEF Observe, Sending
  <2> QED
    BY <1>4, <2>1, <2>2 DEF Observe
<1>5. CASE Look
  <2>1. CASE \E n : Forget("queue", "fail", n) \/ Forget("queue", "park", n)
    BY <1>5, <2>1, QueueForgetsCalm DEF Look
  <2>2. CASE Finish("queue")
    BY <1>5, <2>2, QueueEndsCalm DEF Look
  <2>3. ASSUME NEW l \in {"candidate", "learn"}, Goto("queue", l),
               l = "candidate" => Has("queue", "decisive")
        PROVE  PromptInv'
    <3>1. QueuePrompts(l, loc["queue"]) /\ pc["queue"] \in Active
      BY <1>5, <1>q, <2>3 DEF Look, At, Has, QueuePrompts, Active, Deciding
    <3> QED
      BY <1>5, <2>3, <3>1, QueueGoesToCalm DEF Look, Sending
  <2> QED
    BY <1>5, <2>1, <2>2, <2>3 DEF Look
<1>6. CASE Candidate
  <2>1. loc["queue"].att = rec.attempt /\ Judged /\ pc["queue"] \in Active
    BY <1>6, <1>q DEF Candidate, At, QueuePrompts, Active, Deciding
  <2>2. \E l \in {"park", "fail", "correct", "ready", "gap"} : \E n :
          /\ Forget("queue", l, n)
          /\ l \in {"park", "fail"} \/ n = loc["queue"].att
    BY <1>6 DEF Candidate, HandleFailure
  <2> QED
    BY <1>6, <2>1, <2>2, QueueForgetsCalm DEF Candidate
<1>7. CASE TurnEnded
  <2>1. CASE Finish("queue")
    BY <1>7, <2>1, QueueEndsCalm DEF TurnEnded
  <2>2. CASE \E n : Forget("queue", "archive", n) \/ Forget("queue", "reconcile", n)
    BY <1>7, <2>2, QueueForgetsCalm DEF TurnEnded
  <2>3. CASE /\ Goto("queue", "turnFailed") /\ loc["queue"].ev.n = rec.attempt
             /\ rec.state \in Reconciled
    <3>1. QueuePrompts("turnFailed", loc["queue"])
      BY <1>7, <1>q, <2>3 DEF TurnEnded, At, QueuePrompts, Deciding, Reconciled
    <3> QED
      BY <1>7, <2>3, <3>1, QueueGoesToCalm DEF TurnEnded, Sending, Reconciled, Underway
  <2> QED
    BY <1>7, <2>1, <2>2, <2>3 DEF TurnEnded, EndTurn, OfThisTurn
<1> QED
  BY <1>1, <1>2, <1>3, <1>4, <1>5, <1>6, <1>7

-----------------------------------------------------------------------------
(* The queue's calm writes. *)

LEMMA QueueCalmPlain ==
  ASSUME TypeInv, AckInv, PromptInv, Calm("queue"),
         NEW l, NEW local, pc'["queue"] = l, loc'["queue"] = local, Plain(l, local)
  PROVE  PromptInv'
<1>1. l \notin Active /\ l \notin Sending /\ l # "sending"
  BY DEF Plain, Active, Sending
<1>2. QueuePrompts(pc["queue"], loc["queue"])'
  BY DEF Plain, QueuePrompts, Active, Sending, Deciding
<1> QED
  BY <1>1, <1>2, QueueCalm

LEMMA QueueCalmEnds ==
  ASSUME TypeInv, AckInv, PromptInv, Calm("queue"), Finish("queue")
  PROVE  PromptInv'
<1>1. Plain("idle", NoLocals)
  BY DEF Plain, Active, Sending, Deciding, NoLocals
<1> QED
  BY <1>1, QueueIsProc, Moves, QueueCalmPlain DEF TypeInv, TypeOK

\* A write that neither adds nor settles an entry.
LEMMA SameEntries ==
  ASSUME NEW p \in Procs, rec'.ack = rec.ack
  PROVE  EntriesSettle(p)
BY DEF EntriesSettle

\* Who is sending while an entry is settled.
LEMMA SettledEntry ==
  ASSUME TypeInv, NEW p \in Procs, NEW n \in Attempts, NEW a \in {"acked", "unknown"},
         rec'.ack = Acked(rec, n, a).ack,
         n = rec.attempt => \A q \in Procs : q # p => pc[q] # "sending"
  PROVE  EntriesSettle(p)
<1>1. rec.ack \in [Attempts -> Acks] /\ rec \in Records
  BY AttemptIsNat
<1>2. \A m \in Attempts : rec'.ack[m] = IF m = n /\ rec.ack[m] # "none" THEN a ELSE rec.ack[m]
  <2>1. rec'.ack = [rec.ack EXCEPT ![n] = IF rec.ack[n] = "none" THEN rec.ack[n] ELSE a]
    BY <1>1, AckedEntry
  <2> QED
    BY <1>1, <2>1
<1> QED
  BY <1>2 DEF EntriesSettle

\* What is written at the end of a round or of a job.
LEMMA RoundsEnd ==
  ASSUME TypeInv, NEW p \in Procs, OnlyMoves(p), UNCHANGED <<host, calls>>,
         \/ rec' = Failed(rec) \/ rec' = Canceled(rec)
         \/ p = "queue" /\ (rec' = Uncertain(rec) \/ rec' = Parked(rec))
  PROVE  Calm(p)
<1>1. /\ rec'.attempt = rec.attempt /\ rec'.ack = rec.ack
      /\ rec'.state \in {"failed", "canceled", "needs_continue"}
      /\ p # "queue" => rec'.state # "needs_continue"
  BY AttemptIsNat DEF Failed, Canceled, Uncertain, Parked, Records
<1> QED
  BY <1>1, SameEntries DEF Calm, host, Underway

LEMMA MarkedIsCalm ==
  ASSUME TypeInv, AckInv, PromptInv, OnlyMoves("queue"), UNCHANGED <<host, calls>>,
         Creates(pc["queue"], loc["queue"]), rec' = AgentMarked(rec)
  PROVE  Calm("queue") /\ \A q \in Callers : pc[q] \notin Beginning
<1>1. /\ rec'.attempt = rec.attempt /\ rec'.state \in {"canceling", "designing"}
      /\ \A n \in Attempts : rec'.ack[n] = IF n = rec.attempt /\ rec.ack[n] = "pending"
                                             THEN "acked" ELSE rec.ack[n]
  BY AttemptIsNat DEF AgentMarked, Records
<1>2. \A q \in Callers : pc[q] \notin Repairing
  BY DEF AckInv, CreateAlone
<1>3. \A q \in Procs : q # "queue" => pc[q] # "sending"
  BY <1>2 DEF Procs, Repairing, Sending
<1>4. EntriesSettle("queue")
  BY <1>1, <1>3 DEF EntriesSettle
<1> QED
  BY <1>1, <1>2, <1>4 DEF Calm, host, Repairing, Beginning

LEMMA StartWritesCalm ==
  ASSUME TypeInv, AckInv, PromptInv, MarkCreated \/ CreateUnsure \/ ClaimAgent
  PROVE  PromptInv'
<1>q. QueuePrompts(pc["queue"], loc["queue"])
  BY DEF PromptInv
<1>m. UNCHANGED calls /\ UNCHANGED <<tasks, host>>
  BY DEF MarkCreated, CreateUnsure, ClaimAgent, Local, spent
<1>e. rec' = rec /\ Finish("queue") => PromptInv'
  BY <1>m, QueueEndsCalm DEF Quiet
<1>1. CASE MarkCreated
  <2>1. pc["queue"] = "mark" /\ "decisive" \notin loc["queue"].flag
    BY <1>1, <1>q DEF MarkCreated, At, QueuePrompts
  <2>2. Creates(pc["queue"], loc["queue"])
    BY <2>1 DEF Creates, CreateLabels
  <2>3. CASE rec' = rec /\ Goto("queue", "createFailed")
    BY <1>m, <2>1, <2>3, QueuePlain DEF Quiet, Active, Sending, Deciding
  <2>4. CASE rec' = AgentMarked(rec) /\ GotoWith("queue", "archive", With("queue", {"guarded"}))
    <3>1. PICK local : local = With("queue", {"guarded"})
      OBVIOUS
    <3>2. "decisive" \notin local.flag
      BY <2>1, <3>1, QueueLocalTyped DEF With, TypeInv, Locals
    <3>3. OnlyMoves("queue") /\ pc'["queue"] = "archive" /\ loc'["queue"] = local
      BY <2>4, <3>1, QueueIsProc, Moves DEF TypeInv, TypeOK
    <3>4. Plain("archive", local)
      BY <3>2 DEF Plain, Active, Sending, Deciding
    <3> QED
      BY <1>m, <2>2, <2>4, <3>3, <3>4, MarkedIsCalm, QueueCalmPlain
  <2>5. CASE rec' = AgentMarked(rec) /\ Finish("queue")
    BY <1>m, <2>2, <2>5, MarkedIsCalm, QueueCalmEnds, QueueIsProc, Moves DEF TypeInv, TypeOK
  <2> QED
    BY <1>1, <2>3, <2>4, <2>5 DEF MarkCreated, Update, StoreFault
<1>2. CASE CreateUnsure
  <2>1. CASE rec' = Uncertain(rec) /\ Finish("queue")
    BY <1>m, <2>1, RoundsEnd, QueueCalmEnds, QueueIsProc, Moves DEF TypeInv, TypeOK
  <2> QED
    BY <1>2, <1>e, <2>1 DEF CreateUnsure, Update, StoreFault
<1>3. CASE ClaimAgent
  <2>1. pc["queue"] = "claim" /\ "decisive" \notin loc["queue"].flag
    BY <1>3, <1>q DEF ClaimAgent, At, QueuePrompts
  <2>2. Creates(pc["queue"], loc["queue"])
    BY <2>1 DEF Creates, CreateLabels
  <2>3. CASE rec' = AgentMarked(rec) /\ Goto("queue", "archive")
    <3>1. OnlyMoves("queue") /\ pc'["queue"] = "archive" /\ loc'["queue"] = loc["queue"]
      BY <2>3, QueueIsProc, Moves DEF TypeInv, TypeOK
    <3>2. Plain("archive", loc["queue"])
      BY <2>1 DEF Plain, Active, Sending, Deciding
    <3> QED
      BY <1>m, <2>2, <2>3, <3>1, <3>2, MarkedIsCalm, QueueCalmPlain
  <2>4. CASE rec' = AgentMarked(rec) /\ GotoWith("queue", "observe", Observing(rec))
    <3>1. PICK local : local = Observing(rec)
      OBVIOUS
    <3>2. local.att = rec.attempt /\ "decisive" \notin local.flag
      BY <2>1, <3>1, ObservingPrompts
    <3>3. OnlyMoves("queue") /\ pc'["queue"] = "observe" /\ loc'["queue"] = local
      BY <2>4, <3>1, QueueIsProc, Moves DEF TypeInv, TypeOK
    <3>4. Calm("queue") /\ \A q \in Callers : pc[q] \notin Beginning
      BY <1>m, <2>2, <2>4, <3>3, MarkedIsCalm
    <3>5. rec'.attempt = rec.attempt /\ rec'.state # "needs_continue"
      BY <2>4, AttemptIsNat DEF AgentMarked, Records
    <3>6. QueuePrompts(pc["queue"], loc["queue"])'
      BY <3>2, <3>3, <3>5 DEF QueuePrompts
    <3> QED
      BY <3>3, <3>4, <3>6, QueueCalm DEF Sending
  <2>5. CASE rec' = AgentMarked(rec) /\ Finish("queue")
    BY <1>m, <2>2, <2>5, MarkedIsCalm, QueueCalmEnds, QueueIsProc, Moves DEF TypeInv, TypeOK
  <2> QED
    BY <1>3, <1>e, <2>3, <2>4, <2>5 DEF ClaimAgent, Update, StoreFault
<1> QED
  BY <1>1, <1>2, <1>3

LEMMA ReconcileWritesCalm ==
  ASSUME TypeInv, AckInv, PromptInv,
         SendEchoed \/ SendTimedOut \/ LearnTurn \/ WriteReady \/ WriteGap \/ TurnFailed
  PROVE  PromptInv'
<1>q. QueuePrompts(pc["queue"], loc["queue"]) /\ QueueFits(pc["queue"], loc["queue"])
  BY DEF PromptInv, AckInv
<1>m. UNCHANGED calls /\ UNCHANGED <<tasks, host>>
  BY DEF SendEchoed, SendTimedOut, LearnTurn, WriteReady, WriteGap, TurnFailed, Local, spent
<1>e. rec' = rec /\ Finish("queue") => PromptInv'
  BY <1>m, QueueEndsCalm DEF Quiet
<1>f. Finish("queue") => OnlyMoves("queue")
  BY QueueIsProc, Moves DEF TypeInv, TypeOK
<1> DEFINE n == loc["queue"].att
<1>1. CASE SendEchoed
  <2>1. CASE rec' = Echoed(rec, n) /\ Finish("queue")
    <3>1. n \in Attempts /\ delivered[n] > 0
      BY <1>1, <1>q DEF SendEchoed, At, QueueFits
    <3>2. /\ rec'.attempt = rec.attempt /\ rec'.ack = Acked(rec, n, "acked").ack
          /\ rec'.state \in Underway => rec.state \in Underway
      BY <2>1, AttemptIsNat DEF Echoed, Acked, Records, Underway
    <3>3. n = rec.attempt => \A q \in Procs : q # "queue" => pc[q] # "sending"
      BY <3>1 DEF PromptInv, CallerPrompts, Fresh, Procs
    <3>4. EntriesSettle("queue")
      BY <3>1, <3>2, <3>3, SettledEntry, QueueIsProc
    <3>5. Calm("queue")
      BY <1>m, <1>f, <2>1, <3>2, <3>4 DEF Calm, host
    <3> QED
      BY <2>1, <3>5, QueueCalmEnds
  <2> QED
    BY <1>1, <1>e, <2>1 DEF SendEchoed, Update, StoreFault
<1>2. CASE SendTimedOut \/ TurnFailed
  <2>1. CASE (rec' = Uncertain(rec) \/ rec' = Failed(rec)) /\ Finish("queue")
    BY <1>m, <1>f, <2>1, RoundsEnd, QueueCalmEnds, QueueIsProc
  <2> QED
    BY <1>2, <1>e, <2>1 DEF SendTimedOut, TurnFailed, Update, StoreFault
<1>3. CASE LearnTurn
  <2> DEFINE next == [rec EXCEPT !.turnKnown = [@ EXCEPT ![n] = rec.ack[n] # "none"]]
             l == [loc["queue"] EXCEPT !.att = rec.attempt]
  <2>1. rec' = next /\ OnlyMoves("queue") => Calm("queue") /\ rec'.state = rec.state
    <3> SUFFICES ASSUME rec' = next, OnlyMoves("queue")
                 PROVE  Calm("queue") /\ rec'.state = rec.state
      OBVIOUS
    <3>1. rec'.attempt = rec.attempt /\ rec'.ack = rec.ack /\ rec'.state = rec.state
      BY AttemptIsNat DEF Records
    <3> QED
      BY <1>m, <3>1, SameEntries, QueueIsProc DEF Calm, host
  <2>2. CASE rec' = next /\ Finish("queue")
    BY <1>f, <2>1, <2>2, QueueCalmEnds
  <2>3. CASE rec' = next /\ Has("queue", "decisive") /\ GotoWith("queue", "candidate", l)
    <3>1. PICK local : local = l
      OBVIOUS
    <3>2. OnlyMoves("queue") /\ pc'["queue"] = "candidate" /\ loc'["queue"] = local
      BY <2>3, <3>1, QueueIsProc, Moves DEF TypeInv, TypeOK
    <3>3. Calm("queue") /\ rec'.state = rec.state /\ rec'.attempt = rec.attempt
      BY <2>1, <2>3, <3>2 DEF Calm
    <3>4. local.att = rec.attempt
      BY <3>1, QueueLocalTyped DEF TypeInv, Locals
    <3>5. Judged
      BY <1>q, <2>3 DEF QueuePrompts, Has
    <3>6. Judged'
      BY <3>3, <3>5, <1>m, <2>3, AttemptIsNat DEF Judged, host, Records
    <3>7. pc["queue"] = "learn"
      BY <1>3 DEF LearnTurn, At
    <3>8. rec.state = "needs_continue" => calls.repair = MaxRepairs
      BY <1>q, <3>7 DEF QueuePrompts, Active, Deciding
    <3>9. QueuePrompts(pc["queue"], loc["queue"])'
      BY <1>m, <3>2, <3>3, <3>4, <3>6, <3>8 DEF QueuePrompts
    <3> QED
      BY <3>2, <3>3, <3>7, <3>9, QueueCalm DEF Sending, Active, Deciding
  <2> QED
    BY <1>3, <1>e, <2>2, <2>3 DEF LearnTurn, Update, StoreFault
<1>4. CASE WriteReady \/ WriteGap
  <2>1. CASE /\ rec' = Ready(rec, n) \/ rec' = GapReported(rec, n)
             /\ Finish("queue")
    <3>1. n = rec.attempt
      BY <1>4, <1>q DEF WriteReady, WriteGap, At, QueuePrompts, Deciding
    <3>2. rec'.attempt = rec.attempt /\ rec'.ack = rec.ack /\ rec'.state \in {"ready", "failed"}
      BY <2>1, <3>1, AttemptIsNat DEF Ready, GapReported, Records
    <3>3. Calm("queue")
      BY <1>m, <1>f, <2>1, <3>2, SameEntries, QueueIsProc DEF Calm, host, Underway
    <3> QED
      BY <2>1, <3>3, QueueCalmEnds
  <2> QED
    BY <1>4, <1>e, <2>1 DEF WriteReady, WriteGap, Update, StoreFault, server
<1> QED
  BY <1>1, <1>2, <1>3, <1>4

LEMMA QueueSharesCalm ==
  ASSUME TypeInv, AckInv, PromptInv, SharedStep("queue"), ~SendReturns("queue")
  PROVE  PromptInv'
<1>q. QueuePrompts(pc["queue"], loc["queue"]) /\ QueueFits(pc["queue"], loc["queue"])
  BY DEF PromptInv, AckInv
<1>m. UNCHANGED calls /\ UNCHANGED tasks /\ UNCHANGED <<turn, delivered>>
  BY DEF SharedStep, Sent, SendUnknown, Fail, Park, Resolve, CancelLookup, Adopt, Archive,
         ArchiveReturns, CancelWrite, Local, spent, host
<1>f. Finish("queue") => OnlyMoves("queue")
  BY QueueIsProc, Moves DEF TypeInv, TypeOK
<1>t. Throw("queue") => OnlyMoves("queue")
  BY QueueIsProc, Throws DEF TypeInv, TypeOK
<1>c. pc["queue"] \in CancelLabels => "decisive" \notin loc["queue"].flag
  BY <1>q DEF QueuePrompts, CancelLabels
<1> DEFINE n == loc["queue"].att
<1>1. CASE Sent("queue") \/ SendUnknown("queue")
  <2>1. /\ pc["queue"] \in Sending /\ n \in Attempts
        /\ UNCHANGED host
    BY <1>1, <1>q DEF Sent, SendUnknown, At, QueueFits, Sending, Local
  <2>2. CASE rec' = rec /\ Finish("queue")
    BY <1>m, <2>1, <2>2, QueueEndsCalm DEF Quiet
  <2>3. CASE rec' = rec /\ Goto("queue", "sendUnknown")
    <3>1. OnlyMoves("queue") /\ pc'["queue"] = "sendUnknown" /\ loc'["queue"] = loc["queue"]
      BY <2>3, QueueIsProc, Moves DEF TypeInv, TypeOK
    <3>2. Calm("queue")
      BY <1>m, <2>1, <2>3, <3>1, QuietCalm, QueueIsProc DEF Quiet
    <3>3. QueuePrompts(pc["queue"], loc["queue"])'
      BY <1>m, <1>q, <2>1, <2>3, <3>1 DEF QueuePrompts, Sending, Active, Deciding
    <3> QED
      BY <2>1, <3>1, <3>2, <3>3, QueueCalm DEF Active
  <2>4. CASE /\ rec' = Designing(rec, n) \/ rec' = SendUncertain(rec, n)
             /\ Finish("queue")
    <3>1. PICK a \in {"acked", "unknown"} :
            /\ rec'.attempt = rec.attempt /\ rec'.ack = Acked(rec, n, a).ack
            /\ rec'.state \in {"designing", "needs_continue"}
      <4>1. CASE rec' = Designing(rec, n)
        BY <4>1, AttemptIsNat DEF Designing, Acked, Records
      <4>2. CASE rec' = SendUncertain(rec, n)
        BY <4>2, AttemptIsNat DEF SendUncertain, Uncertain, Parked, Acked, Records
      <4> QED
        BY <2>4, <4>1, <4>2
    <3>2. \A q \in Callers : pc[q] # "sending" /\ pc[q] \notin Beginning
      BY <2>1 DEF PromptInv, Apart, Active
    <3>3. \A q \in Procs : q # "queue" => pc[q] # "sending"
      BY <3>2 DEF Procs
    <3>4. EntriesSettle("queue")
      BY <2>1, <3>1, <3>3, SettledEntry, QueueIsProc
    <3>5. Calm("queue")
      BY <1>m, <1>f, <2>4, <3>1, <3>2, <3>4 DEF Calm
    <3> QED
      BY <2>4, <3>5, QueueCalmEnds
  <2> QED
    BY <1>1, <2>2, <2>3, <2>4 DEF Sent, SendUnknown, Update, StoreFault
<1>2. CASE Fail("queue")
  <2>1. UNCHANGED host
    BY <1>2 DEF Fail, Local
  <2>2. CASE rec' = rec /\ Finish("queue")
    BY <1>m, <2>1, <2>2, QueueEndsCalm DEF Quiet
  <2>3. CASE rec' = Failed(rec) /\ Finish("queue")
    BY <1>m, <1>f, <2>1, <2>3, RoundsEnd, QueueCalmEnds, QueueIsProc
  <2> QED
    BY <1>2, <2>2, <2>3 DEF Fail, Update, StoreFault
<1>3. CASE Park("queue") \/ CancelWrite("queue")
  <2>1. UNCHANGED host /\ pc["queue"] \in CancelLabels
    BY <1>3 DEF Park, CancelWrite, Local, At, CancelLabels
  <2>2. CASE rec' = rec /\ Throw("queue")
    <3>1. Calm("queue")
      BY <1>m, <1>t, <2>1, <2>2, QuietCalm, QueueIsProc DEF Quiet
    <3>2. PICK l, local : pc'["queue"] = l /\ loc'["queue"] = local
      OBVIOUS
    <3>3. l \in {"idle", "createFailed"}
      BY <2>2, <3>2, QueueIsProc, Throws DEF TypeInv, TypeOK
    <3>4. "decisive" \notin local.flag
      <4>1. CASE Finish("queue")
        BY <3>2, <4>1, QueueIsProc, Moves DEF TypeInv, TypeOK, NoLocals
      <4>2. CASE GotoWith("queue", "createFailed",
                          [loc["queue"] EXCEPT !.flag = @ \ {"guarded", "unsure"}])
        <5>1. local = [loc["queue"] EXCEPT !.flag = @ \ {"guarded", "unsure"}]
          BY <3>2, <4>2, QueueIsProc, Moves DEF TypeInv, TypeOK
        <5> QED
          BY <1>c, <2>1, <5>1, QueueLocalTyped DEF TypeInv, Locals
      <4> QED
        BY <2>2, <4>1, <4>2 DEF Throw
    <3>5. Plain(l, local)
      BY <3>3, <3>4 DEF Plain, Active, Sending, Deciding
    <3> QED
      BY <3>1, <3>2, <3>5, QueueCalmPlain
  <2>3. CASE (rec' = Parked(rec) \/ rec' = Canceled(rec)) /\ Finish("queue")
    BY <1>m, <1>f, <2>1, <2>3, RoundsEnd, QueueCalmEnds, QueueIsProc
  <2> QED
    BY <1>3, <2>2, <2>3 DEF Park, CancelWrite, Update, StoreFault
<1>4. CASE Resolve("queue") \/ CancelLookup("queue") \/ Archive("queue")
  <2>1. Quiet /\ pc["queue"] \in CancelLabels
    BY <1>4, StillReads DEF Resolve, CancelLookup, Archive, At, CancelLabels
  <2>2. CASE Finish("queue")
    BY <1>m, <2>1, <2>2, QueueEndsCalm
  <2>3. CASE \E l \in CancelLabels : Goto("queue", l)
    BY <1>m, <2>1, <2>3, QueuePlain DEF CancelLabels, Active, Sending, Deciding
  <2> QED
    BY <1>4, <2>2, <2>3 DEF Resolve, CancelLookup, Archive, CancelLabels
<1>5. CASE Adopt("queue")
  <2>1. UNCHANGED host /\ pc["queue"] = "adopt"
    BY <1>5 DEF Adopt, Local, At
  <2>2. CASE rec' = rec /\ Finish("queue")
    BY <1>m, <2>1, <2>2, QueueEndsCalm DEF Quiet
  <2>3. CASE rec' = [rec EXCEPT !.agentCreated = TRUE] /\ Goto("queue", "archive")
    <3>1. rec'.attempt = rec.attempt /\ rec'.ack = rec.ack /\ rec'.state = rec.state
      BY <2>3, AttemptIsNat DEF Records
    <3>2. OnlyMoves("queue") /\ pc'["queue"] = "archive" /\ loc'["queue"] = loc["queue"]
      BY <2>3, QueueIsProc, Moves DEF TypeInv, TypeOK
    <3>3. Calm("queue")
      BY <1>m, <3>1, <3>2, SameEntries, QueueIsProc DEF Calm
    <3>4. Plain("archive", loc["queue"])
      BY <1>c, <2>1 DEF Plain, Active, Sending, Deciding, CancelLabels
    <3> QED
      BY <3>2, <3>3, <3>4, QueueCalmPlain
  <2> QED
    BY <1>5, <2>2, <2>3 DEF Adopt, Update, StoreFault
<1>6. CASE ArchiveReturns("queue")
  <2>1. pc["queue"] = "archiving" /\ rec' = rec
    BY <1>6 DEF ArchiveReturns, At, server
  <2>2. PICK l \in {"cancelWrite", "park"} : Goto("queue", l)
    BY <1>6 DEF ArchiveReturns
  <2>3. OnlyMoves("queue") /\ pc'["queue"] = l /\ loc'["queue"] = loc["queue"]
    BY <2>2, QueueIsProc, Moves DEF TypeInv, TypeOK
  <2>4. Calm("queue")
    BY <1>m, <2>1, <2>3, SameEntries, QueueIsProc DEF Calm
  <2>5. Plain(l, loc["queue"])
    BY <1>c, <2>1 DEF Plain, Active, Sending, Deciding, CancelLabels
  <2> QED
    BY <2>3, <2>4, <2>5, QueueCalmPlain
<1> QED
  BY <1>1, <1>2, <1>3, <1>4, <1>5, <1>6 DEF SharedStep

LEMMA RunTaskCalm ==
  ASSUME TypeInv, AckInv, PromptInv, RunTask
  PROVE  PromptInv'
<1>1. Head(tasks) \in Tasks
  BY DEF RunTask, TypeInv, TypeOK, RestOK
<1>2. PICK l, local : /\ l = Head(tasks).kind
                      /\ local = [NoLocals EXCEPT !.task = Head(tasks).kind, !.ev = Head(tasks).ev]
  OBVIOUS
<1>3. OnlyMoves("queue") /\ pc'["queue"] = l /\ loc'["queue"] = local
  BY <1>2, QueueIsProc DEF RunTask, OnlyMoves, TypeInv, TypeOK, ControlOK
<1>4. l \in {"start", "reconcile", "turn"} /\ "decisive" \notin local.flag
  BY <1>1, <1>2 DEF Tasks, NoLocals
<1>5. Plain(l, local)
  BY <1>4 DEF Plain, Active, Sending, Deciding
<1>6. Calm("queue")
  BY <1>3, SameEntries, QueueIsProc DEF RunTask, server, host, spent, Calm
<1> QED
  BY <1>3, <1>5, <1>6, QueueCalmPlain

-----------------------------------------------------------------------------
(* The callers' calm steps. *)

LEMMA CallerCalmElsewhere ==
  ASSUME TypeInv, AckInv, PromptInv, NEW p \in Callers, Calm(p), pc'[p] \notin Repairing
  PROVE  PromptInv'
BY CallerCalm DEF CallerPrompts, Repairing, Beginning, Sending

LEMMA CallerGotoMoves ==
  ASSUME TypeInv, NEW p \in Callers, NEW l, Goto(p, l)
  PROVE  OnlyMoves(p) /\ pc'[p] = l /\ loc'[p] = loc[p]
BY CallerIsProc, Moves DEF TypeInv, TypeOK

LEMMA CallerFinishes ==
  ASSUME TypeInv, NEW p \in Callers, Finish(p)
  PROVE  OnlyMoves(p) /\ pc'[p] \notin Repairing
<1>1. OnlyMoves(p) /\ pc'[p] = "idle"
  BY CallerIsProc, Moves DEF TypeInv, TypeOK
<1> QED
  BY <1>1 DEF Repairing, Sending

LEMMA CallerEndsCalm ==
  ASSUME TypeInv, AckInv, PromptInv, Quiet, UNCHANGED calls, NEW p \in Callers, Finish(p)
  PROVE  PromptInv'
BY CallerGotoMoves, CallerFinishes, CallerIsProc, QuietCalm, CallerCalmElsewhere

LEMMA CallerGoesToCalm ==
  ASSUME TypeInv, AckInv, PromptInv, Quiet, UNCHANGED calls, NEW p \in Callers,
         NEW l, Goto(p, l), l \notin Repairing
  PROVE  PromptInv'
BY CallerGotoMoves, CallerFinishes, CallerIsProc, QuietCalm, CallerCalmElsewhere

LEMMA RequestCalm ==
  ASSUME TypeInv, AckInv, PromptInv, NEW p \in Callers, Cancel(p) \/ Recheck(p)
  PROVE  PromptInv'
<1>1. PICK l \in {"askCancel", "recheck"} : OnlyMoves(p) /\ pc'[p] = l
  BY CallerIsProc DEF Cancel, Recheck, OnlyMoves, TypeInv, TypeOK, ControlOK
<1>2. calls'.repair = calls.repair
  BY DEF Cancel, Recheck, Call, TypeInv, TypeOK, RestOK
<1>3. Calm(p)
  BY <1>1, <1>2, CallerIsProc, SameEntries DEF Cancel, Recheck, Call, server, host, Calm
<1> QED
  BY <1>1, <1>3, CallerCalmElsewhere DEF Repairing, Sending

LEMMA CallerStepCalm ==
  ASSUME TypeInv, AckInv, PromptInv, NEW p \in Callers,
         AskCancel(p) \/ WriteRecheck(p) \/ RepairLook(p)
  PROVE  PromptInv'
<1>m. UNCHANGED calls /\ UNCHANGED <<tasks, host>>
  BY DEF AskCancel, WriteRecheck, RepairLook, Local, spent
<1>e. rec' = rec /\ Finish(p) => PromptInv'
  BY <1>m, CallerEndsCalm DEF Quiet
<1>1. CASE AskCancel(p)
  <2>1. CASE rec' = CancelAsked(rec) /\ Goto(p, "resolve")
    <3>1. rec'.attempt = rec.attempt /\ rec'.ack = rec.ack /\ rec'.state = "canceling"
      BY <2>1, AttemptIsNat DEF CancelAsked, Records
    <3>2. OnlyMoves(p) /\ pc'[p] = "resolve"
      BY <2>1, CallerGotoMoves
    <3>3. Calm(p)
      BY <1>m, <3>1, <3>2, SameEntries, CallerIsProc DEF Calm, host, Underway
    <3> QED
      BY <3>2, <3>3, CallerCalmElsewhere DEF Repairing, Sending
  <2> QED
    BY <1>1, <1>e, <2>1 DEF AskCancel, Update, StoreFault
<1>2. CASE WriteRecheck(p)
  <2>1. CASE rec' = [rec EXCEPT !.state = "ready"] /\ Finish(p)
    <3>1. rec'.attempt = rec.attempt /\ rec'.ack = rec.ack /\ rec'.state = "ready"
      BY <2>1, AttemptIsNat DEF Records
    <3>2. OnlyMoves(p) /\ pc'[p] \notin Repairing
      BY <2>1, CallerFinishes
    <3>3. Calm(p)
      BY <1>m, <3>1, <3>2, SameEntries, CallerIsProc DEF Calm, host, Underway
    <3> QED
      BY <3>2, <3>3, CallerCalmElsewhere
  <2> QED
    BY <1>2, <1>e, <2>1 DEF WriteRecheck, Update, StoreFault, server
<1>3. CASE RepairLook(p)
  <2>1. Quiet /\ pc[p] = "repairLook"
    BY <1>3, StillReads DEF RepairLook, At
  <2>2. CASE Goto(p, "repair")
    <3>1. OnlyMoves(p) /\ pc'[p] = "repair" /\ loc'[p] = loc[p]
      BY <2>2, CallerGotoMoves
    <3>2. Calm(p)
      BY <1>m, <2>1, <3>1, QuietCalm, CallerIsProc
    <3>3. CallerPrompts(pc[p], loc[p])
      BY DEF PromptInv
    <3>4. CallerPrompts(pc[p], loc[p])'
      BY <1>m, <2>1, <3>1, <3>3 DEF CallerPrompts, Repairing, Beginning, Sending, Quiet
    <3> QED
      BY <2>1, <3>1, <3>2, <3>4, CallerCalm DEF Repairing, Beginning, Sending
  <2> QED
    BY <1>3, <1>e, <2>1, <2>2 DEF RepairLook, Quiet
<1> QED
  BY <1>1, <1>2, <1>3

LEMMA CallerSharesCalm ==
  ASSUME TypeInv, AckInv, PromptInv, NotBoth, MaxRepairs <= 1,
         NEW p \in Callers, SharedStep(p), ~SendReturns(p)
  PROVE  PromptInv'
<1>q. CallerPrompts(pc[p], loc[p]) /\ CallerFits(pc[p], loc[p]) /\ Apart(pc[p], loc[p].att)
  BY DEF PromptInv, AckInv
<1>m. UNCHANGED calls /\ UNCHANGED tasks /\ UNCHANGED <<turn, delivered>>
  BY DEF SharedStep, Sent, SendUnknown, Fail, Park, Resolve, CancelLookup, Adopt, Archive,
         ArchiveReturns, CancelWrite, Local, spent, host
<1>l. CancelLabels \cap Repairing = {}
  BY DEF CancelLabels, Repairing, Sending
<1> DEFINE n == loc[p].att
<1>1. CASE Sent(p) \/ SendUnknown(p)
  <2>1. /\ pc[p] \in Sending /\ n \in Attempts
        /\ UNCHANGED host
    BY <1>1, <1>q DEF Sent, SendUnknown, At, CallerFits, Sending, Repairing, Local
  <2>2. CASE rec' = rec /\ Finish(p)
    BY <1>m, <2>1, <2>2, CallerEndsCalm DEF Quiet
  <2>3. CASE rec' = rec /\ Goto(p, "sendUnknown")
    <3>1. OnlyMoves(p) /\ pc'[p] = "sendUnknown" /\ loc'[p] = loc[p]
      BY <2>3, CallerGotoMoves
    <3>2. Calm(p)
      BY <1>m, <2>1, <2>3, <3>1, QuietCalm, CallerIsProc DEF Quiet
    <3>3. CallerPrompts(pc[p], loc[p])'
      BY <1>m, <1>q, <2>1, <2>3, <3>1 DEF CallerPrompts, Repairing, Beginning, Sending
    <3> QED
      BY <2>1, <3>1, <3>2, <3>3, CallerCalm DEF Repairing, Beginning, Sending
  <2>4. CASE /\ rec' = Designing(rec, n) \/ rec' = SendUncertain(rec, n)
             /\ Finish(p)
    <3>1. PICK a \in {"acked", "unknown"} :
            /\ rec'.attempt = rec.attempt /\ rec'.ack = Acked(rec, n, a).ack
            /\ rec'.state \in {"designing", "needs_continue"}
      <4>1. CASE rec' = Designing(rec, n)
        BY <4>1, AttemptIsNat DEF Designing, Acked, Records
      <4>2. CASE rec' = SendUncertain(rec, n)
        BY <4>2, AttemptIsNat DEF SendUncertain, Uncertain, Parked, Acked, Records
      <4> QED
        BY <2>4, <4>1, <4>2
    <3>2. \A q \in Callers : q # p => pc[q] \notin Repairing
      BY <2>1 DEF PromptInv, OneRepairs, Repairing
    <3>3. n = rec.attempt => pc["queue"] # "sending"
      BY <1>q, <2>1, AttemptIsNat DEF Apart
    <3>4. n = rec.attempt => \A q \in Procs : q # p => pc[q] # "sending"
      BY <3>2, <3>3 DEF Procs, Repairing, Sending
    <3>5. EntriesSettle(p)
      BY <2>1, <3>1, <3>4, SettledEntry, CallerIsProc
    <3>6. calls.repair = MaxRepairs
      BY <1>q, <2>1, AttemptIsNat DEF CallerPrompts, Repairing
    <3>7. Calm(p) /\ pc'[p] \notin Repairing
      BY <1>m, <2>4, <3>1, <3>2, <3>5, <3>6, CallerFinishes DEF Calm, Repairing, Beginning
    <3> QED
      BY <3>7, CallerCalmElsewhere
  <2> QED
    BY <1>1, <2>2, <2>3, <2>4 DEF Sent, SendUnknown, Update, StoreFault
<1>2. CASE Fail(p)
  BY <1>2, <1>q DEF Fail, At, CallerFits, CancelLabels, Repairing, Sending
<1>3. CASE Park(p) \/ CancelWrite(p)
  <2>1. UNCHANGED host /\ pc[p] \in CancelLabels
    BY <1>3 DEF Park, CancelWrite, Local, At, CancelLabels
  <2>2. CASE rec' = rec /\ Throw(p)
    <3>1. Finish(p)
      BY <1>q, <2>2 DEF CallerFits, Throw, Has
    <3> QED
      BY <1>m, <2>1, <2>2, <3>1, CallerEndsCalm DEF Quiet
  <2>3. CASE /\ rec' = Canceled(rec) \/ (rec' = Parked(rec) /\ Park(p))
             /\ Finish(p)
    <3>1. /\ rec'.attempt = rec.attempt /\ rec'.ack = rec.ack
          /\ rec'.state = "canceled" \/ (rec'.state = "needs_continue" /\ Park(p))
      BY <2>3, AttemptIsNat DEF Canceled, Parked, Records
    <3>2. Park(p) => MaxRepairs = 0
      BY <1>q, DesignServiceAssumption DEF Park, At, CallerFits, CancelLabels, NotBoth
    <3>3. Park(p) => calls.repair = MaxRepairs
      BY <3>2, AttemptIsNat
    <3>4. Calm(p) /\ pc'[p] \notin Repairing
      BY <1>m, <2>1, <2>3, <3>1, <3>3, SameEntries, CallerFinishes, CallerIsProc
         DEF Calm, host, Underway
    <3> QED
      BY <3>4, CallerCalmElsewhere
  <2> QED
    BY <1>3, <2>2, <2>3 DEF Park, CancelWrite, Update, StoreFault
<1>4. CASE Resolve(p) \/ CancelLookup(p) \/ Archive(p)
  <2>1. Quiet
    BY <1>4, StillReads DEF Resolve, CancelLookup, Archive
  <2>2. CASE Finish(p)
    BY <1>m, <2>1, <2>2, CallerEndsCalm
  <2>3. CASE \E l \in CancelLabels : Goto(p, l)
    BY <1>m, <1>l, <2>1, <2>3, CallerGoesToCalm
  <2> QED
    BY <1>4, <2>2, <2>3 DEF Resolve, CancelLookup, Archive, CancelLabels
<1>5. CASE Adopt(p)
  <2>1. UNCHANGED host
    BY <1>5 DEF Adopt, Local
  <2>2. CASE rec' = rec /\ Finish(p)
    BY <1>m, <2>1, <2>2, CallerEndsCalm DEF Quiet
  <2>3. CASE rec' = [rec EXCEPT !.agentCreated = TRUE] /\ Goto(p, "archive")
    <3>1. rec'.attempt = rec.attempt /\ rec'.ack = rec.ack /\ rec'.state = rec.state
      BY <2>3, AttemptIsNat DEF Records
    <3>2. OnlyMoves(p) /\ pc'[p] = "archive"
      BY <2>3, CallerGotoMoves
    <3>3. Calm(p)
      BY <1>m, <3>1, <3>2, SameEntries, CallerIsProc DEF Calm
    <3> QED
      BY <3>2, <3>3, CallerCalmElsewhere DEF Repairing, Sending
  <2> QED
    BY <1>5, <2>2, <2>3 DEF Adopt, Update, StoreFault
<1>6. CASE ArchiveReturns(p)
  <2>1. rec' = rec
    BY <1>6 DEF ArchiveReturns, server
  <2>2. PICK l \in {"cancelWrite", "park"} : Goto(p, l)
    BY <1>6 DEF ArchiveReturns
  <2>3. OnlyMoves(p) /\ pc'[p] = l
    BY <2>2, CallerGotoMoves
  <2>4. Calm(p)
    BY <1>m, <2>1, <2>3, SameEntries, CallerIsProc DEF Calm
  <2> QED
    BY <2>3, <2>4, CallerCalmElsewhere DEF Repairing, Sending
<1> QED
  BY <1>1, <1>2, <1>3, <1>4, <1>5, <1>6 DEF SharedStep

-----------------------------------------------------------------------------
(* The steps that store a new attempt or send its prompt. *)

\* The agent is created and given the kickoff prompt.
LEMMA CreatesPrompts ==
  ASSUME TypeInv, AckInv, PromptInv, rec.creation, rec' = rec,
         agent = "absent", turn' = 1, delivered' = [delivered EXCEPT ![1] = @ + 1]
  PROVE  /\ RecordPrompts'
         /\ \A q \in Callers : pc[q] \notin Repairing
         /\ pc["queue"] \notin Deciding \cup Sending
<1>1. ~rec.agentCreated /\ rec.attempt = 1 /\ rec.ack[1] # "none"
  BY DEF AckInv, RecordOK, AgentThere, HasAsked, OnlyKickoff
<1>2. \A n \in Attempts : delivered[n] = 0
  BY DEF AckInv, RecordOK, KickedOff
<1>3. \A n \in Attempts : delivered'[n] = IF n = 1 THEN 1 ELSE 0
  BY <1>2, AttemptIsNat
<1>4. RecordPrompts'
  BY <1>1, <1>3, AttemptIsNat DEF PromptInv, RecordPrompts, EachAttemptPromptedOnce, Attempts
<1> QED
  BY <1>1, <1>4 DEF AckInv, CallerFits, QueueFits

\* The prompt of a fresh attempt reaches the agent.
LEMMA ReceivesPrompts ==
  ASSUME TypeInv, AckInv, PromptInv, rec' = rec, NEW n \in Attempts, Fresh(n), HostReceives(n)
  PROVE  RecordPrompts' /\ \A m \in Attempts : delivered[m] > 0 => delivered'[m] > 0
<1>1. n = rec.attempt /\ rec.ack[n] = "pending" /\ delivered[n] = 0
  BY DEF Fresh
<1>2. turn' = n /\ \A m \in Attempts : delivered'[m] = IF m = n THEN 1 ELSE delivered[m]
  BY <1>1, AttemptIsNat DEF HostReceives
<1> QED
  BY <1>1, <1>2, AttemptIsNat DEF PromptInv, RecordPrompts, EachAttemptPromptedOnce

\* A new attempt is stored.
LEMMA PendingPrompts ==
  ASSUME TypeInv, AckInv, PromptInv, UNCHANGED <<turn, delivered>>,
         NEW n \in Attempts, n = rec.attempt + 1,
         rec'.attempt = n, rec'.ack = Pending(rec, n).ack
  PROVE  RecordPrompts' /\ Fresh(n)'
<1>1. rec.ack \in [Attempts -> Acks] /\ rec \in Records
  BY AttemptIsNat
<1>2. \A m \in Attempts : rec'.ack[m] = IF m = n THEN "pending" ELSE rec.ack[m]
  BY <1>1 DEF Pending, Records
<1>3. rec.ack[n] = "none"
  BY AttemptIsNat DEF PromptInv, RecordPrompts, Attempts
<1>4. delivered[n] = 0
  BY <1>3, AttemptIsNat DEF PromptInv, RecordPrompts
<1>5. RecordPrompts'
  <2>1. turn <= n
    BY AttemptIsNat DEF PromptInv, RecordPrompts, Attempts
  <2>2. \A m \in Attempts : m > n => rec.ack[m] = "none"
    BY AttemptIsNat DEF PromptInv, RecordPrompts, Attempts
  <2>3. \A m \in Attempts : /\ delivered[m] <= 1 /\ (delivered[m] > 0 => rec.ack[m] # "none")
                            /\ delivered'[m] = delivered[m]
    BY DEF PromptInv, RecordPrompts, EachAttemptPromptedOnce
  <2>4. \A m \in Attempts : /\ delivered'[m] > 0 => rec'.ack[m] # "none"
                            /\ m > n => rec'.ack[m] = "none"
    BY <1>2, <2>2, <2>3, AttemptIsNat DEF Attempts
  <2>5. turn' <= n /\ ~(delivered'[n] > 0)
    BY <1>4, <2>1
  <2> QED
    BY <2>3, <2>4, <2>5 DEF RecordPrompts, EachAttemptPromptedOnce
<1> QED
  BY <1>2, <1>4, <1>5 DEF Fresh

LEMMA NoRepairPrompts ==
  ASSUME RecordPrompts', QueuePrompts(pc["queue"], loc["queue"])',
         \A q \in Callers : pc'[q] \notin Repairing
  PROVE  PromptInv'
BY DEF PromptInv, CallerPrompts, Apart, OneRepairs, Repairing, Beginning, Sending

LEMMA WriteIntentPrompts ==
  ASSUME TypeInv, AckInv, PromptInv, WriteIntent
  PROVE  PromptInv'
<1>1. /\ pc["queue"] = "intent" /\ ~rec.creation /\ "decisive" \notin loc["queue"].flag
      /\ UNCHANGED <<tasks, host, calls>>
  BY DEF WriteIntent, At, AckInv, QueueFits, BeforeCreate, PromptInv, QueuePrompts, spent
<1>2. CASE rec' = rec /\ Finish("queue")
  BY <1>1, <1>2, QueueEndsCalm DEF Quiet
<1>3. CASE rec' = Intended(rec) /\ Goto("queue", "afterIntent")
  <2>1. rec'.attempt = 1 /\ rec'.ack = [n \in Attempts |-> IF n = 1 THEN "pending" ELSE "none"]
    BY <1>3, AttemptIsNat DEF Intended, Pending, Records
  <2>2. rec.attempt = 0 /\ agent = "absent"
    BY <1>1 DEF AckInv, RecordOK, NotAsked
  <2>3. \A n \in Attempts : delivered[n] = 0
    BY <2>2 DEF AckInv, RecordOK, KickedOff
  <2>4. RecordPrompts'
    BY <1>1, <2>1, <2>2, <2>3, AttemptIsNat
       DEF host, PromptInv, RecordPrompts, EachAttemptPromptedOnce, Attempts
  <2>5. OnlyMoves("queue") /\ pc'["queue"] = "afterIntent" /\ loc'["queue"] = loc["queue"]
    BY <1>3, QueueIsProc, Moves DEF TypeInv, TypeOK
  <2>6. QueuePrompts(pc["queue"], loc["queue"])'
    BY <1>1, <2>5 DEF QueuePrompts, Active, Deciding, Sending
  <2>7. \A q \in Callers : pc'[q] \notin Repairing
    BY <1>1, <2>5, CallerIsProc DEF OnlyMoves, AckInv, CallerFits, Repairing, Sending
  <2> QED
    BY <2>4, <2>6, <2>7, NoRepairPrompts
<1> QED
  BY <1>2, <1>3 DEF WriteIntent, Update, StoreFault

LEMMA CreateReturnsPrompts ==
  ASSUME TypeInv, AckInv, PromptInv, CreateReturns
  PROVE  PromptInv'
<1>1. /\ pc["queue"] = "creating" /\ rec.creation /\ "decisive" \notin loc["queue"].flag
      /\ rec' = rec /\ UNCHANGED <<tasks, calls>>
  BY DEF CreateReturns, At, AckInv, QueueFits, BeforeCreate, PromptInv, QueuePrompts, spent, server
<1>2. \A u \in BOOLEAN : "decisive" \notin With("queue", Flagged(u, "unsure")).flag
  BY <1>1, QueueLocalTyped DEF With, Flagged, TypeInv, Locals
<1>3. PICK l \in {"mark", "createFailed"} : \E local :
        /\ GotoWith("queue", l, local) \/ (Goto("queue", l) /\ local = loc["queue"])
        /\ "decisive" \notin local.flag
  BY <1>1, <1>2 DEF CreateReturns
<1>4. PICK local : /\ GotoWith("queue", l, local) \/ (Goto("queue", l) /\ local = loc["queue"])
                   /\ "decisive" \notin local.flag
  BY <1>3
<1>5. OnlyMoves("queue") /\ pc'["queue"] = l /\ loc'["queue"] = local
  BY <1>4, QueueIsProc, Moves DEF TypeInv, TypeOK
<1>6. Plain(l, local)
  BY <1>4 DEF Plain, Active, Sending, Deciding
<1>7. CASE UNCHANGED <<turn, delivered>>
  <2>1. Calm("queue")
    BY <1>1, <1>5, <1>7, SameEntries, QueueIsProc DEF Calm
  <2> QED
    BY <1>5, <1>6, <2>1, QueueCalmPlain
<1>8. CASE agent = "absent" /\ HostCreates
  <2>1. RecordPrompts' /\ \A q \in Callers : pc[q] \notin Repairing
    BY <1>1, <1>8, CreatesPrompts DEF HostCreates
  <2>2. \A q \in Callers : pc'[q] \notin Repairing
    BY <1>5, <2>1, CallerIsProc DEF OnlyMoves
  <2>3. QueuePrompts(pc["queue"], loc["queue"])'
    BY <1>5, <1>6 DEF Plain, QueuePrompts, Active, Deciding, Sending
  <2> QED
    BY <2>1, <2>2, <2>3, NoRepairPrompts
<1> QED
  BY <1>7, <1>8 DEF CreateReturns, HostCreates, host

LEMMA WriteCorrectionPrompts ==
  ASSUME TypeInv, AckInv, PromptInv, WriteCorrection
  PROVE  PromptInv'
<1> DEFINE n == loc["queue"].att + 1
<1>1. /\ pc["queue"] = "correct" /\ UNCHANGED <<tasks, host, calls>>
  BY DEF WriteCorrection, At, spent
<1>2. /\ n = rec.attempt + 1 /\ Judged /\ "decisive" \notin loc["queue"].flag
  BY <1>1 DEF PromptInv, QueuePrompts, Deciding
<1>3. n \in Attempts /\ rec.attempt \in Attempts
  BY <1>1, <1>2, AttemptIsNat DEF TypeInv, RoundLeft, Attempts
<1>4. CASE rec' = rec /\ Finish("queue")
  BY <1>1, <1>4, QueueEndsCalm DEF Quiet
<1>5. CASE /\ rec' = Correcting(rec, n)
           /\ GotoWith("queue", "sending", [loc["queue"] EXCEPT !.att = n])
  <2>1. PICK k, local : k = n /\ local = [loc["queue"] EXCEPT !.att = n]
    OBVIOUS
  <2>2. rec'.attempt = k /\ rec'.ack = Pending(rec, k).ack /\ rec'.state = "fixing"
    BY <1>3, <1>5, <2>1, AttemptIsNat DEF Correcting, Pending, Records
  <2>3. local.att = k /\ "decisive" \notin local.flag
    BY <1>2, <1>3, <2>1, QueueLocalTyped DEF TypeInv, Locals
  <2>4. RecordPrompts' /\ Fresh(k)'
    BY <1>1, <1>2, <1>3, <2>1, <2>2, PendingPrompts DEF host
  <2>5. OnlyMoves("queue") /\ pc'["queue"] = "sending" /\ loc'["queue"] = local
    BY <1>5, <2>1, QueueIsProc, Moves DEF TypeInv, TypeOK
  <2>6. QueuePrompts(pc["queue"], loc["queue"])'
    BY <2>2, <2>3, <2>4, <2>5 DEF QueuePrompts, Deciding
  <2>7. ASSUME NEW q \in Callers
        PROVE  /\ pc'[q] = pc[q] /\ loc'[q] = loc[q]
               /\ pc[q] \notin Beginning /\ pc[q] # "sending"
               /\ pc[q] \in Repairing => calls.repair > 0
               /\ pc[q] \in Sending => loc[q].att < k
    <3>1. CallerPrompts(pc[q], loc[q]) /\ Apart(pc[q], loc[q].att)
      BY DEF PromptInv
    <3>2. pc[q] \notin Beginning
      BY <1>1, <3>1 DEF Apart, Active, Deciding
    <3>3. pc[q] # "sending"
      BY <1>2, <3>1 DEF CallerPrompts, Fresh, Judged
    <3>4. pc[q] \in Sending => loc[q].att < k
      <4>1. loc[q].att \in Nat
        BY CallerIsProc, LocalTyped DEF TypeInv, TypeOK, ControlOK
      <4> QED
        BY <1>2, <2>1, <3>1, <4>1, AttemptIsNat DEF CallerPrompts
    <3> QED
      BY <2>5, <3>1, <3>2, <3>3, <3>4, CallerIsProc DEF OnlyMoves, CallerPrompts
  <2>8. \A q \in Callers : CallerPrompts(pc[q], loc[q])' /\ Apart(pc[q], loc[q].att)'
    <3> TAKE q \in Callers
    <3>1. pc[q] \in Sending => loc[q].att <= k
      <4>1. loc[q].att \in Nat /\ k \in Nat
        BY <1>3, <2>1, CallerIsProc, LocalTyped DEF TypeInv, TypeOK, ControlOK, Attempts
      <4> QED
        BY <2>7, <4>1
    <3> QED
      BY <1>1, <2>2, <2>7, <3>1 DEF CallerPrompts, Apart
  <2>9. OneRepairs'
    BY <2>7 DEF PromptInv, OneRepairs
  <2> QED
    BY <2>4, <2>6, <2>8, <2>9 DEF PromptInv
<1> QED
  BY <1>4, <1>5 DEF WriteCorrection, Update, StoreFault

LEMMA WriteRepairPrompts ==
  ASSUME TypeInv, AckInv, PromptInv, NEW p \in Callers, WriteRepair(p)
  PROVE  PromptInv'
<1> DEFINE n == loc[p].att
<1>1. pc[p] = "repair" /\ UNCHANGED <<tasks, host, calls>>
  BY DEF WriteRepair, At, spent
<1>2. n = rec.attempt + 1 /\ n \in Attempts /\ calls.repair > 0
  BY <1>1 DEF PromptInv, CallerPrompts, Beginning, AckInv, CallerFits, Repairing
<1>3. pc["queue"] \notin Active
  BY <1>1 DEF PromptInv, Apart, Beginning
<1>4. CASE rec' = rec /\ Finish(p)
  BY <1>1, <1>4, CallerEndsCalm DEF Quiet
<1>5. CASE rec' = [Correcting(rec, n) EXCEPT !.outcomeUnknown = FALSE] /\ Goto(p, "sending")
  <2>1. PICK k : k = n
    OBVIOUS
  <2>2. rec'.attempt = k /\ rec'.ack = Pending(rec, k).ack /\ rec'.state = "fixing"
    BY <1>2, <1>5, <2>1, AttemptIsNat DEF Correcting, Pending, Records
  <2>3. RecordPrompts' /\ Fresh(k)'
    BY <1>1, <1>2, <2>1, <2>2, PendingPrompts DEF host
  <2>4. OnlyMoves(p) /\ pc'[p] = "sending" /\ loc'[p] = loc[p]
    BY <1>5, CallerGotoMoves
  <2>5. pc'["queue"] = pc["queue"] /\ loc'["queue"] = loc["queue"]
    BY <2>4, QueueIsProc, CallerIsProc DEF OnlyMoves
  <2>6. QueuePrompts(pc["queue"], loc["queue"])'
    BY <1>3, <2>5 DEF PromptInv, QueuePrompts, Active, Deciding, Sending
  <2>7. \A q \in Callers : q # p => pc'[q] = pc[q] /\ pc[q] \notin Repairing
    BY <1>1, <2>4, CallerIsProc DEF OnlyMoves, PromptInv, OneRepairs, Repairing
  <2>8. CallerPrompts(pc[p], loc[p])' /\ Apart(pc[p], loc[p].att)'
    BY <1>1, <1>2, <1>3, <2>1, <2>2, <2>3, <2>4, <2>5, AttemptIsNat
       DEF CallerPrompts, Apart, Beginning, Active, Sending, Attempts
  <2>9. \A q \in Callers : q # p => CallerPrompts(pc[q], loc[q])' /\ Apart(pc[q], loc[q].att)'
    BY <2>7 DEF CallerPrompts, Apart, Repairing, Beginning, Sending
  <2>10. OneRepairs'
    BY <2>7 DEF OneRepairs
  <2> QED
    BY <2>3, <2>6, <2>8, <2>9, <2>10 DEF PromptInv
<1> QED
  BY <1>4, <1>5 DEF WriteRepair, Update, StoreFault, server

\* The first repair finds the queue elsewhere, and no other repair beside it.
LEMMA RepairPrompts ==
  ASSUME TypeInv, AckInv, PromptInv, MaxRepairs <= 1, NEW p \in Callers, Repair(p)
  PROVE  PromptInv'
<1>1. /\ UNCHANGED <<rec, host>> /\ rec.state = "needs_continue" /\ pc[p] = "idle"
      /\ calls.repair < MaxRepairs /\ calls'.repair = calls.repair + 1
  BY DEF Repair, Call, Idle, At, server, MaxCalls, TypeInv, TypeOK, RestOK
<1>2. calls.repair = 0 /\ calls'.repair > 0
  BY <1>1, AttemptIsNat
<1>3. pc["queue"] \notin Active
  BY <1>1, AttemptIsNat DEF PromptInv, QueuePrompts
<1>4. \A q \in Callers : pc[q] \notin Repairing
  BY <1>2 DEF PromptInv, CallerPrompts
<1>5. PICK local : local = [loc[p] EXCEPT !.att = rec.attempt + 1]
  OBVIOUS
<1>6. OnlyMoves(p) /\ pc'[p] = "repairLook" /\ loc'[p] = local
  BY <1>5, CallerIsProc DEF Repair, OnlyMoves, TypeInv, TypeOK, ControlOK
<1>7. local.att = rec.attempt + 1
  BY <1>5, CallerIsProc DEF TypeInv, TypeOK, ControlOK, Locals
<1>8. pc'["queue"] = pc["queue"] /\ loc'["queue"] = loc["queue"]
  BY <1>6, QueueIsProc, CallerIsProc DEF OnlyMoves
<1>9. RecordPrompts'
  BY <1>1 DEF host, PromptInv, RecordPrompts, EachAttemptPromptedOnce
<1>10. QueuePrompts(pc["queue"], loc["queue"])'
  BY <1>3, <1>8 DEF PromptInv, QueuePrompts, Active, Deciding, Sending
<1>11. \A q \in Callers : q # p => pc'[q] = pc[q]
  BY <1>6, CallerIsProc DEF OnlyMoves
<1>12. CallerPrompts(pc[p], loc[p])' /\ Apart(pc[p], loc[p].att)'
  BY <1>1, <1>2, <1>3, <1>6, <1>7, <1>8
     DEF CallerPrompts, Apart, Beginning, Sending, Underway
<1>13. \A q \in Callers : q # p => CallerPrompts(pc[q], loc[q])' /\ Apart(pc[q], loc[q].att)'
  BY <1>4, <1>11 DEF CallerPrompts, Apart, Repairing, Beginning, Sending
<1>14. OneRepairs'
  BY <1>4, <1>11 DEF OneRepairs
<1> QED
  BY <1>9, <1>10, <1>12, <1>13, <1>14 DEF PromptInv

LEMMA QueueSendsPrompts ==
  ASSUME TypeInv, AckInv, PromptInv, SendReturns("queue")
  PROVE  PromptInv'
<1> DEFINE n == loc["queue"].att
<1>1. /\ pc["queue"] = "sending" /\ n \in Attempts /\ Fresh(n)
      /\ "decisive" \notin loc["queue"].flag
      /\ rec' = rec /\ UNCHANGED <<tasks, calls>>
  BY DEF SendReturns, At, server, spent, PromptInv, QueuePrompts, AckInv, QueueFits, Sending
<1>2. PICK l \in {"sent", "sendUnknown"} : Goto("queue", l)
  BY DEF SendReturns
<1>3. OnlyMoves("queue") /\ pc'["queue"] = l /\ loc'["queue"] = loc["queue"]
  BY <1>2, QueueIsProc, Moves DEF TypeInv, TypeOK
<1>4. QueuePrompts(pc["queue"], loc["queue"])'
  BY <1>1, <1>3 DEF PromptInv, QueuePrompts, Active, Deciding, Sending
<1>5. CASE UNCHANGED host
  <2>1. Calm("queue")
    BY <1>1, <1>3, <1>5, SameEntries, QueueIsProc DEF Calm, host
  <2> QED
    BY <1>1, <1>3, <1>4, <2>1, QueueCalm DEF Active, Sending
<1>6. CASE HostReceives(n)
  <2>1. PICK k : k = n
    OBVIOUS
  <2>2. RecordPrompts'
    BY <1>1, <1>6, <2>1, ReceivesPrompts
  <2>3. \A q \in Callers : /\ pc'[q] = pc[q] /\ loc'[q] = loc[q]
                           /\ pc[q] \notin Beginning /\ pc[q] # "sending"
    BY <1>1, <1>3, CallerIsProc DEF OnlyMoves, PromptInv, Apart, Active, Sending
  <2>4. \A q \in Callers : CallerPrompts(pc[q], loc[q])' /\ Apart(pc[q], loc[q].att)'
    BY <1>1, <1>3, <2>3 DEF PromptInv, CallerPrompts, Apart
  <2>5. OneRepairs'
    BY <2>3 DEF PromptInv, OneRepairs
  <2> QED
    BY <1>4, <2>2, <2>4, <2>5 DEF PromptInv
<1> QED
  BY <1>5, <1>6 DEF SendReturns

LEMMA CallerSendsPrompts ==
  ASSUME TypeInv, AckInv, PromptInv, NEW p \in Callers, SendReturns(p)
  PROVE  PromptInv'
<1> DEFINE n == loc[p].att
<1>1. /\ pc[p] = "sending" /\ n \in Attempts /\ Fresh(n) /\ n <= rec.attempt
      /\ pc["queue"] \notin Sending
      /\ rec' = rec /\ UNCHANGED <<tasks, calls>>
  BY DEF SendReturns, At, server, spent, PromptInv, CallerPrompts, Apart, AckInv, CallerFits,
         Repairing, Sending
<1>2. PICK l \in {"sent", "sendUnknown"} : Goto(p, l)
  BY DEF SendReturns
<1>3. OnlyMoves(p) /\ pc'[p] = l /\ loc'[p] = loc[p]
  BY <1>2, CallerGotoMoves
<1>4. pc'["queue"] = pc["queue"] /\ loc'["queue"] = loc["queue"]
  BY <1>3, QueueIsProc, CallerIsProc DEF OnlyMoves
<1>5. CallerPrompts(pc[p], loc[p])' /\ Apart(pc[p], loc[p].att)'
  BY <1>1, <1>3, <1>4 DEF PromptInv, CallerPrompts, Apart, Repairing, Beginning, Sending
<1>6. CASE UNCHANGED host
  <2>1. Calm(p)
    BY <1>1, <1>3, <1>6, SameEntries, CallerIsProc DEF Calm, host
  <2> QED
    BY <1>1, <1>3, <1>5, <2>1, CallerCalm DEF Repairing, Beginning, Sending
<1>7. CASE HostReceives(n)
  <2>1. PICK k : k = n
    OBVIOUS
  <2>2. RecordPrompts' /\ \A m \in Attempts : delivered[m] > 0 => delivered'[m] > 0
    BY <1>1, <1>7, <2>1, ReceivesPrompts
  <2>3. \A q \in Callers : q # p => pc'[q] = pc[q] /\ pc[q] \notin Repairing
    BY <1>1, <1>3, CallerIsProc DEF OnlyMoves, PromptInv, OneRepairs, Repairing, Sending
  <2>4. \A q \in Callers : q # p => CallerPrompts(pc[q], loc[q])' /\ Apart(pc[q], loc[q].att)'
    BY <2>3 DEF CallerPrompts, Apart, Repairing, Beginning, Sending
  <2>5. OneRepairs'
    BY <2>3 DEF OneRepairs
  <2>6. rec.attempt \in Attempts
    BY <1>1 DEF Fresh
  <2>7. QueuePrompts(pc["queue"], loc["queue"])'
    BY <1>1, <1>4, <2>2, <2>6 DEF PromptInv, QueuePrompts, Judged, Sending
  <2> QED
    BY <1>5, <2>2, <2>4, <2>5, <2>7 DEF PromptInv
<1> QED
  BY <1>6, <1>7 DEF SendReturns

LEMMA WorldPrompts ==
  ASSUME TypeInv, AckInv, PromptInv,
         Poll \/ HookArrives \/ TurnEnds \/ CreateLands \/ SendAges
  PROVE  PromptInv'
<1>1. rec' = rec /\ pc' = pc /\ loc' = loc /\ calls' = calls
  BY DEF Poll, HookArrives, TurnEnds, CreateLands, SendAges, server, spent
<1>2. CASE UNCHANGED <<turn, delivered>>
  BY <1>1, <1>2
     DEF PromptInv, RecordPrompts, EachAttemptPromptedOnce, QueuePrompts, CallerPrompts, Apart,
         OneRepairs, Fresh, Judged
<1>3. CASE CreateLands /\ agent = "absent"
  <2>1. rec.creation
    BY <1>3 DEF CreateLands, AckInv, RecordOK, NotAsked
  <2>2. /\ RecordPrompts'
        /\ \A q \in Callers : pc[q] \notin Repairing
        /\ pc["queue"] \notin Deciding \cup Sending
    BY <1>1, <1>3, <2>1, CreatesPrompts DEF CreateLands
  <2>3. QueuePrompts(pc["queue"], loc["queue"])'
    BY <1>1, <2>2 DEF PromptInv, QueuePrompts, Deciding, Sending
  <2> QED
    BY <1>1, <2>2, <2>3, NoRepairPrompts
<1> QED
  BY <1>2, <1>3 DEF Poll, HookArrives, TurnEnds, CreateLands, SendAges, host

LEMMA RestartPrompts ==
  ASSUME TypeInv, AckInv, PromptInv, Restart
  PROVE  PromptInv'
<1>1. /\ \A p \in Procs : pc'[p] = "idle" /\ loc'[p] = NoLocals
      /\ rec' = rec
  BY DEF Restart, server
<1>2. RecordPrompts'
  <2>1. CASE UNCHANGED <<turn, delivered>>
    BY <1>1, <2>1 DEF PromptInv, RecordPrompts, EachAttemptPromptedOnce
  <2>2. CASE At("queue", "creating") /\ HostCreates /\ agent = "absent"
    <3>1. rec.creation
      BY <2>2 DEF AckInv, QueueFits, At, BeforeCreate
    <3> QED
      BY <1>1, <2>2, <3>1, CreatesPrompts DEF HostCreates
  <2>3. ASSUME NEW p \in Procs, At(p, "sending"), HostReceives(loc[p].att)
        PROVE  RecordPrompts'
    <3>1. loc[p].att \in Attempts /\ Fresh(loc[p].att)
      <4>1. CASE p = "queue"
        BY <2>3, <4>1 DEF At, PromptInv, QueuePrompts, AckInv, QueueFits, Sending
      <4>2. CASE p \in Callers
        BY <2>3, <4>2 DEF At, PromptInv, CallerPrompts, AckInv, CallerFits, Repairing, Sending
      <4> QED
        BY <4>1, <4>2 DEF Procs
    <3>2. PICK k : k = loc[p].att
      OBVIOUS
    <3> QED
      BY <1>1, <2>3, <3>1, <3>2, ReceivesPrompts
  <2> QED
    BY <2>1, <2>2, <2>3 DEF Restart, HostCreates, host
<1>3. QueuePrompts(pc["queue"], loc["queue"])'
  BY <1>1, QueueIsProc DEF QueuePrompts, Active, Deciding, Sending, NoLocals
<1>4. \A q \in Callers : pc'[q] \notin Repairing
  BY <1>1, CallerIsProc DEF Repairing, Sending
<1> QED
  BY <1>2, <1>3, <1>4, NoRepairPrompts

LEMMA PromptInit == Init => PromptInv
<1> SUFFICES ASSUME Init
             PROVE  PromptInv
  OBVIOUS
<1>1. RecordPrompts
  BY MaxAttemptsAssumption
     DEF Init, NewRecord, RecordPrompts, EachAttemptPromptedOnce, Attempts
<1>2. QueuePrompts(pc["queue"], loc["queue"])
  BY QueueIsProc DEF Init, QueuePrompts, Active, Deciding, Sending, NoLocals
<1>3. \A q \in Callers : pc[q] = "idle"
  BY CallerIsProc DEF Init
<1> QED
  BY <1>1, <1>2, <1>3
     DEF PromptInv, CallerPrompts, Apart, OneRepairs, Repairing, Beginning, Sending

LEMMA PromptNext ==
  ASSUME TypeInv, AckInv, PromptInv, NotBoth, MaxRepairs <= 1, [Next]_vars
  PROVE  PromptInv'
<1>1. CASE QueueStep
  <2>1. StartStep => PromptInv'
    BY StartReadsCalm, StartWritesCalm, WriteIntentPrompts, CreateReturnsPrompts DEF StartStep
  <2>2. ReconcileStep => PromptInv'
    BY ReconcileCalm, ReconcileReadsCalm, ReconcileWritesCalm, WriteCorrectionPrompts
       DEF ReconcileStep
  <2>3. SharedStep("queue") => PromptInv'
    BY QueueSharesCalm, QueueSendsPrompts
  <2> QED
    BY <1>1, <2>1, <2>2, <2>3, RunTaskCalm DEF QueueStep
<1>2. ASSUME NEW p \in Callers, Request(p) \/ CallerStep(p) \/ SharedStep(p)
      PROVE  PromptInv'
  <2>1. Request(p) => PromptInv'
    BY RequestCalm, RepairPrompts DEF Request
  <2>2. CallerStep(p) => PromptInv'
    BY CallerStepCalm, WriteRepairPrompts DEF CallerStep
  <2>3. SharedStep(p) => PromptInv'
    BY CallerSharesCalm, CallerSendsPrompts
  <2> QED
    BY <1>2, <2>1, <2>2, <2>3
<1>3. CASE Poll \/ HookArrives \/ TurnEnds \/ CreateLands \/ SendAges \/ Restart
  BY <1>3, WorldPrompts, RestartPrompts
<1>4. CASE UNCHANGED vars
  BY <1>4
     DEF vars, server, mem, host, spent, PromptInv, RecordPrompts, EachAttemptPromptedOnce,
         QueuePrompts, CallerPrompts, Apart, OneRepairs, Fresh, Judged
<1> QED
  BY <1>1, <1>2, <1>3, <1>4 DEF Next

-----------------------------------------------------------------------------
(* The theorems. *)

LEMMA PromptInvariant ==
  ASSUME NotBoth, MaxRepairs <= 1
  PROVE  Spec => [](TypeInv /\ AckInv /\ PromptInv)
<1>1. Init => TypeInv /\ AckInv /\ PromptInv
  BY TypeInit, AckInit, PromptInit
<1>2. TypeInv /\ AckInv /\ PromptInv /\ [Next]_vars => (TypeInv /\ AckInv /\ PromptInv)'
  BY PromptNext, AckNext, TypeNext, RoundLeftNext DEF TypeInv
<1> QED
  BY <1>1, <1>2, PTL DEF Spec

\* With at most one repair, and none beside a cancel whose archive may fail,
\* no prompt reaches the agent twice, whatever is repeated after a restart, a
\* lost acknowledgement or a lost race for the record: an attempt is stored as
\* pending before its prompt is sent, and only one process at a time is
\* between the two (handleFailure, continue, recoverPendingSend).
THEOREM EachAttemptPromptedOnceHolds ==
  ASSUME NotBoth, MaxRepairs <= 1
  PROVE  Spec => []EachAttemptPromptedOnce
<1>1. PromptInv => EachAttemptPromptedOnce
  BY DEF PromptInv, RecordPrompts
<1> QED
  BY <1>1, PromptInvariant, PTL

\* The queue leaves the reading of an event only by deciding on it.
LEMMA TurnIsDecided ==
  ASSUME TypeInv, Next, At("queue", "turn"), pc'["queue"] \in {"turnFailed", "archive"}
  PROVE  TurnEnded
<1> USE DEF At
<1>1. ASSUME NEW p \in Callers, Request(p) \/ CallerStep(p) \/ SharedStep(p)
      PROVE  FALSE
  BY <1>1, CallerLeavesQueue DEF TypeInv, QueueLeft
<1>2. CASE Poll \/ HookArrives \/ TurnEnds \/ CreateLands \/ SendAges
  BY <1>2 DEF Poll, HookArrives, TurnEnds, CreateLands, SendAges
<1>3. CASE Restart
  BY <1>3, QueueIsProc DEF Restart
<1>4. CASE QueueStep
  <2>1. ~RunTask
    BY DEF RunTask, Idle
  <2>2. ~StartStep
    BY DEF StartStep, StartRun, BeforeIntent, WriteIntent, AfterIntent, CreateReturns,
           MarkCreated, CreateFailed, CreateLookup, CreateUnsure, ClaimAgent
  <2>3. ~SharedStep("queue")
    BY DEF SharedStep, SendReturns, Sent, SendUnknown, Fail, Park, Resolve, CancelLookup,
           Adopt, Archive, ArchiveReturns, CancelWrite
  <2>4. ReconcileStep => TurnEnded
    BY DEF ReconcileStep, Reconcile, ReplayLookup, ResumeLookup, RecoverSend, SendEchoed,
           SendTimedOut, Observe, Look, LearnTurn, Candidate, WriteReady, WriteGap,
           WriteCorrection, TurnFailed
  <2> QED
    BY <1>4, <2>1, <2>2, <2>3, <2>4 DEF QueueStep
<1> QED
  BY <1>1, <1>2, <1>3, <1>4 DEF Next

\* Under the same bounds the end of a turn fails or cancels a job only if it is
\* the current attempt's turn, when the event is read and still when its effect
\* is stored: no new attempt begins in between (handleTerminalOutcome).
THEOREM LateTurnEndsNothingHolds ==
  ASSUME NotBoth, MaxRepairs <= 1
  PROVE  Spec => LateTurnEndsNothing
<1>1. ASSUME TypeInv, PromptInv, Next
      PROVE  EndedByTurn => loc["queue"].ev.n = rec.attempt
  <2>1. CASE At("queue", "turnFailed")
    BY <1>1, <2>1 DEF At, PromptInv, QueuePrompts
  <2>2. CASE At("queue", "turn") /\ pc'["queue"] \in {"turnFailed", "archive"}
    <3>1. TurnEnded
      BY <1>1, <2>2, TurnIsDecided
    <3>2. OfThisTurn(loc["queue"].ev)
      <4>1. Finish("queue") => pc'["queue"] = "idle"
        BY <1>1, QueueIsProc, Moves DEF TypeInv, TypeOK
      <4>2. Forget("queue", "reconcile", 0) => pc'["queue"] = "reconcile"
        BY <1>1, QueueIsProc, Moves DEF TypeInv, TypeOK, Forget
      <4> QED
        BY <2>2, <3>1, <4>1, <4>2 DEF TurnEnded
    <3> QED
      BY <3>2 DEF OfThisTurn
  <2> QED
    BY <2>1, <2>2 DEF EndedByTurn
<1>2. TypeInv /\ PromptInv /\ [Next]_vars
        => [EndedByTurn => loc["queue"].ev.n = rec.attempt]_vars
  BY <1>1
<1> QED
  BY <1>2, PromptInvariant, PTL DEF Spec, LateTurnEndsNothing

-----------------------------------------------------------------------------
(* The result of a ready job.  It is that of the last attempt, which the agent *)
(* has received, and the queue is at nothing that could begin another one. *)

LEMMA DeliveredGrows ==
  ASSUME TypeInv, [Next]_vars
  PROVE  \A n \in Attempts : delivered[n] > 0 => delivered'[n] > 0
<1> DEFINE G == \A n \in Attempts : delivered[n] > 0 => delivered'[n] > 0
<1>1. UNCHANGED delivered => G
  OBVIOUS
<1>2. UNCHANGED host => G
  BY DEF host
<1>3. ASSUME NEW k, delivered' = [delivered EXCEPT ![k] = @ + 1]
      PROVE  G
  <2> SUFFICES ASSUME NEW n \in Attempts, delivered[n] > 0
               PROVE  delivered'[n] > 0
    OBVIOUS
  <2>1. delivered[n] \in Nat /\ delivered' = [delivered EXCEPT ![k] = delivered[k] + 1]
    BY <1>3, AttemptIsNat
  <2> QED
    BY <1>3, <2>1, AttemptIsNat
<1>4. HostCreates => G
  BY <1>2, <1>3 DEF HostCreates
<1>5. \A k : HostReceives(k) => G
  BY <1>3 DEF HostReceives
<1> HIDE DEF G
<1>6. \A p : SharedStep(p) => G
  BY <1>1, <1>2, <1>5
     DEF SharedStep, SendReturns, Sent, SendUnknown, Fail, Park, Resolve, CancelLookup, Adopt,
         Archive, ArchiveReturns, CancelWrite, Local
<1>7. QueueStep => G
  <2>1. RunTask => G
    BY <1>2 DEF RunTask
  <2>2. StartStep => G
    <3>1. CreateReturns => G
      <4>1. stalled' = TRUE /\ UNCHANGED <<agent, turn, delivered, landedLate, hooks>> => G
        BY <1>1
      <4> QED
        BY <1>2, <1>4, <4>1 DEF CreateReturns
    <3> QED
      BY <1>2, <3>1
         DEF StartStep, StartRun, BeforeIntent, WriteIntent, AfterIntent, MarkCreated,
             CreateFailed, CreateLookup, CreateUnsure, ClaimAgent, Local
  <2>3. ReconcileStep => G
    BY <1>2
       DEF ReconcileStep, Reconcile, ReplayLookup, ResumeLookup, RecoverSend, SendEchoed,
           SendTimedOut, Observe, Look, LearnTurn, Candidate, WriteReady, WriteGap,
           WriteCorrection, TurnEnded, TurnFailed, Local
  <2> QED
    BY <1>6, <2>1, <2>2, <2>3 DEF QueueStep
<1>8. \A p : Request(p) \/ CallerStep(p) => G
  BY <1>2
     DEF Request, Cancel, Recheck, Repair, Call, CallerStep, AskCancel, WriteRecheck,
         RepairLook, WriteRepair, Local
<1>9. Poll \/ HookArrives \/ TurnEnds \/ CreateLands \/ SendAges \/ Restart => G
  BY <1>1, <1>2, <1>3, <1>4, <1>5
     DEF Poll, HookArrives, TurnEnds, CreateLands, SendAges, Restart
<1>10. UNCHANGED vars => G
  BY <1>1 DEF vars, host
<1>11. G
  BY <1>6, <1>7, <1>8, <1>9, <1>10 DEF Next
<1> QED
  BY <1>11 DEF G

LEMMA CallersLeft ==
  ASSUME TypeInv, QueueStep, NEW q \in Callers
  PROVE  pc'[q] = pc[q]
<1> USE QueueIsProc, CallerIsProc DEF TypeInv, TypeOK, ControlOK
<1>1. ASSUME NEW l, NEW local, Goto("queue", l) \/ GotoWith("queue", l, local)
      PROVE  pc'[q] = pc[q]
  BY <1>1 DEF Goto, GotoWith
<1>2. ASSUME Finish("queue") \/ Throw("queue")
      PROVE  pc'[q] = pc[q]
  BY <1>1, <1>2 DEF Finish, Throw
<1>3. ASSUME NEW l, NEW n, Forget("queue", l, n)
      PROVE  pc'[q] = pc[q]
  BY <1>1, <1>3 DEF Forget
<1>4. ASSUME NEW l, pc' = [pc EXCEPT !["queue"] = l]
      PROVE  pc'[q] = pc[q]
  BY <1>4
<1>5. CASE RunTask
  BY <1>4, <1>5 DEF RunTask
<1>6. CASE StartStep
  BY <1>1, <1>2, <1>4, <1>6
     DEF StartStep, StartRun, BeforeIntent, WriteIntent, AfterIntent, CreateReturns,
         MarkCreated, CreateFailed, CreateLookup, CreateUnsure, ClaimAgent, Update
<1>7. CASE ReconcileStep
  BY <1>1, <1>2, <1>3, <1>4, <1>7
     DEF ReconcileStep, Reconcile, ReconcileLive, ResumeStarting, ReplayLookup, ResumeLookup,
         RecoverSend, SendEchoed, SendTimedOut, Observe, Look, LearnTurn, Candidate,
         HandleFailure, WriteReady, WriteGap, WriteCorrection, TurnEnded, EndTurn, TurnFailed,
         Update
<1>8. CASE SharedStep("queue")
  BY <1>1, <1>2, <1>8
     DEF SharedStep, SendReturns, Sent, SendUnknown, Fail, Park, Resolve, CancelLookup,
         Adopt, Archive, ArchiveReturns, CancelWrite, Update
<1> QED
  BY <1>5, <1>6, <1>7, <1>8 DEF QueueStep

\* The queue begins to judge or to send only in a round that is under way.
LEMMA ActiveEntered ==
  ASSUME TypeInv, AckInv, QueueStep, pc'["queue"] \in Active
  PROVE  pc["queue"] \in Active \/ rec.state \in Underway \/ ~rec.agentCreated
<1> USE QueueIsProc DEF TypeInv, TypeOK, ControlOK, At
<1>1. ASSUME NEW l, NEW local, Goto("queue", l) \/ GotoWith("queue", l, local)
      PROVE  pc'["queue"] = l
  BY <1>1 DEF Goto, GotoWith
<1>2. ASSUME Finish("queue") \/ Throw("queue")
      PROVE  pc'["queue"] \in {"idle", "createFailed"}
  BY <1>1, <1>2 DEF Finish, Throw
<1>3. ASSUME NEW l, NEW n, Forget("queue", l, n)
      PROVE  pc'["queue"] = l
  BY <1>1, <1>3 DEF Forget
<1>4. ASSUME NEW l, pc' = [pc EXCEPT !["queue"] = l]
      PROVE  pc'["queue"] = l
  BY <1>4
<1> USE DEF Active, Deciding, Sending
<1>5. CASE RunTask
  <2>1. Head(tasks).kind \in {"start", "reconcile", "turn"}
    BY <1>5 DEF RunTask, RestOK, Tasks
  <2> QED
    BY <1>4, <1>5, <2>1 DEF RunTask
<1>6. CASE ClaimAgent
  <2>1. ~rec.cancelRequested
    BY <1>1, <1>2, <1>6 DEF ClaimAgent, Update
  <2>2. CreateIsFirst
    BY <1>6 DEF ClaimAgent, AckInv, QueueFits, Creates, CreateLabels
  <2> QED
    BY <2>1, <2>2 DEF CreateIsFirst
<1>7. CASE StartStep /\ ~ClaimAgent
  BY <1>1, <1>2, <1>4, <1>7
     DEF StartStep, StartRun, BeforeIntent, WriteIntent, AfterIntent, CreateReturns,
         MarkCreated, CreateFailed, CreateLookup, CreateUnsure, Update
<1>8. CASE Reconcile \/ ReplayLookup \/ ResumeLookup
  BY <1>1, <1>2, <1>4, <1>8
     DEF Reconcile, ReconcileLive, ResumeStarting, ReplayLookup, ResumeLookup, Underway
<1>9. CASE TurnEnded
  BY <1>1, <1>2, <1>3, <1>9 DEF TurnEnded, Underway, Reconciled
<1>10. CASE ReconcileStep /\ ~(Reconcile \/ ReplayLookup \/ ResumeLookup \/ TurnEnded)
  BY <1>10
     DEF ReconcileStep, RecoverSend, SendEchoed, SendTimedOut, Observe, Look, LearnTurn,
         Candidate, WriteReady, WriteGap, WriteCorrection, TurnFailed
<1>11. CASE SharedStep("queue")
  BY <1>1, <1>2, <1>11
     DEF SharedStep, SendReturns, Sent, SendUnknown, Fail, Park, Resolve, CancelLookup,
         Adopt, Archive, ArchiveReturns, CancelWrite, Update
<1> QED
  BY <1>5, <1>6, <1>7, <1>8, <1>9, <1>10, <1>11 DEF QueueStep

\* What most steps leave of the result and the round.
Keeps(r) ==
  /\ r.result = rec.result /\ r.attempt = rec.attempt
  /\ rec.agentCreated => r.agentCreated
  /\ r.state = "ready" => rec.state = "ready"
  /\ r.state \in Underway =>
       \/ rec.state \in Underway \/ pc["queue"] \in Active
       \/ rec.result = 0 \/ MaxRepairs > 0

LEMMA PlainKeeps ==
  ASSUME TypeInv
  PROVE  /\ Keeps(rec) /\ Keeps(Failed(rec)) /\ Keeps(Parked(rec)) /\ Keeps(Uncertain(rec))
         /\ Keeps(Canceled(rec)) /\ Keeps(CancelAsked(rec))
         /\ Keeps([rec EXCEPT !.agentCreated = TRUE])
         /\ \A f : Keeps([rec EXCEPT !.turnKnown = f])
         /\ \A n : Keeps(SendUncertain(rec, n))
<1> USE AttemptIsNat DEF Keeps, Underway, Records
<1>1. /\ Keeps(rec) /\ Keeps(Failed(rec)) /\ Keeps(Parked(rec)) /\ Keeps(Uncertain(rec))
      /\ Keeps(Canceled(rec)) /\ Keeps(CancelAsked(rec))
  BY DEF Failed, Parked, Uncertain, Canceled, CancelAsked
<1>2. Keeps([rec EXCEPT !.agentCreated = TRUE])
  OBVIOUS
<1>3. ASSUME NEW f
      PROVE  Keeps([rec EXCEPT !.turnKnown = f])
  OBVIOUS
<1>4. ASSUME NEW n
      PROVE  Keeps(SendUncertain(rec, n))
  BY DEF SendUncertain, Uncertain, Parked, Acked
<1> QED
  BY <1>1, <1>2, <1>3, <1>4

LEMMA RoundKeeps ==
  ASSUME TypeInv, pc["queue"] \in Active \/ MaxRepairs > 0, NEW n
  PROVE  Keeps(Designing(rec, n)) /\ Keeps(Echoed(rec, n))
BY AttemptIsNat DEF Keeps, Underway, Records, Designing, Echoed, Acked

LEMMA MarkedKeeps ==
  ASSUME TypeInv, NoResult, CreateIsFirst
  PROVE  Keeps(AgentMarked(rec))
BY AttemptIsNat DEF Keeps, Underway, Records, AgentMarked, CreateIsFirst, NoResult

LEMMA QueueKeepsRound ==
  ASSUME TypeInv, AckInv, NoResult, QueueStep,
         ~WriteIntent, ~WriteReady, ~WriteGap, ~WriteCorrection
  PROVE  Keeps(rec')
<1> USE PlainKeeps DEF Update, At, server, Local
<1>1. CASE MarkCreated \/ ClaimAgent
  <2>1. CreateIsFirst
    BY <1>1 DEF MarkCreated, ClaimAgent, AckInv, QueueFits, Creates, CreateLabels
  <2> QED
    BY <1>1, <2>1, MarkedKeeps DEF MarkCreated, ClaimAgent
<1>2. CASE StartStep /\ ~MarkCreated /\ ~ClaimAgent
  BY <1>2
     DEF StartStep, StartRun, BeforeIntent, AfterIntent, CreateReturns, CreateFailed,
         CreateLookup, CreateUnsure
<1>3. CASE SendEchoed
  BY <1>3, RoundKeeps DEF SendEchoed, Active
<1>4. CASE ReconcileStep /\ ~SendEchoed
  BY <1>4
     DEF ReconcileStep, Reconcile, ReplayLookup, ResumeLookup, RecoverSend, SendTimedOut,
         Observe, Look, LearnTurn, Candidate, TurnEnded, TurnFailed
<1>5. CASE Sent("queue")
  BY <1>5, RoundKeeps DEF Sent, Active, Sending
<1>6. CASE SharedStep("queue") /\ ~Sent("queue")
  BY <1>6
     DEF SharedStep, SendReturns, SendUnknown, Fail, Park, Resolve, CancelLookup, Adopt,
         Archive, ArchiveReturns, CancelWrite
<1>7. CASE RunTask
  BY <1>7 DEF RunTask
<1> QED
  BY <1>1, <1>2, <1>3, <1>4, <1>5, <1>6, <1>7 DEF QueueStep

LEMMA CallerKeepsRound ==
  ASSUME TypeInv, AckInv, NEW p \in Callers, Request(p) \/ CallerStep(p) \/ SharedStep(p),
         ~WriteRepair(p), ~WriteRecheck(p)
  PROVE  Keeps(rec')
<1> USE PlainKeeps DEF Update, At, server, Local
<1>1. CASE Request(p)
  BY <1>1 DEF Request, Cancel, Recheck, Repair, Call
<1>2. CASE CallerStep(p)
  BY <1>2 DEF CallerStep, AskCancel, RepairLook
<1>3. CASE Sent(p)
  <2>1. MaxRepairs > 0
    BY <1>3 DEF Sent, AckInv, CallerFits, Repairing, Sending
  <2> QED
    BY <1>3, <2>1, RoundKeeps DEF Sent
<1>4. CASE SharedStep(p) /\ ~Sent(p)
  BY <1>4
     DEF SharedStep, SendReturns, SendUnknown, Fail, Park, Resolve, CancelLookup, Adopt,
         Archive, ArchiveReturns, CancelWrite
<1> QED
  BY <1>1, <1>2, <1>3, <1>4

\* A step that keeps the result and begins nothing new.
LEMMA KeepsReady ==
  ASSUME TypeInv, [Next]_vars, ReadyInv, Keeps(rec'),
         pc'["queue"] \in Active =>
           \/ pc["queue"] \in Active \/ rec.state \in Underway \/ ~rec.agentCreated,
         \A q \in Callers :
           /\ pc'[q] \in Beginning => pc[q] \in Beginning \/ rec.state # "ready"
           /\ pc'[q] = "recheck" =>
                pc[q] = "recheck" \/ (MaxRechecks > 0 /\ rec.result > 0)
  PROVE  ReadyInv'
<1>1. Offers' => IsLast'
  <2> SUFFICES ASSUME Offers'
               PROVE  IsLast'
    OBVIOUS
  <2>1. Offers
    BY DEF Offers, Keeps
  <2>2. /\ rec.result = rec.attempt /\ rec.attempt \in Attempts /\ delivered[rec.attempt] > 0
        /\ pc["queue"] \notin Active /\ rec.state \notin Underway
    BY <2>1 DEF ReadyInv, IsLast
  <2>3. rec.result # 0
    BY <2>2 DEF Attempts
  <2>4. rec.agentCreated
    BY <2>3 DEF ReadyInv, NoResult
  <2>5. delivered'[rec.attempt] > 0
    BY <2>2, DeliveredGrows
  <2>6. rec'.state = "ready" => rec'.state \notin Underway
    BY DEF Underway
  <2>7. rec'.state # "ready" => MaxRepairs = 0
    BY DEF Offers
  <2>8. rec'.state \notin Underway
    BY <2>2, <2>3, <2>6, <2>7 DEF Keeps
  <2> QED
    BY <2>2, <2>4, <2>5, <2>8 DEF Keeps, IsLast
<1>2. NoResult'
  BY DEF ReadyInv, NoResult, Keeps
<1>3. ASSUME NEW q \in Callers
      PROVE  CallerReady(pc[q])'
  BY DEF ReadyInv, CallerReady, Keeps
<1> QED
  BY <1>1, <1>2, <1>3 DEF ReadyInv

LEMMA QueueReady ==
  ASSUME TypeInv, AckInv, ReadyInv, QueueStep,
         ~WriteIntent, ~WriteReady, ~WriteGap, ~WriteCorrection
  PROVE  ReadyInv'
<1>1. Keeps(rec')
  BY QueueKeepsRound DEF ReadyInv
<1> QED
  BY <1>1, KeepsReady, ActiveEntered, CallersLeft DEF Next

\* A write that takes the offer back.
LEMMA NothingOffered ==
  ASSUME ReadyInv, ~Offers', NoResult', rec'.state # "ready",
         \A q \in Callers :
           pc'[q] = "recheck" => pc[q] = "recheck" /\ rec'.result = rec.result
  PROVE  ReadyInv'
BY DEF ReadyInv, CallerReady

LEMMA WriteIntentReady ==
  ASSUME TypeInv, AckInv, ReadyInv, WriteIntent
  PROVE  ReadyInv'
<1>1. ~rec.creation
  BY DEF WriteIntent, At, AckInv, QueueFits, BeforeCreate
<1>2. rec.result = 0 /\ rec.state # "ready"
  BY <1>1 DEF AckInv, RecordOK, NotAsked, Terminal
<1>3. rec' = rec \/ rec' = Intended(rec)
  BY DEF WriteIntent, Update
<1>4. rec'.result = 0 /\ rec'.state # "ready"
  <2>1. Intended(rec).result = rec.result /\ Intended(rec).state = "designing"
    <3>1. Pending(rec, 1) \in Records
      BY AttemptIsNat, MaxAttemptsAssumption, PendingTyped
    <3>2. Pending(rec, 1).result = rec.result
      BY AttemptIsNat DEF Pending, Records
    <3> QED
      BY <3>1, <3>2 DEF Intended, Records
  <2> QED
    BY <1>2, <1>3, <2>1
<1>5. \A q \in Callers : pc'[q] = pc[q]
  BY CallersLeft DEF QueueStep, StartStep
<1> QED
  BY <1>2, <1>4, <1>5, NothingOffered DEF Offers, NoResult

LEMMA WriteReadyReady ==
  ASSUME TypeInv, AckInv, PromptInv, ReadyInv, WriteReady
  PROVE  ReadyInv'
<1>1. pc'["queue"] = "idle"
  BY QueueIsProc, Moves DEF WriteReady, Update, TypeInv, TypeOK
<1>2. \A q \in Callers : pc'[q] = pc[q]
  BY CallersLeft DEF QueueStep, ReconcileStep
<1>3. pc["queue"] = "ready"
  BY DEF WriteReady, At
<1>4. CASE rec' = rec
  <2>1. Keeps(rec')
    BY <1>4, PlainKeeps
  <2> QED
    BY <1>1, <1>2, <2>1, KeepsReady DEF Next, QueueStep, ReconcileStep, Active, Deciding, Sending
<1>5. CASE rec' = Ready(rec, loc["queue"].att)
  <2>1. loc["queue"].att = rec.attempt /\ Judged
    BY <1>3 DEF PromptInv, QueuePrompts, Deciding
  <2>2. rec.agentCreated /\ rec.attempt \in Attempts
    BY <1>3, <2>1 DEF AckInv, QueueFits, Deciding
  <2>3. /\ rec'.state = "ready" /\ rec'.result = rec.attempt /\ rec'.attempt = rec.attempt
        /\ rec'.agentCreated
    BY <1>5, <2>1, <2>2, AttemptIsNat DEF Ready, Records
  <2>4. delivered' = delivered
    BY DEF WriteReady, Local, host
  <2>5. IsLast'
    BY <1>1, <2>1, <2>2, <2>3, <2>4
       DEF IsLast, Judged, Active, Deciding, Sending, Underway
  <2>6. ASSUME NEW q \in Callers
        PROVE  CallerReady(pc[q])'
    <3>1. pc[q] \notin Beginning
      BY <1>3 DEF PromptInv, Apart, Active, Deciding
    <3>2. rec'.result > 0
      BY <2>2, <2>3 DEF Attempts
    <3> QED
      BY <1>2, <3>1, <3>2 DEF ReadyInv, CallerReady
  <2> QED
    BY <2>3, <2>5, <2>6 DEF ReadyInv, NoResult
<1> QED
  BY <1>4, <1>5 DEF WriteReady, Update

\* Where the queue judges or sends there is nothing on offer.
LEMMA NoOfferYet ==
  ASSUME ReadyInv, pc["queue"] \in Active
  PROVE  ~Offers
BY DEF ReadyInv, IsLast

LEMMA WriteGapReady ==
  ASSUME TypeInv, AckInv, ReadyInv, WriteGap, MaxRechecks = 0 \/ MaxRepairs = 0
  PROVE  ReadyInv'
<1>1. pc'["queue"] = "idle"
  BY QueueIsProc, Moves DEF WriteGap, Update, TypeInv, TypeOK
<1>2. \A q \in Callers : pc'[q] = pc[q]
  BY CallersLeft DEF QueueStep, ReconcileStep
<1>3. pc["queue"] = "gap"
  BY DEF WriteGap, At
<1>4. CASE rec' = rec
  <2>1. Keeps(rec')
    BY <1>4, PlainKeeps
  <2> QED
    BY <1>1, <1>2, <2>1, KeepsReady DEF Next, QueueStep, ReconcileStep, Active, Deciding, Sending
<1>5. CASE rec' = GapReported(rec, loc["queue"].att)
  <2>1. ~Offers
    BY <1>3, NoOfferYet DEF Active, Deciding
  <2>2. ASSUME NEW q \in Callers
        PROVE  pc[q] # "recheck"
    BY <2>1 DEF Offers, ReadyInv, CallerReady
  <2>3. rec'.state = "failed" /\ rec'.result = 0
    BY <1>5, AttemptIsNat DEF GapReported, Records
  <2> QED
    BY <1>2, <2>2, <2>3, NothingOffered DEF Offers, NoResult
<1> QED
  BY <1>4, <1>5 DEF WriteGap, Update, server

LEMMA WriteCorrectionReady ==
  ASSUME TypeInv, AckInv, ReadyInv, WriteCorrection
  PROVE  ReadyInv'
<1>1. \A q \in Callers : pc'[q] = pc[q]
  BY CallersLeft DEF QueueStep, ReconcileStep
<1>2. ~Offers
  BY NoOfferYet DEF WriteCorrection, At, Active, Deciding
<1>3. rec' = rec \/ \E n : rec' = Correcting(rec, n)
  BY DEF WriteCorrection, Update
<1>4. /\ rec'.result = rec.result /\ rec'.agentCreated = rec.agentCreated
      /\ rec'.state \in {rec.state, "fixing"}
  BY <1>3, AttemptIsNat DEF Correcting, Pending, Records
<1> QED
  BY <1>1, <1>2, <1>4, NothingOffered DEF Offers, ReadyInv, NoResult

LEMMA WriteRepairReady ==
  ASSUME TypeInv, AckInv, ReadyInv, NEW p \in Callers, WriteRepair(p)
  PROVE  ReadyInv'
<1>1. pc[p] = "repair" /\ MaxRepairs > 0
  BY DEF WriteRepair, At, AckInv, CallerFits, Repairing
<1>2. rec.state # "ready"
  BY <1>1 DEF ReadyInv, CallerReady, Beginning
<1>3. \A q \in Callers : pc'[q] = "recheck" => pc[q] = "recheck"
  <2>1. OnlyMoves(p) /\ pc'[p] \in {"sending", "idle"}
    BY CallerIsProc, Moves DEF WriteRepair, Update, TypeInv, TypeOK
  <2> QED
    BY <2>1, CallerIsProc DEF OnlyMoves
<1>4. \/ rec' = rec
      \/ rec' = [Correcting(rec, loc[p].att) EXCEPT !.outcomeUnknown = FALSE]
  BY DEF WriteRepair, Update, server
<1>5. /\ rec'.result = rec.result /\ rec'.agentCreated = rec.agentCreated
      /\ rec'.state \in {rec.state, "fixing"}
  BY <1>4, AttemptIsNat DEF Correcting, Pending, Records
<1> QED
  BY <1>1, <1>2, <1>3, <1>5, NothingOffered DEF Offers, ReadyInv, NoResult

LEMMA WriteRecheckReady ==
  ASSUME TypeInv, AckInv, ReadyInv, NEW p \in Callers, WriteRecheck(p),
         MaxRechecks = 0 \/ MaxRepairs = 0
  PROVE  ReadyInv'
<1>1. pc[p] = "recheck" /\ MaxRechecks > 0 /\ rec.result > 0
  BY DEF WriteRecheck, At, ReadyInv, CallerReady
<1>2. MaxRepairs = 0 /\ MaxRechecks \in Nat
  BY <1>1, DesignServiceAssumption
<1>3. IsLast
  BY <1>1, <1>2 DEF ReadyInv, Offers
<1>4. OnlyMoves(p) /\ pc'[p] = "idle"
  BY CallerIsProc, Moves DEF WriteRecheck, Update, TypeInv, TypeOK
<1>5. pc'["queue"] = pc["queue"] /\ delivered' = delivered
  BY <1>4, QueueIsProc, CallerIsProc DEF OnlyMoves, WriteRecheck, Local, host
<1>6. rec' = rec \/ rec' = [rec EXCEPT !.state = "ready"]
  BY DEF WriteRecheck, Update, server
<1>7. /\ rec'.result = rec.result /\ rec'.attempt = rec.attempt
      /\ rec'.agentCreated = rec.agentCreated /\ rec'.state \in {rec.state, "ready"}
  BY <1>6, AttemptIsNat DEF Records
<1>8. IsLast'
  BY <1>3, <1>5, <1>7 DEF IsLast, Underway
<1>9. ASSUME NEW q \in Callers
      PROVE  CallerReady(pc[q])'
  <2>1. pc'[q] = pc[q] \/ pc'[q] = "idle"
    BY <1>4, CallerIsProc DEF OnlyMoves
  <2>2. pc[q] \notin Beginning
    BY <1>2 DEF AckInv, CallerFits, Repairing, Beginning
  <2> QED
    BY <1>1, <1>7, <2>1, <2>2 DEF CallerReady, Beginning
<1> QED
  BY <1>7, <1>8, <1>9 DEF ReadyInv, NoResult

\* What the other steps of a caller do with its place.
LEMMA CallerGoesOn ==
  ASSUME TypeInv, NEW p \in Callers, Request(p) \/ CallerStep(p) \/ SharedStep(p),
         NEW q \in Callers
  PROVE  /\ pc'[q] \in Beginning => pc[q] \in Beginning \/ rec.state # "ready"
         /\ pc'[q] = "recheck" => pc[q] = "recheck" \/ (MaxRechecks > 0 /\ rec.result > 0)
<1> USE CallerIsProc DEF TypeInv, TypeOK, Beginning, At
<1>1. ASSUME NEW l, Goto(p, l)
      PROVE  OnlyMoves(p) /\ pc'[p] = l
  BY <1>1, CallerGotoMoves
<1>2. ASSUME Finish(p)
      PROVE  OnlyMoves(p) /\ pc'[p] = "idle"
  BY <1>2, Moves
<1>3. ASSUME Throw(p)
      PROVE  OnlyMoves(p) /\ pc'[p] \in {"idle", "createFailed"}
  BY <1>3, Throws
<1>4. CASE q # p
  <2>1. OnlyMoves(p)
    <3>1. CASE Request(p)
      BY <3>1 DEF Request, Cancel, Recheck, Repair, OnlyMoves, ControlOK
    <3>2. CASE CallerStep(p)
      BY <1>1, <1>2, <3>2 DEF CallerStep, AskCancel, WriteRecheck, RepairLook, WriteRepair, Update
    <3>3. CASE SharedStep(p)
      BY <1>1, <1>2, <1>3, <3>3
         DEF SharedStep, SendReturns, Sent, SendUnknown, Fail, Park, Resolve, CancelLookup,
             Adopt, Archive, ArchiveReturns, CancelWrite, Update
    <3> QED
      BY <3>1, <3>2, <3>3
  <2> QED
    BY <1>4, <2>1 DEF OnlyMoves
<1>5. CASE q = p
  <2>1. CASE Request(p)
    <3>1. Cancel(p) => pc'[p] = "askCancel"
      BY DEF Cancel, ControlOK
    <3>2. Repair(p) => pc'[p] = "repairLook" /\ rec.state # "ready"
      BY DEF Repair, ControlOK
    <3>3. Recheck(p) => pc'[p] = "recheck" /\ rec.result > 0 /\ MaxRechecks > 0
      <4>1. Recheck(p) => calls.recheck < MaxCalls.recheck
        BY DEF Recheck, Call
      <4>2. MaxCalls.recheck = MaxRechecks /\ calls.recheck \in 0 .. MaxRechecks
        BY DEF MaxCalls, RestOK
      <4> QED
        BY <4>1, <4>2, DesignServiceAssumption DEF Recheck, ControlOK
    <3> QED
      BY <1>5, <2>1, <3>1, <3>2, <3>3 DEF Request
  <2>2. CASE CallerStep(p)
    BY <1>1, <1>2, <1>5, <2>2
       DEF CallerStep, AskCancel, WriteRecheck, RepairLook, WriteRepair, Update
  <2>3. CASE SharedStep(p)
    BY <1>1, <1>2, <1>3, <1>5, <2>3
       DEF SharedStep, SendReturns, Sent, SendUnknown, Fail, Park, Resolve, CancelLookup,
           Adopt, Archive, ArchiveReturns, CancelWrite, Update
  <2> QED
    BY <2>1, <2>2, <2>3
<1> QED
  BY <1>4, <1>5

LEMMA CallerStepReady ==
  ASSUME TypeInv, AckInv, ReadyInv, NEW p \in Callers,
         Request(p) \/ CallerStep(p) \/ SharedStep(p), ~WriteRepair(p), ~WriteRecheck(p)
  PROVE  ReadyInv'
<1>1. Keeps(rec')
  BY CallerKeepsRound
<1>2. pc'["queue"] = pc["queue"]
  BY CallerLeavesQueue DEF TypeInv, QueueLeft
<1> QED
  BY <1>1, <1>2, KeepsReady, CallerGoesOn DEF Next

LEMMA WorldReady ==
  ASSUME TypeInv, ReadyInv,
         Poll \/ HookArrives \/ TurnEnds \/ CreateLands \/ SendAges \/ Restart \/ UNCHANGED vars
  PROVE  ReadyInv'
<1>1. rec' = rec
  BY DEF Poll, HookArrives, TurnEnds, CreateLands, SendAges, Restart, vars, server
<1>2. Keeps(rec')
  BY <1>1, PlainKeeps
<1>3. pc' = pc \/ \A p \in Procs : pc'[p] = "idle"
  BY DEF Poll, HookArrives, TurnEnds, CreateLands, SendAges, Restart, vars
<1> QED
  BY <1>2, <1>3, KeepsReady, QueueIsProc, CallerIsProc
     DEF Next, Beginning, Active, Deciding, Sending

LEMMA ReadyNext ==
  ASSUME TypeInv, AckInv, PromptInv, ReadyInv, [Next]_vars,
         MaxRechecks = 0 \/ MaxRepairs = 0
  PROVE  ReadyInv'
<1>1. CASE QueueStep
  BY <1>1, QueueReady, WriteIntentReady, WriteReadyReady, WriteGapReady, WriteCorrectionReady
<1>2. ASSUME NEW p \in Callers, Request(p) \/ CallerStep(p) \/ SharedStep(p)
      PROVE  ReadyInv'
  BY <1>2, CallerStepReady, WriteRepairReady, WriteRecheckReady
<1> QED
  BY <1>1, <1>2, WorldReady DEF Next

LEMMA ReadyInit == Init => ReadyInv
<1> SUFFICES ASSUME Init
             PROVE  ReadyInv
  OBVIOUS
<1>1. rec.result = 0 /\ rec.state = "starting"
  BY DEF Init, NewRecord
<1>2. \A q \in Callers : pc[q] = "idle"
  BY CallerIsProc DEF Init
<1> QED
  BY <1>1, <1>2 DEF ReadyInv, Offers, NoResult, CallerReady, Beginning

\* Under the same bounds, and if no one asks for both a repair and a recheck, the
\* result a ready job offers is that of the last prompt its agent was given: no
\* correction and no repair overtakes the round that is being validated
\* (processCandidate, continue).
THEOREM ReadyIsLatestHolds ==
  ASSUME NotBoth, MaxRepairs <= 1, MaxRechecks = 0 \/ MaxRepairs = 0
  PROVE  Spec => []ReadyIsLatest
<1>1. PromptInv /\ ReadyInv => ReadyIsLatest
  BY DEF PromptInv, RecordPrompts, ReadyInv, Offers, IsLast, ReadyIsLatest
<1>2. Init => TypeInv /\ AckInv /\ PromptInv /\ ReadyInv
  BY TypeInit, AckInit, PromptInit, ReadyInit
<1>3. TypeInv /\ AckInv /\ PromptInv /\ ReadyInv /\ [Next]_vars
        => (TypeInv /\ AckInv /\ PromptInv /\ ReadyInv)'
  BY ReadyNext, PromptNext, AckNext, TypeNext, RoundLeftNext DEF TypeInv
<1> QED
  BY <1>1, <1>2, <1>3, PTL DEF Spec
-----------------------------------------------------------------------------
(* No agent is left to a canceled job.  Without a restart and with a store *)
(* that answers, the create request is sent once: by the first task, if no *)
(* cancel was recorded when it looked last.  From there to the end of that *)
(* task the job is in the `creating` set, so no cancel looks for the agent  *)
(* in between, and the task does not leave a designing job without agent.   *)

\* What must hold when a cancel is written: the agent does not live.
AgentIsGone == AgentLives => landedLate

\* From the stored request to where the queue's task has settled the create.
Settling == {"afterIntent", "creating", "mark", "createFailed", "createLookup", "claim",
             "unsure", "fail", "cancelWrite"}
Asking == {"afterIntent", "creating"}
\* A designing job without agent is in the hands of the task that creates it;
\* if a cancel was recorded that task has not sent the request.
Lacking == rec.state = "designing" /\ ~rec.agentCreated

RecordTells ==
  /\ ~rec.creation => /\ ~rec.agentCreated /\ agent = "absent" /\ ~stalled
                      /\ rec.state \notin Reconciled
  /\ rec.creation => rec.state # "starting"
  /\ rec.agentCreated => agent # "absent"
  /\ rec.state = "fixing" => rec.agentCreated
  /\ rec.gap => rec.state = "failed"
  /\ rec.state = "canceled" => AgentIsGone

\* Where any process is.
PlaceTells(l) ==
  /\ l \in Deciding \cup Repairing \cup {"echoed", "archive", "archiving"} => rec.agentCreated
  /\ l \in {"mark", "claim", "adopt"} => agent # "absent"
  /\ l = "cancelWrite" => AgentIsGone

QueueTells(l, local) ==
  /\ PlaceTells(l)
  /\ l \in BeforeCreate => ~rec.creation
  /\ l \in Asking => /\ rec.creation /\ ~rec.agentCreated /\ agent = "absent" /\ ~stalled
                     /\ IsTerminal(rec) => rec.cancelRequested
  /\ l = "creating" => creating /\ ~IsTerminal(rec)
  /\ l # "replayLookup"
  /\ Lacking => l \in Settling /\ (rec.cancelRequested => l \in {"afterIntent", "cancelWrite"})
  /\ "asked" \in local.flag => rec.cancelRequested

CallerTells(l) ==
  /\ PlaceTells(l)
  /\ l # "fail"
  /\ l \in CancelLabels => rec.cancelRequested
  /\ l \in CancelLabels \ {"resolve"} => pc["queue"] # "creating"

OrphanInv ==
  /\ RecordTells
  /\ StartsFirst
  /\ QueueTells(pc["queue"], loc["queue"])
  /\ \A p \in Callers : CallerTells(pc[p])

\* What a step of one process leaves to the others.
Leaves ==
  /\ rec.agentCreated => rec'.agentCreated
  /\ rec.cancelRequested => rec'.cancelRequested
  /\ agent # "absent" => agent' # "absent"

LEMMA QueueKeepsOrphan ==
  ASSUME TypeInv, OrphanInv, Leaves, OnlyMoves("queue"), UNCHANGED tasks, ~Idle("queue"),
         AgentIsGone => AgentIsGone' \/ pc["queue"] = "creating",
         RecordTells', QueueTells(pc["queue"], loc["queue"])',
         pc'["queue"] = "creating" => ~rec.cancelRequested
  PROVE  OrphanInv'
<1>1. \A p \in Callers : p \in Procs /\ pc'[p] = pc[p]
  BY CallerIsProc DEF OnlyMoves
<1>2. ASSUME NEW p \in Callers
      PROVE  CallerTells(pc[p])'
  <2>1. CallerTells(pc[p])
    BY DEF OrphanInv
  <2>2. PlaceTells(pc[p])'
    BY <1>1, <2>1 DEF CallerTells, PlaceTells, Leaves, CancelLabels
  <2> QED
    BY <1>1, <2>1, <2>2 DEF CallerTells, Leaves, CancelLabels
<1>3. StartsFirst'
  BY DEF OrphanInv, StartsFirst
<1> QED
  BY <1>2, <1>3 DEF OrphanInv

LEMMA CallerKeepsOrphan ==
  ASSUME TypeInv, OrphanInv, Leaves, NEW p \in Callers, OnlyMoves(p), UNCHANGED tasks,
         AgentIsGone => AgentIsGone',
         RecordTells', CallerTells(pc[p])',
         creating' = creating, rec'.creation = rec.creation,
         agent = "absent" => agent' = "absent" /\ stalled' = stalled,
         pc["queue"] \in Asking => /\ rec'.agentCreated = rec.agentCreated
                                   /\ IsTerminal(rec') =>
                                        IsTerminal(rec) \/ (rec'.cancelRequested
                                                             /\ pc["queue"] # "creating"),
         Lacking' => Lacking /\ rec'.cancelRequested = rec.cancelRequested
  PROVE  OrphanInv'
<1>1. pc'["queue"] = pc["queue"] /\ loc'["queue"] = loc["queue"]
  BY CallerIsProc, QueueIsProc DEF OnlyMoves
<1>2. ASSUME NEW q \in Callers, q # p
      PROVE  CallerTells(pc[q])'
  <2>1. CallerTells(pc[q]) /\ pc'[q] = pc[q]
    BY <1>2, CallerIsProc DEF OrphanInv, OnlyMoves
  <2>2. PlaceTells(pc[q])'
    BY <2>1 DEF CallerTells, PlaceTells, Leaves
  <2> QED
    BY <1>1, <2>1, <2>2 DEF CallerTells, Leaves, CancelLabels
<1>3. QueueTells(pc["queue"], loc["queue"])'
  <2>1. QueueTells(pc["queue"], loc["queue"])
    BY DEF OrphanInv
  <2>2. PlaceTells(pc["queue"])'
    BY <1>1, <2>1 DEF QueueTells, PlaceTells, Leaves
  <2> QED
    BY <1>1, <2>1, <2>2 DEF QueueTells, Leaves, Asking
<1> QED
  BY <1>1, <1>2, <1>3 DEF OrphanInv, StartsFirst, Idle, At

-----------------------------------------------------------------------------
(* Steps of the queue that only read. *)

LEMMA NoFault ==
  ASSUME TypeInv, MaxFaults = 0
  PROVE  ~StoreFault
BY DEF TypeInv, TypeOK, ServerOK, StoreFault

LEMMA RecordTellsStays ==
  ASSUME RecordTells, rec' = rec, UNCHANGED host
  PROVE  RecordTells' /\ Leaves /\ (AgentIsGone => AgentIsGone')
BY DEF RecordTells, Leaves, AgentIsGone, AgentLives, IsTerminal, host

\* Places of which nothing else is told.
Untold(l) ==
  /\ PlaceTells(l) /\ l \notin BeforeCreate \cup Asking \cup {"replayLookup"}
  /\ Lacking => l \in Settling /\ (rec.cancelRequested => l = "cancelWrite")

LEMMA PlainTells ==
  ASSUME NEW l, NEW local, Untold(l), "asked" \in local.flag => rec.cancelRequested
  PROVE  QueueTells(l, local)
BY DEF Untold, QueueTells, Asking

LEMMA QueueReadsOrphan ==
  ASSUME TypeInv, OrphanInv, UNCHANGED server, Local, ~Idle("queue"), OnlyMoves("queue"),
         NEW l, NEW local, pc'["queue"] = l, loc'["queue"] = local,
         QueueTells(l, local), l # "creating"
  PROVE  OrphanInv'
<1>1. rec' = rec /\ UNCHANGED host /\ UNCHANGED tasks
  BY DEF server, Local
<1>2. RecordTells' /\ Leaves /\ (AgentIsGone => AgentIsGone')
  BY <1>1, RecordTellsStays DEF OrphanInv
<1>3. QueueTells(l, local)'
  BY <1>1 DEF QueueTells, PlaceTells, AgentIsGone, AgentLives, Lacking, IsTerminal, host
<1> QED
  BY <1>1, <1>2, <1>3, QueueKeepsOrphan

LEMMA QueueGoesPlain ==
  ASSUME TypeInv, OrphanInv, UNCHANGED server, Local, ~Idle("queue"),
         NEW l, Goto("queue", l), Untold(l)
  PROVE  OrphanInv'
<1>1. OnlyMoves("queue") /\ pc'["queue"] = l /\ loc'["queue"] = loc["queue"]
  BY QueueIsProc, Moves DEF TypeInv, TypeOK
<1>2. QueueTells(l, loc["queue"])
  BY PlainTells DEF OrphanInv, QueueTells
<1> QED
  BY <1>1, <1>2, QueueReadsOrphan DEF Untold, Asking

LEMMA QueueGoesWithPlain ==
  ASSUME TypeInv, OrphanInv, UNCHANGED server, Local, ~Idle("queue"),
         NEW l, NEW local, GotoWith("queue", l, local), Untold(l),
         "asked" \in local.flag => "asked" \in loc["queue"].flag \/ rec.cancelRequested
  PROVE  OrphanInv'
<1>1. OnlyMoves("queue") /\ pc'["queue"] = l /\ loc'["queue"] = local
  BY QueueIsProc, Moves DEF TypeInv, TypeOK
<1>2. QueueTells(l, local)
  BY PlainTells DEF OrphanInv, QueueTells
<1> QED
  BY <1>1, <1>2, QueueReadsOrphan DEF Untold, Asking

LEMMA QueueForgetsPlain ==
  ASSUME TypeInv, OrphanInv, UNCHANGED server, Local, ~Idle("queue"),
         NEW l, NEW n, Forget("queue", l, n), Untold(l)
  PROVE  OrphanInv'
<1>1. PICK local : GotoWith("queue", l, local) /\ local.flag = {}
  BY ForgetFits
<1> QED
  BY <1>1, QueueGoesWithPlain

LEMMA QueueEndsPlain ==
  ASSUME TypeInv, OrphanInv, UNCHANGED server, Local, ~Idle("queue"), Finish("queue"), ~Lacking
  PROVE  OrphanInv'
<1>1. OnlyMoves("queue") /\ pc'["queue"] = "idle" /\ loc'["queue"] = NoLocals
  BY QueueIsProc, Moves DEF TypeInv, TypeOK
<1>2. Untold("idle") /\ "asked" \notin NoLocals.flag
  BY DEF Untold, PlaceTells, Deciding, Repairing, Sending, BeforeCreate, Asking, NoLocals
<1> QED
  BY <1>1, <1>2, PlainTells, QueueReadsOrphan

LEMMA AskedStays ==
  ASSUME TypeInv
  PROVE  /\ \A f : With("queue", f).flag = loc["queue"].flag \cup f
         /\ "asked" \in Observing(rec).flag => "asked" \in loc["queue"].flag
<1>1. loc["queue"] \in Locals
  BY QueueLocalTyped DEF TypeInv
<1> QED
  BY <1>1 DEF With, Observing, Flagged, Locals

LEMMA StartReadsOrphan ==
  ASSUME TypeInv, OrphanInv,
         StartRun \/ BeforeIntent \/ AfterIntent \/ CreateFailed \/ CreateLookup
  PROVE  OrphanInv'
<1>q. QueueTells(pc["queue"], loc["queue"]) /\ RecordTells
  BY DEF OrphanInv
<1>i. ~Idle("queue") /\ UNCHANGED server /\ Local
  BY DEF StartRun, BeforeIntent, AfterIntent, CreateFailed, CreateLookup, At, Idle
<1> USE DEF BeforeCreate, Asking, Settling, Deciding, Sending, Repairing
<1>1. CASE StartRun
  <2>1. ~rec.creation /\ ~Lacking /\ AgentIsGone
    BY <1>1, <1>q
       DEF StartRun, At, QueueTells, RecordTells, Lacking, Reconciled, AgentIsGone, AgentLives
  <2>2. Untold("fail") /\ QueueTells("beforeIntent", loc["queue"])
    BY <1>q, <2>1 DEF Untold, QueueTells, PlaceTells
  <2>3. OnlyMoves("queue") /\ loc'["queue"] = loc["queue"]
        /\ pc'["queue"] \in {"beforeIntent", "fail"}
    BY <1>1, QueueIsProc, Moves DEF StartRun, TypeInv, TypeOK
  <2>4. QueueTells("fail", loc["queue"])
    BY <1>q, <2>2, PlainTells DEF QueueTells
  <2> QED
    BY <1>i, <2>2, <2>3, <2>4, QueueReadsOrphan
<1>2. CASE BeforeIntent
  <2>1. ~rec.creation /\ ~Lacking /\ AgentIsGone
    BY <1>2, <1>q DEF BeforeIntent, At, QueueTells, RecordTells, Lacking, Reconciled, AgentIsGone,
                      AgentLives
  <2>2. QueueTells("cancelWrite", loc["queue"]) /\ QueueTells("intent", loc["queue"])
    BY <1>q, <2>1 DEF QueueTells, PlaceTells
  <2>3. OnlyMoves("queue") /\ loc'["queue"] = loc["queue"]
        /\ pc'["queue"] \in {"cancelWrite", "intent"}
    BY <1>2, QueueIsProc, Moves DEF BeforeIntent, TypeInv, TypeOK
  <2> QED
    BY <1>i, <2>2, <2>3, QueueReadsOrphan
<1>3. CASE AfterIntent
  <2>1. agent = "absent" /\ (~rec.cancelRequested => ~IsTerminal(rec))
    BY <1>3, <1>q DEF AfterIntent, At, QueueTells
  <2>2. CASE rec.cancelRequested
    <3>1. Untold("cancelWrite")
      BY <2>1, <2>2 DEF Untold, PlaceTells, AgentIsGone, AgentLives
    <3> QED
      BY <1>3, <1>i, <2>2, <3>1, QueueGoesPlain DEF AfterIntent
  <2>3. CASE ~rec.cancelRequested
    <3>1. pc' = [pc EXCEPT !["queue"] = "creating"] /\ UNCHANGED loc /\ creating'
      BY <1>3, <2>3 DEF AfterIntent
    <3>2. OnlyMoves("queue") /\ pc'["queue"] = "creating" /\ loc'["queue"] = loc["queue"]
      BY <3>1, QueueIsProc DEF OnlyMoves, TypeInv, TypeOK, ControlOK
    <3>3. rec' = rec /\ UNCHANGED host /\ UNCHANGED tasks
      BY <1>i DEF server, Local
    <3>4. RecordTells' /\ Leaves /\ (AgentIsGone => AgentIsGone')
      BY <1>q, <3>3, RecordTellsStays
    <3>5. QueueTells("creating", loc["queue"])'
      BY <1>3, <1>q, <2>1, <2>3, <3>1, <3>3
         DEF AfterIntent, At, QueueTells, PlaceTells, Lacking, IsTerminal, host
    <3> QED
      BY <1>i, <2>3, <3>1, <3>2, <3>3, <3>4, <3>5, QueueKeepsOrphan
  <2> QED
    BY <2>2, <2>3
<1>4. CASE CreateFailed
  <2> DEFINE local == With("queue", Flagged(rec.cancelRequested, "asked"))
  <2>1. "asked" \in local.flag => "asked" \in loc["queue"].flag \/ rec.cancelRequested
    BY AskedStays DEF Flagged
  <2>2. Untold("createLookup")
    BY <1>4, <1>q DEF CreateFailed, At, QueueTells, Untold, PlaceTells
  <2>3. GotoWith("queue", "createLookup", local)
    BY <1>4 DEF CreateFailed
  <2> HIDE DEF local
  <2> QED
    BY <1>i, <2>1, <2>2, <2>3, QueueGoesWithPlain
<1>5. CASE CreateLookup
  <2>1. Lacking => ~rec.cancelRequested
    BY <1>5, <1>q DEF CreateLookup, At, QueueTells
  <2>2. Found => Untold("claim")
    BY <2>1 DEF Found, Untold, PlaceTells
  <2>3. Untold("unsure") /\ Untold("fail")
    BY <2>1 DEF Untold, PlaceTells
  <2>4. Has("queue", "asked") => Untold("resolve")
    BY <1>q, <2>1 DEF Has, QueueTells, Untold, PlaceTells
  <2>5. \E l : Goto("queue", l) /\ Untold(l)
    BY <1>5, <2>2, <2>3, <2>4 DEF CreateLookup
  <2> QED
    BY <1>i, <2>5, QueueGoesPlain
<1> QED
  BY <1>1, <1>2, <1>3, <1>4, <1>5

LEMMA ReconcileReadsOrphan ==
  ASSUME TypeInv, OrphanInv,
         Reconcile \/ ReplayLookup \/ ResumeLookup \/ RecoverSend \/ Observe \/ Look
         \/ Candidate \/ TurnEnded
  PROVE  OrphanInv'
<1>q. QueueTells(pc["queue"], loc["queue"]) /\ RecordTells
  BY DEF OrphanInv
<1>i. ~Idle("queue") /\ UNCHANGED server /\ Local
  BY DEF Reconcile, ReplayLookup, ResumeLookup, RecoverSend, Observe, Look, Candidate, TurnEnded,
         At, Idle
<1>n. ~ReplayLookup
  BY <1>q DEF ReplayLookup, At, QueueTells
<1>l. ~Lacking
  BY <1>q, <1>n
     DEF Reconcile, ResumeLookup, RecoverSend, Observe, Look, Candidate, TurnEnded, At, QueueTells,
         Settling
<1> USE <1>i, <1>l, QueueGoesPlain, QueueGoesWithPlain, QueueForgetsPlain, QueueEndsPlain
    DEF Untold, PlaceTells, BeforeCreate, Asking, Settling, Deciding, Sending, Repairing
<1>1. CASE Reconcile
  <2>1. CASE Finish("queue")
    BY <2>1
  <2>2. CASE Goto("queue", "resolve")
    BY <2>2
  <2>3. CASE ReconcileLive
    <3>1. CASE ResumeStarting
      <4>1. ~rec.creation /\ OnlyMoves("queue") /\ pc'["queue"] = "start"
            /\ loc'["queue"] = loc["queue"]
        BY <1>q, <3>1, QueueIsProc, Moves DEF ResumeStarting, RecordTells, TypeInv, TypeOK
      <4>2. QueueTells("start", loc["queue"])
        BY <1>q, <4>1 DEF QueueTells
      <4> QED
        BY <4>1, <4>2, QueueReadsOrphan
    <3>2. CASE rec.state = "designing" /\ ~rec.agentCreated /\ Goto("queue", "replayLookup")
      BY <3>2 DEF Lacking
    <3>3. CASE rec.state = "designing" /\ rec.agentCreated
               /\ GotoWith("queue", "observe", Observing(rec))
      <4>1. Untold("observe")
        BY <3>3
      <4> QED
        BY <3>3, <4>1, AskedStays
    <3>4. CASE rec.state = "fixing" /\ GotoWith("queue", "recoverSend", Observing(rec))
      <4>1. Untold("recoverSend")
        BY <1>q, <3>4 DEF RecordTells
      <4> QED
        BY <3>4, <4>1, AskedStays
    <3>5. CASE Goto("queue", "resumeLookup")
      BY <3>5
    <3>6. CASE Finish("queue")
      BY <3>6
    <3> QED
      BY <2>3, <3>1, <3>2, <3>3, <3>4, <3>5, <3>6 DEF ReconcileLive
  <2> QED
    BY <1>1, <2>1, <2>2, <2>3 DEF Reconcile
<1>2. CASE ResumeLookup
  <2>1. CASE Finish("queue")
    BY <2>1
  <2>2. CASE Found /\ GotoWith("queue", "claim", With("queue", {"resume"}))
    <3>1. Untold("claim")
      BY <2>2 DEF Found
    <3>2. "asked" \in With("queue", {"resume"}).flag => "asked" \in loc["queue"].flag
      BY AskedStays
    <3> QED
      BY <2>2, <3>1, <3>2
  <2> QED
    BY <1>2, <2>1, <2>2 DEF ResumeLookup
<1>3. CASE RecoverSend
  <2>1. rec.agentCreated
    BY <1>3, <1>q DEF RecoverSend, At, QueueTells
  <2>2. Untold("echoed") /\ Untold("sendTimedOut") /\ Untold("observe")
    BY <2>1
  <2> QED
    BY <1>3, <2>2 DEF RecoverSend
<1>4. CASE Observe
  <2> DEFINE local ==
        [With("queue", Flagged(~rec.outcomeUnknown /\ rec.ack[rec.attempt] = "acked", "decisive"))
           EXCEPT !.text = rec.attempt]
  <2>1. "asked" \in local.flag => "asked" \in loc["queue"].flag
    BY QueueLocalTyped DEF With, Flagged, TypeInv, Locals
  <2>2. Untold("look")
    BY <1>4, <1>q DEF Observe, At, QueueTells
  <2>3. Finish("queue") \/ GotoWith("queue", "look", local)
    BY <1>4 DEF Observe
  <2> HIDE DEF local
  <2> QED
    BY <2>1, <2>2, <2>3
<1>5. CASE Look
  <2>1. Untold("fail") /\ Untold("park") /\ Untold("candidate") /\ Untold("learn")
    BY <1>5, <1>q DEF Look, At, QueueTells
  <2> QED
    BY <1>5, <2>1 DEF Look
<1>6. CASE Candidate
  <2>1. \A l \in {"fail", "park", "correct", "ready", "gap"} : Untold(l)
    BY <1>6, <1>q DEF Candidate, At, QueueTells
  <2>2. \E l \in {"park", "fail", "correct", "ready", "gap"} : \E n : Forget("queue", l, n)
    BY <1>6 DEF Candidate, HandleFailure
  <2> QED
    BY <2>1, <2>2
<1>7. CASE TurnEnded
  <2>1. CASE Finish("queue")
    BY <2>1
  <2>2. CASE rec.state \in Reconciled
    <3>1. rec.agentCreated
      BY <1>q, <2>2 DEF Reconciled, Lacking, RecordTells
    <3>2. Untold("archive") /\ Untold("turnFailed") /\ Untold("reconcile")
      BY <3>1
    <3>3. \/ Finish("queue") \/ Goto("queue", "turnFailed")
          \/ \E n : Forget("queue", "archive", n) \/ Forget("queue", "reconcile", n)
      BY <1>7 DEF TurnEnded, EndTurn
    <3> QED
      BY <3>2, <3>3
  <2> QED
    BY <1>7, <2>1, <2>2 DEF TurnEnded
<1> QED
  BY <1>1, <1>2, <1>3, <1>4, <1>5, <1>6, <1>7, <1>n

-----------------------------------------------------------------------------
(* What is written to the record. *)

\* A record that is refused belongs to a job that has ended.
LEMMA RefusedIsTerminal ==
  ASSUME RecordTells, NEW next, next.gap = rec.gap, ~Accepts(rec, next)
  PROVE  IsTerminal(rec)
BY DEF RecordTells, Accepts, RulesConsistent, IsTerminal, Terminal

\* The change s of the record r leaves what it says of create, cancel and gap.
KeepsCreate(r, s) ==
  /\ s.creation = r.creation /\ s.agentCreated = r.agentCreated
  /\ s.cancelRequested = r.cancelRequested
SameGap(r, s) == s.gap = r.gap

LEMMA WriteFields ==
  ASSUME NEW r \in Records, NEW n
  PROVE  /\ KeepsCreate(r, Failed(r)) /\ SameGap(r, Failed(r)) /\ Failed(r).state = "failed"
         /\ KeepsCreate(r, Parked(r)) /\ SameGap(r, Parked(r)) /\ Parked(r).state = "needs_continue"
         /\ KeepsCreate(r, Uncertain(r)) /\ SameGap(r, Uncertain(r))
         /\ Uncertain(r).state = "needs_continue"
         /\ KeepsCreate(r, Correcting(r, n)) /\ SameGap(r, Correcting(r, n))
         /\ Correcting(r, n).state = "fixing"
         /\ KeepsCreate(r, Designing(r, n)) /\ SameGap(r, Designing(r, n))
         /\ Designing(r, n).state = "designing"
         /\ KeepsCreate(r, Echoed(r, n)) /\ SameGap(r, Echoed(r, n))
         /\ Echoed(r, n).state = IF r.state = "fixing" THEN "designing" ELSE r.state
         /\ KeepsCreate(r, SendUncertain(r, n)) /\ SameGap(r, SendUncertain(r, n))
         /\ SendUncertain(r, n).state = "needs_continue"
         /\ KeepsCreate(r, Ready(r, n)) /\ SameGap(r, Ready(r, n)) /\ Ready(r, n).state = "ready"
         /\ KeepsCreate(r, GapReported(r, n)) /\ GapReported(r, n).state = "failed"
<1> USE DEF KeepsCreate, SameGap, Records
<1>1. KeepsCreate(r, Acked(r, n, "acked")) /\ SameGap(r, Acked(r, n, "acked"))
      /\ Acked(r, n, "acked").state = r.state
      /\ DOMAIN Acked(r, n, "acked") = DOMAIN r
  BY DEF Acked
<1>2. KeepsCreate(r, Acked(r, n, "unknown")) /\ SameGap(r, Acked(r, n, "unknown"))
      /\ Acked(r, n, "unknown").state = r.state
      /\ DOMAIN Acked(r, n, "unknown") = DOMAIN r
  BY DEF Acked
<1>3. KeepsCreate(r, Failed(r)) /\ SameGap(r, Failed(r)) /\ Failed(r).state = "failed"
      /\ KeepsCreate(r, Parked(r)) /\ SameGap(r, Parked(r)) /\ Parked(r).state = "needs_continue"
  BY DEF Failed, Parked
<1>4. KeepsCreate(r, Uncertain(r)) /\ SameGap(r, Uncertain(r)) /\ Uncertain(r).state = "needs_continue"
  BY DEF Uncertain, Parked
<1>5. KeepsCreate(r, Correcting(r, n)) /\ SameGap(r, Correcting(r, n))
      /\ Correcting(r, n).state = "fixing"
  BY DEF Correcting, Pending
<1>6. KeepsCreate(r, Designing(r, n)) /\ SameGap(r, Designing(r, n))
      /\ Designing(r, n).state = "designing"
  BY DEF Designing, Acked
<1>7. KeepsCreate(r, Echoed(r, n)) /\ SameGap(r, Echoed(r, n))
      /\ Echoed(r, n).state = IF r.state = "fixing" THEN "designing" ELSE r.state
  BY DEF Echoed, Acked
<1>8. KeepsCreate(r, SendUncertain(r, n)) /\ SameGap(r, SendUncertain(r, n))
      /\ SendUncertain(r, n).state = "needs_continue"
  BY DEF SendUncertain, Uncertain, Parked, Acked
<1>9. KeepsCreate(r, Ready(r, n)) /\ SameGap(r, Ready(r, n)) /\ Ready(r, n).state = "ready"
      /\ KeepsCreate(r, GapReported(r, n)) /\ GapReported(r, n).state = "failed"
  BY DEF Ready, GapReported
<1> QED
  BY <1>3, <1>4, <1>5, <1>6, <1>7, <1>8, <1>9

LEMMA WriteTells ==
  ASSUME RecordTells, UNCHANGED host, Accepts(rec, rec'),
         rec'.creation = rec.creation, rec'.agentCreated = rec.agentCreated,
         rec.cancelRequested => rec'.cancelRequested,
         rec'.state = "starting" => rec.state = "starting",
         rec'.state \in Reconciled => rec.agentCreated \/ rec'.state = rec.state,
         rec'.state = "canceled" => AgentIsGone \/ rec.state = "canceled"
  PROVE  RecordTells' /\ Leaves /\ (AgentIsGone => AgentIsGone')
<1>1. agent' = agent /\ stalled' = stalled /\ landedLate' = landedLate
  BY DEF host
<1>2. AgentIsGone => AgentIsGone'
  BY <1>1 DEF AgentIsGone, AgentLives
<1>3. rec'.gap => rec'.state = "failed"
  BY DEF Accepts, RulesConsistent
<1> QED
  BY <1>1, <1>2, <1>3 DEF RecordTells, Leaves, Reconciled

LEMMA QueueWritesOrphan ==
  ASSUME TypeInv, OrphanInv, UNCHANGED <<tasks, host>>, ~Idle("queue"), RecordTells', Leaves,
         NEW l, NEW local,
         GotoWith("queue", l, local) \/ (Goto("queue", l) /\ local = loc["queue"]),
         QueueTells(l, local)', l # "creating"
  PROVE  OrphanInv'
<1>1. OnlyMoves("queue") /\ pc'["queue"] = l /\ loc'["queue"] = local
  BY QueueIsProc, Moves DEF TypeInv, TypeOK
<1>2. AgentIsGone => AgentIsGone'
  BY DEF AgentIsGone, AgentLives, host
<1> QED
  BY <1>1, <1>2, QueueKeepsOrphan

LEMMA QueueWritesEndsOrphan ==
  ASSUME TypeInv, OrphanInv, UNCHANGED <<tasks, host>>, ~Idle("queue"), RecordTells', Leaves,
         Finish("queue"), ~Lacking'
  PROVE  OrphanInv'
<1>1. OnlyMoves("queue") /\ pc'["queue"] = "idle" /\ loc'["queue"] = NoLocals
  BY QueueIsProc, Moves DEF TypeInv, TypeOK
<1>2. AgentIsGone => AgentIsGone'
  BY DEF AgentIsGone, AgentLives, host
<1>3. QueueTells("idle", NoLocals)'
  BY DEF QueueTells, PlaceTells, Deciding, Repairing, Sending, BeforeCreate, Asking, NoLocals
<1> QED
  BY <1>1, <1>2, <1>3, QueueKeepsOrphan

LEMMA StartWritesOrphan ==
  ASSUME TypeInv, OrphanInv, MaxFaults = 0,
         WriteIntent \/ CreateReturns \/ MarkCreated \/ CreateUnsure \/ ClaimAgent
  PROVE  OrphanInv'
<1>q. QueueTells(pc["queue"], loc["queue"]) /\ RecordTells
  BY DEF OrphanInv
<1>i. ~Idle("queue")
  BY DEF WriteIntent, CreateReturns, MarkCreated, CreateUnsure, ClaimAgent, At, Idle
<1>r. rec \in Records /\ ~StoreFault
  BY NoFault DEF TypeInv, TypeOK, ServerOK
<1> USE DEF BeforeCreate, Asking, Settling, Deciding, Sending, Repairing
<1>e. ASSUME UNCHANGED server, Local, Finish("queue"), IsTerminal(rec)
      PROVE  OrphanInv'
  BY <1>e, <1>i, QueueEndsPlain DEF Lacking, IsTerminal, Terminal
<1>1. CASE WriteIntent
  <2>1. /\ ~rec.creation /\ agent = "absent" /\ ~stalled /\ ~rec.agentCreated
        /\ UNCHANGED <<tasks, host>>
    BY <1>1, <1>q DEF WriteIntent, At, QueueTells, RecordTells
  <2>2. CASE rec' = rec /\ Finish("queue")
    <3>1. RecordTells' /\ Leaves
      BY <1>q, <2>1, <2>2, RecordTellsStays
    <3>2. ~Lacking'
      BY <1>q, <2>1, <2>2 DEF Lacking, RecordTells, Reconciled
    <3> QED
      BY <1>i, <2>1, <2>2, <3>1, <3>2, QueueWritesEndsOrphan
  <2>3. CASE rec' = Intended(rec) /\ Accepts(rec, rec') /\ Goto("queue", "afterIntent")
    <3>1. /\ rec'.creation /\ rec'.state = "designing"
          /\ rec'.agentCreated = rec.agentCreated /\ rec'.cancelRequested = rec.cancelRequested
      BY <1>r, <2>3 DEF Intended, Pending, Records
    <3>2. ~rec'.gap
      BY <2>3, <3>1 DEF Accepts, RulesConsistent
    <3>3. RecordTells' /\ Leaves
      BY <1>q, <2>1, <3>1, <3>2 DEF RecordTells, Leaves, host
    <3>4. PICK local : local = loc["queue"]
      OBVIOUS
    <3>5. QueueTells("afterIntent", local)'
      BY <1>q, <2>1, <3>1, <3>4
         DEF QueueTells, PlaceTells, Lacking, IsTerminal, Terminal, host
    <3> QED
      BY <1>i, <2>1, <2>3, <3>3, <3>4, <3>5, QueueWritesOrphan
  <2> QED
    BY <1>1, <1>r, <2>2, <2>3 DEF WriteIntent, Update
<1>2. CASE CreateReturns
  <2>1. /\ pc["queue"] = "creating" /\ rec' = rec /\ UNCHANGED tasks
        /\ rec.creation /\ ~rec.agentCreated /\ agent = "absent" /\ ~IsTerminal(rec)
        /\ Lacking => ~rec.cancelRequested
    BY <1>2, <1>q DEF CreateReturns, At, QueueTells, server
  <2>2. \A u \in BOOLEAN :
          "asked" \in With("queue", Flagged(u, "unsure")).flag => "asked" \in loc["queue"].flag
    BY AskedStays DEF Flagged
  <2>3. PICK l, local :
          /\ GotoWith("queue", l, local) \/ (Goto("queue", l) /\ local = loc["queue"])
          /\ "asked" \in local.flag => "asked" \in loc["queue"].flag
          /\ l = "createFailed" \/ (l = "mark" /\ HostCreates)
    BY <1>2, <2>2 DEF CreateReturns
  <2>4. OnlyMoves("queue") /\ pc'["queue"] = l /\ loc'["queue"] = local
    BY <2>3, QueueIsProc, Moves DEF TypeInv, TypeOK
  <2>5. l = "mark" => agent' # "absent"
    BY <2>3 DEF HostCreates, host
  <2>6. RecordTells' /\ Leaves
    BY <1>q, <2>1 DEF RecordTells, Leaves, IsTerminal, Terminal
  <2>7. QueueTells(l, local)'
    BY <1>q, <2>1, <2>3, <2>5 DEF QueueTells, PlaceTells, Lacking
  <2> QED
    BY <1>i, <2>1, <2>3, <2>4, <2>6, <2>7, QueueKeepsOrphan
<1>m. ASSUME rec' = AgentMarked(rec), Accepts(rec, rec'), agent # "absent", UNCHANGED host
      PROVE  RecordTells' /\ Leaves /\ ~Lacking' /\ rec'.agentCreated
             /\ rec'.cancelRequested = rec.cancelRequested
  <2>1. /\ rec'.creation = rec.creation /\ rec'.agentCreated
        /\ rec'.cancelRequested = rec.cancelRequested
        /\ rec'.state \in {"canceling", "designing"}
    BY <1>r, <1>m DEF AgentMarked, Records
  <2>2. ~rec'.gap
    BY <1>m, <2>1 DEF Accepts, RulesConsistent
  <2> QED
    BY <1>q, <1>m, <2>1, <2>2 DEF RecordTells, Leaves, Lacking, host
<1>t. ~Accepts(rec, AgentMarked(rec)) => IsTerminal(rec)
  <2>1. AgentMarked(rec).gap = rec.gap
    BY <1>r DEF AgentMarked, Records
  <2> QED
    BY <1>q, <2>1, RefusedIsTerminal
<1>3. CASE MarkCreated
  <2>1. agent # "absent" /\ UNCHANGED <<tasks, host>> /\ Local
    BY <1>3, <1>q DEF MarkCreated, At, QueueTells, PlaceTells, Local
  <2>2. CASE ~Accepts(rec, AgentMarked(rec)) /\ UNCHANGED server /\ Goto("queue", "createFailed")
    <3>1. Untold("createFailed")
      BY <1>t, <2>2 DEF Untold, PlaceTells, Lacking, IsTerminal, Terminal
    <3> QED
      BY <1>i, <2>1, <2>2, <3>1, QueueGoesPlain
  <2>3. CASE rec' = AgentMarked(rec) /\ Accepts(rec, rec') /\ Finish("queue")
    BY <1>i, <1>m, <2>1, <2>3, QueueWritesEndsOrphan
  <2>4. CASE /\ rec' = AgentMarked(rec) /\ Accepts(rec, rec')
             /\ GotoWith("queue", "archive", With("queue", {"guarded"}))
    <3>1. PICK local : local = With("queue", {"guarded"})
      OBVIOUS
    <3>2. "asked" \in local.flag => "asked" \in loc["queue"].flag
      BY <3>1, AskedStays
    <3>3. QueueTells("archive", local)'
      BY <1>q, <1>m, <2>1, <2>4, <3>2 DEF QueueTells, PlaceTells
    <3> QED
      BY <1>i, <1>m, <2>1, <2>4, <3>1, <3>3, QueueWritesOrphan
  <2> QED
    BY <1>3, <1>r, <2>2, <2>3, <2>4 DEF MarkCreated, Update, server
<1>4. CASE CreateUnsure
  <2>1. UNCHANGED <<tasks, host>> /\ Local
    BY <1>4 DEF CreateUnsure, Local
  <2>2. CASE ~Accepts(rec, Uncertain(rec)) /\ UNCHANGED server /\ Finish("queue")
    BY <1>e, <1>q, <1>r, <2>1, <2>2, RefusedIsTerminal, WriteFields DEF SameGap
  <2>3. CASE rec' = Uncertain(rec) /\ Accepts(rec, rec') /\ Finish("queue")
    <3>1. KeepsCreate(rec, rec') /\ rec'.state = "needs_continue"
      BY <1>r, <2>3, WriteFields
    <3>2. RecordTells' /\ Leaves
      BY <1>q, <2>1, <2>3, <3>1, WriteTells DEF KeepsCreate, Reconciled
    <3>3. ~Lacking'
      BY <3>1 DEF Lacking
    <3> QED
      BY <1>i, <2>1, <2>3, <3>2, <3>3, QueueWritesEndsOrphan
  <2> QED
    BY <1>4, <1>r, <2>2, <2>3 DEF CreateUnsure, Update, server
<1>5. CASE ClaimAgent
  <2>1. agent # "absent" /\ UNCHANGED <<tasks, host>> /\ Local
    BY <1>5, <1>q DEF ClaimAgent, At, QueueTells, PlaceTells, Local
  <2>2. CASE ~Accepts(rec, AgentMarked(rec)) /\ UNCHANGED server /\ Finish("queue")
    BY <1>e, <1>t, <2>1, <2>2
  <2>3. CASE rec' = AgentMarked(rec) /\ Accepts(rec, rec') /\ Finish("queue")
    BY <1>i, <1>m, <2>1, <2>3, QueueWritesEndsOrphan
  <2>4. ASSUME rec' = AgentMarked(rec), Accepts(rec, rec'),
               NEW l \in {"archive", "observe"}, NEW local,
               GotoWith("queue", l, local) \/ (Goto("queue", l) /\ local = loc["queue"]),
               "asked" \in local.flag => "asked" \in loc["queue"].flag
        PROVE  OrphanInv'
    <3>1. QueueTells(l, local)'
      BY <1>q, <1>m, <2>1, <2>4 DEF QueueTells, PlaceTells
    <3> QED
      BY <1>i, <1>m, <2>1, <2>4, <3>1, QueueWritesOrphan
  <2> QED
    BY <1>5, <1>r, <2>2, <2>3, <2>4, AskedStays DEF ClaimAgent, Update, server
<1> QED
  BY <1>1, <1>2, <1>3, <1>4, <1>5

\* The queue writes next and is done, or the write is refused and it is done.
LEMMA QueueUpdatesEnds ==
  ASSUME TypeInv, OrphanInv, UNCHANGED <<tasks, host>>, ~Idle("queue"),
         NEW next, KeepsCreate(rec, next), ~Lacking,
         next.state \in {"failed", "needs_continue", "ready", rec.state}
           \/ (next.state = "designing" /\ rec.agentCreated),
         \/ rec' = next /\ Accepts(rec, next)
         \/ rec' = rec,
         Finish("queue")
  PROVE  OrphanInv'
<1>q. RecordTells
  BY DEF OrphanInv
<1>1. CASE rec' = rec
  <2>1. RecordTells' /\ Leaves /\ ~Lacking'
    BY <1>q, <1>1, RecordTellsStays DEF Lacking
  <2> QED
    BY <2>1, QueueWritesEndsOrphan
<1>2. CASE rec' = next /\ Accepts(rec, next)
  <2>1. RecordTells' /\ Leaves
    BY <1>q, <1>2, WriteTells DEF KeepsCreate, Reconciled
  <2>2. ~Lacking'
    BY <1>2 DEF Lacking, KeepsCreate
  <2> QED
    BY <2>1, <2>2, QueueWritesEndsOrphan
<1> QED
  BY <1>1, <1>2

LEMMA ReconcileWritesOrphan ==
  ASSUME TypeInv, OrphanInv, MaxFaults = 0,
         SendEchoed \/ SendTimedOut \/ LearnTurn \/ WriteReady \/ WriteGap \/ WriteCorrection
         \/ TurnFailed
  PROVE  OrphanInv'
<1>q. QueueTells(pc["queue"], loc["queue"]) /\ RecordTells
  BY DEF OrphanInv
<1>i. ~Idle("queue") /\ UNCHANGED <<tasks, host>>
  BY DEF SendEchoed, SendTimedOut, LearnTurn, WriteReady, WriteGap, WriteCorrection, TurnFailed,
         At, Idle, Local
<1>r. rec \in Records /\ ~StoreFault
  BY NoFault DEF TypeInv, TypeOK, ServerOK
<1>l. ~Lacking
  BY <1>q DEF SendEchoed, SendTimedOut, LearnTurn, WriteReady, WriteGap, WriteCorrection,
              TurnFailed, At, QueueTells, Settling
<1>1. CASE SendEchoed
  <2>1. rec.agentCreated
    BY <1>1, <1>q DEF SendEchoed, At, QueueTells, PlaceTells
  <2> QED
    BY <1>1, <1>i, <1>r, <1>l, <2>1, QueueUpdatesEnds, WriteFields DEF SendEchoed, Update
<1>2. CASE SendTimedOut
  BY <1>2, <1>i, <1>r, <1>l, QueueUpdatesEnds, WriteFields DEF SendTimedOut, Update
<1>3. CASE LearnTurn
  <2> DEFINE next == [rec EXCEPT !.turnKnown =
                        [@ EXCEPT ![loc["queue"].att] = rec.ack[loc["queue"].att] # "none"]]
  <2>1. KeepsCreate(rec, next) /\ next.state = rec.state
    BY <1>r DEF KeepsCreate, Records
  <2>2. rec.agentCreated
    BY <1>3, <1>q DEF LearnTurn, At, QueueTells, PlaceTells, Deciding
  <2>3. \/ (rec' = next /\ Accepts(rec, next)) \/ rec' = rec
    BY <1>3, <1>r DEF LearnTurn, Update
  <2>4. \/ Finish("queue")
        \/ GotoWith("queue", "candidate", [loc["queue"] EXCEPT !.att = rec.attempt])
    BY <1>3 DEF LearnTurn, Update
  <2> HIDE DEF next
  <2>5. CASE Finish("queue")
    BY <1>i, <1>l, <2>1, <2>3, <2>5, QueueUpdatesEnds
  <2>6. CASE GotoWith("queue", "candidate", [loc["queue"] EXCEPT !.att = rec.attempt])
    <3>1. RecordTells' /\ Leaves /\ rec'.agentCreated /\ rec'.cancelRequested = rec.cancelRequested
      BY <1>q, <1>i, <2>1, <2>2, <2>3, RecordTellsStays, WriteTells DEF KeepsCreate, Reconciled
    <3>2. PICK local : local = [loc["queue"] EXCEPT !.att = rec.attempt]
      OBVIOUS
    <3>3. local.flag = loc["queue"].flag
      BY <3>2, QueueLocalTyped DEF TypeInv, Locals
    <3>4. QueueTells("candidate", local)'
      BY <1>q, <3>1, <3>3
         DEF QueueTells, PlaceTells, Lacking, BeforeCreate, Asking
    <3> QED
      BY <1>i, <2>6, <3>1, <3>2, <3>4, QueueWritesOrphan
  <2> QED
    BY <2>4, <2>5, <2>6
<1>4. CASE WriteReady
  BY <1>4, <1>i, <1>r, <1>l, QueueUpdatesEnds, WriteFields DEF WriteReady, Update
<1>5. CASE WriteGap
  <2>1. Finish("queue") /\ ((rec' = GapReported(rec, loc["queue"].att) /\ Accepts(rec, rec'))
                            \/ rec' = rec)
    BY <1>5, <1>r DEF WriteGap, Update, server
  <2> QED
    BY <1>i, <1>r, <1>l, <2>1, QueueUpdatesEnds, WriteFields
<1>6. CASE WriteCorrection
  <2>1. rec.agentCreated
    BY <1>6, <1>q DEF WriteCorrection, At, QueueTells, PlaceTells, Deciding
  <2> DEFINE n == loc["queue"].att + 1
  <2>2. CASE rec' = rec /\ Finish("queue")
    <3>1. RecordTells' /\ Leaves /\ ~Lacking'
      BY <1>q, <1>i, <1>l, <2>2, RecordTellsStays DEF Lacking
    <3> QED
      BY <1>i, <2>2, <3>1, QueueWritesEndsOrphan
  <2>3. CASE /\ rec' = Correcting(rec, n) /\ Accepts(rec, rec')
             /\ GotoWith("queue", "sending", [loc["queue"] EXCEPT !.att = n])
    <3>1. KeepsCreate(rec, rec') /\ rec'.state = "fixing"
      BY <1>r, <2>3, WriteFields
    <3>2. RecordTells' /\ Leaves
      BY <1>q, <1>i, <2>1, <2>3, <3>1, WriteTells DEF KeepsCreate, Reconciled
    <3>5. PICK local : local = [loc["queue"] EXCEPT !.att = n]
      OBVIOUS
    <3>3. local.flag = loc["queue"].flag
      BY <3>5, QueueLocalTyped DEF TypeInv, Locals
    <3>4. QueueTells("sending", local)'
      BY <1>q, <2>1, <3>1, <3>3
         DEF QueueTells, PlaceTells, Lacking, KeepsCreate, BeforeCreate, Asking
    <3>6. GotoWith("queue", "sending", local)
      BY <2>3, <3>5
    <3> QED
      BY <1>i, <3>2, <3>4, <3>6, QueueWritesOrphan
  <2> QED
    BY <1>6, <1>r, <2>2, <2>3 DEF WriteCorrection, Update
<1>7. CASE TurnFailed
  BY <1>7, <1>i, <1>r, <1>l, QueueUpdatesEnds, WriteFields DEF TurnFailed, Update
<1> QED
  BY <1>1, <1>2, <1>3, <1>4, <1>5, <1>6, <1>7

-----------------------------------------------------------------------------
(* Steps of the queue that callers take as well. *)

LEMMA QueueSharesOrphan ==
  ASSUME TypeInv, OrphanInv, MaxFaults = 0, SharedStep("queue")
  PROVE  OrphanInv'
<1>q. QueueTells(pc["queue"], loc["queue"]) /\ RecordTells
  BY DEF OrphanInv
<1>i. ~Idle("queue")
  BY DEF SharedStep, SendReturns, Sent, SendUnknown, Fail, Park, Resolve, CancelLookup, Adopt,
         Archive, ArchiveReturns, CancelWrite, At, Idle
<1>r. rec \in Records /\ ~StoreFault
  BY NoFault DEF TypeInv, TypeOK, ServerOK
<1>w. Local => UNCHANGED <<tasks, host>>
  BY DEF Local
<1>l. Lacking => At("queue", "fail") \/ At("queue", "cancelWrite")
  BY <1>q DEF SharedStep, SendReturns, Sent, SendUnknown, Fail, Park, Resolve, CancelLookup, Adopt,
              Archive, ArchiveReturns, CancelWrite, At, QueueTells, Settling
<1>p. ASSUME UNCHANGED rec, UNCHANGED <<tasks, host>>, IsTerminal(rec), Throw("queue")
      PROVE  OrphanInv'
  <2>1. RecordTells' /\ Leaves /\ ~Lacking'
    BY <1>q, <1>p, RecordTellsStays DEF Lacking, IsTerminal, Terminal
  <2>2. CASE Finish("queue")
    BY <1>i, <1>p, <2>1, <2>2, QueueWritesEndsOrphan
  <2>3. CASE GotoWith("queue", "createFailed",
                      [loc["queue"] EXCEPT !.flag = @ \ {"guarded", "unsure"}])
    <3>1. PICK local : local = [loc["queue"] EXCEPT !.flag = @ \ {"guarded", "unsure"}]
      OBVIOUS
    <3>2. "asked" \in local.flag => "asked" \in loc["queue"].flag
      BY <3>1, QueueLocalTyped DEF TypeInv, Locals
    <3>3. QueueTells("createFailed", local)'
      BY <1>q, <1>p, <2>1, <3>2
         DEF QueueTells, PlaceTells, Deciding, Repairing, Sending, BeforeCreate, Asking
    <3> QED
      BY <1>i, <1>p, <2>1, <2>3, <3>1, <3>3, QueueWritesOrphan
  <2> QED
    BY <1>p, <2>2, <2>3 DEF Throw
<1> USE DEF Untold, PlaceTells, BeforeCreate, Asking, Settling, Deciding, Sending, Repairing
<1>1. CASE SendReturns("queue")
  <2>1. rec.agentCreated /\ rec.creation /\ ~Lacking
    BY <1>1, <1>q DEF SendReturns, At, QueueTells, RecordTells, Lacking
  <2>2. rec' = rec /\ UNCHANGED tasks
    BY <1>1 DEF SendReturns, server
  <2>3. \/ UNCHANGED host
        \/ /\ AgentLives /\ agent' = "running" /\ landedLate' = landedLate /\ stalled' = stalled
    BY <1>1 DEF SendReturns, HostReceives, AgentLives
  <2>4. RecordTells' /\ Leaves /\ (AgentIsGone => AgentIsGone')
    BY <1>q, <2>1, <2>2, <2>3
       DEF RecordTells, Leaves, AgentIsGone, AgentLives, host
  <2>5. \E l \in {"sent", "sendUnknown"} : Goto("queue", l)
    BY <1>1 DEF SendReturns
  <2>6. OnlyMoves("queue") /\ pc'["queue"] \in {"sent", "sendUnknown"}
        /\ loc'["queue"] = loc["queue"]
    BY <2>5, QueueIsProc, Moves DEF TypeInv, TypeOK
  <2>7. QueueTells(pc["queue"], loc["queue"])'
    BY <1>q, <2>1, <2>2, <2>6 DEF QueueTells, Lacking
  <2> QED
    BY <1>i, <2>2, <2>4, <2>6, <2>7, QueueKeepsOrphan
<1>2. CASE Sent("queue")
  <2>1. rec.agentCreated /\ ~Lacking
    BY <1>2, <1>q DEF Sent, At, QueueTells, Lacking
  <2>2. CASE rec' = Designing(rec, loc["queue"].att) /\ Accepts(rec, rec') /\ Finish("queue")
    BY <1>2, <1>i, <1>r, <1>w, <2>1, <2>2, QueueUpdatesEnds, WriteFields DEF Sent
  <2>3. CASE UNCHANGED server /\ Goto("queue", "sendUnknown")
    BY <1>2, <1>i, <2>1, <2>3, QueueGoesPlain DEF Sent
  <2> QED
    BY <1>2, <1>r, <2>2, <2>3 DEF Sent, Update, server
<1>3. CASE SendUnknown("queue")
  BY <1>3, <1>i, <1>l, <1>r, <1>w, QueueUpdatesEnds, WriteFields DEF SendUnknown, Update, At
<1>4. CASE Fail("queue")
  <2>1. CASE rec' = Failed(rec) /\ Accepts(rec, rec') /\ Finish("queue")
    <3>1. KeepsCreate(rec, rec') /\ rec'.state = "failed"
      BY <1>r, <2>1, WriteFields
    <3>2. RecordTells' /\ Leaves /\ ~Lacking'
      BY <1>4, <1>q, <1>w, <2>1, <3>1, WriteTells DEF Fail, KeepsCreate, Reconciled, Lacking
    <3> QED
      BY <1>4, <1>i, <1>w, <2>1, <3>2, QueueWritesEndsOrphan DEF Fail
  <2>2. CASE UNCHANGED server /\ Finish("queue") /\ ~Accepts(rec, Failed(rec))
    <3>1. IsTerminal(rec)
      BY <1>q, <1>r, <2>2, RefusedIsTerminal, WriteFields DEF SameGap
    <3> QED
      BY <1>4, <1>i, <2>2, <3>1, QueueEndsPlain DEF Fail, Lacking, IsTerminal, Terminal
  <2> QED
    BY <1>4, <1>r, <2>1, <2>2 DEF Fail, Update, server
<1>5. CASE Park("queue")
  <2>1. CASE rec' = Parked(rec) /\ Accepts(rec, rec') /\ Finish("queue")
    BY <1>5, <1>i, <1>l, <1>r, <1>w, <2>1, QueueUpdatesEnds, WriteFields DEF Park, At
  <2>2. CASE UNCHANGED rec /\ Throw("queue") /\ ~Accepts(rec, Parked(rec))
    <3>1. IsTerminal(rec)
      BY <1>q, <1>r, <2>2, RefusedIsTerminal, WriteFields DEF SameGap
    <3> QED
      BY <1>5, <1>p, <1>w, <2>2, <3>1 DEF Park
  <2> QED
    BY <1>5, <1>r, <2>1, <2>2 DEF Park, Update
<1>6. CASE Resolve("queue")
  <2>1. ~Lacking
    BY <1>6, <1>l DEF Resolve, At
  <2>2. UNCHANGED server /\ Local
    BY <1>6 DEF Resolve
  <2>3. CASE Finish("queue")
    BY <1>i, <2>1, <2>2, <2>3, QueueEndsPlain
  <2>4. CASE rec.agentCreated /\ Goto("queue", "archive")
    BY <1>i, <2>1, <2>2, <2>4, QueueGoesPlain
  <2>5. CASE Goto("queue", "cancelLookup")
    BY <1>i, <2>1, <2>2, <2>5, QueueGoesPlain
  <2>6. CASE ~rec.creation /\ Goto("queue", "cancelWrite")
    <3>1. AgentIsGone
      BY <1>q, <2>6 DEF RecordTells, AgentIsGone, AgentLives
    <3> QED
      BY <1>i, <2>1, <2>2, <2>6, <3>1, QueueGoesPlain
  <2> QED
    BY <1>6, <2>3, <2>4, <2>5, <2>6 DEF Resolve
<1>7. CASE CancelLookup("queue")
  <2>1. ~Lacking
    BY <1>7, <1>l DEF CancelLookup, At
  <2>2. agent = "absent" => AgentIsGone
    BY DEF AgentIsGone, AgentLives
  <2>3. Untold("park") /\ (agent = "absent" => Untold("cancelWrite"))
        /\ (agent # "absent" => Untold("adopt"))
    BY <2>1, <2>2
  <2> QED
    BY <1>7, <1>i, <2>3, QueueGoesPlain DEF CancelLookup
<1>8. CASE Adopt("queue")
  <2>1. ~Lacking /\ agent # "absent"
    BY <1>8, <1>l, <1>q DEF Adopt, At, QueueTells
  <2>2. CASE rec' = [rec EXCEPT !.agentCreated = TRUE] /\ Accepts(rec, rec')
             /\ Goto("queue", "archive")
    <3>1. /\ rec'.creation = rec.creation /\ rec'.agentCreated /\ rec'.state = rec.state
          /\ rec'.cancelRequested = rec.cancelRequested
      BY <1>r, <2>2 DEF Records
    <3>2. ~rec'.gap \/ rec'.state = "failed"
      BY <2>2 DEF Accepts, RulesConsistent
    <3>3. RecordTells' /\ Leaves
      BY <1>8, <1>q, <1>w, <2>1, <3>1, <3>2
         DEF Adopt, RecordTells, Leaves, AgentIsGone, AgentLives, host
    <3>4. PICK local : local = loc["queue"]
      OBVIOUS
    <3>5. QueueTells("archive", local)'
      BY <1>q, <3>1, <3>4 DEF QueueTells, Lacking
    <3> QED
      BY <1>8, <1>i, <1>w, <2>2, <3>3, <3>4, <3>5, QueueWritesOrphan DEF Adopt
  <2>3. CASE UNCHANGED server /\ Finish("queue")
    BY <1>8, <1>i, <2>1, <2>3, QueueEndsPlain DEF Adopt
  <2> QED
    BY <1>8, <1>r, <2>2, <2>3 DEF Adopt, Update, server
<1>9. CASE Archive("queue")
  <2>1. rec.agentCreated /\ ~Lacking
    BY <1>9, <1>q DEF Archive, At, QueueTells, Lacking
  <2> QED
    BY <1>9, <1>i, <2>1, QueueEndsPlain, QueueGoesPlain DEF Archive
<1>10. CASE ArchiveReturns("queue")
  <2>1. rec.agentCreated /\ agent # "absent" /\ rec.creation /\ ~Lacking
    BY <1>10, <1>q DEF ArchiveReturns, At, QueueTells, RecordTells, Lacking
  <2>2. rec' = rec /\ UNCHANGED tasks
    BY <1>10 DEF ArchiveReturns, server
  <2>3. \/ /\ agent' = "archived" /\ landedLate' = landedLate /\ stalled' = stalled
           /\ Goto("queue", "cancelWrite")
        \/ UNCHANGED host /\ Goto("queue", "park")
    BY <1>10, <2>1 DEF ArchiveReturns
  <2>4. RecordTells' /\ Leaves /\ (AgentIsGone => AgentIsGone')
    BY <1>q, <2>1, <2>2, <2>3
       DEF RecordTells, Leaves, AgentIsGone, AgentLives, host
  <2>5. PICK l \in {"cancelWrite", "park"} :
          Goto("queue", l) /\ (l = "cancelWrite" => AgentIsGone')
    BY <2>3 DEF AgentIsGone, AgentLives
  <2>6. OnlyMoves("queue") /\ pc'["queue"] = l /\ loc'["queue"] = loc["queue"]
    BY <2>5, QueueIsProc, Moves DEF TypeInv, TypeOK
  <2>7. QueueTells(pc["queue"], loc["queue"])'
    BY <1>q, <2>1, <2>2, <2>5, <2>6 DEF QueueTells, Lacking
  <2> QED
    BY <1>i, <2>2, <2>4, <2>6, <2>7, QueueKeepsOrphan
<1>11. CASE CancelWrite("queue")
  <2>1. AgentIsGone
    BY <1>11, <1>q DEF CancelWrite, At, QueueTells
  <2>2. Canceled(rec).gap = rec.gap
    BY <1>r DEF Canceled, Records
  <2>3. CASE rec' = Canceled(rec) /\ Accepts(rec, rec') /\ Finish("queue")
    <3>1. /\ rec'.creation = rec.creation /\ rec'.agentCreated = rec.agentCreated
          /\ rec'.cancelRequested /\ rec'.state = "canceled"
      BY <1>r, <2>3 DEF Canceled, Records
    <3>2. RecordTells' /\ Leaves /\ ~Lacking'
      BY <1>11, <1>q, <1>w, <2>1, <2>3, <3>1, WriteTells DEF CancelWrite, Reconciled, Lacking
    <3> QED
      BY <1>11, <1>i, <1>w, <2>3, <3>2, QueueWritesEndsOrphan DEF CancelWrite
  <2>4. CASE UNCHANGED rec /\ Throw("queue") /\ ~Accepts(rec, Canceled(rec))
    <3>1. IsTerminal(rec)
      BY <1>q, <2>2, <2>4, RefusedIsTerminal
    <3> QED
      BY <1>11, <1>p, <1>w, <2>4, <3>1 DEF CancelWrite
  <2> QED
    BY <1>11, <1>r, <2>3, <2>4 DEF CancelWrite, Update
<1> QED
  BY <1>1, <1>2, <1>3, <1>4, <1>5, <1>6, <1>7, <1>8, <1>9, <1>10, <1>11 DEF SharedStep

-----------------------------------------------------------------------------
(* Steps of the callers. *)

LEMMA CallerReadsOrphan ==
  ASSUME TypeInv, OrphanInv, NEW p \in Callers, UNCHANGED <<rec, tasks, creating, host>>,
         OnlyMoves(p), CallerTells(pc'[p])
  PROVE  OrphanInv'
<1>1. RecordTells' /\ Leaves /\ (AgentIsGone => AgentIsGone')
  BY RecordTellsStays DEF OrphanInv
<1>2. pc'["queue"] = pc["queue"]
  BY CallerIsProc, QueueIsProc DEF OnlyMoves
<1>3. CallerTells(pc[p])'
  BY <1>2 DEF CallerTells, PlaceTells, AgentIsGone, AgentLives, host
<1> QED
  BY <1>1, <1>3, CallerKeepsOrphan DEF Lacking, IsTerminal, host

LEMMA CallerGotoOrphan ==
  ASSUME TypeInv, OrphanInv, NEW p \in Callers, UNCHANGED server, Local,
         NEW l, Goto(p, l), CallerTells(l)
  PROVE  OrphanInv'
<1>1. OnlyMoves(p) /\ pc'[p] = l
  BY CallerIsProc, Moves DEF TypeInv, TypeOK
<1> QED
  BY <1>1, CallerReadsOrphan DEF Goto, server, Local

IdleTells == CallerTells("idle")

LEMMA IdleIsTold == IdleTells
BY DEF IdleTells, CallerTells, PlaceTells, Deciding, Repairing, Sending, CancelLabels

LEMMA CallerFinishesHere ==
  ASSUME TypeInv, NEW p \in Callers, Finish(p)
  PROVE  OnlyMoves(p) /\ pc'[p] = "idle" /\ creating' = creating
<1>1. OnlyMoves(p) /\ pc'[p] = "idle"
  BY CallerIsProc, Moves DEF TypeInv, TypeOK
<1>2. creating' = creating
  BY CallerIsProc DEF Finish, TypeInv, TypeOK, ControlOK
<1> QED
  BY <1>1, <1>2

LEMMA CallerEndsOrphan ==
  ASSUME TypeInv, OrphanInv, NEW p \in Callers, UNCHANGED server, Local, Finish(p)
  PROVE  OrphanInv'
BY IdleIsTold, CallerFinishesHere, CallerReadsOrphan DEF IdleTells, server, Local

\* A caller writes the record.
LEMMA CallerWritesOrphan ==
  ASSUME TypeInv, OrphanInv, NEW p \in Callers, UNCHANGED <<tasks, host>>,
         OnlyMoves(p), creating' = creating, CallerTells(pc[p])',
         Accepts(rec, rec'),
         rec'.creation = rec.creation, rec'.agentCreated = rec.agentCreated,
         rec.cancelRequested => rec'.cancelRequested,
         rec'.state \in {"canceling", "needs_continue", "ready"}
           \/ (rec'.state \in {"fixing", "designing"} /\ rec.agentCreated)
           \/ (rec'.state = "canceled" /\ rec'.cancelRequested /\ AgentIsGone
               /\ pc["queue"] # "creating")
  PROVE  OrphanInv'
<1>1. RecordTells' /\ Leaves /\ (AgentIsGone => AgentIsGone')
  BY WriteTells DEF OrphanInv, Reconciled
<1>2. ~Lacking'
  BY DEF Lacking
<1>3. agent' = agent /\ stalled' = stalled
  BY DEF host
<1>4. IsTerminal(rec') => rec'.cancelRequested /\ pc["queue"] # "creating"
  BY DEF IsTerminal, Terminal
<1> QED
  BY <1>1, <1>2, <1>3, <1>4, CallerKeepsOrphan

LEMMA RequestOrphan ==
  ASSUME TypeInv, OrphanInv, NEW p \in Callers, Request(p)
  PROVE  OrphanInv'
<1>1. UNCHANGED <<rec, tasks, creating, host>>
  BY DEF Request, Cancel, Recheck, Repair, Call, server, mem
<1>2. OnlyMoves(p) /\ pc'[p] \in {"askCancel", "recheck", "repairLook"}
  BY CallerIsProc
     DEF Request, Cancel, Recheck, Repair, OnlyMoves, TypeInv, TypeOK, ControlOK
<1>3. pc'[p] = "repairLook" => rec.agentCreated
  BY CallerIsProc DEF Request, Cancel, Recheck, Repair, TypeInv, TypeOK, ControlOK
<1>4. CallerTells(pc'[p])
  BY <1>2, <1>3 DEF CallerTells, PlaceTells, Deciding, Repairing, Sending, CancelLabels
<1> QED
  BY <1>1, <1>2, <1>4, CallerReadsOrphan

LEMMA CallerStepOrphan ==
  ASSUME TypeInv, OrphanInv, MaxFaults = 0, NEW p \in Callers, CallerStep(p)
  PROVE  OrphanInv'
<1>q. CallerTells(pc[p]) /\ RecordTells /\ QueueTells(pc["queue"], loc["queue"])
  BY DEF OrphanInv
<1>r. rec \in Records /\ ~StoreFault
  BY NoFault DEF TypeInv, TypeOK, ServerOK
<1>g. ASSUME NEW l, Goto(p, l)
      PROVE  OnlyMoves(p) /\ pc'[p] = l /\ creating' = creating
  BY <1>g, CallerIsProc, Moves DEF TypeInv, TypeOK, Goto
<1>e. ASSUME UNCHANGED rec, UNCHANGED <<tasks, host>>, Finish(p)
      PROVE  OrphanInv'
  BY <1>e, IdleIsTold, CallerFinishesHere, CallerReadsOrphan DEF IdleTells
<1> USE DEF PlaceTells, Deciding, Sending, Repairing
<1>1. CASE AskCancel(p)
  <2>1. UNCHANGED <<tasks, host>>
    BY <1>1 DEF AskCancel, Local
  <2>2. CASE rec' = CancelAsked(rec) /\ Accepts(rec, rec') /\ Goto(p, "resolve")
    <3>1. /\ rec'.creation = rec.creation /\ rec'.agentCreated = rec.agentCreated
          /\ rec'.cancelRequested /\ rec'.state = "canceling"
      BY <1>r, <2>2 DEF CancelAsked, Records
    <3>2. OnlyMoves(p) /\ pc'[p] = "resolve" /\ creating' = creating
      BY <1>g, <2>2
    <3>3. CallerTells(pc[p])'
      BY <3>1, <3>2 DEF CallerTells
    <3> QED
      BY <2>1, <2>2, <3>1, <3>2, <3>3, CallerWritesOrphan
  <2>3. CASE UNCHANGED rec /\ Finish(p)
    BY <1>e, <2>1, <2>3
  <2> QED
    BY <1>1, <1>r, <2>2, <2>3 DEF AskCancel, Update
<1>2. CASE WriteRecheck(p)
  <2>1. UNCHANGED <<tasks, host>> /\ Finish(p)
    BY <1>2 DEF WriteRecheck, Update, Local
  <2>2. CASE rec' = [rec EXCEPT !.state = "ready"] /\ Accepts(rec, rec')
    <3>1. /\ rec'.creation = rec.creation /\ rec'.agentCreated = rec.agentCreated
          /\ rec'.cancelRequested = rec.cancelRequested /\ rec'.state = "ready"
      BY <1>r, <2>2 DEF Records
    <3>2. OnlyMoves(p) /\ pc'[p] = "idle" /\ creating' = creating
      BY <2>1, CallerFinishesHere
    <3>3. CallerTells(pc[p])'
      BY <3>2 DEF CallerTells, CancelLabels
    <3> QED
      BY <2>1, <2>2, <3>1, <3>2, <3>3, CallerWritesOrphan
  <2>3. CASE UNCHANGED rec
    BY <1>e, <2>1, <2>3
  <2> QED
    BY <1>2, <1>r, <2>2, <2>3 DEF WriteRecheck, Update, server
<1>3. CASE RepairLook(p)
  <2>1. CallerTells("repair")
    BY <1>3, <1>q DEF RepairLook, At, CallerTells, CancelLabels
  <2> QED
    BY <1>3, <2>1, CallerGotoOrphan, CallerEndsOrphan DEF RepairLook
<1>4. CASE WriteRepair(p)
  <2> DEFINE next == [Correcting(rec, loc[p].att) EXCEPT !.outcomeUnknown = FALSE]
  <2>1. UNCHANGED <<tasks, host>> /\ rec.agentCreated
    BY <1>4, <1>q DEF WriteRepair, At, CallerTells
  <2>2. KeepsCreate(rec, next) /\ next.state = "fixing"
    BY <1>r DEF KeepsCreate, Correcting, Pending, Records
  <2>3. \/ rec' = next /\ Accepts(rec, next) /\ Goto(p, "sending")
        \/ UNCHANGED rec /\ Finish(p)
    BY <1>4, <1>r DEF WriteRepair, Update, server
  <2> HIDE DEF next
  <2>4. CASE rec' = next /\ Accepts(rec, next) /\ Goto(p, "sending")
    <3>1. OnlyMoves(p) /\ pc'[p] = "sending" /\ creating' = creating
      BY <1>g, <2>4
    <3>2. CallerTells(pc[p])'
      BY <2>1, <2>2, <2>4, <3>1 DEF CallerTells, CancelLabels, KeepsCreate
    <3> QED
      BY <2>1, <2>2, <2>4, <3>1, <3>2, CallerWritesOrphan DEF KeepsCreate
  <2> QED
    BY <1>e, <2>1, <2>3, <2>4
<1> QED
  BY <1>1, <1>2, <1>3, <1>4 DEF CallerStep

LEMMA CallerSharesOrphan ==
  ASSUME TypeInv, OrphanInv, MaxFaults = 0, NEW p \in Callers, SharedStep(p)
  PROVE  OrphanInv'
<1>q. CallerTells(pc[p]) /\ RecordTells /\ QueueTells(pc["queue"], loc["queue"])
  BY DEF OrphanInv
<1>r. rec \in Records /\ ~StoreFault
  BY NoFault DEF TypeInv, TypeOK, ServerOK
<1>g. ASSUME NEW l, Goto(p, l)
      PROVE  OnlyMoves(p) /\ pc'[p] = l /\ creating' = creating
  BY <1>g, CallerIsProc, Moves DEF TypeInv, TypeOK, Goto
<1>e. ASSUME UNCHANGED rec, UNCHANGED <<tasks, host>>, Finish(p)
      PROVE  OrphanInv'
  BY <1>e, IdleIsTold, CallerFinishesHere, CallerReadsOrphan DEF IdleTells
\* Throw
<1>t. ASSUME UNCHANGED rec, UNCHANGED <<tasks, host>>, Throw(p)
      PROVE  OrphanInv'
  <2>1. CASE Finish(p)
    BY <1>e, <1>t, <2>1
  <2>2. CASE GotoWith(p, "createFailed", [loc[p] EXCEPT !.flag = @ \ {"guarded", "unsure"}])
    <3>1. OnlyMoves(p) /\ pc'[p] = "createFailed" /\ creating' = creating
      BY <2>2, CallerIsProc, Moves DEF TypeInv, TypeOK, GotoWith
    <3>2. CallerTells("createFailed")
      BY DEF CallerTells, PlaceTells, Deciding, Repairing, Sending, CancelLabels
    <3> QED
      BY <1>t, <3>1, <3>2, CallerReadsOrphan
  <2> QED
    BY <1>t, <2>1, <2>2 DEF Throw
\* A write after which the caller is done.
<1>w. ASSUME NEW next, rec' = next, Accepts(rec, next), KeepsCreate(rec, next),
             next.state \in {"needs_continue"} \/ (next.state = "designing" /\ rec.agentCreated),
             UNCHANGED <<tasks, host>>, Finish(p)
      PROVE  OrphanInv'
  <2>1. OnlyMoves(p) /\ pc'[p] = "idle" /\ creating' = creating
    BY <1>w, CallerFinishesHere
  <2>2. CallerTells(pc[p])'
    BY <2>1 DEF CallerTells, PlaceTells, Deciding, Repairing, Sending, CancelLabels
  <2> QED
    BY <1>w, <2>1, <2>2, CallerWritesOrphan DEF KeepsCreate
<1> USE DEF PlaceTells, Deciding, Sending, Repairing
<1>1. CASE SendReturns(p)
  <2>1. rec.agentCreated
    BY <1>1, <1>q DEF SendReturns, At, CallerTells
  <2>2. rec' = rec /\ UNCHANGED tasks
    BY <1>1 DEF SendReturns, server
  <2>3. \/ UNCHANGED host
        \/ /\ AgentLives /\ agent' = "running" /\ landedLate' = landedLate /\ stalled' = stalled
    BY <1>1 DEF SendReturns, HostReceives, AgentLives
  <2>4. RecordTells' /\ Leaves /\ (AgentIsGone => AgentIsGone')
        /\ (agent = "absent" => agent' = "absent" /\ stalled' = stalled)
    BY <1>q, <2>1, <2>2, <2>3
       DEF RecordTells, Leaves, AgentIsGone, AgentLives, host
  <2>5. OnlyMoves(p) /\ pc'[p] \in {"sent", "sendUnknown"} /\ creating' = creating
    BY <1>1, <1>g DEF SendReturns
  <2>6. CallerTells(pc[p])'
    BY <2>1, <2>2, <2>5 DEF CallerTells, CancelLabels
  <2> QED
    BY <2>2, <2>4, <2>5, <2>6, CallerKeepsOrphan DEF Lacking, IsTerminal
<1>2. CASE Sent(p)
  <2>1. rec.agentCreated /\ UNCHANGED <<tasks, host>> /\ Local
    BY <1>2, <1>q DEF Sent, At, CallerTells, Local
  <2>2. CASE rec' = Designing(rec, loc[p].att) /\ Accepts(rec, rec') /\ Finish(p)
    BY <1>r, <1>w, <2>1, <2>2, WriteFields
  <2>3. CASE UNCHANGED server /\ Goto(p, "sendUnknown")
    <3>1. CallerTells("sendUnknown")
      BY <2>1 DEF CallerTells, CancelLabels
    <3> QED
      BY <2>1, <2>3, <3>1, CallerGotoOrphan
  <2> QED
    BY <1>2, <1>r, <2>2, <2>3 DEF Sent, Update, server
<1>3. CASE SendUnknown(p)
  <2>1. UNCHANGED <<tasks, host>>
    BY <1>3 DEF SendUnknown, Local
  <2>2. CASE rec' = SendUncertain(rec, loc[p].att) /\ Accepts(rec, rec') /\ Finish(p)
    BY <1>r, <1>w, <2>1, <2>2, WriteFields
  <2> QED
    BY <1>3, <1>e, <1>r, <2>1, <2>2 DEF SendUnknown, Update
<1>4. ~Fail(p)
  BY <1>q DEF Fail, At, CallerTells
<1>5. CASE Park(p)
  <2>1. UNCHANGED <<tasks, host>>
    BY <1>5 DEF Park, Local
  <2>2. CASE rec' = Parked(rec) /\ Accepts(rec, rec') /\ Finish(p)
    BY <1>r, <1>w, <2>1, <2>2, WriteFields
  <2> QED
    BY <1>5, <1>r, <1>t, <2>1, <2>2 DEF Park, Update
<1>6. CASE Resolve(p)
  <2>1. UNCHANGED server /\ Local
    BY <1>6 DEF Resolve
  <2>2. rec.cancelRequested
    BY <1>6, <1>q DEF Resolve, At, CallerTells, CancelLabels
  <2>3. CASE Finish(p)
    BY <2>1, <2>3, CallerEndsOrphan
  <2>4. CASE rec.agentCreated /\ Goto(p, "archive")
    <3>1. pc["queue"] # "creating"
      BY <1>q, <2>4 DEF QueueTells, Asking
    <3>2. CallerTells("archive")
      BY <2>2, <2>4, <3>1 DEF CallerTells
    <3> QED
      BY <2>1, <2>4, <3>2, CallerGotoOrphan
  <2>5. CASE ~creating /\ Goto(p, IF rec.creation THEN "cancelLookup" ELSE "cancelWrite")
    <3>1. pc["queue"] # "creating"
      BY <1>q, <2>5 DEF QueueTells
    <3>2. ~rec.creation => AgentIsGone
      BY <1>q DEF RecordTells, AgentIsGone, AgentLives
    <3>3. CallerTells("cancelLookup") /\ (~rec.creation => CallerTells("cancelWrite"))
      BY <2>2, <3>1, <3>2 DEF CallerTells
    <3> QED
      BY <2>1, <2>5, <3>3, CallerGotoOrphan
  <2> QED
    BY <1>6, <2>3, <2>4, <2>5 DEF Resolve
<1>7. CASE CancelLookup(p)
  <2>1. UNCHANGED server /\ Local
    BY <1>7 DEF CancelLookup
  <2>2. rec.cancelRequested /\ pc["queue"] # "creating"
    BY <1>7, <1>q DEF CancelLookup, At, CallerTells, CancelLabels
  <2>3. agent = "absent" => AgentIsGone
    BY DEF AgentIsGone, AgentLives
  <2>4. CallerTells("park") /\ (agent = "absent" => CallerTells("cancelWrite"))
        /\ (agent # "absent" => CallerTells("adopt"))
    BY <2>2, <2>3 DEF CallerTells
  <2> QED
    BY <1>7, <2>1, <2>4, CallerGotoOrphan DEF CancelLookup
<1>8. CASE Adopt(p)
  <2>1. /\ agent # "absent" /\ UNCHANGED <<tasks, host>>
        /\ rec.cancelRequested /\ pc["queue"] # "creating"
    BY <1>8, <1>q DEF Adopt, At, CallerTells, CancelLabels, Local
  <2>2. CASE rec' = [rec EXCEPT !.agentCreated = TRUE] /\ Accepts(rec, rec') /\ Goto(p, "archive")
    <3>1. /\ rec'.creation = rec.creation /\ rec'.agentCreated /\ rec'.state = rec.state
          /\ rec'.cancelRequested = rec.cancelRequested
      BY <1>r, <2>2 DEF Records
    <3>2. ~rec'.gap \/ rec'.state = "failed"
      BY <2>2 DEF Accepts, RulesConsistent
    <3>3. agent' = agent /\ stalled' = stalled /\ landedLate' = landedLate
      BY <2>1 DEF host
    <3>4. RecordTells' /\ Leaves /\ (AgentIsGone => AgentIsGone')
      BY <1>q, <2>1, <3>1, <3>2, <3>3
         DEF RecordTells, Leaves, AgentIsGone, AgentLives
    <3>5. OnlyMoves(p) /\ pc'[p] = "archive" /\ creating' = creating
      BY <1>g, <2>2
    <3>6. pc'["queue"] = pc["queue"]
      BY <3>5, CallerIsProc, QueueIsProc DEF OnlyMoves
    <3>7. CallerTells(pc[p])'
      BY <2>1, <3>1, <3>5, <3>6 DEF CallerTells
    <3>8. pc["queue"] \notin Asking /\ ~Lacking'
      BY <1>q, <2>1, <3>1 DEF QueueTells, Lacking
    <3> QED
      BY <2>1, <3>1, <3>3, <3>4, <3>5, <3>7, <3>8, CallerKeepsOrphan
  <2> QED
    BY <1>8, <1>e, <1>r, <2>1, <2>2 DEF Adopt, Update
<1>9. CASE Archive(p)
  <2>1. rec.agentCreated /\ rec.cancelRequested /\ pc["queue"] # "creating"
    BY <1>9, <1>q DEF Archive, At, CallerTells, CancelLabels
  <2>2. CallerTells("archiving")
    BY <2>1 DEF CallerTells
  <2> QED
    BY <1>9, <2>1, <2>2, CallerEndsOrphan, CallerGotoOrphan DEF Archive
<1>10. CASE ArchiveReturns(p)
  <2>1. /\ rec.agentCreated /\ agent # "absent" /\ rec.creation
        /\ rec.cancelRequested /\ pc["queue"] # "creating"
    BY <1>10, <1>q DEF ArchiveReturns, At, CallerTells, CancelLabels, RecordTells
  <2>2. rec' = rec /\ UNCHANGED tasks
    BY <1>10 DEF ArchiveReturns, server
  <2>3. \/ /\ agent' = "archived" /\ landedLate' = landedLate /\ stalled' = stalled
           /\ Goto(p, "cancelWrite")
        \/ UNCHANGED host /\ Goto(p, "park")
    BY <1>10, <2>1 DEF ArchiveReturns
  <2>4. RecordTells' /\ Leaves /\ (AgentIsGone => AgentIsGone')
    BY <1>q, <2>1, <2>2, <2>3
       DEF RecordTells, Leaves, AgentIsGone, AgentLives, host
  <2>5. PICK l \in {"cancelWrite", "park"} :
          Goto(p, l) /\ (l = "cancelWrite" => AgentIsGone')
    BY <2>3 DEF AgentIsGone, AgentLives
  <2>6. OnlyMoves(p) /\ pc'[p] = l /\ creating' = creating
    BY <1>g, <2>5
  <2>7. pc'["queue"] = pc["queue"]
    BY <2>6, CallerIsProc, QueueIsProc DEF OnlyMoves
  <2>8. CallerTells(pc[p])'
    BY <2>1, <2>2, <2>5, <2>6, <2>7 DEF CallerTells
  <2> QED
    BY <2>1, <2>2, <2>4, <2>6, <2>8, CallerKeepsOrphan DEF Lacking, IsTerminal
<1>11. CASE CancelWrite(p)
  <2>1. AgentIsGone /\ pc["queue"] # "creating" /\ UNCHANGED <<tasks, host>>
    BY <1>11, <1>q DEF CancelWrite, At, CallerTells, CancelLabels, Local
  <2>2. CASE rec' = Canceled(rec) /\ Accepts(rec, rec') /\ Finish(p)
    <3>1. /\ rec'.creation = rec.creation /\ rec'.agentCreated = rec.agentCreated
          /\ rec'.cancelRequested /\ rec'.state = "canceled"
      BY <1>r, <2>2 DEF Canceled, Records
    <3>2. OnlyMoves(p) /\ pc'[p] = "idle" /\ creating' = creating
      BY <2>2, CallerFinishesHere
    <3>3. CallerTells(pc[p])'
      BY <3>2 DEF CallerTells, CancelLabels
    <3> QED
      BY <2>1, <2>2, <3>1, <3>2, <3>3, CallerWritesOrphan
  <2> QED
    BY <1>11, <1>r, <1>t, <2>1, <2>2 DEF CancelWrite, Update
<1> QED
  BY <1>1, <1>2, <1>3, <1>4, <1>5, <1>6, <1>7, <1>8, <1>9, <1>10, <1>11 DEF SharedStep

-----------------------------------------------------------------------------
(* The queue takes a task, and the steps of the world. *)

LEMMA RunTaskOrphan ==
  ASSUME TypeInv, OrphanInv, RunTask
  PROVE  OrphanInv'
<1>1. /\ Head(tasks) \in Tasks /\ tasks # << >> /\ tasks \in Seq(Tasks)
      /\ pc["queue"] = "idle" /\ rec' = rec /\ UNCHANGED host
  BY DEF RunTask, Idle, At, TypeInv, TypeOK, RestOK, server
<1>2. PICK l, local : /\ l = Head(tasks).kind
                      /\ local = [NoLocals EXCEPT !.task = Head(tasks).kind, !.ev = Head(tasks).ev]
  OBVIOUS
<1>3. OnlyMoves("queue") /\ pc'["queue"] = l /\ loc'["queue"] = local
  BY <1>2, QueueIsProc DEF RunTask, OnlyMoves, TypeInv, TypeOK, ControlOK
<1>4. l \in {"start", "reconcile", "turn"} /\ "asked" \notin local.flag
  BY <1>1, <1>2 DEF Tasks, NoLocals
<1>5. 1 \in DOMAIN tasks /\ tasks[1] = Head(tasks)
  BY <1>1
<1>6. l = "start" => ~rec.creation
  BY <1>2, <1>5 DEF OrphanInv, StartsFirst
<1>7. ~Lacking
  BY <1>1 DEF OrphanInv, QueueTells, Settling
<1>8. RecordTells' /\ Leaves /\ (AgentIsGone => AgentIsGone')
  BY <1>1, RecordTellsStays DEF OrphanInv
<1>9. QueueTells(pc["queue"], loc["queue"])'
  BY <1>1, <1>3, <1>4, <1>6, <1>7
     DEF QueueTells, PlaceTells, Lacking, Deciding, Repairing, Sending, BeforeCreate, Asking
<1>10. ASSUME NEW p \in Callers
       PROVE  CallerTells(pc[p])'
  <2>1. CallerTells(pc[p]) /\ pc'[p] = pc[p]
    BY <1>3, CallerIsProc DEF OrphanInv, OnlyMoves
  <2> QED
    BY <1>1, <1>3, <1>4, <2>1 DEF CallerTells, PlaceTells, AgentIsGone, AgentLives, host
<1> QED
  BY <1>8, <1>9, <1>10, RunTaskStartsFirst DEF OrphanInv

LEMMA WorldOrphan ==
  ASSUME TypeInv, OrphanInv, Poll \/ HookArrives \/ TurnEnds \/ CreateLands \/ SendAges
  PROVE  OrphanInv'
<1>1. rec' = rec /\ pc' = pc /\ loc' = loc /\ creating' = creating
  BY DEF Poll, HookArrives, TurnEnds, CreateLands, SendAges, server, mem
<1>2. /\ AgentIsGone => AgentIsGone'
      /\ agent # "absent" => agent' # "absent"
      /\ ~stalled => agent' = agent \/ (agent # "absent" /\ agent' # "absent")
      /\ ~stalled => ~stalled'
  <2>1. CASE CreateLands
    BY <2>1 DEF CreateLands, AgentIsGone, AgentLives
  <2>2. CASE TurnEnds
    BY <2>2 DEF TurnEnds, AgentIsGone, AgentLives
  <2>3. CASE Poll \/ HookArrives \/ SendAges
    BY <2>3 DEF Poll, HookArrives, SendAges, AgentIsGone, AgentLives, host
  <2> QED
    BY <2>1, <2>2, <2>3
<1>3. RecordTells'
  BY <1>1, <1>2 DEF OrphanInv, RecordTells
<1>4. QueueTells(pc["queue"], loc["queue"])'
  <2>1. QueueTells(pc["queue"], loc["queue"])
    BY DEF OrphanInv
  <2> QED
    BY <1>1, <1>2, <2>1 DEF QueueTells, PlaceTells, Lacking, IsTerminal
<1>5. ASSUME NEW p \in Callers
      PROVE  CallerTells(pc[p])'
  <2>1. CallerTells(pc[p])
    BY DEF OrphanInv
  <2> QED
    BY <1>1, <1>2, <2>1 DEF CallerTells, PlaceTells
<1> QED
  BY <1>3, <1>4, <1>5, WorldStartsFirst DEF OrphanInv

LEMMA OrphanInit == Init => OrphanInv
<1> SUFFICES ASSUME Init
             PROVE  OrphanInv
  OBVIOUS
<1>1. RecordTells
  BY DEF Init, NewRecord, RecordTells, Reconciled
<1>2. StartsFirst
  <2>1. ~rec.creation /\ Idle("queue")
    BY QueueIsProc DEF Init, NewRecord, Idle, At
  <2>2. \A i \in DOMAIN tasks : i = 1
    BY DEF Init
  <2> QED
    BY <2>1, <2>2 DEF StartsFirst
<1>3. QueueTells(pc["queue"], loc["queue"])
  <2>1. pc["queue"] = "idle" /\ loc["queue"] = NoLocals /\ rec.state = "starting"
    BY QueueIsProc DEF Init, NewRecord
  <2> QED
    BY <2>1 DEF QueueTells, PlaceTells, Lacking, Deciding, Repairing, Sending, BeforeCreate, Asking,
                NoLocals
<1>4. \A p \in Callers : pc[p] = "idle"
  BY CallerIsProc DEF Init
<1> QED
  BY <1>1, <1>2, <1>3, <1>4, IdleIsTold DEF OrphanInv, IdleTells

LEMMA OrphanNext ==
  ASSUME TypeInv, OrphanInv, MaxCrashes = 0, MaxFaults = 0, [Next]_vars
  PROVE  OrphanInv'
<1>1. CASE QueueStep
  <2>1. StartStep => OrphanInv'
    BY StartReadsOrphan, StartWritesOrphan DEF StartStep
  <2>2. ReconcileStep => OrphanInv'
    BY ReconcileReadsOrphan, ReconcileWritesOrphan DEF ReconcileStep
  <2> QED
    BY <1>1, <2>1, <2>2, RunTaskOrphan, QueueSharesOrphan DEF QueueStep
<1>2. ASSUME NEW p \in Callers, Request(p) \/ CallerStep(p) \/ SharedStep(p)
      PROVE  OrphanInv'
  BY <1>2, RequestOrphan, CallerStepOrphan, CallerSharesOrphan
<1>3. CASE Poll \/ HookArrives \/ TurnEnds \/ CreateLands \/ SendAges
  BY <1>3, WorldOrphan
<1>4. ~Restart
  BY DEF Restart, TypeInv, TypeOK, RestOK
<1>5. CASE UNCHANGED vars
  BY <1>5 DEF vars, server, mem, host, spent, OrphanInv, RecordTells, StartsFirst, Idle, At,
              QueueTells, CallerTells, PlaceTells, Lacking, AgentIsGone, AgentLives, IsTerminal
<1> QED
  BY <1>1, <1>2, <1>3, <1>4, <1>5 DEF Next

\* While the plugin runs without a restart and its store answers, no agent is left
\* alive to a canceled job, unless a create request arrives that had been given up
\* for lost: with any number of cancels, rechecks and repairs in flight, and whatever
\* lookups and archives of the host fail (resolveCancellation, archiveForCancel,
\* runStart).
THEOREM NoOrphanAgentHolds ==
  ASSUME MaxCrashes = 0, MaxFaults = 0
  PROVE  Spec => []NoOrphanAgent
<1>1. Init => TypeInv /\ OrphanInv
  BY TypeInit, OrphanInit
<1>2. TypeInv /\ OrphanInv /\ [Next]_vars => (TypeInv /\ OrphanInv)'
  BY OrphanNext, TypeNext, RoundLeftNext DEF TypeInv
<1>3. OrphanInv => NoOrphanAgent
  BY DEF OrphanInv, RecordTells, AgentIsGone, NoOrphanAgent
<1> QED
  BY <1>1, <1>2, <1>3, PTL DEF Spec
-----------------------------------------------------------------------------
(* Nothing is sent once the job has ended.  A prompt is about to be sent    *)
(* only while the job is fixing, so somebody else would have to end it: a   *)
(* cancel, which has archived the agent, or the queue, which fails a job    *)
(* only for a round that was received, while the prompt about to be sent    *)
(* was not.                                                                 *)

FirstWay == {"afterIntent", "creating", "mark", "createFailed", "createLookup"}

SendingTells ==
  \A p \in Procs : pc[p] = "sending" /\ IsTerminal(rec) => AgentIsGone

\* While the queue is about to fail the job no repair begins.
FailTells ==
  pc["queue"] = "fail" =>
    /\ \A p \in Callers : pc[p] \notin Beginning \cup {"sending"}
    /\ rec.state = "needs_continue" => calls.repair = MaxRepairs

\* A job is parked under the create in flight only by a cancel.
FirstTells ==
  pc["queue"] \in FirstWay /\ rec.state = "needs_continue" => rec.cancelRequested

\* A turn is that of an attempt whose prompt was received.
Real(n) == n \in Attempts /\ delivered[n] > 0
TasksAreReal == \A i \in DOMAIN tasks : tasks[i].kind = "turn" => Real(tasks[i].ev.n)
ReadIsReal == pc["queue"] \in {"turn", "turnFailed"} => Real(loc["queue"].ev.n)
TurnsAreReal ==
  /\ agent = "running" => Real(turn)
  /\ \A e \in hooks : Real(e.n)
  /\ TasksAreReal
  /\ ReadIsReal

EndInv == SendingTells /\ FailTells /\ FirstTells /\ TurnsAreReal

\* What the invariant is proved on top of, and the bounds it needs.
EndBase == TypeInv /\ AckInv /\ PromptInv /\ OrphanInv
EndBounds == NotBoth /\ MaxRepairs <= 1 /\ MaxCrashes = 0 /\ MaxFaults = 0

-----------------------------------------------------------------------------
(* Which action it was. *)

\* The agent and what it received only change in these.
LEMMA WhoTouchesHost ==
  ASSUME TypeInv, MaxCrashes = 0, Next
  PROVE  \/ UNCHANGED host
         \/ CreateReturns \/ TurnEnds \/ CreateLands \/ HookArrives
         \/ \E p \in Procs : SendReturns(p) \/ ArchiveReturns(p)
<1>1. \A p : SharedStep(p) => UNCHANGED host \/ SendReturns(p) \/ ArchiveReturns(p)
  BY DEF SharedStep, Sent, SendUnknown, Fail, Park, Resolve, CancelLookup, Adopt,
         Archive, CancelWrite, Local
<1>2. StartStep => UNCHANGED host \/ CreateReturns
  BY DEF StartStep, StartRun, BeforeIntent, WriteIntent, AfterIntent, MarkCreated,
         CreateFailed, CreateLookup, CreateUnsure, ClaimAgent, Local
<1>3. ReconcileStep => UNCHANGED host
  BY DEF ReconcileStep, Reconcile, ReplayLookup, ResumeLookup, RecoverSend, SendEchoed,
         SendTimedOut, Observe, Look, LearnTurn, Candidate, WriteReady, WriteGap,
         WriteCorrection, TurnEnded, TurnFailed, Local
<1>4. RunTask \/ Poll \/ SendAges => UNCHANGED host
  BY DEF RunTask, Poll, SendAges
<1>5. \A p : Request(p) \/ CallerStep(p) => UNCHANGED host
  BY DEF Request, Cancel, Recheck, Repair, Call, CallerStep, AskCancel, WriteRecheck,
         RepairLook, WriteRepair, Local
<1>6. ~Restart
  BY DEF Restart, TypeInv, TypeOK, RestOK
<1> QED
  BY <1>1, <1>2, <1>3, <1>4, <1>5, <1>6, QueueIsProc, CallerIsProc DEF Next, QueueStep

\* A job is ended by a cancel or by one of three steps of the queue.
LEMMA WhoEnds ==
  ASSUME TypeInv, OrphanInv, MaxCrashes = 0, Next, IsTerminal(rec'), ~IsTerminal(rec)
  PROVE  rec'.state = "canceled" \/ Fail("queue") \/ TurnFailed \/ WriteGap
<1>r. rec \in Records /\ rec'.state \in Terminal /\ rec.state \notin Terminal
  BY DEF TypeInv, TypeOK, ServerOK, IsTerminal
<1>w. \A next : rec' = next => next.state \in Terminal /\ next.state # rec.state
  BY <1>r
<1>f. /\ \A n : Correcting(rec, n).state = "fixing" /\ Designing(rec, n).state = "designing"
                /\ Echoed(rec, n).state \in {rec.state, "designing"}
                /\ SendUncertain(rec, n).state = "needs_continue" /\ Ready(rec, n).state = "ready"
      /\ Parked(rec).state = "needs_continue" /\ Uncertain(rec).state = "needs_continue"
  BY <1>r, WriteFields
<1>g. /\ Intended(rec).state = "designing" /\ CancelAsked(rec).state = "canceling"
      /\ AgentMarked(rec).state \in {"canceling", "designing"}
      /\ Canceled(rec).state = "canceled"
      /\ [rec EXCEPT !.agentCreated = TRUE].state = rec.state
      /\ [rec EXCEPT !.state = "ready"].state = "ready"
      /\ \A n : [Correcting(rec, n) EXCEPT !.outcomeUnknown = FALSE].state = "fixing"
      /\ \A f : [rec EXCEPT !.turnKnown = f].state = rec.state
  BY <1>r DEF Intended, CancelAsked, AgentMarked, Canceled, Correcting, Pending, Records
<1>n. UNCHANGED rec => FALSE
  BY DEF IsTerminal
<1>s. UNCHANGED server => FALSE
  BY <1>n DEF server
<1> USE DEF Terminal
<1>1. ASSUME NEW p \in Procs, SharedStep(p)
      PROVE  rec'.state = "canceled" \/ Fail("queue")
  <2>1. Fail(p) => p = "queue"
    BY DEF Fail, At, OrphanInv, CallerTells, Procs
  <2>2. rec' \in {Designing(rec, loc[p].att), SendUncertain(rec, loc[p].att), Parked(rec),
                  [rec EXCEPT !.agentCreated = TRUE], Canceled(rec)} \/ Fail(p)
    BY <1>1, <1>n, <1>s
       DEF SharedStep, SendReturns, Sent, SendUnknown, Park, Resolve, CancelLookup, Adopt,
           Archive, ArchiveReturns, CancelWrite, Update, server
  <2> QED
    BY <1>r, <1>f, <1>g, <2>1, <2>2
<1>2. ~StartStep
  <2>1. StartStep => rec' \in {Intended(rec), AgentMarked(rec), Uncertain(rec)}
    BY <1>n, <1>s
       DEF StartStep, StartRun, BeforeIntent, WriteIntent, AfterIntent, CreateReturns,
           MarkCreated, CreateFailed, CreateLookup, CreateUnsure, ClaimAgent, Update, server
  <2> QED
    BY <1>r, <1>f, <1>g, <2>1
<1>3. ReconcileStep => TurnFailed \/ WriteGap
  <2>1. ReconcileStep =>
          \/ TurnFailed \/ WriteGap
          \/ \E n, f : rec' \in {Echoed(rec, n), Uncertain(rec), Ready(rec, n), Correcting(rec, n),
                                 [rec EXCEPT !.turnKnown = f]}
    BY <1>n, <1>s
       DEF ReconcileStep, Reconcile, ReplayLookup, ResumeLookup, RecoverSend, SendEchoed,
           SendTimedOut, Observe, Look, LearnTurn, Candidate, WriteReady, WriteCorrection,
           TurnEnded, Update
  <2>2. ASSUME NEW n, NEW f
        PROVE  rec' \notin {Echoed(rec, n), Uncertain(rec), Ready(rec, n), Correcting(rec, n),
                            [rec EXCEPT !.turnKnown = f]}
    <3>1. /\ Echoed(rec, n).state \notin Terminal /\ Uncertain(rec).state \notin Terminal
          /\ Ready(rec, n).state \notin Terminal /\ Correcting(rec, n).state \notin Terminal
      BY <1>r, <1>f
    <3>2. [rec EXCEPT !.turnKnown = f].state \notin Terminal
      BY <1>r DEF Records
    <3> QED
      BY <1>r, <3>1, <3>2
  <2> QED
    BY <2>1, <2>2
<1>4. \A p \in Callers : ~CallerStep(p)
  <2>1. ASSUME NEW p \in Callers, CallerStep(p)
        PROVE  rec' \in {CancelAsked(rec), [rec EXCEPT !.state = "ready"],
                         [Correcting(rec, loc[p].att) EXCEPT !.outcomeUnknown = FALSE]}
    BY <1>n, <1>s, <2>1 DEF CallerStep, AskCancel, WriteRecheck, RepairLook, WriteRepair, Update,
                            server
  <2> QED
    BY <1>r, <1>g, <2>1
<1>5. \A p : ~Request(p)
  BY <1>s DEF Request, Cancel, Recheck, Repair, Call
<1>6. ~RunTask /\ ~Poll /\ ~HookArrives /\ ~TurnEnds /\ ~CreateLands /\ ~SendAges /\ ~Restart
  BY <1>s DEF RunTask, Poll, HookArrives, TurnEnds, CreateLands, SendAges, Restart
<1> QED
  BY <1>1, <1>2, <1>3, <1>4, <1>5, <1>6, QueueIsProc, CallerIsProc DEF Next, QueueStep

\* The queue's steps that lead to a send, to the failing of the job, to the
\* reading of an event or along the create.
LEMMA WhereQueueGoes ==
  ASSUME TypeInv, QueueStep
  PROVE  /\ pc'["queue"] = "sending" => /\ WriteCorrection
                                        /\ rec' = Correcting(rec, loc["queue"].att + 1)
         /\ pc'["queue"] = "fail" => StartRun \/ CreateLookup \/ Look \/ Candidate
         /\ pc'["queue"] = "turn" => RunTask
         /\ pc'["queue"] = "turnFailed" => TurnEnded
         /\ pc'["queue"] \in FirstWay =>
              \/ ReplayLookup \/ rec' = Intended(rec)
              \/ pc["queue"] \in FirstWay /\ rec' = rec
              \/ Has("queue", "guarded") /\ rec' = rec
<1> USE DEF TypeInv, TypeOK, ControlOK, Goto, GotoWith, Finish, Throw, Forget, FirstWay, server
<1>1. CASE RunTask
  <2>1. Head(tasks) \in Tasks
    BY <1>1 DEF RunTask, RestOK
  <2> QED
    BY <1>1, <2>1, QueueIsProc DEF RunTask, Tasks
<1>2. CASE StartStep
  BY <1>2, QueueIsProc
     DEF StartStep, StartRun, BeforeIntent, WriteIntent, AfterIntent, CreateReturns,
         MarkCreated, CreateFailed, CreateLookup, CreateUnsure, ClaimAgent, Update, At
<1>3. CASE ReconcileStep
  <2>1. CASE Reconcile \/ ReplayLookup \/ ResumeLookup
    BY <2>1, QueueIsProc
       DEF Reconcile, ReconcileLive, ResumeStarting, ReplayLookup, ResumeLookup
  <2>2. CASE RecoverSend \/ Observe \/ Look \/ Candidate
    BY <2>2, QueueIsProc DEF RecoverSend, Observe, Look, Candidate, HandleFailure
  <2>3. CASE WriteCorrection
    BY <2>3, QueueIsProc DEF WriteCorrection, Update
  <2>4. CASE TurnEnded
    BY <2>4, QueueIsProc DEF TurnEnded, EndTurn
  <2>5. CASE SendEchoed \/ SendTimedOut \/ LearnTurn \/ WriteReady \/ WriteGap \/ TurnFailed
    BY <2>5, QueueIsProc
       DEF SendEchoed, SendTimedOut, LearnTurn, WriteReady, WriteGap, TurnFailed, Update
  <2> QED
    BY <1>3, <2>1, <2>2, <2>3, <2>4, <2>5 DEF ReconcileStep
<1>4. CASE SharedStep("queue")
  BY <1>4, QueueIsProc
     DEF SharedStep, SendReturns, Sent, SendUnknown, Fail, Park, Resolve, CancelLookup,
         Adopt, Archive, ArchiveReturns, CancelWrite, Update
<1> QED
  BY <1>1, <1>2, <1>3, <1>4 DEF QueueStep

\* A caller begins a repair or sends only in a repair.
LEMMA WhereCallerGoes ==
  ASSUME TypeInv, NEW p \in Callers, Request(p) \/ CallerStep(p) \/ SharedStep(p)
  PROVE  /\ pc'[p] = "sending" => /\ At(p, "repair")
                                  /\ rec' = [Correcting(rec, loc[p].att)
                                                EXCEPT !.outcomeUnknown = FALSE]
         /\ pc'[p] \in Beginning => Repair(p) \/ At(p, "repairLook")
<1> USE DEF TypeInv, TypeOK, ControlOK, Goto, GotoWith, Finish, Throw, Beginning
<1>1. CASE Request(p)
  <2>1. Repair(p) => pc'[p] # "sending"
    BY CallerIsProc DEF Repair
  <2> QED
    BY <1>1, <2>1, CallerIsProc DEF Request, Cancel, Recheck
<1>2. CASE CallerStep(p)
  BY <1>2, CallerIsProc
     DEF CallerStep, AskCancel, WriteRecheck, RepairLook, WriteRepair, Update
<1>3. CASE SharedStep(p)
  BY <1>3, CallerIsProc
     DEF SharedStep, SendReturns, Sent, SendUnknown, Fail, Park, Resolve, CancelLookup,
         Adopt, Archive, ArchiveReturns, CancelWrite, Update
<1> QED
  BY <1>1, <1>2, <1>3

LEMMA CallerLeavesOthers ==
  ASSUME TypeInv, NEW p \in Callers, Request(p) \/ CallerStep(p) \/ SharedStep(p),
         NEW q \in Procs, q # p
  PROVE  pc'[q] = pc[q]
<1> USE DEF TypeInv, TypeOK, ControlOK, Goto, GotoWith, Finish, Throw
<1>1. CASE Request(p)
  BY <1>1, CallerIsProc DEF Request, Cancel, Recheck, Repair
<1>2. CASE CallerStep(p)
  BY <1>2, CallerIsProc
     DEF CallerStep, AskCancel, WriteRecheck, RepairLook, WriteRepair, Update
<1>3. CASE SharedStep(p)
  BY <1>3, CallerIsProc
     DEF SharedStep, SendReturns, Sent, SendUnknown, Fail, Park, Resolve, CancelLookup,
         Adopt, Archive, ArchiveReturns, CancelWrite, Update
<1> QED
  BY <1>1, <1>2, <1>3

\* A caller that parks the job runs a cancel whose archive failed, or a repair
\* whose send failed.
LEMMA WhichCallerParks ==
  ASSUME TypeInv, AckInv, NEW p \in Callers, Request(p) \/ CallerStep(p) \/ SharedStep(p),
         rec'.state = "needs_continue", rec.state # "needs_continue"
  PROVE  \/ pc[p] = "park" /\ rec' = Parked(rec)
         \/ pc[p] = "sendUnknown" /\ rec' = SendUncertain(rec, loc[p].att)
<1>r. rec \in Records
  BY DEF TypeInv, TypeOK, ServerOK
<1>n. ~UNCHANGED rec /\ ~UNCHANGED server
  BY DEF server
<1>f. /\ Designing(rec, loc[p].att).state = "designing"
      /\ CancelAsked(rec).state = "canceling" /\ Canceled(rec).state = "canceled"
      /\ Failed(rec).state = "failed"
      /\ [rec EXCEPT !.agentCreated = TRUE].state = rec.state
      /\ [rec EXCEPT !.state = "ready"].state = "ready"
      /\ [Correcting(rec, loc[p].att) EXCEPT !.outcomeUnknown = FALSE].state = "fixing"
  <2>1. Designing(rec, loc[p].att).state = "designing" /\ Failed(rec).state = "failed"
    BY <1>r, WriteFields
  <2>2. [Correcting(rec, loc[p].att) EXCEPT !.outcomeUnknown = FALSE].state = "fixing"
    BY <1>r DEF Correcting, Pending, Records
  <2> QED
    BY <1>r, <2>1, <2>2 DEF CancelAsked, Canceled, Records
<1>1. ~Request(p)
  BY <1>n DEF Request, Cancel, Recheck, Repair, Call
<1>2. ~CallerStep(p)
  BY <1>n, <1>f DEF CallerStep, AskCancel, WriteRecheck, RepairLook, WriteRepair, Update, server
<1>3. CASE SharedStep(p)
  BY <1>3, <1>n, <1>f
     DEF SharedStep, SendReturns, Sent, SendUnknown, Fail, Park, Resolve, CancelLookup,
         Adopt, Archive, ArchiveReturns, CancelWrite, Update, At
<1> QED
  BY <1>1, <1>2, <1>3

-----------------------------------------------------------------------------
(* The four parts, step by step. *)

\* An agent that is gone stays so, once the job has ended.
LEMMA GoneStays ==
  ASSUME EndBase, EndBounds, Next, IsTerminal(rec), AgentIsGone
  PROVE  AgentIsGone'
<1>1. ~CreateReturns
  BY DEF EndBase, OrphanInv, QueueTells, CreateReturns, At
<1>2. \A n : HostReceives(n) => AgentIsGone'
  BY DEF HostReceives, AgentIsGone, AgentLives
<1>3. \A p : SendReturns(p) \/ ArchiveReturns(p) => AgentIsGone'
  BY <1>2 DEF SendReturns, ArchiveReturns, AgentIsGone, AgentLives, host
<1>4. UNCHANGED host \/ TurnEnds \/ CreateLands \/ HookArrives => AgentIsGone'
  BY DEF TurnEnds, CreateLands, HookArrives, AgentIsGone, AgentLives, host
<1> QED
  BY <1>1, <1>3, <1>4, WhoTouchesHost DEF EndBase, EndBounds

LEMMA SendingNext ==
  ASSUME EndBase, EndBounds, EndInv, Next, OrphanInv'
  PROVE  SendingTells'
<1> SUFFICES ASSUME NEW p \in Procs, pc'[p] = "sending", IsTerminal(rec')
             PROVE  AgentIsGone'
  BY DEF SendingTells
<1>t. TypeInv /\ AckInv /\ PromptInv /\ OrphanInv /\ MaxCrashes = 0 /\ rec \in Records
  BY DEF EndBase, EndBounds, TypeInv, TypeOK, ServerOK
<1>f. \A n : /\ Correcting(rec, n).state = "fixing"
             /\ [Correcting(rec, n) EXCEPT !.outcomeUnknown = FALSE].state = "fixing"
  BY <1>t DEF Correcting, Pending, Records
<1>n. \A n : /\ rec' # Correcting(rec, n)
             /\ rec' # [Correcting(rec, n) EXCEPT !.outcomeUnknown = FALSE]
  BY <1>f DEF IsTerminal, Terminal
<1>1. pc[p] = "sending"
  <2>1. CASE QueueStep
    BY <1>t, <1>n, <2>1, CallersLeft, WhereQueueGoes DEF Procs
  <2>2. ASSUME NEW q \in Callers, Request(q) \/ CallerStep(q) \/ SharedStep(q)
        PROVE  pc[p] = "sending"
    <3>1. CASE p = q
      BY <1>t, <1>n, <2>2, <3>1, WhereCallerGoes
    <3>2. CASE p # q
      BY <1>t, <2>2, <3>2, CallerLeavesOthers
    <3> QED
      BY <3>1, <3>2
  <2>3. CASE Poll \/ HookArrives \/ TurnEnds \/ CreateLands \/ SendAges
    BY <2>3 DEF Poll, HookArrives, TurnEnds, CreateLands, SendAges
  <2>4. ~Restart
    BY <1>t DEF Restart, TypeInv, TypeOK, RestOK
  <2> QED
    BY <2>1, <2>2, <2>3, <2>4 DEF Next
<1>2. CASE IsTerminal(rec)
  BY <1>1, <1>2, GoneStays DEF EndInv, SendingTells
<1>3. CASE ~IsTerminal(rec)
  <2>1. CASE rec'.state = "canceled"
    BY <2>1 DEF OrphanInv, RecordTells
  <2>2. CASE Fail("queue")
    BY <1>1, <2>2 DEF Fail, At, EndInv, FailTells, Procs
  <2>3. CASE TurnFailed \/ WriteGap
    <3>1. p \in Callers /\ Fresh(loc[p].att)
      BY <1>1, <1>t, <2>3 DEF TurnFailed, WriteGap, At, Procs, PromptInv, CallerPrompts
    <3>2. delivered[rec.attempt] = 0
      BY <3>1 DEF Fresh
    <3>3. TurnFailed => delivered[rec.attempt] > 0
      BY <1>t DEF TurnFailed, At, PromptInv, QueuePrompts, EndInv, TurnsAreReal, ReadIsReal, Real
    <3>4. WriteGap => delivered[rec.attempt] > 0
      BY <1>t DEF WriteGap, At, PromptInv, QueuePrompts, Judged
    <3> QED
      BY <2>3, <3>2, <3>3, <3>4
  <2> QED
    BY <1>3, <1>t, <2>1, <2>2, <2>3, WhoEnds
<1> QED
  BY <1>2, <1>3

LEMMA SpentOnRequests ==
  ASSUME TypeInv, QueueStep \/ \E p \in Callers : CallerStep(p) \/ SharedStep(p)
  PROVE  calls' = calls
<1>1. \A p : CallerStep(p) \/ SharedStep(p) => calls' = calls
  BY DEF CallerStep, AskCancel, WriteRecheck, RepairLook, WriteRepair, SharedStep, SendReturns,
         Sent, SendUnknown, Fail, Park, Resolve, CancelLookup, Adopt, Archive, ArchiveReturns,
         CancelWrite, Local, spent
<1>2. RunTask \/ StartStep => calls' = calls
  BY DEF RunTask, StartStep, StartRun, BeforeIntent, WriteIntent, AfterIntent, CreateReturns,
         MarkCreated, CreateFailed, CreateLookup, CreateUnsure, ClaimAgent, Local, spent
<1>3. ReconcileStep => calls' = calls
  BY DEF ReconcileStep, Reconcile, ReplayLookup, ResumeLookup, RecoverSend, SendEchoed,
         SendTimedOut, Observe, Look, LearnTurn, Candidate, WriteReady, WriteGap,
         WriteCorrection, TurnEnded, TurnFailed, Local, spent
<1> QED
  BY <1>1, <1>2, <1>3 DEF QueueStep

\* The queue goes to fail a job where no repair is about to begin or to send.
LEMMA FailEntered ==
  ASSUME EndBase, EndBounds, EndInv, QueueStep, pc'["queue"] = "fail"
  PROVE  /\ rec' = rec
         /\ \A p \in Callers : pc[p] \notin Beginning \cup {"sending"}
         /\ rec.state = "needs_continue" => calls.repair = MaxRepairs
<1>t. TypeInv /\ AckInv /\ PromptInv
  BY DEF EndBase
<1>1. CASE StartRun
  <2>1. rec' = rec /\ ~rec.creation
    BY <1>1, <1>t DEF StartRun, At, server, AckInv, QueueFits, BeforeCreate
  <2>2. ~rec.agentCreated /\ rec.state # "needs_continue"
    BY <1>t, <2>1 DEF AckInv, RecordOK, NotAsked, Terminal
  <2>3. \A p \in Callers : pc[p] \notin Repairing
    BY <1>t, <2>2 DEF AckInv, CallerFits
  <2> QED
    BY <2>1, <2>2, <2>3 DEF Repairing, Sending, Beginning
<1>2. CASE CreateLookup
  <2>1. rec' = rec /\ Creates(pc["queue"], loc["queue"]) /\ pc["queue"] \in FirstWay
    BY <1>2 DEF CreateLookup, At, server, Creates, CreateLabels, FirstWay
  <2>2. \A p \in Callers : pc[p] \notin Repairing
    BY <1>t, <2>1 DEF AckInv, CreateAlone
  <2>3. ASSUME rec.state = "needs_continue"
        PROVE  calls.repair = MaxRepairs
    <3>1. rec.cancelRequested
      BY <2>1, <2>3 DEF EndInv, FirstTells
    <3>2. HostMayFail
      BY <1>t, <2>1, <2>3, <3>1 DEF AckInv, QueueFits, CreateIsFirst
    <3>3. MaxCancels # 0
      BY <1>t, <2>3, <3>1 DEF AckInv, RecordOK, CancelAllowed, IsTerminal, Terminal
    <3>4. MaxRepairs = 0
      BY <3>2, <3>3 DEF EndBounds, NotBoth
    <3> QED
      BY <1>t, <3>4, AttemptIsNat
  <2> QED
    BY <2>1, <2>2, <2>3 DEF Repairing, Sending, Beginning
<1>3. CASE Look \/ Candidate
  <2>1. rec' = rec /\ pc["queue"] \in {"look", "candidate"}
    BY <1>3 DEF Look, Candidate, At, server
  <2>2. Judged
    <3>1. Candidate => Judged
      BY <1>t DEF Candidate, At, PromptInv, QueuePrompts
    <3>2. Look => Has("queue", "decisive")
      BY <1>t, QueueIsProc
         DEF Look, TypeInv, TypeOK, ControlOK, Goto, Finish, Forget, GotoWith
    <3>3. Look => Judged
      BY <1>t, <3>2 DEF PromptInv, QueuePrompts, Has
    <3> QED
      BY <1>3, <3>1, <3>3
  <2>3. pc["queue"] \in Active
    BY <2>1 DEF Active, Deciding
  <2>4. ASSUME NEW p \in Callers
        PROVE  pc[p] \notin Beginning \cup {"sending"}
    BY <1>t, <2>2, <2>3 DEF PromptInv, Apart, CallerPrompts, Fresh, Judged
  <2>5. rec.state = "needs_continue" => calls.repair = MaxRepairs
    BY <1>t, <2>3 DEF PromptInv, QueuePrompts
  <2> QED
    BY <2>1, <2>4, <2>5
<1> QED
  BY <1>t, <1>1, <1>2, <1>3, WhereQueueGoes

\* A caller parks a job only if no repair is left.
LEMMA ParkedOut ==
  ASSUME EndBase, EndBounds, NEW p \in Callers,
         Request(p) \/ CallerStep(p) \/ SharedStep(p),
         rec'.state = "needs_continue", rec.state # "needs_continue"
  PROVE  calls.repair = MaxRepairs
<1>t. TypeInv /\ AckInv /\ PromptInv
  BY DEF EndBase
<1>c. calls.repair \in 0 .. MaxRepairs /\ MaxRepairs \in Nat
  BY <1>t, AttemptIsNat
<1>1. CASE pc[p] = "park"
  <2>1. HostMayFail /\ MaxCancels # 0
    BY <1>1, <1>t, DesignServiceAssumption DEF AckInv, CallerFits, CancelLabels
  <2> QED
    BY <1>c, <2>1 DEF EndBounds, NotBoth
<1>2. CASE pc[p] = "sendUnknown"
  <2>1. calls.repair > 0
    BY <1>2, <1>t DEF PromptInv, CallerPrompts, Repairing, Sending
  <2> QED
    BY <1>c, <2>1 DEF EndBounds
<1> QED
  BY <1>t, <1>1, <1>2, WhichCallerParks

LEMMA FailNext ==
  ASSUME EndBase, EndBounds, EndInv, Next
  PROVE  FailTells'
<1>t. TypeInv /\ AckInv /\ PromptInv
  BY DEF EndBase
<1>1. CASE QueueStep
  <2>1. calls' = calls /\ \A p \in Callers : pc'[p] = pc[p]
    BY <1>t, <1>1, SpentOnRequests, CallersLeft
  <2> QED
    BY <1>1, <2>1, FailEntered DEF FailTells
<1>2. ASSUME NEW q \in Callers, Request(q) \/ CallerStep(q) \/ SharedStep(q)
      PROVE  FailTells'
  <2> SUFFICES ASSUME pc'["queue"] = "fail"
               PROVE  /\ \A p \in Callers : pc'[p] \notin Beginning \cup {"sending"}
                      /\ rec'.state = "needs_continue" => calls'.repair = MaxRepairs
    BY DEF FailTells
  <2>1. pc["queue"] = "fail"
    BY <1>t, <1>2, CallerLeavesQueue DEF TypeInv, QueueLeft
  <2>2. /\ \A p \in Callers : pc[p] \notin Beginning \cup {"sending"}
        /\ rec.state = "needs_continue" => calls.repair = MaxRepairs
    BY <2>1 DEF EndInv, FailTells
  <2>3. ~Repair(q)
    BY <1>t, <2>2, AttemptIsNat DEF Repair, Call, MaxCalls
  <2>4. pc'[q] \notin Beginning \cup {"sending"}
    BY <1>t, <1>2, <2>2, <2>3, WhereCallerGoes DEF At, Beginning
  <2>5. ASSUME NEW p \in Callers
        PROVE  pc'[p] \notin Beginning \cup {"sending"}
    <3>1. p # q => pc'[p] = pc[p]
      BY <1>t, <1>2, CallerLeavesOthers, CallerIsProc
    <3> QED
      BY <2>2, <2>4, <3>1
  <2>6. calls'.repair = calls.repair
    <3>1. Request(q) => calls'.repair = calls.repair
      BY <1>t, <2>3 DEF Request, Cancel, Recheck, Call, TypeInv, TypeOK, RestOK
    <3>2. CallerStep(q) \/ SharedStep(q) => calls' = calls
      BY <1>t, SpentOnRequests
    <3> QED
      BY <1>2, <3>1, <3>2
  <2>7. rec'.state = "needs_continue" => calls.repair = MaxRepairs
    BY <1>2, <2>2, ParkedOut
  <2> QED
    BY <2>5, <2>6, <2>7
<1>3. CASE Poll \/ HookArrives \/ TurnEnds \/ CreateLands \/ SendAges
  <2>1. rec' = rec /\ pc' = pc /\ calls' = calls
    BY <1>3 DEF Poll, HookArrives, TurnEnds, CreateLands, SendAges, server, spent
  <2> QED
    BY <2>1 DEF EndInv, FailTells
<1>4. ~Restart
  BY <1>t DEF EndBounds, Restart, TypeInv, TypeOK, RestOK
<1> QED
  BY <1>1, <1>2, <1>3, <1>4 DEF Next

\* A recorded cancel stays.
LEMMA CancelStays ==
  ASSUME TypeInv, NEW p \in Callers, Request(p) \/ CallerStep(p) \/ SharedStep(p),
         rec.cancelRequested
  PROVE  rec'.cancelRequested
<1>r. rec \in Records
  BY DEF TypeInv, TypeOK, ServerOK
<1>n. UNCHANGED rec \/ UNCHANGED server => rec'.cancelRequested
  BY DEF server
<1>k. \A next : KeepsCreate(rec, next) /\ rec' = next => rec'.cancelRequested
  BY DEF KeepsCreate
<1>1. Request(p) => rec'.cancelRequested
  BY <1>n DEF Request, Cancel, Recheck, Repair, Call
<1>2. CASE CallerStep(p)
  <2>1. /\ CancelAsked(rec).cancelRequested
        /\ [rec EXCEPT !.state = "ready"].cancelRequested
        /\ [Correcting(rec, loc[p].att) EXCEPT !.outcomeUnknown = FALSE].cancelRequested
    BY <1>r DEF CancelAsked, Correcting, Pending, Records
  <2> QED
    BY <1>2, <1>n, <2>1 DEF CallerStep, AskCancel, WriteRecheck, RepairLook, WriteRepair, Update,
                            server
<1>3. CASE SharedStep(p)
  <2>1. /\ KeepsCreate(rec, Designing(rec, loc[p].att)) /\ KeepsCreate(rec, Failed(rec))
        /\ KeepsCreate(rec, SendUncertain(rec, loc[p].att)) /\ KeepsCreate(rec, Parked(rec))
    BY <1>r, WriteFields
  <2>2. Canceled(rec).cancelRequested /\ [rec EXCEPT !.agentCreated = TRUE].cancelRequested
    BY <1>r DEF Canceled, Records
  <2> QED
    BY <1>3, <1>k, <1>n, <2>1, <2>2
       DEF SharedStep, SendReturns, Sent, SendUnknown, Fail, Park, Resolve, CancelLookup,
           Adopt, Archive, ArchiveReturns, CancelWrite, Update
<1> QED
  BY <1>1, <1>2, <1>3

LEMMA FirstNext ==
  ASSUME EndBase, EndBounds, EndInv, Next
  PROVE  FirstTells'
<1>t. TypeInv /\ AckInv /\ OrphanInv /\ rec \in Records
  BY DEF EndBase, TypeInv, TypeOK, ServerOK
<1> SUFFICES ASSUME pc'["queue"] \in FirstWay, rec'.state = "needs_continue"
             PROVE  rec'.cancelRequested
  BY DEF FirstTells
<1>1. CASE QueueStep
  <2>1. ~ReplayLookup
    BY <1>t DEF OrphanInv, QueueTells, ReplayLookup, At
  <2>2. rec' # Intended(rec)
    BY <1>t DEF Intended, Pending, Records
  <2>3. Has("queue", "guarded") => rec.cancelRequested
    BY <1>t DEF Has, AckInv, QueueFits
  <2> QED
    BY <1>1, <1>t, <2>1, <2>2, <2>3, WhereQueueGoes DEF EndInv, FirstTells
<1>2. ASSUME NEW q \in Callers, Request(q) \/ CallerStep(q) \/ SharedStep(q)
      PROVE  rec'.cancelRequested
  <2>1. pc["queue"] \in FirstWay
    BY <1>t, <1>2, CallerLeavesQueue DEF TypeInv, QueueLeft
  <2>2. pc[q] \notin Repairing
    BY <1>t, <2>1 DEF AckInv, CreateAlone, Creates, CreateLabels, FirstWay
  <2>3. rec.cancelRequested
    <3>1. CASE rec.state = "needs_continue"
      BY <2>1, <3>1 DEF EndInv, FirstTells
    <3>2. CASE rec.state # "needs_continue"
      BY <1>t, <1>2, <2>2, <3>2, WhichCallerParks
         DEF AckInv, CallerFits, CancelLabels, Repairing, Sending
    <3> QED
      BY <3>1, <3>2
  <2> QED
    BY <1>t, <1>2, <2>3, CancelStays
<1>3. CASE Poll \/ HookArrives \/ TurnEnds \/ CreateLands \/ SendAges
  <2>1. rec' = rec /\ pc' = pc
    BY <1>3 DEF Poll, HookArrives, TurnEnds, CreateLands, SendAges, server
  <2> QED
    BY <2>1 DEF EndInv, FirstTells
<1>4. ~Restart
  BY <1>t DEF EndBounds, Restart, TypeInv, TypeOK, RestOK
<1> QED
  BY <1>1, <1>2, <1>3, <1>4 DEF Next
\* What the host begins is the turn of an attempt it has received.
LEMMA RunningIsReal ==
  ASSUME TypeInv, AckInv, MaxCrashes = 0, TurnsAreReal, Next
  PROVE  /\ agent' = "running" => Real(turn)'
         /\ \A e \in hooks' : Real(e.n)'
<1>n. delivered \in [Attempts -> Nat] /\ 1 \in Attempts /\ hooks \subseteq Endings
  BY AttemptIsNat DEF TypeInv, TypeOK, HostOK
<1>g. \A n : Real(n) => Real(n)'
  BY DeliveredGrows DEF Real
<1>s. (agent' = agent \/ agent' # "running") /\ turn' = turn /\ hooks' \subseteq hooks
        => (agent' = "running" => Real(turn)') /\ \A e \in hooks' : Real(e.n)'
  BY <1>g DEF TurnsAreReal, Real
<1>d. ASSUME NEW n \in Attempts, turn' = n, delivered' = [delivered EXCEPT ![n] = @ + 1],
             hooks' = hooks
      PROVE  Real(turn)' /\ \A e \in hooks' : Real(e.n)'
  <2>1. delivered[n] \in Nat /\ delivered'[n] = delivered[n] + 1
    BY <1>d, <1>n
  <2>2. Real(turn)'
    BY <1>d, <2>1 DEF Real
  <2> QED
    BY <1>d, <1>g, <2>2 DEF TurnsAreReal, Real
<1>1. CASE UNCHANGED host
  BY <1>1, <1>s DEF host
<1>2. CASE CreateReturns
  BY <1>2, <1>d, <1>n, <1>s DEF CreateReturns, HostCreates, host
<1>3. CASE CreateLands
  BY <1>3, <1>d, <1>n, <1>s DEF CreateLands
<1>4. CASE HookArrives
  BY <1>4, <1>s DEF HookArrives
<1>5. CASE TurnEnds
  <2>1. Real(turn) /\ turn' = turn /\ agent' # "running"
    BY <1>5 DEF TurnEnds, TurnsAreReal
  <2>2. \A e \in hooks' : e \in hooks \/ e.n = turn
    BY <1>5 DEF TurnEnds
  <2> QED
    BY <1>g, <2>1, <2>2 DEF TurnsAreReal, Real
<1>6. ASSUME NEW p \in Procs, SendReturns(p)
      PROVE  (agent' = "running" => Real(turn)') /\ \A e \in hooks' : Real(e.n)'
  <2>1. loc[p].att \in Attempts
    BY <1>6 DEF SendReturns, At, AckInv, QueueFits, CallerFits, Procs, Sending, Repairing
  <2>2. HostReceives(loc[p].att) \/ UNCHANGED host
    BY <1>6 DEF SendReturns
  <2> QED
    BY <1>1, <1>d, <2>1, <2>2 DEF HostReceives
<1>7. ASSUME NEW p \in Procs, ArchiveReturns(p)
      PROVE  (agent' = "running" => Real(turn)') /\ \A e \in hooks' : Real(e.n)'
  BY <1>7, <1>s DEF ArchiveReturns, host
<1> QED
  BY <1>1, <1>2, <1>3, <1>4, <1>5, <1>6, <1>7, WhoTouchesHost

LEMMA QueueKeepsTasks ==
  ASSUME QueueStep, ~RunTask
  PROVE  UNCHANGED tasks
<1>1. StartStep => UNCHANGED tasks
  BY DEF StartStep, StartRun, BeforeIntent, WriteIntent, AfterIntent, CreateReturns,
         MarkCreated, CreateFailed, CreateLookup, CreateUnsure, ClaimAgent, Local
<1>2. ReconcileStep => UNCHANGED tasks
  BY DEF ReconcileStep, Reconcile, ReplayLookup, ResumeLookup, RecoverSend, SendEchoed,
         SendTimedOut, Observe, Look, LearnTurn, Candidate, WriteReady, WriteGap,
         WriteCorrection, TurnEnded, TurnFailed, Local
<1>3. SharedStep("queue") => UNCHANGED tasks
  BY DEF SharedStep, SendReturns, Sent, SendUnknown, Fail, Park, Resolve, CancelLookup, Adopt,
         Archive, ArchiveReturns, CancelWrite, Local
<1> QED
  BY <1>1, <1>2, <1>3 DEF QueueStep

\* A turn's task is made of an event, and the queue reads that of the task.
LEMMA TasksStayReal ==
  ASSUME TypeInv, MaxCrashes = 0, TurnsAreReal, Next
  PROVE  TasksAreReal' /\ ReadIsReal'
<1>g. \A n : Real(n) => Real(n)'
  BY DeliveredGrows DEF Real
<1>t. tasks \in Seq(Tasks)
  BY DEF TypeInv, TypeOK, RestOK
<1>s. UNCHANGED tasks => TasksAreReal'
  BY <1>g DEF TurnsAreReal, TasksAreReal, Real
<1>l. QueueLeft => ReadIsReal'
  BY <1>g DEF QueueLeft, TurnsAreReal, ReadIsReal, Real
<1>1. CASE RunTask
  <2>1. tasks # << >> /\ Head(tasks) = tasks[1] /\ 1 \in DOMAIN tasks /\ tasks' = Tail(tasks)
    BY <1>1, <1>t DEF RunTask
  <2>2. \A i \in DOMAIN tasks' : i + 1 \in DOMAIN tasks /\ tasks'[i] = tasks[i + 1]
    BY <1>t, <2>1
  <2>3. pc'["queue"] = tasks[1].kind /\ loc'["queue"].ev = tasks[1].ev
    BY <1>1, <2>1, QueueIsProc DEF RunTask, TypeInv, TypeOK, ControlOK, NoLocals
  <2>4. tasks[1].kind # "turnFailed"
    BY <1>t, <2>1 DEF Tasks
  <2> QED
    BY <1>g, <2>1, <2>2, <2>3, <2>4 DEF TurnsAreReal, TasksAreReal, ReadIsReal, Real
<1>2. CASE QueueStep /\ ~RunTask
  <2>1. UNCHANGED tasks
    BY <1>2, QueueKeepsTasks
  <2>2. pc'["queue"] # "turn" /\ (pc'["queue"] = "turnFailed" => TurnEnded)
    BY <1>2, WhereQueueGoes
  <2>3. TurnEnded /\ pc'["queue"] = "turnFailed" => loc' = loc /\ At("queue", "turn")
    BY QueueIsProc
       DEF TurnEnded, EndTurn, Goto, Forget, GotoWith, Finish, TypeInv, TypeOK, ControlOK
  <2> QED
    BY <1>g, <1>s, <2>1, <2>2, <2>3 DEF TurnsAreReal, ReadIsReal, Real, At
<1>3. ASSUME NEW q \in Callers, Request(q) \/ CallerStep(q) \/ SharedStep(q)
      PROVE  UNCHANGED tasks /\ QueueLeft
  <2>1. QueueLeft
    BY <1>3, CallerLeavesQueue DEF TypeInv
  <2>2. UNCHANGED tasks
    BY <1>3
       DEF Request, Cancel, Recheck, Repair, Call, CallerStep, AskCancel, WriteRecheck,
           RepairLook, WriteRepair, SharedStep, SendReturns, Sent, SendUnknown, Fail, Park,
           Resolve, CancelLookup, Adopt, Archive, ArchiveReturns, CancelWrite, Local, mem
  <2> QED
    BY <2>1, <2>2
<1>4. CASE TurnEnds \/ CreateLands \/ SendAges
  BY <1>4, <1>s, <1>l DEF TurnEnds, CreateLands, SendAges, mem, QueueLeft
<1>5. ASSUME NEW t, tasks' = Append(tasks, t), t.kind = "turn" => Real(t.ev.n), QueueLeft
      PROVE  TasksAreReal'
  <2>1. \A i \in DOMAIN tasks' : (i \in DOMAIN tasks /\ tasks'[i] = tasks[i]) \/ tasks'[i] = t
    BY <1>5, <1>t
  <2> QED
    BY <1>5, <1>g, <2>1 DEF TurnsAreReal, TasksAreReal, Real
<1>6. CASE Poll
  BY <1>5, <1>6, <1>l DEF Poll, QueueLeft
<1>7. CASE HookArrives
  <2>1. PICK e \in hooks, id \in {"none", "turn", "message"} :
          tasks' = Append(tasks, [kind |-> "turn",
                                  ev |-> [n |-> e.n, id |-> id, outcome |-> e.outcome]])
    BY <1>7 DEF HookArrives
  <2>2. Real(e.n) /\ QueueLeft
    BY <1>7 DEF TurnsAreReal, HookArrives, QueueLeft
  <2> QED
    BY <1>5, <1>l, <2>1, <2>2
<1>8. ~Restart
  BY DEF Restart, TypeInv, TypeOK, RestOK
<1> QED
  BY <1>1, <1>2, <1>3, <1>4, <1>6, <1>7, <1>8, <1>l, <1>s DEF Next

-----------------------------------------------------------------------------
(* The theorem. *)

LEMMA EndInit == Init => EndInv
<1> SUFFICES ASSUME Init
             PROVE  EndInv
  OBVIOUS
<1>1. \A p \in Procs : pc[p] = "idle"
  BY DEF Init
<1>2. SendingTells /\ FailTells /\ FirstTells
  BY <1>1, QueueIsProc DEF SendingTells, FailTells, FirstTells, FirstWay
<1>3. TurnsAreReal
  BY <1>1, QueueIsProc DEF Init, TurnsAreReal, TasksAreReal, ReadIsReal
<1> QED
  BY <1>2, <1>3 DEF EndInv

LEMMA EndNext ==
  ASSUME EndBase, EndBounds, EndInv, [Next]_vars
  PROVE  (EndBase /\ EndInv)'
<1>1. EndBase'
  BY AckNext, PromptNext, OrphanNext, TypeNext, RoundLeftNext DEF EndBase, EndBounds, TypeInv
<1>2. CASE Next
  <2>1. SendingTells' /\ FailTells' /\ FirstTells'
    BY <1>1, <1>2, SendingNext, FailNext, FirstNext DEF EndBase
  <2>2. TurnsAreReal'
    BY <1>2, RunningIsReal, TasksStayReal DEF EndBase, EndBounds, EndInv, TurnsAreReal
  <2> QED
    BY <1>1, <2>1, <2>2 DEF EndInv
<1>3. CASE UNCHANGED vars
  BY <1>1, <1>3
     DEF vars, server, mem, host, spent, EndInv, SendingTells, FailTells, FirstTells, TurnsAreReal,
         TasksAreReal, ReadIsReal, Real, AgentIsGone, AgentLives, IsTerminal
<1> QED
  BY <1>2, <1>3

\* While the plugin runs without a restart and its store answers, with at most one
\* repair and none beside a cancel whose archive may fail, no prompt reaches the
\* agent once its job has ended, except by a create that had been given up for lost:
\* whoever is about to send has read the record before, but nobody ends the job in
\* between unless the agent is gone (runStart, handleFailure, continue).
THEOREM EndedIsQuietHolds ==
  ASSUME NotBoth, MaxRepairs <= 1, MaxCrashes = 0, MaxFaults = 0
  PROVE  Spec => EndedIsQuiet
<1>1. Init => EndBase /\ EndInv
  BY TypeInit, AckInit, PromptInit, OrphanInit, EndInit DEF EndBase
<1>2. EndBase /\ EndInv /\ [Next]_vars => (EndBase /\ EndInv)'
  BY EndNext DEF EndBounds
<1>3. ASSUME EndBase, EndInv, Next, IsTerminal(rec), delivered' # delivered
      PROVE  landedLate'
  <2>1. ~CreateReturns
    BY <1>3 DEF EndBase, OrphanInv, QueueTells, CreateReturns, At
  <2>2. ASSUME NEW p \in Procs, SendReturns(p)
        PROVE  landedLate'
    <3>1. AgentLives /\ landedLate' = landedLate
      BY <1>3, <2>2 DEF SendReturns, HostReceives, AgentLives, host
    <3>2. AgentIsGone
      BY <1>3, <2>2 DEF SendReturns, At, EndInv, SendingTells
    <3> QED
      BY <3>1, <3>2 DEF AgentIsGone
  <2>3. CreateLands => landedLate'
    BY <1>3 DEF CreateLands
  <2>4. /\ ~UNCHANGED host /\ ~TurnEnds /\ ~HookArrives
        /\ \A p : ~ArchiveReturns(p)
    BY <1>3 DEF TurnEnds, HookArrives, ArchiveReturns, host
  <2> QED
    BY <1>3, <2>1, <2>2, <2>3, <2>4, WhoTouchesHost DEF EndBase
<1>4. EndBase /\ EndInv /\ [Next]_vars
        => [IsTerminal(rec) /\ delivered' # delivered => landedLate']_vars
  BY <1>3
<1> QED
  BY <1>1, <1>2, <1>4, PTL DEF Spec, EndedIsQuiet
=============================================================================
