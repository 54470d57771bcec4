----------------------------- MODULE DesignService -----------------------------
(***************************************************************************)
(* One design job of the team designer (server/designer/service.ts): its   *)
(* task queue, the RPCs that run beside the queue (cancel, continue), the  *)
(* polls of the page, the turn-ended hook, a restart of the plugin, and    *)
(* the agent on the host that the job drives.                              *)
(*                                                                         *)
(* The service is one Node process.  Between two awaits a function runs    *)
(* alone, so an action is what happens from one await to the next; pc[p]   *)
(* is where process p waits.  The processes are the job's queue, which     *)
(* runs one task at a time, and the RPC callers.  updateRecord reads,      *)
(* changes and compare-and-swaps the record until it wins, so it is one    *)
(* action, which fails when the store refuses the change (Accepts) or when *)
(* the store throws (StoreFault, which also stands for three lost races).  *)
(***************************************************************************)
EXTENDS DesignRecord, Sequences

CONSTANTS
  Callers,          \* RPCs that can be in flight at once
  MaxCancels, MaxRechecks, MaxRepairs,   \* bounds: RPCs made, by what they ask for
  MaxCrashes,       \* bound: restarts of the plugin
  MaxFaults,        \* bound: store writes that throw
  HostMayFail,      \* the host's lookups and archives may throw
  CreateMayStall    \* a create whose outcome is unknown may still land later

MaxCalls == [cancel |-> MaxCancels, recheck |-> MaxRechecks, repair |-> MaxRepairs]

ASSUME DesignServiceAssumption ==
  /\ "queue" \notin Callers
  /\ MaxCancels \in Nat /\ MaxRechecks \in Nat /\ MaxRepairs \in Nat
  /\ MaxCrashes \in Nat /\ MaxFaults \in Nat
  /\ HostMayFail \in BOOLEAN /\ CreateMayStall \in BOOLEAN

Procs == Callers \cup {"queue"}

VARIABLES
  rec,        \* the stored record
  tasks,      \* tasks waiting in the job's queue
  pc, loc,    \* where each process waits, and its local variables
  creating,   \* the job is in the `creating` set
  observed,   \* the job is in the `observed` set
  agent,      \* the agent on the host
  turn,       \* the attempt whose prompt the agent received last
  delivered,  \* how often the agent received the prompt of each attempt
  stalled,    \* a create request is lost on its way and may still land
  landedLate, \* the agent was created by such a request
  hooks,      \* turn-ended events on their way to the plugin
  sendAged,   \* the pending send is 30 seconds old
  calls, crashes, faults   \* how much of each bound is spent

server == <<rec, faults>>
mem    == <<tasks, creating, observed>>
host   == <<agent, turn, delivered, stalled, landedLate, hooks>>
spent  == <<calls, crashes>>
vars   == <<server, mem, pc, loc, host, sendAged, spent>>

-----------------------------------------------------------------------------
(* Types. *)

AgentStates == {"absent", "running", "idle", "failed", "archived"}

\* A turn of attempt n ended; a failed one may leave the agent idle.  The
\* event that reaches the plugin names the turn by the host's turn id, by the
\* id of the message that started it, or not at all.
Endings == [n : Attempts, outcome : {"completed", "failed", "canceled"}]
Events == [n : Attempts, id : {"none", "turn", "message"},
           outcome : {"completed", "failed", "canceled"}]
NoEvent == [n |-> 0, id |-> "none", outcome |-> "completed"]

Tasks == [kind : {"start", "reconcile"}, ev : {NoEvent}] \cup [kind : {"turn"}, ev : Events]
Coalesced == {"start", "reconcile"}

\* task: the running task.  att: the attempt of the record read first.
\* flag is what the process remembers of an earlier read or answer:
\*   pending    that attempt's entry was pending
\*   turnKnown  that attempt's entry had a turn id
\*   decisive   the record observed was acknowledged and certain
\*   asked      the record read after a failed create had a cancel request
\*   unsure     the create failed with an unknown outcome
\*   replay     this create repeats one whose outcome was not recorded
\*   resume     go on observing after the claim
\*   guarded    an exception is handled as a failed create
\* text: the attempt whose output was read.
Flags == {"pending", "turnKnown", "decisive", "asked", "unsure", "replay",
          "resume", "guarded"}

Locals ==
  [task : {"none", "start", "reconcile", "turn"}, ev : Events \cup {NoEvent},
   att : 0 .. MaxAttempts, text : 0 .. MaxAttempts, flag : SUBSET Flags]

NoLocals == [task |-> "none", ev |-> NoEvent, att |-> 0, text |-> 0, flag |-> {}]

QueueLabels ==
  {"start", "beforeIntent", "intent", "afterIntent", "creating", "mark",
   "createFailed", "createLookup", "claim", "unsure", "reconcile",
   "replayLookup", "resumeLookup", "recoverSend", "echoed", "sendTimedOut",
   "observe", "look", "learn", "candidate", "ready", "gap", "correct", "turn", "turnFailed"}
SharedLabels ==
  {"idle", "fail", "park", "sending", "sent", "sendUnknown",
   "resolve", "cancelLookup", "adopt", "archive", "archiving", "cancelWrite"}
CallerLabels == {"askCancel", "recheck", "repairLook", "repair"}

Labels == QueueLabels \cup SharedLabels \cup CallerLabels

ServerOK == rec \in Records /\ faults \in 0 .. MaxFaults

ControlOK ==
  /\ pc \in [Procs -> Labels]
  /\ loc \in [Procs -> Locals]
  /\ creating \in BOOLEAN

HostOK ==
  /\ agent \in AgentStates
  /\ turn \in 0 .. MaxAttempts
  /\ delivered \in [Attempts -> Nat]
  /\ stalled \in BOOLEAN /\ landedLate \in BOOLEAN
  /\ hooks \subseteq Endings

RestOK ==
  /\ tasks \in Seq(Tasks)
  /\ observed \in BOOLEAN /\ sendAged \in BOOLEAN
  /\ calls \in [cancel : 0..MaxCancels, recheck : 0..MaxRechecks, repair : 0..MaxRepairs]
  /\ crashes \in 0 .. MaxCrashes

TypeOK == ServerOK /\ ControlOK /\ HostOK /\ RestOK

\* A correction is only prepared while a round is left.
RoundLeft ==
  pc["queue"] = "correct" => loc["queue"].att \in 1 .. (MaxAttempts - 1)

TypeInv == TypeOK /\ RoundLeft

-----------------------------------------------------------------------------
(* Control. *)

At(p, l) == pc[p] = l

Goto(p, l) == pc' = [pc EXCEPT ![p] = l] /\ UNCHANGED <<loc, creating>>

GotoWith(p, l, local) ==
  /\ pc' = [pc EXCEPT ![p] = l]
  /\ loc' = [loc EXCEPT ![p] = local]
  /\ UNCHANGED creating

\* The function returns, or throws and the error is logged.  A queued task
\* leaves the `creating` set (finally).
Finish(p) ==
  /\ pc' = [pc EXCEPT ![p] = "idle"]
  /\ loc' = [loc EXCEPT ![p] = NoLocals]
  /\ creating' = (creating /\ p # "queue")

\* updateRecord: the change is stored and the process goes on as ok says,
\* or updateRecord throws and it goes on as thrown says.
StoreFault == faults < MaxFaults /\ faults' = faults + 1

Update(next, ok, thrown) ==
  \/ Accepts(rec, next) /\ rec' = next /\ UNCHANGED faults /\ ok
  \/ ~Accepts(rec, next) /\ UNCHANGED <<rec, faults>> /\ thrown
  \/ StoreFault /\ UNCHANGED rec /\ thrown

Idle(p) == At(p, "idle")

Has(p, f) == f \in loc[p].flag
With(p, f) == [loc[p] EXCEPT !.flag = @ \cup f]
Flagged(cond, f) == IF cond THEN {f} ELSE {}

\* What a function no longer uses is forgotten; att is its attempt.
Forget(p, l, att) == GotoWith(p, l, [NoLocals EXCEPT !.task = loc[p].task, !.att = att])

\* An exception leaves the function, or the catch of the create takes it.
Throw(p) ==
  IF Has(p, "guarded")
    THEN GotoWith(p, "createFailed", [loc[p] EXCEPT !.flag = @ \ {"guarded", "unsure"}])
    ELSE Finish(p)

\* A start or reconcile task is queued or running.
PendingTask ==
  \/ loc["queue"].task \in Coalesced
  \/ \E i \in DOMAIN tasks : tasks[i].kind \in Coalesced

\* Nothing changes outside the process, the record and its faults.
Local == UNCHANGED <<tasks, observed, host, sendAged, spent>>

-----------------------------------------------------------------------------
(* Start: the queue's first task creates the agent (runStart). *)

\* The record and the settings are read, a profile is chosen and the
\* kickoff prompt is built; a problem with any of them fails the job.
StartRun ==
  /\ At("queue", "start")
  /\ Goto("queue", "beforeIntent") \/ Goto("queue", "fail")
  /\ UNCHANGED server /\ Local

\* The record is read again just before the intent is written.
BeforeIntent ==
  /\ At("queue", "beforeIntent")
  /\ Goto("queue", IF rec.cancelRequested THEN "cancelWrite" ELSE "intent")
  /\ UNCHANGED server /\ Local

\* The create request and the pending first attempt are stored before the
\* request leaves, so a restart can repeat it under the same key.
WriteIntent ==
  /\ At("queue", "intent")
  /\ Update(Intended(rec), Goto("queue", "afterIntent"), Finish("queue"))
  /\ sendAged' = FALSE
  /\ UNCHANGED <<tasks, observed, host, spent>>

\* A bug: the record is not read again before the request leaves.
SendWithoutLooking ==
  /\ At("queue", "afterIntent")
  /\ pc' = [pc EXCEPT !["queue"] = "creating"] /\ creating' = TRUE
  /\ UNCHANGED loc
  /\ UNCHANGED server /\ Local

\* The record is read once more; then, without an await, the job joins the
\* `creating` set and the request leaves.
AfterIntent ==
  /\ At("queue", "afterIntent")
  /\ IF rec.cancelRequested
       THEN Goto("queue", "cancelWrite")
       ELSE /\ pc' = [pc EXCEPT !["queue"] = "creating"]
            /\ creating' = TRUE
            /\ UNCHANGED loc
  /\ UNCHANGED server /\ Local

-----------------------------------------------------------------------------
(* The host creates an agent at most once per key, and sends it the kickoff *)
(* prompt.                                                                  *)

HostCreates ==
  IF agent = "absent"
    THEN /\ agent' = "running" /\ turn' = 1
         /\ delivered' = [delivered EXCEPT ![1] = @ + 1]
         /\ UNCHANGED <<stalled, landedLate, hooks>>
    ELSE UNCHANGED host

\* The create request returns.  It may have reached the host or not; an
\* error may name the outcome unknown (uncertainCreate), and then the
\* request may still be on its way.
CreateReturns ==
  /\ At("queue", "creating")
  /\ \/ HostCreates /\ Goto("queue", "mark")
     \/ \E u \in BOOLEAN :
          /\ GotoWith("queue", "createFailed", With("queue", Flagged(u, "unsure")))
          /\ \/ HostCreates
             \/ UNCHANGED host
             \/ /\ u /\ CreateMayStall
                /\ stalled' = TRUE
                /\ UNCHANGED <<agent, turn, delivered, landedLate, hooks>>
  /\ UNCHANGED <<server, tasks, observed, sendAged, spent>>

\* markAgentCreated.  A fresh start archives the agent it just created if
\* the job was canceled meanwhile; a repeated create leaves that to the
\* next poll.
MarkCreated ==
  /\ At("queue", "mark")
  /\ Update(AgentMarked(rec),
            IF rec.cancelRequested /\ ~Has("queue", "replay")
              THEN GotoWith("queue", "archive", With("queue", {"guarded"}))
              ELSE Finish("queue"),
            Goto("queue", "createFailed"))
  /\ Local

\* handleCreateFailure: the record, then the host is asked for the agent.
CreateFailed ==
  /\ At("queue", "createFailed")
  /\ GotoWith("queue", "createLookup", With("queue", Flagged(rec.cancelRequested, "asked")))
  /\ UNCHANGED server /\ Local

\* providerAgent: whether the host shows the agent.  A lookup that throws
\* counts as not found where the code catches it.
Found == agent # "absent"
Missed == agent = "absent" \/ HostMayFail

CreateLookup ==
  /\ At("queue", "createLookup")
  /\ \/ Found /\ Goto("queue", "claim")
     \/ Missed /\ Goto("queue", IF Has("queue", "asked") THEN "resolve"
                                ELSE IF Has("queue", "unsure") THEN "unsure" ELSE "fail")
  /\ UNCHANGED server /\ Local

CreateUnsure ==
  /\ At("queue", "unsure")
  /\ Update(Uncertain(rec), Finish("queue"), Finish("queue"))
  /\ Local

\* What the queue remembers of the record r while it observes the agent.
Observing(r) ==
  LET n == r.attempt IN
  [loc["queue"] EXCEPT !.att = n,
     !.flag = @ \cup Flagged(n > 0 /\ r.ack[n] = "pending", "pending")
                \cup Flagged(n > 0 /\ r.turnKnown[n], "turnKnown")]

\* claimDiscoveredAgent.
ClaimAgent ==
  /\ At("queue", "claim")
  /\ Update(AgentMarked(rec),
            IF rec.cancelRequested THEN Goto("queue", "archive")
            ELSE IF Has("queue", "resume") THEN GotoWith("queue", "observe", Observing(rec))
            ELSE Finish("queue"),
            Finish("queue"))
  /\ Local

-----------------------------------------------------------------------------
(* Reconcile: what a poll or a turn-ended event makes of the job. *)

\* The first read of the record decides the way.
CancelPending == rec.cancelRequested \/ rec.state = "canceling"
Unclaimed == ~rec.agentCreated /\ rec.creation

\* resumeStarting: a job whose create request was stored is no longer starting.
ResumeStarting == rec.state = "starting" /\ Goto("queue", "start")

ReconcileLive ==
  \/ ResumeStarting
  \/ rec.state = "designing" /\ ~rec.agentCreated /\ Goto("queue", "replayLookup")
  \/ rec.state = "designing" /\ rec.agentCreated /\ GotoWith("queue", "observe", Observing(rec))
  \/ rec.state = "fixing" /\ GotoWith("queue", "recoverSend", Observing(rec))
  \/ rec.state = "needs_continue" /\ Unclaimed /\ Goto("queue", "resumeLookup")
  \/ /\ rec.state \notin Reconciled \cup {"starting"}
     /\ rec.state = "needs_continue" => ~Unclaimed
     /\ Finish("queue")

Reconcile ==
  /\ At("queue", "reconcile")
  /\ \/ IsTerminal(rec) /\ Finish("queue")
     \/ ~IsTerminal(rec) /\ CancelPending /\ Goto("queue", "resolve")
     \/ ~IsTerminal(rec) /\ ~CancelPending /\ ReconcileLive
  /\ UNCHANGED server /\ Local

\* resumeUnconfirmedCreate: nobody recorded how the create ended.  If the
\* host does not show the agent the stored request is sent again, and the
\* job joins the `creating` set without another look at the record.
ReplayLookup ==
  /\ At("queue", "replayLookup")
  /\ \/ Found /\ Goto("queue", "claim")
     \/ /\ Missed
        /\ pc' = [pc EXCEPT !["queue"] = "creating"]
        /\ loc' = [loc EXCEPT !["queue"] = With("queue", {"replay"})]
        /\ creating' = TRUE
  /\ UNCHANGED server /\ Local

ResumeLookup ==
  /\ At("queue", "resumeLookup")
  /\ \/ Found /\ GotoWith("queue", "claim", With("queue", {"resume"}))
     \/ Missed /\ Finish("queue")
  /\ UNCHANGED server /\ Local

\* A bug: a correction that was not acknowledged is never given up.
WaitForEver ==
  /\ At("queue", "recoverSend")
  /\ \/ ~Has("queue", "pending") /\ Finish("queue")
     \/ /\ Has("queue", "pending")
        /\ IF delivered[loc["queue"].att] > 0 THEN Goto("queue", "echoed")
                                             ELSE Goto("queue", "observe")
  /\ UNCHANGED server /\ Local

\* recoverPendingSend: a correction whose send was not acknowledged is
\* looked for in the timeline, and given up after 30 seconds.
RecoverSend ==
  LET echoed == delivered[loc["queue"].att] > 0 IN
  /\ At("queue", "recoverSend")
  /\ \/ ~Has("queue", "pending") /\ Finish("queue")
     \/ /\ Has("queue", "pending")
        /\ \/ echoed /\ Goto("queue", "echoed")
           \/ ~echoed /\ sendAged /\ Goto("queue", "sendTimedOut")
           \/ ~echoed /\ ~sendAged /\ Goto("queue", "observe")
           \/ HostMayFail /\ Finish("queue")
  /\ UNCHANGED server /\ Local

SendEchoed ==
  /\ At("queue", "echoed")
  /\ Update(Echoed(rec, loc["queue"].att), Finish("queue"), Finish("queue"))
  /\ Local

SendTimedOut ==
  /\ At("queue", "sendTimedOut")
  /\ Update(Uncertain(rec), Finish("queue"), Finish("queue"))
  /\ Local

\* reconcileDesignJob reads the record again.  An attempt that is not
\* acknowledged, or uncertain, is looked at but decides nothing.
Observe ==
  LET n == rec.attempt IN
  /\ At("queue", "observe")
  /\ IF IsTerminal(rec) \/ CancelPending \/ n = 0
       THEN Finish("queue")
       ELSE GotoWith("queue", "look",
              [With("queue", Flagged(~rec.outcomeUnknown /\ rec.ack[n] = "acked", "decisive"))
                 EXCEPT !.text = n])
  /\ UNCHANGED server /\ Local

\* Then the agent and its timeline.  An agent in error fails the job, a
\* broken timeline or foreign input parks it, and a finished turn is a
\* candidate, once its host id has been stored.  A running or an invisible
\* agent decides nothing; an archived one is still visible.
Look ==
  LET n == loc["queue"].text
      decisive == Has("queue", "decisive")
  IN
  /\ At("queue", "look")
  /\ \/ (agent \in {"absent", "running"} \/ ~decisive \/ HostMayFail)
        /\ Finish("queue")
     \/ decisive /\ agent \in {"failed", "idle", "archived"} /\ Forget("queue", "fail", 0)
     \/ decisive /\ agent \in {"idle", "archived"} /\ Forget("queue", "park", 0)
     \/ /\ agent \in {"idle", "archived"} /\ delivered[n] > 0
        /\ \/ decisive /\ Goto("queue", "candidate")
           \/ ~Has("queue", "turnKnown") /\ Goto("queue", "learn")
  /\ UNCHANGED server /\ Local

\* The turn's host id is stored in the entry of the attempt read first.
LearnTurn ==
  LET n == loc["queue"].att IN
  /\ At("queue", "learn")
  /\ Update([rec EXCEPT !.turnKnown = [@ EXCEPT ![n] = rec.ack[n] # "none"]],
            IF Has("queue", "decisive")
              THEN GotoWith("queue", "candidate", [loc["queue"] EXCEPT !.att = rec.attempt])
              ELSE Finish("queue"),
            Finish("queue"))
  /\ Local

\* A bug: one correction more than there are attempts.
OneRoundMore ==
  \/ Forget("queue", "park", 0)
  \/ Forget("queue", "fail", 0)
  \/ /\ observed /\ loc["queue"].att \in 1 .. MaxAttempts
     /\ Forget("queue", "correct", loc["queue"].att)

\* handleFailure: what the issues leave to do.  Prompts too long to send and a
\* host without an adapter park the job; a correction is only sent if a hook
\* was seen since the plugin started.
HandleFailure ==
  \/ Forget("queue", "park", 0)
  \/ Forget("queue", "fail", 0)
  \/ /\ observed /\ loc["queue"].att \in 1 .. (MaxAttempts - 1)
     /\ Forget("queue", "correct", loc["queue"].att)

\* processCandidate: the settings are read (unreadable ones park the job) and
\* the output is decoded and validated; an output that belongs to another
\* attempt than the one asked for does not decode.
Candidate ==
  LET l == loc["queue"] IN
  /\ At("queue", "candidate")
  /\ \/ HandleFailure
     \/ l.text = l.att /\ Forget("queue", "ready", l.att)
     \/ l.text = l.att /\ Forget("queue", "gap", l.att)
  /\ UNCHANGED server /\ Local

WriteReady ==
  /\ At("queue", "ready")
  /\ Update(Ready(rec, loc["queue"].att), Finish("queue"), Finish("queue"))
  /\ Local

\* finishWithRoleGap looks at the record it is about to replace.
WriteGap ==
  /\ At("queue", "gap")
  /\ IF rec.state \in Reconciled /\ ~rec.cancelRequested /\ ~rec.gap
       THEN Update(GapReported(rec, loc["queue"].att), Finish("queue"), Finish("queue"))
       ELSE Finish("queue") /\ UNCHANGED server
  /\ Local

\* A bug: the correction repeats the attempt that failed.
SameAttemptAgain ==
  LET n == loc["queue"].att IN
  /\ At("queue", "correct")
  /\ Update(Correcting(rec, n),
            GotoWith("queue", "sending", [loc["queue"] EXCEPT !.att = n]), Finish("queue"))
  /\ sendAged' = FALSE
  /\ UNCHANGED <<tasks, observed, host, spent>>

\* The correction is recorded as pending before it is sent.
WriteCorrection ==
  LET n == loc["queue"].att + 1 IN
  /\ At("queue", "correct")
  /\ Update(Correcting(rec, n),
            GotoWith("queue", "sending", [loc["queue"] EXCEPT !.att = n]), Finish("queue"))
  /\ sendAged' = FALSE
  /\ UNCHANGED <<tasks, observed, host, spent>>

-----------------------------------------------------------------------------
(* Sending a correction, by the queue or by a repair. *)

HostReceives(n) ==
  /\ agent \in {"idle", "running", "failed"}
  /\ agent' = "running" /\ turn' = n
  /\ delivered' = [delivered EXCEPT ![n] = @ + 1]
  /\ UNCHANGED <<stalled, landedLate, hooks>>

\* A bug: a send that throws is taken for one that was received.
SendAssumed(p) ==
  /\ At(p, "sending")
  /\ \/ HostReceives(loc[p].att) /\ Goto(p, "sent")
     \/ UNCHANGED host /\ Goto(p, "sent")
  /\ UNCHANGED <<server, tasks, observed, sendAged, spent>>

\* The send returns.  When it throws the agent may have received it or not.
SendReturns(p) ==
  /\ At(p, "sending")
  /\ \/ HostReceives(loc[p].att) /\ Goto(p, "sent")
     \/ HostReceives(loc[p].att) /\ Goto(p, "sendUnknown")
     \/ UNCHANGED host /\ Goto(p, "sendUnknown")
  /\ UNCHANGED <<server, tasks, observed, sendAged, spent>>

Sent(p) ==
  /\ At(p, "sent")
  /\ Update(Designing(rec, loc[p].att), Finish(p), Goto(p, "sendUnknown"))
  /\ Local

SendUnknown(p) ==
  /\ At(p, "sendUnknown")
  /\ Update(SendUncertain(rec, loc[p].att), Finish(p), Finish(p))
  /\ Local

\* failJob, with either of its two states.
Fail(p) ==
  /\ At(p, "fail")
  /\ Update(Failed(rec), Finish(p), Finish(p))
  /\ Local

Park(p) ==
  /\ At(p, "park")
  /\ Update(Parked(rec), Finish(p), Throw(p))
  /\ Local

-----------------------------------------------------------------------------
(* A turn-ended event (handleTerminalOutcome). *)

\* Whether the record knows the host's id of the turn, and whether the event
\* is of an earlier attempt or of the current one.
Known == rec.turnKnown[rec.attempt]
OfEarlierTurn(ev) == ev.id = "turn" /\ ev.n < rec.attempt /\ rec.turnKnown[ev.n]
OfThisTurn(ev)    == ev.n = rec.attempt /\ (ev.id = "message" \/ (ev.id = "turn" /\ Known))
Unidentified(ev)  == ev.id = "none" \/ (~OfEarlierTurn(ev) /\ ~OfThisTurn(ev) /\ ~Known)

EndTurn(ev) ==
  \/ ev.outcome = "canceled"  /\ Forget("queue", "archive", 0)
  \/ ev.outcome = "failed"    /\ Goto("queue", "turnFailed")
  \/ ev.outcome = "completed" /\ Forget("queue", "reconcile", 0)

\* A bug: the end of any turn is taken for that of the current attempt.
TrustAnyTurn ==
  LET ev == loc["queue"].ev IN
  /\ At("queue", "turn")
  /\ \/ rec.state \notin Reconciled /\ Finish("queue")
     \/ rec.state \in Reconciled /\ ev.id = "none" /\ Forget("queue", "reconcile", 0)
     \/ rec.state \in Reconciled /\ ev.id # "none" /\ EndTurn(ev)
  /\ UNCHANGED server /\ Local

TurnEnded ==
  LET ev == loc["queue"].ev IN
  /\ At("queue", "turn")
  /\ \/ rec.state \notin Reconciled /\ Finish("queue")
     \/ /\ rec.state \in Reconciled
        /\ \/ Unidentified(ev) /\ Forget("queue", "reconcile", 0)
           \/ OfThisTurn(ev) /\ EndTurn(ev)
           \/ ~Unidentified(ev) /\ ~OfThisTurn(ev) /\ Finish("queue")
  /\ UNCHANGED server /\ Local

TurnFailed ==
  /\ At("queue", "turnFailed")
  /\ Update(Failed(rec), Finish("queue"), Finish("queue"))
  /\ Local

-----------------------------------------------------------------------------
(* Cancelling: resolveCancellation and archiveForCancel, run by the cancel *)
(* RPC beside the queue and by the queue's reconcile.                      *)

\* A bug: a cancel does not wait for the create in flight.
ResolveIgnoringCreate(p) ==
  /\ At(p, "resolve")
  /\ \/ IsTerminal(rec) /\ Finish(p)
     \/ ~IsTerminal(rec) /\ rec.agentCreated /\ Goto(p, "archive")
     \/ ~IsTerminal(rec) /\ ~rec.agentCreated
        /\ Goto(p, IF rec.creation THEN "cancelLookup" ELSE "cancelWrite")
  /\ UNCHANGED server /\ Local

\* A create in flight is left alone: the queue settles it when it returns.
Resolve(p) ==
  /\ At(p, "resolve")
  /\ \/ IsTerminal(rec) /\ Finish(p)
     \/ ~IsTerminal(rec) /\ rec.agentCreated /\ Goto(p, "archive")
     \/ ~IsTerminal(rec) /\ ~rec.agentCreated /\ creating /\ Finish(p)
     \/ /\ ~IsTerminal(rec) /\ ~rec.agentCreated /\ ~creating
        /\ Goto(p, IF rec.creation THEN "cancelLookup" ELSE "cancelWrite")
  /\ UNCHANGED server /\ Local

CancelLookup(p) ==
  /\ At(p, "cancelLookup")
  /\ \/ HostMayFail /\ Goto(p, "park")
     \/ agent = "absent" /\ Goto(p, "cancelWrite")
     \/ agent # "absent" /\ Goto(p, "adopt")
  /\ UNCHANGED server /\ Local

\* The agent found on the host is recorded before it is archived.
Adopt(p) ==
  /\ At(p, "adopt")
  /\ Update([rec EXCEPT !.agentCreated = TRUE], Goto(p, "archive"), Finish(p))
  /\ Local

Archive(p) ==
  /\ At(p, "archive")
  /\ \/ IsTerminal(rec) /\ Finish(p)
     \/ ~IsTerminal(rec) /\ Goto(p, IF rec.agentCreated THEN "archiving" ELSE "cancelWrite")
  /\ UNCHANGED server /\ Local

ArchiveReturns(p) ==
  /\ At(p, "archiving")
  /\ \/ /\ agent' = IF agent = "absent" THEN agent ELSE "archived"
        /\ UNCHANGED <<turn, delivered, stalled, landedLate, hooks>>
        /\ Goto(p, "cancelWrite")
     \/ HostMayFail /\ UNCHANGED host /\ Goto(p, "park")
  /\ UNCHANGED <<server, tasks, observed, sendAged, spent>>

CancelWrite(p) ==
  /\ At(p, "cancelWrite")
  /\ Update(Canceled(rec), Finish(p), Throw(p))
  /\ Local

-----------------------------------------------------------------------------
(* The RPCs that do not pass through the queue.  A call that only answers  *)
(* changes nothing, so a call starts when its first read lets it go on.    *)

Call(p, request) ==
  /\ p \in Callers /\ Idle(p)
  /\ calls[request] < MaxCalls[request] /\ calls' = [calls EXCEPT ![request] = @ + 1]
  /\ UNCHANGED <<server, mem, host, sendAged, crashes>>

\* cancel: a job that has ended is only reported.
Cancel(p) ==
  /\ Call(p, "cancel")
  /\ ~IsTerminal(rec)
  /\ pc' = [pc EXCEPT ![p] = "askCancel"]
  /\ UNCHANGED loc

AskCancel(p) ==
  /\ At(p, "askCancel")
  /\ Update(CancelAsked(rec), Goto(p, "resolve"), Finish(p))
  /\ Local

\* continue with action recheck: the frozen result is validated again.
Recheck(p) ==
  /\ Call(p, "recheck")
  /\ ~rec.gap /\ rec.state \in {"needs_continue", "ready"} /\ rec.result > 0
  /\ pc' = [pc EXCEPT ![p] = "recheck"]
  /\ UNCHANGED loc

WriteRecheck(p) ==
  /\ At(p, "recheck")
  /\ \/ Update([rec EXCEPT !.state = "ready"], Finish(p), Finish(p))
     \/ Finish(p) /\ UNCHANGED server     \* it no longer validates
  /\ Local

\* A bug: a repair of a job that is not parked.
RepairAnyTime(p) ==
  /\ Call(p, "repair")
  /\ ~rec.gap /\ rec.agentCreated
  /\ rec.attempt < MaxAttempts /\ rec.ack[rec.attempt + 1] = "none"
  /\ pc' = [pc EXCEPT ![p] = "repairLook"]
  /\ loc' = [loc EXCEPT ![p].att = rec.attempt + 1]

\* continue with action repair: one more round on a parked job, if the
\* agent is idle.  The revision the caller saw is compared here and not
\* again.
Repair(p) ==
  /\ Call(p, "repair")
  /\ ~rec.gap /\ rec.agentCreated /\ rec.state = "needs_continue"
  /\ rec.attempt < MaxAttempts /\ rec.ack[rec.attempt + 1] = "none"
  /\ pc' = [pc EXCEPT ![p] = "repairLook"]
  /\ loc' = [loc EXCEPT ![p].att = rec.attempt + 1]

RepairLook(p) ==
  /\ At(p, "repairLook")
  /\ IF agent = "idle" THEN Goto(p, "repair") ELSE Finish(p)
  /\ UNCHANGED server /\ Local

WriteRepair(p) ==
  /\ At(p, "repair")
  /\ \/ /\ Update([Correcting(rec, loc[p].att) EXCEPT !.outcomeUnknown = FALSE],
                  Goto(p, "sending"), Finish(p))
        /\ sendAged' = FALSE
     \/ Finish(p) /\ UNCHANGED <<server, sendAged>>   \* settings unreadable, prompt too long
  /\ UNCHANGED <<tasks, observed, host, spent>>

-----------------------------------------------------------------------------
(* The queue, the polls, the hook, the host, time, and restarts. *)

RunTask ==
  /\ Idle("queue") /\ tasks # << >>
  /\ pc' = [pc EXCEPT !["queue"] = Head(tasks).kind]
  /\ loc' = [loc EXCEPT !["queue"] = [NoLocals EXCEPT !.task = Head(tasks).kind,
                                                      !.ev = Head(tasks).ev]]
  /\ tasks' = Tail(tasks)
  /\ UNCHANGED <<server, creating, observed, host, sendAged, spent>>

\* status, called by the page: a job that needs it gets a reconcile task,
\* unless a coalesced task is already queued or running.
Poll ==
  /\ NeedsReconcile(rec) /\ ~PendingTask
  /\ tasks' = Append(tasks, [kind |-> "reconcile", ev |-> NoEvent])
  /\ UNCHANGED <<server, creating, observed, pc, loc, host, sendAged, spent>>

\* onTurnEnded: never coalesced.
HookArrives ==
  /\ \E e \in hooks, id \in {"none", "turn", "message"} :
       /\ hooks' = hooks \ {e}
       /\ tasks' = Append(tasks, [kind |-> "turn",
                                  ev |-> [n |-> e.n, id |-> id, outcome |-> e.outcome]])
  /\ observed' = TRUE
  /\ UNCHANGED <<server, creating, pc, loc, agent, turn, delivered, stalled,
                 landedLate, sendAged, spent>>

\* The agent's turn ends, and the host emits an event for it.
TurnEnds ==
  /\ agent = "running"
  /\ \E e \in Endings :
       /\ e.n = turn
       /\ agent' \in IF e.outcome = "failed" THEN {"failed", "idle"} ELSE {"idle"}
       /\ hooks' = hooks \cup {e}
  /\ UNCHANGED <<server, mem, pc, loc, turn, delivered, stalled, landedLate,
                 sendAged, spent>>

CreateLands ==
  /\ stalled /\ stalled' = FALSE
  /\ IF agent = "absent"
       THEN /\ agent' = "running" /\ turn' = 1 /\ landedLate' = TRUE
            /\ delivered' = [delivered EXCEPT ![1] = @ + 1]
       ELSE UNCHANGED <<agent, turn, delivered, landedLate>>
  /\ UNCHANGED <<server, mem, pc, loc, hooks, sendAged, spent>>

SendAges ==
  /\ ~sendAged /\ rec.state = "fixing" /\ sendAged' = TRUE
  /\ UNCHANGED <<server, mem, pc, loc, host, spent>>

\* The plugin is reloaded or its process dies: only the record survives.
\* A request that was being sent may still reach the host, now or, for a
\* create, later.
Restart ==
  /\ crashes < MaxCrashes /\ crashes' = crashes + 1
  /\ tasks' = << >> /\ creating' = FALSE /\ observed' = FALSE
  /\ pc' = [p \in Procs |-> "idle"] /\ loc' = [p \in Procs |-> NoLocals]
  /\ \/ UNCHANGED host
     \/ At("queue", "creating") /\ HostCreates
     \/ /\ At("queue", "creating") /\ CreateMayStall /\ stalled' = TRUE
        /\ UNCHANGED <<agent, turn, delivered, landedLate, hooks>>
     \/ \E p \in Procs : At(p, "sending") /\ HostReceives(loc[p].att)
     \/ /\ \E p \in Procs : At(p, "archiving")
        /\ agent' = "archived" /\ UNCHANGED <<turn, delivered, stalled, landedLate, hooks>>
  /\ UNCHANGED <<server, sendAged, calls>>

-----------------------------------------------------------------------------
(* The specification. *)

\* start has stored the record and queued the first task.
Init ==
  /\ rec = NewRecord
  /\ tasks = << [kind |-> "start", ev |-> NoEvent] >>
  /\ creating = FALSE /\ observed = FALSE
  /\ pc = [p \in Procs |-> "idle"] /\ loc = [p \in Procs |-> NoLocals]
  /\ agent = "absent" /\ turn = 0 /\ delivered = [n \in Attempts |-> 0]
  /\ stalled = FALSE /\ landedLate = FALSE /\ hooks = {} /\ sendAged = FALSE
  /\ calls = [cancel |-> 0, recheck |-> 0, repair |-> 0] /\ crashes = 0 /\ faults = 0

StartStep ==
  StartRun \/ BeforeIntent \/ WriteIntent \/ AfterIntent \/ CreateReturns
  \/ MarkCreated \/ CreateFailed \/ CreateLookup \/ CreateUnsure \/ ClaimAgent

ReconcileStep ==
  Reconcile \/ ReplayLookup \/ ResumeLookup \/ RecoverSend \/ SendEchoed
  \/ SendTimedOut \/ Observe \/ Look \/ LearnTurn \/ Candidate \/ WriteReady
  \/ WriteGap \/ WriteCorrection \/ TurnEnded \/ TurnFailed

SharedStep(p) ==
  SendReturns(p) \/ Sent(p) \/ SendUnknown(p) \/ Fail(p) \/ Park(p)
  \/ Resolve(p) \/ CancelLookup(p) \/ Adopt(p) \/ Archive(p)
  \/ ArchiveReturns(p) \/ CancelWrite(p)

CallerStep(p) == AskCancel(p) \/ WriteRecheck(p) \/ RepairLook(p) \/ WriteRepair(p)

QueueStep == RunTask \/ StartStep \/ ReconcileStep \/ SharedStep("queue")

Request(p) == Cancel(p) \/ Recheck(p) \/ Repair(p)

Next ==
  \/ QueueStep
  \/ \E p \in Callers : Request(p) \/ CallerStep(p) \/ SharedStep(p)
  \/ Poll \/ HookArrives \/ TurnEnds \/ CreateLands \/ SendAges \/ Restart

\* A promise that is settled runs its continuation, the page polls while a
\* job is listed as working, an agent's turn ends, a lost create lands and
\* clocks move.  Users, hooks and restarts are not fair.
Fairness ==
  /\ WF_vars(QueueStep)
  /\ \A p \in Callers : WF_vars(CallerStep(p) \/ SharedStep(p))
  /\ WF_vars(Poll) /\ WF_vars(TurnEnds) /\ WF_vars(CreateLands) /\ WF_vars(SendAges)

Spec == Init /\ [][Next]_vars /\ Fairness

-----------------------------------------------------------------------------
(* Safety. *)

\* The prompt of an attempt reaches the agent at most once, whatever is
\* repeated after a restart, a lost acknowledgement or a repair: a job never
\* spends more rounds than it has attempts (handleFailure,
\* resumeUnconfirmedCreate, recoverPendingSend, continue).
EachAttemptPromptedOnce == \A n \in Attempts : delivered[n] <= 1

\* The record says that an attempt was received only if the agent received
\* its prompt: an acknowledgement is never guessed from a send or a create
\* that failed (handleFailure, markAgentCreated, recoverPendingSend).
AckedMeansReceived == \A n \in Attempts : rec.ack[n] = "acked" => delivered[n] > 0

\* The result a ready job offers is that of the last prompt the agent was
\* given: no repair and no correction overtakes the round whose output is
\* being validated (processCandidate, continue).
ReadyIsLatest == rec.state = "ready" => rec.result = turn

\* No agent is left alive on the host when its job has been canceled, unless
\* a create request arrives that had been given up for lost
\* (resolveCancellation, archiveForCancel, runStart).
AgentLives == agent \in {"running", "idle", "failed"}
NoOrphanAgent == rec.state = "canceled" /\ AgentLives => landedLate

\* Once a job has ended its agent receives no prompt any more: neither a
\* create nor a correction is sent by a task or an RPC that had looked at the
\* record before (runStart, handleFailure, continue).
EndedIsQuiet ==
  [][IsTerminal(rec) /\ delivered' # delivered => landedLate']_vars

\* The end of a turn fails or cancels a job only if that turn is the current
\* attempt's, when the event is read and when its effect is stored: the
\* event of an earlier turn, delivered late, ends nothing
\* (handleTerminalOutcome).
EndedByTurn ==
  \/ At("queue", "turn") /\ pc'["queue"] \in {"turnFailed", "archive"}
  \/ At("queue", "turnFailed") /\ rec' # rec
LateTurnEndsNothing == [][EndedByTurn => loc["queue"].ev.n = rec.attempt]_vars

(* Liveness. *)

\* A cancel that was recorded ends the job: the create in flight, the queue
\* and the poll settle what the cancel itself had to leave (cancel,
\* resolveCancellation, status).  A restart is excepted: it may end the call
\* that archives the agent of a job the queue has parked, and no poll looks at a
\* parked job.
CancelCompletes == rec.cancelRequested ~> IsTerminal(rec) \/ crashes > 0

\* A job never works for ever: with the page open it ends up ended, ready or
\* waiting for the user, whatever answer of the host was lost (status,
\* reconcile, recoverPendingSend).
Working == rec.state \in Reconciled \cup {"starting", "canceling"}
Settles == Working ~> ~Working
=============================================================================
