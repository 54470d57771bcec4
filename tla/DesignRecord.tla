------------------------------ MODULE DesignRecord ------------------------------
(***************************************************************************)
(* The stored design job (StoredDesignJob in server/designer/store.ts) and *)
(* what the job store accepts as an update of it.                          *)
(*                                                                         *)
(* The record keeps what decides the control flow of the designer service: *)
(* names, prompts, timestamps and issue lists are left out, the three      *)
(* attempt entries are functions of the attempt number, and a result is    *)
(* named by the attempt whose output it was made of.                       *)
(***************************************************************************)
EXTENDS Naturals

CONSTANT MaxAttempts       \* model rounds a job may spend: 3 in the code

ASSUME MaxAttemptsAssumption == MaxAttempts \in Nat \ {0}

Attempts == 1 .. MaxAttempts

Terminal    == {"saved", "failed", "canceled"}
Reconciled  == {"designing", "fixing"}
JobStates   == Terminal \cup Reconciled \cup
                 {"starting", "ready", "saving", "needs_continue",
                  "save_conflict", "canceling"}

\* "none": no entry of the attempts array has this number.
Acks == {"none", "pending", "acked", "unknown"}

Records ==
  [state           : JobStates,
   attempt         : 0 .. MaxAttempts,
   agentCreated    : BOOLEAN,
   cancelRequested : BOOLEAN,
   creation        : BOOLEAN,                \* creation # null
   ack             : [Attempts -> Acks],
   turnKnown       : [Attempts -> BOOLEAN],  \* the entry's turnId # null
   outcomeUnknown  : BOOLEAN,
   result          : 0 .. MaxAttempts,       \* 0: result = null
   gap             : BOOLEAN]                \* roleGap # null

\* What start stores before it queues the job's first task.
NewRecord ==
  [state           |-> "starting",
   attempt         |-> 0,
   agentCreated    |-> FALSE,
   cancelRequested |-> FALSE,
   creation        |-> FALSE,
   ack             |-> [n \in Attempts |-> "none"],
   turnKnown       |-> [n \in Attempts |-> FALSE],
   outcomeUnknown  |-> FALSE,
   result          |-> 0,
   gap             |-> FALSE]

IsTerminal(r) == r.state \in Terminal

CancelingRests(r) ==
  \/ r.state \in Reconciled \cup {"starting"}
  \/ r.state = "needs_continue" /\ ~r.agentCreated /\ r.creation

\* The record asks for a reconcile pass when a status call sees it.
NeedsReconcile(r) ==
  \/ r.state \in Reconciled \cup {"starting", "canceling"}
  \/ r.state = "needs_continue" /\ ~r.agentCreated /\ r.creation

\* A gap is only legal on a job that failed without a result.
RulesConsistent(r) == r.gap => r.state = "failed" /\ r.result = 0

\* The guards of the store's update: a terminal job stays terminal (which
\* of the three it is may change), a reported gap stays, and the record
\* written is consistent.
Accepts(old, new) ==
  /\ IsTerminal(old) => IsTerminal(new)
  /\ old.gap => new.gap
  /\ RulesConsistent(new)

-----------------------------------------------------------------------------
(* The changes the service makes to a record. *)

Failed(r)      == [r EXCEPT !.state = "failed"]
Parked(r)      == [r EXCEPT !.state = "needs_continue"]
Uncertain(r)   == [Parked(r) EXCEPT !.outcomeUnknown = TRUE]
CancelAsked(r) == [r EXCEPT !.state = "canceling", !.cancelRequested = TRUE]
Canceled(r)    == [r EXCEPT !.state = "canceled", !.cancelRequested = TRUE]

\* The entry of attempt n, if there is one, gets the acknowledgement a.
Acked(r, n, a) ==
  [r EXCEPT !.ack[n] = IF @ = "none" THEN @ ELSE a]

\* A prompt for attempt n is about to be sent: a fresh pending entry.
Pending(r, n) ==
  [r EXCEPT !.ack = [@ EXCEPT ![n] = "pending"],
            !.turnKnown = [@ EXCEPT ![n] = FALSE],
            !.attempt = n]

Intended(r) ==
  [Pending(r, 1) EXCEPT !.state = "designing",
                        !.creation = TRUE,
                        !.ack = [n \in Attempts |-> IF n = 1 THEN "pending" ELSE "none"],
                        !.turnKnown = [n \in Attempts |-> FALSE]]

Correcting(r, n) == [Pending(r, n) EXCEPT !.state = "fixing"]

Designing(r, n) == [Acked(r, n, "acked") EXCEPT !.state = "designing"]

\* The prompt of attempt n was found in the agent's timeline.
Echoed(r, n) ==
  [Acked(r, n, "acked") EXCEPT !.state = IF @ = "fixing" THEN "designing" ELSE @]

SendUncertain(r, n) == Uncertain(Acked(r, n, "unknown"))

\* The agent exists: the prompt of the current attempt has been received.
AgentMarked(r) ==
  [r EXCEPT !.agentCreated = TRUE,
            !.state = IF r.cancelRequested THEN "canceling" ELSE "designing",
            !.ack = [n \in Attempts |->
                       IF n = r.attempt /\ r.ack[n] = "pending" THEN "acked" ELSE r.ack[n]]]

Ready(r, n) == [r EXCEPT !.state = "ready", !.result = n, !.attempt = n]

GapReported(r, n) ==
  [r EXCEPT !.state = "failed", !.gap = TRUE, !.result = 0, !.attempt = n]
=============================================================================
