------------------------------- MODULE DesignSave -------------------------------
(***************************************************************************)
(* Saving a ready design: the page writes its Role, then its Team, into    *)
(* two settings documents that each have a revision                        *)
(* (client/designer/design-save-service.ts), under a lease of the job's    *)
(* record that the service gives out and takes back (prepareSave,          *)
(* markSaved and saveFailed in server/designer/service.ts).  A save that   *)
(* got no further than the Role is compensated: the Role is removed again. *)
(*                                                                         *)
(* Several pages may be open, users edit the documents meanwhile, and the  *)
(* user may cancel.  pc[p] is the await at which the run of page p or the  *)
(* RPC it waits for is suspended.  The design has one new Role; the rows   *)
(* of the documents that are not its own only matter by their revision.    *)
(***************************************************************************)
EXTENDS Naturals, FiniteSets

CONSTANTS
  Pages,            \* open pages: each has a client id and its own memory
  Edits,            \* what users do to the documents, a subset of AllEdits
  LateWrites,       \* the writes that may land after their time-out
  MaxSteps,         \* turns of a run's loop: 16 in the code
  MaxConflicts,     \* conflicts a phase may meet: 3 in the code
  MaxLeaseTries,    \* leases that may be stale on arrival: 3 in the code
  MaxRuns, MaxEdits, MaxCancels, MaxFaults,       \* bounds
  MaxTroubles,      \* bound: edits, cancels and faults together
  MaxTroublesTogether \* the same if more than one page is open

AllEdits == {"edit", "refer", "unrefer", "dropRole", "dropTeam", "other"}
Writes   == {"addRole", "addTeam", "removeRole"}

ASSUME DesignSaveAssumption ==
  /\ Edits \subseteq AllEdits /\ LateWrites \subseteq Writes
  /\ MaxSteps \in Nat \ {0} /\ MaxConflicts \in Nat \ {0}
  /\ MaxLeaseTries \in Nat \ {0} /\ MaxRuns \in Nat \ {0}
  /\ MaxEdits \in Nat /\ MaxCancels \in Nat /\ MaxFaults \in Nat
  /\ MaxTroubles \in Nat /\ MaxTroublesTogether \in Nat

VARIABLES
  job,        \* the stored record
  roles,      \* the Roles document: the design's rows, and its revision
  teams,      \* the Teams document; another Team may refer to the Role
  inflight,   \* writes that timed out and may still land
  pc, loc,    \* where each page is, and its local variables
  doubts,     \* pages that remember a write of unknown outcome
  told,       \* what the last run told the user of the page
  canceler,   \* the cancel RPC
  removed,    \* a user has removed a row of the design
  overlapped, \* history: two pages were given a lease while both ran
  spent       \* how much of each bound is spent

docs    == <<roles, teams>>
control == <<pc, loc, told>>
vars    == <<job, docs, inflight, control, doubts, canceler, removed, overlapped, spent>>

-----------------------------------------------------------------------------
(* Types. *)

Runs    == 1 .. MaxRuns
NoLease == <<>>
Leases  == Pages \X Runs      \* the client id and the lease id
Revs    == Nat

Terminal == {"saved", "canceled"}

Jobs ==
  [state       : Terminal \cup {"ready", "saving", "save_conflict", "canceling", "needs_continue"},
   cancelRequested : BOOLEAN,
   saveState   : {"none", "roles-only", "unknown", "committed"},
   needsCleanup : BOOLEAN,
   outcomeUnknown : BOOLEAN,
   lease       : Leases \cup {NoLease},
   leaseLive   : BOOLEAN]         \* saveLeaseExpiresAt lies in the future

RolesDocs == [rows : Nat, edited : BOOLEAN, rev : Revs]
TeamsDocs == [rows : Nat, refs : BOOLEAN, rev : Revs]

Labels ==
  {"closed", "idle", "prepare", "context", "lease", "fresh", "writeRole",
   "writeTeam", "settle", "mark", "markContext", "marking", "clearing", "readBack",
   "report", "reporting", "remove", "after", "restore"}

\* leased    prepareSave has told the run its lease
\* aborted   the page's abort signal
\* committed the run's Role write was saved
\* may       what the record read first says about the request
\* canceled  prepareSave compensates a canceled job; saveFailed ends one
\* second    the receipt is sent a second time
\* receipt   the run only records a receipt
\* unsure    the record said that the outcome was unknown
Flags == {"leased", "aborted", "committed", "may", "canceled", "second", "receipt", "unsure"}

Reasons == {"none", "conflict-exhausted", "write-failed", "unknown", "compensated",
            "partial", "canceled"}

Locals ==
  [kind : {"none", "save", "clean"}, run : 0 .. MaxRuns, flag : SUBSET Flags,
   steps : 0 .. MaxSteps, stale : 0 .. MaxLeaseTries,
   conflicts : [{"role", "team"} -> 0 .. MaxConflicts],
   base : [roles : Revs, teams : Revs],
   seen : [roles : RolesDocs, teams : TeamsDocs],
   phase : {"role", "team"}, reason : Reasons]

NoDocs == [roles |-> [rows |-> 0, edited |-> FALSE, rev |-> 0],
           teams |-> [rows |-> 0, refs |-> FALSE, rev |-> 0]]

NoLocals ==
  [kind |-> "none", run |-> 0, flag |-> {}, steps |-> 0, stale |-> 0,
   conflicts |-> [d \in {"role", "team"} |-> 0], base |-> [roles |-> 0, teams |-> 0],
   seen |-> NoDocs, phase |-> "role", reason |-> "none"]

Bounds == [runs |-> MaxRuns, edits |-> MaxEdits, cancels |-> MaxCancels,
           faults |-> MaxFaults]

TypeOK ==
  /\ job \in Jobs /\ roles \in RolesDocs /\ teams \in TeamsDocs
  /\ inflight \subseteq [op : Writes, rev : Revs]
  /\ pc \in [Pages -> Labels] /\ loc \in [Pages -> Locals]
  /\ doubts \subseteq Pages
  /\ told \in [Pages -> {"nothing", "saved"}]
  /\ canceler \in {"idle", "asked", "archiving"}
  /\ removed \in BOOLEAN /\ overlapped \in BOOLEAN
  /\ DOMAIN spent = DOMAIN Bounds
  /\ \A b \in DOMAIN Bounds : spent[b] \in 0 .. Bounds[b]

-----------------------------------------------------------------------------
(* Control. *)

At(p, l) == pc[p] = l
Is(p, f) == f \in loc[p].flag

\* What the next step does not use is forgotten.
Kept(l, local) ==
  [local EXCEPT
     !.base   = IF l \in {"lease", "fresh"} THEN @ ELSE NoLocals.base,
     !.seen   = IF l \in {"writeRole", "writeTeam", "remove", "restore", "clearing"}
                  THEN @ ELSE NoDocs,
     !.phase  = IF l = "settle" THEN @ ELSE "role",
     !.reason = IF l \in {"settle", "report", "reporting", "after"} THEN @ ELSE "none"]

Goto(p, l, local) ==
  /\ pc' = [pc EXCEPT ![p] = l]
  /\ loc' = [loc EXCEPT ![p] = Kept(l, local)]
  /\ UNCHANGED told

\* The run returns and tells the user what became of it.
Return(p, outcome) ==
  /\ pc' = [pc EXCEPT ![p] = "idle"] /\ loc' = [loc EXCEPT ![p] = NoLocals]
  /\ told' = [told EXCEPT ![p] = outcome]

OnePage == \A p, q \in Pages : p # q => At(p, "closed") \/ At(q, "closed")

Spend(b) ==
  /\ spent[b] < Bounds[b]
  /\ b # "runs" => spent.edits + spent.cancels + spent.faults
                     < IF OnePage THEN MaxTroubles ELSE MaxTroublesTogether
  /\ spent' = [spent EXCEPT ![b] = @ + 1]

\* A read, a request or an answer is lost, fails or times out.
Fault == Spend("faults")

With(p, f)    == [loc[p] EXCEPT !.flag = @ \cup f]
Without(p, f) == [loc[p] EXCEPT !.flag = @ \ f]
Flagged(cond, f) == IF cond THEN {f} ELSE {}

\* What an RPC or a read leaves alone.
OnServer == UNCHANGED <<docs, inflight, doubts, canceler, removed, overlapped>>
OnPage   == OnServer /\ UNCHANGED job

\* updateRecord: the store refuses to make an ended job work again.
Accepts(new) == job.state \in Terminal => new.state \in Terminal
Update(new, ok, thrown) ==
  \/ Accepts(new) /\ job' = new /\ ok
  \/ ~Accepts(new) /\ UNCHANGED job /\ thrown

\* saveFailed is called if the run has a lease.
ReportWith(p, local, reason) ==
  IF "leased" \in local.flag
    THEN Goto(p, "report", [local EXCEPT !.reason = reason])
    ELSE Return(p, "nothing")
Report(p, reason) == ReportWith(p, loc[p], reason)

\* A save that cannot go on: after its Role was written it says so.
GiveUpWith(p, local, reason) ==
  IF local.kind = "save" /\ "committed" \in local.flag
    THEN ReportWith(p, local, reason)
    ELSE Return(p, "nothing")
GiveUp(p, reason) == GiveUpWith(p, loc[p], reason)

\* Mutant of Turn: the loop counts its turns and has no limit.
TurnForEver(p, local) ==
  IF "aborted" \in local.flag
    THEN GiveUpWith(p, local, "canceled")
    ELSE Goto(p, "prepare", [local EXCEPT !.steps = @ + 1])

\* The next turn of the loop, unless the run was aborted or has had enough.
Turn(p, local) ==
  IF local.steps = MaxSteps THEN GiveUpWith(p, local, "unknown")
  ELSE IF "aborted" \in local.flag THEN GiveUpWith(p, local, "canceled")
  ELSE Goto(p, "prepare", [local EXCEPT !.steps = @ + 1])

\* A phase gives up after MaxConflicts conflicts.
Conflict(p, phase, gaveUp) ==
  LET n == loc[p].conflicts[phase] + 1 IN
  IF n >= MaxConflicts THEN gaveUp
                       ELSE Turn(p, [loc[p] EXCEPT !.conflicts[phase] = n])

\* A lease that the page's clock says has expired is asked for again.
Stale(p, local) ==
  LET n == local.stale + 1 IN
  IF n >= MaxLeaseTries THEN GiveUpWith(p, local, "partial")
                        ELSE Turn(p, [local EXCEPT !.stale = n])

-----------------------------------------------------------------------------
(* The documents. *)

Snapshot == [roles |-> roles, teams |-> teams]
Revisions(d) == [roles |-> d.roles.rev, teams |-> d.teams.rev]

\* Mutant of Check: one of the two is enough.
CheckEither(d) ==
  IF d.teams.rows > 1 THEN "conflict"
  ELSE IF d.teams.rows = 1 \/ d.roles.rows > 0 THEN "committed"
  ELSE "none"

\* verifySavedDesign: what of the design the documents hold.
Check(d) ==
  CASE d.teams.rows > 1 -> "conflict"
    [] d.teams.rows = 1 /\ d.roles.rows > 0 -> "committed"
    [] d.teams.rows = 1 /\ d.roles.rows = 0 -> "conflict"
    [] d.teams.rows = 0 /\ d.roles.rows > 0 -> "roles-only"
    [] OTHER -> "none"

\* A Team refers to the Role (referencedRoleIds).
Referenced(d) == d.teams.refs \/ d.teams.rows > 0

\* Mutant of Removable: an edited Role is not recognised.
RemovableEdited(d) == d.roles.rows > 0 /\ ~Referenced(d)

\* planDesignCompensation: the Role is the job's own, unedited and unused.
Removable(d) == d.roles.rows > 0 /\ ~d.roles.edited /\ ~Referenced(d)

\* Mutant of Merge: a Team of an earlier run is not looked for.
MergeAgain(base, d) ==
  IF Revisions(d) # base THEN "conflict"
  ELSE IF d.roles.edited THEN "blocked"
  ELSE IF d.roles.rows = 0 THEN "writeRole"
  ELSE "writeTeam"

\* mergeDesign: what a save does next, from documents of the base revision.
Merge(base, d) ==
  IF Revisions(d) # base THEN "conflict"
  ELSE IF d.roles.edited \/ d.teams.rows > 1 THEN "blocked"
  ELSE IF d.roles.rows = 0 THEN "writeRole"
  ELSE IF d.teams.rows = 0 THEN "writeTeam"
  ELSE "already-saved"

Document(op) == IF op = "addTeam" THEN teams ELSE roles

\* The settings accept a write made of their current revision.
Fits(op, rev) == Document(op).rev = rev

Apply(op) ==
  CASE op = "addRole" ->
         roles' = [roles EXCEPT !.rows = @ + 1, !.rev = @ + 1] /\ UNCHANGED teams
    [] op = "removeRole" ->
         /\ roles' = [roles EXCEPT !.rows = 0, !.edited = FALSE, !.rev = @ + 1]
         /\ UNCHANGED teams
    [] op = "addTeam" ->
         teams' = [teams EXCEPT !.rows = @ + 1, !.rev = @ + 1] /\ UNCHANGED roles

\* A write is saved, refused for its revision or as invalid, or fails: then
\* it has landed, has not, or may still land.
Write(op, rev, saved, conflict, invalid, failed) ==
  \/ Fits(op, rev) /\ Apply(op) /\ saved /\ UNCHANGED <<inflight, spent>>
  \/ ~Fits(op, rev) /\ UNCHANGED docs /\ conflict /\ UNCHANGED <<inflight, spent>>
  \/ Fault /\ invalid /\ UNCHANGED <<docs, inflight>>
  \/ /\ Fault /\ failed
     /\ \/ Fits(op, rev) /\ Apply(op) /\ UNCHANGED inflight
        \/ UNCHANGED <<docs, inflight>>
        \/ /\ op \in LateWrites
           /\ inflight' = inflight \cup {[op |-> op, rev |-> rev]}
           /\ UNCHANGED docs

Lands ==
  \E w \in inflight :
    /\ inflight' = inflight \ {w}
    /\ IF Fits(w.op, w.rev) THEN Apply(w.op) ELSE UNCHANGED docs
    /\ UNCHANGED <<job, control, doubts, canceler, removed, overlapped, spent>>

-----------------------------------------------------------------------------
(* A run starts, loops and is left. *)

\* The page runs one save or one compensation of the job at a time, and no
\* compensation while it remembers a write of unknown outcome.
Start(p) ==
  /\ At(p, "idle") /\ Spend("runs")
  /\ \E kind \in {"save", "clean"} :
       /\ kind = "clean" => p \notin doubts /\ job.needsCleanup
       /\ Turn(p, [NoLocals EXCEPT !.kind = kind, !.run = spent.runs + 1])
  /\ OnPage

-----------------------------------------------------------------------------
(* prepareSave: the record is read, then the settings, then the lease is    *)
(* written.                                                                 *)

OtherLease(p) == job.lease # NoLease /\ job.lease # <<p, loc[p].run>>

LeaseValid == job.lease # NoLease /\ job.leaseLive

\* A canceled job may still be compensated.
Compensates(p) == loc[p].kind = "clean" /\ job.state = "canceled"

Saveable(p) ==
  \/ job.state \in {"ready", "save_conflict"}
  \/ job.state = "saving" /\ job.lease # NoLease /\ job.lease[1] = p

\* The checks on the record before the settings are read.
Refused(p) ==
  \/ ~Compensates(p) /\ (job.cancelRequested \/ job.state = "canceling")
  \/ loc[p].kind = "clean" /\ LeaseValid
  \/ job.state = "saving" /\ LeaseValid /\ job.lease[1] # p
  \/ ~Compensates(p) /\ ~Saveable(p)
  \/ Is(p, "leased") /\ OtherLease(p)

\* The checks on the same record after they were read.
MayGoOn(p) ==
  loc[p].kind = "clean" =>
    /\ job.needsCleanup \/ job.state = "save_conflict"
    /\ ~job.outcomeUnknown /\ job.saveState # "unknown"

Prepare(p) ==
  /\ At(p, "prepare")
  /\ \/ /\ UNCHANGED spent
        /\ IF job.state = "saved"
             THEN IF loc[p].kind = "save"
                    THEN Goto(p, "mark", [With(p, {"receipt"}) EXCEPT !.flag = @ \ {"leased"}])
                    ELSE Return(p, "nothing")
             ELSE IF Refused(p) THEN GiveUp(p, "partial")
             ELSE Goto(p, "context",
                       With(p, Flagged(MayGoOn(p), "may") \cup Flagged(Compensates(p), "canceled")))
     \/ Fault /\ GiveUp(p, "partial")
  /\ OnPage

\* The settings are read and the result is validated again, which it may
\* only fail once users have edited them.
PrepareContext(p) ==
  /\ At(p, "context")
  /\ \/ /\ Is(p, "may") /\ (Is(p, "canceled") => roles.rows > 0)
        /\ Goto(p, "lease", [Without(p, {"may"}) EXCEPT !.base = Revisions(Snapshot)])
        /\ UNCHANGED <<job, spent>>
     \/ /\ ~Is(p, "may") \/ (Is(p, "canceled") /\ roles.rows = 0)
        /\ GiveUp(p, "partial") /\ UNCHANGED <<job, spent>>
     \/ /\ spent.edits > 0 /\ GiveUp(p, "partial")
        /\ IF Is(p, "canceled") THEN UNCHANGED job
           ELSE Update([job EXCEPT !.state = "needs_continue"], TRUE, TRUE)
        /\ UNCHANGED spent
     \/ Fault /\ GiveUp(p, "partial") /\ UNCHANGED job
  /\ OnServer

\* The lease is written on the record as it is now.  The page goes on with
\* it, unless it remembers a write of unknown outcome and would compensate, or
\* finds the lease expired.
PrepareLease(p) ==
  LET local == [With(p, {"leased"}) EXCEPT !.flag = @ \ {"canceled"}] IN
  /\ At(p, "lease")
  /\ Update([job EXCEPT !.state = IF Is(p, "canceled") THEN @ ELSE "saving",
                        !.lease = <<p, loc[p].run>>, !.leaseLive = TRUE],
            \/ /\ UNCHANGED spent
               /\ IF loc[p].kind = "clean" /\ p \in doubts
                    THEN Return(p, "nothing")
                    ELSE Stale(p, local) \/ Goto(p, "fresh", [local EXCEPT !.stale = 0])
            \/ Fault /\ GiveUp(p, "partial"),
            GiveUp(p, "partial") /\ UNCHANGED spent)
  /\ overlapped' = (overlapped \/ \E q \in Pages \ {p} : Is(q, "leased"))
  /\ UNCHANGED <<docs, inflight, doubts, canceler, removed>>

-----------------------------------------------------------------------------
(* saveDesign: fresh documents, the Role, then the Team. *)

Fresh(p) ==
  /\ At(p, "fresh")
  /\ \/ Fault /\ GiveUp(p, "partial")
     \/ /\ UNCHANGED spent
        /\ LET local == [loc[p] EXCEPT !.seen = Snapshot]
               phase == IF Is(p, "committed") THEN "team" ELSE "role"
               next  == Merge(loc[p].base, Snapshot)
           IN IF loc[p].kind = "save"
              THEN CASE next = "conflict"      -> Conflict(p, phase, Report(p, "conflict-exhausted"))
                     [] next = "blocked"       -> GiveUp(p, "partial")
                     [] next = "already-saved" -> Goto(p, "mark", local)
                     [] OTHER                  -> Goto(p, next, local)
              ELSE IF next = "conflict" THEN Conflict(p, phase, Return(p, "nothing"))
              ELSE IF Check(Snapshot) \in {"committed", "conflict"} THEN Return(p, "nothing")
              ELSE IF Removable(Snapshot) THEN Goto(p, "remove", local)
              ELSE IF roles.rows = 0 THEN Report(p, "compensated")
              ELSE Return(p, "nothing")
  /\ OnPage

\* A run that was aborted, or whose lease has expired meanwhile, does not
\* write.
Hesitates(p) ==
  /\ IF Is(p, "aborted") THEN GiveUp(p, "canceled") ELSE Turn(p, loc[p])
  /\ UNCHANGED <<docs, inflight, spent, doubts>>

Unsettled(p, phase, reason) ==
  Goto(p, "settle", [loc[p] EXCEPT !.phase = phase, !.reason = reason])

WriteRole(p) ==
  /\ At(p, "writeRole")
  /\ \/ Hesitates(p)
     \/ /\ ~Is(p, "aborted")
        /\ Write("addRole", loc[p].seen.roles.rev,
                 Turn(p, With(p, {"committed"})) /\ UNCHANGED doubts,
                 Conflict(p, "role", Report(p, "conflict-exhausted")) /\ UNCHANGED doubts,
                 Unsettled(p, "role", "write-failed") /\ UNCHANGED doubts,
                 Unsettled(p, "role", "unknown") /\ doubts' = doubts \cup {p})
  /\ UNCHANGED <<job, canceler, removed, overlapped>>

WriteTeam(p) ==
  /\ At(p, "writeTeam")
  /\ \/ Hesitates(p)
     \/ /\ ~Is(p, "aborted")
        /\ Write("addTeam", loc[p].seen.teams.rev,
                 Goto(p, "mark", loc[p]) /\ UNCHANGED doubts,
                 Conflict(p, "team", Report(p, "conflict-exhausted")) /\ UNCHANGED doubts,
                 Unsettled(p, "team", "write-failed") /\ UNCHANGED doubts,
                 Unsettled(p, "team", "unknown") /\ doubts' = doubts \cup {p})
  /\ UNCHANGED <<job, canceler, removed, overlapped>>

\* A write that was refused as invalid or failed is read back (settleUnknown).
Settle(p) ==
  /\ At(p, "settle")
  /\ \/ /\ UNCHANGED spent
        /\ IF Check(Snapshot) = "committed" THEN Goto(p, "mark", loc[p])
           ELSE IF loc[p].phase = "role" /\ loc[p].reason = "write-failed" /\ Check(Snapshot) = "none"
             THEN Return(p, "nothing")
           ELSE Report(p, loc[p].reason)
     \/ /\ Fault
        /\ IF loc[p].phase = "role" /\ loc[p].reason = "write-failed"
             THEN Return(p, "nothing") ELSE Report(p, loc[p].reason)
  /\ OnPage

-----------------------------------------------------------------------------
(* markSaved: the receipt of a committed Team (complete). *)

\* The first receipt failed: the documents are read back, if there is a
\* result to look for.
NotMarked(p) ==
  IF Is(p, "second") \/ Is(p, "receipt")
    THEN Return(p, "nothing")
    ELSE Goto(p, "readBack", loc[p])

Mark(p) ==
  /\ At(p, "mark")
  /\ \/ /\ UNCHANGED spent
        /\ IF job.state = "saved" THEN Return(p, "saved")
           ELSE IF Is(p, "leased") /\ OtherLease(p) THEN NotMarked(p)
           ELSE Goto(p, "markContext",
                     With(p, Flagged(job.outcomeUnknown \/ job.saveState = "unknown", "unsure")))
     \/ Fault /\ NotMarked(p)
  /\ OnPage

\* What the documents hold decides what is written.
MarkContext(p) ==
  LET check == Check(Snapshot) IN
  /\ At(p, "markContext")
  /\ \/ /\ UNCHANGED spent
        /\ IF check = "committed" THEN Goto(p, "marking", Without(p, {"unsure"}))
           ELSE IF check # "conflict" /\ Is(p, "unsure")
             THEN Goto(p, "clearing", [Without(p, {"unsure"}) EXCEPT !.seen = Snapshot])
           ELSE NotMarked(p)
     \/ Fault /\ NotMarked(p)
  /\ OnPage

Saved(r) ==
  [r EXCEPT !.state = "saved", !.saveState = "committed", !.outcomeUnknown = FALSE,
            !.lease = NoLease, !.leaseLive = FALSE]

MarkWrite(p) ==
  /\ At(p, "marking")
  /\ job' = Saved(job)
  /\ \/ Return(p, "saved") /\ UNCHANGED spent
     \/ Fault /\ NotMarked(p)
  /\ OnServer

Cleared(r, check) ==
  [r EXCEPT !.state = "save_conflict", !.saveState = check,
            !.needsCleanup = (check = "roles-only"), !.outcomeUnknown = FALSE,
            !.lease = NoLease, !.leaseLive = FALSE]

MarkClear(p) ==
  /\ At(p, "clearing")
  /\ Update(Cleared(job, Check(loc[p].seen)), NotMarked(p), NotMarked(p))
  /\ UNCHANGED spent /\ OnServer

\* A committed Team gets a second receipt, and is never written again.
ReadBack(p) ==
  /\ At(p, "readBack")
  /\ \/ /\ UNCHANGED spent
        /\ IF Check(Snapshot) = "committed" THEN Goto(p, "mark", With(p, {"second"}))
                                           ELSE Return(p, "nothing")
     \/ Fault /\ Return(p, "nothing")
  /\ OnPage

-----------------------------------------------------------------------------
(* saveFailed: the service is told what happened. *)

\* Only the holder of the lease is heard.  A compensated job's agent is
\* archived first, which may fail.
ReportFailure(p) ==
  /\ At(p, "report")
  /\ \/ /\ UNCHANGED spent
        /\ IF job.state = "saved" \/ job.lease = NoLease \/ OtherLease(p)
             THEN Return(p, "nothing")
             ELSE Goto(p, "reporting",
                       With(p, Flagged(job.cancelRequested \/ loc[p].reason = "compensated",
                                       "canceled")))
     \/ Fault /\ Return(p, "nothing")
  /\ OnPage

\* The record after a failure of this kind; it ends if ended.
FailedSave(r, reason, ended) ==
  [r EXCEPT
     !.state = IF ended THEN "canceled" ELSE "save_conflict",
     !.saveState = CASE reason = "compensated" -> "none"
                     [] reason = "unknown" -> "unknown"
                     [] reason \in {"partial", "canceled"} -> "roles-only"
                     [] OTHER -> @,
     !.needsCleanup = reason # "compensated" /\ (@ \/ reason \in {"partial", "canceled"}),
     !.outcomeUnknown = (reason = "unknown"),
     !.lease = NoLease, !.leaseLive = FALSE]

WriteFailure(p) ==
  /\ At(p, "reporting")
  /\ Update(FailedSave(job, loc[p].reason, Is(p, "canceled")),
            Return(p, "nothing"), Return(p, "nothing"))
  /\ UNCHANGED spent /\ OnServer

-----------------------------------------------------------------------------
(* compensateDesign: the Role is removed, and the documents are looked at   *)
(* once more.                                                               *)

RemoveRole(p) ==
  /\ At(p, "remove")
  /\ \/ /\ Is(p, "aborted") /\ Return(p, "nothing")
        /\ UNCHANGED <<docs, inflight, spent>>
     \/ ~Is(p, "aborted") /\ Stale(p, loc[p]) /\ UNCHANGED <<docs, inflight, spent>>
     \/ /\ ~Is(p, "aborted")
        /\ Write("removeRole", loc[p].seen.roles.rev,
                 Goto(p, "after", [loc[p] EXCEPT !.reason = "none"]),
                 Conflict(p, "role", Report(p, "conflict-exhausted")),
                 Goto(p, "after", [loc[p] EXCEPT !.reason = "write-failed"]),
                 Goto(p, "after", [loc[p] EXCEPT !.reason = "unknown"]))
  /\ UNCHANGED <<job, doubts, canceler, removed, overlapped>>

\* A Role that a Team names again has to be put back.
After(p) ==
  /\ At(p, "after")
  /\ \/ /\ UNCHANGED spent
        /\ IF roles.rows > 0 /\ loc[p].reason # "none" THEN Report(p, loc[p].reason)
           ELSE IF Referenced(Snapshot) /\ roles.rows = 0
             THEN Goto(p, "restore", [loc[p] EXCEPT !.seen = Snapshot])
           ELSE IF Check(Snapshot) = "none" THEN Report(p, "compensated")
           ELSE Report(p, "partial")
     \/ Fault /\ Report(p, "unknown")
  /\ OnPage

Restore(p) ==
  /\ At(p, "restore")
  /\ Write("addRole", loc[p].seen.roles.rev,
           Report(p, "partial"), Report(p, "unknown"), Report(p, "unknown"), Report(p, "unknown"))
  /\ UNCHANGED <<job, doubts, canceler, removed, overlapped>>

-----------------------------------------------------------------------------
(* The rest of the world. *)

\* Cancelling aborts the page's run and asks the service, which archives the
\* agent before it ends the job.
Cancel(p) ==
  /\ canceler = "idle" /\ job.state \notin Terminal /\ ~At(p, "closed")
  /\ Spend("cancels")
  /\ job' = [job EXCEPT !.state = "canceling", !.cancelRequested = TRUE]
  /\ loc' = [loc EXCEPT ![p].flag = IF At(p, "idle") THEN @ ELSE @ \cup {"aborted"}]
  /\ canceler' = "asked"
  /\ UNCHANGED <<docs, inflight, pc, told, doubts, removed, overlapped>>

Archive ==
  /\ canceler = "asked"
  /\ canceler' = IF job.state \in Terminal THEN "idle" ELSE "archiving"
  /\ UNCHANGED <<job, docs, inflight, control, doubts, removed, overlapped, spent>>

\* The agent is archived and the job ends, or the job waits for its user.
CancelEnds ==
  /\ canceler = "archiving" /\ canceler' = "idle"
  /\ \/ job' = [job EXCEPT !.state = "canceled", !.cancelRequested = TRUE] /\ UNCHANGED spent
     \/ Fault /\ Update([job EXCEPT !.state = "needs_continue"], TRUE, TRUE)
  /\ UNCHANGED <<docs, inflight, control, doubts, removed, overlapped>>

LeaseExpires ==
  /\ job.leaseLive /\ job' = [job EXCEPT !.leaseLive = FALSE]
  /\ UNCHANGED <<docs, inflight, control, doubts, canceler, removed, overlapped, spent>>

\* A user edits the Role or something else in its document, lets another
\* Team refer to it or no longer, or removes a row of the design.
UserEdits ==
  /\ Spend("edits")
  /\ \E e \in Edits :
       \/ /\ e = "edit" => roles.rows > 0
          /\ e \in {"edit", "other"} /\ UNCHANGED <<teams, removed>>
          /\ roles' = [roles EXCEPT !.edited = @ \/ e = "edit", !.rev = @ + 1]
       \/ /\ e = "refer" => roles.rows > 0
          /\ e \in {"refer", "unrefer"} /\ teams.refs # (e = "refer")
          /\ teams' = [teams EXCEPT !.refs = ~@, !.rev = @ + 1]
          /\ UNCHANGED <<roles, removed>>
       \/ /\ e = "dropRole" /\ roles.rows > 0 /\ removed' = TRUE
          /\ roles' = [rows |-> 0, edited |-> FALSE, rev |-> roles.rev + 1]
          /\ UNCHANGED teams
       \/ /\ e = "dropTeam" /\ teams.rows > 0 /\ removed' = TRUE
          /\ teams' = [teams EXCEPT !.rows = 0, !.rev = @ + 1]
          /\ UNCHANGED roles
  /\ UNCHANGED <<job, inflight, control, doubts, canceler, overlapped>>

-----------------------------------------------------------------------------
(* The specification. *)

\* The job is ready, nothing of its design is in the documents, and some of
\* the pages are open.
Init ==
  /\ job = [state |-> "ready", cancelRequested |-> FALSE, saveState |-> "none",
            needsCleanup |-> FALSE, outcomeUnknown |-> FALSE, lease |-> NoLease,
            leaseLive |-> FALSE]
  /\ roles = NoDocs.roles /\ teams = NoDocs.teams /\ inflight = {}
  /\ pc \in [Pages -> {"idle", "closed"}] /\ loc = [p \in Pages |-> NoLocals]
  /\ doubts = {} /\ told = [p \in Pages |-> "nothing"]
  /\ canceler = "idle" /\ removed = FALSE /\ overlapped = FALSE
  /\ spent = [b \in DOMAIN Bounds |-> 0]

PageStep(p) ==
  Prepare(p) \/ PrepareContext(p) \/ PrepareLease(p) \/ Fresh(p)
  \/ WriteRole(p) \/ WriteTeam(p) \/ Settle(p) \/ Mark(p) \/ MarkContext(p)
  \/ MarkWrite(p) \/ MarkClear(p) \/ ReadBack(p) \/ ReportFailure(p)
  \/ WriteFailure(p) \/ RemoveRole(p) \/ After(p) \/ Restore(p)

Next ==
  \/ \E p \in Pages : Start(p) \/ PageStep(p) \/ Cancel(p)
  \/ Archive \/ CancelEnds \/ LeaseExpires \/ Lands \/ UserEdits

\* No page has to go on: one that is closed takes no further step.
Spec == Init /\ [][Next]_vars

-----------------------------------------------------------------------------
(* Properties. *)

\* However many pages save and retry, whatever lands late: the documents hold
\* the design's Role once and its Team once (mergeDesign, the revisions of the
\* writes, complete).
RowsOnce == roles.rows <= 1 /\ teams.rows <= 1

\* A job that is saved, and a page that has told its user so, have the Team
\* and its Role in the documents, unless a user removed one or two leased runs
\* overlapped: no compensation of an earlier failure takes the Role away again
\* (markSaved, compensateDesign).
SavedIsWhole ==
  ~removed /\ ~overlapped /\ (job.state = "saved" \/ \E p \in Pages : told[p] = "saved")
    => roles.rows = 1 /\ teams.rows = 1

\* A page never removes a Role that a user has edited, even if the edit falls
\* between its look at the documents and its write (planDesignCompensation and
\* the revision of the write).
EditedKept == [][roles.edited => roles'.rows > 0 \/ removed']_vars

\* While a page holds a lease that has not expired, no other page is given one
\* (prepareSave).
OneSaveLease ==
  [][LeaseValid /\ job'.lease # NoLease => job'.lease[1] = job.lease[1]]_vars
=============================================================================
