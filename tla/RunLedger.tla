-------------------------------- MODULE RunLedger --------------------------------
(***************************************************************************)
(* The base of the run ledger: records that several processes replace      *)
(* (server/ledger/atomic-json.ts) under one process lock (process-lock.ts).*)
(* Nothing in the plugin calls it yet; the callers modelled here do what   *)
(* the comment of createAtomicJson demands: they hold the lock when they   *)
(* read and commit, and pass its assertHeld as the guard of the commit.    *)
(*                                                                         *)
(* An action is one file operation, and each may fail.  A lock or guard is *)
(* the process that wrote it, in place of its token and pid: a process     *)
(* holds at most one of each, and a dead one does not return.              *)
(***************************************************************************)
EXTENDS Naturals, Sequences

CONSTANTS Procs,
          MaxCommits   \* bound: commits in all

VARIABLES
  lock,       \* the set of the lock file's owner; {} when there is no file
  guard,      \* the reclaim guard's, likewise
  aged,       \* the guard is older than staleGuardMs
  pc,         \* what each process does next
  seen,       \* the lock each process has observed
  file,       \* the record: who wrote each of its revisions
  view,       \* the record a process has read or written last
  temps,      \* the processes whose temporary file exists
  displaced,  \* history: a guard was moved away while its owner relied on it
  slipped     \* history: a record was replaced by one who had lost the lock
vars == <<lock, guard, aged, pc, seen, file, view, temps, displaced, slipped>>
locking == <<lock, guard, aged, seen, displaced>>
storing == <<file, view, temps, slipped>>

Guarded == {"recheck", "confirm", "remove", "reconfirm", "replace", "readback", "release", "drop"}
Committing == {"write", "assert", "rename"}
Holding == Committing \cup {"held", "unlock"}
Labels == Guarded \cup Holding
          \cup {"idle", "verify", "observe", "guard", "guardLook", "guardMove", "guardMake", "dead"}

Files == {{}} \cup {{p} : p \in Procs}

TypeOK ==
  /\ lock \in Files /\ guard \in Files /\ aged \in BOOLEAN
  /\ pc \in [Procs -> Labels]
  /\ seen \in [Procs -> Files]
  /\ file \in Seq(Procs) /\ view \in [Procs -> Seq(Procs)]
  /\ temps \subseteq Procs
  /\ displaced \in BOOLEAN /\ slipped \in BOOLEAN

Init ==
  /\ lock = {} /\ guard = {} /\ aged = FALSE
  /\ pc = [p \in Procs |-> "idle"] /\ seen = [p \in Procs |-> {}]
  /\ file = <<>> /\ view = [p \in Procs |-> <<>>] /\ temps = {}
  /\ displaced = FALSE /\ slipped = FALSE

At(p, l) == pc[p] = l
Goto(p, l) == pc' = [pc EXCEPT ![p] = l]

\* isReclaimable, of a lock whose process is known to be gone.  One that is
\* alive, or of which nothing is known, is left alone.
Gone(f) == \E q \in f : At(q, "dead")

-----------------------------------------------------------------------------
(* acquireProcessLock.  A process that waits for its next attempt is idle,  *)
(* as is one whose call has failed.                                         *)

CreateLock(p) ==
  /\ At(p, "idle")
  /\ \/ lock = {} /\ lock' = {p} /\ Goto(p, "verify")
     \/ lock # {} /\ UNCHANGED lock /\ Goto(p, "observe")
  /\ UNCHANGED <<guard, aged, seen, displaced>> /\ UNCHANGED storing

\* The lock is read back.  If that fails it stays on disk.
Verify(p) ==
  /\ At(p, "verify")
  /\ \/ lock = {p} /\ Goto(p, "held")
     \/ Goto(p, "idle")
  /\ UNCHANGED locking /\ UNCHANGED storing

Observe(p) ==
  /\ At(p, "observe")
  /\ seen' = [seen EXCEPT ![p] = lock]
  /\ \/ Gone(lock) /\ Goto(p, "guard")
     \/ Goto(p, "idle")
  /\ UNCHANGED <<lock, guard, aged, displaced>> /\ UNCHANGED storing

-----------------------------------------------------------------------------
(* tryReclaim: the lock of a dead process is taken over under the guard.    *)

TakeGuard(p) == guard' = {p} /\ aged' = FALSE /\ Goto(p, "recheck")

MakeGuard(p) ==
  /\ At(p, "guard")
  /\ \/ guard = {} /\ TakeGuard(p)
     \/ guard # {} /\ UNCHANGED <<guard, aged>> /\ Goto(p, "guardLook")
     \/ UNCHANGED <<guard, aged>> /\ Goto(p, "idle")
  /\ UNCHANGED <<lock, seen, displaced>> /\ UNCHANGED storing

LookAtGuard(p) ==
  /\ At(p, "guardLook")
  /\ \/ guard # {} /\ (Gone(guard) \/ aged) /\ Goto(p, "guardMove")
     \/ Goto(p, "idle")
  /\ UNCHANGED locking /\ UNCHANGED storing

\* The guard is renamed away, whichever it is by now.
MoveGuard(p) ==
  /\ At(p, "guardMove")
  /\ \/ /\ guard # {} /\ guard' = {} /\ Goto(p, "guardMake")
        /\ displaced' = (displaced \/ \E q \in guard : pc[q] \in Guarded)
     \/ UNCHANGED <<guard, displaced>> /\ Goto(p, "idle")
  /\ UNCHANGED <<lock, aged, seen>> /\ UNCHANGED storing

RemakeGuard(p) ==
  /\ At(p, "guardMake")
  /\ \/ guard = {} /\ TakeGuard(p)
     \/ UNCHANGED <<guard, aged>> /\ Goto(p, "idle")
  /\ UNCHANGED <<lock, seen, displaced>> /\ UNCHANGED storing

\* A bug: the lock is not looked at again under the guard.
RecheckNothing(p) ==
  /\ At(p, "recheck")
  /\ Goto(p, "confirm")
  /\ UNCHANGED locking /\ UNCHANGED storing

\* Under the guard the lock must still be the one observed.
Recheck(p) ==
  /\ At(p, "recheck")
  /\ \/ lock = seen[p] /\ Gone(lock) /\ Goto(p, "confirm")
     \/ Goto(p, "release")
  /\ UNCHANGED locking /\ UNCHANGED storing

\* The guard is read again before the lock is removed, and before the new
\* one is made.
Confirm(p) ==
  /\ pc[p] \in {"confirm", "reconfirm"}
  /\ \/ guard = {p} /\ Goto(p, IF At(p, "confirm") THEN "remove" ELSE "replace")
     \/ Goto(p, "release")
  /\ UNCHANGED locking /\ UNCHANGED storing

RemoveLock(p) ==
  /\ At(p, "remove")
  /\ \/ lock' = {} /\ Goto(p, "reconfirm")
     \/ UNCHANGED lock /\ Goto(p, "release")
  /\ UNCHANGED <<guard, aged, seen, displaced>> /\ UNCHANGED storing

ReplaceLock(p) ==
  /\ At(p, "replace")
  /\ \/ lock = {} /\ lock' = {p} /\ Goto(p, "readback")
     \/ UNCHANGED lock /\ Goto(p, "release")
  /\ UNCHANGED <<guard, aged, seen, displaced>> /\ UNCHANGED storing

\* releaseGuard: it is removed if it was read as one's own; errors are
\* swallowed.  A lock that was made is read back once more.
After(p) == Goto(p, IF lock = {p} THEN "verify" ELSE "idle")

ReleaseGuard(p) ==
  /\ pc[p] \in {"release", "readback"}
  /\ \/ guard = {p} /\ Goto(p, "drop")
     \/ After(p)
  /\ UNCHANGED locking /\ UNCHANGED storing

DropGuard(p) ==
  /\ At(p, "drop")
  /\ guard' \in {{}, guard} /\ After(p)
  /\ UNCHANGED <<lock, aged, seen, displaced>> /\ UNCHANGED storing

-----------------------------------------------------------------------------
(* A handle that is held: read, commit, sweepTemporary, release.            *)

Read(p) ==
  /\ At(p, "held")
  /\ view' = [view EXCEPT ![p] = file]
  /\ UNCHANGED pc /\ UNCHANGED locking /\ UNCHANGED <<file, temps, slipped>>

\* A bug: the digest of the record is not compared.
CommitOverAnything(p) ==
  /\ At(p, "held") /\ Len(file) < MaxCommits
  /\ Goto(p, "write")
  /\ UNCHANGED locking /\ UNCHANGED storing

\* The record on disk must be the one the new one was made from.
Compare(p) ==
  /\ At(p, "held") /\ Len(file) < MaxCommits
  /\ view[p] = file
  /\ Goto(p, "write")
  /\ UNCHANGED locking /\ UNCHANGED storing

WriteTemporary(p) ==
  /\ At(p, "write")
  /\ \/ temps' = temps \cup {p} /\ Goto(p, "assert")
     \/ UNCHANGED temps /\ Goto(p, "held")
  /\ UNCHANGED locking /\ UNCHANGED <<file, view, slipped>>

\* assertHeld, the guard of the commit.
AssertHeld(p) ==
  /\ At(p, "assert")
  /\ \/ lock = {p} /\ UNCHANGED temps /\ Goto(p, "rename")
     \/ temps' = temps \ {p} /\ Goto(p, "held")
  /\ UNCHANGED locking /\ UNCHANGED <<file, view, slipped>>

\* The rename is tried again for a while; the lock is not looked at again.
Rename(p) ==
  /\ At(p, "rename")
  /\ temps' = temps \ {p} /\ Goto(p, "held")
  /\ \/ /\ p \in temps
        /\ file' = Append(file, p) /\ view' = [view EXCEPT ![p] = file']
        /\ slipped' = (slipped \/ lock # {p})
     \/ UNCHANGED <<file, view, slipped>>
  /\ UNCHANGED locking

\* Leftovers are removed, of a commit in progress too.
SweepTemporary(p) ==
  /\ At(p, "held") /\ temps # {}
  /\ temps' \in SUBSET temps
  /\ UNCHANGED pc /\ UNCHANGED locking /\ UNCHANGED <<file, view, slipped>>

\* A release that has failed may be repeated.
Release(p) ==
  /\ At(p, "held")
  /\ Goto(p, IF lock = {p} THEN "unlock" ELSE "idle")
  /\ UNCHANGED locking /\ UNCHANGED storing

Unlock(p) ==
  /\ At(p, "unlock")
  /\ \/ lock' = {} /\ Goto(p, "idle")
     \/ UNCHANGED lock /\ Goto(p, "held")
  /\ UNCHANGED <<guard, aged, seen, displaced>> /\ UNCHANGED storing

-----------------------------------------------------------------------------

Die(p) ==
  /\ ~At(p, "dead") /\ Goto(p, "dead")
  /\ UNCHANGED locking /\ UNCHANGED storing

GuardAges ==
  /\ guard # {} /\ ~aged /\ aged' = TRUE
  /\ UNCHANGED <<lock, guard, pc, seen, displaced>> /\ UNCHANGED storing

ProcStep(p) ==
  \/ CreateLock(p) \/ Verify(p) \/ Observe(p)
  \/ MakeGuard(p) \/ LookAtGuard(p) \/ MoveGuard(p) \/ RemakeGuard(p)
  \/ Recheck(p) \/ Confirm(p) \/ RemoveLock(p) \/ ReplaceLock(p)
  \/ ReleaseGuard(p) \/ DropGuard(p)
  \/ Read(p) \/ Compare(p) \/ WriteTemporary(p) \/ AssertHeld(p) \/ Rename(p)
  \/ SweepTemporary(p) \/ Release(p) \/ Unlock(p) \/ Die(p)

Next == GuardAges \/ \E p \in Procs : ProcStep(p)

Spec == Init /\ [][Next]_vars

-----------------------------------------------------------------------------
(* Properties. *)

\* Two processes hold the lock at once only after a guard was moved away from
\* under the one who relied on it (tryReclaim: a process may find the guard of
\* a dead one, be slow, and rename away the guard that has replaced it).
OneHolder == ~displaced => \A p, q \in Procs : pc[p] \in Holding /\ pc[q] \in Holding => p = q

\* And only then may a record be replaced by a process that no longer holds
\* the lock: the guard of the commit and the rename are two operations.
SlipNeedsDisplacement == slipped => displaced

Promise == INSTANCE AtomicRecord WITH log <- file, excused <- slipped

\* The record keeps the promise of AtomicRecord: by the lock, the digest that
\* is compared and the guard of the commit together.
Register == Promise!Spec
=============================================================================
