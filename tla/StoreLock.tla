------------------------------- MODULE StoreLock -------------------------------
(***************************************************************************)
(* The lock file of the designer's job store (server/designer/store.ts):   *)
(* several plugin processes share one data directory, and a store may only *)
(* touch the job records while it owns the lock.  A lock whose process is  *)
(* gone is taken over under a second lock file, the reclaim guard, which   *)
(* is itself taken over when its process is gone or it is 30 seconds old.  *)
(*                                                                         *)
(* An action is one file operation.  Reads may fail (an I/O error, or a    *)
(* file that was created but not written yet), and then the attempt is     *)
(* given up; the next RPC tries again with a new token.  A process that    *)
(* died stays dead: its successor is another member of Stores.             *)
(***************************************************************************)
EXTENDS Naturals

CONSTANTS
  Stores,      \* the store instances, each in a process of its own
  MaxTries     \* bound: initialize calls of one instance

ASSUME StoreLockAssumption == MaxTries \in Nat

VARIABLES
  lock,       \* the lock file: the token of its owner, or None
  guard,      \* the guard file, likewise
  aged,       \* the guard file is 30 seconds old
  pc,         \* what each store does next
  tries,      \* initialize calls so far; a token is made of it
  seen,       \* the token a store found in the lock file
  made,       \* the stores whose attempt created the lock file
  displaced   \* history: a guard was moved away while its owner relied on it

vars == <<lock, guard, aged, pc, tries, seen, made, displaced>>

Tokens == Stores \X (1 .. MaxTries)
None == <<>>
Owner(t) == t[1]
Token(s) == <<s, tries[s]>>

\* Under the guard, and: under the guard with the lock judged abandoned.
Guarded == {"recheck", "confirm", "remove", "reconfirm", "create", "release", "drop"}
Labels ==
  Guarded \cup {"closed", "lock", "observe", "guard", "guardLook", "guardMove",
                "guardMake", "verify", "open", "disposing", "unlock", "dead"}

TypeOK ==
  /\ lock \in Tokens \cup {None}
  /\ guard \in Tokens \cup {None}
  /\ aged \in BOOLEAN
  /\ pc \in [Stores -> Labels]
  /\ tries \in [Stores -> 0 .. MaxTries]
  /\ seen \in [Stores -> Tokens \cup {None}]
  /\ made \subseteq Stores
  /\ displaced \in BOOLEAN

At(s, l) == pc[s] = l
Goto(s, l) == pc' = [pc EXCEPT ![s] = l]
GiveUp(s) == Goto(s, "closed")

StealLive(t) == t # None

\* The process that wrote the file is known to be gone.
Gone(t) == t # None /\ At(Owner(t), "dead")

-----------------------------------------------------------------------------
(* initialize. *)

Initialize(s) ==
  /\ At(s, "closed") /\ tries[s] < MaxTries
  /\ tries' = [tries EXCEPT ![s] = @ + 1]
  /\ Goto(s, "lock")
  /\ made' = made \ {s}
  /\ UNCHANGED <<lock, guard, aged, seen, displaced>>

\* The lock file is created exclusively; whatever stops that leads to the
\* reclaim.
CreateLock(s) ==
  /\ At(s, "lock")
  /\ \/ lock = None /\ lock' = Token(s) /\ Goto(s, "verify")
     \/ UNCHANGED lock /\ Goto(s, "observe")
  /\ UNCHANGED <<guard, aged, tries, seen, made, displaced>>

\* reclaimAndCreateLock: the lock is read, and left alone unless its process
\* is known to be gone.
Observe(s) ==
  /\ At(s, "observe")
  /\ seen' = [seen EXCEPT ![s] = lock]
  /\ \/ Gone(lock) /\ Goto(s, "guard")
     \/ GiveUp(s)
  /\ UNCHANGED <<lock, guard, aged, tries, made, displaced>>

TakeGuard(s) == guard' = Token(s) /\ aged' = FALSE /\ Goto(s, "recheck")

ShareGuard(s) ==
  /\ At(s, "guard")
  /\ TakeGuard(s)
  /\ UNCHANGED <<lock, tries, seen, made, displaced>>

\* acquireReclaimGuard.
CreateGuard(s) ==
  /\ At(s, "guard")
  /\ \/ guard = None /\ TakeGuard(s)
     \/ Goto(s, "guardLook") /\ UNCHANGED <<guard, aged>>
  /\ UNCHANGED <<lock, tries, seen, made, displaced>>

LookAtGuard(s) ==
  /\ At(s, "guardLook")
  /\ \/ guard # None /\ (Gone(guard) \/ aged) /\ Goto(s, "guardMove")
     \/ GiveUp(s)
  /\ UNCHANGED <<lock, guard, aged, tries, seen, made, displaced>>

\* The guard is renamed away, whichever guard it is by now.
ReliedOn(t) == t # None /\ pc[Owner(t)] \in Guarded /\ Token(Owner(t)) = t

MoveGuard(s) ==
  /\ At(s, "guardMove")
  /\ \/ /\ guard # None /\ guard' = None
        /\ displaced' = (displaced \/ ReliedOn(guard))
        /\ Goto(s, "guardMake")
     \/ GiveUp(s) /\ UNCHANGED <<guard, displaced>>
  /\ UNCHANGED <<lock, aged, tries, seen, made>>

RemakeGuard(s) ==
  /\ At(s, "guardMake")
  /\ \/ guard = None /\ TakeGuard(s)
     \/ GiveUp(s) /\ UNCHANGED <<guard, aged>>
  /\ UNCHANGED <<lock, tries, seen, made, displaced>>

TrustObserved(s) ==
  /\ At(s, "recheck")
  /\ Goto(s, "confirm")
  /\ UNCHANGED <<lock, guard, aged, tries, seen, made, displaced>>

\* The lock is read again: it must still be the one observed.
Recheck(s) ==
  /\ At(s, "recheck")
  /\ \/ lock = seen[s] /\ Gone(lock) /\ Goto(s, "confirm")
     \/ Goto(s, "release")
  /\ UNCHANGED <<lock, guard, aged, tries, seen, made, displaced>>

\* The guard is read before the lock is removed, and again before the new
\* one is created.
Confirm(s) ==
  /\ At(s, "confirm")
  /\ \/ guard = Token(s) /\ Goto(s, "remove")
     \/ Goto(s, "release")
  /\ UNCHANGED <<lock, guard, aged, tries, seen, made, displaced>>

RemoveLock(s) ==
  /\ At(s, "remove")
  /\ \/ lock' = None /\ Goto(s, "reconfirm")
     \/ Goto(s, "release") /\ UNCHANGED lock
  /\ UNCHANGED <<guard, aged, tries, seen, made, displaced>>

Reconfirm(s) ==
  /\ At(s, "reconfirm")
  /\ \/ guard = Token(s) /\ Goto(s, "create")
     \/ Goto(s, "release")
  /\ UNCHANGED <<lock, guard, aged, tries, seen, made, displaced>>

ReplaceLock(s) ==
  /\ At(s, "create")
  /\ \/ lock = None /\ lock' = Token(s) /\ made' = made \cup {s}
     \/ UNCHANGED <<lock, made>>
  /\ Goto(s, "release")
  /\ UNCHANGED <<guard, aged, tries, seen, displaced>>

\* releaseReclaimGuard: the guard is removed if it was read as one's own.
\* Errors are swallowed, and initialize goes on as far as it had come.
AfterRelease(s) == Goto(s, IF s \in made THEN "verify" ELSE "closed")

ReleaseGuard(s) ==
  /\ At(s, "release")
  /\ \/ guard = Token(s) /\ Goto(s, "drop")
     \/ AfterRelease(s)
  /\ UNCHANGED <<lock, guard, aged, tries, seen, made, displaced>>

DropGuard(s) ==
  /\ At(s, "drop")
  /\ guard' \in {None, guard}
  /\ AfterRelease(s)
  /\ UNCHANGED <<lock, aged, tries, seen, made, displaced>>

\* The lock is read back before the store opens.
Verify(s) ==
  /\ At(s, "verify")
  /\ \/ lock = Token(s) /\ Goto(s, "open")
     \/ GiveUp(s)
  /\ UNCHANGED <<lock, guard, aged, tries, seen, made, displaced>>

-----------------------------------------------------------------------------
(* dispose: the store is closed in memory first, then its lock is removed   *)
(* if it was read as its own.                                               *)

Dispose(s) ==
  /\ At(s, "open")
  /\ Goto(s, "disposing")
  /\ UNCHANGED <<lock, guard, aged, tries, seen, made, displaced>>

ReadOwnLock(s) ==
  /\ At(s, "disposing")
  /\ \/ lock = Token(s) /\ Goto(s, "unlock")
     \/ GiveUp(s)
  /\ UNCHANGED <<lock, guard, aged, tries, seen, made, displaced>>

Unlock(s) ==
  /\ At(s, "unlock")
  /\ lock' \in {None, lock}
  /\ GiveUp(s)
  /\ UNCHANGED <<guard, aged, tries, seen, made, displaced>>

-----------------------------------------------------------------------------
Die(s) ==
  /\ ~At(s, "dead")
  /\ Goto(s, "dead")
  /\ UNCHANGED <<lock, guard, aged, tries, seen, made, displaced>>

GuardAges ==
  /\ guard # None /\ ~aged /\ aged' = TRUE
  /\ UNCHANGED <<lock, guard, pc, tries, seen, made, displaced>>

Init ==
  /\ lock = None /\ guard = None /\ aged = FALSE
  /\ pc = [s \in Stores |-> "closed"]
  /\ tries = [s \in Stores |-> 0]
  /\ seen = [s \in Stores |-> None]
  /\ made = {} /\ displaced = FALSE

StoreStep(s) ==
  \/ Initialize(s) \/ CreateLock(s) \/ Observe(s)
  \/ CreateGuard(s) \/ LookAtGuard(s) \/ MoveGuard(s) \/ RemakeGuard(s)
  \/ Recheck(s) \/ Confirm(s) \/ RemoveLock(s) \/ Reconfirm(s) \/ ReplaceLock(s)
  \/ ReleaseGuard(s) \/ DropGuard(s) \/ Verify(s)
  \/ Dispose(s) \/ ReadOwnLock(s) \/ Unlock(s) \/ Die(s)

Next == GuardAges \/ \E s \in Stores : StoreStep(s)

Spec == Init /\ [][Next]_vars

-----------------------------------------------------------------------------
(* Safety. *)

Open(s) == At(s, "open")

\* Two stores never own the ledger at once, whatever dies and whatever is
\* slow, as long as nobody's guard is moved away under it (initialize,
\* reclaimAndCreateLock).
OneOwner == ~displaced => \A s, t \in Stores : Open(s) /\ Open(t) => s = t

\* What the comment of reclaimAndCreateLock promises without that condition.
OneOwnerAlways == \A s, t \in Stores : Open(s) /\ Open(t) => s = t

\* An open store's lock is on disk, so that the next one finds it.
LockIsKept == ~displaced => \A s \in Stores : Open(s) => lock = Token(s)

\* A lock disappears only when its owner is dead or removes it itself.
LiveLockIsSafe ==
  [][~displaced /\ lock # None /\ lock' # lock
       => pc[Owner(lock)] = "dead" \/ pc[Owner(lock)] = "unlock"]_vars

\* A store that is doing something has started an attempt.
Started == \A s \in Stores : pc[s] \notin {"closed", "dead"} => tries[s] # 0

\* Why: the guard belongs to whoever relies on it, so at most one store is
\* in the section; a lock about to be removed is still the dead one that was
\* observed; nobody counts as a creator before he is; and who created the
\* lock still has it.
GuardIsHeld == \A s \in Stores : pc[s] \in Guarded => guard = Token(s)
Condemned ==
  \A s \in Stores : pc[s] \in {"confirm", "remove"} => Gone(lock)
Owns(s) ==
  \/ pc[s] \in {"verify", "open", "disposing", "unlock"}
  \/ pc[s] \in {"release", "drop"} /\ s \in made
LockIsHeld == \A s \in Stores : Owns(s) => lock = Token(s)
Reclaiming ==
  {"lock", "observe", "guard", "guardLook", "guardMove", "guardMake",
   "recheck", "confirm", "remove", "reconfirm", "create"}
Unmade == \A s \in made : pc[s] \notin Reclaiming

LockInv == ~displaced => GuardIsHeld /\ Condemned /\ LockIsHeld /\ Unmade
=============================================================================
