------------------------------ MODULE LocksProofs ------------------------------
(***************************************************************************)
(* Proofs about StoreLock for every set of stores and every bound on their *)
(* attempts: the types, the invariant LockInv, and what follows from it.   *)
(* Then RunLedger, for every set of processes and any number of commits,   *)
(* over the behaviours of MCLocks: the types, the invariant of the lock,   *)
(* what follows from it, and that the commits implement AtomicRecord.      *)
(***************************************************************************)
EXTENDS MCLocks, SequenceTheorems, TLAPS

LEMMA TokenOwner ==
  ASSUME NEW s \in Stores
  PROVE  Owner(Token(s)) = s
BY DEF Token, Owner

LEMMA TokenOne ==
  ASSUME NEW s \in Stores, NEW t \in Stores, Token(s) = Token(t)
  PROVE  s = t
BY TokenOwner

LEMMA TokenThere ==
  ASSUME NEW s \in Stores
  PROVE  Token(s) # None
BY DEF Token, None

-----------------------------------------------------------------------------
(* Types.  A token is only written by a store that counts an attempt, so    *)
(* TypeOK is inductive together with Started.                               *)

TypeInv == TypeOK /\ Started

LEMMA TokenTyped ==
  ASSUME TypeInv, NEW s \in Stores, pc[s] \notin {"closed", "dead"}
  PROVE  Token(s) \in Tokens
BY StoreLockAssumption DEF TypeInv, TypeOK, Started, Token, Tokens

LEMMA TypeInit == Init => TypeInv
<1> SUFFICES ASSUME Init
             PROVE  TypeInv
  OBVIOUS
<1>1. lock \in Tokens \cup {None} /\ guard \in Tokens \cup {None}
      /\ seen \in [Stores -> Tokens \cup {None}]
  BY DEF Init
<1>2. pc \in [Stores -> Labels] /\ tries \in [Stores -> 0 .. MaxTries]
  BY StoreLockAssumption DEF Init, Labels, Guarded
<1>3. aged \in BOOLEAN /\ made \subseteq Stores /\ displaced \in BOOLEAN
  BY DEF Init
<1>4. Started
  BY DEF Init, Started
<1> QED
  BY <1>1, <1>2, <1>3, <1>4 DEF TypeInv, TypeOK

LEMMA TypeNext == TypeInv /\ [Next]_vars => TypeInv'
<1> SUFFICES ASSUME TypeInv, [Next]_vars
             PROVE  TypeInv'
  OBVIOUS
<1> USE StoreLockAssumption DEF TypeInv, TypeOK, Started, At, Goto, GiveUp, Labels, Guarded
<1>1. CASE UNCHANGED vars
  BY <1>1 DEF vars
<1>2. CASE GuardAges
  BY <1>2 DEF GuardAges
<1>3. ASSUME NEW s \in Stores, StoreStep(s)
      PROVE  TypeInv'
  <2> USE TokenTyped
  <2>1. CASE Initialize(s)
    BY <2>1 DEF Initialize
  <2>2. CASE CreateLock(s)
    BY <2>2 DEF CreateLock
  <2>3. CASE Observe(s)
    BY <2>3 DEF Observe
  <2>4. CASE CreateGuard(s)
    BY <2>4 DEF CreateGuard, TakeGuard
  <2>5. CASE LookAtGuard(s)
    BY <2>5 DEF LookAtGuard
  <2>6. CASE MoveGuard(s)
    BY <2>6 DEF MoveGuard, ReliedOn
  <2>7. CASE RemakeGuard(s)
    BY <2>7 DEF RemakeGuard, TakeGuard
  <2>8. CASE Recheck(s) \/ Confirm(s) \/ Reconfirm(s)
    BY <2>8 DEF Recheck, Confirm, Reconfirm
  <2>9. CASE RemoveLock(s) \/ ReplaceLock(s)
    BY <2>9 DEF RemoveLock, ReplaceLock
  <2>10. CASE ReleaseGuard(s) \/ DropGuard(s)
    BY <2>10 DEF ReleaseGuard, DropGuard, AfterRelease
  <2>11. CASE Verify(s) \/ Dispose(s) \/ ReadOwnLock(s) \/ Unlock(s)
    BY <2>11 DEF Verify, Dispose, ReadOwnLock, Unlock
  <2>12. CASE Die(s)
    BY <2>12 DEF Die
  <2> QED
    BY <1>3, <2>1, <2>2, <2>3, <2>4, <2>5, <2>6, <2>7, <2>8, <2>9, <2>10,
       <2>11, <2>12 DEF StoreStep
<1> QED
  BY <1>1, <1>2, <1>3 DEF Next

\* Every variable keeps its type, and no store acts without an attempt of its
\* own.
THEOREM TypeCorrect == Spec => []TypeInv
BY TypeInit, TypeNext, PTL DEF Spec

-----------------------------------------------------------------------------
(* The lock.  LockInv speaks of the steps before anybody's guard was moved   *)
(* away, and displaced never becomes FALSE again.                            *)

Undisturbed == TypeInv /\ GuardIsHeld /\ Condemned /\ LockIsHeld /\ Unmade

\* Two stores under the guard are one; so are two owners of the lock.
LEMMA OneUnderGuard ==
  ASSUME GuardIsHeld, NEW s \in Stores, NEW t \in Stores,
         pc[s] \in Guarded, pc[t] \in Guarded
  PROVE  s = t
BY TokenOne DEF GuardIsHeld

LEMMA OneHolder ==
  ASSUME LockIsHeld, NEW s \in Stores, NEW t \in Stores, Owns(s), Owns(t)
  PROVE  s = t
BY TokenOne DEF LockIsHeld

\* A condemned lock belongs to no one: its process is dead.
LEMMA CondemnedUnowned ==
  ASSUME LockIsHeld, Gone(lock), NEW s \in Stores
  PROVE  ~Owns(s)
<1> SUFFICES ASSUME Owns(s)
             PROVE  FALSE
  OBVIOUS
<1>1. Owner(lock) = s
  BY TokenOwner DEF LockIsHeld
<1> QED
  BY <1>1 DEF Gone, At, Owns

LEMMA DisplacedStays == TypeInv /\ [Next]_vars /\ ~displaced' => ~displaced
BY DEF TypeInv, TypeOK, Next, StoreStep, vars, GuardAges, Initialize, CreateLock,
       Observe, CreateGuard, LookAtGuard, MoveGuard, RemakeGuard, Recheck, Confirm,
       RemoveLock, Reconfirm, ReplaceLock, ReleaseGuard, DropGuard, Verify, Dispose,
       ReadOwnLock, Unlock, Die

LEMMA GuardIsHeldNext ==
  ASSUME Undisturbed, ~displaced', NEW s \in Stores, StoreStep(s)
  PROVE  GuardIsHeld'
<1> SUFFICES ASSUME NEW t \in Stores, pc'[t] \in Guarded
             PROVE  guard' = Token(t)'
  BY DEF GuardIsHeld
<1> USE DEF Undisturbed, TypeInv, TypeOK, At, Goto, GiveUp, Guarded, GuardIsHeld, Token
<1>1. CASE Initialize(s)
  BY <1>1 DEF Initialize
<1>2. CASE CreateLock(s) \/ Observe(s) \/ LookAtGuard(s)
  BY <1>2 DEF CreateLock, Observe, LookAtGuard
<1>3. CASE CreateGuard(s)
  BY <1>3, TokenThere DEF CreateGuard, TakeGuard
<1>4. CASE MoveGuard(s)
  BY <1>4, TokenOwner DEF MoveGuard, ReliedOn
<1>5. CASE RemakeGuard(s)
  BY <1>5, TokenThere DEF RemakeGuard, TakeGuard
<1>6. CASE Recheck(s) \/ Confirm(s) \/ Reconfirm(s) \/ RemoveLock(s) \/ ReplaceLock(s)
  BY <1>6 DEF Recheck, Confirm, Reconfirm, RemoveLock, ReplaceLock
<1>7. CASE ReleaseGuard(s)
  BY <1>7 DEF ReleaseGuard, AfterRelease
<1>8. CASE DropGuard(s)
  BY <1>8, OneUnderGuard DEF DropGuard, AfterRelease
<1>9. CASE Verify(s) \/ Dispose(s) \/ ReadOwnLock(s) \/ Unlock(s) \/ Die(s)
  BY <1>9 DEF Verify, Dispose, ReadOwnLock, Unlock, Die
<1> QED
  BY <1>1, <1>2, <1>3, <1>4, <1>5, <1>6, <1>7, <1>8, <1>9 DEF StoreStep

\* A dead process does nothing any more.
LEMMA DeadStays ==
  ASSUME TypeInv, NEW s \in Stores, StoreStep(s), NEW t \in Stores, pc[t] = "dead"
  PROVE  pc'[t] = "dead"
<1> USE DEF TypeInv, TypeOK, At, Goto, GiveUp
<1>1. CASE Initialize(s) \/ CreateLock(s) \/ Observe(s) \/ CreateGuard(s) \/ LookAtGuard(s)
  BY <1>1 DEF Initialize, CreateLock, Observe, CreateGuard, LookAtGuard, TakeGuard
<1>2. CASE MoveGuard(s) \/ RemakeGuard(s) \/ Recheck(s) \/ Confirm(s) \/ RemoveLock(s)
  BY <1>2 DEF MoveGuard, RemakeGuard, Recheck, Confirm, RemoveLock, TakeGuard
<1>3. CASE Reconfirm(s) \/ ReplaceLock(s) \/ ReleaseGuard(s) \/ DropGuard(s)
  BY <1>3 DEF Reconfirm, ReplaceLock, ReleaseGuard, DropGuard, AfterRelease
<1>4. CASE Verify(s) \/ Dispose(s) \/ ReadOwnLock(s) \/ Unlock(s) \/ Die(s)
  BY <1>4 DEF Verify, Dispose, ReadOwnLock, Unlock, Die
<1> QED
  BY <1>1, <1>2, <1>3, <1>4 DEF StoreStep

LEMMA GoneStays ==
  ASSUME TypeInv, NEW s \in Stores, StoreStep(s), Gone(lock), lock' = lock
  PROVE  Gone(lock)'
<1>1. Owner(lock) \in Stores
  BY DEF TypeInv, TypeOK, Gone, Tokens, Owner
<1> QED
  BY <1>1, DeadStays DEF Gone, At, Owner

LEMMA CondemnedNext ==
  ASSUME Undisturbed, NEW s \in Stores, StoreStep(s)
  PROVE  Condemned'
<1> SUFFICES ASSUME NEW t \in Stores, pc'[t] \in {"confirm", "remove"}
             PROVE  Gone(lock)'
  BY DEF Condemned
<1>1. Gone(lock) /\ lock' = lock
  <2> USE DEF Undisturbed, TypeInv, TypeOK, At, Goto, GiveUp, Condemned
  <2>1. CASE Initialize(s) \/ Observe(s) \/ CreateGuard(s) \/ LookAtGuard(s)
    BY <2>1 DEF Initialize, Observe, CreateGuard, LookAtGuard, TakeGuard
  <2>2. CASE MoveGuard(s) \/ RemakeGuard(s) \/ Verify(s) \/ Dispose(s) \/ ReadOwnLock(s) \/ Die(s)
    BY <2>2 DEF MoveGuard, RemakeGuard, TakeGuard, Verify, Dispose, ReadOwnLock, Die
  <2>3. CASE CreateLock(s)
    BY <2>3 DEF CreateLock, Gone
  <2>4. CASE Recheck(s) \/ Confirm(s) \/ Reconfirm(s)
    BY <2>4 DEF Recheck, Confirm, Reconfirm
  <2>5. CASE RemoveLock(s)
    BY <2>5, OneUnderGuard DEF RemoveLock, Guarded
  <2>6. CASE ReplaceLock(s)
    BY <2>6 DEF ReplaceLock, Gone
  <2>7. CASE ReleaseGuard(s) \/ DropGuard(s)
    BY <2>7 DEF ReleaseGuard, DropGuard, AfterRelease
  <2>8. CASE Unlock(s)
    <3>1. Owns(s) /\ Gone(lock)
      BY <2>8 DEF Unlock, Owns
    <3> QED
      BY <3>1, CondemnedUnowned
  <2> QED
    BY <2>1, <2>2, <2>3, <2>4, <2>5, <2>6, <2>7, <2>8 DEF StoreStep
<1> QED
  BY <1>1, GoneStays DEF Undisturbed

LEMMA UnmadeNext ==
  ASSUME Undisturbed, NEW s \in Stores, StoreStep(s)
  PROVE  Unmade'
<1> SUFFICES ASSUME NEW t \in made'
             PROVE  pc'[t] \notin Reclaiming
  BY DEF Unmade
<1> USE DEF Undisturbed, TypeInv, TypeOK, At, Goto, GiveUp, Unmade, Reclaiming
<1>1. CASE Initialize(s) \/ CreateLock(s) \/ Observe(s) \/ CreateGuard(s) \/ LookAtGuard(s)
  BY <1>1 DEF Initialize, CreateLock, Observe, CreateGuard, LookAtGuard, TakeGuard
<1>2. CASE MoveGuard(s) \/ RemakeGuard(s) \/ Recheck(s) \/ Confirm(s) \/ RemoveLock(s)
  BY <1>2 DEF MoveGuard, RemakeGuard, Recheck, Confirm, RemoveLock, TakeGuard
<1>3. CASE Reconfirm(s) \/ ReplaceLock(s) \/ ReleaseGuard(s) \/ DropGuard(s)
  BY <1>3 DEF Reconfirm, ReplaceLock, ReleaseGuard, DropGuard, AfterRelease
<1>4. CASE Verify(s) \/ Dispose(s) \/ ReadOwnLock(s) \/ Unlock(s) \/ Die(s)
  BY <1>4 DEF Verify, Dispose, ReadOwnLock, Unlock, Die
<1> QED
  BY <1>1, <1>2, <1>3, <1>4 DEF StoreStep

LEMMA LockIsHeldNext ==
  ASSUME Undisturbed, NEW s \in Stores, StoreStep(s)
  PROVE  LockIsHeld'
<1> SUFFICES ASSUME NEW t \in Stores, Owns(t)'
             PROVE  lock' = Token(t)'
  BY DEF LockIsHeld
<1> USE DEF Undisturbed, TypeInv, TypeOK, At, Goto, GiveUp, LockIsHeld, Owns, Token,
           Unmade, Reclaiming
<1>1. CASE Initialize(s)
  BY <1>1 DEF Initialize
<1>2. CASE Observe(s) \/ CreateGuard(s) \/ LookAtGuard(s) \/ MoveGuard(s) \/ RemakeGuard(s)
  BY <1>2 DEF Observe, CreateGuard, LookAtGuard, MoveGuard, RemakeGuard, TakeGuard
<1>3. CASE CreateLock(s)
  BY <1>3, TokenThere DEF CreateLock
<1>4. CASE Recheck(s) \/ Confirm(s) \/ Reconfirm(s)
  BY <1>4 DEF Recheck, Confirm, Reconfirm
<1>5. CASE RemoveLock(s)
  <2>1. Gone(lock)
    BY <1>5 DEF RemoveLock, Condemned
  <2>2. ~Owns(t)
    BY <2>1, CondemnedUnowned
  <2> QED
    BY <1>5, <2>2 DEF RemoveLock
<1>6. CASE ReplaceLock(s)
  BY <1>6, TokenThere DEF ReplaceLock
<1>7. CASE ReleaseGuard(s) \/ DropGuard(s)
  BY <1>7 DEF ReleaseGuard, DropGuard, AfterRelease
<1>8. CASE Verify(s) \/ Dispose(s) \/ ReadOwnLock(s)
  BY <1>8 DEF Verify, Dispose, ReadOwnLock
<1>9. CASE Unlock(s)
  BY <1>9, OneHolder DEF Unlock
<1>10. CASE Die(s)
  BY <1>10 DEF Die
<1> QED
  BY <1>1, <1>2, <1>3, <1>4, <1>5, <1>6, <1>7, <1>8, <1>9, <1>10 DEF StoreStep

-----------------------------------------------------------------------------
(* The theorems. *)

Inv == TypeInv /\ LockInv

LEMMA InvInit == Init => Inv
<1> SUFFICES ASSUME Init
             PROVE  LockInv
  BY TypeInit DEF Inv
<1> QED
  BY DEF Init, LockInv, GuardIsHeld, Condemned, LockIsHeld, Unmade, Owns, Guarded

LEMMA InvNext == Inv /\ [Next]_vars => Inv'
<1> SUFFICES ASSUME Inv, [Next]_vars, ~displaced'
             PROVE  (GuardIsHeld /\ Condemned /\ LockIsHeld /\ Unmade)'
  BY TypeNext DEF Inv, LockInv
<1>1. Undisturbed
  BY DisplacedStays DEF Inv, LockInv, Undisturbed
<1>2. CASE UNCHANGED vars
  BY <1>1, <1>2 DEF vars, Undisturbed, GuardIsHeld, Condemned, LockIsHeld, Unmade,
                    Owns, Token, Gone, At, Owner
<1>3. CASE GuardAges
  BY <1>1, <1>3 DEF GuardAges, Undisturbed, GuardIsHeld, Condemned, LockIsHeld, Unmade,
                    Owns, Token, Gone, At, Owner
<1>4. ASSUME NEW s \in Stores, StoreStep(s)
      PROVE  (GuardIsHeld /\ Condemned /\ LockIsHeld /\ Unmade)'
  BY <1>1, <1>4, GuardIsHeldNext, CondemnedNext, LockIsHeldNext, UnmadeNext
<1> QED
  BY <1>2, <1>3, <1>4 DEF Next

\* While nobody's guard was moved away under it, the guard belongs to whoever
\* relies on it, a condemned lock is a dead one and an owner's lock is its own
\* (the protocol of reclaimAndCreateLock).
THEOREM LockInvHolds == Spec => []LockInv
BY InvInit, InvNext, PTL DEF Spec, Inv

\* Then no two stores ever own the ledger at once.
THEOREM MutualExclusion == Spec => []OneOwner
<1>1. Inv => OneOwner
  <2> SUFFICES ASSUME Inv, ~displaced, NEW s \in Stores, NEW t \in Stores, Open(s), Open(t)
               PROVE  s = t
    BY DEF OneOwner
  <2>1. Owns(s) /\ Owns(t)
    BY DEF Open, At, Owns
  <2> QED
    BY <2>1, OneHolder DEF Inv, LockInv
<1> QED
  BY InvInit, InvNext, <1>1, PTL DEF Spec

\* And an open store's lock file stays on disk.
THEOREM LockKept == Spec => []LockIsKept
<1>1. Inv => LockIsKept
  BY DEF Inv, LockInv, LockIsKept, LockIsHeld, Open, At, Owns
<1> QED
  BY InvInit, InvNext, <1>1, PTL DEF Spec

\* And a lock file is only ever removed or replaced when its process is dead
\* or is disposing of it.
THEOREM LiveLockSafe == Spec => LiveLockIsSafe
<1> DEFINE Safely == ~displaced /\ lock # None /\ lock' # lock
                       => pc[Owner(lock)] = "dead" \/ pc[Owner(lock)] = "unlock"
<1>1. Inv /\ [Next]_vars => [Safely]_vars
  <2> SUFFICES ASSUME Inv, [Next]_vars, ~displaced, lock # None, lock' # lock
               PROVE  pc[Owner(lock)] = "dead" \/ pc[Owner(lock)] = "unlock"
    OBVIOUS
  <2>1. PICK s \in Stores : StoreStep(s)
    BY DEF Next, vars, GuardAges
  <2>2. RemoveLock(s) \/ Unlock(s)
    BY <2>1 DEF StoreStep, Initialize, CreateLock, Observe, CreateGuard, LookAtGuard,
       MoveGuard, RemakeGuard, Recheck, Confirm, Reconfirm, ReplaceLock, ReleaseGuard,
       DropGuard, Verify, Dispose, ReadOwnLock, Die
  <2>3. CASE RemoveLock(s)
    BY <2>3 DEF RemoveLock, Inv, LockInv, Condemned, Gone, At
  <2>4. CASE Unlock(s)
    BY <2>4, TokenOwner DEF Unlock, Inv, LockInv, LockIsHeld, Owns, At
  <2> QED
    BY <2>2, <2>3, <2>4
<1> QED
  BY InvInit, InvNext, <1>1, PTL DEF Spec, LiveLockIsSafe

-----------------------------------------------------------------------------
(* The run ledger.                                                         *)

LEMMA LedgerTypeInit == Ledger!Init => Ledger!TypeOK
<1> SUFFICES ASSUME Ledger!Init
             PROVE  Ledger!TypeOK
  OBVIOUS
<1>1. file \in Seq(Stores) /\ view \in [Stores -> Seq(Stores)]
  BY EmptySeq DEF Ledger!Init
<1>2. ledgerPc \in [Stores -> Ledger!Labels]
  BY DEF Ledger!Init, Ledger!Labels
<1> QED
  BY <1>1, <1>2 DEF Ledger!Init, Ledger!TypeOK, Ledger!Files

LEMMA LedgerTypeNext == Ledger!TypeOK /\ [Ledger!Next]_Ledger!vars => Ledger!TypeOK'
<1> SUFFICES ASSUME Ledger!TypeOK, [Ledger!Next]_Ledger!vars
             PROVE  Ledger!TypeOK'
  OBVIOUS
<1> USE DEF Ledger!TypeOK, Ledger!At, Ledger!Goto, Ledger!Labels, Ledger!Guarded, Ledger!Holding,
            Ledger!Committing, Ledger!Files, Ledger!locking, Ledger!storing
<1>1. CASE UNCHANGED Ledger!vars
  BY <1>1 DEF Ledger!vars
<1>2. CASE Ledger!GuardAges
  BY <1>2 DEF Ledger!GuardAges
<1>3. ASSUME NEW p \in Stores, Ledger!ProcStep(p)
      PROVE  Ledger!TypeOK'
  <2>1. CASE Ledger!CreateLock(p) \/ Ledger!Verify(p) \/ Ledger!Observe(p)
    BY <2>1 DEF Ledger!CreateLock, Ledger!Verify, Ledger!Observe
  <2>2. CASE Ledger!MakeGuard(p) \/ Ledger!LookAtGuard(p) \/ Ledger!RemakeGuard(p)
    BY <2>2 DEF Ledger!MakeGuard, Ledger!LookAtGuard, Ledger!RemakeGuard, Ledger!TakeGuard
  <2>3. CASE Ledger!MoveGuard(p)
    BY <2>3 DEF Ledger!MoveGuard
  <2>4. CASE Ledger!Recheck(p) \/ Ledger!Confirm(p)
    BY <2>4 DEF Ledger!Recheck, Ledger!Confirm
  <2>5. CASE Ledger!RemoveLock(p) \/ Ledger!ReplaceLock(p)
    BY <2>5 DEF Ledger!RemoveLock, Ledger!ReplaceLock
  <2>6. CASE Ledger!ReleaseGuard(p) \/ Ledger!DropGuard(p)
    BY <2>6 DEF Ledger!ReleaseGuard, Ledger!DropGuard, Ledger!After
  <2>7. CASE Ledger!Read(p)
    BY <2>7 DEF Ledger!Read
  <2>8. CASE Ledger!Compare(p) \/ Ledger!WriteTemporary(p) \/ Ledger!AssertHeld(p)
    BY <2>8 DEF Ledger!Compare, Ledger!WriteTemporary, Ledger!AssertHeld
  <2>9. CASE Ledger!Rename(p)
    <3>1. Append(file, p) \in Seq(Stores)
      BY AppendProperties
    <3> QED
      BY <2>9, <3>1 DEF Ledger!Rename
  <2>10. CASE Ledger!SweepTemporary(p) \/ Ledger!Release(p) \/ Ledger!Unlock(p) \/ Ledger!Die(p)
    BY <2>10 DEF Ledger!SweepTemporary, Ledger!Release, Ledger!Unlock, Ledger!Die
  <2> QED
    BY <1>3, <2>1, <2>2, <2>3, <2>4, <2>5, <2>6, <2>7, <2>8, <2>9, <2>10 DEF Ledger!ProcStep
<1> QED
  BY <1>1, <1>2, <1>3 DEF Ledger!Next

\* The ledger's share of a behaviour is a behaviour of the ledger.
LEMMA LedgerBehaves == Locks => Ledger!Spec
<1>1. LocksInit => Ledger!Init
  BY DEF LocksInit
<1>2. [LocksNext]_<<part, vars, ledgerVars>> => [Ledger!Next]_Ledger!vars
  BY DEF LocksNext, ledgerVars, Ledger!vars
<1> QED
  BY <1>1, <1>2, PTL DEF Locks, Ledger!Spec

\* Every variable of the ledger keeps its type: a lock and a guard have one owner
\* at most, and the record is written by processes.
THEOREM LedgerTypesHold == Locks => []Ledger!TypeOK
BY LedgerBehaves, LedgerTypeInit, LedgerTypeNext, PTL DEF Ledger!Spec

-----------------------------------------------------------------------------
(* The lock.  While no guard was moved away under the one who relies on it,  *)
(* the guard is held by whoever works under it, the lock that is about to be *)
(* removed is that of a dead process, and whoever holds the ledger owns the  *)
(* lock on disk.                                                             *)

LedgerGuardIsHeld == \A p \in Stores : ledgerPc[p] \in Ledger!Guarded => ledgerGuard = {p}
LedgerCondemned == \A p \in Stores : ledgerPc[p] \in {"confirm", "remove"}
    => Ledger!Gone(ledgerLock)
LedgerLockIsHeld == \A p \in Stores : ledgerPc[p] \in Ledger!Holding => ledgerLock = {p}

LedgerUndisturbed == LedgerGuardIsHeld /\ LedgerCondemned /\ LedgerLockIsHeld
LedgerLockInv == Ledger!TypeOK /\ (~ledgerDisplaced => LedgerUndisturbed)

LEMMA LedgerOneUnderGuard ==
  ASSUME LedgerGuardIsHeld, NEW p \in Stores, NEW q \in Stores, ledgerPc[p] \in Ledger!Guarded,
         ledgerPc[q] \in Ledger!Guarded
  PROVE  p = q
BY DEF LedgerGuardIsHeld

LEMMA LedgerHolderLives ==
  ASSUME LedgerLockIsHeld, Ledger!Gone(ledgerLock), NEW p \in Stores
  PROVE  ledgerPc[p] \notin Ledger!Holding
BY DEF LedgerLockIsHeld, Ledger!Gone, Ledger!At, Ledger!Holding, Ledger!Committing

\* Nobody forgets that a guard was moved away.
LEMMA LedgerDisplacedStays == Ledger!TypeOK /\ [Ledger!Next]_Ledger!vars /\ ~ledgerDisplaced'
  => ~ledgerDisplaced
BY DEF Ledger!TypeOK, Ledger!Next, Ledger!ProcStep, Ledger!vars, Ledger!locking, Ledger!storing,
       Ledger!GuardAges, Ledger!CreateLock, Ledger!Verify, Ledger!Observe,
       Ledger!MakeGuard, Ledger!LookAtGuard, Ledger!MoveGuard, Ledger!RemakeGuard,
       Ledger!Recheck, Ledger!Confirm, Ledger!RemoveLock,
       Ledger!ReplaceLock, Ledger!ReleaseGuard, Ledger!DropGuard, Ledger!Read, Ledger!Compare,
       Ledger!WriteTemporary, Ledger!AssertHeld,
       Ledger!Rename, Ledger!SweepTemporary, Ledger!Release, Ledger!Unlock, Ledger!Die

LEMMA LedgerGuardIsHeldNext ==
  ASSUME Ledger!TypeOK, LedgerGuardIsHeld, ~ledgerDisplaced', NEW p \in Stores, Ledger!ProcStep(p)
  PROVE  LedgerGuardIsHeld'
<1> SUFFICES ASSUME NEW q \in Stores, ledgerPc'[q] \in Ledger!Guarded
             PROVE  ledgerGuard' = {q}
  BY DEF LedgerGuardIsHeld
<1> USE DEF Ledger!TypeOK, Ledger!At, Ledger!Goto, Ledger!Guarded, LedgerGuardIsHeld,
            Ledger!locking, Ledger!storing
<1>1. CASE Ledger!CreateLock(p) \/ Ledger!Verify(p) \/ Ledger!Observe(p) \/ Ledger!LookAtGuard(p)
  BY <1>1 DEF Ledger!CreateLock, Ledger!Verify, Ledger!Observe, Ledger!LookAtGuard
<1>2. CASE Ledger!MakeGuard(p) \/ Ledger!RemakeGuard(p)
  BY <1>2 DEF Ledger!MakeGuard, Ledger!RemakeGuard, Ledger!TakeGuard
<1>3. CASE Ledger!MoveGuard(p)
  BY <1>3 DEF Ledger!MoveGuard
<1>4. CASE Ledger!Recheck(p) \/ Ledger!Confirm(p) \/ Ledger!RemoveLock(p) \/ Ledger!ReplaceLock(p)
  BY <1>4 DEF Ledger!Recheck, Ledger!Confirm, Ledger!RemoveLock, Ledger!ReplaceLock
<1>5. CASE Ledger!ReleaseGuard(p)
  BY <1>5 DEF Ledger!ReleaseGuard, Ledger!After
<1>6. CASE Ledger!DropGuard(p)
  BY <1>6, LedgerOneUnderGuard DEF Ledger!DropGuard, Ledger!After
<1>7. CASE Ledger!Read(p) \/ Ledger!Compare(p) \/ Ledger!WriteTemporary(p)
           \/ Ledger!AssertHeld(p) \/ Ledger!Rename(p)
  BY <1>7 DEF Ledger!Read, Ledger!Compare, Ledger!WriteTemporary, Ledger!AssertHeld, Ledger!Rename
<1>8. CASE Ledger!SweepTemporary(p) \/ Ledger!Release(p) \/ Ledger!Unlock(p) \/ Ledger!Die(p)
  BY <1>8 DEF Ledger!SweepTemporary, Ledger!Release, Ledger!Unlock, Ledger!Die
<1> QED
  BY <1>1, <1>2, <1>3, <1>4, <1>5, <1>6, <1>7, <1>8 DEF Ledger!ProcStep

LEMMA LedgerGoneStays ==
  ASSUME Ledger!TypeOK, NEW p \in Stores, Ledger!ProcStep(p), Ledger!Gone(ledgerLock),
         ledgerLock' = ledgerLock
  PROVE  Ledger!Gone(ledgerLock)'
<1> PICK d \in Stores : ledgerLock = {d} /\ ledgerPc[d] = "dead"
  BY DEF Ledger!TypeOK, Ledger!Files, Ledger!Gone, Ledger!At
<1>1. ledgerPc'[d] = "dead"
  BY DEF Ledger!ProcStep, Ledger!TypeOK, Ledger!At, Ledger!Goto, Ledger!After, Ledger!TakeGuard,
         Ledger!locking, Ledger!storing, Ledger!CreateLock, Ledger!Verify,
         Ledger!Observe, Ledger!MakeGuard, Ledger!LookAtGuard, Ledger!MoveGuard,
         Ledger!RemakeGuard, Ledger!Recheck, Ledger!Confirm, Ledger!RemoveLock,
         Ledger!ReplaceLock, Ledger!ReleaseGuard, Ledger!DropGuard, Ledger!Read, Ledger!Compare,
         Ledger!WriteTemporary, Ledger!AssertHeld,
         Ledger!Rename, Ledger!SweepTemporary, Ledger!Release, Ledger!Unlock, Ledger!Die
<1> QED
  BY <1>1 DEF Ledger!Gone, Ledger!At

LEMMA LedgerCondemnedNext ==
  ASSUME Ledger!TypeOK, LedgerUndisturbed, NEW p \in Stores, Ledger!ProcStep(p)
  PROVE  LedgerCondemned'
<1> SUFFICES ASSUME NEW q \in Stores, ledgerPc'[q] \in {"confirm", "remove"}
             PROVE  Ledger!Gone(ledgerLock)'
  BY DEF LedgerCondemned
<1>1. Ledger!Gone(ledgerLock) /\ ledgerLock' = ledgerLock
  <2> USE DEF Ledger!TypeOK, LedgerUndisturbed, LedgerCondemned, Ledger!At, Ledger!Goto,
              Ledger!locking, Ledger!storing
  <2>1. CASE Ledger!Verify(p) \/ Ledger!Observe(p) \/ Ledger!MakeGuard(p)
             \/ Ledger!LookAtGuard(p) \/ Ledger!MoveGuard(p)
    BY <2>1 DEF Ledger!Verify, Ledger!Observe, Ledger!MakeGuard, Ledger!LookAtGuard,
                Ledger!MoveGuard, Ledger!TakeGuard
  <2>2. CASE Ledger!CreateLock(p) \/ Ledger!ReplaceLock(p)
    BY <2>2 DEF Ledger!CreateLock, Ledger!ReplaceLock, Ledger!Gone
  <2>3. CASE Ledger!RemakeGuard(p) \/ Ledger!Recheck(p) \/ Ledger!Confirm(p)
    BY <2>3 DEF Ledger!RemakeGuard, Ledger!Recheck, Ledger!Confirm, Ledger!TakeGuard
  <2>4. CASE Ledger!RemoveLock(p)
    BY <2>4, LedgerOneUnderGuard DEF Ledger!RemoveLock, Ledger!Guarded
  <2>5. CASE Ledger!ReleaseGuard(p) \/ Ledger!DropGuard(p)
    BY <2>5 DEF Ledger!ReleaseGuard, Ledger!DropGuard, Ledger!After
  <2>6. CASE Ledger!Read(p) \/ Ledger!Compare(p) \/ Ledger!WriteTemporary(p)
             \/ Ledger!AssertHeld(p) \/ Ledger!Rename(p)
    BY <2>6 DEF Ledger!Read, Ledger!Compare, Ledger!WriteTemporary, Ledger!AssertHeld,
                Ledger!Rename
  <2>7. CASE Ledger!SweepTemporary(p) \/ Ledger!Release(p) \/ Ledger!Die(p)
    BY <2>7 DEF Ledger!SweepTemporary, Ledger!Release, Ledger!Die
  <2>8. CASE Ledger!Unlock(p)
    <3>1. ledgerPc[p] \in Ledger!Holding /\ Ledger!Gone(ledgerLock)
      BY <2>8 DEF Ledger!Unlock, Ledger!Holding
    <3> QED
      BY <3>1, LedgerHolderLives
  <2> QED
    BY <2>1, <2>2, <2>3, <2>4, <2>5, <2>6, <2>7, <2>8 DEF Ledger!ProcStep
<1> QED
  BY <1>1, LedgerGoneStays

LEMMA LedgerLockIsHeldNext ==
  ASSUME Ledger!TypeOK, LedgerUndisturbed, NEW p \in Stores, Ledger!ProcStep(p)
  PROVE  LedgerLockIsHeld'
<1> SUFFICES ASSUME NEW q \in Stores, ledgerPc'[q] \in Ledger!Holding
             PROVE  ledgerLock' = {q}
  BY DEF LedgerLockIsHeld
<1> USE DEF Ledger!TypeOK, LedgerUndisturbed, LedgerLockIsHeld, Ledger!Holding,
            Ledger!Committing, Ledger!At, Ledger!Goto, Ledger!locking, Ledger!storing
<1>1. CASE Ledger!CreateLock(p) \/ Ledger!ReplaceLock(p)
  BY <1>1 DEF Ledger!CreateLock, Ledger!ReplaceLock
<1>2. CASE Ledger!Verify(p)
  BY <1>2 DEF Ledger!Verify
<1>3. CASE Ledger!Observe(p) \/ Ledger!MakeGuard(p) \/ Ledger!LookAtGuard(p)
           \/ Ledger!MoveGuard(p) \/ Ledger!RemakeGuard(p)
  BY <1>3 DEF Ledger!Observe, Ledger!MakeGuard, Ledger!LookAtGuard, Ledger!MoveGuard,
              Ledger!RemakeGuard, Ledger!TakeGuard
<1>4. CASE Ledger!Recheck(p) \/ Ledger!Confirm(p)
  BY <1>4 DEF Ledger!Recheck, Ledger!Confirm
<1>5. CASE Ledger!RemoveLock(p)
  <2>1. Ledger!Gone(ledgerLock)
    BY <1>5 DEF Ledger!RemoveLock, LedgerCondemned
  <2>2. ledgerPc[q] \notin Ledger!Holding
    BY <2>1, LedgerHolderLives
  <2> QED
    BY <1>5, <2>2 DEF Ledger!RemoveLock
<1>6. CASE Ledger!ReleaseGuard(p) \/ Ledger!DropGuard(p)
  BY <1>6 DEF Ledger!ReleaseGuard, Ledger!DropGuard, Ledger!After
<1>7. CASE Ledger!Read(p) \/ Ledger!Compare(p) \/ Ledger!WriteTemporary(p)
           \/ Ledger!AssertHeld(p) \/ Ledger!Rename(p)
  BY <1>7 DEF Ledger!Read, Ledger!Compare, Ledger!WriteTemporary, Ledger!AssertHeld, Ledger!Rename
<1>8. CASE Ledger!SweepTemporary(p) \/ Ledger!Release(p) \/ Ledger!Unlock(p) \/ Ledger!Die(p)
  BY <1>8 DEF Ledger!SweepTemporary, Ledger!Release, Ledger!Unlock, Ledger!Die
<1> QED
  BY <1>1, <1>2, <1>3, <1>4, <1>5, <1>6, <1>7, <1>8 DEF Ledger!ProcStep

LEMMA LedgerLockInvInit == Ledger!Init => LedgerLockInv
BY LedgerTypeInit DEF Ledger!Init, LedgerLockInv, LedgerUndisturbed, LedgerGuardIsHeld,
                      LedgerCondemned, LedgerLockIsHeld, Ledger!Guarded,
                Ledger!Holding, Ledger!Committing

LEMMA LedgerLockInvNext == LedgerLockInv /\ [Ledger!Next]_Ledger!vars => LedgerLockInv'
<1> SUFFICES ASSUME LedgerLockInv, [Ledger!Next]_Ledger!vars, ~ledgerDisplaced'
             PROVE  LedgerUndisturbed'
  BY LedgerTypeNext DEF LedgerLockInv
<1>1. Ledger!TypeOK /\ LedgerUndisturbed
  BY LedgerDisplacedStays DEF LedgerLockInv
<1>2. CASE UNCHANGED Ledger!vars \/ Ledger!GuardAges
  BY <1>1, <1>2 DEF Ledger!vars, Ledger!GuardAges, Ledger!storing, LedgerUndisturbed,
                    LedgerGuardIsHeld, LedgerCondemned, LedgerLockIsHeld,
                    Ledger!Gone, Ledger!At
<1>3. ASSUME NEW p \in Stores, Ledger!ProcStep(p)
      PROVE  LedgerUndisturbed'
  BY <1>1, <1>3, LedgerGuardIsHeldNext, LedgerCondemnedNext, LedgerLockIsHeldNext
     DEF LedgerUndisturbed
<1> QED
  BY <1>2, <1>3 DEF Ledger!Next

\* As long as no guard was moved away under the one who relied on it, one process
\* at most holds the ledger, whatever dies, fails or is slow (tryReclaim).
THEOREM LedgerHasOneHolderHolds == Locks => []LedgerHasOneHolder
<1>1. LedgerLockInv => LedgerHasOneHolder
  BY DEF LedgerLockInv, LedgerUndisturbed, LedgerLockIsHeld, LedgerHasOneHolder, Ledger!OneHolder
<1> QED
  BY LedgerBehaves, LedgerLockInvInit, LedgerLockInvNext, <1>1, PTL DEF Ledger!Spec

-----------------------------------------------------------------------------
(* Commits. *)

\* A commit slips only where the holder does not own the lock.
LEMMA SlipNext == LedgerLockInv /\ Ledger!SlipNeedsDisplacement /\ [Ledger!Next]_Ledger!vars
  => Ledger!SlipNeedsDisplacement'
<1> SUFFICES ASSUME LedgerLockInv, Ledger!SlipNeedsDisplacement, [Ledger!Next]_Ledger!vars,
                    slipped', ~ledgerDisplaced'
             PROVE  FALSE
  BY DEF Ledger!SlipNeedsDisplacement
<1>1. ~ledgerDisplaced /\ ~slipped /\ LedgerLockIsHeld
  BY LedgerDisplacedStays DEF LedgerLockInv, LedgerUndisturbed, Ledger!SlipNeedsDisplacement
<1>2. \A p \in Stores : Ledger!Rename(p) => ~slipped'
  BY <1>1 DEF Ledger!Rename, LedgerLockIsHeld, Ledger!Holding, Ledger!Committing, Ledger!At
<1>3. \A p \in Stores : Ledger!ProcStep(p) => Ledger!Rename(p) \/ slipped' = slipped
  BY DEF Ledger!ProcStep, Ledger!storing, Ledger!CreateLock, Ledger!Verify, Ledger!Observe,
         Ledger!MakeGuard, Ledger!LookAtGuard, Ledger!MoveGuard,
         Ledger!RemakeGuard, Ledger!Recheck, Ledger!Confirm, Ledger!RemoveLock,
         Ledger!ReplaceLock, Ledger!ReleaseGuard, Ledger!DropGuard, Ledger!Read,
         Ledger!Compare, Ledger!WriteTemporary, Ledger!AssertHeld, Ledger!SweepTemporary,
         Ledger!Release, Ledger!Unlock, Ledger!Die
<1> QED
  BY <1>1, <1>2, <1>3 DEF Ledger!Next, Ledger!vars, Ledger!GuardAges, Ledger!storing

\* Only where a guard was moved away can a record be replaced by a process that
\* has lost the ledger between its last look at the lock and the rename (commit).
THEOREM LedgerSlipNeedsDisplacementHolds == Locks => []LedgerSlipNeedsDisplacement
<1>1. Ledger!Init => Ledger!SlipNeedsDisplacement
  BY DEF Ledger!Init, Ledger!SlipNeedsDisplacement
<1>2. Ledger!SlipNeedsDisplacement => LedgerSlipNeedsDisplacement
  BY DEF LedgerSlipNeedsDisplacement
<1> QED
  BY LedgerBehaves, LedgerLockInvInit, LedgerLockInvNext, <1>1, <1>2, SlipNext, PTL
     DEF Ledger!Spec

\* Whoever is about to commit and still owns the lock has seen the record it
\* replaces; and where one has slipped the promise is excused.
CommitReady ==
  slipped \/ \A p \in Stores : ledgerPc[p] \in Ledger!Committing /\ ledgerLock = {p}
      => view[p] = file
CommitInv == Ledger!TypeOK /\ CommitReady

LEMMA CommitReadyNext == CommitInv /\ [Ledger!Next]_Ledger!vars => CommitReady'
<1> SUFFICES ASSUME CommitInv, [Ledger!Next]_Ledger!vars, ~slipped',
                    NEW q \in Stores, ledgerPc'[q] \in Ledger!Committing, ledgerLock' = {q}
             PROVE  view'[q] = file'
  BY DEF CommitReady
<1> USE DEF CommitInv, CommitReady, Ledger!TypeOK, Ledger!At, Ledger!Goto, Ledger!Committing,
            Ledger!locking, Ledger!storing
<1>1. CASE UNCHANGED Ledger!vars \/ Ledger!GuardAges
  BY <1>1 DEF Ledger!vars, Ledger!GuardAges
<1>2. ASSUME NEW p \in Stores, Ledger!ProcStep(p)
      PROVE  view'[q] = file'
  <2>1. CASE Ledger!CreateLock(p) \/ Ledger!Verify(p) \/ Ledger!Observe(p)
             \/ Ledger!MakeGuard(p) \/ Ledger!LookAtGuard(p)
    BY <2>1 DEF Ledger!CreateLock, Ledger!Verify, Ledger!Observe, Ledger!MakeGuard,
                Ledger!LookAtGuard, Ledger!TakeGuard
  <2>2. CASE Ledger!MoveGuard(p) \/ Ledger!RemakeGuard(p) \/ Ledger!Recheck(p)
             \/ Ledger!Confirm(p)
    BY <2>2 DEF Ledger!MoveGuard, Ledger!RemakeGuard, Ledger!Recheck, Ledger!Confirm,
                Ledger!TakeGuard
  <2>3. CASE Ledger!RemoveLock(p) \/ Ledger!ReplaceLock(p)
    BY <2>3 DEF Ledger!RemoveLock, Ledger!ReplaceLock
  <2>4. CASE Ledger!ReleaseGuard(p) \/ Ledger!DropGuard(p)
    BY <2>4 DEF Ledger!ReleaseGuard, Ledger!DropGuard, Ledger!After
  <2>5. CASE Ledger!Read(p) \/ Ledger!Compare(p)
    BY <2>5 DEF Ledger!Read, Ledger!Compare
  <2>6. CASE Ledger!WriteTemporary(p) \/ Ledger!AssertHeld(p)
    BY <2>6 DEF Ledger!WriteTemporary, Ledger!AssertHeld
  <2>7. CASE Ledger!Rename(p)
    BY <2>7 DEF Ledger!Rename
  <2>8. CASE Ledger!SweepTemporary(p) \/ Ledger!Release(p) \/ Ledger!Unlock(p) \/ Ledger!Die(p)
    BY <2>8 DEF Ledger!SweepTemporary, Ledger!Release, Ledger!Unlock, Ledger!Die
  <2> QED
    BY <1>2, <2>1, <2>2, <2>3, <2>4, <2>5, <2>6, <2>7, <2>8 DEF Ledger!ProcStep
<1> QED
  BY <1>1, <1>2 DEF Ledger!Next

\* A rename is a commit of the register, a read a read, and the rest changes
\* nothing of it.
LEMMA RegisterStep == CommitInv /\ [Ledger!Next]_Ledger!vars
  => [Ledger!Promise!Next]_Ledger!Promise!vars
<1> SUFFICES ASSUME CommitInv, Ledger!Next
             PROVE  Ledger!Promise!Next \/ UNCHANGED <<file, view, slipped>>
  BY DEF Ledger!vars, Ledger!Promise!vars
<1>1. ASSUME NEW p \in Stores, Ledger!Read(p)
      PROVE  Ledger!Promise!Read(p)
  BY <1>1 DEF Ledger!Read, Ledger!Promise!Read
<1>2. ASSUME NEW p \in Stores, Ledger!Rename(p)
      PROVE  Ledger!Promise!Commit(p) \/ UNCHANGED <<file, view, slipped>>
  <2>1. CASE UNCHANGED <<file, view, slipped>>
    BY <2>1
  <2>2. CASE /\ file' = Append(file, p) /\ view' = [view EXCEPT ![p] = file']
             /\ slipped' = (slipped \/ ledgerLock # {p})
    <3>1. slipped' \in {slipped, TRUE}
      BY <2>2 DEF CommitInv, Ledger!TypeOK
    <3>2. slipped' \/ view[p] = file
      BY <1>2, <2>2 DEF Ledger!Rename, Ledger!At, CommitInv, CommitReady, Ledger!Committing
    <3> QED
      BY <2>2, <3>1, <3>2 DEF Ledger!Promise!Commit
  <2> QED
    BY <1>2, <2>1, <2>2 DEF Ledger!Rename
<1>3. ASSUME NEW p \in Stores, Ledger!ProcStep(p), ~Ledger!Read(p), ~Ledger!Rename(p)
      PROVE  UNCHANGED <<file, view, slipped>>
  BY <1>3 DEF Ledger!ProcStep, Ledger!storing, Ledger!CreateLock, Ledger!Verify, Ledger!Observe,
              Ledger!MakeGuard, Ledger!LookAtGuard, Ledger!MoveGuard,
              Ledger!RemakeGuard, Ledger!Recheck, Ledger!Confirm, Ledger!RemoveLock,
              Ledger!ReplaceLock, Ledger!ReleaseGuard, Ledger!DropGuard,
              Ledger!Compare, Ledger!WriteTemporary, Ledger!AssertHeld, Ledger!SweepTemporary,
              Ledger!Release, Ledger!Unlock, Ledger!Die
<1> QED
  BY <1>1, <1>2, <1>3 DEF Ledger!Next, Ledger!GuardAges, Ledger!storing, Ledger!Promise!Next

\* The commits of all processes, with the lock, the digest that is compared and the
\* guard of the commit, implement the register of AtomicRecord: no update is lost
\* but by one who lost the ledger at the last moment, and that is excused for good.
THEOREM LedgerIsRegisterHolds == Locks => LedgerIsRegister
<1>1. Ledger!Init => CommitInv /\ Ledger!Promise!Init
  BY LedgerTypeInit DEF Ledger!Init, CommitInv, CommitReady, Ledger!Committing,
                        Ledger!Promise!Init
<1>2. CommitInv /\ [Ledger!Next]_Ledger!vars => CommitInv'
  BY LedgerTypeNext, CommitReadyNext DEF CommitInv
<1> QED
  BY LedgerBehaves, <1>1, <1>2, RegisterStep, PTL
     DEF Ledger!Spec, LedgerIsRegister, Ledger!Register, Ledger!Promise!Spec
=============================================================================
