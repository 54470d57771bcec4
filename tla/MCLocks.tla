-------------------------------- MODULE MCLocks --------------------------------
(***************************************************************************)
(* The two locks of the plugin for TLC, StoreLock and RunLedger.  They     *)
(* share no file: a behaviour is one of either, and the other stays in its *)
(* initial state.                                                          *)
(***************************************************************************)
EXTENDS StoreLock, TLC

CONSTANTS s1, s2, s3, s4, MaxCommits

VARIABLES part, ledgerLock, ledgerGuard, ledgerAged, ledgerPc, ledgerSeen,
          file, view, temps, ledgerDisplaced, slipped
ledgerVars == <<ledgerLock, ledgerGuard, ledgerAged, ledgerPc, ledgerSeen,
                file, view, temps, ledgerDisplaced, slipped>>

Ledger == INSTANCE RunLedger WITH
  Procs <- Stores, lock <- ledgerLock, guard <- ledgerGuard, aged <- ledgerAged, pc <- ledgerPc,
  seen <- ledgerSeen, displaced <- ledgerDisplaced

\* The processes only differ in name.
Symmetry == Permutations(Stores)

LocksInit == part \in {"store", "ledger"} /\ Init /\ Ledger!Init
LocksNext ==
  /\ UNCHANGED part
  /\ \/ part = "store" /\ Next /\ UNCHANGED ledgerVars
     \/ part = "ledger" /\ Ledger!Next /\ UNCHANGED vars
Locks == LocksInit /\ [][LocksNext]_<<part, vars, ledgerVars>>

\* OneHolder of RunLedger: as long as no guard was moved away under its owner,
\* one process at most holds the ledger.
LedgerHasOneHolder == Ledger!OneHolder
\* SlipNeedsDisplacement of RunLedger: only after such a move can a commit replace
\* the record after its process has lost the ledger.
LedgerSlipNeedsDisplacement == Ledger!SlipNeedsDisplacement
\* Register of RunLedger: the commits of all processes implement AtomicRecord.
LedgerIsRegister == Ledger!Register
=============================================================================
