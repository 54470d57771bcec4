------------------------------ MODULE AtomicRecord ------------------------------
(***************************************************************************)
(* What the run ledger promises of a record (server/ledger/atomic-json.ts, *)
(* the comment of createAtomicJson): whoever replaces it had read the one  *)
(* it replaces, so that no update is lost, unless a lock was lost at the   *)
(* last moment.  A record is the sequence of those who wrote it.           *)
(***************************************************************************)
EXTENDS Sequences

CONSTANT Procs

VARIABLES
  log,     \* the record on disk
  view,    \* what each process knows of it
  excused  \* a process lost its lock between the guard and the rename
vars == <<log, view, excused>>

Init ==
  /\ log = <<>> /\ view = [p \in Procs |-> <<>>] /\ excused = FALSE

Read(p) ==
  /\ view' = [view EXCEPT ![p] = log]
  /\ UNCHANGED <<log, excused>>

Commit(p) ==
  /\ excused' \in {excused, TRUE}
  /\ excused' \/ view[p] = log
  /\ log' = Append(log, p)
  /\ view' = [view EXCEPT ![p] = log']

Next == \E p \in Procs : Read(p) \/ Commit(p)

Spec == Init /\ [][Next]_vars
=============================================================================
