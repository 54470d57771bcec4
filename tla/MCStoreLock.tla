------------------------------ MODULE MCStoreLock ------------------------------
(* Small instances of StoreLock for TLC: the stores are model values. *)
EXTENDS StoreLock, TLC

CONSTANTS s1, s2, s3, s4

\* The stores only differ in name.
StoreSymmetry == Permutations(Stores)
=============================================================================
