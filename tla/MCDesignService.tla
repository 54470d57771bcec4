---------------------------- MODULE MCDesignService ----------------------------
(* Small instances of DesignService for TLC: the callers are model values. *)
EXTENDS DesignService, TLC

CONSTANTS c1, c2

\* The callers only differ in name.
CallerSymmetry == Permutations(Callers)
=============================================================================
