------------------------------ MODULE MCDesignSave ------------------------------
(* Small instances of DesignSave for TLC: the pages are model values. *)
EXTENDS DesignSave, TLC

CONSTANTS p1, p2

\* The pages only differ in name.
PageSymmetry == Permutations(Pages)
=============================================================================
