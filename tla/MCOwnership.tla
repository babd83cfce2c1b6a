---------------------------- MODULE MCOwnership ----------------------------
(***************************************************************************)
(* Instances of Ownership for TLC: the processes of one kind, the lock     *)
(* files and the CLIs are interchangeable.                                 *)
(***************************************************************************)
EXTENDS Ownership, TLC

CONSTANTS d1, d2, g1, f1, f2, f3, k1

Symmetry == Permutations({d1, d2}) \union Permutations({f1, f2, f3})

=============================================================================
