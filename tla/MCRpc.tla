------------------------------- MODULE MCRpc -------------------------------
(***************************************************************************)
(* Instances of Rpc for TLC: the Calls are interchangeable.                *)
(***************************************************************************)
EXTENDS Rpc, TLC

CONSTANTS k1, k2, k3

CallSymmetry == Permutations(Calls)

=============================================================================
