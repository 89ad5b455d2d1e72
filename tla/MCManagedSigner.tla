-------------------------- MODULE MCManagedSigner --------------------------
(* Small instances of ManagedSigner.                                       *)
EXTENDS ManagedSigner, TLC
CONSTANTS p1, p2
ProcSymmetry == Permutations({p1, p2})
=============================================================================
