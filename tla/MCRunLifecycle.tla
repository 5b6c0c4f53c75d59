--------------------------- MODULE MCRunLifecycle ---------------------------
(* Instances of RunLifecycle.                                              *)
EXTENDS RunLifecycle, TLC

Symmetry == Permutations(Reports)
=============================================================================
