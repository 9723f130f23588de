-------------------------- MODULE MCMinerLifecycle --------------------------
(* Two threads that share the handle: interchangeable. *)
EXTENDS MinerLifecycle, TLC

MCSymmetry == Permutations(Callers)
=============================================================================
