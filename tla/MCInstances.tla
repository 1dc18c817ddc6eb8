---------------------------- MODULE MCInstances ----------------------------
(* Instances for TLC: processes are interchangeable. *)
EXTENDS Instances, TLC

ProcessSymmetry == Permutations(Processes)
=============================================================================
