-------------------------- MODULE MCCycleCollector --------------------------
(* Constants of CycleCollector for TLC; the objects are interchangeable. *)
EXTENDS CycleCollector, TLC

CONSTANTS o1, o2, o3

MCObjects == {o1, o2, o3}
Symmetry == Permutations(MCObjects)
=============================================================================
