------------------------- MODULE MCMemoryController -------------------------
(* Two callers race for a host that cannot hold every pair of demands. *)
EXTENDS MemoryController, TLC

MCDemands == {[projected |-> 2, accelerator |-> 2], [projected |-> 3, accelerator |-> 1]}
OneDemand == {[projected |-> 2, accelerator |-> 1]}
MCReleaseSets == {{"llm"}}
Symmetry == Permutations(Callers)
=============================================================================
