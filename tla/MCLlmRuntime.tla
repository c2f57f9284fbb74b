---------------------------- MODULE MCLlmRuntime ----------------------------
(***************************************************************************)
(* LlmRuntime for TLC: two models, one of them with two backend            *)
(* selections, so that a changed selection restarts the same model.        *)
(***************************************************************************)
EXTENDS LlmRuntime, TLC

T(m, k) == [model |-> m, key |-> k]
TwoModels == {T("a", 1), T("b", 1)}
ThreeTargets == TwoModels \cup {T("a", 2)}
MCNoTarget == [model |-> "none", key |-> 0]

Symmetry == Permutations(Requests)
=============================================================================
