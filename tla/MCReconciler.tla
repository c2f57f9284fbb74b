---------------------------- MODULE MCReconciler ----------------------------
(* Reconciler for TLC: two models and configurations that move between them. *)
EXTENDS Reconciler

SmallRequests == 1..3
TwoModels == {"a", "b"}
SmallConfigs ==
    {[model |-> "a", selected |-> TwoModels], [model |-> "b", selected |-> TwoModels],
     [model |-> "a", selected |-> {}]}
FirstConfig == [model |-> "a", selected |-> TwoModels]
OneRecovery == {1}
=============================================================================
