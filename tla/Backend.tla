------------------------------ MODULE Backend ------------------------------
(***************************************************************************)
(* What a supervised backend promises the rest of the gateway: at most one *)
(* process at a time, every process covered by a memory reservation from   *)
(* before it is spawned until after it has exited, and none once the       *)
(* supervisor's shutdown has returned.                                     *)
(***************************************************************************)
CONSTANT Pids

VARIABLES live,      \* the processes that run
          reserved,  \* the memory ledger holds a reservation for the runtime
          closed     \* shutdown() has returned

backendVars == <<live, reserved, closed>>

Init ==
    /\ live = {}
    /\ reserved = FALSE
    /\ closed = FALSE

Reserve ==
    /\ ~closed /\ ~reserved
    /\ reserved' = TRUE
    /\ UNCHANGED <<live, closed>>

Spawn(p) ==
    /\ ~closed /\ reserved /\ live = {}
    /\ live' = {p}
    /\ UNCHANGED <<reserved, closed>>

Exit(p) ==
    /\ live = {p}
    /\ live' = {}
    /\ UNCHANGED <<reserved, closed>>

Release ==
    /\ live = {} /\ reserved
    /\ reserved' = FALSE
    /\ UNCHANGED <<live, closed>>

Close ==
    /\ live = {} /\ ~reserved
    /\ closed' = TRUE
    /\ UNCHANGED <<live, reserved>>

Next ==
    \/ Reserve \/ Release \/ Close
    \/ \E p \in Pids : Spawn(p) \/ Exit(p)

Spec == Init /\ [][Next]_backendVars
=============================================================================
