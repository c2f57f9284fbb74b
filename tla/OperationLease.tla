--------------------------- MODULE OperationLease ---------------------------
(***************************************************************************)
(* What the root operation lease promises its callers: one process at a    *)
(* time, a lease that outlives its starter while it is handed to the       *)
(* gateway the starter launched, and a lease that a dead process loses.    *)
(*                                                                         *)
(* The promise is void from the step that moves a live process's mutation  *)
(* lock aside (`void'), see RootOwnership.                                 *)
(***************************************************************************)

CONSTANTS Procs,      \* processes, one pid each
          Claimants,  \* the processes that may claim a handed-off lease
          Nobody

VARIABLES holder,     \* the process that has the lease, or Nobody
          handoff,    \* "no", "open" (handed off, unclaimed) or "expired"
          gone,       \* processes that have exited or crashed
          void        \* TRUE once the promise no longer stands

leaseVars == <<holder, handoff>>

Init ==
    /\ holder = Nobody
    /\ handoff = "no"

Acquire(p) ==
    /\ holder = Nobody
    /\ p \notin gone
    /\ holder' = p
    /\ UNCHANGED handoff

Release(p) ==
    /\ holder = p
    /\ handoff = "no"
    /\ p \notin gone
    /\ holder' = Nobody
    /\ UNCHANGED handoff

HandOff(p) ==
    /\ holder = p
    /\ handoff = "no"
    /\ p \notin gone
    /\ handoff' = "open"
    /\ UNCHANGED holder

Claim(p) ==
    /\ handoff = "open"
    /\ p \in Claimants \ gone
    /\ holder' = p
    /\ handoff' = "no"

Expire ==
    /\ handoff = "open"
    /\ handoff' = "expired"
    /\ UNCHANGED holder

Reclaim ==
    /\ holder # Nobody
    /\ handoff = "expired" \/ (handoff = "no" /\ holder \in gone)
    /\ holder' = Nobody
    /\ handoff' = "no"

Next ==
    \/ \E p \in Procs : Acquire(p) \/ Release(p) \/ HandOff(p) \/ Claim(p)
    \/ Expire
    \/ Reclaim

(***************************************************************************)
(* Every step of an implementation that changes the lease is one of the    *)
(* steps above, for as long as the promise stands.                         *)
(***************************************************************************)
Spec == Init /\ [][void' \/ Next]_leaseVars
=============================================================================
