------------------------- MODULE RootOwnershipProofs -------------------------
(***************************************************************************)
(* Proofs about RootOwnership: the locks of a root are typed, a root has   *)
(* one owner at a time, and the operation lock implements OperationLease,  *)
(* for any sets of processes and any number of crashes.                    *)
(***************************************************************************)
EXTENDS RootOwnership, TLAPS

-----------------------------------------------------------------------------
(* The inductive invariant *)

\* Places between asking for the mutation lock and having it, ...
Asking == {"mTry", "mMove", "mCheck"}

\* ... and places at which a process believes it has it.
Inside == {"crit", "opMove", "mRelease"}

\* Places at which a process has the lease object in hand whatever else it does.
Working == {"work", "clear", "stop", "stopped", "clearStopped", "launch", "unwind",
            "gwMkdir", "gwWrite", "gwClear"}

\* Places at which a process has judged the gateway lock stale and removes it next.
Clearing == {"clear", "gwClear", "clearStopped"}

\* A process returns from the mutation lock to a place that its job allows.
Returns(p) ==
    /\ pc[p] \in Asking \union {"crit"} =>
          \/ job[p] = "reclaim" /\ then[p] = "mkdir"
          \/ job[p] = "release" /\ then[p] \in {"ended", "serving"}
          \/ job[p] = "handoff" /\ then[p] = "unwind"
          \/ job[p] = "claim" /\ then[p] = "claim" /\ p \in Managed
    /\ pc[p] = "opMove" => then[p] = "mkdir"
    /\ pc[p] = "mRelease" =>
          then[p] \in {"mkdir", "claim", "ended", "serving", "unwind", "gwMkdir"}
    /\ pc[p] = "mRelease" /\ then[p] = "claim" => p \in Managed
    /\ pc[p] = "claim" => p \in Managed

\* The places at which a process has the lease object in hand.
Holding(p) ==
    \/ pc[p] \in Working
    \/ pc[p] \in Asking \union {"crit"} /\ job[p] \in {"release", "handoff"}
    \/ pc[p] = "mRelease" /\ then[p] \in {"unwind", "gwMkdir"}

\* A process that serves, or will once it has dropped its initialization lease.
Serving(p) ==
    \/ pc[p] \in {"serving", "gwRelease"}
    \/ pc[p] \in Asking \union Inside /\ then[p] = "serving"

\* What holds in every state, whatever was displaced.
Places ==
    /\ \A p \in Procs : Returns(p)
    /\ \A p \in Procs : p \in holds <=> Holding(p)

\* The mutation lock names who is inside, or one that died there; only such a
\* death starts a recovery, and only a recovery displaces.
Recovery ==
    /\ mut \in Procs => pc[mut] \in Inside \/ (pc[mut] = "gone" /\ mutCrash)
    /\ \A p \in Procs : pc[p] \in {"mMove", "mCheck"} => mutCrash
    /\ displaced => mutCrash

\* Nobody is named before it was launched; what nobody owns is not handed off.
Named ==
    /\ op # NoDir /\ op.pid \in Procs => pc[op.pid] # "off"
    /\ op # NoDir /\ op.pid = Nobody => op.handoff = "no"
    /\ gw \in Procs => pc[gw] # "off"

\* The mutation lock excludes.
MutExclusive == \A p \in Procs : pc[p] \in Inside => mut = p

\* The operation lease is its holder's; a directory without owner.json is being
\* written by at most one process; what was judged abandoned still is.
LeaseOwned ==
    /\ \A p \in holds : op = [pid |-> p, handoff |-> "no"]
    /\ \A p \in Procs : pc[p] = "write" => op = [pid |-> Nobody, handoff |-> "no"]
    /\ \A p, q \in Procs : pc[p] = "write" /\ pc[q] = "write" => p = q
    /\ \A p \in Procs : pc[p] = "opMove" =>
          /\ op # NoDir /\ op.pid = seen[p] /\ op.pid \in Procs
          /\ op.handoff = "expired" \/ (op.handoff = "no" /\ Absent(op.pid))

\* The gateway lock is the server's, or its owner's who died.
GatewayOwned ==
    /\ \A p \in Procs : pc[p] = "gwWrite" => gw = Nobody
    /\ \A p \in Procs : pc[p] \in Clearing => gw \in Procs /\ pc[gw] = "gone"
    /\ \A p \in Procs : Serving(p) => gw = p

IInv ==
    /\ TypeOK
    /\ Places
    /\ Recovery
    /\ Named
    /\ ~displaced => MutExclusive /\ LeaseOwned /\ GatewayOwned

-----------------------------------------------------------------------------
(* Every step keeps each part of the invariant *)

\* Every step keeps the types.
LEMMA NextType ==
    ASSUME TypeOK, [Next]_vars
    PROVE  TypeOK'
  <1> USE ProcsAssumption DEF Goto, Mutate, disk, ghosts, TypeOK, Dirs, Jobs, Labels
  <1>1. CASE UNCHANGED vars
    BY <1>1 DEF vars
  <1>2. CASE HandoffExpires
    BY <1>2 DEF HandoffExpires
  <1>3. ASSUME NEW p \in Procs, Step(p)
        PROVE  TypeOK'
    <2>1. CASE Command(p) \/ ManagerLaunch(p)
      BY <2>1 DEF Command, ManagerLaunch
    <2>2. CASE OpMkdir(p) \/ OpExists(p) \/ OpWrite(p) \/ LookForHandoff(p)
           \/ LeaseTimeout(p)
      BY <2>2 DEF OpMkdir, OpExists, OpWrite, WithLease, LookForHandoff,
         LeaseTimeout
    <2>3. CASE MutationMove(p)
      <3>1. displaced' \in BOOLEAN
        BY <2>3, Zenon DEF MutationMove
      <3>2. QED
        BY <2>3, <3>1 DEF MutationMove, MutationThrows, ReleaseLease
    <2>4. CASE MutationTake(p) \/ MutationSeesDead(p) \/ MutationCheck(p) \/
           MutationRelease(p) \/ MutationTimeout(p)
      BY <2>4 DEF MutationTake, MutationSeesDead, MutationCheck, MutationRelease,
         MutationTimeout, MutationThrows, ReleaseLease
    <2>5. CASE HandOff(p)
      BY <2>5 DEF HandOff
    <2>6. CASE Reclaim(p) \/ MoveAbandoned(p) \/ ReleaseOp(p) \/
           ClaimHandoff(p)
      BY <2>6 DEF Reclaim, Abandoned, MoveAbandoned, ReleaseOp, ClaimHandoff
    <2>7. CASE LookStale(p) \/ ClearStale(p) \/ WorkReturns(p) \/
           WorkStops(p) \/ WorkFindsStopped(p)
      BY <2>7 DEF LookStale, SeeStale, OwnerIsDead, ClearStale, RemoveStale,
         WorkReturns, WorkStops, WorkFindsStopped
    <2>8. CASE StopManager(p)
      <3>1. mutCrash' \in BOOLEAN
        BY <2>8, Zenon DEF StopManager
      <3>2. QED
        BY <2>8, <3>1 DEF StopManager
    <2>9. CASE StoppedClean(p)
      BY <2>9 DEF StoppedClean, AfterStop, ManagerStopped
    <2>10. CASE StopTimeout(p)
      BY <2>10 DEF StopTimeout, OwnerIsDead, ManagerStopped
    <2>11. CASE Launch(p)
      BY <2>11 DEF Launch
    <2>12. CASE Unwind(p)
      BY <2>12 DEF Unwind, ReleaseLease
    <2>13. CASE StoppedStale(p) \/ ClearStopped(p)
      BY <2>13 DEF StoppedStale, SeeStale, OwnerIsDead, ManagerStopped,
         ClearStopped, RemoveStale, AfterStop
    <2>14. CASE InitializationFails(p) \/ GwMkdir(p) \/ GwWrite(p) \/
           GwStale(p) \/ GwClear(p) \/ GwRefused(p) \/ Shutdown(p) \/ GwRelease(p)
      BY <2>14 DEF InitializationFails, GwMkdir, GwWrite, GwStale, SeeStale,
         OwnerIsDead, GwClear, RemoveStale, GwRefused, Shutdown, GwRelease
    <2>15. CASE Crash(p)
      <3>1. mutCrash' \in BOOLEAN
        BY <2>15, Zenon DEF Crash
      <3>2. QED
        BY <2>15, <3>1 DEF Crash
    <2>16. CASE Exit(p)
      BY <2>16 DEF Exit
    <2>17. QED
      BY <1>3, <2>1, <2>2, <2>3, <2>4, <2>5, <2>6, <2>7, <2>8, <2>9, <2>10, <2>11,
         <2>12, <2>13, <2>14, <2>15, <2>16 DEF Step
  <1>4. QED
    BY <1>1, <1>2, <1>3 DEF Next, Finished

\* Every step takes its process to a place that its job and its lease allow.
LEMMA NextPlaces ==
    ASSUME TypeOK, Places, [Next]_vars
    PROVE  Places'
  <1> USE ProcsAssumption DEF Goto, Mutate, disk, ghosts, TypeOK, Places, Returns,
          Holding, Working, Asking
  <1>1. CASE UNCHANGED vars
    BY <1>1 DEF vars
  <1>2. CASE HandoffExpires
    BY <1>2 DEF HandoffExpires
  <1>3. ASSUME NEW p \in Procs, Step(p)
        PROVE  Places'
    <2>1. CASE Command(p) \/ ManagerLaunch(p)
      BY <2>1 DEF Command, ManagerLaunch
    <2>2. CASE OpMkdir(p) \/ OpExists(p) \/ OpWrite(p) \/ LookForHandoff(p)
           \/ LeaseTimeout(p)
      BY <2>2 DEF OpMkdir, OpExists, OpWrite, WithLease, LookForHandoff,
         LeaseTimeout
    <2>3. CASE MutationTake(p) \/ MutationSeesDead(p) \/ MutationMove(p) \/
           MutationCheck(p) \/ MutationRelease(p) \/ MutationTimeout(p)
      BY <2>3 DEF MutationTake, MutationSeesDead, MutationMove, MutationThrows,
         ReleaseLease, MutationCheck, MutationRelease, MutationTimeout
    <2>4. CASE ClaimHandoff(p)
      BY <2>4 DEF ClaimHandoff
    <2>5. CASE Reclaim(p) \/ MoveAbandoned(p) \/ ReleaseOp(p) \/ HandOff(p)
      BY <2>5 DEF Reclaim, Abandoned, MoveAbandoned, ReleaseOp, HandOff
    <2>6. CASE LookStale(p) \/ ClearStale(p) \/ WorkReturns(p) \/
           WorkStops(p) \/ WorkFindsStopped(p)
      BY <2>6 DEF LookStale, SeeStale, OwnerIsDead, ClearStale, RemoveStale,
         WorkReturns, WorkStops, WorkFindsStopped
    <2>7. CASE StopManager(p)
      BY <2>7 DEF StopManager
    <2>8. CASE StoppedClean(p) \/ StoppedStale(p) \/ ClearStopped(p) \/
           StopTimeout(p) \/ Launch(p) \/ Unwind(p)
      BY <2>8 DEF StoppedClean, AfterStop, ManagerStopped, StoppedStale, SeeStale,
         OwnerIsDead, ClearStopped, RemoveStale, StopTimeout, Launch, Unwind,
         ReleaseLease
    <2>9. CASE InitializationFails(p) \/ GwMkdir(p) \/ GwWrite(p) \/
           GwStale(p) \/ GwClear(p) \/ GwRefused(p) \/ Shutdown(p) \/ GwRelease(p)
      BY <2>9 DEF InitializationFails, GwMkdir, GwWrite, GwStale, SeeStale,
         OwnerIsDead, GwClear, RemoveStale, GwRefused, Shutdown, GwRelease
    <2>10. CASE Exit(p) \/ Crash(p)
      BY <2>10 DEF Exit, Crash
    <2>11. QED
      BY <1>3, <2>1, <2>2, <2>3, <2>4, <2>5, <2>6, <2>7, <2>8, <2>9, <2>10 DEF Step
  <1>4. QED
    BY <1>1, <1>2, <1>3 DEF Next, Finished

\* A recovery of the mutation lock, and so a displacement, takes a death inside it.
LEMMA NextRecovery ==
    ASSUME TypeOK, Places, Recovery, [Next]_vars
    PROVE  Recovery'
  <1> USE ProcsAssumption DEF Goto, Mutate, disk, ghosts, TypeOK, Recovery, Places,
          Returns, Inside, Asking, Absent
  <1>1. CASE UNCHANGED vars
    BY <1>1 DEF vars
  <1>2. CASE HandoffExpires
    BY <1>2 DEF HandoffExpires
  <1>3. ASSUME NEW p \in Procs, Step(p)
        PROVE  Recovery'
    <2>1. CASE Command(p) \/ ManagerLaunch(p)
      BY <2>1 DEF Command, ManagerLaunch
    <2>2. CASE OpMkdir(p) \/ OpExists(p) \/ OpWrite(p) \/ LookForHandoff(p)
           \/ LeaseTimeout(p)
      BY <2>2 DEF OpMkdir, OpExists, OpWrite, WithLease, LookForHandoff,
         LeaseTimeout
    <2>3. CASE MutationTake(p)
      BY <2>3 DEF MutationTake
    <2>4. CASE MutationSeesDead(p)
      BY <2>4 DEF MutationSeesDead
    <2>5. CASE MutationMove(p)
      BY <2>5 DEF MutationMove, MutationThrows, ReleaseLease
    <2>6. CASE MutationRelease(p)
      BY <2>6 DEF MutationRelease
    <2>7. CASE MutationCheck(p) \/ MutationTimeout(p)
      BY <2>7 DEF MutationCheck, MutationTimeout, MutationThrows, ReleaseLease
    <2>8. CASE Reclaim(p) \/ MoveAbandoned(p) \/ ReleaseOp(p) \/ HandOff(p)
           \/ ClaimHandoff(p)
      BY <2>8 DEF Reclaim, Abandoned, MoveAbandoned, ReleaseOp, HandOff,
         ClaimHandoff
    <2>9. CASE LookStale(p) \/ ClearStale(p) \/ WorkReturns(p) \/
           WorkStops(p) \/ WorkFindsStopped(p)
      BY <2>9 DEF LookStale, SeeStale, OwnerIsDead, ClearStale, RemoveStale,
         WorkReturns, WorkStops, WorkFindsStopped
    <2>10. CASE StopManager(p)
      BY <2>10 DEF StopManager
    <2>11. CASE StoppedClean(p) \/ StoppedStale(p) \/ ClearStopped(p) \/
           StopTimeout(p) \/ Launch(p) \/ Unwind(p)
      BY <2>11 DEF StoppedClean, AfterStop, ManagerStopped, StoppedStale, SeeStale,
         OwnerIsDead, ClearStopped, RemoveStale, StopTimeout, Launch, Unwind,
         ReleaseLease
    <2>12. CASE InitializationFails(p) \/ GwMkdir(p) \/ GwWrite(p) \/
           GwStale(p) \/ GwClear(p) \/ GwRefused(p) \/ Shutdown(p) \/ GwRelease(p)
      BY <2>12 DEF InitializationFails, GwMkdir, GwWrite, GwStale, SeeStale,
         OwnerIsDead, GwClear, RemoveStale, GwRefused, Shutdown, GwRelease
    <2>13. CASE Crash(p)
      BY <2>13 DEF Crash
    <2>14. CASE Exit(p)
      BY <2>14 DEF Exit
    <2>15. QED
      BY <1>3, <2>1, <2>2, <2>3, <2>4, <2>5, <2>6, <2>7, <2>8, <2>9, <2>10, <2>11,
         <2>12, <2>13, <2>14 DEF Step
  <1>4. QED
    BY <1>1, <1>2, <1>3 DEF Next, Finished

\* The locks go on naming processes that were launched.
LEMMA NextNamed ==
    ASSUME TypeOK, Places, Named, [Next]_vars
    PROVE  Named'
  <1> USE ProcsAssumption DEF Goto, Mutate, disk, ghosts, TypeOK, Dirs, Named,
          Places, Returns
  <1>1. CASE UNCHANGED vars
    BY <1>1 DEF vars
  <1>2. CASE HandoffExpires
    BY <1>2 DEF HandoffExpires
  <1>3. ASSUME NEW p \in Procs, Step(p)
        PROVE  Named'
    <2>1. CASE Command(p) \/ ManagerLaunch(p)
      BY <2>1 DEF Command, ManagerLaunch
    <2>2. CASE OpWrite(p)
      BY <2>2 DEF OpWrite, WithLease
    <2>3. CASE OpMkdir(p) \/ OpExists(p) \/ LookForHandoff(p) \/
           LeaseTimeout(p)
      BY <2>3 DEF OpMkdir, OpExists, LookForHandoff, LeaseTimeout
    <2>4. CASE MutationTake(p) \/ MutationSeesDead(p) \/ MutationMove(p) \/
           MutationCheck(p) \/ MutationRelease(p) \/ MutationTimeout(p)
      BY <2>4 DEF MutationTake, MutationSeesDead, MutationMove, MutationThrows,
         ReleaseLease, MutationCheck, MutationRelease, MutationTimeout
    <2>5. CASE HandOff(p)
      BY <2>5 DEF HandOff
    <2>6. CASE ClaimHandoff(p)
      BY <2>6 DEF ClaimHandoff
    <2>7. CASE Reclaim(p) \/ MoveAbandoned(p) \/ ReleaseOp(p)
      BY <2>7 DEF Reclaim, Abandoned, MoveAbandoned, ReleaseOp
    <2>8. CASE LookStale(p) \/ ClearStale(p) \/ WorkReturns(p) \/
           WorkStops(p) \/ WorkFindsStopped(p)
      BY <2>8 DEF LookStale, SeeStale, OwnerIsDead, ClearStale, RemoveStale,
         WorkReturns, WorkStops, WorkFindsStopped
    <2>9. CASE StopManager(p) \/ StoppedClean(p) \/ StoppedStale(p) \/
           ClearStopped(p) \/ StopTimeout(p) \/ Launch(p) \/ Unwind(p)
      BY <2>9 DEF StopManager, StoppedClean, AfterStop, ManagerStopped,
         StoppedStale, SeeStale, OwnerIsDead, ClearStopped, RemoveStale,
         StopTimeout, Launch, Unwind, ReleaseLease
    <2>10. CASE GwWrite(p)
      BY <2>10 DEF GwWrite
    <2>11. CASE InitializationFails(p) \/ GwMkdir(p) \/ GwStale(p) \/
           GwClear(p) \/ GwRefused(p) \/ Shutdown(p) \/ GwRelease(p)
      BY <2>11 DEF InitializationFails, GwMkdir, GwStale, SeeStale, OwnerIsDead,
         GwClear, RemoveStale, GwRefused, Shutdown, GwRelease
    <2>12. CASE Exit(p) \/ Crash(p)
      BY <2>12 DEF Exit, Crash
    <2>13. QED
      BY <1>3, <2>1, <2>2, <2>3, <2>4, <2>5, <2>6, <2>7, <2>8, <2>9, <2>10, <2>11,
         <2>12 DEF Step
  <1>4. QED
    BY <1>1, <1>2, <1>3 DEF Next, Finished

\* At most one process is inside, until one is displaced.
LEMMA NextMut ==
    ASSUME TypeOK, Places, Recovery, MutExclusive, [Next]_vars, ~displaced'
    PROVE  MutExclusive'
  <1> USE ProcsAssumption DEF Goto, Mutate, disk, ghosts, TypeOK, MutExclusive,
          Recovery, Places, Returns, Inside, Asking, Absent
  <1>1. CASE UNCHANGED vars
    BY <1>1 DEF vars
  <1>2. CASE HandoffExpires
    BY <1>2 DEF HandoffExpires
  <1>3. ASSUME NEW p \in Procs, Step(p)
        PROVE  MutExclusive'
    <2>1. CASE Command(p) \/ ManagerLaunch(p)
      BY <2>1 DEF Command, ManagerLaunch
    <2>2. CASE OpMkdir(p) \/ OpExists(p) \/ OpWrite(p) \/ LookForHandoff(p)
           \/ LeaseTimeout(p)
      BY <2>2 DEF OpMkdir, OpExists, OpWrite, WithLease, LookForHandoff,
         LeaseTimeout
    <2>3. CASE MutationTake(p)
      BY <2>3 DEF MutationTake
    <2>4. CASE MutationMove(p)
      BY <2>4 DEF MutationMove, MutationThrows, ReleaseLease
    <2>5. CASE MutationRelease(p)
      BY <2>5 DEF MutationRelease
    <2>6. CASE MutationSeesDead(p) \/ MutationCheck(p) \/ MutationTimeout(p)
      BY <2>6 DEF MutationSeesDead, MutationCheck, MutationTimeout, MutationThrows,
         ReleaseLease
    <2>7. CASE Reclaim(p) \/ MoveAbandoned(p) \/ ReleaseOp(p) \/ HandOff(p)
           \/ ClaimHandoff(p)
      BY <2>7 DEF Reclaim, Abandoned, MoveAbandoned, ReleaseOp, HandOff,
         ClaimHandoff
    <2>8. CASE LookStale(p) \/ ClearStale(p) \/ WorkReturns(p) \/
           WorkStops(p) \/ WorkFindsStopped(p)
      BY <2>8 DEF LookStale, SeeStale, OwnerIsDead, ClearStale, RemoveStale,
         WorkReturns, WorkStops, WorkFindsStopped
    <2>9. CASE StopManager(p)
      BY <2>9 DEF StopManager
    <2>10. CASE StoppedClean(p) \/ StoppedStale(p) \/ ClearStopped(p) \/
           StopTimeout(p) \/ Launch(p) \/ Unwind(p)
      BY <2>10 DEF StoppedClean, AfterStop, ManagerStopped, StoppedStale, SeeStale,
         OwnerIsDead, ClearStopped, RemoveStale, StopTimeout, Launch, Unwind,
         ReleaseLease
    <2>11. CASE InitializationFails(p) \/ GwMkdir(p) \/ GwWrite(p) \/
           GwStale(p) \/ GwClear(p) \/ GwRefused(p) \/ Shutdown(p) \/ GwRelease(p)
      BY <2>11 DEF InitializationFails, GwMkdir, GwWrite, GwStale, SeeStale,
         OwnerIsDead, GwClear, RemoveStale, GwRefused, Shutdown, GwRelease
    <2>12. CASE Exit(p) \/ Crash(p)
      BY <2>12 DEF Exit, Crash
    <2>13. QED
      BY <1>3, <2>1, <2>2, <2>3, <2>4, <2>5, <2>6, <2>7, <2>8, <2>9, <2>10, <2>11,
         <2>12 DEF Step
  <1>4. QED
    BY <1>1, <1>2, <1>3 DEF Next, Finished

\* The lease stays its holder's.
LEMMA NextLease ==
    ASSUME TypeOK, Places, Named, MutExclusive, LeaseOwned,
           [Next]_vars, ~displaced'
    PROVE  LeaseOwned'
  <1> USE ProcsAssumption DEF Goto, Mutate, disk, ghosts, TypeOK, Dirs, LeaseOwned,
          MutExclusive, Places, Named, Returns, Holding, Working, Inside, Asking,
          Absent
  <1>1. CASE UNCHANGED vars
    BY <1>1 DEF vars
  <1>2. CASE HandoffExpires
    BY <1>2 DEF HandoffExpires
  <1>3. ASSUME NEW p \in Procs, Step(p)
        PROVE  LeaseOwned'
    <2>1. CASE Command(p) \/ ManagerLaunch(p)
      BY <2>1 DEF Command, ManagerLaunch
    <2>2. CASE OpMkdir(p)
      BY <2>2 DEF OpMkdir
    <2>3. CASE OpWrite(p)
      BY <2>3 DEF OpWrite, WithLease
    <2>4. CASE OpExists(p) \/ LookForHandoff(p) \/ LeaseTimeout(p)
      BY <2>4 DEF OpExists, LookForHandoff, LeaseTimeout
    <2>5. CASE MutationTake(p) \/ MutationSeesDead(p) \/ MutationMove(p) \/
           MutationCheck(p) \/ MutationRelease(p) \/ MutationTimeout(p)
      BY <2>5 DEF MutationTake, MutationSeesDead, MutationMove, MutationThrows,
         ReleaseLease, MutationCheck, MutationRelease, MutationTimeout
    <2>6. CASE Reclaim(p)
      BY <2>6 DEF Reclaim, Abandoned
    <2>7. CASE MoveAbandoned(p)
      BY <2>7 DEF MoveAbandoned
    <2>8. CASE ReleaseOp(p)
      BY <2>8 DEF ReleaseOp
    <2>9. CASE HandOff(p)
      BY <2>9 DEF HandOff
    <2>10. CASE ClaimHandoff(p)
      BY <2>10 DEF ClaimHandoff
    <2>11. CASE LookStale(p) \/ ClearStale(p) \/ WorkReturns(p) \/
           WorkStops(p) \/ WorkFindsStopped(p)
      BY <2>11 DEF LookStale, SeeStale, OwnerIsDead, ClearStale, RemoveStale,
         WorkReturns, WorkStops, WorkFindsStopped
    <2>12. CASE StopManager(p)
      BY <2>12 DEF StopManager
    <2>13. CASE StoppedClean(p) \/ StoppedStale(p) \/ ClearStopped(p) \/
           StopTimeout(p) \/ Launch(p) \/ Unwind(p)
      BY <2>13 DEF StoppedClean, AfterStop, ManagerStopped, StoppedStale, SeeStale,
         OwnerIsDead, ClearStopped, RemoveStale, StopTimeout, Launch, Unwind,
         ReleaseLease
    <2>14. CASE InitializationFails(p) \/ GwMkdir(p) \/ GwWrite(p) \/
           GwStale(p) \/ GwClear(p) \/ GwRefused(p) \/ Shutdown(p) \/ GwRelease(p)
      BY <2>14 DEF InitializationFails, GwMkdir, GwWrite, GwStale, SeeStale,
         OwnerIsDead, GwClear, RemoveStale, GwRefused, Shutdown, GwRelease
    <2>15. CASE Exit(p) \/ Crash(p)
      BY <2>15 DEF Exit, Crash
    <2>16. QED
      BY <1>3, <2>1, <2>2, <2>3, <2>4, <2>5, <2>6, <2>7, <2>8, <2>9, <2>10, <2>11,
         <2>12, <2>13, <2>14, <2>15 DEF Step
  <1>4. QED
    BY <1>1, <1>2, <1>3 DEF Next, Finished

\* The gateway lock stays its server's.
LEMMA NextGateway ==
    ASSUME TypeOK, Places, Named, LeaseOwned, GatewayOwned,
           [Next]_vars, ~displaced'
    PROVE  GatewayOwned'
  <1> USE ProcsAssumption DEF Goto, Mutate, disk, ghosts, TypeOK, GatewayOwned,
          LeaseOwned, Places, Named, Returns, Holding, Serving, Clearing, Working,
          Inside, Asking, Absent
  <1>1. CASE UNCHANGED vars
    BY <1>1 DEF vars
  <1>2. CASE HandoffExpires
    BY <1>2 DEF HandoffExpires
  <1>3. ASSUME NEW p \in Procs, Step(p)
        PROVE  GatewayOwned'
    <2>1. CASE Command(p) \/ ManagerLaunch(p)
      BY <2>1 DEF Command, ManagerLaunch
    <2>2. CASE OpMkdir(p) \/ OpExists(p) \/ OpWrite(p) \/ LookForHandoff(p)
           \/ LeaseTimeout(p)
      BY <2>2 DEF OpMkdir, OpExists, OpWrite, WithLease, LookForHandoff,
         LeaseTimeout
    <2>3. CASE MutationTake(p) \/ MutationSeesDead(p) \/ MutationMove(p) \/
           MutationCheck(p) \/ MutationRelease(p) \/ MutationTimeout(p)
      BY <2>3 DEF MutationTake, MutationSeesDead, MutationMove, MutationThrows,
         ReleaseLease, MutationCheck, MutationRelease, MutationTimeout
    <2>4. CASE Reclaim(p) \/ MoveAbandoned(p) \/ ReleaseOp(p) \/ HandOff(p)
           \/ ClaimHandoff(p)
      BY <2>4 DEF Reclaim, Abandoned, MoveAbandoned, ReleaseOp, HandOff,
         ClaimHandoff
    <2>5. CASE ClearStale(p)
      BY <2>5 DEF ClearStale, RemoveStale
    <2>6. CASE LookStale(p) \/ WorkReturns(p) \/ WorkStops(p) \/
           WorkFindsStopped(p)
      BY <2>6 DEF LookStale, SeeStale, OwnerIsDead, WorkReturns, WorkStops,
         WorkFindsStopped
    <2>7. CASE StopManager(p)
      BY <2>7 DEF StopManager
    <2>8. CASE ClearStopped(p)
      BY <2>8 DEF ClearStopped, RemoveStale, AfterStop
    <2>9. CASE StoppedClean(p) \/ StoppedStale(p) \/ StopTimeout(p) \/
           Launch(p) \/ Unwind(p)
      BY <2>9 DEF StoppedClean, AfterStop, ManagerStopped, StoppedStale, SeeStale,
         OwnerIsDead, StopTimeout, Launch, Unwind, ReleaseLease
    <2>10. CASE GwMkdir(p)
      BY <2>10 DEF GwMkdir
    <2>11. CASE GwWrite(p)
      BY <2>11 DEF GwWrite
    <2>12. CASE GwClear(p)
      BY <2>12 DEF GwClear, RemoveStale
    <2>13. CASE GwRelease(p)
      BY <2>13 DEF GwRelease
    <2>14. CASE InitializationFails(p) \/ GwStale(p) \/ GwRefused(p) \/
           Shutdown(p)
      BY <2>14 DEF InitializationFails, GwStale, SeeStale, OwnerIsDead, GwRefused,
         Shutdown
    <2>15. CASE Exit(p) \/ Crash(p)
      BY <2>15 DEF Exit, Crash
    <2>16. QED
      BY <1>3, <2>1, <2>2, <2>3, <2>4, <2>5, <2>6, <2>7, <2>8, <2>9, <2>10, <2>11,
         <2>12, <2>13, <2>14, <2>15 DEF Step
  <1>4. QED
    BY <1>1, <1>2, <1>3 DEF Next, Finished

-----------------------------------------------------------------------------
(* The theorems *)

\* The initial states satisfy the invariant.
LEMMA InitIInv == Init => IInv
  <1> SUFFICES ASSUME Init
               PROVE  IInv
    OBVIOUS
  <1> USE ProcsAssumption DEF Init
  <1>1. TypeOK
    <2>1. /\ aside \in [Procs -> Procs \union {NoDir}]
          /\ seen \in [Procs -> Procs \union {Nobody}]
      OBVIOUS
    <2>2. pc \in [Procs -> Labels] /\ job \in [Procs -> Jobs] /\ then \in [Procs -> Labels]
      BY DEF Labels, Jobs
    <2>3. holds \subseteq Procs /\ displaced \in BOOLEAN /\ mutCrash \in BOOLEAN /\ svc \in BOOLEAN
      OBVIOUS
    <2>4. QED
      BY <2>1, <2>2, <2>3 DEF TypeOK
  <1>2. Places /\ Recovery /\ Named
    BY DEF Places, Returns, Holding, Working, Asking, Recovery, Named
  <1>3. MutExclusive /\ LeaseOwned /\ GatewayOwned
    BY DEF MutExclusive, Inside, Asking, LeaseOwned, GatewayOwned, Serving, Clearing
  <1>4. QED
    BY <1>1, <1>2, <1>3 DEF IInv

\* Once a live process's mutation lock was moved aside, that stays on record.
LEMMA DisplacedForever == TypeOK /\ [Next]_vars => (displaced => displaced')
  <1> SUFFICES ASSUME TypeOK, [Next]_vars, displaced
               PROVE  displaced'
    OBVIOUS
  <1> USE DEF TypeOK, disk, ghosts
  <1>1. CASE UNCHANGED vars
    BY <1>1 DEF vars
  <1>2. CASE HandoffExpires
    BY <1>2 DEF HandoffExpires
  <1>3. ASSUME NEW p \in Procs, Step(p)
        PROVE  displaced'
    BY <1>3
       DEF Step, Command, ManagerLaunch, OpMkdir, OpExists, OpWrite, LookForHandoff,
           LeaseTimeout, MutationTake, MutationSeesDead, MutationMove, MutationCheck,
           MutationRelease, MutationTimeout, Reclaim, MoveAbandoned, ReleaseOp, HandOff,
           ClaimHandoff, LookStale, SeeStale, ClearStale, RemoveStale, WorkReturns,
           WorkStops, WorkFindsStopped, StopManager, StoppedClean, StoppedStale,
           ClearStopped, StopTimeout, Launch, Unwind, InitializationFails, GwMkdir,
           GwWrite, GwStale, GwClear, GwRefused, Shutdown, GwRelease, Exit, Crash
  <1>4. QED
    BY <1>1, <1>2, <1>3 DEF Next, Finished

\* The invariant is inductive.
LEMMA NextIInv == IInv /\ [Next]_vars => IInv'
  <1> SUFFICES ASSUME IInv, [Next]_vars
               PROVE  IInv'
    OBVIOUS
  <1>1. TypeOK' /\ Places' /\ Recovery' /\ Named'
    BY NextType, NextPlaces, NextRecovery, NextNamed DEF IInv
  <1>2. ASSUME ~displaced'
        PROVE  MutExclusive' /\ LeaseOwned' /\ GatewayOwned'
    <2>1. MutExclusive /\ LeaseOwned /\ GatewayOwned
      BY <1>2, DisplacedForever DEF IInv
    <2>2. QED
      BY <1>2, <2>1, NextMut, NextLease, NextGateway DEF IInv
  <1>3. QED
    BY <1>1, <1>2 DEF IInv

\* The invariant holds in every reachable state.
THEOREM Invariance == Spec => []IInv
  BY InitIInv, NextIInv, PTL DEF Spec

\* Every lock names a process or nothing, for any processes and any crashes.
THEOREM TypeCorrect == Spec => []TypeOK
  <1>1. IInv => TypeOK
    BY DEF IInv
  <1>2. QED
    BY <1>1, Invariance, PTL

\* A root has one owner at a time, for any processes and any crashes: while no
\* live process lost its mutation lock, who works under the lease is who
\* owner.json names, and who serves is who the gateway lock names; and such a
\* loss takes a death inside the mutation lock.
THEOREM RootHasOneOwner == Spec => []RootExclusive
  <1>1. IInv => RootExclusive
    BY DEF IInv, RootExclusive, Recovery, LeaseOwned, GatewayOwned, Serving, Procs, Gateways
  <1>2. QED
    BY <1>1, Invariance, PTL

\* A step that changes the operation lock's directory is a step of the lease.
LEMMA NextLeaseStep ==
    ASSUME IInv, [Next]_vars, ~displaced'
    PROVE  [Lease!Next]_(Lease!leaseVars)
  <1>1. MutExclusive /\ LeaseOwned
    BY DisplacedForever DEF IInv
  <1> USE <1>1, ProcsAssumption
      DEF IInv, TypeOK, Dirs, Places, Named, LeaseOwned, Returns, Holding, Working, Asking,
          Lease!Next, Lease!leaseVars, disk, ghosts, Goto
  <1>2. ASSUME NEW p \in Procs, OpMkdir(p)
        PROVE  UNCHANGED Lease!leaseVars
    BY <1>2 DEF OpMkdir
  <1>3. ASSUME NEW p \in Procs, OpWrite(p)
        PROVE  Lease!Acquire(p)
    BY <1>3 DEF OpWrite, Lease!Acquire, Absent
  <1>4. ASSUME NEW p \in Procs, MoveAbandoned(p)
        PROVE  Lease!Reclaim
    BY <1>4 DEF MoveAbandoned, Lease!Reclaim
  <1>5. ASSUME NEW p \in Procs, ReleaseOp(p)
        PROVE  Lease!Release(p)
    BY <1>5 DEF ReleaseOp, Lease!Release, Absent
  <1>6. ASSUME NEW p \in Procs, HandOff(p)
        PROVE  Lease!HandOff(p)
    BY <1>6 DEF HandOff, Lease!HandOff, Absent
  <1>7. ASSUME NEW p \in Procs, ClaimHandoff(p)
        PROVE  Lease!Claim(p) \/ UNCHANGED Lease!leaseVars
    BY <1>7 DEF ClaimHandoff, Lease!Claim, Absent
  <1>8. CASE HandoffExpires
    BY <1>8 DEF HandoffExpires, Lease!Expire
  <1>9. ASSUME op' = op
        PROVE  UNCHANGED Lease!leaseVars
    BY <1>9
  <1>10. ASSUME NEW p \in Procs, Step(p), ~OpMkdir(p), ~OpWrite(p), ~MoveAbandoned(p),
                ~ReleaseOp(p), ~HandOff(p), ~ClaimHandoff(p)
         PROVE  op' = op
    BY <1>10
       DEF Step, Command, ManagerLaunch, OpExists, LookForHandoff,
           LeaseTimeout, MutationTake, MutationSeesDead, MutationMove, MutationCheck,
           MutationRelease, MutationTimeout, Reclaim,
           LookStale, SeeStale, ClearStale, RemoveStale, WorkReturns,
           WorkStops, WorkFindsStopped, StopManager, StoppedClean, StoppedStale,
           ClearStopped, StopTimeout, Launch, Unwind, InitializationFails, GwMkdir,
           GwWrite, GwStale, GwClear, GwRefused, Shutdown, GwRelease, Exit, Crash
  <1>11. CASE UNCHANGED vars
    BY <1>11 DEF vars
  <1>12. QED
    BY <1>2, <1>3, <1>4, <1>5, <1>6, <1>7, <1>8, <1>9, <1>10, <1>11 DEF Next, Finished, vars

\* RootOwnership implements OperationLease: for any processes, any crashes and
\* any interleaving, every change of the operation lock's directory is a step
\* the abstract lease allows, for as long as no live process's mutation lock was
\* moved aside.
THEOREM LeaseImplemented == Spec => ImplementsLease
  <1>1. Init => Lease!Init
    BY DEF Init, Lease!Init
  <1>2. IInv /\ [Next]_vars => [displaced' \/ Lease!Next]_(Lease!leaseVars)
    BY NextLeaseStep
  <1>3. QED
    BY <1>1, <1>2, Invariance, PTL DEF Spec, ImplementsLease, Lease!Spec
=============================================================================
