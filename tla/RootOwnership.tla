---------------------------- MODULE RootOwnership ----------------------------
(***************************************************************************)
(* Ownership of a LocalBase root as the TypeScript implementation keeps it *)
(* (src/src/domains/service/ownership.ts), with its callers in the service *)
(* manager (manager.ts) and in serve.                                      *)
(*                                                                         *)
(* Three locks, all of them directories:                                   *)
(*   op   the operation lease: made with mkdir, then its owner.json is     *)
(*        written; it may be handed to the gateway a starter launched;     *)
(*   mut  the mutation lock that serialises changes of an existing op: a   *)
(*        prepared candidate renamed into place, so never without owner;   *)
(*   gw   the gateway lock: mkdir, then owner.json.                        *)
(* Everything else is in the processes. Any of them may crash between any  *)
(* two steps, and a process that ended is as absent as one that crashed.   *)
(*                                                                         *)
(* External: the file system (mkdir, rename and the recursive rm of a lock *)
(* directory are one step each), the user's service manager, and pids,     *)
(* which are not reused. A record's random id is its process: a process    *)
(* makes one operation lease here, and the ids are only ever compared with *)
(* those of dead processes or with a process's own.                        *)
(***************************************************************************)
EXTENDS Naturals

CONSTANTS Starters,    \* `start', `restart' and `config apply' commands
          Operators,   \* commands under withRootOperation; they may be `stop'
          Managed,     \* gateways the service manager launches, with the token
          Foreground,  \* gateways a user runs, without a service token
          Nobody, NoDir,
          MaxCrashes   \* bound on crashes

Gateways == Managed \union Foreground
Procs == Starters \union Operators \union Gateways

\* The operation lock's directory: whose owner.json it holds, if it has one yet.
Dirs == [pid : Procs \union {Nobody}, handoff : {"no", "open", "expired"}]

ASSUME ProcsAssumption ==
    /\ \A A, B \in {Starters, Operators, Managed, Foreground} :
          A # B => A \intersect B = {}
    /\ Nobody \notin Procs /\ NoDir \notin Procs /\ Nobody # NoDir
    /\ NoDir \notin Dirs
    /\ MaxCrashes \in Nat

VARIABLES op,         \* NoDir, or the operation lock's directory
          mut,        \* NoDir, or the process named by the mutation lock
          aside,      \* aside[q]: what was moved to the .abandoned path of q
          gw,         \* NoDir, Nobody (no owner.json yet) or the gateway
          svc,        \* the service manager has the unit active
          pc, job,    \* where each process is; what it wants the mutation for
          seen,       \* the owner a process read and found dead
          then,       \* where a process goes on after the mutation lock
          holds,      \* processes that have the lease object in hand
          displaced,  \* a live process's mutation lock was moved aside
          mutCrash,   \* a process died with the mutation lock in hand
          crashes

disk == <<op, mut, aside, gw>>
ghosts == <<displaced, mutCrash, crashes>>
vars == <<op, mut, aside, gw, svc, pc, job, seen, then, holds,
          displaced, mutCrash, crashes>>

Jobs == {"none", "reclaim", "release", "handoff", "claim"}
Labels == {"off", "mkdir", "write", "claim",
           "mTry", "mMove", "mCheck", "crit", "opMove", "mRelease",
           "work", "clear", "stop", "stopped", "clearStopped", "launch", "unwind",
           "gwMkdir", "gwWrite", "gwClear", "serving", "gwRelease",
           "ended", "gone"}

\* Every lock names a process or nothing, and every process is at a place of its code.
TypeOK ==
    /\ op \in Dirs \union {NoDir}
    /\ mut \in Procs \union {NoDir}
    /\ aside \in [Procs -> Procs \union {NoDir}]
    /\ gw \in Procs \union {NoDir, Nobody}
    /\ svc \in BOOLEAN
    /\ pc \in [Procs -> Labels]
    /\ job \in [Procs -> Jobs]
    /\ seen \in [Procs -> Procs \union {Nobody}]
    /\ then \in [Procs -> Labels]
    /\ holds \subseteq Procs
    /\ displaced \in BOOLEAN /\ mutCrash \in BOOLEAN
    /\ crashes \in 0..MaxCrashes

\* processPresence(pid) = "absent".
Absent(p) == pc[p] \in {"off", "gone"}

Init ==
    /\ op = NoDir /\ mut = NoDir /\ gw = NoDir
    /\ aside = [p \in Procs |-> NoDir]
    /\ svc = FALSE
    /\ pc = [p \in Procs |-> "off"]
    /\ job = [p \in Procs |-> "none"]
    /\ seen = [p \in Procs |-> Nobody]
    /\ then = [p \in Procs |-> "off"]
    /\ holds = {}
    /\ displaced = FALSE /\ mutCrash = FALSE /\ crashes = 0

Goto(p, label) == pc' = [pc EXCEPT ![p] = label]

\* p asks for the mutation lock to do j, and continues at `label' after it.
Mutate(p, j, label) ==
    /\ Goto(p, "mTry")
    /\ job' = [job EXCEPT ![p] = j]
    /\ then' = [then EXCEPT ![p] = label]

\* The `finally' of every holder: lease.release(), a no-op once handed off.
ReleaseLease(p) == Mutate(p, "release", "ended")

-----------------------------------------------------------------------------
(* Launching processes. The manager starts a managed gateway while the unit *)
(* is active and none of its processes is left (start, Restart=on-failure). *)

Command(p) ==
    /\ p \in Starters \union Operators \union Foreground
    /\ pc[p] = "off"
    /\ Goto(p, "mkdir")
    /\ UNCHANGED <<disk, svc, job, seen, then, holds, ghosts>>

ManagerLaunch(p) ==
    /\ p \in Managed
    /\ svc
    /\ pc[p] = "off"
    /\ \A q \in Managed : Absent(q)
    /\ Goto(p, "claim")
    /\ UNCHANGED <<disk, svc, job, seen, then, holds, ghosts>>

-----------------------------------------------------------------------------
(* acquireOperationLease *)

\* Where a fresh lease takes a process: a command's work, or the gateway lock.
WithLease(p) == IF p \in Gateways THEN "gwMkdir" ELSE "work"

OpMkdir(p) ==
    /\ pc[p] = "mkdir"
    /\ op = NoDir
    /\ op' = [pid |-> Nobody, handoff |-> "no"]
    /\ Goto(p, "write")
    /\ UNCHANGED <<mut, aside, gw, svc, job, seen, then, holds, ghosts>>

\* EEXIST: look under the mutation lock whether the lease was abandoned, then
\* mkdir again, at once or after a sleep.
OpExists(p) ==
    /\ pc[p] = "mkdir"
    /\ op # NoDir
    /\ Mutate(p, "reclaim", "mkdir")
    /\ UNCHANGED <<disk, svc, seen, holds, ghosts>>

\* owner.json is renamed into the directory the path names now.
OpWrite(p) ==
    /\ pc[p] = "write"
    /\ \/ /\ op # NoDir
          /\ op' = [pid |-> p, handoff |-> "no"]
          /\ holds' = holds \union {p}
          /\ Goto(p, WithLease(p))
       \/ /\ op = NoDir
          /\ Goto(p, "ended")
          /\ UNCHANGED <<op, holds>>
    /\ UNCHANGED <<mut, aside, gw, svc, job, seen, then, ghosts>>

-----------------------------------------------------------------------------
(* acquireOperationMutation and its release *)

\* What an exception in the mutation lock's acquisition does to its caller.
MutationThrows(p) ==
    IF job[p] = "handoff" \/ (job[p] = "release" /\ then[p] = "serving")
    THEN ReleaseLease(p) /\ UNCHANGED holds
    ELSE /\ Goto(p, "ended")
         /\ holds' = holds \ {p}
         /\ UNCHANGED <<job, then>>

MutationTake(p) ==
    /\ pc[p] = "mTry"
    /\ mut = NoDir
    /\ mut' = p
    /\ Goto(p, "crit")
    /\ UNCHANGED <<op, aside, gw, svc, job, seen, then, holds, ghosts>>

\* The rename failed and the owner that is there now is dead.
MutationSeesDead(p) ==
    /\ pc[p] = "mTry"
    /\ mut \in Procs
    /\ Absent(mut)
    /\ seen' = [seen EXCEPT ![p] = mut]
    /\ Goto(p, "mMove")
    /\ UNCHANGED <<disk, svc, job, then, holds, ghosts>>

\* Moves whatever the lock's path names now to the dead owner's aside path.
MutationMove(p) ==
    /\ pc[p] = "mMove"
    /\ \/ /\ mut = NoDir
          /\ Goto(p, "mTry")
          /\ UNCHANGED <<mut, aside, job, then, holds, displaced>>
       \/ /\ mut # NoDir
          /\ aside[seen[p]] = NoDir
          /\ aside' = [aside EXCEPT ![seen[p]] = mut]
          /\ mut' = NoDir
          /\ displaced' = (displaced \/ ~Absent(mut))
          /\ Goto(p, "mCheck")
          /\ UNCHANGED <<job, then, holds>>
       \/ /\ mut # NoDir
          /\ aside[seen[p]] # NoDir
          /\ MutationThrows(p)
          /\ UNCHANGED <<mut, aside, displaced>>
    /\ UNCHANGED <<op, gw, svc, seen, mutCrash, crashes>>

\* Only the dead owner's lock is deleted; another's stays where it was moved.
MutationCheck(p) ==
    /\ pc[p] = "mCheck"
    /\ aside' = IF aside[seen[p]] = seen[p]
                THEN [aside EXCEPT ![seen[p]] = NoDir] ELSE aside
    /\ Goto(p, "mTry")
    /\ seen' = [seen EXCEPT ![p] = Nobody]
    /\ UNCHANGED <<op, mut, gw, svc, job, then, holds, ghosts>>

MutationRelease(p) ==
    /\ pc[p] = "mRelease"
    /\ mut' = IF mut = p THEN NoDir ELSE mut
    /\ Goto(p, then[p])
    /\ job' = [job EXCEPT ![p] = "none"]
    /\ then' = [then EXCEPT ![p] = "off"]
    /\ UNCHANGED <<op, aside, gw, svc, seen, holds, ghosts>>

\* The ten seconds of the mutation lock are over.
MutationTimeout(p) ==
    /\ pc[p] = "mTry"
    /\ mut # NoDir
    /\ MutationThrows(p)
    /\ UNCHANGED <<disk, svc, seen, ghosts>>

-----------------------------------------------------------------------------
(* The work done under the mutation lock *)

\* Mutant: a handed-off lease is abandoned as soon as its starter has exited.
AbandonedOnExit == op # NoDir /\ op.pid # Nobody /\ Absent(op.pid)

\* removeAbandonedOperationLeaseLocked would remove the lease.
Abandoned ==
    /\ op # NoDir
    /\ op.pid # Nobody
    /\ IF op.handoff = "no" THEN Absent(op.pid) ELSE op.handoff = "expired"

\* The owner is read and judged, ...
Reclaim(p) ==
    /\ pc[p] = "crit" /\ job[p] = "reclaim"
    /\ IF Abandoned
       THEN seen' = [seen EXCEPT ![p] = op.pid] /\ Goto(p, "opMove")
       ELSE UNCHANGED seen /\ Goto(p, "mRelease")
    /\ UNCHANGED <<disk, svc, job, then, holds, ghosts>>

\* ... then whatever the path names is moved away. Finding another owner's
\* lease in it is an error: that lease is not put back.
MoveAbandoned(p) ==
    /\ pc[p] = "opMove"
    /\ op' = NoDir
    /\ then' = IF op = NoDir \/ (op # NoDir /\ op.pid = seen[p]) THEN then
               ELSE [then EXCEPT ![p] = "ended"]
    /\ seen' = [seen EXCEPT ![p] = Nobody]
    /\ Goto(p, "mRelease")
    /\ UNCHANGED <<mut, aside, gw, svc, job, holds, ghosts>>

ReleaseOp(p) ==
    /\ pc[p] = "crit" /\ job[p] = "release"
    /\ op' = IF op # NoDir /\ op.pid = p THEN NoDir ELSE op
    /\ holds' = holds \ {p}
    /\ Goto(p, "mRelease")
    /\ UNCHANGED <<mut, aside, gw, svc, job, seen, then, ghosts>>

\* Mutant: the token is stored where the state of the handoff belongs.
HandOffToken(p) ==
    /\ pc[p] = "crit" /\ job[p] = "handoff"
    /\ Goto(p, "mRelease")
    /\ op # NoDir /\ op.pid = p
    /\ op' = [op EXCEPT !.handoff = p]
    /\ UNCHANGED <<mut, aside, gw, svc, job, seen, then, holds, ghosts>>

\* handoff(token): refused unless the record is still the caller's own; a
\* handed-off lease is not released by the starter's `finally'.
HandOff(p) ==
    /\ pc[p] = "crit" /\ job[p] = "handoff"
    /\ Goto(p, "mRelease")
    /\ \/ /\ op # NoDir /\ op.pid = p /\ op.handoff = "no"
          /\ op' = [op EXCEPT !.handoff = "open"]
          /\ holds' = holds \ {p}
          /\ then' = [then EXCEPT ![p] = "ended"]
       \/ /\ ~(op # NoDir /\ op.pid = p /\ op.handoff = "no")
          /\ UNCHANGED <<op, holds, then>>
    /\ UNCHANGED <<mut, aside, gw, svc, job, seen, ghosts>>

\* claimServiceStartHandoff under the lock.
ClaimHandoff(p) ==
    /\ pc[p] = "crit" /\ job[p] = "claim"
    /\ \/ /\ op = NoDir
          /\ then' = [then EXCEPT ![p] = "mkdir"]
          /\ Goto(p, "mRelease")
          /\ UNCHANGED <<op, holds, seen>>
       \/ /\ op # NoDir /\ op.handoff = "expired"
          /\ then' = [then EXCEPT ![p] = "mkdir"]
          /\ seen' = [seen EXCEPT ![p] = op.pid]
          /\ Goto(p, "opMove")
          /\ UNCHANGED <<op, holds>>
       \/ /\ op # NoDir /\ op.handoff = "open"
          /\ op' = [pid |-> p, handoff |-> "no"]
          /\ holds' = holds \union {p}
          /\ then' = [then EXCEPT ![p] = "gwMkdir"]
          /\ Goto(p, "mRelease")
          /\ UNCHANGED seen
       \/ /\ op # NoDir /\ op.handoff = "no"
          /\ Goto(p, "mRelease")
          /\ UNCHANGED <<op, holds, then, seen>>
    /\ UNCHANGED <<mut, aside, gw, svc, job, ghosts>>

\* The ten seconds of a handoff run out.
HandoffExpires ==
    /\ op # NoDir /\ op.handoff = "open"
    /\ op' = [op EXCEPT !.handoff = "expired"]
    /\ UNCHANGED <<mut, aside, gw, svc, pc, job, seen, then, holds, ghosts>>

\* A managed gateway's first look: no lock directory means nobody starts it.
LookForHandoff(p) ==
    /\ pc[p] = "claim"
    /\ \/ op = NoDir /\ Goto(p, "mkdir") /\ UNCHANGED <<job, then>>
       \/ op # NoDir /\ Mutate(p, "claim", "claim")
    /\ UNCHANGED <<disk, svc, seen, holds, ghosts>>

\* The deadlines of acquireOperationLease and acquireServeInitializationLease.
LeaseTimeout(p) ==
    /\ pc[p] \in {"mkdir", "claim"}
    /\ op # NoDir
    /\ Goto(p, "ended")
    /\ UNCHANGED <<disk, svc, job, seen, then, holds, ghosts>>

-----------------------------------------------------------------------------
(* startServiceAtRoot and stopManagedInstanceAtRoot, under the lease *)

\* Mutant: an owner that does not answer its health probe counts as dead.
OwnerIsSilent == gw \in Procs

OwnerIsDead == gw \in Procs /\ Absent(gw)

\* removeStaleGatewayLease has re-read the record and found its process dead.
SeeStale(p, label) ==
    /\ OwnerIsDead
    /\ Goto(p, label)
    /\ UNCHANGED <<disk, svc, job, seen, then, holds, ghosts>>

\* ... and removes the directory the path names now.
RemoveStale(p, label, next) ==
    /\ pc[p] = label
    /\ gw' = NoDir
    /\ Goto(p, next)
    /\ UNCHANGED <<op, mut, aside, svc, job, seen, then, holds, ghosts>>

LookStale(p) == pc[p] = "work" /\ SeeStale(p, "clear")

ClearStale(p) == RemoveStale(p, "clear", "work")

\* The command returns or throws without touching the service: another command
\* than `stop', a service that already runs, or an owner it may not control.
WorkReturns(p) ==
    /\ pc[p] = "work"
    /\ \/ p \in Operators
       \/ ~OwnerIsDead /\ (svc \/ gw # NoDir)
    /\ Goto(p, "unwind")
    /\ UNCHANGED <<disk, svc, job, seen, then, holds, ghosts>>

\* The unit is loaded (a restart, or `stop'), and no one else owns the root.
WorkStops(p) ==
    /\ pc[p] = "work"
    /\ gw = NoDir \/ (gw \in Managed /\ ~Absent(gw))
    /\ svc
    /\ Goto(p, "stop")
    /\ UNCHANGED <<disk, svc, job, seen, then, holds, ghosts>>

\* `stop' with nothing to stop goes straight on to wait for the gateway lock.
WorkFindsStopped(p) ==
    /\ pc[p] = "work"
    /\ gw = NoDir /\ ~svc
    /\ Goto(p, IF p \in Starters THEN "launch" ELSE "stopped")
    /\ UNCHANGED <<disk, svc, job, seen, then, holds, ghosts>>

\* stopManager: a serving gateway shuts down, one that has not installed its
\* signal handlers yet dies on the spot.
StopManager(p) ==
    /\ pc[p] = "stop"
    /\ svc' = FALSE
    /\ LET killed == {q \in Managed : ~Absent(q)
                          /\ pc[q] \notin {"serving", "gwRelease", "ended"}}
       IN /\ pc' = [q \in Procs |->
                       CASE q = p -> "stopped"
                         [] q \in killed -> "gone"
                         [] q \in Managed /\ pc[q] = "serving" -> "gwRelease"
                         [] OTHER -> pc[q]]
          /\ holds' = holds \ killed
          /\ mutCrash' = (mutCrash \/ mut \in killed)
    /\ UNCHANGED <<disk, job, seen, then, displaced, crashes>>

ManagerStopped == \A q \in Managed : Absent(q)

AfterStop(p) == IF p \in Starters THEN "launch" ELSE "unwind"

\* waitForGatewayStoppedAtRoot: the lock is gone, ...
StoppedClean(p) ==
    /\ pc[p] = "stopped" /\ ManagerStopped
    /\ gw = NoDir
    /\ Goto(p, AfterStop(p))
    /\ UNCHANGED <<disk, svc, job, seen, then, holds, ghosts>>

\* ... or its owner is, and the wait removes it, ...
StoppedStale(p) ==
    /\ pc[p] = "stopped" /\ ManagerStopped
    /\ SeeStale(p, "clearStopped")

ClearStopped(p) == RemoveStale(p, "clearStopped", AfterStop(p))

\* ... or the manager or the gateway did not stop in time.
StopTimeout(p) ==
    /\ pc[p] = "stopped"
    /\ ~ManagerStopped \/ (gw # NoDir /\ ~OwnerIsDead)
    /\ Goto(p, "unwind")
    /\ UNCHANGED <<disk, svc, job, seen, then, holds, ghosts>>

\* startManager, and only then handoff(serviceToken).
Launch(p) ==
    /\ pc[p] = "launch"
    /\ svc' = TRUE
    /\ Mutate(p, "handoff", "unwind")
    /\ UNCHANGED <<disk, seen, holds, ghosts>>

Unwind(p) ==
    /\ pc[p] = "unwind"
    /\ ReleaseLease(p)
    /\ UNCHANGED <<disk, svc, seen, holds, ghosts>>

-----------------------------------------------------------------------------
(* acquireGatewayLease, serving, and the gateway lock's release *)

\* createAppContext fails under the lease, before the gateway lock is asked for.
InitializationFails(p) ==
    /\ pc[p] = "gwMkdir"
    /\ Goto(p, "unwind")
    /\ UNCHANGED <<disk, svc, job, seen, then, holds, ghosts>>

GwMkdir(p) ==
    /\ pc[p] = "gwMkdir"
    /\ gw = NoDir
    /\ gw' = Nobody
    /\ Goto(p, "gwWrite")
    /\ UNCHANGED <<op, mut, aside, svc, job, seen, then, holds, ghosts>>

\* serve drops the initialization lease once it has the gateway lock.
GwWrite(p) ==
    /\ pc[p] = "gwWrite"
    /\ \/ gw # NoDir /\ gw' = p /\ Mutate(p, "release", "serving")
       \/ gw = NoDir /\ Goto(p, "unwind") /\ UNCHANGED <<gw, job, then>>
    /\ UNCHANGED <<op, mut, aside, svc, seen, holds, ghosts>>

GwStale(p) == pc[p] = "gwMkdir" /\ SeeStale(p, "gwClear")

GwClear(p) == RemoveStale(p, "gwClear", "gwMkdir")

GwRefused(p) ==
    /\ pc[p] = "gwMkdir"
    /\ gw # NoDir /\ ~OwnerIsDead
    /\ Goto(p, "unwind")
    /\ UNCHANGED <<disk, svc, job, seen, then, holds, ghosts>>

\* SIGINT, SIGTERM or SIGHUP to the gateway.
Shutdown(p) ==
    /\ pc[p] = "serving"
    /\ Goto(p, "gwRelease")
    /\ UNCHANGED <<disk, svc, job, seen, then, holds, ghosts>>

GwRelease(p) ==
    /\ pc[p] = "gwRelease"
    /\ gw' = IF gw = p THEN NoDir ELSE gw
    /\ Goto(p, "ended")
    /\ UNCHANGED <<op, mut, aside, svc, job, seen, then, holds, ghosts>>

-----------------------------------------------------------------------------
(* Exits and crashes *)

Exit(p) ==
    /\ pc[p] = "ended"
    /\ Goto(p, "gone")
    /\ UNCHANGED <<disk, svc, job, seen, then, holds, ghosts>>

Crash(p) ==
    /\ ~Absent(p) /\ pc[p] # "ended"
    /\ crashes < MaxCrashes
    /\ crashes' = crashes + 1
    /\ mutCrash' = (mutCrash \/ mut = p)
    /\ holds' = holds \ {p}
    /\ Goto(p, "gone")
    /\ UNCHANGED <<disk, svc, job, seen, then, displaced>>

\* Every process that could run has run: nothing is left to happen.
Finished ==
    /\ \A p \in Procs : pc[p] \in {"gone", "serving"} \/ (p \in Managed /\ Absent(p))
    /\ UNCHANGED vars

Step(p) ==
    \/ Command(p) \/ ManagerLaunch(p)
    \/ OpMkdir(p) \/ OpExists(p) \/ OpWrite(p) \/ LookForHandoff(p)
    \/ LeaseTimeout(p)
    \/ MutationTake(p) \/ MutationSeesDead(p) \/ MutationMove(p)
    \/ MutationCheck(p) \/ MutationRelease(p) \/ MutationTimeout(p)
    \/ Reclaim(p) \/ MoveAbandoned(p) \/ ReleaseOp(p) \/ HandOff(p) \/ ClaimHandoff(p)
    \/ LookStale(p) \/ ClearStale(p) \/ WorkReturns(p) \/ WorkStops(p)
    \/ WorkFindsStopped(p) \/ StopManager(p) \/ StoppedClean(p)
    \/ StoppedStale(p) \/ ClearStopped(p) \/ StopTimeout(p)
    \/ Launch(p) \/ Unwind(p)
    \/ InitializationFails(p) \/ GwMkdir(p) \/ GwWrite(p) \/ GwStale(p) \/ GwClear(p) \/ GwRefused(p)
    \/ Shutdown(p) \/ GwRelease(p)
    \/ Exit(p) \/ Crash(p)

Next ==
    \/ \E p \in Procs : Step(p)
    \/ HandoffExpires
    \/ Finished

Spec == Init /\ [][Next]_vars

-----------------------------------------------------------------------------
(* Properties *)

\* A root has one owner at a time. A process that works under the operation
\* lease is the one owner.json names, so no two do, and none does while a
\* handed-off lease waits for its gateway; a serving gateway is the one its lock
\* names: nobody reclaims, releases or clears what a live process still uses.
\* This fails only after a live process's mutation lock was moved aside, which
\* takes a process that died with that lock in hand: without such a death the
\* recovery branch of acquireOperationMutation is harmless.
RootExclusive ==
    /\ displaced => mutCrash
    /\ ~displaced =>
          /\ \A p \in holds : op = [pid |-> p, handoff |-> "no"]
          /\ \A p \in Gateways : pc[p] = "serving" => gw = p

\* The lease on disk, as OperationLease states it.
Lease == INSTANCE OperationLease WITH
    Claimants <- Managed,
    holder <- IF op = NoDir THEN Nobody ELSE op.pid,
    handoff <- IF op = NoDir THEN "no" ELSE op.handoff,
    gone <- {p \in Procs : Absent(p)},
    void <- displaced

\* Every change of the operation lock's directory by any process is a step the
\* abstract lease allows: RootOwnership implements OperationLease.
ImplementsLease == Lease!Spec
=============================================================================
