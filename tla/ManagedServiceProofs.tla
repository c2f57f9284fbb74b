------------------------ MODULE ManagedServiceProofs ------------------------
(***************************************************************************)
(* What the supervisor of ManagedService keeps true under every step of    *)
(* the gateway of VideoJobs: its part of the inductive invariant, for any  *)
(* number of processes, crashes and faults. VideoJobsProofs builds on it.  *)
(***************************************************************************)
EXTENDS VideoJobs, TLAPS

-----------------------------------------------------------------------------
(* The supervisor *)

\* An attempt that has no process of its own in this.proc yet.
Early == {"prepare", "reserve", "spawn", "adopt"}

\* Where each of the three calls can be.
Labelled ==
    /\ pc["ready"] \in {"idle", "eStop", "eJoin", "eOwn", "ok", "err"}
    /\ pc["stopper"] \in {"idle", "k1", "kJoin", "k2", "ok", "err"}
    /\ pc["closer"] \in {"idle", "s1", "sJoin", "s2", "ok", "err"}

\* A process that is not cleaned up is this.proc, or about to be, and holds the
\* reservation; a reservation without a process is that of an attempt. Guardians
\* watch such processes only, and not before they are this.proc.
OneProcess ==
    /\ \A p \in Procs : st[p] # "gone" =>
          resv = p /\ (p = proc \/ (phase = "adopt" /\ p = startup))
    /\ resv # 0 => st[resv] # "gone" \/ (phase = "spawn" /\ resv = startup)
    /\ startup = 0 <=> phase = "none"
    /\ phase \in {"prepare", "reserve", "spawn"} => st[startup] = "gone"
    /\ phase = "spawn" => resv = startup
    /\ phase = "adopt" => st[startup] = "live" /\ startup \notin guarded
    /\ \A p \in guarded : st[p] # "gone"
    /\ phase \in Early => proc # startup /\ (proc # 0 => st[proc] # "live")

\* A stop is of this.proc, and expected until the process is gone; only who
\* awaits the dead does so beside it.
Stops ==
    /\ stopping # 0 => proc = stopping /\ phase \notin Early
    /\ stopping # 0 /\ st[stopping] # "gone" => stopping \in expected
    /\ \A f \in Waiters : on[f] \in Procs =>
          /\ st[on[f]] # "live" /\ on[f] # stopping
          /\ phase \in Early => on[f] # startup
    /\ \A f \in Waiters : on[f] = Stop => stopping # 0

\* Who awaits something is at a place where it is awaited.
Awaits ==
    /\ \A f \in Callers : on[f] # Nothing => pc[f] \in {"eStop", "k1", "s1", "k2", "s2"}
    /\ on["attempt"] # Nothing => phase = "unwind"
    /\ on["ready"] \notin Procs
    /\ pc["ready"] = "eStop" /\ Returned("ready") => stopping = 0 /\ Live = {}

\* The crashes that are counted while something can still crash.
Counts ==
    /\ startup # 0 => crashes <= CrashLimit
    /\ startup # 0 /\ phase # "unwind" => crashes < CrashLimit
    /\ \A p \in Procs : st[p] # "gone" => crashes <= CrashLimit

\* kill: the attempt it did not cancel has no process, and its second stop
\* leaves none.
Kills ==
    /\ pc["stopper"] \in {"k1", "kJoin"} /\ joined["stopper"] # "pending" =>
          phase \in {"none", "prepare", "reserve"}
    /\ pc["stopper"] = "k2" => Live = {} \/ on["stopper"] \in {Stop, Error}
    /\ pc["stopper"] = "ok" => Live = {}

AllGone == \A p \in Procs : st[p] = "gone"

\* shutdown: it awaits the last attempt there is, and its second stop leaves nothing.
Closes ==
    /\ shuttingDown <=> pc["closer"] # "idle"
    /\ shuttingDown /\ startup # 0 => joined["closer"] = "pending"
    /\ pc["closer"] \in {"s2", "ok"} => startup = 0
    /\ pc["closer"] = "s2" =>
          AllGone \/ (proc # 0 /\ on["closer"] = proc) \/ on["closer"] \in {Stop, Error}
    /\ pc["closer"] = "ok" => AllGone

ServiceInv ==
    Labelled /\ OneProcess /\ Stops /\ Awaits /\ Counts /\ Kills /\ Closes

-----------------------------------------------------------------------------
(* The steps of the supervisor *)

\* What a step of the gateway does to the supervisor: a continuation of its own, a
\* call by a job or the shutdown, or, once the continuations have run, an event.
ServiceStep ==
    \/ StopDone \/ Unwound
    \/ \E f \in Waiters : CleanupAwaited(f)
    \/ \E f \in Callers : Call(f)
    \/ Collect("ready") \/ Collect("stopper")
    \/ KillCall("stopper") \/ ShutdownCall("closer")
    \/ Drained /\ (ServiceEvent \/ EnsureCall("ready"))
    \/ \E p \in Procs : Reap(p)
    \/ UNCHANGED faultless /\ (UNCHANGED faults \/ Fault)

\* Every step of the gateway is one of these.
LEMMA NextIsServiceStep == Next => ServiceStep
  <1> USE DEF ServiceStep
  <1>1. Tasks => ServiceStep
    <2>1. ASSUME NEW j \in Jobs, Task(j)
          PROVE  ServiceStep
      BY <2>1 DEF Task, RunAdmit, RunReady, RunPersisted, AdmissionSettled, StopOver,
                  TerminationEnds, serviceVars, faultless, callOnly
    <2>2. QED
      BY <2>1 DEF Tasks, ReadyDropped, SupervisorsShutdown, ShutdownOver, ServiceTask,
                  serviceVars, faultless, callOnly
  <1>2. Drained /\ Events => ServiceStep
    <2>1. ASSUME NEW j \in Jobs, Deadline(j) \/ Refuse(j) \/ RunPoll(j) \/ Answer(j)
          PROVE  UNCHANGED faultless /\ (UNCHANGED faults \/ Fault)
      BY <2>1 DEF Deadline, Refuse, RunPoll, Answer, RunSubmit, Prepared, Written,
                  serviceVars, faultless, callOnly
    <2>2. Request \/ GatewayGone => UNCHANGED <<faultless, faults>>
      BY DEF Request, Start, Delete, Terminate, Get, Shutdown, GatewayGone,
             serviceVars, faultless, callOnly
    <2>3. QED
      BY <2>1, <2>2 DEF Events, Service, Grant
  <1>3. QED
    BY <1>1, <1>2 DEF Next

\* A number nothing refers to.
Fresh(n) ==
    /\ n \in Procs /\ st[n] = "gone" /\ n # proc /\ n # stopping
    /\ \A f \in Waiters : on[f] # n

\* What start() does before its first await, with `known' crashes counted.
Begins(known) ==
    /\ startup = 0 /\ ~shuttingDown /\ stopping = 0
    /\ crashes' \in 0..known /\ cancelled' = FALSE /\ life' \in {"starting", "failed"}
    /\ \/ startup' = 0 /\ phase' = "none"
       \/ /\ Fresh(startup') /\ phase' = "prepare"
          /\ ~(crashes' >= CrashLimit)

\* start() up to its first await begins an attempt with a number nothing refers to.
LEMMA StartFacts ==
    ASSUME NEW known, NEW used, StartAttempt(known, used),
           startup = 0, ~shuttingDown, stopping = 0
    PROVE  Begins(known) /\ startup' \notin used \ {0}
  <1>1. PICK n \in 0..known :
           /\ crashes' = n /\ cancelled' = FALSE
           /\ IF n >= CrashLimit
              THEN life' = "failed" /\ phase' = "none" /\ startup' = 0
              ELSE /\ life' = "starting" /\ phase' = "prepare"
                   /\ Unused \ used # {}
                   /\ startup' = CHOOSE p \in Unused \ used : TRUE
    BY DEF StartAttempt
  <1>2. Unused \ used # {} => (CHOOSE p \in Unused \ used : TRUE) \in Unused \ used
    OBVIOUS
  <1>3. \A p \in Unused : Fresh(p)
    BY DEF Unused, Fresh
  <1>4. QED
    BY <1>1, <1>2, <1>3 DEF Begins

\* What ensureRunning does at each of its turns: it waits for a stop, goes on
\* without starting, or begins an attempt while nothing runs and nothing stops.
EnsureTurn ==
    /\ UNCHANGED notNewAttempt
    /\ \A f \in Callers \ {"ready"} : UNCHANGED <<pc[f], joined[f], on[f]>>
    /\ UNCHANGED on["attempt"]
    /\ \/ stopping # 0 /\ on'["ready"] = Stop /\ pc'["ready"] = "eStop"
       \/ on'["ready"] = Nothing /\ pc'["ready"] \in {"eJoin", "eOwn", "ok", "err"}
    /\ \/ UNCHANGED newAttempt
       \/ Begins(crashes) /\ (proc # 0 => st[proc] # "live")

EnsureAction ==
    \/ EnsureCall("ready")
    \/ \E f \in Callers : EnsureStopped(f) \/ EnsureJoined(f)

\* Each turn of ensureRunning is one of these.
LEMMA EnsureFacts ==
    ASSUME ServiceTypeOK, ServiceInv, EnsureAction
    PROVE  EnsureTurn
  <1> USE DEF ServiceTypeOK, ServiceInv, Labelled, Awaits
  <1>1. PICK f \in Callers : EnsureStopped(f) \/ EnsureJoined(f) \/ (f = "ready" /\ EnsureCall(f))
    BY DEF EnsureAction, Callers
  <1>2. f = "ready"
    BY <1>1 DEF EnsureStopped, EnsureJoined, Callers
  <1>3. UNCHANGED notNewAttempt
    BY <1>1 DEF EnsureStopped, EnsureJoined, EnsureCall
  <1>4. ASSUME Checked("ready"), stopping = 0, on' = [on EXCEPT !["ready"] = Nothing]
        PROVE  EnsureTurn
    <2>1. \/ UNCHANGED newAttempt
          \/ /\ startup = 0 /\ ~shuttingDown /\ (proc = 0 \/ Exited(proc))
             /\ StartAttempt(crashes, {})
      BY <1>4 DEF Checked, Restarting
    <2>2. \/ UNCHANGED newAttempt
          \/ Begins(crashes) /\ (proc # 0 => st[proc] # "live")
      BY <1>4, <2>1, StartFacts DEF Exited
    <2>3. /\ pc' = [pc EXCEPT !["ready"] = pc'["ready"]]
          /\ pc'["ready"] \in {"eJoin", "eOwn", "ok", "err"}
      BY <1>4 DEF Checked, Goto, Callers
    <2>4. \A g \in Callers \ {"ready"} : joined'[g] = joined[g]
      BY <1>4 DEF Checked, Callers
    <2>5. QED
      BY <1>3, <1>4, <2>2, <2>3, <2>4 DEF EnsureTurn, Callers, Waiters
  <1>5. CASE EnsureStopped("ready")
    <2>1. on' = [on EXCEPT !["ready"] = Nothing] /\ pc["ready"] = "eStop"
      BY <1>5 DEF EnsureStopped
    <2>2. CASE Returned("ready") /\ Checked("ready")
      BY <1>4, <2>1, <2>2
    <2>3. CASE Threw("ready") /\ Goto("ready", "err") /\ UNCHANGED <<joined, newAttempt>>
      BY <1>3, <2>1, <2>3 DEF Goto, EnsureTurn, Callers, Waiters
    <2>4. QED
      BY <1>5, <2>2, <2>3 DEF EnsureStopped
  <1>6. ASSUME Entered("ready"), on["ready"] = Nothing
        PROVE  EnsureTurn
    <2>1. CASE stopping # 0
      BY <1>3, <1>6, <2>1 DEF Entered, Goto, EnsureTurn, Callers, Waiters
    <2>2. CASE stopping = 0
      <3>1. Checked("ready") /\ on' = on
        BY <1>6, <2>2 DEF Entered
      <3>2. on' = [on EXCEPT !["ready"] = Nothing]
        BY <1>6, <3>1
      <3>3. QED
        BY <1>4, <2>2, <3>1, <3>2
    <2>3. QED
      BY <2>1, <2>2
  <1>7. CASE EnsureJoined("ready")
    <2>1. on["ready"] = Nothing
      BY <1>7 DEF EnsureJoined, Callers
    <2>2. CASE Entered("ready")
      BY <1>6, <2>1, <2>2
    <2>3. CASE ~Entered("ready")
      BY <1>3, <1>7, <2>1, <2>3 DEF EnsureJoined, Goto, EnsureTurn, Callers, Waiters
    <2>4. QED
      BY <2>2, <2>3
  <1>8. CASE EnsureCall("ready")
    BY <1>6, <1>8 DEF EnsureCall, Callers
  <1>9. QED
    BY <1>1, <1>2, <1>5, <1>7, <1>8

\* What a cleanup does: a crash that nobody expected begins an attempt, while
\* nothing runs and nothing stops.
CleanTurn(p) ==
    /\ st[p] = "exited" /\ st' = [st EXCEPT ![p] = "gone"]
    /\ expected' = expected \ {p} /\ guarded' = guarded \ {p}
    /\ resv' = IF resv = p THEN 0 ELSE resv
    /\ UNCHANGED <<verdict, stopping, shuttingDown, pc, joined, on, faults>>
    /\ \/ UNCHANGED <<proc, newAttempt>>
       \/ Begins(crashes + 1) /\ proc = p /\ proc' = 0 /\ startup' # p

\* Each cleanup is one of these.
LEMMA CleanupFacts ==
    ASSUME ServiceTypeOK, ServiceInv, NEW p \in Procs, Cleanup(p)
    PROVE  CleanTurn(p)
  <1>1. /\ st[p] = "exited" /\ st' = [st EXCEPT ![p] = "gone"]
        /\ expected' = expected \ {p} /\ guarded' = guarded \ {p}
        /\ resv' = IF resv = p THEN 0 ELSE resv
        /\ UNCHANGED <<verdict, stopping, shuttingDown, pc, joined, on, faults>>
    BY DEF Cleanup
  <1>2. CASE Crashed(p)
    <2>1. proc' = 0 /\ StartAttempt(crashes + 1, {p})
      BY <1>2 DEF Cleanup, Counted
    <2>2. startup = 0 /\ ~shuttingDown /\ proc = p /\ p \notin expected
      BY <1>2 DEF Crashed, Restarting
    <2>3. stopping = 0
      BY <1>1, <2>2 DEF ServiceInv, Stops
    <2>4. Begins(crashes + 1) /\ startup' # p
      BY <2>1, <2>2, <2>3, StartFacts, ServiceAssumption DEF Procs
    <2>5. QED
      BY <1>1, <2>1, <2>2, <2>4 DEF CleanTurn
  <1>3. CASE ~Crashed(p)
    BY <1>1, <1>3 DEF Cleanup, CleanTurn
  <1>4. QED
    BY <1>2, <1>3

\* What stopCurrentProcess does before its first await: f joins a stop under way
\* or begins one, has nothing to stop, or awaits the dead process's cleanup.
StopEntered(f) ==
    /\ life' \in {life, "stopping"}
    /\ \/ /\ on' = [on EXCEPT ![f] = Stop]
          /\ \/ stopping # 0 /\ UNCHANGED <<stopping, expected>>
             \/ /\ stopping = 0 /\ proc # 0 /\ st[proc] = "live" /\ stopping' = proc
                /\ expected' = expected \union {proc}
       \/ on' = on /\ stopping = 0 /\ proc = 0 /\ UNCHANGED <<stopping, expected>>
       \/ /\ on' = [on EXCEPT ![f] = proc] /\ proc # 0 /\ st[proc] # "live"
          /\ stopping = 0 /\ stopping' = 0
          /\ expected \subseteq expected' /\ expected' \subseteq expected \union {proc}

\* Each call of stopCurrentProcess is one of these.
LEMMA EnterStopFacts ==
    ASSUME NEW f, EnterStop(f)
    PROVE  StopEntered(f)
  BY DEF EnterStop, EnterStopOn, Exited, StopEntered

\* The supervisor's fields by their kind.
Scalars ==
    /\ life \in Lives /\ phase \in Phases /\ verdict \in {"none", "cancelled", "failed"}
    /\ proc \in {0} \union Procs /\ resv \in {0} \union Procs
    /\ startup \in {0} \union Procs /\ stopping \in {0} \union Procs
    /\ cancelled \in BOOLEAN /\ shuttingDown \in BOOLEAN
    /\ crashes \in 0..CrashLimit + 1 /\ faults \in 0..MaxFaults

Tables ==
    /\ st \in [Procs -> {"live", "exited", "gone"}]
    /\ expected \subseteq Procs /\ guarded \subseteq Procs
    /\ pc \in [Callers -> Labels] /\ joined \in [Callers -> Outcomes]
    /\ on \in [Waiters -> {Nothing, Stop, Error} \union Procs]

\* They are the supervisor's types.
LEMMA TypeParts == ServiceTypeOK <=> Scalars /\ Tables
  BY DEF ServiceTypeOK, Scalars, Tables

\* The types of a new attempt.
LEMMA BeginsTypes ==
    ASSUME NEW known, Begins(known)
    PROVE  /\ startup' \in {0} \union Procs /\ phase' \in {"none", "prepare"}
           /\ crashes' \in 0..known /\ cancelled' = FALSE /\ life' \in {"starting", "failed"}
  BY DEF Begins, Fresh

\* An attempt that ends without a process.
LEMMA AttemptOver ==
    ASSUME ServiceTypeOK, ServiceInv, phase \in {"prepare", "reserve", "spawn"},
           StartCancelled \/ StartRefused \/ StartFailed
    PROVE  /\ startup' = 0 /\ phase' = "none" /\ verdict' = "none" /\ cancelled' = FALSE
           /\ life' \in Lives /\ resv' \in {0, resv} /\ crashes' \in 0..CrashLimit + 1
  <1>1. startup # 0 /\ crashes \in Nat /\ crashes < CrashLimit
    BY ServiceAssumption DEF ServiceTypeOK, ServiceInv, OneProcess, Counts
  <1>2. /\ startup' = 0 /\ phase' = "none" /\ verdict' = "none" /\ cancelled' = FALSE
        /\ life' \in {"idle", "failed", life} /\ resv' \in {0, resv}
        /\ crashes' \in {crashes, crashes + 1}
    BY DEF StartCancelled, StartRefused, StartFailed, Settle, Forgotten, Counted
  <1>3. QED
    BY <1>1, <1>2, ServiceAssumption DEF ServiceTypeOK, Lives

\* Every step keeps the types of the tables.
LEMMA NextTables ==
    ASSUME ServiceTypeOK, ServiceInv, ServiceStep
    PROVE  Tables'
  <1> USE ServiceAssumption DEF ServiceTypeOK, Tables, Labels, Outcomes, Callers, Waiters,
     Procs, Nothing, Stop, Error
  <1>1. CASE StopDone
    BY <1>1 DEF StopDone, StopThrows, WakeStop
  <1>2. CASE Unwound
    BY <1>2 DEF Unwound, Settle, Returned, Threw
  <1>3. ASSUME NEW f \in Waiters, CleanupAwaited(f)
        PROVE  Tables'
    BY <1>3 DEF CleanupAwaited
  <1>4. CASE EnsureAction
    <2>1. PICK f \in Callers : EnsureStopped(f) \/ EnsureJoined(f) \/ EnsureCall(f)
      BY <1>4 DEF EnsureAction
    <2>2. UNCHANGED notNewAttempt
      BY <2>1 DEF EnsureStopped, EnsureJoined, EnsureCall
    <2>3. ASSUME Checked(f)
          PROVE  pc' \in [Callers -> Labels] /\ joined' \in [Callers -> Outcomes]
      BY <2>3 DEF Checked, Goto
    <2>4. pc' \in [Callers -> Labels] /\ joined' \in [Callers -> Outcomes]
      BY <2>1, <2>3 DEF EnsureStopped, EnsureJoined, EnsureCall, Entered, Goto
    <2>5. on' \in [Waiters -> {Nothing, Stop, Error} \union Procs]
      BY <2>1 DEF EnsureStopped, EnsureJoined, EnsureCall, Entered
    <2>6. QED
      BY <2>2, <2>4, <2>5 DEF notNewAttempt
  <1>5. ASSUME NEW f \in Callers, FirstStopOver(f)
        PROVE  Tables'
    BY <1>5 DEF FirstStopOver, Returned, Threw, Goto, callOnly
  <1>6. ASSUME NEW f \in Callers, Joined(f)
        PROVE  Tables'
    <2>1. StopEntered(f) \/ UNCHANGED <<on, stopping, expected>>
      BY <1>6, EnterStopFacts DEF Joined
    <2>2. on' \in [Waiters -> {Nothing, Stop, Error} \union Procs] /\ expected' \subseteq Procs
      BY <2>1 DEF StopEntered
    <2>3. pc' \in [Callers -> Labels] /\ joined' \in [Callers -> Outcomes]
      BY <1>6 DEF Joined, Goto
    <2>4. QED
      BY <1>6, <2>2, <2>3 DEF Joined
  <1>7. ASSUME NEW f \in Callers, SecondStopOver(f)
        PROVE  Tables'
    BY <1>7 DEF SecondStopOver, Returned, Threw, Goto
  <1>8. ASSUME NEW f \in {"ready", "stopper"}, Collect(f)
        PROVE  Tables'
    BY <1>8 DEF Collect, callOnly, Goto
  <1>9. CASE KillCall("stopper")
    BY <1>9, EnterStopFacts DEF KillCall, StopEntered, JoinStartup, Restarting, Goto
  <1>10. CASE ShutdownCall("closer")
    BY <1>10 DEF ShutdownCall, JoinStartup, Restarting, Exited, Goto
  <1>11. CASE Drained /\ Prepare
    BY <1>11 DEF Prepare, StartCancelled, StartRefused, StartFailed, Settle, Forgotten,
       Counted, Unsettled
  <1>12. CASE Drained /\ Reserve
    BY <1>12 DEF Reserve, StartCancelled, StartRefused, StartFailed, Settle, Forgotten,
       Counted, Unsettled
  <1>13. CASE Drained /\ Spawn
    BY <1>13 DEF Spawn, StartCancelled, StartFailed, Settle, Forgotten, Counted, Unsettled
  <1>14. CASE Drained /\ Adopt
    BY <1>14 DEF Adopt, Unwinding, Counted, EnterStopOn, ServiceInv, OneProcess
  <1>15. CASE Drained /\ Healthy
    BY <1>15 DEF Healthy, Settle
  <1>16. CASE Drained /\ Unhealthy
    BY <1>16, EnterStopFacts DEF Unhealthy, Unwinding, Counted, StopEntered
  <1>17. CASE Drained /\ StopFails
    BY <1>17 DEF StopFails, StopThrows, WakeStop
  <1>18. ASSUME NEW p \in Procs, ProcessExit(p)
        PROVE  Tables'
    BY <1>18 DEF ProcessExit
  <1>19. ASSUME NEW p \in Procs, Cleanup(p)
        PROVE  Tables'
    BY <1>19, CleanupFacts DEF CleanTurn, newAttempt, Begins, Fresh
  <1>20. ASSUME NEW p \in Procs, Reap(p)
        PROVE  Tables'
    BY <1>20 DEF Reap
  <1>21. CASE UNCHANGED faultless /\ (UNCHANGED faults \/ Fault)
    BY <1>21 DEF faultless, callOnly
  <1>22. QED
    BY <1>1, <1>2, <1>3, <1>4, <1>5, <1>6, <1>7, <1>8, <1>9, <1>10, <1>11, <1>12, <1>13,
       <1>14, <1>15, <1>16, <1>17, <1>18, <1>19, <1>20, <1>21
       DEF ServiceStep, Call, EnsureAction, ServiceEvent

\* Every step keeps the types of the scalars.
LEMMA NextScalars ==
    ASSUME ServiceTypeOK, ServiceInv, ServiceStep
    PROVE  Scalars'
  <1> USE ServiceAssumption DEF ServiceTypeOK, ServiceInv, Scalars, Lives, Phases, Fault,
     OneProcess, Counts, Procs
  <1>1. CASE StopDone
    BY <1>1 DEF StopDone, StopThrows, WakeStop
  <1>2. CASE Unwound
    BY <1>2 DEF Unwound, Settle, Returned, Threw
  <1>3. ASSUME NEW f \in Waiters, CleanupAwaited(f)
        PROVE  Scalars'
    BY <1>3 DEF CleanupAwaited
  <1>4. CASE EnsureAction
    <2>1. EnsureTurn
      BY <1>4, EnsureFacts
    <2>2. CASE UNCHANGED newAttempt
      BY <2>1, <2>2 DEF EnsureTurn, notNewAttempt, newAttempt
    <2>3. CASE Begins(crashes)
      <3>1. /\ startup' \in {0} \union Procs /\ phase' \in {"none", "prepare"}
            /\ crashes' \in 0..crashes /\ cancelled' = FALSE /\ life' \in {"starting", "failed"}
        BY <2>3, BeginsTypes, Zenon
      <3>2. UNCHANGED <<proc, resv, verdict, stopping, shuttingDown, faults>>
        BY <2>1 DEF EnsureTurn, notNewAttempt
      <3>3. crashes' \in 0..CrashLimit + 1
        BY <2>1, <3>1
      <3>4. QED
        BY <2>3, <3>1, <3>2, <3>3
    <2>4. QED
      BY <2>1, <2>2, <2>3 DEF EnsureTurn
  <1>5. ASSUME NEW f \in Callers, FirstStopOver(f)
        PROVE  Scalars'
    BY <1>5 DEF FirstStopOver, Returned, Threw, Goto, callOnly
  <1>6. ASSUME NEW f \in Callers, Joined(f)
        PROVE  Scalars'
    BY <1>6, EnterStopFacts DEF Joined, StopEntered, Goto
  <1>7. ASSUME NEW f \in Callers, SecondStopOver(f)
        PROVE  Scalars'
    BY <1>7 DEF SecondStopOver, Returned, Threw, Goto
  <1>8. ASSUME NEW f \in {"ready", "stopper"}, Collect(f)
        PROVE  Scalars'
    BY <1>8 DEF Collect, callOnly, Goto
  <1>9. CASE KillCall("stopper")
    BY <1>9, EnterStopFacts DEF KillCall, StopEntered, JoinStartup, Restarting, Goto
  <1>10. CASE ShutdownCall("closer")
    BY <1>10 DEF ShutdownCall, JoinStartup, Restarting, Exited, Goto
  <1>11. CASE Drained /\ Prepare
    <2>0. /\ UNCHANGED <<proc, stopping, shuttingDown>> /\ faults' \in 0..MaxFaults
          /\ phase \in {"prepare", "reserve", "spawn"}
      BY <1>11 DEF Prepare
    <2>1. CASE StartCancelled \/ StartRefused \/ StartFailed
      BY <2>0, <2>1, AttemptOver
    <2>2. CASE ~(StartCancelled \/ StartRefused \/ StartFailed)
      BY <1>11, <2>2 DEF Prepare, Unsettled
    <2>3. QED
      BY <2>1, <2>2
  <1>12. CASE Drained /\ Reserve
    <2>0. /\ UNCHANGED <<proc, stopping, shuttingDown>> /\ faults' \in 0..MaxFaults
          /\ phase \in {"prepare", "reserve", "spawn"}
      BY <1>12 DEF Reserve
    <2>1. CASE StartCancelled \/ StartRefused \/ StartFailed
      BY <2>0, <2>1, AttemptOver
    <2>2. CASE ~(StartCancelled \/ StartRefused \/ StartFailed)
      BY <1>12, <2>2 DEF Reserve, Unsettled
    <2>3. QED
      BY <2>1, <2>2
  <1>13. CASE Drained /\ Spawn
    <2>0. /\ UNCHANGED <<proc, stopping, shuttingDown>> /\ faults' \in 0..MaxFaults
          /\ phase \in {"prepare", "reserve", "spawn"}
      BY <1>13 DEF Spawn
    <2>1. CASE StartCancelled \/ StartRefused \/ StartFailed
      BY <2>0, <2>1, AttemptOver
    <2>2. CASE ~(StartCancelled \/ StartRefused \/ StartFailed)
      BY <1>13, <2>2 DEF Spawn, Unsettled
    <2>3. QED
      BY <2>1, <2>2
  <1>14. CASE Drained /\ Adopt
    BY <1>14 DEF Adopt, Unwinding, Counted, EnterStopOn
  <1>15. CASE Drained /\ Healthy
    BY <1>15 DEF Healthy, Settle
  <1>16. CASE Drained /\ Unhealthy
    BY <1>16, EnterStopFacts DEF Unhealthy, Unwinding, Counted, StopEntered
  <1>17. CASE Drained /\ StopFails
    BY <1>17 DEF StopFails, StopThrows, WakeStop
  <1>18. ASSUME NEW p \in Procs, ProcessExit(p)
        PROVE  Scalars'
    BY <1>18 DEF ProcessExit
  <1>19. ASSUME NEW p \in Procs, Cleanup(p)
        PROVE  Scalars'
    <2>1. CleanTurn(p) /\ crashes <= CrashLimit
      BY <1>19, CleanupFacts DEF CleanTurn
    <2>2. CASE UNCHANGED <<proc, newAttempt>>
      BY <2>1, <2>2 DEF CleanTurn, newAttempt
    <2>3. CASE Begins(crashes + 1) /\ proc' = 0
      <3>1. /\ startup' \in {0} \union Procs /\ phase' \in {"none", "prepare"}
            /\ crashes' \in 0..crashes + 1 /\ cancelled' = FALSE /\ life' \in {"starting", "failed"}
        BY <2>3, BeginsTypes, Zenon
      <3>2. resv' \in {0, resv} /\ UNCHANGED <<verdict, stopping, shuttingDown, faults>>
        BY <2>1 DEF CleanTurn
      <3>3. crashes' \in 0..CrashLimit + 1
        BY <2>1, <3>1
      <3>4. QED
        BY <2>3, <3>1, <3>2, <3>3
    <2>4. QED
      BY <2>1, <2>2, <2>3 DEF CleanTurn
  <1>20. ASSUME NEW p \in Procs, Reap(p)
        PROVE  Scalars'
    BY <1>20 DEF Reap
  <1>21. CASE UNCHANGED faultless /\ (UNCHANGED faults \/ Fault)
    BY <1>21 DEF faultless, callOnly
  <1>22. QED
    BY <1>1, <1>2, <1>3, <1>4, <1>5, <1>6, <1>7, <1>8, <1>9, <1>10, <1>11, <1>12, <1>13,
       <1>14, <1>15, <1>16, <1>17, <1>18, <1>19, <1>20, <1>21
       DEF ServiceStep, Call, EnsureAction, ServiceEvent

\* Every step leaves each call at a place of its own function.
LEMMA NextLabelled ==
    ASSUME ServiceTypeOK, ServiceInv, ServiceStep
    PROVE  Labelled'
  <1> USE ServiceAssumption DEF ServiceTypeOK, ServiceInv, Callers, Waiters, Procs, Nothing,
     Stop, Error, Labelled
  <1>1. CASE StopDone
    BY <1>1 DEF StopDone, StopThrows, WakeStop
  <1>2. CASE Unwound
    BY <1>2 DEF Unwound, Settle, Returned, Threw
  <1>3. ASSUME NEW f \in Waiters, CleanupAwaited(f)
        PROVE  Labelled'
    BY <1>3 DEF CleanupAwaited
  <1>4. CASE EnsureAction
    <2>1. EnsureTurn
      BY <1>4, EnsureFacts
    <2>2. CASE UNCHANGED newAttempt
      BY <2>1, <2>2 DEF EnsureTurn, notNewAttempt, newAttempt
    <2>3. CASE Begins(crashes) /\ startup' = 0
      BY <2>1, <2>3 DEF EnsureTurn, notNewAttempt, newAttempt, Begins, Fresh
    <2>4. CASE Begins(crashes) /\ Fresh(startup') /\ startup' # 0
      BY <2>1, <2>4 DEF EnsureTurn, notNewAttempt, newAttempt, Begins, Fresh
    <2>5. QED
      BY <2>1, <2>2, <2>3, <2>4 DEF EnsureTurn, Begins, Fresh
  <1>5. ASSUME NEW f \in Callers, FirstStopOver(f)
        PROVE  Labelled'
    BY <1>5 DEF FirstStopOver, Returned, Threw, Goto, callOnly
  <1>6. ASSUME NEW f \in Callers, Joined(f)
        PROVE  Labelled'
    BY <1>6, EnterStopFacts DEF Joined, StopEntered, Goto
  <1>7. ASSUME NEW f \in Callers, SecondStopOver(f)
        PROVE  Labelled'
    BY <1>7 DEF SecondStopOver, Returned, Threw, Goto
  <1>8. ASSUME NEW f \in {"ready", "stopper"}, Collect(f)
        PROVE  Labelled'
    BY <1>8 DEF Collect, callOnly, Goto
  <1>9. CASE KillCall("stopper")
    BY <1>9, EnterStopFacts DEF KillCall, StopEntered, JoinStartup, Restarting, Goto
  <1>10. CASE ShutdownCall("closer")
    BY <1>10 DEF ShutdownCall, JoinStartup, Restarting, Exited, Goto
  <1>11. CASE Drained /\ Prepare
    BY <1>11 DEF Prepare, StartCancelled, StartRefused, StartFailed, Settle, Forgotten,
       Counted, Unsettled
  <1>12. CASE Drained /\ Reserve
    BY <1>12 DEF Reserve, StartCancelled, StartRefused, StartFailed, Settle, Forgotten,
       Counted, Unsettled
  <1>13. CASE Drained /\ Spawn
    BY <1>13 DEF Spawn, StartCancelled, StartFailed, Settle, Forgotten, Counted, Unsettled
  <1>14. CASE Drained /\ Adopt
    BY <1>14 DEF Adopt, Unwinding, Counted, EnterStopOn
  <1>15. CASE Drained /\ Healthy
    BY <1>15 DEF Healthy, Settle
  <1>16. CASE Drained /\ Unhealthy
    BY <1>16, EnterStopFacts DEF Unhealthy, Unwinding, Counted, StopEntered
  <1>17. CASE Drained /\ StopFails
    BY <1>17 DEF StopFails, StopThrows, WakeStop
  <1>18. ASSUME NEW p \in Procs, ProcessExit(p)
        PROVE  Labelled'
    BY <1>18 DEF ProcessExit
  <1>19. ASSUME NEW p \in Procs, Cleanup(p)
        PROVE  Labelled'
    <2>1. CleanTurn(p)
      BY <1>19, CleanupFacts
    <2>2. CASE UNCHANGED <<proc, newAttempt>>
      BY <2>1, <2>2 DEF CleanTurn, newAttempt
    <2>3. CASE Begins(crashes + 1) /\ startup' = 0
      BY <2>1, <2>3 DEF CleanTurn, newAttempt, Begins, Fresh
    <2>4. CASE Begins(crashes + 1) /\ Fresh(startup') /\ startup' # 0
      BY <2>1, <2>4 DEF CleanTurn, newAttempt, Begins, Fresh
    <2>5. QED
      BY <2>1, <2>2, <2>3, <2>4 DEF CleanTurn, Begins, Fresh
  <1>20. ASSUME NEW p \in Procs, Reap(p)
        PROVE  Labelled'
    BY <1>20 DEF Reap
  <1>21. CASE UNCHANGED faultless /\ (UNCHANGED faults \/ Fault)
    BY <1>21 DEF faultless, callOnly
  <1>22. QED
    BY <1>1, <1>2, <1>3, <1>4, <1>5, <1>6, <1>7, <1>8, <1>9, <1>10, <1>11, <1>12, <1>13,
       <1>14, <1>15, <1>16, <1>17, <1>18, <1>19, <1>20, <1>21
       DEF ServiceStep, Call, EnsureAction, ServiceEvent

\* Every step keeps one process at a time, under one reservation: an attempt begins
\* only while nothing runs, and a cleanup releases what the process held.
LEMMA NextOneProcess ==
    ASSUME ServiceTypeOK, ServiceInv, ServiceStep
    PROVE  OneProcess'
  <1> USE ServiceAssumption DEF ServiceTypeOK, ServiceInv, Callers, Waiters, Procs, Nothing,
     Stop, Error, OneProcess, Stops, Early
  <1>1. CASE StopDone
    BY <1>1 DEF StopDone, StopThrows, WakeStop
  <1>2. CASE Unwound
    BY <1>2 DEF Unwound, Settle, Returned, Threw
  <1>3. ASSUME NEW f \in Waiters, CleanupAwaited(f)
        PROVE  OneProcess'
    BY <1>3 DEF CleanupAwaited
  <1>4. CASE EnsureAction
    <2>1. EnsureTurn
      BY <1>4, EnsureFacts
    <2>2. CASE UNCHANGED newAttempt
      BY <2>1, <2>2 DEF EnsureTurn, notNewAttempt, newAttempt
    <2>3. CASE Begins(crashes) /\ startup' = 0
      BY <2>1, <2>3 DEF EnsureTurn, notNewAttempt, newAttempt, Begins, Fresh
    <2>4. CASE Begins(crashes) /\ Fresh(startup') /\ startup' # 0
      BY <2>1, <2>4 DEF EnsureTurn, notNewAttempt, newAttempt, Begins, Fresh
    <2>5. QED
      BY <2>1, <2>2, <2>3, <2>4 DEF EnsureTurn, Begins, Fresh
  <1>5. ASSUME NEW f \in Callers, FirstStopOver(f)
        PROVE  OneProcess'
    BY <1>5 DEF FirstStopOver, Returned, Threw, Goto, callOnly
  <1>6. ASSUME NEW f \in Callers, Joined(f)
        PROVE  OneProcess'
    BY <1>6, EnterStopFacts DEF Joined, StopEntered, Goto
  <1>7. ASSUME NEW f \in Callers, SecondStopOver(f)
        PROVE  OneProcess'
    BY <1>7 DEF SecondStopOver, Returned, Threw, Goto
  <1>8. ASSUME NEW f \in {"ready", "stopper"}, Collect(f)
        PROVE  OneProcess'
    BY <1>8 DEF Collect, callOnly, Goto
  <1>9. CASE KillCall("stopper")
    BY <1>9, EnterStopFacts DEF KillCall, StopEntered, JoinStartup, Restarting, Goto
  <1>10. CASE ShutdownCall("closer")
    BY <1>10 DEF ShutdownCall, JoinStartup, Restarting, Exited, Goto
  <1>11. CASE Drained /\ Prepare
    BY <1>11 DEF Prepare, StartCancelled, StartRefused, StartFailed, Settle, Forgotten,
       Counted, Unsettled
  <1>12. CASE Drained /\ Reserve
    BY <1>12 DEF Reserve, StartCancelled, StartRefused, StartFailed, Settle, Forgotten,
       Counted, Unsettled
  <1>13. CASE Drained /\ Spawn
    BY <1>13 DEF Spawn, StartCancelled, StartFailed, Settle, Forgotten, Counted, Unsettled
  <1>14. CASE Drained /\ Adopt
    BY <1>14 DEF Adopt, Unwinding, Counted, EnterStopOn
  <1>15. CASE Drained /\ Healthy
    BY <1>15 DEF Healthy, Settle
  <1>16. CASE Drained /\ Unhealthy
    BY <1>16, EnterStopFacts DEF Unhealthy, Unwinding, Counted, StopEntered
  <1>17. CASE Drained /\ StopFails
    BY <1>17 DEF StopFails, StopThrows, WakeStop
  <1>18. ASSUME NEW p \in Procs, ProcessExit(p)
        PROVE  OneProcess'
    BY <1>18 DEF ProcessExit
  <1>19. ASSUME NEW p \in Procs, Cleanup(p)
        PROVE  OneProcess'
    <2>1. CleanTurn(p)
      BY <1>19, CleanupFacts
    <2>2. CASE UNCHANGED <<proc, newAttempt>>
      BY <2>1, <2>2 DEF CleanTurn, newAttempt
    <2>3. CASE Begins(crashes + 1) /\ startup' = 0
      BY <2>1, <2>3 DEF CleanTurn, newAttempt, Begins, Fresh
    <2>4. CASE Begins(crashes + 1) /\ Fresh(startup') /\ startup' # 0
      BY <2>1, <2>4 DEF CleanTurn, newAttempt, Begins, Fresh
    <2>5. QED
      BY <2>1, <2>2, <2>3, <2>4 DEF CleanTurn, Begins, Fresh
  <1>20. ASSUME NEW p \in Procs, Reap(p)
        PROVE  OneProcess'
    BY <1>20 DEF Reap
  <1>21. CASE UNCHANGED faultless /\ (UNCHANGED faults \/ Fault)
    BY <1>21 DEF faultless, callOnly
  <1>22. QED
    BY <1>1, <1>2, <1>3, <1>4, <1>5, <1>6, <1>7, <1>8, <1>9, <1>10, <1>11, <1>12, <1>13,
       <1>14, <1>15, <1>16, <1>17, <1>18, <1>19, <1>20, <1>21
       DEF ServiceStep, Call, EnsureAction, ServiceEvent

\* Every step keeps a stop on this.proc.
LEMMA NextStops ==
    ASSUME ServiceTypeOK, ServiceInv, ServiceStep
    PROVE  Stops'
  <1> USE ServiceAssumption DEF ServiceTypeOK, ServiceInv, Callers, Waiters, Procs, Nothing,
     Stop, Error, OneProcess, Stops, Early, Awaits, Labelled
  <1>1. CASE StopDone
    BY <1>1 DEF StopDone, StopThrows, WakeStop
  <1>2. CASE Unwound
    BY <1>2 DEF Unwound, Settle, Returned, Threw
  <1>3. ASSUME NEW f \in Waiters, CleanupAwaited(f)
        PROVE  Stops'
    BY <1>3 DEF CleanupAwaited
  <1>4. CASE EnsureAction
    <2>1. EnsureTurn
      BY <1>4, EnsureFacts
    <2>2. CASE UNCHANGED newAttempt
      BY <2>1, <2>2 DEF EnsureTurn, notNewAttempt, newAttempt
    <2>3. CASE Begins(crashes) /\ startup' = 0
      BY <2>1, <2>3 DEF EnsureTurn, notNewAttempt, newAttempt, Begins, Fresh
    <2>4. CASE Begins(crashes) /\ Fresh(startup') /\ startup' # 0
      BY <2>1, <2>4 DEF EnsureTurn, notNewAttempt, newAttempt, Begins, Fresh
    <2>5. QED
      BY <2>1, <2>2, <2>3, <2>4 DEF EnsureTurn, Begins, Fresh
  <1>5. ASSUME NEW f \in Callers, FirstStopOver(f)
        PROVE  Stops'
    BY <1>5 DEF FirstStopOver, Returned, Threw, Goto, callOnly
  <1>6. ASSUME NEW f \in Callers, Joined(f)
        PROVE  Stops'
    BY <1>6, EnterStopFacts DEF Joined, StopEntered, Goto
  <1>7. ASSUME NEW f \in Callers, SecondStopOver(f)
        PROVE  Stops'
    BY <1>7 DEF SecondStopOver, Returned, Threw, Goto
  <1>8. ASSUME NEW f \in {"ready", "stopper"}, Collect(f)
        PROVE  Stops'
    BY <1>8 DEF Collect, callOnly, Goto
  <1>9. CASE KillCall("stopper")
    BY <1>9, EnterStopFacts DEF KillCall, StopEntered, JoinStartup, Restarting, Goto
  <1>10. CASE ShutdownCall("closer")
    BY <1>10 DEF ShutdownCall, JoinStartup, Restarting, Exited, Goto
  <1>11. CASE Drained /\ Prepare
    BY <1>11 DEF Prepare, StartCancelled, StartRefused, StartFailed, Settle, Forgotten,
       Counted, Unsettled
  <1>12. CASE Drained /\ Reserve
    BY <1>12 DEF Reserve, StartCancelled, StartRefused, StartFailed, Settle, Forgotten,
       Counted, Unsettled
  <1>13. CASE Drained /\ Spawn
    BY <1>13 DEF Spawn, StartCancelled, StartFailed, Settle, Forgotten, Counted, Unsettled
  <1>14. CASE Drained /\ Adopt
    BY <1>14 DEF Adopt, Unwinding, Counted, EnterStopOn
  <1>15. CASE Drained /\ Healthy
    BY <1>15 DEF Healthy, Settle
  <1>16. CASE Drained /\ Unhealthy
    BY <1>16, EnterStopFacts DEF Unhealthy, Unwinding, Counted, StopEntered
  <1>17. CASE Drained /\ StopFails
    BY <1>17 DEF StopFails, StopThrows, WakeStop
  <1>18. ASSUME NEW p \in Procs, ProcessExit(p)
        PROVE  Stops'
    BY <1>18 DEF ProcessExit
  <1>19. ASSUME NEW p \in Procs, Cleanup(p)
        PROVE  Stops'
    <2>1. CleanTurn(p)
      BY <1>19, CleanupFacts
    <2>2. CASE UNCHANGED <<proc, newAttempt>>
      BY <2>1, <2>2 DEF CleanTurn, newAttempt
    <2>3. CASE Begins(crashes + 1) /\ startup' = 0
      BY <2>1, <2>3 DEF CleanTurn, newAttempt, Begins, Fresh
    <2>4. CASE Begins(crashes + 1) /\ Fresh(startup') /\ startup' # 0
      BY <2>1, <2>4 DEF CleanTurn, newAttempt, Begins, Fresh
    <2>5. QED
      BY <2>1, <2>2, <2>3, <2>4 DEF CleanTurn, Begins, Fresh
  <1>20. ASSUME NEW p \in Procs, Reap(p)
        PROVE  Stops'
    BY <1>20 DEF Reap
  <1>21. CASE UNCHANGED faultless /\ (UNCHANGED faults \/ Fault)
    BY <1>21 DEF faultless, callOnly
  <1>22. QED
    BY <1>1, <1>2, <1>3, <1>4, <1>5, <1>6, <1>7, <1>8, <1>9, <1>10, <1>11, <1>12, <1>13,
       <1>14, <1>15, <1>16, <1>17, <1>18, <1>19, <1>20, <1>21
       DEF ServiceStep, Call, EnsureAction, ServiceEvent

\* Every step leaves what is awaited to who awaits it: what begins an attempt or a
\* stop comes after the continuations of the last one.
LEMMA NextAwaits ==
    ASSUME ServiceTypeOK, ServiceInv, ServiceStep
    PROVE  Awaits'
  <1> USE ServiceAssumption DEF ServiceTypeOK, ServiceInv, Callers, Waiters, Procs, Nothing,
     Stop, Error, OneProcess, Stops, Early, Awaits, Labelled, Live, Returned
  <1>1. CASE StopDone
    BY <1>1 DEF StopDone, StopThrows, WakeStop
  <1>2. CASE Unwound
    BY <1>2 DEF Unwound, Settle, Returned, Threw
  <1>3. ASSUME NEW f \in Waiters, CleanupAwaited(f)
        PROVE  Awaits'
    BY <1>3 DEF CleanupAwaited
  <1>4. CASE EnsureAction
    <2>1. EnsureTurn
      BY <1>4, EnsureFacts
    <2>2. CASE UNCHANGED newAttempt
      BY <2>1, <2>2 DEF EnsureTurn, notNewAttempt, newAttempt
    <2>3. CASE Begins(crashes) /\ startup' = 0
      BY <2>1, <2>3 DEF EnsureTurn, notNewAttempt, newAttempt, Begins, Fresh
    <2>4. CASE Begins(crashes) /\ Fresh(startup') /\ startup' # 0
      BY <2>1, <2>4 DEF EnsureTurn, notNewAttempt, newAttempt, Begins, Fresh
    <2>5. QED
      BY <2>1, <2>2, <2>3, <2>4 DEF EnsureTurn, Begins, Fresh
  <1>5. ASSUME NEW f \in Callers, FirstStopOver(f)
        PROVE  Awaits'
    BY <1>5 DEF FirstStopOver, Returned, Threw, Goto, callOnly
  <1>6. ASSUME NEW f \in Callers, Joined(f)
        PROVE  Awaits'
    <2>1. CASE UNCHANGED <<on, stopping>>
      BY <1>6, <2>1 DEF Joined, Goto
    <2>2. CASE EnterStop(f)
      <3>1. f # "ready" /\ StopEntered(f)
        BY <1>6, <2>2, EnterStopFacts DEF Joined
      <3>2. on'["ready"] = on["ready"] /\ on'["attempt"] = on["attempt"]
        BY <3>1 DEF StopEntered
      <3>3. pc["ready"] = "eStop" /\ Returned("ready") => stopping' = 0
        BY <3>1 DEF StopEntered
      <3>4. QED
        BY <1>6, <3>1, <3>2, <3>3 DEF StopEntered, Joined, Goto
    <2>3. QED
      BY <1>6, <2>1, <2>2 DEF Joined
  <1>7. ASSUME NEW f \in Callers, SecondStopOver(f)
        PROVE  Awaits'
    BY <1>7 DEF SecondStopOver, Returned, Threw, Goto
  <1>8. ASSUME NEW f \in {"ready", "stopper"}, Collect(f)
        PROVE  Awaits'
    BY <1>8 DEF Collect, callOnly, Goto
  <1>9. CASE KillCall("stopper")
    <2>1. CASE UNCHANGED <<on, stopping>>
      BY <1>9, <2>1 DEF KillCall, JoinStartup, Restarting, Goto
    <2>2. CASE EnterStop("stopper")
      <3>1. "stopper" # "ready" /\ StopEntered("stopper")
        BY <1>9, <2>2, EnterStopFacts DEF KillCall
      <3>2. on'["ready"] = on["ready"] /\ on'["attempt"] = on["attempt"]
        BY <3>1 DEF StopEntered
      <3>3. pc["ready"] = "eStop" /\ Returned("ready") => stopping' = 0
        BY <3>1 DEF StopEntered
      <3>4. QED
        BY <1>9, <3>1, <3>2, <3>3 DEF StopEntered, KillCall, JoinStartup, Restarting, Goto
    <2>3. QED
      BY <1>9, <2>1, <2>2 DEF KillCall
  <1>10. CASE ShutdownCall("closer")
    BY <1>10 DEF ShutdownCall, JoinStartup, Restarting, Exited, Goto
  <1>11. CASE Drained /\ Prepare
    BY <1>11 DEF Prepare, StartCancelled, StartRefused, StartFailed, Settle, Forgotten,
       Counted, Unsettled
  <1>12. CASE Drained /\ Reserve
    BY <1>12 DEF Reserve, StartCancelled, StartRefused, StartFailed, Settle, Forgotten,
       Counted, Unsettled, Drained, ServiceDrained
  <1>13. CASE Drained /\ Spawn
    BY <1>13 DEF Spawn, StartCancelled, StartFailed, Settle, Forgotten, Counted, Unsettled,
       Drained, ServiceDrained
  <1>14. CASE Drained /\ Adopt
    BY <1>14 DEF Adopt, Unwinding, Counted, EnterStopOn, Drained, ServiceDrained
  <1>15. CASE Drained /\ Healthy
    BY <1>15 DEF Healthy, Settle
  <1>16. CASE Drained /\ Unhealthy
    BY <1>16, EnterStopFacts DEF Unhealthy, Unwinding, Counted, StopEntered
  <1>17. CASE Drained /\ StopFails
    BY <1>17 DEF StopFails, StopThrows, WakeStop
  <1>18. ASSUME NEW p \in Procs, ProcessExit(p)
        PROVE  Awaits'
    BY <1>18 DEF ProcessExit
  <1>19. ASSUME NEW p \in Procs, Cleanup(p)
        PROVE  Awaits'
    <2>1. CleanTurn(p)
      BY <1>19, CleanupFacts
    <2>2. CASE UNCHANGED <<proc, newAttempt>>
      BY <2>1, <2>2 DEF CleanTurn, newAttempt
    <2>3. CASE Begins(crashes + 1) /\ startup' = 0
      BY <2>1, <2>3 DEF CleanTurn, newAttempt, Begins, Fresh
    <2>4. CASE Begins(crashes + 1) /\ Fresh(startup') /\ startup' # 0
      BY <2>1, <2>4 DEF CleanTurn, newAttempt, Begins, Fresh
    <2>5. QED
      BY <2>1, <2>2, <2>3, <2>4 DEF CleanTurn, Begins, Fresh
  <1>20. ASSUME NEW p \in Procs, Reap(p)
        PROVE  Awaits'
    BY <1>20 DEF Reap
  <1>21. CASE UNCHANGED faultless /\ (UNCHANGED faults \/ Fault)
    BY <1>21 DEF faultless, callOnly
  <1>22. QED
    BY <1>1, <1>2, <1>3, <1>4, <1>5, <1>6, <1>7, <1>8, <1>9, <1>10, <1>11, <1>12, <1>13,
       <1>14, <1>15, <1>16, <1>17, <1>18, <1>19, <1>20, <1>21
       DEF ServiceStep, Call, EnsureAction, ServiceEvent

\* Every step keeps the crashes counted below the limit while an attempt runs.
LEMMA NextCounts ==
    ASSUME ServiceTypeOK, ServiceInv, ServiceStep
    PROVE  Counts'
  <1> USE ServiceAssumption DEF ServiceTypeOK, ServiceInv, Callers, Waiters, Procs, Nothing,
     Stop, Error, OneProcess, Counts, Early
  <1>1. CASE StopDone
    BY <1>1 DEF StopDone, StopThrows, WakeStop
  <1>2. CASE Unwound
    BY <1>2 DEF Unwound, Settle, Returned, Threw
  <1>3. ASSUME NEW f \in Waiters, CleanupAwaited(f)
        PROVE  Counts'
    BY <1>3 DEF CleanupAwaited
  <1>4. CASE EnsureAction
    <2>1. EnsureTurn
      BY <1>4, EnsureFacts
    <2>2. CASE UNCHANGED newAttempt
      BY <2>1, <2>2 DEF EnsureTurn, notNewAttempt, newAttempt
    <2>3. CASE Begins(crashes) /\ startup' = 0
      BY <2>1, <2>3 DEF EnsureTurn, notNewAttempt, newAttempt, Begins, Fresh
    <2>4. CASE Begins(crashes) /\ Fresh(startup') /\ startup' # 0
      BY <2>1, <2>4 DEF EnsureTurn, notNewAttempt, newAttempt, Begins, Fresh
    <2>5. QED
      BY <2>1, <2>2, <2>3, <2>4 DEF EnsureTurn, Begins, Fresh
  <1>5. ASSUME NEW f \in Callers, FirstStopOver(f)
        PROVE  Counts'
    BY <1>5 DEF FirstStopOver, Returned, Threw, Goto, callOnly
  <1>6. ASSUME NEW f \in Callers, Joined(f)
        PROVE  Counts'
    BY <1>6, EnterStopFacts DEF Joined, StopEntered, Goto
  <1>7. ASSUME NEW f \in Callers, SecondStopOver(f)
        PROVE  Counts'
    BY <1>7 DEF SecondStopOver, Returned, Threw, Goto
  <1>8. ASSUME NEW f \in {"ready", "stopper"}, Collect(f)
        PROVE  Counts'
    BY <1>8 DEF Collect, callOnly, Goto
  <1>9. CASE KillCall("stopper")
    BY <1>9, EnterStopFacts DEF KillCall, StopEntered, JoinStartup, Restarting, Goto
  <1>10. CASE ShutdownCall("closer")
    BY <1>10 DEF ShutdownCall, JoinStartup, Restarting, Exited, Goto
  <1>11. CASE Drained /\ Prepare
    BY <1>11 DEF Prepare, StartCancelled, StartRefused, StartFailed, Settle, Forgotten,
       Counted, Unsettled
  <1>12. CASE Drained /\ Reserve
    BY <1>12 DEF Reserve, StartCancelled, StartRefused, StartFailed, Settle, Forgotten,
       Counted, Unsettled
  <1>13. CASE Drained /\ Spawn
    BY <1>13 DEF Spawn, StartCancelled, StartFailed, Settle, Forgotten, Counted, Unsettled
  <1>14. CASE Drained /\ Adopt
    BY <1>14 DEF Adopt, Unwinding, Counted, EnterStopOn
  <1>15. CASE Drained /\ Healthy
    BY <1>15 DEF Healthy, Settle
  <1>16. CASE Drained /\ Unhealthy
    BY <1>16, EnterStopFacts DEF Unhealthy, Unwinding, Counted, StopEntered
  <1>17. CASE Drained /\ StopFails
    BY <1>17 DEF StopFails, StopThrows, WakeStop
  <1>18. ASSUME NEW p \in Procs, ProcessExit(p)
        PROVE  Counts'
    BY <1>18 DEF ProcessExit
  <1>19. ASSUME NEW p \in Procs, Cleanup(p)
        PROVE  Counts'
    <2>1. CleanTurn(p)
      BY <1>19, CleanupFacts
    <2>2. CASE UNCHANGED <<proc, newAttempt>>
      BY <2>1, <2>2 DEF CleanTurn, newAttempt
    <2>3. CASE Begins(crashes + 1) /\ startup' = 0
      BY <2>1, <2>3 DEF CleanTurn, newAttempt, Begins, Fresh
    <2>4. CASE Begins(crashes + 1) /\ Fresh(startup') /\ startup' # 0
      BY <2>1, <2>4 DEF CleanTurn, newAttempt, Begins, Fresh
    <2>5. QED
      BY <2>1, <2>2, <2>3, <2>4 DEF CleanTurn, Begins, Fresh
  <1>20. ASSUME NEW p \in Procs, Reap(p)
        PROVE  Counts'
    BY <1>20 DEF Reap
  <1>21. CASE UNCHANGED faultless /\ (UNCHANGED faults \/ Fault)
    BY <1>21 DEF faultless, callOnly
  <1>22. QED
    BY <1>1, <1>2, <1>3, <1>4, <1>5, <1>6, <1>7, <1>8, <1>9, <1>10, <1>11, <1>12, <1>13,
       <1>14, <1>15, <1>16, <1>17, <1>18, <1>19, <1>20, <1>21
       DEF ServiceStep, Call, EnsureAction, ServiceEvent

\* Every step keeps what a kill has reached.
LEMMA NextKills ==
    ASSUME ServiceTypeOK, ServiceInv, ServiceStep
    PROVE  Kills'
  <1> USE ServiceAssumption DEF ServiceTypeOK, ServiceInv, Callers, Waiters, Procs, Nothing,
     Stop, Error, OneProcess, Stops, Early, Awaits, Labelled, Kills, Live
  <1>1. CASE StopDone
    BY <1>1 DEF StopDone, StopThrows, WakeStop
  <1>2. CASE Unwound
    BY <1>2 DEF Unwound, Settle, Returned, Threw
  <1>3. ASSUME NEW f \in Waiters, CleanupAwaited(f)
        PROVE  Kills'
    BY <1>3 DEF CleanupAwaited
  <1>4. CASE EnsureAction
    <2>1. EnsureTurn
      BY <1>4, EnsureFacts
    <2>2. CASE UNCHANGED newAttempt
      BY <2>1, <2>2 DEF EnsureTurn, notNewAttempt, newAttempt
    <2>3. CASE Begins(crashes) /\ startup' = 0
      BY <2>1, <2>3 DEF EnsureTurn, notNewAttempt, newAttempt, Begins, Fresh
    <2>4. CASE Begins(crashes) /\ Fresh(startup') /\ startup' # 0
      BY <2>1, <2>4 DEF EnsureTurn, notNewAttempt, newAttempt, Begins, Fresh
    <2>5. QED
      BY <2>1, <2>2, <2>3, <2>4 DEF EnsureTurn, Begins, Fresh
  <1>5. ASSUME NEW f \in Callers, FirstStopOver(f)
        PROVE  Kills'
    BY <1>5 DEF FirstStopOver, Returned, Threw, Goto, callOnly
  <1>6. ASSUME NEW f \in Callers, Joined(f)
        PROVE  Kills'
    BY <1>6, EnterStopFacts DEF Joined, StopEntered, Goto
  <1>7. ASSUME NEW f \in Callers, SecondStopOver(f)
        PROVE  Kills'
    BY <1>7 DEF SecondStopOver, Returned, Threw, Goto
  <1>8. ASSUME NEW f \in {"ready", "stopper"}, Collect(f)
        PROVE  Kills'
    BY <1>8 DEF Collect, callOnly, Goto
  <1>9. CASE KillCall("stopper")
    BY <1>9, EnterStopFacts DEF KillCall, StopEntered, JoinStartup, Restarting, Goto
  <1>10. CASE ShutdownCall("closer")
    BY <1>10 DEF ShutdownCall, JoinStartup, Restarting, Exited, Goto
  <1>11. CASE Drained /\ Prepare
    BY <1>11 DEF Prepare, StartCancelled, StartRefused, StartFailed, Settle, Forgotten,
       Counted, Unsettled
  <1>12. CASE Drained /\ Reserve
    BY <1>12 DEF Reserve, StartCancelled, StartRefused, StartFailed, Settle, Forgotten,
       Counted, Unsettled, Drained, ServiceDrained, Returned, Threw
  <1>13. CASE Drained /\ Spawn
    BY <1>13 DEF Spawn, StartCancelled, StartFailed, Settle, Forgotten, Counted, Unsettled,
       Drained, ServiceDrained, Returned, Threw
  <1>14. CASE Drained /\ Adopt
    BY <1>14 DEF Adopt, Unwinding, Counted, EnterStopOn, Drained, ServiceDrained, Returned,
       Threw
  <1>15. CASE Drained /\ Healthy
    BY <1>15 DEF Healthy, Settle
  <1>16. CASE Drained /\ Unhealthy
    BY <1>16, EnterStopFacts DEF Unhealthy, Unwinding, Counted, StopEntered
  <1>17. CASE Drained /\ StopFails
    BY <1>17 DEF StopFails, StopThrows, WakeStop
  <1>18. ASSUME NEW p \in Procs, ProcessExit(p)
        PROVE  Kills'
    BY <1>18 DEF ProcessExit
  <1>19. ASSUME NEW p \in Procs, Cleanup(p)
        PROVE  Kills'
    <2>1. CleanTurn(p)
      BY <1>19, CleanupFacts
    <2>2. CASE UNCHANGED <<proc, newAttempt>>
      BY <2>1, <2>2 DEF CleanTurn, newAttempt
    <2>3. CASE Begins(crashes + 1) /\ startup' = 0
      BY <2>1, <2>3 DEF CleanTurn, newAttempt, Begins, Fresh
    <2>4. CASE Begins(crashes + 1) /\ Fresh(startup') /\ startup' # 0
      BY <2>1, <2>4 DEF CleanTurn, newAttempt, Begins, Fresh
    <2>5. QED
      BY <2>1, <2>2, <2>3, <2>4 DEF CleanTurn, Begins, Fresh
  <1>20. ASSUME NEW p \in Procs, Reap(p)
        PROVE  Kills'
    BY <1>20 DEF Reap
  <1>21. CASE UNCHANGED faultless /\ (UNCHANGED faults \/ Fault)
    BY <1>21 DEF faultless, callOnly
  <1>22. QED
    BY <1>1, <1>2, <1>3, <1>4, <1>5, <1>6, <1>7, <1>8, <1>9, <1>10, <1>11, <1>12, <1>13,
       <1>14, <1>15, <1>16, <1>17, <1>18, <1>19, <1>20, <1>21
       DEF ServiceStep, Call, EnsureAction, ServiceEvent

\* Every step keeps what a shutdown has reached.
LEMMA NextCloses ==
    ASSUME ServiceTypeOK, ServiceInv, ServiceStep
    PROVE  Closes'
  <1> USE ServiceAssumption DEF ServiceTypeOK, ServiceInv, Callers, Waiters, Procs, Nothing,
     Stop, Error, OneProcess, Stops, Early, Awaits, Labelled, Closes, AllGone
  <1>1. CASE StopDone
    BY <1>1 DEF StopDone, StopThrows, WakeStop
  <1>2. CASE Unwound
    BY <1>2 DEF Unwound, Settle, Returned, Threw
  <1>3. ASSUME NEW f \in Waiters, CleanupAwaited(f)
        PROVE  Closes'
    BY <1>3 DEF CleanupAwaited
  <1>4. CASE EnsureAction
    <2>1. EnsureTurn
      BY <1>4, EnsureFacts
    <2>2. CASE UNCHANGED newAttempt
      BY <2>1, <2>2 DEF EnsureTurn, notNewAttempt, newAttempt
    <2>3. CASE Begins(crashes) /\ startup' = 0
      BY <2>1, <2>3 DEF EnsureTurn, notNewAttempt, newAttempt, Begins, Fresh
    <2>4. CASE Begins(crashes) /\ Fresh(startup') /\ startup' # 0
      BY <2>1, <2>4 DEF EnsureTurn, notNewAttempt, newAttempt, Begins, Fresh
    <2>5. QED
      BY <2>1, <2>2, <2>3, <2>4 DEF EnsureTurn, Begins, Fresh
  <1>5. ASSUME NEW f \in Callers, FirstStopOver(f)
        PROVE  Closes'
    BY <1>5 DEF FirstStopOver, Returned, Threw, Goto, callOnly
  <1>6. ASSUME NEW f \in Callers, Joined(f)
        PROVE  Closes'
    BY <1>6, EnterStopFacts DEF Joined, StopEntered, Goto
  <1>7. ASSUME NEW f \in Callers, SecondStopOver(f)
        PROVE  Closes'
    BY <1>7 DEF SecondStopOver, Returned, Threw, Goto
  <1>8. ASSUME NEW f \in {"ready", "stopper"}, Collect(f)
        PROVE  Closes'
    BY <1>8 DEF Collect, callOnly, Goto
  <1>9. CASE KillCall("stopper")
    BY <1>9, EnterStopFacts DEF KillCall, StopEntered, JoinStartup, Restarting, Goto
  <1>10. CASE ShutdownCall("closer")
    BY <1>10 DEF ShutdownCall, JoinStartup, Restarting, Exited, Goto
  <1>11. CASE Drained /\ Prepare
    BY <1>11 DEF Prepare, StartCancelled, StartRefused, StartFailed, Settle, Forgotten,
       Counted, Unsettled
  <1>12. CASE Drained /\ Reserve
    BY <1>12 DEF Reserve, StartCancelled, StartRefused, StartFailed, Settle, Forgotten,
       Counted, Unsettled
  <1>13. CASE Drained /\ Spawn
    BY <1>13 DEF Spawn, StartCancelled, StartFailed, Settle, Forgotten, Counted, Unsettled
  <1>14. CASE Drained /\ Adopt
    BY <1>14 DEF Adopt, Unwinding, Counted, EnterStopOn
  <1>15. CASE Drained /\ Healthy
    BY <1>15 DEF Healthy, Settle
  <1>16. CASE Drained /\ Unhealthy
    BY <1>16, EnterStopFacts DEF Unhealthy, Unwinding, Counted, StopEntered
  <1>17. CASE Drained /\ StopFails
    BY <1>17 DEF StopFails, StopThrows, WakeStop
  <1>18. ASSUME NEW p \in Procs, ProcessExit(p)
        PROVE  Closes'
    BY <1>18 DEF ProcessExit
  <1>19. ASSUME NEW p \in Procs, Cleanup(p)
        PROVE  Closes'
    <2>1. CleanTurn(p)
      BY <1>19, CleanupFacts
    <2>2. CASE UNCHANGED <<proc, newAttempt>>
      BY <2>1, <2>2 DEF CleanTurn, newAttempt
    <2>3. CASE Begins(crashes + 1) /\ startup' = 0
      BY <2>1, <2>3 DEF CleanTurn, newAttempt, Begins, Fresh
    <2>4. CASE Begins(crashes + 1) /\ Fresh(startup') /\ startup' # 0
      BY <2>1, <2>4 DEF CleanTurn, newAttempt, Begins, Fresh
    <2>5. QED
      BY <2>1, <2>2, <2>3, <2>4 DEF CleanTurn, Begins, Fresh
  <1>20. ASSUME NEW p \in Procs, Reap(p)
        PROVE  Closes'
    BY <1>20 DEF Reap
  <1>21. CASE UNCHANGED faultless /\ (UNCHANGED faults \/ Fault)
    BY <1>21 DEF faultless, callOnly
  <1>22. QED
    BY <1>1, <1>2, <1>3, <1>4, <1>5, <1>6, <1>7, <1>8, <1>9, <1>10, <1>11, <1>12, <1>13,
       <1>14, <1>15, <1>16, <1>17, <1>18, <1>19, <1>20, <1>21
       DEF ServiceStep, Call, EnsureAction, ServiceEvent
=============================================================================
