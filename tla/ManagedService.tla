--------------------------- MODULE ManagedService ---------------------------
(***************************************************************************)
(* ManagedService (src/src/domains/runtime/supervisor.ts): one lazily      *)
(* started backend process, its start attempts, crash restarts, kill and   *)
(* shutdown, with the stop of a native process (native-process.ts).        *)
(*                                                                         *)
(* JavaScript runs one continuation at a time: an action here is a stretch *)
(* of code between two awaits. Three calls can be under way at once, one of *)
(* each kind in Callers; the start attempt (the async body of start) and   *)
(* the stop (stoppingPromise) run beside them.                             *)
(*                                                                         *)
(* A start attempt, its process and its reservation share a number: an     *)
(* attempt spawns at most one process. A number is used again once its     *)
(* process is gone and nothing refers to it. Backoff, preflight and launch *)
(* are one phase: nothing of the service changes between them.             *)
(***************************************************************************)
EXTENDS Integers, FiniteSets

CONSTANTS MaxProcs,     \* processes something may refer to at once
          CrashLimit,   \* crashes within the window that stop restarts (5)
          MaxFaults     \* bound on exits nobody asked for, failed launches, spawns,
                        \* probes, guardians and stops, all told

ASSUME ServiceAssumption ==
    /\ MaxProcs \in Nat \ {0} /\ CrashLimit \in Nat \ {0}
    /\ MaxFaults \in Nat

Procs == 1..MaxProcs

\* ready: ensureRunning for a request.  stopper: kill by that request's owner.
\* closer: shutdown by the registry.
Callers == {"ready", "stopper", "closer"}
Waiters == Callers \union {"attempt"}

\* What a waiter awaits when that is no process: nothing, the stop under way,
\* or nothing any more after an error.
Nothing == 0
Stop == -1
Error == -2

VARIABLES life,      \* lifecycleState
          proc,      \* this.proc: 0 or a process
          st,        \* each process: live, exited, gone (cleaned up, or none yet)
          guarded,   \* processes with a guardian
          expected,  \* expectedStops
          resv,      \* the reservation in the ledger: 0 or its attempt
          startup,   \* the attempt under way: 0 is !isRestarting
          phase,     \* what it awaits
          cancelled, \* its cancelled flag
          verdict,   \* why the attempt unwinds
          stopping,  \* stoppingPromise: 0 or the process it stops
          shuttingDown,
          crashes,   \* crashTimes
          pc,        \* where each call is
          joined,    \* the attempt a call awaits, or how it has settled
          on,        \* what a waiter awaits: the stop, or a dead process's cleanup
          faults     \* faults so far

serviceVars == <<life, proc, st, guarded, expected, resv, startup, phase, cancelled,
                 verdict, stopping, shuttingDown, crashes, pc, joined, on,
                 faults>>

Lives == {"idle", "starting", "running", "stopping", "failed"}
Phases == {"none", "prepare", "reserve", "spawn", "adopt", "health", "unwind"}
Outcomes == {"none", "pending", "ok", "cancelled", "refused", "failed", "limit"}
Labels == {"idle", "eStop", "eJoin", "eOwn", "k1", "kJoin", "k2",
           "s1", "sJoin", "s2", "ok", "err"}

ServiceTypeOK ==
    /\ life \in Lives
    /\ proc \in {0} \union Procs
    /\ st \in [Procs -> {"live", "exited", "gone"}]
    /\ expected \subseteq Procs /\ guarded \subseteq Procs
    /\ resv \in {0} \union Procs
    /\ startup \in {0} \union Procs
    /\ phase \in Phases
    /\ cancelled \in BOOLEAN /\ shuttingDown \in BOOLEAN
    /\ verdict \in {"none", "cancelled", "failed"}
    /\ stopping \in {0} \union Procs
    /\ crashes \in 0..CrashLimit + 1
    /\ pc \in [Callers -> Labels]
    /\ joined \in [Callers -> Outcomes]
    /\ on \in [Waiters -> {Nothing, Stop, Error} \union Procs]
    /\ faults \in 0..MaxFaults

ServiceInit ==
    /\ life = "idle" /\ proc = 0
    /\ st = [p \in Procs |-> "gone"]
    /\ expected = {} /\ guarded = {}
    /\ resv = 0 /\ startup = 0
    /\ phase = "none" /\ cancelled = FALSE
    /\ verdict = "none"
    /\ stopping = 0 /\ shuttingDown = FALSE
    /\ crashes = 0
    /\ pc = [f \in Callers |-> "idle"]
    /\ joined = [f \in Callers |-> "none"]
    /\ on = [f \in Waiters |-> Nothing]
    /\ faults = 0

Restarting == startup # 0
Exited(p) == p # 0 /\ st[p] # "live"
Goto(f, label) == pc' = [pc EXCEPT ![f] = label]

\* Numbers nothing refers to any more.
Unused ==
    {p \in Procs : st[p] = "gone" /\ p \notin {proc, stopping} \union {on[f] : f \in Waiters}}

-----------------------------------------------------------------------------
(* start *)

newAttempt == <<startup, phase, cancelled, crashes, life>>
notNewAttempt == <<proc, st, guarded, expected, resv, verdict, stopping, shuttingDown, faults>>

\* The synchronous part of start() with `known' crashes counted: those older
\* than five minutes are forgotten, and at the limit the attempt is over
\* before it began.
StartAttempt(known, used) ==
    \E n \in 0..known :
        /\ crashes' = n
        /\ cancelled' = FALSE
        /\ IF n >= CrashLimit
           THEN life' = "failed" /\ phase' = "none" /\ startup' = 0
           ELSE /\ life' = "starting"
                /\ phase' = "prepare"
                /\ Unused \ used # {}
                /\ startup' = CHOOSE p \in Unused \ used : TRUE

\* The `finally' of the attempt: its promise settles as `how' for everyone who
\* awaits it.
Settle(how, after) ==
    /\ startup' = 0 /\ phase' = "none" /\ verdict' = "none" /\ cancelled' = FALSE
    /\ joined' = [f \in Callers |-> IF joined[f] = "pending" THEN how ELSE joined[f]]
    /\ life' = IF cancelled /\ ~shuttingDown THEN "idle" ELSE after

Unsettled == UNCHANGED <<startup, cancelled, joined>>

\* The catch block with no process to stop.
Forgotten == resv' = IF resv = startup THEN 0 ELSE resv
StartCancelled == Settle("cancelled", life) /\ Forgotten /\ UNCHANGED crashes
StartRefused == Settle("refused", "idle") /\ Forgotten /\ UNCHANGED crashes

Counted == crashes + 1

StartFailed == Settle("failed", "failed") /\ Forgotten /\ crashes' = Counted

\* A launch, a spawn, a probe or a stop fails for a reason of its own, or a
\* process exits.
Fault == faults < MaxFaults /\ faults' = faults + 1

\* Mutant: the process is spawned without a reservation.
PrepareUnreserved ==
    /\ phase = "prepare"
    /\ \/ cancelled /\ StartCancelled /\ UNCHANGED faults
       \/ ~cancelled /\ StartRefused /\ UNCHANGED faults
       \/ ~cancelled /\ StartFailed /\ Fault
       \/ /\ ~cancelled /\ Unsettled
          /\ phase' = "spawn"
          /\ UNCHANGED <<life, verdict, crashes, resv, faults>>
    /\ UNCHANGED <<proc, st, guarded, expected, stopping, shuttingDown, pc, on>>

\* Backoff, preflight and launch.
Prepare ==
    /\ phase = "prepare"
    /\ \/ cancelled /\ StartCancelled /\ UNCHANGED faults
       \/ ~cancelled /\ StartRefused /\ UNCHANGED faults
       \/ ~cancelled /\ StartFailed /\ Fault
       \/ /\ ~cancelled /\ Unsettled
          /\ phase' = "reserve"
          /\ UNCHANGED <<life, verdict, crashes, resv, faults>>
    /\ UNCHANGED <<proc, st, guarded, expected, stopping, shuttingDown, pc, on>>

\* reserve() is refused by the ledger, or because the runtime is still in it.
Reserve ==
    /\ phase = "reserve"
    /\ \/ cancelled /\ StartCancelled
       \/ ~cancelled /\ resv = 0 /\ StartRefused
       \/ ~cancelled /\ resv # 0 /\ StartFailed
       \/ /\ ~cancelled /\ resv = 0 /\ Unsettled
          /\ resv' = startup
          /\ phase' = "spawn"
          /\ UNCHANGED <<life, verdict, crashes>>
    /\ UNCHANGED <<proc, st, guarded, expected, stopping, shuttingDown, pc, on, faults>>

-----------------------------------------------------------------------------
(* stopCurrentProcess *)

\* What stopCurrentProcess does before its first await, called by f while
\* this.proc is p: join a stop under way, return, await a dead process's
\* cleanup, or begin a stop. (expectedStops is read by the cleanup only.)
EnterStopOn(f, p, dead) ==
    IF stopping # 0
    THEN /\ on' = [on EXCEPT ![f] = Stop]
         /\ UNCHANGED <<life, stopping, expected>>
    ELSE IF p = 0
    THEN UNCHANGED <<on, life, stopping, expected>>
    ELSE IF dead
    THEN /\ on' = [on EXCEPT ![f] = p]
         /\ expected' = IF st[p] = "exited" THEN expected \union {p} ELSE expected
         /\ UNCHANGED <<life, stopping>>
    ELSE /\ on' = [on EXCEPT ![f] = Stop]
         /\ life' = "stopping"
         /\ stopping' = p
         /\ expected' = expected \union {p}

EnterStop(f) == EnterStopOn(f, proc, Exited(proc))

\* Everyone who awaits the stop goes on.
WakeStop(how) == on' = [f \in Waiters |-> IF on[f] = Stop THEN how ELSE on[f]]

StopThrows ==
    /\ Fault
    /\ stopping' = 0
    /\ life' = "failed"
    /\ WakeStop(Error)
    /\ UNCHANGED proc

\* The process is down; its cleanup has succeeded, or its guardian could not
\* be stopped.
StopDone ==
    /\ stopping # 0 /\ st[stopping] = "gone"
    /\ \/ StopThrows
       \/ /\ proc' = IF proc = stopping THEN 0 ELSE proc
          /\ stopping' = 0
          /\ WakeStop(Nothing)
          /\ UNCHANGED <<life, faults>>
    /\ UNCHANGED <<st, guarded, expected, resv, startup, phase, cancelled, verdict,
                   shuttingDown, crashes, pc, joined>>

\* The exit of the process could not be confirmed.
StopFails ==
    /\ stopping # 0 /\ st[stopping] = "live"
    /\ StopThrows
    /\ UNCHANGED <<st, guarded, expected, resv, startup, phase, cancelled, verdict,
                   shuttingDown, crashes, pc, joined>>

\* The cleanup of a process that was already dead has run, or its guardian
\* could not be stopped.
CleanupAwaited(f) ==
    /\ on[f] \in Procs /\ st[on[f]] = "gone"
    /\ \/ /\ proc' = IF proc = on[f] THEN 0 ELSE proc
          /\ on' = [on EXCEPT ![f] = Nothing]
          /\ UNCHANGED faults
       \/ /\ Fault
          /\ on' = [on EXCEPT ![f] = Error]
          /\ UNCHANGED proc
    /\ UNCHANGED <<life, st, guarded, expected, resv, startup, phase, cancelled, verdict,
                   stopping, shuttingDown, crashes, pc, joined>>

Returned(f) == on[f] = Nothing
Threw(f) == on[f] = Error

-----------------------------------------------------------------------------
(* The attempt with a process *)

Unwinding(why) ==
    /\ phase' = "unwind"
    /\ verdict' = why
    /\ crashes' = IF why = "failed" THEN Counted ELSE crashes

\* options.start: the process runs before this.proc knows it.
Spawn ==
    /\ phase = "spawn"
    /\ \/ /\ Fault
          /\ IF cancelled THEN StartCancelled ELSE StartFailed
          /\ UNCHANGED st
       \/ /\ Unsettled
          /\ st' = [st EXCEPT ![startup] = "live"]
          /\ phase' = "adopt"
          /\ UNCHANGED <<resv, verdict, life, crashes, faults>>
    /\ UNCHANGED <<proc, guarded, expected, stopping, shuttingDown, pc, on>>

\* The process is recorded and guarded; the attempt stops it if it was
\* cancelled meanwhile, or if no guardian can be started.
Adopt ==
    /\ phase = "adopt"
    /\ proc' = startup
    /\ \/ /\ Fault
          /\ Unwinding(IF cancelled THEN "cancelled" ELSE "failed")
          /\ EnterStopOn("attempt", startup, FALSE)
          /\ UNCHANGED guarded
       \/ /\ guarded' = guarded \union {startup}
          /\ IF cancelled
             THEN Unwinding("cancelled") /\ EnterStopOn("attempt", startup, FALSE)
             ELSE /\ phase' = "health"
                  /\ UNCHANGED <<verdict, crashes, on, life, stopping, expected>>
          /\ UNCHANGED faults
    /\ UNCHANGED <<st, resv, startup, cancelled, shuttingDown, pc, joined>>

\* waitHealthy: the probe answers, the process has exited, the probes time out,
\* or the attempt was cancelled.
Healthy ==
    /\ phase = "health" /\ ~cancelled
    /\ st[startup] # "gone"
    /\ Settle("ok", "running")
    /\ UNCHANGED <<proc, st, guarded, expected, resv, stopping, shuttingDown, crashes, pc, on,
                   faults>>

Unhealthy ==
    /\ phase = "health"
    /\ \/ cancelled /\ Unwinding("cancelled") /\ UNCHANGED faults
       \/ /\ ~cancelled /\ Unwinding("failed")
          /\ \/ Exited(startup) /\ UNCHANGED faults
             \/ Fault
    /\ EnterStop("attempt")
    /\ UNCHANGED <<proc, st, guarded, resv, startup, cancelled, shuttingDown, pc, joined>>

Unwound ==
    /\ phase = "unwind"
    /\ \/ Returned("attempt") /\ verdict = "cancelled" /\ Settle("cancelled", life)
       \/ Returned("attempt") /\ verdict = "failed" /\ Settle("failed", "failed")
       \/ Threw("attempt") /\ Settle("failed", life)
    /\ on' = [on EXCEPT !["attempt"] = Nothing]
    /\ UNCHANGED <<proc, st, guarded, expected, resv, stopping, shuttingDown, crashes, pc,
                   faults>>

-----------------------------------------------------------------------------
(* The process's exit, its cleanup and handleCrash *)

\* A process ends when it is stopped, or of its own accord once adopted.
ProcessExit(p) ==
    /\ st[p] = "live"
    /\ ~(phase = "adopt" /\ p = startup)
    /\ \/ stopping = p /\ UNCHANGED faults
       \/ stopping # p /\ Fault
    /\ st' = [st EXCEPT ![p] = "exited"]
    /\ UNCHANGED <<life, proc, guarded, expected, resv, startup, phase, cancelled, verdict,
                   stopping, shuttingDown, crashes, pc, joined, on>>

Crashed(p) ==
    ~shuttingDown /\ p \notin expected /\ proc = p /\ ~Restarting

\* The guardian is stopped, the reservation released, a crash restarted.
Cleanup(p) ==
    /\ st[p] = "exited"
    /\ st' = [st EXCEPT ![p] = "gone"]
    /\ guarded' = guarded \ {p}
    /\ expected' = expected \ {p}
    /\ resv' = IF resv = p THEN 0 ELSE resv
    /\ IF Crashed(p)
       THEN proc' = 0 /\ StartAttempt(Counted, {p})
       ELSE UNCHANGED <<proc, newAttempt>>
    /\ UNCHANGED <<verdict, stopping, shuttingDown, pc, joined, on, faults>>

-----------------------------------------------------------------------------
(* ensureRunning, kill and shutdown *)

\* ensureRunning past its wait for a stop.
Checked(f) ==
    \/ /\ shuttingDown \/ life = "failed"
       /\ Goto(f, "err")
       /\ UNCHANGED <<joined, newAttempt>>
    \/ /\ ~shuttingDown /\ life # "failed" /\ Restarting
       /\ Goto(f, "eJoin")
       /\ joined' = [joined EXCEPT ![f] = "pending"]
       /\ UNCHANGED newAttempt
    \/ /\ ~shuttingDown /\ life # "failed" /\ ~Restarting
       /\ proc # 0 /\ ~Exited(proc)
       /\ Goto(f, "ok")
       /\ UNCHANGED <<joined, newAttempt>>
    \/ /\ ~shuttingDown /\ life # "failed" /\ ~Restarting
       /\ proc = 0 \/ Exited(proc)
       /\ StartAttempt(crashes, {})
       /\ Goto(f, "eOwn")
       /\ joined' = [joined EXCEPT ![f] = IF startup' = 0 THEN "limit" ELSE "pending"]

Entered(f) ==
    \/ /\ stopping # 0
       /\ Goto(f, "eStop")
       /\ on' = [on EXCEPT ![f] = Stop]
       /\ UNCHANGED <<joined, newAttempt>>
    \/ /\ stopping = 0
       /\ Checked(f)
       /\ UNCHANGED on

EnsureCall(f) ==
    /\ pc[f] = "idle"
    /\ Entered(f)
    /\ UNCHANGED notNewAttempt

EnsureStopped(f) ==
    /\ pc[f] = "eStop"
    /\ \/ Returned(f) /\ Checked(f)
       \/ Threw(f) /\ Goto(f, "err") /\ UNCHANGED <<joined, newAttempt>>
    /\ on' = [on EXCEPT ![f] = Nothing]
    /\ UNCHANGED notNewAttempt

\* A call that joined another's attempt enters again once it has succeeded.
EnsureJoined(f) ==
    /\ pc[f] \in {"eJoin", "eOwn"} /\ joined[f] # "pending"
    /\ \/ /\ joined[f] = "ok" /\ pc[f] = "eJoin" /\ life # "failed"
          /\ Entered(f)
       \/ /\ ~(joined[f] = "ok" /\ pc[f] = "eJoin" /\ life # "failed")
          /\ Goto(f, IF joined[f] = "ok" /\ pc[f] = "eOwn" THEN "ok" ELSE "err")
          /\ joined' = [joined EXCEPT ![f] = "none"]
          /\ UNCHANGED <<on, newAttempt>>
    /\ UNCHANGED notNewAttempt

\* Mutant: the attempt is cancelled and not awaited.
JoinNothing(f) ==
    /\ joined' = [joined EXCEPT ![f] = "none"]
    /\ cancelled' = Restarting

\* kill() and shutdown() up to their first await.
JoinStartup(f) ==
    /\ joined' = [joined EXCEPT ![f] = IF Restarting THEN "pending" ELSE "none"]
    /\ cancelled' = Restarting

KillCall(f) ==
    /\ pc[f] = "idle"
    /\ JoinStartup(f)
    /\ EnterStop(f)
    /\ Goto(f, "k1")
    /\ UNCHANGED <<proc, st, guarded, resv, startup, phase, verdict, shuttingDown, crashes,
                   faults>>

ShutdownCall(f) ==
    /\ pc[f] = "idle" /\ ~shuttingDown
    /\ shuttingDown' = TRUE
    /\ JoinStartup(f)
    /\ life' = "stopping"
    /\ LET began == stopping = 0 /\ proc # 0 /\ ~Exited(proc)
       IN /\ on' = [on EXCEPT ![f] = IF stopping # 0 \/ began THEN Stop
                                     ELSE IF proc # 0 THEN proc ELSE Nothing]
          /\ stopping' = IF began THEN proc ELSE stopping
          /\ expected' = IF stopping = 0 /\ proc # 0 /\ st[proc] # "gone"
                         THEN expected \union {proc} ELSE expected
    /\ Goto(f, "s1")
    /\ UNCHANGED <<proc, st, guarded, resv, startup, phase, verdict, crashes, faults>>

callOnly == <<life, proc, st, guarded, expected, resv, startup, phase, cancelled, verdict,
              stopping, shuttingDown, crashes>>

\* The first stopCurrentProcess is over.
FirstStopOver(f) ==
    /\ pc[f] \in {"k1", "s1"}
    /\ \/ Returned(f) /\ Goto(f, IF pc[f] = "k1" THEN "kJoin" ELSE "sJoin")
       \/ Threw(f) /\ Goto(f, "err")
    /\ on' = [on EXCEPT ![f] = Nothing]
    /\ UNCHANGED <<callOnly, joined, faults>>

\* The attempt both of them cancelled has settled: stop once more. kill passes
\* on any failure of the attempt but its cancellation; shutdown passes on none.
Joined(f) ==
    /\ pc[f] \in {"kJoin", "sJoin"} /\ joined[f] # "pending"
    /\ joined' = [joined EXCEPT ![f] = "none"]
    /\ IF pc[f] = "kJoin" /\ joined[f] \in {"refused", "failed", "limit"}
       THEN Goto(f, "err") /\ UNCHANGED <<on, life, stopping, expected>>
       ELSE Goto(f, IF pc[f] = "kJoin" THEN "k2" ELSE "s2") /\ EnterStop(f)
    /\ UNCHANGED <<proc, st, guarded, resv, startup, phase, cancelled, verdict, shuttingDown,
                   crashes, faults>>

SecondStopOver(f) ==
    /\ pc[f] \in {"k2", "s2"}
    /\ \/ /\ Returned(f)
          /\ Goto(f, "ok")
          /\ life' = IF pc[f] = "k2" /\ ~shuttingDown THEN "idle" ELSE life
       \/ Threw(f) /\ Goto(f, "err") /\ UNCHANGED life
    /\ on' = [on EXCEPT ![f] = Nothing]
    /\ UNCHANGED <<proc, st, guarded, expected, resv, startup, phase, cancelled, verdict,
                   stopping, shuttingDown, crashes, joined, faults>>

\* The caller has the result of its call.
Collect(f) ==
    /\ pc[f] \in {"ok", "err"}
    /\ Goto(f, "idle")
    /\ UNCHANGED <<callOnly, joined, on, faults>>

Call(f) ==
    \/ EnsureStopped(f) \/ EnsureJoined(f)
    \/ FirstStopOver(f) \/ Joined(f) \/ SecondStopOver(f)

\* Continuations of promises that have settled. They all run before the next
\* event: a timer, an answer, an exit or a request.
ServiceTask ==
    \/ StopDone \/ Unwound
    \/ \E f \in Waiters : CleanupAwaited(f)
    \/ \E f \in Callers : Call(f)

ServiceEvent ==
    \/ Prepare \/ Reserve \/ Spawn \/ Adopt \/ Healthy \/ Unhealthy \/ StopFails
    \/ \E p \in Procs : ProcessExit(p) \/ Cleanup(p)

\* No ServiceTask is left.
ServiceDrained ==
    /\ stopping # 0 => st[stopping] # "gone"
    /\ phase = "unwind" => ~Returned("attempt") /\ ~Threw("attempt")
    /\ \A f \in Waiters : on[f] \in Procs => st[on[f]] # "gone"
    /\ \A f \in Callers :
         /\ pc[f] \in {"eStop", "k1", "s1", "k2", "s2"} => ~Returned(f) /\ ~Threw(f)
         /\ pc[f] \in {"eJoin", "eOwn", "kJoin", "sJoin"} => joined[f] = "pending"
=============================================================================
