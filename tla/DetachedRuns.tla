---------------------------- MODULE DetachedRuns ----------------------------
(***************************************************************************)
(* The detached runs of the Go gateway (src/go/internal/gateway/runs.go):  *)
(* a request that goes on without its page, the memory all runs hold, and  *)
(* the checkpoints a restarted gateway reports from.                       *)
(*                                                                         *)
(* An action is one critical section of r.mu or m.mu, one atomic addition  *)
(* to m.held, or one change of a checkpoint file between two of them. Per  *)
(* run there are the handler that creates it, its own goroutine (the inner *)
(* /v1 request, then finish) and the handler of a DELETE. A crash may come *)
(* between any two actions.                                                *)
(*                                                                         *)
(* Abstracted: one owner, and one DELETE per run and gateway; a body, a    *)
(* chunk, an error and a checkpoint count one unit; an addition to m.held  *)
(* that is taken back at once is no addition; a checkpoint that can be     *)
(* written is; trim and sweepExpired drop a finished run in one step;      *)
(* "failed" is cancelled as well, which differs in wording only. Event     *)
(* streams only read.                                                      *)
(***************************************************************************)
EXTENDS Integers, FiniteSets

CONSTANTS MaxRuns,      \* bound on runs created
          Target,       \* "chat" or "media", of each run
          MaxActive,    \* runActivePerOwner
          MaxRetained,  \* runRetainedPerOwner
          MaxHeld,      \* maxHeld, of one chat run
          MaxResult,    \* maxResult, of one media run
          MaxTotal,     \* maxHeldTotal
          MaxRestarts   \* bound on gateways that end

ASSUME RunsAssumption ==
    /\ {MaxRuns, MaxActive, MaxRetained, MaxHeld, MaxResult, MaxTotal} \subseteq Nat \ {0}
    /\ MaxActive <= MaxRetained
    /\ MaxRestarts \in Nat
    /\ Target \in [1..MaxRuns -> {"chat", "media"}]

Runs == 1..MaxRuns

VARIABLES begun,     \* runs whose creation has begun, in the order of CreatedAt
          runs,      \* m.runs
          run,       \* each run's fields
          held,      \* m.held
          file,      \* the status in each checkpoint file, or "none"
          maker,     \* where create is
          at,        \* where the run's goroutine is: "over" is after wg.Done
          deleter,   \* where the DELETE handler is
          gateway,   \* "up", "closing" (Shutdown has begun), "stopped" or "left"
          toStop,    \* the runs Shutdown has listed and not yet stopped
          restarts,
          deleted,   \* history: runs a DELETE has answered for
          outlived   \* history: runs that were still going when a gateway ended, or
                     \* were checkpointed by create after they were dropped

memory == <<runs, run, held, toStop>>
actors == <<maker, at, deleter>>
ghosts == <<restarts, deleted, outlived>>
vars == <<begun, memory, file, actors, gateway, ghosts>>

Ended == {"completed", "failed", "interrupted"}

\* answer is what WriteHeader has seen: an event stream (of a chat run), with
\* or without an error in it, the body of a media result, or anything else. buf
\* is rw.body.Len(). What finish alone reads is forgotten when the run ends.
Record == [status : Ended \union {"queued", "in_progress"}, stop : Ended \union {"none"},
           queuedSeen : BOOLEAN, dismissed : BOOLEAN, held : Int, body : 0..1,
           answer : {"none", "stream", "stream_error", "result", "error"}, buf : 0..MaxResult]

NewRun ==
    [status |-> "queued", stop |-> "none", queuedSeen |-> FALSE, dismissed |-> FALSE,
     held |-> 0, body |-> 0, answer |-> "none", buf |-> 0]

\* Every variable keeps its type, and no body outgrows the limit of a result.
\* (What held is, HeldIsCounted says.)
TypeOK ==
    /\ begun \in 0..MaxRuns /\ restarts \in 0..MaxRestarts
    /\ runs \subseteq 1..begun /\ toStop \subseteq 1..begun
    /\ deleted \subseteq 1..begun /\ outlived \subseteq 1..begun
    /\ run \in [Runs -> Record]
    /\ file \in [Runs -> Ended \union {"none", "queued", "in_progress"}]
    /\ maker \in [Runs -> {"none", "sized", "refused", "full", "ready", "forget", "over"}]
    /\ at \in [Runs -> {"none", "inner", "write", "finish", "release", "remove", "over"}]
    /\ deleter \in [Runs -> {"none", "wait", "mark", "release", "remove", "over"}]
    /\ gateway \in {"up", "closing", "stopped", "left"}

Init ==
    /\ begun = 0 /\ runs = {} /\ held = 0
    /\ run = [r \in Runs |-> NewRun]
    /\ file = [r \in Runs |-> "none"]
    /\ maker = [r \in Runs |-> "none"]
    /\ at = [r \in Runs |-> "none"]
    /\ deleter = [r \in Runs |-> "none"]
    /\ gateway = "up" /\ toStop = {}
    /\ restarts = 0 /\ deleted = {} /\ outlived = {}

Terminal(r) == run[r].status \in Ended
Alive(r) == at[r] \notin {"none", "over"}

-----------------------------------------------------------------------------
(* Steps several actors take *)

\* release: what the runs D hold is given back.
Released(f, D) == [r \in Runs |-> IF r \in D THEN [f[r] EXCEPT !.held = 0, !.body = 0] ELSE f[r]]
Holds(f) == [r \in Runs |-> f[r].held + f[r].body]

\* The units of the runs D, of which each holds n[r]; their number less that of
\* the units owed (by a run that gave its body back twice) is the sum.
Units(n, D) == UNION {{r} \X (1..n[r]) : r \in D}
Total(n, D) == Cardinality(Units(n, D)) - Cardinality(Units([r \in Runs |-> -n[r]], D))
HeldBy(D) == Total(Holds(run), D)

\* Mutant: what is given back is not forgotten.
ReleaseOnlyCount(r) == UNCHANGED run /\ held' = held - Holds(run)[r]

Release(r) == run' = Released(run, {r}) /\ held' = held - Holds(run)[r]

\* checkpoint and remove.
Checkpoint(r, status) == file' = [file EXCEPT ![r] = status]
Remove(r) == file' = [file EXCEPT ![r] = "none"]

\* stop: the first one wins, and a run that ended or was restored has nothing
\* to cancel.
Stopped(r, how) ==
    IF Terminal(r) \/ run[r].stop # "none" THEN run ELSE [run EXCEPT ![r].stop = how]

-----------------------------------------------------------------------------
(* create *)

\* overActive
OverActive == Cardinality({r \in runs : ~Terminal(r)}) >= MaxActive

\* Up to m.mu.Lock(): the body is read, and counted if it fits.
Begin ==
    LET r == begun + 1 IN
    /\ r \in Runs /\ gateway \in {"up", "closing"} /\ ~OverActive
    /\ begun' = r
    /\ IF held + 1 > MaxTotal
       THEN maker' = [maker EXCEPT ![r] = "refused"] /\ UNCHANGED held
       ELSE maker' = [maker EXCEPT ![r] = "sized"] /\ held' = held + 1
    /\ UNCHANGED <<runs, run, file, at, deleter, gateway, toStop, ghosts>>

\* trim: the oldest finished runs over the retained limit, of the runs kept
\* in R with the fields f.
Trimmed(R, f) ==
    LET finished == {r \in R : f[r].status \in Ended}
    IN  {r \in finished :
           Cardinality({s \in finished : s < r}) < Cardinality(R) - MaxRetained}

\* The run becomes visible, and what trim drops goes.
Published(r, f) ==
    LET D == Trimmed(runs \union {r}, f) IN
    /\ runs' = (runs \union {r}) \ D
    /\ run' = Released(f, D)
    /\ held' = held - HeldBy(D)
    /\ file' = [s \in Runs |-> IF s \in D THEN "none" ELSE file[s]]

Refuse(r) ==
    /\ maker' = [maker EXCEPT ![r] = "over"]
    /\ held' = IF maker[r] = "sized" THEN held - 1 ELSE held
    /\ UNCHANGED <<runs, run, file, at>>

\* A run that did not fit has already ended when it becomes visible.
PublishFull(r) ==
    /\ Published(r, [run EXCEPT ![r].status = "failed"])
    /\ maker' = [maker EXCEPT ![r] = "full"]
    /\ UNCHANGED at

\* wg.Add(1) comes before the run can be seen.
PublishRun(r) ==
    /\ Published(r, [run EXCEPT ![r].body = 1])
    /\ maker' = [maker EXCEPT ![r] = "ready"]
    /\ at' = [at EXCEPT ![r] = "inner"]

\* Mutant: closing is only checked before the body is read.
PublishWhileClosing(r) ==
    /\ maker[r] \in {"sized", "refused"}
    /\ \/ OverActive /\ Refuse(r)
       \/ ~OverActive /\ maker[r] = "refused" /\ PublishFull(r)
       \/ ~OverActive /\ maker[r] = "sized" /\ PublishRun(r)
    /\ UNCHANGED <<begun, deleter, gateway, toStop, ghosts>>

Publish(r) ==
    /\ maker[r] \in {"sized", "refused"}
    /\ \/ (gateway # "up" \/ OverActive) /\ Refuse(r)
       \/ gateway = "up" /\ ~OverActive /\ maker[r] = "refused" /\ PublishFull(r)
       \/ gateway = "up" /\ ~OverActive /\ maker[r] = "sized" /\ PublishRun(r)
    /\ UNCHANGED <<begun, deleter, gateway, toStop, ghosts>>

\* The run that did not fit is checkpointed after m.mu is released.
CheckpointFull(r) ==
    /\ maker[r] = "full"
    /\ maker' = [maker EXCEPT ![r] = "over"]
    /\ Checkpoint(r, run[r].status)
    /\ outlived' = IF r \in runs THEN outlived ELSE outlived \union {r}
    /\ UNCHANGED <<begun, memory, at, deleter, gateway, restarts, deleted>>

\* <-ready: a run refused before the queue is forgotten, any other is answered
\* for. (It has no checkpoint: remove finds nothing.)
ForgetDrop(r) ==
    /\ maker[r] = "ready" /\ at[r] = "over" /\ ~run[r].queuedSeen
    /\ runs' = runs \ {r}
    /\ maker' = [maker EXCEPT ![r] = "forget"]
    /\ UNCHANGED <<begun, run, held, file, at, deleter, gateway, toStop, ghosts>>

ForgetRelease(r) ==
    /\ maker[r] = "forget"
    /\ Release(r)
    /\ Remove(r)
    /\ maker' = [maker EXCEPT ![r] = "over"]
    /\ UNCHANGED <<begun, runs, at, deleter, gateway, toStop, ghosts>>

-----------------------------------------------------------------------------
(* The inner request, through its hooks and its writer *)

\* What leaves everything but the run's fields, its place and held alone.
Inner(r) ==
    /\ at[r] = "inner"
    /\ UNCHANGED <<begun, runs, maker, deleter, gateway, toStop, ghosts>>

\* The Queued and Admitted hooks, each called at most once.
Queued(r) ==
    /\ Inner(r) /\ ~run[r].queuedSeen /\ run[r].answer = "none"
    /\ run' = [run EXCEPT ![r].queuedSeen = TRUE, ![r].status = "queued"]
    /\ Checkpoint(r, "queued")
    /\ UNCHANGED <<held, at>>

Admitted(r) ==
    /\ Inner(r) /\ run[r].queuedSeen /\ run[r].status = "queued" /\ run[r].answer = "none"
    /\ run' = [run EXCEPT ![r].status = "in_progress"]
    /\ Checkpoint(r, "in_progress")
    /\ UNCHANGED <<held, at>>

\* WriteHeader: only a request that was admitted gets a 2xx answer.
WriteHeader(r) ==
    /\ Inner(r) /\ run[r].answer = "none"
    /\ \E answer \in {"error"} \union
                   IF run[r].status # "in_progress" THEN {}
                   ELSE IF Target[r] = "chat" THEN {"stream"} ELSE {"result"} :
         run' = [run EXCEPT ![r].answer = answer]
    /\ UNCHANGED <<held, file, at>>

\* Write of a body: counted first, taken under r.mu in WriteTake; or a limit
\* stops the run.
WriteUnlimited(r) ==
    /\ Inner(r) /\ run[r].answer \in {"result", "error"}
    /\ IF held + 1 > MaxTotal
       THEN run' = Stopped(r, "failed") /\ UNCHANGED <<held, at>>
       ELSE held' = held + 1 /\ at' = [at EXCEPT ![r] = "write"] /\ UNCHANGED run
    /\ UNCHANGED file

Write(r) ==
    /\ Inner(r) /\ run[r].answer \in {"result", "error"}
    /\ IF run[r].buf + 1 > MaxResult \/ held + 1 > MaxTotal
       THEN run' = Stopped(r, "failed") /\ UNCHANGED <<held, at>>
       ELSE held' = held + 1 /\ at' = [at EXCEPT ![r] = "write"] /\ UNCHANGED run
    /\ UNCHANGED file

WriteTake(r) ==
    /\ at[r] = "write"
    /\ run' = [run EXCEPT ![r].held = @ + 1, ![r].buf = @ + 1]
    /\ at' = [at EXCEPT ![r] = "inner"]
    /\ UNCHANGED <<begun, runs, held, file, maker, deleter, gateway, toStop, ghosts>>

\* event: a chunk, with a checkpoint when the last is a second old.
Chunk(r) ==
    /\ Inner(r) /\ run[r].answer \in {"stream", "stream_error"}
    /\ IF run[r].held + 1 > MaxHeld \/ held + 1 > MaxTotal
       THEN run' = Stopped(r, "failed") /\ UNCHANGED <<held, file>>
       ELSE /\ run' = [run EXCEPT ![r].held = @ + 1]
            /\ held' = held + 1
            /\ Checkpoint(r, run[r].status) \/ UNCHANGED file
    /\ UNCHANGED at

\* event: an error, which no limit holds back. At most one per stream.
ErrorEvent(r) ==
    /\ Inner(r) /\ run[r].answer = "stream"
    /\ run' = [run EXCEPT ![r].answer = "stream_error", ![r].held = @ + 1]
    /\ held' = held + 1
    /\ UNCHANGED <<file, at>>

-----------------------------------------------------------------------------
(* finish *)

\* The inner request has returned and its body is given back.
FinishBody(r) ==
    /\ Inner(r)
    /\ run' = [run EXCEPT ![r].body = 0]
    /\ held' = held - run[r].body
    /\ at' = [at EXCEPT ![r] = "finish"]
    /\ UNCHANGED file

\* A stop decides; else a memory emergency the Finished hook may have named;
\* else the answer.
Outcomes(r) ==
    IF run[r].stop # "none" THEN {run[r].stop}
    ELSE {IF run[r].answer \in {"stream", "result"} THEN "completed" ELSE "failed"} \union
         (IF run[r].status = "in_progress" THEN {"interrupted"} ELSE {})

\* A media result is kept, any other body is given back.
Unused(r, outcome) == IF Target[r] = "media" /\ outcome = "completed" THEN 0 ELSE run[r].buf

Closed(r, outcome) ==
    [NewRun EXCEPT !.status = outcome, !.queuedSeen = TRUE, !.held = run[r].held - Unused(r, outcome)]

\* Mutant: the checkpoint is written before the status is set.
SettleCheckpointFirst(r) ==
    /\ at[r] = "finish" /\ run[r].queuedSeen
    /\ \E outcome \in Outcomes(r) :
         /\ run' = [run EXCEPT ![r] = Closed(r, outcome)]
         /\ held' = held - Unused(r, outcome)
         /\ Checkpoint(r, run[r].status)
    /\ at' = [at EXCEPT ![r] = IF run[r].dismissed THEN "release" ELSE "over"]
    /\ UNCHANGED <<begun, runs, maker, deleter, gateway, toStop, ghosts>>

\* Mutant: a run that was dismissed needs nothing more.
SettleOnce(r) ==
    /\ at[r] = "finish" /\ run[r].queuedSeen
    /\ \E outcome \in Outcomes(r) :
         /\ run' = [run EXCEPT ![r] = Closed(r, outcome)]
         /\ held' = held - Unused(r, outcome)
         /\ Checkpoint(r, outcome)
    /\ at' = [at EXCEPT ![r] = "over"]
    /\ UNCHANGED <<begun, runs, maker, deleter, gateway, toStop, ghosts>>

Settle(r) ==
    /\ at[r] = "finish" /\ run[r].queuedSeen
    /\ \E outcome \in Outcomes(r) :
         /\ run' = [run EXCEPT ![r] = Closed(r, outcome)]
         /\ held' = held - Unused(r, outcome)
         /\ Checkpoint(r, outcome)
    /\ at' = [at EXCEPT ![r] = IF run[r].dismissed THEN "release" ELSE "over"]
    /\ UNCHANGED <<begun, runs, maker, deleter, gateway, toStop, ghosts>>

\* Refused before the queue: create forgets it.
SettleRefused(r) ==
    /\ at[r] = "finish" /\ ~run[r].queuedSeen
    /\ at' = [at EXCEPT ![r] = "over"]
    /\ UNCHANGED <<begun, memory, file, maker, deleter, gateway, ghosts>>

FinishRelease(r) ==
    /\ at[r] = "release"
    /\ Release(r)
    /\ at' = [at EXCEPT ![r] = "remove"]
    /\ UNCHANGED <<begun, runs, file, maker, deleter, gateway, toStop, ghosts>>

FinishRemove(r) ==
    /\ at[r] = "remove"
    /\ Remove(r)
    /\ at' = [at EXCEPT ![r] = "over"]
    /\ UNCHANGED <<begun, memory, maker, deleter, gateway, ghosts>>

-----------------------------------------------------------------------------
(* The other routes, the timer and the janitor *)

\* POST cancel by the page ("cancelled"), or maxDuration.
Stop(r) ==
    /\ r \in runs
    /\ \E how \in {"failed", "interrupted"} : run' = Stopped(r, how)
    /\ UNCHANGED <<begun, runs, held, file, actors, gateway, toStop, ghosts>>

\* DELETE stops the run and waits for done, but no longer than stopWait.
Delete(r) ==
    /\ r \in runs /\ deleter[r] = "none"
    /\ run' = Stopped(r, "failed")
    /\ deleter' = [deleter EXCEPT ![r] = "wait"]
    /\ UNCHANGED <<begun, runs, held, file, maker, at, gateway, toStop, ghosts>>

DismissDrop(r) ==
    /\ deleter[r] = "wait"
    /\ runs' = runs \ {r}
    /\ deleter' = [deleter EXCEPT ![r] = "mark"]
    /\ UNCHANGED <<begun, run, held, file, maker, at, gateway, toStop, ghosts>>

DismissMark(r) ==
    /\ deleter[r] = "mark"
    /\ run' = [run EXCEPT ![r].dismissed = TRUE]
    /\ deleter' = [deleter EXCEPT ![r] = "release"]
    /\ UNCHANGED <<begun, runs, held, file, maker, at, gateway, toStop, ghosts>>

DismissRelease(r) ==
    /\ deleter[r] = "release"
    /\ Release(r)
    /\ deleter' = [deleter EXCEPT ![r] = "remove"]
    /\ UNCHANGED <<begun, runs, file, maker, at, gateway, toStop, ghosts>>

DismissRemove(r) ==
    /\ deleter[r] = "remove"
    /\ Remove(r)
    /\ deleter' = [deleter EXCEPT ![r] = "over"]
    /\ deleted' = deleted \union {r}
    /\ UNCHANGED <<begun, memory, maker, at, gateway, restarts, outlived>>

\* sweepExpired, once ExpiresAt has passed.
Expire(r) ==
    /\ r \in runs /\ Terminal(r)
    /\ runs' = runs \ {r}
    /\ Release(r)
    /\ Remove(r)
    /\ UNCHANGED <<begun, actors, gateway, toStop, ghosts>>

-----------------------------------------------------------------------------
(* Shutdown, crash and restart *)

ShutdownBegin ==
    /\ gateway = "up"
    /\ gateway' = "closing"
    /\ toStop' = runs
    /\ UNCHANGED <<begun, runs, run, held, file, actors, ghosts>>

ShutdownStops(r) ==
    /\ r \in toStop
    /\ run' = Stopped(r, "interrupted")
    /\ toStop' = toStop \ {r}
    /\ UNCHANGED <<begun, runs, held, file, actors, gateway, ghosts>>

\* wg.Wait has returned, or the time is up.
ShutdownReturns ==
    /\ gateway = "closing" /\ toStop = {}
    /\ gateway' = IF \E r \in Runs : Alive(r) THEN "left" ELSE "stopped"
    /\ UNCHANGED <<begun, memory, file, actors, ghosts>>

\* sweepStart: what a checkpoint's status becomes. A media result lived in
\* memory only.
Restored(r) ==
    IF file[r] \in Ended /\ ~(Target[r] = "media" /\ file[r] = "completed")
    THEN file[r] ELSE "interrupted"

\* The gateway exits or crashes, and the next one reads the checkpoints: the
\* expired ones go, the others are runs again.
Restart ==
    /\ restarts < MaxRestarts
    /\ restarts' = restarts + 1
    /\ \E expired \in SUBSET {r \in Runs : file[r] \in Ended} :
         LET back == {r \in Runs : file[r] # "none"} \ expired IN
         /\ runs' = back
         /\ run' = [r \in Runs |->
                      IF r \in back THEN [NewRun EXCEPT !.status = Restored(r), !.held = 1]
                                    ELSE NewRun]
         /\ held' = Cardinality(back)
         /\ file' = [r \in Runs |-> IF r \in back THEN Restored(r) ELSE "none"]
    /\ maker' = [r \in Runs |-> IF r <= begun THEN "over" ELSE "none"]
    /\ at' = [r \in Runs |-> IF r <= begun THEN "over" ELSE "none"]
    /\ deleter' = [r \in Runs |-> "none"]
    /\ gateway' = "up" /\ toStop' = {}
    /\ outlived' = outlived \union {r \in Runs : Alive(r)}
    /\ UNCHANGED <<begun, deleted>>

-----------------------------------------------------------------------------
Create(r) ==
    \/ Publish(r) \/ CheckpointFull(r) \/ ForgetDrop(r) \/ ForgetRelease(r)

Goroutine(r) ==
    \/ Queued(r) \/ Admitted(r) \/ WriteHeader(r)
    \/ Write(r) \/ WriteTake(r) \/ Chunk(r) \/ ErrorEvent(r)
    \/ FinishBody(r) \/ Settle(r) \/ SettleRefused(r) \/ FinishRelease(r) \/ FinishRemove(r)

Dismiss(r) ==
    \/ Delete(r) \/ DismissDrop(r) \/ DismissMark(r) \/ DismissRelease(r) \/ DismissRemove(r)

Next ==
    \/ Begin
    \/ \E r \in Runs : Create(r) \/ Goroutine(r) \/ Stop(r) \/ Dismiss(r) \/ Expire(r)
    \/ ShutdownBegin \/ ShutdownReturns \/ Restart
    \/ \E r \in Runs : ShutdownStops(r)

Spec == Init /\ [][Next]_vars

-----------------------------------------------------------------------------
(* Properties *)

\* Nobody still has a step to take on the run.
Settled(r) ==
    /\ ~Alive(r) /\ (maker[r] \in {"none", "over"} \/ run[r].queuedSeen)
    /\ deleter[r] \in {"none", "wait", "over"}

\* A run that was dropped holds nothing once nobody works on it.
DroppedHoldsNothing ==
    \A r \in Runs \ runs : Settled(r) => run[r].held = 0 /\ run[r].body = 0

\* m.held is what the runs hold, with what is counted and not yet taken; and a
\* run that was dropped holds nothing once nobody works on it, in whatever
\* order its writes, its end and its dismissal came (charge, release, dismiss,
\* finish).
HeldIsCounted ==
    /\ held = HeldBy(Runs) + Cardinality({r \in Runs : at[r] = "write"})
                           + Cardinality({r \in Runs : maker[r] = "sized"})
    /\ DroppedHoldsNothing

\* The outcome a run has ended with stays, also over a crash at any moment: the
\* next gateway reports it from the checkpoint, or no longer has the run. Only
\* a media result, which is not kept on disk, becomes interrupted.
OutcomeSurvives ==
    [][\A r \in runs \intersect runs' :
         Terminal(r) /\ run'[r].status # run[r].status =>
            /\ restarts' > restarts
            /\ Target[r] = "media" /\ run[r].status = "completed"
            /\ run'[r].status = "interrupted"]_vars

\* DELETE deletes the run and its checkpoint for good: no gateway has it again,
\* and once its goroutine has ended no file is left that one would list. Two gaps remain: a
\* gateway that ends before the run does, and the checkpoint create writes
\* after a run that did not fit could already be seen and deleted.
DeletedStaysGone ==
    \A r \in deleted \ outlived :
        r \notin runs /\ (~Alive(r) => file[r] = "none")

\* A Shutdown whose wait succeeded leaves no run going, and every run it leaves
\* has ended with that in its checkpoint: create either is refused or is seen
\* by Shutdown and waited for.
ShutdownWaits ==
    gateway = "stopped" =>
        \A r \in Runs : /\ ~Alive(r)
                        /\ r \in runs /\ run[r].queuedSeen => file[r] = run[r].status
=============================================================================
