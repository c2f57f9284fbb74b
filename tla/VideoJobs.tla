----------------------------- MODULE VideoJobs -----------------------------
(***************************************************************************)
(* VideoJobManager (src/src/domains/runtime/video/video-job-manager.ts)    *)
(* over the supervised video backend of ManagedService, with the gateway's *)
(* shutdown (commands/serve.ts) and the guardians that outlive it.         *)
(*                                                                         *)
(* A job is two fibers over one record: run (admission, ready, submit,    *)
(* poll, persist) and its termination, begun by a cancel, the deadline,   *)
(* memory pressure, a failure of run itself or the shutdown. The promise   *)
(* of the artifact (completion) is awaited by both.                        *)
(*                                                                         *)
(* Abstracted: job content and owners; the admission, which the reconciler *)
(* grants or refuses at any time, with the second admission a refused      *)
(* start is given; the backend, which may answer anything while a process  *)
(* runs.                                                                   *)
(***************************************************************************)
EXTENDS ManagedService, Sequences, SequencesExt

CONSTANTS MaxJobs,      \* bound on jobs created
          Sizes,        \* byte lengths of media and artifacts
          MaxArtifact,  \* maxArtifactBytes
          MaxTotal,     \* maxArtifactBytesTotal
          MaxTerminal    \* maxTerminalJobs

ASSUME VideoAssumption ==
    /\ MaxJobs \in Nat \ {0}
    /\ Sizes \subseteq Nat \ {0}
    /\ {MaxArtifact, MaxTotal, MaxTerminal} \subseteq Nat \ {0}

Jobs == 1..MaxJobs
NoJob == 0

VARIABLES created,   \* jobs created so far
          active,    \* this.active
          jst,       \* job.state
          done,      \* terminalJobs(): the retained terminal jobs, oldest first
          ended,     \* jobs whose terminalAtMs is set
          aborted,   \* job.controller.signal.aborted
          deadline,  \* watchDeadline: off, armed, spent
          adm,       \* the admission: none, pending, granted, refused, released
          held,      \* job.admission is set
          run,       \* where run(job) is
          comp,      \* the artifact promise
          tpc,       \* job.termination: none, settle, stop, finish, over
          disp,      \* its disposition
          waits,     \* the termination captured job.completion
          pending,   \* pendingArtifactBytes
          file,      \* bytes of the artifact file on disk
          stopping_, \* the manager's stopping
          sd,        \* the gateway: up, video, service, exit, gone
          stopFailed  \* jobs a stop of which has failed

jobVars == <<created, active, jst, done, ended, aborted, deadline, adm, held, run, comp,
             tpc, disp, waits, pending, file, stopping_, sd, stopFailed>>
vars == <<serviceVars, jobVars>>
faultless == <<callOnly, pc, joined, on>>

JobStates == {"none", "queued", "in_progress", "completed", "failed", "cancelled"}
Settled == {"ok", "failed", "aborted"}
Up == sd # "gone"

\* Every variable has its type; the active job has not ended, and the retained jobs all
\* have, each listed once (finish, prune).
TypeOK ==
    /\ ServiceTypeOK
    /\ created \in 0..MaxJobs
    /\ active \in (Jobs \ ended) \union {NoJob}
    /\ jst \in [Jobs -> JobStates]
    /\ done \in Seq(Jobs) /\ IsInjective(done)
    /\ ended \subseteq Jobs /\ ToSet(done) \subseteq ended
    /\ aborted \subseteq Jobs /\ held \subseteq Jobs /\ waits \subseteq Jobs
    /\ deadline \in [Jobs -> {"off", "armed", "spent"}]
    /\ adm \in [Jobs -> {"none", "pending", "granted", "refused", "released"}]
    /\ run \in [Jobs -> {"none", "admit", "ready", "submit", "poll", "persist", "end"}]
    /\ comp \in [Jobs -> {"none", "prepare", "write"} \union Settled]
    /\ tpc \in [Jobs -> {"none", "settle", "stop", "finish", "over"}]
    /\ disp \in [Jobs -> {"none", "cancelled", "failed"}]
    /\ pending \in [Jobs -> Sizes \union {0}]
    /\ file \in [Jobs -> Sizes \union {0}]
    /\ stopping_ \in BOOLEAN
    /\ sd \in {"up", "video", "service", "exit", "gone"}
    /\ stopFailed \subseteq Jobs

Init ==
    /\ ServiceInit
    /\ created = 0 /\ active = NoJob
    /\ jst = [j \in Jobs |-> "none"]
    /\ done = <<>> /\ ended = {} /\ aborted = {} /\ held = {} /\ waits = {}
    /\ deadline = [j \in Jobs |-> "off"]
    /\ adm = [j \in Jobs |-> "none"]
    /\ run = [j \in Jobs |-> "none"]
    /\ comp = [j \in Jobs |-> "none"]
    /\ tpc = [j \in Jobs |-> "none"]
    /\ disp = [j \in Jobs |-> "none"]
    /\ pending = [j \in Jobs |-> 0]
    /\ file = [j \in Jobs |-> 0]
    /\ stopping_ = FALSE /\ sd = "up" /\ stopFailed = {}

-----------------------------------------------------------------------------
(* Retention: prune, makeRoomForArtifact, remove *)

\* The terminal jobs that are left when the k oldest of s are removed.
Newest(s, k) == SubSeq(s, k + 1, Len(s))

\* The bytes of the jobs in S, of which each has f[j]; their number is the sum.
Bytes(f, S) == UNION {{j} \X (1..f[j]) : j \in S}

\* artifactBytes: an artifact is as long as its pendingArtifactBytes.
ArtifactBytes(s) == Cardinality(Bytes(pending, ToSet(s)))

\* Only the jobs of s are retained; the directory of every other goes.
Retain(s, files) ==
    /\ done' = s
    /\ file' = [j \in Jobs |-> IF j \in ToSet(done) \ ToSet(s) THEN 0 ELSE files[j]]

\* prune: some of the oldest are past their time to live, or too many.
Prune(s, files) ==
    \E expired \in 0..Len(done) :
        Retain(Newest(s, IF Len(s) > MaxTerminal + expired
                         THEN Len(s) - MaxTerminal ELSE expired), files)

\* Mutant: only the number of jobs is limited.
FitsByCount(s, n) == Len(s) < MaxTerminal

Fits(s, n) == Len(s) < MaxTerminal /\ ArtifactBytes(s) + n <= MaxTotal

\* makeRoomForArtifact: after the prune, the oldest go one by one until n bytes fit.
MakeRoom(n) ==
    \E expired \in 0..Len(done) : \E k \in expired..Len(done) :
        /\ Fits(Newest(done, k), n)
        /\ \A i \in expired..k - 1 : ~Fits(Newest(done, i), n)
        /\ Retain(Newest(done, k), file)

-----------------------------------------------------------------------------
(* finish *)

\* Mutant: a job the backend ended stays the active one.
FinishStaysActive(j, state, files) ==
    /\ jst' = [jst EXCEPT ![j] = state]
    /\ ended' = ended \union {j}
    /\ deadline' = [deadline EXCEPT ![j] = "off"]
    /\ adm' = IF j \in held THEN [adm EXCEPT ![j] = "released"] ELSE adm
    /\ Prune(Append(done, j), files)
    /\ UNCHANGED active

\* finishCompleted, finishFailure, finishCancelled, then finish.
Finish(j, state, files) ==
    /\ jst' = [jst EXCEPT ![j] = state]
    /\ IF j \in ended
       THEN UNCHANGED <<ended, deadline, adm, active, done, file>>
       ELSE /\ ended' = ended \union {j}
            /\ deadline' = [deadline EXCEPT ![j] = "off"]
            /\ adm' = IF j \in held THEN [adm EXCEPT ![j] = "released"] ELSE adm
            /\ active' = IF active = j THEN NoJob ELSE active
            /\ Prune(Append(done, j), files)

Unfinished == UNCHANGED <<jst, ended, deadline, adm, active, done, file>>

\* contain: a termination under way is joined, else begun by aborting the job.
Contain(j, how) ==
    IF tpc[j] # "none"
    THEN UNCHANGED <<tpc, disp, aborted>>
    ELSE /\ tpc' = [tpc EXCEPT ![j] = "settle"]
         /\ disp' = [disp EXCEPT ![j] = how]
         /\ aborted' = aborted \union {j}

Untouched == UNCHANGED <<tpc, disp, aborted>>
RunAt(j, label) == run' = [run EXCEPT ![j] = label]

\* The catch of run.
RunFails(j) ==
    /\ RunAt(j, "end")
    /\ IF tpc[j] # "none" \/ j \in aborted THEN Untouched ELSE Contain(j, "failed")

-----------------------------------------------------------------------------
(* Requests *)

\* start(): the admission is requested, the deadline watched and run begun.
Start(j) ==
    /\ sd = "up" /\ ~stopping_ /\ active = NoJob
    /\ j = created + 1
    /\ Prune(done, file)
    /\ created' = j /\ active' = j
    /\ jst' = [jst EXCEPT ![j] = "queued"]
    /\ adm' = [adm EXCEPT ![j] = "pending"]
    /\ deadline' = [deadline EXCEPT ![j] = "armed"]
    /\ RunAt(j, "admit")
    /\ UNCHANGED <<serviceVars, ended, aborted, held, comp, tpc, disp, waits, pending,
                    stopping_, sd, stopFailed>>

\* get() and artifact().
Get ==
    /\ sd = "up" /\ done # <<>>
    /\ Prune(done, file)
    /\ UNCHANGED <<serviceVars, created, active, jst, ended, aborted, deadline, adm, held,
                   run, comp, tpc, disp, waits, pending, stopping_, sd,
                   stopFailed>>

Delete(j) ==
    /\ sd = "up" /\ Contains(done, j)
    /\ \E expired \in 0..Len(done) :
         Retain(RemoveFirst(Newest(done, expired), j), file)
    /\ UNCHANGED <<serviceVars, created, active, jst, ended, aborted, deadline, adm, held,
                   run, comp, tpc, disp, waits, pending, stopping_, sd,
                   stopFailed>>

\* cancel() by its owner, cancelActive() by a drain, and
\* failActiveForMemoryPressure().
Terminate(j, how) ==
    /\ sd = "up" /\ j \in 1..created \ ended
    /\ Contain(j, how)
    /\ Prune(done, file)
    /\ UNCHANGED <<serviceVars, created, active, jst, ended, deadline, adm, held, run, comp,
                   waits, pending, stopping_, sd, stopFailed>>

\* Mutant: a job the backend has not begun has no deadline.
DeadlineOfStarted(j) ==
    /\ Up /\ deadline[j] = "armed"
    /\ deadline' = [deadline EXCEPT ![j] = "spent"]
    /\ IF jst[j] = "queued" THEN Untouched ELSE Contain(j, "cancelled")
    /\ UNCHANGED <<serviceVars, created, active, jst, done, ended, adm, held, run, comp,
                   waits, pending, file, stopping_, sd, stopFailed>>

\* watchDeadline: it fires once, and does nothing while a termination runs.
Deadline(j) ==
    /\ Up /\ deadline[j] = "armed"
    /\ deadline' = [deadline EXCEPT ![j] = "spent"]
    /\ Contain(j, "cancelled")
    /\ UNCHANGED <<serviceVars, created, active, jst, done, ended, adm, held, run, comp,
                   waits, pending, file, stopping_, sd, stopFailed>>

-----------------------------------------------------------------------------
(* The admission, by the reconciler *)

Grant(j) ==
    /\ Up /\ adm[j] = "pending"
    /\ adm' = [adm EXCEPT ![j] = "granted"]
    /\ EnsureCall("ready")
    /\ UNCHANGED <<created, active, jst, done, ended, aborted, deadline, held, run, comp,
                   tpc, disp, waits, pending, file, stopping_, sd, stopFailed>>

Refuse(j) ==
    /\ Up /\ adm[j] = "pending"
    /\ adm' = [adm EXCEPT ![j] = "refused"]
    /\ UNCHANGED <<serviceVars, created, active, jst, done, ended, aborted, deadline, held,
                   run, comp, tpc, disp, waits, pending, file, stopping_, sd,
                   stopFailed>>

-----------------------------------------------------------------------------
(* run *)

RunAdmit(j) ==
    /\ Up /\ run[j] = "admit" /\ adm[j] # "pending"
    /\ IF tpc[j] # "none" \/ j \in ended
       THEN RunAt(j, "end") /\ Untouched /\ UNCHANGED held
       ELSE IF adm[j] = "refused"
       THEN RunFails(j) /\ UNCHANGED held
       ELSE RunAt(j, "ready") /\ held' = held \union {j} /\ Untouched
    /\ UNCHANGED <<serviceVars, created, active, jst, done, ended, deadline, adm, comp,
                   waits, pending, file, stopping_, sd, stopFailed>>

RunReady(j) ==
    /\ Up /\ run[j] = "ready"
    /\ Collect("ready")
    /\ IF pc["ready"] = "err" THEN RunFails(j)
       ELSE /\ RunAt(j, IF tpc[j] # "none" \/ j \in ended THEN "end" ELSE "submit")
            /\ Untouched
    /\ UNCHANGED <<created, active, jst, done, ended, deadline, adm, held, comp, waits,
                   pending, file, stopping_, sd, stopFailed>>

\* A job that ended before it was ready leaves the promise to itself.
ReadyDropped ==
    /\ Up /\ \A j \in Jobs : run[j] \notin {"admit", "ready"}
    /\ Collect("ready")
    /\ UNCHANGED jobVars

\* The backend answers only while a process runs.
Answers == \E p \in Procs : st[p] = "live"

RunSubmit(j) ==
    /\ Up /\ run[j] = "submit"
    /\ \/ j \in aborted /\ RunAt(j, "end") /\ Untouched /\ UNCHANGED jst
       \/ j \notin aborted /\ RunFails(j) /\ UNCHANGED jst
       \/ /\ j \notin aborted /\ Answers
          /\ \E state \in {"queued", "in_progress"} : jst' = [jst EXCEPT ![j] = state]
          /\ RunAt(j, "poll") /\ Untouched
    /\ UNCHANGED <<serviceVars, created, active, done, ended, deadline, adm, held, comp,
                   waits, pending, file, stopping_, sd, stopFailed>>

\* Mutant: an update is applied although the job is being terminated.
RunPollUnchecked(j) ==
    /\ Up /\ run[j] = "poll"
    /\ \/ j \in aborted /\ RunAt(j, "end") /\ Untouched /\ Unfinished /\ UNCHANGED comp
       \/ j \notin aborted /\ RunFails(j) /\ Unfinished /\ UNCHANGED comp
       \/ /\ Answers /\ Untouched
          /\ \/ /\ \E state \in {"queued", "in_progress"} :
                     jst' = [jst EXCEPT ![j] = state]
                /\ UNCHANGED <<run, ended, deadline, adm, active, done, file, comp>>
             \/ /\ \E state \in {"failed", "cancelled"} : Finish(j, state, file)
                /\ RunAt(j, "end")
                /\ UNCHANGED comp
             \/ /\ jst' = [jst EXCEPT ![j] = "in_progress"]
                /\ \E n \in Sizes :
                     comp' = [comp EXCEPT ![j] = IF n > MaxArtifact THEN "failed"
                                                 ELSE "prepare"]
                /\ RunAt(j, "persist")
                /\ UNCHANGED <<ended, deadline, adm, active, done, file>>
    /\ UNCHANGED <<serviceVars, created, held, waits, pending, stopping_, sd,
                   stopFailed>>

\* poll and applyBackendUpdate: the job is under way, has ended at the backend,
\* its media is too large or is prepared, or the request failed.
RunPoll(j) ==
    /\ Up /\ run[j] = "poll"
    /\ \/ j \in aborted /\ RunAt(j, "end") /\ Untouched /\ Unfinished /\ UNCHANGED comp
       \/ j \notin aborted /\ RunFails(j) /\ Unfinished /\ UNCHANGED comp
       \/ /\ j \notin aborted /\ Answers /\ Untouched
          /\ \/ /\ \E state \in {"queued", "in_progress"} :
                     jst' = [jst EXCEPT ![j] = state]
                /\ UNCHANGED <<run, ended, deadline, adm, active, done, file, comp>>
             \/ /\ \E state \in {"failed", "cancelled"} : Finish(j, state, file)
                /\ RunAt(j, "end")
                /\ UNCHANGED comp
             \/ /\ jst' = [jst EXCEPT ![j] = "in_progress"]
                /\ \E n \in Sizes :
                     comp' = [comp EXCEPT ![j] = IF n > MaxArtifact THEN "failed"
                                                 ELSE "prepare"]
                /\ RunAt(j, "persist")
                /\ UNCHANGED <<ended, deadline, adm, active, done, file>>
    /\ UNCHANGED <<serviceVars, created, held, waits, pending, stopping_, sd,
                   stopFailed>>

\* persistArtifact after the conversion.
Prepared(j) ==
    /\ Up /\ comp[j] = "prepare"
    /\ \/ /\ j \in aborted
          /\ comp' = [comp EXCEPT ![j] = "aborted"]
          /\ UNCHANGED <<done, file, pending, faults>>
       \/ /\ Fault
          /\ comp' = [comp EXCEPT ![j] = "failed"]
          /\ UNCHANGED <<done, file, pending>>
       \/ /\ j \notin aborted
          /\ UNCHANGED faults
          /\ \E n \in Sizes :
               IF n > MaxArtifact \/ n > MaxTotal
               THEN /\ comp' = [comp EXCEPT ![j] = "failed"]
                    /\ UNCHANGED <<done, file, pending>>
               ELSE /\ MakeRoom(n)
                    /\ pending' = [pending EXCEPT ![j] = n]
                    /\ comp' = [comp EXCEPT ![j] = "write"]
    /\ UNCHANGED <<faultless, created, active, jst, ended, aborted, deadline, adm, held,
                   run, tpc, disp, waits, stopping_, sd, stopFailed>>

\* The write, whole or (failing) in part; the signal does not stop it.
Written(j) ==
    /\ Up /\ comp[j] = "write"
    /\ file' = [file EXCEPT ![j] = pending[j]]
    /\ \/ comp' = [comp EXCEPT ![j] = "ok"] /\ UNCHANGED faults
       \/ comp' = [comp EXCEPT ![j] = "failed"] /\ Fault
    /\ UNCHANGED <<faultless, created, active, jst, done, ended, aborted, deadline, adm,
                   held, run, tpc, disp, waits, pending, stopping_, sd, stopFailed>>

\* Mutant: a job that is being terminated completes.
RunPersistedAnyway(j) ==
    /\ Up /\ run[j] = "persist" /\ comp[j] \in Settled
    /\ IF comp[j] # "ok" THEN RunFails(j) /\ Unfinished
       ELSE /\ RunAt(j, "end") /\ Untouched
            /\ IF j \in ended THEN Unfinished
               ELSE Finish(j, "completed", file)
    /\ comp' = IF j \in waits THEN comp ELSE [comp EXCEPT ![j] = "none"]
    /\ UNCHANGED <<serviceVars, created, held, waits, pending, stopping_,
                   sd, stopFailed>>

RunPersisted(j) ==
    /\ Up /\ run[j] = "persist" /\ comp[j] \in Settled
    /\ IF comp[j] # "ok" THEN RunFails(j) /\ Unfinished
       ELSE /\ RunAt(j, "end") /\ Untouched
            /\ IF j \in ended \/ tpc[j] # "none" THEN Unfinished
               ELSE Finish(j, "completed", file)
    /\ comp' = IF j \in waits THEN comp ELSE [comp EXCEPT ![j] = "none"]
    /\ UNCHANGED <<serviceVars, created, held, waits, pending, stopping_,
                   sd, stopFailed>>

-----------------------------------------------------------------------------
(* finishTermination *)

\* settleAdmission, then the completion is captured and the backend killed,
\* if the job was given one.
AdmissionSettled(j) ==
    /\ Up /\ tpc[j] = "settle" /\ adm[j] # "pending"
    /\ held' = IF adm[j] = "granted" THEN held \union {j} ELSE held
    /\ waits' = IF run[j] = "persist" THEN waits \union {j} ELSE waits \ {j}
    /\ IF adm[j] = "granted"
       THEN KillCall("stopper") /\ tpc' = [tpc EXCEPT ![j] = "stop"]
       ELSE tpc' = [tpc EXCEPT ![j] = "finish"] /\ UNCHANGED serviceVars
    /\ UNCHANGED <<created, active, jst, done, ended, aborted, deadline, adm, run, comp, disp,
                   pending, file, stopping_, sd, stopFailed>>

\* Mutant: a shutdown does not hear of the stop that failed.
StopOverSilent(j) ==
    /\ Up /\ tpc[j] = "stop"
    /\ Collect("stopper")
    /\ \/ /\ pc["stopper"] = "ok"
          /\ tpc' = [tpc EXCEPT ![j] = "finish"]
          /\ UNCHANGED <<sd, stopFailed>>
       \/ /\ pc["stopper"] = "err"
          /\ tpc' = [tpc EXCEPT ![j] = "none"]
          /\ stopFailed' = stopFailed \union {j}
          /\ UNCHANGED sd
    /\ UNCHANGED <<created, active, jst, done, ended, aborted, deadline, adm, held, run, comp,
                   disp, waits, pending, file, stopping_>>

\* A stop that throws leaves the job aborted and without a termination; a
\* shutdown that awaits it throws, and the supervisors are not shut down.
StopOver(j) ==
    /\ Up /\ tpc[j] = "stop"
    /\ Collect("stopper")
    /\ \/ /\ pc["stopper"] = "ok"
          /\ tpc' = [tpc EXCEPT ![j] = "finish"]
          /\ UNCHANGED <<sd, stopFailed>>
       \/ /\ pc["stopper"] = "err"
          /\ tpc' = [tpc EXCEPT ![j] = "none"]
          /\ stopFailed' = stopFailed \union {j}
          /\ sd' = IF sd = "video" THEN "exit" ELSE sd
    /\ UNCHANGED <<created, active, jst, done, ended, aborted, deadline, adm, held, run, comp,
                   disp, waits, pending, file, stopping_>>

\* removeTransientArtifact succeeds or not; the job ends either way.
TerminationEnds(j) ==
    /\ Up /\ tpc[j] = "finish"
    /\ j \in waits => comp[j] \in Settled
    /\ tpc' = [tpc EXCEPT ![j] = "over"]
    /\ waits' = waits \ {j}
    /\ disp' = [disp EXCEPT ![j] = "none"]
    /\ comp' = IF run[j] = "persist" THEN comp ELSE [comp EXCEPT ![j] = "none"]
    /\ IF j \in waits \intersect ended
       THEN Unfinished /\ UNCHANGED <<pending, faults>>
       ELSE \/ /\ Fault
               /\ Finish(j, "failed", file)
               /\ UNCHANGED pending
            \/ /\ pending' = [pending EXCEPT ![j] = 0]
               /\ Finish(j, IF j \in waits /\ comp[j] = "failed" THEN "failed" ELSE disp[j],
                         [file EXCEPT ![j] = 0])
               /\ UNCHANGED faults
    /\ UNCHANGED <<faultless, created, aborted, held, run, stopping_, sd, stopFailed>>

-----------------------------------------------------------------------------
(* The gateway *)

Shutdown ==
    /\ sd = "up"
    /\ sd' = "video" /\ stopping_' = TRUE
    /\ Prune(done, file)
    /\ IF active = NoJob THEN Untouched ELSE Contain(active, "cancelled")
    /\ UNCHANGED <<serviceVars, created, active, jst, ended, deadline, adm, held, run, comp,
                   waits, pending, stopFailed>>

SupervisorsShutdown ==
    /\ sd = "video" /\ active = NoJob
    /\ ShutdownCall("closer")
    /\ sd' = "service"
    /\ UNCHANGED <<created, active, jst, done, ended, aborted, deadline, adm, held, run, comp,
                   tpc, disp, waits, pending, file, stopping_, stopFailed>>

ShutdownOver ==
    /\ sd = "service" /\ pc["closer"] \in {"ok", "err"}
    /\ sd' = "exit"
    /\ UNCHANGED <<serviceVars, created, active, jst, done, ended, aborted, deadline, adm,
                   held, run, comp, tpc, disp, waits, pending, file, stopping_,
                   stopFailed>>

\* The process exits after its shutdown, or is killed at any time.
GatewayGone ==
    /\ Up
    /\ sd' = "gone"
    /\ UNCHANGED <<serviceVars, created, active, jst, done, ended, aborted, deadline, adm,
                   held, run, comp, tpc, disp, waits, pending, file, stopping_,
                   stopFailed>>

\* A guardian whose gateway is gone ends the process it watches.
Reap(p) ==
    /\ ~Up /\ p \in guarded /\ st[p] = "live"
    /\ st' = [st EXCEPT ![p] = "exited"]
    /\ UNCHANGED <<life, proc, guarded, expected, resv, startup, phase, cancelled, verdict,
                   stopping, shuttingDown, crashes, pc, joined, on, faults, jobVars>>

-----------------------------------------------------------------------------
(* The event loop: continuations first, then one event *)

Task(j) ==
    \/ RunAdmit(j) \/ RunReady(j) \/ RunPersisted(j)
    \/ AdmissionSettled(j) \/ StopOver(j) \/ TerminationEnds(j)

Tasks ==
    \/ \E j \in Jobs : Task(j)
    \/ ReadyDropped \/ SupervisorsShutdown \/ ShutdownOver
    \/ Up /\ ServiceTask /\ UNCHANGED jobVars

Drained ==
    /\ ServiceDrained
    /\ \A f \in {"ready", "stopper"} : pc[f] \notin {"ok", "err"}
    /\ \A j \in Jobs :
         /\ adm[j] # "pending" => run[j] # "admit" /\ tpc[j] # "settle"
         /\ comp[j] \in Settled => run[j] # "persist"
         /\ tpc[j] = "finish" => j \in waits /\ comp[j] \notin Settled
    /\ sd = "video" => active # NoJob
    /\ sd = "service" => pc["closer"] \notin {"ok", "err"}

Request ==
    \/ \E j \in Jobs : Start(j) \/ Delete(j) \/ Terminate(j, "cancelled")
                       \/ Terminate(j, "failed")
    \/ Get \/ Shutdown

\* What a job's run awaits.
Answer(j) == RunSubmit(j) \/ Prepared(j) \/ Written(j)

Service == Up /\ ServiceEvent /\ UNCHANGED jobVars

Events ==
    \/ Request \/ Service \/ GatewayGone
    \/ \E j \in Jobs : Deadline(j) \/ Grant(j) \/ Refuse(j) \/ RunPoll(j) \/ Answer(j)
    \/ \E p \in Procs : Reap(p)

Next == Tasks \/ (Drained /\ Events)

\* What the event loop, the operating system and the guardians do in time:
\* continuations run, timers fire, stopped processes exit, files are written,
\* an aborted admission is settled. Requests need not come, and the backend
\* need answer neither a submission nor a poll.
Progress ==
    \/ Tasks
    \/ Drained /\ \/ Service
                  \/ \E j \in Jobs : \/ Deadline(j) \/ Prepared(j) \/ Written(j)
                                     \/ j \in aborted /\ Refuse(j)
                  \/ sd = "exit" /\ GatewayGone
                  \/ \E p \in Procs : Reap(p)

Spec == Init /\ [][Next]_vars /\ WF_vars(Progress)

-----------------------------------------------------------------------------
(* Properties *)

Live == {p \in Procs : st[p] = "live"}

\* The supervisor (supervisor.ts) keeps the promise of a supervised backend:
\* one process at a time, reserved memory as long as it runs, and nothing left
\* once shutdown() has returned.
BackendSpec == INSTANCE Backend WITH
    Pids <- Procs, live <- Live, reserved <- resv # 0, closed <- pc["closer"] = "ok"
ImplementsBackend == BackendSpec!Spec

\* A job has one outcome: however its completion, cancellation, deadline and
\* the shutdown race, no later finish replaces the state a poll has reported.
OneOutcome == [][\A j \in ended : jst'[j] = jst[j] /\ j \in ended']_vars

\* A completed job that is retained has its file, and a terminal job's bytes are
\* on disk only if they are counted.
FilesCounted ==
    \A j \in ToSet(done) : /\ jst[j] = "completed" => file[j] = pending[j] /\ file[j] > 0
                           /\ file[j] <= pending[j]

\* The artifact files, the one being written included, stay within the total
\* limit, and those of the retained jobs are the ones that are counted.
DiskBounded ==
    /\ Cardinality(Bytes(file, Jobs)) <= MaxTotal
    /\ FilesCounted

\* An admission is given back by the time its job is terminal, and never while
\* the job's own kill is under way: that kill cannot hit a later job's backend.
AdmissionOutlivesKill ==
    /\ \A j \in ended : adm[j] \in {"refused", "released"}
    /\ pc["stopper"] # "idle" => \E j \in Jobs : tpc[j] = "stop" /\ adm[j] = "granted"

\* When kill() returns to a termination, no backend runs for the job.
KilledMeansDown ==
    [][\A j \in Jobs : tpc[j] = "stop" /\ tpc'[j] = "finish" => Live = {}]_vars

\* A job ends: by its backend, a request or its deadline. Only a stop that
\* failed may leave it for a later cancel, and only a gateway that is gone.
JobsEnd ==
    \A j \in Jobs : created >= j ~> j \in ended \/ j \in stopFailed \/ sd = "gone"

\* A shutdown that was begun ends the gateway, and every guarded process with
\* it, whether or not each stop succeeded.
ShutdownLeavesNothing == sd = "video" ~> sd = "gone" /\ Live \intersect guarded = {}
=============================================================================
