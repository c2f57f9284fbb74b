# LocalBase in TLA+

LocalBase is a local AI gateway: one process serves chat, speech, image and video models on
one computer, starts the native backend of a model when a request needs it, and keeps the
computer usable while it does. The repository holds it twice. The Go program (`src/go`) is the
current one. The TypeScript program (`src/src`) is the released 0.1.0; `go/DESIGN.md` calls it
the specification of the port, `docs/typescript-retirement.md` keeps it as the way back,
and the two exclude each other on one root through the same lock files. This project models
the parts of both whose correctness depends on the order in which goroutines, continuations,
processes and the operating system act. It consists of TLA+ modules, TLC configurations that
check them on small instances, and TLAPS proofs for every value of the constants.
`PROJECT.json` lists the components, the runs, the source lines behind every definition, the
hazards and the theorems.

Run a check with `tlc -config MCLlmHolds.cfg MCLlmRuntime`, and the proofs with
`tlapm LlmRuntimeProofs.tla` (four minutes; the two modules about the reconciler take about ten each, the others about one).

## 1. Inventory

### Go (`src/go/internal`)

| component (package) | state | operations | hard behaviour | what makes it correct |
|---|---|---|---|---|
| admission ledger (`memory/controller.go`) | reservations by runtime, sample epoch | Reserve, CheckAdmission, Headroom, Materialize, Release | the host is sampled outside the lock; processes load and exit meanwhile; a runtime id is reserved again while an old handle survives | promises never exceed what the host has beside the reserve; the GPU cap holds; a live process has a reservation |
| pressure hysteresis (same file) | state, count of normal samples | Poll | samples in any order, samples that cannot be read | admission reopens only after three normal samples in a row, and then does reopen |
| chat runtime (`runtime/llm*.go`, `waitqueue.go`) | current backend, leases, FIFO queue, one switch goroutine, watchers | Acquire, Release, pump, doSwitch, restore, watch, EmergencyStop, StopLoads, Close | every method unlocks around process starts and stops; clients leave; processes crash | a lease keeps its model; slots are not lost; no wake-up is lost; no start after stop; Close ends with nothing running |
| explicit unload (`runtime/unload.go`) | unloading model, number of unloaders | Unload, endUnload | several at once, against idle recovery and switches | at most one claims the backend; the model stays protected until the last unload ends |
| idle recovery (`runtime/recovery.go`) | a gate; a claim per peer | claimIdle, stopClaimed, unclaim, retryAfterRecovery | one runtime stops another to make room | only idle peers stop; one retry; queues go on afterwards |
| pressure monitor (`runtime/pressure.go`) | deadlines of the eviction | Run, evictIdle, evictAll | acts on all runtimes from its own goroutine | idle models go first, busy ones only when memory stays critical |
| media runtimes (`runtime/service.go`) | active model on disk, backend, one lease, queue | Acquire, Activate, settle, rollback, reload, Unload, Close | a model is persisted as active before it is known to start | the model on disk is the one that runs or ran last; one request at a time |
| video jobs (`video/jobs.go`) | jobs, files, deadlines | create, complete, cancel, expire, fail | the file is written outside the lock | one outcome per job; a file exists exactly for a completed job |
| detached runs (`gateway/runs.go`) | runs, held bytes, checkpoints on disk | start, write, finish, dismiss, restore | restart; dismissal while writing | bytes return to zero; a deleted run stays deleted |
| operation lease, gateway lock (`lease/operation.go`, `root/lock.go`) | files | acquire, hand off, claim, reclaim | several processes, crashes, stale files | one owner of the root at a time |
| self-upgrade (`upgrade/upgrade.go`) | binaries on disk | Apply, Rollback, swapBack | a crash between renames | a runnable binary is always there |
| survivors (`runtime/survivors.go`) | recorded process ids | sweep at start | a crashed gateway leaves backends | no backend outlives two gateways |
| GPU pool (`memory/gpupool.go`) | free bytes per device | reserve, release | called only from the switch goroutine | the sum per device stays within its size |
| backup, acquisition, accounts, HTTP handlers, CLI | files, database | - | mostly I/O | later survey |

Interactions. A runtime asks the controller before it starts a process (CheckAdmission, then
Reserve), reports when it became resident (Materialize) and gives the memory back when the
process is gone (Release). A refused start goes through idle recovery, which claims and
stops idle peers and lets the start be tried once more. The pressure monitor polls the
controller and evicts. At shutdown `serve.go` calls StopLoads on every runtime, ends the
requests, then Close.

### TypeScript (`src/src/domains`)

| component | state | operations | hard behaviour | what makes it correct |
|---|---|---|---|---|
| root ownership (`service/ownership.ts`) | three lock directories with their owner.json | acquire, release, reclaim, hand off, claim; gateway lease | processes crash between two file operations; a lease is handed to a process the service manager starts | one operation at a time; a lease is taken only from the dead; one gateway per root |
| service manager (`service/manager.ts`) | the unit, its manifest | start, restart, stop, install | it launches the gateway that must claim the starter's lease, and relaunches it after a failure | a start ends with the gateway owning the root, or with the lease free |
| supervisor (`runtime/supervisor.ts`, `native-process.ts`) | lifecycle state, process, start attempt, stop promise, reservation, crash times | ensureRunning, start, kill, shutdown, exit cleanup | calls await each other's promises; a start is cancelled, fails or exits at any await | one process at a time, reserved memory while it runs, nothing after shutdown |
| guardian (`runtime/backend-guardian.ts`) | a helper process | ends its process when the gateway is gone | a gateway that crashes | no backend outlives the gateway |
| video jobs (`runtime/video/video-job-manager.ts`) | one active job, terminal jobs, artifact files, admission | start, get, cancel, delete, shutdown, deadline | a completion, a cancel, the deadline and a shutdown race over one record; stops fail | one outcome; bounded disk; the admission is kept until the backend is down; every job ends |
| inference queue (`runtime/inference-queue.ts`) | pending, the one being dispatched, permits, active model, slots | acquire, pump, release, rejectPending, close | dispatch is awaited while requests time out, abort or are rejected | permits are for one model and within its slots; no wake-up is lost |
| admission barrier (`runtime/modality-admission.ts`) | leases, accepting, cancellation marks | acquire, release, cancel, attach, detach, drain | leases end in any order while the barrier is detached | a backend is not replaced under a lease |
| reconciler (`runtime/runtime-reconciler.ts`, `reconciliation-plan.ts`) | snapshot, applied revision, lanes, claims, safeguard timer | coordinateAdmission, activateModel, applyModality, evictions, recovery | a FIFO lane per modality whose tasks wait for drains, kills and settles; edits arrive meanwhile | a lease keeps its model; admission is never closed for good; every request is answered |
| configuration snapshot, registry (`config-snapshot.ts`, `supervisor-registry.ts`) | saved and applied configuration; supervisors | refresh, update; add, take | another process saves | - |
| gateway process (`runtime/commands/serve.ts`) | HTTP server, everything above | routes, streaming, shutdown | the order of the shutdown | nothing is left running |
| memory controller (`runtime/memory-controller.ts`) | reservations, pressure | reserve, materialize, release, poll | the sample is awaited; releases happen meanwhile | as the Go one |
| speech supervisor (`runtime/speech-supervisor.ts`) | a server or a process per generation | generate, kill | as the supervisor | - |
| planning, estimates, catalog, installation, accounts, command line, web interface, observability | files, database, browser state | - | mostly I/O and pure computation | see Not modelled |

Interactions. A command takes the operation lease; `start` launches the service manager's unit
and hands the lease over; the gateway claims it, takes the gateway lock and gives the lease back.
A request waits in its modality's queue; the pump dispatches it into the
modality's lane, where the reconciler brings configuration and backend up to date and
acquires a lease of the barrier; the response releases it. A video job holds such an
admission for as long as its backend works. Every process is started through a supervisor, which
reserves memory first and starts a guardian beside it.

## 2. Plan

| order | module | subject | state |
|---|---|---|---|
| 1 | `MemoryController`, `MemoryControllerProofs` | ledger and hysteresis (Go) | modelled, checked, proved |
| 2 | `LlmRuntime`, `LlmRuntimeProofs` | chat runtime with unload, eviction, emergency, shutdown (Go) | modelled, checked, safety proved |
| 3 | `OperationLease`, `RootOwnership`, `RootOwnershipProofs` | the lease as promised; the three locks, crashes (TypeScript) | modelled, checked, safety and refinement proved |
| 4 | `Backend`, `ManagedService`, `VideoJobs`, `ManagedServiceProofs`, `VideoJobsProofs` | a supervised backend as promised; supervisor, jobs, shutdown, guardians (TypeScript) | modelled, checked, safety and refinement proved |
| 5 | `InferenceQueue`, `AdmissionBarrier`, `Reconciler`, `ReconcilerLemmas`, `ReconcilerProofs` | requests, switches, reconciliation, evictions, recovery (TypeScript) | modelled, checked, safety proved |
| 6 | `DetachedRuns`, `DetachedRunsProofs` | detached runs: memory, checkpoints, shutdown, crash and restart (Go) | modelled, checked, safety proved |
| 7 | `IdleRecovery` | two runtimes, the gate, the monitor: recovery seen from both sides | later |
| 8 | `ServiceRuntime`, `Upgrade`, survivors | Go media runtimes, renames at an upgrade | later |
| 9 | TypeScript memory controller; installation with resume | stale samples without an epoch; resumed downloads | later |

## 3. Modules and code

### MemoryController

`reservations`, `epoch`, `state` and `normalRun` are the fields of `Controller`. A call is a
goroutine in the middle of `Reserve`, `CheckAdmission` or `Headroom`: `call[c].at` says which
unlocked step comes next. `BeginReserve`/`BeginCheck`/`BeginHeadroom`, `ReadEpoch` and
`TakeSample` are the reads before the lock; `DecideReserve` and `Answer` are the locked
parts with the whole of `evaluate` and `ledger`. `Materialize` and `Release` are the methods of
`*Reservation`; a handle may be used again after its id was reserved by someone else, which
the code's pointer comparison has to notice. `PollSample` and `PollApply` are the two halves of
`Poll`. `Load`, `Exit` and `OtherMoves` are the host: a process grows to at most its
projection between Reserve and Materialize, may end at any time, and the rest of the
computer changes its use.

Data: bytes are small integers. The warning threshold is computed in integers (5/4 of the
reserve). `soldOther` and `calm` are history variables: the use by others in the sample of
the last admission, and the normal samples in a row.

A host that cannot be read gives `available = -1` with pressure `unknown`. The controller's
one-second display cache (`reading`, `Preview`, `Runtimes`) and the diagnostics of a refusal
are left out: no decision reads them.

### LlmRuntime

One action is one critical section of `m.mu` together with the `pump` that the code runs in it.
`cur`, `active`, `queue`, `claimed`, `unloading`, `unloaders`, `stopping` and `closed` are fields of
`LLM`. `sw` is the switch goroutine; its `step` is the place where it last unlocked:
`SwCheck` (doSwitch up to its preflight), `SwPreflight`, `SwStopped`, `SwStart` (Reserve and exec),
`SwLoad` (the wait for readiness), `SwInstall`, `SwUndone`, `SwRetry`, `SwFinish`. A restore of the previous
model is the same goroutine with `restoring` set. `back` holds every backend that someone still
refers to: its process, its `stopOnce` and its watcher. `Detach` is `stopBackend` up to the once,
`FinishStop` its rest (kill, wait, Release). `req[r]` is a client: out, queued, granted (its lease is in
the channel) or holding. `Cancel` includes the select race in `waitQueue.wait`, where a lease
that was granted in the meantime is given back.

External: the process (`Live`, `Crash`), and whether memory admits a start. `ledger` is the backend
that holds the reservation of id `"llm"`; a second `Reserve` of it fails with the plain error the
code returns (`err = "collision"`), and a refusal by admission is a choice
(`"refuse" \in Events`). `Events` says which disturbances an instance has, so that one module
serves several runs.

Left out: planning, placement, installation and argument building (they succeed or fail),
the geometry cache, `SetConfig`, observed peaks and capability probes.

### RootOwnership and OperationLease

A process is one pid: a command that starts the service (`Starters`), any other command
under `withRootOperation` (`Operators`), a gateway the service manager launches (`Managed`) or one a user
runs (`Foreground`). `op`, `mut` and `gw` are the lock directories, `aside[q]` is what was moved to the
`.abandoned` path named after q. One action is one file operation or one read: `OpMkdir` and
`OpWrite` are the mkdir and the owner.json of `acquireOperationLease`, `MutationTake` the rename of a prepared
candidate, `MutationSeesDead`, `MutationMove` and `MutationCheck` the recovery of an abandoned mutation lock,
`Reclaim`/`MoveAbandoned` the removal of an abandoned lease, `HandOff`, `LookForHandoff`, `ClaimHandoff` and
`HandoffExpires` the handoff. `InitializationFails` gives the lease back before the gateway lock. `Launch` starts the unit and only then hands off, as `manager.ts` does. `SeeStale` and
`RemoveStale` split the read and the removal of a stale gateway lock. `Crash` may come between any two.
A command waits at most as long as the code's deadlines (`LeaseTimeout`, `MutationTimeout`,
`StopTimeout` may happen whenever it waits).

External: the file system, whose mkdir, rename and recursive rm of one lock are one step each, the
service manager, and pids, which are not reused. Left out: permissions, schema validation,
messages.

`OperationLease` is what callers rely on: a holder, a handoff that is claimed or expires, a reclaim
from the dead. The refinement maps its `holder` to the pid in `op` (Nobody without a directory or without
owner.json), `handoff` to the record's and `gone` to the processes that ended. The abstract
specification allows anything once `void`, which is mapped to `displaced`.

### ManagedService, VideoJobs and Backend

JavaScript runs one continuation at a time, so an action is the code between two awaits, and
`Next` lets every continuation that is ready (`Tasks`) run before the next event (`Events`: a
request, a timer, an exit, an answer). `ManagedService` has the state of the class: `life`
(`lifecycleState`), `proc`, `expected` (`expectedStops`), `startup`/`phase`/`cancelled` (the attempt
under way), `stopping` (`stoppingPromise`), `resv` (the ledger's entry), `crashes`. Three calls may be under
way, one each of `ensureRunning`, `kill` and `shutdown`; `pc` and `joined` say where each waits and for
which promise. A number stands for an attempt, its process and its reservation, and is used
again when nothing refers to it. Faults (`MaxFaults`) are unasked exits, and failures of launches,
spawns, probes, guardians and stops. Backoff timers, preflight and launch are one phase;
readiness hooks and log streams are left out.

`VideoJobs` extends it with the manager: `active`, `done` (the retained terminal jobs, oldest first),
`file` and `pending` (bytes on disk and counted), and per job its state, its signal,
its deadline, its admission, where `run(job)` is, its artifact promise and its termination.
`Start`, `Get`, `Delete`, `Terminate` (cancel, cancelActive, memory pressure), `Deadline` and `Shutdown` are the
entries; `RunAdmit` to `RunPersisted` are the stretches of `run`, `AdmissionSettled`, `StopOver` and
`TerminationEnds` those of the termination. `sd` is `serve.ts`'s shutdown: the video manager first, then the
supervisors, then the exit; `Reap` is a guardian after `GatewayGone`. `Prune` removes expired jobs and
what exceeds the limits, at every entry that calls it. The admission is granted or refused by
the reconciler at any time, and the backend may answer anything while a process runs.

`Backend` is what the rest of the gateway relies on: at most one process, a reservation from before the
spawn until after the exit, nothing once `shutdown()` has returned. The mapping is `live` to the
processes that run, `reserved` to `resv # 0`, and `closed` to a shutdown call that returned.

### InferenceQueue, AdmissionBarrier and Reconciler

The first two are the classes as operators on a record: what `pump`, `release`, `rejectPending`, `close`, and
`acquire`, `release`, `cancel`, `attach`, `detach`, `detachIfIdle` do to it. `Reconciler` has one of each, for one modality
that is either chat (`"llm"`: several slots, never off) or one that may be off (`"image"`). Every operation on the
backend is a task in the lane (`exclusiveModality`); `lane` is the FIFO and `cur` says where its
head waits. `DispatchBegin` to `SwitchSettled` are `coordinateAdmission` with `activateModel`, its
rollback and settle; `ReconcileBegin` to `ReconcileStopped` are `applyModality`; then come the evictions of the
pressure monitor, the stop after an idle cancellation, the safeguard timer, and the recovery of another
modality that claims this one as its idle peer. `Arrive`, `Timeout`, `Abort`, `Finish` are the
requests; `Edit` is another process saving a configuration, `Refresh` the poll that notices it. `Deliver` is
the continuation after dispatch, in which the queue gives the permit or passes over a
request that has left.

The supervisor is seen through `state()`. An admission finds it running, failed, or has it start (`Ready`, `Started`);
a start ends with `BackendUp` or `BackendFails`, idle when memory refused it and failed otherwise. `BackendCrash` is
`handleCrash`: after an exit nobody asked for the backend starts again by itself, without an admission, under the
leases it served and under a claim. A claimed peer may so have crashed and run again when the claim is checked.

Abstracted: `exclusive`, the lock over all modalities, never waits for a lane and is atomic with its caller;
preflight, settle and slots may answer anything, each as a wait of the lane's head.
`bar.passedOver` is kept for a property: `attachBarrier` found the modality off. A recovery has one peer (section 7).

### DetachedRuns

`runs`, `held` and the fields of `run[r]` are those of `runManager` and `run`; `file[r]` is the checkpoint on disk, by the
status in it. Three actors may work on a run at once: `maker[r]` is the handler in `create`, `at[r]` the goroutine with
the inner request and `finish`, `deleter[r]` the handler of a DELETE, which stops waiting after `stopWait` and dismisses
a run that is still going. An action is one critical section of `r.mu` or `m.mu`, one addition to the atomic `m.held` or
one change of a file: `Write` counts, `WriteTake` takes; `DismissDrop`, `DismissMark`, `DismissRelease` and
`DismissRemove` are `dismiss`; `FinishBody`, `Settle`, `FinishRelease` and `FinishRemove` are `finish`. `Published` is
the end of `create`'s section with `trim` in it. `ShutdownBegin`, `ShutdownStops` and `ShutdownReturns` are `Shutdown`;
its wait ends with every goroutine or by its time (`"left"`). `Restart` is an exit or a crash at any step together with
the next gateway's `sweepStart`.

Data: a body, a chunk, an error and a checkpoint are one unit of memory each, one error per stream. What the inner
request does (`Queued`, `Admitted`, `WriteHeader`, `Write`, `Chunk`, `ErrorEvent`, its end) is external and comes in any
order the `/v1` handlers allow; `source` is set and read by the run's own goroutine, so `Settle` chooses it. Fields that
only `finish` reads are forgotten when the run has ended. One owner, so `runActiveTotal` and `runActivePerOwner` are one
limit. `deleted` and `outlived` are history variables.

## 4. Runs

| run | module / cfg | instance | shows |
|---|---|---|---|
| memory_admission | MCMemoryController / MCMemoryAdmission | 2 callers, 2 runtimes, demands 2 and 3, capacity 8, reserve 2, GPU 3 | no interleaving oversells the host or the GPU; stale samples leave room; handles |
| memory_pressure | MCMemoryPressure | 1 caller, 2 runtimes, a check that credits `llm`, all pressures, host use around both thresholds | admission reopens after three normal samples and does reopen; what a preflight admits fits once the credited model stops, provided that model still runs as it was measured |
| memory_headroom (violation) | MCMemoryHeadroom | 2 callers | finding 1 |
| llm_disturbed | MCLlmRuntime / MCLlmDisturbed | 3 clients, 2 models, 2 slots, 1 unload, 1 crash | leases keep their backend; the count of leases and the queue are exact and no wake-up is lost (`NoLostWakeup`); a live process is reserved; under every disturbance but shutdown |
| llm_holds | MCLlmHolds | 2 clients, 2 unloads, eviction, refusals, 1 crash | claims, switches and unloads exclude each other and an unloading model stays protected; every waiting request is answered |
| llm_shutdown | MCLlmShutdown | 2 clients, 3 targets, refusals, timeouts | StopLoads and Close at any moment; Close returns with everything down |
| llm_crash_restart (violation) | MCLlmCrash | 2 clients, 1 crash | finding 2 |
| llm_close_during_eviction (violation) | MCLlmClose | emergency and Close | finding 3 |
| ts_ownership | MCRootOwnership | a starter, another command, a managed and a foreground gateway, 1 crash | one operation and one gateway at a time, leases taken only from the dead, until a mutation lock is displaced; that needs a death with the lock in hand (`RootExclusive`); `ImplementsLease` |
| ts_video | MCVideoJobs | 2 jobs, artifacts of 1 and 2 bytes against a limit of 1, 2 processes, 1 fault | one outcome per job, bounded disk, admissions outlive kills, a kill means down, `ImplementsBackend`; jobs end; a shutdown leaves nothing |
| ts_reconciler | MCReconciler | 3 requests, 2 models, 2 slots, 3 configurations, 1 recovery, 2 disturbances | leases keep their model, claims close, admission is never closed for good and returns whatever closed it; every request is answered |
| go_runs | MCDetachedRuns | a media and a chat run, one active and one retained, memory for two units, 1 restart | memory is counted exactly through every order of writes, ends and dismissals; deleted runs stay gone; a shutdown that waited leaves no run going; outcomes survive a crash |

Every property has a mutant: a plausible bug in the code (a forgotten pump, a missing guard, a
swapped order) under which TLC finds the property violated. The mutant operators stand
before the definitions they change.

### Bounds

- The two demands of the admission run are (2 bytes, 2 of them on the GPU) and (3 bytes, 1 on
  the GPU). Two of the first kind fit in memory but not on the GPU, two of the second fit on
  the GPU but not in memory, and a mixed pair fits only while the rest of the computer uses
  little. `MaxEpoch` = 2 lets a runtime become
  resident, exit and become resident again beside another: a sample can be older than one
  of the two, than both, or than neither. It limits Materialize only, so the
  instances stop there and deadlock is not checked (`CHECK_DEADLOCK FALSE`). The theorems hold
  for every value.
- `MaxBackends` is the number of backends someone refers to at a time, not of all that ever ran:
  a forgotten one is used again. In every instance a start finds a free one, so
  the bound cuts nothing.
- `MaxCrashes` = 1 in the chat runs lets a process die at any point; two models and up to three clients are the
  least with which one request waits for a slot, one for a switch and one behind both.
  The third target of the shutdown run is the first model with another backend selection,
  so that a changed selection restarts the same model.
- `ts_ownership` has one process of each kind: the starter's handoff is raced by a command that reclaims and by two
  gateways, one with the token. One crash is what a death at each place takes; it is also enough
  for a displaced mutation lock. Deadlock is checked: apart from `Finished` something can always happen.
- `ts_video` with two jobs lets a late kill or file of the first meet the second; sizes 1 and 2 against limits
  of 1 make an artifact fit, exceed its own limit, or need the older one pruned. `CrashLimit` = 1 makes the
  restart limit reachable within `MaxFaults`. Two faults were checked as well (1,280,000 states). The gateway ends, so
  deadlock is not checked.
- `ts_reconciler`: a disturbance is a timeout, an abort, an edit, a fault, memory pressure, a recovery or the
  shutdown; two of them meet at every step of three requests. Safety was also checked with three
  disturbances (10,472,179 states), and with two requests, two recoveries and four
  disturbances (12,736,891 states). Requests and disturbances are finite, so the
  instance stops and deadlock is not checked; `RequestsAnswered` shows that it does not stop with somebody waiting, and
  `AdmissionReturns` that it does not stop with the barrier closed. The second is not a consequence of `NeverStranded`, which
  says nothing while a recovery is under way: a recovery that gives its claim up without queueing the release (lines 466-473)
  violates `AdmissionReturns` and no other property of the run.
- `go_runs`: a body and one chunk fill the memory (2), so the limits of one run and of all are both met, and a second
  run finds it full. One active run and one retained make `overActive` refuse and `trim` drop. A run that was
  dismissed and still goes on meets the next one. One restart ends the gateway at any step, once. 3,207,532 states.
  Runs and restarts are finite, so deadlock is not checked.
- Deadlock is checked in the chat runs, except where Close occurs: there the system stops.
- Callers and requests are interchangeable, which the symmetry sets use, only in runs
  without liveness properties. The TypeScript instances use none.

### Fairness

Memory: `Poll` is driven by a ticker (`pressure.go`), hence weak fairness of its two halves. `PressureClears`
says that once samples stay normal the state becomes healthy; nothing makes
the host calm.

Chat runtime: goroutines that are able to run do run (the switch, watchers, stops, a
claimed eviction, an unload whose drain ended, Close). `proc.Stop` kills after a grace period, so a
stop ends. A lease holder releases: its request ends by its answer or its deadline, and the handler
releases in a deferred call. A start ends: the readiness wait has a timeout. Nothing is assumed of clients
coming, leaving or timing out, nor of crashes, unloads, evictions and shutdown
beginning. `EveryRequestAnswered` therefore does not rest on the queue's own deadline.

TypeScript: weak fairness of one action, `Progress`, because one event loop runs everything: it goes on as
long as something is ready. In `VideoJobs` that is continuations, timers (the job's
deadline among them), exits of stopped processes, file writes, guardians, and the settling of an aborted
admission. The backend need answer neither a submission nor a poll: `JobsEnd` then rests on the deadline. In
`Reconciler` it is continuations, the ends of the head's waits, timers, the end of a backend's start and
of every response. Requests, timeouts, aborts, edits, faults and pressure need not come.
`RootOwnership` has no liveness property: a directory left without owner.json by a crash
blocks everybody for good (section 6).

## 5. Proofs

Each proof module EXTENDS the module it is about and TLAPS (`VideoJobsProofs` through `ManagedServiceProofs`, which holds
the lemmas about the supervisor; `ReconcilerProofs` through `ReconcilerLemmas`, which holds the invariant and half of the steps). Its theorems hold for every value of the constants that the
named assumption of that module allows; no other hypothesis is used, but for the two theorems that say so. An invariant `IInv` is proved first
(`Invariance`): it holds initially, and `IInv /\ [Next]_vars => IInv'` is proved action by action. The properties
follow from it. TLC checked every `IInv` on small instances before it was proved.

| module | theorem | states |
|---|---|---|
| MemoryControllerProofs | `TypeCorrect`, `AdmissionNeverOversells`, `StaleSamplesAreSafe`, `GPUCapAlwaysHolds`, `ProcessesAlwaysCovered`, `PreflightAlwaysHonest`, `RecoveryIsEarned` | `TypeOK`, `NeverOversold`, `SamplesCountTheSeen`, `GPUCapHolds`, `ProcessCovered`, `PreflightHonest`, `CalmBeforeHealthy` |
| LlmRuntimeProofs | `TypeCorrect`, `LeasesKept`, `NoWakeupLost`, `HoldsExclusive`, `LiveReserved`, `NothingStartsAfterStop`, `ClosedLeavesOnlyStops`, `CollisionsExplained`; under a hypothesis on the disturbances `ClosedIsDown`, `StartsFindRoom` | `TypeOK`, `LeasesKeepTheirBackend`, `NoLostWakeup`, `HoldsExcludeEachOther`, `LiveIsReserved`, `NoStartAfterStop`, `ClosedMeansDown`, `NoCollision` |
| RootOwnershipProofs | `TypeCorrect`, `RootHasOneOwner`, `LeaseImplemented` | `TypeOK`, `RootExclusive`, `ImplementsLease` |
| VideoJobsProofs | `TypeCorrect`, `BackendImplemented`, `OneOutcomeHolds`, `AdmissionOutlives`, `KilledMeansDownHolds`, `RetainedHaveFiles`, `DiskStaysBounded` | `TypeOK`, `ImplementsBackend`, `OneOutcome`, `AdmissionOutlivesKill`, `KilledMeansDown`, `DiskBounded` |
| ReconcilerProofs | `TypeInvariance`, `LeaseSafety`, `ClaimSafety`, `NobodyStranded` | `TypeOK`, `LeaseKeepsItsModel`, `ClaimedMeansClosed`, `NeverStranded` |
| DetachedRunsProofs | `TypeCorrect`, `DeletedRunsStayGone`, `ShutdownLeavesNothing`, `OutcomesSurvive`, `DroppedRunsHoldNothing`, `MemoryIsCounted` | `TypeOK`, `DeletedStaysGone`, `ShutdownWaits`, `OutcomeSurvives`, `HeldIsCounted` |

### The ledger

`MemoryControllerProofs` proves, for every set of callers, runtimes and demands, every capacity,
reserve and pressure, from `ConstantsAssumption` alone:

- `TypeCorrect`: the type invariant;
- `AdmissionNeverOversells`: `NeverOversold`, the promises in the ledger fit above the reserve beside what
  the rest of the computer used in the sample of the last admission;
- `StaleSamplesAreSafe`: `SamplesCountTheSeen`;
- `GPUCapAlwaysHolds`, `ReserveAlwaysKept`, `ProcessesAlwaysCovered`;
- `PreflightAlwaysHonest`: `PreflightHonest`, also while other callers start;
- `RecoveryIsEarned`: `CalmBeforeHealthy`, an action property.

The argument. `NeverOversold` is not inductive. A decision is made on a sample taken earlier,
and `evaluate` adds to the available bytes of the sample only those promises that the
sample does not show (`Pending`). The decision is right because everything that counts as
shown (`residentAt <= seen`) was in memory when the sample was taken or has freed it since.
`SamplesCountTheSeen` says that of every sample in flight. It holds because the epoch is read before the
sample and Materialize raises the epoch. Around it, `IInv` needs the shape of the ledger (`LedgerOK`: a resident
entry has an epoch in range, an empty one has no bytes), of the calls (`CallsOK`: a call with a sample has
an epoch not above the current one) and of the handles (`OwnersHold`: a reservation is held by the caller
whose handle names it). `IInv` is the conjunction; TLC checks its parts `TypeOK`, `NeverOversold`,
`SamplesCountTheSeen` and `GPUCapHolds` in `memory_admission`, and the proof has one step per action.
`PreflightAlwaysHonest` compares totals term by term: what a check credits to a measured runtime is at most what the
sample shows of it, and every other promise is shown or pending (`SumPairs`); it also needs that a check asks for
something (`ChecksAsk`). A sum over the
five runtimes is an explicit sum of five terms, which keeps its monotonicity within
arithmetic. `RecoveryIsEarned` rests on a second invariant, `CountedWereNormal`: the code's count of normal samples
never exceeds the history variable that counts them.

### The chat runtime

`ConstantsAssumption` asks for finitely many requests and unloads, at least one slot, and targets that name a model
(`NoModel` stands for the empty `m.unloading`). Everything is proved for all of `Events` at once, any number
of slots, crashes and backends.

None of the properties is inductive. `NoLostWakeup` says that whoever waits while nothing holds `pump` back waits for a
lease that is out. To see that a critical section keeps it one has to know what `pump` leaves behind, and that depends on the
queue it is given. `IInv` has these parts:

- `QueueInv`: the queue holds each waiting request once and nobody else, `m.active` counts the leases, a switch has drained them
  (`Agree`); a request whose own start runs is at the head and asked for the switch's target (`Dispatched`); and the
  wake-up itself (`Awaited`).
- `BackInv`: the one reservation belongs to the current backend, to the one that is starting and to the one leases are out
  for; nobody else refers to a backend that is starting. `LeasesKeepTheirBackend` and `LiveIsReserved` follow.
- `EndInv`: once the gateway stops, a switch in flight has been ended; once closed, the queue is empty.
  `NothingStartsAfterStop` follows.
- `HoldsExcludeEachOther`, split into counts and exclusions. It is part of the invariant because
  `pump` may run only when nothing is claimed.

The proof goes from operators to steps. `Without` (what is left of a queue) is defined by rank, so that it can be reasoned about
without induction: `NthExists`, `NthOrder` and `WithoutFacts` say that it keeps the others once and in order;
`ImageCount` and `TailFacts` count. `PumpFacts` is the contract of `pump`: given a queue that agrees with the
requests (`PumpPre`), it ends with one that also awaits properly (`PumpPost`). `PumpActionSteps` shows that every critical
section that ends in `pump` establishes `PumpPre`. The other actions are grouped by what they can disturb: `SwitchStep` (the switch
goroutine), `CalmAction` (watchers, stops, claims: they only take from the backends), `CutAction` (they only
take from the queue) and `Receive`. `NextQueueInv`, `NextBackInv`, `NextEndInv`, `NextHoldCounts` and `NextHoldsQuiet`
combine the groups.

Findings 2 and 3 say that a start may find its predecessor in the way, and that Close may return before the runtime is down. The proofs
say precisely when. `HandInv` is the invariant that needs: a backend that holds the reservation is current, or somebody has it in hand
(the switch, a watcher that saw it crash, or whoever is ending it); the switch is past its preflight only while nothing is current; and once
Close has gone on, nothing is current and no switch runs. `CollisionsExplained` and `ClosedLeavesOnlyStops` follow, with no
hypothesis on the disturbances: the predecessor in the way of a start is one whose watcher has not released it yet or that an emergency is
stopping (an unload and an eviction keep switches out by their claim, and are never found), and what Close leaves behind is in the
hands of an eviction, an emergency or an unload that had begun to stop it. The properties of `llm_shutdown` are the cases without
those: `StartsFindRoom` assumes `MaxCrashes = 0` and no `"emergency"` in `Events`, and allows every other disturbance;
`ClosedIsDown` assumes no `"unload"`, `"evict"` or `"emergency"`, and allows crashes. The hypotheses select instances of the constants
which `ConstantsAssumption` allows; they are needed, since the runs of findings 2 and 3 violate the properties without them.

### Root ownership

`ProcsAssumption` says that the kinds of processes are disjoint and that `NoDir` is not a directory. The invariant has an
unconditional half, which holds whatever is displaced: every process is at a place its job allows and has the lease in hand
exactly at the places that say so (`Places`), the mutation lock names who is inside or died there and only such a death starts a
recovery (`Recovery`), and nobody is named in a lock before it was launched (`Named`). The other half (`MutExclusive`, `LeaseOwned`, `GatewayOwned`: one process is inside
the mutation lock, the operation lease belongs to the process that thinks so, and so does the gateway lock) holds until a
mutation lock is displaced. `RootExclusive` makes that distinction itself, and adds that a displacement needs a death.

`LeaseImplemented` proves `Spec => ImplementsLease`: under the mapping of `RootOwnership`, the initial states map to `OperationLease`'s, and each
step is one of its steps or changes nothing it sees. The directory is made before its owner is written, so `OpMkdir`
stutters and `OpWrite` is Acquire; ReleaseOp, HandOff, ClaimHandoff and HandoffExpires are Release, HandOff, Claim and
Expire; MoveAbandoned is Reclaim, and needs the invariant to know that the owner it read is still the one whose
directory it moves. `ClaimHandoff` stutters when it finds no handoff for it. A displacement makes the abstract lease void (`displaced'`), after which it promises nothing.

### Supervisor and video jobs

`ServiceAssumption` and `VideoAssumption` as they stand: any number of jobs, processes and faults, any crash
limit, any sizes and limits of artifacts. The invariant is found in two halves.

The supervisor's half is in `ManagedServiceProofs`. `NextIsServiceStep` first says what any step of the gateway can do to the supervisor,
so that the jobs need not be looked at again. `OneProcess` is the centre: a process that is not cleaned up is `this.proc`, or is
about to be, and holds the one reservation; a reservation without a process is that of an attempt. `Stops` and `Awaits` say who
awaits what: a stop is of `this.proc`, and an `ensureRunning` that was woken by the end of a stop finds nothing running. The second is true only
because continuations run before the next event (`Drained`): the proof uses it for `Reserve`, `Spawn` and `Adopt`. `Kills`
and `Closes` follow `kill` and `shutdown` through both of their stops: an attempt that `kill` has not joined
cannot have a process, and an attempt that exists during a shutdown is joined by it. `Counts` keeps the crash count in range. What
`ensureRunning`, `stopCurrentProcess` and the cleanup do up to their next await is stated once each (`EnsureTurn`, `StopEntered`,
`CleanTurn`), and each part of the invariant is proved action by action from those.

The jobs' half is one formula per job, `JobInv(j)`: what a job that was not created looks like, that a termination is of an
aborted job that has not ended, who has the admission, and which bytes are on disk. Most actions touch one job; `KeptInv` says
that the others keep their formula even if they are pruned. The lists are handled by `NewestFacts`, `AppendFacts` and
`RemoveFacts`: pruning leaves a list in which each job occurs once.

`DiskStaysBounded` is about the sum of the artifacts, which is the number of pairs of a job and one of its bytes (`Bytes`), so that
no induction is needed. `DiskInv` says what the manager's count stands for: the retained jobs and the one that has not
ended (`Charged`) have counted no more than the limit, and whoever else has ended has no file. `makeRoomForArtifact` prunes before the bytes
are counted (`PreparedDisk`), and no other step counts more (`CountsLess`); it is essential that only the active job has not ended, since
the bytes of a second one would not be in the sum that `Fits` compares with the limit.

`BackendImplemented` proves `Spec => ImplementsBackend`. Reserve and Spawn are their namesakes; a process's exit and a guardian's Reap
are Exit; a cleanup is Release, and so is the end of an attempt that has reserved and could not spawn; the second stop of `shutdown`, when it
succeeds, is Close, and needs `Closes` to know that nothing is left. All other steps stutter.

### Detached runs

`RunsAssumption` as it stands. The invariant is one formula per run, `RunInv(r)`: what a run
that was never published looks like (`Unpublished`), which actor may be where while it lives (`Lives`), what has been given back
once it is dropped and who still has to give back the rest (`Drops`), that its file says what it ended with (`Saved`) and
that a deleted run is in no list, and in no file once its goroutine has ended (`Deleted`). Most actions touch one run, so one lemma shows that the others keep their formula. The creation, the
publication with its `trim` and `Restart` touch several and are proved separately (`BeginKept`, `PublishKept`, `RestartKept`).
`OutcomeSurvives` needs `Saved`: what a restart reports is what the file says.

`MemoryIsCounted` is about a sum over all runs, and the prover cannot do induction over data. `Total` is therefore the
number of units held less the number owed (what a run holds may be negative, see section 6), and the library's facts
about finite sets replace the induction: `TotalUnion` adds two groups of runs, `TotalChanged` and `TotalReleased` say what one
run's change and a trim do to the sum. `Charges(r)` is what any step of a run's actors does to `m.held`: it changes by as much
as what the run holds, or one unit is counted before it is taken. The invariant needs one fact more, that a run that is being
finished has given its body back (`BodyGiven`); otherwise `finish`, which forgets the body, would lose count of it.

### The reconciler

`QueueAssumption` and `ReconcilerAssumption` as they stand: any sets of requests, recoveries and models, any saved
configurations, any number of slots, safeguard checks and disturbances. No property is inductive:
what a turn of the lane may do was decided before its last await, and in between requests arrive, leave, time out, the
configuration is edited, the backend crashes and evictions are queued. `IInv` says what is still true after each wait.

- `LaneInv`: no two tasks of the lane are alike (one dispatch, one reconciliation, one claim per recovery), and each is the one
  that the state of the queue or of its recovery says is queued. When a task is over, nothing is left in the lane that
  takes itself for it.
- `QueueInv`: the queue is `Sound` for the requests. `Queueing` says who is in `pending`, and that the dispatch under way has left it
  exactly when it is running or has returned, unless its request is gone. `Permits` says that the permits are those of the held requests,
  all for the active model, and that a dispatch leaves room for its own.
- `BarrierInv`: leases are of the supervisor in place and of its model, one per request, and they are those of the permits and of the
  dispatch that has been admitted and not yet settled. Past its drain, a switch or a reconciliation has an idle
  barrier. This is why taking the supervisor takes nobody's backend.
- `RecoveryInv`: a current claim is of a recovery that has it, and closes the barrier.
- `Targets`: what the head of the lane read before its wait is a revision that was saved, and not newer than the
  snapshot; the supervisor is of the applied model; while there is none, the applied revision is behind, so that
  the next coordinate adds one. A safeguard that waits for the slots in use asked the supervisor in place.
- `Reopening`: a closed barrier is passed over, has no supervisor, or somebody will reopen it: the head of the lane, a queued
  eviction, a cancelled lease's stop of this supervisor, or a recovery's release. `NeverStranded` follows when the lane is empty.
- `Rejected`: a request that was rejected while its dispatch ran leaves the barrier to the eviction that rejected it.

`ReconcilerLemmas` first says what the operators keep: `RemoveFacts` and its neighbours about sequences; `EnqueueFacts`, `StartFacts`,
`ReturnedFacts`, `PermitFacts`, `DropFacts`, `ReleaseFacts` and `RejectFacts`, that each operation of the queue keeps it sound, with the pump
that ends it (`PumpedFacts`); `AcquireFacts`, `EndLeaseFacts` and `SettleFacts`, that the barrier keeps its leases one per request and opens
its drains when the last one ends. `Grows` and `Pops` say what a step does to the lane: append tasks, or end its head and append.
Every step is one lemma, with one step per part of the invariant. `ReconcilerProofs` combines them and derives the properties.

### Model-checked only

- Liveness, which the prover does not handle: `PressureClears`, `EveryRequestAnswered`, `CloseReturns`, `JobsEnd`,
  `ShutdownLeavesNothing` of `VideoJobs`, `RequestsAnswered`, `AdmissionReturns`.

## 6. Findings

1. `Headroom` counts every resident runtime as shown by its sample, where `ledger` asks whether it was resident when
   the sample was read. A runtime that becomes resident between the two is in neither
   sum, so the figure exceeds what admission grants (`memory_headroom`).
2. The watcher of a crashed backend clears the slot and unlocks before it releases the
   reservation. A start in between fails with a plain error, which is not retried, although the comment says
   that the next request starts the model again (`llm_crash_restart`). Without crashes the
   same property holds (`llm_shutdown`, `StartsFindRoom`).
3. `Close` finds no current backend when an emergency stop has detached it and still waits for the process:
   it returns before the process is gone, although `serve.go` says every runtime is down
   (`llm_close_during_eviction`). Without emergencies it holds (`llm_shutdown`,
   `ClosedIsDown`).

### Observed, without a run of their own

No document states the opposite of these, or the properties above are stated so that they stay visible.

Ownership.
- A process that dies with the mutation lock in hand lets two contenders read the same dead owner. The slower
  one moves the faster one's live lock aside (`ownership.ts` 517-533) and does not put it back. From there on TLC
  reaches two processes that both work under the operation lease. The exclusion in `RootExclusive` is therefore conditional on `~displaced`, and its first part says
  what a displaced lock takes. The test "serializes abandoned cleanup before a contender can claim
  ownership" (`ownership.test.ts:224`) starts from a dead lease and a live mutation owner, and does not reach it.
- A crash between mkdir and owner.json leaves a lock without owner that nobody may reclaim.
- A gateway whose release of the lease times out keeps it until it exits.

Detached runs.
- A run that is still going when its DELETE has given up waiting writes checkpoints again. If the gateway ends before
  the run does, the next one lists the deleted run as interrupted. The same follows when a run that did not fit is
  deleted between its publication and the checkpoint `create` writes after it (`runs.go` 753-756): that file stays.
  `DeletedStaysGone` exempts both (`outlived`).
- Between a dismissal and the end of the run its `held`, and with it `m.held`, can be below zero: `finish` gives
  back a body that `dismiss` gave back before. The second release restores it, which `HeldIsCounted` follows step by step.

Supervisor and video jobs.
- `kill()` throws when the start it joined fails on its own, so a cancel or a deadline in that window counts as
  a failed stop.
- A failed stop leaves the job aborted and without termination. If its deadline is spent, it stays
  active ("busy") until a cancel or the shutdown: `JobsEnd` exempts `stopFailed`.
- A failed video shutdown skips `supervisors.shutdown` (`serve.ts` 5543-5544); the guardians end the processes.
- `ensureRunning` between an exit and its cleanup makes `reserve` throw, as in finding 2.
- Between spawn and the start of its guardian a process is unguarded: `ShutdownLeavesNothing` speaks of guarded ones.

Reconciler.
- While `evictAll` drains, a cancelled lease detaches the barrier and queues its kill behind a dispatch that
  already waits; `evictAll` attaches again, the dispatch is admitted, and the queued kill stops the backend
  under it.
- A modality turned off after a refused preflight is passed over by `attachBarrier`; when the configuration comes back
  unchanged, it answers 503 until the next change. `NeverStranded` exempts `passedOver`.
- An edit during a refused preflight is not reconciled until the next coordinate.
- A rollback adds and reloads a supervisor without asking whether the request was cancelled, or the queues closed.
- The queue never dispatches another model while permits are out, so the drain of `activateModel` never waits, and the
  pump's branch for an aborted head (`inference-queue.ts` 200-203) is never reached.

## 7. Not modelled

- Go: media runtimes, video jobs, the lease and the gateway lock have TypeScript counterparts that are modelled;
  the Go code differs from them (goroutines and locks instead of continuations) and those models must not be
  read as describing it. Upgrade, survivors and backup are planned. The GPU pool's calls never overlap.
- TypeScript memory controller: it has no epoch. `materialize` and `release` run while a sample is awaited, which is the race
  the Go epoch repaired; the model of the Go controller does not describe it.
- Reconciler: a recovery with several peers. It takes their lanes nested (`runtime-reconciler.ts` 876-888), and an abort then
  frees an outer lane (873) while the kills still run in the inner one: the release may reopen a peer's barrier during its kill. With
  one peer, as modelled, the lane is held until the kill ends. Several modalities at once, fields owned by the command line, changes that need
  a restart, the video preflight of `coordinateAdmission`, and the speech supervisor.
- Video: a foreign server that answers the health probe on the backend's port, and the second admission of a refused start.
- Launch planning, memory estimates, metadata, catalog and discovery are pure computations or network I/O over
  strings and byte counts; the web interface renders; the command line and the HTTP handlers
  parse and format; accounts are one database transaction per operation; logging changes
  nothing others read. They are most of the repository's lines (the interface, the command tree, the handlers of
  `serve.ts`, the catalog) and have no interleaving a model would explore: the map covers the concurrent
  core and not these.
