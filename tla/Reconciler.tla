----------------------------- MODULE Reconciler -----------------------------
(***************************************************************************)
(* RuntimeReconciler (src/src/domains/runtime/runtime-reconciler.ts) for   *)
(* one modality: requests admitted through the inference queue, and the    *)
(* barrier that lets its backend be switched, replaced, evicted and        *)
(* stopped under them.                                                     *)
(*                                                                         *)
(* Every operation on the backend is a task of the modality's lane         *)
(* (exclusiveModality), a FIFO whose head runs. A task runs to its next    *)
(* wait in one step, and between two of its steps anything else may happen *)
(* that does not need the lane: requests arrive, time out, are aborted or  *)
(* end, the configuration is edited, memory runs out. The supervisor is    *)
(* the one ManagedService describes, seen through state().                 *)
(*                                                                         *)
(* Abstracted: the work of `exclusive`, which never waits for a lane, is   *)
(* atomic with its caller's step; what preflight, settle and processing    *)
(* slots answer is arbitrary; no configuration field is owned by the       *)
(* command line; a recovery has this modality for its only peer. The marks *)
(* of SupervisorRegistry are only reported.                                *)
(***************************************************************************)
EXTENDS InferenceQueue, AdmissionBarrier

CONSTANTS Configs,         \* configurations an operator may save
          Initial,         \* the configuration the gateway starts with
          MaxDisturbances, \* bound on what disturbs a request: its timeout or abort, an
                           \* edit, a fault, memory pressure, a recovery, the shutdown
          Recoveries,      \* idle recoveries of other modalities, numbered
          MaxChecks        \* MAX_CANCELLATION_SAFEGUARD_CHECKS

ASSUME ReconcilerAssumption ==
    /\ Configs \subseteq [model : Models, selected : SUBSET Models]
    /\ Initial \in Configs /\ Initial.selected # {}
    /\ MaxDisturbances \in Nat /\ MaxChecks \in Nat \ {0}
    /\ Recoveries \subseteq Nat \ {0}

VARIABLES modality,   \* "llm", or a modality that may be off: "image"
          disk,       \* the saved configuration: active and selected models
          snapshot,   \* this.snapshot, with its revision
          applied,    \* appliedSnapshots[modality]
          sup,        \* the registered supervisor: id and model
          made,       \* supervisors created
          life,       \* its state()
          scheduled,  \* reconciliationScheduled
          lane,       \* the tasks of the lane, the head running
          cur,        \* where the head is, and what it has read
          q,          \* the inference queue
          bar,        \* the admission barrier
          model,      \* the model each request asked for
          req,        \* each request: none, waiting, held, done
          aborted,    \* requests whose signal is aborted
          rejected,   \* requests with a cancellationError
          claim,      \* recoveryClaims
          rec,        \* each idle recovery, and the supervisor it claimed
          safeguard,  \* the cancellation safeguard's timer
          reload,     \* the supervisor reloadRestoredModel is about to start
          left        \* disturbances left

config == <<disk, snapshot, applied, scheduled>>
backend == <<sup, made, life>>
requests == <<model, req, aborted, rejected>>
recovery == <<claim, rec>>
vars == <<modality, config, backend, lane, cur, q, bar, requests, recovery, safeguard,
          reload, left>>

NoSup == [id |-> 0, model |-> NoModel]
Tasks == [kind : {"dispatch", "reconcile", "evictAll", "evictIdle", "idleCancel",
                  "safeguard", "claim", "claimKill", "claimRelease"},
          who : Nat, check : 0..MaxChecks]
Task(kind, who) == [kind |-> kind, who |-> who, check |-> 0]
Fresh == [at |-> "begin", target |-> [rev |-> 0, model |-> NoModel, selected |-> {}],
          restore |-> NoModel, previous |-> "none", stop |-> FALSE]
Snapshots == [rev : Nat, model : Models, selected : SUBSET Models]

\* Every variable has its type; a process belongs to a registered supervisor, and
\* reconciliationScheduled says whether the lane holds a reconciliation
\* (scheduleModality).
TypeOK ==
    /\ modality \in {"llm", "image"}
    /\ disk \in [model : Models, selected : SUBSET Models]
    /\ snapshot \in Snapshots /\ applied \in Snapshots
    /\ applied.rev <= snapshot.rev
    /\ sup \in [id : Nat, model : Models \union {NoModel}]
    /\ made \in Nat
    /\ life \in {"idle", "starting", "running", "stopping", "failed"}
    /\ life \in {"starting", "running", "stopping"} => sup # NoSup
    /\ scheduled = \E i \in DOMAIN lane : lane[i].kind = "reconcile"
    /\ lane \in Seq(Tasks)
    /\ cur.at \in {"begin", "preflight", "drain", "update", "stop", "settle", "slots", "kill"}
    /\ lane = <<>> => cur = Fresh
    /\ q \in Queues
    /\ bar \in Barriers(Requests, Nat)
    /\ model \in [Requests -> Models \union {NoModel}]
    /\ req \in [Requests -> {"none", "waiting", "held", "done"}]
    /\ aborted \subseteq Requests /\ rejected \subseteq Requests
    /\ claim \in Recoveries \union {0}
    /\ rec \in [Recoveries -> [at : {"none", "claiming", "claimed", "killing", "releasing",
                                     "done"}, sup : Nat]]
    /\ safeguard \in [sup : Nat, check : 0..MaxChecks]
    /\ reload \in Nat /\ left \in 0..MaxDisturbances

\* configuredRuntimeModality: chat is always configured.
On(c) == modality = "llm" \/ c.selected # {}

\* The snapshot controller.refresh or update returns for the saved config c.
Refreshed(c) ==
    [rev |-> snapshot.rev + (IF c = [model |-> snapshot.model, selected |-> snapshot.selected]
                             THEN 0 ELSE 1),
     model |-> c.model, selected |-> c.selected]

Init ==
    /\ modality \in {"llm", "image"}
    /\ disk = Initial
    /\ snapshot = [rev |-> 0, model |-> disk.model, selected |-> disk.selected]
    /\ applied = snapshot
    /\ sup = [id |-> 1, model |-> disk.model] /\ made = 1 /\ life = "idle"
    /\ scheduled = FALSE /\ lane = <<>> /\ cur = Fresh
    /\ q = EmptyQueue /\ bar = NewBarrier(TRUE)
    /\ model = [r \in Requests |-> NoModel]
    /\ req = [r \in Requests |-> "none"]
    /\ aborted = {} /\ rejected = {}
    /\ claim = 0 /\ rec = [p \in Recoveries |-> [at |-> "none", sup |-> 0]]
    /\ safeguard = [sup |-> 0, check |-> 0] /\ reload = 0
    /\ left = MaxDisturbances

Disturb == left > 0 /\ left' = left - 1

\* One step of several may fail: ok, or a fault.
Outcome(ok) == IF ok THEN UNCHANGED left ELSE Disturb

-----------------------------------------------------------------------------
(* The lane *)

At(kind, at) == lane # <<>> /\ Head(lane).kind = kind /\ cur.at = at
Who == Head(lane).who

\* The head goes on to its next wait, or is over.
Goto(at) == cur' = [cur EXCEPT !.at = at] /\ UNCHANGED lane
Over == cur' = Fresh /\ lane' = Tail(lane)

\* The queue becomes x, pumped; a dispatch enters the lane l.
Pumped(x, l) ==
    /\ q' = Pump(x, model)
    /\ lane' = IF Pumps(x, model) THEN Append(l, Task("dispatch", Head(x.pending))) ELSE l

\* Mutant: a claim outlives the barrier it closed.
AttachOnly(b, s) == bar' = (IF On(s) THEN Attach(b) ELSE PassOver(b)) /\ UNCHANGED claim

\* attachBarrier: invalidates a recovery's claim and reopens the barrier, when
\* the snapshot s configures the modality.
AttachBarrier(b, s) == bar' = (IF On(s) THEN Attach(b) ELSE PassOver(b)) /\ claim' = 0

\* factory.create and supervisors.add, for the snapshot c.
Add(c) ==
    /\ made' = made + 1
    /\ sup' = [id |-> made + 1, model |-> c.model]
    /\ life' = "idle"

\* supervisors.take: its shutdown is the task's next wait.
TakeSup == sup' = NoSup /\ life' = "idle" /\ UNCHANGED made

\* kill() begins: the start it cancels fails the leases that wait for it.
BeginKill(b) ==
    /\ life' = (IF life \in {"starting", "running"} THEN "stopping" ELSE life)
    /\ bar' = ReadySettles(b, "failed")
    /\ UNCHANGED <<sup, made>>

\* kill() returns, or throws and leaves the supervisor failed.
EndKill ==
    \E ok \in BOOLEAN :
        /\ Outcome(ok)
        /\ life' = (IF ok THEN "idle" ELSE "failed")
        /\ UNCHANGED <<sup, made>>

\* drain(): closes the barrier and lets the first waiting lease stop a start.
Drain ==
    /\ \/ /\ DetachTargets(bar) = {}
          /\ bar' = Detach(bar) /\ UNCHANGED life
       \/ \E i \in DetachTargets(bar) :
            LET stops == bar.leases[i].ready = "pending" /\ life = "starting"
                b == [Detach(bar) EXCEPT !.detachInvoked = TRUE,
                                         !.stopped = IF stops THEN bar.leases[i].r ELSE @]
            IN  /\ bar' = (IF stops THEN ReadySettles(b, "failed") ELSE b)
                /\ life' = (IF stops THEN "idle" ELSE life)
    /\ UNCHANGED <<sup, made>>

-----------------------------------------------------------------------------
(* Requests *)

\* scheduleReconciliation's task, when the applied revision is not s's.
Reconciling(s) ==
    IF scheduled \/ applied.rev = s.rev THEN <<>> ELSE <<Task("reconcile", 0)>>

\* coordinate: the saved configuration becomes the snapshot.
Coordinate ==
    /\ snapshot' = Refreshed(disk)
    /\ scheduled' = (scheduled \/ applied.rev # snapshot'.rev)
    /\ UNCHANGED <<disk, applied>>

\* admitModel: coordinate, then queue.
Arrive(r, m) ==
    /\ req[r] = "none" /\ \A x \in Requests : x < r => req[x] # "none"
    /\ Coordinate
    /\ model' = [model EXCEPT ![r] = m]
    /\ LET l == lane \o Reconciling(snapshot')
           x == Enqueue(q, r)
       IN  IF Accepts(q)
           THEN /\ req' = [req EXCEPT ![r] = "waiting"]
                /\ q' = Pump(x, model')
                /\ lane' = IF Pumps(x, model') THEN Append(l, Task("dispatch", Head(x.pending)))
                           ELSE l
           ELSE req' = [req EXCEPT ![r] = "done"] /\ lane' = l /\ UNCHANGED q
    /\ UNCHANGED <<modality, backend, cur, bar, aborted, rejected, recovery, safeguard, reload,
                   left>>

\* refreshConfiguration, after a change made through the gateway. One that finds
\* nothing new does what the coordinate of an arriving request does.
Refresh ==
    /\ Refreshed(disk) # snapshot
    /\ Coordinate
    /\ lane' = lane \o Reconciling(snapshot')
    /\ UNCHANGED <<modality, backend, cur, q, bar, requests, recovery, safeguard, reload, left>>

\* The queue's wait timer, which only a request still pending has.
Timeout(r) ==
    /\ Contains(q.pending, r) /\ Disturb
    /\ Pumped(Withdraw(q, r), lane)
    /\ req' = [req EXCEPT ![r] = "done"] /\ rejected' = rejected \union {r}
    /\ UNCHANGED <<modality, config, backend, cur, bar, model, aborted, recovery, safeguard,
                   reload>>

\* prepare's preserveOnCancel, for the lease of r.
Preserves(r) ==
    /\ modality = "llm" /\ life = "running"
    /\ Lease(bar, r).ready # "pending" /\ bar.stopped # r /\ Lease(bar, r).sup = sup.id

\* The lease of r ends, cancelled or released: what that leaves of the barrier
\* and its timer, and the lane.
End(r, cancel) ==
    LET kills == cancel /\ ~Preserves(r)
    IN  /\ bar' = EndLease(bar, r, kills)
        /\ safeguard' = IF cancel /\ ~kills THEN [sup |-> sup.id, check |-> 1] ELSE safeguard

LaneAfter(r, cancel) ==
    IF QueuesStop(bar, r, cancel /\ ~Preserves(r))
    THEN Append(lane, Task("idleCancel", Lease(bar, r).sup)) ELSE lane

\* Mutant: the permit is given back, and nobody is dispatched in its place.
SettleSilently(r, cancel) ==
    /\ End(r, cancel)
    /\ q' = ReleasePermit(q, r) /\ lane' = LaneAfter(r, cancel)
    /\ req' = [req EXCEPT ![r] = "done"]

\* admitModel's settle: the lease, then the permit.
Settle(r, cancel) ==
    /\ End(r, cancel)
    /\ Pumped(ReleasePermit(q, r), LaneAfter(r, cancel))
    /\ req' = [req EXCEPT ![r] = "done"]

\* proxyWithAdmission: the response has ended, or the backend never was ready.
Finish(r) ==
    /\ req[r] = "held" /\ Lease(bar, r).ready # "pending"
    /\ Settle(r, FALSE)
    /\ UNCHANGED <<modality, config, backend, cur, model, aborted, rejected, recovery, reload,
                   left>>

\* The client leaves: its signal withdraws a waiting request, and cancels the
\* admission of a served one.
Abort(r) ==
    /\ Disturb /\ r \notin aborted /\ aborted' = aborted \union {r}
    /\ \/ /\ req[r] = "waiting"
          /\ Pumped(Withdraw(q, r), lane)
          /\ req' = [req EXCEPT ![r] = "done"] /\ rejected' = rejected \union {r}
          /\ UNCHANGED <<bar, safeguard>>
       \/ req[r] = "held" /\ Settle(r, TRUE) /\ UNCHANGED rejected
       \/ /\ req[r] = "done" /\ q.item = r
          /\ UNCHANGED <<req, q, lane, bar, safeguard, rejected>>
    /\ UNCHANGED <<modality, config, backend, cur, model, recovery, reload>>

\* The slots a dispatch resolves: a supervisor without a plan has none.
ResolvedSlots ==
    IF modality # "llm" THEN {1} ELSE IF life = "running" THEN {Slots} ELSE {1, Slots}

\* pump, once the dispatch it waits for has returned.
Deliver ==
    /\ q.value # "none"
    /\ LET r == q.item
       IN  \/ /\ q.value = "admitted" /\ q.inFlight
             /\ \E s \in ResolvedSlots : Pumped(Permit(q, model, s), lane)
             /\ req' = [req EXCEPT ![r] = "held"]
             /\ UNCHANGED <<bar, safeguard>>
          \/ /\ q.value = "admitted" /\ ~q.inFlight
             /\ End(r, TRUE) /\ Pumped(Drop(q), LaneAfter(r, TRUE))
             /\ UNCHANGED req
          \/ /\ q.value \in {"answered", "error"}
             /\ Pumped(Drop(q), lane)
             /\ req' = [req EXCEPT ![r] = "done"]
             /\ UNCHANGED <<bar, safeguard>>
    /\ UNCHANGED <<modality, config, backend, cur, model, aborted, rejected, recovery, reload,
                   left>>

-----------------------------------------------------------------------------
(* A dispatch: coordinateAdmission and activateModel *)

\* The dispatch returns v, which the pump will see.
Return(v) == Over /\ q' = Returned(q, v)

\* What ensureRunning does to a supervisor in state f: a running one is ready, a
\* failed one stays as it is, any other starts.
Ready(f) == CASE f = "running" -> "ok" [] f = "failed" -> "failed" [] OTHER -> "pending"
Started(f) == IF f \in {"running", "failed"} THEN f ELSE "starting"

\* acquire and prepare, under the snapshot c, from the barrier b and a
\* supervisor s in state f: a lease whose backend is made to run, or nothing.
Admit(r, x, c, b, s, f) ==
    IF On(c) /\ s # NoSup /\ b.accepting
    THEN /\ bar' = Acquire(b, r, s.id, Ready(f))
         /\ life' = Started(f)
         /\ q' = Returned(x, "admitted")
    ELSE /\ bar' = b
         /\ life' = f
         /\ q' = Returned(x, "answered")

\* The lane is the dispatch's: the request may be gone by now.
DispatchBegin ==
    /\ At("dispatch", "begin")
    /\ LET r == Who
           x == Start(q)
       IN  \/ /\ r \in aborted \union rejected
             /\ Return("error") /\ UNCHANGED <<bar, life>>
          \/ /\ r \notin aborted \union rejected
             /\ ~On(snapshot) \/ model[r] \notin snapshot.selected \union {snapshot.model}
             /\ Over /\ q' = Returned(x, "answered") /\ UNCHANGED <<bar, life>>
          \/ /\ r \notin aborted \union rejected
             /\ On(snapshot) /\ model[r] \in snapshot.selected \union {snapshot.model}
             /\ IF model[r] # applied.model
                THEN /\ cur' = [cur EXCEPT !.at = "preflight", !.restore = applied.model]
                     /\ q' = x /\ UNCHANGED <<lane, bar, life>>
                ELSE Over /\ Admit(r, x, applied, bar, sup, life)
    /\ UNCHANGED <<modality, config, sup, made, requests, recovery, safeguard, reload, left>>

\* assertSwitchFits: aborted by the client or an emergency, rejected, or not.
SwitchPreflight ==
    /\ At("dispatch", "preflight")
    /\ \/ (cur.stop \/ Who \in aborted) /\ Return("error") /\ UNCHANGED <<bar, backend>>
       \/ ~(cur.stop \/ Who \in aborted) /\ Return("answered") /\ UNCHANGED <<bar, backend>>
       \/ ~(cur.stop \/ Who \in aborted) /\ Drain /\ Goto("drain") /\ UNCHANGED q
    /\ UNCHANGED <<modality, config, requests, recovery, safeguard, reload, left>>

\* The barrier is idle. An aborted request reopens it; one the queue has
\* rejected leaves it to the task that rejected it.
SwitchDrained ==
    /\ At("dispatch", "drain") /\ Idle(bar)
    /\ \/ Who \in aborted /\ AttachBarrier(bar, snapshot) /\ Return("error")
       \/ Who \in rejected \ aborted /\ Return("error") /\ UNCHANGED <<bar, claim>>
       \/ Who \notin aborted \union rejected /\ Goto("update") /\ UNCHANGED <<q, bar, claim>>
    /\ UNCHANGED <<modality, config, backend, requests, rec, safeguard, reload, left>>

\* controller.update of the active model. It is not made for a request that is
\* gone or a model no longer selected, it may fail, and the request may go
\* while it is made: each time the barrier reopens. Otherwise the previous
\* supervisor is taken and its shutdown begins.
SwitchCommit ==
    /\ At("dispatch", "update")
    /\ LET c == [disk EXCEPT !.model = model[Who]]
           refused == Who \notin rejected /\ model[Who] \notin disk.selected
       IN  \/ /\ refused \/ Who \in rejected
             /\ Return(IF refused THEN "answered" ELSE "error")
             /\ AttachBarrier(bar, snapshot) /\ UNCHANGED <<disk, snapshot, backend, left>>
          \/ /\ ~refused /\ Disturb
             /\ AttachBarrier(bar, snapshot) /\ Return("error") /\ UNCHANGED <<disk, snapshot, backend>>
          \/ /\ model[Who] \in disk.selected
             /\ disk' = c /\ snapshot' = Refreshed(c)
             /\ IF Who \in rejected
                THEN AttachBarrier(bar, snapshot') /\ Return("error") /\ UNCHANGED backend
                ELSE /\ TakeSup
                     /\ cur' = [cur EXCEPT !.at = "stop", !.target = snapshot',
                           !.previous = IF sup = NoSup THEN "none"
                                        ELSE IF life = "running" THEN "running" ELSE "stopped"]
                     /\ UNCHANGED <<lane, q, bar, claim>>
             /\ UNCHANGED left
    /\ UNCHANGED <<modality, applied, scheduled, requests, rec, safeguard, reload>>

\* The previous supervisor's shutdown returns, or throws: an unfinished switch
\* leaves no supervisor and a closed barrier.
SwitchStopped ==
    /\ At("dispatch", "stop")
    /\ \/ /\ UNCHANGED left
          /\ IF Who \in rejected THEN Return("error") ELSE Goto("settle") /\ UNCHANGED q
       \/ Disturb /\ Return("error")
    /\ UNCHANGED <<modality, config, backend, bar, requests, recovery, safeguard, reload>>

\* rollBackRejectedSwitch applies: the configuration has not moved on.
CanRollBack ==
    /\ cur.previous # "none" /\ cur.restore # model[Who]
    /\ disk.model = model[Who] /\ cur.restore \in disk.selected

\* Mutant: a rollback restores the configuration, not the barrier.
RollBackClosed ==
    /\ disk' = [disk EXCEPT !.model = cur.restore]
    /\ snapshot' = Refreshed(disk') /\ applied' = snapshot'
    /\ Add(snapshot') /\ UNCHANGED <<bar, claim>>
    /\ reload' = IF cur.previous = "running" THEN made' ELSE reload
    /\ Return("answered")

RollBack ==
    /\ disk' = [disk EXCEPT !.model = cur.restore]
    /\ snapshot' = Refreshed(disk') /\ applied' = snapshot'
    /\ Add(snapshot') /\ AttachBarrier(bar, snapshot')
    /\ reload' = IF cur.previous = "running" THEN made' ELSE reload
    /\ Return("answered")

\* The target is added and the request admitted to it.
Activate ==
    LET s == [id |-> made + 1, model |-> cur.target.model]
        b == IF On(snapshot) THEN Attach(bar) ELSE PassOver(bar)
    IN  /\ sup' = s /\ made' = made + 1
        /\ applied' = cur.target /\ claim' = 0
        /\ Admit(Who, q, cur.target, b, s, "idle")
        /\ Over /\ UNCHANGED <<disk, snapshot, reload>>

\* settleAdmissionAfterEviction: aborted, rejected for good, or settled.
SwitchSettled ==
    /\ At("dispatch", "settle")
    /\ \/ /\ Who \in aborted \union rejected /\ Return("error")
          /\ UNCHANGED <<disk, snapshot, applied, backend, bar, claim, reload>>
       \/ Who \notin aborted /\ CanRollBack /\ RollBack
       \/ Who \notin aborted \union rejected /\ Activate
    /\ UNCHANGED <<modality, scheduled, requests, rec, safeguard, left>>

\* reloadRestoredModel, once memory has settled: the model is started unless
\* somebody else has been at it, or it is given up.
Reload ==
    /\ reload # 0 /\ reload' = 0
    /\ \/ reload = sup.id /\ life = "idle" /\ life' = "starting"
       \/ UNCHANGED life
    /\ UNCHANGED <<modality, config, sup, made, lane, cur, q, bar, requests, recovery, safeguard,
                   left>>

-----------------------------------------------------------------------------
(* Reconciliation: scheduleModality, reconcileModality and applyModality *)

\* createRuntimeReconciliationPlan, from the applied snapshot to the target.
PlanAction(source, target) ==
    CASE ~On(source) /\ On(target) -> "add"
      [] On(source) /\ ~On(target) -> "drain-and-remove"
      [] On(source) /\ On(target) /\ source.model # target.model -> "drain-and-replace"
      [] OTHER -> "unchanged"

\* Mutant: the task never gives up the right to be scheduled.
ReconcileOverScheduled == Over /\ UNCHANGED scheduled

\* The loop ends: nothing to apply, or what was to be applied failed.
ReconcileOver == Over /\ scheduled' = FALSE

\* applyModality's drain; a removal first rejects what is queued.
DrainFor(target) ==
    /\ Drain
    /\ IF On(target) THEN UNCHANGED <<q, req, rejected>>
       ELSE /\ q' = RejectPending(q)
            /\ req' = [r \in Requests |-> IF r \in Rejectable(q) THEN "done" ELSE req[r]]
            /\ rejected' = rejected \union Rejectable(q)

\* One round of the loop, to its first wait.
ReconcileBegin ==
    /\ At("reconcile", "begin")
    /\ LET action == PlanAction(applied, snapshot)
           adds == sup = NoSup /\ On(snapshot)
       IN  \/ /\ applied.rev = snapshot.rev
             /\ ReconcileOver
             /\ UNCHANGED <<applied, backend, bar, claim, q, req, rejected>>
          \/ /\ applied.rev # snapshot.rev /\ action = "unchanged"
             /\ IF adds THEN Add(snapshot) /\ AttachBarrier(bar, snapshot)
                ELSE UNCHANGED <<backend, bar, claim>>
             /\ applied' = snapshot
             /\ UNCHANGED <<scheduled, lane, cur, q, req, rejected>>
          \/ /\ applied.rev # snapshot.rev /\ action = "add"
             /\ IF adds
                THEN /\ Add(snapshot) /\ AttachBarrier(bar, snapshot) /\ applied' = snapshot
                     /\ UNCHANGED <<scheduled, lane, cur>>
                ELSE ReconcileOver /\ UNCHANGED <<applied, backend, bar, claim>>
             /\ UNCHANGED <<q, req, rejected>>
          \/ /\ applied.rev # snapshot.rev /\ action = "drain-and-replace" /\ sup # NoSup
             /\ cur' = [cur EXCEPT !.at = "preflight", !.target = snapshot]
             /\ UNCHANGED <<applied, scheduled, backend, bar, claim, lane, q, req, rejected>>
          \/ /\ applied.rev # snapshot.rev
             /\ action = "drain-and-remove" \/ (action = "drain-and-replace" /\ sup = NoSup)
             /\ DrainFor(snapshot)
             /\ cur' = [cur EXCEPT !.at = "drain", !.target = snapshot]
             /\ UNCHANGED <<applied, scheduled, claim, lane>>
    /\ UNCHANGED <<modality, disk, snapshot, model, aborted, rec, safeguard, reload, left>>

\* assertSwitchFits: an emergency's abort or a rejection ends the round.
ReconcilePreflight ==
    /\ At("reconcile", "preflight")
    /\ \/ ReconcileOver /\ UNCHANGED <<bar, backend>>
       \/ ~cur.stop /\ Drain /\ Goto("drain") /\ UNCHANGED scheduled
    /\ UNCHANGED <<modality, disk, snapshot, applied, q, requests, recovery, safeguard, reload, left>>

\* Mutant: the supervisor is taken while requests still run on it.
ReconcileDrainedEarly ==
    /\ At("reconcile", "drain")
    /\ TakeSup /\ Goto("stop")
    /\ UNCHANGED <<modality, config, q, bar, requests, recovery, safeguard, reload, left>>

\* Nobody is served any more: the supervisor is taken and its shutdown begins.
ReconcileDrained ==
    /\ At("reconcile", "drain") /\ Idle(bar)
    /\ TakeSup /\ Goto("stop")
    /\ UNCHANGED <<modality, config, q, bar, requests, recovery, safeguard, reload, left>>

\* The shutdown throws: no supervisor is left, for the next round to add one.
ReconcileStopped ==
    /\ At("reconcile", "stop")
    /\ \/ /\ Disturb /\ ReconcileOver
          /\ UNCHANGED <<applied, backend, bar, claim>>
       \/ /\ IF On(cur.target) THEN Add(cur.target) /\ AttachBarrier(bar, snapshot)
             ELSE UNCHANGED <<backend, bar, claim>>
          /\ applied' = cur.target
          /\ cur' = Fresh
          /\ UNCHANGED <<scheduled, lane, left>>
    /\ UNCHANGED <<modality, disk, snapshot, q, requests, rec, safeguard, reload>>

-----------------------------------------------------------------------------
(* Evictions, cancellations and the safeguard *)

\* evictAllRuntimes, called: it stops a preflight, rejects what is queued or
\* being dispatched, and waits for the lane.
Emergency ==
    /\ Disturb
    /\ cur' = [cur EXCEPT !.stop = @ \/ cur.at = "preflight"]
    /\ q' = RejectPending(q)
    /\ req' = [r \in Requests |-> IF r \in Rejectable(q) THEN "done" ELSE req[r]]
    /\ rejected' = rejected \union Rejectable(q)
    /\ lane' = Append(lane, Task("evictAll", 0))
    /\ UNCHANGED <<modality, config, backend, bar, model, aborted, recovery, safeguard, reload>>

\* evictIdleRuntimes, called.
Pressure ==
    /\ Disturb
    /\ lane' = Append(lane, Task("evictIdle", 0))
    /\ UNCHANGED <<modality, config, backend, cur, q, bar, requests, recovery, safeguard, reload>>

\* closeQueues, as the gateway shuts down.
CloseQueue ==
    /\ ~q.closed /\ Disturb
    /\ q' = Close(q)
    /\ req' = [r \in Requests |-> IF r \in Rejectable(q) THEN "done" ELSE req[r]]
    /\ rejected' = rejected \union Rejectable(q)
    /\ UNCHANGED <<modality, config, backend, lane, cur, bar, model, aborted, recovery, safeguard,
                   reload>>

\* The backend is killed under its leases, which are then awaited.
EvictAllBegin ==
    /\ At("evictAll", "begin")
    /\ IF sup = NoSup THEN Over /\ UNCHANGED <<backend, bar>>
       ELSE BeginKill(Detach(bar)) /\ Goto("kill")
    /\ UNCHANGED <<modality, config, q, requests, recovery, safeguard, reload, left>>

EvictAllKilled ==
    /\ At("evictAll", "kill")
    /\ EndKill /\ Goto("drain")
    /\ UNCHANGED <<modality, config, q, bar, requests, recovery, safeguard, reload>>

\* Mutant: the eviction also waits for the queue, whose dispatch waits for the lane.
EvictAllAnswered ==
    /\ At("evictAll", "drain") /\ Idle(bar) /\ q.item = NoRequest
    /\ AttachBarrier(bar, snapshot) /\ Over
    /\ UNCHANGED <<modality, config, backend, q, requests, rec, safeguard, reload, left>>

EvictAllDrained ==
    /\ At("evictAll", "drain") /\ Idle(bar)
    /\ AttachBarrier(bar, snapshot) /\ Over
    /\ UNCHANGED <<modality, config, backend, q, requests, rec, safeguard, reload, left>>

EvictIdleBegin ==
    /\ At("evictIdle", "begin")
    /\ IF life = "running" /\ MayDetach(bar)
       THEN BeginKill(Detach(bar)) /\ Goto("kill")
       ELSE Over /\ UNCHANGED <<backend, bar>>
    /\ UNCHANGED <<modality, config, q, requests, recovery, safeguard, reload, left>>

EvictIdleKilled ==
    /\ At("evictIdle", "kill")
    /\ EndKill /\ AttachBarrier(bar, snapshot) /\ Over
    /\ UNCHANGED <<modality, config, q, requests, rec, safeguard, reload>>

\* The stop a cancelled lease has queued, of the supervisor it was on.
Reopen == IF sup.id = Who THEN AttachBarrier(bar, snapshot) ELSE UNCHANGED <<bar, claim>>

IdleCancelBegin ==
    /\ At("idleCancel", "begin")
    /\ IF sup.id = Who /\ life \in {"starting", "running"}
       THEN BeginKill(bar) /\ Goto("kill") /\ UNCHANGED claim
       ELSE Reopen /\ Over /\ UNCHANGED backend
    /\ UNCHANGED <<modality, config, q, requests, rec, safeguard, reload, left>>

IdleCancelKilled ==
    /\ At("idleCancel", "kill")
    /\ EndKill /\ Reopen /\ Over
    /\ UNCHANGED <<modality, config, q, requests, rec, safeguard, reload>>

\* scheduleCancellationSafeguard's timer fires.
SafeguardTimer ==
    /\ safeguard.sup # 0
    /\ safeguard' = [sup |-> 0, check |-> 0]
    /\ lane' = Append(lane, [Task("safeguard", safeguard.sup) EXCEPT !.check = safeguard.check])
    /\ UNCHANGED <<modality, config, backend, cur, q, bar, requests, recovery, reload, left>>

\* The check asks a running backend how many slots it is processing,
SafeguardBegin ==
    /\ At("safeguard", "begin")
    /\ IF sup.id = Who /\ life = "running" THEN Goto("slots") ELSE Over
    /\ UNCHANGED <<modality, config, backend, q, bar, requests, recovery, safeguard, reload,
                   left>>

\* and is told, whatever has become of the backend. If these are more than are
\* admitted it is stopped unless somebody is served; then it is looked at again.
SafeguardSlots ==
    /\ At("safeguard", "slots")
    /\ \/ Over /\ UNCHANGED <<backend, bar, safeguard>>
       \/ /\ MayDetach(bar)
          /\ BeginKill(Detach(bar)) /\ Goto("kill") /\ UNCHANGED safeguard
       \/ /\ ~MayDetach(bar) /\ Head(lane).check < MaxChecks
          /\ safeguard' = [sup |-> Who, check |-> Head(lane).check + 1]
          /\ Over /\ UNCHANGED <<backend, bar>>
    /\ UNCHANGED <<modality, config, q, requests, recovery, reload, left>>

SafeguardKilled ==
    /\ At("safeguard", "kill")
    /\ EndKill /\ Reopen /\ Over
    /\ UNCHANGED <<modality, config, q, requests, rec, safeguard, reload>>

-----------------------------------------------------------------------------
(* recoverWithIdleEviction of another modality, with this one as its peer *)

RecoverIs(p, at) == rec' = [rec EXCEPT ![p].at = at]

\* recoveryClaimIsCurrent, and the supervisor claimed is the registered one.
ClaimHolds(p) == claim = p /\ sup.id = rec[p].sup /\ life = "running"

\* The finally clause: gives the claim up and queues the release. The lane
\* without the recovery's own task is l.
GiveUp(p, l) ==
    /\ claim' = IF claim = p THEN 0 ELSE claim
    /\ lane' = Append(l, Task("claimRelease", p))
    /\ RecoverIs(p, "releasing")

Recover(p) ==
    /\ rec[p].at = "none" /\ Disturb
    /\ RecoverIs(p, "claiming")
    /\ lane' = Append(lane, Task("claim", p))
    /\ UNCHANGED <<modality, config, backend, cur, q, bar, requests, claim, safeguard, reload>>

\* The peer is claimed if it runs and is idle; an aborted recovery claims nothing.
Claim ==
    /\ At("claim", "begin") /\ Over
    /\ \/ /\ life = "running" /\ MayDetach(bar)
          /\ bar' = Detach(bar) /\ claim' = Who
          /\ rec' = [rec EXCEPT ![Who] = [at |-> "claimed", sup |-> sup.id]]
       \/ RecoverIs(Who, "done") /\ UNCHANGED <<bar, claim>>
    /\ UNCHANGED <<modality, config, backend, q, requests, safeguard, reload, left>>

\* Whether the request would fit is known: the claimed peers are stopped if so
\* and if every claim still holds. The recovery may be aborted at any time.
Project(p) ==
    /\ rec[p].at = "claimed"
    /\ \/ /\ ClaimHolds(p)
          /\ RecoverIs(p, "killing") /\ lane' = Append(lane, Task("claimKill", p))
          /\ UNCHANGED claim
       \/ GiveUp(p, lane)
    /\ UNCHANGED <<modality, config, backend, cur, q, bar, requests, safeguard, reload, left>>

RecoverAborted(p) ==
    /\ rec[p].at = "killing" /\ Disturb /\ GiveUp(p, lane)
    /\ UNCHANGED <<modality, config, backend, cur, q, bar, requests, safeguard, reload>>

ClaimKillBegin ==
    /\ At("claimKill", "begin")
    /\ IF rec[Who].at = "killing" /\ ClaimHolds(Who) /\ Idle(bar) /\ ~bar.accepting
       THEN BeginKill(bar) /\ Goto("kill") /\ UNCHANGED recovery
       ELSE /\ IF rec[Who].at = "killing" THEN GiveUp(Who, Tail(lane))
               ELSE lane' = Tail(lane) /\ UNCHANGED recovery
            /\ cur' = Fresh /\ UNCHANGED <<backend, bar>>
    /\ UNCHANGED <<modality, config, q, requests, safeguard, reload, left>>

ClaimKilled ==
    /\ At("claimKill", "kill")
    /\ EndKill /\ cur' = Fresh
    /\ IF rec[Who].at = "killing" THEN GiveUp(Who, Tail(lane))
       ELSE lane' = Tail(lane) /\ UNCHANGED recovery
    /\ UNCHANGED <<modality, config, q, bar, requests, safeguard, reload>>

\* The barrier reopens, unless another recovery has claimed it since.
ClaimRelease ==
    /\ At("claimRelease", "begin") /\ Over
    /\ IF claim # 0 THEN UNCHANGED <<bar, claim>> ELSE AttachBarrier(bar, snapshot)
    /\ RecoverIs(Who, "done")
    /\ UNCHANGED <<modality, config, backend, q, requests, safeguard, reload, left>>

-----------------------------------------------------------------------------
(* The backend and the operator *)

\* The start ends well: its leases are ready and the queue learns the slots.
BackendUp ==
    /\ life = "starting" /\ life' = "running"
    /\ bar' = ReadySettles(bar, "ok")
    /\ LET waits == {r \in q.active : Lease(bar, r).ready = "pending"}
           s == IF modality = "llm" THEN Slots ELSE 1
       IN  IF waits = {} THEN UNCHANGED <<q, lane>>
           ELSE Pumped(ResolveSlots(q, model[CHOOSE r \in waits : TRUE], s), lane)
    /\ UNCHANGED <<modality, config, sup, made, cur, requests, recovery, safeguard, reload, left>>

\* The start fails, or memory refuses it, which leaves the supervisor idle.
BackendFails ==
    /\ life = "starting" /\ life' \in {"idle", "failed"}
    /\ bar' = ReadySettles(bar, "failed")
    /\ UNCHANGED <<modality, config, sup, made, lane, cur, q, requests, recovery, safeguard,
                   reload, left>>

\* handleCrash: a backend that has exited unasked starts again by itself, under
\* the leases it served and the claim it was under.
BackendCrash ==
    /\ life = "running" /\ life' = "starting"
    /\ Disturb
    /\ UNCHANGED <<modality, config, sup, made, lane, cur, q, bar, requests, recovery, safeguard,
                   reload>>

\* Another process saves a configuration.
Edit ==
    /\ Disturb
    /\ disk' \in Configs \ {disk}
    /\ UNCHANGED <<modality, snapshot, applied, scheduled, backend, lane, cur, q, bar, requests,
                   recovery, safeguard, reload>>

-----------------------------------------------------------------------------
\* What the event loop runs before the next event: the pump's return, a task
\* that has got the lane, a drain that is over.
Continues ==
    \/ Deliver \/ DispatchBegin \/ ReconcileBegin \/ EvictAllBegin \/ EvictIdleBegin
    \/ IdleCancelBegin \/ SafeguardBegin \/ Claim \/ ClaimKillBegin \/ ClaimRelease
    \/ SwitchDrained \/ ReconcileDrained \/ EvictAllDrained

Quiet ==
    /\ q.value = "none"
    /\ lane # <<>> => cur.at # "begin" /\ ~(cur.at = "drain" /\ Idle(bar))

\* The head's wait is over: an answer, a stop, a commit.
LaneEvent ==
    \/ SwitchPreflight \/ SwitchCommit \/ SwitchStopped \/ SwitchSettled
    \/ ReconcilePreflight \/ ReconcileStopped
    \/ EvictAllKilled \/ EvictIdleKilled \/ IdleCancelKilled \/ SafeguardKilled \/ ClaimKilled
    \/ SafeguardSlots

\* What happens whoever asks for it: the code's own steps and timers, the
\* backend's start, and the end of every response.
Progress ==
    \/ Continues
    \/ \E r \in Requests : Finish(r)
    \/ Quiet /\ LaneEvent
    \/ Quiet /\ (SafeguardTimer \/ Reload \/ BackendUp \/ BackendFails)
    \/ Quiet /\ \E p \in Recoveries : Project(p)

\* An emergency is declared by a continuation, and may come between two others.
Next ==
    \/ Progress
    \/ Emergency
    \/ Quiet /\ \E r \in Requests : (\E m \in Models : Arrive(r, m)) \/ Timeout(r) \/ Abort(r)
    \/ Quiet /\ (Refresh \/ Edit \/ Pressure \/ CloseQueue \/ BackendCrash)
    \/ Quiet /\ \E p \in Recoveries : Recover(p) \/ RecoverAborted(p)

Spec == Init /\ [][Next]_vars /\ WF_vars(Progress)

-----------------------------------------------------------------------------
(* Properties *)

\* A lease keeps its backend: the supervisor a request was admitted to stays
\* registered until the lease ends, and serves the model the request asked for,
\* whatever switch, replacement or rollback is under way (activateModel,
\* applyModality, coordinateAdmission). Permits and leases go together, but for
\* a dispatch admitted and not yet delivered, and the permits out are for one
\* model and within its slots (admitModel's settle, the queue's pump).
LeaseKeepsItsModel ==
    /\ \A i \in DOMAIN bar.leases :
            bar.leases[i].sup = sup.id /\ sup.model = model[bar.leases[i].r]
    /\ {bar.leases[i].r : i \in DOMAIN bar.leases}
          = q.active \union (IF q.value = "admitted" THEN {q.item} ELSE {})
    /\ q.active = {r \in Requests : req[r] = "held"}
    /\ \A r \in q.active : model[r] = q.activeModel
    /\ Cardinality(q.active) <= Slots

\* While a recovery's claim is current, the claimed peer serves nobody and
\* admits nobody (recoverWithIdleEviction, attachBarrier).
ClaimedMeansClosed == claim # 0 => ~bar.accepting /\ Idle(bar)

\* Admission is not closed for good: with no task left that could reopen the
\* barrier, it is open, or no supervisor is registered and the applied revision
\* is behind, so that the next coordinate adds one. Not so for a barrier that
\* attachBarrier passed over while the modality was off: a configuration that
\* comes back unchanged leaves it closed. A queue closed by the gateway's
\* shutdown needs no barrier.
NeverStranded ==
    /\ lane = <<>> /\ On(snapshot) /\ ~q.closed
    /\ \A p \in Recoveries : rec[p].at \in {"none", "claiming", "done"}
    => IF sup = NoSup THEN applied.rev # snapshot.rev ELSE bar.accepting \/ bar.passedOver

\* Admission returns. NeverStranded says what holds when nothing is under way;
\* this, that it comes to that: whatever closed the barrier, in whatever order
\* the evictions, switches, checks and cancelled leases had the lane, and
\* however a recovery ended (its claim refused, void, aborted, its kill failed),
\* the barrier is open time and again (recoverWithIdleEviction's finally, the
\* other tasks' attachBarrier). The exemptions are those of NeverStranded.
AdmissionReturns ==
    []<>(\/ bar.accepting \/ bar.passedOver \/ q.closed \/ ~On(snapshot)
         \/ sup = NoSup /\ applied.rev # snapshot.rev)

\* Every request is answered, and needs no wait timer for it: the pump misses
\* no wake-up, every task of the lane ends and every drain is over in the end,
\* so that whoever waits is admitted, refused or rejected. Requests are
\* finitely many, so this is that time and again nobody waits.
RequestsAnswered == []<>(\A r \in Requests : req[r] # "waiting")
=============================================================================
