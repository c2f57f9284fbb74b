----------------------------- MODULE LlmRuntime -----------------------------
(***************************************************************************)
(* The chat runtime of go/internal/runtime: one llama-server behind a FIFO *)
(* queue (llm.go, llm_queue.go, waitqueue.go), the goroutine that switches *)
(* models (llm_switch.go, llm_backend.go), and everyone who may stop the   *)
(* backend under it: an explicit unload, idle recovery, a memory           *)
(* emergency, a crash and Close (unload.go, recovery.go).                  *)
(*                                                                         *)
(* One action is one critical section of m.mu, with the pump the code runs *)
(* before it unlocks.  Whether memory admits a start is external here: it  *)
(* is MemoryController's subject.                                          *)
(***************************************************************************)
EXTENDS Integers, Sequences, FiniteSets

CONSTANTS Requests,      \* the clients of the gateway
          Targets,       \* [model, key]: a model and its backend selection
          NoTarget,
          Unloaders,     \* concurrent explicit unloads
          Slots,         \* plan.Parallel.Slots
          QueueCapacity, \* d.QueueCapacity
          MaxBackends,   \* bound: backends that are remembered at a time
          MaxCrashes,    \* bound: processes that exit on their own
          Events         \* which disturbances this instance has

NoModel == "none"

EventKinds == {"cancel", "timeout", "refuse", "unload", "evict", "emergency",
               "stoploads", "close"}

ASSUME ConstantsAssumption ==
    /\ IsFiniteSet(Requests) /\ IsFiniteSet(Unloaders)
    /\ \A t \in Targets : t = [model |-> t.model, key |-> t.key] /\ t.model # NoModel
    /\ NoTarget \notin Targets
    /\ Slots \in Nat \ {0} /\ QueueCapacity \in Nat \ {0}
    /\ MaxBackends \in Nat \ {0} /\ MaxCrashes \in Nat
    /\ Events \subseteq EventKinds

VARIABLES cur,       \* m.cur
          active,    \* m.active
          queue,     \* m.queue, the requests in it
          req,       \* each request: its state, target and lease
          sw,        \* the switch goroutine; m.starting is sw # NoSwitch
          back,      \* the backends: process, stopOnce and watcher
          ledger,    \* external: the backend that holds the "llm" reservation
          claimed,   \* m.claimed
          claimer,   \* idle recovery or the pressure monitor's eviction
          unloading, \* m.unloading
          unloaders, \* m.unloaders
          unl,       \* each explicit unload
          emergency, \* the pressure monitor's EmergencyStop
          stopping,  \* m.stopping
          closer,    \* Close: how far it is; m.closed is pc # "open"
          crashes

pumped == <<queue, active, req, sw>>
holdVars == <<claimed, claimer, unloading, unloaders, unl>>
endVars == <<emergency, stopping, closer>>
vars == <<cur, pumped, back, ledger, holdVars, endVars, crashes>>
-----------------------------------------------------------------------------
Backends == 1..MaxBackends
NoBackend == 0

Out == [st |-> "out", tgt |-> NoTarget, lease |-> NoBackend, dispatching |-> FALSE]

Unused == [tgt |-> NoTarget, proc |-> "none", once |-> "no", watch |-> "off"]

NoSwitch == [step |-> "none", tgt |-> NoTarget, prev |-> NoBackend, from |-> NoTarget,
             new |-> NoBackend, restoring |-> FALSE, cancelled |-> FALSE,
             retried |-> FALSE, err |-> "none"]

NewSwitch(t) == [NoSwitch EXCEPT !.step = "check", !.tgt = t]

\* A stop in steps: where its goroutine is, and the backend it waits for.
AtRest(pc) == [pc |-> pc, b |-> NoBackend]

closed == closer.pc # "open"

\* Mutant: the switch in flight goes on.
NotCancelled(s) == s

\* cancelSwitch(cause): the switch in flight, if any, is ended.
Cancelled(s) == IF s = NoSwitch THEN s ELSE [s EXCEPT !.cancelled = TRUE]

\* The requests that are gone from the queue get an error (fail).
Refuse(rq, gone) == [r \in Requests |-> IF r \in gone THEN Out ELSE rq[r]]
Members(q) == {q[i] : i \in DOMAIN q}

\* What is left of q, in its order.
Without(q, gone) ==
    LET kept   == {i \in DOMAIN q : q[i] \notin gone}
        nth(k) == CHOOSE i \in kept : Cardinality({j \in kept : j <= i}) = k
    IN  [k \in 1..Cardinality(kept) |-> q[nth(k)]]

\* Mutant: b.stop is not closed, so the watcher waits on.
DetachKeepsWatcher(b) ==
    /\ cur' = IF cur = b THEN NoBackend ELSE cur
    /\ back' = [back EXCEPT ![b].once = IF @ = "no" THEN "running" ELSE @]

\* stopBackend up to its stopOnce: the backend is no longer current, whoever comes first
\* ends it, and close(b.stop) ends its watcher.  FinishStop is the rest.
Detach(b) ==
    /\ cur' = IF cur = b THEN NoBackend ELSE cur
    /\ back' = [back EXCEPT ![b].once = IF @ = "no" THEN "running" ELSE @,
                            ![b].watch = IF @ = "on" THEN "off" ELSE @]

Live(b) == back[b].proc \in {"loading", "up"}
-----------------------------------------------------------------------------
\* Mutant: one lease too many.
FullOffByOne(n) == n > Slots + 1

\* n leases are more than the plan has slots.
Full(n) == n > Slots

\* Mutant: a switch does not wait for the leases that are out.
DrainSkipped(users) == TRUE

\* The current model is drained.
Drained(users) == users = 0

(***************************************************************************)
(* pump, on the queue q, active count a and requests rq that the critical  *)
(* section leaves, with backend c current and switch s in flight.  It      *)
(* answers the first n requests (a lease for those that match c, an error  *)
(* for the others once the gateway is stopping), up to the first one that  *)
(* must wait, and starts a switch when that one needs another model and    *)
(* nobody is using this one.                                               *)
(***************************************************************************)
Pump(q, a, rq, c, s, held, stops) ==
    IF held \/ s # NoSwitch
    THEN /\ queue' = q /\ active' = a /\ req' = rq /\ sw' = s
    ELSE \E n \in 0..Len(q) :
         LET Matches(i) == c # NoBackend /\ back[c].tgt = rq[q[i]].tgt
             Waits(i)   == IF Matches(i)
                           THEN Full(a + Cardinality({j \in 1..i : Matches(j)}))
                           ELSE ~stops
             granted    == {q[i] : i \in {j \in 1..n : Matches(j)}}
             refused    == {q[i] : i \in {j \in 1..n : ~Matches(j)}}
             users      == a + Cardinality(granted)
             switches   == n < Len(q) /\ ~Matches(n + 1) /\ Drained(users)
         IN  /\ \A i \in 1..n : ~Waits(i)
             /\ n < Len(q) => Waits(n + 1)
             /\ queue' = SubSeq(q, n + 1, Len(q))
             /\ active' = users
             /\ req' = [r \in Requests |->
                   IF r \in granted
                     THEN [rq[r] EXCEPT !.st = "granted", !.lease = c]
                   ELSE IF r \in refused THEN Out
                   ELSE IF switches /\ r = q[n + 1]
                     THEN [rq[r] EXCEPT !.dispatching = TRUE]
                   ELSE rq[r]]
             /\ sw' = IF switches THEN NewSwitch(rq[q[n + 1]].tgt) ELSE s

\* What holds pump back, beside a switch in flight.
Held == claimed \/ closed \/ unloading # NoModel

Init ==
    /\ cur = NoBackend /\ active = 0 /\ queue = <<>>
    /\ req = [r \in Requests |-> Out]
    /\ sw = NoSwitch
    /\ back = [b \in Backends |-> Unused]
    /\ ledger = NoBackend
    /\ claimed = FALSE /\ claimer = AtRest("idle")
    /\ unloading = NoModel /\ unloaders = 0
    /\ unl = [u \in Unloaders |-> AtRest("idle")]
    /\ emergency = AtRest("idle") /\ stopping = FALSE /\ closer = AtRest("open")
    /\ crashes = 0
-----------------------------------------------------------------------------
(* Requests: Acquire, waitQueue.wait and Lease.Release *)

\* Acquire; its three refusals (closed, unloading, queue full) change nothing.
Acquire(r, t) ==
    /\ req[r] = Out
    /\ ~closed /\ unloading # t.model /\ Len(queue) < QueueCapacity
    /\ Pump(Append(queue, r), active,
            [req EXCEPT ![r] = [Out EXCEPT !.st = "queued", !.tgt = t]],
            cur, sw, Held, stopping)
    /\ UNCHANGED <<cur, back, ledger, holdVars, endVars, crashes>>

\* The request receives its lease from w.ready.
Receive(r) ==
    /\ req[r].st = "granted"
    /\ req' = [req EXCEPT ![r].st = "holding"]
    /\ UNCHANGED <<cur, active, queue, sw, back, ledger, holdVars, endVars, crashes>>

\* Lease.Release.
Release(r) ==
    /\ req[r].st = "holding"
    /\ Pump(queue, active - 1, [req EXCEPT ![r] = Out], cur, sw, Held, stopping)
    /\ UNCHANGED <<cur, back, ledger, holdVars, endVars, crashes>>

\* Mutant: a lease that was granted to a client that went away is not given back.
CancelKeepsLease(r) ==
    /\ "cancel" \in Events /\ req[r].st \in {"queued", "granted"}
    /\ Pump(Without(queue, {r}), active, [req EXCEPT ![r] = Out], cur, sw, Held, stopping)
    /\ UNCHANGED <<cur, back, ledger, holdVars, endVars, crashes>>

\* The client goes away: a queued request leaves the queue; one that was already granted
\* pumps, then gives its lease back (Release, in a critical section of its own).
Cancel(r) ==
    /\ "cancel" \in Events /\ req[r].st \in {"queued", "granted"}
    /\ Pump(Without(queue, {r}), active,
            [req EXCEPT ![r] = IF @.st = "granted" THEN [@ EXCEPT !.st = "holding"]
                               ELSE Out],
            cur, sw, Held, stopping)
    /\ UNCHANGED <<cur, back, ledger, holdVars, endVars, crashes>>

\* The queue deadline, which no longer applies to a request whose own start is running.
Timeout(r) ==
    /\ "timeout" \in Events /\ req[r].st = "queued" /\ ~req[r].dispatching
    /\ Pump(Without(queue, {r}), active, [req EXCEPT ![r] = Out], cur, sw, Held, stopping)
    /\ UNCHANGED <<cur, back, ledger, holdVars, endVars, crashes>>
-----------------------------------------------------------------------------
(* The switch goroutine: doSwitch, startBackend, install, restore *)
SwitchOnly == UNCHANGED <<active, queue, req, holdVars, endVars, crashes>>

\* The attempt ends with e; a restore in progress keeps the error that caused it.
Tried(s, e) == [s EXCEPT !.step = "tried", !.err = IF s.restoring THEN s.err ELSE e]

\* Install check, gate, plan and placement may fail; then prev := m.cur.
SwCheck ==
    /\ sw.step = "check"
    /\ \/ /\ sw' = [sw EXCEPT !.step = IF cur = NoBackend THEN "start" ELSE "preflight",
                              !.prev = cur,
                              !.from = IF cur = NoBackend THEN NoTarget ELSE back[cur].tgt]
       \/ /\ "refuse" \in Events
          /\ sw' = Tried(sw, "failed")
    /\ UNCHANGED <<cur, back, ledger>> /\ SwitchOnly

\* CheckAdmission crediting the current model: refused, nothing was touched; admitted,
\* the current model stops.
SwPreflight ==
    /\ sw.step = "preflight"
    /\ \/ /\ sw' = [sw EXCEPT !.step = "stopping"]
          /\ Detach(sw.prev)
       \/ /\ "refuse" \in Events
          /\ sw' = Tried(sw, "refused")
          /\ UNCHANGED <<cur, back>>
    /\ UNCHANGED ledger /\ SwitchOnly

\* Mutant: the next start does not wait for the stop to end.
SwStoppedEarly ==
    /\ sw.step = "stopping"
    /\ sw' = [sw EXCEPT !.step = "start"]
    /\ UNCHANGED <<cur, back, ledger>> /\ SwitchOnly

\* The goroutine is through prev's stopOnce, its own or another's.  For another model,
\* settleAfterStop waits for the memory: it may give up, and then prev is restored.
SwStopped ==
    /\ sw.step = "stopping" /\ back[sw.prev].once = "done"
    /\ \/ sw' = [sw EXCEPT !.step = "start"]
       \/ /\ "refuse" \in Events
          /\ sw.from.model # sw.tgt.model /\ ~sw.cancelled
          /\ sw' = [sw EXCEPT !.step = "start", !.restoring = TRUE, !.err = "refused"]
    /\ UNCHANGED <<cur, back, ledger>> /\ SwitchOnly

\* The error of a start: another model's failure restores the previous one, unless the
\* switch was ended on purpose.
StartFailed(e) ==
    IF sw.cancelled \/ sw.restoring \/ sw.prev = NoBackend \/ sw.from.model = sw.tgt.model
    THEN Tried(sw, IF sw.cancelled THEN "cancelled" ELSE e)
    ELSE [sw EXCEPT !.step = "start", !.restoring = TRUE, !.err = e, !.new = NoBackend]

\* A backend nobody can still refer to.
Forgotten(b) ==
    /\ \/ back[b] = Unused
       \/ back[b].once = "done" /\ back[b].watch = "off"
    /\ b \notin {sw.prev, emergency.b, claimer.b, closer.b, ledger}
    /\ \A r \in Requests : req[r].lease # b
    /\ \A u \in Unloaders : unl[u].b # b

\* startBackend up to the process start: port check and Reserve.  Another backend that
\* still runs or still holds the reservation is a plain error.
SwStart ==
    /\ sw.step = "start"
    /\ \/ /\ sw.cancelled
          /\ sw' = Tried(sw, "cancelled")
          /\ UNCHANGED <<back, ledger>>
       \/ /\ ~sw.cancelled
          /\ ledger # NoBackend \/ \E b \in Backends : Live(b)
          /\ sw' = StartFailed("collision")
          /\ UNCHANGED <<back, ledger>>
       \/ /\ ~sw.cancelled /\ "refuse" \in Events
          /\ \E e \in {"refused", "failed"} : sw' = StartFailed(e)
          /\ UNCHANGED <<back, ledger>>
       \/ /\ ~sw.cancelled
          /\ ledger = NoBackend /\ \A b \in Backends : ~Live(b)
          /\ \E b \in Backends :
                /\ Forgotten(b) /\ \A o \in 1..(b - 1) : ~Forgotten(o)
                /\ back' = [back EXCEPT ![b] = [Unused EXCEPT !.proc = "loading",
                              !.tgt = IF sw.restoring THEN sw.from ELSE sw.tgt]]
                /\ ledger' = b
                /\ sw' = [sw EXCEPT !.step = "loading", !.new = b]
    /\ UNCHANGED cur /\ SwitchOnly

\* WaitHealthy and the placement check: ready and materialized, or stopped and released.
\* A cancelled switch does not become ready unless it already was.
SwLoad ==
    /\ sw.step = "loading"
    /\ \/ /\ sw' = [sw EXCEPT !.step = "install"]
          /\ back' = [back EXCEPT ![sw.new].proc = "up"]
          /\ UNCHANGED ledger
       \/ /\ "refuse" \in Events \/ sw.cancelled
          /\ sw' = [StartFailed("failed") EXCEPT !.new = NoBackend]
          /\ back' = [back EXCEPT ![sw.new] = Unused]
          /\ ledger' = NoBackend
    /\ UNCHANGED cur /\ SwitchOnly

\* install: current, unless the manager closed or the switch was ended meanwhile.
SwInstall ==
    /\ sw.step = "install"
    /\ \/ /\ closed \/ sw.cancelled
          /\ Detach(sw.new)
          /\ sw' = [sw EXCEPT !.step = "undo"]
       \/ /\ ~closed /\ ~sw.cancelled
          /\ cur' = sw.new
          /\ back' = [back EXCEPT ![sw.new].watch = "on"]
          /\ sw' = [Tried(sw, "none") EXCEPT !.new = NoBackend]
    /\ UNCHANGED ledger /\ SwitchOnly

SwUndone ==
    /\ sw.step = "undo" /\ back[sw.new].once = "done"
    /\ sw' = [Tried(sw, "cancelled") EXCEPT !.new = NoBackend]
    /\ UNCHANGED <<cur, back, ledger>> /\ SwitchOnly

\* retryAfterRecovery: a refusal for memory is tried once more when stopping idle
\* runtimes of other modalities made room.
SwRetry ==
    /\ sw.step = "tried" /\ sw.err = "refused" /\ ~sw.retried /\ ~sw.cancelled
    /\ sw' = [NewSwitch(sw.tgt) EXCEPT !.retried = TRUE]
    /\ UNCHANGED <<cur, back, ledger>> /\ SwitchOnly

\* The end of switchTo: an error fails the requests at the head that wanted this switch.
SwFinish ==
    /\ sw.step = "tried"
    /\ \E k \in 0..Len(queue) :
         LET Same(i) == req[queue[i]].tgt = sw.tgt
         IN  /\ \A i \in 1..k : sw.err # "none" /\ Same(i)
             /\ k < Len(queue) => sw.err = "none" \/ ~Same(k + 1)
             /\ Pump(SubSeq(queue, k + 1, Len(queue)), active,
                     Refuse(req, {queue[i] : i \in 1..k}), cur, NoSwitch, Held, stopping)
    /\ UNCHANGED <<cur, back, ledger, holdVars, endVars, crashes>>
-----------------------------------------------------------------------------
(* The end of a backend: stopOnce, the process, the watcher *)

\* Mutant: the reservation is released although the process goes on.
FinishStopWithoutKill(b) ==
    /\ back[b].once = "running"
    /\ back' = [back EXCEPT ![b].once = "done"]
    /\ ledger' = IF ledger = b THEN NoBackend ELSE ledger
    /\ UNCHANGED <<cur, pumped, holdVars, endVars, crashes>>

\* The body of stopOnce: the process is stopped, then its reservation is released.
FinishStop(b) ==
    /\ back[b].once = "running"
    /\ back' = [back EXCEPT ![b].once = "done", ![b].proc = "gone"]
    /\ ledger' = IF ledger = b THEN NoBackend ELSE ledger
    /\ UNCHANGED <<cur, pumped, holdVars, endVars, crashes>>

\* External: a ready process exits on its own.
Crash(b) ==
    /\ crashes < MaxCrashes /\ back[b].proc = "up" /\ back[b].once = "no"
    /\ back' = [back EXCEPT ![b].proc = "gone"]
    /\ crashes' = crashes + 1
    /\ UNCHANGED <<cur, pumped, ledger, holdVars, endVars>>

\* watch sees the exit of the current backend, clears the slot and unlocks ...
WatchCrash(b) ==
    /\ back[b].proc = "gone" /\ back[b].watch = "on" /\ cur = b
    /\ cur' = NoBackend
    /\ back' = [back EXCEPT ![b].watch = "crashed",
                            ![b].once = IF @ = "no" THEN "running" ELSE @]
    /\ UNCHANGED <<pumped, ledger, holdVars, endVars, crashes>>

\* ... and once the reservation is released, pumps.
WatchPump(b) ==
    /\ back[b].watch = "crashed" /\ back[b].once = "done"
    /\ back' = [back EXCEPT ![b].watch = "off"]
    /\ Pump(queue, active, req, cur, sw, Held, stopping)
    /\ UNCHANGED <<cur, ledger, holdVars, endVars, crashes>>
-----------------------------------------------------------------------------
(* Unload *)

\* Unload's first critical section, when it does not refuse.
BeginUnload(u, m) ==
    /\ "unload" \in Events /\ unl[u] = AtRest("idle")
    /\ cur # NoBackend /\ back[cur].tgt.model = m
    /\ sw = NoSwitch /\ unloading \in {NoModel, m}
    /\ LET gone == {r \in Members(queue) : req[r].tgt.model = m /\ ~req[r].dispatching}
       IN  queue' = Without(queue, gone) /\ req' = Refuse(req, gone)
    /\ unloading' = m /\ unloaders' = unloaders + 1
    /\ unl' = [unl EXCEPT ![u] = [pc |-> "drain", b |-> cur]]
    /\ UNCHANGED <<cur, active, sw, back, ledger, claimed, claimer, endVars, crashes>>

\* Mutant: the first unload to end lifts the protection of them all.
EndUnloadForAll(u, c, stillClaimed) ==
    /\ unloaders' = unloaders - 1 /\ unloading' = NoModel
    /\ unl' = [unl EXCEPT ![u] = AtRest("idle")]
    /\ Pump(queue, active, req, c, sw, stillClaimed \/ closed, stopping)

\* Mutant: nobody is told that the protection ended.
EndUnloadWithoutPump(u, c, stillClaimed) ==
    /\ unloaders' = unloaders - 1
    /\ unloading' = IF unloaders = 1 THEN NoModel ELSE unloading
    /\ unl' = [unl EXCEPT ![u] = AtRest("idle")]
    /\ UNCHANGED pumped

\* endUnload and the pump it ends with.
EndUnload(u, c, stillClaimed) ==
    LET left == unloaders - 1
        m == IF left = 0 THEN NoModel ELSE unloading
    IN  /\ unloaders' = left /\ unloading' = m
        /\ unl' = [unl EXCEPT ![u] = AtRest("idle")]
        /\ Pump(queue, active, req, c, sw, stillClaimed \/ closed \/ m # NoModel, stopping)

\* The drain found the model gone, or ran out of time.
UnloadGivesUp(u) ==
    /\ unl[u].pc = "drain"
    /\ cur # unl[u].b \/ active > 0 \/ sw # NoSwitch \/ claimed
    /\ EndUnload(u, cur, claimed)
    /\ UNCHANGED <<cur, back, ledger, claimed, claimer, endVars, crashes>>

\* The drain found nobody left: claim and stop.
UnloadStops(u) ==
    /\ unl[u].pc = "drain" /\ cur = unl[u].b
    /\ active = 0 /\ sw = NoSwitch /\ ~claimed
    /\ claimed' = TRUE
    /\ unl' = [unl EXCEPT ![u].pc = "stop"]
    /\ Detach(unl[u].b)
    /\ UNCHANGED <<pumped, ledger, claimer, unloading, unloaders, endVars, crashes>>

UnloadEnds(u) ==
    /\ unl[u].pc = "stop" /\ back[unl[u].b].once = "done"
    /\ claimed' = FALSE
    /\ EndUnload(u, cur, FALSE)
    /\ UNCHANGED <<cur, back, ledger, claimer, endVars, crashes>>
-----------------------------------------------------------------------------
(* Idle recovery and evictIdle: claimIdle, stopClaimed, unclaim *)
ClaimIdle ==
    /\ "evict" \in Events /\ claimer.pc = "idle"
    /\ cur # NoBackend /\ active = 0 /\ sw = NoSwitch /\ ~claimed /\ ~closed
    /\ queue = <<>>
    /\ claimed' = TRUE
    /\ claimer' = AtRest("claimed")
    /\ UNCHANGED <<cur, pumped, back, ledger, unloading, unloaders, unl, endVars, crashes>>

StopClaimed ==
    /\ claimer.pc = "claimed" /\ cur # NoBackend
    /\ claimer' = [pc |-> "stop", b |-> cur]
    /\ Detach(cur)
    /\ UNCHANGED <<pumped, ledger, claimed, unloading, unloaders, unl, endVars, crashes>>

\* After the stop, or at once: stopping the peers would not have made enough room.
Unclaim ==
    /\ \/ claimer.pc = "claimed"
       \/ claimer.pc = "stop" /\ back[claimer.b].once = "done"
    /\ claimed' = FALSE
    /\ claimer' = AtRest("idle")
    /\ Pump(queue, active, req, cur, sw, closed \/ unloading # NoModel, stopping)
    /\ UNCHANGED <<cur, back, ledger, unloading, unloaders, unl, endVars, crashes>>
-----------------------------------------------------------------------------
(* EmergencyStop, StopLoads, Close *)

\* EmergencyStop's first critical section; the backend it found is stopped after it.
\* The monitor that calls it takes no other sample before it returns.
EmergencyStop ==
    /\ "emergency" \in Events /\ emergency.pc = "idle"
    /\ emergency' = IF cur = NoBackend THEN emergency ELSE [pc |-> "found", b |-> cur]
    /\ queue' = <<>> /\ req' = Refuse(req, Members(queue))
    /\ sw' = Cancelled(sw)
    /\ UNCHANGED <<cur, active, back, ledger, holdVars, stopping, closer, crashes>>

EmergencyDetach ==
    /\ emergency.pc = "found"
    /\ Detach(emergency.b)
    /\ emergency' = [emergency EXCEPT !.pc = "stop"]
    /\ UNCHANGED <<pumped, ledger, holdVars, stopping, closer, crashes>>

EmergencyEnds ==
    /\ emergency.pc = "stop" /\ back[emergency.b].once = "done"
    /\ emergency' = AtRest("idle")
    /\ UNCHANGED <<cur, pumped, back, ledger, holdVars, stopping, closer, crashes>>

StopLoads ==
    /\ "stoploads" \in Events /\ ~stopping
    /\ stopping' = TRUE
    /\ Pump(queue, active, req, cur, Cancelled(sw), Held, TRUE)
    /\ UNCHANGED <<cur, back, ledger, holdVars, emergency, closer, crashes>>

BeginClose ==
    /\ "close" \in Events /\ closer.pc = "open"
    /\ closer' = AtRest("waiting")
    /\ queue' = <<>> /\ req' = Refuse(req, Members(queue))
    /\ sw' = Cancelled(sw)
    /\ UNCHANGED <<cur, active, back, ledger, holdVars, emergency, stopping, crashes>>

\* Mutant: a switch in flight is not waited for.
CloseStopsAtOnce ==
    /\ closer.pc = "waiting"
    /\ closer' = [pc |-> "stopping", b |-> cur]
    /\ IF cur = NoBackend THEN UNCHANGED <<cur, back>> ELSE Detach(cur)
    /\ UNCHANGED <<pumped, ledger, holdVars, emergency, stopping, crashes>>

\* m.switches.Wait(), then whatever is current is stopped.
CloseStops ==
    /\ closer.pc = "waiting" /\ sw = NoSwitch
    /\ closer' = [pc |-> "stopping", b |-> cur]
    /\ IF cur = NoBackend THEN UNCHANGED <<cur, back>> ELSE Detach(cur)
    /\ UNCHANGED <<pumped, ledger, holdVars, emergency, stopping, crashes>>

\* Its own stopBackend returned, and m.watches.Wait(): no watcher is left.
CloseEnds ==
    /\ closer.pc = "stopping"
    /\ closer.b # NoBackend => back[closer.b].once = "done"
    /\ \A b \in Backends : back[b].watch = "off"
    /\ closer' = AtRest("closed")
    /\ UNCHANGED <<cur, pumped, back, ledger, holdVars, emergency, stopping, crashes>>
-----------------------------------------------------------------------------
Switch == \/ SwCheck \/ SwPreflight \/ SwStopped \/ SwStart \/ SwLoad
          \/ SwInstall \/ SwUndone \/ SwRetry \/ SwFinish

Client(r) ==
    \/ \E t \in Targets : Acquire(r, t)
    \/ Receive(r) \/ Release(r) \/ Cancel(r) \/ Timeout(r)

Unload(u) ==
    \/ \E m \in {t.model : t \in Targets} : BeginUnload(u, m)
    \/ UnloadGivesUp(u) \/ UnloadStops(u) \/ UnloadEnds(u)

Eviction == ClaimIdle \/ StopClaimed \/ Unclaim

Shutdown == StopLoads \/ BeginClose \/ CloseStops \/ CloseEnds

Backend(b) == FinishStop(b) \/ Crash(b) \/ WatchCrash(b) \/ WatchPump(b)

Next ==
    \/ \E r \in Requests : Client(r)
    \/ Switch
    \/ \E b \in Backends : Backend(b)
    \/ \E u \in Unloaders : Unload(u)
    \/ Eviction
    \/ EmergencyStop \/ EmergencyDetach \/ EmergencyEnds
    \/ Shutdown

Spec == Init /\ [][Next]_vars

\* Goroutines that can go on do, a start ends within its budget, and a client that holds
\* a lease finishes its response.  Nothing makes a client arrive, cancel or wait too
\* long, nor an unload, an eviction, an emergency or a shutdown begin.
FairSpec ==
    /\ Spec
    /\ WF_vars(Switch)
    /\ \A r \in Requests : WF_vars(Receive(r)) /\ WF_vars(Release(r))
    /\ \A b \in Backends :
          WF_vars(FinishStop(b)) /\ WF_vars(WatchCrash(b)) /\ WF_vars(WatchPump(b))
    /\ \A u \in Unloaders : WF_vars(UnloadGivesUp(u) \/ UnloadStops(u) \/ UnloadEnds(u))
    /\ WF_vars(StopClaimed \/ Unclaim)
    /\ WF_vars(EmergencyDetach \/ EmergencyEnds)
    /\ WF_vars(CloseStops \/ CloseEnds)
-----------------------------------------------------------------------------
AnyTarget == Targets \cup {NoTarget}
AnyBackend == Backends \cup {NoBackend}

\* Every variable has its type.
TypeOK ==
    /\ cur \in AnyBackend /\ active \in 0..Slots
    /\ queue \in Seq(Requests) /\ Len(queue) <= QueueCapacity
    /\ req \in [Requests -> [st : {"out", "queued", "granted", "holding"},
                             tgt : AnyTarget, lease : AnyBackend, dispatching : BOOLEAN]]
    /\ sw \in [step : {"none", "check", "preflight", "stopping", "start", "loading",
                        "install", "undo", "tried"},
                tgt : AnyTarget, prev : AnyBackend, from : AnyTarget, new : AnyBackend,
                restoring : BOOLEAN, cancelled : BOOLEAN, retried : BOOLEAN,
                err : {"none", "failed", "refused", "cancelled", "collision"}]
    /\ back \in [Backends -> [tgt : AnyTarget, proc : {"none", "loading", "up", "gone"},
                              once : {"no", "running", "done"},
                              watch : {"off", "on", "crashed"}]]
    /\ ledger \in AnyBackend
    /\ claimed \in BOOLEAN
    /\ claimer \in [pc : {"idle", "claimed", "stop"}, b : AnyBackend]
    /\ unloading \in {NoModel} \cup {t.model : t \in Targets} /\ unloaders \in Nat
    /\ unl \in [Unloaders -> [pc : {"idle", "drain", "stop"}, b : AnyBackend]]
    /\ emergency \in [pc : {"idle", "found", "stop"}, b : AnyBackend] /\ stopping \in BOOLEAN
    /\ closer \in [pc : {"open", "waiting", "stopping", "closed"}, b : AnyBackend]
    /\ crashes \in 0..MaxCrashes

Leased == {r \in Requests : req[r].st \in {"granted", "holding"}}

\* A lease is answered by the model it asked for or by nothing: the backend it names has
\* the model and selection requested, and until it is released no other backend is
\* current or even running on the port (grant, pump's drain, startBackend).
LeasesKeepTheirBackend ==
    \A r \in Leased :
        /\ back[req[r].lease].tgt = req[r].tgt
        /\ cur \in {NoBackend, req[r].lease}
        /\ \A b \in Backends : Live(b) => b = req[r].lease

\* m.active is the number of leases out, through every cancellation, crash, eviction and
\* switch, and never passes the slots of the plan (grant, Lease.Release, wait).
ActiveCountsLeases == active = Cardinality(Leased) /\ active <= Slots

\* The queue holds the waiting requests, each once; one that dispatched its own start,
\* and so has no deadline any more, is at the head while that start runs (pump, wait).
QueueHoldsTheWaiting ==
    /\ Members(queue) = {r \in Requests : req[r].st = "queued"}
    /\ Cardinality(Members(queue)) = Len(queue)
    /\ \A r \in Members(queue) :
          req[r].dispatching => sw # NoSwitch /\ r = queue[1] /\ req[r].tgt = sw.tgt

\* No wake-up is lost: when nothing holds pump back and no switch runs, a request waits
\* only behind leases that are really out (and, for the model that runs, only for a
\* slot), so their release pumps it.  Every path that frees a slot or lifts a hold has
\* to pump, and the count and the queue that pump goes by have to be right.
NoLostWakeup ==
    /\ ActiveCountsLeases
    /\ QueueHoldsTheWaiting
    /\ queue # <<>> /\ sw = NoSwitch /\ ~Held =>
          LET t == req[queue[1]].tgt
          IN  active > 0 /\ (cur # NoBackend /\ back[cur].tgt = t => active = Slots)

\* The protection of a draining model lasts exactly as long as its last unload, and no
\* request for that model waits behind it (Unload, endUnload).
UnloadProtects ==
    /\ unloaders = Cardinality({u \in Unloaders : unl[u].pc # "idle"})
    /\ (unloading # NoModel) = (unloaders > 0)
    /\ \A r \in Members(queue) : req[r].tgt.model # unloading

\* Who may stop the backend while it is idle: at most one of idle recovery and the
\* unloads has the claim, and while they have it, or an unload drains, no switch runs;
\* under a claim no lease is out either (claimIdle, Unload, pump).  A draining model
\* stays protected until its last unload ends.
HoldsExcludeEachOther ==
    LET stoppers == {u \in Unloaders : unl[u].pc = "stop"}
        claims   == Cardinality(stoppers) + (IF claimer.pc = "idle" THEN 0 ELSE 1)
    IN  /\ UnloadProtects
        /\ claims = IF claimed THEN 1 ELSE 0
        /\ claimed => active = 0
        /\ claimed \/ unloading # NoModel => sw = NoSwitch

\* A running process always has its memory accounted for: the "llm" reservation is its
\* own, from before it starts until after it is gone (startBackend, stopBackend).
LiveIsReserved == \A b \in Backends : Live(b) => ledger = b

\* A start never finds its predecessor in the way: when the switch comes to it, the
\* process before is gone and its reservation released (stopOnce, claimed).
NoCollision == sw.err # "collision"

\* Once the gateway is stopping or the manager closed, no process starts and no backend
\* becomes current, not even one whose start was under way (StopLoads, Close, install).
NoStartAfterStop ==
    [][stopping \/ closed =>
         /\ cur' \in {cur, NoBackend}
         /\ \A b \in Backends : Live(b)' => Live(b)]_vars

\* Close returns only when the runtime is down and its memory given back.
ClosedMeansDown ==
    closer.pc = "closed" => ledger = NoBackend /\ \A b \in Backends : ~Live(b)

\* Close returns.
CloseReturns == closed ~> closer.pc = "closed"

\* Every request that waits is answered, with a lease or an error, although it has no
\* deadline of its own here: whatever switches, unloads, evictions and crashes intervene.
EveryRequestAnswered == \A r \in Requests : req[r].st = "queued" ~> req[r].st # "queued"
=============================================================================
