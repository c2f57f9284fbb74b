-------------------------- MODULE MemoryController --------------------------
(***************************************************************************)
(* The admission ledger of go/internal/memory/controller.go: runtimes      *)
(* reserve memory before they start, a sample of the host decides, and a   *)
(* pressure hysteresis closes admission while the host is short.           *)
(*                                                                         *)
(* A decision is not atomic.  Reserve reads the sample epoch, reads the    *)
(* host WITHOUT the lock, and only then takes the lock and judges the      *)
(* ledger against a sample that other runtimes may have outdated.          *)
(*                                                                         *)
(* The host (other, used) is external: it is what the code measures.       *)
(***************************************************************************)
EXTENDS Integers

CONSTANTS Runtimes,      \* the modalities this instance starts
          Callers,       \* goroutines that call the controller
          Nobody,        \* not a caller
          Capacity,      \* topology.SystemCapacity
          ReserveBytes,  \* system.Bytes(capacity): kept for the computer
          GPUWorkingSet, \* topology.GPUWorkingSetBytes, 0 when unknown
          Unified,       \* topology.Unified
          Bypass,        \* the operator turned admission off
          Demands,       \* the demands callers ask for
          ReleaseSets,   \* the sets of runtimes a check credits
          OtherUses,     \* what the rest of the computer may use
          Pressures,     \* what the provider may report beside the bytes
          MaxEpoch       \* bound: how many times a runtime becomes resident

Modalities == {"llm", "stt", "tts", "image", "video"}
PressureKinds == {"normal", "constrained", "critical", "unknown"}
Demand == [projected : Nat, accelerator : Nat]

ASSUME ConstantsAssumption ==
    /\ Runtimes \subseteq Modalities /\ Nobody \notin Callers
    /\ Capacity \in Nat /\ ReserveBytes \in Nat /\ GPUWorkingSet \in Nat
    /\ Unified \in BOOLEAN /\ Bypass \in BOOLEAN
    /\ Demands \subseteq Demand /\ \A d \in Demands : d.projected > 0
    /\ ReleaseSets \subseteq SUBSET Modalities
    /\ OtherUses \subseteq Nat
    /\ Pressures \subseteq PressureKinds
    /\ MaxEpoch \in Nat

VARIABLES reservations, \* c.reservations, by runtime id
          epoch,        \* c.epoch
          state,        \* c.state
          normalRun,    \* c.normalRun
          call,         \* what each caller is in the middle of
          handle,       \* the runtime id of the *Reservation a caller holds
          poll,         \* the pressure a Poll has read before it takes the lock
          other,        \* external: memory the rest of the computer uses
          used,         \* external: memory the runtime's process holds
          soldOther,    \* history: other, in the sample of the last admission
          calm          \* history: normal Polls in a row

ledgerVars == <<reservations, epoch, handle, soldOther>>
pressureVars == <<state, normalRun, poll, calm>>
hostVars == <<other, used>>
vars == <<ledgerVars, pressureVars, hostVars, call>>
-----------------------------------------------------------------------------
RecoverySamples == 3

\* LocalBase has five runtimes, so a total over them is a sum of five terms.
Sum(f) == f["llm"] + f["stt"] + f["tts"] + f["image"] + f["video"]

Lesser(a, b) == IF a < b THEN a ELSE b
AtLeastZero(a) == IF a < 0 THEN 0 ELSE a

\* float64(avail) < float64(reserve)*warningReserveMultiplier, in integers
BelowWarning(avail) == 4 * avail < 5 * ReserveBytes

None == [held |-> FALSE, by |-> Nobody, projected |-> 0, accelerator |-> 0,
         resident |-> FALSE, residentAt |-> 0]

Idle == [op |-> "none", at |-> "idle", rt |-> "llm",
         demand |-> [projected |-> 0, accelerator |-> 0],
         releasing |-> {}, measured |-> [m \in Modalities |-> -1],
         seen |-> 0, available |-> -1, pressure |-> "unknown", saw |-> 0]

\* External: the host's own figure.
HostAvailable == Capacity - other - Sum(used)

\* External: HostProvider.Snapshot, which may be unable to read the host.
Snapshots ==
    {[available |-> HostAvailable, pressure |-> p] : p \in Pressures \ {"unknown"}}
        \cup {[available |-> -1, pressure |-> p] : p \in Pressures \cap {"unknown"}}
-----------------------------------------------------------------------------
(* ledger *)

InSample(m, seen) == reservations[m].resident /\ reservations[m].residentAt <= seen

\* Mutant: what has not started using its memory is not counted.
PendingForgotten(releasing, seen) == 0

Pending(releasing, seen) ==
    Sum([m \in Modalities |->
            IF m \in releasing \/ InSample(m, seen) THEN 0
            ELSE reservations[m].projected])

\* Mutant: the whole projection is credited, as before #355.
CreditProjection(m, measured) == reservations[m].projected

Credit(m, measured) ==
    IF measured[m] < 0 THEN reservations[m].projected
    ELSE Lesser(reservations[m].projected, measured[m])

Freed(releasing, measured, seen) ==
    Sum([m \in Modalities |->
            IF m \in releasing /\ InSample(m, seen) THEN Credit(m, measured) ELSE 0])

\* Mutant: a runtime that is still starting does not count towards the GPU cap.
AcceleratorResident(releasing) ==
    Sum([m \in Modalities |->
            IF m \in releasing \/ ~reservations[m].resident THEN 0
            ELSE reservations[m].accelerator])

AcceleratorHeld(releasing) ==
    Sum([m \in Modalities |->
            IF m \in releasing THEN 0 ELSE reservations[m].accelerator])

\* evaluate: the reason of the refusal, "none" when the demand is admitted.
evaluate(d, snap, releasing, measured, seen) ==
    LET limited == Unified /\ GPUWorkingSet > 0
        avail   == snap.available + Freed(releasing, measured, seen)
    IN  IF limited /\ d.accelerator > GPUWorkingSet
          THEN "accelerator-memory"
        ELSE IF Capacity > 0 /\ d.projected > AtLeastZero(Capacity - ReserveBytes)
          THEN "system-memory"
        ELSE IF /\ limited /\ d.accelerator > 0
                /\ AcceleratorHeld(releasing) + d.accelerator > GPUWorkingSet
          THEN "accelerator-memory"
        ELSE IF state # "healthy"
          THEN "memory-pressure"
        ELSE IF snap.available < 0 \/ snap.pressure = "unknown"
          THEN "measurement-unavailable"
        ELSE IF snap.pressure # "normal" \/ BelowWarning(avail)
          THEN "memory-pressure"
        ELSE IF AtLeastZero(avail - Pending(releasing, seen)) - d.projected
                    < ReserveBytes
          THEN "system-memory"
        ELSE "none"

\* The verdict on a call that has its sample, were it to take the lock now.
Verdict(c) ==
    evaluate(call[c].demand,
             [available |-> call[c].available, pressure |-> call[c].pressure],
             call[c].releasing, call[c].measured, call[c].seen)

\* r.c.reservations[r.id] == r.r: the handle's reservation is still in the ledger.
Owns(c) ==
    /\ handle[c] # "none"
    /\ reservations[handle[c]].held /\ reservations[handle[c]].by = c
-----------------------------------------------------------------------------
Init ==
    /\ reservations = [m \in Modalities |-> None]
    /\ epoch = 0
    /\ state = "healthy" /\ normalRun = 0
    /\ call = [c \in Callers |-> Idle]
    /\ handle = [c \in Callers |-> "none"]
    /\ poll = "none"
    /\ other \in {o \in OtherUses : o <= Capacity}
    /\ used = [m \in Modalities |-> 0]
    /\ soldOther = 0
    /\ calm = 0

\* Reserve up to c.sampleEpoch().  The caller's earlier handle is forgotten.
BeginReserve(c, r, d) ==
    /\ call[c].at = "idle"
    /\ ~Owns(c)
    /\ call' = [call EXCEPT ![c] = [Idle EXCEPT !.op = "reserve", !.at = "epoch",
                                    !.rt = r, !.demand = d, !.seen = epoch]]
    /\ handle' = [handle EXCEPT ![c] = "none"]
    /\ UNCHANGED <<reservations, epoch, soldOther, pressureVars, hostVars>>

\* CheckAdmission up to the footprints: what each resident releasing runtime's
\* process holds, where this host can be sampled and the reading succeeds.
BeginCheck(c, d, releasing) ==
    /\ call[c].at = "idle" /\ ~Bypass
    /\ \E read \in {{}, {m \in releasing : Unified /\ reservations[m].resident}} :
          call' = [call EXCEPT ![c] = [Idle EXCEPT !.op = "check", !.at = "measured",
                     !.demand = d, !.releasing = releasing,
                     !.measured = [m \in Modalities |->
                                      IF m \in read THEN used[m] ELSE -1]]]
    /\ UNCHANGED <<ledgerVars, pressureVars, hostVars>>

\* CheckAdmission's own sampleEpoch().
ReadEpoch(c) ==
    /\ call[c].at = "measured"
    /\ call' = [call EXCEPT ![c] = [@ EXCEPT !.at = "epoch", !.seen = epoch]]
    /\ UNCHANGED <<ledgerVars, pressureVars, hostVars>>

\* Headroom begins by reading the host.  It never reads the epoch; "seen" is kept
\* here only to compare its answer with admission's.
BeginHeadroom(c, releasing) ==
    /\ call[c].at = "idle"
    /\ call' = [call EXCEPT ![c] = [Idle EXCEPT !.op = "headroom", !.at = "epoch",
                                    !.releasing = releasing, !.seen = epoch]]
    /\ UNCHANGED <<ledgerVars, pressureVars, hostVars>>

\* c.host.Snapshot(ctx), outside the lock.
TakeSample(c) ==
    /\ call[c].at = "epoch"
    /\ \E s \in Snapshots :
          call' = [call EXCEPT ![c] = [@ EXCEPT !.at = "sampled",
                      !.available = s.available, !.pressure = s.pressure,
                      !.saw = other]]
    /\ UNCHANGED <<ledgerVars, pressureVars, hostVars>>

\* Reserve from c.mu.Lock() to its return: refused because the id is taken or by
\* evaluate, or the reservation is inserted, pending.
DecideReserve(c) ==
    LET r == call[c].rt
        d == call[c].demand
        admitted == ~reservations[r].held /\ (Bypass \/ Verdict(c) = "none")
    IN  /\ call[c].at = "sampled" /\ call[c].op = "reserve"
        /\ call' = [call EXCEPT ![c] = Idle]
        /\ \/ /\ admitted
              /\ reservations' = [reservations EXCEPT ![r] =
                     [None EXCEPT !.held = TRUE, !.by = c,
                                  !.projected = d.projected,
                                  !.accelerator = d.accelerator]]
              /\ handle' = [handle EXCEPT ![c] = r]
              /\ soldOther' = call[c].saw
           \/ /\ ~admitted
              /\ UNCHANGED <<reservations, handle, soldOther>>
        /\ UNCHANGED <<epoch, pressureVars, hostVars>>

\* CheckAdmission and Headroom return their answer and change nothing.
Answer(c) ==
    /\ call[c].at = "sampled" /\ call[c].op \in {"check", "headroom"}
    /\ call' = [call EXCEPT ![c] = Idle]
    /\ UNCHANGED <<ledgerVars, pressureVars, hostVars>>

\* Mutant: the epoch is not advanced.
MaterializeSameEpoch(c) ==
    /\ Owns(c) /\ ~reservations[handle[c]].resident
    /\ reservations' = [reservations EXCEPT ![handle[c]] =
                           [@ EXCEPT !.resident = TRUE, !.residentAt = epoch]]
    /\ UNCHANGED <<epoch, handle, soldOther, call, pressureVars, hostVars>>

\* Mutant: resident since the epoch before, which for the first runtime is none.
MaterializeEpochBefore(c) ==
    /\ Owns(c) /\ ~reservations[handle[c]].resident /\ epoch < MaxEpoch
    /\ epoch' = epoch + 1
    /\ reservations' = [reservations EXCEPT ![handle[c]] =
                           [@ EXCEPT !.resident = TRUE, !.residentAt = epoch - 1]]
    /\ UNCHANGED <<handle, soldOther, call, pressureVars, hostVars>>

\* Reservation.Materialize: the backend is ready, its memory shows from now on.
Materialize(c) ==
    /\ Owns(c) /\ ~reservations[handle[c]].resident /\ epoch < MaxEpoch
    /\ epoch' = epoch + 1
    /\ reservations' = [reservations EXCEPT ![handle[c]] =
                           [@ EXCEPT !.resident = TRUE, !.residentAt = epoch + 1]]
    /\ UNCHANGED <<handle, soldOther, call, pressureVars, hostVars>>

\* Mutant: whatever the id holds now is deleted.
ReleaseById(c) ==
    /\ handle[c] # "none" /\ (Owns(c) => used[handle[c]] = 0)
    /\ reservations' = [reservations EXCEPT ![handle[c]] = None]
    /\ UNCHANGED <<epoch, handle, soldOther, call, pressureVars, hostVars>>

\* Reservation.Release.  A caller releases its own reservation once its process is
\* gone (Process.Stop returns only after the exit).  The handle stays usable, and a
\* Release through a handle whose reservation is no longer in the ledger does nothing,
\* even when the id has been reserved again.
Release(c) ==
    /\ handle[c] # "none" /\ (Owns(c) => used[handle[c]] = 0)
    /\ reservations' = IF Owns(c) THEN [reservations EXCEPT ![handle[c]] = None]
                       ELSE reservations
    /\ UNCHANGED <<epoch, handle, soldOther, call, pressureVars, hostVars>>
-----------------------------------------------------------------------------
(* Poll *)

\* The provider's reading, made worse by the bytes left above the reserve.
pressureOf(s) ==
    IF s.available < 0 \/ s.pressure # "normal" THEN s.pressure
    ELSE IF s.available < ReserveBytes THEN "critical"
    ELSE IF BelowWarning(s.available) THEN "constrained"
    ELSE "normal"

\* Poll up to c.mu.Lock().
PollSample ==
    /\ ~Bypass /\ poll = "none"
    /\ \E s \in Snapshots : poll' = pressureOf(s)
    /\ UNCHANGED <<ledgerVars, hostVars, call, state, normalRun, calm>>

\* Mutant: only a constrained state counts normal samples.
CountedUnlessCritical == IF state = "critical" THEN normalRun ELSE normalRun + 1

\* c.normalRun++
Counted == normalRun + 1

\* Mutant: one normal sample too few is enough.
RecoveredEarly == Counted + 1 >= RecoverySamples

\* The normal samples are enough.
Recovered == Counted >= RecoverySamples

PollApply ==
    LET p == poll
    IN  /\ poll # "none"
        /\ poll' = "none"
        /\ calm' = IF p # "normal" THEN 0 ELSE Lesser(calm + 1, RecoverySamples)
        /\ \/ /\ p = "unknown"
              /\ normalRun' = 0 /\ UNCHANGED state
           \/ /\ p = "critical"
              /\ state' = "critical" /\ normalRun' = 0
           \/ /\ p = "constrained"
              /\ state' = IF state = "critical" THEN state ELSE "constrained"
              /\ normalRun' = 0
           \/ /\ p = "normal" /\ state = "healthy"
              /\ UNCHANGED <<state, normalRun>>
           \/ /\ p = "normal" /\ state # "healthy"
              /\ state' = IF Recovered THEN "healthy" ELSE state
              /\ normalRun' = IF Recovered THEN 0 ELSE Counted
        /\ UNCHANGED <<ledgerVars, hostVars, call>>
-----------------------------------------------------------------------------
(* External: the host and the backend processes *)

\* The backend of a pending reservation loads; it never holds more than it asked for
\* and has stopped growing once it is ready.
Load(r) ==
    /\ reservations[r].held /\ ~reservations[r].resident
    /\ \E v \in (used[r] + 1)..reservations[r].projected :
          /\ v - used[r] <= HostAvailable
          /\ used' = [used EXCEPT ![r] = v]
    /\ UNCHANGED <<ledgerVars, pressureVars, call, other>>

\* The process exits: stopped, crashed or out of memory.
Exit(r) ==
    /\ used[r] > 0
    /\ used' = [used EXCEPT ![r] = 0]
    /\ UNCHANGED <<ledgerVars, pressureVars, call, other>>

OtherMoves ==
    /\ \E o \in OtherUses \ {other} :
          /\ o - other <= HostAvailable
          /\ other' = o
    /\ UNCHANGED <<ledgerVars, pressureVars, call, used>>
-----------------------------------------------------------------------------
Next ==
    \/ \E c \in Callers :
          \/ \E r \in Runtimes, d \in Demands : BeginReserve(c, r, d)
          \/ \E d \in Demands, rel \in ReleaseSets : BeginCheck(c, d, rel)
          \/ \E rel \in ReleaseSets : BeginHeadroom(c, rel)
          \/ ReadEpoch(c) \/ TakeSample(c) \/ DecideReserve(c) \/ Answer(c)
          \/ Materialize(c) \/ Release(c)
    \/ PollSample \/ PollApply
    \/ \E r \in Runtimes : Load(r) \/ Exit(r)
    \/ OtherMoves

Spec == Init /\ [][Next]_vars

\* The monitor's ticker keeps calling Poll (go/internal/runtime/pressure.go).
FairSpec == Spec /\ WF_vars(PollSample) /\ WF_vars(PollApply)
-----------------------------------------------------------------------------
(* Properties *)

Reservation == [held : BOOLEAN, by : Callers \cup {Nobody}, projected : Nat,
                accelerator : Nat, resident : BOOLEAN, residentAt : Nat]
Call == [op : {"none", "reserve", "check", "headroom"},
         at : {"idle", "measured", "epoch", "sampled"},
         rt : Modalities, demand : Demand, releasing : SUBSET Modalities,
         measured : [Modalities -> Int], seen : Nat, available : Int,
         pressure : PressureKinds, saw : Nat]

\* The ledger, the calls in flight and the host keep their types.
TypeOK ==
    /\ reservations \in [Modalities -> Reservation]
    /\ epoch \in Nat
    /\ state \in {"healthy", "constrained", "critical"}
    /\ normalRun \in Nat
    /\ call \in [Callers -> Call]
    /\ handle \in [Callers -> Modalities \cup {"none"}]
    /\ poll \in PressureKinds \cup {"none"}
    /\ other \in Nat
    /\ used \in [Modalities -> Nat]
    /\ soldOther \in Nat
    /\ calm \in Nat

\* What a reservation can still claim from the host: what its process holds once it
\* is resident, all it asked for until then.
Commitment(m) ==
    IF reservations[m].resident THEN used[m] ELSE reservations[m].projected

Committed == Sum([m \in Modalities |-> Commitment(m)])
SomeHeld == \E m \in Modalities : reservations[m].held

\* Reserve never sells the same bytes twice: however calls, loads and exits interleave,
\* everything promised fits above the reserve, beside what the rest of the computer
\* used in the sample that admitted the last runtime.
NeverOversold ==
    ~Bypass /\ SomeHeld => Committed + soldOther + ReserveBytes <= Capacity

\* The reserve is only ever eaten by the rest of the computer: while it uses no more
\* than it did in the last admitting sample, the runtimes leave ReserveBytes free.
ReserveKept ==
    ~Bypass /\ SomeHeld /\ other <= soldOther => HostAvailable >= ReserveBytes

\* What the ledger's entries say of each other and of their processes.
LedgerOK ==
    \A m \in Modalities :
        /\ ~reservations[m].held => reservations[m] = None
        /\ reservations[m].resident => reservations[m].residentAt <= epoch
        /\ used[m] <= reservations[m].projected

\* The runtime whose memory a sample taken in epoch "seen" must show.
Shown(seen) ==
    Sum([m \in Modalities |-> IF InSample(m, seen) THEN used[m] ELSE 0])

\* A sample held by a call never hides a runtime that counts as being in it: however
\* stale, it left room for all of them (why Materialize advances the epoch).
SamplesCountTheSeen ==
    \A c \in Callers : call[c].at = "sampled" /\ call[c].available >= 0 =>
        call[c].available + call[c].saw + Shown(call[c].seen) <= Capacity

\* The calls in flight: epochs are from the past, a Reserve credits nobody and its
\* caller holds no other reservation.
CallsOK ==
    \A c \in Callers :
        /\ call[c].seen <= epoch
        /\ call[c].op = "reserve" => /\ call[c].releasing = {} /\ handle[c] = "none"
                                    /\ call[c].demand.projected > 0

\* Every entry of the ledger is in the hands of the caller that made it.
OwnersHold ==
    \A m \in Modalities : reservations[m].held =>
        reservations[m].by \in Callers /\ handle[reservations[m].by] = m

\* The working-set cap holds for the sum of the runtimes in the ledger (#283), with
\* every interleaving of their starts.
GPUCapHolds ==
    ~Bypass /\ Unified /\ GPUWorkingSet > 0 =>
        Sum([m \in Modalities |-> reservations[m].accelerator]) <= GPUWorkingSet

\* A process that holds memory has its reservation in the ledger, under an owner that
\* can still release it: a stale handle never deletes a successor's reservation.
ProcessCovered ==
    \A m \in Modalities : used[m] > 0 =>
        \E c \in Callers : handle[c] = m /\ Owns(c)

\* A preflight that admits a switch counts on memory that is there (#355): when each
\* runtime it credits was measured and still runs as measured, what stopping them
\* frees holds the demand above the reserve, beside everything else promised.
PreflightHonest ==
    \A c \in Callers :
        /\ call[c].op = "check" /\ call[c].at = "sampled"
        /\ Verdict(c) = "none"
        /\ \A m \in call[c].releasing :
              InSample(m, call[c].seen) => call[c].measured[m] = used[m]
        => Sum([m \in Modalities |->
                   IF m \in call[c].releasing THEN 0 ELSE Commitment(m)])
             + call[c].demand.projected + call[c].saw + ReserveBytes <= Capacity

\* Admission reopens only after RecoverySamples normal Polls in a row, and a critical
\* state never eases to constrained on the way (Poll's hysteresis).
CalmBeforeHealthy ==
    [][/\ state # "healthy" /\ state' = "healthy" => calm' >= RecoverySamples
       /\ state = "critical" => state' # "constrained"]_state

\* The pressure state does not stick: if from some point on every Poll reads a normal
\* host, the state is healthy for good (Settling ends).
PressureClears ==
    <>[](poll \in {"none", "normal"}) => <>[](state = "healthy")

\* Headroom's answer, were it to take the lock now.
headroomOf(releasing, available) ==
    LET freed == Sum([m \in Modalities |->
                    IF m \in releasing /\ reservations[m].resident
                    THEN reservations[m].projected ELSE 0])
        pending == Sum([m \in Modalities |->
                    IF m \notin releasing /\ ~reservations[m].resident
                    THEN reservations[m].projected ELSE 0])
    IN  AtLeastZero(available + freed - pending - ReserveBytes)

\* "Headroom is what the system pool could admit now, after the reserve and pending
\* reservations, crediting the releasing runtimes as CheckAdmission does": a demand of
\* that size passes evaluate's capacity test on the same sample, at the same moment.
HeadroomAdmissible ==
    \A c \in Callers :
        LET k == call[c]
            noReading == [m \in Modalities |-> -1]
            room == headroomOf(k.releasing, k.available)
            avail == k.available + Freed(k.releasing, noReading, k.seen)
        IN  k.op = "headroom" /\ k.at = "sampled" /\ k.available >= 0 /\ room > 0
            => avail - Pending(k.releasing, k.seen) - room >= ReserveBytes

\* The inductive invariant behind NeverOversold, ReserveKept, GPUCapHolds and
\* ProcessCovered.
IInv ==
    /\ TypeOK
    /\ LedgerOK
    /\ SamplesCountTheSeen
    /\ CallsOK
    /\ OwnersHold
    /\ NeverOversold
    /\ GPUCapHolds
=============================================================================
