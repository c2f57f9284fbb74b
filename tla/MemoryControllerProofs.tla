----------------------- MODULE MemoryControllerProofs -----------------------
(***************************************************************************)
(* For every host, every set of demands and every interleaving of calls:   *)
(* the memory controller never sells the same bytes twice.                 *)
(***************************************************************************)
EXTENDS MemoryController, TLAPS

(* Sums over the five runtimes *)

\* A sum of integers is an integer.
LEMMA SumInt ==
    ASSUME NEW f \in [Modalities -> Int]
    PROVE  Sum(f) \in Int
  BY DEF Sum, Modalities

\* A sum of naturals is a natural.
LEMMA SumNat ==
    ASSUME NEW f \in [Modalities -> Nat]
    PROVE  Sum(f) \in Nat
  BY DEF Sum, Modalities

\* Sums are monotone in each term.
LEMMA SumMonotone ==
    ASSUME NEW f \in [Modalities -> Int], NEW g \in [Modalities -> Int],
           \A m \in Modalities : f[m] <= g[m]
    PROVE  Sum(f) <= Sum(g)
  BY DEF Sum, Modalities

\* Sums add term by term.
LEMMA SumPlus ==
    ASSUME NEW f \in [Modalities -> Int], NEW g \in [Modalities -> Int],
           NEW h \in [Modalities -> Int],
           \A m \in Modalities : h[m] <= f[m] + g[m]
    PROVE  Sum(h) <= Sum(f) + Sum(g)
  BY DEF Sum, Modalities

\* Two totals together stay below two others when their terms do.
LEMMA SumPairs ==
    ASSUME NEW f \in [Modalities -> Int], NEW g \in [Modalities -> Int],
           NEW h \in [Modalities -> Int], NEW k \in [Modalities -> Int],
           \A m \in Modalities : f[m] + g[m] <= h[m] + k[m]
    PROVE  Sum(f) + Sum(g) <= Sum(h) + Sum(k)
  BY DEF Sum, Modalities
-----------------------------------------------------------------------------
(* Types *)

\* The type of a reading of the host.
LEMMA SnapshotTypes ==
    ASSUME TypeOK, NEW s \in Snapshots
    PROVE  /\ s.available \in Int /\ s.pressure \in PressureKinds
           /\ s.available >= 0 => s.available = HostAvailable
           /\ pressureOf(s) \in PressureKinds
  <1>1. HostAvailable \in Int
    BY SumNat, ConstantsAssumption DEF TypeOK, HostAvailable
  <1>2. QED
    BY <1>1, ConstantsAssumption DEF Snapshots, pressureOf, PressureKinds

\* The initial states have their types.
LEMMA InitType == Init => TypeOK
  BY ConstantsAssumption
     DEF Init, TypeOK, Idle, None, Reservation, Call, Demand, Modalities, PressureKinds

\* Every step of the controller and of the host keeps the types.
LEMMA NextType == TypeOK /\ [Next]_vars => TypeOK'
  <1> SUFFICES ASSUME TypeOK, [Next]_vars PROVE TypeOK'
    OBVIOUS
  <1>types. /\ None \in Reservation /\ Idle \in Call
            /\ Runtimes \subseteq Modalities /\ Nobody \notin Callers
            /\ Demands \subseteq Demand /\ ReleaseSets \subseteq SUBSET Modalities
            /\ OtherUses \subseteq Nat
    BY ConstantsAssumption
       DEF None, Idle, Reservation, Call, Demand, Modalities, PressureKinds
  <1>1. ASSUME NEW c \in Callers, NEW r \in Runtimes, NEW d \in Demands,
               BeginReserve(c, r, d)
        PROVE  TypeOK'
    BY <1>1, <1>types DEF BeginReserve, TypeOK, Call, Idle, pressureVars, hostVars
  <1>2. ASSUME NEW c \in Callers, NEW d \in Demands, NEW rel \in ReleaseSets,
               BeginCheck(c, d, rel)
        PROVE  TypeOK'
    <2>1. PICK read : call' = [call EXCEPT ![c] = [Idle EXCEPT !.op = "check",
                 !.at = "measured", !.demand = d, !.releasing = rel,
                 !.measured = [m \in Modalities |-> IF m \in read THEN used[m] ELSE -1]]]
      BY <1>2 DEF BeginCheck
    <2>2. [m \in Modalities |-> IF m \in read THEN used[m] ELSE -1]
              \in [Modalities -> Int]
      BY DEF TypeOK
    <2>3. call' \in [Callers -> Call]
      BY <2>1, <2>2, <1>types DEF TypeOK, Call, Idle
    <2>4. QED
      BY <2>3, <1>2 DEF BeginCheck, TypeOK, ledgerVars, pressureVars, hostVars
  <1>3. ASSUME NEW c \in Callers, NEW rel \in ReleaseSets, BeginHeadroom(c, rel)
        PROVE  TypeOK'
    BY <1>3, <1>types
       DEF BeginHeadroom, TypeOK, Call, Idle, ledgerVars, pressureVars, hostVars
  <1>4. ASSUME NEW c \in Callers, ReadEpoch(c) PROVE TypeOK'
    <2>1. [call[c] EXCEPT !.at = "epoch", !.seen = epoch] \in Call
      <3>1. call[c] \in Call /\ epoch \in Nat
        BY DEF TypeOK
      <3>2. QED
        BY <3>1 DEF Call
    <2>2. call' \in [Callers -> Call]
      BY <1>4, <2>1 DEF ReadEpoch, TypeOK
    <2>3. QED
      BY <1>4, <2>2 DEF ReadEpoch, TypeOK, ledgerVars, pressureVars, hostVars
  <1>5. ASSUME NEW c \in Callers, TakeSample(c) PROVE TypeOK'
    <2>1. PICK s \in Snapshots :
             call' = [call EXCEPT ![c] = [@ EXCEPT !.at = "sampled",
                         !.available = s.available, !.pressure = s.pressure,
                         !.saw = other]]
      BY <1>5 DEF TakeSample
    <2>2. [call[c] EXCEPT !.at = "sampled", !.available = s.available,
                          !.pressure = s.pressure, !.saw = other] \in Call
      <3>1. s.available \in Int /\ s.pressure \in PressureKinds
        BY SnapshotTypes
      <3>2. call[c] \in Call /\ other \in Nat
        BY DEF TypeOK
      <3>3. QED
        BY <3>1, <3>2 DEF Call
    <2>3. call' \in [Callers -> Call]
      BY <2>1, <2>2 DEF TypeOK
    <2>4. QED
      BY <1>5, <2>3 DEF TakeSample, TypeOK, ledgerVars, pressureVars, hostVars
  <1>6. ASSUME NEW c \in Callers, DecideReserve(c) PROVE TypeOK'
    <2>1. call[c] \in Call /\ call[c].rt \in Modalities /\ call[c].demand \in Demand
          /\ call[c].saw \in Nat
      BY DEF TypeOK, Call
    <2>2. call' \in [Callers -> Call]
      BY <1>6, <1>types DEF DecideReserve, TypeOK
    <2>a. [None EXCEPT !.held = TRUE, !.by = c,
                       !.projected = call[c].demand.projected,
                       !.accelerator = call[c].demand.accelerator] \in Reservation
      BY <2>1 DEF None, Reservation, Demand
    <2>3. reservations' \in [Modalities -> Reservation]
      BY <1>6, <2>1, <2>a DEF DecideReserve, TypeOK
    <2>4. handle' \in [Callers -> Modalities \cup {"none"}] /\ soldOther' \in Nat
      BY <1>6, <2>1 DEF DecideReserve, TypeOK
    <2>5. QED
      BY <1>6, <2>2, <2>3, <2>4 DEF DecideReserve, TypeOK, pressureVars, hostVars
  <1>7. ASSUME NEW c \in Callers, Answer(c) PROVE TypeOK'
    BY <1>7, <1>types DEF Answer, TypeOK, ledgerVars, pressureVars, hostVars
  <1>8. ASSUME NEW c \in Callers, Materialize(c) PROVE TypeOK'
    <2>1. handle[c] \in Modalities /\ epoch + 1 \in Nat
      BY <1>8 DEF Materialize, Owns, TypeOK
    <2>2. [reservations[handle[c]] EXCEPT !.resident = TRUE, !.residentAt = epoch + 1]
              \in Reservation
      <3>1. reservations[handle[c]] \in Reservation
        BY <2>1 DEF TypeOK
      <3>2. QED
        BY <2>1, <3>1 DEF Reservation
    <2>3. reservations' \in [Modalities -> Reservation]
      BY <1>8, <2>1, <2>2 DEF Materialize, TypeOK
    <2>4. QED
      BY <1>8, <2>1, <2>3 DEF Materialize, TypeOK, pressureVars, hostVars
  <1>9. ASSUME NEW c \in Callers, Release(c) PROVE TypeOK'
    BY <1>9, <1>types DEF Release, TypeOK, pressureVars, hostVars
  <1>10. ASSUME PollSample PROVE TypeOK'
    BY <1>10, SnapshotTypes DEF PollSample, TypeOK, ledgerVars, hostVars
  <1>11. ASSUME PollApply PROVE TypeOK'
    <2>1. calm' \in Nat
      BY <1>11 DEF PollApply, TypeOK, Lesser, RecoverySamples
    <2>2. state' \in {"healthy", "constrained", "critical"} /\ normalRun' \in Nat
      BY <1>11 DEF PollApply, TypeOK, Counted
    <2>3. QED
      BY <1>11, <2>1, <2>2 DEF PollApply, TypeOK, ledgerVars, hostVars
  <1>12. ASSUME NEW r \in Runtimes, Load(r) PROVE TypeOK'
    BY <1>12, <1>types DEF Load, TypeOK, Reservation, ledgerVars, pressureVars
  <1>13. ASSUME NEW r \in Runtimes, Exit(r) PROVE TypeOK'
    BY <1>13 DEF Exit, TypeOK, ledgerVars, pressureVars
  <1>14. ASSUME OtherMoves PROVE TypeOK'
    BY <1>14, <1>types DEF OtherMoves, TypeOK, ledgerVars, pressureVars
  <1>15. CASE UNCHANGED vars
    BY <1>15 DEF vars, TypeOK, ledgerVars, pressureVars, hostVars
  <1>16. QED
    BY <1>1, <1>2, <1>3, <1>4, <1>5, <1>6, <1>7, <1>8, <1>9, <1>10, <1>11, <1>12,
       <1>13, <1>14, <1>15 DEF Next

\* The controller's state keeps its type.
THEOREM TypeCorrect == Spec => []TypeOK
  BY InitType, NextType, PTL DEF Spec
-----------------------------------------------------------------------------
(* The invariant *)

\* The terms of the totals are numbers.
LEMMA TermTypes ==
    ASSUME TypeOK
    PROVE  /\ [m \in Modalities |-> Commitment(m)] \in [Modalities -> Nat]
           /\ [m \in Modalities |-> reservations[m].accelerator] \in [Modalities -> Nat]
           /\ Committed \in Nat
           /\ \A seen \in Nat :
                /\ [m \in Modalities |-> IF InSample(m, seen) THEN used[m] ELSE 0]
                       \in [Modalities -> Nat]
                /\ Shown(seen) \in Nat
  <1>1. \A m \in Modalities : /\ Commitment(m) \in Nat
                              /\ reservations[m].accelerator \in Nat
                              /\ used[m] \in Nat
    BY DEF TypeOK, Reservation, Commitment
  <1>2. \A seen \in Nat :
           [m \in Modalities |-> IF InSample(m, seen) THEN used[m] ELSE 0]
               \in [Modalities -> Nat]
    BY <1>1
  <1>3. [m \in Modalities |-> Commitment(m)] \in [Modalities -> Nat]
    BY <1>1
  <1>4. QED
    BY <1>1, <1>2, <1>3, SumNat DEF Committed, Shown

\* An empty ledger promises nothing.
LEMMA InitInv == Init => IInv
  <1> SUFFICES ASSUME Init PROVE IInv
    OBVIOUS
  <1>1. TypeOK
    BY InitType
  <1>2. LedgerOK /\ SamplesCountTheSeen /\ CallsOK /\ OwnersHold
    BY DEF Init, LedgerOK, SamplesCountTheSeen, CallsOK, OwnersHold, None, Idle
  <1>3. NeverOversold
    BY DEF Init, NeverOversold, SomeHeld, None
  <1>4. GPUCapHolds
    BY ConstantsAssumption DEF Init, GPUCapHolds, None, Sum, Modalities
  <1>5. QED
    BY <1>1, <1>2, <1>3, <1>4 DEF IInv

\* A ledger that shrinks, term by term, keeps its promises.
LEMMA Shrinks ==
    ASSUME IInv, TypeOK', UNCHANGED soldOther, SomeHeld' => SomeHeld,
           \A m \in Modalities :
              /\ Commitment(m)' <= Commitment(m)
              /\ reservations'[m].accelerator <= reservations[m].accelerator
    PROVE  NeverOversold' /\ GPUCapHolds'
  <1> DEFINE C == [m \in Modalities |-> Commitment(m)]
             A == [m \in Modalities |-> reservations[m].accelerator]
  <1>1. /\ C \in [Modalities -> Nat] /\ A \in [Modalities -> Nat]
        /\ C' \in [Modalities -> Nat] /\ A' \in [Modalities -> Nat]
    <2>1. C \in [Modalities -> Nat] /\ A \in [Modalities -> Nat]
      BY TermTypes DEF IInv
    <2>2. \A m \in Modalities : Commitment(m)' \in Nat
      BY DEF TypeOK, Reservation, Commitment
    <2>3. QED
      BY <2>1, <2>2 DEF TypeOK, Reservation
  <1>2. Sum(C)' <= Sum(C) /\ Sum(A)' <= Sum(A)
    <2>1. Sum(C') <= Sum(C)
      BY <1>1, SumMonotone
    <2>2. Sum(A') <= Sum(A)
      BY <1>1, SumMonotone
    <2>3. QED
      BY <2>1, <2>2 DEF Sum
  <1>3. Sum(C) \in Nat /\ Sum(C)' \in Nat /\ Sum(A) \in Nat /\ Sum(A)' \in Nat
    BY <1>1, SumNat DEF Sum
  <1>4. NeverOversold'
    BY <1>2, <1>3, ConstantsAssumption DEF IInv, TypeOK, NeverOversold, Committed
  <1>5. GPUCapHolds'
    BY <1>2, <1>3, ConstantsAssumption DEF IInv, GPUCapHolds
  <1>6. QED
    BY <1>4, <1>5

\* A sample that was sound stays sound while what counts as shown by it shrinks.
LEMMA SamplesStay ==
    ASSUME IInv, TypeOK', UNCHANGED call,
           \A m \in Modalities, seen \in Nat :
              seen <= epoch /\ InSample(m, seen)'
                  => InSample(m, seen) /\ used'[m] <= used[m]
    PROVE  SamplesCountTheSeen'
  <1> SUFFICES ASSUME NEW c \in Callers, call[c].at = "sampled", call[c].available >= 0
               PROVE  call[c].available + call[c].saw + Shown(call[c].seen)' <= Capacity
    BY DEF SamplesCountTheSeen
  <1> DEFINE k == call[c].seen
             S == [m \in Modalities |-> IF InSample(m, k) THEN used[m] ELSE 0]
  <1>1. k \in Nat /\ k <= epoch /\ call[c].available \in Int /\ call[c].saw \in Nat
    BY DEF IInv, CallsOK, TypeOK, Call
  <1>2. S \in [Modalities -> Nat]
    BY <1>1, TermTypes DEF IInv
  <1>3. S' \in [Modalities -> Nat] /\ \A m \in Modalities : S'[m] <= S[m]
    BY <1>1, <1>2 DEF IInv, TypeOK
  <1>4. Sum(S') <= Sum(S) /\ Sum(S) \in Nat /\ Sum(S') \in Nat
    BY <1>2, <1>3, SumMonotone, SumNat
  <1>5. Shown(k) = Sum(S) /\ Shown(k)' = Sum(S')
    BY DEF Shown, Sum
  <1>6. call[c].available + call[c].saw + Shown(k) <= Capacity
    BY DEF IInv, SamplesCountTheSeen
  <1>7. QED
    BY <1>1, <1>4, <1>5, <1>6, ConstantsAssumption

\* A step that only moves one call keeps the invariant when the call's new state does.
LEMMA CallMoves ==
    ASSUME IInv, TypeOK', NEW c \in Callers,
           UNCHANGED <<reservations, epoch, soldOther, used>>,
           \A d \in Callers \ {c} : call'[d] = call[d] /\ handle'[d] = handle[d],
           handle'[c] = handle[c] \/ (handle'[c] = "none" /\ ~Owns(c)),
           call'[c].at # "sampled",
           call'[c].seen <= epoch,
           call'[c].op = "reserve" => /\ call'[c].releasing = {} /\ handle'[c] = "none"
                                      /\ call'[c].demand.projected > 0
    PROVE  IInv'
  <1>1. LedgerOK' /\ CallsOK'
    BY DEF IInv, LedgerOK, CallsOK
  <1>2. SamplesCountTheSeen'
    BY DEF IInv, SamplesCountTheSeen, Shown, InSample
  <1>3. OwnersHold'
    BY DEF IInv, OwnersHold, Owns
  <1>4. NeverOversold' /\ GPUCapHolds'
    BY DEF IInv, NeverOversold, GPUCapHolds, Committed, Commitment, SomeHeld
  <1>5. QED
    BY <1>1, <1>2, <1>3, <1>4 DEF IInv

\* Reading the host makes a sound sample: whatever counts as shown is in it.
LEMMA TakeSampleInv ==
    ASSUME IInv, TypeOK', NEW c \in Callers, TakeSample(c)
    PROVE  IInv'
  <1> USE DEF TakeSample, ledgerVars, pressureVars, hostVars
  <1>1. LedgerOK' /\ OwnersHold'
    BY DEF IInv, LedgerOK, OwnersHold
  <1>2. NeverOversold' /\ GPUCapHolds'
    BY DEF IInv, NeverOversold, GPUCapHolds, Committed, Commitment, SomeHeld
  <1>3. PICK s \in Snapshots :
           call' = [call EXCEPT ![c] = [@ EXCEPT !.at = "sampled",
                       !.available = s.available, !.pressure = s.pressure, !.saw = other]]
    OBVIOUS
  <1>4. call[c] \in Call /\ call \in [Callers -> Call]
    BY DEF IInv, TypeOK
  <1>5. /\ call'[c].available = s.available /\ call'[c].saw = other
        /\ call'[c].seen = call[c].seen /\ call'[c].op = call[c].op
        /\ call'[c].releasing = call[c].releasing /\ call'[c].demand = call[c].demand
        /\ \A d \in Callers \ {c} : call'[d] = call[d]
    BY <1>3, <1>4 DEF Call
  <1>6. CallsOK'
    BY <1>5 DEF IInv, CallsOK
  <1>7. s.available >= 0 => s.available + other + Shown(call[c].seen) <= Capacity
    <2> DEFINE k == call[c].seen
               S == [m \in Modalities |-> IF InSample(m, k) THEN used[m] ELSE 0]
    <2>1. k \in Nat /\ other \in Nat /\ used \in [Modalities -> Nat]
      BY <1>4 DEF IInv, TypeOK, Call
    <2>2. S \in [Modalities -> Nat] /\ \A m \in Modalities : S[m] <= used[m]
      BY <2>1
    <2>3. Sum(S) <= Sum(used) /\ Sum(S) \in Nat /\ Sum(used) \in Nat
      BY <2>1, <2>2, SumMonotone, SumNat
    <2>4. s.available \in Int /\ (s.available >= 0 => s.available = HostAvailable)
      BY SnapshotTypes DEF IInv
    <2>5. QED
      BY <2>1, <2>3, <2>4, ConstantsAssumption DEF Shown, HostAvailable
  <1>8. SamplesCountTheSeen'
    <2>1. SUFFICES ASSUME NEW d \in Callers,
                          call'[d].at = "sampled" /\ call'[d].available >= 0
                   PROVE  call'[d].available + call'[d].saw + (Shown(call[d].seen))'
                              <= Capacity
      BY DEF SamplesCountTheSeen
    <2>2. call'[d].seen = call[d].seen
      BY <1>5
    <2>3. (Shown(call[d].seen))' = Shown(call[d].seen)
      BY <2>2 DEF Shown, InSample
    <2>4. CASE d = c
      BY <2>1, <2>3, <2>4, <1>5, <1>7
    <2>5. CASE d # c
      BY <2>1, <2>3, <2>5, <1>5 DEF IInv, SamplesCountTheSeen
    <2>6. QED
      BY <2>4, <2>5
  <1>9. QED
    BY <1>1, <1>2, <1>6, <1>8 DEF IInv

\* What evaluate established when it admits a Reserve.
LEMMA AdmittedMeans ==
    ASSUME IInv, NEW c \in Callers, Verdict(c) = "none", call[c].op = "reserve"
    PROVE  /\ call[c].available >= 0
           /\ call[c].available - Pending({}, call[c].seen) - call[c].demand.projected
                  >= ReserveBytes
           /\ Unified /\ GPUWorkingSet > 0 =>
                  \/ call[c].demand.accelerator = 0
                  \/ AcceleratorHeld({}) + call[c].demand.accelerator <= GPUWorkingSet
  <1> DEFINE k == call[c]
  <1>1. /\ k.available \in Int /\ k.demand.projected \in Nat /\ k.seen \in Nat
        /\ k.demand.accelerator \in Nat /\ k.releasing = {} /\ k.demand.projected > 0
    BY DEF IInv, TypeOK, Call, Demand, CallsOK
  <1>2. Freed({}, k.measured, k.seen) = 0
    BY DEF Freed, Sum, Modalities
  <1>3. Pending({}, k.seen) \in Int /\ AcceleratorHeld({}) \in Int
    <2>1. [m \in Modalities |-> IF m \in {} \/ InSample(m, k.seen) THEN 0
                                ELSE reservations[m].projected] \in [Modalities -> Int]
      BY DEF IInv, TypeOK, Reservation
    <2>2. [m \in Modalities |-> IF m \in {} THEN 0
                                ELSE reservations[m].accelerator] \in [Modalities -> Int]
      BY DEF IInv, TypeOK, Reservation
    <2>3. QED
      BY <2>1, <2>2, SumInt DEF Pending, AcceleratorHeld
  <1>4. QED
    BY <1>1, <1>2, <1>3, ConstantsAssumption DEF Verdict, evaluate, AtLeastZero

\* Inserting an admitted reservation: the stale sample still covers every promise.
LEMMA AdmitInv ==
    ASSUME IInv, TypeOK', NEW c \in Callers, DecideReserve(c),
           ~reservations[call[c].rt].held, Bypass \/ Verdict(c) = "none"
    PROVE  IInv'
  <1> DEFINE r == call[c].rt
             d == call[c].demand
             k == call[c].seen
             entry == [None EXCEPT !.held = TRUE, !.by = c,
                                   !.projected = d.projected, !.accelerator = d.accelerator]
  <1>1. /\ call[c].op = "reserve" /\ call[c].at = "sampled"
        /\ reservations' = [reservations EXCEPT ![r] = entry]
        /\ handle' = [handle EXCEPT ![c] = r]
        /\ soldOther' = call[c].saw
        /\ call' = [call EXCEPT ![c] = Idle]
        /\ UNCHANGED <<epoch, other, used>>
    BY DEF DecideReserve, hostVars
  <1>2. /\ r \in Modalities /\ d \in Demand /\ k \in Nat /\ call[c].saw \in Nat
        /\ d.projected \in Nat /\ d.accelerator \in Nat
        /\ call \in [Callers -> Call] /\ reservations \in [Modalities -> Reservation]
        /\ handle \in [Callers -> Modalities \cup {"none"}]
        /\ used \in [Modalities -> Nat] /\ epoch \in Nat
    BY DEF IInv, TypeOK, Call, Demand
  <1>3. reservations[r] = None /\ used[r] = 0
    <2>1. reservations[r] = None /\ used[r] <= reservations[r].projected
      BY <1>2 DEF IInv, LedgerOK
    <2>2. None.projected = 0
      BY DEF None
    <2>3. QED
      BY <1>2, <2>1, <2>2
  <1>4. /\ entry.held /\ entry.by = c /\ entry.projected = d.projected
        /\ entry.accelerator = d.accelerator /\ ~entry.resident
        /\ reservations'[r] = entry
        /\ \A m \in Modalities \ {r} : reservations'[m] = reservations[m]
    BY <1>1, <1>2 DEF None
  <1>5. LedgerOK'
    BY <1>1, <1>2, <1>3, <1>4 DEF IInv, LedgerOK
  <1>6. CallsOK'
    BY <1>1, <1>2 DEF IInv, CallsOK, Idle
  <1>7. OwnersHold'
    <2>1. handle[c] = "none"
      BY <1>1 DEF IInv, CallsOK
    <2>2. ASSUME NEW m \in Modalities \ {r}, reservations[m].held
          PROVE  reservations[m].by # c
      BY <2>1, <2>2 DEF IInv, OwnersHold, Modalities
    <2>3. QED
      BY <1>1, <1>2, <1>4, <2>2 DEF IInv, OwnersHold
  <1>8. SamplesCountTheSeen'
    <2>1. ASSUME NEW q \in Callers \ {c} PROVE Shown(call[q].seen)' = Shown(call[q].seen)
      <3>1. \A m \in Modalities : InSample(m, call[q].seen)' = InSample(m, call[q].seen)
        BY <1>1, <1>2, <1>3, <1>4 DEF InSample, None
      <3>2. QED
        BY <1>1, <3>1 DEF Shown
    <2>2. \A q \in Callers \ {c} : call'[q] = call[q]
      BY <1>1, <1>2
    <2>3. call'[c].at = "idle"
      BY <1>1, <1>2 DEF Idle
    <2>4. QED
      BY <2>1, <2>2, <2>3 DEF IInv, SamplesCountTheSeen
  <1>9. NeverOversold'
    <2> SUFFICES ASSUME ~Bypass
                 PROVE  Committed' + call[c].saw + ReserveBytes <= Capacity
      BY <1>1 DEF NeverOversold
    <2> DEFINE P == [m \in Modalities |-> IF m \in {} \/ InSample(m, k) THEN 0
                                          ELSE reservations[m].projected]
               S == [m \in Modalities |-> IF InSample(m, k) THEN used[m] ELSE 0]
               C == [m \in Modalities |-> Commitment(m)]
               D == [m \in Modalities |-> Commitment(m)']
    <2>1. /\ P \in [Modalities -> Int] /\ S \in [Modalities -> Int]
          /\ C \in [Modalities -> Int] /\ D \in [Modalities -> Int]
      BY <1>2 DEF TypeOK, Reservation, Commitment
    <2>2. \A m \in Modalities : C[m] <= P[m] + S[m]
      <3> SUFFICES ASSUME NEW m \in Modalities PROVE C[m] <= P[m] + S[m]
        OBVIOUS
      <3>1. /\ used[m] \in Nat /\ reservations[m].projected \in Nat
            /\ used[m] <= reservations[m].projected
        BY <1>2 DEF IInv, LedgerOK, Reservation
      <3>2. QED
        BY <3>1 DEF Commitment, InSample
    <2>3. Sum(C) <= Sum(P) + Sum(S)
      BY <2>1, <2>2, SumPlus
    <2>4. D[r] <= C[r] + d.projected /\ \A m \in Modalities \ {r} : D[m] <= C[m]
      BY <1>1, <1>2, <1>3, <1>4, <2>1 DEF Commitment, None
    <2>5. Sum(D) <= Sum(C) + d.projected
      <3> HIDE DEF C, D, r, d
      <3>1. QED
        BY <1>2, <2>1, <2>4 DEF Sum, Modalities
    <2>6. /\ call[c].available >= 0 /\ call[c].available \in Int
          /\ call[c].available - Sum(P) - d.projected >= ReserveBytes
      BY AdmittedMeans, <1>1, <1>2 DEF Pending, IInv, TypeOK, Call
    <2>7. call[c].available + call[c].saw + Sum(S) <= Capacity
      BY <1>1, <2>6 DEF IInv, SamplesCountTheSeen, Shown
    <2>8. Sum(D) \in Int /\ Sum(C) \in Int /\ Sum(P) \in Int /\ Sum(S) \in Int
      BY <2>1, SumInt
    <2>9. Committed' = Sum(D)
      BY DEF Committed
    <2>10. QED
      BY <1>2, <2>3, <2>5, <2>6, <2>7, <2>8, <2>9, ConstantsAssumption
  <1>10. GPUCapHolds'
    <2> SUFFICES ASSUME ~Bypass, Unified, GPUWorkingSet > 0
                 PROVE  Sum([m \in Modalities |-> reservations[m].accelerator])'
                            <= GPUWorkingSet
      BY DEF GPUCapHolds
    <2> DEFINE A == [m \in Modalities |-> reservations[m].accelerator]
               B == [m \in Modalities |-> reservations'[m].accelerator]
    <2>1. A \in [Modalities -> Int] /\ B \in [Modalities -> Int]
      BY <1>2 DEF TypeOK, Reservation
    <2>2. B[r] <= A[r] + d.accelerator /\ \A m \in Modalities \ {r} : B[m] <= A[m]
      <3>1. B[r] = d.accelerator /\ A[r] = 0
        <4>1. None.accelerator = 0
          BY DEF None
        <4>2. QED
          BY <1>2, <1>3, <1>4, <4>1
      <3>2. \A m \in Modalities \ {r} : B[m] = A[m]
        BY <1>4
      <3>3. QED
        BY <1>2, <2>1, <3>1, <3>2
    <2>3. Sum(B) <= Sum(A) + d.accelerator
      <3> HIDE DEF A, B, r, d
      <3>1. QED
        BY <1>2, <2>1, <2>2 DEF Sum, Modalities
    <2>4. Sum(A) <= GPUWorkingSet /\ AcceleratorHeld({}) = Sum(A)
      BY DEF IInv, GPUCapHolds, AcceleratorHeld
    <2>5. d.accelerator = 0 \/ Sum(A) + d.accelerator <= GPUWorkingSet
      BY AdmittedMeans, <1>1, <2>4
    <2>6. Sum(A) \in Int /\ Sum(B) \in Int
      BY <2>1, SumInt
    <2>7. QED
      BY <1>2, <2>3, <2>4, <2>5, <2>6, ConstantsAssumption
  <1>11. QED
    BY <1>5, <1>6, <1>7, <1>8, <1>9, <1>10 DEF IInv

\* A runtime that becomes resident gets an epoch no sample in flight has seen.
LEMMA MaterializeInv ==
    ASSUME IInv, TypeOK', NEW c \in Callers, Materialize(c)
    PROVE  IInv'
  <1> DEFINE r == handle[c]
             entry == [reservations[r] EXCEPT !.resident = TRUE, !.residentAt = epoch + 1]
  <1>1. /\ reservations' = [reservations EXCEPT ![r] = entry]
        /\ epoch' = epoch + 1 /\ epoch \in Nat
        /\ r \in Modalities /\ reservations \in [Modalities -> Reservation]
        /\ UNCHANGED <<handle, soldOther, call, used>>
        /\ ~reservations[r].resident
    BY DEF Materialize, Owns, IInv, TypeOK, hostVars
  <1>2. /\ reservations'[r] = entry
        /\ entry.held = reservations[r].held /\ entry.by = reservations[r].by
        /\ entry.projected = reservations[r].projected
        /\ entry.accelerator = reservations[r].accelerator
        /\ entry.resident /\ entry.residentAt = epoch + 1
        /\ \A m \in Modalities \ {r} : reservations'[m] = reservations[m]
    BY <1>1 DEF Reservation
  <1>3. LedgerOK'
    <2>1. reservations[r].held
      BY DEF Materialize, Owns
    <2>2. QED
      BY <1>1, <1>2, <2>1 DEF IInv, LedgerOK, TypeOK, Reservation
  <1>4. CallsOK'
    BY <1>1 DEF IInv, CallsOK, TypeOK, Call
  <1>5. OwnersHold'
    BY <1>1, <1>2 DEF IInv, OwnersHold
  <1>6. SamplesCountTheSeen'
    <2>1. ASSUME NEW m \in Modalities, NEW seen \in Nat, seen <= epoch, InSample(m, seen)'
          PROVE  InSample(m, seen) /\ used'[m] <= used[m]
      BY <1>1, <1>2, <2>1 DEF InSample, IInv, TypeOK
    <2>2. QED
      BY <1>1, <2>1, SamplesStay
  <1>7. NeverOversold' /\ GPUCapHolds'
    <2>1. ASSUME NEW m \in Modalities
          PROVE  /\ Commitment(m)' <= Commitment(m)
                 /\ reservations'[m].accelerator <= reservations[m].accelerator
      BY <1>1, <1>2 DEF Commitment, IInv, LedgerOK, TypeOK, Reservation
    <2>2. SomeHeld' => SomeHeld
      BY <1>2 DEF SomeHeld
    <2>3. QED
      BY <1>1, <2>1, <2>2, Shrinks
  <1>8. QED
    BY <1>3, <1>4, <1>5, <1>6, <1>7 DEF IInv

\* A release takes its own entry out of the ledger and touches no other.
LEMMA ReleaseInv ==
    ASSUME IInv, TypeOK', NEW c \in Callers, Release(c)
    PROVE  IInv'
  <1> DEFINE r == handle[c]
  <1>0. CASE ~Owns(c)
    <2>1. UNCHANGED <<reservations, epoch, handle, soldOther, call, used>>
      BY <1>0 DEF Release, hostVars
    <2>2. QED
      BY <2>1 DEF IInv, LedgerOK, SamplesCountTheSeen, Shown, InSample, CallsOK,
                  OwnersHold, NeverOversold, GPUCapHolds, Committed, Commitment, SomeHeld
  <1>a. CASE Owns(c)
    <2>1. /\ reservations' = [reservations EXCEPT ![r] = None]
          /\ UNCHANGED <<epoch, handle, soldOther, call, used>>
          /\ r \in Modalities /\ used[r] = 0 /\ epoch \in Nat
          /\ used \in [Modalities -> Nat]
          /\ reservations \in [Modalities -> Reservation]
      BY <1>a DEF Release, Owns, IInv, TypeOK, hostVars
    <2>2. /\ reservations'[r] = None
          /\ \A m \in Modalities \ {r} : reservations'[m] = reservations[m]
          /\ ~None.held /\ ~None.resident /\ None.projected = 0 /\ None.accelerator = 0
      BY <2>1 DEF None
    <2>3. LedgerOK'
      BY <2>1, <2>2 DEF IInv, LedgerOK
    <2>4. CallsOK' /\ OwnersHold'
      BY <2>1, <2>2 DEF IInv, CallsOK, OwnersHold
    <2>5. SamplesCountTheSeen'
      <3>1. ASSUME NEW m \in Modalities, NEW seen \in Nat, seen <= epoch,
                   InSample(m, seen)'
            PROVE  InSample(m, seen) /\ used'[m] <= used[m]
        BY <2>1, <2>2, <3>1 DEF InSample
      <3>2. QED
        BY <2>1, <3>1, SamplesStay
    <2>6. NeverOversold' /\ GPUCapHolds'
      <3>1. ASSUME NEW m \in Modalities
            PROVE  /\ Commitment(m)' <= Commitment(m)
                   /\ reservations'[m].accelerator <= reservations[m].accelerator
        BY <2>1, <2>2 DEF Commitment, Reservation
      <3>2. SomeHeld' => SomeHeld
        BY <2>2 DEF SomeHeld
      <3>3. QED
        BY <2>1, <3>1, <3>2, Shrinks
    <2>7. QED
      BY <2>3, <2>4, <2>5, <2>6 DEF IInv
  <1>b. QED
    BY <1>0, <1>a

\* Loading and exiting stay within what the reservation was sold.
LEMMA ProcessInv ==
    ASSUME IInv, TypeOK', NEW r \in Runtimes, Load(r) \/ Exit(r)
    PROVE  IInv'
  <1>1. /\ UNCHANGED <<reservations, epoch, handle, soldOther, call>>
        /\ r \in Modalities /\ used \in [Modalities -> Nat]
        /\ reservations \in [Modalities -> Reservation]
        /\ \A m \in Modalities \ {r} : used'[m] = used[m]
    BY ConstantsAssumption DEF Load, Exit, ledgerVars, IInv, TypeOK
  <1>2. /\ used'[r] <= reservations[r].projected
        /\ reservations[r].resident => used'[r] <= used[r]
    <2>1. CASE Load(r)
      BY <1>1, <2>1 DEF Load, Reservation
    <2>2. CASE Exit(r)
      BY <1>1, <2>2 DEF Exit, Reservation
    <2>3. QED
      BY <2>1, <2>2
  <1>3. LedgerOK'
    BY <1>1, <1>2 DEF IInv, LedgerOK
  <1>4. CallsOK' /\ OwnersHold'
    BY <1>1 DEF IInv, CallsOK, OwnersHold
  <1>5. SamplesCountTheSeen'
    <2>1. ASSUME NEW m \in Modalities, NEW seen \in Nat, seen <= epoch, InSample(m, seen)'
          PROVE  InSample(m, seen) /\ used'[m] <= used[m]
      BY <1>1, <1>2, <2>1 DEF InSample
    <2>2. QED
      BY <1>1, <2>1, SamplesStay
  <1>6. NeverOversold' /\ GPUCapHolds'
    <2>1. ASSUME NEW m \in Modalities
          PROVE  /\ Commitment(m)' <= Commitment(m)
                 /\ reservations'[m].accelerator <= reservations[m].accelerator
      BY <1>1, <1>2 DEF Commitment, Reservation
    <2>2. QED
      BY <1>1, <2>1, Shrinks DEF SomeHeld
  <1>7. QED
    BY <1>3, <1>4, <1>5, <1>6 DEF IInv

\* Every step of the controller and of the host keeps the invariant.
LEMMA NextInv == IInv /\ [Next]_vars => IInv'
  <1> SUFFICES ASSUME IInv, [Next]_vars PROVE IInv'
    OBVIOUS
  <1>t. TypeOK' /\ TypeOK
    BY NextType DEF IInv
  <1>types. /\ call \in [Callers -> Call] /\ epoch \in Nat
            /\ handle \in [Callers -> Modalities \cup {"none"}]
    BY <1>t DEF TypeOK
  <1>1. ASSUME NEW c \in Callers, NEW r \in Runtimes, NEW d \in Demands,
               BeginReserve(c, r, d)
        PROVE  IInv'
    <2>1. /\ call'[c].op = "reserve" /\ call'[c].at = "epoch"
          /\ call'[c].seen = epoch /\ call'[c].releasing = {} /\ call'[c].demand = d
          /\ handle'[c] = "none" /\ ~Owns(c)
          /\ \A q \in Callers \ {c} : call'[q] = call[q] /\ handle'[q] = handle[q]
          /\ UNCHANGED <<reservations, epoch, soldOther, used>>
      BY <1>1, <1>types DEF BeginReserve, Idle, hostVars
    <2>2. d.projected > 0
      BY ConstantsAssumption
    <2>3. QED
      BY <2>1, <2>2, <1>t, <1>types, CallMoves
  <1>2. ASSUME NEW c \in Callers, NEW d \in Demands, NEW rel \in ReleaseSets,
               BeginCheck(c, d, rel)
        PROVE  IInv'
    <2>1. /\ call'[c].op = "check" /\ call'[c].at = "measured" /\ call'[c].seen = 0
          /\ \A q \in Callers \ {c} : call'[q] = call[q]
          /\ UNCHANGED <<handle, reservations, epoch, soldOther, used>>
      BY <1>2, <1>types DEF BeginCheck, Idle, ledgerVars, hostVars
    <2>2. QED
      BY <2>1, <1>t, <1>types, CallMoves
  <1>3. ASSUME NEW c \in Callers, NEW rel \in ReleaseSets, BeginHeadroom(c, rel)
        PROVE  IInv'
    <2>1. /\ call'[c].op = "headroom" /\ call'[c].at = "epoch" /\ call'[c].seen = epoch
          /\ \A q \in Callers \ {c} : call'[q] = call[q]
          /\ UNCHANGED <<handle, reservations, epoch, soldOther, used>>
      BY <1>3, <1>types DEF BeginHeadroom, Idle, ledgerVars, hostVars
    <2>2. QED
      BY <2>1, <1>t, <1>types, CallMoves
  <1>4. ASSUME NEW c \in Callers, ReadEpoch(c) PROVE IInv'
    <2>1. /\ call'[c].at = "epoch" /\ call'[c].seen = epoch /\ call'[c].op = call[c].op
          /\ call'[c].releasing = call[c].releasing /\ call'[c].demand = call[c].demand
          /\ \A q \in Callers \ {c} : call'[q] = call[q]
          /\ UNCHANGED <<handle, reservations, epoch, soldOther, used>>
      BY <1>4, <1>types DEF ReadEpoch, Call, ledgerVars, hostVars
    <2>2. call[c].op = "reserve" => /\ call[c].releasing = {} /\ handle[c] = "none"
                                    /\ call[c].demand.projected > 0
      BY DEF IInv, CallsOK
    <2>3. QED
      BY <2>1, <2>2, <1>t, <1>types, CallMoves
  <1>5. ASSUME NEW c \in Callers, TakeSample(c) PROVE IInv'
    BY <1>5, <1>t, TakeSampleInv
  <1>6. ASSUME NEW c \in Callers, DecideReserve(c) PROVE IInv'
    <2>1. CASE ~reservations[call[c].rt].held /\ (Bypass \/ Verdict(c) = "none")
      BY <1>6, <1>t, <2>1, AdmitInv
    <2>2. CASE ~(~reservations[call[c].rt].held /\ (Bypass \/ Verdict(c) = "none"))
      <3>1. /\ call'[c] = Idle
            /\ \A q \in Callers \ {c} : call'[q] = call[q]
            /\ UNCHANGED <<handle, reservations, epoch, soldOther, used>>
        BY <1>6, <2>2, <1>types DEF DecideReserve, hostVars
      <3>2. Idle.op = "none" /\ Idle.at = "idle" /\ Idle.seen = 0
        BY DEF Idle
      <3>3. QED
        BY <3>1, <3>2, <1>t, <1>types, CallMoves
    <2>3. QED
      BY <2>1, <2>2
  <1>7. ASSUME NEW c \in Callers, Answer(c) PROVE IInv'
    <2>1. /\ call'[c] = Idle
          /\ \A q \in Callers \ {c} : call'[q] = call[q]
          /\ UNCHANGED <<handle, reservations, epoch, soldOther, used>>
      BY <1>7, <1>types DEF Answer, ledgerVars, hostVars
    <2>2. Idle.op = "none" /\ Idle.at = "idle" /\ Idle.seen = 0
      BY DEF Idle
    <2>3. QED
      BY <2>1, <2>2, <1>t, <1>types, CallMoves
  <1>8. ASSUME NEW c \in Callers, Materialize(c) PROVE IInv'
    BY <1>8, <1>t, MaterializeInv
  <1>9. ASSUME NEW c \in Callers, Release(c) PROVE IInv'
    BY <1>9, <1>t, ReleaseInv
  <1>10. ASSUME NEW r \in Runtimes, Load(r) \/ Exit(r) PROVE IInv'
    BY <1>10, <1>t, ProcessInv
  <1>11. CASE PollSample \/ PollApply \/ OtherMoves \/ UNCHANGED vars
    <2>1. UNCHANGED <<call, handle, reservations, epoch, soldOther, used>>
      BY <1>11 DEF PollSample, PollApply, OtherMoves, vars, ledgerVars, hostVars
    <2>2. QED
      BY <2>1, <1>t DEF IInv, LedgerOK, SamplesCountTheSeen, Shown, InSample, CallsOK,
                  OwnersHold, NeverOversold, GPUCapHolds, Committed, Commitment, SomeHeld
  <1>12. QED
    BY <1>1, <1>2, <1>3, <1>4, <1>5, <1>6, <1>7, <1>8, <1>9, <1>10, <1>11 DEF Next

\* The inductive invariant holds throughout.
LEMMA InvHolds == Spec => []IInv
  BY InitInv, NextInv, PTL DEF Spec

\* Reserve never sells the same bytes twice, on any host and for any interleaving.
THEOREM AdmissionNeverOversells == Spec => []NeverOversold
  <1>1. IInv => NeverOversold
    BY DEF IInv
  <1>2. QED
    BY <1>1, InvHolds, PTL

\* No sample in flight, however stale, hides a runtime that counts as being in it.
THEOREM StaleSamplesAreSafe == Spec => []SamplesCountTheSeen
  <1>1. IInv => SamplesCountTheSeen
    BY DEF IInv
  <1>2. QED
    BY <1>1, InvHolds, PTL

\* The sum of the runtimes' accelerator bytes stays within the GPU working set.
THEOREM GPUCapAlwaysHolds == Spec => []GPUCapHolds
  <1>1. IInv => GPUCapHolds
    BY DEF IInv
  <1>2. QED
    BY <1>1, InvHolds, PTL

\* While the rest of the computer does not grow, the runtimes leave it its reserve.
THEOREM ReserveAlwaysKept == Spec => []ReserveKept
  <1>1. ASSUME IInv, ~Bypass, SomeHeld, other <= soldOther
        PROVE  HostAvailable >= ReserveBytes
    <2> DEFINE C == [m \in Modalities |-> Commitment(m)]
    <2>1. C \in [Modalities -> Nat] /\ used \in [Modalities -> Nat]
      BY <1>1, TermTypes DEF IInv, TypeOK
    <2>2. \A m \in Modalities : used[m] <= C[m]
      BY <1>1 DEF IInv, TypeOK, Reservation, LedgerOK, Commitment
    <2>3. Sum(used) <= Sum(C) /\ Sum(used) \in Nat /\ Sum(C) \in Nat
      BY <2>1, <2>2, SumMonotone, SumNat
    <2>4. QED
      BY <1>1, <2>3, ConstantsAssumption
         DEF IInv, TypeOK, NeverOversold, Committed, HostAvailable
  <1>2. IInv => ReserveKept
    BY <1>1 DEF ReserveKept
  <1>3. QED
    BY <1>2, InvHolds, PTL

\* A process that holds memory always has its owner's reservation in the ledger.
THEOREM ProcessesAlwaysCovered == Spec => []ProcessCovered
  <1>1. ASSUME IInv, NEW m \in Modalities, used[m] > 0
        PROVE  \E c \in Callers : handle[c] = m /\ Owns(c)
    <2>1. reservations[m].held
      <3>1. used[m] <= reservations[m].projected /\ used[m] \in Nat
        BY <1>1 DEF IInv, LedgerOK, TypeOK
      <3>2. None.projected = 0
        BY DEF None
      <3>3. QED
        BY <1>1, <3>1, <3>2 DEF IInv, LedgerOK
    <2>2. reservations[m].by \in Callers /\ handle[reservations[m].by] = m
      BY <1>1, <2>1 DEF IInv, OwnersHold
    <2>3. Owns(reservations[m].by)
      BY <2>1, <2>2 DEF Owns, Modalities
    <2>4. QED
      BY <2>2, <2>3
  <1>2. IInv => ProcessCovered
    BY <1>1 DEF ProcessCovered
  <1>3. QED
    BY <1>2, InvHolds, PTL
-----------------------------------------------------------------------------
(* The preflight of a switch *)

\* A preflight asks for something.
ChecksAsk == \A c \in Callers : call[c].op = "check" => call[c].demand.projected > 0

\* A call's operation and demand are set when it begins.
LEMMA ChecksKeepAsking == TypeOK /\ ChecksAsk /\ [Next]_vars => ChecksAsk'
  <1> SUFFICES ASSUME TypeOK, ChecksAsk, [Next]_vars PROVE ChecksAsk'
    OBVIOUS
  <1>types. call \in [Callers -> Call] /\ Idle.op = "none"
    BY DEF TypeOK, Idle
  <1>1. ASSUME NEW c \in Callers, NEW r \in Runtimes, NEW d \in Demands,
               BeginReserve(c, r, d)
        PROVE  ChecksAsk'
    <2>1. call'[c].op = "reserve" /\ \A q \in Callers \ {c} : call'[q] = call[q]
      BY <1>1, <1>types DEF BeginReserve, Idle
    <2>2. QED
      BY <2>1 DEF ChecksAsk
  <1>2. ASSUME NEW c \in Callers, NEW d \in Demands, NEW rel \in ReleaseSets,
               BeginCheck(c, d, rel)
        PROVE  ChecksAsk'
    <2>1. call'[c].demand = d /\ \A q \in Callers \ {c} : call'[q] = call[q]
      BY <1>2, <1>types DEF BeginCheck, Idle
    <2>2. d.projected > 0
      BY ConstantsAssumption
    <2>3. QED
      BY <2>1, <2>2 DEF ChecksAsk
  <1>3. ASSUME NEW c \in Callers, NEW rel \in ReleaseSets, BeginHeadroom(c, rel)
        PROVE  ChecksAsk'
    <2>1. call'[c].op = "headroom" /\ \A q \in Callers \ {c} : call'[q] = call[q]
      BY <1>3, <1>types DEF BeginHeadroom, Idle
    <2>2. QED
      BY <2>1 DEF ChecksAsk
  <1>4. ASSUME NEW c \in Callers, ReadEpoch(c) \/ TakeSample(c) PROVE ChecksAsk'
    <2>1. /\ call'[c].op = call[c].op /\ call'[c].demand = call[c].demand
          /\ \A q \in Callers \ {c} : call'[q] = call[q]
      BY <1>4, <1>types DEF ReadEpoch, TakeSample, Call
    <2>2. QED
      BY <2>1 DEF ChecksAsk
  <1>5. ASSUME NEW c \in Callers, DecideReserve(c) \/ Answer(c) PROVE ChecksAsk'
    BY <1>5, <1>types DEF DecideReserve, Answer, ChecksAsk
  <1>6. CASE UNCHANGED call
    BY <1>6 DEF ChecksAsk
  <1>7. QED
    BY <1>1, <1>2, <1>3, <1>4, <1>5, <1>6 DEF Next, vars, Materialize, Release, PollSample,
       PollApply, Load, Exit, OtherMoves

\* A preflight that admits a switch counts on memory that is there, on any host and for
\* any interleaving: what it credits is what the processes hold, not what they asked for.
THEOREM PreflightAlwaysHonest == Spec => []PreflightHonest
  <1>1. ASSUME IInv, ChecksAsk, NEW c \in Callers,
               call[c].op = "check", call[c].at = "sampled", Verdict(c) = "none",
               \A m \in call[c].releasing :
                  InSample(m, call[c].seen) => call[c].measured[m] = used[m]
        PROVE  Sum([m \in Modalities |->
                       IF m \in call[c].releasing THEN 0 ELSE Commitment(m)])
                 + call[c].demand.projected + call[c].saw + ReserveBytes <= Capacity
    <2> DEFINE k == call[c]
               C == [m \in Modalities |-> IF m \in k.releasing THEN 0 ELSE Commitment(m)]
               F == [m \in Modalities |->
                       IF m \in k.releasing /\ InSample(m, k.seen)
                       THEN Credit(m, k.measured) ELSE 0]
               P == [m \in Modalities |->
                       IF m \in k.releasing \/ InSample(m, k.seen) THEN 0
                       ELSE reservations[m].projected]
               S == [m \in Modalities |-> IF InSample(m, k.seen) THEN used[m] ELSE 0]
    <2>1. /\ k.seen \in Nat /\ k.available \in Int /\ k.saw \in Nat
          /\ k.demand.projected \in Nat /\ k.demand.projected > 0
          /\ k.measured \in [Modalities -> Int]
          /\ reservations \in [Modalities -> Reservation] /\ used \in [Modalities -> Nat]
      BY <1>1 DEF IInv, TypeOK, Call, Demand, ChecksAsk
    <2>2. \A m \in Modalities :
             /\ reservations[m].projected \in Nat /\ used[m] \in Nat
             /\ k.measured[m] \in Int /\ reservations[m].resident \in BOOLEAN
             /\ used[m] <= reservations[m].projected
      BY <1>1, <2>1 DEF Reservation, IInv, LedgerOK
    <2>3. /\ C \in [Modalities -> Int] /\ F \in [Modalities -> Int]
          /\ P \in [Modalities -> Int] /\ S \in [Modalities -> Int]
      BY <2>2 DEF Commitment, Credit, Lesser
    <2>4. \A m \in Modalities : C[m] + F[m] <= S[m] + P[m]
      <3>1. ASSUME NEW m \in Modalities, m \in k.releasing PROVE C[m] + F[m] <= S[m] + P[m]
        <4>1. C[m] = 0 /\ P[m] = 0
          BY <3>1
        <4>2. CASE InSample(m, k.seen)
          BY <1>1, <2>2, <3>1, <4>1, <4>2 DEF Credit, Lesser
        <4>3. CASE ~InSample(m, k.seen)
          BY <3>1, <4>1, <4>3
        <4>4. QED
          BY <4>2, <4>3
      <3>2. ASSUME NEW m \in Modalities, m \notin k.releasing PROVE C[m] + F[m] <= S[m] + P[m]
        <4>1. F[m] = 0 /\ C[m] = Commitment(m)
          BY <3>2
        <4>2. CASE InSample(m, k.seen)
          BY <2>2, <3>2, <4>1, <4>2 DEF Commitment, InSample
        <4>3. CASE ~InSample(m, k.seen)
          BY <2>2, <3>2, <4>1, <4>3 DEF Commitment
        <4>4. QED
          BY <4>2, <4>3
      <3>3. QED
        BY <3>1, <3>2
    <2>5. /\ Sum(C) + Sum(F) <= Sum(S) + Sum(P)
          /\ Sum(C) \in Int /\ Sum(F) \in Int /\ Sum(S) \in Int /\ Sum(P) \in Int
      BY <2>3, <2>4, SumPairs, SumInt
    <2>6. /\ k.available >= 0
          /\ AtLeastZero(k.available + Sum(F) - Sum(P)) - k.demand.projected >= ReserveBytes
      <3>1. Freed(k.releasing, k.measured, k.seen) = Sum(F) /\ Pending(k.releasing, k.seen) = Sum(P)
        BY DEF Freed, Pending
      <3>2. QED
        BY <1>1, <2>1, <2>5, <3>1, ConstantsAssumption DEF Verdict, evaluate, AtLeastZero
    <2>7. k.available + k.saw + Sum(S) <= Capacity
      BY <1>1, <2>6 DEF IInv, SamplesCountTheSeen, Shown
    <2>8. QED
      BY <2>1, <2>5, <2>6, <2>7, ConstantsAssumption DEF AtLeastZero
  <1>2. IInv /\ ChecksAsk => PreflightHonest
    BY <1>1 DEF PreflightHonest
  <1>3. Init => ChecksAsk
    BY DEF Init, Idle, ChecksAsk
  <1>4. IInv => TypeOK
    BY DEF IInv
  <1>5. Spec => []ChecksAsk
    BY <1>3, <1>4, InvHolds, ChecksKeepAsking, PTL DEF Spec
  <1>6. QED
    BY <1>2, <1>5, InvHolds, PTL
-----------------------------------------------------------------------------
(* The pressure hysteresis *)

\* The samples counted towards recovery were normal, and in a row.
CountedWereNormal == normalRun <= calm /\ normalRun < RecoverySamples /\ calm <= RecoverySamples

\* Every step keeps the count honest.
LEMMA CountStaysHonest ==
    TypeOK /\ CountedWereNormal /\ [Next]_vars => CountedWereNormal'
  <1> SUFFICES ASSUME TypeOK, CountedWereNormal, [Next]_vars PROVE CountedWereNormal'
    OBVIOUS
  <1>1. CASE PollApply
    BY <1>1 DEF PollApply, TypeOK, CountedWereNormal, Lesser, RecoverySamples, Recovered, Counted
  <1>2. CASE UNCHANGED <<normalRun, calm>>
    BY <1>2 DEF CountedWereNormal
  <1>3. QED
    BY <1>1, <1>2 DEF Next, vars, pressureVars, BeginReserve, BeginCheck, BeginHeadroom,
       ReadEpoch, TakeSample, DecideReserve, Answer, Materialize, Release, PollSample,
       Load, Exit, OtherMoves

\* Only PollApply moves the pressure state.
LEMMA OnlyPollMovesState == [Next]_vars /\ ~PollApply => UNCHANGED state
  BY DEF Next, vars, pressureVars, BeginReserve, BeginCheck, BeginHeadroom, ReadEpoch,
     TakeSample, DecideReserve, Answer, Materialize, Release, PollSample, Load, Exit,
     OtherMoves

\* Admission reopens only after RecoverySamples normal Polls in a row, and a critical
\* state never eases to constrained, whatever samples the Polls take.
THEOREM RecoveryIsEarned == Spec => CalmBeforeHealthy
  <1> DEFINE Inv == TypeOK /\ CountedWereNormal
             Earned == /\ state # "healthy" /\ state' = "healthy" => calm' >= RecoverySamples
                       /\ state = "critical" => state' # "constrained"
  <1>1. Init => Inv
    BY InitType DEF Init, CountedWereNormal, RecoverySamples
  <1>2. Inv /\ [Next]_vars => Inv'
    BY NextType, CountStaysHonest
  <1>3. Inv /\ [Next]_vars => [Earned]_state
    <2> SUFFICES ASSUME Inv, PollApply PROVE Earned
      BY OnlyPollMovesState
    <2> QED
      BY DEF PollApply, TypeOK, CountedWereNormal, Lesser, RecoverySamples, Recovered, Counted
  <1>4. Spec => [][Earned]_state
    BY <1>1, <1>2, <1>3, PTL DEF Spec
  <1> QED
    BY <1>4 DEF CalmBeforeHealthy
=============================================================================
