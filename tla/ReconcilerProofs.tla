-------------------------- MODULE ReconcilerProofs --------------------------
(***************************************************************************)
(* Proofs about Reconciler: the steps of a recovery's claim, of a          *)
(* reconciliation and of a dispatch keep the inductive invariant of        *)
(* ReconcilerLemmas, so that for any number of requests, models,           *)
(* configurations, recoveries and slots a lease is of a running supervisor *)
(* that has its request's model, a claim keeps the barrier closed, nobody  *)
(* is left behind a closed barrier, and who is being served is not stopped.*)
(***************************************************************************)
EXTENDS ReconcilerLemmas

-----------------------------------------------------------------------------

\* The tuples that UNCHANGED speaks of.
USE DEF vars, config, backend, requests, recovery

\* A recovery claims an idle peer,
LEMMA ClaimedStep ==
    ASSUME IInv, At("claim", "begin"),
           Over, life = "running", MayDetach(bar), bar' = Detach(bar), claim' = Who,
           rec' = [rec EXCEPT ![Who] = [at |-> "claimed", sup |-> sup.id]],
           UNCHANGED <<modality, config, backend, q, requests, safeguard, reload, left>>
    PROVE  IInv'
  <1> USE AssumptionFacts DEF IInv
  <1>h. lane # <<>> /\ Head(lane).kind = "claim" /\ cur.at = "begin"
    BY DEF At
  <1>w. Head(lane) \in ToSet(lane) /\ Head(lane) \in Tasks /\ Who \in Nat
    BY <1>h, HeadFacts
  <1>m. Pops({}) /\ cur' = Fresh /\ cur' \in Waits /\ cur'.at = "begin"
    BY <1>h, OverFacts, TaskFacts DEF Over
  <1>s. bar.stopped = 0
    BY <1>h DEF BarrierInv, BarrierTypes, Barriers, Leases, HeadIs
  <1>b0. Who \in Recoveries
    BY <1>h, <1>w DEF LaneInv, Lane, Who
  <1>b1. /\ bar' \in Barriers(Requests, Nat) /\ Leased(bar', sup, model)
         /\ Served(bar') = Served(bar) /\ (Idle(bar') <=> Idle(bar)) /\
              bar'.stopped = bar.stopped /\ bar'.passedOver = bar.passedOver /\ ~bar'.accepting
    BY DetachedFacts
  <1>b2. Idle(bar) /\ rec[Who].at = "claiming"
    BY <1>h, <1>w DEF MayDetach, LaneInv, Lane, Who
  <1>b3. \A p \in Recoveries : rec'[p].at = IF p = Who THEN "claimed" ELSE rec[p].at
    BY <1>b0 DEF RecoveryInv, RecoveryTypes
  <1>b4. \A t \in ToSet(lane') : t \in ToSet(lane) /\ (t.kind = "claim" => t.who # Who)
    BY <1>h, <1>m DEF Pops, Alike, Who
  <1>b5. rec' \in [Recoveries -> [at : {"none", "claiming", "claimed", "killing", "releasing",
                                     "done"}, sup : Nat]]
    BY <1>b0 DEF RecoveryInv, RecoveryTypes, ConfigTypes
  <1>p0. ConfigTypes'
    BY <1>h, <1>w, <1>m, <1>s, <1>b0, <1>b1, <1>b2, <1>b3, <1>b4, <1>b5 DEF ConfigTypes
  <1>p1. LaneInv'
    <2>1. LaneTypes'
      BY <1>h, <1>w, <1>m, <1>b0 DEF LaneInv, LaneTypes, Pops
    <2>2. ASSUME NEW t \in ToSet(lane')
          PROVE  /\ t.kind = "dispatch" =>
                      t.who = q'.item /\ q'.item # NoRequest /\ q'.value = "none"
                 /\ t.kind \in {"claim", "claimKill", "claimRelease"} => t.who \in Recoveries
                 /\ t.kind = "claim" => rec'[t.who].at = "claiming"
                 /\ t.kind = "claimRelease" => rec'[t.who].at \in {"releasing", "done"}
      BY <2>2, <1>h, <1>w, <1>m, <1>b0, <1>b2, <1>b3, <1>b4 DEF LaneInv, Lane, Pops, Who
    <2>3. QED
      BY <1>m, <2>1, <2>2 DEF LaneInv, Lane, Pops
  <1>p2. QueueInv'
    <2>1. RequestTypes'
      BY <1>h, <1>w, <1>m, <1>s, <1>b0, <1>b1, <1>b2, <1>b3, <1>b4, <1>b5
         DEF QueueInv, RequestTypes
    <2>2. Running' = Running
      BY <1>h, <1>w, <1>m, <1>s, <1>b0, <1>b1, <1>b2, <1>b3, <1>b4, <1>b5, TaskFacts
         DEF Running, HeadIs, LaneInv, LaneTypes, Pops
    <2>3. Sound(q', model', req', aborted' \union rejected', Running)
      BY <1>h, <1>w, <1>m, <1>s, <1>b0, <1>b1, <1>b2, <1>b3, <1>b4, <1>b5 DEF QueueInv
    <2>4. QED
      BY <2>1, <2>2, <2>3 DEF QueueInv
  <1>p3. BarrierInv'
    <2>1. (BarrierTypes /\ Leased(bar, sup, model))'
      BY <1>h, <1>w, <1>m, <1>s, <1>b0, <1>b1, <1>b2, <1>b3, <1>b4, <1>b5
         DEF BarrierInv, BarrierTypes, Leases
    <2>2. (Served(bar) = q.active \union (IF q.value = "admitted" THEN {q.item} ELSE {}))'
      BY <1>h, <1>w, <1>m, <1>s, <1>b0, <1>b1, <1>b2, <1>b3, <1>b4, <1>b5
         DEF BarrierInv, Leases, QueueInv, Sound, Queueing
    <2>3. (/\ HeadIs("dispatch", {"update", "stop", "settle"}) => Idle(bar)
           /\ HeadIs("reconcile", {"stop"}) => Idle(bar)
           /\ bar.stopped # 0 => HeadIs("dispatch", {"drain"}) \/ HeadIs("reconcile", {"drain"}))'
      BY <1>h, <1>w, <1>m, <1>s, <1>b0, <1>b1, <1>b2, <1>b3, <1>b4, <1>b5, TaskFacts
         DEF BarrierInv, Leases, HeadIs, LaneInv, LaneTypes, Pops
    <2>4. QED
      BY <2>1, <2>2, <2>3 DEF BarrierInv, Leases
  <1>p4. RecoveryInv'
    BY <1>h, <1>w, <1>m, <1>s, <1>b0, <1>b1, <1>b2, <1>b3, <1>b4, <1>b5
       DEF RecoveryInv, RecoveryTypes, Claims, ClaimedMeansClosed
  <1>p5. TimerTypes'
    BY <1>h, <1>w, <1>m, <1>s, <1>b0, <1>b1, <1>b2, <1>b3, <1>b4, <1>b5 DEF TimerTypes
  <1>p6. Targets'
    BY <1>h, <1>w, <1>m, <1>s, <1>b0, <1>b1, <1>b2, <1>b3, <1>b4, <1>b5
       DEF Targets, Who, Current, NoSup, Running, HeadIs, LaneTypes, Pops, On
  <1>p7. Reopening'
    BY <1>h, <1>w, <1>m, <1>s, <1>b0, <1>b1, <1>b2, <1>b3, <1>b4, <1>b5
       DEF Reopening, Who, NoSup, Reopens, HeadIs, LaneTypes, Pops, Queued
  <1>p8. Rejected'
    BY <1>h, <1>w, <1>m, <1>s, <1>b0, <1>b1, <1>b2, <1>b3, <1>b4, <1>b5
       DEF Rejected, Who, Running, HeadIs, LaneTypes, Pops, Queued, QueueInv, Sound,
           Queueing
  <1>q. QED
    BY <1>p0, <1>p1, <1>p2, <1>p3, <1>p4, <1>p5, <1>p6, <1>p7, <1>p8

\* or nothing,
LEMMA UnclaimedStep ==
    ASSUME IInv, At("claim", "begin"),
           Over, RecoverIs(Who, "done"), UNCHANGED <<bar, claim>>,
           UNCHANGED <<modality, config, backend, q, requests, safeguard, reload, left>>
    PROVE  IInv'
  <1> USE AssumptionFacts DEF IInv
  <1>h. lane # <<>> /\ Head(lane).kind = "claim" /\ cur.at = "begin"
    BY DEF At
  <1>w. Head(lane) \in ToSet(lane) /\ Head(lane) \in Tasks /\ Who \in Nat
    BY <1>h, HeadFacts
  <1>m. Pops({}) /\ cur' = Fresh /\ cur' \in Waits /\ cur'.at = "begin"
    BY <1>h, OverFacts, TaskFacts DEF Over
  <1>s. bar.stopped = 0
    BY <1>h DEF BarrierInv, BarrierTypes, Barriers, Leases, HeadIs
  <1>b0. bar' = bar /\ Leased(bar', sup, model)
    BY DEF BarrierInv, Leases
  <1>b1. Who \in Recoveries
    BY <1>h, <1>w DEF LaneInv, Lane, Who
  <1>b2. rec[Who].at = "claiming"
    BY <1>h, <1>w DEF LaneInv, Lane, Who
  <1>b3. \A p \in Recoveries : rec'[p].at = IF p = Who THEN "done" ELSE rec[p].at
    BY <1>b1 DEF RecoveryInv, RecoveryTypes, RecoverIs
  <1>b4. \A t \in ToSet(lane') : t \in ToSet(lane) /\ (t.kind = "claim" => t.who # Who)
    BY <1>h, <1>m DEF Pops, Alike, Who
  <1>b5. rec' \in [Recoveries -> [at : {"none", "claiming", "claimed", "killing", "releasing",
                                     "done"}, sup : Nat]]
    BY <1>b1 DEF RecoveryInv, RecoveryTypes, RecoverIs
  <1>p0. ConfigTypes'
    BY <1>h, <1>w, <1>m, <1>s, <1>b0, <1>b1, <1>b2, <1>b3, <1>b4, <1>b5 DEF ConfigTypes
  <1>p1. LaneInv'
    <2>1. LaneTypes'
      BY <1>h, <1>w, <1>m, <1>b0 DEF LaneInv, LaneTypes, Pops
    <2>2. ASSUME NEW t \in ToSet(lane')
          PROVE  /\ t.kind = "dispatch" =>
                      t.who = q'.item /\ q'.item # NoRequest /\ q'.value = "none"
                 /\ t.kind \in {"claim", "claimKill", "claimRelease"} => t.who \in Recoveries
                 /\ t.kind = "claim" => rec'[t.who].at = "claiming"
                 /\ t.kind = "claimRelease" => rec'[t.who].at \in {"releasing", "done"}
      BY <2>2, <1>h, <1>w, <1>m, <1>b1, <1>b2, <1>b3, <1>b4 DEF LaneInv, Lane, Pops, Who
    <2>3. QED
      BY <1>m, <2>1, <2>2 DEF LaneInv, Lane, Pops
  <1>p2. QueueInv'
    <2>1. RequestTypes'
      BY <1>h, <1>w, <1>m, <1>s, <1>b0, <1>b1, <1>b2, <1>b3, <1>b4, <1>b5
         DEF QueueInv, RequestTypes
    <2>2. Running' = Running
      BY <1>h, <1>w, <1>m, <1>s, <1>b0, <1>b1, <1>b2, <1>b3, <1>b4, <1>b5, TaskFacts
         DEF Running, HeadIs, LaneInv, LaneTypes, Pops
    <2>3. Sound(q', model', req', aborted' \union rejected', Running)
      BY <1>h, <1>w, <1>m, <1>s, <1>b0, <1>b1, <1>b2, <1>b3, <1>b4, <1>b5 DEF QueueInv
    <2>4. QED
      BY <2>1, <2>2, <2>3 DEF QueueInv
  <1>p3. BarrierInv'
    <2>1. (BarrierTypes /\ Leased(bar, sup, model))'
      BY <1>h, <1>w, <1>m, <1>s, <1>b0, <1>b1, <1>b2, <1>b3, <1>b4, <1>b5
         DEF BarrierInv, BarrierTypes, Leases
    <2>2. (Served(bar) = q.active \union (IF q.value = "admitted" THEN {q.item} ELSE {}))'
      BY <1>h, <1>w, <1>m, <1>s, <1>b0, <1>b1, <1>b2, <1>b3, <1>b4, <1>b5
         DEF BarrierInv, Leases, QueueInv, Sound, Queueing
    <2>3. (/\ HeadIs("dispatch", {"update", "stop", "settle"}) => Idle(bar)
           /\ HeadIs("reconcile", {"stop"}) => Idle(bar)
           /\ bar.stopped # 0 => HeadIs("dispatch", {"drain"}) \/ HeadIs("reconcile", {"drain"}))'
      BY <1>h, <1>w, <1>m, <1>s, <1>b0, <1>b1, <1>b2, <1>b3, <1>b4, <1>b5, TaskFacts
         DEF BarrierInv, Leases, HeadIs, LaneInv, LaneTypes, Pops
    <2>4. QED
      BY <2>1, <2>2, <2>3 DEF BarrierInv, Leases
  <1>p4. RecoveryInv'
    BY <1>h, <1>w, <1>m, <1>s, <1>b0, <1>b1, <1>b2, <1>b3, <1>b4, <1>b5
       DEF RecoveryInv, RecoveryTypes, Claims, ClaimedMeansClosed
  <1>p5. TimerTypes'
    BY <1>h, <1>w, <1>m, <1>s, <1>b0, <1>b1, <1>b2, <1>b3, <1>b4, <1>b5 DEF TimerTypes
  <1>p6. Targets'
    BY <1>h, <1>w, <1>m, <1>s, <1>b0, <1>b1, <1>b2, <1>b3, <1>b4, <1>b5
       DEF Targets, Who, Current, NoSup, Running, HeadIs, LaneTypes, Pops, On
  <1>p7. Reopening'
    BY <1>h, <1>w, <1>m, <1>s, <1>b0, <1>b1, <1>b2, <1>b3, <1>b4, <1>b5
       DEF Reopening, Who, NoSup, Reopens, HeadIs, LaneTypes, Pops, Queued
  <1>p8. Rejected'
    BY <1>h, <1>w, <1>m, <1>s, <1>b0, <1>b1, <1>b2, <1>b3, <1>b4, <1>b5
       DEF Rejected, Who, Running, HeadIs, LaneTypes, Pops, Queued, QueueInv, Sound,
           Queueing
  <1>q. QED
    BY <1>p0, <1>p1, <1>p2, <1>p3, <1>p4, <1>p5, <1>p6, <1>p7, <1>p8

\* begins to kill it,
LEMMA ClaimKillStep ==
    ASSUME IInv, At("claimKill", "begin"),
           Idle(bar), ~bar.accepting, BeginKill(bar), Goto("kill"), UNCHANGED recovery,
           UNCHANGED <<modality, config, q, requests, safeguard, reload, left>>
    PROVE  IInv'
  <1> USE AssumptionFacts DEF IInv
  <1>h. lane # <<>> /\ Head(lane).kind = "claimKill" /\ cur.at = "begin"
    BY DEF At
  <1>w. Head(lane) \in ToSet(lane) /\ Head(lane) \in Tasks /\ Who \in Nat
    BY <1>h, HeadFacts
  <1>m. /\ lane' = lane /\ cur' \in Waits /\ cur'.at = "kill"
        /\ cur'.target = cur.target
    BY <1>h, GotoFacts
  <1>s. bar.stopped = 0
    BY <1>h DEF BarrierInv, BarrierTypes, Barriers, Leases, HeadIs
  <1>b0. /\ bar' \in Barriers(Requests, Nat) /\ Leased(bar', sup, model)
         /\ Served(bar') = Served(bar) /\ (Idle(bar') <=> Idle(bar)) /\ bar'.stopped = bar.stopped
         /\ bar'.passedOver = bar.passedOver
         /\ bar'.accepting = bar.accepting
         /\ life' = (IF life \in {"starting", "running"} THEN "stopping" ELSE life)
         /\ sup' = sup /\ made' = made
    <2>1. bar' = ReadySettles(bar, "failed")
      BY DEF BeginKill
    <2>2. bar' \in Barriers(Requests, Nat)
      BY <2>1, KillFacts
    <2>3. QED
      BY <2>1, <2>2, KillFacts DEF BeginKill, Barriers
  <1>p0. ConfigTypes'
    BY <1>h, <1>w, <1>m, <1>s, <1>b0 DEF ConfigTypes
  <1>p1. LaneInv'
    BY <1>h, <1>w, <1>m, <1>s, <1>b0 DEF LaneInv, LaneTypes, Lane
  <1>p2. QueueInv'
    <2>1. RequestTypes'
      BY <1>h, <1>w, <1>m, <1>s, <1>b0 DEF QueueInv, RequestTypes
    <2>2. Running' = Running
      BY <1>h, <1>w, <1>m, <1>s, <1>b0, TaskFacts DEF Running, HeadIs, LaneInv, LaneTypes
    <2>3. Sound(q', model', req', aborted' \union rejected', Running)
      BY <1>h, <1>w, <1>m, <1>s, <1>b0 DEF QueueInv
    <2>4. QED
      BY <2>1, <2>2, <2>3 DEF QueueInv
  <1>p3. BarrierInv'
    <2>1. (BarrierTypes /\ Leased(bar, sup, model))'
      BY <1>h, <1>w, <1>m, <1>s, <1>b0 DEF BarrierInv, BarrierTypes, Leases
    <2>2. (Served(bar) = q.active \union (IF q.value = "admitted" THEN {q.item} ELSE {}))'
      BY <1>h, <1>w, <1>m, <1>s, <1>b0 DEF BarrierInv, Leases, QueueInv, Sound, Queueing
    <2>3. (/\ HeadIs("dispatch", {"update", "stop", "settle"}) => Idle(bar)
           /\ HeadIs("reconcile", {"stop"}) => Idle(bar)
           /\ bar.stopped # 0 => HeadIs("dispatch", {"drain"}) \/ HeadIs("reconcile", {"drain"}))'
      BY <1>h, <1>w, <1>m, <1>s, <1>b0, TaskFacts DEF BarrierInv, Leases, HeadIs, LaneInv,
             LaneTypes
    <2>4. QED
      BY <2>1, <2>2, <2>3 DEF BarrierInv, Leases
  <1>p4. RecoveryInv'
    BY <1>h, <1>w, <1>m, <1>s, <1>b0 DEF RecoveryInv, RecoveryTypes, Claims,
                                         ClaimedMeansClosed
  <1>p5. TimerTypes'
    BY <1>h, <1>w, <1>m, <1>s, <1>b0 DEF TimerTypes
  <1>p6. Targets'
    BY <1>h, <1>w, <1>m, <1>s, <1>b0 DEF Targets, Who, Current, NoSup, Running, HeadIs,
                                         LaneTypes, On
  <1>p7. Reopening'
    BY <1>h, <1>w, <1>m, <1>s, <1>b0 DEF Reopening, Who, NoSup, Reopens, HeadIs, LaneTypes,
                                         Queued
  <1>p8. Rejected'
    BY <1>h, <1>w, <1>m, <1>s, <1>b0 DEF Rejected, Who, Running, HeadIs, LaneTypes, Queued,
                                         QueueInv, Sound, Queueing
  <1>q. QED
    BY <1>p0, <1>p1, <1>p2, <1>p3, <1>p4, <1>p5, <1>p6, <1>p7, <1>p8

\* or finds its claim moot,
LEMMA ClaimMootStep ==
    ASSUME IInv, At("claimKill", "begin"),
           Over, UNCHANGED recovery,
           UNCHANGED <<modality, config, q, requests, safeguard, reload, left>>,
             UNCHANGED <<backend, bar>>
    PROVE  IInv'
  <1> USE AssumptionFacts DEF IInv
  <1>h. lane # <<>> /\ Head(lane).kind = "claimKill" /\ cur.at = "begin"
    BY DEF At
  <1>w. Head(lane) \in ToSet(lane) /\ Head(lane) \in Tasks /\ Who \in Nat
    BY <1>h, HeadFacts
  <1>m. Pops({}) /\ cur' = Fresh /\ cur' \in Waits /\ cur'.at = "begin"
    BY <1>h, OverFacts, TaskFacts DEF Over
  <1>s. bar.stopped = 0
    BY <1>h DEF BarrierInv, BarrierTypes, Barriers, Leases, HeadIs
  <1>b0. bar' = bar /\ Leased(bar', sup, model)
    BY DEF BarrierInv, Leases
  <1>p0. ConfigTypes'
    BY <1>h, <1>w, <1>m, <1>s, <1>b0 DEF ConfigTypes
  <1>p1. LaneInv'
    BY <1>h, <1>w, <1>m, <1>s, <1>b0 DEF LaneInv, LaneTypes, Lane, Pops
  <1>p2. QueueInv'
    <2>1. RequestTypes'
      BY <1>h, <1>w, <1>m, <1>s, <1>b0 DEF QueueInv, RequestTypes
    <2>2. Running' = Running
      BY <1>h, <1>w, <1>m, <1>s, <1>b0, TaskFacts DEF Running, HeadIs, LaneInv, LaneTypes,
             Pops
    <2>3. Sound(q', model', req', aborted' \union rejected', Running)
      BY <1>h, <1>w, <1>m, <1>s, <1>b0 DEF QueueInv
    <2>4. QED
      BY <2>1, <2>2, <2>3 DEF QueueInv
  <1>p3. BarrierInv'
    <2>1. (BarrierTypes /\ Leased(bar, sup, model))'
      BY <1>h, <1>w, <1>m, <1>s, <1>b0 DEF BarrierInv, BarrierTypes, Leases
    <2>2. (Served(bar) = q.active \union (IF q.value = "admitted" THEN {q.item} ELSE {}))'
      BY <1>h, <1>w, <1>m, <1>s, <1>b0 DEF BarrierInv, Leases, QueueInv, Sound, Queueing
    <2>3. (/\ HeadIs("dispatch", {"update", "stop", "settle"}) => Idle(bar)
           /\ HeadIs("reconcile", {"stop"}) => Idle(bar)
           /\ bar.stopped # 0 => HeadIs("dispatch", {"drain"}) \/ HeadIs("reconcile", {"drain"}))'
      BY <1>h, <1>w, <1>m, <1>s, <1>b0, TaskFacts DEF BarrierInv, Leases, HeadIs, LaneInv,
             LaneTypes, Pops
    <2>4. QED
      BY <2>1, <2>2, <2>3 DEF BarrierInv, Leases
  <1>p4. RecoveryInv'
    BY <1>h, <1>w, <1>m, <1>s, <1>b0 DEF RecoveryInv, RecoveryTypes, Claims,
                                         ClaimedMeansClosed
  <1>p5. TimerTypes'
    BY <1>h, <1>w, <1>m, <1>s, <1>b0 DEF TimerTypes
  <1>p6. Targets'
    BY <1>h, <1>w, <1>m, <1>s, <1>b0 DEF Targets, Who, Current, NoSup, Running, HeadIs,
                                         LaneTypes, Pops, On
  <1>p7. Reopening'
    BY <1>h, <1>w, <1>m, <1>s, <1>b0 DEF Reopening, Who, NoSup, Reopens, HeadIs, LaneTypes,
                                         Pops, Queued
  <1>p8. Rejected'
    BY <1>h, <1>w, <1>m, <1>s, <1>b0 DEF Rejected, Who, Running, HeadIs, LaneTypes, Pops,
                                         Queued, QueueInv, Sound, Queueing
  <1>q. QED
    BY <1>p0, <1>p1, <1>p2, <1>p3, <1>p4, <1>p5, <1>p6, <1>p7, <1>p8

\* or gives its claim up.
LEMMA ClaimMootGivesUpStep ==
    ASSUME IInv, At("claimKill", "begin"),
           rec[Who].at = "killing", GiveUp(Who, Tail(lane)), cur' = Fresh,
           UNCHANGED <<modality, config, q, requests, safeguard, reload, left>>,
             UNCHANGED <<backend, bar>>
    PROVE  IInv'
  <1> USE AssumptionFacts DEF IInv
  <1>h. lane # <<>> /\ Head(lane).kind = "claimKill" /\ cur.at = "begin"
    BY DEF At
  <1>w. Head(lane) \in ToSet(lane) /\ Head(lane) \in Tasks /\ Who \in Nat
    BY <1>h, HeadFacts
  <1>m. /\ Pops({Task("claimRelease", Who)}) /\ cur' = Fresh /\ cur' \in Waits /\ cur'.at = "begin"
        /\ Task("claimRelease", Who).kind = "claimRelease" /\ Task("claimRelease", Who).who = Who
        /\ Who \in Recoveries
    <2>0. Who \in Recoveries
      BY <1>h, <1>w DEF LaneInv, Lane, Who
    <2> DEFINE t == Task("claimRelease", Who)
    <2>1. t \in Tasks /\ t.kind = "claimRelease" /\ t.who = Who /\ Fresh \in Waits /\
            Fresh.at = "begin"
      BY <1>w, TaskFacts
    <2>2. lane' = Append(Tail(lane), t)
      BY DEF GiveUp
    <2>3. Tail(lane) \in Seq(Tasks) /\ Apart(Tail(lane))
      BY <1>h, HeadFacts
    <2> HIDE DEF t
    <2>4. Grown(Tail(lane), lane', {t})
      BY <2>1, <2>2, <2>3, PushFacts DEF Alike
    <2>5. Pops({t})
      BY <1>h, <2>4, PopsFacts
    <2>6. QED
      BY <2>0, <2>1, <2>5 DEF t
  <1>s. bar.stopped = 0
    BY <1>h DEF BarrierInv, BarrierTypes, Barriers, Leases, HeadIs
  <1>b0. bar' = bar /\ Leased(bar', sup, model)
    BY DEF BarrierInv, Leases
  <1>b1. \A p \in Recoveries : rec'[p].at = IF p = Who THEN "releasing" ELSE rec[p].at
    BY <1>m DEF RecoveryInv, RecoveryTypes, RecoverIs, GiveUp
  <1>b2. claim' = IF claim = Who THEN 0 ELSE claim
    BY DEF GiveUp
  <1>b3. rec' \in [Recoveries -> [at : {"none", "claiming", "claimed", "killing", "releasing",
                                     "done"}, sup : Nat]]
    BY <1>m DEF RecoveryInv, RecoveryTypes, RecoverIs, GiveUp
  <1>p0. ConfigTypes'
    BY <1>h, <1>w, <1>m, <1>s, <1>b0, <1>b1, <1>b2, <1>b3 DEF ConfigTypes
  <1>p1. LaneInv'
    <2>1. LaneTypes'
      BY <1>h, <1>w, <1>m, <1>b0 DEF LaneInv, LaneTypes, Pops
    <2>2. ASSUME NEW t \in ToSet(lane')
          PROVE  /\ t.kind = "dispatch" =>
                      t.who = q'.item /\ q'.item # NoRequest /\ q'.value = "none"
                 /\ t.kind \in {"claim", "claimKill", "claimRelease"} => t.who \in Recoveries
                 /\ t.kind = "claim" => rec'[t.who].at = "claiming"
                 /\ t.kind = "claimRelease" => rec'[t.who].at \in {"releasing", "done"}
      BY <2>2, <1>h, <1>w, <1>m, <1>b1 DEF LaneInv, Lane, Pops, Who
    <2>3. QED
      BY <1>m, <2>1, <2>2 DEF LaneInv, Lane, Pops
  <1>p2. QueueInv'
    <2>1. RequestTypes'
      BY <1>h, <1>w, <1>m, <1>s, <1>b0, <1>b1, <1>b2, <1>b3 DEF QueueInv, RequestTypes
    <2>2. Running' = Running
      BY <1>h, <1>w, <1>m, <1>s, <1>b0, <1>b1, <1>b2, <1>b3, TaskFacts
         DEF Running, HeadIs, LaneInv, LaneTypes, Pops
    <2>3. Sound(q', model', req', aborted' \union rejected', Running)
      BY <1>h, <1>w, <1>m, <1>s, <1>b0, <1>b1, <1>b2, <1>b3 DEF QueueInv
    <2>4. QED
      BY <2>1, <2>2, <2>3 DEF QueueInv
  <1>p3. BarrierInv'
    <2>1. (BarrierTypes /\ Leased(bar, sup, model))'
      BY <1>h, <1>w, <1>m, <1>s, <1>b0, <1>b1, <1>b2, <1>b3
         DEF BarrierInv, BarrierTypes, Leases
    <2>2. (Served(bar) = q.active \union (IF q.value = "admitted" THEN {q.item} ELSE {}))'
      BY <1>h, <1>w, <1>m, <1>s, <1>b0, <1>b1, <1>b2, <1>b3
         DEF BarrierInv, Leases, QueueInv, Sound, Queueing
    <2>3. (/\ HeadIs("dispatch", {"update", "stop", "settle"}) => Idle(bar)
           /\ HeadIs("reconcile", {"stop"}) => Idle(bar)
           /\ bar.stopped # 0 => HeadIs("dispatch", {"drain"}) \/ HeadIs("reconcile", {"drain"}))'
      BY <1>h, <1>w, <1>m, <1>s, <1>b0, <1>b1, <1>b2, <1>b3, TaskFacts
         DEF BarrierInv, Leases, HeadIs, LaneInv, LaneTypes, Pops
    <2>4. QED
      BY <2>1, <2>2, <2>3 DEF BarrierInv, Leases
  <1>p4. RecoveryInv'
    BY <1>h, <1>w, <1>m, <1>s, <1>b0, <1>b1, <1>b2, <1>b3
       DEF RecoveryInv, RecoveryTypes, Claims, ClaimedMeansClosed
  <1>p5. TimerTypes'
    BY <1>h, <1>w, <1>m, <1>s, <1>b0, <1>b1, <1>b2, <1>b3 DEF TimerTypes
  <1>p6. Targets'
    BY <1>h, <1>w, <1>m, <1>s, <1>b0, <1>b1, <1>b2, <1>b3
       DEF Targets, Who, Current, NoSup, Running, HeadIs, LaneTypes, Pops, On
  <1>p7. Reopening'
    BY <1>h, <1>w, <1>m, <1>s, <1>b0, <1>b1, <1>b2, <1>b3
       DEF Reopening, Who, NoSup, Reopens, HeadIs, LaneTypes, Pops, Queued, RecoveryInv,
           RecoveryTypes
  <1>p8. Rejected'
    BY <1>h, <1>w, <1>m, <1>s, <1>b0, <1>b1, <1>b2, <1>b3
       DEF Rejected, Who, Running, HeadIs, LaneTypes, Pops, Queued, QueueInv, Sound,
           Queueing
  <1>q. QED
    BY <1>p0, <1>p1, <1>p2, <1>p3, <1>p4, <1>p5, <1>p6, <1>p7, <1>p8

\* A killed peer's recovery is over,
LEMMA ClaimKilledStep ==
    ASSUME IInv, At("claimKill", "kill"),
           EndKill, Over, UNCHANGED recovery,
           UNCHANGED <<modality, config, q, bar, requests, safeguard, reload>>
    PROVE  IInv'
  <1> USE AssumptionFacts DEF IInv
  <1>h. lane # <<>> /\ Head(lane).kind = "claimKill" /\ cur.at = "kill"
    BY DEF At
  <1>w. Head(lane) \in ToSet(lane) /\ Head(lane) \in Tasks /\ Who \in Nat
    BY <1>h, HeadFacts
  <1>m. Pops({}) /\ cur' = Fresh /\ cur' \in Waits /\ cur'.at = "begin"
    BY <1>h, OverFacts, TaskFacts DEF Over
  <1>s. bar.stopped = 0
    BY <1>h DEF BarrierInv, BarrierTypes, Barriers, Leases, HeadIs
  <1>b0. bar' = bar /\ Leased(bar', sup, model)
    BY DEF BarrierInv, Leases
  <1>b1. /\ life' \in {"idle", "failed"} /\ sup' = sup /\ made' = made
         /\ left' \in 0..MaxDisturbances
    BY DEF EndKill, Outcome, Disturb, TimerTypes
  <1>p0. ConfigTypes'
    BY <1>h, <1>w, <1>m, <1>s, <1>b0, <1>b1 DEF ConfigTypes
  <1>p1. LaneInv'
    BY <1>h, <1>w, <1>m, <1>s, <1>b0, <1>b1 DEF LaneInv, LaneTypes, Lane, Pops
  <1>p2. QueueInv'
    <2>1. RequestTypes'
      BY <1>h, <1>w, <1>m, <1>s, <1>b0, <1>b1 DEF QueueInv, RequestTypes
    <2>2. Running' = Running
      BY <1>h, <1>w, <1>m, <1>s, <1>b0, <1>b1, TaskFacts
         DEF Running, HeadIs, LaneInv, LaneTypes, Pops
    <2>3. Sound(q', model', req', aborted' \union rejected', Running)
      BY <1>h, <1>w, <1>m, <1>s, <1>b0, <1>b1 DEF QueueInv
    <2>4. QED
      BY <2>1, <2>2, <2>3 DEF QueueInv
  <1>p3. BarrierInv'
    <2>1. (BarrierTypes /\ Leased(bar, sup, model))'
      BY <1>h, <1>w, <1>m, <1>s, <1>b0, <1>b1 DEF BarrierInv, BarrierTypes, Leases
    <2>2. (Served(bar) = q.active \union (IF q.value = "admitted" THEN {q.item} ELSE {}))'
      BY <1>h, <1>w, <1>m, <1>s, <1>b0, <1>b1 DEF BarrierInv, Leases, QueueInv, Sound,
             Queueing
    <2>3. (/\ HeadIs("dispatch", {"update", "stop", "settle"}) => Idle(bar)
           /\ HeadIs("reconcile", {"stop"}) => Idle(bar)
           /\ bar.stopped # 0 => HeadIs("dispatch", {"drain"}) \/ HeadIs("reconcile", {"drain"}))'
      BY <1>h, <1>w, <1>m, <1>s, <1>b0, <1>b1, TaskFacts
         DEF BarrierInv, Leases, HeadIs, LaneInv, LaneTypes, Pops
    <2>4. QED
      BY <2>1, <2>2, <2>3 DEF BarrierInv, Leases
  <1>p4. RecoveryInv'
    BY <1>h, <1>w, <1>m, <1>s, <1>b0, <1>b1 DEF RecoveryInv, RecoveryTypes, Claims,
           ClaimedMeansClosed
  <1>p5. TimerTypes'
    BY <1>h, <1>w, <1>m, <1>s, <1>b0, <1>b1 DEF TimerTypes
  <1>p6. Targets'
    BY <1>h, <1>w, <1>m, <1>s, <1>b0, <1>b1 DEF Targets, Who, Current, NoSup, Running,
           HeadIs, LaneTypes, Pops, On
  <1>p7. Reopening'
    BY <1>h, <1>w, <1>m, <1>s, <1>b0, <1>b1 DEF Reopening, Who, NoSup, Reopens, HeadIs,
           LaneTypes, Pops, Queued
  <1>p8. Rejected'
    BY <1>h, <1>w, <1>m, <1>s, <1>b0, <1>b1 DEF Rejected, Who, Running, HeadIs, LaneTypes,
           Pops, Queued, QueueInv, Sound, Queueing
  <1>q. QED
    BY <1>p0, <1>p1, <1>p2, <1>p3, <1>p4, <1>p5, <1>p6, <1>p7, <1>p8

\* or gives its claim up.
LEMMA ClaimKilledGivesUpStep ==
    ASSUME IInv, At("claimKill", "kill"),
           EndKill, rec[Who].at = "killing", GiveUp(Who, Tail(lane)), cur' = Fresh,
           UNCHANGED <<modality, config, q, bar, requests, safeguard, reload>>
    PROVE  IInv'
  <1> USE AssumptionFacts DEF IInv
  <1>h. lane # <<>> /\ Head(lane).kind = "claimKill" /\ cur.at = "kill"
    BY DEF At
  <1>w. Head(lane) \in ToSet(lane) /\ Head(lane) \in Tasks /\ Who \in Nat
    BY <1>h, HeadFacts
  <1>m. /\ Pops({Task("claimRelease", Who)}) /\ cur' = Fresh /\ cur' \in Waits /\ cur'.at = "begin"
        /\ Task("claimRelease", Who).kind = "claimRelease" /\ Task("claimRelease", Who).who = Who
        /\ Who \in Recoveries
    <2>0. Who \in Recoveries
      BY <1>h, <1>w DEF LaneInv, Lane, Who
    <2> DEFINE t == Task("claimRelease", Who)
    <2>1. t \in Tasks /\ t.kind = "claimRelease" /\ t.who = Who /\ Fresh \in Waits /\
            Fresh.at = "begin"
      BY <1>w, TaskFacts
    <2>2. lane' = Append(Tail(lane), t)
      BY DEF GiveUp
    <2>3. Tail(lane) \in Seq(Tasks) /\ Apart(Tail(lane))
      BY <1>h, HeadFacts
    <2> HIDE DEF t
    <2>4. Grown(Tail(lane), lane', {t})
      BY <2>1, <2>2, <2>3, PushFacts DEF Alike
    <2>5. Pops({t})
      BY <1>h, <2>4, PopsFacts
    <2>6. QED
      BY <2>0, <2>1, <2>5 DEF t
  <1>s. bar.stopped = 0
    BY <1>h DEF BarrierInv, BarrierTypes, Barriers, Leases, HeadIs
  <1>b0. bar' = bar /\ Leased(bar', sup, model)
    BY DEF BarrierInv, Leases
  <1>b1. /\ life' \in {"idle", "failed"} /\ sup' = sup /\ made' = made
         /\ left' \in 0..MaxDisturbances
    BY DEF EndKill, Outcome, Disturb, TimerTypes
  <1>b2. \A p \in Recoveries : rec'[p].at = IF p = Who THEN "releasing" ELSE rec[p].at
    BY <1>m DEF RecoveryInv, RecoveryTypes, RecoverIs, GiveUp
  <1>b3. claim' = IF claim = Who THEN 0 ELSE claim
    BY DEF GiveUp
  <1>b4. rec' \in [Recoveries -> [at : {"none", "claiming", "claimed", "killing", "releasing",
                                     "done"}, sup : Nat]]
    BY <1>m DEF RecoveryInv, RecoveryTypes, RecoverIs, GiveUp
  <1>p0. ConfigTypes'
    BY <1>h, <1>w, <1>m, <1>s, <1>b0, <1>b1, <1>b2, <1>b3, <1>b4 DEF ConfigTypes
  <1>p1. LaneInv'
    <2>1. LaneTypes'
      BY <1>h, <1>w, <1>m, <1>b0 DEF LaneInv, LaneTypes, Pops
    <2>2. ASSUME NEW t \in ToSet(lane')
          PROVE  /\ t.kind = "dispatch" =>
                      t.who = q'.item /\ q'.item # NoRequest /\ q'.value = "none"
                 /\ t.kind \in {"claim", "claimKill", "claimRelease"} => t.who \in Recoveries
                 /\ t.kind = "claim" => rec'[t.who].at = "claiming"
                 /\ t.kind = "claimRelease" => rec'[t.who].at \in {"releasing", "done"}
      BY <2>2, <1>h, <1>w, <1>m, <1>b2 DEF LaneInv, Lane, Pops, Who
    <2>3. QED
      BY <1>m, <2>1, <2>2 DEF LaneInv, Lane, Pops
  <1>p2. QueueInv'
    <2>1. RequestTypes'
      BY <1>h, <1>w, <1>m, <1>s, <1>b0, <1>b1, <1>b2, <1>b3, <1>b4
         DEF QueueInv, RequestTypes
    <2>2. Running' = Running
      BY <1>h, <1>w, <1>m, <1>s, <1>b0, <1>b1, <1>b2, <1>b3, <1>b4, TaskFacts
         DEF Running, HeadIs, LaneInv, LaneTypes, Pops
    <2>3. Sound(q', model', req', aborted' \union rejected', Running)
      BY <1>h, <1>w, <1>m, <1>s, <1>b0, <1>b1, <1>b2, <1>b3, <1>b4 DEF QueueInv
    <2>4. QED
      BY <2>1, <2>2, <2>3 DEF QueueInv
  <1>p3. BarrierInv'
    <2>1. (BarrierTypes /\ Leased(bar, sup, model))'
      BY <1>h, <1>w, <1>m, <1>s, <1>b0, <1>b1, <1>b2, <1>b3, <1>b4
         DEF BarrierInv, BarrierTypes, Leases
    <2>2. (Served(bar) = q.active \union (IF q.value = "admitted" THEN {q.item} ELSE {}))'
      BY <1>h, <1>w, <1>m, <1>s, <1>b0, <1>b1, <1>b2, <1>b3, <1>b4
         DEF BarrierInv, Leases, QueueInv, Sound, Queueing
    <2>3. (/\ HeadIs("dispatch", {"update", "stop", "settle"}) => Idle(bar)
           /\ HeadIs("reconcile", {"stop"}) => Idle(bar)
           /\ bar.stopped # 0 => HeadIs("dispatch", {"drain"}) \/ HeadIs("reconcile", {"drain"}))'
      BY <1>h, <1>w, <1>m, <1>s, <1>b0, <1>b1, <1>b2, <1>b3, <1>b4, TaskFacts
         DEF BarrierInv, Leases, HeadIs, LaneInv, LaneTypes, Pops
    <2>4. QED
      BY <2>1, <2>2, <2>3 DEF BarrierInv, Leases
  <1>p4. RecoveryInv'
    BY <1>h, <1>w, <1>m, <1>s, <1>b0, <1>b1, <1>b2, <1>b3, <1>b4
       DEF RecoveryInv, RecoveryTypes, Claims, ClaimedMeansClosed
  <1>p5. TimerTypes'
    BY <1>h, <1>w, <1>m, <1>s, <1>b0, <1>b1, <1>b2, <1>b3, <1>b4 DEF TimerTypes
  <1>p6. Targets'
    BY <1>h, <1>w, <1>m, <1>s, <1>b0, <1>b1, <1>b2, <1>b3, <1>b4
       DEF Targets, Who, Current, NoSup, Running, HeadIs, LaneTypes, Pops, On
  <1>p7. Reopening'
    BY <1>h, <1>w, <1>m, <1>s, <1>b0, <1>b1, <1>b2, <1>b3, <1>b4
       DEF Reopening, Who, NoSup, Reopens, HeadIs, LaneTypes, Pops, Queued, RecoveryInv,
           RecoveryTypes
  <1>p8. Rejected'
    BY <1>h, <1>w, <1>m, <1>s, <1>b0, <1>b1, <1>b2, <1>b3, <1>b4
       DEF Rejected, Who, Running, HeadIs, LaneTypes, Pops, Queued, QueueInv, Sound,
           Queueing
  <1>q. QED
    BY <1>p0, <1>p1, <1>p2, <1>p3, <1>p4, <1>p5, <1>p6, <1>p7, <1>p8

\* A release leaves the barrier to a later claim,
LEMMA ReleaseLaterStep ==
    ASSUME IInv, At("claimRelease", "begin"),
           Over, claim # 0, UNCHANGED <<bar, claim>>, RecoverIs(Who, "done"),
           UNCHANGED <<modality, config, backend, q, requests, safeguard, reload, left>>
    PROVE  IInv'
  <1> USE AssumptionFacts DEF IInv
  <1>h. lane # <<>> /\ Head(lane).kind = "claimRelease" /\ cur.at = "begin"
    BY DEF At
  <1>w. Head(lane) \in ToSet(lane) /\ Head(lane) \in Tasks /\ Who \in Nat
    BY <1>h, HeadFacts
  <1>m. Pops({}) /\ cur' = Fresh /\ cur' \in Waits /\ cur'.at = "begin"
    BY <1>h, OverFacts, TaskFacts DEF Over
  <1>s. bar.stopped = 0
    BY <1>h DEF BarrierInv, BarrierTypes, Barriers, Leases, HeadIs
  <1>b0. Who \in Recoveries
    BY <1>h, <1>w DEF LaneInv, Lane, Who
  <1>b1. rec[Who].at \in {"releasing", "done"}
    BY <1>h, <1>w DEF LaneInv, Lane, Who
  <1>b2. \A p \in Recoveries : rec'[p].at = IF p = Who THEN "done" ELSE rec[p].at
    BY <1>b0 DEF RecoveryInv, RecoveryTypes, RecoverIs
  <1>b3. rec' \in [Recoveries -> [at : {"none", "claiming", "claimed", "killing", "releasing",
                                     "done"}, sup : Nat]]
    BY <1>b0 DEF RecoveryInv, RecoveryTypes, RecoverIs
  <1>b4. bar' = bar /\ Leased(bar', sup, model)
    BY DEF BarrierInv, Leases
  <1>b5. claim \in Recoveries /\ claim # Who /\ rec'[claim].at = rec[claim].at /\
           rec[claim].at \in {"claimed", "killing"}
    BY <1>b0, <1>b1, <1>b2 DEF RecoveryInv, RecoveryTypes, Claims
  <1>p0. ConfigTypes'
    BY <1>h, <1>w, <1>m, <1>s, <1>b0, <1>b1, <1>b2, <1>b3, <1>b4, <1>b5 DEF ConfigTypes
  <1>p1. LaneInv'
    <2>1. LaneTypes'
      BY <1>h, <1>w, <1>m, <1>b0 DEF LaneInv, LaneTypes, Pops
    <2>2. ASSUME NEW t \in ToSet(lane')
          PROVE  /\ t.kind = "dispatch" =>
                      t.who = q'.item /\ q'.item # NoRequest /\ q'.value = "none"
                 /\ t.kind \in {"claim", "claimKill", "claimRelease"} => t.who \in Recoveries
                 /\ t.kind = "claim" => rec'[t.who].at = "claiming"
                 /\ t.kind = "claimRelease" => rec'[t.who].at \in {"releasing", "done"}
      BY <2>2, <1>h, <1>w, <1>m, <1>b0, <1>b1, <1>b2 DEF LaneInv, Lane, Pops, Who
    <2>3. QED
      BY <1>m, <2>1, <2>2 DEF LaneInv, Lane, Pops
  <1>p2. QueueInv'
    <2>1. RequestTypes'
      BY <1>h, <1>w, <1>m, <1>s, <1>b0, <1>b1, <1>b2, <1>b3, <1>b4, <1>b5
         DEF QueueInv, RequestTypes
    <2>2. Running' = Running
      BY <1>h, <1>w, <1>m, <1>s, <1>b0, <1>b1, <1>b2, <1>b3, <1>b4, <1>b5, TaskFacts
         DEF Running, HeadIs, LaneInv, LaneTypes, Pops
    <2>3. Sound(q', model', req', aborted' \union rejected', Running)
      BY <1>h, <1>w, <1>m, <1>s, <1>b0, <1>b1, <1>b2, <1>b3, <1>b4, <1>b5 DEF QueueInv
    <2>4. QED
      BY <2>1, <2>2, <2>3 DEF QueueInv
  <1>p3. BarrierInv'
    <2>1. (BarrierTypes /\ Leased(bar, sup, model))'
      BY <1>h, <1>w, <1>m, <1>s, <1>b0, <1>b1, <1>b2, <1>b3, <1>b4, <1>b5
         DEF BarrierInv, BarrierTypes, Leases
    <2>2. (Served(bar) = q.active \union (IF q.value = "admitted" THEN {q.item} ELSE {}))'
      BY <1>h, <1>w, <1>m, <1>s, <1>b0, <1>b1, <1>b2, <1>b3, <1>b4, <1>b5
         DEF BarrierInv, Leases, QueueInv, Sound, Queueing
    <2>3. (/\ HeadIs("dispatch", {"update", "stop", "settle"}) => Idle(bar)
           /\ HeadIs("reconcile", {"stop"}) => Idle(bar)
           /\ bar.stopped # 0 => HeadIs("dispatch", {"drain"}) \/ HeadIs("reconcile", {"drain"}))'
      BY <1>h, <1>w, <1>m, <1>s, <1>b0, <1>b1, <1>b2, <1>b3, <1>b4, <1>b5, TaskFacts
         DEF BarrierInv, Leases, HeadIs, LaneInv, LaneTypes, Pops
    <2>4. QED
      BY <2>1, <2>2, <2>3 DEF BarrierInv, Leases
  <1>p4. RecoveryInv'
    BY <1>h, <1>w, <1>m, <1>s, <1>b0, <1>b1, <1>b2, <1>b3, <1>b4, <1>b5
       DEF RecoveryInv, RecoveryTypes, Claims, ClaimedMeansClosed
  <1>p5. TimerTypes'
    BY <1>h, <1>w, <1>m, <1>s, <1>b0, <1>b1, <1>b2, <1>b3, <1>b4, <1>b5 DEF TimerTypes
  <1>p6. Targets'
    BY <1>h, <1>w, <1>m, <1>s, <1>b0, <1>b1, <1>b2, <1>b3, <1>b4, <1>b5
       DEF Targets, Who, Current, NoSup, Running, HeadIs, LaneTypes, Pops, On
  <1>p7. Reopening'
    BY <1>h, <1>w, <1>m, <1>s, <1>b0, <1>b1, <1>b2, <1>b3, <1>b4, <1>b5
       DEF Reopening, Who, NoSup, Reopens, HeadIs, LaneTypes, Pops, Queued
  <1>p8. Rejected'
    BY <1>h, <1>w, <1>m, <1>s, <1>b0, <1>b1, <1>b2, <1>b3, <1>b4, <1>b5
       DEF Rejected, Who, Running, HeadIs, LaneTypes, Pops, Queued, QueueInv, Sound,
           Queueing
  <1>q. QED
    BY <1>p0, <1>p1, <1>p2, <1>p3, <1>p4, <1>p5, <1>p6, <1>p7, <1>p8

\* or reopens it.
LEMMA ReleaseStep ==
    ASSUME IInv, At("claimRelease", "begin"),
           Over, claim = 0, AttachBarrier(bar, snapshot), RecoverIs(Who, "done"),
           UNCHANGED <<modality, config, backend, q, requests, safeguard, reload, left>>
    PROVE  IInv'
  <1> USE AssumptionFacts DEF IInv
  <1>h. lane # <<>> /\ Head(lane).kind = "claimRelease" /\ cur.at = "begin"
    BY DEF At
  <1>w. Head(lane) \in ToSet(lane) /\ Head(lane) \in Tasks /\ Who \in Nat
    BY <1>h, HeadFacts
  <1>m. Pops({}) /\ cur' = Fresh /\ cur' \in Waits /\ cur'.at = "begin"
    BY <1>h, OverFacts, TaskFacts DEF Over
  <1>s. bar.stopped = 0
    BY <1>h DEF BarrierInv, BarrierTypes, Barriers, Leases, HeadIs
  <1>b0. Who \in Recoveries
    BY <1>h, <1>w DEF LaneInv, Lane, Who
  <1>b1. rec[Who].at \in {"releasing", "done"}
    BY <1>h, <1>w DEF LaneInv, Lane, Who
  <1>b2. \A p \in Recoveries : rec'[p].at = IF p = Who THEN "done" ELSE rec[p].at
    BY <1>b0 DEF RecoveryInv, RecoveryTypes, RecoverIs
  <1>b3. rec' \in [Recoveries -> [at : {"none", "claiming", "claimed", "killing", "releasing",
                                     "done"}, sup : Nat]]
    BY <1>b0 DEF RecoveryInv, RecoveryTypes, RecoverIs
  <1>b4. /\ bar' \in Barriers(Requests, Nat) /\ Leased(bar', sup, model)
         /\ Served(bar') = Served(bar) /\ (Idle(bar') <=> Idle(bar)) /\ bar'.stopped = bar.stopped
         /\ (bar'.accepting \/ bar'.passedOver) /\ claim' = 0
    BY AttachedFacts DEF AttachBarrier
  <1>p0. ConfigTypes'
    BY <1>h, <1>w, <1>m, <1>s, <1>b0, <1>b1, <1>b2, <1>b3, <1>b4 DEF ConfigTypes
  <1>p1. LaneInv'
    BY <1>h, <1>w, <1>m, <1>s, <1>b0, <1>b1, <1>b2, <1>b3, <1>b4
       DEF LaneInv, LaneTypes, Lane, Pops
  <1>p2. QueueInv'
    <2>1. RequestTypes'
      BY <1>h, <1>w, <1>m, <1>s, <1>b0, <1>b1, <1>b2, <1>b3, <1>b4
         DEF QueueInv, RequestTypes
    <2>2. Running' = Running
      BY <1>h, <1>w, <1>m, <1>s, <1>b0, <1>b1, <1>b2, <1>b3, <1>b4, TaskFacts
         DEF Running, HeadIs, LaneInv, LaneTypes, Pops
    <2>3. Sound(q', model', req', aborted' \union rejected', Running)
      BY <1>h, <1>w, <1>m, <1>s, <1>b0, <1>b1, <1>b2, <1>b3, <1>b4 DEF QueueInv
    <2>4. QED
      BY <2>1, <2>2, <2>3 DEF QueueInv
  <1>p3. BarrierInv'
    <2>1. (BarrierTypes /\ Leased(bar, sup, model))'
      BY <1>h, <1>w, <1>m, <1>s, <1>b0, <1>b1, <1>b2, <1>b3, <1>b4
         DEF BarrierInv, BarrierTypes, Leases
    <2>2. (Served(bar) = q.active \union (IF q.value = "admitted" THEN {q.item} ELSE {}))'
      BY <1>h, <1>w, <1>m, <1>s, <1>b0, <1>b1, <1>b2, <1>b3, <1>b4
         DEF BarrierInv, Leases, QueueInv, Sound, Queueing
    <2>3. (/\ HeadIs("dispatch", {"update", "stop", "settle"}) => Idle(bar)
           /\ HeadIs("reconcile", {"stop"}) => Idle(bar)
           /\ bar.stopped # 0 => HeadIs("dispatch", {"drain"}) \/ HeadIs("reconcile", {"drain"}))'
      BY <1>h, <1>w, <1>m, <1>s, <1>b0, <1>b1, <1>b2, <1>b3, <1>b4, TaskFacts
         DEF BarrierInv, Leases, HeadIs, LaneInv, LaneTypes, Pops
    <2>4. QED
      BY <2>1, <2>2, <2>3 DEF BarrierInv, Leases
  <1>p4. RecoveryInv'
    BY <1>h, <1>w, <1>m, <1>s, <1>b0, <1>b1, <1>b2, <1>b3, <1>b4
       DEF RecoveryInv, RecoveryTypes, Claims, ClaimedMeansClosed
  <1>p5. TimerTypes'
    BY <1>h, <1>w, <1>m, <1>s, <1>b0, <1>b1, <1>b2, <1>b3, <1>b4 DEF TimerTypes
  <1>p6. Targets'
    BY <1>h, <1>w, <1>m, <1>s, <1>b0, <1>b1, <1>b2, <1>b3, <1>b4
       DEF Targets, Who, Current, NoSup, Running, HeadIs, LaneTypes, Pops, On
  <1>p7. Reopening'
    BY <1>h, <1>w, <1>m, <1>s, <1>b0, <1>b1, <1>b2, <1>b3, <1>b4
       DEF Reopening, Who, NoSup, Reopens, HeadIs, LaneTypes, Pops, Queued
  <1>p8. Rejected'
    BY <1>h, <1>w, <1>m, <1>s, <1>b0, <1>b1, <1>b2, <1>b3, <1>b4
       DEF Rejected, Who, Running, HeadIs, LaneTypes, Pops, Queued, QueueInv, Sound,
           Queueing
  <1>q. QED
    BY <1>p0, <1>p1, <1>p2, <1>p3, <1>p4, <1>p5, <1>p6, <1>p7, <1>p8

\* All of a recovery in the lane.
LEMMA RecoveryStep ==
    ASSUME IInv, \/ Claim \/ ClaimKillBegin \/ ClaimKilled \/ ClaimRelease
    PROVE  IInv'
  <1>1. CASE Claim
    BY <1>1, ClaimedStep, UnclaimedStep DEF Claim
  <1>2. CASE ClaimKillBegin
    BY <1>2, ClaimKillStep, ClaimMootStep, ClaimMootGivesUpStep DEF ClaimKillBegin, Over
  <1>3. CASE ClaimKilled
    BY <1>3, ClaimKilledStep, ClaimKilledGivesUpStep DEF ClaimKilled, Over
  <1>4. CASE ClaimRelease
    BY <1>4, ReleaseLaterStep, ReleaseStep DEF ClaimRelease
  <1>5. QED
    BY <1>1, <1>2, <1>3, <1>4

\* A round with nothing to apply ends,
LEMMA RoundOverStep ==
    ASSUME IInv, At("reconcile", "begin"),
           Over, scheduled' = FALSE,
           UNCHANGED <<modality, disk, snapshot, applied, backend, q, bar, requests, recovery,
                       safeguard, reload, left>>
    PROVE  IInv'
  <1> USE AssumptionFacts DEF IInv
  <1>h. lane # <<>> /\ Head(lane).kind = "reconcile" /\ cur.at = "begin"
    BY DEF At
  <1>w. Head(lane) \in ToSet(lane) /\ Head(lane) \in Tasks /\ Who \in Nat
    BY <1>h, HeadFacts
  <1>m. Pops({}) /\ cur' = Fresh /\ cur' \in Waits /\ cur'.at = "begin"
    BY <1>h, OverFacts, TaskFacts DEF Over
  <1>b0. bar' = bar /\ Leased(bar', sup, model)
    BY DEF BarrierInv, Leases
  <1>b1. (scheduled' <=> FALSE) /\ scheduled' \in BOOLEAN /\
           \A t \in ToSet(lane') : t.kind # "reconcile"
    BY <1>h, <1>m DEF Pops, Alike
  <1>p0. ConfigTypes'
    BY <1>h, <1>w, <1>m, <1>b0, <1>b1 DEF ConfigTypes
  <1>p1. LaneInv'
    BY <1>h, <1>w, <1>m, <1>b0, <1>b1 DEF LaneInv, LaneTypes, Lane, Pops
  <1>p2. QueueInv'
    <2>1. RequestTypes'
      BY <1>h, <1>w, <1>m, <1>b0, <1>b1 DEF QueueInv, RequestTypes
    <2>2. Running' = Running
      BY <1>h, <1>w, <1>m, <1>b0, <1>b1, TaskFacts DEF Running, HeadIs, LaneInv, LaneTypes,
             Pops
    <2>3. Sound(q', model', req', aborted' \union rejected', Running)
      BY <1>h, <1>w, <1>m, <1>b0, <1>b1 DEF QueueInv
    <2>4. QED
      BY <2>1, <2>2, <2>3 DEF QueueInv
  <1>p3. BarrierInv'
    <2>1. (BarrierTypes /\ Leased(bar, sup, model))'
      BY <1>h, <1>w, <1>m, <1>b0, <1>b1 DEF BarrierInv, BarrierTypes, Leases
    <2>2. (Served(bar) = q.active \union (IF q.value = "admitted" THEN {q.item} ELSE {}))'
      BY <1>h, <1>w, <1>m, <1>b0, <1>b1 DEF BarrierInv, Leases, QueueInv, Sound, Queueing
    <2>3. (/\ HeadIs("dispatch", {"update", "stop", "settle"}) => Idle(bar)
           /\ HeadIs("reconcile", {"stop"}) => Idle(bar)
           /\ bar.stopped # 0 => HeadIs("dispatch", {"drain"}) \/ HeadIs("reconcile", {"drain"}))'
      BY <1>h, <1>w, <1>m, <1>b0, <1>b1, TaskFacts DEF BarrierInv, Leases, HeadIs, LaneInv,
             LaneTypes, Pops
    <2>4. QED
      BY <2>1, <2>2, <2>3 DEF BarrierInv, Leases
  <1>p4. RecoveryInv'
    BY <1>h, <1>w, <1>m, <1>b0, <1>b1 DEF RecoveryInv, RecoveryTypes, Claims,
                                          ClaimedMeansClosed
  <1>p5. TimerTypes'
    BY <1>h, <1>w, <1>m, <1>b0, <1>b1 DEF TimerTypes
  <1>p6. Targets'
    BY <1>h, <1>w, <1>m, <1>b0, <1>b1 DEF Targets, Who, Current, NoSup, Running, HeadIs,
                                          LaneTypes, Pops, On
  <1>p7. Reopening'
    BY <1>h, <1>w, <1>m, <1>b0, <1>b1 DEF Reopening, Who, NoSup, Reopens, HeadIs, LaneTypes,
                                          Pops, Queued
  <1>p8. Rejected'
    BY <1>h, <1>w, <1>m, <1>b0, <1>b1 DEF Rejected, Who, Running, HeadIs, LaneTypes, Pops,
                                          Queued, QueueInv, Sound, Queueing
  <1>q. QED
    BY <1>p0, <1>p1, <1>p2, <1>p3, <1>p4, <1>p5, <1>p6, <1>p7, <1>p8

\* one that changes nothing is applied,
LEMMA RoundAppliedStep ==
    ASSUME IInv, At("reconcile", "begin"),
           applied.rev # snapshot.rev, PlanAction(applied, snapshot) = "unchanged",
           ~(sup = NoSup /\ On(snapshot)), applied' = snapshot,
           UNCHANGED <<modality, disk, snapshot, scheduled, backend, lane, cur, q, bar, requests,
                       recovery, safeguard, reload, left>>
    PROVE  IInv'
  <1> USE AssumptionFacts DEF IInv
  <1>h. lane # <<>> /\ Head(lane).kind = "reconcile" /\ cur.at = "begin"
    BY DEF At
  <1>w. Head(lane) \in ToSet(lane) /\ Head(lane) \in Tasks /\ Who \in Nat
    BY <1>h, HeadFacts
  <1>s. bar.stopped = 0
    BY <1>h DEF BarrierInv, BarrierTypes, Barriers, Leases, HeadIs
  <1>b0. bar' = bar /\ Leased(bar', sup, model)
    BY DEF BarrierInv, Leases
  <1>b1. applied.rev \in Nat /\ snapshot.rev \in Nat /\ applied.rev <= snapshot.rev
    BY DEF ConfigTypes, Snapshots
  <1>b2. (On(applied) <=> On(snapshot)) /\ (On(applied) => applied.model = snapshot.model)
    BY PlanFacts
  <1>p0. ConfigTypes'
    BY <1>h, <1>w, <1>s, <1>b0, <1>b1, <1>b2 DEF ConfigTypes
  <1>p1. LaneInv'
    BY <1>h, <1>w, <1>s, <1>b0, <1>b1, <1>b2 DEF LaneInv, LaneTypes, Lane
  <1>p2. QueueInv'
    <2>1. RequestTypes'
      BY <1>h, <1>w, <1>s, <1>b0, <1>b1, <1>b2 DEF QueueInv, RequestTypes
    <2>2. Running' = Running
      BY <1>h, <1>w, <1>s, <1>b0, <1>b1, <1>b2, TaskFacts
         DEF Running, HeadIs, LaneInv, LaneTypes
    <2>3. Sound(q', model', req', aborted' \union rejected', Running)
      BY <1>h, <1>w, <1>s, <1>b0, <1>b1, <1>b2 DEF QueueInv
    <2>4. QED
      BY <2>1, <2>2, <2>3 DEF QueueInv
  <1>p3. BarrierInv'
    <2>1. (BarrierTypes /\ Leased(bar, sup, model))'
      BY <1>h, <1>w, <1>s, <1>b0, <1>b1, <1>b2 DEF BarrierInv, BarrierTypes, Leases
    <2>2. (Served(bar) = q.active \union (IF q.value = "admitted" THEN {q.item} ELSE {}))'
      BY <1>h, <1>w, <1>s, <1>b0, <1>b1, <1>b2 DEF BarrierInv, Leases, QueueInv, Sound,
             Queueing
    <2>3. (/\ HeadIs("dispatch", {"update", "stop", "settle"}) => Idle(bar)
           /\ HeadIs("reconcile", {"stop"}) => Idle(bar)
           /\ bar.stopped # 0 => HeadIs("dispatch", {"drain"}) \/ HeadIs("reconcile", {"drain"}))'
      BY <1>h, <1>w, <1>s, <1>b0, <1>b1, <1>b2, TaskFacts
         DEF BarrierInv, Leases, HeadIs, LaneInv, LaneTypes
    <2>4. QED
      BY <2>1, <2>2, <2>3 DEF BarrierInv, Leases
  <1>p4. RecoveryInv'
    BY <1>h, <1>w, <1>s, <1>b0, <1>b1, <1>b2 DEF RecoveryInv, RecoveryTypes, Claims,
           ClaimedMeansClosed
  <1>p5. TimerTypes'
    BY <1>h, <1>w, <1>s, <1>b0, <1>b1, <1>b2 DEF TimerTypes
  <1>p6. Targets'
    BY <1>h, <1>w, <1>s, <1>b0, <1>b1, <1>b2 DEF Targets, Who, Current, NoSup, Running,
           HeadIs, LaneTypes, On
  <1>p7. Reopening'
    BY <1>h, <1>w, <1>s, <1>b0, <1>b1, <1>b2 DEF Reopening, Who, NoSup, Reopens, HeadIs,
           LaneTypes, Queued
  <1>p8. Rejected'
    BY <1>h, <1>w, <1>s, <1>b0, <1>b1, <1>b2 DEF Rejected, Who, Running, HeadIs, LaneTypes,
           Queued, QueueInv, Sound, Queueing
  <1>q. QED
    BY <1>p0, <1>p1, <1>p2, <1>p3, <1>p4, <1>p5, <1>p6, <1>p7, <1>p8

\* one that misses its supervisor adds it,
LEMMA RoundAddsStep ==
    ASSUME IInv, At("reconcile", "begin"),
           applied.rev # snapshot.rev, sup = NoSup, On(snapshot), Add(snapshot),
           AttachBarrier(bar, snapshot), applied' = snapshot,
           UNCHANGED <<modality, disk, snapshot, scheduled, lane, cur, q, requests, rec, safeguard,
                       reload, left>>
    PROVE  IInv'
  <1> USE AssumptionFacts DEF IInv
  <1>h. lane # <<>> /\ Head(lane).kind = "reconcile" /\ cur.at = "begin"
    BY DEF At
  <1>w. Head(lane) \in ToSet(lane) /\ Head(lane) \in Tasks /\ Who \in Nat
    BY <1>h, HeadFacts
  <1>s. bar.stopped = 0
    BY <1>h DEF BarrierInv, BarrierTypes, Barriers, Leases, HeadIs
  <1>b0. /\ bar' \in Barriers(Requests, Nat) /\ Leased(bar', sup', model)
         /\ Served(bar') = Served(bar) /\ Idle(bar') /\ Idle(bar)
         /\ bar'.stopped = 0 /\ (bar'.accepting \/ bar'.passedOver)
         /\ sup' \in [id : Nat, model : Models \union {NoModel}] /\ made' \in Nat
         /\ sup' # NoSup /\ sup'.model = snapshot.model /\ life' = "idle" /\ claim' = 0
    <2>1. bar' = (IF On(snapshot) THEN Attach(bar) ELSE PassOver(bar)) /\ claim' = 0
      BY DEF AttachBarrier
    <2>2. snapshot.model \in Models
      BY DEF ConfigTypes, Snapshots, Targets, HeadIs
    <2>3. QED
      BY <2>1, <2>2, AddFacts
  <1>b1. applied.rev \in Nat /\ snapshot.rev \in Nat /\ applied.rev <= snapshot.rev
    BY DEF ConfigTypes, Snapshots
  <1>p0. ConfigTypes'
    BY <1>h, <1>w, <1>s, <1>b0, <1>b1 DEF ConfigTypes
  <1>p1. LaneInv'
    BY <1>h, <1>w, <1>s, <1>b0, <1>b1 DEF LaneInv, LaneTypes, Lane
  <1>p2. QueueInv'
    <2>1. RequestTypes'
      BY <1>h, <1>w, <1>s, <1>b0, <1>b1 DEF QueueInv, RequestTypes
    <2>2. Running' = Running
      BY <1>h, <1>w, <1>s, <1>b0, <1>b1, TaskFacts DEF Running, HeadIs, LaneInv, LaneTypes
    <2>3. Sound(q', model', req', aborted' \union rejected', Running)
      BY <1>h, <1>w, <1>s, <1>b0, <1>b1 DEF QueueInv
    <2>4. QED
      BY <2>1, <2>2, <2>3 DEF QueueInv
  <1>p3. BarrierInv'
    <2>1. (BarrierTypes /\ Leased(bar, sup, model))'
      BY <1>h, <1>w, <1>s, <1>b0, <1>b1 DEF BarrierInv, BarrierTypes, Leases
    <2>2. (Served(bar) = q.active \union (IF q.value = "admitted" THEN {q.item} ELSE {}))'
      BY <1>h, <1>w, <1>s, <1>b0, <1>b1 DEF BarrierInv, Leases, QueueInv, Sound, Queueing
    <2>3. (/\ HeadIs("dispatch", {"update", "stop", "settle"}) => Idle(bar)
           /\ HeadIs("reconcile", {"stop"}) => Idle(bar)
           /\ bar.stopped # 0 => HeadIs("dispatch", {"drain"}) \/ HeadIs("reconcile", {"drain"}))'
      BY <1>h, <1>w, <1>s, <1>b0, <1>b1, TaskFacts DEF BarrierInv, Leases, HeadIs, LaneInv,
             LaneTypes
    <2>4. QED
      BY <2>1, <2>2, <2>3 DEF BarrierInv, Leases
  <1>p4. RecoveryInv'
    BY <1>h, <1>w, <1>s, <1>b0, <1>b1 DEF RecoveryInv, RecoveryTypes, Claims,
                                          ClaimedMeansClosed
  <1>p5. TimerTypes'
    BY <1>h, <1>w, <1>s, <1>b0, <1>b1 DEF TimerTypes
  <1>p6. Targets'
    BY <1>h, <1>w, <1>s, <1>b0, <1>b1 DEF Targets, Who, Current, NoSup, Running, HeadIs,
                                          LaneTypes, On
  <1>p7. Reopening'
    BY <1>h, <1>w, <1>s, <1>b0, <1>b1 DEF Reopening, Who, NoSup, Reopens, HeadIs, LaneTypes,
                                          Queued
  <1>p8. Rejected'
    BY <1>h, <1>w, <1>s, <1>b0, <1>b1 DEF Rejected, Who, Running, HeadIs, LaneTypes, Queued,
                                          QueueInv, Sound, Queueing
  <1>q. QED
    BY <1>p0, <1>p1, <1>p2, <1>p3, <1>p4, <1>p5, <1>p6, <1>p7, <1>p8

\* a replacement is checked to fit,
LEMMA RoundChecksStep ==
    ASSUME IInv, At("reconcile", "begin"),
           applied.rev # snapshot.rev, sup # NoSup, lane' = lane,
           cur' = [cur EXCEPT !.at = "preflight", !.target = snapshot],
           UNCHANGED <<modality, disk, snapshot, applied, scheduled, backend, q, bar, requests,
                       recovery, safeguard, reload, left>>
    PROVE  IInv'
  <1> USE AssumptionFacts DEF IInv
  <1>h. lane # <<>> /\ Head(lane).kind = "reconcile" /\ cur.at = "begin"
    BY DEF At
  <1>w. Head(lane) \in ToSet(lane) /\ Head(lane) \in Tasks /\ Who \in Nat
    BY <1>h, HeadFacts
  <1>s. bar.stopped = 0
    BY <1>h DEF BarrierInv, BarrierTypes, Barriers, Leases, HeadIs
  <1>b0. bar' = bar /\ Leased(bar', sup, model)
    BY DEF BarrierInv, Leases
  <1>b1. applied.rev \in Nat /\ snapshot.rev \in Nat /\ applied.rev <= snapshot.rev
    BY DEF ConfigTypes, Snapshots
  <1>b2. /\ lane' = lane /\ cur' \in Waits /\ cur'.at = "preflight" /\ cur'.target = snapshot
         /\ applied.rev < snapshot.rev /\ snapshot.model \in Models
    <2>1. /\ cur \in Waits /\ snapshot.model \in Models
          /\ snapshot \in [rev : Nat, model : Models \union {NoModel}, selected : SUBSET Models]
      BY DEF LaneInv, LaneTypes, ConfigTypes, Snapshots
    <2>2. applied.rev < snapshot.rev
      BY <1>b1
    <2>3. QED
      BY <2>1, <2>2 DEF Waits
  <1>p0. ConfigTypes'
    BY <1>h, <1>w, <1>s, <1>b0, <1>b1, <1>b2 DEF ConfigTypes
  <1>p1. LaneInv'
    BY <1>h, <1>w, <1>s, <1>b0, <1>b1, <1>b2 DEF LaneInv, LaneTypes, Lane
  <1>p2. QueueInv'
    <2>1. RequestTypes'
      BY <1>h, <1>w, <1>s, <1>b0, <1>b1, <1>b2 DEF QueueInv, RequestTypes
    <2>2. Running' = Running
      BY <1>h, <1>w, <1>s, <1>b0, <1>b1, <1>b2, TaskFacts
         DEF Running, HeadIs, LaneInv, LaneTypes
    <2>3. Sound(q', model', req', aborted' \union rejected', Running)
      BY <1>h, <1>w, <1>s, <1>b0, <1>b1, <1>b2 DEF QueueInv
    <2>4. QED
      BY <2>1, <2>2, <2>3 DEF QueueInv
  <1>p3. BarrierInv'
    <2>1. (BarrierTypes /\ Leased(bar, sup, model))'
      BY <1>h, <1>w, <1>s, <1>b0, <1>b1, <1>b2 DEF BarrierInv, BarrierTypes, Leases
    <2>2. (Served(bar) = q.active \union (IF q.value = "admitted" THEN {q.item} ELSE {}))'
      BY <1>h, <1>w, <1>s, <1>b0, <1>b1, <1>b2 DEF BarrierInv, Leases, QueueInv, Sound,
             Queueing
    <2>3. (/\ HeadIs("dispatch", {"update", "stop", "settle"}) => Idle(bar)
           /\ HeadIs("reconcile", {"stop"}) => Idle(bar)
           /\ bar.stopped # 0 => HeadIs("dispatch", {"drain"}) \/ HeadIs("reconcile", {"drain"}))'
      BY <1>h, <1>w, <1>s, <1>b0, <1>b1, <1>b2, TaskFacts
         DEF BarrierInv, Leases, HeadIs, LaneInv, LaneTypes
    <2>4. QED
      BY <2>1, <2>2, <2>3 DEF BarrierInv, Leases
  <1>p4. RecoveryInv'
    BY <1>h, <1>w, <1>s, <1>b0, <1>b1, <1>b2 DEF RecoveryInv, RecoveryTypes, Claims,
           ClaimedMeansClosed
  <1>p5. TimerTypes'
    BY <1>h, <1>w, <1>s, <1>b0, <1>b1, <1>b2 DEF TimerTypes
  <1>p6. Targets'
    BY <1>h, <1>w, <1>s, <1>b0, <1>b1, <1>b2 DEF Targets, Who, Current, NoSup, Running,
           HeadIs, LaneTypes, On
  <1>p7. Reopening'
    BY <1>h, <1>w, <1>s, <1>b0, <1>b1, <1>b2 DEF Reopening, Who, NoSup, Reopens, HeadIs,
           LaneTypes, Queued
  <1>p8. Rejected'
    BY <1>h, <1>w, <1>s, <1>b0, <1>b1, <1>b2 DEF Rejected, Who, Running, HeadIs, LaneTypes,
           Queued, QueueInv, Sound, Queueing
  <1>q. QED
    BY <1>p0, <1>p1, <1>p2, <1>p3, <1>p4, <1>p5, <1>p6, <1>p7, <1>p8

\* and the barrier is drained,
LEMMA RoundDrainsStep ==
    ASSUME IInv, At("reconcile", "begin"),
           applied.rev # snapshot.rev, Drain, lane' = lane,
           cur' = [cur EXCEPT !.at = "drain", !.target = snapshot],
           UNCHANGED <<modality, disk, snapshot, applied, scheduled, q, requests,
                       recovery, safeguard, reload, left>>
    PROVE  IInv'
  <1> USE AssumptionFacts DEF IInv
  <1>h. lane # <<>> /\ Head(lane).kind = "reconcile" /\ cur.at = "begin"
    BY DEF At
  <1>w. Head(lane) \in ToSet(lane) /\ Head(lane) \in Tasks /\ Who \in Nat
    BY <1>h, HeadFacts
  <1>b0. /\ bar' \in Barriers(Requests, Nat) /\ Leased(bar', sup, model)
         /\ Served(bar') = Served(bar) /\ (Idle(bar') <=> Idle(bar))
         /\ bar'.passedOver = bar.passedOver /\ ~bar'.accepting
         /\ sup' = sup /\ made' = made /\ life' \in {life, "idle"}
    BY DrainFacts
  <1>b1. applied.rev \in Nat /\ snapshot.rev \in Nat /\ applied.rev <= snapshot.rev
    BY DEF ConfigTypes, Snapshots
  <1>b2. /\ lane' = lane /\ cur' \in Waits /\ cur'.at = "drain" /\ cur'.target = snapshot
         /\ applied.rev < snapshot.rev /\ snapshot.model \in Models
    <2>1. /\ cur \in Waits /\ snapshot.model \in Models
          /\ snapshot \in [rev : Nat, model : Models \union {NoModel}, selected : SUBSET Models]
      BY DEF LaneInv, LaneTypes, ConfigTypes, Snapshots
    <2>2. applied.rev < snapshot.rev
      BY <1>b1
    <2>3. QED
      BY <2>1, <2>2 DEF Waits
  <1>p0. ConfigTypes'
    BY <1>h, <1>w, <1>b0, <1>b1, <1>b2 DEF ConfigTypes
  <1>p1. LaneInv'
    BY <1>h, <1>w, <1>b0, <1>b1, <1>b2 DEF LaneInv, LaneTypes, Lane
  <1>p2. QueueInv'
    <2>1. RequestTypes'
      BY <1>h, <1>w, <1>b0, <1>b1, <1>b2 DEF QueueInv, RequestTypes
    <2>2. Running' = Running
      BY <1>h, <1>w, <1>b0, <1>b1, <1>b2, TaskFacts DEF Running, HeadIs, LaneInv, LaneTypes
    <2>3. Sound(q', model', req', aborted' \union rejected', Running)
      BY <1>h, <1>w, <1>b0, <1>b1, <1>b2 DEF QueueInv
    <2>4. QED
      BY <2>1, <2>2, <2>3 DEF QueueInv
  <1>p3. BarrierInv'
    <2>1. (BarrierTypes /\ Leased(bar, sup, model))'
      BY <1>h, <1>w, <1>b0, <1>b1, <1>b2 DEF BarrierInv, BarrierTypes, Leases
    <2>2. (Served(bar) = q.active \union (IF q.value = "admitted" THEN {q.item} ELSE {}))'
      BY <1>h, <1>w, <1>b0, <1>b1, <1>b2 DEF BarrierInv, Leases, QueueInv, Sound, Queueing
    <2>3. (/\ HeadIs("dispatch", {"update", "stop", "settle"}) => Idle(bar)
           /\ HeadIs("reconcile", {"stop"}) => Idle(bar)
           /\ bar.stopped # 0 => HeadIs("dispatch", {"drain"}) \/ HeadIs("reconcile", {"drain"}))'
      BY <1>h, <1>w, <1>b0, <1>b1, <1>b2, TaskFacts DEF BarrierInv, Leases, HeadIs, LaneInv,
             LaneTypes
    <2>4. QED
      BY <2>1, <2>2, <2>3 DEF BarrierInv, Leases
  <1>p4. RecoveryInv'
    BY <1>h, <1>w, <1>b0, <1>b1, <1>b2 DEF RecoveryInv, RecoveryTypes, Claims,
                                           ClaimedMeansClosed
  <1>p5. TimerTypes'
    BY <1>h, <1>w, <1>b0, <1>b1, <1>b2 DEF TimerTypes
  <1>p6. Targets'
    BY <1>h, <1>w, <1>b0, <1>b1, <1>b2 DEF Targets, Who, Current, NoSup, Running, HeadIs,
                                           LaneTypes, On
  <1>p7. Reopening'
    BY <1>h, <1>w, <1>b0, <1>b1, <1>b2 DEF Reopening, Who, NoSup, Reopens, HeadIs,
                                           LaneTypes, Queued
  <1>p8. Rejected'
    BY <1>h, <1>w, <1>b0, <1>b1, <1>b2 DEF Rejected, Who, Running, HeadIs, LaneTypes,
                                           Queued, QueueInv, Sound, Queueing
  <1>q. QED
    BY <1>p0, <1>p1, <1>p2, <1>p3, <1>p4, <1>p5, <1>p6, <1>p7, <1>p8

\* with the queue rejected, when the modality is removed.
LEMMA RoundRejectsStep ==
    ASSUME IInv, At("reconcile", "begin"),
           applied.rev # snapshot.rev, DrainFor(snapshot), ~On(snapshot), lane' = lane,
           cur' = [cur EXCEPT !.at = "drain", !.target = snapshot],
           UNCHANGED <<modality, disk, snapshot, applied, scheduled, model, aborted,
                       recovery, safeguard, reload, left>>
    PROVE  IInv'
  <1> USE AssumptionFacts DEF IInv
  <1>h. lane # <<>> /\ Head(lane).kind = "reconcile" /\ cur.at = "begin"
    BY DEF At
  <1>w. Head(lane) \in ToSet(lane) /\ Head(lane) \in Tasks /\ Who \in Nat
    BY <1>h, HeadFacts
  <1>b0. /\ bar' \in Barriers(Requests, Nat) /\ Leased(bar', sup, model)
         /\ Served(bar') = Served(bar) /\ (Idle(bar') <=> Idle(bar))
         /\ bar'.passedOver = bar.passedOver /\ ~bar'.accepting
         /\ sup' = sup /\ made' = made /\ life' \in {life, "idle"}
    BY DrainFacts DEF DrainFor
  <1>b1. applied.rev \in Nat /\ snapshot.rev \in Nat /\ applied.rev <= snapshot.rev
    BY DEF ConfigTypes, Snapshots
  <1>b2. /\ lane' = lane /\ cur' \in Waits /\ cur'.at = "drain" /\ cur'.target = snapshot
         /\ applied.rev < snapshot.rev /\ snapshot.model \in Models
    <2>1. /\ cur \in Waits /\ snapshot.model \in Models
          /\ snapshot \in [rev : Nat, model : Models \union {NoModel}, selected : SUBSET Models]
      BY DEF LaneInv, LaneTypes, ConfigTypes, Snapshots
    <2>2. applied.rev < snapshot.rev
      BY <1>b1
    <2>3. QED
      BY <2>1, <2>2 DEF Waits
  <1>b3. /\ q'.item = q.item /\ q'.value = q.value /\ q'.active = q.active
         /\ q.closed => q'.closed
         /\ Sound(q', model, req', aborted \union rejected', Running)
         /\ req' \in [Requests -> {"none", "waiting", "held", "done"}]
         /\ rejected' \subseteq Requests
    BY RejectedFacts DEF DrainFor
  <1>p0. ConfigTypes'
    BY <1>h, <1>w, <1>b0, <1>b1, <1>b2, <1>b3 DEF ConfigTypes
  <1>p1. LaneInv'
    BY <1>h, <1>w, <1>b0, <1>b1, <1>b2, <1>b3 DEF LaneInv, LaneTypes, Lane
  <1>p2. QueueInv'
    <2>1. RequestTypes'
      BY <1>h, <1>w, <1>b0, <1>b1, <1>b2, <1>b3 DEF QueueInv, RequestTypes
    <2>2. Running' = Running
      BY <1>h, <1>w, <1>b0, <1>b1, <1>b2, <1>b3, TaskFacts
         DEF Running, HeadIs, LaneInv, LaneTypes
    <2>3. Sound(q', model', req', aborted' \union rejected', Running)
      BY <1>h, <1>w, <1>b0, <1>b1, <1>b2, <1>b3 DEF QueueInv
    <2>4. QED
      BY <2>1, <2>2, <2>3 DEF QueueInv
  <1>p3. BarrierInv'
    <2>1. (BarrierTypes /\ Leased(bar, sup, model))'
      BY <1>h, <1>w, <1>b0, <1>b1, <1>b2, <1>b3 DEF BarrierInv, BarrierTypes, Leases
    <2>2. (Served(bar) = q.active \union (IF q.value = "admitted" THEN {q.item} ELSE {}))'
      BY <1>h, <1>w, <1>b0, <1>b1, <1>b2, <1>b3 DEF BarrierInv, Leases, QueueInv, Sound,
             Queueing
    <2>3. (/\ HeadIs("dispatch", {"update", "stop", "settle"}) => Idle(bar)
           /\ HeadIs("reconcile", {"stop"}) => Idle(bar)
           /\ bar.stopped # 0 => HeadIs("dispatch", {"drain"}) \/ HeadIs("reconcile", {"drain"}))'
      BY <1>h, <1>w, <1>b0, <1>b1, <1>b2, <1>b3, TaskFacts
         DEF BarrierInv, Leases, HeadIs, LaneInv, LaneTypes
    <2>4. QED
      BY <2>1, <2>2, <2>3 DEF BarrierInv, Leases
  <1>p4. RecoveryInv'
    BY <1>h, <1>w, <1>b0, <1>b1, <1>b2, <1>b3 DEF RecoveryInv, RecoveryTypes, Claims,
           ClaimedMeansClosed
  <1>p5. TimerTypes'
    BY <1>h, <1>w, <1>b0, <1>b1, <1>b2, <1>b3 DEF TimerTypes
  <1>p6. Targets'
    BY <1>h, <1>w, <1>b0, <1>b1, <1>b2, <1>b3 DEF Targets, Who, Current, NoSup, Running,
           HeadIs, LaneTypes, On
  <1>p7. Reopening'
    BY <1>h, <1>w, <1>b0, <1>b1, <1>b2, <1>b3 DEF Reopening, Who, NoSup, Reopens, HeadIs,
           LaneTypes, Queued
  <1>p8. Rejected'
    BY <1>h, <1>w, <1>b0, <1>b1, <1>b2, <1>b3 DEF Rejected, Who, Running, HeadIs, LaneTypes,
           Queued, QueueInv, Sound, Queueing
  <1>q. QED
    BY <1>p0, <1>p1, <1>p2, <1>p3, <1>p4, <1>p5, <1>p6, <1>p7, <1>p8

\* A round of the reconciliation keeps the invariant.
LEMMA RoundStep ==
    ASSUME IInv, ReconcileBegin
    PROVE  IInv'
  <1> USE DEF ReconcileBegin, ReconcileOver, DrainFor
  <1>1. CASE applied.rev = snapshot.rev
    BY <1>1, RoundOverStep
  <1>2. CASE applied.rev # snapshot.rev /\ PlanAction(applied, snapshot) = "unchanged"
    <2>1. CASE sup = NoSup /\ On(snapshot)
      BY <1>2, <2>1, RoundAddsStep
    <2>2. CASE ~(sup = NoSup /\ On(snapshot))
      BY <1>2, <2>2, RoundAppliedStep
    <2>3. QED
      BY <2>1, <2>2
  <1>3. CASE applied.rev # snapshot.rev /\ PlanAction(applied, snapshot) = "add"
    <2>1. CASE sup = NoSup /\ On(snapshot)
      BY <1>3, <2>1, RoundAddsStep
    <2>2. CASE ~(sup = NoSup /\ On(snapshot))
      BY <1>3, <2>2, RoundOverStep
    <2>3. QED
      BY <2>1, <2>2
  <1>4. CASE /\ applied.rev # snapshot.rev /\ PlanAction(applied, snapshot) = "drain-and-replace"
             /\ sup # NoSup
    BY <1>4, RoundChecksStep
  <1>5. CASE /\ applied.rev # snapshot.rev
             /\ \/ PlanAction(applied, snapshot) = "drain-and-remove"
                \/ PlanAction(applied, snapshot) = "drain-and-replace" /\ sup = NoSup
    <2>1. /\ applied.rev # snapshot.rev /\ DrainFor(snapshot) /\ lane' = lane
          /\ At("reconcile", "begin")
          /\ cur' = [cur EXCEPT !.at = "drain", !.target = snapshot]
          /\ UNCHANGED <<applied, scheduled, claim, modality, disk, snapshot, model, aborted, rec,
                         safeguard, reload, left>>
      BY <1>5
    <2>2. CASE On(snapshot)
      BY <2>1, <2>2, RoundDrainsStep
    <2>3. CASE ~On(snapshot)
      BY <2>1, <2>3, RoundRejectsStep
    <2>4. QED
      BY <2>2, <2>3
  <1>6. QED
    BY <1>1, <1>2, <1>3, <1>4, <1>5

\* A replacement that does not fit ends the round,
LEMMA CheckFailsStep ==
    ASSUME IInv, At("reconcile", "preflight"),
           Over, scheduled' = FALSE,
           UNCHANGED <<modality, disk, snapshot, applied, backend, q, bar, requests, recovery,
                       safeguard, reload, left>>
    PROVE  IInv'
  <1> USE AssumptionFacts DEF IInv
  <1>h. lane # <<>> /\ Head(lane).kind = "reconcile" /\ cur.at = "preflight"
    BY DEF At
  <1>w. Head(lane) \in ToSet(lane) /\ Head(lane) \in Tasks /\ Who \in Nat
    BY <1>h, HeadFacts
  <1>m. Pops({}) /\ cur' = Fresh /\ cur' \in Waits /\ cur'.at = "begin"
    BY <1>h, OverFacts, TaskFacts DEF Over
  <1>b0. bar' = bar /\ Leased(bar', sup, model)
    BY DEF BarrierInv, Leases
  <1>b1. (scheduled' <=> FALSE) /\ scheduled' \in BOOLEAN /\
           \A t \in ToSet(lane') : t.kind # "reconcile"
    BY <1>h, <1>m DEF Pops, Alike
  <1>p0. ConfigTypes'
    BY <1>h, <1>w, <1>m, <1>b0, <1>b1 DEF ConfigTypes
  <1>p1. LaneInv'
    BY <1>h, <1>w, <1>m, <1>b0, <1>b1 DEF LaneInv, LaneTypes, Lane, Pops
  <1>p2. QueueInv'
    <2>1. RequestTypes'
      BY <1>h, <1>w, <1>m, <1>b0, <1>b1 DEF QueueInv, RequestTypes
    <2>2. Running' = Running
      BY <1>h, <1>w, <1>m, <1>b0, <1>b1, TaskFacts DEF Running, HeadIs, LaneInv, LaneTypes,
             Pops
    <2>3. Sound(q', model', req', aborted' \union rejected', Running)
      BY <1>h, <1>w, <1>m, <1>b0, <1>b1 DEF QueueInv
    <2>4. QED
      BY <2>1, <2>2, <2>3 DEF QueueInv
  <1>p3. BarrierInv'
    <2>1. (BarrierTypes /\ Leased(bar, sup, model))'
      BY <1>h, <1>w, <1>m, <1>b0, <1>b1 DEF BarrierInv, BarrierTypes, Leases
    <2>2. (Served(bar) = q.active \union (IF q.value = "admitted" THEN {q.item} ELSE {}))'
      BY <1>h, <1>w, <1>m, <1>b0, <1>b1 DEF BarrierInv, Leases, QueueInv, Sound, Queueing
    <2>3. (/\ HeadIs("dispatch", {"update", "stop", "settle"}) => Idle(bar)
           /\ HeadIs("reconcile", {"stop"}) => Idle(bar)
           /\ bar.stopped # 0 => HeadIs("dispatch", {"drain"}) \/ HeadIs("reconcile", {"drain"}))'
      BY <1>h, <1>w, <1>m, <1>b0, <1>b1, TaskFacts DEF BarrierInv, Leases, HeadIs, LaneInv,
             LaneTypes, Pops
    <2>4. QED
      BY <2>1, <2>2, <2>3 DEF BarrierInv, Leases
  <1>p4. RecoveryInv'
    BY <1>h, <1>w, <1>m, <1>b0, <1>b1 DEF RecoveryInv, RecoveryTypes, Claims,
                                          ClaimedMeansClosed
  <1>p5. TimerTypes'
    BY <1>h, <1>w, <1>m, <1>b0, <1>b1 DEF TimerTypes
  <1>p6. Targets'
    BY <1>h, <1>w, <1>m, <1>b0, <1>b1 DEF Targets, Who, Current, NoSup, Running, HeadIs,
                                          LaneTypes, Pops, On
  <1>p7. Reopening'
    BY <1>h, <1>w, <1>m, <1>b0, <1>b1 DEF Reopening, Who, NoSup, Reopens, HeadIs, LaneTypes,
                                          Pops, Queued
  <1>p8. Rejected'
    BY <1>h, <1>w, <1>m, <1>b0, <1>b1 DEF Rejected, Who, Running, HeadIs, LaneTypes, Pops,
                                          Queued, QueueInv, Sound, Queueing
  <1>q. QED
    BY <1>p0, <1>p1, <1>p2, <1>p3, <1>p4, <1>p5, <1>p6, <1>p7, <1>p8

\* one that fits drains the barrier,
LEMMA CheckPassesStep ==
    ASSUME IInv, At("reconcile", "preflight"),
           Drain, Goto("drain"),
           UNCHANGED <<modality, config, q, requests, recovery, safeguard, reload, left>>
    PROVE  IInv'
  <1> USE AssumptionFacts DEF IInv
  <1>h. lane # <<>> /\ Head(lane).kind = "reconcile" /\ cur.at = "preflight"
    BY DEF At
  <1>w. Head(lane) \in ToSet(lane) /\ Head(lane) \in Tasks /\ Who \in Nat
    BY <1>h, HeadFacts
  <1>m. /\ lane' = lane /\ cur' \in Waits /\ cur'.at = "drain"
        /\ cur'.target = cur.target
    BY <1>h, GotoFacts
  <1>b0. /\ bar' \in Barriers(Requests, Nat) /\ Leased(bar', sup, model)
         /\ Served(bar') = Served(bar) /\ (Idle(bar') <=> Idle(bar))
         /\ bar'.passedOver = bar.passedOver /\ ~bar'.accepting
         /\ sup' = sup /\ made' = made /\ life' \in {life, "idle"}
    BY DrainFacts
  <1>p0. ConfigTypes'
    BY <1>h, <1>w, <1>m, <1>b0 DEF ConfigTypes
  <1>p1. LaneInv'
    BY <1>h, <1>w, <1>m, <1>b0 DEF LaneInv, LaneTypes, Lane
  <1>p2. QueueInv'
    <2>1. RequestTypes'
      BY <1>h, <1>w, <1>m, <1>b0 DEF QueueInv, RequestTypes
    <2>2. Running' = Running
      BY <1>h, <1>w, <1>m, <1>b0, TaskFacts DEF Running, HeadIs, LaneInv, LaneTypes
    <2>3. Sound(q', model', req', aborted' \union rejected', Running)
      BY <1>h, <1>w, <1>m, <1>b0 DEF QueueInv
    <2>4. QED
      BY <2>1, <2>2, <2>3 DEF QueueInv
  <1>p3. BarrierInv'
    <2>1. (BarrierTypes /\ Leased(bar, sup, model))'
      BY <1>h, <1>w, <1>m, <1>b0 DEF BarrierInv, BarrierTypes, Leases
    <2>2. (Served(bar) = q.active \union (IF q.value = "admitted" THEN {q.item} ELSE {}))'
      BY <1>h, <1>w, <1>m, <1>b0 DEF BarrierInv, Leases, QueueInv, Sound, Queueing
    <2>3. (/\ HeadIs("dispatch", {"update", "stop", "settle"}) => Idle(bar)
           /\ HeadIs("reconcile", {"stop"}) => Idle(bar)
           /\ bar.stopped # 0 => HeadIs("dispatch", {"drain"}) \/ HeadIs("reconcile", {"drain"}))'
      BY <1>h, <1>w, <1>m, <1>b0, TaskFacts DEF BarrierInv, Leases, HeadIs, LaneInv,
             LaneTypes
    <2>4. QED
      BY <2>1, <2>2, <2>3 DEF BarrierInv, Leases
  <1>p4. RecoveryInv'
    BY <1>h, <1>w, <1>m, <1>b0 DEF RecoveryInv, RecoveryTypes, Claims, ClaimedMeansClosed
  <1>p5. TimerTypes'
    BY <1>h, <1>w, <1>m, <1>b0 DEF TimerTypes
  <1>p6. Targets'
    BY <1>h, <1>w, <1>m, <1>b0 DEF Targets, Who, Current, NoSup, Running, HeadIs, LaneTypes,
                                   On
  <1>p7. Reopening'
    BY <1>h, <1>w, <1>m, <1>b0 DEF Reopening, Who, NoSup, Reopens, HeadIs, LaneTypes, Queued
  <1>p8. Rejected'
    BY <1>h, <1>w, <1>m, <1>b0 DEF Rejected, Who, Running, HeadIs, LaneTypes, Queued,
                                   QueueInv, Sound, Queueing
  <1>q. QED
    BY <1>p0, <1>p1, <1>p2, <1>p3, <1>p4, <1>p5, <1>p6, <1>p7, <1>p8

\* whose supervisor is taken when it is idle.
LEMMA TakenStep ==
    ASSUME IInv, At("reconcile", "drain"),
           Idle(bar), TakeSup, Goto("stop"),
           UNCHANGED <<modality, config, q, bar, requests, recovery, safeguard, reload, left>>
    PROVE  IInv'
  <1> USE AssumptionFacts DEF IInv
  <1>h. lane # <<>> /\ Head(lane).kind = "reconcile" /\ cur.at = "drain"
    BY DEF At
  <1>w. Head(lane) \in ToSet(lane) /\ Head(lane) \in Tasks /\ Who \in Nat
    BY <1>h, HeadFacts
  <1>m. /\ lane' = lane /\ cur' \in Waits /\ cur'.at = "stop"
        /\ cur'.target = cur.target
    BY <1>h, GotoFacts
  <1>b0. sup' = NoSup /\ life' = "idle" /\ made' = made /\ bar' = bar
    BY DEF TakeSup
  <1>b1. Leased(bar', sup', model) /\ Idle(bar') /\ bar.stopped = 0
    BY NobodyFacts
  <1>b2. sup' \in [id : Nat, model : Models \union {NoModel}]
    BY <1>b0 DEF NoSup
  <1>b3. /\ applied.rev \in Nat /\ snapshot.rev \in Nat /\ applied.rev < cur.target.rev
         /\ cur.target.rev <= snapshot.rev /\ cur.target.rev \in Nat
    BY <1>h DEF Targets, HeadIs, Current, ConfigTypes, Snapshots, LaneInv, LaneTypes, Waits
  <1>p0. ConfigTypes'
    BY <1>h, <1>w, <1>m, <1>b0, <1>b1, <1>b2, <1>b3 DEF ConfigTypes
  <1>p1. LaneInv'
    BY <1>h, <1>w, <1>m, <1>b0, <1>b1, <1>b2, <1>b3 DEF LaneInv, LaneTypes, Lane
  <1>p2. QueueInv'
    <2>1. RequestTypes'
      BY <1>h, <1>w, <1>m, <1>b0, <1>b1, <1>b2, <1>b3 DEF QueueInv, RequestTypes
    <2>2. Running' = Running
      BY <1>h, <1>w, <1>m, <1>b0, <1>b1, <1>b2, <1>b3, TaskFacts
         DEF Running, HeadIs, LaneInv, LaneTypes
    <2>3. Sound(q', model', req', aborted' \union rejected', Running)
      BY <1>h, <1>w, <1>m, <1>b0, <1>b1, <1>b2, <1>b3 DEF QueueInv
    <2>4. QED
      BY <2>1, <2>2, <2>3 DEF QueueInv
  <1>p3. BarrierInv'
    <2>1. (BarrierTypes /\ Leased(bar, sup, model))'
      BY <1>h, <1>w, <1>m, <1>b0, <1>b1, <1>b2, <1>b3 DEF BarrierInv, BarrierTypes, Leases
    <2>2. (Served(bar) = q.active \union (IF q.value = "admitted" THEN {q.item} ELSE {}))'
      BY <1>h, <1>w, <1>m, <1>b0, <1>b1, <1>b2, <1>b3 DEF BarrierInv, Leases, QueueInv,
             Sound, Queueing
    <2>3. (/\ HeadIs("dispatch", {"update", "stop", "settle"}) => Idle(bar)
           /\ HeadIs("reconcile", {"stop"}) => Idle(bar)
           /\ bar.stopped # 0 => HeadIs("dispatch", {"drain"}) \/ HeadIs("reconcile", {"drain"}))'
      BY <1>h, <1>w, <1>m, <1>b0, <1>b1, <1>b2, <1>b3, TaskFacts
         DEF BarrierInv, Leases, HeadIs, LaneInv, LaneTypes
    <2>4. QED
      BY <2>1, <2>2, <2>3 DEF BarrierInv, Leases
  <1>p4. RecoveryInv'
    BY <1>h, <1>w, <1>m, <1>b0, <1>b1, <1>b2, <1>b3 DEF RecoveryInv, RecoveryTypes, Claims,
           ClaimedMeansClosed
  <1>p5. TimerTypes'
    BY <1>h, <1>w, <1>m, <1>b0, <1>b1, <1>b2, <1>b3 DEF TimerTypes
  <1>p6. Targets'
    BY <1>h, <1>w, <1>m, <1>b0, <1>b1, <1>b2, <1>b3 DEF Targets, Who, Current, NoSup,
           Running, HeadIs, LaneTypes, On
  <1>p7. Reopening'
    BY <1>h, <1>w, <1>m, <1>b0, <1>b1, <1>b2, <1>b3 DEF Reopening, Who, NoSup, Reopens,
           HeadIs, LaneTypes, Queued
  <1>p8. Rejected'
    BY <1>h, <1>w, <1>m, <1>b0, <1>b1, <1>b2, <1>b3 DEF Rejected, Who, Running, HeadIs,
           LaneTypes, Queued, QueueInv, Sound, Queueing
  <1>q. QED
    BY <1>p0, <1>p1, <1>p2, <1>p3, <1>p4, <1>p5, <1>p6, <1>p7, <1>p8

\* A shutdown that throws leaves the round to the next one,
LEMMA StopFailsStep ==
    ASSUME IInv, At("reconcile", "stop"),
           Over, scheduled' = FALSE, Disturb,
           UNCHANGED <<modality, disk, snapshot, applied, backend, q, bar, requests, recovery,
                       safeguard, reload>>
    PROVE  IInv'
  <1> USE AssumptionFacts DEF IInv
  <1>h. lane # <<>> /\ Head(lane).kind = "reconcile" /\ cur.at = "stop"
    BY DEF At
  <1>w. Head(lane) \in ToSet(lane) /\ Head(lane) \in Tasks /\ Who \in Nat
    BY <1>h, HeadFacts
  <1>m. Pops({}) /\ cur' = Fresh /\ cur' \in Waits /\ cur'.at = "begin"
    BY <1>h, OverFacts, TaskFacts DEF Over
  <1>b0. bar' = bar /\ Leased(bar', sup, model)
    BY DEF BarrierInv, Leases
  <1>b1. (scheduled' <=> FALSE) /\ scheduled' \in BOOLEAN /\
           \A t \in ToSet(lane') : t.kind # "reconcile"
    BY <1>h, <1>m DEF Pops, Alike
  <1>p0. ConfigTypes'
    BY <1>h, <1>w, <1>m, <1>b0, <1>b1 DEF ConfigTypes, Disturb
  <1>p1. LaneInv'
    BY <1>h, <1>w, <1>m, <1>b0, <1>b1 DEF LaneInv, LaneTypes, Lane, Pops, Disturb
  <1>p2. QueueInv'
    <2>1. RequestTypes'
      BY <1>h, <1>w, <1>m, <1>b0, <1>b1 DEF QueueInv, RequestTypes, Disturb
    <2>2. Running' = Running
      BY <1>h, <1>w, <1>m, <1>b0, <1>b1, TaskFacts DEF Running, HeadIs, LaneInv, LaneTypes,
             Pops, Disturb
    <2>3. Sound(q', model', req', aborted' \union rejected', Running)
      BY <1>h, <1>w, <1>m, <1>b0, <1>b1 DEF QueueInv, Disturb
    <2>4. QED
      BY <2>1, <2>2, <2>3 DEF QueueInv
  <1>p3. BarrierInv'
    <2>1. (BarrierTypes /\ Leased(bar, sup, model))'
      BY <1>h, <1>w, <1>m, <1>b0, <1>b1 DEF BarrierInv, BarrierTypes, Leases, Disturb
    <2>2. (Served(bar) = q.active \union (IF q.value = "admitted" THEN {q.item} ELSE {}))'
      BY <1>h, <1>w, <1>m, <1>b0, <1>b1 DEF BarrierInv, Leases, QueueInv, Sound, Queueing,
                                            Disturb
    <2>3. (/\ HeadIs("dispatch", {"update", "stop", "settle"}) => Idle(bar)
           /\ HeadIs("reconcile", {"stop"}) => Idle(bar)
           /\ bar.stopped # 0 => HeadIs("dispatch", {"drain"}) \/ HeadIs("reconcile", {"drain"}))'
      BY <1>h, <1>w, <1>m, <1>b0, <1>b1, TaskFacts DEF BarrierInv, Leases, HeadIs, LaneInv,
             LaneTypes, Pops, Disturb
    <2>4. QED
      BY <2>1, <2>2, <2>3 DEF BarrierInv, Leases
  <1>p4. RecoveryInv'
    BY <1>h, <1>w, <1>m, <1>b0, <1>b1 DEF RecoveryInv, RecoveryTypes, Claims,
                                          ClaimedMeansClosed, Disturb
  <1>p5. TimerTypes'
    BY <1>h, <1>w, <1>m, <1>b0, <1>b1 DEF TimerTypes, Disturb
  <1>p6. Targets'
    BY <1>h, <1>w, <1>m, <1>b0, <1>b1 DEF Targets, Who, Current, NoSup, Running, HeadIs,
                                          LaneTypes, Pops, On, Disturb
  <1>p7. Reopening'
    BY <1>h, <1>w, <1>m, <1>b0, <1>b1 DEF Reopening, Who, NoSup, Reopens, HeadIs, LaneTypes,
                                          Pops, Queued, Disturb
  <1>p8. Rejected'
    BY <1>h, <1>w, <1>m, <1>b0, <1>b1 DEF Rejected, Who, Running, HeadIs, LaneTypes, Pops,
                                          Queued, QueueInv, Sound, Queueing, Disturb
  <1>q. QED
    BY <1>p0, <1>p1, <1>p2, <1>p3, <1>p4, <1>p5, <1>p6, <1>p7, <1>p8

\* and another adds the target,
LEMMA StopAddsStep ==
    ASSUME IInv, At("reconcile", "stop"),
           On(cur.target), Add(cur.target), AttachBarrier(bar, snapshot),
           applied' = cur.target, cur' = Fresh,
           UNCHANGED <<modality, disk, snapshot, scheduled, lane, left, q, requests, rec, safeguard,
                       reload>>
    PROVE  IInv'
  <1> USE AssumptionFacts DEF IInv
  <1>h. lane # <<>> /\ Head(lane).kind = "reconcile" /\ cur.at = "stop"
    BY DEF At
  <1>w. Head(lane) \in ToSet(lane) /\ Head(lane) \in Tasks /\ Who \in Nat
    BY <1>h, HeadFacts
  <1>s. bar.stopped = 0
    BY <1>h DEF BarrierInv, BarrierTypes, Barriers, Leases, HeadIs
  <1>b0. /\ cur.target.model \in Models
         /\ cur.target \in [rev : Nat, model : Models \union {NoModel}, selected : SUBSET Models]
         /\ Current(cur.target, snapshot) /\ sup = NoSup
    BY <1>h DEF Targets, HeadIs, LaneInv, LaneTypes, Waits
  <1>b1. cur' = Fresh /\ cur' \in Waits /\ cur'.at = "begin" /\ lane' = lane
    BY TaskFacts
  <1>b2. cur.target \in Snapshots /\ snapshot \in Snapshots /\ cur.target.rev <= snapshot.rev
    BY <1>b0 DEF Snapshots, Current, ConfigTypes
  <1>b3. /\ bar' \in Barriers(Requests, Nat) /\ Leased(bar', sup', model)
         /\ Served(bar') = Served(bar) /\ Idle(bar') /\ Idle(bar)
         /\ bar'.stopped = 0 /\ (bar'.accepting \/ bar'.passedOver)
         /\ sup' \in [id : Nat, model : Models \union {NoModel}] /\ made' \in Nat
         /\ sup' # NoSup /\ sup'.model = cur.target.model /\ life' = "idle" /\ claim' = 0
    <2>1. bar' = (IF On(snapshot) THEN Attach(bar) ELSE PassOver(bar)) /\ claim' = 0
      BY DEF AttachBarrier
    <2>2. cur.target.model \in Models
      BY <1>b0 DEF ConfigTypes, Snapshots, Targets, HeadIs
    <2>3. QED
      BY <1>b0, <2>1, <2>2, AddFacts
  <1>p0. ConfigTypes'
    BY <1>h, <1>w, <1>s, <1>b0, <1>b1, <1>b2, <1>b3 DEF ConfigTypes
  <1>p1. LaneInv'
    BY <1>h, <1>w, <1>s, <1>b0, <1>b1, <1>b2, <1>b3 DEF LaneInv, LaneTypes, Lane
  <1>p2. QueueInv'
    <2>1. RequestTypes'
      BY <1>h, <1>w, <1>s, <1>b0, <1>b1, <1>b2, <1>b3 DEF QueueInv, RequestTypes
    <2>2. Running' = Running
      BY <1>h, <1>w, <1>s, <1>b0, <1>b1, <1>b2, <1>b3, TaskFacts
         DEF Running, HeadIs, LaneInv, LaneTypes
    <2>3. Sound(q', model', req', aborted' \union rejected', Running)
      BY <1>h, <1>w, <1>s, <1>b0, <1>b1, <1>b2, <1>b3 DEF QueueInv
    <2>4. QED
      BY <2>1, <2>2, <2>3 DEF QueueInv
  <1>p3. BarrierInv'
    <2>1. (BarrierTypes /\ Leased(bar, sup, model))'
      BY <1>h, <1>w, <1>s, <1>b0, <1>b1, <1>b2, <1>b3 DEF BarrierInv, BarrierTypes, Leases
    <2>2. (Served(bar) = q.active \union (IF q.value = "admitted" THEN {q.item} ELSE {}))'
      BY <1>h, <1>w, <1>s, <1>b0, <1>b1, <1>b2, <1>b3 DEF BarrierInv, Leases, QueueInv,
             Sound, Queueing
    <2>3. (/\ HeadIs("dispatch", {"update", "stop", "settle"}) => Idle(bar)
           /\ HeadIs("reconcile", {"stop"}) => Idle(bar)
           /\ bar.stopped # 0 => HeadIs("dispatch", {"drain"}) \/ HeadIs("reconcile", {"drain"}))'
      BY <1>h, <1>w, <1>s, <1>b0, <1>b1, <1>b2, <1>b3, TaskFacts
         DEF BarrierInv, Leases, HeadIs, LaneInv, LaneTypes
    <2>4. QED
      BY <2>1, <2>2, <2>3 DEF BarrierInv, Leases
  <1>p4. RecoveryInv'
    BY <1>h, <1>w, <1>s, <1>b0, <1>b1, <1>b2, <1>b3 DEF RecoveryInv, RecoveryTypes, Claims,
           ClaimedMeansClosed
  <1>p5. TimerTypes'
    BY <1>h, <1>w, <1>s, <1>b0, <1>b1, <1>b2, <1>b3 DEF TimerTypes
  <1>p6. Targets'
    BY <1>h, <1>w, <1>s, <1>b0, <1>b1, <1>b2, <1>b3 DEF Targets, Who, Current, NoSup,
           Running, HeadIs, LaneTypes, On
  <1>p7. Reopening'
    BY <1>h, <1>w, <1>s, <1>b0, <1>b1, <1>b2, <1>b3 DEF Reopening, Who, NoSup, Reopens,
           HeadIs, LaneTypes, Queued
  <1>p8. Rejected'
    BY <1>h, <1>w, <1>s, <1>b0, <1>b1, <1>b2, <1>b3 DEF Rejected, Who, Running, HeadIs,
           LaneTypes, Queued, QueueInv, Sound, Queueing
  <1>q. QED
    BY <1>p0, <1>p1, <1>p2, <1>p3, <1>p4, <1>p5, <1>p6, <1>p7, <1>p8

\* or leaves the modality without one.
LEMMA StopRemovesStep ==
    ASSUME IInv, At("reconcile", "stop"),
           ~On(cur.target), applied' = cur.target, cur' = Fresh,
           UNCHANGED <<modality, disk, snapshot, scheduled, backend, bar, claim, lane, left, q,
                       requests, rec, safeguard, reload>>
    PROVE  IInv'
  <1> USE AssumptionFacts DEF IInv
  <1>h. lane # <<>> /\ Head(lane).kind = "reconcile" /\ cur.at = "stop"
    BY DEF At
  <1>w. Head(lane) \in ToSet(lane) /\ Head(lane) \in Tasks /\ Who \in Nat
    BY <1>h, HeadFacts
  <1>s. bar.stopped = 0
    BY <1>h DEF BarrierInv, BarrierTypes, Barriers, Leases, HeadIs
  <1>b0. /\ cur.target.model \in Models
         /\ cur.target \in [rev : Nat, model : Models \union {NoModel}, selected : SUBSET Models]
         /\ Current(cur.target, snapshot) /\ sup = NoSup
    BY <1>h DEF Targets, HeadIs, LaneInv, LaneTypes, Waits
  <1>b1. cur' = Fresh /\ cur' \in Waits /\ cur'.at = "begin" /\ lane' = lane
    BY TaskFacts
  <1>b2. cur.target \in Snapshots /\ snapshot \in Snapshots /\ cur.target.rev <= snapshot.rev
    BY <1>b0 DEF Snapshots, Current, ConfigTypes
  <1>b3. bar' = bar /\ Leased(bar', sup, model)
    BY DEF BarrierInv, Leases
  <1>p0. ConfigTypes'
    BY <1>h, <1>w, <1>s, <1>b0, <1>b1, <1>b2, <1>b3 DEF ConfigTypes
  <1>p1. LaneInv'
    BY <1>h, <1>w, <1>s, <1>b0, <1>b1, <1>b2, <1>b3 DEF LaneInv, LaneTypes, Lane
  <1>p2. QueueInv'
    <2>1. RequestTypes'
      BY <1>h, <1>w, <1>s, <1>b0, <1>b1, <1>b2, <1>b3 DEF QueueInv, RequestTypes
    <2>2. Running' = Running
      BY <1>h, <1>w, <1>s, <1>b0, <1>b1, <1>b2, <1>b3, TaskFacts
         DEF Running, HeadIs, LaneInv, LaneTypes
    <2>3. Sound(q', model', req', aborted' \union rejected', Running)
      BY <1>h, <1>w, <1>s, <1>b0, <1>b1, <1>b2, <1>b3 DEF QueueInv
    <2>4. QED
      BY <2>1, <2>2, <2>3 DEF QueueInv
  <1>p3. BarrierInv'
    <2>1. (BarrierTypes /\ Leased(bar, sup, model))'
      BY <1>h, <1>w, <1>s, <1>b0, <1>b1, <1>b2, <1>b3 DEF BarrierInv, BarrierTypes, Leases
    <2>2. (Served(bar) = q.active \union (IF q.value = "admitted" THEN {q.item} ELSE {}))'
      BY <1>h, <1>w, <1>s, <1>b0, <1>b1, <1>b2, <1>b3 DEF BarrierInv, Leases, QueueInv,
             Sound, Queueing
    <2>3. (/\ HeadIs("dispatch", {"update", "stop", "settle"}) => Idle(bar)
           /\ HeadIs("reconcile", {"stop"}) => Idle(bar)
           /\ bar.stopped # 0 => HeadIs("dispatch", {"drain"}) \/ HeadIs("reconcile", {"drain"}))'
      BY <1>h, <1>w, <1>s, <1>b0, <1>b1, <1>b2, <1>b3, TaskFacts
         DEF BarrierInv, Leases, HeadIs, LaneInv, LaneTypes
    <2>4. QED
      BY <2>1, <2>2, <2>3 DEF BarrierInv, Leases
  <1>p4. RecoveryInv'
    BY <1>h, <1>w, <1>s, <1>b0, <1>b1, <1>b2, <1>b3 DEF RecoveryInv, RecoveryTypes, Claims,
           ClaimedMeansClosed
  <1>p5. TimerTypes'
    BY <1>h, <1>w, <1>s, <1>b0, <1>b1, <1>b2, <1>b3 DEF TimerTypes
  <1>p6. Targets'
    BY <1>h, <1>w, <1>s, <1>b0, <1>b1, <1>b2, <1>b3 DEF Targets, Who, Current, NoSup,
           Running, HeadIs, LaneTypes, On
  <1>p7. Reopening'
    BY <1>h, <1>w, <1>s, <1>b0, <1>b1, <1>b2, <1>b3 DEF Reopening, Who, NoSup, Reopens,
           HeadIs, LaneTypes, Queued
  <1>p8. Rejected'
    BY <1>h, <1>w, <1>s, <1>b0, <1>b1, <1>b2, <1>b3 DEF Rejected, Who, Running, HeadIs,
           LaneTypes, Queued, QueueInv, Sound, Queueing
  <1>q. QED
    BY <1>p0, <1>p1, <1>p2, <1>p3, <1>p4, <1>p5, <1>p6, <1>p7, <1>p8

\* Every turn of a reconciliation keeps the invariant.
LEMMA ReconcileStep ==
    ASSUME IInv, \/ ReconcileBegin \/ ReconcilePreflight \/ ReconcileDrained \/ ReconcileStopped
    PROVE  IInv'
  <1>1. CASE ReconcileBegin
    BY <1>1, RoundStep
  <1>2. CASE ReconcilePreflight
    BY <1>2, CheckFailsStep, CheckPassesStep DEF ReconcilePreflight, ReconcileOver
  <1>3. CASE ReconcileDrained
    BY <1>3, TakenStep DEF ReconcileDrained
  <1>4. CASE ReconcileStopped
    BY <1>4, StopFailsStep, StopAddsStep, StopRemovesStep
       DEF ReconcileStopped, ReconcileOver
  <1>5. QED
    BY <1>1, <1>2, <1>3, <1>4

\* A request that is gone when it gets the lane is done with it,
LEMMA GoneStep ==
    ASSUME IInv, At("dispatch", "begin"),
           Who \in aborted \union rejected, Return("error"), UNCHANGED <<bar, life>>,
           UNCHANGED <<modality, config, sup, made, requests, recovery, safeguard, reload, left>>
    PROVE  IInv'
  <1> USE AssumptionFacts DEF IInv
  <1>h. lane # <<>> /\ Head(lane).kind = "dispatch" /\ cur.at = "begin"
    BY DEF At
  <1>w. Head(lane) \in ToSet(lane) /\ Head(lane) \in Tasks /\ Who \in Nat
    BY <1>h, HeadFacts
  <1>m. Pops({}) /\ cur' = Fresh /\ cur' \in Waits /\ cur'.at = "begin"
    BY <1>h, OverFacts, TaskFacts DEF Over, Return
  <1>s. bar.stopped = 0
    BY <1>h DEF BarrierInv, BarrierTypes, Barriers, Leases, HeadIs
  <1>b0. /\ Who = q.item /\ q.value = "none" /\ q.item # NoRequest /\ q.item \in Requests
         /\ q.item \notin Served(bar) /\ Served(bar) = q.active /\ model[q.item] \in Models
    BY <1>h, DispatchFacts
  <1>b1. \A t \in ToSet(lane') : t \in ToSet(lane) /\ t.kind # "dispatch"
    BY <1>h, <1>m DEF Pops, Alike
  <1>b2. bar' = bar /\ Leased(bar', sup, model)
    BY DEF BarrierInv, Leases
  <1>b3. /\ Sound(q', model, req, aborted \union rejected, FALSE)
         /\ q'.item = q.item /\ q'.value = "error"
         /\ q'.active = q.active /\ q'.closed = q.closed
    BY <1>h, GoneReturnFacts DEF Return
  <1>p0. ConfigTypes'
    BY <1>h, <1>w, <1>m, <1>s, <1>b0, <1>b1, <1>b2, <1>b3 DEF ConfigTypes
  <1>p1. LaneInv'
    BY <1>h, <1>w, <1>m, <1>s, <1>b0, <1>b1, <1>b2, <1>b3 DEF LaneInv, LaneTypes, Lane, Pops
  <1>p2. QueueInv'
    <2>1. RequestTypes'
      BY DEF QueueInv, RequestTypes
    <2>2. Running' = FALSE
      BY <1>m DEF Running, HeadIs
    <2>3. Sound(q', model', req', aborted' \union rejected', FALSE)
      BY <1>b3
    <2>4. QED
      BY <2>1, <2>2, <2>3 DEF QueueInv
  <1>p3. BarrierInv'
    <2>1. (BarrierTypes /\ Leased(bar, sup, model))'
      BY <1>h, <1>w, <1>m, <1>s, <1>b0, <1>b1, <1>b2, <1>b3
         DEF BarrierInv, BarrierTypes, Leases
    <2>2. (Served(bar) = q.active \union (IF q.value = "admitted" THEN {q.item} ELSE {}))'
      BY <1>h, <1>w, <1>m, <1>s, <1>b0, <1>b1, <1>b2, <1>b3
         DEF BarrierInv, Leases, QueueInv, Sound, Queueing
    <2>3. (/\ HeadIs("dispatch", {"update", "stop", "settle"}) => Idle(bar)
           /\ HeadIs("reconcile", {"stop"}) => Idle(bar)
           /\ bar.stopped # 0 => HeadIs("dispatch", {"drain"}) \/ HeadIs("reconcile", {"drain"}))'
      BY <1>h, <1>w, <1>m, <1>s, <1>b0, <1>b1, <1>b2, <1>b3, TaskFacts
         DEF BarrierInv, Leases, HeadIs, LaneInv, LaneTypes, Pops
    <2>4. QED
      BY <2>1, <2>2, <2>3 DEF BarrierInv, Leases
  <1>p4. RecoveryInv'
    BY <1>h, <1>w, <1>m, <1>s, <1>b0, <1>b1, <1>b2, <1>b3
       DEF RecoveryInv, RecoveryTypes, Claims, ClaimedMeansClosed
  <1>p5. TimerTypes'
    BY <1>h, <1>w, <1>m, <1>s, <1>b0, <1>b1, <1>b2, <1>b3 DEF TimerTypes
  <1>p6. Targets'
    BY <1>h, <1>w, <1>m, <1>s, <1>b0, <1>b1, <1>b2, <1>b3
       DEF Targets, Who, Current, NoSup, Running, HeadIs, LaneTypes, Pops, On
  <1>p7. Reopening'
    BY <1>h, <1>w, <1>m, <1>s, <1>b0, <1>b1, <1>b2, <1>b3
       DEF Reopening, Who, NoSup, Reopens, HeadIs, LaneTypes, Pops, Queued
  <1>p8. Rejected'
    BY <1>h, <1>w, <1>m, <1>s, <1>b0, <1>b1, <1>b2, <1>b3
       DEF Rejected, Who, Running, HeadIs, LaneTypes, Pops, Queued, QueueInv, Sound,
           Queueing
  <1>q. QED
    BY <1>p0, <1>p1, <1>p2, <1>p3, <1>p4, <1>p5, <1>p6, <1>p7, <1>p8

\* one that is refused is answered,
LEMMA RefusedStep ==
    ASSUME IInv, At("dispatch", "begin"),
           Who \notin aborted \union rejected, Over, q' = Returned(Start(q), "answered"),
           UNCHANGED <<bar, life>>,
             UNCHANGED <<modality, config, sup, made, requests, recovery, safeguard, reload, left>>
    PROVE  IInv'
  <1> USE AssumptionFacts DEF IInv
  <1>h. lane # <<>> /\ Head(lane).kind = "dispatch" /\ cur.at = "begin"
    BY DEF At
  <1>w. Head(lane) \in ToSet(lane) /\ Head(lane) \in Tasks /\ Who \in Nat
    BY <1>h, HeadFacts
  <1>m. Pops({}) /\ cur' = Fresh /\ cur' \in Waits /\ cur'.at = "begin"
    BY <1>h, OverFacts, TaskFacts DEF Over, Return
  <1>s. bar.stopped = 0
    BY <1>h DEF BarrierInv, BarrierTypes, Barriers, Leases, HeadIs
  <1>b0. /\ Who = q.item /\ q.value = "none" /\ q.item # NoRequest /\ q.item \in Requests
         /\ q.item \notin Served(bar) /\ Served(bar) = q.active /\ model[q.item] \in Models
    BY <1>h, DispatchFacts
  <1>b1. \A t \in ToSet(lane') : t \in ToSet(lane) /\ t.kind # "dispatch"
    BY <1>h, <1>m DEF Pops, Alike
  <1>b2. bar' = bar /\ Leased(bar', sup, model)
    BY DEF BarrierInv, Leases
  <1>b3. /\ Sound(q', model, req, aborted \union rejected, FALSE)
         /\ q'.item = q.item /\ q'.value = "answered"
         /\ q'.active = q.active /\ q'.closed = q.closed
    <2>1. ~Running
      BY <1>h DEF Running, HeadIs
    <2>2. QED
      BY <1>h, <2>1, StartedFacts
  <1>p0. ConfigTypes'
    BY <1>h, <1>w, <1>m, <1>s, <1>b0, <1>b1, <1>b2, <1>b3 DEF ConfigTypes
  <1>p1. LaneInv'
    BY <1>h, <1>w, <1>m, <1>s, <1>b0, <1>b1, <1>b2, <1>b3 DEF LaneInv, LaneTypes, Lane, Pops
  <1>p2. QueueInv'
    <2>1. RequestTypes'
      BY DEF QueueInv, RequestTypes
    <2>2. Running' = FALSE
      BY <1>m DEF Running, HeadIs
    <2>3. Sound(q', model', req', aborted' \union rejected', FALSE)
      BY <1>b3
    <2>4. QED
      BY <2>1, <2>2, <2>3 DEF QueueInv
  <1>p3. BarrierInv'
    <2>1. (BarrierTypes /\ Leased(bar, sup, model))'
      BY <1>h, <1>w, <1>m, <1>s, <1>b0, <1>b1, <1>b2, <1>b3
         DEF BarrierInv, BarrierTypes, Leases
    <2>2. (Served(bar) = q.active \union (IF q.value = "admitted" THEN {q.item} ELSE {}))'
      BY <1>h, <1>w, <1>m, <1>s, <1>b0, <1>b1, <1>b2, <1>b3
         DEF BarrierInv, Leases, QueueInv, Sound, Queueing
    <2>3. (/\ HeadIs("dispatch", {"update", "stop", "settle"}) => Idle(bar)
           /\ HeadIs("reconcile", {"stop"}) => Idle(bar)
           /\ bar.stopped # 0 => HeadIs("dispatch", {"drain"}) \/ HeadIs("reconcile", {"drain"}))'
      BY <1>h, <1>w, <1>m, <1>s, <1>b0, <1>b1, <1>b2, <1>b3, TaskFacts
         DEF BarrierInv, Leases, HeadIs, LaneInv, LaneTypes, Pops
    <2>4. QED
      BY <2>1, <2>2, <2>3 DEF BarrierInv, Leases
  <1>p4. RecoveryInv'
    BY <1>h, <1>w, <1>m, <1>s, <1>b0, <1>b1, <1>b2, <1>b3
       DEF RecoveryInv, RecoveryTypes, Claims, ClaimedMeansClosed
  <1>p5. TimerTypes'
    BY <1>h, <1>w, <1>m, <1>s, <1>b0, <1>b1, <1>b2, <1>b3 DEF TimerTypes
  <1>p6. Targets'
    BY <1>h, <1>w, <1>m, <1>s, <1>b0, <1>b1, <1>b2, <1>b3
       DEF Targets, Who, Current, NoSup, Running, HeadIs, LaneTypes, Pops, On
  <1>p7. Reopening'
    BY <1>h, <1>w, <1>m, <1>s, <1>b0, <1>b1, <1>b2, <1>b3
       DEF Reopening, Who, NoSup, Reopens, HeadIs, LaneTypes, Pops, Queued
  <1>p8. Rejected'
    BY <1>h, <1>w, <1>m, <1>s, <1>b0, <1>b1, <1>b2, <1>b3
       DEF Rejected, Who, Running, HeadIs, LaneTypes, Pops, Queued, QueueInv, Sound,
           Queueing
  <1>q. QED
    BY <1>p0, <1>p1, <1>p2, <1>p3, <1>p4, <1>p5, <1>p6, <1>p7, <1>p8

\* one for another model begins a switch,
LEMMA SwitchesStep ==
    ASSUME IInv, At("dispatch", "begin"),
           Who \notin aborted \union rejected, model[Who] # applied.model,
           cur' = [cur EXCEPT !.at = "preflight", !.restore = applied.model], q' = Start(q),
           UNCHANGED <<lane, bar, life>>,
             UNCHANGED <<modality, config, sup, made, requests, recovery, safeguard, reload, left>>
    PROVE  IInv'
  <1> USE AssumptionFacts DEF IInv
  <1>h. lane # <<>> /\ Head(lane).kind = "dispatch" /\ cur.at = "begin"
    BY DEF At
  <1>w. Head(lane) \in ToSet(lane) /\ Head(lane) \in Tasks /\ Who \in Nat
    BY <1>h, HeadFacts
  <1>s. bar.stopped = 0
    BY <1>h DEF BarrierInv, BarrierTypes, Barriers, Leases, HeadIs
  <1>b0. /\ Who = q.item /\ q.value = "none" /\ q.item # NoRequest /\ q.item \in Requests
         /\ q.item \notin Served(bar) /\ Served(bar) = q.active /\ model[q.item] \in Models
    BY <1>h, DispatchFacts
  <1>b1. bar' = bar /\ Leased(bar', sup, model)
    BY DEF BarrierInv, Leases
  <1>b2. /\ lane' = lane /\ cur' \in Waits /\ cur'.at = "preflight" /\ cur'.target = cur.target
    BY DEF LaneInv, LaneTypes, Waits, ConfigTypes, Snapshots
  <1>b3. /\ Sound(q', model, req, aborted \union rejected, TRUE)
         /\ q'.item = q.item /\ q'.value = "none"
         /\ q'.active = q.active /\ q'.closed = q.closed
    <2>1. ~Running
      BY <1>h DEF Running, HeadIs
    <2>2. QED
      BY <1>h, <1>b0, <2>1, StartedFacts
  <1>p0. ConfigTypes'
    BY <1>h, <1>w, <1>s, <1>b0, <1>b1, <1>b2, <1>b3 DEF ConfigTypes
  <1>p1. LaneInv'
    BY <1>h, <1>w, <1>s, <1>b0, <1>b1, <1>b2, <1>b3 DEF LaneInv, LaneTypes, Lane
  <1>p2. QueueInv'
    <2>1. RequestTypes'
      BY DEF QueueInv, RequestTypes
    <2>2. Running' = TRUE
      BY <1>h, <1>b2 DEF Running, HeadIs
    <2>3. Sound(q', model', req', aborted' \union rejected', TRUE)
      BY <1>b3
    <2>4. QED
      BY <2>1, <2>2, <2>3 DEF QueueInv
  <1>p3. BarrierInv'
    <2>1. (BarrierTypes /\ Leased(bar, sup, model))'
      BY <1>h, <1>w, <1>s, <1>b0, <1>b1, <1>b2, <1>b3 DEF BarrierInv, BarrierTypes, Leases
    <2>2. (Served(bar) = q.active \union (IF q.value = "admitted" THEN {q.item} ELSE {}))'
      BY <1>h, <1>w, <1>s, <1>b0, <1>b1, <1>b2, <1>b3 DEF BarrierInv, Leases, QueueInv,
             Sound, Queueing
    <2>3. (/\ HeadIs("dispatch", {"update", "stop", "settle"}) => Idle(bar)
           /\ HeadIs("reconcile", {"stop"}) => Idle(bar)
           /\ bar.stopped # 0 => HeadIs("dispatch", {"drain"}) \/ HeadIs("reconcile", {"drain"}))'
      BY <1>h, <1>w, <1>s, <1>b0, <1>b1, <1>b2, <1>b3, TaskFacts
         DEF BarrierInv, Leases, HeadIs, LaneInv, LaneTypes
    <2>4. QED
      BY <2>1, <2>2, <2>3 DEF BarrierInv, Leases
  <1>p4. RecoveryInv'
    BY <1>h, <1>w, <1>s, <1>b0, <1>b1, <1>b2, <1>b3 DEF RecoveryInv, RecoveryTypes, Claims,
           ClaimedMeansClosed
  <1>p5. TimerTypes'
    BY <1>h, <1>w, <1>s, <1>b0, <1>b1, <1>b2, <1>b3 DEF TimerTypes
  <1>p6. Targets'
    BY <1>h, <1>w, <1>s, <1>b0, <1>b1, <1>b2, <1>b3 DEF Targets, Who, Current, NoSup,
           Running, HeadIs, LaneTypes, On
  <1>p7. Reopening'
    BY <1>h, <1>w, <1>s, <1>b0, <1>b1, <1>b2, <1>b3 DEF Reopening, Who, NoSup, Reopens,
           HeadIs, LaneTypes, Queued
  <1>p8. Rejected'
    BY <1>h, <1>w, <1>s, <1>b0, <1>b1, <1>b2, <1>b3 DEF Rejected, Who, Running, HeadIs,
           LaneTypes, Queued, QueueInv, Sound, Queueing
  <1>q. QED
    BY <1>p0, <1>p1, <1>p2, <1>p3, <1>p4, <1>p5, <1>p6, <1>p7, <1>p8

\* and any other is admitted.
LEMMA AdmittedStep ==
    ASSUME IInv, At("dispatch", "begin"),
           Who \notin aborted \union rejected, model[Who] = applied.model,
           sup # NoSup, bar.accepting, Over,
           bar' = Acquire(bar, Who, sup.id, Ready(life)), life' = Started(life),
           q' = Returned(Start(q), "admitted"),
             UNCHANGED <<modality, config, sup, made, requests, recovery, safeguard, reload, left>>
    PROVE  IInv'
  <1> USE AssumptionFacts DEF IInv
  <1>h. lane # <<>> /\ Head(lane).kind = "dispatch" /\ cur.at = "begin"
    BY DEF At
  <1>w. Head(lane) \in ToSet(lane) /\ Head(lane) \in Tasks /\ Who \in Nat
    BY <1>h, HeadFacts
  <1>m. Pops({}) /\ cur' = Fresh /\ cur' \in Waits /\ cur'.at = "begin"
    BY <1>h, OverFacts, TaskFacts DEF Over, Return
  <1>s. bar.stopped = 0
    BY <1>h DEF BarrierInv, BarrierTypes, Barriers, Leases, HeadIs
  <1>b0. /\ Who = q.item /\ q.value = "none" /\ q.item # NoRequest /\ q.item \in Requests
         /\ q.item \notin Served(bar) /\ Served(bar) = q.active /\ model[q.item] \in Models
    BY <1>h, DispatchFacts
  <1>b1. \A t \in ToSet(lane') : t \in ToSet(lane) /\ t.kind # "dispatch"
    BY <1>h, <1>m DEF Pops, Alike
  <1>b2. /\ Sound(q', model, req, aborted \union rejected, FALSE)
         /\ q'.item = q.item /\ q'.value = "admitted"
         /\ q'.active = q.active /\ q'.closed = q.closed
    <2>1. ~Running
      BY <1>h DEF Running, HeadIs
    <2>2. QED
      BY <1>h, <2>1, StartedFacts
  <1>b3. /\ bar' \in Barriers(Requests, Nat) /\ Leased(bar', sup, model)
         /\ Served(bar') = q.active \union {q.item} /\ ~Idle(bar')
         /\ bar'.accepting = bar.accepting /\ bar'.passedOver = bar.passedOver
         /\ bar'.stopped = bar.stopped
    <2>1. sup.id \in Nat /\ sup.model = model[q.item]
      BY <1>b0 DEF ConfigTypes, Targets
    <2>2. bar \in Barriers(Requests, Nat) /\ Leased(bar, sup, model)
      BY DEF BarrierInv, BarrierTypes, Leases
    <2> DEFINE ready == Ready(life)
    <2>3. ready \in {"pending", "ok", "failed"} /\ bar' = Acquire(bar, q.item, sup.id, ready)
      BY <1>b0 DEF Ready
    <2> HIDE DEF ready
    <2>4. Served(bar) = Served(bar)
      OBVIOUS
    <2>5. QED
      BY <1>h, <2>1, <2>2, <2>3, <2>4, AdmitFacts
  <1>b4. claim = 0
    BY DEF RecoveryInv, Claims, ClaimedMeansClosed
  <1>b5. sup' = sup /\ made' = made /\ life' \in {"running", "starting", "failed"}
    BY DEF Started
  <1>p0. ConfigTypes'
    BY <1>h, <1>w, <1>m, <1>s, <1>b0, <1>b1, <1>b2, <1>b3, <1>b4, <1>b5 DEF ConfigTypes
  <1>p1. LaneInv'
    BY <1>h, <1>w, <1>m, <1>s, <1>b0, <1>b1, <1>b2, <1>b3, <1>b4, <1>b5
       DEF LaneInv, LaneTypes, Lane, Pops
  <1>p2. QueueInv'
    <2>1. RequestTypes'
      BY DEF QueueInv, RequestTypes
    <2>2. Running' = FALSE
      BY <1>m DEF Running, HeadIs
    <2>3. Sound(q', model', req', aborted' \union rejected', FALSE)
      BY <1>b2
    <2>4. QED
      BY <2>1, <2>2, <2>3 DEF QueueInv
  <1>p3. BarrierInv'
    <2>1. (BarrierTypes /\ Leased(bar, sup, model))'
      BY <1>h, <1>w, <1>m, <1>s, <1>b0, <1>b1, <1>b2, <1>b3, <1>b4, <1>b5
         DEF BarrierInv, BarrierTypes, Leases
    <2>2. (Served(bar) = q.active \union (IF q.value = "admitted" THEN {q.item} ELSE {}))'
      BY <1>h, <1>w, <1>m, <1>s, <1>b0, <1>b1, <1>b2, <1>b3, <1>b4, <1>b5
         DEF BarrierInv, Leases, QueueInv, Sound, Queueing
    <2>3. (/\ HeadIs("dispatch", {"update", "stop", "settle"}) => Idle(bar)
           /\ HeadIs("reconcile", {"stop"}) => Idle(bar)
           /\ bar.stopped # 0 => HeadIs("dispatch", {"drain"}) \/ HeadIs("reconcile", {"drain"}))'
      BY <1>h, <1>w, <1>m, <1>s, <1>b0, <1>b1, <1>b2, <1>b3, <1>b4, <1>b5, TaskFacts
         DEF BarrierInv, Leases, HeadIs, LaneInv, LaneTypes, Pops
    <2>4. QED
      BY <2>1, <2>2, <2>3 DEF BarrierInv, Leases
  <1>p4. RecoveryInv'
    BY <1>h, <1>w, <1>m, <1>s, <1>b0, <1>b1, <1>b2, <1>b3, <1>b4, <1>b5
       DEF RecoveryInv, RecoveryTypes, Claims, ClaimedMeansClosed
  <1>p5. TimerTypes'
    BY <1>h, <1>w, <1>m, <1>s, <1>b0, <1>b1, <1>b2, <1>b3, <1>b4, <1>b5 DEF TimerTypes
  <1>p6. Targets'
    BY <1>h, <1>w, <1>m, <1>s, <1>b0, <1>b1, <1>b2, <1>b3, <1>b4, <1>b5
       DEF Targets, Who, Current, NoSup, Running, HeadIs, LaneTypes, Pops, On
  <1>p7. Reopening'
    BY <1>h, <1>w, <1>m, <1>s, <1>b0, <1>b1, <1>b2, <1>b3, <1>b4, <1>b5
       DEF Reopening, Who, NoSup, Reopens, HeadIs, LaneTypes, Pops, Queued
  <1>p8. Rejected'
    BY <1>h, <1>w, <1>m, <1>s, <1>b0, <1>b1, <1>b2, <1>b3, <1>b4, <1>b5
       DEF Rejected, Who, Running, HeadIs, LaneTypes, Pops, Queued, QueueInv, Sound,
           Queueing
  <1>q. QED
    BY <1>p0, <1>p1, <1>p2, <1>p3, <1>p4, <1>p5, <1>p6, <1>p7, <1>p8

\* The first turn of a dispatch keeps the invariant.
LEMMA DispatchStep ==
    ASSUME IInv, DispatchBegin
    PROVE  IInv'
  <1>1. CASE Who \in aborted \union rejected
    BY <1>1, GoneStep DEF DispatchBegin
  <1>2. CASE /\ Who \notin aborted \union rejected
             /\ \/ ~On(snapshot) \/ model[Who] \notin snapshot.selected \union {snapshot.model}
    BY <1>2, RefusedStep DEF DispatchBegin
  <1>3. CASE /\ Who \notin aborted \union rejected /\ On(snapshot)
             /\ model[Who] \in snapshot.selected \union {snapshot.model}
    <2>1. CASE model[Who] # applied.model
      BY <1>3, <2>1, SwitchesStep DEF DispatchBegin
    <2>2. CASE model[Who] = applied.model
      <3>1. /\ At("dispatch", "begin") /\ Over
            /\ Admit(Who, Start(q), applied, bar, sup, life)
            /\ UNCHANGED <<modality, config, sup, made, requests, recovery, safeguard, reload,
                 left>>
        BY <1>3, <2>2 DEF DispatchBegin
      <3>2. CASE On(applied) /\ sup # NoSup /\ bar.accepting
        BY <1>3, <2>2, <3>1, <3>2, AdmittedStep DEF Admit
      <3>3. CASE ~(On(applied) /\ sup # NoSup /\ bar.accepting)
        BY <1>3, <3>1, <3>3, RefusedStep DEF Admit
      <3>4. QED
        BY <3>2, <3>3
    <2>3. QED
      BY <2>1, <2>2
  <1>4. QED
    BY <1>1, <1>2, <1>3

\* A switch that does not fit is over,
LEMMA UnfitStep ==
    ASSUME IInv, At("dispatch", "preflight"),
           NEW v \in {"answered", "error"}, Return(v), UNCHANGED <<bar, backend>>,
           UNCHANGED <<modality, config, requests, recovery, safeguard, reload, left>>
    PROVE  IInv'
  <1> USE AssumptionFacts DEF IInv
  <1>h. lane # <<>> /\ Head(lane).kind = "dispatch" /\ cur.at = "preflight"
    BY DEF At
  <1>w. Head(lane) \in ToSet(lane) /\ Head(lane) \in Tasks /\ Who \in Nat
    BY <1>h, HeadFacts
  <1>m. Pops({}) /\ cur' = Fresh /\ cur' \in Waits /\ cur'.at = "begin"
    BY <1>h, OverFacts, TaskFacts DEF Over, Return
  <1>s. bar.stopped = 0
    BY <1>h DEF BarrierInv, BarrierTypes, Barriers, Leases, HeadIs
  <1>b0. /\ Who = q.item /\ q.value = "none" /\ q.item # NoRequest /\ q.item \in Requests
         /\ q.item \notin Served(bar) /\ Served(bar) = q.active /\ model[q.item] \in Models
    BY <1>h, DispatchFacts
  <1>b1. \A t \in ToSet(lane') : t \in ToSet(lane) /\ t.kind # "dispatch"
    BY <1>h, <1>m DEF Pops, Alike
  <1>b2. bar' = bar /\ Leased(bar', sup, model)
    BY DEF BarrierInv, Leases
  <1>b3. /\ Sound(q', model, req, aborted \union rejected, FALSE)
         /\ q'.item = q.item /\ q'.value = v
         /\ q'.active = q.active /\ q'.closed = q.closed
    BY <1>h, RanFacts DEF Return, Running, HeadIs
  <1>p0. ConfigTypes'
    BY <1>h, <1>w, <1>m, <1>s, <1>b0, <1>b1, <1>b2, <1>b3 DEF ConfigTypes
  <1>p1. LaneInv'
    BY <1>h, <1>w, <1>m, <1>s, <1>b0, <1>b1, <1>b2, <1>b3 DEF LaneInv, LaneTypes, Lane, Pops
  <1>p2. QueueInv'
    <2>1. RequestTypes'
      BY DEF QueueInv, RequestTypes
    <2>2. Running' = FALSE
      BY <1>m DEF Running, HeadIs
    <2>3. Sound(q', model', req', aborted' \union rejected', FALSE)
      BY <1>b3
    <2>4. QED
      BY <2>1, <2>2, <2>3 DEF QueueInv
  <1>p3. BarrierInv'
    <2>1. (BarrierTypes /\ Leased(bar, sup, model))'
      BY <1>h, <1>w, <1>m, <1>s, <1>b0, <1>b1, <1>b2, <1>b3
         DEF BarrierInv, BarrierTypes, Leases
    <2>2. (Served(bar) = q.active \union (IF q.value = "admitted" THEN {q.item} ELSE {}))'
      BY <1>h, <1>w, <1>m, <1>s, <1>b0, <1>b1, <1>b2, <1>b3
         DEF BarrierInv, Leases, QueueInv, Sound, Queueing
    <2>3. (/\ HeadIs("dispatch", {"update", "stop", "settle"}) => Idle(bar)
           /\ HeadIs("reconcile", {"stop"}) => Idle(bar)
           /\ bar.stopped # 0 => HeadIs("dispatch", {"drain"}) \/ HeadIs("reconcile", {"drain"}))'
      BY <1>h, <1>w, <1>m, <1>s, <1>b0, <1>b1, <1>b2, <1>b3, TaskFacts
         DEF BarrierInv, Leases, HeadIs, LaneInv, LaneTypes, Pops
    <2>4. QED
      BY <2>1, <2>2, <2>3 DEF BarrierInv, Leases
  <1>p4. RecoveryInv'
    BY <1>h, <1>w, <1>m, <1>s, <1>b0, <1>b1, <1>b2, <1>b3
       DEF RecoveryInv, RecoveryTypes, Claims, ClaimedMeansClosed
  <1>p5. TimerTypes'
    BY <1>h, <1>w, <1>m, <1>s, <1>b0, <1>b1, <1>b2, <1>b3 DEF TimerTypes
  <1>p6. Targets'
    BY <1>h, <1>w, <1>m, <1>s, <1>b0, <1>b1, <1>b2, <1>b3
       DEF Targets, Who, Current, NoSup, Running, HeadIs, LaneTypes, Pops, On
  <1>p7. Reopening'
    BY <1>h, <1>w, <1>m, <1>s, <1>b0, <1>b1, <1>b2, <1>b3
       DEF Reopening, Who, NoSup, Reopens, HeadIs, LaneTypes, Pops, Queued
  <1>p8. Rejected'
    BY <1>h, <1>w, <1>m, <1>s, <1>b0, <1>b1, <1>b2, <1>b3
       DEF Rejected, Who, Running, HeadIs, LaneTypes, Pops, Queued, QueueInv, Sound,
           Queueing
  <1>q. QED
    BY <1>p0, <1>p1, <1>p2, <1>p3, <1>p4, <1>p5, <1>p6, <1>p7, <1>p8

\* one that fits drains the barrier,
LEMMA FitsStep ==
    ASSUME IInv, At("dispatch", "preflight"),
           Drain, Goto("drain"), UNCHANGED q,
           UNCHANGED <<modality, config, requests, recovery, safeguard, reload, left>>
    PROVE  IInv'
  <1> USE AssumptionFacts DEF IInv
  <1>h. lane # <<>> /\ Head(lane).kind = "dispatch" /\ cur.at = "preflight"
    BY DEF At
  <1>w. Head(lane) \in ToSet(lane) /\ Head(lane) \in Tasks /\ Who \in Nat
    BY <1>h, HeadFacts
  <1>m. /\ lane' = lane /\ cur' \in Waits /\ cur'.at = "drain"
        /\ cur'.target = cur.target
    BY <1>h, GotoFacts
  <1>b0. /\ bar' \in Barriers(Requests, Nat) /\ Leased(bar', sup, model)
         /\ Served(bar') = Served(bar) /\ (Idle(bar') <=> Idle(bar))
         /\ bar'.passedOver = bar.passedOver /\ ~bar'.accepting
         /\ sup' = sup /\ made' = made /\ life' \in {life, "idle"}
    BY DrainFacts
  <1>p0. ConfigTypes'
    BY <1>h, <1>w, <1>m, <1>b0 DEF ConfigTypes
  <1>p1. LaneInv'
    BY <1>h, <1>w, <1>m, <1>b0 DEF LaneInv, LaneTypes, Lane
  <1>p2. QueueInv'
    <2>1. RequestTypes'
      BY <1>h, <1>w, <1>m, <1>b0 DEF QueueInv, RequestTypes
    <2>2. Running' = Running
      BY <1>h, <1>w, <1>m, <1>b0, TaskFacts DEF Running, HeadIs, LaneInv, LaneTypes
    <2>3. Sound(q', model', req', aborted' \union rejected', Running)
      BY <1>h, <1>w, <1>m, <1>b0 DEF QueueInv
    <2>4. QED
      BY <2>1, <2>2, <2>3 DEF QueueInv
  <1>p3. BarrierInv'
    <2>1. (BarrierTypes /\ Leased(bar, sup, model))'
      BY <1>h, <1>w, <1>m, <1>b0 DEF BarrierInv, BarrierTypes, Leases
    <2>2. (Served(bar) = q.active \union (IF q.value = "admitted" THEN {q.item} ELSE {}))'
      BY <1>h, <1>w, <1>m, <1>b0 DEF BarrierInv, Leases, QueueInv, Sound, Queueing
    <2>3. (/\ HeadIs("dispatch", {"update", "stop", "settle"}) => Idle(bar)
           /\ HeadIs("reconcile", {"stop"}) => Idle(bar)
           /\ bar.stopped # 0 => HeadIs("dispatch", {"drain"}) \/ HeadIs("reconcile", {"drain"}))'
      BY <1>h, <1>w, <1>m, <1>b0, TaskFacts DEF BarrierInv, Leases, HeadIs, LaneInv,
             LaneTypes
    <2>4. QED
      BY <2>1, <2>2, <2>3 DEF BarrierInv, Leases
  <1>p4. RecoveryInv'
    BY <1>h, <1>w, <1>m, <1>b0 DEF RecoveryInv, RecoveryTypes, Claims, ClaimedMeansClosed
  <1>p5. TimerTypes'
    BY <1>h, <1>w, <1>m, <1>b0 DEF TimerTypes
  <1>p6. Targets'
    BY <1>h, <1>w, <1>m, <1>b0 DEF Targets, Who, Current, NoSup, Running, HeadIs, LaneTypes,
                                   On
  <1>p7. Reopening'
    BY <1>h, <1>w, <1>m, <1>b0 DEF Reopening, Who, NoSup, Reopens, HeadIs, LaneTypes, Queued
  <1>p8. Rejected'
    BY <1>h, <1>w, <1>m, <1>b0 DEF Rejected, Who, Running, HeadIs, LaneTypes, Queued,
                                   QueueInv, Sound, Queueing
  <1>q. QED
    BY <1>p0, <1>p1, <1>p2, <1>p3, <1>p4, <1>p5, <1>p6, <1>p7, <1>p8

\* reopens it for a client that has left,
LEMMA LeftDrainStep ==
    ASSUME IInv, At("dispatch", "drain"),
           Idle(bar), AttachBarrier(bar, snapshot), Return("error"),
           UNCHANGED <<modality, config, backend, requests, rec, safeguard, reload, left>>
    PROVE  IInv'
  <1> USE AssumptionFacts DEF IInv
  <1>h. lane # <<>> /\ Head(lane).kind = "dispatch" /\ cur.at = "drain"
    BY DEF At
  <1>w. Head(lane) \in ToSet(lane) /\ Head(lane) \in Tasks /\ Who \in Nat
    BY <1>h, HeadFacts
  <1>m. Pops({}) /\ cur' = Fresh /\ cur' \in Waits /\ cur'.at = "begin"
    BY <1>h, OverFacts, TaskFacts DEF Over, Return
  <1>b0. /\ Who = q.item /\ q.value = "none" /\ q.item # NoRequest /\ q.item \in Requests
         /\ q.item \notin Served(bar) /\ Served(bar) = q.active /\ model[q.item] \in Models
    BY <1>h, DispatchFacts
  <1>b1. \A t \in ToSet(lane') : t \in ToSet(lane) /\ t.kind # "dispatch"
    BY <1>h, <1>m DEF Pops, Alike
  <1>b2. /\ bar' \in Barriers(Requests, Nat) /\ Leased(bar', sup, model)
         /\ Served(bar') = Served(bar) /\ (Idle(bar') <=> Idle(bar)) /\ bar'.stopped = bar.stopped
         /\ (bar'.accepting \/ bar'.passedOver) /\ claim' = 0
    BY AttachedFacts DEF AttachBarrier
  <1>b3. /\ Sound(q', model, req, aborted \union rejected, FALSE)
         /\ q'.item = q.item /\ q'.value = "error"
         /\ q'.active = q.active /\ q'.closed = q.closed
    BY <1>h, RanFacts DEF Return, Running, HeadIs
  <1>b4. bar.stopped = 0
    BY NobodyFacts
  <1>p0. ConfigTypes'
    BY <1>h, <1>w, <1>m, <1>b0, <1>b1, <1>b2, <1>b3, <1>b4 DEF ConfigTypes
  <1>p1. LaneInv'
    BY <1>h, <1>w, <1>m, <1>b0, <1>b1, <1>b2, <1>b3, <1>b4
       DEF LaneInv, LaneTypes, Lane, Pops
  <1>p2. QueueInv'
    <2>1. RequestTypes'
      BY DEF QueueInv, RequestTypes
    <2>2. Running' = FALSE
      BY <1>m DEF Running, HeadIs
    <2>3. Sound(q', model', req', aborted' \union rejected', FALSE)
      BY <1>b3
    <2>4. QED
      BY <2>1, <2>2, <2>3 DEF QueueInv
  <1>p3. BarrierInv'
    <2>1. (BarrierTypes /\ Leased(bar, sup, model))'
      BY <1>h, <1>w, <1>m, <1>b0, <1>b1, <1>b2, <1>b3, <1>b4
         DEF BarrierInv, BarrierTypes, Leases
    <2>2. (Served(bar) = q.active \union (IF q.value = "admitted" THEN {q.item} ELSE {}))'
      BY <1>h, <1>w, <1>m, <1>b0, <1>b1, <1>b2, <1>b3, <1>b4
         DEF BarrierInv, Leases, QueueInv, Sound, Queueing
    <2>3. (/\ HeadIs("dispatch", {"update", "stop", "settle"}) => Idle(bar)
           /\ HeadIs("reconcile", {"stop"}) => Idle(bar)
           /\ bar.stopped # 0 => HeadIs("dispatch", {"drain"}) \/ HeadIs("reconcile", {"drain"}))'
      BY <1>h, <1>w, <1>m, <1>b0, <1>b1, <1>b2, <1>b3, <1>b4, TaskFacts
         DEF BarrierInv, Leases, HeadIs, LaneInv, LaneTypes, Pops
    <2>4. QED
      BY <2>1, <2>2, <2>3 DEF BarrierInv, Leases
  <1>p4. RecoveryInv'
    BY <1>h, <1>w, <1>m, <1>b0, <1>b1, <1>b2, <1>b3, <1>b4
       DEF RecoveryInv, RecoveryTypes, Claims, ClaimedMeansClosed
  <1>p5. TimerTypes'
    BY <1>h, <1>w, <1>m, <1>b0, <1>b1, <1>b2, <1>b3, <1>b4 DEF TimerTypes
  <1>p6. Targets'
    BY <1>h, <1>w, <1>m, <1>b0, <1>b1, <1>b2, <1>b3, <1>b4
       DEF Targets, Who, Current, NoSup, Running, HeadIs, LaneTypes, Pops, On
  <1>p7. Reopening'
    BY <1>h, <1>w, <1>m, <1>b0, <1>b1, <1>b2, <1>b3, <1>b4
       DEF Reopening, Who, NoSup, Reopens, HeadIs, LaneTypes, Pops, Queued
  <1>p8. Rejected'
    BY <1>h, <1>w, <1>m, <1>b0, <1>b1, <1>b2, <1>b3, <1>b4
       DEF Rejected, Who, Running, HeadIs, LaneTypes, Pops, Queued, QueueInv, Sound,
           Queueing
  <1>q. QED
    BY <1>p0, <1>p1, <1>p2, <1>p3, <1>p4, <1>p5, <1>p6, <1>p7, <1>p8

\* but not for a request the queue rejected,
LEMMA RejectedDrainStep ==
    ASSUME IInv, At("dispatch", "drain"),
           Idle(bar), Who \in rejected \ aborted, Return("error"), UNCHANGED <<bar, claim>>,
           UNCHANGED <<modality, config, backend, requests, rec, safeguard, reload, left>>
    PROVE  IInv'
  <1> USE AssumptionFacts DEF IInv
  <1>h. lane # <<>> /\ Head(lane).kind = "dispatch" /\ cur.at = "drain"
    BY DEF At
  <1>w. Head(lane) \in ToSet(lane) /\ Head(lane) \in Tasks /\ Who \in Nat
    BY <1>h, HeadFacts
  <1>m. Pops({}) /\ cur' = Fresh /\ cur' \in Waits /\ cur'.at = "begin"
    BY <1>h, OverFacts, TaskFacts DEF Over, Return
  <1>b0. /\ Who = q.item /\ q.value = "none" /\ q.item # NoRequest /\ q.item \in Requests
         /\ q.item \notin Served(bar) /\ Served(bar) = q.active /\ model[q.item] \in Models
    BY <1>h, DispatchFacts
  <1>b1. \A t \in ToSet(lane') : t \in ToSet(lane) /\ t.kind # "dispatch"
    BY <1>h, <1>m DEF Pops, Alike
  <1>b2. bar' = bar /\ Leased(bar', sup, model)
    BY DEF BarrierInv, Leases
  <1>b3. /\ Sound(q', model, req, aborted \union rejected, FALSE)
         /\ q'.item = q.item /\ q'.value = "error"
         /\ q'.active = q.active /\ q'.closed = q.closed
    BY <1>h, RanFacts DEF Return, Running, HeadIs
  <1>b4. bar.stopped = 0
    BY NobodyFacts
  <1>b5. q.closed \/ \E t \in ToSet(lane') : t.kind = "evictAll"
    BY <1>h, <1>m DEF Rejected, Running, HeadIs, Queued, Pops
  <1>p0. ConfigTypes'
    BY <1>h, <1>w, <1>m, <1>b0, <1>b1, <1>b2, <1>b3, <1>b4, <1>b5 DEF ConfigTypes
  <1>p1. LaneInv'
    BY <1>h, <1>w, <1>m, <1>b0, <1>b1, <1>b2, <1>b3, <1>b4, <1>b5
       DEF LaneInv, LaneTypes, Lane, Pops
  <1>p2. QueueInv'
    <2>1. RequestTypes'
      BY DEF QueueInv, RequestTypes
    <2>2. Running' = FALSE
      BY <1>m DEF Running, HeadIs
    <2>3. Sound(q', model', req', aborted' \union rejected', FALSE)
      BY <1>b3
    <2>4. QED
      BY <2>1, <2>2, <2>3 DEF QueueInv
  <1>p3. BarrierInv'
    <2>1. (BarrierTypes /\ Leased(bar, sup, model))'
      BY <1>h, <1>w, <1>m, <1>b0, <1>b1, <1>b2, <1>b3, <1>b4, <1>b5
         DEF BarrierInv, BarrierTypes, Leases
    <2>2. (Served(bar) = q.active \union (IF q.value = "admitted" THEN {q.item} ELSE {}))'
      BY <1>h, <1>w, <1>m, <1>b0, <1>b1, <1>b2, <1>b3, <1>b4, <1>b5
         DEF BarrierInv, Leases, QueueInv, Sound, Queueing
    <2>3. (/\ HeadIs("dispatch", {"update", "stop", "settle"}) => Idle(bar)
           /\ HeadIs("reconcile", {"stop"}) => Idle(bar)
           /\ bar.stopped # 0 => HeadIs("dispatch", {"drain"}) \/ HeadIs("reconcile", {"drain"}))'
      BY <1>h, <1>w, <1>m, <1>b0, <1>b1, <1>b2, <1>b3, <1>b4, <1>b5, TaskFacts
         DEF BarrierInv, Leases, HeadIs, LaneInv, LaneTypes, Pops
    <2>4. QED
      BY <2>1, <2>2, <2>3 DEF BarrierInv, Leases
  <1>p4. RecoveryInv'
    BY <1>h, <1>w, <1>m, <1>b0, <1>b1, <1>b2, <1>b3, <1>b4, <1>b5
       DEF RecoveryInv, RecoveryTypes, Claims, ClaimedMeansClosed
  <1>p5. TimerTypes'
    BY <1>h, <1>w, <1>m, <1>b0, <1>b1, <1>b2, <1>b3, <1>b4, <1>b5 DEF TimerTypes
  <1>p6. Targets'
    BY <1>h, <1>w, <1>m, <1>b0, <1>b1, <1>b2, <1>b3, <1>b4, <1>b5
       DEF Targets, Who, Current, NoSup, Running, HeadIs, LaneTypes, Pops, On
  <1>p7. Reopening'
    BY <1>h, <1>w, <1>m, <1>b0, <1>b1, <1>b2, <1>b3, <1>b4, <1>b5
       DEF Reopening, Who, NoSup, Reopens, HeadIs, LaneTypes, Pops, Queued
  <1>p8. Rejected'
    BY <1>h, <1>w, <1>m, <1>b0, <1>b1, <1>b2, <1>b3, <1>b4, <1>b5
       DEF Rejected, Who, Running, HeadIs, LaneTypes, Pops, Queued, QueueInv, Sound,
           Queueing
  <1>q. QED
    BY <1>p0, <1>p1, <1>p2, <1>p3, <1>p4, <1>p5, <1>p6, <1>p7, <1>p8

\* or goes on to the commit.
LEMMA DrainedStep ==
    ASSUME IInv, At("dispatch", "drain"),
           Idle(bar), Goto("update"), UNCHANGED <<q, bar, claim>>,
           UNCHANGED <<modality, config, backend, requests, rec, safeguard, reload, left>>
    PROVE  IInv'
  <1> USE AssumptionFacts DEF IInv
  <1>h. lane # <<>> /\ Head(lane).kind = "dispatch" /\ cur.at = "drain"
    BY DEF At
  <1>w. Head(lane) \in ToSet(lane) /\ Head(lane) \in Tasks /\ Who \in Nat
    BY <1>h, HeadFacts
  <1>m. /\ lane' = lane /\ cur' \in Waits /\ cur'.at = "update"
        /\ cur'.target = cur.target
    BY <1>h, GotoFacts
  <1>b0. bar' = bar /\ Leased(bar', sup, model)
    BY DEF BarrierInv, Leases
  <1>b1. bar.stopped = 0
    BY NobodyFacts
  <1>p0. ConfigTypes'
    BY <1>h, <1>w, <1>m, <1>b0, <1>b1 DEF ConfigTypes
  <1>p1. LaneInv'
    BY <1>h, <1>w, <1>m, <1>b0, <1>b1 DEF LaneInv, LaneTypes, Lane
  <1>p2. QueueInv'
    <2>1. RequestTypes'
      BY <1>h, <1>w, <1>m, <1>b0, <1>b1 DEF QueueInv, RequestTypes
    <2>2. Running' = Running
      BY <1>h, <1>w, <1>m, <1>b0, <1>b1, TaskFacts DEF Running, HeadIs, LaneInv, LaneTypes
    <2>3. Sound(q', model', req', aborted' \union rejected', Running)
      BY <1>h, <1>w, <1>m, <1>b0, <1>b1 DEF QueueInv
    <2>4. QED
      BY <2>1, <2>2, <2>3 DEF QueueInv
  <1>p3. BarrierInv'
    <2>1. (BarrierTypes /\ Leased(bar, sup, model))'
      BY <1>h, <1>w, <1>m, <1>b0, <1>b1 DEF BarrierInv, BarrierTypes, Leases
    <2>2. (Served(bar) = q.active \union (IF q.value = "admitted" THEN {q.item} ELSE {}))'
      BY <1>h, <1>w, <1>m, <1>b0, <1>b1 DEF BarrierInv, Leases, QueueInv, Sound, Queueing
    <2>3. (/\ HeadIs("dispatch", {"update", "stop", "settle"}) => Idle(bar)
           /\ HeadIs("reconcile", {"stop"}) => Idle(bar)
           /\ bar.stopped # 0 => HeadIs("dispatch", {"drain"}) \/ HeadIs("reconcile", {"drain"}))'
      BY <1>h, <1>w, <1>m, <1>b0, <1>b1, TaskFacts DEF BarrierInv, Leases, HeadIs, LaneInv,
             LaneTypes
    <2>4. QED
      BY <2>1, <2>2, <2>3 DEF BarrierInv, Leases
  <1>p4. RecoveryInv'
    BY <1>h, <1>w, <1>m, <1>b0, <1>b1 DEF RecoveryInv, RecoveryTypes, Claims,
                                          ClaimedMeansClosed
  <1>p5. TimerTypes'
    BY <1>h, <1>w, <1>m, <1>b0, <1>b1 DEF TimerTypes
  <1>p6. Targets'
    BY <1>h, <1>w, <1>m, <1>b0, <1>b1 DEF Targets, Who, Current, NoSup, Running, HeadIs,
                                          LaneTypes, On
  <1>p7. Reopening'
    BY <1>h, <1>w, <1>m, <1>b0, <1>b1 DEF Reopening, Who, NoSup, Reopens, HeadIs, LaneTypes,
                                          Queued
  <1>p8. Rejected'
    BY <1>h, <1>w, <1>m, <1>b0, <1>b1 DEF Rejected, Who, Running, HeadIs, LaneTypes, Queued,
                                          QueueInv, Sound, Queueing
  <1>q. QED
    BY <1>p0, <1>p1, <1>p2, <1>p3, <1>p4, <1>p5, <1>p6, <1>p7, <1>p8

\* A commit that is not made reopens the barrier,
LEMMA UncommittedStep ==
    ASSUME IInv, At("dispatch", "update"),
           NEW v \in {"answered", "error"}, Return(v), AttachBarrier(bar, snapshot),
           left' \in 0..MaxDisturbances, UNCHANGED <<disk, snapshot, backend>>,
           UNCHANGED <<modality, applied, scheduled, requests, rec, safeguard, reload>>
    PROVE  IInv'
  <1> USE AssumptionFacts DEF IInv
  <1>h. lane # <<>> /\ Head(lane).kind = "dispatch" /\ cur.at = "update"
    BY DEF At
  <1>w. Head(lane) \in ToSet(lane) /\ Head(lane) \in Tasks /\ Who \in Nat
    BY <1>h, HeadFacts
  <1>m. Pops({}) /\ cur' = Fresh /\ cur' \in Waits /\ cur'.at = "begin"
    BY <1>h, OverFacts, TaskFacts DEF Over, Return
  <1>s. bar.stopped = 0
    BY <1>h DEF BarrierInv, BarrierTypes, Barriers, Leases, HeadIs
  <1>b0. /\ Who = q.item /\ q.value = "none" /\ q.item # NoRequest /\ q.item \in Requests
         /\ q.item \notin Served(bar) /\ Served(bar) = q.active /\ model[q.item] \in Models
    BY <1>h, DispatchFacts
  <1>b1. \A t \in ToSet(lane') : t \in ToSet(lane) /\ t.kind # "dispatch"
    BY <1>h, <1>m DEF Pops, Alike
  <1>b2. /\ bar' \in Barriers(Requests, Nat) /\ Leased(bar', sup, model)
         /\ Served(bar') = Served(bar) /\ (Idle(bar') <=> Idle(bar)) /\ bar'.stopped = bar.stopped
         /\ (bar'.accepting \/ bar'.passedOver) /\ claim' = 0
    BY AttachedFacts DEF AttachBarrier
  <1>b3. /\ Sound(q', model, req, aborted \union rejected, FALSE)
         /\ q'.item = q.item /\ q'.value = v
         /\ q'.active = q.active /\ q'.closed = q.closed
    BY <1>h, RanFacts DEF Return, Running, HeadIs
  <1>p0. ConfigTypes'
    BY <1>h, <1>w, <1>m, <1>s, <1>b0, <1>b1, <1>b2, <1>b3 DEF ConfigTypes
  <1>p1. LaneInv'
    BY <1>h, <1>w, <1>m, <1>s, <1>b0, <1>b1, <1>b2, <1>b3 DEF LaneInv, LaneTypes, Lane, Pops
  <1>p2. QueueInv'
    <2>1. RequestTypes'
      BY DEF QueueInv, RequestTypes
    <2>2. Running' = FALSE
      BY <1>m DEF Running, HeadIs
    <2>3. Sound(q', model', req', aborted' \union rejected', FALSE)
      BY <1>b3
    <2>4. QED
      BY <2>1, <2>2, <2>3 DEF QueueInv
  <1>p3. BarrierInv'
    <2>1. (BarrierTypes /\ Leased(bar, sup, model))'
      BY <1>h, <1>w, <1>m, <1>s, <1>b0, <1>b1, <1>b2, <1>b3
         DEF BarrierInv, BarrierTypes, Leases
    <2>2. (Served(bar) = q.active \union (IF q.value = "admitted" THEN {q.item} ELSE {}))'
      BY <1>h, <1>w, <1>m, <1>s, <1>b0, <1>b1, <1>b2, <1>b3
         DEF BarrierInv, Leases, QueueInv, Sound, Queueing
    <2>3. (/\ HeadIs("dispatch", {"update", "stop", "settle"}) => Idle(bar)
           /\ HeadIs("reconcile", {"stop"}) => Idle(bar)
           /\ bar.stopped # 0 => HeadIs("dispatch", {"drain"}) \/ HeadIs("reconcile", {"drain"}))'
      BY <1>h, <1>w, <1>m, <1>s, <1>b0, <1>b1, <1>b2, <1>b3, TaskFacts
         DEF BarrierInv, Leases, HeadIs, LaneInv, LaneTypes, Pops
    <2>4. QED
      BY <2>1, <2>2, <2>3 DEF BarrierInv, Leases
  <1>p4. RecoveryInv'
    BY <1>h, <1>w, <1>m, <1>s, <1>b0, <1>b1, <1>b2, <1>b3
       DEF RecoveryInv, RecoveryTypes, Claims, ClaimedMeansClosed
  <1>p5. TimerTypes'
    BY <1>h, <1>w, <1>m, <1>s, <1>b0, <1>b1, <1>b2, <1>b3 DEF TimerTypes
  <1>p6. Targets'
    BY <1>h, <1>w, <1>m, <1>s, <1>b0, <1>b1, <1>b2, <1>b3
       DEF Targets, Who, Current, NoSup, Running, HeadIs, LaneTypes, Pops, On
  <1>p7. Reopening'
    BY <1>h, <1>w, <1>m, <1>s, <1>b0, <1>b1, <1>b2, <1>b3
       DEF Reopening, Who, NoSup, Reopens, HeadIs, LaneTypes, Pops, Queued
  <1>p8. Rejected'
    BY <1>h, <1>w, <1>m, <1>s, <1>b0, <1>b1, <1>b2, <1>b3
       DEF Rejected, Who, Running, HeadIs, LaneTypes, Pops, Queued, QueueInv, Sound,
           Queueing
  <1>q. QED
    BY <1>p0, <1>p1, <1>p2, <1>p3, <1>p4, <1>p5, <1>p6, <1>p7, <1>p8

\* as one made for a request that is gone does,
LEMMA CommittedLateStep ==
    ASSUME IInv, At("dispatch", "update"),
           disk' = [disk EXCEPT !.model = model[Who]],
           snapshot' = Refreshed([disk EXCEPT !.model = model[Who]]),
           AttachBarrier(bar, snapshot'), Return("error"), UNCHANGED backend,
           UNCHANGED left,
             UNCHANGED <<modality, applied, scheduled, requests, rec, safeguard, reload>>
    PROVE  IInv'
  <1> USE AssumptionFacts DEF IInv
  <1>h. lane # <<>> /\ Head(lane).kind = "dispatch" /\ cur.at = "update"
    BY DEF At
  <1>w. Head(lane) \in ToSet(lane) /\ Head(lane) \in Tasks /\ Who \in Nat
    BY <1>h, HeadFacts
  <1>m. Pops({}) /\ cur' = Fresh /\ cur' \in Waits /\ cur'.at = "begin"
    BY <1>h, OverFacts, TaskFacts DEF Over, Return
  <1>s. bar.stopped = 0
    BY <1>h DEF BarrierInv, BarrierTypes, Barriers, Leases, HeadIs
  <1>b0. /\ Who = q.item /\ q.value = "none" /\ q.item # NoRequest /\ q.item \in Requests
         /\ q.item \notin Served(bar) /\ Served(bar) = q.active /\ model[q.item] \in Models
    BY <1>h, DispatchFacts
  <1>b1. \A t \in ToSet(lane') : t \in ToSet(lane) /\ t.kind # "dispatch"
    BY <1>h, <1>m DEF Pops, Alike
  <1>b2. /\ snapshot' \in Snapshots /\ snapshot.rev <= snapshot'.rev
         /\ snapshot'.model = model[Who] /\ snapshot'.selected = disk.selected
         /\ \A x : x.rev \in Nat /\ Current(x, snapshot) => Current(x, snapshot')
         /\ disk' \in [model : Models, selected : SUBSET Models]
    <2> DEFINE c == [disk EXCEPT !.model = model[Who]]
    <2>1. /\ c \in [model : Models, selected : SUBSET Models]
          /\ c.model = model[Who] /\ c.selected = disk.selected
      BY <1>b0 DEF ConfigTypes
    <2>2. snapshot' = Refreshed(c) /\ disk' = c
      OBVIOUS
    <2> HIDE DEF c
    <2>3. QED
      BY <2>1, <2>2, RefreshedFacts
  <1>b3. /\ bar' \in Barriers(Requests, Nat) /\ Leased(bar', sup, model)
         /\ Served(bar') = Served(bar) /\ (Idle(bar') <=> Idle(bar)) /\ bar'.stopped = bar.stopped
         /\ (bar'.accepting \/ bar'.passedOver) /\ claim' = 0
    BY AttachedFacts DEF AttachBarrier
  <1>b4. /\ Sound(q', model, req, aborted \union rejected, FALSE)
         /\ q'.item = q.item /\ q'.value = "error"
         /\ q'.active = q.active /\ q'.closed = q.closed
    BY <1>h, RanFacts DEF Return, Running, HeadIs
  <1>b5. /\ applied.rev \in Nat /\ snapshot.rev \in Nat /\ snapshot'.rev \in Nat
         /\ Current(applied, snapshot') /\ applied.rev # snapshot'.rev
         /\ applied.rev <= snapshot'.rev
    <2>1. applied.rev \in Nat /\ snapshot.rev \in Nat /\ snapshot'.rev \in Nat
      BY <1>b2 DEF ConfigTypes, Snapshots
    <2>2. Current(applied, snapshot')
      BY <1>b2, <2>1 DEF Targets
    <2>3. model[Who] # applied.model
      BY <1>h DEF Targets, Running, HeadIs
    <2>4. QED
      BY <1>b2, <2>1, <2>2, <2>3 DEF Current
  <1>p0. ConfigTypes'
    BY <1>h, <1>w, <1>m, <1>s, <1>b0, <1>b1, <1>b2, <1>b3, <1>b4, <1>b5 DEF ConfigTypes
  <1>p1. LaneInv'
    BY <1>h, <1>w, <1>m, <1>s, <1>b0, <1>b1, <1>b2, <1>b3, <1>b4, <1>b5
       DEF LaneInv, LaneTypes, Lane, Pops
  <1>p2. QueueInv'
    <2>1. RequestTypes'
      BY DEF QueueInv, RequestTypes
    <2>2. Running' = FALSE
      BY <1>m DEF Running, HeadIs
    <2>3. Sound(q', model', req', aborted' \union rejected', FALSE)
      BY <1>b4
    <2>4. QED
      BY <2>1, <2>2, <2>3 DEF QueueInv
  <1>p3. BarrierInv'
    <2>1. (BarrierTypes /\ Leased(bar, sup, model))'
      BY <1>h, <1>w, <1>m, <1>s, <1>b0, <1>b1, <1>b2, <1>b3, <1>b4, <1>b5
         DEF BarrierInv, BarrierTypes, Leases
    <2>2. (Served(bar) = q.active \union (IF q.value = "admitted" THEN {q.item} ELSE {}))'
      BY <1>h, <1>w, <1>m, <1>s, <1>b0, <1>b1, <1>b2, <1>b3, <1>b4, <1>b5
         DEF BarrierInv, Leases, QueueInv, Sound, Queueing
    <2>3. (/\ HeadIs("dispatch", {"update", "stop", "settle"}) => Idle(bar)
           /\ HeadIs("reconcile", {"stop"}) => Idle(bar)
           /\ bar.stopped # 0 => HeadIs("dispatch", {"drain"}) \/ HeadIs("reconcile", {"drain"}))'
      BY <1>h, <1>w, <1>m, <1>s, <1>b0, <1>b1, <1>b2, <1>b3, <1>b4, <1>b5, TaskFacts
         DEF BarrierInv, Leases, HeadIs, LaneInv, LaneTypes, Pops
    <2>4. QED
      BY <2>1, <2>2, <2>3 DEF BarrierInv, Leases
  <1>p4. RecoveryInv'
    BY <1>h, <1>w, <1>m, <1>s, <1>b0, <1>b1, <1>b2, <1>b3, <1>b4, <1>b5
       DEF RecoveryInv, RecoveryTypes, Claims, ClaimedMeansClosed
  <1>p5. TimerTypes'
    BY <1>h, <1>w, <1>m, <1>s, <1>b0, <1>b1, <1>b2, <1>b3, <1>b4, <1>b5 DEF TimerTypes
  <1>p6. Targets'
    BY <1>h, <1>w, <1>m, <1>s, <1>b0, <1>b1, <1>b2, <1>b3, <1>b4, <1>b5
       DEF Targets, Who, Current, NoSup, Running, HeadIs, LaneTypes, Pops, On
  <1>p7. Reopening'
    BY <1>h, <1>w, <1>m, <1>s, <1>b0, <1>b1, <1>b2, <1>b3, <1>b4, <1>b5
       DEF Reopening, Who, NoSup, Reopens, HeadIs, LaneTypes, Pops, Queued
  <1>p8. Rejected'
    BY <1>h, <1>w, <1>m, <1>s, <1>b0, <1>b1, <1>b2, <1>b3, <1>b4, <1>b5
       DEF Rejected, Who, Running, HeadIs, LaneTypes, Pops, Queued, QueueInv, Sound,
           Queueing
  <1>q. QED
    BY <1>p0, <1>p1, <1>p2, <1>p3, <1>p4, <1>p5, <1>p6, <1>p7, <1>p8

\* and takes the previous supervisor otherwise.
LEMMA CommittedStep ==
    ASSUME IInv, At("dispatch", "update"),
           model[Who] \in disk.selected, disk' = [disk EXCEPT !.model = model[Who]],
           snapshot' = Refreshed([disk EXCEPT !.model = model[Who]]), TakeSup,
           cur' = [cur EXCEPT !.at = "stop", !.target = snapshot',
                              !.previous = IF sup = NoSup THEN "none"
                                           ELSE IF life = "running" THEN "running" ELSE "stopped"],
           UNCHANGED <<lane, q, bar, claim>>, UNCHANGED left,
             UNCHANGED <<modality, applied, scheduled, requests, rec, safeguard, reload>>
    PROVE  IInv'
  <1> USE AssumptionFacts DEF IInv
  <1>h. lane # <<>> /\ Head(lane).kind = "dispatch" /\ cur.at = "update"
    BY DEF At
  <1>w. Head(lane) \in ToSet(lane) /\ Head(lane) \in Tasks /\ Who \in Nat
    BY <1>h, HeadFacts
  <1>s. bar.stopped = 0
    BY <1>h DEF BarrierInv, BarrierTypes, Barriers, Leases, HeadIs
  <1>b0. /\ Who = q.item /\ q.value = "none" /\ q.item # NoRequest /\ q.item \in Requests
         /\ q.item \notin Served(bar) /\ Served(bar) = q.active /\ model[q.item] \in Models
    BY <1>h, DispatchFacts
  <1>b1. lane' = lane /\ q' = q /\ bar' = bar
    OBVIOUS
  <1>b2. /\ snapshot' \in Snapshots /\ snapshot.rev <= snapshot'.rev
         /\ snapshot'.model = model[Who] /\ snapshot'.selected = disk.selected
         /\ \A x : x.rev \in Nat /\ Current(x, snapshot) => Current(x, snapshot')
         /\ disk' \in [model : Models, selected : SUBSET Models]
    <2> DEFINE c == [disk EXCEPT !.model = model[Who]]
    <2>1. /\ c \in [model : Models, selected : SUBSET Models]
          /\ c.model = model[Who] /\ c.selected = disk.selected
      BY <1>b0 DEF ConfigTypes
    <2>2. snapshot' = Refreshed(c) /\ disk' = c
      OBVIOUS
    <2> HIDE DEF c
    <2>3. QED
      BY <2>1, <2>2, RefreshedFacts
  <1>b3. /\ applied.rev \in Nat /\ snapshot.rev \in Nat /\ snapshot'.rev \in Nat
         /\ Current(applied, snapshot') /\ applied.rev # snapshot'.rev
         /\ applied.rev <= snapshot'.rev
    <2>1. applied.rev \in Nat /\ snapshot.rev \in Nat /\ snapshot'.rev \in Nat
      BY <1>b2 DEF ConfigTypes, Snapshots
    <2>2. Current(applied, snapshot')
      BY <1>b2, <2>1 DEF Targets
    <2>3. model[Who] # applied.model
      BY <1>h DEF Targets, Running, HeadIs
    <2>4. QED
      BY <1>b2, <2>1, <2>2, <2>3 DEF Current
  <1>b4. /\ cur' \in Waits /\ cur'.at = "stop" /\ cur'.target = snapshot'
    <2> DEFINE p == IF sup = NoSup THEN "none" ELSE IF life =
      "running" THEN "running" ELSE "stopped"
    <2>1. /\ cur \in Waits /\ p \in {"none", "running", "stopped"}
          /\ snapshot' \in [rev : Nat, model : Models \union {NoModel}, selected : SUBSET Models]
      BY <1>b2 DEF LaneInv, LaneTypes, Snapshots
    <2>2. cur' = [cur EXCEPT !.at = "stop", !.target = snapshot', !.previous = p]
      OBVIOUS
    <2> HIDE DEF p
    <2>3. QED
      BY <2>1, <2>2 DEF Waits
  <1>b5. sup' = NoSup /\ life' = "idle" /\ made' = made
    BY DEF TakeSup
  <1>b6. Leased(bar', sup', model) /\ Idle(bar') /\ bar.stopped = 0
    <2>1. Idle(bar)
      BY <1>h DEF BarrierInv, Leases, HeadIs
    <2>2. QED
      BY <2>1, NobodyFacts
  <1>b7. sup' \in [id : Nat, model : Models \union {NoModel}]
    BY <1>b5 DEF NoSup
  <1>b8. disk.selected # {}
    OBVIOUS
  <1>p0. ConfigTypes'
    BY <1>h, <1>w, <1>s, <1>b0, <1>b1, <1>b2, <1>b3, <1>b4, <1>b5, <1>b6, <1>b7, <1>b8
       DEF ConfigTypes
  <1>p1. LaneInv'
    BY <1>h, <1>w, <1>s, <1>b0, <1>b1, <1>b2, <1>b3, <1>b4, <1>b5, <1>b6, <1>b7, <1>b8
       DEF LaneInv, LaneTypes, Lane
  <1>p2. QueueInv'
    <2>1. RequestTypes'
      BY <1>h, <1>w, <1>s, <1>b0, <1>b1, <1>b2, <1>b3, <1>b4, <1>b5, <1>b6, <1>b7, <1>b8
         DEF QueueInv, RequestTypes
    <2>2. Running' = Running
      BY <1>h, <1>w, <1>s, <1>b0, <1>b1, <1>b2, <1>b3, <1>b4, <1>b5, <1>b6, <1>b7, <1>b8,
         TaskFacts DEF Running, HeadIs, LaneInv, LaneTypes
    <2>3. Sound(q', model', req', aborted' \union rejected', Running)
      BY <1>h, <1>w, <1>s, <1>b0, <1>b1, <1>b2, <1>b3, <1>b4, <1>b5, <1>b6, <1>b7, <1>b8
         DEF QueueInv
    <2>4. QED
      BY <2>1, <2>2, <2>3 DEF QueueInv
  <1>p3. BarrierInv'
    <2>1. (BarrierTypes /\ Leased(bar, sup, model))'
      BY <1>h, <1>w, <1>s, <1>b0, <1>b1, <1>b2, <1>b3, <1>b4, <1>b5, <1>b6, <1>b7, <1>b8
         DEF BarrierInv, BarrierTypes, Leases
    <2>2. (Served(bar) = q.active \union (IF q.value = "admitted" THEN {q.item} ELSE {}))'
      BY <1>h, <1>w, <1>s, <1>b0, <1>b1, <1>b2, <1>b3, <1>b4, <1>b5, <1>b6, <1>b7, <1>b8
         DEF BarrierInv, Leases, QueueInv, Sound, Queueing
    <2>3. (/\ HeadIs("dispatch", {"update", "stop", "settle"}) => Idle(bar)
           /\ HeadIs("reconcile", {"stop"}) => Idle(bar)
           /\ bar.stopped # 0 => HeadIs("dispatch", {"drain"}) \/ HeadIs("reconcile", {"drain"}))'
      BY <1>h, <1>w, <1>s, <1>b0, <1>b1, <1>b2, <1>b3, <1>b4, <1>b5, <1>b6, <1>b7, <1>b8,
         TaskFacts DEF BarrierInv, Leases, HeadIs, LaneInv, LaneTypes
    <2>4. QED
      BY <2>1, <2>2, <2>3 DEF BarrierInv, Leases
  <1>p4. RecoveryInv'
    BY <1>h, <1>w, <1>s, <1>b0, <1>b1, <1>b2, <1>b3, <1>b4, <1>b5, <1>b6, <1>b7, <1>b8
       DEF RecoveryInv, RecoveryTypes, Claims, ClaimedMeansClosed
  <1>p5. TimerTypes'
    BY <1>h, <1>w, <1>s, <1>b0, <1>b1, <1>b2, <1>b3, <1>b4, <1>b5, <1>b6, <1>b7, <1>b8
       DEF TimerTypes
  <1>p6. Targets'
    BY <1>h, <1>w, <1>s, <1>b0, <1>b1, <1>b2, <1>b3, <1>b4, <1>b5, <1>b6, <1>b7, <1>b8
       DEF Targets, Who, Current, NoSup, Running, HeadIs, LaneTypes, On
  <1>p7. Reopening'
    BY <1>h, <1>w, <1>s, <1>b0, <1>b1, <1>b2, <1>b3, <1>b4, <1>b5, <1>b6, <1>b7, <1>b8
       DEF Reopening, Who, NoSup, Reopens, HeadIs, LaneTypes, Queued
  <1>p8. Rejected'
    BY <1>h, <1>w, <1>s, <1>b0, <1>b1, <1>b2, <1>b3, <1>b4, <1>b5, <1>b6, <1>b7, <1>b8
       DEF Rejected, Who, Running, HeadIs, LaneTypes, Queued, QueueInv, Sound, Queueing
  <1>q. QED
    BY <1>p0, <1>p1, <1>p2, <1>p3, <1>p4, <1>p5, <1>p6, <1>p7, <1>p8

\* The turns of a dispatch up to the stop keep the invariant.
LEMMA SwitchStep ==
    ASSUME IInv, SwitchPreflight \/ SwitchDrained \/ SwitchCommit
    PROVE  IInv'
  <1>1. CASE SwitchPreflight
    BY <1>1, UnfitStep, FitsStep DEF SwitchPreflight
  <1>2. CASE SwitchDrained
    BY <1>2, LeftDrainStep, RejectedDrainStep, DrainedStep DEF SwitchDrained
  <1>3. CASE SwitchCommit
    <2>1. left \in 0..MaxDisturbances
      BY DEF IInv, TimerTypes
    <2>2. (Disturb \/ UNCHANGED left) => left' \in 0..MaxDisturbances
      BY <2>1, AssumptionFacts DEF Disturb
    <2>3. QED
      BY <1>3, <2>2, UncommittedStep, CommittedLateStep, CommittedStep DEF SwitchCommit
  <1>4. QED
    BY <1>1, <1>2, <1>3

\* A switch that is given up leaves no supervisor, stopped
LEMMA StopGivenUpStep ==
    ASSUME IInv, At("dispatch", "stop"),
           Return("error"), left' \in 0..MaxDisturbances,
           UNCHANGED <<modality, config, backend, bar, requests, recovery, safeguard, reload>>
    PROVE  IInv'
  <1> USE AssumptionFacts DEF IInv
  <1>h. lane # <<>> /\ Head(lane).kind = "dispatch" /\ cur.at = "stop"
    BY DEF At
  <1>w. Head(lane) \in ToSet(lane) /\ Head(lane) \in Tasks /\ Who \in Nat
    BY <1>h, HeadFacts
  <1>m. Pops({}) /\ cur' = Fresh /\ cur' \in Waits /\ cur'.at = "begin"
    BY <1>h, OverFacts, TaskFacts DEF Over, Return
  <1>s. bar.stopped = 0
    BY <1>h DEF BarrierInv, BarrierTypes, Barriers, Leases, HeadIs
  <1>b0. /\ Who = q.item /\ q.value = "none" /\ q.item # NoRequest /\ q.item \in Requests
         /\ q.item \notin Served(bar) /\ Served(bar) = q.active /\ model[q.item] \in Models
    BY <1>h, DispatchFacts
  <1>b1. \A t \in ToSet(lane') : t \in ToSet(lane) /\ t.kind # "dispatch"
    BY <1>h, <1>m DEF Pops, Alike
  <1>b2. bar' = bar /\ Leased(bar', sup, model)
    BY DEF BarrierInv, Leases
  <1>b3. /\ Sound(q', model, req, aborted \union rejected, FALSE)
         /\ q'.item = q.item /\ q'.value = "error"
         /\ q'.active = q.active /\ q'.closed = q.closed
    BY <1>h, RanFacts DEF Return, Running, HeadIs
  <1>b4. sup = NoSup
    BY <1>h DEF Targets, HeadIs
  <1>p0. ConfigTypes'
    BY <1>h, <1>w, <1>m, <1>s, <1>b0, <1>b1, <1>b2, <1>b3, <1>b4 DEF ConfigTypes
  <1>p1. LaneInv'
    BY <1>h, <1>w, <1>m, <1>s, <1>b0, <1>b1, <1>b2, <1>b3, <1>b4
       DEF LaneInv, LaneTypes, Lane, Pops
  <1>p2. QueueInv'
    <2>1. RequestTypes'
      BY DEF QueueInv, RequestTypes
    <2>2. Running' = FALSE
      BY <1>m DEF Running, HeadIs
    <2>3. Sound(q', model', req', aborted' \union rejected', FALSE)
      BY <1>b3
    <2>4. QED
      BY <2>1, <2>2, <2>3 DEF QueueInv
  <1>p3. BarrierInv'
    <2>1. (BarrierTypes /\ Leased(bar, sup, model))'
      BY <1>h, <1>w, <1>m, <1>s, <1>b0, <1>b1, <1>b2, <1>b3, <1>b4
         DEF BarrierInv, BarrierTypes, Leases
    <2>2. (Served(bar) = q.active \union (IF q.value = "admitted" THEN {q.item} ELSE {}))'
      BY <1>h, <1>w, <1>m, <1>s, <1>b0, <1>b1, <1>b2, <1>b3, <1>b4
         DEF BarrierInv, Leases, QueueInv, Sound, Queueing
    <2>3. (/\ HeadIs("dispatch", {"update", "stop", "settle"}) => Idle(bar)
           /\ HeadIs("reconcile", {"stop"}) => Idle(bar)
           /\ bar.stopped # 0 => HeadIs("dispatch", {"drain"}) \/ HeadIs("reconcile", {"drain"}))'
      BY <1>h, <1>w, <1>m, <1>s, <1>b0, <1>b1, <1>b2, <1>b3, <1>b4, TaskFacts
         DEF BarrierInv, Leases, HeadIs, LaneInv, LaneTypes, Pops
    <2>4. QED
      BY <2>1, <2>2, <2>3 DEF BarrierInv, Leases
  <1>p4. RecoveryInv'
    BY <1>h, <1>w, <1>m, <1>s, <1>b0, <1>b1, <1>b2, <1>b3, <1>b4
       DEF RecoveryInv, RecoveryTypes, Claims, ClaimedMeansClosed
  <1>p5. TimerTypes'
    BY <1>h, <1>w, <1>m, <1>s, <1>b0, <1>b1, <1>b2, <1>b3, <1>b4 DEF TimerTypes
  <1>p6. Targets'
    BY <1>h, <1>w, <1>m, <1>s, <1>b0, <1>b1, <1>b2, <1>b3, <1>b4
       DEF Targets, Who, Current, NoSup, Running, HeadIs, LaneTypes, Pops, On
  <1>p7. Reopening'
    BY <1>h, <1>w, <1>m, <1>s, <1>b0, <1>b1, <1>b2, <1>b3, <1>b4
       DEF Reopening, Who, NoSup, Reopens, HeadIs, LaneTypes, Pops, Queued
  <1>p8. Rejected'
    BY <1>h, <1>w, <1>m, <1>s, <1>b0, <1>b1, <1>b2, <1>b3, <1>b4
       DEF Rejected, Who, Running, HeadIs, LaneTypes, Pops, Queued, QueueInv, Sound,
           Queueing
  <1>q. QED
    BY <1>p0, <1>p1, <1>p2, <1>p3, <1>p4, <1>p5, <1>p6, <1>p7, <1>p8

\* or about to be replaced.
LEMMA SettleGivenUpStep ==
    ASSUME IInv, At("dispatch", "settle"),
           Return("error"), left' \in 0..MaxDisturbances,
           UNCHANGED <<modality, config, backend, bar, requests, recovery, safeguard, reload>>
    PROVE  IInv'
  <1> USE AssumptionFacts DEF IInv
  <1>h. lane # <<>> /\ Head(lane).kind = "dispatch" /\ cur.at = "settle"
    BY DEF At
  <1>w. Head(lane) \in ToSet(lane) /\ Head(lane) \in Tasks /\ Who \in Nat
    BY <1>h, HeadFacts
  <1>m. Pops({}) /\ cur' = Fresh /\ cur' \in Waits /\ cur'.at = "begin"
    BY <1>h, OverFacts, TaskFacts DEF Over, Return
  <1>s. bar.stopped = 0
    BY <1>h DEF BarrierInv, BarrierTypes, Barriers, Leases, HeadIs
  <1>b0. /\ Who = q.item /\ q.value = "none" /\ q.item # NoRequest /\ q.item \in Requests
         /\ q.item \notin Served(bar) /\ Served(bar) = q.active /\ model[q.item] \in Models
    BY <1>h, DispatchFacts
  <1>b1. \A t \in ToSet(lane') : t \in ToSet(lane) /\ t.kind # "dispatch"
    BY <1>h, <1>m DEF Pops, Alike
  <1>b2. bar' = bar /\ Leased(bar', sup, model)
    BY DEF BarrierInv, Leases
  <1>b3. /\ Sound(q', model, req, aborted \union rejected, FALSE)
         /\ q'.item = q.item /\ q'.value = "error"
         /\ q'.active = q.active /\ q'.closed = q.closed
    BY <1>h, RanFacts DEF Return, Running, HeadIs
  <1>b4. sup = NoSup
    BY <1>h DEF Targets, HeadIs
  <1>p0. ConfigTypes'
    BY <1>h, <1>w, <1>m, <1>s, <1>b0, <1>b1, <1>b2, <1>b3, <1>b4 DEF ConfigTypes
  <1>p1. LaneInv'
    BY <1>h, <1>w, <1>m, <1>s, <1>b0, <1>b1, <1>b2, <1>b3, <1>b4
       DEF LaneInv, LaneTypes, Lane, Pops
  <1>p2. QueueInv'
    <2>1. RequestTypes'
      BY DEF QueueInv, RequestTypes
    <2>2. Running' = FALSE
      BY <1>m DEF Running, HeadIs
    <2>3. Sound(q', model', req', aborted' \union rejected', FALSE)
      BY <1>b3
    <2>4. QED
      BY <2>1, <2>2, <2>3 DEF QueueInv
  <1>p3. BarrierInv'
    <2>1. (BarrierTypes /\ Leased(bar, sup, model))'
      BY <1>h, <1>w, <1>m, <1>s, <1>b0, <1>b1, <1>b2, <1>b3, <1>b4
         DEF BarrierInv, BarrierTypes, Leases
    <2>2. (Served(bar) = q.active \union (IF q.value = "admitted" THEN {q.item} ELSE {}))'
      BY <1>h, <1>w, <1>m, <1>s, <1>b0, <1>b1, <1>b2, <1>b3, <1>b4
         DEF BarrierInv, Leases, QueueInv, Sound, Queueing
    <2>3. (/\ HeadIs("dispatch", {"update", "stop", "settle"}) => Idle(bar)
           /\ HeadIs("reconcile", {"stop"}) => Idle(bar)
           /\ bar.stopped # 0 => HeadIs("dispatch", {"drain"}) \/ HeadIs("reconcile", {"drain"}))'
      BY <1>h, <1>w, <1>m, <1>s, <1>b0, <1>b1, <1>b2, <1>b3, <1>b4, TaskFacts
         DEF BarrierInv, Leases, HeadIs, LaneInv, LaneTypes, Pops
    <2>4. QED
      BY <2>1, <2>2, <2>3 DEF BarrierInv, Leases
  <1>p4. RecoveryInv'
    BY <1>h, <1>w, <1>m, <1>s, <1>b0, <1>b1, <1>b2, <1>b3, <1>b4
       DEF RecoveryInv, RecoveryTypes, Claims, ClaimedMeansClosed
  <1>p5. TimerTypes'
    BY <1>h, <1>w, <1>m, <1>s, <1>b0, <1>b1, <1>b2, <1>b3, <1>b4 DEF TimerTypes
  <1>p6. Targets'
    BY <1>h, <1>w, <1>m, <1>s, <1>b0, <1>b1, <1>b2, <1>b3, <1>b4
       DEF Targets, Who, Current, NoSup, Running, HeadIs, LaneTypes, Pops, On
  <1>p7. Reopening'
    BY <1>h, <1>w, <1>m, <1>s, <1>b0, <1>b1, <1>b2, <1>b3, <1>b4
       DEF Reopening, Who, NoSup, Reopens, HeadIs, LaneTypes, Pops, Queued
  <1>p8. Rejected'
    BY <1>h, <1>w, <1>m, <1>s, <1>b0, <1>b1, <1>b2, <1>b3, <1>b4
       DEF Rejected, Who, Running, HeadIs, LaneTypes, Pops, Queued, QueueInv, Sound,
           Queueing
  <1>q. QED
    BY <1>p0, <1>p1, <1>p2, <1>p3, <1>p4, <1>p5, <1>p6, <1>p7, <1>p8

\* One that goes on waits for memory to settle.
LEMMA StoppedStep ==
    ASSUME IInv, At("dispatch", "stop"),
           Goto("settle"), UNCHANGED left, UNCHANGED q,
           UNCHANGED <<modality, config, backend, bar, requests, recovery, safeguard, reload>>
    PROVE  IInv'
  <1> USE AssumptionFacts DEF IInv
  <1>h. lane # <<>> /\ Head(lane).kind = "dispatch" /\ cur.at = "stop"
    BY DEF At
  <1>w. Head(lane) \in ToSet(lane) /\ Head(lane) \in Tasks /\ Who \in Nat
    BY <1>h, HeadFacts
  <1>m. /\ lane' = lane /\ cur' \in Waits /\ cur'.at = "settle"
        /\ cur'.target = cur.target
    BY <1>h, GotoFacts
  <1>s. bar.stopped = 0
    BY <1>h DEF BarrierInv, BarrierTypes, Barriers, Leases, HeadIs
  <1>b0. bar' = bar /\ Leased(bar', sup, model)
    BY DEF BarrierInv, Leases
  <1>p0. ConfigTypes'
    BY <1>h, <1>w, <1>m, <1>s, <1>b0 DEF ConfigTypes
  <1>p1. LaneInv'
    BY <1>h, <1>w, <1>m, <1>s, <1>b0 DEF LaneInv, LaneTypes, Lane
  <1>p2. QueueInv'
    <2>1. RequestTypes'
      BY <1>h, <1>w, <1>m, <1>s, <1>b0 DEF QueueInv, RequestTypes
    <2>2. Running' = Running
      BY <1>h, <1>w, <1>m, <1>s, <1>b0, TaskFacts DEF Running, HeadIs, LaneInv, LaneTypes
    <2>3. Sound(q', model', req', aborted' \union rejected', Running)
      BY <1>h, <1>w, <1>m, <1>s, <1>b0 DEF QueueInv
    <2>4. QED
      BY <2>1, <2>2, <2>3 DEF QueueInv
  <1>p3. BarrierInv'
    <2>1. (BarrierTypes /\ Leased(bar, sup, model))'
      BY <1>h, <1>w, <1>m, <1>s, <1>b0 DEF BarrierInv, BarrierTypes, Leases
    <2>2. (Served(bar) = q.active \union (IF q.value = "admitted" THEN {q.item} ELSE {}))'
      BY <1>h, <1>w, <1>m, <1>s, <1>b0 DEF BarrierInv, Leases, QueueInv, Sound, Queueing
    <2>3. (/\ HeadIs("dispatch", {"update", "stop", "settle"}) => Idle(bar)
           /\ HeadIs("reconcile", {"stop"}) => Idle(bar)
           /\ bar.stopped # 0 => HeadIs("dispatch", {"drain"}) \/ HeadIs("reconcile", {"drain"}))'
      BY <1>h, <1>w, <1>m, <1>s, <1>b0, TaskFacts DEF BarrierInv, Leases, HeadIs, LaneInv,
             LaneTypes
    <2>4. QED
      BY <2>1, <2>2, <2>3 DEF BarrierInv, Leases
  <1>p4. RecoveryInv'
    BY <1>h, <1>w, <1>m, <1>s, <1>b0 DEF RecoveryInv, RecoveryTypes, Claims,
                                         ClaimedMeansClosed
  <1>p5. TimerTypes'
    BY <1>h, <1>w, <1>m, <1>s, <1>b0 DEF TimerTypes
  <1>p6. Targets'
    BY <1>h, <1>w, <1>m, <1>s, <1>b0 DEF Targets, Who, Current, NoSup, Running, HeadIs,
                                         LaneTypes, On
  <1>p7. Reopening'
    BY <1>h, <1>w, <1>m, <1>s, <1>b0 DEF Reopening, Who, NoSup, Reopens, HeadIs, LaneTypes,
                                         Queued
  <1>p8. Rejected'
    BY <1>h, <1>w, <1>m, <1>s, <1>b0 DEF Rejected, Who, Running, HeadIs, LaneTypes, Queued,
                                         QueueInv, Sound, Queueing
  <1>q. QED
    BY <1>p0, <1>p1, <1>p2, <1>p3, <1>p4, <1>p5, <1>p6, <1>p7, <1>p8

\* A rejected one is rolled back,
LEMMA RolledBackStep ==
    ASSUME IInv, At("dispatch", "settle"),
           CanRollBack, RollBack,
           UNCHANGED <<modality, scheduled, requests, rec, safeguard, left>>
    PROVE  IInv'
  <1> USE AssumptionFacts DEF IInv
  <1>h. lane # <<>> /\ Head(lane).kind = "dispatch" /\ cur.at = "settle"
    BY DEF At
  <1>w. Head(lane) \in ToSet(lane) /\ Head(lane) \in Tasks /\ Who \in Nat
    BY <1>h, HeadFacts
  <1>m. Pops({}) /\ cur' = Fresh /\ cur' \in Waits /\ cur'.at = "begin"
    BY <1>h, OverFacts, TaskFacts DEF Over, Return, RollBack
  <1>s. bar.stopped = 0
    BY <1>h DEF BarrierInv, BarrierTypes, Barriers, Leases, HeadIs
  <1>b0. /\ Who = q.item /\ q.value = "none" /\ q.item # NoRequest /\ q.item \in Requests
         /\ q.item \notin Served(bar) /\ Served(bar) = q.active /\ model[q.item] \in Models
    BY <1>h, DispatchFacts
  <1>b1. \A t \in ToSet(lane') : t \in ToSet(lane) /\ t.kind # "dispatch"
    BY <1>h, <1>m DEF Pops, Alike
  <1>b2. sup = NoSup
    BY <1>h DEF Targets, HeadIs
  <1>b3. /\ snapshot' \in Snapshots /\ snapshot'.model \in Models /\ snapshot'.selected # {}
         /\ disk' \in [model : Models, selected : SUBSET Models] /\ applied' = snapshot'
         /\ snapshot'.rev \in Nat
    <2> DEFINE c == [disk EXCEPT !.model = cur.restore]
    <2>1. /\ c \in [model : Models, selected : SUBSET Models]
          /\ c.model \in Models /\ c.selected # {}
      BY DEF ConfigTypes, CanRollBack
    <2>2. snapshot' = Refreshed(c) /\ disk' = c /\ applied' = snapshot'
      BY DEF RollBack
    <2> HIDE DEF c
    <2>3. /\ Refreshed(c) \in Snapshots /\ Refreshed(c).model = c.model
          /\ Refreshed(c).selected = c.selected
      BY <2>1, RefreshedFacts
    <2>4. QED
      BY <2>1, <2>2, <2>3 DEF Snapshots
  <1>b4. /\ bar' \in Barriers(Requests, Nat) /\ Leased(bar', sup', model)
         /\ Served(bar') = Served(bar) /\ Idle(bar') /\ Idle(bar)
         /\ bar'.stopped = 0 /\ (bar'.accepting \/ bar'.passedOver)
         /\ sup' \in [id : Nat, model : Models \union {NoModel}] /\ made' \in Nat
         /\ sup' # NoSup /\ sup'.model = snapshot'.model /\ life' = "idle" /\ claim' = 0
    <2> DEFINE c == snapshot'
    <2>1. bar' = (IF On(c) THEN Attach(bar) ELSE PassOver(bar)) /\ claim' = 0 /\ Add(c)
      BY DEF AttachBarrier, RollBack
    <2>2. c.model \in Models
      BY <1>b3
    <2> HIDE DEF c
    <2>3. /\ bar' \in Barriers(Requests, Nat) /\ Leased(bar', sup', model)
          /\ Served(bar') = Served(bar) /\ Idle(bar') /\ Idle(bar)
          /\ bar'.stopped = 0 /\ (bar'.accepting \/ bar'.passedOver)
          /\ sup' \in [id : Nat, model : Models \union {NoModel}] /\ made' \in Nat
          /\ sup' # NoSup /\ sup'.model = c.model /\ life' = "idle"
      BY <1>b2, <2>1, <2>2, AddFacts
    <2>4. QED
      BY <2>1, <2>3 DEF c
  <1>b5. /\ Sound(q', model, req, aborted \union rejected, FALSE)
         /\ q'.item = q.item /\ q'.value = "answered"
         /\ q'.active = q.active /\ q'.closed = q.closed
    BY <1>h, RanFacts DEF RollBack, Return, Running, HeadIs
  <1>b6. reload' \in Nat
    BY <1>b4 DEF RollBack, TimerTypes
  <1>p0. ConfigTypes'
    BY <1>h, <1>w, <1>m, <1>s, <1>b0, <1>b1, <1>b2, <1>b3, <1>b4, <1>b5, <1>b6
       DEF ConfigTypes
  <1>p1. LaneInv'
    BY <1>h, <1>w, <1>m, <1>s, <1>b0, <1>b1, <1>b2, <1>b3, <1>b4, <1>b5, <1>b6
       DEF LaneInv, LaneTypes, Lane, Pops
  <1>p2. QueueInv'
    <2>1. RequestTypes'
      BY DEF QueueInv, RequestTypes
    <2>2. Running' = FALSE
      BY <1>m DEF Running, HeadIs
    <2>3. Sound(q', model', req', aborted' \union rejected', FALSE)
      BY <1>b5
    <2>4. QED
      BY <2>1, <2>2, <2>3 DEF QueueInv
  <1>p3. BarrierInv'
    <2>1. (BarrierTypes /\ Leased(bar, sup, model))'
      BY <1>h, <1>w, <1>m, <1>s, <1>b0, <1>b1, <1>b2, <1>b3, <1>b4, <1>b5, <1>b6
         DEF BarrierInv, BarrierTypes, Leases
    <2>2. (Served(bar) = q.active \union (IF q.value = "admitted" THEN {q.item} ELSE {}))'
      BY <1>h, <1>w, <1>m, <1>s, <1>b0, <1>b1, <1>b2, <1>b3, <1>b4, <1>b5, <1>b6
         DEF BarrierInv, Leases, QueueInv, Sound, Queueing
    <2>3. (/\ HeadIs("dispatch", {"update", "stop", "settle"}) => Idle(bar)
           /\ HeadIs("reconcile", {"stop"}) => Idle(bar)
           /\ bar.stopped # 0 => HeadIs("dispatch", {"drain"}) \/ HeadIs("reconcile", {"drain"}))'
      BY <1>h, <1>w, <1>m, <1>s, <1>b0, <1>b1, <1>b2, <1>b3, <1>b4, <1>b5, <1>b6, TaskFacts
         DEF BarrierInv, Leases, HeadIs, LaneInv, LaneTypes, Pops
    <2>4. QED
      BY <2>1, <2>2, <2>3 DEF BarrierInv, Leases
  <1>p4. RecoveryInv'
    BY <1>h, <1>w, <1>m, <1>s, <1>b0, <1>b1, <1>b2, <1>b3, <1>b4, <1>b5, <1>b6
       DEF RecoveryInv, RecoveryTypes, Claims, ClaimedMeansClosed
  <1>p5. TimerTypes'
    BY <1>h, <1>w, <1>m, <1>s, <1>b0, <1>b1, <1>b2, <1>b3, <1>b4, <1>b5, <1>b6
       DEF TimerTypes
  <1>p6. Targets'
    BY <1>h, <1>w, <1>m, <1>s, <1>b0, <1>b1, <1>b2, <1>b3, <1>b4, <1>b5, <1>b6
       DEF Targets, Who, Current, NoSup, Running, HeadIs, LaneTypes, Pops, On
  <1>p7. Reopening'
    BY <1>h, <1>w, <1>m, <1>s, <1>b0, <1>b1, <1>b2, <1>b3, <1>b4, <1>b5, <1>b6
       DEF Reopening, Who, NoSup, Reopens, HeadIs, LaneTypes, Pops, Queued
  <1>p8. Rejected'
    BY <1>h, <1>w, <1>m, <1>s, <1>b0, <1>b1, <1>b2, <1>b3, <1>b4, <1>b5, <1>b6
       DEF Rejected, Who, Running, HeadIs, LaneTypes, Pops, Queued, QueueInv, Sound,
           Queueing
  <1>q. QED
    BY <1>p0, <1>p1, <1>p2, <1>p3, <1>p4, <1>p5, <1>p6, <1>p7, <1>p8

\* or activated, with its request admitted,
LEMMA ActivatedStep ==
    ASSUME IInv, At("dispatch", "settle"),
           sup' = [id |-> made + 1, model |-> cur.target.model], made' = made + 1,
           applied' = cur.target, claim' = 0, Over,
           bar' =
             Acquire(IF On(snapshot) THEN Attach(bar) ELSE PassOver(bar), Who, made + 1, "pending"),
           life' = "starting", q' = Returned(q, "admitted"),
           UNCHANGED <<modality, disk, snapshot, scheduled, requests, rec, safeguard, reload, left>>
    PROVE  IInv'
  <1> USE AssumptionFacts DEF IInv
  <1>h. lane # <<>> /\ Head(lane).kind = "dispatch" /\ cur.at = "settle"
    BY DEF At
  <1>w. Head(lane) \in ToSet(lane) /\ Head(lane) \in Tasks /\ Who \in Nat
    BY <1>h, HeadFacts
  <1>m. Pops({}) /\ cur' = Fresh /\ cur' \in Waits /\ cur'.at = "begin"
    BY <1>h, OverFacts, TaskFacts DEF Over, Return
  <1>s. bar.stopped = 0
    BY <1>h DEF BarrierInv, BarrierTypes, Barriers, Leases, HeadIs
  <1>b0. /\ Who = q.item /\ q.value = "none" /\ q.item # NoRequest /\ q.item \in Requests
         /\ q.item \notin Served(bar) /\ Served(bar) = q.active /\ model[q.item] \in Models
    BY <1>h, DispatchFacts
  <1>b1. \A t \in ToSet(lane') : t \in ToSet(lane) /\ t.kind # "dispatch"
    BY <1>h, <1>m DEF Pops, Alike
  <1>b2. /\ cur.target \in Snapshots /\ Current(cur.target, snapshot)
         /\ cur.target.model = model[q.item]
         /\ On(cur.target) /\ sup = NoSup /\ cur.target.rev <= snapshot.rev
    BY <1>h, <1>b0 DEF Targets, HeadIs, LaneInv, LaneTypes, Waits, Snapshots, Current, On
  <1>b3. /\ sup' \in [id : Nat, model : Models \union {NoModel}] /\ made' \in Nat /\ sup' # NoSup
         /\ sup'.id = made + 1 /\ sup'.id \in Nat /\ sup'.model = cur.target.model
    BY <1>b0, <1>b2 DEF ConfigTypes, Snapshots, NoSup
  <1>b4. /\ Sound(q', model, req, aborted \union rejected, FALSE)
         /\ q'.item = q.item /\ q'.value = "admitted"
         /\ q'.active = q.active /\ q'.closed = q.closed
    BY <1>h, RanFacts DEF Running, HeadIs
  <1>b5. /\ bar' \in Barriers(Requests, Nat) /\ Leased(bar', sup', model)
         /\ Served(bar') = q.active \union {q.item} /\ ~Idle(bar')
         /\ (bar'.accepting \/ bar'.passedOver) /\ bar'.stopped = 0
    <2>1. Idle(bar) /\ bar \in Barriers(Requests, Nat) /\ bar.stopped = 0
      BY <1>b2, NobodyFacts DEF BarrierInv, BarrierTypes
    <2> DEFINE b == IF On(snapshot) THEN Attach(bar) ELSE PassOver(bar)
    <2>2. /\ b \in Barriers(Requests, Nat) /\ b.leases = bar.leases /\ b.first = bar.first
          /\ b.stopped = bar.stopped /\ (b.accepting \/ b.passedOver)
      BY <2>1 DEF Attach, PassOver, Barriers
    <2> HIDE DEF b
    <2> DEFINE s == sup'
    <2>3. Leased(b, s, model) /\ Served(b) = Served(bar)
      BY <2>1, <2>2, NobodyFacts, SameLeases
    <2>4. s.id \in Nat /\ s.model = model[q.item] /\ bar' = Acquire(b, q.item, s.id, "pending")
      BY <1>b0, <1>b2, <1>b3 DEF b
    <2> HIDE DEF s
    <2>5. /\ bar' \in Barriers(Requests, Nat) /\ Leased(bar', s, model)
          /\ Served(bar') = q.active \union {q.item} /\ ~Idle(bar')
          /\ bar'.accepting = b.accepting /\ bar'.passedOver = b.passedOver
          /\ bar'.stopped = b.stopped
      BY <1>h, <2>2, <2>3, <2>4, AdmitFacts
    <2>6. QED
      BY <2>1, <2>2, <2>5 DEF s
  <1>p0. ConfigTypes'
    BY <1>h, <1>w, <1>m, <1>s, <1>b0, <1>b1, <1>b2, <1>b3, <1>b4, <1>b5 DEF ConfigTypes
  <1>p1. LaneInv'
    BY <1>h, <1>w, <1>m, <1>s, <1>b0, <1>b1, <1>b2, <1>b3, <1>b4, <1>b5
       DEF LaneInv, LaneTypes, Lane, Pops
  <1>p2. QueueInv'
    <2>1. RequestTypes'
      BY DEF QueueInv, RequestTypes
    <2>2. Running' = FALSE
      BY <1>m DEF Running, HeadIs
    <2>3. Sound(q', model', req', aborted' \union rejected', FALSE)
      BY <1>b4
    <2>4. QED
      BY <2>1, <2>2, <2>3 DEF QueueInv
  <1>p3. BarrierInv'
    <2>1. (BarrierTypes /\ Leased(bar, sup, model))'
      BY <1>h, <1>w, <1>m, <1>s, <1>b0, <1>b1, <1>b2, <1>b3, <1>b4, <1>b5
         DEF BarrierInv, BarrierTypes, Leases
    <2>2. (Served(bar) = q.active \union (IF q.value = "admitted" THEN {q.item} ELSE {}))'
      BY <1>h, <1>w, <1>m, <1>s, <1>b0, <1>b1, <1>b2, <1>b3, <1>b4, <1>b5
         DEF BarrierInv, Leases, QueueInv, Sound, Queueing
    <2>3. (/\ HeadIs("dispatch", {"update", "stop", "settle"}) => Idle(bar)
           /\ HeadIs("reconcile", {"stop"}) => Idle(bar)
           /\ bar.stopped # 0 => HeadIs("dispatch", {"drain"}) \/ HeadIs("reconcile", {"drain"}))'
      BY <1>h, <1>w, <1>m, <1>s, <1>b0, <1>b1, <1>b2, <1>b3, <1>b4, <1>b5, TaskFacts
         DEF BarrierInv, Leases, HeadIs, LaneInv, LaneTypes, Pops
    <2>4. QED
      BY <2>1, <2>2, <2>3 DEF BarrierInv, Leases
  <1>p4. RecoveryInv'
    BY <1>h, <1>w, <1>m, <1>s, <1>b0, <1>b1, <1>b2, <1>b3, <1>b4, <1>b5
       DEF RecoveryInv, RecoveryTypes, Claims, ClaimedMeansClosed
  <1>p5. TimerTypes'
    BY <1>h, <1>w, <1>m, <1>s, <1>b0, <1>b1, <1>b2, <1>b3, <1>b4, <1>b5 DEF TimerTypes
  <1>p6. Targets'
    BY <1>h, <1>w, <1>m, <1>s, <1>b0, <1>b1, <1>b2, <1>b3, <1>b4, <1>b5
       DEF Targets, Who, Current, NoSup, Running, HeadIs, LaneTypes, Pops, On
  <1>p7. Reopening'
    BY <1>h, <1>w, <1>m, <1>s, <1>b0, <1>b1, <1>b2, <1>b3, <1>b4, <1>b5
       DEF Reopening, Who, NoSup, Reopens, HeadIs, LaneTypes, Pops, Queued
  <1>p8. Rejected'
    BY <1>h, <1>w, <1>m, <1>s, <1>b0, <1>b1, <1>b2, <1>b3, <1>b4, <1>b5
       DEF Rejected, Who, Running, HeadIs, LaneTypes, Pops, Queued, QueueInv, Sound,
           Queueing
  <1>q. QED
    BY <1>p0, <1>p1, <1>p2, <1>p3, <1>p4, <1>p5, <1>p6, <1>p7, <1>p8

\* unless the modality has been switched off.
LEMMA ActivatedOffStep ==
    ASSUME IInv, At("dispatch", "settle"),
           sup' = [id |-> made + 1, model |-> cur.target.model], made' = made + 1,
           applied' = cur.target, claim' = 0, Over,
           bar' = (IF On(snapshot) THEN Attach(bar) ELSE PassOver(bar)),
           life' = "idle", q' = Returned(q, "answered"),
           UNCHANGED <<modality, disk, snapshot, scheduled, requests, rec, safeguard, reload, left>>
    PROVE  IInv'
  <1> USE AssumptionFacts DEF IInv
  <1>h. lane # <<>> /\ Head(lane).kind = "dispatch" /\ cur.at = "settle"
    BY DEF At
  <1>w. Head(lane) \in ToSet(lane) /\ Head(lane) \in Tasks /\ Who \in Nat
    BY <1>h, HeadFacts
  <1>m. Pops({}) /\ cur' = Fresh /\ cur' \in Waits /\ cur'.at = "begin"
    BY <1>h, OverFacts, TaskFacts DEF Over, Return
  <1>s. bar.stopped = 0
    BY <1>h DEF BarrierInv, BarrierTypes, Barriers, Leases, HeadIs
  <1>b0. /\ Who = q.item /\ q.value = "none" /\ q.item # NoRequest /\ q.item \in Requests
         /\ q.item \notin Served(bar) /\ Served(bar) = q.active /\ model[q.item] \in Models
    BY <1>h, DispatchFacts
  <1>b1. \A t \in ToSet(lane') : t \in ToSet(lane) /\ t.kind # "dispatch"
    BY <1>h, <1>m DEF Pops, Alike
  <1>b2. /\ cur.target \in Snapshots /\ Current(cur.target, snapshot)
         /\ cur.target.model = model[q.item]
         /\ On(cur.target) /\ sup = NoSup /\ cur.target.rev <= snapshot.rev
    BY <1>h, <1>b0 DEF Targets, HeadIs, LaneInv, LaneTypes, Waits, Snapshots, Current, On
  <1>b3. /\ sup' \in [id : Nat, model : Models \union {NoModel}] /\ made' \in Nat /\ sup' # NoSup
         /\ sup'.id = made + 1 /\ sup'.id \in Nat /\ sup'.model = cur.target.model
    BY <1>b0, <1>b2 DEF ConfigTypes, Snapshots, NoSup
  <1>b4. /\ Sound(q', model, req, aborted \union rejected, FALSE)
         /\ q'.item = q.item /\ q'.value = "answered"
         /\ q'.active = q.active /\ q'.closed = q.closed
    BY <1>h, RanFacts DEF Running, HeadIs
  <1>b5. /\ bar' \in Barriers(Requests, Nat) /\ Leased(bar', sup', model)
         /\ Served(bar') = Served(bar) /\ Idle(bar')
         /\ (bar'.accepting \/ bar'.passedOver) /\ bar'.stopped = 0
    <2>1. Idle(bar) /\ bar \in Barriers(Requests, Nat) /\ bar.stopped = 0
      BY <1>b2, NobodyFacts DEF BarrierInv, BarrierTypes
    <2> DEFINE b == IF On(snapshot) THEN Attach(bar) ELSE PassOver(bar)
    <2>2. /\ b \in Barriers(Requests, Nat) /\ b.leases = bar.leases /\ b.first = bar.first
          /\ b.stopped = bar.stopped /\ (b.accepting \/ b.passedOver)
      BY <2>1 DEF Attach, PassOver, Barriers
    <2>3. bar' = b
      OBVIOUS
    <2> HIDE DEF b
    <2>4. QED
      BY <2>1, <2>2, <2>3, NobodyFacts, SameLeases
  <1>p0. ConfigTypes'
    BY <1>h, <1>w, <1>m, <1>s, <1>b0, <1>b1, <1>b2, <1>b3, <1>b4, <1>b5 DEF ConfigTypes
  <1>p1. LaneInv'
    BY <1>h, <1>w, <1>m, <1>s, <1>b0, <1>b1, <1>b2, <1>b3, <1>b4, <1>b5
       DEF LaneInv, LaneTypes, Lane, Pops
  <1>p2. QueueInv'
    <2>1. RequestTypes'
      BY DEF QueueInv, RequestTypes
    <2>2. Running' = FALSE
      BY <1>m DEF Running, HeadIs
    <2>3. Sound(q', model', req', aborted' \union rejected', FALSE)
      BY <1>b4
    <2>4. QED
      BY <2>1, <2>2, <2>3 DEF QueueInv
  <1>p3. BarrierInv'
    <2>1. (BarrierTypes /\ Leased(bar, sup, model))'
      BY <1>h, <1>w, <1>m, <1>s, <1>b0, <1>b1, <1>b2, <1>b3, <1>b4, <1>b5
         DEF BarrierInv, BarrierTypes, Leases
    <2>2. (Served(bar) = q.active \union (IF q.value = "admitted" THEN {q.item} ELSE {}))'
      BY <1>h, <1>w, <1>m, <1>s, <1>b0, <1>b1, <1>b2, <1>b3, <1>b4, <1>b5
         DEF BarrierInv, Leases, QueueInv, Sound, Queueing
    <2>3. (/\ HeadIs("dispatch", {"update", "stop", "settle"}) => Idle(bar)
           /\ HeadIs("reconcile", {"stop"}) => Idle(bar)
           /\ bar.stopped # 0 => HeadIs("dispatch", {"drain"}) \/ HeadIs("reconcile", {"drain"}))'
      BY <1>h, <1>w, <1>m, <1>s, <1>b0, <1>b1, <1>b2, <1>b3, <1>b4, <1>b5, TaskFacts
         DEF BarrierInv, Leases, HeadIs, LaneInv, LaneTypes, Pops
    <2>4. QED
      BY <2>1, <2>2, <2>3 DEF BarrierInv, Leases
  <1>p4. RecoveryInv'
    BY <1>h, <1>w, <1>m, <1>s, <1>b0, <1>b1, <1>b2, <1>b3, <1>b4, <1>b5
       DEF RecoveryInv, RecoveryTypes, Claims, ClaimedMeansClosed
  <1>p5. TimerTypes'
    BY <1>h, <1>w, <1>m, <1>s, <1>b0, <1>b1, <1>b2, <1>b3, <1>b4, <1>b5 DEF TimerTypes
  <1>p6. Targets'
    BY <1>h, <1>w, <1>m, <1>s, <1>b0, <1>b1, <1>b2, <1>b3, <1>b4, <1>b5
       DEF Targets, Who, Current, NoSup, Running, HeadIs, LaneTypes, Pops, On
  <1>p7. Reopening'
    BY <1>h, <1>w, <1>m, <1>s, <1>b0, <1>b1, <1>b2, <1>b3, <1>b4, <1>b5
       DEF Reopening, Who, NoSup, Reopens, HeadIs, LaneTypes, Pops, Queued
  <1>p8. Rejected'
    BY <1>h, <1>w, <1>m, <1>s, <1>b0, <1>b1, <1>b2, <1>b3, <1>b4, <1>b5
       DEF Rejected, Who, Running, HeadIs, LaneTypes, Pops, Queued, QueueInv, Sound,
           Queueing
  <1>q. QED
    BY <1>p0, <1>p1, <1>p2, <1>p3, <1>p4, <1>p5, <1>p6, <1>p7, <1>p8

\* The turns of a dispatch after the stop keep the invariant.
LEMMA SettleStep ==
    ASSUME IInv, SwitchStopped \/ SwitchSettled
    PROVE  IInv'
  <1>1. left' \in 0..MaxDisturbances
    <2>1. left \in 0..MaxDisturbances
      BY DEF IInv, TimerTypes
    <2>2. QED
      BY <2>1, AssumptionFacts DEF Disturb, SwitchStopped, SwitchSettled
  <1>2. CASE SwitchStopped
    BY <1>1, <1>2, StopGivenUpStep, StoppedStep DEF SwitchStopped
  <1>3. CASE SwitchSettled
    <2>1. CASE Return("error") /\ UNCHANGED <<disk, snapshot, applied, backend, bar, claim, reload>>
      BY <1>1, <1>3, <2>1, SettleGivenUpStep DEF SwitchSettled
    <2>2. CASE CanRollBack /\ RollBack
      BY <1>3, <2>2, RolledBackStep DEF SwitchSettled
    <2>3. CASE Who \notin aborted \union rejected /\ Activate
      <3> DEFINE s == [id |-> made + 1, model |-> cur.target.model]
                 b == IF On(snapshot) THEN Attach(bar) ELSE PassOver(bar)
      <3>1. /\ At("dispatch", "settle") /\ sup' = s /\ made' = made + 1
            /\ applied' = cur.target /\ claim' = 0 /\ Over
            /\ Admit(Who, q, cur.target, b, s, "idle")
            /\ UNCHANGED <<modality, disk, snapshot, scheduled, requests, rec, safeguard,
                 reload, left>>
        BY <1>3, <2>3 DEF SwitchSettled, Activate
      <3>2. CASE On(cur.target) /\ s # NoSup /\ b.accepting
        <4>1. bar' = Acquire(b, Who, made + 1, "pending") /\ life' = "starting" /\
                q' = Returned(q, "admitted")
          BY <3>1, <3>2 DEF Admit, Ready, Started
        <4>2. QED
          BY <3>1, <4>1, ActivatedStep
      <3>3. CASE ~(On(cur.target) /\ s # NoSup /\ b.accepting)
        <4>1. bar' = b /\ life' = "idle" /\ q' = Returned(q, "answered")
          BY <3>1, <3>3 DEF Admit
        <4>2. QED
          BY <3>1, <4>1, ActivatedOffStep
      <3>4. QED
        BY <3>2, <3>3
    <2>4. QED
      BY <1>3, <2>1, <2>2, <2>3 DEF SwitchSettled
  <1>4. QED
    BY <1>2, <1>3

-----------------------------------------------------------------------------
(* The theorems *)

\* The gateway starts with an idle supervisor and an open barrier.
LEMMA InitFacts ==
    ASSUME Init
    PROVE  IInv
  <1> USE AssumptionFacts
  <1>1. <<>> \in Seq(Tasks) /\ <<>> \in Seq(Requests) /\ DOMAIN <<>> = {} /\ ToSet(<<>>) = {}
        /\ <<>> \in Seq([r : Requests, sup : Nat, ready : {"pending", "ok", "failed"}])
    <2>1. DOMAIN <<>> = {}
      OBVIOUS
    <2>2. QED
      BY <2>1, EmptySeq DEF ToSet
  <1>2. ConfigTypes /\ snapshot.model = Initial.model /\ snapshot.selected = Initial.selected
    BY DEF Init, ConfigTypes, Snapshots, NoSup
  <1>3. lane = <<>> /\ cur = Fresh /\ cur \in Waits /\ scheduled = FALSE
    BY TaskFacts DEF Init
  <1>4. LaneInv
    BY <1>1, <1>3 DEF LaneInv, LaneTypes, Lane, Apart
  <1>5. /\ q.pending = <<>> /\ q.item = NoRequest /\ q.inFlight = FALSE /\ q.value = "none"
        /\ q.active = {} /\ q \in Queues
    BY <1>1 DEF Init, EmptyQueue, Queues
  <1>6. /\ aborted = {} /\ rejected = {} /\ model \in [Requests -> Models \union {NoModel}]
        /\ req \in [Requests -> {"none", "waiting", "held", "done"}]
        /\ \A r \in Requests : req[r] = "none"
    BY DEF Init
  <1>7. QueueInv
    <2>1. Queueing(q, model, req, aborted \union rejected, Running)
      BY <1>1, <1>5, <1>6 DEF Queueing, Rejectable, IsInjective
    <2>2. Permits(q, model, req)
      BY <1>5, <1>6, FS_EmptySet DEF Permits
    <2>3. QED
      BY <1>5, <1>6, <2>1, <2>2 DEF QueueInv, RequestTypes, Sound
  <1>8. /\ bar \in Barriers(Requests, Nat) /\ bar.leases = <<>> /\ bar.first = 0
        /\ bar.stopped = 0 /\ bar.accepting
    BY <1>1 DEF Init, NewBarrier, Barriers
  <1>9. BarrierInv
    BY <1>1, <1>3, <1>5, <1>8 DEF BarrierInv, BarrierTypes, Leases, Leased, Served, Idle,
                                  HeadIs
  <1>10. RecoveryInv /\ TimerTypes
    BY DEF Init, RecoveryInv, RecoveryTypes, Claims, ClaimedMeansClosed, TimerTypes
  <1>11. Targets
    BY <1>2, <1>3 DEF Init, Targets, On, Current, Running, HeadIs, NoSup
  <1>12. Reopening /\ Rejected
    BY <1>3, <1>8 DEF Reopening, Rejected, Running, HeadIs
  <1>13. QED
    BY <1>2, <1>4, <1>7, <1>9, <1>10, <1>11, <1>12 DEF IInv

\* No step breaks the invariant.
LEMMA NextFacts ==
    ASSUME IInv, [Next]_vars
    PROVE  IInv'
  <1>1. CASE UNCHANGED vars
    <2> USE <1>1
    <2>1. ConfigTypes' /\ RecoveryInv' /\ TimerTypes'
      BY DEF IInv, ConfigTypes, RecoveryInv, RecoveryTypes, Claims, ClaimedMeansClosed,
             TimerTypes
    <2>2. LaneInv'
      BY DEF IInv, LaneInv, LaneTypes, Lane
    <2>3. QueueInv'
      BY DEF IInv, QueueInv, RequestTypes, Running, HeadIs
    <2>4. BarrierInv'
      BY DEF IInv, BarrierInv, BarrierTypes, Leases, HeadIs
    <2>5. Targets'
      BY DEF IInv, Targets, Running, HeadIs, Who, On, Current
    <2>6. Reopening' /\ Rejected'
      BY DEF IInv, Reopening, Reopens, Queued, Rejected, Running, HeadIs, Who
    <2>7. QED
      BY <2>1, <2>2, <2>3, <2>4, <2>5, <2>6 DEF IInv
  <1>2. CASE Continues
    BY <1>2, DeliverStep, DispatchStep, ReconcileStep, EvictionStep, StopStep, RecoveryStep,
       SwitchStep DEF Continues
  <1>3. CASE LaneEvent
    BY <1>3, ReconcileStep, EvictionStep, StopStep, RecoveryStep, SwitchStep, SettleStep
       DEF LaneEvent
  <1>4. CASE Progress
    <2>1. CASE \E r \in Requests : Finish(r)
      BY <2>1, FinishStep
    <2>2. CASE SafeguardTimer \/ Reload \/ BackendUp \/ BackendFails
      BY <2>2, SafeguardTimerStep, ReloadStep, BackendUpStep, BackendFailsStep
    <2>3. CASE \E p \in Recoveries : Project(p)
      BY <2>3, ProjectStep
    <2>4. QED
      BY <1>2, <1>3, <1>4, <2>1, <2>2, <2>3 DEF Progress
  <1>5. CASE \E r \in Requests : (\E m \in Models : Arrive(r, m)) \/ Timeout(r) \/ Abort(r)
    BY <1>5, ArriveStep, TimeoutStep, AbortStep
  <1>6. CASE Emergency \/ Refresh \/ Edit \/ Pressure \/ CloseQueue \/ BackendCrash
    BY <1>6, EmergencyStep, RefreshStep, EditStep, PressureStep, CloseQueueStep,
       BackendCrashStep
  <1>7. CASE \E p \in Recoveries : Recover(p) \/ RecoverAborted(p)
    BY <1>7, RecoverStep, RecoverAbortedStep
  <1>8. QED
    BY <1>1, <1>4, <1>5, <1>6, <1>7 DEF Next

\* Tasks and requests, permits and leases, targets and what will reopen the
\* barrier are as the invariant says in every state.
THEOREM Invariance == Spec => []IInv
  <1>1. Init => IInv
    BY InitFacts
  <1>2. IInv /\ [Next]_vars => IInv'
    BY NextFacts
  <1>3. QED
    BY <1>1, <1>2, PTL DEF Spec

\* Every variable has its type, processes have supervisors, and
\* reconciliationScheduled says what the lane holds (scheduleModality).
THEOREM TypeInvariance == Spec => []TypeOK
  <1>1. ASSUME IInv
        PROVE  TypeOK
    <2>1. (\E t \in ToSet(lane) : t.kind = "reconcile")
             <=> (\E i \in DOMAIN lane : lane[i].kind = "reconcile")
      BY DEF ToSet
    <2>2. scheduled = \E i \in DOMAIN lane : lane[i].kind = "reconcile"
      <3>1. scheduled \in BOOLEAN /\ (scheduled <=> \E t \in ToSet(lane) : t.kind = "reconcile")
        BY <1>1 DEF IInv, LaneInv, LaneTypes
      <3>2. QED
        BY <2>1, <3>1, Zenon
    <2>3. /\ lane \in Seq(Tasks) /\ (lane = <<>> => cur = Fresh)
          /\ cur.at \in {"begin", "preflight", "drain", "update", "stop", "settle", "slots", "kill"}
      BY <1>1 DEF IInv, LaneInv, LaneTypes, Waits
    <2>4. /\ modality \in {"llm", "image"}
          /\ disk \in [model : Models, selected : SUBSET Models]
          /\ snapshot \in Snapshots /\ applied \in Snapshots /\ applied.rev <= snapshot.rev
          /\ sup \in [id : Nat, model : Models \union {NoModel}] /\ made \in Nat
          /\ life \in {"idle", "starting", "running", "stopping", "failed"}
          /\ life \in {"starting", "running", "stopping"} => sup # NoSup
      BY <1>1 DEF IInv, ConfigTypes
    <2>5. /\ q \in Queues /\ bar \in Barriers(Requests, Nat)
          /\ model \in [Requests -> Models \union {NoModel}]
          /\ req \in [Requests -> {"none", "waiting", "held", "done"}]
          /\ aborted \subseteq Requests /\ rejected \subseteq Requests
      BY <1>1 DEF IInv, QueueInv, RequestTypes, Sound, BarrierInv, BarrierTypes
    <2>6. /\ claim \in Recoveries \union {0}
          /\ rec \in [Recoveries -> [at : {"none", "claiming", "claimed", "killing", "releasing",
                                           "done"}, sup : Nat]]
          /\ safeguard \in [sup : Nat, check : 0..MaxChecks]
          /\ reload \in Nat /\ left \in 0..MaxDisturbances
      BY <1>1 DEF IInv, RecoveryInv, RecoveryTypes, TimerTypes
    <2>7. QED
      BY <2>2, <2>3, <2>4, <2>5, <2>6 DEF TypeOK
  <1>2. QED
    BY <1>1, Invariance, PTL

\* A lease keeps its backend and its model, a permit goes with it, and the
\* permits out are for one model and within its slots (admitModel's settle, the
\* queue's pump, activateModel and applyModality).
THEOREM LeaseSafety == Spec => []LeaseKeepsItsModel
  <1>1. ASSUME IInv
        PROVE  LeaseKeepsItsModel
    <2>1. /\ Leased(bar, sup, model)
          /\ Served(bar) = q.active \union (IF q.value = "admitted" THEN {q.item} ELSE {})
      BY <1>1 DEF IInv, BarrierInv, Leases
    <2>2. Permits(q, model, req)
      BY <1>1 DEF IInv, QueueInv, Sound
    <2>3. QED
      BY <2>1, <2>2 DEF LeaseKeepsItsModel, Leased, Served, Permits
  <1>2. QED
    BY <1>1, Invariance, PTL

\* While a recovery's claim is current, its peer serves and admits nobody
\* (recoverWithIdleEviction, attachBarrier).
THEOREM ClaimSafety == Spec => []ClaimedMeansClosed
  <1>1. IInv => ClaimedMeansClosed
    BY DEF IInv, RecoveryInv, Claims
  <1>2. QED
    BY <1>1, Invariance, PTL

\* Admission is not closed for good: when no task is left, the barrier is open
\* or the next coordinate adds a supervisor (attachBarrier, scheduleModality).
THEOREM NobodyStranded == Spec => []NeverStranded
  <1>1. ASSUME IInv, lane = <<>>, On(snapshot), ~q.closed,
               \A p \in Recoveries : rec[p].at \in {"none", "claiming", "done"}
        PROVE  IF sup = NoSup THEN applied.rev # snapshot.rev ELSE bar.accepting \/ bar.passedOver
    <2>1. ToSet(lane) = {}
      <3>1. DOMAIN <<>> = {}
        OBVIOUS
      <3>2. QED
        BY <1>1, <3>1 DEF ToSet
    <2>2. ~Reopens
      BY <1>1, <2>1 DEF Reopens, HeadIs, Queued
    <2>3. QED
      BY <1>1, <2>2 DEF IInv, Targets, Reopening
  <1>2. IInv => NeverStranded
    BY <1>1 DEF NeverStranded
  <1>3. QED
    BY <1>2, Invariance, PTL

=============================================================================
