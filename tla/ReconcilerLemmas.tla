-------------------------- MODULE ReconcilerLemmas --------------------------
(***************************************************************************)
(* The inductive invariant of Reconciler; what the operators of the        *)
(* inference queue, of the admission barrier and of the lane keep of it;   *)
(* and the steps of requests, timers, evictions, idle cancellations and    *)
(* safeguard checks. ReconcilerProofs does the other tasks of the lane and *)
(* draws the conclusions.                                                  *)
(***************************************************************************)
EXTENDS Reconciler, TLAPS, FiniteSetTheorems, SequenceTheorems

-----------------------------------------------------------------------------
(* The inductive invariant *)

ConfigTypes ==
    /\ modality \in {"llm", "image"}
    /\ disk \in [model : Models, selected : SUBSET Models]
    /\ snapshot \in Snapshots /\ applied \in Snapshots /\ applied.rev <= snapshot.rev
    /\ sup \in [id : Nat, model : Models \union {NoModel}] /\ made \in Nat
    /\ life \in {"idle", "starting", "running", "stopping", "failed"}
    /\ life \in {"starting", "running", "stopping"} => sup # NoSup

\* Where the head of a lane may be, and what it has read.
Waits == [at : {"begin", "preflight", "drain", "update", "stop", "settle", "slots", "kill"},
          target : [rev : Nat, model : Models \union {NoModel}, selected : SUBSET Models],
          restore : Models \union {NoModel}, previous : {"none", "running", "stopped"},
          stop : BOOLEAN]

LaneTypes ==
    /\ lane \in Seq(Tasks)
    /\ scheduled \in BOOLEAN /\ (scheduled <=> \E t \in ToSet(lane) : t.kind = "reconcile")
    /\ lane = <<>> => cur = Fresh
    /\ cur \in Waits

RequestTypes ==
    /\ model \in [Requests -> Models \union {NoModel}]
    /\ req \in [Requests -> {"none", "waiting", "held", "done"}]
    /\ aborted \subseteq Requests /\ rejected \subseteq Requests

BarrierTypes == bar \in Barriers(Requests, Nat)

RecoveryTypes ==
    /\ claim \in Recoveries \union {0}
    /\ rec \in [Recoveries -> [at : {"none", "claiming", "claimed", "killing", "releasing",
                                     "done"}, sup : Nat]]

TimerTypes ==
    /\ safeguard \in [sup : Nat, check : 0..MaxChecks]
    /\ reload \in Nat /\ left \in 0..MaxDisturbances

\* No two tasks of a lane may be alike.
Alike(s, t) ==
    /\ s.kind = t.kind
    /\ s.kind \in {"dispatch", "reconcile"} \/ (s.kind = "claim" /\ s.who = t.who)

Apart(l) == \A i, j \in DOMAIN l : i # j => ~Alike(l[i], l[j])

\* The head of the lane is a task of this kind, at one of these waits.
HeadIs(kind, ats) == lane # <<>> /\ Head(lane).kind = kind /\ cur.at \in ats

Running == HeadIs("dispatch", {"preflight", "drain", "update", "stop", "settle"})

\* Each task of the lane is the one its state says is queued.
Lane ==
    /\ Apart(lane)
    /\ \A t \in ToSet(lane) :
            /\ t.kind = "dispatch" => t.who = q.item /\ q.item # NoRequest /\ q.value = "none"
            /\ t.kind \in {"claim", "claimKill", "claimRelease"} => t.who \in Recoveries
            /\ t.kind = "claim" => rec[t.who].at = "claiming"
            /\ t.kind = "claimRelease" => rec[t.who].at \in {"releasing", "done"}

\* The queue x, when requests ask for the models m, are in the states rq and,
\* if gone, are aborted or rejected; run: its dispatch has left its place in
\* pending.
Queueing(x, m, rq, gone, run) ==
    /\ IsInjective(x.pending)
    /\ \A r \in Requests : rq[r] = "waiting" <=> r \in Rejectable(x)
    /\ x.inFlight => x.item # NoRequest /\ x.item \notin ToSet(x.pending)
    /\ \A r \in gone : rq[r] = "done"
    /\ \A r \in Requests : rq[r] # "none" => m[r] \in Models
    /\ x.value # "none" => x.item # NoRequest
    /\ x.item # NoRequest =>
        /\ rq[x.item] # "none"
        /\ x.active = {} \/ x.activeModel = m[x.item]
        /\ IF x.value # "none" \/ run
           THEN x.item \notin ToSet(x.pending) /\ (x.inFlight \/ x.item \in gone)
           ELSE /\ ~x.inFlight
                /\ x.item \in gone \/ (x.pending # <<>> /\ Head(x.pending) = x.item)

\* The permits of the queue x.
Permits(x, m, rq) ==
    /\ x.active = {r \in Requests : rq[r] = "held"}
    /\ \A r \in x.active : m[r] = x.activeModel
    /\ IsFiniteSet(x.active) /\ Cardinality(x.active) <= Slots
    /\ x.item # NoRequest => Cardinality(x.active) < Slots

Sound(x, m, rq, gone, run) ==
    x \in Queues /\ Queueing(x, m, rq, gone, run) /\ Permits(x, m, rq)

\* The requests of the leases of b,
Served(b) == {b.leases[i].r : i \in DOMAIN b.leases}

\* which are of the supervisor s, when requests ask for the models m.
Leased(b, s, m) ==
    /\ \A i, j \in DOMAIN b.leases : b.leases[i].r = b.leases[j].r => i = j
    /\ \A i \in DOMAIN b.leases : b.leases[i].sup = s.id /\ s.model = m[b.leases[i].r]
    /\ IF Idle(b) THEN b.first = 0 /\ b.stopped = 0 ELSE b.first # 0

Leases ==
    /\ Leased(bar, sup, model)
    /\ Served(bar) = q.active \union (IF q.value = "admitted" THEN {q.item} ELSE {})
    /\ HeadIs("dispatch", {"update", "stop", "settle"}) => Idle(bar)
    /\ HeadIs("reconcile", {"stop"}) => Idle(bar)
    /\ bar.stopped # 0 => HeadIs("dispatch", {"drain"}) \/ HeadIs("reconcile", {"drain"})

\* The revision x is c, if it is c's.
Current(x, c) == x.rev <= c.rev /\ (x.rev = c.rev => x = c)

Targets ==
    /\ sup # NoSup => On(applied) /\ sup.model = applied.model
    /\ Current(applied, snapshot)
    /\ sup = NoSup /\ On(snapshot) => applied.rev # snapshot.rev
    /\ Running => model[Who] # applied.model
    /\ HeadIs("dispatch", {"stop", "settle"}) =>
            /\ sup = NoSup /\ Current(cur.target, snapshot)
            /\ cur.target.model = model[Who] /\ cur.target.selected # {}
    /\ HeadIs("reconcile", {"preflight", "drain", "stop"}) =>
            /\ applied.rev < cur.target.rev /\ Current(cur.target, snapshot)
            /\ cur.target.model \in Models
    /\ HeadIs("reconcile", {"stop"}) => sup = NoSup
    /\ HeadIs("safeguard", {"slots"}) => sup.id = Who

Claims ==
    /\ claim # 0 => rec[claim].at \in {"claimed", "killing"}
    /\ ClaimedMeansClosed

Queued(kind) == \E t \in ToSet(lane) : t.kind = kind

\* What will reopen a closed barrier.
Reopens ==
    \/ HeadIs("dispatch", {"drain", "update"}) \/ HeadIs("reconcile", {"drain"})
    \/ HeadIs("evictIdle", {"kill"}) \/ (HeadIs("safeguard", {"kill"}) /\ Who = sup.id)
    \/ Queued("evictAll")
    \/ \E t \in ToSet(lane) : t.kind = "idleCancel" /\ t.who = sup.id
    \/ \E p \in Recoveries : rec[p].at \in {"claimed", "killing", "releasing"}

Reopening == bar.accepting \/ bar.passedOver \/ sup = NoSup \/ q.closed \/ Reopens

\* A dispatch that was rejected, not aborted, leaves the barrier to whoever did.
Rejected == Running /\ Who \in rejected \ aborted => q.closed \/ Queued("evictAll")

QueueInv ==
    /\ RequestTypes
    /\ Sound(q, model, req, aborted \union rejected, Running)

LaneInv == LaneTypes /\ Lane

BarrierInv == BarrierTypes /\ Leases

RecoveryInv == RecoveryTypes /\ Claims

IInv ==
    /\ ConfigTypes /\ LaneInv /\ QueueInv /\ BarrierInv /\ RecoveryInv /\ TimerTypes
    /\ Targets /\ Reopening /\ Rejected

\* The tuples that UNCHANGED speaks of.
USE DEF vars, config, backend, requests, recovery

-----------------------------------------------------------------------------
(* Sequences *)

\* A sequence without its element at n.
LEMMA RemoveAtFacts ==
    ASSUME NEW S, NEW s \in Seq(S), NEW n \in 1..Len(s)
    PROVE  /\ RemoveAt(s, n) \in Seq(S) /\ Len(RemoveAt(s, n)) = Len(s) - 1
           /\ \A i \in 1..Len(s) - 1 : RemoveAt(s, n)[i] = s[IF i < n THEN i ELSE i + 1]
  <1> DEFINE t1 == SubSeq(s, 1, n - 1)
             t2 == SubSeq(s, n + 1, Len(s))
  <1>1. Len(s) \in Nat /\ n \in Nat /\ 1 <= n /\ n <= Len(s)
    OBVIOUS
  <1>2. t1 \in Seq(S) /\ Len(t1) = n - 1 /\ \A i \in 1..n - 1 : t1[i] = s[i]
    BY <1>1
  <1>3. /\ t2 \in Seq(S) /\ Len(t2) = Len(s) - n
        /\ \A i \in 1..Len(s) - n : t2[i] = s[i + n]
    <2>1. \A i \in n + 1..Len(s) : s[i] \in S
      BY <1>1
    <2>2. /\ t2 \in Seq(S) /\ Len(t2) = IF n + 1 <= Len(s) THEN Len(s) - (n + 1) + 1 ELSE 0
          /\ \A i \in 1..Len(s) - (n + 1) + 1 : t2[i] = s[n + 1 + i - 1]
      BY <1>1, <2>1, SubSeqProperties
    <2>3. QED
      BY <1>1, <2>2
  <1>4. RemoveAt(s, n) = t1 \o t2
    BY DEF RemoveAt
  <1> HIDE DEF t1, t2
  <1>5. /\ t1 \o t2 \in Seq(S) /\ Len(t1 \o t2) = Len(s) - 1
        /\ \A i \in 1..Len(s) - 1 : (t1 \o t2)[i] = IF i < n THEN t1[i] ELSE t2[i - (n - 1)]
    <2>1. /\ t1 \o t2 \in Seq(S) /\ Len(t1 \o t2) = Len(t1) + Len(t2)
          /\ \A i \in 1..Len(t1) + Len(t2) : (t1 \o t2)[i] =
                IF i <= Len(t1) THEN t1[i] ELSE t2[i - Len(t1)]
      BY <1>2, <1>3, ConcatProperties
    <2>2. Len(t1) + Len(t2) = Len(s) - 1 /\ Len(t1) = n - 1
      BY <1>1, <1>2, <1>3
    <2>3. \A i \in 1..Len(s) - 1 : i <= n - 1 <=> i < n
      BY <1>1
    <2>4. QED
      BY <2>1, <2>2, <2>3
  <1>6. SUFFICES ASSUME NEW i \in 1..Len(s) - 1
                 PROVE  (t1 \o t2)[i] = s[IF i < n THEN i ELSE i + 1]
    BY <1>4, <1>5
  <1>7. CASE i < n
    BY <1>1, <1>2, <1>5, <1>7
  <1>8. CASE ~(i < n)
    <2>1. i - (n - 1) \in 1..Len(s) - n /\ i - (n - 1) + n = i + 1
      BY <1>1, <1>8
    <2>2. QED
      BY <1>3, <1>5, <1>8, <2>1
  <1>9. QED
    BY <1>7, <1>8

\* The elements of a sequence, its head, and those of its tail.
LEMMA TailElements ==
    ASSUME NEW S, NEW s \in Seq(S), s # <<>>
    PROVE  /\ Head(s) \in S /\ Tail(s) \in Seq(S) /\ Head(s) \in ToSet(s)
           /\ ToSet(s) = ToSet(Tail(s)) \union {Head(s)}
           /\ \A i \in DOMAIN Tail(s) : i \in Nat /\ i + 1 \in DOMAIN s /\ i + 1 # 1 /\
                Tail(s)[i] = s[i + 1]
           /\ 1 \in DOMAIN s /\ Head(s) = s[1]
  <1>1. /\ Head(s) \in S /\ Tail(s) \in Seq(S) /\ Len(Tail(s)) = Len(s) - 1
        /\ Len(s) \in Nat /\ Len(s) # 0 /\ DOMAIN s = 1..Len(s) /\ DOMAIN Tail(s) = 1..Len(s) - 1
        /\ Head(s) = s[1] /\ \A i \in 1..Len(s) - 1 : Tail(s)[i] = s[i + 1]
    <2>1. Len(s) \in Nat /\ Len(s) # 0 /\ DOMAIN s = 1..Len(s) /\ Head(s) = s[1]
      BY EmptySeq, LenProperties
    <2>2. /\ Head(s) \in S /\ Tail(s) \in Seq(S) /\ Len(Tail(s)) = Len(s) - 1
          /\ \A i \in 1..Len(Tail(s)) : Tail(s)[i] = s[i + 1]
      BY HeadTailProperties
    <2>3. DOMAIN Tail(s) = 1..Len(Tail(s))
      BY <2>2, LenProperties
    <2>4. QED
      BY <2>1, <2>2, <2>3
  <1>2. \A i \in DOMAIN s : i = 1 \/ (i - 1 \in DOMAIN Tail(s) /\ Tail(s)[i - 1] = s[i])
    <2>1. SUFFICES ASSUME NEW i \in DOMAIN s, i # 1
                   PROVE  i - 1 \in DOMAIN Tail(s) /\ Tail(s)[i - 1] = s[i]
      OBVIOUS
    <2>2. i - 1 \in 1..Len(s) - 1 /\ (i - 1) + 1 = i
      BY <1>1, <2>1
    <2>3. QED
      BY <1>1, <2>2
  <1>3. \A i \in DOMAIN Tail(s) : i \in Nat /\ i + 1 \in DOMAIN s /\ i + 1 # 1 /\
          Tail(s)[i] = s[i + 1]
    BY <1>1
  <1>4. 1 \in DOMAIN s
    BY <1>1
  <1>5. ToSet(s) = ToSet(Tail(s)) \union {Head(s)}
    <2>1. ToSet(s) \subseteq ToSet(Tail(s)) \union {Head(s)}
      <3>1. SUFFICES ASSUME NEW i \in DOMAIN s
                     PROVE  s[i] \in ToSet(Tail(s)) \union {Head(s)}
        BY DEF ToSet
      <3>2. CASE i = 1
        BY <1>1, <3>2
      <3>3. CASE i - 1 \in DOMAIN Tail(s) /\ Tail(s)[i - 1] = s[i]
        BY <3>3 DEF ToSet
      <3>4. QED
        BY <1>2, <3>2, <3>3
    <2>2. ToSet(Tail(s)) \subseteq ToSet(s)
      <3>1. SUFFICES ASSUME NEW i \in DOMAIN Tail(s)
                     PROVE  Tail(s)[i] \in ToSet(s)
        BY DEF ToSet
      <3>2. i + 1 \in DOMAIN s /\ Tail(s)[i] = s[i + 1]
        BY <1>1, <1>3
      <3>3. QED
        BY <3>2 DEF ToSet
    <2>3. Head(s) \in ToSet(s)
      BY <1>1, <1>4 DEF ToSet
    <2>4. QED
      BY <2>1, <2>2, <2>3
  <1>6. QED
    BY <1>1, <1>3, <1>4, <1>5

\* The elements of a sequence with one more.
LEMMA AppendElements ==
    ASSUME NEW S, NEW s \in Seq(S), NEW e \in S
    PROVE  /\ Append(s, e) \in Seq(S) /\ Append(s, e) # <<>>
           /\ ToSet(Append(s, e)) = ToSet(s) \union {e}
           /\ Head(Append(s, e)) = IF s = <<>> THEN e ELSE Head(s)
           /\ Len(s) \in Nat /\ DOMAIN s = 1..Len(s) /\ DOMAIN Append(s, e) = 1..Len(s) + 1
           /\ \A i \in 1..Len(s) : Append(s, e)[i] = s[i]
           /\ Append(s, e)[Len(s) + 1] = e
  <1>1. /\ Append(s, e) \in Seq(S) /\ Append(s, e) # <<>>
        /\ Len(Append(s, e)) = Len(s) + 1 /\ Len(s) \in Nat
        /\ DOMAIN s = 1..Len(s) /\ DOMAIN Append(s, e) = 1..Len(s) + 1
        /\ \A i \in 1..Len(s) : Append(s, e)[i] = s[i]
        /\ Append(s, e)[Len(s) + 1] = e
    BY AppendProperties, LenProperties
  <1>2. Head(Append(s, e)) = IF s = <<>> THEN e ELSE Head(s)
    BY HeadTailAppend
  <1>3. ToSet(Append(s, e)) = ToSet(s) \union {e}
    BY <1>1 DEF ToSet
  <1>4. QED
    BY <1>1, <1>2, <1>3

\* A sequence that repeats nothing, without its head,
LEMMA TailInjective ==
    ASSUME NEW S, NEW s \in Seq(S), IsInjective(s), s # <<>>
    PROVE  IsInjective(Tail(s)) /\ ToSet(Tail(s)) = ToSet(s) \ {Head(s)}
  <1>1. /\ \A i \in DOMAIN Tail(s) : i \in Nat /\ i + 1 \in DOMAIN s /\ i + 1 # 1 /\
             Tail(s)[i] = s[i + 1]
        /\ 1 \in DOMAIN s /\ Head(s) = s[1] /\ ToSet(s) = ToSet(Tail(s)) \union {Head(s)}
    BY TailElements
  <1>2. IsInjective(Tail(s))
    <2>1. SUFFICES ASSUME NEW a \in DOMAIN Tail(s), NEW b \in DOMAIN Tail(s),
                     Tail(s)[a] = Tail(s)[b]
                   PROVE  a = b
      BY Zenon DEF IsInjective
    <2>2. a + 1 = b + 1 /\ a \in Nat /\ b \in Nat
      BY <1>1, <2>1 DEF IsInjective
    <2>3. QED
      BY <2>2
  <1>3. Head(s) \notin ToSet(Tail(s))
    BY <1>1 DEF ToSet, IsInjective
  <1>4. QED
    BY <1>1, <1>2, <1>3

\* with something new at its end,
LEMMA AppendInjects ==
    ASSUME NEW S, NEW s \in Seq(S), IsInjective(s), NEW e \in S, e \notin ToSet(s)
    PROVE  IsInjective(Append(s, e))
  <1>1. /\ Len(s) \in Nat /\ DOMAIN s = 1..Len(s) /\ DOMAIN Append(s, e) = 1..Len(s) + 1
        /\ \A i \in 1..Len(s) : Append(s, e)[i] = s[i]
        /\ Append(s, e)[Len(s) + 1] = e
    BY AppendElements
  <1>2. \A i \in 1..Len(s) : s[i] # e
    BY <1>1 DEF ToSet
  <1>3. SUFFICES ASSUME NEW a \in 1..Len(s) + 1, NEW b \in 1..Len(s) + 1,
                        Append(s, e)[a] = Append(s, e)[b]
                 PROVE  a = b
    BY <1>1, Zenon DEF IsInjective
  <1>4. CASE a \in 1..Len(s) /\ b \in 1..Len(s)
    BY <1>1, <1>3, <1>4 DEF IsInjective
  <1>5. CASE a = Len(s) + 1 \/ b = Len(s) + 1
    BY <1>1, <1>2, <1>3, <1>5
  <1>6. QED
    BY <1>1, <1>4, <1>5

\* and without any of its elements.
LEMMA RemoveFacts ==
    ASSUME NEW S, NEW s \in Seq(S), IsInjective(s), NEW e
    PROVE  /\ RemoveFirst(s, e) \in Seq(S) /\ IsInjective(RemoveFirst(s, e))
           /\ ToSet(RemoveFirst(s, e)) = ToSet(s) \ {e}
           /\ s # <<>> /\ Head(s) # e =>
                RemoveFirst(s, e) # <<>> /\ Head(RemoveFirst(s, e)) = Head(s)
  <1>1. Len(s) \in Nat /\ DOMAIN s = 1..Len(s) /\ (s # <<>> => Len(s) # 0 /\ Head(s) = s[1])
    BY EmptySeq, LenProperties
  <1>2. CASE ~\E i \in 1..Len(s) : s[i] = e
    <2>1. RemoveFirst(s, e) = s /\ e \notin ToSet(s)
      BY <1>1, <1>2 DEF RemoveFirst, ToSet
    <2>2. QED
      BY <2>1
  <1>3. CASE \E i \in 1..Len(s) : s[i] = e
    <2>1. PICK n \in 1..Len(s) : s[n] = e
      BY <1>3
    <2> DEFINE t == RemoveAt(s, n)
    <2>2. {i \in 1..Len(s) : s[i] = e} = {n}
      BY <1>1, <2>1 DEF IsInjective
    <2>3. Min({n}) = n
      BY <1>1 DEF Min
    <2>4. SelectInSeq(s, LAMBDA v : v = e) = n
      BY <2>2, <2>3 DEF SelectInSeq
    <2>5. RemoveFirst(s, e) = t
      BY <1>3, <2>4 DEF RemoveFirst
    <2>6. /\ t \in Seq(S) /\ Len(t) = Len(s) - 1
          /\ \A i \in 1..Len(s) - 1 : t[i] = s[IF i < n THEN i ELSE i + 1]
      BY RemoveAtFacts
    <2> HIDE DEF t
    <2>7. DOMAIN t = 1..Len(s) - 1 /\ n \in Nat /\ 1 <= n /\ n <= Len(s)
      BY <1>1, <2>6
    <2>8. IsInjective(t)
      <3>1. SUFFICES ASSUME NEW a \in DOMAIN t, NEW b \in DOMAIN t, t[a] = t[b]
                     PROVE  a = b
        BY Zenon DEF IsInjective
      <3> DEFINE x == IF a < n THEN a ELSE a + 1
                 y == IF b < n THEN b ELSE b + 1
      <3>2. s[x] = s[y] /\ x \in DOMAIN s /\ y \in DOMAIN s
        BY <1>1, <2>6, <2>7, <3>1
      <3>3. x = y
        BY <3>2 DEF IsInjective
      <3>4. QED
        BY <1>1, <2>7, <3>3
    <2>9. ToSet(t) = ToSet(s) \ {e}
      <3>1. \A i \in DOMAIN t : \E k \in DOMAIN s : k # n /\ t[i] = s[k]
        <4>1. SUFFICES ASSUME NEW i \in DOMAIN t
                       PROVE  \E k \in DOMAIN s : k # n /\ t[i] = s[k]
          OBVIOUS
        <4>2. (IF i < n THEN i ELSE i + 1) \in DOMAIN s /\ (IF i < n THEN i ELSE i + 1) # n
          BY <1>1, <2>7
        <4>3. QED
          BY <2>6, <2>7, <4>2
      <3>2. \A k \in DOMAIN s : k # n => \E i \in DOMAIN t : t[i] = s[k]
        <4>1. SUFFICES ASSUME NEW k \in DOMAIN s, k # n
                       PROVE  \E i \in DOMAIN t : t[i] = s[k]
          OBVIOUS
        <4>2. (IF k < n THEN k ELSE k - 1) \in DOMAIN t
          BY <1>1, <2>7, <4>1
        <4>3. t[IF k < n THEN k ELSE k - 1] = s[k]
          BY <1>1, <2>6, <2>7, <4>1, <4>2
        <4>4. QED
          BY <4>2, <4>3
      <3>3. \A k \in DOMAIN s : s[k] = e <=> k = n
        BY <1>1, <2>1 DEF IsInjective
      <3>4. QED
        BY <3>1, <3>2, <3>3 DEF ToSet
    <2>10. ASSUME s # <<>>, Head(s) # e
           PROVE  t # <<>> /\ Head(t) = Head(s)
      <3>1. n # 1 /\ 1 \in 1..Len(s) - 1 /\ 1 < n
        BY <1>1, <2>1, <2>7, <2>10
      <3>2. t[1] = s[1] /\ Len(t) # 0
        BY <2>6, <2>7, <3>1
      <3>3. QED
        BY <1>1, <2>6, <2>10, <3>2, EmptySeq
    <2>11. QED
      BY <2>5, <2>6, <2>8, <2>9, <2>10
  <1>4. QED
    BY <1>2, <1>3

-----------------------------------------------------------------------------
(* The lane *)

\* A lane without its head,
LEMMA PopFacts ==
    ASSUME NEW l \in Seq(Tasks), Apart(l), l # <<>>
    PROVE  /\ Tail(l) \in Seq(Tasks) /\ Apart(Tail(l)) /\ Head(l) \in Tasks
           /\ ToSet(l) = ToSet(Tail(l)) \union {Head(l)}
           /\ \A t \in ToSet(Tail(l)) : t \in Tasks /\ ~Alike(t, Head(l))
  <1>1. /\ Head(l) \in Tasks /\ Tail(l) \in Seq(Tasks)
        /\ ToSet(l) = ToSet(Tail(l)) \union {Head(l)}
        /\ \A i \in DOMAIN Tail(l) : i \in Nat /\ i + 1 \in DOMAIN l /\ i + 1 # 1 /\
             Tail(l)[i] = l[i + 1]
        /\ 1 \in DOMAIN l /\ Head(l) = l[1]
    BY TailElements
  <1>2. Apart(Tail(l))
    <2>1. SUFFICES ASSUME NEW a \in DOMAIN Tail(l), NEW b \in DOMAIN Tail(l), a # b
                   PROVE  ~Alike(Tail(l)[a], Tail(l)[b])
      BY DEF Apart
    <2>2. a + 1 # b + 1 /\ a + 1 \in DOMAIN l /\ b + 1 \in DOMAIN l
      BY <1>1, <2>1
    <2>3. ~Alike(l[a + 1], l[b + 1])
      BY <2>2 DEF Apart
    <2>4. QED
      BY <1>1, <2>3
  <1>3. ASSUME NEW t \in ToSet(Tail(l))
        PROVE  t \in Tasks /\ ~Alike(t, Head(l))
    <2>1. PICK i \in DOMAIN Tail(l) : t = Tail(l)[i]
      BY DEF ToSet
    <2>2. i + 1 \in DOMAIN l /\ i + 1 # 1 /\ t = l[i + 1]
      BY <1>1, <2>1
    <2>3. ~Alike(l[i + 1], l[1])
      BY <1>1, <2>2 DEF Apart
    <2>4. l[i + 1] \in Tasks
      BY <2>2, ElementOfSeq, LenProperties
    <2>5. QED
      BY <1>1, <2>2, <2>3, <2>4
  <1>4. QED
    BY <1>1, <1>2, <1>3

\* The lane l2 is l with the tasks of ts at its end.
Grown(l, l2, ts) ==
    /\ l2 \in Seq(Tasks) /\ Apart(l2) /\ ToSet(l2) = ToSet(l) \union ts
    /\ l # <<>> => l2 # <<>> /\ Head(l2) = Head(l)
    /\ l2 = <<>> => l = <<>> /\ ts = {}

\* and with a task that is not like any of its own.
LEMMA PushFacts ==
    ASSUME NEW l \in Seq(Tasks), Apart(l), NEW t \in Tasks, \A s \in ToSet(l) : ~Alike(s, t)
    PROVE  Grown(l, Append(l, t), {t})
  <1>1. /\ Append(l, t) \in Seq(Tasks) /\ Append(l, t) # <<>>
        /\ ToSet(Append(l, t)) = ToSet(l) \union {t}
        /\ Head(Append(l, t)) = IF l = <<>> THEN t ELSE Head(l)
        /\ Len(l) \in Nat /\ DOMAIN l = 1..Len(l) /\ DOMAIN Append(l, t) = 1..Len(l) + 1
        /\ \A i \in 1..Len(l) : Append(l, t)[i] = l[i]
        /\ Append(l, t)[Len(l) + 1] = t
    BY AppendElements
  <1>2. \A i \in 1..Len(l) : ~Alike(l[i], t) /\ ~Alike(t, l[i])
    BY <1>1 DEF ToSet, Alike
  <1>3. Apart(Append(l, t))
    <2>1. SUFFICES ASSUME NEW a \in 1..Len(l) + 1, NEW b \in 1..Len(l) + 1, a # b
                   PROVE  ~Alike(Append(l, t)[a], Append(l, t)[b])
      BY <1>1 DEF Apart
    <2>2. CASE a \in 1..Len(l) /\ b \in 1..Len(l)
      BY <1>1, <2>1, <2>2 DEF Apart
    <2>3. CASE a = Len(l) + 1
      <3>1. b \in 1..Len(l)
        BY <1>1, <2>1, <2>3
      <3>2. QED
        BY <1>1, <1>2, <2>3, <3>1
    <2>4. CASE b = Len(l) + 1
      <3>1. a \in 1..Len(l)
        BY <1>1, <2>1, <2>4
      <3>2. QED
        BY <1>1, <1>2, <2>4, <3>1
    <2>5. QED
      BY <1>1, <2>2, <2>3, <2>4
  <1>4. QED
    BY <1>1, <1>3 DEF Grown

\* A lane grows by nothing, and twice.
LEMMA GrownFacts ==
    /\ \A l : l \in Seq(Tasks) /\ Apart(l) => Grown(l, l, {})
    /\ \A l, l2, l3, ts, us : Grown(l, l2, ts) /\ Grown(l2, l3, us) => Grown(l, l3, ts \union us)
  BY DEF Grown

-----------------------------------------------------------------------------
(* The queue *)

\* What is known of a pump.
LEMMA PumpFacts ==
    ASSUME NEW x \in Queues, NEW m, NEW rq, NEW gone,
           Queueing(x, m, rq, gone, FALSE), Permits(x, m, rq), Pumps(x, m)
    PROVE  /\ Head(x.pending) \in Requests /\ x.item = NoRequest /\ x.value = "none"
           /\ Pump(x, m) = [x EXCEPT !.item = Head(x.pending)] /\ Pump(x, m) \in Queues
           /\ Queueing(Pump(x, m), m, rq, gone, FALSE) /\ Permits(Pump(x, m), m, rq)
  <1>1. /\ x.item = NoRequest /\ x.pending # <<>> /\ Cardinality(x.active) < x.slots
        /\ x.activeModel \in {NoModel, m[Head(x.pending)]}
        /\ x.pending \in Seq(Requests) /\ x.slots \in 1..Slots /\ x.active \subseteq Requests
    BY DEF Pumps, CanDispatchHead, Dispatching, Queues
  <1>2. Head(x.pending) \in Requests /\ Head(x.pending) \in ToSet(x.pending)
    BY <1>1, TailElements
  <1>3. Pump(x, m) = [x EXCEPT !.item = Head(x.pending)]
    BY DEF Pump
  <1>4. x.value = "none" /\ ~x.inFlight /\ x.inFlight \in BOOLEAN
    BY <1>1 DEF Queueing, Queues
  <1> DEFINE y == [x EXCEPT !.item = Head(x.pending)]
  <1>5. /\ y.pending = x.pending /\ y.item = Head(x.pending) /\ y.inFlight = x.inFlight
        /\ y.value = x.value /\ y.active = x.active /\ y.activeModel = x.activeModel
        /\ y \in Queues
    BY <1>2 DEF Queues
  <1> HIDE DEF y
  <1>6. Rejectable(y) = Rejectable(x)
    BY <1>4, <1>5 DEF Rejectable
  <1>7. rq[y.item] = "waiting"
    BY <1>2, <1>5 DEF Queueing, Rejectable
  <1>8. x.active = {} \/ x.activeModel = m[y.item]
    <2>1. \A r \in x.active : x.activeModel \in Models
      BY <1>1 DEF Queueing, Permits
    <2>2. QED
      BY <1>1, <1>5, <2>1, NoModelAssumption
  <1>9. Queueing(y, m, rq, gone, FALSE)
    BY <1>1, <1>4, <1>5, <1>6, <1>7, <1>8 DEF Queueing
  <1>10. Cardinality(x.active) < Slots
    BY <1>1, FS_CardinalityType, QueueAssumption DEF Permits
  <1>11. Permits(y, m, rq)
    BY <1>5, <1>10 DEF Permits
  <1>12. QED
    BY <1>1, <1>2, <1>3, <1>4, <1>5, <1>9, <1>11 DEF y

\* Withdrawing or dropping a request leaves the others as they were.
LEMMA WithdrawFacts ==
    ASSUME NEW x \in Queues, NEW m, NEW rq, NEW gone, NEW run \in BOOLEAN, NEW r \in Requests,
           Queueing(x, m, rq, gone, run), Permits(x, m, rq),
             rq \in [Requests -> {"none", "waiting", "held", "done"}],
           rq[r] = "waiting",
           NEW gone2, gone \subseteq gone2, r \in gone2, \A z \in gone2 : z \in gone \/ z = r
    PROVE  Sound(Withdraw(x, r), m, [rq EXCEPT ![r] = "done"], gone2, run)
  <1> DEFINE y == Withdraw(x, r)
             rq2 == [rq EXCEPT ![r] = "done"]
  <1>0. \A z \in Requests : rq2[z] = IF z = r THEN "done" ELSE rq[z]
    OBVIOUS
  <1> HIDE DEF rq2
  <1>1. /\ x.pending \in Seq(Requests) /\ x.item \in Requests \union {NoRequest}
        /\ x.inFlight \in BOOLEAN /\ x.active \subseteq Requests
    BY DEF Queues
  <1>2. DOMAIN x.pending = 1..Len(x.pending)
    BY <1>1, LenProperties
  <1>3. Contains(x.pending, r) <=> r \in ToSet(x.pending)
    BY <1>2 DEF Contains, ToSet
  <1>4. /\ y.item = x.item /\ y.value = x.value /\ y.active = x.active
        /\ y.activeModel = x.activeModel /\ y.closed = x.closed
        /\ y.inFlight = (x.inFlight /\ r \in ToSet(x.pending))
        /\ y.pending = IF r \in ToSet(x.pending) THEN RemoveFirst(x.pending, r) ELSE x.pending
    BY <1>3 DEF Withdraw, Queues
  <1>5. /\ y.pending \in Seq(Requests) /\ IsInjective(y.pending)
        /\ ToSet(y.pending) = ToSet(x.pending) \ {r}
        /\ (x.pending # <<>> /\ Head(x.pending) # r
                => y.pending # <<>> /\ Head(y.pending) = Head(x.pending))
    BY <1>1, <1>4, RemoveFacts DEF Queueing
  <1>6. y \in Queues
    BY <1>1, <1>5, <1>3 DEF Withdraw, Queues
  <1> HIDE DEF y
  <1>7. r \in ToSet(x.pending) \/ (x.inFlight /\ r = x.item)
    BY DEF Queueing, Rejectable
  <1>8. Rejectable(y) = Rejectable(x) \ {r}
    <2>1. x.inFlight => x.item \notin ToSet(x.pending)
      BY DEF Queueing
    <2>2. QED
      BY <1>1, <1>4, <1>5, <1>7, <2>1 DEF Rejectable
  <1>9. Queueing(y, m, rq2, gone2, run)
    <2>1. \A z \in Requests : rq2[z] = "waiting" <=> z \in Rejectable(y)
      BY <1>0, <1>8 DEF Queueing
    <2>2. \A z \in gone2 : rq2[z] = "done"
      <3>1. \A z \in gone : rq[z] = "done" /\ z # r
        BY DEF Queueing
      <3>2. QED
        BY <1>0, <3>1 DEF rq2
    <2>3. y.inFlight => y.item # NoRequest /\ y.item \notin ToSet(y.pending)
      BY <1>4, <1>5 DEF Queueing
    <2>4. \A z \in Requests : rq2[z] # "none" => m[z] \in Models
      BY <1>0 DEF Queueing
    <2>5. ASSUME y.item # NoRequest
          PROVE  /\ rq2[y.item] # "none"
                 /\ y.active = {} \/ y.activeModel = m[y.item]
                 /\ IF y.value # "none" \/ run
                    THEN /\ y.item \notin ToSet(y.pending)
                         /\ y.inFlight \/ y.item \in gone2
                    ELSE /\ ~y.inFlight
                         /\ \/ y.item \in gone2
                            \/ (y.pending # <<>> /\ Head(y.pending) = y.item)
      BY <1>0, <1>1, <1>4, <1>5, <1>7, <2>5 DEF Queueing
    <2>6. QED
      BY <1>4, <1>5, <2>1, <2>2, <2>3, <2>4, <2>5 DEF Queueing
  <1>10. Permits(y, m, rq2)
    BY <1>0, <1>1, <1>4 DEF Permits
  <1>11. QED
    BY <1>6, <1>9, <1>10 DEF Sound, y, rq2

\* Rejecting everybody who waits.
LEMMA RejectFacts ==
    ASSUME NEW x \in Queues, NEW m, NEW rq, NEW gone, NEW run \in BOOLEAN,
           Queueing(x, m, rq, gone, run), Permits(x, m, rq), gone \subseteq Requests, NEW y,
           y \in {RejectPending(x), Close(x)}, NEW rq2,
           \A r \in Requests : rq2[r] = IF r \in Rejectable(x) THEN "done" ELSE rq[r]
    PROVE  Sound(y, m, rq2, gone \union Rejectable(x), run)
  <1>1. /\ x.pending \in Seq(Requests) /\ x.item \in Requests \union {NoRequest}
        /\ x.inFlight \in BOOLEAN /\ x.active \subseteq Requests
    BY DEF Queues
  <1>2. \A r \in Requests : rq2[r] = IF r \in Rejectable(x) THEN "done" ELSE rq[r]
    OBVIOUS
  <1>3. Rejectable(x) \subseteq Requests
    <2>1. ToSet(x.pending) \subseteq Requests
      BY <1>1 DEF ToSet
    <2>2. QED
      BY <1>1, <2>1 DEF Rejectable, Queueing
  <1>4. /\ y.pending = <<>> /\ y.inFlight = FALSE /\ y.item = x.item /\ y.value = x.value
        /\ y.active = x.active /\ y.activeModel = x.activeModel /\ y \in Queues
        /\ (x.closed => y.closed)
    <2>1. <<>> \in Seq(Requests)
      BY EmptySeq
    <2>2. CASE y = RejectPending(x)
      BY <2>1, <2>2 DEF RejectPending, Queues
    <2>3. CASE y = Close(x)
      BY <2>1, <2>3 DEF RejectPending, Close, Queues
    <2>4. QED
      BY <2>2, <2>3
  <1>5. IsInjective(<<>>) /\ ToSet(<<>>) = {}
    <2>1. DOMAIN <<>> = {}
      OBVIOUS
    <2>2. QED
      BY <2>1 DEF IsInjective, ToSet
  <1>6. Rejectable(y) = {}
    BY <1>4, <1>5 DEF Rejectable
  <1>7. \A r \in Requests : rq[r] = "waiting" <=> r \in Rejectable(x)
    BY DEF Queueing
  <1>8. Queueing(y, m, rq2, gone \union Rejectable(x), run)
    <2>1. \A r \in gone \union Rejectable(x) : rq2[r] = "done"
      <3>1. ASSUME NEW r \in gone
            PROVE  rq2[r] = "done"
        BY <1>2, <3>1 DEF Queueing
      <3>2. QED
        BY <1>2, <1>3, <3>1
    <2>2. ASSUME y.item # NoRequest
          PROVE  /\ rq2[y.item] # "none"
                 /\ y.active = {} \/ y.activeModel = m[y.item]
                 /\ y.item \in gone \union Rejectable(x)
      <3>1. x.item \in gone \/ x.inFlight \/ (x.pending # <<>> /\ Head(x.pending) = x.item)
        BY <1>1, <1>4, <2>2 DEF Queueing
      <3>2. x.pending # <<>> => Head(x.pending) \in ToSet(x.pending)
        BY <1>1, TailElements
      <3>3. QED
        BY <1>1, <1>2, <1>4, <2>2, <3>1, <3>2 DEF Queueing, Rejectable
    <2>3. \A r \in Requests : rq2[r] # "none" => m[r] \in Models
      BY <1>2, <1>7 DEF Queueing
    <2>4. QED
      BY <1>2, <1>4, <1>5, <1>6, <1>7, <2>1, <2>2, <2>3 DEF Queueing
  <1>9. Permits(y, m, rq2)
    BY <1>1, <1>2, <1>4, <1>7 DEF Permits
  <1>10. QED
    BY <1>4, <1>8, <1>9 DEF Sound

\* What the queue's invariant reads of it.
LEMMA SameQueue ==
    ASSUME NEW x, NEW y, NEW m, NEW rq, NEW gone, NEW run, Queueing(x, m, rq, gone, run),
           Permits(x, m, rq), y.pending = x.pending, y.item = x.item, y.inFlight = x.inFlight,
           y.value = x.value, y.active = x.active, y.activeModel = x.activeModel
    PROVE  Queueing(y, m, rq, gone, run) /\ Permits(y, m, rq)
  BY DEF Queueing, Permits, Rejectable

\* What the pump leaves of the queue x.
LEMMA PumpedFacts ==
    ASSUME NEW x \in Queues, NEW m, NEW rq, NEW gone, NEW run \in BOOLEAN,
           Queueing(x, m, rq, gone, run), Permits(x, m, rq), x.item = NoRequest => ~run
    PROVE  /\ Sound(Pump(x, m), m, rq, gone, run)
           /\ Pump(x, m).value = x.value /\ Pump(x, m).active = x.active
           /\ Pump(x, m).closed = x.closed
           /\ ~Pumps(x, m) => Pump(x, m) = x
           /\ Pumps(x, m) => /\ x.item = NoRequest /\ x.value = "none"
                             /\ Pump(x, m).item = Head(x.pending)
                             /\ Head(x.pending) \in Requests
  <1>1. CASE ~Pumps(x, m)
    BY <1>1 DEF Pump, Sound
  <1>2. CASE Pumps(x, m)
    <2>0. x.item = NoRequest /\ run = FALSE
      BY <1>2 DEF Pumps, Dispatching
    <2>1. /\ Head(x.pending) \in Requests /\ x.value = "none"
          /\ Pump(x, m) = [x EXCEPT !.item = Head(x.pending)] /\ Pump(x, m) \in Queues
          /\ Queueing(Pump(x, m), m, rq, gone, run) /\ Permits(Pump(x, m), m, rq)
      BY <1>2, <2>0, PumpFacts
    <2>2. QED
      BY <1>2, <2>0, <2>1 DEF Queues, Sound
  <1>3. QED
    BY <1>1, <1>2

\* acquire: a new request waits,
LEMMA EnqueueFacts ==
    ASSUME NEW x \in Queues, NEW m, NEW rq, NEW gone, NEW run \in BOOLEAN,
           Queueing(x, m, rq, gone, run), Permits(x, m, rq),
           rq \in [Requests -> {"none", "waiting", "held", "done"}],
           m \in [Requests -> Models \union {NoModel}], gone \subseteq Requests,
           NEW r \in Requests, rq[r] = "none", NEW a \in Models
    PROVE  Sound(Enqueue(x, r), [m EXCEPT ![r] = a], [rq EXCEPT ![r] = "waiting"], gone, run)
  <1> DEFINE y == Enqueue(x, r)
             m2 == [m EXCEPT ![r] = a]
             rq2 == [rq EXCEPT ![r] = "waiting"]
  <1>1. /\ \A z \in Requests : rq2[z] = IF z = r THEN "waiting" ELSE rq[z]
        /\ \A z \in Requests : m2[z] = IF z = r THEN a ELSE m[z]
    OBVIOUS
  <1> HIDE DEF m2, rq2
  <1>2. /\ x.pending \in Seq(Requests) /\ x.item \in Requests \union {NoRequest}
        /\ x.inFlight \in BOOLEAN /\ x.active \subseteq Requests
    BY DEF Queues
  <1>3. /\ y.pending = Append(x.pending, r) /\ y.item = x.item /\ y.inFlight = x.inFlight
        /\ y.value = x.value /\ y.active = x.active /\ y.activeModel = x.activeModel
        /\ y.closed = x.closed
    BY DEF Enqueue, Queues
  <1>4. r \notin ToSet(x.pending) /\ x.item # r /\ r \notin x.active /\ r \notin gone
    <2>1. r \notin Rejectable(x) /\ r \notin x.active /\ r \notin gone
      BY DEF Queueing, Permits
    <2>2. x.item # r
      BY QueueAssumption DEF Queueing, NoRequest
    <2>3. QED
      BY <2>1, <2>2 DEF Rejectable
  <1>5. /\ Append(x.pending, r) \in Seq(Requests) /\ Append(x.pending, r) # <<>>
        /\ ToSet(Append(x.pending, r)) = ToSet(x.pending) \union {r}
        /\ Head(Append(x.pending, r)) = IF x.pending = <<>> THEN r ELSE Head(x.pending)
        /\ IsInjective(Append(x.pending, r))
    BY <1>2, <1>4, AppendElements, AppendInjects DEF Queueing
  <1>6. y \in Queues
    BY <1>5 DEF Enqueue, Queues
  <1> HIDE DEF y
  <1>7. Rejectable(y) = Rejectable(x) \union {r}
    BY <1>3, <1>5 DEF Rejectable
  <1>8. Queueing(y, m2, rq2, gone, run)
    <2>1. \A z \in Requests : rq2[z] = "waiting" <=> z \in Rejectable(y)
      BY <1>1, <1>7 DEF Queueing
    <2>2. \A z \in gone : rq2[z] = "done"
      BY <1>1, <1>4 DEF Queueing
    <2>3. \A z \in Requests : rq2[z] # "none" => m2[z] \in Models
      BY <1>1 DEF Queueing
    <2>4. ASSUME y.item # NoRequest
          PROVE  /\ rq2[y.item] # "none"
                 /\ y.active = {} \/ y.activeModel = m2[y.item]
                 /\ IF y.value # "none" \/ run
                    THEN y.item \notin ToSet(y.pending) /\ (y.inFlight \/ y.item \in gone)
                    ELSE /\ ~y.inFlight
                         /\ y.item \in gone \/ (y.pending # <<>> /\ Head(y.pending) = y.item)
      <3>1. /\ x.item \in Requests /\ rq[x.item] # "none"
            /\ x.active = {} \/ x.activeModel = m[x.item]
            /\ IF x.value # "none" \/ run
               THEN x.item \notin ToSet(x.pending) /\ (x.inFlight \/ x.item \in gone)
               ELSE /\ ~x.inFlight
                    /\ x.item \in gone \/ (x.pending # <<>> /\ Head(x.pending) = x.item)
        BY <1>2, <1>3, <2>4 DEF Queueing
      <3>2. rq2[x.item] = rq[x.item] /\ m2[x.item] = m[x.item]
        BY <1>1, <1>4, <3>1
      <3>3. QED
        BY <1>3, <1>4, <1>5, <3>1, <3>2
    <2>5. QED
      BY <1>2, <1>3, <1>4, <1>5, <2>1, <2>2, <2>3, <2>4 DEF Queueing
  <1>9. Permits(y, m2, rq2)
    <2>1. \A z \in y.active : z # r /\ z \in Requests
      BY <1>2, <1>3, <1>4
    <2>2. QED
      BY <1>1, <1>3, <1>4, <2>1 DEF Permits
  <1>10. QED
    BY <1>3, <1>6, <1>8, <1>9 DEF Sound, y, m2, rq2

\* or is refused.
LEMMA RefuseFacts ==
    ASSUME NEW x \in Queues, NEW m, NEW rq, NEW gone, NEW run \in BOOLEAN,
           Queueing(x, m, rq, gone, run), Permits(x, m, rq),
           rq \in [Requests -> {"none", "waiting", "held", "done"}],
           m \in [Requests -> Models \union {NoModel}], gone \subseteq Requests,
           NEW r \in Requests, rq[r] = "none", NEW a \in Models
    PROVE  Sound(x, [m EXCEPT ![r] = a], [rq EXCEPT ![r] = "done"], gone, run)
  <1> DEFINE m2 == [m EXCEPT ![r] = a]
             rq2 == [rq EXCEPT ![r] = "done"]
  <1>1. /\ \A z \in Requests : rq2[z] = IF z = r THEN "done" ELSE rq[z]
        /\ \A z \in Requests : m2[z] = IF z = r THEN a ELSE m[z]
    OBVIOUS
  <1> HIDE DEF m2, rq2
  <1>2. /\ x.item \in Requests \union {NoRequest} /\ x.active \subseteq Requests
        /\ r \notin Rejectable(x) /\ x.item # r /\ r \notin x.active /\ r \notin gone
    <2>1. r \notin Rejectable(x) /\ r \notin x.active /\ r \notin gone
      BY DEF Queueing, Permits
    <2>2. x.item # r
      BY QueueAssumption DEF Queueing, NoRequest
    <2>3. QED
      BY <2>1, <2>2 DEF Queues
  <1>3. Queueing(x, m2, rq2, gone, run)
    <2>1. \A z \in Requests : rq2[z] = "waiting" <=> z \in Rejectable(x)
      BY <1>1, <1>2 DEF Queueing
    <2>2. QED
      BY <1>1, <1>2, <2>1 DEF Queueing
  <1>4. Permits(x, m2, rq2)
    <2>1. \A z \in x.active : z # r /\ z \in Requests
      BY <1>2
    <2>2. QED
      BY <1>1, <1>2, <2>1 DEF Permits
  <1>5. QED
    BY <1>3, <1>4 DEF Sound, m2, rq2

\* start() of a request that is still there: the head of pending leaves it.
LEMMA StartFacts ==
    ASSUME NEW x \in Queues, NEW m, NEW rq, NEW gone,
           Queueing(x, m, rq, gone, FALSE), Permits(x, m, rq),
           x.item # NoRequest, x.value = "none", x.item \notin gone
    PROVE  Sound(Start(x), m, rq, gone, TRUE)
  <1> DEFINE y == Start(x)
  <1>1. /\ x.pending \in Seq(Requests) /\ x.item \in Requests /\ x.active \subseteq Requests
        /\ x.pending # <<>> /\ Head(x.pending) = x.item /\ ~x.inFlight
        /\ IsInjective(x.pending)
    BY DEF Queues, Queueing
  <1>2. /\ Tail(x.pending) \in Seq(Requests) /\ IsInjective(Tail(x.pending))
        /\ ToSet(Tail(x.pending)) = ToSet(x.pending) \ {x.item} /\ x.item \in ToSet(x.pending)
    BY <1>1, TailInjective, TailElements
  <1>3. /\ y.pending = Tail(x.pending) /\ y.item = x.item /\ y.inFlight = TRUE
        /\ y.value = x.value /\ y.active = x.active /\ y.activeModel = x.activeModel
        /\ y.closed = x.closed /\ y \in Queues
    BY <1>2 DEF Start, Queues
  <1> HIDE DEF y
  <1>4. Rejectable(y) = Rejectable(x)
    BY <1>1, <1>2, <1>3 DEF Rejectable
  <1>5. Queueing(y, m, rq, gone, TRUE)
    BY <1>2, <1>3, <1>4 DEF Queueing
  <1>6. Permits(y, m, rq)
    BY <1>3 DEF Permits
  <1>7. QED
    BY <1>3, <1>5, <1>6 DEF Sound, y

\* One that is gone has already left pending.
LEMMA GoneFacts ==
    ASSUME NEW x \in Queues, NEW m, NEW rq, NEW gone, NEW run \in BOOLEAN,
           Queueing(x, m, rq, gone, run), x.item \in gone, x.item # NoRequest
    PROVE  Queueing(x, m, rq, gone, TRUE)
  <1>1. x.item \in Requests /\ rq[x.item] = "done"
    BY DEF Queueing, Queues
  <1>2. x.item \notin ToSet(x.pending)
    BY <1>1 DEF Queueing, Rejectable
  <1>3. QED
    BY <1>1, <1>2 DEF Queueing

\* The dispatch returns.
LEMMA ReturnedFacts ==
    ASSUME NEW x \in Queues, NEW m, NEW rq, NEW gone, NEW run \in BOOLEAN,
           Queueing(x, m, rq, gone, TRUE), Permits(x, m, rq),
           x.item # NoRequest, NEW v \in {"admitted", "answered", "error"}
    PROVE  Sound(Returned(x, v), m, rq, gone, run)
  <1> DEFINE y == Returned(x, v)
  <1>1. /\ y.pending = x.pending /\ y.item = x.item /\ y.inFlight = x.inFlight
        /\ y.value = v /\ y.active = x.active /\ y.activeModel = x.activeModel
        /\ y.closed = x.closed /\ y \in Queues
    BY DEF Returned, Queues
  <1> HIDE DEF y
  <1>2. Rejectable(y) = Rejectable(x)
    BY <1>1 DEF Rejectable
  <1>3. Queueing(y, m, rq, gone, run) /\ Permits(y, m, rq)
    BY <1>1, <1>2 DEF Queueing, Permits
  <1>4. QED
    BY <1>1, <1>3 DEF Sound, y

\* The request whose dispatch has returned is the one it is for, and neither
\* waits nor holds a permit any longer than the pump takes.
LEMMA ItemFacts ==
    ASSUME NEW x \in Queues, NEW m, NEW rq, NEW gone, NEW run \in BOOLEAN,
           Queueing(x, m, rq, gone, run), Permits(x, m, rq), x.item # NoRequest
    PROVE  /\ x.item \in Requests /\ rq[x.item] \in {"waiting", "done"} /\ m[x.item] \in Models
           /\ x.item \notin x.active
  <1>1. x.item \in Requests /\ x.pending \in Seq(Requests)
    BY DEF Queues
  <1>2. rq[x.item] \in {"waiting", "done"}
    <2>1. CASE x.item \in gone
      BY <2>1 DEF Queueing
    <2>2. CASE x.inFlight
      BY <1>1, <2>2 DEF Queueing, Rejectable
    <2>3. CASE x.pending # <<>> /\ Head(x.pending) = x.item
      <3>1. x.item \in ToSet(x.pending)
        BY <1>1, <2>3, TailElements
      <3>2. QED
        BY <1>1, <3>1 DEF Queueing, Rejectable
    <2>4. QED
      BY <2>1, <2>2, <2>3 DEF Queueing
  <1>3. QED
    BY <1>1, <1>2 DEF Queueing, Permits

\* An admitted request that is still there gets a permit,
LEMMA PermitFacts ==
    ASSUME NEW x \in Queues, NEW m, NEW rq, NEW gone, NEW run \in BOOLEAN,
           Queueing(x, m, rq, gone, run), Permits(x, m, rq), x.inFlight,
           rq \in [Requests -> {"none", "waiting", "held", "done"}],
           m \in [Requests -> Models \union {NoModel}], gone \subseteq Requests,
           NEW s \in 1..Slots,
           NEW rq2, \A z \in Requests : rq2[z] = IF z = x.item THEN "held" ELSE rq[z]
    PROVE  Sound(Permit(x, m, s), m, rq2, gone, run)
  <1> DEFINE y == Permit(x, m, s)
  <1>1. /\ x.item # NoRequest /\ x.item \in Requests /\ x.active \subseteq Requests
        /\ x.item \notin ToSet(x.pending) /\ rq[x.item] = "waiting" /\ x.item \notin x.active
        /\ m[x.item] \in Models
    BY ItemFacts DEF Queueing, Queues, Rejectable
  <1>2. \A z \in Requests : rq2[z] = IF z = x.item THEN "held" ELSE rq[z]
    OBVIOUS
  <1>3. /\ y.pending = x.pending /\ y.item = NoRequest /\ y.inFlight = FALSE
        /\ y.value = "none" /\ y.active = x.active \union {x.item}
        /\ y.activeModel = m[x.item] /\ y.closed = x.closed /\ y \in Queues
    BY <1>1 DEF Permit, Queues
  <1> HIDE DEF y
  <1>4. Rejectable(y) = Rejectable(x) \ {x.item}
    BY <1>1, <1>3 DEF Rejectable
  <1>5. Queueing(y, m, rq2, gone, run)
    BY <1>1, <1>2, <1>3, <1>4 DEF Queueing
  <1>6. Permits(y, m, rq2)
    <2>1. /\ IsFiniteSet(x.active \union {x.item})
          /\ Cardinality(x.active \union {x.item}) = Cardinality(x.active) + 1
          /\ Cardinality(x.active) \in Nat
      BY <1>1, FS_AddElement, FS_CardinalityType DEF Permits
    <2>2. Cardinality(y.active) <= Slots
      BY <1>1, <1>3, <2>1, QueueAssumption DEF Permits
    <2>3. y.active = {r \in Requests : rq2[r] = "held"}
      BY <1>1, <1>2, <1>3 DEF Permits
    <2>4. \A r \in y.active : m[r] = y.activeModel
      BY <1>1, <1>3 DEF Permits, Queueing
    <2>5. QED
      BY <1>3, <2>1, <2>2, <2>3, <2>4 DEF Permits
  <1>7. QED
    BY <1>3, <1>5, <1>6 DEF Sound, y

\* and any other is answered.
LEMMA DropFacts ==
    ASSUME NEW x \in Queues, NEW m, NEW rq, NEW gone, NEW run \in BOOLEAN,
           Queueing(x, m, rq, gone, run), Permits(x, m, rq), x.value # "none",
           rq \in [Requests -> {"none", "waiting", "held", "done"}], gone \subseteq Requests,
           NEW rq2, \A z \in Requests : rq2[z] = IF z = x.item THEN "done" ELSE rq[z]
    PROVE  Sound(Drop(x), m, rq2, gone, run)
  <1> DEFINE y == Drop(x)
  <1>1. /\ x.item # NoRequest /\ x.item \in Requests /\ x.active \subseteq Requests
        /\ x.pending \in Seq(Requests)
        /\ x.item \notin ToSet(x.pending) /\ x.item \notin x.active
        /\ rq[x.item] \in {"waiting", "done"} /\ m[x.item] \in Models
    BY ItemFacts DEF Queueing, Queues
  <1>2. \A z \in Requests : rq2[z] = IF z = x.item THEN "done" ELSE rq[z]
    OBVIOUS
  <1> DEFINE p == RemoveFirst(x.pending, x.item)
  <1>3. p \in Seq(Requests) /\ IsInjective(p) /\ ToSet(p) = ToSet(x.pending)
    <2>1. IsInjective(x.pending)
      BY DEF Queueing
    <2>2. p \in Seq(Requests) /\ IsInjective(p) /\ ToSet(p) = ToSet(x.pending) \ {x.item}
      BY <1>1, <2>1, RemoveFacts
    <2>3. QED
      BY <1>1, <2>2
  <1> HIDE DEF p
  <1>4. /\ y.pending = p /\ y.item = NoRequest /\ y.inFlight = FALSE /\ y.value = "none"
        /\ y.active = x.active /\ y.closed = x.closed /\ y \in Queues
        /\ (x.active = {} \/ y.activeModel = x.activeModel)
    BY <1>1, <1>3 DEF Drop, Queues, p
  <1> HIDE DEF y
  <1>5. Rejectable(y) = Rejectable(x) \ {x.item}
    BY <1>1, <1>3, <1>4 DEF Rejectable
  <1>6. Queueing(y, m, rq2, gone, run)
    BY <1>1, <1>2, <1>3, <1>4, <1>5 DEF Queueing
  <1>7. Permits(y, m, rq2)
    BY <1>1, <1>2, <1>4 DEF Permits
  <1>8. QED
    BY <1>4, <1>6, <1>7 DEF Sound, y

\* A permit is given back.
LEMMA ReleaseFacts ==
    ASSUME NEW x \in Queues, NEW m, NEW rq, NEW gone, NEW run \in BOOLEAN,
           Queueing(x, m, rq, gone, run), Permits(x, m, rq),
           rq \in [Requests -> {"none", "waiting", "held", "done"}], gone \subseteq Requests,
           NEW r \in Requests, rq[r] = "held",
           NEW gone2, gone \subseteq gone2, \A z \in gone2 : z \in gone \/ z = r
    PROVE  Sound(ReleasePermit(x, r), m, [rq EXCEPT ![r] = "done"], gone2, run)
  <1> DEFINE y == ReleasePermit(x, r)
             rq2 == [rq EXCEPT ![r] = "done"]
  <1>1. /\ x.active \subseteq Requests /\ r \in x.active /\ x.item # r
        /\ r \notin Rejectable(x) /\ x.item \in Requests \union {NoRequest}
    <2>1. x.item # NoRequest => rq[x.item] \in {"waiting", "done"}
      BY ItemFacts
    <2>2. x.item # r
      BY <2>1, QueueAssumption DEF NoRequest
    <2>3. QED
      BY <2>2 DEF Queueing, Queues, Permits
  <1>2. \A z \in Requests : rq2[z] = IF z = r THEN "done" ELSE rq[z]
    OBVIOUS
  <1> HIDE DEF rq2
  <1>3. /\ y.pending = x.pending /\ y.item = x.item /\ y.inFlight = x.inFlight
        /\ y.value = x.value /\ y.active = x.active \ {r} /\ y.closed = x.closed
        /\ y \in Queues /\ (y.active = {} \/ y.activeModel = x.activeModel)
    <2> DEFINE others == x.active \ {r}
               am == IF others = {} THEN NoModel ELSE x.activeModel
               sl == IF others = {} THEN 1 ELSE x.slots
    <2>1. others \subseteq Requests /\ am \in Models \union {NoModel} /\ sl \in 1..Slots
      BY <1>1, QueueAssumption DEF Queues
    <2>2. y = [x EXCEPT !.active = others, !.activeModel = am, !.slots = sl]
      BY DEF ReleasePermit, Queues
    <2>3. others = {} \/ am = x.activeModel
      OBVIOUS
    <2>4. others = x.active \ {r}
      OBVIOUS
    <2> HIDE DEF others, am, sl, y
    <2>5. QED
      BY <2>1, <2>2, <2>3, <2>4 DEF Queues
  <1> HIDE DEF y
  <1>4. Rejectable(y) = Rejectable(x)
    BY <1>3 DEF Rejectable
  <1>5. \A z \in gone2 : rq2[z] = "done"
    BY <1>2 DEF Queueing
  <1>6. Queueing(y, m, rq2, gone2, run)
    <2>1. \A z \in Requests : rq2[z] = "waiting" <=> z \in Rejectable(y)
      BY <1>1, <1>2, <1>4 DEF Queueing
    <2>2. \A z \in Requests : rq2[z] # "none" => m[z] \in Models
      BY <1>2 DEF Queueing
    <2>3. QED
      <3>1. IsInjective(y.pending) /\ (y.value # "none" => y.item # NoRequest)
        BY <1>3 DEF Queueing
      <3>2. y.inFlight => y.item # NoRequest /\ y.item \notin ToSet(y.pending)
        BY <1>3 DEF Queueing
      <3>3. ASSUME y.item # NoRequest
            PROVE  /\ rq2[y.item] # "none"
                   /\ y.active = {} \/ y.activeModel = m[y.item]
                   /\ IF y.value # "none" \/ run
                      THEN y.item \notin ToSet(y.pending) /\ (y.inFlight \/ y.item \in gone2)
                      ELSE /\ ~y.inFlight
                           /\ \/ y.item \in gone2
                              \/ (y.pending # <<>> /\ Head(y.pending) = y.item)
        <4>0. /\ x.item \in Requests /\ rq[x.item] # "none"
              /\ x.active = {} \/ x.activeModel = m[x.item]
          BY <1>1, <1>3, <3>3 DEF Queueing
        <4>1. rq2[y.item] # "none" /\ (y.active = {} \/ y.activeModel = m[y.item])
          BY <1>1, <1>2, <1>3, <4>0
        <4>2. QED
          BY <1>3, <3>3, <4>1 DEF Queueing
      <3>4. QED
        BY <1>5, <2>1, <2>2, <3>1, <3>2, <3>3 DEF Queueing
  <1>7. Permits(y, m, rq2)
    <2>1. /\ IsFiniteSet(x.active \ {r})
          /\ Cardinality(x.active \ {r}) = Cardinality(x.active) - 1
          /\ Cardinality(x.active) \in Nat
      BY <1>1, FS_RemoveElement, FS_CardinalityType DEF Permits
    <2>2. /\ Cardinality(y.active) <= Slots
          /\ y.item # NoRequest => Cardinality(y.active) < Slots
      BY <1>1, <1>3, <2>1, QueueAssumption DEF Permits
    <2>3. y.active = {z \in Requests : rq2[z] = "held"}
      BY <1>1, <1>2, <1>3 DEF Permits
    <2>4. QED
      BY <1>3, <2>1, <2>2, <2>3 DEF Permits
  <1>8. QED
    BY <1>3, <1>6, <1>7 DEF Sound, y, rq2

\* What the operators leave of the queue: the withdrawal of a request,
LEMMA WithdrawFields ==
    ASSUME NEW x \in Queues, NEW r
    PROVE  /\ Withdraw(x, r).item = x.item /\ Withdraw(x, r).value = x.value
           /\ Withdraw(x, r).active = x.active /\ Withdraw(x, r).closed = x.closed
  BY DEF Withdraw, Queues

\* the arrival of one,
LEMMA EnqueueFields ==
    ASSUME NEW x \in Queues, NEW r
    PROVE  /\ Enqueue(x, r).item = x.item /\ Enqueue(x, r).value = x.value
           /\ Enqueue(x, r).active = x.active /\ Enqueue(x, r).closed = x.closed
  BY DEF Enqueue, Queues

\* the start of a dispatch,
LEMMA StartFields ==
    ASSUME NEW x \in Queues
    PROVE  /\ Start(x).item = x.item /\ Start(x).value = x.value
           /\ Start(x).active = x.active /\ Start(x).closed = x.closed
  BY DEF Start, Queues

\* its return,
LEMMA ReturnedFields ==
    ASSUME NEW x \in Queues, NEW v
    PROVE  /\ Returned(x, v).item = x.item /\ Returned(x, v).value = v
           /\ Returned(x, v).active = x.active /\ Returned(x, v).closed = x.closed
  BY DEF Returned, Queues

\* a permit given,
LEMMA PermitFields ==
    ASSUME NEW x \in Queues, NEW m, NEW s
    PROVE  /\ Permit(x, m, s).item = NoRequest /\ Permit(x, m, s).value = "none"
           /\ Permit(x, m, s).active = x.active \union {x.item} /\ Permit(x, m, s).closed = x.closed
  BY DEF Permit, Queues

\* a request dropped,
LEMMA DropFields ==
    ASSUME NEW x \in Queues
    PROVE  /\ Drop(x).item = NoRequest /\ Drop(x).value = "none"
           /\ Drop(x).active = x.active /\ Drop(x).closed = x.closed
  BY DEF Drop, Queues

\* a permit given back,
LEMMA ReleaseFields ==
    ASSUME NEW x \in Queues, NEW r
    PROVE  /\ ReleasePermit(x, r).item = x.item /\ ReleasePermit(x, r).value = x.value
           /\ ReleasePermit(x, r).active = x.active \ {r} /\ ReleasePermit(x, r).closed = x.closed
  BY DEF ReleasePermit, Queues

\* everybody rejected,
LEMMA RejectFields ==
    ASSUME NEW x \in Queues
    PROVE  /\ RejectPending(x).item = x.item /\ RejectPending(x).value = x.value
           /\ RejectPending(x).active = x.active /\ RejectPending(x).closed = x.closed
  BY DEF RejectPending, Queues

\* and the queue closed.
LEMMA CloseFields ==
    ASSUME NEW x \in Queues
    PROVE  /\ Close(x).item = x.item /\ Close(x).value = x.value
           /\ Close(x).active = x.active /\ Close(x).closed = TRUE
  BY DEF Close, RejectPending, Queues

-----------------------------------------------------------------------------
(* The barrier *)

\* What a barrier's leases are made of.
LEMMA BarrierFacts ==
    ASSUME NEW b \in Barriers(Requests, Nat)
    PROVE  /\ b.leases \in Seq([r : Requests, sup : Nat, ready : {"pending", "ok", "failed"}])
           /\ Len(b.leases) \in Nat /\ DOMAIN b.leases = 1..Len(b.leases)
           /\ \A i \in DOMAIN b.leases :
                b.leases[i] \in [r : Requests, sup : Nat, ready : {"pending", "ok", "failed"}]
           /\ Idle(b) <=> Len(b.leases) = 0
           /\ Idle(b) <=> Served(b) = {}
           /\ Served(b) \subseteq Requests
  <1>1. b.leases \in Seq([r : Requests, sup : Nat, ready : {"pending", "ok", "failed"}])
    BY DEF Barriers
  <1>2. /\ Len(b.leases) \in Nat /\ DOMAIN b.leases = 1..Len(b.leases)
        /\ Idle(b) <=> Len(b.leases) = 0
    BY <1>1, EmptySeq, LenProperties DEF Idle
  <1>3. \A i \in DOMAIN b.leases :
            b.leases[i] \in [r : Requests, sup : Nat, ready : {"pending", "ok", "failed"}]
    BY <1>1, <1>2, ElementOfSeq
  <1>4. Served(b) \subseteq Requests
    BY <1>3 DEF Served
  <1>5. Idle(b) <=> Served(b) = {}
    <2>1. Len(b.leases) # 0 => 1 \in DOMAIN b.leases
      BY <1>2
    <2>2. Len(b.leases) = 0 => DOMAIN b.leases = {}
      BY <1>2
    <2>3. QED
      BY <1>2, <2>1, <2>2 DEF Served
  <1>6. QED
    BY <1>1, <1>2, <1>3, <1>4, <1>5

\* The lease of a request that has one.
LEMMA LeaseFacts ==
    ASSUME NEW b \in Barriers(Requests, Nat), NEW s, NEW m, Leased(b, s, m), NEW r \in Served(b)
    PROVE  /\ LeaseAt(b, r) \in 1..Len(b.leases) /\ b.leases[LeaseAt(b, r)].r = r
           /\ Lease(b, r).sup = s.id /\ s.model = m[r] /\ ~Idle(b)
           /\ Lease(b, r) \in [r : Requests, sup : Nat, ready : {"pending", "ok", "failed"}]
  <1>1. DOMAIN b.leases = 1..Len(b.leases)
    BY BarrierFacts
  <1>2. \E i \in DOMAIN b.leases : b.leases[i].r = r
    BY DEF Served
  <1>3. LeaseAt(b, r) \in DOMAIN b.leases /\ b.leases[LeaseAt(b, r)].r = r
    BY <1>2 DEF LeaseAt
  <1>4. QED
    BY <1>1, <1>3, BarrierFacts DEF Leased, Lease

\* acquire: one more request, of the same supervisor.
LEMMA AcquireFacts ==
    ASSUME NEW b \in Barriers(Requests, Nat), NEW s, NEW m, Leased(b, s, m),
           NEW r \in Requests, r \notin Served(b), s.id \in Nat, s.model = m[r], 0 \notin Requests,
           NEW ready \in {"pending", "ok", "failed"}
    PROVE  /\ Acquire(b, r, s.id, ready) \in Barriers(Requests, Nat)
           /\ Leased(Acquire(b, r, s.id, ready), s, m)
           /\ Served(Acquire(b, r, s.id, ready)) = Served(b) \union {r}
           /\ ~Idle(Acquire(b, r, s.id, ready))
           /\ Acquire(b, r, s.id, ready).accepting = b.accepting
           /\ Acquire(b, r, s.id, ready).passedOver = b.passedOver
           /\ Acquire(b, r, s.id, ready).stopped = b.stopped
  <1> DEFINE e == [r |-> r, sup |-> s.id, ready |-> ready]
             y == Acquire(b, r, s.id, ready)
             R == [r : Requests, sup : Nat, ready : {"pending", "ok", "failed"}]
  <1>1. e \in R /\ b.leases \in Seq(R)
    BY DEF Barriers
  <1>2. e.r = r /\ e.sup = s.id
    OBVIOUS
  <1>3. /\ y.leases = Append(b.leases, e) /\ y.first = (IF Idle(b) THEN r ELSE b.first)
        /\ y.accepting = b.accepting /\ y.passedOver = b.passedOver /\ y.stopped = b.stopped
    BY DEF Acquire, Barriers
  <1> HIDE DEF e
  <1>4. /\ Append(b.leases, e) \in Seq(R) /\ Append(b.leases, e) # <<>>
        /\ Len(b.leases) \in Nat /\ DOMAIN b.leases = 1..Len(b.leases)
        /\ DOMAIN Append(b.leases, e) = 1..Len(b.leases) + 1
        /\ \A i \in 1..Len(b.leases) : Append(b.leases, e)[i] = b.leases[i]
        /\ Append(b.leases, e)[Len(b.leases) + 1] = e
    BY <1>1, AppendElements
  <1>5. y \in Barriers(Requests, Nat)
    BY <1>3, <1>4 DEF Acquire, Barriers, e
  <1> HIDE DEF y
  <1>6. Served(y) = Served(b) \union {r}
    <2>1. ASSUME NEW i \in DOMAIN y.leases
          PROVE  y.leases[i].r \in Served(b) \union {r}
      <3>1. CASE i \in 1..Len(b.leases)
        BY <1>3, <1>4, <3>1 DEF Served
      <3>2. CASE i = Len(b.leases) + 1
        BY <1>2, <1>3, <1>4, <3>2
      <3>3. QED
        BY <1>3, <1>4, <3>1, <3>2
    <2>2. ASSUME NEW i \in DOMAIN b.leases
          PROVE  i \in DOMAIN y.leases /\ y.leases[i].r = b.leases[i].r
      BY <1>3, <1>4
    <2>3. Len(b.leases) + 1 \in DOMAIN y.leases /\ y.leases[Len(b.leases) + 1].r = r
      BY <1>2, <1>3, <1>4
    <2>4. QED
      BY <2>1, <2>2, <2>3 DEF Served
  <1>7. \A i \in DOMAIN b.leases : b.leases[i].r # r
    BY DEF Served
  <1>8. Leased(y, s, m)
    <2>1. ASSUME NEW i \in DOMAIN y.leases, NEW j \in DOMAIN y.leases,
                 y.leases[i].r = y.leases[j].r
          PROVE  i = j
      <3>1. CASE i \in 1..Len(b.leases) /\ j \in 1..Len(b.leases)
        BY <1>3, <1>4, <2>1, <3>1 DEF Leased
      <3>2. CASE i = Len(b.leases) + 1 \/ j = Len(b.leases) + 1
        BY <1>2, <1>3, <1>4, <1>7, <2>1, <3>2
      <3>3. QED
        BY <1>3, <1>4, <3>1, <3>2
    <2>2. ASSUME NEW i \in DOMAIN y.leases
          PROVE  y.leases[i].sup = s.id /\ s.model = m[y.leases[i].r]
      <3>1. CASE i \in 1..Len(b.leases)
        BY <1>3, <1>4, <3>1 DEF Leased
      <3>2. CASE i = Len(b.leases) + 1
        BY <1>2, <1>3, <1>4, <3>2
      <3>3. QED
        BY <1>3, <1>4, <3>1, <3>2
    <2>3. ~Idle(y) /\ y.first # 0
      BY <1>3, <1>4 DEF Idle, Leased
    <2>4. QED
      BY <2>1, <2>2, <2>3 DEF Leased
  <1>9. ~Idle(y)
    BY <1>3, <1>4 DEF Idle
  <1>10. QED
    BY <1>3, <1>5, <1>6, <1>8, <1>9 DEF y

\* release and cancel: one request less.
LEMMA EndLeaseFacts ==
    ASSUME NEW b \in Barriers(Requests, Nat), NEW s, NEW m, Leased(b, s, m),
           NEW r \in Served(b), NEW cancel \in BOOLEAN
    PROVE  /\ EndLease(b, r, cancel) \in Barriers(Requests, Nat)
           /\ Leased(EndLease(b, r, cancel), s, m)
           /\ Served(EndLease(b, r, cancel)) = Served(b) \ {r}
           /\ EndLease(b, r, cancel).passedOver = b.passedOver
           /\ EndLease(b, r, cancel).accepting => b.accepting
           /\ b.accepting /\ ~EndLease(b, r, cancel).accepting => IdleCancelled(b, r, cancel)
           /\ EndLease(b, r, cancel).stopped \in {0, b.stopped}
  <1> DEFINE y == EndLease(b, r, cancel)
             R == [r : Requests, sup : Nat, ready : {"pending", "ok", "failed"}]
             n == LeaseAt(b, r)
  <1>1. /\ b.leases \in Seq(R) /\ Len(b.leases) \in Nat /\ DOMAIN b.leases = 1..Len(b.leases)
        /\ n \in 1..Len(b.leases) /\ b.leases[n].r = r
    <2>1. n \in 1..Len(b.leases) /\ b.leases[n].r = r
      BY LeaseFacts
    <2>2. QED
      BY <2>1, BarrierFacts
  <1>2. /\ b.accepting \in BOOLEAN /\ b.cancellation \in BOOLEAN /\ b.detachInvoked \in BOOLEAN
        /\ b.passedOver \in BOOLEAN
        /\ b.first \in Requests \union {0} /\ b.stopped \in Requests \union {0}
    BY DEF Barriers
  <1>3. CASE Len(b.leases) = 1
    <2>1. IdleCancelled(b, r, cancel) \in BOOLEAN
      BY DEF IdleCancelled
    <2>2. y = [accepting |-> b.accepting /\ ~IdleCancelled(b, r, cancel), cancellation |-> FALSE,
               detachInvoked |-> FALSE, passedOver |-> b.passedOver, first |-> 0, stopped |-> 0,
               leases |-> <<>>]
      BY <1>3 DEF EndLease, NewBarrier
    <2> DEFINE ok == b.accepting /\ ~IdleCancelled(b, r, cancel)
    <2>3. ok \in BOOLEAN /\ (ok => b.accepting) /\
            (b.accepting /\ ~ok => IdleCancelled(b, r, cancel))
      BY <1>2, <2>1, Zenon
    <2>4. y.accepting = ok
      BY <2>2
    <2> HIDE DEF ok
    <2>5. /\ y.passedOver = b.passedOver /\ y.stopped = 0 /\ y.first = 0 /\ y.leases = <<>>
          /\ y = [accepting |-> ok, cancellation |-> FALSE,
               detachInvoked |-> FALSE, passedOver |-> b.passedOver, first |-> 0, stopped |-> 0,
               leases |-> <<>>]
      BY <2>2 DEF ok
    <2>6. y \in Barriers(Requests, Nat)
      BY <1>2, <2>3, <2>5, EmptySeq DEF Barriers
    <2> HIDE DEF y
    <2>7. Idle(y) /\ DOMAIN y.leases = {}
      BY <2>5 DEF Idle
    <2>8. Served(b) = {r}
      BY <1>1, <1>3 DEF Served
    <2>9. Leased(y, s, m) /\ Served(y) = Served(b) \ {r}
      BY <2>5, <2>7, <2>8 DEF Leased, Served
    <2>10. QED
      BY <2>3, <2>4, <2>5, <2>6, <2>9 DEF y
  <1>4. CASE Len(b.leases) # 1
    <2> DEFINE t == RemoveAt(b.leases, n)
    <2>1. /\ t \in Seq(R) /\ Len(t) = Len(b.leases) - 1
          /\ \A i \in 1..Len(b.leases) - 1 : t[i] = b.leases[IF i < n THEN i ELSE i + 1]
      BY <1>1, RemoveAtFacts
    <2>2. y = [b EXCEPT !.leases = t, !.cancellation = @ \/ cancel]
      BY <1>4 DEF EndLease
    <2> HIDE DEF t
    <2>3. /\ y.leases = t /\ y.passedOver = b.passedOver /\ y.accepting = b.accepting
          /\ y.first = b.first /\ y.stopped = b.stopped
      BY <2>2 DEF Barriers
    <2> DEFINE c == b.cancellation \/ cancel
    <2>4. c \in BOOLEAN
      BY <1>2, Zenon
    <2>5. y = [b EXCEPT !.leases = t, !.cancellation = c]
      BY <2>2 DEF Barriers
    <2> HIDE DEF c
    <2>6. y \in Barriers(Requests, Nat)
      BY <2>1, <2>4, <2>5 DEF Barriers
    <2> HIDE DEF y, n
    <2>7. DOMAIN t = 1..Len(b.leases) - 1 /\ n \in Nat /\ 1 <= n /\ n <= Len(b.leases)
      BY <1>1, <2>1, LenProperties
    <2>8. ASSUME NEW i \in DOMAIN t
          PROVE  /\ (IF i < n THEN i ELSE i + 1) \in DOMAIN b.leases
                 /\ (IF i < n THEN i ELSE i + 1) # n
                 /\ t[i] = b.leases[IF i < n THEN i ELSE i + 1]
      <3>1. (IF i < n THEN i ELSE i + 1) \in DOMAIN b.leases
        BY <1>1, <2>7
      <3>2. (IF i < n THEN i ELSE i + 1) # n
        BY <1>1, <2>7
      <3>3. QED
        BY <2>1, <2>7, <3>1, <3>2
    <2>9. ASSUME NEW k \in DOMAIN b.leases, k # n
          PROVE  \E i \in DOMAIN t : t[i] = b.leases[k]
      <3>1. (IF k < n THEN k ELSE k - 1) \in DOMAIN t
        BY <1>1, <2>7, <2>9
      <3>2. t[IF k < n THEN k ELSE k - 1] = b.leases[k]
        <4>1. CASE k < n
          BY <1>1, <2>1, <2>7, <3>1, <4>1
        <4>2. CASE ~(k < n)
          <5>1. k - 1 \in 1..Len(b.leases) - 1 /\ ~(k - 1 < n) /\ (k - 1) + 1 = k
            BY <1>1, <2>7, <2>9, <4>2
          <5>2. QED
            BY <2>1, <4>2, <5>1
        <4>3. QED
          BY <4>1, <4>2
      <3>3. QED
        BY <3>1, <3>2
    <2>10. Served(y) = Served(b) \ {r}
      <3>1. \A k \in DOMAIN b.leases : b.leases[k].r = r => k = n
        BY <1>1 DEF Leased
      <3>2. ASSUME NEW i \in DOMAIN y.leases
            PROVE  y.leases[i].r \in Served(b) \ {r}
        BY <2>3, <2>8, <3>1 DEF Served
      <3>3. ASSUME NEW k \in DOMAIN b.leases, b.leases[k].r # r
            PROVE  b.leases[k].r \in Served(y)
        <4>1. k # n
          BY <1>1, <3>3
        <4>2. QED
          BY <2>3, <2>9, <4>1 DEF Served
      <3>4. QED
        BY <3>2, <3>3 DEF Served
    <2>11. Leased(y, s, m)
      <3>1. ASSUME NEW i \in DOMAIN t, NEW j \in DOMAIN t, t[i].r = t[j].r
            PROVE  i = j
        <4>1. (IF i < n THEN i ELSE i + 1) = (IF j < n THEN j ELSE j + 1)
          BY <2>8, <3>1 DEF Leased
        <4>2. QED
          BY <1>1, <2>7, <4>1
      <3>2. ASSUME NEW i \in DOMAIN t
            PROVE  t[i].sup = s.id /\ s.model = m[t[i].r]
        BY <2>8 DEF Leased
      <3>3. ~Idle(y) /\ y.first # 0
        <4>1. Len(b.leases) # 0 /\ Len(t) # 0
          BY <1>1, <1>4, <2>1
        <4>2. QED
          BY <2>1, <2>3, <4>1, BarrierFacts, EmptySeq DEF Leased, Idle
      <3>4. QED
        BY <2>3, <3>1, <3>2, <3>3 DEF Leased
    <2>12. QED
      BY <1>2, <2>3, <2>6, <2>10, <2>11 DEF y
  <1>5. QED
    BY <1>3, <1>4

\* The leases' promises are settled, and nothing else changes.
LEMMA SettleFacts ==
    ASSUME NEW b \in Barriers(Requests, Nat), NEW s, NEW m, Leased(b, s, m),
           NEW v \in {"ok", "failed"}
    PROVE  /\ ReadySettles(b, v) \in Barriers(Requests, Nat)
           /\ Leased(ReadySettles(b, v), s, m)
           /\ Served(ReadySettles(b, v)) = Served(b)
           /\ Idle(ReadySettles(b, v)) <=> Idle(b)
           /\ ReadySettles(b, v).accepting = b.accepting
           /\ ReadySettles(b, v).passedOver = b.passedOver
           /\ ReadySettles(b, v).stopped = b.stopped
  <1> DEFINE y == ReadySettles(b, v)
             R == [r : Requests, sup : Nat, ready : {"pending", "ok", "failed"}]
             t == [i \in DOMAIN b.leases |->
                     IF b.leases[i].ready = "pending" THEN [b.leases[i] EXCEPT !.ready = v]
                     ELSE b.leases[i]]
  <1>1. /\ b.leases \in Seq(R) /\ Len(b.leases) \in Nat /\ DOMAIN b.leases = 1..Len(b.leases)
        /\ \A i \in DOMAIN b.leases : b.leases[i] \in R
    BY BarrierFacts
  <1>2. y = [b EXCEPT !.leases = t]
    BY DEF ReadySettles
  <1>3. /\ DOMAIN t = DOMAIN b.leases
        /\ \A i \in DOMAIN t : t[i] \in R /\ t[i].r = b.leases[i].r /\ t[i].sup = b.leases[i].sup
    BY <1>1
  <1>4. t \in [1..Len(b.leases) -> R]
    BY <1>1
  <1>5. t \in Seq(R) /\ (t = <<>> <=> b.leases = <<>>)
    <2>1. t \in Seq(R)
      BY <1>1, <1>4, IsASeq
    <2>2. Len(t) = Len(b.leases)
      BY <1>1, <1>3, <2>1, LenProperties
    <2>3. QED
      BY <1>1, <2>1, <2>2, EmptySeq
  <1> HIDE DEF t
  <1>6. /\ y.leases = t /\ y.accepting = b.accepting /\ y.passedOver = b.passedOver
        /\ y.stopped = b.stopped /\ y.first = b.first /\ y \in Barriers(Requests, Nat)
    BY <1>2, <1>5 DEF Barriers
  <1> HIDE DEF y
  <1>7. Served(y) = Served(b)
    BY <1>3, <1>6 DEF Served
  <1>8. Leased(y, s, m)
    BY <1>3, <1>5, <1>6 DEF Leased, Idle
  <1>9. Idle(y) <=> Idle(b)
    BY <1>5, <1>6 DEF Idle
  <1>10. QED
    BY <1>6, <1>7, <1>8, <1>9 DEF y

\* Opening and closing the barrier leaves its leases.
LEMMA SameLeases ==
    ASSUME NEW b \in Barriers(Requests, Nat), NEW y, y.leases = b.leases, y.first = b.first,
           y.stopped = b.stopped
    PROVE  /\ Served(y) = Served(b) /\ Idle(y) = Idle(b)
           /\ \A s, m : Leased(b, s, m) => Leased(y, s, m)
  BY DEF Served, Idle, Leased

-----------------------------------------------------------------------------
(* Steps *)

\* The constants are as assumed.
LEMMA AssumptionFacts ==
    /\ Requests \subseteq Nat \ {0} /\ 0 \notin Requests
    /\ MaxWaiting \in Nat /\ Slots \in Nat \ {0} /\ 1 <= Slots
    /\ NoModel \notin Models
    /\ Configs \subseteq [model : Models, selected : SUBSET Models]
    /\ Initial \in Configs /\ Initial.selected # {}
    /\ MaxDisturbances \in Nat /\ MaxChecks \in Nat \ {0}
    /\ Recoveries \subseteq Nat \ {0}
  BY ReconcilerAssumption, QueueAssumption, NoModelAssumption DEF NoRequest

\* Tasks and wait marks of the steps.
LEMMA TaskFacts ==
    /\ \A kind, who : /\ Task(kind, who).kind = kind /\ Task(kind, who).who = who
                      /\ who \in Nat /\ kind \in {"dispatch", "reconcile", "evictAll", "evictIdle",
                             "idleCancel", "safeguard", "claim", "claimKill", "claimRelease"}
                            => Task(kind, who) \in Tasks
    /\ Fresh \in Waits /\ Fresh.at = "begin"
  BY AssumptionFacts DEF Task, Tasks, Fresh, Waits

\* The head of the lane, if it has one.
LEMMA HeadFacts ==
    ASSUME LaneInv, lane # <<>>
    PROVE  /\ Tail(lane) \in Seq(Tasks) /\ Apart(Tail(lane))
           /\ Head(lane) \in Tasks /\ Who \in Nat /\ Head(lane) \in ToSet(lane)
           /\ ToSet(lane) = ToSet(Tail(lane)) \union {Head(lane)}
           /\ \A t \in ToSet(Tail(lane)) : t \in Tasks /\ t \in ToSet(lane) /\ ~Alike(t, Head(lane))
  BY PopFacts DEF LaneInv, LaneTypes, Lane, Tasks, Who

\* The head of a lane that grows stays its head, and its wait goes on.
LEMMA HeadKept ==
    ASSUME LaneInv, NEW ts, Grown(lane, lane', ts), cur'.at = cur.at
    PROVE  /\ lane # <<>> => lane' # <<>> /\ Head(lane') = Head(lane)
           /\ lane' # <<>> /\ cur'.at # "begin" => lane # <<>> /\ Head(lane') = Head(lane)
           /\ lane # <<>> \/ cur.at = "begin"
  BY TaskFacts DEF LaneInv, LaneTypes, Grown

\* Everybody who waits is rejected.
LEMMA RejectedFacts ==
    ASSUME QueueInv, q' \in {RejectPending(q), Close(q)},
           req' = [r \in Requests |-> IF r \in Rejectable(q) THEN "done" ELSE req[r]],
           rejected' = rejected \union Rejectable(q)
    PROVE  /\ q'.item = q.item /\ q'.value = q.value /\ q'.active = q.active
           /\ q.closed => q'.closed
           /\ Sound(q', model, req', aborted \union rejected', Running)
           /\ req' \in [Requests -> {"none", "waiting", "held", "done"}]
           /\ rejected' \subseteq Requests
  <1> DEFINE gone == aborted \union rejected
             run == Running
             rq2 == req'
             y == q'
  <1>1. /\ q \in Queues /\ Queueing(q, model, req, gone, run)
        /\ Permits(q, model, req) /\ gone \subseteq Requests
        /\ req \in [Requests -> {"none", "waiting", "held", "done"}]
    BY DEF QueueInv, RequestTypes, Sound
  <1>2. gone \union Rejectable(q) = aborted \union rejected'
    OBVIOUS
  <1>3. run \in BOOLEAN
    BY DEF Running, HeadIs
  <1>4. \A r \in Requests : rq2[r] = IF r \in Rejectable(q) THEN "done" ELSE req[r]
    OBVIOUS
  <1>5. y \in {RejectPending(q), Close(q)}
    OBVIOUS
  <1> HIDE DEF gone, run, rq2, y
  <1>6. Sound(y, model, rq2, gone \union Rejectable(q), run)
    BY <1>1, <1>3, <1>4, <1>5, RejectFacts
  <1>7. Rejectable(q) \subseteq Requests
    <2>1. ToSet(q.pending) \subseteq Requests
      <3>1. q.pending \in Seq(Requests)
        BY <1>1 DEF Queues
      <3>2. QED
        BY <3>1 DEF ToSet
    <2>2. q.inFlight => q.item \in Requests
      BY <1>1 DEF Queueing, Queues
    <2>3. QED
      BY <2>1, <2>2 DEF Rejectable
  <1>8. y.item = q.item /\ y.value = q.value /\ y.active = q.active /\ (q.closed => y.closed)
    <2>1. CASE y = RejectPending(q)
      BY <1>1, <2>1, RejectFields
    <2>2. CASE y = Close(q)
      BY <1>1, <2>2, CloseFields
    <2>3. QED
      BY <1>5, <2>1, <2>2
  <1>9. rejected' \subseteq Requests
    BY <1>7 DEF QueueInv, RequestTypes
  <1>10. QED
    BY <1>1, <1>2, <1>6, <1>8, <1>9 DEF run, y, rq2

\* What a lane that grows by a pump keeps.
LEMMA LaneKept ==
    ASSUME LaneInv, NEW us, Grown(lane, lane', us), cur' = cur
    PROVE  /\ lane' \in Seq(Tasks) /\ Apart(lane') /\ (lane' = <<>> => cur' = Fresh)
           /\ lane # <<>> => lane' # <<>> /\ Head(lane') = Head(lane)
           /\ lane' # <<>> /\ cur.at # "begin" => lane # <<>> /\ Head(lane') = Head(lane)
           /\ lane # <<>> \/ cur.at = "begin"
  BY HeadKept, TaskFacts DEF LaneInv, LaneTypes, Grown

\* The lane grows by the tasks ts, and by a dispatch if the pump begins one.
Grows(ts) ==
    /\ lane' \in Seq(Tasks) /\ Apart(lane') /\ (lane' = <<>> => cur' = Fresh)
    /\ lane # <<>> => lane' # <<>> /\ Head(lane') = Head(lane)
    /\ lane' # <<>> /\ cur.at # "begin" => lane # <<>> /\ Head(lane') = Head(lane)
    /\ \A t \in ToSet(lane) \union ts : t \in ToSet(lane')
    /\ \A t \in ToSet(lane') :
         \/ t \in ToSet(lane) /\ (q'.item = q.item \/ t.kind # "dispatch")
         \/ t \in ts
         \/ t.kind = "dispatch" /\ t.who = q'.item /\ q'.item # NoRequest /\ q'.value = "none"

\* The lane's head is over, and the lane grows by the tasks ts.
Pops(ts) ==
    /\ lane' \in Seq(Tasks) /\ Apart(lane') /\ cur' = Fresh
    /\ \A t \in ToSet(lane) : t = Head(lane) \/ t \in ToSet(lane')
    /\ \A t \in ts : t \in ToSet(lane')
    /\ \A t \in ToSet(lane') : t \in ts \/ (t \in ToSet(lane) /\ ~Alike(t, Head(lane)))

\* What a lane that Grows keeps of the invariant,
LEMMA GrowsFacts ==
    ASSUME LaneInv, NEW ts, Grown(lane, lane', ts), cur' = cur, q'.item = q.item
    PROVE  Grows(ts)
  BY LaneKept DEF Grows, Grown

\* what one whose head is over keeps, when what it appends is new,
LEMMA PopsFacts ==
    ASSUME LaneInv, lane # <<>>, NEW ts, Grown(Tail(lane), lane', ts), cur' = Fresh
    PROVE  Pops(ts)
  BY HeadFacts DEF Pops, Grown

\* The queue becomes x, pumped, and the lane is l and what the pump adds. The
\* item of x is the queue's, unless its dispatch has returned.
LEMMA PumpingFacts ==
    ASSUME LaneInv, NEW x \in Queues, NEW m, NEW rq, NEW gone,
           Sound(x, m, rq, gone, Running), x.item = q.item \/ q.value # "none",
           NEW l, NEW ts, Grown(lane, l, ts), \A t \in ts : t.kind # "dispatch",
           q' = Pump(x, m), cur' = cur,
           lane' = IF Pumps(x, m) THEN Append(l, Task("dispatch", Head(x.pending))) ELSE l
    PROVE  /\ Sound(q', m, rq, gone, Running) /\ Grows(ts)
           /\ q'.value = x.value /\ q'.active = x.active /\ q'.closed = x.closed
           /\ q'.item = x.item \/ (x.item = NoRequest /\ q'.item # NoRequest)
  <1> DEFINE run == Running
             y == q'
             l2 == lane'
  <1>1. /\ run \in BOOLEAN /\ Queueing(x, m, rq, gone, run) /\ Permits(x, m, rq)
        /\ y = Pump(x, m)
        /\ l2 = IF Pumps(x, m) THEN Append(l, Task("dispatch", Head(x.pending))) ELSE l
    BY DEF Running, HeadIs, Sound
  <1>2. l \in Seq(Tasks) /\ Apart(l) /\ ToSet(l) = ToSet(lane) \union ts
    BY DEF Grown
  <1>3. q.item = NoRequest \/ q.value # "none" => ~run /\ \A t \in ToSet(lane) : t.kind # "dispatch"
    BY HeadFacts DEF LaneInv, Lane, Running, HeadIs
  <1>4. x.item = NoRequest => ~run /\ \A t \in ToSet(l) : t.kind # "dispatch"
    BY <1>2, <1>3
  <1> HIDE DEF run, y, l2
  <1>5. /\ Sound(y, m, rq, gone, run)
        /\ y.value = x.value /\ y.active = x.active /\ y.closed = x.closed
        /\ ~Pumps(x, m) => y = x
        /\ Pumps(x, m) => /\ x.item = NoRequest /\ x.value = "none" /\ y.item = Head(x.pending)
                          /\ y.item \in Requests
    <2>1. x.item = NoRequest => ~run
      BY <1>4
    <2>2. QED
      <3>1. Sound(Pump(x, m), m, rq, gone, run)
        BY <1>1, <2>1, PumpedFacts
      <3>2. QED
        BY <1>1, <2>1, <3>1, PumpedFacts
  <1>6. CASE ~Pumps(x, m)
    <2>1. y = x /\ l2 = l
      BY <1>1, <1>5, <1>6
    <2>2. Grown(lane, lane', ts)
      BY <2>1 DEF l2
    <2>3. Grows(ts)
      <3>1. \A t \in ToSet(lane) : q'.item = q.item \/ t.kind # "dispatch"
        BY <1>3, <2>1 DEF y
      <3>2. QED
        BY <2>2, <3>1, LaneKept DEF Grows, Grown
    <2>4. QED
      BY <1>5, <2>1, <2>3 DEF y, run
  <1>7. CASE Pumps(x, m)
    <2> DEFINE t == Task("dispatch", y.item)
    <2>0. x.item = NoRequest /\ y.item # NoRequest /\ y.value = "none" /\ y.item \in Nat
      BY <1>5, <1>7, AssumptionFacts DEF NoRequest
    <2>1. t.kind = "dispatch" /\ t.who = y.item /\ t \in Tasks /\ l2 = Append(l, t)
      BY <1>1, <1>5, <1>7, <2>0, TaskFacts
    <2> HIDE DEF t
    <2>2. \A s \in ToSet(l) : ~Alike(s, t)
      BY <1>4, <2>0, <2>1 DEF Alike
    <2>3. Grown(l, l2, {t})
      BY <1>2, <2>1, <2>2, PushFacts
    <2>4. Grown(lane, l2, ts \union {t}) /\ ToSet(l2) = (ToSet(lane) \union ts) \union {t}
      BY <1>2, <2>3, GrownFacts DEF Grown
    <2>5. Grown(lane, lane', ts \union {t}) /\ ToSet(lane') = (ToSet(lane) \union ts) \union {t}
      BY <2>4 DEF l2
    <2>6. q'.item = t.who /\ q'.item # NoRequest /\ q'.value = "none" /\ t.kind = "dispatch"
      BY <2>0, <2>1 DEF y
    <2>7. \A s \in ToSet(lane) : s.kind # "dispatch"
      BY <1>2, <1>4, <2>0
    <2>8. Grows(ts)
      BY <2>5, <2>6, <2>7, LaneKept DEF Grows
    <2>9. QED
      BY <1>5, <2>0, <2>8 DEF y, run
  <1>8. QED
    BY <1>6, <1>7

\* A waiting request is withdrawn.
LEMMA WithdrawnFacts ==
    ASSUME LaneInv, QueueInv, NEW r \in Requests, req[r] = "waiting", cur' = cur,
           Pumped(Withdraw(q, r), lane), req' = [req EXCEPT ![r] = "done"],
           rejected' = rejected \union {r}, aborted' \in {aborted, aborted \union {r}}
    PROVE  /\ q'.value = q.value /\ q'.active = q.active /\ q'.closed = q.closed
           /\ Sound(q', model, req', aborted' \union rejected', Running)
           /\ req' \in [Requests -> {"none", "waiting", "held", "done"}]
           /\ q'.item = q.item \/ (q.item = NoRequest /\ q'.item # NoRequest)
           /\ Grows({})
  <1> DEFINE gone == aborted \union rejected
             run == Running
             rq2 == req'
             x == Withdraw(q, r)
             gone2 == aborted' \union rejected'
  <1>1. /\ q \in Queues /\ Queueing(q, model, req, gone, run) /\ Permits(q, model, req)
        /\ req \in [Requests -> {"none", "waiting", "held", "done"}]
    BY DEF QueueInv, RequestTypes, Sound
  <1>10. run \in BOOLEAN
    BY DEF Running, HeadIs
  <1>11. rq2 = [req EXCEPT ![r] = "done"]
    OBVIOUS
  <1>2. gone \subseteq gone2 /\ r \in gone2 /\ \A z \in gone2 : z \in gone \/ z = r
    OBVIOUS
  <1> HIDE DEF gone, run, rq2, gone2
  <1>3. Sound(x, model, rq2, gone2, run)
    <2>1. Sound(x, model, [req EXCEPT ![r] = "done"], gone2, run)
      BY <1>1, <1>2, <1>10, WithdrawFacts
    <2>2. QED
      BY <1>11, <2>1
  <1>4. /\ x.item = q.item /\ x.value = q.value /\ x.active = q.active /\ x.closed = q.closed
        /\ Sound(x, model, rq2, gone2, Running) /\ x \in Queues
    <2>1. x.item = q.item /\ x.value = q.value /\ x.active = q.active /\ x.closed = q.closed
      BY <1>1, WithdrawFields
    <2>2. Sound(x, model, rq2, gone2, Running)
      BY <1>3 DEF run
    <2>3. x \in Queues
      BY <1>3 DEF Sound
    <2>4. QED
      BY <2>1, <2>2, <2>3
  <1>5. /\ q' = Pump(x, model)
        /\ lane' = IF Pumps(x, model) THEN Append(lane, Task("dispatch", Head(x.pending))) ELSE lane
    BY DEF Pumped
  <1>6. Grown(lane, lane, {})
    BY GrownFacts DEF LaneInv, LaneTypes, Lane
  <1> HIDE DEF x
  <1>7. /\ Sound(q', model, rq2, gone2, Running) /\ Grows({})
        /\ q'.value = x.value /\ q'.active = x.active /\ q'.closed = x.closed
        /\ q'.item = x.item \/ (x.item = NoRequest /\ q'.item # NoRequest)
    BY <1>4, <1>5, <1>6, PumpingFacts
  <1>8. req' \in [Requests -> {"none", "waiting", "held", "done"}]
    BY <1>1
  <1>9. QED
    BY <1>4, <1>7, <1>8 DEF rq2, gone2

\* What a lease that ends leaves: of the barrier, closed only with a stop in the
\* lane or a drain under way, of the lane and of the timer.
Ended(r, ts) ==
    /\ bar' \in Barriers(Requests, Nat) /\ Leased(bar', sup, model)
    /\ Served(bar') = Served(bar) \ {r} /\ ~Idle(bar)
    /\ bar'.passedOver = bar.passedOver /\ (bar'.accepting => bar.accepting)
    /\ bar'.stopped \in {0, bar.stopped}
    /\ bar.accepting /\ ~bar'.accepting => bar.stopped # 0 \/ ts # {}
    /\ \A t \in ts : t.kind = "idleCancel" /\ t.who = sup.id
    /\ safeguard' \in [sup : Nat, check : 0..MaxChecks]

\* and what a dispatch that has ended leaves.
LEMMA EndedFacts ==
    ASSUME ConfigTypes, LaneInv, BarrierInv, TimerTypes, NEW r \in Served(bar),
           NEW cancel \in BOOLEAN, End(r, cancel)
    PROVE  \E ts : Ended(r, ts) /\ Grown(lane, LaneAfter(r, cancel), ts)
  <1> USE AssumptionFacts
  <1> DEFINE kills == cancel /\ ~Preserves(r)
             stops == QueuesStop(bar, r, kills)
             t == Task("idleCancel", sup.id)
             ts == IF stops THEN {t} ELSE {}
  <1>1. kills \in BOOLEAN
    BY Zenon
  <1>2. /\ bar' = EndLease(bar, r, kills)
        /\ LaneAfter(r, cancel) = IF stops THEN Append(lane, Task("idleCancel", Lease(bar, r).sup))
                                  ELSE lane
    BY Zenon DEF End, LaneAfter
  <1>3. safeguard' \in [sup : Nat, check : 0..MaxChecks]
    <2>1. [sup |-> sup.id, check |-> 1] \in [sup : Nat, check : 0..MaxChecks]
      BY DEF ConfigTypes
    <2>2. safeguard' \in {[sup |-> sup.id, check |-> 1], safeguard}
      BY Zenon DEF End
    <2>3. QED
      BY <2>1, <2>2 DEF TimerTypes
  <1> HIDE DEF kills
  <1>4. /\ bar \in Barriers(Requests, Nat) /\ Leased(bar, sup, model)
    BY DEF BarrierInv, BarrierTypes, Leases
  <1>5. ~Idle(bar) /\ bar.first # 0 /\ Lease(bar, r).sup = sup.id /\ sup.id \in Nat
    <2>1. ~Idle(bar) /\ Lease(bar, r).sup = sup.id
      BY <1>4, LeaseFacts
    <2>2. bar.first # 0
      BY <1>4, <2>1 DEF Leased
    <2>3. QED
      BY <2>1, <2>2 DEF ConfigTypes
  <1>6. /\ EndLease(bar, r, kills) \in Barriers(Requests, Nat)
        /\ Leased(EndLease(bar, r, kills), sup, model)
        /\ Served(EndLease(bar, r, kills)) = Served(bar) \ {r}
        /\ EndLease(bar, r, kills).passedOver = bar.passedOver
        /\ EndLease(bar, r, kills).accepting => bar.accepting
        /\ bar.accepting /\ ~EndLease(bar, r, kills).accepting => IdleCancelled(bar, r, kills)
        /\ EndLease(bar, r, kills).stopped \in {0, bar.stopped}
    BY <1>1, <1>4, EndLeaseFacts
  <1>7. IdleCancelled(bar, r, kills) => stops \/ bar.stopped # 0
    BY <1>5 DEF QueuesStop
  <1>8. t \in Tasks /\ t.kind = "idleCancel" /\ t.who = sup.id
    BY <1>5, TaskFacts
  <1>9. LaneAfter(r, cancel) = IF stops THEN Append(lane, t) ELSE lane
    BY <1>2, <1>5
  <1> HIDE DEF t, stops
  <1>10. Ended(r, ts)
    BY <1>2, <1>3, <1>5, <1>6, <1>7, <1>8 DEF Ended
  <1>11. Grown(lane, LaneAfter(r, cancel), ts)
    <2>1. lane \in Seq(Tasks) /\ Apart(lane)
      BY DEF LaneInv, LaneTypes, Lane
    <2>2. \A s \in ToSet(lane) : ~Alike(s, t)
      BY <1>8 DEF Alike
    <2>3. CASE stops
      BY <1>8, <1>9, <2>1, <2>2, <2>3, PushFacts
    <2>4. CASE ~stops
      BY <1>9, <2>1, <2>4, GrownFacts
    <2>5. QED
      BY <2>3, <2>4
  <1>12. QED
    BY <1>10, <1>11

\* A held request's lease and permit are given back.
LEMMA SettledFacts ==
    ASSUME ConfigTypes, LaneInv, QueueInv, BarrierInv, TimerTypes, NEW r \in Requests,
           req[r] = "held", NEW cancel \in BOOLEAN, Settle(r, cancel), cur' = cur,
           rejected' = rejected, aborted' \in {aborted, aborted \union {r}}
    PROVE  \E ts :
            /\ Ended(r, ts) /\ Grows(ts)
            /\ Sound(q', model, req', aborted' \union rejected', Running)
            /\ q'.value = q.value /\ q'.active = q.active \ {r} /\ q'.closed = q.closed
            /\ req' \in [Requests -> {"none", "waiting", "held", "done"}]
            /\ q'.item = q.item \/ (q.item = NoRequest /\ q'.item # NoRequest)
            /\ r # q.item
  <1> DEFINE gone == aborted \union rejected
             gone2 == aborted' \union rejected'
             run == Running
             rq2 == req'
             x == ReleasePermit(q, r)
  <1>1. /\ q \in Queues /\ Queueing(q, model, req, gone, run) /\ Permits(q, model, req)
        /\ req \in [Requests -> {"none", "waiting", "held", "done"}] /\ gone \subseteq Requests
    BY DEF QueueInv, RequestTypes, Sound
  <1>2. run \in BOOLEAN
    BY DEF Running, HeadIs
  <1>3. gone \subseteq gone2 /\ \A z \in gone2 : z \in gone \/ z = r
    OBVIOUS
  <1>4. rq2 = [req EXCEPT ![r] = "done"]
    BY DEF Settle
  <1> HIDE DEF gone, gone2, run, rq2
  <1>5. r \in q.active /\ r # q.item
    <2>1. r \in q.active
      BY <1>1 DEF Permits
    <2>2. q.item # NoRequest => q.item \notin q.active
      BY <1>1, <1>2, ItemFacts
    <2>3. QED
      BY <2>1, <2>2, AssumptionFacts DEF NoRequest
  <1>6. r \in Served(bar)
    BY <1>5 DEF BarrierInv, Leases
  <1>7. PICK ts : Ended(r, ts) /\ Grown(lane, LaneAfter(r, cancel), ts)
    BY <1>6, EndedFacts DEF Settle
  <1>8. Sound(x, model, rq2, gone2, Running)
    <2>1. Sound(x, model, [req EXCEPT ![r] = "done"], gone2, run)
      BY <1>1, <1>2, <1>3, ReleaseFacts
    <2>2. QED
      BY <1>4, <2>1 DEF run
  <1>9. x.item = q.item /\ x.value = q.value /\ x.active = q.active \ {r} /\ x.closed = q.closed
    BY <1>1, ReleaseFields
  <1>10. x \in Queues
    BY <1>8 DEF Sound
  <1> HIDE DEF x
  <1>11. \A t \in ts : t.kind # "dispatch"
    BY <1>7 DEF Ended
  <1> DEFINE l == LaneAfter(r, cancel)
  <1>12. /\ q' = Pump(x, model)
         /\ lane' = IF Pumps(x, model) THEN Append(l, Task("dispatch", Head(x.pending))) ELSE l
    BY DEF Settle, Pumped, x
  <1>13. Grown(lane, l, ts)
    BY <1>7
  <1> HIDE DEF l
  <1>14. /\ Sound(q', model, rq2, gone2, Running) /\ Grows(ts)
         /\ q'.value = x.value /\ q'.active = x.active /\ q'.closed = x.closed
         /\ q'.item = x.item \/ (x.item = NoRequest /\ q'.item # NoRequest)
    BY <1>8, <1>9, <1>10, <1>11, <1>12, <1>13, PumpingFacts
  <1>15. req' \in [Requests -> {"none", "waiting", "held", "done"}]
    BY <1>1, <1>4 DEF rq2
  <1>16. Sound(q', model, req', aborted' \union rejected', Running)
    BY <1>14 DEF rq2, gone2
  <1>17. QED
    BY <1>5, <1>7, <1>9, <1>14, <1>15, <1>16

\* A snapshot that is saved anew: every revision there is, is behind it.
LEMMA RefreshedFacts ==
    ASSUME ConfigTypes, NEW c \in [model : Models, selected : SUBSET Models]
    PROVE  /\ Refreshed(c) \in Snapshots /\ snapshot.rev <= Refreshed(c).rev
           /\ Refreshed(c).model = c.model /\ Refreshed(c).selected = c.selected
           /\ Refreshed(c).rev = snapshot.rev => Refreshed(c) = snapshot
           /\ \A x : x.rev \in Nat /\ Current(x, snapshot) => Current(x, Refreshed(c))
  <1> DEFINE y == Refreshed(c)
             n == snapshot.rev + (IF c = [model |-> snapshot.model, selected |-> snapshot.selected]
                                  THEN 0 ELSE 1)
  <1>1. /\ snapshot \in Snapshots /\ snapshot.rev \in Nat
        /\ snapshot =
             [rev |-> snapshot.rev, model |-> snapshot.model, selected |-> snapshot.selected]
    BY DEF ConfigTypes, Snapshots
  <1>2. /\ n \in Nat /\ snapshot.rev <= n
        /\ n = snapshot.rev => c = [model |-> snapshot.model, selected |-> snapshot.selected]
    BY <1>1
  <1>3. y = [rev |-> n, model |-> c.model, selected |-> c.selected]
    BY DEF Refreshed
  <1> HIDE DEF n, y
  <1>4. y.rev = n /\ y.model = c.model /\ y.selected = c.selected /\ y \in Snapshots
    BY <1>2, <1>3 DEF Snapshots
  <1>5. y.rev = snapshot.rev => y = snapshot
    <2>1. ASSUME y.rev = snapshot.rev
          PROVE  c.model = snapshot.model /\ c.selected = snapshot.selected
      BY <1>2, <1>4, <2>1
    <2>2. QED
      BY <1>1, <1>3, <1>4, <2>1
  <1>6. \A x : x.rev \in Nat /\ Current(x, snapshot) => Current(x, y)
    BY <1>1, <1>2, <1>4, <1>5 DEF Current
  <1>7. QED
    BY <1>2, <1>4, <1>5, <1>6 DEF y

\* The saved configuration becomes the snapshot, and is scheduled once.
LEMMA CoordinateFacts ==
    ASSUME ConfigTypes, LaneInv, Coordinate
    PROVE  /\ snapshot' \in Snapshots /\ snapshot.rev <= snapshot'.rev
           /\ snapshot'.rev = snapshot.rev => snapshot' = snapshot
           /\ \A x : x.rev \in Nat /\ Current(x, snapshot) => Current(x, snapshot')
           /\ \E ts : /\ Grown(lane, lane \o Reconciling(snapshot'), ts)
                      /\ \A t \in ts : t.kind = "reconcile"
                      /\ scheduled' \in BOOLEAN /\ (scheduled' <=> scheduled \/ ts # {})
  <1>1. disk \in [model : Models, selected : SUBSET Models] /\ snapshot' = Refreshed(disk)
    BY DEF ConfigTypes, Coordinate
  <1>2. lane \in Seq(Tasks) /\ Apart(lane) /\ Grown(lane, lane, {})
    BY GrownFacts DEF LaneInv, LaneTypes, Lane
  <1> DEFINE t == Task("reconcile", 0)
             new == ~scheduled /\ applied.rev # snapshot'.rev
  <1>3. t \in Tasks /\ t.kind = "reconcile"
    BY TaskFacts
  <1>4. scheduled \in BOOLEAN /\ (scheduled <=> \E s \in ToSet(lane) : s.kind = "reconcile")
    BY DEF LaneInv, LaneTypes
  <1>5. scheduled' \in BOOLEAN /\ (scheduled' <=> scheduled \/ new)
    <2>1. scheduled' = (scheduled \/ applied.rev # snapshot'.rev)
      BY DEF Coordinate
    <2>2. QED
      BY <1>4, <2>1, Zenon
  <1>6. CASE ~new
    <2>1. Reconciling(snapshot') = <<>>
      BY <1>6 DEF Reconciling
    <2>2. lane \o Reconciling(snapshot') = lane
      BY <1>2, <2>1
    <2>3. QED
      BY <1>1, <1>2, <1>5, <1>6, <2>2, RefreshedFacts
  <1>7. CASE new
    <2>1. Reconciling(snapshot') = <<t>>
      BY <1>7 DEF Reconciling
    <2>2. lane \o Reconciling(snapshot') = Append(lane, t)
      BY <1>2, <1>3, <2>1
    <2>3. \A s \in ToSet(lane) : ~Alike(s, t)
      BY <1>3, <1>4, <1>7 DEF Alike
    <2>4. Grown(lane, Append(lane, t), {t})
      BY <1>2, <1>3, <2>3, PushFacts
    <2> HIDE DEF t, new
    <2>5. QED
      BY <1>1, <1>3, <1>5, <1>7, <2>2, <2>4, RefreshedFacts
  <1>8. QED
    BY <1>6, <1>7

\* Where nothing is done to the queue, there is nothing to pump.
LEMMA ResolvedFacts ==
    ASSUME LaneInv, QueueInv, NEW a, NEW s \in 1..Slots
    PROVE  /\ Sound(ResolveSlots(q, a, s), model, req, aborted \union rejected, Running)
           /\ ResolveSlots(q, a, s).item = q.item /\ ResolveSlots(q, a, s).value = q.value
           /\ ResolveSlots(q, a, s).active = q.active /\ ResolveSlots(q, a, s).closed = q.closed
  <1> DEFINE gone == aborted \union rejected
             run == Running
             y == ResolveSlots(q, a, s)
  <1>1. q \in Queues /\ Queueing(q, model, req, gone, run) /\ Permits(q, model, req)
    BY DEF QueueInv, Sound
  <1>2. /\ y.pending = q.pending /\ y.item = q.item /\ y.inFlight = q.inFlight
        /\ y.value = q.value /\ y.active = q.active /\ y.activeModel = q.activeModel
        /\ y.closed = q.closed /\ y \in Queues
    BY <1>1 DEF ResolveSlots, Queues
  <1> HIDE DEF gone, run, y
  <1>3. Queueing(y, model, req, gone, run) /\ Permits(y, model, req)
    BY <1>1, <1>2, SameQueue
  <1>4. Sound(y, model, req, gone, run)
    BY <1>2, <1>3 DEF Sound
  <1>5. QED
    BY <1>2, <1>4 DEF gone, run, y

\* A request arrives: it waits and may be pumped, or is refused.
LEMMA ArrivedFacts ==
    ASSUME ConfigTypes, LaneInv, QueueInv, NEW r \in Requests, NEW a \in Models, Arrive(r, a)
    PROVE  \E ts :
            /\ Grows(ts) /\ \A t \in ts : t.kind = "reconcile"
            /\ scheduled' \in BOOLEAN /\ (scheduled' <=> scheduled \/ ts # {})
            /\ Sound(q', model', req', aborted \union rejected, Running)
            /\ q'.value = q.value /\ q'.active = q.active /\ q'.closed = q.closed
            /\ req' \in [Requests -> {"none", "waiting", "held", "done"}]
            /\ model' \in [Requests -> Models \union {NoModel}]
            /\ q'.item = q.item \/ (q.item = NoRequest /\ q'.item # NoRequest)
  <1> DEFINE gone == aborted \union rejected
             run == Running
             x == Enqueue(q, r)
             l == lane \o Reconciling(snapshot')
             rq2 == req'
             m2 == model'
  <1>1. /\ q \in Queues /\ Queueing(q, model, req, gone, run) /\ Permits(q, model, req)
        /\ run \in BOOLEAN /\ req \in [Requests -> {"none", "waiting", "held", "done"}]
        /\ model \in [Requests -> Models \union {NoModel}] /\ gone \subseteq Requests
    BY DEF QueueInv, RequestTypes, Sound, Running, HeadIs
  <1>2. req[r] = "none" /\ m2 = [model EXCEPT ![r] = a] /\ cur' = cur
    BY DEF Arrive
  <1>3. PICK ts : /\ Grown(lane, l, ts) /\ \A t \in ts : t.kind = "reconcile"
                  /\ scheduled' \in BOOLEAN /\ (scheduled' <=> scheduled \/ ts # {})
    BY CoordinateFacts DEF Arrive
  <1>4. /\ req' \in [Requests -> {"none", "waiting", "held", "done"}]
        /\ model' \in [Requests -> Models \union {NoModel}]
    BY <1>1, <1>2 DEF Arrive
  <1>5. CASE Accepts(q)
    <2>1. /\ rq2 = [req EXCEPT ![r] = "waiting"] /\ q' = Pump(x, m2)
          /\ lane' = IF Pumps(x, m2) THEN Append(l, Task("dispatch", Head(x.pending))) ELSE l
      BY <1>5 DEF Arrive
    <2> HIDE DEF gone, run, l, rq2, m2
    <2>2. Sound(x, m2, rq2, gone, run)
      BY <1>1, <1>2, <2>1, EnqueueFacts
    <2>3. x.item = q.item /\ x.value = q.value /\ x.active = q.active /\ x.closed = q.closed
      BY <1>1, EnqueueFields
    <2>4. x \in Queues /\ Sound(x, m2, rq2, gone, Running)
      BY <2>2 DEF Sound, run
    <2>5. \A t \in ts : t.kind # "dispatch"
      BY <1>3
    <2> HIDE DEF x
    <2>6. /\ Sound(q', m2, rq2, gone, Running) /\ Grows(ts)
          /\ q'.value = x.value /\ q'.active = x.active /\ q'.closed = x.closed
          /\ q'.item = x.item \/ (x.item = NoRequest /\ q'.item # NoRequest)
      BY <1>2, <1>3, <2>1, <2>3, <2>4, <2>5, PumpingFacts
    <2>7. QED
      BY <1>3, <1>4, <2>3, <2>6 DEF gone, rq2, m2
  <1>6. CASE ~Accepts(q)
    <2>1. rq2 = [req EXCEPT ![r] = "done"] /\ q' = q /\ lane' = l
      BY <1>6 DEF Arrive
    <2> HIDE DEF gone, run, l, rq2, m2
    <2>2. Sound(q, m2, rq2, gone, run)
      <3>1. Sound(q, [model EXCEPT ![r] = a], [req EXCEPT ![r] = "done"], gone, run)
        BY <1>1, <1>2, RefuseFacts
      <3>2. QED
        BY <1>2, <2>1, <3>1
    <2>3. Grows(ts)
      BY <1>2, <1>3, <2>1, GrowsFacts
    <2>4. QED
      BY <1>3, <1>4, <2>1, <2>2, <2>3 DEF gone, run, rq2, m2
  <1>7. QED
    BY <1>5, <1>6

\* The head of the lane is over,
LEMMA OverFacts ==
    ASSUME LaneInv, lane # <<>>, Over
    PROVE  Pops({})
  <1>1. Tail(lane) \in Seq(Tasks) /\ Apart(Tail(lane))
    BY HeadFacts
  <1>2. Grown(Tail(lane), Tail(lane), {})
    BY <1>1, GrownFacts
  <1>3. QED
    BY <1>2, PopsFacts DEF Over

\* or goes on to its next wait.
LEMMA GotoFacts ==
    ASSUME LaneInv, lane # <<>>, NEW at, Goto(at),
           at \in {"begin", "preflight", "drain", "update", "stop", "settle", "slots", "kill"}
    PROVE  /\ lane' = lane /\ cur' \in Waits /\ cur'.at = at /\ cur'.target = cur.target
           /\ cur'.stop = cur.stop
  BY DEF Goto, LaneInv, LaneTypes, Waits

\* The barrier, when the backend's start is over, closed or not,
LEMMA KillFacts ==
    ASSUME BarrierInv, NEW b \in {bar, Detach(bar)}, bar' = ReadySettles(b, "failed")
    PROVE  /\ bar' \in Barriers(Requests, Nat) /\ Leased(bar', sup, model)
           /\ Served(bar') = Served(bar) /\ (Idle(bar') <=> Idle(bar))
           /\ bar'.stopped = bar.stopped /\ bar'.passedOver = bar.passedOver
           /\ (bar'.accepting => bar.accepting) /\ (b = Detach(bar) => ~bar'.accepting)
           /\ (b = bar => bar'.accepting = bar.accepting)
  <1>1. bar \in Barriers(Requests, Nat) /\ Leased(bar, sup, model)
    BY DEF BarrierInv, BarrierTypes, Leases
  <1>2. /\ b \in Barriers(Requests, Nat) /\ b.leases = bar.leases /\ b.first = bar.first
        /\ b.stopped = bar.stopped /\ b.passedOver = bar.passedOver
        /\ (b.accepting => bar.accepting) /\ (b = Detach(bar) => ~b.accepting)
    BY <1>1 DEF Detach, Barriers
  <1>3. Leased(b, sup, model) /\ Served(b) = Served(bar) /\ (Idle(b) <=> Idle(bar))
    BY <1>1, <1>2, SameLeases
  <1>4. QED
    BY <1>2, <1>3, SettleFacts

\* once it is attached,
LEMMA AttachedFacts ==
    ASSUME BarrierInv, NEW c, bar' = IF On(c) THEN Attach(bar) ELSE PassOver(bar)
    PROVE  /\ bar' \in Barriers(Requests, Nat) /\ Leased(bar', sup, model)
           /\ Served(bar') = Served(bar) /\ (Idle(bar') <=> Idle(bar))
           /\ bar'.stopped = bar.stopped /\ (bar'.accepting \/ bar'.passedOver)
  <1>1. bar \in Barriers(Requests, Nat) /\ Leased(bar, sup, model)
    BY DEF BarrierInv, BarrierTypes, Leases
  <1>2. /\ bar' \in Barriers(Requests, Nat) /\ bar'.leases = bar.leases /\ bar'.first = bar.first
        /\ bar'.stopped = bar.stopped /\ (bar'.accepting \/ bar'.passedOver)
    BY <1>1 DEF Attach, PassOver, Barriers
  <1>3. QED
    BY <1>1, <1>2, SameLeases

\* closed,
LEMMA DetachedFacts ==
    ASSUME BarrierInv, bar' = Detach(bar)
    PROVE  /\ bar' \in Barriers(Requests, Nat) /\ Leased(bar', sup, model)
           /\ Served(bar') = Served(bar) /\ (Idle(bar') <=> Idle(bar))
           /\ bar'.stopped = bar.stopped /\ bar'.passedOver = bar.passedOver /\ ~bar'.accepting
  <1>1. bar \in Barriers(Requests, Nat) /\ Leased(bar, sup, model)
    BY DEF BarrierInv, BarrierTypes, Leases
  <1>2. /\ bar' \in Barriers(Requests, Nat) /\ bar'.leases = bar.leases /\ bar'.first = bar.first
        /\ bar'.stopped = bar.stopped /\ bar'.passedOver = bar.passedOver /\ ~bar'.accepting
    BY <1>1 DEF Detach, Barriers
  <1>3. QED
    BY <1>1, <1>2, SameLeases

\* or drained, which may stop a start.
LEMMA DrainFacts ==
    ASSUME ConfigTypes, BarrierInv, Drain, 0 \notin Requests
    PROVE  /\ bar' \in Barriers(Requests, Nat) /\ Leased(bar', sup, model)
           /\ Served(bar') = Served(bar) /\ (Idle(bar') <=> Idle(bar))
           /\ bar'.passedOver = bar.passedOver /\ ~bar'.accepting
           /\ sup' = sup /\ made' = made /\ life' \in {life, "idle"}
  <1>1. bar \in Barriers(Requests, Nat) /\ Leased(bar, sup, model)
    BY DEF BarrierInv, BarrierTypes, Leases
  <1>2. CASE DetachTargets(bar) = {}
    BY <1>2, DetachedFacts DEF Drain
  <1>3. CASE DetachTargets(bar) # {}
    <2>1. PICK i \in DetachTargets(bar) :
            LET stops == bar.leases[i].ready = "pending" /\ life = "starting"
                b == [Detach(bar) EXCEPT !.detachInvoked = TRUE,
                                         !.stopped = IF stops THEN bar.leases[i].r ELSE @]
            IN  /\ bar' = (IF stops THEN ReadySettles(b, "failed") ELSE b)
                /\ life' = (IF stops THEN "idle" ELSE life)
                /\ UNCHANGED <<sup, made>>
      BY <1>3 DEF Drain
    <2> DEFINE stops == bar.leases[i].ready = "pending" /\ life = "starting"
               n == IF stops THEN bar.leases[i].r ELSE bar.stopped
               b == [Detach(bar) EXCEPT !.detachInvoked = TRUE, !.stopped = n]
    <2>2. /\ i \in DOMAIN bar.leases /\ bar.leases[i].r \in Requests /\ ~Idle(bar)
          /\ bar.stopped \in Requests \union {0}
      <3>1. i \in DOMAIN bar.leases
        BY <2>1 DEF DetachTargets
      <3>2. bar.leases[i].r \in Served(bar)
        BY <3>1 DEF Served
      <3>3. QED
        BY <1>1, <3>1, <3>2, BarrierFacts DEF Barriers
    <2>3. n \in Requests \union {0}
      BY <2>2
    <2>4. /\ bar' = (IF stops THEN ReadySettles(b, "failed") ELSE b)
          /\ life' = (IF stops THEN "idle" ELSE life) /\ sup' = sup /\ made' = made
      <3>1. [Detach(bar) EXCEPT !.detachInvoked = TRUE,
              !.stopped = IF stops THEN bar.leases[i].r ELSE @]
               = [Detach(bar) EXCEPT !.detachInvoked = TRUE, !.stopped = n]
        BY <1>1 DEF Detach, Barriers
      <3>2. QED
        BY <2>1, <3>1
    <2> HIDE DEF stops, n
    <2>5. /\ b \in Barriers(Requests, Nat) /\ b.leases = bar.leases /\ b.first = bar.first
          /\ b.passedOver = bar.passedOver /\ ~b.accepting
      BY <1>1, <2>3 DEF Detach, Barriers
    <2> HIDE DEF b
    <2>6. Leased(b, sup, model) /\ Served(b) = Served(bar) /\ (Idle(b) <=> Idle(bar))
      BY <1>1, <2>2, <2>5 DEF Leased, Served, Idle
    <2>7. CASE stops
      <3>1. bar' = ReadySettles(b, "failed") /\ life' = "idle"
        BY <2>4, <2>7
      <3>2. QED
        BY <2>4, <2>5, <2>6, <3>1, SettleFacts
    <2>8. CASE ~stops
      <3>1. bar' = b /\ life' = life
        BY <2>4, <2>8
      <3>2. QED
        BY <2>4, <2>5, <2>6, <3>1
    <2>9. QED
      BY <2>7, <2>8
  <1>4. QED
    BY <1>2, <1>3

\* No supervisor serves anybody, and whatever one does suits an idle barrier.
LEMMA NobodyFacts ==
    ASSUME QueueInv, BarrierInv
    PROVE  /\ sup = NoSup => Idle(bar)
           /\ \A b, s : b.leases = bar.leases /\ b.first = bar.first /\ b.stopped = bar.stopped
                          /\ Idle(bar) => Idle(b) /\ Leased(b, s, model)
           /\ Idle(bar) => bar.stopped = 0 /\ q.active = {} /\ q.value # "admitted"
  <1>1. /\ bar \in Barriers(Requests, Nat) /\ Leased(bar, sup, model)
        /\ Served(bar) = q.active \union (IF q.value = "admitted" THEN {q.item} ELSE {})
    BY DEF BarrierInv, BarrierTypes, Leases
  <1>2. Idle(bar) <=> Served(bar) = {}
    BY <1>1, BarrierFacts
  <1>3. \A r \in Served(bar) : model[r] \in Models
    BY <1>1 DEF QueueInv, Sound, Queueing, Permits, Queues
  <1>4. \A r \in Served(bar) : sup.model = model[r]
    BY <1>1 DEF Served, Leased
  <1>5. sup = NoSup => Idle(bar)
    BY <1>2, <1>3, <1>4, NoModelAssumption DEF NoSup
  <1>6. ASSUME NEW b, NEW s, b.leases = bar.leases, b.first = bar.first, b.stopped = bar.stopped,
               Idle(bar)
        PROVE  Idle(b) /\ Leased(b, s, model)
    <2>1. b.leases = <<>> /\ b.first = 0 /\ b.stopped = 0
      BY <1>1, <1>6 DEF Leased, Idle
    <2>2. DOMAIN <<>> = {}
      OBVIOUS
    <2>3. QED
      BY <2>1, <2>2 DEF Leased, Idle
  <1>7. Idle(bar) => bar.stopped = 0 /\ q.active = {} /\ q.value # "admitted"
    BY <1>1, <1>2 DEF Leased
  <1>8. QED
    BY <1>5, <1>6, <1>7

\* A supervisor is added where there was none, and the barrier attached.
LEMMA AddFacts ==
    ASSUME ConfigTypes, QueueInv, BarrierInv, sup = NoSup, NEW c, Add(c), c.model \in Models,
           NEW d, bar' = IF On(d) THEN Attach(bar) ELSE PassOver(bar)
    PROVE  /\ bar' \in Barriers(Requests, Nat) /\ Leased(bar', sup', model)
           /\ Served(bar') = Served(bar) /\ Idle(bar') /\ Idle(bar)
           /\ bar'.stopped = 0 /\ (bar'.accepting \/ bar'.passedOver)
           /\ sup' \in [id : Nat, model : Models \union {NoModel}] /\ made' \in Nat
           /\ sup' # NoSup /\ sup'.model = c.model /\ life' = "idle"
           /\ sup'.id = made + 1
  <1>1. bar \in Barriers(Requests, Nat) /\ Idle(bar) /\ bar.stopped = 0
    BY NobodyFacts DEF BarrierInv, BarrierTypes
  <1>2. /\ bar' \in Barriers(Requests, Nat) /\ bar'.leases = bar.leases /\ bar'.first = bar.first
        /\ bar'.stopped = bar.stopped /\ (bar'.accepting \/ bar'.passedOver)
    BY <1>1 DEF Attach, PassOver, Barriers
  <1>3. Served(bar') = Served(bar) /\ Idle(bar') /\ Leased(bar', sup', model)
    BY <1>1, <1>2, SameLeases, NobodyFacts
  <1>4. /\ sup' = [id |-> made + 1, model |-> c.model] /\ made' = made + 1 /\ life' = "idle"
        /\ made \in Nat
    BY DEF Add, ConfigTypes
  <1>5. /\ sup' \in [id : Nat, model : Models \union {NoModel}] /\ made' \in Nat
        /\ sup' # NoSup /\ sup'.model = c.model /\ sup'.id = made + 1
    BY <1>4 DEF NoSup
  <1>6. QED
    BY <1>1, <1>2, <1>3, <1>4, <1>5

\* What a plan means.
LEMMA PlanFacts ==
    \A s, t : /\ PlanAction(s, t) = "unchanged" =>
                    (On(s) <=> On(t)) /\ (On(s) => s.model = t.model)
              /\ PlanAction(s, t) = "add" => ~On(s) /\ On(t)
              /\ PlanAction(s, t) = "drain-and-remove" => On(s) /\ ~On(t)
              /\ PlanAction(s, t) = "drain-and-replace" => On(s) /\ On(t) /\ s.model # t.model
  <1> SUFFICES ASSUME NEW s, NEW t
               PROVE  /\ PlanAction(s, t) = "unchanged" =>
                            (On(s) <=> On(t)) /\ (On(s) => s.model = t.model)
                      /\ PlanAction(s, t) = "add" => ~On(s) /\ On(t)
                      /\ PlanAction(s, t) = "drain-and-remove" => On(s) /\ ~On(t)
                      /\ PlanAction(s, t) = "drain-and-replace" =>
                           On(s) /\ On(t) /\ s.model # t.model
    OBVIOUS
  <1>1. CASE ~On(s) /\ On(t)
    BY <1>1 DEF PlanAction
  <1>2. CASE On(s) /\ ~On(t)
    BY <1>2 DEF PlanAction
  <1>3. CASE On(s) /\ On(t) /\ s.model # t.model
    BY <1>3 DEF PlanAction
  <1>4. CASE (On(s) <=> On(t)) /\ (On(s) => s.model = t.model)
    BY <1>4 DEF PlanAction
  <1>5. QED
    BY <1>1, <1>2, <1>3, <1>4

\* A dispatch at the head of the lane is of the queue's item.
LEMMA DispatchFacts ==
    ASSUME LaneInv, QueueInv, BarrierInv, lane # <<>>, Head(lane).kind = "dispatch"
    PROVE  /\ Who = q.item /\ q.value = "none" /\ q.item # NoRequest /\ q.item \in Requests
           /\ q.item \notin Served(bar) /\ Served(bar) = q.active /\ model[q.item] \in Models
           /\ Running \in BOOLEAN
  <1> DEFINE gone == aborted \union rejected
             run == Running
  <1>1. Who = q.item /\ q.value = "none" /\ q.item # NoRequest
    BY HeadFacts DEF LaneInv, Lane, Who
  <1>2. q \in Queues /\ Queueing(q, model, req, gone, run) /\ Permits(q, model, req)
    BY DEF QueueInv, Sound
  <1>3. run \in BOOLEAN
    BY DEF Running, HeadIs
  <1> HIDE DEF gone, run
  <1>4. q.item \in Requests /\ model[q.item] \in Models /\ q.item \notin q.active
    BY <1>1, <1>2, <1>3, ItemFacts
  <1>5. Served(bar) = q.active
    BY <1>1 DEF BarrierInv, Leases
  <1>6. QED
    BY <1>1, <1>3, <1>4, <1>5 DEF run

\* Its request is gone when it gets the lane,
LEMMA GoneReturnFacts ==
    ASSUME LaneInv, QueueInv, BarrierInv, lane # <<>>, Head(lane).kind = "dispatch",
           Who \in aborted \union rejected, NEW v \in {"admitted", "answered", "error"}
    PROVE  /\ Sound(Returned(q, v), model, req, aborted \union rejected, FALSE)
           /\ Returned(q, v).item = q.item /\ Returned(q, v).value = v
           /\ Returned(q, v).active = q.active /\ Returned(q, v).closed = q.closed
  <1> DEFINE gone == aborted \union rejected
             run == Running
  <1>1. q \in Queues /\ Queueing(q, model, req, gone, run) /\ Permits(q, model, req)
    BY DEF QueueInv, Sound
  <1>2. q.item \in gone /\ q.item # NoRequest /\ run \in BOOLEAN
    BY DispatchFacts
  <1> HIDE DEF gone, run
  <1>3. Queueing(q, model, req, gone, TRUE)
    BY <1>1, <1>2, GoneFacts
  <1>4. FALSE \in BOOLEAN
    OBVIOUS
  <1>5. Sound(Returned(q, v), model, req, gone, FALSE)
    BY <1>1, <1>2, <1>3, <1>4, ReturnedFacts
  <1>6. QED
    BY <1>1, <1>5, ReturnedFields DEF gone

\* or leaves its place in pending,
LEMMA StartedFacts ==
    ASSUME LaneInv, QueueInv, BarrierInv, lane # <<>>, Head(lane).kind = "dispatch", ~Running,
           Who \notin aborted \union rejected
    PROVE  /\ Sound(Start(q), model, req, aborted \union rejected, TRUE)
           /\ Start(q).item = q.item /\ Start(q).value = "none"
           /\ Start(q).active = q.active /\ Start(q).closed = q.closed
           /\ \A v \in {"admitted", "answered", "error"} :
                /\ Sound(Returned(Start(q), v), model, req, aborted \union rejected, FALSE)
                /\ Returned(Start(q), v).item = q.item /\ Returned(Start(q), v).value = v
                /\ Returned(Start(q), v).active = q.active
                /\ Returned(Start(q), v).closed = q.closed
  <1> DEFINE gone == aborted \union rejected
             x == Start(q)
  <1>1. q \in Queues /\ Queueing(q, model, req, gone, FALSE) /\ Permits(q, model, req)
    <2>1. Running = FALSE
      BY DispatchFacts
    <2>2. QED
      BY <2>1 DEF QueueInv, Sound
  <1>2. q.item \notin gone /\ q.item # NoRequest /\ q.value = "none"
    BY DispatchFacts
  <1> HIDE DEF gone
  <1>3. Sound(Start(q), model, req, gone, TRUE)
    BY <1>1, <1>2, StartFacts
  <1>4. x.item = q.item /\ x.value = "none" /\ x.active = q.active /\ x.closed = q.closed
    BY <1>1, <1>2, StartFields
  <1>5. x \in Queues /\ Queueing(x, model, req, gone, TRUE) /\ Permits(x, model, req)
    BY <1>3 DEF Sound
  <1>6. Sound(x, model, req, gone, TRUE)
    BY <1>3
  <1> HIDE DEF x
  <1>7. ASSUME NEW v \in {"admitted", "answered", "error"}
        PROVE  /\ Sound(Returned(x, v), model, req, gone, FALSE)
               /\ Returned(x, v).item = q.item /\ Returned(x, v).value = v
               /\ Returned(x, v).active = q.active /\ Returned(x, v).closed = q.closed
    <2>1. FALSE \in BOOLEAN
      OBVIOUS
    <2>2. Sound(Returned(x, v), model, req, gone, FALSE)
      BY <1>2, <1>4, <1>5, <2>1, ReturnedFacts
    <2>3. QED
      BY <1>4, <1>5, <2>2, ReturnedFields
  <1>8. QED
    BY <1>4, <1>6, <1>7 DEF x, gone

\* and returns when it is done with the lane.
LEMMA RanFacts ==
    ASSUME LaneInv, QueueInv, BarrierInv, Running, NEW v \in {"admitted", "answered", "error"}
    PROVE  /\ Sound(Returned(q, v), model, req, aborted \union rejected, FALSE)
           /\ Returned(q, v).item = q.item /\ Returned(q, v).value = v
           /\ Returned(q, v).active = q.active /\ Returned(q, v).closed = q.closed
  <1> DEFINE gone == aborted \union rejected
  <1>1. q \in Queues /\ Queueing(q, model, req, gone, TRUE) /\ Permits(q, model, req)
    <2>1. Running = TRUE
      BY DispatchFacts DEF Running, HeadIs
    <2>2. QED
      BY <2>1 DEF QueueInv, Sound
  <1>2. q.item # NoRequest
    BY DispatchFacts DEF Running, HeadIs
  <1> HIDE DEF gone
  <1>3. FALSE \in BOOLEAN
    OBVIOUS
  <1>4. Sound(Returned(q, v), model, req, gone, FALSE)
    BY <1>1, <1>2, <1>3, ReturnedFacts
  <1>5. QED
    BY <1>1, <1>4, ReturnedFields DEF gone

\* One more is admitted, to the supervisor s behind the barrier b.
LEMMA AdmitFacts ==
    ASSUME LaneInv, QueueInv, BarrierInv, lane # <<>>, Head(lane).kind = "dispatch",
           NEW b \in Barriers(Requests, Nat), NEW s, Leased(b, s, model), Served(b) = Served(bar),
           s.id \in Nat, s.model = model[q.item], NEW ready \in {"pending", "ok", "failed"},
           bar' = Acquire(b, q.item, s.id, ready), 0 \notin Requests
    PROVE  /\ bar' \in Barriers(Requests, Nat) /\ Leased(bar', s, model)
           /\ Served(bar') = q.active \union {q.item} /\ ~Idle(bar')
           /\ bar'.accepting = b.accepting /\ bar'.passedOver = b.passedOver
           /\ bar'.stopped = b.stopped
  <1>1. q.item \in Requests /\ q.item \notin Served(b) /\ Served(b) = q.active
    BY DispatchFacts
  <1> DEFINE r == q.item
             y == bar'
  <1>2. r \in Requests /\ r \notin Served(b) /\ s.model = model[r] /\ y = Acquire(b, r, s.id, ready)
    BY <1>1
  <1> HIDE DEF r, y
  <1>3. /\ y \in Barriers(Requests, Nat) /\ Leased(y, s, model)
        /\ Served(y) = Served(b) \union {r} /\ ~Idle(y)
        /\ y.accepting = b.accepting /\ y.passedOver = b.passedOver /\ y.stopped = b.stopped
    BY <1>2, AcquireFacts
  <1>4. QED
    BY <1>1, <1>3 DEF r, y

-----------------------------------------------------------------------------
(* The steps of requests, timers and evictions *)

\* An edit leaves everything but the saved configuration.
LEMMA EditStep ==
    ASSUME IInv, Edit
    PROVE  IInv'
  <1> USE AssumptionFacts DEF IInv
  <1>p0. ConfigTypes'
    BY DEF ConfigTypes, Edit, Disturb
  <1>p1. LaneInv'
    BY DEF LaneInv, LaneTypes, Lane, Grown, Grows, Pops, Ended, Edit, Disturb
  <1>p2. QueueInv'
    <2>1. RequestTypes'
      BY DEF QueueInv, RequestTypes, Edit, Disturb
    <2>2. Running' = Running
      BY TaskFacts DEF Running, HeadIs, LaneInv, LaneTypes, Grown, Grows, Pops, Edit,
                       Disturb
    <2>3. Sound(q', model', req', aborted' \union rejected', Running)
      BY DEF QueueInv, Edit, Disturb
    <2>4. QED
      BY <2>1, <2>2, <2>3 DEF QueueInv
  <1>p3. BarrierInv'
    <2>1. (BarrierTypes /\ Leased(bar, sup, model))'
      BY DEF Ended, BarrierInv, BarrierTypes, Leases, Edit, Disturb
    <2>2. (Served(bar) = q.active \union (IF q.value = "admitted" THEN {q.item} ELSE {}))'
      BY DEF Ended, BarrierInv, Leases, QueueInv, Sound, Queueing, Edit, Disturb
    <2>3. (/\ HeadIs("dispatch", {"update", "stop", "settle"}) => Idle(bar)
           /\ HeadIs("reconcile", {"stop"}) => Idle(bar)
           /\ bar.stopped # 0 => HeadIs("dispatch", {"drain"}) \/ HeadIs("reconcile", {"drain"}))'
      BY TaskFacts DEF BarrierInv, Leases, HeadIs, LaneInv, LaneTypes, Grown, Grows, Pops,
                       Ended, Edit, Disturb
    <2>4. QED
      BY <2>1, <2>2, <2>3 DEF BarrierInv, Leases
  <1>p4. RecoveryInv'
    BY DEF RecoveryInv, RecoveryTypes, Claims, ClaimedMeansClosed, Ended, Edit, Disturb
  <1>p5. TimerTypes'
    BY DEF TimerTypes, Ended, Edit, Disturb
  <1>p6. Targets'
    BY DEF Targets, Who, Current, NoSup, Running, HeadIs, LaneTypes, Grown, Grows, Pops,
           Ended, On, Edit, Disturb
  <1>p7. Reopening'
    BY DEF Reopening, Who, NoSup, Reopens, HeadIs, LaneTypes, Grown, Grows, Pops, Ended,
           Queued, Edit, Disturb
  <1>p8. Rejected'
    BY DEF Rejected, Who, Running, HeadIs, LaneTypes, Grown, Grows, Pops, Ended, Queued,
           QueueInv, Sound, Queueing, Edit, Disturb
  <1>q. QED
    BY <1>p0, <1>p1, <1>p2, <1>p3, <1>p4, <1>p5, <1>p6, <1>p7, <1>p8

\* The reload starts a supervisor that is registered.
LEMMA ReloadStep ==
    ASSUME IInv, Reload
    PROVE  IInv'
  <1> USE AssumptionFacts DEF IInv
  <1>p0. ConfigTypes'
    BY DEF ConfigTypes, Reload, NoSup, TimerTypes
  <1>p1. LaneInv'
    BY DEF LaneInv, LaneTypes, Lane, Grown, Grows, Pops, Ended, Reload
  <1>p2. QueueInv'
    <2>1. RequestTypes'
      BY DEF QueueInv, RequestTypes, Reload
    <2>2. Running' = Running
      BY TaskFacts DEF Running, HeadIs, LaneInv, LaneTypes, Grown, Grows, Pops, Reload
    <2>3. Sound(q', model', req', aborted' \union rejected', Running)
      BY DEF QueueInv, Reload
    <2>4. QED
      BY <2>1, <2>2, <2>3 DEF QueueInv
  <1>p3. BarrierInv'
    <2>1. (BarrierTypes /\ Leased(bar, sup, model))'
      BY DEF Ended, BarrierInv, BarrierTypes, Leases, Reload
    <2>2. (Served(bar) = q.active \union (IF q.value = "admitted" THEN {q.item} ELSE {}))'
      BY DEF Ended, BarrierInv, Leases, QueueInv, Sound, Queueing, Reload
    <2>3. (/\ HeadIs("dispatch", {"update", "stop", "settle"}) => Idle(bar)
           /\ HeadIs("reconcile", {"stop"}) => Idle(bar)
           /\ bar.stopped # 0 => HeadIs("dispatch", {"drain"}) \/ HeadIs("reconcile", {"drain"}))'
      BY TaskFacts DEF BarrierInv, Leases, HeadIs, LaneInv, LaneTypes, Grown, Grows, Pops,
                       Ended, Reload
    <2>4. QED
      BY <2>1, <2>2, <2>3 DEF BarrierInv, Leases
  <1>p4. RecoveryInv'
    BY DEF RecoveryInv, RecoveryTypes, Claims, ClaimedMeansClosed, Ended, Reload
  <1>p5. TimerTypes'
    BY DEF TimerTypes, Ended, Reload
  <1>p6. Targets'
    BY DEF Targets, Who, Current, NoSup, Running, HeadIs, LaneTypes, Grown, Grows, Pops,
           Ended, On, Reload
  <1>p7. Reopening'
    BY DEF Reopening, Who, NoSup, Reopens, HeadIs, LaneTypes, Grown, Grows, Pops, Ended,
           Queued, Reload
  <1>p8. Rejected'
    BY DEF Rejected, Who, Running, HeadIs, LaneTypes, Grown, Grows, Pops, Ended, Queued,
           QueueInv, Sound, Queueing, Reload
  <1>q. QED
    BY <1>p0, <1>p1, <1>p2, <1>p3, <1>p4, <1>p5, <1>p6, <1>p7, <1>p8

\* A crash leaves a backend that is being started.
LEMMA BackendCrashStep ==
    ASSUME IInv, BackendCrash
    PROVE  IInv'
  <1> USE AssumptionFacts DEF IInv
  <1>p0. ConfigTypes'
    BY DEF ConfigTypes, BackendCrash, Disturb
  <1>p1. LaneInv'
    BY DEF LaneInv, LaneTypes, Lane, Grown, Grows, Pops, Ended, BackendCrash, Disturb
  <1>p2. QueueInv'
    <2>1. RequestTypes'
      BY DEF QueueInv, RequestTypes, BackendCrash, Disturb
    <2>2. Running' = Running
      BY TaskFacts DEF Running, HeadIs, LaneInv, LaneTypes, Grown, Grows, Pops,
                       BackendCrash, Disturb
    <2>3. Sound(q', model', req', aborted' \union rejected', Running)
      BY DEF QueueInv, BackendCrash, Disturb
    <2>4. QED
      BY <2>1, <2>2, <2>3 DEF QueueInv
  <1>p3. BarrierInv'
    <2>1. (BarrierTypes /\ Leased(bar, sup, model))'
      BY DEF Ended, BarrierInv, BarrierTypes, Leases, BackendCrash, Disturb
    <2>2. (Served(bar) = q.active \union (IF q.value = "admitted" THEN {q.item} ELSE {}))'
      BY DEF Ended, BarrierInv, Leases, QueueInv, Sound, Queueing, BackendCrash, Disturb
    <2>3. (/\ HeadIs("dispatch", {"update", "stop", "settle"}) => Idle(bar)
           /\ HeadIs("reconcile", {"stop"}) => Idle(bar)
           /\ bar.stopped # 0 => HeadIs("dispatch", {"drain"}) \/ HeadIs("reconcile", {"drain"}))'
      BY TaskFacts DEF BarrierInv, Leases, HeadIs, LaneInv, LaneTypes, Grown, Grows, Pops,
                       Ended, BackendCrash, Disturb
    <2>4. QED
      BY <2>1, <2>2, <2>3 DEF BarrierInv, Leases
  <1>p4. RecoveryInv'
    BY DEF RecoveryInv, RecoveryTypes, Claims, ClaimedMeansClosed, Ended, BackendCrash,
           Disturb
  <1>p5. TimerTypes'
    BY DEF TimerTypes, Ended, BackendCrash, Disturb
  <1>p6. Targets'
    BY DEF Targets, Who, Current, NoSup, Running, HeadIs, LaneTypes, Grown, Grows, Pops,
           Ended, On, BackendCrash, Disturb
  <1>p7. Reopening'
    BY DEF Reopening, Who, NoSup, Reopens, HeadIs, LaneTypes, Grown, Grows, Pops, Ended,
           Queued, BackendCrash, Disturb
  <1>p8. Rejected'
    BY DEF Rejected, Who, Running, HeadIs, LaneTypes, Grown, Grows, Pops, Ended, Queued,
           QueueInv, Sound, Queueing, BackendCrash, Disturb
  <1>q. QED
    BY <1>p0, <1>p1, <1>p2, <1>p3, <1>p4, <1>p5, <1>p6, <1>p7, <1>p8

\* Memory pressure queues an eviction.
LEMMA PressureStep ==
    ASSUME IInv, Pressure
    PROVE  IInv'
  <1> USE AssumptionFacts DEF IInv
  <1>1. Grown(lane, lane', {Task("evictIdle", 0)})
    <2>1. Task("evictIdle", 0) \in Tasks
      BY TaskFacts DEF Pressure
    <2>2. \A s \in ToSet(lane) : ~Alike(s, Task("evictIdle", 0))
      BY TaskFacts DEF LaneInv, LaneTypes, Lane, Alike
    <2>3. QED
      BY <2>1, <2>2, PushFacts DEF LaneInv, LaneTypes, Lane, Pressure
  <1>2. Task("evictIdle", 0).kind = "evictIdle"
    BY TaskFacts
  <1>p0. ConfigTypes'
    BY <1>1, <1>2 DEF ConfigTypes, Pressure, Disturb
  <1>p1. LaneInv'
    BY <1>1, <1>2 DEF LaneInv, LaneTypes, Lane, Grown, Grows, Pops, Ended, Pressure, Disturb
  <1>p2. QueueInv'
    <2>1. RequestTypes'
      BY <1>1, <1>2 DEF QueueInv, RequestTypes, Pressure, Disturb
    <2>2. Running' = Running
      BY <1>1, <1>2, TaskFacts DEF Running, HeadIs, LaneInv, LaneTypes, Grown, Grows, Pops,
                                   Pressure, Disturb
    <2>3. Sound(q', model', req', aborted' \union rejected', Running)
      BY <1>1, <1>2 DEF QueueInv, Pressure, Disturb
    <2>4. QED
      BY <2>1, <2>2, <2>3 DEF QueueInv
  <1>p3. BarrierInv'
    <2>1. (BarrierTypes /\ Leased(bar, sup, model))'
      BY <1>1, <1>2 DEF Ended, BarrierInv, BarrierTypes, Leases, Pressure, Disturb
    <2>2. (Served(bar) = q.active \union (IF q.value = "admitted" THEN {q.item} ELSE {}))'
      BY <1>1, <1>2 DEF Ended, BarrierInv, Leases, QueueInv, Sound, Queueing, Pressure,
                        Disturb
    <2>3. (/\ HeadIs("dispatch", {"update", "stop", "settle"}) => Idle(bar)
           /\ HeadIs("reconcile", {"stop"}) => Idle(bar)
           /\ bar.stopped # 0 => HeadIs("dispatch", {"drain"}) \/ HeadIs("reconcile", {"drain"}))'
      BY <1>1, <1>2, TaskFacts DEF BarrierInv, Leases, HeadIs, LaneInv, LaneTypes, Grown,
                                   Grows, Pops, Ended, Pressure, Disturb
    <2>4. QED
      BY <2>1, <2>2, <2>3 DEF BarrierInv, Leases
  <1>p4. RecoveryInv'
    BY <1>1, <1>2 DEF RecoveryInv, RecoveryTypes, Claims, ClaimedMeansClosed, Ended,
                      Pressure, Disturb
  <1>p5. TimerTypes'
    BY <1>1, <1>2 DEF TimerTypes, Ended, Pressure, Disturb
  <1>p6. Targets'
    BY <1>1, <1>2 DEF Targets, Who, Current, NoSup, Running, HeadIs, LaneTypes, Grown,
                      Grows, Pops, Ended, On, Pressure, Disturb
  <1>p7. Reopening'
    BY <1>1, <1>2 DEF Reopening, Who, NoSup, Reopens, HeadIs, LaneTypes, Grown, Grows, Pops,
                      Ended, Queued, Pressure, Disturb
  <1>p8. Rejected'
    BY <1>1, <1>2 DEF Rejected, Who, Running, HeadIs, LaneTypes, Grown, Grows, Pops, Ended,
                      Queued, QueueInv, Sound, Queueing, Pressure, Disturb
  <1>q. QED
    BY <1>p0, <1>p1, <1>p2, <1>p3, <1>p4, <1>p5, <1>p6, <1>p7, <1>p8

\* A recovery queues its claim.
LEMMA RecoverStep ==
    ASSUME IInv, NEW p \in Recoveries, Recover(p)
    PROVE  IInv'
  <1> USE AssumptionFacts DEF IInv
  <1>1. Grown(lane, lane', {Task("claim", p)})
    <2>1. Task("claim", p) \in Tasks
      BY TaskFacts DEF Recover
    <2>2. \A s \in ToSet(lane) : ~Alike(s, Task("claim", p))
      BY TaskFacts DEF LaneInv, LaneTypes, Lane, Alike, Recover, RecoveryInv, RecoveryTypes
    <2>3. QED
      BY <2>1, <2>2, PushFacts DEF LaneInv, LaneTypes, Lane, Recover
  <1>2. Task("claim", p).kind = "claim" /\ Task("claim", p).who = p
    BY TaskFacts
  <1>p0. ConfigTypes'
    BY <1>1, <1>2 DEF ConfigTypes, Recover, Disturb, RecoverIs
  <1>p1. LaneInv'
    BY <1>1, <1>2 DEF LaneInv, LaneTypes, Lane, Grown, Grows, Pops, Ended, Recover, Disturb,
                      RecoverIs, RecoveryInv, RecoveryTypes
  <1>p2. QueueInv'
    <2>1. RequestTypes'
      BY <1>1, <1>2 DEF QueueInv, RequestTypes, Recover, Disturb, RecoverIs
    <2>2. Running' = Running
      BY <1>1, <1>2, TaskFacts DEF Running, HeadIs, LaneInv, LaneTypes, Grown, Grows, Pops,
                                   Recover, Disturb, RecoverIs
    <2>3. Sound(q', model', req', aborted' \union rejected', Running)
      BY <1>1, <1>2 DEF QueueInv, Recover, Disturb, RecoverIs
    <2>4. QED
      BY <2>1, <2>2, <2>3 DEF QueueInv
  <1>p3. BarrierInv'
    <2>1. (BarrierTypes /\ Leased(bar, sup, model))'
      BY <1>1, <1>2 DEF Ended, BarrierInv, BarrierTypes, Leases, Recover, Disturb, RecoverIs
    <2>2. (Served(bar) = q.active \union (IF q.value = "admitted" THEN {q.item} ELSE {}))'
      BY <1>1, <1>2 DEF Ended, BarrierInv, Leases, QueueInv, Sound, Queueing, Recover,
                        Disturb, RecoverIs
    <2>3. (/\ HeadIs("dispatch", {"update", "stop", "settle"}) => Idle(bar)
           /\ HeadIs("reconcile", {"stop"}) => Idle(bar)
           /\ bar.stopped # 0 => HeadIs("dispatch", {"drain"}) \/ HeadIs("reconcile", {"drain"}))'
      BY <1>1, <1>2, TaskFacts DEF BarrierInv, Leases, HeadIs, LaneInv, LaneTypes, Grown,
                                   Grows, Pops, Ended, Recover, Disturb, RecoverIs
    <2>4. QED
      BY <2>1, <2>2, <2>3 DEF BarrierInv, Leases
  <1>p4. RecoveryInv'
    BY <1>1, <1>2 DEF RecoveryInv, RecoveryTypes, Claims, ClaimedMeansClosed, Ended,
                      Recover, Disturb, RecoverIs
  <1>p5. TimerTypes'
    BY <1>1, <1>2 DEF TimerTypes, Ended, Recover, Disturb, RecoverIs
  <1>p6. Targets'
    BY <1>1, <1>2 DEF Targets, Who, Current, NoSup, Running, HeadIs, LaneTypes, Grown,
                      Grows, Pops, Ended, On, Recover, Disturb, RecoverIs
  <1>p7. Reopening'
    BY <1>1, <1>2 DEF Reopening, Who, NoSup, Reopens, HeadIs, LaneTypes, Grown, Grows, Pops,
                      Ended, Queued, Recover, Disturb, RecoverIs, RecoveryInv, RecoveryTypes
  <1>p8. Rejected'
    BY <1>1, <1>2 DEF Rejected, Who, Running, HeadIs, LaneTypes, Grown, Grows, Pops, Ended,
                      Queued, QueueInv, Sound, Queueing, Recover, Disturb, RecoverIs
  <1>q. QED
    BY <1>p0, <1>p1, <1>p2, <1>p3, <1>p4, <1>p5, <1>p6, <1>p7, <1>p8

\* The safeguard's timer queues its task.
LEMMA SafeguardTimerStep ==
    ASSUME IInv, SafeguardTimer
    PROVE  IInv'
  <1> USE AssumptionFacts DEF IInv
  <1>1. \E t \in Tasks : t.kind = "safeguard" /\ Grown(lane, lane', {t})
    <2> DEFINE t == [Task("safeguard", safeguard.sup) EXCEPT !.check = safeguard.check]
    <2>1. t \in Tasks /\ t.kind = "safeguard"
      BY DEF Task, Tasks, TimerTypes
    <2>2. lane' = Append(lane, t)
      BY DEF SafeguardTimer
    <2> HIDE DEF t
    <2>3. \A s \in ToSet(lane) : ~Alike(s, t)
      BY <2>1 DEF Alike
    <2>4. Grown(lane, Append(lane, t), {t})
      BY <2>1, <2>3, PushFacts DEF LaneInv, LaneTypes, Lane
    <2>5. QED
      BY <2>1, <2>2, <2>4
  <1>2. /\ lane # <<>> => lane' # <<>> /\ Head(lane') = Head(lane)
        /\ lane' # <<>> /\ cur'.at # "begin" => lane # <<>> /\ Head(lane') = Head(lane)
        /\ cur'.at = cur.at
    BY <1>1, HeadKept DEF SafeguardTimer, LaneInv, LaneTypes
  <1>p0. ConfigTypes'
    BY <1>1, <1>2 DEF ConfigTypes, SafeguardTimer
  <1>p1. LaneInv'
    BY <1>1, <1>2 DEF LaneInv, LaneTypes, Lane, Grown, Grows, Pops, Ended, SafeguardTimer
  <1>p2. QueueInv'
    <2>1. RequestTypes'
      BY <1>1, <1>2 DEF QueueInv, RequestTypes, SafeguardTimer
    <2>2. Running' = Running
      BY <1>1, <1>2, TaskFacts DEF Running, HeadIs, LaneInv, LaneTypes, Grown, Grows, Pops,
                                   SafeguardTimer
    <2>3. Sound(q', model', req', aborted' \union rejected', Running)
      BY <1>1, <1>2 DEF QueueInv, SafeguardTimer
    <2>4. QED
      BY <2>1, <2>2, <2>3 DEF QueueInv
  <1>p3. BarrierInv'
    <2>1. (BarrierTypes /\ Leased(bar, sup, model))'
      BY <1>1, <1>2 DEF Ended, BarrierInv, BarrierTypes, Leases, SafeguardTimer
    <2>2. (Served(bar) = q.active \union (IF q.value = "admitted" THEN {q.item} ELSE {}))'
      BY <1>1, <1>2 DEF Ended, BarrierInv, Leases, QueueInv, Sound, Queueing, SafeguardTimer
    <2>3. (/\ HeadIs("dispatch", {"update", "stop", "settle"}) => Idle(bar)
           /\ HeadIs("reconcile", {"stop"}) => Idle(bar)
           /\ bar.stopped # 0 => HeadIs("dispatch", {"drain"}) \/ HeadIs("reconcile", {"drain"}))'
      BY <1>1, <1>2, TaskFacts DEF BarrierInv, Leases, HeadIs, LaneInv, LaneTypes, Grown,
                                   Grows, Pops, Ended, SafeguardTimer
    <2>4. QED
      BY <2>1, <2>2, <2>3 DEF BarrierInv, Leases
  <1>p4. RecoveryInv'
    BY <1>1, <1>2 DEF RecoveryInv, RecoveryTypes, Claims, ClaimedMeansClosed, Ended,
                      SafeguardTimer
  <1>p5. TimerTypes'
    BY <1>1, <1>2 DEF TimerTypes, Ended, SafeguardTimer
  <1>p6. Targets'
    BY <1>1, <1>2 DEF Targets, Who, Current, NoSup, Running, HeadIs, LaneTypes, Grown,
                      Grows, Pops, Ended, On, SafeguardTimer
  <1>p7. Reopening'
    BY <1>1, <1>2 DEF Reopening, Who, NoSup, Reopens, HeadIs, LaneTypes, Grown, Grows, Pops,
                      Ended, Queued, SafeguardTimer
  <1>p8. Rejected'
    BY <1>1, <1>2 DEF Rejected, Who, Running, HeadIs, LaneTypes, Grown, Grows, Pops, Ended,
                      Queued, QueueInv, Sound, Queueing, SafeguardTimer
  <1>q. QED
    BY <1>p0, <1>p1, <1>p2, <1>p3, <1>p4, <1>p5, <1>p6, <1>p7, <1>p8

\* The closed queue rejects whoever waits.
LEMMA CloseQueueStep ==
    ASSUME IInv, CloseQueue
    PROVE  IInv'
  <1> USE AssumptionFacts DEF IInv
  <1>1. /\ q'.item = q.item /\ q'.value = q.value /\ q'.active = q.active
        /\ Sound(q', model, req', aborted \union rejected', Running)
        /\ req' \in [Requests -> {"none", "waiting", "held", "done"}]
        /\ rejected' \subseteq Requests
    BY RejectedFacts DEF CloseQueue
  <1>2. q'.closed
    BY CloseFields DEF CloseQueue, QueueInv, Sound
  <1>p0. ConfigTypes'
    BY <1>1, <1>2 DEF ConfigTypes, CloseQueue, Disturb
  <1>p1. LaneInv'
    BY <1>1, <1>2 DEF LaneInv, LaneTypes, Lane, Grown, Grows, Pops, Ended, CloseQueue,
                      Disturb
  <1>p2. QueueInv'
    <2>1. RequestTypes'
      BY <1>1, <1>2 DEF QueueInv, RequestTypes, CloseQueue, Disturb
    <2>2. Running' = Running
      BY <1>1, <1>2, TaskFacts DEF Running, HeadIs, LaneInv, LaneTypes, Grown, Grows, Pops,
                                   CloseQueue, Disturb
    <2>3. Sound(q', model', req', aborted' \union rejected', Running)
      BY <1>1, <1>2 DEF QueueInv, CloseQueue, Disturb
    <2>4. QED
      BY <2>1, <2>2, <2>3 DEF QueueInv
  <1>p3. BarrierInv'
    <2>1. (BarrierTypes /\ Leased(bar, sup, model))'
      BY <1>1, <1>2 DEF Ended, BarrierInv, BarrierTypes, Leases, CloseQueue, Disturb
    <2>2. (Served(bar) = q.active \union (IF q.value = "admitted" THEN {q.item} ELSE {}))'
      BY <1>1, <1>2 DEF Ended, BarrierInv, Leases, QueueInv, Sound, Queueing, CloseQueue,
                        Disturb
    <2>3. (/\ HeadIs("dispatch", {"update", "stop", "settle"}) => Idle(bar)
           /\ HeadIs("reconcile", {"stop"}) => Idle(bar)
           /\ bar.stopped # 0 => HeadIs("dispatch", {"drain"}) \/ HeadIs("reconcile", {"drain"}))'
      BY <1>1, <1>2, TaskFacts DEF BarrierInv, Leases, HeadIs, LaneInv, LaneTypes, Grown,
                                   Grows, Pops, Ended, CloseQueue, Disturb
    <2>4. QED
      BY <2>1, <2>2, <2>3 DEF BarrierInv, Leases
  <1>p4. RecoveryInv'
    BY <1>1, <1>2 DEF RecoveryInv, RecoveryTypes, Claims, ClaimedMeansClosed, Ended,
                      CloseQueue, Disturb
  <1>p5. TimerTypes'
    BY <1>1, <1>2 DEF TimerTypes, Ended, CloseQueue, Disturb
  <1>p6. Targets'
    BY <1>1, <1>2 DEF Targets, Who, Current, NoSup, Running, HeadIs, LaneTypes, Grown,
                      Grows, Pops, Ended, On, CloseQueue, Disturb
  <1>p7. Reopening'
    BY <1>1, <1>2 DEF Reopening, Who, NoSup, Reopens, HeadIs, LaneTypes, Grown, Grows, Pops,
                      Ended, Queued, CloseQueue, Disturb
  <1>p8. Rejected'
    BY <1>1, <1>2 DEF Rejected, Who, Running, HeadIs, LaneTypes, Grown, Grows, Pops, Ended,
                      Queued, QueueInv, Sound, Queueing, CloseQueue, Disturb
  <1>q. QED
    BY <1>p0, <1>p1, <1>p2, <1>p3, <1>p4, <1>p5, <1>p6, <1>p7, <1>p8

\* An emergency rejects whoever waits and queues the eviction.
LEMMA EmergencyStep ==
    ASSUME IInv, Emergency
    PROVE  IInv'
  <1> USE AssumptionFacts DEF IInv
  <1>1. Grown(lane, lane', {Task("evictAll", 0)}) /\ Task("evictAll", 0).kind = "evictAll" /\
          Task("evictAll", 0).who = 0
    <2>1. Task("evictAll", 0) \in Tasks /\ Task("evictAll", 0).kind = "evictAll" /\
            Task("evictAll", 0).who = 0
      BY TaskFacts DEF Emergency
    <2>2. \A s \in ToSet(lane) : ~Alike(s, Task("evictAll", 0))
      BY TaskFacts DEF LaneInv, LaneTypes, Lane, Alike, Emergency
    <2>3. QED
      BY <2>1, <2>2, PushFacts DEF LaneInv, LaneTypes, Lane, Emergency
  <1>2. /\ q'.item = q.item /\ q'.value = q.value /\ q'.active = q.active
        /\ q.closed => q'.closed
        /\ Sound(q', model, req', aborted \union rejected', Running)
        /\ req' \in [Requests -> {"none", "waiting", "held", "done"}]
        /\ rejected' \subseteq Requests
    BY RejectedFacts DEF Emergency
  <1>3. cur'.target = cur.target /\ cur'.at = cur.at /\ cur' \in Waits
    <2> DEFINE s == cur.stop \/ cur.at = "preflight"
    <2>1. s \in BOOLEAN
      BY Zenon DEF LaneInv, LaneTypes, Waits
    <2>2. cur' = [cur EXCEPT !.stop = s]
      BY DEF Emergency, LaneInv, LaneTypes, Waits
    <2> HIDE DEF s
    <2>3. QED
      BY <2>1, <2>2 DEF LaneInv, LaneTypes, Waits
  <1>4. /\ lane # <<>> => lane' # <<>> /\ Head(lane') = Head(lane)
        /\ lane' # <<>> /\ cur'.at # "begin" => lane # <<>> /\ Head(lane') = Head(lane)
        /\ cur'.at = cur.at
    BY <1>1, <1>3, HeadKept DEF Emergency, LaneInv, LaneTypes
  <1>p0. ConfigTypes'
    BY <1>1, <1>2, <1>3, <1>4 DEF ConfigTypes, Emergency, Disturb
  <1>p1. LaneInv'
    BY <1>1, <1>2, <1>3, <1>4 DEF LaneInv, LaneTypes, Lane, Grown, Grows, Pops, Ended,
                                  Emergency, Disturb
  <1>p2. QueueInv'
    <2>1. RequestTypes'
      BY <1>1, <1>2, <1>3, <1>4 DEF QueueInv, RequestTypes, Emergency, Disturb
    <2>2. Running' = Running
      BY <1>1, <1>2, <1>3, <1>4, TaskFacts DEF Running, HeadIs, LaneInv, LaneTypes, Grown,
             Grows, Pops, Emergency, Disturb
    <2>3. Sound(q', model', req', aborted' \union rejected', Running)
      BY <1>1, <1>2, <1>3, <1>4 DEF QueueInv, Emergency, Disturb
    <2>4. QED
      BY <2>1, <2>2, <2>3 DEF QueueInv
  <1>p3. BarrierInv'
    <2>1. (BarrierTypes /\ Leased(bar, sup, model))'
      BY <1>1, <1>2, <1>3, <1>4 DEF Ended, BarrierInv, BarrierTypes, Leases, Emergency,
                                    Disturb
    <2>2. (Served(bar) = q.active \union (IF q.value = "admitted" THEN {q.item} ELSE {}))'
      BY <1>1, <1>2, <1>3, <1>4 DEF Ended, BarrierInv, Leases, QueueInv, Sound, Queueing,
                                    Emergency, Disturb
    <2>3. (/\ HeadIs("dispatch", {"update", "stop", "settle"}) => Idle(bar)
           /\ HeadIs("reconcile", {"stop"}) => Idle(bar)
           /\ bar.stopped # 0 => HeadIs("dispatch", {"drain"}) \/ HeadIs("reconcile", {"drain"}))'
      BY <1>1, <1>2, <1>3, <1>4, TaskFacts DEF BarrierInv, Leases, HeadIs, LaneInv,
             LaneTypes, Grown, Grows, Pops, Ended, Emergency, Disturb
    <2>4. QED
      BY <2>1, <2>2, <2>3 DEF BarrierInv, Leases
  <1>p4. RecoveryInv'
    BY <1>1, <1>2, <1>3, <1>4 DEF RecoveryInv, RecoveryTypes, Claims, ClaimedMeansClosed,
                                  Ended, Emergency, Disturb
  <1>p5. TimerTypes'
    BY <1>1, <1>2, <1>3, <1>4 DEF TimerTypes, Ended, Emergency, Disturb
  <1>p6. Targets'
    BY <1>1, <1>2, <1>3, <1>4 DEF Targets, Who, Current, NoSup, Running, HeadIs, LaneTypes,
                                  Grown, Grows, Pops, Ended, On, Emergency, Disturb
  <1>p7. Reopening'
    BY <1>1, <1>2, <1>3, <1>4 DEF Reopening, Who, NoSup, Reopens, HeadIs, LaneTypes, Grown,
                                  Grows, Pops, Ended, Queued, Emergency, Disturb
  <1>p8. Rejected'
    BY <1>1, <1>2, <1>3, <1>4 DEF Rejected, Who, Running, HeadIs, LaneTypes, Grown, Grows,
                                  Pops, Ended, Queued, QueueInv, Sound, Queueing, Emergency,
                                  Disturb
  <1>q. QED
    BY <1>p0, <1>p1, <1>p2, <1>p3, <1>p4, <1>p5, <1>p6, <1>p7, <1>p8

\* A wait that times out withdraws its request.
LEMMA TimeoutStep ==
    ASSUME IInv, NEW r \in Requests, Timeout(r)
    PROVE  IInv'
  <1> USE AssumptionFacts DEF IInv
  <1>1. req[r] = "waiting" /\ (Running => r # q.item)
    <2>1. Contains(q.pending, r) /\ q.pending \in Seq(Requests)
      BY DEF Timeout, QueueInv, Sound, Queues
    <2>2. r \in ToSet(q.pending)
      BY <2>1, LenProperties DEF Contains, ToSet
    <2>3. q.item # NoRequest /\ Running => q.item \notin ToSet(q.pending)
      BY DEF QueueInv, Sound, Queueing
    <2>4. req[r] = "waiting"
      BY <2>2 DEF QueueInv, Sound, Queueing, Rejectable
    <2>5. QED
      BY <2>2, <2>3, <2>4 DEF NoRequest
  <1>3. Running => Who = q.item
    BY HeadFacts DEF LaneInv, Lane, Running, HeadIs, Who
  <1>2. /\ q'.value = q.value /\ q'.active = q.active /\ q'.closed = q.closed
        /\ Sound(q', model, req', aborted' \union rejected', Running)
        /\ req' \in [Requests -> {"none", "waiting", "held", "done"}]
        /\ q'.item = q.item \/ (q.item = NoRequest /\ q'.item # NoRequest)
        /\ Grows({})
    BY <1>1, WithdrawnFacts DEF Timeout
  <1>p0. ConfigTypes'
    BY <1>1, <1>3, <1>2 DEF ConfigTypes, Timeout, Disturb
  <1>p1. LaneInv'
    BY <1>1, <1>3, <1>2 DEF LaneInv, LaneTypes, Lane, Grows, Timeout, Disturb
  <1>p2. QueueInv'
    <2>1. RequestTypes'
      BY <1>1, <1>3, <1>2 DEF QueueInv, RequestTypes, Timeout, Disturb
    <2>2. Running' = Running
      BY <1>1, <1>3, <1>2, TaskFacts DEF Running, HeadIs, LaneInv, LaneTypes, Grows,
                                         Timeout, Disturb
    <2>3. Sound(q', model', req', aborted' \union rejected', Running)
      BY <1>1, <1>3, <1>2 DEF QueueInv, Timeout, Disturb
    <2>4. QED
      BY <2>1, <2>2, <2>3 DEF QueueInv
  <1>p3. BarrierInv'
    <2>1. (BarrierTypes /\ Leased(bar, sup, model))'
      BY <1>1, <1>3, <1>2 DEF BarrierInv, BarrierTypes, Leases, Timeout, Disturb
    <2>2. (Served(bar) = q.active \union (IF q.value = "admitted" THEN {q.item} ELSE {}))'
      BY <1>1, <1>3, <1>2 DEF BarrierInv, Leases, QueueInv, Sound, Queueing, Timeout,
                              Disturb
    <2>3. (/\ HeadIs("dispatch", {"update", "stop", "settle"}) => Idle(bar)
           /\ HeadIs("reconcile", {"stop"}) => Idle(bar)
           /\ bar.stopped # 0 => HeadIs("dispatch", {"drain"}) \/ HeadIs("reconcile", {"drain"}))'
      BY <1>1, <1>3, <1>2, TaskFacts DEF BarrierInv, Leases, HeadIs, LaneInv, LaneTypes,
                                         Grows, Timeout, Disturb
    <2>4. QED
      BY <2>1, <2>2, <2>3 DEF BarrierInv, Leases
  <1>p4. RecoveryInv'
    BY <1>1, <1>3, <1>2 DEF RecoveryInv, RecoveryTypes, Claims, ClaimedMeansClosed, Timeout,
                            Disturb
  <1>p5. TimerTypes'
    BY <1>1, <1>3, <1>2 DEF TimerTypes, Timeout, Disturb
  <1>p6. Targets'
    BY <1>1, <1>3, <1>2 DEF Targets, Who, Current, NoSup, Running, HeadIs, LaneTypes, Grows,
                            On, Timeout, Disturb
  <1>p7. Reopening'
    BY <1>1, <1>3, <1>2 DEF Reopening, Who, NoSup, Reopens, HeadIs, LaneTypes, Grows,
                            Queued, Timeout, Disturb
  <1>p8. Rejected'
    BY <1>1, <1>3, <1>2 DEF Rejected, Who, Running, HeadIs, LaneTypes, Grows, Queued,
                            QueueInv, Sound, Queueing, Timeout, Disturb
  <1>q. QED
    BY <1>p0, <1>p1, <1>p2, <1>p3, <1>p4, <1>p5, <1>p6, <1>p7, <1>p8

\* A client that leaves withdraws a waiting request,
LEMMA WithdrawalStep ==
    ASSUME IInv, NEW r \in Requests, Disturb, r \notin aborted,
           aborted' = aborted \union {r}, req[r] = "waiting", Pumped(Withdraw(q, r), lane),
           req' = [req EXCEPT ![r] = "done"], rejected' = rejected \union {r},
           UNCHANGED <<bar, safeguard, modality, config, backend, cur, model, recovery, reload>>
    PROVE  IInv'
  <1> USE AssumptionFacts DEF IInv
  <1>1. /\ q'.value = q.value /\ q'.active = q.active /\ q'.closed = q.closed
        /\ Sound(q', model, req', aborted' \union rejected', Running)
        /\ req' \in [Requests -> {"none", "waiting", "held", "done"}]
        /\ q'.item = q.item \/ (q.item = NoRequest /\ q'.item # NoRequest)
        /\ Grows({})
    BY WithdrawnFacts
  <1>p0. ConfigTypes'
    BY <1>1 DEF ConfigTypes, Disturb
  <1>p1. LaneInv'
    BY <1>1 DEF LaneInv, LaneTypes, Lane, Grows, Disturb
  <1>p2. QueueInv'
    <2>1. RequestTypes'
      BY <1>1 DEF QueueInv, RequestTypes, Disturb
    <2>2. Running' = Running
      BY <1>1, TaskFacts DEF Running, HeadIs, LaneInv, LaneTypes, Grows, Disturb
    <2>3. Sound(q', model', req', aborted' \union rejected', Running)
      BY <1>1 DEF QueueInv, Disturb
    <2>4. QED
      BY <2>1, <2>2, <2>3 DEF QueueInv
  <1>p3. BarrierInv'
    <2>1. (BarrierTypes /\ Leased(bar, sup, model))'
      BY <1>1 DEF BarrierInv, BarrierTypes, Leases, Disturb
    <2>2. (Served(bar) = q.active \union (IF q.value = "admitted" THEN {q.item} ELSE {}))'
      BY <1>1 DEF BarrierInv, Leases, QueueInv, Sound, Queueing, Disturb
    <2>3. (/\ HeadIs("dispatch", {"update", "stop", "settle"}) => Idle(bar)
           /\ HeadIs("reconcile", {"stop"}) => Idle(bar)
           /\ bar.stopped # 0 => HeadIs("dispatch", {"drain"}) \/ HeadIs("reconcile", {"drain"}))'
      BY <1>1, TaskFacts DEF BarrierInv, Leases, HeadIs, LaneInv, LaneTypes, Grows, Disturb
    <2>4. QED
      BY <2>1, <2>2, <2>3 DEF BarrierInv, Leases
  <1>p4. RecoveryInv'
    BY <1>1 DEF RecoveryInv, RecoveryTypes, Claims, ClaimedMeansClosed, Disturb
  <1>p5. TimerTypes'
    BY <1>1 DEF TimerTypes, Disturb
  <1>p6. Targets'
    BY <1>1 DEF Targets, Who, Current, NoSup, Running, HeadIs, LaneTypes, Grows, On, Disturb
  <1>p7. Reopening'
    BY <1>1 DEF Reopening, Who, NoSup, Reopens, HeadIs, LaneTypes, Grows, Queued, Disturb
  <1>p8. Rejected'
    BY <1>1 DEF Rejected, Who, Running, HeadIs, LaneTypes, Grows, Queued, QueueInv, Sound,
                Queueing, Disturb
  <1>q. QED
    BY <1>p0, <1>p1, <1>p2, <1>p3, <1>p4, <1>p5, <1>p6, <1>p7, <1>p8

\* or settles a served one, whose response may also just end.
LEMMA SettlingStep ==
    ASSUME IInv, NEW r \in Requests, req[r] = "held", NEW cancel \in BOOLEAN,
           Settle(r, cancel), aborted' \in {aborted, aborted \union {r}},
             left' \in 0..MaxDisturbances,
           UNCHANGED <<modality, config, backend, cur, model, rejected, recovery, reload>>
    PROVE  IInv'
  <1> USE AssumptionFacts DEF IInv
  <1>1. PICK ts :
            /\ Ended(r, ts) /\ Grows(ts)
            /\ Sound(q', model, req', aborted' \union rejected', Running)
            /\ q'.value = q.value /\ q'.active = q.active \ {r} /\ q'.closed = q.closed
            /\ req' \in [Requests -> {"none", "waiting", "held", "done"}]
            /\ q'.item = q.item \/ (q.item = NoRequest /\ q'.item # NoRequest)
            /\ r # q.item
    BY SettledFacts
  <1>2. bar.stopped # 0 => HeadIs("dispatch", {"drain"}) \/ HeadIs("reconcile", {"drain"})
    BY DEF BarrierInv, Leases
  <1>p0. ConfigTypes'
    BY <1>1, <1>2 DEF ConfigTypes
  <1>p1. LaneInv'
    BY <1>1, <1>2 DEF LaneInv, LaneTypes, Lane, Grows, Ended
  <1>p2. QueueInv'
    <2>1. RequestTypes'
      BY <1>1, <1>2 DEF QueueInv, RequestTypes
    <2>2. Running' = Running
      BY <1>1, <1>2, TaskFacts DEF Running, HeadIs, LaneInv, LaneTypes, Grows
    <2>3. Sound(q', model', req', aborted' \union rejected', Running)
      BY <1>1, <1>2 DEF QueueInv
    <2>4. QED
      BY <2>1, <2>2, <2>3 DEF QueueInv
  <1>p3. BarrierInv'
    <2>1. (BarrierTypes /\ Leased(bar, sup, model))'
      BY <1>1, <1>2 DEF Ended, BarrierInv, BarrierTypes, Leases
    <2>2. (Served(bar) = q.active \union (IF q.value = "admitted" THEN {q.item} ELSE {}))'
      BY <1>1, <1>2 DEF Ended, BarrierInv, Leases, QueueInv, Sound, Queueing
    <2>3. (/\ HeadIs("dispatch", {"update", "stop", "settle"}) => Idle(bar)
           /\ HeadIs("reconcile", {"stop"}) => Idle(bar)
           /\ bar.stopped # 0 => HeadIs("dispatch", {"drain"}) \/ HeadIs("reconcile", {"drain"}))'
      BY <1>1, <1>2, TaskFacts DEF BarrierInv, Leases, HeadIs, LaneInv, LaneTypes, Grows,
                                   Ended
    <2>4. QED
      BY <2>1, <2>2, <2>3 DEF BarrierInv, Leases
  <1>p4. RecoveryInv'
    BY <1>1, <1>2 DEF RecoveryInv, RecoveryTypes, Claims, ClaimedMeansClosed, Ended
  <1>p5. TimerTypes'
    BY <1>1, <1>2 DEF TimerTypes, Ended
  <1>p6. Targets'
    BY <1>1, <1>2 DEF Targets, Who, Current, NoSup, Running, HeadIs, LaneTypes, Grows,
                      Ended, On
  <1>p7. Reopening'
    BY <1>1, <1>2 DEF Reopening, Who, NoSup, Reopens, HeadIs, LaneTypes, Grows, Ended,
                      Queued
  <1>p8. Rejected'
    BY <1>1, <1>2 DEF Rejected, Who, Running, HeadIs, LaneTypes, Grows, Ended, Queued,
                      QueueInv, Sound, Queueing
  <1>q. QED
    BY <1>p0, <1>p1, <1>p2, <1>p3, <1>p4, <1>p5, <1>p6, <1>p7, <1>p8

\* or one the queue has given up, whose dispatch is under way.
LEMMA LeavingStep ==
    ASSUME IInv, NEW r \in Requests, Disturb, req[r] = "done", q.item = r,
             aborted' = aborted \union {r},
           UNCHANGED <<req, q, lane, bar, safeguard, rejected, modality, config, backend, cur,
                       model, recovery, reload>>
    PROVE  IInv'
  <1> USE AssumptionFacts DEF IInv
  <1>1. Sound(q, model, req, aborted' \union rejected', Running)
    BY DEF QueueInv, Sound, Queueing
  <1>p0. ConfigTypes'
    BY <1>1 DEF ConfigTypes, Disturb
  <1>p1. LaneInv'
    BY <1>1 DEF LaneInv, LaneTypes, Lane, Disturb
  <1>p2. QueueInv'
    <2>1. RequestTypes'
      BY <1>1 DEF QueueInv, RequestTypes, Disturb
    <2>2. Running' = Running
      BY <1>1, TaskFacts DEF Running, HeadIs, LaneInv, LaneTypes, Disturb
    <2>3. Sound(q', model', req', aborted' \union rejected', Running)
      BY <1>1 DEF QueueInv, Disturb
    <2>4. QED
      BY <2>1, <2>2, <2>3 DEF QueueInv
  <1>p3. BarrierInv'
    <2>1. (BarrierTypes /\ Leased(bar, sup, model))'
      BY <1>1 DEF BarrierInv, BarrierTypes, Leases, Disturb
    <2>2. (Served(bar) = q.active \union (IF q.value = "admitted" THEN {q.item} ELSE {}))'
      BY <1>1 DEF BarrierInv, Leases, QueueInv, Sound, Queueing, Disturb
    <2>3. (/\ HeadIs("dispatch", {"update", "stop", "settle"}) => Idle(bar)
           /\ HeadIs("reconcile", {"stop"}) => Idle(bar)
           /\ bar.stopped # 0 => HeadIs("dispatch", {"drain"}) \/ HeadIs("reconcile", {"drain"}))'
      BY <1>1, TaskFacts DEF BarrierInv, Leases, HeadIs, LaneInv, LaneTypes, Disturb
    <2>4. QED
      BY <2>1, <2>2, <2>3 DEF BarrierInv, Leases
  <1>p4. RecoveryInv'
    BY <1>1 DEF RecoveryInv, RecoveryTypes, Claims, ClaimedMeansClosed, Disturb
  <1>p5. TimerTypes'
    BY <1>1 DEF TimerTypes, Disturb
  <1>p6. Targets'
    BY <1>1 DEF Targets, Who, Current, NoSup, Running, HeadIs, LaneTypes, On, Disturb
  <1>p7. Reopening'
    BY <1>1 DEF Reopening, Who, NoSup, Reopens, HeadIs, LaneTypes, Queued, Disturb
  <1>p8. Rejected'
    BY <1>1 DEF Rejected, Who, Running, HeadIs, LaneTypes, Queued, QueueInv, Sound,
                Queueing, Disturb
  <1>q. QED
    BY <1>p0, <1>p1, <1>p2, <1>p3, <1>p4, <1>p5, <1>p6, <1>p7, <1>p8

\* A request that goes away, waiting or served, keeps the invariant.
LEMMA AbortStep ==
    ASSUME IInv, NEW r \in Requests, Abort(r)
    PROVE  IInv'
  <1> USE AssumptionFacts
  <1>1. left' \in 0..MaxDisturbances
    BY DEF Abort, Disturb, IInv, TimerTypes
  <1>2. CASE req[r] = "waiting"
    BY <1>2, WithdrawalStep DEF Abort
  <1>3. CASE req[r] = "held"
    BY <1>1, <1>3, SettlingStep DEF Abort
  <1>4. CASE req[r] = "done"
    BY <1>4, LeavingStep DEF Abort
  <1>5. QED
    BY <1>2, <1>3, <1>4 DEF Abort

\* So does one whose proxying ends.
LEMMA FinishStep ==
    ASSUME IInv, NEW r \in Requests, Finish(r)
    PROVE  IInv'
  BY AssumptionFacts, SettlingStep DEF Finish, IInv, TimerTypes

\* A pump that has the answer of its dispatch: none is in the lane.
LEMMA DeliveredFacts ==
    ASSUME LaneInv, QueueInv, q.value # "none"
    PROVE  /\ q \in Queues /\ Queueing(q, model, req, aborted \union rejected, Running)
           /\ Permits(q, model, req) /\ Running \in BOOLEAN
           /\ req \in [Requests -> {"none", "waiting", "held", "done"}]
           /\ model \in [Requests -> Models \union {NoModel}]
           /\ aborted \union rejected \subseteq Requests
           /\ ~Running /\ q.item \in Requests /\ q.item # NoRequest
           /\ q.item \notin q.active
  <1>1. /\ q \in Queues /\ Queueing(q, model, req, aborted \union rejected, Running)
        /\ Permits(q, model, req) /\ Running \in BOOLEAN
        /\ req \in [Requests -> {"none", "waiting", "held", "done"}]
        /\ model \in [Requests -> Models \union {NoModel}]
        /\ aborted \union rejected \subseteq Requests
    BY DEF QueueInv, RequestTypes, Sound, Running, HeadIs
  <1>2. ~Running
    BY HeadFacts DEF LaneInv, Lane, Running, HeadIs
  <1>3. q.item # NoRequest
    BY <1>1 DEF Queueing
  <1>4. q.item \in Requests /\ q.item \notin q.active
    <2> DEFINE gone == aborted \union rejected
               run == Running
    <2>1. Queueing(q, model, req, gone, run) /\ run \in BOOLEAN
      BY <1>1
    <2> HIDE DEF gone, run
    <2>2. QED
      BY <1>1, <1>3, <2>1, ItemFacts
  <1>5. QED
    BY <1>1, <1>2, <1>3, <1>4

\* The queue, once the permit is given,
LEMMA PermittedFacts ==
    ASSUME LaneInv, QueueInv, q.value # "none", q.inFlight, NEW s \in 1..Slots,
           NEW rq2, \A z \in Requests : rq2[z] = IF z = q.item THEN "held" ELSE req[z]
    PROVE  Sound(Permit(q, model, s), model, rq2, aborted \union rejected, Running)
  <1> DEFINE gone == aborted \union rejected
             run == Running
  <1>1. /\ q \in Queues /\ Queueing(q, model, req, gone, run) /\ Permits(q, model, req)
        /\ run \in BOOLEAN /\ req \in [Requests -> {"none", "waiting", "held", "done"}]
        /\ model \in [Requests -> Models \union {NoModel}] /\ gone \subseteq Requests
    BY DeliveredFacts
  <1> HIDE DEF gone, run
  <1>2. Sound(Permit(q, model, s), model, rq2, gone, run)
    BY <1>1, PermitFacts
  <1>3. QED
    BY <1>2 DEF gone, run

\* and once it is not.
LEMMA DroppedFacts ==
    ASSUME LaneInv, QueueInv, q.value # "none",
           NEW rq2, \A z \in Requests : rq2[z] = IF z = q.item THEN "done" ELSE req[z]
    PROVE  Sound(Drop(q), model, rq2, aborted \union rejected, Running)
  <1> DEFINE gone == aborted \union rejected
             run == Running
  <1>1. /\ q \in Queues /\ Queueing(q, model, req, gone, run) /\ Permits(q, model, req)
        /\ run \in BOOLEAN /\ req \in [Requests -> {"none", "waiting", "held", "done"}]
        /\ gone \subseteq Requests
    BY DeliveredFacts
  <1> HIDE DEF gone, run
  <1>2. Sound(Drop(q), model, rq2, gone, run)
    BY <1>1, DropFacts
  <1>3. QED
    BY <1>2 DEF gone, run

\* An admitted request gets its permit,
LEMMA PermittedStep ==
    ASSUME IInv, q.value = "admitted", q.inFlight, NEW s \in ResolvedSlots,
           Pumped(Permit(q, model, s), lane), req' = [req EXCEPT ![q.item] = "held"],
           UNCHANGED <<bar, safeguard, modality, config, backend, cur, model, aborted, rejected,
                       recovery, reload, left>>
    PROVE  IInv'
  <1> USE AssumptionFacts DEF IInv
  <1>0. ~Running /\ q.item \in Requests /\ q.item # NoRequest /\ q.item \notin q.active
    BY DeliveredFacts
  <1>1. /\ q'.value = "none" /\ q'.active = q.active \union {q.item} /\ q'.closed = q.closed
        /\ Sound(q', model, req', aborted' \union rejected', Running)
        /\ req' \in [Requests -> {"none", "waiting", "held", "done"}]
        /\ Grows({})
    <2> DEFINE gone == aborted \union rejected
               run == Running
               x == Permit(q, model, s)
    <2>1. /\ q \in Queues /\ Queueing(q, model, req, gone, run) /\ Permits(q, model, req)
          /\ run \in BOOLEAN /\ req \in [Requests -> {"none", "waiting", "held", "done"}]
          /\ model \in [Requests -> Models \union {NoModel}] /\ gone \subseteq Requests
      BY DeliveredFacts
    <2>2. s \in 1..Slots
      BY DEF ResolvedSlots
    <2> HIDE DEF gone, run
    <2>3. Sound(x, model, req', gone, run)
      <3> DEFINE rq2 == req'
      <3>1. \A z \in Requests : rq2[z] = IF z = q.item THEN "held" ELSE req[z]
        BY <2>1
      <3> HIDE DEF rq2
      <3>2. Sound(Permit(q, model, s), model, rq2, gone, run)
        BY <2>2, <3>1, PermittedFacts DEF gone, run
      <3>3. QED
        BY <3>2 DEF rq2
    <2>4. /\ x.item = NoRequest /\ x.value = "none" /\ x.active = q.active \union {q.item}
          /\ x.closed = q.closed
      BY <2>1, PermitFields
    <2>5. x \in Queues /\ Sound(x, model, req', gone, Running)
      BY <2>3 DEF Sound, run
    <2>6. Grown(lane, lane, {}) /\ \A t \in {} : t.kind # "dispatch"
      BY GrownFacts DEF LaneInv, LaneTypes, Lane
    <2>7. /\ q' = Pump(x, model)
          /\ lane' =
               IF Pumps(x, model) THEN Append(lane, Task("dispatch", Head(x.pending))) ELSE lane
      BY DEF Pumped
    <2> HIDE DEF x
    <2>8. /\ Sound(q', model, req', gone, Running) /\ Grows({})
          /\ q'.value = x.value /\ q'.active = x.active /\ q'.closed = x.closed
      BY <2>4, <2>5, <2>6, <2>7, PumpingFacts
    <2>9. QED
      BY <2>1, <2>4, <2>8 DEF gone
  <1>p0. ConfigTypes'
    BY <1>0, <1>1 DEF ConfigTypes
  <1>p1. LaneInv'
    BY <1>0, <1>1 DEF LaneInv, LaneTypes, Lane, Grows
  <1>p2. QueueInv'
    <2>1. RequestTypes'
      BY <1>0, <1>1 DEF QueueInv, RequestTypes
    <2>2. Running' = Running
      BY <1>0, <1>1, TaskFacts DEF Running, HeadIs, LaneInv, LaneTypes, Grows
    <2>3. Sound(q', model', req', aborted' \union rejected', Running)
      BY <1>0, <1>1 DEF QueueInv
    <2>4. QED
      BY <2>1, <2>2, <2>3 DEF QueueInv
  <1>p3. BarrierInv'
    <2>1. (BarrierTypes /\ Leased(bar, sup, model))'
      BY <1>0, <1>1 DEF BarrierInv, BarrierTypes, Leases
    <2>2. (Served(bar) = q.active \union (IF q.value = "admitted" THEN {q.item} ELSE {}))'
      BY <1>0, <1>1 DEF BarrierInv, Leases, QueueInv, Sound, Queueing
    <2>3. (/\ HeadIs("dispatch", {"update", "stop", "settle"}) => Idle(bar)
           /\ HeadIs("reconcile", {"stop"}) => Idle(bar)
           /\ bar.stopped # 0 => HeadIs("dispatch", {"drain"}) \/ HeadIs("reconcile", {"drain"}))'
      BY <1>0, <1>1, TaskFacts DEF BarrierInv, Leases, HeadIs, LaneInv, LaneTypes, Grows
    <2>4. QED
      BY <2>1, <2>2, <2>3 DEF BarrierInv, Leases
  <1>p4. RecoveryInv'
    BY <1>0, <1>1 DEF RecoveryInv, RecoveryTypes, Claims, ClaimedMeansClosed
  <1>p5. TimerTypes'
    BY <1>0, <1>1 DEF TimerTypes
  <1>p6. Targets'
    BY <1>0, <1>1 DEF Targets, Who, Current, NoSup, Running, HeadIs, LaneTypes, Grows, On
  <1>p7. Reopening'
    BY <1>0, <1>1 DEF Reopening, Who, NoSup, Reopens, HeadIs, LaneTypes, Grows, Queued
  <1>p8. Rejected'
    BY <1>0, <1>1 DEF Rejected, Who, Running, HeadIs, LaneTypes, Grows, Queued, QueueInv,
                      Sound, Queueing
  <1>q. QED
    BY <1>p0, <1>p1, <1>p2, <1>p3, <1>p4, <1>p5, <1>p6, <1>p7, <1>p8

\* and any other is dropped, with the lease it may have had.
LEMMA DroppedStep ==
    ASSUME IInv, q.value # "none", NEW l, NEW ts,
           q' = Pump(Drop(q), model),
           lane' = (IF Pumps(Drop(q), model) THEN Append(l, Task("dispatch", Head(Drop(q).pending)))
                    ELSE l),
           Grown(lane, l, ts),
           req' = [req EXCEPT ![q.item] = "done"],
           IF q.value = "admitted" THEN Ended(q.item, ts)
           ELSE ts = {} /\ UNCHANGED <<bar, safeguard>>,
           UNCHANGED <<modality, config, backend, cur, model, aborted, rejected,
                       recovery, reload, left>>
    PROVE  IInv'
  <1> USE AssumptionFacts DEF IInv
  <1>0. ~Running /\ q.item \in Requests /\ q.item # NoRequest /\ q.item \notin q.active
    BY DeliveredFacts
  <1>1. /\ q'.value = "none" /\ q'.active = q.active /\ q'.closed = q.closed
        /\ Sound(q', model, req', aborted' \union rejected', Running)
        /\ req' \in [Requests -> {"none", "waiting", "held", "done"}]
        /\ Grows(ts)
    <2> DEFINE gone == aborted \union rejected
               run == Running
               x == Drop(q)
    <2>1. /\ q \in Queues /\ Queueing(q, model, req, gone, run) /\ Permits(q, model, req)
          /\ run \in BOOLEAN /\ req \in [Requests -> {"none", "waiting", "held", "done"}]
          /\ gone \subseteq Requests
      BY DeliveredFacts
    <2> HIDE DEF gone, run
    <2>3. Sound(x, model, req', gone, run)
      <3> DEFINE rq2 == req'
      <3>1. \A z \in Requests : rq2[z] = IF z = q.item THEN "done" ELSE req[z]
        BY <2>1
      <3> HIDE DEF rq2
      <3>2. Sound(Drop(q), model, rq2, gone, run)
        BY <3>1, DroppedFacts DEF gone, run
      <3>3. QED
        BY <3>2 DEF rq2
    <2>4. x.item = NoRequest /\ x.value = "none" /\ x.active = q.active /\ x.closed = q.closed
      BY <2>1, DropFields
    <2>5. x \in Queues /\ Sound(x, model, req', gone, Running)
      BY <2>3 DEF Sound, run
    <2>6. \A t \in ts : t.kind # "dispatch"
      BY DEF Ended
    <2>7. /\ q' = Pump(x, model)
          /\ lane' = IF Pumps(x, model) THEN Append(l, Task("dispatch", Head(x.pending))) ELSE l
      OBVIOUS
    <2> HIDE DEF x
    <2>8. /\ Sound(q', model, req', gone, Running) /\ Grows(ts)
          /\ q'.value = x.value /\ q'.active = x.active /\ q'.closed = x.closed
      BY <2>4, <2>5, <2>6, <2>7, PumpingFacts
    <2>9. QED
      BY <2>1, <2>4, <2>8 DEF gone
  <1>2. bar.stopped # 0 => HeadIs("dispatch", {"drain"}) \/ HeadIs("reconcile", {"drain"})
    BY DEF BarrierInv, Leases
  <1>p0. ConfigTypes'
    BY <1>0, <1>1, <1>2 DEF ConfigTypes
  <1>p1. LaneInv'
    BY <1>0, <1>1, <1>2 DEF LaneInv, LaneTypes, Lane, Grows, Ended
  <1>p2. QueueInv'
    <2>1. RequestTypes'
      BY <1>0, <1>1, <1>2 DEF QueueInv, RequestTypes
    <2>2. Running' = Running
      BY <1>0, <1>1, <1>2, TaskFacts DEF Running, HeadIs, LaneInv, LaneTypes, Grows
    <2>3. Sound(q', model', req', aborted' \union rejected', Running)
      BY <1>0, <1>1, <1>2 DEF QueueInv
    <2>4. QED
      BY <2>1, <2>2, <2>3 DEF QueueInv
  <1>p3. BarrierInv'
    <2>1. (BarrierTypes /\ Leased(bar, sup, model))'
      BY <1>0, <1>1, <1>2 DEF Ended, BarrierInv, BarrierTypes, Leases
    <2>2. (Served(bar) = q.active \union (IF q.value = "admitted" THEN {q.item} ELSE {}))'
      BY <1>0, <1>1, <1>2 DEF Ended, BarrierInv, Leases, QueueInv, Sound, Queueing
    <2>3. (/\ HeadIs("dispatch", {"update", "stop", "settle"}) => Idle(bar)
           /\ HeadIs("reconcile", {"stop"}) => Idle(bar)
           /\ bar.stopped # 0 => HeadIs("dispatch", {"drain"}) \/ HeadIs("reconcile", {"drain"}))'
      BY <1>0, <1>1, <1>2, TaskFacts DEF BarrierInv, Leases, HeadIs, LaneInv, LaneTypes,
                                         Grows, Ended
    <2>4. QED
      BY <2>1, <2>2, <2>3 DEF BarrierInv, Leases
  <1>p4. RecoveryInv'
    BY <1>0, <1>1, <1>2 DEF RecoveryInv, RecoveryTypes, Claims, ClaimedMeansClosed, Ended
  <1>p5. TimerTypes'
    BY <1>0, <1>1, <1>2 DEF TimerTypes, Ended
  <1>p6. Targets'
    BY <1>0, <1>1, <1>2 DEF Targets, Who, Current, NoSup, Running, HeadIs, LaneTypes, Grows,
                            Ended, On
  <1>p7. Reopening'
    BY <1>0, <1>1, <1>2 DEF Reopening, Who, NoSup, Reopens, HeadIs, LaneTypes, Grows, Ended,
                            Queued
  <1>p8. Rejected'
    BY <1>0, <1>1, <1>2 DEF Rejected, Who, Running, HeadIs, LaneTypes, Grows, Ended, Queued,
                            QueueInv, Sound, Queueing
  <1>q. QED
    BY <1>p0, <1>p1, <1>p2, <1>p3, <1>p4, <1>p5, <1>p6, <1>p7, <1>p8

\* What the queue's onSettled delivers, a permit or none, keeps the invariant.
LEMMA DeliverStep ==
    ASSUME IInv, Deliver
    PROVE  IInv'
  <1> USE AssumptionFacts DEF IInv
  <1>1. q.item \in Requests /\ q.value # "none" /\ Grown(lane, lane, {})
    BY DeliveredFacts, GrownFacts DEF Deliver, LaneInv, LaneTypes, Lane
  <1>2. CASE q.value = "admitted" /\ q.inFlight
    BY <1>2, PermittedStep DEF Deliver
  <1>3. CASE q.value = "admitted" /\ ~q.inFlight
    <2>1. End(q.item, TRUE) /\ Pumped(Drop(q), LaneAfter(q.item, TRUE)) /\ req' = req
      BY <1>3 DEF Deliver
    <2>2. q.item \in Served(bar)
      BY <1>3 DEF BarrierInv, Leases
    <2>3. PICK ts : Ended(q.item, ts) /\ Grown(lane, LaneAfter(q.item, TRUE), ts)
      BY <2>1, <2>2, EndedFacts
    <2>4. req' = [req EXCEPT ![q.item] = "done"]
      <3> DEFINE gone == aborted \union rejected
                 run == Running
      <3>1. /\ q \in Queues /\ Queueing(q, model, req, gone, run) /\ Permits(q, model, req)
            /\ run \in BOOLEAN /\ req \in [Requests -> {"none", "waiting", "held", "done"}]
            /\ gone \subseteq Requests
        BY <1>1, DeliveredFacts
      <3> HIDE DEF gone, run
      <3>2. req[q.item] = "done"
        BY <1>1, <1>3, <3>1 DEF Queueing
      <3>3. QED
        BY <2>1, <3>1, <3>2
    <2>5. QED
      BY <1>1, <1>3, <2>1, <2>3, <2>4, DroppedStep DEF Deliver, Pumped
  <1>4. CASE q.value # "admitted"
    BY <1>1, <1>4, DroppedStep DEF Deliver, Pumped
  <1>5. QED
    BY <1>2, <1>3, <1>4

\* A start that fails answers the leases that wait for it,
LEMMA BackendFailsStep ==
    ASSUME IInv, BackendFails
    PROVE  IInv'
  <1> USE AssumptionFacts DEF IInv
  <1>1. /\ bar' \in Barriers(Requests, Nat) /\ Leased(bar', sup, model)
        /\ Served(bar') = Served(bar) /\ (Idle(bar') <=> Idle(bar))
        /\ bar'.accepting = bar.accepting /\ bar'.passedOver = bar.passedOver
        /\ bar'.stopped = bar.stopped
    <2>1. bar' = ReadySettles(bar, "failed") /\ bar \in Barriers(Requests, Nat) /\
            Leased(bar, sup, model)
      BY DEF BackendFails, BarrierInv, BarrierTypes, Leases
    <2>2. QED
      BY <2>1, SettleFacts
  <1>p0. ConfigTypes'
    BY <1>1 DEF ConfigTypes, BackendFails
  <1>p1. LaneInv'
    BY <1>1 DEF LaneInv, LaneTypes, Lane, BackendFails
  <1>p2. QueueInv'
    <2>1. RequestTypes'
      BY <1>1 DEF QueueInv, RequestTypes, BackendFails
    <2>2. Running' = Running
      BY <1>1, TaskFacts DEF Running, HeadIs, LaneInv, LaneTypes, BackendFails
    <2>3. Sound(q', model', req', aborted' \union rejected', Running)
      BY <1>1 DEF QueueInv, BackendFails
    <2>4. QED
      BY <2>1, <2>2, <2>3 DEF QueueInv
  <1>p3. BarrierInv'
    <2>1. (BarrierTypes /\ Leased(bar, sup, model))'
      BY <1>1 DEF BarrierInv, BarrierTypes, Leases, BackendFails
    <2>2. (Served(bar) = q.active \union (IF q.value = "admitted" THEN {q.item} ELSE {}))'
      BY <1>1 DEF BarrierInv, Leases, QueueInv, Sound, Queueing, BackendFails
    <2>3. (/\ HeadIs("dispatch", {"update", "stop", "settle"}) => Idle(bar)
           /\ HeadIs("reconcile", {"stop"}) => Idle(bar)
           /\ bar.stopped # 0 => HeadIs("dispatch", {"drain"}) \/ HeadIs("reconcile", {"drain"}))'
      BY <1>1, TaskFacts DEF BarrierInv, Leases, HeadIs, LaneInv, LaneTypes, BackendFails
    <2>4. QED
      BY <2>1, <2>2, <2>3 DEF BarrierInv, Leases
  <1>p4. RecoveryInv'
    BY <1>1 DEF RecoveryInv, RecoveryTypes, Claims, ClaimedMeansClosed, BackendFails
  <1>p5. TimerTypes'
    BY <1>1 DEF TimerTypes, BackendFails
  <1>p6. Targets'
    BY <1>1 DEF Targets, Who, Current, NoSup, Running, HeadIs, LaneTypes, On, BackendFails
  <1>p7. Reopening'
    BY <1>1 DEF Reopening, Who, NoSup, Reopens, HeadIs, LaneTypes, Queued, BackendFails
  <1>p8. Rejected'
    BY <1>1 DEF Rejected, Who, Running, HeadIs, LaneTypes, Queued, QueueInv, Sound,
                Queueing, BackendFails
  <1>q. QED
    BY <1>p0, <1>p1, <1>p2, <1>p3, <1>p4, <1>p5, <1>p6, <1>p7, <1>p8

\* and one that succeeds tells the queue its slots.
LEMMA BackendUpStep ==
    ASSUME IInv, BackendUp
    PROVE  IInv'
  <1> USE AssumptionFacts DEF IInv
  <1>1. /\ bar' \in Barriers(Requests, Nat) /\ Leased(bar', sup, model)
        /\ Served(bar') = Served(bar) /\ (Idle(bar') <=> Idle(bar))
        /\ bar'.accepting = bar.accepting /\ bar'.passedOver = bar.passedOver
        /\ bar'.stopped = bar.stopped
    <2>1. bar' = ReadySettles(bar, "ok") /\ bar \in Barriers(Requests, Nat) /\
            Leased(bar, sup, model)
      BY DEF BackendUp, BarrierInv, BarrierTypes, Leases
    <2>2. QED
      BY <2>1, SettleFacts
  <1>2. /\ Sound(q', model, req, aborted \union rejected, Running) /\ Grows({})
        /\ q'.value = q.value /\ q'.active = q.active /\ q'.closed = q.closed
        /\ q'.item = q.item \/ (q.item = NoRequest /\ q'.item # NoRequest)
    <2>1. Grown(lane, lane, {}) /\ cur' = cur
      BY GrownFacts DEF BackendUp, LaneInv, LaneTypes, Lane
    <2>2. CASE UNCHANGED <<q, lane>>
      BY <2>1, <2>2, GrowsFacts DEF QueueInv
    <2>3. CASE ~UNCHANGED <<q, lane>>
      <3>1. PICK a, s : s \in 1..Slots /\ Pumped(ResolveSlots(q, a, s), lane)
        BY <2>3 DEF BackendUp
      <3> DEFINE x == ResolveSlots(q, a, s)
                 gone == aborted \union rejected
      <3>2. /\ Sound(x, model, req, gone, Running) /\ x.item = q.item
            /\ x.value = q.value /\ x.active = q.active /\ x.closed = q.closed
        BY <3>1, ResolvedFacts
      <3>3. /\ q' = Pump(x, model)
            /\ lane' =
                 IF Pumps(x, model) THEN Append(lane, Task("dispatch", Head(x.pending))) ELSE lane
        BY <3>1 DEF Pumped
      <3> HIDE DEF x, gone
      <3>4. x \in Queues
        BY <3>2 DEF Sound
      <3>5. \A t \in {} : t.kind # "dispatch"
        OBVIOUS
      <3>6. /\ Sound(q', model, req, gone, Running) /\ Grows({})
            /\ q'.value = x.value /\ q'.active = x.active /\ q'.closed = x.closed
            /\ q'.item = x.item \/ (x.item = NoRequest /\ q'.item # NoRequest)
        BY <2>1, <3>2, <3>3, <3>4, <3>5, PumpingFacts
      <3>7. QED
        BY <3>2, <3>6 DEF gone
    <2>4. QED
      BY <2>2, <2>3
  <1>p0. ConfigTypes'
    BY <1>1, <1>2 DEF ConfigTypes, BackendUp
  <1>p1. LaneInv'
    BY <1>1, <1>2 DEF LaneInv, LaneTypes, Lane, Grows, BackendUp
  <1>p2. QueueInv'
    <2>1. RequestTypes'
      BY <1>1, <1>2 DEF QueueInv, RequestTypes, BackendUp
    <2>2. Running' = Running
      BY <1>1, <1>2, TaskFacts DEF Running, HeadIs, LaneInv, LaneTypes, Grows, BackendUp
    <2>3. Sound(q', model', req', aborted' \union rejected', Running)
      BY <1>1, <1>2 DEF QueueInv, BackendUp
    <2>4. QED
      BY <2>1, <2>2, <2>3 DEF QueueInv
  <1>p3. BarrierInv'
    <2>1. (BarrierTypes /\ Leased(bar, sup, model))'
      BY <1>1, <1>2 DEF BarrierInv, BarrierTypes, Leases, BackendUp
    <2>2. (Served(bar) = q.active \union (IF q.value = "admitted" THEN {q.item} ELSE {}))'
      BY <1>1, <1>2 DEF BarrierInv, Leases, QueueInv, Sound, Queueing, BackendUp
    <2>3. (/\ HeadIs("dispatch", {"update", "stop", "settle"}) => Idle(bar)
           /\ HeadIs("reconcile", {"stop"}) => Idle(bar)
           /\ bar.stopped # 0 => HeadIs("dispatch", {"drain"}) \/ HeadIs("reconcile", {"drain"}))'
      BY <1>1, <1>2, TaskFacts DEF BarrierInv, Leases, HeadIs, LaneInv, LaneTypes, Grows,
                                   BackendUp
    <2>4. QED
      BY <2>1, <2>2, <2>3 DEF BarrierInv, Leases
  <1>p4. RecoveryInv'
    BY <1>1, <1>2 DEF RecoveryInv, RecoveryTypes, Claims, ClaimedMeansClosed, BackendUp
  <1>p5. TimerTypes'
    BY <1>1, <1>2 DEF TimerTypes, BackendUp
  <1>p6. Targets'
    BY <1>1, <1>2 DEF Targets, Who, Current, NoSup, Running, HeadIs, LaneTypes, Grows, On,
                      BackendUp
  <1>p7. Reopening'
    BY <1>1, <1>2 DEF Reopening, Who, NoSup, Reopens, HeadIs, LaneTypes, Grows, Queued,
                      BackendUp
  <1>p8. Rejected'
    BY <1>1, <1>2 DEF Rejected, Who, Running, HeadIs, LaneTypes, Grows, Queued, QueueInv,
                      Sound, Queueing, BackendUp
  <1>q. QED
    BY <1>p0, <1>p1, <1>p2, <1>p3, <1>p4, <1>p5, <1>p6, <1>p7, <1>p8

\* A recovery that is aborted gives its claim up.
LEMMA RecoverAbortedStep ==
    ASSUME IInv, NEW p \in Recoveries, RecoverAborted(p)
    PROVE  IInv'
  <1> USE AssumptionFacts DEF IInv
  <1>1. Grown(lane, lane', {Task("claimRelease", p)}) /\
          Task("claimRelease", p).kind = "claimRelease" /\ Task("claimRelease", p).who = p
    <2>1. Task("claimRelease", p) \in Tasks /\ Task("claimRelease", p).kind = "claimRelease" /\
            Task("claimRelease", p).who = p
      BY TaskFacts DEF RecoverAborted, GiveUp
    <2>2. \A s \in ToSet(lane) : ~Alike(s, Task("claimRelease", p))
      BY TaskFacts DEF LaneInv, LaneTypes, Lane, Alike, RecoverAborted, GiveUp
    <2>3. QED
      BY <2>1, <2>2, PushFacts DEF LaneInv, LaneTypes, Lane, RecoverAborted, GiveUp
  <1>p0. ConfigTypes'
    BY <1>1 DEF ConfigTypes, RecoverAborted, GiveUp, RecoverIs, Disturb
  <1>p1. LaneInv'
    BY <1>1 DEF LaneInv, LaneTypes, Lane, Grown, Grows, Pops, Ended, RecoverAborted, GiveUp,
                RecoverIs, Disturb, RecoveryInv, RecoveryTypes
  <1>p2. QueueInv'
    <2>1. RequestTypes'
      BY <1>1 DEF QueueInv, RequestTypes, RecoverAborted, GiveUp, RecoverIs, Disturb
    <2>2. Running' = Running
      BY <1>1, TaskFacts DEF Running, HeadIs, LaneInv, LaneTypes, Grown, Grows, Pops,
                             RecoverAborted, GiveUp, RecoverIs, Disturb
    <2>3. Sound(q', model', req', aborted' \union rejected', Running)
      BY <1>1 DEF QueueInv, RecoverAborted, GiveUp, RecoverIs, Disturb
    <2>4. QED
      BY <2>1, <2>2, <2>3 DEF QueueInv
  <1>p3. BarrierInv'
    <2>1. (BarrierTypes /\ Leased(bar, sup, model))'
      BY <1>1 DEF Ended, BarrierInv, BarrierTypes, Leases, RecoverAborted, GiveUp,
                  RecoverIs, Disturb
    <2>2. (Served(bar) = q.active \union (IF q.value = "admitted" THEN {q.item} ELSE {}))'
      BY <1>1 DEF Ended, BarrierInv, Leases, QueueInv, Sound, Queueing, RecoverAborted,
                  GiveUp, RecoverIs, Disturb
    <2>3. (/\ HeadIs("dispatch", {"update", "stop", "settle"}) => Idle(bar)
           /\ HeadIs("reconcile", {"stop"}) => Idle(bar)
           /\ bar.stopped # 0 => HeadIs("dispatch", {"drain"}) \/ HeadIs("reconcile", {"drain"}))'
      BY <1>1, TaskFacts DEF BarrierInv, Leases, HeadIs, LaneInv, LaneTypes, Grown, Grows,
                             Pops, Ended, RecoverAborted, GiveUp, RecoverIs, Disturb
    <2>4. QED
      BY <2>1, <2>2, <2>3 DEF BarrierInv, Leases
  <1>p4. RecoveryInv'
    BY <1>1 DEF RecoveryInv, RecoveryTypes, Claims, ClaimedMeansClosed, Ended,
                RecoverAborted, GiveUp, RecoverIs, Disturb
  <1>p5. TimerTypes'
    BY <1>1 DEF TimerTypes, Ended, RecoverAborted, GiveUp, RecoverIs, Disturb
  <1>p6. Targets'
    BY <1>1 DEF Targets, Who, Current, NoSup, Running, HeadIs, LaneTypes, Grown, Grows,
                Pops, Ended, On, RecoverAborted, GiveUp, RecoverIs, Disturb
  <1>p7. Reopening'
    BY <1>1 DEF Reopening, Who, NoSup, Reopens, HeadIs, LaneTypes, Grown, Grows, Pops,
                Ended, Queued, RecoverAborted, GiveUp, RecoverIs, Disturb, RecoveryInv,
                RecoveryTypes
  <1>p8. Rejected'
    BY <1>1 DEF Rejected, Who, Running, HeadIs, LaneTypes, Grown, Grows, Pops, Ended,
                Queued, QueueInv, Sound, Queueing, RecoverAborted, GiveUp, RecoverIs,
                Disturb
  <1>q. QED
    BY <1>p0, <1>p1, <1>p2, <1>p3, <1>p4, <1>p5, <1>p6, <1>p7, <1>p8

\* A recovery whose projection is known queues its stop,
LEMMA KillingStep ==
    ASSUME IInv, NEW p \in Recoveries, rec[p].at = "claimed", RecoverIs(p, "killing"),
           lane' = Append(lane, Task("claimKill", p)), UNCHANGED claim,
           UNCHANGED <<modality, config, backend, cur, q, bar, requests, safeguard, reload, left>>
    PROVE  IInv'
  <1> USE AssumptionFacts DEF IInv
  <1>1. Grown(lane, lane', {Task("claimKill", p)}) /\ Task("claimKill", p).kind = "claimKill" /\
          Task("claimKill", p).who = p
    <2>1. Task("claimKill", p) \in Tasks /\ Task("claimKill", p).kind = "claimKill" /\
            Task("claimKill", p).who = p
      BY TaskFacts DEF GiveUp
    <2>2. \A s \in ToSet(lane) : ~Alike(s, Task("claimKill", p))
      BY TaskFacts DEF LaneInv, LaneTypes, Lane, Alike, GiveUp
    <2>3. QED
      BY <2>1, <2>2, PushFacts DEF LaneInv, LaneTypes, Lane, GiveUp
  <1>p0. ConfigTypes'
    BY <1>1 DEF ConfigTypes, GiveUp, RecoverIs
  <1>p1. LaneInv'
    BY <1>1 DEF LaneInv, LaneTypes, Lane, Grown, Grows, Pops, Ended, GiveUp, RecoverIs,
                RecoveryInv, RecoveryTypes
  <1>p2. QueueInv'
    <2>1. RequestTypes'
      BY <1>1 DEF QueueInv, RequestTypes, GiveUp, RecoverIs
    <2>2. Running' = Running
      BY <1>1, TaskFacts DEF Running, HeadIs, LaneInv, LaneTypes, Grown, Grows, Pops,
                             GiveUp, RecoverIs
    <2>3. Sound(q', model', req', aborted' \union rejected', Running)
      BY <1>1 DEF QueueInv, GiveUp, RecoverIs
    <2>4. QED
      BY <2>1, <2>2, <2>3 DEF QueueInv
  <1>p3. BarrierInv'
    <2>1. (BarrierTypes /\ Leased(bar, sup, model))'
      BY <1>1 DEF Ended, BarrierInv, BarrierTypes, Leases, GiveUp, RecoverIs
    <2>2. (Served(bar) = q.active \union (IF q.value = "admitted" THEN {q.item} ELSE {}))'
      BY <1>1 DEF Ended, BarrierInv, Leases, QueueInv, Sound, Queueing, GiveUp, RecoverIs
    <2>3. (/\ HeadIs("dispatch", {"update", "stop", "settle"}) => Idle(bar)
           /\ HeadIs("reconcile", {"stop"}) => Idle(bar)
           /\ bar.stopped # 0 => HeadIs("dispatch", {"drain"}) \/ HeadIs("reconcile", {"drain"}))'
      BY <1>1, TaskFacts DEF BarrierInv, Leases, HeadIs, LaneInv, LaneTypes, Grown, Grows,
                             Pops, Ended, GiveUp, RecoverIs
    <2>4. QED
      BY <2>1, <2>2, <2>3 DEF BarrierInv, Leases
  <1>p4. RecoveryInv'
    BY <1>1 DEF RecoveryInv, RecoveryTypes, Claims, ClaimedMeansClosed, Ended, GiveUp,
                RecoverIs
  <1>p5. TimerTypes'
    BY <1>1 DEF TimerTypes, Ended, GiveUp, RecoverIs
  <1>p6. Targets'
    BY <1>1 DEF Targets, Who, Current, NoSup, Running, HeadIs, LaneTypes, Grown, Grows,
                Pops, Ended, On, GiveUp, RecoverIs
  <1>p7. Reopening'
    BY <1>1 DEF Reopening, Who, NoSup, Reopens, HeadIs, LaneTypes, Grown, Grows, Pops,
                Ended, Queued, GiveUp, RecoverIs, RecoveryInv, RecoveryTypes
  <1>p8. Rejected'
    BY <1>1 DEF Rejected, Who, Running, HeadIs, LaneTypes, Grown, Grows, Pops, Ended,
                Queued, QueueInv, Sound, Queueing, GiveUp, RecoverIs
  <1>q. QED
    BY <1>p0, <1>p1, <1>p2, <1>p3, <1>p4, <1>p5, <1>p6, <1>p7, <1>p8

\* or gives its claim up.
LEMMA GivingUpStep ==
    ASSUME IInv, NEW p \in Recoveries, rec[p].at = "claimed", GiveUp(p, lane),
           UNCHANGED <<modality, config, backend, cur, q, bar, requests, safeguard, reload, left>>
    PROVE  IInv'
  <1> USE AssumptionFacts DEF IInv
  <1>1. Grown(lane, lane', {Task("claimRelease", p)}) /\
          Task("claimRelease", p).kind = "claimRelease" /\ Task("claimRelease", p).who = p
    <2>1. Task("claimRelease", p) \in Tasks /\ Task("claimRelease", p).kind = "claimRelease" /\
            Task("claimRelease", p).who = p
      BY TaskFacts DEF GiveUp
    <2>2. \A s \in ToSet(lane) : ~Alike(s, Task("claimRelease", p))
      BY TaskFacts DEF LaneInv, LaneTypes, Lane, Alike, GiveUp
    <2>3. QED
      BY <2>1, <2>2, PushFacts DEF LaneInv, LaneTypes, Lane, GiveUp
  <1>p0. ConfigTypes'
    BY <1>1 DEF ConfigTypes, GiveUp, RecoverIs
  <1>p1. LaneInv'
    BY <1>1 DEF LaneInv, LaneTypes, Lane, Grown, Grows, Pops, Ended, GiveUp, RecoverIs,
                RecoveryInv, RecoveryTypes
  <1>p2. QueueInv'
    <2>1. RequestTypes'
      BY <1>1 DEF QueueInv, RequestTypes, GiveUp, RecoverIs
    <2>2. Running' = Running
      BY <1>1, TaskFacts DEF Running, HeadIs, LaneInv, LaneTypes, Grown, Grows, Pops,
                             GiveUp, RecoverIs
    <2>3. Sound(q', model', req', aborted' \union rejected', Running)
      BY <1>1 DEF QueueInv, GiveUp, RecoverIs
    <2>4. QED
      BY <2>1, <2>2, <2>3 DEF QueueInv
  <1>p3. BarrierInv'
    <2>1. (BarrierTypes /\ Leased(bar, sup, model))'
      BY <1>1 DEF Ended, BarrierInv, BarrierTypes, Leases, GiveUp, RecoverIs
    <2>2. (Served(bar) = q.active \union (IF q.value = "admitted" THEN {q.item} ELSE {}))'
      BY <1>1 DEF Ended, BarrierInv, Leases, QueueInv, Sound, Queueing, GiveUp, RecoverIs
    <2>3. (/\ HeadIs("dispatch", {"update", "stop", "settle"}) => Idle(bar)
           /\ HeadIs("reconcile", {"stop"}) => Idle(bar)
           /\ bar.stopped # 0 => HeadIs("dispatch", {"drain"}) \/ HeadIs("reconcile", {"drain"}))'
      BY <1>1, TaskFacts DEF BarrierInv, Leases, HeadIs, LaneInv, LaneTypes, Grown, Grows,
                             Pops, Ended, GiveUp, RecoverIs
    <2>4. QED
      BY <2>1, <2>2, <2>3 DEF BarrierInv, Leases
  <1>p4. RecoveryInv'
    BY <1>1 DEF RecoveryInv, RecoveryTypes, Claims, ClaimedMeansClosed, Ended, GiveUp,
                RecoverIs
  <1>p5. TimerTypes'
    BY <1>1 DEF TimerTypes, Ended, GiveUp, RecoverIs
  <1>p6. Targets'
    BY <1>1 DEF Targets, Who, Current, NoSup, Running, HeadIs, LaneTypes, Grown, Grows,
                Pops, Ended, On, GiveUp, RecoverIs
  <1>p7. Reopening'
    BY <1>1 DEF Reopening, Who, NoSup, Reopens, HeadIs, LaneTypes, Grown, Grows, Pops,
                Ended, Queued, GiveUp, RecoverIs, RecoveryInv, RecoveryTypes
  <1>p8. Rejected'
    BY <1>1 DEF Rejected, Who, Running, HeadIs, LaneTypes, Grown, Grows, Pops, Ended,
                Queued, QueueInv, Sound, Queueing, GiveUp, RecoverIs
  <1>q. QED
    BY <1>p0, <1>p1, <1>p2, <1>p3, <1>p4, <1>p5, <1>p6, <1>p7, <1>p8

\* A call of the recovery's project keeps the invariant.
LEMMA ProjectStep ==
    ASSUME IInv, NEW p \in Recoveries, Project(p)
    PROVE  IInv'
  BY KillingStep, GivingUpStep DEF Project

\* A refresh is scheduled to be applied.
LEMMA RefreshStep ==
    ASSUME IInv, Refresh
    PROVE  IInv'
  <1> USE AssumptionFacts DEF IInv
  <1>1. PICK ts : /\ Grown(lane, lane', ts) /\ \A t \in ts : t.kind = "reconcile"
                  /\ scheduled' \in BOOLEAN /\ (scheduled' <=> scheduled \/ ts # {})
    BY CoordinateFacts DEF Refresh
  <1>2. /\ snapshot' \in Snapshots /\ snapshot.rev <= snapshot'.rev
        /\ snapshot'.rev = snapshot.rev => snapshot' = snapshot
        /\ \A x : x.rev \in Nat /\ Current(x, snapshot) => Current(x, snapshot')
    BY CoordinateFacts DEF Refresh
  <1>3. Grows(ts)
    BY <1>1, GrowsFacts DEF Refresh
  <1>4. snapshot.rev \in Nat /\ snapshot'.rev \in Nat /\ applied.rev \in Nat /\
          cur.target.rev \in Nat
    BY <1>2 DEF ConfigTypes, Snapshots, LaneInv, LaneTypes, Waits
  <1>p0. ConfigTypes'
    BY <1>1, <1>2, <1>3, <1>4 DEF ConfigTypes, Refresh, Coordinate, Targets, Snapshots
  <1>p1. LaneInv'
    BY <1>1, <1>2, <1>3, <1>4 DEF LaneInv, LaneTypes, Lane, Grows, Refresh, Coordinate
  <1>p2. QueueInv'
    <2>1. RequestTypes'
      BY <1>1, <1>2, <1>3, <1>4 DEF QueueInv, RequestTypes, Refresh, Coordinate
    <2>2. Running' = Running
      BY <1>1, <1>2, <1>3, <1>4, TaskFacts DEF Running, HeadIs, LaneInv, LaneTypes, Grows,
             Refresh, Coordinate
    <2>3. Sound(q', model', req', aborted' \union rejected', Running)
      BY <1>1, <1>2, <1>3, <1>4 DEF QueueInv, Refresh, Coordinate
    <2>4. QED
      BY <2>1, <2>2, <2>3 DEF QueueInv
  <1>p3. BarrierInv'
    <2>1. (BarrierTypes /\ Leased(bar, sup, model))'
      BY <1>1, <1>2, <1>3, <1>4 DEF BarrierInv, BarrierTypes, Leases, Refresh, Coordinate
    <2>2. (Served(bar) = q.active \union (IF q.value = "admitted" THEN {q.item} ELSE {}))'
      BY <1>1, <1>2, <1>3, <1>4 DEF BarrierInv, Leases, QueueInv, Sound, Queueing, Refresh,
                                    Coordinate
    <2>3. (/\ HeadIs("dispatch", {"update", "stop", "settle"}) => Idle(bar)
           /\ HeadIs("reconcile", {"stop"}) => Idle(bar)
           /\ bar.stopped # 0 => HeadIs("dispatch", {"drain"}) \/ HeadIs("reconcile", {"drain"}))'
      BY <1>1, <1>2, <1>3, <1>4, TaskFacts DEF BarrierInv, Leases, HeadIs, LaneInv,
             LaneTypes, Grows, Refresh, Coordinate
    <2>4. QED
      BY <2>1, <2>2, <2>3 DEF BarrierInv, Leases
  <1>p4. RecoveryInv'
    BY <1>1, <1>2, <1>3, <1>4 DEF RecoveryInv, RecoveryTypes, Claims, ClaimedMeansClosed,
                                  Refresh, Coordinate
  <1>p5. TimerTypes'
    BY <1>1, <1>2, <1>3, <1>4 DEF TimerTypes, Refresh, Coordinate
  <1>p6. Targets'
    <2>1. Current(applied, snapshot) /\ Current(applied, snapshot')
      BY <1>2, <1>4 DEF Targets
    <2>2. HeadIs("dispatch", {"stop", "settle"})' =>
            HeadIs("dispatch", {"stop", "settle"}) /\ Who' = Who
      BY <1>3 DEF Grows, HeadIs, Who, Refresh
    <2>3. HeadIs("reconcile", {"stop"})' => HeadIs("reconcile", {"stop"})
      BY <1>3 DEF Grows, HeadIs, Who, Refresh
    <2>4. HeadIs("reconcile", {"preflight", "drain", "stop"})' =>
            HeadIs("reconcile", {"preflight", "drain", "stop"})
      BY <1>3 DEF Grows, HeadIs, Who, Refresh
    <2>5. Running' => Running /\ Who' = Who
      BY <1>3 DEF Grows, HeadIs, Who, Refresh, Running
    <2>6. Current(cur.target, snapshot) => Current(cur.target, snapshot')
      BY <1>2, <1>4
    <2>7. sup = NoSup /\ On(snapshot') => applied.rev # snapshot'.rev
      BY <1>2, <1>4, <2>1 DEF Targets, Current, On
    <2>8. HeadIs("safeguard", {"slots"})' =>
            HeadIs("safeguard", {"slots"}) /\ Who' = Who
      BY <1>3 DEF Grows, HeadIs, Who, Refresh
    <2>9. QED
      BY <2>1, <2>2, <2>3, <2>4, <2>5, <2>6, <2>7, <2>8 DEF Targets, Refresh, Coordinate, On
  <1>p7. Reopening'
    BY <1>1, <1>2, <1>3, <1>4 DEF Reopening, Who, NoSup, Reopens, HeadIs, LaneTypes, Grows,
                                  Queued, Refresh, Coordinate
  <1>p8. Rejected'
    BY <1>1, <1>2, <1>3, <1>4 DEF Rejected, Who, Running, HeadIs, LaneTypes, Grows, Queued,
                                  QueueInv, Sound, Queueing, Refresh, Coordinate
  <1>q. QED
    BY <1>p0, <1>p1, <1>p2, <1>p3, <1>p4, <1>p5, <1>p6, <1>p7, <1>p8

\* A request arrives, and the snapshot is refreshed for it.
LEMMA ArriveStep ==
    ASSUME IInv, NEW r \in Requests, NEW a \in Models, Arrive(r, a)
    PROVE  IInv'
  <1> USE AssumptionFacts DEF IInv
  <1>0. /\ req[r] = "none" /\ Coordinate /\ model' = [model EXCEPT ![r] = a] /\ cur' = cur
        /\ UNCHANGED <<modality, backend, bar, aborted, rejected, recovery, safeguard, reload,
             left>>
    BY DEF Arrive
  <1>1. PICK ts :
            /\ Grows(ts) /\ \A t \in ts : t.kind = "reconcile"
            /\ scheduled' \in BOOLEAN /\ (scheduled' <=> scheduled \/ ts # {})
            /\ Sound(q', model', req', aborted \union rejected, Running)
            /\ q'.value = q.value /\ q'.active = q.active /\ q'.closed = q.closed
            /\ req' \in [Requests -> {"none", "waiting", "held", "done"}]
            /\ model' \in [Requests -> Models \union {NoModel}]
            /\ q'.item = q.item \/ (q.item = NoRequest /\ q'.item # NoRequest)
    BY ArrivedFacts
  <1>2. /\ snapshot' \in Snapshots /\ snapshot.rev <= snapshot'.rev
        /\ snapshot'.rev = snapshot.rev => snapshot' = snapshot
        /\ \A x : x.rev \in Nat /\ Current(x, snapshot) => Current(x, snapshot')
    BY <1>0, CoordinateFacts
  <1>4. snapshot.rev \in Nat /\ snapshot'.rev \in Nat /\ applied.rev \in Nat /\
          cur.target.rev \in Nat
    BY <1>2 DEF ConfigTypes, Snapshots, LaneInv, LaneTypes, Waits
  <1>5. /\ r \notin Served(bar) /\ q.item # r
        /\ Served(bar) = q.active \union (IF q.value = "admitted" THEN {q.item} ELSE {})
    <2>1. r \notin q.active
      BY <1>0 DEF QueueInv, Sound, Permits
    <2>2. q.item = r => r # NoRequest
      BY DEF NoRequest
    <2>3. q.item # r
      BY <1>0, <2>2 DEF QueueInv, Sound, Queueing
    <2>4. Served(bar) = q.active \union (IF q.value = "admitted" THEN {q.item} ELSE {})
      BY DEF BarrierInv, Leases
    <2>5. QED
      BY <2>1, <2>3, <2>4
  <1>6. \A z \in Requests \ {r} : model'[z] = model[z]
    BY <1>0 DEF QueueInv, RequestTypes
  <1>7. Leased(bar', sup', model')
    <2>1. bar' = bar /\ sup' = sup /\ Leased(bar, sup, model) /\ Served(bar) \subseteq Requests
      BY <1>0, BarrierFacts DEF BarrierInv, BarrierTypes, Leases
    <2>2. \A i \in DOMAIN bar.leases : bar.leases[i].r \in Requests \ {r}
      BY <1>5, <2>1 DEF Served
    <2>3. QED
      BY <1>6, <2>1, <2>2 DEF Leased
  <1>8. Running => Who = q.item /\ q.item \in Requests \ {r}
    <2>1. Running => Who = q.item /\ q.item # NoRequest
      BY HeadFacts DEF LaneInv, Lane, Running, HeadIs, Who
    <2>2. q.item \in Requests \union {NoRequest}
      BY DEF QueueInv, Sound, Queues
    <2>3. QED
      BY <1>5, <2>1, <2>2
  <1>p0. ConfigTypes'
    BY <1>0, <1>1, <1>2, <1>4, <1>5, <1>6, <1>7, <1>8 DEF ConfigTypes, Coordinate, Targets,
           Snapshots
  <1>p1. LaneInv'
    BY <1>0, <1>1, <1>2, <1>4, <1>5, <1>6, <1>7, <1>8 DEF LaneInv, LaneTypes, Lane, Grows,
           Coordinate
  <1>p2. QueueInv'
    <2>1. RequestTypes'
      BY <1>0, <1>1, <1>2, <1>4, <1>5, <1>6, <1>7, <1>8
         DEF QueueInv, RequestTypes, Coordinate
    <2>2. Running' = Running
      BY <1>0, <1>1, <1>2, <1>4, <1>5, <1>6, <1>7, <1>8, TaskFacts
         DEF Running, HeadIs, LaneInv, LaneTypes, Grows, Coordinate
    <2>3. Sound(q', model', req', aborted' \union rejected', Running)
      BY <1>0, <1>1, <1>2, <1>4, <1>5, <1>6, <1>7, <1>8 DEF QueueInv, Coordinate
    <2>4. QED
      BY <2>1, <2>2, <2>3 DEF QueueInv
  <1>p3. BarrierInv'
    <2>1. (BarrierTypes /\ Leased(bar, sup, model))'
      BY <1>0, <1>1, <1>2, <1>4, <1>5, <1>6, <1>7, <1>8
         DEF BarrierInv, BarrierTypes, Leases, Coordinate
    <2>2. (Served(bar) = q.active \union (IF q.value = "admitted" THEN {q.item} ELSE {}))'
      BY <1>0, <1>1, <1>2, <1>4, <1>5, <1>6, <1>7, <1>8
         DEF BarrierInv, Leases, QueueInv, Sound, Queueing, Coordinate
    <2>3. (/\ HeadIs("dispatch", {"update", "stop", "settle"}) => Idle(bar)
           /\ HeadIs("reconcile", {"stop"}) => Idle(bar)
           /\ bar.stopped # 0 => HeadIs("dispatch", {"drain"}) \/ HeadIs("reconcile", {"drain"}))'
      BY <1>0, <1>1, <1>2, <1>4, <1>5, <1>6, <1>7, <1>8, TaskFacts
         DEF BarrierInv, Leases, HeadIs, LaneInv, LaneTypes, Grows, Coordinate
    <2>4. QED
      BY <2>1, <2>2, <2>3 DEF BarrierInv, Leases
  <1>p4. RecoveryInv'
    BY <1>0, <1>1, <1>2, <1>4, <1>5, <1>6, <1>7, <1>8 DEF RecoveryInv, RecoveryTypes,
           Claims, ClaimedMeansClosed, Coordinate
  <1>p5. TimerTypes'
    BY <1>0, <1>1, <1>2, <1>4, <1>5, <1>6, <1>7, <1>8 DEF TimerTypes, Coordinate
  <1>p6. Targets'
    <2>1. Current(applied, snapshot) /\ Current(applied, snapshot')
      BY <1>2, <1>4 DEF Targets
    <2>2. HeadIs("dispatch", {"stop", "settle"})' =>
            HeadIs("dispatch", {"stop", "settle"}) /\ Who' = Who
      BY <1>0, <1>1 DEF Grows, HeadIs, Who
    <2>3. HeadIs("reconcile", {"stop"})' => HeadIs("reconcile", {"stop"})
      BY <1>0, <1>1 DEF Grows, HeadIs, Who
    <2>4. HeadIs("reconcile", {"preflight", "drain", "stop"})' =>
            HeadIs("reconcile", {"preflight", "drain", "stop"})
      BY <1>0, <1>1 DEF Grows, HeadIs, Who
    <2>5. Running' => Running /\ Who' = Who
      BY <1>0, <1>1 DEF Grows, HeadIs, Who, Running
    <2>6. Current(cur.target, snapshot) => Current(cur.target, snapshot')
      BY <1>2, <1>4
    <2>7. sup = NoSup /\ On(snapshot') => applied.rev # snapshot'.rev
      BY <1>2, <1>4, <2>1 DEF Targets, Current, On
    <2>9. HeadIs("dispatch", {"stop", "settle"}) => Running
      BY DEF HeadIs, Running
    <2>10. Running => model'[Who] = model[Who]
      BY <1>6, <1>8
    <2>11. HeadIs("safeguard", {"slots"})' =>
             HeadIs("safeguard", {"slots"}) /\ Who' = Who
      BY <1>0, <1>1 DEF Grows, HeadIs, Who
    <2>12. QED
      BY <1>0, <2>1, <2>2, <2>3, <2>4, <2>5, <2>6, <2>7, <2>9, <2>10, <2>11
         DEF Targets, Coordinate, On
  <1>p7. Reopening'
    BY <1>0, <1>1, <1>2, <1>4, <1>5, <1>6, <1>7, <1>8 DEF Reopening, Who, NoSup, Reopens,
           HeadIs, LaneTypes, Grows, Queued, Coordinate
  <1>p8. Rejected'
    BY <1>0, <1>1, <1>2, <1>4, <1>5, <1>6, <1>7, <1>8 DEF Rejected, Who, Running, HeadIs,
           LaneTypes, Grows, Queued, QueueInv, Sound, Queueing, Coordinate
  <1>q. QED
    BY <1>p0, <1>p1, <1>p2, <1>p3, <1>p4, <1>p5, <1>p6, <1>p7, <1>p8

\* An eviction finds no supervisor,
LEMMA EvictNobodyStep ==
    ASSUME IInv, At("evictAll", "begin"),
           sup = NoSup, Over, UNCHANGED <<backend, bar>>,
           UNCHANGED <<modality, config, q, requests, recovery, safeguard, reload, left>>
    PROVE  IInv'
  <1> USE AssumptionFacts DEF IInv
  <1>h. lane # <<>> /\ Head(lane).kind = "evictAll" /\ cur.at = "begin"
    BY DEF At
  <1>w. Head(lane) \in ToSet(lane) /\ Head(lane) \in Tasks /\ Who \in Nat
    BY <1>h, HeadFacts
  <1>m. Pops({}) /\ cur' = Fresh /\ cur' \in Waits /\ cur'.at = "begin"
    BY <1>h, OverFacts, TaskFacts DEF Over
  <1>s. bar.stopped = 0
    BY <1>h DEF BarrierInv, BarrierTypes, Barriers, Leases, HeadIs
  <1>b0. bar' = bar /\ Leased(bar', sup, model)
    BY DEF BarrierInv, Leases
  <1>p0. ConfigTypes'
    BY <1>h, <1>w, <1>m, <1>s, <1>b0 DEF ConfigTypes
  <1>p1. LaneInv'
    BY <1>h, <1>w, <1>m, <1>s, <1>b0 DEF LaneInv, LaneTypes, Lane, Pops
  <1>p2. QueueInv'
    <2>1. RequestTypes'
      BY <1>h, <1>w, <1>m, <1>s, <1>b0 DEF QueueInv, RequestTypes
    <2>2. Running' = Running
      BY <1>h, <1>w, <1>m, <1>s, <1>b0, TaskFacts DEF Running, HeadIs, LaneInv, LaneTypes,
             Pops
    <2>3. Sound(q', model', req', aborted' \union rejected', Running)
      BY <1>h, <1>w, <1>m, <1>s, <1>b0 DEF QueueInv
    <2>4. QED
      BY <2>1, <2>2, <2>3 DEF QueueInv
  <1>p3. BarrierInv'
    <2>1. (BarrierTypes /\ Leased(bar, sup, model))'
      BY <1>h, <1>w, <1>m, <1>s, <1>b0 DEF BarrierInv, BarrierTypes, Leases
    <2>2. (Served(bar) = q.active \union (IF q.value = "admitted" THEN {q.item} ELSE {}))'
      BY <1>h, <1>w, <1>m, <1>s, <1>b0 DEF BarrierInv, Leases, QueueInv, Sound, Queueing
    <2>3. (/\ HeadIs("dispatch", {"update", "stop", "settle"}) => Idle(bar)
           /\ HeadIs("reconcile", {"stop"}) => Idle(bar)
           /\ bar.stopped # 0 => HeadIs("dispatch", {"drain"}) \/ HeadIs("reconcile", {"drain"}))'
      BY <1>h, <1>w, <1>m, <1>s, <1>b0, TaskFacts DEF BarrierInv, Leases, HeadIs, LaneInv,
             LaneTypes, Pops
    <2>4. QED
      BY <2>1, <2>2, <2>3 DEF BarrierInv, Leases
  <1>p4. RecoveryInv'
    BY <1>h, <1>w, <1>m, <1>s, <1>b0 DEF RecoveryInv, RecoveryTypes, Claims,
                                         ClaimedMeansClosed
  <1>p5. TimerTypes'
    BY <1>h, <1>w, <1>m, <1>s, <1>b0 DEF TimerTypes
  <1>p6. Targets'
    BY <1>h, <1>w, <1>m, <1>s, <1>b0 DEF Targets, Who, Current, NoSup, Running, HeadIs,
                                         LaneTypes, Pops, On
  <1>p7. Reopening'
    BY <1>h, <1>w, <1>m, <1>s, <1>b0 DEF Reopening, Who, NoSup, Reopens, HeadIs, LaneTypes,
                                         Pops, Queued
  <1>p8. Rejected'
    BY <1>h, <1>w, <1>m, <1>s, <1>b0 DEF Rejected, Who, Running, HeadIs, LaneTypes, Pops,
                                         Queued, QueueInv, Sound, Queueing
  <1>q. QED
    BY <1>p0, <1>p1, <1>p2, <1>p3, <1>p4, <1>p5, <1>p6, <1>p7, <1>p8

\* or begins to kill it,
LEMMA EvictAllStep ==
    ASSUME IInv, At("evictAll", "begin"),
           sup # NoSup, BeginKill(Detach(bar)), Goto("kill"),
           UNCHANGED <<modality, config, q, requests, recovery, safeguard, reload, left>>
    PROVE  IInv'
  <1> USE AssumptionFacts DEF IInv
  <1>h. lane # <<>> /\ Head(lane).kind = "evictAll" /\ cur.at = "begin"
    BY DEF At
  <1>w. Head(lane) \in ToSet(lane) /\ Head(lane) \in Tasks /\ Who \in Nat
    BY <1>h, HeadFacts
  <1>m. /\ lane' = lane /\ cur' \in Waits /\ cur'.at = "kill"
        /\ cur'.target = cur.target
    BY <1>h, GotoFacts
  <1>s. bar.stopped = 0
    BY <1>h DEF BarrierInv, BarrierTypes, Barriers, Leases, HeadIs
  <1>b0. /\ bar' \in Barriers(Requests, Nat) /\ Leased(bar', sup, model)
         /\ Served(bar') = Served(bar) /\ (Idle(bar') <=> Idle(bar)) /\ bar'.stopped = bar.stopped
         /\ bar'.passedOver = bar.passedOver
         /\ bar'.accepting = FALSE
         /\ life' = (IF life \in {"starting", "running"} THEN "stopping" ELSE life)
         /\ sup' = sup /\ made' = made
    <2>1. bar' = ReadySettles(Detach(bar), "failed")
      BY DEF BeginKill
    <2>2. bar' \in Barriers(Requests, Nat)
      BY <2>1, KillFacts
    <2>3. QED
      BY <2>1, <2>2, KillFacts DEF BeginKill, Barriers
  <1>p0. ConfigTypes'
    BY <1>h, <1>w, <1>m, <1>s, <1>b0 DEF ConfigTypes
  <1>p1. LaneInv'
    BY <1>h, <1>w, <1>m, <1>s, <1>b0 DEF LaneInv, LaneTypes, Lane
  <1>p2. QueueInv'
    <2>1. RequestTypes'
      BY <1>h, <1>w, <1>m, <1>s, <1>b0 DEF QueueInv, RequestTypes
    <2>2. Running' = Running
      BY <1>h, <1>w, <1>m, <1>s, <1>b0, TaskFacts DEF Running, HeadIs, LaneInv, LaneTypes
    <2>3. Sound(q', model', req', aborted' \union rejected', Running)
      BY <1>h, <1>w, <1>m, <1>s, <1>b0 DEF QueueInv
    <2>4. QED
      BY <2>1, <2>2, <2>3 DEF QueueInv
  <1>p3. BarrierInv'
    <2>1. (BarrierTypes /\ Leased(bar, sup, model))'
      BY <1>h, <1>w, <1>m, <1>s, <1>b0 DEF BarrierInv, BarrierTypes, Leases
    <2>2. (Served(bar) = q.active \union (IF q.value = "admitted" THEN {q.item} ELSE {}))'
      BY <1>h, <1>w, <1>m, <1>s, <1>b0 DEF BarrierInv, Leases, QueueInv, Sound, Queueing
    <2>3. (/\ HeadIs("dispatch", {"update", "stop", "settle"}) => Idle(bar)
           /\ HeadIs("reconcile", {"stop"}) => Idle(bar)
           /\ bar.stopped # 0 => HeadIs("dispatch", {"drain"}) \/ HeadIs("reconcile", {"drain"}))'
      BY <1>h, <1>w, <1>m, <1>s, <1>b0, TaskFacts DEF BarrierInv, Leases, HeadIs, LaneInv,
             LaneTypes
    <2>4. QED
      BY <2>1, <2>2, <2>3 DEF BarrierInv, Leases
  <1>p4. RecoveryInv'
    BY <1>h, <1>w, <1>m, <1>s, <1>b0 DEF RecoveryInv, RecoveryTypes, Claims,
                                         ClaimedMeansClosed
  <1>p5. TimerTypes'
    BY <1>h, <1>w, <1>m, <1>s, <1>b0 DEF TimerTypes
  <1>p6. Targets'
    BY <1>h, <1>w, <1>m, <1>s, <1>b0 DEF Targets, Who, Current, NoSup, Running, HeadIs,
                                         LaneTypes, On
  <1>p7. Reopening'
    BY <1>h, <1>w, <1>m, <1>s, <1>b0 DEF Reopening, Who, NoSup, Reopens, HeadIs, LaneTypes,
                                         Queued
  <1>p8. Rejected'
    BY <1>h, <1>w, <1>m, <1>s, <1>b0 DEF Rejected, Who, Running, HeadIs, LaneTypes, Queued,
                                         QueueInv, Sound, Queueing
  <1>q. QED
    BY <1>p0, <1>p1, <1>p2, <1>p3, <1>p4, <1>p5, <1>p6, <1>p7, <1>p8

\* waits for its leases,
LEMMA EvictAllKilledStep ==
    ASSUME IInv, At("evictAll", "kill"),
           EndKill, Goto("drain"),
           UNCHANGED <<modality, config, q, bar, requests, recovery, safeguard, reload>>
    PROVE  IInv'
  <1> USE AssumptionFacts DEF IInv
  <1>h. lane # <<>> /\ Head(lane).kind = "evictAll" /\ cur.at = "kill"
    BY DEF At
  <1>w. Head(lane) \in ToSet(lane) /\ Head(lane) \in Tasks /\ Who \in Nat
    BY <1>h, HeadFacts
  <1>m. /\ lane' = lane /\ cur' \in Waits /\ cur'.at = "drain"
        /\ cur'.target = cur.target
    BY <1>h, GotoFacts
  <1>s. bar.stopped = 0
    BY <1>h DEF BarrierInv, BarrierTypes, Barriers, Leases, HeadIs
  <1>b0. bar' = bar /\ Leased(bar', sup, model)
    BY DEF BarrierInv, Leases
  <1>b1. /\ life' \in {"idle", "failed"} /\ sup' = sup /\ made' = made
         /\ left' \in 0..MaxDisturbances
    BY DEF EndKill, Outcome, Disturb, TimerTypes
  <1>p0. ConfigTypes'
    BY <1>h, <1>w, <1>m, <1>s, <1>b0, <1>b1 DEF ConfigTypes
  <1>p1. LaneInv'
    BY <1>h, <1>w, <1>m, <1>s, <1>b0, <1>b1 DEF LaneInv, LaneTypes, Lane
  <1>p2. QueueInv'
    <2>1. RequestTypes'
      BY <1>h, <1>w, <1>m, <1>s, <1>b0, <1>b1 DEF QueueInv, RequestTypes
    <2>2. Running' = Running
      BY <1>h, <1>w, <1>m, <1>s, <1>b0, <1>b1, TaskFacts
         DEF Running, HeadIs, LaneInv, LaneTypes
    <2>3. Sound(q', model', req', aborted' \union rejected', Running)
      BY <1>h, <1>w, <1>m, <1>s, <1>b0, <1>b1 DEF QueueInv
    <2>4. QED
      BY <2>1, <2>2, <2>3 DEF QueueInv
  <1>p3. BarrierInv'
    <2>1. (BarrierTypes /\ Leased(bar, sup, model))'
      BY <1>h, <1>w, <1>m, <1>s, <1>b0, <1>b1 DEF BarrierInv, BarrierTypes, Leases
    <2>2. (Served(bar) = q.active \union (IF q.value = "admitted" THEN {q.item} ELSE {}))'
      BY <1>h, <1>w, <1>m, <1>s, <1>b0, <1>b1 DEF BarrierInv, Leases, QueueInv, Sound,
             Queueing
    <2>3. (/\ HeadIs("dispatch", {"update", "stop", "settle"}) => Idle(bar)
           /\ HeadIs("reconcile", {"stop"}) => Idle(bar)
           /\ bar.stopped # 0 => HeadIs("dispatch", {"drain"}) \/ HeadIs("reconcile", {"drain"}))'
      BY <1>h, <1>w, <1>m, <1>s, <1>b0, <1>b1, TaskFacts
         DEF BarrierInv, Leases, HeadIs, LaneInv, LaneTypes
    <2>4. QED
      BY <2>1, <2>2, <2>3 DEF BarrierInv, Leases
  <1>p4. RecoveryInv'
    BY <1>h, <1>w, <1>m, <1>s, <1>b0, <1>b1 DEF RecoveryInv, RecoveryTypes, Claims,
           ClaimedMeansClosed
  <1>p5. TimerTypes'
    BY <1>h, <1>w, <1>m, <1>s, <1>b0, <1>b1 DEF TimerTypes
  <1>p6. Targets'
    BY <1>h, <1>w, <1>m, <1>s, <1>b0, <1>b1 DEF Targets, Who, Current, NoSup, Running,
           HeadIs, LaneTypes, On
  <1>p7. Reopening'
    BY <1>h, <1>w, <1>m, <1>s, <1>b0, <1>b1 DEF Reopening, Who, NoSup, Reopens, HeadIs,
           LaneTypes, Queued
  <1>p8. Rejected'
    BY <1>h, <1>w, <1>m, <1>s, <1>b0, <1>b1 DEF Rejected, Who, Running, HeadIs, LaneTypes,
           Queued, QueueInv, Sound, Queueing
  <1>q. QED
    BY <1>p0, <1>p1, <1>p2, <1>p3, <1>p4, <1>p5, <1>p6, <1>p7, <1>p8

\* and reopens the barrier.
LEMMA EvictAllDrainedStep ==
    ASSUME IInv, At("evictAll", "drain"),
           Idle(bar), AttachBarrier(bar, snapshot), Over,
           UNCHANGED <<modality, config, backend, q, requests, rec, safeguard, reload, left>>
    PROVE  IInv'
  <1> USE AssumptionFacts DEF IInv
  <1>h. lane # <<>> /\ Head(lane).kind = "evictAll" /\ cur.at = "drain"
    BY DEF At
  <1>w. Head(lane) \in ToSet(lane) /\ Head(lane) \in Tasks /\ Who \in Nat
    BY <1>h, HeadFacts
  <1>m. Pops({}) /\ cur' = Fresh /\ cur' \in Waits /\ cur'.at = "begin"
    BY <1>h, OverFacts, TaskFacts DEF Over
  <1>s. bar.stopped = 0
    BY <1>h DEF BarrierInv, BarrierTypes, Barriers, Leases, HeadIs
  <1>b0. /\ bar' \in Barriers(Requests, Nat) /\ Leased(bar', sup, model)
         /\ Served(bar') = Served(bar) /\ (Idle(bar') <=> Idle(bar)) /\ bar'.stopped = bar.stopped
         /\ (bar'.accepting \/ bar'.passedOver) /\ claim' = 0
    BY AttachedFacts DEF AttachBarrier
  <1>p0. ConfigTypes'
    BY <1>h, <1>w, <1>m, <1>s, <1>b0 DEF ConfigTypes
  <1>p1. LaneInv'
    BY <1>h, <1>w, <1>m, <1>s, <1>b0 DEF LaneInv, LaneTypes, Lane, Pops
  <1>p2. QueueInv'
    <2>1. RequestTypes'
      BY <1>h, <1>w, <1>m, <1>s, <1>b0 DEF QueueInv, RequestTypes
    <2>2. Running' = Running
      BY <1>h, <1>w, <1>m, <1>s, <1>b0, TaskFacts DEF Running, HeadIs, LaneInv, LaneTypes,
             Pops
    <2>3. Sound(q', model', req', aborted' \union rejected', Running)
      BY <1>h, <1>w, <1>m, <1>s, <1>b0 DEF QueueInv
    <2>4. QED
      BY <2>1, <2>2, <2>3 DEF QueueInv
  <1>p3. BarrierInv'
    <2>1. (BarrierTypes /\ Leased(bar, sup, model))'
      BY <1>h, <1>w, <1>m, <1>s, <1>b0 DEF BarrierInv, BarrierTypes, Leases
    <2>2. (Served(bar) = q.active \union (IF q.value = "admitted" THEN {q.item} ELSE {}))'
      BY <1>h, <1>w, <1>m, <1>s, <1>b0 DEF BarrierInv, Leases, QueueInv, Sound, Queueing
    <2>3. (/\ HeadIs("dispatch", {"update", "stop", "settle"}) => Idle(bar)
           /\ HeadIs("reconcile", {"stop"}) => Idle(bar)
           /\ bar.stopped # 0 => HeadIs("dispatch", {"drain"}) \/ HeadIs("reconcile", {"drain"}))'
      BY <1>h, <1>w, <1>m, <1>s, <1>b0, TaskFacts DEF BarrierInv, Leases, HeadIs, LaneInv,
             LaneTypes, Pops
    <2>4. QED
      BY <2>1, <2>2, <2>3 DEF BarrierInv, Leases
  <1>p4. RecoveryInv'
    BY <1>h, <1>w, <1>m, <1>s, <1>b0 DEF RecoveryInv, RecoveryTypes, Claims,
                                         ClaimedMeansClosed
  <1>p5. TimerTypes'
    BY <1>h, <1>w, <1>m, <1>s, <1>b0 DEF TimerTypes
  <1>p6. Targets'
    BY <1>h, <1>w, <1>m, <1>s, <1>b0 DEF Targets, Who, Current, NoSup, Running, HeadIs,
                                         LaneTypes, Pops, On
  <1>p7. Reopening'
    BY <1>h, <1>w, <1>m, <1>s, <1>b0 DEF Reopening, Who, NoSup, Reopens, HeadIs, LaneTypes,
                                         Pops, Queued
  <1>p8. Rejected'
    BY <1>h, <1>w, <1>m, <1>s, <1>b0 DEF Rejected, Who, Running, HeadIs, LaneTypes, Pops,
                                         Queued, QueueInv, Sound, Queueing
  <1>q. QED
    BY <1>p0, <1>p1, <1>p2, <1>p3, <1>p4, <1>p5, <1>p6, <1>p7, <1>p8

\* An idle eviction closes the barrier,
LEMMA EvictIdleStep ==
    ASSUME IInv, At("evictIdle", "begin"),
           life = "running", MayDetach(bar), BeginKill(Detach(bar)), Goto("kill"),
           UNCHANGED <<modality, config, q, requests, recovery, safeguard, reload, left>>
    PROVE  IInv'
  <1> USE AssumptionFacts DEF IInv
  <1>h. lane # <<>> /\ Head(lane).kind = "evictIdle" /\ cur.at = "begin"
    BY DEF At
  <1>w. Head(lane) \in ToSet(lane) /\ Head(lane) \in Tasks /\ Who \in Nat
    BY <1>h, HeadFacts
  <1>m. /\ lane' = lane /\ cur' \in Waits /\ cur'.at = "kill"
        /\ cur'.target = cur.target
    BY <1>h, GotoFacts
  <1>s. bar.stopped = 0
    BY <1>h DEF BarrierInv, BarrierTypes, Barriers, Leases, HeadIs
  <1>b0. /\ bar' \in Barriers(Requests, Nat) /\ Leased(bar', sup, model)
         /\ Served(bar') = Served(bar) /\ (Idle(bar') <=> Idle(bar)) /\ bar'.stopped = bar.stopped
         /\ bar'.passedOver = bar.passedOver
         /\ bar'.accepting = FALSE
         /\ life' = (IF life \in {"starting", "running"} THEN "stopping" ELSE life)
         /\ sup' = sup /\ made' = made
    <2>1. bar' = ReadySettles(Detach(bar), "failed")
      BY DEF BeginKill
    <2>2. bar' \in Barriers(Requests, Nat)
      BY <2>1, KillFacts
    <2>3. QED
      BY <2>1, <2>2, KillFacts DEF BeginKill, Barriers
  <1>b1. bar.accepting /\ Idle(bar)
    BY DEF MayDetach
  <1>p0. ConfigTypes'
    BY <1>h, <1>w, <1>m, <1>s, <1>b0, <1>b1 DEF ConfigTypes
  <1>p1. LaneInv'
    BY <1>h, <1>w, <1>m, <1>s, <1>b0, <1>b1 DEF LaneInv, LaneTypes, Lane
  <1>p2. QueueInv'
    <2>1. RequestTypes'
      BY <1>h, <1>w, <1>m, <1>s, <1>b0, <1>b1 DEF QueueInv, RequestTypes
    <2>2. Running' = Running
      BY <1>h, <1>w, <1>m, <1>s, <1>b0, <1>b1, TaskFacts
         DEF Running, HeadIs, LaneInv, LaneTypes
    <2>3. Sound(q', model', req', aborted' \union rejected', Running)
      BY <1>h, <1>w, <1>m, <1>s, <1>b0, <1>b1 DEF QueueInv
    <2>4. QED
      BY <2>1, <2>2, <2>3 DEF QueueInv
  <1>p3. BarrierInv'
    <2>1. (BarrierTypes /\ Leased(bar, sup, model))'
      BY <1>h, <1>w, <1>m, <1>s, <1>b0, <1>b1 DEF BarrierInv, BarrierTypes, Leases
    <2>2. (Served(bar) = q.active \union (IF q.value = "admitted" THEN {q.item} ELSE {}))'
      BY <1>h, <1>w, <1>m, <1>s, <1>b0, <1>b1 DEF BarrierInv, Leases, QueueInv, Sound,
             Queueing
    <2>3. (/\ HeadIs("dispatch", {"update", "stop", "settle"}) => Idle(bar)
           /\ HeadIs("reconcile", {"stop"}) => Idle(bar)
           /\ bar.stopped # 0 => HeadIs("dispatch", {"drain"}) \/ HeadIs("reconcile", {"drain"}))'
      BY <1>h, <1>w, <1>m, <1>s, <1>b0, <1>b1, TaskFacts
         DEF BarrierInv, Leases, HeadIs, LaneInv, LaneTypes
    <2>4. QED
      BY <2>1, <2>2, <2>3 DEF BarrierInv, Leases
  <1>p4. RecoveryInv'
    BY <1>h, <1>w, <1>m, <1>s, <1>b0, <1>b1 DEF RecoveryInv, RecoveryTypes, Claims,
           ClaimedMeansClosed
  <1>p5. TimerTypes'
    BY <1>h, <1>w, <1>m, <1>s, <1>b0, <1>b1 DEF TimerTypes
  <1>p6. Targets'
    BY <1>h, <1>w, <1>m, <1>s, <1>b0, <1>b1 DEF Targets, Who, Current, NoSup, Running,
           HeadIs, LaneTypes, On
  <1>p7. Reopening'
    BY <1>h, <1>w, <1>m, <1>s, <1>b0, <1>b1 DEF Reopening, Who, NoSup, Reopens, HeadIs,
           LaneTypes, Queued
  <1>p8. Rejected'
    BY <1>h, <1>w, <1>m, <1>s, <1>b0, <1>b1 DEF Rejected, Who, Running, HeadIs, LaneTypes,
           Queued, QueueInv, Sound, Queueing
  <1>q. QED
    BY <1>p0, <1>p1, <1>p2, <1>p3, <1>p4, <1>p5, <1>p6, <1>p7, <1>p8

\* spares whoever is served,
LEMMA EvictBusyStep ==
    ASSUME IInv, At("evictIdle", "begin"),
           Over, UNCHANGED <<backend, bar>>,
           UNCHANGED <<modality, config, q, requests, recovery, safeguard, reload, left>>
    PROVE  IInv'
  <1> USE AssumptionFacts DEF IInv
  <1>h. lane # <<>> /\ Head(lane).kind = "evictIdle" /\ cur.at = "begin"
    BY DEF At
  <1>w. Head(lane) \in ToSet(lane) /\ Head(lane) \in Tasks /\ Who \in Nat
    BY <1>h, HeadFacts
  <1>m. Pops({}) /\ cur' = Fresh /\ cur' \in Waits /\ cur'.at = "begin"
    BY <1>h, OverFacts, TaskFacts DEF Over
  <1>s. bar.stopped = 0
    BY <1>h DEF BarrierInv, BarrierTypes, Barriers, Leases, HeadIs
  <1>b0. bar' = bar /\ Leased(bar', sup, model)
    BY DEF BarrierInv, Leases
  <1>p0. ConfigTypes'
    BY <1>h, <1>w, <1>m, <1>s, <1>b0 DEF ConfigTypes
  <1>p1. LaneInv'
    BY <1>h, <1>w, <1>m, <1>s, <1>b0 DEF LaneInv, LaneTypes, Lane, Pops
  <1>p2. QueueInv'
    <2>1. RequestTypes'
      BY <1>h, <1>w, <1>m, <1>s, <1>b0 DEF QueueInv, RequestTypes
    <2>2. Running' = Running
      BY <1>h, <1>w, <1>m, <1>s, <1>b0, TaskFacts DEF Running, HeadIs, LaneInv, LaneTypes,
             Pops
    <2>3. Sound(q', model', req', aborted' \union rejected', Running)
      BY <1>h, <1>w, <1>m, <1>s, <1>b0 DEF QueueInv
    <2>4. QED
      BY <2>1, <2>2, <2>3 DEF QueueInv
  <1>p3. BarrierInv'
    <2>1. (BarrierTypes /\ Leased(bar, sup, model))'
      BY <1>h, <1>w, <1>m, <1>s, <1>b0 DEF BarrierInv, BarrierTypes, Leases
    <2>2. (Served(bar) = q.active \union (IF q.value = "admitted" THEN {q.item} ELSE {}))'
      BY <1>h, <1>w, <1>m, <1>s, <1>b0 DEF BarrierInv, Leases, QueueInv, Sound, Queueing
    <2>3. (/\ HeadIs("dispatch", {"update", "stop", "settle"}) => Idle(bar)
           /\ HeadIs("reconcile", {"stop"}) => Idle(bar)
           /\ bar.stopped # 0 => HeadIs("dispatch", {"drain"}) \/ HeadIs("reconcile", {"drain"}))'
      BY <1>h, <1>w, <1>m, <1>s, <1>b0, TaskFacts DEF BarrierInv, Leases, HeadIs, LaneInv,
             LaneTypes, Pops
    <2>4. QED
      BY <2>1, <2>2, <2>3 DEF BarrierInv, Leases
  <1>p4. RecoveryInv'
    BY <1>h, <1>w, <1>m, <1>s, <1>b0 DEF RecoveryInv, RecoveryTypes, Claims,
                                         ClaimedMeansClosed
  <1>p5. TimerTypes'
    BY <1>h, <1>w, <1>m, <1>s, <1>b0 DEF TimerTypes
  <1>p6. Targets'
    BY <1>h, <1>w, <1>m, <1>s, <1>b0 DEF Targets, Who, Current, NoSup, Running, HeadIs,
                                         LaneTypes, Pops, On
  <1>p7. Reopening'
    BY <1>h, <1>w, <1>m, <1>s, <1>b0 DEF Reopening, Who, NoSup, Reopens, HeadIs, LaneTypes,
                                         Pops, Queued
  <1>p8. Rejected'
    BY <1>h, <1>w, <1>m, <1>s, <1>b0 DEF Rejected, Who, Running, HeadIs, LaneTypes, Pops,
                                         Queued, QueueInv, Sound, Queueing
  <1>q. QED
    BY <1>p0, <1>p1, <1>p2, <1>p3, <1>p4, <1>p5, <1>p6, <1>p7, <1>p8

\* and reopens the barrier.
LEMMA EvictIdleKilledStep ==
    ASSUME IInv, At("evictIdle", "kill"),
           EndKill, AttachBarrier(bar, snapshot), Over,
           UNCHANGED <<modality, config, q, requests, rec, safeguard, reload>>
    PROVE  IInv'
  <1> USE AssumptionFacts DEF IInv
  <1>h. lane # <<>> /\ Head(lane).kind = "evictIdle" /\ cur.at = "kill"
    BY DEF At
  <1>w. Head(lane) \in ToSet(lane) /\ Head(lane) \in Tasks /\ Who \in Nat
    BY <1>h, HeadFacts
  <1>m. Pops({}) /\ cur' = Fresh /\ cur' \in Waits /\ cur'.at = "begin"
    BY <1>h, OverFacts, TaskFacts DEF Over
  <1>s. bar.stopped = 0
    BY <1>h DEF BarrierInv, BarrierTypes, Barriers, Leases, HeadIs
  <1>b0. /\ bar' \in Barriers(Requests, Nat) /\ Leased(bar', sup, model)
         /\ Served(bar') = Served(bar) /\ (Idle(bar') <=> Idle(bar)) /\ bar'.stopped = bar.stopped
         /\ (bar'.accepting \/ bar'.passedOver) /\ claim' = 0
    BY AttachedFacts DEF AttachBarrier
  <1>b1. /\ life' \in {"idle", "failed"} /\ sup' = sup /\ made' = made
         /\ left' \in 0..MaxDisturbances
    BY DEF EndKill, Outcome, Disturb, TimerTypes
  <1>p0. ConfigTypes'
    BY <1>h, <1>w, <1>m, <1>s, <1>b0, <1>b1 DEF ConfigTypes
  <1>p1. LaneInv'
    BY <1>h, <1>w, <1>m, <1>s, <1>b0, <1>b1 DEF LaneInv, LaneTypes, Lane, Pops
  <1>p2. QueueInv'
    <2>1. RequestTypes'
      BY <1>h, <1>w, <1>m, <1>s, <1>b0, <1>b1 DEF QueueInv, RequestTypes
    <2>2. Running' = Running
      BY <1>h, <1>w, <1>m, <1>s, <1>b0, <1>b1, TaskFacts
         DEF Running, HeadIs, LaneInv, LaneTypes, Pops
    <2>3. Sound(q', model', req', aborted' \union rejected', Running)
      BY <1>h, <1>w, <1>m, <1>s, <1>b0, <1>b1 DEF QueueInv
    <2>4. QED
      BY <2>1, <2>2, <2>3 DEF QueueInv
  <1>p3. BarrierInv'
    <2>1. (BarrierTypes /\ Leased(bar, sup, model))'
      BY <1>h, <1>w, <1>m, <1>s, <1>b0, <1>b1 DEF BarrierInv, BarrierTypes, Leases
    <2>2. (Served(bar) = q.active \union (IF q.value = "admitted" THEN {q.item} ELSE {}))'
      BY <1>h, <1>w, <1>m, <1>s, <1>b0, <1>b1 DEF BarrierInv, Leases, QueueInv, Sound,
             Queueing
    <2>3. (/\ HeadIs("dispatch", {"update", "stop", "settle"}) => Idle(bar)
           /\ HeadIs("reconcile", {"stop"}) => Idle(bar)
           /\ bar.stopped # 0 => HeadIs("dispatch", {"drain"}) \/ HeadIs("reconcile", {"drain"}))'
      BY <1>h, <1>w, <1>m, <1>s, <1>b0, <1>b1, TaskFacts
         DEF BarrierInv, Leases, HeadIs, LaneInv, LaneTypes, Pops
    <2>4. QED
      BY <2>1, <2>2, <2>3 DEF BarrierInv, Leases
  <1>p4. RecoveryInv'
    BY <1>h, <1>w, <1>m, <1>s, <1>b0, <1>b1 DEF RecoveryInv, RecoveryTypes, Claims,
           ClaimedMeansClosed
  <1>p5. TimerTypes'
    BY <1>h, <1>w, <1>m, <1>s, <1>b0, <1>b1 DEF TimerTypes
  <1>p6. Targets'
    BY <1>h, <1>w, <1>m, <1>s, <1>b0, <1>b1 DEF Targets, Who, Current, NoSup, Running,
           HeadIs, LaneTypes, Pops, On
  <1>p7. Reopening'
    BY <1>h, <1>w, <1>m, <1>s, <1>b0, <1>b1 DEF Reopening, Who, NoSup, Reopens, HeadIs,
           LaneTypes, Pops, Queued
  <1>p8. Rejected'
    BY <1>h, <1>w, <1>m, <1>s, <1>b0, <1>b1 DEF Rejected, Who, Running, HeadIs, LaneTypes,
           Pops, Queued, QueueInv, Sound, Queueing
  <1>q. QED
    BY <1>p0, <1>p1, <1>p2, <1>p3, <1>p4, <1>p5, <1>p6, <1>p7, <1>p8

\* All the evictions.
LEMMA EvictionStep ==
    ASSUME IInv, \/ EvictAllBegin \/ EvictAllKilled \/ EvictAllDrained
                 \/ EvictIdleBegin \/ EvictIdleKilled
    PROVE  IInv'
  <1>1. CASE EvictAllBegin
    BY <1>1, EvictNobodyStep, EvictAllStep DEF EvictAllBegin
  <1>2. CASE EvictAllKilled
    BY <1>2, EvictAllKilledStep DEF EvictAllKilled
  <1>3. CASE EvictAllDrained
    BY <1>3, EvictAllDrainedStep DEF EvictAllDrained
  <1>4. CASE EvictIdleBegin
    BY <1>4, EvictIdleStep, EvictBusyStep DEF EvictIdleBegin
  <1>5. CASE EvictIdleKilled
    BY <1>5, EvictIdleKilledStep DEF EvictIdleKilled
  <1>6. QED
    BY <1>1, <1>2, <1>3, <1>4, <1>5

\* The stop a cancelled lease has queued begins,
LEMMA IdleCancelStep ==
    ASSUME IInv, At("idleCancel", "begin"),
           sup.id = Who, life \in {"starting", "running"}, BeginKill(bar), Goto("kill"),
           UNCHANGED claim,
             UNCHANGED <<modality, config, q, requests, rec, safeguard, reload, left>>
    PROVE  IInv'
  <1> USE AssumptionFacts DEF IInv
  <1>h. lane # <<>> /\ Head(lane).kind = "idleCancel" /\ cur.at = "begin"
    BY DEF At
  <1>w. Head(lane) \in ToSet(lane) /\ Head(lane) \in Tasks /\ Who \in Nat
    BY <1>h, HeadFacts
  <1>m. /\ lane' = lane /\ cur' \in Waits /\ cur'.at = "kill"
        /\ cur'.target = cur.target
    BY <1>h, GotoFacts
  <1>s. bar.stopped = 0
    BY <1>h DEF BarrierInv, BarrierTypes, Barriers, Leases, HeadIs
  <1>b0. /\ bar' \in Barriers(Requests, Nat) /\ Leased(bar', sup, model)
         /\ Served(bar') = Served(bar) /\ (Idle(bar') <=> Idle(bar)) /\ bar'.stopped = bar.stopped
         /\ bar'.passedOver = bar.passedOver
         /\ bar'.accepting = bar.accepting
         /\ life' = (IF life \in {"starting", "running"} THEN "stopping" ELSE life)
         /\ sup' = sup /\ made' = made
    <2>1. bar' = ReadySettles(bar, "failed")
      BY DEF BeginKill
    <2>2. bar' \in Barriers(Requests, Nat)
      BY <2>1, KillFacts
    <2>3. QED
      BY <2>1, <2>2, KillFacts DEF BeginKill, Barriers
  <1>p0. ConfigTypes'
    BY <1>h, <1>w, <1>m, <1>s, <1>b0 DEF ConfigTypes
  <1>p1. LaneInv'
    BY <1>h, <1>w, <1>m, <1>s, <1>b0 DEF LaneInv, LaneTypes, Lane
  <1>p2. QueueInv'
    <2>1. RequestTypes'
      BY <1>h, <1>w, <1>m, <1>s, <1>b0 DEF QueueInv, RequestTypes
    <2>2. Running' = Running
      BY <1>h, <1>w, <1>m, <1>s, <1>b0, TaskFacts DEF Running, HeadIs, LaneInv, LaneTypes
    <2>3. Sound(q', model', req', aborted' \union rejected', Running)
      BY <1>h, <1>w, <1>m, <1>s, <1>b0 DEF QueueInv
    <2>4. QED
      BY <2>1, <2>2, <2>3 DEF QueueInv
  <1>p3. BarrierInv'
    <2>1. (BarrierTypes /\ Leased(bar, sup, model))'
      BY <1>h, <1>w, <1>m, <1>s, <1>b0 DEF BarrierInv, BarrierTypes, Leases
    <2>2. (Served(bar) = q.active \union (IF q.value = "admitted" THEN {q.item} ELSE {}))'
      BY <1>h, <1>w, <1>m, <1>s, <1>b0 DEF BarrierInv, Leases, QueueInv, Sound, Queueing
    <2>3. (/\ HeadIs("dispatch", {"update", "stop", "settle"}) => Idle(bar)
           /\ HeadIs("reconcile", {"stop"}) => Idle(bar)
           /\ bar.stopped # 0 => HeadIs("dispatch", {"drain"}) \/ HeadIs("reconcile", {"drain"}))'
      BY <1>h, <1>w, <1>m, <1>s, <1>b0, TaskFacts DEF BarrierInv, Leases, HeadIs, LaneInv,
             LaneTypes
    <2>4. QED
      BY <2>1, <2>2, <2>3 DEF BarrierInv, Leases
  <1>p4. RecoveryInv'
    BY <1>h, <1>w, <1>m, <1>s, <1>b0 DEF RecoveryInv, RecoveryTypes, Claims,
                                         ClaimedMeansClosed
  <1>p5. TimerTypes'
    BY <1>h, <1>w, <1>m, <1>s, <1>b0 DEF TimerTypes
  <1>p6. Targets'
    BY <1>h, <1>w, <1>m, <1>s, <1>b0 DEF Targets, Who, Current, NoSup, Running, HeadIs,
                                         LaneTypes, On
  <1>p7. Reopening'
    BY <1>h, <1>w, <1>m, <1>s, <1>b0 DEF Reopening, Who, NoSup, Reopens, HeadIs, LaneTypes,
                                         Queued
  <1>p8. Rejected'
    BY <1>h, <1>w, <1>m, <1>s, <1>b0 DEF Rejected, Who, Running, HeadIs, LaneTypes, Queued,
                                         QueueInv, Sound, Queueing
  <1>q. QED
    BY <1>p0, <1>p1, <1>p2, <1>p3, <1>p4, <1>p5, <1>p6, <1>p7, <1>p8

\* or finds the backend stopped, and reopens the barrier,
LEMMA IdleCancelLateStep ==
    ASSUME IInv, At("idleCancel", "begin"),
           sup.id = Who, AttachBarrier(bar, snapshot), Over, UNCHANGED backend,
           UNCHANGED <<modality, config, q, requests, rec, safeguard, reload, left>>
    PROVE  IInv'
  <1> USE AssumptionFacts DEF IInv
  <1>h. lane # <<>> /\ Head(lane).kind = "idleCancel" /\ cur.at = "begin"
    BY DEF At
  <1>w. Head(lane) \in ToSet(lane) /\ Head(lane) \in Tasks /\ Who \in Nat
    BY <1>h, HeadFacts
  <1>m. Pops({}) /\ cur' = Fresh /\ cur' \in Waits /\ cur'.at = "begin"
    BY <1>h, OverFacts, TaskFacts DEF Over
  <1>s. bar.stopped = 0
    BY <1>h DEF BarrierInv, BarrierTypes, Barriers, Leases, HeadIs
  <1>b0. /\ bar' \in Barriers(Requests, Nat) /\ Leased(bar', sup, model)
         /\ Served(bar') = Served(bar) /\ (Idle(bar') <=> Idle(bar)) /\ bar'.stopped = bar.stopped
         /\ (bar'.accepting \/ bar'.passedOver) /\ claim' = 0
    BY AttachedFacts DEF AttachBarrier
  <1>p0. ConfigTypes'
    BY <1>h, <1>w, <1>m, <1>s, <1>b0 DEF ConfigTypes
  <1>p1. LaneInv'
    BY <1>h, <1>w, <1>m, <1>s, <1>b0 DEF LaneInv, LaneTypes, Lane, Pops
  <1>p2. QueueInv'
    <2>1. RequestTypes'
      BY <1>h, <1>w, <1>m, <1>s, <1>b0 DEF QueueInv, RequestTypes
    <2>2. Running' = Running
      BY <1>h, <1>w, <1>m, <1>s, <1>b0, TaskFacts DEF Running, HeadIs, LaneInv, LaneTypes,
             Pops
    <2>3. Sound(q', model', req', aborted' \union rejected', Running)
      BY <1>h, <1>w, <1>m, <1>s, <1>b0 DEF QueueInv
    <2>4. QED
      BY <2>1, <2>2, <2>3 DEF QueueInv
  <1>p3. BarrierInv'
    <2>1. (BarrierTypes /\ Leased(bar, sup, model))'
      BY <1>h, <1>w, <1>m, <1>s, <1>b0 DEF BarrierInv, BarrierTypes, Leases
    <2>2. (Served(bar) = q.active \union (IF q.value = "admitted" THEN {q.item} ELSE {}))'
      BY <1>h, <1>w, <1>m, <1>s, <1>b0 DEF BarrierInv, Leases, QueueInv, Sound, Queueing
    <2>3. (/\ HeadIs("dispatch", {"update", "stop", "settle"}) => Idle(bar)
           /\ HeadIs("reconcile", {"stop"}) => Idle(bar)
           /\ bar.stopped # 0 => HeadIs("dispatch", {"drain"}) \/ HeadIs("reconcile", {"drain"}))'
      BY <1>h, <1>w, <1>m, <1>s, <1>b0, TaskFacts DEF BarrierInv, Leases, HeadIs, LaneInv,
             LaneTypes, Pops
    <2>4. QED
      BY <2>1, <2>2, <2>3 DEF BarrierInv, Leases
  <1>p4. RecoveryInv'
    BY <1>h, <1>w, <1>m, <1>s, <1>b0 DEF RecoveryInv, RecoveryTypes, Claims,
                                         ClaimedMeansClosed
  <1>p5. TimerTypes'
    BY <1>h, <1>w, <1>m, <1>s, <1>b0 DEF TimerTypes
  <1>p6. Targets'
    BY <1>h, <1>w, <1>m, <1>s, <1>b0 DEF Targets, Who, Current, NoSup, Running, HeadIs,
                                         LaneTypes, Pops, On
  <1>p7. Reopening'
    BY <1>h, <1>w, <1>m, <1>s, <1>b0 DEF Reopening, Who, NoSup, Reopens, HeadIs, LaneTypes,
                                         Pops, Queued
  <1>p8. Rejected'
    BY <1>h, <1>w, <1>m, <1>s, <1>b0 DEF Rejected, Who, Running, HeadIs, LaneTypes, Pops,
                                         Queued, QueueInv, Sound, Queueing
  <1>q. QED
    BY <1>p0, <1>p1, <1>p2, <1>p3, <1>p4, <1>p5, <1>p6, <1>p7, <1>p8

\* or finds another supervisor.
LEMMA IdleCancelGoneStep ==
    ASSUME IInv, At("idleCancel", "begin"),
           sup.id # Who, UNCHANGED <<bar, claim>>, Over, UNCHANGED backend,
           UNCHANGED <<modality, config, q, requests, rec, safeguard, reload, left>>
    PROVE  IInv'
  <1> USE AssumptionFacts DEF IInv
  <1>h. lane # <<>> /\ Head(lane).kind = "idleCancel" /\ cur.at = "begin"
    BY DEF At
  <1>w. Head(lane) \in ToSet(lane) /\ Head(lane) \in Tasks /\ Who \in Nat
    BY <1>h, HeadFacts
  <1>m. Pops({}) /\ cur' = Fresh /\ cur' \in Waits /\ cur'.at = "begin"
    BY <1>h, OverFacts, TaskFacts DEF Over
  <1>s. bar.stopped = 0
    BY <1>h DEF BarrierInv, BarrierTypes, Barriers, Leases, HeadIs
  <1>b0. bar' = bar /\ Leased(bar', sup, model)
    BY DEF BarrierInv, Leases
  <1>p0. ConfigTypes'
    BY <1>h, <1>w, <1>m, <1>s, <1>b0 DEF ConfigTypes
  <1>p1. LaneInv'
    BY <1>h, <1>w, <1>m, <1>s, <1>b0 DEF LaneInv, LaneTypes, Lane, Pops
  <1>p2. QueueInv'
    <2>1. RequestTypes'
      BY <1>h, <1>w, <1>m, <1>s, <1>b0 DEF QueueInv, RequestTypes
    <2>2. Running' = Running
      BY <1>h, <1>w, <1>m, <1>s, <1>b0, TaskFacts DEF Running, HeadIs, LaneInv, LaneTypes,
             Pops
    <2>3. Sound(q', model', req', aborted' \union rejected', Running)
      BY <1>h, <1>w, <1>m, <1>s, <1>b0 DEF QueueInv
    <2>4. QED
      BY <2>1, <2>2, <2>3 DEF QueueInv
  <1>p3. BarrierInv'
    <2>1. (BarrierTypes /\ Leased(bar, sup, model))'
      BY <1>h, <1>w, <1>m, <1>s, <1>b0 DEF BarrierInv, BarrierTypes, Leases
    <2>2. (Served(bar) = q.active \union (IF q.value = "admitted" THEN {q.item} ELSE {}))'
      BY <1>h, <1>w, <1>m, <1>s, <1>b0 DEF BarrierInv, Leases, QueueInv, Sound, Queueing
    <2>3. (/\ HeadIs("dispatch", {"update", "stop", "settle"}) => Idle(bar)
           /\ HeadIs("reconcile", {"stop"}) => Idle(bar)
           /\ bar.stopped # 0 => HeadIs("dispatch", {"drain"}) \/ HeadIs("reconcile", {"drain"}))'
      BY <1>h, <1>w, <1>m, <1>s, <1>b0, TaskFacts DEF BarrierInv, Leases, HeadIs, LaneInv,
             LaneTypes, Pops
    <2>4. QED
      BY <2>1, <2>2, <2>3 DEF BarrierInv, Leases
  <1>p4. RecoveryInv'
    BY <1>h, <1>w, <1>m, <1>s, <1>b0 DEF RecoveryInv, RecoveryTypes, Claims,
                                         ClaimedMeansClosed
  <1>p5. TimerTypes'
    BY <1>h, <1>w, <1>m, <1>s, <1>b0 DEF TimerTypes
  <1>p6. Targets'
    BY <1>h, <1>w, <1>m, <1>s, <1>b0 DEF Targets, Who, Current, NoSup, Running, HeadIs,
                                         LaneTypes, Pops, On
  <1>p7. Reopening'
    BY <1>h, <1>w, <1>m, <1>s, <1>b0 DEF Reopening, Who, NoSup, Reopens, HeadIs, LaneTypes,
                                         Pops, Queued
  <1>p8. Rejected'
    BY <1>h, <1>w, <1>m, <1>s, <1>b0 DEF Rejected, Who, Running, HeadIs, LaneTypes, Pops,
                                         Queued, QueueInv, Sound, Queueing
  <1>q. QED
    BY <1>p0, <1>p1, <1>p2, <1>p3, <1>p4, <1>p5, <1>p6, <1>p7, <1>p8

\* The stop is over: the barrier reopens,
LEMMA IdleCancelReopensStep ==
    ASSUME IInv, At("idleCancel", "kill"),
           sup.id = Who, EndKill, AttachBarrier(bar, snapshot), Over,
           UNCHANGED <<modality, config, q, requests, rec, safeguard, reload>>
    PROVE  IInv'
  <1> USE AssumptionFacts DEF IInv
  <1>h. lane # <<>> /\ Head(lane).kind = "idleCancel" /\ cur.at = "kill"
    BY DEF At
  <1>w. Head(lane) \in ToSet(lane) /\ Head(lane) \in Tasks /\ Who \in Nat
    BY <1>h, HeadFacts
  <1>m. Pops({}) /\ cur' = Fresh /\ cur' \in Waits /\ cur'.at = "begin"
    BY <1>h, OverFacts, TaskFacts DEF Over
  <1>s. bar.stopped = 0
    BY <1>h DEF BarrierInv, BarrierTypes, Barriers, Leases, HeadIs
  <1>b0. /\ bar' \in Barriers(Requests, Nat) /\ Leased(bar', sup, model)
         /\ Served(bar') = Served(bar) /\ (Idle(bar') <=> Idle(bar)) /\ bar'.stopped = bar.stopped
         /\ (bar'.accepting \/ bar'.passedOver) /\ claim' = 0
    BY AttachedFacts DEF AttachBarrier
  <1>b1. /\ life' \in {"idle", "failed"} /\ sup' = sup /\ made' = made
         /\ left' \in 0..MaxDisturbances
    BY DEF EndKill, Outcome, Disturb, TimerTypes
  <1>p0. ConfigTypes'
    BY <1>h, <1>w, <1>m, <1>s, <1>b0, <1>b1 DEF ConfigTypes
  <1>p1. LaneInv'
    BY <1>h, <1>w, <1>m, <1>s, <1>b0, <1>b1 DEF LaneInv, LaneTypes, Lane, Pops
  <1>p2. QueueInv'
    <2>1. RequestTypes'
      BY <1>h, <1>w, <1>m, <1>s, <1>b0, <1>b1 DEF QueueInv, RequestTypes
    <2>2. Running' = Running
      BY <1>h, <1>w, <1>m, <1>s, <1>b0, <1>b1, TaskFacts
         DEF Running, HeadIs, LaneInv, LaneTypes, Pops
    <2>3. Sound(q', model', req', aborted' \union rejected', Running)
      BY <1>h, <1>w, <1>m, <1>s, <1>b0, <1>b1 DEF QueueInv
    <2>4. QED
      BY <2>1, <2>2, <2>3 DEF QueueInv
  <1>p3. BarrierInv'
    <2>1. (BarrierTypes /\ Leased(bar, sup, model))'
      BY <1>h, <1>w, <1>m, <1>s, <1>b0, <1>b1 DEF BarrierInv, BarrierTypes, Leases
    <2>2. (Served(bar) = q.active \union (IF q.value = "admitted" THEN {q.item} ELSE {}))'
      BY <1>h, <1>w, <1>m, <1>s, <1>b0, <1>b1 DEF BarrierInv, Leases, QueueInv, Sound,
             Queueing
    <2>3. (/\ HeadIs("dispatch", {"update", "stop", "settle"}) => Idle(bar)
           /\ HeadIs("reconcile", {"stop"}) => Idle(bar)
           /\ bar.stopped # 0 => HeadIs("dispatch", {"drain"}) \/ HeadIs("reconcile", {"drain"}))'
      BY <1>h, <1>w, <1>m, <1>s, <1>b0, <1>b1, TaskFacts
         DEF BarrierInv, Leases, HeadIs, LaneInv, LaneTypes, Pops
    <2>4. QED
      BY <2>1, <2>2, <2>3 DEF BarrierInv, Leases
  <1>p4. RecoveryInv'
    BY <1>h, <1>w, <1>m, <1>s, <1>b0, <1>b1 DEF RecoveryInv, RecoveryTypes, Claims,
           ClaimedMeansClosed
  <1>p5. TimerTypes'
    BY <1>h, <1>w, <1>m, <1>s, <1>b0, <1>b1 DEF TimerTypes
  <1>p6. Targets'
    BY <1>h, <1>w, <1>m, <1>s, <1>b0, <1>b1 DEF Targets, Who, Current, NoSup, Running,
           HeadIs, LaneTypes, Pops, On
  <1>p7. Reopening'
    BY <1>h, <1>w, <1>m, <1>s, <1>b0, <1>b1 DEF Reopening, Who, NoSup, Reopens, HeadIs,
           LaneTypes, Pops, Queued
  <1>p8. Rejected'
    BY <1>h, <1>w, <1>m, <1>s, <1>b0, <1>b1 DEF Rejected, Who, Running, HeadIs, LaneTypes,
           Pops, Queued, QueueInv, Sound, Queueing
  <1>q. QED
    BY <1>p0, <1>p1, <1>p2, <1>p3, <1>p4, <1>p5, <1>p6, <1>p7, <1>p8

\* unless it is another supervisor's.
LEMMA IdleCancelStoppedStep ==
    ASSUME IInv, At("idleCancel", "kill"),
           sup.id # Who, EndKill, UNCHANGED <<bar, claim>>, Over,
           UNCHANGED <<modality, config, q, requests, rec, safeguard, reload>>
    PROVE  IInv'
  <1> USE AssumptionFacts DEF IInv
  <1>h. lane # <<>> /\ Head(lane).kind = "idleCancel" /\ cur.at = "kill"
    BY DEF At
  <1>w. Head(lane) \in ToSet(lane) /\ Head(lane) \in Tasks /\ Who \in Nat
    BY <1>h, HeadFacts
  <1>m. Pops({}) /\ cur' = Fresh /\ cur' \in Waits /\ cur'.at = "begin"
    BY <1>h, OverFacts, TaskFacts DEF Over
  <1>s. bar.stopped = 0
    BY <1>h DEF BarrierInv, BarrierTypes, Barriers, Leases, HeadIs
  <1>b0. bar' = bar /\ Leased(bar', sup, model)
    BY DEF BarrierInv, Leases
  <1>b1. /\ life' \in {"idle", "failed"} /\ sup' = sup /\ made' = made
         /\ left' \in 0..MaxDisturbances
    BY DEF EndKill, Outcome, Disturb, TimerTypes
  <1>p0. ConfigTypes'
    BY <1>h, <1>w, <1>m, <1>s, <1>b0, <1>b1 DEF ConfigTypes
  <1>p1. LaneInv'
    BY <1>h, <1>w, <1>m, <1>s, <1>b0, <1>b1 DEF LaneInv, LaneTypes, Lane, Pops
  <1>p2. QueueInv'
    <2>1. RequestTypes'
      BY <1>h, <1>w, <1>m, <1>s, <1>b0, <1>b1 DEF QueueInv, RequestTypes
    <2>2. Running' = Running
      BY <1>h, <1>w, <1>m, <1>s, <1>b0, <1>b1, TaskFacts
         DEF Running, HeadIs, LaneInv, LaneTypes, Pops
    <2>3. Sound(q', model', req', aborted' \union rejected', Running)
      BY <1>h, <1>w, <1>m, <1>s, <1>b0, <1>b1 DEF QueueInv
    <2>4. QED
      BY <2>1, <2>2, <2>3 DEF QueueInv
  <1>p3. BarrierInv'
    <2>1. (BarrierTypes /\ Leased(bar, sup, model))'
      BY <1>h, <1>w, <1>m, <1>s, <1>b0, <1>b1 DEF BarrierInv, BarrierTypes, Leases
    <2>2. (Served(bar) = q.active \union (IF q.value = "admitted" THEN {q.item} ELSE {}))'
      BY <1>h, <1>w, <1>m, <1>s, <1>b0, <1>b1 DEF BarrierInv, Leases, QueueInv, Sound,
             Queueing
    <2>3. (/\ HeadIs("dispatch", {"update", "stop", "settle"}) => Idle(bar)
           /\ HeadIs("reconcile", {"stop"}) => Idle(bar)
           /\ bar.stopped # 0 => HeadIs("dispatch", {"drain"}) \/ HeadIs("reconcile", {"drain"}))'
      BY <1>h, <1>w, <1>m, <1>s, <1>b0, <1>b1, TaskFacts
         DEF BarrierInv, Leases, HeadIs, LaneInv, LaneTypes, Pops
    <2>4. QED
      BY <2>1, <2>2, <2>3 DEF BarrierInv, Leases
  <1>p4. RecoveryInv'
    BY <1>h, <1>w, <1>m, <1>s, <1>b0, <1>b1 DEF RecoveryInv, RecoveryTypes, Claims,
           ClaimedMeansClosed
  <1>p5. TimerTypes'
    BY <1>h, <1>w, <1>m, <1>s, <1>b0, <1>b1 DEF TimerTypes
  <1>p6. Targets'
    BY <1>h, <1>w, <1>m, <1>s, <1>b0, <1>b1 DEF Targets, Who, Current, NoSup, Running,
           HeadIs, LaneTypes, Pops, On
  <1>p7. Reopening'
    BY <1>h, <1>w, <1>m, <1>s, <1>b0, <1>b1 DEF Reopening, Who, NoSup, Reopens, HeadIs,
           LaneTypes, Pops, Queued
  <1>p8. Rejected'
    BY <1>h, <1>w, <1>m, <1>s, <1>b0, <1>b1 DEF Rejected, Who, Running, HeadIs, LaneTypes,
           Pops, Queued, QueueInv, Sound, Queueing
  <1>q. QED
    BY <1>p0, <1>p1, <1>p2, <1>p3, <1>p4, <1>p5, <1>p6, <1>p7, <1>p8

\* The safeguard asks for the slots in use,
LEMMA SafeguardAskStep ==
    ASSUME IInv, At("safeguard", "begin"),
           sup.id = Who, Goto("slots"), UNCHANGED <<backend, bar, safeguard>>,
           UNCHANGED <<modality, config, q, requests, recovery, reload, left>>
    PROVE  IInv'
  <1> USE AssumptionFacts DEF IInv
  <1>h. lane # <<>> /\ Head(lane).kind = "safeguard" /\ cur.at = "begin"
    BY DEF At
  <1>w. Head(lane) \in ToSet(lane) /\ Head(lane) \in Tasks /\ Who \in Nat
    BY <1>h, HeadFacts
  <1>m. /\ lane' = lane /\ cur' \in Waits /\ cur'.at = "slots"
        /\ cur'.target = cur.target
    BY <1>h, GotoFacts
  <1>s. bar.stopped = 0
    BY <1>h DEF BarrierInv, BarrierTypes, Barriers, Leases, HeadIs
  <1>b0. bar' = bar /\ Leased(bar', sup, model)
    BY DEF BarrierInv, Leases
  <1>p0. ConfigTypes'
    BY <1>h, <1>w, <1>m, <1>s, <1>b0 DEF ConfigTypes
  <1>p1. LaneInv'
    BY <1>h, <1>w, <1>m, <1>s, <1>b0 DEF LaneInv, LaneTypes, Lane
  <1>p2. QueueInv'
    <2>1. RequestTypes'
      BY <1>h, <1>w, <1>m, <1>s, <1>b0 DEF QueueInv, RequestTypes
    <2>2. Running' = Running
      BY <1>h, <1>w, <1>m, <1>s, <1>b0, TaskFacts DEF Running, HeadIs, LaneInv, LaneTypes
    <2>3. Sound(q', model', req', aborted' \union rejected', Running)
      BY <1>h, <1>w, <1>m, <1>s, <1>b0 DEF QueueInv
    <2>4. QED
      BY <2>1, <2>2, <2>3 DEF QueueInv
  <1>p3. BarrierInv'
    <2>1. (BarrierTypes /\ Leased(bar, sup, model))'
      BY <1>h, <1>w, <1>m, <1>s, <1>b0 DEF BarrierInv, BarrierTypes, Leases
    <2>2. (Served(bar) = q.active \union (IF q.value = "admitted" THEN {q.item} ELSE {}))'
      BY <1>h, <1>w, <1>m, <1>s, <1>b0 DEF BarrierInv, Leases, QueueInv, Sound, Queueing
    <2>3. (/\ HeadIs("dispatch", {"update", "stop", "settle"}) => Idle(bar)
           /\ HeadIs("reconcile", {"stop"}) => Idle(bar)
           /\ bar.stopped # 0 => HeadIs("dispatch", {"drain"}) \/ HeadIs("reconcile", {"drain"}))'
      BY <1>h, <1>w, <1>m, <1>s, <1>b0, TaskFacts DEF BarrierInv, Leases, HeadIs, LaneInv,
             LaneTypes
    <2>4. QED
      BY <2>1, <2>2, <2>3 DEF BarrierInv, Leases
  <1>p4. RecoveryInv'
    BY <1>h, <1>w, <1>m, <1>s, <1>b0 DEF RecoveryInv, RecoveryTypes, Claims,
                                         ClaimedMeansClosed
  <1>p5. TimerTypes'
    BY <1>h, <1>w, <1>m, <1>s, <1>b0 DEF TimerTypes
  <1>p6. Targets'
    BY <1>h, <1>w, <1>m, <1>s, <1>b0 DEF Targets, Who, Current, NoSup, Running, HeadIs,
                                         LaneTypes, On
  <1>p7. Reopening'
    BY <1>h, <1>w, <1>m, <1>s, <1>b0 DEF Reopening, Who, NoSup, Reopens, HeadIs, LaneTypes,
                                         Queued
  <1>p8. Rejected'
    BY <1>h, <1>w, <1>m, <1>s, <1>b0 DEF Rejected, Who, Running, HeadIs, LaneTypes,
                                         Queued, QueueInv, Sound, Queueing
  <1>q. QED
    BY <1>p0, <1>p1, <1>p2, <1>p3, <1>p4, <1>p5, <1>p6, <1>p7, <1>p8

\* finds nothing to stop,
LEMMA SafeguardOffStep ==
    ASSUME IInv, At("safeguard", "begin") \/ At("safeguard", "slots"),
           Over, UNCHANGED <<backend, bar, safeguard>>,
           UNCHANGED <<modality, config, q, requests, recovery, reload, left>>
    PROVE  IInv'
  <1> USE AssumptionFacts DEF IInv
  <1>h. lane # <<>> /\ Head(lane).kind = "safeguard" /\ cur.at \in {"begin", "slots"}
    BY DEF At
  <1>w. Head(lane) \in ToSet(lane) /\ Head(lane) \in Tasks /\ Who \in Nat
    BY <1>h, HeadFacts
  <1>m. Pops({}) /\ cur' = Fresh /\ cur' \in Waits /\ cur'.at = "begin"
    BY <1>h, OverFacts, TaskFacts DEF Over
  <1>s. bar.stopped = 0
    BY <1>h DEF BarrierInv, BarrierTypes, Barriers, Leases, HeadIs
  <1>b0. bar' = bar /\ Leased(bar', sup, model)
    BY DEF BarrierInv, Leases
  <1>p0. ConfigTypes'
    BY <1>h, <1>w, <1>m, <1>s, <1>b0 DEF ConfigTypes
  <1>p1. LaneInv'
    BY <1>h, <1>w, <1>m, <1>s, <1>b0 DEF LaneInv, LaneTypes, Lane, Pops
  <1>p2. QueueInv'
    <2>1. RequestTypes'
      BY <1>h, <1>w, <1>m, <1>s, <1>b0 DEF QueueInv, RequestTypes
    <2>2. Running' = Running
      BY <1>h, <1>w, <1>m, <1>s, <1>b0, TaskFacts DEF Running, HeadIs, LaneInv, LaneTypes,
             Pops
    <2>3. Sound(q', model', req', aborted' \union rejected', Running)
      BY <1>h, <1>w, <1>m, <1>s, <1>b0 DEF QueueInv
    <2>4. QED
      BY <2>1, <2>2, <2>3 DEF QueueInv
  <1>p3. BarrierInv'
    <2>1. (BarrierTypes /\ Leased(bar, sup, model))'
      BY <1>h, <1>w, <1>m, <1>s, <1>b0 DEF BarrierInv, BarrierTypes, Leases
    <2>2. (Served(bar) = q.active \union (IF q.value = "admitted" THEN {q.item} ELSE {}))'
      BY <1>h, <1>w, <1>m, <1>s, <1>b0 DEF BarrierInv, Leases, QueueInv, Sound, Queueing
    <2>3. (/\ HeadIs("dispatch", {"update", "stop", "settle"}) => Idle(bar)
           /\ HeadIs("reconcile", {"stop"}) => Idle(bar)
           /\ bar.stopped # 0 => HeadIs("dispatch", {"drain"}) \/ HeadIs("reconcile", {"drain"}))'
      BY <1>h, <1>w, <1>m, <1>s, <1>b0, TaskFacts DEF BarrierInv, Leases, HeadIs, LaneInv,
             LaneTypes, Pops
    <2>4. QED
      BY <2>1, <2>2, <2>3 DEF BarrierInv, Leases
  <1>p4. RecoveryInv'
    BY <1>h, <1>w, <1>m, <1>s, <1>b0 DEF RecoveryInv, RecoveryTypes, Claims,
                                         ClaimedMeansClosed
  <1>p5. TimerTypes'
    BY <1>h, <1>w, <1>m, <1>s, <1>b0 DEF TimerTypes
  <1>p6. Targets'
    BY <1>h, <1>w, <1>m, <1>s, <1>b0 DEF Targets, Who, Current, NoSup, Running, HeadIs,
                                         LaneTypes, Pops, On
  <1>p7. Reopening'
    BY <1>h, <1>w, <1>m, <1>s, <1>b0 DEF Reopening, Who, NoSup, Reopens, HeadIs, LaneTypes,
                                         Pops, Queued
  <1>p8. Rejected'
    BY <1>h, <1>w, <1>m, <1>s, <1>b0 DEF Rejected, Who, Running, HeadIs, LaneTypes, Pops,
                                         Queued, QueueInv, Sound, Queueing
  <1>q. QED
    BY <1>p0, <1>p1, <1>p2, <1>p3, <1>p4, <1>p5, <1>p6, <1>p7, <1>p8

\* stops what nobody is served by,
LEMMA SafeguardStep ==
    ASSUME IInv, At("safeguard", "slots"),
           MayDetach(bar), BeginKill(Detach(bar)),
           Goto("kill"), UNCHANGED safeguard,
             UNCHANGED <<modality, config, q, requests, recovery, reload, left>>
    PROVE  IInv'
  <1> USE AssumptionFacts DEF IInv
  <1>h. lane # <<>> /\ Head(lane).kind = "safeguard" /\ cur.at = "slots"
    BY DEF At
  <1>w. Head(lane) \in ToSet(lane) /\ Head(lane) \in Tasks /\ Who \in Nat
    BY <1>h, HeadFacts
  <1>m. /\ lane' = lane /\ cur' \in Waits /\ cur'.at = "kill"
        /\ cur'.target = cur.target
    BY <1>h, GotoFacts
  <1>s. bar.stopped = 0
    BY <1>h DEF BarrierInv, BarrierTypes, Barriers, Leases, HeadIs
  <1>b0. /\ bar' \in Barriers(Requests, Nat) /\ Leased(bar', sup, model)
         /\ Served(bar') = Served(bar) /\ (Idle(bar') <=> Idle(bar)) /\ bar'.stopped = bar.stopped
         /\ bar'.passedOver = bar.passedOver
         /\ bar'.accepting = FALSE
         /\ life' = (IF life \in {"starting", "running"} THEN "stopping" ELSE life)
         /\ sup' = sup /\ made' = made
    <2>1. bar' = ReadySettles(Detach(bar), "failed")
      BY DEF BeginKill
    <2>2. bar' \in Barriers(Requests, Nat)
      BY <2>1, KillFacts
    <2>3. QED
      BY <2>1, <2>2, KillFacts DEF BeginKill, Barriers
  <1>b1. bar.accepting /\ Idle(bar) /\ sup.id = Who
    BY <1>h DEF MayDetach, Targets, HeadIs
  <1>p0. ConfigTypes'
    BY <1>h, <1>w, <1>m, <1>s, <1>b0, <1>b1 DEF ConfigTypes
  <1>p1. LaneInv'
    BY <1>h, <1>w, <1>m, <1>s, <1>b0, <1>b1 DEF LaneInv, LaneTypes, Lane
  <1>p2. QueueInv'
    <2>1. RequestTypes'
      BY <1>h, <1>w, <1>m, <1>s, <1>b0, <1>b1 DEF QueueInv, RequestTypes
    <2>2. Running' = Running
      BY <1>h, <1>w, <1>m, <1>s, <1>b0, <1>b1, TaskFacts
         DEF Running, HeadIs, LaneInv, LaneTypes
    <2>3. Sound(q', model', req', aborted' \union rejected', Running)
      BY <1>h, <1>w, <1>m, <1>s, <1>b0, <1>b1 DEF QueueInv
    <2>4. QED
      BY <2>1, <2>2, <2>3 DEF QueueInv
  <1>p3. BarrierInv'
    <2>1. (BarrierTypes /\ Leased(bar, sup, model))'
      BY <1>h, <1>w, <1>m, <1>s, <1>b0, <1>b1 DEF BarrierInv, BarrierTypes, Leases
    <2>2. (Served(bar) = q.active \union (IF q.value = "admitted" THEN {q.item} ELSE {}))'
      BY <1>h, <1>w, <1>m, <1>s, <1>b0, <1>b1 DEF BarrierInv, Leases, QueueInv, Sound,
             Queueing
    <2>3. (/\ HeadIs("dispatch", {"update", "stop", "settle"}) => Idle(bar)
           /\ HeadIs("reconcile", {"stop"}) => Idle(bar)
           /\ bar.stopped # 0 => HeadIs("dispatch", {"drain"}) \/ HeadIs("reconcile", {"drain"}))'
      BY <1>h, <1>w, <1>m, <1>s, <1>b0, <1>b1, TaskFacts
         DEF BarrierInv, Leases, HeadIs, LaneInv, LaneTypes
    <2>4. QED
      BY <2>1, <2>2, <2>3 DEF BarrierInv, Leases
  <1>p4. RecoveryInv'
    BY <1>h, <1>w, <1>m, <1>s, <1>b0, <1>b1 DEF RecoveryInv, RecoveryTypes, Claims,
           ClaimedMeansClosed
  <1>p5. TimerTypes'
    BY <1>h, <1>w, <1>m, <1>s, <1>b0, <1>b1 DEF TimerTypes
  <1>p6. Targets'
    BY <1>h, <1>w, <1>m, <1>s, <1>b0, <1>b1 DEF Targets, Who, Current, NoSup, Running,
           HeadIs, LaneTypes, On
  <1>p7. Reopening'
    BY <1>h, <1>w, <1>m, <1>s, <1>b0, <1>b1 DEF Reopening, Who, NoSup, Reopens, HeadIs,
           LaneTypes, Queued
  <1>p8. Rejected'
    BY <1>h, <1>w, <1>m, <1>s, <1>b0, <1>b1 DEF Rejected, Who, Running, HeadIs, LaneTypes,
           Queued, QueueInv, Sound, Queueing
  <1>q. QED
    BY <1>p0, <1>p1, <1>p2, <1>p3, <1>p4, <1>p5, <1>p6, <1>p7, <1>p8

\* or looks again later.
LEMMA SafeguardAgainStep ==
    ASSUME IInv, At("safeguard", "slots"),
           Head(lane).check < MaxChecks,
           safeguard' = [sup |-> Who, check |-> Head(lane).check + 1],
           Over, UNCHANGED <<backend, bar>>,
             UNCHANGED <<modality, config, q, requests, recovery, reload, left>>
    PROVE  IInv'
  <1> USE AssumptionFacts DEF IInv
  <1>h. lane # <<>> /\ Head(lane).kind = "safeguard" /\ cur.at = "slots"
    BY DEF At
  <1>w. Head(lane) \in ToSet(lane) /\ Head(lane) \in Tasks /\ Who \in Nat
    BY <1>h, HeadFacts
  <1>m. Pops({}) /\ cur' = Fresh /\ cur' \in Waits /\ cur'.at = "begin"
    BY <1>h, OverFacts, TaskFacts DEF Over
  <1>s. bar.stopped = 0
    BY <1>h DEF BarrierInv, BarrierTypes, Barriers, Leases, HeadIs
  <1>b0. bar' = bar /\ Leased(bar', sup, model)
    BY DEF BarrierInv, Leases
  <1>b1. safeguard' \in [sup : Nat, check : 0..MaxChecks]
    <2>1. Head(lane).check \in 0..MaxChecks
      BY <1>w DEF Tasks
    <2>2. Head(lane).check + 1 \in 0..MaxChecks
      BY <2>1
    <2>3. QED
      BY <1>w, <2>2
  <1>p0. ConfigTypes'
    BY <1>h, <1>w, <1>m, <1>s, <1>b0, <1>b1 DEF ConfigTypes
  <1>p1. LaneInv'
    BY <1>h, <1>w, <1>m, <1>s, <1>b0, <1>b1 DEF LaneInv, LaneTypes, Lane, Pops
  <1>p2. QueueInv'
    <2>1. RequestTypes'
      BY <1>h, <1>w, <1>m, <1>s, <1>b0, <1>b1 DEF QueueInv, RequestTypes
    <2>2. Running' = Running
      BY <1>h, <1>w, <1>m, <1>s, <1>b0, <1>b1, TaskFacts
         DEF Running, HeadIs, LaneInv, LaneTypes, Pops
    <2>3. Sound(q', model', req', aborted' \union rejected', Running)
      BY <1>h, <1>w, <1>m, <1>s, <1>b0, <1>b1 DEF QueueInv
    <2>4. QED
      BY <2>1, <2>2, <2>3 DEF QueueInv
  <1>p3. BarrierInv'
    <2>1. (BarrierTypes /\ Leased(bar, sup, model))'
      BY <1>h, <1>w, <1>m, <1>s, <1>b0, <1>b1 DEF BarrierInv, BarrierTypes, Leases
    <2>2. (Served(bar) = q.active \union (IF q.value = "admitted" THEN {q.item} ELSE {}))'
      BY <1>h, <1>w, <1>m, <1>s, <1>b0, <1>b1 DEF BarrierInv, Leases, QueueInv, Sound,
             Queueing
    <2>3. (/\ HeadIs("dispatch", {"update", "stop", "settle"}) => Idle(bar)
           /\ HeadIs("reconcile", {"stop"}) => Idle(bar)
           /\ bar.stopped # 0 => HeadIs("dispatch", {"drain"}) \/ HeadIs("reconcile", {"drain"}))'
      BY <1>h, <1>w, <1>m, <1>s, <1>b0, <1>b1, TaskFacts
         DEF BarrierInv, Leases, HeadIs, LaneInv, LaneTypes, Pops
    <2>4. QED
      BY <2>1, <2>2, <2>3 DEF BarrierInv, Leases
  <1>p4. RecoveryInv'
    BY <1>h, <1>w, <1>m, <1>s, <1>b0, <1>b1 DEF RecoveryInv, RecoveryTypes, Claims,
           ClaimedMeansClosed
  <1>p5. TimerTypes'
    BY <1>h, <1>w, <1>m, <1>s, <1>b0, <1>b1 DEF TimerTypes
  <1>p6. Targets'
    BY <1>h, <1>w, <1>m, <1>s, <1>b0, <1>b1 DEF Targets, Who, Current, NoSup, Running,
           HeadIs, LaneTypes, Pops, On
  <1>p7. Reopening'
    BY <1>h, <1>w, <1>m, <1>s, <1>b0, <1>b1 DEF Reopening, Who, NoSup, Reopens, HeadIs,
           LaneTypes, Pops, Queued
  <1>p8. Rejected'
    BY <1>h, <1>w, <1>m, <1>s, <1>b0, <1>b1 DEF Rejected, Who, Running, HeadIs, LaneTypes,
           Pops, Queued, QueueInv, Sound, Queueing
  <1>q. QED
    BY <1>p0, <1>p1, <1>p2, <1>p3, <1>p4, <1>p5, <1>p6, <1>p7, <1>p8

\* The stop is over: the barrier reopens,
LEMMA SafeguardReopensStep ==
    ASSUME IInv, At("safeguard", "kill"),
           sup.id = Who, EndKill, AttachBarrier(bar, snapshot), Over,
           UNCHANGED <<modality, config, q, requests, rec, safeguard, reload>>
    PROVE  IInv'
  <1> USE AssumptionFacts DEF IInv
  <1>h. lane # <<>> /\ Head(lane).kind = "safeguard" /\ cur.at = "kill"
    BY DEF At
  <1>w. Head(lane) \in ToSet(lane) /\ Head(lane) \in Tasks /\ Who \in Nat
    BY <1>h, HeadFacts
  <1>m. Pops({}) /\ cur' = Fresh /\ cur' \in Waits /\ cur'.at = "begin"
    BY <1>h, OverFacts, TaskFacts DEF Over
  <1>s. bar.stopped = 0
    BY <1>h DEF BarrierInv, BarrierTypes, Barriers, Leases, HeadIs
  <1>b0. /\ bar' \in Barriers(Requests, Nat) /\ Leased(bar', sup, model)
         /\ Served(bar') = Served(bar) /\ (Idle(bar') <=> Idle(bar)) /\ bar'.stopped = bar.stopped
         /\ (bar'.accepting \/ bar'.passedOver) /\ claim' = 0
    BY AttachedFacts DEF AttachBarrier
  <1>b1. /\ life' \in {"idle", "failed"} /\ sup' = sup /\ made' = made
         /\ left' \in 0..MaxDisturbances
    BY DEF EndKill, Outcome, Disturb, TimerTypes
  <1>p0. ConfigTypes'
    BY <1>h, <1>w, <1>m, <1>s, <1>b0, <1>b1 DEF ConfigTypes
  <1>p1. LaneInv'
    BY <1>h, <1>w, <1>m, <1>s, <1>b0, <1>b1 DEF LaneInv, LaneTypes, Lane, Pops
  <1>p2. QueueInv'
    <2>1. RequestTypes'
      BY <1>h, <1>w, <1>m, <1>s, <1>b0, <1>b1 DEF QueueInv, RequestTypes
    <2>2. Running' = Running
      BY <1>h, <1>w, <1>m, <1>s, <1>b0, <1>b1, TaskFacts
         DEF Running, HeadIs, LaneInv, LaneTypes, Pops
    <2>3. Sound(q', model', req', aborted' \union rejected', Running)
      BY <1>h, <1>w, <1>m, <1>s, <1>b0, <1>b1 DEF QueueInv
    <2>4. QED
      BY <2>1, <2>2, <2>3 DEF QueueInv
  <1>p3. BarrierInv'
    <2>1. (BarrierTypes /\ Leased(bar, sup, model))'
      BY <1>h, <1>w, <1>m, <1>s, <1>b0, <1>b1 DEF BarrierInv, BarrierTypes, Leases
    <2>2. (Served(bar) = q.active \union (IF q.value = "admitted" THEN {q.item} ELSE {}))'
      BY <1>h, <1>w, <1>m, <1>s, <1>b0, <1>b1 DEF BarrierInv, Leases, QueueInv, Sound,
             Queueing
    <2>3. (/\ HeadIs("dispatch", {"update", "stop", "settle"}) => Idle(bar)
           /\ HeadIs("reconcile", {"stop"}) => Idle(bar)
           /\ bar.stopped # 0 => HeadIs("dispatch", {"drain"}) \/ HeadIs("reconcile", {"drain"}))'
      BY <1>h, <1>w, <1>m, <1>s, <1>b0, <1>b1, TaskFacts
         DEF BarrierInv, Leases, HeadIs, LaneInv, LaneTypes, Pops
    <2>4. QED
      BY <2>1, <2>2, <2>3 DEF BarrierInv, Leases
  <1>p4. RecoveryInv'
    BY <1>h, <1>w, <1>m, <1>s, <1>b0, <1>b1 DEF RecoveryInv, RecoveryTypes, Claims,
           ClaimedMeansClosed
  <1>p5. TimerTypes'
    BY <1>h, <1>w, <1>m, <1>s, <1>b0, <1>b1 DEF TimerTypes
  <1>p6. Targets'
    BY <1>h, <1>w, <1>m, <1>s, <1>b0, <1>b1 DEF Targets, Who, Current, NoSup, Running,
           HeadIs, LaneTypes, Pops, On
  <1>p7. Reopening'
    BY <1>h, <1>w, <1>m, <1>s, <1>b0, <1>b1 DEF Reopening, Who, NoSup, Reopens, HeadIs,
           LaneTypes, Pops, Queued
  <1>p8. Rejected'
    BY <1>h, <1>w, <1>m, <1>s, <1>b0, <1>b1 DEF Rejected, Who, Running, HeadIs, LaneTypes,
           Pops, Queued, QueueInv, Sound, Queueing
  <1>q. QED
    BY <1>p0, <1>p1, <1>p2, <1>p3, <1>p4, <1>p5, <1>p6, <1>p7, <1>p8

\* unless it is another supervisor's.
LEMMA SafeguardStoppedStep ==
    ASSUME IInv, At("safeguard", "kill"),
           sup.id # Who, EndKill, UNCHANGED <<bar, claim>>, Over,
           UNCHANGED <<modality, config, q, requests, rec, safeguard, reload>>
    PROVE  IInv'
  <1> USE AssumptionFacts DEF IInv
  <1>h. lane # <<>> /\ Head(lane).kind = "safeguard" /\ cur.at = "kill"
    BY DEF At
  <1>w. Head(lane) \in ToSet(lane) /\ Head(lane) \in Tasks /\ Who \in Nat
    BY <1>h, HeadFacts
  <1>m. Pops({}) /\ cur' = Fresh /\ cur' \in Waits /\ cur'.at = "begin"
    BY <1>h, OverFacts, TaskFacts DEF Over
  <1>s. bar.stopped = 0
    BY <1>h DEF BarrierInv, BarrierTypes, Barriers, Leases, HeadIs
  <1>b0. bar' = bar /\ Leased(bar', sup, model)
    BY DEF BarrierInv, Leases
  <1>b1. /\ life' \in {"idle", "failed"} /\ sup' = sup /\ made' = made
         /\ left' \in 0..MaxDisturbances
    BY DEF EndKill, Outcome, Disturb, TimerTypes
  <1>p0. ConfigTypes'
    BY <1>h, <1>w, <1>m, <1>s, <1>b0, <1>b1 DEF ConfigTypes
  <1>p1. LaneInv'
    BY <1>h, <1>w, <1>m, <1>s, <1>b0, <1>b1 DEF LaneInv, LaneTypes, Lane, Pops
  <1>p2. QueueInv'
    <2>1. RequestTypes'
      BY <1>h, <1>w, <1>m, <1>s, <1>b0, <1>b1 DEF QueueInv, RequestTypes
    <2>2. Running' = Running
      BY <1>h, <1>w, <1>m, <1>s, <1>b0, <1>b1, TaskFacts
         DEF Running, HeadIs, LaneInv, LaneTypes, Pops
    <2>3. Sound(q', model', req', aborted' \union rejected', Running)
      BY <1>h, <1>w, <1>m, <1>s, <1>b0, <1>b1 DEF QueueInv
    <2>4. QED
      BY <2>1, <2>2, <2>3 DEF QueueInv
  <1>p3. BarrierInv'
    <2>1. (BarrierTypes /\ Leased(bar, sup, model))'
      BY <1>h, <1>w, <1>m, <1>s, <1>b0, <1>b1 DEF BarrierInv, BarrierTypes, Leases
    <2>2. (Served(bar) = q.active \union (IF q.value = "admitted" THEN {q.item} ELSE {}))'
      BY <1>h, <1>w, <1>m, <1>s, <1>b0, <1>b1 DEF BarrierInv, Leases, QueueInv, Sound,
             Queueing
    <2>3. (/\ HeadIs("dispatch", {"update", "stop", "settle"}) => Idle(bar)
           /\ HeadIs("reconcile", {"stop"}) => Idle(bar)
           /\ bar.stopped # 0 => HeadIs("dispatch", {"drain"}) \/ HeadIs("reconcile", {"drain"}))'
      BY <1>h, <1>w, <1>m, <1>s, <1>b0, <1>b1, TaskFacts
         DEF BarrierInv, Leases, HeadIs, LaneInv, LaneTypes, Pops
    <2>4. QED
      BY <2>1, <2>2, <2>3 DEF BarrierInv, Leases
  <1>p4. RecoveryInv'
    BY <1>h, <1>w, <1>m, <1>s, <1>b0, <1>b1 DEF RecoveryInv, RecoveryTypes, Claims,
           ClaimedMeansClosed
  <1>p5. TimerTypes'
    BY <1>h, <1>w, <1>m, <1>s, <1>b0, <1>b1 DEF TimerTypes
  <1>p6. Targets'
    BY <1>h, <1>w, <1>m, <1>s, <1>b0, <1>b1 DEF Targets, Who, Current, NoSup, Running,
           HeadIs, LaneTypes, Pops, On
  <1>p7. Reopening'
    BY <1>h, <1>w, <1>m, <1>s, <1>b0, <1>b1 DEF Reopening, Who, NoSup, Reopens, HeadIs,
           LaneTypes, Pops, Queued
  <1>p8. Rejected'
    BY <1>h, <1>w, <1>m, <1>s, <1>b0, <1>b1 DEF Rejected, Who, Running, HeadIs, LaneTypes,
           Pops, Queued, QueueInv, Sound, Queueing
  <1>q. QED
    BY <1>p0, <1>p1, <1>p2, <1>p3, <1>p4, <1>p5, <1>p6, <1>p7, <1>p8

\* All of them.
LEMMA StopStep ==
    ASSUME IInv, \/ IdleCancelBegin \/ IdleCancelKilled \/ SafeguardBegin \/ SafeguardSlots
                 \/ SafeguardKilled
    PROVE  IInv'
  <1>1. CASE IdleCancelBegin
    BY <1>1, IdleCancelStep, IdleCancelLateStep, IdleCancelGoneStep
       DEF IdleCancelBegin, Reopen
  <1>2. CASE IdleCancelKilled
    BY <1>2, IdleCancelReopensStep, IdleCancelStoppedStep DEF IdleCancelKilled, Reopen
  <1>3. CASE SafeguardBegin
    BY <1>3, SafeguardAskStep, SafeguardOffStep DEF SafeguardBegin
  <1>4. CASE SafeguardSlots
    BY <1>4, SafeguardOffStep, SafeguardStep, SafeguardAgainStep DEF SafeguardSlots
  <1>5. CASE SafeguardKilled
    BY <1>5, SafeguardReopensStep, SafeguardStoppedStep DEF SafeguardKilled, Reopen
  <1>6. QED
    BY <1>1, <1>2, <1>3, <1>4, <1>5

=============================================================================
