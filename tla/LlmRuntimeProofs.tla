------------------------- MODULE LlmRuntimeProofs -------------------------
(***************************************************************************)
(* Proofs about LlmRuntime: a lease keeps its backend, no wake-up is lost, *)
(* the holds exclude each other, a running process has its reservation,    *)
(* and nothing starts once the gateway stops, for any number of requests,  *)
(* models, unloads, slots, crashes and any mix of disturbances.  Then who  *)
(* ends a backend: what Close leaves behind, and when a start may find its *)
(* predecessor in the way.                                                 *)
(***************************************************************************)
EXTENDS LlmRuntime, FiniteSetTheorems, TLAPS

-----------------------------------------------------------------------------
(* The inductive invariant *)

RequestSet == [Requests -> [st : {"out", "queued", "granted", "holding"}, tgt : AnyTarget,
                            lease : AnyBackend, dispatching : BOOLEAN]]

SwitchSet == [step : {"none", "check", "preflight", "stopping", "start", "loading",
                      "install", "undo", "tried"},
              tgt : AnyTarget, prev : AnyBackend, from : AnyTarget, new : AnyBackend,
              restoring : BOOLEAN, cancelled : BOOLEAN, retried : BOOLEAN,
              err : {"none", "failed", "refused", "cancelled", "collision"}]

LeasedIn(rq) == {r \in Requests : rq[r].st \in {"granted", "holding"}}

Once(q) == \A i, j \in DOMAIN q : q[i] = q[j] => i = j

\* Queue q, active count a and requests rq agree, and a switch s has drained the leases.
Agree(q, a, rq, s) ==
    /\ q \in Seq(Requests) /\ rq \in RequestSet /\ a \in 0..Slots /\ s \in SwitchSet
    /\ Once(q)
    /\ \A r \in Requests : r \in Members(q) <=> rq[r].st = "queued"
    /\ \A r \in Members(q) : rq[r].tgt \in Targets
    /\ a = Cardinality(LeasedIn(rq))
    /\ s # NoSwitch => a = 0

\* A request whose own start runs is at the head.
Dispatched(q, rq, s) ==
    \A r \in Members(q) :
        rq[r].dispatching => s # NoSwitch /\ r = q[1] /\ rq[r].tgt = s.tgt

\* Whoever waits while nothing holds pump back waits for a lease.
Awaited ==
    queue # <<>> /\ sw = NoSwitch /\ ~Held =>
       active > 0 /\ (cur # NoBackend /\ back[cur].tgt = req[queue[1]].tgt => active = Slots)

QueueInv ==
    /\ Agree(queue, active, req, sw)
    /\ Dispatched(queue, req, sw)
    /\ Awaited
    /\ Len(queue) <= QueueCapacity

\* The reservation is that of the current backend, of the one that starts, of the one
\* that leases are out for; nobody else refers to one that starts.
BackInv ==
    /\ LiveIsReserved
    /\ cur # NoBackend => ledger = cur /\ back[cur].once = "no"
    /\ sw.step \in {"loading", "install"} =>
          /\ sw.new \in Backends /\ cur = NoBackend
          /\ ledger = sw.new /\ back[sw.new].once = "no"
          /\ sw.new \notin {emergency.b, claimer.b, closer.b}
          /\ \A u \in Unloaders : unl[u].b # sw.new
    /\ sw.step = "loading" => back[sw.new].proc = "loading"
    /\ \A r \in Leased :
          /\ req[r].lease \in Backends /\ back[req[r].lease].tgt = req[r].tgt
          /\ cur \in {NoBackend, req[r].lease} /\ ledger \in {NoBackend, req[r].lease}

\* A switch in flight has been ended when the gateway stops, and nobody waits any more
\* once the manager is closed.
EndInv ==
    /\ stopping \/ closed => sw = NoSwitch \/ sw.cancelled
    /\ closed => queue = <<>>

IInv == TypeOK /\ QueueInv /\ BackInv /\ EndInv /\ HoldsExcludeEachOther

-----------------------------------------------------------------------------
(* Removing requests from the queue *)

UpTo(K, i) == {j \in K : j <= i}

\* What is up to an element is up to the ones after it, but for these.
LEMMA UpToNested ==
    ASSUME NEW K \in SUBSET Nat, NEW i \in K, NEW j \in K, i < j
    PROVE  /\ UpTo(K, i) \in SUBSET UpTo(K, j)
           /\ j \in UpTo(K, j) /\ j \notin UpTo(K, i)
  <1>1. i \in Nat /\ j \in Nat
    OBVIOUS
  <1>2. \A x \in K : x <= i => x <= j
    <2> TAKE x \in K
    <2>1. x \in Nat
      OBVIOUS
    <2>2. QED
      BY <1>1, <2>1
  <1>3. j <= j /\ ~(j <= i)
    BY <1>1
  <1>4. QED
    BY <1>2, <1>3, Zenon DEF UpTo

\* The k-th element of a finite set of naturals exists.
LEMMA NthExists ==
    ASSUME NEW K \in SUBSET Nat, IsFiniteSet(K), NEW k \in 1..Cardinality(K)
    PROVE  \E i \in K : Cardinality(UpTo(K, i)) = k
  <1> DEFINE rank == [i \in K |-> Cardinality(UpTo(K, i))]
             N == Cardinality(K)
  <1>1. N \in Nat /\ IsFiniteSet(1..N) /\ Cardinality(1..N) = N
    BY FS_CardinalityType, FS_Interval
  <1>2. \A i \in K : IsFiniteSet(UpTo(K, i)) /\ Cardinality(UpTo(K, i)) \in 1..N
    <2> TAKE i \in K
    <2>1. UpTo(K, i) \in SUBSET K /\ UpTo(K, i) # {}
      BY DEF UpTo
    <2>2. IsFiniteSet(UpTo(K, i)) /\ Cardinality(UpTo(K, i)) <= N
      BY <2>1, FS_Subset
    <2>3. Cardinality(UpTo(K, i)) \in Nat /\ Cardinality(UpTo(K, i)) # 0
      BY <2>1, <2>2, FS_CardinalityType, FS_EmptySet
    <2>4. QED
      BY <1>1, <2>2, <2>3
  <1>3. ASSUME NEW i \in K, NEW j \in K, i < j
        PROVE  rank[i] # rank[j]
    <2>1. UpTo(K, i) \in SUBSET UpTo(K, j) /\ j \in UpTo(K, j) /\ j \notin UpTo(K, i)
      BY <1>3, UpToNested
    <2>2. QED
      BY <1>2, <2>1, FS_Subset
  <1>4. rank \in Injection(K, 1..N)
    BY <1>2, <1>3 DEF Injection, IsInjective
  <1>5. rank \in Surjection(K, 1..N)
    BY <1>1, <1>4, FS_Injection
  <1>6. QED
    BY <1>5 DEF Surjection

\* An element is further down than the ones before it.
LEMMA NthOrder ==
    ASSUME NEW K \in SUBSET Nat, IsFiniteSet(K), NEW i \in K, NEW j \in K, i < j
    PROVE  /\ Cardinality(UpTo(K, i)) \in Nat /\ Cardinality(UpTo(K, j)) \in Nat
           /\ Cardinality(UpTo(K, i)) < Cardinality(UpTo(K, j))
  <1>1. UpTo(K, i) \in SUBSET UpTo(K, j) /\ j \in UpTo(K, j) /\ j \notin UpTo(K, i)
        /\ UpTo(K, j) \in SUBSET K
    BY UpToNested DEF UpTo
  <1>2. IsFiniteSet(UpTo(K, i)) /\ IsFiniteSet(UpTo(K, j))
    BY <1>1, FS_Subset
  <1>3. QED
    BY <1>1, <1>2, FS_Subset, FS_CardinalityType

\* Without keeps the others, each once and in their order.
LEMMA WithoutFacts ==
    ASSUME NEW q \in Seq(Requests), Once(q), NEW gone
    PROVE  LET w == Without(q, gone)
           IN  /\ w \in Seq(Requests) /\ Len(w) <= Len(q) /\ Once(w)
               /\ Members(w) = Members(q) \ gone
               /\ q # <<>> /\ q[1] \notin gone => w # <<>> /\ w[1] = q[1]
  <1> DEFINE K == {i \in DOMAIN q : q[i] \notin gone}
             N == Cardinality(K)
             Nth(k) == CHOOSE i \in K : Cardinality(UpTo(K, i)) = k
             w == Without(q, gone)
  <1>1. DOMAIN q = 1..Len(q) /\ Len(q) \in Nat /\ \A i \in 1..Len(q) : q[i] \in Requests
    OBVIOUS
  <1>2. K \in SUBSET Nat /\ K \in SUBSET (1..Len(q))
    BY <1>1
  <1>3. IsFiniteSet(K) /\ N \in Nat /\ N <= Len(q)
    <2>1. IsFiniteSet(1..Len(q)) /\ Cardinality(1..Len(q)) = Len(q)
      <3>1. 1 \in Int /\ Len(q) \in Int
        BY <1>1
      <3>2. /\ IsFiniteSet(1..Len(q))
            /\ Cardinality(1..Len(q)) = IF 1 > Len(q) THEN 0 ELSE Len(q) - 1 + 1
        BY <3>1, FS_Interval, Zenon
      <3>3. QED
        BY <1>1, <3>2
    <2>2. QED
      BY <1>2, <2>1, FS_Subset, FS_CardinalityType
  <1>4. w = [k \in 1..N |-> q[Nth(k)]]
    BY DEF Without, UpTo
  <1>5. \A k \in 1..N : Nth(k) \in K /\ Cardinality(UpTo(K, Nth(k))) = k
    <2> TAKE k \in 1..N
    <2>1. \E i \in K : Cardinality(UpTo(K, i)) = k
      BY <1>2, <1>3, NthExists
    <2>2. QED
      BY <2>1
  <1> HIDE DEF Nth
  <1>6. \A k \in 1..N : w[k] = q[Nth(k)] /\ w[k] \in Requests /\ w[k] \notin gone
    BY <1>1, <1>4, <1>5
  <1>7. w \in Seq(Requests) /\ Len(w) = N /\ DOMAIN w = 1..N
    BY <1>3, <1>4, <1>6
  <1>8. Once(w)
    BY <1>2, <1>5, <1>6, <1>7 DEF Once
  <1>9. Members(w) = Members(q) \ gone
    <2>1. Members(w) \subseteq Members(q) \ gone
      BY <1>5, <1>6, <1>7 DEF Members
    <2>2. ASSUME NEW i \in K
          PROVE  q[i] \in Members(w)
      <3> DEFINE k == Cardinality(UpTo(K, i))
      <3>1. UpTo(K, i) \in SUBSET K /\ i \in UpTo(K, i)
        BY <1>2 DEF UpTo
      <3>2. IsFiniteSet(UpTo(K, i)) /\ k <= N
        BY <1>3, <3>1, FS_Subset
      <3>3. k \in Nat /\ k # 0
        BY <3>1, <3>2, FS_CardinalityType, FS_EmptySet
      <3>4. k \in 1..N
        BY <1>3, <3>2, <3>3
      <3>5. Nth(k) = i
        <4>1. Nth(k) \in K /\ Cardinality(UpTo(K, Nth(k))) = k
          BY <1>5, <3>4
        <4>2. ~(Nth(k) < i) /\ ~(i < Nth(k))
          BY <1>2, <1>3, <4>1, NthOrder
        <4>3. QED
          BY <1>2, <4>1, <4>2
      <3>6. QED
        BY <1>6, <1>7, <3>4, <3>5 DEF Members
    <2>3. Members(q) \ gone \subseteq Members(w)
      BY <2>2 DEF Members
    <2>4. QED
      BY <2>1, <2>3
  <1>10. ASSUME q # <<>>, q[1] \notin gone
         PROVE  w # <<>> /\ w[1] = q[1]
    <2>1. 1 \in K
      BY <1>1, <1>10
    <2>2. UpTo(K, 1) = {1}
      BY <1>2, <2>1 DEF UpTo
    <2>3. Cardinality(UpTo(K, 1)) = 1
      BY <2>2, FS_Singleton
    <2>4. N # 0
      BY <1>3, <2>1, FS_EmptySet
    <2>5. 1 \in 1..N
      BY <1>3, <2>4
    <2>6. Nth(1) = 1
      <3>1. Nth(1) \in K /\ Cardinality(UpTo(K, Nth(1))) = 1
        BY <1>5, <2>5
      <3>2. ~(1 < Nth(1))
        BY <1>2, <1>3, <2>1, <2>3, <3>1, NthOrder
      <3>3. QED
        BY <1>2, <3>1, <3>2
    <2>7. QED
      BY <1>6, <1>7, <2>5, <2>6
  <1>11. QED
    BY <1>3, <1>7, <1>8, <1>9, <1>10

-----------------------------------------------------------------------------
(* pump *)

\* A part of the queue has as many requests as positions.
LEMMA ImageCount ==
    ASSUME NEW q \in Seq(Requests), Once(q), NEW J \in SUBSET (DOMAIN q)
    PROVE  LET S == {q[i] : i \in J}
           IN  /\ IsFiniteSet(J) /\ IsFiniteSet(S) /\ Cardinality(S) = Cardinality(J)
               /\ Cardinality(J) \in Nat
  <1> DEFINE S == {q[i] : i \in J}
             f == [i \in J |-> q[i]]
  <1>1. Len(q) \in Nat /\ J \in SUBSET (1..Len(q))
    OBVIOUS
  <1>2. IsFiniteSet(1..Len(q))
    BY <1>1, FS_Interval
  <1>3. IsFiniteSet(J) /\ Cardinality(J) \in Nat
    BY <1>1, <1>2, FS_Subset, FS_CardinalityType
  <1>4. f \in Bijection(J, S)
    <2>1. f \in [J -> S] /\ \A s \in S : \E i \in J : f[i] = s
      OBVIOUS
    <2>2. \A i, j \in J : f[i] = f[j] => i = j
      BY DEF Once
    <2>3. QED
      BY <2>1, <2>2 DEF Bijection, Injection, Surjection, IsInjective
  <1>5. ExistsBijection(J, S)
    BY <1>4 DEF ExistsBijection
  <1>6. QED
    BY <1>3, <1>5, FS_Bijection

\* What is left of the queue after its first n requests.
LEMMA TailFacts ==
    ASSUME NEW q \in Seq(Requests), Once(q), NEW n \in 0..Len(q)
    PROVE  LET t == SubSeq(q, n + 1, Len(q))
           IN  /\ t \in Seq(Requests) /\ Len(t) = Len(q) - n /\ Once(t)
               /\ \A i \in 1..Len(t) : t[i] = q[n + i]
               /\ Members(t) = {q[i] : i \in (n + 1)..Len(q)}
               /\ n < Len(q) <=> t # <<>>
               /\ n < Len(q) => t[1] = q[n + 1]
               /\ n = 0 => t = q
  <1> DEFINE t == SubSeq(q, n + 1, Len(q))
             l == Len(q)
  <1>1. l \in Nat /\ n \in Nat /\ n <= l /\ DOMAIN q = 1..l
    OBVIOUS
  <1>2. \A i \in (n + 1)..l : q[i] \in Requests
    BY <1>1
  <1>3. t = [i \in 1..(l - n) |-> q[n + i]]
    BY <1>1
  <1>4. l - n \in Nat /\ \A i \in 1..(l - n) : n + i \in (n + 1)..l
    BY <1>1
  <1>5. \A i \in 1..(l - n) : t[i] = q[n + i] /\ t[i] \in Requests
    BY <1>2, <1>3, <1>4
  <1>6. t \in Seq(Requests) /\ Len(t) = l - n /\ DOMAIN t = 1..(l - n)
    BY <1>3, <1>4, <1>5
  <1> HIDE DEF t
  <1>7. Once(t)
    <2> SUFFICES ASSUME NEW i \in 1..(l - n), NEW j \in 1..(l - n), t[i] = t[j]
                 PROVE  i = j
      BY <1>6 DEF Once
    <2>1. q[n + i] = q[n + j] /\ n + i \in DOMAIN q /\ n + j \in DOMAIN q
      BY <1>1, <1>4, <1>5
    <2>2. n + i = n + j
      BY <2>1 DEF Once
    <2>3. QED
      BY <1>1, <2>2
  <1>8. Members(t) = {q[i] : i \in (n + 1)..l}
    <2>1. \A j \in (n + 1)..l : j - n \in 1..(l - n) /\ n + (j - n) = j
      BY <1>1
    <2>2. \A j \in (n + 1)..l : q[j] = t[j - n]
      BY <1>5, <2>1
    <2>3. QED
      BY <1>4, <1>5, <1>6, <2>1, <2>2 DEF Members
  <1>9. /\ n < l <=> t # <<>>
        /\ n < l => t[1] = q[n + 1]
    BY <1>1, <1>5, <1>6
  <1>10. n = 0 => t = q
    BY <1>1 DEF t
  <1>11. QED
    BY <1>5, <1>6, <1>7, <1>8, <1>9, <1>10 DEF t

\* What pump needs of the state its critical section leaves.
PumpPre(q, a, rq, c, s, held) ==
    /\ Agree(q, a, rq, s) /\ c \in AnyBackend /\ held \in BOOLEAN
    /\ \A r \in Members(q) :
          rq[r].dispatching =>
             r = q[1] /\ IF s # NoSwitch THEN rq[r].tgt = s.tgt ELSE ~held /\ a = 0

\* What pump does: who waits goes on waiting, gets a lease for c or an error, and a
\* switch begins only when nothing forbids it.
PumpPost(q, a, rq, c, s, held, stops) ==
    /\ Agree(queue', active', req', sw')
    /\ Dispatched(queue', req', sw')
    /\ Len(queue') <= Len(q) /\ Members(queue') \subseteq Members(q)
    /\ \A r \in Members(queue') : req'[r].tgt = rq[r].tgt
    /\ \A r \in LeasedIn(req') :
          /\ req'[r].tgt = rq[r].tgt
          /\ \/ r \in LeasedIn(rq) /\ req'[r].lease = rq[r].lease
             \/ c # NoBackend /\ req'[r].lease = c /\ back[c].tgt = rq[r].tgt
    /\ \/ sw' = s
       \/ s = NoSwitch /\ ~held /\ ~stops /\ sw'.step = "check" /\ ~sw'.cancelled
    /\ held => active' = a
    /\ queue' # <<>> /\ sw' = NoSwitch /\ ~held =>
          /\ active' > 0
          /\ c # NoBackend /\ back[c].tgt = req'[queue'[1]].tgt => active' = Slots

\* A switch that begins is in none but its first step.
LEMMA NewSwitchFields ==
    ASSUME NEW t \in AnyTarget
    PROVE  /\ NewSwitch(t) \in SwitchSet /\ NewSwitch(t) # NoSwitch
           /\ NewSwitch(t).step = "check" /\ ~NewSwitch(t).cancelled /\ NewSwitch(t).tgt = t
  <1>1. NoBackend \in AnyBackend /\ NoTarget \in AnyTarget
    BY DEF AnyBackend, AnyTarget
  <1>2. QED
    BY <1>1 DEF NewSwitch, NoSwitch, SwitchSet

\* While something holds it back, pump changes nothing.
LEMMA PumpHeld ==
    ASSUME NEW q, NEW a, NEW rq, NEW c, NEW s, NEW held, NEW stops,
           PumpPre(q, a, rq, c, s, held), Pump(q, a, rq, c, s, held, stops),
           held \/ s # NoSwitch
    PROVE  PumpPost(q, a, rq, c, s, held, stops)
  <1>1. queue' = q /\ active' = a /\ req' = rq /\ sw' = s
    BY DEF Pump
  <1>2. Dispatched(q, rq, s)
    BY DEF PumpPre, Dispatched
  <1>3. Len(q) <= Len(q)
    BY DEF PumpPre, Agree
  <1>4. QED
    BY <1>1, <1>2, <1>3, Zenon DEF PumpPre, PumpPost, LeasedIn

\* Otherwise it answers those at the head.
LEMMA PumpRuns ==
    ASSUME NEW q, NEW a, NEW rq, NEW c, NEW s, NEW held, NEW stops,
           PumpPre(q, a, rq, c, s, held), Pump(q, a, rq, c, s, held, stops),
           ~held, s = NoSwitch
    PROVE  PumpPost(q, a, rq, c, s, held, stops)
  <1> DEFINE Mt(i) == c # NoBackend /\ back[c].tgt = rq[q[i]].tgt
             Wt(i) == IF Mt(i) THEN Full(a + Cardinality({j \in 1..i : Mt(j)})) ELSE ~stops
             J(n) == {j \in 1..n : Mt(j)}
             G(n) == {q[i] : i \in J(n)}
             E(n) == {q[i] : i \in {j \in 1..n : ~Mt(j)}}
             sws(n) == n < Len(q) /\ ~Mt(n + 1) /\ Drained(a + Cardinality(G(n)))
  <1>0. /\ q \in Seq(Requests) /\ rq \in RequestSet /\ a \in 0..Slots /\ Slots \in Nat \ {0}
        /\ Once(q) /\ c \in AnyBackend
    BY ConstantsAssumption DEF PumpPre, Agree
  <1>1. PICK n \in 0..Len(q) :
           /\ \A i \in 1..n : ~Wt(i)
           /\ n < Len(q) => Wt(n + 1)
           /\ queue' = SubSeq(q, n + 1, Len(q))
           /\ active' = a + Cardinality(G(n))
           /\ req' = [r \in Requests |->
                 IF r \in G(n) THEN [rq[r] EXCEPT !.st = "granted", !.lease = c]
                 ELSE IF r \in E(n) THEN Out
                 ELSE IF sws(n) /\ r = q[n + 1] THEN [rq[r] EXCEPT !.dispatching = TRUE]
                 ELSE rq[r]]
           /\ sw' = IF sws(n) THEN NewSwitch(rq[q[n + 1]].tgt) ELSE s
    BY Zenon DEF Pump
  <1> DEFINE K == J(n)
             Gr == G(n)
             Er == E(n)
             begins == sws(n)
             N == Cardinality(K)
  <1>2. Len(q) \in Nat /\ n \in Nat /\ n <= Len(q) /\ DOMAIN q = 1..Len(q)
        /\ \A i \in 1..Len(q) : q[i] \in Requests
    BY <1>0
  <1>3. K \in SUBSET (DOMAIN q) /\ K \in SUBSET Nat
    BY <1>2
  <1>4. IsFiniteSet(K) /\ IsFiniteSet(Gr) /\ Cardinality(Gr) = N /\ N \in Nat
    BY <1>0, <1>3, ImageCount
  <1>5. /\ queue' \in Seq(Requests) /\ Len(queue') = Len(q) - n /\ Once(queue')
        /\ \A i \in 1..Len(queue') : queue'[i] = q[n + i]
        /\ Members(queue') = {q[i] : i \in (n + 1)..Len(q)}
        /\ n < Len(q) <=> queue' # <<>>
        /\ n < Len(q) => queue'[1] = q[n + 1]
    BY <1>0, <1>1, TailFacts
  \* Who is granted fits into the slots.
  <1>6. a + N \in 0..Slots
    <2>1. CASE N = 0
      BY <1>0, <2>1
    <2>2. CASE N # 0
      <3>1. N \in 1..N
        BY <1>4, <2>2
      <3>2. PICK i \in K : Cardinality(UpTo(K, i)) = N
        BY <1>3, <1>4, <3>1, NthExists
      <3>3. UpTo(K, i) \in SUBSET K
        BY DEF UpTo
      <3>4. UpTo(K, i) = K
        BY <1>4, <3>2, <3>3, FS_Subset
      <3>5. {j \in 1..i : Mt(j)} = UpTo(K, i)
        <4>1. i \in 1..n /\ \A j \in 1..i : j \in 1..n
          BY <1>2, <3>2
        <4>2. \A j \in 1..n : j <= i => j \in 1..i
          BY <4>1
        <4>3. \A j \in 1..i : j <= i
          BY <4>1
        <4>4. QED
          BY <4>1, <4>2, <4>3, Zenon DEF UpTo
      <3>6. ~Full(a + N)
        BY <1>1, <3>2, <3>4, <3>5
      <3>7. QED
        BY <1>0, <1>4, <3>6 DEF Full
    <2>3. QED
      BY <2>1, <2>2
  <1>7. active' = a + N /\ active' \in 0..Slots
    BY <1>1, <1>4, <1>6
  \* Where everybody is.
  <1>8. \A r \in Requests : r \in Members(q) <=> rq[r].st = "queued"
    BY DEF PumpPre, Agree
  <1>9. /\ Gr \subseteq Members(q) /\ Er \subseteq Members(q)
        /\ Gr \subseteq Requests /\ Er \subseteq Requests
    BY <1>2 DEF Members
  <1>10. Members(queue') = Members(q) \ (Gr \cup Er)
    <2>1. Gr \cup Er = {q[i] : i \in 1..n}
      BY Zenon
    <2>2. Members(q) = {q[i] : i \in 1..Len(q)}
      BY <1>2 DEF Members
    <2>3. \A i \in 1..n : i \in 1..Len(q) /\ i \notin (n + 1)..Len(q)
      BY <1>2
    <2>4. \A i \in (n + 1)..Len(q) : i \in 1..Len(q) /\ i \notin 1..n
      BY <1>2
    <2>5. \A i \in 1..Len(q) : i \in 1..n \/ i \in (n + 1)..Len(q)
      BY <1>2
    <2>6. \A i, j \in 1..Len(q) : q[i] = q[j] => i = j
      BY <1>0, <1>2 DEF Once
    <2> HIDE DEF Gr, Er
    <2>7. ASSUME NEW i \in (n + 1)..Len(q)
          PROVE  q[i] \in Members(q) /\ q[i] \notin Gr \cup Er
      <3>1. i \in 1..Len(q) /\ i \notin 1..n
        BY <2>4
      <3>2. \A j \in 1..n : q[i] # q[j]
        BY <2>3, <2>6, <3>1, Zenon
      <3>3. QED
        BY <2>1, <2>2, <3>1, <3>2, Zenon
    <2>8. ASSUME NEW i \in 1..Len(q), q[i] \notin Gr \cup Er
          PROVE  i \in (n + 1)..Len(q)
      BY <2>1, <2>5, <2>8, Zenon
    <2>9. ASSUME NEW r \in Members(q) \ (Gr \cup Er)
          PROVE  r \in Members(queue')
      <3>1. PICK i \in 1..Len(q) : r = q[i]
        BY <2>2, Zenon
      <3>2. i \in (n + 1)..Len(q)
        BY <2>8, <2>9, <3>1
      <3>3. QED
        BY <1>5, <3>1, <3>2, Zenon
    <2>10. ASSUME NEW r \in Members(queue')
           PROVE  r \in Members(q) \ (Gr \cup Er)
      <3>1. PICK i \in (n + 1)..Len(q) : r = q[i]
        BY <1>5
      <3>2. QED
        BY <2>7, <3>1
    <2>11. QED
      BY <2>9, <2>10, Zenon
  <1>11. \A r \in Members(queue') : r \in Members(q) /\ r \in Requests \ (Gr \cup Er)
    BY <1>2, <1>10, Zenon DEF Members
  <1>12. Out \in [st : {"out", "queued", "granted", "holding"}, tgt : AnyTarget,
                  lease : AnyBackend, dispatching : BOOLEAN] /\ Out.st = "out"
    BY DEF Out, AnyTarget, AnyBackend
  <1>13. /\ \A r \in Gr : /\ req'[r] = [rq[r] EXCEPT !.st = "granted", !.lease = c]
                          /\ req'[r].st = "granted" /\ req'[r].lease = c
                          /\ req'[r].tgt = rq[r].tgt
         /\ \A r \in Er : r \notin Gr => req'[r] = Out /\ req'[r].st = "out"
         /\ \A r \in Requests \ (Gr \cup Er) :
               /\ req'[r].st = rq[r].st /\ req'[r].tgt = rq[r].tgt
               /\ req'[r].lease = rq[r].lease
               /\ ~(begins /\ r = q[n + 1]) => req'[r] = rq[r]
         /\ req' \in RequestSet
    <2> HIDE DEF Gr, Er, begins
    <2>1. req' = [r \in Requests |->
                 IF r \in Gr THEN [rq[r] EXCEPT !.st = "granted", !.lease = c]
                 ELSE IF r \in Er THEN Out
                 ELSE IF begins /\ r = q[n + 1] THEN [rq[r] EXCEPT !.dispatching = TRUE]
                 ELSE rq[r]]
      BY <1>1 DEF Gr, Er, begins
    <2>2. QED
      BY <1>0, <1>9, <1>12, <2>1 DEF RequestSet
  <1>14. begins => /\ sw' = NewSwitch(rq[q[n + 1]].tgt) /\ sw' \in SwitchSet
                   /\ sw' # NoSwitch /\ sw'.tgt = rq[q[n + 1]].tgt
                   /\ sw'.step = "check" /\ ~sw'.cancelled /\ ~stops
                   /\ queue'[1] = q[n + 1] /\ queue' # <<>> /\ active' = 0
    <2> HAVE begins
    <2>1. n < Len(q) /\ ~Mt(n + 1) /\ n + 1 \in 1..Len(q)
      BY <1>2
    <2>2. rq[q[n + 1]].tgt \in AnyTarget
      BY <1>0, <1>2, <2>1 DEF RequestSet
    <2>3. sw' = NewSwitch(rq[q[n + 1]].tgt)
      BY <1>1
    <2>4. ~stops
      BY <1>1, <2>1
    <2>5. active' = 0
      BY <1>1 DEF Drained
    <2>6. QED
      BY <1>5, <2>1, <2>2, <2>3, <2>4, <2>5, NewSwitchFields
  <1>15. ~begins => sw' = s /\ sw' = NoSwitch /\ sw' \in SwitchSet
    BY <1>1 DEF PumpPre, Agree
  <1> HIDE DEF Gr, Er, begins, N
  \* The leases.
  <1>16. LeasedIn(req') = LeasedIn(rq) \cup Gr /\ LeasedIn(rq) \cap Gr = {}
    BY <1>8, <1>9, <1>13 DEF LeasedIn
  <1>17. active' = Cardinality(LeasedIn(req'))
    <2>1. IsFiniteSet(LeasedIn(rq)) /\ a = Cardinality(LeasedIn(rq))
      <3>1. LeasedIn(rq) \in SUBSET Requests
        BY DEF LeasedIn
      <3>2. QED
        BY <3>1, ConstantsAssumption, FS_Subset DEF PumpPre, Agree
    <2>2. Cardinality(LeasedIn(rq) \cup Gr) = a + N - Cardinality({})
      BY <1>4, <1>16, <2>1, FS_Union
    <2>3. QED
      BY <1>0, <1>4, <1>7, <1>16, <2>2, FS_EmptySet
  <1>18. Agree(queue', active', req', sw')
    <2>1. \A r \in Requests : r \in Members(queue') <=> req'[r].st = "queued"
      BY <1>8, <1>9, <1>10, <1>13
    <2>2. \A r \in Members(queue') : r \in Requests /\ req'[r].tgt = rq[r].tgt
      BY <1>11, <1>13
    <2>3. \A r \in Members(queue') : req'[r].tgt \in Targets
      BY <1>10, <2>2 DEF PumpPre, Agree
    <2>4. sw' \in SwitchSet /\ (sw' # NoSwitch => active' = 0)
      BY <1>14, <1>15
    <2>5. QED
      BY <1>5, <1>7, <1>13, <1>17, <2>1, <2>3, <2>4 DEF Agree
  <1>19. Dispatched(queue', req', sw')
    <2> SUFFICES ASSUME NEW r \in Members(queue'), req'[r].dispatching
                 PROVE  sw' # NoSwitch /\ r = queue'[1] /\ req'[r].tgt = sw'.tgt
      BY DEF Dispatched
    <2>1. r \in Requests \ (Gr \cup Er) /\ r \in Members(q)
      BY <1>11
    <2>2. CASE begins /\ r = q[n + 1]
      BY <1>13, <1>14, <2>1, <2>2
    <2>3. CASE ~(begins /\ r = q[n + 1])
      <3>1. rq[r].dispatching
        BY <1>13, <2>1, <2>3
      <3>2. r = q[1] /\ a = 0
        BY <2>1, <3>1 DEF PumpPre
      <3>3. n = 0 /\ 0 < Len(q)
        <4>1. PICK j \in (n + 1)..Len(q) : r = q[j]
          BY <1>5
        <4>2. j \in DOMAIN q /\ 1 \in DOMAIN q
          BY <1>2, <4>1
        <4>3. j = 1
          BY <1>0, <3>2, <4>1, <4>2 DEF Once
        <4>4. QED
          BY <1>2, <4>1, <4>3
      <3>4. K = {} /\ N = 0
        BY <1>2, <3>3, FS_EmptySet DEF N
      <3>5. n + 1 = 1 /\ Wt(1)
        BY <1>1, <3>3
      <3>6. ~Mt(1)
        <4> SUFFICES ASSUME Mt(1) PROVE FALSE
          OBVIOUS
        <4>1. {j \in 1..1 : Mt(j)} = {1}
          <5>1. 1..1 = {1}
            OBVIOUS
          <5>2. QED
            BY <5>1, Zenon
        <4>2. Cardinality({j \in 1..1 : Mt(j)}) = 1
          BY <4>1, FS_Singleton
        <4>3. Full(a + 1)
          BY <3>5, <4>2
        <4>4. QED
          BY <1>0, <3>2, <4>3 DEF Full
      <3>7. begins
        <4>1. Drained(a + Cardinality(Gr))
          BY <1>4, <3>2, <3>4 DEF Drained
        <4>2. QED
          BY <3>3, <3>5, <3>6, <4>1 DEF begins, Gr
      <3>8. QED
        BY <2>3, <3>2, <3>5, <3>7
    <2>4. QED
      BY <2>2, <2>3
  <1>20. Len(queue') <= Len(q) /\ Members(queue') \subseteq Members(q)
    BY <1>2, <1>5, <1>10
  <1>21. \A r \in Members(queue') : req'[r].tgt = rq[r].tgt
    BY <1>11, <1>13
  <1>22. ASSUME NEW r \in LeasedIn(req')
         PROVE  /\ req'[r].tgt = rq[r].tgt
                /\ \/ r \in LeasedIn(rq) /\ req'[r].lease = rq[r].lease
                   \/ c # NoBackend /\ req'[r].lease = c /\ back[c].tgt = rq[r].tgt
    <2>1. CASE r \in Gr
      <3>1. PICK i \in K : r = q[i]
        BY <2>1 DEF Gr
      <3>2. Mt(i)
        OBVIOUS
      <3>3. QED
        BY <1>13, <2>1, <3>1, <3>2
    <2>2. CASE r \notin Gr
      <3>1. r \in LeasedIn(rq) /\ r \in Requests
        BY <1>16, <2>2 DEF LeasedIn
      <3>2. r \notin Er
        BY <1>8, <1>9, <3>1 DEF LeasedIn
      <3>3. QED
        BY <1>13, <2>2, <3>1, <3>2
    <2>3. QED
      BY <2>1, <2>2
  <1>23. ASSUME queue' # <<>>, sw' = NoSwitch
         PROVE  /\ active' > 0
                /\ c # NoBackend /\ back[c].tgt = req'[queue'[1]].tgt => active' = Slots
    <2>1. ~begins /\ n < Len(q) /\ queue'[1] = q[n + 1] /\ n + 1 \in 1..Len(q)
      BY <1>2, <1>5, <1>14, <1>23
    <2>2. req'[queue'[1]].tgt = rq[q[n + 1]].tgt
      <3>1. queue'[1] \in Members(queue')
        BY <1>5, <1>23 DEF Members
      <3>2. QED
        BY <1>21, <2>1, <3>1
    <2>3. Wt(n + 1)
      BY <1>1, <2>1
    <2>4. CASE Mt(n + 1)
      <3> DEFINE K1 == {j \in 1..(n + 1) : Mt(j)}
      <3>1. K1 = K \cup {n + 1} /\ n + 1 \notin K
        <4>1. \A j \in 1..(n + 1) : j \in 1..n \/ j = n + 1
          BY <1>2
        <4>2. \A j \in 1..n : j \in 1..(n + 1)
          BY <1>2
        <4>3. n + 1 \in 1..(n + 1) /\ n + 1 \notin 1..n
          BY <1>2
        <4>4. QED
          BY <2>4, <4>1, <4>2, <4>3, Zenon
      <3>2. Cardinality(K1) = N + 1
        BY <1>4, <3>1, FS_AddElement DEF N
      <3>3. Full(a + (N + 1))
        BY <2>3, <2>4, <3>2
      <3>4. QED
        BY <1>0, <1>4, <1>7, <3>3 DEF Full
    <2>5. CASE ~Mt(n + 1)
      <3>1. ~Drained(a + Cardinality(Gr))
        BY <2>1, <2>5 DEF begins, Gr
      <3>2. active' # 0
        BY <1>4, <1>7, <3>1 DEF Drained
      <3>3. QED
        BY <1>7, <2>2, <2>5, <3>2
    <2>6. QED
      BY <2>4, <2>5
  <1>24. \/ sw' = s
         \/ s = NoSwitch /\ ~held /\ ~stops /\ sw'.step = "check" /\ ~sw'.cancelled
    BY <1>14, <1>15
  <1>25. QED
    BY <1>18, <1>19, <1>20, <1>21, <1>22, <1>23, <1>24 DEF PumpPost

\* pump does what it should.
LEMMA PumpFacts ==
    ASSUME NEW q, NEW a, NEW rq, NEW c, NEW s, NEW held, NEW stops,
           PumpPre(q, a, rq, c, s, held), Pump(q, a, rq, c, s, held, stops)
    PROVE  PumpPost(q, a, rq, c, s, held, stops)
  BY PumpHeld, PumpRuns DEF PumpPre

-----------------------------------------------------------------------------
(* The critical sections that end with pump *)

PumpAction ==
    \/ \E r \in Requests : (\E t \in Targets : Acquire(r, t)) \/ Release(r) \/ Cancel(r) \/ Timeout(r)
    \/ SwFinish
    \/ \E b \in Backends : WatchPump(b)
    \/ \E u \in Unloaders : UnloadGivesUp(u) \/ UnloadEnds(u)
    \/ Unclaim
    \/ StopLoads

\* What such a section leaves to pump, compared with the state it began in.
LeavesToPump(q, a, rq, s) ==
    /\ PumpPre(q, a, rq, cur, s, Held')
    /\ Pump(q, a, rq, cur, s, Held', stopping')
    /\ \A r \in Members(q) : rq[r].tgt.model # unloading
    /\ \A r \in LeasedIn(rq) : r \in Leased /\ rq[r].lease = req[r].lease /\ rq[r].tgt = req[r].tgt
    /\ Len(q) <= QueueCapacity /\ (closed => Len(q) = 0)
    /\ s \in {sw, Cancelled(sw), NoSwitch} /\ (stopping' \/ closed => s = NoSwitch \/ s.cancelled)
    /\ a <= active

\* What it leaves untouched.
PumpFrame ==
    /\ UNCHANGED <<cur, ledger, emergency, closer, crashes>>
    /\ back' \in [Backends -> [tgt : AnyTarget, proc : {"none", "loading", "up", "gone"},
                               once : {"no", "running", "done"},
                               watch : {"off", "on", "crashed"}]]
    /\ \A b \in Backends : /\ back'[b].tgt = back[b].tgt /\ back'[b].proc = back[b].proc
                           /\ back'[b].once = back[b].once

\* What it comes to.
PumpedStep ==
    /\ PumpFrame
    /\ Agree(queue', active', req', sw') /\ Dispatched(queue', req', sw') /\ Awaited'
    /\ Len(queue') <= QueueCapacity /\ (closed => queue' = <<>>)
    /\ \A r \in Members(queue') : req'[r].tgt.model # unloading
    /\ \A r \in Leased' :
          \/ r \in Leased /\ req'[r].lease = req[r].lease /\ req'[r].tgt = req[r].tgt
          \/ cur # NoBackend /\ req'[r].lease = cur /\ back[cur].tgt = req'[r].tgt
    /\ \/ sw' \in {sw, Cancelled(sw), NoSwitch}
       \/ ~Held' /\ ~stopping' /\ sw'.step = "check" /\ ~sw'.cancelled
    /\ stopping' \/ closed' => sw' = NoSwitch \/ sw'.cancelled
    /\ Held' => active' <= active

\* A section that leaves pump what it needs comes to that.
LEMMA PumpedSection ==
    ASSUME NEW q, NEW a, NEW rq, NEW s, IInv, LeavesToPump(q, a, rq, s), PumpFrame
    PROVE  PumpedStep
  <1>1. PumpPost(q, a, rq, cur, s, Held', stopping')
    BY PumpFacts DEF LeavesToPump
  <1>2. /\ Agree(queue', active', req', sw') /\ Dispatched(queue', req', sw')
        /\ Len(queue') <= Len(q) /\ Members(queue') \subseteq Members(q)
        /\ \A r \in Members(queue') : req'[r].tgt = rq[r].tgt
    BY <1>1 DEF PumpPost
  <1>3. Len(queue') \in Nat /\ Len(q) \in Nat /\ Len(q) <= QueueCapacity /\ QueueCapacity \in Nat
    BY <1>2, ConstantsAssumption DEF Agree, LeavesToPump, PumpPre
  <1>4. Len(queue') <= QueueCapacity /\ (closed => queue' = <<>>)
    <2>1. Len(queue') <= QueueCapacity
      BY <1>2, <1>3
    <2>2. closed => Len(queue') = 0
      BY <1>2, <1>3 DEF LeavesToPump
    <2>3. queue' \in Seq(Requests)
      BY <1>2 DEF Agree
    <2>4. QED
      BY <2>1, <2>2, <2>3
  <1>5. Awaited'
    <2>1. cur' = cur /\ cur \in AnyBackend
      BY DEF PumpFrame, IInv, TypeOK
    <2>2. cur # NoBackend => back'[cur].tgt = back[cur].tgt
      BY <2>1 DEF PumpFrame, AnyBackend
    <2>3. queue' # <<>> /\ sw' = NoSwitch /\ ~Held' =>
            /\ active' > 0
            /\ cur # NoBackend /\ back[cur].tgt = req'[queue'[1]].tgt => active' = Slots
      BY <1>1 DEF PumpPost
    <2>4. QED
      BY <2>1, <2>2, <2>3 DEF Awaited
  <1>6. \A r \in Members(queue') : req'[r].tgt.model # unloading
    BY <1>2 DEF LeavesToPump
  <1>7. ASSUME NEW r \in Leased'
        PROVE  \/ r \in Leased /\ req'[r].lease = req[r].lease /\ req'[r].tgt = req[r].tgt
               \/ cur # NoBackend /\ req'[r].lease = cur /\ back[cur].tgt = req'[r].tgt
    <2>1. r \in LeasedIn(req')
      BY DEF LeasedIn, Leased
    <2>2. /\ req'[r].tgt = rq[r].tgt
          /\ \/ r \in LeasedIn(rq) /\ req'[r].lease = rq[r].lease
             \/ cur # NoBackend /\ req'[r].lease = cur /\ back[cur].tgt = rq[r].tgt
      BY <1>1, <2>1 DEF PumpPost
    <2>3. QED
      BY <2>2 DEF LeavesToPump
  <1>8. \/ sw' = s
        \/ ~Held' /\ ~stopping' /\ sw'.step = "check" /\ ~sw'.cancelled
    BY <1>1 DEF PumpPost
  <1>9. closed' <=> closed
    BY DEF PumpFrame, closed
  <1>10. stopping' \/ closed' => sw' = NoSwitch \/ sw'.cancelled
    BY <1>8, <1>9 DEF LeavesToPump, Held
  <1>11. Held' => active' <= active
    BY <1>1 DEF PumpPost, LeavesToPump
  <1>12. s \in {sw, Cancelled(sw), NoSwitch}
    BY DEF LeavesToPump
  <1>13. QED
    BY <1>2, <1>4, <1>5, <1>6, <1>7, <1>8, <1>10, <1>11, <1>12 DEF PumpedStep

\* The queue that is left as it is.
LEMMA StayPre ==
    ASSUME IInv
    PROVE  /\ PumpPre(queue, active, req, cur, sw, Held')
           /\ \A r \in Members(queue) : req[r].tgt.model # unloading
           /\ LeasedIn(req) = Leased
           /\ Len(queue) <= QueueCapacity /\ (closed => Len(queue) = 0)
           /\ stopping \/ closed => sw = NoSwitch \/ sw.cancelled
           /\ active <= active /\ active \in Nat
  <1>1. cur \in AnyBackend /\ active \in 0..Slots /\ Slots \in Nat
    BY ConstantsAssumption DEF IInv, TypeOK
  <1>2. PumpPre(queue, active, req, cur, sw, Held')
    BY <1>1 DEF IInv, QueueInv, Dispatched, PumpPre, Held
  <1>3. QED
    BY <1>1, <1>2 DEF IInv, QueueInv, EndInv, HoldsExcludeEachOther, UnloadProtects, LeasedIn, Leased

\* What a section that only changes the queue leaves alone.
LEMMA StayFrame ==
    ASSUME IInv, UNCHANGED <<cur, back, ledger, emergency, closer, crashes>>
    PROVE  PumpFrame
  BY DEF PumpFrame, IInv, TypeOK

\* Sections that only pump.
LEMMA StayPumps ==
    ASSUME IInv, Pump(queue, active, req, cur, sw, Held', stopping'), stopping' = stopping
    PROVE  LeavesToPump(queue, active, req, sw)
  BY StayPre DEF LeavesToPump

\* Ending a switch only marks it.
LEMMA CancelledFields ==
    ASSUME NEW s \in SwitchSet
    PROVE  /\ Cancelled(s) \in SwitchSet /\ (Cancelled(s) = NoSwitch <=> s = NoSwitch)
           /\ Cancelled(s).step = s.step /\ Cancelled(s).tgt = s.tgt /\ Cancelled(s).new = s.new
           /\ Cancelled(s).prev = s.prev
           /\ Cancelled(s) = NoSwitch \/ Cancelled(s).cancelled
           /\ s # NoSwitch => Cancelled(s) = [s EXCEPT !.cancelled = TRUE]
  <1>1. CASE s = NoSwitch
    BY <1>1 DEF Cancelled
  <1>2. CASE s # NoSwitch
    <2>1. Cancelled(s) = [s EXCEPT !.cancelled = TRUE]
      BY <1>2 DEF Cancelled
    <2>2. Cancelled(s).cancelled /\ ~NoSwitch.cancelled
      BY <2>1 DEF SwitchSet, NoSwitch
    <2>3. QED
      BY <1>2, <2>1, <2>2 DEF SwitchSet
  <1>3. QED
    BY <1>1, <1>2

\* StopLoads ends the switch and leaves pump a consistent queue.
LEMMA StopLoadsPumps ==
    ASSUME IInv, StopLoads
    PROVE  LeavesToPump(queue, active, req, Cancelled(sw))
  <1>1. Agree(queue, active, req, sw) /\ sw \in SwitchSet
    BY DEF IInv, QueueInv, Agree
  <1>2. Agree(queue, active, req, Cancelled(sw))
    BY <1>1, CancelledFields DEF Agree
  <1>3. Held' = Held /\ stopping' = TRUE
    BY DEF StopLoads, holdVars, Held, closed
  <1>4. PumpPre(queue, active, req, cur, Cancelled(sw), Held')
    BY <1>1, <1>2, <1>3, StayPre, CancelledFields DEF PumpPre
  <1>5. Pump(queue, active, req, cur, Cancelled(sw), Held', stopping')
    BY <1>3 DEF StopLoads
  <1>6. QED
    BY <1>1, <1>4, <1>5, StayPre, CancelledFields DEF LeavesToPump

\* So does Acquire, with the new request at the tail.
LEMMA AcquirePumps ==
    ASSUME IInv, NEW r \in Requests, NEW t \in Targets, Acquire(r, t)
    PROVE  LeavesToPump(Append(queue, r), active,
                        [req EXCEPT ![r] = [Out EXCEPT !.st = "queued", !.tgt = t]], sw)
  <1> DEFINE q == Append(queue, r)
             e == [Out EXCEPT !.st = "queued", !.tgt = t]
             rq == [req EXCEPT ![r] = e]
  <1>1. /\ queue \in Seq(Requests) /\ req \in RequestSet /\ active \in 0..Slots /\ sw \in SwitchSet
        /\ Once(queue) /\ \A x \in Requests : x \in Members(queue) <=> req[x].st = "queued"
        /\ \A x \in Members(queue) : req[x].tgt \in Targets
        /\ active = Cardinality(LeasedIn(req)) /\ (sw # NoSwitch => active = 0)
        /\ Dispatched(queue, req, sw)
    BY DEF IInv, QueueInv, Agree
  <1>2. e.st = "queued" /\ e.tgt = t /\ ~e.dispatching /\ Out.st = "out"
        /\ e \in [st : {"out", "queued", "granted", "holding"}, tgt : AnyTarget,
                  lease : AnyBackend, dispatching : BOOLEAN]
    BY DEF Out, AnyTarget, AnyBackend
  <1> HIDE DEF e
  <1>3. /\ rq \in RequestSet /\ rq[r] = e
        /\ \A x \in Requests \ {r} : rq[x] = req[x]
    BY <1>1, <1>2 DEF RequestSet
  <1>4. req[r].st = "out" /\ r \notin Members(queue)
    BY <1>1, <1>2 DEF Acquire
  <1>5. /\ q \in Seq(Requests) /\ Len(q) = Len(queue) + 1 /\ DOMAIN q = 1..(Len(queue) + 1)
        /\ q[Len(queue) + 1] = r /\ \A i \in 1..Len(queue) : q[i] = queue[i]
        /\ Len(queue) \in Nat /\ DOMAIN queue = 1..Len(queue)
    BY <1>1
  <1> HIDE DEF q, rq
  <1>6. Members(q) = Members(queue) \cup {r}
    <2>1. \A i \in 1..(Len(queue) + 1) : i \in 1..Len(queue) \/ i = Len(queue) + 1
      BY <1>5
    <2>2. \A i \in 1..Len(queue) : i \in 1..(Len(queue) + 1)
      BY <1>5
    <2>3. Len(queue) + 1 \in 1..(Len(queue) + 1)
      BY <1>5
    <2>4. QED
      BY <1>5, <2>1, <2>2, <2>3 DEF Members
  <1>7. Once(q)
    <2> SUFFICES ASSUME NEW i \in 1..(Len(queue) + 1), NEW j \in 1..(Len(queue) + 1), q[i] = q[j]
                 PROVE  i = j
      BY <1>5 DEF Once
    <2>1. \A k \in 1..Len(queue) : q[k] # r
      BY <1>4, <1>5 DEF Members
    <2>2. CASE i \in 1..Len(queue) /\ j \in 1..Len(queue)
      BY <1>1, <1>5, <2>2 DEF Once
    <2>3. QED
      BY <1>5, <2>1, <2>2
  <1>8. \A x \in Members(queue) : x \in Requests \ {r}
    BY <1>1, <1>4, <1>5 DEF Members
  <1>9. LeasedIn(rq) = LeasedIn(req)
    BY <1>2, <1>3, <1>4 DEF LeasedIn
  <1>10. Agree(q, active, rq, sw)
    <2>1. \A x \in Requests : x \in Members(q) <=> rq[x].st = "queued"
      BY <1>1, <1>2, <1>3, <1>6
    <2>2. \A x \in Members(q) : rq[x].tgt \in Targets
      BY <1>1, <1>2, <1>3, <1>6, <1>8
    <2>3. QED
      BY <1>1, <1>3, <1>5, <1>7, <1>9, <2>1, <2>2 DEF Agree
  <1>11. ASSUME NEW x \in Members(q), rq[x].dispatching
         PROVE  x = q[1] /\ sw # NoSwitch /\ rq[x].tgt = sw.tgt
    <2>1. x \in Members(queue) /\ rq[x] = req[x]
      BY <1>2, <1>3, <1>6, <1>8, <1>11
    <2>2. x = queue[1] /\ sw # NoSwitch /\ req[x].tgt = sw.tgt
      BY <1>1, <1>11, <2>1 DEF Dispatched
    <2>3. 1 \in 1..Len(queue)
      BY <1>5, <2>1 DEF Members
    <2>4. QED
      BY <1>5, <2>1, <2>2, <2>3
  <1>12. Held' = Held /\ stopping' = stopping
    BY DEF Acquire, holdVars, endVars, Held, closed
  <1>13. PumpPre(q, active, rq, cur, sw, Held')
    BY <1>10, <1>11, StayPre DEF PumpPre
  <1>14. Pump(q, active, rq, cur, sw, Held', stopping')
    BY <1>12 DEF Acquire, q, rq, e
  <1>15. \A x \in Members(q) : rq[x].tgt.model # unloading
    <2>1. t.model # unloading
      BY DEF Acquire
    <2>2. QED
      BY <1>2, <1>3, <1>6, <1>8, <2>1, StayPre
  <1>16. ~closed /\ Len(q) <= QueueCapacity
    BY <1>5, ConstantsAssumption DEF Acquire
  <1>17. \A x \in LeasedIn(rq) : x \in Leased /\ rq[x].lease = req[x].lease /\ rq[x].tgt = req[x].tgt
    BY <1>3, <1>4, <1>9 DEF LeasedIn, Leased
  <1>18. QED
    BY <1>12, <1>13, <1>14, <1>15, <1>16, <1>17, StayPre DEF LeavesToPump, q, rq, e

\* A waiting request leaves the queue.
LEMMA LeavePumps ==
    ASSUME IInv, NEW r \in Requests, req[r].st = "queued",
           Pump(Without(queue, {r}), active, [req EXCEPT ![r] = Out], cur, sw, Held', stopping'),
           stopping' = stopping
    PROVE  LeavesToPump(Without(queue, {r}), active, [req EXCEPT ![r] = Out], sw)
  <1> DEFINE q == Without(queue, {r})
             rq == [req EXCEPT ![r] = Out]
  <1>1. /\ queue \in Seq(Requests) /\ req \in RequestSet /\ active \in 0..Slots /\ sw \in SwitchSet
        /\ Once(queue) /\ \A x \in Requests : x \in Members(queue) <=> req[x].st = "queued"
        /\ \A x \in Members(queue) : req[x].tgt \in Targets
        /\ active = Cardinality(LeasedIn(req)) /\ (sw # NoSwitch => active = 0)
        /\ Dispatched(queue, req, sw)
    BY DEF IInv, QueueInv, Agree
  <1>2. Out.st = "out" /\ Out \in [st : {"out", "queued", "granted", "holding"}, tgt : AnyTarget,
                                   lease : AnyBackend, dispatching : BOOLEAN]
    BY DEF Out, AnyTarget, AnyBackend
  <1>3. /\ rq \in RequestSet /\ rq[r] = Out
        /\ \A x \in Requests \ {r} : rq[x] = req[x]
    BY <1>1, <1>2 DEF RequestSet
  <1>4. /\ q \in Seq(Requests) /\ Len(q) <= Len(queue) /\ Once(q)
        /\ Members(q) = Members(queue) \ {r}
        /\ queue # <<>> /\ queue[1] \notin {r} => q # <<>> /\ q[1] = queue[1]
    BY <1>1, WithoutFacts
  <1> HIDE DEF q, rq
  <1>5. \A x \in Members(q) : x \in Requests \ {r} /\ x \in Members(queue) /\ queue # <<>>
    BY <1>1, <1>4 DEF Members
  <1>6. LeasedIn(rq) = LeasedIn(req)
    BY <1>2, <1>3 DEF LeasedIn
  <1>7. Agree(q, active, rq, sw)
    <2>1. \A x \in Requests : x \in Members(q) <=> rq[x].st = "queued"
      BY <1>1, <1>2, <1>3, <1>4
    <2>2. \A x \in Members(q) : rq[x].tgt \in Targets
      BY <1>1, <1>3, <1>5
    <2>3. QED
      BY <1>1, <1>3, <1>4, <1>6, <2>1, <2>2 DEF Agree
  <1>8. ASSUME NEW x \in Members(q), rq[x].dispatching
        PROVE  x = q[1] /\ sw # NoSwitch /\ rq[x].tgt = sw.tgt
    BY <1>1, <1>3, <1>4, <1>5, <1>8 DEF Dispatched
  <1>9. PumpPre(q, active, rq, cur, sw, Held')
    BY <1>7, <1>8, StayPre DEF PumpPre
  <1>10. \A x \in Members(q) : rq[x].tgt.model # unloading
    BY <1>3, <1>5, StayPre
  <1>11. Len(q) <= QueueCapacity /\ (closed => Len(q) = 0)
    <2>1. Len(q) \in Nat /\ Len(queue) \in Nat /\ QueueCapacity \in Nat
      BY <1>1, <1>4, ConstantsAssumption
    <2>2. QED
      BY <1>4, <2>1, StayPre
  <1>12. \A x \in LeasedIn(rq) : x \in Leased /\ rq[x].lease = req[x].lease /\ rq[x].tgt = req[x].tgt
    BY <1>3, <1>6 DEF LeasedIn, Leased
  <1>13. Pump(q, active, rq, cur, sw, Held', stopping')
    BY DEF q, rq
  <1>14. QED
    BY <1>9, <1>10, <1>11, <1>12, <1>13, StayPre DEF LeavesToPump, q, rq

\* A request that was granted its lease is about to give it back.
LEMMA CancelGrantedPumps ==
    ASSUME IInv, NEW r \in Requests, req[r].st = "granted",
           NEW rq, rq = [req EXCEPT ![r] = [@ EXCEPT !.st = "holding"]],
           Pump(Without(queue, {r}), active, rq, cur, sw, Held', stopping'),
           stopping' = stopping
    PROVE  LeavesToPump(Without(queue, {r}), active, rq, sw)
  <1> DEFINE q == Without(queue, {r})
  <1>1. /\ queue \in Seq(Requests) /\ req \in RequestSet /\ active \in 0..Slots /\ sw \in SwitchSet
        /\ Once(queue) /\ \A x \in Requests : x \in Members(queue) <=> req[x].st = "queued"
        /\ \A x \in Members(queue) : req[x].tgt \in Targets
        /\ active = Cardinality(LeasedIn(req)) /\ (sw # NoSwitch => active = 0)
        /\ Dispatched(queue, req, sw)
    BY DEF IInv, QueueInv, Agree
  <1>2. /\ rq \in RequestSet
        /\ rq[r].st = "holding" /\ rq[r].tgt = req[r].tgt /\ rq[r].lease = req[r].lease
        /\ \A x \in Requests \ {r} : rq[x] = req[x]
    BY <1>1 DEF RequestSet
  <1>3. r \notin Members(queue) /\ \A x \in Members(queue) : x \in Requests \ {r}
    BY <1>1 DEF Members
  <1>4. /\ q \in Seq(Requests) /\ Len(q) <= Len(queue) /\ Once(q)
        /\ Members(q) = Members(queue)
        /\ queue # <<>> /\ queue[1] \notin {r} => q # <<>> /\ q[1] = queue[1]
    <2>1. Members(q) = Members(queue) \ {r}
      BY <1>1, WithoutFacts
    <2>2. Members(queue) \ {r} = Members(queue)
      BY <1>3, Zenon
    <2>3. QED
      BY <1>1, <2>1, <2>2, WithoutFacts
  <1> HIDE DEF q
  <1>5. LeasedIn(rq) = LeasedIn(req)
    BY <1>2 DEF LeasedIn
  <1>6. Agree(q, active, rq, sw)
    <2>1. \A x \in Requests : x \in Members(q) <=> rq[x].st = "queued"
      BY <1>1, <1>2, <1>4
    <2>2. \A x \in Members(q) : rq[x].tgt \in Targets
      BY <1>1, <1>2, <1>3, <1>4
    <2>3. QED
      BY <1>1, <1>2, <1>4, <1>5, <2>1, <2>2 DEF Agree
  <1>7. ASSUME NEW x \in Members(q), rq[x].dispatching
        PROVE  x = q[1] /\ sw # NoSwitch /\ rq[x].tgt = sw.tgt
    <2>1. x \in Members(queue) /\ x \in Requests \ {r} /\ rq[x] = req[x]
      BY <1>2, <1>3, <1>4
    <2>2. x = queue[1] /\ sw # NoSwitch /\ req[x].tgt = sw.tgt
      BY <1>1, <1>7, <2>1 DEF Dispatched
    <2>3. queue # <<>>
      BY <2>1 DEF Members
    <2>4. QED
      BY <1>4, <2>1, <2>2, <2>3
  <1>8. PumpPre(q, active, rq, cur, sw, Held')
    BY <1>6, <1>7, StayPre DEF PumpPre
  <1>9. \A x \in Members(q) : rq[x].tgt.model # unloading
    BY <1>2, <1>3, <1>4, StayPre
  <1>10. Len(q) <= QueueCapacity /\ (closed => Len(q) = 0)
    <2>1. Len(q) \in Nat /\ Len(queue) \in Nat /\ QueueCapacity \in Nat
      BY <1>1, <1>4, ConstantsAssumption
    <2>2. QED
      BY <1>4, <2>1, StayPre
  <1>11. \A x \in LeasedIn(rq) : x \in Leased /\ rq[x].lease = req[x].lease /\ rq[x].tgt = req[x].tgt
    BY <1>2, <1>5 DEF LeasedIn, Leased
  <1>12. Pump(q, active, rq, cur, sw, Held', stopping')
    BY DEF q
  <1>13. QED
    BY <1>8, <1>9, <1>10, <1>11, <1>12, StayPre DEF LeavesToPump, q

\* So does Cancel, whether its request waits or was granted a lease.
LEMMA CancelPumps ==
    ASSUME IInv, NEW r \in Requests, Cancel(r)
    PROVE  \E rq : LeavesToPump(Without(queue, {r}), active, rq, sw)
  <1>1. Held' = Held /\ stopping' = stopping
    BY DEF Cancel, holdVars, endVars, Held, closed
  <1>2. req \in RequestSet
    BY DEF IInv, QueueInv, Agree
  <1>3. CASE req[r].st = "queued"
    <2>1. [req EXCEPT ![r] = IF @.st = "granted" THEN [@ EXCEPT !.st = "holding"] ELSE Out]
            = [req EXCEPT ![r] = Out]
      BY <1>3
    <2>2. QED
      BY <1>1, <1>3, <2>1, LeavePumps DEF Cancel
  <1>4. CASE req[r].st = "granted"
    <2>1. [req EXCEPT ![r] = IF @.st = "granted" THEN [@ EXCEPT !.st = "holding"] ELSE Out]
            = [req EXCEPT ![r] = [@ EXCEPT !.st = "holding"]]
      BY <1>4
    <2>2. QED
      BY <1>1, <1>4, <2>1, CancelGrantedPumps DEF Cancel
  <1>5. QED
    BY <1>3, <1>4 DEF Cancel

\* So does Release, with one lease less.
LEMMA ReleasePumps ==
    ASSUME IInv, NEW r \in Requests, Release(r)
    PROVE  LeavesToPump(queue, active - 1, [req EXCEPT ![r] = Out], sw)
  <1> DEFINE rq == [req EXCEPT ![r] = Out]
  <1>1. /\ queue \in Seq(Requests) /\ req \in RequestSet /\ active \in 0..Slots /\ sw \in SwitchSet
        /\ Once(queue) /\ \A x \in Requests : x \in Members(queue) <=> req[x].st = "queued"
        /\ \A x \in Members(queue) : req[x].tgt \in Targets
        /\ active = Cardinality(LeasedIn(req)) /\ (sw # NoSwitch => active = 0)
        /\ Dispatched(queue, req, sw)
    BY DEF IInv, QueueInv, Agree
  <1>2. Out.st = "out" /\ Out \in [st : {"out", "queued", "granted", "holding"}, tgt : AnyTarget,
                                   lease : AnyBackend, dispatching : BOOLEAN]
    BY DEF Out, AnyTarget, AnyBackend
  <1>3. /\ rq \in RequestSet /\ rq[r] = Out
        /\ \A x \in Requests \ {r} : rq[x] = req[x]
    BY <1>1, <1>2 DEF RequestSet
  <1> HIDE DEF rq
  <1>4. LeasedIn(rq) = LeasedIn(req) \ {r} /\ r \in LeasedIn(req)
    BY <1>2, <1>3 DEF LeasedIn, Release
  <1>5. IsFiniteSet(LeasedIn(req))
    <2>1. LeasedIn(req) \in SUBSET Requests
      BY DEF LeasedIn
    <2>2. QED
      BY <2>1, ConstantsAssumption, FS_Subset
  <1>6. /\ Cardinality(LeasedIn(rq)) = active - 1 /\ active # 0 /\ active - 1 \in 0..Slots
        /\ active - 1 <= active
    <2>1. Cardinality(LeasedIn(rq)) = active - 1 /\ active # 0
      BY <1>1, <1>4, <1>5, FS_RemoveElement, FS_EmptySet
    <2>2. Slots \in Nat
      BY ConstantsAssumption
    <2>3. QED
      BY <1>1, <2>1, <2>2
  <1>7. sw = NoSwitch
    BY <1>1, <1>6
  <1>8. \A x \in Members(queue) : x \in Requests \ {r} /\ rq[x] = req[x] /\ ~req[x].dispatching
    <2> TAKE x \in Members(queue)
    <2>1. x \in Requests \ {r}
      BY <1>1 DEF Members, Release
    <2>2. QED
      BY <1>1, <1>3, <1>7, <2>1 DEF Dispatched
  <1>9. Agree(queue, active - 1, rq, sw)
    <2>1. \A x \in Requests : x \in Members(queue) <=> rq[x].st = "queued"
      BY <1>1, <1>2, <1>3, <1>8
    <2>2. QED
      BY <1>1, <1>3, <1>6, <1>7, <1>8, <2>1 DEF Agree
  <1>10. Held' = Held /\ stopping' = stopping
    BY DEF Release, holdVars, endVars, Held, closed
  <1>11. PumpPre(queue, active - 1, rq, cur, sw, Held')
    BY <1>8, <1>9, StayPre DEF PumpPre
  <1>12. \A x \in Members(queue) : rq[x].tgt.model # unloading
    BY <1>8, StayPre
  <1>13. \A x \in LeasedIn(rq) : x \in Leased /\ rq[x].lease = req[x].lease /\ rq[x].tgt = req[x].tgt
    BY <1>3, <1>4 DEF LeasedIn, Leased
  <1>14. Pump(queue, active - 1, rq, cur, sw, Held', stopping')
    BY <1>10 DEF Release, rq
  <1>15. QED
    BY <1>6, <1>10, <1>11, <1>12, <1>13, <1>14, StayPre DEF LeavesToPump, rq

\* So does the end of a switch, which refuses the requests at the head that asked for
\* the model it failed to start.
LEMMA SwFinishPumps ==
    ASSUME IInv, SwFinish
    PROVE  \E q, rq : LeavesToPump(q, active, rq, NoSwitch)
  <1>1. PICK k \in 0..Len(queue) :
           /\ \A i \in 1..k : sw.err # "none" /\ req[queue[i]].tgt = sw.tgt
           /\ k < Len(queue) => sw.err = "none" \/ ~(req[queue[k + 1]].tgt = sw.tgt)
           /\ Pump(SubSeq(queue, k + 1, Len(queue)), active,
                   Refuse(req, {queue[i] : i \in 1..k}), cur, NoSwitch, Held, stopping)
    BY Zenon DEF SwFinish
  <1> DEFINE gone == {queue[i] : i \in 1..k}
             q == SubSeq(queue, k + 1, Len(queue))
             rq == Refuse(req, gone)
  <1>2. /\ queue \in Seq(Requests) /\ req \in RequestSet /\ active \in 0..Slots /\ sw \in SwitchSet
        /\ Once(queue) /\ \A x \in Requests : x \in Members(queue) <=> req[x].st = "queued"
        /\ \A x \in Members(queue) : req[x].tgt \in Targets
        /\ active = Cardinality(LeasedIn(req)) /\ (sw # NoSwitch => active = 0)
        /\ Dispatched(queue, req, sw)
    BY DEF IInv, QueueInv, Agree
  <1>3. sw # NoSwitch /\ active = 0 /\ sw.step = "tried"
    BY <1>2 DEF SwFinish, NoSwitch
  <1>4. /\ q \in Seq(Requests) /\ Len(q) = Len(queue) - k /\ Once(q)
        /\ Members(q) = {queue[i] : i \in (k + 1)..Len(queue)}
        /\ k < Len(queue) => q[1] = queue[k + 1]
    BY <1>2, TailFacts
  <1>5. Len(queue) \in Nat /\ k \in Nat /\ k <= Len(queue) /\ DOMAIN queue = 1..Len(queue)
        /\ \A i \in 1..Len(queue) : queue[i] \in Requests
    BY <1>2
  <1>6. Out.st = "out" /\ Out \in [st : {"out", "queued", "granted", "holding"}, tgt : AnyTarget,
                                   lease : AnyBackend, dispatching : BOOLEAN]
    BY DEF Out, AnyTarget, AnyBackend
  <1>7. gone \subseteq Members(queue) /\ gone \subseteq Requests
    BY <1>5 DEF Members
  <1>8. ASSUME NEW x \in Requests
        PROVE  x \in Members(q) <=> x \in Members(queue) \ gone
    <2>1. ASSUME NEW i \in (k + 1)..Len(queue), x = queue[i]
          PROVE  x \in Members(queue) \ gone
      <3>1. i \in DOMAIN queue /\ \A j \in 1..k : j \in DOMAIN queue /\ i # j
        BY <1>5
      <3>2. QED
        BY <1>2, <2>1, <3>1 DEF Once, Members
    <2>2. ASSUME NEW i \in DOMAIN queue, x = queue[i], x \notin gone
          PROVE  i \in (k + 1)..Len(queue)
      BY <1>5, <2>2
    <2>3. QED
      BY <1>4, <2>1, <2>2 DEF Members
  <1>9. \A x \in Members(q) : x \in Requests /\ x \in Members(queue) /\ x \notin gone
    <2>1. \A x \in Members(q) : x \in Requests
      BY <1>4 DEF Members
    <2>2. QED
      BY <1>8, <2>1
  <1> HIDE DEF gone, q
  <1>10. /\ rq \in RequestSet
         /\ \A x \in gone : rq[x] = Out
         /\ \A x \in Requests \ gone : rq[x] = req[x]
    BY <1>2, <1>6, <1>7 DEF RequestSet, Refuse
  <1> HIDE DEF rq
  <1>11. LeasedIn(rq) = LeasedIn(req)
    BY <1>2, <1>6, <1>7, <1>10 DEF LeasedIn
  <1>12. Agree(q, active, rq, NoSwitch)
    <2>1. \A x \in Requests : x \in Members(q) <=> rq[x].st = "queued"
      BY <1>2, <1>6, <1>8, <1>10
    <2>2. \A x \in Members(q) : rq[x].tgt \in Targets
      BY <1>2, <1>9, <1>10
    <2>3. NoSwitch \in SwitchSet
      BY DEF NoSwitch, SwitchSet, AnyBackend, AnyTarget
    <2>4. QED
      BY <1>2, <1>3, <1>4, <1>10, <1>11, <2>1, <2>2, <2>3 DEF Agree
  <1>13. Held' = Held /\ stopping' = stopping
    BY DEF SwFinish, holdVars, endVars, Held, closed
  <1>14. ASSUME NEW x \in Members(q), rq[x].dispatching
         PROVE  x = q[1] /\ ~Held'
    <2>1. x \in Members(queue) /\ x \in Requests \ gone /\ rq[x] = req[x]
      BY <1>9, <1>10
    <2>2. x = queue[1] /\ req[x].tgt = sw.tgt
      BY <1>2, <1>14, <2>1 DEF Dispatched
    <2>3. 1 \in 1..Len(queue)
      BY <1>5, <2>1 DEF Members
    <2>4. k = 0
      BY <1>5, <2>1, <2>2, <2>3 DEF gone
    <2>5. q[1] = queue[1]
      BY <1>4, <1>5, <2>3, <2>4
    <2>6. ~claimed /\ unloading = NoModel
      BY <1>3 DEF IInv, HoldsExcludeEachOther
    <2>7. queue # <<>>
      BY <2>3
    <2>8. ~closed
      BY <2>7 DEF IInv, EndInv
    <2>9. QED
      BY <1>13, <2>2, <2>5, <2>6, <2>8 DEF Held
  <1>15. PumpPre(q, active, rq, cur, NoSwitch, Held')
    BY <1>3, <1>12, <1>14, StayPre DEF PumpPre
  <1>16. \A x \in Members(q) : rq[x].tgt.model # unloading
    BY <1>9, <1>10, StayPre
  <1>17. Len(q) <= QueueCapacity /\ (closed => Len(q) = 0)
    <2>1. QueueCapacity \in Nat
      BY ConstantsAssumption
    <2>2. QED
      BY <1>4, <1>5, <2>1, StayPre
  <1>18. \A x \in LeasedIn(rq) : x \in Leased /\ rq[x].lease = req[x].lease /\ rq[x].tgt = req[x].tgt
    BY <1>2, <1>7, <1>10, <1>11 DEF LeasedIn, Leased
  <1>19. Pump(q, active, rq, cur, NoSwitch, Held', stopping')
    BY <1>1, <1>13 DEF q, rq, gone
  <1>20. LeavesToPump(q, active, rq, NoSwitch)
    BY <1>15, <1>16, <1>17, <1>18, <1>19, StayPre DEF LeavesToPump
  <1>21. QED
    BY <1>20

\* Every critical section that ends with pump comes to a PumpedStep.
LEMMA PumpActionSteps ==
    ASSUME IInv, PumpAction
    PROVE  PumpedStep
  <1>1. ASSUME NEW r \in Requests, NEW t \in Targets, Acquire(r, t)
        PROVE  PumpedStep
    <2>1. PumpFrame
      BY <1>1, StayFrame DEF Acquire, endVars
    <2>2. QED
      BY <1>1, <2>1, AcquirePumps, PumpedSection
  <1>2. ASSUME NEW r \in Requests, Release(r)
        PROVE  PumpedStep
    <2>1. PumpFrame
      BY <1>2, StayFrame DEF Release, endVars
    <2>2. QED
      BY <1>2, <2>1, ReleasePumps, PumpedSection
  <1>3. ASSUME NEW r \in Requests, Cancel(r)
        PROVE  PumpedStep
    <2>1. PumpFrame
      BY <1>3, StayFrame DEF Cancel, endVars
    <2>2. QED
      BY <1>3, <2>1, CancelPumps, PumpedSection
  <1>4. ASSUME NEW r \in Requests, Timeout(r)
        PROVE  PumpedStep
    <2>1. PumpFrame
      BY <1>4, StayFrame DEF Timeout, endVars
    <2>2. Held' = Held /\ stopping' = stopping
      BY <1>4 DEF Timeout, holdVars, endVars, Held, closed
    <2>3. LeavesToPump(Without(queue, {r}), active, [req EXCEPT ![r] = Out], sw)
      BY <1>4, <2>2, LeavePumps DEF Timeout
    <2>4. QED
      BY <2>1, <2>3, PumpedSection
  <1>5. CASE SwFinish
    <2>1. PumpFrame
      BY <1>5, StayFrame DEF SwFinish, endVars
    <2>2. QED
      BY <1>5, <2>1, SwFinishPumps, PumpedSection
  <1>6. ASSUME NEW b \in Backends, WatchPump(b)
        PROVE  PumpedStep
    <2>1. PumpFrame
      <3>1. back \in [Backends -> [tgt : AnyTarget, proc : {"none", "loading", "up", "gone"},
                                  once : {"no", "running", "done"},
                                  watch : {"off", "on", "crashed"}]]
        BY DEF IInv, TypeOK
      <3>2. back' = [back EXCEPT ![b].watch = "off"]
        BY <1>6 DEF WatchPump
      <3>3. UNCHANGED <<cur, ledger, emergency, closer, crashes>>
        BY <1>6 DEF WatchPump, endVars
      <3>4. QED
        BY <3>1, <3>2, <3>3 DEF PumpFrame
    <2>2. Held' = Held /\ stopping' = stopping
      BY <1>6 DEF WatchPump, holdVars, endVars, Held, closed
    <2>3. LeavesToPump(queue, active, req, sw)
      BY <1>6, <2>2, StayPumps DEF WatchPump
    <2>4. QED
      BY <2>1, <2>3, PumpedSection
  <1>7. ASSUME NEW u \in Unloaders, UnloadGivesUp(u)
        PROVE  PumpedStep
    <2>1. PumpFrame
      BY <1>7, StayFrame DEF UnloadGivesUp, endVars
    <2>2. Held' = (claimed \/ closed \/ unloading' # NoModel) /\ stopping' = stopping
      BY <1>7 DEF UnloadGivesUp, endVars, Held, closed
    <2>3. Pump(queue, active, req, cur, sw, Held', stopping')
      BY <1>7, <2>2 DEF UnloadGivesUp, EndUnload
    <2>4. QED
      BY <2>1, <2>2, <2>3, StayPumps, PumpedSection
  <1>8. ASSUME NEW u \in Unloaders, UnloadEnds(u)
        PROVE  PumpedStep
    <2>1. PumpFrame
      BY <1>8, StayFrame DEF UnloadEnds, endVars
    <2>2. Held' = (FALSE \/ closed \/ unloading' # NoModel) /\ stopping' = stopping
      BY <1>8 DEF UnloadEnds, endVars, Held, closed
    <2>3. Pump(queue, active, req, cur, sw, Held', stopping')
      BY <1>8, <2>2 DEF UnloadEnds, EndUnload
    <2>4. QED
      BY <2>1, <2>2, <2>3, StayPumps, PumpedSection
  <1>9. CASE Unclaim
    <2>1. PumpFrame
      BY <1>9, StayFrame DEF Unclaim, endVars
    <2>2. Held' = (closed \/ unloading # NoModel) /\ stopping' = stopping
      BY <1>9 DEF Unclaim, endVars, Held, closed
    <2>3. Pump(queue, active, req, cur, sw, Held', stopping')
      BY <1>9, <2>2 DEF Unclaim
    <2>4. QED
      BY <2>1, <2>2, <2>3, StayPumps, PumpedSection
  <1>10. CASE StopLoads
    <2>1. PumpFrame
      BY <1>10, StayFrame DEF StopLoads
    <2>2. QED
      BY <1>10, <2>1, StopLoadsPumps, PumpedSection
  <1>11. QED
    BY <1>1, <1>2, <1>3, <1>4, <1>5, <1>6, <1>7, <1>8, <1>9, <1>10 DEF PumpAction

-----------------------------------------------------------------------------
(* The other steps, by what they do to the queue *)

SwitchStep == \/ SwCheck \/ SwPreflight \/ SwStopped \/ SwStart \/ SwLoad
              \/ SwInstall \/ SwUndone \/ SwRetry

BackSet == [Backends -> [tgt : AnyTarget, proc : {"none", "loading", "up", "gone"},
                         once : {"no", "running", "done"}, watch : {"off", "on", "crashed"}]]

\* A switch that is done keeps its target.
LEMMA TriedFields ==
    ASSUME NEW s \in SwitchSet, NEW e \in {"none", "failed", "refused", "cancelled", "collision"}
    PROVE  /\ Tried(s, e) \in SwitchSet /\ Tried(s, e).step = "tried"
           /\ Tried(s, e).tgt = s.tgt /\ Tried(s, e).cancelled = s.cancelled
  BY DEF Tried, SwitchSet

\* So does one whose start failed, and it goes back to the previous model or is done.
LEMMA StartFailedFields ==
    ASSUME sw \in SwitchSet, NEW e \in {"failed", "refused", "collision"}
    PROVE  /\ StartFailed(e) \in SwitchSet /\ StartFailed(e).step \in {"tried", "start"}
           /\ StartFailed(e).tgt = sw.tgt /\ StartFailed(e).cancelled = sw.cancelled
  <1> DEFINE again == [sw EXCEPT !.step = "start", !.restoring = TRUE, !.err = e, !.new = NoBackend]
             ended == IF sw.cancelled THEN "cancelled" ELSE e
  <1>1. again \in SwitchSet /\ again.step = "start" /\ again.tgt = sw.tgt /\ again.cancelled = sw.cancelled
    <2>1. NoBackend \in AnyBackend /\ e \in {"none", "failed", "refused", "cancelled", "collision"}
      BY DEF AnyBackend
    <2>2. QED
      BY <2>1 DEF SwitchSet
  <1>2. ended \in {"none", "failed", "refused", "cancelled", "collision"}
    OBVIOUS
  <1> HIDE DEF again, ended
  <1>3. StartFailed(e) = again \/ StartFailed(e) = Tried(sw, ended)
    BY Zenon DEF StartFailed, again, ended
  <1>4. QED
    BY <1>1, <1>2, <1>3, TriedFields

\* A step of the switch goroutine keeps the switch in flight, for the same target, and
\* leaves the requests alone.
LEMMA SwitchStepFacts ==
    ASSUME IInv, SwitchStep
    PROVE  /\ UNCHANGED <<active, queue, req, holdVars, endVars, crashes>>
           /\ sw # NoSwitch /\ sw' # NoSwitch /\ sw' \in SwitchSet
           /\ sw'.tgt = sw.tgt /\ sw'.cancelled = sw.cancelled
  <1>1. sw \in SwitchSet /\ cur \in AnyBackend /\ NoSwitch.step = "none"
        /\ back \in BackSet /\ NoBackend \in AnyBackend /\ NoTarget \in AnyTarget
    BY DEF IInv, QueueInv, Agree, TypeOK, NoSwitch, AnyBackend, AnyTarget, BackSet
  <1>2. UNCHANGED <<active, queue, req, holdVars, endVars, crashes>> /\ sw.step # "none"
    BY DEF SwitchStep, SwCheck, SwPreflight, SwStopped, SwStart, SwLoad, SwInstall, SwUndone,
           SwRetry, SwitchOnly
  <1> DEFINE Good == sw' \in SwitchSet /\ sw'.step # "none" /\ sw'.tgt = sw.tgt
                     /\ sw'.cancelled = sw.cancelled
  <1> SUFFICES Good
    BY <1>1, <1>2
  <1>3. CASE SwCheck
    <2> DEFINE from == IF cur = NoBackend THEN NoTarget ELSE back[cur].tgt
               step == IF cur = NoBackend THEN "start" ELSE "preflight"
    <2>1. from \in AnyTarget /\ step \in {"start", "preflight"}
      BY <1>1 DEF AnyBackend, BackSet
    <2> HIDE DEF from, step
    <2>2. [sw EXCEPT !.step = step, !.prev = cur, !.from = from] \in SwitchSet
          /\ [sw EXCEPT !.step = step, !.prev = cur, !.from = from].step = step
          /\ [sw EXCEPT !.step = step, !.prev = cur, !.from = from].tgt = sw.tgt
          /\ [sw EXCEPT !.step = step, !.prev = cur, !.from = from].cancelled = sw.cancelled
      BY <1>1, <2>1 DEF SwitchSet
    <2>3. sw' = [sw EXCEPT !.step = step, !.prev = cur, !.from = from] \/ sw' = Tried(sw, "failed")
      BY <1>3 DEF SwCheck, from, step
    <2>4. CASE sw' = Tried(sw, "failed")
      BY <1>1, <2>4, TriedFields
    <2>5. CASE sw' = [sw EXCEPT !.step = step, !.prev = cur, !.from = from]
      BY <2>1, <2>2, <2>5
    <2>6. QED
      BY <2>3, <2>4, <2>5
  <1>4. CASE SwPreflight
    <2>1. sw' = [sw EXCEPT !.step = "stopping"] \/ sw' = Tried(sw, "refused")
      BY <1>4 DEF SwPreflight
    <2>2. CASE sw' = [sw EXCEPT !.step = "stopping"]
      BY <1>1, <2>2 DEF SwitchSet
    <2>3. QED
      BY <1>1, <2>1, <2>2, TriedFields
  <1>5. CASE SwStopped
    BY <1>1, <1>5 DEF SwStopped, SwitchSet
  <1>6. CASE SwStart
    <2>1. CASE sw' = Tried(sw, "cancelled")
      BY <1>1, <2>1, TriedFields
    <2>2. CASE \E e \in {"failed", "refused", "collision"} : sw' = StartFailed(e)
      BY <1>1, <2>2, StartFailedFields
    <2>3. CASE \E b \in Backends : sw' = [sw EXCEPT !.step = "loading", !.new = b]
      BY <1>1, <2>3 DEF SwitchSet, AnyBackend
    <2>4. QED
      BY <1>6, <2>1, <2>2, <2>3 DEF SwStart
  <1>7. CASE SwLoad
    <2>1. CASE sw' = [sw EXCEPT !.step = "install"]
      BY <1>1, <2>1 DEF SwitchSet
    <2>2. CASE sw' = [StartFailed("failed") EXCEPT !.new = NoBackend]
      <3>1. StartFailed("failed") \in SwitchSet /\ StartFailed("failed").step # "none"
            /\ StartFailed("failed").tgt = sw.tgt /\ StartFailed("failed").cancelled = sw.cancelled
        BY <1>1, StartFailedFields
      <3>2. QED
        BY <1>1, <2>2, <3>1 DEF SwitchSet
    <2>3. QED
      BY <1>7, <2>1, <2>2 DEF SwLoad
  <1>8. CASE SwInstall
    <2>1. CASE sw' = [sw EXCEPT !.step = "undo"]
      BY <1>1, <2>1 DEF SwitchSet
    <2>2. CASE sw' = [Tried(sw, "none") EXCEPT !.new = NoBackend]
      BY <1>1, <2>2, TriedFields DEF SwitchSet
    <2>3. QED
      BY <1>8, <2>1, <2>2 DEF SwInstall
  <1>9. CASE SwUndone
    BY <1>1, <1>9, TriedFields DEF SwUndone, SwitchSet
  <1>10. CASE SwRetry
    <2>1. sw' = [NewSwitch(sw.tgt) EXCEPT !.retried = TRUE] /\ ~sw.cancelled
      BY <1>10 DEF SwRetry
    <2>2. sw.tgt \in AnyTarget /\ sw.cancelled = FALSE
      BY <1>1, <2>1 DEF SwitchSet
    <2>3. NewSwitch(sw.tgt) \in SwitchSet /\ NewSwitch(sw.tgt).step = "check"
          /\ NewSwitch(sw.tgt).cancelled = FALSE /\ NewSwitch(sw.tgt).tgt = sw.tgt
      BY <2>2, NewSwitchFields DEF SwitchSet
    <2>4. QED
      BY <2>1, <2>2, <2>3 DEF SwitchSet
  <1>11. QED
    BY <1>3, <1>4, <1>5, <1>6, <1>7, <1>8, <1>9, <1>10 DEF SwitchStep

Starting == sw.step \in {"loading", "install"}

\* A stop, a claim or the watcher of a backend that exits: nobody's place in the queue
\* changes, no backend becomes current or live, and the one that starts is not touched.
CalmAction ==
    \/ \E b \in Backends : FinishStop(b) \/ Crash(b) \/ WatchCrash(b)
    \/ \E u \in Unloaders : UnloadStops(u)
    \/ ClaimIdle \/ StopClaimed
    \/ EmergencyDetach \/ EmergencyEnds
    \/ CloseStops \/ CloseEnds

CalmBack ==
    /\ cur' \in {cur, NoBackend} /\ ledger' \in {ledger, NoBackend} /\ back' \in BackSet
    /\ \A b \in Backends : back'[b].tgt = back[b].tgt
    /\ \A b \in Backends : Live(b)' => Live(b) /\ ledger' = b
    /\ cur' # NoBackend => ledger' = cur /\ back'[cur].once = "no"
    /\ Starting => /\ ledger' = ledger /\ back'[sw.new].once = "no"
                   /\ sw.step = "loading" => back'[sw.new].proc = "loading"

CalmRefs ==
    /\ emergency'.b \in {emergency.b, cur, NoBackend}
    /\ claimer'.b \in {claimer.b, cur, NoBackend}
    /\ closer'.b \in {closer.b, cur, NoBackend}
    /\ \A u \in Unloaders : unl'[u].b \in {unl[u].b, cur, NoBackend}

Calm ==
    /\ UNCHANGED <<pumped, stopping>> /\ (closed' <=> closed) /\ (Held => Held')
    /\ CalmBack /\ CalmRefs

\* What the backends are before a step.
LEMMA BackFacts ==
    ASSUME IInv
    PROVE  /\ cur \in AnyBackend /\ back \in BackSet /\ ledger \in AnyBackend
           /\ \A b \in Backends : Live(b) => ledger = b
           /\ cur # NoBackend => cur \in Backends /\ ledger = cur /\ back[cur].once = "no"
           /\ Starting => /\ sw.new \in Backends /\ cur = NoBackend /\ ledger = sw.new
                          /\ back[sw.new].once = "no" /\ sw.new # NoBackend
                          /\ sw.new \notin {emergency.b, claimer.b, closer.b}
                          /\ \A u \in Unloaders : unl[u].b # sw.new
           /\ sw.step = "loading" => Starting /\ back[sw.new].proc = "loading"
           /\ NoBackend \notin Backends
  BY DEF IInv, TypeOK, BackInv, LiveIsReserved, Starting, AnyBackend, BackSet, Backends, NoBackend

\* A backend whose stopOnce begins and whose watcher goes on to w.
LEMMA OnceFacts ==
    ASSUME back \in BackSet, NEW b \in Backends, NEW w \in {"off", "on", "crashed"},
           back' = [back EXCEPT ![b].once = IF @ = "no" THEN "running" ELSE @, ![b].watch = w]
    PROVE  /\ back' \in BackSet
           /\ \A x \in Backends : back'[x].tgt = back[x].tgt /\ back'[x].proc = back[x].proc
           /\ \A x \in Backends \ {b} : back'[x] = back[x]
  <1> DEFINE o == IF back[b].once = "no" THEN "running" ELSE back[b].once
  <1>1. o \in {"no", "running", "done"}
    BY DEF BackSet
  <1>2. back' = [back EXCEPT ![b].once = o, ![b].watch = w]
    OBVIOUS
  <1> HIDE DEF o
  <1>3. /\ \A x \in Backends \ {b} : back'[x] = back[x]
        /\ back'[b] = [back[b] EXCEPT !.once = o, !.watch = w]
        /\ DOMAIN back' = Backends /\ back' = [x \in Backends |-> back'[x]]
    BY <1>2 DEF BackSet
  <1>4. back'[b] \in [tgt : AnyTarget, proc : {"none", "loading", "up", "gone"},
                      once : {"no", "running", "done"}, watch : {"off", "on", "crashed"}]
        /\ back'[b].tgt = back[b].tgt /\ back'[b].proc = back[b].proc
    BY <1>1, <1>3 DEF BackSet
  <1>5. \A x \in Backends : back'[x].tgt = back[x].tgt /\ back'[x].proc = back[x].proc
    BY <1>3, <1>4
  <1>6. back' \in BackSet
    BY <1>3, <1>4 DEF BackSet
  <1>7. QED
    BY <1>3, <1>5, <1>6

\* stopBackend touches neither target nor process, and no other backend.
LEMMA DetachFacts ==
    ASSUME back \in BackSet, NEW b,
           back' = [back EXCEPT ![b].once = IF @ = "no" THEN "running" ELSE @,
                                ![b].watch = IF @ = "on" THEN "off" ELSE @]
    PROVE  /\ back' \in BackSet
           /\ \A x \in Backends : back'[x].tgt = back[x].tgt /\ back'[x].proc = back[x].proc
           /\ \A x \in Backends \ {b} : back'[x] = back[x]
  <1>1. CASE b \in Backends
    <2> DEFINE w == IF back[b].watch = "on" THEN "off" ELSE back[b].watch
    <2>1. w \in {"off", "on", "crashed"}
      BY <1>1 DEF BackSet
    <2>2. back' = [back EXCEPT ![b].once = IF @ = "no" THEN "running" ELSE @, ![b].watch = w]
      BY <1>1 DEF BackSet
    <2>3. QED
      BY <1>1, <2>1, <2>2, OnceFacts
  <1>2. CASE b \notin Backends
    <2>1. back' = back
      BY <1>2 DEF BackSet
    <2>2. QED
      BY <2>1
  <1>3. QED
    BY <1>1, <1>2

\* stopBackend of a backend that is not starting.
LEMMA DetachCalm ==
    ASSUME IInv, NEW b, Detach(b), ledger' = ledger, Starting => b # sw.new
    PROVE  CalmBack
  <1>1. back' = [back EXCEPT ![b].once = IF @ = "no" THEN "running" ELSE @,
                             ![b].watch = IF @ = "on" THEN "off" ELSE @]
        /\ cur' = IF cur = b THEN NoBackend ELSE cur
    BY DEF Detach
  <1>2. back \in BackSet
    BY BackFacts
  <1>3. /\ back' \in BackSet
        /\ \A x \in Backends : back'[x].tgt = back[x].tgt /\ back'[x].proc = back[x].proc
        /\ \A x \in Backends \ {b} : back'[x] = back[x]
    BY <1>1, <1>2, DetachFacts
  <1>4. \A x \in Backends : Live(x)' => Live(x) /\ ledger' = x
    BY <1>3, BackFacts DEF Live
  <1>5. cur' \in {cur, NoBackend} /\ ledger' \in {ledger, NoBackend}
    BY <1>1
  <1>6. cur' # NoBackend => ledger' = cur /\ back'[cur].once = "no"
    BY <1>1, <1>3, BackFacts
  <1>7. Starting => /\ ledger' = ledger /\ back'[sw.new].once = "no"
                    /\ sw.step = "loading" => back'[sw.new].proc = "loading"
    BY <1>3, BackFacts
  <1>8. QED
    BY <1>3, <1>4, <1>5, <1>6, <1>7 DEF CalmBack

\* What a section that touches no backend does to the backends.
LEMMA StayCalm ==
    ASSUME IInv, UNCHANGED <<cur, back, ledger>>
    PROVE  CalmBack
  BY BackFacts DEF CalmBack, Live

\* Watchers, stops, emergency stops and claims leave the queue alone, and take from the
\* backends without adding to them.
LEMMA CalmActionFacts ==
    ASSUME IInv, CalmAction
    PROVE  Calm
  <1>0. /\ back \in BackSet /\ unl \in [Unloaders -> [pc : {"idle", "drain", "stop"}, b : AnyBackend]]
        /\ emergency \in [pc : {"idle", "found", "stop"}, b : AnyBackend]
    BY BackFacts DEF IInv, TypeOK
  <1>1. ASSUME NEW b \in Backends, FinishStop(b)
        PROVE  Calm
    <2>1. back' = [back EXCEPT ![b].once = "done", ![b].proc = "gone"] /\ back[b].once = "running"
          /\ ledger' = (IF ledger = b THEN NoBackend ELSE ledger) /\ cur' = cur
      BY <1>1 DEF FinishStop
    <2>2. /\ back' \in BackSet /\ back'[b].tgt = back[b].tgt /\ back'[b].proc = "gone"
          /\ \A x \in Backends \ {b} : back'[x] = back[x]
      BY <1>0, <2>1 DEF BackSet
    <2>3. \A x \in Backends : Live(x)' => Live(x) /\ ledger' = x
      BY <2>1, <2>2, BackFacts DEF Live
    <2>4. CalmBack
      BY <2>1, <2>2, <2>3, BackFacts DEF CalmBack
    <2>5. QED
      BY <1>1, <2>4 DEF FinishStop, Calm, CalmRefs, Held, closed, endVars, holdVars
  <1>2. ASSUME NEW b \in Backends, Crash(b)
        PROVE  Calm
    <2>1. back' = [back EXCEPT ![b].proc = "gone"] /\ back[b].proc = "up"
          /\ ledger' = ledger /\ cur' = cur
      BY <1>2 DEF Crash
    <2>2. /\ back' \in BackSet /\ back'[b].tgt = back[b].tgt /\ back'[b].proc = "gone"
          /\ back'[b].once = back[b].once
          /\ \A x \in Backends \ {b} : back'[x] = back[x]
      BY <1>0, <2>1 DEF BackSet
    <2>3. \A x \in Backends : Live(x)' => Live(x) /\ ledger' = x
      BY <2>1, <2>2, BackFacts DEF Live
    <2>4. CalmBack
      BY <2>1, <2>2, <2>3, BackFacts DEF CalmBack
    <2>5. QED
      BY <1>2, <2>4 DEF Crash, Calm, CalmRefs, Held, closed, endVars, holdVars
  <1>3. ASSUME NEW b \in Backends, WatchCrash(b)
        PROVE  Calm
    <2>1. back' = [back EXCEPT ![b].once = IF @ = "no" THEN "running" ELSE @,
                               ![b].watch = "crashed"]
          /\ ledger' = ledger /\ cur' = NoBackend /\ cur = b
      BY <1>3 DEF WatchCrash
    <2>2. /\ back' \in BackSet
          /\ \A x \in Backends : back'[x].tgt = back[x].tgt /\ back'[x].proc = back[x].proc
      BY <1>0, <2>1, OnceFacts
    <2>3. \A x \in Backends : Live(x)' => Live(x) /\ ledger' = x
      BY <2>1, <2>2, BackFacts DEF Live
    <2>4. ~Starting
      BY <2>1, BackFacts
    <2>5. \A x \in Backends : back'[x].tgt = back[x].tgt
      BY <2>2
    <2>6. CalmBack
      BY <2>1, <2>2, <2>3, <2>4, <2>5, Zenon DEF CalmBack
    <2>7. QED
      BY <1>3, <2>6 DEF WatchCrash, Calm, CalmRefs, Held, closed, endVars, holdVars
  <1>4. ASSUME NEW u \in Unloaders, UnloadStops(u)
        PROVE  Calm
    <2>1. CalmBack
      BY <1>4, BackFacts, DetachCalm DEF UnloadStops
    <2>2. \A x \in Unloaders : unl'[x].b = unl[x].b
      BY <1>0, <1>4 DEF UnloadStops
    <2>3. QED
      BY <1>4, <2>1, <2>2 DEF UnloadStops, Calm, CalmRefs, Held, closed, endVars
  <1>5. CASE ClaimIdle
    <2>1. CalmBack
      BY <1>5, StayCalm DEF ClaimIdle
    <2>2. QED
      BY <1>5, <2>1 DEF ClaimIdle, Calm, CalmRefs, AtRest, Held, closed, endVars
  <1>6. CASE StopClaimed
    <2>1. CalmBack
      BY <1>6, BackFacts, DetachCalm DEF StopClaimed
    <2>2. QED
      BY <1>6, <2>1 DEF StopClaimed, Calm, CalmRefs, Held, closed, endVars
  <1>7. CASE EmergencyDetach
    <2>1. CalmBack
      BY <1>7, BackFacts, DetachCalm DEF EmergencyDetach
    <2>2. emergency'.b = emergency.b
      BY <1>0, <1>7 DEF EmergencyDetach
    <2>3. QED
      BY <1>7, <2>1, <2>2 DEF EmergencyDetach, Calm, CalmRefs, Held, closed, holdVars
  <1>8. CASE EmergencyEnds
    <2>1. CalmBack
      BY <1>8, StayCalm DEF EmergencyEnds
    <2>2. QED
      BY <1>8, <2>1 DEF EmergencyEnds, Calm, CalmRefs, AtRest, Held, closed, holdVars
  <1>9. CASE CloseStops
    <2>1. CalmBack
      BY <1>9, BackFacts, DetachCalm, StayCalm DEF CloseStops
    <2>2. QED
      BY <1>9, <2>1 DEF CloseStops, Calm, CalmRefs, Held, closed, holdVars
  <1>10. CASE CloseEnds
    <2>1. CalmBack
      BY <1>10, StayCalm DEF CloseEnds
    <2>2. QED
      BY <1>10, <2>1 DEF CloseEnds, Calm, CalmRefs, AtRest, Held, closed, holdVars
  <1>11. QED
    BY <1>1, <1>2, <1>3, <1>4, <1>5, <1>6, <1>7, <1>8, <1>9, <1>10 DEF CalmAction

\* Requests that are refused leave the queue and nothing else.
LEMMA RefuseAgree ==
    ASSUME IInv, NEW gone, gone \subseteq Members(queue), NEW q \in Seq(Requests), Once(q),
           Members(q) = Members(queue) \ gone, NEW s \in {sw, Cancelled(sw)}
    PROVE  /\ Agree(q, active, Refuse(req, gone), s)
           /\ LeasedIn(Refuse(req, gone)) = LeasedIn(req)
           /\ \A r \in LeasedIn(req) \cup Members(q) : Refuse(req, gone)[r] = req[r]
  <1> DEFINE rq == Refuse(req, gone)
  <1>1. /\ queue \in Seq(Requests) /\ req \in RequestSet /\ active \in 0..Slots /\ sw \in SwitchSet
        /\ Once(queue) /\ \A x \in Requests : x \in Members(queue) <=> req[x].st = "queued"
        /\ \A x \in Members(queue) : req[x].tgt \in Targets
        /\ active = Cardinality(LeasedIn(req)) /\ (sw # NoSwitch => active = 0)
    BY DEF IInv, QueueInv, Agree
  <1>2. Out.st = "out" /\ Out \in [st : {"out", "queued", "granted", "holding"}, tgt : AnyTarget,
                                   lease : AnyBackend, dispatching : BOOLEAN]
    BY DEF Out, AnyTarget, AnyBackend
  <1>3. /\ rq \in RequestSet
        /\ \A x \in Requests : x \in gone => rq[x] = Out
        /\ \A x \in Requests \ gone : rq[x] = req[x]
    BY <1>1, <1>2 DEF RequestSet, Refuse
  <1> HIDE DEF rq
  <1>4. LeasedIn(rq) = LeasedIn(req) /\ \A x \in LeasedIn(req) : rq[x] = req[x]
    <2>1. \A x \in LeasedIn(req) : x \in Requests \ gone
      BY <1>1 DEF LeasedIn
    <2>2. QED
      BY <1>2, <1>3, <2>1 DEF LeasedIn
  <1>5. \A x \in Members(q) : x \in Requests \ gone /\ x \in Members(queue) /\ rq[x] = req[x]
    <2>1. \A x \in Members(q) : x \in Requests
      BY DEF Members
    <2>2. QED
      BY <1>3, <2>1
  <1>6. s \in SwitchSet /\ (s # NoSwitch => active = 0)
    BY <1>1, CancelledFields
  <1>7. \A x \in Requests : x \in Members(q) <=> rq[x].st = "queued"
    BY <1>1, <1>2, <1>3
  <1>8. \A x \in Members(q) : rq[x].tgt \in Targets
    BY <1>1, <1>5
  <1>9. Agree(q, active, rq, s)
    BY <1>1, <1>3, <1>4, <1>6, <1>7, <1>8 DEF Agree
  <1>10. QED
    BY <1>4, <1>5, <1>9 DEF rq

\* A critical section that clears the queue, or a model's part of it.
CutAction ==
    \/ \E u \in Unloaders, m \in {t.model : t \in Targets} : BeginUnload(u, m)
    \/ EmergencyStop \/ BeginClose

Cut ==
    /\ UNCHANGED <<cur, back, ledger, active, stopping, crashes, claimed, claimer>>
    /\ Agree(queue', active', req', sw') /\ Dispatched(queue', req', sw')
    /\ queue' = <<>> \/ (Held' /\ Len(queue') <= QueueCapacity)
    /\ closed' => queue' = <<>>
    /\ LeasedIn(req') = LeasedIn(req) /\ \A r \in LeasedIn(req) : req'[r] = req[r]
    /\ sw' \in {sw, Cancelled(sw)}
    /\ stopping' \/ closed' => sw' = NoSwitch \/ sw'.cancelled
    /\ \A r \in Members(queue') : req'[r].tgt.model # unloading'
    /\ CalmRefs

\* Close empties the queue and ends the switch.
LEMMA ClearCut ==
    ASSUME IInv, queue' = <<>>, req' = Refuse(req, Members(queue)), sw' = Cancelled(sw),
           UNCHANGED <<cur, back, ledger, active, stopping, crashes, claimed, claimer>>, CalmRefs
    PROVE  Cut
  <1>1. <<>> \in Seq(Requests) /\ Once(<<>>) /\ Members(<<>>) = Members(queue) \ Members(queue)
    BY DEF Once, Members
  <1>2. Members(queue) \subseteq Members(queue) /\ Cancelled(sw) \in {sw, Cancelled(sw)}
    OBVIOUS
  <1>3. /\ Agree(<<>>, active, Refuse(req, Members(queue)), Cancelled(sw))
        /\ LeasedIn(Refuse(req, Members(queue))) = LeasedIn(req)
        /\ \A r \in LeasedIn(req) : Refuse(req, Members(queue))[r] = req[r]
    BY <1>1, <1>2, RefuseAgree
  <1>4. Members(queue') = {}
    BY DEF Members
  <1>5. sw' = NoSwitch \/ sw'.cancelled
    BY CancelledFields DEF IInv, QueueInv, Agree
  <1>6. Agree(queue', active', req', sw')
    BY <1>3
  <1>7. LeasedIn(req') = LeasedIn(req) /\ \A r \in LeasedIn(req) : req'[r] = req[r]
    BY <1>3
  <1>8. Dispatched(queue', req', sw')
    BY <1>4 DEF Dispatched
  <1>9. QED
    BY <1>4, <1>5, <1>6, <1>7, <1>8 DEF Cut

\* The sections that only take requests out of the queue.
LEMMA CutActionFacts ==
    ASSUME IInv, CutAction
    PROVE  Cut
  <1>0. /\ unl \in [Unloaders -> [pc : {"idle", "drain", "stop"}, b : AnyBackend]]
        /\ queue \in Seq(Requests) /\ Once(queue) /\ Dispatched(queue, req, sw)
        /\ Len(queue) <= QueueCapacity /\ QueueCapacity \in Nat
    BY ConstantsAssumption DEF IInv, TypeOK, QueueInv, Agree
  <1>1. ASSUME NEW u \in Unloaders, NEW m \in {t.model : t \in Targets}, BeginUnload(u, m)
        PROVE  Cut
    <2> DEFINE gone == {r \in Members(queue) : req[r].tgt.model = m /\ ~req[r].dispatching}
               q == Without(queue, gone)
    <2>1. /\ queue' = q /\ req' = Refuse(req, gone) /\ sw = NoSwitch /\ sw' = sw
          /\ unloading' = m
          /\ UNCHANGED <<cur, back, ledger, active, stopping, crashes, claimed, claimer>>
      BY <1>1 DEF BeginUnload, endVars
    <2>2. /\ q \in Seq(Requests) /\ Len(q) <= Len(queue) /\ Once(q)
          /\ Members(q) = Members(queue) \ gone
      BY <1>0, WithoutFacts
    <2>3. gone \subseteq Members(queue)
      OBVIOUS
    <2>4. \A r \in Members(queue) : ~req[r].dispatching
      BY <1>0, <2>1 DEF Dispatched
    <2>5. \A r \in Members(q) : req[r].tgt.model # m
      BY <2>2, <2>4
    <2> HIDE DEF gone, q
    <2>6. /\ Agree(q, active, Refuse(req, gone), sw)
          /\ LeasedIn(Refuse(req, gone)) = LeasedIn(req)
          /\ \A r \in LeasedIn(req) \cup Members(q) : Refuse(req, gone)[r] = req[r]
      BY <2>2, <2>3, RefuseAgree
    <2>7. Dispatched(queue', req', sw')
      BY <2>1, <2>2, <2>4, <2>6 DEF Dispatched
    <2>8. Len(q) \in Nat /\ Len(queue) \in Nat
      BY <1>0, <2>2
    <2>9. Len(queue') <= QueueCapacity /\ (closed' => queue' = <<>>)
      <3>1. closed' <=> closed
        BY <1>1 DEF BeginUnload, endVars, closed
      <3>2. closed => Len(queue) = 0
        BY DEF IInv, EndInv
      <3>3. QED
        BY <1>0, <2>1, <2>2, <2>8, <3>1, <3>2
    <2>10. Held'
      <3>1. m # NoModel
        BY ConstantsAssumption
      <3>2. QED
        BY <2>1, <3>1 DEF Held
    <2>11. CalmRefs
      <3>1. unl' = [unl EXCEPT ![u] = [pc |-> "drain", b |-> cur]]
        BY <1>1 DEF BeginUnload
      <3>2. \A x \in Unloaders : unl'[x].b \in {unl[x].b, cur}
        BY <1>0, <3>1
      <3>3. QED
        BY <1>1, <3>2 DEF BeginUnload, endVars, CalmRefs
    <2>12. Agree(queue', active', req', sw') /\ sw' \in {sw, Cancelled(sw)}
           /\ (sw' = NoSwitch \/ sw'.cancelled)
      BY <2>1, <2>6
    <2>13. LeasedIn(req') = LeasedIn(req) /\ \A r \in LeasedIn(req) : req'[r] = req[r]
      BY <2>1, <2>6
    <2>14. \A r \in Members(queue') : req'[r].tgt.model # unloading'
      BY <2>1, <2>5, <2>6
    <2>15. QED
      BY <2>1, <2>7, <2>9, <2>10, <2>11, <2>12, <2>13, <2>14 DEF Cut
  <1>2. CASE EmergencyStop
    <2>1. CalmRefs
      BY <1>2 DEF EmergencyStop, CalmRefs, holdVars
    <2>2. QED
      BY <1>2, <2>1, ClearCut DEF EmergencyStop, holdVars
  <1>3. CASE BeginClose
    <2>1. CalmRefs
      BY <1>3 DEF BeginClose, CalmRefs, holdVars, AtRest
    <2>2. QED
      BY <1>3, <2>1, ClearCut DEF BeginClose, holdVars
  <1>4. QED
    BY <1>1, <1>2, <1>3 DEF CutAction

\* Receiving a lease.
LEMMA ReceiveFacts ==
    ASSUME IInv, NEW r \in Requests, Receive(r)
    PROVE  /\ UNCHANGED <<cur, active, queue, sw, back, ledger, holdVars, endVars, crashes>>
           /\ Agree(queue', active', req', sw')
           /\ LeasedIn(req') = LeasedIn(req)
           /\ \A x \in Requests : /\ req'[x].tgt = req[x].tgt /\ req'[x].lease = req[x].lease
                                  /\ req'[x].dispatching = req[x].dispatching
  <1>1. req \in RequestSet /\ Agree(queue, active, req, sw)
    BY DEF IInv, QueueInv, Agree
  <1>2. req' = [req EXCEPT ![r].st = "holding"] /\ req[r].st = "granted"
        /\ UNCHANGED <<cur, active, queue, sw, back, ledger, holdVars, endVars, crashes>>
    BY DEF Receive
  <1>3. /\ req' \in RequestSet /\ req'[r].st = "holding"
        /\ \A x \in Requests \ {r} : req'[x] = req[x]
        /\ \A x \in Requests : /\ req'[x].tgt = req[x].tgt /\ req'[x].lease = req[x].lease
                               /\ req'[x].dispatching = req[x].dispatching
    BY <1>1, <1>2 DEF RequestSet
  <1>4. LeasedIn(req') = LeasedIn(req)
    BY <1>2, <1>3 DEF LeasedIn
  <1>5. \A x \in Requests : req'[x].st = "queued" <=> req[x].st = "queued"
    BY <1>2, <1>3
  <1>6. \A x \in Members(queue) : x \in Requests
    BY <1>1 DEF Agree, Members
  <1>7. Agree(queue, active, req', sw)
    BY <1>1, <1>3, <1>4, <1>5, <1>6 DEF Agree
  <1>8. QED
    BY <1>2, <1>3, <1>4, <1>7

-----------------------------------------------------------------------------
(* Every step keeps the invariant *)

\* The steps, by their kind.
LEMMA NextKinds ==
    ASSUME Next
    PROVE  \/ PumpAction \/ SwitchStep \/ CalmAction \/ CutAction
           \/ \E r \in Requests : Receive(r)
  BY Zenon DEF Next, Client, Switch, Backend, Unload, Eviction, Shutdown, PumpAction, SwitchStep,
               CalmAction, CutAction

\* Every step keeps the queue, the requests and the count of leases in agreement.
LEMMA NextQueueInv ==
    ASSUME IInv, Next
    PROVE  QueueInv'
  <1>0. /\ Agree(queue, active, req, sw) /\ Dispatched(queue, req, sw) /\ Awaited
        /\ Len(queue) <= QueueCapacity /\ queue \in Seq(Requests)
    BY DEF IInv, QueueInv, Agree
  <1>1. CASE PumpAction
    BY <1>1, PumpActionSteps DEF PumpedStep, QueueInv
  <1>2. CASE SwitchStep
    <2>1. /\ UNCHANGED <<active, queue, req>> /\ sw # NoSwitch /\ sw' # NoSwitch
          /\ sw' \in SwitchSet /\ sw'.tgt = sw.tgt
      BY <1>2, SwitchStepFacts
    <2>2. Agree(queue', active', req', sw')
      BY <1>0, <2>1 DEF Agree
    <2>3. Dispatched(queue', req', sw')
      BY <1>0, <2>1 DEF Dispatched
    <2>4. Awaited'
      BY <2>1 DEF Awaited
    <2>5. QED
      BY <1>0, <2>1, <2>2, <2>3, <2>4 DEF QueueInv
  <1>3. CASE CalmAction
    <2>1. Calm
      BY <1>3, CalmActionFacts
    <2>2. /\ UNCHANGED <<queue, active, req, sw>> /\ (Held => Held') /\ cur' \in {cur, NoBackend}
          /\ \A b \in Backends : back'[b].tgt = back[b].tgt
      BY <2>1 DEF Calm, CalmBack, pumped
    <2>3. cur # NoBackend => cur \in Backends
      BY BackFacts
    <2>4. Awaited'
      BY <1>0, <2>2, <2>3 DEF Awaited
    <2>5. QED
      BY <1>0, <2>2, <2>4 DEF QueueInv
  <1>4. CASE CutAction
    <2>1. Cut
      BY <1>4, CutActionFacts
    <2>2. Awaited'
      BY <2>1 DEF Cut, Awaited
    <2>3. Len(queue') <= QueueCapacity
      BY <2>1, ConstantsAssumption DEF Cut
    <2>4. QED
      BY <2>1, <2>2, <2>3 DEF Cut, QueueInv
  <1>5. ASSUME NEW r \in Requests, Receive(r)
        PROVE  QueueInv'
    <2>1. /\ UNCHANGED <<cur, active, queue, sw, back, ledger, holdVars, endVars, crashes>>
          /\ Agree(queue', active', req', sw')
          /\ \A x \in Requests : /\ req'[x].tgt = req[x].tgt
                                 /\ req'[x].dispatching = req[x].dispatching
      BY <1>5, ReceiveFacts
    <2>2. \A x \in Members(queue) : x \in Requests
      BY <1>0 DEF Members
    <2>3. Dispatched(queue', req', sw')
      BY <1>0, <2>1, <2>2 DEF Dispatched
    <2>4. Held' = Held
      BY <2>1 DEF Held, closed, holdVars, endVars
    <2>5. queue # <<>> => queue[1] \in Requests
      BY <1>0
    <2>6. Awaited'
      BY <1>0, <2>1, <2>4, <2>5 DEF Awaited
    <2>7. QED
      BY <1>0, <2>1, <2>3, <2>6 DEF QueueInv
  <1>6. QED
    BY <1>1, <1>2, <1>3, <1>4, <1>5, NextKinds

\* Every step keeps the switch ended once the gateway stops.
LEMMA NextEndInv ==
    ASSUME IInv, Next
    PROVE  EndInv'
  <1>1. CASE PumpAction
    <2>1. PumpedStep
      BY <1>1, PumpActionSteps
    <2>2. closed' <=> closed
      BY <2>1 DEF PumpedStep, PumpFrame, closed
    <2>3. QED
      BY <2>1, <2>2 DEF PumpedStep, EndInv
  <1>2. CASE SwitchStep
    <2>1. /\ UNCHANGED <<queue, endVars>> /\ sw # NoSwitch /\ sw'.cancelled = sw.cancelled
      BY <1>2, SwitchStepFacts
    <2>2. QED
      BY <2>1 DEF IInv, EndInv, endVars, closed
  <1>3. CASE CalmAction
    BY <1>3, CalmActionFacts DEF Calm, IInv, EndInv, pumped
  <1>4. CASE CutAction
    BY <1>4, CutActionFacts DEF Cut, EndInv
  <1>5. ASSUME NEW r \in Requests, Receive(r)
        PROVE  EndInv'
    BY <1>5 DEF Receive, IInv, EndInv, endVars, closed
  <1>6. QED
    BY <1>1, <1>2, <1>3, <1>4, <1>5, NextKinds

\* A lease is out only while no switch runs.
LEMMA SwitchDrained ==
    ASSUME IInv
    PROVE  sw # NoSwitch => Leased = {}
  <1>1. IsFiniteSet(Leased)
    <2>1. Leased \in SUBSET Requests
      BY DEF Leased
    <2>2. QED
      BY <2>1, ConstantsAssumption, FS_Subset
  <1>2. Leased = LeasedIn(req)
    BY DEF Leased, LeasedIn
  <1>3. QED
    BY <1>1, <1>2, FS_EmptySet DEF IInv, QueueInv, Agree

\* What is said of the backends after a step of the switch goroutine.
SwitchBack ==
    /\ \A b \in Backends : Live(b)' => ledger' = b
    /\ cur' # NoBackend => ledger' = cur' /\ back'[cur'].once = "no"
    /\ sw'.step \in {"loading", "install"} =>
          /\ sw'.new \in Backends /\ cur' = NoBackend
          /\ ledger' = sw'.new /\ back'[sw'.new].once = "no"
          /\ sw'.new \notin {emergency.b, claimer.b, closer.b}
          /\ \A u \in Unloaders : unl[u].b # sw'.new
    /\ sw'.step = "loading" => back'[sw'.new].proc = "loading"
    /\ cur' \in AnyBackend /\ ledger' \in AnyBackend /\ back' \in BackSet

\* A step of the switch starts a backend only when nothing else is reserved, and
\* installs only the one it started.
LEMMA SwitchStepBack ==
    ASSUME IInv, SwitchStep
    PROVE  SwitchBack
  <1>0. sw \in SwitchSet /\ back \in BackSet /\ cur \in AnyBackend /\ ledger \in AnyBackend
        /\ NoBackend \in AnyBackend /\ NoTarget \in AnyTarget
    BY BackFacts DEF IInv, QueueInv, Agree, AnyBackend, AnyTarget
  <1>1. ASSUME UNCHANGED <<cur, back, ledger>>, sw'.step \notin {"loading", "install"}
        PROVE  SwitchBack
    BY <1>1, BackFacts DEF SwitchBack, Live
  <1>2. ASSUME NEW b, Detach(b), ledger' = ledger, sw'.step \notin {"loading", "install"},
               Starting => b = sw.new
        PROVE  SwitchBack
    <2>1. back' = [back EXCEPT ![b].once = IF @ = "no" THEN "running" ELSE @,
                               ![b].watch = IF @ = "on" THEN "off" ELSE @]
          /\ cur' = IF cur = b THEN NoBackend ELSE cur
      BY <1>2 DEF Detach
    <2>2. /\ back' \in BackSet
          /\ \A x \in Backends : back'[x].proc = back[x].proc
          /\ \A x \in Backends \ {b} : back'[x] = back[x]
      BY <2>1, <1>0, DetachFacts
    <2>3. QED
      BY <1>0, <1>2, <2>1, <2>2, BackFacts DEF SwitchBack, Live
  <1>3. CASE SwCheck
    <2>1. sw'.step \notin {"loading", "install"}
      BY <1>0, <1>3, TriedFields DEF SwCheck, SwitchSet
    <2>2. QED
      BY <1>1, <1>3, <2>1 DEF SwCheck
  <1>4. CASE SwPreflight
    <2>1. sw'.step \notin {"loading", "install"} /\ ~Starting
      BY <1>0, <1>4, TriedFields DEF SwPreflight, SwitchSet, Starting
    <2>2. QED
      BY <1>1, <1>2, <1>4, <2>1 DEF SwPreflight
  <1>5. CASE SwStopped
    <2>1. sw'.step \notin {"loading", "install"}
      BY <1>0, <1>5 DEF SwStopped, SwitchSet
    <2>2. QED
      BY <1>1, <1>5, <2>1 DEF SwStopped
  <1>6. CASE SwStart
    <2>1. CASE /\ UNCHANGED <<back, ledger>>
               /\ \/ sw' = Tried(sw, "cancelled")
                  \/ \E e \in {"failed", "refused", "collision"} : sw' = StartFailed(e)
      <3>1. sw'.step \notin {"loading", "install"}
        BY <1>0, <2>1, TriedFields, StartFailedFields
      <3>2. cur' = cur
        BY <1>6 DEF SwStart
      <3>3. QED
        BY <1>1, <2>1, <3>1, <3>2
    <2>2. ASSUME NEW b \in Backends, Forgotten(b), ledger = NoBackend,
                 \A x \in Backends : ~Live(x),
                 back' = [back EXCEPT ![b] = [Unused EXCEPT !.proc = "loading",
                              !.tgt = IF sw.restoring THEN sw.from ELSE sw.tgt]],
                 ledger' = b, sw' = [sw EXCEPT !.step = "loading", !.new = b], cur' = cur
          PROVE  SwitchBack
      <3> DEFINE t == IF sw.restoring THEN sw.from ELSE sw.tgt
                 n == [Unused EXCEPT !.proc = "loading", !.tgt = t]
      <3>1. t \in AnyTarget
        BY <1>0 DEF SwitchSet
      <3>2. /\ n.proc = "loading" /\ n.once = "no"
            /\ n \in [tgt : AnyTarget, proc : {"none", "loading", "up", "gone"},
                      once : {"no", "running", "done"}, watch : {"off", "on", "crashed"}]
        BY <3>1 DEF Unused
      <3> HIDE DEF n
      <3>3. back' \in BackSet /\ back'[b] = n /\ \A x \in Backends \ {b} : back'[x] = back[x]
        BY <1>0, <2>2, <3>2 DEF BackSet, n
      <3>4. sw'.step = "loading" /\ sw'.new = b
        BY <1>0, <2>2 DEF SwitchSet
      <3>5. cur = NoBackend
        BY <2>2, BackFacts
      <3>6. b \notin {emergency.b, claimer.b, closer.b} /\ \A u \in Unloaders : unl[u].b # b
        BY <2>2 DEF Forgotten
      <3>7. \A x \in Backends : Live(x)' => ledger' = x
        BY <2>2, <3>3 DEF Live
      <3>8. cur' = NoBackend /\ b \in AnyBackend
        BY <2>2, <3>5 DEF AnyBackend
      <3>9. QED
        BY <1>0, <2>2, <3>2, <3>3, <3>4, <3>6, <3>7, <3>8 DEF SwitchBack
    <2>3. QED
      BY <1>6, <2>1, <2>2 DEF SwStart
  <1>7. CASE SwLoad
    <2>1. Starting /\ sw.step = "loading" /\ cur' = cur
      BY <1>7 DEF SwLoad, Starting
    <2>2. CASE sw' = [sw EXCEPT !.step = "install"] /\ back' = [back EXCEPT ![sw.new].proc = "up"]
               /\ ledger' = ledger
      <3>1. sw'.step = "install" /\ sw'.new = sw.new
        BY <1>0, <2>2 DEF SwitchSet
      <3>2. /\ back' \in BackSet /\ back'[sw.new].once = back[sw.new].once
            /\ \A x \in Backends \ {sw.new} : back'[x] = back[x]
        BY <1>0, <2>1, <2>2, BackFacts DEF BackSet
      <3>3. \A x \in Backends : Live(x)' => ledger' = x
        BY <2>1, <2>2, <3>2, BackFacts DEF Live
      <3>4. QED
        BY <1>0, <2>1, <2>2, <3>1, <3>2, <3>3, BackFacts DEF SwitchBack
    <2>3. CASE sw' = [StartFailed("failed") EXCEPT !.new = NoBackend]
               /\ back' = [back EXCEPT ![sw.new] = Unused] /\ ledger' = NoBackend
      <3>1. sw'.step \notin {"loading", "install"}
        BY <1>0, <2>3, StartFailedFields DEF SwitchSet
      <3>2. Unused.proc = "none" /\ Unused \in [tgt : AnyTarget, proc : {"none", "loading", "up", "gone"},
                      once : {"no", "running", "done"}, watch : {"off", "on", "crashed"}]
        BY <1>0 DEF Unused
      <3>3. /\ back' \in BackSet /\ back'[sw.new] = Unused
            /\ \A x \in Backends \ {sw.new} : back'[x] = back[x]
        BY <1>0, <2>1, <2>3, <3>2, BackFacts DEF BackSet
      <3>4. \A x \in Backends : Live(x)' => FALSE
        BY <2>1, <3>2, <3>3, BackFacts DEF Live
      <3>5. QED
        BY <1>0, <2>1, <2>3, <3>1, <3>3, <3>4, BackFacts DEF SwitchBack
    <2>4. QED
      BY <1>7, <2>2, <2>3 DEF SwLoad
  <1>8. CASE SwInstall
    <2>1. Starting /\ ledger' = ledger
      BY <1>8 DEF SwInstall, Starting
    <2>2. CASE Detach(sw.new) /\ sw' = [sw EXCEPT !.step = "undo"]
      <3>1. sw'.step \notin {"loading", "install"}
        BY <1>0, <2>2 DEF SwitchSet
      <3>2. QED
        BY <1>2, <2>1, <2>2, <3>1
    <2>3. CASE cur' = sw.new /\ back' = [back EXCEPT ![sw.new].watch = "on"]
               /\ sw' = [Tried(sw, "none") EXCEPT !.new = NoBackend]
      <3>1. sw'.step \notin {"loading", "install"}
        BY <1>0, <2>3, TriedFields DEF SwitchSet
      <3>2. /\ back' \in BackSet
            /\ \A x \in Backends : back'[x].proc = back[x].proc /\ back'[x].once = back[x].once
        BY <1>0, <2>1, <2>3, BackFacts DEF BackSet
      <3>3. sw.new \in AnyBackend
        BY <2>1, BackFacts DEF AnyBackend
      <3>4. QED
        BY <1>0, <2>1, <2>3, <3>1, <3>2, <3>3, BackFacts DEF SwitchBack, Live
    <2>4. QED
      BY <1>8, <2>2, <2>3 DEF SwInstall
  <1>9. CASE SwUndone
    <2>1. sw'.step \notin {"loading", "install"}
      BY <1>0, <1>9, TriedFields DEF SwUndone, SwitchSet
    <2>2. QED
      BY <1>1, <1>9, <2>1 DEF SwUndone
  <1>10. CASE SwRetry
    <2>1. sw' = [NewSwitch(sw.tgt) EXCEPT !.retried = TRUE] /\ sw.tgt \in AnyTarget
      BY <1>0, <1>10 DEF SwRetry, SwitchSet
    <2>2. sw'.step \notin {"loading", "install"}
      BY <2>1, NewSwitchFields DEF SwitchSet
    <2>3. QED
      BY <1>1, <1>10, <2>2 DEF SwRetry
  <1>11. QED
    BY <1>3, <1>4, <1>5, <1>6, <1>7, <1>8, <1>9, <1>10 DEF SwitchStep

\* Every step keeps the reservation with the backend it was made for.
LEMMA NextBackInv ==
    ASSUME IInv, Next
    PROVE  BackInv'
  <1>0. \A r \in Leased : /\ req[r].lease \in Backends /\ back[req[r].lease].tgt = req[r].tgt
                          /\ cur \in {NoBackend, req[r].lease} /\ ledger \in {NoBackend, req[r].lease}
    BY DEF IInv, BackInv
  <1>1. CASE PumpAction
    <2>1. PumpedStep
      BY <1>1, PumpActionSteps
    <2>2. /\ UNCHANGED <<cur, ledger, emergency, closer>>
          /\ \A b \in Backends : /\ back'[b].tgt = back[b].tgt /\ back'[b].proc = back[b].proc
                                 /\ back'[b].once = back[b].once
      BY <2>1 DEF PumpedStep, PumpFrame
    <2>3. claimer'.b \in {claimer.b, NoBackend} /\ \A u \in Unloaders : unl'[u].b \in {unl[u].b, NoBackend}
      <3>1. unl \in [Unloaders -> [pc : {"idle", "drain", "stop"}, b : AnyBackend]]
        BY DEF IInv, TypeOK
      <3>2. ASSUME NEW u \in Unloaders, unl' = [unl EXCEPT ![u] = AtRest("idle")]
            PROVE  \A x \in Unloaders : unl'[x].b \in {unl[x].b, NoBackend}
        BY <3>1, <3>2 DEF AtRest
      <3>3. CASE \E u \in Unloaders : UnloadGivesUp(u) \/ UnloadEnds(u)
        BY <3>2, <3>3 DEF UnloadGivesUp, UnloadEnds, EndUnload
      <3>4. CASE Unclaim
        BY <3>4 DEF Unclaim, AtRest
      <3>5. CASE UNCHANGED holdVars
        BY <3>5 DEF holdVars
      <3>6. QED
        BY <1>1, <3>3, <3>4, <3>5
           DEF PumpAction, Acquire, Release, Cancel, Timeout, SwFinish, WatchPump, StopLoads
    <2>4. sw'.step \in {"loading", "install"} => sw'.step = sw.step /\ sw'.new = sw.new
      <3>1. sw \in SwitchSet /\ NoSwitch.step = "none"
        BY DEF IInv, QueueInv, Agree, NoSwitch
      <3>2. \/ sw' \in {sw, Cancelled(sw), NoSwitch} \/ sw'.step = "check"
        BY <2>1 DEF PumpedStep
      <3>3. QED
        BY <3>1, <3>2, CancelledFields
    <2>5. LiveIsReserved'
      BY <2>2, BackFacts DEF LiveIsReserved, Live
    <2>6. cur' # NoBackend => ledger' = cur' /\ back'[cur'].once = "no"
      BY <2>2, BackFacts
    <2>7. sw'.step \in {"loading", "install"} =>
            /\ sw'.new \in Backends /\ cur' = NoBackend
            /\ ledger' = sw'.new /\ back'[sw'.new].once = "no"
            /\ sw'.new \notin {emergency'.b, claimer'.b, closer'.b}
            /\ \A u \in Unloaders : unl'[u].b # sw'.new
            /\ sw'.step = "loading" => back'[sw'.new].proc = "loading"
      BY <2>2, <2>3, <2>4, BackFacts DEF Starting
    <2>8. ASSUME NEW r \in Leased'
          PROVE  /\ req'[r].lease \in Backends /\ back'[req'[r].lease].tgt = req'[r].tgt
                 /\ cur' \in {NoBackend, req'[r].lease} /\ ledger' \in {NoBackend, req'[r].lease}
      <3>1. \/ r \in Leased /\ req'[r].lease = req[r].lease /\ req'[r].tgt = req[r].tgt
            \/ cur # NoBackend /\ req'[r].lease = cur /\ back[cur].tgt = req'[r].tgt
        BY <2>1 DEF PumpedStep
      <3>2. QED
        BY <1>0, <2>2, <3>1, BackFacts
    <2>9. QED
      BY <2>5, <2>6, <2>7, <2>8 DEF BackInv
  <1>2. CASE SwitchStep
    <2>1. SwitchBack
      BY <1>2, SwitchStepBack
    <2>2. UNCHANGED <<req, unl, claimer, emergency, closer>> /\ sw # NoSwitch
      BY <1>2, SwitchStepFacts DEF holdVars, endVars
    <2>3. Leased' = {}
      BY <2>2, SwitchDrained DEF Leased
    <2>4. QED
      BY <2>1, <2>2, <2>3 DEF SwitchBack, BackInv, LiveIsReserved
  <1>3. CASE CalmAction
    <2>1. Calm
      BY <1>3, CalmActionFacts
    <2>2. UNCHANGED <<req, sw>> /\ CalmBack /\ CalmRefs
      BY <2>1 DEF Calm, pumped
    <2>3. LiveIsReserved'
      BY <2>2 DEF CalmBack, LiveIsReserved
    <2>4. cur' # NoBackend => ledger' = cur' /\ back'[cur'].once = "no"
      BY <2>2 DEF CalmBack
    <2>5. sw'.step \in {"loading", "install"} =>
            /\ sw'.new \in Backends /\ cur' = NoBackend
            /\ ledger' = sw'.new /\ back'[sw'.new].once = "no"
            /\ sw'.new \notin {emergency'.b, claimer'.b, closer'.b}
            /\ \A u \in Unloaders : unl'[u].b # sw'.new
            /\ sw'.step = "loading" => back'[sw'.new].proc = "loading"
      BY <2>2, BackFacts DEF Starting, CalmBack, CalmRefs
    <2>6. ASSUME NEW r \in Leased'
          PROVE  /\ req'[r].lease \in Backends /\ back'[req'[r].lease].tgt = req'[r].tgt
                 /\ cur' \in {NoBackend, req'[r].lease} /\ ledger' \in {NoBackend, req'[r].lease}
      <3>1. r \in Leased
        BY <2>2 DEF Leased
      <3>2. QED
        BY <1>0, <2>2, <3>1 DEF CalmBack
    <2>7. QED
      BY <2>3, <2>4, <2>5, <2>6 DEF BackInv
  <1>4. CASE CutAction
    <2>1. Cut
      BY <1>4, CutActionFacts
    <2>2. UNCHANGED <<cur, back, ledger>> /\ CalmRefs /\ sw' \in {sw, Cancelled(sw)}
      BY <2>1 DEF Cut
    <2>3. sw'.step = sw.step /\ sw'.new = sw.new
      BY <2>2, CancelledFields DEF IInv, QueueInv, Agree
    <2>4. sw'.step \in {"loading", "install"} =>
            /\ sw'.new \in Backends /\ cur' = NoBackend
            /\ ledger' = sw'.new /\ back'[sw'.new].once = "no"
            /\ sw'.new \notin {emergency'.b, claimer'.b, closer'.b}
            /\ \A u \in Unloaders : unl'[u].b # sw'.new
            /\ sw'.step = "loading" => back'[sw'.new].proc = "loading"
      BY <2>2, <2>3, BackFacts DEF Starting, CalmRefs
    <2>5. LiveIsReserved' /\ (cur' # NoBackend => ledger' = cur' /\ back'[cur'].once = "no")
      BY <2>2, BackFacts DEF LiveIsReserved, Live
    <2>6. ASSUME NEW r \in Leased'
          PROVE  /\ req'[r].lease \in Backends /\ back'[req'[r].lease].tgt = req'[r].tgt
                 /\ cur' \in {NoBackend, req'[r].lease} /\ ledger' \in {NoBackend, req'[r].lease}
      <3>1. r \in Leased /\ req'[r] = req[r]
        BY <2>1 DEF Cut, Leased, LeasedIn
      <3>2. QED
        BY <1>0, <2>2, <3>1
    <2>7. QED
      BY <2>4, <2>5, <2>6 DEF BackInv
  <1>5. ASSUME NEW r \in Requests, Receive(r)
        PROVE  BackInv'
    <2>1. /\ UNCHANGED <<cur, sw, back, ledger, holdVars, endVars>>
          /\ LeasedIn(req') = LeasedIn(req)
          /\ \A x \in Requests : req'[x].tgt = req[x].tgt /\ req'[x].lease = req[x].lease
      BY <1>5, ReceiveFacts
    <2>2. \A x \in Leased' : x \in Leased /\ x \in Requests
      BY <2>1 DEF Leased, LeasedIn
    <2>3. LiveIsReserved' /\ (cur' # NoBackend => ledger' = cur' /\ back'[cur'].once = "no")
      BY <2>1, BackFacts DEF LiveIsReserved, Live
    <2>4. sw'.step \in {"loading", "install"} =>
            /\ sw'.new \in Backends /\ cur' = NoBackend
            /\ ledger' = sw'.new /\ back'[sw'.new].once = "no"
            /\ sw'.new \notin {emergency'.b, claimer'.b, closer'.b}
            /\ \A u \in Unloaders : unl'[u].b # sw'.new
            /\ sw'.step = "loading" => back'[sw'.new].proc = "loading"
      BY <2>1, BackFacts DEF Starting, holdVars, endVars
    <2>5. QED
      BY <1>0, <2>1, <2>2, <2>3, <2>4 DEF BackInv
  <1>6. QED
    BY <1>1, <1>2, <1>3, <1>4, <1>5, NextKinds

-----------------------------------------------------------------------------
(* The holds *)

Busy == {u \in Unloaders : unl[u].pc # "idle"}
Stoppers == {u \in Unloaders : unl[u].pc = "stop"}

\* What the claims and unloads of a state say.
HoldCounts ==
    /\ unloaders = Cardinality(Busy)
    /\ (unloading # NoModel) <=> unloaders > 0
    /\ Cardinality(Stoppers) + (IF claimer.pc = "idle" THEN 0 ELSE 1) = IF claimed THEN 1 ELSE 0

HoldsQuiet ==
    /\ \A r \in Members(queue) : req[r].tgt.model # unloading
    /\ claimed => active = 0
    /\ claimed \/ unloading # NoModel => sw = NoSwitch

\* The property the runs check, by its two halves.
LEMMA HoldsParts == HoldsExcludeEachOther <=> HoldCounts /\ HoldsQuiet
  BY DEF HoldsExcludeEachOther, UnloadProtects, HoldCounts, HoldsQuiet, Busy, Stoppers

\* The unloads in flight can be counted.
LEMMA HoldsFinite ==
    /\ IsFiniteSet(Busy) /\ IsFiniteSet(Stoppers)
    /\ Cardinality(Busy) \in Nat /\ Cardinality(Stoppers) \in Nat
  <1>1. Busy \in SUBSET Unloaders /\ Stoppers \in SUBSET Unloaders
    BY DEF Busy, Stoppers
  <1>2. IsFiniteSet(Busy) /\ IsFiniteSet(Stoppers)
    BY <1>1, ConstantsAssumption, FS_Subset
  <1>3. QED
    BY <1>2, FS_CardinalityType

\* Every step keeps the counts of the holds right.
LEMMA NextHoldCounts ==
    ASSUME IInv, Next
    PROVE  HoldCounts'
  <1>0. /\ HoldCounts /\ unl \in [Unloaders -> [pc : {"idle", "drain", "stop"}, b : AnyBackend]]
        /\ claimed \in BOOLEAN
    BY HoldsParts DEF IInv, TypeOK
  <1>1. CASE UNCHANGED holdVars
    BY <1>0, <1>1 DEF HoldCounts, holdVars, Busy, Stoppers
  <1>2. ASSUME NEW u \in Unloaders, NEW m \in {t.model : t \in Targets}, BeginUnload(u, m)
        PROVE  HoldCounts'
    <2>1. unl' = [unl EXCEPT ![u] = [pc |-> "drain", b |-> cur]] /\ unl[u].pc = "idle"
          /\ unloading' = m /\ unloaders' = unloaders + 1 /\ UNCHANGED <<claimed, claimer>>
      BY <1>2 DEF BeginUnload, AtRest
    <2>2. Busy' = Busy \cup {u} /\ u \notin Busy /\ Stoppers' = Stoppers
      BY <1>0, <2>1 DEF Busy, Stoppers
    <2>3. Cardinality(Busy') = Cardinality(Busy) + 1
      BY <2>2, HoldsFinite, FS_AddElement
    <2>4. m # NoModel
      BY ConstantsAssumption
    <2>5. unloaders' = Cardinality(Busy') /\ unloaders' > 0
      BY <1>0, <2>1, <2>3, HoldsFinite DEF HoldCounts
    <2>6. QED
      BY <1>0, <2>1, <2>2, <2>4, <2>5 DEF HoldCounts
  <1>3. ASSUME NEW u \in Unloaders, unl[u].pc # "idle",
               unl' = [unl EXCEPT ![u] = AtRest("idle")], unloaders' = unloaders - 1,
               unloading' = (IF unloaders - 1 = 0 THEN NoModel ELSE unloading)
        PROVE  /\ unloaders' = Cardinality(Busy') /\ ((unloading' # NoModel) <=> unloaders' > 0)
               /\ Stoppers' = Stoppers \ {u}
    <2>1. Busy' = Busy \ {u} /\ u \in Busy /\ Stoppers' = Stoppers \ {u}
      BY <1>0, <1>3 DEF Busy, Stoppers, AtRest
    <2>2. Cardinality(Busy') = Cardinality(Busy) - 1
      BY <2>1, HoldsFinite, FS_RemoveElement
    <2>3. Cardinality(Busy) # 0
      BY <2>1, HoldsFinite, FS_EmptySet
    <2>4. unloaders = Cardinality(Busy) /\ ((unloading # NoModel) <=> unloaders > 0)
      BY <1>0 DEF HoldCounts
    <2>5. QED
      BY <1>3, <2>1, <2>2, <2>3, <2>4, HoldsFinite
  <1>4. ASSUME NEW u \in Unloaders, UnloadGivesUp(u)
        PROVE  HoldCounts'
    <2>1. /\ unl[u].pc = "drain" /\ unl' = [unl EXCEPT ![u] = AtRest("idle")]
          /\ unloaders' = unloaders - 1 /\ UNCHANGED <<claimed, claimer>>
          /\ unloading' = (IF unloaders - 1 = 0 THEN NoModel ELSE unloading)
      BY <1>4 DEF UnloadGivesUp, EndUnload
    <2>2. Stoppers \ {u} = Stoppers
      BY <2>1 DEF Stoppers
    <2>3. /\ unloaders' = Cardinality(Busy') /\ ((unloading' # NoModel) <=> unloaders' > 0)
          /\ Stoppers' = Stoppers
      BY <1>3, <2>1, <2>2
    <2>4. QED
      BY <1>0, <2>1, <2>3 DEF HoldCounts
  <1>5. ASSUME NEW u \in Unloaders, UnloadStops(u)
        PROVE  HoldCounts'
    <2>1. /\ unl[u].pc = "drain" /\ unl' = [unl EXCEPT ![u].pc = "stop"]
          /\ ~claimed /\ claimed' = TRUE /\ UNCHANGED <<claimer, unloading, unloaders>>
      BY <1>5 DEF UnloadStops
    <2>2. Busy' = Busy /\ Stoppers' = Stoppers \cup {u} /\ u \notin Stoppers
      BY <1>0, <2>1 DEF Busy, Stoppers
    <2>3. Cardinality(Stoppers') = Cardinality(Stoppers) + 1
      BY <2>2, HoldsFinite, FS_AddElement
    <2>4. Cardinality(Stoppers') + (IF claimer'.pc = "idle" THEN 0 ELSE 1) = 1
      BY <1>0, <2>1, <2>3, HoldsFinite DEF HoldCounts
    <2>5. QED
      BY <1>0, <2>1, <2>2, <2>4 DEF HoldCounts
  <1>6. ASSUME NEW u \in Unloaders, UnloadEnds(u)
        PROVE  HoldCounts'
    <2>1. /\ unl[u].pc = "stop" /\ unl' = [unl EXCEPT ![u] = AtRest("idle")]
          /\ unloaders' = unloaders - 1 /\ claimed' = FALSE /\ claimer' = claimer
          /\ unloading' = (IF unloaders - 1 = 0 THEN NoModel ELSE unloading)
      BY <1>6 DEF UnloadEnds, EndUnload
    <2>2. /\ unloaders' = Cardinality(Busy') /\ ((unloading' # NoModel) <=> unloaders' > 0)
          /\ Stoppers' = Stoppers \ {u}
      BY <1>3, <2>1
    <2>3. u \in Stoppers
      BY <2>1 DEF Stoppers
    <2>4. Cardinality(Stoppers') = Cardinality(Stoppers) - 1 /\ Cardinality(Stoppers) # 0
      BY <2>2, <2>3, HoldsFinite, FS_RemoveElement, FS_EmptySet
    <2>5. Cardinality(Stoppers') + (IF claimer'.pc = "idle" THEN 0 ELSE 1) = 0
      BY <1>0, <2>1, <2>4, HoldsFinite DEF HoldCounts
    <2>6. QED
      BY <2>1, <2>2, <2>5 DEF HoldCounts
  <1>7. CASE ClaimIdle \/ StopClaimed \/ Unclaim
    <2>1. UNCHANGED <<unl, unloading, unloaders>>
      BY <1>7 DEF ClaimIdle, StopClaimed, Unclaim
    <2>2. Busy' = Busy /\ Stoppers' = Stoppers
      BY <2>1 DEF Busy, Stoppers
    <2>3. \/ claimer.pc = "idle" /\ claimer'.pc # "idle" /\ ~claimed /\ claimed' = TRUE
          \/ claimer.pc # "idle" /\ claimer'.pc # "idle" /\ claimed' = claimed
          \/ claimer.pc # "idle" /\ claimer'.pc = "idle" /\ claimed' = FALSE
      BY <1>7 DEF ClaimIdle, StopClaimed, Unclaim, AtRest
    <2>4. Cardinality(Stoppers) + (IF claimer'.pc = "idle" THEN 0 ELSE 1) = IF claimed' THEN 1 ELSE 0
      BY <1>0, <2>3, HoldsFinite DEF HoldCounts
    <2>5. QED
      BY <1>0, <2>1, <2>2, <2>4 DEF HoldCounts
  <1>8. QED
    <2>1. CASE PumpAction
      BY <1>1, <1>4, <1>6, <1>7, <2>1
         DEF PumpAction, Acquire, Release, Cancel, Timeout, SwFinish, WatchPump, StopLoads
    <2>2. CASE SwitchStep
      BY <1>1, <2>2, SwitchStepFacts
    <2>3. CASE CalmAction
      BY <1>1, <1>5, <1>7, <2>3
         DEF CalmAction, FinishStop, Crash, WatchCrash, EmergencyDetach, EmergencyEnds, CloseStops,
             CloseEnds
    <2>4. CASE CutAction
      BY <1>1, <1>2, <2>4 DEF CutAction, EmergencyStop, BeginClose
    <2>5. QED
      BY <1>1, <2>1, <2>2, <2>3, <2>4, NextKinds DEF Receive

\* Under a claim or an unload nothing runs that it has to exclude.
LEMMA NextHoldsQuiet ==
    ASSUME IInv, Next
    PROVE  HoldsQuiet'
  <1>0. HoldsQuiet /\ HoldCounts /\ HoldCounts'
    BY HoldsParts, NextHoldCounts DEF IInv
  <1>1. CASE PumpAction
    <2>1. PumpedStep
      BY <1>1, PumpActionSteps
    <2>2. /\ unloading' \in {unloading, NoModel}
          /\ claimed' => claimed
      <3>1. CASE UNCHANGED holdVars
        BY <3>1 DEF holdVars
      <3>2. ASSUME NEW u \in Unloaders, UnloadGivesUp(u) \/ UnloadEnds(u)
            PROVE  unloading' \in {unloading, NoModel} /\ (claimed' => claimed)
        BY <3>2 DEF UnloadGivesUp, UnloadEnds, EndUnload
      <3>3. CASE Unclaim
        BY <3>3 DEF Unclaim
      <3>4. QED
        BY <1>1, <3>1, <3>2, <3>3
           DEF PumpAction, Acquire, Release, Cancel, Timeout, SwFinish, WatchPump, StopLoads
    <2>3. \A r \in Members(queue') : req'[r].tgt.model # unloading'
      <3>1. \A r \in Members(queue') : req'[r].tgt.model # unloading /\ req'[r].tgt \in Targets
        BY <2>1 DEF PumpedStep, Agree
      <3>2. QED
        BY <2>2, <3>1, ConstantsAssumption
    <2>4. active' \in 0..Slots /\ Slots \in Nat /\ (Held' => active' <= active)
      BY <2>1, ConstantsAssumption DEF PumpedStep, Agree
    <2>5. claimed' => active' = 0
      BY <1>0, <2>2, <2>4 DEF HoldsQuiet, Held
    <2>6. claimed' \/ unloading' # NoModel => sw' = NoSwitch
      <3>1. Cancelled(NoSwitch) = NoSwitch
        BY DEF Cancelled
      <3>2. Held' => sw' \in {sw, Cancelled(sw), NoSwitch}
        BY <2>1 DEF PumpedStep
      <3>3. QED
        BY <1>0, <2>2, <3>1, <3>2 DEF HoldsQuiet, Held
    <2>7. QED
      BY <2>3, <2>5, <2>6 DEF HoldsQuiet
  <1>2. CASE SwitchStep
    <2>1. UNCHANGED <<active, queue, req, claimed, unloading>> /\ sw # NoSwitch
      BY <1>2, SwitchStepFacts DEF holdVars
    <2>2. QED
      BY <1>0, <2>1 DEF HoldsQuiet
  <1>3. CASE CalmAction
    <2>1. UNCHANGED <<active, queue, req, sw>>
      BY <1>3, CalmActionFacts DEF Calm, pumped
    <2>2. unloading' = unloading /\ (claimed' => claimed \/ (active = 0 /\ sw = NoSwitch))
      <3>1. CASE UNCHANGED holdVars
        BY <3>1 DEF holdVars
      <3>2. CASE ClaimIdle \/ StopClaimed \/ \E u \in Unloaders : UnloadStops(u)
        BY <3>2 DEF ClaimIdle, StopClaimed, UnloadStops
      <3>3. QED
        BY <1>3, <3>1, <3>2
           DEF CalmAction, FinishStop, Crash, WatchCrash, EmergencyDetach, EmergencyEnds,
               CloseStops, CloseEnds
    <2>3. QED
      BY <1>0, <2>1, <2>2 DEF HoldsQuiet
  <1>4. CASE CutAction
    <2>1. Cut
      BY <1>4, CutActionFacts
    <2>2. active' = active /\ claimed' = claimed /\ sw' \in {sw, Cancelled(sw)}
          /\ \A r \in Members(queue') : req'[r].tgt.model # unloading'
      BY <2>1 DEF Cut
    <2>3. unloading' = unloading \/ sw = NoSwitch
      BY <1>4 DEF CutAction, BeginUnload, EmergencyStop, BeginClose, holdVars
    <2>4. Cancelled(NoSwitch) = NoSwitch
      BY DEF Cancelled
    <2>5. QED
      BY <1>0, <2>2, <2>3, <2>4 DEF HoldsQuiet
  <1>5. ASSUME NEW r \in Requests, Receive(r)
        PROVE  HoldsQuiet'
    <2>1. /\ UNCHANGED <<active, queue, sw, holdVars>>
          /\ \A x \in Requests : req'[x].tgt = req[x].tgt
      BY <1>5, ReceiveFacts
    <2>2. \A x \in Members(queue) : x \in Requests
      BY DEF IInv, QueueInv, Agree, Members
    <2>3. QED
      BY <1>0, <2>1, <2>2 DEF HoldsQuiet, holdVars
  <1>6. QED
    BY <1>1, <1>2, <1>3, <1>4, <1>5, NextKinds

-----------------------------------------------------------------------------
(* The theorems *)

\* The rest of the types.
LEMMA NextTypeOK ==
    ASSUME IInv, Next
    PROVE  TypeOK'
  <1>0. TypeOK
    BY DEF IInv
  <1>1. QueueInv' /\ BackInv' /\ HoldCounts'
    BY NextQueueInv, NextBackInv, NextHoldCounts
  <1>2. /\ active' \in 0..Slots /\ queue' \in Seq(Requests) /\ Len(queue') <= QueueCapacity
        /\ req' \in RequestSet /\ sw' \in SwitchSet
    BY <1>1 DEF QueueInv, Agree
  <1>3. unloaders' \in Nat
    <2>1. Busy' \in SUBSET Unloaders
      BY DEF Busy
    <2>2. IsFiniteSet(Busy')
      BY <2>1, ConstantsAssumption, FS_Subset
    <2>3. QED
      BY <1>1, <2>2, FS_CardinalityType DEF HoldCounts
  <1>4. cur' \in AnyBackend /\ ledger' \in AnyBackend /\ back' \in BackSet
    <2>1. cur \in AnyBackend /\ ledger \in AnyBackend /\ NoBackend \in AnyBackend /\ back \in BackSet
      BY BackFacts DEF AnyBackend
    <2>2. CASE PumpAction
      BY <2>1, <2>2, PumpActionSteps DEF PumpedStep, PumpFrame, BackSet
    <2>3. CASE SwitchStep
      BY <2>3, SwitchStepBack DEF SwitchBack
    <2>4. CASE CalmAction
      BY <2>1, <2>4, CalmActionFacts DEF Calm, CalmBack
    <2>5. CASE CutAction
      BY <2>1, <2>5, CutActionFacts DEF Cut
    <2>6. ASSUME NEW r \in Requests, Receive(r)
          PROVE  cur' \in AnyBackend /\ ledger' \in AnyBackend /\ back' \in BackSet
      BY <2>1, <2>6 DEF Receive
    <2>7. QED
      BY <2>2, <2>3, <2>4, <2>5, <2>6, NextKinds
  <1> DEFINE Rest == /\ claimed \in BOOLEAN
                     /\ claimer \in [pc : {"idle", "claimed", "stop"}, b : AnyBackend]
                     /\ unloading \in {NoModel} \cup {t.model : t \in Targets}
                     /\ unl \in [Unloaders -> [pc : {"idle", "drain", "stop"}, b : AnyBackend]]
             Ends == /\ emergency \in [pc : {"idle", "found", "stop"}, b : AnyBackend]
                     /\ stopping \in BOOLEAN
                     /\ closer \in [pc : {"open", "waiting", "stopping", "closed"}, b : AnyBackend]
                     /\ crashes \in 0..MaxCrashes
  <1>5. Rest /\ Ends /\ cur \in AnyBackend /\ NoBackend \in AnyBackend
    BY <1>0 DEF TypeOK, AnyBackend
  <1>6. Rest'
    <2>1. CASE UNCHANGED holdVars
      BY <1>5, <2>1 DEF holdVars
    <2>2. ASSUME NEW u \in Unloaders, NEW m \in {t.model : t \in Targets}, BeginUnload(u, m)
          PROVE  Rest'
      BY <1>5, <2>2 DEF BeginUnload
    <2>3. ASSUME NEW u \in Unloaders, UnloadGivesUp(u) \/ UnloadEnds(u)
          PROVE  Rest'
      <3>1. claimed' \in {claimed, FALSE} /\ claimer' = claimer
            /\ unloading' \in {unloading, NoModel} /\ unl' = [unl EXCEPT ![u] = AtRest("idle")]
        BY <2>3 DEF UnloadGivesUp, UnloadEnds, EndUnload
      <3>2. claimed' \in BOOLEAN
        BY <1>5, <3>1, Zenon
      <3>3. AtRest("idle") \in [pc : {"idle", "drain", "stop"}, b : AnyBackend]
        BY <1>5 DEF AtRest
      <3>4. QED
        BY <1>5, <3>1, <3>2, <3>3
    <2>4. ASSUME NEW u \in Unloaders, UnloadStops(u)
          PROVE  Rest'
      BY <1>5, <2>4 DEF UnloadStops
    <2>5. CASE ClaimIdle \/ StopClaimed \/ Unclaim
      <3>1. claimed' \in {claimed, TRUE, FALSE} /\ UNCHANGED <<unloading, unl>>
            /\ claimer' \in {AtRest("claimed"), AtRest("idle"), [pc |-> "stop", b |-> cur]}
        BY <2>5 DEF ClaimIdle, StopClaimed, Unclaim
      <3>2. claimed' \in BOOLEAN
        BY <1>5, <3>1, Zenon
      <3>3. claimer' \in [pc : {"idle", "claimed", "stop"}, b : AnyBackend]
        BY <1>5, <3>1 DEF AtRest
      <3>4. QED
        BY <1>5, <3>1, <3>2, <3>3
    <2>6. CASE PumpAction
      BY <2>1, <2>3, <2>5, <2>6
         DEF PumpAction, Acquire, Release, Cancel, Timeout, SwFinish, WatchPump, StopLoads
    <2>7. CASE SwitchStep
      BY <2>1, <2>7, SwitchStepFacts
    <2>8. CASE CalmAction
      BY <2>1, <2>4, <2>5, <2>8
         DEF CalmAction, FinishStop, Crash, WatchCrash, EmergencyDetach, EmergencyEnds,
             CloseStops, CloseEnds
    <2>9. CASE CutAction
      BY <2>1, <2>2, <2>9 DEF CutAction, EmergencyStop, BeginClose
    <2>10. QED
      BY <2>1, <2>6, <2>7, <2>8, <2>9, NextKinds DEF Receive
  <1>7. Ends'
    <2>1. CASE UNCHANGED <<endVars, crashes>>
      BY <1>5, <2>1 DEF endVars
    <2>2. ASSUME NEW b \in Backends, Crash(b)
          PROVE  Ends'
      <3>1. crashes' = crashes + 1 /\ crashes < MaxCrashes /\ UNCHANGED endVars
        BY <2>2 DEF Crash
      <3>2. crashes' \in 0..MaxCrashes
        BY <1>5, <3>1, ConstantsAssumption
      <3>3. QED
        BY <1>5, <3>1, <3>2 DEF endVars
    <2>3. CASE EmergencyStop \/ EmergencyDetach \/ EmergencyEnds
      BY <1>5, <2>3 DEF EmergencyStop, EmergencyDetach, EmergencyEnds, AtRest
    <2>4. CASE StopLoads \/ BeginClose \/ CloseStops \/ CloseEnds
      <3>1. stopping' \in {stopping, TRUE} /\ UNCHANGED <<emergency, crashes>>
            /\ closer' \in {closer, AtRest("waiting"), AtRest("closed"), [pc |-> "stopping", b |-> cur]}
        BY <2>4 DEF StopLoads, BeginClose, CloseStops, CloseEnds
      <3>2. stopping' \in BOOLEAN
        BY <1>5, <3>1, Zenon
      <3>3. closer' \in [pc : {"open", "waiting", "stopping", "closed"}, b : AnyBackend]
        BY <1>5, <3>1 DEF AtRest
      <3>4. QED
        BY <1>5, <3>1, <3>2, <3>3
    <2>5. CASE PumpAction
      BY <2>1, <2>4, <2>5
         DEF PumpAction, Acquire, Release, Cancel, Timeout, SwFinish, WatchPump, Unclaim,
             UnloadGivesUp, UnloadEnds
    <2>6. CASE SwitchStep
      BY <2>1, <2>6, SwitchStepFacts
    <2>7. CASE CalmAction
      BY <2>1, <2>2, <2>3, <2>4, <2>7
         DEF CalmAction, FinishStop, WatchCrash, UnloadStops, ClaimIdle, StopClaimed
    <2>8. CASE CutAction
      BY <2>1, <2>3, <2>4, <2>8 DEF CutAction, BeginUnload
    <2>9. QED
      BY <2>1, <2>5, <2>6, <2>7, <2>8, NextKinds DEF Receive
  <1>8. QED
    BY <1>2, <1>3, <1>4, <1>6, <1>7 DEF TypeOK, RequestSet, SwitchSet, BackSet

\* The initial states satisfy the invariant.
LEMMA InitIInv == Init => IInv
  <1> SUFFICES ASSUME Init PROVE IInv
    OBVIOUS
  <1>1. NoBackend \in AnyBackend /\ NoTarget \in AnyTarget /\ MaxCrashes \in Nat /\ Slots \in Nat
        /\ QueueCapacity \in Nat
    BY ConstantsAssumption DEF AnyBackend, AnyTarget
  <1>2. NoSwitch \in SwitchSet /\ NoSwitch.step = "none" /\ NoSwitch.cancelled = FALSE
    BY <1>1 DEF NoSwitch, SwitchSet
  <1>3. req \in RequestSet /\ \A r \in Requests : req[r].st = "out"
    BY <1>1 DEF Init, Out, RequestSet
  <1>4. back \in BackSet /\ \A b \in Backends : back[b].proc = "none"
    BY <1>1 DEF Init, Unused, BackSet
  <1>5. Members(queue) = {} /\ Once(queue) /\ queue \in Seq(Requests) /\ Len(queue) = 0
    BY DEF Init, Members, Once
  <1>6. LeasedIn(req) = {} /\ Leased = {}
    BY <1>3 DEF LeasedIn, Leased
  <1>7. Agree(queue, active, req, sw)
    <2>1. active = 0 /\ active \in 0..Slots /\ sw = NoSwitch
      BY <1>1 DEF Init
    <2>2. Cardinality(LeasedIn(req)) = 0
      BY <1>6, FS_EmptySet, Zenon
    <2>3. \A r \in Requests : r \in Members(queue) <=> req[r].st = "queued"
      BY <1>3, <1>5
    <2>4. QED
      BY <1>2, <1>3, <1>5, <2>1, <2>2, <2>3 DEF Agree
  <1>8. QueueInv
    BY <1>1, <1>5, <1>7 DEF Init, QueueInv, Dispatched, Awaited
  <1>9. BackInv
    BY <1>2, <1>4, <1>6 DEF Init, BackInv, LiveIsReserved, Live
  <1>10. EndInv
    BY DEF Init, EndInv, closed, AtRest
  <1>11. HoldsExcludeEachOther
    <2>1. Busy = {} /\ Stoppers = {} /\ claimer.pc = "idle"
      BY DEF Init, Busy, Stoppers, AtRest
    <2>2. HoldCounts
      BY <2>1, FS_EmptySet DEF Init, HoldCounts
    <2>3. HoldsQuiet
      BY <1>5 DEF Init, HoldsQuiet
    <2>4. QED
      BY <2>2, <2>3, HoldsParts
  <1>12. unl \in [Unloaders -> [pc : {"idle", "drain", "stop"}, b : AnyBackend]]
    BY <1>1 DEF Init, AtRest
  <1>13. /\ cur \in AnyBackend /\ active \in 0..Slots /\ ledger \in AnyBackend
         /\ Len(queue) <= QueueCapacity /\ sw \in SwitchSet /\ crashes \in 0..MaxCrashes
    BY <1>1, <1>2, <1>5 DEF Init
  <1>14. TypeOK
    BY <1>1, <1>3, <1>4, <1>5, <1>12, <1>13 DEF Init, TypeOK, AtRest, RequestSet, SwitchSet, BackSet
  <1>15. QED
    BY <1>8, <1>9, <1>10, <1>11, <1>14 DEF IInv

\* The invariant is inductive.
LEMMA NextIInv == IInv /\ [Next]_vars => IInv'
  <1>1. ASSUME IInv, Next
        PROVE  IInv'
    <2>1. HoldsExcludeEachOther'
      <3>1. HoldCounts' /\ HoldsQuiet'
        BY <1>1, NextHoldCounts, NextHoldsQuiet
      <3>2. QED
        BY <3>1 DEF HoldsExcludeEachOther, UnloadProtects, HoldCounts, HoldsQuiet, Busy, Stoppers
    <2>2. QED
      BY <1>1, <2>1, NextQueueInv, NextBackInv, NextEndInv, NextTypeOK DEF IInv
  <1>2. ASSUME IInv, UNCHANGED vars
        PROVE  IInv'
    BY <1>2 DEF IInv, TypeOK, QueueInv, Agree, Dispatched, Awaited, Held, BackInv, LiveIsReserved,
                Live, Leased, EndInv, closed, HoldsExcludeEachOther, UnloadProtects, vars, pumped,
                holdVars, endVars
  <1>3. QED
    BY <1>1, <1>2

\* The invariant holds in every reachable state.
THEOREM Invariance == Spec => []IInv
  BY InitIInv, NextIInv, PTL DEF Spec

\* Every variable keeps its type: in particular the slots are never overrun and the
\* queue never outgrows its capacity, whatever is cancelled, unloaded or stopped.
THEOREM TypeCorrect == Spec => []TypeOK
  <1>1. IInv => TypeOK
    BY DEF IInv
  <1>2. QED
    BY <1>1, Invariance, PTL

\* A lease is answered by the model it asked for or by nothing, until it is released
\* (grant, pump's drain, startBackend).
THEOREM LeasesKept == Spec => []LeasesKeepTheirBackend
  <1>1. IInv => LeasesKeepTheirBackend
    BY DEF IInv, BackInv, LiveIsReserved, LeasesKeepTheirBackend, Leased, Backends, NoBackend
  <1>2. QED
    BY <1>1, Invariance, PTL

\* No wake-up is lost: m.active counts the leases, the queue holds exactly those who
\* wait, and whoever waits while nothing holds pump back waits for a lease that is out
\* (pump, and every path that frees a slot or lifts a hold).
THEOREM NoWakeupLost == Spec => []NoLostWakeup
  <1>1. ASSUME IInv
        PROVE  NoLostWakeup
    <2>1. Agree(queue, active, req, sw) /\ Dispatched(queue, req, sw) /\ Awaited
      BY <1>1 DEF IInv, QueueInv
    <2>2. ActiveCountsLeases
      BY <2>1, ConstantsAssumption DEF Agree, ActiveCountsLeases, LeasedIn, Leased
    <2>3. Members(queue) = {r \in Requests : req[r].st = "queued"}
      BY <2>1 DEF Agree, Members
    <2>4. Cardinality(Members(queue)) = Len(queue)
      <3>1. queue \in Seq(Requests) /\ Once(queue) /\ DOMAIN queue = 1..Len(queue) /\ Len(queue) \in Nat
        BY <2>1 DEF Agree
      <3>2. DOMAIN queue \in SUBSET (DOMAIN queue)
        OBVIOUS
      <3>3. Cardinality(Members(queue)) = Cardinality(DOMAIN queue)
        BY <3>1, <3>2, ImageCount DEF Members
      <3>4. Cardinality(1..Len(queue)) = IF 1 > Len(queue) THEN 0 ELSE Len(queue) - 1 + 1
        <4>1. 1 \in Int /\ Len(queue) \in Int
          BY <3>1
        <4>2. QED
          BY <4>1, FS_Interval, Zenon
      <3>5. QED
        BY <3>1, <3>3, <3>4
    <2>5. QueueHoldsTheWaiting
      BY <2>1, <2>3, <2>4 DEF QueueHoldsTheWaiting, Dispatched
    <2>6. QED
      BY <2>1, <2>2, <2>5 DEF NoLostWakeup, Awaited
  <1>2. QED
    BY <1>1, Invariance, PTL

\* At most one of idle recovery and the unloads has the claim, nothing runs under it, and
\* a draining model is protected exactly until its last unload ends (claimIdle, Unload,
\* endUnload, unclaim).
THEOREM HoldsExclusive == Spec => []HoldsExcludeEachOther
  <1>1. IInv => HoldsExcludeEachOther
    BY DEF IInv
  <1>2. QED
    BY <1>1, Invariance, PTL

\* A running process always has its reservation (startBackend, stopBackend).
THEOREM LiveReserved == Spec => []LiveIsReserved
  <1>1. IInv => LiveIsReserved
    BY DEF IInv, BackInv
  <1>2. QED
    BY <1>1, Invariance, PTL

\* Once the gateway stops or the manager is closed, no process starts and no backend
\* becomes current (StopLoads, Close, install).
THEOREM NothingStartsAfterStop == Spec => NoStartAfterStop
  <1> DEFINE Kept == /\ cur' \in {cur, NoBackend}
                     /\ \A b \in Backends : Live(b)' => Live(b)
  <1>1. ASSUME IInv, Next, stopping \/ closed
        PROVE  Kept
    <2>1. sw = NoSwitch \/ sw.cancelled
      BY <1>1 DEF IInv, EndInv
    <2>2. sw \in SwitchSet /\ back \in BackSet
      BY <1>1, BackFacts DEF IInv, QueueInv, Agree
    <2>3. CASE PumpAction
      BY <1>1, <2>3, PumpActionSteps DEF PumpedStep, PumpFrame, Live
    <2>4. CASE SwitchStep
      <3>1. sw.cancelled
        BY <1>1, <2>1, <2>4, SwitchStepFacts
      <3>2. CASE UNCHANGED <<cur, back>>
        BY <3>2 DEF Live
      <3>3. ASSUME NEW b, Detach(b)
            PROVE  Kept
        BY <2>2, <3>3, DetachFacts DEF Detach, Live
      <3>4. CASE SwStart
        BY <3>1, <3>2, <3>4 DEF SwStart
      <3>5. CASE SwLoad
        <4>1. sw.step = "loading" /\ cur' = cur
          BY <3>5 DEF SwLoad
        <4>2. sw.new \in Backends /\ back[sw.new].proc = "loading"
          BY <1>1, <4>1, BackFacts
        <4>3. \A x \in Backends \ {sw.new} : back'[x] = back[x]
          BY <2>2, <3>5, <4>2 DEF SwLoad, BackSet
        <4>4. QED
          BY <4>1, <4>2, <4>3 DEF Live
      <3>6. CASE SwInstall
        BY <3>1, <3>3, <3>6 DEF SwInstall
      <3>7. QED
        BY <2>4, <3>2, <3>3, <3>4, <3>5, <3>6
           DEF SwitchStep, SwCheck, SwPreflight, SwStopped, SwUndone, SwRetry
    <2>5. CASE CalmAction
      BY <1>1, <2>5, CalmActionFacts DEF Calm, CalmBack
    <2>6. CASE CutAction
      BY <1>1, <2>6, CutActionFacts DEF Cut, Live
    <2>7. ASSUME NEW r \in Requests, Receive(r)
          PROVE  Kept
      BY <2>7 DEF Receive, Live
    <2>8. QED
      BY <1>1, <2>3, <2>4, <2>5, <2>6, <2>7, NextKinds
  <1>2. IInv /\ [Next]_vars => [stopping \/ closed => Kept]_vars
    BY <1>1
  <1>3. QED
    BY <1>2, Invariance, PTL DEF Spec, NoStartAfterStop

-----------------------------------------------------------------------------
(* Who ends a backend *)

\* Somebody is at work on stopping the backend b.
Ending(b) ==
    \/ claimer.pc = "stop" /\ claimer.b = b
    \/ emergency.pc = "stop" /\ emergency.b = b
    \/ closer.pc = "stopping" /\ closer.b = b
    \/ \E u \in Unloaders : unl[u].pc = "stop" /\ unl[u].b = b

\* The switch has the backend b in hand.
Switching(b) ==
    \/ sw.step \in {"loading", "install", "undo"} /\ sw.new = b
    \/ sw.step = "stopping" /\ sw.prev = b

\* A backend with the reservation is current, or somebody has it in hand; the switch goes
\* on only when nothing is current; and once Close has gone on, nothing is.
HandInv ==
    /\ ledger # NoBackend =>
          /\ back[ledger].once # "done"
          /\ cur = ledger \/ back[ledger].watch = "crashed" \/ Switching(ledger) \/ Ending(ledger)
    /\ sw.step = "preflight" => cur \in {NoBackend, sw.prev}
    /\ sw.step \in {"stopping", "start", "loading", "install", "undo"} => cur = NoBackend
    /\ closer.pc \in {"stopping", "closed"} => sw = NoSwitch /\ cur = NoBackend

\* A pump leaves the switch that is in flight.
LEMMA PumpKeepsSwitch ==
    ASSUME NEW q, NEW a, NEW rq, NEW c, NEW s, NEW held, NEW stops,
           Pump(q, a, rq, c, s, held, stops), s # NoSwitch
    PROVE  sw' = s
  BY DEF Pump

\* A section that ends with a pump leaves the switch where it is, unless it was done.
LEMMA PumpActionSwitch ==
    ASSUME IInv, PumpAction, sw.step \notin {"none", "tried"}
    PROVE  sw' \in {sw, Cancelled(sw)}
  <1>1. sw \in SwitchSet /\ sw # NoSwitch
    BY DEF IInv, QueueInv, Agree, NoSwitch
  <1>2. Cancelled(sw) # NoSwitch
    BY <1>1, CancelledFields
  <1>3. ASSUME NEW r \in Requests,
               (\E t \in Targets : Acquire(r, t)) \/ Release(r) \/ Cancel(r) \/ Timeout(r)
        PROVE  sw' = sw
    BY <1>1, <1>3, PumpKeepsSwitch DEF Acquire, Release, Cancel, Timeout
  <1>4. CASE SwFinish
    BY <1>4 DEF SwFinish
  <1>5. ASSUME NEW b \in Backends, WatchPump(b)
        PROVE  sw' = sw
    BY <1>1, <1>5, PumpKeepsSwitch DEF WatchPump
  <1>6. ASSUME NEW u \in Unloaders, UnloadGivesUp(u) \/ UnloadEnds(u)
        PROVE  sw' = sw
    BY <1>1, <1>6, PumpKeepsSwitch DEF UnloadGivesUp, UnloadEnds, EndUnload
  <1>7. CASE Unclaim
    BY <1>1, <1>7, PumpKeepsSwitch DEF Unclaim
  <1>8. CASE StopLoads
    BY <1>2, <1>8, PumpKeepsSwitch DEF StopLoads
  <1>9. QED
    BY <1>3, <1>4, <1>5, <1>6, <1>7, <1>8 DEF PumpAction

\* A section that ends with a pump stops waiting for a backend only when it is down.
LEMMA PumpActionEnding ==
    ASSUME IInv, PumpAction, NEW b \in Backends, back[b].once # "done"
    PROVE  /\ Ending(b) => Ending(b)'
           /\ back[b].watch = "crashed" => back'[b].watch = "crashed"
  <1>1. /\ unl \in [Unloaders -> [pc : {"idle", "drain", "stop"}, b : AnyBackend]]
        /\ back \in BackSet
    BY BackFacts DEF IInv, TypeOK
  <1>2. UNCHANGED <<emergency, closer>>
    BY PumpActionSteps DEF PumpedStep, PumpFrame
  <1>3. back[b].watch = "crashed" => back'[b].watch = "crashed"
    <2>1. ASSUME NEW x \in Backends, WatchPump(x)
          PROVE  back' = [back EXCEPT ![x].watch = "off"] /\ back[x].once = "done"
      BY <2>1 DEF WatchPump
    <2>2. ASSUME NEW x \in Backends, back' = [back EXCEPT ![x].watch = "off"], x # b
          PROVE  back'[b] = back[b]
      BY <1>1, <2>2 DEF BackSet
    <2>3. back' = back \/ \E x \in Backends : WatchPump(x)
      BY DEF PumpAction, Acquire, Release, Cancel, Timeout, SwFinish, UnloadGivesUp, UnloadEnds,
             Unclaim, StopLoads
    <2>4. QED
      BY <2>1, <2>2, <2>3
  <1>4. claimer.pc = "stop" /\ claimer.b = b => claimer' = claimer
    BY DEF PumpAction, Acquire, Release, Cancel, Timeout, SwFinish, WatchPump, UnloadGivesUp,
           UnloadEnds, Unclaim, StopLoads, holdVars
  <1>5. ASSUME NEW u \in Unloaders, unl[u].pc = "stop", unl[u].b = b
        PROVE  unl'[u] = unl[u]
    <2>1. ASSUME NEW x \in Unloaders, UnloadGivesUp(x) \/ UnloadEnds(x)
          PROVE  unl' = [unl EXCEPT ![x] = AtRest("idle")] /\ x # u
      BY <1>5, <2>1 DEF UnloadGivesUp, UnloadEnds, EndUnload
    <2>2. unl' = unl \/ \E x \in Unloaders : UnloadGivesUp(x) \/ UnloadEnds(x)
      BY DEF PumpAction, Acquire, Release, Cancel, Timeout, SwFinish, WatchPump, Unclaim,
             StopLoads, holdVars
    <2>3. QED
      BY <1>1, <2>1, <2>2
  <1>6. QED
    BY <1>2, <1>3, <1>4, <1>5 DEF Ending

\* A stop leaves every other backend, and does not end its own yet.
LEMMA DetachHand ==
    ASSUME back \in BackSet, NEW b, Detach(b)
    PROVE  \A x \in Backends : /\ back[x].once # "done" => back'[x].once # "done"
                               /\ back[x].watch = "crashed" => back'[x].watch = "crashed"
  <1>1. /\ back' = [back EXCEPT ![b].once = IF @ = "no" THEN "running" ELSE @,
                                ![b].watch = IF @ = "on" THEN "off" ELSE @]
        /\ \A x \in Backends \ {b} : back'[x] = back[x]
    BY DetachFacts DEF Detach
  <1>2. ASSUME b \in Backends
        PROVE  /\ back'[b].once = IF back[b].once = "no" THEN "running" ELSE back[b].once
               /\ back'[b].watch = IF back[b].watch = "on" THEN "off" ELSE back[b].watch
    BY <1>1, <1>2 DEF BackSet
  <1> SUFFICES ASSUME NEW x \in Backends
               PROVE  /\ back[x].once # "done" => back'[x].once # "done"
                      /\ back[x].watch = "crashed" => back'[x].watch = "crashed"
    OBVIOUS
  <1>3. CASE x = b
    BY <1>2, <1>3
  <1>4. CASE x # b
    <2>1. back'[x] = back[x]
      BY <1>1, <1>4
    <2>2. QED
      BY <2>1
  <1>5. QED
    BY <1>3, <1>4

\* A step of the switch takes a backend in hand, hands it on, or finds it down.
LEMMA SwitchHand ==
    ASSUME IInv, HandInv, SwitchStep
    PROVE  HandInv'
  <1>0. /\ sw \in SwitchSet /\ back \in BackSet /\ cur \in AnyBackend /\ ledger \in AnyBackend
        /\ NoBackend \notin Backends /\ (ledger # NoBackend => ledger \in Backends)
        /\ (cur # NoBackend => cur \in Backends /\ ledger = cur /\ back[cur].once = "no")
    BY BackFacts DEF IInv, QueueInv, Agree, AnyBackend
  <1>1. /\ UNCHANGED <<holdVars, endVars>> /\ sw # NoSwitch /\ sw' \in SwitchSet
        /\ closer'.pc \notin {"stopping", "closed"}
    BY SwitchStepFacts DEF HandInv, endVars
  <1>2. \A b \in Backends : Ending(b)' <=> Ending(b)
    BY <1>1 DEF Ending, holdVars, endVars
  <1>3. ASSUME UNCHANGED <<cur, back, ledger>>,
               sw'.step \in {"start", "tried", "check", "preflight"},
               ledger # NoBackend => ~Switching(ledger),
               sw'.step = "preflight" => cur = sw'.prev,
               sw'.step = "start" => cur = NoBackend
        PROVE  HandInv'
    BY <1>0, <1>1, <1>2, <1>3 DEF HandInv
  <1>4. CASE SwCheck
    <2>1. sw.step = "check" /\ UNCHANGED <<cur, back, ledger>>
      BY <1>4 DEF SwCheck
    <2>2. \/ sw' = [sw EXCEPT !.step = IF cur = NoBackend THEN "start" ELSE "preflight",
                              !.prev = cur,
                              !.from = IF cur = NoBackend THEN NoTarget ELSE back[cur].tgt]
          \/ sw' = Tried(sw, "failed")
      BY <1>4 DEF SwCheck
    <2>3. sw'.step \in {"start", "preflight", "tried"} /\ (sw'.step = "preflight" => cur = sw'.prev)
          /\ (sw'.step = "start" => cur = NoBackend)
      <3>1. ASSUME sw' = [sw EXCEPT !.step = IF cur = NoBackend THEN "start" ELSE "preflight",
                              !.prev = cur,
                              !.from = IF cur = NoBackend THEN NoTarget ELSE back[cur].tgt]
            PROVE  sw'.step = (IF cur = NoBackend THEN "start" ELSE "preflight") /\ sw'.prev = cur
        BY <1>0, <3>1 DEF SwitchSet
      <3>2. sw' = Tried(sw, "failed") => sw'.step = "tried"
        BY <1>0, TriedFields
      <3>3. QED
        BY <2>2, <3>1, <3>2
    <2>4. QED
      BY <1>3, <2>1, <2>3 DEF Switching
  <1>5. CASE SwPreflight
    <2>1. sw.step = "preflight" /\ ledger' = ledger /\ cur \in {NoBackend, sw.prev}
      BY <1>5 DEF SwPreflight, HandInv
    <2>2. CASE sw' = [sw EXCEPT !.step = "stopping"] /\ Detach(sw.prev)
      <3>1. sw'.step = "stopping" /\ sw'.prev = sw.prev
        BY <1>0, <2>2 DEF SwitchSet
      <3>2. cur' = NoBackend
        BY <2>1, <2>2 DEF Detach
      <3>3. \A x \in Backends : /\ back[x].once # "done" => back'[x].once # "done"
                                /\ back[x].watch = "crashed" => back'[x].watch = "crashed"
        BY <1>0, <2>2, DetachHand
      <3>4. QED
        BY <1>0, <1>1, <1>2, <2>1, <3>1, <3>2, <3>3 DEF HandInv, Switching
    <2>3. CASE sw' = Tried(sw, "refused") /\ UNCHANGED <<cur, back>>
      <3>1. sw'.step = "tried"
        BY <1>0, <2>3, TriedFields
      <3>2. QED
        BY <1>3, <2>1, <2>3, <3>1 DEF Switching
    <2>4. QED
      BY <1>5, <2>2, <2>3 DEF SwPreflight
  <1>6. CASE SwStopped
    <2>1. sw.step = "stopping" /\ back[sw.prev].once = "done" /\ UNCHANGED <<cur, back, ledger>>
      BY <1>6 DEF SwStopped
    <2>2. \/ sw' = [sw EXCEPT !.step = "start"]
          \/ sw' = [sw EXCEPT !.step = "start", !.restoring = TRUE, !.err = "refused"]
      BY <1>6 DEF SwStopped
    <2>3. sw'.step = "start"
      BY <1>0, <2>2 DEF SwitchSet
    <2>4. QED
      BY <1>3, <2>1, <2>3 DEF HandInv, Switching
  <1>7. CASE SwStart
    <2>1. sw.step = "start" /\ cur' = cur /\ cur = NoBackend
      BY <1>7 DEF SwStart, HandInv
    <2>2. CASE /\ UNCHANGED <<back, ledger>>
               /\ \/ sw' = Tried(sw, "cancelled")
                  \/ \E e \in {"failed", "refused", "collision"} : sw' = StartFailed(e)
      <3>1. sw'.step \in {"tried", "start"}
        BY <1>0, <2>2, TriedFields, StartFailedFields
      <3>2. QED
        BY <1>3, <2>1, <2>2, <3>1 DEF Switching
    <2>3. ASSUME NEW b \in Backends, ledger' = b, sw' = [sw EXCEPT !.step = "loading", !.new = b],
                 back' = [back EXCEPT ![b] = [Unused EXCEPT !.proc = "loading",
                              !.tgt = IF sw.restoring THEN sw.from ELSE sw.tgt]]
          PROVE  HandInv'
      <3>1. sw'.step = "loading" /\ sw'.new = b
        BY <1>0, <2>3 DEF SwitchSet
      <3>2. back'[b].once = "no"
        BY <1>0, <2>3 DEF BackSet, Unused
      <3>3. QED
        BY <1>1, <2>1, <2>3, <3>1, <3>2 DEF HandInv, Switching
    <2>4. QED
      BY <1>7, <2>2, <2>3 DEF SwStart
  <1>8. CASE SwLoad
    <2>1. sw.step = "loading" /\ cur' = cur /\ cur = NoBackend
      BY <1>8 DEF SwLoad, HandInv
    <2>2. CASE sw' = [sw EXCEPT !.step = "install"] /\ back' = [back EXCEPT ![sw.new].proc = "up"]
               /\ ledger' = ledger
      <3>1. sw'.step = "install" /\ sw'.new = sw.new
        BY <1>0, <2>2 DEF SwitchSet
      <3>2. \A x \in Backends : back'[x].once = back[x].once /\ back'[x].watch = back[x].watch
        BY <1>0, <2>2 DEF BackSet
      <3>3. QED
        BY <1>0, <1>1, <1>2, <2>1, <2>2, <3>1, <3>2 DEF HandInv, Switching
    <2>3. CASE sw' = [StartFailed("failed") EXCEPT !.new = NoBackend] /\ ledger' = NoBackend
      <3>1. sw'.step \in {"tried", "start"}
        BY <1>0, <2>3, StartFailedFields DEF SwitchSet
      <3>2. QED
        BY <1>1, <2>1, <2>3, <3>1 DEF HandInv
    <2>4. QED
      BY <1>8, <2>2, <2>3 DEF SwLoad
  <1>9. CASE SwInstall
    <2>1. /\ sw.step = "install" /\ ledger' = ledger /\ cur = NoBackend
          /\ sw.new \in Backends /\ ledger = sw.new
      BY <1>9, BackFacts DEF SwInstall, Starting
    <2>2. CASE Detach(sw.new) /\ sw' = [sw EXCEPT !.step = "undo"]
      <3>1. sw'.step = "undo" /\ sw'.new = sw.new
        BY <1>0, <2>2 DEF SwitchSet
      <3>2. cur' = NoBackend
        BY <2>1, <2>2 DEF Detach
      <3>3. back[sw.new].once # "done" => back'[sw.new].once # "done"
        BY <1>0, <2>1, <2>2, DetachHand
      <3>4. QED
        BY <1>1, <2>1, <3>1, <3>2, <3>3 DEF HandInv, Switching
    <2>3. CASE cur' = sw.new /\ back' = [back EXCEPT ![sw.new].watch = "on"]
               /\ sw' = [Tried(sw, "none") EXCEPT !.new = NoBackend]
      <3>1. sw'.step = "tried"
        BY <1>0, <2>3, TriedFields DEF SwitchSet
      <3>2. back'[sw.new].once = back[sw.new].once
        BY <1>0, <2>1, <2>3 DEF BackSet
      <3>3. QED
        BY <1>1, <2>1, <2>3, <3>1, <3>2 DEF HandInv
    <2>4. QED
      BY <1>9, <2>2, <2>3 DEF SwInstall
  <1>10. CASE SwUndone
    <2>1. sw.step = "undo" /\ back[sw.new].once = "done" /\ UNCHANGED <<cur, back, ledger>>
      BY <1>10 DEF SwUndone
    <2>2. sw'.step = "tried"
      BY <1>0, <1>10, TriedFields DEF SwUndone, SwitchSet
    <2>3. QED
      BY <1>3, <2>1, <2>2 DEF HandInv, Switching
  <1>11. CASE SwRetry
    <2>1. sw.step = "tried" /\ sw' = [NewSwitch(sw.tgt) EXCEPT !.retried = TRUE]
          /\ UNCHANGED <<cur, back, ledger>> /\ sw.tgt \in AnyTarget
      BY <1>0, <1>11 DEF SwRetry, SwitchSet
    <2>2. sw'.step = "check"
      BY <2>1, NewSwitchFields DEF SwitchSet
    <2>3. QED
      BY <1>3, <2>1, <2>2 DEF Switching
  <1>12. QED
    BY <1>4, <1>5, <1>6, <1>7, <1>8, <1>9, <1>10, <1>11 DEF SwitchStep

\* So does a stop, a claim or a watcher.
LEMMA CalmHand ==
    ASSUME IInv, HandInv, CalmAction
    PROVE  HandInv'
  <1>0. /\ back \in BackSet /\ cur \in AnyBackend /\ ledger \in AnyBackend
        /\ NoBackend \notin Backends /\ (ledger # NoBackend => ledger \in Backends)
        /\ (cur # NoBackend => cur \in Backends /\ ledger = cur /\ back[cur].once = "no")
        /\ unl \in [Unloaders -> [pc : {"idle", "drain", "stop"}, b : AnyBackend]]
    BY BackFacts DEF IInv, TypeOK, AnyBackend
  <1>1. /\ sw' = sw /\ cur' \in {cur, NoBackend}
        /\ \A b : Switching(b)' <=> Switching(b)
    BY CalmActionFacts DEF Calm, CalmBack, pumped, Switching
  <1>2. closer'.pc \in {"stopping", "closed"} => sw' = NoSwitch /\ cur' = NoBackend
    BY <1>0, <1>1 DEF CalmAction, HandInv, FinishStop, Crash, WatchCrash, UnloadStops, ClaimIdle,
                      StopClaimed, EmergencyDetach, EmergencyEnds, CloseStops, CloseEnds, Detach,
                      endVars, AtRest
  <1>3. ASSUME ledger' \in AnyBackend,
               \A x \in Backends : x = ledger' =>
                  /\ back'[x].once # "done"
                  /\ cur' = x \/ back'[x].watch = "crashed" \/ Switching(x)' \/ Ending(x)'
        PROVE  HandInv'
    <2>1. ASSUME ledger' # NoBackend
          PROVE  /\ back'[ledger'].once # "done"
                 /\ \/ cur' = ledger' \/ back'[ledger'].watch = "crashed"
                    \/ Switching(ledger)' \/ Ending(ledger)'
      <3>1. PICK x \in Backends : x = ledger'
        BY <1>3, <2>1 DEF AnyBackend
      <3>2. back'[x].once # "done" /\ (cur' = x \/ back'[x].watch = "crashed" \/ Switching(x)' \/ Ending(x)')
        BY <1>3, <3>1
      <3>3. (Switching(x)' => Switching(ledger)') /\ (Ending(x)' => Ending(ledger)')
        BY <3>1 DEF Switching, Ending
      <3>4. QED
        BY <3>1, <3>2, <3>3
    <2>2. QED
      BY <1>1, <1>2, <2>1 DEF HandInv
  <1>h. \A x \in Backends : x = ledger =>
           /\ back[x].once # "done"
           /\ cur = x \/ back[x].watch = "crashed" \/ Switching(x) \/ Ending(x)
    BY <1>0 DEF HandInv
  <1>4. ASSUME NEW b, Detach(b), ledger' = ledger,
               \A x \in Backends : Ending(x) \/ (x = b /\ x = cur) => Ending(x)'
        PROVE  HandInv'
    <2>1. \A x \in Backends : /\ back[x].once # "done" => back'[x].once # "done"
                              /\ back[x].watch = "crashed" => back'[x].watch = "crashed"
      BY <1>0, <1>4, DetachHand
    <2>2. cur' = IF cur = b THEN NoBackend ELSE cur
      BY <1>4 DEF Detach
    <2>3. QED
      BY <1>0, <1>1, <1>3, <1>4, <1>h, <2>1, <2>2
  <1>5. ASSUME UNCHANGED <<cur, back, ledger>>,
               \A x \in Backends : Ending(x) /\ back[x].once # "done" => Ending(x)'
        PROVE  HandInv'
    BY <1>0, <1>1, <1>3, <1>5, <1>h
  <1>6. ASSUME NEW b \in Backends, FinishStop(b)
        PROVE  HandInv'
    <2>1. ledger' # NoBackend => ledger' = ledger /\ ledger # b
      BY <1>6 DEF FinishStop
    <2>2. \A x \in Backends \ {b} : back'[x] = back[x]
      BY <1>0, <1>6 DEF FinishStop, BackSet
    <2>3. cur' = cur /\ \A x \in Backends : Ending(x)' <=> Ending(x)
      BY <1>6 DEF FinishStop, Ending, holdVars, endVars
    <2>4. QED
      BY <1>0, <1>1, <1>3, <1>h, <2>1, <2>2, <2>3 DEF AnyBackend
  <1>7. ASSUME NEW b \in Backends, Crash(b)
        PROVE  HandInv'
    <2>1. \A x \in Backends : back'[x].once = back[x].once /\ back'[x].watch = back[x].watch
      BY <1>0, <1>7 DEF Crash, BackSet
    <2>2. UNCHANGED <<cur, ledger>> /\ \A x \in Backends : Ending(x)' <=> Ending(x)
      BY <1>7 DEF Crash, Ending, holdVars, endVars
    <2>3. QED
      BY <1>0, <1>1, <1>3, <1>h, <2>1, <2>2
  <1>8. ASSUME NEW b \in Backends, WatchCrash(b)
        PROVE  HandInv'
    <2>1. back' = [back EXCEPT ![b].watch = "crashed",
                               ![b].once = IF @ = "no" THEN "running" ELSE @]
          /\ ledger' = ledger /\ cur = b
      BY <1>8 DEF WatchCrash
    <2>2. back'[b].watch = "crashed" /\ back'[b].once # "done"
      BY <1>0, <2>1 DEF BackSet
    <2>3. QED
      BY <1>0, <1>3, <2>1, <2>2
  <1>9. ASSUME NEW u \in Unloaders, UnloadStops(u)
        PROVE  HandInv'
    <2>1. /\ unl' = [unl EXCEPT ![u].pc = "stop"] /\ unl[u].pc = "drain" /\ cur = unl[u].b
          /\ Detach(unl[u].b) /\ UNCHANGED <<ledger, claimer, endVars>>
      BY <1>9 DEF UnloadStops
    <2>2. unl'[u].pc = "stop" /\ unl'[u].b = unl[u].b /\ \A x \in Unloaders \ {u} : unl'[x] = unl[x]
      BY <1>0, <2>1
    <2>3. \A x \in Backends : Ending(x) \/ x = cur => Ending(x)'
      BY <2>1, <2>2 DEF Ending, endVars
    <2>4. QED
      BY <1>4, <2>1, <2>3
  <1>10. CASE ClaimIdle
    BY <1>5, <1>10 DEF ClaimIdle, Ending, endVars
  <1>11. CASE StopClaimed
    <2>1. \A x \in Backends : Ending(x) \/ x = cur => Ending(x)'
      BY <1>11 DEF StopClaimed, Ending, endVars
    <2>2. QED
      BY <1>4, <1>11, <2>1 DEF StopClaimed
  <1>12. CASE EmergencyDetach
    <2>1. emergency \in [pc : {"idle", "found", "stop"}, b : AnyBackend]
      BY DEF IInv, TypeOK
    <2>2. emergency'.pc = "stop" /\ emergency'.b = emergency.b
      BY <1>12, <2>1 DEF EmergencyDetach
    <2>3. \A x \in Backends : Ending(x) \/ x = emergency.b => Ending(x)'
      BY <1>12, <2>2 DEF EmergencyDetach, Ending, holdVars
    <2>4. QED
      BY <1>4, <1>12, <2>3 DEF EmergencyDetach
  <1>13. CASE EmergencyEnds
    BY <1>5, <1>13 DEF EmergencyEnds, Ending, holdVars
  <1>14. CASE CloseStops
    <2>1. closer.pc = "waiting" /\ closer' = [pc |-> "stopping", b |-> cur]
          /\ UNCHANGED <<ledger, holdVars, emergency>>
      BY <1>14 DEF CloseStops
    <2>2. \A x \in Backends : Ending(x) \/ x = cur => Ending(x)'
      BY <2>1 DEF Ending, holdVars
    <2>3. QED
      BY <1>4, <1>5, <1>14, <2>1, <2>2 DEF CloseStops
  <1>15. CASE CloseEnds
    BY <1>0, <1>5, <1>15 DEF CloseEnds, Ending, holdVars
  <1>16. QED
    BY <1>6, <1>7, <1>8, <1>9, <1>10, <1>11, <1>12, <1>13, <1>14, <1>15 DEF CalmAction

\* Every step keeps it.
LEMMA NextHandInv ==
    ASSUME IInv, HandInv, Next
    PROVE  HandInv'
  <1>0. /\ sw \in SwitchSet /\ ledger \in AnyBackend /\ NoSwitch.step = "none"
        /\ (ledger # NoBackend => ledger \in Backends)
        /\ unl \in [Unloaders -> [pc : {"idle", "drain", "stop"}, b : AnyBackend]]
    BY DEF IInv, TypeOK, QueueInv, Agree, AnyBackend, NoSwitch
  <1>1. CASE PumpAction
    <2>1. /\ UNCHANGED <<cur, ledger, emergency, closer>>
          /\ \A b \in Backends : back'[b].once = back[b].once
          /\ closed => Held'
          /\ sw' \in {sw, Cancelled(sw), NoSwitch} \/ (~Held' /\ sw'.step = "check")
      BY <1>1, PumpActionSteps DEF PumpedStep, PumpFrame, Held, closed
    <2>2. sw.step \notin {"none", "tried"} =>
            /\ sw'.step = sw.step /\ sw'.new = sw.new /\ sw'.prev = sw.prev
      BY <1>0, <1>1, PumpActionSwitch, CancelledFields
    <2>3. sw.step \in {"none", "tried"} => sw'.step \in {"none", "tried", "check"}
      BY <1>0, <2>1, CancelledFields
    <2>4. closer'.pc \in {"stopping", "closed"} => sw' = NoSwitch /\ cur' = NoBackend
      BY <1>0, <2>1, CancelledFields DEF HandInv, closed
    <2>5. ledger # NoBackend /\ Switching(ledger) => Switching(ledger)'
      BY <2>1, <2>2 DEF Switching
    <2>6. ledger # NoBackend =>
            /\ Ending(ledger) => Ending(ledger)'
            /\ back[ledger].watch = "crashed" => back'[ledger].watch = "crashed"
      <3>1. \A x \in Backends : back[x].once # "done" =>
               /\ Ending(x) => Ending(x)'
               /\ back[x].watch = "crashed" => back'[x].watch = "crashed"
        BY <1>1, PumpActionEnding
      <3>2. \A x \in Backends : x = ledger => (Ending(ledger) => Ending(x)) /\ (Ending(x)' => Ending(ledger)')
        BY <2>1 DEF Ending
      <3>3. QED
        BY <1>0, <3>1, <3>2 DEF HandInv
    <2>7. QED
      BY <1>0, <2>1, <2>2, <2>3, <2>4, <2>5, <2>6 DEF HandInv
  <1>2. CASE CutAction
    <2>1. UNCHANGED <<cur, back, ledger, claimer>> /\ sw' \in {sw, Cancelled(sw)}
      BY <1>2, CutActionFacts DEF Cut
    <2>2. /\ sw'.step = sw.step /\ sw'.new = sw.new /\ sw'.prev = sw.prev
          /\ (sw = NoSwitch => sw' = NoSwitch)
      BY <1>0, <2>1, CancelledFields
    <2>3. closer'.pc \in {"stopping", "closed"} => closer' = closer
      <3>1. ASSUME NEW u \in Unloaders, NEW m, BeginUnload(u, m)
            PROVE  closer' = closer
        BY <3>1 DEF BeginUnload, endVars
      <3>2. EmergencyStop => closer' = closer
        BY DEF EmergencyStop
      <3>3. BeginClose => closer'.pc = "waiting"
        BY DEF BeginClose, AtRest
      <3>4. QED
        BY <1>2, <3>1, <3>2, <3>3 DEF CutAction
    <2>4. \A b \in Backends : Ending(b) => Ending(b)'
      <3>1. closer.pc = "stopping" => closer' = closer
        BY <1>2 DEF CutAction, BeginUnload, EmergencyStop, BeginClose, endVars
      <3>2. emergency.pc = "stop" => emergency' = emergency
        BY <1>2 DEF CutAction, BeginUnload, EmergencyStop, BeginClose, endVars
      <3>3. ASSUME NEW u \in Unloaders, unl[u].pc = "stop"
            PROVE  unl'[u] = unl[u]
        <4>1. ASSUME NEW x \in Unloaders, NEW m, BeginUnload(x, m)
              PROVE  x # u /\ unl' = [unl EXCEPT ![x] = [pc |-> "drain", b |-> cur]]
          BY <3>3, <4>1 DEF BeginUnload, AtRest
        <4>2. unl' = unl \/ \E x \in Unloaders, m \in {t.model : t \in Targets} : BeginUnload(x, m)
          BY <1>2 DEF CutAction, EmergencyStop, BeginClose, holdVars
        <4>3. QED
          BY <1>0, <4>1, <4>2
      <3>4. QED
        BY <2>1, <3>1, <3>2, <3>3 DEF Ending
    <2>5. QED
      BY <1>0, <2>1, <2>2, <2>3, <2>4 DEF HandInv, Switching
  <1>3. ASSUME NEW r \in Requests, Receive(r)
        PROVE  HandInv'
    BY <1>3 DEF Receive, HandInv, Switching, Ending, holdVars, endVars
  <1>4. QED
    BY <1>1, <1>2, <1>3, SwitchHand, CalmHand, NextKinds

\* A reservation is never left with nobody to give it back.
LEMMA HandInvariance == Spec => [](IInv /\ HandInv)
  <1>1. Init => HandInv
    BY DEF Init, HandInv, AtRest, NoSwitch
  <1>2. IInv /\ HandInv /\ [Next]_vars => HandInv'
    <2>1. ASSUME IInv, HandInv, UNCHANGED vars
          PROVE  HandInv'
      BY <2>1 DEF HandInv, Switching, Ending, vars, pumped, holdVars, endVars
    <2>2. QED
      BY <2>1, NextHandInv
  <1>3. QED
    BY <1>1, <1>2, Invariance, PTL DEF Spec

-----------------------------------------------------------------------------
(* Close, and who may still be at work when it returns *)

\* Once Close has returned, no watcher has a backend to release.
CloseInv == closer.pc = "closed" => \A b \in Backends : back[b].watch # "crashed"

\* A stop never makes a watcher see a crash.
LEMMA DetachWatch ==
    ASSUME back \in BackSet, NEW b, Detach(b), NEW x \in Backends
    PROVE  back'[x].watch = "crashed" => back[x].watch = "crashed"
  <1>1. /\ back' = [back EXCEPT ![b].once = IF @ = "no" THEN "running" ELSE @,
                                ![b].watch = IF @ = "on" THEN "off" ELSE @]
        /\ \A y \in Backends \ {b} : back'[y] = back[y]
    BY DetachFacts DEF Detach
  <1>2. CASE x = b
    <2>1. back'[x].watch = IF back[x].watch = "on" THEN "off" ELSE back[x].watch
      BY <1>1, <1>2 DEF BackSet
    <2>2. QED
      BY <2>1
  <1>3. CASE x # b
    <2>1. back'[x] = back[x]
      BY <1>1, <1>3
    <2>2. QED
      BY <2>1
  <1>4. QED
    BY <1>2, <1>3

\* No step but a watcher's own makes it see a crash, and that step needs a backend that
\* is current.
LEMMA NoNewCrash ==
    ASSUME IInv, Next, NEW x \in Backends, back'[x].watch = "crashed"
    PROVE  back[x].watch = "crashed" \/ WatchCrash(x)
  <1>0. back \in BackSet
    BY BackFacts
  <1>1. ASSUME NEW b, Detach(b)
        PROVE  back[x].watch = "crashed"
    BY <1>0, <1>1, DetachWatch
  <1>2. CASE back' = back
    BY <1>2
  <1>3. CASE PumpAction
    <2>1. ASSUME NEW b \in Backends, WatchPump(b)
          PROVE  back[x].watch = "crashed"
      BY <1>0, <2>1 DEF WatchPump, BackSet
    <2>2. back' = back \/ \E b \in Backends : WatchPump(b)
      BY <1>3 DEF PumpAction, Acquire, Release, Cancel, Timeout, SwFinish, UnloadGivesUp,
                  UnloadEnds, Unclaim, StopLoads
    <2>3. QED
      BY <1>2, <2>1, <2>2
  <1>4. CASE SwitchStep
    <2>1. CASE SwStart
      <3>1. ASSUME NEW b \in Backends,
                   back' = [back EXCEPT ![b] = [Unused EXCEPT !.proc = "loading",
                              !.tgt = IF sw.restoring THEN sw.from ELSE sw.tgt]]
            PROVE  back[x].watch = "crashed"
        BY <1>0, <3>1 DEF BackSet, Unused
      <3>2. QED
        BY <1>2, <2>1, <3>1 DEF SwStart
    <2>2. CASE SwLoad
      <3>1. sw.new \in Backends
        BY <2>2, BackFacts DEF SwLoad, Starting
      <3>2. back' = [back EXCEPT ![sw.new].proc = "up"] \/ back' = [back EXCEPT ![sw.new] = Unused]
        BY <2>2 DEF SwLoad
      <3>3. QED
        BY <1>0, <3>1, <3>2 DEF BackSet, Unused
    <2>3. CASE SwInstall
      <3>1. sw.new \in Backends
        BY <2>3, BackFacts DEF SwInstall, Starting
      <3>2. Detach(sw.new) \/ back' = [back EXCEPT ![sw.new].watch = "on"]
        BY <2>3 DEF SwInstall
      <3>3. ASSUME back' = [back EXCEPT ![sw.new].watch = "on"]
            PROVE  back[x].watch = "crashed"
        BY <1>0, <3>1, <3>3 DEF BackSet
      <3>4. QED
        BY <1>1, <3>2, <3>3
    <2>4. back' = back \/ (\E b : Detach(b)) \/ SwStart \/ SwLoad \/ SwInstall
      BY <1>4 DEF SwitchStep, SwCheck, SwPreflight, SwStopped, SwUndone, SwRetry
    <2>5. QED
      BY <1>1, <1>2, <2>1, <2>2, <2>3, <2>4
  <1>5. CASE CalmAction
    <2>1. ASSUME NEW b \in Backends, FinishStop(b) \/ Crash(b)
          PROVE  back[x].watch = "crashed"
      <3>1. \/ back' = [back EXCEPT ![b].once = "done", ![b].proc = "gone"]
            \/ back' = [back EXCEPT ![b].proc = "gone"]
        BY <2>1 DEF FinishStop, Crash
      <3>2. QED
        BY <1>0, <3>1 DEF BackSet
    <2>2. ASSUME NEW b \in Backends, WatchCrash(b)
          PROVE  back[x].watch = "crashed" \/ b = x
      <3>1. back' = [back EXCEPT ![b].watch = "crashed",
                                 ![b].once = IF @ = "no" THEN "running" ELSE @]
        BY <2>2 DEF WatchCrash
      <3>2. QED
        BY <1>0, <3>1 DEF BackSet
    <2>3. \/ \E b \in Backends : FinishStop(b) \/ Crash(b) \/ WatchCrash(b)
          \/ back' = back \/ \E b : Detach(b)
      BY <1>5 DEF CalmAction, UnloadStops, ClaimIdle, StopClaimed, EmergencyDetach, EmergencyEnds,
                  CloseStops, CloseEnds
    <2>4. QED
      BY <1>1, <1>2, <2>1, <2>2, <2>3
  <1>6. CASE CutAction
    BY <1>2, <1>6, CutActionFacts DEF Cut
  <1>7. ASSUME NEW r \in Requests, Receive(r)
        PROVE  back[x].watch = "crashed"
    BY <1>2, <1>7 DEF Receive
  <1>8. QED
    BY <1>3, <1>4, <1>5, <1>6, <1>7, NextKinds

\* Every step keeps it.
LEMMA NextCloseInv ==
    ASSUME IInv, HandInv, CloseInv, Next
    PROVE  CloseInv'
  <1> SUFFICES ASSUME closer'.pc = "closed", NEW x \in Backends, back'[x].watch = "crashed"
               PROVE  FALSE
    BY DEF CloseInv
  <1>1. closer' = closer \/ CloseEnds
    <2>1. ASSUME NEW u \in Unloaders, NEW m, BeginUnload(u, m)
          PROVE  closer' = closer
      BY <2>1 DEF BeginUnload, endVars
    <2>2. CutAction => closer' = closer
      <3>1. BeginClose => closer'.pc = "waiting"
        BY DEF BeginClose, AtRest
      <3>2. EmergencyStop => closer' = closer
        BY DEF EmergencyStop
      <3>3. QED
        BY <2>1, <3>1, <3>2 DEF CutAction
    <2>3. SwitchStep => closer' = closer
      BY SwitchStepFacts DEF endVars
    <2>4. PumpAction => closer' = closer
      BY PumpActionSteps DEF PumpedStep, PumpFrame
    <2>5. CalmAction => closer' = closer \/ CloseEnds
      <3>1. CloseStops => closer'.pc = "stopping"
        BY DEF CloseStops
      <3>2. ASSUME NEW b \in Backends, FinishStop(b) \/ Crash(b) \/ WatchCrash(b)
            PROVE  closer' = closer
        BY <3>2 DEF FinishStop, Crash, WatchCrash, endVars
      <3>3. ASSUME NEW u \in Unloaders, UnloadStops(u)
            PROVE  closer' = closer
        BY <3>3 DEF UnloadStops, endVars
      <3>4. ClaimIdle \/ StopClaimed \/ EmergencyDetach \/ EmergencyEnds => closer' = closer
        BY DEF ClaimIdle, StopClaimed, EmergencyDetach, EmergencyEnds, endVars
      <3>5. QED
        BY <3>1, <3>2, <3>3, <3>4 DEF CalmAction
    <2>6. (\E r \in Requests : Receive(r)) => closer' = closer
      BY DEF Receive, endVars
    <2>7. QED
      BY <2>2, <2>3, <2>4, <2>5, <2>6, NextKinds
  <1>2. back[x].watch = "crashed" \/ WatchCrash(x)
    BY NoNewCrash
  <1>3. CASE CloseEnds
    BY <1>3 DEF CloseEnds
  <1>4. CASE closer' = closer
    <2>1. cur = NoBackend /\ back[x].watch # "crashed"
      BY <1>4 DEF HandInv, CloseInv
    <2>2. cur = x
      BY <1>2, <2>1 DEF WatchCrash
    <2>3. QED
      BY <2>1, <2>2, BackFacts
  <1>5. QED
    BY <1>1, <1>3, <1>4

\* Somebody Close does not wait for is stopping the backend b.
StoppedByOthers(b) ==
    \/ claimer.pc = "stop" /\ claimer.b = b
    \/ emergency.pc = "stop" /\ emergency.b = b
    \/ \E u \in Unloaders : unl[u].pc = "stop" /\ unl[u].b = b

\* When Close has returned, whatever memory is still reserved and whatever process still
\* runs is in the hands of an eviction, an emergency stop or an unload that was already
\* stopping it (Close waits for the switch, its own stop and the watchers, for no other
\* stop: CloseEnds).
THEOREM ClosedLeavesOnlyStops ==
    Spec => [](closer.pc = "closed" => /\ ledger # NoBackend => StoppedByOthers(ledger)
                                       /\ \A b \in Backends : Live(b) => StoppedByOthers(b))
  <1>1. Init => CloseInv
    BY DEF Init, CloseInv, AtRest
  <1>2. IInv /\ HandInv /\ CloseInv /\ [Next]_vars => CloseInv'
    <2>1. ASSUME CloseInv, UNCHANGED vars
          PROVE  CloseInv'
      BY <2>1 DEF CloseInv, vars, endVars
    <2>2. QED
      BY <2>1, NextCloseInv
  <1>3. ASSUME IInv, HandInv, CloseInv, closer.pc = "closed"
        PROVE  /\ ledger # NoBackend => StoppedByOthers(ledger)
               /\ \A b \in Backends : Live(b) => StoppedByOthers(b)
    <2>1. sw.step = "none" /\ cur = NoBackend
      BY <1>3 DEF HandInv, NoSwitch
    <2>2. /\ ledger \in AnyBackend /\ NoBackend \notin Backends
          /\ \A b \in Backends : Live(b) => ledger = b
      BY <1>3, BackFacts
    <2>3. ledger # NoBackend => ledger \in Backends
      BY <2>2 DEF AnyBackend
    <2>4. ledger # NoBackend => back[ledger].watch # "crashed"
      BY <1>3, <2>3 DEF CloseInv
    <2>5. ledger # NoBackend => Ending(ledger)
      BY <1>3, <2>1, <2>4 DEF HandInv, Switching
    <2>6. ledger # NoBackend => StoppedByOthers(ledger)
      BY <1>3, <2>5 DEF Ending, StoppedByOthers
    <2>7. QED
      BY <2>2, <2>6
  <1>4. QED
    BY <1>1, <1>2, <1>3, HandInvariance, PTL DEF Spec

\* Without unloads, evictions and emergency stops nobody else stops a backend.
LEMMA NobodyElseStops ==
    ASSUME Events \cap {"unload", "evict", "emergency"} = {}
    PROVE  Spec => [](claimer.pc = "idle" /\ emergency.pc = "idle"
                      /\ \A u \in Unloaders : unl[u].pc = "idle")
  <1> DEFINE Inv == claimer = AtRest("idle") /\ emergency = AtRest("idle")
                    /\ unl = [u \in Unloaders |-> AtRest("idle")]
  <1>1. Init => Inv
    BY DEF Init
  <1>2. Inv /\ [Next]_vars => Inv'
    <2> SUFFICES ASSUME Inv, [Next]_vars
                 PROVE  UNCHANGED <<claimer, emergency, unl>>
      OBVIOUS
    <2>1. \A u \in Unloaders : unl[u].pc = "idle"
      BY DEF AtRest
    <2>2. ASSUME NEW u \in Unloaders, Unload(u)
          PROVE  FALSE
      BY <2>1, <2>2 DEF Unload, BeginUnload, UnloadGivesUp, UnloadStops, UnloadEnds
    <2>3. ~Eviction /\ ~EmergencyStop /\ ~EmergencyDetach /\ ~EmergencyEnds
      BY DEF Eviction, ClaimIdle, StopClaimed, Unclaim, EmergencyStop, EmergencyDetach,
             EmergencyEnds, AtRest
    <2>4. ASSUME NEW r \in Requests, Client(r)
          PROVE  UNCHANGED <<claimer, emergency, unl>>
      BY <2>4 DEF Client, Acquire, Receive, Release, Cancel, Timeout, holdVars, endVars
    <2>5. ASSUME Switch
          PROVE  UNCHANGED <<claimer, emergency, unl>>
      BY <2>5 DEF Switch, SwCheck, SwPreflight, SwStopped, SwStart, SwLoad, SwInstall, SwUndone,
                  SwRetry, SwFinish, SwitchOnly, holdVars, endVars
    <2>6. ASSUME NEW b \in Backends, Backend(b)
          PROVE  UNCHANGED <<claimer, emergency, unl>>
      BY <2>6 DEF Backend, FinishStop, Crash, WatchCrash, WatchPump, holdVars, endVars
    <2>7. ASSUME Shutdown
          PROVE  UNCHANGED <<claimer, emergency, unl>>
      BY <2>7 DEF Shutdown, StopLoads, BeginClose, CloseStops, CloseEnds, holdVars
    <2>8. QED
      BY <2>2, <2>3, <2>4, <2>5, <2>6, <2>7 DEF Next, vars, holdVars, endVars
  <1>3. Inv => claimer.pc = "idle" /\ emergency.pc = "idle" /\ \A u \in Unloaders : unl[u].pc = "idle"
    BY DEF AtRest
  <1>4. QED
    BY <1>1, <1>2, <1>3, PTL DEF Spec

\* So then Close returns only when the runtime is down and its memory given back, whatever
\* crashes, is cancelled or is refused (Close).
THEOREM ClosedIsDown ==
    ASSUME Events \cap {"unload", "evict", "emergency"} = {}
    PROVE  Spec => []ClosedMeansDown
  <1> DEFINE Quiet == claimer.pc = "idle" /\ emergency.pc = "idle"
                      /\ \A u \in Unloaders : unl[u].pc = "idle"
             Left == closer.pc = "closed" =>
                        /\ ledger # NoBackend => StoppedByOthers(ledger)
                        /\ \A b \in Backends : Live(b) => StoppedByOthers(b)
  <1>1. Quiet /\ Left => ClosedMeansDown
    BY DEF StoppedByOthers, ClosedMeansDown
  <1>2. Spec => []Quiet
    BY NobodyElseStops
  <1>3. Spec => []Left
    BY ClosedLeavesOnlyStops
  <1>4. QED
    BY <1>1, <1>2, <1>3, PTL

-----------------------------------------------------------------------------
(* A start and the backend before it *)

\* The pump of a section leaves the switch, ends it, or begins one that has no error.
LEMMA PumpActionNew ==
    ASSUME PumpAction
    PROVE  sw' \in {sw, Cancelled(sw), NoSwitch} \/ \E t : sw' = NewSwitch(t)
  <1>1. ASSUME NEW q, NEW a, NEW rq, NEW c, NEW s, NEW held, NEW stops,
               Pump(q, a, rq, c, s, held, stops)
        PROVE  sw' = s \/ \E t : sw' = NewSwitch(t)
    BY <1>1 DEF Pump
  <1>2. ASSUME NEW r \in Requests,
               (\E t \in Targets : Acquire(r, t)) \/ Release(r) \/ Cancel(r) \/ Timeout(r)
        PROVE  sw' = sw \/ \E t : sw' = NewSwitch(t)
    BY <1>1, <1>2 DEF Acquire, Release, Cancel, Timeout
  <1>3. SwFinish => sw' = NoSwitch \/ \E t : sw' = NewSwitch(t)
    BY <1>1 DEF SwFinish
  <1>4. ASSUME NEW b \in Backends, WatchPump(b)
        PROVE  sw' = sw \/ \E t : sw' = NewSwitch(t)
    BY <1>1, <1>4 DEF WatchPump
  <1>5. ASSUME NEW u \in Unloaders, UnloadGivesUp(u) \/ UnloadEnds(u)
        PROVE  sw' = sw \/ \E t : sw' = NewSwitch(t)
    BY <1>1, <1>5 DEF UnloadGivesUp, UnloadEnds, EndUnload
  <1>6. Unclaim => sw' = sw \/ \E t : sw' = NewSwitch(t)
    BY <1>1 DEF Unclaim
  <1>7. StopLoads => sw' = Cancelled(sw) \/ \E t : sw' = NewSwitch(t)
    BY <1>1 DEF StopLoads
  <1>8. QED
    BY <1>2, <1>3, <1>4, <1>5, <1>6, <1>7 DEF PumpAction

\* A start that finds its predecessor in the way finds one that a watcher or an emergency
\* stop is still ending, and was not waited for.
LEMMA CollisionFacts ==
    ASSUME IInv, HandInv, sw.step = "start", ledger # NoBackend \/ \E b \in Backends : Live(b)
    PROVE  /\ ledger \in Backends
           /\ \/ back[ledger].watch = "crashed"
              \/ emergency.pc = "stop" /\ emergency.b = ledger
  <1>1. ledger \in Backends
    BY BackFacts DEF AnyBackend
  <1>2. cur = NoBackend /\ NoBackend \notin Backends /\ sw # NoSwitch
    BY BackFacts DEF HandInv, NoSwitch
  <1>3. ~claimed /\ closer.pc \notin {"stopping", "closed"} /\ HoldCounts
    BY <1>2, HoldsParts DEF IInv, HoldsQuiet, HandInv
  <1>4. claimer.pc = "idle" /\ Stoppers = {}
    BY <1>3, HoldsFinite, FS_EmptySet DEF HoldCounts
  <1>5. Switching(ledger) => FALSE
    BY DEF Switching
  <1>6. Ending(ledger) => emergency.pc = "stop" /\ emergency.b = ledger
    BY <1>3, <1>4 DEF Ending, Stoppers
  <1>7. QED
    BY <1>1, <1>2, <1>5, <1>6 DEF HandInv

\* Where no backend crashes and there is no emergency stop, the current backend is up, so
\* is the one about to become current, no watcher sees a crash, and no start has failed
\* for finding its predecessor.
UndisturbedInv ==
    /\ emergency.pc = "idle" /\ crashes = 0
    /\ \A b \in Backends : back[b].watch # "crashed"
    /\ \A b \in Backends : b = cur => back[b].proc = "up"
    /\ sw.step = "install" => \A b \in Backends : b = sw.new => back[b].proc = "up"
    /\ NoCollision

\* Every step keeps it.
LEMMA NextUndisturbed ==
    ASSUME MaxCrashes = 0, "emergency" \notin Events, IInv, HandInv, UndisturbedInv, Next
    PROVE  UndisturbedInv'
  <1>0. /\ sw \in SwitchSet /\ back \in BackSet /\ cur \in AnyBackend /\ NoBackend \notin Backends
        /\ sw.err # "collision" /\ NoSwitch.step = "none" /\ NoSwitch.err = "none"
        /\ \A t : NewSwitch(t).step = "check" /\ NewSwitch(t).err = "none"
        /\ emergency \in [pc : {"idle", "found", "stop"}, b : AnyBackend]
    BY BackFacts DEF IInv, TypeOK, QueueInv, Agree, UndisturbedInv, NoCollision, NoSwitch, NewSwitch
  <1>c. /\ Cancelled(sw).step = sw.step /\ Cancelled(sw).new = sw.new
        /\ Cancelled(sw).err = sw.err
    BY <1>0, CancelledFields DEF SwitchSet
  <1>d. \A b \in Backends : ~Crash(b)
    BY DEF Crash, UndisturbedInv
  <1>w. \A b \in Backends : ~WatchCrash(b)
    BY DEF WatchCrash, UndisturbedInv
  <1>1. \A b \in Backends : back'[b].watch # "crashed"
    BY <1>w, NoNewCrash DEF UndisturbedInv
  <1>2. emergency'.pc = "idle" /\ crashes' = 0
    <2>1. ~EmergencyStop /\ ~EmergencyDetach /\ ~EmergencyEnds
      BY DEF EmergencyStop, EmergencyDetach, EmergencyEnds, UndisturbedInv
    <2>2. PumpAction => UNCHANGED <<emergency, crashes>>
      BY PumpActionSteps DEF PumpedStep, PumpFrame
    <2>3. SwitchStep => UNCHANGED <<emergency, crashes>>
      BY SwitchStepFacts DEF endVars
    <2>4. CalmAction => UNCHANGED <<emergency, crashes>>
      BY <1>d, <2>1 DEF CalmAction, FinishStop, WatchCrash, UnloadStops, ClaimIdle, StopClaimed,
                        CloseStops, CloseEnds, endVars
    <2>5. CutAction => UNCHANGED <<emergency, crashes>>
      BY <2>1 DEF CutAction, BeginUnload, BeginClose, endVars
    <2>6. (\E r \in Requests : Receive(r)) => UNCHANGED <<emergency, crashes>>
      BY DEF Receive, endVars
    <2>7. QED
      BY <2>2, <2>3, <2>4, <2>5, <2>6, NextKinds DEF UndisturbedInv
  <1>3. ASSUME cur' \in {cur, NoBackend}, sw'.err # "collision",
               sw'.step = "install" => sw.step = "install" /\ sw'.new = sw.new,
               \A b \in Backends : b = cur \/ (sw.step = "install" /\ b = sw.new) =>
                  back'[b].proc = back[b].proc
        PROVE  UndisturbedInv'
    BY <1>0, <1>1, <1>2, <1>3 DEF UndisturbedInv, NoCollision
  <1>4. CASE PumpAction
    <2>1. cur' = cur /\ \A b \in Backends : back'[b].proc = back[b].proc
      BY <1>4, PumpActionSteps DEF PumpedStep, PumpFrame
    <2>2. sw' \in {sw, Cancelled(sw), NoSwitch} \/ \E t : sw' = NewSwitch(t)
      BY <1>4, PumpActionNew
    <2>3. QED
      BY <1>0, <1>3, <1>c, <2>1, <2>2
  <1>5. CASE SwitchStep
    <2>1. \A e \in {"none", "failed", "refused", "cancelled"} :
             Tried(sw, e).step = "tried" /\ Tried(sw, e).err # "collision"
      BY <1>0 DEF Tried, SwitchSet
    <2>2. \A e \in {"failed", "refused"} :
             StartFailed(e).step # "install" /\ StartFailed(e).err # "collision"
      <3> SUFFICES ASSUME NEW e \in {"failed", "refused"}
                   PROVE  StartFailed(e).step # "install" /\ StartFailed(e).err # "collision"
        OBVIOUS
      <3> DEFINE again == [sw EXCEPT !.step = "start", !.restoring = TRUE, !.err = e, !.new = NoBackend]
      <3>1. again.step = "start" /\ again.err = e
        BY <1>0 DEF SwitchSet
      <3>2. StartFailed(e) = again \/ \E x \in {"failed", "refused", "cancelled"} : StartFailed(e) = Tried(sw, x)
        BY DEF StartFailed
      <3> HIDE DEF again
      <3>3. QED
        BY <2>1, <3>1, <3>2
    <2>3. CASE SwCheck \/ SwStopped \/ SwUndone \/ SwRetry
      <3>1. UNCHANGED <<cur, back>>
        BY <2>3 DEF SwCheck, SwStopped, SwUndone, SwRetry
      <3>2. sw'.step # "install" /\ sw'.err # "collision"
        <4>1. CASE SwCheck
          BY <1>0, <2>1, <4>1 DEF SwCheck, SwitchSet
        <4>2. CASE SwStopped
          BY <1>0, <4>2 DEF SwStopped, SwitchSet
        <4>3. CASE SwUndone
          <5>1. sw' = [Tried(sw, "cancelled") EXCEPT !.new = NoBackend] /\ Tried(sw, "cancelled") \in SwitchSet
            BY <1>0, <4>3, TriedFields DEF SwUndone
          <5>2. sw'.step = Tried(sw, "cancelled").step /\ sw'.err = Tried(sw, "cancelled").err
            BY <5>1 DEF SwitchSet
          <5>3. QED
            BY <2>1, <5>2
        <4>4. CASE SwRetry
          BY <4>4 DEF SwRetry, NewSwitch, NoSwitch
        <4>5. QED
          BY <2>3, <4>1, <4>2, <4>3, <4>4
      <3>3. QED
        BY <1>3, <3>1, <3>2
    <2>4. CASE SwPreflight
      <3>1. \/ sw' = [sw EXCEPT !.step = "stopping"] /\ Detach(sw.prev)
            \/ sw' = Tried(sw, "refused") /\ UNCHANGED <<cur, back>>
        BY <2>4 DEF SwPreflight
      <3>2. sw'.step # "install" /\ sw'.err # "collision"
        BY <1>0, <2>1, <3>1 DEF SwitchSet
      <3>3. Detach(sw.prev) => \A b \in Backends : back'[b].proc = back[b].proc
        BY <1>0, DetachFacts DEF Detach
      <3>4. cur' \in {cur, NoBackend}
        BY <3>1 DEF Detach
      <3>5. QED
        BY <1>3, <3>1, <3>2, <3>3, <3>4
    <2>5. CASE SwStart
      <3>1. cur = NoBackend /\ cur' = cur /\ sw.step = "start"
        BY <2>5 DEF SwStart, HandInv
      <3>2. ~(ledger # NoBackend \/ \E b \in Backends : Live(b))
        BY <3>1, CollisionFacts DEF UndisturbedInv
      <3>3. \/ sw' = Tried(sw, "cancelled")
            \/ \E e \in {"refused", "failed"} : sw' = StartFailed(e)
            \/ \E b \in Backends : sw' = [sw EXCEPT !.step = "loading", !.new = b]
        BY <2>5, <3>2 DEF SwStart
      <3>4. sw'.step # "install" /\ sw'.err # "collision"
        BY <1>0, <2>1, <2>2, <3>3 DEF SwitchSet
      <3>5. QED
        BY <1>0, <1>3, <3>1, <3>4
    <2>6. CASE SwLoad
      <3>1. sw.step = "loading" /\ cur' = cur /\ cur = NoBackend
        BY <2>6 DEF SwLoad, HandInv
      <3>2. CASE sw' = [sw EXCEPT !.step = "install"] /\ back' = [back EXCEPT ![sw.new].proc = "up"]
        <4>1. sw'.new = sw.new /\ sw'.err = sw.err
          BY <1>0, <3>2 DEF SwitchSet
        <4>2. sw.new \in Backends => back'[sw.new].proc = "up"
          BY <1>0, <3>2 DEF BackSet
        <4>3. QED
          BY <1>0, <1>1, <1>2, <3>1, <4>1, <4>2 DEF UndisturbedInv, NoCollision
      <3>3. CASE sw' = [StartFailed("failed") EXCEPT !.new = NoBackend]
        <4>1. StartFailed("failed") \in SwitchSet
          BY <1>0, StartFailedFields
        <4>2. sw'.step = StartFailed("failed").step /\ sw'.err = StartFailed("failed").err
          BY <3>3, <4>1 DEF SwitchSet
        <4>3. QED
          BY <1>0, <1>3, <2>2, <3>1, <4>2
      <3>4. QED
        BY <2>6, <3>2, <3>3 DEF SwLoad
    <2>7. CASE SwInstall
      <3>1. sw.step = "install" /\ cur = NoBackend
        BY <2>7 DEF SwInstall, HandInv
      <3>2. CASE Detach(sw.new) /\ sw' = [sw EXCEPT !.step = "undo"]
        <4>1. sw'.step = "undo" /\ sw'.err = sw.err
          BY <1>0, <3>2 DEF SwitchSet
        <4>2. cur' = NoBackend /\ \A b \in Backends : back'[b].proc = back[b].proc
          BY <1>0, <3>1, <3>2, DetachFacts DEF Detach
        <4>3. QED
          BY <1>0, <1>3, <4>1, <4>2
      <3>3. CASE cur' = sw.new /\ back' = [back EXCEPT ![sw.new].watch = "on"]
                 /\ sw' = [Tried(sw, "none") EXCEPT !.new = NoBackend]
        <4>1. sw'.step = Tried(sw, "none").step /\ sw'.err = Tried(sw, "none").err
          BY <1>0, <3>3, TriedFields DEF SwitchSet
        <4>2. \A b \in Backends : back'[b].proc = back[b].proc
          BY <1>0, <3>3 DEF BackSet
        <4>3. \A b \in Backends : b = cur' => back'[b].proc = "up"
          BY <3>1, <3>3, <4>2 DEF UndisturbedInv
        <4>4. QED
          BY <1>1, <1>2, <2>1, <4>1, <4>3 DEF UndisturbedInv, NoCollision
      <3>4. QED
        BY <2>7, <3>2, <3>3 DEF SwInstall
    <2>8. QED
      BY <1>5, <2>3, <2>4, <2>5, <2>6, <2>7 DEF SwitchStep
  <1>6. CASE CalmAction
    <2>1. sw' = sw /\ cur' \in {cur, NoBackend}
      BY <1>6, CalmActionFacts DEF Calm, CalmBack, pumped
    <2>2. ASSUME NEW b \in Backends, FinishStop(b),
                 NEW x \in Backends, x = cur \/ (sw.step = "install" /\ x = sw.new)
          PROVE  back'[x].proc = back[x].proc
      <3>1. back[x].once = "no" /\ back[b].once = "running"
        BY <1>0, <2>2, BackFacts DEF FinishStop, Starting
      <3>2. back' = [back EXCEPT ![b].once = "done", ![b].proc = "gone"] /\ x # b
        BY <2>2, <3>1 DEF FinishStop
      <3>3. QED
        BY <1>0, <3>2 DEF BackSet
    <2>3. ASSUME NEW b, Detach(b)
          PROVE  \A x \in Backends : back'[x].proc = back[x].proc
      BY <1>0, <2>3, DetachFacts DEF Detach
    <2>4. \/ \E b \in Backends : FinishStop(b)
          \/ back' = back \/ \E b : Detach(b)
      BY <1>6, <1>d, <1>w
         DEF CalmAction, UnloadStops, ClaimIdle, StopClaimed, EmergencyDetach, EmergencyEnds,
             CloseStops, CloseEnds
    <2>5. QED
      BY <1>0, <1>3, <2>1, <2>2, <2>3, <2>4
  <1>7. CASE CutAction
    <2>1. UNCHANGED <<cur, back>> /\ sw' \in {sw, Cancelled(sw)}
      BY <1>7, CutActionFacts DEF Cut
    <2>2. QED
      BY <1>0, <1>3, <1>c, <2>1
  <1>8. ASSUME NEW r \in Requests, Receive(r)
        PROVE  UndisturbedInv'
    BY <1>0, <1>3, <1>8 DEF Receive
  <1>9. QED
    BY <1>4, <1>5, <1>6, <1>7, <1>8, NextKinds

\* Where no backend crashes and there is no emergency stop, a start never finds its
\* predecessor in the way, whatever unloads, evictions, cancellations, refusals and
\* shutdowns intervene: everyone who takes a backend away keeps switches out, or is
\* waited for, until its reservation is released (stopOnce, claimed, startBackend).
THEOREM StartsFindRoom ==
    ASSUME MaxCrashes = 0, "emergency" \notin Events
    PROVE  Spec => []NoCollision
  <1>1. Init => UndisturbedInv
    BY DEF Init, UndisturbedInv, NoCollision, AtRest, NoSwitch, Unused, Backends, NoBackend
  <1>2. IInv /\ HandInv /\ UndisturbedInv /\ [Next]_vars => UndisturbedInv'
    <2>1. ASSUME UndisturbedInv, UNCHANGED vars
          PROVE  UndisturbedInv'
      BY <2>1 DEF UndisturbedInv, NoCollision, vars, pumped, endVars
    <2>2. QED
      BY <2>1, NextUndisturbed
  <1>3. UndisturbedInv => NoCollision
    BY DEF UndisturbedInv
  <1>4. QED
    BY <1>1, <1>2, <1>3, HandInvariance, PTL DEF Spec

\* In every reachable state, with any disturbance: when the switch comes to start a backend
\* and its predecessor still runs or still holds the reservation, that one either crashed
\* and its watcher is between clearing the slot and releasing the reservation, or an
\* emergency stop is under way (watch, EmergencyStop, startBackend).
THEOREM CollisionsExplained ==
    Spec => [](sw.step = "start" /\ (ledger # NoBackend \/ \E b \in Backends : Live(b)) =>
                  /\ ledger \in Backends
                  /\ \/ back[ledger].watch = "crashed"
                     \/ emergency.pc = "stop" /\ emergency.b = ledger)
  BY CollisionFacts, HandInvariance, PTL
=============================================================================
