-------------------------- MODULE VideoJobsProofs --------------------------
(***************************************************************************)
(* Proofs about VideoJobs: the supervisor implements Backend, a job has    *)
(* one outcome, its admission outlives its kill, a kill that returned left *)
(* no process, a retained job has its file, and the files stay within the  *)
(* limit, for any number of jobs, processes, crashes and faults, and any   *)
(* sizes and limits.                                                       *)
(***************************************************************************)
EXTENDS ManagedServiceProofs, SequenceTheorems, FiniteSetTheorems

-----------------------------------------------------------------------------
(* The jobs *)

Uncreated(j) ==
    j > created => /\ jst[j] = "none" /\ adm[j] = "none" /\ run[j] = "none" /\ comp[j] = "none"
                   /\ tpc[j] = "none" /\ deadline[j] = "off" /\ active # j
                   /\ j \notin held /\ j \notin ended /\ j \notin aborted
                   /\ file[j] = 0 /\ pending[j] = 0

\* A termination is of an aborted job that has not ended; what has ended is
\* terminated, or run has left it.
Terminates(j) ==
    /\ tpc[j] # "none" => j \in aborted
    /\ tpc[j] \in {"settle", "stop", "finish"} => j \notin ended
    /\ tpc[j] = "over" => j \in ended
    /\ j \in ended => tpc[j] = "over" \/ run[j] = "end"
    /\ j \in ended => deadline[j] # "armed"

\* Who has the admission.
Admits(j) ==
    /\ j \in held => adm[j] \in {"granted", "released"}
    /\ j \in ended => adm[j] \in {"refused", "released"}
    /\ adm[j] = "released" => j \in ended
    /\ ~(j > created) => adm[j] # "none"
    /\ run[j] \in {"ready", "submit", "poll", "persist"} => j \in held
    /\ tpc[j] \in {"stop", "finish"} => adm[j] = "refused" \/ j \in held
    /\ tpc[j] = "stop" => adm[j] = "granted"

\* An artifact is written for a job that has not ended, and its termination
\* waits for it; what is on disk is counted.
Artifacts(j) ==
    /\ comp[j] \in {"prepare", "write"} => run[j] = "persist" /\ j \notin ended
    /\ comp[j] \in {"prepare", "write"} /\ tpc[j] \in {"stop", "finish"} => j \in waits
    /\ run[j] \in {"none", "admit", "ready", "submit", "poll"} \/ comp[j] = "prepare" =>
          file[j] = 0
    /\ file[j] \in {0, pending[j]}
    /\ comp[j] = "write" => pending[j] > 0
    /\ comp[j] = "ok" /\ j \notin ended => file[j] = pending[j] /\ file[j] > 0
    /\ j \in ToSet(done) /\ jst[j] = "completed" => file[j] = pending[j] /\ file[j] > 0

JobInv(j) ==
    Uncreated(j) /\ Terminates(j) /\ Admits(j) /\ Artifacts(j)

IInv ==
    /\ TypeOK
    /\ ServiceInv
    /\ \A j \in Jobs : JobInv(j)
    /\ pc["stopper"] # "idle" => \E j \in Jobs : tpc[j] = "stop"

-----------------------------------------------------------------------------
(* The retained jobs *)

\* A list of jobs, each once.
Listed(s) == s \in Seq(Jobs) /\ IsInjective(s)

\* What is left of a list without its first k.
LEMMA TailOf ==
    ASSUME NEW s \in Seq(Jobs), NEW k \in 0..Len(s)
    PROVE  /\ SubSeq(s, k + 1, Len(s)) \in Seq(Jobs) /\ Len(SubSeq(s, k + 1, Len(s))) = Len(s) - k
           /\ \A i \in 1..Len(s) - k : SubSeq(s, k + 1, Len(s))[i] = s[i + k] /\ i + k \in 1..Len(s)
  <1> DEFINE t == SubSeq(s, k + 1, Len(s))
  <1>1. Len(s) \in Nat /\ k \in Nat /\ k <= Len(s)
    OBVIOUS
  <1>2. t \in Seq(Jobs) /\ Len(t) = Len(s) - k
    BY <1>1
  <1>3. QED
    BY <1>1, <1>2

\* Without its oldest a list is still one.
LEMMA NewestFacts ==
    ASSUME NEW s, Listed(s), NEW k \in 0..Len(s)
    PROVE  Listed(Newest(s, k)) /\ ToSet(Newest(s, k)) \subseteq ToSet(s)
  <1> DEFINE t == SubSeq(s, k + 1, Len(s))
  <1>1. s \in Seq(Jobs) /\ Len(s) \in Nat /\ k \in Nat /\ k <= Len(s)
    BY DEF Listed
  <1>2. t \in Seq(Jobs) /\ Len(t) = Len(s) - k
    BY <1>1, TailOf
  <1>3. \A i \in 1..Len(t) : t[i] = s[i + k] /\ i + k \in 1..Len(s)
    BY <1>1, <1>2, TailOf
  <1>4. DOMAIN t = 1..Len(t) /\ DOMAIN s = 1..Len(s)
    BY <1>1, <1>2
  <1> HIDE DEF t
  <1>5. IsInjective(t)
    <2>1. SUFFICES ASSUME NEW a \in DOMAIN t, NEW b \in DOMAIN t, t[a] = t[b]
                   PROVE  a = b
      BY Zenon DEF IsInjective
    <2>2. s[a + k] = s[b + k] /\ a + k \in DOMAIN s /\ b + k \in DOMAIN s
      BY <1>3, <1>4, <2>1
    <2>3. a + k = b + k
      BY <2>2 DEF Listed, IsInjective
    <2>4. a \in Nat /\ b \in Nat
      BY <1>1, <1>2, <1>4, <2>1
    <2>5. QED
      BY <1>1, <2>3, <2>4
  <1>6. ToSet(t) \subseteq ToSet(s)
    BY <1>3, <1>4 DEF ToSet
  <1>7. QED
    BY <1>2, <1>5, <1>6 DEF Listed, Newest, t

\* A job that is not in the list may be added at its end.
LEMMA AppendFacts ==
    ASSUME NEW s, Listed(s), NEW j \in Jobs, j \notin ToSet(s)
    PROVE  /\ Listed(Append(s, j)) /\ ToSet(Append(s, j)) = ToSet(s) \union {j}
           /\ Len(Append(s, j)) = Len(s) + 1
  <1> DEFINE t == Append(s, j)
  <1>1. s \in Seq(Jobs) /\ Len(s) \in Nat /\ DOMAIN s = 1..Len(s)
    BY DEF Listed
  <1>2. t \in Seq(Jobs) /\ Len(t) = Len(s) + 1 /\ DOMAIN t = 1..Len(s) + 1
    BY <1>1
  <1>3. t[Len(s) + 1] = j /\ \A i \in 1..Len(s) : t[i] = s[i]
    BY <1>1
  <1>4. \A i \in 1..Len(s) : s[i] # j
    BY <1>1 DEF ToSet
  <1>5. IsInjective(t)
    <2>1. SUFFICES ASSUME NEW a \in DOMAIN t, NEW b \in DOMAIN t, t[a] = t[b]
                   PROVE  a = b
      BY Zenon DEF IsInjective
    <2>2. CASE a \in 1..Len(s) /\ b \in 1..Len(s)
      BY <1>1, <1>3, <2>1, <2>2 DEF Listed, IsInjective
    <2>3. CASE a = Len(s) + 1 \/ b = Len(s) + 1
      BY <1>1, <1>2, <1>3, <1>4, <2>1, <2>3
    <2>4. QED
      BY <1>1, <1>2, <2>2, <2>3
  <1>6. ToSet(t) = ToSet(s) \union {j}
    BY <1>1, <1>2, <1>3 DEF ToSet
  <1>7. QED
    BY <1>2, <1>5, <1>6 DEF Listed

\* A list without one of its jobs is one.
LEMMA RemoveFacts ==
    ASSUME NEW s, Listed(s), NEW j \in Jobs
    PROVE  Listed(RemoveFirst(s, j)) /\ ToSet(RemoveFirst(s, j)) \subseteq ToSet(s)
  <1>1. s \in Seq(Jobs) /\ Len(s) \in Nat /\ DOMAIN s = 1..Len(s)
    BY DEF Listed
  <1>2. CASE ~\E i \in 1..Len(s) : s[i] = j
    BY <1>2 DEF RemoveFirst
  <1>3. ASSUME NEW n \in 1..Len(s), s[n] = j
        PROVE  Listed(RemoveFirst(s, j)) /\ ToSet(RemoveFirst(s, j)) \subseteq ToSet(s)
    <2> DEFINE t == SubSeq(s, 1, n - 1) \o SubSeq(s, n + 1, Len(s))
    <2>1. {i \in 1..Len(s) : s[i] = j} = {n}
      BY <1>1, <1>3 DEF Listed, IsInjective
    <2>2. Min({n}) = n
      BY <1>1 DEF Min
    <2>3. SelectInSeq(s, LAMBDA v : v = j) = n
      BY <2>1, <2>2 DEF SelectInSeq
    <2>4. RemoveFirst(s, j) = t
      BY <1>3, <2>3 DEF RemoveFirst, RemoveAt
    <2> DEFINE t1 == SubSeq(s, 1, n - 1)
               t2 == SubSeq(s, n + 1, Len(s))
    <2>a. n \in Nat /\ 1 <= n /\ n <= Len(s)
      BY <1>1
    <2>b. t1 \in Seq(Jobs) /\ Len(t1) = n - 1 /\ \A i \in 1..n - 1 : t1[i] = s[i]
      BY <1>1, <2>a
    <2>c. /\ t2 \in Seq(Jobs) /\ Len(t2) = Len(s) - n
          /\ \A i \in 1..Len(s) - n : t2[i] = s[i + n]
      <3>1. n \in 0..Len(s)
        BY <1>1, <2>a
      <3>2. QED
        BY <1>1, <3>1, TailOf, Zenon
    <2>d. t = t1 \o t2
      OBVIOUS
    <2> HIDE DEF t, t1, t2
    <2>6. t \in Seq(Jobs) /\ Len(t) = Len(s) - 1
      <3>1. t \in Seq(Jobs) /\ Len(t) = Len(t1) + Len(t2)
        BY <2>b, <2>c, <2>d, ConcatProperties
      <3>2. QED
        BY <1>1, <2>a, <2>b, <2>c, <3>1
    <2>e. DOMAIN t = 1..Len(s) - 1
      BY <2>6
    <2>7. \A i \in 1..Len(s) - 1 : t[i] = s[IF i < n THEN i ELSE i + 1]
      <3>1. SUFFICES ASSUME NEW i \in 1..Len(s) - 1
                     PROVE  t[i] = s[IF i < n THEN i ELSE i + 1]
        OBVIOUS
      <3>2. CASE i < n
        BY <1>1, <2>a, <2>b, <2>c, <2>d, <3>2
      <3>3. CASE ~(i < n)
        <4>1. t[i] = t2[i - (n - 1)] /\ i - (n - 1) \in 1..Len(s) - n
          BY <1>1, <2>a, <2>b, <2>c, <2>d, <3>3
        <4>2. t2[i - (n - 1)] = s[i - (n - 1) + n] /\ i - (n - 1) + n = i + 1
          BY <1>1, <2>a, <2>c, <4>1
        <4>3. QED
          BY <3>3, <4>1, <4>2
      <3>4. QED
        BY <3>2, <3>3
    <2>8. IsInjective(t)
      <3>1. SUFFICES ASSUME NEW a \in DOMAIN t, NEW b \in DOMAIN t, t[a] = t[b]
                     PROVE  a = b
        BY Zenon DEF IsInjective
      <3> DEFINE x == IF a < n THEN a ELSE a + 1
                 y == IF b < n THEN b ELSE b + 1
      <3>2. a \in 1..Len(s) - 1 /\ b \in 1..Len(s) - 1
        BY <2>e, <3>1
      <3>3. s[x] = s[y]
        BY <2>7, <3>1, <3>2
      <3>4. x \in DOMAIN s /\ y \in DOMAIN s
        BY <1>1, <2>a, <3>2
      <3>5. x = y
        BY <3>3, <3>4 DEF Listed, IsInjective
      <3>6. QED
        BY <1>1, <2>a, <3>2, <3>5
    <2>9. ToSet(t) \subseteq ToSet(s)
      <3>1. \A i \in DOMAIN t : \E k \in DOMAIN s : t[i] = s[k]
        <4>1. SUFFICES ASSUME NEW i \in DOMAIN t
                       PROVE  \E k \in DOMAIN s : t[i] = s[k]
          OBVIOUS
        <4>2. (IF i < n THEN i ELSE i + 1) \in DOMAIN s
          BY <1>1, <2>a, <2>e
        <4>3. QED
          BY <2>7, <2>e, <4>2
      <3>2. QED
        BY <3>1 DEF ToSet
    <2>10. QED
      BY <2>4, <2>6, <2>8, <2>9 DEF Listed
  <1>4. QED
    BY <1>2, <1>3

\* The types of the jobs' fields.
JobSets ==
    /\ created \in 0..MaxJobs
    /\ active \in (Jobs \ ended) \union {NoJob}
    /\ ended \subseteq Jobs
    /\ aborted \subseteq Jobs /\ held \subseteq Jobs /\ waits \subseteq Jobs
    /\ stopping_ \in BOOLEAN
    /\ sd \in {"up", "video", "service", "exit", "gone"}
    /\ stopFailed \subseteq Jobs

JobFields ==
    /\ jst \in [Jobs -> JobStates]
    /\ deadline \in [Jobs -> {"off", "armed", "spent"}]
    /\ adm \in [Jobs -> {"none", "pending", "granted", "refused", "released"}]
    /\ run \in [Jobs -> {"none", "admit", "ready", "submit", "poll", "persist", "end"}]
    /\ comp \in [Jobs -> {"none", "prepare", "write"} \union Settled]
    /\ tpc \in [Jobs -> {"none", "settle", "stop", "finish", "over"}]
    /\ disp \in [Jobs -> {"none", "cancelled", "failed"}]

JobFiles ==
    /\ Listed(done) /\ ToSet(done) \subseteq ended
    /\ pending \in [Jobs -> Sizes \union {0}]
    /\ file \in [Jobs -> Sizes \union {0}]

JobTypes == JobSets /\ JobFields /\ JobFiles

\* They are the jobs' part of TypeOK.
LEMMA TypeOKParts == TypeOK <=> ServiceTypeOK /\ JobTypes
  BY DEF TypeOK, JobTypes, JobSets, JobFields, JobFiles, Listed

-----------------------------------------------------------------------------
(* What a step does to the jobs *)

\* prune, makeRoomForArtifact and remove: the list is s without some, and the
\* files of those that were dropped are gone.
Retained(s, files) ==
    /\ Listed(done') /\ ToSet(done') \subseteq ToSet(s)
    /\ file' = [k \in Jobs |-> IF k \in ToSet(done) \ ToSet(done') THEN 0 ELSE files[k]]

\* prune drops only terminal jobs, with their files.
LEMMA PruneFacts ==
    ASSUME NEW s, NEW files, Listed(s), Len(done) \in Nat, Len(done) <= Len(s), Prune(s, files)
    PROVE  Retained(s, files)
  <1>1. PICK e \in 0..Len(done) :
           Retain(Newest(s, IF Len(s) > MaxTerminal + e THEN Len(s) - MaxTerminal ELSE e), files)
    BY DEF Prune
  <1> DEFINE k == IF Len(s) > MaxTerminal + e THEN Len(s) - MaxTerminal ELSE e
  <1>2. k \in 0..Len(s)
    BY VideoAssumption DEF Listed
  <1>3. Listed(Newest(s, k)) /\ ToSet(Newest(s, k)) \subseteq ToSet(s)
    BY <1>2, NewestFacts
  <1>4. QED
    BY <1>1, <1>3 DEF Retain, Retained

\* makeRoomForArtifact too.
LEMMA MakeRoomFacts ==
    ASSUME Listed(done), NEW n, MakeRoom(n)
    PROVE  Retained(done, file)
  <1>1. PICK e \in 0..Len(done) : \E k \in e..Len(done) : Retain(Newest(done, k), file)
    BY DEF MakeRoom
  <1>2. PICK k \in e..Len(done) : Retain(Newest(done, k), file)
    BY <1>1
  <1>3. k \in 0..Len(done)
    BY DEF Listed
  <1>4. Listed(Newest(done, k)) /\ ToSet(Newest(done, k)) \subseteq ToSet(done)
    BY <1>3, NewestFacts
  <1>5. QED
    BY <1>2, <1>4 DEF Retain, Retained

\* A job that ends is added to the list, which is pruned.
LEMMA FinishFacts ==
    ASSUME JobTypes, NEW j \in Jobs, j \notin ended, NEW state, NEW files, Finish(j, state, files)
    PROVE  /\ jst' = [jst EXCEPT ![j] = state] /\ ended' = ended \union {j}
           /\ deadline' = [deadline EXCEPT ![j] = "off"]
           /\ adm' = IF j \in held THEN [adm EXCEPT ![j] = "released"] ELSE adm
           /\ active' = IF active = j THEN NoJob ELSE active
           /\ Listed(done') /\ ToSet(done') \subseteq ToSet(done) \union {j}
           /\ file' = [k \in Jobs |-> IF k \in ToSet(done) \ ToSet(done') THEN 0 ELSE files[k]]
  <1>1. Listed(done) /\ j \notin ToSet(done) /\ Len(done) \in Nat
    BY DEF JobTypes, JobFiles, Listed
  <1>2. /\ Listed(Append(done, j)) /\ ToSet(Append(done, j)) = ToSet(done) \union {j}
        /\ Len(done) <= Len(Append(done, j))
    BY <1>1, AppendFacts
  <1>3. Prune(Append(done, j), files)
    BY DEF Finish
  <1>4. Retained(Append(done, j), files)
    BY <1>1, <1>2, <1>3, PruneFacts
  <1>5. QED
    BY <1>2, <1>4 DEF Finish, Retained

\* Nothing about job k changes, but that it may be dropped from the list.
Kept(k) ==
    /\ UNCHANGED <<jst[k], adm[k], run[k], comp[k], tpc[k], deadline[k], pending[k]>>
    /\ k \in held' <=> k \in held
    /\ k \in ended' <=> k \in ended
    /\ k \in aborted' <=> k \in aborted
    /\ k \in waits' <=> k \in waits
    /\ k > created' <=> k > created
    /\ active' = k => active = k
    /\ k \in ToSet(done') => k \in ToSet(done)
    /\ \/ file'[k] = file[k]
       \/ file'[k] = 0 /\ k \in ended /\ k \notin ToSet(done')

\* What is true of a job that was left alone stays true.
LEMMA KeptInv ==
    ASSUME NEW k \in Jobs, JobInv(k), Kept(k)
    PROVE  JobInv(k)'
  <1> USE DEF JobInv, Kept
  <1>1. Uncreated(k)'
    BY DEF Uncreated
  <1>2. Terminates(k)' /\ Admits(k)'
    BY DEF Terminates, Admits
  <1>3. Artifacts(k)'
    BY DEF Artifacts
  <1>4. QED
    BY <1>1, <1>2, <1>3

\* A job that starts was never created before.
LEMMA StartJobs ==
    ASSUME JobTypes, \A k \in Jobs : JobInv(k), NEW j \in Jobs, Start(j)
    PROVE  JobTypes' /\ \A k \in Jobs : JobInv(k)'
  <1>0. Retained(done, file) /\ Listed(done)
    BY PruneFacts DEF JobTypes, JobFiles, Listed, Start
  <1> USE DEF Start, RunAt
  <1>1. JobTypes'
    <2>1. JobSets'
      BY VideoAssumption DEF JobTypes, JobSets, JobInv, Uncreated, Jobs, NoJob
    <2>2. JobFields'
      BY DEF JobTypes, JobFields, JobStates, Settled
    <2>3. JobFiles'
      BY VideoAssumption, <1>0 DEF JobTypes, JobFiles, Retained
    <2>4. QED
      BY <2>1, <2>2, <2>3 DEF JobTypes
  <1>2. ASSUME NEW k \in Jobs \ {j}
        PROVE  Kept(k)
    BY VideoAssumption, <1>0 DEF JobTypes, JobSets, JobFields, JobFiles, Retained, Kept,
       Jobs
  <1>3. Uncreated(j)'
    BY VideoAssumption, <1>0 DEF JobTypes, JobSets, JobFields, JobFiles, Retained, JobInv,
       Uncreated, Terminates, Jobs
  <1>4. Terminates(j)'
    BY VideoAssumption, <1>0 DEF JobTypes, JobSets, JobFields, JobFiles, Retained, JobInv,
       Uncreated, Terminates, Jobs
  <1>5. Admits(j)'
    BY VideoAssumption, <1>0 DEF JobTypes, JobSets, JobFields, JobFiles, Retained, JobInv,
       Uncreated, Terminates, Admits, Jobs
  <1>6. Artifacts(j)'
    BY VideoAssumption, <1>0 DEF JobTypes, JobSets, JobFields, JobFiles, Retained, JobInv,
       Uncreated, Terminates, Artifacts, Jobs
  <1>7. QED
    BY <1>1, <1>2, <1>3, <1>4, <1>5, <1>6, KeptInv DEF JobInv

\* A deletion drops jobs from the list.
LEMMA DeleteJobs ==
    ASSUME JobTypes, \A k \in Jobs : JobInv(k), NEW j \in Jobs, Delete(j)
    PROVE  JobTypes' /\ \A k \in Jobs : JobInv(k)'
  <1>0. Retained(done, file) /\ Listed(done)
    <2>1. Listed(done)
      BY DEF JobTypes, JobFiles
    <2>2. PICK e \in 0..Len(done) : Retain(RemoveFirst(Newest(done, e), j), file)
      BY DEF Delete
    <2>3. Listed(Newest(done, e)) /\ ToSet(Newest(done, e)) \subseteq ToSet(done)
      BY <2>1, NewestFacts
    <2>4. /\ Listed(RemoveFirst(Newest(done, e), j))
          /\ ToSet(RemoveFirst(Newest(done, e), j)) \subseteq ToSet(Newest(done, e))
      BY <2>3, RemoveFacts
    <2>5. QED
      BY <2>1, <2>2, <2>3, <2>4 DEF Retain, Retained
  <1> USE DEF Delete
  <1>1. JobTypes'
    <2>1. JobSets'
      BY DEF JobTypes, JobSets
    <2>2. JobFields'
      BY DEF JobTypes, JobFields, JobStates, Settled
    <2>3. JobFiles'
      BY <1>0 DEF JobTypes, JobFiles, Retained
    <2>4. QED
      BY <2>1, <2>2, <2>3 DEF JobTypes
  <1>2. ASSUME NEW k \in Jobs \ {j}
        PROVE  Kept(k)
    BY <1>0 DEF JobTypes, JobSets, JobFields, JobFiles, Retained, Kept
  <1>3. Uncreated(j)'
    BY <1>0 DEF JobTypes, JobSets, JobFields, JobFiles, Retained, JobInv, Uncreated
  <1>4. Terminates(j)'
    BY DEF JobTypes, JobFields, JobInv, Terminates
  <1>5. Admits(j)'
    BY DEF JobTypes, JobFields, JobInv, Terminates, Admits
  <1>6. Artifacts(j)'
    BY <1>0 DEF JobTypes, JobFields, JobFiles, Retained, JobInv, Terminates, Artifacts
  <1>7. QED
    BY <1>1, <1>2, <1>3, <1>4, <1>5, <1>6, KeptInv DEF JobInv

\* A cancel is of a job that has not ended.
LEMMA TerminateJobs ==
    ASSUME JobTypes, \A k \in Jobs : JobInv(k), NEW j \in Jobs,
           NEW how \in {"cancelled", "failed"}, Terminate(j, how)
    PROVE  JobTypes' /\ \A k \in Jobs : JobInv(k)'
  <1>0. Retained(done, file) /\ Listed(done)
    BY PruneFacts DEF JobTypes, JobFiles, Listed, Terminate
  <1> USE DEF Terminate, Contain
  <1>1. JobTypes'
    <2>1. JobSets'
      BY DEF JobTypes, JobSets
    <2>2. JobFields'
      BY DEF JobTypes, JobFields, JobStates, Settled
    <2>3. JobFiles'
      BY <1>0 DEF JobTypes, JobFiles, Retained
    <2>4. QED
      BY <2>1, <2>2, <2>3 DEF JobTypes
  <1>2. ASSUME NEW k \in Jobs \ {j}
        PROVE  Kept(k)
    BY <1>0 DEF JobTypes, JobSets, JobFields, JobFiles, Retained, Kept
  <1>3. Uncreated(j)'
    BY <1>0 DEF JobTypes, JobSets, JobFields, JobFiles, Retained, JobInv, Uncreated
  <1>4. Terminates(j)'
    BY DEF JobTypes, JobFields, JobInv, Terminates
  <1>5. Admits(j)'
    BY DEF JobTypes, JobFields, JobInv, Terminates, Admits
  <1>6. Artifacts(j)'
    BY <1>0 DEF JobTypes, JobFields, JobFiles, Retained, JobInv, Terminates, Artifacts
  <1>7. QED
    BY <1>1, <1>2, <1>3, <1>4, <1>5, <1>6, KeptInv DEF JobInv

\* A deadline that fires is of a job that has not ended.
LEMMA DeadlineJobs ==
    ASSUME JobTypes, \A k \in Jobs : JobInv(k), NEW j \in Jobs, Deadline(j)
    PROVE  JobTypes' /\ \A k \in Jobs : JobInv(k)'
  <1> USE DEF Deadline, Contain
  <1>1. JobTypes'
    <2>1. JobSets'
      BY DEF JobTypes, JobSets
    <2>2. JobFields'
      BY DEF JobTypes, JobFields, JobStates, Settled
    <2>3. JobFiles'
      BY DEF JobTypes, JobFiles
    <2>4. QED
      BY <2>1, <2>2, <2>3 DEF JobTypes
  <1>2. ASSUME NEW k \in Jobs \ {j}
        PROVE  Kept(k)
    BY DEF JobTypes, JobSets, JobFields, JobFiles, Kept
  <1>3. Uncreated(j)'
    BY DEF JobTypes, JobSets, JobFields, JobFiles, JobInv, Uncreated
  <1>4. Terminates(j)'
    BY DEF JobTypes, JobFields, JobInv, Terminates
  <1>5. Admits(j)'
    BY DEF JobTypes, JobFields, JobInv, Terminates, Admits
  <1>6. Artifacts(j)'
    BY DEF JobTypes, JobFields, JobFiles, JobInv, Terminates, Artifacts
  <1>7. QED
    BY <1>1, <1>2, <1>3, <1>4, <1>5, <1>6, KeptInv DEF JobInv

\* An admission that is granted is of a job that has not ended: it was pending.
LEMMA GrantJobs ==
    ASSUME JobTypes, \A k \in Jobs : JobInv(k), NEW j \in Jobs, Grant(j)
    PROVE  JobTypes' /\ \A k \in Jobs : JobInv(k)'
  <1> USE DEF Grant
  <1>1. JobTypes'
    <2>1. JobSets'
      BY DEF JobTypes, JobSets
    <2>2. JobFields'
      BY DEF JobTypes, JobFields, JobStates, Settled
    <2>3. JobFiles'
      BY DEF JobTypes, JobFiles
    <2>4. QED
      BY <2>1, <2>2, <2>3 DEF JobTypes
  <1>2. ASSUME NEW k \in Jobs \ {j}
        PROVE  Kept(k)
    BY DEF JobTypes, JobSets, JobFields, JobFiles, Kept
  <1>3. Uncreated(j)'
    BY DEF JobTypes, JobSets, JobFields, JobFiles, JobInv, Uncreated
  <1>4. Terminates(j)'
    BY DEF JobTypes, JobFields, JobInv, Terminates
  <1>5. Admits(j)'
    BY DEF JobTypes, JobFields, JobInv, Terminates, Admits
  <1>6. Artifacts(j)'
    BY DEF JobTypes, JobFields, JobFiles, JobInv, Terminates, Artifacts
  <1>7. QED
    BY <1>1, <1>2, <1>3, <1>4, <1>5, <1>6, KeptInv DEF JobInv

\* One that is refused, too.
LEMMA RefuseJobs ==
    ASSUME JobTypes, \A k \in Jobs : JobInv(k), NEW j \in Jobs, Refuse(j)
    PROVE  JobTypes' /\ \A k \in Jobs : JobInv(k)'
  <1> USE DEF Refuse
  <1>1. JobTypes'
    <2>1. JobSets'
      BY DEF JobTypes, JobSets
    <2>2. JobFields'
      BY DEF JobTypes, JobFields, JobStates, Settled
    <2>3. JobFiles'
      BY DEF JobTypes, JobFiles
    <2>4. QED
      BY <2>1, <2>2, <2>3 DEF JobTypes
  <1>2. ASSUME NEW k \in Jobs \ {j}
        PROVE  Kept(k)
    BY DEF JobTypes, JobSets, JobFields, JobFiles, Kept
  <1>3. Uncreated(j)'
    BY DEF JobTypes, JobSets, JobFields, JobFiles, JobInv, Uncreated
  <1>4. Terminates(j)'
    BY DEF JobTypes, JobFields, JobInv, Terminates
  <1>5. Admits(j)'
    BY DEF JobTypes, JobFields, JobInv, Terminates, Admits
  <1>6. Artifacts(j)'
    BY DEF JobTypes, JobFields, JobFiles, JobInv, Terminates, Artifacts
  <1>7. QED
    BY <1>1, <1>2, <1>3, <1>4, <1>5, <1>6, KeptInv DEF JobInv

\* run takes the admission, unless the job is being terminated.
LEMMA RunAdmitJobs ==
    ASSUME JobTypes, \A k \in Jobs : JobInv(k), NEW j \in Jobs, RunAdmit(j)
    PROVE  JobTypes' /\ \A k \in Jobs : JobInv(k)'
  <1> USE DEF RunAdmit, RunAt, RunFails, Contain, Untouched
  <1>1. JobTypes'
    <2>1. JobSets'
      BY DEF JobTypes, JobSets
    <2>2. JobFields'
      BY DEF JobTypes, JobFields, JobStates, Settled
    <2>3. JobFiles'
      BY DEF JobTypes, JobFiles
    <2>4. QED
      BY <2>1, <2>2, <2>3 DEF JobTypes
  <1>2. ASSUME NEW k \in Jobs \ {j}
        PROVE  Kept(k)
    BY DEF JobTypes, JobSets, JobFields, JobFiles, Kept
  <1>3. Uncreated(j)'
    BY DEF JobTypes, JobSets, JobFields, JobFiles, JobInv, Uncreated
  <1>4. Terminates(j)'
    BY DEF JobTypes, JobFields, JobInv, Terminates
  <1>5. Admits(j)'
    BY DEF JobTypes, JobFields, JobInv, Uncreated, Terminates, Admits
  <1>6. Artifacts(j)'
    BY DEF JobTypes, JobFields, JobFiles, JobInv, Terminates, Artifacts
  <1>7. QED
    BY <1>1, <1>2, <1>3, <1>4, <1>5, <1>6, KeptInv DEF JobInv

\* run goes on to the submission.
LEMMA RunReadyJobs ==
    ASSUME JobTypes, \A k \in Jobs : JobInv(k), NEW j \in Jobs, RunReady(j)
    PROVE  JobTypes' /\ \A k \in Jobs : JobInv(k)'
  <1> USE DEF RunReady, RunAt, RunFails, Contain, Untouched
  <1>1. JobTypes'
    <2>1. JobSets'
      BY DEF JobTypes, JobSets
    <2>2. JobFields'
      BY DEF JobTypes, JobFields, JobStates, Settled
    <2>3. JobFiles'
      BY DEF JobTypes, JobFiles
    <2>4. QED
      BY <2>1, <2>2, <2>3 DEF JobTypes
  <1>2. ASSUME NEW k \in Jobs \ {j}
        PROVE  Kept(k)
    BY DEF JobTypes, JobSets, JobFields, JobFiles, Kept
  <1>3. Uncreated(j)'
    BY DEF JobTypes, JobSets, JobFields, JobFiles, JobInv, Uncreated
  <1>4. Terminates(j)'
    BY DEF JobTypes, JobFields, JobInv, Terminates
  <1>5. Admits(j)'
    BY DEF JobTypes, JobFields, JobInv, Terminates, Admits
  <1>6. Artifacts(j)'
    BY DEF JobTypes, JobFields, JobFiles, JobInv, Terminates, Artifacts
  <1>7. QED
    BY <1>1, <1>2, <1>3, <1>4, <1>5, <1>6, KeptInv DEF JobInv

\* run submits the job, which has not ended if it is not aborted.
LEMMA RunSubmitJobs ==
    ASSUME JobTypes, \A k \in Jobs : JobInv(k), NEW j \in Jobs, RunSubmit(j)
    PROVE  JobTypes' /\ \A k \in Jobs : JobInv(k)'
  <1> USE DEF RunSubmit, RunAt, RunFails, Contain, Untouched
  <1>1. JobTypes'
    <2>1. JobSets'
      BY DEF JobTypes, JobSets
    <2>2. JobFields'
      BY DEF JobTypes, JobFields, JobStates, Settled
    <2>3. JobFiles'
      BY DEF JobTypes, JobFiles
    <2>4. QED
      BY <2>1, <2>2, <2>3 DEF JobTypes
  <1>2. ASSUME NEW k \in Jobs \ {j}
        PROVE  Kept(k)
    <2>1. UNCHANGED jst[k]
      BY DEF JobTypes, JobFields
    <2>2. QED
      BY <2>1 DEF JobTypes, JobSets, JobFields, JobFiles, Kept
  <1>3. Uncreated(j)'
    BY DEF JobTypes, JobSets, JobFields, JobFiles, JobInv, Uncreated
  <1>4. Terminates(j)'
    BY DEF JobTypes, JobFields, JobInv, Terminates
  <1>5. Admits(j)'
    BY DEF JobTypes, JobFields, JobInv, Terminates, Admits
  <1>6. Artifacts(j)'
    BY DEF JobTypes, JobFields, JobFiles, JobInv, Terminates, Artifacts
  <1>7. QED
    BY <1>1, <1>2, <1>3, <1>4, <1>5, <1>6, KeptInv DEF JobInv

\* The artifact's bytes are counted before they are written.
LEMMA PreparedJobs ==
    ASSUME JobTypes, \A k \in Jobs : JobInv(k), NEW j \in Jobs, Prepared(j)
    PROVE  JobTypes' /\ \A k \in Jobs : JobInv(k)'
  <1>0. Retained(done, file) \/ UNCHANGED <<done, file>>
    BY MakeRoomFacts DEF JobTypes, JobFiles, Prepared
  <1> USE DEF Prepared
  <1>1. JobTypes'
    <2>1. JobSets'
      BY DEF JobTypes, JobSets
    <2>2. JobFields'
      BY DEF JobTypes, JobFields, JobStates, Settled
    <2>3. JobFiles'
      BY VideoAssumption, <1>0 DEF JobTypes, JobFiles, Retained
    <2>4. QED
      BY <2>1, <2>2, <2>3 DEF JobTypes
  <1>2. ASSUME NEW k \in Jobs \ {j}
        PROVE  Kept(k)
    BY VideoAssumption, <1>0 DEF JobTypes, JobSets, JobFields, JobFiles, Retained, Kept
  <1>3. Uncreated(j)'
    BY <1>0 DEF JobTypes, JobSets, JobFields, JobFiles, Retained, JobInv, Uncreated
  <1>4. Terminates(j)'
    BY DEF JobTypes, JobFields, JobInv, Terminates
  <1>5. Admits(j)'
    BY DEF JobTypes, JobFields, JobInv, Terminates, Admits
  <1>6. Artifacts(j)'
    BY VideoAssumption, <1>0 DEF JobTypes, JobFields, JobFiles, Retained, JobInv,
       Terminates, Artifacts
  <1>7. QED
    BY <1>1, <1>2, <1>3, <1>4, <1>5, <1>6, KeptInv DEF JobInv

\* The file is as long as the bytes that are counted.
LEMMA WrittenJobs ==
    ASSUME JobTypes, \A k \in Jobs : JobInv(k), NEW j \in Jobs, Written(j)
    PROVE  JobTypes' /\ \A k \in Jobs : JobInv(k)'
  <1> USE DEF Written
  <1>1. JobTypes'
    <2>1. JobSets'
      BY DEF JobTypes, JobSets
    <2>2. JobFields'
      BY DEF JobTypes, JobFields, JobStates, Settled
    <2>3. JobFiles'
      BY VideoAssumption DEF JobTypes, JobFiles
    <2>4. QED
      BY <2>1, <2>2, <2>3 DEF JobTypes
  <1>2. ASSUME NEW k \in Jobs \ {j}
        PROVE  Kept(k)
    BY VideoAssumption DEF JobTypes, JobSets, JobFields, JobFiles, Kept
  <1>3. Uncreated(j)'
    BY DEF JobTypes, JobSets, JobFields, JobFiles, JobInv, Uncreated
  <1>4. Terminates(j)'
    BY DEF JobTypes, JobFields, JobInv, Terminates
  <1>5. Admits(j)'
    BY DEF JobTypes, JobFields, JobInv, Terminates, Admits
  <1>6. Artifacts(j)'
    BY VideoAssumption DEF JobTypes, JobFields, JobFiles, JobInv, Terminates, Artifacts
  <1>7. QED
    BY <1>1, <1>2, <1>3, <1>4, <1>5, <1>6, KeptInv DEF JobInv

\* A termination that has its admission waits for the artifact under way.
LEMMA AdmissionSettledJobs ==
    ASSUME JobTypes, \A k \in Jobs : JobInv(k), NEW j \in Jobs, AdmissionSettled(j)
    PROVE  JobTypes' /\ \A k \in Jobs : JobInv(k)'
  <1> USE DEF AdmissionSettled
  <1>1. JobTypes'
    <2>1. JobSets'
      BY DEF JobTypes, JobSets
    <2>2. JobFields'
      BY DEF JobTypes, JobFields, JobStates, Settled
    <2>3. JobFiles'
      BY DEF JobTypes, JobFiles
    <2>4. QED
      BY <2>1, <2>2, <2>3 DEF JobTypes
  <1>2. ASSUME NEW k \in Jobs \ {j}
        PROVE  Kept(k)
    BY DEF JobTypes, JobSets, JobFields, JobFiles, Kept
  <1>3. Uncreated(j)'
    BY DEF JobTypes, JobSets, JobFields, JobFiles, JobInv, Uncreated
  <1>4. Terminates(j)'
    BY DEF JobTypes, JobFields, JobInv, Terminates
  <1>5. Admits(j)'
    BY DEF JobTypes, JobFields, JobInv, Uncreated, Terminates, Admits
  <1>6. Artifacts(j)'
    BY DEF JobTypes, JobFields, JobFiles, JobInv, Terminates, Artifacts
  <1>7. QED
    BY <1>1, <1>2, <1>3, <1>4, <1>5, <1>6, KeptInv DEF JobInv

\* A termination that has the result of its kill still has its admission.
LEMMA StopOverJobs ==
    ASSUME JobTypes, \A k \in Jobs : JobInv(k), NEW j \in Jobs, StopOver(j)
    PROVE  JobTypes' /\ \A k \in Jobs : JobInv(k)'
  <1> USE DEF StopOver
  <1>1. JobTypes'
    <2>1. JobSets'
      BY DEF JobTypes, JobSets
    <2>2. JobFields'
      BY DEF JobTypes, JobFields, JobStates, Settled
    <2>3. JobFiles'
      BY DEF JobTypes, JobFiles
    <2>4. QED
      BY <2>1, <2>2, <2>3 DEF JobTypes
  <1>2. ASSUME NEW k \in Jobs \ {j}
        PROVE  Kept(k)
    BY DEF JobTypes, JobSets, JobFields, JobFiles, Kept
  <1>3. Uncreated(j)'
    BY DEF JobTypes, JobSets, JobFields, JobFiles, JobInv, Uncreated
  <1>4. Terminates(j)'
    BY DEF JobTypes, JobFields, JobInv, Terminates
  <1>5. Admits(j)'
    BY DEF JobTypes, JobFields, JobInv, Terminates, Admits
  <1>6. Artifacts(j)'
    BY DEF JobTypes, JobFields, JobFiles, JobInv, Terminates, Artifacts
  <1>7. QED
    BY <1>1, <1>2, <1>3, <1>4, <1>5, <1>6, KeptInv DEF JobInv

\* A poll ends a job that has not ended, or goes on.
LEMMA RunPollJobs ==
    ASSUME JobTypes, \A k \in Jobs : JobInv(k), NEW j \in Jobs, RunPoll(j)
    PROVE  JobTypes' /\ \A k \in Jobs : JobInv(k)'
  <1> USE DEF RunAt, RunFails, Contain, Untouched, Unfinished
  <1>0. j \notin aborted => j \notin ended
    BY DEF RunPoll, JobInv, Terminates
  <1>1. CASE UNCHANGED <<ended, deadline, adm, active, done, file>>
    <2> USE <1>1 DEF RunPoll
    <2>1. JobTypes'
      <3>1. JobSets'
        BY DEF JobTypes, JobSets
      <3>2. JobFields'
        BY DEF JobTypes, JobFields, JobStates, Settled, Finish
      <3>3. JobFiles'
        BY DEF JobTypes, JobFiles
      <3>4. QED
        BY <3>1, <3>2, <3>3 DEF JobTypes
    <2>2. ASSUME NEW k \in Jobs \ {j}
          PROVE  Kept(k)
      BY DEF JobTypes, JobSets, JobFields, JobFiles, Kept, Finish
    <2>3. Uncreated(j)'
      BY DEF JobTypes, JobSets, JobFields, JobFiles, JobInv, Uncreated, Finish
    <2>4. Terminates(j)'
      BY <1>0 DEF JobTypes, JobSets, JobFields, JobFiles, JobInv, Uncreated, Terminates,
         Finish
    <2>5. Admits(j)'
      BY DEF JobTypes, JobSets, JobFields, JobFiles, JobInv, Uncreated, Terminates, Admits,
         Finish
    <2>6. Artifacts(j)'
      BY <1>0 DEF JobTypes, JobSets, JobFields, JobFiles, JobInv, Uncreated, Terminates,
         Artifacts, Settled, Finish
    <2>7. QED
      BY <2>1, <2>2, <2>3, <2>4, <2>5, <2>6, KeptInv DEF JobInv
  <1>2. CASE ~UNCHANGED <<ended, deadline, adm, active, done, file>>
    <2>1. PICK state \in {"failed", "cancelled"} : Finish(j, state, file)
      BY <1>2 DEF RunPoll
    <2>2. /\ j \notin aborted /\ run[j] = "poll" /\ run' = [run EXCEPT ![j] = "end"]
          /\ UNCHANGED <<tpc, disp, aborted, comp, created, held, waits, pending, stopping_,
                         sd, stopFailed>>
      BY <1>2 DEF RunPoll
    <2>3. j \notin ended
      BY <1>0, <2>2
    <2> HIDE DEF RunAt, RunFails, Contain, Untouched, Unfinished
    <2>4. /\ jst' = [jst EXCEPT ![j] = state] /\ ended' = ended \union {j}
          /\ deadline' = [deadline EXCEPT ![j] = "off"]
          /\ adm' = IF j \in held THEN [adm EXCEPT ![j] = "released"] ELSE adm
          /\ active' = IF active = j THEN NoJob ELSE active
          /\ Listed(done') /\ ToSet(done') \subseteq ToSet(done) \union {j}
          /\ file' = [k \in Jobs |-> IF k \in ToSet(done) \ ToSet(done') THEN 0 ELSE file[k]]
      BY <2>1, <2>3, FinishFacts
    <2>5. JobTypes'
      <3>1. JobSets'
        BY <2>2, <2>4 DEF JobTypes, JobSets
      <3>2. JobFields'
        BY <2>2, <2>4 DEF JobTypes, JobFields, JobStates
      <3>3. JobFiles'
        BY <2>2, <2>4 DEF JobTypes, JobFiles
      <3>4. QED
        BY <3>1, <3>2, <3>3 DEF JobTypes
    <2>6. ASSUME NEW k \in Jobs \ {j}
          PROVE  Kept(k)
      BY <2>2, <2>4 DEF JobTypes, JobSets, JobFields, JobFiles, Kept, Jobs, NoJob
    <2>7. JobInv(j)'
      BY <2>2, <2>3, <2>4 DEF JobTypes, JobSets, JobFields, JobFiles, JobInv, Uncreated,
         Terminates,
                Admits, Artifacts, Jobs, NoJob
    <2>8. QED
      BY <2>5, <2>6, <2>7, KeptInv
  <1>3. QED
    BY <1>1, <1>2

\* A job completes with its file, unless it is being terminated.
LEMMA RunPersistedJobs ==
    ASSUME JobTypes, \A k \in Jobs : JobInv(k), NEW j \in Jobs, RunPersisted(j)
    PROVE  JobTypes' /\ \A k \in Jobs : JobInv(k)'
  <1> USE DEF RunAt, RunFails, Contain, Untouched, Unfinished
  <1>1. CASE UNCHANGED <<jst, ended, deadline, adm, active, done, file>>
    <2> USE <1>1 DEF RunPersisted, Settled
    <2>1. JobTypes'
      <3>1. JobSets'
        BY DEF JobTypes, JobSets
      <3>2. JobFields'
        BY DEF JobTypes, JobFields, JobStates
      <3>3. JobFiles'
        BY DEF JobTypes, JobFiles
      <3>4. QED
        BY <3>1, <3>2, <3>3 DEF JobTypes
    <2>2. ASSUME NEW k \in Jobs \ {j}
          PROVE  Kept(k)
      BY DEF JobTypes, JobSets, JobFields, JobFiles, Kept
    <2>3. Uncreated(j)'
      BY DEF JobTypes, JobSets, JobFields, JobFiles, JobInv, Uncreated
    <2>4. Terminates(j)'
      BY DEF JobTypes, JobSets, JobFields, JobFiles, JobInv, Uncreated, Terminates
    <2>5. Admits(j)'
      BY DEF JobTypes, JobSets, JobFields, JobFiles, JobInv, Uncreated, Terminates, Admits
    <2>6. Artifacts(j)'
      BY DEF JobTypes, JobSets, JobFields, JobFiles, JobInv, Uncreated, Terminates,
         Artifacts
    <2>7. QED
      BY <2>1, <2>2, <2>3, <2>4, <2>5, <2>6, KeptInv DEF JobInv
  <1>2. CASE ~UNCHANGED <<jst, ended, deadline, adm, active, done, file>>
    <2>1. /\ Finish(j, "completed", file) /\ j \notin ended /\ tpc[j] = "none"
          /\ run[j] = "persist" /\ comp[j] = "ok" /\ run' = [run EXCEPT ![j] = "end"]
          /\ comp' = IF j \in waits THEN comp ELSE [comp EXCEPT ![j] = "none"]
          /\ UNCHANGED <<tpc, disp, aborted, created, held, waits, pending, stopping_, sd,
                         stopFailed>>
      BY <1>2 DEF RunPersisted
    <2> HIDE DEF RunAt, RunFails, Contain, Untouched, Unfinished
    <2>2. /\ jst' = [jst EXCEPT ![j] = "completed"] /\ ended' = ended \union {j}
          /\ deadline' = [deadline EXCEPT ![j] = "off"]
          /\ adm' = IF j \in held THEN [adm EXCEPT ![j] = "released"] ELSE adm
          /\ active' = IF active = j THEN NoJob ELSE active
          /\ Listed(done') /\ ToSet(done') \subseteq ToSet(done) \union {j}
          /\ file' = [k \in Jobs |-> IF k \in ToSet(done) \ ToSet(done') THEN 0 ELSE file[k]]
      BY <2>1, FinishFacts
    <2>3. JobTypes'
      <3>1. JobSets'
        BY <2>1, <2>2 DEF JobTypes, JobSets
      <3>2. JobFields'
        BY <2>1, <2>2 DEF JobTypes, JobFields, JobStates
      <3>3. JobFiles'
        BY <2>1, <2>2 DEF JobTypes, JobFiles
      <3>4. QED
        BY <3>1, <3>2, <3>3 DEF JobTypes
    <2>4. ASSUME NEW k \in Jobs \ {j}
          PROVE  Kept(k)
      BY <2>1, <2>2 DEF JobTypes, JobSets, JobFields, JobFiles, Kept, Jobs, NoJob
    <2>5. JobInv(j)'
      BY <2>1, <2>2 DEF JobTypes, JobSets, JobFields, JobFiles, JobInv, Uncreated,
         Terminates,
                Admits, Artifacts, Jobs, NoJob
    <2>6. QED
      BY <2>3, <2>4, <2>5, KeptInv
  <1>3. QED
    BY <1>1, <1>2

\* A termination ends its job, which has not ended.
LEMMA TerminationEndsJobs ==
    ASSUME JobTypes, \A k \in Jobs : JobInv(k), NEW j \in Jobs, TerminationEnds(j)
    PROVE  JobTypes' /\ \A k \in Jobs : JobInv(k)'
  <1>1. /\ j \notin ended /\ j \in aborted /\ tpc[j] = "finish"
        /\ adm[j] = "refused" \/ j \in held
    BY DEF TerminationEnds, JobInv, Terminates, Admits
  <1>2. PICK state, files :
           /\ Finish(j, state, files) /\ state \in JobStates \ {"completed"}
           /\ \/ UNCHANGED pending /\ files = file
              \/ pending' = [pending EXCEPT ![j] = 0] /\ files = [file EXCEPT ![j] = 0]
    BY <1>1 DEF TerminationEnds, JobTypes, JobFields, JobStates
  <1>3. /\ tpc' = [tpc EXCEPT ![j] = "over"]
        /\ waits' = waits \ {j}
        /\ disp' = [disp EXCEPT ![j] = "none"]
        /\ comp' = IF run[j] = "persist" THEN comp ELSE [comp EXCEPT ![j] = "none"]
        /\ j \in waits => comp[j] \in Settled
        /\ UNCHANGED <<created, aborted, held, run, stopping_, sd, stopFailed>>
    BY DEF TerminationEnds
  <1>4. /\ jst' = [jst EXCEPT ![j] = state] /\ ended' = ended \union {j}
        /\ deadline' = [deadline EXCEPT ![j] = "off"]
        /\ adm' = IF j \in held THEN [adm EXCEPT ![j] = "released"] ELSE adm
        /\ active' = IF active = j THEN NoJob ELSE active
        /\ Listed(done') /\ ToSet(done') \subseteq ToSet(done) \union {j}
        /\ file' = [k \in Jobs |-> IF k \in ToSet(done) \ ToSet(done') THEN 0 ELSE files[k]]
    BY <1>1, <1>2, FinishFacts
  <1>5. JobTypes'
    <2>1. JobSets'
      BY <1>3, <1>4 DEF JobTypes, JobSets
    <2>2. JobFields'
      BY <1>2, <1>3, <1>4 DEF JobTypes, JobFields, JobStates
    <2>3. JobFiles'
      BY <1>2, <1>3, <1>4 DEF JobTypes, JobFiles
    <2>4. QED
      BY <2>1, <2>2, <2>3 DEF JobTypes
  <1>6. ASSUME NEW k \in Jobs \ {j}
        PROVE  Kept(k)
    <2>1. UNCHANGED pending[k] /\ files[k] = file[k]
      BY <1>2 DEF JobTypes, JobFiles
    <2>2. QED
      BY <1>3, <1>4, <2>1 DEF JobTypes, JobSets, JobFields, JobFiles, Kept, Jobs, NoJob
  <1>7. JobInv(j)'
    <2>1. Uncreated(j)'
      BY <1>1, <1>2, <1>3, <1>4 DEF JobTypes, JobSets, JobFields, JobFiles, JobInv,
         Uncreated, Jobs, NoJob
    <2>2. Terminates(j)'
      BY <1>1, <1>2, <1>3, <1>4 DEF JobTypes, JobSets, JobFields, JobFiles, JobInv,
         Terminates
    <2>3. Admits(j)'
      BY <1>1, <1>2, <1>3, <1>4 DEF JobTypes, JobSets, JobFields, JobFiles, JobInv, Admits
    <2>4. Artifacts(j)'
      BY <1>1, <1>2, <1>3, <1>4 DEF JobTypes, JobSets, JobFields, JobFiles, JobInv,
         Artifacts, Settled
    <2>5. QED
      BY <2>1, <2>2, <2>3, <2>4 DEF JobInv
  <1>8. QED
    BY <1>5, <1>6, <1>7, KeptInv

\* The steps that are of no one job: what is kept is pruned, the active job is
\* contained, the gateway's stage changes, or nothing of the jobs does.
RestStep ==
    \/ Get \/ Shutdown
    \/ /\ sd' \in {"up", "video", "service", "exit", "gone"}
       /\ UNCHANGED <<created, active, jst, done, ended, aborted, deadline, adm, held, run,
                      comp, tpc, disp, waits, pending, file, stopping_, stopFailed>>

\* They keep what is true of each job.
LEMMA RestJobs ==
    ASSUME JobTypes, \A k \in Jobs : JobInv(k), RestStep
    PROVE  JobTypes' /\ \A k \in Jobs : JobInv(k)'
  <1>1. CASE Get
    <2>1. Retained(done, file)
      BY <1>1, PruneFacts DEF JobTypes, JobFiles, Listed, Get
    <2>2. JobTypes'
      BY <1>1, <2>1 DEF Get, Retained, JobTypes, JobSets, JobFields, JobFiles
    <2>3. ASSUME NEW k \in Jobs
          PROVE  Kept(k)
      BY <1>1, <2>1 DEF Get, Retained, JobTypes, JobSets, JobFiles, Kept
    <2>4. QED
      BY <2>2, <2>3, KeptInv
  <1>2. CASE Shutdown
    <2>1. Retained(done, file)
      BY <1>2, PruneFacts DEF JobTypes, JobFiles, Listed, Shutdown
    <2>2. CASE active = NoJob
      <3>1. JobTypes'
        <4>1. JobSets' /\ JobFields'
          BY <1>2, <2>2 DEF Shutdown, Untouched, JobTypes, JobSets, JobFields
        <4>2. JobFiles'
          BY <1>2, <2>1 DEF Shutdown, Retained, JobTypes, JobFiles
        <4>3. QED
          BY <4>1, <4>2 DEF JobTypes
      <3>2. ASSUME NEW k \in Jobs
            PROVE  Kept(k)
        BY <1>2, <2>1, <2>2 DEF Shutdown, Untouched, Retained, JobTypes, JobSets, JobFiles,
           Kept
      <3>3. QED
        BY <3>1, <3>2, KeptInv
    <2>3. CASE active # NoJob
      <3>0. PICK j \in Jobs : j = active
        BY <2>3 DEF JobTypes, JobSets
      <3>1. j \notin ended /\ Contain(j, "cancelled")
        BY <1>2, <2>3, <3>0 DEF Shutdown, JobTypes, JobSets
      <3>2. /\ sd' = "video" /\ stopping_' = TRUE
            /\ UNCHANGED <<created, active, jst, ended, deadline, adm, held, run, comp,
                           waits, pending, stopFailed>>
        BY <1>2 DEF Shutdown
      <3>3. JobTypes'
        <4>1. JobSets'
          BY <3>1, <3>2 DEF Contain, JobTypes, JobSets
        <4>2. JobFields'
          BY <3>1, <3>2 DEF Contain, JobTypes, JobFields
        <4>3. JobFiles'
          BY <2>1, <3>2 DEF Retained, JobTypes, JobFiles
        <4>4. QED
          BY <4>1, <4>2, <4>3 DEF JobTypes
      <3>4. ASSUME NEW k \in Jobs \ {j}
            PROVE  Kept(k)
        BY <2>1, <3>1, <3>2 DEF Contain, Retained, JobTypes, JobSets, JobFields, JobFiles,
           Kept
      <3>5. JobInv(j)'
        <4>1. Uncreated(j)' /\ Terminates(j)'
          BY <3>0, <3>1, <3>2 DEF Contain, JobTypes, JobSets, JobFields, JobInv, Uncreated,
             Terminates
        <4>2. Admits(j)'
          BY <3>1, <3>2 DEF Contain, JobTypes, JobFields, JobInv, Admits
        <4>3. Artifacts(j)'
          BY <2>1, <3>1, <3>2 DEF Contain, Retained, JobTypes, JobFields, JobFiles, JobInv,
             Artifacts
        <4>4. QED
          BY <4>1, <4>2, <4>3 DEF JobInv
      <3>6. QED
        BY <3>3, <3>4, <3>5, KeptInv
    <2>4. QED
      BY <2>2, <2>3
  <1>3. CASE /\ sd' \in {"up", "video", "service", "exit", "gone"}
             /\ UNCHANGED <<created, active, jst, done, ended, aborted, deadline, adm, held,
                            run, comp, tpc, disp, waits, pending, file, stopping_, stopFailed>>
    <2>1. JobTypes'
      BY <1>3 DEF JobTypes, JobSets, JobFields, JobFiles
    <2>2. ASSUME NEW k \in Jobs
          PROVE  Kept(k)
      BY <1>3 DEF Kept
    <2>3. QED
      BY <2>1, <2>2, KeptInv
  <1>4. QED
    BY <1>1, <1>2, <1>3 DEF RestStep

\* What a step of the gateway does to job j.
JobStep(j) ==
    \/ Start(j) \/ Delete(j) \/ Terminate(j, "cancelled") \/ Terminate(j, "failed")
    \/ Deadline(j) \/ Grant(j) \/ Refuse(j)
    \/ RunAdmit(j) \/ RunReady(j) \/ RunSubmit(j) \/ RunPoll(j) \/ RunPersisted(j)
    \/ Prepared(j) \/ Written(j)
    \/ AdmissionSettled(j) \/ StopOver(j) \/ TerminationEnds(j)

\* Every step of the gateway is of one job, or one of those.
LEMMA NextIsJobStep ==
    ASSUME JobTypes, Next
    PROVE  RestStep \/ \E j \in Jobs : JobStep(j)
  <1>1. CASE Tasks
    <2>1. CASE \E j \in Jobs : Task(j)
      BY <2>1 DEF Task, JobStep
    <2>2. CASE \/ ReadyDropped \/ SupervisorsShutdown \/ ShutdownOver
               \/ Up /\ ServiceTask /\ UNCHANGED jobVars
      BY <2>2 DEF RestStep, ReadyDropped, SupervisorsShutdown, ShutdownOver, jobVars,
         JobTypes, JobSets
    <2>3. QED
      BY <1>1, <2>1, <2>2 DEF Tasks
  <1>2. CASE Events
    <2>1. CASE Request
      BY <2>1 DEF Request, JobStep, RestStep
    <2>2. CASE Service \/ GatewayGone \/ \E p \in Procs : Reap(p)
      BY <2>2 DEF RestStep, Service, GatewayGone, Reap, jobVars, JobTypes, JobSets
    <2>3. CASE \E j \in Jobs : Deadline(j) \/ Grant(j) \/ Refuse(j) \/ RunPoll(j) \/ Answer(j)
      BY <2>3 DEF Answer, JobStep
    <2>4. QED
      BY <1>2, <2>1, <2>2, <2>3 DEF Events
  <1>3. QED
    BY <1>1, <1>2 DEF Next

\* Every step keeps the types of the jobs' fields and what is true of each job.
LEMMA NextJobs ==
    ASSUME JobTypes, \A k \in Jobs : JobInv(k), Next
    PROVE  JobTypes' /\ \A k \in Jobs : JobInv(k)'
  <1>1. CASE RestStep
    BY <1>1, RestJobs
  <1>2. ASSUME NEW j \in Jobs, JobStep(j)
        PROVE  JobTypes' /\ \A k \in Jobs : JobInv(k)'
    <2>1. CASE Start(j) \/ Delete(j) \/ Deadline(j) \/ Grant(j) \/ Refuse(j)
      BY <2>1, StartJobs, DeleteJobs, DeadlineJobs, GrantJobs, RefuseJobs
    <2>2. CASE Terminate(j, "cancelled") \/ Terminate(j, "failed")
      BY <2>2, TerminateJobs
    <2>3. CASE RunAdmit(j) \/ RunReady(j) \/ RunSubmit(j) \/ RunPoll(j) \/ RunPersisted(j)
      BY <2>3, RunAdmitJobs, RunReadyJobs, RunSubmitJobs, RunPollJobs, RunPersistedJobs
    <2>4. CASE Prepared(j) \/ Written(j) \/ AdmissionSettled(j) \/ StopOver(j) \/ TerminationEnds(j)
      BY <2>4, PreparedJobs, WrittenJobs, AdmissionSettledJobs, StopOverJobs,
         TerminationEndsJobs
    <2>5. QED
      BY <1>2, <2>1, <2>2, <2>3, <2>4 DEF JobStep
  <1>3. QED
    BY <1>1, <1>2, NextIsJobStep

\* A kill that is under way is its termination's: the termination stays at its
\* stop until it has the result.
LEMMA StopsGoOn ==
    ASSUME JobTypes, \A k \in Jobs : JobInv(k), Next, NEW j \in Jobs, tpc[j] = "stop"
    PROVE  tpc'[j] = "stop" \/ StopOver(j)
  <1>1. CASE RestStep
    BY <1>1 DEF RestStep, Get, Shutdown, Contain, Untouched, JobTypes, JobFields
  <1>2. ASSUME NEW k \in Jobs, JobStep(k)
        PROVE  tpc'[j] = "stop" \/ StopOver(j)
    <2>1. CASE Start(k) \/ Delete(k) \/ Deadline(k) \/ Grant(k) \/ Refuse(k)
               \/ Terminate(k, "cancelled") \/ Terminate(k, "failed")
      BY <2>1 DEF Start, Delete, Deadline, Grant, Refuse, Terminate, Contain, JobTypes,
         JobFields
    <2>2. CASE RunAdmit(k) \/ RunReady(k) \/ RunSubmit(k) \/ RunPersisted(k)
      BY <2>2 DEF RunAdmit, RunReady, RunSubmit, RunPersisted, RunFails, Contain, Untouched,
                  JobTypes, JobFields
    <2>3. CASE RunPoll(k)
      BY <2>3 DEF RunPoll, RunFails, Contain, Untouched, JobTypes, JobFields
    <2>4. CASE Prepared(k) \/ Written(k) \/ AdmissionSettled(k) \/ TerminationEnds(k)
      BY <2>4 DEF Prepared, Written, AdmissionSettled, TerminationEnds, JobTypes, JobFields
    <2>5. CASE StopOver(k)
      BY <2>5 DEF StopOver, JobTypes, JobFields
    <2>6. QED
      BY <1>2, <2>1, <2>2, <2>3, <2>4, <2>5 DEF JobStep
  <1>3. QED
    BY <1>1, <1>2, NextIsJobStep

-----------------------------------------------------------------------------
(* The invariant *)

\* A kill belongs to a termination: only a termination calls it, and keeps to its stop
\* until it has collected the result.
LEMMA NextKillOwned ==
    ASSUME IInv, Next
    PROVE  (pc["stopper"] # "idle" => \E j \in Jobs : tpc[j] = "stop")'
  <1> SUFFICES ASSUME pc'["stopper"] # "idle"
               PROVE  \E j \in Jobs : tpc'[j] = "stop"
    OBVIOUS
  <1>0. JobTypes /\ ServiceTypeOK /\ ServiceInv /\ \A k \in Jobs : JobInv(k)
    BY TypeOKParts DEF IInv
  <1>1. CASE pc["stopper"] # "idle"
    <2>1. PICK j \in Jobs : tpc[j] = "stop"
      BY <1>1 DEF IInv
    <2>2. CASE StopOver(j)
      BY <2>2, <1>0 DEF StopOver, Collect, Goto, ServiceTypeOK, Callers
    <2>3. QED
      BY <1>0, <2>1, <2>2, StopsGoOn
  <1>2. CASE pc["stopper"] = "idle"
    <2>1. ASSUME NEW j \in Jobs, AdmissionSettled(j)
          PROVE  \E k \in Jobs : tpc'[k] = "stop"
      BY <1>2, <2>1, <1>0 DEF AdmissionSettled, JobTypes, JobFields, serviceVars
    <2>2. ASSUME UNCHANGED serviceVars \/ UNCHANGED faultless
          PROVE  FALSE
      BY <1>2, <2>2 DEF serviceVars, faultless
    <2>3. ASSUME ServiceTask \/ ServiceEvent
          PROVE  FALSE
      <3>1. ASSUME NEW f \in Callers, Call(f)
            PROVE  FALSE
        <4>1. f # "stopper"
          BY <1>2, <3>1 DEF Call, EnsureStopped, EnsureJoined, FirstStopOver, Joined,
             SecondStopOver
        <4>2. \E label : Goto(f, label)
          BY <3>1 DEF Call, EnsureStopped, EnsureJoined, Entered, Checked, FirstStopOver,
             Joined,
                      SecondStopOver
        <4>3. QED
          BY <1>0, <1>2, <4>1, <4>2 DEF Goto, ServiceTypeOK
      <3>2. CASE StopDone \/ Unwound \/ \E f \in Waiters : CleanupAwaited(f)
        BY <1>2, <3>2 DEF StopDone, Unwound, CleanupAwaited
      <3>3. CASE ServiceEvent
        BY <1>2, <3>3 DEF ServiceEvent, Prepare, Reserve, Spawn, Adopt, Healthy, Unhealthy,
                          StopFails, ProcessExit, Cleanup
      <3>4. QED
        BY <2>3, <3>1, <3>2, <3>3 DEF ServiceTask
    <2>4. ASSUME Collect("ready") \/ EnsureCall("ready") \/ ShutdownCall("closer")
          PROVE  FALSE
      BY <1>0, <1>2, <2>4 DEF Collect, EnsureCall, Entered, Checked, ShutdownCall, Goto,
                              ServiceTypeOK, Callers
    <2>5. ASSUME NEW j \in Jobs, JobStep(j)
          PROVE  \E k \in Jobs : tpc'[k] = "stop"
      <3>1. CASE Start(j) \/ Delete(j) \/ Deadline(j) \/ Refuse(j) \/ Terminate(j, "cancelled")
                 \/ Terminate(j, "failed") \/ RunAdmit(j) \/ RunSubmit(j) \/ RunPoll(j)
                 \/ RunPersisted(j) \/ Prepared(j) \/ Written(j) \/ TerminationEnds(j)
        BY <2>2, <3>1 DEF Start, Delete, Deadline, Refuse, Terminate, RunAdmit, RunSubmit,
           RunPoll,
                          RunPersisted, Prepared, Written, TerminationEnds
      <3>2. CASE Grant(j) \/ RunReady(j)
        BY <2>4, <3>2 DEF Grant, RunReady
      <3>3. CASE StopOver(j)
        BY <1>2, <3>3 DEF StopOver, Collect
      <3>4. QED
        BY <2>1, <2>5, <3>1, <3>2, <3>3 DEF JobStep
    <2>6. CASE Tasks
      <3>1. CASE ReadyDropped \/ SupervisorsShutdown
        BY <2>4, <3>1 DEF ReadyDropped, SupervisorsShutdown
      <3>2. CASE ShutdownOver
        BY <2>2, <3>2 DEF ShutdownOver
      <3>3. QED
        BY <2>3, <2>5, <2>6, <3>1, <3>2 DEF Tasks, Task, JobStep
    <2>7. CASE Events
      <3>1. CASE Get \/ Shutdown \/ GatewayGone \/ \E p \in Procs : Reap(p)
        BY <1>2, <2>2, <3>1 DEF Get, Shutdown, GatewayGone, Reap
      <3>2. QED
        BY <2>3, <2>5, <2>7, <3>1 DEF Events, Request, Service, Answer, JobStep
    <2>8. QED
      BY <2>6, <2>7 DEF Next
  <1>3. QED
    BY <1>1, <1>2

\* The invariant holds when the gateway starts,
LEMMA InitIInv == Init => IInv
  <1> SUFFICES ASSUME Init
               PROVE  IInv
    OBVIOUS
  <1> USE ServiceAssumption, VideoAssumption DEF Init, ServiceInit
  <1>0. cancelled \in BOOLEAN /\ shuttingDown \in BOOLEAN /\ stopping_ \in BOOLEAN
    BY Zenon
  <1>1. ServiceTypeOK
    <2>1. Scalars
      <3>1. /\ life = "idle" /\ phase = "none" /\ verdict = "none"
            /\ proc = 0 /\ resv = 0 /\ startup = 0 /\ stopping = 0 /\ crashes = 0 /\ faults = 0
        OBVIOUS
      <3> HIDE DEF Init
      <3>2. QED
        BY <1>0, <3>1 DEF Scalars, Lives, Phases
    <2>2. Tables
      BY DEF Tables, Labels, Outcomes
    <2>3. QED
      BY <2>1, <2>2, TypeParts
  <1>2. Listed(done) /\ ToSet(done) = {}
    BY DEF Listed, IsInjective, ToSet
  <1>3. JobTypes
    <2>1. JobSets
      <3>1. /\ created = 0 /\ active = NoJob /\ ended = {} /\ aborted = {} /\ held = {} /\ waits = {}
            /\ sd = "up" /\ stopFailed = {}
        OBVIOUS
      <3> HIDE DEF Init
      <3>2. QED
        BY <1>0, <3>1 DEF JobSets
    <2>2. JobFields
      BY DEF JobFields, JobStates
    <2>3. JobFiles
      BY <1>2 DEF JobFiles
    <2>4. QED
      BY <2>1, <2>2, <2>3 DEF JobTypes
  <1>4. ServiceInv
    BY DEF ServiceInv, Labelled, OneProcess, Stops, Awaits, Counts, Kills, Closes, AllGone,
       Callers,
           Waiters, Nothing, Stop, Procs, Early, Live, Returned
  <1>5. \A j \in Jobs : JobInv(j)
    BY <1>2 DEF JobInv, Uncreated, Terminates, Admits, Artifacts, Jobs, NoJob
  <1>6. QED
    BY <1>1, <1>3, <1>4, <1>5, TypeOKParts DEF IInv, Callers

\* every step keeps it,
LEMMA NextIInv == IInv /\ [Next]_vars => IInv'
  <1> SUFFICES ASSUME IInv, [Next]_vars
               PROVE  IInv'
    OBVIOUS
  <1>1. CASE Next
    <2>1. JobTypes /\ ServiceTypeOK /\ ServiceInv /\ \A k \in Jobs : JobInv(k)
      BY TypeOKParts DEF IInv
    <2>2. ServiceStep
      BY <1>1, NextIsServiceStep
    <2>3. ServiceTypeOK'
      BY <2>1, <2>2, NextTables, NextScalars DEF ServiceTypeOK, Scalars, Tables
    <2>4. ServiceInv'
      BY <2>1, <2>2, NextLabelled, NextOneProcess, NextStops, NextAwaits, NextCounts,
         NextKills,
         NextCloses DEF ServiceInv
    <2>5. JobTypes' /\ \A k \in Jobs : JobInv(k)'
      BY <1>1, <2>1, NextJobs
    <2>6. TypeOK'
      BY <2>3, <2>5 DEF TypeOK, JobTypes, JobSets, JobFields, JobFiles, Listed
    <2>7. QED
      BY <1>1, <2>4, <2>5, <2>6, NextKillOwned DEF IInv
  <1>2. CASE UNCHANGED vars
    <2>1. ServiceTypeOK' /\ JobTypes'
      BY <1>2, TypeOKParts DEF IInv, vars, serviceVars, jobVars, ServiceTypeOK, JobTypes,
         JobSets, JobFields, JobFiles
    <2>2. ServiceInv'
      BY <1>2 DEF IInv, vars, serviceVars, ServiceInv, Labelled, OneProcess, Stops, Awaits,
         Counts,
         Kills, Closes, AllGone, Live, Returned
    <2>3. ASSUME NEW k \in Jobs
          PROVE  JobInv(k)'
      BY <1>2, KeptInv DEF IInv, Kept, vars, jobVars
    <2>4. TypeOK'
      BY <2>1 DEF TypeOK, JobTypes, JobSets, JobFields, JobFiles, Listed
    <2>5. QED
      BY <1>2, <2>2, <2>3, <2>4 DEF IInv, vars, serviceVars, jobVars
  <1>3. QED
    BY <1>1, <1>2

\* and so it always holds.
LEMMA Invariance == Spec => []IInv
  BY InitIInv, NextIInv, PTL DEF Spec

-----------------------------------------------------------------------------
(* The theorems *)

\* Every variable of the supervisor and of the jobs keeps its type, the active
\* job has not ended, and the retained jobs have, each listed once.
THEOREM TypeCorrect == Spec => []TypeOK
  <1>1. IInv => TypeOK
    BY DEF IInv
  <1>2. QED
    BY <1>1, Invariance, PTL

\* An admission is given back by the time its job is terminal, and never while
\* the job's own kill is under way.
THEOREM AdmissionOutlives == Spec => []AdmissionOutlivesKill
  <1>1. IInv => AdmissionOutlivesKill
    BY DEF IInv, TypeOK, JobInv, Admits, AdmissionOutlivesKill
  <1>2. QED
    BY <1>1, Invariance, PTL

\* A completed job that is retained has its file, and what a terminal job has on
\* disk is counted.
THEOREM RetainedHaveFiles == Spec => []FilesCounted
  <1>1. IInv => FilesCounted
    <2> SUFFICES ASSUME IInv, NEW j \in ToSet(done)
                 PROVE  /\ jst[j] = "completed" => file[j] = pending[j] /\ file[j] > 0
                        /\ file[j] <= pending[j]
      BY DEF FilesCounted
    <2>0. JobTypes
      BY TypeOKParts DEF IInv
    <2>1. j \in Jobs /\ pending[j] \in Nat
      <3>1. j \in Jobs
        BY <2>0 DEF JobTypes, JobSets, JobFiles
      <3>2. Sizes \union {0} \subseteq Nat
        BY VideoAssumption
      <3>3. QED
        BY <2>0, <3>1, <3>2 DEF JobTypes, JobFiles
    <2>2. Artifacts(j)
      BY <2>1 DEF IInv, JobInv
    <2>3. QED
      BY <2>1, <2>2 DEF Artifacts
  <1>2. QED
    BY <1>1, Invariance, PTL

\* The state of a job that has ended is never replaced.
THEOREM OneOutcomeHolds == Spec => OneOutcome
  <1>1. ASSUME IInv, [Next]_vars
        PROVE  [\A j \in ended : jst'[j] = jst[j] /\ j \in ended']_vars
    <2>0. JobTypes /\ \A k \in Jobs : JobInv(k)
      BY <1>1, TypeOKParts DEF IInv
    <2> SUFFICES ASSUME Next, NEW j \in ended
                 PROVE  jst'[j] = jst[j] /\ j \in ended'
      BY <1>1
    <2>1. j \in Jobs
      BY <2>0 DEF JobTypes, JobSets
    <2>2. CASE RestStep
      BY <2>2 DEF RestStep, Get, Shutdown
    <2>3. ASSUME NEW k \in Jobs, JobStep(k)
          PROVE  jst'[j] = jst[j] /\ j \in ended'
      <3> USE <2>0 DEF JobTypes, JobFields
      <3>1. CASE Delete(k) \/ Terminate(k, "cancelled") \/ Terminate(k, "failed")
                 \/ Deadline(k) \/ Grant(k) \/ Refuse(k) \/ RunAdmit(k) \/ RunReady(k)
                 \/ Prepared(k) \/ Written(k) \/ AdmissionSettled(k) \/ StopOver(k)
        BY <3>1 DEF Delete, Terminate, Deadline, Grant, Refuse, RunAdmit, RunReady,
                    Prepared, Written, AdmissionSettled, StopOver
      <3>2. CASE Start(k)
        BY <2>1, <3>2 DEF Start, JobSets, JobInv, Uncreated, Jobs
      <3>3. k \in ended /\ run[k] # "end" => tpc[k] = "over" /\ k \in aborted
        BY DEF JobInv, Terminates
      <3>4. CASE RunSubmit(k)
        BY <2>1, <3>3, <3>4 DEF RunSubmit
      <3>5. CASE RunPoll(k)
        <4>1. CASE k = j
          BY <3>3, <3>5, <4>1 DEF RunPoll, Unfinished
        <4>2. CASE k # j
          BY <2>1, <3>5, <4>2 DEF RunPoll, Unfinished, Finish
        <4>3. QED
          BY <4>1, <4>2
      <3>6. CASE RunPersisted(k)
        BY <2>1, <3>6 DEF RunPersisted, Unfinished, Finish
      <3>7. CASE TerminationEnds(k)
        <4>1. k \notin ended
          BY <3>7 DEF TerminationEnds, JobInv, Terminates
        <4>2. QED
          BY <2>1, <3>7, <4>1 DEF TerminationEnds, Unfinished, Finish
      <3>8. QED
        BY <2>3, <3>1, <3>2, <3>4, <3>5, <3>6, <3>7 DEF JobStep
    <2>4. QED
      BY <2>0, <2>2, <2>3, NextIsJobStep
  <1>2. QED
    BY <1>1, Invariance, PTL DEF Spec, OneOutcome

\* When a termination has the result of its kill, no backend runs.
THEOREM KilledMeansDownHolds == Spec => KilledMeansDown
  <1>1. ASSUME IInv, [Next]_vars
        PROVE  [\A j \in Jobs : tpc[j] = "stop" /\ tpc'[j] = "finish" => Live = {}]_vars
    <2>0. JobTypes /\ \A k \in Jobs : JobInv(k)
      BY <1>1, TypeOKParts DEF IInv
    <2> SUFFICES ASSUME Next, NEW j \in Jobs, tpc[j] = "stop", tpc'[j] = "finish"
                 PROVE  Live = {}
      BY <1>1
    <2>1. StopOver(j)
      BY <2>0, StopsGoOn
    <2>2. pc["stopper"] = "ok"
      BY <2>0, <2>1 DEF StopOver, JobTypes, JobFields
    <2>3. QED
      BY <1>1, <2>2 DEF IInv, ServiceInv, Kills
  <1>2. QED
    BY <1>1, Invariance, PTL DEF Spec, KilledMeansDown

-----------------------------------------------------------------------------
(* The supervisor implements Backend *)

\* Nothing that Backend speaks of changes.
Stutters ==
    /\ UNCHANGED st
    /\ resv' = 0 <=> resv = 0
    /\ pc'["closer"] = "ok" <=> pc["closer"] = "ok"

\* Then it is no step of Backend.
LEMMA StuttersMapped ==
    ASSUME Stutters
    PROVE  UNCHANGED BackendSpec!backendVars
  BY DEF Stutters, BackendSpec!backendVars, Live

\* A process that comes to life while none runs is a step of Backend,
LEMMA SpawnMapped ==
    ASSUME ServiceTypeOK, NEW p \in Procs, Live = {}, resv # 0, st' = [st EXCEPT ![p] = "live"],
           resv' # 0, pc["closer"] # "ok", UNCHANGED pc
    PROVE  BackendSpec!Spawn(p)
  <1>1. Live' = {p}
    BY DEF Live, ServiceTypeOK
  <1>2. QED
    BY <1>1 DEF BackendSpec!Spawn

\* and so is the exit of the one that runs.
LEMMA ExitMapped ==
    ASSUME ServiceTypeOK, ServiceInv, NEW p \in Procs, st[p] = "live",
           st' = [st EXCEPT ![p] = "exited"], UNCHANGED <<resv, pc>>
    PROVE  BackendSpec!Exit(p)
  <1>1. Live = {p}
    BY DEF Live, ServiceInv, OneProcess
  <1>2. Live' = {}
    BY <1>1 DEF Live, ServiceTypeOK
  <1>3. QED
    BY <1>1, <1>2 DEF BackendSpec!Exit

\* The attempt that ends without a process gives its reservation back.
LEMMA ForgottenMapped ==
    ASSUME ServiceTypeOK, ServiceInv, phase \in {"prepare", "reserve", "spawn"},
           StartCancelled \/ StartRefused \/ StartFailed, UNCHANGED <<st, pc>>
    PROVE  UNCHANGED BackendSpec!backendVars \/ BackendSpec!Release
  <1>1. startup # 0 /\ st[startup] = "gone" /\ startup \in Procs
    BY DEF ServiceTypeOK, ServiceInv, OneProcess
  <1>2. resv' = IF resv = startup THEN 0 ELSE resv
    BY DEF StartCancelled, StartRefused, StartFailed, Forgotten
  <1>3. CASE resv # startup
    <2>1. Stutters
      BY <1>2, <1>3 DEF Stutters
    <2>2. QED
      BY <2>1, StuttersMapped
  <1>4. CASE resv = startup
    <2>1. Live = {} /\ Live' = {}
      BY <1>1, <1>4 DEF Live, ServiceInv, OneProcess
    <2>2. QED
      BY <1>1, <1>2, <1>4, <2>1 DEF BackendSpec!Release
  <1>5. QED
    BY <1>3, <1>4

\* Every step of the supervisor is a step of Backend or none: it reserves before it
\* spawns, spawns while nothing runs, releases once the process is down, and closes with
\* nothing left.
LEMMA StepMapped ==
    ASSUME ServiceTypeOK, ServiceInv, ServiceInv', ServiceStep
    PROVE  BackendSpec!Next \/ UNCHANGED BackendSpec!backendVars
  <1> USE DEF ServiceTypeOK, Callers
  <1>1. CASE StopDone \/ Unwound \/ (\E f \in Waiters : CleanupAwaited(f))
    <2>1. Stutters
      BY <1>1 DEF StopDone, Unwound, CleanupAwaited, Stutters
    <2>2. QED
      BY <2>1, StuttersMapped
  <1>2. CASE EnsureAction
    <2>1. EnsureTurn
      BY <1>2, EnsureFacts
    <2>2. Stutters
      BY <2>1 DEF EnsureTurn, notNewAttempt, Stutters
    <2>3. QED
      BY <2>2, StuttersMapped
  <1>3. ASSUME NEW f \in Callers, FirstStopOver(f) \/ Joined(f)
        PROVE  UNCHANGED BackendSpec!backendVars
    <2>1. /\ UNCHANGED <<st, resv>>
          /\ \E label \in {"kJoin", "sJoin", "err", "k2", "s2"} : Goto(f, label)
      BY <1>3 DEF FirstStopOver, Joined, callOnly
    <2>2. pc[f] # "ok"
      BY <1>3 DEF FirstStopOver, Joined
    <2>3. Stutters
      BY <2>1, <2>2 DEF Goto, Stutters
    <2>4. QED
      BY <2>3, StuttersMapped
  <1>4. ASSUME NEW f \in {"ready", "stopper"}, Collect(f) \/ SecondStopOver(f)
        PROVE  UNCHANGED BackendSpec!backendVars
    <2>1. Stutters
      BY <1>4 DEF Collect, SecondStopOver, Goto, callOnly, Stutters
    <2>2. QED
      BY <2>1, StuttersMapped
  <1>5. CASE SecondStopOver("closer")
    <2>1. UNCHANGED <<st, resv, startup>> /\ pc["closer"] \in {"k2", "s2"}
      BY <1>5 DEF SecondStopOver
    <2>2. CASE pc'["closer"] # "ok"
      <3>1. Stutters
        BY <2>1, <2>2 DEF Stutters
      <3>2. QED
        BY <3>1, StuttersMapped
    <2>3. CASE pc'["closer"] = "ok"
      <3>1. \A p \in Procs : st[p] = "gone"
        BY <2>1, <2>3 DEF ServiceInv, Closes, AllGone
      <3>2. startup = 0
        BY <2>1 DEF ServiceInv, Closes, Labelled
      <3>3. Live = {} /\ Live' = {} /\ resv = 0 /\ resv' = 0
        BY <2>1, <3>1, <3>2, ServiceAssumption DEF Live, ServiceInv, OneProcess, Procs
      <3>4. QED
        BY <2>3, <3>3 DEF BackendSpec!Close, BackendSpec!Next
    <2>4. QED
      BY <2>2, <2>3
  <1>6. CASE KillCall("stopper") \/ ShutdownCall("closer")
    <2>1. Stutters
      BY <1>6 DEF KillCall, ShutdownCall, Goto, Stutters
    <2>2. QED
      BY <2>1, StuttersMapped
  <1>7. CASE Prepare
    <2>1. CASE UNCHANGED resv
      BY <1>7, <2>1, StuttersMapped DEF Prepare, Stutters
    <2>2. CASE StartCancelled \/ StartRefused \/ StartFailed
      BY <1>7, <2>2, ForgottenMapped DEF Prepare, BackendSpec!Next
    <2>3. QED
      BY <1>7, <2>1, <2>2 DEF Prepare
  <1>8. CASE Reserve
    <2>1. CASE StartCancelled \/ StartRefused \/ StartFailed
      BY <1>8, <2>1, ForgottenMapped DEF Reserve, BackendSpec!Next
    <2>2. CASE resv = 0 /\ resv' = startup
      <3>1. startup # 0 /\ pc["closer"] # "ok"
        BY <1>8 DEF Reserve, ServiceInv, OneProcess, Closes
      <3>2. UNCHANGED <<st, pc>>
        BY <1>8 DEF Reserve
      <3>3. QED
        BY <2>2, <3>1, <3>2 DEF BackendSpec!Reserve, BackendSpec!Next, Live
    <2>3. QED
      BY <1>8, <2>1, <2>2 DEF Reserve
  <1>9. CASE Spawn
    <2>1. CASE StartCancelled \/ StartFailed
      <3>1. UNCHANGED <<st, pc>> \/ phase' = "adopt"
        BY <1>9 DEF Spawn
      <3>2. phase' = "none" /\ phase = "spawn"
        BY <1>9, <2>1 DEF Spawn, StartCancelled, StartFailed, Settle
      <3>3. QED
        BY <2>1, <3>1, <3>2, ForgottenMapped DEF BackendSpec!Next
    <2>2. CASE st' = [st EXCEPT ![startup] = "live"] /\ UNCHANGED resv
      <3>1. /\ startup \in Procs /\ resv = startup /\ startup # 0
            /\ st[startup] = "gone" /\ pc["closer"] # "ok" /\ UNCHANGED pc
        BY <1>9 DEF Spawn, ServiceInv, OneProcess, Closes
      <3>2. Live = {}
        BY <3>1 DEF Live, ServiceInv, OneProcess
      <3>3. BackendSpec!Spawn(startup)
        BY <2>2, <3>1, <3>2, SpawnMapped
      <3>4. QED
        BY <3>1, <3>3 DEF BackendSpec!Next
    <2>3. QED
      BY <1>9, <2>1, <2>2 DEF Spawn
  <1>10. CASE Adopt \/ Healthy \/ Unhealthy \/ StopFails
    <2>1. Stutters
      BY <1>10 DEF Adopt, Healthy, Unhealthy, StopFails, Stutters
    <2>2. QED
      BY <2>1, StuttersMapped
  <1>11. ASSUME NEW p \in Procs, ProcessExit(p) \/ Reap(p)
         PROVE  BackendSpec!Next
    BY <1>11, ExitMapped DEF ProcessExit, Reap, BackendSpec!Next
  <1>12. ASSUME NEW p \in Procs, Cleanup(p)
         PROVE  BackendSpec!Next
    <2>1. st[p] = "exited" /\ st' = [st EXCEPT ![p] = "gone"] /\ UNCHANGED pc
      BY <1>12 DEF Cleanup
    <2>2. resv = p /\ resv' = 0
      BY <1>12, <2>1 DEF Cleanup, ServiceInv, OneProcess
    <2>3. Live = {} /\ Live' = {}
      BY <2>1, <2>2 DEF Live, ServiceInv, OneProcess
    <2>4. p # 0
      BY ServiceAssumption DEF Procs
    <2>5. QED
      BY <2>1, <2>2, <2>3, <2>4 DEF BackendSpec!Release, BackendSpec!Next
  <1>13. CASE UNCHANGED faultless
    <2>1. Stutters
      BY <1>13 DEF faultless, callOnly, Stutters
    <2>2. QED
      BY <2>1, StuttersMapped
  <1>14. ASSUME NEW f \in Callers, Call(f)
         PROVE  BackendSpec!Next \/ UNCHANGED BackendSpec!backendVars
    BY <1>2, <1>3, <1>4, <1>5, <1>14 DEF Call, EnsureAction
  <1>15. QED
    BY <1>1, <1>2, <1>4, <1>6, <1>7, <1>8, <1>9, <1>10, <1>11, <1>12, <1>13, <1>14
       DEF ServiceStep, ServiceEvent, EnsureAction

\* The supervisor keeps the promise of a supervised backend: each of its steps, and
\* each step of the jobs, the gateway and the guardians, is a step of Backend or none.
THEOREM BackendImplemented == Spec => ImplementsBackend
  <1>1. Init => BackendSpec!Init
    BY DEF Init, ServiceInit, BackendSpec!Init, Live, Callers
  <1>2. ASSUME IInv, IInv', [Next]_vars
        PROVE  [BackendSpec!Next]_(BackendSpec!backendVars)
    <2>1. CASE Next
      <3>1. ServiceTypeOK /\ ServiceInv /\ ServiceInv'
        BY <1>2, TypeOKParts DEF IInv
      <3>2. QED
        BY <2>1, <3>1, NextIsServiceStep, StepMapped
    <2>2. CASE UNCHANGED vars
      <3>1. Stutters
        BY <2>2 DEF vars, serviceVars, Stutters
      <3>2. QED
        BY <3>1, StuttersMapped
    <2>3. QED
      BY <1>2, <2>1, <2>2
  <1>3. QED
    BY <1>1, <1>2, Invariance, PTL DEF Spec, ImplementsBackend, BackendSpec!Spec

-----------------------------------------------------------------------------
(* The bytes on disk *)

\* What prune and makeRoomForArtifact count: the artifacts of the retained jobs, and that
\* of the job that has not ended.
Charged == ToSet(done) \union (Jobs \ ended)

\* Only a counted job has a file, only the active job has not ended, and the counted
\* bytes, each artifact's among them, are within the limit.
DiskInv ==
    /\ \A j \in ended : j \in ToSet(done) \/ file[j] = 0
    /\ \A j \in 1..created : j \in ended \/ j = active
    /\ \A j \in Jobs : pending[j] <= MaxTotal
    /\ Cardinality(Bytes(pending, Charged)) <= MaxTotal

\* The bytes of some jobs are no more than those of more jobs with more bytes.
LEMMA BytesNested ==
    ASSUME NEW S \in SUBSET Jobs, NEW T \in SUBSET Jobs, NEW f, NEW g,
           \A j \in S : f[j] \in Nat /\ g[j] \in Nat /\ f[j] <= g[j] /\ (j \in T \/ f[j] = 0)
    PROVE  Bytes(f, S) \subseteq Bytes(g, T)
  <1> SUFFICES ASSUME NEW j \in S, NEW i \in 1..f[j]
               PROVE  <<j, i>> \in Bytes(g, T)
    BY DEF Bytes
  <1>1. j \in T /\ i \in 1..g[j]
    OBVIOUS
  <1>2. QED
    BY <1>1 DEF Bytes

\* Bytes within a limit can be counted.
LEMMA BytesFinite ==
    ASSUME NEW S \in SUBSET Jobs, NEW f, NEW m \in Nat, \A j \in S : f[j] \in Nat /\ f[j] <= m
    PROVE  IsFiniteSet(Bytes(f, S)) /\ Cardinality(Bytes(f, S)) \in Nat
  <1>1. IsFiniteSet(Jobs) /\ IsFiniteSet(1..m)
    <2>1. 1 \in Int /\ m \in Int /\ MaxJobs \in Int
      BY VideoAssumption
    <2>2. IsFiniteSet(1..m) /\ IsFiniteSet(1..MaxJobs)
      BY <2>1, FS_Interval, Zenon
    <2>3. QED
      BY <2>2 DEF Jobs
  <1>2. IsFiniteSet(Jobs \X (1..m))
    BY <1>1, FS_Product
  <1>3. Bytes(f, S) \subseteq Jobs \X (1..m)
    <2> SUFFICES ASSUME NEW j \in S, NEW i \in 1..f[j]
                 PROVE  j \in Jobs /\ i \in 1..m
      BY DEF Bytes
    <2>1. QED
      OBVIOUS
  <1>4. QED
    BY <1>2, <1>3, FS_Subset, FS_CardinalityType

\* One job has as many bytes as it says.
LEMMA BytesOfOne ==
    ASSUME NEW j \in Jobs, NEW f, f[j] \in Nat
    PROVE  IsFiniteSet(Bytes(f, {j})) /\ Cardinality(Bytes(f, {j})) = f[j]
  <1> DEFINE S == Bytes(f, {j})
             b == [i \in 1..f[j] |-> <<j, i>>]
  <1>1. IsFiniteSet(1..f[j]) /\ Cardinality(1..f[j]) = f[j]
    <2>1. 1 \in Int /\ f[j] \in Int
      OBVIOUS
    <2>2. /\ IsFiniteSet(1..f[j])
          /\ Cardinality(1..f[j]) = IF 1 > f[j] THEN 0 ELSE f[j] - 1 + 1
      BY <2>1, FS_Interval, Zenon
    <2>3. QED
      BY <2>2
  <1>2. S = {<<j, i>> : i \in 1..f[j]}
    BY DEF Bytes
  <1>3. b \in Bijection(1..f[j], S)
    BY <1>2 DEF Bijection, Injection, Surjection, IsInjective
  <1>4. QED
    BY <1>1, <1>3, FS_Bijection DEF ExistsBijection

\* Sizes are natural numbers.
LEMMA SizesNat ==
    ASSUME JobTypes
    PROVE  MaxTotal \in Nat /\ \A k \in Jobs : pending[k] \in Nat /\ file[k] \in Nat
  <1>1. Sizes \union {0} \subseteq Nat /\ MaxTotal \in Nat
    BY VideoAssumption
  <1>2. QED
    BY <1>1 DEF JobTypes, JobFiles

\* A step that counts no more jobs, nor more bytes for any of them, stays within the limit.
LEMMA CountsLess ==
    ASSUME JobTypes, DiskInv, JobTypes',
           \A k \in Jobs : pending'[k] = pending[k] \/ pending'[k] = 0,
           ended \subseteq ended', ToSet(done') \subseteq Charged
    PROVE  /\ \A k \in Jobs : pending'[k] <= MaxTotal
           /\ Cardinality(Bytes(pending, Charged))' <= MaxTotal
  <1>1. MaxTotal \in Nat /\ \A k \in Jobs : pending[k] \in Nat /\ pending'[k] \in Nat
    BY SizesNat
  <1>2. Charged' \subseteq Charged /\ Charged \subseteq Jobs
    BY DEF Charged, JobTypes, JobSets, JobFiles
  <1>3. \A k \in Jobs : pending'[k] <= pending[k] /\ pending'[k] <= MaxTotal
    BY <1>1 DEF DiskInv
  <1>4. Bytes(pending', Charged') \subseteq Bytes(pending, Charged)
    BY <1>1, <1>2, <1>3, BytesNested
  <1>5. IsFiniteSet(Bytes(pending, Charged)) /\ Cardinality(Bytes(pending, Charged)) \in Nat
    BY <1>1, <1>2, BytesFinite DEF DiskInv
  <1>6. Cardinality(Bytes(pending', Charged')) \in Nat
        /\ Cardinality(Bytes(pending', Charged')) <= Cardinality(Bytes(pending, Charged))
    BY <1>4, <1>5, FS_Subset, FS_CardinalityType
  <1>7. Cardinality(Bytes(pending', Charged')) <= MaxTotal
    BY <1>1, <1>5, <1>6 DEF DiskInv
  <1>8. QED
    BY <1>3, <1>7

\* A step that drops retained jobs, with their files.
LEMMA RetainDisk ==
    ASSUME JobTypes, DiskInv, JobTypes', Retained(done, file), UNCHANGED <<pending, ended>>,
           \A k \in 1..created' : k \in 1..created \/ k = active',
           active' # active => active = NoJob
    PROVE  DiskInv'
  <1>1. /\ \A k \in Jobs : pending'[k] <= MaxTotal
        /\ Cardinality(Bytes(pending, Charged))' <= MaxTotal
    BY CountsLess DEF Retained, Charged
  <1>2. \A k \in ended' : k \in ToSet(done') \/ file'[k] = 0
    BY DEF Retained, DiskInv, JobTypes, JobSets, JobFiles
  <1>3. \A k \in 1..created' : k \in ended' \/ k = active'
    BY VideoAssumption DEF DiskInv, JobTypes, JobSets, Jobs, NoJob
  <1>4. QED
    BY <1>1, <1>2, <1>3 DEF DiskInv

\* A job that ends is retained: the others are older.
LEMMA FinishRetains ==
    ASSUME JobTypes, NEW j \in Jobs, j \notin ended, NEW state, NEW files, Finish(j, state, files)
    PROVE  j \in ToSet(done')
  <1> DEFINE s == Append(done, j)
  <1>1. done \in Seq(Jobs) /\ Len(done) \in Nat /\ s \in Seq(Jobs) /\ Len(s) = Len(done) + 1
        /\ s[Len(s)] = j
    BY DEF JobTypes, JobFiles, Listed
  <1>2. PICK e \in 0..Len(done) :
           Retain(Newest(s, IF Len(s) > MaxTerminal + e THEN Len(s) - MaxTerminal ELSE e), files)
    BY DEF Finish, Prune
  <1> DEFINE k == IF Len(s) > MaxTerminal + e THEN Len(s) - MaxTerminal ELSE e
  <1>3. k \in 0..Len(s) /\ k < Len(s)
    BY <1>1, VideoAssumption
  <1>4. done' = SubSeq(s, k + 1, Len(s))
    BY <1>2 DEF Retain, Newest
  <1> HIDE DEF k, s
  <1>5. done' \in Seq(Jobs) /\ Len(done') = Len(s) - k
        /\ \A i \in 1..Len(s) - k : done'[i] = s[i + k]
    BY <1>1, <1>3, <1>4, TailOf
  <1>6. Len(s) - k \in 1..Len(done') /\ (Len(s) - k) + k = Len(s)
    BY <1>1, <1>3, <1>5
  <1>7. done'[Len(s) - k] = j
    BY <1>1, <1>5, <1>6
  <1>8. QED
    BY <1>5, <1>6, <1>7 DEF ToSet

\* A step that ends the job j.
LEMMA FinishDisk ==
    ASSUME JobTypes, DiskInv, JobTypes', NEW j \in Jobs, j \notin ended, NEW state, NEW files,
           Finish(j, state, files), created' = created,
           \/ UNCHANGED pending /\ files = file
           \/ pending' = [pending EXCEPT ![j] = 0] /\ files = [file EXCEPT ![j] = 0]
    PROVE  DiskInv'
  <1>1. /\ ended' = ended \union {j} /\ ToSet(done') \subseteq ToSet(done) \union {j}
        /\ active' = IF active = j THEN NoJob ELSE active
        /\ file' = [k \in Jobs |-> IF k \in ToSet(done) \ ToSet(done') THEN 0 ELSE files[k]]
    BY FinishFacts
  <1>2. \A k \in Jobs : (pending'[k] = pending[k] \/ pending'[k] = 0) /\ (k # j => files[k] = file[k])
    BY DEF JobTypes, JobFiles
  <1>3. /\ \A k \in Jobs : pending'[k] <= MaxTotal
        /\ Cardinality(Bytes(pending, Charged))' <= MaxTotal
    BY <1>1, <1>2, CountsLess DEF Charged
  <1>4. \A k \in ended' : k \in ToSet(done') \/ file'[k] = 0
    BY <1>1, <1>2, FinishRetains DEF DiskInv, JobTypes, JobSets
  <1>5. \A k \in 1..created' : k \in ended' \/ k = active'
    BY <1>1 DEF DiskInv
  <1>6. QED
    BY <1>3, <1>4, <1>5 DEF DiskInv

\* Room is made for an artifact before it is counted.
LEMMA PreparedDisk ==
    ASSUME JobTypes, \A k \in Jobs : JobInv(k), DiskInv, JobTypes', NEW j \in Jobs, Prepared(j)
    PROVE  DiskInv'
  <1>1. UNCHANGED <<created, active, ended>> /\ comp[j] = "prepare"
    BY DEF Prepared
  <1>2. CASE UNCHANGED <<done, file, pending>>
    BY <1>1, <1>2 DEF DiskInv, Charged
  <1>3. ASSUME NEW n \in Sizes, n <= MaxTotal, MakeRoom(n), pending' = [pending EXCEPT ![j] = n]
        PROVE  DiskInv'
    <2>1. Retained(done, file)
      BY <1>3, MakeRoomFacts DEF JobTypes, JobFiles
    <2>2. n \in Nat /\ MaxTotal \in Nat /\ \A k \in Jobs : pending[k] \in Nat /\ pending[k] <= MaxTotal
      BY VideoAssumption, SizesNat DEF DiskInv
    <2>3. ArtifactBytes(done') + n <= MaxTotal
      BY <1>3 DEF MakeRoom, Fits, Retain
    <2>4. ToSet(done') \subseteq Jobs /\ j \notin ToSet(done') /\ j \notin ended /\ j \in 1..created
      <3>1. j \notin ended /\ ~(j > created)
        BY <1>1 DEF JobInv, Artifacts, Uncreated
      <3>2. ToSet(done') \subseteq ended /\ ended \subseteq Jobs
        BY <2>1 DEF Retained, JobTypes, JobSets, JobFiles
      <3>3. j \in 1..created
        BY <3>1, VideoAssumption DEF JobTypes, JobSets, Jobs
      <3>4. QED
        BY <3>1, <3>2, <3>3
    <2>5. \A k \in Jobs \ {j} : k \notin ended => pending[k] = 0
      <3> SUFFICES ASSUME NEW k \in Jobs \ {j}, k \notin ended
                   PROVE  k > created
        BY DEF JobInv, Uncreated
      <3>1. j = active
        BY <2>4 DEF DiskInv
      <3>2. k \notin 1..created
        BY <3>1 DEF DiskInv
      <3>3. QED
        BY <3>2, VideoAssumption DEF JobTypes, JobSets, Jobs
    <2>6. \A k \in Jobs : pending'[k] = IF k = j THEN n ELSE pending[k]
      BY <1>3 DEF JobTypes, JobFiles
    <2> DEFINE A == Bytes(pending, ToSet(done'))
               B == Bytes(pending', {j})
    <2>7. Bytes(pending', Charged') \subseteq A \union B
      <3> SUFFICES ASSUME NEW k \in Charged', NEW i \in 1..pending'[k]
                   PROVE  <<k, i>> \in A \union B
        BY DEF Bytes
      <3>1. k \in Jobs /\ (k \in ToSet(done') \/ k \notin ended)
        BY <1>1, <2>4 DEF Charged
      <3>2. CASE k = j
        BY <3>2 DEF Bytes
      <3>3. CASE k # j
        <4>1. i \in 1..pending[k]
          BY <2>6, <3>1, <3>3
        <4>2. k \in ToSet(done')
          BY <2>5, <3>1, <3>3, <4>1
        <4>3. QED
          BY <4>1, <4>2 DEF Bytes
      <3>4. QED
        BY <3>2, <3>3
    <2>8. IsFiniteSet(A) /\ Cardinality(A) \in Nat /\ Cardinality(A) + n <= MaxTotal
      BY <2>2, <2>3, <2>4, BytesFinite DEF ArtifactBytes
    <2>9. IsFiniteSet(B) /\ Cardinality(B) = n
      BY <2>2, <2>6, BytesOfOne
    <2> HIDE DEF A, B
    <2>10. Cardinality(Bytes(pending', Charged')) <= MaxTotal
      <3>1. IsFiniteSet(A \union B) /\ IsFiniteSet(A \intersect B)
            /\ Cardinality(A \union B) = Cardinality(A) + Cardinality(B) - Cardinality(A \intersect B)
        BY <2>8, <2>9, FS_Union, FS_Intersection
      <3>2. Cardinality(A \intersect B) \in Nat /\ Cardinality(A \union B) \in Nat
        BY <3>1, FS_CardinalityType
      <3>3. Cardinality(Bytes(pending', Charged')) \in Nat
            /\ Cardinality(Bytes(pending', Charged')) <= Cardinality(A \union B)
        BY <2>7, <3>1, FS_Subset, FS_CardinalityType
      <3>4. QED
        BY <2>2, <2>8, <2>9, <3>1, <3>2, <3>3
    <2>11. \A k \in ended' : k \in ToSet(done') \/ file'[k] = 0
      BY <1>1, <2>1 DEF Retained, DiskInv, JobTypes, JobSets, JobFiles
    <2>12. QED
      BY <1>1, <1>3, <2>2, <2>6, <2>10, <2>11 DEF DiskInv
  <1>4. QED
    BY <1>2, <1>3, VideoAssumption DEF Prepared

\* A step of a job keeps the disk within its limit.
LEMMA JobStepDisk ==
    ASSUME JobTypes, \A k \in Jobs : JobInv(k), DiskInv, JobTypes', NEW j \in Jobs, JobStep(j)
    PROVE  DiskInv'
  <1>1. ASSUME UNCHANGED <<created, active, ended, done, file, pending>>
        PROVE  DiskInv'
    BY <1>1 DEF DiskInv, Charged
  <1>2. CASE Start(j)
    <2>1. Retained(done, file)
      BY <1>2, PruneFacts DEF JobTypes, JobFiles, Listed, Start
    <2>2. active = NoJob /\ j = created + 1 /\ created' = j /\ active' = j
          /\ UNCHANGED <<pending, ended>>
      BY <1>2 DEF Start
    <2>3. \A k \in 1..created' : k \in 1..created \/ k = active'
      BY <2>2, VideoAssumption DEF JobTypes, JobSets
    <2>4. QED
      BY <2>1, <2>2, <2>3, RetainDisk
  <1>3. CASE Delete(j)
    <2>1. PICK e \in 0..Len(done) : Retain(RemoveFirst(Newest(done, e), j), file)
      BY <1>3 DEF Delete
    <2>2. Listed(Newest(done, e)) /\ ToSet(Newest(done, e)) \subseteq ToSet(done)
      BY NewestFacts DEF JobTypes, JobFiles, Listed
    <2>3. Retained(done, file)
      BY <2>1, <2>2, RemoveFacts DEF Retain, Retained
    <2>4. UNCHANGED <<pending, ended, created, active>>
      BY <1>3 DEF Delete
    <2>5. QED
      BY <2>3, <2>4, RetainDisk
  <1>4. CASE Terminate(j, "cancelled") \/ Terminate(j, "failed")
    <2>1. Retained(done, file)
      BY <1>4, PruneFacts DEF JobTypes, JobFiles, Listed, Terminate
    <2>2. UNCHANGED <<pending, ended, created, active>>
      BY <1>4 DEF Terminate
    <2>3. QED
      BY <2>1, <2>2, RetainDisk
  <1>5. CASE \/ Deadline(j) \/ Grant(j) \/ Refuse(j) \/ RunAdmit(j) \/ RunReady(j) \/ RunSubmit(j)
             \/ AdmissionSettled(j) \/ StopOver(j)
    BY <1>1, <1>5 DEF Deadline, Grant, Refuse, RunAdmit, RunReady, RunSubmit, AdmissionSettled,
                      StopOver
  <1>6. CASE RunPoll(j)
    <2>1. j \notin aborted => j \notin ended
      BY <1>6 DEF RunPoll, JobInv, Terminates
    <2>2. UNCHANGED <<created, pending>>
      BY <1>6 DEF RunPoll
    <2>3. \/ UNCHANGED <<active, ended, done, file>>
          \/ j \notin aborted /\ \E state \in {"failed", "cancelled"} : Finish(j, state, file)
      BY <1>6 DEF RunPoll, Unfinished
    <2>4. QED
      BY <1>1, <2>1, <2>2, <2>3, FinishDisk
  <1>7. CASE RunPersisted(j)
    <2>1. UNCHANGED <<created, pending>>
      BY <1>7 DEF RunPersisted
    <2>2. \/ UNCHANGED <<active, ended, done, file>>
          \/ j \notin ended /\ Finish(j, "completed", file)
      BY <1>7 DEF RunPersisted, Unfinished
    <2>3. QED
      BY <1>1, <2>1, <2>2, FinishDisk
  <1>8. CASE TerminationEnds(j)
    <2>1. j \notin ended /\ created' = created
      BY <1>8 DEF TerminationEnds, JobInv, Terminates
    <2>2. \E state, files :
             /\ Finish(j, state, files)
             /\ \/ UNCHANGED pending /\ files = file
                \/ pending' = [pending EXCEPT ![j] = 0] /\ files = [file EXCEPT ![j] = 0]
      BY <1>8, <2>1 DEF TerminationEnds
    <2>3. QED
      BY <2>1, <2>2, FinishDisk
  <1>9. CASE Written(j)
    <2>1. j \notin ended /\ file' = [file EXCEPT ![j] = pending[j]]
          /\ UNCHANGED <<created, active, ended, done, pending>>
      BY <1>9 DEF Written, JobInv, Artifacts
    <2>2. \A k \in ended : file'[k] = file[k]
      BY <2>1 DEF JobTypes, JobSets, JobFiles
    <2>3. QED
      BY <2>1, <2>2 DEF DiskInv, Charged
  <1>10. CASE Prepared(j)
    BY <1>10, PreparedDisk
  <1>11. QED
    BY <1>2, <1>3, <1>4, <1>5, <1>6, <1>7, <1>8, <1>9, <1>10 DEF JobStep

\* So does every step.
LEMMA NextDisk ==
    ASSUME IInv, DiskInv, IInv', [Next]_vars
    PROVE  DiskInv'
  <1>1. JobTypes /\ JobTypes' /\ \A k \in Jobs : JobInv(k)
    BY TypeOKParts DEF IInv, TypeOK, JobTypes, JobSets, JobFields, JobFiles, Listed
  <1>2. ASSUME UNCHANGED <<created, active, ended, done, file, pending>>
        PROVE  DiskInv'
    BY <1>2 DEF DiskInv, Charged
  <1>3. CASE Get \/ Shutdown
    <2>1. Retained(done, file)
      BY <1>1, <1>3, PruneFacts DEF JobTypes, JobFiles, Listed, Get, Shutdown
    <2>2. UNCHANGED <<created, active, ended, pending>>
      BY <1>3 DEF Get, Shutdown
    <2>3. QED
      BY <1>1, <2>1, <2>2, RetainDisk
  <1>4. CASE RestStep
    BY <1>2, <1>3, <1>4 DEF RestStep
  <1>5. ASSUME NEW j \in Jobs, JobStep(j)
        PROVE  DiskInv'
    BY <1>1, <1>5, JobStepDisk
  <1>6. CASE UNCHANGED vars
    BY <1>2, <1>6 DEF vars, jobVars
  <1>7. QED
    BY <1>1, <1>4, <1>5, <1>6, NextIsJobStep

\* The artifact files, the one that is being written included, stay within the total
\* limit, and what the retained jobs have on disk is what is counted for them
\* (makeRoomForArtifact, persistArtifact, finish, removeTransientArtifact).
THEOREM DiskStaysBounded == Spec => []DiskBounded
  <1>1. Init => DiskInv
    <2> SUFFICES ASSUME Init
                 PROVE  DiskInv
      OBVIOUS
    <2>1. \A j \in Jobs : pending[j] = 0 /\ file[j] = 0
      BY DEF Init
    <2>2. Bytes(pending, Charged) = {}
      <3>1. Charged \subseteq Jobs
        BY DEF Init, Charged, ToSet
      <3>2. QED
        BY <2>1, <3>1 DEF Bytes
    <2>3. Cardinality(Bytes(pending, Charged)) = 0
      BY <2>2, FS_EmptySet
    <2>4. QED
      BY <2>1, <2>3, VideoAssumption DEF Init, DiskInv
  <1>2. IInv /\ DiskInv /\ IInv' /\ [Next]_vars => DiskInv'
    BY NextDisk
  <1>3. ASSUME IInv, DiskInv
        PROVE  Cardinality(Bytes(file, Jobs)) <= MaxTotal
    <2>1. JobTypes /\ MaxTotal \in Nat
      BY <1>3, TypeOKParts, VideoAssumption DEF IInv
    <2>2. \A j \in Jobs : file[j] \in {0, pending[j]} /\ pending[j] \in Nat /\ pending[j] <= MaxTotal
      BY <1>3, <2>1, SizesNat DEF IInv, JobInv, Artifacts, DiskInv
    <2>3. \A j \in Jobs : j \in Charged \/ file[j] = 0
      BY <1>3 DEF DiskInv, Charged
    <2>4. Charged \subseteq Jobs
      BY <2>1 DEF Charged, JobTypes, JobSets, JobFiles
    <2>5. Bytes(file, Jobs) \subseteq Bytes(pending, Charged)
      BY <2>2, <2>3, <2>4, BytesNested
    <2>6. IsFiniteSet(Bytes(pending, Charged)) /\ Cardinality(Bytes(pending, Charged)) \in Nat
      BY <2>1, <2>2, <2>4, BytesFinite
    <2>7. Cardinality(Bytes(file, Jobs)) \in Nat
          /\ Cardinality(Bytes(file, Jobs)) <= Cardinality(Bytes(pending, Charged))
      BY <2>5, <2>6, FS_Subset, FS_CardinalityType
    <2>8. QED
      BY <1>3, <2>1, <2>6, <2>7 DEF DiskInv
  <1>4. QED
    BY <1>1, <1>2, <1>3, Invariance, RetainedHaveFiles, PTL DEF Spec, DiskBounded

=============================================================================
