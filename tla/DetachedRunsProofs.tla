------------------------ MODULE DetachedRunsProofs ------------------------
(***************************************************************************)
(* Proofs about DetachedRuns: an outcome survives a restart, a deleted run *)
(* stays deleted, a successful Shutdown leaves nothing going, a run that   *)
(* was dropped ends up holding nothing, and the memory of all runs is      *)
(* counted exactly, for any number of runs, limits and restarts.           *)
(***************************************************************************)
EXTENDS DetachedRuns, FiniteSetTheorems, TLAPS

-----------------------------------------------------------------------------
(* The inductive invariant *)

\* The goroutine has not decided the outcome yet.
Going(r) == at[r] \in {"inner", "write", "finish"}

Empty(r) == run[r].held = 0 /\ run[r].body = 0

\* A DELETE has dropped the run.
Dropped(r) == deleter[r] \in {"mark", "release", "remove", "over"}

\* A run that create has not published is nowhere, and never was.
Unpublished(r) ==
    /\ r > begun => maker[r] = "none"
    /\ maker[r] \in {"none", "sized", "refused"} =>
          /\ at[r] = "none" /\ deleter[r] = "none" /\ file[r] = "none"
          /\ r \notin runs /\ r \notin toStop /\ r \notin deleted /\ run[r] = NewRun

\* Who may still work on a run, and what its fields are meanwhile.
Lives(r) ==
    /\ Alive(r) => maker[r] = "ready"
    /\ Going(r) => ~Terminal(r)
    /\ Going(r) /\ ~run[r].queuedSeen =>
          file[r] = "none" /\ run[r].status = "queued" /\ run[r].answer \in {"none", "error"}
    /\ at[r] = "write" => run[r].buf < MaxResult

\* A run leaves m.runs once; after that a finish or a dismissal that is still to
\* come knows that it has to release and remove.
Drops(r) ==
    /\ Dropped(r) => r \notin runs
    /\ Going(r) => r \in runs \/ Dropped(r)
    /\ Going(r) => (run[r].dismissed <=> deleter[r] \in {"release", "remove", "over"})
    /\ at[r] \in {"release", "remove"} => r \notin runs
    /\ at[r] = "remove" => Empty(r)
    /\ maker[r] = "forget" => r \notin runs /\ ~run[r].queuedSeen
    /\ r \notin runs /\ ~Alive(r) =>
          \/ Empty(r)
          \/ deleter[r] \in {"mark", "release"}
          \/ maker[r] \in {"ready", "forget"} /\ ~run[r].queuedSeen

\* What a run that is listed has ended with is what its checkpoint says, if any.
Saved(r) ==
    r \in runs =>
        /\ Terminal(r) => file[r] \in {"none", run[r].status}
        /\ ~Alive(r) /\ run[r].queuedSeen => file[r] = run[r].status

\* A deleted run that is going was deleted by this gateway; one that no gateway
\* outlived is in no list, and in no file once its goroutine has ended.
Deleted(r) ==
    r \in deleted =>
        /\ Going(r) => deleter[r] = "over"
        /\ r \notin outlived => r \notin runs /\ (~Alive(r) => file[r] = "none")

RunInv(r) ==
    /\ Unpublished(r)
    /\ Lives(r)
    /\ Drops(r)
    /\ Saved(r)
    /\ Deleted(r)

IInv ==
    /\ TypeOK
    /\ \A r \in Runs : RunInv(r)
    /\ gateway = "stopped" => \A r \in Runs : ~Alive(r)

-----------------------------------------------------------------------------
(* What the operators on runs return *)

\* Giving back what some runs hold changes nothing else.
LEMMA ReleasedFields ==
    ASSUME NEW f \in [Runs -> Record], NEW D
    PROVE  /\ Released(f, D) \in [Runs -> Record]
           /\ \A s \in Runs \ D : Released(f, D)[s] = f[s]
           /\ \A s \in Runs \intersect D :
                 /\ Released(f, D)[s].held = 0 /\ Released(f, D)[s].body = 0
                 /\ Released(f, D)[s].status = f[s].status
                 /\ Released(f, D)[s].stop = f[s].stop
                 /\ Released(f, D)[s].queuedSeen = f[s].queuedSeen
                 /\ Released(f, D)[s].dismissed = f[s].dismissed
                 /\ Released(f, D)[s].answer = f[s].answer
                 /\ Released(f, D)[s].buf = f[s].buf
  <1>1. ASSUME NEW s \in Runs
        PROVE  [f[s] EXCEPT !.held = 0, !.body = 0] \in Record
    <2>1. f[s] \in Record /\ 0 \in Int /\ 0 \in 0..1
      OBVIOUS
    <2>2. QED
      BY <2>1 DEF Record
  <1>2. Released(f, D) \in [Runs -> Record]
    <2>1. \A s \in Runs : (IF s \in D THEN [f[s] EXCEPT !.held = 0, !.body = 0] ELSE f[s]) \in Record
      BY <1>1
    <2>2. QED
      BY <2>1, Zenon DEF Released
  <1>3. \A s \in Runs \ D : Released(f, D)[s] = f[s]
    BY DEF Released
  <1>4. ASSUME NEW s \in Runs, s \in D
        PROVE  Released(f, D)[s] = [f[s] EXCEPT !.held = 0, !.body = 0]
    BY <1>4 DEF Released
  <1>5. ASSUME NEW s \in Runs, s \in D
        PROVE  /\ Released(f, D)[s].held = 0 /\ Released(f, D)[s].body = 0
               /\ Released(f, D)[s].status = f[s].status
               /\ Released(f, D)[s].stop = f[s].stop
               /\ Released(f, D)[s].queuedSeen = f[s].queuedSeen
               /\ Released(f, D)[s].dismissed = f[s].dismissed
               /\ Released(f, D)[s].answer = f[s].answer
               /\ Released(f, D)[s].buf = f[s].buf
    <2>1. f[s] \in Record
      OBVIOUS
    <2>2. QED
      BY <1>4, <1>5, <2>1 DEF Record
  <1>6. QED
    BY <1>2, <1>3, <1>5

\* A stop touches nothing but the cause.
LEMMA StoppedFields ==
    ASSUME run \in [Runs -> Record], NEW r \in Runs, NEW how \in Ended
    PROVE  /\ Stopped(r, how) \in [Runs -> Record]
           /\ \A s \in Runs \ {r} : Stopped(r, how)[s] = run[s]
           /\ \A s \in Runs :
                 /\ Stopped(r, how)[s].status = run[s].status
                 /\ Stopped(r, how)[s].queuedSeen = run[s].queuedSeen
                 /\ Stopped(r, how)[s].dismissed = run[s].dismissed
                 /\ Stopped(r, how)[s].held = run[s].held
                 /\ Stopped(r, how)[s].body = run[s].body
                 /\ Stopped(r, how)[s].answer = run[s].answer
                 /\ Stopped(r, how)[s].buf = run[s].buf
  <1>1. [run[r] EXCEPT !.stop = how] \in Record
    BY DEF Record
  <1>2. QED
    BY <1>1 DEF Stopped, Record

\* Only finished runs are trimmed.
LEMMA TrimmedFinished ==
    ASSUME NEW R, NEW f
    PROVE  \A s \in Trimmed(R, f) : s \in R /\ f[s].status \in Ended
  BY DEF Trimmed

\* The fields of a run that has ended.
LEMMA ClosedFields ==
    ASSUME run \in [Runs -> Record], NEW r \in Runs, NEW outcome \in Ended
    PROVE  /\ Closed(r, outcome) \in Record
           /\ Closed(r, outcome).status = outcome
           /\ Closed(r, outcome).queuedSeen
  <1>1. Unused(r, outcome) \in Int
    BY RunsAssumption DEF Unused, Record
  <1>2. PICK n \in Int : n = run[r].held - Unused(r, outcome)
    BY <1>1 DEF Record
  <1>3. Closed(r, outcome) =
           [status |-> outcome, stop |-> "none", queuedSeen |-> TRUE, dismissed |-> FALSE,
            held |-> n, body |-> 0, answer |-> "none", buf |-> 0]
    <2>1. Closed(r, outcome) = [NewRun EXCEPT !.status = outcome, !.queuedSeen = TRUE, !.held = n]
      BY <1>2, Zenon DEF Closed
    <2>2. QED
      BY <2>1 DEF NewRun
  <1>4. 0 \in 0..MaxResult /\ 0 \in 0..1
    BY RunsAssumption
  <1>5. QED
    BY <1>3, <1>4 DEF Record

\* A run ends with one of the ends.
LEMMA OutcomesEnd ==
    ASSUME run \in [Runs -> Record], NEW r \in Runs
    PROVE  Outcomes(r) \subseteq Ended
  <1>1. run[r].stop \in Ended \union {"none"}
    BY DEF Record
  <1>2. QED
    BY <1>1 DEF Outcomes, Ended

\* A new run.
LEMMA NewRunFields ==
    /\ NewRun \in Record
    /\ NewRun.status = "queued" /\ NewRun.held = 0 /\ NewRun.body = 0
    /\ ~NewRun.queuedSeen /\ ~NewRun.dismissed /\ NewRun.answer = "none"
  BY RunsAssumption DEF NewRun, Record, Ended

\* The step release(r) empties r and leaves the rest of the fields alone.
LEMMA ReleaseStep ==
    ASSUME run \in [Runs -> Record], NEW r \in Runs, Release(r)
    PROVE  /\ run' \in [Runs -> Record]
           /\ \A s \in Runs \ {r} : run'[s] = run[s]
           /\ run'[r].held = 0 /\ run'[r].body = 0
           /\ \A s \in Runs :
                 /\ run'[s].status = run[s].status
                 /\ run'[s].queuedSeen = run[s].queuedSeen
                 /\ run'[s].dismissed = run[s].dismissed
                 /\ run'[s].answer = run[s].answer
                 /\ run'[s].buf = run[s].buf
  <1>1. run' = Released(run, {r})
    BY DEF Release
  <1>2. QED
    BY <1>1, ReleasedFields

\* The step stop(r) leaves everything but the cause alone.
LEMMA StopStep ==
    ASSUME run \in [Runs -> Record], NEW r \in Runs, NEW how \in Ended, run' = Stopped(r, how)
    PROVE  /\ run' \in [Runs -> Record]
           /\ \A s \in Runs \ {r} : run'[s] = run[s]
           /\ \A s \in Runs :
                 /\ run'[s].status = run[s].status
                 /\ run'[s].queuedSeen = run[s].queuedSeen
                 /\ run'[s].dismissed = run[s].dismissed
                 /\ run'[s].held = run[s].held
                 /\ run'[s].body = run[s].body
                 /\ run'[s].answer = run[s].answer
                 /\ run'[s].buf = run[s].buf
  BY StoppedFields

\* r is published with the fields f, and the finished runs D are trimmed.
PublishedWith(r, f, D) ==
    /\ runs' = (runs \union {r}) \ D
    /\ file' = [s \in Runs |-> IF s \in D THEN "none" ELSE file[s]]
    /\ run' \in [Runs -> Record]
    /\ \A s \in Runs \ D : run'[s] = f[s]
    /\ \A s \in Runs \intersect D :
          run'[s].held = 0 /\ run'[s].body = 0 /\ run'[s].status \in Ended
    /\ \A s \in Runs :
          /\ run'[s].status = f[s].status
          /\ run'[s].queuedSeen = f[s].queuedSeen
          /\ run'[s].dismissed = f[s].dismissed
          /\ run'[s].answer = f[s].answer
          /\ run'[s].buf = f[s].buf

\* Publishing a run trims finished runs only.
LEMMA PublishedStep ==
    ASSUME NEW f \in [Runs -> Record], NEW r \in Runs, Published(r, f)
    PROVE  \E D \in SUBSET (runs \union {r}) : PublishedWith(r, f, D)
  <1> DEFINE D == Trimmed(runs \union {r}, f)
  <1>1. D \in SUBSET (runs \union {r}) /\ \A s \in D : f[s].status \in Ended
    BY TrimmedFinished
  <1>2. /\ runs' = (runs \union {r}) \ D
        /\ run' = Released(f, D)
        /\ file' = [s \in Runs |-> IF s \in D THEN "none" ELSE file[s]]
    BY DEF Published
  <1> HIDE DEF D
  <1>3. /\ run' \in [Runs -> Record]
        /\ \A s \in Runs \ D : run'[s] = f[s]
        /\ \A s \in Runs \intersect D :
              /\ run'[s].held = 0 /\ run'[s].body = 0
              /\ run'[s].status = f[s].status
              /\ run'[s].queuedSeen = f[s].queuedSeen
              /\ run'[s].dismissed = f[s].dismissed
              /\ run'[s].answer = f[s].answer
              /\ run'[s].buf = f[s].buf
    BY <1>2, ReleasedFields
  <1>4. QED
    BY <1>1, <1>2, <1>3 DEF PublishedWith

\* What create's critical section does to a run that was not refused.
PublishedAs(r, D) ==
    /\ runs' = (runs \union {r}) \ D
    /\ file' = [s \in Runs |-> IF s \in D THEN "none" ELSE file[s]]
    /\ run' \in [Runs -> Record]
    /\ \A s \in Runs \ (D \union {r}) : run'[s] = run[s]
    /\ \A s \in Runs \intersect D :
          run'[s].held = 0 /\ run'[s].body = 0 /\ run'[s].status \in Ended
    /\ \A s \in Runs \ {r} :
          /\ run'[s].status = run[s].status
          /\ run'[s].queuedSeen = run[s].queuedSeen
          /\ run'[s].dismissed = run[s].dismissed
          /\ run'[s].answer = run[s].answer
          /\ run'[s].buf = run[s].buf
    /\ ~run'[r].queuedSeen /\ ~run'[r].dismissed
    /\ run'[r].answer = "none" /\ run'[r].buf = 0
    /\ \/ /\ run'[r].status = "failed"
          /\ maker' = [maker EXCEPT ![r] = "full"] /\ at' = at
       \/ /\ run'[r].status = "queued"
          /\ maker' = [maker EXCEPT ![r] = "ready"] /\ at' = [at EXCEPT ![r] = "inner"]

\* Publish refuses the run or publishes it, dropping finished runs.
LEMMA PublishStep ==
    ASSUME run \in [Runs -> Record], NEW r \in Runs, run[r] = NewRun, Publish(r)
    PROVE  \/ Refuse(r)
           \/ gateway = "up" /\ \E D \in SUBSET (runs \union {r}) : PublishedAs(r, D)
  <1>1. CASE Refuse(r)
    BY <1>1
  <1>2. CASE gateway = "up" /\ PublishFull(r)
    <2>1. [run EXCEPT ![r].status = "failed"] \in [Runs -> Record]
      BY DEF Record, Ended
    <2>2. PICK f \in [Runs -> Record] : f = [run EXCEPT ![r].status = "failed"]
      BY <2>1
    <2>3. /\ \A s \in Runs \ {r} : f[s] = run[s]
          /\ f[r].status = "failed" /\ ~f[r].queuedSeen /\ ~f[r].dismissed
          /\ f[r].answer = "none" /\ f[r].buf = 0
      BY <2>2 DEF NewRun
    <2>4. Published(r, f)
      BY <1>2, <2>2 DEF PublishFull
    <2>5. PICK D \in SUBSET (runs \union {r}) : PublishedWith(r, f, D)
      BY <2>4, PublishedStep
    <2>6. PublishedAs(r, D)
      BY <1>2, <2>3, <2>5 DEF PublishFull, PublishedWith, PublishedAs
    <2>7. QED
      BY <1>2, <2>6
  <1>3. CASE gateway = "up" /\ PublishRun(r)
    <2>1. [run EXCEPT ![r].body = 1] \in [Runs -> Record]
      BY DEF Record
    <2>2. PICK f \in [Runs -> Record] : f = [run EXCEPT ![r].body = 1]
      BY <2>1
    <2>3. /\ \A s \in Runs \ {r} : f[s] = run[s]
          /\ f[r].status = "queued" /\ ~f[r].queuedSeen /\ ~f[r].dismissed
          /\ f[r].answer = "none" /\ f[r].buf = 0
      BY <2>2 DEF NewRun
    <2>4. Published(r, f)
      BY <1>3, <2>2 DEF PublishRun
    <2>5. PICK D \in SUBSET (runs \union {r}) : PublishedWith(r, f, D)
      BY <2>4, PublishedStep
    <2>6. PublishedAs(r, D)
      BY <1>3, <2>3, <2>5 DEF PublishRun, PublishedWith, PublishedAs
    <2>7. QED
      BY <1>3, <2>6
  <1>4. QED
    BY <1>1, <1>2, <1>3 DEF Publish

-----------------------------------------------------------------------------
(* Every step keeps the invariant of every run *)

\* Nothing the invariant of s speaks of changes.
Untouched(s) ==
    /\ run'[s] = run[s] /\ file'[s] = file[s]
    /\ maker'[s] = maker[s] /\ at'[s] = at[s] /\ deleter'[s] = deleter[s]
    /\ begun' = begun /\ (s \in runs' <=> s \in runs) /\ (s \in toStop' => s \in toStop)
    /\ (s \in deleted' <=> s \in deleted) /\ (s \in outlived' <=> s \in outlived)

\* A step that does not touch a run keeps its invariant.
LEMMA UntouchedKept ==
    ASSUME NEW s, RunInv(s), Untouched(s)
    PROVE  RunInv(s)'
  BY DEF RunInv, Untouched, Unpublished, Lives, Drops, Saved, Deleted, Alive, Going,
         Terminal, Empty, Dropped

\* The steps of one run's actors once it is published.
StepOf(r) ==
    \/ CheckpointFull(r) \/ ForgetDrop(r) \/ ForgetRelease(r)
    \/ Goroutine(r) \/ Stop(r) \/ Dismiss(r) \/ Expire(r) \/ ShutdownStops(r)

\* They touch no other run.
LEMMA OthersUntouched ==
    ASSUME TypeOK, NEW r \in Runs, StepOf(r), NEW s \in Runs, s # r
    PROVE  Untouched(s)
  <1> USE DEF TypeOK, Untouched, memory, actors, ghosts, Ended
  <1>1. CASE CheckpointFull(r)
    BY <1>1 DEF CheckpointFull, Checkpoint
  <1>2. CASE ForgetDrop(r)
    BY <1>2 DEF ForgetDrop
  <1>3. CASE ForgetRelease(r)
    BY <1>3, ReleaseStep DEF ForgetRelease, Remove
  <1>4. CASE Queued(r)
    BY <1>4 DEF Queued, Inner, Checkpoint
  <1>5. CASE Admitted(r)
    BY <1>5 DEF Admitted, Inner, Checkpoint
  <1>6. CASE WriteHeader(r)
    BY <1>6 DEF WriteHeader, Inner
  <1>7. CASE Write(r)
    BY <1>7, StopStep DEF Write, Inner
  <1>8. CASE WriteTake(r)
    BY <1>8 DEF WriteTake
  <1>9. CASE Chunk(r)
    BY <1>9, StopStep DEF Chunk, Inner, Checkpoint
  <1>10. CASE ErrorEvent(r)
    BY <1>10 DEF ErrorEvent, Inner
  <1>11. CASE FinishBody(r)
    BY <1>11 DEF FinishBody, Inner
  <1>12. CASE Settle(r)
    BY <1>12, ClosedFields, OutcomesEnd DEF Settle, Checkpoint
  <1>13. CASE SettleRefused(r)
    BY <1>13 DEF SettleRefused
  <1>14. CASE FinishRelease(r)
    BY <1>14, ReleaseStep DEF FinishRelease
  <1>15. CASE FinishRemove(r)
    BY <1>15 DEF FinishRemove, Remove
  <1>16. CASE Stop(r)
    BY <1>16, StopStep DEF Stop
  <1>17. CASE Delete(r)
    BY <1>17, StopStep DEF Delete
  <1>18. CASE DismissDrop(r)
    BY <1>18 DEF DismissDrop
  <1>19. CASE DismissMark(r)
    BY <1>19 DEF DismissMark
  <1>20. CASE DismissRelease(r)
    BY <1>20, ReleaseStep DEF DismissRelease
  <1>21. CASE DismissRemove(r)
    BY <1>21 DEF DismissRemove, Remove
  <1>22. CASE Expire(r)
    BY <1>22, ReleaseStep DEF Expire, Remove
  <1>23. CASE ShutdownStops(r)
    BY <1>23, StopStep DEF ShutdownStops
  <1>q. QED
    BY <1>1, <1>2, <1>3, <1>4, <1>5, <1>6, <1>7, <1>8, <1>9, <1>10, <1>11, <1>12,
       <1>13, <1>14, <1>15, <1>16, <1>17, <1>18, <1>19, <1>20, <1>21, <1>22, <1>23
       DEF StepOf, Goroutine, Dismiss

\* Every step of a run keeps its invariant.
LEMMA StepOfKept ==
    ASSUME TypeOK, NEW r \in Runs, RunInv(r), StepOf(r)
    PROVE  RunInv(r)'
  <1>0. run[r] \in Record
    BY DEF TypeOK
  <1> USE <1>0 DEF TypeOK, RunInv, Unpublished, Lives, Drops, Saved, Deleted, Alive,
          Going, Terminal, Empty, Dropped, memory, actors, ghosts, Ended
  <1>1. CASE CheckpointFull(r)
    BY <1>1 DEF CheckpointFull, Checkpoint
  <1>2. CASE ForgetDrop(r)
    BY <1>2 DEF ForgetDrop
  <1>3. CASE ForgetRelease(r)
    BY <1>3, ReleaseStep DEF ForgetRelease, Remove
  <1>4. CASE Queued(r)
    BY <1>4 DEF Queued, Inner, Checkpoint
  <1>5. CASE Admitted(r)
    BY <1>5 DEF Admitted, Inner, Checkpoint
  <1>6. CASE WriteHeader(r)
    BY <1>6 DEF WriteHeader, Inner
  <1>7. CASE Write(r)
    <2>1. CASE run' = Stopped(r, "failed") /\ UNCHANGED <<held, at>>
      BY <1>7, <2>1, StopStep DEF Write, Inner
    <2>2. CASE run[r].buf + 1 <= MaxResult /\ at' = [at EXCEPT ![r] = "write"] /\ UNCHANGED run
      <3>1. run[r].buf < MaxResult
        BY <2>2, RunsAssumption DEF Record
      <3>2. QED
        BY <1>7, <2>2, <3>1 DEF Write, Inner
    <2>3. QED
      <3>1. ~(run[r].buf + 1 > MaxResult) => run[r].buf + 1 <= MaxResult
        BY RunsAssumption DEF Record
      <3>2. QED
        BY <1>7, <2>1, <2>2, <3>1, Zenon DEF Write
  <1>8. CASE WriteTake(r)
    BY <1>8 DEF WriteTake
  <1>9. CASE Chunk(r)
    <2>1. CASE run' = Stopped(r, "failed") /\ UNCHANGED <<held, file>>
      BY <1>9, <2>1, StopStep DEF Chunk, Inner
    <2>2. CASE /\ run' = [run EXCEPT ![r].held = @ + 1]
               /\ Checkpoint(r, run[r].status) \/ UNCHANGED file
      BY <1>9, <2>2 DEF Chunk, Inner, Checkpoint
    <2>3. QED
      BY <1>9, <2>1, <2>2 DEF Chunk
  <1>10. CASE ErrorEvent(r)
    BY <1>10 DEF ErrorEvent, Inner
  <1>11. CASE FinishBody(r)
    BY <1>11 DEF FinishBody, Inner
  <1>12. CASE Settle(r)
    <2>1. PICK outcome \in Outcomes(r) :
             /\ run' = [run EXCEPT ![r] = Closed(r, outcome)]
             /\ file' = [file EXCEPT ![r] = outcome]
      BY <1>12, Zenon DEF Settle, Checkpoint
    <2>2. outcome \in Ended
      BY OutcomesEnd
    <2>3. run'[r].status = outcome /\ run'[r].queuedSeen /\ file'[r] = outcome
      BY <2>1, <2>2, ClosedFields
    <2>4. CASE run[r].dismissed
      BY <1>12, <2>2, <2>3, <2>4 DEF Settle
    <2>5. CASE ~run[r].dismissed
      BY <1>12, <2>2, <2>3, <2>5 DEF Settle
    <2>6. QED
      BY <2>4, <2>5
  <1>13. CASE SettleRefused(r)
    BY <1>13 DEF SettleRefused
  <1>14. CASE FinishRelease(r)
    BY <1>14, ReleaseStep DEF FinishRelease
  <1>15. CASE FinishRemove(r)
    BY <1>15 DEF FinishRemove, Remove
  <1>16. CASE Stop(r)
    BY <1>16, StopStep DEF Stop
  <1>17. CASE Delete(r)
    BY <1>17, StopStep DEF Delete
  <1>18. CASE DismissDrop(r)
    BY <1>18 DEF DismissDrop
  <1>19. CASE DismissMark(r)
    BY <1>19 DEF DismissMark
  <1>20. CASE DismissRelease(r)
    BY <1>20, ReleaseStep DEF DismissRelease
  <1>21. CASE DismissRemove(r)
    BY <1>21 DEF DismissRemove, Remove
  <1>22. CASE Expire(r)
    BY <1>22, ReleaseStep DEF Expire, Remove
  <1>23. CASE ShutdownStops(r)
    <2>1. /\ run'[r].status = run[r].status /\ run'[r].queuedSeen = run[r].queuedSeen
          /\ run'[r].dismissed = run[r].dismissed /\ run'[r].held = run[r].held
          /\ run'[r].body = run[r].body /\ run'[r].answer = run[r].answer
          /\ run'[r].buf = run[r].buf
      BY <1>23, StopStep DEF ShutdownStops
    <2>2. QED
      BY <1>23, <2>1 DEF ShutdownStops
  <1>q. QED
    BY <1>1, <1>2, <1>3, <1>4, <1>5, <1>6, <1>7, <1>8, <1>9, <1>10, <1>11, <1>12,
       <1>13, <1>14, <1>15, <1>16, <1>17, <1>18, <1>19, <1>20, <1>21, <1>22, <1>23
       DEF StepOf, Goroutine, Dismiss

\* Publishing a run keeps the invariant of every run.
LEMMA PublishKept ==
    ASSUME TypeOK, NEW r \in Runs, RunInv(r), Publish(r), NEW s \in Runs, RunInv(s)
    PROVE  RunInv(s)'
  <1> USE DEF TypeOK, ghosts
  <1>1. maker[r] \in {"sized", "refused"} /\ run[r] = NewRun /\ at[r] = "none"
        /\ deleter[r] = "none" /\ file[r] = "none" /\ r \notin deleted /\ r \notin toStop
    BY DEF Publish, RunInv, Unpublished
  <1>2. CASE Refuse(r)
    <2>1. CASE s = r
      BY <1>1, <1>2, <2>1, NewRunFields
         DEF Publish, Refuse, RunInv, Unpublished, Lives, Drops, Saved, Deleted, Alive, Going,
             Terminal, Empty, Dropped
    <2>2. CASE s # r
      BY <1>2, <2>2, UntouchedKept DEF Publish, Refuse, Untouched
    <2>3. QED
      BY <2>1, <2>2
  <1>3. ASSUME NEW D \in SUBSET (runs \union {r}), PublishedAs(r, D)
        PROVE  RunInv(s)'
    <2>1. CASE s = r
      <3>1. /\ ~run'[r].queuedSeen /\ ~run'[r].dismissed /\ run'[r].answer = "none"
            /\ file'[r] = "none" /\ deleter'[r] = "none" /\ begun' = begun
            /\ r \notin deleted' /\ r \notin toStop'
            /\ r \in runs' <=> r \notin D
            /\ r \in D => run'[r].held = 0 /\ run'[r].body = 0 /\ run'[r].status \in Ended
        BY <1>1, <1>3 DEF Publish, PublishedAs
      <3>2. CASE /\ run'[r].status = "failed"
                 /\ maker'[r] = "full" /\ at'[r] = "none"
        BY <2>1, <3>1, <3>2, <1>1
           DEF RunInv, Unpublished, Lives, Drops, Saved, Deleted, Alive, Going,
               Terminal, Empty, Dropped
      <3>3. CASE /\ run'[r].status = "queued"
                 /\ maker'[r] = "ready" /\ at'[r] = "inner"
        BY <2>1, <3>1, <3>3, <1>1
           DEF RunInv, Unpublished, Lives, Drops, Saved, Deleted, Alive, Going,
               Terminal, Empty, Dropped, Ended
      <3>4. QED
        BY <1>1, <1>3, <3>2, <3>3 DEF PublishedAs
    <2>2. CASE s # r /\ s \notin D
      BY <1>3, <2>2, UntouchedKept DEF Publish, PublishedAs, Untouched
    <2>3. CASE s # r /\ s \in D
      <3>1. /\ s \in runs /\ s \notin runs' /\ file'[s] = "none"
            /\ run'[s].held = 0 /\ run'[s].body = 0 /\ run[s].status \in Ended
            /\ run'[s].status = run[s].status
            /\ maker'[s] = maker[s] /\ at'[s] = at[s] /\ deleter'[s] = deleter[s]
            /\ deleted' = deleted /\ outlived' = outlived /\ begun' = begun /\ toStop' = toStop
        BY <1>3, <2>3 DEF Publish, PublishedAs
      <3>2. QED
        BY <3>1
           DEF RunInv, Unpublished, Lives, Drops, Saved, Deleted, Alive, Going,
               Terminal, Empty, Dropped
    <2>4. QED
      BY <2>1, <2>2, <2>3
  <1>4. QED
    BY <1>1, <1>2, <1>3, PublishStep

\* A run whose creation begins keeps to the invariant.
LEMMA BeginKept ==
    ASSUME TypeOK, Begin, NEW s \in Runs, RunInv(s)
    PROVE  RunInv(s)'
  <1> USE DEF TypeOK, ghosts
  <1>1. begun \in Nat /\ begun' = begun + 1 /\ s \in Nat
    BY RunsAssumption DEF Begin, Runs
  <1>2. CASE s = begun + 1
    <2>1. maker[s] = "none" /\ maker'[s] \in {"sized", "refused"}
      BY <1>1, <1>2 DEF Begin, RunInv, Unpublished
    <2>2. QED
      BY <1>1, <1>2, <2>1, NewRunFields
         DEF Begin, RunInv, Unpublished, Lives, Drops, Saved, Deleted, Alive, Going,
             Terminal, Empty, Dropped
  <1>3. CASE s # begun + 1
    <2>1. maker'[s] = maker[s]
      BY <1>3 DEF Begin
    <2>2. QED
      BY <1>1, <2>1
         DEF Begin, RunInv, Unpublished, Lives, Drops, Saved, Deleted, Alive, Going,
             Terminal, Empty, Dropped
  <1>4. QED
    BY <1>2, <1>3

\* A run that the next gateway restores, drops or has never heard of.
LEMMA RestartKept ==
    ASSUME TypeOK, Restart, NEW s \in Runs, RunInv(s)
    PROVE  RunInv(s)'
  <1> USE DEF TypeOK, ghosts
  <1>1. PICK expired \in SUBSET {r \in Runs : file[r] \in Ended} :
           LET back == {r \in Runs : file[r] # "none"} \ expired IN
           /\ runs' = back
           /\ run' = [r \in Runs |->
                        IF r \in back THEN [NewRun EXCEPT !.status = Restored(r), !.held = 1]
                                      ELSE NewRun]
           /\ file' = [r \in Runs |-> IF r \in back THEN Restored(r) ELSE "none"]
    BY Zenon DEF Restart
  <1>2. /\ maker'[s] = IF s <= begun THEN "over" ELSE "none"
        /\ at'[s] = IF s <= begun THEN "over" ELSE "none"
        /\ deleter'[s] = "none" /\ begun' = begun /\ deleted' = deleted /\ s \notin toStop'
        /\ s \in outlived' <=> s \in outlived \/ Alive(s)
    BY DEF Restart
  <1>3. begun \in Nat /\ s \in Nat
    BY RunsAssumption DEF Runs
  <1>4. s > begun => file[s] = "none" /\ s \notin deleted
    BY DEF RunInv, Unpublished
  <1>5. CASE file[s] # "none" /\ s \notin expired
    <2>1. s \in runs' /\ file'[s] = Restored(s)
      BY <1>1, <1>5
    <2>2. run'[s] = [NewRun EXCEPT !.status = Restored(s), !.held = 1]
      BY <1>1, <1>5
    <2>3. run'[s].status = Restored(s) /\ ~run'[s].queuedSeen
      BY <2>2 DEF NewRun
    <2>4. s <= begun
      BY <1>3, <1>4, <1>5
    <2>5. s \in deleted => s \in outlived'
      BY <1>2, <1>5 DEF RunInv, Deleted
    <2>6. QED
      BY <1>2, <1>3, <2>1, <2>3, <2>4, <2>5
         DEF RunInv, Unpublished, Lives, Drops, Saved, Deleted, Alive, Going,
             Terminal, Empty, Dropped
  <1>6. CASE ~(file[s] # "none" /\ s \notin expired)
    <2>1. s \notin runs' /\ file'[s] = "none" /\ run'[s] = NewRun
      BY <1>1, <1>6
    <2>2. QED
      BY <1>2, <1>3, <1>4, <2>1, NewRunFields
         DEF RunInv, Unpublished, Lives, Drops, Saved, Deleted, Alive, Going,
             Terminal, Empty, Dropped
  <1>7. QED
    BY <1>5, <1>6

\* Every step keeps the invariant of every run.
LEMMA NextRunInv ==
    ASSUME TypeOK, \A r \in Runs : RunInv(r), [Next]_vars, NEW s \in Runs
    PROVE  RunInv(s)'
  <1>1. CASE UNCHANGED vars
    BY <1>1, UntouchedKept DEF vars, memory, actors, ghosts, Untouched
  <1>2. CASE Begin
    BY <1>2, BeginKept
  <1>3. ASSUME NEW r \in Runs, Publish(r)
        PROVE  RunInv(s)'
    BY <1>3, PublishKept
  <1>4. ASSUME NEW r \in Runs, StepOf(r)
        PROVE  RunInv(s)'
    BY <1>4, StepOfKept, OthersUntouched, UntouchedKept
  <1>5. CASE ShutdownBegin
    BY <1>5 DEF ShutdownBegin, actors, ghosts, RunInv, Unpublished, Lives, Drops, Saved,
                Deleted, Alive, Going, Terminal, Empty, Dropped
  <1>6. CASE ShutdownReturns
    BY <1>6, UntouchedKept DEF ShutdownReturns, memory, actors, ghosts, Untouched
  <1>7. CASE Restart
    BY <1>7, RestartKept
  <1>8. QED
    BY <1>1, <1>2, <1>3, <1>4, <1>5, <1>6, <1>7 DEF Next, Create, StepOf

-----------------------------------------------------------------------------
(* Types *)

\* Every step keeps the type of the runs' fields.
LEMMA NextRunType ==
    ASSUME TypeOK, \A r \in Runs : RunInv(r), [Next]_vars
    PROVE  run' \in [Runs -> Record]
  <1>0. run \in [Runs -> Record]
    BY DEF TypeOK
  <1> USE <1>0
  <1>1. CASE UNCHANGED run
    BY <1>1
  <1>2. ASSUME NEW r \in Runs, NEW x \in Record, run' = [run EXCEPT ![r] = x]
        PROVE  run' \in [Runs -> Record]
    BY <1>2
  <1>3. ASSUME NEW r \in Runs, Publish(r)
        PROVE  run' \in [Runs -> Record]
    <2>1. run[r] = NewRun
      BY <1>3 DEF Publish, RunInv, Unpublished
    <2>2. QED
      BY <1>1, <1>3, <2>1, PublishStep DEF Refuse, PublishedAs
  <1>4. ASSUME NEW r \in Runs, ForgetRelease(r) \/ FinishRelease(r) \/ DismissRelease(r) \/ Expire(r)
        PROVE  run' \in [Runs -> Record]
    BY <1>4, ReleaseStep DEF ForgetRelease, FinishRelease, DismissRelease, Expire
  <1>5. ASSUME NEW r \in Runs, NEW how \in Ended, run' = Stopped(r, how)
        PROVE  run' \in [Runs -> Record]
    BY <1>5, StopStep
  <1>6. ASSUME NEW r \in Runs, Stop(r) \/ Delete(r) \/ ShutdownStops(r)
        PROVE  run' \in [Runs -> Record]
    BY <1>5, <1>6 DEF Stop, Delete, ShutdownStops, Ended
  <1>7. ASSUME NEW r \in Runs, Goroutine(r)
        PROVE  run' \in [Runs -> Record]
    <2>0. run[r] \in Record /\ run[r].held + 1 \in Int /\ 0 \in 0..1
      BY DEF Record
    <2>1. CASE Queued(r) \/ Admitted(r)
      <3>1. /\ [run[r] EXCEPT !.queuedSeen = TRUE, !.status = "queued"] \in Record
            /\ [run[r] EXCEPT !.status = "in_progress"] \in Record
        BY <2>0 DEF Record
      <3>2. \/ run' = [run EXCEPT ![r] = [run[r] EXCEPT !.queuedSeen = TRUE, !.status = "queued"]]
            \/ run' = [run EXCEPT ![r] = [run[r] EXCEPT !.status = "in_progress"]]
        BY <2>1 DEF Queued, Admitted
      <3>3. QED
        BY <1>2, <3>1, <3>2
    <2>2. CASE WriteHeader(r)
      BY <2>0, <2>2 DEF WriteHeader, Record
    <2>3. CASE Write(r)
      BY <1>1, <1>5, <2>3 DEF Write, Ended
    <2>4. CASE WriteTake(r)
      <3>1. run[r].buf + 1 \in 0..MaxResult
        BY <2>0, <2>4, RunsAssumption DEF WriteTake, RunInv, Lives, Record
      <3>2. PICK x : x = [run[r] EXCEPT !.held = @ + 1, !.buf = @ + 1]
        OBVIOUS
      <3>3. x \in Record
        BY <2>0, <3>1, <3>2 DEF Record
      <3>4. run' = [run EXCEPT ![r] = x]
        BY <2>4, <3>2 DEF WriteTake
      <3>5. QED
        BY <1>2, <3>3, <3>4
    <2>5. CASE Chunk(r)
      <3>1. [run[r] EXCEPT !.held = @ + 1] \in Record
        BY <2>0 DEF Record
      <3>2. run' = Stopped(r, "failed") \/ run' = [run EXCEPT ![r] = [run[r] EXCEPT !.held = @ + 1]]
        BY <2>5 DEF Chunk
      <3>3. QED
        BY <1>2, <1>5, <3>1, <3>2 DEF Ended
    <2>6. CASE ErrorEvent(r)
      <3>1. [run[r] EXCEPT !.answer = "stream_error", !.held = @ + 1] \in Record
        BY <2>0 DEF Record
      <3>2. run' = [run EXCEPT ![r] = [run[r] EXCEPT !.answer = "stream_error", !.held = @ + 1]]
        BY <2>6 DEF ErrorEvent
      <3>3. QED
        BY <1>2, <3>1, <3>2
    <2>7. CASE FinishBody(r)
      BY <2>0, <2>7 DEF FinishBody, Record
    <2>8. CASE Settle(r)
      BY <1>2, <2>8, ClosedFields, OutcomesEnd DEF Settle
    <2>9. CASE SettleRefused(r) \/ FinishRemove(r)
      BY <2>9 DEF SettleRefused, FinishRemove, memory
    <2>10. CASE FinishRelease(r)
      BY <1>4, <2>10
    <2>11. QED
      BY <1>7, <2>1, <2>2, <2>3, <2>4, <2>5, <2>6, <2>7, <2>8, <2>9, <2>10 DEF Goroutine
  <1>8. ASSUME NEW r \in Runs, DismissMark(r)
        PROVE  run' \in [Runs -> Record]
    BY <1>8 DEF DismissMark, Record
  <1>9. CASE Restart
    <2>1. ASSUME NEW r \in Runs
          PROVE  [NewRun EXCEPT !.status = Restored(r), !.held = 1] \in Record
      <3>1. Restored(r) \in Ended
        BY DEF Restored, Ended
      <3>2. [NewRun EXCEPT !.status = Restored(r)] \in Record
        BY <3>1, NewRunFields DEF Record
      <3>3. PICK x \in Record : x = [NewRun EXCEPT !.status = Restored(r)]
        BY <3>2
      <3>4. [x EXCEPT !.held = 1] \in Record
        BY DEF Record
      <3>5. [NewRun EXCEPT !.status = Restored(r), !.held = 1] = [x EXCEPT !.held = 1]
        BY <3>3, NewRunFields DEF Record
      <3>6. QED
        BY <3>4, <3>5
    <2>2. QED
      BY <1>9, <2>1, NewRunFields, Zenon DEF Restart
  <1>10. ASSUME NEW r \in Runs,
                CheckpointFull(r) \/ ForgetDrop(r) \/ DismissDrop(r) \/ DismissRemove(r)
         PROVE  UNCHANGED run
    BY <1>10 DEF CheckpointFull, ForgetDrop, DismissDrop, DismissRemove, memory
  <1>11. CASE Begin \/ ShutdownBegin \/ ShutdownReturns \/ UNCHANGED vars
    BY <1>11 DEF Begin, ShutdownBegin, ShutdownReturns, vars, memory
  <1>12. QED
    BY <1>1, <1>3, <1>4, <1>6, <1>7, <1>8, <1>9, <1>10, <1>11 DEF Next, Create, Dismiss

\* A run that has begun is one of those counted.
LEMMA Born ==
    ASSUME TypeOK, NEW r \in Runs, RunInv(r), maker[r] # "none"
    PROVE  r \in 1..begun
  BY RunsAssumption DEF TypeOK, RunInv, Unpublished, Runs

\* Every step keeps the other types.
LEMMA NextType ==
    ASSUME TypeOK, \A r \in Runs : RunInv(r), [Next]_vars
    PROVE  TypeOK'
  <1>0. run' \in [Runs -> Record]
    BY NextRunType
  <1> USE <1>0 DEF TypeOK, memory, actors, ghosts
  <1>1. CASE UNCHANGED vars
    BY <1>1 DEF vars
  <1>2. CASE Begin
    BY <1>2, RunsAssumption DEF Begin, Runs
  <1>3. ASSUME NEW r \in Runs, Publish(r)
        PROVE  TypeOK'
    <2>1. run[r] = NewRun /\ r \in 1..begun
      BY <1>3, Born DEF Publish, RunInv, Unpublished
    <2>2. CASE Refuse(r)
      BY <1>3, <2>2 DEF Publish, Refuse
    <2>3. ASSUME NEW D \in SUBSET (runs \union {r}), PublishedAs(r, D)
          PROVE  TypeOK'
      BY <1>3, <2>1, <2>3 DEF Publish, PublishedAs
    <2>4. QED
      BY <1>3, <2>1, <2>2, <2>3, PublishStep
  <1>4. ASSUME NEW r \in Runs, CheckpointFull(r) \/ ForgetDrop(r) \/ ForgetRelease(r)
        PROVE  TypeOK'
    <2>1. run[r].status \in Ended \union {"queued", "in_progress"}
      BY DEF Record
    <2>2. r \in 1..begun
      BY <1>4, Born DEF CheckpointFull, ForgetDrop, ForgetRelease
    <2>3. CASE CheckpointFull(r)
      <3>1. outlived' \subseteq 1..begun
        BY <2>2, <2>3 DEF CheckpointFull
      <3>2. QED
        BY <2>1, <2>3, <3>1 DEF CheckpointFull, Checkpoint
    <2>4. CASE ForgetDrop(r) \/ ForgetRelease(r)
      BY <2>4 DEF ForgetDrop, ForgetRelease, Remove
    <2>5. QED
      BY <1>4, <2>3, <2>4
  <1>5. ASSUME NEW r \in Runs, Goroutine(r)
        PROVE  TypeOK'
    <2>1. run[r].status \in Ended \union {"queued", "in_progress"}
      BY DEF Record
    <2>2. Outcomes(r) \subseteq Ended
      BY OutcomesEnd
    <2>3. QED
      BY <1>5, <2>1, <2>2
         DEF Goroutine, Queued, Admitted, WriteHeader, Write, WriteTake, Chunk, ErrorEvent,
             FinishBody, Settle, SettleRefused, FinishRelease, FinishRemove, Inner,
             Checkpoint, Remove
  <1>6. ASSUME NEW r \in Runs, Stop(r) \/ Dismiss(r) \/ Expire(r) \/ ShutdownStops(r)
        PROVE  TypeOK'
    <2>1. CASE DismissRemove(r)
      <3>1. r \in 1..begun
        BY <2>1, Born DEF DismissRemove, RunInv, Unpublished
      <3>2. QED
        BY <2>1, <3>1 DEF DismissRemove, Remove
    <2>2. CASE ~DismissRemove(r)
      BY <1>6, <2>2
         DEF Stop, Dismiss, Delete, DismissDrop, DismissMark, DismissRelease,
             Expire, ShutdownStops, Remove
    <2>3. QED
      BY <2>1, <2>2
  <1>7. CASE ShutdownBegin \/ ShutdownReturns
    BY <1>7 DEF ShutdownBegin, ShutdownReturns
  <1>8. CASE Restart
    <2>1. \A r \in Runs : file[r] # "none" \/ Alive(r) => r \in 1..begun
      BY Born DEF RunInv, Unpublished, Alive
    <2>2. \A r \in Runs : Restored(r) \in Ended
      BY DEF Restored, Ended
    <2>3. restarts' \in 0..MaxRestarts
      <3>1. MaxRestarts \in Nat /\ restarts \in 0..MaxRestarts /\ restarts < MaxRestarts
        BY <1>8, RunsAssumption DEF Restart
      <3>2. restarts + 1 \in 0..MaxRestarts
        BY <3>1
      <3>3. QED
        BY <1>8, <3>2 DEF Restart
    <2>4. runs' \subseteq 1..begun /\ file' \in [Runs -> Ended \union {"none", "queued", "in_progress"}]
      <3>1. PICK expired \in SUBSET {r \in Runs : file[r] \in Ended} :
               LET back == {r \in Runs : file[r] # "none"} \ expired IN
               /\ runs' = back
               /\ file' = [r \in Runs |-> IF r \in back THEN Restored(r) ELSE "none"]
        BY <1>8, Zenon DEF Restart
      <3>2. QED
        BY <2>1, <2>2, <3>1
    <2>5. /\ maker' \in [Runs -> {"over", "none"}] /\ at' \in [Runs -> {"over", "none"}]
          /\ deleter' \in [Runs -> {"none"}]
          /\ outlived' \subseteq 1..begun
      BY <1>8, <2>1 DEF Restart
    <2>6. QED
      BY <1>8, <2>3, <2>4, <2>5 DEF Restart
  <1>9. QED
    BY <1>1, <1>2, <1>3, <1>4, <1>5, <1>6, <1>7, <1>8 DEF Next, Create

-----------------------------------------------------------------------------
(* The theorems *)

\* The initial states satisfy the invariant.
LEMMA InitIInv == Init => IInv
  <1> SUFFICES ASSUME Init
               PROVE  IInv
    OBVIOUS
  <1>1. run \in [Runs -> Record]
    BY NewRunFields DEF Init
  <1>2. TypeOK
    BY <1>1, RunsAssumption DEF Init, TypeOK, Runs
  <1>3. \A r \in Runs : RunInv(r)
    BY NewRunFields DEF Init, RunInv, Unpublished, Lives, Drops, Saved, Deleted, Alive,
                        Going, Terminal, Empty, Dropped
  <1>4. QED
    BY <1>2, <1>3 DEF Init, IInv

\* Nobody starts a run once Shutdown has returned.
LEMMA NextStopped ==
    ASSUME IInv, [Next]_vars, gateway' = "stopped", NEW s \in Runs
    PROVE  ~Alive(s)'
  <1> USE DEF Alive, memory, actors, ghosts
  <1>1. CASE ShutdownReturns
    BY <1>1 DEF ShutdownReturns
  <1>2. CASE ~ShutdownReturns
    <2>1. gateway = "stopped" /\ ~Alive(s)
      <3>1. ASSUME NEW r \in Runs, Create(r) \/ Stop(r) \/ Dismiss(r) \/ Expire(r)
            PROVE  gateway' = gateway
        BY <3>1 DEF Create, Publish, CheckpointFull, ForgetDrop, ForgetRelease, Stop, Dismiss,
             Delete, DismissDrop, DismissMark, DismissRelease, DismissRemove, Expire
      <3>2. ASSUME NEW r \in Runs, Goroutine(r)
            PROVE  gateway' = gateway
        BY <3>2 DEF Goroutine, Queued, Admitted, WriteHeader, Write, WriteTake, Chunk,
             ErrorEvent, FinishBody, Settle, SettleRefused, FinishRelease, FinishRemove, Inner
      <3>3. gateway' = gateway
        BY <1>2, <3>1, <3>2 DEF vars, Next, Begin, ShutdownStops, ShutdownBegin, Restart
      <3>4. QED
        BY <3>3 DEF IInv
    <2>2. TypeOK /\ \A r \in Runs : RunInv(r) /\ ~Alive(r)
      BY <2>1 DEF IInv
    <2>3. CASE UNCHANGED at
      BY <2>1, <2>3
    <2>4. ASSUME NEW r \in Runs, Publish(r)
          PROVE  UNCHANGED at
      BY <2>1, <2>4 DEF Publish, Refuse
    <2>5. ASSUME NEW r \in Runs, Goroutine(r)
          PROVE  FALSE
      BY <2>2, <2>5 DEF Goroutine, Queued, Admitted, WriteHeader, Write, WriteTake, Chunk,
           ErrorEvent, FinishBody, Settle, SettleRefused, FinishRelease, FinishRemove, Inner
    <2>6. CASE Restart
      BY <2>1, <2>6 DEF Restart
    <2>7. QED
      BY <1>2, <2>3, <2>4, <2>5, <2>6
         DEF vars, Next, Begin, Create, CheckpointFull, ForgetDrop, ForgetRelease, Stop,
           Dismiss, Delete, DismissDrop, DismissMark, DismissRelease, DismissRemove, Expire,
           ShutdownStops, ShutdownBegin
  <1>3. QED
    BY <1>1, <1>2

\* The invariant is inductive.
LEMMA NextIInv == IInv /\ [Next]_vars => IInv'
  <1> SUFFICES ASSUME IInv, [Next]_vars
               PROVE  IInv'
    OBVIOUS
  <1>1. TypeOK'
    BY NextType DEF IInv
  <1>2. (\A r \in Runs : RunInv(r))'
    BY NextRunInv DEF IInv
  <1>3. (gateway = "stopped" => \A r \in Runs : ~Alive(r))'
    BY NextStopped
  <1>4. QED
    BY <1>1, <1>2, <1>3 DEF IInv

\* The invariant holds in every reachable state.
THEOREM Invariance == Spec => []IInv
  BY InitIInv, NextIInv, PTL DEF Spec

\* Every variable keeps its type, and no result outgrows MaxResult, whatever the
\* limits are and however many runs there are.
THEOREM TypeCorrect == Spec => []TypeOK
  <1>1. IInv => TypeOK
    BY DEF IInv
  <1>2. QED
    BY <1>1, Invariance, PTL

\* A deleted run that no gateway outlived is in no list again, and leaves no
\* checkpoint once its goroutine has ended (dismiss, finish, sweepStart).
THEOREM DeletedRunsStayGone == Spec => []DeletedStaysGone
  <1>1. IInv => DeletedStaysGone
    BY RunsAssumption DEF IInv, TypeOK, Runs, RunInv, Deleted, DeletedStaysGone
  <1>2. QED
    BY <1>1, Invariance, PTL

\* A Shutdown whose wait succeeded leaves no run going, and the outcome of every
\* run it leaves is in its checkpoint (create's closing check, wg.Add, finish).
THEOREM ShutdownLeavesNothing == Spec => []ShutdownWaits
  <1>1. IInv => ShutdownWaits
    BY DEF IInv, RunInv, Saved, ShutdownWaits
  <1>2. QED
    BY <1>1, Invariance, PTL

\* However its writes, its end, its dismissal, a trim and an expiry interleave, a
\* run that was dropped holds nothing once nobody works on it (release, charge).
THEOREM DroppedRunsHoldNothing == Spec => []DroppedHoldsNothing
  <1>1. IInv => DroppedHoldsNothing
    BY DEF IInv, RunInv, Drops, Empty, Settled, DroppedHoldsNothing
  <1>2. QED
    BY <1>1, Invariance, PTL

\* An outcome changes only when a restart finds that a media result, which lived
\* in memory, is gone (finish, checkpoint, sweepStart).
THEOREM OutcomesSurvive == Spec => OutcomeSurvives
  <1> DEFINE Kept(r) ==
        Terminal(r) /\ run'[r].status # run[r].status =>
            /\ restarts' > restarts
            /\ Target[r] = "media" /\ run[r].status = "completed"
            /\ run'[r].status = "interrupted"
  <1>1. ASSUME IInv, [Next]_vars, NEW r \in runs \intersect runs'
        PROVE  Kept(r)
    <2>0. TypeOK /\ r \in Runs /\ RunInv(r) /\ run \in [Runs -> Record]
          /\ maker[r] \notin {"none", "sized", "refused"}
      BY <1>1, RunsAssumption DEF IInv, TypeOK, Runs, RunInv, Unpublished
    <2>1. CASE run'[r].status = run[r].status
      BY <2>1
    <2>2. ASSUME NEW s \in Runs, StepOf(s), s # r
          PROVE  Kept(r)
      BY <2>0, <2>1, <2>2, OthersUntouched DEF Untouched
    <2>3. ASSUME StepOf(r)
          PROVE  Kept(r)
      <3>1. CASE ForgetRelease(r) \/ FinishRelease(r) \/ DismissRelease(r) \/ Expire(r)
        BY <2>0, <2>1, <3>1, ReleaseStep DEF ForgetRelease, FinishRelease, DismissRelease, Expire
      <3>2. CASE \E how \in Ended : run' = Stopped(r, how)
        BY <2>0, <2>1, <3>2, StopStep
      <3>3. CASE Going(r)
        BY <2>0, <3>3 DEF RunInv, Lives
      <3>4. CASE UNCHANGED run
        BY <2>1, <3>4
      <3>5. CASE DismissMark(r)
        BY <2>0, <2>1, <3>5 DEF DismissMark, Record
      <3>6. QED
        BY <2>3, <3>1, <3>2, <3>3, <3>4, <3>5
           DEF StepOf, CheckpointFull, ForgetDrop, Goroutine, Queued, Admitted, WriteHeader,
             Write, WriteTake, Chunk, ErrorEvent, FinishBody, Settle, SettleRefused,
             FinishRemove, Inner, Stop, Dismiss, Delete, DismissDrop, DismissRemove,
             ShutdownStops, Going, Ended, memory
    <2>4. ASSUME NEW s \in Runs, Publish(s)
          PROVE  Kept(r)
      <3>1. run[s] = NewRun /\ s # r
        BY <1>1, <2>0, <2>4 DEF IInv, RunInv, Unpublished, Publish
      <3>2. QED
        BY <2>0, <2>1, <2>4, <3>1, PublishStep DEF Refuse, PublishedAs
    <2>5. CASE Restart
      <3>1. ASSUME Terminal(r)
            PROVE  file[r] = run[r].status
        BY <1>1, <2>0, <2>5, <3>1 DEF Restart, RunInv, Saved
      <3>2. run'[r].status = Restored(r)
        <4>1. run'[r] = [NewRun EXCEPT !.status = Restored(r), !.held = 1]
          BY <1>1, <2>0, <2>5 DEF Restart
        <4>2. QED
          BY <4>1 DEF NewRun
      <3>3. restarts' > restarts
        <4>1. MaxRestarts \in Nat /\ restarts \in 0..MaxRestarts
          BY <2>0, RunsAssumption, Zenon DEF TypeOK
        <4>2. restarts' = restarts + 1
          BY <2>5 DEF Restart
        <4>3. QED
          BY <4>1, <4>2
      <3>4. QED
        BY <3>1, <3>2, <3>3 DEF Restored, Terminal
    <2>6. CASE Begin \/ ShutdownBegin \/ ShutdownReturns \/ UNCHANGED vars
      BY <2>1, <2>6 DEF Begin, ShutdownBegin, ShutdownReturns, vars, memory
    <2>7. QED
      BY <1>1, <2>2, <2>3, <2>4, <2>5, <2>6 DEF Next, Create, StepOf
  <1>2. IInv /\ [Next]_vars => [\A r \in runs \intersect runs' : Kept(r)]_vars
    BY <1>1
  <1>3. QED
    BY <1>2, Invariance, PTL DEF Spec, OutcomeSurvives

-----------------------------------------------------------------------------
(* The memory that is counted *)

\* There are finitely many units.
LEMMA UnitsFinite ==
    ASSUME NEW S \in SUBSET Runs, NEW n \in [Runs -> Int]
    PROVE  IsFiniteSet(Units(n, S)) /\ Cardinality(Units(n, S)) \in Nat
  <1> DEFINE part == [r \in S |-> {r} \X (1..n[r])]
             parts == {{r} \X (1..n[r]) : r \in S}
  <1>1. IsFiniteSet(S)
    <2>1. 1 \in Int /\ MaxRuns \in Int
      BY RunsAssumption
    <2>2. IsFiniteSet(Runs)
      BY <2>1, FS_Interval, Zenon DEF Runs
    <2>3. QED
      BY <2>2, FS_Subset
  <1>2. part \in Surjection(S, parts)
    BY DEF Surjection
  <1>3. IsFiniteSet(parts)
    BY <1>1, <1>2, FS_Surjection
  <1>4. ASSUME NEW r \in S
        PROVE  IsFiniteSet({r} \X (1..n[r]))
    <2>1. 1 \in Int /\ n[r] \in Int
      OBVIOUS
    <2>2. IsFiniteSet(1..n[r]) /\ IsFiniteSet({r})
      BY <2>1, FS_Interval, FS_Singleton, Zenon
    <2>3. QED
      BY <2>2, FS_Product
  <1>5. \A T \in parts : IsFiniteSet(T)
    BY <1>4
  <1> HIDE DEF parts
  <1>6. IsFiniteSet(UNION parts)
    BY <1>3, <1>5, FS_UNION
  <1>7. QED
    BY <1>6, FS_CardinalityType DEF Units, parts

\* Whose a unit is.
LEMMA UnitsElements ==
    ASSUME NEW n, NEW S
    PROVE  \A u : u \in Units(n, S) <=> \E r \in S : u \in {r} \X (1..n[r])
  BY DEF Units

\* One run has as many units as it says.
LEMMA UnitsOfOne ==
    ASSUME NEW r \in Runs, NEW n \in [Runs -> Int]
    PROVE  Cardinality(Units(n, {r})) = IF n[r] > 0 THEN n[r] ELSE 0
  <1> DEFINE U == Units(n, {r})
             b == [i \in 1..n[r] |-> <<r, i>>]
  <1>1. IsFiniteSet(1..n[r]) /\ Cardinality(1..n[r]) = IF n[r] > 0 THEN n[r] ELSE 0
    <2>1. 1 \in Int /\ n[r] \in Int
      OBVIOUS
    <2>2. /\ IsFiniteSet(1..n[r])
          /\ Cardinality(1..n[r]) = IF 1 > n[r] THEN 0 ELSE n[r] - 1 + 1
      BY <2>1, FS_Interval, Zenon
    <2>3. QED
      BY <2>2
  <1>2. U = {<<r, i>> : i \in 1..n[r]}
    BY DEF Units
  <1>3. b \in Bijection(1..n[r], U)
    BY <1>2 DEF Bijection, Injection, Surjection, IsInjective
  <1>4. QED
    BY <1>1, <1>3, FS_Bijection DEF ExistsBijection

\* The units of two groups of runs are counted apart.
LEMMA UnitsUnion ==
    ASSUME NEW S \in SUBSET Runs, NEW T \in SUBSET Runs, S \intersect T = {},
           NEW n \in [Runs -> Int]
    PROVE  Cardinality(Units(n, S \union T)) = Cardinality(Units(n, S)) + Cardinality(Units(n, T))
  <1>1. Units(n, S \union T) = Units(n, S) \union Units(n, T)
    <2>1. \A u : u \in Units(n, S \union T) <=> u \in Units(n, S) \/ u \in Units(n, T)
      <3> DEFINE part(r) == {r} \X (1..n[r])
      <3>1. \A X, u : u \in Units(n, X) <=> \E r \in X : u \in part(r)
        BY UnitsElements
      <3> HIDE DEF part
      <3>2. QED
        BY <3>1
    <2>2. QED
      BY <2>1
  <1>2. Units(n, S) \intersect Units(n, T) = {}
    <2>1. \A u \in Units(n, S) : u[1] \in S
      BY UnitsElements
    <2>2. \A u \in Units(n, T) : u[1] \in T
      BY UnitsElements
    <2>3. QED
      BY <2>1, <2>2
  <1>3. /\ IsFiniteSet(Units(n, S)) /\ IsFiniteSet(Units(n, T))
        /\ Cardinality(Units(n, S)) \in Nat /\ Cardinality(Units(n, T)) \in Nat
    BY UnitsFinite
  <1>4. Cardinality(Units(n, S) \intersect Units(n, T)) = 0
    BY <1>2, FS_EmptySet, Zenon
  <1>5. Cardinality(Units(n, S) \union Units(n, T)) =
           Cardinality(Units(n, S)) + Cardinality(Units(n, T))
           - Cardinality(Units(n, S) \intersect Units(n, T))
    BY <1>3, FS_Union, Zenon
  <1>6. Cardinality(Units(n, S \union T)) = Cardinality(Units(n, S) \union Units(n, T))
    BY <1>1, Zenon
  <1>7. QED
    BY <1>3, <1>4, <1>5, <1>6

\* What some runs owe is what they hold, negated.
LEMMA NegatedType ==
    ASSUME NEW n \in [Runs -> Int]
    PROVE  /\ [r \in Runs |-> -n[r]] \in [Runs -> Int]
           /\ \A r \in Runs : [s \in Runs |-> -n[s]][r] = -n[r]
  OBVIOUS

\* The total of two groups of runs is the sum of theirs.
LEMMA TotalUnion ==
    ASSUME NEW S \in SUBSET Runs, NEW T \in SUBSET Runs, S \intersect T = {},
           NEW n \in [Runs -> Int]
    PROVE  /\ Total(n, S) \in Int /\ Total(n, T) \in Int
           /\ Total(n, S \union T) = Total(n, S) + Total(n, T)
  <1>1. PICK m \in [Runs -> Int] : m = [r \in Runs |-> -n[r]]
    BY NegatedType
  <1>2. /\ Cardinality(Units(n, S)) \in Nat /\ Cardinality(Units(n, T)) \in Nat
        /\ Cardinality(Units(m, S)) \in Nat /\ Cardinality(Units(m, T)) \in Nat
    BY UnitsFinite
  <1>3. /\ Cardinality(Units(n, S \union T)) = Cardinality(Units(n, S)) + Cardinality(Units(n, T))
        /\ Cardinality(Units(m, S \union T)) = Cardinality(Units(m, S)) + Cardinality(Units(m, T))
    BY UnitsUnion
  <1>4. \A X : Total(n, X) = Cardinality(Units(n, X)) - Cardinality(Units(m, X))
    BY <1>1 DEF Total
  <1>5. QED
    BY <1>2, <1>3, <1>4

\* The total of one run is what it holds.
LEMMA TotalOfOne ==
    ASSUME NEW r \in Runs, NEW n \in [Runs -> Int]
    PROVE  Total(n, {r}) = n[r]
  <1>1. PICK m \in [Runs -> Int] : m = [s \in Runs |-> -n[s]]
    BY NegatedType
  <1>2. m[r] = -n[r] /\ n[r] \in Int
    BY <1>1
  <1>3. /\ Cardinality(Units(n, {r})) = IF n[r] > 0 THEN n[r] ELSE 0
        /\ Cardinality(Units(m, {r})) = IF m[r] > 0 THEN m[r] ELSE 0
    BY UnitsOfOne
  <1>4. Total(n, {r}) = Cardinality(Units(n, {r})) - Cardinality(Units(m, {r}))
    BY <1>1 DEF Total
  <1>5. QED
    BY <1>2, <1>3, <1>4

\* Runs that hold the same have the same total.
LEMMA TotalOfSame ==
    ASSUME NEW S \in SUBSET Runs, NEW n \in [Runs -> Int], NEW m \in [Runs -> Int],
           \A r \in S : n[r] = m[r]
    PROVE  Total(n, S) = Total(m, S)
  <1>1. \A k \in [Runs -> Int], l \in [Runs -> Int] :
           (\A r \in S : k[r] = l[r]) => Units(k, S) = Units(l, S)
    <2> SUFFICES ASSUME NEW k \in [Runs -> Int], NEW l \in [Runs -> Int], \A r \in S : k[r] = l[r]
                 PROVE  Units(k, S) = Units(l, S)
      OBVIOUS
    <2> DEFINE part(f, r) == {r} \X (1..f[r])
    <2>1. \A r \in S : part(k, r) = part(l, r)
      OBVIOUS
    <2>2. \A f, u : u \in Units(f, S) <=> \E r \in S : u \in part(f, r)
      BY UnitsElements
    <2> HIDE DEF part
    <2>3. \A u : u \in Units(k, S) <=> u \in Units(l, S)
      BY <2>1, <2>2
    <2>4. QED
      BY <2>3
  <1>2. PICK k \in [Runs -> Int] : k = [r \in Runs |-> -n[r]]
    BY NegatedType
  <1>3. PICK l \in [Runs -> Int] : l = [r \in Runs |-> -m[r]]
    BY NegatedType
  <1>4. \A r \in S : k[r] = l[r]
    BY <1>2, <1>3
  <1>5. Units(n, S) = Units(m, S) /\ Units(k, S) = Units(l, S)
    BY <1>1, <1>4
  <1>6. QED
    BY <1>2, <1>3, <1>5 DEF Total

\* Runs that hold nothing have no total.
LEMMA TotalOfNone ==
    ASSUME NEW S \in SUBSET Runs, NEW n \in [Runs -> Int], \A r \in S : n[r] = 0
    PROVE  Total(n, S) = 0
  <1>1. PICK k \in [Runs -> Int] : k = [r \in Runs |-> -n[r]]
    BY NegatedType
  <1>2. \A r \in S : k[r] = 0
    BY <1>1
  <1>3. Units(n, S) = {} /\ Units(k, S) = {}
    BY <1>2 DEF Units
  <1>4. Cardinality(Units(n, S)) = 0 /\ Cardinality(Units(k, S)) = 0
    BY <1>3, FS_EmptySet, Zenon
  <1>5. QED
    BY <1>1, <1>4 DEF Total

\* Runs that hold one unit each have a total of their number.
LEMMA TotalOfOnes ==
    ASSUME NEW S \in SUBSET Runs, NEW n \in [Runs -> Int], \A r \in S : n[r] = 1
    PROVE  Total(n, S) = Cardinality(S)
  <1>1. PICK k \in [Runs -> Int] : k = [r \in Runs |-> -n[r]]
    BY NegatedType
  <1>2. \A r \in S : k[r] = -1
    BY <1>1
  <1>3. Units(k, S) = {} /\ Units(n, S) = {<<r, 1>> : r \in S}
    <2>1. \A r \in S : 1..k[r] = {} /\ 1..n[r] = {1}
      BY <1>2
    <2>2. Units(k, S) = {}
      BY <2>1, UnitsElements
    <2>3. \A r \in S : {r} \X (1..n[r]) = {<<r, 1>>}
      BY <2>1
    <2>4. \A u : u \in Units(n, S) <=> \E r \in S : u \in {<<r, 1>>}
      BY <2>3, UnitsElements, Zenon
    <2>5. QED
      BY <2>2, <2>4
  <1>4. [r \in S |-> <<r, 1>>] \in Bijection(S, Units(n, S))
    BY <1>3 DEF Bijection, Injection, Surjection, IsInjective
  <1>5. IsFiniteSet(S) /\ Cardinality(S) \in Nat
    <2>1. 1 \in Int /\ MaxRuns \in Int
      BY RunsAssumption
    <2>2. IsFiniteSet(Runs)
      BY <2>1, FS_Interval, Zenon DEF Runs
    <2>3. QED
      BY <2>2, FS_Subset, FS_CardinalityType
  <1>6. Cardinality(Units(n, S)) = Cardinality(S)
    BY <1>4, <1>5, FS_Bijection DEF ExistsBijection
  <1>7. QED
    BY <1>1, <1>3, <1>5, <1>6, FS_EmptySet DEF Total

\* When the runs D give back all they hold, the total is less by theirs.
LEMMA TotalReleased ==
    ASSUME NEW D \in SUBSET Runs, NEW n \in [Runs -> Int], NEW m \in [Runs -> Int],
           \A r \in D : m[r] = 0, \A r \in Runs \ D : m[r] = n[r]
    PROVE  Total(n, Runs) \in Int /\ Total(n, D) \in Int /\ Total(m, Runs) = Total(n, Runs) - Total(n, D)
  <1>1. Runs = D \union (Runs \ D) /\ D \intersect (Runs \ D) = {} /\ Runs \ D \in SUBSET Runs
    OBVIOUS
  <1>2. /\ Total(n, Runs) = Total(n, D) + Total(n, Runs \ D)
        /\ Total(m, Runs) = Total(m, D) + Total(m, Runs \ D)
        /\ Total(n, D) \in Int /\ Total(n, Runs \ D) \in Int
    <2>1. \A k \in [Runs -> Int] :
             /\ Total(k, D) \in Int /\ Total(k, Runs \ D) \in Int
             /\ Total(k, D \union (Runs \ D)) = Total(k, D) + Total(k, Runs \ D)
      BY <1>1, TotalUnion
    <2>2. \A k : Total(k, Runs) = Total(k, D \union (Runs \ D))
      BY <1>1, Zenon
    <2>3. QED
      BY <2>1, <2>2, Zenon
  <1>3. Total(m, D) = 0 /\ Total(m, Runs \ D) = Total(n, Runs \ D)
    BY <1>1, TotalOfNone, TotalOfSame
  <1>4. QED
    BY <1>2, <1>3

\* When one run changes what it holds, the total changes as much.
LEMMA TotalChanged ==
    ASSUME NEW r \in Runs, NEW n \in [Runs -> Int], NEW m \in [Runs -> Int],
           \A s \in Runs \ {r} : m[s] = n[s]
    PROVE  Total(n, Runs) \in Int /\ Total(m, Runs) = Total(n, Runs) - n[r] + m[r]
  <1>1. Runs = {r} \union (Runs \ {r}) /\ {r} \intersect (Runs \ {r}) = {}
        /\ {r} \in SUBSET Runs /\ Runs \ {r} \in SUBSET Runs
    OBVIOUS
  <1>2. /\ Total(n, Runs) = Total(n, {r}) + Total(n, Runs \ {r})
        /\ Total(m, Runs) = Total(m, {r}) + Total(m, Runs \ {r})
        /\ Total(n, Runs \ {r}) \in Int
    <2>1. \A k \in [Runs -> Int] :
             /\ Total(k, {r}) \in Int /\ Total(k, Runs \ {r}) \in Int
             /\ Total(k, {r} \union (Runs \ {r})) = Total(k, {r}) + Total(k, Runs \ {r})
      BY <1>1, TotalUnion
    <2>2. \A k : Total(k, Runs) = Total(k, {r} \union (Runs \ {r}))
      BY <1>1, Zenon
    <2>3. QED
      BY <2>1, <2>2, Zenon
  <1>3. Total(m, Runs \ {r}) = Total(n, Runs \ {r})
    BY <1>1, TotalOfSame
  <1>4. Total(n, {r}) = n[r] /\ Total(m, {r}) = m[r]
    BY TotalOfOne
  <1>5. QED
    BY <1>2, <1>3, <1>4

-----------------------------------------------------------------------------
(* Every step keeps the count *)

Writing == {r \in Runs : at[r] = "write"}
Sized == {r \in Runs : maker[r] = "sized"}

\* m.held is what the runs hold, and what is counted before it is taken.
Counted == held = HeldBy(Runs) + Cardinality(Writing) + Cardinality(Sized)

\* finish begins when the body has been given back.
BodyGiven(r) == at[r] = "finish" => run[r].body = 0

CountInv == Counted /\ \A r \in Runs : BodyGiven(r)

\* What a run holds.
Held(r) == run[r].held + run[r].body

\* They are integers: a body that was given back twice is owed.
LEMMA HoldsFields ==
    ASSUME NEW f \in [Runs -> Record]
    PROVE  /\ Holds(f) \in [Runs -> Int]
           /\ \A r \in Runs : /\ f[r].held \in Int /\ f[r].body \in Int
                              /\ Holds(f)[r] = f[r].held + f[r].body
  <1>1. \A r \in Runs : f[r].held \in Int /\ f[r].body \in Int
    BY DEF Record
  <1>2. QED
    BY <1>1 DEF Holds

\* Counts are finite.
LEMMA CountTypes ==
    /\ IsFiniteSet(Writing) /\ Cardinality(Writing) \in Nat
    /\ IsFiniteSet(Sized) /\ Cardinality(Sized) \in Nat
  <1>1. 1 \in Int /\ MaxRuns \in Int
    BY RunsAssumption
  <1>2. IsFiniteSet(Runs)
    BY <1>1, FS_Interval, Zenon DEF Runs
  <1>3. Writing \subseteq Runs /\ Sized \subseteq Runs
    BY DEF Writing, Sized
  <1>4. QED
    BY <1>2, <1>3, FS_Subset, FS_CardinalityType

\* Totals are integers.
LEMMA TotalInt ==
    ASSUME NEW n \in [Runs -> Int]
    PROVE  Total(n, Runs) \in Int
  <1>1. PICK m \in [Runs -> Int] : m = [r \in Runs |-> -n[r]]
    BY NegatedType
  <1>2. Cardinality(Units(n, Runs)) \in Nat /\ Cardinality(Units(m, Runs)) \in Nat
    BY UnitsFinite
  <1>3. QED
    BY <1>1, <1>2 DEF Total

\* So is what all runs hold.
LEMMA HeldByInt ==
    ASSUME run \in [Runs -> Record]
    PROVE  HeldBy(Runs) \in Int
  BY HoldsFields, TotalInt DEF HeldBy

\* The total after a step that changes what r holds.
LEMMA HeldByChanged ==
    ASSUME run \in [Runs -> Record], run' \in [Runs -> Record], NEW r \in Runs,
           \A s \in Runs \ {r} : run'[s].held = run[s].held /\ run'[s].body = run[s].body
    PROVE  /\ HeldBy(Runs) \in Int /\ Held(r) \in Int /\ Held(r)' \in Int
           /\ HeldBy(Runs)' = HeldBy(Runs) - Held(r) + Held(r)'
  <1>1. PICK n \in [Runs -> Int] : n = Holds(run)
    BY HoldsFields
  <1>2. PICK m \in [Runs -> Int] : m = Holds(run')
    BY HoldsFields
  <1>3. /\ n[r] = Held(r) /\ m[r] = Held(r)'
        /\ \A s \in Runs \ {r} : m[s] = n[s]
    BY <1>1, <1>2, HoldsFields DEF Held
  <1>4. Total(n, Runs) \in Int /\ Total(m, Runs) = Total(n, Runs) - n[r] + m[r]
    BY <1>3, TotalChanged
  <1>5. HeldBy(Runs) = Total(n, Runs) /\ HeldBy(Runs)' = Total(m, Runs)
    BY <1>1, <1>2 DEF HeldBy
  <1>6. QED
    BY <1>3, <1>4, <1>5

\* What a step of r's actors does to the count: what r holds more or less is
\* counted; or one unit is counted and not yet taken, or taken.
Charges(r) ==
    /\ maker'[r] = "sized" <=> maker[r] = "sized"
    /\ BodyGiven(r)'
    /\ \/ /\ at'[r] = "write" <=> at[r] = "write"
          /\ held' = held - Held(r) + Held(r)'
       \/ at[r] # "write" /\ at'[r] = "write" /\ held' = held + 1 /\ Held(r)' = Held(r)
       \/ at[r] = "write" /\ at'[r] # "write" /\ held' = held /\ Held(r)' = Held(r) + 1

\* The fields of a run that has ended: the body it does not keep is given back.
LEMMA ClosedHolds ==
    ASSUME run \in [Runs -> Record], NEW r \in Runs, NEW outcome \in Ended
    PROVE  /\ Unused(r, outcome) \in Int
           /\ Closed(r, outcome).held = run[r].held - Unused(r, outcome)
           /\ Closed(r, outcome).body = 0
  <1>1. Unused(r, outcome) \in Int
    BY RunsAssumption DEF Unused, Record
  <1>2. PICK n \in Int : n = run[r].held - Unused(r, outcome)
    BY <1>1 DEF Record
  <1>3. Closed(r, outcome) = [NewRun EXCEPT !.status = outcome, !.queuedSeen = TRUE, !.held = n]
    BY <1>2, Zenon DEF Closed
  <1>4. QED
    BY <1>1, <1>2, <1>3 DEF NewRun

\* release(r) takes from the count what r holds.
LEMMA ReleaseCharge ==
    ASSUME run \in [Runs -> Record], held \in Int, NEW r \in Runs, Release(r)
    PROVE  held' = held - Held(r) + Held(r)' /\ run'[r].body = 0
  <1>1. held' = held - Held(r) /\ Held(r) \in Int
    BY HoldsFields DEF Release, Held
  <1>2. run'[r].held = 0 /\ run'[r].body = 0
    BY ReleaseStep
  <1>3. QED
    BY <1>1, <1>2 DEF Held

\* Every step of a run's actors charges that run.
LEMMA StepOfCharges ==
    ASSUME TypeOK, NEW r \in Runs, RunInv(r), BodyGiven(r), held \in Int, StepOf(r)
    PROVE  Charges(r)
  <1>0. /\ run[r] \in Record /\ run[r].held \in Int /\ run[r].body \in Int
        /\ run \in [Runs -> Record] /\ Holds(run)[r] = Held(r)
    BY HoldsFields DEF TypeOK, Held
  <1> USE <1>0 DEF TypeOK, BodyGiven, Charges, Held, memory, actors, ghosts, Ended
  <1>1. CASE CheckpointFull(r)
    BY <1>1 DEF CheckpointFull
  <1>2. CASE ForgetDrop(r)
    BY <1>2 DEF ForgetDrop
  <1>3. CASE ForgetRelease(r)
    BY <1>3, ReleaseCharge DEF ForgetRelease
  <1>4. CASE Queued(r)
    BY <1>4 DEF Queued, Inner
  <1>5. CASE Admitted(r)
    BY <1>5 DEF Admitted, Inner
  <1>6. CASE WriteHeader(r)
    BY <1>6 DEF WriteHeader, Inner
  <1>7. CASE Write(r)
    <2>1. CASE run' = Stopped(r, "failed") /\ UNCHANGED <<held, at>>
      BY <1>7, <2>1, StopStep DEF Write, Inner
    <2>2. CASE held' = held + 1 /\ at' = [at EXCEPT ![r] = "write"] /\ UNCHANGED run
      BY <1>7, <2>2 DEF Write, Inner
    <2>3. QED
      BY <1>7, <2>1, <2>2, Zenon DEF Write
  <1>8. CASE WriteTake(r)
    BY <1>8 DEF WriteTake
  <1>9. CASE Chunk(r)
    <2>1. CASE run' = Stopped(r, "failed") /\ UNCHANGED <<held, file>>
      BY <1>9, <2>1, StopStep DEF Chunk, Inner
    <2>2. CASE run' = [run EXCEPT ![r].held = @ + 1] /\ held' = held + 1
      BY <1>9, <2>2 DEF Chunk, Inner
    <2>3. QED
      BY <1>9, <2>1, <2>2 DEF Chunk
  <1>10. CASE ErrorEvent(r)
    BY <1>10 DEF ErrorEvent, Inner
  <1>11. CASE FinishBody(r)
    BY <1>11 DEF FinishBody, Inner
  <1>12. CASE Settle(r)
    <2>1. PICK outcome \in Outcomes(r) :
             /\ run' = [run EXCEPT ![r] = Closed(r, outcome)]
             /\ held' = held - Unused(r, outcome)
      BY <1>12, Zenon DEF Settle
    <2>2. outcome \in Ended
      BY OutcomesEnd
    <2>3. /\ run'[r].held = run[r].held - Unused(r, outcome) /\ run'[r].body = 0
          /\ Unused(r, outcome) \in Int
      BY <2>1, <2>2, ClosedHolds
    <2>4. /\ run[r].body = 0 /\ at[r] # "write" /\ at'[r] # "write" /\ at'[r] # "finish"
          /\ maker' = maker
      BY <1>12 DEF Settle
    <2>5. held' = held - Held(r) + Held(r)'
      BY <2>1, <2>3, <2>4
    <2>6. QED
      BY <2>4, <2>5
  <1>13. CASE SettleRefused(r)
    BY <1>13 DEF SettleRefused
  <1>14. CASE FinishRelease(r)
    BY <1>14, ReleaseCharge DEF FinishRelease
  <1>15. CASE FinishRemove(r)
    BY <1>15 DEF FinishRemove
  <1>16. CASE Stop(r)
    BY <1>16, StopStep DEF Stop
  <1>17. CASE Delete(r)
    BY <1>17, StopStep DEF Delete
  <1>18. CASE DismissDrop(r)
    BY <1>18 DEF DismissDrop
  <1>19. CASE DismissMark(r)
    BY <1>19 DEF DismissMark
  <1>20. CASE DismissRelease(r)
    BY <1>20, ReleaseCharge DEF DismissRelease
  <1>21. CASE DismissRemove(r)
    BY <1>21 DEF DismissRemove
  <1>22. CASE Expire(r)
    BY <1>22, ReleaseCharge DEF Expire
  <1>23. CASE ShutdownStops(r)
    BY <1>23, StopStep DEF ShutdownStops
  <1>q. QED
    BY <1>1, <1>2, <1>3, <1>4, <1>5, <1>6, <1>7, <1>8, <1>9, <1>10, <1>11, <1>12,
       <1>13, <1>14, <1>15, <1>16, <1>17, <1>18, <1>19, <1>20, <1>21, <1>22, <1>23
       DEF StepOf, Goroutine, Dismiss

\* A step that charges one run keeps the count.
LEMMA ChargesCounted ==
    ASSUME TypeOK, run' \in [Runs -> Record], CountInv, NEW r \in Runs, Charges(r),
           \A s \in Runs \ {r} :
              /\ run'[s] = run[s]
              /\ maker'[s] = "sized" <=> maker[s] = "sized"
              /\ at'[s] = at[s]
    PROVE  CountInv'
  <1>1. /\ HeldBy(Runs) \in Int /\ Held(r) \in Int /\ Held(r)' \in Int
        /\ HeldBy(Runs)' = HeldBy(Runs) - Held(r) + Held(r)'
    BY HeldByChanged DEF TypeOK
  <1>2. /\ IsFiniteSet(Writing) /\ Cardinality(Writing) \in Nat
        /\ Cardinality(Sized) \in Nat
    BY CountTypes
  <1>3. Sized' = Sized
    BY DEF Sized, Charges
  <1>4. Cardinality(Sized)' = Cardinality(Sized)
    BY <1>3, Zenon
  <1>5. \A s \in Runs : BodyGiven(s)'
    BY DEF CountInv, Charges, BodyGiven
  <1>6. held = HeldBy(Runs) + Cardinality(Writing) + Cardinality(Sized)
    BY DEF CountInv, Counted
  <1>7. CASE (at'[r] = "write" <=> at[r] = "write") /\ held' = held - Held(r) + Held(r)'
    <2>1. Writing' = Writing
      BY <1>7 DEF Writing
    <2>2. Cardinality(Writing)' = Cardinality(Writing)
      BY <2>1, Zenon
    <2>3. held' = HeldBy(Runs)' + Cardinality(Writing)' + Cardinality(Sized)'
      BY <1>1, <1>2, <1>4, <1>6, <1>7, <2>2
    <2>4. QED
      BY <1>5, <2>3 DEF CountInv, Counted
  <1>8. CASE at[r] # "write" /\ at'[r] = "write" /\ held' = held + 1 /\ Held(r)' = Held(r)
    <2>1. r \notin Writing /\ Writing' = Writing \union {r}
      BY <1>8 DEF Writing
    <2>2. Cardinality(Writing \union {r}) = Cardinality(Writing) + 1
      BY <1>2, <2>1, FS_AddElement
    <2>3. Cardinality(Writing)' = Cardinality(Writing \union {r})
      BY <2>1, Zenon
    <2>4. held' = HeldBy(Runs)' + Cardinality(Writing)' + Cardinality(Sized)'
      BY <1>1, <1>2, <1>4, <1>6, <1>8, <2>2, <2>3
    <2>5. QED
      BY <1>5, <2>4 DEF CountInv, Counted
  <1>9. CASE at[r] = "write" /\ at'[r] # "write" /\ held' = held /\ Held(r)' = Held(r) + 1
    <2>1. r \in Writing /\ Writing' = Writing \ {r}
      BY <1>9 DEF Writing
    <2>2. Cardinality(Writing \ {r}) = Cardinality(Writing) - 1
      BY <1>2, <2>1, FS_RemoveElement
    <2>3. Cardinality(Writing)' = Cardinality(Writing \ {r})
      BY <2>1, Zenon
    <2>4. held' = HeldBy(Runs)' + Cardinality(Writing)' + Cardinality(Sized)'
      BY <1>1, <1>2, <1>4, <1>6, <1>9, <2>2, <2>3
    <2>5. QED
      BY <1>5, <2>4 DEF CountInv, Counted
  <1>10. QED
    BY <1>7, <1>8, <1>9 DEF Charges

\* A body that create has counted and that a run takes, or that is given back.
LEMMA SizedChanged ==
    ASSUME NEW r \in Runs, \A s \in Runs \ {r} : maker'[s] = "sized" <=> maker[s] = "sized"
    PROVE  Cardinality(Sized)' = Cardinality(Sized) + (IF maker'[r] = "sized" THEN 1 ELSE 0)
                                                    - (IF maker[r] = "sized" THEN 1 ELSE 0)
  <1>1. IsFiniteSet(Sized) /\ Cardinality(Sized) \in Nat
    BY CountTypes
  <1>2. CASE maker'[r] = "sized" <=> maker[r] = "sized"
    <2>1. Sized' = Sized
      BY <1>2 DEF Sized
    <2>2. Cardinality(Sized)' = Cardinality(Sized)
      BY <2>1, Zenon
    <2>3. QED
      BY <1>1, <1>2, <2>2
  <1>3. CASE maker'[r] = "sized" /\ maker[r] # "sized"
    <2>1. r \notin Sized /\ Sized' = Sized \union {r}
      BY <1>3 DEF Sized
    <2>2. Cardinality(Sized \union {r}) = Cardinality(Sized) + 1
      BY <1>1, <2>1, FS_AddElement
    <2>3. Cardinality(Sized)' = Cardinality(Sized \union {r})
      BY <2>1, Zenon
    <2>4. QED
      BY <1>1, <1>3, <2>2, <2>3
  <1>4. CASE maker'[r] # "sized" /\ maker[r] = "sized"
    <2>1. r \in Sized /\ Sized' = Sized \ {r}
      BY <1>4 DEF Sized
    <2>2. Cardinality(Sized \ {r}) = Cardinality(Sized) - 1
      BY <1>1, <2>1, FS_RemoveElement
    <2>3. Cardinality(Sized)' = Cardinality(Sized \ {r})
      BY <2>1, Zenon
    <2>4. QED
      BY <1>1, <1>4, <2>2, <2>3
  <1>5. QED
    BY <1>2, <1>3, <1>4

\* Steps of create before the run is published: what they count or give back is a body.
LEMMA SizedCounted ==
    ASSUME CountInv, run \in [Runs -> Record], NEW r \in Runs, UNCHANGED <<run, at>>,
           \A s \in Runs \ {r} : maker'[s] = maker[s],
           held' = held + (IF maker'[r] = "sized" THEN 1 ELSE 0)
                        - (IF maker[r] = "sized" THEN 1 ELSE 0)
    PROVE  CountInv'
  <1>1. /\ HeldBy(Runs) \in Int /\ HeldBy(Runs)' = HeldBy(Runs)
    <2>1. /\ HeldBy(Runs) \in Int /\ Held(r) \in Int
          /\ HeldBy(Runs)' = HeldBy(Runs) - Held(r) + Held(r)'
      BY HeldByChanged
    <2>2. Held(r)' = Held(r)
      BY DEF Held
    <2>3. QED
      BY <2>1, <2>2
  <1>2. Cardinality(Writing) \in Nat /\ Cardinality(Sized) \in Nat
    BY CountTypes
  <1>3. Writing' = Writing
    BY DEF Writing
  <1>4. Cardinality(Writing)' = Cardinality(Writing)
    BY <1>3, Zenon
  <1>5. Cardinality(Sized)' = Cardinality(Sized) + (IF maker'[r] = "sized" THEN 1 ELSE 0)
                                                 - (IF maker[r] = "sized" THEN 1 ELSE 0)
    BY SizedChanged
  <1>6. held' = HeldBy(Runs)' + Cardinality(Writing)' + Cardinality(Sized)'
    BY <1>1, <1>2, <1>4, <1>5 DEF CountInv, Counted
  <1>7. QED
    BY <1>6 DEF CountInv, Counted, BodyGiven

\* create counts the body it has read.
LEMMA BeginCounted ==
    ASSUME TypeOK, CountInv, \A s \in Runs : RunInv(s), Begin
    PROVE  CountInv'
  <1>1. PICK r \in Runs : /\ r = begun + 1
                          /\ \/ maker' = [maker EXCEPT ![r] = "refused"] /\ held' = held
                             \/ maker' = [maker EXCEPT ![r] = "sized"] /\ held' = held + 1
    BY DEF Begin
  <1>2. maker[r] = "none" /\ held \in Int
    <2>1. r > begun
      BY <1>1, RunsAssumption DEF TypeOK
    <2>2. HeldBy(Runs) \in Int
      BY HeldByInt DEF TypeOK
    <2>3. QED
      BY <2>1, <2>2, CountTypes DEF RunInv, Unpublished, CountInv, Counted
  <1>3. UNCHANGED <<run, at>> /\ \A s \in Runs \ {r} : maker'[s] = maker[s]
    BY <1>1 DEF Begin, TypeOK
  <1>4. held' = held + (IF maker'[r] = "sized" THEN 1 ELSE 0)
                     - (IF maker[r] = "sized" THEN 1 ELSE 0)
    BY <1>1, <1>2 DEF TypeOK
  <1>5. QED
    BY <1>3, <1>4, SizedCounted DEF TypeOK

\* A publication counts the body of the run and gives back what the trimmed runs hold.
LEMMA PublishedHolds ==
    ASSUME run \in [Runs -> Record], NEW r \in Runs, run[r] = NewRun,
           NEW f \in [Runs -> Record], \A s \in Runs \ {r} : f[s] = run[s],
           runs \subseteq Runs, Published(r, f)
    PROVE  \E n \in Int :
              /\ HeldBy(Runs) \in Int /\ held' = held - n
              /\ HeldBy(Runs)' = HeldBy(Runs) - n + Held(r)'
  <1> DEFINE D == Trimmed(runs \union {r}, f)
  <1>1. /\ D \in SUBSET Runs /\ run' = Released(f, D) /\ held' = held - HeldBy(D)
    <2>1. D \subseteq runs \union {r}
      BY TrimmedFinished
    <2>2. QED
      BY <2>1 DEF Published
  <1> HIDE DEF D
  <1>2. /\ run' \in [Runs -> Record]
        /\ \A s \in Runs \ D : run'[s] = f[s]
        /\ \A s \in D : run'[s].held = 0 /\ run'[s].body = 0
    BY <1>1, ReleasedFields
  <1>3. PICK n \in [Runs -> Int] : n = Holds(run)
    BY HoldsFields
  <1>4. PICK m \in [Runs -> Int] : m = Holds(run')
    BY <1>2, HoldsFields
  <1>5. PICK k \in [Runs -> Int] : k = [s \in Runs |-> IF s \in D THEN 0 ELSE n[s]]
    <2>1. \A s \in Runs : (IF s \in D THEN 0 ELSE n[s]) \in Int
      OBVIOUS
    <2>2. [s \in Runs |-> IF s \in D THEN 0 ELSE n[s]] \in [Runs -> Int]
      BY <2>1
    <2>3. QED
      BY <2>2
  <1>6. n[r] = 0
    BY <1>3, HoldsFields, NewRunFields
  <1>7. /\ \A s \in D : k[s] = 0
        /\ \A s \in Runs \ D : k[s] = n[s]
        /\ k[r] = 0
    BY <1>1, <1>5, <1>6
  <1>8. \A s \in Runs \ {r} : m[s] = k[s]
    <2>1. ASSUME NEW s \in Runs \ {r}
          PROVE  m[s] = k[s]
      <3>1. m[s] = run'[s].held + run'[s].body /\ n[s] = run[s].held + run[s].body
        BY <1>2, <1>3, <1>4, HoldsFields
      <3>2. CASE s \in D
        BY <1>2, <1>7, <3>1, <3>2
      <3>3. CASE s \notin D
        BY <1>2, <1>7, <3>1, <3>3
      <3>4. QED
        BY <3>2, <3>3
    <2>2. QED
      BY <2>1
  <1>9. Total(n, Runs) \in Int /\ Total(n, D) \in Int /\ Total(k, Runs) = Total(n, Runs) - Total(n, D)
    BY <1>1, <1>7, TotalReleased
  <1>10. Total(k, Runs) \in Int /\ Total(m, Runs) = Total(k, Runs) - k[r] + m[r]
    BY <1>8, TotalChanged
  <1>11. m[r] = Held(r)' /\ m[r] \in Int
    BY <1>2, <1>4, HoldsFields DEF Held
  <1>12. HeldBy(D) = Total(n, D) /\ HeldBy(Runs) = Total(n, Runs) /\ HeldBy(Runs)' = Total(m, Runs)
    BY <1>3, <1>4 DEF HeldBy
  <1>13. HeldBy(Runs) \in Int /\ HeldBy(Runs)' = HeldBy(Runs) - Total(n, D) + Held(r)'
    BY <1>7, <1>9, <1>10, <1>11, <1>12
  <1>14. held' = held - Total(n, D)
    BY <1>1, <1>12
  <1>15. QED
    BY <1>9, <1>13, <1>14

\* The body is the run's once it is published, and is given back if it is refused.
LEMMA PublishCounted ==
    ASSUME TypeOK, CountInv, NEW r \in Runs, RunInv(r), Publish(r), held \in Int
    PROVE  CountInv'
  <1>1. /\ run[r] = NewRun /\ at[r] = "none" /\ maker[r] \in {"sized", "refused"}
        /\ run \in [Runs -> Record] /\ runs \subseteq Runs
    BY RunsAssumption DEF Publish, RunInv, Unpublished, TypeOK, Runs
  <1>2. CASE Refuse(r)
    <2>1. UNCHANGED <<run, at>> /\ \A s \in Runs \ {r} : maker'[s] = maker[s]
      BY <1>2 DEF Refuse, TypeOK
    <2>2. held' = held + (IF maker'[r] = "sized" THEN 1 ELSE 0)
                       - (IF maker[r] = "sized" THEN 1 ELSE 0)
      BY <1>2 DEF Refuse, TypeOK
    <2>3. QED
      BY <1>1, <2>1, <2>2, SizedCounted
  <1>3. ASSUME NEW f \in [Runs -> Record], \A s \in Runs \ {r} : f[s] = run[s], Published(r, f),
               at' \in {at, [at EXCEPT ![r] = "inner"]},
               \A s \in Runs \ {r} : maker'[s] = maker[s], maker'[r] # "sized",
               Held(r)' = IF maker[r] = "sized" THEN 1 ELSE 0
        PROVE  CountInv'
    <2>1. PICK n \in Int : /\ HeldBy(Runs) \in Int /\ held' = held - n
                           /\ HeldBy(Runs)' = HeldBy(Runs) - n + Held(r)'
      BY <1>1, <1>3, PublishedHolds
    <2>2. Cardinality(Writing) \in Nat /\ Cardinality(Sized) \in Nat
      BY CountTypes
    <2>3. Writing' = Writing
      BY <1>1, <1>3 DEF Writing, TypeOK
    <2>4. Cardinality(Writing)' = Cardinality(Writing)
      BY <2>3, Zenon
    <2>5. Cardinality(Sized)' = Cardinality(Sized) + (IF maker'[r] = "sized" THEN 1 ELSE 0)
                                                   - (IF maker[r] = "sized" THEN 1 ELSE 0)
      BY <1>3, SizedChanged
    <2>6. held' = HeldBy(Runs)' + Cardinality(Writing)' + Cardinality(Sized)'
      BY <1>3, <2>1, <2>2, <2>4, <2>5 DEF CountInv, Counted
    <2>7. ASSUME NEW s \in Runs
          PROVE  BodyGiven(s)'
      <3>1. at[s] = "finish" => run[s].body = 0
        BY DEF CountInv, BodyGiven
      <3>2. at'[s] = "finish" => at[s] = "finish" /\ s # r
        BY <1>1, <1>3 DEF TypeOK
      <3>3. run'[s].body = 0 \/ s = r \/ run'[s] = run[s]
        BY <1>3, ReleasedFields DEF Published
      <3>4. QED
        BY <3>1, <3>2, <3>3 DEF BodyGiven
    <2>8. QED
      BY <2>6, <2>7 DEF CountInv, Counted
  <1>4. CASE maker[r] = "refused" /\ PublishFull(r)
    <2>1. [run EXCEPT ![r].status = "failed"] \in [Runs -> Record]
      BY <1>1 DEF Record, Ended
    <2>2. PICK f \in [Runs -> Record] : f = [run EXCEPT ![r].status = "failed"]
      BY <2>1
    <2>3. /\ \A s \in Runs \ {r} : f[s] = run[s]
          /\ f[r].held = 0 /\ f[r].body = 0
      BY <1>1, <2>2 DEF NewRun
    <2>4. Published(r, f)
      BY <1>4, <2>2 DEF PublishFull
    <2>5. Held(r)' = 0
      <3>1. run'[r].held = 0 /\ run'[r].body = 0
        BY <2>3, <2>4, ReleasedFields DEF Published
      <3>2. QED
        BY <3>1 DEF Held
    <2>6. /\ at' = at /\ maker'[r] # "sized" /\ \A s \in Runs \ {r} : maker'[s] = maker[s]
      BY <1>4 DEF PublishFull, TypeOK
    <2>7. QED
      BY <1>3, <1>4, <2>3, <2>4, <2>5, <2>6
  <1>5. CASE maker[r] = "sized" /\ PublishRun(r)
    <2>1. [run EXCEPT ![r].body = 1] \in [Runs -> Record]
      BY <1>1 DEF Record
    <2>2. PICK f \in [Runs -> Record] : f = [run EXCEPT ![r].body = 1]
      BY <2>1
    <2>3. /\ \A s \in Runs \ {r} : f[s] = run[s]
          /\ f[r].held = 0 /\ f[r].body = 1 /\ f[r].status = "queued"
      BY <1>1, <2>2 DEF NewRun
    <2>4. Published(r, f)
      BY <1>5, <2>2 DEF PublishRun
    <2>5. Held(r)' = 1
      <3>1. r \notin Trimmed(runs \union {r}, f)
        BY <2>3, TrimmedFinished DEF Ended
      <3>2. run'[r] = f[r]
        BY <2>4, <3>1, ReleasedFields DEF Published
      <3>3. QED
        BY <2>3, <3>2 DEF Held
    <2>6. /\ at' = [at EXCEPT ![r] = "inner"] /\ maker'[r] # "sized"
          /\ \A s \in Runs \ {r} : maker'[s] = maker[s]
      BY <1>5 DEF PublishRun, TypeOK
    <2>7. QED
      BY <1>3, <1>5, <2>3, <2>4, <2>5, <2>6
  <1>6. QED
    BY <1>2, <1>4, <1>5 DEF Publish

\* The next gateway counts one unit for each run it restores.
LEMMA RestartCounted ==
    ASSUME TypeOK, Restart, run' \in [Runs -> Record]
    PROVE  CountInv'
  <1>1. PICK back \in SUBSET Runs :
           /\ run' = [r \in Runs |->
                        IF r \in back THEN [NewRun EXCEPT !.status = Restored(r), !.held = 1]
                                      ELSE NewRun]
           /\ held' = Cardinality(back)
    <2>1. PICK expired \in SUBSET {r \in Runs : file[r] \in Ended} :
             LET back == {r \in Runs : file[r] # "none"} \ expired IN
             /\ run' = [r \in Runs |->
                          IF r \in back THEN [NewRun EXCEPT !.status = Restored(r), !.held = 1]
                                        ELSE NewRun]
             /\ held' = Cardinality(back)
      BY Zenon DEF Restart
    <2>2. {r \in Runs : file[r] # "none"} \ expired \in SUBSET Runs
      OBVIOUS
    <2>3. QED
      BY <2>1, <2>2, Zenon
  <1>2. PICK m \in [Runs -> Int] : m = Holds(run')
    BY HoldsFields
  <1>3. /\ \A r \in back : m[r] = 1
        /\ \A r \in Runs \ back : m[r] = 0
    <2>1. ASSUME NEW r \in back
          PROVE  m[r] = 1
      <3>1. run'[r] = [NewRun EXCEPT !.status = Restored(r), !.held = 1]
        BY <1>1
      <3>2. run'[r].held = 1 /\ run'[r].body = 0
        BY <3>1 DEF NewRun
      <3>3. QED
        BY <1>2, <3>2, HoldsFields
    <2>2. ASSUME NEW r \in Runs \ back
          PROVE  m[r] = 0
      <3>1. run'[r] = NewRun
        BY <1>1
      <3>2. QED
        BY <1>2, <3>1, HoldsFields, NewRunFields
    <2>3. QED
      BY <2>1, <2>2
  <1>4. Total(m, Runs) = Cardinality(back)
    <2>1. Runs = back \union (Runs \ back) /\ back \intersect (Runs \ back) = {}
          /\ Runs \ back \in SUBSET Runs
      OBVIOUS
    <2>2. /\ Total(m, back) \in Int /\ Total(m, Runs \ back) \in Int
          /\ Total(m, back \union (Runs \ back)) = Total(m, back) + Total(m, Runs \ back)
      BY <2>1, TotalUnion
    <2>3. Total(m, Runs) = Total(m, back \union (Runs \ back))
      BY <2>1, Zenon
    <2>4. Total(m, back) = Cardinality(back) /\ Total(m, Runs \ back) = 0
      BY <1>3, <2>1, TotalOfOnes, TotalOfNone
    <2>5. QED
      BY <2>2, <2>3, <2>4
  <1>5. \A r \in Runs : maker'[r] \in {"none", "over"} /\ at'[r] \in {"none", "over"}
    BY DEF Restart
  <1>6. Writing' = {} /\ Sized' = {}
    BY <1>5 DEF Writing, Sized
  <1>7. Cardinality(Writing)' = 0 /\ Cardinality(Sized)' = 0
    BY <1>6, FS_EmptySet, Zenon
  <1>8. HeldBy(Runs)' \in Int /\ held' = HeldBy(Runs)'
    <2>1. HeldBy(Runs)' = Total(m, Runs)
      BY <1>2 DEF HeldBy
    <2>2. Total(m, Runs) \in Int
      BY TotalInt
    <2>3. QED
      BY <1>1, <1>4, <2>1, <2>2
  <1>9. held' = HeldBy(Runs)' + Cardinality(Writing)' + Cardinality(Sized)'
    BY <1>7, <1>8
  <1>10. \A r \in Runs : BodyGiven(r)'
    BY <1>5 DEF BodyGiven
  <1>11. QED
    BY <1>9, <1>10 DEF CountInv, Counted

\* Every step keeps the count.
LEMMA NextCounted ==
    ASSUME IInv, CountInv, IInv', [Next]_vars
    PROVE  CountInv'
  <1>1. /\ TypeOK /\ \A r \in Runs : RunInv(r) /\ BodyGiven(r)
        /\ run \in [Runs -> Record] /\ run' \in [Runs -> Record]
    BY DEF IInv, TypeOK, CountInv
  <1>2. held \in Int
    <2>1. HeldBy(Runs) \in Int
      BY <1>1, HeldByInt
    <2>2. QED
      BY <2>1, CountTypes DEF CountInv, Counted
  <1>3. ASSUME UNCHANGED <<run, held, maker, at>>
        PROVE  CountInv'
    BY <1>3 DEF CountInv, Counted, HeldBy, Writing, Sized, BodyGiven
  <1>4. CASE UNCHANGED vars \/ ShutdownBegin \/ ShutdownReturns
    BY <1>3, <1>4 DEF vars, memory, actors, ghosts, ShutdownBegin, ShutdownReturns
  <1>5. CASE Begin
    BY <1>1, <1>5, BeginCounted
  <1>6. CASE Restart
    BY <1>1, <1>6, RestartCounted
  <1>7. ASSUME NEW r \in Runs, Publish(r)
        PROVE  CountInv'
    BY <1>1, <1>2, <1>7, PublishCounted
  <1>8. ASSUME NEW r \in Runs, StepOf(r)
        PROVE  CountInv'
    <2>1. Charges(r)
      BY <1>1, <1>2, <1>8, StepOfCharges
    <2>2. \A s \in Runs \ {r} : run'[s] = run[s] /\ maker'[s] = maker[s] /\ at'[s] = at[s]
      BY <1>1, <1>8, OthersUntouched DEF Untouched
    <2>3. QED
      BY <1>1, <2>1, <2>2, ChargesCounted
  <1>9. QED
    BY <1>4, <1>5, <1>6, <1>7, <1>8 DEF Next, Create, StepOf

\* m.held is what the runs hold, with the body create has counted and the write that is
\* counted before it is taken, through every order of writes, ends, dismissals, trims and
\* expiries, and over a restart (charge, release, dismiss, finish, sweepStart).
THEOREM MemoryIsCounted == Spec => []HeldIsCounted
  <1>1. Init => CountInv
    <2> SUFFICES ASSUME Init
                 PROVE  CountInv
      OBVIOUS
    <2>1. PICK n \in [Runs -> Int] : n = Holds(run)
      BY HoldsFields, NewRunFields DEF Init
    <2>2. \A r \in Runs : n[r] = 0
      BY <2>1, NewRunFields DEF Init, Holds
    <2>3. HeldBy(Runs) = 0
      BY <2>1, <2>2, TotalOfNone DEF HeldBy
    <2>4. Writing = {} /\ Sized = {}
      BY DEF Init, Writing, Sized
    <2>5. Cardinality(Writing) = 0 /\ Cardinality(Sized) = 0
      BY <2>4, FS_EmptySet, Zenon
    <2>6. QED
      BY <2>3, <2>5 DEF Init, CountInv, Counted, BodyGiven
  <1>2. IInv /\ CountInv /\ IInv' /\ [Next]_vars => CountInv'
    BY NextCounted
  <1>3. CountInv /\ DroppedHoldsNothing => HeldIsCounted
    BY DEF CountInv, Counted, Writing, Sized, HeldIsCounted
  <1>4. QED
    BY <1>1, <1>2, <1>3, Invariance, DroppedRunsHoldNothing, PTL DEF Spec

=============================================================================
