-------------------------- MODULE AdmissionBarrier --------------------------
(***************************************************************************)
(* ModalityAdmissionBarrier (src/src/domains/runtime/modality-admission.ts)*)
(* as operators on the barrier's record: the leases admitted to one        *)
(* replaceable backend, in the order they were acquired, and whether       *)
(* another may be.                                                         *)
(***************************************************************************)
EXTENDS Naturals, Sequences, SequencesExt

\* first: the oldest lease since the barrier was last idle, whose callback
\* runs on an idle cancellation. stopped: the lease whose pending-detach
\* callback has stopped the backend, which makes its other callback a no-op.
\* passedOver, kept for the properties: attachBarrier found the modality off
\* and left the barrier closed. A lease is the request, its supervisor and the state of
\* its ready promise.
Barriers(Requests, Ids) ==
    [accepting : BOOLEAN, cancellation : BOOLEAN, detachInvoked : BOOLEAN, passedOver : BOOLEAN,
     first : Requests \union {0}, stopped : Requests \union {0},
     leases : Seq([r : Requests, sup : Ids, ready : {"pending", "ok", "failed"}])]

NewBarrier(configured) ==
    [accepting |-> configured, cancellation |-> FALSE, detachInvoked |-> FALSE, passedOver |-> FALSE,
     first |-> 0, stopped |-> 0, leases |-> <<>>]

Idle(b) == b.leases = <<>>

Attach(b) == [b EXCEPT !.accepting = TRUE, !.passedOver = FALSE]

PassOver(b) == [b EXCEPT !.passedOver = TRUE]

Detach(b) == [b EXCEPT !.accepting = FALSE]

\* detachIfIdle would close the barrier.
MayDetach(b) == b.accepting /\ Idle(b)

\* acquire and prepare's callbacks.
Acquire(b, r, s, ready) ==
    [b EXCEPT !.leases = Append(@, [r |-> r, sup |-> s, ready |-> ready]),
              !.first = IF Idle(b) THEN r ELSE @]

LeaseAt(b, r) == CHOOSE i \in DOMAIN b.leases : b.leases[i].r = r

Lease(b, r) == b.leases[LeaseAt(b, r)]

\* The last lease ends, after a cancellation of it or of an earlier one.
IdleCancelled(b, r, cancel) == (cancel \/ b.cancellation) /\ Len(b.leases) = 1

\* release and cancel of r's lease.
EndLease(b, r, cancel) ==
    IF Len(b.leases) = 1
    THEN [NewBarrier(b.accepting /\ ~IdleCancelled(b, r, cancel))
            EXCEPT !.passedOver = b.passedOver]
    ELSE [b EXCEPT !.leases = RemoveAt(@, LeaseAt(b, r)),
                   !.cancellation = @ \/ cancel]

\* The idle-cancellation callback queues a stop of the backend.
QueuesStop(b, r, cancel) == IdleCancelled(b, r, cancel) /\ b.first # b.stopped

\* detachPending calls the first callback left: leases whose response has
\* started have none, and only a ready lease's can have.
DetachTargets(b) ==
    IF b.detachInvoked THEN {}
    ELSE {i \in DOMAIN b.leases : \A j \in 1..(i - 1) : b.leases[j].ready = "ok"}

\* The ready promises that wait on the backend's start become v.
ReadySettles(b, v) ==
    [b EXCEPT !.leases = [i \in DOMAIN @ |->
        IF @[i].ready = "pending" THEN [@[i] EXCEPT !.ready = v] ELSE @[i]]]
=============================================================================
