--------------------------- MODULE InferenceQueue ---------------------------
(***************************************************************************)
(* InferenceQueue (src/src/domains/runtime/inference-queue.ts): bounded    *)
(* FIFO permits for one modality, as operators on the queue's record. The  *)
(* pump hands one waiting request at a time to dispatch; every operator    *)
(* below is one synchronous run of the code.                               *)
(***************************************************************************)
EXTENDS Naturals, FiniteSets, Sequences, SequencesExt

CONSTANTS Requests,    \* the requests, numbered
          Models,      \* the models they may ask for
          MaxWaiting,  \* maxWaiting
          Slots        \* resolvedSlots() of a running chat backend

ASSUME QueueAssumption ==
    /\ Requests \subseteq Nat \ {0}
    /\ {MaxWaiting, Slots} \subseteq Nat \ {0}

NoRequest == 0
NoModel == "none"

ASSUME NoModelAssumption == NoModel \notin Models

\* pending, the request a pump is dispatching (item), whether that request is
\* in inFlight, the value its dispatch returned, the permits out, activeModel,
\* slots and closedError.
Queues ==
    [pending : Seq(Requests), item : Requests \union {NoRequest}, inFlight : BOOLEAN,
     value : {"none", "admitted", "answered", "error"}, active : SUBSET Requests,
     activeModel : Models \union {NoModel}, slots : 1..Slots, closed : BOOLEAN]

EmptyQueue ==
    [pending |-> <<>>, item |-> NoRequest, inFlight |-> FALSE, value |-> "none",
     active |-> {}, activeModel |-> NoModel, slots |-> 1, closed |-> FALSE]

Dispatching(q) == q.item # NoRequest

\* canDispatchHead, for requests that ask for the models m.
CanDispatchHead(q, m) ==
    /\ ~q.closed /\ q.pending # <<>>
    /\ Cardinality(q.active) < q.slots
    /\ q.activeModel \in {NoModel, m[Head(q.pending)]}

\* pump: whether it calls dispatch, and the queue once it has.
Pumps(q, m) == ~Dispatching(q) /\ CanDispatchHead(q, m)

Pump(q, m) == IF Pumps(q, m) THEN [q EXCEPT !.item = Head(q.pending)] ELSE q

\* acquire: a full or a closed queue refuses.
Accepts(q) == ~q.closed /\ Len(q.pending) < MaxWaiting

Enqueue(q, r) == [q EXCEPT !.pending = Append(@, r)]

\* The requests rejectPending and close reject.
Rejectable(q) == ToSet(q.pending) \union (IF q.inFlight THEN {q.item} ELSE {})

RejectPending(q) == [q EXCEPT !.pending = <<>>, !.inFlight = FALSE]

Close(q) == [RejectPending(q) EXCEPT !.closed = TRUE]

\* remove: by the wait timer, which start() clears, or by the request's signal.
Withdraw(q, r) ==
    IF Contains(q.pending, r) THEN [q EXCEPT !.pending = RemoveFirst(@, r)]
    ELSE [q EXCEPT !.inFlight = FALSE]

\* start(): the dispatched request leaves pending.
Start(q) == [q EXCEPT !.pending = Tail(@), !.inFlight = TRUE]

\* The dispatch of q.item has returned v.
Returned(q, v) == [q EXCEPT !.value = v]

\* pump after an admission: the permit is counted, and slots resolved to s.
Permit(q, m, s) ==
    [q EXCEPT !.item = NoRequest, !.inFlight = FALSE, !.value = "none",
              !.active = @ \union {q.item}, !.activeModel = m[q.item], !.slots = s]

\* pump after any other value, an error or a request rejected meanwhile.
Drop(q) ==
    [q EXCEPT !.item = NoRequest, !.inFlight = FALSE, !.value = "none",
              !.pending = RemoveFirst(@, q.item),
              !.activeModel = IF q.value = "error" /\ q.item \in Rejectable(q) /\ q.active = {}
                              THEN NoModel ELSE @]

\* release of r's permit.
ReleasePermit(q, r) ==
    LET left == q.active \ {r}
    IN  [q EXCEPT !.active = left,
                  !.activeModel = IF left = {} THEN NoModel ELSE @,
                  !.slots = IF left = {} THEN 1 ELSE @]

\* whenSlotsResolved of a request for model a: the backend became ready.
ResolveSlots(q, a, s) == IF q.activeModel = a THEN [q EXCEPT !.slots = s] ELSE q
=============================================================================
