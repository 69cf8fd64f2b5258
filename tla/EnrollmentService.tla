-------------------------- MODULE EnrollmentService --------------------------
(***************************************************************************)
(* The write path of the booking API: enroll and cancel                     *)
(* (apps/enrollments/services.py) against the event CRUD endpoints          *)
(* (apps/events/views.py), statement by statement, on a READ COMMITTED      *)
(* database.  Each gunicorn worker serves one request at a time; a request  *)
(* is a sequence of SQL statements with Python in between, and other        *)
(* workers run between any two of them.                                     *)
(*                                                                         *)
(* `event` and `enrollments` hold committed rows only.  What a transaction  *)
(* has written so far is in tx[w] and is published by Commit or dropped     *)
(* when an exception or a crash rolls back.  The answer goes out in a step  *)
(* of its own, after the transaction is over.  `lock` is the row lock on an *)
(* event: taken by SELECT ... FOR UPDATE, by UPDATE and by DELETE, held to  *)
(* the end of the transaction.  The row lock on an enrollment is its        *)
(* membership in some tx[w].old.                                            *)
(***************************************************************************)
EXTENDS Integers, FiniteSets

CONSTANTS
    Events,      \* primary keys the events table may hand out
    Seekers,     \* users whose profile role is "seeker"
    Workers,     \* gunicorn workers
    Capacities,  \* validated capacities a request may carry
    Unlimited,   \* capacity null
    Ops,         \* the kinds of request that arrive besides event creation
    MaxRows,     \* bound: how many enrollment ids are handed out
    NoRow,       \* no such row in the events table
    Clean,       \* a transaction that has not written its event row
    NoReq,       \* an idle worker's request
    NoWorker     \* an event row nobody has locked

ASSUME CapacitiesAssumption ==
    Unlimited \notin Nat /\ Capacities \subseteq Nat \cup {Unlimited}
ASSUME OpsAssumption == Ops \subseteq {"enroll", "cancel", "patch", "destroy"}
ASSUME MaxRowsAssumption == MaxRows \in Nat

VARIABLES
    event,       \* committed events table: a row or NoRow
    allocated,   \* event ids the sequence has handed out; never reused
    enrollments, \* committed enrollments table
    nextId,      \* next value of the enrollment id sequence
    lock,        \* holder of the row lock on each event
    pc,          \* the statement each worker executes next
    req,         \* the request each worker serves
    seen,        \* the Event instance the request holds, as it was read
    found,       \* id of the Enrollment instance cancel holds
    tx,          \* what the open transaction has written
    reply        \* the answer a worker prepares, then the last it gave

vars == <<event, allocated, enrollments, nextId,
          lock, pc, req, seen, found, tx, reply>>

dbVars == <<event, allocated, enrollments, nextId>>

Capacity == Nat \cup {Unlimited}
Row == [capacity : Capacity, seats_taken : Int]
Enrollment == [id : Nat, event : Events, seeker : Seekers,
               status : {"enrolled", "canceled"}]
Request ==
    [op : {"create"}, event : Events, capacity : Capacities]
    \cup [op : Ops \cap {"enroll", "cancel"}, event : Events, seeker : Seekers]
    \cup [op : Ops \cap {"patch"}, event : Events, capacity : Capacities]
    \cup [op : Ops \cap {"destroy"}, event : Events]

ASSUME NullsAssumption ==
    /\ NoRow \notin Row /\ Clean \notin Row /\ Clean # NoRow
    /\ NoRow \notin Capacity
    /\ NoReq \notin Request
    /\ NoWorker \notin Workers

EmptyTx == [row |-> Clean, new |-> {}, old |-> {}]

-----------------------------------------------------------------------------
(* Faulty variants of definitions below, one plausible bug each.  Nothing   *)
(* here is part of the specification: each shows that some property would   *)
(* notice the bug if the definition it stands for were written this way.    *)

(* The filter forgets the seeker.                                          *)
ActiveOf_AnySeeker(e, s) ==
    {r \in enrollments : r.event = e /\ r.status = "enrolled"}

(* Off by one: one more than the capacity gets past the test.              *)
IsFull_Above(row) == row.capacity # Unlimited /\ row.seats_taken > row.capacity

(* Cancel gives no seat back; the naive first version never counted.       *)
SeatDelta_KeepsSeat(op) == IF op = "enroll" THEN 1 ELSE 0
SeatDelta_Never(op) == 0

(* A status outside the model's choices, which no constraint refuses.      *)
Canceled_Misspelt(r) == [r EXCEPT !.status = "cancelled"]

(* The foreign key carries no database constraint.                         *)
LeavesOrphans_Never(w, after) == FALSE

(* A patch resets the columns it does not carry.                           *)
Patched_Reset(w) == [capacity |-> req[w].capacity, seats_taken |-> 0]

(* Rows are read without FOR UPDATE and written without a lock.            *)
TakeLock_Dropped(w) == UNCHANGED lock

(* An error makes enroll start again instead of answering.                 *)
Return_Retries(w, code) ==
    /\ lock' = [e \in Events |-> IF lock[e] = w THEN NoWorker ELSE lock[e]]
    /\ tx' = [tx EXCEPT ![w] = EmptyTx]
    /\ pc' = [pc EXCEPT ![w] = IF code = "server_error" /\ req[w].op = "enroll"
                              THEN "lock" ELSE "respond"]
    /\ reply' = [reply EXCEPT ![w] = code]
    /\ UNCHANGED <<req, seen, found>>

-----------------------------------------------------------------------------
(* The services' filter on event, seeker and status.                       *)
ActiveOf(e, s) ==
    {r \in enrollments : r.event = e /\ r.seeker = s /\ r.status = "enrolled"}

(* uniq_active_enrollment: the committed rows a new active one would clash *)
(* with.  The database evaluates it on its own, whatever the services ask. *)
Conflicting(e, s) ==
    {r \in enrollments : r.event = e /\ r.seeker = s /\ r.status = "enrolled"}

(* services.enroll_seeker's capacity test, on the instance it has read.    *)
IsFull(row) == row.capacity # Unlimited /\ row.seats_taken >= row.capacity

(* The CHECK constraints on Event that seats and capacity can break.       *)
ChecksHold(row) ==
    /\ row.seats_taken >= 0
    /\ row.capacity = Unlimited \/ row.seats_taken <= row.capacity

Init ==
    /\ event = [e \in Events |-> NoRow]
    /\ allocated = {}
    /\ enrollments = {}
    /\ nextId = 1
    /\ lock = [e \in Events |-> NoWorker]
    /\ pc = [w \in Workers |-> "idle"]
    /\ req = [w \in Workers |-> NoReq]
    /\ seen = [w \in Workers |-> NoRow]
    /\ found = [w \in Workers |-> 0]
    /\ tx = [w \in Workers |-> EmptyTx]
    /\ reply = [w \in Workers |-> ""]

-----------------------------------------------------------------------------
(* How a request ends, and how it goes on.                                 *)

(* The transaction is over, committed or rolled back: its locks go.        *)
Release(w) ==
    /\ lock' = [e \in Events |-> IF lock[e] = w THEN NoWorker ELSE lock[e]]
    /\ tx' = [tx EXCEPT ![w] = EmptyTx]

(* The transaction is over and the view has its answer, a result or the    *)
(* exception that left the atomic block; the client has not got it yet.    *)
Return(w, code) ==
    /\ Release(w)
    /\ pc' = [pc EXCEPT ![w] = "respond"]
    /\ reply' = [reply EXCEPT ![w] = code]
    /\ UNCHANGED <<req, seen, found>>

(* The request is over, the worker can take the next.                      *)
Finish(w) ==
    /\ Release(w)
    /\ pc' = [pc EXCEPT ![w] = "idle"]
    /\ req' = [req EXCEPT ![w] = NoReq]
    /\ seen' = [seen EXCEPT ![w] = NoRow]
    /\ found' = [found EXCEPT ![w] = 0]

GoTo(w, label) ==
    /\ pc' = [pc EXCEPT ![w] = label]
    /\ UNCHANGED reply

EventFree(w) == lock[req[w].event] \in {w, NoWorker}

TakeLock(w) == lock' = [lock EXCEPT ![req[w].event] = w]

(* The answer goes out.                                                    *)
Respond(w) ==
    /\ pc[w] = "respond"
    /\ Finish(w)
    /\ UNCHANGED <<dbVars, reply>>

(* gunicorn kills a worker that is stuck or told to stop, at any point.    *)
(* The client gets no answer; a transaction still open is rolled back, one *)
(* that has committed stays committed.                                     *)
Crash(w) ==
    /\ pc[w] # "idle"
    /\ Finish(w)
    /\ reply' = [reply EXCEPT ![w] = ""]
    /\ UNCHANGED dbVars

-----------------------------------------------------------------------------
(* Requests arrive.                                                        *)

(* The events sequence never hands out an id twice.                        *)
FreshId(e) == e \notin allocated

(* POST /api/events/: one autocommitted INSERT with the default            *)
(* seats_taken, since the serializer's field is read-only.                 *)
Create(w, r) ==
    LET row == [capacity |-> r.capacity, seats_taken |-> 0]
    IN  /\ pc[w] = "idle"
        /\ r.op = "create"
        /\ FreshId(r.event)
        /\ allocated' = allocated \cup {r.event}
        /\ event' = [event EXCEPT ![r.event] = row]
        /\ pc' = [pc EXCEPT ![w] = "respond"]
        /\ req' = [req EXCEPT ![w] = r]
        /\ seen' = [seen EXCEPT ![w] = row]
        /\ reply' = [reply EXCEPT ![w] = "created"]
        /\ UNCHANGED <<enrollments, nextId, lock, found, tx>>

(* Bound: the enrollments under way still fit in MaxRows ids.              *)
RoomForRows ==
    nextId + Cardinality({w \in Workers : pc[w] # "idle" /\ req[w].op = "enroll"})
        <= MaxRows

FirstStatement(op) ==
    CASE op \in {"enroll", "cancel"} -> "lock"
      [] op = "patch" -> "save"
      [] op = "destroy" -> "purge"

(* The view's get_object_or_404 / get_object: an unlocked read of the row. *)
Receive(w, r) ==
    /\ pc[w] = "idle"
    /\ r.op \in Ops
    /\ r.op = "enroll" => RoomForRows
    /\ IF event[r.event] = NoRow
       THEN /\ reply' = [reply EXCEPT ![w] = "not_found"]
            /\ UNCHANGED <<pc, req, seen>>
       ELSE /\ pc' = [pc EXCEPT ![w] = FirstStatement(r.op)]
            /\ req' = [req EXCEPT ![w] = r]
            /\ seen' = [seen EXCEPT ![w] = event[r.event]]
            /\ reply' = [reply EXCEPT ![w] = ""]
    /\ UNCHANGED <<dbVars, lock, found, tx>>

-----------------------------------------------------------------------------
(* enroll_seeker and cancel_enrollment                                     *)

(* SELECT ... FOR UPDATE: waits for the holder, then reads the row as it   *)
(* is; .get() on a row deleted meanwhile raises an unmapped DoesNotExist.  *)
SelectForUpdate(w) ==
    /\ pc[w] = "lock"
    /\ EventFree(w)
    /\ IF event[req[w].event] = NoRow
       THEN Return(w, "server_error")
       ELSE /\ TakeLock(w)
            /\ seen' = [seen EXCEPT ![w] = event[req[w].event]]
            /\ GoTo(w, IF req[w].op = "enroll" THEN "check" ELSE "find")
            /\ UNCHANGED <<req, found, tx>>
    /\ UNCHANGED dbVars

(* The two refusals of enroll_seeker, in the code's order.                 *)
CheckEnroll(w) ==
    /\ pc[w] = "check"
    /\ IF ActiveOf(req[w].event, req[w].seeker) # {}
       THEN Return(w, "already_enrolled")
       ELSE IF IsFull(seen[w])
            THEN Return(w, "event_full")
            ELSE GoTo(w, "insert") /\ UNCHANGED <<lock, req, seen, found, tx>>
    /\ UNCHANGED dbVars

(* INSERT of the enrollment; uniq_active_enrollment stands behind it.  The *)
(* sequence value is spent even when the transaction rolls back, and an    *)
(* uncommitted duplicate makes the unique index wait for its outcome.      *)
InsertEnrollment(w) ==
    LET e == req[w].event
        s == req[w].seeker
    IN  /\ pc[w] = "insert"
        /\ \A v \in Workers \ {w} : \A r \in tx[v].new :
               ~(r.event = e /\ r.seeker = s /\ r.status = "enrolled")
        /\ nextId' = nextId + 1
        /\ IF Conflicting(e, s) # {}
           THEN Return(w, "server_error")
           ELSE /\ tx' = [tx EXCEPT ![w] = [row |-> Clean, old |-> {},
                       new |-> {[id |-> nextId, event |-> e, seeker |-> s,
                                 status |-> "enrolled"]}]]
                /\ GoTo(w, "count")
                /\ UNCHANGED <<lock, req, seen, found>>
        /\ UNCHANGED <<event, allocated, enrollments>>

(* .filter(...).first() on the seeker's active rows.                       *)
FindActive(w) ==
    LET mine == ActiveOf(req[w].event, req[w].seeker)
    IN  /\ pc[w] = "find"
        /\ IF mine = {}
           THEN Return(w, "no_active_enrollment")
           ELSE /\ \E r \in mine : found' = [found EXCEPT ![w] = r.id]
                /\ GoTo(w, "mark")
                /\ UNCHANGED <<lock, req, seen, tx>>
        /\ UNCHANGED dbVars

(* Another transaction has updated or deleted one of these rows.           *)
RowLocked(w, rows) == \E v \in Workers \ {w} : rows \cap tx[v].old # {}

Canceled(r) == [r EXCEPT !.status = "canceled"]

(* save(update_fields=["status", "canceled_at"]): an UPDATE by primary key *)
(* that waits for the row lock and raises when it matches nothing.         *)
MarkCanceled(w) ==
    LET rows == {r \in enrollments : r.id = found[w]}
    IN  /\ pc[w] = "mark"
        /\ ~RowLocked(w, rows)
        /\ IF rows = {}
           THEN Return(w, "server_error")
           ELSE /\ tx' = [tx EXCEPT ![w] = [row |-> Clean, old |-> rows, new |->
                       {Canceled(r) : r \in rows}]]
                /\ GoTo(w, "count")
                /\ UNCHANGED <<lock, req, seen, found>>
        /\ UNCHANGED dbVars

SeatDelta(op) == IF op = "enroll" THEN 1 ELSE -1

(* UPDATE ... SET seats_taken = seats_taken +/- 1 on the row as it is now, *)
(* under the CHECK constraints; a row that is gone is silently skipped.    *)
CountSeat(w) ==
    LET e == req[w].event
        row == [event[e] EXCEPT !.seats_taken = @ + SeatDelta(req[w].op)]
    IN  /\ pc[w] = "count"
        /\ EventFree(w)
        /\ CASE event[e] = NoRow ->
                  GoTo(w, "commit") /\ UNCHANGED <<lock, req, seen, found, tx>>
             [] event[e] # NoRow /\ ChecksHold(row) ->
                  /\ TakeLock(w)
                  /\ tx' = [tx EXCEPT ![w].row = row]
                  /\ GoTo(w, "commit")
                  /\ UNCHANGED <<req, seen, found>>
             [] OTHER ->
                  Return(w, "server_error")
        /\ UNCHANGED dbVars

-----------------------------------------------------------------------------
(* DELETE /api/events/{id}/: one transaction, enrollments before the event *)

(* The collector's fast delete of the event's enrollments.  It sees        *)
(* committed rows only and takes no lock on the event.                     *)
DeleteEnrollments(w) ==
    LET rows == {r \in enrollments : r.event = req[w].event}
    IN  /\ pc[w] = "purge"
        /\ ~RowLocked(w, rows)
        /\ tx' = [tx EXCEPT ![w] = [row |-> Clean, new |-> {}, old |-> rows]]
        /\ GoTo(w, "erase")
        /\ UNCHANGED <<dbVars, lock, req, seen, found>>

(* DELETE of the event row itself; no row matching is no error.            *)
DeleteEvent(w) ==
    /\ pc[w] = "erase"
    /\ EventFree(w)
    /\ IF event[req[w].event] = NoRow
       THEN UNCHANGED <<lock, tx>>
       ELSE TakeLock(w) /\ tx' = [tx EXCEPT ![w].row = NoRow]
    /\ GoTo(w, "commit")
    /\ UNCHANGED <<dbVars, req, seen, found>>

OkReply(op) ==
    CASE op = "enroll" -> "enrolled"
      [] op = "cancel" -> "canceled"
      [] op = "destroy" -> "destroyed"

(* The deferred foreign key, looked at from both ends when w commits.      *)
LeavesOrphans(w, after) ==
    LET e == req[w].event
        row == IF tx[w].row = Clean THEN event[e] ELSE tx[w].row
    IN  row = NoRow /\ \E r \in after : r.event = e

(* COMMIT publishes the writes, unless the foreign key refuses: a destroy  *)
(* meets an enrollment committed after its DeleteEnrollments ran.          *)
Commit(w) ==
    LET after == (enrollments \ tx[w].old) \cup tx[w].new
    IN  /\ pc[w] = "commit"
        /\ IF LeavesOrphans(w, after)
           THEN /\ Return(w, "server_error")
                /\ UNCHANGED <<event, enrollments>>
           ELSE /\ Return(w, OkReply(req[w].op))
                /\ event' = IF tx[w].row = Clean THEN event
                            ELSE [event EXCEPT ![req[w].event] = tx[w].row]
                /\ enrollments' = after
        /\ UNCHANGED <<allocated, nextId>>

-----------------------------------------------------------------------------
(* PATCH /api/events/{id}/: no transaction and no lock around read and save *)

(* The row a patch writes back: its own capacity and every other column,   *)
(* seats_taken included, as it was when the view read it.                  *)
Patched(w) == [seen[w] EXCEPT !.capacity = req[w].capacity]

SaveRow(w) ==
    IF ChecksHold(Patched(w))
    THEN /\ Return(w, "patched")
         /\ event' = [event EXCEPT ![req[w].event] = Patched(w)]
    ELSE /\ Return(w, "server_error")
         /\ UNCHANGED event

(* Model.save: an autocommitted UPDATE of all columns by primary key.      *)
SaveUpdate(w) ==
    /\ pc[w] = "save"
    /\ EventFree(w)
    /\ IF event[req[w].event] = NoRow
       THEN /\ GoTo(w, "reinsert")
            /\ UNCHANGED <<event, lock, req, seen, found, tx>>
       ELSE SaveRow(w)
    /\ UNCHANGED <<allocated, enrollments, nextId>>

(* Model.save again: when the UPDATE matched nothing, INSERT under the     *)
(* same primary key.                                                       *)
SaveInsert(w) ==
    /\ pc[w] = "reinsert"
    /\ EventFree(w)
    /\ IF event[req[w].event] # NoRow
       THEN Return(w, "server_error") /\ UNCHANGED event
       ELSE SaveRow(w)
    /\ UNCHANGED <<allocated, enrollments, nextId>>

-----------------------------------------------------------------------------
(* Deadlock: cancel holds the event and wants an enrollment, destroy holds *)
(* the enrollments and wants the event.                                    *)
WaitsFor(w, v) ==
    \/ /\ pc[w] \in {"lock", "count", "erase", "save", "reinsert"}
       /\ lock[req[w].event] = v
    \/ /\ pc[w] = "mark"
       /\ \E r \in tx[v].old : r.id = found[w]
    \/ /\ pc[w] = "purge"
       /\ \E r \in tx[v].old : r.event = req[w].event

(* The database aborts one of the two transactions of a cycle.             *)
DeadlockAbort(w) ==
    /\ \E v \in Workers \ {w} : WaitsFor(w, v) /\ WaitsFor(v, w)
    /\ Return(w, "server_error")
    /\ UNCHANGED dbVars

-----------------------------------------------------------------------------
Step(w) ==
    \/ SelectForUpdate(w) \/ CheckEnroll(w) \/ InsertEnrollment(w)
    \/ FindActive(w) \/ MarkCanceled(w) \/ CountSeat(w)
    \/ DeleteEnrollments(w) \/ DeleteEvent(w)
    \/ SaveUpdate(w) \/ SaveInsert(w)
    \/ Commit(w) \/ Respond(w) \/ DeadlockAbort(w)

Next ==
    \E w \in Workers :
        \/ \E r \in Request : Create(w, r) \/ Receive(w, r)
        \/ Step(w)
        \/ Crash(w)

Spec == Init /\ [][Next]_vars

(* A PATCH reads its event without a lock and writes the row back later.   *)
(* PatchesApart says that meanwhile no other request on its event runs;    *)
(* the code does nothing to make it so.                                    *)
UnderWay(w) == pc[w] \notin {"idle", "respond"}

PatchesApart ==
    \A v, w \in Workers :
        v # w /\ pc[w] \in {"save", "reinsert"} /\ UnderWay(v)
            => req[v].event # req[w].event

ApartSpec == Init /\ [][Next /\ PatchesApart']_vars

(* A worker keeps running its request, and a statement that waits for a    *)
(* row lock that keeps being released gets it: the database queues waiters. *)
FairSpec == Spec /\ \A w \in Workers : SF_vars(Step(w))
-----------------------------------------------------------------------------
(* Properties                                                              *)

Labels == {"idle", "lock", "check", "insert", "find", "mark", "count",
           "purge", "erase", "commit", "save", "reinsert", "respond"}

Replies == {"", "created", "enrolled", "canceled", "patched", "destroyed",
            "not_found", "already_enrolled", "event_full",
            "no_active_enrollment", "server_error"}

(* Every variable has the type the code gives it.                          *)
TypeOK ==
    /\ event \in [Events -> Row \cup {NoRow}]
    /\ allocated \subseteq Events
    /\ enrollments \subseteq Enrollment
    /\ nextId \in Nat
    /\ lock \in [Events -> Workers \cup {NoWorker}]
    /\ pc \in [Workers -> Labels]
    /\ req \in [Workers -> Request \cup {NoReq}]
    /\ seen \in [Workers -> Row \cup {NoRow}]
    /\ found \in [Workers -> Nat]
    /\ tx \in [Workers -> [row : Row \cup {NoRow, Clean},
                           new : SUBSET Enrollment, old : SUBSET Enrollment]]
    /\ reply \in [Workers -> Replies]

(* The event's active enrollments, one per seat that is really taken.      *)
Active(e) == {r \in enrollments : r.event = e /\ r.status = "enrolled"}

(* The denormalized counter never lies: in every committed state           *)
(* seats_taken is the number of active enrollments of the event.           *)
SeatsAccurate ==
    \A e \in Events :
        event[e] # NoRow => event[e].seats_taken = Cardinality(Active(e))

(* Challenge A: no interleaving of requests sells more seats than there    *)
(* are, counting the enrollment rows and not the counter.                  *)
NeverOverbooked ==
    \A e \in Events :
        event[e] # NoRow /\ event[e].capacity # Unlimited
            => Cardinality(Active(e)) <= event[e].capacity

(* A seeker holds at most one active enrollment of an event.               *)
OneActivePerSeeker ==
    \A r1, r2 \in enrollments :
        /\ r1.event = r2.event /\ r1.seeker = r2.seeker
        /\ r1.status = "enrolled" /\ r2.status = "enrolled"
        => r1 = r2

(* An enrollment never outlives its event, whatever destroy races with.    *)
NoOrphans == \A r \in enrollments : event[r.event] # NoRow

(* The row lock alone keeps enroll and cancel correct: the constraints     *)
(* behind it (unique, CHECK, zero-row save) never have to answer.          *)
BackstopsStayQuiet == \A w \in Workers : reply[w] # "server_error"

(* Challenge B: history only grows.  Outside a destroy of its event an     *)
(* enrollment row is never removed, a canceled row never changes, and an   *)
(* active one only becomes canceled, by its own seeker's cancel.           *)
HistoryStep ==
    \A r \in enrollments \ enrollments' :
        \E w \in Workers :
            /\ pc[w] = "commit" /\ req[w].event = r.event
            /\ \/ req[w].op = "destroy" /\ event'[r.event] = NoRow
               \/ /\ req[w].op = "cancel" /\ req[w].seeker = r.seeker
                  /\ r.status = "enrolled"
                  /\ [r EXCEPT !.status = "canceled"] \in enrollments'
HistoryOnlyGrows == [][HistoryStep]_vars

(* The answers that have gone out.                                         *)
Answered == [w \in Workers |-> IF pc[w] = "idle" THEN reply[w] ELSE ""]

(* Every error response has the documented {"detail", "code"} shape: no    *)
(* exception gets past the handler to end in a bare 500.                   *)
ErrorsAreShaped == \A w \in Workers : Answered[w] # "server_error"

(* A bare 500 is never the lock's fault, nor an enroll's: its event was    *)
(* deleted under it; a PATCH has spoiled the counter a cancel takes a seat *)
(* from, or asks for less than is taken, or finds its event back; a DELETE *)
(* has met a booking newer than its list, or deadlocks with a cancel.  No  *)
(* request ever fails on the unique index, or on the capacity CHECK when   *)
(* it enrolls.                                                             *)
Deadlocked(v, w) ==
    /\ pc[v] = "mark" /\ lock[req[v].event] = v
    /\ pc[w] = "erase" /\ req[w].event = req[v].event
    /\ \E r \in tx[w].old : r.id = found[v]

HasCause(w) ==
    LET e == req[w].event
    IN  CASE req[w].op = "enroll" -> event[e] = NoRow
          [] req[w].op = "cancel" ->
                 \/ event[e] = NoRow
                 \/ event[e].seats_taken < Cardinality(Active(e))
                 \/ \E v \in Workers : Deadlocked(w, v)
          [] req[w].op = "destroy" ->
                 \/ \E r \in enrollments \ tx[w].old : r.event = e
                 \/ \E v \in Workers : Deadlocked(v, w)
          [] req[w].op = "patch" ->
                 \/ req[w].capacity # Unlimited
                    /\ req[w].capacity < seen[w].seats_taken
                 \/ pc[w] = "reinsert" /\ event[e] # NoRow
          [] OTHER -> FALSE

Fails(w) == pc[w] # "respond" /\ pc'[w] = "respond" /\ reply'[w] = "server_error"

FailStep == \A w \in Workers : Fails(w) => HasCause(w)
ErrorsHaveACause == [][FailStep]_vars

(* Every request is over at some time: no deadlock lasts, no waiter on the *)
(* event row starves.                                                      *)
EveryRequestEnds == \A w \in Workers : pc[w] # "idle" ~> pc[w] = "idle"

(* Why it works, part 1: each statement runs for the request it belongs    *)
(* to, on an instance the request has really read.                         *)
RequestInv(w) ==
    pc[w] # "idle" =>
        /\ req[w] \in Request
        /\ seen[w] # NoRow
        /\ pc[w] \in {"check", "insert"} => req[w].op = "enroll"
        /\ pc[w] \in {"find", "mark"} => req[w].op = "cancel"
        /\ pc[w] \in {"lock", "count"} => req[w].op \in {"enroll", "cancel"}
        /\ pc[w] \in {"purge", "erase"} => req[w].op = "destroy"
        /\ pc[w] \in {"save", "reinsert"} => req[w].op = "patch"
        /\ pc[w] = "commit" => req[w].op \in {"enroll", "cancel", "destroy"}
        /\ req[w].op = "create" => pc[w] = "respond"

TypeInv == TypeOK /\ \A w \in Workers : RequestInv(w)

(* Part 2: ids identify rows, unused event ids have none.                  *)
IdsInv ==
    /\ \A e \in Events \ allocated : event[e] = NoRow
    /\ \A r \in enrollments : r.id < nextId
    /\ \A r1, r2 \in enrollments : r1.id = r2.id => r1 = r2

(* Part 3: between its SELECT ... FOR UPDATE and its COMMIT, enroll or     *)
(* cancel holds the event row, and its instance is the committed row.      *)
Booking(w) ==
    \/ pc[w] \in {"check", "insert", "find", "mark", "count"}
    \/ pc[w] = "commit" /\ req[w].op # "destroy"

LockInv(w) ==
    Booking(w) =>
        /\ event[req[w].event] # NoRow
        /\ lock[req[w].event] = w
        /\ seen[w] = event[req[w].event]

(* Part 4: what the open transaction of an enroll has seen and written.    *)
Writing(w, op) == pc[w] \in {"count", "commit"} /\ req[w].op = op

EnrollInv(w) ==
    /\ pc[w] = "insert" \/ Writing(w, "enroll")
           => ActiveOf(req[w].event, req[w].seeker) = {}
    /\ Writing(w, "enroll") =>
           /\ tx[w].old = {}
           /\ \E r \in tx[w].new :
                 /\ tx[w].new = {r}
                 /\ r.event = req[w].event /\ r.seeker = req[w].seeker
                 /\ r.status = "enrolled" /\ r.id < nextId
                 /\ \A q \in enrollments : q.id # r.id

(* Two enrolls in flight have different ids.                               *)
FreshIdsInv ==
    \A v, w \in Workers :
        v # w /\ Writing(v, "enroll") /\ Writing(w, "enroll") =>
            \A q \in tx[v].new : \A r \in tx[w].new : q.id # r.id

(* Part 5: a cancel's row is still there and still active.                 *)
CancelInv(w) ==
    /\ pc[w] = "mark" =>
           \E r \in ActiveOf(req[w].event, req[w].seeker) : r.id = found[w]
    /\ Writing(w, "cancel") =>
           \E r \in ActiveOf(req[w].event, req[w].seeker) :
               tx[w].old = {r} /\ tx[w].new = {Canceled(r)}

(* Part 6: the event row a transaction is about to publish.                *)
WriteInv(w) ==
    /\ pc[w] = "commit" /\ req[w].op # "destroy" =>
           /\ tx[w].row = [seen[w] EXCEPT
                               !.seats_taken = @ + SeatDelta(req[w].op)]
           /\ ChecksHold(tx[w].row)
    /\ pc[w] = "erase" \/ Writing(w, "destroy") =>
           /\ tx[w].new = {}
           /\ \A r \in tx[w].old : r.event = req[w].event
    /\ pc[w] = "erase" => tx[w].row = Clean
    /\ Writing(w, "destroy") =>
           \/ tx[w].row = NoRow /\ lock[req[w].event] = w
           \/ tx[w].row = Clean /\ tx[w].old = {}
    /\ pc[w] # "idle" => req[w].event \in allocated

(* Part 7: a row that is being changed or deleted is still there, and no   *)
(* two transactions are at the same row.                                   *)
RowLocksInv ==
    \A w \in Workers :
        /\ tx[w].old \subseteq enrollments
        /\ \A v \in Workers \ {w} : tx[w].old \cap tx[v].old = {}

ConstraintsHold == \A e \in Events : event[e] # NoRow => ChecksHold(event[e])

(* Together, what every statement keeps true, a patch's as well: rows of    *)
(* enrollments are right whatever interleaves.                              *)
RowsInv ==
    /\ IsFiniteSet(enrollments)
    /\ IdsInv
    /\ NoOrphans
    /\ OneActivePerSeeker
    /\ ConstraintsHold
    /\ FreshIdsInv
    /\ RowLocksInv
    /\ \A w \in Workers :
           LockInv(w) /\ EnrollInv(w) /\ CancelInv(w) /\ WriteInv(w)

(* The counter agrees with the rows where no patch is served.              *)
BookingInv == RowsInv /\ SeatsAccurate

(* The API behaves as one atomic object (SeatLedger): its ledger is the     *)
(* committed tables, the outcome of a call is the answer a worker has ready *)
(* once its transaction is over, its answers are those that have gone out. *)
Holders(e) == {r.seeker : r \in Active(e)}
Booked == [e \in Events |-> Holders(e)]
Offered == [e \in Events |-> IF event[e] = NoRow THEN NoRow ELSE event[e].capacity]
Outcome == [w \in Workers |-> IF pc[w] = "respond" THEN reply[w] ELSE ""]

Ledger == INSTANCE SeatLedger WITH
    booked <- Booked, capacity <- Offered, call <- req, outcome <- Outcome,
    reply <- Answered, Closed <- NoRow, NoCall <- NoReq
ImplementsLedger == Ledger!Spec
=============================================================================
