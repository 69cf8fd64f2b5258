----------------------- MODULE EnrollmentServiceProofs -----------------------
(* Theorems about EnrollmentService, for every number of events, seekers,   *)
(* workers and rows and every set of capacities.                            *)
EXTENDS EnrollmentService, FiniteSetTheorems, TLAPS

(* A request names an event, carries what its kind needs, and is no null.   *)
LEMMA RequestFacts ==
    ASSUME NEW r \in Request
    PROVE  /\ r # NoReq
           /\ r.event \in Events
           /\ r.op \in {"create", "enroll", "cancel", "patch", "destroy"}
           /\ r.op # "create" => r.op \in Ops
           /\ r.op \in {"enroll", "cancel"} => r.seeker \in Seekers
           /\ r.op \in {"create", "patch"} => r.capacity \in Capacities
  BY NullsAssumption, OpsAssumption DEF Request

(* What a worker holds after it has received a request, and the others too. *)
LEMMA Received ==
    ASSUME TypeInv, NEW w \in Workers, NEW r \in Request, Receive(w, r)
    PROVE  /\ pc[w] = "idle" /\ UNCHANGED dbVars
           /\ event[r.event] = NoRow => UNCHANGED <<pc, req, seen>>
           /\ event[r.event] # NoRow =>
                 /\ pc'[w] = FirstStatement(r.op) /\ req'[w] = r /\ seen'[w] = event[r.event]
                 /\ \A v \in Workers \ {w} :
                       pc'[v] = pc[v] /\ req'[v] = req[v] /\ seen'[v] = seen[v]
<1>1. /\ DOMAIN pc = Workers /\ DOMAIN req = Workers /\ DOMAIN seen = Workers
  BY DEF TypeInv, TypeOK
<1>2. CASE event[r.event] = NoRow
  BY <1>2 DEF Receive
<1>3. CASE event[r.event] # NoRow
  <2>1. /\ pc' = [pc EXCEPT ![w] = FirstStatement(r.op)] /\ req' = [req EXCEPT ![w] = r]
        /\ seen' = [seen EXCEPT ![w] = event[r.event]]
    BY <1>3 DEF Receive
  <2> QED
    BY <1>1, <1>3, <2>1 DEF Receive
<1> QED
  BY <1>2, <1>3

(* Every behaviour starts in a well-typed state.                            *)
LEMMA InitTypeInv == Init => TypeInv
<1> SUFFICES ASSUME Init PROVE TypeInv
  OBVIOUS
<1>1. tx \in [Workers -> [row : Row \cup {NoRow, Clean},
                         new : SUBSET Enrollment, old : SUBSET Enrollment]]
  BY DEF Init, EmptyTx
<1>2. TypeOK
  BY <1>1 DEF Init, TypeOK, Labels, Replies
<1>3. ASSUME NEW w \in Workers PROVE RequestInv(w)
  BY DEF Init, RequestInv
<1> QED
  BY <1>2, <1>3 DEF TypeInv

(* The end of a request keeps the types, whatever it does to the database. *)
LEMMA FinishType ==
    ASSUME TypeInv, NEW w \in Workers, Finish(w)
    PROVE  /\ lock' \in [Events -> Workers \cup {NoWorker}]
           /\ pc' \in [Workers -> Labels]
           /\ req' \in [Workers -> Request \cup {NoReq}]
           /\ seen' \in [Workers -> Row \cup {NoRow}]
           /\ found' \in [Workers -> Nat]
           /\ tx' \in [Workers -> [row : Row \cup {NoRow, Clean},
                        new : SUBSET Enrollment, old : SUBSET Enrollment]]
           /\ \A v \in Workers : RequestInv(v)'
<1>1. EmptyTx \in [row : Row \cup {NoRow, Clean},
                  new : SUBSET Enrollment, old : SUBSET Enrollment]
  BY DEF EmptyTx
<1>2. tx' \in [Workers -> [row : Row \cup {NoRow, Clean},
                        new : SUBSET Enrollment, old : SUBSET Enrollment]]
  BY <1>1 DEF TypeInv, TypeOK, Finish, Release
<1>3. \A v \in Workers : RequestInv(v)'
  BY DEF TypeInv, TypeOK, RequestInv, Finish, Release
<1> QED
  BY <1>2, <1>3 DEF TypeInv, TypeOK, Finish, Release, Labels

(* So does an answer, whatever the transaction has published.              *)
LEMMA ReturnType ==
    ASSUME TypeInv, NEW w \in Workers, NEW code \in Replies, Return(w, code),
           pc[w] # "idle", event' \in [Events -> Row \cup {NoRow}],
           allocated' = allocated, enrollments' \subseteq Enrollment, nextId' \in Nat
    PROVE  TypeInv'
<1>1. EmptyTx \in [row : Row \cup {NoRow, Clean},
                  new : SUBSET Enrollment, old : SUBSET Enrollment]
  BY DEF EmptyTx
<1>2. tx' \in [Workers -> [row : Row \cup {NoRow, Clean},
                        new : SUBSET Enrollment, old : SUBSET Enrollment]]
  BY <1>1 DEF TypeInv, TypeOK, Return, Release
<1>3. TypeOK'
  BY <1>2 DEF TypeInv, TypeOK, Return, Release, Labels
<1>4. ASSUME NEW v \in Workers PROVE RequestInv(v)'
  <2>1. req' = req /\ seen' = seen /\ RequestInv(v)
    BY DEF TypeInv, Return
  <2>2. pc'[v] = IF v = w THEN "respond" ELSE pc[v]
    BY DEF TypeInv, TypeOK, Return
  <2> QED
    BY <2>1, <2>2 DEF RequestInv
<1> QED
  BY <1>3, <1>4 DEF TypeInv

LEMMA RefusalType ==
    ASSUME TypeInv, NEW w \in Workers, NEW code \in Replies, Return(w, code),
           pc[w] # "idle", UNCHANGED <<event, allocated, enrollments>>, nextId' \in Nat
    PROVE  TypeInv'
  BY ReturnType DEF TypeInv, TypeOK

(* Every statement keeps the types, patches included.                      *)
LEMMA TypeStep == TypeInv /\ [Next]_vars => TypeInv'
<1> SUFFICES ASSUME TypeInv, [Next]_vars PROVE TypeInv'
  OBVIOUS
<1> USE DEF dbVars
<1>0. Replies = {"", "created", "enrolled", "canceled", "patched", "destroyed",
                 "not_found", "already_enrolled", "event_full",
                 "no_active_enrollment", "server_error"}
  BY DEF Replies
<1>1. ASSUME NEW w \in Workers, NEW r \in Request, Create(w, r)
      PROVE  TypeInv'
  <2> DEFINE row == [capacity |-> r.capacity, seats_taken |-> 0]
  <2>0. r.op = "create" /\ r.event \in Events /\ r.capacity \in Capacity
    BY <1>1, RequestFacts, CapacitiesAssumption DEF Capacity, Create
  <2>1. row \in Row /\ row # NoRow
    BY <2>0, NullsAssumption DEF Row
  <2>2. /\ event' = [event EXCEPT ![r.event] = row] /\ seen' = [seen EXCEPT ![w] = row]
        /\ pc' = [pc EXCEPT ![w] = "respond"] /\ req' = [req EXCEPT ![w] = r]
        /\ r.op = "create"
    BY <1>1 DEF Create
  <2> HIDE DEF row
  <2>3. TypeOK'
    <3>1. /\ allocated' = allocated \cup {r.event} /\ reply' = [reply EXCEPT ![w] = "created"]
          /\ UNCHANGED <<enrollments, nextId, lock, found, tx>>
      BY <1>1 DEF Create
    <3>2. event' \in [Events -> Row \cup {NoRow}] /\ seen' \in [Workers -> Row \cup {NoRow}]
      BY <2>1, <2>2 DEF TypeInv, TypeOK
    <3>3. /\ pc' \in [Workers -> Labels] /\ req' \in [Workers -> Request \cup {NoReq}]
          /\ reply' \in [Workers -> Replies]
      BY <2>2, <3>1 DEF TypeInv, TypeOK, Labels, Replies
    <3> QED
      BY <2>0, <3>1, <3>2, <3>3 DEF TypeInv, TypeOK
  <2>4. ASSUME NEW v \in Workers PROVE RequestInv(v)'
    <3>1. CASE v = w
      <4>1. pc'[v] = "respond" /\ req'[v] = r /\ seen'[v] = row
        BY <2>2, <3>1 DEF TypeInv, TypeOK
      <4> QED
        BY <2>1, <4>1 DEF RequestInv
    <3>2. CASE v # w
      BY <2>2, <3>2 DEF TypeInv, TypeOK, RequestInv
    <3> QED
      BY <3>1, <3>2
  <2> QED
    BY <2>3, <2>4 DEF TypeInv
<1>2. ASSUME NEW w \in Workers, NEW r \in Request, Receive(w, r)
      PROVE  TypeInv'
  <2>1. r.event \in Events /\ r.op \in {"enroll", "cancel", "patch", "destroy"}
    BY <1>2, RequestFacts, OpsAssumption DEF Receive
  <2>2. FirstStatement(r.op) \in Labels
    BY <2>1 DEF FirstStatement, Labels
  <2>3. TypeOK'
    <3>1. /\ pc' \in [Workers -> Labels] /\ req' \in [Workers -> Request \cup {NoReq}]
          /\ seen' \in [Workers -> Row \cup {NoRow}] /\ reply' \in [Workers -> Replies]
      <4>1. reply' \in [Workers -> Replies]
        BY <1>2 DEF TypeInv, TypeOK, Receive, Replies
      <4>2. CASE event[r.event] = NoRow
        BY <1>2, <4>1, <4>2 DEF TypeInv, TypeOK, Receive
      <4>3. CASE event[r.event] # NoRow
        BY <1>2, <2>1, <2>2, <4>1, <4>3 DEF TypeInv, TypeOK, Receive
      <4> QED
        BY <4>2, <4>3
    <3> QED
      BY <1>2, <3>1 DEF TypeInv, TypeOK, Receive
  <2>4. ASSUME NEW v \in Workers PROVE RequestInv(v)'
    <3>1. CASE v = w /\ event[r.event] # NoRow
      <4>1. /\ pc'[v] = FirstStatement(r.op) /\ req'[v] = r
            /\ seen'[v] = event[r.event]
        BY <1>2, <3>1, Received
      <4>2. \/ FirstStatement(r.op) = "lock" /\ r.op \in {"enroll", "cancel"}
            \/ FirstStatement(r.op) = "save" /\ r.op = "patch"
            \/ FirstStatement(r.op) = "purge" /\ r.op = "destroy"
        BY <2>1 DEF FirstStatement
      <4> QED
        BY <3>1, <4>1, <4>2 DEF RequestInv
    <3>2. CASE v # w \/ event[r.event] = NoRow
      <4>1. pc'[v] = pc[v] /\ req'[v] = req[v] /\ seen'[v] = seen[v]
        BY <1>2, <3>2, Received
      <4> QED
        BY <4>1 DEF TypeInv, RequestInv
    <3> QED
      BY <3>1, <3>2
  <2> QED
    BY <2>3, <2>4 DEF TypeInv
<1>3. ASSUME NEW w \in Workers, SelectForUpdate(w)
      PROVE  TypeInv'
  <2>1. req[w] \in Request /\ req[w].event \in Events /\ pc[w] # "idle"
    BY <1>3, RequestFacts DEF TypeInv, RequestInv, SelectForUpdate
  <2>2. CASE event[req[w].event] = NoRow
    <3>1. Return(w, "server_error") /\ UNCHANGED dbVars /\ nextId' \in Nat
      BY <1>3, <2>2 DEF SelectForUpdate, TypeInv, TypeOK
    <3> QED
      BY <1>0, <2>1, <3>1, RefusalType
  <2>3. CASE event[req[w].event] # NoRow
    <3>1. TypeOK'
      BY <1>3, <2>1, <2>3 DEF TypeInv, TypeOK, SelectForUpdate, GoTo, TakeLock, Labels
    <3>2. ASSUME NEW v \in Workers PROVE RequestInv(v)'
      BY <1>3, <2>1, <2>3 DEF TypeInv, TypeOK, RequestInv, SelectForUpdate, GoTo
    <3> QED
      BY <3>1, <3>2 DEF TypeInv
  <2> QED
    BY <2>2, <2>3
<1>4. ASSUME NEW w \in Workers, CheckEnroll(w)
      PROVE  TypeInv'
  <2>1. req[w] \in Request /\ req[w].op = "enroll" /\ pc[w] # "idle"
    BY <1>4 DEF TypeInv, RequestInv, CheckEnroll
  <2>2. /\ UNCHANGED dbVars /\ nextId' \in Nat
        /\ \/ Return(w, "already_enrolled") \/ Return(w, "event_full")
           \/ GoTo(w, "insert") /\ UNCHANGED <<lock, req, seen, found, tx>>
    BY <1>4 DEF CheckEnroll, TypeInv, TypeOK
  <2>3. CASE GoTo(w, "insert") /\ UNCHANGED <<lock, req, seen, found, tx>>
    <3>1. TypeOK'
      BY <2>2, <2>3 DEF TypeInv, TypeOK, GoTo, Labels
    <3>2. ASSUME NEW v \in Workers PROVE RequestInv(v)'
      BY <2>1, <2>3 DEF TypeInv, TypeOK, RequestInv, GoTo
    <3> QED
      BY <3>1, <3>2 DEF TypeInv
  <2> QED
    BY <1>0, <2>1, <2>2, <2>3, RefusalType
<1>5. ASSUME NEW w \in Workers, InsertEnrollment(w)
      PROVE  TypeInv'
  <2>1. /\ req[w] \in Request /\ req[w].event \in Events /\ req[w].op = "enroll"
        /\ req[w].seeker \in Seekers /\ pc[w] # "idle"
    BY <1>5, RequestFacts DEF TypeInv, RequestInv, InsertEnrollment
  <2> DEFINE row == [id |-> nextId, event |-> req[w].event,
                     seeker |-> req[w].seeker, status |-> "enrolled"]
             written == [row |-> Clean, old |-> {}, new |-> {row}]
  <2>2. row \in Enrollment /\ nextId + 1 \in Nat
    BY <2>1 DEF TypeInv, TypeOK, Enrollment
  <2>3. written \in [row : Row \cup {NoRow, Clean},
                      new : SUBSET Enrollment, old : SUBSET Enrollment]
    BY <2>2
  <2>4. /\ UNCHANGED <<event, allocated, enrollments>> /\ nextId' = nextId + 1
        /\ \/ Return(w, "server_error")
           \/ /\ tx' = [tx EXCEPT ![w] = written] /\ GoTo(w, "count")
              /\ UNCHANGED <<lock, req, seen, found>>
    BY <1>5 DEF InsertEnrollment
  <2> HIDE DEF row, written
  <2>5. CASE Return(w, "server_error")
    BY <1>0, <2>1, <2>2, <2>4, <2>5, RefusalType
  <2>6. CASE ~Return(w, "server_error")
    <3>1. TypeOK'
      BY <2>2, <2>3, <2>4, <2>6 DEF TypeInv, TypeOK, GoTo, Labels
    <3>2. ASSUME NEW v \in Workers PROVE RequestInv(v)'
      BY <2>1, <2>4, <2>6 DEF TypeInv, TypeOK, RequestInv, GoTo
    <3> QED
      BY <3>1, <3>2 DEF TypeInv
  <2> QED
    BY <2>5, <2>6
<1>6. ASSUME NEW w \in Workers, FindActive(w)
      PROVE  TypeInv'
  <2>1. req[w] \in Request /\ req[w].op = "cancel" /\ pc[w] # "idle"
    BY <1>6 DEF TypeInv, RequestInv, FindActive
  <2>2. \A r \in ActiveOf(req[w].event, req[w].seeker) : r.id \in Nat
    BY DEF TypeInv, TypeOK, ActiveOf, Enrollment
  <2>3. /\ UNCHANGED dbVars /\ nextId' \in Nat
        /\ \/ Return(w, "no_active_enrollment")
           \/ /\ \E r \in ActiveOf(req[w].event, req[w].seeker) :
                    found' = [found EXCEPT ![w] = r.id]
              /\ GoTo(w, "mark") /\ UNCHANGED <<lock, req, seen, tx>>
    BY <1>6 DEF FindActive, TypeInv, TypeOK
  <2>4. CASE Return(w, "no_active_enrollment")
    BY <1>0, <2>1, <2>3, <2>4, RefusalType
  <2>5. CASE ~Return(w, "no_active_enrollment")
    <3>1. TypeOK'
      BY <2>2, <2>3, <2>5 DEF TypeInv, TypeOK, GoTo, Labels
    <3>2. ASSUME NEW v \in Workers PROVE RequestInv(v)'
      BY <2>1, <2>3, <2>5 DEF TypeInv, TypeOK, RequestInv, GoTo
    <3> QED
      BY <3>1, <3>2 DEF TypeInv
  <2> QED
    BY <2>4, <2>5
<1>7. ASSUME NEW w \in Workers, MarkCanceled(w)
      PROVE  TypeInv'
  <2> DEFINE rows == {r \in enrollments : r.id = found[w]}
             written == [row |-> Clean, old |-> rows, new |-> {Canceled(r) : r \in rows}]
  <2>1. req[w] \in Request /\ req[w].op = "cancel" /\ pc[w] # "idle"
    BY <1>7 DEF TypeInv, RequestInv, MarkCanceled
  <2>2. \A r \in rows : Canceled(r) \in Enrollment
    BY DEF TypeInv, TypeOK, Enrollment, Canceled
  <2>3. written \in [row : Row \cup {NoRow, Clean},
                      new : SUBSET Enrollment, old : SUBSET Enrollment]
    BY <2>2 DEF TypeInv, TypeOK
  <2>4. /\ UNCHANGED dbVars /\ nextId' \in Nat
        /\ \/ Return(w, "server_error")
           \/ /\ tx' = [tx EXCEPT ![w] = written] /\ GoTo(w, "count")
              /\ UNCHANGED <<lock, req, seen, found>>
    BY <1>7 DEF MarkCanceled, TypeInv, TypeOK
  <2> HIDE DEF rows, written
  <2>5. CASE Return(w, "server_error")
    BY <1>0, <2>1, <2>4, <2>5, RefusalType
  <2>6. CASE ~Return(w, "server_error")
    <3>1. tx' \in [Workers -> [row : Row \cup {NoRow, Clean},
                              new : SUBSET Enrollment, old : SUBSET Enrollment]]
      BY <2>3, <2>4, <2>6 DEF TypeInv, TypeOK
    <3>2. pc' \in [Workers -> Labels]
      BY <2>4, <2>6 DEF TypeInv, TypeOK, GoTo, Labels
    <3>3. TypeOK'
      BY <2>4, <2>6, <3>1, <3>2 DEF TypeInv, TypeOK, GoTo
    <3>4. ASSUME NEW v \in Workers PROVE RequestInv(v)'
      BY <2>1, <2>4, <2>6 DEF TypeInv, TypeOK, RequestInv, GoTo
    <3> QED
      BY <3>3, <3>4 DEF TypeInv
  <2> QED
    BY <2>5, <2>6
<1>8. ASSUME NEW w \in Workers, CountSeat(w)
      PROVE  TypeInv'
  <2> DEFINE e == req[w].event
             row == [event[e] EXCEPT !.seats_taken = @ + SeatDelta(req[w].op)]
  <2>1. req[w] \in Request /\ e \in Events /\ pc[w] = "count"
        /\ req[w].op \in {"enroll", "cancel"}
    BY <1>8, RequestFacts DEF TypeInv, RequestInv, CountSeat
  <2>2. event[e] # NoRow => row \in Row
    <3>1. event[e] # NoRow => event[e] \in Row
      BY <2>1 DEF TypeInv, TypeOK
    <3>2. SeatDelta(req[w].op) \in Int
      BY DEF SeatDelta
    <3> QED
      BY <3>1, <3>2 DEF Row
  <2>3. /\ UNCHANGED dbVars /\ nextId' \in Nat
        /\ \/ Return(w, "server_error")
           \/ /\ GoTo(w, "commit") /\ UNCHANGED <<req, seen, found>>
              /\ \/ UNCHANGED <<lock, tx>>
                 \/ event[e] # NoRow /\ TakeLock(w) /\ tx' = [tx EXCEPT ![w].row = row]
    BY <1>8 DEF CountSeat, TypeInv, TypeOK
  <2>4. event[e] # NoRow => [tx EXCEPT ![w].row = row]
          \in [Workers -> [row : Row \cup {NoRow, Clean},
                           new : SUBSET Enrollment, old : SUBSET Enrollment]]
    BY <2>2 DEF TypeInv, TypeOK
  <2> HIDE DEF row
  <2>5. CASE Return(w, "server_error")
    BY <1>0, <2>1, <2>3, <2>5, RefusalType
  <2>6. CASE ~Return(w, "server_error")
    <3>1. lock' \in [Events -> Workers \cup {NoWorker}]
      BY <2>3, <2>6 DEF TypeInv, TypeOK, TakeLock
    <3>2. TypeOK'
      BY <2>3, <2>4, <2>6, <3>1 DEF TypeInv, TypeOK, GoTo, Labels
    <3>3. ASSUME NEW v \in Workers PROVE RequestInv(v)'
      BY <2>1, <2>3, <2>6 DEF TypeInv, TypeOK, RequestInv, GoTo
    <3> QED
      BY <3>2, <3>3 DEF TypeInv
  <2> QED
    BY <2>5, <2>6
<1>9. ASSUME NEW w \in Workers, DeleteEnrollments(w)
      PROVE  TypeInv'
  <2>1. req[w] \in Request /\ req[w].event \in Events
    BY <1>9, RequestFacts DEF TypeInv, RequestInv, DeleteEnrollments
  <2>0. [row |-> Clean, new |-> {},
         old |-> {r \in enrollments : r.event = req[w].event}]
          \in [row : Row \cup {NoRow, Clean},
                           new : SUBSET Enrollment, old : SUBSET Enrollment]
    BY DEF TypeInv, TypeOK
  <2>2. TypeOK'
    BY <1>9, <2>1, <2>0 DEF TypeInv, TypeOK, DeleteEnrollments, GoTo, Labels
  <2>3. ASSUME NEW v \in Workers PROVE RequestInv(v)'
    BY <1>9, <2>1 DEF TypeInv, TypeOK, RequestInv, DeleteEnrollments, GoTo
  <2> QED
    BY <2>2, <2>3 DEF TypeInv
<1>10. ASSUME NEW w \in Workers, DeleteEvent(w)
      PROVE  TypeInv'
  <2>1. req[w] \in Request /\ req[w].event \in Events
    BY <1>10, RequestFacts DEF TypeInv, RequestInv, DeleteEvent
  <2>0. [tx EXCEPT ![w].row = NoRow]
          \in [Workers -> [row : Row \cup {NoRow, Clean},
                           new : SUBSET Enrollment, old : SUBSET Enrollment]]
    BY DEF TypeInv, TypeOK
  <2>2. TypeOK'
    BY <1>10, <2>1, <2>0 DEF TypeInv, TypeOK, DeleteEvent, GoTo, TakeLock, Labels
  <2>3. ASSUME NEW v \in Workers PROVE RequestInv(v)'
    BY <1>10, <2>1 DEF TypeInv, TypeOK, RequestInv, DeleteEvent, GoTo, TakeLock
  <2> QED
    BY <2>2, <2>3 DEF TypeInv
<1>11. ASSUME NEW w \in Workers, Commit(w)
      PROVE  TypeInv'
  <2> DEFINE after == (enrollments \ tx[w].old) \cup tx[w].new
  <2>1. /\ req[w] \in Request /\ req[w].event \in Events /\ pc[w] # "idle"
        /\ OkReply(req[w].op) \in Replies
    BY <1>11, RequestFacts DEF TypeInv, RequestInv, Commit, OkReply, Replies
  <2>2. CASE LeavesOrphans(w, after)
    <3>1. Return(w, "server_error") /\ UNCHANGED dbVars /\ nextId' \in Nat
      BY <1>11, <2>2 DEF Commit, TypeInv, TypeOK
    <3> QED
      BY <1>0, <2>1, <3>1, RefusalType
  <2>3. CASE ~LeavesOrphans(w, after)
    <3>1. /\ Return(w, OkReply(req[w].op))
          /\ event' = IF tx[w].row = Clean THEN event
                      ELSE [event EXCEPT ![req[w].event] = tx[w].row]
          /\ enrollments' = after /\ UNCHANGED <<allocated, nextId>>
      BY <1>11, <2>3 DEF Commit
    <3>2. event' \in [Events -> Row \cup {NoRow}]
      BY <3>1, <2>1 DEF TypeInv, TypeOK
    <3>3. enrollments' \subseteq Enrollment /\ nextId' \in Nat
      BY <3>1 DEF TypeInv, TypeOK
    <3> QED
      BY <2>1, <3>1, <3>2, <3>3, ReturnType
  <2> QED
    BY <2>2, <2>3
<1>12. ASSUME NEW w \in Workers, SaveUpdate(w) \/ SaveInsert(w)
      PROVE  TypeInv'
  <2>1. /\ req[w] \in Request /\ req[w].event \in Events /\ req[w].op = "patch"
        /\ seen[w] \in Row /\ pc[w] \in {"save", "reinsert"}
    BY <1>12, RequestFacts DEF TypeInv, TypeOK, RequestInv, SaveUpdate, SaveInsert
  <2>2. Patched(w) \in Row
    BY <2>1, RequestFacts, CapacitiesAssumption DEF Patched, Row, Capacity
  <2>3. /\ UNCHANGED <<allocated, enrollments, nextId>> /\ nextId' \in Nat
        /\ \/ Return(w, "patched") /\ event' = [event EXCEPT ![req[w].event] = Patched(w)]
           \/ Return(w, "server_error") /\ UNCHANGED event
           \/ GoTo(w, "reinsert") /\ UNCHANGED <<event, lock, req, seen, found, tx>>
    BY <1>12 DEF SaveUpdate, SaveInsert, SaveRow, TypeInv, TypeOK
  <2>4. CASE Return(w, "patched") /\ event' = [event EXCEPT ![req[w].event] = Patched(w)]
    <3>1. event' \in [Events -> Row \cup {NoRow}] /\ enrollments' \subseteq Enrollment
      BY <2>1, <2>2, <2>3, <2>4 DEF TypeInv, TypeOK
    <3> QED
      BY <1>0, <2>1, <2>3, <2>4, <3>1, ReturnType
  <2>5. CASE Return(w, "server_error") /\ UNCHANGED event
    BY <1>0, <2>1, <2>3, <2>5, RefusalType
  <2>6. CASE GoTo(w, "reinsert") /\ UNCHANGED <<event, lock, req, seen, found, tx>>
    <3>1. TypeOK'
      BY <2>3, <2>6 DEF TypeInv, TypeOK, GoTo, Labels
    <3>2. ASSUME NEW v \in Workers PROVE RequestInv(v)'
      BY <2>1, <2>6 DEF TypeInv, TypeOK, RequestInv, GoTo
    <3> QED
      BY <3>1, <3>2 DEF TypeInv
  <2> QED
    BY <2>3, <2>4, <2>5, <2>6
<1>13. ASSUME NEW w \in Workers, Respond(w) \/ Crash(w)
      PROVE  TypeInv'
  <2>1. Finish(w) /\ UNCHANGED dbVars /\ reply' \in [Workers -> Replies]
    BY <1>13 DEF TypeInv, TypeOK, Respond, Crash, Replies
  <2> QED
    BY <2>1, FinishType DEF TypeInv, TypeOK
<1>14. ASSUME NEW w \in Workers, DeadlockAbort(w)
      PROVE  TypeInv'
  <2>1. pc[w] # "idle" /\ Return(w, "server_error") /\ UNCHANGED dbVars /\ nextId' \in Nat
    BY <1>14 DEF TypeInv, TypeOK, DeadlockAbort, WaitsFor
  <2> QED
    BY <1>0, <2>1, RefusalType
<1>15. CASE UNCHANGED vars
  BY <1>15 DEF TypeInv, TypeOK, RequestInv, vars
<1> QED
  BY <1>1, <1>2, <1>3, <1>4, <1>5, <1>6, <1>7, <1>8, <1>9, <1>10, <1>11,
     <1>12, <1>13, <1>14, <1>15 DEF Next, Step

(* Every state of every behaviour is well-typed, patches included.         *)
THEOREM TypeCorrect == Spec => []TypeOK
<1>1. Init => TypeInv
  BY InitTypeInv
<1>2. TypeInv /\ [Next]_vars => TypeInv'
  BY TypeStep
<1>3. TypeInv => TypeOK
  BY DEF TypeInv
<1> QED
  BY <1>1, <1>2, <1>3, PTL DEF Spec

-----------------------------------------------------------------------------
(* Rows of enrollments stay right whatever interleaves, patches included.  *)

BookerInv(w) == LockInv(w) /\ EnrollInv(w) /\ CancelInv(w) /\ WriteInv(w)

TablesInv ==
    /\ IsFiniteSet(enrollments) /\ IdsInv /\ NoOrphans
    /\ OneActivePerSeeker /\ ConstraintsHold

(* Only w moves: every other worker's state and locks are as they were.    *)
OnlyMoves(w) ==
    /\ \A v \in Workers \ {w} :
          /\ pc'[v] = pc[v] /\ req'[v] = req[v] /\ seen'[v] = seen[v]
          /\ found'[v] = found[v] /\ tx'[v] = tx[v]
    /\ \A e \in Events : lock[e] \notin {w, NoWorker} => lock'[e] = lock[e]

(* A step that only reads the tables cannot hurt them, nor anyone else.    *)
LEMMA ReadStep ==
    ASSUME TypeInv, RowsInv, NEW w \in Workers, OnlyMoves(w),
           UNCHANGED <<event, allocated, enrollments>>,
           nextId' \in Nat, nextId <= nextId'
    PROVE  /\ TablesInv'
           /\ \A v \in Workers \ {w} : BookerInv(v)'
<1>1. TablesInv'
  BY DEF TypeInv, TypeOK, RowsInv, TablesInv, IdsInv, NoOrphans,
         OneActivePerSeeker, ConstraintsHold, ChecksHold, Enrollment
<1>2. ASSUME NEW v \in Workers \ {w} PROVE BookerInv(v)'
  <2>1. /\ pc'[v] = pc[v] /\ req'[v] = req[v] /\ seen'[v] = seen[v]
        /\ found'[v] = found[v] /\ tx'[v] = tx[v]
    BY DEF OnlyMoves
  <2>2. pc[v] # "idle" => req[v].event \in Events
    BY RequestFacts DEF TypeInv, RequestInv
  <2>3. pc[v] # "idle" /\ lock[req[v].event] = v
          => lock'[req[v].event] = v
    BY <2>2, NullsAssumption DEF OnlyMoves
  <2>4. LockInv(v)'
    BY <2>1, <2>3 DEF RowsInv, LockInv, Booking
  <2>5. EnrollInv(v)'
    BY <2>1 DEF TypeInv, TypeOK, RowsInv, EnrollInv, Writing, ActiveOf, Active,
                Enrollment
  <2>6. CancelInv(v)'
    BY <2>1 DEF RowsInv, CancelInv, Writing, ActiveOf, Active
  <2>7. WriteInv(v)'
    BY <2>1, <2>3 DEF RowsInv, WriteInv, Writing, ChecksHold
  <2> QED
    BY <2>4, <2>5, <2>6, <2>7 DEF BookerInv
<1> QED
  BY <1>1, <1>2

(* What a read step of w leaves to show.                                   *)
LEMMA ReadStepQED ==
    ASSUME TypeInv, RowsInv, NEW w \in Workers, OnlyMoves(w),
           UNCHANGED <<event, allocated, enrollments>>,
           nextId' \in Nat, nextId <= nextId',
           BookerInv(w)',
           Writing(w, "enroll")' => Writing(w, "enroll") /\ tx'[w].new = tx[w].new,
           \/ tx'[w].old \subseteq tx[w].old
           \/ /\ tx'[w].old \subseteq enrollments
              /\ \A v \in Workers \ {w} : tx'[w].old \cap tx[v].old = {}
    PROVE  RowsInv'
<1>1. FreshIdsInv'
  BY DEF RowsInv, FreshIdsInv, OnlyMoves, Writing
<1>2. RowLocksInv'
  <2>1. /\ tx'[w].old \subseteq enrollments
        /\ \A v \in Workers \ {w} : tx'[w].old \cap tx[v].old = {}
    BY DEF RowsInv, RowLocksInv
  <2> QED
    BY <2>1 DEF RowsInv, RowLocksInv, OnlyMoves
<1> QED
  BY <1>1, <1>2, ReadStep DEF RowsInv, TablesInv, BookerInv

(* The empty database satisfies the invariant.                              *)
LEMMA InitRowsInv == Init => RowsInv
<1> SUFFICES ASSUME Init PROVE RowsInv
  OBVIOUS
<1>1. IsFiniteSet(enrollments)
  BY FS_EmptySet DEF Init
<1>2. TablesInv
  BY <1>1 DEF Init, TablesInv, IdsInv, NoOrphans, OneActivePerSeeker,
              ConstraintsHold
<1>3. \A w \in Workers : BookerInv(w)
  BY DEF Init, BookerInv, LockInv, Booking, EnrollInv, CancelInv, WriteInv, Writing
<1>4. FreshIdsInv
  BY DEF Init, FreshIdsInv, Writing
<1>5. RowLocksInv
  BY DEF Init, RowLocksInv, EmptyTx
<1> QED
  BY <1>2, <1>3, <1>4, <1>5 DEF RowsInv, TablesInv, BookerInv

(* A request that is over promises nothing ...                             *)
LEMMA Idle ==
    ASSUME NEW w \in Workers, pc'[w] = "idle"
    PROVE  BookerInv(w)' /\ ~Writing(w, "enroll")'
  BY DEF BookerInv, LockInv, Booking, EnrollInv, CancelInv, WriteInv, Writing

(* ... and neither does one that has its answer.                           *)
LEMMA Responding ==
    ASSUME RowsInv, NEW w \in Workers, pc[w] # "idle", pc'[w] = "respond",
           req'[w] = req[w], allocated' = allocated
    PROVE  BookerInv(w)' /\ ~Writing(w, "enroll")'
  BY DEF RowsInv, BookerInv, LockInv, Booking, EnrollInv, CancelInv, WriteInv,
         Writing

(* The end of a request that published nothing.                            *)
LEMMA FinishStep ==
    ASSUME TypeInv, RowsInv, NEW w \in Workers, Finish(w), UNCHANGED dbVars
    PROVE  RowsInv'
<1>1. /\ OnlyMoves(w) /\ pc'[w] = "idle" /\ nextId' = nextId /\ nextId \in Nat
      /\ tx'[w].old = {}
  BY DEF TypeInv, TypeOK, Finish, Release, OnlyMoves, dbVars, EmptyTx
<1>2. BookerInv(w)' /\ ~Writing(w, "enroll")'
  BY <1>1, Idle
<1> QED
  BY <1>1, <1>2, ReadStepQED DEF dbVars

(* A transaction that is over and has published nothing.                   *)
LEMMA ReturnStep ==
    ASSUME TypeInv, RowsInv, NEW w \in Workers, NEW code, Return(w, code),
           pc[w] # "idle", UNCHANGED <<event, allocated, enrollments>>,
           nextId' \in Nat, nextId <= nextId'
    PROVE  RowsInv'
<1>1. OnlyMoves(w) /\ pc'[w] = "respond" /\ req'[w] = req[w] /\ tx'[w].old = {}
  BY DEF TypeInv, TypeOK, Return, Release, OnlyMoves, EmptyTx
<1>2. BookerInv(w)' /\ ~Writing(w, "enroll")'
  BY <1>1, Responding
<1> QED
  BY <1>1, <1>2, ReadStepQED

(* An arriving request reads the event row and changes no table.            *)
LEMMA ReceiveStep ==
    ASSUME TypeInv, RowsInv, NEW w \in Workers, NEW r \in Request, Receive(w, r)
    PROVE  RowsInv'
<1>1. OnlyMoves(w) /\ UNCHANGED <<event, allocated, enrollments, nextId, tx>>
  BY DEF TypeInv, TypeOK, Receive, OnlyMoves, dbVars
<1>2. CASE event[r.event] = NoRow
  <2>1. pc'[w] = "idle"
    BY <1>2 DEF Receive
  <2>2. BookerInv(w)' /\ ~Writing(w, "enroll")'
    BY <2>1, Idle
  <2> QED
    BY <1>1, <2>2, ReadStepQED DEF TypeInv, TypeOK
<1>3. CASE event[r.event] # NoRow
  <2>0. r.op \in {"enroll", "cancel", "patch", "destroy"}
    BY OpsAssumption DEF Receive
  <2>1. pc'[w] \in {"lock", "save", "purge"} /\ req'[w] = r
    BY <1>3, <2>0, Received DEF FirstStatement
  <2>2. r.event \in allocated
    BY <1>3, RequestFacts DEF RowsInv, IdsInv
  <2>3. BookerInv(w)' /\ ~Writing(w, "enroll")'
    BY <1>1, <2>1, <2>2
    DEF BookerInv, LockInv, Booking, EnrollInv, CancelInv, WriteInv, Writing
  <2> QED
    BY <1>1, <2>3, ReadStepQED DEF TypeInv, TypeOK
<1> QED
  BY <1>2, <1>3

(* The worker that gets the row lock holds a fresh copy of the row.         *)
LEMMA SelectForUpdateStep ==
    ASSUME TypeInv, RowsInv, NEW w \in Workers, SelectForUpdate(w)
    PROVE  RowsInv'
<1>1. req[w] \in Request /\ req[w].event \in Events
  BY RequestFacts DEF TypeInv, RequestInv, SelectForUpdate
<1>2. CASE event[req[w].event] = NoRow
  BY <1>2, ReturnStep DEF SelectForUpdate, dbVars, TypeInv, TypeOK
<1>3. CASE event[req[w].event] # NoRow
  <2>1. /\ OnlyMoves(w) /\ UNCHANGED <<event, allocated, enrollments, nextId, tx>>
        /\ nextId \in Nat
    BY <1>1, <1>3 DEF TypeInv, TypeOK, SelectForUpdate, OnlyMoves, dbVars,
                      EventFree, TakeLock, GoTo
  <2>2. /\ pc'[w] \in {"check", "find"} /\ req'[w] = req[w]
        /\ seen'[w] = event[req[w].event] /\ lock'[req[w].event] = w
    BY <1>1, <1>3 DEF TypeInv, TypeOK, SelectForUpdate, TakeLock, GoTo
  <2>3. req[w].event \in allocated
    BY <1>1, <1>3 DEF RowsInv, IdsInv
  <2>4. BookerInv(w)' /\ ~Writing(w, "enroll")'
    BY <1>3, <2>1, <2>2, <2>3
    DEF BookerInv, LockInv, Booking, EnrollInv, CancelInv, WriteInv, Writing
  <2> QED
    BY <2>1, <2>4, ReadStepQED
<1> QED
  BY <1>2, <1>3

(* Only an enroll that found no active enrollment goes on to insert.        *)
LEMMA CheckEnrollStep ==
    ASSUME TypeInv, RowsInv, NEW w \in Workers, CheckEnroll(w)
    PROVE  RowsInv'
<1> DEFINE mine == ActiveOf(req[w].event, req[w].seeker)
<1>1. CASE mine # {} \/ IsFull(seen[w])
  <2>1. \E code \in Replies : Return(w, code)
    BY <1>1 DEF CheckEnroll, Replies
  <2> QED
    BY <2>1, ReturnStep DEF CheckEnroll, dbVars, TypeInv, TypeOK
<1>2. CASE mine = {} /\ ~IsFull(seen[w])
  <2>1. /\ OnlyMoves(w) /\ nextId \in Nat
        /\ UNCHANGED <<event, allocated, enrollments, nextId, lock, req, seen, tx>>
        /\ pc'[w] = "insert"
    BY <1>2 DEF TypeInv, TypeOK, CheckEnroll, OnlyMoves, dbVars, GoTo
  <2>2. LockInv(w)'
    BY <2>1 DEF RowsInv, LockInv, Booking, CheckEnroll
  <2>3. EnrollInv(w)'
    BY <1>2, <2>1 DEF EnrollInv, Writing, ActiveOf, Active
  <2>4. CancelInv(w)' /\ WriteInv(w)' /\ ~Writing(w, "enroll")'
    BY <2>1 DEF RowsInv, CancelInv, WriteInv, Writing, CheckEnroll
  <2> QED
    BY <2>1, <2>2, <2>3, <2>4, ReadStepQED DEF BookerInv
<1> QED
  BY <1>1, <1>2

(* The inserted row has a new id and no active rival.                       *)
LEMMA InsertEnrollmentStep ==
    ASSUME TypeInv, RowsInv, NEW w \in Workers, InsertEnrollment(w)
    PROVE  RowsInv'
<1> DEFINE e == req[w].event
           s == req[w].seeker
           row == [id |-> nextId, event |-> e, seeker |-> s, status |-> "enrolled"]
<1>1. /\ e \in Events /\ s \in Seekers /\ req[w].op = "enroll"
      /\ nextId \in Nat /\ nextId' = nextId + 1
  BY RequestFacts DEF TypeInv, TypeOK, RequestInv, InsertEnrollment
<1>2. CASE Conflicting(e, s) # {}
  <2>1. /\ Return(w, "server_error") /\ pc[w] # "idle"
        /\ UNCHANGED <<event, allocated, enrollments>>
    BY <1>2 DEF InsertEnrollment
  <2> QED
    BY <1>1, <2>1, ReturnStep
<1>3. CASE Conflicting(e, s) = {}
  <2>0. ActiveOf(e, s) = {}
    BY <1>3 DEF ActiveOf, Conflicting
  <2>1. /\ OnlyMoves(w)
        /\ UNCHANGED <<event, allocated, enrollments, lock, req, seen>>
        /\ pc'[w] = "count" /\ tx'[w].old = {} /\ tx'[w].new = {row}
    BY <1>3 DEF TypeInv, TypeOK, InsertEnrollment, OnlyMoves, GoTo
  <2>2. LockInv(w)'
    BY <2>1 DEF RowsInv, LockInv, Booking, InsertEnrollment
  <2>3. \A q \in enrollments : q.id # row.id
    BY DEF TypeInv, TypeOK, RowsInv, IdsInv, Enrollment
  <2>4. EnrollInv(w)'
    <3>1. ActiveOf(e, s)' = {}
      BY <2>0, <2>1 DEF ActiveOf
    <3>2. row \in tx'[w].new /\ row.id < nextId'
      BY <1>1, <2>1
    <3> HIDE DEF row
    <3>3. row.event = e /\ row.seeker = s /\ row.status = "enrolled"
      BY DEF row
    <3> QED
      BY <2>1, <2>3, <3>1, <3>2, <3>3 DEF EnrollInv, Writing
  <2>5. CancelInv(w)' /\ WriteInv(w)'
    <3>1. pc[w] = "insert" /\ req'[w].op = "enroll"
      BY <1>1, <2>1 DEF InsertEnrollment
    <3>2. e \in allocated
      BY <3>1 DEF RowsInv, WriteInv
    <3> QED
      BY <2>1, <3>1, <3>2 DEF CancelInv, WriteInv, Writing
  <2>6. TablesInv' /\ \A v \in Workers \ {w} : BookerInv(v)'
    BY <1>1, <2>1, ReadStep
  <2>7. FreshIdsInv'
    <3>1. ASSUME NEW v \in Workers \ {w}, Writing(v, "enroll")',
                 NEW q \in tx'[v].new
          PROVE  q.id < nextId /\ q.id \in Nat
      <4>1. Writing(v, "enroll") /\ tx'[v] = tx[v]
        BY <2>1, <3>1 DEF OnlyMoves, Writing
      <4>2. tx[v].new \subseteq Enrollment
        BY DEF TypeInv, TypeOK
      <4> QED
        BY <3>1, <4>1, <4>2 DEF RowsInv, EnrollInv, Enrollment
    <3>2. ASSUME NEW v \in Workers, NEW u \in Workers, v # u, v # w, u # w,
                 Writing(v, "enroll")', Writing(u, "enroll")'
          PROVE  \A q \in tx'[v].new : \A r \in tx'[u].new : q.id # r.id
      BY <2>1, <3>2 DEF RowsInv, FreshIdsInv, OnlyMoves, Writing
    <3>3. \A r \in tx'[w].new : r.id = nextId
      BY <2>1
    <3> QED
      BY <1>1, <3>1, <3>2, <3>3 DEF FreshIdsInv
  <2>8. RowLocksInv'
    BY <2>1 DEF RowsInv, RowLocksInv, OnlyMoves
  <2> QED
    BY <2>2, <2>4, <2>5, <2>6, <2>7, <2>8 DEF RowsInv, TablesInv, BookerInv
<1> QED
  BY <1>2, <1>3

(* Cancel finds one of the seeker's own active enrollments.                 *)
LEMMA FindActiveStep ==
    ASSUME TypeInv, RowsInv, NEW w \in Workers, FindActive(w)
    PROVE  RowsInv'
<1> DEFINE mine == ActiveOf(req[w].event, req[w].seeker)
<1>1. CASE mine = {}
  BY <1>1, ReturnStep DEF FindActive, dbVars, TypeInv, TypeOK
<1>2. CASE mine # {}
  <2>1. /\ OnlyMoves(w) /\ nextId \in Nat
        /\ UNCHANGED <<event, allocated, enrollments, nextId, lock, req, seen, tx>>
        /\ pc'[w] = "mark"
        /\ \E r \in mine : found'[w] = r.id
    BY <1>2 DEF TypeInv, TypeOK, FindActive, OnlyMoves, dbVars, GoTo
  <2>2. LockInv(w)'
    BY <2>1 DEF RowsInv, LockInv, Booking, FindActive
  <2>3. CancelInv(w)'
    BY <2>1 DEF CancelInv, Writing, ActiveOf, Active
  <2>4. EnrollInv(w)' /\ WriteInv(w)' /\ ~Writing(w, "enroll")'
    BY <2>1 DEF RowsInv, EnrollInv, WriteInv, Writing, FindActive
  <2> QED
    BY <2>1, <2>2, <2>3, <2>4, ReadStepQED DEF BookerInv
<1> QED
  BY <1>1, <1>2

(* The row cancel found is still there to be marked.                        *)
LEMMA MarkCanceledStep ==
    ASSUME TypeInv, RowsInv, NEW w \in Workers, MarkCanceled(w)
    PROVE  RowsInv'
<1> DEFINE e == req[w].event
           s == req[w].seeker
           rows == {r \in enrollments : r.id = found[w]}
<1>1. PICK r \in ActiveOf(e, s) : r.id = found[w]
  BY DEF RowsInv, CancelInv, MarkCanceled
<1>2. rows = {r}
  BY <1>1 DEF RowsInv, IdsInv, ActiveOf, Active
<1>3. {Canceled(q) : q \in rows} = {Canceled(r)}
  BY <1>2
<1>4. /\ tx' = [tx EXCEPT ![w] = [row |-> Clean, old |-> {r}, new |-> {Canceled(r)}]]
      /\ GoTo(w, "count") /\ pc[w] = "mark"
      /\ UNCHANGED <<event, allocated, enrollments, nextId, lock, req, seen, found>>
  BY <1>2, <1>3, Zenon DEF MarkCanceled, dbVars
<1>5. /\ OnlyMoves(w) /\ nextId \in Nat
      /\ UNCHANGED <<event, allocated, enrollments, nextId, lock, req, seen>>
      /\ pc'[w] = "count" /\ pc[w] = "mark" /\ req[w].op = "cancel"
      /\ tx'[w].old = {r} /\ tx'[w].new = {Canceled(r)}
  BY <1>4 DEF TypeInv, TypeOK, RequestInv, OnlyMoves, GoTo
<1>6. LockInv(w)'
  BY <1>5 DEF RowsInv, LockInv, Booking
<1>7. CancelInv(w)'
  BY <1>1, <1>5 DEF CancelInv, Writing, ActiveOf, Active, Canceled
<1>8. EnrollInv(w)' /\ WriteInv(w)' /\ ~Writing(w, "enroll")'
  BY <1>5 DEF RowsInv, EnrollInv, WriteInv, Writing
<1>9. /\ tx'[w].old \subseteq enrollments
      /\ \A v \in Workers \ {w} : tx'[w].old \cap tx[v].old = {}
  BY <1>2, <1>5 DEF MarkCanceled, RowLocked
<1> QED
  BY <1>5, <1>6, <1>7, <1>8, <1>9, ReadStepQED DEF BookerInv

(* The counter that will be published is one off the locked row's.          *)
LEMMA CountSeatStep ==
    ASSUME TypeInv, RowsInv, NEW w \in Workers, CountSeat(w)
    PROVE  RowsInv'
<1> DEFINE e == req[w].event
           row == [event[e] EXCEPT !.seats_taken = @ + SeatDelta(req[w].op)]
<1>1. /\ e \in Events /\ pc[w] = "count" /\ req[w].op \in {"enroll", "cancel"}
      /\ nextId \in Nat
  BY RequestFacts DEF TypeInv, TypeOK, RequestInv, CountSeat
<1>2. event[e] # NoRow /\ lock[e] = w /\ seen[w] = event[e]
  BY <1>1 DEF RowsInv, LockInv, Booking
<1>3. CASE ~ChecksHold(row)
  <2>1. /\ Return(w, "server_error") /\ pc[w] # "idle"
        /\ UNCHANGED <<event, allocated, enrollments, nextId>>
    BY <1>1, <1>2, <1>3 DEF CountSeat, dbVars
  <2> QED
    BY <1>1, <2>1, ReturnStep
<1>4. CASE ChecksHold(row)
  <2>1. /\ TakeLock(w) /\ GoTo(w, "commit")
        /\ tx' = [tx EXCEPT ![w].row = row]
        /\ UNCHANGED <<event, allocated, enrollments, nextId, req, seen, found>>
    BY <1>2, <1>4 DEF CountSeat, dbVars
  <2>2. /\ OnlyMoves(w) /\ lock'[e] = w
        /\ pc'[w] = "commit"
        /\ tx'[w].row = row /\ tx'[w].new = tx[w].new /\ tx'[w].old = tx[w].old
    <3> HIDE DEF row
    <3> QED
      BY <1>1, <1>2, <2>1 DEF TypeInv, TypeOK, OnlyMoves, TakeLock, GoTo
  <2> HIDE DEF row
  <2>3. LockInv(w)'
    BY <1>2, <2>1, <2>2 DEF LockInv, Booking
  <2>4. EnrollInv(w)'
    BY <1>1, <2>1, <2>2 DEF RowsInv, EnrollInv, Writing, ActiveOf, Active
  <2>5. CancelInv(w)'
    BY <1>1, <2>1, <2>2 DEF RowsInv, CancelInv, Writing, ActiveOf, Active
  <2>6. row = [seen[w] EXCEPT !.seats_taken = @ + SeatDelta(req[w].op)]
    BY <1>2 DEF row
  <2>7. WriteInv(w)'
    BY <1>1, <1>4, <2>1, <2>2, <2>6 DEF RowsInv, WriteInv, Writing, ChecksHold
  <2>8. Writing(w, "enroll")' => Writing(w, "enroll")
    BY <1>1, <2>1 DEF Writing
  <2> QED
    BY <1>1, <2>1, <2>2, <2>3, <2>4, <2>5, <2>7, <2>8, ReadStepQED DEF BookerInv
<1> QED
  BY <1>3, <1>4

(* Destroy plans to delete enrollments of its own event only.               *)
LEMMA DeleteEnrollmentsStep ==
    ASSUME TypeInv, RowsInv, NEW w \in Workers, DeleteEnrollments(w)
    PROVE  RowsInv'
<1>1. /\ OnlyMoves(w) /\ nextId \in Nat
      /\ UNCHANGED <<event, allocated, enrollments, nextId, lock, req, seen>>
      /\ pc'[w] = "erase" /\ pc[w] = "purge" /\ req[w].op = "destroy"
      /\ tx'[w].row = Clean /\ tx'[w].new = {}
      /\ tx'[w].old = {r \in enrollments : r.event = req[w].event}
      /\ ~RowLocked(w, tx'[w].old)
  BY DEF TypeInv, TypeOK, RequestInv, DeleteEnrollments, OnlyMoves, dbVars, GoTo
<1>2. BookerInv(w)' /\ ~Writing(w, "enroll")'
  BY <1>1 DEF RowsInv, BookerInv, LockInv, Booking, EnrollInv, CancelInv,
              WriteInv, Writing
<1>3. /\ tx'[w].old \subseteq enrollments
      /\ \A v \in Workers \ {w} : tx'[w].old \cap tx[v].old = {}
  BY <1>1 DEF RowLocked
<1> QED
  BY <1>1, <1>2, <1>3, ReadStepQED

(* Destroy takes the event's lock, so no booking is under way there.        *)
LEMMA DeleteEventStep ==
    ASSUME TypeInv, RowsInv, NEW w \in Workers, DeleteEvent(w)
    PROVE  RowsInv'
<1> DEFINE e == req[w].event
<1>1. /\ e \in Events /\ pc[w] = "erase" /\ req[w].op = "destroy"
      /\ nextId \in Nat
      /\ UNCHANGED <<event, allocated, enrollments, nextId, req, seen, found>>
      /\ pc'[w] = "commit"
  BY RequestFacts DEF TypeInv, TypeOK, RequestInv, DeleteEvent, dbVars, GoTo
<1>2. \/ event[e] = NoRow /\ UNCHANGED <<lock, tx>>
      \/ TakeLock(w) /\ tx' = [tx EXCEPT ![w].row = NoRow]
  BY DEF DeleteEvent
<1>3. OnlyMoves(w) /\ tx'[w].new = tx[w].new /\ tx'[w].old = tx[w].old
  BY <1>1, <1>2 DEF TypeInv, TypeOK, OnlyMoves, TakeLock, GoTo, DeleteEvent, EventFree
<1>4. \/ tx'[w].row = NoRow /\ lock'[e] = w
      \/ tx'[w].old = {} /\ tx'[w].row = tx[w].row
  <2>1. \A r \in tx[w].old : r \in enrollments /\ r.event = e
    BY <1>1 DEF RowsInv, WriteInv, RowLocksInv
  <2>2. event[e] = NoRow => tx[w].old = {}
    BY <2>1 DEF RowsInv, NoOrphans
  <2> QED
    BY <1>1, <1>2, <2>2 DEF TypeInv, TypeOK, TakeLock
<1>5. tx[w].row = Clean
  BY <1>1 DEF RowsInv, WriteInv
<1>6. BookerInv(w)' /\ ~Writing(w, "enroll")'
  BY <1>1, <1>3, <1>4, <1>5
  DEF RowsInv, BookerInv, LockInv, Booking, EnrollInv, CancelInv, WriteInv, Writing
<1> QED
  BY <1>1, <1>3, <1>6, ReadStepQED

(* An aborted transaction has published nothing.                            *)
LEMMA DeadlockAbortStep ==
    ASSUME TypeInv, RowsInv, NEW w \in Workers, DeadlockAbort(w)
    PROVE  RowsInv'
<1>1. /\ Return(w, "server_error") /\ pc[w] # "idle"
      /\ UNCHANGED <<event, allocated, enrollments, nextId>>
      /\ nextId \in Nat
  BY DEF TypeInv, TypeOK, DeadlockAbort, WaitsFor, dbVars
<1> QED
  BY <1>1, ReturnStep

(* A new event has no enrollments and a counter of zero.                    *)
LEMMA CreateStep ==
    ASSUME TypeInv, RowsInv, NEW w \in Workers, NEW r0 \in Request, Create(w, r0)
    PROVE  RowsInv' /\ (SeatsAccurate => SeatsAccurate')
<1>0. PICK e \in Events, c \in Capacities : e = r0.event /\ c = r0.capacity
  BY RequestFacts DEF Create
<1> USE <1>0
<1> DEFINE row == [capacity |-> c, seats_taken |-> 0]
<1>1. /\ e \notin allocated /\ event[e] = NoRow
      /\ allocated' = allocated \cup {e}
      /\ event' = [event EXCEPT ![e] = row]
      /\ UNCHANGED <<enrollments, nextId, lock, found, tx>>
      /\ pc'[w] = "respond" /\ req'[w].event = e /\ pc[w] = "idle"
      /\ \A v \in Workers \ {w} : pc'[v] = pc[v] /\ req'[v] = req[v] /\ seen'[v] = seen[v]
  BY DEF TypeInv, TypeOK, RowsInv, IdsInv, Create, FreshId
<1>2. row \in Row /\ ChecksHold(row) /\ row # NoRow
  BY CapacitiesAssumption, NullsAssumption DEF Row, Capacity, ChecksHold
<1>3. Cardinality(Active(e)) = 0
  <2>1. Active(e) = {}
    BY <1>1 DEF RowsInv, NoOrphans, Active
  <2> QED
    BY <2>1, FS_EmptySet
<1>4. \A x \in Events : Active(x)' = Active(x)
  BY <1>1 DEF Active
<1>5. TablesInv'
  <2>1. IsFiniteSet(enrollments)' /\ NoOrphans' /\ OneActivePerSeeker'
    BY <1>1, <1>2 DEF TypeInv, TypeOK, RowsInv, NoOrphans, OneActivePerSeeker,
                      Enrollment
  <2>2. IdsInv'
    BY <1>1 DEF TypeInv, TypeOK, RowsInv, IdsInv
  <2>4. ConstraintsHold'
    <3> HIDE DEF row
    <3> QED
      BY <1>1, <1>2 DEF TypeInv, TypeOK, RowsInv, ConstraintsHold
  <2> QED
    BY <2>1, <2>2, <2>4 DEF TablesInv
<1>6. ASSUME NEW v \in Workers \ {w} PROVE BookerInv(v)'
  <2>1. pc[v] # "idle" => req[v].event \in Events
    BY RequestFacts DEF TypeInv, RequestInv
  <2>2. pc[v] # "idle" => req[v].event # e /\ event'[req[v].event] = event[req[v].event]
    BY <1>1, <2>1 DEF TypeInv, TypeOK, RowsInv, WriteInv
  <2>3. LockInv(v)' /\ CancelInv(v)' /\ EnrollInv(v)'
    BY <1>1, <2>2 DEF RowsInv, LockInv, CancelInv, EnrollInv, Booking, Writing,
                      ActiveOf, Active
  <2>4. WriteInv(v)'
    BY <1>1, <2>2 DEF RowsInv, WriteInv, Writing, ChecksHold
  <2> QED
    BY <2>3, <2>4 DEF BookerInv
<1>9. BookerInv(w)'
  BY <1>1 DEF BookerInv, LockInv, Booking, EnrollInv, CancelInv, WriteInv, Writing
<1>7. FreshIdsInv' /\ RowLocksInv'
  BY <1>1 DEF RowsInv, FreshIdsInv, RowLocksInv, Writing
<1>8. SeatsAccurate => SeatsAccurate'
  BY <1>1, <1>3, <1>4 DEF TypeInv, TypeOK, SeatsAccurate
<1> QED
  BY <1>5, <1>6, <1>7, <1>8, <1>9 DEF RowsInv, TablesInv, BookerInv

(* A commit that publishes nothing: destroy found its event already gone.  *)
LEMMA CommitNothing ==
    ASSUME TypeInv, RowsInv, NEW w \in Workers, Commit(w),
           req[w].op = "destroy", tx[w].row = Clean
    PROVE  RowsInv' /\ (SeatsAccurate => SeatsAccurate')
<1>1. pc[w] = "commit" /\ tx[w].new = {} /\ tx[w].old = {}
  BY NullsAssumption DEF RowsInv, WriteInv, Writing, Commit
<1>2. (enrollments \ tx[w].old) \cup tx[w].new = enrollments
  BY <1>1
<1>3. ~LeavesOrphans(w, enrollments)
  BY DEF RowsInv, NoOrphans, LeavesOrphans
<1>4. Return(w, OkReply(req[w].op)) /\ UNCHANGED dbVars /\ nextId \in Nat
  BY <1>2, <1>3 DEF Commit, dbVars, TypeInv, TypeOK
<1> QED
  BY <1>1, <1>4, ReturnStep DEF dbVars, SeatsAccurate, Active

(* A refused commit.                                                       *)
LEMMA CommitRefused ==
    ASSUME TypeInv, RowsInv, NEW w \in Workers, Commit(w),
           LeavesOrphans(w, (enrollments \ tx[w].old) \cup tx[w].new)
    PROVE  RowsInv' /\ (SeatsAccurate => SeatsAccurate')
<1>1. /\ Return(w, "server_error") /\ pc[w] # "idle"
      /\ UNCHANGED <<event, allocated, enrollments, nextId>>
      /\ nextId \in Nat
  BY DEF TypeInv, TypeOK, Commit
<1> QED
  BY <1>1, ReturnStep DEF SeatsAccurate, Active

(* A transaction that publishes its event row e, or a save, leaves the     *)
(* requests on other events alone, and on e there is no booking.           *)
LEMMA CommitOthers ==
    ASSUME TypeInv, RowsInv, NEW w \in Workers, pc[w] # "idle", NEW code, Return(w, code),
           \A v \in Workers \ {w} : lock[req[w].event] # v,
           UNCHANGED <<allocated, nextId>>,
           NEW row, event' = [event EXCEPT ![req[w].event] = row],
           NEW kept, enrollments' = kept,
           \A r \in enrollments : r.event # req[w].event => r \in kept,
           \A r \in kept : r.event # req[w].event => r \in enrollments,
           \A r \in kept : \/ \E q \in enrollments : q.id = r.id
                           \/ Writing(w, "enroll") /\ r \in tx[w].new,
           enrollments \ tx[w].old \subseteq kept
    PROVE  (\A v \in Workers : BookerInv(v)') /\ FreshIdsInv' /\ RowLocksInv'
<1> DEFINE e == req[w].event
<1>1. pc'[w] = "respond" /\ req'[w] = req[w]
  BY DEF TypeInv, TypeOK, Return
<1>2. ASSUME NEW v \in Workers \ {w} PROVE BookerInv(v)'
  <2> DEFINE x == req[v].event
  <2>1. /\ pc'[v] = pc[v] /\ req'[v] = req[v] /\ seen'[v] = seen[v]
        /\ found'[v] = found[v] /\ tx'[v] = tx[v]
    BY DEF TypeInv, TypeOK, Return, Release
  <2>2. pc[v] # "idle" => x \in Events
    BY RequestFacts DEF TypeInv, RequestInv
  <2>3. pc[v] # "idle" /\ lock[x] = v => lock'[x] = v
    BY <2>2 DEF Return, Release
  <2>4. Booking(v) => x # e
    BY DEF RowsInv, LockInv
  <2>5. ASSUME NEW y \in Events, y # e
        PROVE  event'[y] = event[y] /\ Active(y)' = Active(y)
    BY <2>5 DEF TypeInv, TypeOK, Active
  <2>6. Booking(v) => x \in Events
    BY <2>2 DEF Booking
  <2>7. LockInv(v)'
    <3>1. Booking(v)' => Booking(v)
      BY <2>1 DEF Booking
    <3>2. Booking(v) => /\ event[x] # NoRow /\ lock[x] = v /\ seen[v] = event[x]
                        /\ pc[v] # "idle"
      BY DEF RowsInv, LockInv, Booking
    <3> QED
      BY <2>1, <2>3, <2>4, <2>5, <2>6, <3>1, <3>2 DEF LockInv
  <2>8. CancelInv(v)'
    BY <2>1, <2>4, <2>5, <2>6 DEF RowsInv, CancelInv, Booking, Writing, ActiveOf
  <2>9. EnrollInv(v)'
    <3>1. pc[v] = "insert" \/ Writing(v, "enroll")
            => ActiveOf(req[v].event, req[v].seeker)' = {}
      BY <2>1, <2>4, <2>5, <2>6 DEF RowsInv, EnrollInv, Booking, Writing, ActiveOf
    <3>2. ASSUME Writing(v, "enroll"), NEW r \in tx[v].new, NEW q \in kept,
                 \A p \in enrollments : p.id # r.id
          PROVE  q.id # r.id
      <4>1. CASE \E p \in enrollments : p.id = q.id
        BY <3>2, <4>1
      <4>2. CASE Writing(w, "enroll") /\ q \in tx[w].new
        BY <3>2, <4>2 DEF RowsInv, FreshIdsInv
      <4> QED
        BY <4>1, <4>2
    <3> QED
      BY <2>1, <3>1, <3>2 DEF RowsInv, EnrollInv, Writing
  <2>10. WriteInv(v)'
    BY <2>1, <2>2, <2>3, SMTT(40) DEF RowsInv, WriteInv, Writing, ChecksHold
  <2> QED
    BY <2>7, <2>8, <2>9, <2>10 DEF BookerInv
<1>3. BookerInv(w)' /\ ~Writing(w, "enroll")'
  BY <1>1, Responding
<1>4. FreshIdsInv'
  BY <1>3 DEF TypeInv, TypeOK, RowsInv, FreshIdsInv, Return, Release, Writing
<1>5. RowLocksInv'
  BY DEF TypeInv, TypeOK, RowsInv, RowLocksInv, Return, Release, EmptyTx
<1> QED
  BY <1>2, <1>3, <1>4, <1>5

(* Enroll publishes one row and one more seat taken, together.              *)
EnrollEffect(w, e, row, r) ==
    /\ e = req[w].event /\ e \in allocated /\ lock[e] = w
    /\ event[e] \in Row /\ Writing(w, "enroll")
    /\ row.seats_taken = event[e].seats_taken + 1
    /\ row.capacity = event[e].capacity /\ ChecksHold(row)
    /\ r.event = e /\ r.seeker = req[w].seeker
    /\ r.status = "enrolled" /\ r.id < nextId
    /\ \A q \in enrollments : q.id # r.id
    /\ ActiveOf(e, req[w].seeker) = {}
    /\ tx[w].new = {r} /\ tx[w].old = {}
    /\ Return(w, "enrolled") /\ UNCHANGED <<allocated, nextId>>
    /\ event' = [event EXCEPT ![e] = row]
    /\ enrollments' = enrollments \cup {r}

LEMMA EnrollCommits ==
    ASSUME TypeInv, RowsInv, NEW w \in Workers, Commit(w),
           req[w].op = "enroll"
    PROVE  \E e \in Events, row \in Row, r \in Enrollment : EnrollEffect(w, e, row, r)
<1>0. PICK e \in Events : e = req[w].event
  BY RequestFacts DEF TypeInv, RequestInv, Commit
<1> USE <1>0
<1> DEFINE s == req[w].seeker
           row == tx[w].row
<1>1. /\ pc[w] = "commit" /\ e \in Events /\ e \in allocated
      /\ Writing(w, "enroll") /\ Booking(w)
  BY RequestFacts DEF TypeInv, RequestInv, RowsInv, WriteInv, Commit, Writing, Booking
<1>2. event[e] # NoRow /\ lock[e] = w /\ seen[w] = event[e] /\ event[e] \in Row
  BY <1>1 DEF TypeInv, TypeOK, RowsInv, LockInv
<1>3. /\ row = [seen[w] EXCEPT !.seats_taken = @ + 1] /\ ChecksHold(row)
  BY <1>1 DEF RowsInv, WriteInv, SeatDelta
<1>4. /\ row \in Row /\ row.seats_taken = event[e].seats_taken + 1
      /\ row.capacity = event[e].capacity
  BY <1>2, <1>3 DEF Row
<1>5. row # NoRow /\ row # Clean
  BY <1>4, NullsAssumption
<1>6. PICK r \in tx[w].new :
           /\ tx[w].new = {r}
           /\ r.event = e /\ r.seeker = s
           /\ r.status = "enrolled" /\ r.id < nextId
           /\ \A q \in enrollments : q.id # r.id
  BY <1>1 DEF RowsInv, EnrollInv
<1>7. r \in Enrollment /\ ActiveOf(e, s) = {} /\ tx[w].old = {}
  BY <1>1 DEF TypeInv, TypeOK, RowsInv, EnrollInv
<1> DEFINE after == enrollments \cup {r}
<1>8. /\ Return(w, "enrolled") /\ UNCHANGED <<allocated, nextId>>
      /\ event' = [event EXCEPT ![e] = row] /\ enrollments' = after
  <2>1. (enrollments \ tx[w].old) \cup tx[w].new = after
    BY <1>6, <1>7
  <2>2. ~LeavesOrphans(w, after)
    BY <1>2, <1>5 DEF LeavesOrphans
  <2> QED
    BY <1>5, <2>1, <2>2 DEF Commit, OkReply
<1> HIDE DEF row
<1> QED
  BY <1>1, <1>2, <1>3, <1>4, <1>6, <1>7, <1>8 DEF EnrollEffect

LEMMA CommitEnroll ==
    ASSUME TypeInv, RowsInv, NEW w \in Workers, Commit(w),
           req[w].op = "enroll"
    PROVE  RowsInv' /\ (SeatsAccurate => SeatsAccurate')
<1>1. PICK e \in Events, row \in Row, r \in Enrollment : EnrollEffect(w, e, row, r)
  BY EnrollCommits
<1> USE DEF EnrollEffect
<1>2. row # NoRow /\ event[e] # NoRow /\ pc[w] # "idle"
  BY <1>1, NullsAssumption DEF Commit
<1> DEFINE after == enrollments \cup {r}
<1>3. (\A v \in Workers : BookerInv(v)') /\ FreshIdsInv' /\ RowLocksInv'
  <2>1. \A q \in after : \/ \E p \in enrollments : p.id = q.id
                         \/ Writing(w, "enroll") /\ q \in tx[w].new
    BY <1>1, <1>2
  <2>2. \A q \in after : q.event # e => q \in enrollments
    BY <1>1, <1>2
  <2>3. \A q \in enrollments : q.event # e => q \in after
    OBVIOUS
  <2>4. enrollments \ tx[w].old \subseteq after
    OBVIOUS
  <2> HIDE DEF after
  <2>5. /\ pc[w] # "idle" /\ Return(w, "enrolled") /\ lock[req[w].event] = w
        /\ UNCHANGED <<allocated, nextId>>
        /\ event' = [event EXCEPT ![req[w].event] = row] /\ enrollments' = after
    BY <1>1, <1>2 DEF after
  <2>6. e = req[w].event
    BY <1>1
  <2> HIDE DEF EnrollEffect
  <2> QED
    BY <2>1, <2>2, <2>3, <2>4, <2>5, <2>6, CommitOthers
<1>4. TablesInv'
  <2>1. IsFiniteSet(enrollments)' /\ IsFiniteSet(enrollments)
    BY <1>1, <1>2, FS_AddElement DEF RowsInv
  <2>2. IdsInv'
    BY <1>1, <1>2 DEF TypeInv, TypeOK, RowsInv, IdsInv
  <2>3. NoOrphans'
    BY <1>1, <1>2 DEF TypeInv, TypeOK, RowsInv, NoOrphans, Enrollment
  <2>4. OneActivePerSeeker'
    BY <1>1, <1>2 DEF RowsInv, OneActivePerSeeker, ActiveOf, Active
  <2>5. ConstraintsHold'
    BY <1>1, <1>2 DEF TypeInv, TypeOK, RowsInv, ConstraintsHold
  <2> QED
    BY <2>1, <2>2, <2>3, <2>4, <2>5 DEF TablesInv
<1>5. SeatsAccurate => SeatsAccurate'
  <2> SUFFICES ASSUME SeatsAccurate PROVE SeatsAccurate'
    OBVIOUS
  <2>0. IsFiniteSet(enrollments)
    BY DEF RowsInv
  <2>1. Active(e)' = Active(e) \cup {r} /\ r \notin Active(e)
    BY <1>1, <1>2 DEF Active
  <2>2. IsFiniteSet(Active(e))
    <3>1. Active(e) \subseteq enrollments
      BY DEF Active
    <3> QED
      BY <2>0, <3>1, FS_Subset
  <2>3. Cardinality(Active(e))' = Cardinality(Active(e)) + 1
    BY <2>1, <2>2, FS_AddElement
  <2>4. event'[e].seats_taken = Cardinality(Active(e))'
    BY <1>1, <1>2, <2>3 DEF TypeInv, TypeOK, SeatsAccurate
  <2>5. ASSUME NEW x \in Events, x # e
        PROVE  event'[x] = event[x] /\ Active(x)' = Active(x)
    BY <1>1, <1>2, <2>5 DEF TypeInv, TypeOK, Active
  <2> QED
    BY <2>4, <2>5 DEF SeatsAccurate
<1> QED
  BY <1>3, <1>4, <1>5 DEF RowsInv, TablesInv, BookerInv

(* Cancel publishes one canceled row and one seat fewer, together.          *)
CancelEffect(w, e, row, r, q0) ==
    /\ e = req[w].event /\ e \in allocated /\ lock[e] = w
    /\ event[e] \in Row /\ Writing(w, "cancel")
    /\ row.seats_taken = event[e].seats_taken - 1
    /\ row.capacity = event[e].capacity /\ ChecksHold(row)
    /\ r \in ActiveOf(e, req[w].seeker)
    /\ r \in enrollments /\ r.event = e /\ r.status = "enrolled"
    /\ q0.event = e /\ q0.id = r.id /\ q0.status = "canceled"
    /\ q0.seeker = r.seeker
    /\ tx[w].old = {r} /\ tx[w].new = {q0}
    /\ Return(w, "canceled") /\ UNCHANGED <<allocated, nextId>>
    /\ event' = [event EXCEPT ![e] = row]
    /\ enrollments' = (enrollments \ {r}) \cup {q0}

LEMMA CancelCommits ==
    ASSUME TypeInv, RowsInv, NEW w \in Workers, Commit(w),
           req[w].op = "cancel"
    PROVE  \E e \in Events, row \in Row, r, q0 \in Enrollment :
               CancelEffect(w, e, row, r, q0)
<1>0. PICK e \in Events : e = req[w].event
  BY RequestFacts DEF TypeInv, RequestInv, Commit
<1> USE <1>0
<1> DEFINE s == req[w].seeker
           row == tx[w].row
<1>1. /\ pc[w] = "commit" /\ e \in Events /\ e \in allocated
      /\ Writing(w, "cancel") /\ Booking(w)
  BY RequestFacts DEF TypeInv, RequestInv, RowsInv, WriteInv, Commit, Writing, Booking
<1>2. event[e] # NoRow /\ lock[e] = w /\ seen[w] = event[e] /\ event[e] \in Row
  BY <1>1 DEF TypeInv, TypeOK, RowsInv, LockInv
<1>3. /\ row = [seen[w] EXCEPT !.seats_taken = @ + (-1)] /\ ChecksHold(row)
  BY <1>1 DEF RowsInv, WriteInv, SeatDelta
<1>4. /\ row \in Row /\ row.seats_taken = event[e].seats_taken - 1
      /\ row.capacity = event[e].capacity
  BY <1>2, <1>3 DEF Row
<1>5. row # NoRow /\ row # Clean
  BY <1>4, NullsAssumption
<1>6. PICK r \in ActiveOf(e, s) : tx[w].old = {r} /\ tx[w].new = {Canceled(r)}
  BY <1>1 DEF RowsInv, CancelInv
<1> DEFINE q0 == Canceled(r)
           after == (enrollments \ {r}) \cup {q0}
<1>7. /\ r \in enrollments /\ r \in Enrollment
      /\ r.event = e /\ r.seeker = s /\ r.status = "enrolled"
  BY <1>6 DEF TypeInv, TypeOK, ActiveOf, Active
<1>8. /\ q0 \in Enrollment /\ q0.event = e /\ q0.id = r.id /\ q0.status = "canceled"
      /\ q0.seeker = s
  BY <1>7 DEF Canceled, Enrollment
<1> HIDE DEF q0
<1>9. /\ Return(w, "canceled") /\ UNCHANGED <<allocated, nextId>>
      /\ event' = [event EXCEPT ![e] = row] /\ enrollments' = after
  <2>1. (enrollments \ tx[w].old) \cup tx[w].new = after
    BY <1>6 DEF q0
  <2>2. ~LeavesOrphans(w, after)
    BY <1>2, <1>5 DEF LeavesOrphans
  <2> QED
    BY <1>5, <2>1, <2>2 DEF Commit, OkReply
<1> HIDE DEF row
<1>10. r \in ActiveOf(e, s) /\ q0 \in Enrollment /\ tx[w].new = {q0}
  BY <1>6, <1>8 DEF q0
<1> QED
  BY <1>1, <1>2, <1>3, <1>4, <1>6, <1>7, <1>8, <1>9, <1>10 DEF CancelEffect

LEMMA CommitCancel ==
    ASSUME TypeInv, RowsInv, NEW w \in Workers, Commit(w),
           req[w].op = "cancel"
    PROVE  RowsInv' /\ (SeatsAccurate => SeatsAccurate')
<1>1. PICK e \in Events, row \in Row, r \in Enrollment, q0 \in Enrollment :
               CancelEffect(w, e, row, r, q0)
  BY CancelCommits
<1> USE DEF CancelEffect
<1>2. row # NoRow /\ event[e] # NoRow /\ pc[w] # "idle"
  BY <1>1, NullsAssumption DEF Commit
<1> DEFINE after == (enrollments \ {r}) \cup {q0}
<1>3. (\A v \in Workers : BookerInv(v)') /\ FreshIdsInv' /\ RowLocksInv'
  <2>1. \A q \in after : \/ \E p \in enrollments : p.id = q.id
                         \/ Writing(w, "enroll") /\ q \in tx[w].new
    BY <1>1, <1>2
  <2>2. \A q \in after : q.event # e => q \in enrollments
    BY <1>1, <1>2
  <2>3. \A q \in enrollments : q.event # e => q \in after
    BY <1>1, <1>2
  <2>4. enrollments \ tx[w].old \subseteq after
    BY <1>1, <1>2
  <2> HIDE DEF after
  <2>5. /\ pc[w] # "idle" /\ Return(w, "canceled") /\ lock[req[w].event] = w
        /\ UNCHANGED <<allocated, nextId>>
        /\ event' = [event EXCEPT ![req[w].event] = row] /\ enrollments' = after
    BY <1>1, <1>2 DEF after
  <2>6. e = req[w].event
    BY <1>1
  <2> HIDE DEF CancelEffect
  <2> QED
    BY <2>1, <2>2, <2>3, <2>4, <2>5, <2>6, CommitOthers
<1>4. TablesInv'
  <2>1. IsFiniteSet(enrollments)' /\ IsFiniteSet(enrollments)
    BY <1>1, <1>2, FS_AddElement, FS_RemoveElement DEF RowsInv
  <2>2. IdsInv'
    BY <1>1, <1>2 DEF TypeInv, TypeOK, RowsInv, IdsInv
  <2>3. NoOrphans'
    BY <1>1, <1>2 DEF TypeInv, TypeOK, RowsInv, NoOrphans, Enrollment
  <2>4. OneActivePerSeeker'
    BY <1>1, <1>2 DEF RowsInv, OneActivePerSeeker
  <2>5. ConstraintsHold'
    BY <1>1, <1>2 DEF TypeInv, TypeOK, RowsInv, ConstraintsHold
  <2> QED
    BY <2>1, <2>2, <2>3, <2>4, <2>5 DEF TablesInv
<1>5. SeatsAccurate => SeatsAccurate'
  <2> SUFFICES ASSUME SeatsAccurate PROVE SeatsAccurate'
    OBVIOUS
  <2>0. IsFiniteSet(enrollments)
    BY DEF RowsInv
  <2>1. Active(e)' = Active(e) \ {r} /\ r \in Active(e)
    BY <1>1, <1>2 DEF Active
  <2>2. IsFiniteSet(Active(e))
    <3>1. Active(e) \subseteq enrollments
      BY DEF Active
    <3> QED
      BY <2>0, <3>1, FS_Subset
  <2>3. Cardinality(Active(e))' = Cardinality(Active(e)) - 1
    BY <2>1, <2>2, FS_RemoveElement
  <2>4. event'[e].seats_taken = Cardinality(Active(e))'
    BY <1>1, <1>2, <2>3 DEF TypeInv, TypeOK, SeatsAccurate
  <2>5. ASSUME NEW x \in Events, x # e
        PROVE  event'[x] = event[x] /\ Active(x)' = Active(x)
    BY <1>1, <1>2, <2>5 DEF TypeInv, TypeOK, Active
  <2> QED
    BY <2>4, <2>5 DEF SeatsAccurate
<1> QED
  BY <1>3, <1>4, <1>5 DEF RowsInv, TablesInv, BookerInv

(* Destroy publishes no event and leaves no enrollment behind.              *)
LEMMA CommitDestroy ==
    ASSUME TypeInv, RowsInv, NEW w \in Workers, Commit(w),
           req[w].op = "destroy"
    PROVE  RowsInv' /\ (SeatsAccurate => SeatsAccurate')
<1> DEFINE e == req[w].event
           after == (enrollments \ tx[w].old) \cup tx[w].new
<1>1. /\ pc[w] = "commit" /\ e \in Events /\ e \in allocated
      /\ Writing(w, "destroy") /\ tx[w].new = {}
      /\ \A r \in tx[w].old : r.event = e
  BY RequestFacts DEF TypeInv, RequestInv, RowsInv, WriteInv, Commit, Writing
<1>2. CASE tx[w].row = Clean
  BY <1>2, CommitNothing
<1>3. CASE LeavesOrphans(w, after)
  BY <1>3, CommitRefused
<1>4. CASE tx[w].row # Clean /\ ~LeavesOrphans(w, after)
  <2>1. tx[w].row = NoRow /\ lock[e] = w
    BY <1>1, <1>4 DEF RowsInv, WriteInv
  <2>2. /\ Return(w, "destroyed") /\ UNCHANGED <<allocated, nextId>>
        /\ event' = [event EXCEPT ![e] = NoRow] /\ enrollments' = after
    BY <1>4, <2>1 DEF Commit, OkReply
  <2>3. \A r \in after : r.event # e
    BY <1>4, <2>1 DEF LeavesOrphans
  <2>4. after \subseteq enrollments
    BY <1>1
  <2>5. (\A v \in Workers : BookerInv(v)') /\ FreshIdsInv' /\ RowLocksInv'
    <3>1. \A r \in after : \/ \E p \in enrollments : p.id = r.id
                           \/ Writing(w, "enroll") /\ r \in tx[w].new
      BY <2>4
    <3>2. \A r \in enrollments : r.event # e => r \in after
      BY <1>1
    <3>3. \A r \in after : r.event # e => r \in enrollments
      BY <2>4
    <3>4. enrollments \ tx[w].old \subseteq after
      OBVIOUS
    <3> HIDE DEF after
    <3> QED
      BY <1>1, <2>1, <2>2, <3>1, <3>2, <3>3, <3>4, CommitOthers
  <2> HIDE DEF after
  <2>6. TablesInv'
    <3>1. IsFiniteSet(enrollments)'
      BY <2>2, <2>4, FS_Subset DEF RowsInv
    <3>2. IdsInv'
      BY <1>1, <2>2, <2>4 DEF TypeInv, TypeOK, RowsInv, IdsInv
    <3>3. NoOrphans' /\ OneActivePerSeeker' /\ ConstraintsHold'
      BY <1>1, <2>2, <2>3, <2>4
      DEF TypeInv, TypeOK, RowsInv, NoOrphans, OneActivePerSeeker,
          ConstraintsHold, Enrollment
    <3> QED
      BY <3>1, <3>2, <3>3 DEF TablesInv
  <2>7. SeatsAccurate => SeatsAccurate'
    <3>1. event'[e] = NoRow
      BY <1>1, <2>2 DEF TypeInv, TypeOK
    <3>2. ASSUME NEW x \in Events, x # e
          PROVE  event'[x] = event[x] /\ Active(x)' = Active(x)
      BY <1>1, <2>2, <3>2 DEF TypeInv, TypeOK, Active, after
    <3> QED
      BY <3>1, <3>2 DEF SeatsAccurate
  <2> QED
    BY <2>5, <2>6, <2>7 DEF RowsInv, TablesInv, BookerInv
<1> QED
  BY <1>2, <1>3, <1>4

-----------------------------------------------------------------------------
(* A patch that finds the row free overwrites it; every enrollment and      *)
(* every booking under way stays as it is.                                 *)
LEMMA SaveRowStep ==
    ASSUME TypeInv, RowsInv, NEW w \in Workers, pc[w] \in {"save", "reinsert"},
           EventFree(w), SaveRow(w), UNCHANGED <<allocated, enrollments, nextId>>
    PROVE  RowsInv'
<1>0. PICK e \in Events : e = req[w].event
  BY RequestFacts DEF TypeInv, RequestInv
<1> USE <1>0
<1>1. CASE ~ChecksHold(Patched(w))
  BY <1>1, ReturnStep DEF SaveRow, TypeInv, TypeOK
<1>2. CASE ChecksHold(Patched(w))
  <2>1. PICK row \in Row : row = Patched(w)
    <3>1. seen[w] \in Row /\ req[w].capacity \in Capacity
      BY RequestFacts, CapacitiesAssumption DEF TypeInv, TypeOK, RequestInv, Capacity
    <3> QED
      BY <3>1 DEF Patched, Row
  <2>2. /\ Return(w, "patched") /\ event' = [event EXCEPT ![e] = row]
        /\ row # NoRow /\ ChecksHold(row)
    BY <1>2, <2>1, NullsAssumption DEF SaveRow
  <2>3. \A v \in Workers \ {w} : lock[e] # v
    BY NullsAssumption DEF EventFree
  <2>4. (\A v \in Workers : BookerInv(v)') /\ FreshIdsInv' /\ RowLocksInv'
    BY <2>2, <2>3, CommitOthers
  <2>5. e \in allocated
    BY DEF RowsInv, WriteInv
  <2>6. IdsInv'
    BY <2>2, <2>5 DEF TypeInv, TypeOK, RowsInv, IdsInv
  <2>7. NoOrphans'
    BY <2>2 DEF TypeInv, TypeOK, RowsInv, NoOrphans, Enrollment
  <2>8. ConstraintsHold'
    BY <2>2 DEF TypeInv, TypeOK, RowsInv, ConstraintsHold
  <2>9. IsFiniteSet(enrollments)' /\ OneActivePerSeeker'
    BY DEF RowsInv, OneActivePerSeeker
  <2> QED
    BY <2>4, <2>6, <2>7, <2>8, <2>9 DEF RowsInv, BookerInv
<1> QED
  BY <1>1, <1>2

LEMMA SaveStep ==
    ASSUME TypeInv, RowsInv, NEW w \in Workers, SaveUpdate(w) \/ SaveInsert(w)
    PROVE  RowsInv'
<1>1. /\ pc[w] \in {"save", "reinsert"} /\ EventFree(w)
      /\ UNCHANGED <<allocated, enrollments, nextId>>
  BY DEF SaveUpdate, SaveInsert
<1>2. CASE SaveRow(w)
  BY <1>1, <1>2, SaveRowStep
<1>3. CASE Return(w, "server_error") /\ UNCHANGED event
  BY <1>1, <1>3, ReturnStep DEF TypeInv, TypeOK
<1>4. CASE /\ GoTo(w, "reinsert") /\ pc[w] = "save"
           /\ UNCHANGED <<event, lock, req, seen, found, tx>>
  <2>1. /\ OnlyMoves(w) /\ pc'[w] = "reinsert" /\ req'[w] = req[w]
        /\ nextId' \in Nat /\ nextId <= nextId' /\ tx'[w] = tx[w]
        /\ req[w].op = "patch"
    BY <1>1, <1>4 DEF TypeInv, TypeOK, RequestInv, OnlyMoves, GoTo
  <2>2. BookerInv(w)' /\ ~Writing(w, "enroll")'
    BY <1>1, <1>4, <2>1
    DEF RowsInv, BookerInv, LockInv, Booking, EnrollInv, CancelInv, WriteInv, Writing
  <2> QED
    BY <1>1, <1>4, <2>1, <2>2, ReadStepQED
<1> QED
  BY <1>2, <1>3, <1>4 DEF SaveUpdate, SaveInsert

-----------------------------------------------------------------------------
(* Every commit keeps the rows right, and the counter with them.            *)
LEMMA CommitStep ==
    ASSUME TypeInv, RowsInv, NEW w \in Workers, Commit(w)
    PROVE  RowsInv' /\ (SeatsAccurate => SeatsAccurate')
<1>1. req[w].op \in {"enroll", "cancel", "destroy"}
  BY RequestFacts DEF TypeInv, RequestInv, Commit
<1> QED
  BY <1>1, CommitEnroll, CommitCancel, CommitDestroy

(* RowsInv is inductive, patches included.                                 *)
LEMMA RowsStep == TypeInv /\ RowsInv /\ [Next]_vars => RowsInv'
<1> SUFFICES ASSUME TypeInv, RowsInv, [Next]_vars PROVE RowsInv'
  OBVIOUS
<1>1. ASSUME NEW w \in Workers, Respond(w) \/ Crash(w) PROVE RowsInv'
  BY <1>1, FinishStep DEF Respond, Crash
<1>2. CASE UNCHANGED vars
  BY <1>2 DEF vars, RowsInv, IdsInv, NoOrphans, OneActivePerSeeker,
              ConstraintsHold, ChecksHold, FreshIdsInv, RowLocksInv, LockInv,
              EnrollInv, CancelInv, WriteInv, Booking, Writing, ActiveOf, Active
<1> QED
  BY <1>1, <1>2, CommitStep, SaveStep, CreateStep, ReceiveStep,
     SelectForUpdateStep, CheckEnrollStep, InsertEnrollmentStep, FindActiveStep,
     MarkCanceledStep, CountSeatStep, DeleteEnrollmentsStep, DeleteEventStep,
     DeadlockAbortStep
  DEF Next, Step

(* What one worker may do.                                                 *)
Move(w) ==
    \/ \E r \in Request : Create(w, r) \/ Receive(w, r)
    \/ Step(w)
    \/ Crash(w)

(* Moves other than a commit and a patch's save write neither table, but    *)
(* for the row of a new event.                                             *)
LEMMA TablesChange ==
    ASSUME NEW w \in Workers, Move(w)
    PROVE  \/ UNCHANGED <<event, enrollments>>
           \/ \E r \in Request : Create(w, r)
           \/ Commit(w)
           \/ /\ pc[w] \in {"save", "reinsert"} /\ SaveRow(w) /\ EventFree(w)
              /\ UNCHANGED enrollments
<1>1. CASE SaveUpdate(w) \/ SaveInsert(w)
  BY <1>1 DEF SaveUpdate, SaveInsert
<1>2. CASE Respond(w) \/ Crash(w) \/ DeadlockAbort(w)
  BY <1>2 DEF Respond, Crash, DeadlockAbort, dbVars
<1>3. CASE \/ SelectForUpdate(w) \/ CheckEnroll(w) \/ InsertEnrollment(w)
           \/ FindActive(w) \/ MarkCanceled(w) \/ CountSeat(w)
           \/ DeleteEnrollments(w) \/ DeleteEvent(w)
  BY <1>3 DEF SelectForUpdate, CheckEnroll, InsertEnrollment, FindActive,
              MarkCanceled, CountSeat, DeleteEnrollments, DeleteEvent, dbVars
<1>4. ASSUME NEW r \in Request, Receive(w, r)
      PROVE  UNCHANGED <<event, enrollments>>
  BY <1>4 DEF Receive, dbVars
<1> QED
  BY <1>1, <1>2, <1>3, <1>4 DEF Move, Step

LEMMA SomeoneMoves ==
    ASSUME [Next]_vars
    PROVE  UNCHANGED vars \/ \E w \in Workers : Move(w)
  BY DEF Next, Move

-----------------------------------------------------------------------------
(* A worker's move leaves the requests of the others alone.                *)
LEMMA OthersStay ==
    ASSUME TypeInv, NEW v \in Workers, Move(v), NEW w \in Workers \ {v}
    PROVE  /\ pc'[w] = pc[w] /\ req'[w] = req[w] /\ seen'[w] = seen[w]
           /\ found'[w] = found[w] /\ tx'[w] = tx[w] /\ reply'[w] = reply[w]
<1> USE DEF TypeInv, TypeOK, GoTo
<1>1. ASSUME NEW code, Return(v, code)
      PROVE  /\ pc'[w] = pc[w] /\ req'[w] = req[w] /\ seen'[w] = seen[w]
             /\ found'[w] = found[w] /\ tx'[w] = tx[w] /\ reply'[w] = reply[w]
  BY <1>1 DEF Return, Release
<1>2. CASE Respond(v) \/ Crash(v) \/ \E r \in Request : Create(v, r) \/ Receive(v, r)
  <2>1. CASE Respond(v) \/ Crash(v)
    BY <2>1 DEF Respond, Crash, Finish, Release
  <2>2. ASSUME NEW r \in Request, Create(v, r) PROVE  UNCHANGED <<found, tx>>
    BY <2>2 DEF Create
  <2>3. ASSUME NEW r \in Request, Create(v, r)
        PROVE  /\ pc'[w] = pc[w] /\ req'[w] = req[w] /\ seen'[w] = seen[w]
               /\ reply'[w] = reply[w]
    BY <2>3 DEF Create
  <2>4. ASSUME NEW r \in Request, Receive(v, r)
        PROVE  /\ pc'[w] = pc[w] /\ req'[w] = req[w] /\ seen'[w] = seen[w]
               /\ found'[w] = found[w] /\ tx'[w] = tx[w] /\ reply'[w] = reply[w]
    BY <2>4 DEF Receive
  <2> QED
    BY <1>2, <2>1, <2>2, <2>3, <2>4
<1>3. CASE SelectForUpdate(v) \/ CheckEnroll(v) \/ FindActive(v)
  BY <1>1, <1>3 DEF SelectForUpdate, CheckEnroll, FindActive
<1>4. CASE InsertEnrollment(v) \/ MarkCanceled(v)
  BY <1>1, <1>4 DEF InsertEnrollment, MarkCanceled
<1>5. CASE CountSeat(v) \/ DeleteEnrollments(v) \/ DeleteEvent(v)
  BY <1>1, <1>5 DEF CountSeat, DeleteEnrollments, DeleteEvent
<1>6. CASE SaveUpdate(v) \/ SaveInsert(v) \/ Commit(v) \/ DeadlockAbort(v)
  BY <1>1, <1>6 DEF SaveUpdate, SaveInsert, SaveRow, Commit, DeadlockAbort
<1> QED
  BY <1>2, <1>3, <1>4, <1>5, <1>6 DEF Move, Step

-----------------------------------------------------------------------------
(* What a patch writes back is not stale where no other request runs on    *)
(* its event between its read and its save.                                *)
SaveInv(w) ==
    /\ pc[w] # "reinsert"
    /\ pc[w] = "save" => seen[w] = event[req[w].event]

SavesInv == SeatsAccurate /\ \A w \in Workers : SaveInv(w)

(* Its own statements ...                                                  *)
LEMMA OwnSaveStep ==
    ASSUME TypeInv, SavesInv, NEW w \in Workers, Move(w)
    PROVE  SaveInv(w)'
<1>1. ASSUME NEW code, Return(w, code) PROVE SaveInv(w)'
  BY <1>1 DEF TypeInv, TypeOK, Return, SaveInv
<1>2. ASSUME NEW r \in Request, Receive(w, r)
      PROVE  SaveInv(w)'
  <2>1. FirstStatement(r.op) # "reinsert" /\ r.event \in Events
    BY <1>2, RequestFacts, OpsAssumption DEF FirstStatement, Receive
  <2>2. /\ pc[w] = "idle" /\ UNCHANGED event
        /\ \/ pc' = pc
           \/ /\ pc'[w] = FirstStatement(r.op) /\ req'[w] = r
              /\ seen'[w] = event[r.event]
    BY <1>2, Received DEF dbVars
  <2> QED
    BY <2>1, <2>2 DEF SaveInv
<1>3. ASSUME NEW r \in Request, Create(w, r)
      PROVE  SaveInv(w)'
  BY <1>3 DEF TypeInv, TypeOK, SaveInv, Create
<1>4. ASSUME SaveUpdate(w) PROVE SaveInv(w)'
  <2>1. event[req[w].event] # NoRow
    BY <1>4 DEF TypeInv, RequestInv, SavesInv, SaveInv, SaveUpdate
  <2> QED
    BY <1>1, <1>4, <2>1 DEF SaveUpdate, SaveRow
<1>5. ASSUME \/ SelectForUpdate(w) \/ CheckEnroll(w) \/ InsertEnrollment(w)
             \/ FindActive(w) \/ MarkCanceled(w) \/ CountSeat(w)
             \/ DeleteEnrollments(w) \/ DeleteEvent(w)
      PROVE  SaveInv(w)'
  <2>1. \/ \E code : Return(w, code)
        \/ \E label : GoTo(w, label) /\ label \notin {"save", "reinsert"}
    BY <1>5
    DEF SelectForUpdate, CheckEnroll, InsertEnrollment, FindActive, MarkCanceled,
        CountSeat, DeleteEnrollments, DeleteEvent
  <2> QED
    BY <1>1, <2>1 DEF TypeInv, TypeOK, GoTo, SaveInv
<1>6. ASSUME Commit(w) \/ DeadlockAbort(w) \/ Respond(w) \/ Crash(w)
      PROVE  SaveInv(w)'
  BY <1>1, <1>6 DEF TypeInv, TypeOK, Commit, DeadlockAbort, Respond, Crash, Finish, SaveInv
<1>7. ~SaveInsert(w)
  BY DEF SavesInv, SaveInv, SaveInsert
<1> QED
  BY <1>2, <1>3, <1>4, <1>5, <1>6, <1>7 DEF Move, Step

(* ... and those of the others, which are at other events.                 *)
LEMMA SaveInvStep ==
    ASSUME PatchesApart, TypeInv, RowsInv, SavesInv, [Next]_vars, NEW w \in Workers
    PROVE  SaveInv(w)'
<1>1. CASE UNCHANGED vars
  BY <1>1 DEF SavesInv, SaveInv, vars
<1>2. CASE Move(w)
  BY <1>2, OwnSaveStep
<1>3. ASSUME NEW v \in Workers \ {w}, Move(v)
      PROVE  SaveInv(w)'
  <2>1. pc'[w] = pc[w] /\ req'[w] = req[w] /\ seen'[w] = seen[w]
    BY <1>3, OthersStay
  <2> SUFFICES ASSUME pc[w] = "save" PROVE event'[req[w].event] = event[req[w].event]
    BY <2>1 DEF SavesInv, SaveInv
  <2>2. req[w].event \in allocated /\ req[w].event \in Events
    BY RequestFacts DEF RowsInv, WriteInv, TypeInv, RequestInv
  <2>3. ASSUME NEW r \in Request, Create(v, r)
        PROVE  event'[req[w].event] = event[req[w].event]
    BY <2>2, <2>3 DEF TypeInv, TypeOK, Create, FreshId
  <2>4. CASE Commit(v) \/ (pc[v] \in {"save", "reinsert"} /\ SaveRow(v))
    <3>1. req[v].event # req[w].event
      BY <2>4 DEF PatchesApart, UnderWay, Commit
    <3>2. UNCHANGED event \/ \E row : event' = [event EXCEPT ![req[v].event] = row]
      BY <2>4 DEF Commit, SaveRow
    <3> QED
      BY <2>2, <3>1, <3>2 DEF TypeInv, TypeOK
  <2> QED
    BY <1>3, <2>3, <2>4, TablesChange
<1> QED
  BY <1>1, <1>2, <1>3, SomeoneMoves

(* A save that is not stale leaves the counter as it is.                   *)
LEMMA FreshSave ==
    ASSUME TypeInv, RowsInv, NEW w \in Workers, SaveInv(w), SaveRow(w),
           pc[w] \in {"save", "reinsert"}, ChecksHold(Patched(w))
    PROVE  /\ req[w].event \in Events /\ event[req[w].event] \in Row
           /\ req[w].op = "patch" /\ req[w].capacity \in Capacities
           /\ event' = [event EXCEPT ![req[w].event].capacity = req[w].capacity]
<1>1. /\ req[w].event \in Events /\ seen[w] \in Row
      /\ req[w].op = "patch" /\ req[w].capacity \in Capacities
      /\ seen[w] = event[req[w].event]
  BY RequestFacts DEF TypeInv, TypeOK, RequestInv, SaveInv
<1> QED
  BY <1>1 DEF TypeInv, TypeOK, SaveRow, Patched

(* Then the counter is right, too.                                         *)
LEMMA SeatsStep ==
    ASSUME PatchesApart, TypeInv, RowsInv, SavesInv, [Next]_vars
    PROVE  SavesInv'
<1>1. CASE UNCHANGED <<event, enrollments>>
  BY <1>1, SaveInvStep DEF SavesInv, SeatsAccurate, Active
<1>2. ASSUME NEW w \in Workers, pc[w] \in {"save", "reinsert"},
             SaveRow(w), UNCHANGED enrollments
      PROVE  SeatsAccurate'
  <2>1. CASE ~ChecksHold(Patched(w))
    BY <1>2, <2>1 DEF SaveRow, SavesInv, SeatsAccurate, Active
  <2>2. CASE ChecksHold(Patched(w))
    <3>0. /\ req[w].event \in Events /\ event[req[w].event] \in Row
          /\ event' = [event EXCEPT ![req[w].event].capacity = req[w].capacity]
      BY <1>2, <2>2, FreshSave DEF SavesInv
    <3>1. ASSUME NEW e \in Events
          PROVE  /\ event'[e] # NoRow => event[e] # NoRow
                 /\ event[e] # NoRow => event'[e].seats_taken = event[e].seats_taken
      BY <3>0, NullsAssumption DEF TypeInv, TypeOK, Row
    <3>2. \A e \in Events : Active(e)' = Active(e)
      BY <1>2 DEF Active
    <3> QED
      BY <3>1, <3>2 DEF SavesInv, SeatsAccurate
  <2> QED
    BY <2>1, <2>2
<1>3. CASE UNCHANGED vars
  BY <1>1, <1>3 DEF vars
<1> QED
  BY <1>1, <1>2, <1>3, SomeoneMoves, TablesChange, CommitStep, CreateStep,
     SaveInvStep
  DEF SavesInv

(* Rows, ids, locks and drafts fit together in every state, whatever        *)
(* enroll, cancel, create, patch, destroy and crashes interleave.          *)
THEOREM RowsInvariant == Spec => []RowsInv
<1>1. Init => TypeInv /\ RowsInv
  BY InitTypeInv, InitRowsInv
<1>2. TypeInv /\ RowsInv /\ [Next]_vars => (TypeInv /\ RowsInv)'
  BY TypeStep, RowsStep
<1> QED
  BY <1>1, <1>2, PTL DEF Spec

LEMMA InitSavesInv == Init => SavesInv
<1> SUFFICES ASSUME Init PROVE SavesInv
  OBVIOUS
<1> QED
  BY DEF Init, SavesInv, SaveInv, SeatsAccurate

(* The whole inductive invariant holds of every state where patches keep   *)
(* apart.                                                                  *)
LEMMA SavesInvariant == ApartSpec => [](TypeInv /\ RowsInv /\ SavesInv /\ PatchesApart)
<1>1. Init => TypeInv /\ RowsInv /\ SavesInv /\ PatchesApart
  BY InitTypeInv, InitRowsInv, InitSavesInv DEF Init, PatchesApart
<1>2. [Next /\ PatchesApart']_vars => [Next]_vars
  OBVIOUS
<1>3. PatchesApart /\ [Next /\ PatchesApart']_vars => PatchesApart'
  BY DEF vars, PatchesApart, UnderWay
<1>4. TypeInv /\ RowsInv /\ SavesInv /\ PatchesApart /\ [Next /\ PatchesApart']_vars
        => (TypeInv /\ RowsInv /\ SavesInv /\ PatchesApart)'
  BY <1>2, <1>3, TypeStep, RowsStep, SeatsStep
<1> QED
  BY <1>1, <1>4, PTL DEF ApartSpec

(* Patches keep apart where none is served, or one worker serves them all. *)
LEMMA AloneIsApart ==
    ASSUME "patch" \notin Ops \/ \A v, w \in Workers : v = w
    PROVE  Spec => ApartSpec
<1>1. TypeInv => PatchesApart
  <2>1. CASE "patch" \notin Ops
    <3>1. \A r \in Request : r.op # "patch"
      BY <2>1, RequestFacts
    <3> QED
      BY <3>1 DEF TypeInv, RequestInv, PatchesApart
  <2>2. CASE \A v, w \in Workers : v = w
    BY <2>2 DEF PatchesApart
  <2> QED
    BY <2>1, <2>2
<1>2. [Next]_vars /\ PatchesApart' => [Next /\ PatchesApart']_vars
  OBVIOUS
<1>3. Spec => []TypeInv
  BY InitTypeInv, TypeStep, PTL DEF Spec
<1> QED
  BY <1>1, <1>2, <1>3, PTL DEF Spec, ApartSpec

(* Rows and counters together are right where no PATCH overlaps another    *)
(* request on its event.                                                   *)
THEOREM BookingInvariant == ApartSpec => []BookingInv
<1>1. RowsInv /\ SavesInv => BookingInv
  BY DEF SavesInv, BookingInv
<1> QED
  BY <1>1, SavesInvariant, PTL

(* seats_taken is the number of active enrollments in every committed      *)
(* state, whatever enroll, cancel, create, destroy and crashes interleave, *)
(* as long as no PATCH overlaps another request on its event.              *)
THEOREM CounterIsAccurate == ApartSpec => []SeatsAccurate
<1>1. BookingInv => SeatsAccurate
  BY DEF BookingInv
<1> QED
  BY <1>1, BookingInvariant, PTL

(* Then no event is ever overbooked: an accurate counter kept under the    *)
(* capacity keeps the enrollments under it.                                *)
THEOREM EventsNeverOverbooked == ApartSpec => []NeverOverbooked
<1>1. BookingInv => NeverOverbooked
  <2> SUFFICES ASSUME BookingInv, NEW e \in Events,
                      event[e] # NoRow, event[e].capacity # Unlimited
               PROVE  Cardinality(Active(e)) <= event[e].capacity
    BY DEF NeverOverbooked
  <2>1. event[e].seats_taken = Cardinality(Active(e))
    BY DEF BookingInv, SeatsAccurate
  <2>2. event[e].seats_taken <= event[e].capacity
    BY DEF BookingInv, RowsInv, ConstraintsHold, ChecksHold
  <2> QED
    BY <2>1, <2>2
<1> QED
  BY <1>1, BookingInvariant, PTL

(* A seeker never holds two active enrollments of one event, and no        *)
(* enrollment outlives its event: not even a patch that writes a stale row *)
(* back, or inserts a destroyed event again, can bring that about.         *)
THEOREM RowsStayConsistent == Spec => [](OneActivePerSeeker /\ NoOrphans)
<1>1. RowsInv => OneActivePerSeeker /\ NoOrphans
  BY DEF RowsInv
<1> QED
  BY <1>1, RowsInvariant, PTL

-----------------------------------------------------------------------------
(* History is only added to: a row leaves the table with its event, or to  *)
(* come back canceled by its own seeker.  Patches cannot touch it.         *)
THEOREM HistoryIsKept == Spec => HistoryOnlyGrows
<1>1. TypeInv /\ RowsInv /\ [Next]_vars => HistoryStep
  <2> SUFFICES ASSUME TypeInv, RowsInv, [Next]_vars,
                      NEW r \in enrollments, r \notin enrollments'
               PROVE  \E w \in Workers :
                         /\ pc[w] = "commit" /\ req[w].event = r.event
                         /\ \/ req[w].op = "destroy" /\ event'[r.event] = NoRow
                            \/ /\ req[w].op = "cancel" /\ req[w].seeker = r.seeker
                               /\ r.status = "enrolled"
                               /\ [r EXCEPT !.status = "canceled"] \in enrollments'
    BY DEF HistoryStep
  <2>1. PICK w \in Workers : Commit(w)
    BY SomeoneMoves, TablesChange DEF Create, vars
  <2>2. /\ req[w].op \in {"enroll", "cancel", "destroy"}
        /\ req[w].event \in Events /\ pc[w] = "commit"
    BY <2>1, RequestFacts DEF TypeInv, RequestInv, Commit
  <2>3. /\ r \in tx[w].old
        /\ tx[w].new \subseteq enrollments'
        /\ event' = IF tx[w].row = Clean THEN event
                    ELSE [event EXCEPT ![req[w].event] = tx[w].row]
    BY <2>1 DEF Commit
  <2>4. req[w].op # "enroll"
    BY <2>2, <2>3 DEF RowsInv, EnrollInv, Writing
  <2>5. CASE req[w].op = "cancel"
    <3>1. /\ r \in ActiveOf(req[w].event, req[w].seeker)
          /\ Canceled(r) \in tx[w].new
      BY <2>2, <2>3, <2>5 DEF RowsInv, CancelInv, Writing
    <3> QED
      BY <2>2, <2>3, <2>5, <3>1 DEF ActiveOf, Active, Canceled
  <2>6. CASE req[w].op = "destroy"
    <3>1. r.event = req[w].event /\ tx[w].row = NoRow
      BY <2>2, <2>3, <2>6 DEF RowsInv, WriteInv, Writing
    <3>2. event'[r.event] = NoRow
      BY <2>2, <2>3, <3>1, NullsAssumption DEF TypeInv, TypeOK
    <3> QED
      BY <2>2, <2>6, <3>1, <3>2
  <2> QED
    BY <2>2, <2>4, <2>5, <2>6
<1>2. Spec => []TypeInv
  BY InitTypeInv, TypeStep, PTL DEF Spec
<1> QED
  BY <1>1, <1>2, RowsInvariant, PTL DEF Spec, HistoryOnlyGrows

(* Where patches keep apart, a destroyed event does not come back.         *)
LEMMA GoneStays ==
    ASSUME TypeInv, RowsInv, SavesInv, [Next]_vars,
           NEW e \in allocated, event[e] = NoRow
    PROVE  event'[e] = NoRow
<1>1. ASSUME NEW w \in Workers, NEW r \in Request, Create(w, r)
      PROVE  event'[e] = event[e]
  BY <1>1 DEF TypeInv, TypeOK, Create, FreshId
<1>2. ASSUME NEW w \in Workers, Commit(w), event' # event
      PROVE  event'[e] = NoRow
  <2>1. /\ req[w].event \in Events /\ tx[w].row # Clean /\ pc[w] = "commit"
        /\ event' = [event EXCEPT ![req[w].event] = tx[w].row]
    BY <1>2, RequestFacts DEF TypeInv, RequestInv, Commit
  <2>2. CASE req[w].op = "destroy"
    BY <2>1, <2>2 DEF TypeInv, TypeOK, RowsInv, WriteInv, Writing
  <2>3. CASE req[w].op # "destroy"
    BY <2>1, <2>3 DEF TypeInv, TypeOK, RowsInv, LockInv, Booking
  <2> QED
    BY <2>2, <2>3
<1>3. ASSUME NEW w \in Workers, pc[w] \in {"save", "reinsert"}, SaveRow(w)
      PROVE  event'[e] = event[e]
  <2>1. CASE ~ChecksHold(Patched(w))
    BY <1>3, <2>1 DEF SaveRow
  <2>2. CASE ChecksHold(Patched(w))
    BY <1>3, <2>2, FreshSave, NullsAssumption DEF SavesInv, TypeInv, TypeOK
  <2> QED
    BY <2>1, <2>2
<1>4. CASE UNCHANGED vars
  BY <1>4 DEF vars
<1> QED
  BY <1>1, <1>2, <1>3, <1>4, SomeoneMoves, TablesChange

-----------------------------------------------------------------------------
(* Why a request may fail.  A worker holds no lock but its own event's, and *)
(* only in a booking or a destroy; it is at enrollment rows only when it    *)
(* cancels one or destroys them; an enroll that goes on has seen a seat     *)
(* left; and what a patch has read had a counter of zero at least.          *)
HoldInv(w) ==
    /\ \A e \in Events :
           lock[e] = w => req[w].event = e /\ (Booking(w) \/ Writing(w, "destroy"))
    /\ tx[w].old # {} => \/ Writing(w, "cancel")
                        \/ pc[w] = "erase" \/ Writing(w, "destroy")
    /\ pc[w] = "insert" \/ (pc[w] = "count" /\ req[w].op = "enroll")
           => ~IsFull(seen[w])
    /\ pc[w] \in {"save", "reinsert"} => seen[w].seats_taken >= 0

LEMMA InitHoldInv == Init => \A w \in Workers : HoldInv(w)
<1> SUFFICES ASSUME Init, NEW w \in Workers PROVE HoldInv(w)
  OBVIOUS
<1>1. pc[w] = "idle" /\ tx[w].old = {} /\ \A e \in Events : lock[e] # w
  BY NullsAssumption DEF Init, EmptyTx
<1> QED
  BY <1>1 DEF HoldInv

(* Nothing is held once the answer is there, or the request is over.       *)
LEMMA ReleasedHolds ==
    ASSUME TypeInv, NEW w \in Workers, Release(w), pc'[w] \in {"idle", "respond"}
    PROVE  HoldInv(w)'
<1>1. tx'[w].old = {} /\ \A e \in Events : lock'[e] # w
  BY NullsAssumption DEF TypeInv, TypeOK, Release, EmptyTx
<1> QED
  BY <1>1 DEF HoldInv

LEMMA ReturnHolds ==
    ASSUME TypeInv, NEW w \in Workers, NEW code, Return(w, code)
    PROVE  HoldInv(w)'
  BY ReleasedHolds DEF TypeInv, TypeOK, Return

(* A worker's own statements.                                              *)
LEMMA OwnHoldStep ==
    ASSUME TypeInv, RowsInv, NEW w \in Workers, HoldInv(w), Move(w)
    PROVE  HoldInv(w)'
<1>0. pc[w] # "idle" => req[w].event \in Events
  BY RequestFacts DEF TypeInv, RequestInv
<1>1. CASE Respond(w) \/ Crash(w)
  BY <1>1, ReleasedHolds DEF TypeInv, TypeOK, Respond, Crash, Finish
<1>2. ASSUME NEW r \in Request, Create(w, r) PROVE HoldInv(w)'
  <2>1. pc[w] = "idle" /\ pc'[w] = "respond" /\ UNCHANGED <<lock, tx>>
    BY <1>2 DEF TypeInv, TypeOK, Create
  <2> QED
    BY <2>1 DEF HoldInv, Booking, Writing
<1>3. ASSUME NEW r \in Request, Receive(w, r) PROVE HoldInv(w)'
  <2>1. /\ pc[w] = "idle" /\ UNCHANGED <<event, lock, tx>> /\ r.event \in Events
        /\ r.op \in {"enroll", "cancel", "patch", "destroy"}
    BY <1>3, RequestFacts, OpsAssumption DEF Receive, dbVars
  <2>2. FirstStatement(r.op) \in {"lock", "save", "purge"}
    BY <2>1 DEF FirstStatement
  <2>3. CASE event[r.event] = NoRow
    BY <1>3, <2>1, <2>3, Received DEF HoldInv, Booking, Writing
  <2>4. CASE event[r.event] # NoRow
    <3>1. event[r.event].seats_taken >= 0
      BY <2>1, <2>4 DEF RowsInv, ConstraintsHold, ChecksHold
    <3>2. /\ pc'[w] \in {"lock", "save", "purge"} /\ seen'[w] = event[r.event]
      BY <1>3, <2>2, <2>4, Received
    <3>3. tx[w].old = {} /\ \A e \in Events : lock[e] # w
      BY <2>1 DEF HoldInv, Booking, Writing
    <3> QED
      BY <2>1, <3>1, <3>2, <3>3 DEF HoldInv
  <2> QED
    BY <2>3, <2>4
<1>4. CASE SelectForUpdate(w)
  <2>1. CASE event[req[w].event] = NoRow
    BY <1>4, <2>1, ReturnHolds DEF SelectForUpdate
  <2>2. CASE event[req[w].event] # NoRow
    <3>1. /\ lock' = [lock EXCEPT ![req[w].event] = w] /\ pc[w] = "lock"
          /\ pc'[w] \in {"check", "find"} /\ UNCHANGED <<req, tx>>
      BY <1>4, <2>2 DEF TypeInv, TypeOK, SelectForUpdate, TakeLock, GoTo
    <3>2. tx[w].old = {} /\ \A e \in Events : lock[e] # w
      BY <3>1 DEF HoldInv, Booking, Writing
    <3>3. \A e \in Events : lock'[e] = w => e = req[w].event
      BY <3>1, <3>2 DEF TypeInv, TypeOK
    <3> QED
      BY <3>1, <3>2, <3>3 DEF HoldInv, Booking
  <2> QED
    BY <2>1, <2>2
<1>5. CASE CheckEnroll(w)
  <2>1. CASE GoTo(w, "insert") /\ ~IsFull(seen[w]) /\ UNCHANGED <<lock, req, seen, tx>>
    BY <1>5, <2>1 DEF TypeInv, TypeOK, CheckEnroll, GoTo, HoldInv, Booking, Writing
  <2> QED
    BY <1>5, <2>1, ReturnHolds DEF CheckEnroll
<1>6. CASE InsertEnrollment(w)
  <2>1. CASE /\ GoTo(w, "count") /\ tx'[w].old = {} /\ UNCHANGED <<lock, req, seen>>
    BY <1>6, <2>1 DEF TypeInv, TypeOK, InsertEnrollment, GoTo, HoldInv, Booking, Writing
  <2>2. CASE ~\E code : Return(w, code)
    BY <1>6, <2>1, <2>2 DEF TypeInv, TypeOK, InsertEnrollment
  <2> QED
    BY <2>2, ReturnHolds
<1>7. CASE FindActive(w)
  <2>1. CASE GoTo(w, "mark") /\ UNCHANGED <<lock, req, seen, tx>>
    BY <1>7, <2>1 DEF TypeInv, TypeOK, FindActive, GoTo, HoldInv, Booking, Writing
  <2> QED
    BY <1>7, <2>1, ReturnHolds DEF FindActive
<1>8. CASE MarkCanceled(w)
  <2>1. req[w].op = "cancel"
    BY <1>8 DEF TypeInv, RequestInv, MarkCanceled
  <2>2. CASE GoTo(w, "count") /\ UNCHANGED <<lock, req, seen>>
    BY <1>8, <2>1, <2>2 DEF TypeInv, TypeOK, MarkCanceled, GoTo, HoldInv, Booking, Writing
  <2> QED
    BY <1>8, <2>2, ReturnHolds DEF MarkCanceled
<1>9. CASE CountSeat(w)
  <2> DEFINE row == [event[req[w].event] EXCEPT !.seats_taken = @ + SeatDelta(req[w].op)]
  <2>1. req[w].op \in {"enroll", "cancel"} /\ Booking(w)
        /\ event[req[w].event] # NoRow /\ pc[w] = "count" /\ req[w].event \in Events
    BY <1>0, <1>9 DEF TypeInv, RequestInv, CountSeat, RowsInv, LockInv, Booking
  <2>2. CASE /\ GoTo(w, "commit") /\ TakeLock(w)
             /\ tx' = [tx EXCEPT ![w].row = row] /\ UNCHANGED <<req, seen>>
    <3> HIDE DEF row
    <3>1. /\ pc'[w] = "commit" /\ req'[w] = req[w] /\ tx'[w].old = tx[w].old
          /\ \A e \in Events : lock'[e] = w => lock[e] = w \/ e = req[w].event
      BY <2>1, <2>2 DEF TypeInv, TypeOK, GoTo, TakeLock
    <3> QED
      BY <2>1, <3>1 DEF HoldInv, Booking, Writing
  <2>3. CASE ~\E code : Return(w, code)
    BY <1>9, <2>1, <2>2, <2>3 DEF CountSeat
  <2> QED
    BY <2>3, ReturnHolds
<1>10. CASE DeleteEnrollments(w)
  BY <1>10 DEF TypeInv, TypeOK, DeleteEnrollments, GoTo, HoldInv, Booking, Writing
<1>11. CASE DeleteEvent(w)
  <2>1. /\ pc[w] = "erase" /\ pc'[w] = "commit" /\ req' = req /\ req[w].op = "destroy"
        /\ \A e \in Events : lock'[e] = w => lock[e] = w \/ e = req[w].event
    BY <1>0, <1>11 DEF TypeInv, TypeOK, RequestInv, DeleteEvent, GoTo, TakeLock
  <2> QED
    BY <2>1 DEF HoldInv, Booking, Writing
<1>12. CASE Commit(w) \/ DeadlockAbort(w)
  BY <1>12, ReturnHolds DEF Commit, DeadlockAbort
<1>13. CASE SaveUpdate(w) \/ SaveInsert(w)
  <2>1. CASE /\ GoTo(w, "reinsert") /\ pc[w] = "save" /\ UNCHANGED <<lock, req, seen, tx>>
    BY <2>1 DEF TypeInv, TypeOK, GoTo, HoldInv, Booking, Writing
  <2> QED
    BY <1>13, <2>1, ReturnHolds DEF SaveUpdate, SaveInsert, SaveRow
<1> QED
  BY <1>1, <1>2, <1>3, <1>4, <1>5, <1>6, <1>7, <1>8, <1>9, <1>10, <1>11, <1>12, <1>13
  DEF Move, Step

(* Nobody gives a lock to another worker.                                  *)
LEMMA LocksStay ==
    ASSUME TypeInv, NEW v \in Workers, Move(v), NEW w \in Workers \ {v},
           NEW e \in Events, lock'[e] = w
    PROVE  lock[e] = w
<1>1. Release(v) => lock[e] = w
  BY NullsAssumption DEF Release
<1>2. TakeLock(v) => lock[e] = w
  BY DEF TypeInv, TypeOK, TakeLock
<1>3. CASE Release(v) \/ TakeLock(v) \/ UNCHANGED lock
  BY <1>1, <1>2, <1>3
<1>4. CASE ~(Release(v) \/ TakeLock(v) \/ UNCHANGED lock)
  BY <1>4
  DEF Move, Step, Create, Receive, SelectForUpdate, CheckEnroll, InsertEnrollment,
      FindActive, MarkCanceled, CountSeat, DeleteEnrollments, DeleteEvent, SaveUpdate,
      SaveInsert, SaveRow, Commit, Respond, DeadlockAbort, Crash, Return, Finish
<1> QED
  BY <1>3, <1>4

LEMMA HoldStep ==
    ASSUME TypeInv, RowsInv, \A w \in Workers : HoldInv(w), [Next]_vars
    PROVE  \A w \in Workers : HoldInv(w)'
<1> SUFFICES ASSUME NEW w \in Workers PROVE HoldInv(w)'
  OBVIOUS
<1>1. CASE UNCHANGED vars
  BY <1>1 DEF vars, HoldInv, Booking, Writing
<1>2. CASE Move(w)
  BY <1>2, OwnHoldStep
<1>3. ASSUME NEW v \in Workers \ {w}, Move(v) PROVE HoldInv(w)'
  <2>1. pc'[w] = pc[w] /\ req'[w] = req[w] /\ seen'[w] = seen[w] /\ tx'[w] = tx[w]
    BY <1>3, OthersStay
  <2>2. \A e \in Events : lock'[e] = w => lock[e] = w
    BY <1>3, LocksStay
  <2> QED
    BY <2>1, <2>2 DEF HoldInv, Booking, Writing
<1> QED
  BY <1>1, <1>2, <1>3, SomeoneMoves

(* The counter of an enroll under way has room, a cancel's has a seat.     *)
LEMMA CountFails ==
    ASSUME TypeInv, RowsInv, NEW w \in Workers, HoldInv(w), CountSeat(w),
           Return(w, "server_error")
    PROVE  HasCause(w)
<1> DEFINE e == req[w].event
           row == [event[e] EXCEPT !.seats_taken = @ + SeatDelta(req[w].op)]
<1>1. /\ e \in Events /\ pc[w] = "count" /\ req[w].op \in {"enroll", "cancel"}
      /\ event[e] # NoRow /\ event[e] \in Row /\ seen[w] = event[e]
  BY RequestFacts DEF TypeInv, TypeOK, RequestInv, RowsInv, LockInv, Booking, CountSeat
<1>2. ~ChecksHold(row)
  <2>1. pc'[w] # "commit"
    BY DEF TypeInv, TypeOK, Return
  <2> QED
    BY <1>1, <2>1 DEF CountSeat, GoTo, TypeInv, TypeOK
<1>3. /\ ChecksHold(event[e]) /\ event[e].seats_taken \in Int
      /\ event[e].capacity \in Nat \cup {Unlimited}
  BY <1>1 DEF RowsInv, ConstraintsHold, Row, Capacity
<1>4. /\ row.capacity = event[e].capacity
      /\ req[w].op = "enroll" => row.seats_taken = event[e].seats_taken + 1
      /\ req[w].op = "cancel" => row.seats_taken = event[e].seats_taken + (-1)
  BY <1>1 DEF Row, SeatDelta
<1> HIDE DEF row
<1>5. CASE req[w].op = "enroll"
  <2>1. ~IsFull(event[e])
    BY <1>1, <1>5 DEF HoldInv
  <2> QED
    BY <1>2, <1>3, <1>4, <1>5, <2>1, CapacitiesAssumption DEF ChecksHold, IsFull
<1>6. CASE req[w].op = "cancel"
  <2>1. PICK r \in Active(e) : TRUE
    BY <1>1, <1>6 DEF RowsInv, CancelInv, Writing, ActiveOf, Active
  <2>2. Cardinality(Active(e)) \in Nat /\ Cardinality(Active(e)) # 0
    <3>1. Active(e) \subseteq enrollments /\ IsFiniteSet(enrollments)
      BY DEF Active, RowsInv
    <3> QED
      BY <2>1, <3>1, FS_Subset, FS_EmptySet, FS_CardinalityType
  <2>3. event[e].seats_taken = 0
    BY <1>2, <1>3, <1>4, <1>6, CapacitiesAssumption DEF ChecksHold
  <2>4. event[e].seats_taken < Cardinality(Active(e))
    BY <2>2, <2>3
  <2> QED
    BY <1>6, <2>4 DEF HasCause
<1> QED
  BY <1>1, <1>5, <1>6

(* Two workers that wait for each other are a cancel and a destroy.        *)
LEMMA DeadlockHasCause ==
    ASSUME TypeInv, RowsInv, \A w \in Workers : HoldInv(w),
           NEW w \in Workers, DeadlockAbort(w)
    PROVE  HasCause(w)
<1>1. PICK v \in Workers \ {w} : WaitsFor(w, v) /\ WaitsFor(v, w)
  BY DEF DeadlockAbort
<1>2. ASSUME NEW a \in Workers, NEW b \in Workers, a # b, WaitsFor(a, b), WaitsFor(b, a),
             pc[a] \in {"lock", "count", "erase", "save", "reinsert"},
             lock[req[a].event] = b
      PROVE  Deadlocked(b, a)
  <2>1. req[a].event \in Events /\ req[b].event = req[a].event
        /\ (Booking(b) \/ Writing(b, "destroy"))
    BY <1>2, RequestFacts DEF TypeInv, RequestInv, HoldInv
  <2>2. pc[b] \in {"count", "mark"}
    BY <1>2, <2>1 DEF WaitsFor, Booking, Writing
  <2>3. pc[b] # "count" /\ lock[req[b].event] = b
    BY <1>2, <2>2 DEF RowsInv, LockInv, Booking, WaitsFor
  <2>4. \E r \in tx[a].old : r.id = found[b]
    BY <1>2, <2>2, <2>3 DEF WaitsFor
  <2>5. pc[a] = "erase"
    <3>1. Writing(a, "cancel") \/ pc[a] = "erase" \/ Writing(a, "destroy")
      BY <2>4 DEF HoldInv
    <3>2. pc[a] # "count"
      BY <1>2 DEF RowsInv, LockInv, Booking
    <3> QED
      BY <1>2, <3>1, <3>2 DEF Writing
  <2> QED
    BY <2>1, <2>2, <2>3, <2>4, <2>5 DEF Deadlocked
<1>3. ASSUME NEW a \in Workers, NEW b \in Workers, a # b, WaitsFor(a, b), WaitsFor(b, a),
             pc[a] \notin {"lock", "count", "erase", "save", "reinsert"}
      PROVE  Deadlocked(a, b)
  <2>1. tx[b].old # {}
    BY <1>3 DEF WaitsFor
  <2>2. pc[b] \in {"count", "erase"}
    <3>1. Writing(b, "cancel") \/ pc[b] = "erase" \/ Writing(b, "destroy")
      BY <2>1 DEF HoldInv
    <3>2. pc[b] # "commit"
      BY <1>3 DEF WaitsFor
    <3> QED
      BY <3>1, <3>2 DEF Writing
  <2> QED
    BY <1>2, <1>3, <2>2 DEF WaitsFor
<1>4. Deadlocked(v, w) \/ Deadlocked(w, v)
  <2>1. CASE pc[w] \in {"lock", "count", "erase", "save", "reinsert"}
    BY <1>1, <1>2, <2>1 DEF WaitsFor
  <2>2. CASE pc[w] \notin {"lock", "count", "erase", "save", "reinsert"}
    BY <1>1, <1>3, <2>2
  <2> QED
    BY <2>1, <2>2
<1>5. /\ pc[w] = "erase" => req[w].op = "destroy"
      /\ pc[w] = "mark" => req[w].op = "cancel"
  BY DEF TypeInv, RequestInv
<1> QED
  BY <1>4, <1>5 DEF Deadlocked, HasCause

(* A destroy is only refused for an enrollment it has not seen.            *)
LEMMA CommitFails ==
    ASSUME TypeInv, RowsInv, NEW w \in Workers, Commit(w),
           LeavesOrphans(w, (enrollments \ tx[w].old) \cup tx[w].new)
    PROVE  HasCause(w)
<1>1. req[w].op \in {"enroll", "cancel", "destroy"} /\ pc[w] = "commit"
  BY DEF TypeInv, RequestInv, Commit
<1>2. CASE req[w].op = "destroy"
  <2>1. tx[w].new = {}
    BY <1>1, <1>2 DEF RowsInv, WriteInv, Writing
  <2> QED
    BY <1>2, <2>1 DEF LeavesOrphans, HasCause
<1>3. CASE req[w].op # "destroy"
  <2>1. /\ tx[w].row = [seen[w] EXCEPT !.seats_taken = @ + SeatDelta(req[w].op)]
        /\ seen[w] \in Row /\ SeatDelta(req[w].op) \in Int
    <3>1. tx[w].row = [seen[w] EXCEPT !.seats_taken = @ + SeatDelta(req[w].op)]
      BY <1>1, <1>3 DEF RowsInv, WriteInv
    <3>2. seen[w] \in Row
      BY <1>1 DEF TypeInv, TypeOK, RequestInv
    <3> QED
      BY <3>1, <3>2 DEF SeatDelta
  <2>2. tx[w].row \in Row
    BY <2>1 DEF Row
  <2> QED
    BY <2>2, NullsAssumption DEF LeavesOrphans
<1> QED
  BY <1>2, <1>3

(* A patch is refused for its capacity.                                    *)
LEMMA SaveFails ==
    ASSUME TypeInv, NEW w \in Workers, HoldInv(w), pc[w] \in {"save", "reinsert"},
           ~ChecksHold(Patched(w))
    PROVE  HasCause(w)
<1>1. /\ req[w].op = "patch" /\ req[w].capacity \in Capacity /\ seen[w] \in Row
  BY RequestFacts, CapacitiesAssumption DEF TypeInv, TypeOK, RequestInv, Capacity
<1>2. /\ Patched(w).capacity = req[w].capacity
      /\ Patched(w).seats_taken = seen[w].seats_taken
      /\ seen[w].seats_taken \in Int /\ seen[w].seats_taken >= 0
  BY <1>1 DEF Patched, Row, HoldInv
<1>3. req[w].capacity # Unlimited /\ ~(seen[w].seats_taken <= req[w].capacity)
  BY <1>2 DEF ChecksHold
<1>4. req[w].capacity < seen[w].seats_taken
  BY <1>1, <1>2, <1>3, CapacitiesAssumption DEF Capacity
<1> QED
  BY <1>1, <1>3, <1>4 DEF HasCause

LEMMA FailsForACause ==
    ASSUME TypeInv, RowsInv, \A w \in Workers : HoldInv(w), [Next]_vars,
           NEW w \in Workers, Fails(w)
    PROVE  HasCause(w)
<1>1. Move(w)
  <2>1. ASSUME NEW v \in Workers \ {w}, Move(v) PROVE FALSE
    BY <2>1, OthersStay DEF Fails
  <2> QED
    BY <2>1, SomeoneMoves DEF Fails, vars
<1>2. ASSUME NEW code, Return(w, code) PROVE code = "server_error"
  BY <1>2 DEF TypeInv, TypeOK, Return, Fails
<1>3. ASSUME NEW label, GoTo(w, label) PROVE label = "respond"
  BY <1>3 DEF TypeInv, TypeOK, GoTo, Fails
<1>4. ~Respond(w) /\ ~Crash(w) /\ \A r \in Request : ~Create(w, r)
  BY DEF TypeInv, TypeOK, Respond, Crash, Finish, Create, Fails
<1>5. ASSUME NEW r \in Request PROVE ~Receive(w, r)
  <2> SUFFICES ASSUME Receive(w, r) PROVE FALSE
    OBVIOUS
  <2>1. FirstStatement(r.op) # "respond"
    BY RequestFacts, OpsAssumption DEF Receive, FirstStatement
  <2> QED
    BY <2>1, Received DEF Fails
<1>6. CASE SelectForUpdate(w)
  <2>1. event[req[w].event] = NoRow
    BY <1>3, <1>6 DEF SelectForUpdate
  <2>2. req[w].op \in {"enroll", "cancel"}
    BY <1>6 DEF TypeInv, RequestInv, SelectForUpdate
  <2> QED
    BY <2>1, <2>2 DEF HasCause
<1>7. ~CheckEnroll(w) /\ ~FindActive(w) /\ ~DeleteEnrollments(w) /\ ~DeleteEvent(w)
  BY <1>2, <1>3 DEF CheckEnroll, FindActive, DeleteEnrollments, DeleteEvent
<1>8. ~InsertEnrollment(w)
  <2> SUFFICES ASSUME InsertEnrollment(w) PROVE FALSE
    OBVIOUS
  <2>1. Conflicting(req[w].event, req[w].seeker) = {}
    BY DEF InsertEnrollment, RowsInv, EnrollInv, ActiveOf, Conflicting
  <2> QED
    BY <1>3, <2>1 DEF InsertEnrollment
<1>9. ~MarkCanceled(w)
  <2> SUFFICES ASSUME MarkCanceled(w) PROVE FALSE
    OBVIOUS
  <2>1. {r \in enrollments : r.id = found[w]} # {}
    BY DEF RowsInv, CancelInv, MarkCanceled, ActiveOf
  <2> QED
    BY <1>3, <2>1 DEF MarkCanceled
<1>10. CASE CountSeat(w)
  BY <1>3, <1>10, CountFails DEF CountSeat
<1>11. CASE Commit(w)
  <2>1. OkReply(req[w].op) # "server_error"
    BY <1>11 DEF TypeInv, RequestInv, Commit, OkReply
  <2> QED
    BY <1>2, <1>11, <2>1, CommitFails DEF Commit
<1>12. CASE DeadlockAbort(w)
  BY <1>12, DeadlockHasCause
<1>13. CASE SaveUpdate(w) \/ SaveInsert(w)
  <2>1. SaveRow(w) => ~ChecksHold(Patched(w))
    BY <1>2 DEF SaveRow
  <2>2. CASE SaveRow(w)
    BY <1>13, <2>1, <2>2, SaveFails DEF SaveUpdate, SaveInsert
  <2>3. CASE ~SaveRow(w)
    <3>1. pc[w] = "reinsert" /\ event[req[w].event] # NoRow
      BY <1>3, <1>13, <2>3 DEF SaveUpdate, SaveInsert
    <3>2. req[w].op = "patch"
      BY <3>1 DEF TypeInv, RequestInv
    <3> QED
      BY <3>1, <3>2 DEF HasCause
  <2> QED
    BY <2>2, <2>3
<1> QED
  BY <1>1, <1>4, <1>5, <1>6, <1>7, <1>8, <1>9, <1>10, <1>11, <1>12, <1>13 DEF Move, Step

LEMMA HoldsInvariant == Spec => [](TypeInv /\ RowsInv /\ \A w \in Workers : HoldInv(w))
<1> DEFINE Holds == \A w \in Workers : HoldInv(w)
<1>1. Init => TypeInv /\ RowsInv /\ Holds
  BY InitTypeInv, InitRowsInv, InitHoldInv
<1>2. TypeInv /\ RowsInv /\ Holds /\ [Next]_vars => (TypeInv /\ RowsInv /\ Holds)'
  BY TypeStep, RowsStep, HoldStep
<1> HIDE DEF Holds
<1>3. Spec => [](TypeInv /\ RowsInv /\ Holds)
  BY <1>1, <1>2, PTL DEF Spec
<1> QED
  BY <1>3 DEF Holds

(* Every bare 500 of enroll, cancel, PATCH and DELETE, in any interleaving  *)
(* of any number of them, comes of one of the causes HasCause names: never  *)
(* of the unique index, nor of a capacity an enroll has not seen.          *)
THEOREM ErrorsHaveCauses == Spec => ErrorsHaveACause
<1> DEFINE Holds == \A w \in Workers : HoldInv(w)
<1>1. TypeInv /\ RowsInv /\ Holds /\ [Next]_vars => FailStep
  BY FailsForACause DEF FailStep
<1>2. Spec => [](TypeInv /\ RowsInv /\ Holds)
  BY HoldsInvariant
<1> HIDE DEF Holds
<1> QED
  BY <1>1, <1>2, PTL DEF Spec, ErrorsHaveACause

-----------------------------------------------------------------------------
(* Where only enroll and cancel are served, events stay and no error that   *)
(* needs a cause has one.                                                  *)
QuietInv ==
    /\ BackstopsStayQuiet
    /\ \A w \in Workers : pc[w] # "idle" => event[req[w].event] # NoRow

LEMMA EventsStay ==
    ASSUME Ops \subseteq {"enroll", "cancel"}, TypeInv, RowsInv, [Next]_vars,
           NEW e \in Events, event[e] # NoRow
    PROVE  event'[e] # NoRow
<1>0. \A w \in Workers : pc[w] # "idle" =>
          req[w].op \in {"create", "enroll", "cancel"} /\ req[w].event \in Events
  BY RequestFacts DEF TypeInv, RequestInv
<1>1. ASSUME NEW w \in Workers, NEW r \in Request, Create(w, r)
      PROVE  event'[e] # NoRow
  <2>1. event[r.event] = NoRow
    BY <1>1, RequestFacts DEF RowsInv, IdsInv, Create, FreshId
  <2> QED
    BY <1>1, <2>1 DEF TypeInv, TypeOK, Create
<1>2. ASSUME NEW w \in Workers, Commit(w)
      PROVE  event'[e] # NoRow
  <2>1. /\ pc[w] = "commit" /\ req[w].op \in {"enroll", "cancel"} /\ seen[w] \in Row
        /\ req[w].event \in Events /\ SeatDelta(req[w].op) \in Int
    BY <1>0, <1>2 DEF TypeInv, TypeOK, RequestInv, Commit, SeatDelta
  <2>2. tx[w].row = [seen[w] EXCEPT !.seats_taken = @ + SeatDelta(req[w].op)]
    BY <2>1 DEF RowsInv, WriteInv
  <2>3. tx[w].row \in Row
    BY <2>1, <2>2 DEF Row
  <2>4. event' = event \/ event' = [event EXCEPT ![req[w].event] = tx[w].row]
    BY <1>2 DEF Commit
  <2> QED
    BY <2>1, <2>3, <2>4, NullsAssumption DEF TypeInv, TypeOK
<1>3. ASSUME NEW w \in Workers PROVE pc[w] \notin {"save", "reinsert"}
  BY <1>0 DEF TypeInv, RequestInv
<1>4. CASE UNCHANGED vars
  BY <1>4 DEF vars
<1> QED
  BY <1>1, <1>2, <1>3, <1>4, SomeoneMoves, TablesChange

LEMMA QuietStep ==
    ASSUME Ops \subseteq {"enroll", "cancel"}, TypeInv, RowsInv, SeatsAccurate,
           \A w \in Workers : HoldInv(w), QuietInv, [Next]_vars
    PROVE  QuietInv'
<1>0. ASSUME NEW w \in Workers, pc[w] # "idle"
      PROVE  /\ req[w].op \in {"create", "enroll", "cancel"} /\ req[w].event \in Events
             /\ event[req[w].event] # NoRow
  BY <1>0, RequestFacts DEF TypeInv, RequestInv, QuietInv
<1>1. ASSUME NEW w \in Workers, Move(w)
      PROVE  /\ reply'[w] = "server_error" => reply[w] = "server_error" \/ Fails(w)
             /\ pc'[w] # "idle" => event'[req'[w].event] # NoRow
  <2>1. CASE Respond(w) \/ Crash(w)
    BY <2>1 DEF TypeInv, TypeOK, Respond, Crash, Finish
  <2>2. ASSUME NEW r \in Request, Receive(w, r)
        PROVE  /\ reply'[w] # "server_error"
               /\ pc'[w] # "idle" => event'[req'[w].event] # NoRow
    <3>1. reply'[w] # "server_error" /\ event' = event
      BY <2>2 DEF TypeInv, TypeOK, Receive, dbVars
    <3> QED
      BY <2>2, <3>1, Received
  <2>3. ASSUME NEW r \in Request, Create(w, r)
        PROVE  /\ reply'[w] # "server_error" /\ event'[req'[w].event] # NoRow
    <3>1. [capacity |-> r.capacity, seats_taken |-> 0] \in Row
      <4>1. r.op = "create"
        BY <2>3 DEF Create
      <4>2. r.capacity \in Capacity
        BY <4>1, RequestFacts, CapacitiesAssumption DEF Capacity
      <4> QED
        BY <4>2 DEF Row
    <3>2. r.event \in Events
      BY RequestFacts
    <3> QED
      BY <2>3, <3>1, <3>2, NullsAssumption DEF TypeInv, TypeOK, Create
  <2>4. CASE Step(w) /\ ~Respond(w)
    <3>1. pc[w] \notin {"idle", "respond"} /\ req' = req
          /\ ((\E code : Return(w, code)) \/ reply' = reply)
      BY <2>4 DEF Step, SelectForUpdate, CheckEnroll, InsertEnrollment, FindActive,
         MarkCanceled, CountSeat, DeleteEnrollments, DeleteEvent, SaveUpdate, SaveInsert,
         SaveRow, Commit, DeadlockAbort, WaitsFor, GoTo, Return
    <3>2. event'[req'[w].event] # NoRow
      BY <1>0, <3>1, EventsStay
    <3>3. (\E code : Return(w, code)) => pc'[w] = "respond"
      BY DEF TypeInv, TypeOK, Return
    <3> QED
      BY <3>1, <3>2, <3>3 DEF Fails
  <2> QED
    BY <1>1, <2>1, <2>2, <2>3, <2>4 DEF Move
<1>2. ASSUME NEW w \in Workers PROVE ~Fails(w)
  <2> SUFFICES ASSUME Fails(w) PROVE FALSE
    OBVIOUS
  <2>1. HasCause(w) /\ pc[w] # "idle"
    <3>1. pc[w] = "idle" => reply'[w] # "server_error" \/ pc'[w] # "respond"
      <4>1. ASSUME pc[w] = "idle", Move(w)
            PROVE  reply'[w] # "server_error" \/ pc'[w] # "respond"
        <5>1. ~Step(w) /\ ~Crash(w)
          BY <4>1 DEF Step, SelectForUpdate, CheckEnroll, InsertEnrollment, FindActive,
             MarkCanceled, CountSeat, DeleteEnrollments, DeleteEvent, SaveUpdate,
             SaveInsert, Commit, Respond, DeadlockAbort, WaitsFor, Crash
        <5> QED
          BY <4>1, <5>1 DEF Move, Create, Receive, TypeInv, TypeOK
      <4>2. ASSUME NEW v \in Workers \ {w}, Move(v) PROVE pc'[w] = pc[w]
        BY <4>2, OthersStay
      <4> QED
        BY <4>1, <4>2, SomeoneMoves DEF vars
    <3> QED
      BY <3>1, FailsForACause DEF Fails
  <2>2. \A v \in Workers : pc[v] # "erase"
    BY <1>0 DEF TypeInv, RequestInv
  <2>3. event[req[w].event] # NoRow
        /\ req[w].event \in Events /\ req[w].op \in {"create", "enroll", "cancel"}
    BY <1>0, <2>1
  <2>4. event[req[w].event].seats_taken = Cardinality(Active(req[w].event))
        /\ event[req[w].event].seats_taken \in Int
    BY <2>3 DEF SeatsAccurate, TypeInv, TypeOK, Row
  <2> QED
    BY <2>1, <2>2, <2>3, <2>4 DEF HasCause, Deadlocked
<1>3. ASSUME NEW v \in Workers
      PROVE  /\ reply'[v] # "server_error"
             /\ pc'[v] # "idle" => event'[req'[v].event] # NoRow
  <2>1. reply[v] # "server_error"
    BY DEF QuietInv, BackstopsStayQuiet
  <2>2. CASE Move(v)
    BY <1>1, <1>2, <2>1, <2>2
  <2>3. ASSUME NEW w \in Workers \ {v}, Move(w)
        PROVE  /\ reply'[v] # "server_error"
               /\ pc'[v] # "idle" => event'[req'[v].event] # NoRow
    <3>1. pc'[v] = pc[v] /\ req'[v] = req[v] /\ reply'[v] = reply[v]
      BY <2>3, OthersStay
    <3> QED
      BY <1>0, <2>1, <3>1, EventsStay
  <2>4. CASE UNCHANGED vars
    BY <1>0, <2>1, <2>4 DEF vars
  <2> QED
    BY <2>2, <2>3, <2>4, SomeoneMoves
<1> QED
  BY <1>3 DEF QuietInv, BackstopsStayQuiet

(* The row lock alone keeps enroll and cancel correct: no constraint        *)
(* refuses, no save misses its row, no transaction is picked as a victim.  *)
THEOREM LockIsEnough ==
    ASSUME Ops \subseteq {"enroll", "cancel"}
    PROVE  Spec => []BackstopsStayQuiet
<1> DEFINE Holds == \A w \in Workers : HoldInv(w)
<1>1. Init => QuietInv
  <2> SUFFICES ASSUME Init PROVE QuietInv
    OBVIOUS
  <2>1. \A w \in Workers : pc[w] = "idle" /\ reply[w] = ""
    BY DEF Init
  <2> QED
    BY <2>1 DEF QuietInv, BackstopsStayQuiet
<1>2. TypeInv /\ RowsInv /\ Holds /\ SeatsAccurate /\ QuietInv /\ [Next]_vars => QuietInv'
  BY QuietStep
<1>3. Spec => [](TypeInv /\ RowsInv /\ Holds)
  BY HoldsInvariant
<1>4. Spec => []SeatsAccurate
  <2>1. Spec => ApartSpec
    BY AloneIsApart
  <2>2. ApartSpec => []SeatsAccurate
    BY CounterIsAccurate
  <2> QED
    BY <2>1, <2>2, PTL
<1>5. QuietInv => BackstopsStayQuiet
  BY DEF QuietInv
<1> HIDE DEF Holds
<1> QED
  BY <1>1, <1>2, <1>3, <1>4, <1>5, PTL DEF Spec
=============================================================================
