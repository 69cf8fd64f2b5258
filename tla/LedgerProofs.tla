----------------------------- MODULE LedgerProofs -----------------------------
(* EnrollmentService implements SeatLedger, for every number of events,     *)
(* seekers, workers and rows: the transactions, locks, rows and counters    *)
(* behave as one ledger.  A success takes effect at its COMMIT, a refusal   *)
(* where its worker finds the reason; both answer in a later step, in which *)
(* the worker may be lost with the answer.                                 *)
EXTENDS EnrollmentServiceProofs, FunctionTheorems

(* What a worker holds of the ledger: an idle one no call, one that has to  *)
(* answer an answer, one that has deleted no event row an event that is     *)
(* gone.                                                                   *)
AnswerInv(w) ==
    /\ pc[w] = "idle" => req[w] = NoReq
    /\ pc[w] = "respond" => reply[w] # ""
    /\ Writing(w, "destroy") /\ tx[w].row = Clean => event[req[w].event] = NoRow

AnswersInv == \A w \in Workers : AnswerInv(w)

LEMMA OwnAnswer ==
    ASSUME TypeInv, AnswersInv, NEW w \in Workers, Move(w)
    PROVE  AnswerInv(w)'
<1> USE DEF TypeInv, TypeOK
<1>1. ASSUME NEW code \in Replies \ {""}, Return(w, code) PROVE AnswerInv(w)'
  BY <1>1 DEF Return, AnswerInv, Writing
<1>2. ASSUME NEW label \in Labels \ {"idle", "respond"}, GoTo(w, label),
             label \in {"count", "commit"} => req'[w].op # "destroy"
      PROVE  AnswerInv(w)'
  BY <1>2 DEF GoTo, AnswerInv, Writing
<1>3. CASE Respond(w) \/ Crash(w)
  BY <1>3 DEF Respond, Crash, Finish, AnswerInv, Writing
<1>4. ASSUME NEW r \in Request, Create(w, r)
      PROVE  AnswerInv(w)'
  BY <1>4 DEF Create, AnswerInv, Writing
<1>5. ASSUME NEW r \in Request, Receive(w, r)
      PROVE  AnswerInv(w)'
  <2>1. FirstStatement(r.op) \in {"lock", "save", "purge"}
    BY <1>5, RequestFacts, OpsAssumption DEF FirstStatement, Receive
  <2>2. \/ pc'[w] = "idle" /\ req'[w] = req[w] /\ pc[w] = "idle"
        \/ pc'[w] \in {"lock", "save", "purge"}
    BY <1>5, <2>1 DEF Receive
  <2> QED
    BY <2>2 DEF AnswersInv, AnswerInv, Writing
<1>6. /\ Labels = {"idle", "lock", "check", "insert", "find", "mark", "count",
                   "purge", "erase", "commit", "save", "reinsert", "respond"}
      /\ Replies = {"", "created", "enrolled", "canceled", "patched", "destroyed",
                    "not_found", "already_enrolled", "event_full",
                    "no_active_enrollment", "server_error"}
  BY DEF Labels, Replies
<1>7. CASE SelectForUpdate(w)
  BY <1>1, <1>2, <1>6, <1>7 DEF SelectForUpdate
<1>8. CASE CheckEnroll(w) \/ FindActive(w) \/ DeleteEnrollments(w)
  BY <1>1, <1>2, <1>6, <1>8 DEF CheckEnroll, FindActive, DeleteEnrollments
<1>9. CASE InsertEnrollment(w)
  <2>1. req'[w].op = "enroll"
    BY <1>9 DEF InsertEnrollment, RequestInv, Return
  <2> QED
    BY <1>1, <1>2, <1>6, <1>9, <2>1 DEF InsertEnrollment
<1>10. CASE MarkCanceled(w)
  <2>1. req'[w].op = "cancel"
    BY <1>10 DEF MarkCanceled, RequestInv, Return
  <2> QED
    BY <1>1, <1>2, <1>6, <1>10, <2>1 DEF MarkCanceled
<1>11. CASE CountSeat(w)
  <2>1. req'[w].op # "destroy"
    BY <1>11 DEF CountSeat, RequestInv, Return
  <2> QED
    BY <1>1, <1>2, <1>6, <1>11, <2>1 DEF CountSeat
<1>12. CASE DeleteEvent(w)
  <2>1. /\ pc'[w] = "commit" /\ req' = req /\ event' = event
        /\ \/ event[req[w].event] = NoRow
           \/ tx'[w].row = NoRow
    BY <1>12 DEF DeleteEvent, GoTo, dbVars
  <2> QED
    BY <2>1, NullsAssumption DEF AnswerInv
<1>13. CASE SaveUpdate(w) \/ SaveInsert(w)
  BY <1>1, <1>2, <1>6, <1>13 DEF SaveUpdate, SaveInsert, SaveRow
<1>14. CASE Commit(w)
  <2>1. OkReply(req[w].op) \in {"enrolled", "canceled", "destroyed"}
    BY <1>14 DEF Commit, RequestInv, OkReply
  <2> QED
    BY <1>1, <1>6, <1>14, <2>1 DEF Commit
<1>15. CASE DeadlockAbort(w)
  BY <1>1, <1>6, <1>15 DEF DeadlockAbort
<1> QED
  BY <1>3, <1>4, <1>5, <1>7, <1>8, <1>9, <1>10, <1>11, <1>12, <1>13, <1>14, <1>15
  DEF Move, Step

(* An event that is gone stays so under a worker that is about to report it. *)
LEMMA AnswersStep ==
    ASSUME TypeInv, RowsInv, SavesInv, AnswersInv, [Next]_vars
    PROVE  AnswersInv'
<1>1. CASE UNCHANGED vars
  BY <1>1 DEF vars, AnswersInv, AnswerInv, Writing
<1>2. ASSUME NEW v \in Workers, Move(v), NEW w \in Workers \ {v}
      PROVE  AnswerInv(w)'
  <2>1. /\ pc'[w] = pc[w] /\ req'[w] = req[w] /\ tx'[w] = tx[w]
        /\ reply'[w] = reply[w]
    BY <1>2, OthersStay
  <2>2. pc[w] # "idle" => req[w].event \in allocated
    BY DEF RowsInv, WriteInv
  <2>3. Writing(w, "destroy") /\ tx[w].row = Clean => event'[req[w].event] = NoRow
    BY <2>2, GoneStays DEF AnswersInv, AnswerInv, Writing
  <2> QED
    BY <2>1, <2>3 DEF AnswersInv, AnswerInv, Writing
<1> QED
  BY <1>1, <1>2, OwnAnswer, SomeoneMoves DEF AnswersInv

-----------------------------------------------------------------------------
(* The ledger counts with the same cardinality.                            *)
LEMMA LedgerCardinality ==
    ASSUME NEW S
    PROVE  Ledger!Cardinality(S) = Cardinality(S)
  BY DEF Ledger!Cardinality, Cardinality

(* A seeker with a seat has one row, so seats and rows count the same.     *)
LEMMA HoldersCount ==
    ASSUME TypeInv, RowsInv, NEW e \in Events
    PROVE  Cardinality(Holders(e)) = Cardinality(Active(e))
<1> DEFINE f == [r \in Active(e) |-> r.seeker]
<1>1. IsFiniteSet(Active(e))
  <2>1. Active(e) \subseteq enrollments /\ IsFiniteSet(enrollments)
    BY DEF Active, RowsInv
  <2> QED
    BY <2>1, FS_Subset
<1>2. f \in [Active(e) -> Holders(e)]
  BY DEF Holders
<1>3. \A a, b \in Active(e) : f[a] = f[b] => a = b
  BY DEF RowsInv, OneActivePerSeeker, Active
<1>4. \A t \in Holders(e) : \E r \in Active(e) : f[r] = t
  BY DEF Holders
<1>5. f \in Bijection(Active(e), Holders(e))
  BY <1>2, <1>3, <1>4, Fun_IsBij
<1>6. ExistsBijection(Active(e), Holders(e))
  BY <1>5 DEF ExistsBijection
<1> QED
  BY <1>1, <1>6, FS_Bijection

(* Closed events are those that have no row.                               *)
LEMMA OfferedFacts ==
    ASSUME TypeInv, NEW e \in Events
    PROVE  /\ event[e] = NoRow => Offered[e] = NoRow
           /\ event[e] # NoRow => /\ Offered[e] = event[e].capacity
                                  /\ Offered[e] \in Capacity
                                  /\ Offered[e] # NoRow
  BY NullsAssumption DEF TypeInv, TypeOK, Offered, Row

(* The tables that stay leave the ledger as it is.                          *)
LEMMA TablesStay ==
    ASSUME UNCHANGED <<event, enrollments>>
    PROVE  Booked' = Booked /\ Offered' = Offered
  BY DEF Booked, Holders, Active, Offered

(* The end of a transaction is the instant of its call.                     *)
LEMMA ReturnBecomes ==
    ASSUME TypeInv, NEW w \in Workers, NEW code, Return(w, code), UnderWay(w)
    PROVE  /\ Ledger!Becomes(w, code)
           /\ req[w] # NoReq /\ Outcome[w] = ""
           /\ \A op : req[w].op = op => Ledger!Pending(w, op)
<1>1. /\ pc' = [pc EXCEPT ![w] = "respond"] /\ reply' = [reply EXCEPT ![w] = code]
      /\ req' = req /\ DOMAIN pc = Workers /\ DOMAIN reply = Workers
  BY DEF Return, TypeInv, TypeOK
<1>2. req[w] # NoReq /\ Outcome[w] = ""
  BY NullsAssumption DEF TypeInv, RequestInv, UnderWay, Outcome
<1>3. Outcome' = [Outcome EXCEPT ![w] = code]
  BY <1>1 DEF Outcome
<1>4. Answered' = Answered
  BY <1>1 DEF Answered, UnderWay
<1> QED
  BY <1>1, <1>2, <1>3, <1>4 DEF Ledger!Becomes, Ledger!Pending

(* An error is a call without effect.                                      *)
LEMMA ErrorRefines ==
    ASSUME TypeInv, NEW w \in Workers, Return(w, "server_error"), UnderWay(w),
           UNCHANGED <<event, enrollments>>
    PROVE  Ledger!Fail(w)
  BY ReturnBecomes, TablesStay DEF Ledger!Fail

(* A statement in the middle of a request is invisible.                    *)
LEMMA Invisible ==
    ASSUME TypeInv, NEW w \in Workers, Move(w), UnderWay(w), UnderWay(w)',
           UNCHANGED <<event, enrollments, req>>
    PROVE  UNCHANGED Ledger!ledgerVars
<1>1. Answered' = Answered /\ Outcome' = Outcome
  BY OthersStay DEF Answered, Outcome, UnderWay
<1> QED
  BY <1>1, TablesStay DEF Ledger!ledgerVars

(* The end of a request is the end of its call.                             *)
LEMMA FinishEnds ==
    ASSUME TypeInv, NEW w \in Workers, Move(w), Finish(w), NEW code, reply'[w] = code,
           UNCHANGED <<event, enrollments>>
    PROVE  Ledger!End(w, code)
<1>1. pc'[w] = "idle" /\ req' = [req EXCEPT ![w] = NoReq]
  BY DEF TypeInv, TypeOK, Finish
<1>2. \A v \in Workers \ {w} : pc'[v] = pc[v] /\ reply'[v] = reply[v]
  BY OthersStay
<1>3. Answered' = [Answered EXCEPT ![w] = code] /\ Outcome' = [Outcome EXCEPT ![w] = ""]
  BY <1>1, <1>2 DEF Answered, Outcome
<1> QED
  BY <1>1, <1>3, TablesStay DEF Ledger!End

(* The room the ledger has is the room the locked row shows.                *)
LEMMA RoomIsAccurate ==
    ASSUME TypeInv, RowsInv, SeatsAccurate, NEW e \in Events, event[e] # NoRow
    PROVE  Offered[e] # NoRow /\ (Ledger!HasRoom(e) <=> ~IsFull(event[e]))
<1>1. event[e].seats_taken = Cardinality(Booked[e])
  BY HoldersCount DEF SeatsAccurate, Booked
<1>2. Offered[e] = event[e].capacity /\ Offered[e] # NoRow
  BY OfferedFacts
<1>3. event[e] \in Row
  BY DEF TypeInv, TypeOK
<1>4. event[e].capacity \in Nat \cup {Unlimited} /\ event[e].seats_taken \in Int
  BY <1>3 DEF Row, Capacity
<1> QED
  BY <1>1, <1>2, <1>4, LedgerCardinality DEF Ledger!HasRoom, IsFull

-----------------------------------------------------------------------------
(* A refusal is true where its worker finds it: the lock is held, the row   *)
(* and the counter are what they are.                                      *)
LEMMA RefusalRefines ==
    ASSUME TypeInv, RowsInv, SavesInv, NEW w \in Workers, Move(w),
           CheckEnroll(w) \/ FindActive(w)
    PROVE  Ledger!Enroll(w) \/ Ledger!Cancel(w) \/ UNCHANGED Ledger!ledgerVars
<1>0. PICK e \in Events : e = req[w].event
  BY RequestFacts DEF TypeInv, RequestInv, CheckEnroll, FindActive
<1> DEFINE s == req[w].seeker
<1>1. /\ pc[w] \in {"check", "find"} /\ UnderWay(w)
      /\ req[w].op = IF pc[w] = "check" THEN "enroll" ELSE "cancel"
      /\ UNCHANGED <<event, enrollments>>
  BY DEF TypeInv, RequestInv, CheckEnroll, FindActive, UnderWay, dbVars
<1>2. event[e] # NoRow /\ seen[w] = event[e]
  BY <1>0, <1>1 DEF RowsInv, LockInv, Booking
<1>3. /\ Offered[e] # NoRow /\ (Ledger!HasRoom(e) <=> ~IsFull(seen[w]))
      /\ Booked' = Booked /\ Offered' = Offered
  BY <1>1, <1>2, RoomIsAccurate, TablesStay DEF SavesInv
<1>4. s \in Booked[e] <=> ActiveOf(e, s) # {}
  BY DEF Booked, Holders, ActiveOf, Active
<1>5. ASSUME NEW code, Return(w, code),
             \/ /\ code = "already_enrolled" /\ pc[w] = "check"
                /\ ActiveOf(e, s) # {}
             \/ /\ code = "event_full" /\ pc[w] = "check"
                /\ ActiveOf(e, s) = {} /\ IsFull(seen[w])
             \/ /\ code = "no_active_enrollment" /\ pc[w] = "find"
                /\ ActiveOf(e, s) = {}
      PROVE  Ledger!Enroll(w) \/ Ledger!Cancel(w)
  <2>1. Ledger!Becomes(w, code) /\ Ledger!Pending(w, req[w].op)
    BY <1>1, <1>5, ReturnBecomes
  <2> QED
    BY <1>0, <1>1, <1>3, <1>4, <1>5, <2>1 DEF Ledger!Enroll, Ledger!Cancel
<1>6. ASSUME NEW label \in {"insert", "mark"}, GoTo(w, label), req' = req
      PROVE  UNCHANGED Ledger!ledgerVars
  <2>1. UnderWay(w)'
    BY <1>6 DEF TypeInv, TypeOK, GoTo, UnderWay
  <2> QED
    BY <1>1, <1>6, <2>1, Invisible
<1> QED
  BY <1>0, <1>5, <1>6 DEF CheckEnroll, FindActive

(* A booking takes effect where it is committed.                           *)
LEMMA EnrollRefines ==
    ASSUME TypeInv, RowsInv, SavesInv, NEW w \in Workers, Commit(w),
           req[w].op = "enroll"
    PROVE  Ledger!Enroll(w)
<1>1. PICK e \in Events, row \in Row, r \in Enrollment : EnrollEffect(w, e, row, r)
  BY EnrollCommits
<1> DEFINE s == req[w].seeker
<1>2. Ledger!Becomes(w, "enrolled") /\ Ledger!Pending(w, "enroll")
  <2>1. UnderWay(w) /\ Return(w, "enrolled")
    BY <1>1 DEF EnrollEffect, UnderWay, Commit
  <2> QED
    BY <2>1, ReturnBecomes
<1>3. Holders(e)' = Holders(e) \cup {s} /\ s \notin Holders(e)
  <2>1. Active(e)' = Active(e) \cup {r} /\ r.seeker = s
    BY <1>1 DEF EnrollEffect, Active
  <2>2. s \notin Holders(e)
    BY <1>1 DEF EnrollEffect, ActiveOf, Holders, Active
  <2> QED
    BY <2>1, <2>2 DEF Holders
<1>4. \A x \in Events : x # e => Holders(x)' = Holders(x)
  BY <1>1 DEF EnrollEffect, Holders, Active
<1>5. Booked' = [Booked EXCEPT ![e] = @ \cup {s}] /\ s \notin Booked[e]
  BY <1>3, <1>4 DEF Booked
<1>6. /\ event[e] # NoRow /\ row # NoRow
      /\ event' = [event EXCEPT ![e] = row] /\ row.capacity = event[e].capacity
  BY <1>1, NullsAssumption DEF EnrollEffect
<1>7. Offered' = Offered
  BY <1>6 DEF Offered, TypeInv, TypeOK
<1>8. Offered[e] = event[e].capacity /\ Offered[e] # NoRow
  BY <1>6, OfferedFacts
<1>9. Ledger!HasRoom(e)
  <2>1. /\ event[e].seats_taken \in Int /\ row.seats_taken = event[e].seats_taken + 1
        /\ row.capacity = event[e].capacity /\ ChecksHold(row)
        /\ event[e].capacity \in Nat \cup {Unlimited}
    BY <1>1 DEF EnrollEffect, Row, Capacity
  <2>2. ~IsFull(event[e])
    BY <2>1 DEF ChecksHold, IsFull
  <2> QED
    BY <1>6, <2>2, RoomIsAccurate DEF SavesInv
<1> QED
  BY <1>1, <1>2, <1>5, <1>7, <1>8, <1>9 DEF Ledger!Enroll, EnrollEffect

LEMMA CancelRefines ==
    ASSUME TypeInv, RowsInv, NEW w \in Workers, Commit(w),
           req[w].op = "cancel"
    PROVE  Ledger!Cancel(w)
<1>1. PICK e \in Events, row \in Row, r \in Enrollment, q0 \in Enrollment :
               CancelEffect(w, e, row, r, q0)
  BY CancelCommits
<1> DEFINE s == req[w].seeker
<1>2. Ledger!Becomes(w, "canceled") /\ Ledger!Pending(w, "cancel")
  <2>1. UnderWay(w) /\ Return(w, "canceled")
    BY <1>1 DEF CancelEffect, UnderWay, Commit
  <2> QED
    BY <2>1, ReturnBecomes
<1>3. Holders(e)' = Holders(e) \ {s} /\ s \in Holders(e)
  <2>1. Active(e)' = Active(e) \ {r} /\ r.seeker = s /\ r \in Active(e)
    BY <1>1 DEF CancelEffect, Active, ActiveOf
  <2>2. \A q \in Active(e) : q.seeker = s => q = r
    BY <2>1 DEF RowsInv, OneActivePerSeeker, Active
  <2> QED
    BY <2>1, <2>2 DEF Holders
<1>4. \A x \in Events : x # e => Holders(x)' = Holders(x)
  BY <1>1 DEF CancelEffect, Holders, Active
<1>5. Booked' = [Booked EXCEPT ![e] = @ \ {s}] /\ s \in Booked[e]
  BY <1>3, <1>4 DEF Booked
<1>6. /\ event[e] # NoRow /\ row # NoRow
      /\ event' = [event EXCEPT ![e] = row] /\ row.capacity = event[e].capacity
  BY <1>1, NullsAssumption DEF CancelEffect
<1>7. Offered' = Offered
  BY <1>6 DEF Offered, TypeInv, TypeOK
<1>8. Offered[e] # NoRow
  BY <1>6, OfferedFacts
<1> QED
  BY <1>1, <1>2, <1>5, <1>7, <1>8 DEF Ledger!Cancel, CancelEffect

(* A destroyed event has no row, and no enrollment stays behind.            *)
LEMMA DestroyRefines ==
    ASSUME TypeInv, RowsInv, AnswersInv, NEW w \in Workers, Commit(w),
           req[w].op = "destroy"
    PROVE  Ledger!Close(w) \/ Ledger!Fail(w)
<1> DEFINE after == (enrollments \ tx[w].old) \cup tx[w].new
<1>0. PICK e \in Events : e = req[w].event
  BY RequestFacts DEF TypeInv, RequestInv, Commit
<1>1. /\ pc[w] = "commit" /\ Writing(w, "destroy") /\ tx[w].new = {}
      /\ \A r \in tx[w].old : r.event = e
      /\ UnderWay(w)
  BY <1>0 DEF RowsInv, WriteInv, Commit, Writing, UnderWay
<1>2. CASE LeavesOrphans(w, after)
  BY <1>1, <1>2, ErrorRefines DEF Commit
<1>3. CASE ~LeavesOrphans(w, after)
  <2>1. /\ Return(w, "destroyed") /\ enrollments' = after
        /\ event' = IF tx[w].row = Clean THEN event
                    ELSE [event EXCEPT ![e] = tx[w].row]
    BY <1>0, <1>3 DEF Commit, OkReply
  <2>2. Ledger!Becomes(w, "destroyed") /\ Ledger!Pending(w, "destroy")
    BY <1>1, <2>1, ReturnBecomes
  <2>3. event'[e] = NoRow /\ \A x \in Events : x # e => event'[x] = event[x]
    <3>1. CASE tx[w].row = Clean
      BY <1>0, <1>1, <2>1, <3>1 DEF AnswersInv, AnswerInv
    <3>2. CASE tx[w].row # Clean
      <4>1. tx[w].row = NoRow
        BY <1>1, <3>2 DEF RowsInv, WriteInv
      <4> QED
        BY <2>1, <3>2, <4>1 DEF TypeInv, TypeOK
    <3> QED
      BY <3>1, <3>2
  <2>4. \A r \in after : r.event # e
    <3>1. CASE tx[w].row = Clean
      <4>1. event[e] = NoRow
        BY <1>0, <1>1, <3>1 DEF AnswersInv, AnswerInv
      <4> QED
        BY <1>1, <4>1 DEF RowsInv, NoOrphans
    <3>2. CASE tx[w].row # Clean
      BY <1>0, <1>1, <1>3, <3>2 DEF RowsInv, WriteInv, LeavesOrphans
    <3> QED
      BY <3>1, <3>2
  <2>5. Booked' = [Booked EXCEPT ![e] = {}]
    <3>1. Holders(e)' = {}
      BY <2>1, <2>4 DEF Holders, Active
    <3>2. \A x \in Events : x # e => Holders(x)' = Holders(x)
      BY <1>1, <2>1 DEF Holders, Active
    <3> QED
      BY <3>1, <3>2 DEF Booked
  <2>6. Offered' = [Offered EXCEPT ![e] = NoRow]
    BY <2>3 DEF Offered
  <2> QED
    BY <1>0, <1>1, <2>2, <2>5, <2>6 DEF Ledger!Close
<1> QED
  BY <1>2, <1>3

(* A patch apart from others sets the capacity and nothing else.            *)
LEMMA PatchRefines ==
    ASSUME TypeInv, RowsInv, SavesInv, NEW w \in Workers,
           pc[w] \in {"save", "reinsert"}, SaveRow(w), UNCHANGED enrollments
    PROVE  Ledger!Resize(w) \/ Ledger!Fail(w)
<1>0. UnderWay(w)
  BY DEF UnderWay
<1>1. CASE ~ChecksHold(Patched(w))
  BY <1>0, <1>1, ErrorRefines DEF SaveRow
<1>2. CASE ChecksHold(Patched(w))
  <2>1. PICK e \in Events : e = req[w].event
    BY FreshSave, <1>2 DEF SavesInv
  <2>2. PICK c \in Capacities : c = req[w].capacity
    BY FreshSave, <1>2 DEF SavesInv
  <2>3. /\ event[e] \in Row /\ req[w].op = "patch"
        /\ event' = [event EXCEPT ![e].capacity = c]
    BY <1>2, <2>1, <2>2, FreshSave DEF SavesInv
  <2>4. Ledger!Becomes(w, "patched") /\ Ledger!Pending(w, "patch")
    BY <1>0, <1>2, <2>3, ReturnBecomes DEF SaveRow
  <2>5. Booked' = Booked
    BY DEF Booked, Holders, Active
  <2>6. Offered[e] # NoRow /\ Offered' = [Offered EXCEPT ![e] = c]
    <3>1. event[e] # NoRow /\ event'[e] # NoRow /\ event'[e].capacity = c
      BY <2>3, CapacitiesAssumption, NullsAssumption
      DEF TypeInv, TypeOK, Row, Capacity
    <3>2. \A x \in Events : x # e => event'[x] = event[x]
      BY <2>3 DEF TypeInv, TypeOK
    <3> QED
      BY <3>1, <3>2, OfferedFacts DEF Offered
  <2>7. Ledger!Fits(Ledger!Cardinality(Booked[e]), c)
    <3>1. /\ Patched(w).seats_taken = event[e].seats_taken
          /\ Patched(w).capacity = c
      <4>1. seen[w] = event[e]
        BY <2>1 DEF SavesInv, SaveInv
      <4> QED
        BY <2>2, <2>3, <4>1 DEF Patched, Row
    <3>2. event[e].seats_taken = Cardinality(Booked[e])
      BY <2>3, HoldersCount, NullsAssumption DEF SavesInv, SeatsAccurate, Booked
    <3> QED
      BY <1>2, <3>1, <3>2, LedgerCardinality DEF ChecksHold, Ledger!Fits
  <2> QED
    BY <2>1, <2>2, <2>3, <2>4, <2>5, <2>6, <2>7 DEF Ledger!Resize
<1> QED
  BY <1>1, <1>2

(* An answer that goes out is the one its call has come to.                 *)
LEMMA RespondRefines ==
    ASSUME TypeInv, AnswersInv, NEW w \in Workers, Respond(w)
    PROVE  Ledger!Answer(w)
<1>1. /\ Move(w) /\ Finish(w) /\ reply' = reply /\ pc[w] = "respond"
      /\ UNCHANGED <<event, enrollments>>
  BY DEF Move, Step, Respond, dbVars
<1>2. Outcome[w] = reply[w] /\ reply[w] # ""
  BY <1>1 DEF AnswersInv, AnswerInv, Outcome
<1> QED
  BY <1>1, <1>2, FinishEnds DEF Ledger!Answer

(* A client that gets no answer finds the ledger as its call has left it.   *)
LEMMA CrashRefines ==
    ASSUME TypeInv, NEW w \in Workers, Crash(w)
    PROVE  Ledger!Lose(w)
<1>1. /\ Move(w) /\ Finish(w) /\ reply'[w] = "" /\ pc[w] # "idle"
      /\ UNCHANGED <<event, enrollments>>
  BY DEF TypeInv, TypeOK, Move, Crash, dbVars
<1>2. req[w] # NoReq
  BY <1>1, NullsAssumption DEF TypeInv, RequestInv
<1> QED
  BY <1>1, <1>2, FinishEnds DEF Ledger!Lose

LEMMA CreateRefines ==
    ASSUME TypeInv, RowsInv, AnswersInv, NEW w \in Workers, NEW r \in Request, Create(w, r)
    PROVE  Ledger!Create(w, r)
<1>0. PICK e \in Events, c \in Capacities : e = r.event /\ c = r.capacity
  BY RequestFacts DEF Create
<1>1. /\ Move(w) /\ pc[w] = "idle" /\ pc'[w] = "respond" /\ reply'[w] = "created"
      /\ req[w] = NoReq /\ req' = [req EXCEPT ![w] = r] /\ r.op = "create"
      /\ event' = [event EXCEPT ![e] = [capacity |-> c, seats_taken |-> 0]]
      /\ event[e] = NoRow /\ enrollments' = enrollments
  BY <1>0 DEF TypeInv, TypeOK, RowsInv, IdsInv, AnswersInv, AnswerInv, Move, Create, FreshId
<1>2. Answered' = [Answered EXCEPT ![w] = ""] /\ Outcome' = [Outcome EXCEPT ![w] = "created"]
  BY <1>1, OthersStay DEF Answered, Outcome
<1>3. Booked' = Booked /\ Offered[e] = NoRow
  BY <1>1, OfferedFacts DEF Booked, Holders, Active
<1>4. Offered' = [Offered EXCEPT ![e] = c]
  <2>1. [capacity |-> c, seats_taken |-> 0] # NoRow
    BY CapacitiesAssumption, NullsAssumption DEF Row, Capacity
  <2> QED
    BY <1>1, <2>1 DEF TypeInv, TypeOK, Offered
<1> QED
  BY <1>0, <1>1, <1>2, <1>3, <1>4 DEF Ledger!Create

LEMMA ReceiveRefines ==
    ASSUME TypeInv, AnswersInv, NEW w \in Workers, NEW r \in Request, Receive(w, r)
    PROVE  Ledger!NotFound(w, r.event) \/ Ledger!Submit(w, r)
<1>1. /\ Move(w) /\ pc[w] = "idle" /\ req[w] = NoReq /\ r.event \in Events
      /\ UNCHANGED <<event, enrollments>> /\ r.op # "create"
  BY RequestFacts, OpsAssumption DEF AnswersInv, AnswerInv, Move, Receive, dbVars
<1>2. Booked' = Booked /\ Offered' = Offered
  BY <1>1, TablesStay
<1>3. CASE event[r.event] = NoRow
  <2>1. pc' = pc /\ reply' = [reply EXCEPT ![w] = "not_found"] /\ req' = req
    BY <1>3 DEF Receive
  <2>2. Answered' = [Answered EXCEPT ![w] = "not_found"] /\ Outcome' = Outcome
    BY <1>1, <2>1 DEF TypeInv, TypeOK, Answered, Outcome
  <2> QED
    BY <1>1, <1>2, <1>3, <2>1, <2>2, OfferedFacts DEF Ledger!NotFound
<1>4. CASE event[r.event] # NoRow
  <2>1. FirstStatement(r.op) \notin {"idle", "respond"}
    BY <1>1, RequestFacts DEF FirstStatement
  <2>2. pc'[w] \notin {"idle", "respond"} /\ req' = [req EXCEPT ![w] = r]
    BY <1>4, <2>1 DEF TypeInv, TypeOK, Receive
  <2>3. Answered' = [Answered EXCEPT ![w] = ""] /\ Outcome' = Outcome
    BY <1>1, <2>2, OthersStay DEF Answered, Outcome
  <2> QED
    BY <1>1, <1>2, <1>4, <2>2, <2>3, OfferedFacts DEF Ledger!Submit
<1> QED
  BY <1>3, <1>4

(* Every step of the API is a step of the ledger or leaves it alone.        *)
LEMMA LedgerStep ==
    ASSUME TypeInv, RowsInv, SavesInv, AnswersInv, [Next]_vars
    PROVE  [Ledger!Next]_(Ledger!ledgerVars)
<1>1. CASE UNCHANGED vars
  BY <1>1 DEF vars, Booked, Holders, Active, Offered, Answered, Outcome, Ledger!ledgerVars
<1>2. ASSUME NEW w \in Workers, Move(w)
      PROVE  [Ledger!Next]_(Ledger!ledgerVars)
  <2>1. ASSUME NEW r \in Request, Create(w, r) \/ Receive(w, r)
        PROVE  Ledger!Next
    <3>1. r \in Ledger!Call /\ r.event \in Events
      BY RequestFacts DEF Request, Ledger!Call
    <3> QED
      BY <2>1, <3>1, CreateRefines, ReceiveRefines DEF Ledger!Next
  <2>2. CASE Commit(w)
    <3>1. req[w].op \in {"enroll", "cancel", "destroy"}
      BY <2>2 DEF TypeInv, RequestInv, Commit
    <3> QED
      BY <2>2, <3>1, EnrollRefines, CancelRefines, DestroyRefines DEF Ledger!Next
  <2>3. CASE Respond(w) \/ Crash(w)
    BY <2>3, RespondRefines, CrashRefines DEF Ledger!Next
  <2>4. CASE CheckEnroll(w) \/ FindActive(w)
    BY <1>2, <2>4, RefusalRefines DEF Ledger!Next
  <2>5. CASE SaveRow(w) /\ (SaveUpdate(w) \/ SaveInsert(w))
    BY <2>5, PatchRefines DEF SaveUpdate, SaveInsert, Ledger!Next
  <2>6. CASE \/ SelectForUpdate(w) \/ InsertEnrollment(w) \/ MarkCanceled(w)
             \/ CountSeat(w) \/ DeleteEnrollments(w) \/ DeleteEvent(w)
             \/ DeadlockAbort(w) \/ (~SaveRow(w) /\ (SaveUpdate(w) \/ SaveInsert(w)))
    <3>1. UnderWay(w) /\ UNCHANGED <<event, enrollments, req>>
      BY <2>6
      DEF SelectForUpdate, InsertEnrollment, MarkCanceled, CountSeat, DeleteEnrollments,
          DeleteEvent, SaveUpdate, SaveInsert, DeadlockAbort, WaitsFor, UnderWay, Return,
          dbVars
    <3>2. \/ Return(w, "server_error")
          \/ \E label \in {"check", "find", "count", "erase", "commit", "reinsert"} :
                 GoTo(w, label)
      BY <2>6
      DEF SelectForUpdate, InsertEnrollment, MarkCanceled, CountSeat, DeleteEnrollments,
          DeleteEvent, SaveUpdate, SaveInsert, DeadlockAbort
    <3>3. CASE Return(w, "server_error")
      BY <3>1, <3>3, ErrorRefines DEF Ledger!Next
    <3>4. ASSUME NEW label \in {"check", "find", "count", "erase", "commit", "reinsert"},
                 GoTo(w, label)
          PROVE  UNCHANGED Ledger!ledgerVars
      <4>1. UnderWay(w)'
        BY <3>4 DEF TypeInv, TypeOK, GoTo, UnderWay
      <4> QED
        BY <1>2, <3>1, <4>1, Invisible
    <3> QED
      BY <3>2, <3>3, <3>4
  <2> QED
    BY <1>2, <2>1, <2>2, <2>3, <2>4, <2>5, <2>6 DEF Move, Step
<1> QED
  BY <1>1, <1>2, SomeoneMoves

(* Where no PATCH overlaps another request on its event, the API is one     *)
(* atomic ledger: every call takes effect at one instant, its answer is     *)
(* true at that instant, and a worker that is lost takes the answer with it *)
(* but neither makes nor unmakes an effect.                                *)
THEOREM ApiImplementsLedger == ApartSpec => ImplementsLedger
<1>1. Init => AnswersInv /\ Ledger!Init
  <2> SUFFICES ASSUME Init PROVE AnswersInv /\ Ledger!Init
    OBVIOUS
  <2>1. AnswersInv
    BY DEF Init, AnswersInv, AnswerInv, Writing
  <2>2. /\ Booked = [e \in Events |-> {}] /\ Offered = [e \in Events |-> NoRow]
        /\ Answered = [w \in Workers |-> ""] /\ Outcome = [w \in Workers |-> ""]
    BY DEF Init, Booked, Holders, Active, Offered, Answered, Outcome
  <2> QED
    BY <2>1, <2>2 DEF Init, Ledger!Init
<1>2. TypeInv /\ RowsInv /\ SavesInv /\ AnswersInv /\ [Next]_vars => AnswersInv'
  BY AnswersStep
<1>3. TypeInv /\ RowsInv /\ SavesInv /\ AnswersInv /\ [Next]_vars
        => [Ledger!Next]_(Ledger!ledgerVars)
  BY LedgerStep
<1>4. [Next /\ PatchesApart']_vars => [Next]_vars
  OBVIOUS
<1>5. ApartSpec => [](TypeInv /\ RowsInv /\ SavesInv)
  BY SavesInvariant, PTL
<1> QED
  BY <1>1, <1>2, <1>3, <1>4, <1>5, PTL DEF ApartSpec, ImplementsLedger, Ledger!Spec
=============================================================================
