-------------------------- MODULE MaintenanceProofs --------------------------
(* What TLAPS proves of Maintenance, for any events, accounts and           *)
(* capacities: the counter is exact up to what seed_demo's cascade left     *)
(* taken, nothing is oversold, and a reseed restores the demo.              *)
EXTENDS Maintenance, FiniteSetTheorems, TLAPS

(* Constants *)
LEMMA Capacities == \A e \in Events : Capacity[e] \in Nat /\ Capacity[e] >= 1
BY DemoAssumption

LEMMA Demo ==
    /\ Concurrency \in DemoEvents /\ Lifecycle \in DemoEvents
    /\ Concurrency # Lifecycle /\ DemoEvents \subseteq Events /\ OtherEvents \subseteq Events
    /\ \A e \in DemoEvents : e \notin OtherEvents
    /\ FirstSeekers \subseteq DemoSeekers /\ LifecycleSeeker \in DemoSeekers
    /\ LifecycleSeeker \notin FirstSeekers
    /\ DemoSeekers \subseteq Seekers /\ \A s \in DemoSeekers : s \notin RealSeekers
BY DemoAssumption DEF DemoEvents, DemoSeekers, Events, Seekers

-----------------------------------------------------------------------------
(* Counting the enrollments of an event. *)

LEMMA OfType ==
    ASSUME NEW d, IsFiniteSet(d.active), NEW e
    PROVE  IsFiniteSet(Of(d, e)) /\ Cardinality(Of(d, e)) \in Nat
<1>1. Of(d, e) \in SUBSET d.active
  BY DEF Of
<1>2. IsFiniteSet(Of(d, e))
  BY <1>1, FS_Subset
<1> QED BY <1>2, FS_CardinalityType

(* A pair more or less counts for its own event. *)
LEMMA OfAdd ==
    ASSUME NEW d, NEW c, IsFiniteSet(d.active), NEW p \in Pair, p \notin d.active,
           c.active = d.active \cup {p}, NEW e
    PROVE  Cardinality(Of(c, e)) = Cardinality(Of(d, e)) + IF e = p[1] THEN 1 ELSE 0
<1>1. IsFiniteSet(Of(d, e)) /\ Cardinality(Of(d, e)) \in Nat
  BY OfType
<1>2. CASE e = p[1]
  <2>1. Of(c, e) = Of(d, e) \cup {p} /\ p \notin Of(d, e)
    BY <1>2 DEF Of
  <2> QED BY <1>1, <1>2, <2>1, FS_AddElement
<1>3. CASE e # p[1]
  <2>1. Of(c, e) = Of(d, e)
    BY <1>3 DEF Of
  <2> QED BY <1>1, <1>3, <2>1
<1> QED BY <1>2, <1>3

LEMMA OfRemove ==
    ASSUME NEW d, NEW c, IsFiniteSet(d.active), NEW p \in d.active,
           c.active = d.active \ {p}, NEW e
    PROVE  Cardinality(Of(c, e)) = Cardinality(Of(d, e)) - IF e = p[1] THEN 1 ELSE 0
<1>1. IsFiniteSet(Of(d, e)) /\ Cardinality(Of(d, e)) \in Nat
  BY OfType
<1>2. CASE e = p[1]
  <2>1. Of(c, e) = Of(d, e) \ {p} /\ p \in Of(d, e)
    BY <1>2 DEF Of
  <2> QED BY <1>1, <1>2, <2>1, FS_RemoveElement
<1>3. CASE e # p[1]
  <2>1. Of(c, e) = Of(d, e)
    BY <1>3 DEF Of
  <2> QED BY <1>1, <1>3, <2>1
<1> QED BY <1>2, <1>3

-----------------------------------------------------------------------------
(* The record that the tables are. *)
Db == [events : SUBSET Events, seeded : BOOLEAN, seats : [Events -> Nat],
       active : SUBSET Pair, canceled : [Pair -> Nat]]

LEMMA EnrollInIs ==
    ASSUME NEW d \in Db, NEW p \in Pair
    PROVE  /\ EnrollIn(d, p) \in Db
           /\ EnrollIn(d, p).events = d.events /\ EnrollIn(d, p).seeded = d.seeded
           /\ EnrollIn(d, p).active = d.active \cup {p}
           /\ EnrollIn(d, p).canceled = d.canceled
           /\ \A e \in Events : EnrollIn(d, p).seats[e] = d.seats[e] + IF e = p[1] THEN 1 ELSE 0
<1> DEFINE n == [d.seats EXCEPT ![p[1]] = @ + 1]
<1>1. n \in [Events -> Nat] /\ \A e \in Events : n[e] = d.seats[e] + IF e = p[1] THEN 1 ELSE 0
  BY DEF Db, Pair
<1>2. EnrollIn(d, p) = [d EXCEPT !.active = @ \cup {p}, !.seats = n]
  BY DEF EnrollIn, Db
<1> HIDE DEF n
<1>3. EnrollIn(d, p) \in Db
  <2>1. d.active \cup {p} \in SUBSET Pair
    BY DEF Db
  <2> QED BY <1>1, <1>2, <2>1 DEF Db
<1>4. /\ EnrollIn(d, p).events = d.events /\ EnrollIn(d, p).seeded = d.seeded
      /\ EnrollIn(d, p).active = d.active \cup {p}
      /\ EnrollIn(d, p).canceled = d.canceled /\ EnrollIn(d, p).seats = n
  BY <1>2 DEF Db
<1> QED BY <1>1, <1>3, <1>4

LEMMA CancelInIs ==
    ASSUME NEW d \in Db, NEW p \in Pair, d.seats[p[1]] >= 1
    PROVE  /\ CancelIn(d, p) \in Db
           /\ CancelIn(d, p).events = d.events /\ CancelIn(d, p).seeded = d.seeded
           /\ CancelIn(d, p).active = d.active \ {p}
           /\ CancelIn(d, p).canceled = [d.canceled EXCEPT ![p] = @ + 1]
           /\ \A e \in Events : CancelIn(d, p).seats[e] = d.seats[e] - IF e = p[1] THEN 1 ELSE 0
<1> DEFINE n == [d.seats EXCEPT ![p[1]] = @ - 1]  c == [d.canceled EXCEPT ![p] = @ + 1]
<1>1. n \in [Events -> Nat] /\ \A e \in Events : n[e] = d.seats[e] - IF e = p[1] THEN 1 ELSE 0
  BY DEF Db, Pair
<1>2. c \in [Pair -> Nat]
  BY DEF Db
<1>3. CancelIn(d, p) = [d EXCEPT !.active = @ \ {p}, !.canceled = c, !.seats = n]
  BY DEF CancelIn, Db
<1> HIDE DEF n, c
<1>4. CancelIn(d, p) \in Db
  BY <1>1, <1>2, <1>3 DEF Db
<1>5. /\ CancelIn(d, p).events = d.events /\ CancelIn(d, p).seeded = d.seeded
      /\ CancelIn(d, p).active = d.active \ {p}
      /\ CancelIn(d, p).canceled = c /\ CancelIn(d, p).seats = n
  BY <1>3 DEF Db
<1> QED BY <1>1, <1>4, <1>5 DEF c

LEMMA Initially == Init => LedgerInv
<1> SUFFICES ASSUME Init PROVE LedgerInv
  OBVIOUS
<1>1. PICK rows \in SUBSET (OtherEvents \X RealSeekers),
           old \in SUBSET (OtherEvents \X RealSeekers) :
        /\ IsFiniteSet(rows)
        /\ db = [events |-> OtherEvents, seeded |-> FALSE, seats |-> [e \in Events |-> 0],
              active |-> rows, canceled |-> [p \in Pair |-> IF p \in old THEN 1 ELSE 0]]
  BY DEF Init
<1>2. serving = FALSE /\ applied = FALSE /\ lost = [e \in OtherEvents |-> 0]
  BY DEF Init
<1>3. /\ db.events = OtherEvents /\ db.seeded = FALSE /\ db.active = rows
      /\ IsFiniteSet(db.active)
  BY <1>1
<1>4. TypeOK
  <2>1. rows \in SUBSET Pair
    BY DEF Pair, Events, Seekers
  <2>2. [p \in Pair |-> IF p \in old THEN 1 ELSE 0] \in [Pair -> Nat]
    OBVIOUS
  <2>3. OtherEvents \in SUBSET Events /\ [e \in Events |-> 0] \in [Events -> Nat]
    BY DEF Events
  <2> QED BY <1>1, <1>2, <2>1, <2>2, <2>3 DEF TypeOK
<1>5. \A p \in db.active : p[1] \in db.events /\ p[2] \notin DemoSeekers
  BY <1>3, Demo
<1> QED BY <1>2, <1>3, <1>4, <1>5 DEF LedgerInv, DriftIsLost

(* One enrollment or one cancellation moves the counter with the rows. *)
LEMMA EnrollKeeps == ASSUME LedgerInv, NEW p \in Pair, Enroll(p) PROVE LedgerInv'
<1>1. /\ applied /\ p[1] \in db.events /\ (p[2] \in RealSeekers \/ db.seeded)
      /\ p \notin db.active /\ db.seats[p[1]] < Capacity[p[1]]
      /\ db' = EnrollIn(db, p) /\ UNCHANGED <<serving, applied, lost>>
  BY DEF LedgerInv, Enroll
<1>2. db \in Db /\ p[1] \in Events /\ Capacity[p[1]] \in Nat
  BY Capacities DEF LedgerInv, TypeOK, Db, Pair
<1>3. /\ db' \in Db /\ db'.events = db.events /\ db'.seeded = db.seeded
      /\ db'.active = db.active \cup {p}
      /\ \A e \in Events : db'.seats[e] = db.seats[e] + IF e = p[1] THEN 1 ELSE 0
  BY <1>1, <1>2, EnrollInIs
<1>4. IsFiniteSet(db.active) /\ IsFiniteSet(db'.active)
  BY <1>3, FS_AddElement DEF LedgerInv
<1>5. DriftIsLost'
  <2>1. ASSUME NEW e \in db.events
        PROVE  db'.seats[e] = Cardinality(Of(db', e)) + IF e \in OtherEvents THEN lost[e] ELSE 0
    <3>1. e \in Events /\ Cardinality(Of(db, e)) \in Nat
      BY <1>2, <1>4, OfType DEF Db
    <3>2. Cardinality(Of(db', e)) = Cardinality(Of(db, e)) + IF e = p[1] THEN 1 ELSE 0
      BY <1>1, <1>3, <1>4, OfAdd
    <3>3. db.seats[e] = Cardinality(Of(db, e)) + IF e \in OtherEvents THEN lost[e] ELSE 0
      BY <1>1 DEF LedgerInv, DriftIsLost
    <3>4. e \in OtherEvents => lost[e] \in Nat
      BY DEF LedgerInv, TypeOK
    <3> QED BY <1>3, <3>1, <3>2, <3>3, <3>4
  <2> QED BY <1>1, <1>3, <2>1 DEF DriftIsLost
<1>6. TypeOK'
  BY <1>1, <1>3 DEF LedgerInv, TypeOK, Db
<1>7. \A e \in db'.events : db'.seats[e] <= Capacity[e]
  <2> SUFFICES ASSUME NEW e \in db'.events PROVE db'.seats[e] <= Capacity[e]
    OBVIOUS
  <2>1. e \in Events /\ db.seats[e] \in Nat /\ Capacity[e] \in Nat /\ db.seats[e] <= Capacity[e]
    BY <1>1, <1>2, <1>3, Capacities DEF LedgerInv, Db
  <2> QED BY <1>1, <1>3, <2>1
<1>8. \A q \in db'.active : q[1] \in db'.events /\ (q[2] \in DemoSeekers => db'.seeded)
  BY <1>1, <1>3, Demo DEF LedgerInv
<1> QED BY <1>1, <1>3, <1>4, <1>5, <1>6, <1>7, <1>8 DEF LedgerInv

LEMMA CancelKeeps == ASSUME LedgerInv, NEW p \in Pair, Cancel(p) PROVE LedgerInv'
<1>1. /\ applied /\ p \in db.active /\ db' = CancelIn(db, p)
      /\ UNCHANGED <<serving, applied, lost>>
  BY DEF LedgerInv, Cancel
<1>2. /\ db \in Db /\ p[1] \in Events /\ p[1] \in db.events /\ IsFiniteSet(db.active)
  BY <1>1 DEF LedgerInv, TypeOK, Db, Pair
<1>3. \A e \in db.events :
        /\ Cardinality(Of(db, e)) \in Nat /\ (e \in OtherEvents => lost[e] \in Nat)
        /\ db.seats[e] = Cardinality(Of(db, e)) + IF e \in OtherEvents THEN lost[e] ELSE 0
  BY <1>1, <1>2, OfType DEF LedgerInv, TypeOK, DriftIsLost
<1>4. db.seats[p[1]] >= 1
  <2>1. Of(db, p[1]) # {} /\ IsFiniteSet(Of(db, p[1]))
    BY <1>1, <1>2, OfType DEF Of
  <2>2. Cardinality(Of(db, p[1])) # 0
    BY <2>1, FS_EmptySet
  <2> QED BY <1>2, <1>3, <2>2
<1>5. /\ db'.events = db.events /\ db'.seeded = db.seeded
      /\ db'.active = db.active \ {p}
      /\ \A e \in Events : db'.seats[e] = db.seats[e] - IF e = p[1] THEN 1 ELSE 0
  <2>1. db \in Db /\ p \in Pair /\ db.seats[p[1]] >= 1
    BY <1>2, <1>4
  <2>2. /\ CancelIn(db, p).events = db.events /\ CancelIn(db, p).seeded = db.seeded
        /\ CancelIn(db, p).active = db.active \ {p}
        /\ \A e \in Events :
              CancelIn(db, p).seats[e] = db.seats[e] - IF e = p[1] THEN 1 ELSE 0
    BY <2>1, CancelInIs
  <2> QED BY <1>1, <2>2
<1>6. db' \in Db
  <2>1. db \in Db /\ db.seats[p[1]] >= 1
    BY <1>2, <1>4
  <2>2. CancelIn(db, p) \in Db
    BY <2>1, CancelInIs
  <2> QED BY <1>1, <2>2
<1>7. IsFiniteSet(db'.active)
  <2>1. IsFiniteSet(db.active \ {p})
    BY <1>2, FS_RemoveElement
  <2> QED BY <1>5, <2>1
<1>8. DriftIsLost'
  <2>1. ASSUME NEW e \in db.events
        PROVE  db'.seats[e] = Cardinality(Of(db', e)) + IF e \in OtherEvents THEN lost[e] ELSE 0
    <3>1. e \in Events
      BY <1>2 DEF Db
    <3>2. Cardinality(Of(db', e)) = Cardinality(Of(db, e)) - IF e = p[1] THEN 1 ELSE 0
      BY <1>1, <1>2, <1>5, OfRemove
    <3> QED BY <1>3, <1>5, <3>1, <3>2
  <2> QED BY <1>1, <1>5, <2>1 DEF DriftIsLost
<1>9. TypeOK'
  BY <1>1, <1>6 DEF LedgerInv, TypeOK, Db
<1>10. \A e \in db'.events : db'.seats[e] <= Capacity[e]
  <2> SUFFICES ASSUME NEW e \in db'.events PROVE db'.seats[e] <= Capacity[e]
    OBVIOUS
  <2>1. e \in Events /\ db.seats[e] \in Nat /\ Capacity[e] \in Nat /\ db.seats[e] <= Capacity[e]
    BY <1>1, <1>2, <1>5, Capacities DEF LedgerInv, Db
  <2> QED BY <1>5, <2>1
<1>11. \A q \in db'.active : q[1] \in db'.events /\ (q[2] \in DemoSeekers => db'.seeded)
  BY <1>1, <1>5 DEF LedgerInv
<1> QED BY <1>1, <1>5, <1>7, <1>8, <1>9, <1>10, <1>11 DEF LedgerInv

(* The backfill counts the rows; if one event does not fit, nothing is done.*)
LEMMA StartKeeps == ASSUME LedgerInv, Start PROVE LedgerInv'
<1>1. CASE UNCHANGED <<db, applied, lost>> /\ (applied \/ serving' = serving)
  <2>1. TypeOK' /\ (applied \/ serving' = serving)
    BY <1>1 DEF LedgerInv, TypeOK, Start
  <2>2. DriftIsLost'
    BY <1>1, Zenon DEF LedgerInv, DriftIsLost, Of
  <2>3. IsFiniteSet(db'.active)
    BY <1>1 DEF LedgerInv
  <2> QED BY <1>1, <2>1, <2>2, <2>3 DEF LedgerInv
<1>2. CASE ~applied /\ Fits(Backfilled) /\ db' = Backfilled /\ serving' = TRUE
           /\ applied' = TRUE /\ lost' = lost
  <2>1. db \in Db /\ IsFiniteSet(db.active)
    BY DEF LedgerInv, TypeOK, Db
  <2>2. \A e : Cardinality(Of(db, e)) \in Nat
    BY <2>1, OfType
  <2> DEFINE n == [e \in Events |-> IF e \in db.events THEN RealCount(db, e) ELSE 0]
  <2>3. n \in [Events -> Nat] /\ \A e \in db.events : n[e] = Cardinality(Of(db, e))
    BY <2>1, <2>2 DEF RealCount, Db
  <2>4. db' = [db EXCEPT !.seats = n]
    BY <1>2 DEF Backfilled
  <2> HIDE DEF n
  <2>5. /\ db' \in Db /\ db'.events = db.events /\ db'.seeded = db.seeded
        /\ db'.active = db.active /\ db'.seats = n
    BY <2>1, <2>3, <2>4 DEF Db
  <2>6. TypeOK'
    BY <1>2, <2>5 DEF LedgerInv, TypeOK, Db
  <2>7. lost = [e \in OtherEvents |-> 0]
    BY <1>2 DEF LedgerInv
  <2>8. DriftIsLost'
    <3>1. ASSUME NEW e \in db.events
          PROVE  db'.seats[e] = Cardinality(Of(db', e)) + IF e \in OtherEvents THEN lost'[e] ELSE 0
      <4>1. Of(db', e) = Of(db, e)
        BY <2>5 DEF Of
      <4> QED BY <1>2, <2>2, <2>3, <2>5, <2>7, <4>1
    <3> QED BY <2>5, <3>1 DEF DriftIsLost
  <2>9. \A e \in db'.events : db'.seats[e] <= Capacity[e]
    BY <1>2 DEF Fits
  <2> QED BY <1>2, <2>5, <2>6, <2>8, <2>9 DEF LedgerInv
<1> QED BY <1>1, <1>2 DEF Start, LedgerInv, TypeOK

-----------------------------------------------------------------------------
(* seed_demo. *)
Kept == {p \in db.active : ~Doomed(p)}
Nine == {Concurrency} \X FirstSeekers

(* What handle leaves behind. *)
LEMMA SeededIs ==
    ASSUME LedgerInv
    PROVE  LET d == Seeded(Deleted)
           IN /\ d \in Db /\ d.events = db.events \cup DemoEvents /\ d.seeded
              /\ d.active = Kept \cup Nine \cup {LifecyclePair}
              /\ d.canceled = [p \in Pair |-> IF p = LifecyclePair THEN 1
                                              ELSE IF Doomed(p) THEN 0 ELSE db.canceled[p]]
              /\ \A e \in Events : d.seats[e] =
                    IF e = Concurrency THEN Cardinality(FirstSeekers)
                    ELSE IF e = Lifecycle THEN 1 ELSE db.seats[e]
<1> DEFINE l == LifecyclePair
           c == Created(Deleted)
           k == [p \in Pair |-> IF Doomed(p) THEN 0 ELSE db.canceled[p]]
           z == [e \in Events |-> IF e \in DemoEvents THEN 0 ELSE db.seats[e]]
           n == [c EXCEPT !.active = @ \cup Nine,
                          !.seats[Concurrency] = @ + Cardinality(FirstSeekers)]
           m == [z EXCEPT ![Concurrency] = @ + Cardinality(FirstSeekers)]
<1>1. db \in Db /\ l \in Pair /\ Nine \subseteq Pair /\ Cardinality(FirstSeekers) \in Nat
  <2>1. Cardinality(FirstSeekers) \in Nat
    BY DemoAssumption, FS_CardinalityType
  <2> QED BY <2>1, Demo DEF LedgerInv, TypeOK, Db, Pair, LifecyclePair, Nine
<1>2. k \in [Pair -> Nat] /\ z \in [Events -> Nat] /\ m \in [Events -> Nat]
      /\ m[Concurrency] = Cardinality(FirstSeekers) /\ m[Lifecycle] = 0
      /\ \A e \in Events : e \notin DemoEvents => m[e] = db.seats[e]
  BY <1>1, Demo DEF Db
<1>3. Deleted = [db EXCEPT !.active = Kept, !.canceled = k, !.seats = z]
  BY <1>1 DEF Deleted, Kept, Db
<1>4. c = [Deleted EXCEPT !.events = @ \cup DemoEvents, !.seeded = TRUE]
  BY DEF Created
<1> HIDE DEF k, z, c
<1>5. c = [events |-> db.events \cup DemoEvents, seeded |-> TRUE, seats |-> z,
           active |-> Kept, canceled |-> k]
  BY <1>1, <1>3, <1>4 DEF Db
<1>6. n = [events |-> db.events \cup DemoEvents, seeded |-> TRUE, seats |-> m,
           active |-> Kept \cup Nine, canceled |-> k]
  <2>1. n = [c EXCEPT !.active = Kept \cup Nine, !.seats = m]
    BY <1>5
  <2> HIDE DEF n, m
  <2> QED BY <1>5, <2>1
<1> HIDE DEF n, m
<1>7. n \in Db /\ Kept \subseteq Pair
  <2>1. db.events \cup DemoEvents \in SUBSET Events /\ Kept \subseteq Pair
    BY <1>1, Demo DEF Db, Kept
  <2> QED BY <1>1, <1>2, <1>6, <2>1 DEF Db
<1>8. n.events = db.events \cup DemoEvents /\ n.seeded /\ n.seats = m
      /\ n.active = Kept \cup Nine /\ n.canceled = k
  BY <1>6
<1>9. Lifecycle \in Events /\ Concurrency \in Events /\ Concurrency # Lifecycle /\ l[1] = Lifecycle
  BY Demo DEF LifecyclePair
<1> DEFINE e1 == EnrollIn(n, l)  e2 == CancelIn(e1, l)  e3 == EnrollIn(e2, l)
<1>10. Seeded(Deleted) = e3
  BY DEF Seeded, Nine, n, c
<1>11. /\ e1 \in Db /\ e1.events = n.events /\ e1.seeded = n.seeded
       /\ e1.active = n.active \cup {l} /\ e1.canceled = k
       /\ \A e \in Events : e1.seats[e] = m[e] + IF e = Lifecycle THEN 1 ELSE 0
  <2>1. /\ EnrollIn(n, l) \in Db
        /\ EnrollIn(n, l).events = n.events /\ EnrollIn(n, l).seeded = n.seeded
        /\ EnrollIn(n, l).active = n.active \cup {l} /\ EnrollIn(n, l).canceled = n.canceled
        /\ \A e \in Events : EnrollIn(n, l).seats[e] = n.seats[e] + IF e = l[1] THEN 1 ELSE 0
    BY <1>1, <1>7, EnrollInIs
  <2> QED BY <1>8, <1>9, <2>1
<1> HIDE DEF e1
<1>12. e1.seats[l[1]] >= 1
  BY <1>2, <1>9, <1>11
<1>13. /\ e2 \in Db /\ e2.events = e1.events /\ e2.seeded = e1.seeded
       /\ e2.active = e1.active \ {l} /\ e2.canceled = [k EXCEPT ![l] = @ + 1]
       /\ \A e \in Events : e2.seats[e] = e1.seats[e] - IF e = Lifecycle THEN 1 ELSE 0
  <2>1. /\ CancelIn(e1, l) \in Db
        /\ CancelIn(e1, l).events = e1.events /\ CancelIn(e1, l).seeded = e1.seeded
        /\ CancelIn(e1, l).active = e1.active \ {l}
        /\ CancelIn(e1, l).canceled = [e1.canceled EXCEPT ![l] = @ + 1]
        /\ \A e \in Events : CancelIn(e1, l).seats[e] = e1.seats[e] - IF e = l[1] THEN 1 ELSE 0
    BY <1>1, <1>11, <1>12, CancelInIs
  <2> QED BY <1>9, <1>11, <2>1
<1> HIDE DEF e2
<1>14. /\ e3 \in Db /\ e3.events = e2.events /\ e3.seeded = e2.seeded
       /\ e3.active = e2.active \cup {l} /\ e3.canceled = e2.canceled
       /\ \A e \in Events : e3.seats[e] = e2.seats[e] + IF e = Lifecycle THEN 1 ELSE 0
  <2>1. /\ EnrollIn(e2, l) \in Db
        /\ EnrollIn(e2, l).events = e2.events /\ EnrollIn(e2, l).seeded = e2.seeded
        /\ EnrollIn(e2, l).active = e2.active \cup {l} /\ EnrollIn(e2, l).canceled = e2.canceled
        /\ \A e \in Events : EnrollIn(e2, l).seats[e] = e2.seats[e] + IF e = l[1] THEN 1 ELSE 0
    BY <1>1, <1>13, EnrollInIs
  <2> QED BY <1>9, <2>1
<1> HIDE DEF e3
<1>15. e3.active = Kept \cup Nine \cup {LifecyclePair}
  BY <1>8, <1>11, <1>13, <1>14
<1>16. e3.canceled = [p \in Pair |-> IF p = LifecyclePair THEN 1
                                     ELSE IF Doomed(p) THEN 0 ELSE db.canceled[p]]
  <2>1. k[l] = 0
    BY <1>1, Demo DEF k, Doomed, LifecyclePair
  <2>2. [k EXCEPT ![l] = @ + 1] = [p \in Pair |-> IF p = LifecyclePair THEN 1
                                     ELSE IF Doomed(p) THEN 0 ELSE db.canceled[p]]
    <3>1. \A p \in Pair : k[p] = IF Doomed(p) THEN 0 ELSE db.canceled[p]
      BY DEF k
    <3>2. [k EXCEPT ![l] = @ + 1] = [p \in Pair |-> IF p = l THEN k[p] + 1 ELSE k[p]]
      BY <1>2
    <3>3. \A p \in Pair : IF p = l THEN k[p] + 1 = 1 ELSE k[p] = IF Doomed(p) THEN 0 ELSE db.canceled[p]
      BY <2>1, <3>1
    <3> QED BY <3>2, <3>3
  <2> QED BY <1>13, <1>14, <2>2
<1>17. ASSUME NEW e \in Events
       PROVE  e3.seats[e] = IF e = Concurrency THEN Cardinality(FirstSeekers)
                            ELSE IF e = Lifecycle THEN 1 ELSE db.seats[e]
  <2>1. m[e] \in Nat /\ e1.seats[e] = m[e] + (IF e = Lifecycle THEN 1 ELSE 0)
        /\ e2.seats[e] = e1.seats[e] - (IF e = Lifecycle THEN 1 ELSE 0)
        /\ e3.seats[e] = e2.seats[e] + (IF e = Lifecycle THEN 1 ELSE 0)
    BY <1>2, <1>11, <1>13, <1>14
  <2>2. e \in DemoEvents => e = Concurrency \/ e = Lifecycle
    BY DEF DemoEvents
  <2> QED BY <1>2, <1>9, <2>1, <2>2
<1> QED BY <1>8, <1>10, <1>11, <1>13, <1>14, <1>15, <1>16, <1>17

(* The demo events have the enrollments that handle makes and no others;    *)
(* every other event loses those of the demo seekers.                       *)
LEMMA RowsAfter ==
    ASSUME LedgerInv, NEW d, d.active = Kept \cup Nine \cup {LifecyclePair}
    PROVE  /\ Of(d, Concurrency) = Nine /\ Of(d, Lifecycle) = {LifecyclePair}
           /\ \A e \in OtherEvents : Of(d, e) = {p \in Of(db, e) : p[2] \notin DemoSeekers}
<1>1. \A p \in Kept : p \in db.active /\ p[1] \notin DemoEvents /\ p[2] \notin DemoSeekers
  BY DEF Kept, Doomed
<1>2. \A p \in db.active : p[1] \notin DemoEvents /\ p[2] \notin DemoSeekers => p \in Kept
  BY DEF Kept, Doomed
<1>3. \A p \in Nine : p[1] = Concurrency
  BY DEF Nine
<1>4. LifecyclePair[1] = Lifecycle
  BY DEF LifecyclePair
<1>5. Of(d, Concurrency) = Nine
  BY <1>1, <1>3, <1>4, Demo DEF Of
<1>6. Of(d, Lifecycle) = {LifecyclePair}
  BY <1>1, <1>3, <1>4, Demo DEF Of
<1>7. ASSUME NEW e \in OtherEvents
      PROVE  Of(d, e) = {p \in Of(db, e) : p[2] \notin DemoSeekers}
  <2>1. e \notin DemoEvents /\ e # Concurrency /\ e # Lifecycle
    BY Demo
  <2> QED BY <1>1, <1>2, <1>3, <1>4, <2>1 DEF Of
<1> QED BY <1>5, <1>6, <1>7

LEMMA NineCount == IsFiniteSet(Nine) /\ Cardinality(Nine) = Cardinality(FirstSeekers)
<1>1. IsFiniteSet({Concurrency}) /\ Cardinality({Concurrency}) = 1
  BY FS_Singleton
<1>2. IsFiniteSet(FirstSeekers) /\ Cardinality(FirstSeekers) \in Nat
  BY DemoAssumption, FS_CardinalityType
<1>3. IsFiniteSet(Nine) /\ Cardinality(Nine) = 1 * Cardinality(FirstSeekers)
  BY <1>1, <1>2, FS_Product DEF Nine
<1> QED BY <1>2, <1>3

LEMMA SeedKeeps == ASSUME LedgerInv, SeedDemo PROVE LedgerInv'
<1>1. /\ applied /\ db' = Seeded(Deleted) /\ UNCHANGED <<serving, applied>>
      /\ lost' = [e \in OtherEvents |->
                    lost[e] + Cardinality({p \in Of(db, e) : p[2] \in DemoSeekers})]
  BY DEF SeedDemo
<1>2. /\ db' \in Db /\ db'.events = db.events \cup DemoEvents /\ db'.seeded
      /\ db'.active = Kept \cup Nine \cup {LifecyclePair}
      /\ \A e \in Events : db'.seats[e] =
            IF e = Concurrency THEN Cardinality(FirstSeekers)
            ELSE IF e = Lifecycle THEN 1 ELSE db.seats[e]
  BY <1>1, SeededIs
<1>3. db \in Db /\ db'.events = OtherEvents \cup DemoEvents /\ IsFiniteSet(db.active)
  BY <1>2, Zenon DEF LedgerInv, TypeOK, Db
<1>4. /\ \A e : IsFiniteSet(Of(db, e)) /\ Cardinality(Of(db, e)) \in Nat
      /\ \A e \in OtherEvents : lost[e] \in Nat
      /\ \A e \in db.events : /\ e \in Events /\ db.seats[e] <= Capacity[e]
                              /\ db.seats[e] = Cardinality(Of(db, e)) +
                                               IF e \in OtherEvents THEN lost[e] ELSE 0
  BY <1>1, <1>3, OfType DEF LedgerInv, TypeOK, DriftIsLost, Db
<1>5. ASSUME NEW e \in OtherEvents
      PROVE  /\ lost'[e] \in Nat
             /\ lost'[e] + Cardinality(Of(db', e)) = lost[e] + Cardinality(Of(db, e))
  <2> DEFINE S == Of(db, e)  T == {p \in Of(db, e) : p[2] \in DemoSeekers}
  <2>1. S \cap T = T /\ T \in SUBSET S /\ Of(db', e) = S \ T
    BY <1>2, RowsAfter
  <2>2. IsFiniteSet(S) /\ IsFiniteSet(T) /\ Cardinality(S) \in Nat /\ Cardinality(T) \in Nat
    BY <1>4, <2>1, FS_Subset, FS_CardinalityType
  <2>3. Cardinality(S \ T) = Cardinality(S) - Cardinality(T)
    BY <2>1, <2>2, FS_Difference
  <2>4. lost'[e] = lost[e] + Cardinality(T) /\ lost[e] \in Nat
    BY <1>1, <1>4
  <2> QED BY <2>1, <2>2, <2>3, <2>4
<1>6. /\ Cardinality(Of(db', Concurrency)) = Cardinality(FirstSeekers)
      /\ Cardinality(Of(db', Lifecycle)) = 1
  BY <1>2, RowsAfter, NineCount, FS_Singleton
<1>7. DriftIsLost'
  <2>1. ASSUME NEW e \in db'.events
        PROVE  db'.seats[e] = Cardinality(Of(db', e)) + IF e \in OtherEvents THEN lost'[e] ELSE 0
    <3>1. CASE e \in OtherEvents
      <4>1. e \in Events /\ e \in db.events /\ e # Concurrency /\ e # Lifecycle
        BY <3>1, Demo DEF LedgerInv
      <4>2. db'.seats[e] = Cardinality(Of(db, e)) + lost[e]
        BY <1>2, <1>4, <3>1, <4>1
      <4>3. Cardinality(Of(db', e)) \in Nat
        BY <1>2, <1>4, <3>1, RowsAfter, FS_Subset, FS_CardinalityType
      <4> QED BY <1>4, <1>5, <3>1, <4>2, <4>3
    <3>2. CASE e \in DemoEvents
      <4>1. e \notin OtherEvents /\ (e = Concurrency \/ e = Lifecycle) /\ e \in Events
        BY <3>2, Demo DEF DemoEvents
      <4>2. Cardinality(FirstSeekers) \in Nat
        BY DemoAssumption, FS_CardinalityType
      <4> QED BY <1>2, <1>6, <4>1, <4>2, Demo
    <3> QED BY <1>3, <3>1, <3>2
  <2> QED BY <2>1 DEF DriftIsLost
<1>8. ASSUME NEW e \in db'.events PROVE db'.seats[e] <= Capacity[e]
  <2>1. e \in OtherEvents \/ e = Concurrency \/ e = Lifecycle
    BY <1>3 DEF DemoEvents
  <2>2. e \in OtherEvents => e \in db.events /\ e \in Events /\ e # Concurrency /\ e # Lifecycle
    BY Demo DEF LedgerInv
  <2>3. /\ Concurrency \in Events /\ Lifecycle \in Events /\ Concurrency # Lifecycle
        /\ Capacity[Lifecycle] >= 1 /\ Capacity[Concurrency] \in Nat
        /\ Cardinality(FirstSeekers) = Capacity[Concurrency] - 1
    BY Demo, Capacities, DemoAssumption
  <2> QED BY <1>2, <1>4, <2>1, <2>2, <2>3
<1>9. TypeOK'
  <2>1. lost' \in [OtherEvents -> Nat]
    BY <1>1, <1>5
  <2> QED BY <1>1, <1>2, <2>1 DEF LedgerInv, TypeOK, Db
<1>10. IsFiniteSet(db'.active)
  <2>1. Kept \in SUBSET db.active
    BY DEF Kept
  <2>2. IsFiniteSet(Kept)
    BY <1>3, <2>1, FS_Subset
  <2>3. IsFiniteSet(Kept \cup Nine)
    BY <2>2, NineCount, FS_Union
  <2> QED BY <1>2, <2>3, FS_AddElement
<1>11. \A p \in db'.active : p[1] \in db'.events
  <2>1. \A p \in Kept : p[1] \in db.events
    BY DEF Kept, LedgerInv
  <2>2. \A p \in Nine : p[1] \in DemoEvents
    BY Demo DEF Nine
  <2>3. LifecyclePair[1] \in DemoEvents
    BY Demo DEF LifecyclePair
  <2> QED BY <1>2, <2>1, <2>2, <2>3
<1> QED BY <1>1, <1>2, <1>3, <1>7, <1>8, <1>9, <1>10, <1>11 DEF LedgerInv

-----------------------------------------------------------------------------
LEMMA LedgerStep == LedgerInv /\ [Next]_vars => LedgerInv'
<1> SUFFICES ASSUME LedgerInv, [Next]_vars PROVE LedgerInv'
  OBVIOUS
<1>1. CASE Start
  BY <1>1, StartKeeps
<1>2. CASE Stop
  <2>1. UNCHANGED <<db, applied, lost>> /\ serving' = FALSE
    BY <1>2 DEF Stop
  <2>2. DriftIsLost'
    BY <2>1, Zenon DEF LedgerInv, DriftIsLost, Of
  <2> QED BY <2>1, <2>2 DEF LedgerInv, TypeOK
<1>3. CASE SeedDemo
  BY <1>3, SeedKeeps
<1>4. CASE \E p \in Pair : Enroll(p) \/ Cancel(p)
  BY <1>4, EnrollKeeps, CancelKeeps
<1>5. CASE UNCHANGED vars
  <2>1. UNCHANGED <<db, serving, applied, lost>>
    BY <1>5 DEF vars
  <2>2. DriftIsLost'
    BY <2>1, Zenon DEF LedgerInv, DriftIsLost, Of
  <2> QED BY <2>1, <2>2 DEF LedgerInv, TypeOK
<1> QED BY <1>1, <1>2, <1>3, <1>4, <1>5 DEF Next

(* The ledger of an instance that is backfilled, restarted and reseeded: at *)
(* all times, seats_taken is the number of active enrollments plus what     *)
(* seed_demo's cascade left taken, and fits the capacity once backfilled.   *)
THEOREM LedgerInvariant == Spec => []LedgerInv
BY Initially, LedgerStep, PTL DEF Spec

(* While it serves, no event has more enrollments than seats.               *)
THEOREM NothingOversold == Spec => []NeverOverbooked
<1>1. LedgerInv => NeverOverbooked
  <2> SUFFICES ASSUME LedgerInv, serving, NEW e \in db.events
               PROVE  ~(Cardinality(Of(db, e)) > Capacity[e])
    BY DEF NeverOverbooked, Oversold
  <2>1. applied /\ db.seats[e] <= Capacity[e] /\ e \in Events
    BY DEF LedgerInv, TypeOK
  <2>2. db.seats[e] = Cardinality(Of(db, e)) + IF e \in OtherEvents THEN lost[e] ELSE 0
    BY <2>1 DEF LedgerInv, DriftIsLost
  <2>3. Cardinality(Of(db, e)) \in Nat /\ Capacity[e] \in Nat
        /\ (e \in OtherEvents => lost[e] \in Nat)
    BY <2>1, OfType, Capacities DEF LedgerInv, TypeOK
  <2> QED BY <2>1, <2>2, <2>3
<1> QED BY <1>1, LedgerInvariant, PTL

(* A reseed leaves exactly the demo it promises, and nothing of anybody     *)
(* else's is touched.                                                       *)
THEOREM ReseedRestoresDemo == Spec => ReseedIsExact
<1>1. ASSUME LedgerInv, SeedDemo
      PROVE  /\ \A p \in OtherEvents \X RealSeekers :
                   (p \in db.active) = (p \in db'.active) /\ db'.canceled[p] = db.canceled[p]
             /\ db'.seats[Concurrency] = Capacity[Concurrency] - 1
             /\ {p[2] : p \in Of(db', Concurrency)} = FirstSeekers
             /\ Of(db', Lifecycle) = {<<Lifecycle, LifecycleSeeker>>}
             /\ db'.canceled[<<Lifecycle, LifecycleSeeker>>] = 1
  <2>1. db' = Seeded(Deleted)
    BY <1>1 DEF SeedDemo
  <2>2. /\ db'.active = Kept \cup Nine \cup {LifecyclePair}
        /\ db'.canceled = [p \in Pair |-> IF p = LifecyclePair THEN 1
                                          ELSE IF Doomed(p) THEN 0 ELSE db.canceled[p]]
        /\ \A e \in Events : db'.seats[e] =
              IF e = Concurrency THEN Cardinality(FirstSeekers)
              ELSE IF e = Lifecycle THEN 1 ELSE db.seats[e]
    BY <1>1, <2>1, SeededIs
  <2>3. Of(db', Concurrency) = Nine /\ Of(db', Lifecycle) = {LifecyclePair}
    BY <1>1, <2>2, RowsAfter
  <2>4. ASSUME NEW p \in OtherEvents \X RealSeekers
        PROVE  (p \in db.active) = (p \in db'.active) /\ db'.canceled[p] = db.canceled[p]
    <3>1. p \in Pair /\ ~Doomed(p) /\ p # LifecyclePair /\ p \notin Nine
      BY Demo DEF Pair, Events, Seekers, Doomed, LifecyclePair, Nine
    <3>2. p \in Kept <=> p \in db.active
      BY <3>1 DEF Kept
    <3> QED BY <2>2, <3>1, <3>2
  <2>5. {p[2] : p \in Nine} = FirstSeekers
    <3>1. ASSUME NEW s \in FirstSeekers PROVE s \in {p[2] : p \in Nine}
      <4>1. <<Concurrency, s>> \in Nine /\ <<Concurrency, s>>[2] = s
        BY DEF Nine
      <4> QED BY <4>1
    <3>2. \A p \in Nine : p[2] \in FirstSeekers
      BY DEF Nine
    <3> QED BY <3>1, <3>2
  <2>6. db'.canceled[LifecyclePair] = 1
    <3>1. LifecyclePair \in Pair
      BY Demo DEF LifecyclePair, Pair
    <3> QED BY <2>2, <3>1
  <2> QED BY <2>2, <2>3, <2>4, <2>5, <2>6, Demo, DemoAssumption DEF LifecyclePair
<1>2. LedgerInv /\ [Next]_vars => [SeedDemo =>
             /\ \A p \in OtherEvents \X RealSeekers :
                   (p \in db.active) = (p \in db'.active) /\ db'.canceled[p] = db.canceled[p]
             /\ db'.seats[Concurrency] = Capacity[Concurrency] - 1
             /\ {p[2] : p \in Of(db', Concurrency)} = FirstSeekers
             /\ Of(db', Lifecycle) = {<<Lifecycle, LifecycleSeeker>>}
             /\ db'.canceled[<<Lifecycle, LifecycleSeeker>>] = 1]_vars
  BY <1>1
<1> QED BY <1>2, LedgerInvariant, PTL DEF Spec, ReseedIsExact
=============================================================================
