----------------------------- MODULE Maintenance -----------------------------
(***************************************************************************)
(* The writers outside the API: the migration that backfills seats_taken,   *)
(* run by entrypoint.sh before the server starts, and `manage.py seed_demo` *)
(* while it serves.  enroll and cancel are atomic here, which is what       *)
(* EnrollmentService!ImplementsLedger establishes.                          *)
(*                                                                         *)
(* seed_demo is one transaction.  A request that overlaps it either commits *)
(* first or finds its rows locked and then gone; foreign keys, checked at   *)
(* commit, make seed_demo roll back as a whole if a new row refers to what  *)
(* it deletes.  So it happens at once or not at all.                        *)
(***************************************************************************)
EXTENDS Integers, FiniteSets, FiniteSetsExt

CONSTANTS
    OtherEvents, Concurrency, Lifecycle,  \* real events; the two seeded ones
    RealSeekers,
    FirstSeekers,     \* seekers[:9]: enrolled in Concurrency
    LifecycleSeeker,  \* seekers[9]
    SpareSeekers,     \* the rest of the demo seekers
    Capacity,         \* of each event
    MaxCancels        \* bound: canceled rows there may be for Cancel to add one

DemoEvents == {Concurrency, Lifecycle}
DemoSeekers == FirstSeekers \cup SpareSeekers \cup {LifecycleSeeker}
Events == OtherEvents \cup DemoEvents
Seekers == RealSeekers \cup DemoSeekers
Pair == Events \X Seekers

ASSUME DemoAssumption ==
    /\ DemoEvents \cap OtherEvents = {} /\ Concurrency # Lifecycle
    /\ DemoSeekers \cap RealSeekers = {} /\ LifecycleSeeker \notin FirstSeekers
    /\ Capacity \in [Events -> Nat \ {0}] /\ MaxCancels \in Nat \ {0}
    /\ IsFiniteSet(FirstSeekers) /\ Cardinality(FirstSeekers) = Capacity[Concurrency] - 1

VARIABLES
    db,       \* events and demo accounts that exist, Event.seats_taken, and
              \* enrollments: the enrolled pairs and the number of canceled rows
    serving,  \* gunicorn is up
    applied,  \* the backfill is in django_migrations
    lost      \* history: seats that seed_demo's cascade left taken

vars == <<db, serving, applied, lost>>

Of(d, e) == {p \in d.active : p[1] = e}
Oversold == \E e \in db.events : Cardinality(Of(db, e)) > Capacity[e]

TypeOK ==
    /\ db \in [events : SUBSET Events, seeded : BOOLEAN, seats : [Events -> Nat],
               active : SUBSET Pair, canceled : [Pair -> Nat]]
    /\ serving \in BOOLEAN /\ applied \in BOOLEAN /\ lost \in [OtherEvents -> Nat]

-----------------------------------------------------------------------------
(* Faulty variants, one plausible bug each; not part of the specification.  *)

(* The backfill counts rows of any status, or skips events at 0. *)
RealCount_AllRows(d, e) ==
    Cardinality(Of(d, e)) + MapThenSumSet(LAMBDA p : d.canceled[p], {e} \X Seekers)
RealCount_SkipsZero(d, e) ==
    IF d.seats[e] = 0 THEN 0 ELSE Cardinality(Of(d, e))

(* seats_taken < capacity *)
Fits_Strictly(d) == \A e \in d.events : d.seats[e] < Capacity[e]

(* Every account at example.com. *)
Doomed_TooWide(p) == p[2] \in Seekers

-----------------------------------------------------------------------------
(* Phase 6 leaves enrollments behind and has never moved seats_taken. *)
Init ==
    /\ \E rows \in SUBSET (OtherEvents \X RealSeekers), old \in SUBSET (OtherEvents \X RealSeekers) :
        IsFiniteSet(rows) /\
        db = [events |-> OtherEvents, seeded |-> FALSE, seats |-> [e \in Events |-> 0],
              active |-> rows, canceled |-> [p \in Pair |-> IF p \in old THEN 1 ELSE 0]]
    /\ serving = FALSE /\ applied = FALSE /\ lost = [e \in OtherEvents |-> 0]

(* enroll_seeker and cancel_enrollment as functions of the database. *)
EnrollIn(d, p) == [d EXCEPT !.active = @ \cup {p}, !.seats[p[1]] = @ + 1]
CancelIn(d, p) ==
    [d EXCEPT !.active = @ \ {p}, !.canceled[p] = @ + 1, !.seats[p[1]] = @ - 1]

Enroll(p) ==
    /\ serving /\ p[1] \in db.events /\ (p[2] \in RealSeekers \/ db.seeded)
    /\ p \notin db.active /\ db.seats[p[1]] < Capacity[p[1]]
    /\ db' = EnrollIn(db, p)
    /\ UNCHANGED <<serving, applied, lost>>

HistoryFits == MapThenSumSet(LAMBDA q : db.canceled[q], Pair) < MaxCancels

Cancel(p) ==
    /\ serving /\ p \in db.active /\ HistoryFits
    /\ db' = CancelIn(db, p)
    /\ UNCHANGED <<serving, applied, lost>>

-----------------------------------------------------------------------------
(* backfill_seats_taken, under the table's CHECK. *)
RealCount(d, e) == Cardinality(Of(d, e))
Fits(d) == \A e \in d.events : d.seats[e] <= Capacity[e]
Backfilled == [db EXCEPT !.seats = [e \in Events |-> IF e \in db.events THEN RealCount(db, e) ELSE 0]]

(* entrypoint.sh: migrate, then serve.  A failing migration rolls back and, *)
(* by set -e, ends the container, which is started again.                   *)
Start ==
    /\ ~serving
    /\ IF applied THEN serving' = TRUE /\ UNCHANGED <<db, applied>>
       ELSE IF Fits(Backfilled) THEN db' = Backfilled /\ serving' = TRUE /\ applied' = TRUE
       ELSE UNCHANGED <<db, serving, applied>>
    /\ UNCHANGED lost

Stop == serving /\ serving' = FALSE /\ UNCHANGED <<db, applied, lost>>

(* _delete_existing_demo_data: the cascade takes the demo facilitators'     *)
(* events with everyone's enrollments, and the demo seekers' enrollments    *)
(* in other events, whose seats_taken nobody moves.                         *)
Doomed(p) == p[1] \in DemoEvents \/ p[2] \in DemoSeekers
Deleted ==
    [db EXCEPT !.active = {p \in @ : ~Doomed(p)},
               !.canceled = [p \in Pair |-> IF Doomed(p) THEN 0 ELSE @[p]],
               !.seats = [e \in Events |-> IF e \in DemoEvents THEN 0 ELSE @[e]]]

(* handle: the accounts and events anew; one seat left at Concurrency, and  *)
(* an enroll -> cancel -> enroll history at Lifecycle.                      *)
Created(d) == [d EXCEPT !.events = @ \cup DemoEvents, !.seeded = TRUE]
LifecyclePair == <<Lifecycle, LifecycleSeeker>>
Seeded(d) ==
    LET c == Created(d)
        nine == [c EXCEPT !.active = @ \cup ({Concurrency} \X FirstSeekers),
                          !.seats[Concurrency] = @ + Cardinality(FirstSeekers)]
    IN EnrollIn(CancelIn(EnrollIn(nine, LifecyclePair), LifecyclePair), LifecyclePair)

SeedDemo ==
    /\ applied
    /\ db' = Seeded(Deleted)
    /\ lost' = [e \in OtherEvents |->
                  lost[e] + Cardinality({p \in Of(db, e) : p[2] \in DemoSeekers})]
    /\ UNCHANGED <<serving, applied>>

Next == Start \/ Stop \/ SeedDemo \/ \E p \in Pair : Enroll(p) \/ Cancel(p)

(* The container is restarted until it runs. *)
Spec == Init /\ [][Next]_vars /\ WF_vars(Start)

-----------------------------------------------------------------------------
(* DriftIsLost: once the backfill has run, seats_taken is the number of     *)
(* active enrollments plus exactly the seats seed_demo took away from demo  *)
(* seekers at other people's events; it is never too low, and restarts do   *)
(* not repair it.                                                           *)
DriftIsLost ==
    applied => \A e \in db.events :
        db.seats[e] = Cardinality(Of(db, e)) + IF e \in OtherEvents THEN lost[e] ELSE 0

(* LedgerInv: that, and what makes it inductive.  Enrollments are of events *)
(* and demo accounts that exist; while the backfill is due there are only   *)
(* Phase 6's rows and counters; afterwards every counter fits its event.    *)
LedgerInv ==
    /\ TypeOK /\ DriftIsLost
    /\ IsFiniteSet(db.active)
    /\ db.events = OtherEvents \cup (IF db.seeded THEN DemoEvents ELSE {})
    /\ \A p \in db.active : p[1] \in db.events /\ (p[2] \in DemoSeekers => db.seeded)
    /\ IF applied THEN \A e \in db.events : db.seats[e] <= Capacity[e]
       ELSE ~serving /\ ~db.seeded /\ lost = [e \in OtherEvents |-> 0]

(* NeverOverbooked: Phase 6's leftovers and any number of reseeds included, *)
(* a serving instance never has an event with more enrollments than seats.  *)
NeverOverbooked == serving => ~Oversold

(* ReseedIsExact: whatever users did with the demo events, after seed_demo  *)
(* the concurrency event has exactly one seat left and the lifecycle seeker *)
(* one canceled row and one active one; and no enrollment of a real seeker  *)
(* at a real event, active or history, is touched.                          *)
ReseedIsExact ==
    [][SeedDemo =>
        /\ \A p \in OtherEvents \X RealSeekers :
              (p \in db.active) = (p \in db'.active) /\ db'.canceled[p] = db.canceled[p]
        /\ db'.seats[Concurrency] = Capacity[Concurrency] - 1
        /\ {p[2] : p \in Of(db', Concurrency)} = FirstSeekers
        /\ Of(db', Lifecycle) = {<<Lifecycle, LifecycleSeeker>>}
        /\ db'.canceled[<<Lifecycle, LifecycleSeeker>>] = 1]_vars

(* ComesUp: an instance that is down comes up, unless the backfill has not  *)
(* run yet and Phase 6 oversold an event: then every start fails.           *)
ComesUp == (~serving /\ (applied \/ ~Oversold)) ~> serving
=============================================================================
