------------------------------ MODULE Discovery ------------------------------
(***************************************************************************)
(* The paginated lists: GET /api/events/ (apps/events/filters.py),          *)
(* GET /api/facilitator/events/ and GET /api/enrollments/?scope=...          *)
(* A reader walks a plan of lists page by page, following `next`, while     *)
(* other requests create, change and delete rows and time passes.  Each     *)
(* page is two SQL statements: COUNT, then SELECT ... LIMIT/OFFSET.          *)
(*                                                                         *)
(* A row is an event, or an enrollment with its event's start.  Its `mark`  *)
(* is the column an equality filter tests: location, language, created_by   *)
(* or seeker.                                                               *)
(***************************************************************************)
EXTENDS Integers, FiniteSets, SequencesExt

CONSTANTS
    Marks,     \* values of the filtered column
    Absent,    \* a filter that was not given
    Plans,     \* the sequences of queries readers walk through
    PageSize,  \* REST_FRAMEWORK["PAGE_SIZE"]
    Ids,       \* bound: the primary keys
    MaxRows,   \* bound: rows that exist when a walk begins
    MaxChanges,\* bound: writes by others during one walk
    MaxTime    \* bound: the last moment of the clock

Time == -1..MaxTime     \* a walk begins at 0
Row == [id : Ids, starts : Time, mark : Marks]
Query == [list : {"events", "mine", "upcoming", "past"}, mark : Marks \cup {Absent},
          after : Time \cup {Absent}, before : Time \cup {Absent}]

ASSUME PageSizeAssumption == PageSize \in Nat \ {0}
ASSUME PlansAssumption == Plans \subseteq Seq(Query) \ {<<>>}
ASSUME BoundsAssumption == MaxTime \in Nat /\ MaxRows \in Nat /\ MaxChanges \in Nat

VARIABLES
    rows,      \* the committed rows
    clock,     \* the time
    walk,      \* the queries still to be read, the current one first
    page,      \* number of the page the reader asks for
    pc,        \* "count", "slice", "done" or "missing" (404)
    now,       \* the request's timezone.now()
    count,     \* what its COUNT statement answered
    there,     \* history: ids the plan matched when the walk began
    shown,     \* history: ids the walk has shown
    repeated,  \* history: ids it has shown twice
    started,   \* history: ids whose start passed while a list that looks at
               \* the time was being read or still to be read
    changes,   \* how many writes others have made during the walk
    disturbed  \* history: what they and time did to the lists

vars == <<rows, clock, walk, page, pc, now, count,
          there, shown, repeated, started, changes, disturbed>>
requestVars == <<walk, page, pc, now, count, shown, repeated>>

Disturbances ==
    {"created", "created in between", "deleted", "changed", "shifted", "tied"}

TypeOK ==
    /\ rows \subseteq Row /\ \A r, s \in rows : r.id = s.id => r = s
    /\ clock \in Time /\ changes \in 0..MaxChanges
    /\ walk \in Seq(Query) /\ page \in Nat \ {0} /\ now \in Time /\ count \in Nat
    /\ pc \in {"count", "slice", "done", "missing"}
    /\ UNION {there, shown, repeated, started} \subseteq Ids
    /\ disturbed \subseteq Disturbances
    /\ (walk = <<>>) = (pc = "done")

Walking == pc \in {"count", "slice"}

-----------------------------------------------------------------------------
(* Faulty variants, one plausible bug each; not part of the specification.  *)

(* `upcoming` written with gt: an event starting right now is nowhere. *)
InScope_AfterNow(r, list, t) ==
    CASE list = "upcoming" -> r.starts > t
      [] list = "past" -> r.starts < t
      [] OTHER -> TRUE

(* A page that begins with the last row of the one before. *)
Slice_Overlaps(s, n, c) ==
    LET bottom == IF n = 1 THEN 0 ELSE (n - 1) * PageSize - 1
        top == IF bottom + PageSize >= c THEN c ELSE bottom + PageSize
    IN {s[i] : i \in DOMAIN s \cap (bottom + 1)..top}

(* No first page for an empty list. *)
NumPages_NoneIfEmpty(c) == (c + PageSize - 1) \div PageSize

-----------------------------------------------------------------------------
(* Which rows a query is about, at time t: the equality filters, the strict *)
(* starts_after and starts_before, and the scope of an enrollment list.     *)

InScope(r, list, t) ==
    CASE list = "upcoming" -> r.starts >= t
      [] list = "past" -> r.starts < t
      [] OTHER -> TRUE

Passes(r, q) ==
    /\ q.mark \in {Absent, r.mark}
    /\ q.after # Absent => r.starts > q.after
    /\ q.before # Absent => r.starts < q.before

Matches(q, t) == {r \in rows : Passes(r, q) /\ InScope(r, q.list, t)}

(* ORDER BY starts_at, with the rows already past last in GET /api/events/. *)
IsPast(r) == r.starts < clock
Before(r, s, list) ==
    IF list = "events" /\ IsPast(r) # IsPast(s) THEN IsPast(s)
    ELSE r.starts < s.starts

(* Rows that tie come in any order, and in another one for the next page. *)
Orders(S, list) ==
    {s \in SetToSeqs(S) : \A i, j \in DOMAIN s : Before(s[i], s[j], list) => i < j}
Tied(S, list) ==
    \E r, s \in S : r # s /\ ~Before(r, s, list) /\ ~Before(s, r, list)

(* Paginator.num_pages and Paginator.page of `c` counted rows. *)
NumPages(c) == IF c = 0 THEN 1 ELSE (c + PageSize - 1) \div PageSize
Slice(s, n, c) ==
    LET bottom == (n - 1) * PageSize
        top == IF bottom + PageSize >= c THEN c ELSE bottom + PageSize
    IN {s[i] : i \in DOMAIN s \cap (bottom + 1)..top}

-----------------------------------------------------------------------------
IdsOf(S) == {r.id : r \in S}

(* A reader begins to walk a table of rows the equality filters let pass;   *)
(* others come into it by Create and Patch.                                 *)
Begin(plan) ==
    /\ walk = plan /\ page = 1 /\ pc = "count" /\ now = 0 /\ count = 0
    /\ \A r \in rows, q \in Range(plan) : q.mark \in {Absent, r.mark}
    /\ there = IdsOf(UNION {Matches(q, clock) : q \in Range(plan)})
    /\ shown = {} /\ repeated = {} /\ started = {} /\ changes = 0 /\ disturbed = {}

Init ==
    /\ clock = 0
    /\ \E n \in 0..MaxRows : \E known \in kSubset(n, Ids) : IsFiniteSet(known) /\
         \E r \in [known -> [starts : Time, mark : Marks]] :
           rows = {[id |-> i, starts |-> r[i].starts, mark |-> r[i].mark] : i \in known}
    /\ \E plan \in Plans : Begin(plan)

(* get_queryset reads the clock, the paginator counts; a page past the last *)
(* one is answered 404.                                                     *)
Count ==
    /\ pc = "count"
    /\ now' = clock
    /\ count' = Cardinality(Matches(Head(walk), clock))
    /\ IF page > NumPages(count')
       THEN pc' = "missing" ELSE pc' = "slice"
    /\ UNCHANGED <<rows, clock, walk, page, there, shown, repeated, started, changes, disturbed>>

(* The page itself; `next` is there while the count says so. *)
Fetch ==
    /\ pc = "slice"
    /\ LET q == Head(walk)
           S == Matches(q, now)
       IN /\ \E s \in Orders(S, q.list) :
               LET ids == IdsOf(Slice(s, page, count))
               IN shown' = shown \cup ids /\ repeated' = repeated \cup (shown \cap ids)
          /\ disturbed' = disturbed \cup (IF Tied(S, q.list) THEN {"tied"} ELSE {})
    /\ IF page < NumPages(count)
       THEN page' = page + 1 /\ pc' = "count" /\ UNCHANGED walk
       ELSE /\ page' = 1 /\ walk' = Tail(walk)
            /\ pc' = IF walk' = <<>> THEN "done" ELSE "count"
    /\ now' = 0 /\ count' = 0
    /\ UNCHANGED <<rows, clock, there, started, changes>>

(* Other requests change the table, whose ids are never reused: a new row   *)
(* is one the reader has not met.                                           *)
Disturb(what) ==
    /\ Walking /\ changes < MaxChanges
    /\ changes' = changes + 1 /\ disturbed' = disturbed \cup {what}
    /\ UNCHANGED <<clock, there, started, requestVars>>

Create ==
    /\ \E i \in Ids \ (IdsOf(rows) \cup there \cup shown), t \in Time, k \in Marks :
        rows' = rows \cup {[id |-> i, starts |-> t, mark |-> k]}
    /\ Disturb(IF pc = "slice" THEN "created in between" ELSE "created")

Delete ==
    /\ \E r \in rows : rows' = rows \ {r}
    /\ Disturb("deleted")

(* Model.save of the changed instance. *)
Saved(r, t, k) == (rows \ {r}) \cup {[r EXCEPT !.starts = t, !.mark = k]}

Patch ==
    /\ \E r \in rows, t \in Time, k \in Marks :
        /\ <<t, k>> # <<r.starts, r.mark>>
        /\ rows' = Saved(r, t, k)
    /\ Disturb("changed")

(* The rows that start now become past; in GET /api/events/ they move to    *)
(* the end, and out of scope=upcoming.                                      *)
Tick ==
    /\ Walking /\ clock < MaxTime
    /\ clock' = clock + 1
    /\ LET starting == IdsOf({r \in rows : r.starts = clock})
           heeded == \E q \in Range(walk) : q.list # "mine"
           moved == starting # {} /\ Head(walk).list \in {"events", "upcoming"}
       IN /\ started' = started \cup (IF heeded THEN starting ELSE {})
          /\ disturbed' = disturbed \cup (IF moved THEN {"shifted"} ELSE {})
    /\ UNCHANGED <<rows, there, changes, requestVars>>

Next == Count \/ Fetch \/ Create \/ Delete \/ Patch \/ Tick

Spec == Init /\ [][Next]_vars

-----------------------------------------------------------------------------
Undisturbed(causes) == disturbed \cap causes = {}

(* NothingMissed: a finished walk has shown every row its plan matched when *)
(* it began, unless rows left the list (deleted, changed, or started in a   *)
(* list a started event moves in), tied, or were created between a page's   *)
(* COUNT and its SELECT.  Rows created at any other moment do no harm, and  *)
(* reading scope=past then scope=upcoming loses only what starts meanwhile. *)
NothingMissed ==
    /\ pc = "done"
    /\ Undisturbed({"created in between", "deleted", "changed", "shifted", "tied"})
    => there \ shown \subseteq started

(* The queries of a plan have no row in common, as adjacent windows and the *)
(* two scopes have none: only then is a row shown twice a row repeated.     *)
Apart(w) ==
    \A i, j \in 1..Len(w) : i # j =>
        \A r \in Row, t \in Time :
            ~(/\ Passes(r, w[i]) /\ InScope(r, w[i].list, t)
              /\ Passes(r, w[j]) /\ InScope(r, w[j].list, t))

DisjointPlans == \A plan \in Plans : Apart(plan)

(* NothingRepeated: a walk of disjoint queries shows a row twice only if    *)
(* rows were created, changed or tied, or that row itself started           *)
(* meanwhile.  Deletions never cause it, and a started event never makes    *)
(* another one appear twice.                                                *)
NothingRepeated ==
    Undisturbed({"created", "created in between", "changed", "tied"})
    => repeated \subseteq started

(* NextLeadsSomewhere: following `next` is answered 404 only if rows were   *)
(* deleted or changed after the page that offered it, or, in                *)
(* scope=upcoming, started; and the first page of any list is never a 404.  *)
NextLeadsSomewhere ==
    pc = "missing" =>
        \/ ~Undisturbed({"deleted", "changed"})
        \/ Head(walk).list = "upcoming" /\ ~Undisturbed({"shifted"})
=============================================================================
