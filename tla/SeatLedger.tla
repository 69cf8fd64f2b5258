----------------------------- MODULE SeatLedger -----------------------------
(***************************************************************************)
(* What the booking API promises to its callers: every call on an event     *)
(* takes effect at one instant, or never, between its submission and its    *)
(* end, and its answer describes the ledger at that instant.  A caller that *)
(* gets no answer cannot know which: the worker may be lost before the      *)
(* effect or after it.  There are no transactions, locks, rows or counters  *)
(* here; EnrollmentService has them and is shown to implement this          *)
(* specification.                                                           *)
(***************************************************************************)
EXTENDS Integers, FiniteSets

CONSTANTS
    Events,      \* event ids
    Seekers,     \* users whose profile role is "seeker"
    Workers,     \* threads of control that serve calls
    Capacities,  \* capacities an event may be given
    Unlimited,   \* the null capacity
    Closed,      \* capacity of an event that does not exist
    NoCall       \* no call in progress

VARIABLES
    booked,      \* booked[e]: the seekers that hold a seat of e
    capacity,    \* capacity[e]: capacity of e, or Closed
    call,        \* call[w]: the call w serves, or NoCall
    outcome,     \* outcome[w]: what w's call has come to, "" until it has
    reply        \* reply[w]: the last answer w gave

ledgerVars == <<booked, capacity, call, outcome, reply>>

Call ==
    [op : {"create", "patch"}, event : Events, capacity : Capacities]
    \cup [op : {"enroll", "cancel"}, event : Events, seeker : Seekers]
    \cup [op : {"destroy"}, event : Events]

HasRoom(e) == capacity[e] = Unlimited \/ Cardinality(booked[e]) < capacity[e]

Fits(n, c) == c = Unlimited \/ n <= c

Init ==
    /\ booked = [e \in Events |-> {}]
    /\ capacity = [e \in Events |-> Closed]
    /\ call = [w \in Workers |-> NoCall]
    /\ outcome = [w \in Workers |-> ""]
    /\ reply = [w \in Workers |-> ""]

-----------------------------------------------------------------------------
(* Calls begin.                                                            *)

(* A call on an existing event is accepted ...                             *)
Submit(w, c) ==
    /\ call[w] = NoCall
    /\ c.op # "create"
    /\ capacity[c.event] # Closed
    /\ call' = [call EXCEPT ![w] = c]
    /\ reply' = [reply EXCEPT ![w] = ""]
    /\ UNCHANGED <<booked, capacity, outcome>>

(* ... and one on an event that does not exist is answered 404 at once.    *)
NotFound(w, e) ==
    /\ call[w] = NoCall
    /\ capacity[e] = Closed
    /\ reply' = [reply EXCEPT ![w] = "not_found"]
    /\ UNCHANGED <<booked, capacity, call, outcome>>

(* A new event is there with the call that creates it.                     *)
Create(w, c) ==
    /\ call[w] = NoCall
    /\ c.op = "create"
    /\ capacity[c.event] = Closed
    /\ capacity' = [capacity EXCEPT ![c.event] = c.capacity]
    /\ call' = [call EXCEPT ![w] = c]
    /\ outcome' = [outcome EXCEPT ![w] = "created"]
    /\ reply' = [reply EXCEPT ![w] = ""]
    /\ UNCHANGED booked

-----------------------------------------------------------------------------
(* A call takes effect, once.                                              *)

Pending(w, op) == call[w] # NoCall /\ call[w].op = op /\ outcome[w] = ""

Becomes(w, code) ==
    /\ outcome' = [outcome EXCEPT ![w] = code]
    /\ UNCHANGED <<call, reply>>

Enroll(w) ==
    /\ Pending(w, "enroll")
    /\ LET e == call[w].event
           s == call[w].seeker
       IN  /\ capacity[e] # Closed
           /\ \/ /\ s \notin booked[e] /\ HasRoom(e)
                 /\ booked' = [booked EXCEPT ![e] = @ \cup {s}]
                 /\ Becomes(w, "enrolled")
              \/ /\ s \in booked[e]
                 /\ Becomes(w, "already_enrolled")
                 /\ UNCHANGED booked
              \/ /\ s \notin booked[e] /\ ~HasRoom(e)
                 /\ Becomes(w, "event_full")
                 /\ UNCHANGED booked
    /\ UNCHANGED capacity

Cancel(w) ==
    /\ Pending(w, "cancel")
    /\ LET e == call[w].event
           s == call[w].seeker
       IN  /\ capacity[e] # Closed
           /\ \/ /\ s \in booked[e]
                 /\ booked' = [booked EXCEPT ![e] = @ \ {s}]
                 /\ Becomes(w, "canceled")
              \/ /\ s \notin booked[e]
                 /\ Becomes(w, "no_active_enrollment")
                 /\ UNCHANGED booked
    /\ UNCHANGED capacity

Resize(w) ==
    /\ Pending(w, "patch")
    /\ LET e == call[w].event
       IN  /\ capacity[e] # Closed
           /\ Fits(Cardinality(booked[e]), call[w].capacity)
           /\ capacity' = [capacity EXCEPT ![e] = call[w].capacity]
    /\ Becomes(w, "patched")
    /\ UNCHANGED booked

Close(w) ==
    /\ Pending(w, "destroy")
    /\ booked' = [booked EXCEPT ![call[w].event] = {}]
    /\ capacity' = [capacity EXCEPT ![call[w].event] = Closed]
    /\ Becomes(w, "destroyed")

(* A call may also fail: then it never has an effect.                      *)
Fail(w) ==
    /\ call[w] # NoCall /\ outcome[w] = ""
    /\ Becomes(w, "server_error")
    /\ UNCHANGED <<booked, capacity>>

-----------------------------------------------------------------------------
(* Calls end.                                                              *)

End(w, code) ==
    /\ call' = [call EXCEPT ![w] = NoCall]
    /\ outcome' = [outcome EXCEPT ![w] = ""]
    /\ reply' = [reply EXCEPT ![w] = code]
    /\ UNCHANGED <<booked, capacity>>

(* The caller learns what its call has come to.                            *)
Answer(w) == outcome[w] # "" /\ End(w, outcome[w])

(* The worker is lost and with it the answer; the ledger stays, with the   *)
(* call's effect in it or without.                                         *)
Lose(w) == call[w] # NoCall /\ End(w, "")

Next ==
    \E w \in Workers :
        \/ \E c \in Call : Submit(w, c) \/ Create(w, c)
        \/ \E e \in Events : NotFound(w, e)
        \/ Enroll(w) \/ Cancel(w) \/ Resize(w) \/ Close(w) \/ Fail(w)
        \/ Answer(w) \/ Lose(w)

Spec == Init /\ [][Next]_ledgerVars
=============================================================================
