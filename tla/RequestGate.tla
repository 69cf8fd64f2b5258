----------------------------- MODULE RequestGate -----------------------------
(***************************************************************************)
(* What every request passes before its handler: authentication,            *)
(* permissions and the throttle, in that order (APIView.initial), and which *)
(* requests end in a bare 500 that custom_exception_handler does not shape. *)
(* The handlers are a few steps here; EnrollmentService and                 *)
(* EmailVerification say what they do inside.  The database always answers. *)
(*                                                                         *)
(* The throttle's history is one key of the Redis all workers share; DRF    *)
(* reads and writes it in two calls.  The three throttled paths, and the    *)
(* clients that call them, have keys of their own; here is one of them.     *)
(***************************************************************************)
EXTENDS Integers, FiniteSets, Sequences, Functions

CONSTANTS
    Workers,         \* gunicorn workers
    Seekers, Facilitators,
    Strangers,       \* users without a Profile: createsuperuser, the admin
    Newcomers,       \* addresses that may sign up, as a seeker or facilitator
    Nobody,          \* no token; no request
    Mixes,           \* bound: sets of requests that arrive together
    Rate, Duration,  \* the path's rate: Rate requests per Duration
    MaxTime,         \* bound: the last moment of the clock
    MaxOutages       \* bound: how often Redis or the mail server stops

Users == Seekers \cup Facilitators \cup Strangers
Time == 0..MaxTime

(* Redis holds the throttle's histories, the mail server takes the codes.   *)
Services == {"redis", "mail"}

Throttled == {"login", "signup", "resend"}
Mailing == {"signup", "resend"}
Open == Throttled \cup {"verify"}                    \* AllowAny
Managing == {"create", "edit", "destroy", "manage"}   \* IsFacilitator
Attending == {"enroll", "cancel", "history"}          \* IsSeeker
Reads == {"read", "manage", "history"}
OnEvent == {"edit", "destroy", "enroll", "cancel"}

(* An event is named by its owner.  A request is about an event, or about   *)
(* the address that signs up, logs in or verifies.  "read" is the public    *)
(* event list, "manage" and "history" are a user's own lists.               *)
Request == [path : Open \cup Managing \cup Attending \cup Reads,
            token : Users \cup {Nobody}, about : Users]

ASSUME RateAssumption == Rate \in Nat \ {0} /\ Duration \in Nat \ {0}
ASSUME BoundsAssumption == MaxTime \in Nat /\ MaxOutages \in Nat
ASSUME RolesAssumption ==
    /\ Seekers \cap Facilitators = {} /\ Strangers \cap (Seekers \cup Facilitators) = {}
    /\ Newcomers \subseteq Seekers \cup Facilitators /\ Nobody \notin Users

(* Only a newcomer signs up, and has no token of an earlier account; the    *)
(* throttled requests of a mix share one key: one path, from one client.    *)
ASSUME MixesAssumption ==
    \A m \in Mixes :
        /\ m \subseteq Request
        /\ \A r \in m : r.token \notin Newcomers
                       /\ (r.path = "signup" => r.about \in Newcomers)
        /\ \A r, q \in m : r.path \in Throttled /\ q.path \in Throttled
                             => r.path = q.path /\ r.token = q.token

VARIABLES
    mix,        \* the requests that arrive in this behaviour
    accounts,   \* users that exist
    owners,     \* users that own an event
    enrolled,   \* pairs <<user, owner of the event>>
    drifted,    \* events whose seats_taken may differ from their enrollments
    leaving,    \* accounts whose deletion has begun
    clock,
    up,         \* the Services that answer
    history,    \* the cached list of admission times, newest first
    outages,    \* how often a service has stopped
    pc, req,    \* each worker's next step, and its request
    seen, at,   \* the history its throttle read, and the time
    answer,     \* status a request was answered with just now, 0 between
    admitted,   \* history: the requests the throttle let pass, each a pair of
                \* its time and a number, up to Rate + 1 of one time
    forgotAt,   \* history: when admissions were last forgotten
    met         \* history: what each worker's request has met with: services
                \* that were down, a deletion, seats that were taken, and the
                \* paths of the handlers of its event that ran beside it

dbVars == <<accounts, owners, enrolled, drifted, leaving>>
cacheVars == <<up, history, outages, admitted, forgotAt>>
vars == <<mix, dbVars, cacheVars, clock, pc, req, seen, at, answer, met>>

-----------------------------------------------------------------------------
(* Faulty variants, one plausible bug each; not part of the specification.  *)

(* Old entries are never dropped, or dropped a moment early. *)
Recent_All(h, t) == h
Recent_Early(h, t) == SelectSeq(h, LAMBDA x : x > t - Duration + 1)

(* EnrollView and CancelView without IsSeeker. *)
Permits_AnyoneEnrolls(path, u) ==
    path \in Managing => u \in accounts /\ u \in Facilitators

(* The views trust the id in the path. *)
Found_Unchecked(r) ==
    /\ r.path = "signup" => r.about \notin accounts
    /\ r.path \in {"login", "verify", "resend"} => r.about \in accounts

-----------------------------------------------------------------------------
Init ==
    /\ mix \in Mixes
    /\ accounts = Users \ Newcomers /\ owners = {} /\ enrolled = {}
    /\ drifted = {} /\ leaving = {}
    /\ clock = 0 /\ up = Services /\ history = <<>> /\ outages = 0
    /\ pc = [w \in Workers |-> "idle"] /\ req = [w \in Workers |-> Nobody]
    /\ seen = [w \in Workers |-> <<>>] /\ at = [w \in Workers |-> 0]
    /\ answer = 0 /\ met = [w \in Workers |-> {}]
    /\ admitted = {} /\ forgotAt = -Duration

Goto(w, l) == pc' = [pc EXCEPT ![w] = l] /\ answer' = 0 /\ UNCHANGED <<req, met>>
Answer(w, status) ==
    /\ pc' = [pc EXCEPT ![w] = "idle"] /\ answer' = status
    /\ req' = [req EXCEPT ![w] = Nobody] /\ met' = [met EXCEPT ![w] = {}]

(* The accounts a request needs.  A DELETE meets any seeker's enrollments.  *)
Needs(r) == IF r.path = "destroy" THEN Users ELSE {r.token, r.about}

(* What a request that arrives now finds under way. *)
Arrival(r) ==
    (Services \ up) \cup (IF Needs(r) \cap leaving = {} THEN {} ELSE {"deletion"})

(* JWTAuthentication loads the token's user, on AllowAny views too: when    *)
(* the account is gone the answer is 401.                                   *)
Authenticate(w) ==
    /\ pc[w] = "idle"
    /\ \E r \in mix :
         IF r.token \in accounts \cup {Nobody}
         THEN /\ pc' = [pc EXCEPT ![w] = "permit"] /\ answer' = 0
              /\ req' = [req EXCEPT ![w] = r]
              /\ met' = [met EXCEPT ![w] = Arrival(r)]
         ELSE answer' = 401 /\ UNCHANGED <<pc, req, met>>
    /\ UNCHANGED <<dbVars, cacheVars, clock, seen, at>>

(* The role is read from the profile, which goes with the account. *)
IsFacilitator(u) == u \in accounts /\ u \in Facilitators
IsSeeker(u) == u \in accounts /\ u \in Seekers
IsEventOwner(r) == r.about = r.token
Permits(path, u) ==
    /\ path \in Managing => IsFacilitator(u)
    /\ path \in Attending => IsSeeker(u)

Permit(w) ==
    /\ pc[w] = "permit"
    /\ LET r == req[w]
       IN IF r.path \in Open
          THEN Goto(w, IF r.path \in Throttled THEN "get" ELSE "find")
          ELSE IF r.token = Nobody THEN Answer(w, 401)
          ELSE IF ~Permits(r.path, r.token) THEN Answer(w, 403)
          ELSE Goto(w, "find")
    /\ UNCHANGED <<dbVars, cacheVars, clock, seen, at>>

(* SimpleRateThrottle.allow_request: get and test, then set.  Old entries   *)
(* are popped from the end of the list until one is recent.                 *)
Recent(h, t) ==
    SubSeq(h, 1, CHOOSE n \in 0..Len(h) :
                    /\ n = 0 \/ h[n] > t - Duration
                    /\ \A k \in (n + 1)..Len(h) : h[k] <= t - Duration)

Exhausted(h) == Len(h) >= Rate

ThrottleGet(w) ==
    /\ pc[w] = "get"
    /\ IF "redis" \notin up THEN Answer(w, 500) /\ UNCHANGED <<seen, at>>
       ELSE IF Exhausted(Recent(history, clock))
       THEN Answer(w, 429) /\ UNCHANGED <<seen, at>>
       ELSE /\ seen' = [seen EXCEPT ![w] = history]
            /\ at' = [at EXCEPT ![w] = clock]
            /\ Goto(w, "set")
    /\ UNCHANGED <<dbVars, cacheVars, clock>>

(* One more admission at time t, while numbers are left. *)
Admission(t) ==
    LET free == ({t} \X (1..(Rate + 1))) \ admitted
    IN IF free = {} THEN {} ELSE {CHOOSE p \in free : TRUE}

ThrottleSet(w) ==
    /\ pc[w] = "set"
    /\ IF "redis" \notin up THEN Answer(w, 500) /\ UNCHANGED <<history, admitted, forgotAt>>
       ELSE /\ history' = <<at[w]>> \o Recent(seen[w], at[w])
            /\ admitted' = admitted \cup Admission(at[w])
            /\ forgotAt' = IF history # seen[w] THEN clock ELSE forgotAt
            /\ Goto(w, "find")
    /\ seen' = [seen EXCEPT ![w] = <<>>] /\ at' = [at EXCEPT ![w] = 0]
    /\ UNCHANGED <<dbVars, up, outages, clock>>

(* The handler looks up the account or the event the request is about; a    *)
(* signup wants there to be none.                                          *)
Found(r) ==
    /\ r.path = "signup" => r.about \notin accounts
    /\ r.path \in {"login", "verify", "resend"} => r.about \in accounts
    /\ r.path \in OnEvent => r.about \in owners
Missing == [signup |-> 400, login |-> 401, verify |-> 400, resend |-> 400,
            edit |-> 404, destroy |-> 404, enroll |-> 404, cancel |-> 404]

(* The handlers at work on an event, and what a request meets by becoming   *)
(* one: them, and for a PATCH the seats it reads.                           *)
Handlers(a) == {w \in Workers : pc[w] = "serve" /\ req[w].path \in OnEvent
                                                /\ req[w].about = a}
Beside(r) == IF r.path \in OnEvent THEN Handlers(r.about) ELSE {}
SeatsSeen(r) ==
    IF r.path = "edit" /\ (r.about \in drifted \/ \E p \in enrolled : p[2] = r.about)
    THEN {"seats"} ELSE {}

Enter(w) ==
    LET r == req[w]
    IN /\ pc' = [pc EXCEPT ![w] = "serve"] /\ answer' = 0 /\ UNCHANGED req
       /\ met' = [v \in Workers |->
            IF v = w THEN met[w] \cup {req[x].path : x \in Beside(r)} \cup SeatsSeen(r)
            ELSE IF v \in Beside(r) THEN met[v] \cup {r.path} ELSE met[v]]

Find(w) ==
    /\ pc[w] = "find"
    /\ LET r == req[w]
       IN IF ~Found(r) THEN Answer(w, Missing[r.path])
          ELSE IF r.path \in Reads THEN Answer(w, 200)
          ELSE IF r.path \in {"edit", "destroy"} /\ ~IsEventOwner(r) THEN Answer(w, 403)
          ELSE Enter(w)
    /\ UNCHANGED <<dbVars, cacheVars, clock, seen, at>>

-----------------------------------------------------------------------------
(* The handlers.  What exactly they answer depends on data left out here.   *)
Serving(w, path) == pc[w] = "serve" /\ req[w].path = path
Apart == <<cacheVars, clock, seen, at>>

(* user.profile, read when it is needed: a stranger has none. *)
HasProfile(u) == u \in accounts \ Strangers

(* A wrong password or code is refused before the profile is looked at.     *)
Login(w) ==
    /\ Serving(w, "login")
    /\ \/ Answer(w, 401)
       \/ HasProfile(req[w].about) /\ \E status \in {200, 403} : Answer(w, status)
       \/ ~HasProfile(req[w].about) /\ Answer(w, 500)
    /\ UNCHANGED <<dbVars, Apart>>

(* Its transaction may be the victim of a deadlock with a deletion, as may  *)
(* that of a cancel or a DELETE.                                            *)
Verify(w) ==
    /\ Serving(w, "verify")
    /\ \/ Answer(w, 400)
       \/ HasProfile(req[w].about) /\ Answer(w, 200)
       \/ (~HasProfile(req[w].about) \/ "deletion" \in met[w]) /\ Answer(w, 500)
    /\ UNCHANGED <<dbVars, Apart>>

(* User and profile in one transaction; the unique index finds the race.    *)
Signup(w) ==
    /\ Serving(w, "signup")
    /\ IF req[w].about \in accounts
       THEN Answer(w, 400) /\ UNCHANGED accounts
       ELSE accounts' = accounts \cup {req[w].about} /\ Goto(w, "mail")
    /\ UNCHANGED <<owners, enrolled, drifted, leaving, Apart>>

(* The view looks the user up again, the service minds its cooldown.        *)
Resend(w) ==
    /\ Serving(w, "resend")
    /\ \/ req[w].about \notin accounts /\ Answer(w, 500)
       \/ req[w].about \in accounts /\ (Answer(w, 429) \/ Goto(w, "mail"))
    /\ UNCHANGED <<dbVars, Apart>>

(* issue_and_email_otp: a row with a foreign key to the user, and a mail.   *)
Mail(w) ==
    /\ pc[w] = "mail"
    /\ Answer(w, IF req[w].about \in accounts /\ "mail" \in up
                 THEN IF req[w].path = "signup" THEN 201 ELSE 200
                 ELSE 500)
    /\ UNCHANGED <<dbVars, Apart>>

(* An event has a foreign key to its owner. *)
Create(w) ==
    /\ Serving(w, "create")
    /\ Answer(w, IF req[w].token \in accounts THEN 201 ELSE 500)
    /\ owners' = owners \cup (accounts \cap {req[w].token})
    /\ UNCHANGED <<accounts, enrolled, drifted, leaving, Apart>>

(* PATCH saves the row as it was read, as a new one when it is gone; its    *)
(* capacity may be below the seats it read.                                 *)
Edit(w) ==
    LET a == req[w].about
        stale == met[w] \cap {"enroll", "cancel", "deletion"} # {}
    IN /\ Serving(w, "edit")
       /\ \/ /\ a \in accounts /\ Answer(w, 200)
             /\ owners' = owners \cup {a}
             /\ drifted' = drifted \cup (IF stale THEN {a} ELSE {})
          \/ /\ a \notin accounts \/ "seats" \in met[w]
             /\ Answer(w, 500) /\ UNCHANGED <<owners, drifted>>
       /\ UNCHANGED <<accounts, enrolled, leaving, Apart>>

(* The foreign keys to the event and to the seeker fail when either is      *)
(* gone, as does the service's second look at the event.                    *)
Enroll(w) ==
    LET u == req[w].token
        a == req[w].about
    IN /\ Serving(w, "enroll")
       /\ \/ a \in owners /\ Answer(w, 409) /\ UNCHANGED enrolled
          \/ /\ a \in owners /\ u \in accounts /\ <<u, a>> \notin enrolled
             /\ Answer(w, 201) /\ enrolled' = enrolled \cup {<<u, a>>}
          \/ /\ a \notin owners \/ u \notin accounts
             /\ Answer(w, 500) /\ UNCHANGED enrolled
       /\ UNCHANGED <<accounts, owners, drifted, leaving, Apart>>

(* A counter that has drifted may be at zero; a DELETE beside it may have   *)
(* won the deadlock between them.                                           *)
Cancel(w) ==
    LET u == req[w].token
        a == req[w].about
    IN /\ Serving(w, "cancel")
       /\ \/ /\ a \in owners /\ <<u, a>> \notin enrolled
             /\ Answer(w, 404) /\ UNCHANGED enrolled
          \/ /\ <<u, a>> \in enrolled
             /\ Answer(w, 200) /\ enrolled' = enrolled \ {<<u, a>>}
          \/ /\ a \notin owners \/ a \in drifted \/ met[w] \cap {"destroy", "deletion"} # {}
             /\ Answer(w, 500) /\ UNCHANGED enrolled
       /\ UNCHANGED <<accounts, owners, drifted, leaving, Apart>>

(* What a deletion takes with it, and whom it concerns. *)
Cascade(u) ==
    owners' = owners \ {u} /\ enrolled' = {p \in enrolled : u \notin Range(p)}
Concerned(u) == {w \in Workers : pc[w] # "idle" /\ u \in Needs(req[w])}
Meeting(W, what) == [w \in Workers |-> IF w \in W THEN met[w] \cup {what} ELSE met[w]]

(* An enrollment committed beside the DELETE breaks its foreign key, a      *)
(* cancel or the deletion of an account may win the deadlock with it.       *)
Destroy(w) ==
    LET a == req[w].about
    IN /\ Serving(w, "destroy")
       /\ \/ /\ Cascade(a) /\ drifted' = drifted \ {a}
             /\ pc' = [pc EXCEPT ![w] = "idle"] /\ answer' = 204
             /\ req' = [req EXCEPT ![w] = Nobody]
             /\ met' = [Meeting(Handlers(a), "deletion") EXCEPT ![w] = {}]
          \/ /\ met[w] \cap {"enroll", "cancel", "deletion"} # {}
             /\ Answer(w, 500) /\ UNCHANGED <<owners, enrolled, drifted>>
       /\ UNCHANGED <<accounts, leaving, Apart>>

-----------------------------------------------------------------------------
(* Around the requests.                                                    *)

(* seed_demo and the admin delete accounts, with all that hangs on them;    *)
(* those no request concerns make no difference.                            *)
BeginDeletion(u) ==
    /\ u \in accounts \ leaving /\ \E r \in mix : u \in {r.token, r.about}
    /\ leaving' = leaving \cup {u} /\ met' = Meeting(Concerned(u), "deletion")
    /\ answer' = 0 /\ UNCHANGED <<accounts, owners, enrolled, drifted, Apart, pc, req>>

(* Nothing gives the seats of its enrollments back. *)
DeleteAccount(u) ==
    /\ u \in leaving /\ leaving' = leaving \ {u}
    /\ accounts' = accounts \ {u} /\ Cascade(u)
    /\ drifted' = (drifted \cup {a \in owners : <<u, a>> \in enrolled}) \ {u}
    /\ answer' = 0 /\ UNCHANGED <<Apart, pc, req, met>>

(* Time matters to throttled requests only, an outage to those that use the *)
(* service.                                                                 *)
Throttling == \E r \in mix : r.path \in Throttled
Uses(r, s) == r.path \in IF s = "redis" THEN Throttled ELSE Mailing

Stops(s) ==
    /\ s \in up /\ outages < MaxOutages /\ \E r \in mix : Uses(r, s)
    /\ up' = up \ {s} /\ outages' = outages + 1
    /\ met' = Meeting({w \in Workers : pc[w] # "idle"}, s)
    /\ answer' = 0
    /\ UNCHANGED <<dbVars, clock, history, admitted, forgotAt, pc, req, seen, at>>

(* Redis comes back with its latest snapshot: the newest entries may be     *)
(* missing.                                                                 *)
Starts(s) ==
    /\ s \in Services \ up /\ up' = up \cup {s}
    /\ IF s = "redis"
       THEN \E k \in 1..(Len(history) + 1) : history' = SubSeq(history, k, Len(history))
       ELSE history' = history
    /\ forgotAt' = IF history' = history THEN forgotAt ELSE clock
    /\ answer' = 0 /\ UNCHANGED <<dbVars, clock, outages, admitted, pc, req, seen, at, met>>

Tick ==
    /\ clock < MaxTime /\ Throttling /\ clock' = clock + 1 /\ answer' = 0
    /\ UNCHANGED <<dbVars, cacheVars, pc, req, seen, at, met>>

Handle(w) ==
    \/ Login(w) \/ Verify(w) \/ Signup(w) \/ Resend(w) \/ Mail(w)
    \/ Create(w) \/ Edit(w) \/ Destroy(w) \/ Enroll(w) \/ Cancel(w)

Next ==
    \/ \E w \in Workers :
        \/ Authenticate(w) \/ Permit(w) \/ ThrottleGet(w)
        \/ ThrottleSet(w) \/ Find(w) \/ Handle(w)
    \/ \E u \in Users : BeginDeletion(u) \/ DeleteAccount(u)
    \/ \E s \in Services : Stops(s) \/ Starts(s)
    \/ Tick

Spec == Init /\ [][Next /\ UNCHANGED mix]_vars

-----------------------------------------------------------------------------
Steps == {"idle", "permit", "get", "set", "find", "serve", "mail"}
Marks == Services \cup OnEvent \cup {"deletion", "seats"}

(* The sequences of the throttle are left to RateKept. *)
TypeOK ==
    /\ mix \subseteq Request
    /\ accounts \subseteq Users /\ owners \subseteq Users /\ enrolled \subseteq Users \X Users
    /\ drifted \subseteq Users /\ leaving \subseteq Users
    /\ clock \in Time /\ up \subseteq Services /\ outages \in 0..MaxOutages
    /\ pc \in [Workers -> Steps] /\ req \in [Workers -> mix \cup {Nobody}]
    /\ at \in [Workers -> Time] /\ forgotAt \in Time \cup {-Duration}
    /\ met \in [Workers -> SUBSET Marks]

(* How many requests were admitted in the Duration that ends at t. *)
Admitted(t) == Cardinality({p \in admitted : p[1] > t - Duration /\ p[1] <= t})

(* RateKept: no more than Rate requests are admitted in any Duration in     *)
(* which no admission was forgotten.  Admissions are forgotten when Redis   *)
(* loses its data, and when a worker writes back a history that another one *)
(* has replaced since: DRF's throttle takes no lock.                        *)
RateKept == forgotAt <= clock - Duration => Admitted(clock) <= Rate

(* RefusedOnlyWhenFull: whoever is answered 429 was preceded by Rate        *)
(* admissions within the Duration; refused requests count for nothing, and  *)
(* lost updates only ever err on the lenient side.                          *)
RefusedOnlyWhenFull == [][(\E w \in Workers : pc[w] = "get" /\ pc'[w] = "idle" /\ answer' = 429)
        => Admitted(clock) >= Rate]_vars

(* RolesStaySeparate: only facilitators own events and only seekers hold    *)
(* enrollments, and both exist, whatever is deleted under a request that    *)
(* has passed its permission test.                                          *)
RolesStaySeparate ==
    /\ owners \subseteq Facilitators \cap accounts
    /\ enrolled \subseteq (Seekers \cap accounts) \X owners

(* Why it works: a request past Permit was let through for its role, which  *)
(* belongs to the user; whether the account is still there is left to the   *)
(* foreign keys.                                                            *)
PassedInv ==
    \A w \in Workers :
        /\ pc[w] # "idle" => req[w] \in mix
        /\ pc[w] \notin {"idle", "permit"} =>
              /\ req[w].path \in Managing => req[w].token \in Facilitators
              /\ req[w].path \in Attending => req[w].token \in Seekers
        /\ pc[w] = "serve" /\ req[w].path \in {"edit", "destroy"} =>
              req[w].about = req[w].token

(* RolesInv: the types, that, and RolesStaySeparate, which together every   *)
(* step keeps.                                                              *)
RolesInv == TypeOK /\ PassedInv /\ RolesStaySeparate

(* BareErrorsExplained: a bare 500 says that Redis stopped under a          *)
(* throttled request or the mail server under one that sends a code; that a *)
(* row the request needed was deleted under it; that the account has no     *)
(* Profile (admin users, at login and verify); that a cancel ran beside a   *)
(* DELETE of its event or on a counter that has drifted, a DELETE beside an *)
(* enroll or a cancel; or that a PATCH had seats to go below.  A request    *)
(* that meets with none of these gets a shaped answer.                      *)
Explained(w) ==
    LET r == req[w]
    IN \/ r.path \in Throttled /\ "redis" \in met[w]
       \/ r.path \in Mailing /\ "mail" \in met[w]
       \/ r.path \notin Reads /\ "deletion" \in met[w]
       \/ r.path \in {"login", "verify"} /\ r.about \in Strangers
       \/ r.path = "cancel" /\ ("destroy" \in met[w] \/ r.about \in drifted)
       \/ r.path = "destroy" /\ met[w] \cap {"enroll", "cancel"} # {}
       \/ r.path = "edit" /\ "seats" \in met[w]
BareErrorsExplained ==
    [][\A w \in Workers : pc[w] # "idle" /\ pc'[w] = "idle" /\ answer' = 500
        => Explained(w)]_vars
=============================================================================
